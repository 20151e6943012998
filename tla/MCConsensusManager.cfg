SPECIFICATION FairSpec
CONSTANTS
    alice = alice
    bob = bob
    Accounts <- MCAccounts
    Transactions <- MCTransactions
    BlockBodies <- MCBodies
    Stamps = {1}
    Validators <- MCValidators
    MaxRequired = 2
    MaxActive = 3
    MaxRounds = 2
INVARIANTS TypeOK NeverAchieved HistoryBeginsWithoutVotes VotesAreOnThisBlock
PROPERTY CallEnds
CHECK_DEADLOCK FALSE
