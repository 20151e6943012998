SPECIFICATION Spec
CONSTANTS
    alice = alice
    bob = bob
    Accounts <- MCAccounts
    Transactions <- MCTransactions
    BlockBodies <- MCBodies
    Stamps = {1}
    Validators <- MCValidators
    MaxRequired = 2
    MaxActive = 3
    MaxRounds = 2
PROPERTY UnanimityAchieves
CHECK_DEADLOCK FALSE
