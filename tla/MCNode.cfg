SPECIFICATION NodeSpec
CONSTANTS
    alice = alice
    bob = bob
    Accounts <- MCAccounts
    Funds <- MCFunds
    Transactions <- MCTransactions
    BlockBodies <- MCBodies
    Stamps = {1}
    Validators <- MCValidators
    DirectTransactions = {}
    Callers = {"validation", "sync"}
    s1 = s1
    s2 = s2
    Starters <- MCStarters
    Submitters = {"client"}
    Submissions <- MCSubmissions
    MinTransactionsPerBlock = 1
    MaxPending = 1
    MaxChain = 2
    MaxDirect = 0
INVARIANTS NodeTypeOK SubmittedIsKept HeightFollowsChain BalancesFollowChain
    TerminatedByRaceOnly
SYMMETRY StartersAlike
CHECK_DEADLOCK FALSE
