SPECIFICATION Spec
CONSTANTS
    alice = alice
    bob = bob
    bank = bank
    Accounts <- MCAccounts
    Transactions <- MCTransactions
    BlockBodies <- FewBodies
    Stamps = {1}
    Validators <- MCValidators
    DirectTransactions <- MCDirect
    Callers = {c1, c2}
    MaxChain = 2
    MaxDirect = 1
INVARIANT ChainLinked
CHECK_DEADLOCK FALSE
