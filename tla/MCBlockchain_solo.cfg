SPECIFICATION Spec
CONSTANTS
    alice = alice
    bob = bob
    bank = bank
    Accounts <- MCAccounts
    Transactions <- MCTransactions
    BlockBodies <- MCBodies
    Stamps = {1}
    Validators <- MCValidators
    DirectTransactions <- MCDirect
    Callers = {c1}
    MaxChain = 3
    MaxDirect = 1
INVARIANTS TypeOK ChainLinked OverdraftHasItsBlock
PROPERTY LedgerSpec
CHECK_DEADLOCK FALSE
