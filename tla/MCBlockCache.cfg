SPECIFICATION Spec
CONSTANTS
    Accounts = {"alice", "bob"}
    Transactions <- MCTransactions
    BlockBodies <- MCBodies
    Stamps = {1}
    Callers = {c1, c2}
    MaxBlockCacheSize = 2
    MaxTxCacheSize = 2
INVARIANTS TypeOK IteratorsValid UndisturbedBlockIsComplete
PROPERTY CachesAreLRU
CHECK_DEADLOCK FALSE
