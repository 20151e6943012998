SPECIFICATION Spec
CONSTANTS
    Nothing = Nothing
    k1 = k1
    k2 = k2
    k3 = k3
    w1 = w1
    w2 = w2
    x = x
    y = y
    Pieces <- MCPieces
    Amounts = {1, 2}
    Keys = {k1, k2}
    Texts = {"hello"}
    Vectors = {"v1", "v2"}
    InputHash <- MCInputHash
    OutputHash <- MCOutputHash
    Coins <- MCCoins
    Calls <- MCCalls
    MaxSteps = 4
    Wallets = {w1, w2}
    WalletKeys = {k1, k2, k3}
    WalletVectors = {"v1"}
    MaxMade = 1
    MaxReceived = 1
    Hashes = {"t1", "t2"}
    Priorities = {1, 2}
    Ages = {0, 1}
    Counts = {1, 3}
    MaxSize = 3
    MaxAge = 0
    MaxClock = 1
    Bytecodes <- MCBytecodes
    Owners <- MCOwners
    Methods = {"custom"}
    StateKeys = {"a", "b"}
    StateValues = {1, 2}
    MaxCalls = 4
    NonceSize = 4
    DigestLength = 2
    Leaves <- MCLeaves
    MaxLeaves = 5
    WordSize = 256
    StakeAmounts <- MCStakeAmounts
    MaxStake = 1
    Senders <- MCSenders
    Payloads <- MCPayloads
    Strays <- MCStrays
    Times <- MCTimes
    MaxMessages = 1
    MaxSigned = 1
INVARIANTS VerifiesOnlyAsSigned WalletTypeOK StorageIsLastWritten RootTellsLists VerifiedAsSigned
PROPERTIES PoolSpec SolvableIsMined ReputationStaysInRange
CHECK_DEADLOCK FALSE
