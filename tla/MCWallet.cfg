SPECIFICATION Spec
CONSTANTS
    Nothing = Nothing
    k1 = k1
    k2 = k2
    k3 = k3
    w1 = w1
    w2 = w2
    Keys <- MCKeys
    Wallets <- MCWallets
    Coins <- MCCoins
    InputHash <- MCInputHash
    OutputHash <- MCOutputHash
    Amounts = {1, 2}
    Texts = {"hello"}
    Vectors = {"v1"}
    MaxMade = 2
    MaxReceived = 1
INVARIANT PaymentVerifies
SYMMETRY Alike
CHECK_DEADLOCK FALSE
