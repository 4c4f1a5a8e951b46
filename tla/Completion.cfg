SPECIFICATION FairSpec
CONSTANTS
    k1 = k1
    s1 = s1
    s2 = s2
    n1 = n1
    n2 = n2
    n3 = n3
    c1 = c1
    c2 = c2
    c3 = c3
    w1 = w1
    NoKey = NoKey
    ForeignDid = ForeignDid
    Calls = {c1, c2}
    Keys = {k1, n1, n2}
    SignerKeys = {}
    Wallets = {w1}
    WalletOf <- MCOneWallet
    NewKey <- MCNewKey
    InitialEin <- MCInitialEin
    LastEin = 2
    StoredWallets <- MCOneSound
    MaxTime = 1
    MaxReceiptTries = 1
    Replies = {"txId", "error"}
    Sequential = FALSE
PROPERTIES EveryCallCompletes
CHECK_DEADLOCK FALSE
