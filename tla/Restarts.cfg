SPECIFICATION StoreSpec
CONSTANTS
    k1 = k1
    s2 = s2
    n1 = n1
    n2 = n2
    c1 = c1
    c2 = c2
    w1 = w1
    NoKey = NoKey
    ForeignDid = ForeignDid
    Calls = {c1, c2}
    Keys = {k1, s2, n1, n2}
    SignerKeys = {s2}
    Wallets = {w1}
    WalletOf <- MCOneWallet
    NewKey <- MCNewKey
    InitialEin <- MCInitialEin
    LastEin = 1
    StoredWallets <- MCSound
    MaxTime = 2
    MaxReceiptTries = 1
    Replies = {"txId", "error"}
    Sequential = TRUE
    MaxCrashes = 1
INVARIANTS RequestMatchesSignature StoreTypeOK SavedIsRestorable
PROPERTIES RestoredCanDelete SuccessSurvivesCrash
CHECK_DEADLOCK FALSE
SYMMETRY CallSymmetry
