SPECIFICATION AttestationSpec
CONSTANTS
    k1 = k1
    s2 = s2
    n1 = n1
    n2 = n2
    c1 = c1
    c2 = c2
    w1 = w1
    i1 = i1
    v1 = v1
    NoKey = NoKey
    ForeignDid = ForeignDid
    Calls = {c1}
    Keys = {k1, s1, s2, n1, n2}
    SignerKeys = {s1, s2}
    Wallets = {w1}
    WalletOf <- MCOneWallet
    NewKey <- MCNewKey
    InitialEin <- MCInitialEin
    LastEin = 1
    StoredWallets <- MCStored
    MaxTime = 1
    MaxReceiptTries = 1
    Replies = {"txId"}
    Sequential = TRUE
    Issues = {i1}
    IssuerOf <- MCOneIssuer
    GivenKeys = {s2}
    Checks = {v1}
INVARIANTS FalseMeansForged
CHECK_DEADLOCK FALSE
