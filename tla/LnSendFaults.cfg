SPECIFICATION FairSpec
CONSTANTS
    a1 = a1  a2 = a2  a3 = a3  u1 = u1  u2 = u2
    h1 = h1  h2 = h2  btc = btc  usd = usd
    None = None
    Attempts = {a1}
    Updaters = {u1, u2}
    Hashes = {h1}
    Wallets = {btc, usd}
    HashOf <- HashOfRetry
    WalletOf <- WalletOfUsd
    Amount <- AmountOne
    MaxFee <- FeeOne
    RouteKnown = {}
    ZeroDisplayFee = {}
    UsdWallets = {usd}
    BtcWalletOf <- BothBtc
    InitBalance <- BalanceTwo
    FaultKinds = {"interrupt", "dropConnection", "loseLock"}
    MaxFaults = 2
INVARIANT AtMostOneCredit
PROPERTY PendingEventuallyResolved
CHECK_DEADLOCK FALSE
