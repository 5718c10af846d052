SPECIFICATION Spec
CONSTANTS
    a1 = a1  a2 = a2  a3 = a3  u1 = u1  u2 = u2
    h1 = h1  h2 = h2  btc = btc  usd = usd
    None = None
    Attempts = {a1, a2}
    Updaters = {u1, u2}
    Hashes = {h1, h2}
    Wallets = {btc, usd}
    HashOf <- HashOfTwo
    WalletOf <- WalletOfTwo
    Amount <- AmountOne
    MaxFee <- FeeOne
    RouteKnown = {a1}
    ZeroDisplayFee = {}
    UsdWallets = {usd}
    BtcWalletOf <- BothBtc
    InitBalance <- BalanceTwo
    FaultKinds = {"loseLock"}
    MaxFaults = 1
INVARIANTS ChargedExactly StatusTruthful
PROPERTY PendingWhileInFlight
SYMMETRY UpdaterSymmetry
CHECK_DEADLOCK FALSE
