SPECIFICATION Spec
CONSTANTS
    a1 = a1  a2 = a2  a3 = a3  u1 = u1  u2 = u2
    h1 = h1  h2 = h2  btc = btc  usd = usd
    None = None
    Attempts = {a1, a2, a3}
    Updaters = {u1}
    Hashes = {h1, h2}
    Wallets = {btc, usd}
    HashOf <- HashOfRetryAndOther
    WalletOf <- WalletOfBtc
    Amount <- AmountGrows
    MaxFee <- FeeOne
    RouteKnown = {}
    ZeroDisplayFee = {a3}
    UsdWallets = {usd}
    BtcWalletOf <- BothBtc
    InitBalance <- BalanceFive
    FaultKinds = {}
    MaxFaults = 0
INVARIANTS BalanceNonNegative OnePendingPerHash RefundedNeverPaid
CHECK_DEADLOCK FALSE
