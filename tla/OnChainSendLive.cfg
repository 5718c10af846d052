SPECIFICATION FairSpec
CONSTANTS
    k1 = k1  k2 = k2  p1 = p1  p2 = p2  r1 = r1  w1 = w1
    None = None
    Payments = {p1, p2}
    Rebalances = {r1}
    Wallets = {w1}
    WalletOf <- OneWallet
    Amount <- AmountTwo
    Fee <- FeeOne
    FeeDiffers = {p1}
    MaxTransfers = 2
    InitBalance <- BalanceFive
    SendFaults = {}
    Slots = {k1}
    MaxLog = 6
    StreamFaults = {"handler"}
    MaxFaults = 2
INVARIANT BalanceNonNegative
PROPERTY PayoutsEventuallyFollowed
CHECK_DEADLOCK FALSE
