SPECIFICATION Spec
CONSTANTS
    k1 = k1  k2 = k2  p1 = p1  p2 = p2  r1 = r1  w1 = w1
    None = None
    Payments = {p1}
    Rebalances = {r1}
    Wallets = {w1}
    WalletOf <- OneWallet
    Amount <- AmountTwo
    Fee <- FeeOne
    FeeDiffers = {p1}
    MaxTransfers = 2
    InitBalance <- BalanceSix
    SendFaults = {"lostAnswer", "revert", "loseLock"}
    Slots = {k1, k2}
    MaxLog = 3
    StreamFaults = {"handler", "persist", "stream", "crash"}
    MaxFaults = 2
INVARIANTS TypeOK LedgerFollowsBria EventsCovered GivenBackOnce
SYMMETRY SlotSymmetry
CHECK_DEADLOCK FALSE
