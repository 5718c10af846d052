SPECIFICATION Spec
CONSTANTS
    h1 = h1  h2 = h2  t1 = t1  t2 = t2  c1 = c1  s1 = s1  s2 = s2  w1 = w1  w2 = w2
    None = None
    Hashes = {h1}
    Wallets = {w1, w2}
    HashOf <- HashOfFirst
    WalletOf <- OneWallet
    Handlers = {t1, t2}
    Cancels = {c1}
    Senders = {s1, s2}
    UsdInvoices = {h1}
    DustPaid = {}
    Interruptible <- BeforeMarkPaid
    MayLoseLock = FALSE
    MaxFaults = 1
INVARIANTS TypeOK FlagsTruthful NoSecondTransfer
PROPERTY ImplementsReceipt
SYMMETRY HandlerSymmetry
CHECK_DEADLOCK FALSE
