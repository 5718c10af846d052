SPECIFICATION FairSpec
CONSTANTS
    h1 = h1  h2 = h2  t1 = t1  t2 = t2  c1 = c1  s1 = s1  s2 = s2  w1 = w1  w2 = w2
    None = None
    Hashes = {h1, h2}
    Wallets = {w1, w2}
    HashOf <- HashOfFirst
    WalletOf <- OneWallet
    Handlers = {t1}
    Cancels = {c1}
    Senders = {}
    UsdInvoices = {h2}
    DustPaid = {h2}
    Interruptible <- BeforeMarkPaid
    MayLoseLock = TRUE
    MaxFaults = 1
INVARIANT CreditedOnlyIfSettled
PROPERTY HeldEventuallyEnds
CHECK_DEADLOCK FALSE
