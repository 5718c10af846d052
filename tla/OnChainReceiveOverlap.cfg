SPECIFICATION Spec
CONSTANTS
    k1 = k1  k2 = k2  u1 = u1  u2 = u2
    None = None  Expiring = Expiring  First = First  Own = Own
    Utxos = {u1, u2}
    Slots = {k1, k2}
    MaxLog = 4
    StreamFaults = {"handler", "persist", "stream", "crash"}
    MaxFaults = 1
    LockLoss = FALSE
INVARIANTS CreditedOnce AddressRotated AddressesDistinct
SYMMETRY Symmetry
VIEW WithoutOvertaken
CHECK_DEADLOCK FALSE
