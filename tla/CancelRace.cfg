SPECIFICATION FairSpec
CONSTANTS
    i1 = i1  i2 = i2  w1 = w1
    Waiters = {w1}
    Cancellable = {w1}
    Isos = {i1}
    Cancellers = {k1}
    Lists <- JustOne
    Uses <- JustAny
    None = None
PROPERTIES
    CancelInterrupts
