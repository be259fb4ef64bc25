SPECIFICATION FairSpec
CONSTANTS
    i1 = i1 i2 = i2 w1 = w1
    Waiters = {w1}
    Cancellable = {w1}
    Isos = {i1, i2}
    Cancellers = {k1}
    Lists <- OneOrBoth
    Uses <- Everything
    None = None
INVARIANTS
    TypeOK
    JoinerWakeup
    GateWakeup
    AnswersAreTrue
PROPERTIES
    WaitersReturn
