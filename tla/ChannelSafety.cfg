SPECIFICATION Spec
CONSTANTS
    t1 = t1 t2 = t2 t3 = t3
    c1 = c1 c2 = c2 m1 = m1 m2 = m2
    Threads = {t1, t2, t3}
    Isolates = {t3}
    Chans = {c1, c2}
    Msgs = {m1, m2}
    NoMsg = NoMsg NoChan = NoChan NoThread = NoThread
    Capacity <- SafetyCapacity
    Calls <- SafetyCalls
    MaxQueued = 1
INVARIANTS
    TypeOK
    NoLostWakeup
PROPERTIES
    Linearizable
