SPECIFICATION Spec
CONSTANTS
    Eden = 1
    Survivor = 3
    Tenured = 3
    MaxEpoch = 2
    MaxObjects = 3
    SlotOrder <- OneSlot
    Key = "item"
    Trace = "item"
    RaiseKept = FALSE
    Callers <- Nested
INVARIANTS
    TypeOK
    NothingDangles
    RememberedIsComplete
    AddressesAreCurrent
PROPERTIES
    CollectionsDoTheirWork
    CollectionsAreInvisible
