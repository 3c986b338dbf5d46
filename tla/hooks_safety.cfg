SPECIFICATION Spec
CONSTANTS
    NoStore = NoStore
    Thread = {t1, t2}
    MaxStores = 4
SYMMETRY Symmetry
INVARIANTS
    Inv
    NoSilentSession
    OneOpenStore
PROPERTIES
    NotClosedUnderneath
    ReadyUntilNextLoad
