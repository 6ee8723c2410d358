SPECIFICATION Spec
CONSTANTS
    Docs = {d1, d2}
    Cap = 1
    PanicThreshold = 2
    MaxGen = 1
    MaxText = 0
    MayPanic = {d1}
    SlowCompiles = {d2}
INVARIANTS
    PermitsConserved
PROPERTIES
    DrainedIsFinal
    PermitGranted
CHECK_DEADLOCK FALSE
