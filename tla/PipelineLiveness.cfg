SPECIFICATION Spec
CONSTANTS
    Docs = {d1}
    Cap = 1
    PanicThreshold = 2
    MaxGen = 2
    MaxText = 1
    MayPanic = {}
    SlowCompiles = {}
PROPERTIES
    EditIsCompiled
CHECK_DEADLOCK FALSE
