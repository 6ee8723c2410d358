SPECIFICATION Spec
CONSTANTS
    MaxText = 3
    MaxSignals = 4
INVARIANTS
    NoLostSignal
PROPERTIES
    SignalledIsCompiled
    Implements
CHECK_DEADLOCK FALSE
