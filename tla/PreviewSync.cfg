SPECIFICATION Spec
CONSTANTS
    Pages <- MCPages
    Texts <- ThreeTexts
    Broken <- OneBroken
    FirstText <- Plain
    None = None
    Hole = Hole
    MaxRev = 2
    MaxQueue = 2
    MaxLost = 1
    MaxReload = 1
INVARIANTS
    RevisionNamesText
    QuiescentBuffer
    MapFaithful
PROPERTIES
    CatchesUp
CHECK_DEADLOCK FALSE
