SPECIFICATION MCExportsSpec
CONSTANTS
    Docs = {d1, d2}
    Still = {d2}
    Cap = 1
    PanicThreshold = 1
    MaxGen = 1
    MaxText = 2
    MayPanic = {d1}
    SlowCompiles = {}
    Batches <- MCBatches
    Stem <- MCStem
    Pages = 2
INVARIANTS
    SettledIsLatest
    CompilingIsTransient
    NeverOlder
    AnswerIsTrue
CHECK_DEADLOCK FALSE
