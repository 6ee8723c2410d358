SPECIFICATION RecoverySpec
CONSTANTS
    Docs = {d1}
    MaxRev = 2
    MaxQueue = 2
    MaxSessions = 2
    NoText = NoText
INVARIANTS
    SnapshotsFollow
    OwedIsOffered
PROPERTIES
    EditIsSnapshotted
CHECK_DEADLOCK FALSE
