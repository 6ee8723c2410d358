SPECIFICATION Spec
CONSTANTS
    AllParts = {"file", "settings", "session", "tabs", "dependents"}
    Writers = {w1}
    MaxGen = 4
    MaxCrashes = 2
    SettingDefs <- MCSettingDefs
    SettingValues <- MCSettingValues
    HandValues <- MCHandValues
    Setters = {t1, t2}
    MaxSets = 3
    MaxHandEdits = 1
    MaxLoads = 1
    Folders = {"a", "b", "c"}
    RecentLists <- MCRecentLists
    DocLists <- MCDocLists
    MaxRecent = 2
    Updaters = {t1, t2}
    MaxUpdates = 3
    MaxStarts = 1
    Ids = {d1, d2}
    Paths = {"a", "b"}
    InRoot = {"a"}
    Renames <- MCRenames
    Threads = {t1, t2}
    MaxAttempts = 2
    MaxObj = 4
    MaxText = 2
    MaxOps = 4
    NoId = NoId
    NoPath = NoPath
    Files = {"main", "part", "leaf"}
    Documents = {"main", "part"}
    MaxVersion = 2
    Includes <- MCIncludes
INVARIANTS
    NeverTorn
    SettingsHold
    LoneUpdatesAreDurable
    OneDocumentPerPath
    StoresAgree
    DependentsFollow
PROPERTIES
    NoAckedLoss
    SwapKeepsText
CHECK_DEADLOCK FALSE
