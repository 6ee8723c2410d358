SPECIFICATION Spec
CONSTANTS
    AllParts = {"packages", "index", "workspace", "bridge", "installer"}
    Commands = {1, 2, 3}
    Template = {"main.typ", "refs.bib"}
    Readers = {1, 2}
    MaxIndex = 3
    Threads = {t1, t2}
    Roots = {"home", "other"}
    Home = "home"
    Mains = {""}
    Dirs = {"sub", "out"}
    MaxChanges = 3
    Managers = {1, 2}
    Sockets = {1, 2}
    Jump = 6
    Backoff = 1
    MaxFaults = 3
    Installs = {1, 2, 3}
    DownloadAttempts = 2
    Releases = {"runs", "fails", "none"}
INVARIANTS
    PackagesAreWhole
    IndexAgrees
    WorkspaceSettles
    OneServerAtATime
    ClientFollows
    BinaryIsSafe
SYMMETRY Symmetry
CHECK_DEADLOCK FALSE
