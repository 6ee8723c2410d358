SPECIFICATION Spec
CONSTANTS
    AllParts = {"replace", "search", "edits", "bib", "map", "entries"}
    Files = {1, 2}
    MaxRetries = 2
    MaxEdits = 2
    MaxIds = 3
    Alphabet = {"a", "A", "I.", "em", "LF", "CR"}
    Needles <- MCNeedles
    NewTexts <- MCNewTexts
    Positions <- MCPositions
    MaxLength = 3
    MaxHits = 2
    Paths = {"p", "q"}
    Extension <- MCExtension
    Entries <- MCEntries
    Originals <- MCOriginals
    Typesets <- MCTypesets
    Trees <- MCTrees
    Inputs <- MCInputs
    Root <- Ws
    MaxDepth = 4
    MaxCommands = 2
    MaxActs = 3
INVARIANTS
    ReplaceIsSafe
    SplicesAreExact
    
    DerivedIsTrue
PROPERTIES
    EntriesAreSafe
CHECK_DEADLOCK FALSE
