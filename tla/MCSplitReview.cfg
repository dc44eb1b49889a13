SPECIFICATION FairSpec
CONSTANTS
    NChunks = 3
    MaxConcurrency = 2
    Synthesis = TRUE
    Providers = {"adapter", "switchable"}
    MaxEvents = 1
    Path <- Paths
    Diffs <- MCDiffs
    Sections <- MCSections
    MaxSize = 5
    Budget = 2
    Lines <- Asked
    Contexts <- Around
    Key <- Keys
    Reports <- MCReports
INVARIANTS NothingLeftBehind SavedIsExact SplitIsExact FindingIsShown MergeIsExact
PROPERTIES ImplementsContract EventuallyOver
\* The generator ends.
CHECK_DEADLOCK FALSE
