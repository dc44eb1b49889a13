SPECIFICATION FairSpec
CONSTANTS
    Strictness = {TRUE, FALSE}
    PromptSize = 2
    PipeSize = 1
    MaxOut = 2
    MaxErr = 1
    Faults <- FaultKind
INVARIANTS OutputIsComplete NothingOutlives
PROPERTY OverUnlessStarved
\* A run ends.
CHECK_DEADLOCK FALSE
