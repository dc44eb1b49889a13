SPECIFICATION Spec
CONSTANTS
    NoBranch = NoBranch
    MaxRuns = 3
    MaxNames = 1
    MaxAuthor = 1
    MaxFaults = 1
    MaxCut = 1
    MaxMixed = 2
INVARIANT ReportsAreSound
PROPERTIES HistoryKept PushedIsShown
\* Users stop clicking.
CHECK_DEADLOCK FALSE
