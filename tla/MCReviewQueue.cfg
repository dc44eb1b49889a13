SPECIFICATION FairSpec
CONSTANTS
    Key = {k1, k2}
    NoStream = NoStream
    MaxOrphans = 0
    MaxAsked = 2
    Caps = {1, 2}
INVARIANT SlotsAreExact
PROPERTIES LiveStaysShown CapRespected NoneForgotten QueuedGetTheirTurn
