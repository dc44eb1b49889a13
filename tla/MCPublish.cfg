SPECIFICATION FairSpec
CONSTANTS
    Finding = {f1, f2, f3}
    Placed = {f1, f2}
    P1 = {f1}
    Modal = Modal
    MaxPublish = 2
    MaxMisled = 1
INVARIANTS PublishIsExact NoNeedlessFallback
PROPERTIES StagedNeverDropped EveryPublishEnds
\* Users stop clicking.
CHECK_DEADLOCK FALSE
