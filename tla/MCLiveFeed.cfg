SPECIFICATION FairSpec
CONSTANTS
    Capacity = 3
    Limit = 2
    FeedCap = 2
    NoStatus = NoStatus
    MaxEvents = 3
    MaxChanges = 1
    MaxFaults = 1
INVARIANTS ShownOnce PageFollows
PROPERTIES NoToastIsExplained OwedAreShown
