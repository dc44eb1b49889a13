SPECIFICATION CommentsSpec
CONSTANTS
    Request = {r1, r2}
    None = None
    Tick = 2
    MaxClock = 2
    MaxComments = 2
    MaxDeleted = 1
    MaxVisits = 2
SYMMETRY RequestSymmetry
INVARIANTS NewOnce ThreadTellsReplies
\* Users stop clicking.
CHECK_DEADLOCK FALSE
