CONSTANTS
    p1 = p1
    p2 = p2
    t1 = t1
    t2 = t2
    c1 = c1
    r1 = r1
    NoPR = NoPR
    PR = {p1}
    Repo = {r1}
    RepoOf <- OneRepo
    Task = {t1, t2}
    Client = {c1}
    MaxConcurrent = 2
    Tick = 2
    MaxClock = 4
    MaxFaults = 1

SPECIFICATION Spec
SYMMETRY TaskSymmetry
INVARIANT StampNotBehindDiff
PROPERTY OnlyPushesRetrigger
INVARIANT PrefilterHidesNoPush
