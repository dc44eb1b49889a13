CONSTANTS
    p1 = p1
    p2 = p2
    t1 = t1
    t2 = t2
    c1 = c1
    r1 = r1
    NoPR = NoPR
    PR = {p1}
    Repo = {r1}
    RepoOf <- OneRepo
    Task = {t1}
    Client = {}
    MaxConcurrent = 1
    Tick = 1
    MaxClock = 2
    MaxFaults = 0

SPECIFICATION FairSpec
PROPERTY WatchedPRsCatchUp
