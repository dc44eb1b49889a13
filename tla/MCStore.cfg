SPECIFICATION Spec
CONSTANTS
    k1 = k1
    k2 = k2
    v1 = v1
    v2 = v2
    Thread = {t1, t2}
    Repo = {r1, r2}
    Key = {k1, k2}
    Valid = {v1, v2}
    Invalid = {bad}
    Env <- OneEnv
    Default <- Defaults
    Other = {review}
    Missing = Missing
    Empty = Empty
    Garbage = Garbage
    MaxRequests = 3
    MaxFaults = 1
SYMMETRY ThreadRepoSymmetry
INVARIANTS NothingGarbled SerialIsExact NoListWithoutRepo
\* The requests end.
CHECK_DEADLOCK FALSE
