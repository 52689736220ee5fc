\* Two writers on one record at the same time.
SPECIFICATION Spec
CONSTANTS
    Apexes = {z1}
    Ids = {r1}
    Keys = {k1}
    Vals = {v1, v2}
    Nodes = {n1}
    Reqs = {q1, q2}
    Nil = Nil
    MaxClock = 4
    MaxLag = 0
    MaxFaults = 0
    MayRename = FALSE
    MayRepost = FALSE
    Overlap = TRUE
    Accepts = {FALSE}
INVARIANT
    StaleCopyIsTemporary
