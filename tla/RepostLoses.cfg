\* A POST of a domain that is already active.
SPECIFICATION Spec
CONSTANTS
    Apexes = {z1}
    Ids = {r1}
    Keys = {k1}
    Vals = {v1, v2}
    Nodes = {n1}
    Reqs = {q1}
    Nil = Nil
    MaxClock = 4
    MaxLag = 0
    MaxFaults = 0
    MayRename = FALSE
    MayRepost = TRUE
    Overlap = FALSE
    Accepts = {FALSE}
INVARIANT
    RecordChangeNotLost
