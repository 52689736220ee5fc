\* A stamp that trails its commit by one.
SPECIFICATION Spec
CONSTANTS
    Apexes = {z1}
    Ids = {r1}
    Keys = {k1}
    Vals = {v1, v2}
    Nodes = {n1}
    Reqs = {q1}
    Nil = Nil
    MaxClock = 4
    MaxLag = 1
    MaxFaults = 0
    MayRename = FALSE
    MayRepost = FALSE
    Overlap = FALSE
    Accepts = {FALSE}
INVARIANT
    RecordChangeNotLost
