\* Two writers at once, over two domains.
SPECIFICATION Spec
CONSTANTS
    Apexes = {z1, z2}
    Ids = {r1}
    Keys = {k1}
    Vals = {v1, v2}
    Nodes = {n1}
    Reqs = {q1, q2}
    Nil = Nil
    MaxClock = 3
    MaxLag = 1
    MaxFaults = 0
    MayRename = FALSE
    MayRepost = TRUE
    Overlap = TRUE
    Accepts = {TRUE, FALSE}
SYMMETRY Symmetry
INVARIANTS
    TypeOK
    ServesCommittedRows
    OneCopyPerRecord
