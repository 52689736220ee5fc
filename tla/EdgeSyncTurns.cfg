\* Writers of a domain take turns; one connection loss, failed sync or crash.
SPECIFICATION FairSpec
CONSTANTS
    Apexes = {z1}
    Ids = {r1, r2}
    Keys = {k1}
    Vals = {v1, v2}
    Nodes = {n1}
    Reqs = {q1}
    Nil = Nil
    MaxClock = 4
    MaxLag = 0
    MaxFaults = 1
    MayRename = FALSE
    MayRepost = FALSE
    Overlap = FALSE
    Accepts = {TRUE, FALSE}
INVARIANTS
    RecordChangeNotLost
    ZoneDeletionNotLost
PROPERTY
    EventuallyConsistent
