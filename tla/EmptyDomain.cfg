\* Two instances; one domain is created, through one of them.
SPECIFICATION FairSpec
CONSTANTS
    Apexes = {z1}
    Ids = {r1}
    Keys = {k1}
    Vals = {v1}
    Nodes = {n1, n2}
    Reqs = {q1}
    Nil = Nil
    MaxClock = 1
    MaxLag = 0
    MaxFaults = 0
    MayRename = FALSE
    MayRepost = FALSE
    Overlap = FALSE
    Accepts = {FALSE}
PROPERTY
    EveryDomainServed
