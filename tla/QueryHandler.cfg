\* Two records in two nested zones, up to two states of the store per query
\* beside the first.
SPECIFICATION Spec
CONSTANTS
    Apexes <- MCApexes
    Keys <- MCKeys
    Vals <- MCVals
    QNames <- MCQNames
    Targets <- MCTargets
    ip = ip
    Ids = {1, 2}
    MayTrigger = TRUE
    MaxWrites = 2
INVARIANTS ClaimsHeld StableAnswer
