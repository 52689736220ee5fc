\* Two writers and one reader over one zone.
SPECIFICATION Spec
CONSTANTS
    Apexes <- MCApexes
    Keys <- MCKeys
    Names <- MCNames
    Procs <- MCProcs
    Ids = {i1, i2}
    Vals = {v1}
    Writers = {w1, w2}
    Xfers = {x1}
    MaxZones = 3
    BatchSize = 2
SYMMETRY Symmetry
INVARIANTS TypeOK TransferComplete
PROPERTY ImplementsZoneStore
