SPECIFICATION Spec
CONSTANTS
    u1 = u1
    u2 = u2
    i1 = i1
    i2 = i2
    Uuid = {u1, u2}
    Info = {i1}
    NoUser = NoUser
    Syncer = {periodic, realtime}
    Periodic = periodic
    MaxRev = 3
    MaxFaults = 2
SYMMETRY Symmetry
INVARIANTS
    StartCatchesUp
