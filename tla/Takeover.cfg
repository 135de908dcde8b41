SPECIFICATION MCSpec
CONSTANTS
    c1 = c1
    c2 = c2
    u1 = u1
    u2 = u2
    Controller = {c1, c2}
    User = {u1, u2}
    Nil = Nil
    Setups <- MCSetups
INVARIANTS
    HandedOver
    SnapshotsExact
PROPERTIES
    TasksAreJobs
    Converges
