SPECIFICATION FairSpec
CONSTANTS
    u1 = u1
    u2 = u2
    a = a
    b = b
    c = c
    k1 = k1
    k2 = k2
    User = {u1, u2}
    IP = {a, b, c}
    Checker = {k1, k2}
    Map = {m1, m2, m3}
    Nil = Nil
    Speed = {0, 1}
    Setups <- MCSetups
INVARIANTS
    PendingBounded
    KnownWasReported
    AdmittedCounts
    BucketHasSpeed
PROPERTIES
    EveryDeviceReported
