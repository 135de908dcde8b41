SPECIFICATION FairSpec
CONSTANTS
    u1 = u1
    f1 = f1
    c1 = c1
    c2 = c2
    User = {u1}
    EdgeUser = {u1, f1}
    Conn = {c1, c2}
    Storage = {s1, s2, s3}
    Nil = Nil
    Last = 2
    Setups <- MCSetups
INVARIANTS
    NoByteLost
    NoByteTwice
PROPERTIES
    EventuallyReported
