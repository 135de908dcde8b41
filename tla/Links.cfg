SPECIFICATION FairLinksSpec
CONSTANTS
    Link = {c1, c2}
    Manager = {m1, m2, m3}
    NoManager = NoManager
    MaxLife = 2
INVARIANTS
    DeletedUserCut
PROPERTIES
    DeletionEnds
