SPECIFICATION FairSpec
CONSTANTS
    Profile = {1, 2}
    Id = {i}
    Nil = Nil
    Modes <- AllModes
    Routed = {1}
    MaxChanges = 2
    MaxEdits = 1
    MaxSaves = 2
    MaxFaults = 2
INVARIANTS
    SlotsMatchCore
    ChangeNotForgotten
    RoutesInCore
PROPERTIES
    OnlyChangedNodesStop
    Converges
