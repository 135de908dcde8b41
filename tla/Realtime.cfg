SPECIFICATION FairSpec
CONSTANTS
    Setups <- MCSetups
    MaxVer = 1
    MaxSession = 2
    MaxWire = 1
    ChanCap = 1
    SendCap = 1
INVARIANTS
    AppliedReceiptsTrue
PROPERTIES
    NoticesHandled
    CloseEnds
CHECK_DEADLOCK FALSE
