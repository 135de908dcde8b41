SPECIFICATION FairForwardSpec
CONSTANTS
    Tools <- OneTool
    Rules <- TwoRules
    Plans <- SomePlans
    Foreign = {"f1", "f2"}
    Start <- Leftovers
    MaxFaults = 1
    MaxEdits = 1
    MaxCli = 1
INVARIANTS
    OkIsTrue
    ServiceExact
PROPERTY
    Converges
    ForeignKept
