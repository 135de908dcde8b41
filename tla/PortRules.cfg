SPECIFICATION Spec
CONSTANTS
    MaxPort = 4
    MaxChunk = 2
    Token <- SmallTokens
    InfoLists <- SomeLists
CHECK_DEADLOCK FALSE
INVARIANTS
    RulesExact
    RefusalsExact
    RulesDisjoint
    ServerPortsFree
