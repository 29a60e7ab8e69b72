SPECIFICATION FairSpec
CONSTANTS
    u1 = u1
    i1 = i1
    i2 = i2
    User = {u1}
    IO = {i1, i2}
    NoThread = NoThread
    Setups <- MCSetups
    MaxTry = 2
    Wrap = 8
INVARIANTS
    Alternation
    InitClean
    NoCrash
    TeardownWhenIdle
PROPERTIES
    ForcedEnds
    ForcedReleaseDeletes
CHECK_DEADLOCK FALSE
