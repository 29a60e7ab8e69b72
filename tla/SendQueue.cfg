SPECIFICATION FairSpec
CONSTANTS
    u1 = u1
    u2 = u2
    i1 = i1
    i2 = i2
    s1 = s1
    s2 = s2
    s3 = s3
    s4 = s4
    s5 = s5
    User = {u1, u2}
    IO = {i1, i2}
    SOV = {s1, s2, s3}
    NoSOV = NoSOV
    ArrCnt = 2
    StepCnt = 1
    MaxMsg = 4
INVARIANTS
    SOVOwnership
    CountExact
    NoStranded
    ReleasedOnce
    OvertakerIsFull
PROPERTIES
    SendsDrain
    ChannelFairSpec
CHECK_DEADLOCK FALSE
