SPECIFICATION FairSpec
CONSTANTS
    i1 = i1
    i2 = i2
    a1 = a1
    a2 = a2
    s1 = s1
    s2 = s2
    s3 = s3
    IO = {i1, i2}
    Main = Main
    AOV = {a1, a2}
    Session = {s1, s2}
    PreCnt = 1
    IncCnt = 1
    NoAOV = NoAOV
    NoSession = NoSession
    NoThread = NoThread
    MayFail = TRUE
    MayStop = TRUE
    CallsNet = TRUE
    Wrap = 8
INVARIANTS
    CountersExact
    SessionOnce
CHECK_DEADLOCK FALSE
PROPERTIES
    StopEnds
