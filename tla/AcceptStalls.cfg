SPECIFICATION Spec
CONSTANTS
    i1 = i1
    i2 = i2
    a1 = a1
    a2 = a2
    s1 = s1
    s2 = s2
    s3 = s3
    IO = {i1, i2}
    Main = Main
    AOV = {a1}
    Session = {s1, s2, s3}
    PreCnt = 1
    IncCnt = 1
    NoAOV = NoAOV
    NoSession = NoSession
    NoThread = NoThread
    MayFail = FALSE
    MayStop = FALSE
    CallsNet = FALSE
    Wrap = 8
SYMMETRY Symmetry
CHECK_DEADLOCK FALSE
INVARIANTS
    KeepsAccepting
