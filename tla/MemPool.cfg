SPECIFICATION PoolSpec
CONSTANTS
    t1 = t1
    t2 = t2
    t3 = t3
    m1 = m1
    m2 = m2
    m3 = m3
    m4 = m4
    m5 = m5
    Thread = {t1, t2, t3}
    Node = {m1, m2, m3, m4, m5}
    Null = Null
    InitCnt = 1
    StepCnt = 2
    Wrap = 16
SYMMETRY Symmetry
INVARIANTS
    PoolSound
PROPERTIES
    UseInRange
CHECK_DEADLOCK FALSE
