SPECIFICATION Spec
CONSTANTS
    t1 = t1
    t2 = t2
    t3 = t3
    m1 = m1
    m2 = m2
    m3 = m3
    Thread = {t1, t2}
    Node = {m1, m2}
    Null = Null
    Wrap = 8
    MaxPop = 4
SYMMETRY Symmetry
INVARIANTS
    NodeOnce
CHECK_DEADLOCK FALSE
