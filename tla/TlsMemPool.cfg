SPECIFICATION Spec
CONSTANTS
    t1 = t1
    t2 = t2
    m1 = m1
    m2 = m2
    m3 = m3
    m4 = m4
    m5 = m5
    m6 = m6
    Thread = {t1, t2}
    Node = {m1, m2, m3, m4, m5, m6}
    Null = Null
    Caller = {t1}
    Confs <- MCConfs
    Wrap = 16
SYMMETRY Symmetry
INVARIANTS
    BlockOnce
    CacheBounded
    UseExact
CHECK_DEADLOCK FALSE
