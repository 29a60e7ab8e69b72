SPECIFICATION Spec
CONSTANTS
    m1 = m1
    m2 = m2
    m3 = m3
    m4 = m4
    Mem = {m1, m2, m3}
    NoMem = NoMem
    Units = {2, 4}
    MaxUnit = 4
    DefaultSize = 4
    HeaderSize = 2
    MaxPacket = 5
    MaxSize = 10
    MaxStream = 8
    MaxHeld = 1
SYMMETRY Symmetry
INVARIANTS
    RecvHasRoom
    PendingIntact
    HeldIntact
    RefExact
CHECK_DEADLOCK FALSE
