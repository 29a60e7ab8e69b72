SPECIFICATION FairSpec
CONSTANTS
    i1 = i1
    i2 = i2
    s1 = s1
    s2 = s2
    c1 = c1
    IO = {i1, i2}
    Session = {s1, s2}
    Client = {c1}
    NoSession = NoSession
INVARIANTS
    OneReceive
    SafeDelete
PROPERTIES
    ThreadsEnd
CHECK_DEADLOCK FALSE
