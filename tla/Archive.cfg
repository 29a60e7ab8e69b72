SPECIFICATION ArchiveSpec
CONSTANTS
    Type <- MCType
    Nesting = 2
    Bodies <- MCBodies
    Values <- MCValues
    CntSize = 4
    LenSize = 4
    TypeSize = 2
    PacketType = 1
    Fail = TRUE
INVARIANTS
    RoundTrip
    Framed
CHECK_DEADLOCK FALSE
