SPECIFICATION FairSpec
CONSTANTS
    t1 = t1
    t2 = t2
    Thread = {t1, t2}
    Confs <- MCConfs
    Day = 2
    Roll = 1
    NoFile = NoFile
    MaxClock = 6
    MaxFail = 1
    MaxLife = 2
INVARIANTS
    LineOnce
    ThreadOrder
    DailyFile
    RollingBounded
    Durable
PROPERTIES
    QueueDrains
CHECK_DEADLOCK FALSE
