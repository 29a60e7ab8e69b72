SPECIFICATION FairSpec
CONSTANTS
    Worker = {"worker"}
    Crashes = {"STACK_OVERFLOW", "SIGINT"}
    MaxDump = 2
    MaxRefuse = 1
    Modes = {"console", "service", "linux"}
    MaxControl = 2
    MaxEvent = 2
INVARIANTS
    Cleanup
    EndsIfAsked
    LastWord
PROPERTIES
    Ends
CHECK_DEADLOCK FALSE
