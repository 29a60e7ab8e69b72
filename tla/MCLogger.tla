------------------------------ MODULE MCLogger ------------------------------
(* Small instances of Logger for TLC. *)
EXTENDS Logger

CONSTANTS t1, t2

\* Each kind of log written by its callers and by the LogThread.  Four lines over
\* three files use up what RollingBounded allows for a restart, or for a failed open.
Daily(queues) ==
    [rolling |-> FALSE, async |-> queues, size |-> 1, cnt |-> 1, lines |-> 3, most |-> 1]
Rolling(queues, files, n) ==
    [rolling |-> TRUE, async |-> queues, size |-> 1, cnt |-> files, lines |-> n, most |-> 2]

MCConfs == {Daily(TRUE), Daily(FALSE), Rolling(TRUE, 2, 3), Rolling(FALSE, 3, 4)}
============================================================================
