--------------------------- MODULE GatherChannel ---------------------------
(***************************************************************************)
(* What the send path of a connection promises, with no thread, lock or    *)
(* overlapped structure in it.  Buffers queue up; the queue as a whole     *)
(* becomes a transfer when no transfer is under way or when it is full; a  *)
(* transfer settles (sent or failed) in one piece; a queue left behind by  *)
(* the last transfer is flushed as long as the channel is open.            *)
(* SendQueue is shown to implement it.                                     *)
(***************************************************************************)
EXTENDS Naturals, Sequences

CONSTANTS ArrCnt,  \* buffers in a full transfer
          MaxMsg   \* bound: buffers submitted in one behaviour

VARIABLES queued,  \* the buffers that wait, oldest first
          flight,  \* the transfers under way
          open,    \* FALSE once the connection is dropped
          count    \* buffers submitted so far, numbered in that order

chvars == <<queued, flight, open, count>>

Init ==
    /\ queued = <<>>
    /\ flight = {}
    /\ open = TRUE
    /\ count = 0

\* `list` waits now; it leaves at once when it may.
Queue(list) ==
    IF flight = {} \/ Len(list) = ArrCnt
    THEN queued' = <<>> /\ flight' = flight \cup {list}
    ELSE queued' = list /\ UNCHANGED flight

Submit ==
    /\ count < MaxMsg
    /\ count' = count + 1
    /\ Queue(Append(queued, count + 1))
    /\ UNCHANGED open

Flush ==
    /\ queued # <<>>
    /\ flight = {}
    /\ Queue(queued)
    /\ UNCHANGED <<open, count>>

Settle(b) ==
    /\ b \in flight
    /\ flight' = flight \ {b}
    /\ UNCHANGED <<queued, open, count>>

Close ==
    /\ open
    /\ open' = FALSE
    /\ UNCHANGED <<queued, flight, count>>

Next == Submit \/ Flush \/ Close \/ \E b \in flight : Settle(b)

Spec == Init /\ [][Next]_chvars

Carries(b, m) == \E i \in 1..Len(b) : b[i] = m

Fairness ==
    /\ WF_chvars(open /\ Flush)
    /\ \A m \in 1..MaxMsg :
          WF_chvars(\E b \in flight : Carries(b, m) /\ Settle(b))

FairSpec == Spec /\ Fairness
============================================================================
