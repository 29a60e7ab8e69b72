----------------------------- MODULE SendQueue -----------------------------
(***************************************************************************)
(* The send path of one TCP connection of ven: SessionTCP::send and        *)
(* SessionTCP::_on_send (net/session_tcp.h) over SBuf (net/sbuf.h), the    *)
(* gather list of an SOV (net/buf_array.h) and the SOVPool                 *)
(* (net/sov_pool.h).                                                       *)
(*                                                                         *)
(* Any thread may call send(Buf&).  The buffer is appended, under s_lock_, *)
(* to the gather list of the current SOV; the SOV is taken for WSASend     *)
(* when nothing is being sent or when its list is full.  WSASend itself    *)
(* runs outside s_lock_.  A completion clears the list, gives the SOV back *)
(* and, when buffers piled up meanwhile, sends again with an empty Buf.    *)
(*                                                                         *)
(* The module covers a connection from SBuf::init to the moment it is      *)
(* found dropped and its last send completes; SBuf::uninit, which races    *)
(* with late senders, belongs to SessionTCP.                               *)
(***************************************************************************)
EXTENDS Naturals, Sequences, FiniteSets

CONSTANTS
    User,      \* threads of the application
    IO,        \* IOThreads: they run the completions, and callbacks that send
    SOV,       \* the send overlapped structures there may ever be
    ArrCnt,    \* arr_cnt_ : capacity of a gather list
    StepCnt,   \* step_cnt_ : SOVs created when the pool is empty
    MaxMsg,    \* bound: buffers accepted in one behaviour
    NoSOV      \* the null SOV*

Thread == User \cup IO

ASSUME ThreadAssumption == User \cap IO = {}
ASSUME SOVAssumption == NoSOV \notin SOV
ASSUME CountAssumption == /\ ArrCnt \in Nat \ {0}
                          /\ StepCnt \in Nat \ {0}
                          /\ MaxMsg \in Nat

VARIABLES
    connected, \* is_connected_
    cur,       \* SBuf::sov_ : the SOV that collects buffers
    batch,     \* slist_ of every SOV, as the numbers of its buffers
    popCnt,    \* SBuf::pop_cnt_
    free,      \* SOVPool::free_
    made,      \* the SOVs created so far (total_cnt_ is their number)
    accepted,  \* history: buffers appended so far, numbered in that order
    released,  \* history: buffers whose Mem reference was given back
    wire,      \* history: the gather lists in the order WSASend got them
    inflight,  \* SOVs the kernel holds
    pc,        \* where a thread is in send() / _on_send()
    mine,      \* the SOV a thread took out of sbuf_ or got from the kernel
    failed,    \* err of the completion a thread runs: TRUE when not SUCCESS
    has        \* has_to_send of that thread

vars == <<connected, cur, batch, popCnt, free, made, accepted, released,
          wire, inflight, pc, mine, failed, has>>

PC == {"idle", "push", "again", "flush", "wsasend", "onsend", "next"}

\* The SOVs taken from sbuf_ and not yet given back: pop_cnt_ counts them.
Holding(t) == pc[t] \in {"wsasend", "onsend"}
Outstanding == inflight \cup {mine[t] : t \in {u \in Thread : Holding(u)}}

Buffers(s) == {batch[s][i] : i \in 1..Len(batch[s])}
IsFull(list) == Len(list) = ArrCnt
IsSending == popCnt > 0
----------------------------------------------------------------------------
\* SBuf::init: the current SOV comes out of a pool that may hold any number
\* of SOVs, since all the connections of a Net share it.
Init ==
    /\ connected = TRUE
    /\ cur \in SOV
    /\ free \in SUBSET (SOV \ {cur})
    /\ made = free \cup {cur}
    /\ batch = [s \in SOV |-> <<>>]
    /\ popCnt = 0
    /\ accepted = 0
    /\ released = {}
    /\ wire = <<>>
    /\ inflight = {}
    /\ pc = [t \in Thread |-> "idle"]
    /\ mine = [t \in Thread |-> NoSOV]
    /\ failed = [t \in Thread |-> FALSE]
    /\ has = [t \in Thread |-> FALSE]

\* send(Buf&), the test of is_connected_ made before s_lock_ is taken.  An
\* idle thread starts a call; a thread at "again" calls send(Buf()).
SendCheck(t) ==
    /\ \/ /\ pc[t] = "idle"
          /\ connected
          /\ accepted + Cardinality({u \in Thread : pc[u] = "push"}) < MaxMsg
          /\ pc' = [pc EXCEPT ![t] = "push"]
       \/ /\ pc[t] = "again"
          /\ pc' = [pc EXCEPT ![t] = IF connected THEN "flush" ELSE "idle"]
    /\ UNCHANGED <<connected, cur, batch, popCnt, free, made, accepted,
                   released, wire, inflight, mine, failed, has>>

\* SOVPool::pop: the next current SOV, StepCnt new ones if none is free.
PoolPop ==
    \/ /\ cur' \in free
       /\ free' = free \ {cur'}
       /\ UNCHANGED made
    \/ /\ free = {}
       /\ \E fresh \in SUBSET (SOV \ made) :
             /\ Cardinality(fresh) = StepCnt
             /\ cur' \in fresh
             /\ free' = fresh \ {cur'}
             /\ made' = made \cup fresh

\* Mutant of Takes: no look at is_full(), nor at is_sending().
TakesAlways(list) == list # <<>>

\* SBuf::pop, its test: is the current SOV, holding `list`, to be sent now?
Takes(list) == list # <<>> /\ (~IsSending \/ IsFull(list))

\* SBuf::pop, pop_cnt_++ for the SOV it takes.
Counted == popCnt' = popCnt + 1

\* SBuf::pop, in the s_lock_ section of send(Buf&), after the push has left
\* `list` in the current SOV.
Pop(t, list) ==
    /\ batch' = [batch EXCEPT ![cur] = list]
    /\ \/ /\ Takes(list)
          /\ PoolPop
          /\ Counted
          /\ mine' = [mine EXCEPT ![t] = cur]
          /\ pc' = [pc EXCEPT ![t] = "wsasend"]
       \/ /\ ~Takes(list)
          /\ pc' = [pc EXCEPT ![t] = "idle"]
          /\ UNCHANGED <<cur, free, made, popCnt, mine>>
    /\ UNCHANGED <<connected, released, wire, inflight, failed, has>>

\* The s_lock_ section with a buffer to append.  push_back throws on a full
\* list, which would end the behaviour here.
PushBuf(t) ==
    /\ pc[t] = "push"
    /\ ~IsFull(batch[cur])
    /\ accepted' = accepted + 1
    /\ Pop(t, Append(batch[cur], accepted + 1))

\* The s_lock_ section of send(Buf()): push ignores the empty Buf.
PushEmpty(t) ==
    /\ pc[t] = "flush"
    /\ UNCHANGED accepted
    /\ Pop(t, batch[cur])

\* send(SOV*): WSASend is pending, or fails at once and _on_send runs inline.
WsaSend(t) ==
    /\ pc[t] = "wsasend"
    /\ \/ /\ inflight' = inflight \cup {mine[t]}
          /\ wire' = Append(wire, batch[mine[t]])
          /\ pc' = [pc EXCEPT ![t] = "idle"]
          /\ mine' = [mine EXCEPT ![t] = NoSOV]
          /\ UNCHANGED failed
       \/ /\ pc' = [pc EXCEPT ![t] = "onsend"]
          /\ failed' = [failed EXCEPT ![t] = TRUE]
          /\ UNCHANGED <<inflight, wire, mine>>
    /\ UNCHANGED <<connected, cur, batch, popCnt, free, made, accepted,
                   released, has>>

\* A completion packet of SOV s reaches an idle IOThread.
Complete(t, s) ==
    /\ pc[t] = "idle"
    /\ s \in inflight
    /\ inflight' = inflight \ {s}
    /\ mine' = [mine EXCEPT ![t] = s]
    /\ failed' \in {[failed EXCEPT ![t] = e] : e \in BOOLEAN}
    /\ pc' = [pc EXCEPT ![t] = "onsend"]
    /\ UNCHANGED <<connected, cur, batch, popCnt, free, made, accepted,
                   released, wire, has>>

\* Mutants of SBufPush: the SOV is not pooled, pop_cnt_ is not decreased.
SBufPushLeaks(t) == popCnt' = popCnt - 1 /\ UNCHANGED free
SBufPushNoCount(t) == free' = free \cup {mine[t]} /\ UNCHANGED popCnt

\* SBuf::push(SOV*): give the SOV back.
SBufPush(t) ==
    /\ popCnt' = popCnt - 1
    /\ free' = free \cup {mine[t]}

\* Mutants of HasToSend: evaluated before pop_cnt_ is decreased; never.
HasToSendBefore == popCnt = 0 /\ batch[cur] # <<>>
HasToSendNever == FALSE

\* SBuf::has_to_send, after SBuf::push(SOV*) in the same s_lock_ section.
HasToSend == popCnt' = 0 /\ batch[cur] # <<>>

\* Mutant of ClearList: the references are released, the list stays.
ClearListKeeps(s) == released' = released \cup Buffers(s) /\ UNCHANGED batch

\* BufArray::clear: release every buffer and empty the list.
ClearList(s) ==
    /\ released' = released \cup Buffers(s)
    /\ batch' = [batch EXCEPT ![s] = <<>>]

\* _on_send up to the end of its s_lock_ section.  The list is cleared
\* before the lock is taken, by the only thread that holds the SOV.
OnSend(t) ==
    /\ pc[t] = "onsend"
    /\ ClearList(mine[t])
    /\ SBufPush(t)
    /\ has' = [has EXCEPT ![t] = HasToSend]
    /\ mine' = [mine EXCEPT ![t] = NoSOV]
    /\ pc' = [pc EXCEPT ![t] = "next"]
    /\ UNCHANGED <<connected, cur, made, accepted, wire, inflight, failed>>

\* The rest of _on_send: drop the connection, send again, or return.
OnSendNext(t) ==
    /\ pc[t] = "next"
    /\ IF failed[t] \/ ~connected
       THEN /\ connected' = FALSE
            /\ pc' = [pc EXCEPT ![t] = "idle"]
       ELSE /\ pc' = [pc EXCEPT ![t] = IF has[t] THEN "again" ELSE "idle"]
            /\ UNCHANGED connected
    /\ failed' = [failed EXCEPT ![t] = FALSE]
    /\ has' = [has EXCEPT ![t] = FALSE]
    /\ UNCHANGED <<cur, batch, popCnt, free, made, accepted, released, wire,
                   inflight, mine>>

\* Another part of the session drops the connection: a receive completes
\* with an error, or the application calls disconnect().
Drop ==
    /\ connected
    /\ connected' = FALSE
    /\ UNCHANGED <<cur, batch, popCnt, free, made, accepted, released, wire,
                   inflight, pc, mine, failed, has>>

Next ==
    \/ \E t \in Thread : \/ SendCheck(t)
                         \/ PushBuf(t)
                         \/ PushEmpty(t)
                         \/ WsaSend(t)
                         \/ OnSend(t)
                         \/ OnSendNext(t)
    \/ \E t \in IO, s \in SOV : Complete(t, s)
    \/ Drop

Spec == Init /\ [][Next]_vars

\* A thread inside a call goes on; the kernel completes every send and an
\* IOThread that is idle picks the completion up.  Nobody has to call send.
Proceed(t) == \/ pc[t] = "again" /\ SendCheck(t)
              \/ PushBuf(t)
              \/ PushEmpty(t)
              \/ WsaSend(t)
              \/ OnSend(t)
              \/ OnSendNext(t)

Fairness == /\ \A t \in Thread : WF_vars(Proceed(t))
            /\ \A s \in SOV : WF_vars(\E t \in IO : Complete(t, s))

FairSpec == Spec /\ Fairness
----------------------------------------------------------------------------
\* Types of the variables.
TypeOK ==
    /\ connected \in BOOLEAN
    /\ cur \in SOV
    /\ batch \in [SOV -> Seq(Nat)]
    /\ popCnt \in Nat
    /\ free \in SUBSET SOV
    /\ made \in SUBSET SOV
    /\ accepted \in Nat
    /\ released \in SUBSET Nat
    /\ wire \in Seq(Seq(Nat))
    /\ inflight \in SUBSET SOV
    /\ pc \in [Thread -> PC]
    /\ mine \in [Thread -> SOV \cup {NoSOV}]
    /\ failed \in [Thread -> BOOLEAN]
    /\ has \in [Thread -> BOOLEAN]

\* No SOV is lost or held twice: each one created is in the pool, or collects
\* buffers, or is with the kernel, or is in the hands of exactly one thread
\* (SBuf::get swaps SOVs under s_lock_, but WSASend and the completion use
\* them outside it).
SOVOwnership ==
    /\ made = free \cup {cur} \cup Outstanding
    /\ cur \notin free \cup Outstanding
    /\ free \cap Outstanding = {}
    /\ \A t \in Thread : Holding(t) => mine[t] \in SOV \ inflight
    /\ \A t, u \in Thread : Holding(t) /\ Holding(u) /\ mine[t] = mine[u] => t = u

\* pop_cnt_ is the number of SOVs away, whatever the threads do between the
\* sections: _disconnect tears the session down on the strength of it.
CountExact == IsFiniteSet(Outstanding) /\ popCnt = Cardinality(Outstanding)

\* BufArray::push_back never throws "array is full": no call leaves a full
\* list in the current SOV.
NeverFull == \A s \in SOV : /\ Len(batch[s]) <= ArrCnt
                            /\ s = cur => Len(batch[s]) < ArrCnt

\* No lost wake-up: while the connection lives, buffers that wait have a send
\* under way, or a thread bound to flush them or to drop the connection.
Flusher(t) == \/ pc[t] = "next" /\ (has[t] \/ failed[t])
              \/ pc[t] \in {"again", "flush"}

NoStranded ==
    connected /\ batch[cur] # <<>> /\ popCnt = 0 => \E t \in Thread : Flusher(t)

\* Gathering works: of the lists under way at most one is not full, and none
\* is empty (a WSASend of no buffers).
OnePartial ==
    /\ \A s \in Outstanding : batch[s] # <<>>
    /\ \A s, r \in Outstanding :
          ~IsFull(batch[s]) /\ ~IsFull(batch[r]) => s = r

\* Each buffer accepted has exactly one reference to its Mem to give back: it
\* is released, or sits at exactly one place of one list.
ReleasedOnce ==
    \A m \in 1..accepted :
       LET places == {p \in SOV \X (1..ArrCnt) :
                         p[2] <= Len(batch[p[1]]) /\ batch[p[1]][p[2]] = m}
       IN  Cardinality(places) = IF m \in released THEN 0 ELSE 1

\* WSASend runs outside s_lock_, so lists may reach it in another order than
\* they were filled; but only a full list overtakes, so a stream that never
\* fills a list keeps its order.
OvertakerIsFull ==
    \A i, j \in 1..Len(wire) :
       i < j /\ wire[i][1] > wire[j][1] => IsFull(wire[i])

\* Once the connection is dropped every send comes back, whatever senders
\* were inside send(): is_sending() does not keep the session alive for ever.
SendsDrain == ~connected ~> [](popCnt = 0)

\* What the queue promises: see GatherChannel.
Channel == INSTANCE GatherChannel WITH
              queued <- batch[cur],
              flight <- {batch[s] : s \in Outstanding},
              open <- connected,
              count <- accepted

ChannelSpec == Channel!Spec
ChannelFairSpec == Channel!FairSpec
============================================================================
