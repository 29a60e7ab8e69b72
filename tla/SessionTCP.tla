----------------------------- MODULE SessionTCP -----------------------------
(***************************************************************************)
(* The life of one SessionTCP of ven (net/session_tcp.h): connect, accept, *)
(* send, the receive loop, disconnect and the final teardown, with every   *)
(* flag, the lock cd_lock_, the kernel operations under way and the        *)
(* callbacks, interleaved at the granularity of the accesses that matter.  *)
(*                                                                         *)
(* Threads are those of the application and the IOThreads; an IOThread     *)
(* runs a completion and, inside it, the callbacks, which may call the     *)
(* session again.  A thread is at one place pc[t]; every path through the  *)
(* code ends in tail calls, so ret[t], the callback it returns to, is all  *)
(* there is of its stack.  s_lock_ never covers more than one step here.   *)
(*                                                                         *)
(* What SBuf and RBuf hold is in SendQueue and RecvBuffer.  Here they are  *)
(* there or not.  Touching one after uninit(), or a deleted session, is    *)
(* undefined behaviour: it ends the program (crash = "gone").  The unlock  *)
(* of cd_lock_ that follows every `delete this` is such a use too: it goes *)
(* well or ends the program, and is told apart (crash = "unlock").         *)
(***************************************************************************)
EXTENDS Naturals, FiniteSets

CONSTANTS
    User,         \* threads of the application
    IO,           \* IOThreads
    NoThread,
    Setups,       \* the sessions and applications considered, see Setup
    MaxTry,       \* bound: attempts to connect, or connections accepted
    Wrap          \* 2^32, the range of pop_cnt_

Thread == User \cup IO
Call == {"connect", "send", "disconnect", "release"}

ASSUME ThreadAssumption ==
    User \cap IO = {} /\ NoThread \notin Thread /\ IsFiniteSet(IO)

(* server   is_server_session(): the session belongs to an Acceptor (TRUE) or
            to the application (FALSE)
   io       the IOThreads of the Net
   user     what the application's threads may call, outside callbacks,
   onConn, onRecv, onDisc   and inside on_conn, on_recv and on_disc
   sends    bound: calls of send                                           *)
Setup == [server : BOOLEAN, io : SUBSET IO, user : SUBSET Call,
          onConn : SUBSET Call, onRecv : SUBSET Call, onDisc : SUBSET Call,
          sends : Nat]

ASSUME SetupAssumption == Setups \subseteq Setup
ASSUME NumberAssumption ==
    /\ MaxTry \in Nat /\ Wrap \in Nat
    /\ \A s \in Setups : s.sends + 1 < Wrap

VARIABLES
    setup,                         \* which of Setups the program is
    conn, recving,                 \* is_connected_, is_receiving_
    connecting, disconnecting,     \* is_connecting_, is_disconnecting_
    force, release,                \* is_force_disconnecting_, is_release_
    sock,          \* the socket: "open" (not connected), "conn" or "closed"
    sbufUp, rbufUp,\* between init() and uninit() of SBuf and RBuf
    popCnt,        \* SBuf::pop_cnt_
    waiting,       \* buffers wait in the current SOV
    kConn, kDisc,  \* ConnectEx, DisconnectEx under way
    kRecv, kSend,  \* number of WSARecv and WSASend under way
    parked,        \* the session is the acceptor's: pooled, or being accepted
    cdOwner,       \* owner of cd_lock_, which is recursive
    pc, ret,       \* where a thread is, and the callback it returns to
    flag,          \* a local of the thread: err, or is_sending
    has,           \* has_to_send
    deleted,
    crash,         \* "no", or why the program has ended: "gone" or "unlock"
    tries, sends,  \* counters of the bounds
    nConn, nDisc   \* history: calls of on_conn, and of on_disc by _on_disc

flags == <<conn, recving, connecting, disconnecting, force, release>>
bufs == <<sbufUp, rbufUp, popCnt, waiting>>
kernel == <<kConn, kDisc, kRecv, kSend>>
counts == <<tries, sends, nConn, nDisc>>
ends == <<setup, parked, deleted, crash>>
locals == <<flag, has>>
vars == <<flags, sock, bufs, kernel, cdOwner, pc, ret, locals, ends, counts>>

(* "idle"      outside the session
   "loop"      in _on_recv, parsing or in on_recv
   "loopend"   is_receiving_ is cleared, is_connected_ not yet read
   "recv"      before the test of recv()         "mark"   after it
   "post"      is_receiving_ is set, before WSARecv
   "push"      in send(Buf&), after its test     "again"  before send(Buf())
   "flush"     in send(Buf()), after its test    "wsasend" before WSASend
   "onsend"    in _on_send                       "sent"   after its section
   "disc", "disc2", "disc3"  in _disconnect
   "down", "down2"           in _on_disc
   "unlock"    after `delete this`, still under cd_lock_
   "connev"    in _on_conn, before cd_lock_
   "conn1".."conn3"          in _on_conn_init    "onconn" in on_conn      *)
PC == {"idle", "loop", "loopend", "recv", "mark", "post", "push", "again",
       "flush", "wsasend", "onsend", "sent", "disc", "disc2", "disc3",
       "down", "down2", "unlock", "connev", "conn1", "conn2", "conn3",
       "onconn"}

Goto(t, l) == pc' = [pc EXCEPT ![t] = l]
CanLock(t) == cdOwner \in {NoThread, t}

\* The end of a path: back to the callback, or to the outside.  cd_lock_ is
\* released, but on_conn runs with it when _on_conn called it.
Return(t) ==
    /\ pc' = [pc EXCEPT ![t] = ret[t]]
    /\ ret' = [ret EXCEPT ![t] = "idle"]
    /\ cdOwner' = IF cdOwner = t /\ (ret[t] # "onconn" \/ setup.server)
                  THEN NoThread ELSE cdOwner

\* t may call operation c of the session now.
MayCall(t, c) ==
    /\ ~deleted
    /\ \/ pc[t] = "idle" /\ t \in User /\ c \in setup.user
       \/ pc[t] = "onconn" /\ c \in setup.onConn
       \/ pc[t] = "loop" /\ c \in setup.onRecv

Init ==
    /\ conn = FALSE /\ recving = FALSE
    /\ connecting = FALSE /\ disconnecting = FALSE
    /\ force = FALSE /\ release = FALSE
    /\ sock = "open"
    /\ sbufUp = FALSE /\ rbufUp = FALSE
    /\ popCnt = 0 /\ waiting = FALSE
    /\ kConn = FALSE /\ kDisc = FALSE
    /\ kRecv = 0 /\ kSend = 0
    /\ setup \in Setups
    /\ parked = setup.server
    /\ cdOwner = NoThread
    /\ pc = [t \in Thread |-> "idle"]
    /\ ret = [t \in Thread |-> "idle"]
    /\ flag = [t \in Thread |-> FALSE]
    /\ has = [t \in Thread |-> FALSE]
    /\ deleted = FALSE /\ crash = "no"
    /\ tries = 0 /\ sends = 0 /\ nConn = 0 /\ nDisc = 0
----------------------------------------------------------------------------
(* Connecting *)

\* connect() past its tests: ConnectEx is pending, or fails at once and
\* leaves is_connecting_ set.
ConnectEx ==
    /\ tries < MaxTry
    /\ tries' = tries + 1
    /\ connecting' = TRUE
    /\ kConn' \in (IF sock = "open" THEN BOOLEAN ELSE {FALSE})

\* connect().  When a test stops it nothing changes.  The application does
\* not connect a session it has released, nor before on_disc of the last
\* connection.
Connect(t) ==
    /\ MayCall(t, "connect")
    /\ nConn = nDisc
    /\ ~release
    /\ CanLock(t)
    /\ ~setup.server /\ ~conn /\ ~connecting
    /\ ConnectEx
    /\ UNCHANGED <<conn, recving, disconnecting, force, release, sock, bufs,
                   kDisc, kRecv, kSend, cdOwner, pc, ret, locals, ends,
                   sends, nConn, nDisc>>

\* The completion of ConnectEx reaches an IOThread.
ConnEvent(t) ==
    /\ pc[t] = "idle"
    /\ kConn
    /\ kConn' = FALSE
    /\ Goto(t, "connev")
    /\ UNCHANGED <<flags, sock, bufs, kDisc, kRecv, kSend, cdOwner, ret,
                   locals, ends, counts>>

\* What the application may do inside on_disc, where is_connecting_ is `busy`:
\* nothing, connect() again, or disconnect(), which only stores is_release_.
\* After a forced close the socket is still closed here.
InOnDisc(busy) ==
    \/ /\ connecting' = busy
       /\ UNCHANGED <<kConn, tries, release>>
    \/ /\ "connect" \in setup.onDisc
       /\ ~setup.server /\ ~conn /\ ~busy /\ ~release
       /\ ConnectEx
       /\ UNCHANGED release
    \/ /\ \E c \in {"disconnect", "release"} \cap setup.onDisc :
             release' = (c = "release")
       /\ connecting' = busy
       /\ UNCHANGED <<kConn, tries>>

\* _on_conn takes cd_lock_; an error ends in on_disc without an on_conn.
OnConn(t) ==
    /\ pc[t] = "connev"
    /\ CanLock(t)
    /\ \/ /\ InOnDisc(FALSE)
          /\ Goto(t, "idle")
          /\ UNCHANGED <<sock, cdOwner>>
       \/ /\ connecting' = FALSE
          /\ Goto(t, "conn1")
          /\ sock' = "conn"
          /\ cdOwner' = t
          /\ UNCHANGED <<kConn, tries, release>>
    /\ UNCHANGED <<conn, recving, disconnecting, force, bufs, kDisc, kRecv,
                   kSend, ret, locals, ends, sends, nConn, nDisc>>

\* A completed AcceptEx: _on_accept, which takes no lock.  When the context
\* update fails it calls disconnect(), which does nothing to a session that
\* is not connected, and the session is lost to the acceptor.
Accept(t) ==
    /\ pc[t] = "idle"
    /\ parked
    /\ tries < MaxTry
    /\ tries' = tries + 1
    /\ parked' = FALSE
    /\ \/ /\ Goto(t, "conn1")
          /\ sock' = "conn"
          /\ UNCHANGED release
       \/ /\ CanLock(t)
          /\ release' = FALSE
          /\ UNCHANGED <<sock, pc>>
    /\ UNCHANGED <<conn, recving, connecting, disconnecting, force, bufs,
                   kernel, cdOwner, ret, locals, setup, deleted, crash,
                   sends, nConn, nDisc>>

\* _on_conn_init, in the order of its assignments: is_connected_ first.
ConnInit1(t) ==
    /\ pc[t] = "conn1"
    /\ conn' = TRUE
    /\ recving' = FALSE
    /\ connecting' = FALSE
    /\ Goto(t, "conn2")
    /\ UNCHANGED <<disconnecting, force, release, sock, bufs, kernel, cdOwner,
                   ret, locals, ends, counts>>

ResetFlags == force' = FALSE /\ disconnecting' = FALSE

ConnInit2(t) ==
    /\ pc[t] = "conn2"
    /\ ResetFlags
    /\ Goto(t, "conn3")
    /\ UNCHANGED <<conn, recving, connecting, release, sock, bufs, kernel,
                   cdOwner, ret, locals, ends, counts>>

ConnInit3(t) ==
    /\ pc[t] = "conn3"
    /\ sbufUp' = TRUE
    /\ rbufUp' = TRUE
    /\ popCnt' = 0
    /\ waiting' = FALSE
    /\ nConn' = nConn + 1
    /\ Goto(t, "onconn")
    /\ UNCHANGED <<flags, sock, kernel, cdOwner, ret, locals, ends, tries,
                   sends, nDisc>>

\* on_conn returns.
OnConnReturns(t) ==
    /\ pc[t] = "onconn"
    /\ Goto(t, "recv")
    /\ UNCHANGED <<flags, sock, bufs, kernel, cdOwner, ret, locals, ends,
                   counts>>
----------------------------------------------------------------------------
(* Receiving *)

\* A WSARecv completes, with data, or with an error or no data.
RecvEvent(t) ==
    /\ pc[t] = "idle"
    /\ kRecv > 0
    /\ kRecv' = kRecv - 1
    /\ \/ /\ Goto(t, "loop")
          /\ UNCHANGED recving
       \/ /\ recving' = FALSE
          /\ Goto(t, "disc")
    /\ UNCHANGED <<conn, connecting, disconnecting, force, release, sock, bufs,
                   kConn, kDisc, kSend, cdOwner, ret, locals, ends, counts>>

\* The loop of _on_recv ends: is_receiving_ = false, and the packet size was
\* not valid, or there is no whole packet left.
LoopEnds(t) ==
    /\ pc[t] = "loop"
    /\ recving' = FALSE
    /\ \/ Goto(t, "disc")
       \/ Goto(t, "loopend")
    /\ UNCHANGED <<conn, connecting, disconnecting, force, release, sock, bufs,
                   kernel, cdOwner, ret, locals, ends, counts>>

\* Mutant of AfterLoop: _on_recv leaves the test to recv().
AfterLoopRecv == "recv"

\* _on_recv reads is_connected_ ...
AfterLoop == IF conn THEN "recv" ELSE "disc"

LoopCheck(t) ==
    /\ pc[t] = "loopend"
    /\ Goto(t, AfterLoop)
    /\ UNCHANGED <<flags, sock, bufs, kernel, cdOwner, ret, locals, ends,
                   counts>>

\* ... and recv() reads it again,
RecvCheck(t) ==
    /\ pc[t] = "recv"
    /\ IF conn THEN Goto(t, "mark") /\ UNCHANGED <<ret, cdOwner>>
               ELSE Return(t)
    /\ UNCHANGED <<flags, sock, bufs, kernel, locals, ends, counts>>

\* sets is_receiving_
RecvMark(t) ==
    /\ pc[t] = "mark"
    /\ recving' = TRUE
    /\ Goto(t, "post")
    /\ UNCHANGED <<conn, connecting, disconnecting, force, release, sock, bufs,
                   kernel, cdOwner, ret, locals, ends, counts>>

\* and posts WSARecv on the room of rbuf_; it may fail at once.
RecvPost(t) ==
    /\ pc[t] = "post"
    /\ rbufUp
    /\ \/ /\ sock = "conn"
          /\ kRecv' = kRecv + 1
          /\ Return(t)
          /\ UNCHANGED recving
       \/ /\ recving' = FALSE
          /\ Goto(t, "disc")
          /\ UNCHANGED <<kRecv, ret, cdOwner>>
    /\ UNCHANGED <<conn, connecting, disconnecting, force, release, sock, bufs,
                   kConn, kDisc, kSend, locals, ends, counts>>
----------------------------------------------------------------------------
(* Sending *)

\* send(Buf&), after its test of is_connected_; without a connection it
\* returns false and nothing changes.
Send(t) ==
    /\ MayCall(t, "send")
    /\ sends < setup.sends
    /\ conn
    /\ sends' = sends + 1
    /\ Goto(t, "push")
    /\ ret' = [ret EXCEPT ![t] = pc[t]]
    /\ UNCHANGED <<flags, sock, bufs, kernel, cdOwner, locals, ends, tries,
                   nConn, nDisc>>

\* _on_send calls send(Buf()).
SendAgain(t) ==
    /\ pc[t] = "again"
    /\ IF conn THEN Goto(t, "flush") /\ UNCHANGED <<ret, cdOwner>>
               ELSE Return(t)
    /\ UNCHANGED <<flags, sock, bufs, kernel, locals, ends, counts>>

\* pop_cnt_++ and pop_cnt_-- on a uint32_t.
Inc(n) == (n + 1) % Wrap
Dec(n) == (n + Wrap - 1) % Wrap

\* The s_lock_ section of send: the buffers go out in an SOV when nothing is
\* being sent or the SOV is full, else they wait.
SendPush(t) ==
    /\ pc[t] \in {"push", "flush"}
    /\ sbufUp
    /\ \/ /\ pc[t] = "push" \/ (waiting /\ popCnt = 0)
          /\ popCnt' = Inc(popCnt)
          /\ waiting' = FALSE
          /\ Goto(t, "wsasend")
          /\ UNCHANGED <<ret, cdOwner>>
       \/ /\ pc[t] = "push" => popCnt > 0
          /\ pc[t] = "flush" => ~(waiting /\ popCnt = 0)
          /\ waiting' = (waiting \/ pc[t] = "push")
          /\ Return(t)
          /\ UNCHANGED popCnt
    /\ UNCHANGED <<flags, sock, sbufUp, rbufUp, kernel, locals, ends, counts>>

\* WSASend is pending, or fails at once and _on_send runs inline.
WsaSend(t) ==
    /\ pc[t] = "wsasend"
    /\ \/ /\ sock = "conn"
          /\ kSend' = kSend + 1
          /\ Return(t)
          /\ UNCHANGED flag
       \/ /\ flag' = [flag EXCEPT ![t] = TRUE]
          /\ Goto(t, "onsend")
          /\ UNCHANGED <<kSend, ret, cdOwner>>
    /\ UNCHANGED <<flags, sock, bufs, kConn, kDisc, kRecv, has, ends, counts>>

\* A WSASend completes, well or with an error.
SendEvent(t) ==
    /\ pc[t] = "idle"
    /\ kSend > 0
    /\ kSend' = kSend - 1
    /\ \E e \in BOOLEAN : flag' = [flag EXCEPT ![t] = e]
    /\ Goto(t, "onsend")
    /\ UNCHANGED <<flags, sock, bufs, kConn, kDisc, kRecv, cdOwner, ret, has,
                   ends, counts>>

\* The s_lock_ section of _on_send.
OnSend(t) ==
    /\ pc[t] = "onsend"
    /\ sbufUp
    /\ popCnt' = Dec(popCnt)
    /\ has' = [has EXCEPT ![t] = popCnt' = 0 /\ waiting]
    /\ Goto(t, "sent")
    /\ UNCHANGED <<flags, sock, sbufUp, rbufUp, waiting, kernel, cdOwner, ret,
                   flag, ends, counts>>

\* The rest of _on_send.
OnSendNext(t) ==
    /\ pc[t] = "sent"
    /\ IF flag[t] \/ ~conn
       THEN Goto(t, "disc") /\ UNCHANGED <<ret, cdOwner>>
       ELSE IF has[t] THEN Goto(t, "again") /\ UNCHANGED <<ret, cdOwner>>
       ELSE Return(t)
    /\ flag' = [flag EXCEPT ![t] = FALSE]
    /\ has' = [has EXCEPT ![t] = FALSE]
    /\ UNCHANGED <<flags, sock, bufs, kernel, ends, counts>>
----------------------------------------------------------------------------
(* Disconnecting *)

\* disconnect(is_release).  On a session that is not connected, or that is
\* being closed already, it only stores is_release_.
Disconnect(t, rel) ==
    /\ MayCall(t, IF rel THEN "release" ELSE "disconnect")
    /\ CanLock(t)
    /\ release' = rel
    /\ IF conn /\ ~force
       THEN /\ force' = TRUE
            /\ sock' = "closed"
            /\ cdOwner' = t
            /\ ret' = [ret EXCEPT ![t] = pc[t]]
            /\ Goto(t, "disc")
       ELSE UNCHANGED <<force, sock, cdOwner, ret, pc>>
    /\ UNCHANGED <<conn, recving, connecting, disconnecting, bufs, kernel,
                   locals, ends, counts>>

\* _disconnect takes cd_lock_ and clears is_connected_,
DiscFlag(t) ==
    /\ pc[t] = "disc"
    /\ CanLock(t)
    /\ cdOwner' = t
    /\ conn' = FALSE
    /\ Goto(t, "disc2")
    /\ UNCHANGED <<recving, connecting, disconnecting, force, release, sock,
                   bufs, kernel, ret, locals, ends, counts>>

\* reads is_sending() under s_lock_,
DiscSending(t) ==
    /\ pc[t] = "disc2"
    /\ flag' = [flag EXCEPT ![t] = popCnt > 0]
    /\ Goto(t, "disc3")
    /\ UNCHANGED <<flags, sock, bufs, kernel, cdOwner, ret, has, ends, counts>>

\* Mutants of Waits: no is_disconnecting_, no is_receiving_, no is_sending.
WaitsNoGuard(t) == flag[t] \/ recving
WaitsNoRecv(t) == flag[t] \/ disconnecting
WaitsNoSend(t) == recving \/ disconnecting

\* _disconnect leaves the rest to the last operation, or to its first caller.
Waits(t) == flag[t] \/ recving \/ disconnecting

\* and tears the session down, through DisconnectEx unless the socket is
\* closed already.  A DisconnectEx that fails at once ends it all.
DiscEnd(t) ==
    /\ pc[t] = "disc3"
    /\ flag' = [flag EXCEPT ![t] = FALSE]
    /\ \/ /\ Waits(t)
          /\ Return(t)
          /\ UNCHANGED <<disconnecting, kDisc>>
       \/ /\ ~Waits(t)
          /\ disconnecting' = TRUE
          /\ force
          /\ Goto(t, "down")
          /\ UNCHANGED <<kDisc, ret, cdOwner>>
       \/ /\ ~Waits(t)
          /\ disconnecting' = TRUE
          /\ ~force
          /\ kDisc' \in {TRUE, kDisc}
          /\ Return(t)
    /\ UNCHANGED <<conn, recving, connecting, force, release, sock, bufs,
                   kConn, kRecv, kSend, has, ends, counts>>

\* DisconnectEx completes; the socket can be used again.
DiscEvent(t) ==
    /\ pc[t] = "idle"
    /\ kDisc
    /\ kDisc' = FALSE
    /\ sock' = "open"
    /\ Goto(t, "down")
    /\ UNCHANGED <<flags, bufs, kConn, kRecv, kSend, cdOwner, ret, locals,
                   ends, counts>>

\* Mutant of UninitBufs: the send buffer is not released.
UninitRBufOnly == rbufUp' = FALSE /\ UNCHANGED <<sbufUp, popCnt, waiting>>

\* SBuf::uninit and RBuf::uninit.
UninitBufs ==
    /\ sbufUp' = FALSE
    /\ rbufUp' = FALSE
    /\ popCnt' = 0
    /\ waiting' = FALSE

\* _on_disc releases the buffers under cd_lock_ only.
OnDisc(t) ==
    /\ pc[t] = "down"
    /\ CanLock(t)
    /\ cdOwner' = t
    /\ UninitBufs
    /\ Goto(t, "down2")
    /\ UNCHANGED <<flags, sock, kernel, ret, locals, ends, counts>>

\* Mutant of Deletes: a forced close keeps the session.
DeletesUnlessForced == release' /\ ~force

\* The test of is_release_, after on_disc.
Deletes == release'

\* on_disc, then a new socket after a forced close, then the session is
\* deleted, still under cd_lock_, or goes back to its acceptor.
OnDiscEnd(t) ==
    /\ pc[t] = "down2"
    /\ nDisc' = nDisc + 1
    /\ InOnDisc(connecting)
    /\ sock' = IF force THEN "open" ELSE sock
    /\ deleted' = Deletes
    /\ parked' = (setup.server /\ ~release')
    /\ IF deleted' THEN Goto(t, "unlock") /\ UNCHANGED <<ret, cdOwner>>
                   ELSE Return(t)
    /\ UNCHANGED <<conn, recving, disconnecting, force, bufs, kDisc, kRecv,
                   kSend, locals, setup, crash, sends, nConn>>

\* The lockers of _on_disc and of its callers leave the cd_lock_ of the deleted
\* session: a critical section that is deleted, in memory that is free.  That
\* goes well or not.
Unlock(t) ==
    /\ pc[t] = "unlock"
    /\ \/ Return(t) /\ UNCHANGED crash
       \/ crash' = "unlock" /\ UNCHANGED <<pc, ret, cdOwner>>
    /\ UNCHANGED <<flags, sock, bufs, kernel, locals, setup, parked, deleted,
                   counts>>
----------------------------------------------------------------------------
\* A thread is about to use memory that is gone.
Faulty(t) ==
    \/ deleted /\ pc[t] \notin {"idle", "unlock"}
    \/ ~sbufUp /\ pc[t] \in {"push", "flush", "onsend"}
    \/ ~rbufUp /\ pc[t] \in {"loop", "post"}

\* The program goes wrong, and the model stops with it.
Crash ==
    /\ \/ \E t \in Thread : Faulty(t)
       \/ deleted /\ (kConn \/ kDisc \/ kRecv + kSend > 0)
    /\ crash' = "gone"
    /\ UNCHANGED <<flags, sock, bufs, kernel, cdOwner, pc, ret, locals,
                   setup, parked, deleted, counts>>

\* A thread goes on with what it is doing.
Step(t) ==
    \/ OnConn(t) \/ ConnInit1(t) \/ ConnInit2(t) \/ ConnInit3(t)
    \/ OnConnReturns(t)
    \/ LoopEnds(t) \/ LoopCheck(t) \/ RecvCheck(t) \/ RecvMark(t) \/ RecvPost(t)
    \/ SendAgain(t) \/ SendPush(t) \/ WsaSend(t) \/ OnSend(t) \/ OnSendNext(t)
    \/ DiscFlag(t) \/ DiscSending(t) \/ DiscEnd(t) \/ OnDisc(t) \/ OnDiscEnd(t)
    \/ Unlock(t)

\* A completion packet reaches an idle IOThread.
Event(t) == ConnEvent(t) \/ RecvEvent(t) \/ SendEvent(t) \/ DiscEvent(t)

AppCall(t) == \/ Connect(t)
              \/ Send(t)
              \/ \E rel \in BOOLEAN : Disconnect(t, rel)

Next ==
    \/ /\ crash = "no"
       /\ \/ \E t \in Thread : ~Faulty(t) /\ (Step(t) \/ AppCall(t))
          \/ ~deleted /\ \E t \in setup.io : Event(t) \/ Accept(t)
    \/ crash = "no" /\ Crash

Spec == Init /\ [][Next]_vars

\* A thread inside the session goes on, callbacks return, the kernel ends
\* what it was given; a receive only has to end once the socket is closed.
Fairness ==
    /\ \A t \in Thread : WF_vars(crash = "no" /\ ~Faulty(t) /\ Step(t))
    /\ WF_vars(crash = "no" /\ ~deleted /\ \E t \in setup.io : ConnEvent(t))
    /\ WF_vars(crash = "no" /\ ~deleted /\ \E t \in setup.io : SendEvent(t))
    /\ WF_vars(crash = "no" /\ ~deleted /\ \E t \in setup.io : DiscEvent(t))
    /\ WF_vars(crash = "no" /\ ~deleted /\ sock = "closed"
                  /\ \E t \in setup.io : RecvEvent(t))

FairSpec == Spec /\ Fairness
----------------------------------------------------------------------------
\* Types of the variables.
TypeOK ==
    /\ setup \in Setups
    /\ conn \in BOOLEAN /\ recving \in BOOLEAN /\ connecting \in BOOLEAN
    /\ disconnecting \in BOOLEAN /\ force \in BOOLEAN /\ release \in BOOLEAN
    /\ sock \in {"open", "conn", "closed"}
    /\ sbufUp \in BOOLEAN /\ rbufUp \in BOOLEAN /\ waiting \in BOOLEAN
    /\ popCnt \in 0..(Wrap - 1)
    /\ kConn \in BOOLEAN /\ kDisc \in BOOLEAN /\ kRecv \in Nat /\ kSend \in Nat
    /\ parked \in BOOLEAN /\ deleted \in BOOLEAN
    /\ crash \in {"no", "gone", "unlock"}
    /\ cdOwner \in Thread \cup {NoThread}
    /\ pc \in [Thread -> PC]
    /\ ret \in [Thread -> {"idle", "onconn", "loop"}]
    /\ flag \in [Thread -> BOOLEAN] /\ has \in [Thread -> BOOLEAN]
    /\ tries \in Nat /\ sends \in Nat /\ nConn \in Nat /\ nDisc \in Nat

\* One IOThread runs everything, except connect().  NoCrash and what follows it
\* are what the code promises then: with two IOThreads, or an application thread
\* that calls too, each fails.
Sequential == Cardinality(setup.io) = 1 /\ setup.user \subseteq {"connect"}

\* A client's session, whoever calls it, or any session with one IOThread.  With
\* several, _on_accept runs _on_conn_init without cd_lock_, and a thread late
\* from the last connection can end the new one before its on_conn.
Ordered == ~setup.server \/ Sequential

InTurn == nDisc <= nConn /\ nConn <= nDisc + 1

\* on_conn and on_disc come in turn: a connection that was announced ends in
\* one on_disc, not two, before the next is announced, whichever threads find
\* it broken at the same time.
Alternation == Ordered => InTurn

\* A new connection starts from clean buffers: the teardown of the one before
\* is over when SBuf::init and RBuf::init run.
InitClean ==
    Ordered => \A t \in Thread : pc[t] = "conn3" => ~sbufUp /\ ~rbufUp /\ popCnt = 0

\* No call made inside on_conn deletes the session: the code goes on with recv()
\* when on_conn returns.
KeepsInOnConn ==
    /\ "release" \notin setup.onConn
    /\ "disconnect" \in setup.onConn => "release" \notin setup.onDisc

\* Nothing touches the buffers after uninit(), and no operation, callback or
\* completion finds its session deleted.  The exception is the deleting thread
\* itself, on every release: the lockers of _on_disc and its callers leave
\* cd_lock_ after `delete this` (Unlock), and nothing but they may do so.
NoCrash ==
    Sequential /\ KeepsInOnConn =>
        /\ crash # "gone"
        /\ deleted => \A t \in Thread : pc[t] \in {"idle", "unlock"}

\* The teardown runs only when no receive and no send is under way.
Busy == \/ kRecv + kSend > 0
        \/ \E t \in Thread : pc[t] \in {"mark", "post", "loop", "wsasend", "onsend"}

TeardownWhenIdle ==
    Sequential /\ (\E t \in Thread : pc[t] = "down") => ~Busy

\* A sender late from the last connection took the fresh pop_cnt_ below 0.
Wrapped == popCnt > setup.sends

\* disconnect() on a live connection ends in on_disc; only a late sender that
\* wraps pop_cnt_ can keep it from that.
ForcedEnds == (force /\ nConn > nDisc) ~> (nConn = nDisc \/ crash # "no" \/ Wrapped)

\* disconnect(true) on a live connection ends in the delete, unless a later
\* disconnect() takes is_release_ back.
ForcedReleaseDeletes ==
    (Sequential /\ release /\ force /\ ~deleted) ~> (deleted \/ ~release)
=============================================================================
