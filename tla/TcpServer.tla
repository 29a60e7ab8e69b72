----------------------------- MODULE TcpServer -----------------------------
(***************************************************************************)
(* A TCP server of ven: Acceptor (net/acceptor.h) and SessionPool          *)
(* (net/session_pool.h) working together under Server (net/server.h), with *)
(* the IOThreads that run their completions and the thread that starts and *)
(* stops the server.                                                       *)
(*                                                                         *)
(* Accept structures (AOVs) rest in apool_; posting an accept takes one    *)
(* and a session from the pool; its completion connects the session or     *)
(* gives it back, and posts again; the end of a session gives it back and  *)
(* posts as many accepts as it can.  Each of these is a sequence of small  *)
(* steps on lists with a lock of their own, so the threads interleave.     *)
(*                                                                         *)
(* A session is only pooled, being accepted, live, or in teardown here; of *)
(* its own life (SessionTCP) there remain the lock cd_lock_, which _on_disc *)
(* holds while it gives the session back, and the two ways disconnect()    *)
(* ends: teardown on the spot, or later on an IOThread.                    *)
(***************************************************************************)
EXTENDS Naturals, FiniteSets

CONSTANTS
    IO,        \* IOThreads
    Main,      \* the thread that runs and stops the server
    AOV,       \* accept_cnt_ accept structures
    Session,   \* session_max_cnt_ sessions
    PreCnt,    \* session_pre_cnt_
    IncCnt,    \* session_inc_cnt_
    NoAOV, NoSession, NoThread,
    MayFail,   \* AcceptEx may fail at once on an open socket
    MayStop,   \* the server may be stopped
    CallsNet,  \* the application's on_disc may call the Net that owns the server
    Wrap       \* 2^32, the range of the counters

Thread == IO \cup {Main}

ASSUME NameAssumption == /\ Main \notin IO /\ NoThread \notin Thread
                         /\ NoAOV \notin AOV /\ NoSession \notin Session
ASSUME NumberAssumption ==
    /\ IsFiniteSet(IO) /\ IsFiniteSet(Session) /\ IsFiniteSet(AOV)
    /\ PreCnt \in 0..Cardinality(Session)
    /\ IncCnt \in Nat \ {0}
    /\ Wrap \in Nat
    /\ Cardinality(Session) + Cardinality(Thread) < Wrap
    /\ Cardinality(AOV) + Cardinality(Thread) < Wrap
    /\ {MayFail, MayStop, CallsNet} \subseteq BOOLEAN

VARIABLES
    released,   \* Acceptor::is_release_
    open,       \* the listening socket is open
    apool,      \* Acceptor::apool_
    posted,     \* the AOVs whose AcceptEx is under way
    sess,       \* AOV::sess_
    accepting,  \* accepting_cnt_
    connected,  \* connected_cnt_
    free, use,  \* SessionPool::free_ and use_
    made,       \* the sessions created: total_cnt_ is their number
    live,       \* the sessions connected
    closing,    \* live sessions whose socket stop() closed
    poolLock,   \* owner of SessionPool::lock_
    cdLock,     \* owner of each session's cd_lock_
    pc,         \* where a thread is
    aov, ses,   \* the AOV and the session in a thread's hands
    ending,     \* the session whose _on_disc a thread runs
    all,        \* the thread is in accept_all, not in a lone accept
    todo,       \* the sessions SessionPool::uninit has yet to disconnect
    lostAOV,    \* history: AOVs dropped by accept, or pooled after ~Acceptor
    lostSes,    \* history: sessions dropped by accept, or by _on_accept
    late        \* history: sessions connected after stop() had copied use_

pool == <<free, use, made>>
stop == <<released, open, todo>>
hands == <<aov, ses, ending, all>>
lost == <<lostAOV, lostSes, late>>
vars == <<apool, posted, sess, accepting, connected, pool, live, closing,
          poolLock, cdLock, pc, hands, stop, lost>>

(* "idle"      waiting for a completion; for Main, running the server
   "all"       in accept_all, before its test
   "acc"       in accept, before apool_.pop     "sess"  before spool_->pop
   "post"      before acceptex                  "count" before accepting_cnt_++
   "back"      before apool_.push of an AOV that found no session
   "evpush"    in on_event, before spool_->push
   "evcount"   before accepting_cnt_--          "evback" before apool_.push
   "call"      in on_disc, before Net::lock_
   "dec"       in disconnected, before connected_cnt_--
   "give"      before spool_->push
   "close", "wait", "drain", "lock", "disc", "poll", "gone"   in Server::stop *)
PC == {"idle", "all", "acc", "sess", "post", "count", "back", "evpush",
       "evcount", "evback", "call", "dec", "give",
       "close", "wait", "drain", "lock", "disc", "poll", "gone"}

Goto(t, l) == pc' = [pc EXCEPT ![t] = l]
Up(n) == (n + 1) % Wrap
Down(n) == (n + Wrap - 1) % Wrap
PoolFree(t) == poolLock \in {NoThread, t}

\* accept, accept_all or on_event returns; _on_disc releases its cd_lock_.
Return(t) ==
    /\ Goto(t, "idle")
    /\ all' = [all EXCEPT ![t] = FALSE]
    /\ ending' = [ending EXCEPT ![t] = NoSession]
    /\ cdLock' = IF ending[t] = NoSession THEN cdLock
                 ELSE [cdLock EXCEPT ![ending[t]] = NoThread]

\* Server::Server, then run(): Main is about to call accept_all in listen().
Init ==
    /\ released = FALSE /\ open = TRUE
    /\ apool = AOV /\ posted = {}
    /\ sess = [a \in AOV |-> NoSession]
    /\ accepting = 0 /\ connected = 0
    /\ made \in {S \in SUBSET Session : Cardinality(S) = PreCnt}
    /\ free = made /\ use = {}
    /\ live = {} /\ closing = {}
    /\ poolLock = NoThread
    /\ cdLock = [s \in Session |-> NoThread]
    /\ pc = [t \in Thread |-> IF t = Main THEN "all" ELSE "idle"]
    /\ aov = [t \in Thread |-> NoAOV]
    /\ ses = [t \in Thread |-> NoSession]
    /\ ending = [t \in Thread |-> NoSession]
    /\ all = [t \in Thread |-> t = Main]
    /\ todo = {}
    /\ lostAOV = {} /\ lostSes = {} /\ late = {}
----------------------------------------------------------------------------
(* Posting accepts *)

\* accept_all: go on while apool_ is not empty.
AcceptAll(t) ==
    /\ pc[t] = "all"
    /\ IF released \/ apool = {}
       THEN Return(t)
       ELSE Goto(t, "acc") /\ UNCHANGED <<all, ending, cdLock>>
    /\ UNCHANGED <<apool, posted, sess, accepting, connected, pool, live,
                   closing, poolLock, aov, ses, stop, lost>>

\* accept: the test of is_release_, then apool_.pop.
TakeAOV(t) ==
    /\ pc[t] = "acc"
    /\ \/ /\ released \/ apool = {}
          /\ Return(t)
          /\ UNCHANGED <<apool, aov>>
       \/ /\ ~released
          /\ \E a \in apool : /\ apool' = apool \ {a}
                              /\ aov' = [aov EXCEPT ![t] = a]
          /\ Goto(t, "sess")
          /\ UNCHANGED <<all, ending, cdLock>>
    /\ UNCHANGED <<posted, sess, accepting, connected, pool, live, closing,
                   poolLock, ses, stop, lost>>

\* SessionPool::create_cnt when nothing is free.
CreateCnt == LET diff == Cardinality(Session \ made)
             IN  IF diff >= IncCnt THEN IncCnt ELSE diff

\* SessionPool::pop: s comes out of the free list, new sessions in it if it
\* was empty.
PoolPop(s) ==
    \/ /\ s \in free
       /\ free' = free \ {s}
       /\ use' = use \cup {s}
       /\ UNCHANGED made
    \/ /\ free = {}
       /\ \E fresh \in SUBSET (Session \ made) :
             /\ Cardinality(fresh) = CreateCnt
             /\ s \in fresh
             /\ made' = made \cup fresh
             /\ free' = fresh \ {s}
             /\ use' = use \cup {s}

TakeSession(t) ==
    /\ pc[t] = "sess"
    /\ PoolFree(t)
    /\ \/ \E s \in Session : /\ PoolPop(s)
                             /\ ses' = [ses EXCEPT ![t] = s]
                             /\ sess' = [sess EXCEPT ![aov[t]] = s]
                             /\ Goto(t, "post")
       \/ /\ free = {} /\ CreateCnt = 0
          /\ Goto(t, "back")
          /\ UNCHANGED <<pool, ses, sess>>
    /\ UNCHANGED <<apool, posted, accepting, connected, live, closing,
                   poolLock, cdLock, aov, ending, all, stop, lost>>

\* No session to accept with: the AOV goes back and accept returns false.
PutBack(t) ==
    /\ pc[t] = "back"
    /\ apool' = apool \cup {aov[t]}
    /\ aov' = [aov EXCEPT ![t] = NoAOV]
    /\ Return(t)
    /\ UNCHANGED <<posted, sess, accepting, connected, pool, live, closing,
                   poolLock, ses, stop, lost>>

\* acceptex.  When it fails at once accept returns false and drops both.
PostAccept(t) ==
    /\ pc[t] = "post"
    /\ aov' = [aov EXCEPT ![t] = NoAOV]
    /\ ses' = [ses EXCEPT ![t] = NoSession]
    /\ \/ /\ open
          /\ posted' = posted \cup {aov[t]}
          /\ Goto(t, "count")
          /\ UNCHANGED <<lost, all, ending, cdLock>>
       \/ /\ MayFail \/ ~open
          /\ lostAOV' = lostAOV \cup {aov[t]}
          /\ lostSes' = lostSes \cup {ses[t]}
          /\ Return(t)
          /\ UNCHANGED <<posted, late>>
    /\ UNCHANGED <<apool, sess, accepting, connected, pool, live, closing,
                   poolLock, stop>>

\* Mutant of Counted: accepting_cnt_++ is left out.
CountedNot == UNCHANGED accepting

\* accepting_cnt_++, after the accept is under way.
Counted == accepting' = Up(accepting)

CountAccept(t) ==
    /\ pc[t] = "count"
    /\ Counted
    /\ IF all[t] THEN Goto(t, "all") /\ UNCHANGED <<all, ending, cdLock>>
                 ELSE Return(t)
    /\ UNCHANGED <<apool, posted, sess, connected, pool, live, closing,
                   poolLock, aov, ses, stop, lost>>
----------------------------------------------------------------------------
(* Completions *)

\* An accept completes: with a connection (whose session _on_accept starts,
\* or drops when the context update fails) or with an error.
Accepted(t, a) ==
    /\ pc[t] = "idle"
    /\ a \in posted
    /\ posted' = posted \ {a}
    /\ aov' = [aov EXCEPT ![t] = a]
    /\ \/ /\ connected' = Up(connected)
          /\ \/ /\ live' = live \cup {sess[a]}
                /\ late' = IF pc[Main] \in {"disc", "poll"}
                           THEN late \cup {sess[a]} ELSE late
                /\ UNCHANGED lostSes
             \/ /\ MayFail
                /\ lostSes' = lostSes \cup {sess[a]}
                /\ UNCHANGED <<live, late>>
          /\ Goto(t, "evcount")
       \/ /\ Goto(t, "evpush")
          /\ UNCHANGED <<connected, live, lostSes, late>>
    /\ UNCHANGED <<apool, sess, accepting, pool, closing, poolLock, cdLock, ses,
                   ending, all, stop, lostAOV>>

\* Mutant of PoolPush: use_ keeps the session.
PoolPushUse(s) == free' = free \cup {s} /\ UNCHANGED <<use, made>>

\* SessionPool::push.
PoolPush(s) == free' = free \cup {s} /\ use' = use \ {s} /\ UNCHANGED made

EventPush(t) ==
    /\ pc[t] = "evpush"
    /\ PoolFree(t)
    /\ PoolPush(sess[aov[t]])
    /\ Goto(t, "evcount")
    /\ UNCHANGED <<apool, posted, sess, accepting, connected, live, closing,
                   poolLock, cdLock, hands, stop, lost>>

EventCount(t) ==
    /\ pc[t] = "evcount"
    /\ accepting' = Down(accepting)
    /\ Goto(t, "evback")
    /\ UNCHANGED <<apool, posted, sess, connected, pool, live, closing,
                   poolLock, cdLock, hands, stop, lost>>

\* apool_.push, then accept().  Once uninit has emptied apool_ nobody deletes
\* the AOV any more.
EventBack(t) ==
    /\ pc[t] = "evback"
    /\ apool' = apool \cup {aov[t]}
    /\ sess' = [sess EXCEPT ![aov[t]] = NoSession]
    /\ aov' = [aov EXCEPT ![t] = NoAOV]
    /\ lostAOV' = IF pc[Main] \in {"lock", "disc", "poll", "gone"}
                  THEN lostAOV \cup {aov[t]} ELSE lostAOV
    /\ Goto(t, "acc")
    /\ UNCHANGED <<posted, accepting, connected, pool, live, closing, poolLock,
                   cdLock, ses, ending, all, stop, lostSes, late>>

\* A session ends on an IOThread: _on_disc, with cd_lock_, down to
\* Acceptor::disconnected, or to a call of the Net in on_disc.
SessionEnds(t, s) ==
    /\ pc[t] = "idle"
    /\ s \in live
    /\ cdLock[s] = NoThread
    /\ live' = live \ {s}
    /\ closing' = closing \ {s}
    /\ cdLock' = [cdLock EXCEPT ![s] = t]
    /\ ending' = [ending EXCEPT ![t] = s]
    /\ Goto(t, "dec") \/ (CallsNet /\ Goto(t, "call"))
    /\ UNCHANGED <<apool, posted, sess, accepting, connected, pool, poolLock,
                   aov, ses, all, stop, lost>>

\* stop_tcp_server and ~Net keep Net::lock_ as long as stop() runs; run_udp,
\* run_tcp_client and the others take it.
NetBusy == pc[Main] \in {"close", "wait", "drain", "lock", "disc", "poll"}

\* on_disc has the Net's lock_, and gives it back.
CallNet(t) ==
    /\ pc[t] = "call"
    /\ ~NetBusy
    /\ Goto(t, "dec")
    /\ UNCHANGED <<apool, posted, sess, accepting, connected, pool, live, closing,
                   poolLock, cdLock, hands, stop, lost>>

\* connected_cnt_--.
Uncounted == connected' = Down(connected)

Disconnected(t) ==
    /\ pc[t] = "dec"
    /\ Uncounted
    /\ Goto(t, "give")
    /\ UNCHANGED <<apool, posted, sess, accepting, pool, live, closing,
                   poolLock, cdLock, hands, stop, lost>>

\* spool_->push, then accept_all.
GiveBack(t) ==
    /\ pc[t] = "give"
    /\ PoolFree(t)
    /\ PoolPush(ending[t])
    /\ all' = [all EXCEPT ![t] = TRUE]
    /\ Goto(t, "all")
    /\ UNCHANGED <<apool, posted, sess, accepting, connected, live, closing,
                   poolLock, cdLock, aov, ses, ending, stop, lost>>
----------------------------------------------------------------------------
(* Server::stop *)

\* Acceptor::uninit: is_release_ = true, close, wait for accepting_cnt_, and
\* delete the AOVs of apool_.
Stop ==
    /\ MayStop
    /\ pc[Main] = "idle"
    /\ ~released
    /\ released' = TRUE
    /\ Goto(Main, "close")
    /\ UNCHANGED <<apool, posted, sess, accepting, connected, pool, live,
                   closing, poolLock, cdLock, hands, open, todo, lost>>

CloseListen ==
    /\ pc[Main] = "close"
    /\ open' = FALSE
    /\ Goto(Main, "wait")
    /\ UNCHANGED <<apool, posted, sess, accepting, connected, pool, live,
                   closing, poolLock, cdLock, hands, released, todo, lost>>

AcceptsOver == accepting = 0

WaitAccepts ==
    /\ pc[Main] = "wait"
    /\ AcceptsOver
    /\ Goto(Main, "drain")
    /\ UNCHANGED <<apool, posted, sess, accepting, connected, pool, live,
                   closing, poolLock, cdLock, hands, stop, lost>>

DrainAOVs ==
    /\ pc[Main] = "drain"
    /\ apool' = {}
    /\ Goto(Main, "lock")
    /\ UNCHANGED <<posted, sess, accepting, connected, pool, live, closing,
                   poolLock, cdLock, hands, stop, lost>>

\* SessionPool::uninit takes lock_ and copies use_.
LockPool ==
    /\ pc[Main] = "lock"
    /\ poolLock = NoThread
    /\ poolLock' = Main
    /\ todo' = use
    /\ Goto(Main, "disc")
    /\ UNCHANGED <<apool, posted, sess, accepting, connected, pool, live,
                   closing, cdLock, hands, released, open, lost>>

\* Mutant of ClosesLater: a session with operations under way is left alone.
ClosesLaterNot(s) == UNCHANGED <<live, closing, connected, pool>>

\* disconnect() of a live session with operations under way: they will fail,
\* and the last of them ends the session.
ClosesLater(s) ==
    /\ closing' = closing \cup {s}
    /\ UNCHANGED <<live, connected, pool>>

\* disconnect() of session s with lock_ held: nothing for a session that is
\* not connected; teardown on the spot when nothing is under way; else later.
StopSession(s) ==
    /\ pc[Main] = "disc"
    /\ s \in todo
    /\ cdLock[s] = NoThread
    /\ todo' = todo \ {s}
    /\ \/ s \notin live /\ UNCHANGED <<live, closing, connected, pool>>
       \/ /\ s \in live
          /\ live' = live \ {s}
          /\ Uncounted
          /\ PoolPush(s)
          /\ UNCHANGED closing
       \/ s \in live /\ ClosesLater(s)
    /\ UNCHANGED <<apool, posted, sess, accepting, poolLock, cdLock, pc, hands,
                   released, open, lost>>

UnlockPool ==
    /\ pc[Main] = "disc"
    /\ todo = {}
    /\ poolLock' = NoThread
    /\ Goto(Main, "poll")
    /\ UNCHANGED <<apool, posted, sess, accepting, connected, pool, live,
                   closing, cdLock, hands, stop, lost>>

\* total_cnt_ == free_.cnt(): the sessions, then the server, are deleted.
PollPool ==
    /\ pc[Main] = "poll"
    /\ poolLock = NoThread
    /\ free = made
    /\ Goto(Main, "gone")
    /\ UNCHANGED <<apool, posted, sess, accepting, connected, pool, live,
                   closing, poolLock, cdLock, hands, stop, lost>>
----------------------------------------------------------------------------
Step(t) == \/ AcceptAll(t) \/ TakeAOV(t) \/ TakeSession(t) \/ PutBack(t)
           \/ PostAccept(t) \/ CountAccept(t)
           \/ EventPush(t) \/ EventCount(t) \/ EventBack(t)
           \/ CallNet(t) \/ Disconnected(t) \/ GiveBack(t)

StopStep == \/ CloseListen \/ WaitAccepts \/ DrainAOVs \/ LockPool
            \/ (\E s \in Session : StopSession(s)) \/ UnlockPool \/ PollPool

Next ==
    \/ \E t \in Thread : Step(t)
    \/ \E t \in IO, a \in AOV : Accepted(t, a)
    \/ \E t \in IO, s \in Session : SessionEnds(t, s)
    \/ Stop
    \/ StopStep

Spec == Init /\ [][Next]_vars

\* Threads go on; stop() goes on; accepts end once their socket is closed and
\* so do the sessions stop() disconnected.  Nobody has to connect, to hang up
\* or to stop the server.
Fairness ==
    /\ \A t \in Thread : WF_vars(Step(t))
    /\ WF_vars(StopStep)
    /\ WF_vars(~open /\ \E t \in IO, a \in AOV : Accepted(t, a))
    /\ WF_vars(\E t \in IO, s \in closing : SessionEnds(t, s))

FairSpec == Spec /\ Fairness
----------------------------------------------------------------------------
\* Types of the variables.
TypeOK ==
    /\ {released, open} \subseteq BOOLEAN
    /\ apool \subseteq AOV /\ posted \subseteq AOV /\ lostAOV \subseteq AOV
    /\ sess \in [AOV -> Session \cup {NoSession}]
    /\ accepting \in 0..(Wrap - 1)
    /\ connected \in 0..(Wrap - 1)
    /\ {free, use, made, live, closing, todo, lostSes, late}
          \subseteq SUBSET Session
    /\ poolLock \in Thread \cup {NoThread}
    /\ cdLock \in [Session -> Thread \cup {NoThread}]
    /\ pc \in [Thread -> PC]
    /\ aov \in [Thread -> AOV \cup {NoAOV}]
    /\ ses \in [Thread -> Session \cup {NoSession}]
    /\ ending \in [Thread -> Session \cup {NoSession}]
    /\ all \in [Thread -> BOOLEAN]

\* accepting_cnt_ is the number of accepts under way, give or take the threads
\* between the count and what it counts, modulo 2^32: the wait of uninit rests
\* on it.
At(l) == Cardinality({t \in Thread : pc[t] \in l})

AcceptingExact ==
    (accepting + At({"count"})) % Wrap =
    (Cardinality(posted) + At({"evpush", "evcount"})) % Wrap

\* connected_cnt_ is the number of sessions live or in teardown, and of those
\* _on_accept dropped.
ConnectedExact ==
    connected = Cardinality(live) + At({"call", "dec"})
                + Cardinality({s \in lostSes : \A a \in lostAOV : sess[a] # s})

\* accepting_cnt_, which uninit waits for, and connected_cnt_ count what they
\* say, however completions overtake the threads that posted the accepts.
CountersExact == AcceptingExact /\ ConnectedExact

\* A session is in one place: pooled, live, with one AOV, in teardown, or
\* lost; use_ is what is not pooled.
InAccept(s) == \/ \E a \in posted : sess[a] = s
               \/ \E t \in Thread : ses[t] = s
               \/ \E t \in Thread : pc[t] = "evpush" /\ sess[aov[t]] = s
InTeardown(s) == \E t \in Thread : pc[t] \in {"call", "dec", "give"} /\ ending[t] = s

SessionOnce ==
    /\ use = made \ free
    /\ \A s \in made :
          Cardinality({p \in 1..5 : \/ p = 1 /\ s \in free
                                    \/ p = 2 /\ s \in live
                                    \/ p = 3 /\ InAccept(s)
                                    \/ p = 4 /\ InTeardown(s)
                                    \/ p = 5 /\ s \in lostSes}) = 1
    /\ \A a, b \in posted : sess[a] = sess[b] => a = b

\* The lock order of stop(), lock_ before cd_lock_, meets that of _on_disc.
LockCycle == \E s \in todo, t \in IO : pc[t] \in {"give", "sess"} /\ cdLock[s] = t

\* A session connected after SessionPool::uninit had copied use_: its accept
\* was under way but not yet counted when Acceptor::uninit looked.
LateSession == pc[Main] = "poll" /\ late \cap live # {}

\* stop() waits, with Net::lock_, for a session whose on_disc waits for that lock.
CallCycle == NetBusy /\ \E t \in IO : pc[t] = "call"

\* stop() ends, and the only things that can keep it from ending are a session
\* dropped by accept or _on_accept, a late session, and the two lock cycles.
StopEnds ==
    released ~> (pc[Main] = "gone" \/ lostSes # {} \/ LateSession \/ LockCycle
                 \/ CallCycle)

\* What ServerConf says of accept_cnt_: so many accepts are kept posted.
KeepsAccepting ==
    (\A t \in Thread : pc[t] = "idle") /\ ~released /\ (free # {} \/ made # Session)
       => posted = AOV
============================================================================
