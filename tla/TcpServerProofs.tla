-------------------------- MODULE TcpServerProofs --------------------------
(***************************************************************************)
(* Proofs about TcpServer, for any IOThreads, AOVs and sessions, any       *)
(* numbers created at first and at a time, and any range of the counters   *)
(* that is larger than what they count.                                    *)
(*                                                                         *)
(* ServerInv is inductive.  Hands says what a thread has at each place of  *)
(* accept, on_event and disconnected; AOVOnce that no AOV is with two of   *)
(* them; Places, resting on both, that no session is.  The counters then   *)
(* follow by adding and taking away one.                                   *)
(***************************************************************************)
EXTENDS TcpServer, Integers, FiniteSetTheorems, TLAPS

\* The places of a thread at which it has an AOV, and at which a session.
HandPlaces == {"sess", "post", "back", "evpush", "evcount", "evback"}
TearPlaces == {"call", "dec", "give"}
InHand(t) == pc[t] \in HandPlaces
Teardown == {t \in Thread : pc[t] \in TearPlaces}

\* The AOVs whose sess_ is being accepted.
Accepting == posted \cup {aov[t] : t \in {u \in Thread : pc[u] \in {"post", "evpush"}}}

Hands ==
  \A t \in Thread :
    /\ InHand(t) => aov[t] \in AOV \ (apool \cup posted \cup lostAOV)
    /\ ~InHand(t) => aov[t] = NoAOV
    /\ pc[t] = "post" => ses[t] \in Session /\ ses[t] = sess[aov[t]]
    /\ pc[t] # "post" => ses[t] = NoSession
    /\ t \in Teardown => ending[t] \in Session

AOVOnce ==
  /\ \A t, u \in Thread : InHand(t) /\ InHand(u) /\ aov[t] = aov[u] => t = u
  /\ apool \cap posted = {} /\ lostAOV \cap posted = {}
  /\ ~released => apool \cap lostAOV = {}

Stopping == {"close", "wait", "drain", "lock", "disc", "poll", "gone"}
Releasing == pc[Main] \in Stopping => released

\* Where sessions are: free_, connected, with an accept, in teardown, lost.
Accepts(s) == \E a \in Accepting : sess[a] = s
TearsDown(s) == \E t \in Teardown : ending[t] = s
Apart(s) ==
  /\ s \in free => s \notin live /\ ~Accepts(s) /\ ~TearsDown(s) /\ s \notin lostSes
  /\ s \in live => ~Accepts(s) /\ ~TearsDown(s) /\ s \notin lostSes
  /\ Accepts(s) => ~TearsDown(s) /\ s \notin lostSes
  /\ TearsDown(s) => s \notin lostSes
  /\ s \in made <=> \/ s \in free \/ s \in live \/ Accepts(s) \/ TearsDown(s)
                    \/ s \in lostSes

Places ==
  /\ free \subseteq made /\ use = made \ free
  /\ \A a \in Accepting : sess[a] \in Session
  /\ \A a, b \in Accepting : sess[a] = sess[b] => a = b
  /\ \A t, u \in Teardown : ending[t] = ending[u] => t = u
  /\ \A s \in Session : Apart(s)

\* The session of an AOV that was lost is lost with it.
LostTogether == \A a \in lostAOV : sess[a] \in lostSes \cup {NoSession}

\* AcceptingExact with nothing modulo.
AcceptingCount ==
  LET ahead == At({"count"})
      under == Cardinality(posted) + At({"evpush", "evcount"})
  IN  accepting = IF ahead <= under THEN under - ahead ELSE under + Wrap - ahead

\* The inductive invariant.
ServerInv == /\ TypeOK /\ Hands /\ AOVOnce /\ Releasing /\ Places /\ LostTogether
             /\ AcceptingCount /\ ConnectedExact
----------------------------------------------------------------------------
(* Counting threads and the arithmetic of the counters.                    *)

LEMMA ThreadFinite == IsFiniteSet(Thread)
<1>1. IsFiniteSet({Main})
  BY FS_Singleton
<1> QED
  BY <1>1, FS_Union, NumberAssumption DEF Thread

LEMMA AtBound == \A l : At(l) \in Nat /\ At(l) <= Cardinality(Thread)
<1> SUFFICES ASSUME NEW l PROVE At(l) \in Nat /\ At(l) <= Cardinality(Thread)
  OBVIOUS
<1>1. {t \in Thread : pc[t] \in l} \subseteq Thread
  OBVIOUS
<1> QED
  BY <1>1, ThreadFinite, FS_Subset, FS_CardinalityType DEF At

\* A thread that moves from one place to another.
LEMMA AtMoves ==
  ASSUME pc \in [Thread -> PC], NEW t \in Thread, NEW x, Goto(t, x), NEW l
  PROVE  /\ pc[t] \notin l /\ x \notin l => At(l)' = At(l)
         /\ pc[t] \in l /\ x \in l => At(l)' = At(l)
         /\ pc[t] \notin l /\ x \in l => At(l)' = At(l) + 1
         /\ pc[t] \in l /\ x \notin l => At(l)' = At(l) - 1
<1> DEFINE S == {u \in Thread : pc[u] \in l}
           R == {u \in Thread : pc'[u] \in l}
<1>1. pc' = [pc EXCEPT ![t] = x]
  BY DEF Goto
<1>2. IsFiniteSet(S)
  BY ThreadFinite, FS_Subset
<1>3. /\ pc[t] \notin l /\ x \notin l => R = S
      /\ pc[t] \in l /\ x \in l => R = S
      /\ pc[t] \notin l /\ x \in l => R = S \cup {t} /\ t \notin S
      /\ pc[t] \in l /\ x \notin l => R = S \ {t} /\ t \in S
  BY <1>1
<1>4. At(l) = Cardinality(S) /\ At(l)' = Cardinality(R)
  BY DEF At
<1> HIDE DEF S, R
<1> QED
  BY <1>2, <1>3, <1>4, FS_AddElement, FS_RemoveElement

LEMMA UpDown ==
  ASSUME NEW n \in 0..(Wrap - 1)
  PROVE  /\ Up(n) = IF n + 1 = Wrap THEN 0 ELSE n + 1
         /\ Down(n) = IF n = 0 THEN Wrap - 1 ELSE n - 1
<1>1. Wrap \in Nat \ {0}
  BY NumberAssumption, ThreadFinite, FS_CardinalityType
<1>2. (n + 1) % Wrap = IF n + 1 = Wrap THEN 0 ELSE n + 1
  BY <1>1
<1>3. (n + Wrap - 1) % Wrap = IF n = 0 THEN Wrap - 1 ELSE n - 1
  BY <1>1
<1> QED
  BY <1>2, <1>3 DEF Up, Down
\* What is counted is less than a counter can be.
LEMMA Bounds ==
  ASSUME TypeOK
  PROVE  /\ IsFiniteSet(posted) /\ Cardinality(posted) \in Nat
         /\ Wrap \in Nat
         /\ \A l, m : /\ At(l) \in Nat /\ At(m) \in Nat
                      /\ At(l) < Wrap
                      /\ Cardinality(posted) + At(l) < Wrap
<1>1. /\ IsFiniteSet(posted) /\ Cardinality(posted) \in Nat
      /\ Cardinality(posted) <= Cardinality(AOV) /\ Cardinality(AOV) \in Nat
  BY FS_Subset, FS_CardinalityType, NumberAssumption DEF TypeOK
<1>2. Cardinality(Thread) \in Nat
  BY ThreadFinite, FS_CardinalityType
<1> QED
  BY <1>1, <1>2, AtBound, NumberAssumption
----------------------------------------------------------------------------
(* Steps that move nothing but the thread.                                 *)

\* What it means for a thread to go where it has as much in hands as before.
SameHands(t, l) ==
  /\ Goto(t, l)
  /\ pc[t] \notin {"post", "evpush"} /\ l \notin {"post", "evpush"}
  /\ pc[t] \in HandPlaces <=> l \in HandPlaces
  /\ pc[t] \in TearPlaces <=> l \in TearPlaces

LEMMA MoveKeeps ==
  ASSUME TypeOK, Hands, AOVOnce, Places, LostTogether,
         NEW t \in Thread, NEW l, SameHands(t, l),
         UNCHANGED <<posted, sess, aov, ses, free, use, made, live, lostAOV, lostSes>>,
         apool' \subseteq apool, released => released',
         \A u \in Thread : ending'[u] = ending[u] \/ (u = t /\ l \notin TearPlaces)
  PROVE  Hands' /\ AOVOnce' /\ Places' /\ LostTogether'
<1>1. /\ pc'[t] = l /\ \A u \in Thread \ {t} : pc'[u] = pc[u]
      /\ \A u \in Thread : InHand(u)' <=> InHand(u)
      /\ Teardown' = Teardown
      /\ \A u \in Thread : pc'[u] = "post" <=> pc[u] = "post"
      /\ \A u \in Thread : pc'[u] = "evpush" <=> pc[u] = "evpush"
  BY DEF SameHands, Goto, TypeOK, InHand, Teardown
<1>2. \A u \in Teardown : ending'[u] = ending[u]
  BY <1>1 DEF SameHands, Teardown
<1>3. Hands'
  BY <1>1, <1>2 DEF Hands
<1>4. AOVOnce'
  BY <1>1 DEF AOVOnce
<1>5. Accepting' = Accepting
  BY <1>1 DEF Accepting
<1>6. Places'
  <2>1. \A s : (Accepts(s)' <=> Accepts(s)) /\ (TearsDown(s)' <=> TearsDown(s))
    BY <1>1, <1>2, <1>5 DEF Accepts, TearsDown
  <2> QED
    BY <1>1, <1>2, <1>5, <2>1 DEF Places, Apart
<1>7. LostTogether'
  BY DEF LostTogether
<1> QED
  BY <1>3, <1>4, <1>6, <1>7

\* The counters, when the thread moves between places they do not speak of.
LEMMA MoveCounts ==
  ASSUME TypeOK, AcceptingCount, ConnectedExact,
         NEW t \in Thread, NEW l, Goto(t, l),
         UNCHANGED <<posted, sess, live, lostAOV, lostSes, accepting, connected>>,
         pc[t] \notin {"count", "evpush", "evcount", "call", "dec"}
            /\ l \notin {"count", "evpush", "evcount", "call", "dec"}
  PROVE  AcceptingCount' /\ ConnectedExact'
<1>1. /\ At({"count"})' = At({"count"})
      /\ At({"evpush", "evcount"})' = At({"evpush", "evcount"})
      /\ At({"call", "dec"})' = At({"call", "dec"})
  BY AtMoves DEF TypeOK
<1> QED
  BY <1>1 DEF AcceptingCount, ConnectedExact

LEMMA MainMoves ==
  ASSUME NEW l, Goto(Main, l), UNCHANGED ending, TypeOK,
         pc[Main] \in {"idle"} \cup Stopping, l \in Stopping
  PROVE  Main \in Thread /\ SameHands(Main, l)
  BY DEF SameHands, Thread, Stopping, HandPlaces, TearPlaces

\* Acceptor::uninit and SessionPool::uninit, but for the sessions they stop.
LEMMA StopKeeps ==
  ASSUME ServerInv,
         Stop \/ CloseListen \/ WaitAccepts \/ DrainAOVs \/ LockPool \/ UnlockPool \/ PollPool
  PROVE  ServerInv'
<1> USE DEF ServerInv, pool, hands, lost, stop, Stopping
<1>1. PICK l \in Stopping : Goto(Main, l)
  BY DEF Stop, CloseListen, WaitAccepts, DrainAOVs, LockPool, UnlockPool, PollPool
<1>2. pc[Main] \in {"idle"} \cup Stopping
  BY DEF Stop, CloseListen, WaitAccepts, DrainAOVs, LockPool, UnlockPool, PollPool
<1>3. /\ UNCHANGED <<posted, sess, aov, ses, free, use, made, live, lostAOV, lostSes,
                     ending, accepting, connected>>
      /\ apool' \subseteq apool /\ (released => released')
  BY DEF Stop, CloseListen, WaitAccepts, DrainAOVs, LockPool, UnlockPool, PollPool
<1>4. Main \in Thread /\ SameHands(Main, l)
  BY <1>1, <1>2, <1>3, MainMoves
<1>5. TypeOK'
  <2>1. pc' \in [Thread -> PC]
    BY <1>1, <1>4 DEF TypeOK, PC, Goto
  <2>2. {released', open'} \subseteq BOOLEAN /\ todo' \in SUBSET Session
        /\ poolLock' \in Thread \cup {NoThread} /\ apool' \subseteq AOV
    BY <1>3, <1>4 DEF TypeOK, Stop, CloseListen, WaitAccepts, DrainAOVs, LockPool,
                      UnlockPool, PollPool
  <2>3. UNCHANGED <<closing, cdLock, ses, all, late>>
    BY DEF Stop, CloseListen, WaitAccepts, DrainAOVs, LockPool, UnlockPool, PollPool
  <2> QED
    BY <1>3, <2>1, <2>2, <2>3 DEF TypeOK
<1>6. Hands' /\ AOVOnce' /\ Places' /\ LostTogether'
  BY <1>3, <1>4, MoveKeeps
<1>7. AcceptingCount' /\ ConnectedExact'
  BY <1>1, <1>2, <1>3, <1>4, MoveCounts
<1>8. Releasing'
  BY <1>3 DEF Releasing, Stop, CloseListen, WaitAccepts, DrainAOVs, LockPool, UnlockPool,
              PollPool
<1> QED
  BY <1>5, <1>6, <1>7, <1>8

\* Only Stop takes Main to where the server stops.
LEMMA StepReleasing ==
  ASSUME TypeOK, Releasing, NEW t \in Thread, NEW l, Goto(t, l), l \notin Stopping,
         UNCHANGED released
  PROVE  Releasing'
  BY DEF TypeOK, Releasing, Goto, Stopping, Thread

\* accept or accept_all is over.
LEMMA ReturnKeeps ==
  ASSUME TypeOK, NEW t \in Thread, Return(t)
  PROVE  /\ Goto(t, "idle")
         /\ pc' \in [Thread -> PC] /\ all' \in [Thread -> BOOLEAN]
         /\ ending' \in [Thread -> Session \cup {NoSession}]
         /\ cdLock' \in [Session -> Thread \cup {NoThread}]
         /\ \A u \in Thread : ending'[u] = ending[u] \/ u = t
  BY DEF TypeOK, Return, Goto, PC

\* The steps of accept_all, the counting of on_event and the end of on_disc.
LEMMA AcceptAllKeeps ==
  ASSUME ServerInv, NEW t \in Thread, AcceptAll(t) PROVE ServerInv'
<1> USE DEF ServerInv, pool, hands, lost, stop
<1>1. /\ pc[t] = "all"
      /\ UNCHANGED <<posted, sess, aov, ses, free, use, made, live, lostAOV, lostSes,
                     accepting, connected, apool, released>>
  BY DEF AcceptAll
<1>2. PICK l \in {"idle", "acc"} : Goto(t, l)
  BY ReturnKeeps DEF AcceptAll
<1>3. TypeOK' /\ \A u \in Thread : ending'[u] = ending[u] \/ u = t
  BY <1>2, ReturnKeeps DEF AcceptAll, TypeOK, Goto, PC
<1>4. SameHands(t, l)
  BY <1>1, <1>2 DEF SameHands, HandPlaces, TearPlaces
<1>5. Hands' /\ AOVOnce' /\ Places' /\ LostTogether'
  BY <1>1, <1>3, <1>4, MoveKeeps DEF TearPlaces
<1>6. AcceptingCount' /\ ConnectedExact'
  BY <1>1, <1>2, MoveCounts
<1>7. Releasing'
  BY <1>1, <1>2, StepReleasing DEF Stopping
<1> QED
  BY <1>3, <1>5, <1>6, <1>7

LEMMA CountAcceptKeeps ==
  ASSUME ServerInv, NEW t \in Thread, CountAccept(t) PROVE ServerInv'
<1> USE DEF ServerInv, pool, hands, lost, stop
<1>1. /\ pc[t] = "count" /\ accepting' = Up(accepting)
      /\ UNCHANGED <<posted, sess, aov, ses, free, use, made, live, lostAOV, lostSes,
                     connected, apool, released>>
  BY DEF CountAccept, Counted
<1>2. PICK l \in {"idle", "all"} : Goto(t, l)
  BY ReturnKeeps DEF CountAccept
<1>3. /\ accepting \in 0..(Wrap - 1)
      /\ At({"count"})' = At({"count"}) - 1
      /\ At({"evpush", "evcount"})' = At({"evpush", "evcount"})
      /\ At({"call", "dec"})' = At({"call", "dec"})
  BY <1>1, <1>2, AtMoves DEF TypeOK
<1>4. accepting' = IF accepting + 1 = Wrap THEN 0 ELSE accepting + 1
  BY <1>1, <1>3, UpDown
<1>5. TypeOK' /\ \A u \in Thread : ending'[u] = ending[u] \/ u = t
  <2>1. accepting' \in 0..(Wrap - 1)
    BY <1>3, <1>4, NumberAssumption
  <2> QED
    BY <1>2, <2>1, ReturnKeeps DEF CountAccept, TypeOK, Goto, PC
<1>6. SameHands(t, l)
  BY <1>1, <1>2 DEF SameHands, HandPlaces, TearPlaces
<1>7. Hands' /\ AOVOnce' /\ Places' /\ LostTogether'
  BY <1>1, <1>5, <1>6, MoveKeeps DEF TearPlaces
<1>8. ConnectedExact'
  BY <1>1, <1>3 DEF ConnectedExact
<1>9. AcceptingCount'
  <2>1. At({"count"})' \in Nat
    BY ThreadFinite, FS_Subset, FS_CardinalityType DEF At
  <2> QED
    BY <1>1, <1>3, <1>4, <2>1, Bounds DEF AcceptingCount
<1>10. Releasing'
  BY <1>1, <1>2, StepReleasing DEF Stopping
<1> QED
  BY <1>5, <1>7, <1>8, <1>9, <1>10

\* The sessions _on_accept dropped, which connected_cnt_ goes on counting.
Dropped == {s \in lostSes : \A a \in lostAOV : sess[a] # s}

LEMMA ConnectedBounds ==
  ASSUME TypeOK, ConnectedExact
  PROVE  /\ connected = Cardinality(live) + At({"call", "dec"}) + Cardinality(Dropped)
         /\ IsFiniteSet(live) /\ IsFiniteSet(Dropped)
         /\ Cardinality(live) \in Nat /\ Cardinality(Dropped) \in Nat
         /\ At({"call", "dec"}) \in Nat
<1>1. IsFiniteSet(live) /\ IsFiniteSet(Dropped)
  BY FS_Subset, NumberAssumption DEF TypeOK, Dropped
<1> QED
  BY <1>1, FS_CardinalityType, AtBound DEF ConnectedExact, Dropped

LEMMA EventCountKeeps ==
  ASSUME ServerInv, NEW t \in Thread, EventCount(t) PROVE ServerInv'
<1> USE DEF ServerInv, pool, hands, lost, stop
<1>1. /\ pc[t] = "evcount" /\ Goto(t, "evback") /\ accepting' = Down(accepting)
      /\ UNCHANGED <<posted, sess, aov, ses, free, use, made, live, lostAOV, lostSes,
                     connected, apool, released, ending>>
  BY DEF EventCount
<1>2. /\ accepting \in 0..(Wrap - 1)
      /\ At({"count"})' = At({"count"})
      /\ At({"evpush", "evcount"})' = At({"evpush", "evcount"}) - 1
      /\ At({"call", "dec"})' = At({"call", "dec"})
  BY <1>1, AtMoves DEF TypeOK
<1>3. accepting' = IF accepting = 0 THEN Wrap - 1 ELSE accepting - 1
  BY <1>1, <1>2, UpDown
<1>4. TypeOK'
  <2>1. accepting' \in 0..(Wrap - 1)
    BY <1>2, <1>3, NumberAssumption
  <2> QED
    BY <1>1, <2>1 DEF EventCount, TypeOK, Goto, PC
<1>5. SameHands(t, "evback")
  BY <1>1 DEF SameHands, HandPlaces, TearPlaces
<1>6. Hands' /\ AOVOnce' /\ Places' /\ LostTogether'
  BY <1>1, <1>5, MoveKeeps
<1>7. ConnectedExact'
  BY <1>1, <1>2 DEF ConnectedExact
<1>8. AcceptingCount'
  <2>1. At({"evpush", "evcount"})' \in Nat
    BY ThreadFinite, FS_Subset, FS_CardinalityType DEF At
  <2> QED
    BY <1>1, <1>2, <1>3, <2>1, Bounds DEF AcceptingCount
<1>9. Releasing'
  BY <1>1, StepReleasing DEF Stopping
<1> QED
  BY <1>4, <1>6, <1>7, <1>8, <1>9

LEMMA CallNetKeeps ==
  ASSUME ServerInv, NEW t \in Thread, CallNet(t) PROVE ServerInv'
<1> USE DEF ServerInv, pool, hands, lost, stop
<1>1. /\ pc[t] = "call" /\ Goto(t, "dec")
      /\ UNCHANGED <<posted, sess, aov, ses, free, use, made, live, lostAOV, lostSes,
                     accepting, connected, apool, released, ending>>
  BY DEF CallNet
<1>2. /\ At({"count"})' = At({"count"})
      /\ At({"evpush", "evcount"})' = At({"evpush", "evcount"})
      /\ At({"call", "dec"})' = At({"call", "dec"})
  BY <1>1, AtMoves DEF TypeOK
<1>3. TypeOK'
  BY <1>1 DEF CallNet, TypeOK, Goto, PC
<1>4. SameHands(t, "dec")
  BY <1>1 DEF SameHands, HandPlaces, TearPlaces
<1>5. Hands' /\ AOVOnce' /\ Places' /\ LostTogether'
  BY <1>1, <1>4, MoveKeeps
<1>6. AcceptingCount' /\ ConnectedExact'
  BY <1>1, <1>2 DEF AcceptingCount, ConnectedExact
<1>7. Releasing'
  BY <1>1, StepReleasing DEF Stopping
<1> QED
  BY <1>3, <1>5, <1>6, <1>7

LEMMA DisconnectedKeeps ==
  ASSUME ServerInv, NEW t \in Thread, Disconnected(t) PROVE ServerInv'
<1> USE DEF ServerInv, pool, hands, lost, stop
<1>1. /\ pc[t] = "dec" /\ Goto(t, "give") /\ connected' = Down(connected)
      /\ UNCHANGED <<posted, sess, aov, ses, free, use, made, live, lostAOV, lostSes,
                     accepting, apool, released, ending>>
  BY DEF Disconnected, Uncounted
<1>2. /\ connected \in 0..(Wrap - 1)
      /\ At({"count"})' = At({"count"})
      /\ At({"evpush", "evcount"})' = At({"evpush", "evcount"})
      /\ At({"call", "dec"})' = At({"call", "dec"}) - 1
      /\ At({"call", "dec"})' \in Nat
  <2>1. At({"call", "dec"})' \in Nat
    BY ThreadFinite, FS_Subset, FS_CardinalityType DEF At
  <2> QED
    BY <1>1, <2>1, AtMoves DEF TypeOK
<1>3. connected' = connected - 1 /\ connected # 0 /\ ConnectedExact'
  <2>1. connected # 0
    BY <1>2, ConnectedBounds
  <2>2. connected' = connected - 1
    BY <1>1, <1>2, <2>1, UpDown
  <2>3. Dropped' = Dropped
    BY <1>1 DEF Dropped
  <2> QED
    BY <1>1, <1>2, <2>1, <2>2, <2>3, ConnectedBounds DEF ConnectedExact, Dropped
<1>4. TypeOK'
  <2>1. connected' \in 0..(Wrap - 1)
    BY <1>2, <1>3, NumberAssumption
  <2> QED
    BY <1>1, <2>1 DEF Disconnected, TypeOK, Goto, PC
<1>5. SameHands(t, "give")
  BY <1>1 DEF SameHands, HandPlaces, TearPlaces
<1>6. Hands' /\ AOVOnce' /\ Places' /\ LostTogether'
  BY <1>1, <1>5, MoveKeeps
<1>7. AcceptingCount'
  BY <1>1, <1>2 DEF AcceptingCount
<1>8. Releasing'
  BY <1>1, StepReleasing DEF Stopping
<1> QED
  BY <1>3, <1>4, <1>6, <1>7, <1>8
----------------------------------------------------------------------------
(* Steps that hand an AOV or a session on.                                 *)

\* The thread that moves, and the others.
LEMMA Moves ==
  ASSUME TypeOK, NEW t \in Thread, NEW l \in PC, Goto(t, l)
  PROVE  /\ pc' \in [Thread -> PC] /\ pc'[t] = l
         /\ \A u \in Thread \ {t} : /\ pc'[u] = pc[u] /\ (InHand(u)' <=> InHand(u))
                                    /\ u \in Teardown' <=> u \in Teardown
         /\ InHand(t)' <=> l \in HandPlaces
         /\ t \in Teardown' <=> l \in TearPlaces
  BY DEF TypeOK, Goto, InHand, Teardown

\* What a thread has in its hands is not being accepted unless it says so.
LEMMA NotAccepting ==
  ASSUME Hands, AOVOnce, NEW t \in Thread, InHand(t), pc[t] \notin {"post", "evpush"}
  PROVE  aov[t] \notin Accepting
  BY DEF Hands, AOVOnce, Accepting, InHand, HandPlaces

\* No AOV comes to being accepted, or ceases to, when no thread that has one moves.
LEMMA AcceptingKept ==
  ASSUME NEW t \in Thread, UNCHANGED posted,
         \A u \in Thread \ {t} : pc'[u] = pc[u] /\ aov'[u] = aov[u],
         pc[t] \notin {"post", "evpush"}, pc'[t] \notin {"post", "evpush"}
  PROVE  Accepting' = Accepting
<1>1. {u \in Thread : pc'[u] \in {"post", "evpush"}} = {u \in Thread : pc[u] \in {"post", "evpush"}}
  OBVIOUS
<1>2. \A u \in {v \in Thread : pc[v] \in {"post", "evpush"}} : aov'[u] = aov[u]
  OBVIOUS
<1> QED
  BY <1>1, <1>2 DEF Accepting

LEMMA TakeAOVKeeps ==
  ASSUME ServerInv, NEW t \in Thread, TakeAOV(t) PROVE ServerInv'
<1> USE DEF ServerInv, pool, hands, lost, stop
<1>1. /\ pc[t] = "acc"
      /\ UNCHANGED <<posted, sess, ses, free, use, made, live, lostAOV, lostSes,
                     accepting, connected, released>>
  BY DEF TakeAOV
<1>2. CASE Return(t) /\ UNCHANGED <<apool, aov>>
  <2>1. Goto(t, "idle") /\ SameHands(t, "idle")
    BY <1>1, <1>2, ReturnKeeps DEF SameHands, HandPlaces, TearPlaces
  <2>2. TypeOK' /\ \A u \in Thread : ending'[u] = ending[u] \/ u = t
    BY <1>2, ReturnKeeps DEF TakeAOV, TypeOK
  <2>3. Hands' /\ AOVOnce' /\ Places' /\ LostTogether'
    BY <1>1, <1>2, <2>1, <2>2, MoveKeeps DEF TearPlaces
  <2>4. AcceptingCount' /\ ConnectedExact'
    BY <1>1, <2>1, MoveCounts
  <2>5. Releasing'
    BY <1>1, <2>1, StepReleasing DEF Stopping
  <2> QED
    BY <2>2, <2>3, <2>4, <2>5
<1>3. CASE /\ ~released /\ Goto(t, "sess") /\ UNCHANGED <<all, ending, cdLock>>
           /\ \E a \in apool : apool' = apool \ {a} /\ aov' = [aov EXCEPT ![t] = a]
  <2>1. PICK a \in apool : apool' = apool \ {a} /\ aov' = [aov EXCEPT ![t] = a]
    BY <1>3
  <2>2. /\ a \in AOV /\ a \notin posted /\ a \notin lostAOV
        /\ aov'[t] = a /\ \A u \in Thread \ {t} : aov'[u] = aov[u]
    BY <1>3, <2>1 DEF TypeOK, AOVOnce
  <2>3. TypeOK'
    BY <1>3, <2>1, <2>2 DEF TakeAOV, TypeOK, Goto, PC
  <2>4. /\ pc'[t] = "sess"
        /\ \A u \in Thread \ {t} : /\ pc'[u] = pc[u] /\ (InHand(u)' <=> InHand(u))
                                   /\ u \in Teardown' <=> u \in Teardown
        /\ InHand(t)' /\ ~InHand(t) /\ Teardown' = Teardown
    BY <1>1, <1>3, Moves DEF PC, HandPlaces, TearPlaces, InHand, Teardown
  <2>5. Hands'
    <3>1. \A u \in Thread \ {t} : InHand(u) => aov[u] \in AOV \ (apool \cup posted \cup lostAOV)
      BY DEF Hands
    <3>2. SUFFICES ASSUME NEW u \in Thread
                   PROVE  /\ InHand(u)' => aov'[u] \in AOV \ (apool \cup posted \cup lostAOV)'
                          /\ ~InHand(u)' => aov'[u] = NoAOV
                          /\ pc'[u] = "post" => ses'[u] \in Session /\ ses'[u] = sess'[aov'[u]]
                          /\ pc'[u] # "post" => ses'[u] = NoSession
                          /\ u \in Teardown' => ending'[u] \in Session
      BY DEF Hands
    <3>3. CASE u = t
      BY <1>1, <1>3, <2>1, <2>2, <2>4, <3>3 DEF Hands
    <3>4. CASE u # t
      BY <1>1, <1>3, <2>1, <2>2, <2>4, <3>1, <3>4 DEF Hands
    <3> QED
      BY <3>3, <3>4
  <2>6. AOVOnce'
    <3>1. \A u \in Thread \ {t} : InHand(u) => aov[u] # a
      BY <2>1 DEF Hands
    <3>2. \A u, v \in Thread : InHand(u)' /\ InHand(v)' /\ aov'[u] = aov'[v] => u = v
      BY <2>2, <2>4, <3>1 DEF AOVOnce
    <3> QED
      BY <1>1, <2>1, <3>2 DEF AOVOnce
  <2>7. Accepting' = Accepting
    BY <1>1, <2>2, <2>4, AcceptingKept
  <2>8. Places'
    <3>1. \A s : (Accepts(s)' <=> Accepts(s)) /\ (TearsDown(s)' <=> TearsDown(s))
      BY <1>1, <1>3, <2>4, <2>7 DEF Accepts, TearsDown
    <3> QED
      BY <1>1, <1>3, <2>4, <2>7, <3>1 DEF Places, Apart
  <2>9. AcceptingCount' /\ ConnectedExact'
    BY <1>1, <1>3, MoveCounts
  <2>10. Releasing' /\ LostTogether'
    BY <1>1, <1>3, StepReleasing DEF Stopping, LostTogether
  <2> QED
    BY <2>3, <2>5, <2>6, <2>8, <2>9, <2>10
<1> QED
  BY <1>2, <1>3 DEF TakeAOV

LEMMA PutBackKeeps ==
  ASSUME ServerInv, NEW t \in Thread, PutBack(t) PROVE ServerInv'
<1> USE DEF ServerInv, pool, hands, lost, stop
<1>1. /\ pc[t] = "back" /\ Return(t) /\ Goto(t, "idle") /\ apool' = apool \cup {aov[t]}
      /\ aov' = [aov EXCEPT ![t] = NoAOV]
      /\ UNCHANGED <<posted, sess, ses, free, use, made, live, lostAOV, lostSes,
                     accepting, connected, released>>
  BY DEF PutBack, Return
<1>2. /\ aov[t] \in AOV /\ aov[t] \notin posted /\ aov[t] \notin lostAOV /\ InHand(t)
      /\ aov'[t] = NoAOV /\ \A u \in Thread \ {t} : aov'[u] = aov[u]
  BY <1>1 DEF Hands, TypeOK, InHand, HandPlaces
<1>3. /\ pc'[t] = "idle"
      /\ \A u \in Thread \ {t} : /\ pc'[u] = pc[u] /\ (InHand(u)' <=> InHand(u))
                                 /\ u \in Teardown' <=> u \in Teardown
      /\ ~InHand(t)' /\ Teardown' = Teardown /\ t \notin Teardown
  BY <1>1, Moves DEF PC, HandPlaces, TearPlaces, InHand, Teardown
<1>4. /\ all' \in [Thread -> BOOLEAN]
      /\ ending' \in [Thread -> Session \cup {NoSession}]
      /\ cdLock' \in [Session -> Thread \cup {NoThread}]
      /\ \A u \in Teardown : ending'[u] = ending[u]
  BY <1>1, <1>3, ReturnKeeps DEF Teardown
<1>5. TypeOK'
  <2>1. pc' \in [Thread -> PC]
    BY <1>1, ReturnKeeps
  <2>2. aov' \in [Thread -> AOV \cup {NoAOV}] /\ apool' \subseteq AOV
    BY <1>1, <1>2 DEF TypeOK
  <2> QED
    BY <1>1, <1>4, <2>1, <2>2 DEF PutBack, TypeOK
<1>6. Hands'
  <2>1. \A u \in Thread \ {t} : InHand(u) => aov[u] # aov[t]
    BY <1>2 DEF AOVOnce
  <2>2. SUFFICES ASSUME NEW u \in Thread
                 PROVE  /\ InHand(u)' => aov'[u] \in AOV \ (apool \cup posted \cup lostAOV)'
                        /\ ~InHand(u)' => aov'[u] = NoAOV
                        /\ pc'[u] = "post" => ses'[u] \in Session /\ ses'[u] = sess'[aov'[u]]
                        /\ pc'[u] # "post" => ses'[u] = NoSession
                        /\ u \in Teardown' => ending'[u] \in Session
    BY DEF Hands
  <2>3. CASE u = t
    BY <1>1, <1>2, <1>3, <1>4, <2>3 DEF Hands
  <2>4. CASE u # t
    BY <1>1, <1>2, <1>3, <1>4, <2>1, <2>4 DEF Hands
  <2> QED
    BY <2>3, <2>4
<1>7. AOVOnce'
  <2>1. \A u, v \in Thread : InHand(u)' /\ InHand(v)' /\ aov'[u] = aov'[v] => u = v
    BY <1>2, <1>3 DEF AOVOnce
  <2> QED
    BY <1>1, <1>2, <2>1 DEF AOVOnce
<1>8. Accepting' = Accepting
  BY <1>1, <1>2, <1>3, AcceptingKept
<1>9. Places'
  <2>1. \A s : (Accepts(s)' <=> Accepts(s)) /\ (TearsDown(s)' <=> TearsDown(s))
    BY <1>1, <1>3, <1>4, <1>8 DEF Accepts, TearsDown
  <2> QED
    BY <1>1, <1>3, <1>4, <1>8, <2>1 DEF Places, Apart
<1>10. AcceptingCount' /\ ConnectedExact'
  BY <1>1, MoveCounts
<1>11. Releasing' /\ LostTogether'
  BY <1>1, StepReleasing DEF Stopping, LostTogether
<1> QED
  BY <1>5, <1>6, <1>7, <1>9, <1>10, <1>11

\* An AOV that a thread starts to have accepted.
LEMMA AcceptingMore ==
  ASSUME NEW t \in Thread, UNCHANGED posted, aov'[t] = aov[t],
         \A u \in Thread \ {t} : pc'[u] = pc[u] /\ aov'[u] = aov[u],
         pc[t] \notin {"post", "evpush"}, pc'[t] \in {"post", "evpush"}
  PROVE  Accepting' = Accepting \cup {aov[t]}
<1>1. {u \in Thread : pc'[u] \in {"post", "evpush"}}
        = {u \in Thread : pc[u] \in {"post", "evpush"}} \cup {t}
  OBVIOUS
<1>2. \A u \in {v \in Thread : pc[v] \in {"post", "evpush"}} : aov'[u] = aov[u]
  OBVIOUS
<1> QED
  BY <1>1, <1>2 DEF Accepting

\* SessionPool::pop hands out a session that was nowhere but in free_.
LEMMA PopFacts ==
  ASSUME TypeOK, Places, NEW s \in Session, PoolPop(s)
  PROVE  /\ {free', use', made'} \subseteq SUBSET Session /\ use' = made' \ free'
         /\ \A x \in free' : x # s /\ (x \in free \/ x \notin made)
         /\ \A x \in Session : x \in made' <=> x \in made \/ x \in free' \/ x = s
         /\ \A x \in free : x = s \/ x \in free'
         /\ s \notin live /\ s \notin lostSes /\ ~Accepts(s) /\ ~TearsDown(s)
<1>1. CASE s \in free /\ free' = free \ {s} /\ use' = use \cup {s} /\ UNCHANGED made
  <2>1. s \notin live /\ s \notin lostSes /\ ~Accepts(s) /\ ~TearsDown(s)
    BY <1>1 DEF Places, Apart
  <2> QED
    BY <1>1, <2>1 DEF TypeOK, Places
<1>2. CASE /\ free = {}
           /\ \E fresh \in SUBSET (Session \ made) :
                 /\ s \in fresh /\ made' = made \cup fresh
                 /\ free' = fresh \ {s} /\ use' = use \cup {s}
  <2>1. PICK fresh \in SUBSET (Session \ made) :
           s \in fresh /\ made' = made \cup fresh /\ free' = fresh \ {s} /\ use' = use \cup {s}
    BY <1>2
  <2>2. s \notin live /\ s \notin lostSes /\ ~Accepts(s) /\ ~TearsDown(s)
    BY <2>1 DEF Places, Apart
  <2> QED
    BY <1>2, <2>1, <2>2 DEF TypeOK, Places
<1> QED
  BY <1>1, <1>2 DEF PoolPop

LEMMA TakeSessionKeeps ==
  ASSUME ServerInv, NEW t \in Thread, TakeSession(t) PROVE ServerInv'
<1> USE DEF ServerInv, pool, hands, lost, stop
<1>1. /\ pc[t] = "sess"
      /\ UNCHANGED <<apool, posted, live, lostAOV, lostSes, accepting, connected,
                     released, aov, ending, closing, cdLock, all, open, todo, late,
                     poolLock>>
  BY DEF TakeSession
<1>2. /\ aov[t] \in AOV /\ aov[t] \notin posted /\ aov[t] \notin lostAOV
      /\ aov[t] \notin apool /\ InHand(t) /\ aov[t] \notin Accepting
      /\ \A u \in Thread \ {t} : InHand(u) => aov[u] # aov[t]
  BY <1>1, NotAccepting DEF Hands, AOVOnce, InHand, HandPlaces
<1>3. CASE Goto(t, "back") /\ UNCHANGED <<pool, ses, sess>>
  <2>1. SameHands(t, "back")
    BY <1>1, <1>3 DEF SameHands, HandPlaces, TearPlaces
  <2>2. TypeOK'
    BY <1>1, <1>3 DEF TypeOK, Goto, PC
  <2>3. Hands' /\ AOVOnce' /\ Places' /\ LostTogether'
    BY <1>1, <1>3, <2>1, MoveKeeps
  <2>4. AcceptingCount' /\ ConnectedExact'
    BY <1>1, <1>3, MoveCounts
  <2>5. Releasing'
    BY <1>1, <1>3, StepReleasing DEF Stopping
  <2> QED
    BY <2>2, <2>3, <2>4, <2>5
<1>4. ASSUME NEW s \in Session, PoolPop(s), ses' = [ses EXCEPT ![t] = s],
             sess' = [sess EXCEPT ![aov[t]] = s], Goto(t, "post")
      PROVE  ServerInv'
  <2>1. /\ ses'[t] = s /\ \A u \in Thread \ {t} : ses'[u] = ses[u]
        /\ sess'[aov[t]] = s /\ \A a \in AOV \ {aov[t]} : sess'[a] = sess[a]
    BY <1>2, <1>4 DEF TypeOK
  <2>2. /\ pc'[t] = "post" /\ InHand(t)'
        /\ \A u \in Thread \ {t} : pc'[u] = pc[u] /\ (InHand(u)' <=> InHand(u))
        /\ Teardown' = Teardown
    BY <1>1, <1>4, Moves DEF PC, HandPlaces, TearPlaces, InHand, Teardown
  <2>3. TypeOK'
    <3>1. pc' \in [Thread -> PC]
      BY <1>4 DEF TypeOK, Goto, PC
    <3>2. /\ ses' \in [Thread -> Session \cup {NoSession}]
          /\ sess' \in [AOV -> Session \cup {NoSession}]
      BY <1>4 DEF TypeOK
    <3> QED
      BY <1>1, <1>4, <3>1, <3>2, PopFacts DEF TypeOK
  <2>4. Hands'
    <3>1. SUFFICES ASSUME NEW u \in Thread
                   PROVE  /\ InHand(u)' => aov'[u] \in AOV \ (apool \cup posted \cup lostAOV)'
                          /\ ~InHand(u)' => aov'[u] = NoAOV
                          /\ pc'[u] = "post" => ses'[u] \in Session /\ ses'[u] = sess'[aov'[u]]
                          /\ pc'[u] # "post" => ses'[u] = NoSession
                          /\ u \in Teardown' => ending'[u] \in Session
      BY DEF Hands
    <3>2. CASE u = t
      BY <1>1, <1>2, <2>1, <2>2, <3>2 DEF Hands
    <3>3. CASE u # t
      BY <1>1, <1>2, <2>1, <2>2, <3>3 DEF Hands, InHand, HandPlaces
    <3> QED
      BY <3>2, <3>3
  <2>5. AOVOnce'
    BY <1>1, <1>2, <2>2 DEF AOVOnce
  <2>6. Accepting' = Accepting \cup {aov[t]} /\ Accepting \subseteq AOV
    <3>1. Accepting \subseteq AOV
      BY DEF Accepting, TypeOK, Hands, InHand, HandPlaces
    <3> QED
      BY <1>1, <2>2, <3>1, AcceptingMore
  <2>7. Places'
    <3>1. \A x \in Session : /\ Accepts(x)' <=> Accepts(x) \/ x = s
                             /\ TearsDown(x)' <=> TearsDown(x)
      BY <1>1, <1>2, <2>1, <2>2, <2>6 DEF Accepts, TearsDown
    <3>2. \A a, b \in Accepting' : sess'[a] = sess'[b] => a = b
      BY <1>2, <1>4, <2>1, <2>6, PopFacts DEF Places, Accepts
    <3>3. \A a \in Accepting' : sess'[a] \in Session
      BY <1>2, <2>1, <2>6 DEF Places
    <3>4. \A x \in Session : Apart(x)'
      <4> SUFFICES ASSUME NEW x \in Session PROVE Apart(x)'
        OBVIOUS
      <4>1. Apart(x)
        BY DEF Places
      <4> QED
        BY <1>1, <1>4, <3>1, <4>1, PopFacts DEF Apart
    <3> QED
      BY <1>1, <1>4, <2>2, <3>2, <3>3, <3>4, PopFacts DEF Places
  <2>8. LostTogether'
    BY <1>1, <1>2, <2>1 DEF LostTogether, TypeOK
  <2>9. AcceptingCount' /\ ConnectedExact'
    <3>1. Dropped' = Dropped
      BY <1>1, <1>2, <2>1 DEF Dropped, TypeOK
    <3>2. /\ At({"count"})' = At({"count"})
          /\ At({"evpush", "evcount"})' = At({"evpush", "evcount"})
          /\ At({"call", "dec"})' = At({"call", "dec"})
      BY <1>1, <1>4, AtMoves DEF TypeOK
    <3> QED
      BY <1>1, <3>1, <3>2 DEF AcceptingCount, ConnectedExact, Dropped
  <2>10. Releasing'
    BY <1>1, <1>4, StepReleasing DEF Stopping
  <2> QED
    BY <2>3, <2>4, <2>5, <2>7, <2>8, <2>9, <2>10
<1> QED
  BY <1>3, <1>4 DEF TakeSession

\* An AOV whose thread lets go of the session it accepts with.
LEMMA AcceptingLess ==
  ASSUME Hands, AOVOnce, NEW t \in Thread, UNCHANGED posted,
         \A u \in Thread \ {t} : pc'[u] = pc[u] /\ aov'[u] = aov[u],
         pc[t] \in {"post", "evpush"}, pc'[t] \notin {"post", "evpush"}
  PROVE  aov[t] \in Accepting /\ Accepting' = Accepting \ {aov[t]}
<1> DEFINE U == {u \in Thread : pc[u] \in {"post", "evpush"}}
<1>1. {u \in Thread : pc'[u] \in {"post", "evpush"}} = U \ {t} /\ t \in U
  OBVIOUS
<1>2. \A u \in U \ {t} : aov'[u] = aov[u] /\ aov[u] # aov[t]
  BY DEF AOVOnce, InHand, HandPlaces
<1>3. aov[t] \notin posted
  BY DEF Hands, InHand, HandPlaces
<1>4. Accepting' = posted \cup {aov'[u] : u \in U \ {t}}
  BY <1>1 DEF Accepting
<1>5. Accepting = posted \cup {aov[u] : u \in U}
  BY DEF Accepting
<1> QED
  BY <1>1, <1>2, <1>3, <1>4, <1>5

\* acceptex, and what becomes of AOV and session.
LEMMA PostAcceptKeeps ==
  ASSUME ServerInv, NEW t \in Thread, PostAccept(t) PROVE ServerInv'
<1> USE DEF ServerInv, pool, hands, lost, stop
<1>1. /\ pc[t] = "post"
      /\ aov' = [aov EXCEPT ![t] = NoAOV] /\ ses' = [ses EXCEPT ![t] = NoSession]
      /\ UNCHANGED <<apool, sess, free, use, made, live, accepting, connected,
                     released, closing, open, todo, late, poolLock>>
  BY DEF PostAccept
<1>2. /\ aov[t] \in AOV /\ aov[t] \notin posted /\ aov[t] \notin lostAOV
      /\ aov[t] \notin apool /\ InHand(t)
      /\ ses[t] \in Session /\ ses[t] = sess[aov[t]]
      /\ \A u \in Thread \ {t} : InHand(u) => aov[u] # aov[t]
  BY <1>1 DEF Hands, AOVOnce, InHand, HandPlaces
<1>3. /\ aov'[t] = NoAOV /\ \A u \in Thread \ {t} : aov'[u] = aov[u]
      /\ ses'[t] = NoSession /\ \A u \in Thread \ {t} : ses'[u] = ses[u]
      /\ aov' \in [Thread -> AOV \cup {NoAOV}]
      /\ ses' \in [Thread -> Session \cup {NoSession}]
  BY <1>1 DEF TypeOK
<1>4. CASE /\ posted' = posted \cup {aov[t]} /\ Goto(t, "count")
           /\ UNCHANGED <<lostAOV, lostSes, all, ending, cdLock>>
  <2>1. /\ pc'[t] = "count" /\ ~InHand(t)' /\ pc' \in [Thread -> PC]
        /\ \A u \in Thread \ {t} : pc'[u] = pc[u] /\ (InHand(u)' <=> InHand(u))
        /\ Teardown' = Teardown
    BY <1>1, <1>4, Moves DEF PC, HandPlaces, TearPlaces, InHand, Teardown
  <2>2. TypeOK'
    BY <1>1, <1>2, <1>3, <1>4, <2>1 DEF TypeOK
  <2>3. Hands'
    <3>1. SUFFICES ASSUME NEW u \in Thread
                   PROVE  /\ InHand(u)' => aov'[u] \in AOV \ (apool \cup posted \cup lostAOV)'
                          /\ ~InHand(u)' => aov'[u] = NoAOV
                          /\ pc'[u] = "post" => ses'[u] \in Session /\ ses'[u] = sess'[aov'[u]]
                          /\ pc'[u] # "post" => ses'[u] = NoSession
                          /\ u \in Teardown' => ending'[u] \in Session
      BY DEF Hands
    <3>2. CASE u = t
      BY <1>1, <1>3, <1>4, <2>1, <3>2 DEF Hands
    <3>3. CASE u # t
      BY <1>1, <1>2, <1>3, <1>4, <2>1, <3>3 DEF Hands
    <3> QED
      BY <3>2, <3>3
  <2>4. AOVOnce'
    <3>1. \A u, v \in Thread : InHand(u)' /\ InHand(v)' /\ aov'[u] = aov'[v] => u = v
      BY <1>3, <2>1 DEF AOVOnce
    <3> QED
      BY <1>1, <1>2, <1>4, <3>1 DEF AOVOnce
  <2>5. Accepting' = Accepting
    <3> DEFINE U == {u \in Thread : pc[u] \in {"post", "evpush"}}
    <3>1. {u \in Thread : pc'[u] \in {"post", "evpush"}} = U \ {t} /\ t \in U
      BY <1>1, <2>1
    <3>2. \A u \in U \ {t} : aov'[u] = aov[u]
      BY <1>3
    <3>3. Accepting' = posted \cup {aov[t]} \cup {aov'[u] : u \in U \ {t}}
      BY <1>4, <3>1 DEF Accepting
    <3>4. Accepting = posted \cup {aov[u] : u \in U}
      BY DEF Accepting
    <3> QED
      BY <3>1, <3>2, <3>3, <3>4
  <2>6. Places'
    <3>1. \A s : (Accepts(s)' <=> Accepts(s)) /\ (TearsDown(s)' <=> TearsDown(s))
      BY <1>1, <1>4, <2>1, <2>5 DEF Accepts, TearsDown
    <3> QED
      BY <1>1, <1>4, <2>1, <2>5, <3>1 DEF Places, Apart
  <2>7. /\ At({"count"})' = At({"count"}) + 1
        /\ At({"evpush", "evcount"})' = At({"evpush", "evcount"})
        /\ At({"call", "dec"})' = At({"call", "dec"})
        /\ Cardinality(posted') = Cardinality(posted) + 1
    <3>1. Cardinality(posted') = Cardinality(posted) + 1
      BY <1>2, <1>4, Bounds, FS_AddElement
    <3> QED
      BY <1>1, <1>4, <3>1, AtMoves DEF TypeOK
  <2>8. AcceptingCount'
    BY <1>1, <2>7, Bounds DEF AcceptingCount
  <2>9. ConnectedExact' /\ LostTogether'
    BY <1>1, <1>4, <2>7 DEF ConnectedExact, LostTogether
  <2>10. Releasing'
    BY <1>1, <1>4, StepReleasing DEF Stopping
  <2> QED
    BY <2>2, <2>3, <2>4, <2>6, <2>8, <2>9, <2>10
<1>5. CASE /\ lostAOV' = lostAOV \cup {aov[t]} /\ lostSes' = lostSes \cup {ses[t]}
           /\ Return(t) /\ UNCHANGED posted
  <2>1. /\ pc'[t] = "idle" /\ ~InHand(t)' /\ pc' \in [Thread -> PC] /\ Goto(t, "idle")
        /\ \A u \in Thread \ {t} : pc'[u] = pc[u] /\ (InHand(u)' <=> InHand(u))
        /\ Teardown' = Teardown /\ t \notin Teardown
        /\ \A u \in Teardown : ending'[u] = ending[u]
    <3>1. Goto(t, "idle") /\ \A u \in Thread : ending'[u] = ending[u] \/ u = t
      BY <1>5, ReturnKeeps
    <3> QED
      BY <1>1, <3>1, Moves DEF PC, HandPlaces, TearPlaces, InHand, Teardown
  <2>2. TypeOK'
    BY <1>1, <1>2, <1>3, <1>5, <2>1, ReturnKeeps DEF TypeOK
  <2>3. Hands'
    <3>1. SUFFICES ASSUME NEW u \in Thread
                   PROVE  /\ InHand(u)' => aov'[u] \in AOV \ (apool \cup posted \cup lostAOV)'
                          /\ ~InHand(u)' => aov'[u] = NoAOV
                          /\ pc'[u] = "post" => ses'[u] \in Session /\ ses'[u] = sess'[aov'[u]]
                          /\ pc'[u] # "post" => ses'[u] = NoSession
                          /\ u \in Teardown' => ending'[u] \in Session
      BY DEF Hands
    <3>2. CASE u = t
      BY <1>1, <1>3, <1>5, <2>1, <3>2 DEF Hands
    <3>3. CASE u # t
      BY <1>1, <1>2, <1>3, <1>5, <2>1, <3>3 DEF Hands
    <3> QED
      BY <3>2, <3>3
  <2>4. AOVOnce'
    <3>1. \A u, v \in Thread : InHand(u)' /\ InHand(v)' /\ aov'[u] = aov'[v] => u = v
      BY <1>3, <2>1 DEF AOVOnce
    <3> QED
      BY <1>1, <1>2, <1>5, <3>1 DEF AOVOnce
  <2>5. aov[t] \in Accepting /\ Accepting' = Accepting \ {aov[t]}
    BY <1>1, <1>3, <1>5, <2>1, AcceptingLess
  <2>6. /\ ses[t] \notin free /\ ses[t] \notin live /\ ses[t] \notin lostSes
        /\ ~TearsDown(ses[t]) /\ ses[t] \in made
    BY <1>2, <2>5 DEF Places, Apart, Accepts
  <2>7. Places'
    <3>1. \A x \in Session : /\ Accepts(x)' <=> Accepts(x) /\ x # ses[t]
                             /\ TearsDown(x)' <=> TearsDown(x)
                             /\ x \in lostSes' <=> x \in lostSes \/ x = ses[t]
      BY <1>1, <1>2, <1>5, <2>1, <2>5 DEF Accepts, TearsDown, Places
    <3>2. \A x \in Session : Apart(x)'
      BY <1>1, <2>6, <3>1 DEF Places, Apart
    <3> QED
      BY <1>1, <2>1, <2>5, <3>2 DEF Places
  <2>8. /\ At({"count"})' = At({"count"})
        /\ At({"evpush", "evcount"})' = At({"evpush", "evcount"})
        /\ At({"call", "dec"})' = At({"call", "dec"})
    BY <1>1, <2>1, AtMoves DEF TypeOK
  <2>9. AcceptingCount'
    BY <1>1, <1>5, <2>8 DEF AcceptingCount
  <2>10. Dropped' = Dropped
    BY <1>1, <1>2, <1>5, <2>6 DEF Dropped
  <2>11. ConnectedExact' /\ LostTogether'
    BY <1>1, <1>2, <1>5, <2>8, <2>10 DEF ConnectedExact, Dropped, LostTogether
  <2>12. Releasing'
    BY <1>1, <2>1, StepReleasing DEF Stopping
  <2> QED
    BY <2>2, <2>3, <2>4, <2>7, <2>9, <2>11, <2>12
<1> QED
  BY <1>4, <1>5 DEF PostAccept

\* The steps of on_event: spool_->push, then apool_.push.
LEMMA EventPushKeeps ==
  ASSUME ServerInv, NEW t \in Thread, EventPush(t) PROVE ServerInv'
<1> USE DEF ServerInv, pool, hands, lost, stop
<1>1. /\ pc[t] = "evpush" /\ Goto(t, "evcount")
      /\ free' = free \cup {sess[aov[t]]} /\ use' = use \ {sess[aov[t]]}
      /\ UNCHANGED <<made, apool, posted, sess, accepting, connected, live, closing,
                     poolLock, cdLock, aov, ses, ending, all, released, open, todo,
                     lostAOV, lostSes, late>>
  BY DEF EventPush, PoolPush
<1>2. /\ pc'[t] = "evcount" /\ InHand(t) /\ InHand(t)' /\ pc' \in [Thread -> PC]
      /\ \A u \in Thread \ {t} : pc'[u] = pc[u]
      /\ \A u \in Thread : InHand(u)' <=> InHand(u)
      /\ Teardown' = Teardown
  BY <1>1, Moves DEF PC, HandPlaces, TearPlaces, InHand, Teardown
<1>3. aov[t] \in Accepting /\ Accepting' = Accepting \ {aov[t]}
  BY <1>1, <1>2, AcceptingLess
<1>4. /\ sess[aov[t]] \in Session /\ sess[aov[t]] \notin free /\ sess[aov[t]] \notin live
      /\ sess[aov[t]] \notin lostSes /\ ~TearsDown(sess[aov[t]])
      /\ sess[aov[t]] \in made
  BY <1>3 DEF Places, Apart, Accepts
<1>5. TypeOK'
  BY <1>1, <1>2, <1>4 DEF TypeOK
<1>6. Hands'
  BY <1>1, <1>2 DEF Hands
<1>7. AOVOnce' /\ LostTogether'
  BY <1>1, <1>2 DEF AOVOnce, LostTogether
<1>8. Places'
  <2>1. \A x \in Session : /\ Accepts(x)' <=> Accepts(x) /\ x # sess[aov[t]]
                           /\ TearsDown(x)' <=> TearsDown(x)
    BY <1>1, <1>2, <1>3 DEF Accepts, TearsDown, Places
  <2>2. \A x \in Session : Apart(x)'
    BY <1>1, <1>4, <2>1 DEF Places, Apart
  <2> QED
    BY <1>1, <1>2, <1>3, <1>4, <2>2 DEF Places, TypeOK
<1>9. AcceptingCount' /\ ConnectedExact'
  <2>1. /\ At({"count"})' = At({"count"})
        /\ At({"evpush", "evcount"})' = At({"evpush", "evcount"})
        /\ At({"call", "dec"})' = At({"call", "dec"})
    BY <1>1, AtMoves DEF TypeOK
  <2> QED
    BY <1>1, <2>1 DEF AcceptingCount, ConnectedExact
<1>10. Releasing'
  BY <1>1, StepReleasing DEF Stopping
<1> QED
  BY <1>5, <1>6, <1>7, <1>8, <1>9, <1>10

LEMMA EventBackKeeps ==
  ASSUME ServerInv, NEW t \in Thread, EventBack(t) PROVE ServerInv'
<1> USE DEF ServerInv, pool, hands, lost, stop
<1>1. /\ pc[t] = "evback" /\ Goto(t, "acc") /\ apool' = apool \cup {aov[t]}
      /\ sess' = [sess EXCEPT ![aov[t]] = NoSession]
      /\ aov' = [aov EXCEPT ![t] = NoAOV]
      /\ lostAOV' = lostAOV \/ (lostAOV' = lostAOV \cup {aov[t]} /\ released)
      /\ UNCHANGED <<free, use, made, posted, accepting, connected, live, closing,
                     poolLock, cdLock, ses, ending, all, released, open, todo,
                     lostSes, late>>
  BY DEF EventBack, Releasing, Stopping
<1>2. /\ aov[t] \in AOV /\ aov[t] \notin posted /\ aov[t] \notin lostAOV
      /\ aov[t] \notin apool /\ InHand(t) /\ aov[t] \notin Accepting
      /\ \A u \in Thread \ {t} : InHand(u) => aov[u] # aov[t]
  BY <1>1, NotAccepting DEF Hands, AOVOnce, InHand, HandPlaces
<1>3. /\ aov'[t] = NoAOV /\ \A u \in Thread \ {t} : aov'[u] = aov[u]
      /\ sess'[aov[t]] = NoSession /\ \A a \in AOV \ {aov[t]} : sess'[a] = sess[a]
      /\ aov' \in [Thread -> AOV \cup {NoAOV}]
      /\ sess' \in [AOV -> Session \cup {NoSession}]
  BY <1>1, <1>2 DEF TypeOK
<1>4. /\ pc'[t] = "acc" /\ ~InHand(t)' /\ pc' \in [Thread -> PC]
      /\ \A u \in Thread \ {t} : pc'[u] = pc[u] /\ (InHand(u)' <=> InHand(u))
      /\ Teardown' = Teardown
  BY <1>1, Moves DEF PC, HandPlaces, TearPlaces, InHand, Teardown
<1>5. TypeOK'
  BY <1>1, <1>2, <1>3, <1>4 DEF TypeOK
<1>6. Hands'
  <2>1. SUFFICES ASSUME NEW u \in Thread
                 PROVE  /\ InHand(u)' => aov'[u] \in AOV \ (apool \cup posted \cup lostAOV)'
                        /\ ~InHand(u)' => aov'[u] = NoAOV
                        /\ pc'[u] = "post" => ses'[u] \in Session /\ ses'[u] = sess'[aov'[u]]
                        /\ pc'[u] # "post" => ses'[u] = NoSession
                        /\ u \in Teardown' => ending'[u] \in Session
    BY DEF Hands
  <2>2. CASE u = t
    BY <1>1, <1>3, <1>4, <2>2 DEF Hands
  <2>3. CASE u # t
    BY <1>1, <1>2, <1>3, <1>4, <2>3 DEF Hands, InHand, HandPlaces
  <2> QED
    BY <2>2, <2>3
<1>7. AOVOnce'
  <2>1. \A u, v \in Thread : InHand(u)' /\ InHand(v)' /\ aov'[u] = aov'[v] => u = v
    BY <1>3, <1>4 DEF AOVOnce
  <2> QED
    BY <1>1, <1>2, <2>1 DEF AOVOnce
<1>8. Accepting' = Accepting /\ Accepting \subseteq AOV
  <2>1. Accepting \subseteq AOV
    BY DEF Accepting, TypeOK, Hands, InHand, HandPlaces
  <2> QED
    BY <1>1, <1>3, <1>4, <2>1, AcceptingKept
<1>9. Places'
  <2>1. \A a \in Accepting : sess'[a] = sess[a]
    BY <1>2, <1>3, <1>8
  <2>2. \A x : (Accepts(x)' <=> Accepts(x)) /\ (TearsDown(x)' <=> TearsDown(x))
    BY <1>1, <1>4, <1>8, <2>1 DEF Accepts, TearsDown
  <2> QED
    BY <1>1, <1>4, <1>8, <2>1, <2>2 DEF Places, Apart
<1>10. LostTogether'
  BY <1>1, <1>2, <1>3 DEF LostTogether, TypeOK
<1>11. AcceptingCount' /\ ConnectedExact'
  <2>1. Dropped' = Dropped
    <3>1. NoSession \notin lostSes
      BY NameAssumption DEF TypeOK
    <3>2. \A s \in lostSes : (\A a \in lostAOV' : sess'[a] # s) <=> (\A a \in lostAOV : sess[a] # s)
      BY <1>1, <1>2, <1>3, <3>1 DEF TypeOK
    <3> QED
      BY <1>1, <3>2 DEF Dropped
  <2>2. /\ At({"count"})' = At({"count"})
        /\ At({"evpush", "evcount"})' = At({"evpush", "evcount"})
        /\ At({"call", "dec"})' = At({"call", "dec"})
    BY <1>1, AtMoves DEF TypeOK
  <2> QED
    BY <1>1, <2>1, <2>2 DEF AcceptingCount, ConnectedExact, Dropped
<1>12. Releasing'
  BY <1>1, StepReleasing DEF Stopping
<1> QED
  BY <1>5, <1>6, <1>7, <1>9, <1>10, <1>11, <1>12

\* A session more, connected or dropped, can still be counted.
LEMMA RoomToCount ==
  ASSUME TypeOK, ConnectedExact, live \cap Dropped = {},
         NEW s \in Session, s \notin live, s \notin Dropped
  PROVE  connected + 1 < Wrap
<1>1. /\ IsFiniteSet(live \cup Dropped)
      /\ Cardinality(live \cup Dropped) = Cardinality(live) + Cardinality(Dropped)
  <2>1. Cardinality(live \cap Dropped) = 0
    BY FS_EmptySet
  <2> QED
    BY <2>1, ConnectedBounds, FS_Union
<1>2. Cardinality(live \cup Dropped \cup {s}) = Cardinality(live \cup Dropped) + 1
  BY <1>1, FS_AddElement
<1>3. live \cup Dropped \cup {s} \subseteq Session
  BY DEF TypeOK, Dropped
<1>4. /\ Cardinality(live \cup Dropped \cup {s}) <= Cardinality(Session)
      /\ Cardinality(Session) \in Nat
  BY <1>3, FS_Subset, FS_CardinalityType, NumberAssumption
<1> QED
  BY <1>1, <1>2, <1>4, ConnectedBounds, AtBound, ThreadFinite, FS_CardinalityType,
     NumberAssumption

\* The completion of an accept.
LEMMA AcceptedKeeps ==
  ASSUME ServerInv, NEW t \in Thread, NEW a \in AOV, Accepted(t, a) PROVE ServerInv'
<1> USE DEF ServerInv, pool, hands, lost, stop
<1>1. /\ pc[t] = "idle" /\ a \in posted /\ posted' = posted \ {a}
      /\ aov' = [aov EXCEPT ![t] = a]
      /\ UNCHANGED <<apool, sess, accepting, free, use, made, closing, poolLock, cdLock,
                     ses, ending, all, released, open, todo, lostAOV>>
  BY DEF Accepted
<1>2. PICK l \in {"evcount", "evpush"} : Goto(t, l)
  BY DEF Accepted
<1>3. /\ aov'[t] = a /\ \A u \in Thread \ {t} : aov'[u] = aov[u]
      /\ aov' \in [Thread -> AOV \cup {NoAOV}]
      /\ a \notin apool /\ a \notin lostAOV /\ ~InHand(t)
      /\ \A u \in Thread \ {t} : InHand(u) => aov[u] # a
  BY <1>1 DEF TypeOK, AOVOnce, Hands, InHand, HandPlaces
<1>4. /\ pc'[t] = l /\ InHand(t)' /\ pc' \in [Thread -> PC]
      /\ \A u \in Thread \ {t} : pc'[u] = pc[u] /\ (InHand(u)' <=> InHand(u))
      /\ Teardown' = Teardown
  BY <1>1, <1>2, Moves DEF PC, HandPlaces, TearPlaces, InHand, Teardown
<1>5. Hands'
  <2>1. SUFFICES ASSUME NEW u \in Thread
                 PROVE  /\ InHand(u)' => aov'[u] \in AOV \ (apool \cup posted \cup lostAOV)'
                        /\ ~InHand(u)' => aov'[u] = NoAOV
                        /\ pc'[u] = "post" => ses'[u] \in Session /\ ses'[u] = sess'[aov'[u]]
                        /\ pc'[u] # "post" => ses'[u] = NoSession
                        /\ u \in Teardown' => ending'[u] \in Session
    BY DEF Hands
  <2>2. CASE u = t
    BY <1>1, <1>2, <1>3, <1>4, <2>2 DEF Hands
  <2>3. CASE u # t
    BY <1>1, <1>3, <1>4, <2>3 DEF Hands
  <2> QED
    BY <2>2, <2>3
<1>6. AOVOnce'
  <2>1. \A u, v \in Thread : InHand(u)' /\ InHand(v)' /\ aov'[u] = aov'[v] => u = v
    BY <1>3, <1>4 DEF AOVOnce
  <2> QED
    BY <1>1, <2>1 DEF AOVOnce
<1>7. AcceptingCount'
  <2>1. Cardinality(posted') = Cardinality(posted) - 1 /\ Cardinality(posted') \in Nat
    BY <1>1, Bounds, FS_RemoveElement, FS_CardinalityType
  <2>2. /\ At({"count"})' = At({"count"})
        /\ At({"evpush", "evcount"})' = At({"evpush", "evcount"}) + 1
    BY <1>1, <1>2, AtMoves DEF TypeOK
  <2> QED
    BY <1>1, <2>1, <2>2, Bounds DEF AcceptingCount
<1>8. Releasing' /\ At({"call", "dec"})' = At({"call", "dec"})
  BY <1>1, <1>2, StepReleasing, AtMoves DEF Stopping, TypeOK
<1>9. /\ a \in Accepting /\ sess[a] \in Session /\ sess[a] \notin free
      /\ sess[a] \notin live /\ sess[a] \notin lostSes /\ ~TearsDown(sess[a])
      /\ sess[a] \in made
  <2>1. a \in Accepting
    BY <1>1 DEF Accepting
  <2> QED
    BY <2>1 DEF Places, Apart, Accepts
<1> DEFINE U == {u \in Thread : pc[u] \in {"post", "evpush"}}
<1>10. CASE l = "evpush" /\ UNCHANGED <<connected, live, lostSes, late>>
  <2>1. TypeOK'
    BY <1>1, <1>3, <1>4, <1>10 DEF TypeOK
  <2>2. Accepting' = Accepting
    <3>1. {u \in Thread : pc'[u] \in {"post", "evpush"}} = U \cup {t} /\ t \notin U
      BY <1>1, <1>4, <1>10
    <3>2. \A u \in U : aov'[u] = aov[u]
      BY <1>1, <1>3
    <3>3. Accepting' = (posted \ {a}) \cup {aov'[u] : u \in U \cup {t}}
      BY <1>1, <3>1 DEF Accepting
    <3>4. Accepting = posted \cup {aov[u] : u \in U}
      BY DEF Accepting
    <3> QED
      BY <1>1, <1>3, <3>1, <3>2, <3>3, <3>4
  <2>3. Places'
    <3>1. \A x : (Accepts(x)' <=> Accepts(x)) /\ (TearsDown(x)' <=> TearsDown(x))
      BY <1>1, <1>4, <2>2 DEF Accepts, TearsDown
    <3> QED
      BY <1>1, <1>4, <1>10, <2>2, <3>1 DEF Places, Apart
  <2>4. ConnectedExact' /\ LostTogether'
    BY <1>1, <1>8, <1>10 DEF ConnectedExact, LostTogether
  <2> QED
    BY <1>5, <1>6, <1>7, <1>8, <2>1, <2>3, <2>4
<1>11. CASE /\ l = "evcount" /\ connected' = Up(connected)
            /\ \/ live' = live \cup {sess[a]} /\ lostSes' = lostSes
               \/ lostSes' = lostSes \cup {sess[a]} /\ live' = live
            /\ late' \subseteq late \cup {sess[a]}
  <2>1. Accepting' = Accepting \ {a}
    <3>1. {u \in Thread : pc'[u] \in {"post", "evpush"}} = U /\ t \notin U
      BY <1>1, <1>4, <1>11
    <3>2. \A u \in U : aov'[u] = aov[u] /\ aov[u] # a
      BY <1>1, <1>3 DEF InHand, HandPlaces
    <3>3. Accepting' = (posted \ {a}) \cup {aov'[u] : u \in U}
      BY <1>1, <3>1 DEF Accepting
    <3>4. Accepting = posted \cup {aov[u] : u \in U}
      BY DEF Accepting
    <3> QED
      BY <3>1, <3>2, <3>3, <3>4
  <2>2. Places'
    <3>1. \A x \in Session : /\ Accepts(x)' <=> Accepts(x) /\ x # sess[a]
                             /\ TearsDown(x)' <=> TearsDown(x)
      BY <1>1, <1>4, <1>9, <2>1 DEF Accepts, TearsDown, Places
    <3>2. \A x \in Session : Apart(x)'
      BY <1>1, <1>9, <1>11, <3>1 DEF Places, Apart
    <3> QED
      BY <1>1, <1>4, <2>1, <3>2 DEF Places
  <2>3. LostTogether'
    BY <1>1, <1>11 DEF LostTogether
  <2>4. sess[a] \notin Dropped /\ live \cap Dropped = {}
    BY <1>9 DEF Dropped, Places, Apart, TypeOK
  <2>5. connected' = connected + 1 /\ connected' \in 0..(Wrap - 1)
    <3>1. connected \in 0..(Wrap - 1) /\ connected + 1 < Wrap
      BY <1>9, <2>4, RoomToCount DEF TypeOK
    <3>2. connected' = connected + 1
      BY <1>11, <3>1, UpDown
    <3> QED
      BY <3>1, <3>2, NumberAssumption
  <2>6. Cardinality(live') + Cardinality(Dropped') = Cardinality(live) + Cardinality(Dropped) + 1
    <3>1. CASE live' = live \cup {sess[a]} /\ lostSes' = lostSes
      <4>1. Dropped' = Dropped
        BY <1>1, <3>1 DEF Dropped
      <4>2. Cardinality(live') = Cardinality(live) + 1
        BY <1>9, <3>1, ConnectedBounds, FS_AddElement
      <4> QED
        BY <4>1, <4>2, ConnectedBounds
    <3>2. CASE lostSes' = lostSes \cup {sess[a]} /\ live' = live
      <4>1. \A b \in lostAOV : sess[b] # sess[a]
        BY <1>9, NameAssumption DEF LostTogether
      <4>2. Dropped' = Dropped \cup {sess[a]}
        BY <1>1, <3>2, <4>1 DEF Dropped
      <4>3. Cardinality(Dropped') = Cardinality(Dropped) + 1
        BY <2>4, <4>2, ConnectedBounds, FS_AddElement
      <4> QED
        BY <3>2, <4>3, ConnectedBounds
    <3> QED
      BY <1>11, <3>1, <3>2
  <2>7. TypeOK'
    BY <1>1, <1>3, <1>4, <1>9, <1>11, <2>5 DEF TypeOK
  <2>8. ConnectedExact'
    <3>1. /\ IsFiniteSet(live') /\ IsFiniteSet(Dropped')
          /\ Cardinality(live') \in Nat /\ Cardinality(Dropped') \in Nat
      BY <2>7, FS_Subset, FS_CardinalityType, NumberAssumption DEF TypeOK, Dropped
    <3> QED
      BY <1>8, <2>5, <2>6, <3>1, ConnectedBounds DEF ConnectedExact, Dropped
  <2> QED
    BY <1>5, <1>6, <1>7, <1>8, <2>2, <2>3, <2>7, <2>8
<1>12. \/ Goto(t, "evpush") /\ UNCHANGED <<connected, live, lostSes, late>>
       \/ /\ Goto(t, "evcount") /\ connected' = Up(connected)
          /\ \/ live' = live \cup {sess[a]} /\ lostSes' = lostSes
             \/ lostSes' = lostSes \cup {sess[a]} /\ live' = live
          /\ late' \subseteq late \cup {sess[a]}
  BY DEF Accepted
<1>13. \A x \in {"evpush", "evcount"} : Goto(t, x) => l = x
  BY <1>2 DEF Goto, TypeOK
<1> QED
  BY <1>10, <1>11, <1>12, <1>13

\* _on_disc, from its start to spool_->push.
LEMMA SessionEndsKeeps ==
  ASSUME ServerInv, NEW t \in Thread, NEW s \in Session, SessionEnds(t, s) PROVE ServerInv'
<1> USE DEF ServerInv, pool, hands, lost, stop
<1>1. /\ pc[t] = "idle" /\ s \in live /\ live' = live \ {s} /\ closing' = closing \ {s}
      /\ cdLock' = [cdLock EXCEPT ![s] = t] /\ ending' = [ending EXCEPT ![t] = s]
      /\ UNCHANGED <<apool, posted, sess, accepting, connected, free, use, made,
                     poolLock, aov, ses, all, released, open, todo, lostAOV, lostSes,
                     late>>
  BY DEF SessionEnds
<1>2. PICK l \in {"dec", "call"} : Goto(t, l)
  BY DEF SessionEnds
<1>3. /\ ending'[t] = s /\ \A u \in Thread \ {t} : ending'[u] = ending[u]
      /\ ending' \in [Thread -> Session \cup {NoSession}]
      /\ cdLock' \in [Session -> Thread \cup {NoThread}]
  BY <1>1 DEF TypeOK
<1>4. /\ pc'[t] = l /\ pc' \in [Thread -> PC]
      /\ \A u \in Thread \ {t} : pc'[u] = pc[u]
      /\ \A u \in Thread : InHand(u)' <=> InHand(u)
      /\ t \notin Teardown /\ Teardown' = Teardown \cup {t}
  BY <1>1, <1>2, Moves DEF PC, HandPlaces, TearPlaces, InHand, Teardown
<1>5. TypeOK'
  BY <1>1, <1>3, <1>4 DEF TypeOK
<1>6. Hands'
  BY <1>1, <1>2, <1>3, <1>4 DEF Hands
<1>7. AOVOnce' /\ LostTogether'
  BY <1>1, <1>4 DEF AOVOnce, LostTogether
<1>8. Accepting' = Accepting
  BY <1>1, <1>2, <1>4, AcceptingKept
<1>9. /\ s \notin free /\ s \notin lostSes /\ ~Accepts(s) /\ ~TearsDown(s) /\ s \in made
  BY <1>1 DEF Places, Apart
<1>10. Places'
  <2>1. \A x \in Session : /\ Accepts(x)' <=> Accepts(x)
                           /\ TearsDown(x)' <=> TearsDown(x) \/ x = s
    BY <1>1, <1>3, <1>4, <1>8 DEF Accepts, TearsDown
  <2>2. \A x \in Session : Apart(x)'
    BY <1>1, <1>9, <2>1 DEF Places, Apart
  <2>3. \A u, v \in Teardown' : ending'[u] = ending'[v] => u = v
    BY <1>3, <1>4, <1>9 DEF Places, TearsDown, Teardown
  <2> QED
    BY <1>1, <1>8, <2>2, <2>3 DEF Places
<1>11. AcceptingCount' /\ ConnectedExact'
  <2>1. /\ At({"count"})' = At({"count"})
        /\ At({"evpush", "evcount"})' = At({"evpush", "evcount"})
        /\ At({"call", "dec"})' = At({"call", "dec"}) + 1
    BY <1>1, <1>2, AtMoves DEF TypeOK
  <2>2. Cardinality(live') = Cardinality(live) - 1 /\ Cardinality(live) \in Nat
    BY <1>1, ConnectedBounds, FS_RemoveElement
  <2>3. Dropped' = Dropped
    BY <1>1 DEF Dropped
  <2> QED
    BY <1>1, <2>1, <2>2, <2>3, ConnectedBounds DEF AcceptingCount, ConnectedExact, Dropped
<1>12. Releasing'
  BY <1>1, <1>2, StepReleasing DEF Stopping
<1> QED
  BY <1>5, <1>6, <1>7, <1>10, <1>11, <1>12

LEMMA GiveBackKeeps ==
  ASSUME ServerInv, NEW t \in Thread, GiveBack(t) PROVE ServerInv'
<1> USE DEF ServerInv, pool, hands, lost, stop
<1>1. /\ pc[t] = "give" /\ Goto(t, "all") /\ all' = [all EXCEPT ![t] = TRUE]
      /\ free' = free \cup {ending[t]} /\ use' = use \ {ending[t]}
      /\ UNCHANGED <<made, apool, posted, sess, accepting, connected, live, closing,
                     poolLock, cdLock, aov, ses, ending, released, open, todo,
                     lostAOV, lostSes, late>>
  BY DEF GiveBack, PoolPush
<1>2. /\ pc'[t] = "all" /\ pc' \in [Thread -> PC]
      /\ \A u \in Thread \ {t} : pc'[u] = pc[u]
      /\ \A u \in Thread : InHand(u)' <=> InHand(u)
      /\ t \in Teardown /\ Teardown' = Teardown \ {t}
  BY <1>1, Moves DEF PC, HandPlaces, TearPlaces, InHand, Teardown
<1>3. /\ ending[t] \in Session /\ ending[t] \notin free /\ ending[t] \notin live
      /\ ending[t] \notin lostSes /\ ~Accepts(ending[t]) /\ ending[t] \in made
  <2>1. ending[t] \in Session /\ TearsDown(ending[t])
    BY <1>2 DEF Hands, TearsDown
  <2> QED
    BY <2>1 DEF Places, Apart
<1>4. TypeOK'
  <2>1. all' \in [Thread -> BOOLEAN]
    BY <1>1 DEF TypeOK
  <2>2. free' \in SUBSET Session /\ use' \in SUBSET Session
    BY <1>1, <1>3 DEF TypeOK
  <2> QED
    BY <1>1, <1>2, <2>1, <2>2 DEF TypeOK
<1>5. Hands'
  BY <1>1, <1>2 DEF Hands
<1>6. AOVOnce' /\ LostTogether'
  BY <1>1, <1>2 DEF AOVOnce, LostTogether
<1>7. Accepting' = Accepting
  BY <1>1, <1>2, AcceptingKept
<1>8. Places'
  <2>1. \A x \in Session : /\ Accepts(x)' <=> Accepts(x)
                           /\ TearsDown(x)' <=> TearsDown(x) /\ x # ending[t]
    BY <1>1, <1>2, <1>7 DEF Accepts, TearsDown, Places
  <2>2. \A x \in Session : Apart(x)'
    BY <1>1, <1>3, <2>1 DEF Places, Apart
  <2> QED
    BY <1>1, <1>2, <1>3, <1>7, <2>2 DEF Places, TypeOK
<1>9. AcceptingCount' /\ ConnectedExact'
  BY <1>1, MoveCounts
<1>10. Releasing'
  BY <1>1, StepReleasing DEF Stopping
<1> QED
  BY <1>4, <1>5, <1>6, <1>8, <1>9, <1>10

\* disconnect() of a session that SessionPool::uninit found in use.
LEMMA StopSessionKeeps ==
  ASSUME ServerInv, NEW s \in Session, StopSession(s) PROVE ServerInv'
<1> USE DEF ServerInv, pool, hands, lost, stop
<1>1. /\ todo' = todo \ {s}
      /\ UNCHANGED <<apool, posted, sess, accepting, poolLock, cdLock, pc, aov, ses,
                     ending, all, released, open, lostAOV, lostSes, late>>
  BY DEF StopSession
<1>2. /\ \A u \in Thread : InHand(u)' <=> InHand(u)
      /\ Teardown' = Teardown /\ Accepting' = Accepting
      /\ \A l : At(l)' = At(l)
  BY <1>1 DEF InHand, Teardown, Accepting, At
<1>3. Hands' /\ AOVOnce' /\ LostTogether' /\ Releasing' /\ AcceptingCount'
  BY <1>1, <1>2 DEF Hands, AOVOnce, LostTogether, Releasing, AcceptingCount
<1>4. \A x : (Accepts(x)' <=> Accepts(x)) /\ (TearsDown(x)' <=> TearsDown(x))
  BY <1>1, <1>2 DEF Accepts, TearsDown
<1>5. CASE UNCHANGED <<live, connected, free, use, made>> /\ closing' \subseteq closing \cup {s}
  <2>1. TypeOK'
    BY <1>1, <1>5 DEF TypeOK
  <2>2. Places'
    BY <1>1, <1>2, <1>4, <1>5 DEF Places, Apart
  <2>3. ConnectedExact'
    BY <1>1, <1>2, <1>5 DEF ConnectedExact
  <2> QED
    BY <1>3, <2>1, <2>2, <2>3
<1>6. CASE s \in live /\ live' = live \ {s} /\ Uncounted /\ PoolPush(s) /\ UNCHANGED closing
  <2>1. /\ s \notin free /\ s \notin lostSes /\ ~Accepts(s) /\ ~TearsDown(s) /\ s \in made
    BY <1>6 DEF Places, Apart
  <2>2. /\ Cardinality(live') = Cardinality(live) - 1 /\ Cardinality(live) # 0
        /\ Cardinality(live) \in Nat
    BY <1>6, ConnectedBounds, FS_RemoveElement, FS_EmptySet
  <2>3. connected \in 0..(Wrap - 1) /\ connected # 0
    BY <2>2, ConnectedBounds DEF TypeOK
  <2>4. connected' = connected - 1 /\ connected' \in 0..(Wrap - 1)
    BY <1>6, <2>3, UpDown, NumberAssumption DEF Uncounted
  <2>5. TypeOK'
    BY <1>1, <1>6, <2>4 DEF TypeOK, PoolPush
  <2>6. Places'
    <3>1. \A x \in Session : Apart(x)'
      BY <1>1, <1>4, <1>6, <2>1 DEF Places, Apart, PoolPush
    <3> QED
      BY <1>1, <1>2, <1>6, <2>1, <3>1 DEF Places, PoolPush
  <2>7. Dropped' = Dropped
    BY <1>1 DEF Dropped
  <2>8. ConnectedExact'
    BY <1>1, <1>2, <2>2, <2>4, <2>7, ConnectedBounds DEF ConnectedExact, Dropped
  <2> QED
    BY <1>3, <2>5, <2>6, <2>8
<1> QED
  BY <1>5, <1>6 DEF StopSession, ClosesLater
----------------------------------------------------------------------------
(* The theorems.                                                           *)

LEMMA InitInv == Init => ServerInv
<1> SUFFICES ASSUME Init PROVE ServerInv
  OBVIOUS
<1> USE DEF Init
<1>1. PICK S \in SUBSET Session : made = S /\ free = S /\ use = {}
  OBVIOUS
<1>2. 0 \in 0..(Wrap - 1)
  BY NumberAssumption, ThreadFinite, FS_CardinalityType
<1>3. /\ \A t \in Thread : pc[t] \in {"all", "idle"} /\ pc[t] \in PC
      /\ ~InHand(Main)
      /\ \A t \in Thread : ~InHand(t)
      /\ Teardown = {} /\ Accepting = {}
  BY DEF PC, InHand, HandPlaces, Teardown, TearPlaces, Accepting, Thread
<1>4. TypeOK
  BY <1>1, <1>2, <1>3 DEF TypeOK
<1>5. Hands /\ AOVOnce /\ LostTogether /\ Releasing
  BY <1>3, <1>4 DEF Hands, AOVOnce, LostTogether, Releasing, Stopping, Thread
<1>6. Places
  BY <1>1, <1>3 DEF Places, Apart, Accepts, TearsDown
<1>7. /\ At({"count"}) = 0 /\ At({"evpush", "evcount"}) = 0 /\ At({"call", "dec"}) = 0
      /\ Cardinality(posted) = 0 /\ Cardinality(live) = 0 /\ Cardinality(Dropped) = 0
  <2>1. /\ {t \in Thread : pc[t] \in {"count"}} = {}
        /\ {t \in Thread : pc[t] \in {"evpush", "evcount"}} = {}
        /\ {t \in Thread : pc[t] \in {"call", "dec"}} = {}
    BY <1>3
  <2> QED
    BY <2>1, FS_EmptySet DEF At, Dropped
<1>8. AcceptingCount /\ ConnectedExact
  BY <1>7 DEF AcceptingCount, ConnectedExact, Dropped
<1> QED
  BY <1>4, <1>5, <1>6, <1>8 DEF ServerInv

LEMMA StutterInv == ServerInv /\ UNCHANGED vars => ServerInv'
<1> SUFFICES ASSUME ServerInv, UNCHANGED vars PROVE ServerInv'
  OBVIOUS
<1> USE DEF ServerInv, vars, pool, hands, stop, lost
<1>1. TypeOK'
  BY DEF TypeOK
<1>2. /\ \A t : InHand(t)' <=> InHand(t)
      /\ Teardown' = Teardown /\ Accepting' = Accepting
      /\ \A l : At(l)' = At(l)
  BY DEF InHand, Teardown, Accepting, At
<1>3. Hands' /\ AOVOnce' /\ LostTogether' /\ Releasing' /\ AcceptingCount' /\ ConnectedExact'
  BY <1>2 DEF Hands, AOVOnce, LostTogether, Releasing, AcceptingCount, ConnectedExact
<1>4. \A x : (Accepts(x)' <=> Accepts(x)) /\ (TearsDown(x)' <=> TearsDown(x))
  BY <1>2 DEF Accepts, TearsDown
<1>5. Places'
  BY <1>2, <1>4 DEF Places, Apart
<1> QED
  BY <1>1, <1>3, <1>5

\* Whatever the IOThreads and the thread that stops the server do, and however
\* their steps interleave, each thread has in hands what its place in accept,
\* on_event or disconnected says, no AOV is with two of them, no session is in
\* two places, and the counters are off by what the threads have yet to count.
THEOREM ServerInvariant == Spec => []ServerInv
<1>1. ServerInv /\ [Next]_vars => ServerInv'
  <2> SUFFICES ASSUME ServerInv, [Next]_vars PROVE ServerInv'
    OBVIOUS
  <2>1. ASSUME NEW t \in Thread, Step(t) PROVE ServerInv'
    BY <2>1, AcceptAllKeeps, TakeAOVKeeps, TakeSessionKeeps, PutBackKeeps, PostAcceptKeeps,
       CountAcceptKeeps, EventPushKeeps, EventCountKeeps, EventBackKeeps, CallNetKeeps,
       DisconnectedKeeps, GiveBackKeeps DEF Step
  <2>2. ASSUME NEW t \in IO, NEW a \in AOV, Accepted(t, a) PROVE ServerInv'
    BY <2>2, AcceptedKeeps DEF Thread
  <2>3. ASSUME NEW t \in IO, NEW s \in Session, SessionEnds(t, s) PROVE ServerInv'
    BY <2>3, SessionEndsKeeps DEF Thread
  <2>4. CASE Stop \/ StopStep
    BY <2>4, StopKeeps, StopSessionKeeps DEF StopStep
  <2> QED
    BY <2>1, <2>2, <2>3, <2>4, StutterInv DEF Next
<1> QED
  BY <1>1, InitInv, PTL DEF Spec

\* Every variable keeps its type.
THEOREM TypeCorrect == Spec => []TypeOK
<1>1. ServerInv => TypeOK
  BY DEF ServerInv
<1> QED
  BY <1>1, ServerInvariant, PTL

\* accepting_cnt_, which Acceptor::uninit waits for, and connected_cnt_ count
\* what they say, however many threads are between a step and its counting,
\* and though accepting_cnt_ may pass below zero on the way.
THEOREM CountersCorrect == Spec => []CountersExact
<1>1. ServerInv => CountersExact
  <2> SUFFICES ASSUME ServerInv PROVE AcceptingExact /\ ConnectedExact
    BY DEF CountersExact
  <2> DEFINE ahead == At({"count"})
             under == Cardinality(posted) + At({"evpush", "evcount"})
  <2>1. /\ ahead \in Nat /\ under \in Nat /\ Wrap \in Nat
        /\ ahead < Wrap /\ under < Wrap
    BY Bounds DEF ServerInv
  <2>2. accepting = IF ahead <= under THEN under - ahead ELSE under + Wrap - ahead
    BY DEF ServerInv, AcceptingCount
  <2>3. AcceptingExact <=> (accepting + ahead) % Wrap = under % Wrap
    BY DEF AcceptingExact
  <2> HIDE DEF ahead, under
  <2>4. CASE ahead <= under
    BY <2>1, <2>2, <2>3, <2>4 DEF ServerInv
  <2>5. CASE ~(ahead <= under)
    <3>1. accepting + ahead = under + Wrap
      BY <2>1, <2>2, <2>5
    <3>2. (under + Wrap) % Wrap = under /\ under % Wrap = under
      BY <2>1
    <3> QED
      BY <2>3, <3>1, <3>2 DEF ServerInv
  <2> QED
    BY <2>4, <2>5
<1> QED
  BY <1>1, ServerInvariant, PTL

\* A session is in one place: in free_, connected, with one AOV, in teardown, or
\* lost where accept or _on_accept dropped it; use_ is what is not in free_, and
\* no two accepts under way have the same session.
THEOREM SessionOnceCorrect == Spec => []SessionOnce
<1>1. ServerInv => SessionOnce
  <2> SUFFICES ASSUME ServerInv PROVE SessionOnce
    OBVIOUS
  <2> USE DEF ServerInv
  <2>1. ASSUME NEW s \in made
        PROVE  Cardinality({p \in 1..5 : \/ p = 1 /\ s \in free
                                         \/ p = 2 /\ s \in live
                                         \/ p = 3 /\ InAccept(s)
                                         \/ p = 4 /\ InTeardown(s)
                                         \/ p = 5 /\ s \in lostSes}) = 1
    <3> DEFINE P == {p \in 1..5 : \/ p = 1 /\ s \in free
                                  \/ p = 2 /\ s \in live
                                  \/ p = 3 /\ InAccept(s)
                                  \/ p = 4 /\ InTeardown(s)
                                  \/ p = 5 /\ s \in lostSes}
    <3>1. s \in Session /\ s # NoSession
      BY NameAssumption DEF TypeOK
    <3>2. InTeardown(s) <=> TearsDown(s)
      BY DEF InTeardown, TearsDown, Teardown, TearPlaces
    <3>3. InAccept(s) <=> Accepts(s)
      <4>1. Accepts(s) <=> \/ \E a \in posted : sess[a] = s
                           \/ \E t \in Thread : pc[t] \in {"post", "evpush"} /\ sess[aov[t]] = s
        BY DEF Accepts, Accepting
      <4>2. \A t \in Thread : ses[t] = s <=> pc[t] = "post" /\ sess[aov[t]] = s
        BY <3>1 DEF Hands
      <4> QED
        BY <4>1, <4>2 DEF InAccept
    <3>4. Apart(s)
      BY <3>1 DEF Places
    <3>5. \E k \in 1..5 : P = {k}
      <4>1. CASE s \in free
        BY <3>2, <3>3, <3>4, <4>1 DEF Apart
      <4>2. CASE s \in live
        BY <3>2, <3>3, <3>4, <4>2 DEF Apart
      <4>3. CASE Accepts(s)
        BY <3>2, <3>3, <3>4, <4>3 DEF Apart
      <4>4. CASE TearsDown(s)
        BY <3>2, <3>3, <3>4, <4>4 DEF Apart
      <4>5. CASE s \in lostSes
        BY <3>2, <3>3, <3>4, <4>5 DEF Apart
      <4> QED
        BY <3>4, <4>1, <4>2, <4>3, <4>4, <4>5 DEF Apart
    <3> HIDE DEF P
    <3>6. Cardinality(P) = 1
      BY <3>5, FS_Singleton
    <3> QED
      BY <3>6 DEF P
  <2>2. use = made \ free /\ \A a, b \in posted : sess[a] = sess[b] => a = b
    BY DEF Places, Accepting
  <2> QED
    BY <2>1, <2>2 DEF SessionOnce
<1> QED
  BY <1>1, ServerInvariant, PTL
============================================================================
