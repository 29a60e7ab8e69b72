-------------------------- MODULE SessionTCPProofs --------------------------
(***************************************************************************)
(* Proofs about SessionTCP.  The session of a client, for any threads that *)
(* call it: on_conn and on_disc come in turn, and a connection begins with *)
(* clean buffers.  Any session, when one IOThread runs everything but      *)
(* connect(): the same, and nothing is used after it is gone.              *)
(***************************************************************************)
EXTENDS SessionTCP, FiniteSetTheorems, TLAPS

\* t announces a connection; t ends one.
Begins(t) == pc[t] \in {"connev", "conn1", "conn2", "conn3"}
Ends(t) == pc[t] \in {"down", "down2"}

\* What runs under cd_lock_, from the time it is taken.
Locked ==
    \A t \in Thread :
        pc[t] \in {"conn1", "conn2", "conn3", "disc2", "disc3"} => cdOwner = t

\* One connect at a time, and none before the end of the last connection.
OneBegins ==
    /\ \A t, u \in Thread : Begins(t) /\ Begins(u) => t = u
    /\ kConn => \A t \in Thread : ~Begins(t)
    /\ kConn \/ (\E t \in Thread : pc[t] = "connev") => connecting
    /\ \A t \in Thread : pc[t] \in {"conn2", "conn3"} => conn
    /\ kConn \/ (\E t \in Thread : Begins(t)) => nConn = nDisc

\* One teardown at a time, of a connection that was announced.
OneEnds ==
    /\ \A t, u \in Thread : Ends(t) /\ Ends(u) => t = u
    /\ kDisc => \A t \in Thread : ~Ends(t)
    /\ kDisc \/ (\E t \in Thread : Ends(t)) =>
          nConn = nDisc + 1 /\ disconnecting /\ ~conn
    /\ \A t \in Thread : pc[t] \in {"disc2", "disc3"} => ~conn

\* No connection yet, and only a sender that came too early.
Fresh ==
    /\ nConn = 0 /\ kRecv = 0 /\ kSend = 0
    /\ \A t \in Thread : pc[t] \in {"idle", "connev", "conn1", "conn2", "push"}

\* Between connections is_disconnecting_ stops who is late from the last one.
Between ==
    nConn = nDisc =>
        /\ conn => \E t \in Thread : pc[t] \in {"conn2", "conn3"}
        /\ (\A t \in Thread : pc[t] # "conn3") => disconnecting \/ Fresh

\* The buffers are there only between on_conn and on_disc, and else empty.
Buffers ==
    /\ rbufUp = sbufUp
    /\ sbufUp => nConn = nDisc + 1 /\ \A t \in Thread : pc[t] # "down2"
    /\ ~sbufUp => popCnt = 0

\* The inductive invariant of a client's session, whoever calls it.
ClientInv ==
    ~setup.server =>
        Locked /\ OneBegins /\ OneEnds /\ Between /\ Buffers /\ InTurn
        /\ ~parked

----------------------------------------------------------------------------
One(b) == IF b THEN 1 ELSE 0

\* All but i are outside the session, or in connect(); i is inside it once, or
\* twice when a callback has called it.
Nested == {"push", "flush", "wsasend", "onsend", "sent", "again",
           "disc", "disc2", "disc3", "down", "down2", "unlock"}
Calls(i) ==
    /\ \A t \in Thread : t # i => pc[t] = "idle"
    /\ cdOwner \in {NoThread, i}
    /\ ~setup.server /\ pc[i] \in {"conn1", "conn2", "conn3"} => cdOwner = i
    /\ ret[i] # "idle" => pc[i] \in Nested

\* is_receiving_ says that a receive is under way or being handled: just one.
Receives(i) ==
    /\ kRecv + One(pc[i] = "loop" \/ ret[i] = "loop") + One(pc[i] = "post")
          = One(recving)
    /\ pc[i] \in {"onconn", "recv", "mark", "loopend"} \/ ret[i] = "onconn" => ~recving

\* pop_cnt_ counts the sends under way.
Sending(i) ==
    /\ popCnt = kSend + One(pc[i] \in {"wsasend", "onsend"})
    /\ popCnt + One(waiting) + One(pc[i] = "push") <= sends /\ sends <= setup.sends
    /\ pc[i] = "disc3" => (flag[i] <=> popCnt > 0)

\* The buffers are there whenever somebody needs them.
Present(i) ==
    /\ rbufUp = sbufUp
    /\ ~sbufUp =>
        /\ ~recving /\ popCnt = 0 /\ ~kDisc
        /\ conn => pc[i] \in {"conn2", "conn3"}
        /\ pc[i] \in {"idle", "connev", "conn1", "conn2", "conn3", "onconn", "recv",
                     "down2", "unlock"}
        /\ nConn = nDisc + One(pc[i] = "down2")
    /\ sbufUp =>
        /\ pc[i] \notin {"connev", "conn1", "conn2", "conn3", "down2"}
        /\ ~kConn /\ ~parked
        /\ nConn = nDisc + 1

\* What is left to the last operation is over when the teardown begins.
Ending(i) ==
    /\ sbufUp /\ disconnecting => ~conn /\ ~recving /\ popCnt = 0
    /\ kDisc \/ pc[i] = "down" => sbufUp /\ disconnecting
    /\ pc[i] = "down" => ~kDisc
    /\ pc[i] = "conn3" => ~disconnecting
    /\ pc[i] \in {"disc2", "disc3", "down2"} => ~conn
    /\ pc[i] \in {"push", "flush", "mark", "post"} => conn

Beginning(i) ==
    /\ kConn \/ pc[i] = "connev" => connecting /\ ~setup.server
    /\ kConn => ~Begins(i) /\ pc[i] # "down2"
    /\ parked => setup.server /\ ~Begins(i) /\ pc[i] # "down2"

\* When and how the session is deleted.  Inside on_conn only a call of on_conn
\* itself can bring that about.
InConn(i) == Begins(i) \/ pc[i] = "onconn" \/ ret[i] = "onconn"
Deleting(i) ==
    /\ deleted => /\ ~kConn /\ ~kDisc /\ kRecv = 0 /\ kSend = 0 /\ ~sbufUp
                  /\ \/ pc[i] = "idle"
                     \/ pc[i] = "unlock" /\ (ret[i] = "idle" \/ ~KeepsInOnConn)
                     \/ pc[i] = "onconn" /\ ~KeepsInOnConn
    /\ pc[i] = "unlock" => deleted
    /\ KeepsInOnConn /\ (kConn \/ parked \/ InConn(i)) => ~release
    /\ pc[i] = "conn3" => ~force
    /\ (pc[i] = "onconn" \/ ret[i] = "onconn") /\ force
           => {"disconnect", "release"} \cap setup.onConn # {}
    /\ ret[i] = "onconn" /\ Ends(i) => force
    /\ crash = "gone" => ~KeepsInOnConn

Alone(i) ==
    /\ Calls(i) /\ Receives(i) /\ Sending(i) /\ Present(i) /\ Ending(i)
    /\ Beginning(i) /\ Deleting(i)

\* The inductive invariant of a session that one IOThread runs.
SequentialInv == Sequential => \A i \in setup.io : Alone(i)

SessionInv == TypeOK /\ ClientInv /\ SequentialInv

----------------------------------------------------------------------------
(* What the variables are *)

\* pop_cnt_ counts modulo Wrap, exactly within its range.
LEMMA CountsExactly ==
    ASSUME setup \in Setups
    PROVE  /\ Wrap \in Nat /\ Wrap > 0
           /\ \A n \in 0..(Wrap - 1) :
                /\ Inc(n) = IF n + 1 = Wrap THEN 0 ELSE n + 1
                /\ Dec(n) = IF n = 0 THEN Wrap - 1 ELSE n - 1
                /\ Inc(n) \in 0..(Wrap - 1) /\ Dec(n) \in 0..(Wrap - 1)
<1>1. Wrap \in Nat /\ Wrap > 0
  BY SetupAssumption, NumberAssumption DEF Setup
<1> SUFFICES ASSUME NEW n \in 0..(Wrap - 1)
             PROVE  /\ Inc(n) = IF n + 1 = Wrap THEN 0 ELSE n + 1
                    /\ Dec(n) = IF n = 0 THEN Wrap - 1 ELSE n - 1
                    /\ Inc(n) \in 0..(Wrap - 1) /\ Dec(n) \in 0..(Wrap - 1)
  BY <1>1
<1>2. (n + 1) % Wrap = IF n + 1 = Wrap THEN 0 ELSE n + 1
  BY <1>1
<1>3. (n + Wrap - 1) % Wrap = IF n = 0 THEN Wrap - 1 ELSE n - 1
  BY <1>1
<1> QED
  BY <1>1, <1>2, <1>3 DEF Inc, Dec

\* TypeOK in parts.
FlagTypes ==
    /\ conn \in BOOLEAN /\ recving \in BOOLEAN /\ connecting \in BOOLEAN
    /\ disconnecting \in BOOLEAN /\ force \in BOOLEAN /\ release \in BOOLEAN

MoreFlagTypes ==
    /\ sbufUp \in BOOLEAN /\ rbufUp \in BOOLEAN /\ waiting \in BOOLEAN
    /\ kConn \in BOOLEAN /\ kDisc \in BOOLEAN
    /\ parked \in BOOLEAN /\ deleted \in BOOLEAN
    /\ crash \in {"no", "gone", "unlock"}

NumberTypes ==
    /\ setup \in Setups
    /\ sock \in {"open", "conn", "closed"}
    /\ popCnt \in 0..(Wrap - 1)
    /\ kRecv \in Nat /\ kSend \in Nat
    /\ tries \in Nat /\ sends \in Nat /\ nConn \in Nat /\ nDisc \in Nat

ThreadTypes ==
    /\ cdOwner \in Thread \cup {NoThread}
    /\ pc \in [Thread -> PC]
    /\ ret \in [Thread -> {"idle", "onconn", "loop"}]
    /\ flag \in [Thread -> BOOLEAN] /\ has \in [Thread -> BOOLEAN]

\* What a call inside on_disc can do: connect when nothing else does, or say
\* that the session is to be deleted.
LEMMA OnDiscCalls ==
    ASSUME TypeOK, NEW STATE busy, busy \in BOOLEAN, InOnDisc(busy)
    PROVE  /\ connecting' \in BOOLEAN /\ release' \in BOOLEAN
           /\ kConn' \in BOOLEAN /\ tries' \in Nat
           /\ busy => connecting'
           /\ \/ kConn' = kConn
              \/ connecting' /\ ~setup.server /\ ~conn /\ ~busy /\ ~release'
           /\ release' => release \/ "release" \in setup.onDisc
<1>1. CASE connecting' = busy /\ UNCHANGED <<kConn, tries, release>>
  BY <1>1 DEF TypeOK
<1>2. CASE ~setup.server /\ ~conn /\ ~busy /\ ~release /\ ConnectEx /\ UNCHANGED release
  <2>1. kConn' \in BOOLEAN
    BY <1>2 DEF ConnectEx
  <2>3. tries' \in Nat /\ connecting' = TRUE
    BY <1>2 DEF ConnectEx, TypeOK
  <2>2. release' = release /\ release = FALSE
    BY <1>2 DEF TypeOK
  <2> QED
    BY <1>2, <2>1, <2>2, <2>3
<1>3. CASE /\ \E c \in {"disconnect", "release"} \cap setup.onDisc : release' = (c = "release")
           /\ connecting' = busy /\ UNCHANGED <<kConn, tries>>
  BY <1>3 DEF TypeOK
<1> QED
  BY <1>1, <1>2, <1>3 DEF InOnDisc

LEMMA TypeInit == Init => TypeOK
<1> SUFFICES ASSUME Init PROVE TypeOK
  OBVIOUS
<1>1. FlagTypes
  BY SetupAssumption DEF Init, FlagTypes, Setup
<1>4. MoreFlagTypes
  BY SetupAssumption DEF Init, MoreFlagTypes, Setup
<1>2. NumberTypes
  BY CountsExactly DEF Init, NumberTypes
<1>3. ThreadTypes
  BY DEF Init, ThreadTypes, PC
<1> QED
  BY <1>1, <1>2, <1>3, <1>4 DEF TypeOK, FlagTypes, MoreFlagTypes, NumberTypes, ThreadTypes

LEMMA FlagTypesStep == TypeOK /\ [Next]_vars => FlagTypes'
<1> SUFFICES ASSUME TypeOK, [Next]_vars PROVE FlagTypes'
  OBVIOUS
<1>0. FlagTypes /\ connecting \in BOOLEAN
  BY DEF TypeOK, FlagTypes
<1> USE <1>0 DEF FlagTypes, flags, bufs, kernel, counts, ends, locals
<1>1. ASSUME NEW t \in Thread, Connect(t) PROVE FlagTypes'
  BY <1>1 DEF Connect, MayCall, ConnectEx
<1>2. ASSUME NEW t \in Thread, ConnEvent(t) PROVE FlagTypes'
  BY <1>2 DEF ConnEvent
<1>3. ASSUME NEW t \in Thread, OnConn(t) PROVE FlagTypes'
  BY <1>3, OnDiscCalls DEF OnConn
<1>4. ASSUME NEW t \in Thread, Accept(t) PROVE FlagTypes'
  BY <1>4 DEF Accept
<1>5. ASSUME NEW t \in Thread, ConnInit1(t) PROVE FlagTypes'
  BY <1>5 DEF ConnInit1
<1>6. ASSUME NEW t \in Thread, ConnInit2(t) PROVE FlagTypes'
  BY <1>6 DEF ConnInit2, ResetFlags
<1>7. ASSUME NEW t \in Thread, ConnInit3(t) PROVE FlagTypes'
  BY <1>7 DEF ConnInit3
<1>8. ASSUME NEW t \in Thread, OnConnReturns(t) PROVE FlagTypes'
  BY <1>8 DEF OnConnReturns
<1>9. ASSUME NEW t \in Thread, RecvEvent(t) PROVE FlagTypes'
  BY <1>9 DEF RecvEvent
<1>10. ASSUME NEW t \in Thread, LoopEnds(t) PROVE FlagTypes'
  BY <1>10 DEF LoopEnds
<1>11. ASSUME NEW t \in Thread, LoopCheck(t) PROVE FlagTypes'
  BY <1>11 DEF LoopCheck, AfterLoop
<1>12. ASSUME NEW t \in Thread, RecvCheck(t) PROVE FlagTypes'
  BY <1>12 DEF RecvCheck
<1>13. ASSUME NEW t \in Thread, RecvMark(t) PROVE FlagTypes'
  BY <1>13 DEF RecvMark
<1>14. ASSUME NEW t \in Thread, RecvPost(t) PROVE FlagTypes'
  BY <1>14 DEF RecvPost
<1>15. ASSUME NEW t \in Thread, Send(t) PROVE FlagTypes'
  BY <1>15 DEF Send, MayCall
<1>16. ASSUME NEW t \in Thread, SendAgain(t) PROVE FlagTypes'
  BY <1>16 DEF SendAgain
<1>17. ASSUME NEW t \in Thread, SendPush(t) PROVE FlagTypes'
  BY <1>17 DEF SendPush
<1>18. ASSUME NEW t \in Thread, WsaSend(t) PROVE FlagTypes'
  BY <1>18 DEF WsaSend
<1>19. ASSUME NEW t \in Thread, SendEvent(t) PROVE FlagTypes'
  BY <1>19 DEF SendEvent
<1>20. ASSUME NEW t \in Thread, OnSend(t) PROVE FlagTypes'
  BY <1>20 DEF OnSend
<1>21. ASSUME NEW t \in Thread, OnSendNext(t) PROVE FlagTypes'
  BY <1>21 DEF OnSendNext
<1>22. ASSUME NEW t \in Thread, NEW rel \in BOOLEAN, Disconnect(t, rel) PROVE FlagTypes'
  BY <1>22 DEF Disconnect, MayCall
<1>23. ASSUME NEW t \in Thread, DiscFlag(t) PROVE FlagTypes'
  BY <1>23 DEF DiscFlag
<1>24. ASSUME NEW t \in Thread, DiscSending(t) PROVE FlagTypes'
  BY <1>24 DEF DiscSending
<1>25. ASSUME NEW t \in Thread, DiscEnd(t) PROVE FlagTypes'
  BY <1>25 DEF DiscEnd
<1>26. ASSUME NEW t \in Thread, DiscEvent(t) PROVE FlagTypes'
  BY <1>26 DEF DiscEvent
<1>27. ASSUME NEW t \in Thread, OnDisc(t) PROVE FlagTypes'
  BY <1>27 DEF OnDisc, UninitBufs
<1>28. ASSUME NEW t \in Thread, OnDiscEnd(t) PROVE FlagTypes'
  BY <1>28, OnDiscCalls DEF OnDiscEnd, Deletes
<1>29. CASE Crash
  BY <1>29 DEF Crash
<1>32. ASSUME NEW t \in Thread, Unlock(t) PROVE FlagTypes'
  BY <1>32 DEF Unlock
<1>30. CASE UNCHANGED vars
  BY <1>30 DEF vars
<1>31. setup.io \subseteq Thread
  BY SetupAssumption DEF TypeOK, Setup, Thread
<1> QED
  BY <1>1, <1>2, <1>3, <1>4, <1>5, <1>6, <1>7, <1>8, <1>9, <1>10, <1>11, <1>12,
     <1>13, <1>14, <1>15, <1>16, <1>17, <1>18, <1>19, <1>20, <1>21, <1>22,
     <1>23, <1>24, <1>25, <1>26, <1>27, <1>28, <1>29, <1>30, <1>31, <1>32
  DEF Next, Step, Event, AppCall

LEMMA MoreFlagTypesStep == TypeOK /\ [Next]_vars => MoreFlagTypes'
<1> SUFFICES ASSUME TypeOK, [Next]_vars PROVE MoreFlagTypes'
  OBVIOUS
<1>0. MoreFlagTypes /\ connecting \in BOOLEAN
  BY DEF TypeOK, MoreFlagTypes
<1> USE <1>0 DEF MoreFlagTypes, flags, bufs, kernel, counts, ends, locals
<1>1. ASSUME NEW t \in Thread, Connect(t) PROVE MoreFlagTypes'
  BY <1>1 DEF Connect, MayCall, ConnectEx
<1>2. ASSUME NEW t \in Thread, ConnEvent(t) PROVE MoreFlagTypes'
  BY <1>2 DEF ConnEvent
<1>3. ASSUME NEW t \in Thread, OnConn(t) PROVE MoreFlagTypes'
  BY <1>3, OnDiscCalls DEF OnConn
<1>4. ASSUME NEW t \in Thread, Accept(t) PROVE MoreFlagTypes'
  BY <1>4 DEF Accept
<1>5. ASSUME NEW t \in Thread, ConnInit1(t) PROVE MoreFlagTypes'
  BY <1>5 DEF ConnInit1
<1>6. ASSUME NEW t \in Thread, ConnInit2(t) PROVE MoreFlagTypes'
  BY <1>6 DEF ConnInit2, ResetFlags
<1>7. ASSUME NEW t \in Thread, ConnInit3(t) PROVE MoreFlagTypes'
  BY <1>7 DEF ConnInit3
<1>8. ASSUME NEW t \in Thread, OnConnReturns(t) PROVE MoreFlagTypes'
  BY <1>8 DEF OnConnReturns
<1>9. ASSUME NEW t \in Thread, RecvEvent(t) PROVE MoreFlagTypes'
  BY <1>9 DEF RecvEvent
<1>10. ASSUME NEW t \in Thread, LoopEnds(t) PROVE MoreFlagTypes'
  BY <1>10 DEF LoopEnds
<1>11. ASSUME NEW t \in Thread, LoopCheck(t) PROVE MoreFlagTypes'
  BY <1>11 DEF LoopCheck, AfterLoop
<1>12. ASSUME NEW t \in Thread, RecvCheck(t) PROVE MoreFlagTypes'
  BY <1>12 DEF RecvCheck
<1>13. ASSUME NEW t \in Thread, RecvMark(t) PROVE MoreFlagTypes'
  BY <1>13 DEF RecvMark
<1>14. ASSUME NEW t \in Thread, RecvPost(t) PROVE MoreFlagTypes'
  BY <1>14 DEF RecvPost
<1>15. ASSUME NEW t \in Thread, Send(t) PROVE MoreFlagTypes'
  BY <1>15 DEF Send, MayCall
<1>16. ASSUME NEW t \in Thread, SendAgain(t) PROVE MoreFlagTypes'
  BY <1>16 DEF SendAgain
<1>17. ASSUME NEW t \in Thread, SendPush(t) PROVE MoreFlagTypes'
  BY <1>17 DEF SendPush
<1>18. ASSUME NEW t \in Thread, WsaSend(t) PROVE MoreFlagTypes'
  BY <1>18 DEF WsaSend
<1>19. ASSUME NEW t \in Thread, SendEvent(t) PROVE MoreFlagTypes'
  BY <1>19 DEF SendEvent
<1>20. ASSUME NEW t \in Thread, OnSend(t) PROVE MoreFlagTypes'
  BY <1>20 DEF OnSend
<1>21. ASSUME NEW t \in Thread, OnSendNext(t) PROVE MoreFlagTypes'
  BY <1>21 DEF OnSendNext
<1>22. ASSUME NEW t \in Thread, NEW rel \in BOOLEAN, Disconnect(t, rel) PROVE MoreFlagTypes'
  BY <1>22 DEF Disconnect, MayCall
<1>23. ASSUME NEW t \in Thread, DiscFlag(t) PROVE MoreFlagTypes'
  BY <1>23 DEF DiscFlag
<1>24. ASSUME NEW t \in Thread, DiscSending(t) PROVE MoreFlagTypes'
  BY <1>24 DEF DiscSending
<1>25. ASSUME NEW t \in Thread, DiscEnd(t) PROVE MoreFlagTypes'
  BY <1>25 DEF DiscEnd
<1>26. ASSUME NEW t \in Thread, DiscEvent(t) PROVE MoreFlagTypes'
  BY <1>26 DEF DiscEvent
<1>27. ASSUME NEW t \in Thread, OnDisc(t) PROVE MoreFlagTypes'
  BY <1>27 DEF OnDisc, UninitBufs
<1>28. ASSUME NEW t \in Thread, OnDiscEnd(t) PROVE MoreFlagTypes'
  BY <1>28, OnDiscCalls DEF OnDiscEnd, Deletes
<1>29. CASE Crash
  BY <1>29 DEF Crash
<1>32. ASSUME NEW t \in Thread, Unlock(t) PROVE MoreFlagTypes'
  BY <1>32 DEF Unlock
<1>30. CASE UNCHANGED vars
  BY <1>30 DEF vars
<1>31. setup.io \subseteq Thread
  BY SetupAssumption DEF TypeOK, Setup, Thread
<1> QED
  BY <1>1, <1>2, <1>3, <1>4, <1>5, <1>6, <1>7, <1>8, <1>9, <1>10, <1>11, <1>12,
     <1>13, <1>14, <1>15, <1>16, <1>17, <1>18, <1>19, <1>20, <1>21, <1>22,
     <1>23, <1>24, <1>25, <1>26, <1>27, <1>28, <1>29, <1>30, <1>31, <1>32
  DEF Next, Step, Event, AppCall

LEMMA NumberTypesStep == TypeOK /\ [Next]_vars => NumberTypes'
<1> SUFFICES ASSUME TypeOK, [Next]_vars PROVE NumberTypes'
  OBVIOUS
<1>0. NumberTypes /\ connecting \in BOOLEAN
  BY DEF TypeOK, NumberTypes
<1> USE <1>0 DEF NumberTypes, flags, bufs, kernel, counts, ends, locals
<1>1. ASSUME NEW t \in Thread, Connect(t) PROVE NumberTypes'
  BY <1>1 DEF Connect, MayCall, ConnectEx
<1>2. ASSUME NEW t \in Thread, ConnEvent(t) PROVE NumberTypes'
  BY <1>2 DEF ConnEvent
<1>3. ASSUME NEW t \in Thread, OnConn(t) PROVE NumberTypes'
  BY <1>3, OnDiscCalls DEF OnConn
<1>4. ASSUME NEW t \in Thread, Accept(t) PROVE NumberTypes'
  BY <1>4 DEF Accept
<1>5. ASSUME NEW t \in Thread, ConnInit1(t) PROVE NumberTypes'
  BY <1>5 DEF ConnInit1
<1>6. ASSUME NEW t \in Thread, ConnInit2(t) PROVE NumberTypes'
  BY <1>6 DEF ConnInit2, ResetFlags
<1>7. ASSUME NEW t \in Thread, ConnInit3(t) PROVE NumberTypes'
  BY <1>7, CountsExactly DEF ConnInit3
<1>8. ASSUME NEW t \in Thread, OnConnReturns(t) PROVE NumberTypes'
  BY <1>8 DEF OnConnReturns
<1>9. ASSUME NEW t \in Thread, RecvEvent(t) PROVE NumberTypes'
  BY <1>9 DEF RecvEvent
<1>10. ASSUME NEW t \in Thread, LoopEnds(t) PROVE NumberTypes'
  BY <1>10 DEF LoopEnds
<1>11. ASSUME NEW t \in Thread, LoopCheck(t) PROVE NumberTypes'
  BY <1>11 DEF LoopCheck, AfterLoop
<1>12. ASSUME NEW t \in Thread, RecvCheck(t) PROVE NumberTypes'
  BY <1>12 DEF RecvCheck
<1>13. ASSUME NEW t \in Thread, RecvMark(t) PROVE NumberTypes'
  BY <1>13 DEF RecvMark
<1>14. ASSUME NEW t \in Thread, RecvPost(t) PROVE NumberTypes'
  BY <1>14 DEF RecvPost
<1>15. ASSUME NEW t \in Thread, Send(t) PROVE NumberTypes'
  BY <1>15 DEF Send, MayCall
<1>16. ASSUME NEW t \in Thread, SendAgain(t) PROVE NumberTypes'
  BY <1>16 DEF SendAgain
<1>17. ASSUME NEW t \in Thread, SendPush(t) PROVE NumberTypes'
  BY <1>17, CountsExactly DEF SendPush
<1>18. ASSUME NEW t \in Thread, WsaSend(t) PROVE NumberTypes'
  BY <1>18 DEF WsaSend
<1>19. ASSUME NEW t \in Thread, SendEvent(t) PROVE NumberTypes'
  BY <1>19 DEF SendEvent
<1>20. ASSUME NEW t \in Thread, OnSend(t) PROVE NumberTypes'
  BY <1>20, CountsExactly DEF OnSend
<1>21. ASSUME NEW t \in Thread, OnSendNext(t) PROVE NumberTypes'
  BY <1>21 DEF OnSendNext
<1>22. ASSUME NEW t \in Thread, NEW rel \in BOOLEAN, Disconnect(t, rel) PROVE NumberTypes'
  BY <1>22 DEF Disconnect, MayCall
<1>23. ASSUME NEW t \in Thread, DiscFlag(t) PROVE NumberTypes'
  BY <1>23 DEF DiscFlag
<1>24. ASSUME NEW t \in Thread, DiscSending(t) PROVE NumberTypes'
  BY <1>24 DEF DiscSending
<1>25. ASSUME NEW t \in Thread, DiscEnd(t) PROVE NumberTypes'
  BY <1>25 DEF DiscEnd
<1>26. ASSUME NEW t \in Thread, DiscEvent(t) PROVE NumberTypes'
  BY <1>26 DEF DiscEvent
<1>27. ASSUME NEW t \in Thread, OnDisc(t) PROVE NumberTypes'
  BY <1>27, CountsExactly DEF OnDisc, UninitBufs
<1>28. ASSUME NEW t \in Thread, OnDiscEnd(t) PROVE NumberTypes'
  BY <1>28, OnDiscCalls DEF OnDiscEnd
<1>29. CASE Crash
  BY <1>29 DEF Crash
<1>32. ASSUME NEW t \in Thread, Unlock(t) PROVE NumberTypes'
  BY <1>32 DEF Unlock
<1>30. CASE UNCHANGED vars
  BY <1>30 DEF vars
<1>31. setup.io \subseteq Thread
  BY SetupAssumption DEF TypeOK, Setup, Thread
<1> QED
  BY <1>1, <1>2, <1>3, <1>4, <1>5, <1>6, <1>7, <1>8, <1>9, <1>10, <1>11, <1>12,
     <1>13, <1>14, <1>15, <1>16, <1>17, <1>18, <1>19, <1>20, <1>21, <1>22,
     <1>23, <1>24, <1>25, <1>26, <1>27, <1>28, <1>29, <1>30, <1>31, <1>32
  DEF Next, Step, Event, AppCall

LEMMA ThreadTypesStep == TypeOK /\ [Next]_vars => ThreadTypes'
<1> SUFFICES ASSUME TypeOK, [Next]_vars PROVE ThreadTypes'
  OBVIOUS
<1>0. ThreadTypes /\ connecting \in BOOLEAN
  BY DEF TypeOK, ThreadTypes
<1> USE <1>0 DEF ThreadTypes, flags, bufs, kernel, counts, ends, locals, PC, Goto, Return
<1>1. ASSUME NEW t \in Thread, Connect(t) PROVE ThreadTypes'
  BY <1>1 DEF Connect, MayCall
<1>2. ASSUME NEW t \in Thread, ConnEvent(t) PROVE ThreadTypes'
  BY <1>2 DEF ConnEvent
<1>3. ASSUME NEW t \in Thread, OnConn(t) PROVE ThreadTypes'
  BY <1>3, OnDiscCalls DEF OnConn
<1>4. ASSUME NEW t \in Thread, Accept(t) PROVE ThreadTypes'
  BY <1>4 DEF Accept
<1>5. ASSUME NEW t \in Thread, ConnInit1(t) PROVE ThreadTypes'
  BY <1>5 DEF ConnInit1
<1>6. ASSUME NEW t \in Thread, ConnInit2(t) PROVE ThreadTypes'
  BY <1>6 DEF ConnInit2
<1>7. ASSUME NEW t \in Thread, ConnInit3(t) PROVE ThreadTypes'
  BY <1>7 DEF ConnInit3
<1>8. ASSUME NEW t \in Thread, OnConnReturns(t) PROVE ThreadTypes'
  BY <1>8 DEF OnConnReturns
<1>9. ASSUME NEW t \in Thread, RecvEvent(t) PROVE ThreadTypes'
  BY <1>9 DEF RecvEvent
<1>10. ASSUME NEW t \in Thread, LoopEnds(t) PROVE ThreadTypes'
  BY <1>10 DEF LoopEnds
<1>11. ASSUME NEW t \in Thread, LoopCheck(t) PROVE ThreadTypes'
  BY <1>11 DEF LoopCheck, AfterLoop
<1>12. ASSUME NEW t \in Thread, RecvCheck(t) PROVE ThreadTypes'
  BY <1>12 DEF RecvCheck
<1>13. ASSUME NEW t \in Thread, RecvMark(t) PROVE ThreadTypes'
  BY <1>13 DEF RecvMark
<1>14. ASSUME NEW t \in Thread, RecvPost(t) PROVE ThreadTypes'
  BY <1>14 DEF RecvPost
<1>15. ASSUME NEW t \in Thread, Send(t) PROVE ThreadTypes'
  BY <1>15 DEF Send, MayCall
<1>16. ASSUME NEW t \in Thread, SendAgain(t) PROVE ThreadTypes'
  BY <1>16 DEF SendAgain
<1>17. ASSUME NEW t \in Thread, SendPush(t) PROVE ThreadTypes'
  BY <1>17 DEF SendPush
<1>18. ASSUME NEW t \in Thread, WsaSend(t) PROVE ThreadTypes'
  BY <1>18 DEF WsaSend
<1>19. ASSUME NEW t \in Thread, SendEvent(t) PROVE ThreadTypes'
  BY <1>19 DEF SendEvent
<1>20. ASSUME NEW t \in Thread, OnSend(t) PROVE ThreadTypes'
  BY <1>20 DEF OnSend
<1>21. ASSUME NEW t \in Thread, OnSendNext(t) PROVE ThreadTypes'
  BY <1>21 DEF OnSendNext
<1>22. ASSUME NEW t \in Thread, NEW rel \in BOOLEAN, Disconnect(t, rel) PROVE ThreadTypes'
  BY <1>22 DEF Disconnect, MayCall
<1>23. ASSUME NEW t \in Thread, DiscFlag(t) PROVE ThreadTypes'
  BY <1>23 DEF DiscFlag
<1>24. ASSUME NEW t \in Thread, DiscSending(t) PROVE ThreadTypes'
  BY <1>24 DEF DiscSending
<1>25. ASSUME NEW t \in Thread, DiscEnd(t) PROVE ThreadTypes'
  BY <1>25 DEF DiscEnd
<1>26. ASSUME NEW t \in Thread, DiscEvent(t) PROVE ThreadTypes'
  BY <1>26 DEF DiscEvent
<1>27. ASSUME NEW t \in Thread, OnDisc(t) PROVE ThreadTypes'
  BY <1>27 DEF OnDisc, UninitBufs
<1>28. ASSUME NEW t \in Thread, OnDiscEnd(t) PROVE ThreadTypes'
  BY <1>28, OnDiscCalls DEF OnDiscEnd
<1>29. CASE Crash
  BY <1>29 DEF Crash
<1>32. ASSUME NEW t \in Thread, Unlock(t) PROVE ThreadTypes'
  BY <1>32 DEF Unlock
<1>30. CASE UNCHANGED vars
  BY <1>30 DEF vars
<1>31. setup.io \subseteq Thread
  BY SetupAssumption DEF TypeOK, Setup, Thread
<1> QED
  BY <1>1, <1>2, <1>3, <1>4, <1>5, <1>6, <1>7, <1>8, <1>9, <1>10, <1>11, <1>12,
     <1>13, <1>14, <1>15, <1>16, <1>17, <1>18, <1>19, <1>20, <1>21, <1>22,
     <1>23, <1>24, <1>25, <1>26, <1>27, <1>28, <1>29, <1>30, <1>31, <1>32
  DEF Next, Step, Event, AppCall

LEMMA TypeStep == TypeOK /\ [Next]_vars => TypeOK'
<1> QED
  BY FlagTypesStep, MoreFlagTypesStep, NumberTypesStep, ThreadTypesStep, Zenon
  DEF TypeOK, FlagTypes, MoreFlagTypes, NumberTypes, ThreadTypes

----------------------------------------------------------------------------
(* The session of a client *)

LEMMA SetupStays == [Next]_vars => setup' = setup
<1> USE DEF ends
<1>1. ASSUME NEW t \in Thread, Step(t) PROVE setup' = setup
  BY <1>1 DEF Step, OnConn, ConnInit1, ConnInit2, ConnInit3, OnConnReturns,
              LoopEnds, LoopCheck, RecvCheck, RecvMark, RecvPost, SendAgain,
              SendPush, WsaSend, OnSend, OnSendNext, DiscFlag, DiscSending,
              DiscEnd, OnDisc, OnDiscEnd, Unlock
<1>2. ASSUME NEW t, Event(t) \/ Accept(t) PROVE setup' = setup
  BY <1>2 DEF Event, ConnEvent, RecvEvent, SendEvent, DiscEvent, Accept
<1>3. ASSUME NEW t \in Thread, AppCall(t) PROVE setup' = setup
  BY <1>3 DEF AppCall, Connect, Send, Disconnect
<1>4. Crash => setup' = setup
  BY DEF Crash
<1>5. UNCHANGED vars => setup' = setup
  BY DEF vars
<1> QED
  BY <1>1, <1>2, <1>3, <1>4, <1>5 DEF Next

LEMMA ClientInit == Init => ClientInv
<1> SUFFICES ASSUME Init PROVE ClientInv
  OBVIOUS
<1>1. /\ \A t \in Thread : pc[t] = "idle"
      /\ conn = FALSE /\ ~kConn /\ ~kDisc /\ sbufUp = FALSE /\ rbufUp = FALSE
      /\ popCnt = 0 /\ kRecv = 0 /\ kSend = 0 /\ nConn = 0 /\ nDisc = 0
  BY DEF Init
<1>2. parked => setup.server
  BY DEF Init
<1>3. Locked /\ OneBegins /\ OneEnds
  BY <1>1 DEF Locked, OneBegins, OneEnds, Begins, Ends
<1>4. Between
  BY <1>1 DEF Between, Fresh
<1>5. Buffers
  BY <1>1, Zenon DEF Buffers
<1>6. InTurn
  BY <1>1 DEF InTurn
<1> QED
  BY <1>2, <1>3, <1>4, <1>5, <1>6 DEF ClientInv

\* No step of any thread breaks it.
LEMMA ClientStep == TypeOK /\ ClientInv /\ [Next]_vars => ClientInv'
<1> SUFFICES ASSUME TypeOK, ClientInv, [Next]_vars, ~setup.server
             PROVE  ClientInv'
  BY SetupStays DEF ClientInv
<1>0. /\ pc \in [Thread -> PC] /\ ret \in [Thread -> {"idle", "onconn", "loop"}]
      /\ nConn \in Nat /\ nDisc \in Nat /\ kRecv \in Nat /\ kSend \in Nat
      /\ popCnt \in Nat /\ connecting \in BOOLEAN
      /\ cdOwner \in Thread \cup {NoThread} /\ NoThread \notin Thread
      /\ Locked /\ OneBegins /\ OneEnds /\ Between /\ Buffers /\ InTurn
      /\ ~parked /\ ~setup.server
  BY ThreadAssumption DEF TypeOK, ClientInv
<1> USE <1>0 DEF PC, Goto, Return, CanLock, Begins, Ends, ClientInv, Locked,
                 OneBegins, OneEnds, Between, Fresh, Buffers, InTurn,
                 flags, bufs, kernel, counts, ends, locals
<1>1. ASSUME NEW t \in Thread, Connect(t) PROVE ClientInv'
  BY <1>1 DEF Connect, MayCall, ConnectEx
<1>2. ASSUME NEW t \in Thread, ConnEvent(t) PROVE ClientInv'
  BY <1>2 DEF ConnEvent
<1>3. ASSUME NEW t \in Thread, OnConn(t) PROVE ClientInv'
  <2>1. pc[t] = "connev" /\ connecting /\ nConn = nDisc /\ ~kConn /\ ~kDisc
    BY <1>3 DEF OnConn
  <2>2. CASE InOnDisc(FALSE) /\ Goto(t, "idle") /\ UNCHANGED <<sock, cdOwner>>
    <3>1. kConn' => connecting'
      BY <2>1, <2>2, OnDiscCalls
    <3>2. \A u \in Thread : Begins(u)' => FALSE
      BY <1>3, <2>1, <2>2 DEF OnConn
    <3>3. OneBegins'
      BY <1>3, <2>1, <2>2, <3>1, <3>2 DEF OnConn
    <3> QED
      BY <1>3, <2>1, <2>2, <3>3 DEF OnConn
  <2>3. CASE connecting' = FALSE /\ Goto(t, "conn1") /\ cdOwner' = t /\ UNCHANGED kConn
    BY <1>3, <2>1, <2>3 DEF OnConn
  <2> QED
    BY <1>3, <2>2, <2>3 DEF OnConn
<1>4. ASSUME NEW t \in Thread, Accept(t) PROVE ClientInv'
  BY <1>4 DEF Accept
<1>5. ASSUME NEW t \in Thread, ConnInit1(t) PROVE ClientInv'
  BY <1>5 DEF ConnInit1
<1>6. ASSUME NEW t \in Thread, ConnInit2(t) PROVE ClientInv'
  BY <1>6 DEF ConnInit2, ResetFlags
<1>7. ASSUME NEW t \in Thread, ConnInit3(t) PROVE ClientInv'
  BY <1>7 DEF ConnInit3
<1>8. ASSUME NEW t \in Thread, OnConnReturns(t) PROVE ClientInv'
  BY <1>8 DEF OnConnReturns
<1>9. ASSUME NEW t \in Thread, RecvEvent(t) PROVE ClientInv'
  BY <1>9 DEF RecvEvent
<1>10. ASSUME NEW t \in Thread, LoopEnds(t) PROVE ClientInv'
  BY <1>10 DEF LoopEnds
<1>11. ASSUME NEW t \in Thread, LoopCheck(t) PROVE ClientInv'
  BY <1>11 DEF LoopCheck, AfterLoop
<1>12. ASSUME NEW t \in Thread, RecvCheck(t) PROVE ClientInv'
  BY <1>12 DEF RecvCheck
<1>13. ASSUME NEW t \in Thread, RecvMark(t) PROVE ClientInv'
  BY <1>13 DEF RecvMark
<1>14. ASSUME NEW t \in Thread, RecvPost(t) PROVE ClientInv'
  <2>1. CASE pc' = [pc EXCEPT ![t] = "disc"] /\ UNCHANGED <<kRecv, ret, cdOwner>>
    BY <1>14, <2>1 DEF RecvPost
  <2>2. CASE kRecv' = kRecv + 1 /\ Return(t)
    BY <1>14, <2>2 DEF RecvPost
  <2> QED
    BY <1>14, <2>1, <2>2 DEF RecvPost
<1>15. ASSUME NEW t \in Thread, Send(t) PROVE ClientInv'
  BY <1>15 DEF Send, MayCall
<1>16. ASSUME NEW t \in Thread, SendAgain(t) PROVE ClientInv'
  BY <1>16 DEF SendAgain
<1>17. ASSUME NEW t \in Thread, SendPush(t) PROVE ClientInv'
  BY <1>17, CountsExactly DEF SendPush
<1>18. ASSUME NEW t \in Thread, WsaSend(t) PROVE ClientInv'
  BY <1>18 DEF WsaSend
<1>19. ASSUME NEW t \in Thread, SendEvent(t) PROVE ClientInv'
  BY <1>19 DEF SendEvent
<1>20. ASSUME NEW t \in Thread, OnSend(t) PROVE ClientInv'
  BY <1>20, CountsExactly DEF OnSend
<1>21. ASSUME NEW t \in Thread, OnSendNext(t) PROVE ClientInv'
  BY <1>21 DEF OnSendNext
<1>22. ASSUME NEW t \in Thread, NEW rel \in BOOLEAN, Disconnect(t, rel) PROVE ClientInv'
  BY <1>22 DEF Disconnect, MayCall
<1>23. ASSUME NEW t \in Thread, DiscFlag(t) PROVE ClientInv'
  BY <1>23 DEF DiscFlag
<1>24. ASSUME NEW t \in Thread, DiscSending(t) PROVE ClientInv'
  BY <1>24 DEF DiscSending
<1>25. ASSUME NEW t \in Thread, DiscEnd(t) PROVE ClientInv'
  <2>1. pc[t] = "disc3" /\ cdOwner = t /\ ~conn
    BY <1>25 DEF DiscEnd
  <2>2. ~Waits(t) => /\ ~disconnecting /\ nConn = nDisc + 1 /\ ~kDisc
                     /\ \A u \in Thread : ~Ends(u)
    BY <2>1 DEF Waits
  <2>3. CASE Waits(t) /\ Return(t) /\ UNCHANGED <<disconnecting, kDisc>>
    BY <1>25, <2>1, <2>3 DEF DiscEnd
  <2>4. CASE ~Waits(t) /\ disconnecting' = TRUE /\ Goto(t, "down")
             /\ UNCHANGED <<kDisc, ret, cdOwner>>
    BY <1>25, <2>1, <2>2, <2>4 DEF DiscEnd
  <2>5. CASE ~Waits(t) /\ disconnecting' = TRUE /\ kDisc' \in {TRUE, kDisc} /\ Return(t)
    BY <1>25, <2>1, <2>2, <2>5 DEF DiscEnd
  <2> QED
    BY <1>25, <2>3, <2>4, <2>5 DEF DiscEnd
<1>26. ASSUME NEW t \in Thread, DiscEvent(t) PROVE ClientInv'
  BY <1>26 DEF DiscEvent
<1>27. ASSUME NEW t \in Thread, OnDisc(t) PROVE ClientInv'
  BY <1>27 DEF OnDisc, UninitBufs
<1>28. ASSUME NEW t \in Thread, OnDiscEnd(t) PROVE ClientInv'
  <2>1. /\ pc[t] = "down2" /\ nConn = nDisc + 1 /\ disconnecting
        /\ ~conn /\ ~kDisc /\ ~kConn
    BY <1>28 DEF OnDiscEnd
  <2>2. InOnDisc(connecting)
    BY <1>28 DEF OnDiscEnd
  <2>3. (kConn' => connecting') /\ (connecting => connecting')
    BY <2>1, <2>2, OnDiscCalls
  <2>4. \A u \in Thread : ~Begins(u)
    BY <2>1
  <2>5. nDisc' = nConn' /\ nDisc' = nDisc + 1 /\ ~parked'
    BY <1>28, <2>1 DEF OnDiscEnd
  <2> HIDE DEF InOnDisc
  <2>6. Locked' /\ OneBegins'
    BY <1>28, <2>1, <2>3, <2>4, <2>5 DEF OnDiscEnd
  <2>7. OneEnds' /\ Between'
    BY <1>28, <2>1, <2>4, <2>5 DEF OnDiscEnd
  <2>8. Buffers' /\ InTurn'
    BY <1>28, <2>1, <2>5 DEF OnDiscEnd
  <2> QED
    BY <2>5, <2>6, <2>7, <2>8, <1>28 DEF OnDiscEnd
<1>29. CASE Crash
  BY <1>29 DEF Crash
<1>32. ASSUME NEW t \in Thread, Unlock(t) PROVE ClientInv'
  BY <1>32 DEF Unlock
<1>30. CASE UNCHANGED vars
  BY <1>30 DEF vars
<1>31. setup.io \subseteq Thread
  BY SetupAssumption DEF TypeOK, Setup, Thread
<1> QED
  BY <1>1, <1>2, <1>3, <1>4, <1>5, <1>6, <1>7, <1>8, <1>9, <1>10, <1>11, <1>12,
     <1>13, <1>14, <1>15, <1>16, <1>17, <1>18, <1>19, <1>20, <1>21, <1>22,
     <1>23, <1>24, <1>25, <1>26, <1>27, <1>28, <1>29, <1>30, <1>31, <1>32
  DEF Next, Step, Event, AppCall

----------------------------------------------------------------------------
(* A session that one IOThread runs *)

LEMMA SequentialInit == Init => SequentialInv
<1> SUFFICES ASSUME Init, Sequential, NEW i \in setup.io PROVE Alone(i)
  BY DEF SequentialInv
<1>1. i \in Thread /\ setup.sends \in Nat /\ setup.server \in BOOLEAN
  BY SetupAssumption DEF Init, Setup, Thread
<1>2. /\ \A t \in Thread : pc[t] = "idle" /\ ret[t] = "idle"
      /\ conn = FALSE /\ recving = FALSE /\ connecting = FALSE
      /\ disconnecting = FALSE /\ force = FALSE /\ release = FALSE
      /\ sbufUp = FALSE /\ rbufUp = FALSE /\ waiting = FALSE
      /\ kConn = FALSE /\ kDisc = FALSE /\ deleted = FALSE /\ crash = "no"
      /\ popCnt = 0 /\ kRecv = 0 /\ kSend = 0
      /\ nConn = 0 /\ nDisc = 0 /\ sends = 0
  BY DEF Init
<1>3. parked = setup.server /\ cdOwner = NoThread
  BY DEF Init
<1>4. Calls(i) /\ Receives(i) /\ Sending(i) /\ Ending(i)
  BY <1>1, <1>2, <1>3 DEF Calls, Receives, Sending, Ending, One
<1>5. Present(i)
  <2>1. sbufUp = FALSE /\ rbufUp = sbufUp
    BY <1>2
  <2> QED
    BY <1>1, <1>2, <2>1 DEF Present, One
<1>6. Beginning(i) /\ Deleting(i)
  BY <1>1, <1>2, <1>3 DEF Beginning, Deleting, InConn, Begins, Ends
<1> QED
  BY <1>4, <1>5, <1>6 DEF Alone

\* The IOThread of a sequential session is the only one.
LEMMA OneIO ==
    ASSUME TypeOK, Sequential, NEW i \in setup.io
    PROVE  /\ setup.io = {i} /\ i \in Thread /\ i \notin User
           /\ setup.user \subseteq {"connect"}
           /\ setup.sends \in Nat /\ Wrap \in Nat /\ setup.sends + 1 < Wrap
<1>1. setup \in Setup /\ setup.sends + 1 < Wrap
  BY SetupAssumption, NumberAssumption DEF TypeOK
<1>2. setup.io \subseteq IO /\ IsFiniteSet(setup.io)
  BY <1>1, ThreadAssumption, FS_Subset DEF Setup
<1>3. \E e : setup.io = {e}
  BY <1>2, FS_Singleton DEF Sequential
<1> QED
  BY <1>1, <1>2, <1>3, ThreadAssumption, NumberAssumption DEF Sequential, Setup, Thread

\* No step of it, or of a thread that connects, breaks Alone.
LEMMA AloneStep ==
    ASSUME TypeOK, Sequential, NEW i \in setup.io, Alone(i), [Next]_vars
    PROVE  Alone(i)'
<1>0. /\ i \in Thread /\ i \notin User /\ setup' = setup
      /\ setup.user \subseteq {"connect"} /\ (KeepsInOnConn' <=> KeepsInOnConn)
      /\ setup.sends \in Nat /\ Wrap \in Nat /\ setup.sends + 1 < Wrap
      /\ pc \in [Thread -> PC] /\ ret \in [Thread -> {"idle", "onconn", "loop"}]
      /\ nConn \in Nat /\ nDisc \in Nat /\ kRecv \in Nat /\ kSend \in Nat
      /\ popCnt \in 0..(Wrap - 1) /\ sends \in Nat
      /\ cdOwner \in Thread \cup {NoThread} /\ NoThread \notin Thread
      /\ conn \in BOOLEAN /\ recving \in BOOLEAN /\ connecting \in BOOLEAN
      /\ release \in BOOLEAN /\ force \in BOOLEAN /\ waiting \in BOOLEAN
      /\ deleted \in BOOLEAN
    /\ crash \in {"no", "gone", "unlock"}
      /\ flag \in [Thread -> BOOLEAN]
      /\ Calls(i) /\ Receives(i) /\ Sending(i) /\ Present(i) /\ Ending(i)
      /\ Beginning(i) /\ Deleting(i)
  BY ThreadAssumption, OneIO, SetupStays DEF TypeOK, Alone, KeepsInOnConn
<1> USE <1>0 DEF PC, Goto, Return, CanLock, Begins, Ends, Alone, Calls,
                 Receives, Sending, Present, Ending, Beginning, Deleting,
                 Nested, One, InConn, flags, bufs, kernel, counts, ends, locals
<1>1. ASSUME ~deleted, crash = "no", NEW t \in Thread, Connect(t) PROVE Alone(i)'
  BY <1>1 DEF Connect, MayCall, ConnectEx
<1>2. ASSUME ~deleted, crash = "no", ConnEvent(i) PROVE Alone(i)'
  BY <1>2 DEF ConnEvent
<1>3. ASSUME ~deleted, crash = "no", OnConn(i) PROVE Alone(i)'
  <2>0. pc[i] = "connev" /\ ret[i] = "idle" /\ ~kConn /\ ~parked /\ ~setup.server
    BY <1>3 DEF OnConn
  <2>8. CASE InOnDisc(FALSE) /\ Goto(i, "idle") /\ UNCHANGED <<sock, cdOwner>>
    <3>1. kConn' => connecting' /\ ~setup.server /\ ~release'
      BY <2>0, <2>8, OnDiscCalls
    <3> QED
      BY <1>3, <2>0, <2>8, <3>1 DEF OnConn
  <2>9. CASE connecting' = FALSE /\ Goto(i, "conn1") /\ cdOwner' = i
             /\ UNCHANGED <<kConn, release>>
    BY <1>3, <2>0, <2>9 DEF OnConn
  <2> QED
    BY <1>3, <2>8, <2>9 DEF OnConn
<1>4. ASSUME ~deleted, crash = "no", Accept(i) PROVE Alone(i)'
  BY <1>4 DEF Accept
<1>5. ASSUME ~deleted, crash = "no", ConnInit1(i) PROVE Alone(i)'
  BY <1>5 DEF ConnInit1
<1>6. ASSUME ~deleted, crash = "no", ConnInit2(i) PROVE Alone(i)'
  BY <1>6 DEF ConnInit2, ResetFlags
<1>7. ASSUME ~deleted, crash = "no", ConnInit3(i) PROVE Alone(i)'
  BY <1>7 DEF ConnInit3
<1>8. ASSUME ~deleted, crash = "no", OnConnReturns(i) PROVE Alone(i)'
  BY <1>8 DEF OnConnReturns
<1>9. ASSUME ~deleted, crash = "no", RecvEvent(i) PROVE Alone(i)'
  BY <1>9 DEF RecvEvent
<1>10. ASSUME ~deleted, crash = "no", LoopEnds(i) PROVE Alone(i)'
  BY <1>10 DEF LoopEnds
<1>11. ASSUME ~deleted, crash = "no", LoopCheck(i) PROVE Alone(i)'
  BY <1>11 DEF LoopCheck, AfterLoop
<1>12. ASSUME ~deleted, crash = "no", RecvCheck(i) PROVE Alone(i)'
  BY <1>12 DEF RecvCheck
<1>13. ASSUME ~deleted, crash = "no", RecvMark(i) PROVE Alone(i)'
  BY <1>13 DEF RecvMark
<1>14. ASSUME ~deleted, crash = "no", RecvPost(i) PROVE Alone(i)'
  <2>1. Calls(i)'
    BY <1>14 DEF RecvPost
  <2>2. Receives(i)'
    BY <1>14 DEF RecvPost
  <2>3. Sending(i)'
    BY <1>14 DEF RecvPost
  <2>4. Present(i)'
    BY <1>14 DEF RecvPost
  <2>5. Ending(i)'
    BY <1>14 DEF RecvPost
  <2>6. Beginning(i)'
    BY <1>14 DEF RecvPost
  <2>7. Deleting(i)'
    BY <1>14 DEF RecvPost
  <2> QED
    BY <2>1, <2>2, <2>3, <2>4, <2>5, <2>6, <2>7 DEF Alone
<1>15. ASSUME ~deleted, crash = "no", Send(i) PROVE Alone(i)'
  BY <1>15 DEF Send, MayCall
<1>16. ASSUME ~deleted, crash = "no", SendAgain(i) PROVE Alone(i)'
  BY <1>16 DEF SendAgain
<1>17. ASSUME ~deleted, crash = "no", SendPush(i) PROVE Alone(i)'
  <2>0. Inc(popCnt) = popCnt + 1
    BY CountsExactly DEF TypeOK
  <2>1. Calls(i)'
    BY <1>17 DEF SendPush
  <2>2. Receives(i)'
    BY <1>17 DEF SendPush
  <2>3. Sending(i)'
    BY <1>17, <2>0 DEF SendPush
  <2>4. Present(i)'
    BY <1>17 DEF SendPush
  <2>5. Ending(i)'
    BY <1>17 DEF SendPush
  <2>6. Beginning(i)'
    BY <1>17 DEF SendPush
  <2>7. Deleting(i)'
    BY <1>17 DEF SendPush
  <2> QED
    BY <2>1, <2>2, <2>3, <2>4, <2>5, <2>6, <2>7 DEF Alone
<1>18. ASSUME ~deleted, crash = "no", WsaSend(i) PROVE Alone(i)'
  BY <1>18 DEF WsaSend
<1>19. ASSUME ~deleted, crash = "no", SendEvent(i) PROVE Alone(i)'
  BY <1>19 DEF SendEvent
<1>20. ASSUME ~deleted, crash = "no", OnSend(i) PROVE Alone(i)'
  <2>0. popCnt = kSend + 1 /\ Dec(popCnt) = kSend
    BY <1>20, CountsExactly DEF OnSend, TypeOK
  <2>1. Calls(i)'
    BY <1>20 DEF OnSend
  <2>2. Receives(i)'
    BY <1>20 DEF OnSend
  <2>3. Sending(i)'
    BY <1>20, <2>0 DEF OnSend
  <2>4. Present(i)'
    BY <1>20 DEF OnSend
  <2>5. Ending(i)'
    BY <1>20 DEF OnSend
  <2>6. Beginning(i)'
    BY <1>20 DEF OnSend
  <2>7. Deleting(i)'
    BY <1>20 DEF OnSend
  <2> QED
    BY <2>1, <2>2, <2>3, <2>4, <2>5, <2>6, <2>7 DEF Alone
<1>21. ASSUME ~deleted, crash = "no", OnSendNext(i) PROVE Alone(i)'
  BY <1>21 DEF OnSendNext
<1>22. ASSUME ~deleted, crash = "no", NEW rel \in BOOLEAN, Disconnect(i, rel) PROVE Alone(i)'
  <2>0. /\ pc[i] \in {"onconn", "loop"} /\ ret[i] = "idle"
        /\ pc[i] = "onconn" => (IF rel THEN "release" ELSE "disconnect") \in setup.onConn
    BY <1>22 DEF Disconnect, MayCall
  <2>8. release' = rel /\ (KeepsInOnConn /\ pc[i] = "onconn" => ~release')
    BY <1>22, <2>0 DEF Disconnect, KeepsInOnConn
  <2>1. Calls(i)'
    BY <1>22 DEF Disconnect, MayCall
  <2>2. Receives(i)'
    BY <1>22 DEF Disconnect, MayCall
  <2>3. Sending(i)'
    BY <1>22 DEF Disconnect, MayCall
  <2>4. Present(i)'
    BY <1>22 DEF Disconnect, MayCall
  <2>5. Ending(i)'
    BY <1>22 DEF Disconnect, MayCall
  <2>6. Beginning(i)'
    BY <1>22 DEF Disconnect, MayCall
  <2>7. Deleting(i)'
    BY <1>22, <2>0, <2>8 DEF Disconnect, MayCall
  <2> QED
    BY <2>1, <2>2, <2>3, <2>4, <2>5, <2>6, <2>7 DEF Alone
<1>23. ASSUME ~deleted, crash = "no", DiscFlag(i) PROVE Alone(i)'
  BY <1>23 DEF DiscFlag
<1>24. ASSUME ~deleted, crash = "no", DiscSending(i) PROVE Alone(i)'
  BY <1>24 DEF DiscSending
<1>25. ASSUME ~deleted, crash = "no", DiscEnd(i) PROVE Alone(i)'
  <2>0. pc[i] = "disc3" /\ sbufUp /\ ~conn
    BY <1>25 DEF DiscEnd
  <2>8. ~Waits(i) => ~recving /\ popCnt = 0 /\ ~disconnecting /\ ~kDisc
    BY <2>0 DEF Waits
  <2>9. CASE Waits(i) /\ Return(i) /\ UNCHANGED <<disconnecting, kDisc>>
    BY <1>25, <2>0, <2>9 DEF DiscEnd
  <2>10. CASE ~Waits(i) /\ disconnecting' = TRUE /\ force /\ Goto(i, "down")
              /\ UNCHANGED <<kDisc, ret, cdOwner>>
    BY <1>25, <2>0, <2>8, <2>10 DEF DiscEnd
  <2>11. CASE ~Waits(i) /\ disconnecting' = TRUE /\ kDisc' \in {TRUE, kDisc} /\ Return(i)
    BY <1>25, <2>0, <2>8, <2>11 DEF DiscEnd
  <2> QED
    BY <1>25, <2>9, <2>10, <2>11 DEF DiscEnd
<1>26. ASSUME ~deleted, crash = "no", DiscEvent(i) PROVE Alone(i)'
  BY <1>26 DEF DiscEvent
<1>27. ASSUME ~deleted, crash = "no", OnDisc(i) PROVE Alone(i)'
  <2>1. Calls(i)'
    BY <1>27 DEF OnDisc, UninitBufs
  <2>2. Receives(i)'
    BY <1>27 DEF OnDisc, UninitBufs
  <2>3. Sending(i)'
    BY <1>27 DEF OnDisc, UninitBufs
  <2>4. Present(i)'
    BY <1>27 DEF OnDisc, UninitBufs
  <2>5. Ending(i)'
    BY <1>27 DEF OnDisc, UninitBufs
  <2>6. Beginning(i)'
    BY <1>27 DEF OnDisc, UninitBufs
  <2>7. Deleting(i)'
    BY <1>27 DEF OnDisc, UninitBufs
  <2> QED
    BY <2>1, <2>2, <2>3, <2>4, <2>5, <2>6, <2>7 DEF Alone
<1>28. ASSUME ~deleted, crash = "no", OnDiscEnd(i) PROVE Alone(i)'
  <2>0. /\ pc[i] = "down2" /\ ~sbufUp /\ ~kConn /\ ~kDisc
        /\ kRecv = 0 /\ kSend = 0 /\ ret[i] # "loop"
    BY <1>28 DEF OnDiscEnd
  <2>8. KeepsInOnConn /\ ret[i] = "onconn" => ~release'
    BY <1>28, <2>0, OnDiscCalls DEF OnDiscEnd, KeepsInOnConn
  <2>9. kConn' => ~release'
    BY <1>28, <2>0, OnDiscCalls DEF OnDiscEnd
  <2>10. /\ deleted' = release' /\ (parked' => ~release')
         /\ \/ release' /\ pc'[i] = "unlock" /\ ret'[i] = ret[i]
            \/ ~release' /\ pc'[i] = ret[i] /\ ret'[i] = "idle"
    BY <1>28, <2>0 DEF OnDiscEnd, Deletes
  <2>1. Calls(i)'
    BY <1>28, OnDiscCalls DEF OnDiscEnd, Deletes
  <2>2. Receives(i)'
    BY <1>28, OnDiscCalls DEF OnDiscEnd, Deletes
  <2>3. Sending(i)'
    BY <1>28, OnDiscCalls DEF OnDiscEnd, Deletes
  <2>4. Present(i)'
    BY <1>28, OnDiscCalls DEF OnDiscEnd, Deletes
  <2>5. Ending(i)'
    BY <1>28, OnDiscCalls DEF OnDiscEnd, Deletes
  <2>6. Beginning(i)'
    BY <1>28, OnDiscCalls DEF OnDiscEnd, Deletes
  <2>7. Deleting(i)'
    BY <1>28, <2>0, <2>8, <2>9, <2>10 DEF OnDiscEnd, Deletes
  <2> QED
    BY <2>1, <2>2, <2>3, <2>4, <2>5, <2>6, <2>7 DEF Alone
<1>29. CASE crash = "no" /\ Crash
  BY <1>29 DEF Crash, Faulty
<1>36. ASSUME Unlock(i) PROVE Alone(i)'
  BY <1>36 DEF Unlock
<1>30. CASE UNCHANGED vars
  BY <1>30 DEF vars
<1>31. ASSUME NEW t \in Thread, ~Faulty(t), Step(t) PROVE t = i /\ (Unlock(t) \/ ~deleted)
  BY <1>31 DEF Step, OnConn, ConnInit1, ConnInit2, ConnInit3, OnConnReturns,
               LoopEnds, LoopCheck, RecvCheck, RecvMark, RecvPost, SendAgain,
               SendPush, WsaSend, OnSend, OnSendNext, DiscFlag, DiscSending,
               DiscEnd, OnDisc, OnDiscEnd, Unlock, Faulty
<1>32. ASSUME NEW t \in Thread, NEW c, MayCall(t, c), c # "connect" PROVE t = i
  BY <1>32 DEF MayCall
<1>33. ASSUME NEW t \in Thread, crash = "no", AppCall(t) PROVE Alone(i)'
  <2>1. CASE Connect(t)
    BY <1>1, <1>33, <2>1 DEF Connect, MayCall
  <2>2. CASE Send(t)
    BY <1>15, <1>32, <1>33, <2>2 DEF Send, MayCall
  <2>3. ASSUME NEW rel \in BOOLEAN, Disconnect(t, rel) PROVE Alone(i)'
    BY <1>22, <1>32, <1>33, <2>3 DEF Disconnect, MayCall
  <2> QED
    BY <1>33, <2>1, <2>2, <2>3 DEF AppCall
<1>34. ASSUME NEW t \in Thread, crash = "no", ~Faulty(t), Step(t) PROVE Alone(i)'
  BY <1>31, <1>34, <1>3, <1>5, <1>6, <1>7, <1>8, <1>10, <1>11, <1>12, <1>13, <1>14,
     <1>16, <1>17, <1>18, <1>20, <1>21, <1>23, <1>24, <1>25, <1>27, <1>28, <1>36
  DEF Step
<1>35. ASSUME NEW t \in setup.io, crash = "no", ~deleted, Event(t) \/ Accept(t) PROVE Alone(i)'
  BY OneIO, <1>35, <1>2, <1>4, <1>9, <1>19, <1>26 DEF Event
<1> QED
  BY <1>29, <1>30, <1>33, <1>34, <1>35 DEF Next

----------------------------------------------------------------------------
(* The theorems *)

LEMMA InvStep == SessionInv /\ [Next]_vars => SessionInv'
<1> SUFFICES ASSUME SessionInv, [Next]_vars PROVE SessionInv'
  OBVIOUS
<1>1. TypeOK' /\ ClientInv'
  BY TypeStep, ClientStep DEF SessionInv
<1>2. SequentialInv'
  <2> SUFFICES ASSUME Sequential', NEW i \in setup'.io PROVE Alone(i)'
    BY DEF SequentialInv
  <2>1. Sequential /\ i \in setup.io
    BY SetupStays DEF Sequential
  <2> QED
    BY <2>1, AloneStep DEF SessionInv, SequentialInv
<1> QED
  BY <1>1, <1>2 DEF SessionInv

\* Everything that holds of one session at any time, in one invariant.
THEOREM SessionInvariant == Spec => []SessionInv
<1>1. Init => SessionInv
  BY TypeInit, ClientInit, SequentialInit DEF SessionInv
<1> QED
  BY <1>1, InvStep, PTL DEF Spec

\* The variables of a session keep their types; pop_cnt_ stays in its 32 bits.
THEOREM TypeCorrect == Spec => []TypeOK
<1>1. SessionInv => TypeOK
  BY DEF SessionInv
<1> QED
  BY <1>1, SessionInvariant, PTL

\* What is said of the only IOThread is said of every thread that is not idle.
LEMMA AloneThere ==
    ASSUME SessionInv, Sequential
    PROVE  \E i \in setup.io :
             /\ Alone(i) /\ i \in Thread
             /\ \A t \in Thread : pc[t] # "idle" => t = i
<1>1. setup \in Setup
  BY SetupAssumption DEF SessionInv, TypeOK
<1>2. setup.io \subseteq IO /\ IsFiniteSet(setup.io)
  BY <1>1, ThreadAssumption, FS_Subset DEF Setup
<1>3. PICK i : setup.io = {i}
  BY <1>2, FS_Singleton DEF Sequential
<1>4. Alone(i) /\ i \in Thread
  BY <1>2, <1>3 DEF SessionInv, SequentialInv, Thread
<1> QED
  BY <1>3, <1>4 DEF Alone, Calls

\* on_conn and on_disc of a session come in turn: for the session of a client
\* whichever threads call it, for any session when one IOThread runs it.
THEOREM AlternationCorrect == Spec => []Alternation
<1>1. SessionInv => Alternation
  <2> SUFFICES ASSUME SessionInv, ~setup.server \/ Sequential PROVE InTurn
    BY DEF Alternation, Ordered
  <2>1. CASE ~setup.server
    BY <2>1 DEF SessionInv, ClientInv
  <2>2. CASE Sequential
    <3>1. PICK i \in setup.io : Alone(i)
      BY <2>2, AloneThere
    <3> QED
      BY <3>1 DEF Alone, Present, One, InTurn, SessionInv, TypeOK
  <2> QED
    BY <2>1, <2>2
<1> QED
  BY <1>1, SessionInvariant, PTL

\* Under the same condition SBuf::init and RBuf::init find the buffers released
\* and empty: the teardown of the last connection is over.
THEOREM InitCleanCorrect == Spec => []InitClean
<1>1. SessionInv => InitClean
  <2> SUFFICES ASSUME SessionInv, ~setup.server \/ Sequential,
                      NEW t \in Thread, pc[t] = "conn3"
               PROVE  ~sbufUp /\ ~rbufUp /\ popCnt = 0
    BY DEF InitClean, Ordered
  <2>1. CASE ~setup.server
    BY <2>1 DEF SessionInv, ClientInv, OneBegins, Begins, Buffers, TypeOK
  <2>2. CASE Sequential
    BY <2>2, AloneThere DEF Alone, Present
  <2> QED
    BY <2>1, <2>2
<1> QED
  BY <1>1, SessionInvariant, PTL

\* When one IOThread runs the session, and no call in on_conn deletes it, nothing
\* uses its buffers after uninit(), and after its delete nothing is inside it but
\* the thread that deleted it and leaves cd_lock_.
THEOREM NoCrashCorrect == Spec => []NoCrash
<1>1. SessionInv => NoCrash
  <2> SUFFICES ASSUME SessionInv, Sequential, KeepsInOnConn
               PROVE  /\ crash # "gone"
                      /\ deleted => \A t \in Thread : pc[t] \in {"idle", "unlock"}
    BY DEF NoCrash
  <2>1. PICK i \in setup.io : /\ Alone(i) /\ i \in Thread
                              /\ \A u \in Thread : pc[u] # "idle" => u = i
    BY AloneThere
  <2> QED
    BY <2>1 DEF Alone, Deleting
<1> QED
  BY <1>1, SessionInvariant, PTL

\* The last operation under way ends the session: no receive and no send is
\* left when the teardown runs.
THEOREM TeardownCorrect == Spec => []TeardownWhenIdle
<1>1. SessionInv => TeardownWhenIdle
  <2> SUFFICES ASSUME SessionInv, Sequential, NEW t \in Thread, pc[t] = "down"
               PROVE  ~Busy
    BY DEF TeardownWhenIdle
  <2>1. PICK i \in setup.io : /\ Alone(i) /\ i \in Thread
                              /\ \A u \in Thread : pc[u] # "idle" => u = i
    BY AloneThere
  <2>2. pc[i] = "down" /\ \A u \in Thread : pc[u] \in {"idle", "down"}
    BY <2>1
  <2>3. kRecv = 0 /\ kSend = 0
    BY <2>1, <2>2 DEF Alone, Ending, Receives, Sending, One, SessionInv, TypeOK
  <2> QED
    BY <2>2, <2>3 DEF Busy
<1> QED
  BY <1>1, SessionInvariant, PTL

=============================================================================
