--------------------------- MODULE ProcessProofs ---------------------------
(***************************************************************************)
(* Proofs about Process, for any threads and any bounds on dumps and       *)
(* controls.  The service and the crash handler share only alive, so each  *)
(* has an invariant of its own, and a step of the one leaves the other's   *)
(* alone but for the end of the process.                                   *)
(***************************************************************************)
EXTENDS Process, FiniteSetTheorems, TLAPS

DumpThread == Worker \cup {"main", "handler"}

----------------------------------------------------------------------------
(* What is left of Set(s): nothing, its store, or all of it.               *)
Left(s) ==
    {<<>>, <<[op |-> "store", s |-> s]>>}
      \cup (IF mode = "service"
            THEN {<<[op |-> "report", s |-> s], [op |-> "store", s |-> s]>>}
            ELSE {})

\* A service that nobody has asked to end, and whose state is not stale.
Unasked ==
    LET main == todo["main"] handler == todo["handler"] IN
    /\ mode # "service" => reported = "none" /\ handler = <<>>
    /\ \/ /\ stage \in {"begin", "fail", "done"}
          /\ main = <<>> /\ handler = <<>>
          /\ reported \in {"none", "START_PENDING"}
       \/ /\ stage = "init"
          /\ main \in Left("START_PENDING") /\ handler = <<>>
          /\ reported \in {"none", "START_PENDING"}
          /\ mode # "linux" /\ main = <<>> => state = "START_PENDING"
       \/ /\ stage = "loop"
          /\ main # <<>> /\ main \in Left("RUNNING")
          /\ state = "START_PENDING"
          /\ handler \in Left("START_PENDING")
       \/ /\ stage = "loop"
          /\ main = <<>>
          /\ mode # "linux" => state = "RUNNING"
          /\ handler \in Left("START_PENDING") \cup Left("RUNNING")

\* on_uninit has returned, or a control has asked for the end.
Over == cleaned \/ (controls > 0 /\ asked)

\* A service before that: nobody is about to report STOPPED.
NotOver ==
    LET main == todo["main"] handler == todo["handler"] IN
    \/ /\ stage \in {"begin", "fail"}
       /\ main = <<>> /\ handler = <<>>
       /\ reported \in {"none", "START_PENDING"}
    \/ /\ stage = "init"
       /\ main \in Left("START_PENDING") /\ handler = <<>>
       /\ reported \in {"none", "START_PENDING"}
       /\ main = <<>> => state = "START_PENDING"
    \/ /\ stage \in {"loop", "uninit"}
       /\ main \in Left("RUNNING")
       /\ handler \in Left("START_PENDING") \cup Left("RUNNING")
       /\ state \in {"START_PENDING", "RUNNING"}
       /\ reported # "STOPPED"

\* The invariant of the service.
ServiceInv ==
    /\ Service!TypeOK
    /\ ~asked /\ ~stale => Unasked
    /\ mode = "service" /\ ~Over => NotOver
    /\ stage = "done" => cleaned
    /\ Cleanup

LEMMA SetLeft ==
    ASSUME NEW s
    PROVE  Service!Set(s) \in Left(s) /\ Service!Set(s) # <<>>
    BY DEF Service!Set, Left

LEMMA LeftParts ==
    ASSUME NEW s, NEW r \in Left(s), r # <<>>
    PROVE  /\ Head(r) \in [op : {"report", "store"}, s : {s}]
           /\ Tail(r) \in Left(s)
           /\ Head(r).op = "store" <=> Tail(r) = <<>>
           /\ mode # "service" => Head(r).op = "store"
<1>1. CASE r = <<[op |-> "store", s |-> s]>>
    BY <1>1 DEF Left
<1>2. CASE /\ mode = "service"
           /\ r = <<[op |-> "report", s |-> s], [op |-> "store", s |-> s]>>
    BY <1>2 DEF Left
<1> QED
    BY <1>1, <1>2 DEF Left

LEMMA StartService == Init => ServiceInv
<1> SUFFICES ASSUME Init PROVE ServiceInv
    OBVIOUS
<1>1. /\ mode \in Modes /\ alive = TRUE /\ stage = "begin"
      /\ state = "STOPPED" /\ reported = "none"
      /\ todo = [th \in {"main", "handler"} |-> <<>>]
      /\ controls = 0 /\ asked = FALSE /\ stale = FALSE /\ stopped = FALSE
      /\ cleaned = FALSE
    BY DEF Init, Service!Init
<1>2. todo["main"] = <<>> /\ todo["handler"] = <<>>
    BY <1>1
<1>3. Service!TypeOK
    <2>1. todo \in [{"main", "handler"} -> Seq(Service!Steps)]
        BY <1>1
    <2>2. controls \in 0..MaxControl
        BY <1>1, ProcessAssumption
    <2>3. state \in Service!States /\ reported \in Service!States \cup {"none"}
        BY <1>1 DEF Service!States
    <2>4. stage \in {"begin", "init", "loop", "uninit", "fail", "done"}
        BY <1>1
    <2> QED
        BY <1>1, <2>1, <2>2, <2>3, <2>4, Zenon DEF Service!TypeOK
<1> QED
    BY <1>1, <1>2, <1>3 DEF ServiceInv, Unasked, NotOver, Cleanup

LEMMA SetSteps ==
    ASSUME NEW s \in Service!States
    PROVE  Service!Set(s) \in Seq(Service!Steps) /\ <<>> \in Seq(Service!Steps)
<1>1. /\ [op |-> "report", s |-> s] \in Service!Steps
      /\ [op |-> "store", s |-> s] \in Service!Steps
    BY DEF Service!Steps
<1> QED
    BY <1>1 DEF Service!Set

LEMMA TodoSteps ==
    ASSUME Service!TypeOK, NEW th \in {"main", "handler"}, NEW s \in Seq(Service!Steps)
    PROVE  /\ [todo EXCEPT ![th] = s] \in [{"main", "handler"} -> Seq(Service!Steps)]
           /\ [todo EXCEPT ![th] = s][th] = s
           /\ \A u \in {"main", "handler"} \ {th} : [todo EXCEPT ![th] = s][u] = todo[u]
           /\ todo[th] \in Seq(Service!Steps)
    BY DEF Service!TypeOK

LEMMA BeginInv == ASSUME ServiceInv, Service!Begin PROVE ServiceInv'
<1>1. /\ alive /\ stage = "begin" /\ todo["main"] = <<>>
      /\ UNCHANGED <<mode, alive, state, reported, controls, asked, stale, stopped, cleaned>>
      /\ Service!TypeOK
    BY DEF Service!Begin, Service!At, Service!Busy, ServiceInv
<1>2. /\ stage' \in {"init", "fail"}
      /\ todo' \in [{"main", "handler"} -> Seq(Service!Steps)]
      /\ todo'["handler"] = todo["handler"]
      /\ todo'["main"] \in Left("START_PENDING")
      /\ stage' = "fail" => todo'["main"] = <<>>
      /\ stage' = "init" /\ mode # "linux" => todo'["main"] # <<>>
    <2>1. CASE Service!Goto("init") /\ Service!Then("main",
                    IF mode = "linux" THEN <<>> ELSE Service!Set("START_PENDING"))
        BY <1>1, <2>1, SetLeft, SetSteps, TodoSteps
        DEF Service!Goto, Service!Then, Service!States, Left
    <2>2. CASE Service!Goto("fail") /\ UNCHANGED todo
        BY <1>1, <2>2 DEF Service!Goto, Service!TypeOK, Left
    <2> QED
        BY <2>1, <2>2 DEF Service!Begin
<1>3. Service!TypeOK'
    BY <1>1, <1>2, Zenon DEF Service!TypeOK, Service!States
<1>4. ~asked' /\ ~stale' => Unasked'
    BY <1>1, <1>2 DEF ServiceInv, Unasked, Left
<1>5. mode' = "service" /\ ~Over' => NotOver'
    BY <1>1, <1>2 DEF ServiceInv, Over, NotOver, Left
<1> QED
    BY <1>1, <1>2, <1>3, <1>4, <1>5 DEF ServiceInv, Cleanup

LEMMA InitedInv == ASSUME ServiceInv, Service!Inited PROVE ServiceInv'
<1>1. /\ alive /\ stage = "init" /\ todo["main"] = <<>>
      /\ UNCHANGED <<mode, alive, state, reported, controls, asked, stale, stopped, cleaned>>
      /\ Service!TypeOK
    BY DEF Service!Inited, Service!At, Service!Busy, ServiceInv
<1>2. /\ stage' \in {"loop", "fail"}
      /\ todo' \in [{"main", "handler"} -> Seq(Service!Steps)]
      /\ todo'["handler"] = todo["handler"]
      /\ todo'["main"] \in Left("RUNNING")
      /\ stage' = "fail" => todo'["main"] = <<>>
      /\ mode = "linux" => todo'["main"] = <<>>
      /\ stage' = "loop" /\ mode # "linux" => todo'["main"] # <<>>
    <2>1. CASE Service!Goto("loop") /\ Service!Then("main",
                    IF mode = "linux" THEN <<>> ELSE Service!Set("RUNNING"))
        BY <1>1, <2>1, SetLeft, SetSteps, TodoSteps
        DEF Service!Goto, Service!Then, Service!States, Left
    <2>2. CASE Service!Goto("fail") /\ UNCHANGED todo
        BY <1>1, <2>2 DEF Service!Goto, Service!TypeOK, Left
    <2> QED
        BY <2>1, <2>2 DEF Service!Inited
<1>3. Service!TypeOK'
    BY <1>1, <1>2, Zenon DEF Service!TypeOK, Service!States
<1>4. ~asked' /\ ~stale' => Unasked'
    BY <1>1, <1>2 DEF ServiceInv, Unasked, Left
<1>5. mode' = "service" /\ ~Over' => NotOver'
    BY <1>1, <1>2 DEF ServiceInv, Over, NotOver, Left
<1> QED
    BY <1>1, <1>2, <1>3, <1>4, <1>5 DEF ServiceInv, Cleanup

LEMMA RoundInv == ASSUME ServiceInv, Service!Round PROVE ServiceInv'
<1>1. /\ alive /\ stage = "loop" /\ todo["main"] = <<>>
      /\ UNCHANGED <<mode, alive, state, reported, todo, controls, stale, stopped, cleaned>>
      /\ Service!TypeOK
      /\ mode \in {"console", "service", "linux"}
    BY ProcessAssumption
    DEF Service!Round, Service!At, Service!Busy, ServiceInv, Service!TypeOK
<1>2. \/ UNCHANGED <<stage, asked>>
      \/ stage' = "uninit" /\ asked' = TRUE
      \/ stage' = "uninit" /\ UNCHANGED asked /\ mode # "linux" /\ state # "RUNNING"
    BY Zenon DEF Service!Round, Service!Goto
<1>3. Service!TypeOK'
    BY <1>1, <1>2, Zenon DEF Service!TypeOK
<1>4. ~asked' /\ ~stale' => Unasked'
    BY <1>1, <1>2 DEF ServiceInv, Unasked, Left
<1>5. mode' = "service" /\ ~Over' => NotOver'
    BY <1>1, <1>2 DEF ServiceInv, Over, NotOver, Left
<1> QED
    BY <1>1, <1>2, <1>3, <1>4, <1>5 DEF ServiceInv, Cleanup

LEMMA UninitInv == ASSUME ServiceInv, Service!Uninit PROVE ServiceInv'
<1>1. /\ alive /\ stage \in {"uninit", "fail"} /\ todo["main"] = <<>>
      /\ UNCHANGED <<mode, alive, state, reported, controls, asked, stale, stopped>>
      /\ cleaned' = TRUE /\ stage' = "done"
      /\ Service!TypeOK
    BY DEF Service!Uninit, Service!At, Service!Busy, Service!Goto, ServiceInv
<1>2. /\ todo' \in [{"main", "handler"} -> Seq(Service!Steps)]
      /\ todo'["handler"] = todo["handler"]
      /\ stage = "fail" => todo'["main"] = <<>>
    BY <1>1, SetSteps, TodoSteps DEF Service!Uninit, Service!Then, Service!States
<1>3. Service!TypeOK'
    BY <1>1, <1>2, Zenon DEF Service!TypeOK
<1>4. ~asked' /\ ~stale' => Unasked'
    BY <1>1, <1>2 DEF ServiceInv, Unasked, Left
<1> QED
    BY <1>1, <1>2, <1>3, <1>4 DEF ServiceInv, Over, Cleanup

LEMMA StopInv == ASSUME ServiceInv, Service!Stop PROVE ServiceInv'
<1>1. /\ alive /\ UNCHANGED <<mode, alive, stage, state, reported, stale, cleaned>>
      /\ controls < MaxControl /\ controls' = controls + 1 /\ asked' = TRUE
      /\ stopped' = (stopped \/ state = "RUNNING")
      /\ Service!TypeOK
    BY DEF Service!Stop, ServiceInv
<1>2. todo' \in [{"main", "handler"} -> Seq(Service!Steps)]
    <2>1. /\ Service!Set("STOP_PENDING") \o Service!Set("STOPPED") \in Seq(Service!Steps)
          /\ <<>> \in Seq(Service!Steps)
        BY SetSteps DEF Service!States
    <2> QED
        BY <1>1, <2>1, TodoSteps DEF Service!Stop, Service!Then
<1>3. controls' \in 0..MaxControl /\ controls' > 0
    BY <1>1, ProcessAssumption DEF Service!TypeOK
<1>4. Service!TypeOK'
    BY <1>1, <1>2, <1>3, Zenon DEF Service!TypeOK
<1> QED
    BY <1>1, <1>3, <1>4 DEF ServiceInv, Over, Cleanup

LEMMA RepeatInv == ASSUME ServiceInv, Service!Repeat PROVE ServiceInv'
<1>1. /\ alive /\ todo["handler"] = <<>> /\ reported = "RUNNING"
      /\ UNCHANGED <<mode, alive, stage, state, reported, asked, stale, stopped, cleaned>>
      /\ controls < MaxControl /\ controls' = controls + 1
      /\ Service!TypeOK
    BY DEF Service!Repeat, Service!Busy, ServiceInv
<1>2. /\ todo' \in [{"main", "handler"} -> Seq(Service!Steps)]
      /\ todo'["main"] = todo["main"]
      /\ todo'["handler"] \in Left(state)
    BY <1>1, SetLeft, SetSteps, TodoSteps
    DEF Service!Repeat, Service!Then, Service!TypeOK, Left
<1>3. controls' \in 0..MaxControl /\ (controls > 0 => controls' > 0)
    BY <1>1, ProcessAssumption DEF Service!TypeOK
<1>4. Service!TypeOK'
    BY <1>1, <1>2, <1>3, Zenon DEF Service!TypeOK
<1>5. ~asked' /\ ~stale' => Unasked'
    BY <1>1, <1>2 DEF ServiceInv, Unasked, Left
<1>6. mode' = "service" /\ ~Over' => NotOver'
    BY <1>1, <1>2, <1>3 DEF ServiceInv, Over, NotOver, Left
<1> QED
    BY <1>1, <1>4, <1>5, <1>6 DEF ServiceInv, Cleanup

LEMMA SetStateInv ==
    ASSUME ServiceInv, NEW th \in {"main", "handler"}, Service!SetState(th)
    PROVE  ServiceInv'
<1> DEFINE h == Head(todo[th])
<1>1. /\ alive /\ todo[th] # <<>>
      /\ UNCHANGED <<mode, alive, stage, controls, asked, stopped, cleaned>>
      /\ Service!TypeOK
    BY DEF Service!SetState, Service!Busy, ServiceInv
<1>2. h \in Service!Steps /\ Tail(todo[th]) \in Seq(Service!Steps)
    BY <1>1 DEF Service!TypeOK
<1>3. /\ state' = IF h.op = "report" THEN state ELSE h.s
      /\ reported' = IF h.op = "report" THEN h.s ELSE reported
    BY DEF Service!SetState
<1>4. /\ stale' \in BOOLEAN
      /\ ~stale' => ~stale
      /\ ~stale' /\ th = "handler" /\ h.s \in {"START_PENDING", "RUNNING"} => state = h.s
    <2>1. stale' = (stale \/ /\ th = "handler" /\ state # h.s
                             /\ h.s \in {"START_PENDING", "RUNNING"})
        BY Zenon DEF Service!SetState
    <2> QED
        BY <2>1
<1>5. /\ todo' \in [{"main", "handler"} -> Seq(Service!Steps)]
      /\ todo'[th] = Tail(todo[th])
      /\ \A u \in {"main", "handler"} \ {th} : todo'[u] = todo[u]
    BY <1>1, <1>2, TodoSteps DEF Service!SetState, Service!Then
<1>6. Service!TypeOK'
    <2>1. state' \in Service!States /\ reported' \in Service!States \cup {"none"}
        BY <1>1, <1>2, <1>3 DEF Service!TypeOK, Service!Steps
    <2> QED
        BY <1>1, <1>4, <1>5, <2>1, Zenon DEF Service!TypeOK
<1>7. \A s : Left(s)' = Left(s)
    BY <1>1 DEF Left
<1>8. \A s : todo[th] \in Left(s) =>
               /\ h.s = s /\ h.op \in {"report", "store"}
               /\ todo'[th] \in Left(s)
               /\ h.op = "store" <=> todo'[th] = <<>>
               /\ mode # "service" => h.op = "store"
    BY <1>1, <1>5, LeftParts
<1>9. ASSUME ~asked', ~stale' PROVE Unasked'
    <2>1. Unasked
        BY <1>1, <1>4, <1>9 DEF ServiceInv
    <2>2. CASE th = "main"
        BY <1>1, <1>3, <1>5, <1>7, <1>8, <2>1, <2>2 DEF Unasked
    <2>3. CASE th = "handler"
        <3>1. /\ stage = "loop" /\ mode = "service"
              /\ todo[th] \in Left("START_PENDING") \cup Left("RUNNING")
            BY <1>1, <2>1, <2>3 DEF Unasked
        <3>2. state = h.s /\ state' = state
            BY <1>3, <1>4, <1>8, <1>9, <2>3, <3>1
        <3> QED
            BY <1>1, <1>3, <1>5, <1>7, <1>8, <2>1, <2>3, <3>1, <3>2 DEF Unasked
    <2> QED
        BY <2>2, <2>3
<1>10. ASSUME mode' = "service", ~Over' PROVE NotOver'
    <2>1. NotOver
        BY <1>1, <1>10 DEF ServiceInv, Over
    <2>2. CASE th = "main" /\ stage = "init"
        <3>1. todo[th] \in Left("START_PENDING")
            BY <2>1, <2>2 DEF NotOver
        <3> QED
            BY <1>1, <1>3, <1>5, <1>7, <1>8, <2>1, <2>2, <3>1 DEF NotOver
    <2>3. CASE th = "main" /\ stage # "init"
        <3>1. stage \in {"loop", "uninit"} /\ todo[th] \in Left("RUNNING")
            BY <1>1, <2>1, <2>3 DEF NotOver
        <3>2. state' \in {"START_PENDING", "RUNNING"} /\ reported' # "STOPPED"
            BY <1>3, <1>8, <2>1, <3>1 DEF NotOver
        <3> QED
            BY <1>1, <1>5, <1>7, <1>8, <2>1, <2>3, <3>1, <3>2 DEF NotOver
    <2>4. CASE th = "handler"
        <3>1. stage \in {"loop", "uninit"}
            BY <1>1, <2>1, <2>4 DEF NotOver
        <3>2. PICK s \in {"START_PENDING", "RUNNING"} : todo[th] \in Left(s)
            BY <1>1, <2>1, <2>4 DEF NotOver
        <3>3. state' \in {"START_PENDING", "RUNNING"} /\ reported' # "STOPPED"
            BY <1>3, <1>8, <2>1, <3>1, <3>2 DEF NotOver
        <3> QED
            BY <1>1, <1>5, <1>7, <1>8, <2>1, <2>4, <3>1, <3>2, <3>3 DEF NotOver
    <2> QED
        BY <2>2, <2>3, <2>4
<1> QED
    BY <1>1, <1>6, <1>9, <1>10 DEF ServiceInv, Cleanup

LEMMA ReturnInv == ASSUME ServiceInv, Service!Return, UNCHANGED killer PROVE ServiceInv'
<1>1. /\ UNCHANGED <<mode, stage, state, reported, todo, controls, asked, stale,
                     stopped, cleaned>>
      /\ alive' = FALSE
      /\ IF mode = "service" THEN reported = "STOPPED" ELSE stage = "done"
    BY DEF Service!Return, Service!At
<1>2. Service!TypeOK'
    BY <1>1, Zenon DEF ServiceInv, Service!TypeOK
<1>3. CASE mode = "service"
    <2>1. Over
        BY <1>1, <1>3 DEF ServiceInv, NotOver
    <2> QED
        BY <1>1, <1>2, <1>3, <2>1
        DEF ServiceInv, Over, NotOver, Unasked, Left, Cleanup, Service!CutShort
<1>4. CASE mode # "service"
    BY <1>1, <1>2, <1>4 DEF ServiceInv, Over, NotOver, Unasked, Left, Cleanup
<1> QED
    BY <1>3, <1>4

LEMMA NotConnectedInv ==
    ASSUME ServiceInv, Service!NotConnected PROVE ServiceInv'
<1>1. /\ UNCHANGED <<mode, stage, state, reported, todo, controls, asked, stale,
                     stopped, cleaned>>
      /\ alive' = FALSE /\ stage = "begin"
    BY DEF Service!NotConnected, Service!At
<1>2. Service!TypeOK'
    BY <1>1, Zenon DEF ServiceInv, Service!TypeOK
<1> QED
    BY <1>1, <1>2 DEF ServiceInv, Over, NotOver, Unasked, Left, Cleanup

\* A step of CrashDump changes nothing of the service, and may end the process.
LEMMA DumpLeaves ==
    ASSUME ServiceInv, UNCHANGED svars, alive' \in BOOLEAN,
           killer # {} => killer' # {},
           alive' = alive \/ killer' # {}
    PROVE  ServiceInv'
<1>1. Service!TypeOK'
    BY Zenon DEF ServiceInv, Service!TypeOK, svars
<1> QED
    BY <1>1 DEF ServiceInv, Over, NotOver, Unasked, Left, Cleanup, Service!CutShort, svars

----------------------------------------------------------------------------
(* What the report of a thread holds when it is through with a part of it. *)
Name(t) == Dump!Ecode(Dump!Code(cause[t]))
Headed(t) == Dump!Told(t, Name(t))
Traced(t) == Dump!Told(t, "trace") \/ t \in mixed
Dumped(t) == Dump!Told(t, "failed") \/ number[t] \in dmp

Numbered(t) == number[t] \in Dump!Numbers

Reported(t) ==
    /\ pc[t] # "up" => cause[t] # "none"
    /\ pc[t] = "count" => number[t] = 0
    /\ pc[t] \in {"head", "trace", "walk", "dump"} => Numbered(t)
    /\ pc[t] \in {"trace", "walk", "dump"} => Headed(t)
    /\ pc[t] = "dump" => Traced(t)
    /\ pc[t] = "end" => \/ cause[t] = "STACK_OVERFLOW" /\ number[t] = 0
                        \/ Numbered(t) /\ Headed(t) /\ Traced(t) /\ Dumped(t)

\* The threads that will take a number.
Counting == {t \in DumpThread : pc[t] = "count"}

\* The invariant of CrashDump.
DumpInv ==
    /\ Dump!TypeOK
    /\ cnt + Cardinality(Counting) <= calls
    /\ \A t \in DumpThread : Reported(t)
    /\ killer # {} => ~alive
    /\ \A t \in killer : pc[t] = "end"

LEMMA CountingFinite == IsFiniteSet(DumpThread) /\ IsFiniteSet(Counting)
<1>1. IsFiniteSet({"main", "handler"})
    <2>1. IsFiniteSet({} \cup {"main"})
        BY FS_EmptySet, FS_AddElement
    <2>2. IsFiniteSet(({} \cup {"main"}) \cup {"handler"})
        BY <2>1, FS_AddElement
    <2> QED
        BY <2>2, ({} \cup {"main"}) \cup {"handler"} = {"main", "handler"}
<1>2. IsFiniteSet(DumpThread)
    BY <1>1, FS_Union, ProcessAssumption DEF DumpThread
<1>3. Counting \subseteq DumpThread
    BY DEF Counting
<1> QED
    BY <1>2, <1>3, FS_Subset

LEMMA StartDump == Init => DumpInv
<1> SUFFICES ASSUME Init PROVE DumpInv
    OBVIOUS
<1>1. /\ alive = TRUE /\ cnt = 0 /\ calls = 0
      /\ pc = [t \in DumpThread |-> "up"]
      /\ cause = [t \in DumpThread |-> "none"]
      /\ number = [t \in DumpThread |-> 0]
      /\ txt = [n \in Dump!Numbers |-> {}] /\ refused = [n \in Dump!Numbers |-> {}]
      /\ dmp = {} /\ mixed = {} /\ killer = {}
    BY DEF Init, Dump!Init, DumpThread
<1>2. Dump!TypeOK
    BY <1>1, ProcessAssumption DEF Dump!TypeOK, DumpThread
<1>3. Counting = {}
    BY <1>1 DEF Counting
<1>4. cnt + Cardinality(Counting) <= calls
    BY <1>1, <1>3, FS_EmptySet
<1>5. \A t \in DumpThread : Reported(t)
    BY <1>1 DEF Reported
<1> QED
    BY <1>1, <1>2, <1>4, <1>5 DEF DumpInv

\* The files, and what they refuse, only grow.
Adding ==
    \A n \in Dump!Numbers : txt[n] \subseteq txt'[n] /\ refused[n] \subseteq refused'[n]

LEMMA ToldStays ==
    ASSUME NEW t \in DumpThread, NEW what, Numbered(t), number'[t] = number[t], Adding,
           Dump!Told(t, what)
    PROVE  Dump!Told(t, what)'
    BY DEF Adding, Dump!Told, Numbered

\* A thread is not disturbed by what another one adds to the files.
LEMMA OthersReported ==
    ASSUME NEW t \in DumpThread, Reported(t), Dump!TypeOK,
           pc'[t] = pc[t], cause'[t] = cause[t], number'[t] = number[t],
           Adding,
           dmp \subseteq dmp', t \in mixed => t \in mixed'
    PROVE  Reported(t)'
<1>1. Name(t)' = Name(t)
    BY DEF Name, Dump!Ecode, Dump!Code
<1>2. Numbered(t)' <=> Numbered(t)
    BY DEF Numbered, Dump!Numbers
<1>3. Numbered(t) => /\ Headed(t) => Headed(t)'
                     /\ Traced(t) => Traced(t)'
                     /\ Dumped(t) => Dumped(t)'
    BY <1>1, ToldStays DEF Headed, Traced, Dumped
<1>4. CASE pc[t] = "end"
    <2>1. \/ cause[t] = "STACK_OVERFLOW" /\ number[t] = 0
          \/ Numbered(t) /\ Headed(t) /\ Traced(t) /\ Dumped(t)
        BY <1>4, Zenon DEF Reported
    <2>2. \/ cause'[t] = "STACK_OVERFLOW" /\ number'[t] = 0
          \/ Numbered(t)' /\ Headed(t)' /\ Traced(t)' /\ Dumped(t)'
        BY <1>2, <1>3, <2>1
    <2>3. pc'[t] # "up" => cause'[t] # "none"
        BY DEF Reported
    <2> QED
        BY <1>4, <2>2, <2>3 DEF Reported
<1>5. CASE pc[t] # "end"
    <2>1. pc'[t] \in {"head", "trace", "walk", "dump"} => Numbered(t)'
        BY <1>2 DEF Reported
    <2>2. pc'[t] \in {"trace", "walk", "dump"} => Headed(t)'
        BY <1>3 DEF Reported
    <2>3. pc'[t] = "dump" => Traced(t)'
        BY <1>3 DEF Reported
    <2>4. /\ pc'[t] # "up" => cause'[t] # "none"
          /\ pc'[t] = "count" => number'[t] = 0
        BY DEF Reported
    <2> QED
        BY <1>5, <2>1, <2>2, <2>3, <2>4 DEF Reported
<1> QED
    BY <1>4, <1>5

\* What the files may hold and refuse.
Filed == txt \in [Dump!Numbers -> SUBSET Dump!Notes]
         /\ refused \in [Dump!Numbers -> SUBSET Dump!Notes]

\* A write that fails, or a file that does not open.
LEMMA RefuseAdds ==
    ASSUME Dump!TypeOK, NEW t \in DumpThread, Numbered(t), NEW what \in Dump!Notes,
           Dump!Refuse(t, what), UNCHANGED number
    PROVE  /\ Filed' /\ Adding
           /\ what \in refused'[number'[t]]
    BY DEF Dump!TypeOK, Dump!Refuse, Numbered, Filed, Adding

\* Note only ever adds to the files, and tells what it is called with.
LEMMA NoteAdds ==
    ASSUME Dump!TypeOK, NEW t \in DumpThread, Numbered(t), NEW what \in Dump!Notes,
           Dump!Note(t, what), UNCHANGED number
    PROVE  /\ Filed' /\ Adding
           /\ Dump!Told(t, what)'
<1>1. CASE Dump!Refuse(t, what)
    BY <1>1, RefuseAdds DEF Dump!Told
<1>2. CASE "open" \in refused[number[t]] /\ UNCHANGED <<txt, refused>>
    BY <1>2 DEF Dump!TypeOK, Dump!Told, Filed, Adding
<1>3. CASE /\ txt' = [txt EXCEPT ![number[t]] = @ \cup {what}]
           /\ UNCHANGED refused
    BY <1>3 DEF Dump!TypeOK, Dump!Told, Numbered, Filed, Adding
<1> QED
    BY <1>1, <1>2, <1>3 DEF Dump!Note

LEMMA CountingCard ==
    ASSUME NEW t \in DumpThread
    PROVE  /\ Cardinality(Counting) \in Nat
           /\ t \notin Counting => Cardinality(Counting \cup {t}) = Cardinality(Counting) + 1
           /\ t \in Counting => Cardinality(Counting \ {t}) = Cardinality(Counting) - 1
    BY CountingFinite, FS_CardinalityType, FS_AddElement, FS_RemoveElement

\* A step of the thread t that keeps its own report.
LEMMA DumpStep ==
    ASSUME DumpInv, NEW t \in DumpThread, alive, Dump!TypeOK', Reported(t)',
           \A u \in DumpThread \ {t} :
               /\ pc'[u] = pc[u] /\ cause'[u] = cause[u] /\ number'[u] = number[u]
               /\ u \in mixed => u \in mixed',
           Adding,
           dmp \subseteq dmp',
           UNCHANGED killer \/ (killer' = {t} /\ ~alive' /\ pc'[t] = "end"),
           (cnt + Cardinality(Counting) <= calls)'
    PROVE  DumpInv'
<1>1. \A u \in DumpThread : Reported(u)'
    <2> SUFFICES ASSUME NEW u \in DumpThread, u # t PROVE Reported(u)'
        OBVIOUS
    <2>1. Reported(u) /\ Dump!TypeOK
        BY DEF DumpInv
    <2> QED
        BY <2>1, OthersReported
<1>2. killer = {}
    BY DEF DumpInv
<1>3. killer' # {} => ~alive'
    BY <1>2
<1>4. \A u \in killer' : pc'[u] = "end"
    BY <1>2
<1> QED
    BY <1>1, <1>3, <1>4 DEF DumpInv

LEMMA EnterDump ==
    ASSUME DumpInv, NEW t \in DumpThread, NEW c \in Crashes \cup {"dump"}, Dump!Enter(t, c)
    PROVE  DumpInv'
<1>1. /\ Dump!TypeOK /\ alive /\ pc[t] = "up" /\ calls < MaxDump /\ calls' = calls + 1
      /\ cause' = [cause EXCEPT ![t] = c]
      /\ number' = [number EXCEPT ![t] = 0]
      /\ pc' = [pc EXCEPT ![t] = "count"]
      /\ mixed' = mixed \ {t}
      /\ UNCHANGED <<alive, cnt, txt, refused, dmp, killer>>
    BY DEF DumpInv, Dump!Enter, Dump!In, Dump!Goto
<1>2. Dump!TypeOK'
    BY <1>1, ProcessAssumption DEF Dump!TypeOK, DumpThread
<1>3. Counting' = Counting \cup {t} /\ t \notin Counting
    BY <1>1 DEF Counting, Dump!TypeOK, DumpThread
<1>4. (cnt + Cardinality(Counting) <= calls)'
    <2>1. cnt + Cardinality(Counting) <= calls /\ cnt \in Nat /\ calls \in Nat
        BY <1>1, ProcessAssumption DEF DumpInv, Dump!TypeOK
    <2> QED
        BY <1>1, <1>3, <2>1, CountingCard
<1>5. Reported(t)'
    BY <1>1, ProcessAssumption DEF Reported, Dump!TypeOK, DumpThread
<1> QED
    BY <1>1, <1>2, <1>4, <1>5, DumpStep DEF Adding, Dump!TypeOK, DumpThread

LEMMA NoHelperDump ==
    ASSUME DumpInv, NEW t \in DumpThread, Dump!NoHelper(t) PROVE DumpInv'
<1>1. /\ Dump!TypeOK /\ alive /\ pc[t] = "count" /\ cause[t] = "STACK_OVERFLOW"
      /\ pc' = [pc EXCEPT ![t] = "end"]
      /\ UNCHANGED <<alive, cnt, calls, cause, number, txt, refused, dmp, mixed, killer>>
    BY DEF DumpInv, Dump!NoHelper, Dump!In, Dump!Goto
<1>2. Dump!TypeOK'
    BY <1>1 DEF Dump!TypeOK, DumpThread
<1>3. Counting' = Counting \ {t} /\ t \in Counting
    BY <1>1 DEF Counting, Dump!TypeOK, DumpThread
<1>4. (cnt + Cardinality(Counting) <= calls)'
    <2>1. cnt + Cardinality(Counting) <= calls /\ cnt \in Nat /\ calls \in Nat
        BY <1>1, ProcessAssumption DEF DumpInv, Dump!TypeOK
    <2> QED
        BY <1>1, <1>3, <2>1, CountingCard
<1>5. Reported(t)'
    BY <1>1 DEF DumpInv, Reported, Dump!TypeOK, DumpThread
<1> QED
    BY <1>1, <1>2, <1>4, <1>5, DumpStep DEF Adding, Dump!TypeOK, DumpThread

LEMMA CountDump ==
    ASSUME DumpInv, NEW t \in DumpThread, Dump!Count(t) PROVE DumpInv'
<1>1. /\ Dump!TypeOK /\ alive /\ pc[t] = "count" /\ cnt' = cnt + 1
      /\ number' = [number EXCEPT ![t] = cnt + 1]
      /\ pc' = [pc EXCEPT ![t] = "head"]
      /\ UNCHANGED <<alive, calls, cause, txt, refused, dmp, mixed, killer>>
      /\ cause[t] # "none"
    BY DEF DumpInv, Dump!Count, Dump!In, Dump!Goto, Reported
<1>2. Counting' = Counting \ {t} /\ t \in Counting
    BY <1>1 DEF Counting, Dump!TypeOK, DumpThread
<1>3. cnt + Cardinality(Counting) <= calls /\ cnt \in Nat /\ calls \in 0..MaxDump
    BY <1>1 DEF DumpInv, Dump!TypeOK
<1>4. (cnt + Cardinality(Counting) <= calls)'
    BY <1>1, <1>2, <1>3, CountingCard
\* t itself is still counted, so the number it takes is one of the calls.
<1>5. cnt + 1 \in Dump!Numbers
    <2>1. Cardinality(Counting) >= 1
        <3>1. Cardinality(Counting \ {t}) \in Nat
            BY CountingFinite, FS_CardinalityType, FS_RemoveElement
        <3> QED
            BY <1>2, <3>1, CountingCard
    <2>2. Cardinality(Counting) \in Nat /\ MaxDump \in Nat
        BY CountingFinite, FS_CardinalityType, ProcessAssumption
    <2>3. cnt + 1 <= MaxDump
        BY <1>3, <2>1, <2>2
    <2> QED
        BY <1>3, <2>2, <2>3 DEF Dump!Numbers
<1>6. Dump!TypeOK'
    BY <1>1, <1>5, ProcessAssumption DEF Dump!TypeOK, DumpThread, Dump!Numbers
<1>7. Reported(t)'
    BY <1>1, <1>5 DEF Reported, Numbered, Dump!TypeOK, DumpThread, Dump!Numbers
<1> QED
    BY <1>1, <1>4, <1>6, <1>7, DumpStep DEF Adding, Dump!TypeOK, DumpThread

\* The steps of t after Count: nobody starts or stops counting.
LEMMA LaterDump ==
    ASSUME DumpInv, NEW t \in DumpThread, alive, Dump!TypeOK',
           pc[t] # "count", NEW l \in {"up", "trace", "walk", "dump", "end"},
           pc' = [pc EXCEPT ![t] = l],
           UNCHANGED <<alive, cnt, calls, cause, number, killer>>,
           \A u \in DumpThread : u \in mixed => u \in mixed',
           Adding,
           dmp \subseteq dmp', Reported(t)'
    PROVE  DumpInv'
<1>1. Counting' = Counting
    BY DEF Counting, DumpInv, Dump!TypeOK, DumpThread
<1>2. (cnt + Cardinality(Counting) <= calls)'
    BY <1>1 DEF DumpInv
<1> QED
    BY <1>2, DumpStep DEF DumpInv, Dump!TypeOK, DumpThread

\* What the code names a crash is a note.
LEMMA NameNoted == ASSUME Dump!TypeOK, NEW t \in DumpThread, cause[t] # "none"
                   PROVE  Name(t) \in Dump!Notes
    BY DEF Name, Dump!Notes, Dump!TypeOK, DumpThread

LEMMA WriteHeadDump ==
    ASSUME DumpInv, NEW t \in DumpThread, Dump!WriteHead(t)
    PROVE  DumpInv'
<1>1. /\ Dump!TypeOK /\ alive /\ pc[t] = "head" /\ Numbered(t) /\ cause[t] # "none"
      /\ pc' = [pc EXCEPT ![t] = "trace"]
      /\ UNCHANGED <<alive, cnt, calls, cause, number, dmp, mixed, killer>>
    BY DEF DumpInv, Dump!WriteHead, Dump!In, Dump!Goto, Reported
<1>2. Dump!Refuse(t, "open") \/ Dump!Note(t, Name(t))
    BY DEF Dump!WriteHead, Name
<1>3. Name(t) \in Dump!Notes /\ "open" \in Dump!Notes
    BY <1>1, NameNoted DEF Dump!Notes
<1>4. Filed' /\ Adding /\ Dump!Told(t, Name(t))'
    <2>1. CASE Dump!Refuse(t, "open")
        BY <1>1, <1>3, <2>1, RefuseAdds DEF Dump!Told
    <2>2. CASE Dump!Note(t, Name(t))
        <3>1. PICK what \in Dump!Notes : what = Name(t) /\ Dump!Note(t, what)
            BY <1>3, <2>2
        <3>2. Filed' /\ Adding /\ Dump!Told(t, what)'
            BY <1>1, <3>1, NoteAdds
        <3>3. what = Name(t)'
            BY <1>1, <3>1 DEF Name, Dump!Code, Dump!Ecode
        <3> QED
            BY <3>2, <3>3, Zenon DEF Dump!Told
    <2> QED
        BY <1>2, <2>1, <2>2
<1>5. Dump!TypeOK'
    BY <1>1, <1>4 DEF Dump!TypeOK, DumpThread, Filed, Dump!Numbers, Dump!Notes
<1>6. Headed(t)' /\ Numbered(t)'
    BY <1>1, <1>4 DEF Headed, Numbered, Dump!Numbers
<1>7. pc'[t] = "trace"
    BY <1>1 DEF Dump!TypeOK, DumpThread
<1>8. Reported(t)'
    BY <1>1, <1>6, <1>7 DEF Reported
<1> QED
    BY <1>1, <1>4, <1>5, <1>8, LaterDump

LEMMA BeginTraceDump ==
    ASSUME DumpInv, NEW t \in DumpThread, Dump!BeginTrace(t)
    PROVE  DumpInv'
<1>1. /\ Dump!TypeOK /\ alive /\ pc[t] = "trace" /\ Numbered(t) /\ Headed(t)
      /\ cause[t] # "none"
      /\ pc' = [pc EXCEPT ![t] = "walk"]
      /\ UNCHANGED <<alive, cnt, calls, cause, number, txt, refused, dmp, killer>>
    BY DEF DumpInv, Dump!BeginTrace, Dump!In, Dump!Goto, Reported
<1>2. mixed \subseteq mixed' /\ mixed' \subseteq DumpThread
    BY <1>1 DEF Dump!BeginTrace, Dump!TypeOK, DumpThread
<1>3. Dump!TypeOK'
    BY <1>1, <1>2 DEF Dump!TypeOK, DumpThread
<1>4. Headed(t)' /\ Numbered(t)' /\ pc'[t] = "walk"
    BY <1>1 DEF Headed, Dump!Told, Name, Dump!Code, Dump!Ecode, Numbered, Dump!Numbers,
                Dump!TypeOK, DumpThread
<1>5. Reported(t)'
    BY <1>1, <1>4 DEF Reported
<1> QED
    BY <1>1, <1>2, <1>3, <1>5, LaterDump DEF Adding

LEMMA WriteTraceDump ==
    ASSUME DumpInv, NEW t \in DumpThread, Dump!WriteTrace(t)
    PROVE  DumpInv'
<1>1. /\ Dump!TypeOK /\ alive /\ pc[t] = "walk" /\ Numbered(t) /\ Headed(t)
      /\ cause[t] # "none"
      /\ pc' = [pc EXCEPT ![t] = "dump"]
      /\ UNCHANGED <<alive, cnt, calls, cause, number, dmp, mixed, killer>>
    BY DEF DumpInv, Dump!WriteTrace, Dump!In, Dump!Goto, Reported
<1>2. PICK what \in {"trace", "garbled"} :
          Dump!Note(t, what) /\ (what = "trace" \/ t \in mixed)
    BY DEF Dump!WriteTrace
<1>3. what \in Dump!Notes
    BY DEF Dump!Notes
<1>4. Filed' /\ Adding /\ Dump!Told(t, what)'
    BY <1>1, <1>2, <1>3, NoteAdds
<1>5. Dump!TypeOK'
    BY <1>1, <1>4 DEF Dump!TypeOK, DumpThread, Filed, Dump!Numbers, Dump!Notes
<1>6. Headed(t)' /\ Numbered(t)'
    <2>1. Numbered(t)' /\ Name(t)' = Name(t)
        BY <1>1 DEF Name, Dump!Code, Dump!Ecode, Numbered, Dump!Numbers
    <2> QED
        BY <1>1, <1>4, <2>1, ToldStays DEF Headed
<1>7. Traced(t)' /\ pc'[t] = "dump"
    BY <1>1, <1>2, <1>4 DEF Traced, Dump!TypeOK, DumpThread
<1>8. Reported(t)'
    BY <1>1, <1>6, <1>7 DEF Reported
<1> QED
    BY <1>1, <1>4, <1>5, <1>8, LaterDump

LEMMA WriteDumpDump ==
    ASSUME DumpInv, NEW t \in DumpThread, Dump!WriteDump(t)
    PROVE  DumpInv'
<1>1. /\ Dump!TypeOK /\ alive /\ pc[t] = "dump" /\ Numbered(t) /\ Headed(t) /\ Traced(t)
      /\ cause[t] # "none"
      /\ pc' = [pc EXCEPT ![t] = "end"]
      /\ UNCHANGED <<alive, cnt, calls, cause, number, mixed, killer>>
    BY DEF DumpInv, Dump!WriteDump, Dump!In, Dump!Goto, Reported
<1>2. /\ Filed' /\ dmp' \subseteq Dump!Numbers
      /\ Adding /\ dmp \subseteq dmp'
      /\ Dumped(t)'
    <2>1. CASE dmp' = dmp \cup {number[t]} /\ UNCHANGED <<txt, refused>>
        BY <1>1, <2>1
        DEF Dumped, Numbered, Filed, Adding, Dump!TypeOK, Dump!Numbers, Dump!Notes
    <2>2. CASE Dump!Note(t, "failed") /\ UNCHANGED dmp
        <3>1. "failed" \in Dump!Notes
            BY DEF Dump!Notes
        <3> QED
            BY <1>1, <2>2, <3>1, NoteAdds DEF Dumped, Dump!TypeOK, Dump!Numbers
    <2> QED
        BY <2>1, <2>2 DEF Dump!WriteDump
<1>3. Dump!TypeOK'
    BY <1>1, <1>2 DEF Dump!TypeOK, DumpThread, Filed, Dump!Numbers, Dump!Notes
<1>4. Headed(t)' /\ Traced(t)' /\ Numbered(t)' /\ pc'[t] = "end"
    <2>1. Numbered(t)' /\ pc'[t] = "end" /\ Name(t)' = Name(t)
        BY <1>1 DEF Name, Dump!Code, Dump!Ecode, Numbered, Dump!Numbers, Dump!TypeOK,
                    DumpThread
    <2> QED
        BY <1>1, <1>2, <2>1, ToldStays DEF Headed, Traced
<1>5. Reported(t)'
    BY <1>1, <1>2, <1>4 DEF Reported
<1> QED
    BY <1>1, <1>2, <1>3, <1>5, LaterDump

LEMMA FinishDump ==
    ASSUME DumpInv, NEW t \in DumpThread, Dump!Finish(t)
    PROVE  DumpInv'
<1>1. /\ Dump!TypeOK /\ alive /\ pc[t] = "end" /\ Reported(t)
      /\ UNCHANGED <<cnt, calls, cause, number, txt, refused, dmp, mixed>>
    BY DEF DumpInv, Dump!Finish, Dump!In
<1>2. CASE cause[t] = "dump"
    <2>1. pc' = [pc EXCEPT ![t] = "up"] /\ UNCHANGED <<alive, killer>>
        BY <1>2 DEF Dump!Finish, Dump!Goto
    <2>2. Dump!TypeOK'
        BY <1>1, <2>1 DEF Dump!TypeOK, DumpThread
    <2>3. Reported(t)'
        BY <1>1, <2>1 DEF Reported, Dump!TypeOK, DumpThread
    <2> QED
        BY <1>1, <2>1, <2>2, <2>3, LaterDump DEF Adding
<1>3. CASE cause[t] # "dump"
    <2>1. alive' = FALSE /\ killer' = {t} /\ UNCHANGED pc
        BY <1>3 DEF Dump!Finish
    <2>2. Dump!TypeOK'
        BY <1>1, <2>1 DEF Dump!TypeOK, DumpThread
    <2>3. Reported(t)'
        BY <1>1, <2>1, <2>2, OthersReported DEF Adding, Dump!TypeOK
    <2>4. Counting' = Counting
        BY <2>1 DEF Counting
    <2>5. (cnt + Cardinality(Counting) <= calls)'
        BY <1>1, <2>4 DEF DumpInv
    <2> QED
        BY <1>1, <2>1, <2>2, <2>3, <2>5, DumpStep DEF Adding
<1> QED
    BY <1>2, <1>3

\* A step of the service changes nothing of CrashDump, and may end the process.
LEMMA ServiceLeaves ==
    ASSUME DumpInv, UNCHANGED cvars, alive' \in BOOLEAN, alive' => alive
    PROVE  DumpInv'
<1>1. Dump!TypeOK'
    BY DEF DumpInv, Dump!TypeOK, cvars
<1>2. \A t \in DumpThread : Reported(t)'
    BY OthersReported DEF Adding, DumpInv, cvars
<1>3. Counting' = Counting
    BY DEF Counting, cvars
<1> QED
    BY <1>1, <1>2, <1>3 DEF DumpInv, cvars

----------------------------------------------------------------------------
LEMMA Start == Init => ServiceInv /\ DumpInv
    BY StartService, StartDump

LEMMA ServeInv == ASSUME ServiceInv, DumpInv, Serve PROVE ServiceInv' /\ DumpInv'
<1>1. ServiceInv'
    BY BeginInv, InitedInv, RoundInv, UninitInv, SetStateInv DEF Serve, Service!Main
<1>2. UNCHANGED <<alive, cvars>>
    BY DEF Serve, Service!Main, Service!Begin, Service!Inited, Service!Round,
           Service!Uninit, Service!SetState
<1> QED
    BY <1>1, <1>2, ServiceLeaves DEF DumpInv, Dump!TypeOK

LEMMA ControlInv == ASSUME ServiceInv, DumpInv, Control PROVE ServiceInv' /\ DumpInv'
<1>1. ServiceInv'
    BY StopInv, RepeatInv DEF Control
<1>2. UNCHANGED <<alive, cvars>>
    BY DEF Control, Service!Stop, Service!Repeat
<1> QED
    BY <1>1, <1>2, ServiceLeaves DEF DumpInv, Dump!TypeOK

LEMMA HandleInv == ASSUME ServiceInv, DumpInv, Handle PROVE ServiceInv' /\ DumpInv'
<1>1. ServiceInv'
    BY SetStateInv DEF Handle, Service!Handler
<1>2. UNCHANGED <<alive, cvars>>
    BY DEF Handle, Service!Handler, Service!SetState
<1> QED
    BY <1>1, <1>2, ServiceLeaves DEF DumpInv, Dump!TypeOK

LEMMA LeaveInv == ASSUME ServiceInv, DumpInv, Leave PROVE ServiceInv' /\ DumpInv'
<1>1. UNCHANGED cvars /\ alive' = FALSE
    BY DEF Leave, Service!Return, Service!NotConnected
<1>2. ServiceInv'
    BY <1>1, ReturnInv, NotConnectedInv DEF Leave, cvars
<1> QED
    BY <1>1, <1>2, ServiceLeaves

\* Whatever a thread does in CrashDump.
LEMMA ThreadInv ==
    ASSUME ServiceInv, DumpInv, NEW t \in DumpThread, Fail(t) \/ Ask(t) \/ Report(t)
    PROVE  ServiceInv' /\ DumpInv'
<1>1. DumpInv'
    BY EnterDump, NoHelperDump, CountDump, WriteHeadDump, BeginTraceDump, WriteTraceDump,
       WriteDumpDump, FinishDump
    DEF Fail, Ask, Report, Dump!Crash, Dump!Ask, Dump!Run
<1>2. (UNCHANGED <<alive, killer>> \/ (alive' = FALSE /\ killer' = {t})) /\ UNCHANGED svars
    BY DEF Fail, Ask, Report, Dump!Crash, Dump!Ask, Dump!Run, Dump!Enter, Dump!NoHelper,
           Dump!Count, Dump!WriteHead, Dump!BeginTrace, Dump!WriteTrace, Dump!WriteDump,
           Dump!Finish
<1>3. ServiceInv'
    <2>1. alive' \in BOOLEAN
        BY <1>1 DEF DumpInv, Dump!TypeOK
    <2> QED
        BY <1>2, <2>1, DumpLeaves
<1> QED
    BY <1>1, <1>3

LEMMA StepInv == ServiceInv /\ DumpInv /\ [Next]_vars => ServiceInv' /\ DumpInv'
<1> SUFFICES ASSUME ServiceInv, DumpInv, [Next]_vars PROVE ServiceInv' /\ DumpInv'
    OBVIOUS
<1>1. CASE Serve \/ Control \/ Handle \/ Leave
    BY <1>1, ServeInv, ControlInv, HandleInv, LeaveInv
<1>2. ASSUME NEW t \in Threads, Fail(t) \/ Ask(t) \/ Report(t)
      PROVE  ServiceInv' /\ DumpInv'
    BY <1>2, ThreadInv DEF Threads, DumpThread
<1>3. CASE UNCHANGED vars
    <2>1. UNCHANGED svars /\ UNCHANGED cvars /\ UNCHANGED alive /\ alive \in BOOLEAN
        BY <1>3 DEF vars, DumpInv, Dump!TypeOK
    <2>2. UNCHANGED killer
        BY <2>1 DEF cvars
    <2> QED
        BY <2>1, <2>2, DumpLeaves, ServiceLeaves
<1> QED
    BY <1>1, <1>2, <1>3 DEF Next

\* The invariants of both, together.
THEOREM ProcessInvariant == Spec => [](ServiceInv /\ DumpInv)
    BY Start, StepInv, PTL DEF Spec

\* Numbers, names of files and set_state stay what they are meant to be.
THEOREM TypeCorrect == Spec => []TypeOK
<1>1. ServiceInv /\ DumpInv => TypeOK
    BY DEF ServiceInv, DumpInv, TypeOK
<1> QED
    BY <1>1, ProcessInvariant, PTL

\* A program that ends by itself has called on_uninit, but for the exceptions
\* Cleanup names, whatever controls and dumps there are (win_service.h:146-210).
THEOREM CleanupCorrect == Spec => []Cleanup
<1>1. ServiceInv => Cleanup
    BY DEF ServiceInv
<1> QED
    BY <1>1, ProcessInvariant, PTL

\* The loop of service_main ends for a reason (win_service.h:173-190).
THEOREM EndsIfAskedCorrect == Spec => []EndsIfAsked
<1>1. ServiceInv => EndsIfAsked
    BY DEF ServiceInv, Unasked, EndsIfAsked, Service!EndsIfAsked
<1> QED
    BY <1>1, ProcessInvariant, PTL

\* The crash that ends the process has told its name, its stack trace and its dump,
\* or why there is none, as far as the .txt opened and took what was written, however
\* many threads crash or ask for dumps at once (crash_dump.h:124-153, 295-378).  Not so
\* where LastWord says: without the helper thread, SIGINT and SIGTERM, which are told
\* under each other's name, and the trace beside another thread's.
THEOREM LastWordCorrect == Spec => []LastWord
<1>1. DumpInv => LastWord
    <2> SUFFICES ASSUME DumpInv, NEW t \in killer
                 PROVE  \/ cause[t] = "STACK_OVERFLOW" /\ number[t] = 0
                        \/ /\ \/ Dump!Told(t, Dump!Ecode(cause[t]))
                              \/ /\ cause[t] \in {"SIGINT", "SIGTERM"}
                                 /\ Dump!Told(t, Name(t))
                           /\ Dump!Told(t, "trace") \/ t \in mixed
                           /\ number[t] \in dmp \/ Dump!Told(t, "failed")
        BY DEF LastWord, Dump!LastWord, Name
    <2>1. t \in DumpThread /\ pc[t] = "end"
        BY DEF DumpInv, Dump!TypeOK, DumpThread
    <2>2. \/ cause[t] = "STACK_OVERFLOW" /\ number[t] = 0
          \/ Headed(t) /\ Traced(t) /\ Dumped(t)
        BY <2>1 DEF DumpInv, Reported
    <2>3. cause[t] \in {"SIGINT", "SIGTERM"} \/ Name(t) = Dump!Ecode(cause[t])
        BY DEF Name, Dump!Code
    <2> QED
        BY <2>2, <2>3 DEF Headed, Traced, Dumped
<1> QED
    BY <1>1, ProcessInvariant, PTL
============================================================================
