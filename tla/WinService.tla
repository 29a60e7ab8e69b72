---------------------------- MODULE WinService ----------------------------
(***************************************************************************)
(* WinService (util/win_service.h): run() drives the program's Event from  *)
(* the console, on Linux, or as a Windows service.  A service has two      *)
(* threads on Conf::state_: service_main, and the dispatcher's, which runs *)
(* handler(); set_state tells the service manager (external) first and     *)
(* stores the state afterwards.                                            *)
(***************************************************************************)
EXTENDS Naturals, Sequences

CONSTANTS
    Modes,      \* "console", "service", "linux"
    MaxControl  \* bound on the controls sent

VARIABLES
    mode,
    alive,     \* the process exists
    stage,     \* where service_main is (on Linux: run itself)
    state,     \* Conf::state_
    reported,  \* what the service manager was told last
    todo,      \* what is left of a set_state in "main" and in "handler"
    controls,  \* history: controls sent
    asked,     \* history: a control, on_running or ESC has asked for the end
    stale,     \* history: handler stored a state that was no longer current
    stopped,   \* history: a STOP was accepted in the state RUNNING
    cleaned    \* history: on_uninit has returned

svars == <<mode, alive, stage, state, reported, todo, controls, asked, stale,
           stopped, cleaned>>

\* set_state(s), to be carried out in two steps.
Set(s) ==
    IF mode = "service"
    THEN <<[op |-> "report", s |-> s], [op |-> "store", s |-> s]>>
    ELSE <<[op |-> "store", s |-> s]>>

Goto(l) == stage' = l
Busy(th) == todo[th] # <<>>
\* service_main goes on when its set_state is over, as long as there is a process.
At(l) == alive /\ stage = l /\ ~Busy("main")
Then(th, s) == todo' = [todo EXCEPT ![th] = s]

Init ==
    /\ mode \in Modes
    /\ alive = TRUE
    /\ stage = "begin"
    /\ state = "STOPPED" /\ reported = "none"
    /\ todo = [th \in {"main", "handler"} |-> <<>>]
    /\ controls = 0
    /\ asked = FALSE /\ stale = FALSE /\ stopped = FALSE /\ cleaned = FALSE
----------------------------------------------------------------------------
\* run, in a process the service manager has not started.
NotConnected ==
    /\ At("begin") /\ mode = "service"
    /\ alive' = FALSE
    /\ UNCHANGED <<mode, stage, state, reported, todo, controls, asked, stale,
                   stopped, cleaned>>

\* service_main up to the call of on_init; registering the handler may fail.
Begin ==
    /\ At("begin")
    /\ \/ /\ Goto("init")
          /\ Then("main", IF mode = "linux" THEN <<>> ELSE Set("START_PENDING"))
       \/ /\ mode = "service"
          /\ Goto("fail")
          /\ UNCHANGED todo
    /\ UNCHANGED <<mode, alive, state, reported, controls, asked, stale,
                   stopped, cleaned>>

\* Mutants of Inited: on_uninit is not called after a failure; RUNNING is not
\* set.
InitedDone ==
    /\ At("init")
    /\ \/ /\ Goto("loop")
          /\ Then("main", IF mode = "linux" THEN <<>> ELSE Set("RUNNING"))
       \/ Goto("done") /\ UNCHANGED todo
    /\ UNCHANGED <<mode, alive, state, reported, controls, asked, stale,
                   stopped, cleaned>>
InitedPending ==
    /\ At("init")
    /\ Goto("loop") \/ Goto("fail")
    /\ UNCHANGED <<mode, alive, state, reported, todo, controls, asked, stale,
                   stopped, cleaned>>

\* on_init returns.
Inited ==
    /\ At("init")
    /\ \/ /\ Goto("loop")
          /\ Then("main", IF mode = "linux" THEN <<>> ELSE Set("RUNNING"))
       \/ Goto("fail") /\ UNCHANGED todo
    /\ UNCHANGED <<mode, alive, state, reported, controls, asked, stale,
                   stopped, cleaned>>

\* One round of the loop: on_running may want to end, or somebody press ESC.
Round ==
    /\ At("loop")
    /\ \/ mode # "linux" /\ state # "RUNNING" /\ Goto("uninit") /\ UNCHANGED asked
       \/ /\ mode = "linux" \/ state = "RUNNING"
          /\ \/ UNCHANGED <<stage, asked>>
             \/ Goto("uninit") /\ asked' = TRUE
    /\ UNCHANGED <<mode, alive, state, reported, todo, controls, stale,
                   stopped, cleaned>>

\* on_uninit returns; after a failure nobody is told.
Uninit ==
    /\ At("uninit") \/ At("fail")
    /\ cleaned' = TRUE
    /\ Goto("done")
    /\ Then("main", IF stage = "fail" \/ mode = "linux" THEN <<>> ELSE Set("STOPPED"))
    /\ UNCHANGED <<mode, alive, state, reported, controls, asked, stale, stopped>>

\* A step of set_state.
SetState(th) ==
    /\ alive /\ Busy(th)
    /\ LET h == Head(todo[th]) IN
       IF h.op = "report"
       THEN reported' = h.s /\ UNCHANGED state
       ELSE /\ state' = h.s
            /\ UNCHANGED reported
    /\ stale' = (stale \/ /\ th = "handler" /\ state # Head(todo[th]).s
                          /\ Head(todo[th]).s \in {"START_PENDING", "RUNNING"})
    /\ Then(th, Tail(todo[th]))
    /\ UNCHANGED <<mode, alive, stage, controls, asked, stopped, cleaned>>

\* The manager sends STOP to a service that starts or runs.  The codes of
\* controls and of states are numbers: STOP is 1, and so is STOPPED.
Stop ==
    /\ alive /\ ~Busy("handler")
    /\ reported \in {"START_PENDING", "RUNNING"} /\ controls < MaxControl
    /\ controls' = controls + 1
    /\ asked' = TRUE
    /\ stopped' = (stopped \/ state = "RUNNING")
    /\ Then("handler",
            IF state = "STOPPED" THEN <<>> ELSE Set("STOP_PENDING") \o Set("STOPPED"))
    /\ UNCHANGED <<mode, alive, stage, state, reported, stale, cleaned>>

\* Any other control is sent to a service that runs, and repeats the state
\* that handler() reads: INTERROGATE, 4 like RUNNING, unless it reads that.
Repeat ==
    /\ alive /\ ~Busy("handler")
    /\ reported = "RUNNING" /\ controls < MaxControl
    /\ controls' = controls + 1
    /\ \E interrogate \in BOOLEAN :
          Then("handler",
               IF interrogate /\ state = "RUNNING" THEN <<>> ELSE Set(state))
    /\ UNCHANGED <<mode, alive, stage, state, reported, asked, stale, stopped, cleaned>>

\* run returns, and the process with it: from the dispatcher, once the
\* manager knows of STOPPED, whatever service_main is doing then.
Return ==
    /\ alive
    /\ IF mode = "service" THEN reported = "STOPPED" ELSE At("done")
    /\ alive' = FALSE
    /\ UNCHANGED <<mode, stage, state, reported, todo, controls, asked, stale,
                   stopped, cleaned>>

Main == Begin \/ Inited \/ Round \/ Uninit \/ SetState("main")
Handler == SetState("handler")

Next == NotConnected \/ Main \/ Handler \/ Stop \/ Repeat \/ Return

Fairness == WF_svars(Main) /\ WF_svars(Handler) /\ WF_svars(Return)
----------------------------------------------------------------------------
States == {"STOPPED", "START_PENDING", "RUNNING", "STOP_PENDING"}
Steps == [op : {"report", "store"}, s : States]

TypeOK ==
    /\ mode \in Modes
    /\ stage \in {"begin", "init", "loop", "uninit", "fail", "done"}
    /\ state \in States /\ reported \in States \cup {"none"}
    /\ todo \in [{"main", "handler"} -> Seq(Steps)]
    /\ controls \in 0..MaxControl
    /\ alive \in BOOLEAN /\ asked \in BOOLEAN /\ stale \in BOOLEAN
    /\ stopped \in BOOLEAN /\ cleaned \in BOOLEAN

\* The loop ends because on_running, ESC or a STOP wants it to, or because a
\* repeated state has overwritten RUNNING.
EndsIfAsked == stage = "uninit" => asked \/ stale

\* The process goes before on_uninit has returned when the manager has stopped
\* it: handler() reports STOPPED at once.
CutShort == mode = "service" /\ controls > 0 /\ asked
============================================================================
