------------------------------ MODULE Process ------------------------------
(***************************************************************************)
(* A program that WinService drives and that has CrashDump installed.      *)
(* service_main and the dispatcher of the service are two of its threads.  *)
(* A thread that writes a dump does nothing else; the process is gone when *)
(* run() returns, or when a crash has been reported.                       *)
(***************************************************************************)
EXTENDS Naturals, FiniteSets, Sequences

CONSTANTS
    Worker,  \* the threads of the process besides "main" and "handler"
    Crashes, Modes,
    MaxDump, MaxRefuse, MaxControl,
    MaxEvent  \* bound on the dumps and controls together

ASSUME ProcessAssumption ==
    /\ IsFiniteSet(Worker)
    /\ Modes \subseteq {"console", "service", "linux"}
    /\ Crashes \cap {"none", "dump", "open", "trace", "garbled",
                     "failed"} = {}
    /\ MaxDump \in Nat /\ MaxRefuse \in Nat /\ MaxControl \in Nat /\ MaxEvent \in Nat

VARIABLES
    alive,
    mode, stage, state, reported, todo, controls, asked, stale, stopped, cleaned,
    cnt, calls, pc, cause, number, txt, refused, dmp, mixed, killer

Service == INSTANCE WinService
Dump == INSTANCE CrashDump WITH Thread <- Worker \cup {"main", "handler"}

svars == <<mode, stage, state, reported, todo, controls, asked, stale, stopped,
           cleaned>>
cvars == <<cnt, calls, pc, cause, number, txt, refused, dmp, mixed, killer>>
vars == <<alive, svars, cvars>>

Threads == Worker \cup {"main"} \cup (IF mode = "service" THEN {"handler"} ELSE {})

\* The thread that is in run().
Runner == IF mode = "service" THEN "handler" ELSE "main"

Bounded == calls + controls < MaxEvent

Init == Service!Init /\ Dump!Init
----------------------------------------------------------------------------
Serve == Dump!Up("main") /\ Service!Main /\ UNCHANGED cvars

Control ==
    /\ Dump!Up("handler")
    /\ Service!Stop \/ Service!Repeat
    /\ Bounded
    /\ UNCHANGED cvars

Handle == Dump!Up("handler") /\ Service!Handler /\ UNCHANGED cvars

Leave ==
    /\ Dump!Up(Runner)
    /\ Service!Return \/ Service!NotConnected
    /\ UNCHANGED cvars

\* CrashDump does nothing on Linux.
Fail(t) == mode # "linux" /\ Bounded /\ Dump!Crash(t) /\ UNCHANGED svars
Ask(t) == mode # "linux" /\ Bounded /\ Dump!Ask(t) /\ UNCHANGED svars
Report(t) == Dump!Run(t) /\ UNCHANGED svars

Next ==
    \/ Serve \/ Control \/ Handle \/ Leave
    \/ \E t \in Threads : Fail(t) \/ Ask(t) \/ Report(t)

Spec == Init /\ [][Next]_vars

\* Every thread runs, the functions of Event return, and so does the dispatcher
\* when the service has stopped.  Nobody has to crash or to send a control.
FairSpec ==
    /\ Spec
    /\ WF_vars(Serve) /\ WF_vars(Handle)
    /\ WF_vars(Leave /\ Service!Return)
    /\ \A t \in Worker \cup {"main", "handler"} : WF_vars(Report(t))
----------------------------------------------------------------------------
TypeOK == Service!TypeOK /\ Dump!TypeOK

(* win_service.h:57, on_uninit is called when the service ends.  It has    *)
(* returned when the process ends, unless the program crashed, was never   *)
(* started, or is a service that was stopped: handler() reports STOPPED at *)
(* once, and the dispatcher may return before service_main is through.     *)
Cleanup ==
    ~alive => cleaned \/ stage = "begin" \/ killer # {} \/ Service!CutShort

(* The service loop ends on a STOP, on ESC or by on_running, and for no    *)
(* other reason, but for a control that finds set_state between its two    *)
(* writes and puts START_PENDING back over RUNNING.                        *)
EndsIfAsked == Service!EndsIfAsked

(* What must end the process does: a STOP that finds the service running,  *)
(* a crash, and an on_init that fails, except in a service (which reports  *)
(* START_PENDING for good).  A STOP during on_init is lost.                *)
Ends ==
    \/ stopped
    \/ stage = "fail" /\ mode # "service"
    \/ \E t \in Worker \cup {"main", "handler"} : Dump!Crashed(t)
    ~> ~alive

LastWord == Dump!LastWord
============================================================================
