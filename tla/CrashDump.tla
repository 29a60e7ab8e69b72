----------------------------- MODULE CrashDump -----------------------------
(***************************************************************************)
(* CrashDump (util/crash_dump.h) on Windows: a thread that crashes, or     *)
(* calls for a dump, writes a .txt and a .dmp file under a number of its    *)
(* own, in a helper thread when its stack has overflowed; a crash then     *)
(* ends the process, whatever the other threads are at.                    *)
(***************************************************************************)
EXTENDS Naturals, FiniteSets

CONSTANTS
    Thread,
    Crashes,  \* what a thread may crash of: SIGINT, SIGTERM, STACK_OVERFLOW, ...,
              \* or OTHER, a code that has no name here
    MaxDump,  \* bound on the calls of create_dump
    MaxRefuse \* bound on the files that do not open and the writes that fail

VARIABLES
    alive,   \* the process exists
    cnt,     \* cnt_ of run()
    calls,   \* history: calls of create_dump
    pc,      \* where run() is for a thread
    cause,   \* why the thread is in create_dump
    number,  \* cnt in its run(), which is in its file names; 0 before
    txt,     \* what the .txt file with a number holds
    refused, \* history: what it did not take: "open" for all of it, or a note
    dmp,     \* the numbers with a complete .dmp file
    mixed,   \* history: the threads that were in DbgHelp with another one
    killer   \* history: the thread that ended the process

cvars == <<cnt, calls, pc, cause, number, txt, refused, dmp, mixed, killer>>

Numbers == 1..MaxDump

Goto(t, l) == pc' = [pc EXCEPT ![t] = l]
In(t, l) == alive /\ pc[t] = l
Up(t) == pc[t] = "up"

Init ==
    /\ alive = TRUE
    /\ cnt = 0
    /\ calls = 0
    /\ pc = [t \in Thread |-> "up"]
    /\ cause = [t \in Thread |-> "none"]
    /\ number = [t \in Thread |-> 0]
    /\ txt = [n \in Numbers |-> {}] /\ refused = [n \in Numbers |-> {}]
    /\ dmp = {}
    /\ mixed = {}
    /\ killer = {}
----------------------------------------------------------------------------
Enter(t, c) ==
    /\ In(t, "up") /\ calls < MaxDump
    /\ calls' = calls + 1
    /\ cause' = [cause EXCEPT ![t] = c]
    /\ number' = [number EXCEPT ![t] = 0]
    /\ Goto(t, "count")
    /\ mixed' = mixed \ {t}
    /\ UNCHANGED <<alive, cnt, txt, refused, dmp, killer>>

\* A handler of install or install_thread, or the exception filter.
Crash(t) == \E c \in Crashes : Enter(t, c)

\* dump and full_dump.
Ask(t) == Enter(t, "dump")

\* The code the handlers pass on: those of SIGINT and SIGTERM are swapped.
Code(c) ==
    CASE c = "SIGINT" -> "SIGTERM"
      [] c = "SIGTERM" -> "SIGINT"
      [] OTHER -> c

\* The name of a code.
Ecode(code) == IF code = "OTHER" THEN "UNKNOWN" ELSE code

\* The helper thread for an overflowed stack may not start: there is no dump.
NoHelper(t) ==
    /\ In(t, "count") /\ cause[t] = "STACK_OVERFLOW"
    /\ Goto(t, "end")
    /\ UNCHANGED <<alive, cnt, calls, cause, number, txt, refused, dmp, mixed, killer>>

\* run: its number, the head of the .txt, the stack trace, the .dmp.
Count(t) ==
    /\ In(t, "count")
    /\ cnt' = cnt + 1
    /\ number' = [number EXCEPT ![t] = cnt + 1]
    /\ Goto(t, "head")
    /\ UNCHANGED <<alive, calls, cause, txt, refused, dmp, mixed, killer>>

Refuse(t, what) ==
    /\ Cardinality(UNION {{n} \X refused[n] : n \in Numbers}) < MaxRefuse
    /\ refused' = [refused EXCEPT ![number[t]] = @ \cup {what}]
    /\ UNCHANGED txt

\* File::write does not look at what WriteFile returns, and does nothing when
\* the .txt did not open.
Note(t, what) ==
    IF "open" \in refused[number[t]]
    THEN UNCHANGED <<txt, refused>>
    ELSE \/ Refuse(t, what)
         \/ /\ txt' = [txt EXCEPT ![number[t]] = @ \cup {what}]
            /\ UNCHANGED refused

WriteHead(t) ==
    /\ In(t, "head")
    /\ Refuse(t, "open") \/ Note(t, Ecode(Code(cause[t])))
    /\ Goto(t, "trace")
    /\ UNCHANGED <<alive, cnt, calls, cause, number, dmp, mixed, killer>>

\* StackTrace initialises DbgHelp, which is for one thread at a time; nothing
\* keeps a second one out.
BeginTrace(t) ==
    LET others == {u \in Thread \ {t} : pc[u] \in {"walk", "dump"}} IN
    /\ In(t, "trace")
    /\ mixed' = IF others = {} THEN mixed ELSE mixed \cup others \cup {t}
    /\ Goto(t, "walk")
    /\ UNCHANGED <<alive, cnt, calls, cause, number, txt, refused, dmp, killer>>

\* Mutant of WriteTrace: the stack trace is left out.
WriteTraceNot(t) ==
    /\ In(t, "walk")
    /\ Goto(t, "dump")
    /\ UNCHANGED <<alive, cnt, calls, cause, number, txt, refused, dmp, mixed, killer>>

\* The frames and their symbols; with two threads at it, anything at all.
WriteTrace(t) ==
    /\ In(t, "walk")
    /\ Note(t, "trace") \/ (t \in mixed /\ Note(t, "garbled"))
    /\ Goto(t, "dump")
    /\ UNCHANGED <<alive, cnt, calls, cause, number, dmp, mixed, killer>>

WriteDump(t) ==
    /\ In(t, "dump")
    /\ \/ dmp' = dmp \cup {number[t]} /\ UNCHANGED <<txt, refused>>
       \/ Note(t, "failed") /\ UNCHANGED dmp  \* to open it, or to write it
    /\ Goto(t, "end")
    /\ UNCHANGED <<alive, cnt, calls, cause, number, mixed, killer>>

\* Mutant of Finish: the program goes on after a crash.
FinishReturns(t) ==
    /\ In(t, "end")
    /\ Goto(t, "up")
    /\ UNCHANGED <<alive, cnt, calls, cause, number, txt, refused, dmp, mixed, killer>>

\* create_dump returns.  handler ends the process; after the filter the
\* system does.
Finish(t) ==
    /\ In(t, "end")
    /\ IF cause[t] = "dump"
       THEN Goto(t, "up") /\ UNCHANGED <<alive, killer>>
       ELSE alive' = FALSE /\ killer' = {t} /\ UNCHANGED pc
    /\ UNCHANGED <<cnt, calls, cause, number, txt, refused, dmp, mixed>>

Run(t) ==
    \/ NoHelper(t) \/ Count(t) \/ WriteHead(t) \/ BeginTrace(t) \/ WriteTrace(t)
    \/ WriteDump(t) \/ Finish(t)

Next == \E t \in Thread : Crash(t) \/ Ask(t) \/ Run(t)
----------------------------------------------------------------------------
Notes == {Ecode(Code(c)) : c \in Crashes \cup {"dump"}}
           \cup {"open", "trace", "garbled", "failed"}

TypeOK ==
    /\ alive \in BOOLEAN
    /\ cnt \in Nat /\ calls \in 0..MaxDump
    /\ pc \in [Thread -> {"up", "count", "head", "trace", "walk", "dump", "end"}]
    /\ cause \in [Thread -> Crashes \cup {"none", "dump"}]
    /\ number \in [Thread -> 0..MaxDump]
    /\ txt \in [Numbers -> SUBSET Notes] /\ refused \in [Numbers -> SUBSET Notes]
    /\ dmp \subseteq Numbers
    /\ mixed \subseteq Thread /\ killer \subseteq Thread

Crashed(t) == pc[t] # "up" /\ cause[t] # "dump"

\* It is in the .txt, unless that did not open or did not take it.
Told(t, what) ==
    what \in txt[number[t]] \/ refused[number[t]] \cap {"open", what} # {}

\* The crash that ends the process has told what it was, and left its dump or
\* the reason why there is none, as far as the .txt could be opened and written
\* to; or there was no helper thread.  Two exceptions: SIGINT and SIGTERM are told
\* under each other's name; and the stack trace is lost when another thread was at
\* a dump too.  (Of other threads half a report may be left.)
LastWord ==
    \A t \in killer :
        \/ cause[t] = "STACK_OVERFLOW" /\ number[t] = 0
        \/ /\ \/ Told(t, Ecode(cause[t]))
              \/ cause[t] \in {"SIGINT", "SIGTERM"} /\ Told(t, Ecode(Code(cause[t])))
           /\ Told(t, "trace") \/ t \in mixed
           /\ number[t] \in dmp \/ Told(t, "failed")
============================================================================
