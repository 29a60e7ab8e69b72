------------------------------ MODULE Logger ------------------------------
(***************************************************************************)
(* One logger (util/logger.h): threads stamp a line with the clock and     *)
(* write it themselves, or queue it for the LogThread.  DailyLog and       *)
(* RollingLog choose, line by line, the file it goes to; files are only    *)
(* ever appended to.  stdio buffers what is written until the file is      *)
(* closed.  The process may exit or be killed, and be started again on the *)
(* files it left.  Sizes are in bytes; of a line only its length counts.   *)
(* fwrite takes a line whole.  The time zone is one without daylight       *)
(* saving (Time::add leaves tm_isdst unset).                               *)
(***************************************************************************)
EXTENDS Integers, Sequences, FiniteSets, SequencesExt

CONSTANTS
    Thread,
    Confs,     \* the loggers, [rolling, async, size, cnt], how many lines a
               \* behaviour logs with each, and how long they are (lines, most:
               \* bounds; the code has CharArray<1024> for a line)
    Day,       \* clock units in a day
    Roll,      \* DailyLog: hour and minute, in units from midnight
    NoFile,
    MaxClock,  \* bound on the clock
    MaxFail,   \* bound on the files that cannot be opened
    MaxLife    \* bound on the starts of the process

ASSUME LoggerAssumption ==
    /\ Day \in Nat \ {0} /\ Roll \in 0..(Day - 1)
    /\ MaxClock \in Nat /\ MaxFail \in Nat /\ MaxLife \in Nat
    /\ NoFile \notin Int
    /\ Confs \subseteq [rolling : BOOLEAN, async : BOOLEAN,
                        size : Nat \ {0}, cnt : Nat \ {0}, lines : Nat,
                        most : Nat \ {0}]

VARIABLES
    conf,
    clock,    \* Time::now()
    lives,    \* history: starts of the process
    began,    \* history: the time of the last one
    alive,
    count,    \* history: lines logged, numbered in that order
    held,     \* the line a thread has stamped and not handed on, or <<>>
    q1, q2,   \* LogThread
    file,     \* the name LogFile has open, or NoFile
    nextRoll, \* DailyLog::next_time_
    cur,      \* RollingLog::cur_cnt_
    writes,   \* the calls of Logger::write that can still be seen, [file, line]
              \* in their order: the line is in the file; NoFile: none was open
    dropped,  \* history: the lines that found no file open
    flushed,  \* how much of writes has left the buffer of stdio
    gone      \* history: the lines lost with a process

vars == <<conf, clock, lives, began, alive, count, held, q1, q2, file, nextRoll, cur,
          writes, dropped, flushed, gone>>

\* The constructor of DailyLog: the next h:m to come.
FirstRoll(now) ==
    LET today == (now \div Day) * Day + Roll
    IN  IF today <= now THEN today + Day ELSE today

\* LogFile::size_ of a file, in bytes: what stdio holds of it counts.
Size(f) ==
    Cardinality({b \in (1..Len(writes)) \X (1..conf.most) :
                    writes[b[1]].file = f /\ b[2] <= writes[b[1]].line.bytes})

Init ==
    /\ conf \in Confs
    /\ clock = Day
    /\ lives = 1 /\ began = Day /\ alive = TRUE
    /\ count = 0
    /\ held = [t \in Thread |-> <<>>]
    /\ q1 = <<>> /\ q2 = <<>>
    /\ file = NoFile
    /\ nextRoll = FirstRoll(Day)
    /\ cur = 0
    /\ writes = <<>> /\ dropped = <<>> /\ flushed = 0
    /\ gone = {}
----------------------------------------------------------------------------
\* LogFile::open may fail: the path is held by another process, say.
Open(name) == IF Len(dropped) < MaxFail THEN {name, NoFile} ELSE {name}

\* Mutant of Late: the first minute of a day belongs to the day before.
LateAfter(line) == line.time > nextRoll

Late(line) == line.time >= nextRoll

\* DailyLog::write up to write_default.
DailyFiles(line) ==
    LET late == Late(line)
        first == IF file = NoFile THEN Open(nextRoll - Day) ELSE {file}
    IN  {[file |-> f, opened |-> late \/ file = NoFile, cur |-> cur,
          nextRoll |-> IF late THEN nextRoll + Day ELSE nextRoll] :
            f \in IF late THEN Open(nextRoll) ELSE first}

\* Mutant of Full: a file that has reached its size takes another line.
FullAfter(f) == Size(f) > conf.size

Full(f) == Size(f) >= conf.size

\* RollingLog::path.
Following(c) == IF c + 1 > conf.cnt THEN 1 ELSE c + 1

\* RollingLog::write up to write_default: a file just opened is tested again,
\* the one opened in its place is not.
RollingFiles ==
    LET c == IF file = NoFile THEN Following(cur) ELSE cur
        first == IF file = NoFile THEN Open(c) ELSE {file}
        Then(f) ==
            IF f # NoFile /\ Full(f)
            THEN {[file |-> g, opened |-> TRUE, cur |-> Following(c),
                   nextRoll |-> nextRoll] : g \in Open(Following(c))}
            ELSE {[file |-> f, opened |-> file = NoFile, cur |-> c,
                   nextRoll |-> nextRoll]}
    IN  UNION {Then(f) : f \in first}

\* Mutant of Flushed: a file is left without being closed.
FlushedNot(opened) == flushed

\* Opening a file closes the one before, which flushes it.
Flushed(opened) == IF opened THEN Len(writes) ELSE flushed

\* Logger::write, under lock_: LogFile::write drops the line when no file is open.
Write(line) ==
    \E o \in IF conf.rolling THEN RollingFiles ELSE DailyFiles(line) :
        /\ file' = o.file
        /\ cur' = o.cur
        /\ nextRoll' = o.nextRoll
        /\ flushed' = Flushed(o.opened)
        /\ writes' = Append(writes, [file |-> o.file, line |-> line])
        /\ dropped' = IF o.file = NoFile THEN Append(dropped, line) ELSE dropped

\* Logger::log up to the choice between the queue and the file.
Log(t) ==
    /\ alive /\ held[t] = <<>>
    /\ count < conf.lines
    /\ count' = count + 1
    /\ \E n \in 1..conf.most :
          held' = [held EXCEPT ![t] = <<[id |-> count + 1, by |-> t, time |-> clock,
                                         life |-> lives, bytes |-> n]>>]
    /\ UNCHANGED <<conf, clock, lives, began, alive, q1, q2, file, nextRoll, cur,
                   writes, dropped, flushed, gone>>

\* Mutant of Queue: the newest line goes first.
QueueFirst(t) ==
    /\ held[t] # <<>> /\ conf.async
    /\ q1' = held[t] \o q1
    /\ held' = [held EXCEPT ![t] = <<>>]
    /\ UNCHANGED <<conf, clock, lives, began, alive, count, q2, file, nextRoll, cur,
                   writes, dropped, flushed, gone>>

\* LogThread::add.
Queue(t) ==
    /\ held[t] # <<>> /\ conf.async
    /\ q1' = q1 \o held[t]
    /\ held' = [held EXCEPT ![t] = <<>>]
    /\ UNCHANGED <<conf, clock, lives, began, alive, count, q2, file, nextRoll, cur,
                   writes, dropped, flushed, gone>>

WriteSync(t) ==
    /\ held[t] # <<>> /\ ~conf.async
    /\ Write(held[t][1])
    /\ held' = [held EXCEPT ![t] = <<>>]
    /\ UNCHANGED <<conf, clock, lives, began, alive, count, q1, q2, gone>>

\* Mutants of Swap: q1 keeps its lines; a line alone is left for later.
SwapKeeps ==
    /\ q2 = <<>> /\ q1 # <<>>
    /\ q2' = q1
    /\ UNCHANGED <<conf, clock, lives, began, alive, count, held, q1, file, nextRoll,
                   cur, writes, dropped, flushed, gone>>
SwapTwo ==
    /\ q2 = <<>> /\ Len(q1) > 1
    /\ q2' = q1 /\ q1' = q2
    /\ UNCHANGED <<conf, clock, lives, began, alive, count, held, file, nextRoll, cur,
                   writes, dropped, flushed, gone>>

\* LogThread::loop.
Swap ==
    /\ q2 = <<>> /\ q1 # <<>>
    /\ q2' = q1 /\ q1' = q2
    /\ UNCHANGED <<conf, clock, lives, began, alive, count, held, file, nextRoll, cur,
                   writes, dropped, flushed, gone>>

WriteNext ==
    /\ q2 # <<>>
    /\ Write(Head(q2))
    /\ q2' = Tail(q2)
    /\ UNCHANGED <<conf, clock, lives, began, alive, count, held, q1, gone>>

\* The buffer of stdio is full.
Spill ==
    /\ flushed < Len(writes)
    /\ flushed' \in (flushed + 1)..Len(writes)
    /\ UNCHANGED <<conf, clock, lives, began, alive, count, held, q1, q2, file,
                   nextRoll, cur, writes, dropped, gone>>

Tick ==
    /\ ~conf.rolling  \* RollingLog does not look at the time
    /\ clock < MaxClock
    /\ clock' = clock + 1
    /\ UNCHANGED <<conf, lives, began, alive, count, held, q1, q2, file, nextRoll, cur,
                   writes, dropped, flushed, gone>>

Pending == ToSet(q1) \cup ToSet(q2) \cup UNION {ToSet(held[t]) : t \in Thread}

\* The lines in the files, but for the first `kept` calls.
LostFrom(kept) ==
    {writes[k].line : k \in {i \in (kept + 1)..Len(writes) : writes[i].file # NoFile}}

\* The end of the process: nothing waits for the LogThread, and only an exit
\* reaches ~LogFile.
End(kept) ==
    /\ alive /\ alive' = FALSE
    /\ writes' = SubSeq(writes, 1, kept)
    /\ flushed' = kept
    /\ gone' = gone \cup Pending \cup LostFrom(kept)
    /\ q1' = <<>> /\ q2' = <<>>
    /\ held' = [t \in Thread |-> <<>>]
    /\ file' = NoFile
    /\ UNCHANGED <<conf, clock, lives, began, count, nextRoll, cur, dropped>>

Exit == End(Len(writes))
Kill == End(flushed)

\* The next process makes a new LogEvent and finds the files of the last one.
Start ==
    /\ ~alive /\ lives < MaxLife
    /\ alive' = TRUE /\ lives' = lives + 1 /\ began' = clock
    /\ nextRoll' = FirstRoll(clock) /\ cur' = 0
    /\ UNCHANGED <<conf, clock, count, held, q1, q2, file, writes, dropped, flushed,
                   gone>>

LogThread == Swap \/ WriteNext

Next ==
    \/ \E t \in Thread : Log(t) \/ Queue(t) \/ WriteSync(t)
    \/ LogThread \/ Spill \/ Tick
    \/ Exit \/ Kill \/ Start

Spec == Init /\ [][Next]_vars

\* The LogThread runs as long as the process does; nobody has to log.
FairSpec == Spec /\ WF_vars(LogThread)
----------------------------------------------------------------------------
Line == [id : Nat, by : Thread, time : Nat, life : Nat, bytes : Nat]
FileName == Int \cup {NoFile}

TypeOK ==
    /\ conf \in Confs /\ alive \in BOOLEAN
    /\ clock \in Nat /\ began \in Nat /\ lives \in Nat /\ count \in 0..conf.lines
    /\ held \in [Thread -> Seq(Line)]
    /\ q1 \in Seq(Line) /\ q2 \in Seq(Line)
    /\ file \in FileName
    /\ nextRoll \in Int /\ cur \in 0..conf.cnt
    /\ writes \in Seq([file : FileName, line : Line])
    /\ dropped \in Seq(Line) /\ flushed \in 0..Len(writes)
    /\ gone \subseteq Line

(* LogThread swaps and clears the queues under a lock of its own: a line   *)
(* that is logged is held, queued, in a file once, or gone: dropped for     *)
(* want of an open file, while the process goes on, or lost with its        *)
(* process.  Nothing of a process is lost while that process lives.         *)
LineOnce ==
    /\ \A n \in 1..count :
          LET Among(s) == Cardinality({k \in 1..Len(s) : s[k].id = n})
              In(S) == Cardinality({l \in S : l.id = n})
              InFiles == Cardinality({k \in 1..Len(writes) :
                             writes[k].file # NoFile /\ writes[k].line.id = n})
          IN  Among(q1) + Among(q2) + In(UNION {ToSet(held[t]) : t \in Thread})
                + InFiles + Among(dropped) + In(gone) = 1
    /\ alive => \A l \in gone : l.life # lives

(* The lines of one thread reach the files in the order it logged them.    *)
ThreadOrder ==
    \A j, k \in 1..Len(writes) :
        /\ j < k
        /\ writes[j].line.by = writes[k].line.by
        /\ writes[j].line.life = writes[k].line.life
        => writes[j].line.id < writes[k].line.id

Period(t) == FirstRoll(t) - Day
DayOf(k) == Period(writes[k].line.time)

(* DailyLog moves on by one file a line, on the time the line was stamped. *)
(* No line is in the file of a later day unless a line of a later day came *)
(* first; and each is in the file of its own day as long as no line is     *)
(* overtaken by one of a later day and no day passes without a line.       *)
DailyFile ==
    LET mine == {k \in 1..Len(writes) : writes[k].line.life = lives} IN
    alive /\ ~conf.rolling =>
        \A k \in {i \in mine : writes[i].file # NoFile} :
            LET before == {j \in mine : j < k} IN
            /\ writes[k].file > DayOf(k) => \E j \in before : DayOf(j) > DayOf(k)
            /\ /\ \A i, j \in before \cup {k} : i < j => DayOf(i) <= DayOf(j)
               /\ \A t \in (began + Day)..(DayOf(k) - 1) :
                     \E j \in before : DayOf(j) = Period(t)
               => writes[k].file = DayOf(k)

(* RollingLog looks at the size before it writes, and not at the second    *)
(* file it opens.  While another file has room, a file passes its size by   *)
(* less than one line, and by one more line for each restart and for each   *)
(* line that no file could be opened for.  (Once all are full they grow     *)
(* without end.)                                                            *)
RollingBounded ==
    conf.rolling /\ (\E g \in 1..conf.cnt : Size(g) < conf.size) =>
        \A f \in 1..conf.cnt :
            Size(f) <= conf.size - 1 + conf.most * (1 + (lives - 1) + Len(dropped))

(* write_default leaves the flush out: a kill costs lines of the file that *)
(* is open, never of one the logger has left.                              *)
Durable ==
    \A k \in (flushed + 1)..Len(writes) : writes[k].file \in {file, NoFile}

\* How many lines may be queued: a logger that is not async queues none.
MaxQueued == Max({0} \cup {c.lines : c \in {d \in Confs : d.async}})

(* A queued line is written, dropped, or lost with the process.            *)
QueueDrains ==
    \A n \in 1..MaxQueued :
        (\E l \in ToSet(q1) \cup ToSet(q2) : l.id = n)
            ~> ~(\E l \in ToSet(q1) \cup ToSet(q2) : l.id = n)
============================================================================
