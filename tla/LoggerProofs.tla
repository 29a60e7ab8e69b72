---------------------------- MODULE LoggerProofs ----------------------------
(***************************************************************************)
(* Proofs about Logger, for any threads, loggers, clocks and numbers of    *)
(* starts: what a logger writes stays in the order in which each thread    *)
(* logged it, and what a killed process loses is the end of one file.      *)
(***************************************************************************)
EXTENDS Logger, FiniteSetTheorems, TLAPS

Entry == [file : FileName, line : Line]

\* The lines of a thread stand in s in the order it logged them.
Sorted(s) ==
    \A i, j \in 1..Len(s) : i < j /\ s[i].by = s[j].by => s[i].id < s[j].id

\* The lines of a thread in r are later than those in s.
Precedes(s, r) ==
    \A i \in 1..Len(s), j \in 1..Len(r) : s[i].by = r[j].by => s[i].id < r[j].id

\* The lines of a thread in r are later than those this process has written.
Follows(r) ==
    \A k \in 1..Len(writes), j \in 1..Len(r) :
        writes[k].line.by = r[j].by /\ writes[k].line.life = lives
            => writes[k].line.id < r[j].id

\* The lines of a queue: numbered so far, by this process.
Current(s) == \A i \in 1..Len(s) : s[i].id <= count /\ s[i].life = lives

\* What a thread holds is one line of its own, later than all others of it.
HeldLast ==
    \A t \in Thread :
        /\ held[t] \in {<<>>} \cup {<<l>> : l \in {m \in Line : m.by = t}}
        /\ Current(held[t]) /\ Follows(held[t])
        /\ Precedes(q1, held[t]) /\ Precedes(q2, held[t])

\* writes, then q2, then q1: each in order, and one after the other.
QueuesInOrder ==
    /\ Sorted(q1) /\ Sorted(q2) /\ Precedes(q2, q1)
    /\ Follows(q1) /\ Follows(q2)
    /\ Current(q1) /\ Current(q2)

WrittenSoFar ==
    \A k \in 1..Len(writes) :
        writes[k].line.id <= count /\ writes[k].line.life <= lives

\* A logger that does not queue has no queue, and a process that is gone holds
\* nothing.
NothingLeft ==
    /\ ~conf.async \/ ~alive => q1 = <<>> /\ q2 = <<>>
    /\ ~alive => \A t \in Thread : held[t] = <<>>

\* The inductive invariant.
LogInv ==
    TypeOK /\ Durable /\ ThreadOrder /\ HeldLast /\ QueuesInOrder /\ WrittenSoFar
           /\ NothingLeft

----------------------------------------------------------------------------

LEMMA ConfParts ==
    ASSUME TypeOK
    PROVE  /\ conf.rolling \in BOOLEAN /\ conf.async \in BOOLEAN
           /\ conf.size \in Nat \ {0} /\ conf.cnt \in Nat \ {0} /\ conf.lines \in Nat
           /\ conf.most \in Nat \ {0}
           /\ Day \in Nat \ {0} /\ Roll \in 0..(Day - 1)
    BY LoggerAssumption DEF TypeOK

LEMMA RollType == \A now \in Nat : FirstRoll(now) \in Int
<1> SUFFICES ASSUME NEW now \in Nat PROVE FirstRoll(now) \in Int
    OBVIOUS
<1>1. Day \in Nat \ {0} /\ Roll \in Int
    BY LoggerAssumption
<1>2. now \div Day \in Int
    BY <1>1
<1>3. (now \div Day) * Day \in Int
    BY <1>1, <1>2
<1> QED
    BY <1>1, <1>3 DEF FirstRoll

LEMMA InitInv == Init => LogInv
<1> SUFFICES ASSUME Init PROVE LogInv
    OBVIOUS
<1>1. Day \in Nat /\ FirstRoll(Day) \in Int /\ conf \in Confs /\ conf.lines \in Nat /\ conf.cnt \in Nat
    BY RollType, LoggerAssumption DEF Init
<1>2. TypeOK
    <2>1. held \in [Thread -> Seq(Line)]
        BY DEF Init
    <2>2. /\ writes \in Seq(Entry) /\ q1 \in Seq(Line) /\ q2 \in Seq(Line)
          /\ dropped \in Seq(Line)
        BY DEF Init
    <2> QED
        BY <1>1, <2>1, <2>2 DEF Init, TypeOK, FileName, Entry
<1>3. HeldLast
    BY DEF Init, HeldLast, Current, Follows, Precedes
<1> QED
    BY <1>2, <1>3 DEF Init, LogInv, Durable, ThreadOrder, QueuesInOrder, Sorted, Precedes,
                      Follows, Current, WrittenSoFar, NothingLeft

\* The file a line goes to: another one only when it is newly opened.
LEMMA Chosen ==
    ASSUME TypeOK, NEW line \in Line,
           NEW o \in IF conf.rolling THEN RollingFiles ELSE DailyFiles(line)
    PROVE  /\ o.file \in FileName /\ o.opened \in BOOLEAN
           /\ o.cur \in 0..conf.cnt /\ o.nextRoll \in Int
           /\ ~o.opened => o.file = file
<1>1. /\ file \in FileName /\ nextRoll \in Int /\ cur \in 0..conf.cnt
      /\ Day \in Nat \ {0} /\ conf.cnt \in Nat \ {0}
    BY ConfParts DEF TypeOK
<1>2. \A name \in Int : Open(name) \subseteq FileName
    BY DEF Open, FileName
<1>3. CASE ~conf.rolling
    <2> DEFINE late == Late(line)
               files == IF late THEN Open(nextRoll)
                        ELSE IF file = NoFile THEN Open(nextRoll - Day) ELSE {file}
    <2>1. o \in {[file |-> f, opened |-> late \/ file = NoFile, cur |-> cur,
                 nextRoll |-> IF late THEN nextRoll + Day ELSE nextRoll] : f \in files}
        BY <1>3, Zenon DEF DailyFiles
    <2> HIDE DEF late, files
    <2>2. PICK f \in files :
              o = [file |-> f, opened |-> late \/ file = NoFile, cur |-> cur,
                   nextRoll |-> IF late THEN nextRoll + Day ELSE nextRoll]
        BY <2>1, Zenon
    <2>3. /\ o.file = f /\ o.cur = cur
          /\ o.nextRoll = IF late THEN nextRoll + Day ELSE nextRoll
        BY <2>2, Zenon
    <2>4. o.opened = (late \/ file = NoFile)
        BY <2>2, Zenon
    <2>5. o.opened \in BOOLEAN /\ (~o.opened => ~late /\ file # NoFile)
        BY <2>4, Zenon
    <2>6. f \in FileName /\ (~late /\ file # NoFile => f = file)
        BY <1>1, <1>2 DEF files
    <2> QED
        BY <1>1, <2>3, <2>5, <2>6
<1>4. CASE conf.rolling
    <2>1. \A c \in 0..conf.cnt : Following(c) \in 0..conf.cnt /\ Following(c) \in Int
        BY <1>1 DEF Following
    <2>2. Following(cur) \in 0..conf.cnt /\ cur \in Int
        BY <1>1, <2>1
    <2> DEFINE c == IF file = NoFile THEN Following(cur) ELSE cur
    <2>3. c \in 0..conf.cnt /\ c \in Int
        BY <1>1, <2>1, <2>2
    <2>4. \/ \E g \in Open(Following(c)) :
               o = [file |-> g, opened |-> TRUE, cur |-> Following(c), nextRoll |-> nextRoll]
          \/ \E f \in IF file = NoFile THEN Open(c) ELSE {file} :
               o = [file |-> f, opened |-> file = NoFile, cur |-> c, nextRoll |-> nextRoll]
        BY <1>4, ZenonT(40) DEF RollingFiles
    <2> HIDE DEF c
    <2>5. CASE \E g \in Open(Following(c)) :
               o = [file |-> g, opened |-> TRUE, cur |-> Following(c), nextRoll |-> nextRoll]
        BY <1>1, <1>2, <2>1, <2>3, <2>5
    <2>6. CASE \E f \in IF file = NoFile THEN Open(c) ELSE {file} :
               o = [file |-> f, opened |-> file = NoFile, cur |-> c, nextRoll |-> nextRoll]
        <3>1. PICK f \in IF file = NoFile THEN Open(c) ELSE {file} :
                  o = [file |-> f, opened |-> file = NoFile, cur |-> c, nextRoll |-> nextRoll]
            BY <2>6
        <3>2. o.file = f /\ o.cur = c /\ o.nextRoll = nextRoll
            BY <3>1, Zenon
        <3>3. o.opened \in BOOLEAN /\ (~o.opened => file # NoFile)
            BY <3>1, Zenon
        <3> QED
            BY <1>1, <1>2, <2>3, <3>2, <3>3
    <2> QED
        BY <2>4, <2>5, <2>6
<1> QED
    BY <1>3, <1>4

LEMMA WriteFiles ==
    ASSUME TypeOK, Durable, NEW line \in Line, Write(line)
    PROVE  /\ file' \in FileName /\ cur' \in 0..conf.cnt /\ nextRoll' \in Int
           /\ dropped' \in Seq(Line)
           /\ \E f \in FileName : writes' = Append(writes, [file |-> f, line |-> line])
           /\ flushed' \in 0..Len(writes')
           /\ Durable'
<1>1. PICK o \in IF conf.rolling THEN RollingFiles ELSE DailyFiles(line) :
          /\ file' = o.file /\ cur' = o.cur /\ nextRoll' = o.nextRoll
          /\ flushed' = Flushed(o.opened)
          /\ writes' = Append(writes, [file |-> o.file, line |-> line])
          /\ dropped' = IF o.file = NoFile THEN Append(dropped, line) ELSE dropped
    BY DEF Write
<1>2. /\ o.file \in FileName /\ o.opened \in BOOLEAN
      /\ o.cur \in 0..conf.cnt /\ o.nextRoll \in Int
      /\ ~o.opened => o.file = file
    BY Chosen
<1>3. /\ writes \in Seq(Entry) /\ flushed \in 0..Len(writes) /\ dropped \in Seq(Line)
      /\ Len(writes) \in Nat
    BY DEF TypeOK, Entry
<1>4. /\ Len(writes') = Len(writes) + 1
      /\ writes'[Len(writes) + 1].file = o.file
      /\ \A k \in 1..Len(writes) : writes'[k] = writes[k]
    BY <1>1, <1>3
<1>5. flushed' \in 0..Len(writes')
    BY <1>1, <1>2, <1>3, <1>4 DEF Flushed
<1>6. Durable'
    <2> SUFFICES ASSUME NEW k \in (flushed' + 1)..Len(writes')
                 PROVE  writes'[k].file \in {file', NoFile}
        BY DEF Durable
    <2>1. CASE k = Len(writes) + 1
        BY <1>1, <1>4, <2>1
    <2>2. CASE k # Len(writes) + 1
        <3>1. ~o.opened /\ k \in (flushed + 1)..Len(writes)
            BY <1>1, <1>2, <1>3, <1>4, <1>5, <2>2 DEF Flushed
        <3> QED
            BY <1>1, <1>2, <1>3, <1>4, <3>1 DEF Durable
    <2> QED
        BY <2>1, <2>2
<1>7. dropped' \in Seq(Line)
    BY <1>1, <1>3
<1> QED
    BY <1>1, <1>2, <1>3, <1>5, <1>6, <1>7

LEMMA TypeParts ==
    ASSUME TypeOK
    PROVE  /\ held \in [Thread -> Seq(Line)] /\ q1 \in Seq(Line) /\ q2 \in Seq(Line)
           /\ writes \in Seq(Entry) /\ flushed \in 0..Len(writes) /\ Len(writes) \in Nat
           /\ lives \in Nat /\ count \in Nat /\ clock \in Nat /\ file \in FileName
           /\ dropped \in Seq(Line)
    BY ConfParts DEF TypeOK, Entry

\* What is left of the invariant when the files do not change.
LEMMA SameFiles ==
    ASSUME LogInv, UNCHANGED <<file, writes, flushed, lives>>
    PROVE  Durable' /\ ThreadOrder' /\ (count' >= count /\ count' \in Nat => WrittenSoFar')
<1>1. Durable' /\ ThreadOrder'
    BY DEF LogInv, Durable, ThreadOrder
<1>2. ASSUME count' >= count, count' \in Nat, NEW k \in 1..Len(writes)
      PROVE  writes'[k].line.id <= count' /\ writes'[k].line.life <= lives'
    <2>1. writes[k].line.id \in Nat /\ count \in Nat
        <3>1. writes[k] \in Entry /\ count \in Nat
            BY TypeParts DEF LogInv
        <3> QED
            BY <3>1 DEF Entry, Line
    <2>2. writes[k].line.id <= count /\ writes[k].line.life <= lives
        BY DEF LogInv, WrittenSoFar
    <2> QED
        BY <1>2, <2>1, <2>2
<1> QED
    BY <1>1, <1>2 DEF WrittenSoFar

LEMMA LogStep == ASSUME LogInv, NEW t \in Thread, Log(t) PROVE LogInv'
<1>0. PICK n \in 1..conf.most :
          held' = [held EXCEPT ![t] = <<[id |-> count + 1, by |-> t, time |-> clock,
                                         life |-> lives, bytes |-> n]>>]
    BY DEF Log
<1> DEFINE new == [id |-> count + 1, by |-> t, time |-> clock, life |-> lives, bytes |-> n]
<1>1. /\ alive /\ held[t] = <<>> /\ count < conf.lines /\ count' = count + 1
      /\ held' = [held EXCEPT ![t] = <<new>>]
      /\ UNCHANGED <<conf, clock, lives, began, alive, q1, q2, file, nextRoll, cur,
                     writes, dropped, flushed, gone>>
    BY <1>0 DEF Log
<1>2. TypeOK /\ new \in Line /\ count' \in 0..conf.lines /\ count \in Nat
    <2>1. TypeOK
        BY DEF LogInv
    <2>2. count \in Nat /\ clock \in Nat /\ lives \in Nat /\ conf.lines \in Nat
        BY <2>1, TypeParts, ConfParts
    <2>3. new \in Line
        BY <2>2 DEF Line
    <2> QED
        BY <1>1, <2>1, <2>2, <2>3
<1> HIDE DEF new
<1>3. TypeOK'
    <2>1. held' \in [Thread -> Seq(Line)]
        BY <1>1, <1>2, TypeParts
    <2> QED
        BY <1>1, <1>2, <2>1 DEF TypeOK
<1>4. Durable' /\ ThreadOrder' /\ WrittenSoFar'
    BY <1>1, <1>2, SameFiles
<1>5. QueuesInOrder'
    <2>1. /\ \A i \in 1..Len(q1) : q1[i].id \in Nat
          /\ \A i \in 1..Len(q2) : q2[i].id \in Nat
        <3>1. /\ \A i \in 1..Len(q1) : q1[i] \in Line
              /\ \A i \in 1..Len(q2) : q2[i] \in Line
            BY <1>2, TypeParts
        <3> QED
            BY <3>1 DEF Line
    <2>2. Current(q1)' /\ Current(q2)'
        BY <1>1, <1>2, <2>1 DEF LogInv, QueuesInOrder, Current
    <2> QED
        BY <1>1, <2>2 DEF LogInv, QueuesInOrder, Sorted, Precedes, Follows
<1>6. HeldLast'
    <2> SUFFICES ASSUME NEW u \in Thread
                 PROVE  /\ held'[u] \in {<<>>} \cup {<<l>> : l \in {m \in Line : m.by = u}}
                        /\ Current(held[u])' /\ Follows(held[u])'
                        /\ Precedes(q1, held[u])' /\ Precedes(q2, held[u])'
        BY DEF HeldLast
    <2>1. CASE u = t
        <3>1. held'[u] = <<new>> /\ Len(held'[u]) = 1 /\ held'[u][1] = new
            <4>1. held'[u] = <<new>>
                BY <1>1, <1>2, <2>1, TypeParts
            <4> QED
                BY <4>1
        <3>2. new.id = count + 1 /\ new.by = t /\ new.life = lives
            BY DEF new
        <3>3. held'[u] \in {<<>>} \cup {<<l>> : l \in {m \in Line : m.by = u}}
            BY <1>2, <2>1, <3>1, <3>2
        <3>4. Current(held[u])'
            BY <1>1, <1>2, <3>1, <3>2 DEF Current
        <3>5. Follows(held[u])'
            <4>1. \A k \in 1..Len(writes) :
                      writes[k].line.id \in Nat /\ writes[k].line.id <= count
                <5>1. \A k \in 1..Len(writes) : writes[k] \in Entry
                    BY <1>2, TypeParts
                <5> QED
                    BY <5>1 DEF Entry, Line, LogInv, WrittenSoFar
            <4> QED
                BY <1>1, <1>2, <3>1, <3>2, <4>1 DEF Follows
        <3>6. Precedes(q1, held[u])' /\ Precedes(q2, held[u])'
            <4>1. /\ \A i \in 1..Len(q1) : q1[i].id \in Nat /\ q1[i].id <= count
                  /\ \A i \in 1..Len(q2) : q2[i].id \in Nat /\ q2[i].id <= count
                <5>1. /\ \A i \in 1..Len(q1) : q1[i] \in Line
                      /\ \A i \in 1..Len(q2) : q2[i] \in Line
                    BY <1>2, TypeParts
                <5> QED
                    BY <5>1 DEF Line, LogInv, QueuesInOrder, Current
            <4>2. \A j \in 1..Len(held'[u]) : held'[u][j].id = count + 1
                BY <3>1, <3>2
            <4>3. Precedes(q1, held[u])'
                BY <1>1, <1>2, <4>1, <4>2 DEF Precedes
            <4>4. Precedes(q2, held[u])'
                BY <1>1, <1>2, <4>1, <4>2 DEF Precedes
            <4> QED
                BY <4>3, <4>4
        <3> QED
            BY <3>3, <3>4, <3>5, <3>6
    <2>2. CASE u # t
        <3>1. held'[u] = held[u] /\ held[u] \in Seq(Line)
            BY <1>1, <1>2, <2>2, TypeParts
        <3>2. \A i \in 1..Len(held[u]) : held[u][i].id \in Nat
            <4>1. \A i \in 1..Len(held[u]) : held[u][i] \in Line
                BY <3>1
            <4> QED
                BY <4>1 DEF Line
        <3>3. Current(held[u])'
            <4>1. Current(held[u])
                BY DEF LogInv, HeldLast
            <4>2. ASSUME NEW i \in 1..Len(held[u])
                  PROVE  held[u][i].id <= count' /\ held[u][i].life = lives'
                BY <1>1, <1>2, <3>2, <4>1 DEF Current
            <4> QED
                BY <3>1, <4>2 DEF Current
        <3>4. Follows(held[u])'
            BY <1>1, <3>1 DEF LogInv, HeldLast, Follows
        <3>5. Precedes(q1, held[u])' /\ Precedes(q2, held[u])'
            <4>1. Precedes(q1, held[u]) /\ Precedes(q2, held[u])
                BY DEF LogInv, HeldLast
            <4>2. q1' = q1 /\ q2' = q2
                BY <1>1
            <4> QED
                BY <3>1, <4>1, <4>2 DEF Precedes
        <3>6. held'[u] \in {<<>>} \cup {<<l>> : l \in {m \in Line : m.by = u}}
            BY <3>1 DEF LogInv, HeldLast
        <3> QED
            BY <3>3, <3>4, <3>5, <3>6
    <2> QED
        BY <2>1, <2>2
<1>7. NothingLeft'
    BY <1>1 DEF LogInv, NothingLeft
<1> QED
    BY <1>3, <1>4, <1>5, <1>6, <1>7 DEF LogInv

\* Both ways out of held[t].
LEMMA HeldLine ==
    ASSUME LogInv, NEW t \in Thread, held[t] # <<>>
    PROVE  \E l \in Line : /\ held[t] = <<l>> /\ l.by = t /\ l.id <= count /\ l.life = lives
                           /\ \A k \in 1..Len(writes) :
                                  /\ writes[k].line.by = t /\ writes[k].line.life = lives
                                  => writes[k].line.id < l.id
                           /\ \A i \in 1..Len(q1) : q1[i].by = t => q1[i].id < l.id
                           /\ \A i \in 1..Len(q2) : q2[i].by = t => q2[i].id < l.id
<1>1. PICK l \in Line : l.by = t /\ held[t] = <<l>>
    BY DEF LogInv, HeldLast
<1>2. Len(held[t]) = 1 /\ held[t][1] = l
    BY <1>1
<1>3. l.id <= count /\ l.life = lives
    BY <1>2 DEF LogInv, HeldLast, Current
<1>4. \A k \in 1..Len(writes) :
          /\ writes[k].line.by = t /\ writes[k].line.life = lives
          => writes[k].line.id < l.id
    BY <1>1, <1>2 DEF LogInv, HeldLast, Follows
<1>5. /\ \A i \in 1..Len(q1) : q1[i].by = t => q1[i].id < l.id
      /\ \A i \in 1..Len(q2) : q2[i].by = t => q2[i].id < l.id
    <2>1. Precedes(q1, held[t]) /\ Precedes(q2, held[t])
        BY DEF LogInv, HeldLast
    <2> QED
        BY <1>1, <1>2, <2>1 DEF Precedes
<1> QED
    BY <1>1, <1>3, <1>4, <1>5

LEMMA QueueStep == ASSUME LogInv, NEW t \in Thread, Queue(t) PROVE LogInv'
<1>1. /\ held[t] # <<>> /\ conf.async /\ q1' = q1 \o held[t]
      /\ held' = [held EXCEPT ![t] = <<>>]
      /\ UNCHANGED <<conf, clock, lives, began, alive, count, q2, file, nextRoll, cur,
                     writes, dropped, flushed, gone>>
      /\ TypeOK
    BY DEF Queue, LogInv
<1>2. PICK l \in Line :
          /\ held[t] = <<l>> /\ l.by = t /\ l.id <= count /\ l.life = lives
          /\ \A k \in 1..Len(writes) :
                 /\ writes[k].line.by = t /\ writes[k].line.life = lives
                 => writes[k].line.id < l.id
          /\ \A i \in 1..Len(q1) : q1[i].by = t => q1[i].id < l.id
          /\ \A i \in 1..Len(q2) : q2[i].by = t => q2[i].id < l.id
    BY <1>1, HeldLine, Zenon
<1>3. /\ q1' \in Seq(Line) /\ Len(q1') = Len(q1) + 1 /\ Len(q1) \in Nat
      /\ q1'[Len(q1) + 1] = l
      /\ \A i \in 1..Len(q1) : q1'[i] = q1[i]
    BY <1>1, <1>2, TypeParts
<1>4. TypeOK'
    BY <1>1, <1>3 DEF TypeOK
<1>5. Durable' /\ ThreadOrder' /\ WrittenSoFar'
    BY <1>1, SameFiles, TypeParts
<1>6. QueuesInOrder'
    <2>1. Sorted(q1)'
        <3>1. Sorted(q1)
            BY DEF LogInv, QueuesInOrder
        <3>2. ASSUME NEW i \in 1..Len(q1'), NEW j \in 1..Len(q1'), i < j, q1'[i].by = q1'[j].by
              PROVE  q1'[i].id < q1'[j].id
            <4>1. i \in 1..Len(q1)
                BY <1>3, <3>2
            <4>2. CASE j = Len(q1) + 1
                BY <1>2, <1>3, <3>2, <4>1, <4>2
            <4>3. CASE j \in 1..Len(q1)
                BY <1>3, <3>1, <3>2, <4>1, <4>3 DEF Sorted
            <4> QED
                BY <1>3, <4>2, <4>3
        <3> QED
            BY <3>2 DEF Sorted
    <2>2. Precedes(q2, q1)'
        BY <1>1, <1>2, <1>3 DEF LogInv, QueuesInOrder, Precedes
    <2>3. Follows(q1)'
        BY <1>1, <1>2, <1>3 DEF LogInv, QueuesInOrder, Follows
    <2>4. Current(q1)'
        BY <1>1, <1>2, <1>3 DEF LogInv, QueuesInOrder, Current
    <2> QED
        BY <1>1, <2>1, <2>2, <2>3, <2>4 DEF LogInv, QueuesInOrder, Sorted, Follows, Current
<1>7. HeldLast'
    <2> SUFFICES ASSUME NEW u \in Thread
                 PROVE  /\ held'[u] \in {<<>>} \cup {<<m>> : m \in {n \in Line : n.by = u}}
                        /\ Current(held[u])' /\ Follows(held[u])'
                        /\ Precedes(q1, held[u])' /\ Precedes(q2, held[u])'
        BY DEF HeldLast
    <2>1. CASE u = t
        <3>1. held'[u] = <<>>
            BY <1>1, <2>1, TypeParts
        <3> QED
            BY <3>1 DEF Current, Follows, Precedes
    <2>2. CASE u # t
        <3>1. held'[u] = held[u]
            BY <1>1, <2>2, TypeParts
        <3>2. \A i \in 1..Len(held[u]) : held[u][i].by = u
            BY DEF LogInv, HeldLast
        <3>3. Precedes(q1, held[u])'
            <4>1. Precedes(q1, held[u])
                BY DEF LogInv, HeldLast
            <4>2. ASSUME NEW i \in 1..Len(q1'), NEW j \in 1..Len(held[u]), q1'[i].by = held[u][j].by
                  PROVE  q1'[i].id < held[u][j].id
                BY <1>2, <1>3, <2>2, <3>2, <4>1, <4>2 DEF Precedes
            <4> QED
                BY <3>1, <4>2 DEF Precedes
        <3> QED
            BY <1>1, <3>1, <3>3 DEF LogInv, HeldLast, Current, Follows, Precedes
    <2> QED
        BY <2>1, <2>2
<1>8. NothingLeft'
    BY <1>1 DEF LogInv, NothingLeft
<1> QED
    BY <1>4, <1>5, <1>6, <1>7, <1>8 DEF LogInv

\* A line that is written next: later than all its thread has written.
NextWritten(l) ==
    /\ l \in Line /\ l.id <= count /\ l.life = lives
    /\ \A k \in 1..Len(writes) :
          /\ writes[k].line.by = l.by /\ writes[k].line.life = lives
          => writes[k].line.id < l.id

LEMMA WriteOrder ==
    ASSUME LogInv, NEW l, NextWritten(l), Write(l), UNCHANGED <<count, lives>>
    PROVE  /\ writes' \in Seq(Entry)
           /\ Len(writes') = Len(writes) + 1 /\ writes'[Len(writes) + 1].line = l
           /\ \A k \in 1..Len(writes) : writes'[k] = writes[k]
           /\ ThreadOrder' /\ WrittenSoFar'
<1>1. PICK f \in FileName : writes' = Append(writes, [file |-> f, line |-> l])
    BY WriteFiles DEF LogInv, NextWritten
<1>2. [file |-> f, line |-> l] \in Entry
    BY DEF NextWritten, Entry
<1>3. writes \in Seq(Entry) /\ Len(writes) \in Nat
    BY TypeParts DEF LogInv
<1>4. /\ writes' \in Seq(Entry)
      /\ Len(writes') = Len(writes) + 1 /\ writes'[Len(writes) + 1].line = l
      /\ \A k \in 1..Len(writes) : writes'[k] = writes[k]
    BY <1>1, <1>2, <1>3
<1>5. ThreadOrder'
    <2> SUFFICES ASSUME NEW j \in 1..Len(writes'), NEW k \in 1..Len(writes'), j < k,
                        writes'[j].line.by = writes'[k].line.by,
                        writes'[j].line.life = writes'[k].line.life
                 PROVE  writes'[j].line.id < writes'[k].line.id
        BY DEF ThreadOrder
    <2>1. j \in 1..Len(writes)
        BY <1>3, <1>4
    <2>2. CASE k = Len(writes) + 1
        BY <1>4, <2>1, <2>2 DEF NextWritten
    <2>3. CASE k \in 1..Len(writes)
        BY <1>4, <2>1, <2>3 DEF LogInv, ThreadOrder
    <2> QED
        BY <1>3, <1>4, <2>2, <2>3
<1>6. WrittenSoFar'
    <2> SUFFICES ASSUME NEW k \in 1..Len(writes')
                 PROVE  writes'[k].line.id <= count /\ writes'[k].line.life <= lives
        BY DEF WrittenSoFar
    <2>1. CASE k = Len(writes) + 1
        BY <1>4, <2>1, TypeParts DEF NextWritten, LogInv
    <2>2. CASE k \in 1..Len(writes)
        BY <1>4, <2>2 DEF LogInv, WrittenSoFar
    <2> QED
        BY <1>3, <1>4, <2>1, <2>2
<1> QED
    BY <1>4, <1>5, <1>6

\* What follows the line just written follows all that is written.
LEMMA StillFollows ==
    ASSUME LogInv, NEW l, NextWritten(l), Write(l), UNCHANGED <<count, lives>>,
           NEW r, Follows(r), \A j \in 1..Len(r) : l.by = r[j].by => l.id < r[j].id
    PROVE  \A k \in 1..Len(writes'), j \in 1..Len(r) :
               writes'[k].line.by = r[j].by /\ writes'[k].line.life = lives'
                   => writes'[k].line.id < r[j].id
<1> SUFFICES ASSUME NEW k \in 1..Len(writes'), NEW j \in 1..Len(r),
                    writes'[k].line.by = r[j].by, writes'[k].line.life = lives'
             PROVE  writes'[k].line.id < r[j].id
    OBVIOUS
<1>1. Len(writes) \in Nat
    BY TypeParts DEF LogInv
<1>2. CASE k = Len(writes) + 1
    BY <1>2, WriteOrder
<1>3. CASE k \in 1..Len(writes)
    BY <1>3, WriteOrder DEF Follows
<1> QED
    BY <1>1, <1>2, <1>3, WriteOrder

LEMMA WriteSyncStep == ASSUME LogInv, NEW t \in Thread, WriteSync(t) PROVE LogInv'
<1>1. /\ held[t] # <<>> /\ ~conf.async /\ Write(held[t][1])
      /\ held' = [held EXCEPT ![t] = <<>>]
      /\ UNCHANGED <<conf, clock, lives, began, alive, count, q1, q2, gone>>
      /\ TypeOK /\ Durable
    BY DEF WriteSync, LogInv
<1>2. q1 = <<>> /\ q2 = <<>>
    BY <1>1 DEF LogInv, NothingLeft
<1>3. PICK l \in Line :
          /\ held[t] = <<l>> /\ l.by = t /\ l.id <= count /\ l.life = lives
          /\ \A k \in 1..Len(writes) :
                 /\ writes[k].line.by = t /\ writes[k].line.life = lives
                 => writes[k].line.id < l.id
    BY <1>1, HeldLine
<1>4. Write(l) /\ NextWritten(l)
    <2>1. held[t][1] = l
        BY <1>3
    <2> QED
        BY <1>1, <1>3, <2>1 DEF NextWritten
<1>5. held' \in [Thread -> Seq(Line)]
    BY <1>1, TypeParts
<1>6. TypeOK' /\ Durable'
    <2>1. /\ file' \in FileName /\ cur' \in 0..conf.cnt /\ nextRoll' \in Int
          /\ dropped' \in Seq(Line) /\ flushed' \in 0..Len(writes') /\ Durable'
        BY <1>1, <1>4, WriteFiles
    <2>2. writes' \in Seq(Entry)
        BY <1>1, <1>4, WriteOrder
    <2> QED
        BY <1>1, <1>5, <2>1, <2>2 DEF TypeOK, Entry
<1>7. ThreadOrder' /\ WrittenSoFar'
    BY <1>1, <1>4, WriteOrder
<1>8. QueuesInOrder'
    BY <1>1, <1>2 DEF QueuesInOrder, Sorted, Precedes, Follows, Current
<1>9. HeldLast'
    <2> SUFFICES ASSUME NEW u \in Thread
                 PROVE  /\ held'[u] \in {<<>>} \cup {<<m>> : m \in {n \in Line : n.by = u}}
                        /\ Current(held[u])' /\ Follows(held[u])'
                        /\ Precedes(q1, held[u])' /\ Precedes(q2, held[u])'
        BY DEF HeldLast
    <2>1. Precedes(q1, held[u])' /\ Precedes(q2, held[u])'
        BY <1>1, <1>2 DEF Precedes
    <2>2. CASE u = t
        <3>1. held'[u] = <<>>
            BY <1>1, <2>2, TypeParts
        <3> QED
            BY <2>1, <3>1 DEF Current, Follows
    <2>3. CASE u # t
        <3>1. held'[u] = held[u]
            BY <1>1, <2>3, TypeParts
        <3>2. \A i \in 1..Len(held[u]) : held[u][i].by = u
            BY DEF LogInv, HeldLast
        <3>3. Current(held[u])'
            BY <1>1, <3>1 DEF LogInv, HeldLast, Current
        <3>4. Follows(held[u])
            BY DEF LogInv, HeldLast
        <3>5. \A j \in 1..Len(held[u]) : l.by = held[u][j].by => l.id < held[u][j].id
            BY <1>3, <2>3, <3>2
        <3>6. Follows(held[u])'
            <4>1. \A k \in 1..Len(writes'), j \in 1..Len(held[u]) :
                      writes'[k].line.by = held[u][j].by /\ writes'[k].line.life = lives'
                          => writes'[k].line.id < held[u][j].id
                BY <1>1, <1>4, <3>4, <3>5, StillFollows
            <4> QED
                BY <3>1, <4>1 DEF Follows
        <3>7. held'[u] \in {<<>>} \cup {<<m>> : m \in {n \in Line : n.by = u}}
            BY <3>1 DEF LogInv, HeldLast
        <3> QED
            BY <2>1, <3>3, <3>6, <3>7
    <2> QED
        BY <2>2, <2>3
<1>10. NothingLeft'
    BY <1>1, <1>2 DEF LogInv, NothingLeft
<1> QED
    BY <1>6, <1>7, <1>8, <1>9, <1>10 DEF LogInv

LEMMA SwapStep == ASSUME LogInv, Swap PROVE LogInv'
<1>1. /\ q2 = <<>> /\ q2' = q1 /\ q1' = <<>>
      /\ UNCHANGED <<conf, clock, lives, began, alive, count, held, file, nextRoll,
                     cur, writes, dropped, flushed, gone>>
    BY DEF Swap
<1>2. TypeOK'
    BY <1>1 DEF LogInv, TypeOK
<1>3. Durable' /\ ThreadOrder' /\ WrittenSoFar'
    BY <1>1, SameFiles, TypeParts DEF LogInv
<1>4. QueuesInOrder'
    BY <1>1 DEF LogInv, QueuesInOrder, Sorted, Precedes, Follows, Current
<1>5. HeldLast'
    BY <1>1 DEF LogInv, HeldLast, Precedes, Follows, Current
<1>6. NothingLeft'
    BY <1>1 DEF LogInv, NothingLeft
<1> QED
    BY <1>2, <1>3, <1>4, <1>5, <1>6 DEF LogInv

LEMMA WriteNextStep == ASSUME LogInv, WriteNext PROVE LogInv'
<1> DEFINE l == Head(q2)
<1>1. /\ q2 # <<>> /\ Write(l) /\ q2' = Tail(q2)
      /\ UNCHANGED <<conf, clock, lives, began, alive, count, held, q1, gone>>
      /\ TypeOK /\ Durable
    BY DEF WriteNext, LogInv
<1>2. /\ q2' \in Seq(Line) /\ Len(q2') = Len(q2) - 1 /\ Len(q2) \in Nat \ {0}
      /\ l = q2[1] /\ l \in Line /\ 1 \in 1..Len(q2)
      /\ \A i \in 1..Len(q2') : q2'[i] = q2[i + 1] /\ i + 1 \in 1..Len(q2)
    BY <1>1, TypeParts
<1> HIDE DEF l
<1>3. NextWritten(l)
    BY <1>2 DEF NextWritten, LogInv, QueuesInOrder, Current, Follows
<1>4. TypeOK' /\ Durable'
    <2>1. /\ file' \in FileName /\ cur' \in 0..conf.cnt /\ nextRoll' \in Int
          /\ dropped' \in Seq(Line) /\ flushed' \in 0..Len(writes') /\ Durable'
        BY <1>1, <1>2, WriteFiles
    <2>2. writes' \in Seq(Entry)
        BY <1>1, <1>3, WriteOrder
    <2> QED
        BY <1>1, <1>2, <2>1, <2>2 DEF TypeOK, Entry
<1>5. ThreadOrder' /\ WrittenSoFar'
    BY <1>1, <1>3, WriteOrder
<1>6. QueuesInOrder'
    <2>1. Sorted(q1)' /\ Current(q1)'
        BY <1>1 DEF LogInv, QueuesInOrder, Sorted, Current
    <2>2. Current(q2)'
        BY <1>1, <1>2 DEF LogInv, QueuesInOrder, Current
    <2>3. Sorted(q2)'
        BY <1>1, <1>2 DEF LogInv, QueuesInOrder, Sorted
    <2>4. Precedes(q2, q1)'
        BY <1>1, <1>2 DEF LogInv, QueuesInOrder, Precedes
    <2>5. Follows(q1)'
        <3>1. \A j \in 1..Len(q1) : l.by = q1[j].by => l.id < q1[j].id
            BY <1>2 DEF LogInv, QueuesInOrder, Precedes
        <3>2. Follows(q1)
            BY DEF LogInv, QueuesInOrder
        <3> QED
            BY <1>1, <1>3, <3>1, <3>2, StillFollows DEF Follows
    <2>6. Follows(q2)'
        <3>1. \A j \in 1..Len(q2') : l.by = q2'[j].by => l.id < q2'[j].id
            BY <1>2 DEF LogInv, QueuesInOrder, Sorted
        <3>2. Follows(q2')
            BY <1>2 DEF LogInv, QueuesInOrder, Follows
        <3> QED
            BY <1>1, <1>3, <3>1, <3>2, StillFollows DEF Follows
    <2> QED
        BY <2>1, <2>2, <2>3, <2>4, <2>5, <2>6 DEF QueuesInOrder
<1>7. HeldLast'
    <2> SUFFICES ASSUME NEW u \in Thread
                 PROVE  /\ held[u] \in {<<>>} \cup {<<m>> : m \in {n \in Line : n.by = u}}
                        /\ Current(held[u])' /\ Follows(held[u])'
                        /\ Precedes(q1, held[u])' /\ Precedes(q2, held[u])'
        BY <1>1 DEF HeldLast
    <2>1. /\ held[u] \in {<<>>} \cup {<<m>> : m \in {n \in Line : n.by = u}}
          /\ Current(held[u]) /\ Follows(held[u])
          /\ Precedes(q1, held[u]) /\ Precedes(q2, held[u])
        BY DEF LogInv, HeldLast
    <2>2. Current(held[u])' /\ Precedes(q1, held[u])'
        BY <1>1, <2>1 DEF Current, Precedes
    <2>3. Precedes(q2, held[u])'
        BY <1>1, <1>2, <2>1 DEF Precedes
    <2>4. \A j \in 1..Len(held[u]) : l.by = held[u][j].by => l.id < held[u][j].id
        BY <1>2, <2>1 DEF Precedes
    <2>5. Follows(held[u])'
        BY <1>1, <1>3, <2>1, <2>4, StillFollows DEF Follows
    <2> QED
        BY <2>1, <2>2, <2>3, <2>5
<1>8. NothingLeft'
    BY <1>1 DEF LogInv, NothingLeft
<1> QED
    BY <1>4, <1>5, <1>6, <1>7, <1>8 DEF LogInv

LEMMA Narrower ==
    ASSUME NEW a \in Int, NEW b \in Int, NEW n \in Int, a <= b
    PROVE  (b + 1)..n \subseteq (a + 1)..n
    OBVIOUS

LEMMA SpillStep == ASSUME LogInv, Spill PROVE LogInv'
<1>1. /\ flushed' \in (flushed + 1)..Len(writes)
      /\ UNCHANGED <<conf, clock, lives, began, alive, count, held, q1, q2, file,
                     nextRoll, cur, writes, dropped, gone>>
      /\ flushed \in 0..Len(writes) /\ Len(writes) \in Nat
    BY TypeParts DEF Spill, LogInv
<1>2. TypeOK'
    BY <1>1 DEF LogInv, TypeOK
<1>3. Durable'
    <2>1. flushed \in Int /\ flushed' \in Int /\ flushed <= flushed' /\ Len(writes) \in Int
        BY <1>1
    <2>2. (flushed' + 1)..Len(writes) \subseteq (flushed + 1)..Len(writes)
        BY <2>1, Narrower
    <2> QED
        BY <1>1, <2>2 DEF LogInv, Durable
<1>4. ThreadOrder' /\ WrittenSoFar' /\ NothingLeft'
    BY <1>1 DEF LogInv, ThreadOrder, WrittenSoFar, NothingLeft
<1>5. HeldLast'
    BY <1>1 DEF LogInv, HeldLast, Precedes, Follows, Current
<1>6. QueuesInOrder'
    BY <1>1 DEF LogInv, QueuesInOrder, Sorted, Precedes, Follows, Current
<1> QED
    BY <1>2, <1>3, <1>4, <1>5, <1>6 DEF LogInv

LEMMA TickStep == ASSUME LogInv, Tick PROVE LogInv'
<1>1. /\ clock' = clock + 1
      /\ UNCHANGED <<conf, lives, began, alive, count, held, q1, q2, file, nextRoll, cur,
                     writes, dropped, flushed, gone>>
    BY DEF Tick
<1>2. TypeOK'
    BY <1>1 DEF LogInv, TypeOK
<1>3. Durable' /\ ThreadOrder' /\ WrittenSoFar' /\ NothingLeft'
    BY <1>1 DEF LogInv, Durable, ThreadOrder, WrittenSoFar, NothingLeft
<1>4. HeldLast'
    BY <1>1 DEF LogInv, HeldLast, Precedes, Follows, Current
<1>5. QueuesInOrder'
    BY <1>1 DEF LogInv, QueuesInOrder, Sorted, Precedes, Follows, Current
<1> QED
    BY <1>2, <1>3, <1>4, <1>5 DEF LogInv

LEMMA EndStep == ASSUME LogInv, NEW kept \in 0..Len(writes), End(kept) PROVE LogInv'
<1>1. /\ alive' = FALSE /\ writes' = SubSeq(writes, 1, kept) /\ flushed' = kept
      /\ gone' = gone \cup Pending \cup LostFrom(kept)
      /\ q1' = <<>> /\ q2' = <<>>
      /\ held' = [t \in Thread |-> <<>>]
      /\ file' = NoFile
      /\ UNCHANGED <<conf, clock, lives, began, count, nextRoll, cur, dropped>>
    BY DEF End
<1>2. /\ TypeOK /\ writes \in Seq(Entry) /\ Len(writes) \in Nat
      /\ q1 \in Seq(Line) /\ q2 \in Seq(Line) /\ held \in [Thread -> Seq(Line)]
    BY TypeParts DEF LogInv
<1>3. /\ writes' \in Seq(Entry) /\ Len(writes') = kept
      /\ \A k \in 1..kept : k \in 1..Len(writes) /\ writes'[k] = writes[k]
    BY <1>1, <1>2
<1>4. gone' \subseteq Line
    <2>1. Pending \subseteq Line
        BY <1>2 DEF Pending, ToSet
    <2>2. \A k \in (kept + 1)..Len(writes) : writes[k].line \in Line
        <3>1. \A k \in (kept + 1)..Len(writes) : writes[k] \in Entry
            BY <1>2
        <3> QED
            BY <3>1 DEF Entry
    <2> QED
        BY <1>1, <1>2, <2>1, <2>2 DEF TypeOK, LostFrom
<1>5. TypeOK'
    <2>1. held' \in [Thread -> Seq(Line)] /\ q1' \in Seq(Line) /\ q2' \in Seq(Line)
        BY <1>1
    <2>2. flushed' \in 0..Len(writes') /\ file' \in FileName
        BY <1>1, <1>3 DEF FileName
    <2> QED
        BY <1>1, <1>2, <1>3, <1>4, <2>1, <2>2 DEF TypeOK, Entry
<1>6. Durable' /\ ThreadOrder' /\ WrittenSoFar'
    BY <1>1, <1>3 DEF LogInv, Durable, ThreadOrder, WrittenSoFar
<1>7. HeldLast' /\ QueuesInOrder' /\ NothingLeft'
    BY <1>1 DEF HeldLast, QueuesInOrder, NothingLeft, Sorted, Precedes, Follows, Current
<1> QED
    BY <1>5, <1>6, <1>7 DEF LogInv

LEMMA StartStep == ASSUME LogInv, Start PROVE LogInv'
<1>1. /\ ~alive /\ alive' = TRUE /\ lives' = lives + 1 /\ began' = clock
      /\ nextRoll' = FirstRoll(clock) /\ cur' = 0
      /\ UNCHANGED <<conf, clock, count, held, q1, q2, file, writes, dropped, flushed, gone>>
      /\ TypeOK /\ lives \in Nat /\ clock \in Nat
    BY TypeParts DEF Start, LogInv
<1>2. q1 = <<>> /\ q2 = <<>> /\ \A t \in Thread : held[t] = <<>>
    BY <1>1 DEF LogInv, NothingLeft
<1>3. TypeOK'
    <2>1. nextRoll' \in Int /\ cur' \in 0..conf.cnt
        BY <1>1, RollType, ConfParts
    <2> QED
        BY <1>1, <2>1 DEF TypeOK
<1>4. WrittenSoFar'
    <2>1. \A k \in 1..Len(writes) : writes[k].line.life \in Nat
        <3>1. \A k \in 1..Len(writes) : writes[k] \in Entry
            BY TypeParts DEF LogInv
        <3> QED
            BY <3>1 DEF Entry, Line
    <2> QED
        BY <1>1, <2>1 DEF LogInv, WrittenSoFar
<1>5. HeldLast' /\ QueuesInOrder' /\ NothingLeft'
    BY <1>1, <1>2 DEF HeldLast, QueuesInOrder, NothingLeft, Sorted, Precedes, Follows, Current
<1> QED
    BY <1>1, <1>3, <1>4, <1>5 DEF LogInv, Durable, ThreadOrder

LEMMA NextInv == LogInv /\ [Next]_vars => LogInv'
<1> SUFFICES ASSUME LogInv, [Next]_vars PROVE LogInv'
    OBVIOUS
<1>1. ASSUME NEW t \in Thread, Log(t) \/ Queue(t) \/ WriteSync(t) PROVE LogInv'
    BY <1>1, LogStep, QueueStep, WriteSyncStep
<1>2. CASE LogThread \/ Spill \/ Tick \/ Start
    BY <1>2, SwapStep, WriteNextStep, SpillStep, TickStep, StartStep DEF LogThread
<1>3. CASE Exit \/ Kill
    BY <1>3, EndStep, TypeParts DEF Exit, Kill, LogInv
<1>4. CASE UNCHANGED vars
    <2>1. UNCHANGED <<conf, clock, lives, began, alive, count, held, q1, q2, file,
                      nextRoll, cur, writes, dropped, flushed, gone>>
        BY <1>4 DEF vars
    <2>2. TypeOK'
        BY <2>1 DEF LogInv, TypeOK
    <2>3. Durable' /\ ThreadOrder' /\ WrittenSoFar' /\ NothingLeft'
        BY <2>1 DEF LogInv, Durable, ThreadOrder, WrittenSoFar, NothingLeft
    <2>4. HeldLast'
        BY <2>1 DEF LogInv, HeldLast, Precedes, Follows, Current
    <2>5. QueuesInOrder'
        BY <2>1 DEF LogInv, QueuesInOrder, Sorted, Precedes, Follows, Current
    <2> QED
        BY <2>2, <2>3, <2>4, <2>5 DEF LogInv
<1> QED
    BY <1>1, <1>2, <1>3, <1>4 DEF Next

\* The invariant holds, for any threads, clocks, and starts of the process.
THEOREM LogInvariant == Spec => []LogInv
    BY InitInv, NextInv, PTL DEF Spec

\* Counters stay in range and the queues hold lines only.
THEOREM TypeCorrect == Spec => []TypeOK
<1>1. LogInv => TypeOK
    BY DEF LogInv
<1> QED
    BY <1>1, LogInvariant, PTL

\* The lines of a thread are written in the order it logged them, through the
\* queues of LogThread or without them (logger.h:219-341).
THEOREM ThreadOrderCorrect == Spec => []ThreadOrder
<1>1. LogInv => ThreadOrder
    BY DEF LogInv
<1> QED
    BY <1>1, LogInvariant, PTL

\* What stdio has not passed on is the end of the file that is open
\* (logger.h:45-115, 145-165).
THEOREM DurableCorrect == Spec => []Durable
<1>1. LogInv => Durable
    BY DEF LogInv
<1> QED
    BY <1>1, LogInvariant, PTL
----------------------------------------------------------------------------
(* Where a line is: in q1 or q2, in the files, with a thread, or lost.     *)

Held == UNION {ToSet(held[t]) : t \in Thread}
InQueue(q, n) == {k \in 1..Len(q) : q[k].id = n}
InFiles(n) == {k \in 1..Len(writes) : writes[k].file # NoFile /\ writes[k].line.id = n}
InDropped(n) == InQueue(dropped, n)
InHand(n) == {l \in Held : l.id = n}
InGone(n) == {l \in gone : l.id = n}

Alone(S, A, B, C, D, E) ==
    (\E x : S = {x}) /\ A = {} /\ B = {} /\ C = {} /\ D = {} /\ E = {}

Placed(n) ==
    LET a == InQueue(q1, n)
        b == InQueue(q2, n)
        c == InFiles(n)
        d == InHand(n)
        e == InGone(n)
        f == InDropped(n)
    IN  \/ Alone(a, b, c, d, e, f) \/ Alone(b, a, c, d, e, f) \/ Alone(c, a, b, d, e, f)
        \/ Alone(d, a, b, c, e, f) \/ Alone(e, a, b, c, d, f) \/ Alone(f, a, b, c, d, e)

\* LineOnce with nothing counted, for the lines numbered so far.
OnceInv ==
    /\ \A l \in gone : l.id <= count
    /\ \A k \in 1..Len(dropped) : dropped[k].id <= count
    /\ \A n \in 1..count : Placed(n)

\* What is held: the one line of each thread that has one.
OneEach(h) == \A t \in Thread : h[t] \in {<<>>} \cup {<<l>> : l \in {m \in Line : m.by = t}}

LEMMA HeldIs ==
    ASSUME NEW h, OneEach(h)
    PROVE  UNION {ToSet(h[t]) : t \in Thread} = {l \in Line : h[l.by] = <<l>>}
<1> DEFINE H == UNION {ToSet(h[t]) : t \in Thread}
<1>1. ASSUME NEW l \in H PROVE l \in Line /\ h[l.by] = <<l>>
    <2>1. PICK t \in Thread : l \in ToSet(h[t])
        BY <1>1
    <2>2. h[t] # <<>>
        BY <2>1 DEF ToSet
    <2>3. PICK m \in Line : m.by = t /\ h[t] = <<m>>
        BY <2>2 DEF OneEach
    <2>4. ToSet(h[t]) = {m}
        BY <2>3 DEF ToSet
    <2> QED
        BY <2>1, <2>3, <2>4
<1>2. ASSUME NEW l \in Line, h[l.by] = <<l>> PROVE l \in H
    <2>1. l.by \in Thread
        BY DEF Line
    <2>2. l \in ToSet(h[l.by])
        BY <1>2 DEF ToSet
    <2> QED
        BY <2>1, <2>2
<1> HIDE DEF H
<1> QED
    BY <1>1, <1>2 DEF H

\* A thread stamps a line, and lets go of it.
LEMMA HeldMore ==
    ASSUME LogInv, LogInv', NEW t \in Thread, NEW l \in Line, held[t] = <<>>, l.by = t,
           held' = [held EXCEPT ![t] = <<l>>]
    PROVE  Held' = Held \cup {l}
<1>1. \A u \in Thread : held'[u] = IF u = t THEN <<l>> ELSE held[u]
    BY TypeParts DEF LogInv
<1>2. \A m \in Line : m.by \in Thread /\ (<<m>> = <<l>> => m = l) /\ <<m>> # <<>>
    BY DEF Line
<1>3. \A m \in Line : held'[m.by] = <<m>> <=> held[m.by] = <<m>> \/ m = l
    BY <1>1, <1>2
<1>4. OneEach(held) /\ OneEach(held')
    BY DEF LogInv, HeldLast, OneEach
<1>5. Held = {m \in Line : held[m.by] = <<m>>}
    BY <1>4, HeldIs DEF Held
<1>6. Held' = {m \in Line : held'[m.by] = <<m>>}
    BY <1>4, HeldIs DEF Held, OneEach, ToSet
<1> QED
    BY <1>3, <1>5, <1>6

LEMMA HeldLess ==
    ASSUME LogInv, LogInv', NEW t \in Thread, NEW l \in Line, held[t] = <<l>>, l.by = t,
           held' = [held EXCEPT ![t] = <<>>]
    PROVE  l \in Held /\ Held' = Held \ {l}
<1>1. \A u \in Thread : held'[u] = IF u = t THEN <<>> ELSE held[u]
    BY TypeParts DEF LogInv
<1>2. \A m \in Line : m.by \in Thread /\ (<<m>> = <<l>> => m = l) /\ <<m>> # <<>>
    BY DEF Line
<1>3. \A m \in Line : held'[m.by] = <<m>> <=> held[m.by] = <<m>> /\ m # l
    BY <1>1, <1>2
<1>4. OneEach(held) /\ OneEach(held')
    BY DEF LogInv, HeldLast, OneEach
<1>5. Held = {m \in Line : held[m.by] = <<m>>}
    BY <1>4, HeldIs DEF Held
<1>6. Held' = {m \in Line : held'[m.by] = <<m>>}
    BY <1>4, HeldIs DEF Held, OneEach, ToSet
<1> QED
    BY <1>3, <1>5, <1>6

\* Positions in a queue that is added to at the end, or read from its head.
LEMMA QueueMore ==
    ASSUME NEW q \in Seq(Line), NEW l \in Line, NEW n
    PROVE  InQueue(Append(q, l), n) = IF l.id = n THEN InQueue(q, n) \cup {Len(q) + 1}
                                      ELSE InQueue(q, n)
    BY DEF InQueue

LEMMA QueueLess ==
    ASSUME NEW q \in Seq(Line), q # <<>>, NEW n
    PROVE  /\ 1 \in InQueue(q, n) <=> Head(q).id = n
           /\ \A x : InQueue(q, n) = {x} =>
                  InQueue(Tail(q), n) = IF Head(q).id = n THEN {} ELSE {x - 1}
           /\ InQueue(q, n) = {} => InQueue(Tail(q), n) = {}
<1>1. /\ Len(q) \in Nat \ {0} /\ Len(Tail(q)) = Len(q) - 1 /\ Head(q) = q[1]
      /\ \A k \in 1..Len(Tail(q)) : Tail(q)[k] = q[k + 1]
    OBVIOUS
<1>2. \A k \in Int : k \in InQueue(Tail(q), n) <=> k + 1 \in InQueue(q, n) /\ k # 0
    BY <1>1 DEF InQueue
<1>3. InQueue(Tail(q), n) \subseteq Int /\ InQueue(q, n) \subseteq 1..Len(q)
    BY <1>1 DEF InQueue
<1>4. 1 \in InQueue(q, n) <=> Head(q).id = n
    BY <1>1 DEF InQueue
<1>5. ASSUME NEW x, InQueue(q, n) = {x}
      PROVE  InQueue(Tail(q), n) = IF Head(q).id = n THEN {} ELSE {x - 1}
    <2>1. x \in Int /\ (Head(q).id = n <=> x = 1)
        BY <1>3, <1>4, <1>5
    <2> QED
        BY <1>2, <1>3, <1>5, <2>1
<1> QED
    BY <1>2, <1>3, <1>4, <1>5

\* Nothing is numbered ahead of count.
LEMMA NumberedSoFar ==
    ASSUME LogInv, OnceInv
    PROVE  /\ \A k \in 1..Len(q1) : q1[k].id <= count
           /\ \A k \in 1..Len(q2) : q2[k].id <= count
           /\ \A k \in 1..Len(writes) : writes[k].line.id <= count
           /\ \A l \in Held : l.id <= count /\ l \in Line
           /\ \A l \in gone : l.id <= count
           /\ \A k \in 1..Len(dropped) : dropped[k].id <= count
<1>1. ASSUME NEW l \in Held PROVE l.id <= count /\ l \in Line
    <2>1. OneEach(held)
        BY DEF LogInv, HeldLast, OneEach
    <2>2. l \in Line /\ held[l.by] = <<l>>
        BY <1>1, <2>1, HeldIs DEF Held
    <2>3. Len(held[l.by]) = 1 /\ held[l.by][1] = l /\ l.by \in Thread
        BY <2>2 DEF Line
    <2> QED
        BY <2>2, <2>3 DEF LogInv, HeldLast, Current
<1> QED
    BY <1>1 DEF LogInv, OnceInv, QueuesInOrder, Current, WrittenSoFar

\* The line that Log makes.
LEMMA NewLine ==
    ASSUME LogInv, NEW t \in Thread, Log(t)
    PROVE  \E l \in Line : /\ held' = [held EXCEPT ![t] = <<l>>]
                           /\ l.id = count + 1 /\ l.by = t /\ l.time = clock
                           /\ l.life = lives /\ l.bytes \in 1..conf.most
<1>1. PICK n \in 1..conf.most :
          held' = [held EXCEPT ![t] = <<[id |-> count + 1, by |-> t, time |-> clock,
                                         life |-> lives, bytes |-> n]>>]
    BY DEF Log
<1> DEFINE new == [id |-> count + 1, by |-> t, time |-> clock, life |-> lives, bytes |-> n]
<1>2. new \in Line
    BY TypeParts, ConfParts DEF LogInv, Line
<1>3. /\ new.id = count + 1 /\ new.by = t /\ new.time = clock
      /\ new.life = lives /\ new.bytes = n
    OBVIOUS
<1>4. held' = [held EXCEPT ![t] = <<new>>]
    BY <1>1
<1> QED
    BY <1>2, <1>3, <1>4

LEMMA LogOnce == ASSUME LogInv, LogInv', OnceInv, NEW t \in Thread, Log(t) PROVE OnceInv'
<1>1. /\ held[t] = <<>> /\ count' = count + 1 /\ UNCHANGED <<q1, q2, writes, gone, dropped>>
      /\ \E l \in Line : /\ held' = [held EXCEPT ![t] = <<l>>]
                         /\ l.id = count + 1 /\ l.by = t
      /\ count \in Nat
    BY NewLine, TypeParts DEF Log, LogInv
<1>2. PICK new \in Line : /\ held' = [held EXCEPT ![t] = <<new>>]
                          /\ new.id = count + 1 /\ new.by = t
    BY <1>1
<1>3. Held' = Held \cup {new}
    BY <1>1, <1>2, HeldMore
<1>4. ASSUME NEW n \in 1..count PROVE Placed(n)'
    <2>1. Placed(n)
        BY DEF OnceInv
    <2>2. /\ InQueue(q1, n)' = InQueue(q1, n) /\ InQueue(q2, n)' = InQueue(q2, n)
          /\ InFiles(n)' = InFiles(n) /\ InGone(n)' = InGone(n) /\ InHand(n)' = InHand(n)
          /\ InDropped(n)' = InDropped(n)
        BY <1>1, <1>2, <1>3 DEF InQueue, InFiles, InGone, InHand, InDropped
    <2> QED
        BY <2>1, <2>2 DEF Placed
<1>5. ASSUME NEW n \in Int, n = count + 1 PROVE Placed(n)'
    <2>1. \A i \in Int : i <= count => i # n
        BY <1>1, <1>5
    <2>2. /\ \A k \in 1..Len(q1) : q1[k] \in Line
          /\ \A k \in 1..Len(q2) : q2[k] \in Line
          /\ \A k \in 1..Len(writes) : writes[k] \in Entry
          /\ \A k \in 1..Len(dropped) : dropped[k] \in Line
        BY TypeParts DEF LogInv
    <2>3. /\ \A l \in Line : l.id \in Int
          /\ \A e \in Entry : e.line.id \in Int
        BY DEF Line, Entry
    <2>4. /\ \A k \in 1..Len(q1) : q1[k].id # n
          /\ \A k \in 1..Len(q2) : q2[k].id # n
          /\ \A k \in 1..Len(writes) : writes[k].line.id # n
          /\ \A k \in 1..Len(dropped) : dropped[k].id # n
        BY <2>1, <2>2, <2>3, NumberedSoFar
    <2>5. \A l \in Held \cup gone : l.id # n
        BY <2>1, <2>3, NumberedSoFar DEF LogInv, TypeOK
    <2>6. /\ InQueue(q1, n)' = {} /\ InQueue(q2, n)' = {} /\ InFiles(n)' = {}
          /\ InDropped(n)' = {}
        BY <1>1, <2>4 DEF InQueue, InFiles, InDropped
    <2>7. InGone(n)' = {} /\ InHand(n)' = {new}
        BY <1>1, <1>2, <1>3, <1>5, <2>5 DEF InGone, InHand
    <2> QED
        BY <2>6, <2>7 DEF Placed, Alone
<1>6. \A l \in gone' : l.id <= count'
    <2>1. \A l \in Line : l.id \in Int
        BY DEF Line
    <2>2. \A l \in gone : l \in Line /\ l.id <= count
        BY DEF OnceInv, LogInv, TypeOK
    <2> QED
        BY <1>1, <1>2, <2>1, <2>2
<1>7. ASSUME NEW n \in 1..count' PROVE Placed(n)'
    <2>1. n \in 1..count \/ n = count + 1
        BY <1>1, <1>2
    <2> QED
        BY <1>4, <1>5, <2>1
<1>8. \A k \in 1..Len(dropped') : dropped'[k].id <= count'
    <2>1. \A k \in 1..Len(dropped) : dropped[k] \in Line /\ dropped[k].id <= count
        BY TypeParts, NumberedSoFar DEF LogInv
    <2>2. \A l \in Line : l.id \in Int
        BY DEF Line
    <2> QED
        BY <1>1, <2>1, <2>2
<1> QED
    BY <1>6, <1>7, <1>8 DEF OnceInv

LEMMA QueueOnce == ASSUME LogInv, LogInv', OnceInv, NEW t \in Thread, Queue(t) PROVE OnceInv'
<1>1. /\ held[t] # <<>> /\ q1' = q1 \o held[t] /\ held' = [held EXCEPT ![t] = <<>>]
      /\ UNCHANGED <<q2, writes, gone, count, dropped>>
    BY DEF Queue
<1>2. PICK l \in Line : held[t] = <<l>> /\ l.by = t
    BY <1>1, HeldLine
<1>3. l \in Held /\ Held' = Held \ {l}
    BY <1>1, <1>2, HeldLess
<1>4. q1' = Append(q1, l) /\ q1 \in Seq(Line)
    BY <1>1, <1>2, TypeParts DEF LogInv
<1>5. ASSUME NEW n \in 1..count PROVE Placed(n)'
    <2>1. Placed(n)
        BY DEF OnceInv
    <2>2. /\ InQueue(q2, n)' = InQueue(q2, n) /\ InFiles(n)' = InFiles(n)
          /\ InGone(n)' = InGone(n) /\ InDropped(n)' = InDropped(n)
        BY <1>1 DEF InQueue, InFiles, InGone, InDropped
    <2>3. InQueue(q1, n)' = IF l.id = n THEN InQueue(q1, n) \cup {Len(q1) + 1}
                            ELSE InQueue(q1, n)
        BY <1>4, QueueMore DEF InQueue
    <2>4. InHand(n)' = InHand(n) \ {l} /\ (l.id = n <=> l \in InHand(n))
        BY <1>3 DEF InHand
    <2>5. CASE l.id = n
        BY <2>1, <2>2, <2>3, <2>4, <2>5 DEF Placed, Alone
    <2>6. CASE l.id # n
        <3>1. InHand(n)' = InHand(n) /\ InQueue(q1, n)' = InQueue(q1, n)
            BY <2>3, <2>4, <2>6
        <3> QED
            BY <2>1, <2>2, <3>1 DEF Placed
    <2> QED
        BY <2>5, <2>6
<1> QED
    BY <1>1, <1>5 DEF OnceInv

\* What Write adds to the files, or to what is dropped.
LEMMA FilesMore ==
    ASSUME LogInv, NEW l \in Line, Write(l), NEW n
    PROVE  /\ l.id # n => InFiles(n)' = InFiles(n) /\ InDropped(n)' = InDropped(n)
           /\ l.id = n =>
                \/ /\ InFiles(n)' = InFiles(n) \cup {Len(writes) + 1}
                   /\ InDropped(n)' = InDropped(n)
                \/ /\ InFiles(n)' = InFiles(n)
                   /\ InDropped(n)' = InDropped(n) \cup {Len(dropped) + 1}
           /\ \A k \in 1..Len(dropped') :
                  dropped'[k] = l \/ (k \in 1..Len(dropped) /\ dropped'[k] = dropped[k])
<1>1. PICK o \in IF conf.rolling THEN RollingFiles ELSE DailyFiles(l) :
          /\ writes' = Append(writes, [file |-> o.file, line |-> l])
          /\ dropped' = IF o.file = NoFile THEN Append(dropped, l) ELSE dropped
    BY DEF Write
<1>2. /\ [file |-> o.file, line |-> l] \in Entry /\ writes \in Seq(Entry)
      /\ Len(writes) \in Nat /\ dropped \in Seq(Line)
    BY Chosen, TypeParts DEF LogInv, Entry
<1>3. /\ Len(writes') = Len(writes) + 1 /\ writes'[Len(writes) + 1].line = l
      /\ writes'[Len(writes) + 1].file = o.file
      /\ \A k \in 1..Len(writes) : writes'[k] = writes[k]
    BY <1>1, <1>2
<1>4. InFiles(n)' = IF l.id = n /\ o.file # NoFile THEN InFiles(n) \cup {Len(writes) + 1}
                    ELSE InFiles(n)
    BY <1>2, <1>3 DEF InFiles
<1>5. InDropped(n)' = IF l.id = n /\ o.file = NoFile
                      THEN InDropped(n) \cup {Len(dropped) + 1} ELSE InDropped(n)
    BY <1>1, <1>2, QueueMore DEF InDropped, InQueue
<1>6. \A k \in 1..Len(dropped') :
          dropped'[k] = l \/ (k \in 1..Len(dropped) /\ dropped'[k] = dropped[k])
    BY <1>1, <1>2
<1> QED
    BY <1>4, <1>5, <1>6

LEMMA WriteSyncOnce ==
    ASSUME LogInv, LogInv', OnceInv, NEW t \in Thread, WriteSync(t) PROVE OnceInv'
<1>1. /\ held[t] # <<>> /\ Write(held[t][1]) /\ held' = [held EXCEPT ![t] = <<>>]
      /\ UNCHANGED <<q1, q2, gone, count>>
    BY DEF WriteSync
<1>2. PICK l \in Line : held[t] = <<l>> /\ l.by = t
    BY <1>1, HeldLine
<1>3. l \in Held /\ Held' = Held \ {l} /\ Write(l)
    <2>1. held[t][1] = l
        BY <1>2
    <2> QED
        BY <1>1, <1>2, <2>1, HeldLess
<1>4. ASSUME NEW n \in 1..count PROVE Placed(n)'
    <2>1. Placed(n)
        BY DEF OnceInv
    <2>2. /\ InQueue(q1, n)' = InQueue(q1, n) /\ InQueue(q2, n)' = InQueue(q2, n)
          /\ InGone(n)' = InGone(n)
        BY <1>1 DEF InQueue, InGone
    <2>3. /\ l.id # n => InFiles(n)' = InFiles(n) /\ InDropped(n)' = InDropped(n)
          /\ l.id = n =>
               \/ /\ InFiles(n)' = InFiles(n) \cup {Len(writes) + 1}
                  /\ InDropped(n)' = InDropped(n)
               \/ /\ InFiles(n)' = InFiles(n)
                  /\ InDropped(n)' = InDropped(n) \cup {Len(dropped) + 1}
        BY <1>3, FilesMore
    <2>4. InHand(n)' = InHand(n) \ {l} /\ (l.id = n <=> l \in InHand(n))
        BY <1>3 DEF InHand
    <2>5. CASE l.id = n
        <3>1. /\ InHand(n) = {l} /\ InFiles(n) = {} /\ InGone(n) = {} /\ InDropped(n) = {}
              /\ InQueue(q1, n) = {} /\ InQueue(q2, n) = {}
            BY <2>1, <2>4, <2>5 DEF Placed, Alone
        <3>2. /\ InHand(n)' = {} /\ InGone(n)' = {}
              /\ InQueue(q1, n)' = {} /\ InQueue(q2, n)' = {}
              /\ \/ InFiles(n)' = {Len(writes) + 1} /\ InDropped(n)' = {}
                 \/ InFiles(n)' = {} /\ InDropped(n)' = {Len(dropped) + 1}
            BY <2>2, <2>3, <2>4, <2>5, <3>1
        <3> QED
            BY <3>2 DEF Placed, Alone
    <2>6. CASE l.id # n
        <3>1. /\ InHand(n)' = InHand(n) /\ InFiles(n)' = InFiles(n)
              /\ InDropped(n)' = InDropped(n)
            BY <2>3, <2>4, <2>6
        <3> QED
            BY <2>1, <2>2, <3>1 DEF Placed
    <2> QED
        BY <2>5, <2>6
<1>5. \A k \in 1..Len(dropped') : dropped'[k].id <= count
    <2>1. l.id <= count
        BY <1>3, NumberedSoFar
    <2> QED
        BY <1>3, <2>1, FilesMore DEF OnceInv
<1> QED
    BY <1>1, <1>4, <1>5 DEF OnceInv

LEMMA WriteNextOnce == ASSUME LogInv, OnceInv, WriteNext PROVE OnceInv'
<1> DEFINE l == Head(q2)
<1>1. /\ q2 # <<>> /\ Write(l) /\ q2' = Tail(q2) /\ q2 \in Seq(Line) /\ l \in Line
      /\ UNCHANGED <<held, q1, gone, count>>
    BY TypeParts DEF WriteNext, LogInv
<1> HIDE DEF l
<1>2. ASSUME NEW n \in 1..count PROVE Placed(n)'
    <2>1. Placed(n)
        BY DEF OnceInv
    <2>2. /\ InQueue(q1, n)' = InQueue(q1, n) /\ InHand(n)' = InHand(n)
          /\ InGone(n)' = InGone(n)
        BY <1>1 DEF InQueue, InHand, InGone, Held
    <2>3. /\ l.id # n => InFiles(n)' = InFiles(n) /\ InDropped(n)' = InDropped(n)
          /\ l.id = n =>
               \/ /\ InFiles(n)' = InFiles(n) \cup {Len(writes) + 1}
                  /\ InDropped(n)' = InDropped(n)
               \/ /\ InFiles(n)' = InFiles(n)
                  /\ InDropped(n)' = InDropped(n) \cup {Len(dropped) + 1}
        BY <1>1, FilesMore
    <2>4. InQueue(q2, n)' = InQueue(Tail(q2), n)
        BY <1>1 DEF InQueue
    <2>5. /\ 1 \in InQueue(q2, n) <=> l.id = n
          /\ \A x : InQueue(q2, n) = {x} =>
                 InQueue(Tail(q2), n) = IF l.id = n THEN {} ELSE {x - 1}
          /\ InQueue(q2, n) = {} => InQueue(Tail(q2), n) = {}
        BY <1>1, QueueLess DEF l
    <2>6. CASE l.id = n
        <3>1. /\ InHand(n) = {} /\ InFiles(n) = {} /\ InGone(n) = {} /\ InDropped(n) = {}
              /\ InQueue(q1, n) = {} /\ \E x : InQueue(q2, n) = {x}
            BY <2>1, <2>5, <2>6 DEF Placed, Alone
        <3>2. /\ InHand(n)' = {} /\ InGone(n)' = {}
              /\ InQueue(q1, n)' = {} /\ InQueue(q2, n)' = {}
              /\ \/ InFiles(n)' = {Len(writes) + 1} /\ InDropped(n)' = {}
                 \/ InFiles(n)' = {} /\ InDropped(n)' = {Len(dropped) + 1}
            BY <2>2, <2>3, <2>4, <2>5, <2>6, <3>1
        <3> QED
            BY <3>2 DEF Placed, Alone
    <2>7. CASE l.id # n
        <3>1. InFiles(n)' = InFiles(n) /\ InDropped(n)' = InDropped(n)
            BY <2>3, <2>7
        <3> QED
            BY <2>1, <2>2, <2>4, <2>5, <2>7, <3>1 DEF Placed, Alone
    <2> QED
        BY <2>6, <2>7
<1>3. \A k \in 1..Len(dropped') : dropped'[k].id <= count
    <2>1. l.id <= count
        <3>1. 1 \in 1..Len(q2) /\ l = q2[1]
            BY <1>1 DEF l
        <3> QED
            BY <3>1, NumberedSoFar
    <2> QED
        BY <1>1, <2>1, FilesMore DEF OnceInv
<1> QED
    BY <1>1, <1>2, <1>3 DEF OnceInv

LEMMA SwapOnce == ASSUME OnceInv, Swap PROVE OnceInv'
<1>1. /\ q2 = <<>> /\ q2' = q1 /\ q1' = <<>>
      /\ UNCHANGED <<held, writes, gone, count, dropped>>
    BY DEF Swap
<1>2. ASSUME NEW n \in 1..count PROVE Placed(n)'
    <2>1. Placed(n)
        BY DEF OnceInv
    <2>2. /\ InFiles(n)' = InFiles(n) /\ InHand(n)' = InHand(n) /\ InGone(n)' = InGone(n)
          /\ InQueue(q2, n)' = InQueue(q1, n)
          /\ InQueue(q1, n)' = {} /\ InQueue(q2, n) = {} /\ InDropped(n)' = InDropped(n)
        BY <1>1 DEF InQueue, InFiles, InHand, InGone, Held, InDropped
    <2> QED
        BY <2>1, <2>2 DEF Placed, Alone
<1> QED
    BY <1>1, <1>2 DEF OnceInv

LEMMA SameOnce ==
    ASSUME OnceInv, UNCHANGED <<held, q1, q2, writes, gone, count, dropped>> PROVE OnceInv'
<1>1. ASSUME NEW n \in 1..count PROVE Placed(n)'
    <2>1. Placed(n)
        BY DEF OnceInv
    <2>2. /\ InFiles(n)' = InFiles(n) /\ InHand(n)' = InHand(n) /\ InGone(n)' = InGone(n)
          /\ InQueue(q1, n)' = InQueue(q1, n) /\ InQueue(q2, n)' = InQueue(q2, n)
          /\ InDropped(n)' = InDropped(n)
        BY DEF InQueue, InFiles, InHand, InGone, Held, InDropped
    <2> QED
        BY <2>1, <2>2 DEF Placed
<1> QED
    BY <1>1 DEF OnceInv

\* The end of the process moves to gone what waits and what stdio still holds.
LEMMA EndOnce == ASSUME LogInv, OnceInv, NEW kept \in 0..Len(writes), End(kept) PROVE OnceInv'
<1>1. /\ writes' = SubSeq(writes, 1, kept)
      /\ gone' = gone \cup Pending \cup LostFrom(kept)
      /\ q1' = <<>> /\ q2' = <<>> /\ held' = [t \in Thread |-> <<>>]
      /\ count' = count /\ dropped' = dropped
    BY DEF End
<1>2. /\ writes \in Seq(Entry) /\ Len(writes) \in Nat /\ Len(writes') = kept
      /\ \A k \in 1..kept : k \in 1..Len(writes) /\ writes'[k] = writes[k]
      /\ 1..Len(writes) = 1..kept \cup (kept + 1)..Len(writes)
      /\ 1..kept \cap (kept + 1)..Len(writes) = {}
    BY <1>1, TypeParts DEF LogInv
<1>3. Pending = {q1[k] : k \in 1..Len(q1)} \cup {q2[k] : k \in 1..Len(q2)} \cup Held
    <2>1. \A q \in Seq(Line) : ToSet(q) = {q[k] : k \in 1..Len(q)}
        BY DEF ToSet
    <2>2. q1 \in Seq(Line) /\ q2 \in Seq(Line)
        BY TypeParts DEF LogInv
    <2>3. Pending = ToSet(q1) \cup ToSet(q2) \cup Held
        BY Zenon DEF Pending, Held
    <2>4. ToSet(q1) = {q1[k] : k \in 1..Len(q1)} /\ ToSet(q2) = {q2[k] : k \in 1..Len(q2)}
        BY <2>1, <2>2
    <2> QED
        BY <2>3, <2>4, Zenon
<1>4. Held' = {}
    BY <1>1 DEF Held, ToSet
<1>5. ASSUME NEW n \in 1..count PROVE Placed(n)'
    <2> DEFINE lostK == {k \in InFiles(n) : k > kept}
    <2>1. Placed(n)
        BY DEF OnceInv
    <2>2. /\ InQueue(q1, n)' = {} /\ InQueue(q2, n)' = {} /\ InHand(n)' = {}
          /\ InDropped(n)' = InDropped(n)
        BY <1>1, <1>4 DEF InQueue, InHand, InDropped
    <2>3. InFiles(n)' = InFiles(n) \ lostK
        BY <1>1, <1>2 DEF InFiles
    <2>4. InGone(n)' = InGone(n) \cup {q1[k] : k \in InQueue(q1, n)}
                       \cup {q2[k] : k \in InQueue(q2, n)} \cup InHand(n)
                       \cup {writes[k].line : k \in lostK}
        <3>1. \A l : l \in gone' <=> \/ l \in gone \/ l \in Held
                                     \/ \E k \in 1..Len(q1) : l = q1[k]
                                     \/ \E k \in 1..Len(q2) : l = q2[k]
                                     \/ \E k \in (kept + 1)..Len(writes) :
                                           writes[k].file # NoFile /\ l = writes[k].line
            BY <1>1, <1>3 DEF LostFrom
        <3>2. lostK = {k \in (kept + 1)..Len(writes) :
                           writes[k].file # NoFile /\ writes[k].line.id = n}
            BY <1>2 DEF InFiles
        <3> HIDE DEF lostK
        <3>3. \A l : l \in InGone(n)' <=> l \in gone' /\ l.id = n
            BY DEF InGone
        <3>4. \A l : l \in InGone(n) \cup InHand(n) <=> (l \in gone \/ l \in Held) /\ l.id = n
            BY DEF InGone, InHand
        <3>5. \A l : l \in {q1[k] : k \in InQueue(q1, n)}
                         <=> l.id = n /\ \E k \in 1..Len(q1) : l = q1[k]
            BY DEF InQueue
        <3>6. \A l : l \in {q2[k] : k \in InQueue(q2, n)}
                         <=> l.id = n /\ \E k \in 1..Len(q2) : l = q2[k]
            BY DEF InQueue
        <3>7. \A l : l \in {writes[k].line : k \in lostK}
                         <=> l.id = n /\ \E k \in (kept + 1)..Len(writes) :
                                            writes[k].file # NoFile /\ l = writes[k].line
            BY <3>2
        <3> QED
            BY <3>1, <3>3, <3>4, <3>5, <3>6, <3>7, Zenon
    <2>5. lostK \subseteq InFiles(n)
        OBVIOUS
    <2> DEFINE one == {q1[k] : k \in InQueue(q1, n)}
               two == {q2[k] : k \in InQueue(q2, n)}
               lost == {writes[k].line : k \in lostK}
    <2>6. /\ InQueue(q1, n) = {} => one = {}
          /\ InQueue(q2, n) = {} => two = {}
          /\ lostK = {} => lost = {}
          /\ \A x : InQueue(q1, n) = {x} => one = {q1[x]}
          /\ \A x : InQueue(q2, n) = {x} => two = {q2[x]}
          /\ \A x : lostK = {x} => lost = {writes[x].line}
        OBVIOUS
    <2>7. InGone(n)' = InGone(n) \cup one \cup two \cup InHand(n) \cup lost
        BY <2>4
    <2> HIDE DEF lostK, one, two, lost
    <2>8. CASE Alone(InQueue(q1, n), InQueue(q2, n), InFiles(n),
                     InHand(n), InGone(n), InDropped(n))
        <3>1. /\ InQueue(q2, n) = {} /\ InFiles(n) = {} /\ lostK = {}
              /\ InHand(n) = {} /\ InGone(n) = {} /\ InDropped(n) = {}
            BY <2>5, <2>8 DEF Alone
        <3>2. PICK x : InQueue(q1, n) = {x}
            BY <2>8 DEF Alone
        <3>3. one = {q1[x]} /\ two = {} /\ lost = {}
            BY <2>6, <3>1, <3>2
        <3>4. InGone(n)' = {q1[x]} /\ InFiles(n)' = {} /\ InDropped(n)' = {}
            BY <2>2, <2>3, <2>7, <3>1, <3>3
        <3> QED
            BY <2>2, <3>4 DEF Placed, Alone
    <2>9. CASE Alone(InQueue(q2, n), InQueue(q1, n), InFiles(n),
                     InHand(n), InGone(n), InDropped(n))
        <3>1. /\ InQueue(q1, n) = {} /\ InFiles(n) = {} /\ lostK = {}
              /\ InHand(n) = {} /\ InGone(n) = {} /\ InDropped(n) = {}
            BY <2>5, <2>9 DEF Alone
        <3>2. PICK x : InQueue(q2, n) = {x}
            BY <2>9 DEF Alone
        <3>3. two = {q2[x]} /\ one = {} /\ lost = {}
            BY <2>6, <3>1, <3>2
        <3>4. InGone(n)' = {q2[x]} /\ InFiles(n)' = {} /\ InDropped(n)' = {}
            BY <2>2, <2>3, <2>7, <3>1, <3>3
        <3> QED
            BY <2>2, <3>4 DEF Placed, Alone
    <2>10. CASE Alone(InFiles(n), InQueue(q1, n), InQueue(q2, n),
                      InHand(n), InGone(n), InDropped(n))
        <3>1. /\ InQueue(q1, n) = {} /\ InQueue(q2, n) = {}
              /\ InHand(n) = {} /\ InGone(n) = {} /\ InDropped(n) = {}
            BY <2>10 DEF Alone
        <3>2. PICK k : InFiles(n) = {k}
            BY <2>10 DEF Alone
        <3>3. CASE lostK = {}
            <4>1. InFiles(n)' = {k} /\ InGone(n)' = {} /\ InDropped(n)' = {}
                BY <2>2, <2>3, <2>6, <2>7, <3>1, <3>2, <3>3
            <4> QED
                BY <2>2, <4>1 DEF Placed, Alone
        <3>4. CASE lostK = {k}
            <4>1. InFiles(n)' = {} /\ InGone(n)' = {writes[k].line} /\ InDropped(n)' = {}
                BY <2>2, <2>3, <2>6, <2>7, <3>1, <3>2, <3>4
            <4> QED
                BY <2>2, <4>1 DEF Placed, Alone
        <3> QED
            BY <2>5, <3>2, <3>3, <3>4
    <2>11. CASE Alone(InHand(n), InQueue(q1, n), InQueue(q2, n),
                      InFiles(n), InGone(n), InDropped(n))
        <3>1. /\ \E x : InHand(n) = {x}
              /\ InQueue(q1, n) = {} /\ InQueue(q2, n) = {} /\ InFiles(n) = {}
              /\ lostK = {} /\ InGone(n) = {} /\ InDropped(n) = {}
            BY <2>5, <2>11 DEF Alone
        <3>2. /\ \E x : InGone(n)' = {x}
              /\ InFiles(n)' = {} /\ InDropped(n)' = {}
            BY <2>2, <2>3, <2>6, <2>7, <3>1
        <3> QED
            BY <2>2, <3>2 DEF Placed, Alone
    <2>12. CASE \/ Alone(InGone(n), InQueue(q1, n), InQueue(q2, n),
                         InFiles(n), InHand(n), InDropped(n))
                \/ Alone(InDropped(n), InQueue(q1, n), InQueue(q2, n),
                         InFiles(n), InHand(n), InGone(n))
        <3>1. /\ InQueue(q1, n) = {} /\ InQueue(q2, n) = {} /\ InFiles(n) = {}
              /\ lostK = {} /\ InHand(n) = {}
            BY <2>5, <2>12 DEF Alone
        <3>2. /\ InGone(n)' = InGone(n) /\ InDropped(n)' = InDropped(n)
              /\ InFiles(n)' = {}
            BY <2>2, <2>3, <2>6, <2>7, <3>1
        <3> QED
            BY <2>2, <2>12, <3>2 DEF Placed, Alone
    <2> QED
        BY <2>1, <2>8, <2>9, <2>10, <2>11, <2>12 DEF Placed
<1>6. \A l \in gone' : l.id <= count'
    <2>1. \A l \in Pending : l.id <= count
        BY <1>3, NumberedSoFar
    <2>2. \A k \in (kept + 1)..Len(writes) : writes[k].line.id <= count
        BY <1>2, NumberedSoFar
    <2> QED
        BY <1>1, <2>1, <2>2 DEF OnceInv, LostFrom
<1> QED
    BY <1>1, <1>5, <1>6 DEF OnceInv

\* Nothing that is lost was logged by the process that lives.
LostBefore == \A l \in gone : l.life \in Nat /\ l.life <= lives /\ (alive => l.life # lives)

LEMMA LostStep ==
    ASSUME LogInv, LostBefore, [Next]_vars PROVE LostBefore'
<1>1. lives \in Nat
    BY TypeParts DEF LogInv
<1>2. ASSUME NEW kept \in 0..Len(writes), End(kept) PROVE LostBefore'
    <2>1. /\ ~alive' /\ lives' = lives
          /\ gone' = gone \cup Pending \cup LostFrom(kept)
        BY <1>2 DEF End
    <2>2. \A l \in LostFrom(kept) : l.life \in Nat /\ l.life <= lives
        <3>1. Len(writes) \in Nat /\ \A k \in 1..Len(writes) : writes[k] \in Entry
            BY TypeParts DEF LogInv
        <3>2. \A k \in (kept + 1)..Len(writes) : k \in 1..Len(writes)
            BY <1>2, <3>1
        <3> QED
            BY <3>1, <3>2 DEF LostFrom, LogInv, WrittenSoFar, Entry, Line
    <2>3. \A l \in Pending : l.life = lives
        <3>1. \A s \in Seq(Line) : Current(s) => \A l \in ToSet(s) : l.life = lives
            BY DEF Current, ToSet
        <3>2. /\ q1 \in Seq(Line) /\ q2 \in Seq(Line)
              /\ \A t \in Thread : held[t] \in Seq(Line) /\ Current(held[t])
              /\ Current(q1) /\ Current(q2)
            BY TypeParts DEF LogInv, HeldLast, QueuesInOrder
        <3>3. \A l \in Pending :
                  l \in ToSet(q1) \/ l \in ToSet(q2) \/ \E t \in Thread : l \in ToSet(held[t])
            BY DEF Pending
        <3> QED
            BY <3>1, <3>2, <3>3
    <2> QED
        BY <1>1, <2>1, <2>2, <2>3 DEF LostBefore
<1>3. CASE Exit \/ Kill
    BY <1>2, <1>3, TypeParts DEF Exit, Kill, LogInv
<1>4. CASE Start
    BY <1>1, <1>4 DEF Start, LostBefore
<1>5. ASSUME NEW t \in Thread, Log(t) \/ Queue(t) \/ WriteSync(t) PROVE LostBefore'
    BY <1>5 DEF Log, Queue, WriteSync, LostBefore
<1>6. CASE LogThread \/ Spill \/ Tick \/ UNCHANGED vars
    BY <1>6 DEF LogThread, Swap, WriteNext, Spill, Tick, vars, LostBefore
<1> QED
    BY <1>3, <1>4, <1>5, <1>6 DEF Next

\* A line that is logged is in one place for good: with the thread that stamped
\* it, in a queue, in a file, dropped because no file could be opened
\* (logger.h:86-97), or lost with its process, never while that process lives;
\* the two queues of LogThread neither lose nor repeat one (logger.h:219-341).
THEOREM LineOnceCorrect == Spec => []LineOnce
<1>1. Init => OnceInv /\ LostBefore
    <2>1. Init => count = 0 /\ gone = {} /\ dropped = <<>>
        BY DEF Init
    <2> QED
        BY <2>1 DEF OnceInv, LostBefore
<1>2. LogInv /\ LogInv' /\ OnceInv /\ [Next]_vars => OnceInv'
    <2> SUFFICES ASSUME LogInv, LogInv', OnceInv, [Next]_vars PROVE OnceInv'
        OBVIOUS
    <2>1. ASSUME NEW t \in Thread, Log(t) \/ Queue(t) \/ WriteSync(t) PROVE OnceInv'
        BY <2>1, LogOnce, QueueOnce, WriteSyncOnce
    <2>2. CASE LogThread
        BY <2>2, SwapOnce, WriteNextOnce DEF LogThread
    <2>3. CASE Spill \/ Tick \/ Start \/ UNCHANGED vars
        BY <2>3, SameOnce DEF Spill, Tick, Start, vars
    <2>4. CASE Exit \/ Kill
        BY <2>4, EndOnce, TypeParts DEF Exit, Kill, LogInv
    <2> QED
        BY <2>1, <2>2, <2>3, <2>4 DEF Next
<1>3. LogInv /\ LostBefore /\ [Next]_vars => LostBefore'
    BY LostStep
<1>4. LogInv /\ OnceInv /\ LostBefore => LineOnce
    <2> SUFFICES ASSUME LogInv, OnceInv, LostBefore, NEW n \in 1..count
                 PROVE  Cardinality(InQueue(q1, n)) + Cardinality(InQueue(q2, n))
                          + Cardinality(InHand(n)) + Cardinality(InFiles(n))
                          + Cardinality(InDropped(n)) + Cardinality(InGone(n)) = 1
        BY DEF LineOnce, LostBefore, InQueue, InFiles, InHand, InGone, Held, InDropped
    <2>1. Placed(n)
        BY DEF OnceInv
    <2>2. Cardinality({}) = 0 /\ \A x : Cardinality({x}) = 1
        BY FS_EmptySet, FS_Singleton
    <2>3. \A A, B, C, D, E, S :
              Alone(S, A, B, C, D, E) => /\ Cardinality(S) = 1 /\ Cardinality(A) = 0
                                         /\ Cardinality(B) = 0 /\ Cardinality(C) = 0
                                         /\ Cardinality(D) = 0 /\ Cardinality(E) = 0
        BY <2>2 DEF Alone
    <2> QED
        BY <2>1, <2>3 DEF Placed
<1> QED
    BY <1>1, <1>2, <1>3, <1>4, LogInvariant, PTL DEF Spec

----------------------------------------------------------------------------
\* The bytes of file f, of lines of at most m, after the first n writes.
BytesOf(w, n, m, f) ==
    {b \in (1..n) \X (1..m) : w[b[1]].file = f /\ b[2] <= w[b[1]].line.bytes}
CountIn(w, n, m, f) == Cardinality(BytesOf(w, n, m, f))

\* Size of what is flushed.
Safe(f) == CountIn(writes, flushed, conf.most, f)

\* What a file may hold beyond its size and one line: a line more for each restart
\* and for each open that failed.  Each of them begins a new round through the
\* files.
Excess == conf.most * ((lives - 1) + Len(dropped))

LEMMA ExcessSteps ==
    ASSUME TypeOK, lives \in Nat \ {0}
    PROVE  /\ Excess \in Nat
           /\ conf' = conf /\ lives' = lives /\ Len(dropped') = Len(dropped)
                => Excess' = Excess
           /\ conf' = conf /\ lives' = lives /\ Len(dropped') = Len(dropped) + 1
                => Excess' = Excess + conf.most
           /\ conf' = conf /\ lives' = lives + 1 /\ Len(dropped') = Len(dropped)
                => Excess' = Excess + conf.most
<1>1. conf.most \in Nat /\ lives - 1 \in Nat /\ Len(dropped) \in Nat
    BY ConfParts, TypeParts
<1>2. \A m, a \in Nat : m * a \in Nat /\ m * (a + 1) = m * a + m
    OBVIOUS
<1> DEFINE n == (lives - 1) + Len(dropped)
           m == conf.most
<1>3. n \in Nat /\ Excess = m * n
    BY <1>1 DEF Excess
<1>4. conf' = conf /\ lives' = lives /\ Len(dropped') = Len(dropped) => m' = m /\ n' = n
    OBVIOUS
<1>5. /\ conf' = conf /\ lives' = lives /\ Len(dropped') = Len(dropped) + 1
            => m' = m /\ n' = n + 1
      /\ conf' = conf /\ lives' = lives + 1 /\ Len(dropped') = Len(dropped)
            => m' = m /\ n' = n + 1
    BY <1>1
<1>6. Excess' = m' * n' /\ m \in Nat
    BY <1>1 DEF Excess
<1> HIDE DEF n, m
<1>7. m * n \in Nat /\ m * (n + 1) = m * n + m
    BY <1>2, <1>3, <1>6
<1>8. /\ m' = m /\ n' = n => Excess' = Excess
      /\ m' = m /\ n' = n + 1 => Excess' = Excess + m
    BY <1>3, <1>6, <1>7
<1>9. m = conf.most
    BY DEF m
<1> QED
    BY <1>3, <1>4, <1>5, <1>7, <1>8, <1>9

\* The files a round that began at file s has been to, when it is at cur.
Visited(s, f) == IF s <= cur THEN s <= f /\ f <= cur ELSE s <= f \/ f <= cur

\* A round leaves a file only when it is full, and adds to it at most what it has
\* room for, or one line.
Round(s) ==
    \A f \in 1..conf.cnt :
        IF Visited(s, f)
        THEN /\ Size(f) < conf.size + conf.most + Excess
             /\ f # cur => Size(f) >= conf.size
        ELSE Size(f) < conf.size + Excess

\* As long as a file has room on the disk, which is never so again once it is not.
RollInv ==
    /\ lives \in Nat \ {0} /\ (~alive => file = NoFile)
    /\ conf.rolling => file = NoFile \/ (file = cur /\ cur \in 1..conf.cnt)
    /\ conf.rolling /\ (\E g \in 1..conf.cnt : Safe(g) < conf.size) =>
        IF ~alive THEN \A f \in 1..conf.cnt : Size(f) < conf.size + conf.most + Excess
        ELSE IF file = NoFile THEN \A f \in 1..conf.cnt : Size(f) < conf.size + Excess
        ELSE \E s \in 1..conf.cnt : Round(s)

LEMMA CountNat ==
    ASSUME NEW w, NEW n \in Nat, NEW m \in Nat, NEW f
    PROVE  IsFiniteSet(BytesOf(w, n, m, f)) /\ CountIn(w, n, m, f) \in Nat
<1>1. IsFiniteSet((1..n) \X (1..m))
    <2>1. IsFiniteSet(1..n) /\ IsFiniteSet(1..m)
        BY FS_Interval
    <2> QED
        BY <2>1, FS_Product, Zenon
<1>2. IsFiniteSet(BytesOf(w, n, m, f))
    BY <1>1, FS_Subset DEF BytesOf
<1> QED
    BY <1>2, FS_CardinalityType DEF CountIn

LEMMA CountMore ==
    ASSUME NEW w, NEW a \in Nat, NEW n \in Nat, a <= n, NEW m \in Nat, NEW f
    PROVE  CountIn(w, a, m, f) <= CountIn(w, n, m, f)
<1>1. BytesOf(w, a, m, f) \subseteq BytesOf(w, n, m, f)
    BY DEF BytesOf
<1> QED
    BY <1>1, CountNat, FS_Subset DEF CountIn

LEMMA CountSame ==
    ASSUME NEW v, NEW w, NEW n \in Nat, NEW m \in Nat, NEW f,
           \A k \in 1..n : v[k] = w[k]
    PROVE  CountIn(v, n, m, f) = CountIn(w, n, m, f)
<1>1. BytesOf(v, n, m, f) = BytesOf(w, n, m, f)
    BY DEF BytesOf
<1> QED
    BY <1>1 DEF CountIn

\* A line adds its bytes to the file it goes to, and to no other.
LEMMA CountNext ==
    ASSUME NEW w, NEW n \in Nat, NEW m \in Nat, NEW f
    PROVE  /\ w[n + 1].file # f => CountIn(w, n + 1, m, f) = CountIn(w, n, m, f)
           /\ CountIn(w, n, m, f) <= CountIn(w, n + 1, m, f)
           /\ CountIn(w, n + 1, m, f) <= CountIn(w, n, m, f) + m
<1> DEFINE S == BytesOf(w, n, m, f)
           T == BytesOf(w, n + 1, m, f)
           U == {n + 1} \X (1..m)
<1>1. CountIn(w, n, m, f) = Cardinality(S) /\ CountIn(w, n + 1, m, f) = Cardinality(T)
    BY DEF CountIn
<1>2. IsFiniteSet(S) /\ IsFiniteSet(T) /\ Cardinality(S) \in Nat /\ Cardinality(T) \in Nat
    <2>1. n + 1 \in Nat
        OBVIOUS
    <2> QED
        BY <1>1, <2>1, CountNat
<1>3. S \subseteq T /\ T \subseteq S \cup U
    BY DEF BytesOf
<1>4. w[n + 1].file # f => T \subseteq S
    BY DEF BytesOf
<1>5. IsFiniteSet(U) /\ Cardinality(U) = m
    <2>1. IsFiniteSet({n + 1}) /\ Cardinality({n + 1}) = 1
        BY FS_Singleton
    <2>2. IsFiniteSet(1..m) /\ Cardinality(1..m) = m
        BY FS_Interval
    <2>3. IsFiniteSet(U) /\ Cardinality(U) = Cardinality({n + 1}) * Cardinality(1..m)
        BY <2>1, <2>2, FS_Product, Zenon
    <2>4. 1 * m = m
        OBVIOUS
    <2> QED
        BY <2>1, <2>2, <2>3, <2>4, Zenon
<1> HIDE DEF S, T, U
<1>6. /\ IsFiniteSet(S \cup U)
      /\ Cardinality(S \cup U) = Cardinality(S) + Cardinality(U) - Cardinality(S \cap U)
    BY <1>2, <1>5, FS_Union
<1>7. IsFiniteSet(S \cap U) /\ Cardinality(S \cap U) \in Nat
    BY <1>2, FS_Subset, FS_CardinalityType
<1>8. Cardinality(S) <= Cardinality(T) /\ Cardinality(T) <= Cardinality(S \cup U)
    BY <1>2, <1>3, <1>6, FS_Subset
<1>9. w[n + 1].file # f => S = T
    BY <1>3, <1>4
<1>10. Cardinality(S \cup U) \in Nat
    BY <1>6, FS_CardinalityType
<1> QED
    BY <1>1, <1>2, <1>5, <1>6, <1>7, <1>8, <1>9, <1>10

\* What the files hold, and what of it is on the disk.
LEMMA Sizes ==
    ASSUME TypeOK, NEW f
    PROVE  /\ Size(f) \in Nat /\ Safe(f) \in Nat /\ Safe(f) <= Size(f)
           /\ Size(f) = CountIn(writes, Len(writes), conf.most, f)
<1>1. Size(f) = CountIn(writes, Len(writes), conf.most, f)
    BY DEF Size, CountIn, BytesOf
<1>2. /\ Len(writes) \in Nat /\ flushed \in Nat /\ flushed <= Len(writes)
      /\ conf.most \in Nat
    BY TypeParts, ConfParts
<1> QED
    BY <1>1, <1>2, CountNat, CountMore DEF Safe

\* What one line does to the files of RollingLog: it goes to the file that is open
\* as long as that is not full; or to the next one, after a look at its size when
\* none was open; or nowhere.
LEMMA RollingWrite ==
    ASSUME LogInv, RollInv, conf.rolling, NEW line \in Line, Write(line)
    PROVE  /\ writes' = Append(writes, [file |-> file', line |-> line])
           /\ dropped' = IF file' = NoFile THEN Append(dropped, line) ELSE dropped
           /\ \/ file # NoFile /\ ~Full(file) /\ UNCHANGED <<file, cur, flushed>>
              \/ /\ flushed' = Len(writes)
                 /\ \/ file' = NoFile
                    \/ /\ file' = cur' /\ file = NoFile /\ ~Full(cur')
                       /\ cur' = Following(cur)
                    \/ /\ file' = cur' /\ file = NoFile /\ Full(Following(cur))
                       /\ cur' = Following(Following(cur))
                    \/ /\ file' = cur' /\ file # NoFile /\ Full(file)
                       /\ cur' = Following(cur)
<1> DEFINE c == IF file = NoFile THEN Following(cur) ELSE cur
<1>1. PICK o \in RollingFiles :
          /\ file' = o.file /\ cur' = o.cur /\ flushed' = Flushed(o.opened)
          /\ writes' = Append(writes, [file |-> o.file, line |-> line])
          /\ dropped' = IF o.file = NoFile THEN Append(dropped, line) ELSE dropped
    BY Zenon DEF Write
<1>2. PICK f \in IF file = NoFile THEN Open(c) ELSE {file} :
          IF f # NoFile /\ Full(f)
          THEN \E g \in Open(Following(c)) :
                   o = [file |-> g, opened |-> TRUE, cur |-> Following(c),
                        nextRoll |-> nextRoll]
          ELSE o = [file |-> f, opened |-> file = NoFile, cur |-> c, nextRoll |-> nextRoll]
    BY <1>1, Zenon DEF RollingFiles
<1>3. c # NoFile /\ (file # NoFile => c = cur /\ file = cur)
    <2>1. cur \in Int /\ conf.cnt \in Int
        BY ConfParts DEF LogInv, TypeOK
    <2>2. Following(cur) \in Int
        BY <2>1 DEF Following
    <2> QED
        BY <2>1, <2>2, LoggerAssumption DEF RollInv
<1>4. f = NoFile \/ f = c
    BY <1>2, <1>3 DEF Open
<1>5. CASE f # NoFile /\ Full(f)
    <2>1. PICK g \in Open(Following(c)) :
              o = [file |-> g, opened |-> TRUE, cur |-> Following(c), nextRoll |-> nextRoll]
        BY <1>2, <1>5
    <2>2. o.file = g /\ o.opened = TRUE /\ o.cur = Following(c)
        BY <2>1, Zenon
    <2>3. g = NoFile \/ g = Following(c)
        BY DEF Open
    <2>4. flushed' = Len(writes)
        BY <1>1, <2>2 DEF Flushed
    <2> QED
        BY <1>1, <1>3, <1>4, <1>5, <2>2, <2>3, <2>4
<1>6. CASE ~(f # NoFile /\ Full(f))
    <2>1. o = [file |-> f, opened |-> file = NoFile, cur |-> c, nextRoll |-> nextRoll]
        BY <1>2, <1>6
    <2>2. o.file = f /\ o.opened = (file = NoFile) /\ o.cur = c
        BY <2>1, Zenon
    <2>3. CASE file = NoFile
        <3>1. flushed' = Len(writes)
            BY <1>1, <2>2, <2>3 DEF Flushed
        <3> QED
            BY <1>1, <1>3, <1>4, <1>6, <2>2, <2>3, <3>1
    <2>4. CASE file # NoFile
        <3>1. f = file /\ flushed' = flushed
            BY <1>1, <1>2, <2>2, <2>4 DEF Flushed
        <3> QED
            BY <1>1, <1>3, <1>4, <1>6, <2>2, <2>4, <3>1
    <2> QED
        BY <2>3, <2>4
<1> QED
    BY <1>5, <1>6

LEMMA RollWrite ==
    ASSUME LogInv, LogInv', RollInv, conf.rolling, alive, NEW line \in Line, Write(line),
           UNCHANGED <<conf, lives, alive>>
    PROVE  RollInv'
<1>0. PICK cnt \in Nat \ {0}, size \in Nat \ {0}, most \in Nat \ {0} :
          /\ cnt = conf.cnt /\ size = conf.size /\ most = conf.most
          /\ cnt = conf'.cnt /\ size = conf'.size /\ most = conf'.most
    <2>1. /\ conf.cnt \in Nat \ {0} /\ conf.size \in Nat \ {0} /\ conf.most \in Nat \ {0}
          /\ conf' = conf
        BY ConfParts DEF LogInv
    <2> QED
        BY <2>1
<1>1. /\ cnt \in Nat \ {0} /\ size \in Nat \ {0} /\ most \in Nat \ {0}
      /\ cur \in 0..cnt /\ cur' \in 0..cnt
      /\ dropped \in Seq(Line) /\ lives \in Nat \ {0} /\ NoFile \notin Int
      /\ writes \in Seq(Entry) /\ Len(writes) \in Nat /\ flushed \in 0..Len(writes)
    BY <1>0, TypeParts, LoggerAssumption DEF LogInv, TypeOK, RollInv
<1>10. \A s : Round(s) <=>
          \A f \in 1..cnt : IF Visited(s, f)
                            THEN Size(f) < size + most + Excess /\ (f # cur => Size(f) >= size)
                            ELSE Size(f) < size + Excess
    BY <1>0, Zenon DEF Round
<1>2. /\ writes' = Append(writes, [file |-> file', line |-> line])
      /\ dropped' = IF file' = NoFile THEN Append(dropped, line) ELSE dropped
    BY RollingWrite
<1>3. /\ Len(writes') = Len(writes) + 1 /\ writes'[Len(writes) + 1].file = file'
      /\ \A k \in 1..Len(writes) : writes'[k] = writes[k]
    BY <1>1, <1>2
<1>4. ASSUME NEW f
      PROVE  /\ Size(f) \in Nat /\ Safe(f) \in Nat /\ Safe(f) <= Size(f)
             /\ Size(f)' \in Nat /\ Size(f) <= Size(f)' /\ Size(f)' <= Size(f) + most
             /\ file' # f => Size(f)' = Size(f)
             /\ flushed' = flushed => Safe(f)' = Safe(f)
             /\ flushed' = Len(writes) => Safe(f)' = Size(f)
    <2>1. Size(f) = CountIn(writes, Len(writes), most, f)
        BY <1>0, Sizes DEF LogInv
    <2>2. Size(f)' = CountIn(writes', Len(writes'), most, f)
        BY <1>0 DEF Size, CountIn, BytesOf
    <2>3. /\ CountIn(writes', Len(writes), most, f) = CountIn(writes, Len(writes), most, f)
          /\ CountIn(writes', flushed, most, f) = CountIn(writes, flushed, most, f)
        BY <1>1, <1>3, CountSame
    <2>4. /\ file' # f => CountIn(writes', Len(writes) + 1, most, f)
                              = CountIn(writes', Len(writes), most, f)
          /\ CountIn(writes', Len(writes), most, f) <= CountIn(writes', Len(writes) + 1, most, f)
          /\ CountIn(writes', Len(writes) + 1, most, f)
                 <= CountIn(writes', Len(writes), most, f) + most
        BY <1>1, <1>3, CountNext
    <2>5. Safe(f)' = CountIn(writes', flushed', most, f)
        BY <1>0 DEF Safe
    <2>6. Size(f)' \in Nat
        BY <1>1, <1>3, <2>2, CountNat
    <2>7. Safe(f) = CountIn(writes, flushed, most, f)
        BY <1>0 DEF Safe
    <2> QED
        BY <1>3, <2>1, <2>2, <2>3, <2>4, <2>5, <2>6, <2>7, Sizes DEF LogInv
<1>5. flushed' = flushed \/ flushed' = Len(writes)
    BY RollingWrite
<1>6. ASSUME \E g \in 1..cnt : Safe(g)' < size PROVE \E g \in 1..cnt : Safe(g) < size
    BY <1>1, <1>4, <1>5, <1>6
<1>7. Excess \in Nat /\ Excess' = IF file' = NoFile THEN Excess + most ELSE Excess
    <2>1. Len(dropped') = IF file' = NoFile THEN Len(dropped) + 1 ELSE Len(dropped)
        BY <1>1, <1>2
    <2> QED
        BY <1>0, <1>1, <2>1, ExcessSteps DEF LogInv
<1>8. file' # NoFile => file' = cur' /\ cur' \in 1..cnt
    <2>1. Following(cur) \in 1..cnt /\ Following(Following(cur)) \in 1..cnt
        BY <1>0, <1>1 DEF Following
    <2>2. file # NoFile => file = cur /\ cur \in 1..cnt
        BY <1>0 DEF RollInv
    <2>3. \/ file # NoFile /\ file' = file /\ cur' = cur
          \/ file' = NoFile
          \/ file' = cur' /\ cur' \in {Following(cur), Following(Following(cur))}
        BY RollingWrite
    <2> QED
        BY <2>1, <2>2, <2>3
<1>9. (\E g \in 1..cnt : Safe(g)' < size) =>
          IF file' = NoFile THEN \A f \in 1..cnt : Size(f)' < size + Excess'
          ELSE \E s \in 1..cnt : Round(s)'
    <2> SUFFICES ASSUME \E g \in 1..cnt : Safe(g)' < size
                 PROVE  IF file' = NoFile THEN \A f \in 1..cnt : Size(f)' < size + Excess'
                        ELSE \E s \in 1..cnt : Round(s)'
        OBVIOUS
    <2>1. IF file = NoFile THEN \A f \in 1..cnt : Size(f) < size + Excess
          ELSE \E s \in 1..cnt : Round(s)
        BY <1>0, <1>6 DEF RollInv
    <2>2. \A f \in 1..cnt : Size(f) < size + most + Excess
        <3>1. ASSUME NEW s \in 1..cnt, Round(s), NEW f \in 1..cnt
              PROVE  Size(f) < size + most + Excess
            <4>1. \/ Size(f) < size + most + Excess
                  \/ Size(f) < size + Excess
                BY <1>10, <3>1
            <4>2. Size(f) \in Nat
                BY <1>4
            <4> QED
                BY <1>1, <1>7, <4>1, <4>2
        <3>2. ASSUME NEW f \in 1..cnt, Size(f) < size + Excess
              PROVE  Size(f) < size + most + Excess
            <4>1. Size(f) \in Nat
                BY <1>4
            <4> QED
                BY <1>1, <1>7, <3>2, <4>1
        <3> QED
            BY <2>1, <3>1, <3>2, Zenon
    <2>3. CASE file' = NoFile
        <3>1. ASSUME NEW f \in 1..cnt PROVE Size(f)' < size + Excess'
            <4>1. Size(f)' = Size(f) /\ Size(f) \in Nat
                BY <1>1, <1>4, <2>3
            <4>2. Size(f) < size + most + Excess /\ Excess' = Excess + most
                BY <1>7, <2>2, <2>3
            <4> QED
                BY <1>1, <1>7, <4>1, <4>2
        <3> QED
            BY <2>3, <3>1
    <2>4. CASE file # NoFile /\ ~Full(file) /\ UNCHANGED <<file, cur, flushed>>
        <3>1. PICK s \in 1..cnt : Round(s)
            BY <2>1, <2>4
        <3>2. file = cur /\ Size(cur) < size
            BY <1>0, <1>1, <1>4, <2>4 DEF Full, RollInv
        <3>3. Excess' = Excess
            BY <1>7, <2>4
        <3>4. Round(s)'
            <4> SUFFICES ASSUME NEW f \in 1..cnt
                         PROVE  IF Visited(s, f)'
                                THEN Size(f)' < size + most + Excess'
                                        /\ (f # cur' => Size(f)' >= size)
                                ELSE Size(f)' < size + Excess'
                BY <1>0, <1>1 DEF Round
            <4>1. Visited(s, f)' <=> Visited(s, f)
                BY <2>4 DEF Visited
            <4>2. f = cur => Visited(s, f)
                BY <1>1 DEF Visited
            <4>3. /\ Size(f)' \in Nat /\ Size(f)' <= Size(f) + most /\ Size(f) <= Size(f)'
                  /\ f # cur => Size(f)' = Size(f)
                BY <1>4, <2>4, <3>2
            <4>4. IF Visited(s, f)
                  THEN Size(f) < size + most + Excess /\ (f # cur => Size(f) >= size)
                  ELSE Size(f) < size + Excess
                BY <3>1, <1>10
            <4>5. cur' = cur /\ Size(f) \in Nat
                BY <1>4, <2>4
            <4> QED
                BY <1>1, <1>7, <3>2, <3>3, <4>1, <4>2, <4>3, <4>4, <4>5
        <3> QED
            BY <2>4, <3>4
    <2>5. CASE /\ flushed' = Len(writes) /\ file' = cur' /\ file = NoFile /\ ~Full(cur')
               /\ cur' = Following(cur)
        <3>1. /\ cur' \in 1..cnt /\ file' # NoFile /\ Excess' = Excess
              /\ Size(cur') < size
            BY <1>0, <1>1, <1>4, <1>7, <1>8, <2>5 DEF Full
        <3>2. PICK c \in 1..cnt : c = cur'
            BY <3>1
        <3>3. Round(c)'
            <4> SUFFICES ASSUME NEW f \in 1..cnt
                         PROVE  IF Visited(c, f)'
                                THEN Size(f)' < size + most + Excess'
                                        /\ (f # cur' => Size(f)' >= size)
                                ELSE Size(f)' < size + Excess'
                BY <1>0, <1>1 DEF Round
            <4>1. Visited(c, f)' <=> f = cur'
                BY <1>1, <3>1, <3>2 DEF Visited
            <4>2. /\ Size(f)' \in Nat /\ Size(f)' <= Size(f) + most /\ Size(f) <= Size(f)'
                  /\ f # cur' => Size(f)' = Size(f)
                  /\ Size(f) \in Nat
                BY <1>4, <2>5
            <4>3. Size(f) < size + Excess
                BY <2>1, <2>5
            <4> QED
                BY <1>1, <1>7, <3>1, <4>1, <4>2, <4>3
        <3> QED
            BY <3>1, <3>3
    <2>6. CASE /\ flushed' = Len(writes) /\ file' = cur' /\ file = NoFile
               /\ Full(Following(cur)) /\ cur' = Following(Following(cur))
        <3> PICK c \in 1..cnt : c = Following(cur)
            BY <1>0, <1>1 DEF Following
        <3>1. /\ cur' \in 1..cnt /\ file' # NoFile /\ Excess' = Excess
              /\ cur' = IF c + 1 > cnt THEN 1 ELSE c + 1
            BY <1>0, <1>1, <1>7, <1>8, <2>6 DEF Following
        <3>2. Size(c) >= size
            BY <1>0, <1>4, <2>6 DEF Full
        <3>3. c # cur'
            <4>1. \A g \in 1..cnt : Safe(g)' = Size(g)
                BY <1>4, <2>6
            <4>2. PICK g \in 1..cnt : Size(g) < size
                BY <4>1
            <4>3. g # c
                <5>1. Size(g) \in Nat
                    BY <1>4
                <5> QED
                    BY <1>1, <3>2, <4>2, <5>1
            <4> QED
                BY <1>1, <3>1, <4>3
        <3>4. Round(c)'
            <4> SUFFICES ASSUME NEW f \in 1..cnt
                         PROVE  IF Visited(c, f)'
                                THEN Size(f)' < size + most + Excess'
                                        /\ (f # cur' => Size(f)' >= size)
                                ELSE Size(f)' < size + Excess'
                BY <1>0, <1>1 DEF Round
            <4>1. Visited(c, f)' <=> f = c \/ f = cur'
                BY <1>1, <3>1, <3>3 DEF Visited
            <4>2. /\ Size(f)' \in Nat /\ Size(f)' <= Size(f) + most /\ Size(f) <= Size(f)'
                  /\ f # cur' => Size(f)' = Size(f)
                  /\ Size(f) \in Nat
                BY <1>4, <2>6
            <4>3. Size(f) < size + Excess
                BY <2>1, <2>6
            <4>4. f = c => Size(f) >= size
                BY <3>2
            <4>5. CASE f = cur'
                BY <1>1, <1>7, <3>1, <4>1, <4>2, <4>3, <4>5
            <4>6. CASE f # cur'
                <5>1. Size(f)' = Size(f) /\ Size(f) \in Nat
                    BY <4>2, <4>6
                <5> QED
                    BY <1>1, <1>7, <3>1, <4>1, <4>3, <4>4, <4>6, <5>1
            <4> QED
                BY <4>5, <4>6
        <3> QED
            BY <3>1, <3>4
    <2>7. CASE /\ flushed' = Len(writes) /\ file' = cur' /\ file # NoFile /\ Full(file)
               /\ cur' = Following(cur)
        <3>1. PICK s \in 1..cnt : Round(s)
            BY <2>1, <2>7
        <3>2. /\ file = cur /\ cur \in 1..cnt /\ cur' \in 1..cnt /\ file' # NoFile
              /\ Excess' = Excess /\ cur' = IF cur + 1 > cnt THEN 1 ELSE cur + 1
            BY <1>0, <1>1, <1>7, <1>8, <2>7 DEF Following, RollInv
        <3>3. Size(cur) >= size
            BY <1>0, <1>4, <2>7, <3>2 DEF Full
        <3>4. cur' # s
            <4>1. \A g \in 1..cnt : Safe(g)' = Size(g)
                BY <1>4, <2>7
            <4>2. PICK g \in 1..cnt : Size(g) < size
                BY <4>1
            <4>3. ~Visited(s, g)
                <5>1. Size(g) \in Nat
                    BY <1>4
                <5>2. IF Visited(s, g)
                      THEN Size(g) < size + most + Excess /\ (g # cur => Size(g) >= size)
                      ELSE Size(g) < size + Excess
                    BY <1>10, <3>1
                <5> QED
                    BY <1>1, <3>3, <4>2, <5>1, <5>2
            <4> QED
                BY <1>1, <3>2, <4>3 DEF Visited
        <3>5. Round(s)'
            <4> SUFFICES ASSUME NEW f \in 1..cnt
                         PROVE  IF Visited(s, f)'
                                THEN Size(f)' < size + most + Excess'
                                        /\ (f # cur' => Size(f)' >= size)
                                ELSE Size(f)' < size + Excess'
                BY <1>0, <1>1 DEF Round
            <4>1. /\ Visited(s, f)' <=> Visited(s, f) \/ f = cur'
                  /\ ~Visited(s, cur')
                BY <1>1, <3>2, <3>4 DEF Visited
            <4>2. IF Visited(s, f)
                  THEN Size(f) < size + most + Excess /\ (f # cur => Size(f) >= size)
                  ELSE Size(f) < size + Excess
                BY <3>1, <1>10
            <4>3. /\ Size(f)' \in Nat /\ Size(f)' <= Size(f) + most /\ Size(f) <= Size(f)'
                  /\ f # cur' => Size(f)' = Size(f)
                BY <1>4, <2>7
            <4>4. Size(f) \in Nat /\ (f = cur => Size(f) >= size)
                BY <1>4, <3>3
            <4>5. CASE f = cur'
                <5>1. /\ Size(f)' \in Nat /\ Size(f)' <= Size(f) + most
                      /\ Size(f) < size + Excess
                    BY <4>1, <4>2, <4>3, <4>5
                <5> QED
                    BY <1>1, <1>7, <3>2, <4>1, <4>4, <4>5, <5>1
            <4>6. CASE f # cur'
                <5>1. Size(f)' = Size(f) /\ (Visited(s, f)' <=> Visited(s, f))
                    BY <4>1, <4>3, <4>4, <4>6
                <5> QED
                    BY <1>1, <1>7, <3>2, <4>2, <4>4, <4>6, <5>1
            <4> QED
                BY <4>5, <4>6
        <3> QED
            BY <3>2, <3>5
    <2> QED
        BY <2>3, <2>4, <2>5, <2>6, <2>7, RollingWrite
<1> QED
    BY <1>0, <1>1, <1>8, <1>9 DEF RollInv

LEMMA RollAnyWrite ==
    ASSUME LogInv, LogInv', RollInv, alive, NEW line \in Line, Write(line),
           UNCHANGED <<conf, lives, alive>>
    PROVE  RollInv'
<1>1. CASE conf.rolling
    BY <1>1, RollWrite
<1>2. CASE ~conf.rolling
    BY <1>2 DEF RollInv
<1> QED
    BY <1>1, <1>2

\* The files stay as they are; more of them may reach the disk.
LEMMA RollSame ==
    ASSUME LogInv, RollInv, flushed' \in flushed..Len(writes),
           UNCHANGED <<conf, lives, alive, file, cur, writes, dropped>>
    PROVE  RollInv'
<1>1. flushed \in Nat /\ flushed' \in Nat /\ flushed <= flushed'
    BY TypeParts DEF LogInv
<1>2. \A f : Size(f)' = Size(f)
    BY DEF Size
<1>3. \A f : Safe(f) \in Nat /\ Safe(f)' \in Nat /\ Safe(f) <= Safe(f)'
    <2>1. conf.most \in Nat
        BY ConfParts DEF LogInv
    <2> QED
        BY <1>1, <2>1, CountNat, CountMore DEF Safe
<1>4. Excess' = Excess /\ \A s, f : Visited(s, f)' <=> Visited(s, f)
    BY DEF Excess, Visited
<1>5. \A s : Round(s)' <=> Round(s)
    BY <1>2, <1>4 DEF Round
<1>6. conf.size \in Nat
    BY ConfParts DEF LogInv
<1>7. (\E g \in 1..conf.cnt : Safe(g)' < conf.size)
          => \E g \in 1..conf.cnt : Safe(g) < conf.size
    BY <1>3, <1>6
<1> QED
    BY <1>2, <1>4, <1>5, <1>7 DEF RollInv

\* What the disk does not hold is lost from the file that was open.
LEMMA RollEnd ==
    ASSUME LogInv, RollInv, NEW kept \in flushed..Len(writes), End(kept) PROVE RollInv'
<1>1. /\ writes' = SubSeq(writes, 1, kept) /\ flushed' = kept /\ file' = NoFile
      /\ alive /\ ~alive' /\ UNCHANGED <<conf, lives, cur, dropped>>
    BY DEF End
<1>2. /\ writes \in Seq(Entry) /\ Len(writes) \in Nat /\ flushed \in Nat /\ kept \in Nat
      /\ flushed <= kept /\ kept <= Len(writes) /\ lives \in Nat \ {0}
      /\ conf.size \in Nat /\ conf.cnt \in Nat /\ conf.most \in Nat
    <2>1. lives \in Nat \ {0}
        BY DEF RollInv
    <2>2. TypeOK
        BY DEF LogInv
    <2> QED
        BY <2>1, <2>2, TypeParts, ConfParts
<1>3. /\ Len(writes') = kept
      /\ \A k \in 1..kept : writes'[k] = writes[k]
    BY <1>1, <1>2
<1>4. ASSUME NEW f
      PROVE  /\ Size(f) \in Nat /\ Size(f)' \in Nat /\ Size(f)' <= Size(f)
             /\ Safe(f) \in Nat /\ Safe(f)' \in Nat /\ Safe(f) <= Safe(f)'
    <2>1. /\ Size(f)' = CountIn(writes, kept, conf.most, f)
          /\ Safe(f)' = CountIn(writes, kept, conf.most, f)
        <3>1. CountIn(writes', kept, conf.most, f) = CountIn(writes, kept, conf.most, f)
            BY <1>2, <1>3, CountSame
        <3> QED
            BY <1>1, <1>3, <3>1 DEF Size, Safe, CountIn, BytesOf
    <2>2. Size(f) = CountIn(writes, Len(writes), conf.most, f)
        BY DEF Size, CountIn, BytesOf
    <2>3. /\ CountIn(writes, kept, conf.most, f) <= CountIn(writes, Len(writes), conf.most, f)
          /\ CountIn(writes, flushed, conf.most, f) <= CountIn(writes, kept, conf.most, f)
        BY <1>2, CountMore
    <2> QED
        BY <1>2, <2>1, <2>2, <2>3, CountNat DEF Safe
<1>5. Excess \in Nat /\ Excess' = Excess
    BY <1>1, <1>2, ExcessSteps DEF LogInv
<1>6. (\E g \in 1..conf.cnt : Safe(g)' < conf.size)
          => \E g \in 1..conf.cnt : Safe(g) < conf.size
    BY <1>2, <1>4
<1>7. conf.rolling /\ (\E g \in 1..conf.cnt : Safe(g) < conf.size)
          => \A f \in 1..conf.cnt : Size(f) < conf.size + conf.most + Excess
    <2> SUFFICES ASSUME conf.rolling, \E g \in 1..conf.cnt : Safe(g) < conf.size,
                        NEW f \in 1..conf.cnt
                 PROVE  Size(f) < conf.size + conf.most + Excess
        OBVIOUS
    <2>1. \/ Size(f) < conf.size + Excess
          \/ Size(f) < conf.size + conf.most + Excess
        BY <1>1 DEF RollInv, Round
    <2>2. Size(f) \in Nat
        BY <1>4
    <2> QED
        BY <1>2, <1>5, <2>1, <2>2
<1>8. conf.rolling /\ (\E g \in 1..conf.cnt : Safe(g)' < conf.size)
          => \A f \in 1..conf.cnt : Size(f)' < conf.size + conf.most + Excess
    <2> SUFFICES ASSUME conf.rolling, \E g \in 1..conf.cnt : Safe(g)' < conf.size,
                        NEW f \in 1..conf.cnt
                 PROVE  Size(f)' < conf.size + conf.most + Excess
        OBVIOUS
    <2>1. Size(f) < conf.size + conf.most + Excess
        BY <1>6, <1>7
    <2>2. Size(f) \in Nat /\ Size(f)' \in Nat /\ Size(f)' <= Size(f)
        BY <1>4
    <2> QED
        BY <1>2, <1>5, <2>1, <2>2
<1> QED
    BY <1>1, <1>2, <1>5, <1>8 DEF RollInv

LEMMA RollStart == ASSUME LogInv, RollInv, Start PROVE RollInv'
<1>1. /\ ~alive /\ alive' /\ lives' = lives + 1 /\ cur' = 0
      /\ UNCHANGED <<conf, file, writes, dropped, flushed>>
    BY DEF Start
<1>2. /\ lives \in Nat \ {0} /\ file = NoFile
      /\ conf.size \in Nat /\ conf.most \in Nat
    BY <1>1, ConfParts DEF LogInv, TypeOK, RollInv
<1>3. \A f : Size(f)' = Size(f) /\ Safe(f)' = Safe(f) /\ Size(f) \in Nat
    BY <1>1, Sizes DEF Size, Safe, CountIn, BytesOf, LogInv
<1>4. Excess \in Nat /\ Excess' = Excess + conf.most
    BY <1>1, <1>2, ExcessSteps DEF LogInv
<1>5. conf.rolling /\ (\E g \in 1..conf.cnt : Safe(g) < conf.size)
          => \A f \in 1..conf.cnt : Size(f) < conf.size + conf.most + Excess
    BY <1>1 DEF RollInv
<1>6. conf.rolling /\ (\E g \in 1..conf.cnt : Safe(g)' < conf.size)
          => \A f \in 1..conf.cnt : Size(f)' < conf.size + Excess'
    BY <1>2, <1>3, <1>4, <1>5
<1> QED
    BY <1>1, <1>2, <1>6 DEF RollInv

LEMMA RollInit == ASSUME Init PROVE RollInv
<1>1. LogInv
    BY InitInv
<1>2. \A f : Size(f) = 0
    <2>1. 1..Len(writes) = {}
        BY DEF Init
    <2>2. \A f : {b \in (1..Len(writes)) \X (1..conf.most) :
                     writes[b[1]].file = f /\ b[2] <= writes[b[1]].line.bytes} = {}
        BY <2>1
    <2> QED
        BY <2>2, FS_EmptySet, Zenon DEF Size
<1>3. Excess \in Nat /\ conf.size \in Nat \ {0}
    <2>1. lives \in Nat \ {0}
        BY DEF Init
    <2> QED
        BY <1>1, <2>1, ConfParts, ExcessSteps DEF LogInv
<1> QED
    BY <1>2, <1>3 DEF Init, RollInv

LEMMA RollNext == LogInv /\ LogInv' /\ RollInv /\ [Next]_vars => RollInv'
<1> SUFFICES ASSUME LogInv, LogInv', RollInv, [Next]_vars PROVE RollInv'
    OBVIOUS
<1> USE TypeParts DEF LogInv
<1>1. ASSUME NEW t \in Thread, Log(t) PROVE RollInv'
    BY <1>1, RollSame DEF Log
<1>2. ASSUME NEW t \in Thread, Queue(t) PROVE RollInv'
    BY <1>2, RollSame DEF Queue
<1>3. ASSUME NEW t \in Thread, WriteSync(t) PROVE RollInv'
    <2>1. PICK l \in Line : held[t] = <<l>> /\ l.by = t
        BY <1>3, HeldLine DEF WriteSync
    <2>2. held[t][1] = l /\ held[t] # <<>>
        BY <2>1
    <2>3. alive
        BY <2>2 DEF NothingLeft
    <2> QED
        BY <1>3, <2>2, <2>3, RollAnyWrite DEF WriteSync
<1>4. CASE Swap
    BY <1>4, RollSame DEF Swap
<1>5. CASE WriteNext
    <2>1. Head(q2) \in Line /\ alive
        BY <1>5 DEF WriteNext, NothingLeft
    <2> QED
        BY <1>5, <2>1, RollAnyWrite DEF WriteNext
<1>6. CASE Spill
    BY <1>6, RollSame DEF Spill
<1>7. CASE Tick
    BY <1>7, RollSame DEF Tick
<1>8. CASE Exit \/ Kill
    BY <1>8, RollEnd DEF Exit, Kill
<1>9. CASE Start
    BY <1>9, RollStart
<1>10. CASE UNCHANGED vars
    BY <1>10, RollSame DEF vars
<1> QED
    BY <1>1, <1>2, <1>3, <1>4, <1>5, <1>6, <1>7, <1>8, <1>9, <1>10 DEF Next, LogThread

\* As long as one file has room, each of the others passes its size by less than
\* one line, and by one line more for each restart and for each line that no file
\* could be opened for, although RollingLog looks at the size, in bytes, before it
\* writes, and not at the second file it opens (logger.h:86-97, 391-441).
THEOREM RollingBoundedCorrect == Spec => []RollingBounded
<1>1. LogInv /\ RollInv => RollingBounded
    <2> DEFINE m == conf.most
               a == (lives - 1) + Len(dropped)
    <2> SUFFICES ASSUME LogInv, RollInv, conf.rolling,
                        NEW g \in 1..conf.cnt, Size(g) < conf.size,
                        NEW f \in 1..conf.cnt
                 PROVE  Size(f) <= conf.size - 1 + m * (1 + (lives - 1) + Len(dropped))
        BY DEF RollingBounded
    <2>1. /\ Safe(g) < conf.size /\ conf.size \in Nat
        BY Sizes, ConfParts DEF LogInv
    <2>2. Size(f) \in Nat /\ Excess \in Nat /\ m \in Nat
        BY Sizes, ExcessSteps, ConfParts DEF LogInv, RollInv
    <2>3. Size(f) < conf.size + Excess \/ Size(f) < conf.size + m + Excess
        BY <2>1 DEF RollInv, Round
    <2>4. m * (1 + (lives - 1) + Len(dropped)) = m + Excess
        <3>1. a \in Nat /\ 1 + (lives - 1) + Len(dropped) = 1 + a
            BY TypeParts DEF LogInv, RollInv
        <3>2. Excess = m * a
            BY DEF Excess
        <3> HIDE DEF a, m
        <3>3. m * (1 + a) = m + m * a
            BY <2>2, <3>1
        <3> QED
            BY <3>1, <3>2, <3>3
    <2> HIDE DEF m
    <2> QED
        BY <2>1, <2>2, <2>3, <2>4
<1> QED
    BY <1>1, RollInit, RollNext, LogInvariant, PTL DEF Spec

----------------------------------------------------------------------------
\* The lines this process has written.
Mine == {k \in 1..Len(writes) : writes[k].line.life = lives}

\* The day of the file DailyLog has open.
Today == nextRoll - Day

RollPoint(p) == \E q \in Int : p = q * Day + Roll

\* Up to line k, no line is overtaken by one of a later day, and no day passes
\* without a line.
EveryDay(k) ==
    /\ \A i, j \in Mine : i < j /\ j <= k => DayOf(i) <= DayOf(j)
    /\ \A t \in (began + Day)..(DayOf(k) - 1) : \E j \in Mine : j < k /\ DayOf(j) = Period(t)

\* The lines on their way to the files, and in them, were stamped by this process.
StampedIn(s) == \A i \in 1..Len(s) : s[i].time >= began
Stamped ==
    /\ \A t \in Thread : StampedIn(held[t])
    /\ StampedIn(q1) /\ StampedIn(q2)
    /\ \A k \in Mine : writes[k].line.time >= began

\* DailyLog moves on to a day only for a line of that day or of a later one; and
\* it keeps up with lines of which there is one every day.
OnTheDay ==
    alive /\ ~conf.rolling =>
        /\ file \in {Today, NoFile}
        /\ RollPoint(Today) /\ Today >= Period(began)
        /\ Today = Period(began) \/ \E j \in Mine : DayOf(j) >= Today
        /\ \A k \in Mine : EveryDay(k) => DayOf(k) <= Today

\* What DailyFile says of one line.
RightFile(k) ==
    /\ writes[k].file > DayOf(k) => \E j \in Mine : j < k /\ DayOf(j) > DayOf(k)
    /\ EveryDay(k) => writes[k].file = DayOf(k)
RightFiles ==
    alive /\ ~conf.rolling => \A k \in Mine : writes[k].file # NoFile => RightFile(k)

DailyInv ==
    Stamped /\ began \in 0..clock /\ (~alive => file = NoFile) /\ OnTheDay /\ RightFiles

\* Days: each time is in one, which begins at a roll point.
LEMMA DivBounds ==
    \A n \in Nat, d \in Nat \ {0} :
        /\ n \div d \in Int
        /\ (n \div d) * d <= n /\ n < (n \div d) * d + d
    OBVIOUS

LEMMA PeriodIs ==
    ASSUME NEW t \in Nat
    PROVE  Period(t) \in Int /\ RollPoint(Period(t)) /\ Period(t) <= t /\ t < Period(t) + Day
<1> DEFINE q == t \div Day
           today == q * Day + Roll
<1>1. Day \in Nat \ {0} /\ Roll \in 0..(Day - 1)
    BY LoggerAssumption
<1>2. q \in Int /\ q * Day <= t /\ t < q * Day + Day
    BY <1>1, DivBounds
<1>3. q * Day \in Int /\ (q - 1) * Day = q * Day - Day
    BY <1>1, <1>2
<1>4. FirstRoll(t) = IF today <= t THEN today + Day ELSE today
    BY DEF FirstRoll
<1> HIDE DEF q
<1>5. Period(t) = IF today <= t THEN q * Day + Roll ELSE (q - 1) * Day + Roll
    BY <1>1, <1>3, <1>4 DEF Period
<1> QED
    BY <1>1, <1>2, <1>3, <1>5 DEF RollPoint

LEMMA RollNear ==
    ASSUME NEW p, NEW r, RollPoint(p), RollPoint(r), p < r + Day PROVE p <= r
<1>1. PICK a \in Int, b \in Int : p = a * Day + Roll /\ r = b * Day + Roll
    BY DEF RollPoint
<1>2. Day \in Nat \ {0} /\ Roll \in Int
    BY LoggerAssumption
<1>3. CASE a <= b
    <2>1. (b - a) * Day \in Nat /\ (b - a) * Day = b * Day - a * Day
        BY <1>1, <1>2, <1>3
    <2> QED
        BY <1>1, <1>2, <2>1
<1>4. CASE a > b
    <2>1. a - b - 1 \in Nat
        BY <1>4
    <2>2. (a - b - 1) * Day \in Nat /\ (a - b - 1) * Day = a * Day - b * Day - Day
        BY <1>2, <2>1
    <2> QED
        BY <1>1, <1>2, <2>2
<1> QED
    BY <1>3, <1>4

LEMMA RollOn == ASSUME NEW p, RollPoint(p) PROVE p \in Int /\ RollPoint(p + Day)
<1>1. PICK a \in Int : p = a * Day + Roll
    BY DEF RollPoint
<1>2. Day \in Nat \ {0} /\ Roll \in Int
    BY LoggerAssumption
<1>3. p + Day = (a + 1) * Day + Roll
    BY <1>1, <1>2
<1> QED
    BY <1>1, <1>2, <1>3 DEF RollPoint

LEMMA PeriodAt ==
    ASSUME NEW p, RollPoint(p), NEW t \in Nat, p <= t, t < p + Day PROVE Period(t) = p
<1>1. p \in Int /\ Day \in Nat
    BY RollOn, LoggerAssumption
<1>2. Period(t) < p + Day /\ p < Period(t) + Day
    BY <1>1, PeriodIs
<1>3. Period(t) <= p /\ p <= Period(t)
    BY <1>2, PeriodIs, RollNear
<1> QED
    BY <1>1, <1>3, PeriodIs

LEMMA PeriodLater ==
    ASSUME NEW t \in Nat, NEW u \in Nat, t <= u PROVE Period(t) <= Period(u)
<1>1. Period(t) < Period(u) + Day
    BY PeriodIs, LoggerAssumption
<1> QED
    BY <1>1, PeriodIs, RollNear

\* What one line does to the file of DailyLog.
LEMMA DailyWrite ==
    ASSUME LogInv, OnTheDay, alive, ~conf.rolling, NEW line \in Line, Write(line)
    PROVE  /\ writes' = Append(writes, [file |-> file', line |-> line])
           /\ Today' = IF Late(line) THEN Today + Day ELSE Today
           /\ file' \in {Today', NoFile}
<1>1. PICK o \in DailyFiles(line) :
          /\ file' = o.file /\ nextRoll' = o.nextRoll
          /\ writes' = Append(writes, [file |-> o.file, line |-> line])
    BY Zenon DEF Write
<1>2. PICK f \in IF Late(line) THEN Open(nextRoll)
                 ELSE IF file = NoFile THEN Open(nextRoll - Day) ELSE {file} :
          o = [file |-> f, opened |-> Late(line) \/ file = NoFile, cur |-> cur,
               nextRoll |-> IF Late(line) THEN nextRoll + Day ELSE nextRoll]
    BY Zenon DEF DailyFiles
<1>3. o.file = f /\ o.nextRoll = IF Late(line) THEN nextRoll + Day ELSE nextRoll
    BY <1>2, Zenon
<1>4. nextRoll \in Int /\ Day \in Int
    BY LoggerAssumption DEF LogInv, TypeOK
<1>5. f = NoFile \/ f = IF Late(line) THEN nextRoll ELSE nextRoll - Day
    BY <1>2 DEF OnTheDay, Open, Today
<1> QED
    BY <1>1, <1>3, <1>4, <1>5 DEF Today

\* A line more at the end changes nothing for those before it.
LEMMA MineGrows ==
    ASSUME LogInv, UNCHANGED <<lives, began>>, NEW e \in Entry, e.line.life = lives,
           writes' = Append(writes, e), NEW n, n = Len(writes) + 1
    PROVE  /\ Len(writes') = Len(writes) + 1
           /\ Mine' = Mine \cup {n} /\ Mine \subseteq 1..Len(writes)
           /\ writes'[n] = e
           /\ DayOf(n)' = Period(e.line.time)
           /\ \A k \in 1..Len(writes) : writes'[k] = writes[k] /\ DayOf(k)' = DayOf(k)
           /\ \A k \in Mine : EveryDay(k)' <=> EveryDay(k)
<1>1. writes \in Seq(Entry) /\ Len(writes) \in Nat
    BY TypeParts DEF LogInv
<1>2. /\ Len(writes') = Len(writes) + 1 /\ writes'[n] = e
      /\ \A k \in 1..Len(writes) : writes'[k] = writes[k]
    BY <1>1
<1>3. Mine' = Mine \cup {n} /\ Mine \subseteq 1..Len(writes)
    BY <1>1, <1>2 DEF Mine
<1>4. /\ DayOf(n)' = Period(e.line.time)
      /\ \A k \in 1..Len(writes) : DayOf(k)' = DayOf(k)
    BY <1>2 DEF DayOf, Period, FirstRoll
<1>5. ASSUME NEW k \in Mine PROVE EveryDay(k)' <=> EveryDay(k)
    <2>1. k \in 1..Len(writes) /\ DayOf(k)' = DayOf(k) /\ began' = began
        BY <1>3, <1>4
    <2>2. \A j : j \in Mine' /\ j <= k <=> j \in Mine /\ j <= k
        BY <1>1, <1>3, <2>1
    <2>3. \A j : j \in Mine' /\ j < k <=> j \in Mine /\ j < k
        BY <1>1, <1>3, <2>1
    <2>4. \A j \in Mine : DayOf(j)' = DayOf(j) /\ j \in Int
        BY <1>1, <1>3, <1>4
    <2>5. \A t : Period(t)' = Period(t)
        BY DEF Period, FirstRoll
    <2>6. (\A i, j \in Mine' : i < j /\ j <= k => DayOf(i)' <= DayOf(j)')
              <=> \A i, j \in Mine : i < j /\ j <= k => DayOf(i) <= DayOf(j)
        BY <1>1, <1>3, <2>1, <2>2, <2>4
    <2>7. (\A t \in (began + Day)..(DayOf(k) - 1) :
                  \E j \in Mine' : j < k /\ DayOf(j)' = Period(t))
              <=> \A t \in (began + Day)..(DayOf(k) - 1) :
                      \E j \in Mine : j < k /\ DayOf(j) = Period(t)
        BY <2>3, <2>4
    <2> QED
        BY <2>1, <2>5, <2>6, <2>7 DEF EveryDay
<1> QED
    BY <1>2, <1>3, <1>4, <1>5

LEMMA DayWrite ==
    ASSUME LogInv, DailyInv, alive, ~conf.rolling, NEW line \in Line, line.life = lives,
           line.time >= began, Write(line), UNCHANGED <<conf, lives, alive, began>>
    PROVE  OnTheDay' /\ RightFiles'
<1> DEFINE e == [file |-> file', line |-> line]
           D == Period(line.time)
<1>1. /\ writes' = Append(writes, e)
      /\ Today' = IF Late(line) THEN Today + Day ELSE Today
      /\ file' \in {Today', NoFile}
    BY DailyWrite DEF DailyInv
<1>2. /\ Day \in Nat \ {0} /\ NoFile \notin Int /\ began \in Nat /\ line.time \in Nat
      /\ writes \in Seq(Entry) /\ Len(writes) \in Nat
    BY LoggerAssumption, TypeParts DEF LogInv, TypeOK, Line
<1>3. Today \in Int /\ RollPoint(Today) /\ Today >= Period(began) /\ Period(began) \in Int
    BY <1>2, PeriodIs, RollOn DEF DailyInv, OnTheDay
<1>4. /\ Today' \in Int /\ RollPoint(Today)' /\ Today <= Today'
      /\ nextRoll = Today + Day
    <2>1. nextRoll \in Int
        BY DEF LogInv, TypeOK
    <2>2. RollPoint(Today + Day) /\ RollPoint(Today)
        BY <1>3, RollOn
    <2>3. Today' = Today \/ Today' = Today + Day
        BY <1>1
    <2>4. \E q \in Int : Today' = q * Day + Roll
        BY <2>2, <2>3 DEF RollPoint
    <2>5. RollPoint(Today)'
        BY <2>4 DEF RollPoint
    <2>6. nextRoll = Today + Day
        BY <1>2, <2>1 DEF Today
    <2> QED
        BY <1>2, <1>3, <2>3, <2>5, <2>6
<1>5. PICK n : n = Len(writes) + 1
    OBVIOUS
<1>6. e \in Entry /\ e.file = file' /\ e.line = line
    <2>1. file' \in FileName
        BY <1>1, <1>4 DEF FileName
    <2> QED
        BY <2>1 DEF Entry
<1> HIDE DEF e
<1>7. /\ Mine' = Mine \cup {n} /\ Mine \subseteq 1..Len(writes)
      /\ writes'[n] = e /\ DayOf(n)' = D
      /\ \A k \in 1..Len(writes) : writes'[k] = writes[k] /\ DayOf(k)' = DayOf(k)
      /\ \A k \in Mine : EveryDay(k)' <=> EveryDay(k)
    BY <1>1, <1>5, <1>6, MineGrows
<1>8. D \in Int /\ RollPoint(D) /\ D <= line.time /\ line.time < D + Day /\ Period(began) <= D
    BY <1>2, PeriodIs, PeriodLater
<1> HIDE DEF D
<1>9. \A j \in Mine : j \in Int /\ j < n /\ j \in 1..Len(writes) /\ DayOf(j) \in Int
    <2>1. \A j \in 1..Len(writes) : writes[j].line.time \in Nat
        <3>1. \A j \in 1..Len(writes) : writes[j] \in Entry
            BY <1>2
        <3> QED
            BY <3>1 DEF Entry, Line
    <2>2. \A j \in 1..Len(writes) : DayOf(j) \in Int
        BY <2>1, PeriodIs DEF DayOf
    <2> QED
        BY <1>2, <1>5, <1>7, <2>2
\* Once DailyLog moves on for a line, that line is of the day of the file or later;
\* while it does not, the line is of that day or of an earlier one.
<1>10. Late(line) => Today' = Today + Day /\ Today' <= D
    <2> SUFFICES ASSUME Late(line) PROVE Today' = Today + Day /\ Today' <= D
        OBVIOUS
    <2>1. Today' = Today + Day /\ Today' <= line.time
        BY <1>1, <1>2, <1>3, <1>4 DEF Late
    <2>2. Today + Day < D + Day /\ RollPoint(Today + Day)
        BY <1>2, <1>3, <1>4, <1>8, <2>1, RollOn
    <2> QED
        BY <2>1, <2>2, <1>8, RollNear
<1>11. ~Late(line) => Today' = Today /\ D <= Today'
    <2> SUFFICES ASSUME ~Late(line) PROVE Today' = Today /\ D <= Today'
        OBVIOUS
    <2>1. Today' = Today /\ D < Today + Day
        BY <1>1, <1>2, <1>3, <1>4, <1>8 DEF Late
    <2> QED
        BY <1>3, <1>8, <2>1, RollNear
\* A line of an earlier day has been overtaken.
<1>12. D < Today' => \E j \in Mine : DayOf(j) > D
    <2> SUFFICES ASSUME D < Today' PROVE \E j \in Mine : DayOf(j) > D
        OBVIOUS
    <2>1. Today' = Today /\ Today # Period(began)
        BY <1>3, <1>4, <1>8, <1>10, <1>11
    <2>2. PICK j \in Mine : DayOf(j) >= Today
        BY <2>1 DEF DailyInv, OnTheDay
    <2> QED
        BY <1>3, <1>8, <1>9, <2>1, <2>2
\* A line of a later day than the file's comes after a day without a line.
<1>13. EveryDay(n)' => D <= Today'
    <2> SUFFICES ASSUME EveryDay(n)', D > Today' PROVE FALSE
        BY <1>4, <1>8
    <2>1. Late(line) /\ Today' = Today + Day
        BY <1>4, <1>8, <1>10, <1>11
    <2>2. D >= Today' + Day
        <3>1. RollPoint(Today + Day)
            BY <1>3, RollOn
        <3>2. ~(D < (Today + Day) + Day)
            BY <1>8, <2>1, <3>1, RollNear
        <3> QED
            BY <1>2, <1>3, <1>8, <2>1, <3>2
    <2> DEFINE t == Today' + Day - 1
    <2>3. t \in (began + Day)..(D - 1) /\ t \in Nat
        <3>1. began < Period(began) + Day
            BY <1>2, PeriodIs
        <3> QED
            BY <1>2, <1>3, <1>4, <1>8, <2>1, <2>2, <3>1
    <2>4. Period(t) = Today'
        <3>1. \A p : RollPoint(p) /\ p <= t /\ t < p + Day => Period(t) = p
            BY <2>3, PeriodAt
        <3>2. RollPoint(Today + Day)
            BY <1>3, RollOn
        <3> QED
            BY <1>2, <1>3, <2>1, <3>1, <3>2
    <2> HIDE DEF t
    <2>5. /\ \A i, j \in Mine' : i < j /\ j <= n => DayOf(i)' <= DayOf(j)'
          /\ \A u \in (began + Day)..(D - 1) :
                 \E j \in Mine' : j < n /\ DayOf(j)' = Period(u)
        BY <1>7 DEF EveryDay, Period, FirstRoll
    <2>6. PICK j \in Mine : DayOf(j) = Today'
        BY <1>5, <1>2, <1>7, <1>9, <2>3, <2>4, <2>5
    <2>7. EveryDay(j)
        <3>1. \A i, m \in Mine : i < m => DayOf(i) <= DayOf(m)
            BY <1>2, <1>5, <1>7, <1>9, <2>5
        <3>2. ASSUME NEW u \in (began + Day)..(DayOf(j) - 1)
              PROVE  \E i \in Mine : i < j /\ DayOf(i) = Period(u)
            <4>1. u \in (began + Day)..(D - 1) /\ u \in Nat /\ u < DayOf(j)
                <5>1. DayOf(j) \in Int /\ DayOf(j) < D
                    BY <1>9, <2>6
                <5> QED
                    BY <1>2, <1>8, <3>2, <5>1
            <4>2. PICK i \in Mine : DayOf(i) = Period(u)
                BY <1>2, <1>5, <1>7, <1>9, <2>5, <4>1
            <4>3. Period(u) <= u /\ Period(u) \in Int
                BY <4>1, PeriodIs
            <4>4. ~(DayOf(j) <= DayOf(i))
                BY <1>9, <4>1, <4>2, <4>3
            <4>5. i < j
                BY <1>9, <3>1, <4>4
            <4> QED
                BY <4>2, <4>5
        <3> QED
            BY <3>1, <3>2 DEF EveryDay
    <2>8. DayOf(j) <= Today
        BY <2>7 DEF DailyInv, OnTheDay
    <2> QED
        BY <1>2, <1>3, <2>1, <2>6, <2>8
<1>14. OnTheDay'
    <2>1. Today' >= Period(began)'
        BY <1>3, <1>4 DEF Period, FirstRoll
    <2>2. Today' = Period(began)' \/ \E j \in Mine' : DayOf(j)' >= Today'
        <3>1. CASE Late(line)
            BY <1>7, <1>8, <1>10, <1>4, <3>1
        <3>2. CASE ~Late(line)
            <4>1. Today' = Today /\ Period(began)' = Period(began)
                BY <1>11, <3>2 DEF Period, FirstRoll
            <4> QED
                BY <1>7, <1>9, <4>1 DEF DailyInv, OnTheDay
        <3> QED
            BY <3>1, <3>2
    <2>3. ASSUME NEW k \in Mine', EveryDay(k)' PROVE DayOf(k)' <= Today'
        <3>1. CASE k = n
            BY <1>7, <1>13, <2>3, <3>1
        <3>2. CASE k \in Mine
            <4>1. DayOf(k) <= Today /\ DayOf(k)' = DayOf(k) /\ DayOf(k) \in Int
                BY <1>7, <1>9, <2>3, <3>2 DEF DailyInv, OnTheDay
            <4> QED
                BY <1>3, <1>4, <4>1
        <3> QED
            BY <1>7, <2>3, <3>1, <3>2
    <2> QED
        BY <1>1, <1>4, <2>1, <2>2, <2>3 DEF OnTheDay
<1>15. RightFiles'
    <2> SUFFICES ASSUME NEW k \in Mine', writes'[k].file # NoFile PROVE RightFile(k)'
        BY DEF RightFiles
    <2>1. CASE k \in Mine
        <3>1. RightFile(k) /\ writes'[k] = writes[k] /\ DayOf(k)' = DayOf(k)
            BY <1>7, <1>9, <2>1 DEF DailyInv, RightFiles
        <3>2. writes'[k].file > DayOf(k)' => \E j \in Mine' : j < k /\ DayOf(j)' > DayOf(k)'
            BY <1>7, <1>9, <3>1 DEF RightFile
        <3> QED
            BY <1>7, <2>1, <3>1, <3>2 DEF RightFile
    <2>2. CASE k = n
        <3>1. writes'[k].file = Today' /\ DayOf(k)' = D
            BY <1>1, <1>6, <1>7, <2>2
        <3>2. D < Today' => \E j \in Mine' : j < k /\ DayOf(j)' > D
            BY <1>7, <1>9, <1>12, <2>2
        <3>3. EveryDay(k)' => D = Today'
            <4> SUFFICES ASSUME EveryDay(k)', D < Today' PROVE FALSE
                BY <1>4, <1>8, <1>13, <2>2
            <4>1. PICK j \in Mine : DayOf(j) > D
                BY <1>12
            <4>2. j \in Mine' /\ n \in Mine' /\ j < n /\ DayOf(j)' = DayOf(j) /\ DayOf(j) \in Int
                BY <1>7, <1>9
            <4>3. DayOf(j)' <= DayOf(n)'
                BY <1>2, <1>5, <2>2, <4>2 DEF EveryDay
            <4> QED
                BY <1>7, <1>8, <4>1, <4>2, <4>3
        <3> QED
            BY <1>4, <1>8, <3>1, <3>2, <3>3 DEF RightFile
    <2> QED
        BY <1>7, <2>1, <2>2
<1> QED
    BY <1>14, <1>15
LEMMA DailyAnyWrite ==
    ASSUME LogInv, DailyInv, alive, NEW line \in Line, line.life = lives,
           line.time >= began, Write(line), UNCHANGED <<conf, clock, lives, alive, began>>
    PROVE  /\ OnTheDay' /\ RightFiles' /\ began' \in 0..clock' /\ (~alive' => file' = NoFile)
           /\ \A k \in Mine' : writes'[k].line.time >= began'
<1>1. OnTheDay' /\ RightFiles'
    <2>1. CASE conf.rolling
        BY <2>1 DEF OnTheDay, RightFiles
    <2>2. CASE ~conf.rolling
        BY <2>2, DayWrite
    <2> QED
        BY <2>1, <2>2
<1>2. ASSUME NEW k \in Mine' PROVE writes'[k].line.time >= began'
    <2>1. PICK f \in FileName : writes' = Append(writes, [file |-> f, line |-> line])
        BY WriteFiles DEF LogInv
    <2> DEFINE e == [file |-> f, line |-> line]
    <2>2. e \in Entry /\ e.line = line
        BY DEF Entry
    <2> HIDE DEF e
    <2>3. /\ Mine' = Mine \cup {Len(writes) + 1} /\ Mine \subseteq 1..Len(writes)
          /\ writes'[Len(writes) + 1] = e
          /\ \A i \in 1..Len(writes) : writes'[i] = writes[i]
        <3>1. writes' = Append(writes, e)
            BY <2>1 DEF e
        <3> QED
            BY <2>2, <3>1, MineGrows
    <2> QED
        BY <2>2, <2>3 DEF DailyInv, Stamped
<1> QED
    BY <1>1, <1>2 DEF DailyInv

\* The files, their days and the process stay as they are.
LEMMA DailySame ==
    ASSUME DailyInv, UNCHANGED <<conf, lives, alive, began, file, nextRoll, writes>>
    PROVE  OnTheDay' /\ RightFiles' /\ Mine' = Mine /\ (~alive' => file' = NoFile)
<1>1. Mine' = Mine /\ Today' = Today /\ \A t : Period(t)' = Period(t)
    BY DEF Mine, Today, Period, FirstRoll
<1>2. \A k : DayOf(k)' = DayOf(k)
    BY DEF DayOf, Period, FirstRoll
<1>3. \A k : EveryDay(k)' <=> EveryDay(k)
    BY <1>1, <1>2 DEF EveryDay, Period, FirstRoll
<1>4. RollPoint(Today)' <=> RollPoint(Today)
    BY <1>1 DEF RollPoint
<1>5. Period(began)' = Period(began)
    BY DEF Period, FirstRoll
<1>6. OnTheDay'
    BY <1>1, <1>2, <1>3, <1>4, <1>5 DEF DailyInv, OnTheDay
<1>7. \A k \in Mine : RightFile(k)' <=> RightFile(k)
    BY <1>1, <1>2, <1>3 DEF RightFile
<1>8. RightFiles'
    BY <1>1, <1>7 DEF DailyInv, RightFiles
<1> QED
    BY <1>1, <1>6, <1>8 DEF DailyInv

LEMMA DailyLogs == ASSUME LogInv, DailyInv, NEW t \in Thread, Log(t) PROVE DailyInv'
<1>0. PICK new \in Line : held' = [held EXCEPT ![t] = <<new>>] /\ new.time = clock
    BY NewLine
<1>1. /\ held' = [held EXCEPT ![t] = <<new>>] /\ new.time = clock
      /\ UNCHANGED <<conf, clock, lives, began, alive, q1, q2, file, nextRoll, writes>>
    BY <1>0 DEF Log
<1>2. ASSUME NEW u \in Thread PROVE StampedIn(held[u])'
    <2>1. clock >= began
        BY TypeParts DEF DailyInv, LogInv
    <2>2. held'[u] = IF u = t THEN <<new>> ELSE held[u]
        BY <1>1, TypeParts DEF LogInv
    <2> QED
        BY <1>1, <2>1, <2>2 DEF DailyInv, Stamped, StampedIn
<1>3. OnTheDay' /\ RightFiles' /\ Mine' = Mine /\ (~alive' => file' = NoFile)
    BY <1>1, DailySame
<1> QED
    BY <1>1, <1>2, <1>3 DEF DailyInv, Stamped, StampedIn

LEMMA DailyQueues == ASSUME LogInv, DailyInv, NEW t \in Thread, Queue(t) PROVE DailyInv'
<1>1. /\ q1' = q1 \o held[t] /\ held' = [held EXCEPT ![t] = <<>>]
      /\ UNCHANGED <<conf, clock, lives, began, alive, q2, file, nextRoll, writes>>
    BY DEF Queue
<1>2. \A u \in Thread : held'[u] = IF u = t THEN <<>> ELSE held[u]
    BY <1>1, TypeParts DEF LogInv
<1>3. StampedIn(q1)'
    <2>1. q1 \in Seq(Line) /\ held[t] \in Seq(Line)
        BY TypeParts DEF LogInv
    <2>2. StampedIn(q1) /\ StampedIn(held[t])
        BY DEF DailyInv, Stamped
    <2>3. ASSUME NEW i \in 1..Len(q1') PROVE q1'[i].time >= began
        <3>1. CASE i <= Len(q1)
            BY <1>1, <2>1, <2>2, <3>1 DEF StampedIn
        <3>2. CASE i > Len(q1)
            <4>1. q1'[i] = held[t][i - Len(q1)] /\ i - Len(q1) \in 1..Len(held[t])
                BY <1>1, <2>1, <3>2
            <4> QED
                BY <2>2, <4>1 DEF StampedIn
        <3> QED
            BY <2>1, <3>1, <3>2
    <2> QED
        BY <1>1, <2>3 DEF StampedIn
<1>4. OnTheDay' /\ RightFiles' /\ Mine' = Mine /\ (~alive' => file' = NoFile)
    BY <1>1, DailySame
<1>5. \A u \in Thread : StampedIn(held[u])'
    BY <1>1, <1>2 DEF DailyInv, Stamped, StampedIn
<1> QED
    BY <1>1, <1>3, <1>4, <1>5 DEF DailyInv, Stamped, StampedIn

LEMMA DailySync == ASSUME LogInv, DailyInv, NEW t \in Thread, WriteSync(t) PROVE DailyInv'
<1>1. /\ held[t] # <<>> /\ Write(held[t][1]) /\ held' = [held EXCEPT ![t] = <<>>]
      /\ UNCHANGED <<conf, clock, lives, began, alive, q1, q2>>
    BY DEF WriteSync
<1>2. PICK l \in Line : held[t] = <<l>> /\ l.by = t
    BY <1>1, HeldLine
<1>3. held[t][1] = l /\ Len(held[t]) = 1
    BY <1>2
<1>4. l.life = lives /\ l.time >= began /\ alive
    BY <1>1, <1>3 DEF LogInv, HeldLast, Current, NothingLeft, DailyInv, Stamped, StampedIn
<1>5. /\ OnTheDay' /\ RightFiles' /\ began' \in 0..clock' /\ (~alive' => file' = NoFile)
      /\ \A k \in Mine' : writes'[k].line.time >= began'
    BY <1>1, <1>3, <1>4, DailyAnyWrite
<1>6. \A u \in Thread : StampedIn(held[u])'
    <2>1. \A u \in Thread : held'[u] = IF u = t THEN <<>> ELSE held[u]
        BY <1>1, TypeParts DEF LogInv
    <2> QED
        BY <1>1, <2>1 DEF DailyInv, Stamped, StampedIn
<1> QED
    BY <1>1, <1>5, <1>6 DEF DailyInv, Stamped, StampedIn

LEMMA DailyWriteNext == ASSUME LogInv, DailyInv, WriteNext PROVE DailyInv'
<1>1. /\ q2 # <<>> /\ Write(Head(q2)) /\ q2' = Tail(q2) /\ q2 \in Seq(Line)
      /\ UNCHANGED <<conf, clock, lives, began, alive, held, q1>>
    BY TypeParts DEF WriteNext, LogInv
<1>2. /\ Head(q2) = q2[1] /\ Head(q2) \in Line /\ 1 \in 1..Len(q2)
      /\ \A i \in 1..Len(q2') : q2'[i] = q2[i + 1] /\ i + 1 \in 1..Len(q2)
    BY <1>1
<1>3. Head(q2).life = lives /\ Head(q2).time >= began /\ alive
    BY <1>1, <1>2 DEF LogInv, QueuesInOrder, Current, NothingLeft, DailyInv, Stamped, StampedIn
<1>4. /\ OnTheDay' /\ RightFiles' /\ began' \in 0..clock' /\ (~alive' => file' = NoFile)
      /\ \A k \in Mine' : writes'[k].line.time >= began'
    BY <1>1, <1>2, <1>3, DailyAnyWrite
<1>5. StampedIn(q2)'
    BY <1>1, <1>2 DEF DailyInv, Stamped, StampedIn
<1> QED
    BY <1>1, <1>4, <1>5 DEF DailyInv, Stamped, StampedIn

LEMMA DailyStays ==
    ASSUME LogInv, DailyInv, clock' \in Nat, clock <= clock', 
           Swap \/ UNCHANGED <<q1, q2>>,
           UNCHANGED <<conf, lives, alive, began, file, nextRoll, writes, held>>
    PROVE  DailyInv'
<1>1. OnTheDay' /\ RightFiles' /\ Mine' = Mine /\ (~alive' => file' = NoFile)
    BY DailySame
<1>2. began' \in 0..clock'
    BY TypeParts DEF LogInv, DailyInv
<1>3. StampedIn(q1)' /\ StampedIn(q2)'
    BY DEF Swap, DailyInv, Stamped, StampedIn
<1> QED
    BY <1>1, <1>2, <1>3 DEF DailyInv, Stamped, StampedIn

LEMMA DailyEnd == ASSUME LogInv, DailyInv, NEW kept \in 0..Len(writes), End(kept) PROVE DailyInv'
<1>1. /\ ~alive' /\ writes' = SubSeq(writes, 1, kept) /\ q1' = <<>> /\ q2' = <<>>
      /\ held' = [t \in Thread |-> <<>>] /\ file' = NoFile
      /\ UNCHANGED <<clock, lives, began>>
    BY DEF End
<1>2. /\ Len(writes') = kept
      /\ \A k \in 1..kept : writes'[k] = writes[k] /\ k \in 1..Len(writes)
    BY <1>1, TypeParts DEF LogInv
<1>3. \A k \in Mine' : writes'[k].line.time >= began'
    BY <1>1, <1>2 DEF Mine, DailyInv, Stamped
<1>4. Stamped'
    <2>1. \A s : s = <<>> => \A i \in 1..Len(s) : s[i].time >= began'
        OBVIOUS
    <2>2. \A t \in Thread : held'[t] = <<>>
        BY <1>1
    <2>3. \A t \in Thread : StampedIn(held[t])'
        BY <2>1, <2>2 DEF StampedIn
    <2>4. StampedIn(q1)' /\ StampedIn(q2)'
        BY <1>1, <2>1 DEF StampedIn
    <2> QED
        BY <1>3, <2>3, <2>4 DEF Stamped
<1> QED
    BY <1>1, <1>4 DEF DailyInv, OnTheDay, RightFiles

LEMMA DailyStart == ASSUME LogInv, DailyInv, Start PROVE DailyInv'
<1>1. /\ ~alive /\ alive' /\ lives' = lives + 1 /\ began' = clock
      /\ nextRoll' = FirstRoll(clock)
      /\ UNCHANGED <<conf, clock, held, q1, q2, file, writes>>
    BY DEF Start
<1>2. q1 = <<>> /\ q2 = <<>> /\ (\A t \in Thread : held[t] = <<>>) /\ file = NoFile
    BY <1>1 DEF LogInv, NothingLeft, DailyInv
<1>3. Mine' = {}
    <2>1. \A k \in 1..Len(writes) : writes[k].line.life \in Nat
        <3>1. \A k \in 1..Len(writes) : writes[k] \in Entry
            BY TypeParts DEF LogInv
        <3> QED
            BY <3>1 DEF Entry, Line
    <2>2. \A k \in 1..Len(writes) : writes[k].line.life <= lives
        BY DEF LogInv, WrittenSoFar
    <2> QED
        BY <1>1, <2>1, <2>2, TypeParts DEF Mine, LogInv
<1>4. Today' = Period(clock) /\ Period(began)' = Period(clock)
    BY <1>1 DEF Today, Period, FirstRoll
<1>5. RollPoint(Today)' /\ Period(clock) \in Int /\ clock \in Nat
    <2>1. clock \in Nat
        BY TypeParts DEF LogInv
    <2> QED
        BY <1>4, <2>1, PeriodIs DEF RollPoint
<1>6. OnTheDay' /\ RightFiles'
    BY <1>1, <1>2, <1>3, <1>4, <1>5 DEF OnTheDay, RightFiles
<1>7. Stamped'
    BY <1>1, <1>2, <1>3 DEF Stamped, StampedIn
<1> QED
    BY <1>1, <1>5, <1>6, <1>7 DEF DailyInv

LEMMA DailyInit == ASSUME Init PROVE DailyInv
<1>1. /\ clock = Day /\ began = Day /\ alive /\ writes = <<>> /\ q1 = <<>> /\ q2 = <<>>
      /\ file = NoFile /\ nextRoll = FirstRoll(Day) /\ Day \in Nat
      /\ \A t \in Thread : held[t] = <<>>
    BY LoggerAssumption DEF Init
<1>2. Mine = {}
    BY <1>1 DEF Mine
<1>3. Today = Period(Day) /\ Period(Day) \in Int /\ RollPoint(Period(Day))
    BY <1>1, PeriodIs DEF Today, Period
<1> QED
    BY <1>1, <1>2, <1>3 DEF DailyInv, Stamped, StampedIn, OnTheDay, RightFiles

LEMMA DailyNext == LogInv /\ DailyInv /\ [Next]_vars => DailyInv'
<1> SUFFICES ASSUME LogInv, DailyInv, [Next]_vars PROVE DailyInv'
    OBVIOUS
<1>1. ASSUME NEW t \in Thread, Log(t) \/ Queue(t) \/ WriteSync(t) PROVE DailyInv'
    BY <1>1, DailyLogs, DailyQueues, DailySync
<1>2. clock \in Nat
    BY TypeParts DEF LogInv
<1>3. CASE Swap \/ Spill \/ Tick \/ UNCHANGED vars
    <2>1. /\ clock' \in Nat /\ clock <= clock' /\ (Swap \/ UNCHANGED <<q1, q2>>)
          /\ UNCHANGED <<conf, lives, alive, began, file, nextRoll, writes, held>>
        BY <1>2, <1>3 DEF Swap, Spill, Tick, vars
    <2> QED
        BY <2>1, DailyStays
<1>4. CASE WriteNext
    BY <1>4, DailyWriteNext
<1>5. CASE Exit \/ Kill
    BY <1>5, DailyEnd, TypeParts DEF Exit, Kill, LogInv
<1>6. CASE Start
    BY <1>6, DailyStart
<1> QED
    BY <1>1, <1>3, <1>4, <1>5, <1>6 DEF Next, LogThread

\* DailyLog puts no line into the file of a later day unless a line of a later day
\* came first, and each line into the file of its own day as long as lines come in
\* the order of their days and no day is without one (logger.h:343-389).
THEOREM DailyFileCorrect == Spec => []DailyFile
<1>1. LogInv /\ DailyInv => DailyFile
    <2> SUFFICES ASSUME LogInv, DailyInv, alive, ~conf.rolling,
                        NEW k \in Mine, writes[k].file # NoFile
                 PROVE  LET before == {j \in Mine : j < k} IN
                        /\ writes[k].file > DayOf(k) => \E j \in before : DayOf(j) > DayOf(k)
                        /\ /\ \A i, j \in before \cup {k} : i < j => DayOf(i) <= DayOf(j)
                           /\ \A t \in (began + Day)..(DayOf(k) - 1) :
                                 \E j \in before : DayOf(j) = Period(t)
                           => writes[k].file = DayOf(k)
        BY DEF DailyFile, Mine
    <2>1. RightFile(k)
        BY DEF DailyInv, RightFiles
    <2>2. \A j \in Mine : j \in Int /\ (j <= k <=> j < k \/ j = k)
        BY TypeParts DEF Mine, LogInv
    <2>3. /\ \A i, j \in {m \in Mine : m < k} \cup {k} : i < j => DayOf(i) <= DayOf(j)
          /\ \A t \in (began + Day)..(DayOf(k) - 1) :
                 \E j \in {m \in Mine : m < k} : DayOf(j) = Period(t)
          => EveryDay(k)
        <3> SUFFICES ASSUME \A i, j \in {m \in Mine : m < k} \cup {k} :
                                i < j => DayOf(i) <= DayOf(j),
                            \A t \in (began + Day)..(DayOf(k) - 1) :
                                \E j \in {m \in Mine : m < k} : DayOf(j) = Period(t)
                     PROVE  EveryDay(k)
            OBVIOUS
        <3>1. ASSUME NEW i \in Mine, NEW j \in Mine, i < j, j <= k PROVE DayOf(i) <= DayOf(j)
            <4>1. i \in {m \in Mine : m < k} \cup {k} /\ j \in {m \in Mine : m < k} \cup {k}
                BY <2>2, <3>1
            <4> QED
                BY <3>1, <4>1
        <3> QED
            BY <3>1 DEF EveryDay
    <2> QED
        BY <2>1, <2>3 DEF RightFile
<1> QED
    BY <1>1, DailyInit, DailyNext, LogInvariant, PTL DEF Spec
=============================================================================
