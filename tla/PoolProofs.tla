----------------------------- MODULE PoolProofs -----------------------------
(***************************************************************************)
(* Proofs about the lists and both pools built of them.  First, what each  *)
(* operation of SList does to the sequence of nodes that a list holds, and *)
(* to the nodes of other lists.  Then TlsMemPool, for any threads, blocks  *)
(* and batch sizes: a block is in one place however chains of blocks move, *)
(* no thread hoards, and a quiet report is exact.  Last MemPool, for any   *)
(* threads, blocks, and numbers of blocks created at first and at a time.  *)
(***************************************************************************)
EXTENDS MemPool, TlsMemPool, Integers, FunctionTheorems, FiniteSetTheorems, WellFoundedInduction, TLAPS

Links == [Node -> Node \cup {Null}]

\* A list holds nothing exactly when cnt_ is 0, and its first and last nodes
\* are start_ and end_.
LEMMA HoldsEnds ==
    ASSUME NEW l \in Lists, NEW nx \in Links, NEW seq \in Seq(Node),
           Holds(l, nx, seq)
    PROVE  /\ l.cnt = 0 <=> seq = <<>>
           /\ l.cnt > 0 => l.start = seq[1] /\ l.end = seq[l.cnt]
    BY DEF Holds

\* push(T*) of a node that is not in the list puts it in front.
THEOREM PushHolds ==
    ASSUME Null \notin Node, NEW l \in Lists, NEW nx \in Links,
           NEW seq \in Seq(Node), Holds(l, nx, seq),
           NEW n \in Node, \A i \in 1..Len(seq) : seq[i] # n
    PROVE  LET q == Push(l, nx, n)
           IN  /\ q.list \in Lists /\ q.next \in Links
               /\ Holds(q.list, q.next, <<n>> \o seq)
<1> DEFINE q == Push(l, nx, n)
           s == <<n>> \o seq
<1>1. /\ s \in Seq(Node) /\ Len(s) = Len(seq) + 1 /\ s[1] = n
      /\ \A i \in 1..Len(seq) : s[i + 1] = seq[i]
      /\ \A i \in 2..Len(s) : s[i] = seq[i - 1]
    OBVIOUS
<1>2. CASE l.cnt = 0
    <2>1. seq = <<>> /\ s = <<n>>
        <3>1. Len(seq) = 0
            BY <1>2 DEF Holds
        <3>2. seq = <<>>
            BY <3>1
        <3>3. Len(s) = 1
            BY <3>1, <1>1
        <3> QED
            BY <3>2, <3>3, <1>1
    <2>2. q = [list |-> [cnt |-> 1, start |-> n, end |-> n],
               next |-> [nx EXCEPT ![n] = Null]]
        BY <1>2 DEF Push
    <2> QED
        BY <2>1, <2>2 DEF Holds, Lists, Links
<1>3. CASE l.cnt # 0
    <2>1. q = [list |-> [cnt |-> l.cnt + 1, start |-> n, end |-> l.end],
               next |-> [nx EXCEPT ![n] = l.start]]
        BY <1>3 DEF Push, Lists
    <2>2. /\ Len(seq) = l.cnt /\ seq # <<>>
          /\ l.start = seq[1] /\ l.end = seq[Len(seq)]
        BY <1>3 DEF Holds
    <2>3. q.list \in Lists /\ q.next \in Links
        BY <2>1, <2>2 DEF Lists, Links
    <2>4. q.next[n] = seq[1]
        BY <2>1, <2>2 DEF Links
    <2>5. \A i \in 1..Len(seq) : q.next[seq[i]] = nx[seq[i]]
        BY <2>1 DEF Links
    <2>6. \A i, j \in 1..Len(s) : s[i] = s[j] => i = j
        BY <1>1 DEF Holds
    <2>7. \A i \in 1..(Len(s) - 1) : q.next[s[i]] = s[i + 1]
        <3> TAKE i \in 1..(Len(s) - 1)
        <3>1. CASE i = 1
            BY <3>1, <1>1, <2>4, <2>2
        <3>2. CASE i # 1
            <4>1. i - 1 \in 1..(Len(seq) - 1) /\ s[i] = seq[i - 1] /\ s[i + 1] = seq[i]
                BY <3>2, <1>1
            <4>2. nx[seq[i - 1]] = seq[(i - 1) + 1]
                BY <4>1 DEF Holds
            <4> QED
                BY <4>1, <4>2, <2>5
        <3> QED
            BY <3>1, <3>2
    <2>8. s[Len(s)] = seq[Len(seq)] /\ q.next[s[Len(s)]] = Null
        BY <1>1, <2>2, <2>5 DEF Holds
    <2> QED
        BY <1>1, <2>1, <2>2, <2>3, <2>6, <2>7, <2>8 DEF Holds, Lists
<1> QED
    BY <1>2, <1>3 DEF Lists

\* pop() of a list that holds something takes the first node.
THEOREM PopHolds ==
    ASSUME Null \notin Node, NEW l \in Lists, NEW nx \in Links,
           NEW seq \in Seq(Node), Holds(l, nx, seq), l.cnt > 0
    PROVE  LET p == Pop(l, nx)
           IN  /\ p.list \in Lists /\ p.next \in Links
               /\ p.node = seq[1]
               /\ Holds(p.list, p.next, Tail(seq))
<1> DEFINE p == Pop(l, nx)
           s == Tail(seq)
<1>1. Len(seq) = l.cnt /\ seq # <<>> /\ l.start = seq[1] /\ l.end = seq[Len(seq)]
    BY DEF Holds, Lists
<1>0. l.cnt \in Nat
    BY DEF Lists
<1>2. /\ s \in Seq(Node) /\ Len(s) = Len(seq) - 1
      /\ \A i \in 1..Len(s) : s[i] = seq[i + 1]
    BY <1>1
<1>3. p = [node |-> l.start,
           list |-> [cnt   |-> l.cnt - 1,
                     start |-> IF l.cnt = 1 THEN Null ELSE nx[l.start],
                     end   |-> CASE l.cnt = 1 -> Null
                                 [] l.cnt = 2 -> nx[l.start]
                                 [] OTHER -> l.end],
           next |-> [nx EXCEPT ![l.start] = Null]]
    BY <1>1 DEF Pop, Lists
<1>4. l.start \in Node /\ p.node = seq[1] /\ p.next = [nx EXCEPT ![l.start] = Null]
    BY <1>1, <1>3
<1>5. \A i \in 1..Len(s) : p.next[s[i]] = nx[s[i]]
    <2> TAKE i \in 1..Len(s)
    <2>1. s[i] # seq[1]
        BY <1>1, <1>2 DEF Holds
    <2> QED
        BY <1>1, <1>2, <1>4, <2>1 DEF Links
<1>6. \A i, j \in 1..Len(s) : s[i] = s[j] => i = j
    <2> TAKE i, j \in 1..Len(s)
    <2>1. i + 1 \in 1..Len(seq) /\ j + 1 \in 1..Len(seq)
        BY <1>2
    <2> QED
        BY <1>2, <2>1 DEF Holds
<1>7. \A i \in 1..(Len(s) - 1) : p.next[s[i]] = s[i + 1]
    <2> TAKE i \in 1..(Len(s) - 1)
    <2>1. i + 1 \in 1..(Len(seq) - 1) /\ s[i] = seq[i + 1] /\ s[i + 1] = seq[(i + 1) + 1]
        BY <1>2
    <2>2. nx[seq[i + 1]] = seq[(i + 1) + 1]
        BY <2>1 DEF Holds
    <2> QED
        BY <1>2, <1>5, <2>1, <2>2
<1>8. CASE l.cnt = 1
    <2>1. Len(s) = 0
        BY <1>8, <1>1, <1>2
    <2>2. s = <<>>
        BY <2>1, <1>2
    <2>3. p.list = [cnt |-> 0, start |-> Null, end |-> Null]
        BY <1>8, <1>3
    <2>4. p.list \in Lists /\ p.next \in Links
        BY <2>3, <1>4 DEF Lists, Links
    <2>5. Holds(p.list, p.next, s)
        BY <2>1, <2>2, <2>3 DEF Holds
    <2> QED
        BY <1>4, <2>4, <2>5
<1>9. CASE l.cnt > 1
    <2>1. /\ 1 \in 1..(Len(seq) - 1) /\ Len(s) \in 1..Len(s)
          /\ nx[seq[1]] = seq[2] /\ s[1] = seq[2]
          /\ s[Len(s)] = seq[Len(seq)]
        BY <1>9, <1>1, <1>2 DEF Holds
    <2>2. p.list.start = s[1] /\ p.list.cnt = Len(s)
        BY <1>9, <1>1, <1>2, <1>3, <2>1
    <2>3. p.list.end = s[Len(s)]
        <3>1. CASE l.cnt = 2
            <4>1. p.list.end = nx[l.start]
                BY <3>1, <1>3
            <4> QED
                BY <3>1, <4>1, <1>1, <1>2, <2>1
        <3>2. CASE l.cnt > 2
            <4>1. p.list.end = l.end
                BY <3>2, <1>3
            <4> QED
                BY <4>1, <1>1, <2>1
        <3>3. l.cnt = 2 \/ l.cnt > 2
            BY <1>9, <1>0
        <3> QED
            BY <3>1, <3>2, <3>3
    <2>4. p.next[s[Len(s)]] = Null
        BY <2>1, <1>1, <1>5 DEF Holds
    <2>5. p.list \in Lists /\ p.next \in Links
        <3>1. s[1] \in Node /\ s[Len(s)] \in Node
            BY <1>2, <2>1
        <3> QED
            BY <1>2, <1>3, <1>4, <2>2, <2>3, <3>1 DEF Lists, Links
    <2>6. s # <<>>
        <3>1. Len(s) # 0
            BY <1>9, <1>0, <1>1, <1>2
        <3>2. Len(<<>>) = 0
            OBVIOUS
        <3> QED
            BY <3>1, <3>2
    <2> QED
        BY <1>4, <1>6, <1>7, <2>2, <2>3, <2>4, <2>5, <2>6 DEF Holds
<1> QED
    BY <1>8, <1>9 DEF Lists

\* push(SList&) puts the nodes of the other list in front of this one's.
THEOREM PushListHolds ==
    ASSUME Null \notin Node, NEW l \in Lists, NEW m \in Lists, NEW nx \in Links,
           NEW ls \in Seq(Node), Holds(l, nx, ls),
           NEW ms \in Seq(Node), Holds(m, nx, ms),
           \A i \in 1..Len(ls), j \in 1..Len(ms) : ls[i] # ms[j]
    PROVE  LET q == PushList(l, nx, m)
           IN  /\ q.list \in Lists /\ q.next \in Links
               /\ Holds(q.list, q.next, ms \o ls)
<1> DEFINE q == PushList(l, nx, m)
           s == ms \o ls
<1>1. /\ Len(ls) = l.cnt /\ Len(ms) = m.cnt /\ l.cnt \in Nat /\ m.cnt \in Nat
      /\ Len(ls) \in Nat /\ Len(ms) \in Nat
    BY DEF Holds, Lists
<1>2. /\ s \in Seq(Node) /\ Len(s) = Len(ms) + Len(ls)
      /\ \A i \in 1..Len(ms) : s[i] = ms[i]
      /\ \A i \in (Len(ms) + 1)..Len(s) : s[i] = ls[i - Len(ms)]
    OBVIOUS
<1>2a. /\ \A i \in 1..Len(s) : i <= Len(ms) => i \in 1..Len(ms)
      /\ \A i \in 1..Len(s) : i > Len(ms) => i - Len(ms) \in 1..Len(ls)
    BY <1>1, <1>2
<1>2b. /\ \A i \in 1..Len(s) : i <= Len(ms) => s[i] = ms[i]
      /\ \A i \in 1..Len(s) : i > Len(ms) => s[i] = ls[i - Len(ms)]
    BY <1>1, <1>2
<1> HIDE DEF s
<1>3. CASE m.cnt = 0
    <2>1. ms = <<>>
        BY <1>1, <1>3
    <2>2. s = ls
        BY <2>1 DEF s
    <2>3. q = [list |-> l, next |-> nx]
        BY <1>3 DEF PushList
    <2> QED
        BY <2>2, <2>3 DEF s
<1>4. CASE m.cnt # 0 /\ l.cnt = 0
    <2>1. ls = <<>>
        BY <1>1, <1>4
    <2>2. s = ms
        BY <2>1 DEF s
    <2>3. q = [list |-> m, next |-> nx]
        BY <1>4 DEF PushList
    <2> QED
        BY <2>2, <2>3 DEF s
<1>5. CASE m.cnt # 0 /\ l.cnt # 0
    <2>1. /\ q.list = [cnt |-> l.cnt + m.cnt, start |-> m.start, end |-> l.end]
          /\ q.next = [nx EXCEPT ![m.end] = l.start]
        BY <1>5 DEF PushList
    <2>2. /\ ms # <<>> /\ ls # <<>>
          /\ m.start = ms[1] /\ m.end = ms[Len(ms)]
          /\ l.start = ls[1] /\ l.end = ls[Len(ls)]
        <3>1. Len(<<>>) = 0
            OBVIOUS
        <3> QED
            BY <1>1, <1>5, <3>1 DEF Holds
    <2>3. /\ 1 \in 1..Len(ms) /\ Len(ms) \in 1..Len(ms)
          /\ 1 \in 1..Len(ls) /\ Len(ls) \in 1..Len(ls)
        BY <1>1, <1>5
    <2>4. q.list \in Lists /\ q.next \in Links
        BY <1>1, <2>1, <2>2, <2>3 DEF Lists, Links
    <2>5. q.next[ms[Len(ms)]] = ls[1]
        BY <2>1, <2>2, <2>3 DEF Links
    <2>6. \A i \in 1..(Len(ms) - 1) : q.next[ms[i]] = nx[ms[i]]
        <3> TAKE i \in 1..(Len(ms) - 1)
        <3>1. i \in 1..Len(ms) /\ i # Len(ms)
            BY <1>1
        <3>2. ms[i] # ms[Len(ms)]
            BY <3>1, <2>3 DEF Holds
        <3> QED
            BY <2>1, <2>2, <2>3, <3>1, <3>2 DEF Links
    <2>7. \A i \in 1..Len(ls) : q.next[ls[i]] = nx[ls[i]]
        BY <2>1, <2>2, <2>3 DEF Links
    <2>8. \A i, j \in 1..Len(s) : s[i] = s[j] => i = j
        <3> SUFFICES ASSUME NEW i \in 1..Len(s), NEW j \in 1..Len(s), s[i] = s[j]
                     PROVE  i = j
            OBVIOUS
        <3>1. CASE i <= Len(ms) /\ j <= Len(ms)
            <4>1. i \in 1..Len(ms) /\ j \in 1..Len(ms)
                BY <3>1
            <4> QED
                BY <4>1, <1>2 DEF Holds
        <3>2. CASE i > Len(ms) /\ j > Len(ms)
            <4>1. /\ i - Len(ms) \in 1..Len(ls) /\ j - Len(ms) \in 1..Len(ls)
                  /\ s[i] = ls[i - Len(ms)] /\ s[j] = ls[j - Len(ms)]
                BY <3>2, <1>2a, <1>2b
            <4>2. i - Len(ms) = j - Len(ms)
                BY <4>1 DEF Holds
            <4> QED
                BY <4>2, <1>1
        <3>3. CASE i <= Len(ms) /\ j > Len(ms)
            BY <3>3, <1>2a, <1>2b
        <3>4. CASE i > Len(ms) /\ j <= Len(ms)
            BY <3>4, <1>2a, <1>2b
        <3> QED
            BY <3>1, <3>2, <3>3, <3>4, <1>1
    <2>9. \A i \in 1..(Len(s) - 1) : q.next[s[i]] = s[i + 1]
        <3> TAKE i \in 1..(Len(s) - 1)
        <3>1. CASE i < Len(ms)
            <4>1. /\ i \in 1..(Len(ms) - 1) /\ s[i] = ms[i] /\ s[i + 1] = ms[i + 1]
                <5>1. i \in 1..(Len(ms) - 1) /\ i \in 1..Len(ms) /\ i + 1 \in 1..Len(ms)
                    BY <3>1, <1>1, <1>2
                <5> QED
                    BY <5>1, <1>2
            <4> QED
                BY <4>1, <2>6 DEF Holds
        <3>2. CASE i = Len(ms)
            <4>1. s[i] = ms[Len(ms)]
                BY <3>2, <1>2, <2>3
            <4>2. i + 1 \in 1..Len(s) /\ i + 1 > Len(ms) /\ (i + 1) - Len(ms) = 1
                BY <3>2, <1>1, <1>2
            <4>3. s[i + 1] = ls[1]
                BY <4>2, <1>2b
            <4> QED
                BY <4>1, <4>3, <2>5
        <3>3. CASE i > Len(ms)
            <4>1. /\ i - Len(ms) \in 1..(Len(ls) - 1)
                  /\ s[i] = ls[i - Len(ms)] /\ s[i + 1] = ls[(i - Len(ms)) + 1]
                <5>1. /\ i \in 1..Len(s) /\ i + 1 \in 1..Len(s)
                      /\ i > Len(ms) /\ i + 1 > Len(ms)
                      /\ (i + 1) - Len(ms) = (i - Len(ms)) + 1
                    BY <3>3, <1>1, <1>2
                <5>2. s[i] = ls[i - Len(ms)] /\ s[i + 1] = ls[(i + 1) - Len(ms)]
                    BY <5>1, <1>2b
                <5>3. i - Len(ms) \in 1..Len(ls) /\ (i + 1) - Len(ms) \in 1..Len(ls)
                    BY <5>1, <1>2a
                <5>4. i - Len(ms) \in 1..(Len(ls) - 1)
                    BY <5>1, <5>3, <1>1
                <5> QED
                    BY <5>1, <5>2, <5>4
            <4> QED
                BY <4>1, <1>1, <2>7 DEF Holds
        <3> QED
            BY <3>1, <3>2, <3>3, <1>1
    <2>10. /\ s[1] = ms[1] /\ s[Len(s)] = ls[Len(ls)]
           /\ q.next[s[Len(s)]] = Null /\ Len(s) = l.cnt + m.cnt /\ s # <<>>
        <3>1. s[1] = ms[1] /\ Len(s) = l.cnt + m.cnt
            BY <1>1, <1>2, <2>3
        <3>2. s[Len(s)] = ls[Len(ls)]
            BY <1>1, <1>2, <1>5
        <3>3. nx[ls[Len(ls)]] = Null
            BY <2>2 DEF Holds
        <3>4. s # <<>>
            <4>1. Len(<<>>) = 0 /\ Len(s) # 0
                BY <3>1, <1>1, <1>5
            <4> QED
                BY <4>1
        <3> QED
            BY <3>1, <3>2, <3>3, <3>4, <2>3, <2>7
    <2>11. Holds(q.list, q.next, s)
        BY <2>1, <2>2, <2>8, <2>9, <2>10 DEF Holds
    <2> QED
        BY <2>4, <2>11 DEF s
<1> QED
    BY <1>3, <1>4, <1>5

----------------------------------------------------------------------------

LEMMA RangeSeq ==
    ASSUME NEW n \in Nat, NEW S, NEW f \in [1..n -> S]
    PROVE  /\ \A i \in 1..n : f[i] \in Range(f)
           /\ \A x \in Range(f) : \E i \in 1..n : x = f[i]
    BY DEF Range

LEMMA SeqRange ==
    ASSUME NEW s \in Seq(Node)
    PROVE  /\ Len(s) \in Nat
           /\ \A i \in 1..Len(s) : s[i] \in Range(s)
           /\ \A x \in Range(s) : \E i \in 1..Len(s) : x = s[i]
    BY DEF Range

LEMMA FreeListIntro ==
    ASSUME NEW l, NEW nx, NEW S, NEW seq \in Seq(Node), Holds(l, nx, seq),
           Range(seq) = S
    PROVE  seq \in [1..l.cnt -> S]
<1>1. Len(seq) = l.cnt
    BY DEF Holds
<1> QED
    BY <1>1 DEF Range

LEMMA TailRange ==
    ASSUME NEW seq \in Seq(Node), seq # <<>>,
           \A i, j \in 1..Len(seq) : seq[i] = seq[j] => i = j
    PROVE  Range(Tail(seq)) = Range(seq) \ {seq[1]}
<1>1. /\ Len(Tail(seq)) = Len(seq) - 1 /\ Len(seq) \in Nat \ {0}
      /\ \A i \in 1..Len(Tail(seq)) : Tail(seq)[i] = seq[i + 1]
    OBVIOUS
<1>2. Range(Tail(seq)) \subseteq Range(seq) \ {seq[1]}
    <2> SUFFICES ASSUME NEW i \in 1..Len(Tail(seq))
                 PROVE  Tail(seq)[i] \in Range(seq) \ {seq[1]}
        BY DEF Range
    <2>1. i + 1 \in 1..Len(seq) /\ 1 \in 1..Len(seq) /\ i + 1 # 1
        BY <1>1
    <2> QED
        BY <1>1, <2>1 DEF Range
<1>3. Range(seq) \ {seq[1]} \subseteq Range(Tail(seq))
    <2> SUFFICES ASSUME NEW i \in 1..Len(seq), seq[i] # seq[1]
                 PROVE  seq[i] \in Range(Tail(seq))
        BY DEF Range
    <2>1. i - 1 \in 1..Len(Tail(seq)) /\ (i - 1) + 1 = i
        BY <1>1
    <2>2. Tail(seq)[i - 1] = seq[i]
        BY <1>1, <2>1
    <2>3. Tail(seq) \in Seq(Node)
        OBVIOUS
    <2>4. Tail(seq)[i - 1] \in Range(Tail(seq))
        BY <2>1, <2>3, SeqRange
    <2> QED
        BY <2>2, <2>4
<1> QED
    BY <1>2, <1>3

LEMMA ConsRange ==
    ASSUME NEW seq \in Seq(Node), NEW n \in Node
    PROVE  Range(<<n>> \o seq) = Range(seq) \cup {n}
<1> DEFINE s == <<n>> \o seq
<1>1. /\ Len(s) = Len(seq) + 1 /\ s[1] = n /\ Len(seq) \in Nat
      /\ \A i \in 1..Len(seq) : s[i + 1] = seq[i]
      /\ \A i \in 2..Len(s) : s[i] = seq[i - 1]
    OBVIOUS
<1>2. 1 \in 1..Len(s) /\ \A i \in 1..Len(seq) : i + 1 \in 1..Len(s)
    BY <1>1
<1>3. \A i \in 1..Len(s) : i = 1 \/ (i \in 2..Len(s) /\ i - 1 \in 1..Len(seq))
    BY <1>1
<1>4. s \in Seq(Node)
    OBVIOUS
<1> HIDE DEF s
<1>5. Range(s) \subseteq Range(seq) \cup {n}
    <2> SUFFICES ASSUME NEW x \in Range(s) PROVE x \in Range(seq) \cup {n}
        OBVIOUS
    <2>1. PICK i \in 1..Len(s) : x = s[i]
        BY <1>4, SeqRange
    <2>2. CASE i = 1
        BY <1>1, <2>1, <2>2
    <2>3. CASE i \in 2..Len(s) /\ i - 1 \in 1..Len(seq)
        <3>1. x = seq[i - 1] /\ seq[i - 1] \in Range(seq)
            BY <1>1, <2>1, <2>3, SeqRange
        <3> QED
            BY <3>1
    <2> QED
        BY <1>3, <2>2, <2>3
<1>6. Range(seq) \cup {n} \subseteq Range(s)
    <2>1. s[1] \in Range(s)
        BY <1>2, <1>4, SeqRange
    <2>2. ASSUME NEW x \in Range(seq) PROVE x \in Range(s)
        <3>1. PICK i \in 1..Len(seq) : x = seq[i]
            BY SeqRange
        <3>2. s[i + 1] \in Range(s)
            BY <1>2, <1>4, SeqRange
        <3> QED
            BY <1>1, <3>1, <3>2
    <2> QED
        BY <1>1, <2>1, <2>2
<1> QED
    BY <1>5, <1>6 DEF s

\* New blocks pushed one by one make a list of them, and change no other link.
LEMMA ChainHolds ==
    ASSUME NEW n \in Nat, NEW S \in SUBSET Node, NEW f \in Orders(n, S),
           NEW nx \in Links
    PROVE  /\ Chain(f, n) \in Lists /\ Linked(nx, f, n) \in Links
           /\ \E seq \in Seq(Node) : /\ Len(seq) = n
                                     /\ Holds(Chain(f, n), Linked(nx, f, n), seq)
                                     /\ Range(seq) = Range(f)
           /\ \A m \in Node : m \notin Range(f) => Linked(nx, f, n)[m] = nx[m]
<1> DEFINE seq == [i \in 1..n |-> f[n + 1 - i]]
           ny == Linked(nx, f, n)
<1>1. /\ f \in [1..n -> S] /\ \A i \in 1..n : f[i] \in Node
      /\ \A i, j \in 1..n : f[i] = f[j] => i = j
    BY DEF Orders
<1>2. \A i \in 1..n : n + 1 - i \in 1..n /\ n + 1 - (n + 1 - i) = i
    OBVIOUS
<1>3. /\ seq \in [1..n -> Node] /\ seq \in Seq(Node) /\ Len(seq) = n
    BY <1>1, <1>2
<1>4. Range(seq) = Range(f)
    <2>1. \A i \in 1..n : seq[n + 1 - i] = f[i] /\ seq[i] = f[n + 1 - i]
        BY <1>2
    <2> HIDE DEF seq
    <2> QED
        <3>1. ASSUME NEW x \in Range(seq) PROVE x \in Range(f)
            <4>1. PICK i \in 1..n : x = seq[i]
                BY <1>3, SeqRange
            <4>2. f[n + 1 - i] \in Range(f)
                <5>1. \A k \in 1..n : f[k] \in Range(f)
                    BY <1>1, RangeSeq
                <5> QED
                    BY <1>2, <5>1
            <4> QED
                BY <2>1, <4>1, <4>2
        <3>2. ASSUME NEW x \in Range(f) PROVE x \in Range(seq)
            <4>0. \A y \in Range(f) : \E i \in 1..n : y = f[i]
                <5>1. f \in [1..n -> S]
                    BY <1>1
                <5> QED
                    BY <5>1, RangeSeq
            <4>1. PICK i \in 1..n : x = f[i]
                BY <4>0
            <4>2. seq[n + 1 - i] \in Range(seq)
                BY <1>2, <1>3, SeqRange
            <4> QED
                BY <2>1, <4>1, <4>2
        <3> QED
            BY <3>1, <3>2
<1>5. \A i \in 2..n : ny[f[i]] = f[i - 1]
    <2> TAKE i \in 2..n
    <2>1. i \in 1..n /\ f[i] \in Node
        BY <1>1
    <2>2. (CHOOSE k \in 2..n : f[k] = f[i]) = i
        <3>1. \A k \in 2..n : f[k] = f[i] => k = i
            BY <1>1, <2>1
        <3> QED
            BY <3>1
    <2> QED
        BY <2>1, <2>2 DEF Linked
<1>6. n > 0 => ny[f[1]] = Null
    <2> SUFFICES ASSUME n > 0 PROVE ny[f[1]] = Null
        OBVIOUS
    <2>1. 1 \in 1..n /\ f[1] \in Node
        BY <1>1
    <2>2. \A k \in 2..n : f[k] # f[1]
        BY <1>1, <2>1
    <2> QED
        BY <2>1, <2>2 DEF Linked
<1>7. \A m \in Node : m \notin Range(f) => ny[m] = nx[m]
    <2> SUFFICES ASSUME NEW m \in Node, m \notin Range(f)
                 PROVE  ny[m] = nx[m]
        OBVIOUS
    <2>1. \A k \in 2..n : k \in 1..n
        OBVIOUS
    <2> QED
        <3>1. \A i \in 1..n : f[i] # m
            BY <1>1, RangeSeq
        <3> QED
            BY <2>1, <3>1 DEF Linked
<1>8. ny \in Links
    <2> SUFFICES ASSUME NEW m \in Node PROVE ny[m] \in Node \cup {Null}
        BY DEF Linked, Links
    <2>1. CASE \E i \in 1..n : f[i] = m
        <3>1. PICK i \in 1..n : f[i] = m
            BY <2>1
        <3>2. CASE i = 1
            BY <3>1, <3>2, <1>6
        <3>3. CASE i # 1
            <4>1. i \in 2..n /\ i - 1 \in 1..n
                BY <3>3
            <4> QED
                BY <3>1, <4>1, <1>1, <1>5
        <3> QED
            BY <3>2, <3>3
    <2>2. CASE ~ \E i \in 1..n : f[i] = m
        <3>1. m \notin Range(f)
            BY <2>2, <1>1, RangeSeq
        <3> QED
            BY <3>1, <1>7 DEF Links
    <2> QED
        BY <2>1, <2>2
<1>9. Chain(f, n) \in Lists
    <2>1. n > 0 => f[1] \in Node /\ f[n] \in Node
        BY <1>1
    <2> QED
        BY <2>1 DEF Chain, Lists
<1>10. Holds(Chain(f, n), ny, seq)
    <2>1. \A i, j \in 1..Len(seq) : seq[i] = seq[j] => i = j
        <3> SUFFICES ASSUME NEW i \in 1..n, NEW j \in 1..n, seq[i] = seq[j] PROVE i = j
            BY <1>3
        <3>1. n + 1 - i = n + 1 - j
            BY <1>1, <1>2
        <3> QED
            BY <3>1
    <2>2. \A i \in 1..(Len(seq) - 1) : ny[seq[i]] = seq[i + 1]
        <3> SUFFICES ASSUME NEW i \in 1..(n - 1) PROVE ny[seq[i]] = seq[i + 1]
            BY <1>3
        <3>1. /\ n + 1 - i \in 2..n /\ (n + 1 - i) - 1 = n + 1 - (i + 1)
              /\ i \in 1..n /\ i + 1 \in 1..n
            OBVIOUS
        <3>2. seq[i] = f[n + 1 - i] /\ seq[i + 1] = f[n + 1 - (i + 1)]
            BY <3>1
        <3>3. ny[f[n + 1 - i]] = f[(n + 1 - i) - 1]
            BY <3>1, <1>5
        <3> HIDE DEF ny, seq
        <3> QED
            BY <3>1, <3>2, <3>3
    <2>3. CASE n = 0
        <3>1. seq = <<>>
            BY <2>3, <1>3
        <3> QED
            BY <2>1, <2>2, <2>3, <3>1, <1>3 DEF Holds, Chain
    <2>4. CASE n > 0
        <3>1. /\ seq # <<>> /\ seq[1] = f[n] /\ seq[n] = f[1]
            <4>1. 1 \in 1..n /\ n \in 1..n /\ n + 1 - 1 = n /\ n + 1 - n = 1
                BY <2>4
            <4>2. seq[1] = f[n + 1 - 1] /\ seq[n] = f[n + 1 - n]
                BY <4>1
            <4>3. Len(<<>>) = 0
                OBVIOUS
            <4> QED
                BY <4>1, <4>2, <4>3, <1>3, <2>4
        <3>2. ny[seq[Len(seq)]] = Null
            BY <3>1, <1>3, <1>6, <2>4
        <3>3. Chain(f, n) = [cnt |-> n, start |-> f[n], end |-> f[1]]
            BY <2>4 DEF Chain
        <3> HIDE DEF ny, seq
        <3> QED
            BY <2>1, <2>2, <3>1, <3>2, <3>3, <1>3 DEF Holds
    <2> QED
        BY <2>3, <2>4
<1> QED
    BY <1>3, <1>4, <1>7, <1>8, <1>9, <1>10

\* A one-to-one list of n blocks has n blocks.
LEMMA InjCard ==
    ASSUME NEW n \in Nat, NEW f, NEW S, f \in [1..n -> S],
           \A i, j \in 1..n : f[i] = f[j] => i = j
    PROVE  IsFiniteSet(Range(f)) /\ Cardinality(Range(f)) = n
<1> DEFINE T == Range(f)
<1>1. f \in Bijection(1..n, T)
    <2>1. f \in [1..n -> T]
        BY DEF Range
    <2>2. \A y \in T : \E x \in 1..n : f[x] = y
        BY DEF Range
    <2> HIDE DEF T
    <2> QED
        BY <2>1, <2>2, Fun_IsBij
<1>2. ExistsBijection(1..n, T)
    BY <1>1 DEF ExistsBijection
<1> QED
    BY <1>2, FS_NatBijection, FS_CountingElements

\* What a pop of the free list does, when it is not empty.
LEMMA PopFree ==
    ASSUME Null \notin Node, NEW l \in Lists, NEW nx \in Links, NEW seq \in Seq(Node),
           Holds(l, nx, seq), l.cnt > 0
    PROVE  LET p == Pop(l, nx)
           IN  /\ p.list \in Lists /\ p.next \in Links
               /\ p.node \in Range(seq) /\ p.node \in Node /\ p.node # Null
               /\ Tail(seq) \in Seq(Node) /\ Holds(p.list, p.next, Tail(seq))
               /\ Range(Tail(seq)) = Range(seq) \ {p.node}
<1>1. Len(seq) = l.cnt /\ l.cnt \in Nat
    BY DEF Holds, Lists
<1>2. 1 \in 1..Len(seq) /\ seq # <<>>
    <2>1. Len(<<>>) = 0
        OBVIOUS
    <2> QED
        BY <1>1, <2>1
<1>3. seq[1] \in Range(seq) /\ seq[1] \in Node /\ Tail(seq) \in Seq(Node)
    BY <1>2 DEF Range
<1>4. Range(Tail(seq)) = Range(seq) \ {seq[1]}
    BY <1>2, TailRange DEF Holds
<1> QED
    BY <1>3, <1>4, PopHolds

----------------------------------------------------------------------------
(* Walking along next_.                                                    *)

\* A set of numbers that is not empty has a least one.
LEMMA LeastNat ==
    ASSUME NEW T, T \subseteq Nat, T # {}
    PROVE  \E n \in T : \A m \in T : n <= m
<1> DEFINE R == {p \in Nat \X Nat : p[1] < p[2]}
<1>1. IsWellFoundedOn(R, Nat)
    BY NatLessThanWellFounded DEF OpToRel
<1> HIDE DEF R
<1>2. PICK n \in T : \A m \in T : ~(<<m, n>> \in R)
    BY <1>1, WFMin
<1>3. \A m \in T : ~(m < n)
    BY <1>2 DEF R
<1> QED
    BY <1>3

\* k steps from start_ lead to the node in place k + 1.
LEMMA WalkIs ==
    ASSUME Null \notin Node, NEW l \in Lists, NEW nx \in Links,
           NEW seq \in Seq(Node), Holds(l, nx, seq), NEW k \in 0..(Len(seq) - 1)
    PROVE  Walk(l, nx, k) = seq[k + 1]
<1> DEFINE Steps(g) == g = [i \in 0..k |-> IF i = 0 THEN l.start
                                 ELSE IF g[i - 1] = Null THEN Null ELSE nx[g[i - 1]]]
           at == CHOOSE g : Steps(g)
           ok == [i \in 0..k |-> seq[i + 1]]
<1>1. Walk(l, nx, k) = at[k]
    BY Zenon DEF Walk
<1>2. /\ Len(seq) \in Nat /\ k \in Nat /\ k < Len(seq) /\ seq # <<>> /\ l.start = seq[1]
      /\ \A i \in 1..Len(seq) : seq[i] \in Node
      /\ \A i \in 1..(Len(seq) - 1) : nx[seq[i]] = seq[i + 1]
    <2>1. Len(<<>>) = 0
        OBVIOUS
    <2> QED
        BY <2>1 DEF Holds
<1>3. Steps(ok)
    <2> SUFFICES ASSUME NEW i \in 0..k
                 PROVE  seq[i + 1] = IF i = 0 THEN l.start
                                     ELSE IF ok[i - 1] = Null THEN Null ELSE nx[ok[i - 1]]
        OBVIOUS
    <2>1. CASE i = 0
        BY <2>1, <1>2
    <2>2. CASE i # 0
        <3>1. /\ i - 1 \in 0..k /\ (i - 1) + 1 = i /\ i \in 1..(Len(seq) - 1)
              /\ i \in 1..Len(seq)
            BY <2>2, <1>2
        <3>2. ok[i - 1] = seq[i] /\ seq[i] # Null
            BY <3>1, <1>2
        <3> QED
            BY <2>2, <3>1, <3>2, <1>2
    <2> QED
        BY <2>1, <2>2
<1> HIDE DEF ok
<1>4. Steps(at)
    BY <1>3, Zenon
<1> HIDE DEF at
<1>5. \A i \in 0..k : at[i] = IF i = 0 THEN l.start
                             ELSE IF at[i - 1] = Null THEN Null ELSE nx[at[i - 1]]
    BY <1>4
<1> DEFINE Wrong == {i \in 0..k : at[i] # seq[i + 1]}
<1>6. Wrong = {}
    <2> SUFFICES ASSUME Wrong # {} PROVE FALSE
        OBVIOUS
    <2>1. Wrong \subseteq Nat
        OBVIOUS
    <2>2. PICK n \in Wrong : \A m \in Wrong : n <= m
        BY <2>1, LeastNat
    <2>3. CASE n = 0
        BY <2>3, <1>2, <1>5
    <2>4. CASE n # 0
        <3>1. /\ n - 1 \in 0..k /\ (n - 1) + 1 = n /\ n \in 1..(Len(seq) - 1)
              /\ n \in 1..Len(seq) /\ n \in 0..k
            BY <2>4, <1>2
        <3>2. n - 1 \notin Wrong
            BY <2>2, <3>1
        <3>3. at[n - 1] = seq[n] /\ seq[n] # Null
            BY <3>1, <3>2, <1>2
        <3>4. at[n] = nx[seq[n]]
            BY <2>4, <3>1, <3>3, <1>5
        <3> QED
            BY <3>1, <3>4, <1>2
    <2> QED
        BY <2>3, <2>4
<1>7. k \in 0..k
    BY <1>2
<1> QED
    BY <1>1, <1>6, <1>7

\* So what its user finds is the sequence the list holds.
LEMMA NodesIs ==
    ASSUME Null \notin Node, NEW l \in Lists, NEW nx \in Links,
           NEW seq \in Seq(Node), Holds(l, nx, seq)
    PROVE  Nodes(l, nx) = seq
<1>1. l.cnt = Len(seq) /\ Len(seq) \in Nat
    BY DEF Holds
<1>2. \A i \in 1..Len(seq) : Walk(l, nx, i - 1) = seq[i]
    <2> TAKE i \in 1..Len(seq)
    <2>1. i - 1 \in 0..(Len(seq) - 1) /\ (i - 1) + 1 = i
        OBVIOUS
    <2>2. Walk(l, nx, i - 1) = seq[(i - 1) + 1]
        BY <2>1, WalkIs
    <2> QED
        BY <2>1, <2>2
<1>3. Nodes(l, nx) = [i \in 1..Len(seq) |-> seq[i]]
    BY <1>1, <1>2 DEF Nodes
<1> QED
    BY <1>3

\* The first c nodes of a sequence, and the others.
Front(seq, c) == [i \in 1..c |-> seq[i]]
Back(seq, c) == [i \in 1..(Len(seq) - c) |-> seq[c + i]]
Fewer(m, n) == IF m <= n THEN m ELSE n

\* pop(uint32_t, SList&) cuts the sequence: the first cnt nodes, or all there
\* are, make the list that is taken, and the others stay.
THEOREM PopManyHolds ==
    ASSUME Null \notin Node, NEW l \in Lists, NEW nx \in Links,
           NEW seq \in Seq(Node), Holds(l, nx, seq), NEW cnt \in Nat \ {0}
    PROVE  LET q == PopMany(l, nx, cnt)
               c == Fewer(cnt, Len(seq))
           IN  /\ q.taken \in Lists /\ q.list \in Lists /\ q.next \in Links
               /\ Holds(q.taken, q.next, Front(seq, c))
               /\ Holds(q.list, q.next, Back(seq, c))
               /\ \A n \in Node : (\A i \in 1..Len(seq) : seq[i] # n) => q.next[n] = nx[n]
<1> DEFINE q == PopMany(l, nx, cnt)
           c == IF cnt <= Len(seq) THEN cnt ELSE Len(seq)
           a == [i \in 1..c |-> seq[i]]
           b == [i \in 1..(Len(seq) - c) |-> seq[c + i]]
<1>1. /\ Len(seq) \in Nat /\ l.cnt = Len(seq) /\ c \in Nat /\ c <= Len(seq)
      /\ \A i \in 1..Len(seq) : seq[i] \in Node /\ seq[i] # Null
      /\ \A i, j \in 1..Len(seq) : seq[i] = seq[j] => i = j
      /\ \A i \in 1..(Len(seq) - 1) : nx[seq[i]] = seq[i + 1]
      /\ Len(<<>>) = 0
    BY DEF Holds
<1>2. /\ a \in Seq(Node) /\ Len(a) = c /\ \A i \in 1..c : a[i] = seq[i]
      /\ b \in Seq(Node) /\ Len(b) = Len(seq) - c
      /\ \A i \in 1..(Len(seq) - c) : b[i] = seq[c + i]
    <2>1. \A i \in 1..c : i \in 1..Len(seq)
        BY <1>1
    <2>2. \A i \in 1..(Len(seq) - c) : c + i \in 1..Len(seq)
        BY <1>1
    <2>3. a \in [1..c -> Node] /\ b \in [1..(Len(seq) - c) -> Node]
        BY <1>1, <2>1, <2>2
    <2>4. Len(seq) - c \in Nat
        BY <1>1
    <2>5. a \in Seq(Node) /\ b \in Seq(Node)
        BY <1>1, <2>3, <2>4
    <2>6. Len(a) = c /\ Len(b) = Len(seq) - c
        BY <1>1, <2>3, <2>4
    <2> QED
        BY <2>5, <2>6
<1> HIDE DEF a, b
<1>2a. c = Fewer(cnt, Len(seq)) /\ a = Front(seq, c) /\ b = Back(seq, c)
    BY DEF Fewer, Front, Back, a, b
<1>3. CASE Len(seq) = 0
    <2>1. q = [taken |-> Empty, list |-> l, next |-> nx] /\ c = 0
        BY <1>1, <1>3 DEF PopMany
    <2>2. a = <<>> /\ b = <<>> /\ seq = <<>>
        BY <1>1, <1>2, <1>3, <2>1
    <2>3. Empty \in Lists /\ Holds(Empty, nx, <<>>)
        BY <1>1 DEF Empty, Lists, Holds
    <2> QED
        BY <1>2a, <2>1, <2>2, <2>3
<1>4. CASE Len(seq) > 0
    <2> DEFINE Cuts(k) == /\ k = cnt \/ nx[Walk(l, nx, k - 1)] = Null
                          /\ \A j \in 1..(k - 1) : nx[Walk(l, nx, j - 1)] # Null
               e == seq[c]
    <2>1. /\ c \in 1..Len(seq) /\ c \in 1..cnt /\ e \in Node /\ seq # <<>>
          /\ l.start = seq[1] /\ l.end = seq[Len(seq)] /\ nx[seq[Len(seq)]] = Null
        BY <1>1, <1>4 DEF Holds
    <2>2. \A j \in 1..Len(seq) :
             /\ Walk(l, nx, j - 1) = seq[j]
             /\ nx[seq[j]] = Null <=> j = Len(seq)
        <3> TAKE j \in 1..Len(seq)
        <3>1. j - 1 \in 0..(Len(seq) - 1) /\ (j - 1) + 1 = j
            BY <1>1
        <3>2. Walk(l, nx, j - 1) = seq[(j - 1) + 1]
            BY <3>1, WalkIs
        <3>3. ASSUME j # Len(seq) PROVE nx[seq[j]] # Null
            <4>1. j \in 1..(Len(seq) - 1) /\ j + 1 \in 1..Len(seq)
                BY <3>3, <1>1
            <4> QED
                BY <4>1, <1>1
        <3> QED
            BY <3>1, <3>2, <3>3, <2>1
    <2>3. Cuts(c)
        <3>1. c = cnt \/ c = Len(seq)
            OBVIOUS
        <3>2. \A j \in 1..(c - 1) : j \in 1..Len(seq) /\ j # Len(seq)
            BY <2>1, <1>1
        <3> QED
            BY <2>1, <2>2, <3>1, <3>2
    <2>4. ASSUME NEW k \in 1..cnt, Cuts(k) PROVE k = c
        <3>1. CASE k > Len(seq)
            <4>1. Len(seq) \in 1..(k - 1) /\ Len(seq) \in 1..Len(seq)
                BY <3>1, <1>1, <1>4
            <4> QED
                BY <4>1, <2>2, <2>4
        <3>2. CASE k <= Len(seq)
            <4>1. k \in 1..Len(seq)
                BY <3>2, <1>1
            <4>2. k = cnt \/ k = Len(seq)
                BY <4>1, <2>2, <2>4
            <4> QED
                BY <4>1, <4>2, <1>1
        <3> QED
            BY <3>1, <3>2, <1>1
    <2>5. (CHOOSE k \in 1..cnt : Cuts(k)) = c
        <3> HIDE DEF Cuts
        <3> QED
            BY <2>1, <2>3, <2>4
    <2>6. q = [taken |-> [cnt |-> c, start |-> l.start, end |-> e],
               list  |-> [cnt |-> l.cnt - c, start |-> nx[e],
                          end |-> IF nx[e] = Null THEN Null ELSE l.end],
               next  |-> [nx EXCEPT ![e] = Null]]
        <3>1. Walk(l, nx, c - 1) = e
            BY <2>1, <2>2
        <3>2. l.cnt # 0
            BY <1>1, <1>4
        <3> QED
            BY <2>5, <3>1, <3>2 DEF PopMany
    <2> HIDE DEF Cuts, c, q
    <2>7. /\ q.next \in Links /\ q.next[e] = Null
          /\ \A n \in Node : n # e => q.next[n] = nx[n]
        BY <2>1, <2>6 DEF Links
    <2>8. q.taken \in Lists /\ Holds(q.taken, q.next, a)
        <3>1. /\ a # <<>> /\ 1 \in 1..c /\ c \in 1..c /\ a[1] = seq[1] /\ a[c] = e
            BY <1>1, <1>2, <2>1
        <3>2. \A i, j \in 1..c : a[i] = a[j] => i = j
            BY <1>1, <1>2, <2>1
        <3>3. ASSUME NEW i \in 1..(c - 1) PROVE q.next[a[i]] = a[i + 1]
            <4>1. /\ i \in 1..c /\ i + 1 \in 1..c /\ i \in 1..Len(seq) /\ i # c
                  /\ i \in 1..(Len(seq) - 1) /\ c \in 1..Len(seq)
                BY <1>1, <2>1
            <4>2. a[i] = seq[i] /\ a[i + 1] = seq[i + 1] /\ seq[i] # e /\ seq[i] \in Node
                BY <4>1, <1>1, <1>2
            <4> QED
                BY <4>1, <4>2, <1>1, <2>7
        <3>4. q.taken = [cnt |-> c, start |-> seq[1], end |-> e] /\ seq[1] \in Node
            BY <1>1, <1>4, <2>1, <2>6
        <3>5. q.taken \in Lists
            BY <1>1, <2>1, <3>4 DEF Lists
        <3> QED
            BY <1>2, <2>7, <3>1, <3>2, <3>3, <3>4, <3>5 DEF Holds
    <2>9. q.list \in Lists /\ Holds(q.list, q.next, b)
        <3>1. \A i \in 1..Len(b) : c + i \in 1..Len(seq) /\ c + i # c /\ b[i] = seq[c + i]
            BY <1>1, <1>2, <2>1
        <3>2. \A i, j \in 1..Len(b) : b[i] = b[j] => i = j
            <4> SUFFICES ASSUME NEW i \in 1..Len(b), NEW j \in 1..Len(b), b[i] = b[j]
                         PROVE  i = j
                OBVIOUS
            <4>1. c + i = c + j
                BY <3>1, <1>1
            <4> QED
                BY <4>1, <1>1, <1>2
        <3>3. \A i \in 1..Len(b) : q.next[b[i]] = nx[b[i]]
            <4> TAKE i \in 1..Len(b)
            <4>1. b[i] \in Node /\ b[i] # e
                BY <3>1, <1>1, <2>1
            <4> QED
                BY <4>1, <2>7
        <3>4. ASSUME NEW i \in 1..(Len(b) - 1) PROVE q.next[b[i]] = b[i + 1]
            <4>1. /\ i \in 1..Len(b) /\ i + 1 \in 1..Len(b) /\ c + i \in 1..(Len(seq) - 1)
                  /\ c + (i + 1) = (c + i) + 1
                BY <1>1, <1>2, <2>1
            <4> QED
                BY <4>1, <3>1, <3>3, <1>1
        <3>5. CASE c = Len(seq)
            <4>1. nx[e] = Null /\ b = <<>> /\ l.cnt - c = 0
                BY <1>1, <1>2, <2>1, <3>5
            <4>2. q.list = [cnt |-> 0, start |-> Null, end |-> Null]
                BY <2>6, <4>1
            <4> QED
                BY <3>2, <3>4, <4>1, <4>2, <1>1 DEF Lists, Holds
        <3>6. CASE c < Len(seq)
            <4>1. /\ 1 \in 1..Len(b) /\ Len(b) \in 1..Len(b) /\ b # <<>>
                  /\ c \in 1..(Len(seq) - 1) /\ c + Len(b) = Len(seq)
                BY <1>1, <1>2, <2>1, <3>6
            <4>2. /\ nx[e] = seq[c + 1] /\ seq[c + 1] \in Node /\ nx[e] # Null
                  /\ b[1] = seq[c + 1] /\ b[Len(b)] = seq[Len(seq)]
                <5>1. /\ b[1] = seq[c + 1] /\ c + 1 \in 1..Len(seq)
                      /\ b[Len(b)] = seq[c + Len(b)]
                    BY <4>1, <3>1
                <5>2. nx[seq[c]] = seq[c + 1]
                    BY <4>1, <1>1
                <5>3. seq[c + 1] \in Node
                    BY <1>1, <5>1
                <5> QED
                    BY <1>4, <4>1, <5>1, <5>2, <5>3
            <4>3. q.list = [cnt |-> Len(b), start |-> b[1], end |-> b[Len(b)]]
                BY <1>1, <1>2, <2>1, <2>6, <4>2
            <4>4. q.next[b[Len(b)]] = Null
                BY <2>1, <3>3, <4>1, <4>2
            <4>5. q.list \in Lists
                BY <1>1, <1>2, <4>1, <4>2, <4>3 DEF Lists
            <4> QED
                BY <3>2, <3>4, <4>1, <4>3, <4>4, <4>5 DEF Holds
        <3> QED
            BY <3>5, <3>6, <1>1
    <2>10. \A n \in Node : (\A i \in 1..Len(seq) : seq[i] # n) => q.next[n] = nx[n]
        BY <2>1, <2>7
    <2> QED
        BY <1>2a, <2>7, <2>8, <2>9, <2>10 DEF q
<1> QED
    BY <1>1, <1>3, <1>4

----------------------------------------------------------------------------
(* Operations leave the nodes of other lists alone.                        *)

LEMMA PopFrame ==
    ASSUME NEW l \in Lists, NEW nx \in Links, NEW seq \in Seq(Node), Holds(l, nx, seq),
           NEW n \in Node, n \notin Range(seq)
    PROVE  Pop(l, nx).next[n] = nx[n]
<1>1. CASE l.cnt = 0
    BY <1>1 DEF Pop
<1>2. CASE l.cnt # 0
    <2>1. Pop(l, nx).next = [nx EXCEPT ![l.start] = Null]
        BY <1>2 DEF Pop
    <2>2. l.start \in Range(seq)
        <3>1. l.start = seq[1] /\ 1 \in 1..Len(seq)
            <4>1. Len(seq) = l.cnt /\ l.cnt \in Nat /\ Len(<<>>) = 0
                BY DEF Holds, Lists
            <4> QED
                BY <4>1, <1>2 DEF Holds
        <3> QED
            BY <3>1, SeqRange
    <2> QED
        BY <2>1, <2>2 DEF Links
<1> QED
    BY <1>1, <1>2

LEMMA PushFrame ==
    ASSUME NEW l \in Lists, NEW nx \in Links, NEW m \in Node, NEW n \in Node, n # m
    PROVE  Push(l, nx, m).next[n] = nx[n]
    BY DEF Push, Links

LEMMA PushListFrame ==
    ASSUME NEW l \in Lists, NEW m \in Lists, NEW nx \in Links,
           NEW ms \in Seq(Node), Holds(m, nx, ms), NEW n \in Node, n \notin Range(ms)
    PROVE  PushList(l, nx, m).next[n] = nx[n]
<1>1. CASE m.cnt = 0 \/ l.cnt = 0
    BY <1>1 DEF PushList
<1>2. CASE m.cnt # 0 /\ l.cnt # 0
    <2>1. PushList(l, nx, m).next = [nx EXCEPT ![m.end] = l.start]
        BY <1>2 DEF PushList
    <2>2. m.end \in Range(ms)
        <3>1. m.end = ms[Len(ms)] /\ Len(ms) \in 1..Len(ms)
            <4>1. Len(ms) = m.cnt /\ m.cnt \in Nat /\ Len(<<>>) = 0
                BY DEF Holds, Lists
            <4> QED
                BY <4>1, <1>2 DEF Holds
        <3> QED
            BY <3>1, SeqRange
    <2> QED
        BY <2>1, <2>2 DEF Links
<1> QED
    BY <1>1, <1>2

\* A list whose nodes keep their next_ holds what it held.
LEMMA HoldsStays ==
    ASSUME NEW l \in Lists, NEW nx \in Links, NEW ny \in Links,
           NEW seq \in Seq(Node), Holds(l, nx, seq),
           \A n \in Range(seq) : ny[n] = nx[n]
    PROVE  Holds(l, ny, seq)
<1>1. \A i \in 1..Len(seq) : ny[seq[i]] = nx[seq[i]]
    BY SeqRange
<1>2. \A i \in 1..(Len(seq) - 1) : ny[seq[i]] = seq[i + 1]
    <2> TAKE i \in 1..(Len(seq) - 1)
    <2>1. i \in 1..Len(seq)
        BY SeqRange
    <2> QED
        BY <1>1, <2>1 DEF Holds
<1>3. seq # <<>> => ny[seq[Len(seq)]] = Null
    <2> SUFFICES ASSUME seq # <<>> PROVE ny[seq[Len(seq)]] = Null
        OBVIOUS
    <2>1. Len(seq) \in 1..Len(seq)
        OBVIOUS
    <2> QED
        BY <1>1, <2>1 DEF Holds
<1> QED
    BY <1>2, <1>3 DEF Holds

\* Two sequences without a node in common, one after the other.
LEMMA JoinRange ==
    ASSUME NEW a \in Seq(Node), NEW b \in Seq(Node)
    PROVE  a \o b \in Seq(Node) /\ Range(a \o b) = Range(a) \cup Range(b)
<1> DEFINE s == a \o b
<1>1. /\ s \in Seq(Node) /\ Len(s) = Len(a) + Len(b) /\ Len(a) \in Nat /\ Len(b) \in Nat
      /\ \A i \in 1..Len(a) : s[i] = a[i]
      /\ \A i \in 1..Len(b) : s[Len(a) + i] = b[i]
    OBVIOUS
<1>2. \A i \in 1..Len(a) : i \in 1..Len(s)
    BY <1>1
<1>3. \A i \in 1..Len(b) : Len(a) + i \in 1..Len(s)
    BY <1>1
<1>4. \A i \in 1..Len(s) : i \in 1..Len(a) \/ \E j \in 1..Len(b) : i = Len(a) + j
    <2> TAKE i \in 1..Len(s)
    <2>1. i \notin 1..Len(a) => i - Len(a) \in 1..Len(b) /\ i = Len(a) + (i - Len(a))
        BY <1>1
    <2> QED
        BY <2>1
<1> HIDE DEF s
<1>5. ASSUME NEW x \in Range(s) PROVE x \in Range(a) \cup Range(b)
    <2>1. PICK i \in 1..Len(s) : x = s[i]
        BY <1>1, SeqRange
    <2>2. CASE i \in 1..Len(a)
        BY <1>1, <2>1, <2>2, SeqRange
    <2>3. ASSUME NEW j \in 1..Len(b), i = Len(a) + j PROVE x \in Range(b)
        BY <1>1, <2>1, <2>3, SeqRange
    <2> QED
        BY <1>4, <2>2, <2>3
<1>6. ASSUME NEW x \in Range(a) PROVE x \in Range(s)
    <2>1. PICK i \in 1..Len(a) : x = a[i]
        BY SeqRange
    <2> QED
        BY <1>1, <1>2, <2>1, SeqRange
<1>7. ASSUME NEW x \in Range(b) PROVE x \in Range(s)
    <2>1. PICK i \in 1..Len(b) : x = b[i]
        BY SeqRange
    <2> QED
        BY <1>1, <1>3, <2>1, SeqRange
<1> QED
    BY <1>1, <1>5, <1>6, <1>7 DEF s

----------------------------------------------------------------------------
(* TlsMemPool.                                                             *)

\* What a thread has in hand, and in lists of its own, where it is.
Stage(t) ==
    /\ pc[t] \notin {"write", "give", "keep"} => ml[t].cnt = 0
    /\ pc[t] \in {"write", "give"} => ml[t].cnt = conf.cnt
    /\ pc[t] = "give" => conf.cnt > conf.pop
    /\ pc[t] = "keep" => ml[t].cnt \in 1..conf.pop
    /\ pc[t] \in {"heap", "new", "write", "give", "keep"}
          => wait[t].cnt = 0 /\ free[t].cnt = 0
    /\ t \notin known => /\ wait[t].cnt = 0 /\ free[t].cnt = 0
                         /\ pc[t] \in {"idle"} \cup Reporting
Stages == \A t \in Thread : Stage(t)

\* The blocks made that total_ does not count yet, and those it does.
New == UNION {At(<<"ml", t>>) : t \in {u \in Thread : pc[u] = "write"}}
Counted == ~clash => total = Cardinality(made \ New)

\* A report that nobody disturbs counts the blocks in none of the lists that it
\* has subtracted.
Cached(u) == At(<<"wait", u>>) \cup At(<<"free", u>>)
Seen(t) ==
    IF pc[t] = "sheap" THEN {}
    ELSE At(<<"heap", Null>>)
         \cup UNION {Cached(u) : u \in IF pc[t] = "slock" THEN {} ELSE known \ todo[t]}
Quiet == \A u \in Thread : pc[u] \in {"idle"} \cup Reporting
Reported(t) ==
    /\ pc[t] = "sthread" => todo[t] \subseteq known
    /\ calm[t] => /\ pc[t] \in Reporting /\ Quiet
                  /\ ~clash => reg[t] = Cardinality(made \ Seen(t))
Reports == \A t \in Thread : Reported(t)

\* The inductive invariant.
TlsInv == /\ TypeOK /\ out \subseteq made
          /\ BlockOnce /\ CacheBounded /\ Stages /\ Counted /\ Reports

\* The places, their lists, before a step and after it.
LEMMA PlaceLists ==
    /\ <<"heap", Null>> \in Places /\ ListAt(<<"heap", Null>>) = heap
    /\ ListAt(<<"heap", Null>>)' = heap'
    /\ \A t \in Thread :
          /\ <<"wait", t>> \in Places /\ ListAt(<<"wait", t>>) = wait[t]
          /\ <<"free", t>> \in Places /\ ListAt(<<"free", t>>) = free[t]
          /\ <<"ml", t>> \in Places /\ ListAt(<<"ml", t>>) = ml[t]
          /\ ListAt(<<"wait", t>>)' = wait'[t]
          /\ ListAt(<<"free", t>>)' = free'[t]
          /\ ListAt(<<"ml", t>>)' = ml'[t]
    /\ \A p \in Places : \/ p = <<"heap", Null>>
                         \/ \E t \in Thread : p \in {<<"wait", t>>, <<"free", t>>, <<"ml", t>>}
    BY DEF Places, ListAt

\* The lists that a step leaves alone.
LEMMA ListsStay ==
    ASSUME NEW S, <<"heap", Null>> \in S \/ heap' = heap,
           \A t \in Thread : /\ <<"wait", t>> \in S \/ wait'[t] = wait[t]
                             /\ <<"free", t>> \in S \/ free'[t] = free[t]
                             /\ <<"ml", t>> \in S \/ ml'[t] = ml[t]
    PROVE  \A r \in Places : r \notin S => ListAt(r)' = ListAt(r)
<1> TAKE r \in Places
<1>1. CASE r = <<"heap", Null>>
    BY <1>1, PlaceLists
<1>2. ASSUME NEW t \in Thread, r \in {<<"wait", t>>, <<"free", t>>, <<"ml", t>>}, r \notin S
      PROVE  ListAt(r)' = ListAt(r)
    <2>1. CASE r = <<"wait", t>>
        BY <1>2, <2>1, PlaceLists
    <2>2. CASE r = <<"free", t>>
        BY <1>2, <2>2, PlaceLists
    <2>3. CASE r = <<"ml", t>>
        BY <1>2, <2>3, PlaceLists
    <2> QED
        BY <1>2, <2>1, <2>2, <2>3
<1> QED
    BY <1>1, <1>2, PlaceLists

LEMMA Bounds ==
    /\ Null \notin Node /\ IsFiniteSet(Node) /\ Cardinality(Node) \in Nat
    /\ Wrap \in Nat /\ Cardinality(Node) < Wrap
    /\ \A c \in Confs : /\ c.cnt \in Nat \ {0} /\ c.pop \in Nat \ {0} /\ c.push \in Nat \ {0}
                        /\ c.cnt <= Cardinality(Node)
    BY TlsAssumption, FS_CardinalityType

\* A place, its list, and the sequence that the list holds.
LEMMA Here ==
    ASSUME TypeOK, BlockOnce, NEW p \in Places
    PROVE  LET s == Nodes(ListAt(p), next)
           IN  /\ ListAt(p) \in Lists /\ next \in Links
               /\ s \in Seq(Node) /\ Len(s) = ListAt(p).cnt
               /\ Holds(ListAt(p), next, s)
               /\ At(p) = Range(s) /\ At(p) \subseteq made \ out /\ At(p) \subseteq Node
               /\ \A i, j \in 1..Len(s) : s[i] = s[j] => i = j
<1> DEFINE s == Nodes(ListAt(p), next)
<1>1. ListAt(p) \in Lists /\ next \in Links
    <2>1. /\ next \in Links /\ heap \in Lists
          /\ \A t \in Thread : wait[t] \in Lists /\ free[t] \in Lists /\ ml[t] \in Lists
        BY DEF TypeOK, Links
    <2>2. CASE p = <<"heap", Null>>
        BY <2>1, <2>2, PlaceLists
    <2>3. ASSUME NEW t \in Thread, p \in {<<"wait", t>>, <<"free", t>>, <<"ml", t>>}
          PROVE  ListAt(p) \in Lists
        BY <2>1, <2>3, PlaceLists
    <2> QED
        BY <2>1, <2>2, <2>3, PlaceLists
<1>2. Holds(ListAt(p), next, s) /\ At(p) = Range(s) /\ At(p) \subseteq made \ out
    BY DEF BlockOnce, ListsSound, At
<1>3. s \in Seq(Node)
    <2>1. At(p) \subseteq Node
        BY <1>2 DEF TypeOK
    <2>2. ListAt(p).cnt \in Nat
        BY <1>1 DEF Lists
    <2>3. s = [i \in 1..ListAt(p).cnt |-> Walk(ListAt(p), next, i - 1)]
        BY DEF Nodes
    <2>4. \A i \in 1..ListAt(p).cnt : s[i] \in Node
        BY <1>2, <2>1, <2>3 DEF Range
    <2> HIDE DEF s
    <2>5. s \in [1..ListAt(p).cnt -> Node]
        BY <2>3, <2>4
    <2> QED
        BY <2>2, <2>5
<1> HIDE DEF s
<1>4. At(p) \subseteq Node
    BY <1>2 DEF TypeOK
<1> QED
    BY <1>1, <1>2, <1>3, <1>4 DEF Holds, s

\* A step that changes the lists at p and q, or one list if they are the same,
\* and the next_ of no node that is in another.
LEMMA Moved ==
    ASSUME TypeOK, BlockOnce, next' \in Links,
           NEW p \in Places, NEW q \in Places, NEW a \in Seq(Node), NEW b \in Seq(Node),
           \A r \in Places : r # p /\ r # q => ListAt(r)' = ListAt(r),
           ListAt(p)' \in Lists, Holds(ListAt(p)', next', a),
           ListAt(q)' \in Lists, Holds(ListAt(q)', next', b),
           p # q => Range(a) \cap Range(b) = {},
           \A n \in (made \ out) \ (At(p) \cup At(q)) :
               next'[n] = next[n] /\ n \notin Range(a) \cup Range(b),
           made' \ out' = ((made \ out) \ (At(p) \cup At(q))) \cup Range(a) \cup Range(b)
    PROVE  /\ BlockOnce'
           /\ At(p)' = Range(a) /\ At(q)' = Range(b)
           /\ \A r \in Places : r # p /\ r # q => At(r)' = At(r)
<1>0. Null \notin Node
    BY Bounds
<1>1. /\ Nodes(ListAt(p)', next') = a /\ Nodes(ListAt(q)', next') = b
    BY <1>0, NodesIs
<1>2. ASSUME NEW r \in Places, r # p, r # q
      PROVE  /\ Holds(ListAt(r)', next', Nodes(ListAt(r), next))
             /\ Nodes(ListAt(r)', next') = Nodes(ListAt(r), next)
             /\ At(r) \cap (At(p) \cup At(q)) = {}
             /\ At(r) \subseteq made \ out
    <2> DEFINE s == Nodes(ListAt(r), next)
    <2>1. /\ ListAt(r) \in Lists /\ next \in Links /\ s \in Seq(Node)
          /\ Holds(ListAt(r), next, s) /\ At(r) = Range(s) /\ At(r) \subseteq made \ out
        BY Here
    <2>2. At(r) \cap (At(p) \cup At(q)) = {}
        BY <1>2 DEF BlockOnce
    <2>3. \A n \in Range(s) : next'[n] = next[n]
        BY <2>1, <2>2
    <2> HIDE DEF s
    <2>4. Holds(ListAt(r), next', s)
        BY <2>1, <2>3, HoldsStays
    <2>5. ListAt(r)' = ListAt(r)
        BY <1>2
    <2>6. Nodes(ListAt(r), next') = s
        BY <1>0, <2>1, <2>4, NodesIs
    <2> QED
        BY <2>1, <2>2, <2>4, <2>5, <2>6 DEF s
<1>3. /\ At(p)' = Range(a) /\ At(q)' = Range(b)
    BY <1>1 DEF At
<1>4. \A r \in Places : r # p /\ r # q => At(r)' = At(r)
    BY <1>2 DEF At
<1>5. ListsSound'
    <2> SUFFICES ASSUME NEW r \in Places
                 PROVE  Holds(ListAt(r)', next', Nodes(ListAt(r)', next'))
        BY DEF ListsSound, Places
    <2> QED
        BY <1>1, <1>2
<1>6. \A r, v \in Places : r # v => At(r)' \cap At(v)' = {}
    <2> SUFFICES ASSUME NEW r \in Places, NEW v \in Places, r # v
                 PROVE  At(r)' \cap At(v)' = {}
        OBVIOUS
    <2>1. At(r) \cap At(v) = {}
        BY DEF BlockOnce
    <2>2. \A u \in Places : u # p /\ u # q => At(u) \cap (Range(a) \cup Range(b)) = {}
        BY <1>2
    <2> QED
        BY <1>3, <1>4, <2>1, <2>2
<1>7. UNION {At(r)' : r \in Places} = made' \ out'
    <2>1. made \ out = UNION {At(r) : r \in Places}
        BY DEF BlockOnce
    <2>2. ASSUME NEW n, n \in made' \ out' PROVE \E r \in Places : n \in At(r)'
        BY <1>3, <1>4, <2>1, <2>2
    <2>3. ASSUME NEW n, NEW r \in Places, n \in At(r)' PROVE n \in made' \ out'
        BY <1>2, <1>3, <1>4, <2>3
    <2> QED
        BY <2>2, <2>3
<1>8. BlockOnce'
    BY <1>5, <1>6, <1>7 DEF BlockOnce, Places
<1> QED
    BY <1>3, <1>4, <1>8

\* What CacheBounded says of one thread.
Cache(t) == /\ wait[t].cnt < conf.pop
            /\ free[t].cnt <= conf.push
            /\ free[t].cnt = conf.push => pc[t] = "flush"

LEMMA Parts ==
    ASSUME TypeOK
    PROVE  /\ next \in Links /\ heap \in Lists /\ heap.cnt \in Nat
           /\ conf.cnt \in Nat \ {0} /\ conf.pop \in Nat \ {0} /\ conf.push \in Nat \ {0}
           /\ \A t \in Thread :
                /\ wait[t] \in Lists /\ free[t] \in Lists /\ ml[t] \in Lists
                /\ wait[t].cnt \in Nat /\ free[t].cnt \in Nat /\ ml[t].cnt \in Nat
<1>1. conf \in Confs
    BY DEF TypeOK
<1>2. /\ next \in Links /\ heap \in Lists
      /\ \A t \in Thread : wait[t] \in Lists /\ free[t] \in Lists /\ ml[t] \in Lists
    BY DEF TypeOK, Links
<1> QED
    BY <1>1, <1>2, Bounds DEF Lists

\* A list has cnt_ blocks.
LEMMA CountAt ==
    ASSUME TypeOK, BlockOnce, NEW p \in Places
    PROVE  IsFiniteSet(At(p)) /\ Cardinality(At(p)) = ListAt(p).cnt
<1> DEFINE s == Nodes(ListAt(p), next)
<1>1. /\ s \in Seq(Node) /\ Len(s) = ListAt(p).cnt /\ At(p) = Range(s)
      /\ \A i, j \in 1..Len(s) : s[i] = s[j] => i = j
    BY Here
<1> HIDE DEF s
<1>2. s \in [1..Len(s) -> Node] /\ Len(s) \in Nat
    BY <1>1
<1> QED
    BY <1>1, <1>2, InjCard

\* A step of another thread.
LEMMA Elsewhere ==
    ASSUME NEW u \in Thread, Stage(u), Cache(u), UNCHANGED conf, known \subseteq known',
           pc'[u] = pc[u], ml'[u] = ml[u], wait'[u] = wait[u], free'[u] = free[u]
    PROVE  Stage(u)' /\ Cache(u)'
<1>1. Stage(u)'
    BY DEF Stage
<1>2. Cache(u)'
    BY DEF Cache
<1> QED
    BY <1>1, <1>2

LEMMA SameCount ==
    ASSUME Counted, UNCHANGED <<total, made, clash>>,
           \A u \in Thread : (pc'[u] = "write") <=> (pc[u] = "write"),
           \A u \in Thread : pc[u] = "write" => At(<<"ml", u>>)' = At(<<"ml", u>>)
    PROVE  Counted'
<1>1. New' = New
    BY DEF New
<1> QED
    BY <1>1 DEF Counted

\* A step of get or ret: it disturbs all reports, and no other thread.
LEMMA WorkStep ==
    ASSUME TlsInv, NEW t \in Thread, Works, UNCHANGED <<conf, todo>>,
           known \subseteq known', pc'[t] \notin Reporting,
           \A u \in Thread \ {t} : /\ pc'[u] = pc[u] /\ ml'[u] = ml[u]
                                   /\ wait'[u] = wait[u] /\ free'[u] = free[u],
           TypeOK', out' \subseteq made', BlockOnce', Stage(t)', Cache(t)', Counted'
    PROVE  TlsInv'
<1>1. \A u \in Thread : Stage(u)' /\ Cache(u)'
    <2> TAKE u \in Thread
    <2>1. CASE u = t
        BY <2>1
    <2>2. CASE u # t
        <3>1. Stage(u) /\ Cache(u)
            BY DEF TlsInv, Stages, CacheBounded, Cache
        <3> QED
            BY <2>2, <3>1, Elsewhere
    <2> QED
        BY <2>1, <2>2
<1>2. Stages' /\ CacheBounded'
    BY <1>1 DEF Stages, CacheBounded, Cache
<1>3. Reports'
    <2> SUFFICES ASSUME NEW u \in Thread
                 PROVE  /\ pc'[u] = "sthread" => todo'[u] \subseteq known'
                        /\ calm'[u] = FALSE
        BY DEF Reports, Reported
    <2>1. pc'[u] = "sthread" => pc[u] = "sthread" /\ todo[u] \subseteq known
        BY DEF TlsInv, Reports, Reported, Reporting
    <2> QED
        BY <2>1 DEF Works
<1> QED
    BY <1>2, <1>3 DEF TlsInv

\* A block is popped from the list at p, and is out.
LEMMA PopAt ==
    ASSUME TypeOK, BlockOnce, out \subseteq made, NEW p \in Places, ListAt(p).cnt > 0,
           next' = Pop(ListAt(p), next).next, ListAt(p)' = Pop(ListAt(p), next).list,
           \A r \in Places : r # p => ListAt(r)' = ListAt(r),
           made' = made, out' = out \cup {Pop(ListAt(p), next).node}
    PROVE  /\ BlockOnce' /\ next' \in Links /\ ListAt(p)' \in Lists
           /\ ListAt(p)'.cnt = ListAt(p).cnt - 1
           /\ Pop(ListAt(p), next).node \in made
           /\ \A r \in Places : r # p => At(r)' = At(r)
<1> DEFINE l == ListAt(p)
           s == Nodes(l, next)
           o == Pop(l, next)
<1>1. /\ l \in Lists /\ next \in Links /\ s \in Seq(Node) /\ Len(s) = l.cnt
      /\ Holds(l, next, s) /\ At(p) = Range(s) /\ At(p) \subseteq made \ out
    BY Here
<1>2. Null \notin Node
    BY Bounds
<1> HIDE DEF s
<1>3. /\ o.list \in Lists /\ o.next \in Links
      /\ o.node \in Range(s) /\ o.node \in Node /\ o.node # Null
      /\ Tail(s) \in Seq(Node) /\ Holds(o.list, o.next, Tail(s))
      /\ Range(Tail(s)) = Range(s) \ {o.node}
    BY <1>1, <1>2, PopFree
<1>4. \A n \in (made \ out) \ At(p) : next'[n] = next[n]
    <2> TAKE n \in (made \ out) \ At(p)
    <2>1. n \in Node /\ n \notin Range(s)
        BY <1>1 DEF TypeOK
    <2> QED
        BY <1>1, <2>1, PopFrame
<1>5. Len(Tail(s)) = l.cnt - 1
    <2>1. Len(s) > 0
        BY <1>1
    <2>2. s # <<>>
        BY <2>1
    <2> QED
        BY <1>1, <2>2
<1> HIDE DEF o
<1>6. /\ next' = o.next /\ ListAt(p)' = o.list /\ out' = out \cup {o.node}
    BY DEF o
<1>7. made' \ out' = ((made \ out) \ At(p)) \cup Range(Tail(s))
    BY <1>1, <1>3, <1>6
<1>8. BlockOnce' /\ \A r \in Places : r # p => At(r)' = At(r)
    <2> DEFINE b == Tail(s)
    <2>1. \A n \in (made \ out) \ (At(p) \cup At(p)) :
              next'[n] = next[n] /\ n \notin Range(b) \cup Range(b)
        BY <1>1, <1>3, <1>4
    <2>2. made' \ out' = ((made \ out) \ (At(p) \cup At(p))) \cup Range(b) \cup Range(b)
        BY <1>7
    <2>3. /\ next' \in Links /\ b \in Seq(Node) /\ ListAt(p)' \in Lists
          /\ Holds(ListAt(p)', next', b)
        BY <1>3, <1>6
    <2> HIDE DEF b
    <2> QED
        BY <2>1, <2>2, <2>3, Moved
<1>9. o.list.cnt = l.cnt - 1
    BY <1>3, <1>5 DEF Holds
<1> QED
    BY <1>1, <1>3, <1>6, <1>8, <1>9 DEF o

LEMMA GetKeeps == ASSUME TlsInv, NEW t \in Thread, Get(t) PROVE TlsInv'
<1> DEFINE w == Pop(wait[t], next)
           f == Pop(free[t], next)
           pw == <<"wait", t>>
           pf == <<"free", t>>
<1>1. /\ TypeOK /\ BlockOnce /\ out \subseteq made /\ Counted /\ Stage(t) /\ Cache(t)
      /\ pc[t] = "idle" /\ Works
      /\ UNCHANGED <<conf, heap, ml, hlock, total, made, reg, todo, clash>>
      /\ known' = known \cup {t}
    BY DEF TlsInv, Get, Stages, CacheBounded, Cache, ThreadMem
<1>2. /\ next \in Links /\ wait[t] \in Lists /\ free[t] \in Lists
      /\ wait[t].cnt \in Nat /\ free[t].cnt \in Nat
    BY <1>1, Parts
<1>3. /\ wait[t].cnt = 0 => w.node = Null
      /\ free[t].cnt = 0 => f.node = Null
    BY DEF Pop
<1>4. /\ pw \in Places /\ ListAt(pw) = wait[t] /\ ListAt(pw)' = wait'[t]
      /\ pf \in Places /\ ListAt(pf) = free[t] /\ ListAt(pf)' = free'[t]
    BY PlaceLists
<1>5. /\ wait[t].cnt > 0 => w.node # Null
      /\ free[t].cnt > 0 => f.node # Null
    BY <1>1, <1>2, <1>4, Here, Bounds, PopFree
<1>6. CASE w.node # Null
    <2>1. /\ wait' = [wait EXCEPT ![t] = w.list] /\ next' = w.next
          /\ out' = out \cup {w.node} /\ UNCHANGED <<free, pc>>
        BY <1>6 DEF Get
    <2>2. wait'[t] = w.list /\ \A u \in Thread \ {t} : wait'[u] = wait[u]
        BY <1>1, <2>1 DEF TypeOK
    <2>3. \A r \in Places : r # pw => ListAt(r)' = ListAt(r)
        <3>1. \A r \in Places : r \notin {pw} => ListAt(r)' = ListAt(r)
            BY <1>1, <2>1, <2>2, ListsStay
        <3> QED
            BY <3>1
    <2>4. /\ BlockOnce' /\ next' \in Links /\ wait'[t] \in Lists
          /\ wait'[t].cnt = wait[t].cnt - 1 /\ w.node \in made
          /\ \A r \in Places : r # pw => At(r)' = At(r)
        <3>1. ListAt(pw).cnt > 0
            BY <1>2, <1>3, <1>4, <1>6
        <3>2. /\ next' = Pop(ListAt(pw), next).next /\ ListAt(pw)' = Pop(ListAt(pw), next).list
              /\ made' = made /\ out' = out \cup {Pop(ListAt(pw), next).node}
            BY <1>1, <1>4, <2>1, <2>2
        <3> QED
            BY <1>1, <1>4, <2>3, <3>1, <3>2, PopAt
    <2> HIDE DEF w, f
    <2>5. TypeOK'
        BY <1>1, <2>1, <2>4 DEF TypeOK, Works, Links
    <2>6. Stage(t)' /\ Cache(t)'
        <3>1. conf.push \in Nat /\ conf.pop \in Nat
            BY <1>1, Parts
        <3> QED
            BY <1>1, <1>2, <1>3, <1>6, <2>1, <2>4, <3>1 DEF Stage, Cache
    <2>7. Counted'
        <3>1. \A u \in Thread : At(<<"ml", u>>)' = At(<<"ml", u>>)
            BY <2>4, PlaceLists
        <3> QED
            BY <1>1, <2>1, <3>1, SameCount
    <2> QED
        BY <1>1, <2>1, <2>2, <2>4, <2>5, <2>6, <2>7, WorkStep DEF Reporting
<1>7. CASE w.node = Null /\ f.node # Null
    <2>1. /\ free' = [free EXCEPT ![t] = f.list] /\ next' = f.next
          /\ out' = out \cup {f.node} /\ UNCHANGED <<wait, pc>>
        BY <1>7 DEF Get
    <2>2. free'[t] = f.list /\ \A u \in Thread \ {t} : free'[u] = free[u]
        BY <1>1, <2>1 DEF TypeOK
    <2>3. \A r \in Places : r # pf => ListAt(r)' = ListAt(r)
        <3>1. \A r \in Places : r \notin {pf} => ListAt(r)' = ListAt(r)
            BY <1>1, <2>1, <2>2, ListsStay
        <3> QED
            BY <3>1
    <2>4. /\ BlockOnce' /\ next' \in Links /\ free'[t] \in Lists
          /\ free'[t].cnt = free[t].cnt - 1 /\ f.node \in made
          /\ \A r \in Places : r # pf => At(r)' = At(r)
        <3>1. ListAt(pf).cnt > 0
            BY <1>2, <1>3, <1>4, <1>7
        <3>2. /\ next' = Pop(ListAt(pf), next).next /\ ListAt(pf)' = Pop(ListAt(pf), next).list
              /\ made' = made /\ out' = out \cup {Pop(ListAt(pf), next).node}
            BY <1>1, <1>4, <2>1, <2>2
        <3> QED
            BY <1>1, <1>4, <2>3, <3>1, <3>2, PopAt
    <2> HIDE DEF w, f
    <2>5. TypeOK'
        BY <1>1, <2>1, <2>4 DEF TypeOK, Works, Links
    <2>6. Stage(t)' /\ Cache(t)'
        <3>1. conf.push \in Nat /\ conf.pop \in Nat
            BY <1>1, Parts
        <3> QED
            BY <1>1, <1>2, <1>3, <1>7, <2>1, <2>4, <3>1 DEF Stage, Cache
    <2>7. Counted'
        <3>1. \A u \in Thread : At(<<"ml", u>>)' = At(<<"ml", u>>)
            BY <2>4, PlaceLists
        <3> QED
            BY <1>1, <2>1, <3>1, SameCount
    <2> QED
        BY <1>1, <2>1, <2>2, <2>4, <2>5, <2>6, <2>7, WorkStep DEF Reporting
<1>8. CASE w.node = Null /\ f.node = Null
    <2>1. pc' = [pc EXCEPT ![t] = "heap"] /\ UNCHANGED <<wait, free, next, out>>
        BY <1>8 DEF Get, Goto
    <2>2. wait[t].cnt = 0 /\ free[t].cnt = 0
        BY <1>2, <1>5, <1>8
    <2> HIDE DEF w, f
    <2>3. BlockOnce' /\ \A u \in Thread : At(<<"ml", u>>)' = At(<<"ml", u>>)
        BY <1>1, <2>1 DEF BlockOnce, ListsSound, At, ListAt, Places
    <2>4. pc'[t] = "heap" /\ \A u \in Thread \ {t} : pc'[u] = pc[u]
        BY <1>1, <2>1 DEF TypeOK
    <2>5. TypeOK'
        BY <1>1, <2>1 DEF TypeOK, Works, PC
    <2>6. Stage(t)' /\ Cache(t)'
        <3>1. conf.push \in Nat \ {0} /\ conf.pop \in Nat
            BY <1>1, Parts
        <3> QED
            BY <1>1, <2>1, <2>2, <2>4, <3>1 DEF Stage, Cache
    <2>7. Counted'
        BY <1>1, <2>3, <2>4, SameCount
    <2> QED
        BY <1>1, <2>1, <2>3, <2>4, <2>5, <2>6, <2>7, WorkStep DEF Reporting
<1> QED
    BY <1>6, <1>7, <1>8

LEMMA EmptyAt ==
    /\ Empty \in Lists /\ Empty.cnt = 0 /\ <<>> \in Seq(Node) /\ Range(<<>>) = {}
    /\ \A nx : Holds(Empty, nx, <<>>)
    BY DEF Empty, Lists, Holds, Range

LEMMA NoneAt ==
    ASSUME TypeOK, BlockOnce, NEW p \in Places, ListAt(p).cnt = 0
    PROVE  At(p) = {}
<1>1. IsFiniteSet(At(p)) /\ Cardinality(At(p)) = 0
    BY CountAt
<1> QED
    BY <1>1, FS_EmptySet

\* A sequence that is cut in two.
LEMMA CutRange ==
    ASSUME NEW seq \in Seq(Node), \A i, j \in 1..Len(seq) : seq[i] = seq[j] => i = j,
           NEW c \in 0..Len(seq)
    PROVE  LET a == Front(seq, c)
               b == Back(seq, c)
           IN  /\ a \in Seq(Node) /\ b \in Seq(Node)
               /\ Len(a) = c /\ Len(b) = Len(seq) - c
               /\ Range(a) \cap Range(b) = {}
               /\ Range(a) \cup Range(b) = Range(seq)
<1> DEFINE a == [i \in 1..c |-> seq[i]]
           b == [i \in 1..(Len(seq) - c) |-> seq[c + i]]
<1>1. /\ c \in Nat /\ Len(seq) \in Nat /\ Len(seq) - c \in Nat
      /\ \A i \in 1..c : i \in 1..Len(seq)
      /\ \A i \in 1..(Len(seq) - c) : c + i \in 1..Len(seq)
    OBVIOUS
<1>2. a \in [1..c -> Node] /\ b \in [1..(Len(seq) - c) -> Node]
    BY <1>1
<1>3. /\ a \in Seq(Node) /\ b \in Seq(Node)
      /\ Len(a) = c /\ Len(b) = Len(seq) - c
    BY <1>1, <1>2
<1>4. /\ \A i \in 1..c : a[i] = seq[i]
      /\ \A i \in 1..(Len(seq) - c) : b[i] = seq[c + i]
    OBVIOUS
<1> HIDE DEF a, b
<1>5. Range(a) \cap Range(b) = {}
    <2> SUFFICES ASSUME NEW x \in Range(a), x \in Range(b) PROVE FALSE
        OBVIOUS
    <2>1. PICK i \in 1..c : x = a[i]
        BY <1>3, SeqRange
    <2>2. PICK j \in 1..(Len(seq) - c) : x = b[j]
        BY <1>3, SeqRange
    <2>3. seq[i] = seq[c + j] /\ i \in 1..Len(seq) /\ c + j \in 1..Len(seq)
        BY <1>1, <1>4, <2>1, <2>2
    <2>4. i = c + j
        BY <2>3
    <2> QED
        BY <2>4, <1>1
<1>6. ASSUME NEW x \in Range(a) \cup Range(b) PROVE x \in Range(seq)
    <2>1. CASE x \in Range(a)
        <3>1. PICK i \in 1..c : x = a[i]
            BY <1>3, <2>1, SeqRange
        <3> QED
            BY <1>1, <1>4, <3>1, SeqRange
    <2>2. CASE x \in Range(b)
        <3>1. PICK j \in 1..(Len(seq) - c) : x = b[j]
            BY <1>3, <2>2, SeqRange
        <3> QED
            BY <1>1, <1>4, <3>1, SeqRange
    <2> QED
        BY <1>6, <2>1, <2>2
<1>7. ASSUME NEW x \in Range(seq) PROVE x \in Range(a) \cup Range(b)
    <2>1. PICK i \in 1..Len(seq) : x = seq[i]
        BY SeqRange
    <2>2. CASE i <= c
        <3>1. i \in 1..c
            BY <1>1, <2>2
        <3>2. a[i] \in Range(a)
            BY <1>3, <3>1, SeqRange
        <3> QED
            BY <1>4, <2>1, <3>1, <3>2
    <2>3. CASE i > c
        <3>1. i - c \in 1..(Len(seq) - c) /\ c + (i - c) = i
            BY <1>1, <2>3
        <3>2. b[i - c] \in Range(b)
            BY <1>3, <3>1, SeqRange
        <3> QED
            BY <1>4, <2>1, <3>1, <3>2
    <2> QED
        BY <1>1, <2>2, <2>3
<1> QED
    BY <1>3, <1>5, <1>6, <1>7 DEF a, b, Front, Back

\* What pop(uint32_t, SList&) makes of a list, when it does not matter where it cuts.
IsCut(q, l, nx, seq, c) ==
    /\ q.taken \in Lists /\ q.list \in Lists /\ q.next \in Links
    /\ q.taken.cnt = c /\ q.list.cnt = l.cnt - c
    /\ \E a, b \in Seq(Node) :
          /\ Holds(q.taken, q.next, a) /\ Holds(q.list, q.next, b)
          /\ Range(a) \cap Range(b) = {} /\ Range(a) \cup Range(b) = Range(seq)
    /\ \A n \in Node : n \notin Range(seq) => q.next[n] = nx[n]

LEMMA CutList ==
    ASSUME Null \notin Node, NEW l \in Lists, NEW nx \in Links,
           NEW seq \in Seq(Node), Holds(l, nx, seq), NEW cnt \in Nat \ {0}
    PROVE  IsCut(PopMany(l, nx, cnt), l, nx, seq, Fewer(cnt, l.cnt))
<1> DEFINE q == PopMany(l, nx, cnt)
           c == Fewer(cnt, Len(seq))
           a == Front(seq, c)
           b == Back(seq, c)
<1>1. l.cnt = Len(seq) /\ Len(seq) \in Nat /\ c \in 0..Len(seq)
    BY DEF Holds, Fewer
<1>2. /\ q.taken \in Lists /\ q.list \in Lists /\ q.next \in Links
      /\ Holds(q.taken, q.next, a) /\ Holds(q.list, q.next, b)
      /\ \A n \in Node : (\A i \in 1..Len(seq) : seq[i] # n) => q.next[n] = nx[n]
    BY PopManyHolds
<1>3. \A i, j \in 1..Len(seq) : seq[i] = seq[j] => i = j
    BY DEF Holds
<1> HIDE DEF c, q
<1>4. /\ a \in Seq(Node) /\ b \in Seq(Node) /\ Len(a) = c /\ Len(b) = Len(seq) - c
      /\ Range(a) \cap Range(b) = {} /\ Range(a) \cup Range(b) = Range(seq)
    BY <1>1, <1>3, CutRange
<1> HIDE DEF a, b
<1>5. q.taken.cnt = c /\ q.list.cnt = Len(seq) - c
    BY <1>2, <1>4 DEF Holds
<1>6. \A n \in Node : n \notin Range(seq) => q.next[n] = nx[n]
    BY <1>2, SeqRange
<1> QED
    BY <1>1, <1>2, <1>4, <1>5, <1>6 DEF q, c, IsCut

\* What push(SList&) makes of two lists, beside a third.
IsJoined(q, nx, l, ls, m, ms, y, ys) ==
    /\ q.list \in Lists /\ q.next \in Links /\ q.list.cnt = l.cnt + m.cnt
    /\ \E s \in Seq(Node) : Holds(q.list, q.next, s) /\ Range(s) = Range(ms) \cup Range(ls)
    /\ Holds(y, q.next, ys)
    /\ \A n \in Node : n \notin Range(ms) => q.next[n] = nx[n]

LEMMA JoinLists ==
    ASSUME Null \notin Node, NEW nx \in Links,
           NEW l \in Lists, NEW ls \in Seq(Node), Holds(l, nx, ls),
           NEW m \in Lists, NEW ms \in Seq(Node), Holds(m, nx, ms),
           NEW y \in Lists, NEW ys \in Seq(Node), Holds(y, nx, ys),
           Range(ls) \cap Range(ms) = {}, Range(ys) \cap Range(ms) = {}
    PROVE  IsJoined(PushList(l, nx, m), nx, l, ls, m, ms, y, ys)
<1> DEFINE q == PushList(l, nx, m)
           s == ms \o ls
<1>1. \A i \in 1..Len(ls), j \in 1..Len(ms) : ls[i] # ms[j]
    BY SeqRange
<1>2. q.list \in Lists /\ q.next \in Links /\ Holds(q.list, q.next, s)
    BY <1>1, PushListHolds
<1>3. s \in Seq(Node) /\ Range(s) = Range(ms) \cup Range(ls)
    BY JoinRange
<1>4. Len(s) = Len(ms) + Len(ls)
    OBVIOUS
<1> HIDE DEF s
<1>5. \A n \in Node : n \notin Range(ms) => q.next[n] = nx[n]
    BY PushListFrame
<1> HIDE DEF q
<1>6. q.list.cnt = l.cnt + m.cnt
    <2>1. q.list.cnt = Len(s) /\ l.cnt = Len(ls) /\ m.cnt = Len(ms)
        BY <1>2 DEF Holds
    <2> QED
        BY <1>4, <2>1
<1>7. Holds(y, q.next, ys)
    <2>1. \A n \in Range(ys) : n \in Node /\ n \notin Range(ms)
        BY SeqRange
    <2> QED
        BY <1>2, <1>5, <2>1, HoldsStays
<1> QED
    BY <1>2, <1>3, <1>5, <1>6, <1>7 DEF q, s, IsJoined

LEMMA GetHeapKeeps == ASSUME TlsInv, NEW t \in Thread, GetHeap(t) PROVE TlsInv'
<1> DEFINE q == PopMany(heap, next, conf.pop)
           ph == <<"heap", Null>>
           pm == <<"ml", t>>
           s == Nodes(heap, next)
<1>1. /\ TypeOK /\ BlockOnce /\ out \subseteq made /\ Counted /\ Stage(t) /\ Cache(t)
      /\ pc[t] = "heap" /\ Works
      /\ heap' = q.list /\ next' = q.next /\ ml' = [ml EXCEPT ![t] = q.taken]
      /\ pc' = [pc EXCEPT ![t] = IF q.taken.cnt > 0 THEN "keep" ELSE "new"]
      /\ UNCHANGED <<conf, wait, free, known, hlock, total, made, out, reg, todo, clash>>
    BY DEF TlsInv, GetHeap, Goto, Stages, CacheBounded, Cache
<1>2. /\ next \in Links /\ heap \in Lists /\ heap.cnt \in Nat
      /\ conf.pop \in Nat \ {0} /\ conf.push \in Nat \ {0} /\ Null \notin Node
    BY <1>1, Parts, Bounds
<1>3. /\ ph \in Places /\ ListAt(ph) = heap /\ ListAt(ph)' = heap'
      /\ pm \in Places /\ ListAt(pm) = ml[t] /\ ListAt(pm)' = ml'[t] /\ ph # pm
    BY PlaceLists
<1>4. /\ s \in Seq(Node) /\ Holds(heap, next, s) /\ At(ph) = Range(s)
      /\ At(ph) \subseteq made \ out
    BY <1>1, <1>3, Here
<1>5. At(pm) = {}
    BY <1>1, <1>3, NoneAt DEF Stage
<1> HIDE DEF s
<1>6. /\ q.taken \in Lists /\ q.list \in Lists /\ q.next \in Links
      /\ q.taken.cnt = Fewer(conf.pop, heap.cnt)
      /\ q.list.cnt = heap.cnt - Fewer(conf.pop, heap.cnt)
      /\ \E a, b \in Seq(Node) :
            /\ Holds(q.taken, q.next, a) /\ Holds(q.list, q.next, b)
            /\ Range(a) \cap Range(b) = {} /\ Range(a) \cup Range(b) = Range(s)
      /\ \A n \in Node : n \notin Range(s) => q.next[n] = next[n]
    <2>1. IsCut(q, heap, next, s, Fewer(conf.pop, heap.cnt))
        BY <1>2, <1>4, CutList
    <2> HIDE DEF q
    <2> QED
        BY <2>1 DEF IsCut
<1> HIDE DEF q
<1>7. PICK a, b \in Seq(Node) :
            /\ Holds(q.taken, q.next, a) /\ Holds(q.list, q.next, b)
            /\ Range(a) \cap Range(b) = {} /\ Range(a) \cup Range(b) = Range(s)
    BY <1>6
<1>8. /\ ml'[t] = q.taken /\ \A u \in Thread \ {t} : ml'[u] = ml[u] /\ pc'[u] = pc[u]
      /\ pc'[t] = IF q.taken.cnt > 0 THEN "keep" ELSE "new"
    BY <1>1 DEF TypeOK
<1>9. \A r \in Places : r # ph /\ r # pm => ListAt(r)' = ListAt(r)
    <2>1. \A r \in Places : r \notin {ph, pm} => ListAt(r)' = ListAt(r)
        BY <1>1, <1>8, ListsStay
    <2> QED
        BY <2>1
<1>10. /\ BlockOnce' /\ \A r \in Places : r # ph /\ r # pm => At(r)' = At(r)
    <2>1. \A n \in (made \ out) \ (At(ph) \cup At(pm)) :
              next'[n] = next[n] /\ n \notin Range(b) \cup Range(a)
        BY <1>1, <1>4, <1>6, <1>7 DEF TypeOK
    <2>2. made' \ out' = ((made \ out) \ (At(ph) \cup At(pm))) \cup Range(b) \cup Range(a)
        BY <1>1, <1>4, <1>5, <1>7
    <2>3. /\ next' \in Links /\ ListAt(ph)' \in Lists /\ Holds(ListAt(ph)', next', b)
          /\ ListAt(pm)' \in Lists /\ Holds(ListAt(pm)', next', a)
          /\ Range(b) \cap Range(a) = {}
        BY <1>1, <1>3, <1>6, <1>7, <1>8
    <2> HIDE DEF ph, pm
    <2> QED
        BY <1>1, <1>3, <1>9, <2>1, <2>2, <2>3, Moved
<1>11. TypeOK'
    <2>1. heap' \in Lists /\ ml' \in [Thread -> Lists] /\ next' \in [Node -> Node \cup {Null}]
        BY <1>1, <1>6 DEF TypeOK, Links
    <2>2. pc' \in [Thread -> PC]
        BY <1>1 DEF TypeOK, PC
    <2> QED
        BY <1>1, <2>1, <2>2 DEF TypeOK, Works
<1>12. Stage(t)' /\ Cache(t)'
    <2>1. q.taken.cnt \in 0..conf.pop
        BY <1>2, <1>6 DEF Fewer
    <2>2. Stage(t)'
        <3>1. /\ wait'[t].cnt = 0 /\ free'[t].cnt = 0 /\ ml'[t].cnt = q.taken.cnt
              /\ t \in known' /\ conf' = conf
            BY <1>1, <1>8 DEF Stage, Reporting
        <3>2. CASE q.taken.cnt > 0
            <4>1. pc'[t] = "keep" /\ q.taken.cnt \in 1..conf.pop
                BY <1>2, <1>8, <2>1, <3>2
            <4> QED
                BY <3>1, <4>1 DEF Stage
        <3>3. CASE q.taken.cnt = 0
            <4>1. pc'[t] = "new"
                BY <1>8, <3>3
            <4> QED
                BY <3>1, <3>3, <4>1 DEF Stage
        <3> QED
            BY <1>2, <2>1, <3>2, <3>3
    <2>3. Cache(t)'
        BY <1>1, <1>2, <1>8 DEF Stage, Cache
    <2> QED
        BY <2>2, <2>3
<1>13. Counted'
    <2>1. \A u \in Thread : pc[u] = "write" => At(<<"ml", u>>)' = At(<<"ml", u>>)
        BY <1>1, <1>10, PlaceLists
    <2> QED
        BY <1>1, <1>8, <2>1, SameCount
<1>14. pc'[t] \notin Reporting
    BY <1>8 DEF Reporting
<1> QED
    BY <1>1, <1>8, <1>10, <1>11, <1>12, <1>13, <1>14, WorkStep


LEMMA InNew ==
    /\ \A n : n \in New <=> \E u \in Thread : pc[u] = "write" /\ n \in At(<<"ml", u>>)
    /\ \A n : n \in New' <=> \E u \in Thread : pc'[u] = "write" /\ n \in At(<<"ml", u>>)'
    BY DEF New

LEMMA NewReadKeeps == ASSUME TlsInv, NEW t \in Thread, NewRead(t) PROVE TlsInv'
<1> DEFINE pm == <<"ml", t>>
<1>1. /\ TypeOK /\ BlockOnce /\ out \subseteq made /\ Counted /\ Stage(t) /\ Cache(t)
      /\ pc[t] = "new" /\ Works /\ pc' = [pc EXCEPT ![t] = "write"]
      /\ reg' = [reg EXCEPT ![t] = total]
      /\ UNCHANGED <<conf, heap, wait, free, known, hlock, total, out, todo, clash>>
    BY DEF TlsInv, NewRead, Goto, Stages, CacheBounded, Cache
<1>2. PICK f \in Orders(conf.cnt, Node \ made) :
          /\ made' = made \cup Range(f)
          /\ ml' = [ml EXCEPT ![t] = Chain(f, conf.cnt)]
          /\ next' = Linked(next, f, conf.cnt)
    BY DEF NewRead
<1>3. /\ next \in Links /\ conf.cnt \in Nat \ {0} /\ conf.pop \in Nat \ {0}
      /\ conf.push \in Nat \ {0} /\ Null \notin Node
    BY <1>1, Parts, Bounds
<1>4. pm \in Places /\ ListAt(pm) = ml[t] /\ ListAt(pm)' = ml'[t]
    BY PlaceLists
<1>5. At(pm) = {}
    BY <1>1, <1>4, NoneAt DEF Stage
<1>6. Range(f) \subseteq Node \ made
    BY DEF Orders, Range
<1>7. /\ Chain(f, conf.cnt) \in Lists /\ Linked(next, f, conf.cnt) \in Links
      /\ \E seq \in Seq(Node) : /\ Len(seq) = conf.cnt
                                /\ Holds(Chain(f, conf.cnt), Linked(next, f, conf.cnt), seq)
                                /\ Range(seq) = Range(f)
      /\ \A m \in Node : m \notin Range(f) => Linked(next, f, conf.cnt)[m] = next[m]
    <2>1. conf.cnt \in Nat /\ Node \ made \in SUBSET Node
        BY <1>3
    <2> QED
        BY <1>3, <2>1, ChainHolds
<1>8. PICK s \in Seq(Node) : Holds(Chain(f, conf.cnt), next', s) /\ Range(s) = Range(f)
    BY <1>2, <1>7
<1>9. /\ ml'[t] = Chain(f, conf.cnt) /\ pc'[t] = "write"
      /\ \A u \in Thread \ {t} : ml'[u] = ml[u] /\ pc'[u] = pc[u]
    BY <1>1, <1>2 DEF TypeOK
<1>10. \A r \in Places : r # pm => ListAt(r)' = ListAt(r)
    <2>1. \A r \in Places : r \notin {pm} => ListAt(r)' = ListAt(r)
        BY <1>1, <1>9, ListsStay
    <2> QED
        BY <2>1
<1>11. /\ BlockOnce' /\ At(pm)' = Range(f)
       /\ \A r \in Places : r # pm => At(r)' = At(r)
    <2>1. \A n \in (made \ out) \ (At(pm) \cup At(pm)) :
              next'[n] = next[n] /\ n \notin Range(s) \cup Range(s)
        <3> TAKE n \in (made \ out) \ (At(pm) \cup At(pm))
        <3>1. n \in Node /\ n \in made
            BY <1>1 DEF TypeOK
        <3>2. n \notin Range(f)
            BY <1>6, <3>1
        <3> QED
            BY <1>2, <1>7, <1>8, <3>1, <3>2
    <2>2. made' \ out' = ((made \ out) \ (At(pm) \cup At(pm))) \cup Range(s) \cup Range(s)
        BY <1>1, <1>2, <1>5, <1>6, <1>8
    <2>3. next' \in Links /\ ListAt(pm)' \in Lists /\ Holds(ListAt(pm)', next', s)
        BY <1>2, <1>4, <1>7, <1>8, <1>9
    <2> HIDE DEF pm
    <2> QED
        BY <1>1, <1>4, <1>8, <1>10, <2>1, <2>2, <2>3, Moved
<1>12. TypeOK'
    <2>1. ml' \in [Thread -> Lists] /\ next' \in [Node -> Node \cup {Null}]
        BY <1>1, <1>2, <1>7 DEF TypeOK, Links
    <2>2. made' \in SUBSET Node
        BY <1>1, <1>2, <1>6 DEF TypeOK
    <2>3. pc' \in [Thread -> PC] /\ reg' \in [Thread -> 0..(Wrap - 1)]
        BY <1>1 DEF TypeOK, PC
    <2> QED
        BY <1>1, <2>1, <2>2, <2>3 DEF TypeOK, Works
<1>13. Stage(t)' /\ Cache(t)'
    <2>1. /\ wait'[t].cnt = 0 /\ free'[t].cnt = 0 /\ ml'[t].cnt = conf.cnt
          /\ t \in known' /\ conf' = conf
        BY <1>1, <1>9 DEF Stage, Reporting, Chain
    <2> QED
        BY <1>3, <1>9, <2>1 DEF Stage, Cache
<1>14. Counted'
    <2>1. \A u \in Thread : /\ At(<<"ml", u>>) \subseteq made
                            /\ u # t => At(<<"ml", u>>)' = At(<<"ml", u>>)
        <3> TAKE u \in Thread
        <3>1. <<"ml", u>> \in Places
            BY PlaceLists
        <3> QED
            BY <1>1, <1>11, <3>1, Here
    <2>2. \A n : n \in New' <=> n \in New \/ n \in Range(f)
        <3> TAKE n
        <3>1. ASSUME n \in New' PROVE n \in New \/ n \in Range(f)
            <4>1. PICK u \in Thread : pc'[u] = "write" /\ n \in At(<<"ml", u>>)'
                BY <3>1, InNew
            <4>2. CASE u = t
                BY <1>11, <4>1, <4>2
            <4>3. CASE u # t
                <5>1. pc[u] = "write" /\ n \in At(<<"ml", u>>)
                    BY <1>9, <2>1, <4>1, <4>3
                <5> QED
                    BY <5>1, InNew
            <4> QED
                BY <4>2, <4>3
        <3>2. ASSUME n \in New PROVE n \in New'
            <4>1. PICK u \in Thread : pc[u] = "write" /\ n \in At(<<"ml", u>>)
                BY <3>2, InNew
            <4>2. u # t
                BY <1>1, <4>1
            <4>3. pc'[u] = "write" /\ n \in At(<<"ml", u>>)'
                BY <1>9, <2>1, <4>1, <4>2
            <4> QED
                BY <4>3, InNew
        <3>3. ASSUME n \in Range(f) PROVE n \in New'
            <4>1. pc'[t] = "write" /\ n \in At(<<"ml", t>>)'
                BY <1>9, <1>11, <3>3
            <4> QED
                BY <4>1, InNew
        <3> QED
            BY <3>1, <3>2, <3>3
    <2>3. \A n \in New : n \in made
        BY <2>1, InNew
    <2>4. made' \ New' = made \ New
        BY <1>2, <1>6, <2>2, <2>3
    <2> QED
        BY <1>1, <2>4 DEF Counted
<1>15. pc'[t] \notin Reporting /\ out' \subseteq made'
    BY <1>1, <1>2, <1>9 DEF Reporting
<1> QED
    BY <1>1, <1>9, <1>11, <1>12, <1>13, <1>14, <1>15, WorkStep

\* A step that leaves every list alone.
LEMMA ListsKept ==
    ASSUME UNCHANGED blocks
    PROVE  /\ BlockOnce' <=> BlockOnce
           /\ \A p : At(p)' = At(p)
    BY DEF blocks, BlockOnce, ListsSound, At, ListAt, Places

LEMMA NewWriteKeeps == ASSUME TlsInv, NEW t \in Thread, NewWrite(t) PROVE TlsInv'
<1> DEFINE pm == <<"ml", t>>
<1>1. /\ TypeOK /\ BlockOnce /\ out \subseteq made /\ Counted /\ Stage(t) /\ Cache(t)
      /\ pc[t] = "write" /\ Works
      /\ pc' = [pc EXCEPT ![t] = IF conf.cnt > conf.pop THEN "give" ELSE "keep"]
      /\ total' = (reg[t] + conf.cnt) % Wrap
      /\ clash' = (clash \/ total # reg[t])
      /\ reg' = [reg EXCEPT ![t] = 0]
      /\ UNCHANGED <<conf, hlock, todo>> /\ UNCHANGED blocks
    BY DEF TlsInv, NewWrite, Goto, Stages, CacheBounded, Cache
<1>2. UNCHANGED <<next, heap, wait, free, ml, known, made, out>>
    BY <1>1 DEF blocks
<1>3. /\ conf.cnt \in Nat \ {0} /\ conf.pop \in Nat \ {0} /\ conf.push \in Nat \ {0}
      /\ Wrap \in Nat /\ IsFiniteSet(Node) /\ Cardinality(Node) < Wrap
      /\ Cardinality(Node) \in Nat
    BY <1>1, Parts, Bounds
<1>4. /\ pc'[t] = IF conf.cnt > conf.pop THEN "give" ELSE "keep"
      /\ \A u \in Thread \ {t} : pc'[u] = pc[u]
    BY <1>1 DEF TypeOK
<1>5. BlockOnce' /\ \A p : At(p)' = At(p)
    BY <1>1, ListsKept
<1>6. reg[t] \in 0..(Wrap - 1) /\ total \in 0..(Wrap - 1)
    BY <1>1 DEF TypeOK
<1>7. TypeOK'
    <2>1. total' \in 0..(Wrap - 1)
        BY <1>1, <1>3, <1>6
    <2>2. reg' \in [Thread -> 0..(Wrap - 1)]
        <3>1. 0 \in 0..(Wrap - 1)
            BY <1>3
        <3> QED
            BY <1>1, <3>1 DEF TypeOK
    <2>3. pc' \in [Thread -> PC]
        BY <1>1 DEF TypeOK, PC
    <2>4. clash' \in BOOLEAN
        BY <1>1
    <2> QED
        BY <1>1, <1>2, <2>1, <2>2, <2>3, <2>4 DEF TypeOK, Works
<1>8. Stage(t)' /\ Cache(t)'
    <2>1. /\ wait'[t].cnt = 0 /\ free'[t].cnt = 0 /\ ml'[t].cnt = conf.cnt
          /\ t \in known' /\ conf' = conf
        BY <1>1, <1>2 DEF Stage, Reporting
    <2>2. CASE conf.cnt > conf.pop
        BY <1>3, <1>4, <2>1, <2>2 DEF Stage, Cache
    <2>3. CASE ~(conf.cnt > conf.pop)
        <3>1. conf.cnt \in 1..conf.pop
            BY <1>3, <2>3
        <3> QED
            BY <1>3, <1>4, <2>1, <2>3, <3>1 DEF Stage, Cache
    <2> QED
        BY <2>2, <2>3
<1>9. Counted'
    <2> SUFFICES ASSUME clash' = FALSE PROVE total' = Cardinality(made' \ New')
        <3>1. clash' \in BOOLEAN
            BY <1>1
        <3> QED
            BY <3>1 DEF Counted
    <2>1. ~clash /\ total = reg[t]
        BY <1>1
    <2>2. total = Cardinality(made \ New)
        BY <1>1, <2>1 DEF Counted
    <2>3. pm \in Places /\ ListAt(pm) = ml[t]
        BY PlaceLists
    <2>4. /\ IsFiniteSet(At(pm)) /\ Cardinality(At(pm)) = conf.cnt
          /\ At(pm) \subseteq made \ out
        BY <1>1, <2>3, CountAt, Here DEF Stage
    <2>5. \A u \in Thread \ {t} : At(pm) \cap At(<<"ml", u>>) = {}
        <3> TAKE u \in Thread \ {t}
        <3>1. <<"ml", u>> \in Places /\ <<"ml", u>> # pm
            BY PlaceLists
        <3> QED
            BY <1>1, <2>3, <3>1 DEF BlockOnce
    <2>6. \A n : n \in New' <=> n \in New /\ n \notin At(pm)
        <3> TAKE n
        <3>1. ASSUME n \in New' PROVE n \in New /\ n \notin At(pm)
            <4>1. PICK u \in Thread : pc'[u] = "write" /\ n \in At(<<"ml", u>>)
                BY <1>5, <3>1, InNew
            <4>2. u # t /\ pc[u] = "write"
                BY <1>4, <4>1
            <4> QED
                BY <2>5, <4>1, <4>2, InNew
        <3>2. ASSUME n \in New, n \notin At(pm) PROVE n \in New'
            <4>1. PICK u \in Thread : pc[u] = "write" /\ n \in At(<<"ml", u>>)
                BY <3>2, InNew
            <4>2. u # t
                BY <3>2, <4>1
            <4>3. pc'[u] = "write" /\ n \in At(<<"ml", u>>)'
                BY <1>4, <1>5, <4>1, <4>2
            <4> QED
                BY <4>3, InNew
        <3> QED
            BY <3>1, <3>2
    <2>7. \A n \in At(pm) : n \in New /\ n \in made
        BY <1>1, <2>4, InNew
    <2> HIDE DEF pm
    <2>8. /\ made' \ New' = (made \ New) \cup At(pm)
          /\ (made \ New) \cap At(pm) = {}
        BY <1>2, <2>6, <2>7
    <2>9. IsFiniteSet(made) /\ IsFiniteSet(made \ New)
        BY <1>1, <1>3, FS_Subset DEF TypeOK
    <2>10. Cardinality(made' \ New') = total + conf.cnt
        <3> DEFINE A == made \ New
                   B == At(pm)
        <3>1. /\ IsFiniteSet(A) /\ IsFiniteSet(B) /\ A \cap B = {}
              /\ Cardinality(A) = total /\ Cardinality(B) = conf.cnt
            BY <2>2, <2>4, <2>8, <2>9
        <3> HIDE DEF A, B
        <3>2. Cardinality(A \cup B) = total + conf.cnt - Cardinality(A \cap B)
            BY <3>1, FS_Union
        <3>3. Cardinality(A \cap B) = 0
            BY <3>1, FS_EmptySet
        <3> QED
            <4>1. Cardinality(A \cup B) = total + conf.cnt
                BY <1>3, <1>6, <3>2, <3>3
            <4> QED
                BY <2>8, <4>1 DEF A, B
    <2>11. Cardinality(made' \ New') <= Cardinality(Node)
        <3>1. made' \ New' \subseteq Node
            BY <1>7 DEF TypeOK
        <3> QED
            BY <1>3, <3>1, FS_Subset
    <2>12. total + conf.cnt < Wrap /\ total + conf.cnt \in Nat
        BY <1>3, <1>6, <2>10, <2>11
    <2>13. (total + conf.cnt) % Wrap = total + conf.cnt
        BY <1>3, <2>12
    <2> QED
        BY <1>1, <2>1, <2>10, <2>13
<1>10. pc'[t] \notin Reporting
    BY <1>4 DEF Reporting
<1> QED
    BY <1>1, <1>2, <1>4, <1>5, <1>7, <1>8, <1>9, <1>10, WorkStep

LEMMA GiveKeeps == ASSUME TlsInv, NEW t \in Thread, Give(t) PROVE TlsInv'
<1> DEFINE k == conf.cnt - conf.pop
           p == PopMany(ml[t], next, k)
           q == PushList(heap, p.next, p.taken)
           ph == <<"heap", Null>>
           pm == <<"ml", t>>
           h == Nodes(heap, next)
           s == Nodes(ml[t], next)
<1>1. /\ TypeOK /\ BlockOnce /\ out \subseteq made /\ Counted /\ Stage(t) /\ Cache(t)
      /\ pc[t] = "give" /\ Works
      /\ heap' = q.list /\ next' = q.next /\ ml' = [ml EXCEPT ![t] = p.list]
      /\ pc' = [pc EXCEPT ![t] = "keep"]
      /\ UNCHANGED <<conf, wait, free, known, hlock, total, made, out, reg, todo, clash>>
    BY DEF TlsInv, Give, Goto, Stages, CacheBounded, Cache
<1>2. /\ next \in Links /\ heap \in Lists /\ ml[t] \in Lists /\ ml[t].cnt = conf.cnt
      /\ conf.cnt \in Nat /\ conf.pop \in Nat \ {0} /\ conf.push \in Nat \ {0}
      /\ Null \notin Node /\ k \in Nat \ {0}
    <2>1. conf.cnt > conf.pop
        BY <1>1 DEF Stage
    <2> QED
        BY <1>1, <2>1, Parts, Bounds DEF Stage
<1>3. /\ ph \in Places /\ ListAt(ph) = heap /\ ListAt(ph)' = heap'
      /\ pm \in Places /\ ListAt(pm) = ml[t] /\ ListAt(pm)' = ml'[t] /\ ph # pm
    BY PlaceLists
<1>4. /\ h \in Seq(Node) /\ Holds(heap, next, h) /\ At(ph) = Range(h)
      /\ s \in Seq(Node) /\ Holds(ml[t], next, s) /\ At(pm) = Range(s)
      /\ Range(h) \subseteq made \ out /\ Range(s) \subseteq made \ out
    BY <1>1, <1>3, Here
<1>5. Range(h) \cap Range(s) = {}
    BY <1>1, <1>3, <1>4 DEF BlockOnce
<1> HIDE DEF s, h
<1>6. IsCut(p, ml[t], next, s, Fewer(k, ml[t].cnt))
    <2> HIDE DEF k
    <2> QED
        BY <1>2, <1>4, CutList
<1>7. Fewer(k, ml[t].cnt) = k /\ ml[t].cnt - k = conf.pop
    BY <1>2 DEF Fewer
<1> HIDE DEF p
<1>8. /\ p.taken \in Lists /\ p.list \in Lists /\ p.next \in Links
      /\ p.list.cnt = conf.pop
      /\ \A n \in Node : n \notin Range(s) => p.next[n] = next[n]
    BY <1>6, <1>7 DEF IsCut
<1>9. PICK a, b \in Seq(Node) :
          /\ Holds(p.taken, p.next, a) /\ Holds(p.list, p.next, b)
          /\ Range(a) \cap Range(b) = {} /\ Range(a) \cup Range(b) = Range(s)
    BY <1>6 DEF IsCut
<1>10. Holds(heap, p.next, h)
    <2>1. \A n \in Range(h) : p.next[n] = next[n]
        BY <1>1, <1>4, <1>5, <1>8 DEF TypeOK
    <2> QED
        BY <1>2, <1>4, <1>8, <2>1, HoldsStays
<1>11. IsJoined(q, p.next, heap, h, p.taken, a, p.list, b)
    <2>1. Range(h) \cap Range(a) = {} /\ Range(b) \cap Range(a) = {}
        BY <1>5, <1>9
    <2> QED
        BY <1>2, <1>4, <1>8, <1>9, <1>10, <2>1, JoinLists
<1> HIDE DEF q
<1>12. /\ q.list \in Lists /\ q.next \in Links /\ Holds(p.list, q.next, b)
       /\ \A n \in Node : n \notin Range(a) => q.next[n] = p.next[n]
    BY <1>11 DEF IsJoined
<1>13. PICK g \in Seq(Node) : Holds(q.list, q.next, g) /\ Range(g) = Range(a) \cup Range(h)
    BY <1>11 DEF IsJoined
<1>14. /\ ml'[t] = p.list /\ pc'[t] = "keep"
       /\ \A u \in Thread \ {t} : ml'[u] = ml[u] /\ pc'[u] = pc[u]
    BY <1>1 DEF TypeOK
<1>15. \A r \in Places : r # ph /\ r # pm => ListAt(r)' = ListAt(r)
    <2>1. \A r \in Places : r \notin {ph, pm} => ListAt(r)' = ListAt(r)
        BY <1>1, <1>14, ListsStay
    <2> QED
        BY <2>1
<1>16. /\ BlockOnce' /\ \A r \in Places : r # ph /\ r # pm => At(r)' = At(r)
    <2>1. \A n \in (made \ out) \ (At(ph) \cup At(pm)) :
              next'[n] = next[n] /\ n \notin Range(g) \cup Range(b)
        <3> TAKE n \in (made \ out) \ (At(ph) \cup At(pm))
        <3>1. n \in Node /\ n \notin Range(s) /\ n \notin Range(h)
            BY <1>1, <1>4 DEF TypeOK
        <3>2. n \notin Range(a) /\ n \notin Range(b)
            BY <1>9, <3>1
        <3>3. n \notin Range(g)
            BY <1>13, <3>1, <3>2
        <3> QED
            BY <1>1, <1>8, <1>12, <3>1, <3>2, <3>3
    <2>2. made' \ out' = ((made \ out) \ (At(ph) \cup At(pm))) \cup Range(g) \cup Range(b)
        BY <1>1, <1>4, <1>9, <1>13
    <2>3. /\ next' \in Links /\ ListAt(ph)' \in Lists /\ Holds(ListAt(ph)', next', g)
          /\ ListAt(pm)' \in Lists /\ Holds(ListAt(pm)', next', b)
          /\ Range(g) \cap Range(b) = {}
        BY <1>1, <1>3, <1>5, <1>8, <1>9, <1>12, <1>13, <1>14
    <2> HIDE DEF ph, pm
    <2> QED
        BY <1>1, <1>3, <1>15, <2>1, <2>2, <2>3, Moved
<1>17. TypeOK'
    <2>1. heap' \in Lists /\ ml' \in [Thread -> Lists] /\ next' \in [Node -> Node \cup {Null}]
        BY <1>1, <1>8, <1>12 DEF TypeOK, Links
    <2>2. pc' \in [Thread -> PC]
        BY <1>1 DEF TypeOK, PC
    <2> QED
        BY <1>1, <2>1, <2>2 DEF TypeOK, Works
<1>18. Stage(t)' /\ Cache(t)'
    <2>1. /\ wait'[t].cnt = 0 /\ free'[t].cnt = 0 /\ ml'[t].cnt = conf.pop
          /\ t \in known' /\ conf' = conf /\ conf.pop \in 1..conf.pop
        BY <1>1, <1>2, <1>8, <1>14 DEF Stage, Reporting
    <2> QED
        BY <1>2, <1>14, <2>1 DEF Stage, Cache
<1>19. Counted'
    <2>1. \A u \in Thread : pc[u] = "write" => At(<<"ml", u>>)' = At(<<"ml", u>>)
        BY <1>1, <1>16, PlaceLists
    <2> QED
        BY <1>1, <1>14, <2>1, SameCount
<1>20. pc'[t] \notin Reporting
    BY <1>14 DEF Reporting
<1> QED
    BY <1>1, <1>14, <1>16, <1>17, <1>18, <1>19, <1>20, WorkStep

LEMMA KeepKeeps == ASSUME TlsInv, NEW t \in Thread, Keep(t) PROVE TlsInv'
<1> DEFINE p == Pop(ml[t], next)
           q == PushList(wait[t], p.next, p.list)
           pw == <<"wait", t>>
           pm == <<"ml", t>>
           w == Nodes(wait[t], next)
           s == Nodes(ml[t], next)
<1>1. /\ TypeOK /\ BlockOnce /\ out \subseteq made /\ Counted /\ Stage(t) /\ Cache(t)
      /\ pc[t] = "keep" /\ Works
      /\ wait' = [wait EXCEPT ![t] = q.list] /\ next' = q.next
      /\ out' = out \cup {p.node} /\ ml' = [ml EXCEPT ![t] = Empty]
      /\ pc' = [pc EXCEPT ![t] = "idle"]
      /\ UNCHANGED <<conf, heap, free, known, hlock, total, made, reg, todo, clash>>
    BY DEF TlsInv, Keep, Goto, Stages, CacheBounded, Cache
<1>2. /\ next \in Links /\ wait[t] \in Lists /\ ml[t] \in Lists
      /\ ml[t].cnt \in 1..conf.pop /\ wait[t].cnt = 0
      /\ conf.cnt \in Nat /\ conf.pop \in Nat \ {0} /\ conf.push \in Nat \ {0}
      /\ Null \notin Node
    BY <1>1, Parts, Bounds DEF Stage
<1>3. /\ pw \in Places /\ ListAt(pw) = wait[t] /\ ListAt(pw)' = wait'[t]
      /\ pm \in Places /\ ListAt(pm) = ml[t] /\ ListAt(pm)' = ml'[t] /\ pw # pm
    BY PlaceLists
<1>4. /\ w \in Seq(Node) /\ Holds(wait[t], next, w) /\ At(pw) = Range(w)
      /\ s \in Seq(Node) /\ Holds(ml[t], next, s) /\ At(pm) = Range(s)
      /\ Range(w) \subseteq made \ out /\ Range(s) \subseteq made \ out
    BY <1>1, <1>3, Here
<1>5. Range(w) = {}
    BY <1>1, <1>2, <1>3, <1>4, NoneAt
<1> HIDE DEF s, w
<1>6. /\ p.list \in Lists /\ p.next \in Links
      /\ p.node \in Range(s) /\ p.node \in Node
      /\ Tail(s) \in Seq(Node) /\ Holds(p.list, p.next, Tail(s))
      /\ Range(Tail(s)) = Range(s) \ {p.node}
    <2>1. ml[t].cnt > 0
        BY <1>2
    <2> QED
        BY <1>2, <1>4, <2>1, PopFree
<1>7. \A n \in Node : n \notin Range(s) => p.next[n] = next[n]
    BY <1>2, <1>4, PopFrame
<1>8. p.list.cnt = ml[t].cnt - 1
    <2>1. Len(s) = ml[t].cnt /\ p.list.cnt = Len(Tail(s))
        BY <1>4, <1>6 DEF Holds
    <2>2. s # <<>>
        BY <1>2, <2>1
    <2> QED
        BY <1>4, <2>1, <2>2
<1> HIDE DEF p
<1>9. Holds(wait[t], p.next, w)
    BY <1>2, <1>4, <1>5, <1>6, HoldsStays
<1>10. IsJoined(q, p.next, wait[t], w, p.list, Tail(s), Empty, <<>>)
    <2>1. Range(w) \cap Range(Tail(s)) = {} /\ Range(<<>>) \cap Range(Tail(s)) = {}
        BY <1>5, EmptyAt
    <2>2. Empty \in Lists /\ <<>> \in Seq(Node) /\ Holds(Empty, p.next, <<>>)
        BY EmptyAt
    <2> QED
        BY <1>2, <1>4, <1>6, <1>9, <2>1, <2>2, JoinLists
<1> HIDE DEF q
<1>11. /\ q.list \in Lists /\ q.next \in Links /\ q.list.cnt = wait[t].cnt + p.list.cnt
       /\ \A n \in Node : n \notin Range(Tail(s)) => q.next[n] = p.next[n]
    BY <1>10 DEF IsJoined
<1>12. PICK g \in Seq(Node) : Holds(q.list, q.next, g)
                              /\ Range(g) = Range(Tail(s)) \cup Range(w)
    BY <1>10 DEF IsJoined
<1>13. /\ ml'[t] = Empty /\ wait'[t] = q.list /\ pc'[t] = "idle"
       /\ \A u \in Thread \ {t} : ml'[u] = ml[u] /\ wait'[u] = wait[u] /\ pc'[u] = pc[u]
    BY <1>1 DEF TypeOK
<1>14. \A r \in Places : r # pw /\ r # pm => ListAt(r)' = ListAt(r)
    <2>1. \A r \in Places : r \notin {pw, pm} => ListAt(r)' = ListAt(r)
        BY <1>1, <1>13, ListsStay
    <2> QED
        BY <2>1
<1>15. /\ BlockOnce' /\ \A r \in Places : r # pw /\ r # pm => At(r)' = At(r)
    <2> DEFINE b == <<>>
    <2>1. b \in Seq(Node) /\ Range(b) = {} /\ Holds(Empty, next', b) /\ Empty \in Lists
        BY EmptyAt
    <2> HIDE DEF b
    <2>2. \A n \in (made \ out) \ (At(pw) \cup At(pm)) :
              next'[n] = next[n] /\ n \notin Range(g) \cup Range(b)
        <3> TAKE n \in (made \ out) \ (At(pw) \cup At(pm))
        <3>1. n \in Node /\ n \notin Range(s) /\ n \notin Range(w)
            BY <1>1, <1>4 DEF TypeOK
        <3>2. n \notin Range(Tail(s))
            BY <1>6, <3>1
        <3> QED
            BY <1>1, <1>7, <1>11, <1>12, <2>1, <3>1, <3>2
    <2>3. made' \ out' = ((made \ out) \ (At(pw) \cup At(pm))) \cup Range(g) \cup Range(b)
        BY <1>1, <1>4, <1>5, <1>6, <1>12, <2>1
    <2>4. /\ next' \in Links /\ ListAt(pw)' \in Lists /\ Holds(ListAt(pw)', next', g)
          /\ ListAt(pm)' \in Lists /\ Holds(ListAt(pm)', next', b)
          /\ Range(g) \cap Range(b) = {}
        BY <1>1, <1>3, <1>11, <1>12, <1>13, <2>1
    <2> HIDE DEF pw, pm
    <2> QED
        BY <1>1, <1>3, <1>14, <2>1, <2>2, <2>3, <2>4, Moved
<1>16. TypeOK'
    <2>1. /\ wait' \in [Thread -> Lists] /\ ml' \in [Thread -> Lists]
          /\ next' \in [Node -> Node \cup {Null}]
        BY <1>1, <1>11, EmptyAt DEF TypeOK, Links
    <2>2. pc' \in [Thread -> PC]
        BY <1>1 DEF TypeOK, PC
    <2>3. out' \in SUBSET Node
        BY <1>1, <1>6 DEF TypeOK
    <2> QED
        BY <1>1, <2>1, <2>2, <2>3 DEF TypeOK, Works
<1>17. Stage(t)' /\ Cache(t)'
    <2>1. /\ wait'[t].cnt < conf.pop /\ free'[t].cnt = 0 /\ ml'[t].cnt = 0
          /\ t \in known' /\ conf' = conf
        BY <1>1, <1>2, <1>8, <1>11, <1>13, EmptyAt DEF Stage, Reporting
    <2> QED
        BY <1>2, <1>13, <2>1 DEF Stage, Cache
<1>18. Counted'
    <2>1. \A u \in Thread : pc[u] = "write" => At(<<"ml", u>>)' = At(<<"ml", u>>)
        BY <1>1, <1>15, PlaceLists
    <2> QED
        BY <1>1, <1>13, <2>1, SameCount
<1>19. pc'[t] \notin Reporting /\ out' \subseteq made'
    BY <1>1, <1>4, <1>6, <1>13 DEF Reporting
<1> QED
    BY <1>1, <1>13, <1>15, <1>16, <1>17, <1>18, <1>19, WorkStep

LEMMA PutKeeps == ASSUME TlsInv, NEW t \in Thread, NEW m \in Node, Put(t, m) PROVE TlsInv'
<1> DEFINE q == Push(free[t], next, m)
           pf == <<"free", t>>
           f == Nodes(free[t], next)
           g == <<m>> \o f
<1>1. /\ TypeOK /\ BlockOnce /\ out \subseteq made /\ Counted /\ Stage(t) /\ Cache(t)
      /\ pc[t] = "idle" /\ Works /\ m \in out
      /\ free' = [free EXCEPT ![t] = q.list] /\ next' = q.next
      /\ pc' = IF IsFull(q.list) THEN [pc EXCEPT ![t] = "flush"] ELSE pc
      /\ out' = out \ {m} /\ known' = known \cup {t}
      /\ UNCHANGED <<conf, heap, wait, ml, hlock, total, made, reg, todo, clash>>
    BY DEF TlsInv, Put, Goto, ThreadMem, Stages, CacheBounded, Cache
<1>2. /\ next \in Links /\ free[t] \in Lists /\ free[t].cnt \in Nat
      /\ conf.pop \in Nat \ {0} /\ conf.push \in Nat \ {0} /\ Null \notin Node
    BY <1>1, Parts, Bounds
<1>3. pf \in Places /\ ListAt(pf) = free[t] /\ ListAt(pf)' = free'[t]
    BY PlaceLists
<1>4. /\ f \in Seq(Node) /\ Holds(free[t], next, f) /\ At(pf) = Range(f)
      /\ Len(f) = free[t].cnt /\ Range(f) \subseteq made \ out
    BY <1>1, <1>3, Here
<1> HIDE DEF f
<1>5. /\ q.list \in Lists /\ q.next \in Links /\ Holds(q.list, q.next, g)
      /\ g \in Seq(Node) /\ Range(g) = Range(f) \cup {m}
    <2>1. \A i \in 1..Len(f) : f[i] # m
        BY <1>1, <1>4, SeqRange
    <2>2. /\ q.list \in Lists /\ q.next \in Links /\ Holds(q.list, q.next, g)
        BY <1>2, <1>4, <2>1, PushHolds
    <2> QED
        BY <1>4, <2>2, ConsRange
<1>6. \A n \in Node : n # m => q.next[n] = next[n]
    BY <1>2, PushFrame
<1>7. q.list.cnt = free[t].cnt + 1
    BY <1>2 DEF Push
<1> HIDE DEF q, g
<1>8. /\ free'[t] = q.list /\ \A u \in Thread \ {t} : free'[u] = free[u] /\ pc'[u] = pc[u]
      /\ pc'[t] = IF IsFull(q.list) THEN "flush" ELSE "idle"
    BY <1>1 DEF TypeOK
<1>9. \A r \in Places : r # pf => ListAt(r)' = ListAt(r)
    <2>1. \A r \in Places : r \notin {pf} => ListAt(r)' = ListAt(r)
        BY <1>1, <1>8, ListsStay
    <2> QED
        BY <2>1
<1>10. /\ BlockOnce' /\ \A r \in Places : r # pf => At(r)' = At(r)
    <2>1. \A n \in (made \ out) \ (At(pf) \cup At(pf)) :
              next'[n] = next[n] /\ n \notin Range(g) \cup Range(g)
        <3> TAKE n \in (made \ out) \ (At(pf) \cup At(pf))
        <3>1. n \in Node /\ n \notin Range(f) /\ n # m
            BY <1>1, <1>4 DEF TypeOK
        <3> QED
            BY <1>1, <1>5, <1>6, <3>1
    <2>2. made' \ out' = ((made \ out) \ (At(pf) \cup At(pf))) \cup Range(g) \cup Range(g)
        BY <1>1, <1>4, <1>5
    <2>3. next' \in Links /\ ListAt(pf)' \in Lists /\ Holds(ListAt(pf)', next', g)
        BY <1>1, <1>3, <1>5, <1>8
    <2> HIDE DEF pf
    <2> QED
        BY <1>1, <1>3, <1>5, <1>9, <2>1, <2>2, <2>3, Moved
<1>11. TypeOK'
    <2>1. free' \in [Thread -> Lists] /\ next' \in [Node -> Node \cup {Null}]
        BY <1>1, <1>5 DEF TypeOK, Links
    <2>2. pc' \in [Thread -> PC]
        BY <1>1 DEF TypeOK, PC
    <2>3. out' \in SUBSET Node /\ known' \in SUBSET Thread
        BY <1>1 DEF TypeOK
    <2> QED
        BY <1>1, <2>1, <2>2, <2>3 DEF TypeOK, Works
<1>12. Stage(t)' /\ Cache(t)'
    <2>1. free[t].cnt < conf.push
        BY <1>1, <1>2 DEF Cache
    <2>2. /\ free'[t].cnt <= conf'.push
          /\ free'[t].cnt = conf'.push => pc'[t] = "flush"
        BY <1>1, <1>2, <1>7, <1>8, <2>1 DEF IsFull
    <2>3. /\ wait'[t].cnt < conf'.pop /\ ml'[t].cnt = 0 /\ t \in known'
          /\ pc'[t] \in {"idle", "flush"}
        BY <1>1, <1>8 DEF Stage, Cache
    <2> QED
        BY <2>2, <2>3 DEF Stage, Cache
<1>13. Counted'
    <2>1. \A u \in Thread : At(<<"ml", u>>)' = At(<<"ml", u>>)
        BY <1>10, PlaceLists
    <2> QED
        BY <1>1, <1>8, <2>1, SameCount
<1>14. pc'[t] \notin Reporting /\ out' \subseteq made'
    BY <1>1, <1>8 DEF Reporting
<1> QED
    BY <1>1, <1>8, <1>10, <1>11, <1>12, <1>13, <1>14, WorkStep

LEMMA FlushKeeps == ASSUME TlsInv, NEW t \in Thread, Flush(t) PROVE TlsInv'
<1> DEFINE q == PushList(heap, next, free[t])
           ph == <<"heap", Null>>
           pf == <<"free", t>>
           h == Nodes(heap, next)
           f == Nodes(free[t], next)
<1>1. /\ TypeOK /\ BlockOnce /\ out \subseteq made /\ Counted /\ Stage(t) /\ Cache(t)
      /\ pc[t] = "flush" /\ Works
      /\ heap' = q.list /\ next' = q.next /\ free' = [free EXCEPT ![t] = Empty]
      /\ pc' = [pc EXCEPT ![t] = "idle"]
      /\ UNCHANGED <<conf, wait, ml, known, hlock, total, made, out, reg, todo, clash>>
    BY DEF TlsInv, Flush, Flushed, Goto, Stages, CacheBounded, Cache
<1>2. /\ next \in Links /\ heap \in Lists /\ free[t] \in Lists
      /\ conf.pop \in Nat \ {0} /\ conf.push \in Nat \ {0} /\ Null \notin Node
    BY <1>1, Parts, Bounds
<1>3. /\ ph \in Places /\ ListAt(ph) = heap /\ ListAt(ph)' = heap'
      /\ pf \in Places /\ ListAt(pf) = free[t] /\ ListAt(pf)' = free'[t] /\ ph # pf
    BY PlaceLists
<1>4. /\ h \in Seq(Node) /\ Holds(heap, next, h) /\ At(ph) = Range(h)
      /\ f \in Seq(Node) /\ Holds(free[t], next, f) /\ At(pf) = Range(f)
      /\ Range(h) \subseteq made \ out /\ Range(f) \subseteq made \ out
    BY <1>1, <1>3, Here
<1>5. Range(h) \cap Range(f) = {}
    BY <1>1, <1>3, <1>4 DEF BlockOnce
<1> HIDE DEF f, h
<1>6. IsJoined(q, next, heap, h, free[t], f, Empty, <<>>)
    <2>1. /\ Range(<<>>) \cap Range(f) = {}
          /\ Empty \in Lists /\ <<>> \in Seq(Node) /\ Holds(Empty, next, <<>>)
        BY EmptyAt
    <2> QED
        BY <1>2, <1>4, <1>5, <2>1, JoinLists
<1> HIDE DEF q
<1>7. /\ q.list \in Lists /\ q.next \in Links
      /\ \A n \in Node : n \notin Range(f) => q.next[n] = next[n]
    BY <1>6 DEF IsJoined
<1>8. PICK g \in Seq(Node) : Holds(q.list, q.next, g) /\ Range(g) = Range(f) \cup Range(h)
    BY <1>6 DEF IsJoined
<1>9. /\ free'[t] = Empty /\ pc'[t] = "idle"
      /\ \A u \in Thread \ {t} : free'[u] = free[u] /\ pc'[u] = pc[u]
    BY <1>1 DEF TypeOK
<1>10. \A r \in Places : r # ph /\ r # pf => ListAt(r)' = ListAt(r)
    <2>1. \A r \in Places : r \notin {ph, pf} => ListAt(r)' = ListAt(r)
        BY <1>1, <1>9, ListsStay
    <2> QED
        BY <2>1
<1>11. /\ BlockOnce' /\ \A r \in Places : r # ph /\ r # pf => At(r)' = At(r)
    <2> DEFINE b == <<>>
    <2>1. b \in Seq(Node) /\ Range(b) = {} /\ Holds(Empty, next', b) /\ Empty \in Lists
        BY EmptyAt
    <2> HIDE DEF b
    <2>2. \A n \in (made \ out) \ (At(ph) \cup At(pf)) :
              next'[n] = next[n] /\ n \notin Range(g) \cup Range(b)
        <3> TAKE n \in (made \ out) \ (At(ph) \cup At(pf))
        <3>1. n \in Node /\ n \notin Range(f) /\ n \notin Range(h)
            BY <1>1, <1>4 DEF TypeOK
        <3> QED
            BY <1>1, <1>7, <1>8, <2>1, <3>1
    <2>3. made' \ out' = ((made \ out) \ (At(ph) \cup At(pf))) \cup Range(g) \cup Range(b)
        BY <1>1, <1>4, <1>8, <2>1
    <2>4. /\ next' \in Links /\ ListAt(ph)' \in Lists /\ Holds(ListAt(ph)', next', g)
          /\ ListAt(pf)' \in Lists /\ Holds(ListAt(pf)', next', b)
          /\ Range(g) \cap Range(b) = {}
        BY <1>1, <1>3, <1>7, <1>8, <1>9, <2>1
    <2> HIDE DEF ph, pf
    <2> QED
        BY <1>1, <1>3, <1>10, <2>1, <2>2, <2>3, <2>4, Moved
<1>12. TypeOK'
    <2>1. /\ heap' \in Lists /\ free' \in [Thread -> Lists]
          /\ next' \in [Node -> Node \cup {Null}]
        BY <1>1, <1>7, EmptyAt DEF TypeOK, Links
    <2>2. pc' \in [Thread -> PC]
        BY <1>1 DEF TypeOK, PC
    <2> QED
        BY <1>1, <2>1, <2>2 DEF TypeOK, Works
<1>13. Stage(t)' /\ Cache(t)'
    <2>1. /\ wait'[t].cnt < conf.pop /\ free'[t].cnt = 0 /\ ml'[t].cnt = 0
          /\ t \in known' /\ conf' = conf
        BY <1>1, <1>9, EmptyAt DEF Stage, Cache, Reporting
    <2> QED
        BY <1>2, <1>9, <2>1 DEF Stage, Cache
<1>14. Counted'
    <2>1. \A u \in Thread : pc[u] = "write" => At(<<"ml", u>>)' = At(<<"ml", u>>)
        BY <1>11, PlaceLists
    <2> QED
        BY <1>1, <1>9, <2>1, SameCount
<1>15. pc'[t] \notin Reporting
    BY <1>9 DEF Reporting
<1> QED
    BY <1>1, <1>9, <1>11, <1>12, <1>13, <1>14, <1>15, WorkStep

----------------------------------------------------------------------------
\* A step of state() leaves the blocks alone.
LEMMA ReportStep ==
    ASSUME TlsInv, NEW t \in Thread, UNCHANGED blocks, UNCHANGED <<conf, total, clash>>,
           pc[t] \in {"idle"} \cup Reporting, pc'[t] \in {"idle"} \cup Reporting,
           \A u \in Thread \ {t} : pc'[u] = pc[u]
    PROVE  /\ BlockOnce' /\ CacheBounded' /\ Stages' /\ Counted' /\ out' \subseteq made'
           /\ Quiet' <=> Quiet
           /\ \A p : At(p)' = At(p)
<1>1. UNCHANGED <<next, heap, wait, free, ml, known, made, out>>
    BY DEF blocks
<1>2. BlockOnce' /\ \A p : At(p)' = At(p)
    BY ListsKept DEF TlsInv
<1>3. \A u \in Thread : Stage(u)' /\ Cache(u)'
    <2> TAKE u \in Thread
    <2>1. Stage(u) /\ Cache(u)
        BY DEF TlsInv, Stages, CacheBounded, Cache
    <2>2. CASE u = t
        <3>1. Stage(t)'
            BY <1>1, <2>1, <2>2 DEF Stage, Reporting
        <3>2. Cache(t)'
            BY <1>1, <2>1, <2>2 DEF Cache, Reporting
        <3> QED
            BY <2>2, <3>1, <3>2
    <2>3. CASE u # t
        BY <1>1, <2>1, <2>3, Elsewhere
    <2> QED
        BY <2>2, <2>3
<1>4. Stages' /\ CacheBounded'
    BY <1>3 DEF Stages, CacheBounded, Cache
<1>5. Counted'
    <2>1. \A u \in Thread : (pc'[u] = "write") <=> (pc[u] = "write")
        BY DEF Reporting
    <2> QED
        BY <1>1, <1>2, <2>1, SameCount DEF TlsInv
<1>6. Quiet' <=> Quiet
    BY DEF Quiet
<1> QED
    BY <1>1, <1>2, <1>4, <1>5, <1>6 DEF TlsInv

LEMMA InSeen ==
    ASSUME NEW t \in Thread
    PROVE  /\ \A n : n \in Seen(t) <=>
                  /\ pc[t] # "sheap"
                  /\ \/ n \in At(<<"heap", Null>>)
                     \/ pc[t] # "slock" /\ \E u \in known \ todo[t] : n \in Cached(u)
           /\ \A n : n \in Seen(t)' <=>
                  /\ pc'[t] # "sheap"
                  /\ \/ n \in At(<<"heap", Null>>)'
                     \/ pc'[t] # "slock" /\ \E u \in known' \ todo'[t] : n \in Cached(u)'
    BY DEF Seen

\* A report of another thread.
LEMMA OtherReport ==
    ASSUME NEW u \in Thread, Reported(u), UNCHANGED blocks, UNCHANGED clash,
           Quiet' <=> Quiet, \A p : At(p)' = At(p),
           pc'[u] = pc[u], todo'[u] = todo[u], calm'[u] = calm[u], reg'[u] = reg[u]
    PROVE  Reported(u)'
<1>1. UNCHANGED <<known, made>>
    BY DEF blocks
<1>2. \A v : Cached(v)' = Cached(v)
    BY DEF Cached
<1>3. \A n : n \in Seen(u)' <=> n \in Seen(u)
    BY <1>1, <1>2, InSeen
<1>4. made' \ Seen(u)' = made \ Seen(u)
    BY <1>1, <1>3
<1> QED
    BY <1>1, <1>4 DEF Reported

\* The steps of state() are alike but for the report itself.
LEMMA ReportKeeps ==
    ASSUME TlsInv, NEW t \in Thread, UNCHANGED blocks, UNCHANGED <<conf, total, clash>>,
           pc[t] \in {"idle"} \cup Reporting, pc'[t] \in {"idle"} \cup Reporting,
           \A u \in Thread \ {t} : /\ pc'[u] = pc[u] /\ todo'[u] = todo[u]
                                   /\ calm'[u] = calm[u] /\ reg'[u] = reg[u],
           TypeOK', Reported(t)'
    PROVE  TlsInv'
<1>1. /\ BlockOnce' /\ CacheBounded' /\ Stages' /\ Counted' /\ out' \subseteq made'
      /\ Quiet' <=> Quiet
      /\ \A p : At(p)' = At(p)
    BY ReportStep
<1>2. \A u \in Thread : Reported(u)'
    <2> TAKE u \in Thread
    <2>1. CASE u = t
        BY <2>1
    <2>2. CASE u # t
        <3>1. Reported(u)
            BY DEF TlsInv, Reports
        <3> QED
            BY <1>1, <2>2, <3>1, OtherReport
    <2> QED
        BY <2>1, <2>2
<1>3. Reports'
    BY <1>2 DEF Reports
<1> QED
    BY <1>1, <1>3 DEF TlsInv

\* The lists that a report subtracts are disjoint, so that nothing underflows.
LEMMA Subtract ==
    ASSUME TypeOK, NEW S, NEW D, D \subseteq made \ S
    PROVE  Less(Cardinality(made \ S), Cardinality(D)) = Cardinality(made \ (S \cup D))
<1> DEFINE A == made \ S
           r == Cardinality(A)
           c == Cardinality(D)
<1>1. /\ Wrap \in Nat /\ IsFiniteSet(Node) /\ Cardinality(Node) < Wrap
      /\ Cardinality(Node) \in Nat /\ A \subseteq Node /\ D \subseteq Node
    BY Bounds DEF TypeOK
<1>2. /\ IsFiniteSet(A) /\ IsFiniteSet(D) /\ Cardinality(A) <= Cardinality(Node)
      /\ Cardinality(A) \in Nat /\ Cardinality(D) \in Nat
    BY <1>1, FS_Subset, FS_CardinalityType
<1>3. Cardinality(A \ D) = Cardinality(A) - Cardinality(A \cap D)
    BY <1>2, FS_Difference
<1>4. A \cap D = D /\ made \ (S \cup D) = A \ D
    OBVIOUS
<1>5. Cardinality(D) <= Cardinality(A)
    BY <1>2, FS_Subset
<1> HIDE DEF A
<1>6. Cardinality(made \ (S \cup D)) = r - c
    BY <1>3, <1>4 DEF A
<1>7. r \in Nat /\ c \in Nat /\ c <= r /\ r < Wrap
    BY <1>1, <1>2, <1>5 DEF A
<1> HIDE DEF r, c
<1>8. Less(r, c) = r - c
    BY <1>1, <1>7 DEF Less
<1> QED
    BY <1>6, <1>8 DEF A, r, c

\* The counter that state() reduces stays an uint32_t.
LEMMA LessType == \A a, b \in Nat : Less(a, b) \in 0..(Wrap - 1)
    BY Bounds DEF Less

LEMMA StateKeeps == ASSUME TlsInv, NEW t \in Thread, State(t) PROVE TlsInv'
<1>1. /\ TypeOK /\ Counted /\ pc[t] = "idle"
      /\ reg' = [reg EXCEPT ![t] = total]
      /\ calm' = [calm EXCEPT ![t] = Quiet]
      /\ pc' = [pc EXCEPT ![t] = "sheap"]
      /\ UNCHANGED blocks /\ UNCHANGED <<conf, hlock, total, todo, clash>>
    BY DEF TlsInv, State, Goto, Quiet
<1>2. UNCHANGED <<next, heap, wait, free, ml, known, made, out>>
    BY <1>1 DEF blocks
<1>3. /\ reg'[t] = total /\ calm'[t] = Quiet /\ pc'[t] = "sheap"
      /\ \A u \in Thread \ {t} : reg'[u] = reg[u] /\ calm'[u] = calm[u] /\ pc'[u] = pc[u]
    BY <1>1 DEF TypeOK
<1>4. TypeOK'
    <2>1. reg' \in [Thread -> 0..(Wrap - 1)] /\ pc' \in [Thread -> PC]
        BY <1>1 DEF TypeOK, PC, Reporting
    <2>2. calm' \in [Thread -> BOOLEAN]
        <3>1. Quiet \in BOOLEAN
            BY DEF Quiet
        <3> QED
            BY <1>1, <3>1 DEF TypeOK
    <2> QED
        BY <1>1, <1>2, <2>1, <2>2 DEF TypeOK
<1>5. Reported(t)'
    <2>1. ASSUME calm'[t] PROVE Quiet' /\ (~clash => total = Cardinality(made \ Seen(t)'))
        <3>1. Quiet
            BY <1>3, <2>1
        <3>2. \A n : n \notin New
            BY <3>1, InNew DEF Quiet, Reporting
        <3>3. \A n : n \notin Seen(t)'
            BY <1>3, InSeen
        <3>4. made \ New = made \ Seen(t)'
            BY <3>2, <3>3
        <3>5. Quiet'
            BY <1>3, <3>1 DEF Quiet, Reporting
        <3> QED
            BY <1>1, <3>4, <3>5 DEF Counted
    <2> QED
        BY <1>1, <1>2, <1>3, <2>1 DEF Reported, Reporting
<1> QED
    BY <1>1, <1>3, <1>4, <1>5, ReportKeeps DEF Reporting

LEMMA StateHeapKeeps == ASSUME TlsInv, NEW t \in Thread, StateHeap(t) PROVE TlsInv'
<1> DEFINE ph == <<"heap", Null>>
<1>1. /\ TypeOK /\ BlockOnce /\ pc[t] = "sheap"
      /\ reg' = [reg EXCEPT ![t] = Less(reg[t], heap.cnt)]
      /\ pc' = [pc EXCEPT ![t] = "slock"]
      /\ UNCHANGED blocks /\ UNCHANGED <<conf, hlock, total, todo, clash, calm>>
    BY DEF TlsInv, StateHeap, Goto
<1>2. UNCHANGED <<next, heap, wait, free, ml, known, made, out>>
    BY <1>1 DEF blocks
<1>3. /\ reg'[t] = Less(reg[t], heap.cnt) /\ pc'[t] = "slock"
      /\ \A u \in Thread \ {t} : reg'[u] = reg[u] /\ pc'[u] = pc[u]
    BY <1>1 DEF TypeOK
<1>4. TypeOK'
    <2>1. reg[t] \in Nat /\ heap.cnt \in Nat
        BY <1>1, Bounds, Parts DEF TypeOK
    <2>2. reg' \in [Thread -> 0..(Wrap - 1)]
        BY <1>1, <2>1, LessType DEF TypeOK
    <2>3. pc' \in [Thread -> PC]
        BY <1>1 DEF TypeOK, PC, Reporting
    <2> QED
        BY <1>1, <1>2, <2>2, <2>3 DEF TypeOK
<1>5. /\ Quiet' <=> Quiet
      /\ \A p : At(p)' = At(p)
    BY <1>1, <1>3, ReportStep DEF Reporting
<1>6. Reported(t)'
    <2>1. ASSUME calm[t], ~clash PROVE reg'[t] = Cardinality(made' \ Seen(t)')
        <3>1. reg[t] = Cardinality(made \ Seen(t))
            BY <2>1 DEF TlsInv, Reports, Reported
        <3>2. ph \in Places /\ ListAt(ph) = heap
            BY PlaceLists
        <3>3. Cardinality(At(ph)) = heap.cnt /\ At(ph) \subseteq made
            BY <1>1, <3>2, CountAt, Here
        <3>4. /\ \A n : n \notin Seen(t)
              /\ \A n : n \in Seen(t)' <=> n \in At(ph)
            BY <1>1, <1>3, <1>5, InSeen
        <3>5. At(ph) \subseteq made \ Seen(t) /\ made' \ Seen(t)' = made \ (Seen(t) \cup At(ph))
            BY <1>2, <3>3, <3>4
        <3> HIDE DEF ph
        <3> QED
            <4>1. Less(Cardinality(made \ Seen(t)), Cardinality(At(ph)))
                  = Cardinality(made \ (Seen(t) \cup At(ph)))
                BY <1>1, <3>5, Subtract
            <4> QED
                BY <1>3, <3>1, <3>3, <3>5, <4>1
    <2> QED
        BY <1>1, <1>3, <1>5, <2>1 DEF Reported, Reporting, TlsInv, Reports
<1> QED
    BY <1>1, <1>3, <1>4, <1>6, ReportKeeps DEF Reporting

LEMMA StateLockKeeps == ASSUME TlsInv, NEW t \in Thread, StateLock(t) PROVE TlsInv'
<1>1. /\ TypeOK /\ pc[t] = "slock"
      /\ hlock' = t /\ todo' = [todo EXCEPT ![t] = known]
      /\ pc' = [pc EXCEPT ![t] = "sthread"]
      /\ UNCHANGED blocks /\ UNCHANGED <<conf, total, reg, clash, calm>>
    BY DEF TlsInv, StateLock, Goto
<1>2. UNCHANGED <<next, heap, wait, free, ml, known, made, out>>
    BY <1>1 DEF blocks
<1>3. /\ todo'[t] = known /\ pc'[t] = "sthread"
      /\ \A u \in Thread \ {t} : todo'[u] = todo[u] /\ pc'[u] = pc[u]
    BY <1>1 DEF TypeOK
<1>4. TypeOK'
    <2>1. /\ todo' \in [Thread -> SUBSET Thread] /\ hlock' \in Thread \cup {Null}
          /\ pc' \in [Thread -> PC]
        BY <1>1 DEF TypeOK, PC, Reporting
    <2> QED
        BY <1>1, <1>2, <2>1 DEF TypeOK
<1>5. /\ Quiet' <=> Quiet
      /\ \A p : At(p)' = At(p)
    BY <1>1, <1>3, ReportStep DEF Reporting
<1>6. Reported(t)'
    <2>1. \A n : n \in Seen(t)' <=> n \in Seen(t)
        BY <1>1, <1>2, <1>3, <1>5, InSeen
    <2>2. made' \ Seen(t)' = made \ Seen(t)
        BY <1>2, <2>1
    <2>3. Reported(t)
        BY DEF TlsInv, Reports
    <2> QED
        BY <1>1, <1>2, <1>3, <1>5, <2>2, <2>3 DEF Reported, Reporting
<1> QED
    BY <1>1, <1>3, <1>4, <1>6, ReportKeeps DEF Reporting

LEMMA StateThreadKeeps ==
    ASSUME TlsInv, NEW t \in Thread, NEW u \in Thread, StateThread(t, u) PROVE TlsInv'
<1> DEFINE D == Cached(u)
<1>1. /\ TypeOK /\ BlockOnce /\ pc[t] = "sthread" /\ u \in todo[t]
      /\ reg' = [reg EXCEPT ![t] = Less(reg[t], wait[u].cnt + free[u].cnt)]
      /\ todo' = [todo EXCEPT ![t] = todo[t] \ {u}]
      /\ UNCHANGED blocks /\ UNCHANGED <<conf, hlock, total, pc, clash, calm>>
    BY DEF TlsInv, StateThread, CachedBy
<1>2. UNCHANGED <<next, heap, wait, free, ml, known, made, out>>
    BY <1>1 DEF blocks
<1>3. /\ todo'[t] = todo[t] \ {u} /\ reg'[t] = Less(reg[t], wait[u].cnt + free[u].cnt)
      /\ \A v \in Thread \ {t} : todo'[v] = todo[v] /\ reg'[v] = reg[v]
    BY <1>1 DEF TypeOK
<1>4. wait[u].cnt \in Nat /\ free[u].cnt \in Nat
    BY <1>1, Parts
<1>5. TypeOK'
    <2>1. reg[t] \in Nat /\ wait[u].cnt + free[u].cnt \in Nat
        BY <1>1, <1>4, Bounds DEF TypeOK
    <2>2. reg' \in [Thread -> 0..(Wrap - 1)]
        BY <1>1, <2>1, LessType DEF TypeOK
    <2>3. todo' \in [Thread -> SUBSET Thread]
        BY <1>1 DEF TypeOK
    <2> QED
        BY <1>1, <1>2, <2>2, <2>3 DEF TypeOK
<1>6. /\ Quiet' <=> Quiet
      /\ \A p : At(p)' = At(p)
    BY <1>1, ReportStep DEF Reporting
<1>7. Reported(t) /\ todo[t] \subseteq known /\ u \in known
    BY <1>1 DEF TlsInv, Reports, Reported
<1>8. Reported(t)'
    <2>1. ASSUME calm[t], ~clash PROVE reg'[t] = Cardinality(made' \ Seen(t)')
        <3>1. reg[t] = Cardinality(made \ Seen(t))
            BY <1>7, <2>1 DEF Reported
        <3>2. /\ <<"wait", u>> \in Places /\ ListAt(<<"wait", u>>) = wait[u]
              /\ <<"free", u>> \in Places /\ ListAt(<<"free", u>>) = free[u]
              /\ <<"heap", Null>> \in Places
            BY PlaceLists
        <3>3. /\ IsFiniteSet(At(<<"wait", u>>)) /\ Cardinality(At(<<"wait", u>>)) = wait[u].cnt
              /\ IsFiniteSet(At(<<"free", u>>)) /\ Cardinality(At(<<"free", u>>)) = free[u].cnt
              /\ At(<<"wait", u>>) \subseteq made /\ At(<<"free", u>>) \subseteq made
            BY <1>1, <3>2, CountAt, Here
        <3>4. At(<<"wait", u>>) \cap At(<<"free", u>>) = {}
            BY <1>1, <3>2 DEF BlockOnce
        <3>5. Cardinality(D) = wait[u].cnt + free[u].cnt
            <4>1. Cardinality(At(<<"wait", u>>) \cap At(<<"free", u>>)) = 0
                BY <3>4, FS_EmptySet
            <4>2. Cardinality(At(<<"wait", u>>) \cup At(<<"free", u>>))
                  = wait[u].cnt + free[u].cnt - 0
                BY <3>3, <4>1, FS_Union
            <4> QED
                BY <1>4, <4>2 DEF Cached
        <3>6. ASSUME NEW n \in D PROVE n \in made /\ n \notin Seen(t)
            <4>1. PICK p \in {<<"wait", u>>, <<"free", u>>} : n \in At(p)
                BY <3>6 DEF Cached
            <4>2. \A r \in Places : r # p => n \notin At(r)
                BY <1>1, <3>2, <4>1 DEF BlockOnce
            <4>3. n \notin At(<<"heap", Null>>)
                BY <3>2, <4>1, <4>2
            <4>4. ASSUME NEW v \in known \ todo[t] PROVE n \notin Cached(v)
                <5>1. v \in Thread /\ v # u
                    BY <1>1 DEF TypeOK
                <5>2. <<"wait", v>> \in Places /\ <<"free", v>> \in Places
                    BY <5>1, PlaceLists
                <5>3. <<"wait", v>> # p /\ <<"free", v>> # p
                    BY <4>1, <5>1
                <5> QED
                    BY <4>2, <5>2, <5>3 DEF Cached
            <4> QED
                BY <3>3, <4>1, <4>3, <4>4, InSeen
        <3>7. \A v : Cached(v)' = Cached(v)
            BY <1>6 DEF Cached
        <3>8. known' \ todo'[t] = (known \ todo[t]) \cup {u}
            BY <1>2, <1>3, <1>7
        <3>9. \A n : n \in Seen(t)' <=> n \in Seen(t) \/ n \in D
            BY <1>1, <1>6, <3>7, <3>8, InSeen
        <3>10. D \subseteq made \ Seen(t) /\ made' \ Seen(t)' = made \ (Seen(t) \cup D)
            BY <1>2, <3>6, <3>9
        <3> HIDE DEF D
        <3>11. Less(Cardinality(made \ Seen(t)), Cardinality(D))
               = Cardinality(made \ (Seen(t) \cup D))
            BY <1>1, <3>10, Subtract
        <3> QED
            BY <1>3, <3>1, <3>5, <3>10, <3>11
    <2> QED
        BY <1>1, <1>2, <1>3, <1>6, <1>7, <2>1 DEF Reported, Reporting
<1> QED
    BY <1>1, <1>3, <1>5, <1>8, ReportKeeps DEF Reporting

LEMMA StateEndKeeps == ASSUME TlsInv, NEW t \in Thread, StateEnd(t) PROVE TlsInv'
<1>1. /\ TypeOK /\ pc[t] = "sthread" /\ hlock' = Null
      /\ reg' = [reg EXCEPT ![t] = 0] /\ calm' = [calm EXCEPT ![t] = FALSE]
      /\ pc' = [pc EXCEPT ![t] = "idle"]
      /\ UNCHANGED blocks /\ UNCHANGED <<conf, total, todo, clash>>
    BY DEF TlsInv, StateEnd, Goto
<1>2. UNCHANGED <<next, heap, wait, free, ml, known, made, out>>
    BY <1>1 DEF blocks
<1>3. /\ calm'[t] = FALSE /\ pc'[t] = "idle"
      /\ \A u \in Thread \ {t} : reg'[u] = reg[u] /\ calm'[u] = calm[u] /\ pc'[u] = pc[u]
    BY <1>1 DEF TypeOK
<1>4. TypeOK'
    <2>1. 0 \in 0..(Wrap - 1)
        BY Bounds
    <2>2. /\ reg' \in [Thread -> 0..(Wrap - 1)] /\ calm' \in [Thread -> BOOLEAN]
          /\ pc' \in [Thread -> PC]
        BY <1>1, <2>1 DEF TypeOK, PC, Reporting
    <2> QED
        BY <1>1, <1>2, <2>2 DEF TypeOK
<1>5. Reported(t)'
    BY <1>3 DEF Reported
<1> QED
    BY <1>1, <1>3, <1>4, <1>5, ReportKeeps DEF Reporting

LEMMA TlsInit == Init => TlsInv
<1> SUFFICES ASSUME Init PROVE TlsInv
    OBVIOUS
<1> DEFINE ph == <<"heap", Null>>
           none == [m \in Node |-> Null]
<1>1. /\ conf \in Confs /\ total = conf.cnt
      /\ wait = [t \in Thread |-> Empty] /\ free = [t \in Thread |-> Empty]
      /\ ml = [t \in Thread |-> Empty] /\ known = {} /\ hlock = Null /\ out = {}
      /\ pc = [t \in Thread |-> "idle"] /\ reg = [t \in Thread |-> 0]
      /\ todo = [t \in Thread |-> {}] /\ clash = FALSE
      /\ calm = [t \in Thread |-> FALSE]
    BY DEF Init
<1>2. PICK f \in Orders(conf.cnt, Node) :
          /\ made = Range(f) /\ heap = Chain(f, conf.cnt)
          /\ next = Linked(none, f, conf.cnt)
    BY DEF Init
<1>3. /\ conf.cnt \in Nat \ {0} /\ conf.pop \in Nat \ {0} /\ conf.push \in Nat \ {0}
      /\ Wrap \in Nat /\ IsFiniteSet(Node) /\ Cardinality(Node) < Wrap
      /\ Cardinality(Node) \in Nat /\ Null \notin Node /\ conf.cnt <= Cardinality(Node)
    BY <1>1, Bounds
<1>4. none \in Links
    BY DEF Links
<1> HIDE DEF none
<1>5. /\ heap \in Lists /\ next \in Links
      /\ \E seq \in Seq(Node) : /\ Len(seq) = conf.cnt /\ Holds(heap, next, seq)
                                /\ Range(seq) = Range(f)
    <2>1. conf.cnt \in Nat /\ Node \in SUBSET Node
        BY <1>3
    <2> QED
        BY <1>2, <1>4, <2>1, ChainHolds
<1>6. PICK s \in Seq(Node) : Holds(heap, next, s) /\ Range(s) = made
    BY <1>2, <1>5
<1>7. made \subseteq Node /\ Cardinality(made) = conf.cnt
    <2>1. f \in [1..conf.cnt -> Node] /\ \A i, j \in 1..conf.cnt : f[i] = f[j] => i = j
        BY DEF Orders
    <2>2. conf.cnt \in Nat
        BY <1>3
    <2>3. Cardinality(Range(f)) = conf.cnt
        BY <2>1, <2>2, InjCard
    <2> QED
        BY <1>2, <2>1, <2>3 DEF Range
<1>8. TypeOK
    <2>1. 0 \in 0..(Wrap - 1) /\ conf.cnt \in 0..(Wrap - 1)
        BY <1>3
    <2>2. /\ wait \in [Thread -> Lists] /\ free \in [Thread -> Lists]
          /\ ml \in [Thread -> Lists]
        BY <1>1, EmptyAt
    <2>3. /\ pc \in [Thread -> PC] /\ reg \in [Thread -> 0..(Wrap - 1)]
          /\ todo \in [Thread -> SUBSET Thread] /\ calm \in [Thread -> BOOLEAN]
        BY <1>1, <2>1 DEF PC
    <2> QED
        BY <1>1, <1>5, <1>7, <2>1, <2>2, <2>3 DEF TypeOK, Links
<1>9. \A p \in Places : p = ph \/ ListAt(p) = Empty
    BY <1>1, PlaceLists
<1>10. ph \in Places /\ ListAt(ph) = heap
    BY PlaceLists
<1>11. BlockOnce /\ \A p \in Places : p # ph => At(p) = {}
    <2> DEFINE b == <<>>
    <2>1. b \in Seq(Node) /\ Range(b) = {} /\ Holds(Empty, next, b) /\ Empty \in Lists
        BY EmptyAt
    <2> HIDE DEF b
    <2>2. Nodes(heap, next) = s /\ Nodes(Empty, next) = b
        BY <1>3, <1>5, <1>6, <2>1, NodesIs
    <2>3. \A p \in Places : IF p = ph THEN At(p) = made ELSE At(p) = {}
        BY <1>6, <1>9, <1>10, <2>1, <2>2 DEF At
    <2>4. ListsSound
        <3> SUFFICES ASSUME NEW p \in Places
                     PROVE  Holds(ListAt(p), next, Nodes(ListAt(p), next))
            BY DEF ListsSound
        <3> QED
            BY <1>6, <1>9, <1>10, <2>1, <2>2
    <2>5. \A p, q \in Places : p # q => At(p) \cap At(q) = {}
        BY <2>3
    <2>6. UNION {At(p) : p \in Places} = made \ out
        BY <1>1, <1>10, <2>3
    <2> QED
        BY <2>3, <2>4, <2>5, <2>6 DEF BlockOnce
<1>12. CacheBounded
    BY <1>1, <1>3, EmptyAt DEF CacheBounded
<1>13. Stages
    BY <1>1, EmptyAt DEF Stages, Stage
<1>14. Counted
    <2>1. \A n : n \notin New
        BY <1>1, InNew
    <2>2. made \ New = made
        BY <2>1
    <2> QED
        BY <1>1, <1>7, <2>2 DEF Counted
<1>15. Reports
    BY <1>1 DEF Reports, Reported
<1> QED
    BY <1>1, <1>8, <1>11, <1>12, <1>13, <1>14, <1>15 DEF TlsInv

LEMMA TlsNext == TlsInv /\ [Next]_vars => TlsInv'
<1> SUFFICES ASSUME TlsInv, [Next]_vars PROVE TlsInv'
    OBVIOUS
<1>1. CASE Next
    <2>1. PICK t \in Thread :
              \/ Get(t) \/ GetHeap(t) \/ NewRead(t) \/ NewWrite(t) \/ Give(t) \/ Keep(t)
              \/ \E m \in Node : Put(t, m)
              \/ Flush(t)
              \/ State(t) \/ StateHeap(t) \/ StateLock(t)
              \/ \E u \in Thread : StateThread(t, u)
              \/ StateEnd(t)
        BY <1>1 DEF Next
    <2>2. CASE Get(t) \/ GetHeap(t) \/ NewRead(t) \/ NewWrite(t)
        BY <2>2, GetKeeps, GetHeapKeeps, NewReadKeeps, NewWriteKeeps
    <2>3. CASE Give(t) \/ Keep(t) \/ (\E m \in Node : Put(t, m)) \/ Flush(t)
        BY <2>3, GiveKeeps, KeepKeeps, PutKeeps, FlushKeeps
    <2>4. CASE State(t) \/ StateHeap(t) \/ StateLock(t)
        BY <2>4, StateKeeps, StateHeapKeeps, StateLockKeeps
    <2>5. CASE (\E u \in Thread : StateThread(t, u)) \/ StateEnd(t)
        BY <2>5, StateThreadKeeps, StateEndKeeps
    <2> QED
        BY <2>1, <2>2, <2>3, <2>4, <2>5
<1>2. CASE UNCHANGED vars
    <2>1. /\ UNCHANGED <<next, heap, wait, free, ml, known, made, out>>
          /\ UNCHANGED <<conf, hlock, total, pc, reg, todo, clash, calm>> /\ UNCHANGED blocks
        BY <1>2 DEF vars, blocks
    <2>2. BlockOnce' /\ \A p : At(p)' = At(p)
        BY <2>1, ListsKept DEF TlsInv
    <2>3. TypeOK' /\ CacheBounded' /\ out' \subseteq made'
        BY <2>1 DEF TlsInv, TypeOK, CacheBounded
    <2>4. Stages'
        BY <2>1 DEF TlsInv, Stages, Stage
    <2>5. Counted'
        BY <2>1, <2>2, SameCount DEF TlsInv
    <2>6. Quiet' <=> Quiet
        BY <2>1 DEF Quiet
    <2>7. Reports'
        <3> SUFFICES ASSUME NEW t \in Thread PROVE Reported(t)'
            BY DEF Reports
        <3>1. Reported(t)
            BY DEF TlsInv, Reports
        <3> QED
            BY <2>1, <2>2, <2>6, <3>1, OtherReport
    <2> QED
        BY <2>2, <2>3, <2>4, <2>5, <2>7 DEF TlsInv
<1> QED
    BY <1>1, <1>2

\* The lists a quiet report has subtracted when it ends are all there are.
LEMMA TlsUse == TlsInv => UseExact
<1> SUFFICES ASSUME TlsInv, NEW t \in Thread,
                    pc[t] = "sthread", todo[t] = {}, calm[t], ~clash
             PROVE  reg[t] = Cardinality(out)
    BY DEF UseExact
<1>1. TypeOK /\ BlockOnce /\ out \subseteq made /\ \A u \in Thread : Stage(u)
    BY DEF TlsInv, Stages
<1>2. Quiet /\ reg[t] = Cardinality(made \ Seen(t))
    BY DEF TlsInv, Reports, Reported
<1>3. ASSUME NEW n \in Seen(t) PROVE n \notin out
    <2>1. \A p \in Places : At(p) \subseteq made \ out
        BY <1>1, Here
    <2>2. n \in At(<<"heap", Null>>) \/ \E u \in known : n \in Cached(u)
        BY <1>3, InSeen
    <2>3. known \subseteq Thread
        BY <1>1 DEF TypeOK
    <2> QED
        BY <2>1, <2>2, <2>3, PlaceLists DEF Cached
<1>4. ASSUME NEW n \in made, n \notin out PROVE n \in Seen(t)
    <2>1. PICK p \in Places : n \in At(p)
        BY <1>1, <1>4 DEF BlockOnce
    <2>2. CASE p = <<"heap", Null>>
        BY <2>1, <2>2, InSeen
    <2>3. ASSUME NEW u \in Thread, p \in {<<"wait", u>>, <<"free", u>>} PROVE n \in Seen(t)
        <3>1. u \in known
            <4> SUFFICES ASSUME u \notin known PROVE FALSE
                OBVIOUS
            <4>1. wait[u].cnt = 0 /\ free[u].cnt = 0
                BY <1>1 DEF Stage
            <4>2. ListAt(p).cnt = 0
                BY <2>3, <4>1, PlaceLists
            <4> QED
                BY <1>1, <2>1, <4>2, NoneAt
        <3>2. n \in Cached(u)
            BY <2>1, <2>3 DEF Cached
        <3> QED
            BY <3>1, <3>2, InSeen
    <2>4. ASSUME NEW u \in Thread, p = <<"ml", u>> PROVE FALSE
        <3>1. ml[u].cnt = 0
            BY <1>1, <1>2 DEF Stage, Quiet, Reporting
        <3>2. ListAt(p).cnt = 0
            BY <2>4, <3>1, PlaceLists
        <3> QED
            BY <1>1, <2>1, <3>2, NoneAt
    <2> QED
        BY <2>2, <2>3, <2>4, PlaceLists
<1>5. made \ Seen(t) = out
    BY <1>1, <1>3, <1>4
<1> QED
    BY <1>2, <1>5

\* Whatever get(), ret() and state() do on however many threads, with any sizes
\* of their batches: the invariant holds.
THEOREM TlsInvariant == Spec => []TlsInv
<1> QED
    BY TlsInit, TlsNext, PTL DEF Spec

\* The variables keep their types: total_ and a report's counter stay uint32_t.
THEOREM TlsTypes == Spec => []TypeOK
<1>1. TlsInv => TypeOK
    BY DEF TlsInv
<1> QED
    BY <1>1, TlsInvariant, PTL

\* Every block created is in one list or in use, and every list is intact, while
\* chains of blocks move between the threads and the heap.
THEOREM BlockOnceCorrect == Spec => []BlockOnce
<1>1. TlsInv => BlockOnce
    BY DEF TlsInv
<1> QED
    BY <1>1, TlsInvariant, PTL

\* wait_ stays below pop_cnt_, and free_ reaches push_cnt_ only on its way to the
\* heap.
THEOREM CacheBoundedCorrect == Spec => []CacheBounded
<1>1. TlsInv => CacheBounded
    BY DEF TlsInv
<1> QED
    BY <1>1, TlsInvariant, PTL

\* A report of state() that nobody disturbs is exact, with no underflow on the
\* way, unless two additions to total_ crossed before.
THEOREM UseExactCorrect == Spec => []UseExact
    BY TlsUse, TlsInvariant, PTL
----------------------------------------------------------------------------
\* total_ counts the blocks created, and the blocks out are among them.
MadeCounted == out \subseteq made /\ total = Cardinality(made)

\* What state() read is still so unless the class grew.
SeenExact == \A t \in Thread : pc[t] = "state" /\ ~grown[t] => seen[t] = total

\* The inductive invariant.
PoolInv == PoolTypeOK /\ FreeList /\ MadeCounted /\ SeenExact

----------------------------------------------------------------------------

LEMMA FreeListElim ==
    ASSUME PoolTypeOK, FreeList
    PROVE  \E seq \in Seq(Node) : /\ Holds(pool, next, seq)
                                  /\ Len(seq) = pool.cnt
                                  /\ Range(seq) = made \ out
<1>1. PICK seq \in [1..pool.cnt -> made \ out] :
          Holds(pool, next, seq) /\ Range(seq) = made \ out
    BY DEF FreeList
<1>2. pool.cnt \in Nat /\ made \ out \subseteq Node
    BY DEF PoolTypeOK, Lists
<1>3. seq \in Seq(Node) /\ Len(seq) = pool.cnt
    <2>1. seq \in [1..pool.cnt -> Node]
        BY <1>2
    <2> QED
        BY <1>2, <2>1
<1> QED
    BY <1>1, <1>3 DEF Range

LEMMA MadeFinite ==
    ASSUME PoolTypeOK
    PROVE  /\ IsFiniteSet(made) /\ IsFiniteSet(out)
           /\ Cardinality(made) \in Nat /\ Cardinality(out) \in Nat
           /\ Cardinality(made) <= Cardinality(Node) /\ Cardinality(Node) \in Nat
    BY MemAssumption, FS_Subset, FS_CardinalityType DEF PoolTypeOK

\* The list's count is the number of blocks made and not out.
LEMMA FreeCount ==
    ASSUME PoolInv
    PROVE  /\ pool.cnt = Cardinality(made) - Cardinality(out)
           /\ pool.cnt = Cardinality(made \ out)
<1>1. PICK seq \in Seq(Node) : /\ Holds(pool, next, seq) /\ Len(seq) = pool.cnt
                               /\ Range(seq) = made \ out
    BY FreeListElim DEF PoolInv
<1>2. seq \in [1..Len(seq) -> Node] /\ Len(seq) \in Nat
    OBVIOUS
<1>3. Cardinality(made \ out) = Len(seq)
    <2>1. Range(seq) = Range(seq)
        BY DEF Range
    <2>2. \A i, j \in 1..Len(seq) : seq[i] = seq[j] => i = j
        BY <1>1 DEF Holds
    <2> QED
        BY <1>1, <1>2, <2>1, <2>2, InjCard
<1>4. made \cap out = out
    BY DEF PoolInv, MadeCounted
<1> QED
    BY <1>1, <1>3, <1>4, MadeFinite, FS_Difference DEF PoolInv
----------------------------------------------------------------------------
LEMMA InitInv == ASSUME PoolInit PROVE PoolInv
<1>1. PICK f \in Orders(InitCnt, Node) :
          /\ made = Range(f)
          /\ pool = Chain(f, InitCnt)
          /\ next = Linked([m \in Node |-> Null], f, InitCnt)
    BY DEF PoolInit
<1>2. InitCnt \in Nat /\ [m \in Node |-> Null] \in Links
    BY MemAssumption, FS_CardinalityType DEF Links
<1>3. /\ pool \in Lists /\ next \in Links
      /\ \E seq \in Seq(Node) : Holds(pool, next, seq) /\ Range(seq) = made
    BY <1>1, <1>2, ChainHolds
<1>3a. PICK seq \in Seq(Node) : Holds(pool, next, seq) /\ Range(seq) = made
    BY <1>3
<1>4. Cardinality(made) = InitCnt /\ made \subseteq Node
    <2>1. f \in [1..InitCnt -> Node] /\ \A i, j \in 1..InitCnt : f[i] = f[j] => i = j
        BY DEF Orders
    <2>2. made \subseteq Node
        BY <1>1, <2>1 DEF Range
    <2> QED
        BY <1>1, <1>2, <2>1, <2>2, InjCard
<1>5. PoolTypeOK
    <2>1. total \in 0..(Wrap - 1)
        BY <1>2, MemAssumption, FS_CardinalityType DEF PoolInit
    <2> QED
        BY <1>3, <1>4, <2>1 DEF PoolInit, PoolTypeOK, Lists, Links, PoolPC
<1>6. FreeList
    <2>1. made \ out = made
        BY DEF PoolInit
    <2>2. seq \in [1..pool.cnt -> made \ out]
        BY <1>3a, <2>1, FreeListIntro
    <2> QED
        BY <1>3a, <2>1, <2>2 DEF FreeList
<1>7. MadeCounted /\ SeenExact
    BY <1>4 DEF PoolInit, MadeCounted, SeenExact
<1> QED
    BY <1>5, <1>6, <1>7 DEF PoolInv

LEMMA GetFirstInv == ASSUME PoolInv, NEW t \in Thread, GetFirst(t) PROVE PoolInv'
<1> USE DEF PoolInv
<1> DEFINE p == Pop(pool, next)
<1>0. PICK seq \in Seq(Node) : /\ Holds(pool, next, seq) /\ Len(seq) = pool.cnt
                               /\ Range(seq) = made \ out
    BY FreeListElim
<1>1. /\ pool \in Lists /\ next \in Links /\ pool.cnt \in Nat
      /\ pool' = p.list /\ next' = p.next
      /\ UNCHANGED <<total, made, seen, grown, use>>
    BY DEF GetFirst, PoolTypeOK, Lists, Links
<1>2. CASE pool.cnt = 0
    <2>1. p = [node |-> Null, list |-> pool, next |-> next]
        BY <1>2 DEF Pop
    <2>2. UNCHANGED <<pool, next, out>> /\ pc' = [pc EXCEPT ![t] = "grow"]
        BY <1>1, <2>1 DEF GetFirst, Goto
    <2> QED
        <3>1. PoolTypeOK'
            BY <1>1, <2>2 DEF PoolTypeOK, PoolPC
        <3>2. FreeList' /\ MadeCounted'
            BY <1>1, <2>2 DEF FreeList, MadeCounted
        <3>3. SeenExact'
            BY <1>1, <2>2 DEF SeenExact, PoolTypeOK
        <3> QED
            BY <3>1, <3>2, <3>3
<1>3. CASE pool.cnt > 0
    <2>1. /\ p.list \in Lists /\ p.next \in Links
          /\ p.node \in made \ out /\ p.node # Null
          /\ Tail(seq) \in Seq(Node) /\ Holds(p.list, p.next, Tail(seq))
          /\ Range(Tail(seq)) = (made \ out) \ {p.node}
        BY <1>0, <1>1, <1>3, PopFree, MemAssumption
    <2>2. out' = out \cup {p.node} /\ UNCHANGED pc
        BY <2>1 DEF GetFirst
    <2>3. PoolTypeOK'
        BY <1>1, <2>1, <2>2 DEF PoolTypeOK, Lists, Links
    <2>4. FreeList'
        <3>1. (made \ out)' = (made \ out) \ {p.node}
            BY <1>1, <2>2
        <3> HIDE DEF p
        <3>2. Holds(pool', next', Tail(seq)) /\ Range(Tail(seq)) = made' \ out'
            BY <1>1, <2>1, <3>1
        <3>3. Tail(seq) \in [1..pool'.cnt -> made' \ out']
            BY <2>1, <3>2, FreeListIntro
        <3> QED
            BY <3>2, <3>3 DEF FreeList
    <2>5. MadeCounted' /\ SeenExact'
        BY <1>1, <2>1, <2>2 DEF MadeCounted, SeenExact
    <2> QED
        BY <2>3, <2>4, <2>5
<1> QED
    BY <1>1, <1>2, <1>3

LEMMA RetInv ==
    ASSUME PoolInv, NEW t \in Thread, NEW m \in Node, Ret(t, m) PROVE PoolInv'
<1> USE DEF PoolInv
<1> DEFINE q == Push(pool, next, m)
<1>0. PICK seq \in Seq(Node) : /\ Holds(pool, next, seq) /\ Len(seq) = pool.cnt
                               /\ Range(seq) = made \ out
    BY FreeListElim
<1>1. /\ pool \in Lists /\ next \in Links
      /\ pool' = q.list /\ next' = q.next /\ out' = out \ {m} /\ m \in out
      /\ UNCHANGED <<total, made, pc, seen, grown, use>>
    BY DEF Ret, PoolTypeOK, Lists, Links
<1>2. \A i \in 1..Len(seq) : seq[i] # m
    BY <1>0, <1>1 DEF Range
<1>3. /\ q.list \in Lists /\ q.next \in Links
      /\ Holds(q.list, q.next, <<m>> \o seq)
    BY <1>0, <1>1, <1>2, PushHolds, MemAssumption
<1>4. <<m>> \o seq \in Seq(Node) /\ Range(<<m>> \o seq) = (made \ out) \cup {m}
    BY <1>0, ConsRange
<1>5. (made \ out)' = (made \ out) \cup {m}
    BY <1>1 DEF MadeCounted
<1> HIDE DEF q
<1>6. PoolTypeOK'
    BY <1>1, <1>3 DEF PoolTypeOK, Lists, Links
<1>7. FreeList'
    <2>1. /\ Holds(pool', next', <<m>> \o seq)
          /\ Range(<<m>> \o seq) = made' \ out'
        BY <1>1, <1>3, <1>4, <1>5
    <2>2. <<m>> \o seq \in [1..pool'.cnt -> made' \ out']
        BY <1>4, <2>1, FreeListIntro
    <2> QED
        BY <2>1, <2>2 DEF FreeList
<1>8. MadeCounted' /\ SeenExact'
    BY <1>1 DEF MadeCounted, SeenExact
<1> QED
    BY <1>6, <1>7, <1>8

\* A class that grows: the list was empty, so it is now the new chain.
LEMMA GrowInv ==
    ASSUME PoolInv, NEW t \in Thread, GetLocked(t), Grows PROVE PoolInv'
<1> USE DEF PoolInv
<1>1. /\ pc' = [pc EXCEPT ![t] = "idle"] /\ total' = (total + StepCnt) % Wrap
      /\ grown' = [u \in Thread |-> TRUE] /\ UNCHANGED <<seen, use>>
    BY DEF GetLocked, Goto, Grown
<1>2. PICK f \in Orders(StepCnt, Node \ made) :
          LET q == PushList(pool, Linked(next, f, StepCnt), Chain(f, StepCnt))
              p == Pop(q.list, q.next)
          IN  /\ made' = made \cup Range(f)
              /\ pool' = p.list
              /\ next' = p.next
              /\ out' = out \cup ({p.node} \ {Null})
    BY DEF GetLocked
<1> DEFINE nx == Linked(next, f, StepCnt)
           ch == Chain(f, StepCnt)
           new == Range(f)
<1>3. /\ pool \in Lists /\ next \in Links /\ pool.cnt = 0
      /\ StepCnt \in Nat /\ Wrap \in Nat /\ Cardinality(Node) < Wrap
    BY MemAssumption DEF PoolTypeOK, Lists, Links, Grows
<1>4. /\ ch \in Lists /\ nx \in Links
      /\ \E seq \in Seq(Node) : /\ Len(seq) = StepCnt /\ Holds(ch, nx, seq)
                                /\ Range(seq) = new
    <2>1. (Node \ made) \in SUBSET Node
        OBVIOUS
    <2> QED
        BY <1>3, <2>1, ChainHolds
<1>4a. PICK seq \in Seq(Node) : /\ Len(seq) = StepCnt /\ Holds(ch, nx, seq)
                               /\ Range(seq) = new
    BY <1>4
<1>5. /\ new \subseteq Node \ made /\ IsFiniteSet(new) /\ Cardinality(new) = StepCnt
    <2>1. /\ f \in [1..StepCnt -> Node \ made]
          /\ \A i, j \in 1..StepCnt : f[i] = f[j] => i = j
        BY DEF Orders
    <2>2. new \subseteq Node \ made
        BY <2>1 DEF Range
    <2> QED
        BY <1>3, <2>1, <2>2, InjCard
<1>6. /\ made \ out = {} /\ made = out
    BY <1>3, FreeCount, MadeFinite, FS_EmptySet, FS_Difference DEF MadeCounted
<1>7. /\ Cardinality(made') = Cardinality(made) + StepCnt
      /\ made' \subseteq Node /\ Cardinality(made') <= Cardinality(Node)
      /\ Cardinality(made') \in Nat
    <2>1. made' = made \cup new /\ made \cap new = {} /\ made' \subseteq Node
        BY <1>2, <1>5 DEF PoolTypeOK
    <2>2. Cardinality(made') = Cardinality(made) + StepCnt
        <3>1. /\ IsFiniteSet(made) /\ IsFiniteSet(new) /\ Cardinality(made \cap new) = 0
              /\ Cardinality(made) \in Nat
            BY <2>1, <1>5, MadeFinite, FS_EmptySet
        <3> HIDE DEF new
        <3>2. Cardinality(made \cup new)
              = Cardinality(made) + Cardinality(new) - Cardinality(made \cap new)
            BY <3>1, FS_Union
        <3> QED
            BY <1>3, <1>5, <2>1, <3>1, <3>2
    <2>3. Cardinality(made') <= Cardinality(Node)
        BY <2>1, MemAssumption, FS_Subset
    <2> QED
        BY <2>1, <2>2, <2>3, <1>3, MadeFinite
<1>8. total' = Cardinality(made')
    <2>1. total + StepCnt = Cardinality(made') /\ Cardinality(made') < Wrap
        BY <1>3, <1>7, MadeFinite DEF MadeCounted
    <2> QED
        BY <2>1, <1>1, <1>3, <1>7
<1>9. \A u \in Thread : grown'[u]
    BY <1>1
<1> DEFINE q == PushList(pool, nx, ch)
           p == Pop(q.list, q.next)
<1>10. q = [list |-> IF ch.cnt = 0 THEN pool ELSE ch, next |-> nx]
    BY <1>3 DEF PushList
<1>11. ch.cnt = StepCnt
    BY DEF Chain
<1>12. CASE StepCnt = 0
    <2>1. q.list = pool /\ q.next = nx /\ p.list = pool /\ p.next = nx /\ p.node = Null
        BY <1>3, <1>10, <1>11, <1>12 DEF Pop
    <2>2. new = {} /\ UNCHANGED <<pool, out, made>> /\ next' = nx
        <3>1. new = {}
            BY <1>5, <1>12, FS_EmptySet
        <3> QED
            BY <1>2, <2>1, <3>1
    <2>3. Holds(pool, nx, <<>>)
        BY <1>3, <2>1, FreeListElim DEF Holds
    <2>4. FreeList'
        <3>1. Range(<<>>) = {} /\ <<>> \in Seq(Node)
            BY DEF Range
        <3>2. (made \ out)' = {}
            BY <1>6, <2>2
        <3> HIDE DEF nx
        <3> QED
            <4>1. Holds(pool', next', <<>>) /\ Range(<<>>) = made' \ out'
                BY <2>2, <2>3, <3>1, <3>2
            <4>2. <<>> \in [1..pool'.cnt -> made' \ out']
                BY <3>1, <4>1, FreeListIntro
            <4> QED
                BY <4>1, <4>2 DEF FreeList
    <2>5. PoolTypeOK'
        BY <1>1, <1>3, <1>4, <1>7, <1>8, <2>2 DEF PoolTypeOK, PoolPC, Links, Lists
    <2>6. MadeCounted' /\ SeenExact'
        BY <1>8, <1>9, <2>2 DEF MadeCounted, SeenExact
    <2> QED
        BY <2>4, <2>5, <2>6
<1>13. CASE StepCnt # 0
    <2>1. q.list = ch /\ q.next = nx
        BY <1>10, <1>11, <1>13
    <2>2. /\ p.list \in Lists /\ p.next \in Links
          /\ p.node \in new /\ p.node # Null
          /\ Tail(seq) \in Seq(Node) /\ Holds(p.list, p.next, Tail(seq))
          /\ Range(Tail(seq)) = new \ {p.node}
        <3>1. ch.cnt > 0
            BY <1>3, <1>11, <1>13
        <3> HIDE DEF ch, nx, new, q
        <3> QED
            BY <1>4, <1>4a, <2>1, <3>1, PopFree, MemAssumption
    <2>3. /\ pool' = p.list /\ next' = p.next /\ made' = made \cup new
          /\ out' = out \cup {p.node}
        <3>1. out' = out \cup ({p.node} \ {Null})
            BY <1>2
        <3> QED
            BY <1>2, <2>2, <3>1
    <2>4. (made \ out)' = new \ {p.node}
        BY <1>5, <1>6, <2>2, <2>3
    <2> HIDE DEF p, q, ch, nx, new
    <2>5. FreeList'
        <3>1. Holds(pool', next', Tail(seq)) /\ Range(Tail(seq)) = made' \ out'
            BY <2>2, <2>3, <2>4
        <3>2. Tail(seq) \in [1..pool'.cnt -> made' \ out']
            BY <2>2, <3>1, FreeListIntro
        <3> QED
            BY <3>1, <3>2 DEF FreeList
    <2>6. PoolTypeOK'
        <3>1. out' \subseteq Node
            BY <1>5, <2>2, <2>3 DEF PoolTypeOK
        <3>2. total' \in 0..(Wrap - 1)
            BY <1>3, <1>7, <1>8, MadeFinite
        <3> QED
            BY <1>1, <1>7, <2>2, <2>3, <3>1, <3>2 DEF PoolTypeOK, PoolPC, Links, Lists
    <2>7. MadeCounted' /\ SeenExact'
        BY <1>6, <1>8, <1>9, <2>2, <2>3 DEF MadeCounted, SeenExact
    <2> QED
        BY <2>5, <2>6, <2>7
<1> QED
    BY <1>12, <1>13

LEMMA GetLockedInv ==
    ASSUME PoolInv, NEW t \in Thread, GetLocked(t) PROVE PoolInv'
<1>1. CASE Grows
    BY <1>1, GrowInv
<1>2. CASE ~Grows
    <2> USE DEF PoolInv
    <2> DEFINE p == Pop(pool, next)
    <2>0. PICK seq \in Seq(Node) : /\ Holds(pool, next, seq) /\ Len(seq) = pool.cnt
                                   /\ Range(seq) = made \ out
        BY FreeListElim
    <2>1. /\ pool \in Lists /\ next \in Links /\ pool.cnt > 0
          /\ pool' = p.list /\ next' = p.next /\ out' = out \cup {p.node}
          /\ pc' = [pc EXCEPT ![t] = "idle"]
          /\ UNCHANGED <<total, made, seen, grown, use>>
        BY <1>2 DEF GetLocked, PoolTypeOK, Lists, Links, Grows, Goto
    <2>2. /\ p.list \in Lists /\ p.next \in Links
          /\ p.node \in made \ out /\ p.node # Null
          /\ Tail(seq) \in Seq(Node) /\ Holds(p.list, p.next, Tail(seq))
          /\ Range(Tail(seq)) = (made \ out) \ {p.node}
        BY <2>0, <2>1, PopFree, MemAssumption
    <2>3. (made \ out)' = (made \ out) \ {p.node}
        BY <2>1
    <2> HIDE DEF p
    <2>4. PoolTypeOK'
        BY <2>1, <2>2 DEF PoolTypeOK, Lists, Links, PoolPC
    <2>5. FreeList'
        <3>1. Holds(pool', next', Tail(seq)) /\ Range(Tail(seq)) = made' \ out'
            BY <2>1, <2>2, <2>3
        <3>2. Tail(seq) \in [1..pool'.cnt -> made' \ out']
            BY <2>2, <3>1, FreeListIntro
        <3> QED
            BY <3>1, <3>2 DEF FreeList
    <2>6. MadeCounted' /\ SeenExact'
        BY <2>1, <2>2 DEF MadeCounted, SeenExact, PoolTypeOK
    <2> QED
        BY <2>4, <2>5, <2>6
<1> QED
    BY <1>1, <1>2

LEMMA StateTotalInv ==
    ASSUME PoolInv, NEW t \in Thread, StateTotal(t) PROVE PoolInv'
<1> USE DEF PoolInv, StateTotal, Goto
<1>1. PoolTypeOK'
    BY DEF PoolTypeOK, PoolPC
<1>2. FreeList' /\ MadeCounted'
    BY DEF FreeList, MadeCounted
<1>3. SeenExact'
    BY DEF SeenExact, PoolTypeOK
<1> QED
    BY <1>1, <1>2, <1>3

LEMMA StateFreeInv ==
    ASSUME PoolInv, NEW t \in Thread, StateFree(t) PROVE PoolInv'
<1> USE DEF PoolInv, StateFree, Goto
<1>1. PoolTypeOK'
    <2>1. use' \in Nat
        BY MemAssumption, MadeFinite DEF PoolTypeOK, Used, Lists
    <2> QED
        BY <2>1 DEF PoolTypeOK, PoolPC
<1>2. FreeList' /\ MadeCounted'
    BY DEF FreeList, MadeCounted
<1>3. SeenExact'
    BY DEF SeenExact, PoolTypeOK
<1> QED
    BY <1>1, <1>2, <1>3

LEMMA NextInv ==
    ASSUME PoolInv, [PoolNext]_poolVars PROVE PoolInv'
<1>1. CASE UNCHANGED poolVars
    BY <1>1 DEF poolVars, PoolInv, PoolTypeOK, FreeList, MadeCounted, SeenExact
<1>2. CASE PoolNext
    BY <1>2, GetFirstInv, GetLockedInv, RetInv, StateTotalInv, StateFreeInv DEF PoolNext
<1> QED
    BY <1>1, <1>2

\* The invariant holds for any threads and blocks, whatever the pool is
\* configured to create.
THEOREM PoolInvariant == PoolSpec => []PoolInv
<1>1. PoolInit => PoolInv
    BY InitInv
<1>2. PoolInv /\ [PoolNext]_poolVars => PoolInv'
    BY NextInv
<1> QED
    BY <1>1, <1>2, PTL DEF PoolSpec

\* total_ stays a 32-bit number and the pointers stay pointers.
THEOREM PoolTypes == PoolSpec => []PoolTypeOK
<1>1. PoolInv => PoolTypeOK
    BY DEF PoolInv
<1> QED
    BY <1>1, PoolInvariant, PTL

\* No block is handed out twice, lost, or dropped from the chain of next_.
THEOREM FreeListCorrect == PoolSpec => []FreeList
<1>1. PoolInv => FreeList
    BY DEF PoolInv
<1> QED
    BY <1>1, PoolInvariant, PTL

\* total_ is the number of blocks, free or out.
THEOREM CountCorrect == PoolSpec => []TotalExact
<1>1. PoolInv => TotalExact
    BY FreeCount, MadeFinite DEF PoolInv, MadeCounted, TotalExact
<1> QED
    BY <1>1, PoolInvariant, PTL

\* PoolSound: both at once, for pools of any size (mem_pool.h:61-126).
THEOREM PoolCorrect == PoolSpec => []PoolSound
<1>1. PoolInv => PoolSound
    BY FreeCount, MadeFinite DEF PoolInv, MadeCounted, TotalExact, PoolSound
<1> QED
    BY PoolInvariant, <1>1, PTL

\* A report that no growth crossed counts as used no more than there is.
THEOREM ReportCorrect == PoolSpec => UseInRange
<1> DEFINE Report == \A t \in Thread : StateFree(t) /\ ~grown[t] => use' <= Cardinality(made)
<1>1. PoolInv /\ [PoolNext]_poolVars => [Report]_poolVars
    <2> SUFFICES ASSUME PoolInv, NEW t \in Thread, StateFree(t), ~grown[t]
                 PROVE  use' <= Cardinality(made)
        OBVIOUS
    <2>1. use' = (seen[t] + Wrap - pool.cnt) % Wrap /\ seen[t] = Cardinality(made)
        BY DEF StateFree, Used, PoolInv, SeenExact, MadeCounted
    <2>2. /\ pool.cnt \in Nat /\ pool.cnt <= Cardinality(made)
          /\ Cardinality(made) \in Nat /\ Cardinality(made) < Wrap /\ Wrap \in Nat
        BY FreeCount, MadeFinite, MemAssumption DEF PoolInv, PoolTypeOK, Lists
    <2>3. (seen[t] + Wrap - pool.cnt) % Wrap = seen[t] - pool.cnt
        <3>1. \A a, b \in Nat : b <= a /\ a < Wrap => (a + Wrap - b) % Wrap = a - b
            BY <2>2
        <3> QED
            BY <2>1, <2>2, <3>1
    <2> QED
        BY <2>1, <2>2, <2>3
<1> QED
    BY <1>1, PoolInvariant, PTL DEF PoolSpec, UseInRange
============================================================================
