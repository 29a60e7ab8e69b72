------------------------------ MODULE LFStack ------------------------------
(***************************************************************************)
(* LFStack (util/lfstack.h), a list of free nodes without a lock: push and *)
(* pop are modelled at each access to memory that other threads can see.   *)
(* push exchanges the head pointer alone; pop exchanges the head pointer   *)
(* together with a count of pops.  A thread pushes only a node it owns.    *)
(***************************************************************************)
EXTENDS Naturals, FiniteSets

CONSTANTS
    Thread,
    Node,
    Null,
    Wrap,    \* 2^32, of cnt_
    MaxPop   \* bound: pops that succeed

VARIABLES
    next,    \* T::next_
    head,    \* *head_: ptr_ and pop_cnt_, one 16-byte word
    cnt,     \* cnt_
    pc,      \* where a thread is
    reg,     \* its n, ptr, pop_cnt and next
    owned    \* the nodes it may push

vars == <<next, head, cnt, pc, reg, owned>>

Goto(t, l) == pc' = [pc EXCEPT ![t] = l]
Load(t, field, v) == reg' = [reg EXCEPT ![t][field] = v]

Init ==
    /\ next = [n \in Node |-> Null]
    /\ head = [ptr |-> Null, popCnt |-> 0]
    /\ cnt = 0
    /\ pc = [t \in Thread |-> "idle"]
    /\ reg = [t \in Thread |-> [n |-> Null, ptr |-> Null, popCnt |-> 0, next |-> Null]]
    /\ \E first \in Thread : owned = [t \in Thread |-> IF t = first THEN Node ELSE {}]
----------------------------------------------------------------------------
Push(t) ==
    /\ pc[t] = "idle"
    /\ \E n \in owned[t] :
          /\ Load(t, "n", n)
          /\ owned' = [owned EXCEPT ![t] = @ \ {n}]
    /\ Goto(t, "push.read")
    /\ UNCHANGED <<next, head, cnt>>

PushRead(t) ==
    /\ pc[t] = "push.read"
    /\ Load(t, "ptr", head.ptr)
    /\ Goto(t, "push.link")
    /\ UNCHANGED <<next, head, cnt, owned>>

PushLink(t) ==
    /\ pc[t] = "push.link"
    /\ next' = [next EXCEPT ![reg[t].n] = reg[t].ptr]
    /\ Goto(t, "push.cas")
    /\ UNCHANGED <<head, cnt, reg, owned>>

\* The exchange compares the pointer only; a push is not counted.
PushCas(t) ==
    /\ pc[t] = "push.cas"
    /\ IF head.ptr = reg[t].ptr
       THEN head' = [head EXCEPT !.ptr = reg[t].n] /\ Goto(t, "push.count")
       ELSE UNCHANGED head /\ Goto(t, "push.read")
    /\ UNCHANGED <<next, cnt, reg, owned>>

PushCount(t) ==
    /\ pc[t] = "push.count"
    /\ cnt' = (cnt + 1) % Wrap
    /\ Goto(t, "idle")
    /\ UNCHANGED <<next, head, reg, owned>>

\* pop: the first of its two reads of the head.
PopRead(t) ==
    /\ pc[t] \in {"idle", "pop.read"}
    /\ head.popCnt < MaxPop
    /\ Load(t, "ptr", head.ptr)
    /\ Goto(t, "pop.count")
    /\ UNCHANGED <<next, head, cnt, owned>>

PopReadCount(t) ==
    /\ pc[t] = "pop.count"
    /\ Load(t, "popCnt", head.popCnt)
    /\ Goto(t, IF reg[t].ptr = Null THEN "idle" ELSE "pop.next")
    /\ UNCHANGED <<next, head, cnt, owned>>

PopReadNext(t) ==
    /\ pc[t] = "pop.next"
    /\ Load(t, "next", next[reg[t].ptr])
    /\ Goto(t, "pop.cas")
    /\ UNCHANGED <<next, head, cnt, owned>>

\* CAS2: both words must be the ones read.
PopCas(t) ==
    /\ pc[t] = "pop.cas"
    /\ IF head = [ptr |-> reg[t].ptr, popCnt |-> reg[t].popCnt]
       THEN /\ head' = [ptr |-> reg[t].next, popCnt |-> head.popCnt + 1]
            /\ Goto(t, "pop.uncount")
       ELSE UNCHANGED head /\ Goto(t, "pop.read")
    /\ UNCHANGED <<next, cnt, reg, owned>>

PopUncount(t) ==
    /\ pc[t] = "pop.uncount"
    /\ cnt' = (cnt + Wrap - 1) % Wrap
    /\ Goto(t, "pop.clear")
    /\ UNCHANGED <<next, head, reg, owned>>

PopClear(t) ==
    /\ pc[t] = "pop.clear"
    /\ next' = [next EXCEPT ![reg[t].ptr] = Null]
    /\ owned' = [owned EXCEPT ![t] = @ \cup {reg[t].ptr}]
    /\ Goto(t, "idle")
    /\ UNCHANGED <<head, cnt, reg>>

Next ==
    \E t \in Thread :
        \/ Push(t) \/ PushRead(t) \/ PushLink(t) \/ PushCas(t) \/ PushCount(t)
        \/ PopRead(t) \/ PopReadCount(t) \/ PopReadNext(t) \/ PopCas(t)
        \/ PopUncount(t) \/ PopClear(t)

Spec == Init /\ [][Next]_vars
----------------------------------------------------------------------------
\* The nodes met from the head down, at most one per node that exists.
Listed ==
    LET at[i \in 0..Cardinality(Node)] ==
          IF i = 0 THEN head.ptr
          ELSE IF at[i - 1] = Null THEN Null ELSE next[at[i - 1]]
    IN  {at[i] : i \in 0..Cardinality(Node)} \ {Null}

\* The nodes t has taken out of circulation or not put back yet.
Held(t) ==
    owned[t]
    \cup (IF pc[t] \in {"push.read", "push.link", "push.cas"} THEN {reg[t].n} ELSE {})
    \cup (IF pc[t] \in {"pop.uncount", "pop.clear"} THEN {reg[t].ptr} ELSE {})

(* lfstack.h:6 calls it a stack: a node is on the list or with exactly one *)
(* thread, never lost and never handed out twice.                          *)
NodeOnce ==
    \A n \in Node :
        Cardinality({t \in Thread : n \in Held(t)}) + (IF n \in Listed THEN 1 ELSE 0) = 1
============================================================================
