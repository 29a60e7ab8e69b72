------------------------------ MODULE MemPool ------------------------------
(***************************************************************************)
(* One size class of MemPool (mem/mem_pool.h): a list of free blocks with  *)
(* a lock of its own (util/slist_locker.h), which any thread pops from and *)
(* pushes to, and which grows when it is empty.  get() looks at the list   *)
(* twice: outside the section that grows it, and again inside it.  The     *)
(* list is modelled down to its pointers (SList): a Node is a Mem, and no  *)
(* more than those in Node can be created.  Classes share nothing; blocks  *)
(* above the largest class are never pooled.                               *)
(***************************************************************************)
EXTENDS SizeClass

CONSTANTS
    InitCnt,  \* MemConf::init_cnt_
    StepCnt   \* MemConf::step_cnt_

ASSUME MemAssumption ==
    /\ Null \notin Node /\ IsFiniteSet(Node)
    /\ InitCnt \in 0..Cardinality(Node)
    /\ StepCnt \in Nat
    /\ Wrap \in Nat /\ Cardinality(Node) < Wrap

VARIABLES
    pool,    \* Mems::free_
    seen,    \* in state(): total_ as read
    grown,   \* history: the class grew since that read
    use      \* UnitMemState::use_ of the last report

poolVars == <<next, pool, total, made, out, pc, seen, grown, use>>

(* "idle"   outside    "grow"   in get, after the pop that found nothing
   "state"  in state(), total_ is read, the list is not                   *)
PoolPC == {"idle", "grow", "state"}

\* init().
PoolInit ==
    /\ \E f \in Orders(InitCnt, Node) :
          /\ made = Range(f)
          /\ pool = Chain(f, InitCnt)
          /\ next = Linked([m \in Node |-> Null], f, InitCnt)
    /\ total = InitCnt
    /\ out = {}
    /\ pc = [t \in Thread |-> "idle"]
    /\ seen = [t \in Thread |-> 0]
    /\ grown = [t \in Thread |-> FALSE]
    /\ use = 0
----------------------------------------------------------------------------
\* get(): the first pop.
GetFirst(t) ==
    /\ pc[t] = "idle"
    /\ LET p == Pop(pool, next) IN
       /\ pool' = p.list
       /\ next' = p.next
       /\ IF p.node = Null THEN Goto(t, "grow") /\ UNCHANGED out
                            ELSE out' = out \cup {p.node} /\ UNCHANGED pc
    /\ UNCHANGED <<total, made, seen, grown, use>>

\* Mutant of Grown: total_ is left alone.
GrownNoTotal(n) == UNCHANGED total

Grows == pool.cnt = 0

\* inc_mem: total_ += cnt.
Grown(n) == total' = (total + n) % Wrap

\* get() under the lock of the list: it pops again, and only when there is
\* still nothing it adds step_cnt_ new blocks and pops one of them.
GetLocked(t) ==
    /\ pc[t] = "grow"
    /\ Goto(t, "idle")
    /\ \/ /\ ~Grows
          /\ LET p == Pop(pool, next) IN
             /\ pool' = p.list
             /\ next' = p.next
             /\ out' = out \cup {p.node}
          /\ UNCHANGED <<total, made, grown>>
       \/ /\ Grows
          /\ Grown(StepCnt)
          /\ grown' = [u \in Thread |-> TRUE]
          /\ \E f \in Orders(StepCnt, Node \ made) :
                LET q == PushList(pool, Linked(next, f, StepCnt), Chain(f, StepCnt))
                    p == Pop(q.list, q.next)
                IN  /\ made' = made \cup Range(f)
                    /\ pool' = p.list
                    /\ next' = p.next
                    /\ out' = out \cup ({p.node} \ {Null})
    /\ UNCHANGED <<seen, use>>

\* Mutant of Ret: ret() is called at every reference given back.
RetTwice(t, m) ==
    /\ pc[t] = "idle"
    /\ m \in out
    /\ LET q == Push(pool, next, m) IN pool' = q.list /\ next' = q.next
    /\ UNCHANGED <<total, made, out, pc, seen, grown, use>>

\* ret(): the last reference of m is given back, on any thread.
Ret(t, m) ==
    /\ pc[t] = "idle"
    /\ m \in out
    /\ LET q == Push(pool, next, m) IN pool' = q.list /\ next' = q.next
    /\ out' = out \ {m}
    /\ UNCHANGED <<total, made, pc, seen, grown, use>>

\* total_ - free_, on uint32_t.
Used(a, b) == (a + Wrap - b) % Wrap

\* state() reads total_,
StateTotal(t) ==
    /\ pc[t] = "idle"
    /\ Goto(t, "state")
    /\ seen' = [seen EXCEPT ![t] = total]
    /\ grown' = [grown EXCEPT ![t] = FALSE]
    /\ UNCHANGED <<next, pool, total, made, out, use>>

\* then the count of the list, and subtracts.
StateFree(t) ==
    /\ pc[t] = "state"
    /\ use' = Used(seen[t], pool.cnt)
    /\ seen' = [seen EXCEPT ![t] = 0]
    /\ Goto(t, "idle")
    /\ UNCHANGED <<next, pool, total, made, out, grown>>

PoolNext ==
    \E t \in Thread : \/ GetFirst(t) \/ GetLocked(t)
                      \/ \E m \in Node : Ret(t, m)
                      \/ StateTotal(t) \/ StateFree(t)

PoolSpec == PoolInit /\ [][PoolNext]_poolVars
----------------------------------------------------------------------------
\* Types of the variables.
PoolTypeOK ==
    /\ next \in [Node -> Node \cup {Null}]
    /\ pool \in Lists
    /\ total \in 0..(Wrap - 1)
    /\ made \in SUBSET Node /\ out \in SUBSET Node
    /\ pc \in [Thread -> PoolPC]
    /\ seen \in [Thread -> Nat]
    /\ grown \in [Thread -> BOOLEAN]
    /\ use \in Nat

\* The free list is a list, whatever threads pushed and popped: its pointers
\* run through the blocks nobody refers to, each once, and end.  So no block
\* is handed out twice or lost.
FreeList ==
    \E seq \in [1..pool.cnt -> made \ out] :
        /\ Holds(pool, next, seq)
        /\ Range(seq) = made \ out

\* total_ is the number of blocks there are, in the list or out.
TotalExact == total = pool.cnt + Cardinality(out)

\* Whatever threads get and give back while the pool grows, it knows its blocks.
PoolSound == FreeList /\ TotalExact

\* A report of state() never counts more free blocks than there are in all,
\* unless the class grew between its two reads: then use_ may wrap.
UseInRange ==
    [][\A t \in Thread : StateFree(t) /\ ~grown[t] => use' <= Cardinality(made)]_poolVars
============================================================================
