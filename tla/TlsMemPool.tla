---------------------------- MODULE TlsMemPool ----------------------------
(***************************************************************************)
(* One size class of tm::TlsMemPool (mem/tm): every thread keeps two lists *)
(* of its own (Heapt's wait_ and free_), which no other thread changes;    *)
(* all share the heap's list, which has a lock (MemListLocker).  A thread  *)
(* fills wait_ from the heap, pop_cnt_ at a time, or from new blocks; what *)
(* it gives back collects in free_, whoever it came from, and goes to the  *)
(* heap push_cnt_ at a time.  Neither total_ nor the counts that state()   *)
(* reads are protected.  The lists are modelled down to their pointers     *)
(* (SList); no more blocks than those in Node can be created.              *)
(***************************************************************************)
EXTENDS SizeClass

CONSTANTS
    Caller, \* the threads that call state()
    Confs   \* UnitMemConf: cnt_, pop_cnt_, push_cnt_

\* pop_cnt_ or cnt_ = 0 makes get() use a null pointer at once.
ASSUME TlsAssumption ==
    /\ Null \notin Node \cup Thread /\ IsFiniteSet(Node)
    /\ Caller \subseteq Thread
    /\ Confs \subseteq [cnt : Nat \ {0}, pop : Nat \ {0}, push : Nat \ {0}]
    /\ \A c \in Confs : c.cnt <= Cardinality(Node)
    /\ Wrap \in Nat /\ Cardinality(Node) < Wrap

VARIABLES
    conf,    \* HeapMem::conf_
    heap,    \* Heap::map_
    wait,    \* HeapMem::wait_ of a thread
    free,    \* HeapMem::free_ of a thread
    ml,      \* the list a thread has in hand
    known,   \* HeaptList::list_: threads that have a Heapt
    hlock,   \* HeaptList::lock_, held by state()
    reg,     \* total_ as read in total_ += cnt; in state(), use_ so far
    todo,    \* in state(): Heapts to visit
    clash,   \* history: two additions to total_ crossed
    calm     \* history: nobody else was at work since state() began

blocks == <<next, heap, wait, free, ml, known, made, out>>
vars == <<blocks, conf, hlock, total, pc, reg, todo, clash, calm>>

(* "idle"   outside                  "heap"   own lists were empty
   "new"    the heap was empty too   "write"  in total_ += cnt
   "give"   has new blocks           "keep"   has blocks for itself
   "flush"  free_ is full
   "sheap", "slock", "sthread"       in state()                         *)
Reporting == {"sheap", "slock", "sthread"}
PC == {"idle", "heap", "new", "write", "give", "keep", "flush"} \cup Reporting

Works == calm' = [t \in Thread |-> FALSE]

\* init(): the heap gets its first blocks.
Init ==
    /\ conf \in Confs
    /\ \E f \in Orders(conf.cnt, Node) :
          /\ made = Range(f)
          /\ heap = Chain(f, conf.cnt)
          /\ next = Linked([m \in Node |-> Null], f, conf.cnt)
    /\ total = conf.cnt
    /\ wait = [t \in Thread |-> Empty]
    /\ free = [t \in Thread |-> Empty]
    /\ ml = [t \in Thread |-> Empty]
    /\ known = {} /\ hlock = Null
    /\ out = {}
    /\ pc = [t \in Thread |-> "idle"]
    /\ reg = [t \in Thread |-> 0]
    /\ todo = [t \in Thread |-> {}]
    /\ clash = FALSE
    /\ calm = [t \in Thread |-> FALSE]
----------------------------------------------------------------------------
\* get_thread_mem(): the first call of a thread adds its Heapt to the list.
ThreadMem(t) == (t \in known \/ hlock = Null) /\ known' = known \cup {t}

\* get(): a block of the thread's own, from wait_ or else from free_.
Get(t) ==
    /\ pc[t] = "idle"
    /\ ThreadMem(t)
    /\ LET w == Pop(wait[t], next)
           f == Pop(free[t], next)
       IN  \/ /\ w.node # Null
              /\ wait' = [wait EXCEPT ![t] = w.list]
              /\ next' = w.next
              /\ out' = out \cup {w.node}
              /\ UNCHANGED <<free, pc>>
           \/ /\ w.node = Null /\ f.node # Null
              /\ free' = [free EXCEPT ![t] = f.list]
              /\ next' = f.next
              /\ out' = out \cup {f.node}
              /\ UNCHANGED <<wait, pc>>
           \/ /\ w.node = Null /\ f.node = Null
              /\ Goto(t, "heap")
              /\ UNCHANGED <<wait, free, next, out>>
    /\ Works
    /\ UNCHANGED <<conf, heap, ml, hlock, total, made, reg, todo, clash>>

\* pop_from_main: up to pop_cnt_ blocks of the heap, under its lock.
GetHeap(t) ==
    /\ pc[t] = "heap"
    /\ LET q == PopMany(heap, next, conf.pop) IN
       /\ heap' = q.list
       /\ next' = q.next
       /\ ml' = [ml EXCEPT ![t] = q.taken]
       /\ Goto(t, IF q.taken.cnt > 0 THEN "keep" ELSE "new")
    /\ Works
    /\ UNCHANGED <<conf, wait, free, known, hlock, total, made, out, reg, todo, clash>>

\* pop_from_new, MemAlloc::new_mem: cnt_ new blocks; total_ is read,
NewRead(t) ==
    /\ pc[t] = "new"
    /\ \E f \in Orders(conf.cnt, Node \ made) :
          /\ made' = made \cup Range(f)
          /\ ml' = [ml EXCEPT ![t] = Chain(f, conf.cnt)]
          /\ next' = Linked(next, f, conf.cnt)
    /\ reg' = [reg EXCEPT ![t] = total]
    /\ Goto(t, "write")
    /\ Works
    /\ UNCHANGED <<conf, heap, wait, free, known, hlock, total, out, todo, clash>>

\* and written.
NewWrite(t) ==
    /\ pc[t] = "write"
    /\ total' = (reg[t] + conf.cnt) % Wrap
    /\ clash' = (clash \/ total # reg[t])
    /\ reg' = [reg EXCEPT ![t] = 0]
    /\ Goto(t, IF conf.cnt > conf.pop THEN "give" ELSE "keep")
    /\ Works
    /\ UNCHANGED <<blocks, conf, hlock, todo>>

\* pop_from_new: all but pop_cnt_ of the new blocks go to the heap.
Give(t) ==
    /\ pc[t] = "give"
    /\ LET p == PopMany(ml[t], next, conf.cnt - conf.pop)
           q == PushList(heap, p.next, p.taken)
       IN  /\ heap' = q.list
           /\ next' = q.next
           /\ ml' = [ml EXCEPT ![t] = p.list]
    /\ Goto(t, "keep")
    /\ Works
    /\ UNCHANGED <<conf, wait, free, known, hlock, total, made, out, reg, todo, clash>>

\* pop_from_main, pop_from_new: the first block in hand is the caller's, the
\* others go to wait_.
Keep(t) ==
    /\ pc[t] = "keep"
    /\ LET p == Pop(ml[t], next)
           q == PushList(wait[t], p.next, p.list)
       IN  /\ wait' = [wait EXCEPT ![t] = q.list]
           /\ next' = q.next
           /\ out' = out \cup {p.node}
    /\ ml' = [ml EXCEPT ![t] = Empty]
    /\ Goto(t, "idle")
    /\ Works
    /\ UNCHANGED <<conf, heap, free, known, hlock, total, made, reg, todo, clash>>

\* Mutant of IsFull: one block more than push_cnt_ is kept.
IsFullLate(l) == l.cnt > conf.push

IsFull(l) == l.cnt >= conf.push

\* ret(): the last reference of m is given back, on any thread: m joins the
\* free_ of that thread.
Put(t, m) ==
    /\ pc[t] = "idle"
    /\ m \in out
    /\ ThreadMem(t)
    /\ LET q == Push(free[t], next, m) IN
       /\ free' = [free EXCEPT ![t] = q.list]
       /\ next' = q.next
       /\ IF IsFull(q.list) THEN Goto(t, "flush") ELSE UNCHANGED pc
    /\ out' = out \ {m}
    /\ Works
    /\ UNCHANGED <<conf, heap, wait, ml, hlock, total, made, reg, todo, clash>>

\* Mutant of Flushed: the list is not emptied by the push.
FlushedKept(l) == l

Flushed(l) == Empty

\* push(): all of free_ goes to the heap, under its lock.
Flush(t) ==
    /\ pc[t] = "flush"
    /\ LET q == PushList(heap, next, free[t]) IN heap' = q.list /\ next' = q.next
    /\ free' = [free EXCEPT ![t] = Flushed(free[t])]
    /\ Goto(t, "idle")
    /\ Works
    /\ UNCHANGED <<conf, wait, ml, known, hlock, total, made, out, reg, todo, clash>>
----------------------------------------------------------------------------
\* a - b on uint32_t.
Less(a, b) == (a + Wrap - b) % Wrap

\* state(): a copy of total_,
State(t) ==
    /\ t \in Caller
    /\ pc[t] = "idle"
    /\ reg' = [reg EXCEPT ![t] = total]
    /\ calm' = [calm EXCEPT ![t] = \A u \in Thread : pc[u] \in {"idle"} \cup Reporting]
    /\ Goto(t, "sheap")
    /\ UNCHANGED <<blocks, conf, hlock, total, todo, clash>>

\* the count of the heap,
StateHeap(t) ==
    /\ pc[t] = "sheap"
    /\ reg' = [reg EXCEPT ![t] = Less(reg[t], heap.cnt)]
    /\ Goto(t, "slock")
    /\ UNCHANGED <<blocks, conf, hlock, total, todo, clash, calm>>

\* the lock of the list of Heapts,
StateLock(t) ==
    /\ pc[t] = "slock"
    /\ hlock = Null
    /\ hlock' = t
    /\ todo' = [todo EXCEPT ![t] = known]
    /\ Goto(t, "sthread")
    /\ UNCHANGED <<blocks, conf, total, reg, clash, calm>>

\* Mutant of CachedBy: the list of blocks given back is forgotten.
CachedByWait(u) == wait[u].cnt

CachedBy(u) == wait[u].cnt + free[u].cnt

\* the counts of one thread after the other,
StateThread(t, u) ==
    /\ pc[t] = "sthread"
    /\ u \in todo[t]
    /\ reg' = [reg EXCEPT ![t] = Less(reg[t], CachedBy(u))]
    /\ todo' = [todo EXCEPT ![t] = todo[t] \ {u}]
    /\ UNCHANGED <<blocks, conf, hlock, total, pc, clash, calm>>

\* and what is left, UnitMemState::use_, is in use.
StateEnd(t) ==
    /\ pc[t] = "sthread"
    /\ todo[t] = {}
    /\ reg' = [reg EXCEPT ![t] = 0]
    /\ calm' = [calm EXCEPT ![t] = FALSE]
    /\ hlock' = Null
    /\ Goto(t, "idle")
    /\ UNCHANGED <<blocks, conf, total, todo, clash>>

Next ==
    \E t \in Thread :
        \/ Get(t) \/ GetHeap(t) \/ NewRead(t) \/ NewWrite(t) \/ Give(t) \/ Keep(t)
        \/ \E m \in Node : Put(t, m)
        \/ Flush(t)
        \/ State(t) \/ StateHeap(t) \/ StateLock(t)
        \/ \E u \in Thread : StateThread(t, u)
        \/ StateEnd(t)

Spec == Init /\ [][Next]_vars
----------------------------------------------------------------------------
\* Types of the variables.
TypeOK ==
    /\ conf \in Confs
    /\ next \in [Node -> Node \cup {Null}]
    /\ heap \in Lists
    /\ wait \in [Thread -> Lists] /\ free \in [Thread -> Lists] /\ ml \in [Thread -> Lists]
    /\ known \in SUBSET Thread /\ hlock \in Thread \cup {Null}
    /\ total \in 0..(Wrap - 1)
    /\ made \in SUBSET Node /\ out \in SUBSET Node
    /\ pc \in [Thread -> PC]
    /\ reg \in [Thread -> 0..(Wrap - 1)]
    /\ todo \in [Thread -> SUBSET Thread]
    /\ clash \in BOOLEAN /\ calm \in [Thread -> BOOLEAN]

\* The places a block can be in, and the list of each.
Places == {<<"heap", Null>>} \cup ({"wait", "free", "ml"} \X Thread)

ListAt(p) == CASE p[1] = "heap" -> heap
               [] p[1] = "wait" -> wait[p[2]]
               [] p[1] = "free" -> free[p[2]]
               [] p[1] = "ml" -> ml[p[2]]

At(p) == Range(Nodes(ListAt(p), next))

\* However blocks go in chains from list to list, every list stays one: its
\* next_ pointers run from start_ to end_ in cnt_ steps and end there.
ListsSound == \A p \in Places : Holds(ListAt(p), next, Nodes(ListAt(p), next))

\* A block given back by another thread than the one that got it, or split off
\* with a chain, is in one list or out, never in two places, and never lost.
BlockOnce ==
    /\ ListsSound
    /\ \A p, q \in Places : p # q => At(p) \cap At(q) = {}
    /\ UNION {At(p) : p \in Places} = made \ out

\* A thread never hoards: other threads can have all but pop_cnt_ - 1 and
\* push_cnt_ - 1 of the blocks it does not use.
CacheBounded ==
    \A t \in Thread :
        /\ wait[t].cnt < conf.pop
        /\ free[t].cnt <= conf.push
        /\ free[t].cnt = conf.push => pc[t] = "flush"

\* A report of state() made while nobody else is at work is exact, unless an
\* addition to total_ was lost before.
UseExact ==
    \A t \in Thread : pc[t] = "sthread" /\ todo[t] = {} /\ calm[t] /\ ~clash
                      => reg[t] = Cardinality(out)
============================================================================
