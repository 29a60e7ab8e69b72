----------------------------- MODULE SizeClass -----------------------------
(***************************************************************************)
(* What a size class of MemPool (mem/mem_pool.h) and one of                *)
(* tm::TlsMemPool (mem/tm) have in common: blocks that are linked in lists *)
(* (SList), how many of them the class counts, and the threads that get    *)
(* them and give them back.                                                *)
(***************************************************************************)
EXTENDS SList, FiniteSets, Functions

CONSTANTS
    Thread,
    Wrap    \* 2^32

VARIABLES
    next,    \* Mem::next_
    total,   \* Mems::total_, or total_ of MemAlloc::state_
    made,    \* history: the blocks created
    out,     \* the blocks somebody refers to
    pc       \* where a thread is

Goto(t, l) == pc' = [pc EXCEPT ![t] = l]

Lists == [cnt : Nat, start : Node \cup {Null}, end : Node \cup {Null}]
============================================================================
