---------------------------- MODULE MCMemPool ----------------------------
(* Small instances of MemPool for TLC. *)
EXTENDS MemPool, TLC

CONSTANTS t1, t2, t3, m1, m2, m3, m4, m5

Symmetry == Permutations(Thread) \cup Permutations(Node)
============================================================================
