--------------------------- MODULE MCTlsMemPool ---------------------------
(* Small instances of TlsMemPool for TLC. *)
EXTENDS TlsMemPool, TLC

CONSTANTS t1, t2, m1, m2, m3, m4, m5, m6

\* New blocks that are all kept, that are shared with the heap, and, with one
\* growth only, both.
MCConfs == {[cnt |-> 2, pop |-> 2, push |-> 1], [cnt |-> 2, pop |-> 1, push |-> 2],
            [cnt |-> 3, pop |-> 2, push |-> 2]}

Symmetry == Permutations(Node)
============================================================================
