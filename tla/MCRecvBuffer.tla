---------------------------- MODULE MCRecvBuffer ----------------------------
(* Small instances of RecvBuffer for TLC. *)
EXTENDS RecvBuffer, TLC

CONSTANTS m1, m2, m3, m4

Symmetry == Permutations(Mem)
============================================================================
