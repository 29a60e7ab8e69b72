---------------------------- MODULE MCTcpServer ----------------------------
(* Small instances of TcpServer for TLC. *)
EXTENDS TcpServer, TLC

CONSTANTS i1, i2, a1, a2, s1, s2, s3

Symmetry == Permutations(IO) \cup Permutations(AOV) \cup Permutations(Session)
============================================================================
