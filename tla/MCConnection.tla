---------------------------- MODULE MCConnection ----------------------------
(* Small instances of Connection for TLC. *)
EXTENDS Connection, TLC

CONSTANTS t1, t2, t3, s1, s2, s3, s4

Interchangeable == Permutations(Callers) \cup Permutations(Schedulers)
=============================================================================
