------------------------------ MODULE MCFlags ------------------------------
(* Small instances of Flags for TLC. *)
EXTENDS Flags, TLC

CONSTANTS a1, a2, r1, r2, c1, c2, f1, f2, fs

Interchangeable ==
  Permutations(Accounts) \cup Permutations(Requests)
    \cup Permutations(Containers) \cup Permutations(RandomFlags)
=============================================================================
