---------------------------- MODULE MCInstances ----------------------------
(* Small instances of Instances for TLC. *)
EXTENDS Instances, TLC

CONSTANTS a1, a2, k1, k2, c1, c2, c3, r1, r2, w1, w2

\* Containers that differ in nothing, and requests, are interchangeable.
Interchangeable ==
  Permutations(Containers \ Foreign) \cup Permutations(Requests)
=============================================================================
