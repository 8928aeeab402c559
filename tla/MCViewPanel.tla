----------------------------- MODULE MCViewPanel -----------------------------
(* Small instances of ViewPanel for TLC. *)
EXTENDS ViewPanel, TLC

CONSTANTS f1, f2, f3

Interchangeable == Permutations(Fetches)
==============================================================================
