----------------------------- MODULE MCStartup -----------------------------
(* Small instances of Startup for TLC. *)
EXTENDS Startup, TLC

CONSTANTS w1, w2, limit, caps, v1

Interchangeable == Permutations(Workers)
=============================================================================
