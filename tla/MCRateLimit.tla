----------------------------- MODULE MCRateLimit -----------------------------
(* Small instances of RateLimit for TLC; count is bounded by the requests of *)
(* one window. *)
EXTENDS RateLimit, TLC
=============================================================================
