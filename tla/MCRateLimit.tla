---------------------------- MODULE MCRateLimit -----------------------------
(* Two addresses, two requests a window, for TLC. *)
EXTENDS RateLimit, TLC

Symmetry == Permutations(Client)
=============================================================================
