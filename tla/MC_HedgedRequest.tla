-------------------------- MODULE MC_HedgedRequest --------------------------
(* The whole state space of HedgedRequest: it has no constants to bound. *)
EXTENDS HedgedRequest
=============================================================================
