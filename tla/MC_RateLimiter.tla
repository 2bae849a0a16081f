--------------------------- MODULE MC_RateLimiter ---------------------------
(* Small instances of RateLimiter; each .cfg says which question it asks. *)
EXTENDS RateLimiter, TLC

Interchangeable == Permutations(Replicas) \cup Permutations(Keys)

=============================================================================
