----------------------------- MODULE MCRedisCtx -----------------------------
(***************************************************************************)
(* RedisCtx for TLC: two threads, which are interchangeable, with batches  *)
(* of two commands.                                                        *)
(***************************************************************************)
EXTENDS RedisCtx, TLC

Symmetry == Permutations(Threads)

=============================================================================
