------------------------------ MODULE MCQueueT ------------------------------
(***************************************************************************)
(* QueueT for TLC: two producers and two consumers around a ring of a few  *)
(* cells.  Threads of a kind are interchangeable.                          *)
(***************************************************************************)
EXTENDS QueueTChannel, TLC

Symmetry == Permutations(Producers) \cup Permutations(Consumers)

=============================================================================
