------------------------------ MODULE MCCache ------------------------------
(***************************************************************************)
(* Cache and MemoryPool for TLC: two caches; blocks of 1, 2 and 7 units,   *)
(* of which the first is small and the second medium; a limit of 7 and a   *)
(* word of 14, which are to the largest block as 2 GB and 4 GB are.        *)
(* Addresses are interchangeable, and so are caches.                       *)
(***************************************************************************)
EXTENDS Cache, TLC

MCBlockSize == [b \in 0 .. 2 |-> <<1, 2, 7>>[b + 1]]
MCLens == 0 .. 2 * Word
Symmetry == Permutations(Addrs) \cup Permutations(Caches)

\* The state without what is not read before it is set again: ptr and prev of
\* free elements, the link of those that are in no bucket's list.
Live ==
  <<[elems EXCEPT !.prev = [e \in Elems |-> IF elems.free[e] THEN End ELSE @[e]]],
    [e \in Elems |-> IF elems.free[e] THEN Nowhere ELSE ptr[e]],
    [e \in Elems |-> IF \E b \in Buckets : e \in Unused(b) THEN link[e] ELSE End],
    bucket, allocated, heap, inUse, held, job, cacheVars>>

=============================================================================
