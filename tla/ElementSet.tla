----------------------------- MODULE ElementSet -----------------------------
(***************************************************************************)
(* element_set_t (redis-pool/src/element_set.h): a fixed array of elements *)
(* with two lists in it, one of the free elements, taken at the front and  *)
(* given back at the end, and one of the used elements, linked both ways.  *)
(* An element is in one of them at a time, so that both use its next.      *)
(***************************************************************************)
EXTENDS Integers

CONSTANT MaxBlocks  \* m_element_count

ASSUME ElementAssumption == MaxBlocks \in Nat \ {0}

Elems == 0 .. MaxBlocks - 1

\* END_OF_ELEMENT
End == -1

\* init(): every element is free; prev has no value before it is used.
AllFree ==
  [next |-> [e \in Elems |-> IF e = MaxBlocks - 1 THEN End ELSE e + 1],
   prev |-> [e \in Elems |-> End],
   free |-> [e \in Elems |-> TRUE],
   firstFree |-> 0, lastFree |-> MaxBlocks - 1, firstUsed |-> End]

\* get_elem() when there is a free element: the first becomes the first used.
GetElem(es) ==
  LET e == es.firstFree
  IN  [next |-> [es.next EXCEPT ![e] = es.firstUsed],
       prev |-> [f \in Elems |-> IF f = e THEN End
                                 ELSE IF f = es.firstUsed THEN e ELSE es.prev[f]],
       free |-> [es.free EXCEPT ![e] = FALSE],
       firstFree |-> es.next[e],
       lastFree |-> IF es.lastFree = e THEN End ELSE es.lastFree,
       firstUsed |-> e]

\* Mutant: the end of the list of free elements is not linked to e.
PutElemUnlinked(es, e) ==
  [next |-> [f \in Elems |-> IF f = e THEN End
                             ELSE IF f = es.prev[e] THEN es.next[e] ELSE es.next[f]],
   prev |-> [f \in Elems |-> IF f = es.next[e] THEN es.prev[e] ELSE es.prev[f]],
   free |-> [es.free EXCEPT ![e] = TRUE],
   firstFree |-> IF es.firstFree = End THEN e ELSE es.firstFree,
   lastFree |-> e,
   firstUsed |-> IF es.firstUsed = e THEN es.next[e] ELSE es.firstUsed]

\* put_elem(e) for a used e: out of its list, to the end of the free ones.
PutElem(es, e) ==
  [next |-> [f \in Elems |-> IF f = e THEN End
                             ELSE IF f = es.prev[e] THEN es.next[e]
                             ELSE IF f = es.lastFree THEN e ELSE es.next[f]],
   prev |-> [f \in Elems |-> IF f = es.next[e] THEN es.prev[e] ELSE es.prev[f]],
   free |-> [es.free EXCEPT ![e] = TRUE],
   firstFree |-> IF es.firstFree = End THEN e ELSE es.firstFree,
   lastFree |-> e,
   firstUsed |-> IF es.firstUsed = e THEN es.next[e] ELSE es.firstUsed]

=============================================================================
