----------------------------- MODULE Allocator -----------------------------
(***************************************************************************)
(* What memory_pool_t promises to cache_t: alloc and release of blocks of  *)
(* fixed sizes.  There is one call at a time.                              *)
(***************************************************************************)
EXTENDS Naturals

CONSTANTS
  Sizes,    \* sizes of blocks
  Ptrs,     \* addresses
  Cookies,  \* what release knows a block by
  Lens,     \* lengths that are asked for
  None      \* the answer when there is no block

VARIABLES
  out,      \* the blocks that were given and not released
  call      \* the call of alloc: nobody's, asked, or answered

Enough(n) == {size \in Sizes : n <= size}
Smallest(S) == CHOOSE size \in S : \A other \in S : size <= other

Quiet == [do |-> "idle", n |-> 0, block |-> None]
Answered(block) == [do |-> "answered", n |-> 0, block |-> block]

Init == out = {} /\ call = Quiet

Ask(n) ==
  /\ call = Quiet
  /\ call' = IF Enough(n) = {} THEN Answered(None)
             ELSE [do |-> "asked", n |-> n, block |-> None]
  /\ out' = out

Grant(p, k) ==
  LET block == [ptr |-> p, size |-> Smallest(Enough(call.n)), cookie |-> k]
  IN  /\ call.do = "asked"
      /\ \A other \in out : other.ptr # p /\ other.cookie # k
      /\ out' = out \cup {block}
      /\ call' = Answered(block)

Refuse == call.do = "asked" /\ call' = Answered(None) /\ out' = out

Answer == call.do = "answered" /\ call' = Quiet /\ out' = out

Release(block) ==
  /\ call = Quiet /\ block \in out
  /\ out' = out \ {block}
  /\ call' = call

Next ==
  \/ Refuse \/ Answer
  \/ \E n \in Lens : Ask(n)
  \/ \E p \in Ptrs, k \in Cookies : Grant(p, k)
  \/ \E block \in out : Release(block)

AllocatorSpec == Init /\ [][Next]_<<out, call>>

=============================================================================
