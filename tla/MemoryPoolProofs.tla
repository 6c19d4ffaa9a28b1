-------------------------- MODULE MemoryPoolProofs --------------------------
(***************************************************************************)
(* Proofs about the memory pool, for any number of blocks, any sizes and   *)
(* any addresses: what callers hold is theirs alone, the pool is the       *)
(* allocator that cache_t takes it for, and no memory is lost.             *)
(*                                                                         *)
(* For the last of these things have to be counted.  A list is an order of *)
(* a set (Lines) that the links lead through; a sum of sizes is the number *)
(* of pairs of a block and a unit of it (Units), so that the facts about   *)
(* cardinality say what a step adds to it or takes away.  The recursive    *)
(* functions by which NothingLost walks a list and adds up sizes have such *)
(* an order and such a number for their values: these satisfy the          *)
(* equation, and of the arguments where another function that satisfies it *)
(* differs there would have to be a least one.                             *)
(***************************************************************************)
EXTENDS MemoryPool, FiniteSetTheorems, WellFoundedInduction, TLAPS

-----------------------------------------------------------------------------
(* The element set *)

ElemsTyped(es) ==
  es \in [next : [Elems -> Elems \cup {End}], prev : [Elems -> Elems \cup {End}],
          free : [Elems -> BOOLEAN], firstFree : Elems \cup {End},
          lastFree : Elems \cup {End}, firstUsed : Elems \cup {End}]

\* The list of free elements stays among them, branches nowhere, does not come
\* back to its first, and ends at its last.
FreeListed(es) ==
  /\ es.firstFree # End => es.free[es.firstFree]
  /\ es.lastFree # End => es.free[es.lastFree]
  /\ es.firstFree = End => es.lastFree = End
  /\ \A e \in Elems : es.free[e] =>
       /\ es.next[e] = End => e = es.lastFree
       /\ es.next[e] # End => es.free[es.next[e]] /\ es.next[e] # es.firstFree
       /\ \A f \in Elems : es.free[f] /\ es.next[e] = es.next[f] /\ es.next[e] # End => e = f

\* The predecessor of a used element is used, and leads to it.
UsedListed(es) ==
  \A e \in Elems : ~es.free[e] /\ es.prev[e] # End =>
    ~es.free[es.prev[e]] /\ es.next[es.prev[e]] = e

ElementsOk(es) == ElemsTyped(es) /\ FreeListed(es) /\ UsedListed(es)

LEMMA EndIsNone == End \notin Elems
  BY ElementAssumption DEF End, Elems

LEMMA GetElemKeeps ==
  ASSUME NEW es, ElementsOk(es), es.firstFree # End
  PROVE  /\ ElementsOk(GetElem(es))
         /\ es.firstFree \in Elems /\ es.free[es.firstFree]
         /\ GetElem(es).free = [es.free EXCEPT ![es.firstFree] = FALSE]
<1> DEFINE e == es.firstFree
           new == GetElem(es)
<1>1. e \in Elems /\ es.free[e] /\ es.next[e] \in Elems \cup {End}
  BY DEF ElementsOk, ElemsTyped, FreeListed
<1>2. /\ new.next = [es.next EXCEPT ![e] = es.firstUsed]
      /\ new.prev = [f \in Elems |-> IF f = e THEN End
                                     ELSE IF f = es.firstUsed THEN e ELSE es.prev[f]]
      /\ new.free = [es.free EXCEPT ![e] = FALSE]
      /\ new.firstFree = es.next[e]
      /\ new.lastFree = IF es.lastFree = e THEN End ELSE es.lastFree
      /\ new.firstUsed = e
  BY DEF GetElem
<1>3. ElemsTyped(new)
  <2>1. /\ es.next \in [Elems -> Elems \cup {End}] /\ es.prev \in [Elems -> Elems \cup {End}]
        /\ es.free \in [Elems -> BOOLEAN]
        /\ es.lastFree \in Elems \cup {End} /\ es.firstUsed \in Elems \cup {End}
    BY DEF ElementsOk, ElemsTyped
  <2> QED BY <1>1, <2>1 DEF ElemsTyped, GetElem
<1>4. FreeListed(new)
  BY <1>1, <1>2, EndIsNone DEF ElementsOk, ElemsTyped, FreeListed
<1>5. UsedListed(new)
  BY <1>1, <1>2, EndIsNone DEF ElementsOk, ElemsTyped, UsedListed
<1> QED BY <1>1, <1>2, <1>3, <1>4, <1>5 DEF ElementsOk

LEMMA PutElemKeeps ==
  ASSUME NEW es, ElementsOk(es), NEW e \in Elems, ~es.free[e]
  PROVE  /\ ElementsOk(PutElem(es, e))
         /\ PutElem(es, e).free = [es.free EXCEPT ![e] = TRUE]
<1> DEFINE new == PutElem(es, e)
<1>1. /\ es.next \in [Elems -> Elems \cup {End}] /\ es.prev \in [Elems -> Elems \cup {End}]
      /\ es.free \in [Elems -> BOOLEAN]
      /\ es.firstFree \in Elems \cup {End}
      /\ es.lastFree \in Elems \cup {End} /\ es.firstUsed \in Elems \cup {End}
  BY DEF ElementsOk, ElemsTyped
<1>2. /\ new.next = [f \in Elems |-> IF f = e THEN End
                                     ELSE IF f = es.prev[e] THEN es.next[e]
                                     ELSE IF f = es.lastFree THEN e ELSE es.next[f]]
      /\ new.prev = [f \in Elems |-> IF f = es.next[e] THEN es.prev[e] ELSE es.prev[f]]
      /\ new.free = [es.free EXCEPT ![e] = TRUE]
      /\ new.firstFree = IF es.firstFree = End THEN e ELSE es.firstFree
      /\ new.lastFree = e
      /\ new.firstUsed = IF es.firstUsed = e THEN es.next[e] ELSE es.firstUsed
  BY DEF PutElem
<1>3. ElemsTyped(new)
  BY <1>1 DEF ElemsTyped, PutElem
<1>4. es.prev[e] = End \/ ~es.free[es.prev[e]]
  BY DEF ElementsOk, UsedListed
<1>5. \A f \in Elems : es.free[f] => new.next[f] = IF f = es.lastFree THEN e ELSE es.next[f]
  BY <1>2, <1>4, EndIsNone
<1>6. \A f \in Elems : new.free[f] <=> (f = e \/ es.free[f])
  BY <1>1, <1>2
<1>7. FreeListed(new)
  <2>1. new.firstFree # End /\ new.free[new.firstFree] /\ new.free[new.lastFree]
    BY <1>1, <1>2, <1>6, EndIsNone DEF ElementsOk, FreeListed
  <2>2. ASSUME NEW f \in Elems, new.free[f], new.next[f] = End PROVE f = e
    BY <1>1, <1>5, <1>6, <2>2, EndIsNone DEF ElementsOk, FreeListed
  <2>3. ASSUME NEW f \in Elems, new.free[f], new.next[f] # End
        PROVE  new.free[new.next[f]] /\ new.next[f] # new.firstFree
    <3>1. f # e /\ es.free[f]
      BY <1>2, <1>6, <2>3
    <3>2. CASE f = es.lastFree
      BY <1>1, <1>2, <1>5, <1>6, <3>1, <3>2, EndIsNone DEF ElementsOk, FreeListed
    <3>3. CASE f # es.lastFree
      BY <1>1, <1>2, <1>5, <1>6, <2>3, <3>1, <3>3, EndIsNone DEF ElementsOk, FreeListed
    <3> QED BY <3>2, <3>3
  <2>4. ASSUME NEW f \in Elems, NEW g \in Elems, new.free[f], new.free[g],
               new.next[f] = new.next[g], new.next[f] # End
        PROVE  f = g
    <3>1. es.free[f] /\ es.free[g]
      BY <1>2, <1>6, <2>4
    <3>2. \A x \in Elems : es.free[x] => es.next[x] # e
      BY <1>1, EndIsNone DEF ElementsOk, FreeListed
    <3> QED BY <1>5, <2>4, <3>1, <3>2 DEF ElementsOk, FreeListed
  <2> QED BY <1>2, <2>1, <2>2, <2>3, <2>4 DEF FreeListed
<1>8. UsedListed(new)
  <2> SUFFICES ASSUME NEW f \in Elems, ~new.free[f], new.prev[f] # End
               PROVE  ~new.free[new.prev[f]] /\ new.next[new.prev[f]] = f
    BY DEF UsedListed
  <2>1. f # e /\ ~es.free[f]
    BY <1>6
  <2>2. CASE f = es.next[e]
    <3>1. new.prev[f] = es.prev[e] /\ es.prev[e] \in Elems /\ ~es.free[es.prev[e]]
      BY <1>1, <1>2, <1>4, <2>2
    <3>2. es.prev[e] # e
      BY <2>1, <2>2, <3>1, EndIsNone DEF ElementsOk, UsedListed
    <3> QED BY <1>2, <1>6, <2>2, <3>1, <3>2
  <2>3. CASE f # es.next[e]
    <3>1. new.prev[f] = es.prev[f] /\ es.prev[f] \in Elems
      BY <1>1, <1>2, <2>3
    <3>2. ~es.free[es.prev[f]] /\ es.next[es.prev[f]] = f
      BY <2>1, <3>1, EndIsNone DEF ElementsOk, UsedListed
    <3>3. es.prev[f] # e /\ es.prev[f] # es.prev[e] /\ es.prev[f] # es.lastFree
      BY <1>1, <2>1, <2>3, <3>1, <3>2, EndIsNone DEF ElementsOk, UsedListed, FreeListed
    <3> QED BY <1>2, <1>6, <3>1, <3>2, <3>3
  <2> QED BY <2>2, <2>3
<1> QED BY <1>2, <1>3, <1>7, <1>8 DEF ElementsOk

-----------------------------------------------------------------------------
(* Buckets *)

LEMMA LeastElement ==
  ASSUME NEW S, S \subseteq Nat, S # {}
  PROVE  \E x \in S : \A y \in S : x <= y
<1> DEFINE R == OpToRel(<, Nat)
<1>1. PICK x \in S : \A y \in S : ~(<<y, x>> \in R)
  BY NatLessThanWellFounded, WFMin
<1>2. ASSUME NEW y \in S, y < x PROVE FALSE
  <2>1. <<y, x>> \in Nat \X Nat /\ <<y, x>>[1] < <<y, x>>[2]
    BY <1>2
  <2>2. <<y, x>> \in R
    BY <2>1, Zenon DEF OpToRel
  <2> QED BY <1>1, <2>2
<1> QED BY <1>2

LEMMA SizesAreNat ==
  /\ Buckets \subseteq Nat /\ Top \in Buckets /\ 0 \in Buckets
  /\ \A b \in Buckets : BlockSize[b] \in Nat \ {0}
  /\ \A b \in Buckets : BlockSize[b] <= BlockSize[Top]
<1>1. /\ Buckets \subseteq Nat /\ Top \in Buckets /\ 0 \in Buckets
      /\ \A b \in Buckets : BlockSize[b] \in Nat \ {0}
  BY PoolAssumption DEF Buckets
<1>2. ASSUME NEW b \in Buckets PROVE BlockSize[b] <= BlockSize[Top]
  <2>1. b = Top \/ b < Top
    BY PoolAssumption DEF Buckets
  <2> QED BY <1>1, <2>1, PoolAssumption
<1> QED BY <1>1, <1>2

\* The bucket of a length that fits is large enough, and those before it are not.
LEMMA FitFits ==
  ASSUME NEW n \in Nat, Fits(n)
  PROVE  /\ Fit(n) \in Buckets /\ n <= BlockSize[Fit(n)]
         /\ \A c \in Buckets : c < Fit(n) => n > BlockSize[c]
<1> DEFINE S == {b \in Buckets : n <= BlockSize[b]}
<1>1. S \subseteq Nat /\ S # {}
  BY SizesAreNat DEF Fits
<1>2. PICK b \in S : \A c \in S : b <= c
  BY <1>1, LeastElement
<1>3. \A c \in Buckets : c < b => n > BlockSize[c]
  BY <1>1, <1>2, SizesAreNat
<1> QED BY <1>2, <1>3 DEF Fit

LEMMA SizesDiffer ==
  ASSUME NEW b \in Buckets, NEW c \in Buckets, b # c
  PROVE  BlockSize[b] # BlockSize[c]
<1>1. b \in Nat /\ c \in Nat /\ BlockSize[b] \in Nat /\ BlockSize[c] \in Nat
  BY SizesAreNat
<1>2. CASE b < c
  BY <1>1, <1>2, PoolAssumption
<1>3. CASE c < b
  BY <1>1, <1>3, PoolAssumption
<1> QED BY <1>1, <1>2, <1>3

\* release finds the bucket a block is of.
LEMMA FitOfSize ==
  ASSUME NEW b \in Buckets
  PROVE  Fit(BlockSize[b]) = b
<1> DEFINE c == Fit(BlockSize[b])
<1>1. BlockSize[b] \in Nat /\ Fits(BlockSize[b])
  BY SizesAreNat DEF Fits
<1>2. /\ c \in Buckets /\ BlockSize[b] <= BlockSize[c]
      /\ \A d \in Buckets : d < c => BlockSize[b] > BlockSize[d]
  BY <1>1, FitFits
<1>3. b \in Nat /\ c \in Nat /\ BlockSize[c] \in Nat
  BY <1>2, SizesAreNat
<1>4. ~(b < c)
  BY <1>1, <1>2
<1>5. ~(c < b)
  BY <1>1, <1>2, <1>3, PoolAssumption
<1> QED BY <1>3, <1>4, <1>5

\* get_fit_size() gives the smallest size that is enough, if there is one.
LEMMA FitIsSmallest ==
  ASSUME NEW n \in Nat
  PROVE  /\ Fits(n) <=> A!Enough(n) # {}
         /\ Fits(n) => A!Smallest(A!Enough(n)) = BlockSize[Fit(n)]
<1>1. A!Enough(n) = {size \in {BlockSize[b] : b \in Buckets} : n <= size}
  BY DEF A!Enough
<1>2. Fits(n) <=> A!Enough(n) # {}
  BY <1>1, SizesAreNat DEF Fits
<1>3. ASSUME Fits(n) PROVE A!Smallest(A!Enough(n)) = BlockSize[Fit(n)]
  <2>1. /\ Fit(n) \in Buckets /\ n <= BlockSize[Fit(n)]
        /\ \A c \in Buckets : c < Fit(n) => n > BlockSize[c]
    BY <1>3, FitFits
  <2>2. BlockSize[Fit(n)] \in A!Enough(n)
    BY <1>1, <2>1
  <2>3. ASSUME NEW c \in Buckets, n <= BlockSize[c] PROVE BlockSize[Fit(n)] <= BlockSize[c]
    <3>1. /\ c \in Nat /\ Fit(n) \in Nat
          /\ BlockSize[c] \in Nat /\ BlockSize[Fit(n)] \in Nat
      BY <2>1, SizesAreNat
    <3>2. CASE c < Fit(n)
      BY <2>1, <2>3, <3>1, <3>2
    <3>3. CASE c = Fit(n)
      BY <3>1, <3>3
    <3>4. CASE Fit(n) < c
      BY <2>1, <3>1, <3>4, PoolAssumption
    <3> QED BY <3>1, <3>2, <3>3, <3>4
  <2>4. \A size \in A!Enough(n) : BlockSize[Fit(n)] <= size
    BY <1>1, <2>3
  <2>5. \A size \in A!Enough(n) : size \in Nat
    BY <1>1, SizesAreNat
  <2>6. \A x \in A!Enough(n) : (\A size \in A!Enough(n) : x <= size) => x = BlockSize[Fit(n)]
    BY <2>2, <2>4, <2>5
  <2> QED BY <2>2, <2>4, <2>6 DEF A!Smallest
<1> QED BY <1>2, <1>3

-----------------------------------------------------------------------------
(* The inductive invariant *)

JobType ==
  [do : Jobs, n : Nat, b : Buckets, k : Buckets, left : Int, block : Blocks \cup {NoBlock}]

\* Types, but for the counters: that free_block_count does not fall below zero
\* is a matter of how many blocks there are, which nothing below depends on.
Typed ==
  /\ ptr \in [Elems -> Addrs \cup {Nowhere}]
  /\ link \in [Elems -> Elems \cup {End}]
  /\ bucket \in [Buckets -> [first : Elems \cup {End}, free : Int, total : Int]]
  /\ DOMAIN heap \subseteq Addrs
  /\ held \subseteq Blocks
  /\ job \in JobType

\* Each used element has memory of its own, of the size of a bucket.
Backed ==
  /\ \A e \in Used : ptr[e] \in DOMAIN heap /\ \E b \in Buckets : heap[ptr[e]] = BlockSize[b]
  /\ \A e, f \in Used : ptr[e] = ptr[f] => e = f

\* What callers hold is what the element says, under a cookie for each.
HeldIsUsed ==
  /\ \A block \in held :
       block.cookie \in Used /\ ptr[block.cookie] = block.ptr /\ heap[block.ptr] = block.size
  /\ \A block, other \in held : block.cookie = other.cookie => block = other

\* The elements in nobody's hands, which are in the buckets' lists: a list stays
\* in its bucket, no two elements lead to the same one, and none to a first.
Listed == {e \in Used : \A block \in held : block.cookie # e}

ListsApart ==
  /\ \A b \in Buckets : bucket[b].first # End =>
       bucket[b].first \in Listed /\ heap[ptr[bucket[b].first]] = BlockSize[b]
  /\ \A e \in Listed : link[e] # End =>
       /\ link[e] \in Listed /\ heap[ptr[link[e]]] = heap[ptr[e]]
       /\ \A b \in Buckets : bucket[b].first # link[e]
       /\ \A f \in Listed : link[f] = link[e] => f = e

\* The one that has m_mutex is at work on the bucket for what was asked, and has
\* a block for it before it takes one.
AtWork ==
  /\ job.do \in {"expand", "recycle", "grow", "take"} => Fits(job.n) /\ job.b = Fit(job.n)
  /\ job.do = "take" => bucket[job.b].first # End
  /\ job.do = "grow" => job.left = Delta(job.b) \/ bucket[job.b].first # End

IInv == Typed /\ ElementsOk(elems) /\ Backed /\ HeldIsUsed /\ ListsApart /\ AtWork

LEMMA DeltaInt == ASSUME NEW b \in Buckets PROVE Delta(b) \in Int
<1>1. BlockSize[b] \in Nat \ {0} /\ Medium \in Nat /\ SmallCount \in Nat
  BY PoolAssumption
<1>2. (2 * Medium) \div BlockSize[b] \in Int
  BY <1>1
<1> QED BY <1>1, <1>2 DEF Delta

LEMMA RecycleCountInt ==
  ASSUME NEW bk, bk.free \in Int, NEW b, NEW threshold
  PROVE  RecycleCount(bk, b, threshold) \in Int
<1>1. (bk.free + 1) \div 2 \in Int /\ bk.free \div 2 \in Int
  OBVIOUS
<1> QED BY <1>1 DEF RecycleCount

LEMMA IdleTyped ==
  /\ Idle \in JobType
  /\ \A block \in Blocks \cup {NoBlock} :
       /\ Returning(block) \in JobType
       /\ Returning(block).do = "return" /\ Returning(block).block = block
<1>1. Idle \in JobType
  BY SizesAreNat DEF Idle, Jobs, JobType
<1>2. ASSUME NEW block \in Blocks \cup {NoBlock}
      PROVE  /\ Returning(block) \in JobType
             /\ Returning(block).do = "return" /\ Returning(block).block = block
  <2>1. "return" \in Jobs
    BY DEF Jobs
  <2> QED BY <1>1, <2>1 DEF Returning, JobType
<1> QED BY <1>1, <1>2

LEMMA Initially == PoolInit => IInv
<1> SUFFICES ASSUME PoolInit PROVE IInv
  OBVIOUS
<1> USE EndIsNone, ElementAssumption DEF PoolInit
<1>1. ElementsOk(elems)
  <2>1. 0 \in Elems /\ MaxBlocks - 1 \in Elems
    BY DEF Elems
  <2>2. \A e \in Elems : IF e = MaxBlocks - 1 THEN TRUE ELSE e + 1 \in Elems /\ e + 1 # 0 /\ e + 1 # End
    BY DEF Elems, End
  <2>3. ElemsTyped(elems)
    BY <2>1, <2>2 DEF ElemsTyped, AllFree
  <2>4. FreeListed(elems)
    BY <2>1, <2>2 DEF FreeListed, AllFree, Elems, End
  <2>5. UsedListed(elems)
    BY DEF UsedListed, AllFree
  <2> QED BY <2>3, <2>4, <2>5 DEF ElementsOk
<1>2. Used = {} /\ Listed = {}
  BY DEF Used, Listed, AllFree
<1>3. Typed
  <2>1. job \in JobType
    BY IdleTyped
  <2>2. DOMAIN heap = {}
    OBVIOUS
  <2> QED BY <2>1, <2>2 DEF Typed
<1>4. Backed /\ HeldIsUsed /\ ListsApart
  BY <1>2 DEF Backed, HeldIsUsed, ListsApart
<1>5. AtWork
  BY DEF AtWork, Idle
<1> QED BY <1>1, <1>3, <1>4, <1>5 DEF IInv

LEMMA AllocKeeps ==
  ASSUME IInv, NEW n \in Lens, Alloc(n)
  PROVE  IInv'
<1>1. n \in Nat
  BY PoolAssumption
<1>2. UNCHANGED <<elems, ptr, link, bucket, heap, held>>
  BY DEF Alloc, lists
<1>3. job' = Returning(NoBlock) \/ /\ Fits(n)
                                   /\ job'.do \in {"expand", "take"} /\ job'.n = n /\ job'.b = Fit(n)
                                   /\ job'.do = "take" => bucket[Fit(n)].first # End
                                   /\ job' = [Idle EXCEPT !.n = n, !.b = Fit(n), !.do = job'.do]
  BY DEF Alloc, Idle
<1>4. Typed'
  <2>1. job' \in JobType
    <3>1. CASE job' = Returning(NoBlock)
      BY <3>1, IdleTyped
    <3>2. CASE job' # Returning(NoBlock)
      <4>1. /\ job'.do \in {"expand", "take"} /\ Fit(n) \in Buckets
            /\ job' = [Idle EXCEPT !.n = n, !.b = Fit(n), !.do = job'.do]
        BY <1>1, <1>3, <3>2, FitFits
      <4>2. job'.do \in Jobs
        BY <4>1 DEF Jobs
      <4> QED BY <1>1, <4>1, <4>2, IdleTyped DEF JobType
    <3> QED BY <3>1, <3>2
  <2> QED BY <1>2, <2>1 DEF IInv, Typed
<1>5. AtWork'
  BY <1>2, <1>3 DEF AtWork, Returning, Idle, Fits
<1> QED BY <1>2, <1>4, <1>5
        DEF IInv, ElementsOk, ElemsTyped, FreeListed, UsedListed, Backed, HeldIsUsed, ListsApart, Listed, Used

\* The steps that only go on with job.
LEMMA MovesKeep ==
  ASSUME IInv, Expand \/ RecycleNext \/ GrowFails \/ Return \/ TrimDone
  PROVE  IInv'
<1>1. UNCHANGED <<elems, ptr, link, bucket, heap, held>>
  BY DEF Expand, RecycleNext, GrowFails, Return, TrimDone, lists
<1>2. job \in JobType /\ AtWork
  BY DEF IInv, Typed
<1>3. ASSUME NEW k \in Buckets PROVE Recycling(k) \in JobType
  <2>1. bucket[k].free \in Int
    BY DEF IInv, Typed
  <2> QED BY <1>2, <2>1, RecycleCountInt DEF Recycling, Jobs, JobType
<1>4. Growing \in JobType
  BY <1>2, DeltaInt DEF Growing, Jobs, JobType
<1>5. Idle \in JobType /\ Returning(NoBlock) \in JobType /\ Returning(NoBlock).do = "return"
  BY IdleTyped
<1>6. job' \in JobType /\ AtWork'
  <2>1. CASE Expand
    BY <1>1, <1>2, <1>3, <1>4, <2>1, SizesAreNat DEF Expand, AtWork, Recycling, Growing, JobType, Fits, Delta
  <2>2. CASE RecycleNext
    <3>1. job.k < Top => job.k + 1 \in Buckets
      <4>1. job.k \in Buckets
        BY <1>2 DEF JobType
      <4> QED BY <4>1, PoolAssumption DEF Buckets
    <3> QED BY <1>1, <1>2, <1>3, <1>4, <1>5, <2>2, <3>1
            DEF RecycleNext, AtWork, Recycling, Growing, JobType, Fits, Delta
  <2>3. CASE GrowFails
    BY <1>1, <1>2, <1>5, <2>3 DEF GrowFails, AtWork, JobType, Fits, Jobs
  <2>4. CASE Return \/ TrimDone
    BY <1>1, <1>5, <2>4 DEF Return, TrimDone, AtWork, Idle
  <2> QED BY <2>1, <2>2, <2>3, <2>4
<1>7. Typed'
  BY <1>1, <1>6 DEF IInv, Typed
<1> QED BY <1>1, <1>6, <1>7
        DEF IInv, ElementsOk, ElemsTyped, FreeListed, UsedListed, Backed, HeldIsUsed, ListsApart, Listed, Used

\* What is recycled was in nobody's hands: what callers hold is still there.
LEMMA RecycleKeeps ==
  ASSUME IInv, Recycle
  PROVE  IInv'
<1> DEFINE k == job.k
           e == bucket[k].first
<1>1. /\ k \in Buckets /\ e \in Elems /\ e \in Used /\ e \in Listed
      /\ ~elems.free[e] /\ heap[ptr[e]] = BlockSize[k]
  BY DEF IInv, Typed, JobType, ListsApart, Recycle, Listed, Used
<1>2. UNCHANGED <<ptr, link, held>>
  BY DEF Recycle
<1>3. ElementsOk(elems') /\ elems'.free = [elems.free EXCEPT ![e] = TRUE]
  BY <1>1, PutElemKeeps DEF IInv, Recycle
<1>4. Used' = Used \ {e} /\ Listed' = Listed \ {e}
  <2>1. elems.free \in [Elems -> BOOLEAN]
    BY DEF IInv, ElementsOk, ElemsTyped
  <2>2. Used' = Used \ {e}
    BY <1>1, <1>3, <2>1 DEF Used
  <2> QED BY <1>2, <2>2 DEF Listed
<1>5. /\ DOMAIN heap' = DOMAIN heap \ {ptr[e]}
      /\ \A f \in Used' : ptr[f] \in DOMAIN heap' /\ heap'[ptr[f]] = heap[ptr[f]]
  BY <1>1, <1>4 DEF IInv, Backed, Recycle, Restrict
<1>6. /\ bucket' \in [Buckets -> [first : Elems \cup {End}, free : Int, total : Int]]
      /\ \A b \in Buckets : bucket'[b].first = IF b = k THEN link[e] ELSE bucket[b].first
  BY <1>1 DEF IInv, Typed, Recycle
<1>7. /\ job' \in JobType /\ job'.do = job.do /\ job.do \in {"recycle", "trim"}
      /\ job'.n = job.n /\ job'.b = job.b
  BY DEF IInv, Typed, JobType, Recycle
<1>8. Typed'
  BY <1>2, <1>5, <1>6, <1>7 DEF IInv, Typed
<1>9. Backed'
  BY <1>2, <1>4, <1>5 DEF IInv, Backed
<1>10. HeldIsUsed'
  <2>1. \A block \in held : block.cookie \in Used' /\ ptr[block.cookie] = block.ptr
    BY <1>1, <1>4 DEF IInv, HeldIsUsed, Listed
  <2> QED BY <1>2, <1>5, <2>1 DEF IInv, HeldIsUsed
<1>11. ListsApart'
  <2>1. ASSUME NEW b \in Buckets, bucket'[b].first # End
        PROVE  bucket'[b].first \in Listed' /\ heap'[ptr'[bucket'[b].first]] = BlockSize[b]
    <3>1. CASE b = k
      <4>1. link[e] \in Listed /\ link[e] # e /\ heap[ptr[link[e]]] = BlockSize[k]
        <5>1. bucket[b].first = e /\ link[e] # End
          BY <1>6, <2>1, <3>1
        <5>2. ListsApart
          BY DEF IInv
        <5> QED BY <1>1, <3>1, <5>1, <5>2 DEF ListsApart
      <4>2. bucket'[b].first = link[e] /\ link[e] \in Listed' /\ link[e] \in Used'
        BY <1>4, <1>6, <3>1, <4>1 DEF Listed
      <4> QED BY <1>2, <1>5, <3>1, <4>1, <4>2
    <3>2. CASE b # k
      <4>1. /\ bucket[b].first \in Listed /\ heap[ptr[bucket[b].first]] = BlockSize[b]
            /\ bucket'[b].first = bucket[b].first
        BY <1>6, <2>1, <3>2 DEF IInv, ListsApart
      <4>2. BlockSize[b] # BlockSize[k]
        BY <1>1, <3>2, SizesDiffer
      <4> QED BY <1>1, <1>2, <1>4, <1>5, <4>1, <4>2 DEF Listed
    <3> QED BY <3>1, <3>2
  <2>2. ASSUME NEW f \in Listed', link[f] # End
        PROVE  /\ link[f] \in Listed' /\ heap'[ptr[link[f]]] = heap'[ptr[f]]
               /\ \A b \in Buckets : bucket'[b].first # link[f]
               /\ \A g \in Listed' : link[g] = link[f] => g = f
    <3>1. /\ f \in Listed /\ f # e
          /\ link[f] \in Listed /\ heap[ptr[link[f]]] = heap[ptr[f]]
          /\ \A b \in Buckets : bucket[b].first # link[f]
          /\ \A g \in Listed : link[g] = link[f] => g = f
      BY <1>4, <2>2 DEF IInv, ListsApart
    <3>2. link[f] # e /\ link[f] # link[e]
      BY <1>1, <3>1
    <3> QED BY <1>4, <1>5, <1>6, <3>1, <3>2 DEF Listed
  <2> QED BY <1>2, <2>1, <2>2 DEF ListsApart
<1>12. AtWork'
  BY <1>7 DEF IInv, AtWork, Fits
<1> QED BY <1>3, <1>8, <1>9, <1>10, <1>11, <1>12 DEF IInv

\* The new block is the first of its bucket's list; its element was free.
LEMMA GrowKeeps ==
  ASSUME IInv, Grow
  PROVE  IInv'
<1> DEFINE b == job.b
           e == elems.firstFree
<1>1. b \in Buckets /\ held' = held /\ e # End
  BY DEF IInv, Typed, JobType, Grow
<1>2. PICK p \in Addrs \ DOMAIN heap :
        /\ heap' = [q \in DOMAIN heap \cup {p} |-> IF q = p THEN BlockSize[b] ELSE heap[q]]
        /\ ptr' = [ptr EXCEPT ![e] = p]
  BY DEF Grow
<1>3. /\ ElementsOk(elems') /\ elems'.free = [elems.free EXCEPT ![e] = FALSE]
      /\ e \in Elems /\ elems.free[e]
  BY <1>1, GetElemKeeps DEF IInv, Grow
<1>4. e \notin Used /\ Used' = Used \cup {e}
  <2>1. elems.free \in [Elems -> BOOLEAN]
    BY DEF IInv, ElementsOk, ElemsTyped
  <2> QED BY <1>3, <2>1 DEF Used
<1>5. Listed' = Listed \cup {e} /\ e \notin Listed
  BY <1>1, <1>4 DEF IInv, HeldIsUsed, Listed
<1>6. /\ DOMAIN heap' = DOMAIN heap \cup {p}
      /\ ptr'[e] = p /\ heap'[p] = BlockSize[b]
      /\ \A f \in Used : /\ ptr'[f] = ptr[f] /\ ptr[f] \in DOMAIN heap /\ ptr[f] # p
                         /\ heap'[ptr[f]] = heap[ptr[f]]
  BY <1>2, <1>3, <1>4 DEF IInv, Typed, Backed, Used
<1>7. /\ link' \in [Elems -> Elems \cup {End}]
      /\ link'[e] = bucket[b].first
      /\ \A f \in Elems \ {e} : link'[f] = link[f]
  BY <1>1, <1>3 DEF IInv, Typed, Grow
<1>8. /\ bucket' \in [Buckets -> [first : Elems \cup {End}, free : Int, total : Int]]
      /\ \A c \in Buckets : bucket'[c].first = IF c = b THEN e ELSE bucket[c].first
  BY <1>1, <1>3 DEF IInv, Typed, Grow
<1>9. /\ job' \in JobType /\ job.do = "grow" /\ job'.do \in {"grow", "take"}
      /\ job'.n = job.n /\ job'.b = b
  <2>1. job \in JobType /\ "take" \in Jobs /\ "grow" \in Jobs /\ job.do = "grow"
    BY DEF IInv, Typed, Jobs, Grow
  <2>2. PICK to \in {"grow", "take"} : job' = [job EXCEPT !.left = @ - 1, !.do = to]
    BY DEF Grow
  <2>3. job' \in JobType
    <3>1. to \in Jobs /\ job.left - 1 \in Int
      BY <2>1, <2>2 DEF JobType
    <3>2. job' = [[job EXCEPT !.left = job.left - 1] EXCEPT !.do = to]
      BY <2>2
    <3>3. [job EXCEPT !.left = job.left - 1] \in JobType
      BY <2>1, <3>1 DEF JobType
    <3> QED BY <3>1, <3>2, <3>3 DEF JobType
  <2>4. job'.do = to /\ job'.n = job.n /\ job'.b = job.b
    BY <2>1, <2>2 DEF JobType
  <2> QED BY <2>1, <2>3, <2>4
<1>10. Typed'
  <2>1. ptr' \in [Elems -> Addrs \cup {Nowhere}]
    BY <1>2 DEF IInv, Typed
  <2> QED BY <1>1, <1>2, <1>6, <1>7, <1>8, <1>9, <2>1 DEF IInv, Typed
<1>11. Backed'
  BY <1>1, <1>4, <1>6 DEF IInv, Backed
<1>12. HeldIsUsed'
  <2>1. ASSUME NEW block \in held
        PROVE  /\ block.cookie \in Used' /\ ptr'[block.cookie] = block.ptr
               /\ heap'[block.ptr] = block.size
    <3>1. block.cookie \in Used /\ ptr[block.cookie] = block.ptr /\ heap[block.ptr] = block.size
      BY DEF IInv, HeldIsUsed
    <3> QED BY <1>4, <1>6, <3>1
  <2> QED BY <1>1, <2>1 DEF IInv, HeldIsUsed
<1>13. ListsApart'
  <2>1. ASSUME NEW c \in Buckets, bucket'[c].first # End
        PROVE  bucket'[c].first \in Listed' /\ heap'[ptr'[bucket'[c].first]] = BlockSize[c]
    <3>1. CASE c = b
      BY <1>5, <1>6, <1>8, <3>1
    <3>2. CASE c # b
      <4>1. bucket[c].first \in Listed /\ heap[ptr[bucket[c].first]] = BlockSize[c]
        BY <1>8, <2>1, <3>2 DEF IInv, ListsApart
      <4> QED BY <1>5, <1>6, <1>8, <3>2, <4>1 DEF Listed
    <3> QED BY <3>1, <3>2
  <2>2. ASSUME NEW f \in Listed', link'[f] # End
        PROVE  /\ link'[f] \in Listed' /\ heap'[ptr'[link'[f]]] = heap'[ptr'[f]]
               /\ \A c \in Buckets : bucket'[c].first # link'[f]
               /\ \A g \in Listed' : link'[g] = link'[f] => g = f
    <3>1. \A g \in Listed : g \in Used /\ g \in Elems /\ g # e
      BY <1>5 DEF Listed, Used
    <3>2. CASE f = e
      <4>1. /\ link'[f] = bucket[b].first /\ bucket[b].first \in Listed
            /\ heap[ptr[bucket[b].first]] = BlockSize[b]
        BY <1>1, <1>7, <2>2, <3>2 DEF IInv, ListsApart
      <4>2. \A c \in Buckets \ {b} : bucket[c].first # bucket[b].first
        <5>1. \A c \in Buckets \ {b} : BlockSize[c] # BlockSize[b]
          BY <1>1, SizesDiffer
        <5> QED BY <2>2, <4>1, <5>1 DEF IInv, ListsApart
      <4>3. \A g \in Listed : link'[g] # bucket[b].first
        BY <1>1, <1>7, <2>2, <3>1, <4>1 DEF IInv, ListsApart
      <4> QED BY <1>5, <1>6, <1>8, <3>1, <3>2, <4>1, <4>2, <4>3
    <3>3. CASE f # e
      <4>1. f \in Listed /\ link'[f] = link[f]
        BY <1>5, <1>7, <3>1, <3>3
      <4>2. /\ link[f] \in Listed /\ heap[ptr[link[f]]] = heap[ptr[f]]
            /\ \A c \in Buckets : bucket[c].first # link[f]
            /\ \A g \in Listed : link[g] = link[f] => g = f
        BY <2>2, <4>1 DEF IInv, ListsApart
      <4> QED BY <1>1, <1>5, <1>6, <1>7, <1>8, <3>1, <4>1, <4>2
    <3> QED BY <3>2, <3>3
  <2> QED BY <2>1, <2>2 DEF ListsApart
<1>14. AtWork'
  BY <1>1, <1>3, <1>8, <1>9, EndIsNone DEF IInv, AtWork, Fits
<1> QED BY <1>3, <1>10, <1>11, <1>12, <1>13, <1>14 DEF IInv

\* The block that is taken leaves its bucket's list.
LEMMA TakeKeeps ==
  ASSUME IInv, Take
  PROVE  IInv'
<1> DEFINE b == job.b
           e == bucket[b].first
           block == [ptr |-> ptr[e], size |-> BlockSize[b], cookie |-> e]
<1>1. /\ b \in Buckets /\ e \in Elems /\ e \in Used /\ e \in Listed
      /\ heap[ptr[e]] = BlockSize[b]
  BY DEF IInv, Typed, JobType, ListsApart, AtWork, Take, Listed, Used
<1>2. UNCHANGED <<elems, ptr, link, heap>> /\ held' = held \cup {block} /\ job' = Returning(block)
  BY DEF Take
<1>3. Used' = Used /\ Listed' = Listed \ {e}
  BY <1>1, <1>2 DEF Used, Listed
<1>4. block \in Blocks
  BY <1>1 DEF IInv, Typed, Backed, Blocks
<1>5. /\ bucket' \in [Buckets -> [first : Elems \cup {End}, free : Int, total : Int]]
      /\ \A c \in Buckets : bucket'[c].first = IF c = b THEN link[e] ELSE bucket[c].first
  <2>1. bucket' = [bucket EXCEPT ![b].first = link[e], ![b].free = @ - 1]
    BY DEF Take
  <2>2. /\ bucket \in [Buckets -> [first : Elems \cup {End}, free : Int, total : Int]]
        /\ link[e] \in Elems \cup {End}
    BY <1>1 DEF IInv, Typed
  <2>3. b \in Buckets
    BY <1>1
  <2> HIDE DEF b, e
  <2> QED BY <2>1, <2>2, <2>3
<1>6. Typed'
  BY <1>2, <1>4, <1>5, IdleTyped DEF IInv, Typed
<1>7. Backed'
  BY <1>2, <1>3 DEF IInv, Backed
<1>8. HeldIsUsed'
  <2>1. \A other \in held : other.cookie # e
    BY <1>1 DEF Listed
  <2> QED BY <1>1, <1>2, <1>3, <2>1 DEF IInv, HeldIsUsed
<1>9. ListsApart'
  <2>1. ASSUME NEW c \in Buckets, bucket'[c].first # End
        PROVE  bucket'[c].first \in Listed' /\ heap[ptr[bucket'[c].first]] = BlockSize[c]
    <3>1. CASE c = b
      <4>1. link[e] \in Listed /\ link[e] # e /\ heap[ptr[link[e]]] = BlockSize[b]
        <5>1. bucket[b].first = e /\ link[e] # End
          BY <1>5, <2>1, <3>1
        <5>2. ListsApart
          BY DEF IInv
        <5> QED BY <1>1, <5>1, <5>2 DEF ListsApart
      <4> QED BY <1>3, <1>5, <3>1, <4>1
    <3>2. CASE c # b
      <4>1. /\ bucket[c].first \in Listed /\ heap[ptr[bucket[c].first]] = BlockSize[c]
            /\ bucket'[c].first = bucket[c].first
        BY <1>5, <2>1, <3>2 DEF IInv, ListsApart
      <4>2. BlockSize[c] # BlockSize[b]
        BY <1>1, <3>2, SizesDiffer
      <4> QED BY <1>1, <1>3, <4>1, <4>2
    <3> QED BY <3>1, <3>2
  <2>2. ASSUME NEW f \in Listed', link[f] # End
        PROVE  /\ link[f] \in Listed' /\ heap[ptr[link[f]]] = heap[ptr[f]]
               /\ \A c \in Buckets : bucket'[c].first # link[f]
               /\ \A g \in Listed' : link[g] = link[f] => g = f
    <3>1. /\ f \in Listed /\ f # e
          /\ link[f] \in Listed /\ heap[ptr[link[f]]] = heap[ptr[f]]
          /\ \A c \in Buckets : bucket[c].first # link[f]
          /\ \A g \in Listed : link[g] = link[f] => g = f
      BY <1>3, <2>2 DEF IInv, ListsApart
    <3>2. link[f] # e /\ link[f] # link[e]
      BY <1>1, <3>1
    <3> QED BY <1>3, <1>5, <3>1, <3>2
  <2> QED BY <1>2, <2>1, <2>2 DEF ListsApart
<1>10. AtWork'
  BY <1>2, <1>4, IdleTyped DEF AtWork
<1> QED BY <1>2, <1>6, <1>7, <1>8, <1>9, <1>10
        DEF IInv, ElementsOk, ElemsTyped, FreeListed, UsedListed

\* The block that is released is the first of the list of the bucket it is of.
LEMMA ReleaseKeeps ==
  ASSUME IInv, NEW block \in held, Release(block)
  PROVE  IInv'
<1> DEFINE b == Fit(block.size)
           e == block.cookie
<1>1. /\ e \in Elems /\ e \in Used /\ ptr[e] = block.ptr /\ heap[ptr[e]] = block.size
      /\ \A other \in held \ {block} : other.cookie # e
  BY DEF IInv, HeldIsUsed, Used
<1>2. b \in Buckets /\ BlockSize[b] = block.size
  <2>1. PICK c \in Buckets : block.size = BlockSize[c]
    BY DEF IInv, Typed, Blocks
  <2> QED BY <2>1, FitOfSize
<1>3. UNCHANGED <<elems, ptr, heap>> /\ held' = held \ {block}
  BY DEF Release
<1>4. Used' = Used /\ e \notin Listed /\ Listed' = Listed \cup {e}
  BY <1>1, <1>3 DEF Used, Listed
<1>5. /\ link' \in [Elems -> Elems \cup {End}]
      /\ link'[e] = bucket[b].first
      /\ \A f \in Elems \ {e} : link'[f] = link[f]
  BY <1>1, <1>2 DEF IInv, Typed, Release
<1>6. /\ bucket' \in [Buckets -> [first : Elems \cup {End}, free : Int, total : Int]]
      /\ \A c \in Buckets : bucket'[c].first = IF c = b THEN e ELSE bucket[c].first
  BY <1>1, <1>2 DEF IInv, Typed, Release
<1>7. job' \in JobType /\ job'.do = "trim"
  <2> DEFINE bk == [first |-> e, free |-> bucket[b].free + 1, total |-> bucket[b].total]
  <2>1. RecycleCount(bk, b, MaxPool \div 2) \in Int
    <3>1. bk.free \in Int
      BY <1>2 DEF IInv, Typed
    <3> HIDE DEF bk
    <3> QED BY <3>1, RecycleCountInt
  <2>2. job' = [Idle EXCEPT !.do = "trim", !.k = b, !.left = RecycleCount(bk, b, MaxPool \div 2)]
    BY DEF Release
  <2>3. Idle \in JobType /\ "trim" \in Jobs
    BY IdleTyped DEF Jobs
  <2> HIDE DEF bk
  <2> QED BY <1>2, <2>1, <2>2, <2>3 DEF JobType
<1>8. Typed'
  BY <1>3, <1>5, <1>6, <1>7 DEF IInv, Typed
<1>9. Backed' /\ HeldIsUsed'
  BY <1>3, <1>4 DEF IInv, Backed, HeldIsUsed
<1>10. ListsApart'
  <2>1. ASSUME NEW c \in Buckets, bucket'[c].first # End
        PROVE  bucket'[c].first \in Listed' /\ heap[ptr[bucket'[c].first]] = BlockSize[c]
    BY <1>1, <1>2, <1>4, <1>6, <2>1 DEF IInv, ListsApart
  <2>2. ASSUME NEW f \in Listed', link'[f] # End
        PROVE  /\ link'[f] \in Listed' /\ heap[ptr[link'[f]]] = heap[ptr[f]]
               /\ \A c \in Buckets : bucket'[c].first # link'[f]
               /\ \A g \in Listed' : link'[g] = link'[f] => g = f
    <3>1. \A g \in Listed : g \in Elems /\ g # e
      BY <1>4 DEF Listed, Used
    <3>2. CASE f = e
      <4>1. /\ link'[f] = bucket[b].first /\ bucket[b].first \in Listed
            /\ heap[ptr[bucket[b].first]] = BlockSize[b]
        BY <1>2, <1>5, <2>2, <3>2 DEF IInv, ListsApart
      <4>2. \A c \in Buckets \ {b} : bucket[c].first # bucket[b].first
        <5>1. \A c \in Buckets \ {b} : BlockSize[c] # BlockSize[b]
          BY <1>2, SizesDiffer
        <5> QED BY <2>2, <4>1, <5>1 DEF IInv, ListsApart
      <4>3. \A g \in Listed : link'[g] # bucket[b].first
        BY <1>2, <1>5, <2>2, <3>1, <4>1 DEF IInv, ListsApart
      <4> QED BY <1>1, <1>2, <1>4, <1>6, <3>1, <3>2, <4>1, <4>2, <4>3
    <3>3. CASE f # e
      <4>1. f \in Listed /\ link'[f] = link[f]
        BY <1>4, <1>5, <3>1, <3>3
      <4>2. /\ link[f] \in Listed /\ heap[ptr[link[f]]] = heap[ptr[f]]
            /\ \A c \in Buckets : bucket[c].first # link[f]
            /\ \A g \in Listed : link[g] = link[f] => g = f
        BY <2>2, <4>1 DEF IInv, ListsApart
      <4> QED BY <1>2, <1>4, <1>5, <1>6, <3>1, <4>1, <4>2
    <3> QED BY <3>2, <3>3
  <2> QED BY <1>3, <2>1, <2>2 DEF ListsApart
<1>11. AtWork'
  BY <1>7 DEF AtWork
<1> QED BY <1>3, <1>8, <1>9, <1>10, <1>11
        DEF IInv, ElementsOk, ElemsTyped, FreeListed, UsedListed

LEMMA StepsKeep ==
  ASSUME IInv, [PoolNext]_poolVars
  PROVE  IInv'
<1>1. CASE Inside \/ Return
  BY <1>1, MovesKeep, RecycleKeeps, GrowKeeps, TakeKeeps DEF Inside
<1>2. ASSUME NEW n \in Lens, Alloc(n) PROVE IInv'
  BY <1>2, AllocKeeps
<1>3. ASSUME NEW block \in held, Release(block) PROVE IInv'
  BY <1>3, ReleaseKeeps
<1>4. CASE UNCHANGED poolVars
  BY <1>4 DEF poolVars, IInv, Typed, ElementsOk, ElemsTyped, FreeListed, UsedListed, Backed,
              HeldIsUsed, ListsApart, Listed, Used, AtWork
<1> QED BY <1>1, <1>2, <1>3, <1>4 DEF PoolNext

\* What a block is and where it is follows from the lists being apart.
LEMMA Apart == IInv => BlocksApart
<1> SUFFICES ASSUME IInv PROVE BlocksApart
  OBVIOUS
<1>1. ASSUME NEW block \in held
      PROVE  /\ ~elems.free[block.cookie] /\ ptr[block.cookie] = block.ptr
             /\ block.ptr \in DOMAIN heap /\ heap[block.ptr] = block.size
             /\ \A b \in Buckets : bucket[b].first # block.cookie
             /\ \A e \in Used : link[e] = block.cookie => \E other \in held : other.cookie = e
  <2>1. /\ block.cookie \in Used /\ ptr[block.cookie] = block.ptr /\ heap[block.ptr] = block.size
        /\ block.cookie \notin Listed /\ block.cookie # End
    BY EndIsNone DEF IInv, HeldIsUsed, Listed, Used
  <2>2. \A b \in Buckets : bucket[b].first # block.cookie
    BY <2>1 DEF IInv, ListsApart
  <2>3. \A e \in Used : link[e] = block.cookie => e \notin Listed
    BY <2>1 DEF IInv, ListsApart
  <2> QED BY <2>1, <2>2, <2>3 DEF IInv, Backed, Used, Listed
<1>2. ASSUME NEW block \in held, NEW other \in held,
             block.ptr = other.ptr \/ block.cookie = other.cookie
      PROVE  block = other
  BY <1>2 DEF IInv, HeldIsUsed, Backed
<1> QED BY <1>1, <1>2 DEF BlocksApart

\* For any blocks, sizes and addresses: what callers hold is theirs alone.
THEOREM BlocksStayApart == PoolSpec => []BlocksApart
<1>1. PoolInit => IInv
  BY Initially
<1>2. IInv /\ [PoolNext]_poolVars => IInv'
  BY StepsKeep
<1>3. IInv => BlocksApart
  BY Apart
<1> QED BY <1>1, <1>2, <1>3, PTL DEF PoolSpec

-----------------------------------------------------------------------------
(* The pool is an allocator *)

LEMMA AllocAsks ==
  ASSUME IInv, NEW n \in Lens, Alloc(n)
  PROVE  A!Ask(n)
<1>1. n \in Nat /\ held' = held /\ CallOfAlloc = A!Quiet
  BY PoolAssumption DEF Alloc, CallOfAlloc, A!Quiet
<1>2. CASE Fits(n)
  <2>1. /\ job'.do \in {"expand", "take"} /\ job'.n = n
    BY <1>2 DEF Alloc, Idle
  <2>2. CallOfAlloc' = [do |-> "asked", n |-> n, block |-> NoBlock]
    BY <2>1 DEF CallOfAlloc
  <2> QED BY <1>1, <1>2, <2>2, FitIsSmallest DEF A!Ask
<1>3. CASE ~Fits(n)
  <2>1. job' = Returning(NoBlock)
    BY <1>3 DEF Alloc
  <2>2. CallOfAlloc' = A!Answered(NoBlock)
    BY <2>1, IdleTyped DEF CallOfAlloc, A!Answered
  <2> QED BY <1>1, <1>3, <2>2, FitIsSmallest DEF A!Ask
<1> QED BY <1>2, <1>3

LEMMA TakeGrants ==
  ASSUME IInv, Take
  PROVE  \E p \in Addrs, k \in Elems : A!Grant(p, k)
<1> DEFINE b == job.b
           e == bucket[b].first
           block == [ptr |-> ptr[e], size |-> BlockSize[b], cookie |-> e]
<1>1. /\ b \in Buckets /\ e \in Listed /\ e \in Used /\ e \in Elems
  BY DEF IInv, Typed, JobType, ListsApart, AtWork, Take, Listed, Used
<1>2. ptr[e] \in Addrs /\ job.n \in Nat
  BY <1>1 DEF IInv, Typed, JobType, Backed
<1>3. CallOfAlloc = [do |-> "asked", n |-> job.n, block |-> NoBlock]
  BY DEF Take, CallOfAlloc
<1>4. BlockSize[b] = A!Smallest(A!Enough(job.n))
  BY <1>2, FitIsSmallest DEF IInv, AtWork, Take
<1>5. \A other \in held : other.ptr # ptr[e] /\ other.cookie # e
  BY <1>1 DEF IInv, HeldIsUsed, Backed, Listed
<1>6. block \in Blocks
  BY <1>1, <1>2 DEF Blocks
<1>7. held' = held \cup {block} /\ CallOfAlloc' = A!Answered(block)
  BY <1>6, IdleTyped DEF Take, CallOfAlloc, A!Answered
<1>8. A!Grant(ptr[e], e)
  BY <1>3, <1>4, <1>5, <1>7 DEF A!Grant
<1> QED BY <1>1, <1>2, <1>8

\* The steps inside a call that fail it, or are nobody's business.
LEMMA MovesAreHidden ==
  ASSUME IInv, Expand \/ Recycle \/ RecycleNext \/ Grow \/ GrowFails \/ TrimDone
  PROVE  A!Refuse \/ UNCHANGED <<held, CallOfAlloc>>
<1>1. job \in JobType /\ held' = held
  BY DEF IInv, Typed, Expand, Recycle, RecycleNext, Grow, GrowFails, TrimDone
<1>2. CASE TrimDone
  BY <1>1, <1>2 DEF TrimDone, CallOfAlloc, Idle
<1>3. CASE job' = Returning(NoBlock) /\ job.do \in {"recycle", "grow"}
  <2>1. CallOfAlloc' = A!Answered(NoBlock)
    BY <1>3, IdleTyped DEF CallOfAlloc, A!Answered
  <2>2. CallOfAlloc.do = "asked"
    BY <1>3 DEF CallOfAlloc
  <2> QED BY <1>1, <2>1, <2>2 DEF A!Refuse
<1>4. CASE /\ job'.n = job.n
           /\ job.do \in {"expand", "recycle", "grow"} /\ job'.do \in {"recycle", "grow", "take"}
  BY <1>1, <1>4 DEF CallOfAlloc
<1>5. CASE Expand
  <2>1. job'.n = job.n /\ job.do = "expand" /\ job'.do \in {"recycle", "grow"}
    BY <1>1, <1>5 DEF Expand, Recycling, Growing, JobType
  <2> QED BY <1>4, <2>1
<1>6. CASE Recycle
  <2>1. job'.n = job.n /\ job'.do = job.do /\ job.do \in {"recycle", "trim"}
    BY <1>1, <1>6 DEF Recycle, JobType
  <2> QED BY <1>1, <1>4, <2>1 DEF CallOfAlloc
<1>7. CASE RecycleNext
  <2>1. job.do = "recycle"
        /\ (job' = Returning(NoBlock) \/ (job'.n = job.n /\ job'.do \in {"recycle", "grow"}))
    BY <1>1, <1>7 DEF RecycleNext, Recycling, Growing, JobType
  <2> QED BY <1>3, <1>4, <2>1
<1>8. CASE Grow
  <2>1. job'.n = job.n /\ job.do = "grow" /\ job'.do \in {"grow", "take"}
    BY <1>1, <1>8 DEF Grow, JobType
  <2> QED BY <1>4, <2>1
<1>9. CASE GrowFails
  <2>1. job.do = "grow" /\ (job' = Returning(NoBlock) \/ (job'.n = job.n /\ job'.do = "take"))
    BY <1>1, <1>9 DEF GrowFails, JobType
  <2> QED BY <1>3, <1>4, <2>1
<1> QED BY <1>2, <1>5, <1>6, <1>7, <1>8, <1>9

LEMMA ReturnAnswers ==
  ASSUME IInv, Return
  PROVE  A!Answer
<1>1. job' = Idle /\ held' = held /\ job.do = "return"
  BY DEF Return
<1>2. CallOfAlloc' = A!Quiet
  BY <1>1 DEF CallOfAlloc, A!Quiet, Idle
<1>3. CallOfAlloc.do = "answered"
  BY <1>1 DEF CallOfAlloc
<1> QED BY <1>1, <1>2, <1>3 DEF A!Answer

LEMMA ReleaseReleases ==
  ASSUME IInv, NEW block \in held, Release(block)
  PROVE  A!Release(block)
<1>1. job.do = "idle" /\ held' = held \ {block}
  BY DEF Release
<1>2. job'.do = "trim"
  BY DEF Release, Idle
<1> QED BY <1>1, <1>2 DEF A!Release, A!Quiet, CallOfAlloc

LEMMA StepsImplement ==
  ASSUME IInv, [PoolNext]_poolVars
  PROVE  [A!Next]_<<held, CallOfAlloc>>
<1>1. CASE Inside
  <2>1. CASE Take
    BY <2>1, TakeGrants DEF A!Next
  <2>2. CASE ~Take
    BY <1>1, <2>2, MovesAreHidden DEF Inside, A!Next
  <2> QED BY <2>1, <2>2
<1>2. CASE Return
  BY <1>2, ReturnAnswers DEF A!Next
<1>3. ASSUME NEW n \in Lens, Alloc(n) PROVE A!Next
  BY <1>3, AllocAsks DEF A!Next
<1>4. ASSUME NEW block \in held, Release(block) PROVE A!Next
  BY <1>4, ReleaseReleases DEF A!Next
<1>5. CASE UNCHANGED poolVars
  BY <1>5 DEF poolVars, CallOfAlloc
<1> QED BY <1>1, <1>2, <1>3, <1>4, <1>5 DEF PoolNext

\* For any blocks, sizes and addresses: the pool is an allocator.
THEOREM PoolIsAllocator == PoolSpec => ImplementsAllocator
<1>1. PoolInit => A!Init
  BY DEF PoolInit, A!Init, A!Quiet, CallOfAlloc, Idle
<1>2. PoolInit => IInv
  BY Initially
<1>3. IInv /\ [PoolNext]_poolVars => IInv'
  BY StepsKeep
<1>4. IInv /\ [PoolNext]_poolVars => [A!Next]_<<held, CallOfAlloc>>
  BY StepsImplement
<1> QED BY <1>1, <1>2, <1>3, <1>4, PTL DEF PoolSpec, ImplementsAllocator, A!AllocatorSpec

-----------------------------------------------------------------------------
(* The limit of the pool *)

LEMMA Remainder ==
  ASSUME NEW x \in Int, NEW w \in Nat \ {0}
  PROVE  x % w \in 0 .. w - 1 /\ x = w * (x \div w) + (x % w) /\ x \div w \in Int
  OBVIOUS

LEMMA TimesMore ==
  ASSUME NEW a \in Int, NEW b \in Int, NEW w \in Nat \ {0}, a >= b + 1
  PROVE  w * a >= w * b + w
  OBVIOUS

LEMMA Distributes ==
  ASSUME NEW a \in Int, NEW b \in Int, NEW w \in Int
  PROVE  w * (a + b) = w * a + w * b
  OBVIOUS

LEMMA RemainderIs ==
  ASSUME NEW x \in Int, NEW w \in Nat \ {0}, NEW q \in Int, NEW r \in 0 .. w - 1, x = w * q + r
  PROVE  x % w = r
<1>1. x % w \in 0 .. w - 1 /\ x = w * (x \div w) + (x % w) /\ x \div w \in Int
  BY Remainder
<1>2. CASE x \div w > q
  BY <1>1, <1>2, TimesMore
<1>3. CASE x \div w < q
  BY <1>1, <1>3, TimesMore
<1> QED BY <1>1, <1>2, <1>3

\* A sum that is cut to a word in between is the sum cut to a word.
LEMMA CutSum ==
  ASSUME NEW x \in Int, NEW d \in Int, NEW w \in Nat \ {0}
  PROVE  ((x % w) + d) % w = (x + d) % w
<1> DEFINE y == (x % w) + d
<1>1. x % w \in Int /\ x = w * (x \div w) + (x % w) /\ x \div w \in Int
  BY Remainder
<1>2. y \in Int
  BY <1>1
<1>3. y % w \in 0 .. w - 1 /\ y = w * (y \div w) + (y % w) /\ y \div w \in Int
  BY <1>2, Remainder
<1>4. x \div w + y \div w \in Int
  BY <1>1, <1>3
<1>5. x + d = w * (x \div w + y \div w) + (y % w)
  <2> HIDE DEF y
  <2>1. x + d = w * (x \div w) + w * (y \div w) + (y % w)
    BY <1>1, <1>3 DEF y
  <2>2. w \in Int /\ x \div w \in Int /\ y \div w \in Int
    BY <1>1, <1>3
  <2>3. w * (x \div w + y \div w) = w * (x \div w) + w * (y \div w)
    BY <2>2, Distributes, Zenon
  <2> QED BY <2>1, <2>3
<1>6. (x + d) % w = y % w
  <2> HIDE DEF y
  <2>1. x + d \in Int
    OBVIOUS
  <2> QED BY <2>1, <1>3, <1>4, <1>5, RemainderIs
<1> QED BY <1>6

LEMMA QuotientOf ==
  ASSUME NEW m \in Nat, NEW t \in Int, NEW r \in Int, NEW s \in Nat,
         m = t + r, r < s, 2 * s <= m
  PROVE  t > 0
OBVIOUS

LEMMA PositiveFactor ==
  ASSUME NEW s \in Nat \ {0}, NEW q \in Int, s * q > 0
  PROVE  q > 0
<1>1. q <= 0 => s * q <= 0
  OBVIOUS
<1> QED BY <1>1

\* A bucket is expanded by one block at least.
LEMMA DeltaPositive ==
  ASSUME NEW b \in Buckets
  PROVE  Delta(b) \in Nat \ {0}
<1>1. BlockSize[b] \in Nat \ {0} /\ Medium \in Nat /\ SmallCount \in Nat \ {0}
  BY PoolAssumption
<1>2. ASSUME BlockSize[b] <= Medium
      PROVE  (2 * Medium) \div BlockSize[b] \in Nat \ {0}
  <2> DEFINE s == BlockSize[b]
             q == (2 * Medium) \div s
  <2>1. 2 * Medium = s * q + ((2 * Medium) % s) /\ (2 * Medium) % s < s /\ q \in Int
    BY <1>1
  <2>2. s * q > 0
    <3>1. 2 * Medium \in Nat /\ 2 * s <= 2 * Medium /\ (2 * Medium) % s \in Int
      BY <1>1, <1>2
    <3>2. s \in Nat /\ s * q \in Int
      BY <1>1, <2>1
    <3> HIDE DEF s, q
    <3> QED BY <2>1, <3>1, <3>2, QuotientOf
  <2> HIDE DEF q
  <2>3. q > 0
    BY <1>1, <2>1, <2>2, PositiveFactor
  <2> QED BY <2>1, <2>3 DEF q
<1> QED BY <1>1, <1>2 DEF Delta

\* m_allocated_size is what is in use, cut to 32 bits; and a bucket other than
\* the last one that is being expanded has room below the limit for what is left
\* to be added, unless the limit was crossed before.
Accounted ==
  /\ inUse \in Int /\ allocated = inUse % Word
  /\ job.do = "grow" /\ job.b < Top =>
       /\ job.left \in Nat \ {0}
       /\ inUse > MaxPool \/ inUse + BlockSize[job.b] * job.left <= MaxPool

\* The check of the limit is right for every bucket but the last.
LEMMA OverIsOver ==
  ASSUME NEW b \in Buckets, b < Top, inUse \in Int, allocated = inUse % Word, ~Over(b)
  PROVE  inUse > MaxPool \/ inUse + SizeDelta(b) <= MaxPool
<1>1. /\ SizeDelta(b) \in Nat /\ MaxPool \in Nat /\ Word \in Nat \ {0}
      /\ MaxPool + SizeDelta(b) < Word /\ SizeDelta(b) <= MaxPool
  <2>1. SizeDelta(b) \in Nat
    BY DeltaPositive, SizesAreNat DEF SizeDelta
  <2> QED BY <2>1, PoolAssumption
<1> DEFINE d == SizeDelta(b)
<1>2. (inUse + d) % Word <= MaxPool
  <2> HIDE DEF d
  <2>1. d \in Int
    BY <1>1 DEF d
  <2>2. ((inUse % Word) + d) % Word = (inUse + d) % Word
    BY <1>1, <2>1, CutSum
  <2>3. (allocated + d) % Word <= MaxPool
    <3>1. allocated \in Int
      BY <1>1, Remainder
    <3>2. (allocated + d) % Word \in Int
      BY <1>1, <2>1, <3>1
    <3> QED BY <1>1, <3>2 DEF Over, d
  <2> QED BY <2>2, <2>3
<1> HIDE DEF d
<1>3. CASE inUse <= MaxPool /\ inUse + d >= 0
  <2>1. inUse + d \in 0 .. Word - 1
    BY <1>1, <1>3 DEF d
  <2>2. (inUse + d) % Word = inUse + d
    BY <1>1, <2>1
  <2> QED BY <1>2, <2>2 DEF d
<1>4. CASE inUse <= MaxPool /\ inUse + d < 0
  BY <1>1, <1>4 DEF d
<1> QED BY <1>1, <1>3, <1>4 DEF d

\* What an expansion of a bucket starts with.
LEMMA GrowingAccounted ==
  ASSUME IInv, Accounted, UNCHANGED <<inUse, allocated>>, ~Over(job.b), job' = Growing
  PROVE  Accounted'
<1>1. job \in JobType
  BY DEF IInv, Typed
<1>2. job.b \in Buckets /\ job'.b = job.b /\ job'.left = Delta(job.b)
  BY <1>1 DEF Growing, JobType
<1>3. ASSUME job.b < Top
      PROVE  inUse > MaxPool \/ inUse + BlockSize[job.b] * Delta(job.b) <= MaxPool
  BY <1>2, <1>3, OverIsOver DEF Accounted, SizeDelta
<1> QED BY <1>2, <1>3, DeltaPositive DEF Accounted

\* The accounts are right after each step, and a step that crosses the limit
\* adds a block of the largest size.
LEMMA StepsAccount ==
  ASSUME IInv, Accounted, PoolNext
  PROVE  /\ Accounted'
         /\ inUse <= MaxPool /\ inUse' > MaxPool => inUse' - inUse = BlockSize[Top]
<1>1. job \in JobType /\ inUse \in Int /\ Word \in Nat \ {0} /\ MaxPool \in Nat
  BY PoolAssumption DEF IInv, Typed, Accounted
<1>2. ASSUME UNCHANGED <<inUse, allocated>>, job'.do # "grow"
      PROVE  Accounted'
  BY <1>2 DEF Accounted
<1>3. CASE Recycle
  <2> DEFINE s == BlockSize[job.k]
  <2>1. s \in Nat \ {0}
    BY <1>1, SizesAreNat DEF JobType
  <2>2. inUse' = inUse - s /\ allocated' = (allocated - s) % Word /\ job'.do # "grow"
    BY <1>1, <1>3 DEF Recycle, JobType
  <2>3. allocated' = inUse' % Word
    <3>1. -s \in Int
      BY <2>1
    <3>2. ((inUse % Word) + (-s)) % Word = (inUse + (-s)) % Word
      BY <1>1, <3>1, CutSum
    <3>3. inUse % Word \in Int
      BY <1>1, Remainder
    <3>4. (inUse % Word) - s = (inUse % Word) + (-s) /\ inUse - s = inUse + (-s)
      BY <1>1, <2>1, <3>3
    <3> QED BY <2>2, <3>2, <3>4 DEF Accounted
  <2> QED BY <1>1, <2>1, <2>2, <2>3 DEF Accounted
<1>4. CASE Grow
  <2> DEFINE s == BlockSize[job.b]
  <2>1. job.b \in Buckets /\ s \in Nat \ {0} /\ job.b <= Top /\ Top \in Nat /\ job.b \in Nat
    BY <1>1, SizesAreNat, PoolAssumption DEF JobType, Buckets
  <2>2. inUse' = inUse + s /\ allocated' = (allocated + s) % Word /\ job.do = "grow"
    BY <1>4 DEF Grow
  <2>3. job'.b = job.b /\ job'.left = job.left - 1 /\ (job'.do = "grow" => job.left # 1)
    BY <1>1, <1>4 DEF Grow, JobType
  <2>4. allocated' = inUse' % Word
    <3>1. s \in Int
      BY <2>1
    <3>2. ((inUse % Word) + s) % Word = (inUse + s) % Word
      BY <1>1, <3>1, CutSum
    <3> QED BY <2>2, <3>2 DEF Accounted
  <2>5. CASE job.b = Top
    BY <1>1, <2>1, <2>2, <2>3, <2>4, <2>5 DEF Accounted
  <2>6. CASE job.b < Top
    <3>1. job.left \in Nat \ {0} /\ (inUse > MaxPool \/ inUse + s * job.left <= MaxPool)
      BY <2>2, <2>6 DEF Accounted
    <3>2. s * job.left = s * (job.left - 1) + s /\ s * (job.left - 1) \in Nat
      BY <2>1, <3>1
    <3>3. inUse > MaxPool \/ inUse' + s * (job.left - 1) <= MaxPool
      BY <1>1, <2>1, <2>2, <3>1, <3>2
    <3>4. inUse' > MaxPool \/ inUse' + s * (job.left - 1) <= MaxPool
      BY <1>1, <2>1, <2>2, <3>3
    <3>5. ~(inUse <= MaxPool /\ inUse' > MaxPool)
      BY <1>1, <2>1, <2>2, <3>2, <3>3
    <3> QED BY <1>1, <2>1, <2>2, <2>3, <2>4, <3>1, <3>4, <3>5 DEF Accounted
  <2> QED BY <2>1, <2>5, <2>6
<1>5. CASE ~Recycle /\ ~Grow
  <2>1. UNCHANGED <<inUse, allocated>>
    BY <1>5 DEF PoolNext, Inside, Expand, RecycleNext, GrowFails, Take, TrimDone, Return, Alloc,
                Release, lists
  <2>2. Accounted'
    <3>1. CASE Expand
      BY <1>1, <1>2, <2>1, <3>1, GrowingAccounted DEF Expand, Recycling, JobType
    <3>2. CASE RecycleNext
      <4>1. Returning(NoBlock).do = "return"
        BY IdleTyped
      <4> QED BY <1>1, <1>2, <2>1, <3>2, <4>1, GrowingAccounted DEF RecycleNext, Recycling, JobType
    <3>3. CASE GrowFails
      BY <1>1, <1>2, <2>1, <3>3, IdleTyped DEF GrowFails, JobType
    <3>4. CASE Take
      <4>1. job'.do = "return"
        BY <3>4 DEF Take, Returning, Idle
      <4> QED BY <1>2, <2>1, <4>1
    <3>5. CASE TrimDone \/ Return
      BY <1>2, <2>1, <3>5 DEF TrimDone, Return, Idle
    <3>6. ASSUME NEW n \in Lens, Alloc(n) PROVE Accounted'
      <4>1. job'.do # "grow"
        BY <3>6 DEF Alloc, Returning, Idle
      <4> QED BY <1>2, <2>1, <4>1
    <3>7. ASSUME NEW block \in held, Release(block) PROVE Accounted'
      <4>1. job'.do = "trim"
        BY <3>7 DEF Release, Idle
      <4> QED BY <1>2, <2>1, <4>1
    <3> QED BY <1>5, <3>1, <3>2, <3>3, <3>4, <3>5, <3>6, <3>7 DEF PoolNext, Inside
  <2> QED BY <1>1, <2>1, <2>2
<1> QED BY <1>3, <1>4, <1>5

\* For any sizes and limits the pool can be built with: only a block of the
\* largest size takes it past MAX_POOL_SIZE.
THEOREM OnlyLargestCrosses == PoolSpec => LimitCrossedByLargest
<1>1. PoolInit => IInv /\ Accounted
  BY Initially, PoolAssumption DEF PoolInit, Accounted, Idle
<1>2. IInv /\ Accounted /\ [PoolNext]_poolVars => IInv' /\ Accounted'
  <2>1. CASE UNCHANGED poolVars
    BY <2>1, StepsKeep DEF poolVars, Accounted
  <2> QED BY <2>1, StepsKeep, StepsAccount
<1>3. IInv /\ Accounted /\ [PoolNext]_poolVars
        => [inUse <= MaxPool /\ inUse' > MaxPool => inUse' - inUse = BlockSize[Top]]_poolVars
  BY StepsAccount
<1> QED BY <1>1, <1>2, <1>3, PTL DEF PoolSpec, LimitCrossedByLargest

-----------------------------------------------------------------------------
(* Sums *)

\* As many pairs as the sum of f over S: a sum is counted, not added up.
Units(f, S) == {pair \in S \X Nat : pair[2] \in 1 .. f[pair[1]]}

LEMMA UnitsFinite ==
  ASSUME NEW S, IsFiniteSet(S), NEW f, NEW m \in Nat, \A x \in S : f[x] \in 0 .. m
  PROVE  IsFiniteSet(Units(f, S)) /\ Cardinality(Units(f, S)) \in Nat
<1>1. IsFiniteSet(1 .. m)
  BY FS_Interval
<1>2. IsFiniteSet(S \X (1 .. m))
  BY <1>1, FS_Product
<1>3. Units(f, S) \subseteq S \X (1 .. m)
  BY DEF Units
<1>4. IsFiniteSet(Units(f, S))
  BY <1>2, <1>3, FS_Subset
<1> QED BY <1>4, FS_CardinalityType

\* One more number is added to the sum.
LEMMA UnitsAdd ==
  ASSUME NEW S, IsFiniteSet(S), NEW x, x \notin S, NEW f, NEW m \in Nat,
         \A y \in S \cup {x} : f[y] \in 0 .. m
  PROVE  Cardinality(Units(f, S \cup {x})) = f[x] + Cardinality(Units(f, S))
<1>1. PICK n \in Nat : n = f[x]
  OBVIOUS
<1> DEFINE New == {x} \X (1 .. n)
           Old == Units(f, S)
<1>2. IsFiniteSet(New) /\ Cardinality(New) = n
  <2>1. IsFiniteSet(1 .. n) /\ Cardinality(1 .. n) = n
    BY FS_Interval
  <2>2. IsFiniteSet({x}) /\ Cardinality({x}) = 1
    BY FS_Singleton
  <2>3. IsFiniteSet(New) /\ Cardinality(New) = 1 * n
    <3>1. /\ IsFiniteSet({x} \X (1 .. n))
          /\ Cardinality({x} \X (1 .. n)) = Cardinality({x}) * Cardinality(1 .. n)
      BY <2>1, <2>2, FS_Product, Zenon
    <3> QED BY <2>1, <2>2, <3>1
  <2> QED BY <2>3
<1>3. IsFiniteSet(Old) /\ Cardinality(Old) \in Nat
  BY UnitsFinite
<1>4. Units(f, S \cup {x}) = New \cup Old
  BY <1>1 DEF Units
<1>5. New \cap Old = {}
  BY DEF Units
<1>6. Cardinality(New \cup Old) = Cardinality(New) + Cardinality(Old) - Cardinality(New \cap Old)
  BY <1>2, <1>3, FS_Union
<1>7. Cardinality(New \cap Old) = 0
  BY <1>5, FS_EmptySet
<1>8. Cardinality(New \cup Old) = n + Cardinality(Old)
  <2> HIDE DEF New, Old
  <2> QED BY <1>2, <1>3, <1>6, <1>7
<1> QED BY <1>1, <1>4, <1>8

\* What FoldFunction adds up in steps, in whatever order it takes them.
LEMMA SumIsUnits ==
  ASSUME NEW f, IsFiniteSet(DOMAIN f), NEW m \in Nat, \A x \in DOMAIN f : f[x] \in 0 .. m
  PROVE  FoldFunction(+, 0, f) = Cardinality(Units(f, DOMAIN f))
<1> DEFINE D == DOMAIN f
           Step(g) == [s \in SUBSET D |->
                         IF s = {} THEN 0
                         ELSE f[CHOOSE x \in s : TRUE] + g[s \ {CHOOSE x \in s : TRUE}]]
           sum == [s \in SUBSET D |-> Cardinality(Units(f, s))]
           iter == CHOOSE g : g = Step(g)
<1>1. \A s \in SUBSET D : IsFiniteSet(s)
  BY FS_Subset
<1>2. ASSUME NEW s \in SUBSET D, s # {}
      PROVE  LET x == CHOOSE x \in s : TRUE
             IN  Cardinality(Units(f, s)) = f[x] + Cardinality(Units(f, s \ {x}))
  <2> DEFINE x == CHOOSE x \in s : TRUE
  <2>1. x \in s
    BY <1>2
  <2> HIDE DEF x
  <2>2. IsFiniteSet(s \ {x}) /\ (s \ {x}) \cup {x} = s /\ x \notin s \ {x}
    BY <1>1, <2>1
  <2>3. \A y \in (s \ {x}) \cup {x} : f[y] \in 0 .. m
    BY <2>1
  <2>4. Cardinality(Units(f, s)) = f[x] + Cardinality(Units(f, s \ {x}))
    BY <2>2, <2>3, UnitsAdd
  <2> QED BY <2>4 DEF x
<1>3. Cardinality(Units(f, {})) = 0
  <2>1. Units(f, {}) = {}
    BY DEF Units
  <2> QED BY <2>1, FS_EmptySet
<1>4. sum = Step(sum)
  <2>1. \A s \in SUBSET D : sum[s] = Step(sum)[s]
    BY <1>2, <1>3
  <2> QED BY <2>1
<1>5. iter = Step(iter)
  <2> HIDE DEF Step
  <2> QED BY <1>4
<1>6. FoldFunction(+, 0, f) = iter[D]
  BY DEF FoldFunction, FoldFunctionOnSet, MapThenFoldSet
<1>7. iter[D] = sum[D]
  <2> DEFINE Bad == {s \in SUBSET D : iter[s] # sum[s]}
             Sizes == {Cardinality(s) : s \in Bad}
  <2> HIDE DEF iter, sum
  <2> SUFFICES ASSUME Bad # {} PROVE FALSE
    OBVIOUS
  <2>1. Sizes \subseteq Nat /\ Sizes # {}
    BY <1>1, FS_CardinalityType
  <2>2. PICK s \in Bad : \A t \in Bad : Cardinality(s) <= Cardinality(t)
    <3>1. PICK k \in Sizes : \A j \in Sizes : k <= j
      <4> HIDE DEF Sizes
      <4> QED BY <2>1, LeastElement
    <3> QED BY <3>1
  <2>3. iter[s] = IF s = {} THEN 0
                  ELSE f[CHOOSE x \in s : TRUE] + iter[s \ {CHOOSE x \in s : TRUE}]
    BY <1>5
  <2>4. sum[s] = IF s = {} THEN 0
                 ELSE f[CHOOSE x \in s : TRUE] + sum[s \ {CHOOSE x \in s : TRUE}]
    BY <1>4
  <2>5. s # {}
    BY <2>3, <2>4
  <2> DEFINE x == CHOOSE x \in s : TRUE
  <2>6. x \in s
    BY <2>5
  <2>7. s \ {x} \in SUBSET D /\ s \ {x} \in Bad
    BY <2>3, <2>4, <2>5
  <2> HIDE DEF x, Bad
  <2>8. IsFiniteSet(s) /\ Cardinality(s) \in Nat
    BY <1>1, FS_CardinalityType DEF Bad
  <2>9. Cardinality(s \ {x}) = Cardinality(s) - 1
    BY <2>6, <2>8, FS_RemoveElement
  <2> QED BY <2>2, <2>7, <2>8, <2>9
<1> QED BY <1>6, <1>7

-----------------------------------------------------------------------------
(* Lists *)

\* s puts the n elements of S in an order.
Lines(s, n, S) ==
  /\ s \in [1 .. n -> S]
  /\ \A i, j \in 1 .. n : s[i] = s[j] => i = j
  /\ \A e \in S : \E i \in 1 .. n : s[i] = e

FirstOf(s, n) == IF n = 0 THEN End ELSE s[1]
LastOf(s, n) == IF n = 0 THEN End ELSE s[n]

\* next, and prev, lead through s.
Forth(s, n, next) == \A i \in 1 .. n : next[s[i]] = IF i = n THEN End ELSE s[i + 1]
Back(s, n, prev) == \A i \in 1 .. n : prev[s[i]] = IF i = 1 THEN End ELSE s[i - 1]

InFront(x, s, n) == [i \in 1 .. n + 1 |-> IF i = 1 THEN x ELSE s[i - 1]]
AtTheEnd(s, n, x) == [i \in 1 .. n + 1 |-> IF i = n + 1 THEN x ELSE s[i]]
Without(s, n, j) == [i \in 1 .. n - 1 |-> IF i < j THEN s[i] ELSE s[i + 1]]

LEMMA InFrontLines ==
  ASSUME NEW n \in Nat, NEW S, NEW s, Lines(s, n, S), NEW x, x \notin S
  PROVE  Lines(InFront(x, s, n), n + 1, S \cup {x})
<1> DEFINE t == InFront(x, s, n)
<1>1. t \in [1 .. n + 1 -> S \cup {x}]
  BY DEF Lines, InFront
<1>2. t[1] = x /\ \A i \in 2 .. n + 1 : t[i] = s[i - 1] /\ i - 1 \in 1 .. n /\ t[i] \in S
  BY DEF Lines, InFront
<1>3. \A i \in 1 .. n : i + 1 \in 2 .. n + 1 /\ t[i + 1] = s[i]
  BY DEF Lines, InFront
<1> HIDE DEF t
<1>4. ASSUME NEW i \in 1 .. n + 1, NEW j \in 1 .. n + 1, t[i] = t[j] PROVE i = j
  <2>1. CASE i = 1 \/ j = 1
    BY <1>2, <1>4, <2>1
  <2>2. CASE i # 1 /\ j # 1
    <3>1. i \in 2 .. n + 1 /\ j \in 2 .. n + 1
      BY <2>2
    <3>2. s[i - 1] = s[j - 1] /\ i - 1 \in 1 .. n /\ j - 1 \in 1 .. n
      BY <1>2, <1>4, <3>1
    <3>3. i - 1 = j - 1
      BY <3>2 DEF Lines
    <3> QED BY <3>1, <3>3
  <2> QED BY <2>1, <2>2
<1>5. ASSUME NEW e \in S \cup {x} PROVE \E i \in 1 .. n + 1 : t[i] = e
  <2>1. CASE e = x
    BY <1>2, <2>1
  <2>2. CASE e # x
    <3>1. PICK i \in 1 .. n : s[i] = e
      BY <2>2 DEF Lines
    <3> QED BY <1>3, <3>1
  <2> QED BY <2>1, <2>2
<1> QED BY <1>1, <1>4, <1>5 DEF Lines, t

LEMMA AtTheEndLines ==
  ASSUME NEW n \in Nat, NEW S, NEW s, Lines(s, n, S), NEW x, x \notin S
  PROVE  Lines(AtTheEnd(s, n, x), n + 1, S \cup {x})
<1> DEFINE t == AtTheEnd(s, n, x)
<1>1. t \in [1 .. n + 1 -> S \cup {x}]
  BY DEF Lines, AtTheEnd
<1>2. t[n + 1] = x /\ \A i \in 1 .. n : t[i] = s[i] /\ i \in 1 .. n + 1 /\ t[i] \in S
  BY DEF Lines, AtTheEnd
<1> HIDE DEF t
<1>3. \A i \in 1 .. n + 1 : i = n + 1 \/ i \in 1 .. n
  OBVIOUS
<1>4. ASSUME NEW i \in 1 .. n + 1, NEW j \in 1 .. n + 1, t[i] = t[j] PROVE i = j
  BY <1>2, <1>3, <1>4 DEF Lines
<1>5. ASSUME NEW e \in S \cup {x} PROVE \E i \in 1 .. n + 1 : t[i] = e
  <2>1. n + 1 \in 1 .. n + 1
    OBVIOUS
  <2> QED BY <1>2, <2>1 DEF Lines
<1> QED BY <1>1, <1>4, <1>5 DEF Lines, t

LEMMA WithoutLines ==
  ASSUME NEW n \in Nat, NEW S, NEW s, Lines(s, n, S), NEW j \in 1 .. n
  PROVE  Lines(Without(s, n, j), n - 1, S \ {s[j]})
<1> DEFINE t == Without(s, n, j)
<1>1. \A i \in 1 .. n - 1 : /\ i \in 1 .. n /\ i + 1 \in 1 .. n
                            /\ t[i] = IF i < j THEN s[i] ELSE s[i + 1]
  BY DEF Without
<1>2. DOMAIN t = 1 .. n - 1 /\ t = [i \in 1 .. n - 1 |-> t[i]]
  BY DEF Without
<1> HIDE DEF t
<1>3. \A i \in 1 .. n - 1 : t[i] \in S \ {s[j]}
  BY <1>1 DEF Lines
<1>4. t \in [1 .. n - 1 -> S \ {s[j]}]
  BY <1>2, <1>3
<1>5. ASSUME NEW i \in 1 .. n - 1, NEW k \in 1 .. n - 1, t[i] = t[k] PROVE i = k
  BY <1>1, <1>5 DEF Lines
<1>6. ASSUME NEW e \in S \ {s[j]} PROVE \E i \in 1 .. n - 1 : t[i] = e
  <2>1. PICK k \in 1 .. n : s[k] = e
    BY DEF Lines
  <2>2. CASE k < j
    BY <1>1, <2>1, <2>2
  <2>3. CASE k > j
    <3>1. k - 1 \in 1 .. n - 1 /\ ~(k - 1 < j) /\ (k - 1) + 1 = k
      BY <2>3
    <3> QED BY <1>1, <2>1, <3>1
  <2> QED BY <2>1, <2>2, <2>3
<1> QED BY <1>4, <1>5, <1>6 DEF Lines, t

\* As many as there are in the list.
LEMMA LinesCount ==
  ASSUME NEW n \in Nat, NEW S, NEW s, Lines(s, n, S)
  PROVE  IsFiniteSet(S) /\ Cardinality(S) = n
<1>1. s \in Bijection(1 .. n, S)
  BY DEF Lines, Bijection, Injection, Surjection, IsInjective
<1>2. ExistsBijection(1 .. n, S)
  BY <1>1 DEF ExistsBijection
<1> QED BY <1>2, FS_CountingElements, FS_NatBijection

LEMMA ElemsCount == IsFiniteSet(Elems) /\ Cardinality(Elems) = MaxBlocks
<1>1. MaxBlocks \in Nat /\ MaxBlocks > 0
  BY ElementAssumption
<1>2. /\ IsFiniteSet(0 .. MaxBlocks - 1)
      /\ Cardinality(0 .. MaxBlocks - 1) = IF 0 > MaxBlocks - 1 THEN 0 ELSE (MaxBlocks - 1) - 0 + 1
  <2>1. MaxBlocks - 1 \in Int
    BY <1>1
  <2> HIDE <1>1
  <2> QED BY <2>1, FS_Interval
<1> QED BY <1>1, <1>2 DEF Elems

\* The list that starts at first and is linked by next holds S.
Chain(first, next, S) ==
  \E n \in Nat : \E s : Lines(s, n, S) /\ first = FirstOf(s, n) /\ Forth(s, n, next)

\* A walk along it passes what is in S, and ends.
LEMMA ChainIsList ==
  ASSUME NEW S, S \subseteq Elems, NEW first, NEW next, Chain(first, next, S)
  PROVE  ListOf(first, next, S)
<1>0. PICK n \in Nat : \E s : Lines(s, n, S) /\ first = FirstOf(s, n) /\ Forth(s, n, next)
  BY DEF Chain
<1>1. PICK s : Lines(s, n, S) /\ first = FirstOf(s, n) /\ Forth(s, n, next)
  BY <1>0
<1>2. n <= MaxBlocks /\ MaxBlocks \in Nat
  <2>1. IsFiniteSet(S) /\ Cardinality(S) = n
    BY <1>1, LinesCount
  <2>2. Cardinality(S) <= Cardinality(Elems)
    BY ElemsCount, FS_Subset
  <2> QED BY <2>1, <2>2, ElemsCount, ElementAssumption
<1>3. \A i \in 1 .. n : s[i] # End /\ s[i] \in S
  BY <1>1, EndIsNone DEF Lines
<1> DEFINE Step(g) == [i \in 0 .. MaxBlocks |->
                         IF i = 0 THEN first ELSE IF g[i - 1] = End THEN End ELSE next[g[i - 1]]]
           walk == [i \in 0 .. MaxBlocks |-> IF i < n THEN s[i + 1] ELSE End]
           at == CHOOSE g : g = Step(g)
<1>4. walk = Step(walk)
  <2>1. ASSUME NEW i \in 0 .. MaxBlocks PROVE walk[i] = Step(walk)[i]
    <3>1. CASE i = 0
      BY <1>1, <1>2, <3>1 DEF FirstOf
    <3>2. CASE i # 0 /\ i - 1 < n
      <4>1. i - 1 \in 0 .. MaxBlocks /\ i \in 1 .. n /\ walk[i - 1] = s[i]
        BY <1>2, <3>2
      <4>2. next[s[i]] = IF i = n THEN End ELSE s[i + 1]
        BY <1>1, <4>1 DEF Forth
      <4> QED BY <1>2, <1>3, <3>2, <4>1, <4>2
    <3>3. CASE i # 0 /\ ~(i - 1 < n)
      <4>1. i - 1 \in 0 .. MaxBlocks /\ walk[i - 1] = End /\ walk[i] = End
        BY <1>2, <3>3
      <4> QED BY <3>3, <4>1
    <3> QED BY <3>1, <3>2, <3>3
  <2> QED BY <2>1
<1>5. at = Step(at)
  <2> HIDE DEF Step, walk
  <2> QED BY <1>4
<1>6. ASSUME NEW i \in 0 .. MaxBlocks PROVE at[i] = walk[i]
  <2> DEFINE Bad == {j \in 0 .. MaxBlocks : at[j] # walk[j]}
  <2> HIDE DEF at, walk
  <2> SUFFICES ASSUME Bad # {} PROVE FALSE
    OBVIOUS
  <2>1. Bad \subseteq Nat
    BY <1>2
  <2>2. PICK j \in Bad : \A k \in Bad : j <= k
    <3> HIDE DEF Bad
    <3> QED BY <2>1, LeastElement
  <2>3. /\ at[j] = IF j = 0 THEN first ELSE IF at[j - 1] = End THEN End ELSE next[at[j - 1]]
        /\ walk[j] = IF j = 0 THEN first ELSE IF walk[j - 1] = End THEN End ELSE next[walk[j - 1]]
    BY <1>4, <1>5
  <2>4. j # 0 /\ at[j - 1] # walk[j - 1]
    BY <2>3
  <2>5. j - 1 \in Bad
    BY <1>2, <2>4
  <2> QED BY <2>1, <2>2, <2>5
<1>7. Walk(first, next) = at
  BY DEF Walk
<1>8. DOMAIN at = 0 .. MaxBlocks
  BY <1>5
<1> HIDE DEF at
<1>9. at[MaxBlocks] = End
  BY <1>2, <1>6
<1>10. Range(at) \ {End} = S
  <2>1. ASSUME NEW e \in Range(at), e # End PROVE e \in S
    <3>1. PICK i \in 0 .. MaxBlocks : at[i] = e
      BY <1>8 DEF Range
    <3>2. i < n /\ e = s[i + 1] /\ i + 1 \in 1 .. n
      BY <1>2, <1>6, <2>1, <3>1
    <3> QED BY <1>3, <3>2
  <2>2. ASSUME NEW e \in S PROVE e \in Range(at) \ {End}
    <3>1. PICK i \in 1 .. n : s[i] = e
      BY <1>1 DEF Lines
    <3>2. i - 1 \in 0 .. MaxBlocks /\ at[i - 1] = s[i]
      BY <1>2, <1>6
    <3> QED BY <1>3, <1>8, <3>1, <3>2 DEF Range
  <2> QED BY <2>1, <2>2
<1> QED BY <1>7, <1>9, <1>10 DEF ListOf

LEMMA EmptyLines == \E s : Lines(s, 0, {})
<1>1. Lines([i \in 1 .. 0 |-> End], 0, {})
  BY DEF Lines
<1> QED BY <1>1

LEMMA ChainEmpty == ASSUME NEW next PROVE Chain(End, next, {})
<1>1. PICK s : Lines(s, 0, {})
  BY EmptyLines
<1>2. End = FirstOf(s, 0) /\ Forth(s, 0, next)
  BY DEF FirstOf, Forth
<1> QED BY <1>1, <1>2 DEF Chain

LEMMA ChainSame ==
  ASSUME NEW S, NEW first, NEW next, Chain(first, next, S),
         NEW new, \A e \in S : new[e] = next[e]
  PROVE  Chain(first, new, S)
<1>0. PICK n \in Nat : \E s : Lines(s, n, S) /\ first = FirstOf(s, n) /\ Forth(s, n, next)
  BY DEF Chain
<1>1. PICK s : Lines(s, n, S) /\ first = FirstOf(s, n) /\ Forth(s, n, next)
  BY <1>0
<1>2. Forth(s, n, new)
  BY <1>1 DEF Forth, Lines
<1> QED BY <1>1, <1>2 DEF Chain

LEMMA ChainPush ==
  ASSUME NEW S, NEW first, NEW next, Chain(first, next, S),
         NEW x, x \notin S, NEW new, new[x] = first, \A e \in S : new[e] = next[e]
  PROVE  Chain(x, new, S \cup {x})
<1>0. PICK n \in Nat : \E s : Lines(s, n, S) /\ first = FirstOf(s, n) /\ Forth(s, n, next)
  BY DEF Chain
<1>1. PICK s : Lines(s, n, S) /\ first = FirstOf(s, n) /\ Forth(s, n, next)
  BY <1>0
<1> DEFINE t == InFront(x, s, n)
<1>2. Lines(t, n + 1, S \cup {x})
  BY <1>1, InFrontLines
<1>3. t[1] = x /\ \A i \in 2 .. n + 1 : t[i] = s[i - 1]
  BY DEF InFront
<1> HIDE DEF t
<1>4. Forth(t, n + 1, new)
  <2> SUFFICES ASSUME NEW i \in 1 .. n + 1
               PROVE  new[t[i]] = IF i = n + 1 THEN End ELSE t[i + 1]
    BY DEF Forth
  <2>1. CASE i = 1
    <3>1. n # 0 => t[2] = s[1]
      BY <1>3
    <3> QED BY <1>1, <1>3, <2>1, <3>1 DEF FirstOf
  <2>2. CASE i # 1
    <3>1. i - 1 \in 1 .. n /\ t[i] = s[i - 1] /\ s[i - 1] \in S /\ (i - 1 = n <=> i = n + 1)
      BY <1>1, <1>3, <2>2 DEF Lines
    <3>2. i # n + 1 => t[i + 1] = s[i] /\ (i - 1) + 1 = i
      BY <1>3, <2>2
    <3> QED BY <1>1, <3>1, <3>2 DEF Forth
  <2> QED BY <2>1, <2>2
<1>5. x = FirstOf(t, n + 1) /\ n + 1 \in Nat
  BY <1>3 DEF FirstOf
<1> QED BY <1>2, <1>4, <1>5 DEF Chain

LEMMA ChainPop ==
  ASSUME NEW S, S \subseteq Elems, NEW first, NEW next, Chain(first, next, S), first # End,
         NEW new, \A e \in S \ {first} : new[e] = next[e]
  PROVE  first \in S /\ Chain(next[first], new, S \ {first})
<1>0. PICK n \in Nat : \E s : Lines(s, n, S) /\ first = FirstOf(s, n) /\ Forth(s, n, next)
  BY DEF Chain
<1>1. PICK s : Lines(s, n, S) /\ first = FirstOf(s, n) /\ Forth(s, n, next)
  BY <1>0
<1>2. n # 0 /\ first = s[1] /\ 1 \in 1 .. n
  BY <1>1 DEF FirstOf
<1> DEFINE t == Without(s, n, 1)
<1>3. Lines(t, n - 1, S \ {first})
  BY <1>1, <1>2, WithoutLines
<1>4. \A i \in 1 .. n - 1 : t[i] = s[i + 1]
  BY DEF Without
<1> HIDE DEF t
<1>5. next[first] = FirstOf(t, n - 1)
  <2>1. next[first] = IF n = 1 THEN End ELSE s[2]
    BY <1>1, <1>2 DEF Forth
  <2>2. n # 1 => t[1] = s[2]
    BY <1>2, <1>4
  <2> QED BY <2>1, <2>2 DEF FirstOf
<1>6. Forth(t, n - 1, new)
  <2> SUFFICES ASSUME NEW i \in 1 .. n - 1
               PROVE  new[t[i]] = IF i = n - 1 THEN End ELSE t[i + 1]
    BY DEF Forth
  <2>1. i + 1 \in 1 .. n /\ (i + 1 = n <=> i = n - 1) /\ t[i] = s[i + 1] /\ t[i] \in S \ {first}
    BY <1>3, <1>4 DEF Lines
  <2>2. i # n - 1 => t[i + 1] = s[(i + 1) + 1]
    BY <1>4
  <2>3. next[s[i + 1]] = IF i + 1 = n THEN End ELSE s[(i + 1) + 1]
    BY <1>1, <2>1 DEF Forth
  <2> QED BY <2>1, <2>2, <2>3
<1>7. first \in S /\ n - 1 \in Nat
  BY <1>1, <1>2 DEF Lines
<1> QED BY <1>3, <1>5, <1>6, <1>7 DEF Chain

-----------------------------------------------------------------------------
(* The element set's lists *)

FreeOf(es) == {e \in Elems : es.free[e]}
UsedOf(es) == {e \in Elems : ~es.free[e]}

\* The free elements are listed up to lastFree, and the used ones both ways.
FreeInLine(es, s, n) ==
  /\ Lines(s, n, FreeOf(es)) /\ Forth(s, n, es.next)
  /\ es.firstFree = FirstOf(s, n) /\ es.lastFree = LastOf(s, n)

UsedInLine(es, s, n) ==
  /\ Lines(s, n, UsedOf(es)) /\ Forth(s, n, es.next) /\ Back(s, n, es.prev)
  /\ es.firstUsed = FirstOf(s, n)

ElementsListed(es) ==
  /\ \E n \in Nat : \E s : FreeInLine(es, s, n)
  /\ \E n \in Nat : \E s : UsedInLine(es, s, n)

LEMMA ListedAreLists ==
  ASSUME NEW es, ElementsListed(es)
  PROVE  ListOf(es.firstFree, es.next, FreeOf(es)) /\ ListOf(es.firstUsed, es.next, UsedOf(es))
<1>1. Chain(es.firstFree, es.next, FreeOf(es)) /\ Chain(es.firstUsed, es.next, UsedOf(es))
  BY DEF ElementsListed, FreeInLine, UsedInLine, Chain
<1>2. FreeOf(es) \subseteq Elems /\ UsedOf(es) \subseteq Elems
  BY DEF FreeOf, UsedOf
<1> QED BY <1>1, <1>2, ChainIsList

LEMMA AllFreeListed == ElementsListed(AllFree)
<1> DEFINE s == [i \in 1 .. MaxBlocks |-> i - 1]
<1>1. MaxBlocks \in Nat \ {0}
  BY ElementAssumption
<1>2. FreeOf(AllFree) = Elems /\ UsedOf(AllFree) = {}
  BY DEF FreeOf, UsedOf, AllFree
<1>3. Lines(s, MaxBlocks, Elems)
  <2>1. \A e \in Elems : e + 1 \in 1 .. MaxBlocks /\ (e + 1) - 1 = e
    BY <1>1 DEF Elems
  <2> QED BY <1>1, <2>1 DEF Lines, Elems
<1>4. Forth(s, MaxBlocks, AllFree.next)
  BY <1>1 DEF Forth, AllFree, Elems
<1>5. FreeInLine(AllFree, s, MaxBlocks)
  <2>1. AllFree.firstFree = 0 /\ AllFree.lastFree = MaxBlocks - 1
    BY DEF AllFree
  <2>2. FirstOf(s, MaxBlocks) = 0 /\ LastOf(s, MaxBlocks) = MaxBlocks - 1
    BY <1>1 DEF FirstOf, LastOf
  <2> HIDE DEF s
  <2> QED BY <1>2, <1>3, <1>4, <2>1, <2>2 DEF FreeInLine
<1>6. PICK none : Lines(none, 0, {})
  BY EmptyLines
<1>7. UsedInLine(AllFree, none, 0)
  <2>1. AllFree.firstUsed = End
    BY DEF AllFree
  <2>2. Forth(none, 0, AllFree.next) /\ Back(none, 0, AllFree.prev) /\ FirstOf(none, 0) = End
    BY DEF Forth, Back, FirstOf
  <2> QED BY <1>2, <1>6, <2>1, <2>2 DEF UsedInLine
<1> QED BY <1>1, <1>5, <1>7 DEF ElementsListed

\* get_elem: the first free element becomes the first used one.
LEMMA GetElemListed ==
  ASSUME NEW es, ElemsTyped(es), ElementsListed(es), es.firstFree # End
  PROVE  ElementsListed(GetElem(es))
<1> DEFINE e == es.firstFree
           new == GetElem(es)
<1>1. /\ new.next = [es.next EXCEPT ![e] = es.firstUsed]
      /\ new.prev = [f \in Elems |-> IF f = e THEN End
                                     ELSE IF f = es.firstUsed THEN e ELSE es.prev[f]]
      /\ new.free = [es.free EXCEPT ![e] = FALSE]
      /\ new.firstFree = es.next[e]
      /\ new.lastFree = IF es.lastFree = e THEN End ELSE es.lastFree
      /\ new.firstUsed = e
  BY DEF GetElem
<1>2. /\ es.next \in [Elems -> Elems \cup {End}] /\ es.prev \in [Elems -> Elems \cup {End}]
      /\ es.free \in [Elems -> BOOLEAN]
  BY DEF ElemsTyped
<1>a. PICK n \in Nat : \E s : FreeInLine(es, s, n)
  BY DEF ElementsListed
<1>3. PICK s : FreeInLine(es, s, n)
  BY <1>a
<1>b. PICK m \in Nat : \E u : UsedInLine(es, u, m)
  BY DEF ElementsListed
<1>4. PICK u : UsedInLine(es, u, m)
  BY <1>b
<1>5. n # 0 /\ e = s[1] /\ 1 \in 1 .. n /\ e \in Elems /\ es.free[e]
  BY <1>3 DEF FreeInLine, FirstOf, Lines, FreeOf
<1>6. FreeOf(new) = FreeOf(es) \ {e} /\ UsedOf(new) = UsedOf(es) \cup {e} /\ e \notin UsedOf(es)
  BY <1>1, <1>2, <1>5 DEF FreeOf, UsedOf
<1>7. \A f \in Elems \ {e} : new.next[f] = es.next[f]
  BY <1>1, <1>2
<1>8. new.next[e] = es.firstUsed
  BY <1>1, <1>2, <1>5
<1>9. \A f \in Elems : new.prev[f] = IF f = e THEN End ELSE IF f = es.firstUsed THEN e ELSE es.prev[f]
  BY <1>1
<1> HIDE DEF new
<1>10. FreeInLine(new, Without(s, n, 1), n - 1)
  <2> DEFINE t == Without(s, n, 1)
  <2>1. Lines(t, n - 1, FreeOf(new))
    BY <1>3, <1>5, <1>6, WithoutLines DEF FreeInLine
  <2>2. \A i \in 1 .. n - 1 : t[i] = s[i + 1] /\ i + 1 \in 1 .. n
    <3>1. \A i \in 1 .. n - 1 : ~(i < 1) /\ i + 1 \in 1 .. n
      OBVIOUS
    <3> QED BY <3>1 DEF Without
  <2> HIDE DEF t
  <2>3. ASSUME NEW i \in 1 .. n - 1
        PROVE  new.next[t[i]] = IF i = n - 1 THEN End ELSE t[i + 1]
    <3>1. t[i] \in Elems \ {e} /\ new.next[t[i]] = es.next[s[i + 1]]
      <4>1. t[i] \in FreeOf(new)
        BY <2>1 DEF Lines
      <4>2. t[i] \in Elems \ {e}
        BY <1>6, <4>1 DEF FreeOf
      <4> QED BY <1>7, <2>2, <4>2
    <3>2. es.next[s[i + 1]] = IF i + 1 = n THEN End ELSE s[(i + 1) + 1]
      BY <1>3, <2>2 DEF FreeInLine, Forth
    <3>3. i # n - 1 => t[i + 1] = s[(i + 1) + 1]
      BY <2>2
    <3> QED BY <3>1, <3>2, <3>3
  <2>4. new.firstFree = FirstOf(t, n - 1)
    <3>1. es.next[e] = IF n = 1 THEN End ELSE s[2]
      BY <1>3, <1>5 DEF FreeInLine, Forth
    <3>2. n # 1 => t[1] = s[2]
      BY <1>5, <2>2
    <3> QED BY <1>1, <3>1, <3>2 DEF FirstOf
  <2>5. new.lastFree = LastOf(t, n - 1)
    <3>1. es.lastFree = s[n] /\ (s[n] = e <=> n = 1)
      BY <1>3, <1>5 DEF FreeInLine, LastOf, Lines
    <3>2. n # 1 => t[n - 1] = s[n]
      BY <1>5, <2>2
    <3> QED BY <1>1, <1>5, <3>1, <3>2 DEF LastOf
  <2>6. Forth(t, n - 1, new.next)
    BY <2>3 DEF Forth
  <2> QED BY <2>1, <2>4, <2>5, <2>6 DEF FreeInLine, t
<1>11. UsedInLine(new, InFront(e, u, m), m + 1)
  <2> DEFINE t == InFront(e, u, m)
  <2>1. Lines(t, m + 1, UsedOf(new))
    BY <1>4, <1>6, InFrontLines DEF UsedInLine
  <2>2. t[1] = e /\ \A i \in 2 .. m + 1 : t[i] = u[i - 1] /\ i - 1 \in 1 .. m
    BY DEF InFront
  <2> HIDE DEF t
  <2>3. es.firstUsed = FirstOf(u, m) /\ \A i \in 1 .. m : u[i] \in Elems \ {e}
    BY <1>4, <1>6 DEF UsedInLine, Lines, UsedOf
  <2>4. ASSUME NEW i \in 1 .. m + 1
        PROVE  /\ new.next[t[i]] = IF i = m + 1 THEN End ELSE t[i + 1]
               /\ new.prev[t[i]] = IF i = 1 THEN End ELSE t[i - 1]
    <3>1. CASE i = 1
      <4>1. m # 0 => t[2] = u[1]
        BY <2>2
      <4> QED BY <1>5, <1>8, <1>9, <2>2, <2>3, <3>1, <4>1 DEF FirstOf
    <3>2. CASE i # 1
      <4>1. i - 1 \in 1 .. m /\ t[i] = u[i - 1] /\ (i - 1 = m <=> i = m + 1)
        BY <2>2, <3>2
      <4>2. /\ es.next[u[i - 1]] = IF i - 1 = m THEN End ELSE u[(i - 1) + 1]
            /\ es.prev[u[i - 1]] = IF i - 1 = 1 THEN End ELSE u[(i - 1) - 1]
        BY <1>4, <4>1 DEF UsedInLine, Forth, Back
      <4>3. i # m + 1 => t[i + 1] = u[(i - 1) + 1]
        BY <2>2, <3>2
      <4>4. i - 1 # 1 => t[i - 1] = u[(i - 1) - 1]
        BY <2>2, <3>2
      <4>5. u[i - 1] = es.firstUsed <=> i - 1 = 1
        BY <1>4, <2>3, <4>1 DEF UsedInLine, Lines, FirstOf
      <4> QED BY <1>7, <1>9, <2>2, <2>3, <3>2, <4>1, <4>2, <4>3, <4>4, <4>5
    <3> QED BY <3>1, <3>2
  <2>5. new.firstUsed = FirstOf(t, m + 1)
    BY <1>1, <2>2 DEF FirstOf
  <2>6. Forth(t, m + 1, new.next) /\ Back(t, m + 1, new.prev)
    BY <2>4 DEF Forth, Back
  <2> QED BY <2>1, <2>5, <2>6 DEF UsedInLine, t
<1>12. n - 1 \in Nat /\ m + 1 \in Nat
  BY <1>5
<1> QED BY <1>10, <1>11, <1>12 DEF ElementsListed, new

\* put_elem: a used element, wherever it is, becomes the last free one.
LEMMA PutElemListed ==
  ASSUME NEW es, ElemsTyped(es), ElementsListed(es), NEW e \in Elems, ~es.free[e]
  PROVE  ElementsListed(PutElem(es, e))
<1> DEFINE new == PutElem(es, e)
<1>1. /\ new.next = [f \in Elems |-> IF f = e THEN End
                                     ELSE IF f = es.prev[e] THEN es.next[e]
                                     ELSE IF f = es.lastFree THEN e ELSE es.next[f]]
      /\ new.prev = [f \in Elems |-> IF f = es.next[e] THEN es.prev[e] ELSE es.prev[f]]
      /\ new.free = [es.free EXCEPT ![e] = TRUE]
      /\ new.firstFree = IF es.firstFree = End THEN e ELSE es.firstFree
      /\ new.lastFree = e
      /\ new.firstUsed = IF es.firstUsed = e THEN es.next[e] ELSE es.firstUsed
  BY DEF PutElem
<1>2. es.free \in [Elems -> BOOLEAN]
  BY DEF ElemsTyped
<1>a. PICK n \in Nat : \E s : FreeInLine(es, s, n)
  BY DEF ElementsListed
<1>3. PICK s : FreeInLine(es, s, n)
  BY <1>a
<1>b. PICK m \in Nat : \E u : UsedInLine(es, u, m)
  BY DEF ElementsListed
<1>4. PICK u : UsedInLine(es, u, m)
  BY <1>b
<1>5. PICK j \in 1 .. m : u[j] = e
  BY <1>4 DEF UsedInLine, Lines, UsedOf
<1>6. FreeOf(new) = FreeOf(es) \cup {e} /\ UsedOf(new) = UsedOf(es) \ {e} /\ e \notin FreeOf(es)
  BY <1>1, <1>2 DEF FreeOf, UsedOf
<1>7. /\ \A i \in 1 .. n : s[i] \in Elems /\ s[i] # e /\ s[i] \in FreeOf(es)
      /\ \A i \in 1 .. m : u[i] \in Elems /\ u[i] \notin FreeOf(es) /\ (u[i] = e <=> i = j)
  BY <1>3, <1>4, <1>5, <1>6 DEF FreeInLine, UsedInLine, Lines, FreeOf, UsedOf
<1>8. /\ es.next[e] = IF j = m THEN End ELSE u[j + 1]
      /\ es.prev[e] = IF j = 1 THEN End ELSE u[j - 1]
  BY <1>4, <1>5 DEF UsedInLine, Forth, Back
<1>9. es.lastFree = (IF n = 0 THEN End ELSE s[n]) /\ es.firstFree = IF n = 0 THEN End ELSE s[1]
  BY <1>3 DEF FreeInLine, LastOf, FirstOf
<1>10. j > 1 => j - 1 \in 1 .. m
  OBVIOUS
<1>11. j < m => j + 1 \in 1 .. m
  OBVIOUS
<1> HIDE DEF new
<1>12. FreeInLine(new, AtTheEnd(s, n, e), n + 1)
  <2> DEFINE t == AtTheEnd(s, n, e)
  <2>1. Lines(t, n + 1, FreeOf(new))
    BY <1>3, <1>6, AtTheEndLines DEF FreeInLine
  <2>2. t[n + 1] = e /\ \A i \in 1 .. n : t[i] = s[i]
    BY DEF AtTheEnd
  <2> HIDE DEF t
  <2>3. ASSUME NEW i \in 1 .. n + 1
        PROVE  new.next[t[i]] = IF i = n + 1 THEN End ELSE t[i + 1]
    <3>1. CASE i = n + 1
      BY <1>1, <2>2, <3>1
    <3>2. CASE i # n + 1
      <4>1. i \in 1 .. n /\ t[i] = s[i] /\ n # 0
        BY <2>2, <3>2
      <4>2. s[i] # es.prev[e]
        BY <1>7, <1>8, <1>10, <4>1, EndIsNone
      <4>3. s[i] = es.lastFree <=> i = n
        BY <1>3, <1>9, <4>1 DEF FreeInLine, Lines
      <4>4. es.next[s[i]] = IF i = n THEN End ELSE s[i + 1]
        BY <1>3, <4>1 DEF FreeInLine, Forth
      <4>5. t[i + 1] = IF i = n THEN e ELSE s[i + 1]
        BY <2>2, <4>1
      <4> QED BY <1>1, <1>7, <3>2, <4>1, <4>2, <4>3, <4>4, <4>5
    <3> QED BY <3>1, <3>2
  <2>4. new.lastFree = LastOf(t, n + 1)
    BY <1>1, <2>2 DEF LastOf
  <2>5. new.firstFree = FirstOf(t, n + 1)
    <3>1. n # 0 => t[1] = s[1] /\ s[1] # End
      BY <1>7, <2>2, EndIsNone
    <3> QED BY <1>1, <1>9, <2>2, <3>1 DEF FirstOf
  <2>6. Forth(t, n + 1, new.next)
    BY <2>3 DEF Forth
  <2> QED BY <2>1, <2>4, <2>5, <2>6 DEF FreeInLine, t
<1>13. UsedInLine(new, Without(u, m, j), m - 1)
  <2> DEFINE t == Without(u, m, j)
  <2>1. Lines(t, m - 1, UsedOf(new))
    BY <1>4, <1>5, <1>6, WithoutLines DEF UsedInLine
  <2>2. \A i \in 1 .. m - 1 : /\ t[i] = IF i < j THEN u[i] ELSE u[i + 1]
                              /\ i \in 1 .. m /\ i + 1 \in 1 .. m
    BY DEF Without
  <2> HIDE DEF t
  <2>3. ASSUME NEW i \in 1 .. m, i # j
        PROVE  /\ u[i] = es.prev[e] <=> i = j - 1
               /\ u[i] = es.next[e] <=> i = j + 1
               /\ u[i] # es.lastFree /\ u[i] # e
    BY <1>4, <1>7, <1>8, <1>9, <1>10, <1>11, <2>3, EndIsNone DEF UsedInLine, Lines
  <2>4. ASSUME NEW i \in 1 .. m, i # j
        PROVE  /\ new.next[u[i]] = IF i = j - 1 THEN es.next[e] ELSE es.next[u[i]]
               /\ new.prev[u[i]] = IF i = j + 1 THEN es.prev[e] ELSE es.prev[u[i]]
    BY <1>1, <1>7, <2>3, <2>4
  <2>5. \A i \in 1 .. m : /\ es.next[u[i]] = IF i = m THEN End ELSE u[i + 1]
                          /\ es.prev[u[i]] = IF i = 1 THEN End ELSE u[i - 1]
    BY <1>4 DEF UsedInLine, Forth, Back
  <2>6. ASSUME NEW i \in 1 .. m - 1
        PROVE  /\ new.next[t[i]] = IF i = m - 1 THEN End ELSE t[i + 1]
               /\ new.prev[t[i]] = IF i = 1 THEN End ELSE t[i - 1]
    <3>1. CASE i < j
      <4>1. t[i] = u[i] /\ i \in 1 .. m /\ i # j
        BY <2>2, <3>1
      <4>2. i # m - 1 => t[i + 1] = IF i + 1 = j THEN u[j + 1] ELSE u[i + 1]
        BY <2>2, <3>1
      <4>3. i # 1 => t[i - 1] = u[i - 1]
        BY <2>2, <3>1
      <4>4. new.next[t[i]] = IF i = m - 1 THEN End ELSE t[i + 1]
        BY <1>8, <2>4, <2>5, <3>1, <4>1, <4>2
      <4>5. new.prev[t[i]] = IF i = 1 THEN End ELSE t[i - 1]
        BY <2>4, <2>5, <3>1, <4>1, <4>3
      <4> QED BY <4>4, <4>5
    <3>2. CASE ~(i < j)
      <4>1. t[i] = u[i + 1] /\ i + 1 \in 1 .. m /\ i + 1 # j
        BY <2>2, <3>2
      <4>2. i # m - 1 => t[i + 1] = u[(i + 1) + 1]
        BY <2>2, <3>2
      <4>3. i # 1 => t[i - 1] = IF i = j THEN u[j - 1] ELSE u[i]
        <5> SUFFICES ASSUME i # 1 PROVE t[i - 1] = IF i = j THEN u[j - 1] ELSE u[i]
          OBVIOUS
        <5>1. i - 1 \in 1 .. m - 1 /\ (i - 1) + 1 = i /\ (i - 1 < j <=> i = j)
          BY <3>2
        <5> QED BY <2>2, <5>1
      <4>4. new.next[t[i]] = IF i = m - 1 THEN End ELSE t[i + 1]
        BY <2>4, <2>5, <3>2, <4>1, <4>2
      <4>5. new.prev[t[i]] = IF i = 1 THEN End ELSE t[i - 1]
        <5>1. (i + 1) - 1 = i /\ (i + 1 = j + 1 <=> i = j) /\ i + 1 # 1
          OBVIOUS
        <5>2. CASE i = j
          BY <1>8, <2>4, <4>1, <4>3, <5>1, <5>2
        <5>3. CASE i # j
          BY <2>4, <2>5, <3>2, <4>1, <4>3, <5>1, <5>3
        <5> QED BY <5>2, <5>3
      <4> QED BY <4>4, <4>5
    <3> QED BY <3>1, <3>2
  <2>7. new.firstUsed = FirstOf(t, m - 1)
    <3>1. es.firstUsed = u[1] /\ (u[1] = e <=> j = 1)
      BY <1>4, <1>7 DEF UsedInLine, FirstOf
    <3>2. m - 1 # 0 => t[1] = IF j = 1 THEN u[2] ELSE u[1]
      BY <2>2
    <3> QED BY <1>1, <1>8, <3>1, <3>2 DEF FirstOf
  <2>8. Forth(t, m - 1, new.next) /\ Back(t, m - 1, new.prev)
    BY <2>6 DEF Forth, Back
  <2> QED BY <2>1, <2>7, <2>8 DEF UsedInLine, t
<1>14. n + 1 \in Nat /\ m - 1 \in Nat
  OBVIOUS
<1> QED BY <1>12, <1>13, <1>14 DEF ElementsListed, new

-----------------------------------------------------------------------------
(* What is counted *)

OfSize(b) == {e \in Used : heap[ptr[e]] = BlockSize[b]}

\* Each bucket's list holds its blocks in nobody's hands, which are counted, as
\* all blocks of its size are.
BucketsCounted ==
  \A b \in Buckets :
    /\ Chain(bucket[b].first, link, Unused(b))
    /\ bucket[b].free = Cardinality(Unused(b))
    /\ bucket[b].total = Cardinality(OfSize(b))

\* No memory but that of the used elements, and its sizes make inUse.
MemoryCounted ==
  /\ DOMAIN heap = {ptr[e] : e \in Used}
  /\ inUse = Cardinality(Units(heap, DOMAIN heap))

\* A loop does not turn more often than it was to.
TurnsCounted == job.left \in Nat /\ (job.do = "grow" => job.left # 0)

Counts == BucketsCounted /\ ElementsListed(elems) /\ MemoryCounted /\ TurnsCounted

LEMMA UnitsSame ==
  ASSUME NEW S, NEW f, NEW g, \A x \in S : f[x] = g[x]
  PROVE  Units(f, S) = Units(g, S)
BY DEF Units

LEMMA UsedFinite ==
  /\ Used \subseteq Elems /\ IsFiniteSet(Used)
  /\ \A b \in Buckets : /\ Unused(b) \subseteq Elems /\ IsFiniteSet(Unused(b))
                        /\ OfSize(b) \subseteq Elems /\ IsFiniteSet(OfSize(b))
<1>1. Used \subseteq Elems /\ \A b \in Buckets : Unused(b) \subseteq Elems /\ OfSize(b) \subseteq Elems
  BY DEF Used, Unused, OfSize
<1> QED BY <1>1, ElemsCount, FS_Subset

\* Memory is as many blocks as there are used elements, each of a bucket's size.
LEMMA MemoryIsFinite ==
  ASSUME IInv, MemoryCounted
  PROVE  /\ IsFiniteSet(DOMAIN heap) /\ Cardinality(DOMAIN heap) = Cardinality(Used)
         /\ \A p \in DOMAIN heap : heap[p] \in 0 .. BlockSize[Top]
<1> DEFINE g == [e \in Used |-> ptr[e]]
<1>1. g \in Surjection(Used, DOMAIN heap)
  BY DEF MemoryCounted, Surjection
<1>2. g \in Injection(Used, DOMAIN heap)
  BY <1>1 DEF IInv, Backed, Surjection, Injection, IsInjective
<1>3. IsFiniteSet(DOMAIN heap) /\ Cardinality(DOMAIN heap) = Cardinality(Used)
  BY <1>1, <1>2, UsedFinite, FS_Surjection
<1>4. ASSUME NEW p \in DOMAIN heap PROVE heap[p] \in 0 .. BlockSize[Top]
  <2>1. PICK e \in Used : p = ptr[e]
    BY DEF MemoryCounted
  <2>2. PICK b \in Buckets : heap[p] = BlockSize[b]
    BY <2>1 DEF IInv, Backed
  <2> QED BY <2>2, SizesAreNat
<1> QED BY <1>3, <1>4

LEMMA RecycleCountNat ==
  ASSUME NEW bk, bk.free \in Nat, NEW b, NEW threshold
  PROVE  RecycleCount(bk, b, threshold) \in Nat
<1>1. (bk.free + 1) \div 2 \in Nat /\ bk.free \div 2 \in Nat
  OBVIOUS
<1> QED BY <1>1 DEF RecycleCount

LEMMA FreeIsNat ==
  ASSUME BucketsCounted
  PROVE  \A b \in Buckets : bucket[b].free \in Nat /\ bucket[b].total \in Nat
BY UsedFinite, FS_CardinalityType DEF BucketsCounted

LEMMA InitiallyCounted == PoolInit => Counts
<1> SUFFICES ASSUME PoolInit PROVE Counts
  OBVIOUS
<1>1. Used = {} /\ \A b \in Buckets : Unused(b) = {} /\ OfSize(b) = {}
  BY DEF PoolInit, AllFree, Used, Unused, OfSize
<1>2. BucketsCounted
  <2>1. \A b \in Buckets : bucket[b].first = End /\ bucket[b].free = 0 /\ bucket[b].total = 0
    BY DEF PoolInit
  <2> QED BY <1>1, <2>1, ChainEmpty, FS_EmptySet DEF BucketsCounted
<1>3. ElementsListed(elems)
  BY AllFreeListed DEF PoolInit
<1>4. MemoryCounted
  <2>1. DOMAIN heap = {} /\ inUse = 0
    BY DEF PoolInit
  <2>2. Units(heap, {}) = {}
    BY DEF Units
  <2>3. DOMAIN heap = {ptr[e] : e \in Used}
    BY <1>1, <2>1
  <2> QED BY <2>1, <2>2, <2>3, FS_EmptySet DEF MemoryCounted
<1>5. TurnsCounted
  BY DEF PoolInit, Idle, TurnsCounted
<1> QED BY <1>2, <1>3, <1>4, <1>5 DEF Counts

\* The steps that only go on with job.
LEMMA MovesCount ==
  ASSUME IInv, Counts,
         Expand \/ RecycleNext \/ GrowFails \/ Return \/ TrimDone \/ \E n \in Lens : Alloc(n)
  PROVE  Counts'
<1>1. UNCHANGED <<elems, ptr, link, bucket, heap, inUse, held>>
  BY DEF Expand, RecycleNext, GrowFails, Return, TrimDone, Alloc, lists
<1>2. job \in JobType /\ TurnsCounted
  BY DEF IInv, Typed, Counts
<1>3. ASSUME NEW k \in Buckets PROVE Recycling(k).left \in Nat /\ Recycling(k).do # "grow"
  <2>1. RecycleCount(bucket[k], k, 2 * Medium) \in Nat
    BY FreeIsNat, RecycleCountNat DEF Counts
  <2> QED BY <1>2, <2>1 DEF Recycling, JobType
<1>4. Growing.left \in Nat \ {0}
  BY <1>2, DeltaPositive DEF Growing, JobType
<1>5. /\ Idle.left = 0 /\ Idle.do = "idle"
      /\ Returning(NoBlock).left = 0 /\ Returning(NoBlock).do = "return"
  BY DEF Idle, Returning
<1>6. TurnsCounted'
  <2>1. CASE Expand
    BY <1>3, <1>4, <2>1, SizesAreNat DEF Expand, TurnsCounted
  <2>2. CASE RecycleNext
    <3>1. job.k < Top => job.k + 1 \in Buckets
      <4>1. job.k \in Buckets
        BY <1>2 DEF JobType
      <4> QED BY <4>1, PoolAssumption DEF Buckets
    <3> QED BY <1>3, <1>4, <1>5, <2>2, <3>1 DEF RecycleNext, TurnsCounted
  <2>3. CASE GrowFails
    BY <1>2, <1>5, <2>3 DEF GrowFails, JobType, TurnsCounted
  <2>4. CASE Return \/ TrimDone
    BY <1>5, <2>4 DEF Return, TrimDone, TurnsCounted
  <2>5. ASSUME NEW n \in Lens, Alloc(n) PROVE TurnsCounted'
    <3>1. job'.left = 0 /\ job'.do # "grow"
      BY <1>5, <2>5 DEF Alloc, Idle
    <3> QED BY <3>1 DEF TurnsCounted
  <2> QED BY <2>1, <2>2, <2>3, <2>4, <2>5
<1> QED BY <1>1, <1>6
        DEF Counts, BucketsCounted, ElementsListed, FreeInLine, UsedInLine, FreeOf, UsedOf,
            MemoryCounted, Unused, OfSize, Used

\* The first free block of the bucket leaves its list, and its memory is freed.
LEMMA RecycleCounts ==
  ASSUME IInv, Counts, Recycle
  PROVE  Counts'
<1> DEFINE k == job.k
           e == bucket[k].first
           s == BlockSize[k]
<1>1. k \in Buckets /\ e # End /\ job \in JobType
  BY DEF IInv, Typed, JobType, Recycle
<1>2. e \in Unused(k) /\ Chain(link[e], link, Unused(k) \ {e})
  BY <1>1, UsedFinite, ChainPop DEF Counts, BucketsCounted
<1>3. e \in Used /\ e \in Elems /\ ~elems.free[e] /\ heap[ptr[e]] = s /\ e \in OfSize(k)
  BY <1>2 DEF Unused, OfSize, Used
<1>4. elems' = PutElem(elems, e) /\ ptr' = ptr /\ link' = link /\ held' = held
  BY DEF Recycle
<1>5. Used' = Used \ {e}
  <2>1. elems'.free = [elems.free EXCEPT ![e] = TRUE]
    BY <1>3, <1>4, PutElemKeeps DEF IInv
  <2>2. elems.free \in [Elems -> BOOLEAN]
    BY DEF IInv, ElementsOk, ElemsTyped
  <2> QED BY <1>3, <2>1, <2>2 DEF Used
<1>6. /\ DOMAIN heap' = DOMAIN heap \ {ptr[e]}
      /\ \A p \in DOMAIN heap' : heap'[p] = heap[p]
      /\ \A f \in Used' : ptr[f] \in DOMAIN heap'
  BY <1>3, <1>5 DEF IInv, Backed, Recycle, Restrict
<1>7. \A b \in Buckets \ {k} : BlockSize[b] # s
  BY <1>1, SizesDiffer
<1>8. ASSUME NEW b \in Buckets
      PROVE  /\ Unused(b)' = IF b = k THEN Unused(k) \ {e} ELSE Unused(b)
             /\ OfSize(b)' = IF b = k THEN OfSize(k) \ {e} ELSE OfSize(b)
  <2>1. \A f \in Used' : heap'[ptr'[f]] = heap[ptr[f]]
    BY <1>4, <1>6
  <2>2. Unused(b)' = Unused(b) \ {e} /\ OfSize(b)' = OfSize(b) \ {e}
    BY <1>4, <1>5, <2>1 DEF Unused, OfSize
  <2>3. b # k => e \notin Unused(b) /\ e \notin OfSize(b)
    BY <1>3, <1>7 DEF Unused, OfSize
  <2> QED BY <2>2, <2>3
<1>9. BucketsCounted'
  <2> SUFFICES ASSUME NEW b \in Buckets
               PROVE  /\ Chain(bucket'[b].first, link', Unused(b)')
                      /\ bucket'[b].free = Cardinality(Unused(b)')
                      /\ bucket'[b].total = Cardinality(OfSize(b)')
    BY DEF BucketsCounted
  <2>1. /\ Chain(bucket[b].first, link, Unused(b))
        /\ bucket[b].free = Cardinality(Unused(b))
        /\ bucket[b].total = Cardinality(OfSize(b))
    BY DEF Counts, BucketsCounted
  <2>2. bucket' = [bucket EXCEPT ![k] = [first |-> link[e], free |-> @.free - 1, total |-> @.total - 1]]
    BY DEF Recycle
  <2>3. bucket \in [Buckets -> [first : Elems \cup {End}, free : Int, total : Int]]
    BY DEF IInv, Typed
  <2>4. CASE b = k
    <3>1. /\ bucket'[b].first = link[e]
          /\ bucket'[b].free = bucket[b].free - 1 /\ bucket'[b].total = bucket[b].total - 1
      BY <1>1, <2>2, <2>3, <2>4
    <3>2. /\ Cardinality(Unused(k) \ {e}) = Cardinality(Unused(k)) - 1
          /\ Cardinality(OfSize(k) \ {e}) = Cardinality(OfSize(k)) - 1
      <4>1. /\ IsFiniteSet(Unused(k)) /\ e \in Unused(k)
            /\ IsFiniteSet(OfSize(k)) /\ e \in OfSize(k)
        BY <1>1, <1>2, <1>3, UsedFinite
      <4> HIDE DEF e, k
      <4> QED BY <4>1, FS_RemoveElement
    <3> QED BY <1>2, <1>4, <1>8, <2>1, <2>4, <3>1, <3>2
  <2>5. CASE b # k
    <3>1. bucket'[b] = bucket[b]
      BY <2>2, <2>3, <2>5
    <3> QED BY <1>4, <1>8, <2>1, <2>5, <3>1
  <2> QED BY <2>4, <2>5
<1>10. ElementsListed(elems')
  BY <1>3, <1>4, PutElemListed DEF IInv, ElementsOk, Counts
<1>11. MemoryCounted'
  <2> DEFINE D == DOMAIN heap'
             p == ptr[e]
  <2>1. DOMAIN heap = D \cup {p} /\ p \notin D /\ IsFiniteSet(D)
    <3>1. p \in DOMAIN heap /\ IsFiniteSet(DOMAIN heap)
      BY <1>3, MemoryIsFinite DEF IInv, Backed, Counts
    <3>2. D = DOMAIN heap \ {p}
      BY <1>6
    <3> HIDE DEF D, p
    <3>3. IsFiniteSet(DOMAIN heap \ {p})
      BY <3>1, FS_RemoveElement
    <3> QED BY <3>1, <3>2, <3>3
  <2>2. Cardinality(Units(heap, D \cup {p})) = heap[p] + Cardinality(Units(heap, D))
    <3>1. BlockSize[Top] \in Nat /\ \A q \in D \cup {p} : heap[q] \in 0 .. BlockSize[Top]
      BY <2>1, MemoryIsFinite, SizesAreNat DEF Counts
    <3> HIDE DEF D, p
    <3> QED BY <2>1, <3>1, UnitsAdd
  <2>3. Units(heap', D) = Units(heap, D)
    BY <1>6, UnitsSame
  <2>4. Cardinality(Units(heap, D)) \in Nat
    <3>1. BlockSize[Top] \in Nat /\ \A q \in D : heap[q] \in 0 .. BlockSize[Top]
      BY <2>1, MemoryIsFinite, SizesAreNat DEF Counts
    <3> HIDE DEF D
    <3> QED BY <2>1, <3>1, UnitsFinite
  <2>5. inUse' = Cardinality(Units(heap', D))
    <3>1. inUse = Cardinality(Units(heap, D \cup {p}))
      BY <2>1 DEF Counts, MemoryCounted
    <3>2. inUse' = inUse - s /\ heap[p] = s /\ s \in Nat
      <4>1. inUse' = inUse - s
        BY DEF Recycle
      <4>2. s \in Nat
        BY <1>1, SizesAreNat
      <4> QED BY <1>3, <4>1, <4>2
    <3> HIDE DEF D, s, p
    <3>3. inUse = s + Cardinality(Units(heap, D))
      BY <2>2, <3>1, <3>2
    <3>4. inUse' = Cardinality(Units(heap, D))
      BY <2>4, <3>2, <3>3
    <3> QED BY <2>3, <3>4
  <2>6. D = {ptr'[f] : f \in Used'}
    <3>1. DOMAIN heap = {ptr[f] : f \in Used}
      BY DEF Counts, MemoryCounted
    <3>2. \A f \in Used : ptr[f] = ptr[e] => f = e
      BY <1>3 DEF IInv, Backed
    <3>3. ASSUME NEW q \in D PROVE q \in {ptr'[f] : f \in Used'}
      <4>1. q \in DOMAIN heap /\ q # ptr[e]
        BY <1>6
      <4>2. PICK f \in Used : q = ptr[f]
        BY <3>1, <4>1
      <4>3. f \in Used' /\ ptr'[f] = ptr[f]
        BY <1>4, <1>5, <4>1, <4>2
      <4> QED BY <4>2, <4>3
    <3>4. ASSUME NEW f \in Used' PROVE ptr'[f] \in D
      BY <1>4, <1>5, <1>6
    <3> QED BY <3>3, <3>4
  <2> QED BY <2>5, <2>6 DEF MemoryCounted
<1>12. TurnsCounted'
  <2>1. job'.left = job.left - 1 /\ job'.do = job.do /\ job.left > 0 /\ job.do # "grow"
    BY <1>1 DEF Recycle, JobType
  <2> QED BY <2>1 DEF Counts, TurnsCounted
<1> QED BY <1>9, <1>10, <1>11, <1>12 DEF Counts

\* The new block is put in front of its bucket's list.
LEMMA GrowCounts ==
  ASSUME IInv, Counts, Grow
  PROVE  Counts'
<1> DEFINE c == job.b
           e == elems.firstFree
           s == BlockSize[c]
<1>1. c \in Buckets /\ e # End /\ job \in JobType /\ held' = held /\ elems' = GetElem(elems)
  BY DEF IInv, Typed, JobType, Grow
<1>2. PICK p \in Addrs \ DOMAIN heap :
        /\ heap' = [q \in DOMAIN heap \cup {p} |-> IF q = p THEN s ELSE heap[q]]
        /\ ptr' = [ptr EXCEPT ![e] = p]
  BY DEF Grow
<1>3. elems'.free = [elems.free EXCEPT ![e] = FALSE] /\ e \in Elems /\ elems.free[e]
  BY <1>1, GetElemKeeps DEF IInv
<1>4. e \notin Used /\ Used' = Used \cup {e}
  <2>1. elems.free \in [Elems -> BOOLEAN]
    BY DEF IInv, ElementsOk, ElemsTyped
  <2> QED BY <1>3, <2>1 DEF Used
<1>5. /\ DOMAIN heap' = DOMAIN heap \cup {p} /\ p \notin DOMAIN heap
      /\ \A q \in DOMAIN heap : heap'[q] = heap[q]
      /\ ptr'[e] = p /\ heap'[p] = s
      /\ \A f \in Used : ptr'[f] = ptr[f] /\ ptr[f] \in DOMAIN heap /\ heap'[ptr[f]] = heap[ptr[f]]
  BY <1>2, <1>3, <1>4 DEF IInv, Typed, Backed, Used
<1>6. link'[e] = bucket[c].first /\ \A f \in Used : link'[f] = link[f]
  BY <1>3, <1>4 DEF IInv, Typed, Grow, Used
<1>7. \A b \in Buckets \ {c} : BlockSize[b] # s
  BY <1>1, SizesDiffer
<1>8. \A block \in held : block.cookie # e
  BY <1>4 DEF IInv, HeldIsUsed
<1>9. ASSUME NEW b \in Buckets
      PROVE  /\ Unused(b)' = IF b = c THEN Unused(c) \cup {e} ELSE Unused(b)
             /\ OfSize(b)' = IF b = c THEN OfSize(c) \cup {e} ELSE OfSize(b)
  BY <1>1, <1>4, <1>5, <1>7, <1>8 DEF Unused, OfSize
<1>10. e \notin Unused(c) /\ e \notin OfSize(c)
  BY <1>4 DEF Unused, OfSize
<1>11. BucketsCounted'
  <2> SUFFICES ASSUME NEW b \in Buckets
               PROVE  /\ Chain(bucket'[b].first, link', Unused(b)')
                      /\ bucket'[b].free = Cardinality(Unused(b)')
                      /\ bucket'[b].total = Cardinality(OfSize(b)')
    BY DEF BucketsCounted
  <2>1. /\ Chain(bucket[b].first, link, Unused(b))
        /\ bucket[b].free = Cardinality(Unused(b))
        /\ bucket[b].total = Cardinality(OfSize(b))
    BY DEF Counts, BucketsCounted
  <2>2. bucket' = [bucket EXCEPT ![c] = [first |-> e, free |-> @.free + 1, total |-> @.total + 1]]
    BY DEF Grow
  <2>3. bucket \in [Buckets -> [first : Elems \cup {End}, free : Int, total : Int]]
    BY DEF IInv, Typed
  <2>4. \A f \in Unused(b) : link'[f] = link[f]
    BY <1>6 DEF Unused
  <2>5. CASE b = c
    <3>1. /\ bucket'[b].first = e
          /\ bucket'[b].free = bucket[b].free + 1 /\ bucket'[b].total = bucket[b].total + 1
      BY <1>1, <2>2, <2>3, <2>5
    <3>2. /\ Cardinality(Unused(c) \cup {e}) = Cardinality(Unused(c)) + 1
          /\ Cardinality(OfSize(c) \cup {e}) = Cardinality(OfSize(c)) + 1
      BY <1>1, <1>10, UsedFinite, FS_AddElement
    <3>3. Chain(e, link', Unused(c) \cup {e})
      BY <1>6, <1>10, <2>1, <2>4, <2>5, ChainPush
    <3> QED BY <1>9, <2>1, <2>5, <3>1, <3>2, <3>3
  <2>6. CASE b # c
    <3>1. bucket'[b] = bucket[b]
      BY <2>2, <2>3, <2>6
    <3>2. Chain(bucket[b].first, link', Unused(b))
      BY <2>1, <2>4, ChainSame
    <3> QED BY <1>9, <2>1, <2>6, <3>1, <3>2
  <2> QED BY <2>5, <2>6
<1>12. ElementsListed(elems')
  BY <1>1, GetElemListed DEF IInv, ElementsOk, Counts
<1>13. MemoryCounted'
  <2> DEFINE D == DOMAIN heap
  <2>1. IsFiniteSet(D) /\ \A q \in D : heap[q] \in 0 .. BlockSize[Top]
    BY MemoryIsFinite DEF Counts
  <2>2. s \in 0 .. BlockSize[Top] /\ BlockSize[Top] \in Nat
    <3>1. /\ BlockSize[Top] \in Nat
          /\ \A b \in Buckets : BlockSize[b] \in 0 .. BlockSize[Top]
      BY SizesAreNat
    <3> QED BY <1>1, <3>1
  <2>3. \A q \in D \cup {p} : heap'[q] \in 0 .. BlockSize[Top]
    BY <1>5, <2>1, <2>2
  <2>4. Cardinality(Units(heap', D \cup {p})) = heap'[p] + Cardinality(Units(heap', D))
    <3>1. p \notin D
      BY <1>5
    <3> HIDE DEF D
    <3> QED BY <2>1, <2>2, <2>3, <3>1, UnitsAdd
  <2>5. Units(heap', D) = Units(heap, D)
    BY <1>5, UnitsSame
  <2>6. Cardinality(Units(heap, D)) \in Nat
    BY <2>1, <2>2, UnitsFinite
  <2>7. inUse' = Cardinality(Units(heap', D \cup {p}))
    <3>1. inUse = Cardinality(Units(heap, D)) /\ inUse' = inUse + s /\ heap'[p] = s /\ s \in Nat
      BY <1>5, <2>2 DEF Counts, MemoryCounted, Grow
    <3> HIDE DEF D, s
    <3> QED BY <2>4, <2>5, <2>6, <3>1
  <2>8. DOMAIN heap' = {ptr'[f] : f \in Used'}
    BY <1>4, <1>5 DEF Counts, MemoryCounted
  <2> QED BY <1>5, <2>7, <2>8 DEF MemoryCounted
<1>14. TurnsCounted'
  <2>1. /\ job'.left = job.left - 1 /\ job.do = "grow"
        /\ job'.do = IF job.left = 1 THEN "take" ELSE "grow"
    BY <1>1 DEF Grow, JobType
  <2> QED BY <2>1 DEF Counts, TurnsCounted
<1> QED BY <1>11, <1>12, <1>13, <1>14 DEF Counts

\* The block that is taken leaves its bucket's list, but is still counted.
LEMMA TakeCounts ==
  ASSUME IInv, Counts, Take
  PROVE  Counts'
<1> DEFINE c == job.b
           e == bucket[c].first
           block == [ptr |-> ptr[e], size |-> BlockSize[c], cookie |-> e]
<1>1. c \in Buckets /\ e # End
  BY DEF IInv, Typed, JobType, AtWork, Take
<1>2. e \in Unused(c) /\ Chain(link[e], link, Unused(c) \ {e})
  BY <1>1, UsedFinite, ChainPop DEF Counts, BucketsCounted
<1>3. UNCHANGED <<elems, ptr, link, heap, inUse>> /\ held' = held \cup {block} /\ job' = Returning(block)
  BY DEF Take
<1>4. \A b \in Buckets \ {c} : e \notin Unused(b)
  BY <1>1, <1>2, SizesDiffer DEF Unused
<1>5. Used' = Used /\ \A b \in Buckets : OfSize(b)' = OfSize(b)
  BY <1>3 DEF Used, OfSize
<1>6. ASSUME NEW b \in Buckets
      PROVE  Unused(b)' = IF b = c THEN Unused(c) \ {e} ELSE Unused(b)
  <2>1. Unused(b)' = Unused(b) \ {e}
    BY <1>3, <1>5 DEF Unused
  <2> QED BY <1>4, <2>1
<1>7. BucketsCounted'
  <2> SUFFICES ASSUME NEW b \in Buckets
               PROVE  /\ Chain(bucket'[b].first, link', Unused(b)')
                      /\ bucket'[b].free = Cardinality(Unused(b)')
                      /\ bucket'[b].total = Cardinality(OfSize(b)')
    BY DEF BucketsCounted
  <2>1. /\ Chain(bucket[b].first, link, Unused(b))
        /\ bucket[b].free = Cardinality(Unused(b))
        /\ bucket[b].total = Cardinality(OfSize(b))
    BY DEF Counts, BucketsCounted
  <2>2. bucket' = [bucket EXCEPT ![c].first = link[e], ![c].free = @ - 1]
    BY DEF Take
  <2>3. bucket \in [Buckets -> [first : Elems \cup {End}, free : Int, total : Int]]
    BY DEF IInv, Typed
  <2>4. CASE b = c
    <3>1. /\ bucket'[b].first = link[e]
          /\ bucket'[b].free = bucket[b].free - 1 /\ bucket'[b].total = bucket[b].total
      <4> HIDE DEF c, e
      <4> QED BY <1>1, <2>2, <2>3, <2>4
    <3>2. Cardinality(Unused(c) \ {e}) = Cardinality(Unused(c)) - 1
      <4>1. IsFiniteSet(Unused(c)) /\ e \in Unused(c)
        BY <1>1, <1>2, UsedFinite
      <4> HIDE DEF c, e
      <4> QED BY <4>1, FS_RemoveElement
    <3> QED BY <1>2, <1>3, <1>5, <1>6, <2>1, <2>4, <3>1, <3>2
  <2>5. CASE b # c
    <3>1. bucket'[b] = bucket[b]
      <4> HIDE DEF c, e
      <4> QED BY <1>1, <2>2, <2>3, <2>5
    <3> QED BY <1>3, <1>5, <1>6, <2>1, <2>5, <3>1
  <2> QED BY <2>4, <2>5
<1>8. ElementsListed(elems')
  BY <1>3 DEF Counts
<1>9. MemoryCounted'
  BY <1>3, <1>5 DEF Counts, MemoryCounted
<1>10. TurnsCounted'
  BY <1>3 DEF Returning, Idle, TurnsCounted
<1> QED BY <1>7, <1>8, <1>9, <1>10 DEF Counts

\* The block that is released is put in front of the list of its bucket.
LEMMA ReleaseCounts ==
  ASSUME IInv, Counts, NEW block \in held, Release(block)
  PROVE  Counts'
<1> DEFINE c == Fit(block.size)
           e == block.cookie
<1>1. /\ e \in Elems /\ e \in Used /\ heap[ptr[e]] = block.size
      /\ \A other \in held \ {block} : other.cookie # e
  BY DEF IInv, HeldIsUsed, Used
<1>2. c \in Buckets /\ BlockSize[c] = block.size
  <2>1. PICK b \in Buckets : block.size = BlockSize[b]
    BY DEF IInv, Typed, Blocks
  <2> QED BY <2>1, FitOfSize
<1>3. UNCHANGED <<elems, ptr, heap, inUse>> /\ held' = held \ {block}
  BY DEF Release
<1>4. \A b \in Buckets : e \notin Unused(b)
  BY DEF Unused
<1>5. Used' = Used /\ \A b \in Buckets : OfSize(b)' = OfSize(b)
  BY <1>3 DEF Used, OfSize
<1>6. ASSUME NEW b \in Buckets
      PROVE  Unused(b)' = IF b = c THEN Unused(c) \cup {e} ELSE Unused(b)
  <2>1. b # c => BlockSize[b] # BlockSize[c]
    BY <1>2, SizesDiffer
  <2> QED BY <1>1, <1>2, <1>3, <1>5, <2>1 DEF Unused
<1>7. link'[e] = bucket[c].first /\ \A f \in Elems \ {e} : link'[f] = link[f]
  BY <1>1 DEF IInv, Typed, Release
<1> DEFINE bk == [first |-> e, free |-> bucket[c].free + 1, total |-> bucket[c].total]
<1>8. /\ bucket' = [bucket EXCEPT ![c] = bk]
      /\ job' = [Idle EXCEPT !.do = "trim", !.k = c, !.left = RecycleCount(bk, c, MaxPool \div 2)]
  BY DEF Release
<1>9. BucketsCounted'
  <2> SUFFICES ASSUME NEW b \in Buckets
               PROVE  /\ Chain(bucket'[b].first, link', Unused(b)')
                      /\ bucket'[b].free = Cardinality(Unused(b)')
                      /\ bucket'[b].total = Cardinality(OfSize(b)')
    BY DEF BucketsCounted
  <2>1. /\ Chain(bucket[b].first, link, Unused(b))
        /\ bucket[b].free = Cardinality(Unused(b))
        /\ bucket[b].total = Cardinality(OfSize(b))
    BY DEF Counts, BucketsCounted
  <2>2. \A f \in Unused(b) : link'[f] = link[f]
    BY <1>4, <1>7 DEF Unused, Used
  <2>3. bucket \in [Buckets -> [first : Elems \cup {End}, free : Int, total : Int]]
    BY DEF IInv, Typed
  <2>4. CASE b = c
    <3>1. /\ bucket'[b].first = e
          /\ bucket'[b].free = bucket[b].free + 1 /\ bucket'[b].total = bucket[b].total
      BY <1>2, <1>8, <2>3, <2>4
    <3>2. Cardinality(Unused(c) \cup {e}) = Cardinality(Unused(c)) + 1
      BY <1>2, <1>4, UsedFinite, FS_AddElement
    <3>3. Chain(e, link', Unused(c) \cup {e})
      BY <1>2, <1>4, <1>7, <2>1, <2>2, <2>4, ChainPush
    <3> QED BY <1>5, <1>6, <2>1, <2>4, <3>1, <3>2, <3>3
  <2>5. CASE b # c
    <3>1. bucket'[b] = bucket[b]
      BY <1>8, <2>3, <2>5
    <3>2. Chain(bucket[b].first, link', Unused(b))
      BY <2>1, <2>2, ChainSame
    <3> QED BY <1>5, <1>6, <2>1, <2>5, <3>1, <3>2
  <2> QED BY <2>4, <2>5
<1>10. ElementsListed(elems') /\ MemoryCounted'
  BY <1>3, <1>5 DEF Counts, MemoryCounted
<1>11. TurnsCounted'
  <2>1. RecycleCount(bk, c, MaxPool \div 2) \in Nat
    <3>1. bk.free \in Nat
      BY <1>2, FreeIsNat DEF Counts
    <3> HIDE DEF bk
    <3> QED BY <3>1, RecycleCountNat
  <2>2. job'.do = "trim" /\ job'.left = RecycleCount(bk, c, MaxPool \div 2)
    <3> HIDE DEF bk
    <3> QED BY <1>8 DEF Idle
  <2> QED BY <2>1, <2>2 DEF TurnsCounted
<1> QED BY <1>9, <1>10, <1>11 DEF Counts

LEMMA StepsCount ==
  ASSUME IInv, Counts, [PoolNext]_poolVars
  PROVE  Counts'
<1>1. CASE Inside \/ Return
  BY <1>1, MovesCount, RecycleCounts, GrowCounts, TakeCounts DEF Inside
<1>2. CASE \E n \in Lens : Alloc(n)
  BY <1>2, MovesCount
<1>3. ASSUME NEW block \in held, Release(block) PROVE Counts'
  BY <1>3, ReleaseCounts
<1>4. CASE UNCHANGED poolVars
  BY <1>4
     DEF poolVars, Counts, BucketsCounted, ElementsListed, FreeInLine, UsedInLine, FreeOf, UsedOf,
         MemoryCounted, TurnsCounted, Unused, OfSize, Used
<1> QED BY <1>1, <1>2, <1>3, <1>4 DEF PoolNext

-----------------------------------------------------------------------------
(* What follows *)

LEMMA InvariantHolds == PoolSpec => [](IInv /\ Accounted /\ Counts)
<1>1. PoolInit => IInv /\ Accounted /\ Counts
  BY Initially, InitiallyCounted, PoolAssumption DEF PoolInit, Accounted, Idle
<1>2. IInv /\ Accounted /\ Counts /\ [PoolNext]_poolVars => IInv' /\ Accounted' /\ Counts'
  <2>1. CASE UNCHANGED poolVars
    BY <2>1, StepsKeep, StepsCount DEF poolVars, Accounted
  <2> QED BY <2>1, StepsKeep, StepsAccount, StepsCount
<1> QED BY <1>1, <1>2, PTL DEF PoolSpec

LEMMA CountsAreTyped ==
  ASSUME IInv, Accounted, Counts
  PROVE  TypeOK
<1>1. bucket \in [Buckets -> [first : Elems \cup {End}, free : 0 .. MaxBlocks, total : 0 .. MaxBlocks]]
  <2>1. ASSUME NEW b \in Buckets
        PROVE  bucket[b].free \in 0 .. MaxBlocks /\ bucket[b].total \in 0 .. MaxBlocks
    <3>1. Cardinality(Unused(b)) <= MaxBlocks /\ Cardinality(OfSize(b)) <= MaxBlocks
      BY UsedFinite, ElemsCount, FS_Subset
    <3> QED BY <3>1, FreeIsNat, ElementAssumption DEF Counts, BucketsCounted
  <2>2. bucket \in [Buckets -> [first : Elems \cup {End}, free : Int, total : Int]]
    BY DEF IInv, Typed
  <2> QED BY <2>1, <2>2
<1>2. allocated \in 0 .. Word - 1
  BY Remainder, PoolAssumption DEF Accounted
<1>3. inUse \in Nat
  BY MemoryIsFinite, UnitsFinite, SizesAreNat DEF Counts, MemoryCounted
<1>4. job \in [do : Jobs, n : Nat, b : Buckets, k : Buckets, left : Nat, block : Blocks \cup {NoBlock}]
  BY DEF IInv, Typed, JobType, Counts, TurnsCounted
<1> QED BY <1>1, <1>2, <1>3, <1>4 DEF IInv, Typed, ElementsOk, ElemsTyped, TypeOK

LEMMA CountsLoseNothing ==
  ASSUME IInv, Accounted, Counts
  PROVE  NothingLost
<1>1. ASSUME NEW b \in Buckets
      PROVE  /\ ListOf(bucket[b].first, link, Unused(b))
             /\ bucket[b].free = Cardinality(Unused(b))
             /\ bucket[b].total = Cardinality({e \in Used : heap[ptr[e]] = BlockSize[b]})
  BY UsedFinite, ChainIsList DEF Counts, BucketsCounted, OfSize
<1>2. ListOf(elems.firstFree, elems.next, Elems \ Used) /\ ListOf(elems.firstUsed, elems.next, Used)
  <2>1. FreeOf(elems) = Elems \ Used /\ UsedOf(elems) = Used
    BY DEF FreeOf, UsedOf, Used
  <2> QED BY <2>1, ListedAreLists DEF Counts
<1>3. DOMAIN heap = {ptr[e] : e \in Used} /\ Cardinality(DOMAIN heap) = Cardinality(Used)
  BY MemoryIsFinite DEF Counts, MemoryCounted
<1>4. inUse = FoldFunction(+, 0, heap)
  <2>1. /\ IsFiniteSet(DOMAIN heap) /\ BlockSize[Top] \in Nat
        /\ \A p \in DOMAIN heap : heap[p] \in 0 .. BlockSize[Top]
    BY MemoryIsFinite, SizesAreNat DEF Counts
  <2>2. FoldFunction(+, 0, heap) = Cardinality(Units(heap, DOMAIN heap))
    BY <2>1, SumIsUnits
  <2> QED BY <2>2 DEF Counts, MemoryCounted
<1> QED BY <1>1, <1>2, <1>3, <1>4 DEF NothingLost, Accounted

\* For any number of blocks, any sizes and addresses: every variable keeps its
\* type; no counter of the pool falls below zero, where it would wrap around.
THEOREM PoolTypeCorrect == PoolSpec => []TypeOK
<1>1. IInv /\ Accounted /\ Counts => TypeOK
  BY CountsAreTyped
<1> QED BY <1>1, InvariantHolds, PTL

\* For any number of blocks, any sizes and addresses: no memory is lost, none
\* is listed twice, and the counters are what there is.
THEOREM PoolLosesNothing == PoolSpec => []NothingLost
<1>1. IInv /\ Accounted /\ Counts => NothingLost
  BY CountsLoseNothing
<1> QED BY <1>1, InvariantHolds, PTL

=============================================================================
