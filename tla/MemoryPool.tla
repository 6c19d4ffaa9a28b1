----------------------------- MODULE MemoryPool -----------------------------
(***************************************************************************)
(* memory_pool_t (redis-pool/src/memory_pool.cpp): blocks of fixed sizes,  *)
(* one bucket for each size, with a list of the blocks that are not in     *)
(* use; what a block is is kept in the element set.  alloc and release     *)
(* hold m_mutex from beginning to end; job is where the one that has it    *)
(* is, a step being one turn of a loop.  malloc may fail at any time.      *)
(*                                                                         *)
(* Sizes are in units of the smallest block (1 KB) and Word stands for     *)
(* 2^32 bytes in that unit.                                                *)
(***************************************************************************)
EXTENDS ElementSet, FiniteSets, Functions

CONSTANTS
  Top,         \* number of the last bucket (POOL_BUCKET_COUNT - 1)
  BlockSize,   \* block_size of each bucket
  Small,       \* SMALL_BLOCK_SIZE
  SmallCount,  \* SMALL_BLOCK_COUNT_DELTA
  Medium,      \* MEDIUM_BLOCK_SIZE; MEDIUM_BLOCK_SIZE_DELTA is twice that
  MaxPool,     \* MAX_POOL_SIZE
  Word,        \* one more than what fits into an uint32_t
  Addrs,       \* addresses malloc can return
  Lens         \* lengths that are asked for

Buckets == 0 .. Top

\* get_block_count_delta(), and the sum it makes pool_size_delta.
Delta(b) ==
  IF BlockSize[b] <= Small THEN SmallCount
  ELSE IF BlockSize[b] <= Medium THEN (2 * Medium) \div BlockSize[b] ELSE 1

SizeDelta(b) == BlockSize[b] * Delta(b)

ASSUME PoolAssumption ==
  /\ Top \in Nat
  /\ BlockSize \in [Buckets -> Nat \ {0}]
  /\ \A b, c \in Buckets : b < c => BlockSize[b] < BlockSize[c]
  /\ {Small, Medium, MaxPool} \subseteq Nat /\ {SmallCount, Word} \subseteq Nat \ {0}
  /\ \A b \in Buckets : SizeDelta(b) <= MaxPool /\ (b < Top => MaxPool + SizeDelta(b) < Word)
  /\ MaxPool < Word
  /\ Lens \subseteq Nat

VARIABLES
  elems,      \* m_elements
  ptr,        \* m_elements[e].ptr
  link,       \* m_elements[e].next, the lists of the buckets
  bucket,     \* m_buckets: first_free, free_block_count, total_block_count
  allocated,  \* m_allocated_size
  heap,       \* what malloc gave and was not freed: sizes by address
  inUse,      \* history: their sum
  held,       \* what callers of alloc have and did not release
  job         \* alloc or release, as far as it is

poolVars == <<elems, ptr, link, bucket, allocated, heap, inUse, held, job>>
lists == <<elems, ptr, link, bucket, allocated, heap, inUse>>

Nowhere == "nowhere"
NoBlock == [ptr |-> Nowhere, size |-> 0, cookie |-> End]

\* Nobody has m_mutex.  Elsewhere n is requested_size, b its bucket, k the bucket
\* being recycled, left what is left of a loop, block what alloc returns.
Idle == [do |-> "idle", n |-> 0, b |-> 0, k |-> 0, left |-> 0, block |-> NoBlock]
Returning(block) == [Idle EXCEPT !.do = "return", !.block = block]

PoolInit ==
  /\ elems = AllFree
  /\ ptr = [e \in Elems |-> Nowhere]
  /\ link = [e \in Elems |-> End]
  /\ bucket = [b \in Buckets |-> [first |-> End, free |-> 0, total |-> 0]]
  /\ allocated = 0 /\ heap = << >> /\ inUse = 0
  /\ held = {} /\ job = Idle

-----------------------------------------------------------------------------
(* alloc *)

Fits(n) == n <= BlockSize[Top]

\* Mutant: the last bucket for n.
FitLast(n) == CHOOSE b \in Buckets : n <= BlockSize[b] /\ \A c \in Buckets : c > b => n > BlockSize[c]

\* get_fit_size(): the smallest bucket for n, if there is one.
Fit(n) == CHOOSE b \in Buckets : n <= BlockSize[b] /\ \A c \in Buckets : c < b => n > BlockSize[c]

Alloc(n) ==
  /\ job.do = "idle"
  /\ job' = IF ~Fits(n) THEN Returning(NoBlock)
            ELSE [Idle EXCEPT !.n = n, !.b = Fit(n),
                              !.do = IF bucket[Fit(n)].first = End THEN "expand" ELSE "take"]
  /\ UNCHANGED <<lists, held>>

\* Mutant: the limit is looked at without what is to be added.
OverNow(b) == allocated > MaxPool

\* The pool may not grow by what the bucket would add to it.
Over(b) == (allocated + SizeDelta(b)) % Word > MaxPool

\* recycle_certain(): how many free blocks of bucket b, now bk, are freed.
RecycleCount(bk, b, threshold) ==
  LET idle == (BlockSize[b] * bk.free) % Word
  IN  IF idle <= 2 * Small THEN 0
      ELSE IF BlockSize[b] > Medium THEN (bk.free + 1) \div 2
      ELSE IF bk.free > bk.total \div 2 \/ idle > threshold THEN bk.free \div 2
      ELSE 0

\* expand_pool(): recycle in every bucket first when the limit is reached.
Recycling(k) ==
  [job EXCEPT !.do = "recycle", !.k = k, !.left = RecycleCount(bucket[k], k, 2 * Medium)]
Growing == [job EXCEPT !.do = "grow", !.left = Delta(job.b)]

Expand ==
  /\ job.do = "expand"
  /\ job' = IF Over(job.b) THEN Recycling(0) ELSE Growing
  /\ UNCHANGED <<lists, held>>

\* recycle_certain(): the first free block of the bucket is freed.
Recycle ==
  LET k == job.k
      e == bucket[k].first
  IN  /\ job.do \in {"recycle", "trim"} /\ job.left > 0 /\ e # End
      /\ heap' = Restrict(heap, DOMAIN heap \ {ptr[e]})
      /\ inUse' = inUse - BlockSize[k]
      /\ elems' = PutElem(elems, e)
      /\ bucket' = [bucket EXCEPT ![k] = [first |-> link[e], free |-> @.free - 1, total |-> @.total - 1]]
      /\ allocated' = (allocated - BlockSize[k]) % Word
      /\ job' = [job EXCEPT !.left = @ - 1]
      /\ UNCHANGED <<ptr, link, held>>

Recycled == job.left = 0 \/ bucket[job.k].first = End

\* expand_pool() goes on to the next bucket; after the last one the limit is
\* looked at again.
RecycleNext ==
  /\ job.do = "recycle" /\ Recycled
  /\ job' = IF job.k < Top THEN Recycling(job.k + 1)
            ELSE IF Over(job.b) THEN Returning(NoBlock) ELSE Growing
  /\ UNCHANGED <<lists, held>>

\* malloc and get_elem: one more block, free, in front of the bucket's list.
Grow ==
  LET b == job.b
      e == elems.firstFree
  IN  /\ job.do = "grow" /\ e # End
      /\ \E p \in Addrs \ DOMAIN heap :
           /\ heap' = [q \in DOMAIN heap \cup {p} |-> IF q = p THEN BlockSize[b] ELSE heap[q]]
           /\ ptr' = [ptr EXCEPT ![e] = p]
      /\ inUse' = inUse + BlockSize[b]
      /\ elems' = GetElem(elems)
      /\ link' = [link EXCEPT ![e] = bucket[b].first]
      /\ bucket' = [bucket EXCEPT ![b] = [first |-> e, free |-> @.free + 1, total |-> @.total + 1]]
      /\ allocated' = (allocated + BlockSize[b]) % Word
      /\ job' = [job EXCEPT !.left = @ - 1, !.do = IF job.left = 1 THEN "take" ELSE "grow"]
      /\ UNCHANGED held

\* malloc fails, or there is no element and what it gave is freed again: the
\* blocks there are by now are enough, unless there is none.
GrowFails ==
  /\ job.do = "grow"
  /\ job' = IF job.left = Delta(job.b) THEN Returning(NoBlock) ELSE [job EXCEPT !.do = "take"]
  /\ UNCHANGED <<lists, held>>

\* Mutant: the block stays in the list.
TakeKeep ==
  LET b == job.b
      e == bucket[b].first
      block == [ptr |-> ptr[e], size |-> BlockSize[b], cookie |-> e]
  IN  /\ job.do = "take"
      /\ held' = held \cup {block}
      /\ bucket' = [bucket EXCEPT ![b].free = @ - 1]
      /\ job' = Returning(block)
      /\ UNCHANGED <<elems, ptr, link, allocated, heap, inUse>>

\* The first free block of the bucket is the caller's.
Take ==
  LET b == job.b
      e == bucket[b].first
      block == [ptr |-> ptr[e], size |-> BlockSize[b], cookie |-> e]
  IN  /\ job.do = "take"
      /\ held' = held \cup {block}
      /\ bucket' = [bucket EXCEPT ![b].first = link[e], ![b].free = @ - 1]
      /\ job' = Returning(block)
      /\ UNCHANGED <<elems, ptr, link, allocated, heap, inUse>>

\* alloc returns job.block; NULL is NoBlock.
Return ==
  /\ job.do = "return"
  /\ job' = Idle
  /\ UNCHANGED <<lists, held>>

-----------------------------------------------------------------------------
(* release *)

\* Mutant: free_block_count is not increased.
ReleaseUncounted(block) ==
  LET b == Fit(block.size)
      bk == [bucket[b] EXCEPT !.first = block.cookie]
  IN  /\ job.do = "idle" /\ block \in held
      /\ link' = [link EXCEPT ![block.cookie] = bucket[b].first]
      /\ bucket' = [bucket EXCEPT ![b] = bk]
      /\ held' = held \ {block}
      /\ job' = [Idle EXCEPT !.do = "trim", !.k = b,
                             !.left = RecycleCount(bk, b, MaxPool \div 2)]
      /\ UNCHANGED <<elems, ptr, allocated, heap, inUse>>

\* The block is put in front of its bucket's list, which is then recycled.
Release(block) ==
  LET b == Fit(block.size)
      bk == [first |-> block.cookie, free |-> bucket[b].free + 1, total |-> bucket[b].total]
  IN  /\ job.do = "idle" /\ block \in held
      /\ link' = [link EXCEPT ![block.cookie] = bucket[b].first]
      /\ bucket' = [bucket EXCEPT ![b] = bk]
      /\ held' = held \ {block}
      /\ job' = [Idle EXCEPT !.do = "trim", !.k = b,
                             !.left = RecycleCount(bk, b, MaxPool \div 2)]
      /\ UNCHANGED <<elems, ptr, allocated, heap, inUse>>

TrimDone ==
  /\ job.do = "trim" /\ Recycled
  /\ job' = Idle
  /\ UNCHANGED <<lists, held>>

\* What alloc and release do by themselves.
Inside == Expand \/ Recycle \/ RecycleNext \/ Grow \/ GrowFails \/ Take \/ TrimDone

PoolNext ==
  \/ Inside \/ Return
  \/ \E n \in Lens : Alloc(n)
  \/ \E block \in held : Release(block)

PoolSpec == PoolInit /\ [][PoolNext]_poolVars

-----------------------------------------------------------------------------
(* Properties *)

Jobs == {"idle", "expand", "recycle", "grow", "take", "return", "trim"}
Blocks == [ptr : Addrs, size : {BlockSize[b] : b \in Buckets}, cookie : Elems]
Used == {e \in Elems : ~elems.free[e]}
Unused(b) ==  \* the blocks of bucket b that are in nobody's hands
  {e \in Used : heap[ptr[e]] = BlockSize[b] /\ \A block \in held : block.cookie # e}

\* Types, in which counters do not fall below zero: free_block_count and the
\* loop counters of the pool are unsigned in the code.
TypeOK ==
  /\ elems \in [next : [Elems -> Elems \cup {End}], prev : [Elems -> Elems \cup {End}],
                free : [Elems -> BOOLEAN], firstFree : Elems \cup {End},
                lastFree : Elems \cup {End}, firstUsed : Elems \cup {End}]
  /\ ptr \in [Elems -> Addrs \cup {Nowhere}]
  /\ link \in [Elems -> Elems \cup {End}]
  /\ bucket \in [Buckets -> [first : Elems \cup {End}, free : 0 .. MaxBlocks, total : 0 .. MaxBlocks]]
  /\ allocated \in 0 .. Word - 1
  /\ DOMAIN heap \subseteq Addrs
  /\ inUse \in Nat
  /\ held \subseteq Blocks
  /\ job \in [do : Jobs, n : Nat, b : Buckets, k : Buckets, left : Nat, block : Blocks \cup {NoBlock}]

\* What callers hold is theirs alone: every block that alloc gave and that was
\* not released is memory that was not freed, of the size alloc said, at an
\* address nobody else holds, under a cookie that is in use for it and is in no
\* bucket's list.  A release or a recycling of other blocks never reaches it.
BlocksApart ==
  /\ \A block \in held :
       /\ ~elems.free[block.cookie] /\ ptr[block.cookie] = block.ptr
       /\ block.ptr \in DOMAIN heap /\ heap[block.ptr] = block.size
       /\ \A b \in Buckets : bucket[b].first # block.cookie
       /\ \A e \in Used : link[e] = block.cookie => \E other \in held : other.cookie = e
  /\ \A block, other \in held :
       block.ptr = other.ptr \/ block.cookie = other.cookie => block = other

\* Where a list of elements is after each step.
Walk(first, next) ==
  LET at[i \in 0 .. MaxBlocks] ==
        IF i = 0 THEN first ELSE IF at[i - 1] = End THEN End ELSE next[at[i - 1]]
  IN  at

ListOf(first, next, S) ==
  LET at == Walk(first, next)
  IN  at[MaxBlocks] = End /\ Range(at) \ {End} = S

\* No memory is lost and none is listed twice: each bucket's list holds exactly
\* its blocks in nobody's hands, and they are as many as free_block_count; the
\* lists of the element set hold the free and the used elements; memory that
\* was not freed belongs to the used elements, one each; the sum of its sizes,
\* cut to 32 bits, is m_allocated_size.
NothingLost ==
  /\ \A b \in Buckets :
       /\ ListOf(bucket[b].first, link, Unused(b))
       /\ bucket[b].free = Cardinality(Unused(b))
       /\ bucket[b].total = Cardinality({e \in Used : heap[ptr[e]] = BlockSize[b]})
  /\ ListOf(elems.firstFree, elems.next, Elems \ Used)
  /\ ListOf(elems.firstUsed, elems.next, Used)
  /\ DOMAIN heap = {ptr[e] : e \in Used} /\ Cardinality(DOMAIN heap) = Cardinality(Used)
  /\ inUse = FoldFunction(+, 0, heap) /\ allocated = inUse % Word

\* Only a block of the largest size takes the pool past MAX_POOL_SIZE: 2 GB and
\* a limit of 2 GB leave the 32-bit sum at 0, and the check lets it through.
LimitCrossedByLargest ==
  [][inUse <= MaxPool /\ inUse' > MaxPool => inUse' - inUse = BlockSize[Top]]_poolVars

\* The call of alloc that is going on, as its caller sees it.
CallOfAlloc ==
  IF job.do \in {"idle", "trim"} THEN [do |-> "idle", n |-> 0, block |-> NoBlock]
  ELSE IF job.do = "return" THEN [do |-> "answered", n |-> 0, block |-> job.block]
  ELSE [do |-> "asked", n |-> job.n, block |-> NoBlock]

A == INSTANCE Allocator WITH
  Sizes <- {BlockSize[b] : b \in Buckets}, Ptrs <- Addrs, Cookies <- Elems, None <- NoBlock,
  out <- held, call <- CallOfAlloc

\* The pool is an allocator: whoever asks gets a block of the smallest size that
\* is enough, at an address and under a cookie nobody else has, or nothing, and
\* nothing else happens to the blocks that were given.
ImplementsAllocator == A!AllocatorSpec

=============================================================================
