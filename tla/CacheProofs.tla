---------------------------- MODULE CacheProofs -----------------------------
(***************************************************************************)
(* Proofs about the caches, for any number of them, any blocks and any     *)
(* lengths: they use the pool as it may be used, and a cache is the        *)
(* sequence of bytes that was appended and not skipped, whatever blocks it *)
(* is moved through.                                                       *)
(***************************************************************************)
EXTENDS Cache, MemoryPoolProofs, SequenceTheorems

-----------------------------------------------------------------------------
(* Bytes *)

\* size bytes at an address.
Bytes(b, size) == b \in Seq(Int) /\ Len(b) = size

LEMMA BytesAre ==
  ASSUME NEW b, NEW size \in Nat, Bytes(b, size)
  PROVE  b \in [1 .. size -> Int] /\ DOMAIN b = 1 .. size
BY LenProperties DEF Bytes

LEMMA AreBytes ==
  ASSUME NEW size \in Nat, NEW b \in [1 .. size -> Int]
  PROVE  Bytes(b, size)
<1>1. b \in Seq(Int)
  BY SeqDef
<1>2. Len(b) \in Nat /\ DOMAIN b = 1 .. Len(b)
  BY <1>1, LenProperties
<1>3. Len(b) = size
  BY <1>2
<1> QED BY <1>1, <1>3 DEF Bytes

LEMMA SameBytes ==
  ASSUME NEW n \in Nat, NEW a, NEW b, Bytes(a, n), Bytes(b, n), \A i \in 1 .. n : a[i] = b[i]
  PROVE  a = b
BY SeqEqual DEF Bytes

\* n of the bytes, after the first off.
LEMMA Window ==
  ASSUME NEW b, NEW size \in Nat, Bytes(b, size), NEW off \in Nat, NEW n \in Nat, off + n <= size
  PROVE  /\ Bytes(SubSeq(b, off + 1, off + n), n)
         /\ \A i \in 1 .. n : SubSeq(b, off + 1, off + n)[i] = b[off + i]
<1> DEFINE w == SubSeq(b, off + 1, off + n)
<1>1. off + 1 \in Int /\ off + n \in Int /\ \A i \in off + 1 .. off + n : b[i] \in Int
  BY BytesAre
<1>2. /\ w \in Seq(Int)
      /\ Len(w) = IF off + 1 <= off + n THEN (off + n) - (off + 1) + 1 ELSE 0
      /\ \A i \in 1 .. (off + n) - (off + 1) + 1 : w[i] = b[(off + 1) + i - 1]
  BY <1>1, SubSeqProperties
<1> HIDE DEF w
<1>3. Len(w) = n
  BY <1>2
<1>4. ASSUME NEW i \in 1 .. n PROVE w[i] = b[off + i]
  <2>1. i \in 1 .. (off + n) - (off + 1) + 1 /\ (off + 1) + i - 1 = off + i
    OBVIOUS
  <2> QED BY <1>2, <2>1
<1> QED BY <1>2, <1>3, <1>4 DEF w, Bytes

\* The same for any n: a cache that holds nothing may be in no block.
Part(b, off, n) == IF n = 0 THEN << >> ELSE SubSeq(b, off + 1, off + n)

LEMMA PartIs ==
  ASSUME NEW b, NEW size \in Nat, NEW off \in Nat, NEW n \in Nat, off + n <= size,
         n = 0 \/ Bytes(b, size)
  PROVE  Bytes(Part(b, off, n), n) /\ \A i \in 1 .. n : Part(b, off, n)[i] = b[off + i]
<1>1. CASE n = 0
  <2>1. << >> \in Seq(Int) /\ Len(<< >>) = 0
    BY EmptySeq
  <2> QED BY <1>1, <2>1 DEF Bytes, Part
<1>2. CASE n # 0
  <2>1. Part(b, off, n) = SubSeq(b, off + 1, off + n)
    BY <1>2 DEF Part
  <2>2. Bytes(b, size)
    BY <1>2
  <2>3. /\ Bytes(SubSeq(b, off + 1, off + n), n)
        /\ \A i \in 1 .. n : SubSeq(b, off + 1, off + n)[i] = b[off + i]
    BY <2>2, Window
  <2> QED BY <2>1, <2>3, Zenon
<1> QED BY <1>1, <1>2

LEMMA FreshBytes == ASSUME NEW size \in Nat PROVE Bytes(Fresh(size), size)
<1>1. Fresh(size) \in [1 .. size -> Int]
  BY DEF Fresh, Junk
<1> QED BY <1>1, AreBytes

\* What Copy makes of size bytes b and n bytes d.
Copied(image, b, size, at, d, n) ==
  /\ Bytes(image, size)
  /\ \A i \in 1 .. size : image[i] = IF at < i /\ i <= at + n THEN d[i - at] ELSE b[i]

LEMMA CopyBytes ==
  ASSUME NEW b, NEW size \in Nat, Bytes(b, size), NEW at \in Nat, NEW d, NEW n \in Nat, Bytes(d, n)
  PROVE  Copied(Copy(b, at, d), b, size, at, d, n)
<1>1. DOMAIN b = 1 .. size /\ b \in [1 .. size -> Int] /\ d \in [1 .. n -> Int] /\ Len(d) = n
  BY BytesAre DEF Bytes
<1>2. \A i \in 1 .. size : Copy(b, at, d)[i] = IF at < i /\ i <= at + n THEN d[i - at] ELSE b[i]
  BY <1>1 DEF Copy
<1>3. \A i \in 1 .. size : at < i /\ i <= at + n => i - at \in 1 .. n
  OBVIOUS
<1>4. \A i \in 1 .. size : Copy(b, at, d)[i] \in Int
  BY <1>1, <1>2, <1>3
<1>5. Copy(b, at, d) = [i \in 1 .. size |-> Copy(b, at, d)[i]]
  BY <1>1 DEF Copy
<1>6. Copy(b, at, d) \in [1 .. size -> Int]
  BY <1>4, <1>5
<1> QED BY <1>2, <1>6, AreBytes DEF Copied

LEMMA OnlyBytes ==
  ASSUME NEW b, NEW size \in Nat, Bytes(b, size), NEW at \in Nat, NEW n \in Nat
  PROVE  /\ Bytes(Only(b, at, n), size)
         /\ \A i \in 1 .. size : at < i /\ i <= at + n => Only(b, at, n)[i] = b[i]
<1>1. DOMAIN b = 1 .. size /\ b \in [1 .. size -> Int]
  BY BytesAre
<1>2. Only(b, at, n) \in [1 .. size -> Int]
  BY <1>1 DEF Only, Junk
<1>3. \A i \in 1 .. size : at < i /\ i <= at + n => Only(b, at, n)[i] = b[i]
  BY <1>1 DEF Only
<1> QED BY <1>2, <1>3, AreBytes

-----------------------------------------------------------------------------
(* The inductive invariant *)

CacheType == [blk : Blocks \cup {NoBlock}, off : Nat, len : Nat]
AppendType == [do : {"alloc", "write"}, c : Caches, data : Seq(Int), old : Blocks \cup {NoBlock}]

CacheTyped ==
  /\ cache \in [Caches -> CacheType]
  /\ mem \in [Addrs -> Seq(Int)]
  /\ cur = NoAppend \/ cur \in AppendType

\* What a cache holds is in its block, which the pool gave to it.
Stored ==
  \A c \in Caches :
    LET k == cache[c]
    IN  /\ k.off + k.len <= k.blk.size
        /\ k.blk # NoBlock => k.blk \in held /\ Bytes(mem[k.blk.ptr], k.blk.size)

\* No two caches are in one block.
BlocksOwn ==
  \A c, d \in Caches : cache[c].blk = cache[d].blk /\ cache[c].blk # NoBlock => c = d

\* The block is nobody's else: it is not one that a cache is in.
Spare(block) == block \in held /\ \A c \in Caches : cache[c].blk # block

\* The pool is asked for a block only by the append that waits for it, and gives
\* one that is long enough.  Where the data is written there is room for it,
\* and the block that the cache left is not given back yet.
AtAppend ==
  LET all == cache[cur.c].len + Len(cur.data)
  IN  /\ cur = NoAppend => job.do \in {"idle", "trim"}
      /\ cur # NoAppend /\ cur.do = "write" =>
           /\ job.do \in {"idle", "trim"}
           /\ all <= cache[cur.c].blk.size
           /\ cur.old # NoBlock => Spare(cur.old)
      /\ cur # NoAppend /\ cur.do = "alloc" =>
           /\ job.do \in {"expand", "recycle", "grow", "take", "return"}
           /\ job.do # "return" => job.n = all
           /\ job.do = "return" /\ job.block # NoBlock =>
                Spare(job.block) /\ all <= job.block.size

CInv == IInv /\ CacheTyped /\ Stored /\ BlocksOwn /\ AtAppend

LEMMA FactorGrows ==
  ASSUME NEW a \in Nat, NEW b \in Nat \ {0}
  PROVE  a <= a * b
<1>1. a * b = a * (b - 1) + a /\ a * (b - 1) \in Nat
  OBVIOUS
<1> QED BY <1>1

LEMMA BlockFacts ==
  /\ NoBlock \notin Blocks /\ NoBlock.size = 0 /\ NoBlock.ptr = Nowhere
  /\ \A block \in Blocks : /\ block.size \in Nat /\ block.size < Word /\ block.size # 0
                           /\ block.ptr \in Addrs
<1>1. NoBlock \notin Blocks /\ NoBlock.size = 0 /\ NoBlock.ptr = Nowhere
  BY EndIsNone DEF NoBlock, Blocks
<1>2. ASSUME NEW b \in Buckets
      PROVE  BlockSize[b] \in Nat /\ BlockSize[b] < Word /\ BlockSize[b] # 0
  <2>1. BlockSize[b] \in Nat \ {0} /\ Delta(b) \in Nat \ {0} /\ MaxPool \in Nat /\ Word \in Nat
    BY SizesAreNat, DeltaPositive, PoolAssumption
  <2>2. BlockSize[b] * Delta(b) <= MaxPool /\ MaxPool < Word
    BY PoolAssumption DEF SizeDelta
  <2>3. BlockSize[b] <= BlockSize[b] * Delta(b)
    BY <2>1, FactorGrows
  <2>4. BlockSize[b] * Delta(b) \in Nat
    BY <2>1
  <2> QED BY <2>1, <2>2, <2>3, <2>4
<1> QED BY <1>1, <1>2 DEF Blocks

\* Where two blocks that were given are.
LEMMA HeldApart ==
  ASSUME CInv, NEW a \in held, NEW b \in held, a # b
  PROVE  a \in Blocks /\ b \in Blocks /\ a.ptr # b.ptr
<1>1. BlocksApart /\ held \subseteq Blocks
  BY Apart DEF CInv, IInv, Typed
<1> QED BY <1>1 DEF BlocksApart

\* What a cache holds, byte by byte.
LEMMA ContentIs ==
  ASSUME CInv, NEW c \in Caches
  PROVE  /\ Bytes(Content(c), cache[c].len) /\ cache[c].len \in Nat
         /\ \A i \in 1 .. cache[c].len : Content(c)[i] = mem[cache[c].blk.ptr][cache[c].off + i]
<1> DEFINE k == cache[c]
<1>1. k \in CacheType
  BY DEF CInv, CacheTyped
<1>2. k.off \in Nat /\ k.len \in Nat /\ k.off + k.len <= k.blk.size
  BY <1>1 DEF CInv, Stored, CacheType
<1>3. k.blk.size \in Nat /\ (k.len = 0 \/ Bytes(mem[k.blk.ptr], k.blk.size))
  BY <1>1, <1>2, BlockFacts DEF CInv, Stored, CacheType
<1>4. Content(c) = Part(mem[k.blk.ptr], k.off, k.len)
  BY DEF Content, Part
<1> DEFINE b == mem[k.blk.ptr]
           size == k.blk.size
           off == k.off
           n == k.len
<1>5. Bytes(Part(b, off, n), n) /\ \A i \in 1 .. n : Part(b, off, n)[i] = b[off + i]
  <2>1. /\ size \in Nat /\ off \in Nat /\ n \in Nat /\ off + n <= size
        /\ n = 0 \/ Bytes(b, size)
    BY <1>2, <1>3
  <2> HIDE DEF b, size, off, n
  <2> QED BY <2>1, PartIs
<1> QED BY <1>2, <1>4, <1>5

\* A cache that a step leaves alone, with its block, holds what it held.
LEMMA ContentStays ==
  ASSUME CInv, NEW c \in Caches, cache'[c] = cache[c],
         cache[c].blk # NoBlock => mem'[cache[c].blk.ptr] = mem[cache[c].blk.ptr]
  PROVE  Content(c)' = Content(c)
<1>1. CASE cache[c].len = 0
  BY <1>1 DEF Content
<1>2. CASE cache[c].len # 0
  <2>1. cache[c].blk # NoBlock
    BY <1>2, BlockFacts DEF CInv, CacheTyped, CacheType, Stored
  <2> QED BY <1>2, <2>1 DEF Content
<1> QED BY <1>1, <1>2

\* Writing into one block that was given leaves the others, and what is in them.
LEMMA OthersStay ==
  ASSUME CInv, NEW block \in held, NEW bytes \in Seq(Int), mem' = [mem EXCEPT ![block.ptr] = bytes]
  PROVE  /\ mem' \in [Addrs -> Seq(Int)] /\ mem'[block.ptr] = bytes
         /\ \A c \in Caches : cache[c].blk \notin {block, NoBlock} =>
              mem'[cache[c].blk.ptr] = mem[cache[c].blk.ptr]
         /\ \A c \in Caches : cache'[c] = cache[c] /\ cache[c].blk # block =>
              Content(c)' = Content(c)
<1>1. block.ptr \in Addrs /\ mem \in [Addrs -> Seq(Int)]
  BY BlockFacts DEF CInv, CacheTyped, IInv, Typed
<1>2. mem' \in [Addrs -> Seq(Int)] /\ mem'[block.ptr] = bytes
  BY <1>1
<1>3. ASSUME NEW c \in Caches, cache[c].blk \notin {block, NoBlock}
      PROVE  mem'[cache[c].blk.ptr] = mem[cache[c].blk.ptr]
  <2>1. cache[c].blk \in held
    BY <1>3 DEF CInv, Stored
  <2>2. cache[c].blk.ptr # block.ptr /\ cache[c].blk.ptr \in Addrs
    BY <1>3, <2>1, HeldApart, BlockFacts
  <2> QED BY <1>1, <2>2
<1>4. ASSUME NEW c \in Caches, cache'[c] = cache[c], cache[c].blk # block
      PROVE  Content(c)' = Content(c)
  BY <1>3, <1>4, ContentStays
<1> QED BY <1>2, <1>3, <1>4

LEMMA InitiallyCached == Init => CInv
<1> SUFFICES ASSUME Init PROVE CInv
  OBVIOUS
<1>1. IInv
  BY Initially DEF Init
<1>2. /\ cache = [c \in Caches |-> [blk |-> NoBlock, off |-> 0, len |-> 0]]
      /\ mem = [p \in Addrs |-> << >>] /\ cur = NoAppend /\ job = Idle
  BY DEF Init, PoolInit
<1>3. CacheTyped
  BY <1>2 DEF CacheTyped, CacheType
<1>4. Stored /\ BlocksOwn
  BY <1>2, BlockFacts DEF Stored, BlocksOwn
<1>5. AtAppend
  BY <1>2 DEF AtAppend, Idle
<1> QED BY <1>1, <1>3, <1>4, <1>5 DEF CInv

-----------------------------------------------------------------------------
(* Steps *)

\* What a step may do to what a cache holds.
ContentMoves(c) ==
  \/ Content(c)' = Content(c)
  \/ cur # NoAppend /\ cur.c = c /\ Content(c)' = Content(c) \o cur.data
  \/ cur = NoAppend /\ \E n \in 0 .. cache[c].len : Content(c)' = Sock!Skip(Content(c), n)

\* What a step of the pool gives: a call of alloc goes on for the length that
\* was asked for, and ends with nothing or with a block that nobody had.
LEMMA InsideGives ==
  ASSUME IInv, Inside
  PROVE  /\ held \subseteq held' /\ job.do \notin {"idle", "return"}
         /\ job.do = "trim" => job'.do \in {"idle", "trim"}
         /\ job.do # "trim" =>
              \/ job'.do \in {"expand", "recycle", "grow", "take"} /\ job'.n = job.n
              \/ /\ job'.do = "return"
                 /\ job'.block # NoBlock =>
                      job'.block \in held' \ held /\ job.n <= job'.block.size
<1>1. job \in JobType
  BY DEF IInv, Typed
<1>2. CASE Take
  <2> DEFINE e == bucket[job.b].first
             block == [ptr |-> ptr[e], size |-> BlockSize[job.b], cookie |-> e]
  <2>1. held' = held \cup {block} /\ job' = Returning(block) /\ job.do = "take"
    BY <1>2 DEF Take
  <2>2. e \in Listed /\ e # End
    BY <1>1, <2>1 DEF IInv, AtWork, ListsApart, JobType
  <2>3. block \notin held
    BY <2>2 DEF Listed
  <2>4. job.n <= BlockSize[job.b]
    BY <1>1, <2>1, FitFits DEF IInv, AtWork, JobType
  <2>5. job'.do = "return" /\ job'.block = block
    BY <2>1 DEF Returning, Idle
  <2> QED BY <2>1, <2>3, <2>4, <2>5
<1>3. CASE Expand \/ RecycleNext \/ GrowFails
  <2>1. held' = held
    BY <1>3 DEF Expand, RecycleNext, GrowFails
  <2>2. \/ job'.do \in {"expand", "recycle", "grow", "take"} /\ job'.n = job.n
        \/ job' = Returning(NoBlock)
    BY <1>1, <1>3 DEF Expand, RecycleNext, GrowFails, Recycling, Growing, JobType
  <2>3. Returning(NoBlock).do = "return" /\ Returning(NoBlock).block = NoBlock
    BY DEF Returning, Idle
  <2> QED BY <1>3, <2>1, <2>2, <2>3 DEF Expand, RecycleNext, GrowFails
<1>4. CASE Recycle \/ Grow
  BY <1>1, <1>4 DEF Recycle, Grow, JobType
<1>5. CASE TrimDone
  BY <1>5 DEF TrimDone, Idle
<1> QED BY <1>2, <1>3, <1>4, <1>5 DEF Inside

LEMMA PoolStepCached ==
  ASSUME CInv, PoolStep
  PROVE  CInv' /\ \A d \in Caches : ContentMoves(d)
<1>1. UNCHANGED <<cache, mem, cur>> /\ Inside
  BY DEF PoolStep, cacheVars
<1>2. /\ held \subseteq held' /\ job.do \notin {"idle", "return"}
      /\ job.do = "trim" => job'.do \in {"idle", "trim"}
      /\ job.do # "trim" =>
           \/ job'.do \in {"expand", "recycle", "grow", "take"} /\ job'.n = job.n
           \/ /\ job'.do = "return"
              /\ job'.block # NoBlock =>
                   job'.block \in held' \ held /\ job.n <= job'.block.size
  BY <1>1, InsideGives DEF CInv
<1>3. IInv'
  BY <1>1, StepsKeep DEF CInv, PoolNext
<1>4. CacheTyped' /\ BlocksOwn'
  BY <1>1 DEF CInv, CacheTyped, BlocksOwn
<1>5. Stored'
  BY <1>1, <1>2 DEF CInv, Stored
<1>6. \A block : Spare(block) => Spare(block)'
  BY <1>1, <1>2 DEF Spare
<1>7. ASSUME NEW block \in held' \ held, block # NoBlock PROVE Spare(block)'
  BY <1>1, <1>7 DEF Spare, CInv, Stored
<1>8. AtAppend'
  <2>1. CASE cur = NoAppend
    BY <1>1, <1>2, <2>1 DEF CInv, AtAppend
  <2>2. CASE cur # NoAppend /\ cur.do = "write"
    BY <1>1, <1>2, <1>6, <2>2 DEF CInv, AtAppend
  <2>3. CASE cur # NoAppend /\ cur.do = "alloc"
    BY <1>1, <1>2, <1>7, <2>3 DEF CInv, AtAppend
  <2> QED BY <1>1, <2>1, <2>2, <2>3 DEF CInv, CacheTyped, AppendType
<1>9. ASSUME NEW d \in Caches PROVE ContentMoves(d)
  BY <1>1, ContentStays DEF ContentMoves
<1> QED BY <1>3, <1>4, <1>5, <1>8, <1>9 DEF CInv

\* The bytes to append.
LEMMA DataBytes ==
  ASSUME CInv, NEW c \in Caches, NEW n \in Nat
  PROVE  Bytes(Data(c, n), n)
<1> DEFINE last == IF cache[c].len = 0 THEN 0 ELSE Content(c)[cache[c].len]
<1>1. cache[c].len \in Nat /\ Bytes(Content(c), cache[c].len)
  BY ContentIs
<1>2. last \in Int
  BY <1>1, BytesAre
<1>3. Data(c, n) = [i \in 1 .. n |-> (last + i) % Tags]
  BY DEF Data
<1> HIDE DEF last
<1>4. Tags \in Nat \ {0}
  BY CacheAssumption
<1>5. ASSUME NEW i \in 1 .. n PROVE (last + i) % Tags \in Int
  BY <1>2, <1>4
<1>6. Data(c, n) \in [1 .. n -> Int]
  BY <1>3, <1>5
<1> QED BY <1>6, AreBytes

\* The sum of the lengths is not cut, and alloc is asked for it if need be.
LEMMA AppendDataCached ==
  ASSUME CInv, NEW c \in Caches, NEW n \in Pieces, AppendData(c, n)
  PROVE  CInv' /\ [PoolNext]_poolVars /\ \A d \in Caches : ContentMoves(d)
<1> DEFINE k == cache[c]
           all == k.len + n
<1>1. n \in Nat /\ n <= Word - 1 /\ Word \in Nat \ {0} /\ 0 .. 2 * Word \subseteq Lens
  BY CacheAssumption, PoolAssumption
<1>2. /\ k \in CacheType /\ k.len \in Nat /\ k.off \in Nat
      /\ k.blk.size \in Nat /\ k.off + k.len <= k.blk.size
  <2>1. k \in CacheType /\ k.off + k.len <= k.blk.size
    BY DEF CInv, CacheTyped, Stored
  <2> QED BY <2>1, BlockFacts DEF CacheType
<1>3. n <= Word - 1 - k.len
  BY DEF AppendData
<1>4. all \in Nat /\ all < Word /\ all % Word = all /\ all \in Lens
  BY <1>1, <1>2, <1>3
<1>5. /\ UNCHANGED <<cache, mem>> /\ job.do = "idle"
      /\ IF all > k.blk.size THEN Alloc(all) ELSE UNCHANGED poolVars
      /\ cur' = [do |-> IF all > k.blk.size THEN "alloc" ELSE "write",
                 c |-> c, data |-> Data(c, n), old |-> NoBlock]
  BY <1>4 DEF AppendData
<1>6. [PoolNext]_poolVars
  BY <1>4, <1>5 DEF PoolNext
<1>7. IInv' /\ held' = held
  BY <1>5, <1>6, StepsKeep DEF CInv, Alloc, poolVars
<1>8. CacheTyped' /\ cur' # NoAppend /\ cur'.c = c /\ Len(cur'.data) = n
  <2>1. Bytes(Data(c, n), n)
    BY <1>1, DataBytes
  <2> QED BY <1>5, <2>1 DEF CInv, CacheTyped, AppendType, Bytes, NoAppend
<1>9. Stored' /\ BlocksOwn'
  BY <1>5, <1>7 DEF CInv, Stored, BlocksOwn
<1>10. AtAppend'
  <2>1. CASE all > k.blk.size
    <3>1. cur'.do = "alloc" /\ Alloc(all)
      BY <1>5, <2>1
    <3>2. \/ job'.do \in {"expand", "take"} /\ job'.n = all
          \/ job'.do = "return" /\ job'.block = NoBlock
      BY <3>1 DEF Alloc, Returning, Idle
    <3> QED BY <1>5, <1>8, <3>1, <3>2 DEF AtAppend
  <2>2. CASE ~(all > k.blk.size)
    <3>1. cur'.do = "write" /\ cur'.old = NoBlock /\ job' = job /\ all <= k.blk.size
      BY <1>2, <1>4, <1>5, <2>2 DEF poolVars
    <3> QED BY <1>5, <1>8, <3>1 DEF AtAppend
  <2> QED BY <2>1, <2>2
<1>11. ASSUME NEW d \in Caches PROVE ContentMoves(d)
  BY <1>5, ContentStays DEF ContentMoves
<1> QED BY <1>6, <1>7, <1>8, <1>9, <1>10, <1>11 DEF CInv

\* What there was is at the front of the new block, which nobody else has.
LEMMA AppendingCached ==
  ASSUME CInv, NEW c \in Caches, c = cur.c, Appending
  PROVE  CInv' /\ [PoolNext]_poolVars /\ \A d \in Caches : ContentMoves(d)
<1> DEFINE k == cache[c]
           new == job.block
           all == k.len + Len(cur.data)
<1>1. cur # NoAppend /\ cur \in AppendType /\ cur.do = "alloc" /\ Len(cur.data) \in Nat
  <2>1. cur.do = "alloc" /\ cur # NoAppend
    BY DEF Appending, NoAppend
  <2>2. cur \in AppendType /\ cur.data \in Seq(Int)
    BY <2>1 DEF CInv, CacheTyped, AppendType
  <2> QED BY <2>1, <2>2, LenProperties DEF AppendType
<1>2. /\ Return /\ job.do = "return" /\ job' = Idle /\ held' = held
      /\ new # NoBlock => Spare(new) /\ all <= new.size
  BY <1>1 DEF Appending, Return, CInv, AtAppend
<1>3. [PoolNext]_poolVars
  BY <1>2 DEF PoolNext
<1>4. IInv'
  BY <1>3, StepsKeep DEF CInv
<1>5. job'.do = "idle"
  BY <1>2 DEF Idle
<1>6. CASE new = NoBlock
  <2>1. cur' = NoAppend /\ UNCHANGED <<cache, mem>>
    BY <1>6 DEF Appending
  <2>2. CacheTyped' /\ Stored' /\ BlocksOwn' /\ AtAppend'
    BY <1>2, <1>5, <2>1 DEF CInv, CacheTyped, Stored, BlocksOwn, AtAppend
  <2>3. ASSUME NEW d \in Caches PROVE ContentMoves(d)
    BY <2>1, ContentStays DEF ContentMoves
  <2> QED BY <1>3, <1>4, <2>2, <2>3 DEF CInv
<1>7. CASE new # NoBlock
  <2> DEFINE bytes == Copy(Fresh(new.size), 0, Content(c))
  <2>1. /\ mem' = [mem EXCEPT ![new.ptr] = bytes]
        /\ cache' = [cache EXCEPT ![c].blk = new, ![c].off = 0]
        /\ cur' = [cur EXCEPT !.do = "write", !.old = k.blk]
    BY <1>7 DEF Appending
  <2>2. new \in held /\ new \in Blocks /\ new.size \in Nat /\ Spare(new) /\ all <= new.size
    BY <1>2, <1>7, BlockFacts DEF Spare, CInv, IInv, Typed
  <2>3. /\ cache \in [Caches -> CacheType] /\ k.len \in Nat
        /\ Bytes(Content(c), k.len) /\ k.blk \in Blocks \cup {NoBlock}
    BY <1>1, ContentIs DEF CInv, CacheTyped, CacheType
  <2>4. /\ cache'[c].blk = new /\ cache'[c].off = 0 /\ cache'[c].len = k.len
        /\ \A d \in Caches \ {c} : cache'[d] = cache[d]
    BY <1>1, <2>1, <2>3 DEF CacheType
  <2>5. /\ Bytes(bytes, new.size)
        /\ \A i \in 1 .. k.len : bytes[i] = Content(c)[i]
    <3> DEFINE size == new.size
               fresh == Fresh(new.size)
               at == 0
               d == Content(c)
               n == k.len
    <3>1. /\ Bytes(fresh, size) /\ size \in Nat /\ Bytes(d, n) /\ n \in Nat /\ n <= size
          /\ at \in Nat
      BY <1>1, <2>2, <2>3, FreshBytes
    <3>2. Copied(Copy(fresh, at, d), fresh, size, at, d, n)
      <4> HIDE DEF size, fresh, at, d, n
      <4> QED BY <3>1, CopyBytes
    <3> QED BY <3>1, <3>2 DEF Copied
  <2>6. /\ mem' \in [Addrs -> Seq(Int)] /\ mem'[new.ptr] = bytes
        /\ \A d \in Caches : cache[d].blk \notin {new, NoBlock} =>
             mem'[cache[d].blk.ptr] = mem[cache[d].blk.ptr]
        /\ \A d \in Caches : cache'[d] = cache[d] /\ cache[d].blk # new =>
             Content(d)' = Content(d)
    <3>1. bytes \in Seq(Int)
      BY <2>5 DEF Bytes
    <3> HIDE DEF bytes
    <3> QED BY <2>1, <2>2, <3>1, OthersStay
  <2>7. CacheTyped'
    <3>1. cache' \in [Caches -> CacheType]
      BY <1>1, <2>1, <2>2, <2>3 DEF CacheType
    <3>2. cur' \in AppendType
      BY <1>1, <2>1, <2>3 DEF AppendType
    <3> QED BY <2>6, <3>1, <3>2 DEF CacheTyped
  <2>8. Stored'
    <3>1. 0 + k.len <= new.size
      BY <1>1, <2>2, <2>3
    <3>2. ASSUME NEW d \in Caches
          PROVE  /\ cache'[d].off + cache'[d].len <= cache'[d].blk.size
                 /\ cache'[d].blk # NoBlock =>
                      cache'[d].blk \in held' /\ Bytes(mem'[cache'[d].blk.ptr], cache'[d].blk.size)
      <4>1. CASE d = c
        BY <1>2, <2>2, <2>4, <2>6, <2>5, <3>1, <4>1
      <4>2. CASE d # c
        BY <1>2, <2>2, <2>4, <2>6, <4>2 DEF CInv, Stored, Spare
      <4> QED BY <4>1, <4>2
    <3> QED BY <3>2 DEF Stored
  <2>9. BlocksOwn'
    BY <2>2, <2>4 DEF CInv, BlocksOwn, Spare
  <2>10. AtAppend'
    <3>1. cur'.do = "write" /\ cur'.old = k.blk /\ cur'.c = c /\ cur'.data = cur.data
      BY <1>1, <2>1 DEF AppendType
    <3>2. ASSUME NEW old, old = k.blk, old # NoBlock PROVE Spare(old)'
      <4>1. old \in held'
        BY <1>2, <3>2 DEF CInv, Stored
      <4>2. cache'[c].blk # old
        BY <2>2, <2>4, <3>2 DEF Spare
      <4>3. ASSUME NEW d \in Caches \ {c} PROVE cache'[d].blk # old
        BY <2>4, <3>2 DEF CInv, BlocksOwn
      <4> QED BY <4>1, <4>2, <4>3 DEF Spare
    <3>3. all <= new.size /\ cache'[c].blk = new /\ cache'[c].len = k.len
      BY <2>2, <2>4
    <3> QED BY <1>5, <3>1, <3>2, <3>3 DEF AtAppend, NoAppend
  <2>11. Content(c)' = Content(c)
    <3> DEFINE n == k.len
               old == Content(c)
               now == Content(c)'
    <3>1. now = Part(bytes, 0, n)
      BY <2>4, <2>6 DEF Content, Part
    <3>2. Bytes(Part(bytes, 0, n), n) /\ \A i \in 1 .. n : Part(bytes, 0, n)[i] = bytes[0 + i]
      <4> DEFINE size == new.size
      <4>1. size \in Nat /\ 0 + n <= size /\ n \in Nat /\ Bytes(bytes, size)
        BY <1>1, <2>2, <2>3, <2>5
      <4> HIDE DEF size, n, bytes
      <4> QED BY <4>1, PartIs
    <3>3. Bytes(now, n) /\ Bytes(old, n) /\ n \in Nat /\ \A i \in 1 .. n : now[i] = old[i]
      BY <2>3, <2>5, <3>1, <3>2
    <3>4. now = old
      <4> HIDE DEF now, old, n
      <4> QED BY <3>3, SameBytes
    <3> QED BY <3>4
  <2>12. ASSUME NEW d \in Caches PROVE ContentMoves(d)
    <3>1. d # c => cache[d].blk # new
      BY <2>2 DEF Spare
    <3> QED BY <2>4, <2>6, <2>11, <3>1 DEF ContentMoves
  <2> QED BY <1>3, <1>4, <2>7, <2>8, <2>9, <2>10, <2>12 DEF CInv
<1> QED BY <1>6, <1>7

LEMMA ReleaseOldCached ==
  ASSUME CInv, ReleaseOld
  PROVE  CInv' /\ [PoolNext]_poolVars /\ \A d \in Caches : ContentMoves(d)
<1> DEFINE old == cur.old
           all == cache[cur.c].len + Len(cur.data)
<1>1. /\ cur # NoAppend /\ cur.do = "write" /\ old # NoBlock /\ Release(old)
      /\ mem' = [mem EXCEPT ![old.ptr] = << >>]
      /\ cur' = [cur EXCEPT !.old = NoBlock] /\ cache' = cache
  BY DEF ReleaseOld, NoAppend
<1>2. cur \in AppendType
  BY <1>1 DEF CInv, CacheTyped
<1>3. /\ cur'.do = "write" /\ cur'.old = NoBlock /\ cur'.c = cur.c /\ cur'.data = cur.data
      /\ cur' \in AppendType
  BY <1>1, <1>2 DEF AppendType
<1>4. old \in held /\ (\A d \in Caches : cache[d].blk # old) /\ all <= cache[cur.c].blk.size
  BY <1>1 DEF CInv, AtAppend, Spare
<1>5. [PoolNext]_poolVars
  BY <1>1, <1>4 DEF PoolNext
<1>6. IInv'
  BY <1>5, StepsKeep DEF CInv
<1>7. held' = held \ {old} /\ job'.do = "trim"
  BY <1>1 DEF Release, Idle
<1>8. /\ mem' \in [Addrs -> Seq(Int)]
      /\ \A d \in Caches : cache[d].blk # NoBlock => mem'[cache[d].blk.ptr] = mem[cache[d].blk.ptr]
      /\ \A d \in Caches : Content(d)' = Content(d)
  BY <1>1, <1>4, EmptySeq, OthersStay
<1>9. CacheTyped' /\ BlocksOwn'
  BY <1>1, <1>3, <1>8 DEF CInv, CacheTyped, BlocksOwn
<1>10. Stored'
  BY <1>1, <1>4, <1>7, <1>8 DEF CInv, Stored
<1>11. AtAppend'
  BY <1>1, <1>3, <1>4, <1>7 DEF AtAppend, NoAppend
<1> QED BY <1>5, <1>6, <1>8, <1>9, <1>10, <1>11 DEF CInv, ContentMoves

\* The data goes behind what there is, wherever that is in the block by now.
LEMMA AppendWriteCached ==
  ASSUME CInv, NEW c \in Caches, c = cur.c, AppendWrite
  PROVE  CInv' /\ [PoolNext]_poolVars /\ \A d \in Caches : ContentMoves(d)
<1> DEFINE k == cache[c]
           data == cur.data
           m == Len(data)
           behind == k.off + k.len + m <= k.blk.size
           off == IF behind THEN k.off ELSE 0
           image == IF behind THEN Copy(mem[k.blk.ptr], k.off + k.len, data)
                    ELSE Copy(Copy(mem[k.blk.ptr], 0, Content(c)), k.len, data)
<1>1. /\ cur # NoAppend /\ cur.do = "write" /\ job.do = "idle"
      /\ mem' = [mem EXCEPT ![k.blk.ptr] = Only(image, off, k.len + m)]
      /\ cache' = [cache EXCEPT ![c].off = off, ![c].len = @ + m]
      /\ cur' = NoAppend /\ UNCHANGED poolVars
  BY DEF AppendWrite, NoAppend
<1>2. m \in Nat /\ Bytes(data, m) /\ k.len + m <= k.blk.size
  <2>1. data \in Seq(Int) /\ k.len + m <= k.blk.size
    BY <1>1 DEF CInv, CacheTyped, AppendType, AtAppend
  <2> QED BY <2>1, LenProperties DEF Bytes
<1>3. /\ cache \in [Caches -> CacheType] /\ k.len \in Nat /\ k.off \in Nat /\ k.blk.size \in Nat
      /\ k.blk \in Blocks \cup {NoBlock} /\ k.off + k.len <= k.blk.size
  <2>1. cache \in [Caches -> CacheType] /\ k.off + k.len <= k.blk.size
    BY DEF CInv, CacheTyped, Stored
  <2> QED BY <2>1, BlockFacts DEF CacheType
<1>4. IInv' /\ [PoolNext]_poolVars /\ held' = held /\ job'.do = "idle"
  BY <1>1, StepsKeep DEF CInv, poolVars
<1>5. AtAppend'
  BY <1>1, <1>4 DEF AtAppend
<1>6. /\ cache'[c].blk = k.blk /\ cache'[c].off = off /\ cache'[c].len = k.len + m
      /\ \A d \in Caches \ {c} : cache'[d] = cache[d]
      /\ cache' \in [Caches -> CacheType] /\ off \in Nat
  <2>1. off \in Nat /\ k.len + m \in Nat
    BY <1>2, <1>3
  <2>2. cache' = [cache EXCEPT ![c].off = off, ![c].len = @ + m]
    BY <1>1
  <2> HIDE DEF off, m
  <2> QED BY <1>3, <2>1, <2>2 DEF CacheType
<1>7. BlocksOwn'
  <2>1. \A d \in Caches : cache'[d].blk = cache[d].blk
    BY <1>6
  <2> QED BY <2>1 DEF CInv, BlocksOwn
<1>8. CASE k.blk = NoBlock
  <2>1. k.len = 0 /\ m = 0 /\ k.off = 0 /\ k.blk.ptr \notin Addrs
    BY <1>2, <1>3, <1>8, BlockFacts, CacheAssumption
  <2>2. mem' = mem
    BY <1>1, <2>1 DEF CInv, CacheTyped
  <2>3. CacheTyped' /\ Stored'
    <3>1. cache'[c].blk = NoBlock /\ cache'[c].off + cache'[c].len <= cache'[c].blk.size
      BY <1>2, <1>3, <1>6, <1>8, <2>1
    <3> QED BY <1>1, <1>4, <1>6, <2>2, <3>1 DEF CInv, CacheTyped, Stored
  <2>4. ASSUME NEW d \in Caches PROVE Content(d)' = Content(d)
    <3>1. CASE d = c
      BY <1>6, <2>1, <3>1 DEF Content
    <3>2. CASE d # c
      BY <1>6, <2>2, <3>2, ContentStays
    <3> QED BY <3>1, <3>2
  <2> QED BY <1>1, <1>4, <1>5, <1>7, <2>3, <2>4 DEF CInv, ContentMoves
<1>9. CASE k.blk # NoBlock
  <2> DEFINE b == mem[k.blk.ptr]
             size == k.blk.size
             n == k.len
             held0 == Content(c)
             bytes == Only(image, off, n + m)
  <2>1. k.blk \in held /\ Bytes(b, size) /\ Bytes(held0, n) /\ \A i \in 1 .. n : held0[i] = b[k.off + i]
    BY <1>9, ContentIs DEF CInv, Stored
  <2>2. off + n + m <= size
    BY <1>2, <1>3
  \* What there is, and the data behind it, is in the block before the rest is cleared.
  <2>3. /\ Bytes(image, size)
        /\ \A i \in 1 .. n : image[off + i] = held0[i]
        /\ \A i \in 1 .. m : image[off + n + i] = data[i]
    <3>1. CASE behind
      <4> DEFINE at == k.off + n
                 copy == Copy(b, at, data)
      <4>1. Bytes(b, size) /\ size \in Nat /\ at \in Nat /\ Bytes(data, m) /\ m \in Nat
        <5>1. at \in Nat
          BY <1>3
        <5> HIDE DEF at
        <5> QED BY <1>2, <1>3, <2>1, <5>1
      <4>2. Copied(copy, b, size, at, data, m)
        <5> HIDE DEF b, size, at, data, m
        <5> QED BY <4>1, CopyBytes
      <4>3. image = copy /\ off = k.off
        BY <3>1
      <4>4. ASSUME NEW i \in 1 .. n PROVE copy[k.off + i] = held0[i]
        <5>1. k.off + i \in 1 .. size /\ ~(at < k.off + i)
          BY <1>3
        <5> QED BY <2>1, <4>2, <5>1 DEF Copied
      <4>5. ASSUME NEW i \in 1 .. m PROVE copy[at + i] = data[i]
        <5>1. at + i \in 1 .. size /\ at < at + i /\ at + i <= at + m /\ (at + i) - at = i
          <6>1. at \in Nat /\ m \in Nat /\ size \in Nat /\ at + m <= size
            BY <3>1, <4>1
          <6> HIDE DEF at, m, size
          <6> QED BY <6>1
        <5> QED BY <4>2, <5>1 DEF Copied
      <4> HIDE DEF copy, image, off
      <4> QED BY <4>2, <4>3, <4>4, <4>5 DEF Copied
    <3>2. CASE ~behind
      <4> DEFINE at == 0
                 moved == Copy(b, at, held0)
                 copy == Copy(moved, n, data)
      <4>1. /\ Bytes(b, size) /\ size \in Nat /\ at \in Nat /\ Bytes(held0, n) /\ n \in Nat
            /\ Bytes(data, m) /\ m \in Nat
        BY <1>2, <1>3, <2>1
      <4>2. Copied(moved, b, size, at, held0, n)
        <5> HIDE DEF b, size, at, held0, n
        <5> QED BY <4>1, CopyBytes
      <4>3. Copied(copy, moved, size, n, data, m)
        <5>1. Bytes(moved, size)
          BY <4>2 DEF Copied
        <5> HIDE DEF moved, size, n, data, m
        <5> QED BY <4>1, <5>1, CopyBytes
      <4>4. image = copy /\ off = 0
        BY <3>2
      <4>5. ASSUME NEW i \in 1 .. n PROVE copy[0 + i] = held0[i]
        <5>1. /\ i \in 1 .. size /\ ~(n < i) /\ 0 + i = i
              /\ at < i /\ i <= at + n /\ i - at = i
          BY <1>2, <1>3
        <5> HIDE DEF moved, copy, held0
        <5>2. copy[i] = moved[i] /\ moved[i] = held0[i]
          BY <4>2, <4>3, <5>1 DEF Copied
        <5> QED BY <5>1, <5>2
      <4>6. ASSUME NEW i \in 1 .. m PROVE copy[0 + n + i] = data[i]
        <5>1. /\ n + i \in 1 .. size /\ n < n + i /\ n + i <= n + m /\ (n + i) - n = i
              /\ 0 + n + i = n + i
          BY <1>2, <1>3
        <5> HIDE DEF moved, copy
        <5> QED BY <4>3, <5>1 DEF Copied
      <4> HIDE DEF copy, image, off
      <4> QED BY <4>3, <4>4, <4>5, <4>6 DEF Copied
    <3> QED BY <3>1, <3>2
  <2> HIDE DEF image, off
  <2>4. /\ Bytes(bytes, size)
        /\ \A i \in 1 .. size : off < i /\ i <= off + (n + m) => bytes[i] = image[i]
    <3> DEFINE l == n + m
    <3>1. Bytes(image, size) /\ size \in Nat /\ off \in Nat /\ l \in Nat
      BY <1>2, <1>3, <1>6, <2>3
    <3>2. /\ Bytes(Only(image, off, l), size)
          /\ \A i \in 1 .. size : off < i /\ i <= off + l => Only(image, off, l)[i] = image[i]
      <4> HIDE DEF size, l
      <4> QED BY <3>1, OnlyBytes
    <3> QED BY <3>2
  <2> HIDE DEF bytes
  <2>5. /\ mem' \in [Addrs -> Seq(Int)] /\ mem'[k.blk.ptr] = bytes
        /\ \A d \in Caches : cache[d].blk \notin {k.blk, NoBlock} =>
             mem'[cache[d].blk.ptr] = mem[cache[d].blk.ptr]
        /\ \A d \in Caches : cache'[d] = cache[d] /\ cache[d].blk # k.blk =>
             Content(d)' = Content(d)
    <3>1. mem' = [mem EXCEPT ![k.blk.ptr] = bytes] /\ bytes \in Seq(Int)
      BY <1>1, <2>4 DEF bytes, Bytes
    <3> QED BY <2>1, <3>1, OthersStay
  <2>6. \A d \in Caches \ {c} : cache[d].blk # k.blk
    BY <1>9 DEF CInv, BlocksOwn
  <2>7. CacheTyped'
    BY <1>1, <1>6, <2>5 DEF CacheTyped
  <2>8. Stored'
    <3>1. off + (n + m) <= size
      BY <1>2, <1>3, <1>6, <2>2
    <3>2. ASSUME NEW d \in Caches
          PROVE  /\ cache'[d].off + cache'[d].len <= cache'[d].blk.size
                 /\ cache'[d].blk # NoBlock =>
                      cache'[d].blk \in held' /\ Bytes(mem'[cache'[d].blk.ptr], cache'[d].blk.size)
      <4>1. CASE d = c
        BY <1>4, <1>6, <2>1, <2>4, <2>5, <3>1, <4>1
      <4>2. CASE d # c
        BY <1>4, <1>6, <2>5, <2>6, <4>2 DEF CInv, Stored
      <4> QED BY <4>1, <4>2
    <3> QED BY <3>2 DEF Stored
  <2>9. Content(c)' = held0 \o data
    <3> DEFINE now == Content(c)'
               l == n + m
               part == Part(bytes, off, l)
               both == held0 \o data
    <3>1. now = part
      BY <1>6, <2>5 DEF Content, Part
    <3>2. Bytes(part, l) /\ \A i \in 1 .. l : part[i] = bytes[off + i]
      <4>1. size \in Nat /\ off + l <= size /\ l \in Nat /\ Bytes(bytes, size) /\ off \in Nat
        BY <1>2, <1>3, <1>6, <2>2, <2>4
      <4> HIDE DEF size, l
      <4> QED BY <4>1, PartIs
    <3>3. Bytes(both, l) /\ \A i \in 1 .. l : both[i] = IF i <= n THEN held0[i] ELSE data[i - n]
      <4>1. held0 \in Seq(Int) /\ data \in Seq(Int) /\ Len(held0) = n /\ Len(data) = m
        BY <1>2, <2>1 DEF Bytes
      <4> HIDE DEF held0, data, n, m
      <4> QED BY <4>1, ConcatProperties DEF Bytes
    <3>4. ASSUME NEW i \in 1 .. l PROVE part[i] = both[i]
      <4>1. off + i \in 1 .. size /\ off < off + i /\ off + i <= off + (n + m)
        BY <1>2, <1>3, <1>6, <2>2
      <4>2. part[i] = image[off + i]
        BY <2>4, <3>2, <4>1
      <4>3. CASE i <= n
        <5>1. i \in 1 .. n
          BY <1>3, <4>3
        <5>2. image[off + i] = held0[i] /\ both[i] = held0[i]
          <6> HIDE DEF both, held0
          <6> QED BY <2>3, <3>3, <4>3, <5>1
        <5> QED BY <4>2, <5>2
      <4>4. CASE ~(i <= n)
        <5>1. i - n \in 1 .. m /\ off + n + (i - n) = off + i
          BY <1>2, <1>3, <1>6, <4>4
        <5> QED BY <2>3, <3>3, <4>2, <4>4, <5>1
      <4> QED BY <4>3, <4>4
    <3>5. l \in Nat
      BY <1>2, <1>3
    <3>6. part = both
      <4> HIDE DEF part, both, l
      <4> QED BY <3>2, <3>3, <3>4, <3>5, SameBytes
    <3> QED BY <3>1, <3>6
  <2>10. ASSUME NEW d \in Caches PROVE ContentMoves(d)
    <3>1. CASE d = c
      BY <1>1, <2>9, <3>1 DEF ContentMoves
    <3>2. CASE d # c
      BY <1>6, <2>5, <2>6, <3>2 DEF ContentMoves
    <3> QED BY <3>1, <3>2
  <2> QED BY <1>4, <1>5, <1>7, <2>7, <2>8, <2>10 DEF CInv
<1> QED BY <1>8, <1>9

LEMMA SkipIs ==
  ASSUME NEW b, NEW len \in Nat, Bytes(b, len), NEW n \in 0 .. len
  PROVE  /\ Bytes(Sock!Skip(b, n), len - n)
         /\ \A i \in 1 .. len - n : Sock!Skip(b, n)[i] = b[n + i]
<1> DEFINE m == len - n
<1>1. m \in Nat /\ n \in Nat /\ n + m = len /\ Len(b) = len
  BY DEF Bytes
<1>2. Sock!Skip(b, n) = SubSeq(b, n + 1, n + m)
  BY <1>1 DEF Sock!Skip
<1> HIDE DEF m
<1>3. /\ Bytes(SubSeq(b, n + 1, n + m), m)
      /\ \A i \in 1 .. m : SubSeq(b, n + 1, n + m)[i] = b[n + i]
  BY <1>1, Window
<1> QED BY <1>2, <1>3 DEF m

\* What is skipped is at the front of what there is.
LEMMA SkipCached ==
  ASSUME CInv, NEW c \in Caches, NEW n \in Pieces, SkipCache(c, n)
  PROVE  CInv' /\ [PoolNext]_poolVars /\ \A d \in Caches : ContentMoves(d)
<1> DEFINE k == cache[c]
           p == k.blk.ptr
           content == Content(c)
<1>1. job.do = "idle" /\ cur = NoAppend /\ cur' = NoAppend /\ k.blk # NoBlock /\ n \in Nat
  BY CacheAssumption DEF SkipCache
<1>2. /\ cache \in [Caches -> CacheType] /\ k.len \in Nat /\ k.off \in Nat /\ k.blk.size \in Nat
      /\ k.off + k.len <= k.blk.size
      /\ k.blk \in held /\ Bytes(mem[p], k.blk.size)
  <2>1. cache \in [Caches -> CacheType] /\ k.off + k.len <= k.blk.size
    BY DEF CInv, CacheTyped, Stored
  <2> QED BY <1>1, <2>1, BlockFacts DEF CacheType, CInv, Stored
<1>3. Bytes(content, k.len) /\ \A i \in 1 .. k.len : content[i] = mem[p][k.off + i]
  BY ContentIs
<1>4. \A d \in Caches \ {c} : cache[d].blk # k.blk
  BY <1>1 DEF CInv, BlocksOwn
<1>5. CASE n >= k.len
  <2>1. /\ Release(k.blk) /\ mem' = [mem EXCEPT ![p] = << >>]
        /\ cache' = [cache EXCEPT ![c] = [blk |-> NoBlock, off |-> 0, len |-> 0]]
    BY <1>5 DEF SkipCache
  <2>2. [PoolNext]_poolVars /\ IInv'
    <3>1. [PoolNext]_poolVars
      BY <1>2, <2>1 DEF PoolNext
    <3> QED BY <3>1, StepsKeep DEF CInv
  <2>3. held' = held \ {k.blk} /\ job'.do = "trim"
    BY <2>1 DEF Release, Idle
  <2>4. /\ mem' \in [Addrs -> Seq(Int)]
        /\ \A d \in Caches : cache[d].blk \notin {k.blk, NoBlock} =>
             mem'[cache[d].blk.ptr] = mem[cache[d].blk.ptr]
        /\ \A d \in Caches : cache'[d] = cache[d] /\ cache[d].blk # k.blk =>
             Content(d)' = Content(d)
    BY <1>2, <2>1, EmptySeq, OthersStay
  <2>5. /\ cache'[c] = [blk |-> NoBlock, off |-> 0, len |-> 0]
        /\ \A d \in Caches \ {c} : cache'[d] = cache[d]
        /\ cache' \in [Caches -> CacheType]
    BY <1>2, <2>1 DEF CacheType
  <2>6. CacheTyped' /\ AtAppend'
    BY <1>1, <2>3, <2>4, <2>5 DEF CacheTyped, AtAppend
  <2>7. Stored'
    BY <1>4, <2>3, <2>4, <2>5, BlockFacts DEF CInv, Stored
  <2>8. BlocksOwn'
    BY <2>5 DEF CInv, BlocksOwn
  <2>9. ContentMoves(c)
    <3> DEFINE len == k.len
               none == Sock!Skip(content, len)
    <3>1. Bytes(none, len - len) /\ len \in 0 .. len
      <4>1. len \in Nat /\ len \in 0 .. len /\ Bytes(content, len)
        BY <1>2, <1>3
      <4> HIDE DEF len, content
      <4> QED BY <4>1, SkipIs
    <3>2. none = << >>
      <4> HIDE DEF none
      <4> QED BY <1>2, <3>1, EmptySeq DEF Bytes
    <3>3. Content(c)' = << >>
      BY <2>5 DEF Content
    <3> QED BY <1>1, <3>1, <3>2, <3>3 DEF ContentMoves
  <2>10. ASSUME NEW d \in Caches PROVE ContentMoves(d)
    <3>1. CASE d # c
      BY <1>4, <2>4, <2>5, <3>1 DEF ContentMoves
    <3> QED BY <2>9, <3>1
  <2> QED BY <2>2, <2>6, <2>7, <2>8, <2>10 DEF CInv
<1>6. CASE n < k.len
  <2> DEFINE size == k.blk.size
             off == k.off + n
             len == k.len - n
             bytes == Only(mem[p], off, len)
  <2>1. /\ UNCHANGED poolVars /\ mem' = [mem EXCEPT ![p] = bytes]
        /\ cache' = [cache EXCEPT ![c].off = @ + n, ![c].len = @ - n]
    BY <1>1, <1>2, <1>6 DEF SkipCache
  <2>2. [PoolNext]_poolVars /\ IInv' /\ held' = held /\ job' = job
    BY <2>1, StepsKeep DEF CInv, poolVars
  <2>3. off \in Nat /\ len \in Nat /\ off + len <= size /\ size \in Nat
    BY <1>1, <1>2, <1>6
  <2>4. Bytes(bytes, size) /\ \A i \in 1 .. size : off < i /\ i <= off + len => bytes[i] = mem[p][i]
    <3> DEFINE b == mem[p]
    <3>1. Bytes(b, size)
      BY <1>2
    <3>2. /\ Bytes(Only(b, off, len), size)
          /\ \A i \in 1 .. size : off < i /\ i <= off + len => Only(b, off, len)[i] = b[i]
      <4> HIDE DEF b, size, off, len
      <4> QED BY <2>3, <3>1, OnlyBytes
    <3> QED BY <3>2
  <2>5. /\ mem' \in [Addrs -> Seq(Int)] /\ mem'[p] = bytes
        /\ \A d \in Caches : cache[d].blk \notin {k.blk, NoBlock} =>
             mem'[cache[d].blk.ptr] = mem[cache[d].blk.ptr]
        /\ \A d \in Caches : cache'[d] = cache[d] /\ cache[d].blk # k.blk =>
             Content(d)' = Content(d)
    <3>1. bytes \in Seq(Int)
      BY <2>4 DEF Bytes
    <3> HIDE DEF bytes
    <3> QED BY <1>2, <2>1, <3>1, OthersStay
  <2>6. /\ cache'[c].blk = k.blk /\ cache'[c].off = off /\ cache'[c].len = len
        /\ \A d \in Caches \ {c} : cache'[d] = cache[d]
        /\ cache' \in [Caches -> CacheType]
    BY <1>2, <2>1, <2>3 DEF CacheType
  <2> HIDE DEF bytes, off, len
  <2>7. CacheTyped' /\ AtAppend'
    BY <1>1, <2>2, <2>5, <2>6 DEF CacheTyped, AtAppend
  <2>8. Stored'
    <3> SUFFICES ASSUME NEW d \in Caches
                 PROVE  /\ cache'[d].off + cache'[d].len <= cache'[d].blk.size
                        /\ cache'[d].blk # NoBlock =>
                             /\ cache'[d].blk \in held'
                             /\ Bytes(mem'[cache'[d].blk.ptr], cache'[d].blk.size)
      BY DEF Stored
    <3>1. CASE d = c
      BY <1>2, <2>2, <2>3, <2>4, <2>5, <2>6, <3>1
    <3>2. CASE d # c
      BY <1>4, <2>2, <2>5, <2>6, <3>2 DEF CInv, Stored
    <3> QED BY <3>1, <3>2
  <2>9. BlocksOwn'
    <3>1. \A d \in Caches : cache'[d].blk = cache[d].blk
      BY <2>6
    <3> QED BY <3>1 DEF CInv, BlocksOwn
  <2>10. ContentMoves(c)
    <3> DEFINE part == Part(bytes, off, len)
               rest == Sock!Skip(content, n)
    <3>1. Content(c)' = part
      BY <2>5, <2>6 DEF Content, Part
    <3>2. Bytes(part, len) /\ \A i \in 1 .. len : part[i] = bytes[off + i]
      <4> HIDE DEF size
      <4> QED BY <2>3, <2>4, PartIs
    <3>3. Bytes(rest, len) /\ \A i \in 1 .. len : rest[i] = content[n + i]
      <4> DEFINE all == k.len
      <4>1. all \in Nat /\ Bytes(content, all) /\ n \in 0 .. all /\ len = all - n
        BY <1>1, <1>2, <1>3, <1>6 DEF len
      <4>2. /\ Bytes(Sock!Skip(content, n), all - n)
            /\ \A i \in 1 .. all - n : Sock!Skip(content, n)[i] = content[n + i]
        <5> HIDE DEF all, content
        <5> QED BY <4>1, SkipIs
      <4> QED BY <4>1, <4>2
    <3>4. ASSUME NEW i \in 1 .. len PROVE part[i] = rest[i]
      <4>1. off + i \in 1 .. size /\ off < off + i /\ off + i <= off + len
        BY <2>3
      <4>2. n + i \in 1 .. k.len /\ k.off + (n + i) = off + i
        BY <1>1, <1>2, <1>6 DEF off, len
      <4>3. part[i] = mem[p][off + i]
        BY <2>4, <3>2, <4>1
      <4>4. rest[i] = mem[p][off + i]
        BY <1>3, <3>3, <4>2
      <4> QED BY <4>3, <4>4
    <3>5. part = rest
      <4> HIDE DEF part, rest
      <4> QED BY <2>3, <3>2, <3>3, <3>4, SameBytes
    <3>6. n \in 0 .. k.len
      BY <1>1, <1>2, <1>6
    <3> QED BY <1>1, <3>1, <3>5, <3>6 DEF ContentMoves
  <2>11. ASSUME NEW d \in Caches PROVE ContentMoves(d)
    <3>1. CASE d # c
      BY <1>4, <2>5, <2>6, <3>1 DEF ContentMoves
    <3> QED BY <2>10, <3>1
  <2> QED BY <2>2, <2>7, <2>8, <2>9, <2>11 DEF CInv
<1> QED BY <1>1, <1>2, <1>5, <1>6

LEMMA StepsCached ==
  ASSUME CInv, [Next]_vars
  PROVE  /\ CInv' /\ [PoolNext]_poolVars
         /\ Next => \A d \in Caches : ContentMoves(d)
<1>1. CASE PoolStep
  BY <1>1, PoolStepCached DEF PoolStep, PoolNext
<1>2. CASE Appending
  <2>1. cur.c \in Caches
    <3>1. cur # NoAppend
      BY <1>2 DEF Appending, NoAppend
    <3> QED BY <3>1 DEF CInv, CacheTyped, AppendType
  <2> QED BY <1>2, <2>1, AppendingCached
<1>3. CASE ReleaseOld
  BY <1>3, ReleaseOldCached
<1>4. CASE AppendWrite
  <2>1. cur.c \in Caches
    <3>1. cur # NoAppend
      BY <1>4 DEF AppendWrite, NoAppend
    <3> QED BY <3>1 DEF CInv, CacheTyped, AppendType
  <2> QED BY <1>4, <2>1, AppendWriteCached
<1>5. ASSUME NEW c \in Caches, NEW n \in Pieces, AppendData(c, n) \/ SkipCache(c, n)
      PROVE  CInv' /\ [PoolNext]_poolVars /\ \A d \in Caches : ContentMoves(d)
  BY <1>5, AppendDataCached, SkipCached
<1>6. CASE UNCHANGED vars
  <2>1. UNCHANGED poolVars /\ UNCHANGED <<cache, mem, cur>>
    BY <1>6 DEF vars, cacheVars
  <2>2. IInv'
    BY <2>1, StepsKeep DEF CInv
  <2>3. CInv'
    BY <2>1, <2>2 DEF CInv, CacheTyped, Stored, BlocksOwn, AtAppend, Spare, poolVars
  <2>4. Next => \A d \in Caches : ContentMoves(d)
    BY <2>1, ContentStays DEF ContentMoves
  <2> QED BY <2>1, <2>3, <2>4
<1> QED BY <1>1, <1>2, <1>3, <1>4, <1>5, <1>6 DEF Next

\* Whatever the caches do, the pool is used as it may be used: alloc and release
\* are called one at a time, a release with a block that was given and not
\* released, so that what is proved of the pool holds for the caches' blocks.
THEOREM CachesUsePool == Spec => PoolSpec
<1>1. Init => CInv /\ PoolInit
  BY InitiallyCached DEF Init
<1>2. CInv /\ [Next]_vars => CInv' /\ [PoolNext]_poolVars
  BY StepsCached
<1> QED BY <1>1, <1>2, PTL DEF Spec, PoolSpec

\* For any caches, blocks and lengths: a cache is the sequence of bytes that were
\* appended to it and not skipped.
THEOREM CachesAreSequences == Spec => CacheIsByteSequence
<1>1. Init => CInv
  BY InitiallyCached
<1>2. CInv /\ [Next]_vars => CInv'
  BY StepsCached
<1>3. CInv /\ [Next]_vars =>
        [\A c \in Caches :
           \/ Content(c)' = Content(c)
           \/ cur # NoAppend /\ cur.c = c /\ Content(c)' = Content(c) \o cur.data
           \/ cur = NoAppend /\ \E n \in 0 .. cache[c].len : Content(c)' = Sock!Skip(Content(c), n)]_vars
  BY StepsCached DEF ContentMoves
<1> QED BY <1>1, <1>2, <1>3, PTL DEF Spec, CacheIsByteSequence

\* The pool keeps its counters and its lists, loses no memory, and gives each
\* cache blocks of its own, whatever the caches do.
THEOREM PoolServesCaches ==
  Spec => []TypeOK /\ []BlocksApart /\ []NothingLost /\ LimitCrossedByLargest /\ ImplementsAllocator
BY CachesUsePool, PoolTypeCorrect, BlocksStayApart, PoolLosesNothing, OnlyLargestCrosses,
   PoolIsAllocator, PTL

=============================================================================
