------------------------------- MODULE Cache -------------------------------
(***************************************************************************)
(* cache_t (redis-pool/src/cache.cpp): bytes that wait to be sent or to be *)
(* understood, in a block of the memory pool that is replaced by a larger  *)
(* one when it is too short.  The caches of a redis_client_t share a pool, *)
(* and are used by its one thread: cur is the append it is in.  Memory is  *)
(* what is at the addresses of the pool's blocks; what no cache has in use *)
(* is Junk, as anyone may have written there.                              *)
(***************************************************************************)
EXTENDS MemoryPool, Sequences

CONSTANTS
  Caches,  \* cache_t objects with the same set_mp()
  Pieces,  \* lengths that are appended or skipped
  Tags     \* bytes are numbered modulo Tags: more than one, to tell them apart

ASSUME CacheAssumption ==
  /\ Pieces \subseteq 0 .. Word - 1
  /\ 0 .. 2 * Word \subseteq Lens
  /\ Tags \in Nat \ {0, 1}
  /\ Nowhere \notin Addrs

VARIABLES
  cache,   \* ptr, total_len and cookie (blk), offset, data_len
  mem,     \* bytes by address
  cur      \* the append that is going on

cacheVars == <<cache, mem, cur>>
vars == <<poolVars, cacheVars>>

Junk == -1
NoAppend == [do |-> "no"]

Init ==
  /\ PoolInit
  /\ cache = [c \in Caches |-> [blk |-> NoBlock, off |-> 0, len |-> 0]]
  /\ mem = [p \in Addrs |-> << >>]
  /\ cur = NoAppend

\* data() and len(): what the cache holds.
Content(c) ==
  LET k == cache[c]
  IN  IF k.len = 0 THEN << >> ELSE SubSeq(mem[k.blk.ptr], k.off + 1, k.off + k.len)

\* The next n bytes for a cache: they go on from its last one.
Data(c, n) ==
  LET last == IF cache[c].len = 0 THEN 0 ELSE Content(c)[cache[c].len]
  IN  [i \in 1 .. n |-> (last + i) % Tags]

\* memcpy and memmove of data to bytes + at, and what no one has in use.
Copy(bytes, at, data) ==
  [i \in DOMAIN bytes |-> IF at < i /\ i <= at + Len(data) THEN data[i - at] ELSE bytes[i]]
Only(bytes, at, n) ==
  [i \in DOMAIN bytes |-> IF at < i /\ i <= at + n THEN bytes[i] ELSE Junk]
Fresh(size) == [i \in 1 .. size |-> Junk]

-----------------------------------------------------------------------------
(* append *)

\* append(data, n) fails at once when the sum of the lengths is over UINT_MAX,
\* and asks for a larger block when the one it has is too short.
AppendData(c, n) ==
  LET k == cache[c]
      all == (k.len + n) % Word
  IN  /\ job.do = "idle" /\ cur = NoAppend
      /\ n <= Word - 1 - k.len
      /\ IF all > k.blk.size THEN Alloc(all) ELSE UNCHANGED poolVars
      /\ cur' = [do |-> IF all > k.blk.size THEN "alloc" ELSE "write",
                 c |-> c, data |-> Data(c, n), old |-> NoBlock]
      /\ UNCHANGED <<cache, mem>>

\* alloc returns: what there is is copied, to the front of the new block.
Appending ==
  LET c == cur.c
      new == job.block
  IN  /\ cur.do = "alloc" /\ Return
      /\ IF new = NoBlock
         THEN cur' = NoAppend /\ UNCHANGED <<cache, mem>>
         ELSE /\ mem' = [mem EXCEPT ![new.ptr] = Copy(Fresh(new.size), 0, Content(c))]
              /\ cache' = [cache EXCEPT ![c].blk = new, ![c].off = 0]
              /\ cur' = [cur EXCEPT !.do = "write", !.old = cache[c].blk]

\* The block it was in goes back to the pool.
ReleaseOld ==
  /\ cur.do = "write" /\ cur.old # NoBlock
  /\ Release(cur.old)
  /\ mem' = [mem EXCEPT ![cur.old.ptr] = << >>]
  /\ cur' = [cur EXCEPT !.old = NoBlock]
  /\ UNCHANGED cache

\* Mutant: there is no memmove.
AppendWriteUnmoved ==
  LET c == cur.c
      k == cache[c]
      bytes == mem[k.blk.ptr]
      behind == k.off + k.len + Len(cur.data) <= k.blk.size
      off == IF behind THEN k.off ELSE 0
      image == Copy(bytes, off + k.len, cur.data)
  IN  /\ cur.do = "write" /\ cur.old = NoBlock /\ job.do = "idle"
      /\ mem' = [mem EXCEPT ![k.blk.ptr] = Only(image, off, k.len + Len(cur.data))]
      /\ cache' = [cache EXCEPT ![c].off = off, ![c].len = @ + Len(cur.data)]
      /\ cur' = NoAppend
      /\ UNCHANGED poolVars

\* The data follows what there is, which is moved to the front of the block when
\* the data does not fit behind it.
AppendWrite ==
  LET c == cur.c
      k == cache[c]
      bytes == mem[k.blk.ptr]
      behind == k.off + k.len + Len(cur.data) <= k.blk.size
      off == IF behind THEN k.off ELSE 0
      image == IF behind THEN Copy(bytes, k.off + k.len, cur.data)
               ELSE Copy(Copy(bytes, 0, Content(c)), k.len, cur.data)
  IN  /\ cur.do = "write" /\ cur.old = NoBlock /\ job.do = "idle"
      /\ mem' = [mem EXCEPT ![k.blk.ptr] = Only(image, off, k.len + Len(cur.data))]
      /\ cache' = [cache EXCEPT ![c].off = off, ![c].len = @ + Len(cur.data)]
      /\ cur' = NoAppend
      /\ UNCHANGED poolVars

-----------------------------------------------------------------------------
(* skip, and the destructor, which skips everything *)

SkipCache(c, n) ==
  LET k == cache[c]
      p == k.blk.ptr
  IN  /\ job.do = "idle" /\ cur = NoAppend /\ k.blk # NoBlock
      /\ IF n >= k.len
         THEN /\ Release(k.blk)
              /\ cache' = [cache EXCEPT ![c] = [blk |-> NoBlock, off |-> 0, len |-> 0]]
              /\ mem' = [mem EXCEPT ![p] = << >>]
         ELSE /\ cache' = [cache EXCEPT ![c].off = @ + n, ![c].len = @ - n]
              /\ mem' = [mem EXCEPT ![p] = Only(@, k.off + n, k.len - n)]
              /\ UNCHANGED poolVars
      /\ UNCHANGED cur

PoolStep == Inside /\ UNCHANGED cacheVars

Next ==
  \/ PoolStep \/ Appending \/ ReleaseOld \/ AppendWrite
  \/ \E c \in Caches, n \in Pieces : AppendData(c, n) \/ SkipCache(c, n)

Spec == Init /\ [][Next]_vars

-----------------------------------------------------------------------------
(* Properties *)

Sock == INSTANCE SocketSend

\* A cache is the sequence of bytes that send_data and the parser take it for,
\* whatever blocks it is moved through, inside a block or from one to another,
\* and whatever the other caches do with theirs: no step loses, mixes up or
\* repeats a byte of it other than by appending the data or by skipping a number
\* of bytes, which this does not say, at its front.
CacheIsByteSequence ==
  [][\A c \in Caches :
       \/ Content(c)' = Content(c)
       \/ cur # NoAppend /\ cur.c = c /\ Content(c)' = Content(c) \o cur.data
       \/ cur = NoAppend /\ \E n \in 0 .. cache[c].len : Content(c)' = Sock!Skip(Content(c), n)]_vars

=============================================================================
