------------------------- MODULE RedisClientProofs -------------------------
(***************************************************************************)
(* Proofs about the event-driven client, for any servers, descriptors,     *)
(* buffers, commands and other threads: the descriptors it uses are its    *)
(* own until it closes one of another thread's, and what reaches a server  *)
(* until then are its commands, in order, and whole as long as nothing is  *)
(* sent over a cache.                                                      *)
(***************************************************************************)
EXTENDS RedisClient, SequenceTheorems, WellFoundedInduction, TLAPS

-----------------------------------------------------------------------------
(* One call of send_data or send_data_cache *)

\* Where bytes are cut in two, nothing is lost: a prefix is written, the rest
\* is kept.
LEMMA CutInTwo ==
  ASSUME NEW S, NEW bytes \in Seq(S), NEW n \in 0 .. Len(bytes)
  PROVE  /\ Front(bytes, n) \in Seq(S) /\ Skip(bytes, n) \in Seq(S)
         /\ Len(Front(bytes, n)) = n /\ Len(Skip(bytes, n)) = Len(bytes) - n
         /\ \A i \in 1 .. n : Front(bytes, n)[i] = bytes[i]
         /\ \A i \in 1 .. Len(bytes) - n : Skip(bytes, n)[i] = bytes[n + i]
         /\ Front(bytes, n) \o Skip(bytes, n) = bytes
<1>1. Len(bytes) \in Nat /\ n \in Nat /\ n <= Len(bytes)
  OBVIOUS
<1>2. \A i \in 1 .. n : bytes[i] \in S
  BY <1>1
<1>3. /\ Front(bytes, n) \in Seq(S) /\ Len(Front(bytes, n)) = IF 1 <= n THEN n - 1 + 1 ELSE 0
      /\ \A i \in 1 .. n - 1 + 1 : Front(bytes, n)[i] = bytes[1 + i - 1]
  BY <1>1, <1>2, SubSeqProperties DEF Front
<1>4. \A i \in n + 1 .. Len(bytes) : bytes[i] \in S
  BY <1>1
<1>5. /\ Skip(bytes, n) \in Seq(S)
      /\ Len(Skip(bytes, n)) = IF n + 1 <= Len(bytes) THEN Len(bytes) - (n + 1) + 1 ELSE 0
      /\ \A i \in 1 .. Len(bytes) - (n + 1) + 1 : Skip(bytes, n)[i] = bytes[(n + 1) + i - 1]
  <2>1. n + 1 \in Int /\ Len(bytes) \in Int
    BY <1>1
  <2> QED BY <1>4, <2>1, SubSeqProperties, SMTT(30) DEF Skip
<1>6. Len(Front(bytes, n)) = n /\ \A i \in 1 .. n : Front(bytes, n)[i] = bytes[i]
  BY <1>1, <1>3
<1>7. /\ Len(Skip(bytes, n)) = Len(bytes) - n
      /\ \A i \in 1 .. Len(bytes) - n : Skip(bytes, n)[i] = bytes[n + i]
  <2>1. Len(bytes) - (n + 1) + 1 = Len(bytes) - n /\ (n + 1 <= Len(bytes) <=> Len(bytes) - n # 0)
    BY <1>1
  <2>2. \A i \in 1 .. Len(bytes) - n : (n + 1) + i - 1 = n + i
    BY <1>1
  <2> QED BY <1>1, <1>5, <2>1, <2>2
<1>8. Front(bytes, n) \o Skip(bytes, n) = bytes
  <2>1. SubSeq(bytes, 1, n) \o SubSeq(bytes, n + 1, Len(bytes)) = SubSeq(bytes, 1, Len(bytes))
    <3>1. 1 \in 1 .. Len(bytes) + 1 /\ n \in 1 - 1 .. Len(bytes) /\ Len(bytes) \in n .. Len(bytes)
      BY <1>1
    <3> QED BY <3>1, ConcatAdjacentSubSeq
  <2> QED BY <2>1, SubSeqFull DEF Front, Skip
<1> QED BY <1>3, <1>5, <1>6, <1>7, <1>8

LEMMA SmallerOf ==
  ASSUME NEW m \in Nat, NEW n \in Nat
  PROVE  /\ Smaller(m, n) \in 0 .. m /\ Smaller(m, n) \in 0 .. n
         /\ Smaller(m, n) = m \/ Smaller(m, n) = n
BY DEF Smaller

\* send_data_cache writes no more than the kernel takes, and neither loses nor
\* repeats a byte: what it wrote and what it keeps are what was cached.
THEOREM FlushKeepsBytes ==
  ASSUME NEW S, NEW cache \in Seq(S), NEW room \in Nat
  PROVE  LET o == Flush(cache, room)
         IN  /\ o.out \in Seq(S) /\ o.cache \in Seq(S)
             /\ Len(o.out) <= room
             /\ o.out \o o.cache = cache
<1>1. PICK n \in 0 .. Len(cache) : n = Smaller(Len(cache), room) /\ n <= room
  <2>1. Len(cache) \in Nat
    OBVIOUS
  <2> QED BY <2>1, SmallerOf
<1>2. PICK o : o = Flush(cache, room)
  OBVIOUS
<1>3. o.out = Front(cache, n) /\ o.cache = Skip(cache, n)
  BY <1>1, <1>2 DEF Flush
<1>4. /\ Front(cache, n) \in Seq(S) /\ Skip(cache, n) \in Seq(S) /\ Len(Front(cache, n)) = n
      /\ Front(cache, n) \o Skip(cache, n) = cache
  BY <1>1, CutInTwo
<1>5. o.out \in Seq(S) /\ o.cache \in Seq(S) /\ Len(o.out) <= room /\ o.out \o o.cache = cache
  BY <1>1, <1>3, <1>4
<1> QED BY <1>2, <1>5

\* Of the cache and a command, a part of the cache was written and the rest is
\* kept; or all of the cache and m bytes of the command were written, and
\* nothing is kept of the command, or what is left of it after the cache.
OnlyCache(o, cache) == o.out \o o.cache = cache /\ o.out # cache
CacheThen(o, cache, cmd, m) ==
  /\ o.out = cache \o Front(cmd, m) /\ Len(o.out) = Len(cache) + m
  /\ o.cache = cache \/ (m > 0 /\ o.cache = cache \o Skip(cmd, m))

\* send_data writes no more than the kernel takes.  Either only a part of the
\* cache is written and the command given up; or the cache is written, as much
\* of the command after it as the kernel takes, and the cache stays or grows by
\* what the kernel did not take of the command.
THEOREM SendDataWrites ==
  ASSUME NEW S, NEW cache \in Seq(S), NEW cmd \in Seq(S), NEW room \in Nat,
         NEW o \in SendData(cache, cmd, room)
  PROVE  /\ o.out \in Seq(S) /\ o.cache \in Seq(S) /\ Len(o.out) <= room
         /\ \/ OnlyCache(o, cache)
            \/ \E m \in 0 .. Len(cmd) :
                 CacheThen(o, cache, cmd, m) /\ (m < Len(cmd) => Len(o.out) = room)
<1>1. PICK k \in Nat : k = Len(cache)
  OBVIOUS
<1>2. PICK l \in Nat : l = Len(cmd)
  OBVIOUS
<1>3. PICK n \in 0 .. k : n = Smaller(k, room) /\ n <= room /\ (n < k => n = room)
  <2>1. /\ Smaller(k, room) \in 0 .. k /\ Smaller(k, room) \in 0 .. room
        /\ Smaller(k, room) = k \/ Smaller(k, room) = room
    BY SmallerOf
  <2> QED BY <2>1
<1>4. PICK m \in 0 .. l : m = Smaller(l, room - n) /\ n + m <= room /\ (m < l => n + m = room)
  <2>1. room - n \in Nat
    BY <1>3
  <2>2. Smaller(l, room - n) \in 0 .. l /\ Smaller(l, room - n) \in 0 .. room - n
        /\ (Smaller(l, room - n) = l \/ Smaller(l, room - n) = room - n)
    BY <2>1, SmallerOf
  <2> QED BY <1>3, <2>1, <2>2
<1>5. CASE n < k
  <2>1. o = [out |-> Front(cache, n), cache |-> Skip(cache, n)]
    BY <1>1, <1>3, <1>5 DEF SendData
  <2>2. /\ Front(cache, n) \in Seq(S) /\ Skip(cache, n) \in Seq(S)
        /\ Len(Front(cache, n)) = n /\ Front(cache, n) \o Skip(cache, n) = cache
    BY <1>1, <1>3, CutInTwo
  <2>3. Front(cache, n) # cache
    BY <1>1, <1>3, <1>5, <2>2
  <2> QED BY <1>3, <2>1, <2>2, <2>3 DEF OnlyCache
<1>6. CASE ~(n < k)
  <2>1. n = k
    BY <1>3, <1>6
  <2>2. PICK c \in IF m = 0 THEN {cache} ELSE AppendOrNot(cache, Skip(cmd, m)) :
          o = [out |-> cache \o Front(cmd, m), cache |-> c]
    BY <1>1, <1>2, <1>3, <1>4, <2>1 DEF SendData
  <2>3. /\ Front(cmd, m) \in Seq(S) /\ Skip(cmd, m) \in Seq(S) /\ Len(Front(cmd, m)) = m
    BY <1>2, <1>4, CutInTwo
  <2>4. c = cache \/ (m > 0 /\ c = cache \o Skip(cmd, m))
    BY <1>4, <2>2 DEF AppendOrNot
  <2>5. /\ cache \o Front(cmd, m) \in Seq(S) /\ cache \o Skip(cmd, m) \in Seq(S)
        /\ Len(cache \o Front(cmd, m)) = k + m
    BY <1>1, <2>3, ConcatProperties
  <2>6. o.out = cache \o Front(cmd, m) /\ o.cache = c
    BY <2>2
  <2>7. o.out \in Seq(S) /\ o.cache \in Seq(S) /\ Len(o.out) = k + m
    BY <2>4, <2>5, <2>6
  <2> QED BY <1>1, <1>2, <1>3, <1>4, <2>1, <2>4, <2>6, <2>7 DEF CacheThen
<1> QED BY <1>5, <1>6

\* On a broken connection nothing of the command is written, and the cache is
\* dropped or, when it was written before, kept.
THEOREM SendErrorsWrite ==
  ASSUME NEW S, NEW cache \in Seq(S), NEW room \in Nat, NEW o \in SendErrors(cache, room)
  PROVE  /\ o.out \in Seq(S) /\ o.cache \in Seq(S) /\ Len(o.out) <= room
         /\ \/ o.out = << >> /\ o.cache = << >>
            \/ o.out = cache /\ o.cache = cache
<1>1. << >> \in Seq(S) /\ Len(<< >>) = 0
  OBVIOUS
<1>2. \/ o = [out |-> << >>, cache |-> << >>]
      \/ Len(cache) <= room /\ o = [out |-> cache, cache |-> cache]
  BY DEF SendErrors
<1>3. CASE o = [out |-> << >>, cache |-> << >>]
  <2>1. o.out = << >> /\ o.cache = << >>
    BY <1>3
  <2> QED BY <1>1, <2>1
<1>4. CASE Len(cache) <= room /\ o = [out |-> cache, cache |-> cache]
  <2>1. o.out = cache /\ o.cache = cache
    BY <1>4
  <2> QED BY <1>4, <2>1
<1> QED BY <1>2, <1>3, <1>4

-----------------------------------------------------------------------------
(* Sequences of bytes *)

LEMMA SeqOf ==
  ASSUME NEW S, NEW T, NEW s \in Seq(S), \A i \in 1 .. Len(s) : s[i] \in T
  PROVE  s \in Seq(T)
<1>1. s \in [1 .. Len(s) -> S] /\ Len(s) \in Nat
  BY LenProperties
<1>2. s \in [1 .. Len(s) -> T]
  BY <1>1
<1> QED BY <1>1, <1>2, SeqDef

\* Where the bytes of two sequences are in both together.
LEMMA Together ==
  ASSUME NEW S, NEW a \in Seq(S), NEW b \in Seq(S)
  PROVE  /\ a \o b \in Seq(S)
         /\ DOMAIN a = 1 .. Len(a) /\ DOMAIN b = 1 .. Len(b)
         /\ Len(a) \in Nat /\ Len(b) \in Nat /\ Len(a \o b) = Len(a) + Len(b)
         /\ DOMAIN (a \o b) = 1 .. Len(a) + Len(b)
         /\ \A i \in 1 .. Len(a) : i \in 1 .. Len(a) + Len(b) /\ (a \o b)[i] = a[i]
         /\ \A j \in 1 .. Len(b) : Len(a) + j \in 1 .. Len(a) + Len(b) /\ (a \o b)[Len(a) + j] = b[j]
<1>1. PICK k \in Nat : k = Len(a) /\ DOMAIN a = 1 .. k
  BY LenProperties
<1>2. PICK l \in Nat : l = Len(b) /\ DOMAIN b = 1 .. l
  BY LenProperties
<1>3. /\ a \o b \in Seq(S) /\ Len(a \o b) = k + l
      /\ \A i \in 1 .. k + l : (a \o b)[i] = IF i <= k THEN a[i] ELSE b[i - k]
  BY <1>1, <1>2, ConcatProperties
<1>4. DOMAIN (a \o b) = 1 .. k + l
  BY <1>3, LenProperties
<1>5. ASSUME NEW i \in 1 .. k PROVE i \in 1 .. k + l /\ (a \o b)[i] = a[i]
  <2>1. i \in 1 .. k + l /\ i <= k
    OBVIOUS
  <2> QED BY <1>3, <2>1
<1>6. ASSUME NEW j \in 1 .. l PROVE k + j \in 1 .. k + l /\ (a \o b)[k + j] = b[j]
  <2>1. k + j \in 1 .. k + l /\ ~(k + j <= k) /\ (k + j) - k = j
    OBVIOUS
  <2> QED BY <1>3, <2>1
<1> QED BY <1>1, <1>2, <1>3, <1>4, <1>5, <1>6

\* A sequence cut in two: its parts are made of what it is made of, and repeat
\* nothing if it does not.
LEMMA PartsOf ==
  ASSUME NEW S, NEW T, NEW a \in Seq(S), NEW b \in Seq(S), a \o b \in Seq(T)
  PROVE  /\ a \in Seq(T) /\ b \in Seq(T)
         /\ Distinct(a \o b) => Distinct(b)
<1>1. PICK k \in Nat : k = Len(a) /\ DOMAIN a = 1 .. k
  BY Together
<1>2. PICK l \in Nat : l = Len(b) /\ DOMAIN b = 1 .. l
  BY Together
<1>3. /\ DOMAIN (a \o b) = 1 .. k + l /\ Len(a \o b) = k + l
      /\ \A i \in 1 .. k : i \in 1 .. k + l /\ (a \o b)[i] = a[i]
      /\ \A j \in 1 .. l : k + j \in 1 .. k + l /\ (a \o b)[k + j] = b[j]
  BY <1>1, <1>2, Together
<1>4. \A i \in 1 .. k + l : (a \o b)[i] \in T
  BY <1>3, ElementOfSeq
<1>5. a \in Seq(T) /\ b \in Seq(T)
  BY <1>1, <1>2, <1>3, <1>4, SeqOf
<1>6. ASSUME Distinct(a \o b), NEW n \in 1 .. l, NEW m \in 1 .. n - 1 PROVE b[m] # b[n]
  <2>1. m \in 1 .. l /\ k + m \in 1 .. (k + n) - 1
    OBVIOUS
  <2>2. (a \o b)[k + m] # (a \o b)[k + n]
    BY <1>3, <1>6, <2>1 DEF Distinct
  <2> QED BY <1>3, <2>1, <2>2
<1> QED BY <1>2, <1>5, <1>6 DEF Distinct

Associative(a, b, c) == (a \o b) \o c = a \o (b \o c)

LEMMA Associate ==
  ASSUME NEW S, NEW a \in Seq(S), NEW b \in Seq(S), NEW c \in Seq(S)
  PROVE  Associative(a, b, c)
BY ConcatAssociative DEF Associative

\* Two sequences that have no byte in common.
LEMMA DistinctConcat ==
  ASSUME NEW S, NEW a \in Seq(S), NEW b \in Seq(S), Distinct(a), Distinct(b),
         \A i \in DOMAIN a, j \in DOMAIN b : a[i] # b[j]
  PROVE  Distinct(a \o b)
<1>1. PICK k \in Nat : k = Len(a) /\ DOMAIN a = 1 .. k
  BY Together
<1>2. PICK l \in Nat : l = Len(b) /\ DOMAIN b = 1 .. l
  BY Together
<1>3. /\ \A i \in 1 .. k : (a \o b)[i] = a[i]
      /\ \A j \in 1 .. l : (a \o b)[k + j] = b[j]
  BY <1>1, <1>2, Together
<1>4. DOMAIN (a \o b) = 1 .. k + l
  BY <1>1, <1>2, Together
<1> SUFFICES ASSUME NEW n \in 1 .. k + l, NEW m \in 1 .. n - 1 PROVE (a \o b)[m] # (a \o b)[n]
  BY <1>4 DEF Distinct
<1>5. CASE n \in 1 .. k
  <2>1. m \in 1 .. k
    BY <1>5
  <2> QED BY <1>1, <1>3, <1>5, <2>1 DEF Distinct
<1>6. CASE n \notin 1 .. k
  <2>1. PICK i \in 1 .. l : n = k + i
    <3>1. n - k \in 1 .. l /\ n = k + (n - k)
      BY <1>6
    <3> QED BY <3>1
  <2>2. CASE m \in 1 .. k
    BY <1>1, <1>2, <1>3, <2>1, <2>2
  <2>3. CASE m \notin 1 .. k
    <3>1. PICK j \in 1 .. i - 1 : m = k + j
      <4>1. m - k \in 1 .. i - 1 /\ m = k + (m - k)
        BY <2>1, <2>3
      <4> QED BY <4>1
    <3>2. b[j] # b[i] /\ j \in 1 .. l
      BY <1>2, <2>1, <3>1 DEF Distinct
    <3> QED BY <1>3, <2>1, <3>1, <3>2
  <2> QED BY <2>2, <2>3
<1> QED BY <1>5, <1>6

\* In bytes, commands start in order, and are srv's by the record d.
InStartOrder(bytes, d, srv) ==
  \A n \in DOMAIN bytes :
    bytes[n][2] = 1 =>
      /\ d[bytes[n][1]] = srv
      /\ \A m \in 1 .. n - 1 : bytes[m][2] = 1 => bytes[m][1] < bytes[n][1]

\* After bytes in order come bytes among which at most the first starts a
\* command, and one that is later than those before.
LEMMA StartsAfter ==
  ASSUME NEW S, NEW a \in Seq(S), NEW b \in Seq(S), NEW d, NEW srv, NEW c,
         InStartOrder(a, d, srv),
         \A i \in DOMAIN a : a[i][1] < c,
         \A j \in DOMAIN b : b[j][2] = 1 => j = 1 /\ b[j][1] = c /\ d[c] = srv
  PROVE  InStartOrder(a \o b, d, srv)
<1>1. PICK k \in Nat : k = Len(a) /\ DOMAIN a = 1 .. k
  BY Together
<1>2. PICK l \in Nat : l = Len(b) /\ DOMAIN b = 1 .. l
  BY Together
<1>3. /\ \A i \in 1 .. k : (a \o b)[i] = a[i]
      /\ \A j \in 1 .. l : (a \o b)[k + j] = b[j]
  BY <1>1, <1>2, Together
<1>4. DOMAIN (a \o b) = 1 .. k + l
  BY <1>1, <1>2, Together
<1> SUFFICES ASSUME NEW n \in 1 .. k + l, (a \o b)[n][2] = 1
             PROVE  /\ d[(a \o b)[n][1]] = srv
                    /\ \A m \in 1 .. n - 1 : (a \o b)[m][2] = 1 => (a \o b)[m][1] < (a \o b)[n][1]
  BY <1>4 DEF InStartOrder
<1>5. CASE n \in 1 .. k
  <2>1. \A m \in 1 .. n - 1 : m \in 1 .. k
    BY <1>5
  <2>2. (a \o b)[n] = a[n] /\ \A m \in 1 .. n - 1 : (a \o b)[m] = a[m]
    BY <1>3, <1>5, <2>1
  <2> QED BY <1>1, <1>5, <2>1, <2>2 DEF InStartOrder
<1>6. CASE n \notin 1 .. k
  <2>1. PICK j \in 1 .. l : n = k + j
    <3>1. n - k \in 1 .. l /\ n = k + (n - k)
      BY <1>6
    <3> QED BY <3>1
  <2>2. (a \o b)[n] = b[j]
    BY <1>3, <2>1
  <2>3. j = 1 /\ b[j][1] = c /\ d[c] = srv
    BY <1>2, <2>2
  <2>4. \A m \in 1 .. n - 1 : m \in 1 .. k
    BY <2>1, <2>3
  <2>5. \A m \in 1 .. n - 1 : (a \o b)[m] = a[m] /\ a[m][1] < c
    BY <1>1, <1>3, <2>4
  <2> QED BY <2>2, <2>3, <2>5
<1> QED BY <1>5, <1>6

\* Whole commands after whole commands that are earlier.
LEMMA WholeConcat ==
  ASSUME NEW S, NEW a \in Seq(S), NEW b \in Seq(S), Whole(a), Whole(b),
         \A i \in DOMAIN a, j \in DOMAIN b : a[i][1] < b[j][1]
  PROVE  Whole(a \o b)
<1>1. PICK k \in Nat : k = Len(a) /\ DOMAIN a = 1 .. k
  BY LenProperties
<1>2. PICK l \in Nat : l = Len(b) /\ DOMAIN b = 1 .. l
  BY LenProperties
<1>3. CASE k = 0 \/ l = 0
  <2>1. a = << >> \/ b = << >>
    BY <1>1, <1>2, <1>3, EmptySeq
  <2> QED BY <2>1, ConcatEmptySeq
<1>4. CASE k > 0 /\ l > 0
  <2>1. /\ Len(a \o b) = k + l
        /\ \A i \in 1 .. k : (a \o b)[i] = a[i]
        /\ \A j \in 1 .. l : (a \o b)[k + j] = b[j]
    BY <1>1, <1>2, Together
  <2>2. a # << >> /\ b # << >>
    BY <1>1, <1>2, <1>4, EmptySeq
  <2>3. /\ a[1][2] = 1 /\ a[k][2] = CmdLen
        /\ \A n \in 1 .. k - 1 :
             \/ a[n + 1] = <<a[n][1], a[n][2] + 1>>
             \/ a[n][2] = CmdLen /\ a[n + 1][2] = 1 /\ a[n][1] < a[n + 1][1]
    BY <1>1, <2>2 DEF Whole
  <2>4. /\ b[1][2] = 1 /\ b[l][2] = CmdLen
        /\ \A n \in 1 .. l - 1 :
             \/ b[n + 1] = <<b[n][1], b[n][2] + 1>>
             \/ b[n][2] = CmdLen /\ b[n + 1][2] = 1 /\ b[n][1] < b[n + 1][1]
    BY <1>2, <2>2 DEF Whole
  <2>5. (a \o b)[1] = a[1] /\ (a \o b)[k + l] = b[l]
    <3>1. 1 \in 1 .. k /\ l \in 1 .. l
      BY <1>4
    <3> QED BY <2>1, <3>1
  <2>6. ASSUME NEW n \in 1 .. (k + l) - 1
        PROVE  \/ (a \o b)[n + 1] = <<(a \o b)[n][1], (a \o b)[n][2] + 1>>
               \/ /\ (a \o b)[n][2] = CmdLen /\ (a \o b)[n + 1][2] = 1
                  /\ (a \o b)[n][1] < (a \o b)[n + 1][1]
    <3>1. CASE n < k
      <4>1. n \in 1 .. k /\ n + 1 \in 1 .. k /\ n \in 1 .. k - 1
        BY <3>1
      <4>2. (a \o b)[n] = a[n] /\ (a \o b)[n + 1] = a[n + 1]
        BY <2>1, <4>1
      <4> QED BY <2>3, <4>1, <4>2
    <3>2. CASE n = k
      <4>1. n \in 1 .. k /\ 1 \in 1 .. l
        BY <1>4, <3>2
      <4>2. (a \o b)[n] = a[k] /\ (a \o b)[n + 1] = b[1]
        BY <2>1, <3>2, <4>1
      <4>3. a[k][1] < b[1][1]
        BY <1>1, <1>2, <3>2, <4>1
      <4> QED BY <2>3, <2>4, <4>2, <4>3
    <3>3. CASE n > k
      <4>1. PICK j \in 1 .. l - 1 : n = k + j
        <5>1. n - k \in 1 .. l - 1 /\ n = k + (n - k)
          BY <3>3
        <5> QED BY <5>1
      <4>2. j \in 1 .. l /\ j + 1 \in 1 .. l /\ n + 1 = k + (j + 1)
        BY <4>1
      <4>3. (a \o b)[n] = b[j] /\ (a \o b)[n + 1] = b[j + 1]
        BY <2>1, <4>1, <4>2
      <4>4. \/ b[j + 1] = <<b[j][1], b[j][2] + 1>>
            \/ b[j][2] = CmdLen /\ b[j + 1][2] = 1 /\ b[j][1] < b[j + 1][1]
        BY <2>4, <4>1
      <4>5. CASE b[j + 1] = <<b[j][1], b[j][2] + 1>>
        BY <4>3, <4>5, Zenon
      <4>6. CASE b[j][2] = CmdLen /\ b[j + 1][2] = 1 /\ b[j][1] < b[j + 1][1]
        BY <4>3, <4>6, Zenon
      <4> QED BY <4>4, <4>5, <4>6
    <3>4. n < k \/ n = k \/ n > k
      OBVIOUS
    <3> QED BY <3>1, <3>2, <3>3, <3>4
  <2>7. (a \o b)[1][2] = 1 /\ (a \o b)[k + l][2] = CmdLen
    BY <2>3, <2>4, <2>5
  <2> QED BY <2>1, <2>6, <2>7 DEF Whole
<1> QED BY <1>3, <1>4

-----------------------------------------------------------------------------
(* The next command, sent over what is cached *)

LEMMA BytesOf ==
  ASSUME ClientAssumption, NEW i \in Nat \ {0}
  PROVE  /\ Bytes(i) \in Seq(SentBytes(i)) /\ Len(Bytes(i)) = CmdLen
         /\ \A k \in 1 .. CmdLen : Bytes(i)[k] = <<i, k>>
         /\ Whole(Bytes(i))
<1>1. CmdLen \in Nat \ {0}
  BY DEF ClientAssumption
<1>2. Bytes(i) \in [1 .. CmdLen -> SentBytes(i)]
  BY <1>1 DEF Bytes, SentBytes
<1>3. Bytes(i) \in Seq(SentBytes(i))
  BY <1>1, <1>2, SeqDef
<1>4. Len(Bytes(i)) = CmdLen /\ \A k \in 1 .. CmdLen : Bytes(i)[k] = <<i, k>>
  <2>1. DOMAIN Bytes(i) = 1 .. CmdLen /\ \A k \in 1 .. CmdLen : Bytes(i)[k] = <<i, k>>
    BY DEF Bytes
  <2>2. DOMAIN Bytes(i) = 1 .. Len(Bytes(i)) /\ Len(Bytes(i)) \in Nat
    BY <1>3, LenProperties
  <2> QED BY <1>1, <2>1, <2>2
<1>5. Whole(Bytes(i))
  <2>1. Bytes(i)[1] = <<i, 1>> /\ Bytes(i)[CmdLen] = <<i, CmdLen>>
    BY <1>1, <1>4
  <2>2. ASSUME NEW n \in 1 .. CmdLen - 1 PROVE Bytes(i)[n + 1] = <<Bytes(i)[n][1], Bytes(i)[n][2] + 1>>
    <3>1. n \in 1 .. CmdLen /\ n + 1 \in 1 .. CmdLen
      BY <1>1
    <3> QED BY <1>4, <3>1
  <2> QED BY <1>4, <2>1, <2>2 DEF Whole
<1> QED BY <1>3, <1>4, <1>5

\* Bytes cached of the commands taken are among the bytes of those and more.
LEMMA MoreBytes ==
  ASSUME NEW i \in Nat, NEW j \in Nat, i <= j
  PROVE  /\ SentBytes(i) \subseteq SentBytes(j) /\ KeptBytes(i) \subseteq KeptBytes(j)
         /\ KeptBytes(i) \subseteq SentBytes(i)
         /\ \A b \in KeptBytes(i) : b[1] <= i /\ b[2] # 1
         /\ \A b \in SentBytes(i) : b[1] \in 1 .. i /\ b[1] <= i /\ b[1] < i + 1
<1>1. 1 .. i \subseteq 1 .. j /\ 2 .. CmdLen \subseteq 1 .. CmdLen
  OBVIOUS
<1>2. \A k \in 2 .. CmdLen : k # 1
  OBVIOUS
<1>3. \A k \in 1 .. i : k <= i /\ k < i + 1
  OBVIOUS
<1> QED BY <1>1, <1>2, <1>3 DEF SentBytes, KeptBytes

\* What is left of command i when its first m bytes are written.
LEMMA RestOf ==
  ASSUME ClientAssumption, NEW i \in Nat \ {0}, NEW m \in 0 .. CmdLen
  PROVE  /\ Front(Bytes(i), m) \in Seq(SentBytes(i)) /\ Skip(Bytes(i), m) \in Seq(SentBytes(i))
         /\ Len(Front(Bytes(i), m)) = m /\ Len(Skip(Bytes(i), m)) = CmdLen - m
         /\ Front(Bytes(i), m) \o Skip(Bytes(i), m) = Bytes(i)
         /\ \A n \in DOMAIN Front(Bytes(i), m) : Front(Bytes(i), m)[n] = <<i, n>>
         /\ m > 0 => Skip(Bytes(i), m) \in Seq(KeptBytes(i))
         /\ \A n \in DOMAIN Skip(Bytes(i), m) : Skip(Bytes(i), m)[n] = <<i, m + n>>
         /\ Distinct(Skip(Bytes(i), m))
<1>1. CmdLen \in Nat \ {0} /\ m \in Nat /\ m <= CmdLen
  BY DEF ClientAssumption
<1>2. /\ Bytes(i) \in Seq(SentBytes(i)) /\ Len(Bytes(i)) = CmdLen
      /\ \A k \in 1 .. CmdLen : Bytes(i)[k] = <<i, k>>
  BY BytesOf
<1>3. /\ Front(Bytes(i), m) \in Seq(SentBytes(i)) /\ Skip(Bytes(i), m) \in Seq(SentBytes(i))
      /\ Len(Front(Bytes(i), m)) = m /\ Len(Skip(Bytes(i), m)) = CmdLen - m
      /\ \A n \in 1 .. m : Front(Bytes(i), m)[n] = Bytes(i)[n]
      /\ \A n \in 1 .. CmdLen - m : Skip(Bytes(i), m)[n] = Bytes(i)[m + n]
      /\ Front(Bytes(i), m) \o Skip(Bytes(i), m) = Bytes(i)
  <2>1. PICK S, c : S = SentBytes(i) /\ c = Bytes(i)
    OBVIOUS
  <2>2. c \in Seq(S) /\ m \in 0 .. Len(c)
    BY <1>2, <2>1
  <2>3. /\ Front(c, m) \in Seq(S) /\ Skip(c, m) \in Seq(S)
        /\ Len(Front(c, m)) = m /\ Len(Skip(c, m)) = Len(c) - m
        /\ \A n \in 1 .. m : Front(c, m)[n] = c[n]
        /\ \A n \in 1 .. Len(c) - m : Skip(c, m)[n] = c[m + n]
        /\ Front(c, m) \o Skip(c, m) = c
    BY <2>2, CutInTwo
  <2> QED BY <1>2, <2>1, <2>3
<1>4. DOMAIN Front(Bytes(i), m) = 1 .. m /\ DOMAIN Skip(Bytes(i), m) = 1 .. CmdLen - m
  BY <1>3, LenProperties
<1>5. ASSUME NEW n \in 1 .. m PROVE Front(Bytes(i), m)[n] = <<i, n>>
  <2>1. n \in 1 .. CmdLen
    BY <1>1
  <2> QED BY <1>2, <1>3, <2>1
<1>6. ASSUME NEW n \in 1 .. CmdLen - m PROVE Skip(Bytes(i), m)[n] = <<i, m + n>> /\ m + n \in 1 .. CmdLen
  <2>1. m + n \in 1 .. CmdLen
    BY <1>1
  <2> QED BY <1>2, <1>3, <2>1
<1>7. ASSUME m > 0 PROVE Skip(Bytes(i), m) \in Seq(KeptBytes(i))
  <2>1. ASSUME NEW n \in 1 .. CmdLen - m PROVE <<i, m + n>> \in KeptBytes(i)
    <3>1. m + n \in 2 .. CmdLen /\ i \in 1 .. i
      BY <1>1, <1>7
    <3> QED BY <3>1 DEF KeptBytes
  <2>2. \A n \in 1 .. CmdLen - m : Skip(Bytes(i), m)[n] \in KeptBytes(i)
    BY <1>6, <2>1
  <2> QED BY <1>3, <2>2, SeqOf
<1>8. Distinct(Skip(Bytes(i), m))
  <2>1. ASSUME NEW n \in 1 .. CmdLen - m, NEW k \in 1 .. n - 1
        PROVE  Skip(Bytes(i), m)[k] # Skip(Bytes(i), m)[n]
    <3>1. k \in 1 .. CmdLen - m /\ m + k # m + n
      BY <1>1
    <3> QED BY <1>6, <3>1
  <2> QED BY <1>4, <2>1 DEF Distinct
<1> QED BY <1>3, <1>4, <1>5, <1>6, <1>7, <1>8

\* What send_data does with this command: either it writes bytes of the cache
\* only, or it writes all of the cache and then bytes of the command.
Outcome(o, t, cache) ==
  \/ /\ o.out \in Seq(KeptBytes(t)) /\ o.cache \in Seq(KeptBytes(t)) /\ Distinct(o.cache)
     /\ cache = << >> => o.out = << >> /\ o.cache = << >>
  \/ \E m \in 0 .. CmdLen : CacheThen(o, cache, Bytes(t + 1), m)

LEMMA SendOutcome ==
  ASSUME ClientAssumption, NEW t \in Nat, NEW cache \in Seq(KeptBytes(t)), Distinct(cache),
         NEW room \in Nat,
         NEW o \in SendData(cache, Bytes(t + 1), room) \cup SendErrors(cache, room)
  PROVE  Outcome(o, t, cache) /\ Len(o.out) <= room
<1> DEFINE cmd == Bytes(t + 1)
           K == KeptBytes(t)
           S == SentBytes(t + 1)
<1>1. t + 1 \in Nat \ {0} /\ t <= t + 1
  OBVIOUS
<1>2. cmd \in Seq(S) /\ Len(cmd) = CmdLen
  BY <1>1, BytesOf
<1>3. K \subseteq S
  <2>1. K \subseteq KeptBytes(t + 1) /\ KeptBytes(t + 1) \subseteq S
    BY <1>1, MoreBytes
  <2> QED BY <2>1
<1>4. cache \in Seq(S)
  BY <1>3
<1> HIDE DEF cmd, K, S
<1>5. CASE o \in SendData(cache, cmd, room)
  <2>1. /\ o.out \in Seq(S) /\ o.cache \in Seq(S) /\ Len(o.out) <= room
        /\ OnlyCache(o, cache) \/ \E m \in 0 .. Len(cmd) : CacheThen(o, cache, cmd, m)
    BY <1>2, <1>4, <1>5, SendDataWrites
  <2>2. CASE OnlyCache(o, cache)
    <3>1. o.out \in Seq(K) /\ o.cache \in Seq(K) /\ Distinct(o.cache)
      <4>1. o.out \o o.cache \in Seq(K) /\ Distinct(o.out \o o.cache)
        BY <2>2 DEF OnlyCache, K
      <4> QED BY <2>1, <4>1, PartsOf
    <3>2. cache # << >>
      <4>1. SUFFICES ASSUME cache = << >> PROVE FALSE
        OBVIOUS
      <4>2. Len(o.out \o o.cache) = Len(o.out) + Len(o.cache) /\ Len(o.out) \in Nat /\ Len(o.cache) \in Nat
        BY <2>1, Together
      <4>3. Len(o.out) = 0
        BY <2>2, <4>1, <4>2 DEF OnlyCache
      <4>4. o.out = << >>
        BY <2>1, <4>3, EmptySeq
      <4> QED BY <2>2, <4>1, <4>4 DEF OnlyCache
    <3> QED BY <2>1, <3>1, <3>2 DEF Outcome, K
  <2>3. CASE \E m \in 0 .. Len(cmd) : CacheThen(o, cache, cmd, m)
    BY <1>2, <2>1, <2>3 DEF Outcome, cmd
  <2> QED BY <2>1, <2>2, <2>3
<1>6. CASE o \in SendErrors(cache, room)
  <2>1. /\ o.out \in Seq(K) /\ o.cache \in Seq(K) /\ Len(o.out) <= room
        /\ \/ o.out = << >> /\ o.cache = << >>
           \/ o.out = cache /\ o.cache = cache
    BY <1>6, SendErrorsWrite DEF K
  <2>2. Distinct(<< >>)
    BY DEF Distinct
  <2> QED BY <2>1, <2>2 DEF Outcome, K
<1> QED BY <1>5, <1>6 DEF cmd

\* The bytes written and kept are bytes of the commands taken by then, and no
\* byte is kept twice.
LEMMA SendKeepsTypes ==
  ASSUME ClientAssumption, NEW t \in Nat, NEW cache \in Seq(KeptBytes(t)), Distinct(cache),
         NEW o, Outcome(o, t, cache)
  PROVE  o.out \in Seq(SentBytes(t + 1)) /\ o.cache \in Seq(KeptBytes(t + 1)) /\ Distinct(o.cache)
<1> DEFINE cmd == Bytes(t + 1)
<1>1. t + 1 \in Nat \ {0} /\ t <= t + 1 /\ CmdLen \in Nat
  BY DEF ClientAssumption
<1>2. /\ KeptBytes(t) \subseteq KeptBytes(t + 1) /\ KeptBytes(t + 1) \subseteq SentBytes(t + 1)
      /\ \A b \in KeptBytes(t) : b[1] <= t
  BY <1>1, MoreBytes
<1> HIDE DEF cmd
<1>3. CASE o.out \in Seq(KeptBytes(t)) /\ o.cache \in Seq(KeptBytes(t)) /\ Distinct(o.cache)
  BY <1>2, <1>3
<1>4. CASE \E m \in 0 .. CmdLen : CacheThen(o, cache, cmd, m)
  <2>1. PICK m \in 0 .. CmdLen :
             /\ o.out = cache \o Front(cmd, m)
             /\ o.cache = cache \/ (m > 0 /\ o.cache = cache \o Skip(cmd, m))
    BY <1>4 DEF CacheThen
  <2>2. /\ Front(cmd, m) \in Seq(SentBytes(t + 1))
        /\ m > 0 => Skip(cmd, m) \in Seq(KeptBytes(t + 1))
        /\ \A n \in DOMAIN Skip(cmd, m) : Skip(cmd, m)[n] = <<t + 1, m + n>>
        /\ Distinct(Skip(cmd, m))
    BY <1>1, RestOf DEF cmd
  <2>3. cache \in Seq(SentBytes(t + 1)) /\ cache \in Seq(KeptBytes(t + 1))
    BY <1>2
  <2>4. o.out \in Seq(SentBytes(t + 1))
    BY <2>1, <2>2, <2>3, Together
  <2>5. CASE o.cache = cache
    BY <2>3, <2>4, <2>5
  <2>6. CASE m > 0 /\ o.cache = cache \o Skip(cmd, m)
    <3>1. Skip(cmd, m) \in Seq(KeptBytes(t + 1)) /\ o.cache \in Seq(KeptBytes(t + 1))
      BY <2>2, <2>3, <2>6, Together
    <3>2. ASSUME NEW i \in DOMAIN cache, NEW j \in DOMAIN Skip(cmd, m) PROVE cache[i] # Skip(cmd, m)[j]
      <4>1. cache[i] \in KeptBytes(t)
        BY <3>2
      <4>2. cache[i][1] <= t /\ Skip(cmd, m)[j][1] = t + 1 /\ cache[i][1] \in Nat
        <5>1. Skip(cmd, m)[j] = <<t + 1, m + j>>
          BY <2>2, <3>2
        <5>2. cache[i][1] \in Nat
          BY <4>1 DEF KeptBytes
        <5> QED BY <1>2, <4>1, <5>1, <5>2
      <4>3. cache[i][1] # Skip(cmd, m)[j][1]
        <5>1. \A x \in Nat : x <= t => x # t + 1
          OBVIOUS
        <5> QED BY <4>2, <5>1
      <4> QED BY <4>3, Zenon
    <3>3. Distinct(cache \o Skip(cmd, m))
      BY <2>2, <2>3, <3>1, <3>2, DistinctConcat
    <3> QED BY <2>4, <2>6, <3>1, <3>3
  <2> QED BY <2>1, <2>5, <2>6
<1> QED BY <1>3, <1>4 DEF Outcome, cmd

\* Cached bytes start no command.
LEMMA KeptInOrder ==
  ASSUME NEW t \in Nat, NEW kept \in Seq(KeptBytes(t)), NEW sent \in Seq(SentBytes(t)),
         NEW d, NEW srv, InStartOrder(sent, d, srv)
  PROVE  InStartOrder(sent \o kept, d, srv)
<1> DEFINE S == SentBytes(t)
<1>1. /\ KeptBytes(t) \subseteq S
      /\ \A b \in KeptBytes(t) : b[2] # 1
      /\ \A b \in S : b[1] < t + 1
  BY MoreBytes
<1>2. kept \in Seq(S) /\ \A i \in DOMAIN sent : sent[i][1] < t + 1
  BY <1>1
<1>3. \A j \in DOMAIN kept : kept[j][2] = 1 => j = 1 /\ kept[j][1] = t + 1 /\ d[t + 1] = srv
  BY <1>1
<1> HIDE DEF S
<1> QED BY <1>2, <1>3, StartsAfter DEF S

\* The command starts after those started before, and on its own server.
LEMMA SendKeepsOrder ==
  ASSUME ClientAssumption, NEW t \in Nat, NEW cache \in Seq(KeptBytes(t)),
         NEW o, Outcome(o, t, cache),
         NEW sent \in Seq(SentBytes(t)), NEW d, NEW srv, InStartOrder(sent, d, srv), d[t + 1] = srv
  PROVE  InStartOrder(sent \o o.out, d, srv)
<1> DEFINE cmd == Bytes(t + 1)
           S == SentBytes(t + 1)
<1>1. t + 1 \in Nat \ {0} /\ t <= t + 1 /\ CmdLen \in Nat
  BY DEF ClientAssumption
<1>2. /\ SentBytes(t) \subseteq S /\ KeptBytes(t) \subseteq S
      /\ \A b \in KeptBytes(t) : b[1] <= t /\ b[2] # 1
      /\ \A b \in SentBytes(t) : b[1] < t + 1
  <2>1. /\ SentBytes(t) \subseteq S /\ KeptBytes(t) \subseteq KeptBytes(t + 1)
        /\ \A b \in KeptBytes(t) : b[1] <= t /\ b[2] # 1
        /\ \A b \in SentBytes(t) : b[1] < t + 1
    BY <1>1, MoreBytes
  <2>2. KeptBytes(t + 1) \subseteq S
    BY <1>1, MoreBytes
  <2> QED BY <2>1, <2>2
<1>3. sent \in Seq(S) /\ \A i \in DOMAIN sent : sent[i][1] < t + 1
  BY <1>2
<1>4. ASSUME NEW kept \in Seq(KeptBytes(t)) PROVE InStartOrder(sent \o kept, d, srv)
  BY KeptInOrder
<1>5. ASSUME NEW m \in 0 .. CmdLen, CacheThen(o, cache, cmd, m)
      PROVE  InStartOrder(sent \o o.out, d, srv)
  <2>1. /\ Front(cmd, m) \in Seq(S)
        /\ \A n \in DOMAIN Front(cmd, m) : Front(cmd, m)[n] = <<t + 1, n>>
    BY <1>1, RestOf
  <2>2. PICK written : written = sent \o cache
    OBVIOUS
  <2>3. sent \o o.out = written \o Front(cmd, m)
    <3>1. cache \in Seq(S)
      BY <1>2
    <3>2. sent \in Seq(S) /\ Front(cmd, m) \in Seq(S)
      BY <1>3, <2>1
    <3> HIDE DEF S, cmd
    <3>3. Associative(sent, cache, Front(cmd, m))
      BY <3>1, <3>2, Associate
    <3>4. o.out = cache \o Front(cmd, m)
      BY <1>5 DEF CacheThen
    <3> QED BY <2>2, <3>3, <3>4 DEF Associative
  <2>4. written \in Seq(SentBytes(t)) /\ InStartOrder(written, d, srv)
    <3>1. cache \in Seq(SentBytes(t))
      <4>1. KeptBytes(t) \subseteq SentBytes(t)
        BY MoreBytes
      <4> QED BY <4>1
    <3> QED BY <1>4, <2>2, <3>1, Together
  <2>5. written \in Seq(S) /\ \A i \in DOMAIN written : written[i][1] < t + 1
    BY <1>2, <2>4
  <2>6. \A j \in DOMAIN Front(cmd, m) :
          Front(cmd, m)[j][2] = 1 => j = 1 /\ Front(cmd, m)[j][1] = t + 1 /\ d[t + 1] = srv
    BY <2>1
  <2> HIDE DEF S, cmd
  <2>7. InStartOrder(written \o Front(cmd, m), d, srv)
    BY <2>1, <2>4, <2>5, <2>6, StartsAfter
  <2> QED BY <2>3, <2>7
<1> HIDE DEF S, cmd
<1>6. CASE o.out \in Seq(KeptBytes(t))
  BY <1>4, <1>6
<1> QED BY <1>5, <1>6 DEF Outcome, cmd

\* Sent over an empty cache, and not cut short without being kept, the command
\* comes as a whole after whole commands.
LEMMA SendKeepsWhole ==
  ASSUME ClientAssumption, NEW t \in Nat, NEW o, Outcome(o, t, << >>),
         ~(Len(o.out) \in 1 .. CmdLen - 1 /\ o.cache = << >>),
         NEW sent \in Seq(SentBytes(t)), Whole(sent)
  PROVE  Whole((sent \o o.out) \o o.cache)
<1> DEFINE cmd == Bytes(t + 1)
           S == SentBytes(t + 1)
<1>1. t + 1 \in Nat \ {0} /\ t <= t + 1 /\ CmdLen \in Nat \ {0}
  BY DEF ClientAssumption
<1>2. sent \in Seq(S) /\ \A i \in DOMAIN sent : sent[i][1] < t + 1
  <2>1. SentBytes(t) \subseteq S /\ \A b \in SentBytes(t) : b[1] < t + 1
    BY <1>1, MoreBytes
  <2> QED BY <2>1
<1>3. cmd \in Seq(S) /\ Whole(cmd) /\ Len(cmd) = CmdLen /\ \A j \in 1 .. CmdLen : cmd[j] = <<t + 1, j>>
  BY <1>1, BytesOf
<1>4. << >> \in Seq(S)
  OBVIOUS
<1>5. Whole(sent \o cmd)
  <2>1. DOMAIN cmd = 1 .. CmdLen
    BY <1>3, LenProperties
  <2>2. \A i \in DOMAIN sent, j \in DOMAIN cmd : sent[i][1] < cmd[j][1]
    BY <1>2, <1>3, <2>1
  <2> HIDE DEF S, cmd
  <2> QED BY <1>2, <1>3, <2>2, WholeConcat
<1> HIDE DEF S, cmd
<1>6. CASE o.out = << >> /\ o.cache = << >>
  BY <1>2, <1>6, ConcatEmptySeq
<1>7. ASSUME NEW m \in 0 .. CmdLen, CacheThen(o, << >>, cmd, m)
      PROVE  Whole((sent \o o.out) \o o.cache)
  <2>1. /\ Front(cmd, m) \in Seq(S) /\ Skip(cmd, m) \in Seq(S)
        /\ Len(Front(cmd, m)) = m /\ Len(Skip(cmd, m)) = CmdLen - m
        /\ Front(cmd, m) \o Skip(cmd, m) = cmd
    BY <1>1, RestOf DEF S, cmd
  <2>2. o.out = Front(cmd, m) /\ (o.cache = << >> \/ (m > 0 /\ o.cache = Skip(cmd, m)))
    <3>1. << >> \o Front(cmd, m) = Front(cmd, m) /\ << >> \o Skip(cmd, m) = Skip(cmd, m)
      BY <2>1, ConcatEmptySeq
    <3> QED BY <1>7, <3>1 DEF CacheThen
  <2>3. (sent \o Front(cmd, m)) \o Skip(cmd, m) = sent \o cmd
    <3>1. sent \in Seq(S) /\ Front(cmd, m) \in Seq(S) /\ Skip(cmd, m) \in Seq(S)
      BY <1>2, <2>1
    <3>2. Associative(sent, Front(cmd, m), Skip(cmd, m))
      BY <3>1, Associate
    <3> QED BY <2>1, <3>2 DEF Associative
  <2>4. CASE o.cache = Skip(cmd, m)
    BY <1>5, <2>2, <2>3, <2>4
  <2>5. CASE o.cache = << >> /\ m = 0
    <3>1. o.out = << >>
      BY <2>1, <2>2, <2>5, EmptySeq
    <3> QED BY <1>6, <2>5, <3>1
  <2>6. CASE o.cache = << >> /\ m = CmdLen
    <3>1. Skip(cmd, m) = << >>
      BY <1>1, <2>1, <2>6, EmptySeq
    <3> QED BY <2>4, <2>6, <3>1
  <2>7. m \in 1 .. CmdLen - 1 => o.cache # << >>
    BY <2>1, <2>2
  <2>8. m = 0 \/ m = CmdLen \/ m \in 1 .. CmdLen - 1
    BY <1>1
  <2> QED BY <2>2, <2>4, <2>5, <2>6, <2>7, <2>8
<1> QED BY <1>6, <1>7 DEF Outcome, cmd

-----------------------------------------------------------------------------
(* The inductive invariant *)

ControlType ==
  /\ hosts \subseteq Servers
  /\ pc \in {"init", "queue", "wait", "events", "closing", "failed"}
  /\ DOMAIN evs \subseteq Servers
  /\ \A s \in DOMAIN evs : evs[s] \subseteq {"in", "out"}
  /\ fd \in [Servers -> Fds \cup {NoFd}]
  /\ owner \in [Fds -> Servers \cup Others \cup {"free"}]
  /\ theirs \in [Others -> Fds \cup {NoFd}]
  /\ breaks \in 0 .. MaxBreaks
  /\ robbed \in BOOLEAN

SocketsOk == sock \in [Servers -> Socket] /\ \A s \in Servers : sock[s].ready => sock[s].watched

ContentType ==
  /\ dest \in Seq(Servers \cup {NoServer}) /\ Len(dest) <= MaxCmds
  /\ taken \in 0 .. Len(dest)
  /\ sc \in [Servers -> Seq(KeptBytes(taken))]
  /\ \A s \in Servers : Distinct(sc[s])
  /\ wire \in [Servers -> Seq(SentBytes(taken))]
  /\ torn \in [Servers -> BOOLEAN]

\* The socket whose descriptor is closed but still in s->fd.
Stale(s) == pc = "closing" /\ s \in DOMAIN evs /\ evs[s] = {}

\* Events are kept only while they are served, and of sockets that have a
\* descriptor.  Those of a socket are none only when its descriptor is stale,
\* which one at most is.
EventsOk ==
  /\ pc \notin {"events", "closing"} => DOMAIN evs = {}
  /\ \A s \in DOMAIN evs : fd[s] # NoFd
  /\ pc = "events" => \A s \in DOMAIN evs : evs[s] # {}
  /\ pc = "closing" => \E s \in DOMAIN evs : \A t \in DOMAIN evs : evs[t] = {} <=> t = s

WatchedIsOpen == \A s \in Servers : sock[s].watched => fd[s] # NoFd

NoneLeaked == \A f \in Fds : owner[f] \in Servers => fd[owner[f]] = f

\* As long as no other thread was robbed of a descriptor: the dispatch thread
\* has its own, but for a stale one, that another thread may have by now and
\* another socket can't; and so have the other threads.
HasItsOwn == \A s \in Servers : fd[s] # NoFd => Behind(s) = s \/ Stale(s)

StaleOk == \A s \in Servers : Stale(s) => Behind(s) \in Others \cup {"free"}

TheyHaveTheirs == \A o \in Others : theirs[o] # NoFd => owner[theirs[o]] = o

\* Before the thread is created nothing is sent.
NothingYet == pc = "init" => \A s \in Servers : wire[s] = << >> /\ sc[s] = << >>

AllInOrder == \A s \in Servers : InStartOrder(wire[s], dest, s)

AllWhole == \A s \in Servers : fd[s] # NoFd /\ ~torn[s] => Whole(wire[s] \o sc[s])

\* The descriptors, the events and the sockets, whatever happened; whose the
\* descriptors are; and what the bytes are.
Control == ControlType /\ SocketsOk /\ EventsOk /\ WatchedIsOpen /\ NoneLeaked
Owned == HasItsOwn /\ StaleOk /\ TheyHaveTheirs
Content == NothingYet /\ AllInOrder /\ AllWhole

IInv == Control /\ ContentType /\ (~robbed => Owned /\ Content)

\* The names of what has a descriptor differ.
LEMMA Names ==
  ASSUME ClientAssumption
  PROVE  /\ "free" \notin Servers /\ "free" \notin Others
         /\ NoServer \notin Servers /\ NoFd \notin Fds
         /\ \A s \in Servers : s \notin Others
BY DEF ClientAssumption, NoServer, NoFd

LEMMA Initially ==
  ASSUME ClientAssumption, Init
  PROVE  IInv
<1>1. 0 \in 0 .. SndBuf /\ 0 \in 0 .. MaxBreaks /\ 0 <= MaxCmds
  BY DEF ClientAssumption
<1>2. ControlType /\ SocketsOk
  <2>1. ControlType
    <3>0. DOMAIN << >> = {}
      BY EmptySeq, LenProperties
    <3>1. DOMAIN evs = {} /\ robbed \in BOOLEAN
      BY <3>0, Zenon DEF Init
    <3>2. owner \in [Fds -> Servers \cup Others \cup {"free"}]
      BY DEF Init
    <3> QED BY <1>1, <3>1, <3>2 DEF Init, ControlType
  <2>2. SocketsOk
    BY <1>1 DEF Init, SocketsOk, Closed, Connected, Socket
  <2> QED BY <2>1, <2>2
<1>3. EventsOk /\ WatchedIsOpen /\ NoneLeaked
  BY <1>2, Names DEF Init, EventsOk, WatchedIsOpen, NoneLeaked, Closed, Connected, ControlType
<1>4. Owned
  BY DEF Init, Owned, HasItsOwn, StaleOk, Stale, TheyHaveTheirs
<1>5. /\ << >> \in Seq(Servers \cup {NoServer}) /\ << >> \in Seq(KeptBytes(0))
      /\ << >> \in Seq(SentBytes(0)) /\ Len(<< >>) = 0
  OBVIOUS
<1>6. ContentType
  BY <1>1, <1>5 DEF Init, ContentType, Distinct
<1>7. Content
  BY DEF Init, Content, NothingYet, AllInOrder, InStartOrder, AllWhole
<1> QED BY <1>2, <1>3, <1>4, <1>6, <1>7 DEF IInv, Control

\* The kernel gives out a free descriptor.
LEMMA LowestIsFree ==
  ASSUME ClientAssumption, NEW own, FreeFds(own) # {}
  PROVE  LowestFree(own) \in Fds /\ own[LowestFree(own)] = "free" /\ LowestFree(own) # NoFd
<1> DEFINE R == OpToRel(<, Nat)
<1>1. FreeFds(own) \subseteq Nat
  BY DEF ClientAssumption, FreeFds
<1>2. PICK x \in FreeFds(own) : \A y \in FreeFds(own) : ~(<<y, x>> \in R)
  BY <1>1, NatLessThanWellFounded, WFMin
<1>3. ASSUME NEW y \in FreeFds(own), y < x PROVE FALSE
  <2>1. <<y, x>> \in Nat \X Nat /\ <<y, x>>[1] < <<y, x>>[2]
    BY <1>1, <1>3
  <2>2. <<y, x>> \in R
    BY <2>1, Zenon DEF OpToRel
  <2> QED BY <1>2, <2>2
<1>4. \A y \in FreeFds(own) : x <= y
  BY <1>1, <1>3
<1>5. LowestFree(own) \in FreeFds(own)
  BY <1>4 DEF LowestFree
<1> QED BY <1>1, <1>5 DEF FreeFds, NoFd

-----------------------------------------------------------------------------
(* Steps on descriptors, events and sockets, whatever the numbers have become *)

\* No descriptor is opened or closed, and no socket registered.
LEMMA KeptStep ==
  ASSUME Control, UNCHANGED <<fd, owner>>, ControlType', SocketsOk', EventsOk',
         \A s \in Servers : sock'[s].watched = sock[s].watched
  PROVE  Control'
BY DEF Control, WatchedIsOpen, NoneLeaked

\* The thread stays where it is, too, and so do its events.
LEMMA StandingStep ==
  ASSUME Control, UNCHANGED <<hosts, pc, evs, fd, owner, theirs, robbed>>,
         breaks' \in 0 .. MaxBreaks, SocketsOk',
         \A s \in Servers : sock'[s].watched = sock[s].watched
  PROVE  Control'
<1>1. ControlType' /\ EventsOk'
  BY DEF Control, ControlType, EventsOk
<1> QED BY <1>1, KeptStep

\* After the event of s is served.
LEMMA ServedStep ==
  ASSUME Control, NEW s \in DOMAIN evs, Served(s), pc \in {"events", "closing"},
         \A t \in DOMAIN evs \ {s} : evs[t] # {},
         UNCHANGED <<hosts, breaks, theirs>>, robbed' \in BOOLEAN,
         fd' \in [Servers -> Fds \cup {NoFd}], owner' \in [Fds -> Servers \cup Others \cup {"free"}],
         \A t \in Servers \ {s} : fd'[t] = fd[t]
  PROVE  ControlType' /\ EventsOk' /\ pc' # "closing"
<1>1. /\ pc' \in {"queue", "events"}
      /\ pc' = "queue" => DOMAIN evs' = {}
      /\ DOMAIN evs' = DOMAIN evs \ {s} /\ \A t \in DOMAIN evs' : evs'[t] = evs[t]
  BY DEF Served
<1>2. DOMAIN evs \subseteq Servers /\ \A t \in DOMAIN evs : evs[t] \subseteq {"in", "out"}
  BY DEF Control, ControlType
<1>3. ControlType'
  BY <1>1, <1>2 DEF ControlType, Control
<1>4. EventsOk'
  <2>1. \A t \in DOMAIN evs' : fd'[t] # NoFd /\ evs'[t] # {}
    BY <1>1, <1>2 DEF Control, EventsOk
  <2> QED BY <1>1, <2>1 DEF EventsOk
<1> QED BY <1>1, <1>3, <1>4

LEMMA Fits ==
  ASSUME NEW max \in Nat, NEW x \in 0 .. max, NEW n \in Nat, n <= max - x
  PROVE  x + n \in 0 .. max
OBVIOUS

\* The socket of s changes, but not whether epoll watches it.
LEMMA SocketChanges ==
  ASSUME SocketsOk, NEW s \in Servers, NEW k \in Socket, sock' = [sock EXCEPT ![s] = k],
         k.ready => k.watched, k.watched = sock[s].watched
  PROVE  SocketsOk' /\ \A t \in Servers : sock'[t].watched = sock[t].watched
<1>1. /\ sock' \in [Servers -> Socket] /\ sock'[s] = k
      /\ \A t \in Servers \ {s} : sock'[t] = sock[t]
  BY DEF SocketsOk
<1> QED BY <1>1 DEF SocketsOk

\* Connections are closed.
LEMMA SocketsLost ==
  ASSUME ClientAssumption, SocketsOk, NEW lost, Lose(lost)
  PROVE  /\ SocketsOk'
         /\ \A t \in Servers : sock'[t].watched => t \notin lost /\ sock[t].watched
<1>1. Closed \in Socket /\ ~Closed.watched /\ ~Closed.ready
  BY DEF Closed, Connected, Socket, ClientAssumption
<1>2. sock' = [t \in Servers |-> IF t \in lost THEN Closed ELSE sock[t]]
  BY DEF Lose
<1>3. \A t \in Servers : sock'[t] = IF t \in lost THEN Closed ELSE sock[t]
  BY <1>2
<1>4. sock' \in [Servers -> Socket]
  BY <1>1, <1>2 DEF SocketsOk
<1> QED BY <1>1, <1>3, <1>4 DEF SocketsOk

LEMMA StartControl ==
  ASSUME Control, StartThread \/ AddFails
  PROVE  Control'
<1>1. /\ UNCHANGED <<hosts, fd, owner, theirs, robbed, sock, evs, breaks>>
      /\ pc = "init" /\ pc' \in {"queue", "failed"}
  BY DEF StartThread, AddFails, histories
<1>2. ControlType' /\ SocketsOk' /\ EventsOk'
  BY <1>1 DEF Control, ControlType, SocketsOk, EventsOk
<1> QED BY <1>1, <1>2, KeptStep

LEMMA QueueEmptyControl ==
  ASSUME Control, QueueEmpty
  PROVE  Control'
<1>1. /\ UNCHANGED <<hosts, fd, owner, theirs, robbed, sock, evs, breaks>>
      /\ pc = "queue" /\ pc' = "wait"
  BY DEF QueueEmpty, histories
<1>2. ControlType' /\ SocketsOk' /\ EventsOk'
  BY <1>1 DEF Control, ControlType, SocketsOk, EventsOk
<1> QED BY <1>1, <1>2, KeptStep

LEMMA PollControl ==
  ASSUME Control, Poll
  PROVE  Control'
<1> DEFINE woken == {s \in Servers : sock[s].ready /\ Mask(sock[s]) # {}}
<1>1. /\ UNCHANGED <<hosts, fd, owner, theirs, robbed, breaks>> /\ pc = "wait"
      /\ pc' = (IF woken = {} THEN "queue" ELSE "events")
      /\ evs' = [s \in woken |-> Mask(sock[s])]
      /\ sock' = [s \in Servers |-> [sock[s] EXCEPT !.ready = FALSE]]
  BY DEF Poll, histories
<1>2. ASSUME NEW s \in Servers
      PROVE  [sock[s] EXCEPT !.ready = FALSE] \in Socket /\ ~sock'[s].ready
             /\ sock'[s].watched = sock[s].watched
  <2>1. sock[s] \in Socket
    BY DEF Control, SocketsOk
  <2> QED BY <1>1, <2>1 DEF Socket
<1>3. SocketsOk' /\ \A s \in Servers : sock'[s].watched = sock[s].watched
  BY <1>1, <1>2 DEF SocketsOk
<1>4. \A s \in woken : Mask(sock[s]) \subseteq {"in", "out"} /\ Mask(sock[s]) # {}
  BY DEF Mask
<1>5. ControlType'
  BY <1>1, <1>4 DEF Control, ControlType
<1>6. \A s \in woken : fd[s] # NoFd
  BY DEF Control, SocketsOk, WatchedIsOpen
<1>7. EventsOk'
  BY <1>1, <1>4, <1>6 DEF EventsOk
<1> QED BY <1>1, <1>3, <1>5, <1>7, KeptStep

\* Events are of sockets that have a descriptor, and stale ones are no others.
LEMMA InService ==
  ASSUME Control, NEW s \in DOMAIN evs, pc = "events" \/ evs[s] = {}, pc \in {"events", "closing"}
  PROVE  /\ s \in Servers /\ fd[s] # NoFd /\ fd[s] \in Fds
         /\ Behind(s) \in Servers \cup Others \cup {"free"}
         /\ \A t \in DOMAIN evs \ {s} : evs[t] # {}
BY DEF Control, ControlType, EventsOk, Behind

LEMMA ReceiveControl ==
  ASSUME Control, NEW s \in DOMAIN evs, pc = "events", Receive(s)
  PROVE  Control'
<1>1. UNCHANGED <<hosts, fd, owner, theirs, robbed, breaks>> /\ Served(s)
  BY DEF Receive, histories
<1>2. /\ fd' \in [Servers -> Fds \cup {NoFd}] /\ owner' \in [Fds -> Servers \cup Others \cup {"free"}]
      /\ robbed' \in BOOLEAN
  BY <1>1 DEF Control, ControlType
<1>3. ControlType' /\ EventsOk'
  BY <1>1, <1>2, InService, ServedStep
<1>4. SocketsOk' /\ \A t \in Servers : sock'[t].watched = sock[t].watched
  <2>1. CASE UNCHANGED sock
    BY <2>1 DEF Control, SocketsOk
  <2>2. ASSUME NEW t \in Servers, sock' = [sock EXCEPT ![t].rx = FALSE]
        PROVE  SocketsOk' /\ \A u \in Servers : sock'[u].watched = sock[u].watched
    <3>1. PICK k : k = [sock[t] EXCEPT !.rx = FALSE]
      OBVIOUS
    <3>2. k \in Socket /\ (k.ready => k.watched) /\ k.watched = sock[t].watched
      BY <3>1 DEF Socket, Control, SocketsOk
    <3>3. sock' = [sock EXCEPT ![t] = k]
      BY <2>2, <3>1
    <3> QED BY <3>2, <3>3, SocketChanges DEF Control
  <2> QED BY <2>1, <2>2 DEF Receive
<1> QED BY <1>1, <1>3, <1>4, KeptStep

LEMMA WriteCachedControl ==
  ASSUME ClientAssumption, Control, ContentType, NEW s \in DOMAIN evs, pc = "events", WriteCached(s)
  PROVE  Control'
<1>1. UNCHANGED <<hosts, fd, owner, theirs, robbed, breaks>> /\ Served(s)
  BY DEF WriteCached
<1>2. /\ fd' \in [Servers -> Fds \cup {NoFd}] /\ owner' \in [Fds -> Servers \cup Others \cup {"free"}]
      /\ robbed' \in BOOLEAN
  BY <1>1 DEF Control, ControlType
<1>3. ControlType' /\ EventsOk'
  BY <1>1, <1>2, InService, ServedStep
<1>4. SocketsOk' /\ \A t \in Servers : sock'[t].watched = sock[t].watched
  <2>1. CASE UNCHANGED sock
    BY <2>1 DEF Control, SocketsOk
  <2>2. ASSUME NEW t \in Servers, NEW o, o = Flush(sc[s], SndBuf - sock[t].unread),
               sock' = [sock EXCEPT ![t].unread = @ + Len(o.out),
                                    ![t].nospace = @ \/ o.cache # << >>]
        PROVE  SocketsOk' /\ \A u \in Servers : sock'[u].watched = sock[u].watched
    <3> DEFINE room == SndBuf - sock[t].unread
    <3>1. sock[t] \in Socket /\ sock[t].unread \in 0 .. SndBuf /\ SndBuf \in Nat /\ room \in Nat
      BY DEF Socket, ClientAssumption, Control, SocketsOk
    <3>2. Len(o.out) \in Nat /\ Len(o.out) <= room
      <4>1. sc[s] \in Seq(KeptBytes(taken))
        BY InService DEF ContentType
      <4>2. o.out \in Seq(KeptBytes(taken)) /\ Len(o.out) <= room
        BY <2>2, <3>1, <4>1, FlushKeepsBytes
      <4> QED BY <4>2
    <3>3. PICK u, b : u = sock[t].unread + Len(o.out) /\ b = (sock[t].nospace \/ o.cache # << >>)
      OBVIOUS
    <3>4. u \in 0 .. SndBuf /\ b \in BOOLEAN
      <4>1. sock[t].unread + Len(o.out) \in 0 .. SndBuf
        BY <3>1, <3>2, Fits
      <4>2. b \in BOOLEAN
        BY <3>3, Zenon
      <4> QED BY <3>3, <4>1, <4>2
    <3>5. PICK k : k = [sock[t] EXCEPT !.unread = u, !.nospace = b]
      OBVIOUS
    <3>6. k \in Socket /\ (k.ready => k.watched) /\ k.watched = sock[t].watched
      BY <3>1, <3>4, <3>5 DEF Socket, Control, SocketsOk
    <3>7. sock' = [sock EXCEPT ![t] = k]
      BY <2>2, <3>3, <3>5 DEF Control, SocketsOk, Socket
    <3> QED BY <3>6, <3>7, SocketChanges DEF Control
  <2> QED BY <2>1, <2>2 DEF WriteCached
<1> QED BY <1>1, <1>3, <1>4, KeptStep

\* What SendOn does with the bytes, and with the socket k of t.
Sent(s, t, cache, sent, isTorn) ==
  \E o : /\ Outcome(o, taken, cache)
         /\ wire' = [wire EXCEPT ![t] = sent \o o.out]
         /\ sc' = [sc EXCEPT ![s] = o.cache]
         /\ torn' = [torn EXCEPT ![t] =
                      \/ isTorn
                      \/ fd[s] # NoFd /\ cache # << >>
                      \/ Len(o.out) - Len(cache) \in 1 .. CmdLen - 1 /\ o.cache = cache]

Filled(t, k) ==
  \E j \in Socket : sock' = [sock EXCEPT ![t] = j] /\ j.watched = k.watched /\ j.ready = k.ready

\* The kernel takes what it has room for.
LEMMA Sending ==
  ASSUME ClientAssumption, ContentType, NEW s \in Servers, NEW t \in Servers, NEW k \in Socket,
         NEW cache \in Seq(KeptBytes(taken)), Distinct(cache), NEW sent, NEW isTorn \in BOOLEAN,
         SendOn(s, t, k, cache, sent, isTorn)
  PROVE  Sent(s, t, cache, sent, isTorn) /\ Filled(t, k)
<1> DEFINE room == SndBuf - k.unread
<1>1. PICK o \in SendData(cache, Bytes(taken + 1), room)
                   \cup (IF k.gone THEN SendErrors(cache, room) ELSE {}) :
        /\ wire' = [wire EXCEPT ![t] = sent \o o.out]
        /\ sc' = [sc EXCEPT ![s] = o.cache]
        /\ sock' = [sock EXCEPT ![t] =
                      [k EXCEPT !.unread = @ + Len(o.out),
                                !.nospace = @ \/ Len(o.out) < Len(cache) + CmdLen]]
        /\ torn' = [torn EXCEPT ![t] =
                      \/ isTorn
                      \/ fd[s] # NoFd /\ cache # << >>
                      \/ Len(o.out) - Len(cache) \in 1 .. CmdLen - 1 /\ o.cache = cache]
  BY Zenon DEF SendOn
<1>2. taken \in Nat /\ k.unread \in 0 .. SndBuf /\ SndBuf \in Nat /\ room \in Nat
  BY DEF ContentType, Socket, ClientAssumption
<1>3. o \in SendData(cache, Bytes(taken + 1), room) \cup SendErrors(cache, room)
  BY <1>1
<1>4. Outcome(o, taken, cache) /\ Len(o.out) <= room
  BY <1>2, <1>3, SendOutcome
<1>5. Len(o.out) \in Nat
  <2>1. o.out \in Seq(SentBytes(taken + 1))
    BY <1>2, <1>4, SendKeepsTypes
  <2> QED BY <2>1
<1>6. PICK u, b : u = k.unread + Len(o.out) /\ b = (k.nospace \/ Len(o.out) < Len(cache) + CmdLen)
  OBVIOUS
<1>7. u \in 0 .. SndBuf /\ b \in BOOLEAN
  <2>1. k.unread + Len(o.out) \in 0 .. SndBuf
    BY <1>2, <1>4, <1>5, Fits
  <2>2. b \in BOOLEAN
    BY <1>6, Zenon
  <2> QED BY <1>6, <2>1, <2>2
<1>8. PICK j : j = [k EXCEPT !.unread = u, !.nospace = b]
  OBVIOUS
<1>9. j \in Socket /\ j.watched = k.watched /\ j.ready = k.ready
  BY <1>7, <1>8 DEF Socket
<1>10. sock' = [sock EXCEPT ![t] = j]
  BY <1>1, <1>6, <1>8 DEF Socket
<1>11. Sent(s, t, cache, sent, isTorn)
  BY <1>1, <1>4, Zenon DEF Sent
<1>12. Filled(t, k)
  BY <1>9, <1>10, Zenon DEF Filled
<1> QED BY <1>11, <1>12

\* On a connection just made.
LEMMA SendingFirst ==
  ASSUME ClientAssumption, ContentType, NEW s \in Servers, SendReconnected(s)
  PROVE  /\ \E k \in Socket : k.watched /\ k.ready /\ Filled(s, k)
         /\ Sent(s, s, << >>, << >>, FALSE)
<1>0. PICK no \in BOOLEAN : no = FALSE
  OBVIOUS
<1>1. PICK k, nil : k = Connected(TRUE) /\ nil = << >>
  OBVIOUS
<1>2. k \in Socket /\ k.watched /\ k.ready
  BY <1>1 DEF Connected, Socket, ClientAssumption
<1>3. nil \in Seq(KeptBytes(taken)) /\ Distinct(nil)
  BY <1>1 DEF Distinct
<1>4. SendOn(s, s, k, nil, nil, no)
  BY <1>0, <1>1, Zenon DEF SendReconnected
<1>5. Sent(s, s, nil, nil, no) /\ Filled(s, k)
  BY <1>2, <1>3, <1>4, Sending
<1>6. Sent(s, s, << >>, << >>, FALSE)
  BY <1>0, <1>1, <1>5, Zenon
<1> QED BY <1>2, <1>5, <1>6

\* On one that exists, that of t by now.
LEMMA SendingMore ==
  ASSUME ClientAssumption, Control, ContentType, NEW s \in Servers, SendConnected(s)
  PROVE  \E t \in Servers : /\ Behind(s) = t
                            /\ Sent(s, t, sc[s], wire[t], torn[t]) /\ Filled(t, sock[t])
<1>1. PICK t \in Servers : Behind(s) = t /\ SendOn(s, t, sock[t], sc[s], wire[t], torn[t])
  BY DEF SendConnected
<1>2. sock[t] \in Socket /\ sc[s] \in Seq(KeptBytes(taken)) /\ Distinct(sc[s]) /\ torn[t] \in BOOLEAN
  BY DEF Control, SocketsOk, ContentType
<1>3. Sent(s, t, sc[s], wire[t], torn[t]) /\ Filled(t, sock[t])
  BY <1>1, <1>2, Sending
<1> QED BY <1>1, <1>3

LEMMA SendConnectedControl ==
  ASSUME ClientAssumption, Control, ContentType, NEW s \in Servers, SendConnected(s)
  PROVE  Control'
<1>1. UNCHANGED <<hosts, pc, evs, fd, owner, theirs, breaks, robbed>>
  BY DEF SendConnected
<1>2. PICK t \in Servers : Filled(t, sock[t])
  BY SendingMore
<1>3. PICK j \in Socket : /\ sock' = [sock EXCEPT ![t] = j]
                          /\ j.watched = sock[t].watched /\ j.ready = sock[t].ready
  BY <1>2 DEF Filled
<1>4. SocketsOk' /\ \A u \in Servers : sock'[u].watched = sock[u].watched
  BY <1>3, SocketChanges DEF Control, SocketsOk
<1>5. breaks' \in 0 .. MaxBreaks
  BY <1>1 DEF Control, ControlType
<1> QED BY <1>1, <1>4, <1>5, StandingStep

\* A free descriptor becomes that of a socket which had none.
LEMMA ConnectedStep ==
  ASSUME ClientAssumption, Control, NEW s \in Servers, fd[s] = NoFd, FreeFds(owner) # {},
         fd' = [fd EXCEPT ![s] = LowestFree(owner)],
         owner' = [owner EXCEPT ![LowestFree(owner)] = s],
         SocketsOk', \A t \in Servers \ {s} : sock'[t] = sock[t],
         UNCHANGED <<hosts, pc, evs, breaks, theirs, robbed>>
  PROVE  Control'
<1>1. PICK f \in Fds : f = LowestFree(owner) /\ owner[f] = "free" /\ f # NoFd
  BY LowestIsFree
<1>2. fd' = [fd EXCEPT ![s] = f] /\ owner' = [owner EXCEPT ![f] = s]
  BY <1>1
<1>3. ControlType' /\ EventsOk'
  <2>1. /\ fd' \in [Servers -> Fds \cup {NoFd}]
        /\ owner' \in [Fds -> Servers \cup Others \cup {"free"}]
    BY <1>2 DEF Control, ControlType
  <2>2. ControlType'
    BY <2>1 DEF Control, ControlType
  <2>3. \A t \in DOMAIN evs : fd'[t] # NoFd
    <3>1. DOMAIN evs \subseteq Servers /\ fd \in [Servers -> Fds \cup {NoFd}]
      BY DEF Control, ControlType
    <3>2. \A t \in DOMAIN evs : fd[t] # NoFd
      BY DEF Control, EventsOk
    <3> QED BY <1>1, <1>2, <3>1, <3>2
  <2>4. EventsOk /\ pc' = pc /\ evs' = evs
    BY DEF Control
  <2>5. EventsOk'
    <3>1. \A t \in DOMAIN evs' : fd'[t] # NoFd
      BY <2>3, <2>4
    <3>2. pc' \notin {"events", "closing"} => DOMAIN evs' = {}
      BY <2>4 DEF EventsOk
    <3>3. pc' = "events" => \A t \in DOMAIN evs' : evs'[t] # {}
      BY <2>4 DEF EventsOk
    <3>4. pc' = "closing" => \E t \in DOMAIN evs' : \A u \in DOMAIN evs' : evs'[u] = {} <=> u = t
      <4>1. CASE pc = "closing"
        <5>1. PICK t \in DOMAIN evs : \A u \in DOMAIN evs : evs[u] = {} <=> u = t
          BY <2>4, <4>1 DEF EventsOk
        <5>2. t \in DOMAIN evs' /\ \A u \in DOMAIN evs' : evs'[u] = {} <=> u = t
          BY <2>4, <5>1
        <5> QED BY <5>2
      <4>2. CASE pc # "closing"
        BY <2>4, <4>2
      <4> QED BY <4>1, <4>2
    <3> QED BY <3>1, <3>2, <3>3, <3>4, Zenon DEF EventsOk
  <2> QED BY <2>2, <2>5
<1>4. /\ fd'[s] = f /\ \A t \in Servers \ {s} : fd'[t] = fd[t]
      /\ owner'[f] = s /\ \A g \in Fds \ {f} : owner'[g] = owner[g]
  BY <1>2 DEF Control, ControlType
<1>5. NoneLeaked'
  BY <1>4 DEF Control, NoneLeaked, NoFd, ClientAssumption
<1>6. WatchedIsOpen'
  BY <1>1, <1>4 DEF Control, WatchedIsOpen
<1> QED BY <1>3, <1>5, <1>6 DEF Control

LEMMA AddServerControl ==
  ASSUME ClientAssumption, Control, NEW s \in Servers, AddServer(s)
  PROVE  Control'
<1>1. PICK k : k = Connected(TRUE)
  OBVIOUS
<1>2. k \in Socket /\ k.watched /\ k.ready
  BY <1>1 DEF Connected, Socket, ClientAssumption
<1>3. sock' = [sock EXCEPT ![s] = k]
  BY <1>1 DEF AddServer
<1>4. SocketsOk' /\ \A t \in Servers \ {s} : sock'[t] = sock[t]
  BY <1>2, <1>3 DEF SocketsOk, Control
<1> QED BY <1>4, ConnectedStep DEF AddServer, histories

LEMMA SendReconnectedControl ==
  ASSUME ClientAssumption, Control, ContentType, NEW s \in Servers, SendReconnected(s)
  PROVE  Control'
<1>1. PICK j \in Socket : sock' = [sock EXCEPT ![s] = j] /\ j.watched /\ j.ready
  BY SendingFirst DEF Filled
<1>2. SocketsOk' /\ \A t \in Servers \ {s} : sock'[t] = sock[t]
  BY <1>1 DEF SocketsOk, Control
<1> QED BY <1>2, ConnectedStep DEF SendReconnected

\* The number in s->fd was closed, and another one may be opened: whoever else
\* had descriptors keeps them.
LEMMA CloseAndReconnectControl ==
  ASSUME ClientAssumption, Control, NEW s \in DOMAIN evs, pc \in {"events", "closing"},
         pc = "events" \/ evs[s] = {}, CloseAndReconnect(s), UNCHANGED <<hosts, breaks, theirs>>
  PROVE  Control'
<1>1. PICK f, own : f = fd[s] /\ own = [owner EXCEPT ![f] = "free"]
  OBVIOUS
<1>2. /\ \/ /\ fd' = [fd EXCEPT ![s] = NoFd]
            /\ owner' = own
         \/ /\ FreeFds(own) # {}
            /\ fd' = [fd EXCEPT ![s] = LowestFree(own)]
            /\ owner' = [own EXCEPT ![LowestFree(own)] = s]
      /\ Lose({s, Behind(s)})
      /\ Served(s)
  BY <1>1 DEF CloseAndReconnect, Reconnect
<1>3. s \in Servers /\ f \in Fds /\ \A t \in DOMAIN evs \ {s} : evs[t] # {}
  BY <1>1, InService
<1>4. /\ fd \in [Servers -> Fds \cup {NoFd}] /\ owner \in [Fds -> Servers \cup Others \cup {"free"}]
  BY DEF Control, ControlType
<1>5. /\ own \in [Fds -> Servers \cup Others \cup {"free"}] /\ own[f] = "free"
      /\ \A g \in Fds \ {f} : own[g] = owner[g]
  BY <1>1, <1>3, <1>4
<1>6. \A g \in Fds : own[g] \in Servers => own[g] # s /\ fd[own[g]] = g
  <2>1. \A g \in Fds : owner[g] \in Servers => fd[owner[g]] = g
    BY DEF Control, NoneLeaked
  <2> QED BY <1>1, <1>3, <1>5, <2>1, Names
<1>7. /\ fd' \in [Servers -> Fds \cup {NoFd}] /\ owner' \in [Fds -> Servers \cup Others \cup {"free"}]
      /\ \A t \in Servers \ {s} : fd'[t] = fd[t]
      /\ \A g \in Fds : owner'[g] \in Servers => fd'[owner'[g]] = g
  <2>1. CASE fd' = [fd EXCEPT ![s] = NoFd] /\ owner' = own
    <3>1. fd' \in [Servers -> Fds \cup {NoFd}] /\ \A t \in Servers \ {s} : fd'[t] = fd[t]
      BY <1>4, <2>1
    <3> QED BY <1>5, <1>6, <2>1, <3>1
  <2>2. CASE /\ FreeFds(own) # {}
             /\ fd' = [fd EXCEPT ![s] = LowestFree(own)]
             /\ owner' = [own EXCEPT ![LowestFree(own)] = s]
    <3>1. PICK g \in Fds : g = LowestFree(own) /\ g # NoFd
      BY <2>2, LowestIsFree
    <3>2. /\ fd' \in [Servers -> Fds \cup {NoFd}] /\ fd'[s] = g
          /\ \A t \in Servers \ {s} : fd'[t] = fd[t]
          /\ owner' \in [Fds -> Servers \cup Others \cup {"free"}] /\ owner'[g] = s
          /\ \A h \in Fds \ {g} : owner'[h] = own[h]
      BY <1>3, <1>4, <1>5, <2>2, <3>1
    <3>3. ASSUME NEW h \in Fds, owner'[h] \in Servers PROVE fd'[owner'[h]] = h
      <4>1. CASE h = g
        BY <3>2, <4>1
      <4>2. CASE h # g
        <5>1. owner'[h] = own[h] /\ own[h] \in Servers \ {s} /\ fd[own[h]] = h
          BY <1>6, <3>2, <3>3, <4>2
        <5> QED BY <3>2, <5>1
      <4> QED BY <4>1, <4>2
    <3> QED BY <3>2, <3>3
  <2> QED BY <1>2, <2>1, <2>2
<1>8. ControlType' /\ EventsOk'
  <2>1. robbed' \in BOOLEAN
    <3>1. robbed' = (robbed \/ Behind(s) \in Others)
      BY DEF CloseAndReconnect, Reconnect
    <3> QED BY <3>1, Zenon
  <2> QED BY <1>2, <1>3, <1>7, <2>1, ServedStep
<1>9. NoneLeaked'
  BY <1>7 DEF NoneLeaked
<1>10. SocketsOk' /\ \A t \in Servers : sock'[t].watched => t # s /\ sock[t].watched
  BY <1>2, SocketsLost DEF Control
<1>11. WatchedIsOpen'
  BY <1>7, <1>10 DEF Control, WatchedIsOpen
<1> QED BY <1>8, <1>9, <1>10, <1>11 DEF Control

\* The number in s->fd is closed and stays there.
LEMMA WriteFailsControl ==
  ASSUME ClientAssumption, Control, NEW s \in DOMAIN evs, pc = "events", WriteFails(s)
  PROVE  Control'
<1>1. PICK f : f = fd[s]
  OBVIOUS
<1>2. /\ owner' = [owner EXCEPT ![f] = "free"] /\ Lose({s, Behind(s)})
      /\ evs' = [evs EXCEPT ![s] = {}] /\ pc' = "closing"
      /\ UNCHANGED <<hosts, fd, breaks, theirs>>
  BY <1>1 DEF WriteFails
<1>3. s \in Servers /\ f \in Fds /\ \A t \in DOMAIN evs : evs[t] # {}
  BY <1>1, InService DEF Control, EventsOk
<1>4. /\ DOMAIN evs' = DOMAIN evs /\ evs'[s] = {}
      /\ \A t \in DOMAIN evs \ {s} : evs'[t] = evs[t]
  BY <1>2
<1>5. robbed' \in BOOLEAN
  <2>1. robbed' = (robbed \/ Behind(s) \in Others)
    BY DEF WriteFails
  <2> QED BY <2>1, Zenon
<1>6. ControlType' /\ EventsOk'
  <2>1. ControlType'
    BY <1>2, <1>4, <1>5 DEF Control, ControlType
  <2>2. \A t \in DOMAIN evs' : fd'[t] # NoFd
    BY <1>2, <1>4 DEF Control, EventsOk
  <2>3. \A t \in DOMAIN evs' : evs'[t] = {} <=> t = s
    BY <1>3, <1>4
  <2>4. pc' = "closing" /\ s \in DOMAIN evs'
    BY <1>2, <1>4
  <2>5. EventsOk'
    BY <2>2, <2>3, <2>4 DEF EventsOk
  <2> QED BY <2>1, <2>5
<1>7. NoneLeaked'
  BY <1>2, <1>3, Names DEF Control, ControlType, NoneLeaked
<1>8. SocketsOk' /\ \A t \in Servers : sock'[t].watched => sock[t].watched
  BY <1>2, SocketsLost DEF Control
<1>9. WatchedIsOpen'
  BY <1>2, <1>8 DEF Control, WatchedIsOpen
<1> QED BY <1>6, <1>7, <1>8, <1>9 DEF Control

\* The server of s reads, replies, closes or resets the connection.
LEMMA PeerControl ==
  ASSUME ClientAssumption, Control, NEW s \in Servers, Drain(s) \/ Reply(s) \/ Break(s) \/ Reset(s)
  PROVE  Control'
<1>1. sock[s] \in Socket /\ SocketsOk /\ breaks \in 0 .. MaxBreaks
  BY DEF Control, ControlType, SocketsOk
<1>2. PICK old : old = sock[s]
  OBVIOUS
<1>3. old \in Socket /\ old.unread \in 0 .. SndBuf /\ SndBuf \in Nat /\ MaxBreaks \in Nat
  BY <1>1, <1>2 DEF Socket, ClientAssumption
\* The new state of the socket in each case.
<1>4. \E k \in Socket : /\ sock' = [sock EXCEPT ![s] = k]
                        /\ k.ready => k.watched
                        /\ k.watched = old.watched
  <2>0. old.ready => old.watched
    BY <1>1, <1>2 DEF SocketsOk
  <2>1. CASE Drain(s)
    <3>1. PICK n \in 0 .. old.unread - 1 :
             sock' = [sock EXCEPT ![s] =
                        IF old.nospace THEN [Woken(old) EXCEPT !.unread = n, !.nospace = FALSE]
                                       ELSE [old EXCEPT !.unread = n]]
      BY <1>2, <2>1 DEF Drain
    <3>2. n \in 0 .. SndBuf
      BY <1>3
    <3>3. PICK j, k : j = [Woken(old) EXCEPT !.unread = n, !.nospace = FALSE] /\ k = [old EXCEPT !.unread = n]
      OBVIOUS
    <3>4. j \in Socket /\ j.ready = old.watched /\ j.watched = old.watched
      BY <1>3, <3>2, <3>3 DEF Woken, Socket
    <3>5. k \in Socket /\ k.ready = old.ready /\ k.watched = old.watched
      BY <1>3, <3>2, <3>3 DEF Socket
    <3>6. sock' = [sock EXCEPT ![s] = j] \/ sock' = [sock EXCEPT ![s] = k]
      BY <3>1, <3>3
    <3> QED BY <2>0, <3>4, <3>5, <3>6
  <2>2. CASE Reply(s)
    <3>1. PICK j : j = [Woken(old) EXCEPT !.rx = TRUE]
      OBVIOUS
    <3>2. j \in Socket /\ j.ready = old.watched /\ j.watched = old.watched
      BY <1>3, <3>1 DEF Woken, Socket
    <3>3. sock' = [sock EXCEPT ![s] = j]
      BY <1>2, <2>2, <3>1 DEF Reply
    <3> QED BY <3>2, <3>3
  <2>3. CASE Break(s)
    <3>1. PICK j : j = [Woken(old) EXCEPT !.gone = TRUE]
      OBVIOUS
    <3>2. j \in Socket /\ j.ready = old.watched /\ j.watched = old.watched
      BY <1>3, <3>1 DEF Woken, Socket
    <3>3. sock' = [sock EXCEPT ![s] = j]
      BY <1>2, <2>3, <3>1 DEF Break
    <3> QED BY <3>2, <3>3
  <2>4. CASE Reset(s)
    <3>0. PICK n : n = 0
      OBVIOUS
    <3>1. PICK j : j = [Woken(old) EXCEPT !.unread = n]
      OBVIOUS
    <3>4. n \in 0 .. SndBuf
      BY <1>3, <3>0
    <3>2. j \in Socket /\ j.ready = old.watched /\ j.watched = old.watched
      BY <1>3, <3>1, <3>4 DEF Woken, Socket
    <3>3. sock' = [sock EXCEPT ![s] = j]
      BY <1>2, <2>4, <3>0, <3>1 DEF Reset
    <3> QED BY <3>2, <3>3
  <2> QED BY <2>1, <2>2, <2>3, <2>4
<1>5. SocketsOk' /\ \A t \in Servers : sock'[t].watched = sock[t].watched
  BY <1>1, <1>2, <1>4, SocketChanges
<1>6. UNCHANGED <<hosts, pc, evs, fd, owner, theirs, robbed>>
  BY DEF Drain, Reply, Break, Reset, histories
<1>7. breaks' \in 0 .. MaxBreaks
  <2>1. breaks' = breaks \/ (breaks' = breaks + 1 /\ breaks < MaxBreaks)
    BY DEF Drain, Reply, Break, Reset
  <2> QED BY <1>1, <1>3, <2>1
<1> QED BY <1>5, <1>6, <1>7, StandingStep

\* Another thread opens a free descriptor, uses and closes the one it has.
LEMMA OpenForeignControl ==
  ASSUME ClientAssumption, Control, NEW o \in Others, OpenForeign(o)
  PROVE  Control'
<1>1. PICK f \in Fds : f = LowestFree(owner)
  BY LowestIsFree DEF OpenForeign
<1>2. /\ theirs' = [theirs EXCEPT ![o] = f] /\ owner' = [owner EXCEPT ![f] = o]
      /\ UNCHANGED <<hosts, pc, evs, fd, sock, breaks, robbed>>
  BY <1>1 DEF OpenForeign, histories
<1>3. /\ theirs' \in [Others -> Fds \cup {NoFd}]
      /\ owner' \in [Fds -> Servers \cup Others \cup {"free"}]
      /\ owner'[f] = o /\ \A g \in Fds \ {f} : owner'[g] = owner[g]
  BY <1>2 DEF Control, ControlType
<1>4. ControlType' /\ SocketsOk' /\ EventsOk' /\ WatchedIsOpen'
  <2>1. ControlType'
    BY <1>2, <1>3 DEF Control, ControlType
  <2>2. SocketsOk' /\ EventsOk' /\ WatchedIsOpen'
    BY <1>2 DEF Control, SocketsOk, EventsOk, WatchedIsOpen
  <2> QED BY <2>1, <2>2
<1>5. NoneLeaked'
  BY <1>2, <1>3, Names DEF Control, NoneLeaked
<1> QED BY <1>4, <1>5 DEF Control

LEMMA UseForeignControl ==
  ASSUME ClientAssumption, Control, NEW o \in Others, UseForeign(o)
  PROVE  Control'
<1>1. PICK t \in Servers : \E n \in sock[t].unread .. SndBuf :
        sock' = [sock EXCEPT ![t].unread = n, ![t].nospace = @ \/ n = SndBuf, ![t].rx = FALSE]
  BY DEF UseForeign
<1>2. PICK n \in sock[t].unread .. SndBuf :
        sock' = [sock EXCEPT ![t].unread = n, ![t].nospace = @ \/ n = SndBuf, ![t].rx = FALSE]
  BY <1>1
<1>3. sock \in [Servers -> Socket] /\ sock[t] \in Socket /\ SndBuf \in Nat /\ n \in 0 .. SndBuf
  BY DEF Control, SocketsOk, Socket, ClientAssumption
<1>4. PICK b : b = (sock[t].nospace \/ n = SndBuf)
  OBVIOUS
<1>5. b \in BOOLEAN
  BY <1>4, Zenon
<1>6. PICK k : k = [sock[t] EXCEPT !.unread = n, !.nospace = b, !.rx = FALSE]
  OBVIOUS
<1>7. k \in Socket /\ (k.ready => k.watched) /\ k.watched = sock[t].watched
  BY <1>3, <1>5, <1>6 DEF Socket, Control, SocketsOk
<1>8. sock' = [sock EXCEPT ![t] = k]
  BY <1>2, <1>3, <1>4, <1>6 DEF Socket
<1>9. SocketsOk' /\ \A u \in Servers : sock'[u].watched = sock[u].watched
  BY <1>7, <1>8, SocketChanges DEF Control
<1>10. /\ UNCHANGED <<hosts, pc, evs, fd, owner, theirs, robbed>>
       /\ breaks' \in 0 .. MaxBreaks
  BY DEF UseForeign, histories, Control, ControlType
<1> QED BY <1>9, <1>10, StandingStep

LEMMA CloseForeignControl ==
  ASSUME ClientAssumption, Control, NEW o \in Others, CloseForeign(o)
  PROVE  Control'
<1>1. PICK f : f = theirs[o]
  OBVIOUS
<1>2. /\ theirs' = [theirs EXCEPT ![o] = NoFd] /\ owner' = [owner EXCEPT ![f] = "free"]
      /\ Lose({owner[f]})
      /\ UNCHANGED <<hosts, pc, evs, fd, breaks, robbed>>
  BY <1>1 DEF CloseForeign
<1>3. f \in Fds
  BY <1>1 DEF CloseForeign, Control, ControlType
<1>4. /\ theirs' \in [Others -> Fds \cup {NoFd}]
      /\ owner' \in [Fds -> Servers \cup Others \cup {"free"}]
      /\ owner'[f] = "free" /\ \A g \in Fds \ {f} : owner'[g] = owner[g]
  BY <1>2, <1>3 DEF Control, ControlType
<1>5. SocketsOk' /\ \A t \in Servers : sock'[t].watched => sock[t].watched
  BY <1>2, SocketsLost DEF Control
<1>6. ControlType' /\ EventsOk' /\ WatchedIsOpen'
  <2>1. ControlType'
    BY <1>2, <1>4 DEF Control, ControlType
  <2>2. EventsOk' /\ WatchedIsOpen'
    BY <1>2, <1>5 DEF Control, EventsOk, WatchedIsOpen
  <2> QED BY <2>1, <2>2
<1>7. NoneLeaked'
  BY <1>2, <1>4, Names DEF Control, NoneLeaked
<1> QED BY <1>5, <1>6, <1>7 DEF Control

\* Every step keeps the descriptors, the events and the sockets in order.
LEMMA ControlStep ==
  ASSUME ClientAssumption, Control, ContentType, [Next]_vars
  PROVE  Control'
<1>1. ASSUME UNCHANGED <<hosts, pc, evs, fd, owner, theirs, robbed, sock, breaks>>
      PROVE  Control'
  <2>1. breaks' \in 0 .. MaxBreaks /\ SocketsOk' /\ \A s \in Servers : sock'[s].watched = sock[s].watched
    BY <1>1 DEF Control, ControlType, SocketsOk
  <2> QED BY <1>1, <2>1, StandingStep
<1>2. CASE Starting
  BY <1>2, StartControl, AddServerControl DEF Starting
<1>3. CASE Appending
  BY <1>1, <1>3 DEF Appending, AppendCmd, dispatcher, histories
<1>4. CASE ProcessRequest
  <2>1. CASE SkipCommand
    BY <1>1, <2>1 DEF SkipCommand, histories
  <2>2. ASSUME NEW s \in Servers, GiveUp(s) \/ SendElsewhere(s)
        PROVE  Control'
    BY <1>1, <2>2 DEF GiveUp, SendElsewhere, histories
  <2> QED BY <1>4, <2>1, <2>2, SendReconnectedControl, SendConnectedControl DEF ProcessRequest
<1>5. CASE QueueEmpty \/ Poll
  BY <1>5, QueueEmptyControl, PollControl
<1>6. CASE ServeEvent
  <2>1. PICK s \in DOMAIN evs :
          \/ /\ pc = "events"
             /\ Receive(s) \/ ReceiveFails(s) \/ WriteCached(s) \/ SocketError(s) \/ WriteFails(s)
          \/ CloseAgain(s)
    BY <1>6 DEF ServeEvent
  <2>2. CASE pc = "events" /\ (Receive(s) \/ WriteCached(s) \/ WriteFails(s))
    BY <2>2, ReceiveControl, WriteCachedControl, WriteFailsControl
  <2>3. CASE pc = "events" /\ (ReceiveFails(s) \/ SocketError(s))
    <3>1. CloseAndReconnect(s) /\ UNCHANGED <<hosts, breaks, theirs>>
      BY <2>3 DEF ReceiveFails, SocketError
    <3> QED BY <2>3, <3>1, CloseAndReconnectControl
  <2>4. CASE CloseAgain(s)
    <3>1. pc = "closing" /\ evs[s] = {} /\ CloseAndReconnect(s) /\ UNCHANGED <<hosts, breaks, theirs>>
      BY <2>4 DEF CloseAgain
    <3> QED BY <3>1, CloseAndReconnectControl
  <2> QED BY <2>1, <2>2, <2>3, <2>4
<1>7. CASE Serving
  BY <1>7, PeerControl DEF Serving
<1>8. CASE Foreign
  BY <1>8, OpenForeignControl, UseForeignControl, CloseForeignControl DEF Foreign
<1>9. CASE UNCHANGED vars
  BY <1>1, <1>9 DEF vars
<1> QED BY <1>2, <1>3, <1>4, <1>5, <1>6, <1>7, <1>8, <1>9 DEF Next, Dispatching

-----------------------------------------------------------------------------
(* Whose the descriptors are, while no other thread is robbed of one *)

\* No descriptor is opened or closed, and none becomes stale or is that no more.
LEMMA OwnedKept ==
  ASSUME Owned, UNCHANGED <<fd, owner, theirs>>, \A s \in Servers : Stale(s)' <=> Stale(s)
  PROVE  Owned'
<1>1. HasItsOwn'
  BY Zenon DEF Owned, HasItsOwn, Behind
<1>2. StaleOk' /\ TheyHaveTheirs'
  BY DEF Owned, StaleOk, TheyHaveTheirs, Behind
<1> QED BY <1>1, <1>2 DEF Owned

\* Outside "closing" no descriptor is stale.
LEMMA InServiceOwned ==
  ASSUME Owned, NEW s \in Servers, fd[s] # NoFd, pc # "closing"
  PROVE  Behind(s) = s
BY DEF Owned, HasItsOwn, Stale

LEMMA ConnectedOwned ==
  ASSUME ClientAssumption, Control, Owned, NEW s \in Servers, fd[s] = NoFd, FreeFds(owner) # {},
         fd' = [fd EXCEPT ![s] = LowestFree(owner)],
         owner' = [owner EXCEPT ![LowestFree(owner)] = s],
         UNCHANGED <<pc, theirs>>, pc # "closing"
  PROVE  Owned'
<1>1. PICK f \in Fds : f = LowestFree(owner) /\ owner[f] = "free" /\ f # NoFd
  BY LowestIsFree
<1>2. fd' = [fd EXCEPT ![s] = f] /\ owner' = [owner EXCEPT ![f] = s]
  BY <1>1
<1>3. /\ fd'[s] = f /\ \A t \in Servers \ {s} : fd'[t] = fd[t] /\ fd[t] \in Fds \cup {NoFd}
      /\ owner'[f] = s /\ \A g \in Fds \ {f} : owner'[g] = owner[g]
      /\ \A o \in Others : theirs[o] \in Fds \cup {NoFd}
  BY <1>2 DEF Control, ControlType
<1>4. ASSUME NEW t \in Servers, fd'[t] # NoFd PROVE owner'[fd'[t]] = t
  <2>1. CASE t = s
    BY <1>3, <2>1
  <2>2. CASE t # s
    <3>1. owner[fd[t]] = t
      BY <1>3, <1>4, <2>2, InServiceOwned DEF Behind
    <3> QED BY <1>1, <1>3, <1>4, <2>2, <3>1, Names
  <2> QED BY <2>1, <2>2
<1>5. TheyHaveTheirs'
  BY <1>1, <1>3, Names DEF Owned, TheyHaveTheirs
<1>6. HasItsOwn' /\ StaleOk'
  BY <1>4 DEF HasItsOwn, StaleOk, Stale, Behind
<1> QED BY <1>5, <1>6 DEF Owned

\* Where a descriptor is closed it is its own, or free.
LEMMA ClosesNoOther ==
  ASSUME Control, Owned, NEW s \in DOMAIN evs, pc \in {"events", "closing"},
         pc = "events" \/ evs[s] = {}, Behind(s) \notin Others
  PROVE  Behind(s) \in {s, "free"}
<1>1. CASE pc = "events"
  BY <1>1, InService, InServiceOwned
<1>2. CASE pc = "closing" /\ evs[s] = {}
  BY <1>2, InService DEF Owned, StaleOk, Stale
<1> QED BY <1>1, <1>2

LEMMA CloseAndReconnectOwned ==
  ASSUME ClientAssumption, Control, Owned, NEW s \in DOMAIN evs, pc \in {"events", "closing"},
         pc = "events" \/ evs[s] = {}, CloseAndReconnect(s), Behind(s) \notin Others,
         UNCHANGED theirs
  PROVE  Owned'
<1>1. PICK f, own : f = fd[s] /\ own = [owner EXCEPT ![f] = "free"]
  OBVIOUS
<1>2. /\ \/ /\ fd' = [fd EXCEPT ![s] = NoFd]
            /\ owner' = own
         \/ /\ FreeFds(own) # {}
            /\ fd' = [fd EXCEPT ![s] = LowestFree(own)]
            /\ owner' = [own EXCEPT ![LowestFree(own)] = s]
      /\ pc' # "closing"
  BY <1>1 DEF CloseAndReconnect, Reconnect, Served
<1>3. s \in Servers /\ f \in Fds /\ owner[f] \in {s, "free"} /\ \A t \in DOMAIN evs \ {s} : evs[t] # {}
  BY <1>1, InService, ClosesNoOther DEF Behind
<1>4. /\ fd \in [Servers -> Fds \cup {NoFd}] /\ owner \in [Fds -> Servers \cup Others \cup {"free"}]
      /\ theirs \in [Others -> Fds \cup {NoFd}]
  BY DEF Control, ControlType
<1>5. own \in [Fds -> Servers \cup Others \cup {"free"}] /\ own[f] = "free" /\ \A g \in Fds \ {f} : own[g] = owner[g]
  BY <1>1, <1>3, <1>4
\* The others keep theirs, ...
<1>6. /\ \A t \in Servers \ {s} : fd[t] # NoFd => fd[t] # f /\ own[fd[t]] = t
      /\ \A o \in Others : theirs[o] # NoFd => theirs[o] # f /\ own[theirs[o]] = o
  <2>1. \A t \in Servers \ {s} : fd[t] # NoFd => owner[fd[t]] = t /\ fd[t] \in Fds
    BY <1>3, <1>4 DEF Owned, HasItsOwn, Stale, Behind
  <2>2. \A o \in Others : theirs[o] # NoFd => owner[theirs[o]] = o /\ theirs[o] \in Fds
    BY <1>4 DEF Owned, TheyHaveTheirs
  <2>3. \A t \in Servers \ {s} : t \notin {s, "free"}
    BY Names
  <2>4. \A o \in Others : o \notin {s, "free"}
    BY <1>3, Names
  <2>5. \A t \in Servers \ {s} : fd[t] # NoFd => fd[t] # f /\ own[fd[t]] = t
    BY <1>3, <1>5, <2>1, <2>3
  <2>6. \A o \in Others : theirs[o] # NoFd => theirs[o] # f /\ own[theirs[o]] = o
    BY <1>3, <1>5, <2>2, <2>4
  <2> QED BY <2>5, <2>6
\* ... and s has none or a new one.
<1>7. /\ \A t \in Servers : fd'[t] # NoFd => owner'[fd'[t]] = t
      /\ \A o \in Others : theirs[o] # NoFd => owner'[theirs[o]] = o
  <2>1. CASE fd' = [fd EXCEPT ![s] = NoFd] /\ owner' = own
    <3>1. fd'[s] = NoFd /\ \A t \in Servers \ {s} : fd'[t] = fd[t]
      BY <1>3, <1>4, <2>1
    <3> QED BY <1>6, <2>1, <3>1
  <2>2. CASE /\ FreeFds(own) # {}
             /\ fd' = [fd EXCEPT ![s] = LowestFree(own)]
             /\ owner' = [own EXCEPT ![LowestFree(own)] = s]
    <3>1. PICK g \in Fds : g = LowestFree(own) /\ own[g] = "free" /\ g # NoFd
      BY <2>2, LowestIsFree
    <3>2. /\ fd'[s] = g /\ \A t \in Servers \ {s} : fd'[t] = fd[t] /\ fd[t] \in Fds \cup {NoFd}
          /\ owner'[g] = s /\ \A h \in Fds \ {g} : owner'[h] = own[h]
          /\ \A o \in Others : theirs[o] \in Fds \cup {NoFd}
      BY <1>3, <1>4, <1>5, <2>2, <3>1
    <3>3. ASSUME NEW t \in Servers, fd'[t] # NoFd PROVE owner'[fd'[t]] = t
      <4>1. CASE t = s
        BY <3>2, <4>1
      <4>2. CASE t # s
        <5>1. fd'[t] = fd[t] /\ own[fd[t]] = t /\ fd[t] \in Fds
          BY <1>6, <3>2, <3>3, <4>2
        <5>2. fd[t] # g
          BY <3>1, <5>1, Names
        <5> QED BY <3>2, <5>1, <5>2
      <4> QED BY <4>1, <4>2
    <3>4. \A o \in Others : theirs[o] # NoFd => owner'[theirs[o]] = o
      BY <1>6, <3>1, <3>2, Names
    <3> QED BY <3>3, <3>4
  <2> QED BY <1>2, <2>1, <2>2
<1>8. HasItsOwn' /\ StaleOk' /\ TheyHaveTheirs'
  BY <1>2, <1>7 DEF HasItsOwn, StaleOk, Stale, TheyHaveTheirs, Behind
<1> QED BY <1>8 DEF Owned

\* The descriptor of s is closed and stays in s->fd: it alone is stale.
LEMMA WriteFailsOwned ==
  ASSUME ClientAssumption, Control, Owned, NEW s \in DOMAIN evs, pc = "events", WriteFails(s)
  PROVE  Owned'
<1>1. PICK f : f = fd[s]
  OBVIOUS
<1>2. /\ owner' = [owner EXCEPT ![f] = "free"]
      /\ evs' = [evs EXCEPT ![s] = {}] /\ pc' = "closing" /\ UNCHANGED <<fd, theirs>>
  BY <1>1 DEF WriteFails
<1>3. s \in Servers /\ f \in Fds /\ owner[f] = s /\ \A t \in DOMAIN evs \ {s} : evs[t] # {}
  BY <1>1, InService, InServiceOwned DEF Behind
<1>4. \A t \in Servers : Stale(t)' <=> t = s
  BY <1>2, <1>3 DEF Stale
<1>5. /\ owner'[f] = "free" /\ \A g \in Fds \ {f} : owner'[g] = owner[g]
      /\ \A t \in Servers : fd[t] \in Fds \cup {NoFd}
      /\ \A o \in Others : theirs[o] \in Fds \cup {NoFd}
  BY <1>2, <1>3 DEF Control, ControlType
<1>6. HasItsOwn'
  <2> SUFFICES ASSUME NEW t \in Servers \ {s}, fd[t] # NoFd PROVE owner'[fd[t]] = t
    BY <1>2, <1>4 DEF HasItsOwn, Behind
  <2>1. owner[fd[t]] = t
    BY InServiceOwned DEF Behind
  <2> QED BY <1>3, <1>5, <2>1
<1>7. StaleOk'
  BY <1>1, <1>2, <1>4, <1>5 DEF StaleOk, Behind
<1>8. TheyHaveTheirs'
  BY <1>2, <1>3, <1>5, Names DEF Owned, TheyHaveTheirs
<1> QED BY <1>6, <1>7, <1>8 DEF Owned

\* A free descriptor is no socket's, and what another thread closes is its own.
LEMMA ForeignOwned ==
  ASSUME ClientAssumption, Control, Owned, NEW o \in Others, OpenForeign(o) \/ CloseForeign(o)
  PROVE  Owned'
<1>1. PICK f \in Fds, now \in {o, "free"} :
        /\ owner' = [owner EXCEPT ![f] = now] /\ UNCHANGED <<fd, pc, evs>>
        /\ \/ /\ now = o /\ owner[f] = "free" /\ f # NoFd
              /\ theirs' = [theirs EXCEPT ![o] = f]
           \/ /\ now = "free" /\ owner[f] = o
              /\ theirs' = [theirs EXCEPT ![o] = NoFd]
  <2>1. CASE OpenForeign(o)
    BY <2>1, LowestIsFree DEF OpenForeign
  <2>2. CASE CloseForeign(o)
    BY <2>2 DEF CloseForeign, Control, ControlType, Owned, TheyHaveTheirs
  <2> QED BY <2>1, <2>2
<1>2. /\ owner'[f] = now /\ \A g \in Fds \ {f} : owner'[g] = owner[g]
      /\ \A t \in Servers : fd[t] \in Fds \cup {NoFd}
      /\ \A p \in Others : theirs[p] \in Fds \cup {NoFd}
      /\ \A p \in Others \ {o} : theirs'[p] = theirs[p]
      /\ theirs'[o] = IF now = o THEN f ELSE NoFd
  BY <1>1, Names DEF Control, ControlType
<1>3. \A t \in Servers : Stale(t)' <=> Stale(t)
  BY <1>1 DEF Stale
<1>4. HasItsOwn'
  <2>1. \A t \in Servers : fd[t] # NoFd => owner[fd[t]] = t \/ Stale(t)
    BY DEF Owned, HasItsOwn, Behind
  <2>2. \A t \in Servers : fd[t] # NoFd => owner'[fd[t]] = t \/ Stale(t)'
    BY <1>1, <1>2, <1>3, <2>1, Names
  <2> QED BY <1>1, <2>2 DEF HasItsOwn, Behind
<1>5. StaleOk'
  <2>1. \A t \in Servers : Stale(t) => fd[t] \in Fds /\ owner[fd[t]] \in Others \cup {"free"}
    BY <1>2 DEF Control, Owned, StaleOk, EventsOk, Stale, Behind
  <2>2. \A t \in Servers : Stale(t) => owner'[fd[t]] \in Others \cup {"free"}
    BY <1>2, <2>1
  <2> QED BY <1>1, <1>3, <2>2 DEF StaleOk, Behind
<1>6. TheyHaveTheirs'
  <2> SUFFICES ASSUME NEW p \in Others, theirs'[p] # NoFd PROVE owner'[theirs'[p]] = p
    BY DEF TheyHaveTheirs
  <2>1. CASE p = o
    BY <1>1, <1>2, <2>1
  <2>2. CASE p # o
    <3>1. theirs'[p] = theirs[p] /\ owner[theirs[p]] = p /\ theirs[p] \in Fds
      BY <1>2, <2>2 DEF Owned, TheyHaveTheirs
    <3> QED BY <1>1, <1>2, <2>2, <3>1, Names
  <2> QED BY <2>1, <2>2
<1> QED BY <1>4, <1>5, <1>6 DEF Owned

\* Until the second close hits another thread's descriptor, everyone keeps its
\* own.
LEMMA OwnedStep ==
  ASSUME ClientAssumption, Control, Owned, [Next]_vars, ~robbed'
  PROVE  Owned'
<1>1. ASSUME UNCHANGED <<fd, owner, theirs, pc, evs>> PROVE Owned'
  BY <1>1, OwnedKept DEF Stale
<1>2. ASSUME UNCHANGED <<fd, owner, theirs>>, pc # "closing", pc' # "closing" PROVE Owned'
  BY <1>2, OwnedKept DEF Stale
<1>3. CASE Starting
  <2>1. CASE StartThread \/ AddFails
    BY <1>2, <2>1 DEF StartThread, AddFails
  <2>2. ASSUME NEW s \in Servers, AddServer(s) PROVE Owned'
    BY <2>2, ConnectedOwned DEF AddServer
  <2> QED BY <1>3, <2>1, <2>2 DEF Starting
<1>4. CASE Appending
  BY <1>1, <1>4 DEF Appending, AppendCmd, dispatcher
<1>5. CASE ProcessRequest
  <2>1. CASE SkipCommand
    BY <1>1, <2>1 DEF SkipCommand
  <2>2. ASSUME NEW s \in Servers, GiveUp(s) \/ SendConnected(s) \/ SendElsewhere(s) PROVE Owned'
    BY <1>1, <2>2 DEF GiveUp, SendConnected, SendElsewhere
  <2>3. ASSUME NEW s \in Servers, SendReconnected(s), pc = "queue" PROVE Owned'
    BY <2>3, ConnectedOwned DEF SendReconnected
  <2> QED BY <1>5, <2>1, <2>2, <2>3 DEF ProcessRequest
<1>6. CASE QueueEmpty \/ Poll
  BY <1>2, <1>6 DEF QueueEmpty, Poll
<1>7. CASE ServeEvent
  <2>1. PICK s \in DOMAIN evs :
          \/ /\ pc = "events"
             /\ Receive(s) \/ ReceiveFails(s) \/ WriteCached(s) \/ SocketError(s) \/ WriteFails(s)
          \/ CloseAgain(s)
    BY <1>7 DEF ServeEvent
  <2>2. CASE pc = "events" /\ (Receive(s) \/ WriteCached(s))
    BY <1>2, <2>2 DEF Receive, WriteCached, Served
  <2>3. CASE pc = "events" /\ WriteFails(s)
    BY <2>3, WriteFailsOwned
  <2>4. CASE (pc = "events" /\ (ReceiveFails(s) \/ SocketError(s))) \/ CloseAgain(s)
    <3>1. /\ CloseAndReconnect(s) /\ UNCHANGED theirs /\ pc \in {"events", "closing"}
          /\ pc = "events" \/ evs[s] = {}
      BY <2>4 DEF ReceiveFails, SocketError, CloseAgain
    <3>2. Behind(s) \notin Others
      BY <3>1 DEF CloseAndReconnect, Reconnect
    <3> QED BY <3>1, <3>2, CloseAndReconnectOwned
  <2> QED BY <2>1, <2>2, <2>3, <2>4
<1>8. CASE Serving
  BY <1>1, <1>8 DEF Serving, Drain, Reply, Break, Reset
<1>9. CASE Foreign
  <2>1. ASSUME NEW o \in Others, UseForeign(o) PROVE Owned'
    BY <1>1, <2>1 DEF UseForeign
  <2> QED BY <1>9, <2>1, ForeignOwned DEF Foreign
<1>10. CASE UNCHANGED vars
  BY <1>1, <1>10 DEF vars
<1> QED BY <1>3, <1>4, <1>5, <1>6, <1>7, <1>8, <1>9, <1>10 DEF Next, Dispatching

-----------------------------------------------------------------------------
(* The bytes, whatever file they go to *)

\* At most one cache changes, and what one connection was sent or which
\* connections there are.
LEMMA BytesTyped ==
  ASSUME ContentType,
         dest' \in Seq(Servers \cup {NoServer}), Len(dest') <= MaxCmds,
         taken' \in Nat, taken <= taken', taken' <= Len(dest'),
         \/ sc' = sc
         \/ \E s \in Servers : \E cache \in Seq(KeptBytes(taken')) :
              Distinct(cache) /\ sc' = [sc EXCEPT ![s] = cache],
         \/ wire' = wire
         \/ \E t \in Servers : \E out \in Seq(SentBytes(taken')) : wire' = [wire EXCEPT ![t] = out]
         \/ \E lost : wire' = [t \in Servers |-> IF t \in lost THEN << >> ELSE wire[t]],
         torn' \in [Servers -> BOOLEAN]
  PROVE  ContentType'
<1>1. taken \in Nat
  BY DEF ContentType
<1>2. KeptBytes(taken) \subseteq KeptBytes(taken') /\ SentBytes(taken) \subseteq SentBytes(taken')
  BY <1>1, MoreBytes
<1>3. sc \in [Servers -> Seq(KeptBytes(taken'))] /\ wire \in [Servers -> Seq(SentBytes(taken'))]
  BY <1>2 DEF ContentType
<1>4. sc' \in [Servers -> Seq(KeptBytes(taken'))] /\ \A s \in Servers : Distinct(sc'[s])
  <2>1. CASE sc' = sc
    BY <1>3, <2>1 DEF ContentType
  <2>2. ASSUME NEW s \in Servers, NEW cache \in Seq(KeptBytes(taken')),
               Distinct(cache), sc' = [sc EXCEPT ![s] = cache]
        PROVE  sc' \in [Servers -> Seq(KeptBytes(taken'))] /\ \A t \in Servers : Distinct(sc'[t])
    <3>1. sc' \in [Servers -> Seq(KeptBytes(taken'))]
      BY <1>3, <2>2
    <3>2. sc'[s] = cache /\ \A t \in Servers \ {s} : sc'[t] = sc[t]
      BY <1>3, <2>2
    <3> QED BY <2>2, <3>1, <3>2 DEF ContentType
  <2> QED BY <2>1, <2>2
<1>5. wire' \in [Servers -> Seq(SentBytes(taken'))]
  <2>1. CASE wire' = wire
    BY <1>3, <2>1
  <2>2. ASSUME NEW t \in Servers, NEW out \in Seq(SentBytes(taken')), wire' = [wire EXCEPT ![t] = out]
        PROVE  wire' \in [Servers -> Seq(SentBytes(taken'))]
    BY <1>3, <2>2
  <2>3. ASSUME NEW lost, wire' = [t \in Servers |-> IF t \in lost THEN << >> ELSE wire[t]]
        PROVE  wire' \in [Servers -> Seq(SentBytes(taken'))]
    <3>1. << >> \in Seq(SentBytes(taken'))
      OBVIOUS
    <3> QED BY <1>3, <2>3, <3>1
  <2> QED BY <2>1, <2>2, <2>3
<1>6. taken' \in 0 .. Len(dest')
  BY DEF ContentType
<1> QED BY <1>4, <1>5, <1>6 DEF ContentType

\* No command is appended, taken or written, but connections may be closed.
LEMMA TypedStays ==
  ASSUME ContentType, UNCHANGED <<dest, taken, sc>>, torn' \in [Servers -> BOOLEAN],
         wire' = wire \/ \E lost : Lose(lost)
  PROVE  ContentType'
<1>1. /\ dest \in Seq(Servers \cup {NoServer}) /\ Len(dest) <= MaxCmds
      /\ taken \in Nat /\ taken <= taken /\ taken <= Len(dest)
  BY DEF ContentType
<1>2. \/ wire' = wire
      \/ \E lost : wire' = [t \in Servers |-> IF t \in lost THEN << >> ELSE wire[t]]
  BY DEF Lose
<1> QED BY <1>1, <1>2, BytesTyped

\* The next command is sent.
LEMMA SentTyped ==
  ASSUME ClientAssumption, ContentType, NEW s \in Servers, NEW t \in Servers,
         NEW cache \in Seq(KeptBytes(taken)), Distinct(cache),
         NEW sent \in Seq(SentBytes(taken)), NEW isTorn \in BOOLEAN,
         Sent(s, t, cache, sent, isTorn),
         taken < Len(dest), taken' = taken + 1, UNCHANGED dest
  PROVE  ContentType'
<1>1. PICK o : /\ Outcome(o, taken, cache)
               /\ wire' = [wire EXCEPT ![t] = sent \o o.out]
               /\ sc' = [sc EXCEPT ![s] = o.cache]
               /\ torn' = [torn EXCEPT ![t] =
                            \/ isTorn
                            \/ fd[s] # NoFd /\ cache # << >>
                            \/ Len(o.out) - Len(cache) \in 1 .. CmdLen - 1 /\ o.cache = cache]
  BY Zenon DEF Sent
<1>2. PICK b : b = (\/ isTorn
                    \/ fd[s] # NoFd /\ cache # << >>
                    \/ Len(o.out) - Len(cache) \in 1 .. CmdLen - 1 /\ o.cache = cache)
  OBVIOUS
<1>3. torn' = [torn EXCEPT ![t] = b] /\ b \in BOOLEAN
  BY <1>1, <1>2, Zenon
<1>4. torn' \in [Servers -> BOOLEAN]
  BY <1>3 DEF ContentType
<1>5. /\ dest' \in Seq(Servers \cup {NoServer}) /\ Len(dest') <= MaxCmds
      /\ taken \in Nat /\ taken' \in Nat /\ taken <= taken' /\ taken' <= Len(dest')
  BY DEF ContentType
<1>6. o.out \in Seq(SentBytes(taken')) /\ o.cache \in Seq(KeptBytes(taken')) /\ Distinct(o.cache)
  BY <1>1, <1>5, SendKeepsTypes
<1>7. PICK out : out = sent \o o.out
  OBVIOUS
<1>8. out \in Seq(SentBytes(taken'))
  <2>1. SentBytes(taken) \subseteq SentBytes(taken')
    BY <1>5, MoreBytes
  <2>2. sent \in Seq(SentBytes(taken'))
    BY <2>1
  <2> QED BY <1>6, <1>7, <2>2, Together
<1>9. wire' = [wire EXCEPT ![t] = out]
  BY <1>1, <1>7
<1> QED BY <1>1, <1>4, <1>5, <1>6, <1>8, <1>9, BytesTyped

LEMMA ProcessRequestTyped ==
  ASSUME ClientAssumption, Control, ContentType, ProcessRequest
  PROVE  ContentType'
<1>1. /\ taken \in Nat /\ Len(dest) \in Nat /\ taken < Len(dest) /\ pc = "queue"
      /\ dest \in Seq(Servers \cup {NoServer}) /\ Len(dest) <= MaxCmds /\ torn \in [Servers -> BOOLEAN]
  BY DEF ProcessRequest, ContentType
<1>2. ASSUME taken' = taken + 1, UNCHANGED <<dest, wire, torn>>,
             \/ sc' = sc
             \/ \E s \in Servers : \E cache \in Seq(KeptBytes(taken')) :
                  Distinct(cache) /\ sc' = [sc EXCEPT ![s] = cache]
      PROVE  ContentType'
  <2>1. taken' \in Nat /\ taken <= taken' /\ taken' <= Len(dest')
    BY <1>1, <1>2
  <2> QED BY <1>1, <1>2, <2>1, BytesTyped
<1>3. CASE SkipCommand
  BY <1>2, <1>3 DEF SkipCommand, histories
<1>4. ASSUME NEW s \in Servers, GiveUp(s) PROVE ContentType'
  BY <1>2, <1>4 DEF GiveUp, histories
<1>5. ASSUME NEW s \in Servers, SendReconnected(s) PROVE ContentType'
  <2>0. PICK no \in BOOLEAN : no = FALSE
    OBVIOUS
  <2>1. PICK nil : nil = << >>
    OBVIOUS
  <2>2. nil \in Seq(KeptBytes(taken)) /\ nil \in Seq(SentBytes(taken)) /\ Distinct(nil)
    BY <2>1 DEF Distinct
  <2>3. Sent(s, s, << >>, << >>, FALSE)
    BY <1>5, SendingFirst
  <2>4. Sent(s, s, nil, nil, no)
    BY <2>0, <2>1, <2>3, Zenon
  <2>5. taken' = taken + 1 /\ UNCHANGED dest
    BY <1>5 DEF SendReconnected
  <2> QED BY <1>1, <2>2, <2>4, <2>5, SentTyped
<1>6. ASSUME NEW s \in Servers, SendConnected(s) PROVE ContentType'
  <2>1. PICK t \in Servers : Sent(s, t, sc[s], wire[t], torn[t])
    BY <1>6, SendingMore
  <2>2. /\ sc[s] \in Seq(KeptBytes(taken)) /\ Distinct(sc[s])
        /\ wire[t] \in Seq(SentBytes(taken)) /\ torn[t] \in BOOLEAN
    BY DEF ContentType
  <2>3. taken' = taken + 1 /\ UNCHANGED dest
    BY <1>6 DEF SendConnected
  <2> QED BY <1>1, <2>1, <2>2, <2>3, SentTyped
<1>7. ASSUME NEW s \in Servers, SendElsewhere(s) PROVE ContentType'
  <2>1. sc[s] \in Seq(KeptBytes(taken)) /\ Distinct(sc[s])
    BY DEF ContentType
  <2>2. PICK room \in Nat : \E o \in SendData(sc[s], Bytes(taken + 1), room) \cup SendErrors(sc[s], room) :
           sc' = [sc EXCEPT ![s] = o.cache]
    <3>1. 0 .. Len(sc[s]) + CmdLen \subseteq Nat /\ 0 \in Nat
      OBVIOUS
    <3>2. PICK room \in 0 .. Len(sc[s]) + CmdLen :
            \E o \in IF Behind(s) = "free" THEN SendErrors(sc[s], 0)
                     ELSE SendData(sc[s], Bytes(taken + 1), room) \cup SendErrors(sc[s], room) :
              sc' = [sc EXCEPT ![s] = o.cache]
      BY <1>7, Zenon DEF SendElsewhere
    <3>3. CASE Behind(s) = "free"
      <4>1. PICK o \in SendErrors(sc[s], 0) : sc' = [sc EXCEPT ![s] = o.cache]
        BY <3>2, <3>3
      <4> QED BY <3>1, <4>1
    <3>4. CASE Behind(s) # "free"
      <4>1. PICK o \in SendData(sc[s], Bytes(taken + 1), room) \cup SendErrors(sc[s], room) :
              sc' = [sc EXCEPT ![s] = o.cache]
        BY <3>2, <3>4
      <4> QED BY <3>1, <4>1
    <3> QED BY <3>3, <3>4
  <2>3. PICK o \in SendData(sc[s], Bytes(taken + 1), room) \cup SendErrors(sc[s], room) :
          sc' = [sc EXCEPT ![s] = o.cache]
    BY <2>2
  <2>4. Outcome(o, taken, sc[s])
    BY <1>1, <2>1, <2>3, SendOutcome
  <2>5. o.cache \in Seq(KeptBytes(taken + 1)) /\ Distinct(o.cache)
    BY <1>1, <2>1, <2>4, SendKeepsTypes
  <2>6. taken' = taken + 1 /\ UNCHANGED <<dest, wire, torn>>
    BY <1>7 DEF SendElsewhere, histories
  <2> QED BY <1>2, <2>3, <2>5, <2>6
<1> QED BY <1>3, <1>4, <1>5, <1>6, <1>7 DEF ProcessRequest

\* What is written leaves the cache.
LEMMA WriteCachedTyped ==
  ASSUME ClientAssumption, Control, ContentType, NEW s \in DOMAIN evs, pc = "events", WriteCached(s)
  PROVE  ContentType'
<1>1. /\ s \in Servers /\ sc[s] \in Seq(KeptBytes(taken)) /\ Distinct(sc[s]) /\ taken \in Nat
      /\ dest \in Seq(Servers \cup {NoServer}) /\ Len(dest) <= MaxCmds
      /\ taken <= taken /\ taken <= Len(dest) /\ torn \in [Servers -> BOOLEAN]
  BY InService DEF ContentType
<1>2. UNCHANGED <<dest, taken, torn>>
  BY DEF WriteCached
<1>3. ASSUME NEW room \in Nat, NEW o, o = Flush(sc[s], room)
      PROVE  /\ o.cache \in Seq(KeptBytes(taken)) /\ Distinct(o.cache)
             /\ o.out \in Seq(SentBytes(taken))
  <2>1. /\ o.out \in Seq(KeptBytes(taken)) /\ o.cache \in Seq(KeptBytes(taken))
        /\ o.out \o o.cache = sc[s]
    BY <1>1, <1>3, FlushKeepsBytes
  <2>2. o.out \o o.cache \in Seq(KeptBytes(taken)) /\ Distinct(o.out \o o.cache)
    BY <1>1, <2>1
  <2>3. Distinct(o.cache)
    BY <2>1, <2>2, PartsOf
  <2>4. KeptBytes(taken) \subseteq SentBytes(taken)
    BY <1>1, MoreBytes
  <2> QED BY <2>1, <2>3, <2>4
<1>4. CASE /\ \E room \in 0 .. Len(sc[s]) : sc' = [sc EXCEPT ![s] = Flush(sc[s], room).cache]
           /\ UNCHANGED wire
  <2>1. \A room \in 0 .. Len(sc[s]) : room \in Nat
    OBVIOUS
  <2>2. PICK room \in Nat : sc' = [sc EXCEPT ![s] = Flush(sc[s], room).cache]
    BY <1>4, <2>1, Zenon
  <2>3. PICK o : o = Flush(sc[s], room) /\ sc' = [sc EXCEPT ![s] = o.cache]
    BY <2>2
  <2>4. o.cache \in Seq(KeptBytes(taken')) /\ Distinct(o.cache)
    BY <1>2, <1>3, <2>3
  <2> QED BY <1>1, <1>2, <1>4, <2>3, <2>4, BytesTyped
<1>5. ASSUME NEW t \in Servers, NEW o, o = Flush(sc[s], SndBuf - sock[t].unread),
             wire' = [wire EXCEPT ![t] = wire[t] \o o.out], sc' = [sc EXCEPT ![s] = o.cache]
      PROVE  ContentType'
  <2>1. SndBuf - sock[t].unread \in Nat
    BY DEF Control, SocketsOk, Socket, ClientAssumption
  <2>2. /\ o.cache \in Seq(KeptBytes(taken')) /\ Distinct(o.cache)
        /\ o.out \in Seq(SentBytes(taken'))
    BY <1>2, <1>3, <1>5, <2>1
  <2>3. wire[t] \in Seq(SentBytes(taken'))
    BY <1>2 DEF ContentType
  <2>4. PICK out \in Seq(SentBytes(taken')) : out = wire[t] \o o.out
    BY <2>2, <2>3, Together
  <2>5. wire' = [wire EXCEPT ![t] = out]
    BY <1>5, <2>4
  <2> QED BY <1>1, <1>2, <1>5, <2>2, <2>5, BytesTyped
<1> QED BY <1>4, <1>5 DEF WriteCached

\* Every step keeps the bytes bytes of commands, and those of a cache distinct.
LEMMA TypedStep ==
  ASSUME ClientAssumption, Control, ContentType, [Next]_vars
  PROVE  ContentType'
<1>1. torn \in [Servers -> BOOLEAN]
  BY DEF ContentType
<1>2. ASSUME UNCHANGED <<dest, taken, sc, torn, wire>> PROVE ContentType'
  BY <1>1, <1>2, TypedStays
<1>3. CASE Starting
  BY <1>2, <1>3 DEF Starting, StartThread, AddFails, AddServer, histories
<1>4. CASE Appending
  <2>1. PICK s \in Servers \cup {NoServer} : AppendCmd(s)
    BY <1>4 DEF Appending
  <2>2. Len(dest) < MaxCmds /\ dest' = Append(dest, s) /\ UNCHANGED <<sc, wire, torn, taken>>
    BY <2>1 DEF AppendCmd, dispatcher, histories
  <2>3. /\ dest \in Seq(Servers \cup {NoServer}) /\ Len(dest) \in Nat
        /\ taken \in Nat /\ taken <= Len(dest) /\ MaxCmds \in Nat
    BY DEF ContentType, ClientAssumption
  <2>4. dest' \in Seq(Servers \cup {NoServer}) /\ Len(dest') = Len(dest) + 1
    BY <2>2, <2>3
  <2>5. Len(dest') <= MaxCmds /\ taken' \in Nat /\ taken <= taken' /\ taken' <= Len(dest')
    BY <2>2, <2>3, <2>4
  <2> QED BY <1>1, <2>2, <2>4, <2>5, BytesTyped
<1>5. CASE ProcessRequest
  BY <1>5, ProcessRequestTyped
<1>6. CASE QueueEmpty \/ Poll
  BY <1>2, <1>6 DEF QueueEmpty, Poll, histories
<1>7. CASE ServeEvent
  <2>1. PICK s \in DOMAIN evs :
          \/ /\ pc = "events"
             /\ Receive(s) \/ ReceiveFails(s) \/ WriteCached(s) \/ SocketError(s) \/ WriteFails(s)
          \/ CloseAgain(s)
    BY <1>7 DEF ServeEvent
  <2>2. CASE Receive(s)
    BY <1>2, <2>2 DEF Receive, histories
  <2>3. CASE ReceiveFails(s) \/ SocketError(s) \/ CloseAgain(s)
    <3>1. CloseAndReconnect(s) /\ UNCHANGED <<dest, taken, sc>>
      BY <2>3 DEF ReceiveFails, SocketError, CloseAgain
    <3>2. Lose({s, Behind(s)}) /\ torn' = [torn EXCEPT ![s] = sc[s] # << >>]
      BY <3>1 DEF CloseAndReconnect, Reconnect
    <3>3. torn' \in [Servers -> BOOLEAN]
      <4>1. PICK b : b = (sc[s] # << >>)
        OBVIOUS
      <4>2. b \in BOOLEAN /\ torn' = [torn EXCEPT ![s] = b]
        BY <3>2, <4>1, Zenon
      <4> QED BY <1>1, <4>2
    <3> QED BY <3>1, <3>2, <3>3, TypedStays
  <2>4. CASE pc = "events" /\ WriteCached(s)
    BY <2>4, WriteCachedTyped
  <2>5. CASE pc = "events" /\ WriteFails(s)
    <3>1. /\ sc' = [sc EXCEPT ![s] = << >>] /\ Lose({s, Behind(s)})
          /\ UNCHANGED <<dest, taken, torn>>
      BY <2>5 DEF WriteFails
    <3>2. /\ dest \in Seq(Servers \cup {NoServer}) /\ Len(dest) <= MaxCmds
          /\ taken' \in Nat /\ taken <= taken' /\ taken' <= Len(dest')
      BY <3>1 DEF ContentType
    <3>3. PICK nil : nil = << >>
      OBVIOUS
    <3>4. nil \in Seq(KeptBytes(taken')) /\ Distinct(nil) /\ sc' = [sc EXCEPT ![s] = nil] /\ s \in Servers
      BY <2>5, <3>1, <3>3, InService DEF Distinct
    <3>5. \E lost : wire' = [t \in Servers |-> IF t \in lost THEN << >> ELSE wire[t]]
      BY <3>1 DEF Lose
    <3> QED BY <1>1, <3>1, <3>2, <3>4, <3>5, BytesTyped
  <2> QED BY <2>1, <2>2, <2>3, <2>4, <2>5
<1>8. CASE Serving
  BY <1>2, <1>8 DEF Serving, Drain, Reply, Break, Reset, histories
<1>9. CASE Foreign
  <2>1. ASSUME NEW o \in Others, OpenForeign(o) \/ UseForeign(o) PROVE ContentType'
    BY <1>2, <2>1 DEF OpenForeign, UseForeign, histories
  <2>2. ASSUME NEW o \in Others, CloseForeign(o) PROVE ContentType'
    <3>1. UNCHANGED <<dest, taken, sc, torn>> /\ \E lost : Lose(lost)
      BY <2>2 DEF CloseForeign
    <3> QED BY <1>1, <3>1, TypedStays
  <2> QED BY <1>9, <2>1, <2>2 DEF Foreign
<1>10. CASE UNCHANGED vars
  BY <1>2, <1>10 DEF vars
<1> QED BY <1>3, <1>4, <1>5, <1>6, <1>7, <1>8, <1>9, <1>10 DEF Next, Dispatching

-----------------------------------------------------------------------------
(* What the bytes are, while no other thread is robbed of a descriptor *)

\* A record of the commands taken is the same after more are appended.
LEMMA OrderKept ==
  ASSUME NEW t \in Nat, NEW bytes \in Seq(SentBytes(t)), NEW d, NEW e, NEW srv,
         InStartOrder(bytes, d, srv), \A i \in 1 .. t : e[i] = d[i]
  PROVE  InStartOrder(bytes, e, srv)
<1>1. \A n \in DOMAIN bytes : bytes[n][1] \in 1 .. t
  BY DEF SentBytes
<1> QED BY <1>1 DEF InStartOrder

\* No byte is written or cached, and nothing is connected.
LEMMA BytesStay ==
  ASSUME Content, UNCHANGED <<sc, wire, torn, dest>>,
         \A s \in Servers : fd'[s] # NoFd => fd[s] # NoFd,
         pc' = "init" => pc = "init"
  PROVE  Content'
BY DEF Content, NothingYet, AllInOrder, AllWhole

LEMMA AppendContent ==
  ASSUME ContentType, Content, NEW s \in Servers \cup {NoServer}, AppendCmd(s)
  PROVE  Content'
<1>1. dest' = Append(dest, s) /\ UNCHANGED <<sc, wire, torn, fd, pc>>
  BY DEF AppendCmd, dispatcher, histories
<1>2. dest \in Seq(Servers \cup {NoServer}) /\ Len(dest) \in Nat /\ taken \in Nat /\ taken <= Len(dest)
  BY DEF ContentType
<1>3. \A i \in 1 .. taken : dest'[i] = dest[i]
  BY <1>1, <1>2
<1>4. AllInOrder'
  <2> SUFFICES ASSUME NEW t \in Servers PROVE InStartOrder(wire[t], dest', t)
    BY <1>1 DEF AllInOrder
  <2>1. wire[t] \in Seq(SentBytes(taken)) /\ InStartOrder(wire[t], dest, t)
    BY DEF Content, ContentType, AllInOrder
  <2> QED BY <1>2, <1>3, <2>1, OrderKept
<1>5. NothingYet' /\ AllWhole'
  BY <1>1 DEF Content, NothingYet, AllWhole
<1> QED BY <1>4, <1>5 DEF Content

\* What is written on the connection of s and what is cached for s change.
LEMMA BytesOfOne ==
  ASSUME ContentType, Content, NEW s \in Servers, NEW out, NEW cache, NEW isTorn \in BOOLEAN,
         wire' = [wire EXCEPT ![s] = out], sc' = [sc EXCEPT ![s] = cache],
         torn' = [torn EXCEPT ![s] = isTorn], UNCHANGED dest, pc' # "init",
         \A t \in Servers \ {s} : fd'[t] # NoFd => fd[t] # NoFd,
         InStartOrder(out, dest, s),
         fd'[s] # NoFd /\ ~isTorn => Whole(out \o cache)
  PROVE  Content'
<1>1. /\ wire \in [Servers -> Seq(SentBytes(taken))] /\ sc \in [Servers -> Seq(KeptBytes(taken))]
      /\ torn \in [Servers -> BOOLEAN]
  BY DEF ContentType
<1>2. /\ wire'[s] = out /\ sc'[s] = cache /\ torn'[s] = isTorn
      /\ \A t \in Servers \ {s} : wire'[t] = wire[t] /\ sc'[t] = sc[t] /\ torn'[t] = torn[t]
  BY <1>1, Zenon
<1>3. AllInOrder'
  BY <1>2 DEF Content, AllInOrder
<1>4. AllWhole'
  <2> SUFFICES ASSUME NEW t \in Servers, fd'[t] # NoFd, ~torn'[t] PROVE Whole(wire'[t] \o sc'[t])
    BY DEF AllWhole
  <2>1. CASE t = s
    BY <1>2, <2>1
  <2>2. CASE t # s
    BY <1>2, <2>2 DEF Content, AllWhole
  <2> QED BY <2>1, <2>2
<1> QED BY <1>3, <1>4 DEF Content, NothingYet

\* The connection of s is lost, and of no other server.
LEMMA LostOne ==
  ASSUME Control, ContentType, NEW s \in Servers, NEW b \in Others \cup {s, "free"},
         ClientAssumption, Lose({s, b})
  PROVE  wire' = [wire EXCEPT ![s] = << >>]
<1>1. \A t \in Servers : t \in {s, b} <=> t = s
  BY Names
<1>2. wire' = [t \in Servers |-> IF t \in {s, b} THEN << >> ELSE wire[t]]
  BY DEF Lose
<1>3. wire' = [t \in Servers |-> IF t = s THEN << >> ELSE wire[t]]
  BY <1>1, <1>2
<1>4. wire \in [Servers -> Seq(SentBytes(taken))]
  BY DEF ContentType
<1> QED BY <1>3, <1>4

\* The next command is sent on a connection that got these bytes before.
LEMMA SentContent ==
  ASSUME ClientAssumption, ContentType, Content, NEW s \in Servers,
         NEW cache \in Seq(KeptBytes(taken)), Distinct(cache),
         NEW sent \in Seq(SentBytes(taken)), InStartOrder(sent, dest, s),
         NEW isTorn \in BOOLEAN, Sent(s, s, cache, sent, isTorn),
         fd[s] = NoFd => cache = << >>,
         ~isTorn /\ cache = << >> => Whole(sent),
         dest[taken + 1] = s, UNCHANGED dest, pc' # "init",
         \A t \in Servers \ {s} : fd'[t] # NoFd => fd[t] # NoFd
  PROVE  Content'
<1>1. PICK o : /\ Outcome(o, taken, cache)
               /\ wire' = [wire EXCEPT ![s] = sent \o o.out]
               /\ sc' = [sc EXCEPT ![s] = o.cache]
               /\ torn' = [torn EXCEPT ![s] =
                            \/ isTorn
                            \/ fd[s] # NoFd /\ cache # << >>
                            \/ Len(o.out) - Len(cache) \in 1 .. CmdLen - 1 /\ o.cache = cache]
  BY Zenon DEF Sent
<1>2. PICK b : b = (\/ isTorn
                    \/ fd[s] # NoFd /\ cache # << >>
                    \/ Len(o.out) - Len(cache) \in 1 .. CmdLen - 1 /\ o.cache = cache)
  OBVIOUS
<1>3. torn' = [torn EXCEPT ![s] = b] /\ b \in BOOLEAN
  BY <1>1, <1>2, Zenon
<1>4. taken \in Nat
  BY DEF ContentType
<1>5. o.out \in Seq(SentBytes(taken + 1))
  BY <1>1, <1>4, SendKeepsTypes
<1>6. PICK out : out = sent \o o.out
  OBVIOUS
<1>7. InStartOrder(out, dest, s)
  BY <1>1, <1>4, <1>6, SendKeepsOrder
<1>8. ASSUME ~b PROVE Whole(out \o o.cache)
  <2>1. /\ ~isTorn /\ cache = << >>
        /\ ~(Len(o.out) - Len(cache) \in 1 .. CmdLen - 1 /\ o.cache = cache)
    BY <1>2, <1>8
  <2>2. Len(cache) = 0 /\ Len(o.out) \in Nat
    BY <1>5, <2>1
  <2>3. ~(Len(o.out) \in 1 .. CmdLen - 1 /\ o.cache = << >>)
    BY <2>1, <2>2
  <2>4. Outcome(o, taken, << >>) /\ Whole(sent)
    BY <1>1, <2>1
  <2> QED BY <1>4, <1>6, <2>3, <2>4, SendKeepsWhole
<1>9. wire' = [wire EXCEPT ![s] = out] /\ sc' = [sc EXCEPT ![s] = o.cache]
  BY <1>1, <1>6
<1> QED BY <1>3, <1>7, <1>8, <1>9, BytesOfOne

LEMMA SendConnectedContent ==
  ASSUME ClientAssumption, Control, ContentType, Owned, Content,
         NEW s \in Servers, SendConnected(s), pc = "queue", dest[taken + 1] = s
  PROVE  Content'
<1>1. UNCHANGED <<pc, dest, fd>> /\ fd[s] # NoFd
  BY DEF SendConnected
<1>2. Sent(s, s, sc[s], wire[s], torn[s])
  <2>1. PICK t \in Servers : Behind(s) = t /\ Sent(s, t, sc[s], wire[t], torn[t])
    BY SendingMore
  <2>2. Behind(s) = s
    BY <1>1, InServiceOwned
  <2> QED BY <2>1, <2>2
<1>3. /\ sc[s] \in Seq(KeptBytes(taken)) /\ Distinct(sc[s])
      /\ wire[s] \in Seq(SentBytes(taken)) /\ torn[s] \in BOOLEAN
      /\ InStartOrder(wire[s], dest, s)
  BY DEF Content, ContentType, AllInOrder
<1>4. ~torn[s] /\ sc[s] = << >> => Whole(wire[s])
  <2>1. ~torn[s] => Whole(wire[s] \o sc[s])
    BY <1>1 DEF Content, AllWhole
  <2>2. wire[s] \o << >> = wire[s]
    BY <1>3, ConcatEmptySeq
  <2> QED BY <2>1, <2>2
<1> QED BY <1>1, <1>2, <1>3, <1>4, SentContent

LEMMA SendReconnectedContent ==
  ASSUME ClientAssumption, Control, ContentType, Content, NEW s \in Servers, SendReconnected(s),
         pc = "queue", dest[taken + 1] = s
  PROVE  Content'
<1>1. PICK no \in BOOLEAN : no = FALSE
  OBVIOUS
<1>2. PICK nil : nil = << >>
  OBVIOUS
<1>3. /\ nil \in Seq(KeptBytes(taken)) /\ nil \in Seq(SentBytes(taken)) /\ Distinct(nil)
      /\ InStartOrder(nil, dest, s) /\ Whole(nil)
  BY <1>2 DEF Distinct, InStartOrder, Whole
<1>4. Sent(s, s, << >>, << >>, FALSE)
  BY SendingFirst
<1>5. Sent(s, s, nil, nil, no)
  BY <1>1, <1>2, <1>4, Zenon
<1>6. UNCHANGED <<pc, dest>> /\ \A t \in Servers \ {s} : fd'[t] = fd[t]
  BY DEF SendReconnected, Control, ControlType
<1> QED BY <1>2, <1>3, <1>5, <1>6, SentContent

\* Nothing was sent or cached before the thread runs.
LEMMA AddServerContent ==
  ASSUME Content, NEW s \in Servers, AddServer(s)
  PROVE  Content'
<1>1. UNCHANGED <<sc, wire, torn, dest>> /\ pc = "init"
  BY DEF AddServer, histories
<1>2. AllInOrder' /\ NothingYet'
  BY <1>1 DEF Content, AllInOrder, NothingYet
<1>3. AllWhole'
  <2>1. \A t \in Servers : wire'[t] \o sc'[t] = << >>
    BY <1>1, ConcatEmptySeq DEF Content, NothingYet
  <2> QED BY <2>1 DEF AllWhole, Whole
<1> QED BY <1>2, <1>3 DEF Content

\* A new connection got nothing yet; what is cached is sent over it later.
LEMMA CloseAndReconnectContent ==
  ASSUME ClientAssumption, Control, ContentType, Owned, Content, NEW s \in DOMAIN evs,
         pc \in {"events", "closing"}, pc = "events" \/ evs[s] = {}, CloseAndReconnect(s),
         Behind(s) \notin Others, UNCHANGED <<dest, sc>>
  PROVE  Content'
<1>1. /\ torn' = [torn EXCEPT ![s] = sc[s] # << >>]
      /\ Lose({s, Behind(s)})
      /\ pc' \in {"queue", "events"}
      /\ \/ fd' = [fd EXCEPT ![s] = NoFd]
         \/ \E g : fd' = [fd EXCEPT ![s] = g]
  BY DEF CloseAndReconnect, Reconnect, Served
<1>2. s \in Servers /\ fd \in [Servers -> Fds \cup {NoFd}] /\ Behind(s) \in {s, "free"}
  BY ClosesNoOther DEF Control, ControlType
<1>3. \A t \in Servers \ {s} : fd'[t] = fd[t]
  BY <1>1, <1>2
<1>4. wire' = [wire EXCEPT ![s] = << >>]
  BY <1>1, <1>2, LostOne
<1>5. PICK b : b = (sc[s] # << >>)
  OBVIOUS
<1>6. PICK nil, kept : nil = << >> /\ kept = sc[s]
  OBVIOUS
<1>7. b \in BOOLEAN /\ (~b => sc[s] = << >>)
  BY <1>5, Zenon
<1>8. InStartOrder(nil, dest, s) /\ (~b => Whole(nil \o kept))
  <2>1. << >> \o << >> = << >>
    BY ConcatEmptySeq
  <2>2. InStartOrder(nil, dest, s)
    BY <1>6 DEF InStartOrder
  <2>3. Whole(<< >> \o << >>)
    BY <2>1 DEF Whole
  <2> QED BY <1>6, <1>7, <2>2, <2>3
<1>9. /\ wire' = [wire EXCEPT ![s] = nil] /\ torn' = [torn EXCEPT ![s] = b]
      /\ sc' = [sc EXCEPT ![s] = kept]
  BY <1>1, <1>2, <1>4, <1>5, <1>6 DEF ContentType
<1>10. pc' # "init" /\ UNCHANGED dest /\ \A t \in Servers \ {s} : fd'[t] # NoFd => fd[t] # NoFd
  BY <1>1, <1>3
<1> QED BY <1>2, <1>7, <1>8, <1>9, <1>10, BytesOfOne

\* What is written leaves the cache: together they stay as they were.
LEMMA WriteCachedContent ==
  ASSUME ClientAssumption, Control, ContentType, Owned, Content,
         NEW s \in DOMAIN evs, pc = "events", WriteCached(s)
  PROVE  Content'
<1> DEFINE room == SndBuf - sock[s].unread
<1>1. s \in Servers /\ fd[s] # NoFd /\ Behind(s) = s /\ s \notin Others
  BY InService, InServiceOwned, Names
<1>2. PICK o : /\ o = Flush(sc[s], room)
               /\ wire' = [wire EXCEPT ![s] = wire[s] \o o.out] /\ sc' = [sc EXCEPT ![s] = o.cache]
  BY <1>1 DEF WriteCached
<1>3. UNCHANGED <<dest, fd, torn>> /\ pc' \in {"queue", "events"}
  BY DEF WriteCached, Served
<1>4. /\ sc[s] \in Seq(KeptBytes(taken)) /\ wire[s] \in Seq(SentBytes(taken))
      /\ InStartOrder(wire[s], dest, s) /\ taken \in Nat
      /\ torn \in [Servers -> BOOLEAN]
  BY <1>1 DEF Content, ContentType, AllInOrder
<1>5. room \in Nat
  BY <1>1 DEF Socket, ClientAssumption, Control, SocketsOk
<1>6. /\ o.out \in Seq(KeptBytes(taken)) /\ o.cache \in Seq(KeptBytes(taken))
      /\ o.out \o o.cache = sc[s]
  BY <1>2, <1>4, <1>5, FlushKeepsBytes
<1>7. PICK out : out = wire[s] \o o.out
  OBVIOUS
<1>8. KeptBytes(taken) \subseteq SentBytes(taken)
  BY <1>4, MoreBytes
<1>9. o.out \in Seq(SentBytes(taken)) /\ o.cache \in Seq(SentBytes(taken))
  BY <1>6, <1>8
<1>10. InStartOrder(out, dest, s)
  BY <1>4, <1>6, <1>7, KeptInOrder
<1>11. PICK b \in BOOLEAN : b = torn[s]
  BY <1>1, <1>4
<1>12. ~b => Whole(out \o o.cache)
  <2>1. Associative(wire[s], o.out, o.cache)
    BY <1>4, <1>9, Associate
  <2>2. out \o o.cache = wire[s] \o sc[s]
    BY <1>6, <1>7, <2>1 DEF Associative
  <2>3. ~torn[s] => Whole(wire[s] \o sc[s])
    BY <1>1 DEF Content, AllWhole
  <2> QED BY <1>11, <2>2, <2>3
<1>13. wire' = [wire EXCEPT ![s] = out] /\ torn' = [torn EXCEPT ![s] = b]
  BY <1>1, <1>2, <1>3, <1>4, <1>7, <1>11
<1>14. pc' # "init" /\ UNCHANGED dest /\ \A t \in Servers \ {s} : fd'[t] # NoFd => fd[t] # NoFd
  BY <1>3
<1> QED BY <1>1, <1>2, <1>10, <1>12, <1>13, <1>14, BytesOfOne

\* The connection is lost and so is the cache.
LEMMA WriteFailsContent ==
  ASSUME ClientAssumption, Control, ContentType, Owned, Content,
         NEW s \in DOMAIN evs, pc = "events", WriteFails(s)
  PROVE  Content'
<1>1. /\ sc' = [sc EXCEPT ![s] = << >>] /\ Lose({s, Behind(s)})
      /\ pc' = "closing" /\ UNCHANGED <<dest, fd, torn>>
  BY DEF WriteFails
<1>2. s \in Servers /\ Behind(s) = s /\ torn \in [Servers -> BOOLEAN]
  BY InService, InServiceOwned DEF ContentType
<1>3. wire' = [wire EXCEPT ![s] = << >>]
  BY <1>1, <1>2, LostOne
<1>4. PICK nil : nil = << >>
  OBVIOUS
<1>5. PICK b \in BOOLEAN : b = torn[s]
  BY <1>2
<1>6. /\ sc' = [sc EXCEPT ![s] = nil] /\ wire' = [wire EXCEPT ![s] = nil]
      /\ torn' = [torn EXCEPT ![s] = b]
  BY <1>1, <1>2, <1>3, <1>4, <1>5
<1>7. InStartOrder(nil, dest, s)
  BY <1>4 DEF InStartOrder
<1>8. Whole(nil \o nil)
  <2>1. << >> \o << >> = << >>
    BY ConcatEmptySeq
  <2> QED BY <1>4, <2>1 DEF Whole
<1>9. pc' # "init" /\ UNCHANGED dest /\ \A t \in Servers \ {s} : fd'[t] # NoFd => fd[t] # NoFd
  BY <1>1
<1> QED BY <1>2, <1>6, <1>7, <1>8, <1>9, BytesOfOne

\* Until the second close hits another thread's descriptor, every step keeps
\* what is sent and cached in order and whole.
LEMMA ContentStep ==
  ASSUME ClientAssumption, Control, ContentType, Owned, Content, [Next]_vars, ~robbed'
  PROVE  Content'
<1>1. ASSUME UNCHANGED <<sc, wire, torn, dest, fd>>, pc' = "init" => pc = "init" PROVE Content'
  BY <1>1, BytesStay
<1>2. CASE Starting
  <2>1. CASE StartThread \/ AddFails
    BY <1>1, <2>1 DEF StartThread, AddFails, histories
  <2> QED BY <1>2, <2>1, AddServerContent DEF Starting
<1>3. CASE Appending
  BY <1>3, AppendContent DEF Appending
<1>4. CASE ProcessRequest
  <2>1. CASE SkipCommand
    BY <1>1, <2>1 DEF SkipCommand, histories
  <2>2. ASSUME NEW s \in Servers, GiveUp(s) PROVE Content'
    BY <1>1, <2>2 DEF GiveUp, histories
  <2>3. ASSUME NEW s \in Servers, SendElsewhere(s), pc = "queue" PROVE FALSE
    BY <2>3, InServiceOwned DEF SendElsewhere
  <2> QED BY <1>4, <2>1, <2>2, <2>3, SendReconnectedContent, SendConnectedContent DEF ProcessRequest
<1>5. CASE QueueEmpty \/ Poll
  BY <1>1, <1>5 DEF QueueEmpty, Poll, histories
<1>6. CASE ServeEvent
  <2>1. PICK s \in DOMAIN evs :
          \/ /\ pc = "events"
             /\ Receive(s) \/ ReceiveFails(s) \/ WriteCached(s) \/ SocketError(s) \/ WriteFails(s)
          \/ CloseAgain(s)
    BY <1>6 DEF ServeEvent
  <2>2. CASE Receive(s)
    BY <1>1, <2>2 DEF Receive, Served, histories
  <2>3. CASE (pc = "events" /\ (ReceiveFails(s) \/ SocketError(s))) \/ CloseAgain(s)
    <3>1. /\ CloseAndReconnect(s) /\ UNCHANGED <<dest, sc>> /\ pc \in {"events", "closing"}
          /\ pc = "events" \/ evs[s] = {}
      BY <2>3 DEF ReceiveFails, SocketError, CloseAgain
    <3>2. Behind(s) \notin Others
      BY <3>1 DEF CloseAndReconnect, Reconnect
    <3> QED BY <3>1, <3>2, CloseAndReconnectContent
  <2>4. CASE pc = "events" /\ (WriteCached(s) \/ WriteFails(s))
    BY <2>4, WriteCachedContent, WriteFailsContent
  <2> QED BY <2>1, <2>2, <2>3, <2>4
<1>7. CASE Serving
  BY <1>1, <1>7 DEF Serving, Drain, Reply, Break, Reset, histories
<1>8. CASE Foreign
  <2>1. ASSUME NEW o \in Others, OpenForeign(o) \/ UseForeign(o) PROVE Content'
    BY <1>1, <2>1 DEF OpenForeign, UseForeign, histories
  <2>2. ASSUME NEW o \in Others, CloseForeign(o) PROVE Content'
    <3>1. owner[theirs[o]] = o /\ Lose({owner[theirs[o]]}) /\ UNCHANGED <<sc, torn, dest, fd, pc>>
      BY <2>2 DEF CloseForeign, Owned, TheyHaveTheirs
    <3>2. wire' = [t \in Servers |-> IF t \in {o} THEN << >> ELSE wire[t]]
      BY <3>1 DEF Lose
    <3>3. wire \in [Servers -> Seq(SentBytes(taken))] /\ \A t \in Servers : t \notin {o}
      BY Names DEF ContentType
    <3>4. wire' = wire
      BY <3>2, <3>3
    <3> QED BY <1>1, <3>1, <3>4
  <2> QED BY <1>8, <2>1, <2>2 DEF Foreign
<1>9. CASE UNCHANGED vars
  BY <1>1, <1>9 DEF vars
<1> QED BY <1>2, <1>3, <1>4, <1>5, <1>6, <1>7, <1>8, <1>9 DEF Next, Dispatching

-----------------------------------------------------------------------------
(* The theorems *)

\* Once another thread was robbed of a descriptor, it was.
LEMMA RobbedStays ==
  ASSUME [Next]_vars, robbed
  PROVE  robbed'
<1>1. ASSUME NEW s, robbed' = (robbed \/ Behind(s) \in Others) PROVE robbed'
  BY <1>1
<1>2. ASSUME robbed' = robbed PROVE robbed'
  BY <1>2
<1>3. CASE ServeEvent
  BY <1>1, <1>2, <1>3
     DEF ServeEvent, Receive, ReceiveFails, WriteCached, SocketError, WriteFails, CloseAgain,
         CloseAndReconnect, Reconnect, histories
<1>4. CASE ProcessRequest
  BY <1>2, <1>4 DEF ProcessRequest, SkipCommand, SendReconnected, GiveUp, SendConnected,
                    SendElsewhere, histories
<1>5. CASE Starting \/ Appending \/ QueueEmpty \/ Poll
  BY <1>2, <1>5 DEF Starting, StartThread, AddFails, AddServer, Appending, AppendCmd, QueueEmpty,
                    Poll, histories
<1>6. CASE Serving \/ Foreign \/ UNCHANGED vars
  BY <1>2, <1>6 DEF Serving, Drain, Reply, Break, Reset, Foreign, OpenForeign, UseForeign,
                    CloseForeign, vars, histories
<1> QED BY <1>3, <1>4, <1>5, <1>6 DEF Next, Dispatching

LEMMA Invariance == Spec => []IInv
<1>1. Init => IInv
  BY ClientAssumption, Initially
<1>2. ASSUME IInv, [Next]_vars PROVE IInv'
  <2>1. Control /\ ContentType
    BY <1>2 DEF IInv
  <2>2. Control' /\ ContentType'
    BY <1>2, <2>1, ClientAssumption, ControlStep, TypedStep
  <2>3. ASSUME ~robbed' PROVE Owned' /\ Content'
    <3>1. Owned /\ Content
      BY <1>2, <2>3, RobbedStays DEF IInv
    <3> QED BY <1>2, <2>1, <2>3, <3>1, ClientAssumption, OwnedStep, ContentStep
  <2> QED BY <2>2, <2>3 DEF IInv
<1> QED BY <1>1, <1>2, PTL DEF Spec

\* Every variable keeps its type: in particular a cache holds no byte twice and
\* no first byte of a command, however send_data, send_data_cache, failed
\* writes and reconnects follow each other, and whatever file a descriptor has
\* become.
THEOREM TypeCorrect == Spec => []TypeOK
<1>1. IInv => TypeOK
  BY DEF IInv, Control, ControlType, SocketsOk, ContentType, TypeOK
<1> QED BY <1>1, Invariance, PTL

\* For any number of servers, descriptors and other threads that open and close
\* theirs: until the second close of one hits another thread's, the dispatch
\* thread uses open descriptors of its own, but for the one it closes; and no
\* reconnect ever leaks one.
THEOREM DescriptorsAreOwn == Spec => []FdOwned
<1>1. ASSUME IInv PROVE FdOwned
  <2>1. \A f \in Fds : owner[f] \in Servers => fd[owner[f]] = f
    BY <1>1 DEF IInv, Control, NoneLeaked
  <2>2. ~robbed => \A s \in Servers : fd[s] # NoFd => Behind(s) = s \/ Stale(s)
    BY <1>1 DEF IInv, Owned, HasItsOwn
  <2> QED BY <2>1, <2>2 DEF FdOwned, Stale
<1> QED BY <1>1, Invariance, PTL

\* Until then, on every connection commands start in the order of append_cmd,
\* none twice, each on its own server.
THEOREM CommandsInOrder == Spec => []StartsInOrder
<1>1. ASSUME IInv PROVE StartsInOrder
  <2> SUFFICES ASSUME ~robbed, NEW s \in Servers,
                      NEW n \in DOMAIN wire[s], wire[s][n][2] = 1
               PROVE  /\ wire[s][n][1] <= taken /\ dest[wire[s][n][1]] = s
                      /\ \A m \in DOMAIN wire[s] : wire[s][m][2] = 1 /\ m < n => wire[s][m][1] < wire[s][n][1]
    BY DEF StartsInOrder
  <2>1. wire[s] \in Seq(SentBytes(taken)) /\ InStartOrder(wire[s], dest, s) /\ taken \in Nat
    BY <1>1 DEF IInv, Content, ContentType, AllInOrder
  <2>2. PICK k \in Nat : DOMAIN wire[s] = 1 .. k
    BY <2>1, LenProperties
  <2>3. wire[s][n][1] <= taken
    <3>1. wire[s][n] \in SentBytes(taken)
      BY <2>1
    <3> QED BY <2>1, <3>1 DEF SentBytes
  <2>4. \A m \in DOMAIN wire[s] : m < n => m \in 1 .. n - 1
    BY <2>2
  <2> QED BY <2>1, <2>3, <2>4 DEF InStartOrder
<1> QED BY <1>1, Invariance, PTL

\* Until then, too, what was written to a server and what is cached for it are
\* whole commands one after the other, wherever short writes and flushes cut
\* them, unless something was sent over a cache or a short command was not kept.
THEOREM CommandsAreWhole == Spec => []WholeCommands
<1>1. IInv => WholeCommands
  BY DEF IInv, Content, AllWhole, WholeCommands
<1> QED BY <1>1, Invariance, PTL

=============================================================================
