-------------------------- MODULE GatherCopyProofs --------------------------
(***************************************************************************)
(* Proofs about the copies of queue_t, for a ring of any size, any number  *)
(* of buffers of any lengths: whatever way they fall on the end of the     *)
(* ring, it holds the message in place, and dequeue hands it out whole.    *)
(***************************************************************************)
EXTENDS GatherCopy, FiniteSetTheorems, SequenceTheorems, TLAPS

-----------------------------------------------------------------------------
(* Places *)

\* Place k from pos on around the ring, without the modulo.
At(k) == IF pos + k < Size THEN pos + k ELSE pos + k - Size

\* What TLA+ says of division.
LEMMA DivMod ==
  ASSUME NEW a \in Nat, NEW b \in Nat \ {0}
  PROVE  /\ a \div b \in Nat /\ a % b \in 0 .. b - 1
         /\ a = (b * (a \div b)) + (a % b)
OBVIOUS

\* A remainder is at most one divisor away.
LEMMA ModOnce ==
  ASSUME NEW a \in Nat, NEW b \in Nat \ {0}, a < 2 * b
  PROVE  a % b = IF a < b THEN a ELSE a - b
<1>1. PICK q \in Nat, r \in 0 .. b - 1 : a = b * q + r /\ r = a % b
  BY DivMod
<1>2. q = 0 \/ q = 1
  <2>1. SUFFICES ASSUME q >= 2 PROVE FALSE
    BY <1>1
  <2>2. PICK p \in Nat : q = 2 + p
    BY <2>1
  <2>3. b * q = 2 * b + b * p /\ b * p >= 0
    BY <2>2
  <2> QED BY <1>1, <2>3
<1>3. CASE q = 0
  BY <1>1, <1>3
<1>4. CASE q = 1
  BY <1>1, <1>4
<1> QED BY <1>2, <1>3, <1>4

\* Rounding up adds less than the size of a header.
LEMMA RoundsUp ==
  ASSUME NEW n \in 0 .. Limit
  PROVE  /\ RoundUp(n, Hdr) \in Nat
         /\ n <= RoundUp(n, Hdr) /\ RoundUp(n, Hdr) < n + Hdr
         /\ ActualLen(n) = RoundUp(n, Hdr) + Hdr
<1>1. /\ Hdr \in Nat \ {0} /\ Limit \in Nat /\ Word \in Nat /\ n \in Nat
      /\ Limit + 2 * Hdr <= Word
  BY CopyAssumption
<1>2. PICK a \in Nat : a = n + Hdr - 1
  BY <1>1
<1>3. a % Word = a
  <2>1. a < Word /\ Word \in Nat \ {0}
    BY <1>1, <1>2
  <2> QED BY <2>1, ModOnce
<1>4. PICK q \in Nat, r \in 0 .. Hdr - 1 : a = Hdr * q + r /\ q = a \div Hdr
  BY <1>1, DivMod
<1>5. RoundUp(n, Hdr) = q * Hdr
  BY <1>1, <1>2, <1>3, <1>4 DEF RoundUp
<1>6. q * Hdr \in Nat /\ q * Hdr = Hdr * q
  BY <1>1
<1>7. n <= q * Hdr /\ q * Hdr < n + Hdr
  BY <1>1, <1>2, <1>4, <1>6
<1>8. PICK up \in Nat : up = RoundUp(n, Hdr) /\ n <= up /\ up < n + Hdr
  BY <1>5, <1>6, <1>7
<1>9. (up + Hdr) % Word = up + Hdr
  <2>1. PICK s \in Nat : s = up + Hdr
    BY <1>1
  <2>2. s < Word /\ Word \in Nat \ {0}
    BY <1>1, <1>8, <2>1
  <2>3. s % Word = s
    BY <2>2, ModOnce
  <2> QED BY <2>1, <2>3
<1> QED BY <1>8, <1>9 DEF ActualLen

LEMMA Multiple ==
  ASSUME NEW a \in Nat, NEW b \in Nat \ {0}, a % b = 0
  PROVE  \E q \in Nat : a = b * q
<1>1. PICK q \in Nat : a = (b * q) + (a % b)
  BY DivMod
<1>2. b * q \in Nat
  OBVIOUS
<1> QED BY <1>1, <1>2

\* A header always fits before the end of the ring.
LEMMA HeaderFits ==
  ASSUME NEW p \in 0 .. Size - 1, p % Hdr = 0
  PROVE  p + Hdr <= Size
<1>1. Hdr \in Nat \ {0} /\ Size \in Nat /\ Size % Hdr = 0 /\ p \in Nat
  BY CopyAssumption
<1>2. PICK a \in Nat : p = Hdr * a
  BY <1>1, Multiple
<1>3. PICK b \in Nat : Size = Hdr * b
  BY <1>1, Multiple
<1>4. a < b
  <2>1. SUFFICES ASSUME b <= a PROVE FALSE
    OBVIOUS
  <2>2. PICK c \in Nat : a = b + c
    BY <2>1
  <2>3. Hdr * a = Hdr * b + Hdr * c /\ Hdr * c >= 0
    BY <1>1, <2>2
  <2> QED BY <1>1, <1>2, <1>3, <2>3
<1>5. PICK d \in Nat : b = a + 1 + d
  BY <1>4
<1>6. Hdr * b = Hdr * a + Hdr + Hdr * d /\ Hdr * d >= 0
  BY <1>1, <1>5
<1> QED BY <1>1, <1>2, <1>3, <1>6

-----------------------------------------------------------------------------
(* The inductive invariant *)

\* The first bytes of the message, up to byte o of buffer j.
Upto(j, o) == {b \in AllBytes : b[1] < j \/ (b[1] = j /\ b[2] <= o)}

\* Byte k of the message in ring r.
Got(r, k) == r[At(Hdr + k - 1)]

\* The ring r holds the header, then the bytes of S in order in the next n
\* places, and nothing else.
Holds(r, n, S) ==
  /\ \A k \in 0 .. Hdr - 1 : r[At(k)] = Header(len)
  /\ \A k \in 1 .. n : Got(r, k) \in S
  /\ \A b \in S : \E k \in 1 .. n : b = Got(r, k)
  /\ \A k, l \in 1 .. n : k < l => Precedes(Got(r, k), Got(r, l))
  /\ \A k \in Hdr + n .. Size - 1 : r[At(k)] = Unused

\* The loop that adds up has counted the buffers it has passed.
Summed ==
  stage = "sum" =>
    /\ i <= Len(lens) + 1
    /\ len <= Limit
    /\ len = Cardinality(Upto(i, 0))
    /\ \A b \in 0 .. Size - 1 : ring[b] = Unused

\* A message is as long as its header says, and there is room for it.
Sized ==
  stage \in {"gather", "stored", "taken"} =>
    /\ len \in 1 .. Limit
    /\ ActualLen(len) <= Size
    /\ len = Cardinality(AllBytes)

Copied == len - want - rest

\* memcpy_v has copied what comes before buffer i and before offset in it, and
\* writes where that ends in the ring; before a second call, the first one
\* reaches the end of the ring.
Gathered ==
  stage = "gather" =>
    /\ i <= Len(lens) + 1
    /\ i <= Len(lens) => offset <= lens[i]
    /\ Copied >= 0
    /\ Copied = Cardinality(Upto(i, offset))
    /\ dst + want <= Size
    /\ dst = pos + Hdr + Copied \/ dst = pos + Hdr + Copied - Size
    /\ rest > 0 => dst = pos + Hdr + Copied /\ dst + want = Size
    /\ Holds(ring, Copied, Upto(i, offset))

Kept == stage \in {"stored", "taken"} => Holds(ring, len, AllBytes)

IInv ==
  /\ pos % Hdr = 0
  /\ Summed /\ Sized /\ Gathered /\ Kept /\ TakenWhole

-----------------------------------------------------------------------------
(* Types *)

\* What TypeOK says of the buffers.
LensOk ==
  /\ Len(lens) \in 0 .. MaxParts /\ DOMAIN lens = 1 .. Len(lens)
  /\ \A j \in 1 .. Len(lens) : lens[j] \in 0 .. Word - 1

LEMMA ConstantsAre ==
  /\ Size \in Nat \ {0} /\ Hdr \in Nat \ {0} /\ Size % Hdr = 0
  /\ Limit \in Nat /\ Word \in Nat \ {0} /\ MaxParts \in Nat
  /\ 2 * Limit < Word /\ Limit + 2 * Hdr <= Word
BY CopyAssumption

LEMMA LensAre ==
  ASSUME lens \in Lengths
  PROVE  LensOk
<1>1. PICK n : n \in 0 .. MaxParts /\ lens \in [1 .. n -> 0 .. Word - 1]
  BY DEF Lengths
<1>2. n \in Nat /\ lens \in Seq(0 .. Word - 1)
  BY <1>1, ConstantsAre, SeqDef
<1>3. Len(lens) \in Nat /\ DOMAIN lens = 1 .. Len(lens)
  BY <1>2, LenProperties
<1>4. Len(lens) = n
  BY <1>1, <1>2, <1>3
<1> QED BY <1>1, <1>3, <1>4 DEF LensOk

-----------------------------------------------------------------------------
(* The bytes of a message *)

LEMMA AllBytesAre ==
  ASSUME LensOk, NEW b
  PROVE  b \in AllBytes <=>
           \E j \in 1 .. Len(lens) : \E k \in 1 .. lens[j] : b = <<j, k>>
BY DEF AllBytes, LensOk

LEMMA AllBytesFinite ==
  ASSUME LensOk
  PROVE  IsFiniteSet(AllBytes)
<1>1. IsFiniteSet(1 .. MaxParts) /\ IsFiniteSet(1 .. Word)
  BY ConstantsAre, FS_Interval
<1>2. IsFiniteSet((1 .. MaxParts) \X (1 .. Word))
  BY <1>1, FS_Product
<1>3. AllBytes \subseteq (1 .. MaxParts) \X (1 .. Word)
  <2>1. SUFFICES ASSUME NEW b \in AllBytes PROVE b \in (1 .. MaxParts) \X (1 .. Word)
    OBVIOUS
  <2>2. PICK j, k : j \in 1 .. Len(lens) /\ k \in 1 .. lens[j] /\ b = <<j, k>>
    BY <2>1, AllBytesAre
  <2>3. j \in 1 .. MaxParts /\ k \in 1 .. Word
    BY <2>2, ConstantsAre DEF LensOk
  <2> QED BY <2>2, <2>3
<1> QED BY <1>2, <1>3, FS_Subset

LEMMA UptoFinite ==
  ASSUME LensOk, NEW j, NEW o
  PROVE  /\ IsFiniteSet(Upto(j, o)) /\ Cardinality(Upto(j, o)) \in Nat
         /\ Upto(j, o) \subseteq AllBytes
         /\ Cardinality(Upto(j, o)) = Cardinality(AllBytes) => Upto(j, o) = AllBytes
<1>1. Upto(j, o) \subseteq AllBytes
  BY DEF Upto
<1>2. IsFiniteSet(AllBytes)
  BY AllBytesFinite
<1>3. /\ IsFiniteSet(Upto(j, o))
      /\ Cardinality(AllBytes) = Cardinality(Upto(j, o)) => AllBytes = Upto(j, o)
  BY <1>1, <1>2, FS_Subset
<1> QED BY <1>1, <1>3, FS_CardinalityType

LEMMA UptoFirst ==
  ASSUME LensOk
  PROVE  Upto(1, 0) = {}
<1>1. SUFFICES ASSUME NEW b \in Upto(1, 0) PROVE FALSE
  OBVIOUS
<1>2. b \in AllBytes /\ (b[1] < 1 \/ (b[1] = 1 /\ b[2] <= 0))
  BY <1>1 DEF Upto
<1>3. PICK j, k : j \in 1 .. Len(lens) /\ k \in 1 .. lens[j] /\ b = <<j, k>>
  BY <1>2, AllBytesAre
<1>4. j >= 1 /\ k >= 1
  BY <1>3 DEF LensOk
<1> QED BY <1>2, <1>3, <1>4

\* A whole buffer is passed.
LEMMA UptoNext ==
  ASSUME LensOk, NEW j \in 1 .. Len(lens)
  PROVE  Upto(j, lens[j]) = Upto(j + 1, 0)
<1>1. Len(lens) \in Nat /\ lens[j] \in Nat
  BY ConstantsAre DEF LensOk
<1>2. ASSUME NEW b \in AllBytes
      PROVE  (b[1] < j \/ (b[1] = j /\ b[2] <= lens[j]))
                <=> (b[1] < j + 1 \/ (b[1] = j + 1 /\ b[2] <= 0))
  <2>1. PICK m, k : m \in 1 .. Len(lens) /\ k \in 1 .. lens[m] /\ b = <<m, k>>
    BY <1>2, AllBytesAre
  <2>2. m \in Nat /\ k \in Nat /\ k >= 1 /\ lens[m] \in Nat /\ k <= lens[m]
    BY <1>1, <2>1, ConstantsAre DEF LensOk
  <2> QED BY <1>1, <2>1, <2>2
<1> QED BY <1>2 DEF Upto

LEMMA UptoAll ==
  ASSUME LensOk, NEW j \in Nat, j > Len(lens), NEW o
  PROVE  Upto(j, o) = AllBytes
<1>1. ASSUME NEW b \in AllBytes PROVE b[1] < j
  <2>1. PICK m, k : m \in 1 .. Len(lens) /\ k \in 1 .. lens[m] /\ b = <<m, k>>
    BY <1>1, AllBytesAre
  <2> QED BY <2>1 DEF LensOk
<1> QED BY <1>1 DEF Upto

\* n bytes of buffer j from offset o on.
Some(j, o, n) == {<<j, o + k>> : k \in 1 .. n}

LEMMA UptoMore ==
  ASSUME LensOk, NEW j \in 1 .. Len(lens), NEW o \in Nat, NEW n \in Nat, o + n <= lens[j]
  PROVE  /\ Upto(j, o + n) = Upto(j, o) \cup Some(j, o, n)
         /\ \A b \in Upto(j, o) : \A k \in 1 .. n : Precedes(b, <<j, o + k>>)
         /\ Cardinality(Upto(j, o + n)) = Cardinality(Upto(j, o)) + n
<1> DEFINE New == {j} \X (o + 1 .. o + n)
<1>1. Len(lens) \in Nat /\ lens[j] \in Nat
  BY ConstantsAre DEF LensOk
<1>2. New = Some(j, o, n)
  <2>1. ASSUME NEW b \in New PROVE \E k \in 1 .. n : b = <<j, o + k>>
    <3>1. PICK m : m \in o + 1 .. o + n /\ b = <<j, m>>
      BY <2>1
    <3>2. m - o \in 1 .. n /\ m = o + (m - o)
      BY <3>1
    <3> QED BY <3>1, <3>2
  <2>2. ASSUME NEW k \in 1 .. n PROVE <<j, o + k>> \in New
    BY <2>2
  <2> QED BY <2>1, <2>2 DEF Some
<1>3. ASSUME NEW b
      PROVE  b \in Upto(j, o + n) <=> b \in Upto(j, o) \/ b \in New
  <2>1. ASSUME b \in AllBytes
        PROVE  (b[1] < j \/ (b[1] = j /\ b[2] <= o + n))
                 <=> ((b[1] < j \/ (b[1] = j /\ b[2] <= o)) \/ b \in New)
    <3>1. PICK m, k : m \in 1 .. Len(lens) /\ k \in 1 .. lens[m] /\ b = <<m, k>>
      BY <2>1, AllBytesAre
    <3>2. m \in Nat /\ k \in Nat /\ lens[m] \in Nat
      BY <1>1, <3>1, ConstantsAre DEF LensOk
    <3>3. b \in New <=> m = j /\ k \in o + 1 .. o + n
      BY <3>1
    <3> QED BY <1>1, <3>1, <3>2, <3>3
  <2>2. ASSUME b \in New PROVE b \in AllBytes
    <3>1. PICK m : m \in o + 1 .. o + n /\ b = <<j, m>>
      BY <2>2
    <3>2. m \in 1 .. lens[j]
      BY <1>1, <3>1
    <3> QED BY <3>1, <3>2, AllBytesAre
  <2> HIDE DEF New
  <2> QED BY <2>1, <2>2 DEF Upto
<1>4. Upto(j, o) \cap New = {}
  <2>1. ASSUME NEW b, b \in Upto(j, o), b \in New PROVE FALSE
    <3>1. b[1] < j \/ (b[1] = j /\ b[2] <= o)
      BY <2>1 DEF Upto
    <3>2. PICK m : m \in o + 1 .. o + n /\ b = <<j, m>>
      BY <2>1
    <3> QED BY <1>1, <3>1, <3>2
  <2> HIDE DEF New
  <2> QED BY <2>1
<1>5. IsFiniteSet(New) /\ Cardinality(New) = n
  <2>1. /\ IsFiniteSet(o + 1 .. o + n)
        /\ Cardinality(o + 1 .. o + n) = n
    <3>1. PICK a, z : a \in Int /\ z \in Int /\ a = o + 1 /\ z = o + n
      OBVIOUS
    <3>2. IsFiniteSet(a .. z) /\ Cardinality(a .. z) = IF a > z THEN 0 ELSE z - a + 1
      BY <3>1, FS_Interval
    <3> QED BY <3>1, <3>2
  <2>2. IsFiniteSet({j}) /\ Cardinality({j}) = 1
    BY FS_Singleton
  <2>3. /\ IsFiniteSet({j} \X (o + 1 .. o + n))
        /\ Cardinality({j} \X (o + 1 .. o + n)) = Cardinality({j}) * Cardinality(o + 1 .. o + n)
    BY <2>1, <2>2, FS_Product, Zenon
  <2> QED BY <2>1, <2>2, <2>3
<1>6. IsFiniteSet(Upto(j, o)) /\ Cardinality(Upto(j, o)) \in Nat
  BY UptoFinite
<1>7. Cardinality(Upto(j, o + n)) = Cardinality(Upto(j, o)) + n
  <2> HIDE DEF New
  <2>1. Upto(j, o + n) = Upto(j, o) \cup New
    BY <1>3
  <2>2. Cardinality(Upto(j, o) \cup New)
          = Cardinality(Upto(j, o)) + Cardinality(New) - Cardinality(Upto(j, o) \cap New)
    BY <1>5, <1>6, FS_Union
  <2>3. Cardinality(Upto(j, o) \cap New) = 0
    BY <1>4, FS_EmptySet
  <2>4. Cardinality(Upto(j, o + n)) = Cardinality(Upto(j, o) \cup New)
    BY <2>1, Zenon
  <2> QED BY <1>5, <1>6, <2>2, <2>3, <2>4
<1>8. ASSUME NEW b \in Upto(j, o), NEW k \in 1 .. n
      PROVE  Precedes(b, <<j, o + k>>)
  <2>1. b \in AllBytes /\ (b[1] < j \/ (b[1] = j /\ b[2] <= o))
    BY <1>8 DEF Upto
  <2>2. PICK m, l : m \in 1 .. Len(lens) /\ l \in 1 .. lens[m] /\ b = <<m, l>>
    BY <2>1, AllBytesAre
  <2>3. l \in Nat /\ o + k > o
    BY <2>2 DEF LensOk
  <2> QED BY <2>1, <2>2, <2>3 DEF Precedes
<1> HIDE DEF New
<1> QED BY <1>2, <1>3, <1>7, <1>8

-----------------------------------------------------------------------------
(* Places around the ring *)

LEMMA AtInRing ==
  ASSUME pos \in 0 .. Size - 1, NEW k \in 0 .. Size - 1
  PROVE  At(k) \in 0 .. Size - 1 /\ (pos + k) % Size = At(k)
<1>1. Size \in Nat \ {0}
  BY ConstantsAre
<1>2. PICK a \in Nat : a = pos + k /\ a < 2 * Size
  BY <1>1
<1>3. a % Size = IF a < Size THEN a ELSE a - Size
  BY <1>1, <1>2, ModOnce
<1> QED BY <1>1, <1>2, <1>3 DEF At

\* The n places from h on lie in one piece, from p on.
InOnePiece(h, n, p) ==
  /\ {h, n, p} \subseteq Nat /\ h + n <= Size
  /\ p = pos + h \/ p = pos + h - Size
  /\ p + n <= Size

\* The ring s is r with n bytes copied in at place h on.
Written(s, r, h, n, bytes) ==
  \A k \in 0 .. Size - 1 : s[At(k)] = IF h <= k /\ k < h + n THEN bytes[k - h + 1]
                                                             ELSE r[At(k)]

\* Bytes copied in at place h on, short of the end of the ring, are found at the
\* places from h on, and the others are left alone.
LEMMA PutPlaces ==
  ASSUME pos \in 0 .. Size - 1,
         NEW r \in [0 .. Size - 1 -> Cells],
         NEW h, NEW n, NEW d, InOnePiece(h, n, d),
         NEW bytes \in [1 .. n -> Cells]
  PROVE  /\ Put(r, d, bytes) \in [0 .. Size - 1 -> Cells]
         /\ Written(Put(r, d, bytes), r, h, n, bytes)
<1>1. /\ Size \in Nat \ {0}
      /\ h \in Nat /\ n \in Nat /\ h + n <= Size
      /\ d \in Nat /\ (d = pos + h \/ d = pos + h - Size) /\ d + n <= Size
  BY ConstantsAre DEF InOnePiece
<1>2. ASSUME NEW k \in 0 .. Size - 1
      PROVE  Put(r, d, bytes)[At(k)] = IF h <= k /\ k < h + n THEN bytes[k - h + 1]
                                                              ELSE r[At(k)]
  <2>1. PICK b : b = At(k) /\ b \in 0 .. Size - 1
    BY <1>2, AtInRing
  <2>2. Put(r, d, bytes)[b] = IF b - d + 1 \in 1 .. n THEN bytes[b - d + 1] ELSE r[b]
    BY <2>1 DEF Put
  <2>3. b - d + 1 \in 1 .. n <=> h <= k /\ k < h + n
    BY <1>1, <1>2, <2>1 DEF At
  <2>4. h <= k /\ k < h + n => b - d = k - h
    BY <1>1, <1>2, <2>1 DEF At
  <2>5. PICK x, y : x \in Int /\ y \in Int /\ x = b - d + 1 /\ y = k - h + 1
    BY <1>1, <1>2, <2>1
  <2>6. CASE h <= k /\ k < h + n
    <3>1. x = y
      BY <1>1, <1>2, <2>1, <2>4, <2>5, <2>6
    <3>2. Put(r, d, bytes)[b] = bytes[x]
      BY <2>2, <2>3, <2>5, <2>6
    <3> QED BY <2>1, <2>5, <2>6, <3>1, <3>2
  <2>7. CASE ~(h <= k /\ k < h + n)
    BY <2>1, <2>2, <2>3, <2>7
  <2> QED BY <2>6, <2>7
<1>3. Put(r, d, bytes) \in [0 .. Size - 1 -> Cells]
  BY DEF Put
<1> QED BY <1>2, <1>3 DEF Written

\* The header, and no byte yet.
LEMMA HoldsHeader ==
  ASSUME pos \in 0 .. Size - 1, pos + Hdr <= Size,
         NEW r \in [0 .. Size - 1 -> Cells], \A b \in 0 .. Size - 1 : r[b] = Unused,
         len \in 0 .. Word - 1
  PROVE  /\ Put(r, pos, [k \in 1 .. Hdr |-> Header(len)]) \in [0 .. Size - 1 -> Cells]
         /\ Holds(Put(r, pos, [k \in 1 .. Hdr |-> Header(len)]), 0, {})
<1>1. Size \in Nat \ {0} /\ Hdr \in Nat \ {0}
  BY ConstantsAre
<1>2. PICK s, bytes : /\ bytes = [k \in 1 .. Hdr |-> Header(len)]
                      /\ s = Put(r, pos, bytes)
  OBVIOUS
<1>3. /\ s \in [0 .. Size - 1 -> Cells]
      /\ \A k \in 0 .. Size - 1 : s[At(k)] = IF k < Hdr THEN Header(len) ELSE Unused
  <2>1. PICK h : h \in Nat /\ h = 0
    OBVIOUS
  <2>2. InOnePiece(h, Hdr, pos) /\ bytes \in [1 .. Hdr -> Cells]
    BY <1>1, <1>2, <2>1, ConstantsAre DEF InOnePiece, Cells, Header
  <2>3. ASSUME NEW k \in 0 .. Size - 1
        PROVE  s[At(k)] = IF h <= k /\ k < h + Hdr THEN bytes[k - h + 1] ELSE r[At(k)]
    <3>1. Written(Put(r, pos, bytes), r, h, Hdr, bytes)
      BY <2>2, PutPlaces
    <3> QED BY <1>2, <2>3, <3>1 DEF Written
  <2>4. ASSUME NEW k \in 0 .. Size - 1
        PROVE  s[At(k)] = IF k < Hdr THEN Header(len) ELSE Unused
    <3>1. At(k) \in 0 .. Size - 1
      BY <2>4, AtInRing
    <3>2. k < Hdr => k - h + 1 \in 1 .. Hdr
      BY <1>1, <2>1, <2>4
    <3>3. k < Hdr => bytes[k - h + 1] = Header(len)
      BY <1>2, <3>2
    <3> QED BY <1>1, <2>1, <2>3, <2>4, <3>1, <3>3
  <2>5. s \in [0 .. Size - 1 -> Cells]
    BY <1>2, <2>2, PutPlaces
  <2> QED BY <2>4, <2>5
<1>4. Holds(s, 0, {})
  BY <1>1, <1>3 DEF Holds
<1> QED BY <1>2, <1>3, <1>4

\* n bytes of a buffer are added to those that are in place.
LEMMA HoldsMore ==
  ASSUME LensOk, pos \in 0 .. Size - 1,
         NEW r \in [0 .. Size - 1 -> Cells],
         NEW j \in 1 .. Len(lens), NEW o \in Nat, NEW n \in Nat, o + n <= lens[j],
         NEW c \in Nat, NEW d, InOnePiece(Hdr + c, n, d),
         Holds(r, c, Upto(j, o))
  PROVE  /\ Put(r, d, [k \in 1 .. n |-> <<j, o + k>>]) \in [0 .. Size - 1 -> Cells]
         /\ Holds(Put(r, d, [k \in 1 .. n |-> <<j, o + k>>]), c + n, Upto(j, o + n))
<1>1. /\ Size \in Nat \ {0} /\ Hdr \in Nat \ {0} /\ Len(lens) \in Nat
      /\ Hdr + c + n <= Size
  BY ConstantsAre DEF LensOk, InOnePiece
<1>2. PICK bytes : bytes = [k \in 1 .. n |-> <<j, o + k>>]
  OBVIOUS
<1>3. PICK s : s = Put(r, d, bytes)
  OBVIOUS
<1>4. bytes \in [1 .. n -> Cells]
  <2>1. SUFFICES ASSUME NEW k \in 1 .. n PROVE <<j, o + k>> \in Cells
    BY <1>2
  <2>2. j \in 0 .. MaxParts /\ lens[j] \in 0 .. Word - 1 /\ Word \in Nat
    BY ConstantsAre DEF LensOk
  <2>3. o + k \in 0 .. Word - 1
    BY <2>1, <2>2
  <2> QED BY <2>2, <2>3 DEF Cells
<1>5. PICK h : h \in Nat /\ h = Hdr + c /\ InOnePiece(h, n, d)
  BY <1>1
<1>6. /\ s \in [0 .. Size - 1 -> Cells]
      /\ \A k \in 0 .. Size - 1 : s[At(k)] = IF h <= k /\ k < h + n THEN bytes[k - h + 1]
                                                                   ELSE r[At(k)]
  <2>1. Put(r, d, bytes) \in [0 .. Size - 1 -> Cells] /\ Written(Put(r, d, bytes), r, h, n, bytes)
    BY <1>4, <1>5, PutPlaces
  <2> QED BY <1>3, <2>1 DEF Written
<1>7. ASSUME NEW k \in 1 .. c
      PROVE  Got(s, k) = Got(r, k)
  <2>1. PICK m : m = Hdr + k - 1 /\ m \in 0 .. Size - 1 /\ m < h
    BY <1>1, <1>5, <1>7
  <2> QED BY <1>5, <1>6, <2>1 DEF Got
<1>8. ASSUME NEW m \in 1 .. n
      PROVE  Got(s, c + m) = <<j, o + m>>
  <2>1. PICK k : k = Hdr + (c + m) - 1 /\ k \in 0 .. Size - 1 /\ h <= k /\ k < h + n
    BY <1>1, <1>5, <1>8
  <2>2. k - h + 1 = m
    BY <1>1, <1>5, <1>8, <2>1
  <2>3. s[At(k)] = bytes[k - h + 1]
    BY <1>6, <2>1
  <2>4. Got(s, c + m) = s[At(k)]
    BY <2>1 DEF Got
  <2> QED BY <1>2, <1>8, <2>2, <2>3, <2>4
<1>9. ASSUME NEW k \in 1 .. c + n, k \notin 1 .. c
      PROVE  \E m \in 1 .. n : k = c + m /\ Got(s, k) = <<j, o + m>>
  <2>1. k - c \in 1 .. n /\ k = c + (k - c)
    BY <1>9
  <2> QED BY <1>8, <2>1
<1>10. PICK old, new : /\ old = Upto(j, o) /\ new = Upto(j, o + n)
                       /\ new = old \cup Some(j, o, n)
                       /\ \A b \in old : \A k \in 1 .. n : Precedes(b, <<j, o + k>>)
  <2>1. PICK old, new : old = Upto(j, o) /\ new = Upto(j, o + n)
    OBVIOUS
  <2>2. new = old \cup Some(j, o, n)
    <3>1. Upto(j, o + n) = Upto(j, o) \cup Some(j, o, n)
      BY UptoMore
    <3> QED BY <2>1, <3>1
  <2>3. \A b \in old : \A k \in 1 .. n : Precedes(b, <<j, o + k>>)
    BY <2>1, UptoMore
  <2> QED BY <2>1, <2>2, <2>3
<1>11. Holds(r, c, old)
  BY <1>10
<1>12. \A k \in 0 .. Hdr - 1 : s[At(k)] = Header(len)
  BY <1>1, <1>5, <1>6, <1>11 DEF Holds
<1>13. \A k \in 1 .. c + n : Got(s, k) \in new
  <2>1. SUFFICES ASSUME NEW k \in 1 .. c + n PROVE Got(s, k) \in new
    OBVIOUS
  <2>2. CASE k \in 1 .. c
    <3>1. Got(r, k) \in old
      BY <1>11, <2>2 DEF Holds
    <3> QED BY <1>7, <1>10, <2>2, <3>1
  <2>3. CASE k \notin 1 .. c
    BY <1>9, <1>10, <2>1, <2>3 DEF Some
  <2> QED BY <2>2, <2>3
<1>14. \A b \in new : \E k \in 1 .. c + n : b = Got(s, k)
  <2>1. SUFFICES ASSUME NEW b \in new PROVE \E k \in 1 .. c + n : b = Got(s, k)
    OBVIOUS
  <2>2. CASE b \in old
    <3>1. PICK k \in 1 .. c : b = Got(r, k)
      BY <1>11, <2>2 DEF Holds
    <3>2. k \in 1 .. c + n /\ b = Got(s, k)
      BY <1>7, <3>1
    <3> QED BY <3>2
  <2>3. CASE b \notin old
    <3>1. PICK m \in 1 .. n : b = <<j, o + m>>
      BY <1>10, <2>1, <2>3 DEF Some
    <3>2. c + m \in 1 .. c + n /\ b = Got(s, c + m)
      BY <1>8, <3>1
    <3> QED BY <3>2
  <2> QED BY <2>2, <2>3
<1>15. \A k, l \in 1 .. c + n : k < l => Precedes(Got(s, k), Got(s, l))
  <2>1. SUFFICES ASSUME NEW k \in 1 .. c + n, NEW l \in 1 .. c + n, k < l
                 PROVE  Precedes(Got(s, k), Got(s, l))
    OBVIOUS
  <2>2. CASE l \in 1 .. c
    <3>1. k \in 1 .. c
      BY <2>1, <2>2
    <3>2. Precedes(Got(r, k), Got(r, l))
      BY <1>11, <2>1, <2>2, <3>1 DEF Holds
    <3> QED BY <1>7, <2>2, <3>1, <3>2
  <2>3. CASE l \notin 1 .. c /\ k \in 1 .. c
    <3>1. PICK m \in 1 .. n : Got(s, l) = <<j, o + m>>
      BY <1>9, <2>3
    <3>2. Got(s, k) = Got(r, k) /\ Got(r, k) \in old
      BY <1>7, <1>11, <2>3 DEF Holds
    <3> QED BY <1>10, <3>1, <3>2
  <2>4. CASE l \notin 1 .. c /\ k \notin 1 .. c
    <3>1. PICK m \in 1 .. n : l = c + m /\ Got(s, l) = <<j, o + m>>
      BY <1>9, <2>4
    <3>2. PICK q \in 1 .. n : k = c + q /\ Got(s, k) = <<j, o + q>>
      BY <1>9, <2>4
    <3>3. o + q < o + m
      BY <2>1, <3>1, <3>2
    <3> QED BY <3>1, <3>2, <3>3 DEF Precedes
  <2> QED BY <2>2, <2>3, <2>4
<1>16. \A k \in Hdr + (c + n) .. Size - 1 : s[At(k)] = Unused
  <2>1. SUFFICES ASSUME NEW k \in Hdr + (c + n) .. Size - 1 PROVE s[At(k)] = Unused
    OBVIOUS
  <2>2. k \in 0 .. Size - 1 /\ k \in Hdr + c .. Size - 1 /\ ~(k < h + n)
    BY <1>1, <1>5, <2>1
  <2>3. r[At(k)] = Unused
    BY <1>11, <2>2 DEF Holds
  <2> QED BY <1>6, <2>2, <2>3
<1>17. Holds(s, c + n, new)
  BY <1>12, <1>13, <1>14, <1>15, <1>16 DEF Holds
<1> QED BY <1>2, <1>3, <1>6, <1>10, <1>17

\* Where a message of n bytes lies: in one piece short of the end of the ring,
\* or in two, of which the first ends there.
LEMMA PiecesFit ==
  ASSUME pos \in 0 .. Size - 1, pos % Hdr = 0, NEW n \in 1 .. Limit, ActualLen(n) <= Size
  PROVE  /\ pos + Hdr <= Size /\ Hdr + n <= Size
         /\ OnePiece(n) => pos + Hdr + n <= Size
         /\ Before(n) \in 0 .. n /\ pos + Hdr + Before(n) <= Size
         /\ Before(n) < n => pos + Hdr + Before(n) = Size
<1>1. /\ Size \in Nat \ {0} /\ Hdr \in Nat \ {0} /\ Limit \in Nat /\ n \in 0 .. Limit
      /\ pos \in Nat /\ pos < Size
  BY ConstantsAre
<1>2. PICK up \in Nat : n <= up /\ ActualLen(n) = up + Hdr
  BY <1>1, RoundsUp
<1>3. pos + Hdr <= Size
  BY <1>1, HeaderFits
<1>4. PICK a \in Nat : a = pos + ActualLen(n) /\ a < 2 * Size
  BY <1>1, <1>2
<1>5. OnePiece(n) => pos + Hdr + n <= Size
  <2>1. a % Size = IF a < Size THEN a ELSE a - Size
    BY <1>1, <1>4, ModOnce
  <2>2. OnePiece(n) <=> a % Size > pos
    BY <1>4 DEF OnePiece
  <2> QED BY <1>1, <1>2, <1>4, <2>1, <2>2
<1>6. /\ Before(n) \in 0 .. n /\ pos + Hdr + Before(n) <= Size
      /\ Before(n) < n => pos + Hdr + Before(n) = Size
  BY <1>1, <1>3 DEF Before, Lesser
<1> QED BY <1>1, <1>2, <1>3, <1>5, <1>6

-----------------------------------------------------------------------------
(* The steps *)

Invariant == TypeOK /\ IInv

LEMMA InitHolds ==
  ASSUME Init
  PROVE  Invariant
<1>1. TypeOK
  <2>1. ring \in [0 .. Size - 1 -> Cells]
    BY ConstantsAre DEF Init, Unused, Cells
  <2>2. out \in Seq(Cells)
    BY DEF Init
  <2> QED BY <2>1, <2>2, ConstantsAre DEF Init, TypeOK
<1>2. Summed
  <2>1. LensOk
    BY LensAre DEF Init
  <2>2. Cardinality(Upto(1, 0)) = 0
    BY <2>1, UptoFirst, FS_EmptySet
  <2> QED BY <2>1, <2>2, ConstantsAre DEF Init, Summed, LensOk
<1>3. Sized /\ Gathered /\ Kept /\ TakenWhole /\ pos % Hdr = 0
  BY DEF Init, Sized, Gathered, Kept, TakenWhole
<1> QED BY <1>1, <1>2, <1>3 DEF Invariant, IInv

LEMMA AddKeeps ==
  ASSUME Invariant, Add
  PROVE  Invariant'
<1>1. /\ LensOk /\ i \in 1 .. Len(lens) /\ len \in 0 .. Limit /\ lens[i] \in 0 .. Word - 1
      /\ len = Cardinality(Upto(i, 0)) /\ Len(lens) \in 0 .. MaxParts
      /\ stage = "sum" /\ pos % Hdr = 0
  <2>1. LensOk
    BY LensAre DEF Invariant, TypeOK
  <2>2. stage = "sum" /\ i <= Len(lens) /\ Len(lens) \in 0 .. MaxParts /\ pos % Hdr = 0
    BY <2>1 DEF Add, LensOk, Invariant, IInv
  <2>3. len \in 0 .. Limit /\ i \in 1 .. Len(lens) /\ len = Cardinality(Upto(i, 0))
    BY <2>2, ConstantsAre DEF Invariant, TypeOK, IInv, Summed
  <2> QED BY <2>1, <2>2, <2>3 DEF LensOk
<1>2. TypeOK'
  <2>1. len' \in 0 .. Word - 1
    BY <1>1, ConstantsAre DEF Add
  <2>2. i' \in 1 .. MaxParts + 1 /\ stage' \in {"sum", "rejected"}
    BY <1>1, ConstantsAre DEF Add
  <2> QED BY <2>1, <2>2 DEF Add, Invariant, TypeOK
<1>3. CASE stage' = "rejected"
  <2>1. pos' % Hdr = 0
    BY <1>1 DEF Add
  <2>2. IInv'
    BY <1>3, <2>1 DEF IInv, Summed, Sized, Gathered, Kept, TakenWhole
  <2> QED BY <1>2, <2>2 DEF Invariant
<1>4. CASE stage' # "rejected"
  <2>1. /\ lens[i] <= Limit /\ len' = (len + lens[i]) % Word /\ len' <= Limit /\ i' = i + 1
        /\ stage' = "sum" /\ ring' = ring /\ lens' = lens /\ pos' = pos
    <3>1. ~(lens[i] > Limit \/ len' > Limit)
      BY <1>4 DEF Add
    <3>2. lens[i] <= Limit /\ len' <= Limit
      <4>1. len' \in 0 .. Word - 1
        BY <1>2 DEF TypeOK
      <4>2. len' \in Int /\ lens[i] \in Int /\ Limit \in Int
        BY <1>1, <4>1, ConstantsAre
      <4> QED BY <3>1, <4>2
    <3> QED BY <1>1, <3>1, <3>2 DEF Add
  <2>2. len' = len + lens[i]
    <3>1. PICK a : a \in Nat /\ a = len + lens[i] /\ a < Word /\ Word \in Nat \ {0}
      BY <1>1, <2>1, ConstantsAre
    <3> QED BY <2>1, <3>1, ModOnce
  <2>3. Cardinality(Upto(i + 1, 0)) = Cardinality(Upto(i, 0)) + lens[i]
    <3>1. PICK o, n : o = 0 /\ n = lens[i] /\ o \in Nat /\ n \in Nat /\ o + n = n
      BY <1>1, ConstantsAre
    <3>2. Cardinality(Upto(i, o + n)) = Cardinality(Upto(i, o)) + n
      BY <1>1, <3>1, UptoMore
    <3>3. Upto(i, lens[i]) = Upto(i + 1, 0)
      BY <1>1, UptoNext
    <3> QED BY <3>1, <3>2, <3>3
  <2>4. Upto(i, 0)' = Upto(i + 1, 0)
    BY <2>1 DEF Upto, AllBytes
  <2>5. Summed'
    BY <1>1, <2>1, <2>2, <2>3, <2>4 DEF Summed, Invariant, IInv
  <2>6. Sized' /\ Gathered' /\ Kept' /\ TakenWhole' /\ pos' % Hdr = 0
    BY <1>1, <2>1 DEF Sized, Gathered, Kept, TakenWhole
  <2> QED BY <1>2, <2>5, <2>6 DEF Invariant, IInv
<1> QED BY <1>3, <1>4

LEMMA RejectKeeps ==
  ASSUME Invariant, Reject
  PROVE  Invariant'
<1>1. TypeOK'
  BY DEF Reject, Invariant, TypeOK
<1>2. IInv'
  BY DEF Reject, Invariant, IInv, Summed, Sized, Gathered, Kept, TakenWhole
<1> QED BY <1>1, <1>2 DEF Invariant

LEMMA PlaceKeeps ==
  ASSUME Invariant, Place
  PROVE  Invariant'
<1>1. /\ LensOk /\ Len(lens) \in Nat /\ len \in 1 .. Limit /\ len \in 0 .. Word - 1
      /\ ActualLen(len) <= Size /\ pos \in 0 .. Size - 1 /\ pos % Hdr = 0
      /\ ring \in [0 .. Size - 1 -> Cells] /\ \A b \in 0 .. Size - 1 : ring[b] = Unused
  <2>1. LensOk
    BY LensAre DEF Invariant, TypeOK
  <2>2. stage = "sum" /\ len > 0 /\ ActualLen(len) <= Size
    BY DEF Place
  <2>3. len \in 1 .. Limit
    BY <2>2, ConstantsAre DEF Invariant, TypeOK, IInv, Summed
  <2> QED BY <2>1, <2>2, <2>3 DEF LensOk, Invariant, TypeOK, IInv, Summed
<1>2. /\ lens' = lens /\ pos' = pos /\ out' = out /\ len' = len /\ i' = 1 /\ offset' = 0
      /\ stage' = "gather" /\ ring' = Put(ring, pos, [k \in 1 .. Hdr |-> Header(len)])
  BY DEF Place
<1>3. len = Cardinality(AllBytes)
  <2>1. i \in Nat /\ i > Len(lens) /\ len = Cardinality(Upto(i, 0))
    BY ConstantsAre DEF Place, Invariant, TypeOK, IInv, Summed
  <2> QED BY <1>1, <2>1, UptoAll
<1>4. /\ Size \in Nat /\ Hdr \in Nat /\ Limit \in Nat /\ pos \in Nat
      /\ pos + Hdr <= Size /\ Hdr + len <= Size
      /\ OnePiece(len) => pos + Hdr + len <= Size
      /\ Before(len) \in 0 .. len /\ pos + Hdr + Before(len) <= Size
      /\ Before(len) < len => pos + Hdr + Before(len) = Size
  BY <1>1, ConstantsAre, PiecesFit
<1>5. PICK first : /\ first = IF OnePiece(len) THEN len ELSE Before(len)
                   /\ dst' = IF first > 0 THEN pos + Hdr ELSE 0
                   /\ want' = IF first > 0 THEN first ELSE len
                   /\ rest' = IF first > 0 THEN len - first ELSE 0
  BY DEF Place
<1>6. /\ first \in 0 .. len /\ pos + Hdr + first <= Size
      /\ first < len => pos + Hdr + first = Size
  BY <1>1, <1>4, <1>5
<1>7. /\ dst' \in 0 .. Size /\ want' \in 1 .. Limit /\ rest' \in 0 .. Limit
      /\ len - want' - rest' = 0 /\ dst' + want' <= Size
      /\ dst' = pos + Hdr \/ dst' = pos + Hdr - Size
      /\ rest' > 0 => dst' = pos + Hdr /\ dst' + want' = Size
  <2>1. CASE first > 0
    BY <1>1, <1>4, <1>5, <1>6, <2>1
  <2>2. CASE first = 0
    BY <1>1, <1>4, <1>5, <1>6, <2>2
  <2> QED BY <1>6, <2>1, <2>2
<1>8. ring' \in [0 .. Size - 1 -> Cells] /\ Holds(ring', 0, {})
  BY <1>1, <1>2, <1>4, HoldsHeader
<1>9. TypeOK'
  <2>1. i' \in 1 .. MaxParts + 1 /\ offset' \in 0 .. Word - 1
    BY <1>2, ConstantsAre
  <2>2. lens' \in Lengths /\ pos' \in 0 .. Size - 1 /\ out' \in Seq(Cells)
    BY <1>2 DEF Invariant, TypeOK
  <2>3. {want', rest'} \subseteq 0 .. Limit
    BY <1>4, <1>7
  <2> QED BY <1>1, <1>2, <1>7, <1>8, <2>1, <2>2, <2>3 DEF TypeOK
<1>10. Upto(i, offset)' = {}
  <2>1. Upto(i, offset)' = Upto(1, 0)
    BY <1>2 DEF Upto, AllBytes
  <2> QED BY <1>1, <2>1, UptoFirst
<1>11. Gathered'
  <2>1. Copied' = 0 /\ pos + Hdr + 0 = pos + Hdr
    BY <1>2, <1>4, <1>7 DEF Copied
  <2>2. Cardinality(Upto(i, offset)') = 0
    BY <1>10, FS_EmptySet
  <2>3. Holds(ring, Copied, Upto(i, offset))'
    BY <1>2, <1>8, <1>10, <2>1 DEF Holds, Got, At
  <2>4. i' <= Len(lens') + 1 /\ (i' <= Len(lens') => offset' <= lens'[i'])
    <3>1. 1 \in 1 .. Len(lens) => lens[1] \in Nat
      BY <1>1, ConstantsAre DEF LensOk
    <3> QED BY <1>1, <1>2, <3>1
  <2>5. dst' = pos' + Hdr + Copied' \/ dst' = pos' + Hdr + Copied' - Size
    BY <1>2, <1>4, <1>7, <2>1
  <2>6. rest' > 0 => dst' = pos' + Hdr + Copied' /\ dst' + want' = Size
    BY <1>2, <1>4, <1>7, <2>1
  <2> QED BY <1>2, <1>7, <2>1, <2>2, <2>3, <2>4, <2>5, <2>6 DEF Gathered
<1>12. Sized'
  <2>1. AllBytes' = AllBytes /\ ActualLen(len)' = ActualLen(len)
    BY <1>2 DEF AllBytes, ActualLen, RoundUp
  <2> QED BY <1>1, <1>2, <1>3, <2>1 DEF Sized
<1>13. Summed' /\ Kept' /\ TakenWhole' /\ pos' % Hdr = 0
  BY <1>1, <1>2 DEF Summed, Kept, TakenWhole
<1> QED BY <1>9, <1>11, <1>12, <1>13 DEF Invariant, IInv

\* What the invariant says while memcpy_v runs.
LEMMA GatheringIs ==
  ASSUME Invariant, stage = "gather"
  PROVE  /\ LensOk /\ Len(lens) \in 0 .. MaxParts /\ i \in 1 .. Len(lens) + 1
         /\ pos \in 0 .. Size - 1 /\ pos % Hdr = 0 /\ ring \in [0 .. Size - 1 -> Cells]
         /\ offset \in Nat /\ dst \in Nat /\ want \in Nat /\ rest \in Nat /\ Copied \in Nat
         /\ len \in 1 .. Limit /\ len = Copied + want + rest
         /\ ActualLen(len) <= Size /\ Hdr + len <= Size /\ len = Cardinality(AllBytes)
         /\ Copied = Cardinality(Upto(i, offset))
         /\ i <= Len(lens) => offset <= lens[i]
         /\ dst + want <= Size
         /\ dst = pos + Hdr + Copied \/ dst = pos + Hdr + Copied - Size
         /\ rest > 0 => dst = pos + Hdr + Copied /\ dst + want = Size
         /\ Holds(ring, Copied, Upto(i, offset))
<1>1. LensOk
  BY LensAre DEF Invariant, TypeOK
<1>2. Gathered /\ Sized /\ TypeOK /\ pos % Hdr = 0
  BY DEF Invariant, IInv
<1>3. /\ offset \in Nat /\ dst \in Nat /\ want \in Nat /\ rest \in Nat
      /\ pos \in 0 .. Size - 1 /\ ring \in [0 .. Size - 1 -> Cells] /\ i \in Nat /\ i >= 1
  BY <1>2, ConstantsAre DEF TypeOK
<1>4. len \in 1 .. Limit /\ ActualLen(len) <= Size /\ len = Cardinality(AllBytes)
  BY <1>2 DEF Sized
<1>5. Hdr + len <= Size
  BY <1>2, <1>3, <1>4, PiecesFit
<1>6. /\ i <= Len(lens) + 1 /\ Copied >= 0 /\ Copied = Cardinality(Upto(i, offset))
      /\ i <= Len(lens) => offset <= lens[i]
      /\ dst + want <= Size
      /\ dst = pos + Hdr + Copied \/ dst = pos + Hdr + Copied - Size
      /\ rest > 0 => dst = pos + Hdr + Copied /\ dst + want = Size
      /\ Holds(ring, Copied, Upto(i, offset))
  BY <1>2 DEF Gathered
<1>7. Copied \in Nat /\ len = Copied + want + rest
  <2>1. len \in Int /\ want \in Nat /\ rest \in Nat /\ Copied >= 0
    BY <1>3, <1>4, <1>6, ConstantsAre
  <2> QED BY <2>1 DEF Copied
<1>8. Len(lens) \in 0 .. MaxParts /\ i \in 1 .. Len(lens) + 1
  BY <1>1, <1>3, <1>6 DEF LensOk
<1> QED BY <1>1, <1>2, <1>3, <1>4, <1>5, <1>6, <1>7, <1>8

LEMMA TurnKeeps ==
  ASSUME Invariant, Turn
  PROVE  Invariant'
<1>1. stage = "gather" /\ i <= Len(lens) /\ want > 0
  BY DEF Turn, Looping
<1>2. PICK c : /\ c = Copied /\ c = Cardinality(Upto(i, offset))
               /\ Holds(ring, c, Upto(i, offset))
  BY <1>1, GatheringIs
<1>3. /\ LensOk /\ ring \in [0 .. Size - 1 -> Cells] /\ pos % Hdr = 0
      /\ len \in 1 .. Limit /\ ActualLen(len) <= Size /\ len = Cardinality(AllBytes)
  BY <1>1, GatheringIs
<1>4. /\ Len(lens) \in Nat /\ Len(lens) <= MaxParts /\ i \in 1 .. Len(lens)
      /\ lens[i] \in 0 .. Word - 1
  <2>1. LensOk /\ Len(lens) \in 0 .. MaxParts /\ i \in 1 .. Len(lens)
    BY <1>1, GatheringIs
  <2>2. lens[i] \in 0 .. Word - 1
    BY <2>1 DEF LensOk
  <2> QED BY <2>1, <2>2, ConstantsAre
<1>5. PICK m : m \in Nat /\ m = lens[i] /\ m < Word
  BY <1>4, ConstantsAre
<1>6. offset \in Nat /\ offset <= m
  BY <1>1, <1>5, GatheringIs
<1>7. /\ pos \in Nat /\ c \in Nat /\ dst \in Nat /\ want \in Nat /\ rest \in Nat
      /\ len \in Nat /\ len <= Limit /\ len = c + want + rest /\ Hdr + len <= Size
      /\ dst + want <= Size
      /\ dst = pos + Hdr + c \/ dst = pos + Hdr + c - Size
      /\ rest > 0 => dst = pos + Hdr + c /\ dst + want = Size
  <2>1. pos \in 0 .. Size - 1 /\ len \in 1 .. Limit /\ len = c + want + rest
    BY <1>1, <1>2, GatheringIs
  <2>2. pos \in Nat /\ len \in Nat /\ len <= Limit
    BY <2>1, ConstantsAre
  <2> QED BY <1>1, <1>2, <2>1, <2>2, GatheringIs
<1>8. pos \in 0 .. Size - 1
  BY <1>1, GatheringIs
<1>9. Size \in Nat /\ Hdr \in Nat /\ Limit \in Nat /\ Word \in Nat /\ MaxParts \in Nat
  BY ConstantsAre
<1>10. PICK n : n = Lesser(IF lens[i] > offset THEN lens[i] - offset ELSE 0, want)
  OBVIOUS
<1>11. /\ ring' = Put(ring, dst, [k \in 1 .. n |-> <<i, offset + k>>])
       /\ dst' = dst + n /\ want' = want - n
       /\ IF n = want THEN offset' = offset + n /\ i' = i
                      ELSE offset' = 0 /\ i' = i + 1
  BY <1>10, Zenon DEF Turn
<1>12. n \in Nat /\ n <= want /\ offset + n <= m /\ (n # want => offset + n = m)
  <2>1. PICK left : left \in Nat /\ left = m - offset
    BY <1>5, <1>6
  <2>2. n = Lesser(left, want)
    BY <1>5, <1>10, <1>6, <2>1
  <2> QED BY <1>5, <1>6, <1>7, <2>1, <2>2 DEF Lesser
<1>13. /\ lens' = lens /\ pos' = pos /\ out' = out /\ stage' = "gather" /\ len' = len
       /\ rest' = rest
  BY <1>1 DEF Turn
<1>14. InOnePiece(Hdr + c, n, dst)
  BY <1>7, <1>9, <1>12 DEF InOnePiece
<1>15. /\ ring' \in [0 .. Size - 1 -> Cells]
       /\ Holds(ring', c + n, Upto(i, offset + n))
       /\ Cardinality(Upto(i, offset + n)) = c + n
  <2>1. n \in Nat /\ c \in Nat /\ offset \in Nat /\ i \in 1 .. Len(lens) /\ pos \in 0 .. Size - 1
    BY <1>4, <1>6, <1>8, <1>7, <1>12
  <2>2. /\ Put(ring, dst, [k \in 1 .. n |-> <<i, offset + k>>]) \in [0 .. Size - 1 -> Cells]
        /\ Holds(Put(ring, dst, [k \in 1 .. n |-> <<i, offset + k>>]), c + n, Upto(i, offset + n))
    BY <1>2, <1>3, <1>5, <1>12, <1>14, <2>1, HoldsMore
  <2>3. Cardinality(Upto(i, offset + n)) = Cardinality(Upto(i, offset)) + n
    BY <1>3, <1>5, <1>12, <2>1, UptoMore
  <2> QED BY <1>2, <1>11, <2>2, <2>3
<1>16. /\ i' \in Nat /\ 1 <= i' /\ i' <= Len(lens) + 1 /\ offset' \in 0 .. Word - 1
       /\ i' <= Len(lens) => offset' <= lens[i']
       /\ Upto(i', offset') = Upto(i, offset + n)
  <2>1. CASE n = want
    <3>1. offset' = offset + n /\ i' = i
      BY <1>11, <2>1
    <3>2. offset + n \in 0 .. Word - 1 /\ offset + n <= lens[i] /\ i \in Nat /\ i <= Len(lens) + 1
      BY <1>9, <1>4, <1>5, <1>6, <1>12
    <3> QED BY <1>4, <3>1, <3>2
  <2>2. CASE n # want
    <3>1. offset' = 0 /\ i' = i + 1 /\ Upto(i, offset + n) = Upto(i + 1, 0)
      BY <1>3, <1>4, <1>5, <1>11, <1>12, <2>2, UptoNext
    <3>2. ASSUME i + 1 <= Len(lens) PROVE 0 <= lens[i + 1]
      <4>1. PICK j : j = i + 1 /\ j \in 1 .. Len(lens)
        BY <1>4, <3>2
      <4>2. lens[j] \in 0 .. Word - 1
        BY <1>3, <4>1 DEF LensOk
      <4> QED BY <4>1, <4>2
    <3>3. 0 \in 0 .. Word - 1 /\ i + 1 \in Nat /\ 1 <= i + 1 /\ i + 1 <= Len(lens) + 1
      BY <1>4, ConstantsAre
    <3> QED BY <3>1, <3>2, <3>3
  <2> QED BY <2>1, <2>2
<1>17. /\ dst' \in 0 .. Size /\ dst' + want' <= Size /\ {want', rest'} \subseteq 0 .. Limit
       /\ Copied' = c + n
       /\ dst' = pos + Hdr + (c + n) \/ dst' = pos + Hdr + (c + n) - Size
       /\ rest > 0 => dst' = pos + Hdr + (c + n) /\ dst' + want' = Size
  <2>1. Copied' = len - (want - n) - rest
    BY <1>11, <1>13 DEF Copied
  <2>2. dst' = dst + n /\ want' = want - n /\ rest' = rest
    BY <1>11, <1>13
  <2>3. PICK d, w : d \in Nat /\ w \in Nat /\ d = dst + n /\ w = want - n
    BY <1>7, <1>12
  <2>4. d + w <= Size /\ w <= Limit /\ rest <= Limit /\ len - w - rest = c + n
    BY <1>9, <1>7, <1>12, <2>3
  <2>5. /\ d = pos + Hdr + (c + n) \/ d = pos + Hdr + (c + n) - Size
        /\ rest > 0 => d = pos + Hdr + (c + n) /\ d + w = Size
    BY <1>9, <1>7, <1>12, <2>3
  <2>6. d \in 0 .. Size /\ {w, rest} \subseteq 0 .. Limit
    BY <1>9, <1>7, <2>3, <2>4
  <2> QED BY <2>1, <2>2, <2>3, <2>4, <2>5, <2>6
<1>18. TypeOK'
  <2>1. lens' \in Lengths /\ out' \in Seq(Cells) /\ len' \in 0 .. Word - 1
    BY <1>13 DEF Invariant, TypeOK
  <2>2. i' \in 1 .. MaxParts + 1
    BY <1>4, <1>9, <1>16
  <2> QED BY <1>8, <1>13, <1>15, <1>16, <1>17, <2>1, <2>2 DEF TypeOK
<1>19. Gathered'
  <2>1. Upto(i, offset)' = Upto(i, offset + n)
    <3>1. Upto(i, offset)' = Upto(i', offset')
      BY <1>13 DEF Upto, AllBytes
    <3> QED BY <1>16, <3>1
  <2>2. Holds(ring, Copied, Upto(i, offset))'
    <3>1. PICK S, t : S = Upto(i, offset + n) /\ t = c + n /\ Holds(ring', t, S)
      BY <1>15
    <3>2. Copied' = t /\ Upto(i, offset)' = S
      BY <1>17, <2>1, <3>1
    <3> QED BY <1>13, <3>1, <3>2 DEF Holds, Got, At
  <2>3. Copied' >= 0 /\ Copied' = Cardinality(Upto(i, offset)')
    BY <1>7, <1>12, <1>15, <1>17, <2>1
  <2>4. dst' = pos' + Hdr + Copied' \/ dst' = pos' + Hdr + Copied' - Size
    BY <1>13, <1>17
  <2>5. rest' > 0 => dst' = pos' + Hdr + Copied' /\ dst' + want' = Size
    BY <1>13, <1>17
  <2>6. i' <= Len(lens') + 1 /\ (i' <= Len(lens') => offset' <= lens'[i'])
    BY <1>13, <1>16
  <2> QED BY <1>17, <2>2, <2>3, <2>4, <2>5, <2>6 DEF Gathered
<1>20. Sized'
  <2>1. AllBytes' = AllBytes /\ ActualLen(len)' = ActualLen(len)
    BY <1>13 DEF AllBytes, ActualLen, RoundUp
  <2> QED BY <1>3, <1>13, <2>1 DEF Sized
<1>21. Summed' /\ Kept' /\ TakenWhole' /\ pos' % Hdr = 0
  BY <1>3, <1>13 DEF Summed, Kept, TakenWhole
<1> QED BY <1>18, <1>19, <1>20, <1>21 DEF Invariant, IInv

LEMMA ReturnKeeps ==
  ASSUME Invariant, Return
  PROVE  Invariant'
<1>1. stage = "gather" /\ ~(i <= Len(lens) /\ want > 0)
  BY DEF Return, Looping
<1>2. /\ LensOk /\ Len(lens) \in 0 .. MaxParts /\ i \in 1 .. Len(lens) + 1
      /\ pos \in 0 .. Size - 1 /\ pos % Hdr = 0
      /\ offset \in Nat /\ dst \in Nat /\ want \in Nat /\ rest \in Nat /\ Copied \in Nat
      /\ len \in 1 .. Limit /\ len = Copied + want + rest
      /\ ActualLen(len) <= Size /\ Hdr + len <= Size /\ len = Cardinality(AllBytes)
      /\ Copied = Cardinality(Upto(i, offset))
      /\ i <= Len(lens) => offset <= lens[i]
      /\ rest > 0 => dst = pos + Hdr + Copied /\ dst + want = Size
      /\ Holds(ring, Copied, Upto(i, offset))
  BY <1>1, GatheringIs
<1>3. Size \in Nat /\ Hdr \in Nat /\ Limit \in Nat
  BY ConstantsAre
\* The loop does not run out of buffers before it has copied what it is to copy.
<1>4. want = 0
  <2>1. CASE i > Len(lens)
    <3>1. i \in Nat /\ Upto(i, offset) = AllBytes
      BY <1>2, <2>1, UptoAll
    <3> QED BY <1>2, <3>1
  <2>2. CASE i <= Len(lens)
    BY <1>1, <1>2, <2>2
  <2> QED BY <1>2, <2>1, <2>2
<1>5. /\ lens' = lens /\ pos' = pos /\ ring' = ring /\ out' = out /\ len' = len
      /\ i' = i /\ offset' = offset
  BY DEF Return
<1>6. AllBytes' = AllBytes /\ ActualLen(len)' = ActualLen(len)
  BY <1>5 DEF AllBytes, ActualLen, RoundUp
<1>7. CASE rest > 0
  <2>1. dst' = 0 /\ want' = rest /\ rest' = 0 /\ stage' = "gather"
    BY <1>1, <1>7 DEF Return
  <2>2. rest \in 0 .. Limit /\ rest <= Size /\ pos + Hdr + Copied = Size
    <3>1. /\ pos \in Nat /\ dst \in Nat /\ rest \in Nat /\ Copied \in Nat
          /\ len <= Limit /\ len = Copied + want + rest /\ Hdr + len <= Size
          /\ dst = pos + Hdr + Copied /\ dst + want = Size
      BY <1>2, <1>3, <1>7
    <3> QED BY <1>3, <1>4, <3>1
  <2>3. TypeOK'
    BY <1>5, <2>1, <2>2, ConstantsAre DEF Invariant, TypeOK
  <2>4. Copied' = Copied
    BY <1>2, <1>4, <1>5, <2>1 DEF Copied
  <2>5. Upto(i, offset)' = Upto(i, offset)
    BY <1>5 DEF Upto, AllBytes
  <2>6. Holds(ring, Copied, Upto(i, offset))'
    <3>1. PICK S, m : S = Upto(i, offset) /\ m = Copied /\ Holds(ring, m, S)
      BY <1>2
    <3>2. Copied' = m /\ Upto(i, offset)' = S
      BY <2>4, <2>5, <3>1
    <3> QED BY <1>5, <3>1, <3>2 DEF Holds, Got, At
  <2>7. dst' + want' <= Size /\ dst' = pos' + Hdr + Copied' - Size /\ ~(rest' > 0)
    <3>1. pos' = pos /\ Copied' = Copied /\ pos \in Nat /\ Copied \in Nat
      BY <1>2, <1>3, <1>5, <2>4
    <3>2. dst' = pos' + Hdr + Copied' - Size
      BY <1>3, <2>1, <2>2, <3>1
    <3> QED BY <1>2, <1>3, <2>1, <2>2, <3>2
  <2>8. Gathered'
    BY <1>2, <1>5, <2>1, <2>4, <2>5, <2>6, <2>7 DEF Gathered
  <2>9. Sized'
    BY <1>2, <1>5, <1>6 DEF Sized
  <2>10. Summed' /\ Kept' /\ TakenWhole' /\ pos' % Hdr = 0
    BY <1>2, <1>5, <2>1 DEF Summed, Kept, TakenWhole
  <2> QED BY <2>3, <2>8, <2>9, <2>10 DEF Invariant, IInv
<1>8. CASE ~(rest > 0)
  <2>1. stage' = "stored" /\ dst' = dst /\ want' = want /\ rest' = rest
    BY <1>8 DEF Return
  <2>2. TypeOK'
    BY <1>5, <2>1 DEF Invariant, TypeOK
  <2>3. Copied = len /\ Upto(i, offset) = AllBytes
    <3>1. Copied = len
      BY <1>2, <1>4, <1>8
    <3> QED BY <1>2, <3>1, UptoFinite
  <2>4. Holds(ring, len, AllBytes)'
    <3>1. PICK S, m : S = AllBytes /\ m = len /\ Holds(ring, m, S)
      BY <1>2, <2>3
    <3>2. len' = m /\ AllBytes' = S
      BY <1>5, <1>6, <3>1
    <3> QED BY <1>5, <3>1, <3>2 DEF Holds, Got, At
  <2>5. Sized'
    BY <1>2, <1>5, <1>6 DEF Sized
  <2>6. Summed' /\ Gathered' /\ Kept' /\ TakenWhole' /\ pos' % Hdr = 0
    BY <1>2, <1>5, <2>1, <2>4 DEF Summed, Gathered, Kept, TakenWhole
  <2> QED BY <2>2, <2>5, <2>6 DEF Invariant, IInv
<1> QED BY <1>7, <1>8

\* What the ring holds from the header on is the message.
LEMMA HeldIsMessage ==
  ASSUME len \in Nat, Holds(ring, len, AllBytes),
         NEW m, DOMAIN m = 1 .. len, \A k \in 1 .. len : m[k] = Got(ring, k)
  PROVE  IsMessage(m)
<1>1. {m[k] : k \in DOMAIN m} = AllBytes
  <2>1. ASSUME NEW k \in 1 .. len PROVE m[k] \in AllBytes
    BY <2>1 DEF Holds
  <2>2. ASSUME NEW b \in AllBytes PROVE \E k \in 1 .. len : b = m[k]
    BY <2>2 DEF Holds
  <2> QED BY <2>1, <2>2
<1>2. ASSUME NEW k \in DOMAIN m, NEW l \in DOMAIN m, k < l
      PROVE  Precedes(m[k], m[l])
  <2>1. k \in 1 .. len /\ l \in 1 .. len
    BY <1>2
  <2>2. Precedes(Got(ring, k), Got(ring, l))
    BY <1>2, <2>1 DEF Holds
  <2> QED BY <2>1, <2>2
<1> QED BY <1>1, <1>2 DEF IsMessage

LEMMA PieceIs ==
  ASSUME ring \in [0 .. Size - 1 -> Cells], NEW p \in Nat, NEW n \in Nat, p + n <= Size
  PROVE  /\ Piece(p, n) \in Seq(Cells) /\ Len(Piece(p, n)) = n
         /\ \A k \in 1 .. n : Piece(p, n)[k] = ring[p + k - 1]
<1>1. Piece(p, n) \in [1 .. n -> Cells]
  <2>1. SUFFICES ASSUME NEW k \in 1 .. n PROVE ring[p + k - 1] \in Cells
    BY DEF Piece
  <2>2. PICK b : b = p + k - 1 /\ b \in 0 .. Size - 1
    BY ConstantsAre
  <2> QED BY <2>2
<1>2. Piece(p, n) \in Seq(Cells)
  BY <1>1, SeqDef
<1>3. Len(Piece(p, n)) \in Nat /\ DOMAIN Piece(p, n) = 1 .. Len(Piece(p, n))
  BY <1>2, LenProperties
<1>4. Len(Piece(p, n)) = n
  BY <1>1, <1>3
<1> QED BY <1>2, <1>4 DEF Piece

LEMMA TakeKeeps ==
  ASSUME Invariant, Take
  PROVE  Invariant'
<1>1. /\ stage = "stored" /\ stage' = "taken"
      /\ lens' = lens /\ pos' = pos /\ ring' = ring /\ len' = len
  BY DEF Take
<1>2. /\ len \in 1 .. Limit /\ ActualLen(len) <= Size /\ len = Cardinality(AllBytes)
      /\ Holds(ring, len, AllBytes) /\ pos % Hdr = 0
      /\ pos \in 0 .. Size - 1 /\ ring \in [0 .. Size - 1 -> Cells]
  BY <1>1 DEF Invariant, IInv, Sized, Kept, TypeOK
<1>3. Size \in Nat /\ Hdr \in Nat \ {0} /\ pos \in Nat /\ pos < Size /\ len \in Nat
  BY <1>2, ConstantsAre
<1>4. /\ pos + Hdr <= Size /\ Hdr + len <= Size
      /\ OnePiece(len) => pos + Hdr + len <= Size
      /\ Before(len) \in 0 .. len /\ pos + Hdr + Before(len) <= Size
      /\ Before(len) < len => pos + Hdr + Before(len) = Size
  BY <1>2, PiecesFit
<1>5. ring[pos][2] = len
  <2>1. At(0) = pos /\ 0 \in 0 .. Hdr - 1
    BY <1>3 DEF At
  <2> QED BY <1>2, <2>1 DEF Holds, Header
<1>6. out' = IF OnePiece(len) THEN Piece(pos + Hdr, len)
             ELSE Piece(pos + Hdr, Before(len)) \o Piece(0, len - Before(len))
  BY <1>5 DEF Take
<1>7. PICK p : p \in Nat /\ p = pos + Hdr /\ ring \in [0 .. Size - 1 -> Cells]
  BY <1>2, <1>3
<1>8. /\ out' \in Seq(Cells) /\ Len(out') = len
      /\ \A k \in 1 .. len : out'[k] = Got(ring, k)
  <2>1. CASE OnePiece(len)
    <3>1. /\ Piece(p, len) \in Seq(Cells) /\ Len(Piece(p, len)) = len
          /\ \A k \in 1 .. len : Piece(p, len)[k] = ring[p + k - 1]
      BY <1>2, <1>3, <1>4, <1>7, <2>1, PieceIs
    <3>2. ASSUME NEW k \in 1 .. len PROVE ring[p + k - 1] = Got(ring, k)
      <4>1. At(Hdr + k - 1) = p + k - 1
        BY <1>3, <1>4, <1>7, <2>1, <3>2 DEF At
      <4> QED BY <4>1 DEF Got
    <3>3. out' = Piece(p, len)
      BY <1>6, <1>7, <2>1
    <3> QED BY <3>1, <3>2, <3>3
  <2>2. CASE ~OnePiece(len)
    <3>1. PICK b, rem : /\ b \in Nat /\ rem \in Nat /\ b = Before(len) /\ rem = len - b
                        /\ p + b <= Size /\ rem <= Size
                        /\ rem > 0 => p + b = Size
      BY <1>3, <1>4, <1>7
    <3>2. PICK f, g : f = Piece(p, b) /\ g = Piece(0, rem) /\ out' = f \o g
      BY <1>6, <1>7, <2>2, <3>1
    <3>3. /\ f \in Seq(Cells) /\ Len(f) = b
          /\ \A k \in 1 .. b : f[k] = ring[p + k - 1]
      <4>1. /\ Piece(p, b) \in Seq(Cells) /\ Len(Piece(p, b)) = b
            /\ \A k \in 1 .. b : Piece(p, b)[k] = ring[p + k - 1]
        BY <1>7, <3>1, PieceIs
      <4> QED BY <3>2, <4>1
    <3>4. /\ g \in Seq(Cells) /\ Len(g) = rem
          /\ \A k \in 1 .. rem : g[k] = ring[0 + k - 1]
      <4>1. PICK z : z = 0 /\ z \in Nat /\ z + rem <= Size
        BY <1>3, <3>1
      <4>2. /\ Piece(z, rem) \in Seq(Cells) /\ Len(Piece(z, rem)) = rem
            /\ \A k \in 1 .. rem : Piece(z, rem)[k] = ring[z + k - 1]
        BY <1>7, <3>1, <4>1, PieceIs
      <4> QED BY <3>2, <4>1, <4>2
    <3>5. /\ out' \in Seq(Cells) /\ Len(out') = b + rem
          /\ \A k \in 1 .. b + rem : out'[k] = IF k <= b THEN f[k] ELSE g[k - b]
      BY <3>2, <3>3, <3>4, ConcatProperties
    <3>6. b + rem = len
      BY <1>3, <3>1
    <3>7. ASSUME NEW k \in 1 .. len PROVE out'[k] = Got(ring, k)
      <4>1. CASE k <= b
        <5>1. At(Hdr + k - 1) = p + k - 1
          BY <1>3, <1>7, <3>1, <3>7, <4>1 DEF At
        <5>2. k \in 1 .. b
          BY <3>1, <3>7, <4>1
        <5> QED BY <3>3, <3>5, <3>6, <3>7, <4>1, <5>1, <5>2 DEF Got
      <4>2. CASE k > b
        <5>1. PICK m : m = k - b /\ m \in 1 .. rem /\ m \in Nat
          BY <1>3, <3>1, <3>7, <4>2
        <5>2. At(Hdr + k - 1) = 0 + m - 1
          <6>1. b \in Nat /\ m \in Nat /\ k \in Nat /\ k = b + m /\ p + b = Size /\ m >= 1
            BY <3>1, <3>7, <4>2, <5>1
          <6>2. PICK h : h \in Nat /\ h = Hdr + k - 1
            BY <1>3, <6>1
          <6>3. pos + h = Size + (m - 1)
            BY <1>3, <1>7, <6>1, <6>2
          <6>4. At(h) = m - 1
            BY <1>3, <6>1, <6>2, <6>3 DEF At
          <6> QED BY <6>1, <6>2, <6>4
        <5>3. out'[k] = g[m]
          <6>1. out'[k] = IF k <= b THEN f[k] ELSE g[k - b]
            BY <3>5, <3>6, <3>7
          <6>2. ~(k <= b) /\ k - b = m
            BY <1>3, <3>1, <3>7, <4>2, <5>1
          <6> QED BY <6>1, <6>2
        <5> QED BY <3>4, <5>1, <5>2, <5>3 DEF Got
      <4> QED BY <3>1, <3>7, <4>1, <4>2
    <3> QED BY <3>5, <3>6, <3>7
  <2> QED BY <2>1, <2>2
<1>9. IsMessage(out')
  <2>1. PICK m : m = out' /\ m \in Seq(Cells)
    BY <1>8
  <2>2. DOMAIN m = 1 .. len
    BY <1>8, <2>1, LenProperties
  <2> QED BY <1>2, <1>3, <1>8, <2>1, <2>2, HeldIsMessage
<1>10. TypeOK'
  BY <1>1, <1>8 DEF Take, Invariant, TypeOK
<1>11. AllBytes' = AllBytes /\ ActualLen(len)' = ActualLen(len)
  BY <1>1 DEF AllBytes, ActualLen, RoundUp
<1>12. Sized'
  BY <1>1, <1>2, <1>11 DEF Sized
<1>13. Kept'
  <2>1. PICK S, m : S = AllBytes /\ m = len /\ Holds(ring, m, S)
    BY <1>2
  <2>2. len' = m /\ AllBytes' = S
    BY <1>1, <1>11, <2>1
  <2> QED BY <1>1, <2>1, <2>2 DEF Kept, Holds, Got, At
<1>14. TakenWhole'
  BY <1>9, <1>11 DEF TakenWhole, IsMessage
<1>15. Summed' /\ Gathered' /\ pos' % Hdr = 0
  BY <1>1, <1>2 DEF Summed, Gathered
<1> QED BY <1>10, <1>12, <1>13, <1>14, <1>15 DEF Invariant, IInv

LEMMA StutterKeeps ==
  ASSUME Invariant, UNCHANGED vars
  PROVE  Invariant'
BY DEF vars, Invariant, TypeOK, IInv, Summed, Sized, Gathered, Kept, TakenWhole, Copied,
       Upto, AllBytes, Holds, Got, At, ActualLen, RoundUp, IsMessage

-----------------------------------------------------------------------------
(* Theorems *)

\* The inductive invariant: the lengths added up so far, and the bytes that the
\* turns of memcpy_v have copied so far, which are the first of the message.
THEOREM Invariance == Spec => []Invariant
<1>1. Init => Invariant
  BY InitHolds
<1>2. Invariant /\ [Next]_vars => Invariant'
  BY AddKeeps, RejectKeeps, PlaceKeeps, TurnKeeps, ReturnKeeps, TakeKeeps, StutterKeeps
     DEF Next
<1> QED BY <1>1, <1>2, PTL DEF Spec

\* No length, no position and no count that the loops keep leaves its type: none
\* of the unsigned ones falls below zero or wraps.
THEOREM CopyTypeCorrect == Spec => []TypeOK
<1>1. Invariant => TypeOK
  BY DEF Invariant
<1> QED BY <1>1, Invariance, PTL

\* memcpy_v never writes beyond the end of the ring.
THEOREM CopiesStayWithin == Spec => []WithinRing
<1>1. Invariant => WithinRing
  BY DEF Invariant, IInv, Gathered, WithinRing
<1> QED BY <1>1, Invariance, PTL

\* After enqueue the ring holds the header and the message in place, and is
\* otherwise as it was.
THEOREM GatheredInPlace == Spec => []StoredInPlace
<1>1. ASSUME Invariant PROVE StoredInPlace
  <2>1. SUFFICES ASSUME stage \in {"stored", "taken"}
                 PROVE  /\ \A k \in 0 .. Hdr - 1 : ring[(pos + k) % Size] = Header(len)
                        /\ IsMessage([k \in 1 .. len |-> ring[(pos + Hdr + k - 1) % Size]])
                        /\ \A k \in Hdr + len .. Size - 1 : ring[(pos + k) % Size] = Unused
    BY <1>1 DEF StoredInPlace, Invariant, IInv, Gathered, WithinRing
  <2>2. /\ pos \in 0 .. Size - 1 /\ pos % Hdr = 0 /\ len \in 1 .. Limit
        /\ ActualLen(len) <= Size /\ Holds(ring, len, AllBytes)
    BY <1>1, <2>1 DEF Invariant, TypeOK, IInv, Sized, Kept
  <2>3. Hdr + len <= Size
    BY <2>2, PiecesFit
  <2>4. Size \in Nat /\ Hdr \in Nat \ {0} /\ len \in Nat /\ pos \in Nat
    BY <2>2, ConstantsAre
  <2>5. ASSUME NEW k \in 0 .. Hdr - 1 PROVE ring[(pos + k) % Size] = Header(len)
    <3>1. k \in 0 .. Size - 1
      BY <2>3, <2>4, <2>5
    <3> QED BY <2>2, <2>5, <3>1, AtInRing DEF Holds
  <2>6. ASSUME NEW k \in Hdr + len .. Size - 1 PROVE ring[(pos + k) % Size] = Unused
    <3>1. k \in 0 .. Size - 1
      BY <2>4, <2>6
    <3> QED BY <2>2, <2>6, <3>1, AtInRing DEF Holds
  <2>7. ASSUME NEW k \in 1 .. len
        PROVE  ring[(pos + Hdr + k - 1) % Size] = Got(ring, k)
    <3>1. PICK h : h = Hdr + k - 1 /\ h \in 0 .. Size - 1
      BY <2>3, <2>4, <2>7
    <3>2. pos + Hdr + k - 1 = pos + h
      BY <2>4, <2>7, <3>1
    <3>3. (pos + h) % Size = At(h)
      BY <2>2, <3>1, AtInRing
    <3> QED BY <3>1, <3>2, <3>3 DEF Got
  <2>8. IsMessage([k \in 1 .. len |-> ring[(pos + Hdr + k - 1) % Size]])
    <3>1. PICK m : m = [k \in 1 .. len |-> ring[(pos + Hdr + k - 1) % Size]]
      OBVIOUS
    <3>2. DOMAIN m = 1 .. len /\ \A k \in 1 .. len : m[k] = Got(ring, k)
      BY <2>7, <3>1
    <3> QED BY <2>2, <2>4, <3>1, <3>2, HeldIsMessage
  <2> QED BY <2>5, <2>6, <2>8
<1> QED BY <1>1, Invariance, PTL

\* dequeue hands out the message that was put in.
THEOREM HandedOutWhole == Spec => []TakenWhole
<1>1. Invariant => TakenWhole
  BY DEF Invariant, IInv
<1> QED BY <1>1, Invariance, PTL

=============================================================================
