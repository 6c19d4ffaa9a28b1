---------------------------- MODULE QueueTProofs ----------------------------
(***************************************************************************)
(* Proofs about QueueT, for any number of threads, ring size and messages: *)
(* its safety, and that it implements the bounded channel of Channel.      *)
(***************************************************************************)
EXTENDS QueueTChannel, FiniteSetTheorems, SequenceTheorems, WellFoundedInduction, TLAPS

\* Cells less than one ring apart lie in different slots: this is what makes
\* disjoint ranges of positions disjoint ranges of memory.
LEMMA SlotsDistinct ==
  ASSUME NEW a \in Nat, NEW b \in Nat, a < b, b < a + Size
  PROVE  Slot(a) # Slot(b)
<1>1. Size \in Nat /\ Size > 0
  BY QueueAssumption
<1>2. SUFFICES ASSUME a % Size = b % Size PROVE FALSE
  BY DEF Slot
<1>3. /\ a \div Size \in Int /\ b \div Size \in Int
      /\ a = (Size * (a \div Size)) + (a % Size)
      /\ b = (Size * (b \div Size)) + (b % Size)
  BY <1>1
<1> DEFINE d == (b \div Size) - (a \div Size)
<1>4. d \in Int /\ b - a = Size * d
  BY <1>1, <1>2, <1>3
<1>5. CASE d <= 0
  BY <1>1, <1>4, <1>5
<1>6. CASE d >= 1
  <2>1. Size * d >= Size
    BY <1>1, <1>4, <1>6
  <2> QED BY <1>1, <1>4, <2>1
<1> QED BY <1>4, <1>5, <1>6

LEMMA SlotInRing ==
  ASSUME NEW x \in Nat
  PROVE  Slot(x) \in 0 .. Size - 1
BY QueueAssumption DEF Slot

LEMMA HeaderIsNat ==
  ASSUME NEW cell \in Cells
  PROVE  HeaderIn(cell) \subseteq Nat
<1>1. cell.w \in Nat /\ Lens \subseteq Nat
  BY QueueAssumption DEF Cells
<1>2. CASE cell.k = 0
  BY <1>1, <1>2 DEF HeaderIn
<1>3. CASE cell.k # 0
  BY <1>1, <1>3 DEF HeaderIn
<1> QED BY <1>2, <1>3

LEMMA TypeInit == Init => TypeOK
BY QueueAssumption DEF Init, TypeOK, Cells, Claims, Junk

LEMMA TypeEnqueue ==
  ASSUME TypeOK, NEW p \in Producers, 
         (\E n \in Lens : RejectEnqueue(p, n) \/ BeginEnqueue(p, n)) \/ EnqueueStep(p)
  PROVE  TypeOK'
<1> USE QueueAssumption DEF TypeOK
<1>1. ASSUME NEW n \in Lens, RejectEnqueue(p, n) PROVE TypeOK'
  BY <1>1 DEF RejectEnqueue, counters, pvars, cvars
<1>2. ASSUME NEW n \in Lens, BeginEnqueue(p, n) PROVE TypeOK'
  BY <1>2 DEF BeginEnqueue, counters, cvars
<1>3. CASE ReadPreEnq(p)
  BY <1>3 DEF ReadPreEnq, counters, cvars
<1>4. CASE ReadDeq(p)
  BY <1>4 DEF ReadDeq, counters, cvars
<1>5. CASE CasPreEnq(p)
  <2>1. ClaimOf(p) \in Claims /\ Need(len[p]) \in Nat
    BY DEF ClaimOf, Claims, Need
  <2>2. claims' \in SUBSET Claims /\ pre_enq' \in Nat
    BY <1>5, <2>1 DEF CasPreEnq
  <2>3. CASE pre_enq = epos[p]
    <3>1. off' = [off EXCEPT ![p] = 0] /\ ppc' = [ppc EXCEPT ![p] = "write"]
      BY <1>5, <2>3 DEF CasPreEnq
    <3>2. UNCHANGED <<mem, enq, deq, pre_deq, calls, len, id, epos, cvars>>
      BY <1>5 DEF CasPreEnq
    <3> HIDE <1>5, <2>3
    <3> QED BY <2>2, <3>1, <3>2 DEF cvars
  <2>4. CASE pre_enq # epos[p]
    BY <1>5, <2>4 DEF CasPreEnq, cvars
  <2> QED BY <2>3, <2>4
<1>6. CASE WriteCell(p)
  <2>1. epos[p] + off[p] \in Nat
    OBVIOUS
  <2>3. Slot(epos[p] + off[p]) \in 0 .. Size - 1
    BY <2>1, SlotInRing
  <2>2. Cell(len[p], id[p], off[p]) \in Cells
    BY DEF Cell, Cells
  <2>4. mem' \in [0 .. Size - 1 -> Cells]
    BY <1>6, <2>2, <2>3 DEF WriteCell
  <2>5. off' \in [Producers -> Nat]
    BY <1>6 DEF WriteCell
  <2>6. ppc' = [ppc EXCEPT ![p] = "publish"] \/ ppc' = [ppc EXCEPT ![p] = "write"]
    BY <1>6 DEF WriteCell
  <2>7. UNCHANGED <<counters, calls, len, id, epos, cvars, claims>>
    BY <1>6 DEF WriteCell
  <2> QED BY <2>4, <2>5, <2>6, <2>7 DEF counters, cvars
<1>7. CASE Publish(p)
  <2>1. enq' \in Nat /\ ppc' = [ppc EXCEPT ![p] = "idle"]
    BY <1>7 DEF Publish, Need
  <2>2. UNCHANGED <<mem, pre_enq, deq, pre_deq, calls, len, id, epos, off, cvars, claims>>
    BY <1>7 DEF Publish
  <2> QED BY <2>1, <2>2 DEF cvars
<1> QED BY <1>1, <1>2, <1>3, <1>4, <1>5, <1>6, <1>7 DEF EnqueueStep

LEMMA TypeDequeue ==
  ASSUME TypeOK, NEW c \in Consumers, 
         (\E n \in Caps : BeginDequeue(c, n)) \/ DequeueStep(c)
  PROVE  TypeOK'
<1> USE QueueAssumption DEF TypeOK
<1>1. ASSUME NEW n \in Caps, BeginDequeue(c, n) PROVE TypeOK'
  BY <1>1 DEF BeginDequeue, counters, pvars
<1>2. CASE ReadPreDeq(c)
  BY <1>2 DEF ReadPreDeq, counters, pvars
<1>3. CASE ReadEnq(c)
  BY <1>3 DEF ReadEnq, counters, pvars
<1>4. CASE ReadHdr(c)
  <2>1. Slot(dpos[c]) \in 0 .. Size - 1
    BY SlotInRing
  <2>3. mem[Slot(dpos[c])] \in Cells
    BY <2>1
  <2>2. HeaderIn(mem[Slot(dpos[c])]) \subseteq Nat
    BY <2>3, HeaderIsNat
  <2>4. PICK n \in Nat : hlen' = [hlen EXCEPT ![c] = n]
    BY <1>4, <2>2 DEF ReadHdr
  <2>5. hlen' \in [Consumers -> Nat]
    BY <2>4
  <2>6. /\ cpc' = [cpc EXCEPT ![c] = "cas"]
        /\ UNCHANGED <<mem, counters, calls, pvars, cap, dpos, buf, claims>>
    BY <1>4 DEF ReadHdr
  <2> HIDE <1>4
  <2> QED BY <2>5, <2>6 DEF counters, pvars
<1>5. CASE CasPreDeq(c)
  <2>1. buf' \in [Consumers -> Seq(Cells)]
    <3>1. buf' = [buf EXCEPT ![c] = << >>] \/ buf' = buf
      BY <1>5 DEF CasPreDeq
    <3>2. << >> \in Seq(Cells)
      OBVIOUS
    <3> HIDE <1>5
    <3> QED BY <3>1, <3>2
  <2>2. pre_deq' \in Nat
    BY <1>5 DEF CasPreDeq, Need
  <2>3. cpc' \in [Consumers -> {"idle", "readPre", "readEnq", "readHdr", "cas", "copy", "drop"}]
    BY <1>5 DEF CasPreDeq
  <2> QED BY <1>5, <2>1, <2>2, <2>3 DEF CasPreDeq, pvars
<1>6. CASE CopyCell(c)
  <2>1. buf[c] \in Seq(Cells) /\ dpos[c] + 1 + Len(buf[c]) \in Nat
    OBVIOUS
  <2>4. Slot(dpos[c] + 1 + Len(buf[c])) \in 0 .. Size - 1
    BY <2>1, SlotInRing
  <2>2. mem[Slot(dpos[c] + 1 + Len(buf[c]))] \in Cells
    BY <2>4
  <2>3. Append(buf[c], mem[Slot(dpos[c] + 1 + Len(buf[c]))]) \in Seq(Cells)
    BY <2>1, <2>2
  <2>5. buf' \in [Consumers -> Seq(Cells)]
    BY <1>6, <2>3 DEF CopyCell
  <2> QED BY <1>6, <2>5 DEF CopyCell, counters, pvars
<1>7. CASE Release(c)
  BY <1>7 DEF Release, pvars, Need
<1> QED BY <1>1, <1>2, <1>3, <1>4, <1>5, <1>6, <1>7 DEF DequeueStep

\* Every variable keeps its type, for any threads, ring size and messages.
THEOREM TypeCorrect == Spec => []TypeOK
<1>1. TypeOK /\ [Next]_vars => TypeOK'
  <2> SUFFICES ASSUME TypeOK, [Next]_vars PROVE TypeOK'
    OBVIOUS
  <2>1. CASE Next
    BY <2>1, TypeEnqueue, TypeDequeue DEF Next
  <2>2. CASE UNCHANGED vars
    BY <2>2 DEF vars, counters, pvars, cvars, TypeOK
  <2> QED BY <2>1, <2>2
<1> QED BY <1>1, TypeInit, PTL DEF Spec

-----------------------------------------------------------------------------
(* The inductive invariant *)

LEMMA InitIInv == Init => IInv
<1> SUFFICES ASSUME Init PROVE IInv
  OBVIOUS
<1>1. TypeOK
  BY TypeInit
<1>2. claims = {} /\ enq = 0 /\ pre_enq = 0 /\ deq = 0 /\ pre_deq = 0
  BY DEF Init
<1>3. \A p \in Producers : ppc[p] = "idle"
  BY DEF Init
<1>4. \A c \in Consumers : cpc[c] = "idle"
  BY DEF Init
<1>5. WindowOrder /\ Tiling
  BY <1>2, QueueAssumption DEF WindowOrder, Tiling, Boundary
<1>6. RoomKept /\ WritersOwn
  BY <1>3 DEF RoomKept, WritersOwn, Writing
<1>7. PositionOnceNext /\ ReadersOwn /\ HeaderFresh /\ IntactDelivery
  BY <1>4 DEF PositionOnceNext, ReadersOwn, ReaderOwns, HeaderFresh, IntactDelivery, Reading
<1>8. ContentKept /\ NoOrphan
  BY <1>2 DEF ContentKept, NoOrphan
<1> QED BY <1>1, <1>5, <1>6, <1>7, <1>8 DEF IInv

\* A step of a producer that is outside the ring before and after it keeps
\* the invariant, provided what it has read is right.
LEMMA ProducerOutside ==
  ASSUME IInv, TypeOK', NEW p \in Producers,
         UNCHANGED <<mem, enq, pre_enq, deq, pre_deq, claims, cpc, cap, dpos, hlen, buf>>,
         ~Writing(p), ~Writing(p)',
         \A q \in Producers \ {p} :
           /\ ppc'[q] = ppc[q] /\ len'[q] = len[q] /\ id'[q] = id[q]
           /\ epos'[q] = epos[q] /\ off'[q] = off[q],
         ppc'[p] \in {"readDeq", "cas"} => epos'[p] <= pre_enq,
         ppc'[p] = "cas" => epos'[p] + Need(len'[p]) - deq <= Size
  PROVE  IInv'
<1>1. WindowOrder'
  BY DEF IInv, WindowOrder
<1>2. Tiling'
  BY DEF IInv, Tiling, Boundary
<1>3. RoomKept'
  BY DEF IInv, RoomKept
<1>4. \A q \in Producers : Writing(q)' = Writing(q)
  BY DEF Writing
<1>5. WritersOwn'
  BY <1>4 DEF IInv, WritersOwn, WriterOwns, ClaimOf, Writing
<1>6. ContentKept'
  BY DEF IInv, ContentKept
<1>7. PositionOnceNext' /\ ReadersOwn' /\ HeaderFresh' /\ IntactDelivery'
  BY DEF IInv, PositionOnceNext, ReadersOwn, ReaderOwns, HeaderFresh, IntactDelivery, Reading
<1>8. NoOrphan'
  <2>1. SUFFICES ASSUME NEW r \in claims,
                        r.pos >= enq
                 PROVE  \E q \in Producers :
                          /\ Writing(q)' /\ ClaimOf(q)' = r
                          /\ \A o \in Producers \ {q} : Writing(o)' => epos'[o] # r.pos
    BY DEF IInv, NoOrphan, Reading
  <2>2. PICK q \in Producers :
          /\ Writing(q) /\ ClaimOf(q) = r
          /\ \A o \in Producers \ {q} : Writing(o) => epos[o] # r.pos
    BY <2>1 DEF IInv, NoOrphan
  <2>3. q # p
    BY <2>2
  <2>4. ClaimOf(q)' = ClaimOf(q)
    BY <2>3 DEF ClaimOf
  <2> QED BY <1>4, <2>2, <2>4
<1> QED BY <1>1, <1>2, <1>3, <1>5, <1>6, <1>7, <1>8 DEF IInv

\* The same of a consumer, provided the header it has read is right.
LEMMA ConsumerOutside ==
  ASSUME IInv, TypeOK', NEW c \in Consumers,
         UNCHANGED <<mem, enq, pre_enq, deq, pre_deq, claims, ppc, len, id, epos, off>>,
         ~Reading(c), ~Reading(c)',
         \A d \in Consumers \ {c} :
           /\ cpc'[d] = cpc[d] /\ dpos'[d] = dpos[d] /\ hlen'[d] = hlen[d]
           /\ buf'[d] = buf[d],
         cpc'[c] \in {"readEnq", "readHdr", "cas"} => dpos'[c] <= pre_deq,
         cpc'[c] \in {"readHdr", "cas"} => dpos'[c] < enq,
         cpc'[c] = "cas" /\ pre_deq = dpos'[c] =>
           \E r \in claims : r.pos = dpos'[c] /\ r.len = hlen'[c] /\ End(r) <= enq
  PROVE  IInv'
<1>1. WindowOrder'
  BY DEF IInv, WindowOrder
<1>2. Tiling'
  BY DEF IInv, Tiling, Boundary
<1>3. RoomKept'
  BY DEF IInv, RoomKept
<1>4. \A d \in Consumers : Reading(d)' = Reading(d)
  BY DEF Reading
<1>5. WritersOwn' /\ ContentKept'
  BY DEF IInv, WritersOwn, WriterOwns, ContentKept, ClaimOf, Writing
<1>6. PositionOnceNext'
  BY DEF IInv, PositionOnceNext
<1>7. ReadersOwn'
  BY <1>4 DEF IInv, ReadersOwn, ReaderOwns
<1>8. HeaderFresh'
  BY DEF IInv, HeaderFresh, End
<1>9. IntactDelivery'
  BY <1>4 DEF IInv, IntactDelivery
<1>10. NoOrphan'
  BY <1>4 DEF IInv, NoOrphan, Writing, ClaimOf
<1> QED BY <1>1, <1>2, <1>3, <1>5, <1>6, <1>7, <1>8, <1>9, <1>10 DEF IInv

\* The ends of a claim, and the window it lies in.
LEMMA ClaimInWindow ==
  ASSUME IInv, NEW r \in claims
  PROVE  /\ r.pos \in Nat /\ r.len \in Nat /\ r.id \in Nat
         /\ End(r) \in Nat /\ r.pos < End(r) /\ End(r) = r.pos + r.len + 1
         /\ deq <= r.pos /\ End(r) <= pre_enq /\ pre_enq - deq <= Size
<1>1. r \in Claims
  BY DEF IInv, TypeOK
<1>2. r.pos \in Nat /\ r.len \in Nat /\ r.id \in Nat
  BY <1>1 DEF Claims
<1> QED BY <1>2 DEF IInv, Tiling, WindowOrder, End, Need

\* No slot belongs to two cells of the claims in the ring.
LEMMA ClaimsApart ==
  ASSUME IInv, NEW r \in claims, NEW s \in claims,
         NEW j \in 0 .. r.len, NEW k \in 0 .. s.len, r # s \/ j # k
  PROVE  Slot(r.pos + j) # Slot(s.pos + k)
<1>1. /\ r.pos + j \in Nat /\ s.pos + k \in Nat
      /\ r.pos + j < End(r) /\ s.pos + k < End(s)
  BY ClaimInWindow
<1>0. deq \in Nat /\ pre_enq \in Nat /\ Size \in Nat /\ pre_enq - deq <= Size
  BY QueueAssumption DEF IInv, TypeOK, WindowOrder
<1>2. /\ deq <= r.pos + j /\ r.pos + j < deq + Size
      /\ deq <= s.pos + k /\ s.pos + k < deq + Size
  <2>1. deq <= r.pos /\ End(r) <= pre_enq /\ deq <= s.pos /\ End(s) <= pre_enq
    BY ClaimInWindow
  <2>2. r.pos \in Nat /\ s.pos \in Nat /\ End(r) \in Nat /\ End(s) \in Nat
    BY ClaimInWindow
  <2> QED BY <1>0, <1>1, <2>1, <2>2
<1>3. r.pos + j # s.pos + k
  <2>1. CASE r = s
    BY <2>1, ClaimInWindow
  <2>2. CASE r # s
    <3>1. End(r) <= s.pos \/ End(s) <= r.pos
      BY <2>2 DEF IInv, Tiling
    <3> QED BY <3>1, <1>1, ClaimInWindow
  <2> QED BY <2>1, <2>2
<1>4. r.pos + j < s.pos + k \/ s.pos + k < r.pos + j
  BY <1>1, <1>3
<1>5. CASE r.pos + j < s.pos + k
  <2>1. s.pos + k < (r.pos + j) + Size
    BY <1>0, <1>1, <1>2
  <2> HIDE <1>2
  <2> QED BY <1>1, <1>5, <2>1, SlotsDistinct
<1>6. CASE s.pos + k < r.pos + j
  <2>1. r.pos + j < (s.pos + k) + Size
    BY <1>0, <1>1, <1>2
  <2> HIDE <1>2
  <2> QED BY <1>1, <1>6, <2>1, SlotsDistinct
<1> QED BY <1>4, <1>5, <1>6

-----------------------------------------------------------------------------
(* enqueue keeps the invariant *)

LEMMA ClaimingKeeps ==
  ASSUME IInv, TypeOK', NEW p \in Producers, CasPreEnq(p), pre_enq = epos[p]
  PROVE  IInv'
<1> DEFINE C == ClaimOf(p)
<1>1. /\ pre_enq' = pre_enq + Need(len[p]) /\ claims' = claims \cup {C}
      /\ off' = [off EXCEPT ![p] = 0] /\ ppc' = [ppc EXCEPT ![p] = "write"]
      /\ UNCHANGED <<mem, enq, deq, pre_deq, calls, len, id, epos, cpc, cap, dpos, hlen, buf>>
      /\ ppc[p] = "cas"
  BY DEF CasPreEnq, cvars
<1>2. TypeOK
  BY DEF IInv
<1>3. /\ C.pos = pre_enq /\ C.len = len[p] /\ C.id = id[p] /\ C \in Claims
      /\ len[p] \in Nat /\ pre_enq \in Nat /\ End(C) = pre_enq'
  BY <1>1, <1>2 DEF ClaimOf, Claims, TypeOK, End
<1>4. pre_enq < pre_enq' /\ pre_enq' - deq <= Size
  BY <1>1, <1>2, <1>3 DEF IInv, RoomKept, Need, TypeOK
<1>5. WindowOrder'
  BY <1>1, <1>2, <1>4 DEF IInv, WindowOrder, TypeOK
<1>6. Tiling'
  <2>1. ASSUME NEW x, Boundary(x) PROVE Boundary(x)'
    BY <1>1, <1>3, <2>1 DEF Boundary
  <2>2. ASSUME NEW x, x = pre_enq' PROVE Boundary(x)'
    BY <2>2 DEF Boundary
  <2>3. \A r \in claims : End(r) \in Nat /\ r.pos \in Nat /\ deq <= r.pos /\ End(r) <= pre_enq
    BY ClaimInWindow
  <2>4. ASSUME NEW r \in claims'
        PROVE  deq <= r.pos /\ End(r) <= pre_enq' /\ Boundary(End(r))'
    <3>1. CASE r = C
      <4>1. Boundary(End(r))'
        BY <1>3, <2>2, <3>1
      <4>2. deq <= pre_enq
        BY <1>2 DEF IInv, WindowOrder, TypeOK
      <4>3. deq <= C.pos /\ End(C) <= pre_enq'
        BY <1>1, <1>2, <1>3, <4>2 DEF TypeOK
      <4> QED BY <3>1, <4>1, <4>3
    <3>2. CASE r # C
      <4>1. r \in claims /\ Boundary(End(r))
        BY <1>1, <3>2 DEF IInv, Tiling
      <4>2. Boundary(End(r))'
        BY <2>1, <4>1
      <4>3. pre_enq' \in Nat /\ pre_enq \in Nat /\ End(r) \in Nat /\ deq <= r.pos /\ End(r) <= pre_enq
        BY <1>2, <2>3, <4>1 DEF TypeOK
      <4> QED BY <1>4, <4>2, <4>3
    <3> QED BY <3>1, <3>2
  <2>5. \A r, s \in claims' : r = s \/ End(r) <= s.pos \/ End(s) <= r.pos
    BY <1>1, <1>3, <2>3 DEF IInv, Tiling
  <2>6. Boundary(deq)' /\ Boundary(pre_deq)' /\ Boundary(enq)'
    BY <1>1, <2>1 DEF IInv, Tiling, Boundary
  <2> QED BY <1>1, <2>4, <2>5, <2>6 DEF Tiling, End
<1>7. RoomKept'
  BY <1>1, <1>2, <1>4 DEF IInv, RoomKept, TypeOK
<1>8. \A q \in Producers \ {p} : Writing(q)' = Writing(q) /\ ClaimOf(q)' = ClaimOf(q)
  BY <1>1, <1>2 DEF Writing, ClaimOf, TypeOK
<1>9. \A q \in Producers : Writing(q) => q # p /\ epos[q] < pre_enq
  <2>1. SUFFICES ASSUME NEW q \in Producers, Writing(q) PROVE q # p /\ epos[q] < pre_enq
    OBVIOUS
  <2>2. ClaimOf(q) \in claims /\ ClaimOf(q).pos = epos[q]
    BY <2>1 DEF IInv, WritersOwn, WriterOwns, ClaimOf
  <2> QED BY <1>1, <1>3, <2>1, <2>2, ClaimInWindow DEF Writing
<1>10. Writing(p)' /\ ClaimOf(p)' = C /\ C \in claims'
  BY <1>1, <1>2 DEF Writing, ClaimOf, TypeOK
<1>11. WritersOwn'
  <2>1. WriterOwns(p)'
    <3>1. off'[p] = 0 /\ ppc'[p] = "write"
      BY <1>1, <1>2 DEF TypeOK
    <3>2. enq' <= epos'[p]
      BY <1>1, <1>2 DEF IInv, WindowOrder
    <3>3. \A q \in Producers : Writing(q)' /\ epos'[q] = epos'[p] => q = p
      BY <1>1, <1>3, <1>8, <1>9, <1>2 DEF TypeOK
    <3> QED BY <1>1, <1>2, <1>3, <1>10, <3>1, <3>2, <3>3 DEF WriterOwns, TypeOK
  <2>2. ASSUME NEW q \in Producers \ {p}, Writing(q)' PROVE WriterOwns(q)'
    <3>1. WriterOwns(q) /\ Writing(q) /\ epos[q] # epos[p]
      BY <1>1, <1>3, <1>8, <1>9, <1>2, <2>2 DEF IInv, WritersOwn, TypeOK
    <3>2. off'[q] = off[q] /\ ppc'[q] = ppc[q]
      BY <1>1, <1>2 DEF TypeOK
    <3> QED BY <1>1, <1>8, <3>1, <3>2 DEF WriterOwns
  <2> QED BY <2>1, <2>2 DEF WritersOwn
<1>12. ContentKept'
  BY <1>1, <1>2, <1>3 DEF IInv, ContentKept, WindowOrder, TypeOK
<1>13. PositionOnceNext' /\ ReadersOwn' /\ HeaderFresh' /\ IntactDelivery'
  BY <1>1 DEF IInv, PositionOnceNext, ReadersOwn, ReaderOwns, HeaderFresh, IntactDelivery, Reading, End
<1>14. NoOrphan'
  <2>1. \A d \in Consumers : Reading(d)' = Reading(d) /\ dpos'[d] = dpos[d]
    BY <1>1 DEF Reading
  <2>2. \A r \in claims' : r.pos < pre_deq' => r \in claims
    BY <1>1, <1>2, <1>3 DEF IInv, WindowOrder, TypeOK
  <2>3. ASSUME NEW r \in claims', r.pos >= enq'
        PROVE  \E q \in Producers :
                 /\ Writing(q)' /\ ClaimOf(q)' = r
                 /\ \A o \in Producers \ {q} : Writing(o)' => epos'[o] # r.pos
    <3>1. CASE r = C
      BY <1>1, <1>3, <1>8, <1>9, <1>10, <3>1
    <3>2. CASE r # C
      <4>1. r \in claims /\ r.pos >= enq
        BY <1>1, <2>3, <3>2
      <4>2. PICK q \in Producers :
              /\ Writing(q) /\ ClaimOf(q) = r
              /\ \A o \in Producers \ {q} : Writing(o) => epos[o] # r.pos
        BY <4>1 DEF IInv, NoOrphan
      <4>3. epos'[p] # r.pos
        BY <1>1, <1>3, <4>1, ClaimInWindow
      <4> QED BY <1>1, <1>8, <1>9, <4>2, <4>3
    <3> QED BY <3>1, <3>2
  <2> QED BY <1>1, <2>1, <2>2, <2>3 DEF IInv, NoOrphan
<1> QED BY <1>5, <1>6, <1>7, <1>11, <1>12, <1>13, <1>14 DEF IInv

LEMMA WritingKeeps ==
  ASSUME IInv, TypeOK', NEW p \in Producers, WriteCell(p)
  PROVE  IInv'
<1> DEFINE C == ClaimOf(p)
           at == Slot(epos[p] + off[p])
<1>1. TypeOK
  BY DEF IInv
<1>2. /\ ppc[p] = "write" /\ off' = [off EXCEPT ![p] = off[p] + 1]
      /\ mem' = [mem EXCEPT ![at] = Cell(len[p], id[p], off[p])]
      /\ ppc' = [ppc EXCEPT ![p] = IF off[p] = len[p] THEN "publish" ELSE "write"]
      /\ UNCHANGED <<enq, pre_enq, deq, pre_deq, len, id, epos, cpc, cap, dpos, hlen, buf, claims>>
  BY DEF WriteCell, counters, cvars
<1>3. /\ C \in claims /\ C.pos = epos[p] /\ C.len = len[p] /\ C.id = id[p]
      /\ enq <= epos[p] /\ off[p] \in 0 .. C.len
  BY <1>1, <1>2 DEF IInv, WritersOwn, WriterOwns, Writing, ClaimOf, TypeOK
<1>4. /\ at \in 0 .. Size - 1 /\ mem'[at] = Cell(len[p], id[p], off[p])
      /\ \A x \in 0 .. Size - 1 : x # at => mem'[x] = mem[x]
  <2>1. epos[p] + off[p] \in Nat
    BY <1>1 DEF TypeOK
  <2>2. at \in 0 .. Size - 1
    BY <2>1, SlotInRing
  <2> QED BY <1>1, <1>2, <2>2 DEF TypeOK
<1>5. ASSUME NEW r \in claims, NEW k \in 0 .. r.len, r # C \/ k # off[p]
      PROVE  mem'[Slot(r.pos + k)] = mem[Slot(r.pos + k)]
  <2>1. Slot(r.pos + k) # at
    BY <1>3, <1>5, ClaimsApart
  <2>2. r.pos + k \in Nat
    BY ClaimInWindow
  <2>3. Slot(r.pos + k) \in 0 .. Size - 1
    BY <2>2, SlotInRing
  <2> QED BY <1>4, <2>1, <2>3
<1>6. WindowOrder' /\ Tiling'
  BY <1>2 DEF IInv, WindowOrder, Tiling, Boundary, End
<1>7. RoomKept'
  BY <1>1, <1>2 DEF IInv, RoomKept, TypeOK
<1>8. \A q \in Producers : Writing(q)' = Writing(q) /\ ClaimOf(q)' = ClaimOf(q)
  BY <1>1, <1>2 DEF Writing, ClaimOf, TypeOK
<1>9. WritersOwn'
  <2>1. WriterOwns(p)'
    <3>1. WriterOwns(p)
      BY <1>2 DEF IInv, WritersOwn, Writing
    <3>2. /\ off'[p] = off[p] + 1
          /\ ppc'[p] = IF off[p] = len[p] THEN "publish" ELSE "write"
      BY <1>1, <1>2 DEF TypeOK
    <3>3. ASSUME NEW k \in 0 .. off'[p] - 1
          PROVE  mem'[Slot(epos[p] + k)] = Cell(len[p], id[p], k)
      <4>1. CASE k = off[p]
        BY <1>4, <4>1
      <4>2. CASE k # off[p]
        <5>0. off[p] \in Nat /\ len[p] \in Nat /\ off[p] <= C.len
          BY <1>1, <1>3 DEF TypeOK
        <5>1. k \in 0 .. off[p] - 1 /\ k \in 0 .. C.len
          BY <1>3, <3>2, <4>2, <5>0
        <5>2. mem[Slot(epos[p] + k)] = Cell(len[p], id[p], k)
          BY <3>1, <5>1 DEF WriterOwns
        <5> QED BY <1>3, <1>5, <4>2, <5>1, <5>2
      <4> QED BY <4>1, <4>2
    <3>4. ppc'[p] = "write" => off'[p] <= len[p]
      BY <1>1, <1>3, <3>2 DEF TypeOK
    <3>5. ppc'[p] = "publish" => off'[p] = Need(len[p])
      BY <1>1, <3>2 DEF TypeOK, Need
    <3> QED BY <1>2, <1>8, <3>1, <3>3, <3>4, <3>5 DEF WriterOwns
  <2>2. ASSUME NEW q \in Producers \ {p}, Writing(q) PROVE WriterOwns(q)'
    <3>1. WriterOwns(q)
      BY <2>2 DEF IInv, WritersOwn
    <3>2. off'[q] = off[q] /\ ppc'[q] = ppc[q]
      BY <1>1, <1>2 DEF TypeOK
    <3>3. ClaimOf(q) \in claims /\ ClaimOf(q) # C /\ ClaimOf(q).pos = epos[q] /\ ClaimOf(q).len = len[q]
      <4>1. epos[q] # epos[p]
        BY <1>2, <2>2, <3>1 DEF WriterOwns, Writing
      <4> QED BY <3>1, <4>1 DEF WriterOwns, ClaimOf
    <3>6. off[q] \in Nat /\ len[q] \in Nat
      BY <1>1 DEF TypeOK
    <3>7. off[q] <= len[q] \/ off[q] = len[q] + 1
      BY <2>2, <3>1 DEF WriterOwns, Writing, Need
    <3>4. off[q] - 1 <= len[q]
      BY <3>6, <3>7
    <3>5. ASSUME NEW k \in 0 .. off[q] - 1
          PROVE  mem'[Slot(epos[q] + k)] = Cell(len[q], id[q], k)
      <4>1. k \in 0 .. ClaimOf(q).len
        BY <3>3, <3>4, <3>6
      <4>2. mem'[Slot(ClaimOf(q).pos + k)] = mem[Slot(ClaimOf(q).pos + k)]
        BY <1>5, <3>3, <4>1
      <4> QED BY <3>1, <3>3, <4>2 DEF WriterOwns
    <3> QED BY <1>2, <1>8, <3>1, <3>2, <3>5 DEF WriterOwns
  <2> QED BY <1>8, <2>1, <2>2 DEF WritersOwn
<1>10. ContentKept'
  <2>1. ASSUME NEW r \in claims, r.pos < enq, NEW k \in 0 .. r.len
        PROVE  mem'[Slot(r.pos + k)] = Cell(r.len, r.id, k)
    <3>1. r # C
      <4>1. r.pos \in Nat /\ enq \in Nat /\ epos[p] \in Nat
        BY <1>1, ClaimInWindow DEF TypeOK
      <4> QED BY <1>3, <2>1, <4>1
    <3> QED BY <1>5, <2>1, <3>1 DEF IInv, ContentKept
  <2> QED BY <1>2, <2>1 DEF ContentKept
<1>11. PositionOnceNext' /\ ReadersOwn' /\ HeaderFresh' /\ IntactDelivery'
  BY <1>2 DEF IInv, PositionOnceNext, ReadersOwn, ReaderOwns, HeaderFresh, IntactDelivery, Reading, End
<1>12. NoOrphan'
  BY <1>2, <1>8 DEF IInv, NoOrphan, Reading
<1> QED BY <1>6, <1>7, <1>9, <1>10, <1>11, <1>12 DEF IInv

LEMMA PublishingKeeps ==
  ASSUME IInv, TypeOK', NEW p \in Producers, Publish(p)
  PROVE  IInv'
<1> DEFINE C == ClaimOf(p)
<1>1. TypeOK
  BY DEF IInv
<1>2. /\ ppc[p] = "publish" /\ enq = epos[p] /\ enq' = epos[p] + Need(len[p])
      /\ ppc' = [ppc EXCEPT ![p] = "idle"]
      /\ UNCHANGED <<mem, pre_enq, deq, pre_deq, len, id, epos, off, cpc, cap, dpos, hlen, buf, claims>>
  BY DEF Publish, cvars
<1>3. WriterOwns(p)
  BY <1>2 DEF IInv, WritersOwn, Writing
<1>4. /\ C \in claims /\ C.pos = enq /\ C.len = len[p] /\ C.id = id[p]
      /\ End(C) = enq' /\ enq < enq' /\ enq' <= pre_enq
  <2>1. C \in claims /\ C.pos = enq /\ C.len = len[p] /\ C.id = id[p] /\ End(C) = enq'
    BY <1>2, <1>3 DEF WriterOwns, ClaimOf, End
  <2> QED BY <2>1, ClaimInWindow
<1>5. WindowOrder'
  BY <1>1, <1>2, <1>4 DEF IInv, WindowOrder, TypeOK
<1>6. Tiling'
  <2>1. Boundary(End(C))
    BY <1>4 DEF IInv, Tiling
  <2>2. \A x : Boundary(x)' = Boundary(x)
    BY <1>2 DEF Boundary
  <2>3. Boundary(enq)'
    BY <1>2, <1>4, <2>1 DEF Boundary
  <2>4. Boundary(deq)' /\ Boundary(pre_deq)'
    BY <1>2 DEF IInv, Tiling, Boundary
  <2>5. \A r \in claims : Boundary(End(r))'
    BY <2>2 DEF IInv, Tiling
  <2> QED BY <1>2, <2>3, <2>4, <2>5 DEF IInv, Tiling, End
<1>7. RoomKept'
  BY <1>1, <1>2 DEF IInv, RoomKept, TypeOK
<1>8. /\ ~Writing(p)'
      /\ \A q \in Producers \ {p} : Writing(q)' = Writing(q) /\ ppc'[q] = ppc[q]
      /\ \A q \in Producers : ClaimOf(q)' = ClaimOf(q)
  BY <1>1, <1>2 DEF Writing, ClaimOf, TypeOK
<1>9. WritersOwn'
  <2>1. ASSUME NEW q \in Producers \ {p}, Writing(q) PROVE WriterOwns(q)'
    <3>1. WriterOwns(q)
      BY <2>1 DEF IInv, WritersOwn
    <3>2. ClaimOf(q) \in claims /\ ClaimOf(q).pos = epos[q] /\ epos[q] # epos[p]
      BY <1>2, <2>1, <3>1 DEF WriterOwns, ClaimOf, Writing
    <3>3. ClaimOf(q) # C
      BY <1>2, <1>4, <3>2
    <3>4. End(C) <= epos[q] \/ End(ClaimOf(q)) <= enq
      BY <1>4, <3>2, <3>3 DEF IInv, Tiling
    <3>5. epos[q] < End(ClaimOf(q)) /\ End(ClaimOf(q)) \in Nat
      BY <3>2, ClaimInWindow
    <3>6. enq' <= epos'[q]
      BY <1>1, <1>2, <1>4, <3>1, <3>4, <3>5 DEF WriterOwns, TypeOK
    <3> QED BY <1>2, <1>8, <3>1, <3>6 DEF WriterOwns
  <2> QED BY <1>8, <2>1 DEF WritersOwn
<1>10. ContentKept'
  <2>1. ASSUME NEW r \in claims, r.pos < enq', NEW k \in 0 .. r.len
        PROVE  mem[Slot(r.pos + k)] = Cell(r.len, r.id, k)
    <3>1. CASE r = C
      <4>1. k \in 0 .. off[p] - 1
        BY <1>1, <1>2, <1>3, <1>4, <3>1 DEF WriterOwns, Need, TypeOK
      <4> QED BY <1>2, <1>3, <1>4, <3>1, <4>1 DEF WriterOwns
    <3>2. CASE r # C
      <4>1. End(r) <= C.pos \/ End(C) <= r.pos
        BY <1>4, <3>2 DEF IInv, Tiling
      <4>3. r.pos \in Nat /\ End(r) \in Nat /\ r.pos < End(r) /\ C.pos = enq /\ End(C) = enq'
        BY <1>4, ClaimInWindow
      <4>4. enq \in Nat /\ enq' \in Nat
        BY <1>1 DEF TypeOK
      <4>2. r.pos < enq
        BY <2>1, <4>1, <4>3, <4>4
      <4> QED BY <4>2 DEF IInv, ContentKept
    <3> QED BY <3>1, <3>2
  <2> QED BY <1>2, <2>1 DEF ContentKept
<1>11. PositionOnceNext'
  BY <1>1, <1>2, <1>4 DEF IInv, PositionOnceNext, TypeOK
<1>12. ReadersOwn' /\ IntactDelivery'
  BY <1>2 DEF IInv, ReadersOwn, ReaderOwns, IntactDelivery, Reading, End
<1>13. HeaderFresh'
  <2>1. ASSUME NEW c \in Consumers, cpc[c] = "cas", pre_deq = dpos[c]
        PROVE  \E r \in claims : r.pos = dpos[c] /\ r.len = hlen[c] /\ End(r) <= enq'
    <3>1. PICK r \in claims : r.pos = dpos[c] /\ r.len = hlen[c] /\ End(r) <= enq
      BY <2>1 DEF IInv, HeaderFresh
    <3>2. End(r) \in Nat /\ enq \in Nat /\ enq' \in Nat
      BY <1>1, ClaimInWindow DEF TypeOK
    <3> QED BY <1>4, <3>1, <3>2
  <2> QED BY <1>2, <2>1 DEF HeaderFresh, End
<1>14. NoOrphan'
  <2>1. ASSUME NEW r \in claims, r.pos >= enq'
        PROVE  \E q \in Producers :
                 /\ Writing(q)' /\ ClaimOf(q)' = r
                 /\ \A o \in Producers \ {q} : Writing(o)' => epos'[o] # r.pos
    <3>0. enq \in Nat /\ enq' \in Nat /\ r.pos \in Nat /\ enq < enq'
      BY <1>1, <1>4, ClaimInWindow DEF TypeOK
    <3>1. r.pos >= enq /\ r.pos # enq
      BY <2>1, <3>0
    <3>2. PICK q \in Producers :
            /\ Writing(q) /\ ClaimOf(q) = r
            /\ \A o \in Producers \ {q} : Writing(o) => epos[o] # r.pos
      BY <3>1 DEF IInv, NoOrphan
    <3>3. q # p
      BY <1>4, <3>1, <3>2
    <3> QED BY <1>2, <1>8, <3>2, <3>3
  <2> QED BY <1>2, <2>1 DEF IInv, NoOrphan, Reading
<1> QED BY <1>5, <1>6, <1>7, <1>9, <1>10, <1>11, <1>12, <1>13, <1>14 DEF IInv

LEMMA EnqueueKeeps ==
  ASSUME IInv, TypeOK', NEW p \in Producers,
         (\E n \in Lens : RejectEnqueue(p, n) \/ BeginEnqueue(p, n)) \/ EnqueueStep(p)
  PROVE  IInv'
<1>1. TypeOK
  BY DEF IInv
<1>2. ASSUME NEW n \in Lens, RejectEnqueue(p, n) PROVE IInv'
  <2>1. UNCHANGED <<mem, enq, pre_enq, deq, pre_deq, ppc, len, id, epos, off, cpc, cap, dpos, hlen, buf, claims>>
    BY <1>2 DEF RejectEnqueue, counters, pvars, cvars
  <2>2. ppc[p] = "idle" /\ ~Writing(p) /\ ~Writing(p)'
    BY <1>2, <2>1 DEF RejectEnqueue, Writing
  <2> QED BY <2>1, <2>2, ProducerOutside
<1>3. ASSUME NEW n \in Lens, BeginEnqueue(p, n) PROVE IInv'
  <2>1. /\ ppc[p] = "idle" /\ len' = [len EXCEPT ![p] = n] /\ id' = [id EXCEPT ![p] = calls + 1]
        /\ ppc' = [ppc EXCEPT ![p] = "readPre"]
        /\ UNCHANGED <<mem, enq, pre_enq, deq, pre_deq, epos, off, cpc, cap, dpos, hlen, buf, claims>>
    BY <1>3 DEF BeginEnqueue, counters, cvars
  <2>2. ~Writing(p) /\ ~Writing(p)' /\ ppc'[p] = "readPre"
    BY <1>1, <2>1 DEF Writing, TypeOK
  <2> QED BY <1>1, <2>1, <2>2, ProducerOutside DEF TypeOK
<1>4. CASE ReadPreEnq(p)
  <2>1. /\ ppc[p] = "readPre" /\ epos' = [epos EXCEPT ![p] = pre_enq]
        /\ ppc' = [ppc EXCEPT ![p] = "readDeq"]
        /\ UNCHANGED <<mem, enq, pre_enq, deq, pre_deq, len, id, off, cpc, cap, dpos, hlen, buf, claims>>
    BY <1>4 DEF ReadPreEnq, counters, cvars
  <2>2. ~Writing(p) /\ ~Writing(p)' /\ ppc'[p] = "readDeq" /\ epos'[p] <= pre_enq
    BY <1>1, <2>1 DEF Writing, TypeOK
  <2> QED BY <1>1, <2>1, <2>2, ProducerOutside DEF TypeOK
<1>5. CASE ReadDeq(p)
  <2>1. /\ ppc[p] = "readDeq"
        /\ ppc' = [ppc EXCEPT ![p] = IF Need(len[p]) > Room(p) THEN "idle" ELSE "cas"]
        /\ UNCHANGED <<mem, enq, pre_enq, deq, pre_deq, len, id, epos, off, cpc, cap, dpos, hlen, buf, claims>>
    BY <1>5 DEF ReadDeq, counters, cvars
  <2>2. ~Writing(p) /\ ~Writing(p)' /\ ppc'[p] = IF Need(len[p]) > Room(p) THEN "idle" ELSE "cas"
    BY <1>1, <2>1 DEF Writing, TypeOK
  <2>3. epos[p] <= pre_enq
    BY <2>1 DEF IInv, RoomKept
  <2>4. ppc'[p] = "cas" => epos[p] + Need(len[p]) - deq <= Size
    <3>1. len[p] \in Nat /\ epos[p] \in Nat /\ deq \in Nat /\ Size \in Nat
      BY <1>1, QueueAssumption DEF TypeOK
    <3>2. ppc'[p] = "cas" => ~(Need(len[p]) > Room(p))
      BY <2>2
    <3> QED BY <3>1, <3>2 DEF Room, Need
  <2> QED BY <1>1, <2>1, <2>2, <2>3, <2>4, ProducerOutside DEF TypeOK
<1>6. CASE CasPreEnq(p)
  <2>1. CASE pre_enq = epos[p]
    BY <1>6, <2>1, ClaimingKeeps
  <2>2. CASE pre_enq # epos[p]
    <3>1. /\ ppc[p] = "cas" /\ ppc' = [ppc EXCEPT ![p] = "readPre"]
          /\ UNCHANGED <<mem, enq, pre_enq, deq, pre_deq, len, id, epos, off, cpc, cap, dpos, hlen, buf, claims>>
      BY <1>6, <2>2 DEF CasPreEnq, cvars
    <3>2. ~Writing(p) /\ ~Writing(p)' /\ ppc'[p] = "readPre"
      BY <1>1, <3>1 DEF Writing, TypeOK
    <3> QED BY <1>1, <3>1, <3>2, ProducerOutside DEF TypeOK
  <2> QED BY <2>1, <2>2
<1>7. CASE WriteCell(p)
  BY <1>7, WritingKeeps
<1>8. CASE Publish(p)
  BY <1>8, PublishingKeeps
<1> QED BY <1>2, <1>3, <1>4, <1>5, <1>6, <1>7, <1>8 DEF EnqueueStep

-----------------------------------------------------------------------------
(* dequeue keeps the invariant *)

\* The header of the next message, once it is published, says its length.
LEMMA HeaderRead ==
  ASSUME IInv, pre_deq < enq
  PROVE  \E r \in claims : /\ r.pos = pre_deq /\ End(r) <= enq
                          /\ HeaderIn(mem[Slot(pre_deq)]) = {r.len}
<1>1. pre_deq \in Nat /\ enq \in Nat /\ pre_enq \in Nat /\ enq <= pre_enq
  BY DEF IInv, TypeOK, WindowOrder
<1>2. PICK r \in claims : r.pos = pre_deq
  BY <1>1 DEF IInv, Tiling, Boundary
<1>3. End(r) <= enq
  <2>1. CASE enq = pre_enq
    BY <2>1, ClaimInWindow
  <2>2. CASE enq # pre_enq
    <3>1. PICK s \in claims : s.pos = enq
      BY <2>2 DEF IInv, Tiling, Boundary
    <3>2. End(r) <= s.pos \/ End(s) <= r.pos
      BY <1>1, <1>2, <3>1 DEF IInv, Tiling
    <3>3. s.pos < End(s) /\ End(s) \in Nat
      BY ClaimInWindow
    <3> QED BY <1>1, <1>2, <3>1, <3>2, <3>3
  <2> QED BY <2>1, <2>2
<1>4. 0 \in 0 .. r.len /\ r.pos + 0 = r.pos
  BY ClaimInWindow
<1>5. mem[Slot(r.pos + 0)] = Cell(r.len, r.id, 0)
  BY <1>2, <1>4 DEF IInv, ContentKept
<1>6. mem[Slot(pre_deq)] = [k |-> 0, w |-> r.len]
  BY <1>2, <1>4, <1>5 DEF Cell
<1> QED BY <1>2, <1>3, <1>6 DEF HeaderIn

LEMMA TakingKeeps ==
  ASSUME IInv, TypeOK', NEW c \in Consumers, CasPreDeq(c), pre_deq = dpos[c]
  PROVE  IInv'
<1>1. TypeOK
  BY DEF IInv
<1>2. /\ cpc[c] = "cas" /\ pre_deq' = pre_deq + Need(hlen[c])
      /\ buf' = [buf EXCEPT ![c] = << >>]
      /\ cpc' = [cpc EXCEPT ![c] = "copy"] \/ cpc' = [cpc EXCEPT ![c] = "drop"]
      /\ UNCHANGED <<mem, enq, pre_enq, deq, ppc, len, id, epos, off, cap, dpos, hlen, claims>>
  BY DEF CasPreDeq, pvars
<1>3. PICK r \in claims : r.pos = dpos[c] /\ r.len = hlen[c] /\ End(r) <= enq
  BY <1>2 DEF IInv, HeaderFresh
<1>4. /\ End(r) = pre_deq' /\ pre_deq < pre_deq' /\ pre_deq' <= enq
      /\ r.pos = pre_deq /\ pre_deq \in Nat /\ pre_deq' \in Nat
  BY <1>1, <1>2, <1>3, ClaimInWindow DEF End, TypeOK
<1>5. WindowOrder'
  BY <1>1, <1>2, <1>4 DEF IInv, WindowOrder, TypeOK
<1>6. Tiling'
  <2>1. Boundary(End(r))
    BY DEF IInv, Tiling
  <2>2. \A x : Boundary(x)' = Boundary(x)
    BY <1>2 DEF Boundary
  <2>3. Boundary(pre_deq)'
    BY <1>2, <1>4, <2>1 DEF Boundary
  <2>4. Boundary(deq)' /\ Boundary(enq)'
    BY <1>2 DEF IInv, Tiling, Boundary
  <2>5. \A s \in claims : Boundary(End(s))'
    BY <2>2 DEF IInv, Tiling
  <2> QED BY <1>2, <2>3, <2>4, <2>5 DEF IInv, Tiling, End
<1>7. RoomKept' /\ WritersOwn' /\ ContentKept'
  BY <1>2 DEF IInv, RoomKept, WritersOwn, WriterOwns, ContentKept, ClaimOf, Writing
<1>8. /\ ~Reading(c) /\ Reading(c)' /\ dpos'[c] = pre_deq
      /\ \A d \in Consumers \ {c} : Reading(d)' = Reading(d) /\ cpc'[d] = cpc[d] /\ buf'[d] = buf[d]
  BY <1>1, <1>2, <1>3, <1>4 DEF Reading, TypeOK
<1>9. ASSUME NEW d \in Consumers, Reading(d) PROVE d # c /\ dpos[d] < pre_deq
  <2>1. PICK s \in claims : s.pos = dpos[d] /\ End(s) <= pre_deq
    BY <1>9 DEF IInv, ReadersOwn, ReaderOwns
  <2>2. s.pos \in Nat /\ End(s) \in Nat /\ s.pos < End(s)
    BY ClaimInWindow
  <2> QED BY <1>4, <1>8, <1>9, <2>1, <2>2
<1>10. PositionOnceNext'
  <2>1. ASSUME NEW d \in Consumers
        PROVE  /\ cpc'[d] \in {"readEnq", "readHdr", "cas"} => dpos'[d] <= pre_deq'
               /\ cpc'[d] \in {"readHdr", "cas"} => dpos'[d] < enq'
    <3>1. CASE d = c
      BY <1>8, <3>1 DEF Reading
    <3>2. CASE d # c
      <4>1. cpc'[d] = cpc[d] /\ dpos'[d] = dpos[d] /\ dpos[d] \in Nat
        BY <1>1, <1>2, <1>8, <3>2 DEF TypeOK
      <4>2. cpc[d] \in {"readEnq", "readHdr", "cas"} => dpos[d] <= pre_deq
        BY DEF IInv, PositionOnceNext
      <4>3. cpc[d] \in {"readHdr", "cas"} => dpos[d] < enq
        BY DEF IInv, PositionOnceNext
      <4> QED BY <1>2, <1>4, <4>1, <4>2, <4>3
    <3> QED BY <3>1, <3>2
  <2> QED BY <2>1 DEF PositionOnceNext
<1>11. ReadersOwn'
  <2>1. ReaderOwns(c)'
    <3>1. buf'[c] = << >> /\ Len(buf'[c]) = 0
      BY <1>1, <1>2 DEF TypeOK
    <3>2. \A d \in Consumers : Reading(d)' /\ dpos'[d] = dpos'[c] => d = c
      BY <1>1, <1>2, <1>3, <1>4, <1>8, <1>9 DEF TypeOK
    <3>3. \E s \in claims : s.pos = dpos[c] /\ s.len = hlen[c] /\ End(s) <= pre_deq'
      BY <1>3, <1>4
    <3>4. hlen[c] \in Nat
      BY <1>1 DEF TypeOK
    <3> QED BY <1>2, <3>1, <3>2, <3>3, <3>4 DEF ReaderOwns, End
  <2>2. ASSUME NEW d \in Consumers \ {c}, Reading(d) PROVE ReaderOwns(d)'
    <3>1. ReaderOwns(d)
      BY <2>2 DEF IInv, ReadersOwn
    <3>2. \E s \in claims : s.pos = dpos[d] /\ s.len = hlen[d] /\ End(s) <= pre_deq'
      <4>1. PICK s \in claims : s.pos = dpos[d] /\ s.len = hlen[d] /\ End(s) <= pre_deq
        BY <3>1 DEF ReaderOwns
      <4>2. End(s) \in Nat
        BY ClaimInWindow
      <4> QED BY <1>4, <4>1, <4>2
    <3>3. \A e \in Consumers : Reading(e)' /\ dpos'[e] = dpos'[d] => e = d
      <4>1. dpos[d] # dpos[c]
        BY <1>1, <1>3, <1>4, <1>9, <2>2 DEF TypeOK
      <4> QED BY <1>2, <1>8, <3>1, <4>1 DEF ReaderOwns
    <3> QED BY <1>2, <1>8, <3>1, <3>2, <3>3 DEF ReaderOwns, End
  <2> QED BY <1>8, <2>1, <2>2 DEF ReadersOwn
<1>12. HeaderFresh'
  <2>1. ASSUME NEW d \in Consumers, cpc'[d] = "cas", pre_deq' = dpos'[d] PROVE FALSE
    <3>1. d # c
      BY <1>8, <2>1 DEF Reading
    <3>2. cpc[d] = "cas" /\ dpos[d] <= pre_deq /\ dpos[d] \in Nat
      BY <1>1, <1>8, <2>1, <3>1 DEF IInv, PositionOnceNext, TypeOK
    <3> QED BY <1>2, <1>4, <2>1, <3>2
  <2> QED BY <2>1 DEF HeaderFresh
<1>13. IntactDelivery'
  <2>1. \E s \in claims' :
          /\ s.pos = dpos'[c] /\ s.len = hlen'[c]
          /\ \A k \in 1 .. Len(buf'[c]) : buf'[c][k] = Cell(s.len, s.id, k)
    <3>1. buf'[c] = << >> /\ Len(buf'[c]) = 0
      BY <1>1, <1>2 DEF TypeOK
    <3> QED BY <1>2, <1>3, <3>1
  <2>2. ASSUME NEW d \in Consumers \ {c}, Reading(d)
        PROVE  \E s \in claims' :
                 /\ s.pos = dpos'[d] /\ s.len = hlen'[d]
                 /\ \A k \in 1 .. Len(buf'[d]) : buf'[d][k] = Cell(s.len, s.id, k)
    BY <1>2, <1>8, <2>2 DEF IInv, IntactDelivery
  <2> QED BY <1>8, <2>1, <2>2 DEF IntactDelivery
<1>14. NoOrphan'
  <2>1. ASSUME NEW s \in claims, s.pos < pre_deq'
        PROVE  \E d \in Consumers :
                 /\ Reading(d)' /\ dpos'[d] = s.pos
                 /\ \A e \in Consumers \ {d} : Reading(e)' => dpos'[e] # s.pos
    <3>1. CASE s = r
      <4>1. \A e \in Consumers \ {c} : Reading(e)' => dpos'[e] # s.pos
        BY <1>1, <1>2, <1>4, <1>8, <1>9, <3>1 DEF TypeOK
      <4> QED BY <1>4, <1>8, <3>1, <4>1
    <3>2. CASE s # r
      <4>1. s.pos < pre_deq
        <5>1. End(s) <= r.pos \/ End(r) <= s.pos
          BY <3>2 DEF IInv, Tiling
        <5>2. s.pos \in Nat /\ End(s) \in Nat /\ s.pos < End(s)
          BY ClaimInWindow
        <5> QED BY <1>4, <2>1, <5>1, <5>2
      <4>2. PICK d \in Consumers :
              /\ Reading(d) /\ dpos[d] = s.pos
              /\ \A e \in Consumers \ {d} : Reading(e) => dpos[e] # s.pos
        BY <4>1 DEF IInv, NoOrphan
      <4>3. dpos'[c] # s.pos /\ s.pos \in Nat
        BY <1>4, <1>8, <4>1, ClaimInWindow
      <4> QED BY <1>2, <1>8, <4>2, <4>3
    <3> QED BY <3>1, <3>2
  <2> QED BY <1>2, <2>1 DEF IInv, NoOrphan, Writing, ClaimOf
<1> QED BY <1>5, <1>6, <1>7, <1>10, <1>11, <1>12, <1>13, <1>14 DEF IInv

LEMMA CopyingKeeps ==
  ASSUME IInv, TypeOK', NEW c \in Consumers, CopyCell(c)
  PROVE  IInv'
<1> DEFINE n == Len(buf[c])
           x == mem[Slot(dpos[c] + 1 + n)]
<1>1. TypeOK
  BY DEF IInv
<1>2. /\ cpc[c] = "copy" /\ n < hlen[c] /\ buf' = [buf EXCEPT ![c] = Append(buf[c], x)]
      /\ UNCHANGED <<mem, enq, pre_enq, deq, pre_deq, ppc, len, id, epos, off, cpc, cap, dpos, hlen, claims>>
  BY DEF CopyCell, counters, pvars
<1>3. /\ buf[c] \in Seq(Cells) /\ n \in Nat /\ hlen[c] \in Nat /\ dpos[c] \in Nat
      /\ \A d \in Consumers \ {c} : buf'[d] = buf[d]
      /\ buf'[c] = Append(buf[c], x)
  BY <1>1, <1>2 DEF TypeOK
<1>4. Reading(c) /\ \A d \in Consumers : Reading(d)' = Reading(d)
  BY <1>2 DEF Reading
<1>5. PICK r \in claims :
        /\ r.pos = dpos[c] /\ r.len = hlen[c]
        /\ \A k \in 1 .. n : buf[c][k] = Cell(r.len, r.id, k)
  BY <1>4 DEF IInv, IntactDelivery
<1>6. x = Cell(r.len, r.id, n + 1)
  <2>1. PICK s \in claims : s.pos = dpos[c] /\ End(s) <= pre_deq
    BY <1>4 DEF IInv, ReadersOwn, ReaderOwns
  <2>2. s.pos < End(s) /\ s.pos \in Nat /\ End(s) \in Nat
    BY ClaimInWindow
  <2>3. r.pos < enq
    BY <1>1, <1>5, <2>1, <2>2 DEF IInv, WindowOrder, TypeOK
  <2>4. n + 1 \in 0 .. r.len /\ dpos[c] + 1 + n = r.pos + (n + 1)
    <3>1. n < r.len /\ r.pos = dpos[c] /\ r.len \in Nat
      BY <1>2, <1>3, <1>5
    <3>2. n \in Nat /\ dpos[c] \in Nat
      BY <1>3
    <3> HIDE DEF n
    <3> QED BY <3>1, <3>2
  <2> QED BY <2>3, <2>4 DEF IInv, ContentKept
<1>7. /\ Len(buf'[c]) = n + 1
      /\ \A k \in 1 .. n + 1 : buf'[c][k] = Cell(r.len, r.id, k)
  <2>1. x \in Cells
    <3>1. dpos[c] + 1 + n \in Nat
      BY <1>3
    <3>2. Slot(dpos[c] + 1 + n) \in 0 .. Size - 1
      BY <3>1, SlotInRing
    <3> QED BY <1>1, <3>2 DEF TypeOK
  <2>2. Len(buf'[c]) = n + 1
    BY <1>3, <2>1
  <2>3. ASSUME NEW k \in 1 .. n PROVE buf'[c][k] = buf[c][k]
    BY <1>3, <2>1
  <2>4. buf'[c][n + 1] = x
    BY <1>3, <2>1
  <2>5. \A k \in 1 .. n + 1 : k \in 1 .. n \/ k = n + 1
    BY <1>3
  <2> QED BY <1>5, <1>6, <2>2, <2>3, <2>4, <2>5
<1>8. WindowOrder' /\ Tiling' /\ RoomKept' /\ WritersOwn' /\ ContentKept' /\ PositionOnceNext'
  <2>1. WindowOrder' /\ Tiling'
    BY <1>2 DEF IInv, WindowOrder, Tiling, Boundary, End
  <2>2. RoomKept' /\ WritersOwn' /\ ContentKept' /\ PositionOnceNext'
    BY <1>2 DEF IInv, RoomKept, WritersOwn, WriterOwns, ContentKept, PositionOnceNext, ClaimOf, Writing
  <2> QED BY <2>1, <2>2
<1>9. ReadersOwn'
  <2>1. ASSUME NEW d \in Consumers, Reading(d) PROVE ReaderOwns(d)'
    <3>1. ReaderOwns(d)
      BY <2>1 DEF IInv, ReadersOwn
    <3>2. Len(buf'[d]) <= hlen[d]
      <4>1. CASE d = c
        BY <1>2, <1>3, <1>7, <4>1
      <4>2. CASE d # c
        BY <1>3, <3>1, <4>2 DEF ReaderOwns
      <4> QED BY <4>1, <4>2
    <3> QED BY <1>2, <1>4, <3>1, <3>2 DEF ReaderOwns, End
  <2> QED BY <1>4, <2>1 DEF ReadersOwn
<1>10. HeaderFresh' /\ NoOrphan'
  BY <1>2, <1>4 DEF IInv, HeaderFresh, NoOrphan, End, Writing, ClaimOf
<1>11. IntactDelivery'
  <2>1. ASSUME NEW d \in Consumers, Reading(d)
        PROVE  \E s \in claims :
                 /\ s.pos = dpos[d] /\ s.len = hlen[d]
                 /\ \A k \in 1 .. Len(buf'[d]) : buf'[d][k] = Cell(s.len, s.id, k)
    <3>1. CASE d = c
      <4>1. \A k \in 1 .. Len(buf'[c]) : buf'[c][k] = Cell(r.len, r.id, k)
        BY <1>7
      <4>2. r.pos = dpos[c] /\ r.len = hlen[c]
        BY <1>5
      <4> QED BY <3>1, <4>1, <4>2
    <3>2. CASE d # c
      <4>1. PICK s \in claims :
              /\ s.pos = dpos[d] /\ s.len = hlen[d]
              /\ \A k \in 1 .. Len(buf[d]) : buf[d][k] = Cell(s.len, s.id, k)
        BY <2>1 DEF IInv, IntactDelivery
      <4>2. buf'[d] = buf[d]
        BY <1>3, <3>2
      <4> QED BY <4>1, <4>2
    <3> QED BY <3>1, <3>2
  <2> QED BY <1>2, <1>4, <2>1 DEF IntactDelivery
<1> QED BY <1>8, <1>9, <1>10, <1>11 DEF IInv

LEMMA ReleasingKeeps ==
  ASSUME IInv, TypeOK', NEW c \in Consumers, Release(c)
  PROVE  IInv'
<1>1. TypeOK
  BY DEF IInv
<1>2. /\ Reading(c) /\ deq = dpos[c] /\ deq' = dpos[c] + Need(hlen[c])
      /\ cpc' = [cpc EXCEPT ![c] = "idle"]
      /\ claims' = {s \in claims : s.pos # dpos[c]}
      /\ UNCHANGED <<mem, enq, pre_enq, pre_deq, ppc, len, id, epos, off, cap, dpos, hlen, buf>>
  BY DEF Release, Copied, Reading, pvars
<1>3. PICK r \in claims : r.pos = dpos[c] /\ r.len = hlen[c] /\ End(r) <= pre_deq
  BY <1>2 DEF IInv, ReadersOwn, ReaderOwns
<1>4. /\ r.pos = deq /\ End(r) = deq' /\ deq < deq' /\ deq' <= pre_deq
      /\ deq \in Nat /\ deq' \in Nat /\ pre_deq \in Nat
  BY <1>1, <1>2, <1>3, ClaimInWindow DEF End, TypeOK
<1>5. WindowOrder'
  BY <1>1, <1>2, <1>4, QueueAssumption DEF IInv, WindowOrder, TypeOK
<1>6. \A s \in claims' : s \in claims /\ s # r /\ deq' <= s.pos /\ s.pos \in Nat /\ s.pos < End(s) /\ End(s) \in Nat
  <2>1. SUFFICES ASSUME NEW s \in claims, s.pos # dpos[c] PROVE s # r /\ deq' <= s.pos
    BY <1>2, ClaimInWindow
  <2>2. End(s) <= r.pos \/ End(r) <= s.pos
    BY <1>3, <2>1 DEF IInv, Tiling
  <2>3. s.pos \in Nat /\ End(s) \in Nat /\ s.pos < End(s) /\ deq <= s.pos
    BY ClaimInWindow
  <2> QED BY <1>3, <1>4, <2>1, <2>2, <2>3
<1>7. Tiling'
  <2>1. ASSUME NEW x \in Nat, Boundary(x), deq' <= x PROVE Boundary(x)'
    BY <1>2, <1>4, <2>1 DEF Boundary
  <2>2. Boundary(deq)'
    <3>1. Boundary(End(r))
      BY DEF IInv, Tiling
    <3> QED BY <1>4, <2>1, <3>1 DEF Boundary
  <2>3. Boundary(pre_deq)'
    BY <1>2, <1>4, <2>1 DEF IInv, Tiling, Boundary
  <2>4. Boundary(enq)'
    <3>1. enq \in Nat /\ deq' <= enq /\ Boundary(enq)
      BY <1>1, <1>4 DEF IInv, WindowOrder, Tiling, TypeOK
    <3> QED BY <1>2, <2>1, <3>1 DEF Boundary
  <2>5. ASSUME NEW s \in claims' PROVE deq' <= s.pos /\ End(s) <= pre_enq /\ Boundary(End(s))'
    <3>1. s \in claims /\ deq' <= s.pos /\ End(s) \in Nat /\ deq' <= End(s)
      BY <1>4, <1>6
    <3>2. Boundary(End(s)) /\ End(s) <= pre_enq
      BY <3>1 DEF IInv, Tiling
    <3> QED BY <2>1, <3>1, <3>2
  <2>6. \A s, t \in claims' : s = t \/ End(s) <= t.pos \/ End(t) <= s.pos
    BY <1>6 DEF IInv, Tiling
  <2> QED BY <1>2, <2>2, <2>3, <2>4, <2>5, <2>6 DEF Tiling, End
<1>8. RoomKept'
  <2>1. ASSUME NEW p \in Producers, ppc[p] = "cas" PROVE epos[p] + Need(len[p]) - deq' <= Size
    <3>1. epos[p] \in Nat /\ len[p] \in Nat /\ Size \in Nat
      BY <1>1, QueueAssumption DEF TypeOK
    <3>2. epos[p] + Need(len[p]) - deq <= Size
      BY <2>1 DEF IInv, RoomKept
    <3> QED BY <1>4, <3>1, <3>2 DEF Need
  <2> QED BY <1>2, <2>1 DEF IInv, RoomKept
<1>9. WritersOwn'
  <2>1. ASSUME NEW p \in Producers, Writing(p) PROVE WriterOwns(p)'
    <3>1. WriterOwns(p)
      BY <2>1 DEF IInv, WritersOwn
    <3>2. ClaimOf(p).pos # dpos[c]
      BY <1>1, <1>2, <1>4, <3>1 DEF WriterOwns, ClaimOf, IInv, WindowOrder, TypeOK
    <3>3. ClaimOf(p) \in claims'
      BY <1>2, <3>1, <3>2 DEF WriterOwns
    <3> QED BY <1>2, <3>1, <3>3 DEF WriterOwns, ClaimOf, Writing
  <2> QED BY <1>2, <2>1 DEF WritersOwn, Writing
<1>10. ContentKept' /\ PositionOnceNext'
  BY <1>1, <1>2 DEF IInv, ContentKept, PositionOnceNext, TypeOK
<1>11. /\ ~Reading(c)'
       /\ \A d \in Consumers \ {c} : Reading(d)' = Reading(d) /\ cpc'[d] = cpc[d]
  BY <1>1, <1>2 DEF Reading, TypeOK
<1>12. \A d \in Consumers \ {c} : Reading(d) => dpos[d] # dpos[c]
  BY <1>2 DEF IInv, ReadersOwn, ReaderOwns
<1>13. ReadersOwn'
  <2>1. ASSUME NEW d \in Consumers \ {c}, Reading(d) PROVE ReaderOwns(d)'
    <3>1. ReaderOwns(d) /\ dpos[d] # dpos[c]
      BY <1>12, <2>1 DEF IInv, ReadersOwn
    <3>2. \E s \in claims' : s.pos = dpos[d] /\ s.len = hlen[d] /\ End(s) <= pre_deq
      BY <1>2, <3>1 DEF ReaderOwns
    <3> QED BY <1>2, <1>11, <3>1, <3>2 DEF ReaderOwns, End
  <2> QED BY <1>11, <2>1 DEF ReadersOwn
<1>14. HeaderFresh'
  <2>1. ASSUME NEW d \in Consumers, cpc'[d] = "cas", pre_deq = dpos[d]
        PROVE  \E s \in claims' : s.pos = dpos[d] /\ s.len = hlen[d] /\ End(s) <= enq
    <3>1. cpc[d] = "cas"
      BY <1>1, <1>2, <2>1 DEF TypeOK
    <3>2. PICK s \in claims : s.pos = dpos[d] /\ s.len = hlen[d] /\ End(s) <= enq
      BY <2>1, <3>1 DEF IInv, HeaderFresh
    <3>3. s.pos # dpos[c]
      BY <1>2, <1>4, <2>1, <3>2
    <3> QED BY <1>2, <3>2, <3>3
  <2> QED BY <1>2, <2>1 DEF HeaderFresh, End
<1>15. IntactDelivery'
  BY <1>2, <1>11, <1>12 DEF IInv, IntactDelivery
<1>16. NoOrphan'
  <2>1. \A s \in claims' : s \in claims /\ s.pos # dpos[c]
    BY <1>2
  <2>2. ASSUME NEW s \in claims', s.pos < pre_deq
        PROVE  \E d \in Consumers :
                 /\ Reading(d)' /\ dpos[d] = s.pos
                 /\ \A e \in Consumers \ {d} : Reading(e)' => dpos[e] # s.pos
    <3>1. PICK d \in Consumers :
            /\ Reading(d) /\ dpos[d] = s.pos
            /\ \A e \in Consumers \ {d} : Reading(e) => dpos[e] # s.pos
      BY <2>1, <2>2 DEF IInv, NoOrphan
    <3> QED BY <1>11, <2>1, <3>1
  <2> QED BY <1>2, <2>1, <2>2 DEF IInv, NoOrphan, Writing, ClaimOf
<1> QED BY <1>5, <1>7, <1>8, <1>9, <1>10, <1>13, <1>14, <1>15, <1>16 DEF IInv

LEMMA DequeueKeeps ==
  ASSUME IInv, TypeOK', NEW c \in Consumers,
         (\E n \in Caps : BeginDequeue(c, n)) \/ DequeueStep(c)
  PROVE  IInv'
<1>1. TypeOK
  BY DEF IInv
<1>2. ASSUME NEW n \in Caps, BeginDequeue(c, n) PROVE IInv'
  <2>1. /\ cpc[c] = "idle" /\ cpc' = [cpc EXCEPT ![c] = "readPre"]
        /\ UNCHANGED <<mem, enq, pre_enq, deq, pre_deq, ppc, len, id, epos, off, dpos, hlen, buf, claims>>
    BY <1>2 DEF BeginDequeue, counters, pvars
  <2>2. ~Reading(c) /\ ~Reading(c)' /\ cpc'[c] = "readPre"
    BY <1>1, <2>1 DEF Reading, TypeOK
  <2> QED BY <1>1, <2>1, <2>2, ConsumerOutside DEF TypeOK
<1>3. CASE ReadPreDeq(c)
  <2>1. /\ cpc[c] = "readPre" /\ cpc' = [cpc EXCEPT ![c] = "readEnq"]
        /\ dpos' = [dpos EXCEPT ![c] = pre_deq]
        /\ UNCHANGED <<mem, enq, pre_enq, deq, pre_deq, ppc, len, id, epos, off, hlen, buf, claims>>
    BY <1>3 DEF ReadPreDeq, counters, pvars
  <2>2. ~Reading(c) /\ ~Reading(c)' /\ cpc'[c] = "readEnq" /\ dpos'[c] <= pre_deq
    BY <1>1, <2>1 DEF Reading, TypeOK
  <2> QED BY <1>1, <2>1, <2>2, ConsumerOutside DEF TypeOK
<1>4. CASE ReadEnq(c)
  <2>1. /\ cpc[c] = "readEnq" /\ cpc' = [cpc EXCEPT ![c] = IF dpos[c] = enq THEN "idle" ELSE "readHdr"]
        /\ UNCHANGED <<mem, enq, pre_enq, deq, pre_deq, ppc, len, id, epos, off, dpos, hlen, buf, claims>>
    BY <1>4 DEF ReadEnq, counters, pvars
  <2>2. ~Reading(c) /\ ~Reading(c)' /\ cpc'[c] = IF dpos[c] = enq THEN "idle" ELSE "readHdr"
    BY <1>1, <2>1 DEF Reading, TypeOK
  <2>3. dpos[c] <= pre_deq /\ pre_deq <= enq
    BY <2>1 DEF IInv, PositionOnceNext, WindowOrder
  <2>4. cpc'[c] = "readHdr" => dpos[c] < enq
    <3>1. dpos[c] \in Nat /\ pre_deq \in Nat /\ enq \in Nat
      BY <1>1 DEF TypeOK
    <3>2. dpos[c] # enq => dpos[c] < enq
      BY <2>3, <3>1
    <3> QED BY <2>2, <3>2
  <2> QED BY <1>1, <2>1, <2>2, <2>3, <2>4, ConsumerOutside DEF TypeOK
<1>5. CASE ReadHdr(c)
  <2>1. /\ cpc[c] = "readHdr" /\ cpc' = [cpc EXCEPT ![c] = "cas"]
        /\ \E n \in HeaderIn(mem[Slot(dpos[c])]) : hlen' = [hlen EXCEPT ![c] = n]
        /\ UNCHANGED <<mem, enq, pre_enq, deq, pre_deq, ppc, len, id, epos, off, dpos, buf, claims>>
    BY <1>5 DEF ReadHdr, counters, pvars
  <2>2. PICK n \in HeaderIn(mem[Slot(dpos[c])]) : hlen' = [hlen EXCEPT ![c] = n]
    BY <2>1
  <2>3. ~Reading(c) /\ ~Reading(c)' /\ cpc'[c] = "cas" /\ hlen'[c] = n
    BY <1>1, <2>1, <2>2 DEF Reading, TypeOK
  <2>4. dpos[c] <= pre_deq /\ dpos[c] < enq
    BY <2>1 DEF IInv, PositionOnceNext
  <2>5. pre_deq = dpos[c] => \E r \in claims : r.pos = dpos[c] /\ r.len = n /\ End(r) <= enq
    BY <2>2, <2>4, HeaderRead
  <2>6. \A d \in Consumers \ {c} : cpc'[d] = cpc[d] /\ hlen'[d] = hlen[d]
    BY <1>1, <2>1, <2>2 DEF TypeOK
  <2> HIDE <1>5
  <2> QED BY <2>1, <2>3, <2>4, <2>5, <2>6, ConsumerOutside
<1>6. CASE CasPreDeq(c)
  <2>1. CASE pre_deq = dpos[c]
    BY <1>6, <2>1, TakingKeeps
  <2>2. CASE pre_deq # dpos[c]
    <3>1. /\ cpc[c] = "cas" /\ cpc' = [cpc EXCEPT ![c] = "readPre"]
          /\ UNCHANGED <<mem, enq, pre_enq, deq, pre_deq, ppc, len, id, epos, off, dpos, hlen, buf, claims>>
      BY <1>6, <2>2 DEF CasPreDeq, pvars
    <3>2. ~Reading(c) /\ ~Reading(c)' /\ cpc'[c] = "readPre"
      BY <1>1, <3>1 DEF Reading, TypeOK
    <3> QED BY <1>1, <3>1, <3>2, ConsumerOutside DEF TypeOK
  <2> QED BY <2>1, <2>2
<1>7. CASE CopyCell(c)
  BY <1>7, CopyingKeeps
<1>8. CASE Release(c)
  BY <1>8, ReleasingKeeps
<1> QED BY <1>2, <1>3, <1>4, <1>5, <1>6, <1>7, <1>8 DEF DequeueStep

-----------------------------------------------------------------------------
(* The theorems *)

LEMMA NextKeeps == IInv /\ [Next]_vars => IInv'
<1> SUFFICES ASSUME IInv, [Next]_vars PROVE IInv'
  OBVIOUS
<1>1. TypeOK /\ TypeOK'
  <2>1. TypeOK
    BY DEF IInv
  <2>2. CASE Next
    BY <2>1, <2>2, TypeEnqueue, TypeDequeue DEF Next
  <2>3. CASE UNCHANGED vars
    BY <2>1, <2>3 DEF vars, counters, pvars, cvars, TypeOK
  <2> QED BY <2>1, <2>2, <2>3
<1>2. CASE Next
  BY <1>1, <1>2, EnqueueKeeps, DequeueKeeps DEF Next
<1>3. CASE UNCHANGED vars
  <2>1. UNCHANGED <<mem, enq, pre_enq, deq, pre_deq, calls, ppc, len, id, epos, off, cpc, cap, dpos, hlen, buf, claims>>
    BY <1>3 DEF vars, counters, pvars, cvars
  <2>2. WindowOrder' /\ Tiling' /\ RoomKept' /\ WritersOwn' /\ ContentKept'
    BY <2>1 DEF IInv, WindowOrder, Tiling, RoomKept, WritersOwn, WriterOwns, ContentKept,
                Boundary, End, Writing, ClaimOf
  <2>3. PositionOnceNext' /\ ReadersOwn' /\ HeaderFresh' /\ IntactDelivery' /\ NoOrphan'
    BY <2>1 DEF IInv, PositionOnceNext, ReadersOwn, ReaderOwns, HeaderFresh, IntactDelivery,
                NoOrphan, End, Reading, Writing, ClaimOf
  <2> QED BY <1>1, <2>2, <2>3 DEF IInv
<1> QED BY <1>2, <1>3

\* The inductive invariant holds in every reachable state.
THEOREM Invariance == Spec => []IInv
BY InitIInv, NextKeeps, PTL DEF Spec

\* The counters keep their order and never span more than the ring.
THEOREM WindowOrdered == Spec => []WindowOrder
<1>1. IInv => WindowOrder
  BY DEF IInv
<1> QED BY <1>1, Invariance, PTL

\* The unlocked copies in and out of the ring never meet in a cell.
THEOREM CopiesApart == Spec => []NoOverlap
<1>1. ASSUME IInv PROVE NoOverlap
  <2>1. ASSUME NEW r \in claims, NEW s \in claims, r # s
        PROVE  {Slot(r.pos + k) : k \in 0 .. r.len} \cap {Slot(s.pos + k) : k \in 0 .. s.len} = {}
    BY <1>1, <2>1, ClaimsApart
  <2>2. ASSUME NEW p \in Producers, Writing(p)
        PROVE  /\ ClaimOf(p) \in claims /\ ClaimOf(p).pos = epos[p] /\ epos[p] >= enq
               /\ WriteSlots(p) = {Slot(ClaimOf(p).pos + k) : k \in 0 .. ClaimOf(p).len}
    BY <1>1, <2>2 DEF IInv, WritersOwn, WriterOwns, ClaimOf, WriteSlots, TypeOK
  <2>3. ASSUME NEW p \in Producers, Writing(p), NEW q \in Producers \ {p}, Writing(q)
        PROVE  WriteSlots(p) \cap WriteSlots(q) = {}
    <3>1. epos[p] # epos[q]
      BY <1>1, <2>3 DEF IInv, WritersOwn, WriterOwns
    <3> QED BY <2>1, <2>2, <2>3, <3>1
  <2>4. ASSUME NEW p \in Producers, Writing(p), NEW c \in Consumers, Reading(c)
        PROVE  WriteSlots(p) \cap ReadSlots(c) = {}
    <3>1. PICK r \in claims : r.pos = dpos[c] /\ r.len = hlen[c] /\ End(r) <= pre_deq
      BY <1>1, <2>4 DEF IInv, ReadersOwn, ReaderOwns
    <3>2. r.pos < End(r) /\ r.pos \in Nat /\ End(r) \in Nat
      BY <1>1, ClaimInWindow
    <3>3. pre_deq <= enq /\ enq \in Nat /\ pre_deq \in Nat /\ epos[p] \in Nat /\ enq <= epos[p]
      BY <1>1, <2>2, <2>4 DEF IInv, WindowOrder, TypeOK
    <3>4. r.pos # epos[p]
      BY <3>1, <3>2, <3>3
    <3>5. ReadSlots(c) = {Slot(r.pos + k) : k \in 0 .. r.len}
      BY <3>1 DEF ReadSlots
    <3> QED BY <2>1, <2>2, <2>4, <3>4, <3>5
  <2> QED BY <2>3, <2>4 DEF NoOverlap
<1> QED BY <1>1, Invariance, PTL

\* A compare-and-swap that can succeed carries the right message length.
THEOREM HeadersFresh == Spec => []HeaderFresh
<1>1. IInv => HeaderFresh
  BY DEF IInv
<1> QED BY <1>1, Invariance, PTL

\* dequeue returns one enqueued message, complete and untorn.
THEOREM DeliveredIntact == Spec => []IntactDelivery
<1>1. IInv => IntactDelivery
  BY DEF IInv
<1> QED BY <1>1, Invariance, PTL

\* Every message in the ring is published and untaken, or in one thread's hands.
THEOREM NoneOrphaned == Spec => []NoOrphan
<1>1. IInv => NoOrphan
  BY DEF IInv
<1> QED BY <1>1, Invariance, PTL

\* enqueue reports "full" only when the message really does not fit.
THEOREM FullMeansFull == Spec => FullIsReal
<1>1. ASSUME IInv, [Next]_vars,
             NEW p \in Producers, ppc[p] = "readDeq", ppc'[p] = "idle"
      PROVE  Need(len[p]) > Size - (pre_enq - deq)
  <2>1. TypeOK
    BY <1>1 DEF IInv
  <2>2. ReadDeq(p)
    <3>1. ASSUME NEW q \in Producers, (\E n \in Lens : RejectEnqueue(q, n) \/ BeginEnqueue(q, n)) \/ EnqueueStep(q)
          PROVE  ReadDeq(p)
      <4>1. ASSUME NEW n \in Lens, RejectEnqueue(q, n) \/ BeginEnqueue(q, n) PROVE FALSE
        BY <1>1, <2>1, <4>1 DEF RejectEnqueue, BeginEnqueue, pvars, TypeOK
      <4>2. CASE ReadPreEnq(q) \/ WriteCell(q) \/ Publish(q)
        BY <1>1, <2>1, <4>2 DEF ReadPreEnq, WriteCell, Publish, TypeOK
      <4>3. CASE CasPreEnq(q)
        <5>1. ppc[q] = "cas" /\ (ppc' = [ppc EXCEPT ![q] = "write"] \/ ppc' = [ppc EXCEPT ![q] = "readPre"])
          BY <4>3 DEF CasPreEnq
        <5> QED BY <1>1, <2>1, <5>1 DEF TypeOK
      <4>4. CASE ReadDeq(q)
        BY <1>1, <2>1, <4>4 DEF ReadDeq, TypeOK
      <4> QED BY <3>1, <4>1, <4>2, <4>3, <4>4 DEF EnqueueStep
    <3>2. ASSUME NEW c \in Consumers, (\E n \in Caps : BeginDequeue(c, n)) \/ DequeueStep(c)
          PROVE  ppc' = ppc
      BY <3>2 DEF DequeueStep, BeginDequeue, ReadPreDeq, ReadEnq, ReadHdr, CasPreDeq, CopyCell, Release, pvars
    <3> QED BY <1>1, <3>1, <3>2 DEF Next, vars, pvars
  <2>3. Need(len[p]) > Room(p)
    BY <1>1, <2>1, <2>2 DEF ReadDeq, TypeOK
  <2>4. epos[p] <= pre_enq
    BY <1>1 DEF IInv, RoomKept
  <2>5. /\ epos[p] \in Nat /\ len[p] \in Nat /\ Size \in Nat /\ deq \in Nat /\ pre_enq \in Nat
    BY <2>1, QueueAssumption DEF TypeOK
  <2> QED BY <2>3, <2>4, <2>5 DEF Room, Need
<1>2. IInv /\ [Next]_vars =>
        [\A p \in Producers :
           ppc[p] = "readDeq" /\ ppc'[p] = "idle" => Need(len[p]) > Size - (pre_enq - deq)]_vars
  BY <1>1
<1> QED BY <1>2, Invariance, PTL DEF Spec, FullIsReal

\* dequeue reports "empty" only when no published message is untaken.
THEOREM EmptyMeansEmpty == Spec => EmptyIsReal
<1>1. ASSUME IInv, [Next]_vars,
             NEW c \in Consumers, cpc[c] = "readEnq", cpc'[c] = "idle"
      PROVE  pre_deq = enq
  <2>1. TypeOK
    BY <1>1 DEF IInv
  <2>2. ReadEnq(c)
    <3>1. ASSUME NEW d \in Consumers, (\E n \in Caps : BeginDequeue(d, n)) \/ DequeueStep(d)
          PROVE  ReadEnq(c)
      <4>1. ASSUME NEW n \in Caps, BeginDequeue(d, n) PROVE FALSE
        BY <1>1, <2>1, <4>1 DEF BeginDequeue, TypeOK
      <4>2. CASE ReadPreDeq(d) \/ CopyCell(d)
        BY <1>1, <2>1, <4>2 DEF ReadPreDeq, CopyCell, TypeOK
      <4>3. CASE ReadHdr(d)
        <5>1. cpc[d] = "readHdr" /\ cpc' = [cpc EXCEPT ![d] = "cas"]
          BY <4>3 DEF ReadHdr
        <5> QED BY <1>1, <2>1, <5>1 DEF TypeOK
      <4>4. CASE CasPreDeq(d)
        <5>1. cpc[d] = "cas" /\ \E pc \in {"copy", "drop", "readPre"} : cpc' = [cpc EXCEPT ![d] = pc]
          BY <4>4 DEF CasPreDeq
        <5> QED BY <1>1, <2>1, <5>1 DEF TypeOK
      <4>5. CASE Release(d)
        <5>1. cpc[d] \in {"copy", "drop"} /\ cpc' = [cpc EXCEPT ![d] = "idle"]
          BY <4>5 DEF Release, Copied
        <5> QED BY <1>1, <2>1, <5>1 DEF TypeOK
      <4>6. CASE ReadEnq(d)
        BY <1>1, <2>1, <4>6 DEF ReadEnq, TypeOK
      <4> QED BY <3>1, <4>1, <4>2, <4>3, <4>4, <4>5, <4>6 DEF DequeueStep
    <3>2. ASSUME NEW p \in Producers, (\E n \in Lens : RejectEnqueue(p, n) \/ BeginEnqueue(p, n)) \/ EnqueueStep(p)
          PROVE  cpc' = cpc
      BY <3>2 DEF EnqueueStep, RejectEnqueue, BeginEnqueue, ReadPreEnq, ReadDeq, CasPreEnq, WriteCell, Publish, cvars
    <3> QED BY <1>1, <3>1, <3>2 DEF Next, vars, cvars
  <2>3. dpos[c] = enq
    BY <1>1, <2>1, <2>2 DEF ReadEnq, TypeOK
  <2>4. dpos[c] <= pre_deq /\ pre_deq <= enq /\ enq \in Nat /\ pre_deq \in Nat
    BY <1>1, <2>1 DEF IInv, PositionOnceNext, WindowOrder, TypeOK
  <2> QED BY <2>3, <2>4
<1>2. IInv /\ [Next]_vars =>
        [\A c \in Consumers :
           cpc[c] = "readEnq" /\ cpc'[c] = "idle" => pre_deq = enq]_vars
  BY <1>1
<1> QED BY <1>2, Invariance, PTL DEF Spec, EmptyIsReal

-----------------------------------------------------------------------------
(* Claims in the order of their positions *)

\* The positions of the first n members of s increase.
Increasing(n, s) ==
  /\ \A i \in 1 .. n : s[i].pos \in Nat
  /\ \A i, j \in 1 .. n : i < j => s[i].pos < s[j].pos

\* The members of s after the a-th, up to the b-th.
Part(s, a, b) == {s[i] : i \in a + 1 .. b}

\* Exactly the first a of n members of s lie before x.
Cut(n, s, x, a) ==
  /\ a \in 0 .. n
  /\ \A i \in 1 .. n : s[i].pos < x <=> i <= a

Messages(s, a, b) == [j \in 1 .. b - a |-> Message(s[a + j])]

\* A part of an increasing sequence has as many members as indices.
LEMMA PartCounted ==
  ASSUME NEW n \in Nat, NEW s, Increasing(n, s), NEW a \in 0 .. n, NEW b \in a .. n
  PROVE  Cardinality(Part(s, a, b)) = b - a
<1> DEFINE f == [i \in a + 1 .. b |-> s[i]]
<1>1. IsFiniteSet(a + 1 .. b) /\ Cardinality(a + 1 .. b) = b - a
  <2>1. a + 1 \in Int /\ b \in Int /\ a <= b
    OBVIOUS
  <2>2. /\ IsFiniteSet(a + 1 .. b)
        /\ Cardinality(a + 1 .. b) = IF a + 1 > b THEN 0 ELSE b - (a + 1) + 1
    BY <2>1, FS_Interval
  <2> HIDE DEF f
  <2> QED BY <2>1, <2>2
<1>2. \A i, j \in a + 1 .. b : s[i] = s[j] => i = j
  <2> SUFFICES ASSUME NEW i \in a + 1 .. b, NEW j \in a + 1 .. b, s[i] = s[j], i # j
               PROVE  FALSE
    OBVIOUS
  <2>1. i \in 1 .. n /\ j \in 1 .. n /\ (i < j \/ j < i)
    OBVIOUS
  <2>2. s[i].pos < s[j].pos \/ s[j].pos < s[i].pos
    BY <2>1 DEF Increasing
  <2>3. s[i].pos \in Nat
    BY <2>1 DEF Increasing
  <2> QED BY <2>2, <2>3
<1>3. f \in Bijection(a + 1 .. b, Part(s, a, b))
  BY <1>2 DEF Part, Bijection, Injection, Surjection, IsInjective
<1>4. ExistsBijection(a + 1 .. b, Part(s, a, b))
  BY <1>3 DEF ExistsBijection
<1> QED BY <1>1, <1>4, FS_Bijection

\* The messages of a part, in the order of their positions, are those of the
\* members in the order of their indices.
LEMMA PartInOrder ==
  ASSUME NEW n \in Nat, NEW s, Increasing(n, s), NEW a \in 0 .. n, NEW b \in a .. n
  PROVE  InOrder(Part(s, a, b)) = Messages(s, a, b)
<1> DEFINE P == Part(s, a, b)
           Rank(r) == Cardinality({t \in P : t.pos < r.pos})
<1>1. Cardinality(P) = b - a
  BY PartCounted
<1>2. ASSUME NEW j \in 1 .. b - a
      PROVE  Rank(s[a + j]) = j - 1
  <2>1. {t \in P : t.pos < s[a + j].pos} = Part(s, a, (a + j) - 1)
    <3>1. a + j \in 1 .. n
      OBVIOUS
    <3>2. ASSUME NEW i \in a + 1 .. b
          PROVE  s[i].pos < s[a + j].pos <=> i <= (a + j) - 1
      <4>1. i \in 1 .. n /\ (i < a + j \/ i = a + j \/ a + j < i)
        OBVIOUS
      <4>2. /\ s[i].pos \in Nat /\ s[a + j].pos \in Nat
            /\ i < a + j => s[i].pos < s[a + j].pos
            /\ a + j < i => s[a + j].pos < s[i].pos
        BY <3>1, <4>1 DEF Increasing
      <4> QED BY <4>1, <4>2
    <3>3. \A i : i \in a + 1 .. (a + j) - 1 <=> i \in a + 1 .. b /\ i <= (a + j) - 1
      OBVIOUS
    <3> QED BY <3>2, <3>3 DEF Part
  <2>2. (a + j) - 1 \in a .. n /\ ((a + j) - 1) - a = j - 1
    OBVIOUS
  <2>3. Cardinality(Part(s, a, (a + j) - 1)) = ((a + j) - 1) - a
    BY <2>2, PartCounted
  <2> QED BY <2>1, <2>2, <2>3
<1>3. ASSUME NEW j \in 1 .. b - a
      PROVE  Nth(P, j - 1) = s[a + j]
  <2> HIDE DEF Rank
  <2>1. s[a + j] \in P
    <3>1. a + j \in a + 1 .. b
      OBVIOUS
    <3> QED BY <3>1 DEF Part
  <2>2. ASSUME NEW r \in P, Rank(r) = j - 1
        PROVE  r = s[a + j]
    <3>1. PICK i \in a + 1 .. b : r = s[i]
      BY DEF Part
    <3>2. i - a \in 1 .. b - a /\ a + (i - a) = i
      OBVIOUS
    <3>3. Rank(s[i]) = (i - a) - 1
      BY <1>2, <3>2
    <3> QED BY <2>2, <3>1, <3>3
  <2>3. Nth(P, j - 1) = CHOOSE r \in P : Rank(r) = j - 1
    BY DEF Nth, Rank
  <2> HIDE DEF P
  <2> QED BY <1>2, <2>1, <2>2, <2>3
<1> QED BY <1>1, <1>3 DEF InOrder, Messages

\* The claims of C before x, from x to y, and from y on.
Before(C, x) == {r \in C : r.pos < x}
Between(C, x, y) == {r \in C : r.pos >= x /\ r.pos < y}
From(C, y) == {r \in C : r.pos >= y}

\* Two cuts divide the claims into the messages of the three stages.
LEMMA StagesInOrder ==
  ASSUME NEW n \in Nat, NEW s, Increasing(n, s),
         NEW x \in Nat, NEW y \in Nat, NEW a \in 0 .. n, NEW b \in a .. n,
         Cut(n, s, x, a), Cut(n, s, y, b), NEW C, C = Part(s, 0, n)
  PROVE  /\ InOrder(Before(C, x)) = Messages(s, 0, a)
         /\ InOrder(Between(C, x, y)) = Messages(s, a, b)
         /\ InOrder(From(C, y)) = Messages(s, b, n)
<1>1. \A i \in 1 .. n : s[i].pos \in Nat
  BY DEF Increasing
<1>2. Before(C, x) = Part(s, 0, a)
  BY <1>1 DEF Part, Cut, Before, Between, From
<1>3. Between(C, x, y) = Part(s, a, b)
  BY <1>1 DEF Part, Cut, Before, Between, From
<1>4. From(C, y) = Part(s, b, n)
  BY <1>1 DEF Part, Cut, Before, Between, From
<1>5. InOrder(Part(s, 0, a)) = Messages(s, 0, a)
  BY PartInOrder
<1>6. InOrder(Part(s, a, b)) = Messages(s, a, b)
  BY PartInOrder
<1>7. InOrder(Part(s, b, n)) = Messages(s, b, n)
  BY PartInOrder
<1> QED BY <1>2, <1>3, <1>4, <1>5, <1>6, <1>7

-----------------------------------------------------------------------------
(* Sequences of messages *)

\* Claims s, the first n of them.
Claimed(n, s) == \A i \in 1 .. n : s[i] \in Claims

Carried == [len : Nat, id : Nat]

LEMMA MessagesTyped ==
  ASSUME NEW n \in Nat, NEW s, Claimed(n, s), NEW a \in 0 .. n, NEW b \in a .. n
  PROVE  /\ Messages(s, a, b) \in Seq(Carried)
         /\ Len(Messages(s, a, b)) = b - a
         /\ \A j \in 1 .. b - a : Messages(s, a, b)[j] = Message(s[a + j])
<1>1. \A j \in 1 .. b - a : Message(s[a + j]) \in Carried
  BY DEF Claimed, Message, Claims, Carried
<1> QED BY <1>1 DEF Messages

\* The three stages one behind the other.
LEMMA MessagesJoin ==
  ASSUME NEW n \in Nat, NEW s, Claimed(n, s), NEW a \in 0 .. n, NEW b \in a .. n
  PROVE  Messages(s, 0, a) \o Messages(s, a, b) \o Messages(s, b, n) = Messages(s, 0, n)
<1> DEFINE t == Messages(s, 0, a)
           r == Messages(s, a, b)
           p == Messages(s, b, n)
           all == Messages(s, 0, n)
<1>1. t \in Seq(Carried) /\ Len(t) = a /\ \A j \in 1 .. a : t[j] = Message(s[j])
  <2>1. /\ t \in Seq(Carried) /\ Len(t) = a - 0
        /\ \A j \in 1 .. a - 0 : t[j] = Message(s[0 + j])
    BY 0 \in 0 .. n, a \in 0 .. n, MessagesTyped
  <2> HIDE DEF t
  <2> QED BY <2>1
<1>2. r \in Seq(Carried) /\ Len(r) = b - a /\ \A j \in 1 .. b - a : r[j] = Message(s[a + j])
  BY MessagesTyped
<1>3. p \in Seq(Carried) /\ Len(p) = n - b /\ \A j \in 1 .. n - b : p[j] = Message(s[b + j])
  BY b \in 0 .. n, n \in b .. n, MessagesTyped
<1>4. all \in Seq(Carried) /\ Len(all) = n /\ \A j \in 1 .. n : all[j] = Message(s[j])
  <2>1. /\ all \in Seq(Carried) /\ Len(all) = n - 0
        /\ \A j \in 1 .. n - 0 : all[j] = Message(s[0 + j])
    BY 0 \in 0 .. n, n \in 0 .. n, MessagesTyped
  <2> HIDE DEF all
  <2> QED BY <2>1
<1> HIDE DEF t, r, p, all
<1>5. /\ t \o r \in Seq(Carried) /\ Len(t \o r) = b
      /\ \A j \in 1 .. b : (t \o r)[j] = Message(s[j])
  <2>1. /\ t \o r \in Seq(Carried) /\ Len(t \o r) = Len(t) + Len(r)
        /\ \A j \in 1 .. Len(t) + Len(r) :
             (t \o r)[j] = IF j <= Len(t) THEN t[j] ELSE r[j - Len(t)]
    BY <1>1, <1>2, ConcatProperties
  <2>3. Len(t) = a /\ Len(t) + Len(r) = b
    BY <1>1, <1>2
  <2>2. ASSUME NEW j \in 1 .. b PROVE (t \o r)[j] = Message(s[j])
    <3>1. CASE j <= a
      BY <1>1, <2>1, <2>3, <3>1
    <3>2. CASE j > a
      <4>1. j - a \in 1 .. b - a /\ a + (j - a) = j
        BY <3>2
      <4>2. (t \o r)[j] = r[j - a]
        BY <2>1, <2>3, <3>2
      <4>3. r[j - a] = Message(s[a + (j - a)])
        BY <1>2, <4>1
      <4> QED BY <4>1, <4>2, <4>3, Zenon
    <3>3. j <= a \/ j > a
      OBVIOUS
    <3> QED BY <3>1, <3>2, <3>3, Zenon
  <2> QED BY <2>1, <2>2, <2>3
<1>6. /\ (t \o r) \o p \in Seq(Carried) /\ Len((t \o r) \o p) = n
      /\ \A j \in 1 .. n : ((t \o r) \o p)[j] = Message(s[j])
  <2> DEFINE tr == t \o r
  <2>4. /\ tr \in Seq(Carried) /\ Len(tr) = b
        /\ \A j \in 1 .. b : tr[j] = Message(s[j])
    BY <1>5
  <2> HIDE DEF tr
  <2>1. /\ tr \o p \in Seq(Carried) /\ Len(tr \o p) = Len(tr) + Len(p)
        /\ \A j \in 1 .. Len(tr) + Len(p) :
             (tr \o p)[j] = IF j <= Len(tr) THEN tr[j] ELSE p[j - Len(tr)]
    BY <1>3, <2>4, ConcatProperties
  <2>3. Len(tr) = b /\ Len(tr) + Len(p) = n
    BY <1>3, <2>4
  <2>2. ASSUME NEW j \in 1 .. n PROVE (tr \o p)[j] = Message(s[j])
    <3>1. CASE j <= b
      BY <2>1, <2>3, <2>4, <3>1
    <3>2. CASE j > b
      <4>1. j - b \in 1 .. n - b /\ b + (j - b) = j
        BY <3>2
      <4>2. (tr \o p)[j] = p[j - b]
        BY <2>1, <2>3, <3>2
      <4>3. p[j - b] = Message(s[b + (j - b)])
        BY <1>3, <4>1
      <4> QED BY <4>1, <4>2, <4>3, Zenon
    <3>3. j <= b \/ j > b
      OBVIOUS
    <3> QED BY <3>1, <3>2, <3>3, Zenon
  <2> QED BY <2>1, <2>2, <2>3 DEF tr
<1> DEFINE joined == (t \o r) \o p
<1> HIDE DEF joined
<1>7. joined = all
  BY <1>4, <1>6, SeqEqual DEF joined
<1> QED BY <1>7 DEF joined, t, r, p, all

\* One more message behind the others, and one less before them.
LEMMA MessagesAppend ==
  ASSUME NEW n \in Nat, NEW s, Claimed(n, s), NEW a \in 0 .. n, NEW b \in a .. n, b < n
  PROVE  Messages(s, a, b + 1) = Append(Messages(s, a, b), Message(s[b + 1]))
<1> DEFINE t == Messages(s, a, b)
           u == Messages(s, a, b + 1)
           m == Message(s[b + 1])
<1>1. t \in Seq(Carried) /\ Len(t) = b - a /\ \A j \in 1 .. b - a : t[j] = Message(s[a + j])
  BY MessagesTyped
<1>2. /\ u \in Seq(Carried) /\ Len(u) = (b + 1) - a
      /\ \A j \in 1 .. (b + 1) - a : u[j] = Message(s[a + j])
  <2>1. b + 1 \in a .. n
    OBVIOUS
  <2> QED BY <2>1, MessagesTyped
<1>3. m \in Carried
  BY DEF Claimed, Message, Claims, Carried
<1>4. u[(b - a) + 1] = m
  <2>1. (b - a) + 1 \in 1 .. (b + 1) - a /\ a + ((b - a) + 1) = b + 1
    OBVIOUS
  <2> HIDE DEF u
  <2> QED BY <1>2, <2>1
<1> HIDE DEF t, u, m
<1>5. /\ Append(t, m) \in Seq(Carried) /\ Len(Append(t, m)) = (b - a) + 1
      /\ \A j \in 1 .. b - a : Append(t, m)[j] = t[j]
      /\ Append(t, m)[(b - a) + 1] = m
  <2>1. /\ Append(t, m) \in Seq(Carried) /\ Len(Append(t, m)) = Len(t) + 1
        /\ \A j \in 1 .. Len(t) : Append(t, m)[j] = t[j]
        /\ Append(t, m)[Len(t) + 1] = m
    BY <1>1, <1>3, AppendProperties
  <2> QED BY <1>1, <2>1
<1>6. \A j \in 1 .. (b - a) + 1 : u[j] = Append(t, m)[j]
  BY <1>1, <1>2, <1>4, <1>5
<1>7. u = Append(t, m)
  BY <1>2, <1>5, <1>6, SeqEqual
<1> QED BY <1>7 DEF t, u, m

LEMMA MessagesTail ==
  ASSUME NEW n \in Nat, NEW s, Claimed(n, s), NEW a \in 0 .. n, NEW b \in a .. n, a < b
  PROVE  /\ Messages(s, a, b) # << >>
         /\ Head(Messages(s, a, b)) = Message(s[a + 1])
         /\ Tail(Messages(s, a, b)) = Messages(s, a + 1, b)
<1> DEFINE t == Messages(s, a, b)
           u == Messages(s, a + 1, b)
<1>1. t \in Seq(Carried) /\ Len(t) = b - a /\ \A j \in 1 .. b - a : t[j] = Message(s[a + j])
  BY MessagesTyped
<1>2. /\ u \in Seq(Carried) /\ Len(u) = b - (a + 1)
      /\ \A j \in 1 .. b - (a + 1) : u[j] = Message(s[(a + 1) + j])
  <2>1. a + 1 \in 0 .. n /\ b \in a + 1 .. n
    OBVIOUS
  <2> QED BY <2>1, MessagesTyped
<1> HIDE DEF t, u
<1>3. t # << >> /\ Head(t) = Message(s[a + 1])
  BY <1>1
<1>4. /\ Tail(t) \in Seq(Carried) /\ Len(Tail(t)) = b - (a + 1)
      /\ \A j \in 1 .. b - (a + 1) : Tail(t)[j] = t[j + 1]
  BY <1>1, <1>3, HeadTailProperties
<1>5. ASSUME NEW j \in 1 .. b - (a + 1) PROVE Tail(t)[j] = u[j]
  <2>1. j + 1 \in 1 .. b - a /\ a + (j + 1) = (a + 1) + j
    OBVIOUS
  <2> QED BY <1>1, <1>2, <1>4, <2>1
<1>6. Tail(t) = u
  BY <1>2, <1>4, <1>5, SeqEqual
<1> QED BY <1>3, <1>6 DEF t, u

-----------------------------------------------------------------------------
(* The claims fill the window in this order *)

\* s lists the n claims in the order of their positions, each of them where
\* the one before it ends.
Chained(n, s) ==
  /\ Claimed(n, s) /\ Increasing(n, s)
  /\ claims = Part(s, 0, n)
  /\ \A i \in 1 .. n : s[i].pos = IF i = 1 THEN deq ELSE End(s[i - 1])
  /\ pre_enq = IF n = 0 THEN deq ELSE End(s[n])

Ordered == \E n \in Nat : \E s \in [1 .. n -> Claims] : Chained(n, s)

\* A producer inside enqueue sends a message the callers use, under a name of
\* its own.
Calling ==
  \A p \in Producers : ppc[p] # "idle" => len[p] \in Lens /\ id[p] \in 1 .. calls

LEMMA InitOrdered == Init => Ordered /\ Calling
<1> SUFFICES ASSUME Init PROVE Ordered /\ Calling
  OBVIOUS
<1>1. claims = {} /\ deq = 0 /\ pre_enq = 0 /\ \A p \in Producers : ppc[p] = "idle"
  BY DEF Init
<1> DEFINE s == [i \in 1 .. 0 |-> [pos |-> 0, len |-> 0, id |-> 0]]
<1>2. s \in [1 .. 0 -> Claims]
  OBVIOUS
<1>3. Chained(0, s)
  BY <1>1 DEF Chained, Claimed, Increasing, Part
<1>4. Ordered
  <2> HIDE DEF s
  <2> QED BY <1>2, <1>3 DEF Ordered
<1> QED BY <1>1, <1>4 DEF Calling

\* Each of the counters cuts the list of claims.
LEMMA BoundaryCuts ==
  ASSUME IInv, NEW n \in Nat, NEW s, Chained(n, s), NEW x \in Nat, Boundary(x)
  PROVE  \E a \in 0 .. n : Cut(n, s, x, a)
<1>1. CASE x = pre_enq
  <2>1. ASSUME NEW i \in 1 .. n PROVE s[i].pos < x
    <3>1. s[i] \in claims
      BY DEF Chained, Part
    <3>2. s[i].pos < End(s[i]) /\ End(s[i]) <= pre_enq /\ s[i].pos \in Nat /\ End(s[i]) \in Nat
      BY <3>1, ClaimInWindow
    <3> QED BY <1>1, <3>2
  <2>2. Cut(n, s, x, n)
    BY <2>1 DEF Cut
  <2> QED BY <2>2
<1>2. CASE \E r \in claims : r.pos = x
  <2>1. PICK k \in 1 .. n : s[k].pos = x
    BY <1>2 DEF Chained, Part
  <2>2. ASSUME NEW i \in 1 .. n PROVE s[i].pos < x <=> i <= k - 1
    <3>1. /\ s[i].pos \in Nat /\ s[k].pos \in Nat
          /\ i < k => s[i].pos < s[k].pos
          /\ k < i => s[k].pos < s[i].pos
      BY DEF Chained, Increasing
    <3>2. i < k \/ i = k \/ k < i
      OBVIOUS
    <3> QED BY <2>1, <3>1, <3>2
  <2>3. k - 1 \in 0 .. n
    OBVIOUS
  <2>4. Cut(n, s, x, k - 1)
    BY <2>2, <2>3 DEF Cut
  <2> QED BY <2>3, <2>4
<1> QED BY <1>1, <1>2 DEF Boundary

\* The earlier counter cuts the list earlier.
LEMMA CutsOrdered ==
  ASSUME NEW n \in Nat, NEW s, Increasing(n, s), NEW x \in Nat, NEW y \in Nat, x <= y,
         NEW a, NEW b, Cut(n, s, x, a), Cut(n, s, y, b)
  PROVE  a \in 0 .. n /\ b \in a .. n
<1>1. a \in 0 .. n /\ b \in 0 .. n
  BY DEF Cut
<1>2. a <= b
  <2> SUFFICES ASSUME b < a PROVE FALSE
    BY <1>1
  <2>1. a \in 1 .. n
    BY <1>1
  <2>2. s[a].pos \in Nat /\ s[a].pos < x /\ ~(s[a].pos < y)
    BY <1>1, <2>1 DEF Cut, Increasing
  <2> QED BY <2>2
<1> QED BY <1>1, <1>2

\* The stages of the channel are three parts of the list.
LEMMA StagesAre ==
  ASSUME TypeOK, NEW n \in Nat, NEW s, Chained(n, s), pre_deq <= enq,
         NEW a, NEW b, Cut(n, s, pre_deq, a), Cut(n, s, enq, b)
  PROVE  /\ a \in 0 .. n /\ b \in a .. n
         /\ Taking = Messages(s, 0, a)
         /\ Ready = Messages(s, a, b)
         /\ Putting = Messages(s, b, n)
<1>1. pre_deq \in Nat /\ enq \in Nat
  BY DEF TypeOK
<1>2. Increasing(n, s) /\ claims = Part(s, 0, n)
  BY DEF Chained
<1>3. a \in 0 .. n /\ b \in a .. n
  BY <1>1, <1>2, CutsOrdered
<1>4. /\ InOrder(Before(claims, pre_deq)) = Messages(s, 0, a)
      /\ InOrder(Between(claims, pre_deq, enq)) = Messages(s, a, b)
      /\ InOrder(From(claims, enq)) = Messages(s, b, n)
  BY <1>1, <1>2, <1>3, StagesInOrder
<1> QED BY <1>3, <1>4 DEF Taking, Ready, Putting, Before, Between, From

\* The same after a step.
LEMMA StagesBecome ==
  ASSUME TypeOK', NEW n \in Nat, NEW s, Chained(n, s)', pre_deq' <= enq',
         NEW a, NEW b, Cut(n, s, pre_deq', a), Cut(n, s, enq', b)
  PROVE  /\ a \in 0 .. n /\ b \in a .. n
         /\ Taking' = Messages(s, 0, a)
         /\ Ready' = Messages(s, a, b)
         /\ Putting' = Messages(s, b, n)
<1>1. pre_deq' \in Nat /\ enq' \in Nat
  BY DEF TypeOK
<1>2. Increasing(n, s) /\ claims' = Part(s, 0, n)
  BY DEF Chained
<1>3. a \in 0 .. n /\ b \in a .. n
  BY <1>1, <1>2, CutsOrdered
<1>4. /\ InOrder(Before(claims', pre_deq')) = Messages(s, 0, a)
      /\ InOrder(Between(claims', pre_deq', enq')) = Messages(s, a, b)
      /\ InOrder(From(claims', enq')) = Messages(s, b, n)
  BY <1>1, <1>2, <1>3, StagesInOrder
<1> QED BY <1>3, <1>4 DEF Taking, Ready, Putting, Before, Between, From

\* Every set of naturals has a least.
LEMMA LeastOf ==
  ASSUME NEW S, S \subseteq Nat, S # {}
  PROVE  \E x \in S : \A y \in S : x <= y
<1> DEFINE R == OpToRel(<, Nat)
<1>1. PICK x \in S : \A y \in S : ~(<<y, x>> \in R)
  BY NatLessThanWellFounded, WFMin
<1>2. ASSUME NEW y \in S, y < x PROVE FALSE
  <2>1. <<y, x>> \in Nat \X Nat /\ <<y, x>>[1] < <<y, x>>[2]
    BY <1>2
  <2>2. <<y, x>> \in R
    BY <2>1, Zenon DEF OpToRel
  <2> QED BY <1>1, <2>2
<1> QED BY <1>2

\* What the channel counts as used is what the two outer counters of the ring
\* enclose.
LEMMA UsedIs ==
  ASSUME IInv, NEW n \in Nat, NEW s, Chained(n, s),
         Taking \o Ready \o Putting = Messages(s, 0, n)
  PROVE  Chan!Used = pre_enq - deq
<1> DEFINE inside == Messages(s, 0, n)
           Step(h) == [i \in 0 .. n |-> IF i = 0 THEN 0 ELSE h[i - 1] + inside[i].len + 1]
           sum == [i \in 0 .. n |-> IF i = 0 THEN 0 ELSE End(s[i]) - deq]
           room == CHOOSE h : h = Step(h)
<1>1. \A i \in 1 .. n : s[i] \in Claims /\ inside[i].len = s[i].len
  BY DEF Chained, Claimed, Messages, Message
<1>2. Chan!Inside = inside /\ Len(inside) = n
  <2>1. Len(inside) = n - 0
    BY 0 \in 0 .. n, n \in 0 .. n, MessagesTyped DEF Chained
  <2> HIDE DEF inside
  <2>2. Chan!Inside = inside
    <3>1. Chan!Inside = Taking \o Ready \o Putting
      BY DEF Chan!Inside
    <3> QED BY <3>1 DEF inside
  <2> QED BY <2>1, <2>2
<1>3. deq \in Nat
  BY DEF IInv, TypeOK
<1>4. sum = Step(sum)
  <2>1. ASSUME NEW i \in 1 .. n
        PROVE  End(s[i]) - deq = sum[i - 1] + inside[i].len + 1
    <3>1. /\ s[i].pos \in Nat /\ s[i].len \in Nat
          /\ s[i].pos = IF i = 1 THEN deq ELSE End(s[i - 1])
      BY <1>1 DEF Chained, Claims
    <3>2. sum[i - 1] = s[i].pos - deq
      <4>1. CASE i = 1
        BY <1>3, <3>1, <4>1
      <4>2. CASE i # 1
        <5>1. i - 1 \in 1 .. n
          BY <4>2
        <5> QED BY <3>1, <4>2, <5>1
      <4> QED BY <4>1, <4>2
    <3>3. inside[i].len = s[i].len
      BY <1>1
    <3>4. End(s[i]) = s[i].pos + s[i].len + 1
      BY <3>1 DEF End, Need
    <3> HIDE DEF sum, inside
    <3> QED BY <1>3, <3>1, <3>2, <3>3, <3>4
  <2>2. \A i \in 0 .. n : sum[i] = Step(sum)[i]
    BY <2>1
  <2> QED BY <2>2
<1>5. room = Step(room)
  <2> HIDE DEF Step
  <2> QED BY <1>4
<1>6. Chan!Used = room[n]
  <2>1. Chan!room = room
    BY <1>2 DEF Chan!room
  <2> HIDE DEF room, inside
  <2> QED BY <1>2, <2>1 DEF Chan!Used
<1>7. ASSUME NEW i \in 0 .. n PROVE room[i] = sum[i]
  <2> HIDE DEF room, sum
  <2> DEFINE Bad == {j \in 0 .. n : room[j] # sum[j]}
  <2> SUFFICES ASSUME Bad # {} PROVE FALSE
    OBVIOUS
  <2>1. PICK k \in Bad : \A j \in Bad : k <= j
    <3>1. Bad \subseteq Nat
      OBVIOUS
    <3> HIDE DEF Bad
    <3> QED BY <3>1, LeastOf
  <2>2. /\ room[k] = IF k = 0 THEN 0 ELSE room[k - 1] + inside[k].len + 1
        /\ sum[k] = IF k = 0 THEN 0 ELSE sum[k - 1] + inside[k].len + 1
    BY <1>4, <1>5
  <2>3. k # 0 => room[k - 1] = sum[k - 1]
    BY <2>1
  <2> QED BY <2>1, <2>2, <2>3
<1>8. sum[n] = pre_enq - deq
  BY <1>3 DEF Chained
<1> HIDE DEF room, sum
<1> QED BY <1>6, <1>7, <1>8

-----------------------------------------------------------------------------
(* Every step of the ring is a step of the channel, or none *)

\* The three stages in every state.
LEMMA StagesExist ==
  ASSUME IInv, NEW n \in Nat, NEW s, Chained(n, s)
  PROVE  \E a \in 0 .. n, b \in 0 .. n :
           /\ b \in a .. n
           /\ Cut(n, s, pre_deq, a) /\ Cut(n, s, enq, b)
           /\ Taking = Messages(s, 0, a)
           /\ Ready = Messages(s, a, b)
           /\ Putting = Messages(s, b, n)
<1>1. TypeOK /\ pre_deq \in Nat /\ enq \in Nat /\ pre_deq <= enq
  BY DEF IInv, TypeOK, WindowOrder
<1>2. Boundary(pre_deq) /\ Boundary(enq)
  BY DEF IInv, Tiling
<1>3. PICK a \in 0 .. n : Cut(n, s, pre_deq, a)
  BY <1>1, <1>2, BoundaryCuts
<1>4. PICK b \in 0 .. n : Cut(n, s, enq, b)
  BY <1>1, <1>2, BoundaryCuts
<1> QED BY <1>1, <1>3, <1>4, StagesAre

\* A counter that moves to the end of a claim has that claim behind it.
LEMMA CutNext ==
  ASSUME IInv, NEW n \in Nat, NEW s, Chained(n, s), NEW k \in 1 .. n
  PROVE  Cut(n, s, End(s[k]), k)
<1>1. ASSUME NEW i \in 1 .. n PROVE s[i].pos < End(s[k]) <=> i <= k
  <2>1. s[i] \in claims /\ s[k] \in claims
    BY DEF Chained, Part
  <2>2. s[i].pos \in Nat /\ s[k].pos \in Nat /\ End(s[k]) \in Nat /\ s[k].pos < End(s[k])
    BY <2>1, ClaimInWindow
  <2>3. CASE i <= k
    <3>1. i = k \/ s[i].pos < s[k].pos
      BY <2>3 DEF Chained, Increasing
    <3> QED BY <2>2, <2>3, <3>1
  <2>4. CASE k < i
    <3>1. k + 1 \in 1 .. n /\ k + 1 # 1 /\ (k + 1) - 1 = k /\ (k + 1 = i \/ k + 1 < i)
      BY <2>4
    <3>2. s[k + 1].pos = End(s[k])
      BY <3>1 DEF Chained
    <3>3. s[k + 1].pos \in Nat /\ (k + 1 = i \/ s[k + 1].pos < s[i].pos)
      BY <3>1 DEF Chained, Increasing
    <3> QED BY <2>2, <2>4, <3>2, <3>3
  <2>5. i <= k \/ k < i
    OBVIOUS
  <2> QED BY <2>3, <2>4, <2>5
<1> QED BY <1>1 DEF Cut

\* The claim at the position of a cut is the next in the list.
LEMMA NextInList ==
  ASSUME NEW n \in Nat, NEW s, Chained(n, s), NEW r \in claims, NEW a, Cut(n, s, r.pos, a)
  PROVE  a + 1 \in 1 .. n /\ r = s[a + 1]
<1>1. PICK k \in 1 .. n : r = s[k]
  BY DEF Chained, Part
<1>2. a \in 0 .. n /\ ~(k <= a)
  <2>1. s[k].pos \in Nat
    BY DEF Chained, Increasing
  <2> QED BY <1>1, <2>1 DEF Cut
<1>3. a + 1 = k
  <2> SUFFICES ASSUME a + 1 # k PROVE FALSE
    OBVIOUS
  <2>1. a + 1 \in 1 .. n /\ a + 1 < k /\ ~(a + 1 <= a)
    BY <1>2
  <2>2. s[a + 1].pos < s[k].pos
    BY <2>1 DEF Chained, Increasing
  <2> QED BY <1>1, <2>1, <2>2 DEF Cut
<1> QED BY <1>1, <1>3

\* A step that leaves the claims and the inner counters alone is none of the
\* channel's.
LEMMA StagesRest ==
  ASSUME UNCHANGED <<claims, pre_deq, enq>>
  PROVE  UNCHANGED Chan!chan
BY DEF Chan!chan, Taking, Ready, Putting

LEMMA OrderRests ==
  ASSUME Ordered, UNCHANGED <<claims, deq, pre_enq>>
  PROVE  Ordered'
BY DEF Ordered, Chained

\* Publishing a message puts the first of those being put in.
LEMMA PublishIsPut ==
  ASSUME IInv, TypeOK', WindowOrder', NEW n \in Nat, NEW s, Chained(n, s),
         NEW p \in Producers, Publish(p)
  PROVE  Chan!Put
<1>1. PICK a \in 0 .. n, b \in 0 .. n :
        /\ b \in a .. n
        /\ Cut(n, s, pre_deq, a) /\ Cut(n, s, enq, b)
        /\ Taking = Messages(s, 0, a)
        /\ Ready = Messages(s, a, b)
        /\ Putting = Messages(s, b, n)
  BY StagesExist
<1>2. /\ enq = epos[p] /\ enq' = epos[p] + Need(len[p])
      /\ UNCHANGED <<claims, pre_deq, deq, pre_enq>>
  BY DEF Publish
<1>3. ClaimOf(p) \in claims /\ ClaimOf(p).pos = enq /\ End(ClaimOf(p)) = enq'
  BY <1>2 DEF IInv, WritersOwn, WriterOwns, Writing, Publish, ClaimOf, End
<1>4. b + 1 \in 1 .. n /\ ClaimOf(p) = s[b + 1]
  BY <1>1, <1>3, NextInList
<1>5. Chained(n, s)' /\ Cut(n, s, pre_deq', a) /\ Cut(n, s, enq', b + 1)
  BY <1>1, <1>2, <1>3, <1>4, CutNext DEF Chained
<1>6. pre_deq' <= enq'
  BY DEF WindowOrder
<1>7. /\ Taking' = Messages(s, 0, a)
      /\ Ready' = Messages(s, a, b + 1)
      /\ Putting' = Messages(s, b + 1, n)
  BY <1>5, <1>6, StagesBecome
<1>8. Claimed(n, s)
  BY DEF Chained
<1>9. b < n /\ b \in a .. n /\ n \in b .. n
  BY <1>1, <1>4
<1>10. Messages(s, a, b + 1) = Append(Messages(s, a, b), Message(s[b + 1]))
  BY <1>8, <1>9, MessagesAppend
<1>11. /\ Messages(s, b, n) # << >>
       /\ Head(Messages(s, b, n)) = Message(s[b + 1])
       /\ Tail(Messages(s, b, n)) = Messages(s, b + 1, n)
  BY <1>8, <1>9, MessagesTail
<1> QED BY <1>1, <1>7, <1>10, <1>11 DEF Chan!Put

\* Claiming a message takes the first that is ready.
LEMMA ClaimIsTake ==
  ASSUME IInv, TypeOK', WindowOrder', NEW n \in Nat, NEW s, Chained(n, s),
         NEW c \in Consumers, CasPreDeq(c), pre_deq = dpos[c]
  PROVE  Chan!Take
<1>1. PICK a \in 0 .. n, b \in 0 .. n :
        /\ b \in a .. n
        /\ Cut(n, s, pre_deq, a) /\ Cut(n, s, enq, b)
        /\ Taking = Messages(s, 0, a)
        /\ Ready = Messages(s, a, b)
        /\ Putting = Messages(s, b, n)
  BY StagesExist
<1>2. /\ cpc[c] = "cas" /\ pre_deq' = pre_deq + Need(hlen[c])
      /\ UNCHANGED <<claims, enq, deq, pre_enq>>
  BY DEF CasPreDeq
<1>3. PICK r \in claims : r.pos = pre_deq /\ r.len = hlen[c] /\ End(r) <= enq
  BY <1>2 DEF IInv, HeaderFresh
<1>4. a + 1 \in 1 .. n /\ r = s[a + 1]
  BY <1>1, <1>3, NextInList
<1>5. Chained(n, s)' /\ Cut(n, s, pre_deq', a + 1) /\ Cut(n, s, enq', b)
  <2>1. End(r) = pre_deq'
    BY <1>2, <1>3 DEF End
  <2> QED BY <1>1, <1>2, <1>4, <2>1, CutNext DEF Chained
<1>6. a < b
  <2>1. r.pos \in Nat /\ End(r) \in Nat /\ r.pos < End(r) /\ enq \in Nat
    BY ClaimInWindow DEF IInv, TypeOK
  <2>2. s[a + 1].pos < enq
    BY <1>3, <1>4, <2>1
  <2> QED BY <1>1, <1>4, <2>2 DEF Cut
<1>7. pre_deq' <= enq'
  BY DEF WindowOrder
<1>8. /\ Taking' = Messages(s, 0, a + 1)
      /\ Ready' = Messages(s, a + 1, b)
      /\ Putting' = Messages(s, b, n)
  BY <1>5, <1>7, StagesBecome
<1>9. Claimed(n, s)
  BY DEF Chained
<1>10. Messages(s, 0, a + 1) = Append(Messages(s, 0, a), Message(s[a + 1]))
  BY <1>4, <1>9, 0 \in 0 .. n, a \in 0 .. n, a < n, MessagesAppend
<1>11. /\ Messages(s, a, b) # << >>
       /\ Head(Messages(s, a, b)) = Message(s[a + 1])
       /\ Tail(Messages(s, a, b)) = Messages(s, a + 1, b)
  BY <1>1, <1>6, <1>9, MessagesTail
<1> QED BY <1>1, <1>8, <1>10, <1>11 DEF Chan!Take

\* The messages depend on the claims of the part alone, wherever it lies.
LEMMA MessagesSame ==
  ASSUME NEW a, NEW b, NEW s, NEW t, \A j \in 1 .. b - a : t[a + j] = s[a + j]
  PROVE  Messages(t, a, b) = Messages(s, a, b)
BY DEF Messages

LEMMA MessagesShifted ==
  ASSUME NEW a \in Nat, NEW b \in Nat, NEW s, NEW t,
         \A j \in 1 .. b - a : t[a + j] = s[(a + 1) + j]
  PROVE  Messages(t, a, b) = Messages(s, a + 1, b + 1)
<1>1. (b + 1) - (a + 1) = b - a
  OBVIOUS
<1> QED BY <1>1 DEF Messages

\* Claiming room reserves a place in the channel, which has room as well.
LEMMA ClaimIsReserve ==
  ASSUME IInv, TypeOK', WindowOrder', Calling, NEW n \in Nat, NEW s, Chained(n, s),
         NEW p \in Producers, CasPreEnq(p), pre_enq = epos[p]
  PROVE  /\ Ordered'
         /\ \E m \in [len : Lens, id : 1 .. MaxCalls] : Chan!Reserve(m)
<1>1. PICK a \in 0 .. n, b \in 0 .. n :
        /\ b \in a .. n
        /\ Cut(n, s, pre_deq, a) /\ Cut(n, s, enq, b)
        /\ Taking = Messages(s, 0, a)
        /\ Ready = Messages(s, a, b)
        /\ Putting = Messages(s, b, n)
  BY StagesExist
<1>2. /\ ppc[p] = "cas" /\ pre_enq' = pre_enq + Need(len[p]) /\ claims' = claims \cup {ClaimOf(p)}
      /\ UNCHANGED <<enq, deq, pre_deq>>
  BY DEF CasPreEnq
<1>3. /\ deq \in Nat /\ pre_deq \in Nat /\ enq \in Nat /\ pre_enq \in Nat /\ len[p] \in Nat
      /\ id[p] \in Nat /\ deq <= pre_deq /\ pre_deq <= enq /\ enq <= pre_enq
  BY DEF IInv, TypeOK, WindowOrder
<1>4. PICK r \in Claims :
        /\ r = ClaimOf(p) /\ r.pos = pre_enq /\ r.len = len[p] /\ r.id = id[p]
        /\ End(r) = pre_enq'
  <2> DEFINE c == ClaimOf(p)
  <2>1. c \in Claims /\ c.pos = pre_enq /\ c.len = len[p] /\ c.id = id[p]
    BY <1>3 DEF ClaimOf, Claims
  <2> HIDE DEF c
  <2>2. End(c) = pre_enq'
    BY <1>2, <2>1 DEF End
  <2> QED BY <2>1, <2>2 DEF c
<1>5. /\ Claimed(n, s) /\ Increasing(n, s) /\ claims = Part(s, 0, n)
      /\ \A i \in 1 .. n : s[i].pos = IF i = 1 THEN deq ELSE End(s[i - 1])
      /\ pre_enq = IF n = 0 THEN deq ELSE End(s[n])
  BY DEF Chained
<1>6. PICK t : /\ t \in [1 .. n + 1 -> Claims] /\ t[n + 1] = r
               /\ \A i \in 1 .. n : t[i] = s[i]
  <2> DEFINE u == [i \in 1 .. n + 1 |-> IF i = n + 1 THEN r ELSE s[i]]
  <2>1. u \in [1 .. n + 1 -> Claims] /\ u[n + 1] = r /\ \A i \in 1 .. n : u[i] = s[i]
    BY <1>4, <1>5 DEF Claimed
  <2> HIDE DEF u
  <2> QED BY <2>1
<1>7. \A i \in 1 .. n : s[i].pos < pre_enq /\ s[i].pos \in Nat
  <2> TAKE i \in 1 .. n
  <2>1. s[i] \in claims
    BY <1>5 DEF Part
  <2> QED BY <1>3, <2>1, ClaimInWindow
<1>8. Chained(n + 1, t)'
  <2>1. Claimed(n + 1, t)
    BY <1>6 DEF Claimed
  <2>2. Increasing(n + 1, t)
    <3>1. \A i \in 1 .. n + 1 : t[i].pos \in Nat
      BY <1>3, <1>4, <1>6, <1>7
    <3>2. ASSUME NEW i \in 1 .. n + 1, NEW j \in 1 .. n + 1, i < j
          PROVE  t[i].pos < t[j].pos
      <4>1. CASE j = n + 1
        <5>1. i \in 1 .. n
          BY <3>2, <4>1
        <5> QED BY <1>4, <1>6, <1>7, <4>1, <5>1
      <4>2. CASE j # n + 1
        <5>1. i \in 1 .. n /\ j \in 1 .. n
          BY <3>2, <4>2
        <5> QED BY <1>5, <1>6, <3>2, <5>1 DEF Increasing
      <4> QED BY <4>1, <4>2
    <3> QED BY <3>1, <3>2 DEF Increasing
  <2>3. claims' = Part(t, 0, n + 1)
    <3>1. 0 + 1 .. n + 1 = (0 + 1 .. n) \cup {n + 1}
      OBVIOUS
    <3> QED BY <1>2, <1>4, <1>5, <1>6, <3>1 DEF Part
  <2>4. ASSUME NEW i \in 1 .. n + 1
        PROVE  t[i].pos = IF i = 1 THEN deq ELSE End(t[i - 1])
    <3>1. CASE i = n + 1
      <4>1. n # 0 => n \in 1 .. n
        OBVIOUS
      <4> QED BY <1>4, <1>5, <1>6, <3>1, <4>1
    <3>2. CASE i # n + 1
      <4>1. i \in 1 .. n /\ (i # 1 => i - 1 \in 1 .. n)
        BY <3>2
      <4> QED BY <1>5, <1>6, <4>1
    <3> QED BY <3>1, <3>2
  <2>5. pre_enq' = IF n + 1 = 0 THEN deq ELSE End(t[n + 1])
    BY <1>4, <1>6
  <2> QED BY <1>2, <2>1, <2>2, <2>3, <2>4, <2>5 DEF Chained
<1>9. Ordered'
  BY <1>6, <1>8, n + 1 \in Nat DEF Ordered
<1>10. Cut(n + 1, t, pre_deq', a) /\ Cut(n + 1, t, enq', b)
  <2>1. ASSUME NEW x \in {pre_deq, enq}, NEW k \in 0 .. n, Cut(n, s, x, k)
        PROVE  Cut(n + 1, t, x, k)
    <3>1. ASSUME NEW i \in 1 .. n + 1 PROVE t[i].pos < x <=> i <= k
      <4>1. CASE i = n + 1
        BY <1>3, <1>4, <1>6, <4>1
      <4>2. CASE i # n + 1
        <5>1. i \in 1 .. n
          BY <4>2
        <5> QED BY <1>6, <2>1, <5>1 DEF Cut
      <4> QED BY <4>1, <4>2
    <3> QED BY <3>1 DEF Cut
  <2> QED BY <1>1, <1>2, <2>1
<1>11. pre_deq' <= enq'
  BY DEF WindowOrder
<1>12. PICK m \in Nat : m = n + 1
  OBVIOUS
<1>13. /\ Taking' = Messages(t, 0, a)
       /\ Ready' = Messages(t, a, b)
       /\ Putting' = Messages(t, b, n + 1)
  <2>1. Chained(m, t)' /\ Cut(m, t, pre_deq', a) /\ Cut(m, t, enq', b)
    BY <1>8, <1>10, <1>12
  <2>2. /\ Taking' = Messages(t, 0, a)
        /\ Ready' = Messages(t, a, b)
        /\ Putting' = Messages(t, b, m)
    BY <1>11, <2>1, StagesBecome
  <2> QED BY <1>12, <2>2
<1>14. ASSUME NEW x \in 0 .. n, NEW y \in 0 .. n
       PROVE  Messages(t, x, y) = Messages(s, x, y)
  <2>1. \A j \in 1 .. y - x : x + j \in 1 .. n
    OBVIOUS
  <2> QED BY <1>6, <2>1, MessagesSame
<1>15. Messages(t, b, n + 1) = Append(Messages(t, b, n), Message(t[n + 1]))
  <2>1. Claimed(n + 1, t)
    BY <1>8 DEF Chained
  <2>2. b \in 0 .. n + 1 /\ n \in b .. n + 1 /\ n < n + 1
    OBVIOUS
  <2> QED BY <2>1, <2>2, n + 1 \in Nat, MessagesAppend
<1>16. Chan!Used = pre_enq - deq
  <2>1. Taking \o Ready \o Putting = Messages(s, 0, n)
    BY <1>1, <1>5, MessagesJoin
  <2> QED BY <2>1, UsedIs
<1>17. Message(r) \in [len : Lens, id : 1 .. MaxCalls]
  <2>1. len[p] \in Lens /\ id[p] \in 1 .. calls /\ calls \in 0 .. MaxCalls /\ MaxCalls \in Nat
    BY <1>2, QueueAssumption DEF Calling, IInv, TypeOK
  <2> QED BY <1>4, <2>1 DEF Message
<1>18. Chan!Used + Message(r).len + 1 <= Size
  <2>1. epos[p] + Need(len[p]) - deq <= Size
    BY <1>2 DEF IInv, RoomKept
  <2>2. Size \in Nat
    BY QueueAssumption
  <2> QED BY <1>3, <1>4, <1>16, <2>1, <2>2 DEF Need, Message
<1>19. Chan!Reserve(Message(r))
  <2>1. Taking' = Taking /\ Ready' = Ready
    BY <1>1, <1>13, <1>14
  <2>2. Putting' = Append(Putting, Message(r))
    BY <1>1, <1>6, <1>13, <1>14, <1>15
  <2> QED BY <1>18, <2>1, <2>2 DEF Chan!Reserve
<1> QED BY <1>9, <1>17, <1>19

\* Releasing the space of a message frees the first of those being taken.
LEMMA ReleaseIsFree ==
  ASSUME IInv, TypeOK', WindowOrder', NEW n \in Nat, NEW s, Chained(n, s),
         NEW c \in Consumers, Release(c)
  PROVE  Ordered' /\ Chan!Free
<1>1. PICK a \in 0 .. n, b \in 0 .. n :
        /\ b \in a .. n
        /\ Cut(n, s, pre_deq, a) /\ Cut(n, s, enq, b)
        /\ Taking = Messages(s, 0, a)
        /\ Ready = Messages(s, a, b)
        /\ Putting = Messages(s, b, n)
  BY StagesExist
<1>2. /\ Reading(c) /\ deq = dpos[c] /\ deq' = dpos[c] + Need(hlen[c])
      /\ claims' = {r \in claims : r.pos # deq}
      /\ UNCHANGED <<enq, pre_deq, pre_enq>>
  BY DEF Release, Copied, Reading
<1>3. PICK r \in claims : r.pos = deq /\ r.len = hlen[c] /\ End(r) <= pre_deq
  BY <1>2 DEF IInv, ReadersOwn, ReaderOwns
<1>4. End(r) = deq' /\ r.pos \in Nat /\ End(r) \in Nat /\ r.pos < End(r)
  BY <1>2, <1>3, ClaimInWindow DEF End
<1>5. /\ Claimed(n, s) /\ Increasing(n, s) /\ claims = Part(s, 0, n)
      /\ \A i \in 1 .. n : s[i].pos = IF i = 1 THEN deq ELSE End(s[i - 1])
      /\ pre_enq = IF n = 0 THEN deq ELSE End(s[n])
  BY DEF Chained
<1>6. 1 \in 1 .. n /\ r = s[1] /\ \A i \in 2 .. n : s[i].pos # deq
  <2>1. PICK k \in 1 .. n : r = s[k]
    BY <1>5 DEF Part
  <2>2. s[1].pos = deq
    BY <1>5, <2>1
  <2>3. \A i \in 2 .. n : s[1].pos < s[i].pos /\ s[i].pos \in Nat /\ s[1].pos \in Nat
    BY <1>5 DEF Increasing
  <2>4. \A i \in 2 .. n : s[i].pos # deq
    BY <2>2, <2>3
  <2> QED BY <1>3, <2>1, <2>4
<1>7. PICK m \in Nat : m + 1 = n
  BY <1>6, n - 1 \in Nat
<1>8. PICK t : t \in [1 .. m -> Claims] /\ \A i \in 1 .. m : t[i] = s[i + 1]
  <2> DEFINE u == [i \in 1 .. m |-> s[i + 1]]
  <2>1. \A i \in 1 .. m : i + 1 \in 1 .. n
    BY <1>7
  <2>2. u \in [1 .. m -> Claims] /\ \A i \in 1 .. m : u[i] = s[i + 1]
    BY <1>5, <2>1 DEF Claimed
  <2> HIDE DEF u
  <2> QED BY <2>2
<1>9. Chained(m, t)'
  <2>1. Claimed(m, t)
    BY <1>8 DEF Claimed
  <2>2. Increasing(m, t)
    <3>1. \A i \in 1 .. m : i + 1 \in 1 .. n
      BY <1>7
    <3>2. \A i, j \in 1 .. m : i < j => i + 1 < j + 1
      OBVIOUS
    <3> QED BY <1>5, <1>8, <3>1, <3>2 DEF Increasing
  <2>3. claims' = Part(t, 0, m)
    <3>1. \A i \in 1 .. n : i = 1 \/ (i \in 2 .. n /\ i - 1 \in 0 + 1 .. m /\ (i - 1) + 1 = i)
      BY <1>7
    <3>2. \A i \in 0 + 1 .. m : i \in 1 .. m /\ i + 1 \in 2 .. n /\ i + 1 \in 0 + 1 .. n
      BY <1>7
    <3>3. ASSUME NEW x \in claims' PROVE x \in Part(t, 0, m)
      <4>1. x \in claims /\ x.pos # deq
        BY <1>2
      <4>2. PICK i \in 1 .. n : x = s[i]
        BY <1>5, <4>1 DEF Part
      <4>3. i # 1
        BY <1>3, <1>6, <4>1, <4>2
      <4>4. i - 1 \in 0 + 1 .. m /\ t[i - 1] = x
        BY <1>8, <3>1, <3>2, <4>2, <4>3
      <4> QED BY <4>4 DEF Part
    <3>4. ASSUME NEW x \in Part(t, 0, m) PROVE x \in claims'
      <4>1. PICK i \in 0 + 1 .. m : x = t[i]
        BY DEF Part
      <4>2. x = s[i + 1] /\ i + 1 \in 0 + 1 .. n /\ x.pos # deq
        BY <1>6, <1>8, <3>2, <4>1
      <4>3. x \in claims
        BY <1>5, <4>2 DEF Part
      <4> QED BY <1>2, <4>2, <4>3
    <3> QED BY <3>3, <3>4
  <2>4. ASSUME NEW i \in 1 .. m
        PROVE  t[i].pos = IF i = 1 THEN deq' ELSE End(t[i - 1])
    <3>1. i + 1 \in 1 .. n /\ i + 1 # 1 /\ (i + 1) - 1 = i /\ (i # 1 => i - 1 \in 1 .. m)
      BY <1>7
    <3>2. t[i].pos = End(s[i])
      BY <1>5, <1>8, <3>1
    <3>3. CASE i = 1
      BY <1>4, <1>6, <3>2, <3>3
    <3>4. CASE i # 1
      <4>1. t[i - 1] = s[(i - 1) + 1] /\ (i - 1) + 1 = i
        BY <1>8, <3>1, <3>4
      <4> QED BY <3>2, <3>4, <4>1
    <3> QED BY <3>3, <3>4
  <2>5. pre_enq' = IF m = 0 THEN deq' ELSE End(t[m])
    <3>1. CASE m = 0
      BY <1>2, <1>4, <1>5, <1>6, <1>7, <3>1
    <3>2. CASE m # 0
      <4>1. t[m] = s[n]
        BY <1>7, <1>8, <3>2
      <4> QED BY <1>2, <1>5, <1>7, <3>2, <4>1
    <3> QED BY <3>1, <3>2
  <2> QED BY <2>1, <2>2, <2>3, <2>4, <2>5 DEF Chained
<1>10. Ordered'
  BY <1>8, <1>9 DEF Ordered
<1>11. 1 <= a
  <2>1. pre_deq \in Nat /\ s[1].pos < pre_deq
    BY <1>3, <1>4, <1>6 DEF IInv, TypeOK
  <2> QED BY <1>1, <1>6, <2>1 DEF Cut
<1>12. PICK d \in 0 .. m, e \in 0 .. m : e \in d .. m /\ d + 1 = a /\ e + 1 = b
  BY <1>1, <1>7, <1>11, a - 1 \in Int, b - 1 \in Int
<1>13. Cut(m, t, pre_deq', d) /\ Cut(m, t, enq', e)
  <2>1. ASSUME NEW x, NEW k \in 0 .. n, NEW l \in 0 .. m, Cut(n, s, x, k), l + 1 = k
        PROVE  Cut(m, t, x, l)
    <3>1. ASSUME NEW i \in 1 .. m PROVE t[i].pos < x <=> i <= l
      <4>1. i + 1 \in 1 .. n /\ (i + 1 <= k <=> i <= l)
        BY <1>7, <2>1
      <4> QED BY <1>8, <2>1, <4>1 DEF Cut
    <3> QED BY <3>1 DEF Cut
  <2> QED BY <1>1, <1>2, <1>12, <2>1
<1>14. pre_deq' <= enq'
  BY DEF WindowOrder
<1>15. /\ Taking' = Messages(t, 0, d)
       /\ Ready' = Messages(t, d, e)
       /\ Putting' = Messages(t, e, m)
  BY <1>9, <1>13, <1>14, StagesBecome
<1>16. ASSUME NEW x \in 0 .. m, NEW y \in 0 .. m
       PROVE  Messages(t, x, y) = Messages(s, x + 1, y + 1)
  <2>1. ASSUME NEW j \in 1 .. y - x PROVE t[x + j] = s[(x + 1) + j]
    <3>1. x + j \in 1 .. m /\ (x + j) + 1 = (x + 1) + j
      OBVIOUS
    <3> QED BY <1>8, <3>1
  <2>2. x \in Nat /\ y \in Nat
    OBVIOUS
  <2> QED BY <2>1, <2>2, MessagesShifted
<1>17. /\ Taking # << >>
       /\ Tail(Taking) = Messages(s, 1, a)
  <2>1. 0 \in 0 .. n /\ a \in 0 .. n /\ 0 < a
    BY <1>11
  <2>2. Messages(s, 0, a) # << >> /\ Tail(Messages(s, 0, a)) = Messages(s, 0 + 1, a)
    BY <1>5, <2>1, MessagesTail
  <2> QED BY <1>1, <2>2
<1>18. Chan!Free
  <2>1. Taking' = Messages(s, 1, a) /\ Ready' = Messages(s, a, b) /\ Putting' = Messages(s, b, n)
    BY <1>7, <1>12, <1>15, <1>16
  <2> QED BY <1>1, <1>17, <2>1 DEF Chan!Free
<1> QED BY <1>10, <1>18

\* Every step keeps each producer's message one that the callers use.
LEMMA CallingKept ==
  ASSUME TypeOK, TypeOK', Calling, [Next]_vars
  PROVE  Calling'
<1>1. ASSUME NEW p \in Producers,
             (\E n \in Lens : RejectEnqueue(p, n) \/ BeginEnqueue(p, n)) \/ EnqueueStep(p)
      PROVE  Calling'
  <2>1. ASSUME NEW n \in Lens, BeginEnqueue(p, n) PROVE Calling'
    <3>1. /\ len' = [len EXCEPT ![p] = n] /\ id' = [id EXCEPT ![p] = calls + 1]
          /\ ppc' = [ppc EXCEPT ![p] = "readPre"] /\ calls' = calls + 1 /\ calls \in Nat
      BY <2>1 DEF BeginEnqueue, TypeOK
    <3>2. ASSUME NEW q \in Producers, ppc'[q] # "idle"
          PROVE  len'[q] \in Lens /\ id'[q] \in 1 .. calls'
      <4>1. CASE q = p
        BY <3>1, <4>1 DEF TypeOK
      <4>2. CASE q # p
        <5>1. ppc'[q] = ppc[q] /\ len'[q] = len[q] /\ id'[q] = id[q]
          BY <3>1, <4>2 DEF TypeOK
        <5>2. len[q] \in Lens /\ id[q] \in 1 .. calls
          BY <3>2, <5>1 DEF Calling
        <5> QED BY <3>1, <5>1, <5>2
      <4> QED BY <4>1, <4>2
    <3> QED BY <3>2 DEF Calling
  <2>2. ASSUME /\ len' = len /\ id' = id /\ (calls' = calls \/ calls' = calls + 1)
               /\ \A q \in Producers : ppc[q] = "idle" => ppc'[q] = "idle"
        PROVE  Calling'
    <3>1. calls \in Nat /\ calls' \in Nat /\ calls <= calls'
      BY <2>2 DEF TypeOK
    <3>2. ASSUME NEW q \in Producers, ppc'[q] # "idle"
          PROVE  len'[q] \in Lens /\ id'[q] \in 1 .. calls'
      <4>1. len[q] \in Lens /\ id[q] \in 1 .. calls
        BY <2>2, <3>2 DEF Calling
      <4> QED BY <2>2, <3>1, <4>1
    <3> QED BY <3>2 DEF Calling
  <2>3. ASSUME NEW n \in Lens, RejectEnqueue(p, n) PROVE Calling'
    BY <2>2, <2>3 DEF RejectEnqueue, pvars
  <2>4. CASE EnqueueStep(p)
    <3>1. ppc[p] # "idle" /\ \E pc : ppc' = [ppc EXCEPT ![p] = pc]
      BY <2>4 DEF EnqueueStep, ReadPreEnq, ReadDeq, CasPreEnq, WriteCell, Publish
    <3>2. UNCHANGED <<len, id, calls>>
      BY <2>4 DEF EnqueueStep, ReadPreEnq, ReadDeq, CasPreEnq, WriteCell, Publish
    <3>3. \A q \in Producers : ppc[q] = "idle" => ppc'[q] = "idle"
      BY <3>1 DEF TypeOK
    <3> QED BY <2>2, <3>2, <3>3
  <2> QED BY <1>1, <2>1, <2>3, <2>4
<1>2. ASSUME NEW c \in Consumers, (\E n \in Caps : BeginDequeue(c, n)) \/ DequeueStep(c)
      PROVE  Calling'
  <2>1. UNCHANGED <<ppc, len, id, calls>>
    BY <1>2 DEF DequeueStep, BeginDequeue, ReadPreDeq, ReadEnq, ReadHdr, CasPreDeq, CopyCell, Release, pvars
  <2> QED BY <2>1 DEF Calling
<1>3. CASE UNCHANGED vars
  BY <1>3 DEF vars, pvars, Calling
<1> QED BY <1>1, <1>2, <1>3 DEF Next

\* Every step of the ring keeps its claims in order, and is one of the
\* channel's or none.
LEMMA StepOfChannel ==
  ASSUME IInv, IInv', Ordered, Calling, [Next]_vars
  PROVE  Ordered' /\ [Chan!Next]_(Chan!chan)
<1>1. PICK n \in Nat : \E s \in [1 .. n -> Claims] : Chained(n, s)
  BY DEF Ordered
<1>2. PICK s : Chained(n, s)
  BY <1>1
<1>3. TypeOK' /\ WindowOrder'
  BY DEF IInv
<1>4. ASSUME UNCHANGED <<claims, enq, pre_enq, deq, pre_deq>>
      PROVE  Ordered' /\ [Chan!Next]_(Chan!chan)
  BY <1>4, StagesRest, OrderRests
<1>5. ASSUME NEW p \in Producers,
             (\E l \in Lens : RejectEnqueue(p, l) \/ BeginEnqueue(p, l)) \/ EnqueueStep(p)
      PROVE  Ordered' /\ [Chan!Next]_(Chan!chan)
  <2>1. CASE \/ \E l \in Lens : RejectEnqueue(p, l) \/ BeginEnqueue(p, l)
             \/ ReadPreEnq(p) \/ ReadDeq(p) \/ WriteCell(p)
    <3>1. UNCHANGED <<claims, enq, pre_enq, deq, pre_deq>>
      BY <2>1 DEF RejectEnqueue, BeginEnqueue, ReadPreEnq, ReadDeq, WriteCell, counters
    <3> QED BY <1>4, <3>1
  <2>2. CASE CasPreEnq(p)
    <3>1. CASE pre_enq = epos[p]
      <4>1. Ordered' /\ \E m \in [len : Lens, id : 1 .. MaxCalls] : Chan!Reserve(m)
        BY <1>2, <1>3, <2>2, <3>1, ClaimIsReserve
      <4> QED BY <4>1 DEF Chan!Next
    <3>2. CASE pre_enq # epos[p]
      <4>1. UNCHANGED <<claims, enq, pre_enq, deq, pre_deq>>
        BY <2>2, <3>2 DEF CasPreEnq
      <4> QED BY <1>4, <4>1
    <3> QED BY <3>1, <3>2
  <2>3. CASE Publish(p)
    <3>1. Chan!Put
      BY <1>2, <1>3, <2>3, PublishIsPut
    <3>2. Ordered'
      BY <2>3, OrderRests DEF Publish
    <3> QED BY <3>1, <3>2 DEF Chan!Next
  <2> QED BY <1>5, <2>1, <2>2, <2>3 DEF EnqueueStep
<1>6. ASSUME NEW c \in Consumers, (\E l \in Caps : BeginDequeue(c, l)) \/ DequeueStep(c)
      PROVE  Ordered' /\ [Chan!Next]_(Chan!chan)
  <2>1. CASE \/ \E l \in Caps : BeginDequeue(c, l)
             \/ ReadPreDeq(c) \/ ReadEnq(c) \/ ReadHdr(c) \/ CopyCell(c)
    <3>1. UNCHANGED <<claims, enq, pre_enq, deq, pre_deq>>
      BY <2>1 DEF BeginDequeue, ReadPreDeq, ReadEnq, ReadHdr, CopyCell, counters
    <3> QED BY <1>4, <3>1
  <2>2. CASE CasPreDeq(c)
    <3>1. CASE pre_deq = dpos[c]
      <4>1. Chan!Take
        BY <1>2, <1>3, <2>2, <3>1, ClaimIsTake
      <4>2. Ordered'
        BY <2>2, OrderRests DEF CasPreDeq
      <4> QED BY <4>1, <4>2 DEF Chan!Next
    <3>2. CASE pre_deq # dpos[c]
      <4>1. UNCHANGED <<claims, enq, pre_enq, deq, pre_deq>>
        BY <2>2, <3>2 DEF CasPreDeq
      <4> QED BY <1>4, <4>1
    <3> QED BY <3>1, <3>2
  <2>3. CASE Release(c)
    <3>1. Ordered' /\ Chan!Free
      BY <1>2, <1>3, <2>3, ReleaseIsFree
    <3> QED BY <3>1 DEF Chan!Next
  <2> QED BY <1>6, <2>1, <2>2, <2>3 DEF DequeueStep
<1>7. CASE UNCHANGED vars
  BY <1>4, <1>7 DEF vars, counters
<1> QED BY <1>5, <1>6, <1>7 DEF Next

\* The ring starts as the empty channel.
LEMMA InitOfChannel == Init => Chan!Init
<1> SUFFICES ASSUME Init PROVE Chan!Init
  OBVIOUS
<1>1. claims = {}
  BY DEF Init
<1>2. InOrder({}) = << >>
  <2>1. Cardinality({}) = 0
    BY FS_EmptySet
  <2> QED BY <2>1 DEF InOrder
<1>3. /\ {r \in claims : r.pos < pre_deq} = {}
      /\ {r \in claims : r.pos >= pre_deq /\ r.pos < enq} = {}
      /\ {r \in claims : r.pos >= enq} = {}
  BY <1>1
<1> QED BY <1>2, <1>3 DEF Chan!Init, Taking, Ready, Putting

\* For any number of threads, ring size and messages: the lock-free ring is a
\* bounded first-in first-out channel; no message is lost, repeated or
\* overtaken, and no more is given out than fits.
THEOREM RingIsChannel == Spec => ImplementsChannel
<1>1. TypeOK /\ TypeOK' /\ Calling /\ [Next]_vars => Calling'
  BY CallingKept
<1>2. IInv /\ IInv' /\ Ordered /\ Calling /\ [Next]_vars => Ordered' /\ [Chan!Next]_(Chan!chan)
  BY StepOfChannel
<1>3. Init => Chan!Init /\ Ordered /\ Calling
  BY InitOrdered, InitOfChannel
<1> QED BY <1>1, <1>2, <1>3, TypeCorrect, Invariance, PTL DEF Spec, ImplementsChannel, Chan!Spec

=============================================================================
