----------------------------- MODULE GatherCopy -----------------------------
(***************************************************************************)
(* The copies of queue_t (redis-pool/src/queue.cpp) byte by byte: enqueue  *)
(* adds up the lengths of the buffers it is given, gathers their bytes     *)
(* into the ring with memcpy_v, one turn of the loop at a time, and        *)
(* dequeue takes them out, each in one piece or in two around the end of   *)
(* the ring.  QueueT takes for granted that together they copy byte i of   *)
(* the message from its place in the buffers to place i, modulo the size.  *)
(***************************************************************************)
EXTENDS Integers, Sequences

CONSTANTS
  Size,     \* m_queue_size in bytes
  Hdr,      \* sizeof(header_t)
  Limit,    \* 1024U * 1024 * 1024
  Word,     \* 2^32: lengths are uint32_t
  MaxParts  \* bound: the most buffers of a call

\* Size is a power of 2 that is at least 1024, Hdr a smaller one.
ASSUME CopyAssumption ==
  /\ {Size, Hdr} \subseteq Nat \ {0} /\ Size % Hdr = 0
  /\ {Limit, Word, MaxParts} \subseteq Nat
  /\ 2 * Limit < Word /\ Limit + 2 * Hdr <= Word

VARIABLES
  lens,    \* len_v
  pos,     \* actual_enqueue_pos, later actual_dequeue_pos
  ring,    \* m_queue
  out,     \* data of dequeue
  stage,   \* "sum", "rejected", "gather", "stored" or "taken"
  len,     \* len of enqueue, before the first call of memcpy_v takes from it
  i,       \* the buffer a loop has come to, *begin between two calls
  offset,  \* *offset of memcpy_v
  dst,     \* where in the ring memcpy_v writes
  want,    \* len of memcpy_v: what it has still to copy
  rest     \* what is left for a second call

vars == <<lens, pos, ring, out, stage, len, i, offset, dst, want, rest>>

Lesser(m, n) == IF m < n THEN m ELSE n

\* What a call may be given, and what a byte of the ring may be: byte k of
\* buffer j is <<j, k>>.
Lengths == UNION {[1 .. n -> 0 .. Word - 1] : n \in 0 .. MaxParts}
Cells == (0 .. MaxParts) \X (0 .. Word - 1)
Header(n) == <<0, n>>
Unused == <<0, 0>>

\* What a message of n bytes takes in the ring, computed in 32 bits.
RoundUp(a, b) == (((a + b - 1) % Word) \div b) * b
ActualLen(n) == (RoundUp(n, Hdr) + Hdr) % Word

\* Whether a message of n bytes at pos lies in one piece, and if not, how many
\* of them come before the end of the ring.
OnePiece(n) == (pos + ActualLen(n)) % Size > pos
Before(n) == IF pos + Hdr < Size THEN Lesser(Size - (pos + Hdr), n) ELSE 0

\* The ring with bytes copied in from p on, without wrapping.
Put(r, p, bytes) ==
  [b \in DOMAIN r |-> IF b - p + 1 \in DOMAIN bytes THEN bytes[b - p + 1] ELSE r[b]]

Init ==
  /\ lens \in Lengths
  /\ pos \in {p \in 0 .. Size - 1 : p % Hdr = 0}
  /\ ring = [b \in 0 .. Size - 1 |-> Unused]
  /\ out = << >>
  /\ stage = "sum"
  /\ len = 0 /\ i = 1 /\ offset = 0
  /\ dst = 0 /\ want = 0 /\ rest = 0

\* Mutant: the length of a single buffer is not checked.
AddAny ==
  /\ stage = "sum" /\ i <= Len(lens)
  /\ len' = (len + lens[i]) % Word
  /\ IF len' > Limit
     THEN stage' = "rejected" /\ UNCHANGED i
     ELSE i' = i + 1 /\ UNCHANGED stage
  /\ UNCHANGED <<lens, pos, ring, out, offset, dst, want, rest>>

\* A turn of the loop that adds up the lengths, and checks each of them and the
\* sum, so that it cannot wrap.
Add ==
  /\ stage = "sum" /\ i <= Len(lens)
  /\ len' = IF lens[i] > Limit THEN len ELSE (len + lens[i]) % Word
  /\ IF lens[i] > Limit \/ len' > Limit
     THEN stage' = "rejected" /\ UNCHANGED i
     ELSE i' = i + 1 /\ UNCHANGED stage
  /\ UNCHANGED <<lens, pos, ring, out, offset, dst, want, rest>>

\* There is nothing to send, or not the room for it beside what the ring holds.
Reject ==
  /\ stage = "sum" /\ i > Len(lens)
  /\ len = 0 \/ \E held \in 0 .. Size : ActualLen(len) > Size - held
  /\ stage' = "rejected"
  /\ UNCHANGED <<lens, pos, ring, out, len, i, offset, dst, want, rest>>

\* Mutant: the first call is not cut at the end of the ring.
PlaceUncut ==
  /\ stage = "sum" /\ i > Len(lens)
  /\ len > 0 /\ ActualLen(len) <= Size
  /\ ring' = Put(ring, pos, [k \in 1 .. Hdr |-> Header(len)])
  /\ LET first == IF pos + Hdr < Size THEN len ELSE 0
     IN  /\ dst' = IF first > 0 THEN pos + Hdr ELSE 0
         /\ want' = IF first > 0 THEN first ELSE len
         /\ rest' = IF first > 0 THEN len - first ELSE 0
  /\ i' = 1 /\ offset' = 0
  /\ stage' = "gather"
  /\ UNCHANGED <<lens, pos, out, len>>

\* The space from pos on is claimed, the header written there, and memcpy_v
\* called: for the whole message, or for what comes before the end of the ring,
\* which may be nothing.
Place ==
  /\ stage = "sum" /\ i > Len(lens)
  /\ len > 0 /\ ActualLen(len) <= Size
  /\ ring' = Put(ring, pos, [k \in 1 .. Hdr |-> Header(len)])
  /\ LET first == IF OnePiece(len) THEN len ELSE Before(len)
     IN  /\ dst' = IF first > 0 THEN pos + Hdr ELSE 0
         /\ want' = IF first > 0 THEN first ELSE len
         /\ rest' = IF first > 0 THEN len - first ELSE 0
  /\ i' = 1 /\ offset' = 0
  /\ stage' = "gather"
  /\ UNCHANGED <<lens, pos, out, len>>

\* The condition of the loop of memcpy_v, with the break in its body.
Looping == stage = "gather" /\ i <= Len(lens) /\ want > 0

\* Mutant: what is left of the buffer is copied, wanted or not.
TurnUncapped ==
  /\ Looping
  /\ LET n == IF lens[i] > offset THEN lens[i] - offset ELSE 0
     IN  /\ ring' = Put(ring, dst, [k \in 1 .. n |-> <<i, offset + k>>])
         /\ dst' = dst + n
         /\ want' = want - n
         /\ IF n = want THEN offset' = offset + n /\ UNCHANGED i
                        ELSE offset' = 0 /\ i' = i + 1
  /\ UNCHANGED <<lens, pos, out, stage, len, rest>>

\* A turn of it: the rest of a buffer, or as much of it as is wanted.
Turn ==
  /\ Looping
  /\ LET n == Lesser(IF lens[i] > offset THEN lens[i] - offset ELSE 0, want)
     IN  /\ ring' = Put(ring, dst, [k \in 1 .. n |-> <<i, offset + k>>])
         /\ dst' = dst + n
         /\ want' = want - n
         /\ IF n = want THEN offset' = offset + n /\ UNCHANGED i
                        ELSE offset' = 0 /\ i' = i + 1
  /\ UNCHANGED <<lens, pos, out, stage, len, rest>>

\* Mutant: the second call starts at the beginning of the buffer reached.
ReturnToBuffer ==
  /\ stage = "gather" /\ ~Looping
  /\ IF rest > 0
     THEN dst' = 0 /\ want' = rest /\ rest' = 0 /\ offset' = 0 /\ UNCHANGED stage
     ELSE stage' = "stored" /\ UNCHANGED <<dst, want, rest, offset>>
  /\ UNCHANGED <<lens, pos, ring, out, len, i>>

\* memcpy_v returns: what is left goes to the start of the ring.
Return ==
  /\ stage = "gather" /\ ~Looping
  /\ IF rest > 0
     THEN dst' = 0 /\ want' = rest /\ rest' = 0 /\ UNCHANGED stage
     ELSE stage' = "stored" /\ UNCHANGED <<dst, want, rest>>
  /\ UNCHANGED <<lens, pos, ring, out, len, i, offset>>

\* n bytes of the ring from position p on, without wrapping.
Piece(p, n) == [k \in 1 .. n |-> ring[p + k - 1]]

\* Mutant: the piece at the start of the ring is forgotten.
TakeFirstPiece ==
  /\ stage = "stored"
  /\ LET n == ring[pos][2]
     IN  out' = Piece(pos + Hdr, IF OnePiece(n) THEN n ELSE Before(n))
  /\ stage' = "taken"
  /\ UNCHANGED <<lens, pos, ring, len, i, offset, dst, want, rest>>

\* dequeue: the length is that of the header; the same two cases.
Take ==
  /\ stage = "stored"
  /\ LET n == ring[pos][2]
     IN  out' = IF OnePiece(n) THEN Piece(pos + Hdr, n)
                ELSE Piece(pos + Hdr, Before(n)) \o Piece(0, n - Before(n))
  /\ stage' = "taken"
  /\ UNCHANGED <<lens, pos, ring, len, i, offset, dst, want, rest>>

Next == Add \/ Reject \/ Place \/ Turn \/ Return \/ Take

Spec == Init /\ [][Next]_vars

-----------------------------------------------------------------------------
(* Properties *)

TypeOK ==
  /\ lens \in Lengths
  /\ pos \in 0 .. Size - 1
  /\ ring \in [0 .. Size - 1 -> Cells]
  /\ out \in Seq(Cells)
  /\ stage \in {"sum", "rejected", "gather", "stored", "taken"}
  /\ len \in 0 .. Word - 1
  /\ i \in 1 .. MaxParts + 1
  /\ offset \in 0 .. Word - 1
  /\ dst \in 0 .. Size
  /\ {want, rest} \subseteq 0 .. Limit

\* memcpy_v never writes beyond the end of m_queue, although it is not told
\* where that is.
WithinRing == stage = "gather" => dst + want <= Size

AllBytes == UNION {{j} \X (1 .. lens[j]) : j \in DOMAIN lens}

Precedes(b, c) == b[1] < c[1] \/ (b[1] = c[1] /\ b[2] < c[2])

\* The message is the buffers one after the other.
IsMessage(m) ==
  /\ {m[k] : k \in DOMAIN m} = AllBytes
  /\ \A k, l \in DOMAIN m : k < l => Precedes(m[k], m[l])

\* No copy leaves the ring, and in the end it holds a header with the length of
\* the message at pos and the message from there on around the ring, and nothing
\* else of it is touched, however the buffers, empty ones included, fall on its
\* end, and although lengths are added up in 32 bits.
StoredInPlace ==
  /\ WithinRing
  /\ stage \in {"stored", "taken"} =>
       /\ \A k \in 0 .. Hdr - 1 : ring[(pos + k) % Size] = Header(len)
       /\ IsMessage([k \in 1 .. len |-> ring[(pos + Hdr + k - 1) % Size]])
       /\ \A k \in Hdr + len .. Size - 1 : ring[(pos + k) % Size] = Unused

\* What dequeue hands out is the message.
TakenWhole == stage = "taken" => IsMessage(out)

=============================================================================
