------------------------------- MODULE QueueT -------------------------------
(***************************************************************************)
(* queue_t (redis-pool/src/queue.cpp): a bounded ring buffer that any      *)
(* number of threads fill with enqueue() and drain with dequeue(), without *)
(* a lock.  Four counters, never reduced modulo the size, split the ring:  *)
(*                                                                         *)
(*    m_dequeue_pos <= m_pre_dequeue_pos <= m_enqueue_pos                  *)
(*                                       <= m_pre_enqueue_pos              *)
(*                                                                         *)
(* A producer claims space by advancing m_pre_enqueue_pos with a           *)
(* compare-and-swap, copies its message in, and publishes it by advancing  *)
(* m_enqueue_pos, waiting until every earlier claim is published.  A       *)
(* consumer reads the header at m_pre_dequeue_pos BEFORE it owns the       *)
(* message, claims it with a compare-and-swap, copies it out, and gives    *)
(* the space back by advancing m_dequeue_pos, again in claim order.        *)
(*                                                                         *)
(* The unit of space is the cell, sizeof(header_t) = 8 bytes: a message of *)
(* len bytes takes ROUND_UP(len, 8) + 8 bytes, so header and message start *)
(* on a cell.  One action is one access to shared memory.  The volatile    *)
(* loads are in program order and __sync_bool_compare_and_swap is a full   *)
(* barrier, so interleaving the accesses is exact for the x86 the code is  *)
(* written for (it executes "pause").                                      *)
(***************************************************************************)
EXTENDS Integers, Sequences

CONSTANTS
  Producers,  \* threads that call enqueue
  Consumers,  \* threads that call dequeue
  Size,       \* m_queue_size, in cells
  MaxLen,     \* longest message enqueue accepts, in cells (1 GB in the code)
  Lens,       \* message lengths the callers use, in cells
  Caps,       \* sizes of the buffers the callers pass to dequeue, in cells
  MaxCalls    \* bound on the calls of enqueue in a behaviour

ASSUME QueueAssumption ==
  /\ Size \in Nat \ {0}
  /\ MaxLen \in Nat
  /\ Lens \subseteq Nat
  /\ Caps \subseteq Nat
  /\ MaxCalls \in Nat

VARIABLES
  mem,      \* m_queue: a cell holds [k |-> 0, w |-> len], a header, or
            \* [k |-> i, w |-> id], the i-th cell of the message id
  enq,      \* m_enqueue_pos
  pre_enq,  \* m_pre_enqueue_pos
  deq,      \* m_dequeue_pos
  pre_deq,  \* m_pre_dequeue_pos
  calls,    \* calls of enqueue so far; it also names the messages
  ppc,      \* where each producer is in enqueue
  len,      \* len, in cells
  id,       \* the message the producer is sending
  epos,     \* enqueue_pos, as read from m_pre_enqueue_pos
  off,      \* cells of the message already written, the header included
  cpc,      \* where each consumer is in dequeue
  cap,      \* *len on entry: the capacity of the caller's buffer
  dpos,     \* dequeue_pos, as read from m_pre_dequeue_pos
  hlen,     \* hdr.len, as read from the header at dequeue_pos
  buf,      \* what has been copied to data
  claims    \* history: the messages whose space is in use, where they lie

pvars == <<ppc, len, id, epos, off>>
cvars == <<cpc, cap, dpos, hlen, buf>>
counters == <<enq, pre_enq, deq, pre_deq>>
vars == <<mem, counters, calls, pvars, cvars, claims>>

-----------------------------------------------------------------------------

\* ACTUAL_POS: pos & (size - 1), which is pos modulo a power of two.
Slot(pos) == pos % Size

\* actual_len: the header and the payload rounded up to whole cells.
Need(n) == n + 1

\* The content of the k-th cell of a message: header first, then payload.
Cell(n, i, k) == [k |-> k, w |-> IF k = 0 THEN n ELSE i]

\* malloc leaves the ring uninitialised; no header there is ever used.
Junk == [k |-> 1, w |-> 0]

\* hdr.len when the 8 bytes in a cell are taken for a header: payload bytes
\* may read as any length.
HeaderIn(cell) == IF cell.k = 0 THEN {cell.w} ELSE Lens \cup {0}

Init ==
  /\ mem = [s \in 0 .. Size - 1 |-> Junk]
  /\ enq = 0 /\ pre_enq = 0 /\ deq = 0 /\ pre_deq = 0
  /\ calls = 0
  /\ ppc = [p \in Producers |-> "idle"]
  /\ len = [p \in Producers |-> 0]
  /\ id = [p \in Producers |-> 0]
  /\ epos = [p \in Producers |-> 0]
  /\ off = [p \in Producers |-> 0]
  /\ cpc = [c \in Consumers |-> "idle"]
  /\ cap = [c \in Consumers |-> 0]
  /\ dpos = [c \in Consumers |-> 0]
  /\ hlen = [c \in Consumers |-> 0]
  /\ buf = [c \in Consumers |-> << >>]
  /\ claims = {}

-----------------------------------------------------------------------------
(* enqueue *)

\* A call with an empty or an oversized message returns -2 at once.
RejectEnqueue(p, n) ==
  /\ ppc[p] = "idle" /\ calls < MaxCalls
  /\ n = 0 \/ n > MaxLen
  /\ calls' = calls + 1
  /\ UNCHANGED <<mem, counters, pvars, cvars, claims>>

\* Mutant: no upper limit on the message length.
BeginEnqueueAnyLength(p, n) ==
  /\ ppc[p] = "idle" /\ calls < MaxCalls
  /\ n # 0
  /\ calls' = calls + 1
  /\ len' = [len EXCEPT ![p] = n]
  /\ id' = [id EXCEPT ![p] = calls + 1]
  /\ ppc' = [ppc EXCEPT ![p] = "readPre"]
  /\ UNCHANGED <<mem, counters, epos, off, cvars, claims>>

BeginEnqueue(p, n) ==
  /\ ppc[p] = "idle" /\ calls < MaxCalls
  /\ n # 0 /\ n <= MaxLen
  /\ calls' = calls + 1
  /\ len' = [len EXCEPT ![p] = n]
  /\ id' = [id EXCEPT ![p] = calls + 1]
  /\ ppc' = [ppc EXCEPT ![p] = "readPre"]
  /\ UNCHANGED <<mem, counters, epos, off, cvars, claims>>

ReadPreEnq(p) ==
  /\ ppc[p] = "readPre"
  /\ epos' = [epos EXCEPT ![p] = pre_enq]
  /\ ppc' = [ppc EXCEPT ![p] = "readDeq"]
  /\ UNCHANGED <<mem, counters, calls, len, id, off, cvars, claims>>

\* Mutants: the room forgets the header; one cell always stays free.
RoomForPayload(p) == Size - (epos[p] - deq) + 1
RoomLessOne(p) == Size - 1 - (epos[p] - deq)

\* The room a producer computes.  The code's m_queue_size - (enqueue_pos -
\* dequeue_pos) is unsigned 64-bit; when dequeue_pos has overtaken the stale
\* enqueue_pos both subtractions wrap, and the result is this one.
Room(p) == Size - (epos[p] - deq)

\* Read m_dequeue_pos; return -1 when the message does not fit.
ReadDeq(p) ==
  /\ ppc[p] = "readDeq"
  /\ ppc' = [ppc EXCEPT ![p] = IF Need(len[p]) > Room(p) THEN "idle" ELSE "cas"]
  /\ UNCHANGED <<mem, counters, calls, len, id, epos, off, cvars, claims>>

ClaimOf(p) == [pos |-> epos[p], len |-> len[p], id |-> id[p]]

\* Mutant: the counter is stored without comparing it first.
StorePreEnq(p) ==
  /\ ppc[p] = "cas"
  /\ pre_enq' = epos[p] + Need(len[p])
  /\ claims' = claims \cup {ClaimOf(p)}
  /\ off' = [off EXCEPT ![p] = 0]
  /\ ppc' = [ppc EXCEPT ![p] = "write"]
  /\ UNCHANGED <<mem, enq, deq, pre_deq, calls, len, id, epos, cvars>>

\* Mutant: a failed compare-and-swap is tried again with the old value.
CasPreEnqNoReload(p) ==
  /\ ppc[p] = "cas"
  /\ \/ /\ pre_enq = epos[p]
        /\ pre_enq' = pre_enq + Need(len[p])
        /\ claims' = claims \cup {ClaimOf(p)}
        /\ off' = [off EXCEPT ![p] = 0]
        /\ ppc' = [ppc EXCEPT ![p] = "write"]
     \/ /\ pre_enq # epos[p]
        /\ ppc' = [ppc EXCEPT ![p] = "readDeq"]
        /\ UNCHANGED <<pre_enq, claims, off>>
  /\ UNCHANGED <<mem, enq, deq, pre_deq, calls, len, id, epos, cvars>>

\* Claim the space, or start over if another producer moved the counter.
CasPreEnq(p) ==
  /\ ppc[p] = "cas"
  /\ \/ /\ pre_enq = epos[p]
        /\ pre_enq' = pre_enq + Need(len[p])
        /\ claims' = claims \cup {ClaimOf(p)}
        /\ off' = [off EXCEPT ![p] = 0]
        /\ ppc' = [ppc EXCEPT ![p] = "write"]
     \/ /\ pre_enq # epos[p]
        /\ ppc' = [ppc EXCEPT ![p] = "readPre"]
        /\ UNCHANGED <<pre_enq, claims, off>>
  /\ UNCHANGED <<mem, enq, deq, pre_deq, calls, len, id, epos, cvars>>

\* Copy the header and the payload in, one cell at a time, wrapping at the
\* end of the ring (GatherCopy checks the two branches of this copy).
WriteCell(p) ==
  /\ ppc[p] = "write"
  /\ mem' = [mem EXCEPT ![Slot(epos[p] + off[p])] = Cell(len[p], id[p], off[p])]
  /\ off' = [off EXCEPT ![p] = off[p] + 1]
  /\ ppc' = [ppc EXCEPT ![p] = IF off[p] = len[p] THEN "publish" ELSE "write"]
  /\ UNCHANGED <<counters, calls, len, id, epos, cvars, claims>>

\* Mutant: a message is published without waiting for the earlier ones.
PublishAtOnce(p) ==
  /\ ppc[p] = "publish"
  /\ enq' = epos[p] + Need(len[p])
  /\ ppc' = [ppc EXCEPT ![p] = "idle"]
  /\ UNCHANGED <<mem, pre_enq, deq, pre_deq, calls, len, id, epos, off, cvars, claims>>

\* Spin until every earlier claim is published, publish and return 0.  The
\* callback m_on_enqueued comes after; the only caller passes NULL.
Publish(p) ==
  /\ ppc[p] = "publish"
  /\ enq = epos[p]
  /\ enq' = epos[p] + Need(len[p])
  /\ ppc' = [ppc EXCEPT ![p] = "idle"]
  /\ UNCHANGED <<mem, pre_enq, deq, pre_deq, calls, len, id, epos, off, cvars, claims>>

-----------------------------------------------------------------------------
(* dequeue *)

BeginDequeue(c, n) ==
  /\ cpc[c] = "idle"
  /\ cap' = [cap EXCEPT ![c] = n]
  /\ cpc' = [cpc EXCEPT ![c] = "readPre"]
  /\ UNCHANGED <<mem, counters, calls, pvars, dpos, hlen, buf, claims>>

ReadPreDeq(c) ==
  /\ cpc[c] = "readPre"
  /\ dpos' = [dpos EXCEPT ![c] = pre_deq]
  /\ cpc' = [cpc EXCEPT ![c] = "readEnq"]
  /\ UNCHANGED <<mem, counters, calls, pvars, cap, hlen, buf, claims>>

\* Mutants: the end is taken from the claimed, not the published messages;
\* positions are compared after the mask, where a full ring looks empty.
ReadEnqClaimed(c) ==
  /\ cpc[c] = "readEnq"
  /\ cpc' = [cpc EXCEPT ![c] = IF dpos[c] = pre_enq THEN "idle" ELSE "readHdr"]
  /\ UNCHANGED <<mem, counters, calls, pvars, cap, dpos, hlen, buf, claims>>

ReadEnqMasked(c) ==
  /\ cpc[c] = "readEnq"
  /\ cpc' = [cpc EXCEPT ![c] = IF Slot(dpos[c]) = Slot(enq) THEN "idle" ELSE "readHdr"]
  /\ UNCHANGED <<mem, counters, calls, pvars, cap, dpos, hlen, buf, claims>>

\* Read m_enqueue_pos; return -1 when there is nothing to take.
ReadEnq(c) ==
  /\ cpc[c] = "readEnq"
  /\ cpc' = [cpc EXCEPT ![c] = IF dpos[c] = enq THEN "idle" ELSE "readHdr"]
  /\ UNCHANGED <<mem, counters, calls, pvars, cap, dpos, hlen, buf, claims>>

\* Read the header of a message not owned yet: another consumer may have
\* taken it and a producer written over it, so the cell may hold anything.
ReadHdr(c) ==
  /\ cpc[c] = "readHdr"
  /\ \E n \in HeaderIn(mem[Slot(dpos[c])]) : hlen' = [hlen EXCEPT ![c] = n]
  /\ cpc' = [cpc EXCEPT ![c] = "cas"]
  /\ UNCHANGED <<mem, counters, calls, pvars, cap, dpos, buf, claims>>

\* Mutant: dequeue returns at once when malloc fails.
CasPreDeqLeak(c) ==
  /\ cpc[c] = "cas"
  /\ \/ /\ pre_deq = dpos[c]
        /\ pre_deq' = pre_deq + Need(hlen[c])
        /\ buf' = [buf EXCEPT ![c] = << >>]
        /\ \/ cpc' = [cpc EXCEPT ![c] = "copy"]
           \/ /\ cap[c] < hlen[c]
              /\ cpc' = [cpc EXCEPT ![c] = "idle"]
     \/ /\ pre_deq # dpos[c]
        /\ cpc' = [cpc EXCEPT ![c] = "readPre"]
        /\ UNCHANGED <<pre_deq, buf>>
  /\ UNCHANGED <<mem, enq, pre_enq, deq, calls, pvars, cap, dpos, hlen, claims>>

\* Mutant: a failed compare-and-swap is tried again with the old value.
CasPreDeqNoReload(c) ==
  /\ cpc[c] = "cas"
  /\ \/ /\ pre_deq = dpos[c]
        /\ pre_deq' = pre_deq + Need(hlen[c])
        /\ buf' = [buf EXCEPT ![c] = << >>]
        /\ \/ cpc' = [cpc EXCEPT ![c] = "copy"]
           \/ /\ cap[c] < hlen[c]
              /\ cpc' = [cpc EXCEPT ![c] = "drop"]
     \/ /\ pre_deq # dpos[c]
        /\ cpc' = [cpc EXCEPT ![c] = "readEnq"]
        /\ UNCHANGED <<pre_deq, buf>>
  /\ UNCHANGED <<mem, enq, pre_enq, deq, calls, pvars, cap, dpos, hlen, claims>>

\* Claim the message, or start over.  A message longer than the caller's
\* buffer goes to a malloc'ed one; if malloc fails it is lost ("drop"),
\* since the claim can't be rolled back.
CasPreDeq(c) ==
  /\ cpc[c] = "cas"
  /\ \/ /\ pre_deq = dpos[c]
        /\ pre_deq' = pre_deq + Need(hlen[c])
        /\ buf' = [buf EXCEPT ![c] = << >>]
        /\ \/ cpc' = [cpc EXCEPT ![c] = "copy"]
           \/ /\ cap[c] < hlen[c]
              /\ cpc' = [cpc EXCEPT ![c] = "drop"]
     \/ /\ pre_deq # dpos[c]
        /\ cpc' = [cpc EXCEPT ![c] = "readPre"]
        /\ UNCHANGED <<pre_deq, buf>>
  /\ UNCHANGED <<mem, enq, pre_enq, deq, calls, pvars, cap, dpos, hlen, claims>>

\* Copy the payload out, one cell at a time.
CopyCell(c) ==
  /\ cpc[c] = "copy" /\ Len(buf[c]) < hlen[c]
  /\ buf' = [buf EXCEPT ![c] = Append(buf[c], mem[Slot(dpos[c] + 1 + Len(buf[c]))])]
  /\ UNCHANGED <<mem, counters, calls, pvars, cpc, cap, dpos, hlen, claims>>

\* The consumer is done with the ring: the copy is complete or the message
\* is dropped.
Copied(c) ==
  \/ cpc[c] = "drop"
  \/ cpc[c] = "copy" /\ Len(buf[c]) = hlen[c]

\* Mutant: space is released without waiting for the earlier messages.
ReleaseAtOnce(c) ==
  /\ Copied(c)
  /\ deq' = dpos[c] + Need(hlen[c])
  /\ cpc' = [cpc EXCEPT ![c] = "idle"]
  /\ claims' = {r \in claims : r.pos # dpos[c]}
  /\ UNCHANGED <<mem, enq, pre_enq, pre_deq, calls, pvars, cap, dpos, hlen, buf>>

\* Spin until every earlier message is released, release this one's space,
\* and return 0, or -2 for a dropped message.
Release(c) ==
  /\ Copied(c)
  /\ deq = dpos[c]
  /\ deq' = dpos[c] + Need(hlen[c])
  /\ cpc' = [cpc EXCEPT ![c] = "idle"]
  /\ claims' = {r \in claims : r.pos # dpos[c]}
  /\ UNCHANGED <<mem, enq, pre_enq, pre_deq, calls, pvars, cap, dpos, hlen, buf>>

-----------------------------------------------------------------------------

EnqueueStep(p) ==
  \/ ReadPreEnq(p) \/ ReadDeq(p) \/ CasPreEnq(p) \/ WriteCell(p) \/ Publish(p)

DequeueStep(c) ==
  \/ ReadPreDeq(c) \/ ReadEnq(c) \/ ReadHdr(c) \/ CasPreDeq(c) \/ CopyCell(c)
  \/ Release(c)

Next ==
  \/ \E p \in Producers :
       \/ \E n \in Lens : RejectEnqueue(p, n) \/ BeginEnqueue(p, n)
       \/ EnqueueStep(p)
  \/ \E c \in Consumers :
       \/ \E n \in Caps : BeginDequeue(c, n)
       \/ DequeueStep(c)

Spec == Init /\ [][Next]_vars

\* Every thread inside a call keeps being scheduled (the waits yield the
\* processor); nobody is obliged to make a call.
Fairness ==
  /\ \A p \in Producers : WF_vars(EnqueueStep(p))
  /\ \A c \in Consumers : WF_vars(DequeueStep(c))

FairSpec == Spec /\ Fairness

-----------------------------------------------------------------------------
(* What must hold *)

Cells == [k : Nat, w : Nat]

Claims == [pos : Nat, len : Nat, id : Nat]

\* Every variable has its type.
TypeOK ==
  /\ mem \in [0 .. Size - 1 -> Cells]
  /\ enq \in Nat /\ pre_enq \in Nat /\ deq \in Nat /\ pre_deq \in Nat
  /\ calls \in 0 .. MaxCalls
  /\ ppc \in [Producers -> {"idle", "readPre", "readDeq", "cas", "write", "publish"}]
  /\ len \in [Producers -> 0 .. MaxLen]
  /\ id \in [Producers -> Nat]
  /\ epos \in [Producers -> Nat]
  /\ off \in [Producers -> Nat]
  /\ cpc \in [Consumers -> {"idle", "readPre", "readEnq", "readHdr", "cas", "copy", "drop"}]
  /\ cap \in [Consumers -> Nat]
  /\ dpos \in [Consumers -> Nat]
  /\ hlen \in [Consumers -> Nat]
  /\ buf \in [Consumers -> Seq(Cells)]
  /\ claims \in SUBSET Claims

Writing(p) == ppc[p] \in {"write", "publish"}
Reading(c) == cpc[c] \in {"copy", "drop"}

End(r) == r.pos + Need(r.len)

\* The ring never holds more than it has room for and the counters keep
\* their order, although each is moved by a different thread that checked
\* the others at an earlier time.
WindowOrder ==
  /\ deq <= pre_deq /\ pre_deq <= enq /\ enq <= pre_enq
  /\ pre_enq - deq <= Size

\* The cells a thread inside the copy of a message may touch.
WriteSlots(p) == {Slot(epos[p] + k) : k \in 0 .. len[p]}
ReadSlots(c) == {Slot(dpos[c] + k) : k \in 0 .. hlen[c]}

\* No two producers ever copy into the same cell, nor a producer into a
\* cell some consumer is still copying out: the copies run outside any lock.
NoOverlap ==
  \A p \in Producers : Writing(p) =>
    /\ \A q \in Producers \ {p} : Writing(q) => WriteSlots(p) \cap WriteSlots(q) = {}
    /\ \A c \in Consumers : Reading(c) => WriteSlots(p) \cap ReadSlots(c) = {}

\* A header read before the message was owned is only trusted when the
\* compare-and-swap succeeds: whenever it can succeed, the header is that of
\* the message at this position, however many laps the ring made meanwhile.
HeaderFresh ==
  \A c \in Consumers :
    cpc[c] = "cas" /\ pre_deq = dpos[c] =>
      \E r \in claims : r.pos = dpos[c] /\ r.len = hlen[c] /\ End(r) <= enq

\* What dequeue returns is exactly one enqueued message, complete and not
\* torn by a later one.
IntactDelivery ==
  \A c \in Consumers :
    Reading(c) =>
      \E r \in claims :
        /\ r.pos = dpos[c] /\ r.len = hlen[c]
        /\ \A k \in 1 .. Len(buf[c]) : buf[c][k] = Cell(r.len, r.id, k)

\* Every message in the ring is either published and untaken, or in the
\* hands of exactly one thread that will move it on.  An orphan would block
\* everyone behind it, since publishing and releasing are in order.
NoOrphan ==
  \A r \in claims :
    /\ r.pos >= enq =>
         \E p \in Producers :
           /\ Writing(p) /\ ClaimOf(p) = r
           /\ \A q \in Producers \ {p} : Writing(q) => epos[q] # r.pos
    /\ r.pos < pre_deq =>
         \E c \in Consumers :
           /\ Reading(c) /\ dpos[c] = r.pos
           /\ \A d \in Consumers \ {c} : Reading(d) => dpos[d] # r.pos

\* "Full" is never a mistake of a stale enqueue_pos: when enqueue gives up,
\* the message really does not fit in the ring at that moment.
FullIsReal ==
  [][\A p \in Producers :
       ppc[p] = "readDeq" /\ ppc'[p] = "idle" => Need(len[p]) > Size - (pre_enq - deq)]_vars

\* "Empty" is never a mistake either: when dequeue gives up, no published
\* message is untaken at that moment.
EmptyIsReal ==
  [][\A c \in Consumers :
       cpc[c] = "readEnq" /\ cpc'[c] = "idle" => pre_deq = enq]_vars

-----------------------------------------------------------------------------
(* Why it holds: the inductive invariant *)

\* A position where a claim starts, or where the next one will.
Boundary(x) == x = pre_enq \/ \E r \in claims : r.pos = x

\* The claims tile the window from m_dequeue_pos to m_pre_enqueue_pos, and
\* every counter stands between two of them.
Tiling ==
  /\ \A r \in claims : deq <= r.pos /\ End(r) <= pre_enq /\ Boundary(End(r))
  /\ \A r, s \in claims : r = s \/ End(r) <= s.pos \/ End(s) <= r.pos
  /\ Boundary(deq) /\ Boundary(pre_deq) /\ Boundary(enq)

\* What a producer read is old but not wrong: the counter it compares with
\* only grew, and the room it saw can only have become more.
RoomKept ==
  \A p \in Producers :
    /\ ppc[p] \in {"readDeq", "cas"} => epos[p] <= pre_enq
    /\ ppc[p] = "cas" => epos[p] + Need(len[p]) - deq <= Size

\* A producer past the compare-and-swap owns its claim, and has written the
\* first off cells of it.
WriterOwns(p) ==
  /\ ClaimOf(p) \in claims /\ enq <= epos[p]
  /\ ppc[p] = "write" => off[p] <= len[p]
  /\ ppc[p] = "publish" => off[p] = Need(len[p])
  /\ \A k \in 0 .. off[p] - 1 : mem[Slot(epos[p] + k)] = Cell(len[p], id[p], k)
  /\ \A q \in Producers : Writing(q) /\ epos[q] = epos[p] => q = p

WritersOwn == \A p \in Producers : Writing(p) => WriterOwns(p)

\* A published message stays in the ring as it was written.
ContentKept ==
  \A r \in claims : r.pos < enq =>
    \A k \in 0 .. r.len : mem[Slot(r.pos + k)] = Cell(r.len, r.id, k)

\* Before the compare-and-swap a consumer holds a position that was once
\* the next to take, and it saw a message there.
PositionOnceNext ==
  \A c \in Consumers :
    /\ cpc[c] \in {"readEnq", "readHdr", "cas"} => dpos[c] <= pre_deq
    /\ cpc[c] \in {"readHdr", "cas"} => dpos[c] < enq

\* After it, the consumer owns the claim at that position alone.
ReaderOwns(c) ==
  /\ \E r \in claims : r.pos = dpos[c] /\ r.len = hlen[c] /\ End(r) <= pre_deq
  /\ Len(buf[c]) <= hlen[c]
  /\ \A d \in Consumers : Reading(d) /\ dpos[d] = dpos[c] => d = c

ReadersOwn == \A c \in Consumers : Reading(c) => ReaderOwns(c)

IInv ==
  /\ TypeOK /\ WindowOrder /\ Tiling /\ RoomKept /\ WritersOwn /\ ContentKept
  /\ PositionOnceNext /\ ReadersOwn /\ HeaderFresh /\ IntactDelivery /\ NoOrphan

-----------------------------------------------------------------------------
(* What must happen *)

\* Nobody waits for ever on the threads ahead of it: a claimed message is
\* published, and a taken one gives its space back.
EnqueueReturns == \A p \in Producers : ppc[p] # "idle" ~> ppc[p] = "idle"
DequeueReturns == \A c \in Consumers : cpc[c] # "idle" ~> cpc[c] = "idle"

=============================================================================
