--------------------------- MODULE QueueTChannel ----------------------------
(***************************************************************************)
(* queue_t implements the channel: its claims, in the order of their       *)
(* positions and cut at m_enqueue_pos and m_pre_dequeue_pos, are the three *)
(* stages of the channel.                                                  *)
(***************************************************************************)
EXTENDS QueueT, FiniteSets

\* The claim of S that i others of S precede.
Nth(S, i) == CHOOSE r \in S : Cardinality({s \in S : s.pos < r.pos}) = i

\* What a claim carries.
Message(r) == [len |-> r.len, id |-> r.id]

\* The messages of some claims, in the order of their positions.
InOrder(S) == [i \in 1 .. Cardinality(S) |-> Message(Nth(S, i - 1))]

\* Claims a producer holds, published messages nobody took, and claims a
\* consumer holds.
Putting == InOrder({r \in claims : r.pos >= enq})
Ready   == InOrder({r \in claims : r.pos >= pre_deq /\ r.pos < enq})
Taking  == InOrder({r \in claims : r.pos < pre_deq})

Chan == INSTANCE Channel WITH
  Messages <- [len : Lens, id : 1 .. MaxCalls],
  Capacity <- Size,
  putting  <- Putting,
  ready    <- Ready,
  taking   <- Taking

\* Every step of the ring is one step of the channel or none: messages come
\* out in the order their producers got their places, each of them once.
ImplementsChannel == Chan!Spec

\* Under the same fair scheduling the ring also gives the channel's promise
\* of progress.
ImplementsFairChannel == Chan!FairSpec

=============================================================================
