------------------------------ MODULE Channel -------------------------------
(***************************************************************************)
(* What queue_t promises to the threads that share it: a bounded first-in  *)
(* first-out channel.  A message passes three stages, each in the order in *)
(* which the messages got their place: it is being put in, it is ready, it *)
(* is being taken out.  A place is given only while the messages inside    *)
(* and their headers fit in the capacity, and no message is lost, repeated *)
(* or overtaken on the way.                                                *)
(***************************************************************************)
EXTENDS Integers, Sequences

CONSTANTS Messages,  \* records with a field len
          Capacity

VARIABLES putting, ready, taking

chan == <<putting, ready, taking>>

Inside == taking \o ready \o putting

\* The room of the first i messages inside.  Every message takes one more
\* cell, for its header.
room[i \in 0 .. Len(Inside)] ==
  IF i = 0 THEN 0 ELSE room[i - 1] + Inside[i].len + 1

Used == room[Len(Inside)]

Init == putting = << >> /\ ready = << >> /\ taking = << >>

Reserve(m) ==
  /\ Used + m.len + 1 <= Capacity
  /\ putting' = Append(putting, m)
  /\ UNCHANGED <<ready, taking>>

Put ==
  /\ putting # << >>
  /\ ready' = Append(ready, Head(putting))
  /\ putting' = Tail(putting)
  /\ UNCHANGED taking

Take ==
  /\ ready # << >>
  /\ taking' = Append(taking, Head(ready))
  /\ ready' = Tail(ready)
  /\ UNCHANGED putting

Free ==
  /\ taking # << >>
  /\ taking' = Tail(taking)
  /\ UNCHANGED <<putting, ready>>

Next == (\E m \in Messages : Reserve(m)) \/ Put \/ Take \/ Free

Spec == Init /\ [][Next]_chan

\* A message with a place becomes ready, and one being taken gets out.
FairSpec == Spec /\ WF_chan(Put) /\ WF_chan(Free)

=============================================================================
