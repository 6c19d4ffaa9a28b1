---------------------------- MODULE DbInitProofs ----------------------------
(***************************************************************************)
(* Proofs about the hash ring and the way DbInit fills it, for any number  *)
(* of servers and vnodes and any hash function.                            *)
(***************************************************************************)
EXTENDS DbInit, WellFoundedInduction, TLAPS

LEMMA LeastIsLeast ==
  ASSUME NEW S, S \subseteq Nat, S # {}
  PROVE  Least(S) \in S /\ \A y \in S : Least(S) <= y
<1> DEFINE R == OpToRel(<, Nat)
<1>1. PICK x \in S : \A y \in S : ~(<<y, x>> \in R)
  BY NatLessThanWellFounded, WFMin
<1>3. ASSUME NEW y \in S, y < x PROVE FALSE
  <2>1. <<y, x>> \in Nat \X Nat /\ <<y, x>>[1] < <<y, x>>[2]
    BY <1>3
  <2>2. <<y, x>> \in R
    BY <2>1, Zenon DEF OpToRel
  <2> QED BY <1>1, <2>2
<1>2. \A y \in S : x <= y
  BY <1>3
<1> QED BY <1>2 DEF Least

LEMMA LeastIsUnique ==
  ASSUME NEW S, S \subseteq Nat, NEW x \in S, \A y \in S : x <= y
  PROVE  Least(S) = x
<1>1. Least(S) \in S /\ Least(S) <= x
  BY LeastIsLeast
<1>2. x <= Least(S) /\ Least(S) \in Nat /\ x \in Nat
  BY <1>1
<1> QED BY <1>1, <1>2

\* The next position clockwise is on the ring.
LEMMA ClockwiseOnRing ==
  ASSUME NEW ring1, DOMAIN ring1 \subseteq Nat, DOMAIN ring1 # {}, NEW h \in Nat
  PROVE  Clockwise(ring1, h) \in DOMAIN ring1
<1> DEFINE ahead == {x \in DOMAIN ring1 : x >= h}
           S == IF ahead # {} THEN ahead ELSE DOMAIN ring1
<1>1. S \subseteq DOMAIN ring1 /\ S \subseteq Nat /\ S # {}
  OBVIOUS
<1>2. Least(S) \in S
  BY <1>1, LeastIsLeast
<1> QED BY <1>1, <1>2 DEF Clockwise

\* Minimal disruption: putting a server on the ring gives a key to the new
\* server or leaves it where it was.
THEOREM MinimalDisruption ==
  ASSUME NEW ring1, DOMAIN ring1 \subseteq Nat, DOMAIN ring1 # {},
         NEW points, points \subseteq Nat, NEW server, NEW h \in Nat
  PROVE  GetNode(PutNode(ring1, points, server), h) \in {GetNode(ring1, h), server}
<1> DEFINE ring2 == PutNode(ring1, points, server)
           D1 == DOMAIN ring1
           D2 == DOMAIN ring2
           ahead1 == {x \in D1 : x >= h}
           ahead2 == {x \in D2 : x >= h}
           home == Clockwise(ring2, h)
<1>1. /\ D2 = D1 \cup points /\ D2 \subseteq Nat /\ D2 # {}
      /\ \A x \in D1 : ring2[x] = ring1[x]
      /\ \A x \in D2 \ D1 : ring2[x] = server
  BY DEF PutNode
<1>2. home \in D2
  BY <1>1, ClockwiseOnRing
<1>3. CASE home \notin D1
  BY <1>1, <1>2, <1>3 DEF GetNode
<1>4. CASE home \in D1
  <2>1. CASE ahead2 # {}
    <3>1. home = Least(ahead2)
      BY <2>1 DEF Clockwise
    <3>2. home \in ahead2 /\ \A y \in ahead2 : home <= y
      BY <1>1, <2>1, <3>1, LeastIsLeast
    <3>3. home \in ahead1 /\ \A y \in ahead1 : home <= y
      BY <1>1, <1>4, <3>2
    <3>4. Least(ahead1) = home
      BY <3>3, LeastIsUnique
    <3>5. Clockwise(ring1, h) = home
      BY <3>3, <3>4 DEF Clockwise
    <3> QED BY <1>1, <1>4, <3>5 DEF GetNode
  <2>2. CASE ahead2 = {}
    <3>1. home = Least(D2) /\ ahead1 = {}
      BY <1>1, <2>2 DEF Clockwise
    <3>2. \A y \in D2 : home <= y
      BY <1>1, <3>1, LeastIsLeast
    <3>3. Least(D1) = home
      BY <1>1, <1>4, <3>2, LeastIsUnique
    <3>4. Clockwise(ring1, h) = home
      BY <3>1, <3>3 DEF Clockwise
    <3> QED BY <1>1, <1>4, <3>4 DEF GetNode
  <2> QED BY <2>1, <2>2
<1> QED BY <1>3, <1>4

-----------------------------------------------------------------------------

\* Adding the next of the Hosts, with or without connecting to it.
Added(b) ==
  /\ b \in Pools /\ stage[b] = "adding"
  /\ ring' = [ring EXCEPT ![b] = PutNode(ring[b], Points(Hosts[next[b] + 1]), Hosts[next[b] + 1])]
  /\ next' = [next EXCEPT ![b] = next[b] + 1]
  /\ \E st \in {"adding", "ok", "failed"} :
       /\ stage' = [stage EXCEPT ![b] = st]
       /\ st = "ok" => next[b] + 1 = Len(Hosts)
       /\ st = "adding" => next[b] + 1 # Len(Hosts)
  /\ UNCHANGED hash

LEMMA StepKinds ==
  ASSUME Next
  PROVE  \E b \in Pools :
           \/ Added(b)
           \/ /\ stage[b] = "new"
              /\ \E st \in {"adding", "failed"} : stage' = [stage EXCEPT ![b] = st]
              /\ UNCHANGED <<hash, ring, next>>
<1>1. PICK b \in Pools : ParseFails(b) \/ Parse(b) \/ Add(b) \/ AddUnconnected(b)
  BY DEF Next
<1>2. CASE ParseFails(b) \/ Parse(b)
  BY <1>2 DEF ParseFails, Parse
<1>3. CASE Add(b)
  BY <1>3 DEF Add, Added
<1>4. CASE AddUnconnected(b)
  BY <1>4 DEF AddUnconnected, Added
<1> QED BY <1>1, <1>2, <1>3, <1>4

LEMMA HostsFacts ==
  /\ Len(Hosts) \in Nat /\ Len(Hosts) > 0
  /\ \A i \in 1 .. Len(Hosts) : Hosts[i] \in Servers
BY InitAssumption

LEMMA PointsInSpace ==
  ASSUME TypeOK, NEW s \in Servers
  PROVE  Points(s) \subseteq 0 .. Space - 1 /\ Points(s) # {}
<1>1. hash[s] \in [VNodes -> 0 .. Space - 1]
  BY DEF TypeOK
<1> QED BY <1>1, InitAssumption DEF Points

\* The inductive invariant.
Inv == TypeOK /\ FirstCome /\ \A b \in Pools : stage[b] = "new" => next[b] = 0

LEMMA InitInv == Init => Inv
BY HostsFacts DEF Init, Inv, TypeOK, FirstCome, Pools

LEMMA AddedKeeps ==
  ASSUME Inv, NEW b \in Pools, Added(b)
  PROVE  Inv'
<1> DEFINE n == next[b]
           s == Hosts[n + 1]
<1>1. TypeOK /\ FirstCome
  BY DEF Inv
<1>2. /\ n \in Nat /\ n < Len(Hosts) /\ n + 1 \in 1 .. Len(Hosts) /\ s \in Servers
  BY <1>1, HostsFacts DEF Added, FirstCome, TypeOK
<1>3. /\ next' = [next EXCEPT ![b] = n + 1] /\ hash' = hash
      /\ next'[b] = n + 1
      /\ \A d \in Pools \ {b} : ring'[d] = ring[d] /\ next'[d] = next[d] /\ stage'[d] = stage[d]
      /\ ring'[b] = PutNode(ring[b], Points(s), s)
      /\ DOMAIN ring' = Pools
  BY <1>1 DEF Added, TypeOK
<1>4. PICK st \in {"adding", "ok", "failed"} :
        /\ stage' = [stage EXCEPT ![b] = st]
        /\ st = "ok" => n + 1 = Len(Hosts)
        /\ st = "adding" => n + 1 # Len(Hosts)
  BY DEF Added
<1>5. Points(s) \subseteq 0 .. Space - 1
  BY <1>1, <1>2, PointsInSpace
<1>6. /\ DOMAIN ring'[b] = DOMAIN ring[b] \cup Points(s)
      /\ \A x \in DOMAIN ring[b] : ring'[b][x] = ring[b][x]
      /\ \A x \in Points(s) \ DOMAIN ring[b] : ring'[b][x] = s
  BY <1>3 DEF PutNode
<1>7. TypeOK'
  <2>1. ASSUME NEW d \in Pools
        PROVE  /\ DOMAIN ring'[d] \subseteq 0 .. Space - 1
               /\ \A x \in DOMAIN ring'[d] : ring'[d][x] \in Servers
    <3>1. CASE d = b
      BY <1>1, <1>2, <1>5, <1>6, <3>1 DEF TypeOK
    <3>2. CASE d # b
      BY <1>1, <1>3, <3>2 DEF TypeOK
    <3> QED BY <3>1, <3>2
  <2>2. next' \in [Pools -> 0 .. Len(Hosts)]
    BY <1>1, <1>2, <1>3 DEF TypeOK
  <2>3. stage' \in [Pools -> {"new", "adding", "ok", "failed"}]
    BY <1>1, <1>4 DEF TypeOK
  <2> QED BY <1>1, <1>3, <2>1, <2>2, <2>3 DEF TypeOK
<1>8. \A t : Points(t)' = Points(t)
  BY <1>3 DEF Points
<1>9. FirstCome'
  <2>1. ASSUME NEW i \in 1 .. n + 1 PROVE Points(Hosts[i]) \subseteq DOMAIN ring'[b]
    <3>1. CASE i = n + 1
      BY <1>6, <3>1
    <3>2. CASE i # n + 1
      <4>1. i \in 1 .. next[b]
        BY <1>2, <3>2
      <4> QED BY <1>1, <1>6, <4>1 DEF FirstCome
    <3> QED BY <3>1, <3>2
  <2>2. ASSUME NEW x \in DOMAIN ring'[b]
        PROVE  \E i \in 1 .. n + 1 :
                 /\ x \in Points(Hosts[i]) /\ ring'[b][x] = Hosts[i]
                 /\ \A j \in 1 .. i - 1 : x \notin Points(Hosts[j])
    <3>1. CASE x \in DOMAIN ring[b]
      <4>1. PICK i \in 1 .. n :
              /\ x \in Points(Hosts[i]) /\ ring[b][x] = Hosts[i]
              /\ \A j \in 1 .. i - 1 : x \notin Points(Hosts[j])
        BY <1>1, <3>1 DEF FirstCome
      <4>2. i \in 1 .. n + 1
        BY <1>2
      <4> QED BY <1>6, <3>1, <4>1, <4>2
    <3>2. CASE x \notin DOMAIN ring[b]
      <4>1. x \in Points(s) /\ ring'[b][x] = s
        BY <1>6, <3>2
      <4>2. \A j \in 1 .. n : x \notin Points(Hosts[j])
        BY <1>1, <3>2 DEF FirstCome
      <4>3. n + 1 \in 1 .. n + 1 /\ 1 .. (n + 1) - 1 = 1 .. n
        BY <1>2
      <4> QED BY <4>1, <4>2, <4>3
    <3> QED BY <3>1, <3>2
  <2>3. (stage'[b] = "ok" => n + 1 = Len(Hosts)) /\ (stage'[b] = "adding" => n + 1 < Len(Hosts))
    BY <1>1, <1>2, <1>4, HostsFacts DEF TypeOK
  <2>4. ASSUME NEW d \in Pools \ {b}
        PROVE  /\ \A i \in 1 .. next'[d] : Points(Hosts[i]) \subseteq DOMAIN ring'[d]
               /\ \A x \in DOMAIN ring'[d] :
                    \E i \in 1 .. next'[d] :
                      /\ x \in Points(Hosts[i]) /\ ring'[d][x] = Hosts[i]
                      /\ \A j \in 1 .. i - 1 : x \notin Points(Hosts[j])
               /\ stage'[d] = "ok" => next'[d] = Len(Hosts)
               /\ stage'[d] = "adding" => next'[d] < Len(Hosts)
    BY <1>1, <1>3 DEF FirstCome
  <2> QED BY <1>3, <1>8, <2>1, <2>2, <2>3, <2>4 DEF FirstCome
<1>10. \A d \in Pools : stage'[d] = "new" => next'[d] = 0
  BY <1>1, <1>3, <1>4 DEF Inv, TypeOK
<1> QED BY <1>7, <1>9, <1>10 DEF Inv

LEMMA StepKeeps == Inv /\ [Next]_vars => Inv'
<1> SUFFICES ASSUME Inv, [Next]_vars PROVE Inv'
  OBVIOUS
<1>1. CASE Next
  <2>1. PICK b \in Pools :
          \/ Added(b)
          \/ /\ stage[b] = "new"
             /\ \E st \in {"adding", "failed"} : stage' = [stage EXCEPT ![b] = st]
             /\ UNCHANGED <<hash, ring, next>>
    BY <1>1, StepKinds
  <2>2. CASE Added(b)
    BY <2>2, AddedKeeps
  <2>3. CASE ~Added(b)
    <3>1. /\ stage[b] = "new" /\ UNCHANGED <<hash, ring, next>>
          /\ \E st \in {"adding", "failed"} : stage' = [stage EXCEPT ![b] = st]
      BY <2>1, <2>3
    <3>2. TypeOK'
      BY <3>1 DEF Inv, TypeOK
    <3>3. \A t : Points(t)' = Points(t)
      BY <3>1 DEF Points
    <3>4. stage'[b] \in {"adding", "failed"} /\ \A d \in Pools \ {b} : stage'[d] = stage[d]
      BY <3>1 DEF Inv, TypeOK
    <3>5. next[b] = 0
      BY <3>1 DEF Inv
    <3>6. FirstCome'
      BY <3>1, <3>3, <3>4, <3>5, HostsFacts DEF Inv, FirstCome
    <3> QED BY <3>1, <3>2, <3>4, <3>6 DEF Inv
  <2> QED BY <2>2, <2>3
<1>2. CASE UNCHANGED vars
  BY <1>2 DEF vars, Inv, TypeOK, FirstCome, Points
<1> QED BY <1>1, <1>2

\* The rings keep their type for any hash function.
THEOREM RingTyped == Spec => []TypeOK
<1>1. Inv => TypeOK
  BY DEF Inv
<1> QED BY <1>1, InitInv, StepKeeps, PTL DEF Spec

\* A position belongs to the first configured server that hashes there.
THEOREM FirstServed == Spec => []FirstCome
<1>1. Inv => FirstCome
  BY DEF Inv
<1> QED BY <1>1, InitInv, StepKeeps, PTL DEF Spec

\* Initialised pools send every key to the same server.
THEOREM PoolsAgree == Spec => []InitialisedPoolsAgree
<1>1. ASSUME Inv PROVE InitialisedPoolsAgree
  <2>1. SUFFICES ASSUME NEW b \in Pools, NEW d \in Pools, stage[b] = "ok", stage[d] = "ok",
                        NEW h \in 0 .. Space - 1
                 PROVE  GetNode(ring[b], h) = GetNode(ring[d], h)
    BY DEF InitialisedPoolsAgree
  <2>2. TypeOK /\ FirstCome
    BY <1>1 DEF Inv
  <2>3. next[b] = Len(Hosts) /\ next[d] = Len(Hosts)
    BY <2>1, <2>2 DEF FirstCome
  <2>4. DOMAIN ring[b] = DOMAIN ring[d]
    <3>1. ASSUME NEW e \in {b, d}, NEW f \in {b, d}, NEW x \in DOMAIN ring[e] PROVE x \in DOMAIN ring[f]
      <4>1. next[e] = Len(Hosts) /\ next[f] = Len(Hosts)
        BY <2>3
      <4>2. PICK i \in 1 .. Len(Hosts) : x \in Points(Hosts[i])
        BY <2>2, <4>1 DEF FirstCome
      <4> QED BY <2>2, <4>1, <4>2 DEF FirstCome
    <3> QED BY <3>1
  <2>5. ASSUME NEW x \in DOMAIN ring[b] PROVE ring[b][x] = ring[d][x]
    <3>1. PICK i \in 1 .. Len(Hosts) :
            /\ x \in Points(Hosts[i]) /\ ring[b][x] = Hosts[i]
            /\ \A j \in 1 .. i - 1 : x \notin Points(Hosts[j])
      BY <2>2, <2>3 DEF FirstCome
    <3>2. PICK k \in 1 .. Len(Hosts) :
            /\ x \in Points(Hosts[k]) /\ ring[d][x] = Hosts[k]
            /\ \A j \in 1 .. k - 1 : x \notin Points(Hosts[j])
      BY <2>2, <2>3, <2>4 DEF FirstCome
    <3>3. i = k
      BY <3>1, <3>2, HostsFacts
    <3> QED BY <3>1, <3>2, <3>3
  <2>6. DOMAIN ring[b] # {} /\ DOMAIN ring[b] \subseteq Nat /\ h \in Nat
    <3>1. 1 \in 1 .. Len(Hosts)
      BY HostsFacts
    <3>2. Points(Hosts[1]) # {} /\ Points(Hosts[1]) \subseteq DOMAIN ring[b]
      BY <2>2, <2>3, <3>1, HostsFacts, PointsInSpace DEF FirstCome
    <3> QED BY <2>2, <3>2, InitAssumption DEF TypeOK
  <2>7. Clockwise(ring[b], h) = Clockwise(ring[d], h)
    BY <2>4 DEF Clockwise
  <2>8. Clockwise(ring[b], h) \in DOMAIN ring[b]
    BY <2>6, ClockwiseOnRing
  <2> QED BY <2>5, <2>7, <2>8 DEF GetNode
<1> QED BY <1>1, InitInv, StepKeeps, PTL DEF Spec

\* Adding a server only gives keys to the new server.
THEOREM KeysStay == Spec => OnlyNewTakesKeys
<1>1. ASSUME Inv, [Next]_vars, NEW b \in Pools, ring[b] # << >>, NEW h \in 0 .. Space - 1
      PROVE  GetNode(ring'[b], h) \in {GetNode(ring[b], h), Hosts[next'[b]]}
  <2>1. TypeOK /\ h \in Nat /\ 0 .. Space - 1 \subseteq Nat
    BY <1>1, InitAssumption DEF Inv
  <2>2. CASE ring'[b] = ring[b]
    BY <2>2
  <2>3. CASE ring'[b] # ring[b]
    <3>1. Added(b)
      <4>1. Next
        BY <1>1, <2>3 DEF vars
      <4>2. PICK d \in Pools : Added(d) \/ UNCHANGED ring
        BY <4>1, StepKinds
      <4> QED BY <1>1, <2>1, <2>3, <4>2 DEF Added, TypeOK
    <3>2. /\ ring'[b] = PutNode(ring[b], Points(Hosts[next[b] + 1]), Hosts[next[b] + 1])
          /\ next'[b] = next[b] + 1
      BY <2>1, <3>1 DEF Added, TypeOK
    <3>3. next[b] + 1 \in 1 .. Len(Hosts)
      BY <1>1, <2>1, <3>1, HostsFacts DEF Inv, FirstCome, Added, TypeOK
    <3>4. Points(Hosts[next[b] + 1]) \subseteq Nat
      BY <2>1, <3>3, HostsFacts, PointsInSpace
    <3>5. DOMAIN ring[b] \subseteq Nat
      BY <2>1 DEF TypeOK
    <3>6. CASE DOMAIN ring[b] # {}
      BY <2>1, <3>2, <3>4, <3>5, <3>6, MinimalDisruption
    <3>7. CASE DOMAIN ring[b] = {}
      <4> DEFINE s == Hosts[next[b] + 1]
      <4>1. Points(s) # {} /\ DOMAIN ring'[b] = Points(s)
        BY <2>1, <3>2, <3>3, <3>7, HostsFacts, PointsInSpace DEF PutNode
      <4>2. \A x \in Points(s) : ring'[b][x] = s
        BY <3>2, <3>7 DEF PutNode
      <4>3. Clockwise(ring'[b], h) \in Points(s)
        BY <2>1, <3>4, <4>1, ClockwiseOnRing
      <4> QED BY <3>2, <4>2, <4>3 DEF GetNode
    <3> QED BY <3>6, <3>7
  <2> QED BY <2>2, <2>3
<1>2. Inv /\ [Next]_vars =>
        [\A b \in Pools :
           ring[b] # << >> =>
             \A h \in 0 .. Space - 1 :
               GetNode(ring'[b], h) \in {GetNode(ring[b], h), Hosts[next'[b]]}]_vars
  BY <1>1
<1> QED BY <1>2, InitInv, StepKeeps, PTL DEF Spec, OnlyNewTakesKeys

=============================================================================
