------------------------------ MODULE HashRing ------------------------------
(***************************************************************************)
(* HashNodes (redis-pool/src/HashNodes.h): the consistent-hash ring that   *)
(* picks the redis server of a key.  The std::map from hash values to      *)
(* nodes is a function from the taken positions of the ring to servers.    *)
(***************************************************************************)
EXTENDS Naturals, FiniteSets

\* Mutant: m_map[l] = node, the newcomer takes the position over.
PutNodeOver(ring, points, server) ==
  [x \in DOMAIN ring \cup points |-> IF x \in points THEN server ELSE ring[x]]

\* m_map.insert of every vnode of one server: a position that is taken keeps
\* its server.
PutNode(ring, points, server) ==
  [x \in DOMAIN ring \cup points |-> IF x \in DOMAIN ring THEN ring[x] ELSE server]

Least(S) == CHOOSE x \in S : \A y \in S : x <= y

\* Mutant: the positions are numbered and the hash is taken modulo their number.
ClockwiseByModulo(ring, h) ==
  CHOOSE x \in DOMAIN ring :
    Cardinality({y \in DOMAIN ring : y < x}) = h % Cardinality(DOMAIN ring)

\* find, else upper_bound, else begin: the next position clockwise.
Clockwise(ring, h) ==
  LET ahead == {x \in DOMAIN ring : x >= h}
  IN  Least(IF ahead # {} THEN ahead ELSE DOMAIN ring)

\* The server of a key whose hash is h.
GetNode(ring, h) == ring[Clockwise(ring, h)]

=============================================================================
