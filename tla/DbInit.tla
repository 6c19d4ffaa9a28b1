------------------------------- MODULE DbInit -------------------------------
(***************************************************************************)
(* How the rings are filled: DbPool::init (DbConn.cpp) fills the ring of   *)
(* m_read and then that of m_write with DbBase::init and DbBase::add       *)
(* (DbBase.cpp), connecting to each server on the way and giving up at the *)
(* first that can't be reached; DbDebug::init fills the ring of the        *)
(* "locate" tool without connecting.  All of them, and every process that  *)
(* shares the redis servers, must send a key to the same server.           *)
(***************************************************************************)
EXTENDS HashRing, Sequences

CONSTANTS
  Servers,  \* the databases, one per ip:port (MAX_REDIS_DB_CNT is 1)
  Hosts,    \* what RedisConf::parse found: ip:port in the order of the file,
            \* the m_cnt ports of an entry one by one; never empty
  VNodes,   \* 0 .. MAX_VNODE_CNT - 1
  Space     \* the hash values are 0 .. Space - 1 (2^32 in the code)

ASSUME InitAssumption ==
  /\ Space \in Nat \ {0}
  /\ Hosts \in Seq(Servers)
  /\ Hosts # << >>
  /\ VNodes \subseteq Nat /\ VNodes # {}

Pools == {"read", "write", "debug"}

VARIABLES
  hash,   \* the hash of each vnode's name, whatever MurmurHash makes of it
  ring,   \* the ring of each pool
  next,   \* how many of the Hosts each pool has added
  stage   \* where each pool is in its init

vars == <<hash, ring, next, stage>>

\* Mutant: vnodes follow one another from the first, past the end of the ring.
PointsUnwrapped(s) == {hash[s][0] + v : v \in VNodes}

\* The positions of a server's vnodes: the hashes of genKey(ip, port, i, j).
Points(s) == {hash[s][v] : v \in VNodes}

Init ==
  /\ hash \in [Servers -> [VNodes -> 0 .. Space - 1]]
  /\ ring = [b \in Pools |-> << >>]
  /\ next = [b \in Pools |-> 0]
  /\ stage = [b \in Pools |-> "new"]

\* The configuration can't be read or has no valid host: init is false at
\* once, and DbPool::init does not go on to m_write.
ParseFails(b) ==
  /\ stage[b] = "new"
  /\ b = "write" => stage["read"] = "ok"
  /\ stage' = [stage EXCEPT ![b] = "failed"]
  /\ UNCHANGED <<hash, ring, next>>

Parse(b) ==
  /\ stage[b] = "new"
  /\ b = "write" => stage["read"] = "ok"
  /\ stage' = [stage EXCEPT ![b] = "adding"]
  /\ UNCHANGED <<hash, ring, next>>

\* DbBase::add: the vnodes are put in the ring first, then the server is
\* connected; if that fails init is false and the rest is never added.
Add(b) ==
  /\ b # "debug" /\ stage[b] = "adding"
  /\ LET s == Hosts[next[b] + 1]
     IN  ring' = [ring EXCEPT ![b] = PutNode(ring[b], Points(s), s)]
  /\ next' = [next EXCEPT ![b] = next[b] + 1]
  /\ \E up \in BOOLEAN :
       stage' = [stage EXCEPT ![b] =
                   IF ~up THEN "failed" ELSE IF next[b] + 1 = Len(Hosts) THEN "ok" ELSE "adding"]
  /\ UNCHANGED hash

\* Mutant: DbDebug::add with the vnodes numbered from 1.
AddUnconnectedFromOne(b) ==
  /\ b = "debug" /\ stage[b] = "adding"
  /\ LET s == Hosts[next[b] + 1]
     IN  ring' = [ring EXCEPT ![b] = PutNode(ring[b], {hash[s][v] : v \in VNodes \ {0}}, s)]
  /\ next' = [next EXCEPT ![b] = next[b] + 1]
  /\ stage' = [stage EXCEPT ![b] = IF next[b] + 1 = Len(Hosts) THEN "ok" ELSE "adding"]
  /\ UNCHANGED hash

\* DbDebug::add only fills the ring.
AddUnconnected(b) ==
  /\ b = "debug" /\ stage[b] = "adding"
  /\ LET s == Hosts[next[b] + 1]
     IN  ring' = [ring EXCEPT ![b] = PutNode(ring[b], Points(s), s)]
  /\ next' = [next EXCEPT ![b] = next[b] + 1]
  /\ stage' = [stage EXCEPT ![b] = IF next[b] + 1 = Len(Hosts) THEN "ok" ELSE "adding"]
  /\ UNCHANGED hash

Next == \E b \in Pools : ParseFails(b) \/ Parse(b) \/ Add(b) \/ AddUnconnected(b)

Spec == Init /\ [][Next]_vars

-----------------------------------------------------------------------------

\* Every variable has its type: a ring maps hash values to servers.
TypeOK ==
  /\ hash \in [Servers -> [VNodes -> 0 .. Space - 1]]
  /\ DOMAIN ring = Pools
  /\ \A b \in Pools :
       /\ DOMAIN ring[b] \subseteq 0 .. Space - 1
       /\ \A x \in DOMAIN ring[b] : ring[b][x] \in Servers
  /\ next \in [Pools -> 0 .. Len(Hosts)]
  /\ stage \in [Pools -> {"new", "adding", "ok", "failed"}]

\* Two initialised pools send every key to the same server, hash collisions
\* between servers included.
InitialisedPoolsAgree ==
  \A b, d \in Pools :
    stage[b] = "ok" /\ stage[d] = "ok" =>
      \A h \in 0 .. Space - 1 : GetNode(ring[b], h) = GetNode(ring[d], h)

\* In every pool, complete or abandoned, a position belongs to the first of
\* the configured servers added so far that hashes there, so rings of pools
\* that got differently far disagree only by what is missing.
FirstCome ==
  \A b \in Pools :
    /\ \A i \in 1 .. next[b] : Points(Hosts[i]) \subseteq DOMAIN ring[b]
    /\ \A x \in DOMAIN ring[b] :
         \E i \in 1 .. next[b] :
           /\ x \in Points(Hosts[i]) /\ ring[b][x] = Hosts[i]
           /\ \A j \in 1 .. i - 1 : x \notin Points(Hosts[j])
    /\ stage[b] = "ok" => next[b] = Len(Hosts)
    /\ stage[b] = "adding" => next[b] < Len(Hosts)

\* Adding a server moves keys only to the new server: no key moves between
\* two servers that were there before (doc/README, point 4).
OnlyNewTakesKeys ==
  [][\A b \in Pools :
       ring[b] # << >> =>
         \A h \in 0 .. Space - 1 :
           GetNode(ring'[b], h) \in {GetNode(ring[b], h), Hosts[next'[b]]}]_vars

=============================================================================
