--------------------------- MODULE AsynPoolProofs ---------------------------
(***************************************************************************)
(* Proofs about the asynchronous pool, for any AsynCtx objects, callers,   *)
(* addresses and failures: an AsynCtx has only a connection of its own.    *)
(***************************************************************************)
EXTENDS AsynPool, TLAPS

\* Who is past Lock has the lock, and what it connected is there for select.
LockKept ==
  \A t \in Callers :
    /\ call[t].at \in Holding => lock[call[t].a] = t
    /\ call[t].at = "select" => ctx[call[t].a] # NoConn

\* What an AsynCtx has is in use, its callbacks are the AsynCtx's own, and when
\* it is being dropped the callback that closes it is on its way.
Owned ==
  \A a \in Nodes : ctx[a] # NoConn =>
    /\ conn[ctx[a]].st \in {"open", "dropping"}
    /\ \A i \in DOMAIN conn[ctx[a]].pend : conn[ctx[a]].pend[i].a = a
    /\ \A b \in Nodes \ {a} : ctx[b] # ctx[a]
    /\ conn[ctx[a]].st = "dropping" => loop.c = ctx[a] /\ loop.a = a

IInv == TypeOK /\ LockKept /\ (~idled => Owned)

ConnType == [st : {"none", "open", "closing", "dropping"}, pend : Seq(Callback)]
LoopType == [at : {"off", "check", Serving, "sleep", "leave", "clear", "ended"},
             c : Conns \cup {NoConn}, a : Nodes \cup {NoNode}]
CallType == [at : Busy \cup {"idle"}, a : Nodes \cup {NoNode}]

-----------------------------------------------------------------------------
(* What AsynCtx::close does *)

LEMMA DisconnectedTyped ==
  ASSUME TypeOK, NEW c \in Conns
  PROVE  Disconnected(c) \in ConnType
<1>1. conn[c] \in ConnType
  BY DEF TypeOK, ConnType
<1>2. << >> \in Seq(Callback)
  OBVIOUS
<1> QED BY <1>1, <1>2 DEF Disconnected, Gone, ConnType

LEMMA CloseTyped ==
  ASSUME TypeOK, NEW a \in Nodes, Close(a)
  PROVE  /\ ctx' = [ctx EXCEPT ![a] = NoConn] /\ ctx' \in [Nodes -> Conns \cup {NoConn}]
         /\ status' \in [Nodes -> {"init", "ok", "close"}]
         /\ \A b \in Nodes : status'[b] = "ok" <=> ctx'[b] # NoConn
         /\ conn' \in [Conns -> ConnType]
         /\ \A c \in Conns : c # ctx[a] => conn'[c] = conn[c]
         /\ crashed' \in BOOLEAN
<1>1. /\ ctx' = [ctx EXCEPT ![a] = NoConn] /\ ctx' \in [Nodes -> Conns \cup {NoConn}]
      /\ status' = [status EXCEPT ![a] = "close"]
      /\ status' \in [Nodes -> {"init", "ok", "close"}]
  BY DEF TypeOK, Close
<1>2. \A b \in Nodes : status'[b] = "ok" <=> ctx'[b] # NoConn
  BY <1>1 DEF TypeOK
<1>3. conn \in [Conns -> ConnType] /\ crashed \in BOOLEAN
  BY DEF TypeOK, ConnType
<1>4. CASE UNCHANGED conn
  BY <1>1, <1>2, <1>3, <1>4 DEF Close
<1>5. CASE /\ ctx[a] \in Conns /\ conn' = [conn EXCEPT ![ctx[a]] = Disconnected(ctx[a])]
           /\ UNCHANGED crashed
  BY <1>1, <1>2, <1>3, <1>5, DisconnectedTyped
<1>6. ctx[a] \in Conns \cup {NoConn}
  BY DEF TypeOK
<1> QED BY <1>4, <1>5, <1>6 DEF Close

\* Closing one leaves the others their connections.
LEMMA CloseLeaves ==
  ASSUME TypeOK, Owned, NEW a \in Nodes, Close(a), NEW b \in Nodes, ctx'[b] # NoConn
  PROVE  /\ b # a /\ ctx'[b] = ctx[b] /\ ctx[b] \in Conns /\ conn'[ctx[b]] = conn[ctx[b]]
         /\ \A d \in Nodes : ctx'[d] = NoConn \/ ctx'[d] = ctx[d]
<1>1. ctx' = [ctx EXCEPT ![a] = NoConn] /\ ctx \in [Nodes -> Conns \cup {NoConn}]
  BY DEF Close, TypeOK
<1>2. b # a /\ ctx'[b] = ctx[b] /\ ctx[b] \in Conns
  BY <1>1
<1>3. ctx[b] # ctx[a]
  BY <1>2 DEF Owned
<1> QED BY <1>1, <1>2, <1>3, CloseTyped

-----------------------------------------------------------------------------
(* The callers *)

\* The steps of one caller that change nothing but where it is.
LEMMA MovesTyped ==
  ASSUME TypeOK, NEW t \in Callers, NEW at \in Busy, call[t].at \in Busy, Goto(t, at)
  PROVE  /\ call' \in [Callers -> CallType]
         /\ \A u \in Callers : call'[u].at \in Busy => call'[u].a \in Nodes
         /\ call'[t].at = at /\ call'[t].a = call[t].a
         /\ \A u \in Callers \ {t} : call'[u] = call[u]
<1>1. call \in [Callers -> CallType] /\ call' = [call EXCEPT ![t].at = at]
  BY DEF TypeOK, CallType, Goto
<1> QED BY <1>1 DEF TypeOK, CallType

LEMMA PendingTyped ==
  ASSUME TypeOK, NEW c \in Conns, NEW do \in {"select", "cmd"}, NEW a \in Nodes
  PROVE  /\ Pending(c, do, a) \in [Conns -> ConnType]
         /\ Pending(c, do, a)[c].st = conn[c].st
         /\ Pending(c, do, a)[c].pend = Append(conn[c].pend, [do |-> do, a |-> a])
         /\ \A d \in Conns \ {c} : Pending(c, do, a)[d] = conn[d]
<1>1. conn \in [Conns -> ConnType]
  BY DEF TypeOK, ConnType
<1>2. conn[c].pend \in Seq(Callback) /\ [do |-> do, a |-> a] \in Callback
  BY <1>1 DEF ConnType, Callback
<1>3. Append(conn[c].pend, [do |-> do, a |-> a]) \in Seq(Callback)
  BY <1>2
<1> QED BY <1>1, <1>3 DEF Pending, ConnType

LEMMA AppendOwn ==
  ASSUME NEW s \in Seq(Callback), NEW cb \in Callback, \A i \in DOMAIN s : s[i].a = cb.a
  PROVE  \A i \in DOMAIN Append(s, cb) : Append(s, cb)[i].a = cb.a
<1> SUFFICES ASSUME NEW i \in DOMAIN Append(s, cb) PROVE Append(s, cb)[i].a = cb.a
  OBVIOUS
<1>1. i \in 1 .. Len(s) + 1
  OBVIOUS
<1>2. CASE i = Len(s) + 1
  BY <1>2
<1>3. CASE i \in 1 .. Len(s)
  <2>1. Append(s, cb)[i] = s[i] /\ i \in DOMAIN s
    BY <1>3
  <2> QED BY <2>1
<1> QED BY <1>1, <1>2, <1>3

\* What submitting a command or select does, whatever becomes of it.
LEMMA SubmitKeeps ==
  ASSUME IInv, NEW t \in Callers, call[t].at \in Busy, ctx[call[t].a] # NoConn,
         NEW do \in {"select", "cmd"}, NEW accepted \in Busy, NEW refused \in Busy,
         Submit(t, do, accepted, refused), UNCHANGED <<ctx, loop>>
  PROVE  /\ conn' \in [Conns -> ConnType]
         /\ call' \in [Callers -> CallType]
         /\ \A u \in Callers : call'[u].at \in Busy => call'[u].a \in Nodes
         /\ call'[t].at \in {accepted, refused} /\ call'[t].a = call[t].a
         /\ \A u \in Callers \ {t} : call'[u] = call[u]
         /\ crashed' \in BOOLEAN
         /\ Owned => Owned'
<1> DEFINE a == call[t].a
           c == ctx[a]
<1>1. /\ a \in Nodes /\ c \in Conns /\ conn \in [Conns -> ConnType] /\ crashed \in BOOLEAN
      /\ conn[c].st \in {"none", "open", "closing", "dropping"}
      /\ ctx[a] = c /\ TypeOK
  BY DEF IInv, TypeOK, ConnType
<1>2. Submit(t, do, accepted, refused)
        => \/ conn[c].st = "open" /\ conn' = Pending(c, do, a) /\ Goto(t, accepted) /\ UNCHANGED crashed
           \/ UNCHANGED conn /\ (Goto(t, accepted) \/ Goto(t, refused)) /\ crashed' \in BOOLEAN
  BY <1>1 DEF Submit
<1>3. \A at \in Busy : Goto(t, at) =>
        /\ call' \in [Callers -> CallType]
        /\ \A u \in Callers : call'[u].at \in Busy => call'[u].a \in Nodes
        /\ call'[t].at = at /\ call'[t].a = a
        /\ \A u \in Callers \ {t} : call'[u] = call[u]
  BY <1>1, MovesTyped
<1> SUFFICES /\ conn' \in [Conns -> ConnType]
             /\ Goto(t, accepted) \/ Goto(t, refused)
             /\ crashed' \in BOOLEAN
             /\ Owned => Owned'
  BY <1>3
<1> HIDE DEF a, c
<1>4. CASE conn[c].st = "open" /\ conn' = Pending(c, do, a) /\ Goto(t, accepted) /\ UNCHANGED crashed
  <2>2. /\ conn' \in [Conns -> ConnType] /\ conn'[c].st = conn[c].st
        /\ conn'[c].pend = Append(conn[c].pend, [do |-> do, a |-> a])
        /\ \A d \in Conns \ {c} : conn'[d] = conn[d]
    BY <1>1, <1>4, PendingTyped
  <2>1. ASSUME Owned PROVE Owned'
    <3> SUFFICES ASSUME NEW b \in Nodes, ctx[b] # NoConn
                 PROVE  /\ conn'[ctx[b]].st \in {"open", "dropping"}
                        /\ \A i \in DOMAIN conn'[ctx[b]].pend : conn'[ctx[b]].pend[i].a = b
                        /\ \A d \in Nodes \ {b} : ctx[d] # ctx[b]
                        /\ conn'[ctx[b]].st = "dropping" => loop.c = ctx[b] /\ loop.a = b
      BY DEF Owned
    <3>1. /\ conn[ctx[b]].st \in {"open", "dropping"}
          /\ \A i \in DOMAIN conn[ctx[b]].pend : conn[ctx[b]].pend[i].a = b
          /\ \A d \in Nodes \ {b} : ctx[d] # ctx[b]
          /\ conn[ctx[b]].st = "dropping" => loop.c = ctx[b] /\ loop.a = b
      BY <2>1 DEF Owned
    <3>2. CASE b = a
      <4>1. conn[c].pend \in Seq(Callback) /\ [do |-> do, a |-> a] \in Callback
        BY <1>1 DEF ConnType, Callback
      <4>2. \A i \in DOMAIN conn'[c].pend : conn'[c].pend[i].a = a
        BY <1>1, <2>2, <3>1, <3>2, <4>1, AppendOwn
      <4> QED BY <1>1, <2>2, <3>1, <3>2, <4>2
    <3>3. CASE b # a
      <4>1. ctx[b] \in Conns \ {c}
        BY <1>1, <3>1, <3>3 DEF IInv, TypeOK
      <4>2. conn'[ctx[b]] = conn[ctx[b]]
        BY <2>2, <4>1
      <4> QED BY <3>1, <4>2
    <3> QED BY <3>2, <3>3
  <2> QED BY <1>1, <1>4, <2>1, <2>2
<1>5. CASE UNCHANGED conn /\ (Goto(t, accepted) \/ Goto(t, refused)) /\ crashed' \in BOOLEAN
  <2>1. Owned => Owned'
    BY <1>5 DEF Owned
  <2> QED BY <1>1, <1>5, <2>1
<1> QED BY <1>2, <1>4, <1>5

LEMMA Initially == ASSUME AsynAssumption, Init PROVE IInv
<1>1. Gone \in ConnType
  <2>1. << >> \in Seq(Callback)
    OBVIOUS
  <2> QED BY <2>1 DEF Gone, ConnType
<1>2. TypeOK
  <2>1. conn \in [Conns -> ConnType]
    BY <1>1 DEF Init
  <2>2. calls \in 0 .. MaxCalls /\ fails \in 0 .. MaxFails
    BY DEF Init, AsynAssumption
  <2> QED BY <2>1, <2>2 DEF Init, TypeOK, ConnType, Idle, Busy, Holding
<1>3. LockKept /\ Owned
  BY DEF Init, LockKept, Owned, Idle, Holding
<1> QED BY <1>2, <1>3 DEF IInv

LEMMA CountUp ==
  ASSUME NEW m \in Nat, NEW n \in 0 .. m, n < m
  PROVE  n + 1 \in 0 .. m
OBVIOUS

LEMMA BeginKeeps ==
  ASSUME IInv, NEW t \in Callers, NEW a \in Nodes, Begin(t, a)
  PROVE  IInv'
<1>1. PICK what \in {"lock for command", "lock for close"} : call' = [call EXCEPT ![t] = [at |-> what, a |-> a]]
  BY DEF Begin
<1>2. /\ UNCHANGED <<nodeVars, conn, loop, mainVars, fails, idled, crashed>>
      /\ calls' \in 0 .. MaxCalls
  <2>1. calls < MaxCalls /\ calls' = calls + 1
    BY DEF Begin
  <2>2. calls \in 0 .. MaxCalls
    BY DEF IInv, TypeOK
  <2>3. MaxCalls \in Nat
    BY AsynAssumption
  <2>4. calls + 1 \in 0 .. MaxCalls
    BY <2>1, <2>2, <2>3, CountUp
  <2> QED BY <2>1, <2>4 DEF Begin
<1>3. /\ call' \in [Callers -> CallType]
      /\ \A u \in Callers : call'[u].at \in Busy => call'[u].a \in Nodes
  BY <1>1 DEF IInv, TypeOK, CallType, Busy
<1>4. LockKept'
  BY <1>1, <1>2 DEF IInv, TypeOK, LockKept, Holding, nodeVars
<1>5. TypeOK'
  BY <1>2, <1>3 DEF IInv, TypeOK, CallType, nodeVars, mainVars
<1>6. ~idled' => Owned'
  <2>1. Owned => Owned'
    BY <1>2 DEF Owned, nodeVars
  <2>2. idled' = idled /\ (~idled => Owned)
    BY <1>2 DEF IInv
  <2> QED BY <2>1, <2>2, Zenon
<1> QED BY <1>4, <1>5, <1>6 DEF IInv

LEMMA LockKeeps ==
  ASSUME IInv, NEW t \in Callers, Lock(t)
  PROVE  IInv'
<1> DEFINE a == call[t].a
<1>1. call[t].at \in Busy /\ a \in Nodes /\ lock[a] = Nobody
  BY DEF Lock, At, IInv, TypeOK, Busy
<1>2. PICK at \in {"command", "close"} : Goto(t, at)
  BY DEF Lock
<1>3. /\ call' \in [Callers -> CallType]
      /\ \A u \in Callers : call'[u].at \in Busy => call'[u].a \in Nodes
      /\ call'[t].at = at /\ call'[t].a = a
      /\ \A u \in Callers \ {t} : call'[u] = call[u]
  BY <1>1, <1>2, MovesTyped DEF IInv, Busy, Holding
<1>4. UNCHANGED <<ctx, status, conn, loop, mainVars, calls, fails, idled, crashed>>
      /\ lock' = [lock EXCEPT ![a] = t]
  BY DEF Lock
<1>5. LockKept'
  <2>1. ASSUME NEW u \in Callers \ {t}, call[u].at \in Holding PROVE lock'[call[u].a] = u
    <3>1. lock[call[u].a] = u /\ call[u].a # a
      BY <1>1, <2>1, AsynAssumption DEF IInv, LockKept
    <3> QED BY <1>4, <3>1
  <2>2. lock'[a] = t
    BY <1>1, <1>4 DEF IInv, TypeOK
  <2> QED BY <1>2, <1>3, <1>4, <2>1, <2>2 DEF IInv, LockKept
<1>6. lock' \in [Nodes -> Callers \cup {Nobody}]
  BY <1>4 DEF IInv, TypeOK
<1> QED BY <1>3, <1>4, <1>5, <1>6 DEF IInv, TypeOK, CallType, Owned, mainVars

\* Command and Select.
LEMMA SubmittingKeeps ==
  ASSUME IInv, NEW t \in Callers, Command(t) \/ Select(t)
  PROVE  IInv'
<1>1. /\ call[t].at \in Holding /\ call[t].at \in Busy /\ lock[call[t].a] = t
      /\ UNCHANGED <<nodeVars, loop, mainVars, calls, fails, idled>>
  BY DEF Command, Select, At, Holding, Busy, IInv, LockKept
<1>2. /\ conn' \in [Conns -> ConnType]
      /\ call' \in [Callers -> CallType]
      /\ \A u \in Callers : call'[u].at \in Busy => call'[u].a \in Nodes
      /\ call'[t].at # "select" /\ call'[t].a = call[t].a
      /\ \A u \in Callers \ {t} : call'[u] = call[u]
      /\ crashed' \in BOOLEAN
      /\ Owned => Owned'
  <2>1. CASE Select(t)
    <3>1. /\ {"unlock", "undo"} \subseteq Busy \ {"select"}
          /\ ctx[call[t].a] # NoConn /\ Submit(t, "select", "unlock", "undo")
      BY <2>1 DEF Select, At, IInv, LockKept, Busy, Holding
    <3>2. UNCHANGED <<ctx, loop>>
      BY <1>1 DEF nodeVars
    <3> QED BY <1>1, <3>1, <3>2, SubmitKeeps
  <2>2. CASE Command(t) /\ ctx[call[t].a] # NoConn /\ Submit(t, "cmd", "unlock", "close")
    <3>1. {"unlock", "close"} \subseteq Busy \ {"select"}
      BY DEF Busy, Holding
    <3>2. UNCHANGED <<ctx, loop>>
      BY <1>1 DEF nodeVars
    <3> QED BY <1>1, <2>2, <3>1, <3>2, SubmitKeeps
  <2>3. CASE Command(t) /\ Goto(t, "close") /\ UNCHANGED <<conn, crashed>>
    <3>1. "close" \in Busy
      BY DEF Busy, Holding
    <3>2. conn \in [Conns -> ConnType] /\ crashed \in BOOLEAN
      BY DEF IInv, TypeOK, ConnType
    <3> QED BY <1>1, <2>3, <3>1, <3>2, MovesTyped DEF IInv, Owned, nodeVars
  <2> QED BY <2>1, <2>2, <2>3 DEF Command
<1>3. LockKept'
  BY <1>1, <1>2 DEF IInv, LockKept, nodeVars
<1> QED BY <1>1, <1>2, <1>3 DEF IInv, TypeOK, ConnType, CallType, nodeVars, mainVars

LEMMA CloseKeepsOwned ==
  ASSUME TypeOK, Owned, NEW a \in Nodes, Close(a), UNCHANGED loop \/ (loop.a = a /\ UNCHANGED loop.c)
  PROVE  Owned'
<1> SUFFICES ASSUME NEW b \in Nodes, ctx'[b] # NoConn
             PROVE  /\ conn'[ctx'[b]].st \in {"open", "dropping"}
                    /\ \A i \in DOMAIN conn'[ctx'[b]].pend : conn'[ctx'[b]].pend[i].a = b
                    /\ \A d \in Nodes \ {b} : ctx'[d] # ctx'[b]
                    /\ conn'[ctx'[b]].st = "dropping" => loop'.c = ctx'[b] /\ loop'.a = b
  BY DEF Owned
<1>1. /\ b # a /\ ctx'[b] = ctx[b] /\ ctx[b] \in Conns /\ conn'[ctx[b]] = conn[ctx[b]]
      /\ \A d \in Nodes : ctx'[d] = NoConn \/ ctx'[d] = ctx[d]
  BY CloseLeaves
<1>2. /\ conn[ctx[b]].st \in {"open", "dropping"}
      /\ \A i \in DOMAIN conn[ctx[b]].pend : conn[ctx[b]].pend[i].a = b
      /\ \A d \in Nodes \ {b} : ctx[d] # ctx[b]
      /\ conn[ctx[b]].st = "dropping" => loop.c = ctx[b] /\ loop.a = b
  BY <1>1 DEF Owned
<1> QED BY <1>1, <1>2

LEMMA CloseOldKeeps ==
  ASSUME IInv, NEW t \in Callers, CloseOld(t)
  PROVE  IInv'
<1> DEFINE a == call[t].a
<1>1. /\ call[t].at \in Busy /\ a \in Nodes /\ lock[a] = t /\ Close(a)
      /\ UNCHANGED <<lock, loop, mainVars, calls, fails, idled>>
  BY DEF CloseOld, At, IInv, TypeOK, LockKept, Busy, Holding
<1>2. PICK at \in {"connect", "unlock"} : Goto(t, at)
  BY DEF CloseOld
<1>3. /\ call' \in [Callers -> CallType]
      /\ \A u \in Callers : call'[u].at \in Busy => call'[u].a \in Nodes
      /\ call'[t].at = at /\ call'[t].a = a
      /\ \A u \in Callers \ {t} : call'[u] = call[u]
  BY <1>1, <1>2, MovesTyped DEF IInv, Busy, Holding
<1>4. /\ ctx' = [ctx EXCEPT ![a] = NoConn] /\ ctx' \in [Nodes -> Conns \cup {NoConn}]
      /\ status' \in [Nodes -> {"init", "ok", "close"}]
      /\ \A b \in Nodes : status'[b] = "ok" <=> ctx'[b] # NoConn
      /\ conn' \in [Conns -> ConnType]
      /\ crashed' \in BOOLEAN
  BY <1>1, CloseTyped DEF IInv
<1>5. LockKept'
  <2>1. ASSUME NEW u \in Callers \ {t}, call[u].at = "select" PROVE ctx'[call[u].a] # NoConn
    <3>1. lock[call[u].a] = u /\ ctx[call[u].a] # NoConn /\ call[u].a # a
      BY <1>1, <2>1 DEF IInv, LockKept, Holding
    <3> QED BY <1>4, <3>1 DEF IInv, TypeOK
  <2> QED BY <1>1, <1>2, <1>3, <2>1 DEF IInv, LockKept
<1>6. ~idled => Owned'
  BY <1>1, CloseKeepsOwned DEF IInv
<1> QED BY <1>1, <1>3, <1>4, <1>5, <1>6 DEF IInv, TypeOK, ConnType, CallType, mainVars

\* A connection that is made is nobody else's, as what anyone has is in use.
LEMMA ConnectKeeps ==
  ASSUME IInv, NEW t \in Callers, Connect(t)
  PROVE  IInv'
<1> DEFINE a == call[t].a
<1>1. /\ call[t].at \in Busy /\ a \in Nodes /\ lock[a] = t /\ Goto(t, "select")
      /\ UNCHANGED <<lock, loop, mainVars, calls, fails, idled, crashed>>
      /\ status' = [status EXCEPT ![a] = "ok"]
  BY DEF Connect, At, IInv, TypeOK, LockKept, Busy, Holding
<1>2. PICK c \in Conns : /\ conn[c].st = "none"
                         /\ conn' = [conn EXCEPT ![c] = [st |-> "open", pend |-> << >>]]
                         /\ ctx' = [ctx EXCEPT ![a] = c]
  BY DEF Connect
<1>3. /\ call' \in [Callers -> CallType]
      /\ \A u \in Callers : call'[u].at \in Busy => call'[u].a \in Nodes
      /\ call'[t].at = "select" /\ call'[t].a = a
      /\ \A u \in Callers \ {t} : call'[u] = call[u]
  BY <1>1, MovesTyped DEF IInv, Busy, Holding
<1>4. /\ ctx' \in [Nodes -> Conns \cup {NoConn}]
      /\ status' \in [Nodes -> {"init", "ok", "close"}]
      /\ \A b \in Nodes : status'[b] = "ok" <=> ctx'[b] # NoConn
  BY <1>1, <1>2, AsynAssumption DEF IInv, TypeOK
<1>5. conn' \in [Conns -> ConnType]
  <2>1. [st |-> "open", pend |-> << >>] \in ConnType
    <3>1. << >> \in Seq(Callback)
      OBVIOUS
    <3> QED BY <3>1 DEF ConnType
  <2> QED BY <1>2, <2>1 DEF IInv, TypeOK, ConnType
<1>6. LockKept'
  BY <1>1, <1>2, <1>3, AsynAssumption DEF IInv, LockKept, TypeOK
<1>7. ASSUME Owned PROVE Owned'
  <2>1. \A b \in Nodes : ctx[b] # c
    BY <1>2, <1>7, AsynAssumption DEF Owned
  <2> SUFFICES ASSUME NEW b \in Nodes, ctx'[b] # NoConn
               PROVE  /\ conn'[ctx'[b]].st \in {"open", "dropping"}
                      /\ \A i \in DOMAIN conn'[ctx'[b]].pend : conn'[ctx'[b]].pend[i].a = b
                      /\ \A d \in Nodes \ {b} : ctx'[d] # ctx'[b]
                      /\ conn'[ctx'[b]].st = "dropping" => loop.c = ctx'[b] /\ loop.a = b
    BY <1>1 DEF Owned
  <2>2. CASE b = a
    <3>1. ctx'[b] = c /\ \A d \in Nodes \ {b} : ctx'[d] = ctx[d]
      BY <1>2, <2>2 DEF IInv, TypeOK
    <3>2. conn'[c] = [st |-> "open", pend |-> << >>]
      BY <1>2 DEF IInv, TypeOK
    <3>3. DOMAIN conn'[c].pend = {}
      BY <3>2
    <3> QED BY <2>1, <3>1, <3>2, <3>3
  <2>3. CASE b # a
    <3>1. /\ ctx'[b] = ctx[b] /\ ctx[b] \in Conns \ {c}
          /\ \A d \in Nodes \ {b} : ctx'[d] = c \/ ctx'[d] = ctx[d]
      BY <1>2, <2>1, <2>3 DEF IInv, TypeOK
    <3>2. conn'[ctx[b]] = conn[ctx[b]]
      BY <1>2, <3>1 DEF IInv, TypeOK
    <3>3. /\ conn[ctx[b]].st \in {"open", "dropping"}
          /\ \A i \in DOMAIN conn[ctx[b]].pend : conn[ctx[b]].pend[i].a = b
          /\ \A d \in Nodes \ {b} : ctx[d] # ctx[b]
          /\ conn[ctx[b]].st = "dropping" => loop.c = ctx[b] /\ loop.a = b
      BY <1>7, <3>1, AsynAssumption DEF Owned
    <3> QED BY <3>1, <3>2, <3>3
  <2> QED BY <2>2, <2>3
<1> QED BY <1>1, <1>3, <1>4, <1>5, <1>6, <1>7 DEF IInv, TypeOK, ConnType, CallType, mainVars

LEMMA ConnectFailsKeeps ==
  ASSUME IInv, NEW t \in Callers, ConnectFails(t)
  PROVE  IInv'
<1>1. /\ call[t].at \in Busy /\ call[t].at \in Holding /\ Goto(t, "unlock")
      /\ UNCHANGED <<nodeVars, conn, loop, mainVars, calls, idled, crashed>>
  BY DEF ConnectFails, At, Busy, Holding
<1>2. /\ call' \in [Callers -> CallType]
      /\ \A u \in Callers : call'[u].at \in Busy => call'[u].a \in Nodes
      /\ call'[t].at = "unlock" /\ call'[t].a = call[t].a
      /\ \A u \in Callers \ {t} : call'[u] = call[u]
  BY <1>1, MovesTyped DEF IInv, Busy, Holding
<1>3. fails' \in 0 .. MaxFails
  BY AsynAssumption DEF ConnectFails, IInv, TypeOK
<1>4. LockKept'
  BY <1>1, <1>2 DEF IInv, LockKept, nodeVars
<1> QED BY <1>1, <1>2, <1>3, <1>4 DEF IInv, TypeOK, CallType, Owned, nodeVars, mainVars

LEMMA UnlockKeeps ==
  ASSUME IInv, NEW t \in Callers, Unlock(t)
  PROVE  IInv'
<1> DEFINE a == call[t].a
<1>1. /\ a \in Nodes /\ lock[a] = t
      /\ lock' = [lock EXCEPT ![a] = Nobody] /\ call' = [call EXCEPT ![t] = Idle]
      /\ UNCHANGED <<ctx, status, conn, loop, mainVars, calls, fails, idled, crashed>>
  BY DEF Unlock, At, IInv, TypeOK, LockKept, Busy, Holding
<1>2. /\ call' \in [Callers -> CallType]
      /\ call'[t].at = "idle"
      /\ \A u \in Callers \ {t} : call'[u] = call[u]
      /\ \A u \in Callers : call'[u].at \in Busy => call'[u].a \in Nodes
  BY <1>1 DEF IInv, TypeOK, CallType, Idle, Busy, Holding
<1>3. LockKept'
  <2>1. ASSUME NEW u \in Callers \ {t}, call[u].at \in Holding PROVE lock'[call[u].a] = u
    <3>1. lock[call[u].a] = u /\ call[u].a # a
      BY <1>1, <2>1 DEF IInv, LockKept
    <3> QED BY <1>1, <3>1
  <2>2. "idle" \notin Holding /\ "idle" # "select"
    BY DEF Holding
  <2> QED BY <1>1, <1>2, <2>1, <2>2 DEF IInv, LockKept
<1>4. lock' \in [Nodes -> Callers \cup {Nobody}]
  BY <1>1 DEF IInv, TypeOK
<1> QED BY <1>1, <1>2, <1>3, <1>4 DEF IInv, TypeOK, CallType, Owned, mainVars

-----------------------------------------------------------------------------
(* The event thread *)

\* A callback that runs leaves the rest of them, and knows whose it is.
LEMMA RunTyped ==
  ASSUME TypeOK, NEW c \in Conns, conn[c].pend # << >>,
         NEW st \in {"open", "closing", "dropping"}, NEW reply, RunCallback(c, st, reply)
  PROVE  /\ conn' \in [Conns -> ConnType] /\ conn'[c].st = st
         /\ conn'[c].pend = Tail(conn[c].pend) /\ \A d \in Conns \ {c} : conn'[d] = conn[d]
         /\ loop' \in LoopType /\ loop'.c = c
         /\ reply = "NULL" => loop'.a = conn[c].pend[1].a
         /\ 1 \in DOMAIN conn[c].pend
         /\ \A i \in DOMAIN Tail(conn[c].pend) :
              i + 1 \in DOMAIN conn[c].pend /\ Tail(conn[c].pend)[i] = conn[c].pend[i + 1]
<1>1. conn \in [Conns -> ConnType] /\ conn[c].pend \in Seq(Callback) /\ loop \in LoopType
  BY DEF TypeOK, ConnType, LoopType
<1>2. /\ Head(conn[c].pend) \in Callback /\ Tail(conn[c].pend) \in Seq(Callback)
      /\ Head(conn[c].pend) = conn[c].pend[1] /\ 1 \in DOMAIN conn[c].pend
      /\ \A i \in DOMAIN Tail(conn[c].pend) :
           i + 1 \in DOMAIN conn[c].pend /\ Tail(conn[c].pend)[i] = conn[c].pend[i + 1]
  BY <1>1
<1>3. Head(conn[c].pend).a \in Nodes
  BY <1>2 DEF Callback
<1>4. /\ conn' = [conn EXCEPT ![c] = [st |-> st, pend |-> Tail(conn[c].pend)]]
      /\ loop' = [loop EXCEPT !.c = c, !.a = IF CallsClose(Head(conn[c].pend), reply)
                                             THEN Head(conn[c].pend).a ELSE NoNode]
  BY DEF RunCallback
<1>5. [st |-> st, pend |-> Tail(conn[c].pend)] \in ConnType
  BY <1>2 DEF ConnType
<1>6. loop' \in LoopType /\ loop'.c = c
  BY <1>1, <1>3, <1>4 DEF LoopType
<1>7. reply = "NULL" => loop'.a = conn[c].pend[1].a
  BY <1>1, <1>2, <1>4 DEF LoopType, CallsClose
<1> QED BY <1>1, <1>2, <1>4, <1>5, <1>6, <1>7

\* No connection of an AsynCtx is being dropped, or none of the one in question.
LEMMA RunKeepsOwned ==
  ASSUME TypeOK, Owned, NEW c \in Conns, conn[c].pend # << >>,
         NEW st \in {"open", "closing", "dropping"}, NEW reply, RunCallback(c, st, reply),
         \A b \in Nodes : ctx[b] \in Conns => conn[ctx[b]].st # "dropping",
         st = conn[c].st \/ (st = "dropping" /\ reply = "NULL"),
         UNCHANGED ctx
  PROVE  Owned'
<1>1. /\ conn'[c].st = st
      /\ conn'[c].pend = Tail(conn[c].pend) /\ \A d \in Conns \ {c} : conn'[d] = conn[d]
      /\ loop'.c = c
      /\ reply = "NULL" => loop'.a = conn[c].pend[1].a
      /\ 1 \in DOMAIN conn[c].pend
      /\ \A i \in DOMAIN Tail(conn[c].pend) :
           i + 1 \in DOMAIN conn[c].pend /\ Tail(conn[c].pend)[i] = conn[c].pend[i + 1]
  BY RunTyped
<1> SUFFICES ASSUME NEW b \in Nodes, ctx[b] # NoConn
             PROVE  /\ conn'[ctx[b]].st \in {"open", "dropping"}
                    /\ \A i \in DOMAIN conn'[ctx[b]].pend : conn'[ctx[b]].pend[i].a = b
                    /\ \A d \in Nodes \ {b} : ctx[d] # ctx[b]
                    /\ conn'[ctx[b]].st = "dropping" => loop'.c = ctx[b] /\ loop'.a = b
  BY DEF Owned
<1>2. /\ ctx[b] \in Conns /\ conn[ctx[b]].st = "open"
      /\ \A i \in DOMAIN conn[ctx[b]].pend : conn[ctx[b]].pend[i].a = b
      /\ \A d \in Nodes \ {b} : ctx[d] # ctx[b]
  BY DEF Owned, TypeOK
<1>3. CASE ctx[b] = c
  <2>1. \A i \in DOMAIN conn'[c].pend : conn'[c].pend[i].a = b
    BY <1>1, <1>2, <1>3
  <2>2. conn'[c].st = "dropping" => loop'.c = c /\ loop'.a = b
    BY <1>1, <1>2, <1>3
  <2>3. conn'[c].st \in {"open", "dropping"}
    BY <1>1, <1>2, <1>3
  <2> QED BY <1>2, <1>3, <2>1, <2>2, <2>3
<1>4. CASE ctx[b] # c
  <2>1. conn'[ctx[b]] = conn[ctx[b]]
    BY <1>1, <1>2, <1>4
  <2> QED BY <1>2, <2>1
<1> QED BY <1>3, <1>4

\* While no callback runs, or the one that runs closes nothing any more, no
\* AsynCtx has a connection that is being dropped.
LEMMA NoneDropping ==
  ASSUME IInv, Owned, loop.c = NoConn \/ loop.a = NoNode
  PROVE  \A b \in Nodes : ctx[b] \in Conns => conn[ctx[b]].st # "dropping"
  BY AsynAssumption DEF Owned

LEMMA ReplyKeeps ==
  ASSUME IInv, NEW c \in Conns, Reply(c)
  PROVE  IInv'
<1>1. /\ loop.c = NoConn /\ conn[c].st \in {"open", "closing"} /\ conn[c].pend # << >>
      /\ UNCHANGED <<nodeVars, call, mainVars, calls, idled, crashed>>
  BY DEF Reply, Ready
<1>2. PICK reply \in {"ok", "error"} : RunCallback(c, conn[c].st, reply)
  BY DEF Reply
<1>3. fails' \in 0 .. MaxFails
  BY AsynAssumption DEF Reply, IInv, TypeOK
<1>4. conn' \in [Conns -> ConnType] /\ loop' \in LoopType
  BY <1>1, <1>2, RunTyped DEF IInv
<1>5. ~idled => Owned'
  BY <1>1, <1>2, NoneDropping, RunKeepsOwned DEF IInv, nodeVars
<1> QED BY <1>1, <1>3, <1>4, <1>5 DEF IInv, TypeOK, ConnType, LoopType, LockKept, nodeVars, mainVars

\* A connection that goes is nobody's, or the AsynCtx learns of it, or idled.
LEMMA DropKeeps ==
  ASSUME IInv, NEW c \in Conns, Drop(c)
  PROVE  IInv'
<1>1. /\ loop.c = NoConn /\ conn[c].st \in {"open", "closing"}
      /\ UNCHANGED <<nodeVars, call, mainVars, calls, crashed>>
      /\ fails' \in 0 .. MaxFails
  BY AsynAssumption DEF Drop, Ready, IInv, TypeOK
<1>2. CASE conn[c].pend = << >>
  <2>1. /\ conn' = [conn EXCEPT ![c] = Gone] /\ UNCHANGED loop
        /\ idled' = (idled \/ \E a \in Nodes : ctx[a] = c)
    BY <1>2 DEF Drop
  <2>2. conn' \in [Conns -> ConnType]
    <3>1. << >> \in Seq(Callback)
      OBVIOUS
    <3>2. Gone \in ConnType
      BY <3>1 DEF Gone, ConnType
    <3> QED BY <2>1, <3>2 DEF IInv, TypeOK, ConnType
  <2>3. ASSUME ~idled' PROVE Owned'
    <3>1. Owned /\ \A b \in Nodes : ctx[b] # c
      BY <2>1, <2>3 DEF IInv
    <3>2. \A b \in Nodes : ctx[b] # NoConn => conn'[ctx[b]] = conn[ctx[b]]
      BY <2>1, <3>1 DEF IInv, TypeOK
    <3> QED BY <1>1, <2>1, <3>1, <3>2 DEF Owned, nodeVars
  <2>4. idled' \in BOOLEAN
    BY <2>1
  <2> QED BY <1>1, <2>1, <2>2, <2>3, <2>4
          DEF IInv, TypeOK, ConnType, LockKept, nodeVars, mainVars
<1>3. CASE conn[c].pend # << >>
  <2>1. RunCallback(c, "dropping", "NULL") /\ UNCHANGED idled
    BY <1>3 DEF Drop
  <2>2. conn' \in [Conns -> ConnType] /\ loop' \in LoopType
    BY <1>3, <2>1, RunTyped DEF IInv
  <2>3. ~idled => Owned'
    BY <1>1, <1>3, <2>1, NoneDropping, RunKeepsOwned DEF IInv, nodeVars
  <2> QED BY <1>1, <2>1, <2>2, <2>3 DEF IInv, TypeOK, ConnType, LoopType, LockKept, nodeVars, mainVars
<1> QED BY <1>2, <1>3

LEMMA CloseSafeKeeps ==
  ASSUME IInv, CloseSafe
  PROVE  IInv'
<1> DEFINE a == loop.a
<1>1. /\ a \in Nodes /\ lock[a] = Nobody /\ Close(a) /\ loop' = [loop EXCEPT !.a = NoNode]
      /\ UNCHANGED <<lock, call, mainVars, calls, fails, idled>>
  BY DEF CloseSafe, IInv, TypeOK
<1>2. /\ ctx' = [ctx EXCEPT ![a] = NoConn] /\ ctx' \in [Nodes -> Conns \cup {NoConn}]
      /\ status' \in [Nodes -> {"init", "ok", "close"}]
      /\ \A b \in Nodes : status'[b] = "ok" <=> ctx'[b] # NoConn
      /\ conn' \in [Conns -> ConnType]
      /\ crashed' \in BOOLEAN
  BY <1>1, CloseTyped DEF IInv
<1>3. loop' \in LoopType /\ loop'.c = loop.c
  BY <1>1 DEF IInv, TypeOK, LoopType
<1>4. LockKept'
  <2>1. ASSUME NEW u \in Callers, call[u].at = "select" PROVE ctx'[call[u].a] # NoConn
    <3>1. lock[call[u].a] = u /\ ctx[call[u].a] # NoConn /\ call[u].a # a
      BY <1>1, <2>1, AsynAssumption DEF IInv, LockKept, Holding
    <3> QED BY <1>2, <3>1 DEF IInv, TypeOK
  <2> QED BY <1>1, <2>1 DEF IInv, LockKept
<1>5. ~idled => Owned'
  BY <1>1, <1>3, CloseKeepsOwned DEF IInv
<1> QED BY <1>1, <1>2, <1>3, <1>4, <1>5 DEF IInv, TypeOK, ConnType, LoopType, mainVars

LEMMA CallbackDoneKeeps ==
  ASSUME IInv, CallbackDone
  PROVE  IInv'
<1> DEFINE c == loop.c
           over == conn[c].st # "open" /\ conn[c].pend = << >>
<1>1. /\ c \in Conns /\ loop.a = NoNode
      /\ UNCHANGED <<nodeVars, call, mainVars, calls, fails, idled, crashed>>
  BY DEF CallbackDone, IInv, TypeOK
<1>2. CASE conn[c].st = "dropping" /\ ~over
  <2>1. RunCallback(c, "dropping", "NULL") /\ conn[c].pend # << >>
    BY <1>2 DEF CallbackDone
  <2>2. conn' \in [Conns -> ConnType] /\ loop' \in LoopType
    BY <1>1, <2>1, RunTyped DEF IInv
  <2>3. ~idled => Owned'
    BY <1>1, <2>1, NoneDropping, RunKeepsOwned DEF IInv, nodeVars
  <2> QED BY <1>1, <2>2, <2>3 DEF IInv, TypeOK, ConnType, LoopType, LockKept, nodeVars, mainVars
<1>3. CASE ~(conn[c].st = "dropping" /\ ~over)
  <2>1. /\ loop' = [loop EXCEPT !.c = NoConn]
        /\ conn' = IF over THEN [conn EXCEPT ![c] = Gone] ELSE conn
    BY <1>3 DEF CallbackDone
  <2>2. conn' \in [Conns -> ConnType]
    <3>1. << >> \in Seq(Callback)
      OBVIOUS
    <3>2. Gone \in ConnType
      BY <3>1 DEF Gone, ConnType
    <3> QED BY <2>1, <3>2 DEF IInv, TypeOK, ConnType
  <2>3. loop' \in LoopType
    BY <2>1 DEF IInv, TypeOK, LoopType
  <2>4. ASSUME Owned PROVE Owned'
    <3>1. \A b \in Nodes : ctx[b] \in Conns => conn[ctx[b]].st # "dropping"
      BY <1>1, <2>4, NoneDropping
    <3>2. \A b \in Nodes : ctx[b] # NoConn => ctx[b] \in Conns /\ conn[ctx[b]].st = "open"
      BY <2>4, <3>1 DEF IInv, TypeOK, Owned
    <3>3. \A b \in Nodes : ctx[b] # NoConn => conn'[ctx[b]] = conn[ctx[b]]
      BY <2>1, <3>2 DEF IInv, TypeOK
    <3> QED BY <1>1, <2>4, <3>2, <3>3 DEF Owned, nodeVars
  <2> QED BY <1>1, <2>2, <2>3, <2>4 DEF IInv, TypeOK, ConnType, LoopType, LockKept, nodeVars, mainVars
<1> QED BY <1>2, <1>3

-----------------------------------------------------------------------------
(* run, start, stop and join *)

LEMMA ThreadStepsKeep ==
  ASSUME IInv, Check \/ DispatchReturns \/ Wake \/ ClearThr \/ ClearRun \/ Start \/ Stop \/ Join
  PROVE  IInv'
<1>1. UNCHANGED <<nodeVars, conn, call, calls, fails, idled>>
  BY DEF Check, DispatchReturns, Wake, ClearThr, ClearRun, Start, Stop, Join, JoinCheck, JoinRead,
         JoinReturns, MainAt
<1>2. /\ bRun' \in BOOLEAN /\ thr' \in BOOLEAN /\ crashed' \in BOOLEAN
      /\ main' \in {"new", "running", "stopped", "joining", "waiting", "joined"}
  <2>1. /\ bRun \in BOOLEAN /\ thr \in BOOLEAN /\ crashed \in BOOLEAN
        /\ main \in {"new", "running", "stopped", "joining", "waiting", "joined"}
    BY DEF IInv, TypeOK
  <2>2. CASE Check \/ DispatchReturns \/ Wake \/ ClearThr \/ ClearRun
    BY <2>1, <2>2 DEF Check, DispatchReturns, Wake, ClearThr, ClearRun, mainVars
  <2>3. CASE Start \/ Stop
    BY <2>1, <2>3 DEF Start, Stop, MainAt
  <2>4. CASE JoinCheck
    BY <2>1, <2>4 DEF JoinCheck, MainAt
  <2>5. CASE JoinRead
    BY <2>1, <2>5 DEF JoinRead, MainAt
  <2>6. CASE JoinReturns
    BY <2>1, <2>6 DEF JoinReturns, MainAt
  <2> QED BY <2>2, <2>3, <2>4, <2>5, <2>6 DEF Join
<1>3. loop' \in LoopType /\ loop'.c = loop.c /\ loop'.a = loop.a
  <2>1. loop \in LoopType
    BY DEF IInv, TypeOK, LoopType
  <2>2. loop' = loop
        \/ \E at \in {"check", Serving, "sleep", "leave", "clear", "ended"} : loop' = [loop EXCEPT !.at = at]
    BY DEF Check, DispatchReturns, Wake, ClearThr, ClearRun, Start, Stop, Join, JoinCheck, JoinRead,
           JoinReturns, LoopAt
  <2> QED BY <2>1, <2>2 DEF LoopType
<1>4. ~idled => Owned'
  BY <1>1, <1>3 DEF IInv, Owned, nodeVars
<1> QED BY <1>1, <1>2, <1>3, <1>4 DEF IInv, TypeOK, LoopType, LockKept, nodeVars

LEMMA StepsKeep ==
  ASSUME IInv, [Next]_vars
  PROVE  IInv'
<1>1. ASSUME NEW t \in Callers, Caller(t) PROVE IInv'
  BY <1>1, LockKeeps, SubmittingKeeps, CloseOldKeeps, ConnectKeeps, ConnectFailsKeeps, UnlockKeeps
     DEF Caller
<1>2. ASSUME NEW t \in Callers, NEW a \in Nodes, Begin(t, a) PROVE IInv'
  BY <1>2, BeginKeeps
<1>3. ASSUME NEW c \in Conns, Reply(c) \/ Drop(c) PROVE IInv'
  BY <1>3, ReplyKeeps, DropKeeps
<1>4. CASE Loop \/ Start \/ Stop \/ Join
  BY <1>4, CloseSafeKeeps, CallbackDoneKeeps, ThreadStepsKeep DEF Loop
<1>5. CASE UNCHANGED vars
  BY <1>5 DEF vars, nodeVars, mainVars, IInv, TypeOK, LockKept, Owned
<1> QED BY <1>1, <1>2, <1>3, <1>4, <1>5 DEF Next

LEMMA Invariance == Spec => []IInv
<1>1. Init => IInv
  BY Initially, AsynAssumption
<1>2. IInv /\ [Next]_vars => IInv'
  BY StepsKeep
<1> QED BY <1>1, <1>2, PTL DEF Spec

\* For any AsynCtx objects, callers and addresses: types, and status agrees
\* with ctx.
THEOREM TypeCorrect == Spec => []TypeOK
<1>1. IInv => TypeOK
  BY DEF IInv
<1> QED BY <1>1, Invariance, PTL

\* For any AsynCtx objects, callers, addresses and failures: what an AsynCtx
\* has is a connection of its own.
THEOREM ConnectionsOwned == Spec => []OwnConnection
<1>1. IInv => OwnConnection
  BY DEF IInv, Owned, OwnConnection
<1> QED BY <1>1, Invariance, PTL

-----------------------------------------------------------------------------
(* join *)

\* A callback runs only inside event_base_dispatch, on a connection that is not
\* freed; and thr is 0 only before start and once run() is over.
Stopping ==
  /\ loop.c # NoConn => loop.at = Serving /\ conn[loop.c].st # "none"
  /\ main = "new" <=> loop.at = "off"
  /\ main # "new" /\ ~thr => loop.at \in {"clear", "ended"}
  /\ main = "joined" => ~thr

\* A call of Close frees no connection that a callback is running on.
LEMMA CloseSpares ==
  ASSUME TypeOK, NEW a \in Nodes, Close(a), loop.c # NoConn, conn[loop.c].st # "none"
  PROVE  conn'[loop.c].st # "none"
<1>1. loop.c \in Conns /\ conn \in [Conns -> ConnType]
  BY DEF TypeOK, ConnType
<1>2. CASE UNCHANGED conn
  BY <1>2
<1>3. CASE conn' = [conn EXCEPT ![ctx[a]] = Disconnected(ctx[a])]
  <2>1. CASE ctx[a] = loop.c
    <3>1. Disconnected(loop.c).st \in {"dropping", "closing"}
      BY <1>1 DEF Disconnected, ConnType
    <3> QED BY <1>1, <1>3, <2>1, <3>1
  <2>2. CASE ctx[a] # loop.c
    BY <1>1, <1>3, <2>2
  <2> QED BY <2>1, <2>2
<1> QED BY <1>2, <1>3 DEF Close

LEMMA SubmitSpares ==
  ASSUME IInv, NEW t \in Callers, call[t].at \in Busy, ctx[call[t].a] # NoConn,
         NEW do \in {"select", "cmd"}, NEW accepted, NEW refused, Submit(t, do, accepted, refused),
         NEW d \in Conns
  PROVE  conn'[d].st = conn[d].st
<1> DEFINE a == call[t].a
           c == ctx[a]
<1>1. /\ a \in Nodes /\ c \in Conns /\ conn \in [Conns -> ConnType]
      /\ conn[c].st \in {"none", "open", "closing", "dropping"}
  BY DEF IInv, TypeOK, ConnType
<1>2. conn' = Pending(c, do, a) \/ UNCHANGED conn
  BY <1>1 DEF Submit
<1> HIDE DEF a, c
<1>3. CASE conn' = Pending(c, do, a)
  <2> QED BY <1>1, <1>3 DEF Pending, ConnType
<1> QED BY <1>2, <1>3

LEMMA CallersSpare ==
  ASSUME IInv, Stopping, NEW t \in Callers, Caller(t)
  PROVE  Stopping'
<1>1. UNCHANGED <<loop, mainVars>>
  BY DEF Caller, Lock, Command, CloseOld, Connect, ConnectFails, Select, Unlock
<1>2. ASSUME loop.c # NoConn PROVE conn'[loop.c].st # "none"
  <2>1. loop.c \in Conns /\ conn \in [Conns -> ConnType] /\ conn[loop.c].st # "none"
    BY <1>2 DEF IInv, TypeOK, ConnType, Stopping
  <2>2. CASE Lock(t) \/ ConnectFails(t) \/ Unlock(t)
    BY <2>1, <2>2 DEF Lock, ConnectFails, Unlock
  <2>3. CASE CloseOld(t)
    <3>1. call[t].a \in Nodes /\ Close(call[t].a)
      BY <2>3 DEF CloseOld, At, IInv, TypeOK, Busy, Holding
    <3> QED BY <1>2, <2>1, <3>1, CloseSpares DEF IInv
  <2>4. CASE Connect(t)
    BY <2>1, <2>4 DEF Connect
  <2>5. CASE Command(t) \/ Select(t)
    <3>1. /\ call[t].at \in Busy
          /\ \/ UNCHANGED conn
             \/ /\ ctx[call[t].a] # NoConn
                /\ Submit(t, "cmd", "unlock", "close") \/ Submit(t, "select", "unlock", "undo")
      BY <2>5 DEF Command, Select, At, IInv, LockKept, Busy, Holding
    <3> QED BY <2>1, <3>1, SubmitSpares
  <2> QED BY <2>2, <2>3, <2>4, <2>5 DEF Caller
<1> QED BY <1>1, <1>2 DEF Stopping, mainVars

LEMMA LoopStops ==
  ASSUME IInv, Stopping, Loop
  PROVE  Stopping'
<1>1. /\ loop.c \in Conns \cup {NoConn} /\ conn \in [Conns -> ConnType] /\ loop \in LoopType
      /\ thr \in BOOLEAN
  BY DEF IInv, TypeOK, ConnType, LoopType
<1>2. CASE CloseSafe
  <2>1. loop.a \in Nodes /\ Close(loop.a) /\ loop' = [loop EXCEPT !.a = NoNode] /\ UNCHANGED mainVars
    BY <1>2 DEF CloseSafe, IInv, TypeOK
  <2>2. loop'.c = loop.c /\ loop'.at = loop.at
    BY <1>1, <2>1 DEF LoopType
  <2> QED BY <2>1, <2>2, CloseSpares DEF IInv, Stopping, mainVars
<1>3. CASE CallbackDone
  <2>1. loop.c # NoConn /\ UNCHANGED mainVars
    BY <1>3 DEF CallbackDone
  <2>2. CASE RunCallback(loop.c, "dropping", "NULL")
    <3>1. loop'.c = loop.c /\ loop'.at = loop.at /\ conn'[loop.c].st = "dropping"
      BY <1>1, <2>1, <2>2 DEF RunCallback, LoopType
    <3> QED BY <2>1, <3>1 DEF Stopping, mainVars
  <2>3. CASE loop' = [loop EXCEPT !.c = NoConn]
    BY <1>1, <2>1, <2>3 DEF Stopping, LoopType, mainVars
  <2> QED BY <1>3, <2>2, <2>3 DEF CallbackDone
<1>4. CASE DispatchReturns
  <2>1. loop.c = NoConn
    BY <1>1, <1>4 DEF DispatchReturns, Stopping
  <2> QED BY <1>1, <1>4, <2>1 DEF DispatchReturns, LoopAt, LoopType, Stopping, Serving, mainVars
<1>5. CASE Check \/ Wake \/ ClearThr \/ ClearRun
  <2>1. loop.c = NoConn /\ loop'.c = loop.c
    BY <1>1, <1>5 DEF Check, Wake, ClearThr, ClearRun, LoopAt, LoopType, Stopping, Serving
  <2>2. loop.at # "off" /\ loop'.at # "off" /\ main # "new" /\ main' = main
    BY <1>1, <1>5 DEF Check, Wake, ClearThr, ClearRun, LoopAt, LoopType, Stopping, Serving, mainVars
  <2>3. CASE Check \/ Wake
    BY <1>1, <2>1, <2>2, <2>3 DEF Check, Wake, LoopAt, Stopping, mainVars
  <2>4. CASE ClearThr \/ ClearRun
    BY <1>1, <2>1, <2>2, <2>4 DEF ClearThr, ClearRun, LoopAt, LoopType, Stopping
  <2> QED BY <1>5, <2>3, <2>4
<1> QED BY <1>2, <1>3, <1>4, <1>5 DEF Loop

LEMMA JoinStops ==
  ASSUME IInv, Stopping, Start \/ Stop \/ Join
  PROVE  Stopping'
<1>1. loop \in LoopType /\ UNCHANGED conn /\ thr \in BOOLEAN
  BY DEF IInv, TypeOK, LoopType, Start, Stop, Join, JoinCheck, JoinRead,
         JoinReturns, MainAt
<1>2. CASE Start
  BY <1>1, <1>2 DEF Start, MainAt, LoopType, Stopping, Serving
<1>3. CASE Stop \/ JoinCheck \/ JoinRead \/ JoinReturns
  BY <1>1, <1>3 DEF Stop, JoinCheck, JoinRead, JoinReturns, MainAt, Stopping
<1> QED BY <1>2, <1>3 DEF Join

LEMMA StoppingStays ==
  ASSUME IInv, Stopping, [Next]_vars
  PROVE  Stopping'
<1>1. ASSUME NEW t \in Callers, Caller(t) PROVE Stopping'
  BY <1>1, CallersSpare
<1>2. ASSUME NEW t \in Callers, NEW a \in Nodes, Begin(t, a) PROVE Stopping'
  BY <1>2 DEF Begin, Stopping, mainVars
<1>3. ASSUME NEW c \in Conns, Reply(c) \/ Drop(c) PROVE Stopping'
  <2>1. /\ loop.at = Serving /\ loop.c = NoConn /\ conn[c].st # "none" /\ UNCHANGED mainVars
        /\ conn \in [Conns -> ConnType] /\ loop \in LoopType
    BY <1>3 DEF Reply, Drop, Ready, IInv, TypeOK, ConnType, LoopType
  <2>2. CASE UNCHANGED loop
    BY <2>1, <2>2 DEF Stopping, mainVars
  <2>3. ASSUME NEW st, NEW reply, st # "none", RunCallback(c, st, reply) PROVE Stopping'
    <3>1. loop'.at = Serving /\ loop'.c = c /\ conn'[c].st = st
      BY <2>1, <2>3 DEF RunCallback, LoopType
    <3> QED BY <2>1, <2>3, <3>1 DEF Stopping, mainVars
  <2> QED BY <1>3, <2>1, <2>2, <2>3 DEF Reply, Drop
<1>4. CASE Loop \/ Start \/ Stop \/ Join
  BY <1>4, LoopStops, JoinStops
<1>5. CASE UNCHANGED vars
  BY <1>5 DEF vars, mainVars, Stopping
<1> QED BY <1>1, <1>2, <1>3, <1>4, <1>5 DEF Next

\* For any AsynCtx objects, callers, addresses and failures: when join returns,
\* no callback runs or will.
THEOREM NoneAfterJoin == Spec => []JoinedIsOver
<1>1. Init => Stopping
  BY DEF Init, Stopping
<1>2. IInv /\ Stopping /\ [Next]_vars => Stopping'
  BY StoppingStays
<1>3. Stopping => JoinedIsOver
  BY DEF Stopping, JoinedIsOver, Serving
<1> QED BY <1>1, <1>2, <1>3, Invariance, PTL DEF Spec

=============================================================================
