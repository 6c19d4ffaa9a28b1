--------------------------- MODULE RedisCtxProofs ---------------------------
(***************************************************************************)
(* Proofs about the synchronous connection, for any threads, batch size,   *)
(* calls and broken connections: a reply is the caller's own, nothing is   *)
(* left on a connection between calls, commands are executed once and in   *)
(* order, and what commit reports is so.                                   *)
(***************************************************************************)
EXTENDS RedisCtx, SequenceTheorems, TLAPS

-----------------------------------------------------------------------------
(* Sequences of commands *)

Increasing(s) == \A j \in DOMAIN s : \A i \in 1 .. j - 1 : s[i] < s[j]

LEMMA InAppend ==
  ASSUME NEW s \in Seq(Nat), NEW c \in Nat
  PROVE  In(Append(s, c)) = In(s) \cup {c}
<1>1. DOMAIN Append(s, c) = 1 .. Len(s) + 1 /\ DOMAIN s = 1 .. Len(s) /\ Len(s) \in Nat
  OBVIOUS
<1>2. \A i \in 1 .. Len(s) : Append(s, c)[i] = s[i]
  OBVIOUS
<1>3. Append(s, c)[Len(s) + 1] = c
  OBVIOUS
<1>4. \A i \in 1 .. Len(s) + 1 : i \in 1 .. Len(s) \/ i = Len(s) + 1
  BY <1>1
<1>5. 1 .. Len(s) \subseteq 1 .. Len(s) + 1 /\ Len(s) + 1 \in 1 .. Len(s) + 1
  BY <1>1
<1>6. In(Append(s, c)) \subseteq In(s) \cup {c}
  BY <1>1, <1>2, <1>3, <1>4 DEF In
<1>7. In(s) \cup {c} \subseteq In(Append(s, c))
  BY <1>1, <1>2, <1>3, <1>5 DEF In
<1> QED BY <1>6, <1>7

LEMMA InTail ==
  ASSUME NEW s \in Seq(Nat), s # << >>
  PROVE  /\ In(s) = {Head(s)} \cup In(Tail(s))
         /\ Tail(s) \in Seq(Nat) /\ Head(s) \in Nat
<1>1. /\ DOMAIN Tail(s) = 1 .. Len(s) - 1 /\ DOMAIN s = 1 .. Len(s) /\ Len(s) \in Nat \ {0}
      /\ Tail(s) \in Seq(Nat) /\ Head(s) \in Nat /\ Head(s) = s[1]
  OBVIOUS
<1>2. \A i \in 1 .. Len(s) - 1 : Tail(s)[i] = s[i + 1]
  OBVIOUS
<1>3. ASSUME NEW i \in 1 .. Len(s) PROVE s[i] \in {Head(s)} \cup In(Tail(s))
  <2>1. CASE i = 1
    BY <1>1, <2>1
  <2>2. CASE i # 1
    <3>1. i - 1 \in 1 .. Len(s) - 1 /\ (i - 1) + 1 = i
      BY <1>1, <2>2
    <3>2. Tail(s)[i - 1] = s[i]
      BY <1>2, <3>1
    <3> QED BY <1>1, <3>1, <3>2 DEF In
  <2> QED BY <2>1, <2>2
<1>4. ASSUME NEW i \in 1 .. Len(s) - 1 PROVE Tail(s)[i] \in In(s)
  <2>1. i + 1 \in 1 .. Len(s)
    BY <1>1
  <2> QED BY <1>1, <1>2, <2>1 DEF In
<1>5. s[1] \in In(s)
  <2>1. 1 \in 1 .. Len(s)
    BY <1>1
  <2> QED BY <1>1, <2>1 DEF In
<1>6. In(s) \subseteq {Head(s)} \cup In(Tail(s))
  BY <1>1, <1>3 DEF In
<1>7. {Head(s)} \cup In(Tail(s)) \subseteq In(s)
  BY <1>1, <1>4, <1>5 DEF In
<1> QED BY <1>1, <1>6, <1>7

LEMMA InConcat ==
  ASSUME NEW s \in Seq(Nat), NEW t \in Seq(Nat)
  PROVE  In(s \o t) = In(s) \cup In(t)
<1>1. /\ DOMAIN (s \o t) = 1 .. Len(s) + Len(t) /\ DOMAIN s = 1 .. Len(s) /\ DOMAIN t = 1 .. Len(t)
      /\ Len(s) \in Nat /\ Len(t) \in Nat
  OBVIOUS
<1>2. \A i \in 1 .. Len(s) : (s \o t)[i] = s[i]
  OBVIOUS
<1>3. \A i \in 1 .. Len(t) : (s \o t)[Len(s) + i] = t[i]
  OBVIOUS
<1>4. ASSUME NEW i \in 1 .. Len(s) + Len(t) PROVE (s \o t)[i] \in In(s) \cup In(t)
  <2>1. CASE i <= Len(s)
    <3>1. i \in 1 .. Len(s)
      BY <1>1, <2>1
    <3> QED BY <1>1, <1>2, <3>1 DEF In
  <2>2. CASE i > Len(s)
    <3>1. i - Len(s) \in 1 .. Len(t) /\ Len(s) + (i - Len(s)) = i
      BY <1>1, <2>2
    <3>2. (s \o t)[i] = t[i - Len(s)]
      BY <1>3, <3>1
    <3> QED BY <1>1, <3>1, <3>2 DEF In
  <2> QED BY <1>1, <2>1, <2>2
<1>5. ASSUME NEW i \in 1 .. Len(s) PROVE s[i] \in In(s \o t)
  <2>1. i \in 1 .. Len(s) + Len(t)
    BY <1>1
  <2> QED BY <1>1, <1>2, <2>1 DEF In
<1>6. ASSUME NEW i \in 1 .. Len(t) PROVE t[i] \in In(s \o t)
  <2>1. Len(s) + i \in 1 .. Len(s) + Len(t)
    BY <1>1
  <2> QED BY <1>1, <1>3, <2>1 DEF In
<1>7. In(s \o t) \subseteq In(s) \cup In(t)
  BY <1>1, <1>4 DEF In
<1>8. In(s) \cup In(t) \subseteq In(s \o t)
  BY <1>1, <1>5, <1>6 DEF In
<1> QED BY <1>7, <1>8

LEMMA FrontOfConcat ==
  ASSUME NEW s \in Seq(Nat), NEW t \in Seq(Nat), s # << >>
  PROVE  s \o t # << >> /\ Head(s \o t) = Head(s) /\ Tail(s \o t) = Tail(s) \o t
<1>1. /\ Len(s) \in Nat \ {0} /\ Len(t) \in Nat /\ s \o t \in Seq(Nat) /\ Tail(s) \in Seq(Nat)
      /\ Len(s \o t) = Len(s) + Len(t) /\ Len(Tail(s)) = Len(s) - 1
  OBVIOUS
<1>2. s \o t # << >> /\ Head(s \o t) = s[1] /\ Head(s) = s[1]
  BY <1>1
<1>3. Tail(s \o t) \in Seq(Nat) /\ Tail(s) \o t \in Seq(Nat)
  BY <1>1, <1>2
<1>4. Len(Tail(s \o t)) = Len(s) + Len(t) - 1 /\ Len(Tail(s) \o t) = Len(s) + Len(t) - 1
  BY <1>1, <1>2
<1>5. ASSUME NEW i \in 1 .. Len(s) + Len(t) - 1
      PROVE  Tail(s \o t)[i] = (Tail(s) \o t)[i]
  <2>1. Tail(s \o t)[i] = (s \o t)[i + 1]
    BY <1>1, <1>2
  <2>2. CASE i <= Len(s) - 1
    BY <1>1, <2>1, <2>2
  <2>3. CASE i > Len(s) - 1
    BY <1>1, <2>1, <2>3
  <2> QED BY <1>1, <2>2, <2>3
<1> QED BY <1>2, <1>3, <1>4, <1>5, SeqEqual

LEMMA OneLess ==
  ASSUME NEW s \in Seq(Nat), NEW r \in Seq(Nat), r # << >>
  PROVE  /\ Len(s) + Len(Tail(r)) = (Len(s) + Len(r)) - 1
         /\ Len(s) + Len(r) = 1 => s = << >> /\ Tail(r) = << >>
<1>1. PICK a \in Nat : a = Len(s)
  OBVIOUS
<1>2. PICK b \in Nat \ {0} : b = Len(r)
  OBVIOUS
<1>3. Tail(r) \in Seq(Nat) /\ Len(Tail(r)) = b - 1
  BY <1>2
<1>4. \A q \in Seq(Nat) : Len(q) = 0 => q = << >>
  OBVIOUS
<1>5. a + (b - 1) = (a + b) - 1 /\ (a + b = 1 => a = 0 /\ b - 1 = 0)
  OBVIOUS
<1>6. Len(s) + Len(Tail(r)) = (Len(s) + Len(r)) - 1
  BY <1>1, <1>2, <1>3, <1>5
<1>7. ASSUME Len(s) + Len(r) = 1 PROVE Len(s) = 0 /\ Len(Tail(r)) = 0
  BY <1>1, <1>2, <1>3, <1>5, <1>7
<1> QED BY <1>3, <1>4, <1>6, <1>7

LEMMA OneAcross ==
  ASSUME NEW s \in Seq(Nat), NEW r \in Seq(Nat), s # << >>, NEW c \in Nat
  PROVE  Len(Tail(s)) + Len(Append(r, c)) = Len(s) + Len(r)
<1>1. PICK a \in Nat \ {0} : a = Len(s)
  OBVIOUS
<1>2. PICK b \in Nat : b = Len(r)
  OBVIOUS
<1>3. Len(Tail(s)) = a - 1
  BY <1>1
<1>4. Len(Append(r, c)) = b + 1
  BY <1>2
<1>5. (a - 1) + (b + 1) = a + b
  OBVIOUS
<1> QED BY <1>1, <1>2, <1>3, <1>4, <1>5

LEMMA IncreasingAppend ==
  ASSUME NEW s \in Seq(Nat), Increasing(s), NEW c \in Nat, \A d \in In(s) : d < c
  PROVE  Increasing(Append(s, c))
<1> SUFFICES ASSUME NEW j \in DOMAIN Append(s, c), NEW i \in 1 .. j - 1
             PROVE  Append(s, c)[i] < Append(s, c)[j]
  BY DEF Increasing
<1>1. j \in 1 .. Len(s) + 1 /\ Len(s) \in Nat /\ DOMAIN s = 1 .. Len(s)
  OBVIOUS
<1>2. i \in 1 .. Len(s) /\ Append(s, c)[i] = s[i]
  BY <1>1
<1>3. CASE j = Len(s) + 1
  <2>1. s[i] \in In(s) /\ Append(s, c)[j] = c
    BY <1>1, <1>2, <1>3 DEF In
  <2> QED BY <1>2, <2>1
<1>4. CASE j \in 1 .. Len(s)
  <2>1. s[i] < s[j] /\ Append(s, c)[j] = s[j]
    BY <1>1, <1>4 DEF Increasing
  <2> QED BY <1>2, <2>1
<1> QED BY <1>1, <1>3, <1>4

LEMMA IncreasingTail ==
  ASSUME NEW s \in Seq(Nat), Increasing(s), s # << >>
  PROVE  Increasing(Tail(s)) /\ \A d \in In(Tail(s)) : Head(s) < d
<1>1. /\ DOMAIN Tail(s) = 1 .. Len(s) - 1 /\ DOMAIN s = 1 .. Len(s) /\ Len(s) \in Nat \ {0}
      /\ Head(s) = s[1]
  OBVIOUS
<1>2. \A i \in 1 .. Len(s) - 1 : Tail(s)[i] = s[i + 1]
  OBVIOUS
<1>3. ASSUME NEW j \in 1 .. Len(s) - 1, NEW i \in 1 .. j - 1 PROVE Tail(s)[i] < Tail(s)[j]
  <2>1. i \in 1 .. Len(s) - 1 /\ i + 1 \in 1 .. (j + 1) - 1 /\ j + 1 \in 1 .. Len(s)
    BY <1>1
  <2>2. s[i + 1] < s[j + 1]
    BY <1>1, <2>1 DEF Increasing
  <2> QED BY <1>2, <2>1, <2>2
<1>4. ASSUME NEW j \in 1 .. Len(s) - 1 PROVE Head(s) < Tail(s)[j]
  <2>1. 1 \in 1 .. (j + 1) - 1 /\ j + 1 \in 1 .. Len(s)
    BY <1>1
  <2>2. s[1] < s[j + 1]
    BY <1>1, <2>1 DEF Increasing
  <2> QED BY <1>1, <1>2, <2>2
<1> QED BY <1>1, <1>3, <1>4 DEF Increasing, In

LEMMA IncreasingFront ==
  ASSUME NEW s \in Seq(Nat), NEW t \in Seq(Nat), Increasing(s \o t)
  PROVE  \A i, j \in DOMAIN s : s[i] = s[j] => i = j
<1>1. /\ DOMAIN (s \o t) = 1 .. Len(s) + Len(t) /\ DOMAIN s = 1 .. Len(s)
      /\ Len(s) \in Nat /\ Len(t) \in Nat
  OBVIOUS
<1>2. \A i \in 1 .. Len(s) : (s \o t)[i] = s[i] /\ s[i] \in Nat
  OBVIOUS
<1>3. ASSUME NEW j \in 1 .. Len(s), NEW i \in 1 .. Len(s), i < j PROVE s[i] < s[j]
  <2>1. j \in 1 .. Len(s) + Len(t) /\ i \in 1 .. j - 1
    BY <1>1, <1>3
  <2>2. (s \o t)[i] < (s \o t)[j]
    BY <1>1, <2>1 DEF Increasing
  <2> QED BY <1>2, <2>2
<1> SUFFICES ASSUME NEW i \in 1 .. Len(s), NEW j \in 1 .. Len(s), s[i] = s[j]
             PROVE  i = j
  BY <1>1
<1>4. s[i] \in Nat /\ ~(i < j) /\ ~(j < i)
  BY <1>2, <1>3
<1> QED BY <1>4

-----------------------------------------------------------------------------
(* What a connection was given, what of it is not executed yet, and what the *)
(* server has executed                                                       *)

Stream(given, pend, exec) ==
  /\ Increasing(given) /\ Increasing(pend)
  /\ In(pend) \subseteq In(given)
  /\ In(given) \subseteq In(exec) \cup In(pend)
  /\ \A d \in In(exec) \cap In(given), p \in In(pend) : d < p
  /\ \A j \in DOMAIN exec : \A i \in 1 .. j - 1 :
       {exec[i], exec[j]} \subseteq In(given) => exec[i] < exec[j]

\* A new command is given to the connection.
LEMMA StreamGiven ==
  ASSUME NEW given \in Seq(Nat), NEW pend \in Seq(Nat), NEW exec \in Seq(Nat), NEW c \in Nat,
         Stream(given, pend, exec), \A d \in In(given) \cup In(exec) : d < c
  PROVE  Stream(Append(given, c), Append(pend, c), exec)
<1>1. /\ In(Append(given, c)) = In(given) \cup {c}
      /\ In(Append(pend, c)) = In(pend) \cup {c}
  BY InAppend
<1>2. c \notin In(exec)
  <2>1. ~(c < c)
    OBVIOUS
  <2> QED BY <2>1
<1>3. Increasing(Append(given, c)) /\ Increasing(Append(pend, c))
  BY IncreasingAppend DEF Stream
<1>4. \A d \in In(exec) \cap (In(given) \cup {c}), p \in In(pend) \cup {c} : d < p
  BY <1>2 DEF Stream
<1>5. ASSUME NEW j \in DOMAIN exec, NEW i \in 1 .. j - 1,
             {exec[i], exec[j]} \subseteq In(given) \cup {c}
      PROVE  exec[i] < exec[j]
  <2>1. DOMAIN exec = 1 .. Len(exec) /\ Len(exec) \in Nat
    OBVIOUS
  <2>2. i \in DOMAIN exec
    BY <2>1
  <2>3. exec[i] \in In(exec) /\ exec[j] \in In(exec)
    BY <2>2 DEF In
  <2> QED BY <1>2, <1>5, <2>3 DEF Stream
<1> QED BY <1>1, <1>3, <1>4, <1>5 DEF Stream

\* The server executes the first command that is pending.
LEMMA StreamExecuted ==
  ASSUME NEW given \in Seq(Nat), NEW pend \in Seq(Nat), NEW exec \in Seq(Nat),
         Stream(given, pend, exec), pend # << >>
  PROVE  Stream(given, Tail(pend), Append(exec, Head(pend)))
<1> DEFINE c == Head(pend)
<1>1. /\ In(pend) = {c} \cup In(Tail(pend)) /\ c \in Nat
      /\ Increasing(Tail(pend)) /\ \A d \in In(Tail(pend)) : c < d
  BY InTail, IncreasingTail DEF Stream
<1>2. In(Append(exec, c)) = In(exec) \cup {c}
  BY <1>1, InAppend
<1>3. \A d \in In(exec) \cap In(given) : d < c
  BY <1>1 DEF Stream
<1> HIDE DEF c
<1>4. ASSUME NEW j \in DOMAIN Append(exec, c), NEW i \in 1 .. j - 1,
             {Append(exec, c)[i], Append(exec, c)[j]} \subseteq In(given)
      PROVE  Append(exec, c)[i] < Append(exec, c)[j]
  <2>1. j \in 1 .. Len(exec) + 1 /\ Len(exec) \in Nat /\ DOMAIN exec = 1 .. Len(exec)
    BY <1>1
  <2>2. i \in 1 .. Len(exec)
    BY <2>1
  <2>3. Append(exec, c)[i] = exec[i] /\ exec[i] \in In(exec)
    BY <1>1, <2>1, <2>2 DEF In
  <2>4. CASE j = Len(exec) + 1
    <3>1. Append(exec, c)[j] = c
      BY <1>1, <2>4
    <3> QED BY <1>3, <1>4, <2>3, <3>1
  <2>5. CASE j \in 1 .. Len(exec)
    <3>1. Append(exec, c)[j] = exec[j]
      BY <1>1, <2>5
    <3> QED BY <1>4, <2>1, <2>3, <2>5, <3>1 DEF Stream
  <2> QED BY <2>1, <2>4, <2>5
<1>5. \A d \in (In(exec) \cup {c}) \cap In(given), p \in In(Tail(pend)) : d < p
  BY <1>1 DEF Stream
<1>6. Increasing(given) /\ In(Tail(pend)) \subseteq In(given)
      /\ In(given) \subseteq (In(exec) \cup {c}) \cup In(Tail(pend))
  BY <1>1 DEF Stream
<1> QED BY <1>1, <1>2, <1>4, <1>5, <1>6 DEF Stream, c

\* The server executes what was never given to this connection.
LEMMA StreamElsewhere ==
  ASSUME NEW given \in Seq(Nat), NEW pend \in Seq(Nat), NEW exec \in Seq(Nat), NEW c \in Nat,
         Stream(given, pend, exec), c \notin In(given)
  PROVE  Stream(given, pend, Append(exec, c))
<1>1. In(Append(exec, c)) = In(exec) \cup {c}
  BY InAppend
<1>2. ASSUME NEW j \in DOMAIN Append(exec, c), NEW i \in 1 .. j - 1,
             {Append(exec, c)[i], Append(exec, c)[j]} \subseteq In(given)
      PROVE  Append(exec, c)[i] < Append(exec, c)[j]
  <2>1. j \in 1 .. Len(exec) + 1 /\ Len(exec) \in Nat /\ DOMAIN exec = 1 .. Len(exec)
    OBVIOUS
  <2>2. j # Len(exec) + 1
    BY <1>2, <2>1
  <2>3. j \in 1 .. Len(exec) /\ i \in 1 .. Len(exec)
    BY <2>1, <2>2
  <2>4. Append(exec, c)[i] = exec[i] /\ Append(exec, c)[j] = exec[j]
    BY <2>3
  <2> QED BY <1>2, <2>1, <2>3, <2>4 DEF Stream
<1> QED BY <1>1, <1>2 DEF Stream

LEMMA StreamEmpty ==
  ASSUME NEW exec \in Seq(Nat)
  PROVE  Stream(<< >>, << >>, exec)
BY DEF Stream, Increasing, In

-----------------------------------------------------------------------------
(* Every command is executed once, and in the order of its connection *)

\* Sent, or still buffered, and not executed.
Pending(x) == ctx[x].inbox \o ctx[x].obuf

Streams == \A x \in Ctxs : Stream(onConn[x], Pending(x), done)

ConnsApart == \A x, y \in Ctxs : x # y => In(onConn[x]) \cap In(onConn[y]) = {}

\* What was sent on connections given up is not executed, is not twice there,
\* and was not given to another connection.
LateApart ==
  \A late \in limbo :
    /\ late # << >>
    /\ \A i, j \in DOMAIN late : late[i] = late[j] => i = j
    /\ In(late) \cap In(done) = {}
    /\ \A x \in Ctxs : In(late) \cap In(onConn[x]) = {}
    /\ \A other \in limbo \ {late} : In(late) \cap In(other) = {}

Once == \A i, j \in DOMAIN done : done[i] = done[j] => i = j

Numbered == Streams /\ ConnsApart /\ LateApart /\ Once

LEMMA CtxTyped ==
  ASSUME TypeOK, NEW x \in Ctxs
  PROVE  /\ ctx[x] \in CtxType /\ onConn[x] \in Seq(Nat) /\ Pending(x) \in Seq(Nat)
         /\ ctx[x].inbox \in Seq(Nat) /\ ctx[x].obuf \in Seq(Nat) /\ ctx[x].replies \in Seq(Nat)
         /\ In(Pending(x)) = In(ctx[x].inbox) \cup In(ctx[x].obuf)
<1>1. ctx[x] \in CtxType /\ onConn[x] \in Seq(Nat)
  BY DEF TypeOK
<1>2. ctx[x].inbox \in Seq(Nat) /\ ctx[x].obuf \in Seq(Nat) /\ ctx[x].replies \in Seq(Nat)
  BY <1>1 DEF CtxType
<1> QED BY <1>1, <1>2, InConcat DEF Pending

\* What leaves all this alone.
LEMMA NumbersKept ==
  ASSUME Numbered, UNCHANGED <<onConn, done, limbo>>, \A x \in Ctxs : Pending(x)' = Pending(x)
  PROVE  Numbered'
BY DEF Numbered, Streams, ConnsApart, LateApart, Once

\* Send and AppendV give a new command to a connection.
LEMMA GivenNumbered ==
  ASSUME TypeOK, Numbered, NEW x \in Ctxs,
         onConn' = [onConn EXCEPT ![x] = Append(@, made + 1)],
         Pending(x)' = Append(Pending(x), made + 1),
         \A y \in Ctxs \ {x} : Pending(y)' = Pending(y),
         UNCHANGED <<done, limbo>>
  PROVE  Numbered'
<1> DEFINE c == made + 1
<1>1. /\ c \in Nat /\ done \in Seq(Nat) /\ onConn \in [Ctxs -> Seq(Nat)]
      /\ \A y \in Ctxs : \A d \in In(onConn[y]) : d < c
      /\ \A d \in In(done) : d < c
      /\ \A late \in limbo : \A d \in In(late) : d < c
  <2>1. made \in Nat /\ \A d \in 1 .. made : d < made + 1
    BY DEF TypeOK
  <2>2. c \in Nat /\ done \in Seq(Nat) /\ onConn \in [Ctxs -> Seq(Nat)]
    BY <2>1 DEF TypeOK
  <2>3. /\ \A y \in Ctxs : In(onConn[y]) \subseteq 1 .. made
        /\ In(done) \subseteq 1 .. made
        /\ \A late \in limbo : In(late) \subseteq 1 .. made
    BY Zenon DEF TypeOK
  <2> QED BY <2>1, <2>2, <2>3
<1>2. /\ onConn'[x] = Append(onConn[x], c)
      /\ \A y \in Ctxs \ {x} : onConn'[y] = onConn[y]
      /\ In(onConn'[x]) = In(onConn[x]) \cup {c}
  BY <1>1, InAppend
<1> HIDE DEF c
<1>3. Streams'
  <2>1. Stream(onConn'[x], Pending(x)', done)
    BY <1>1, <1>2, CtxTyped, StreamGiven DEF Numbered, Streams, c
  <2> QED BY <1>2, <2>1 DEF Numbered, Streams
<1>4. ~(c < c)
  BY <1>1
<1>5. ConnsApart'
  BY <1>1, <1>2, <1>4 DEF Numbered, ConnsApart
<1>6. LateApart'
  <2>1. ASSUME NEW late \in limbo, NEW y \in Ctxs PROVE In(late) \cap In(onConn'[y]) = {}
    <3>1. In(late) \cap In(onConn[y]) = {} /\ c \notin In(late)
      BY <1>1, <1>4 DEF Numbered, LateApart
    <3> QED BY <1>2, <3>1
  <2> QED BY <2>1 DEF Numbered, LateApart
<1> QED BY <1>3, <1>5, <1>6 DEF Numbered, Once

\* done grows by a command that was not there.
LEMMA OnceMore ==
  ASSUME NEW exec \in Seq(Nat), NEW c \in Nat, c \notin In(exec),
         \A i, j \in DOMAIN exec : exec[i] = exec[j] => i = j
  PROVE  \A i, j \in DOMAIN Append(exec, c) : Append(exec, c)[i] = Append(exec, c)[j] => i = j
<1>1. DOMAIN Append(exec, c) = 1 .. Len(exec) + 1 /\ DOMAIN exec = 1 .. Len(exec) /\ Len(exec) \in Nat
  OBVIOUS
<1>2. \A i \in 1 .. Len(exec) : Append(exec, c)[i] = exec[i] /\ exec[i] \in In(exec)
  BY <1>1 DEF In
<1>3. Append(exec, c)[Len(exec) + 1] = c
  OBVIOUS
<1>4. \A i \in DOMAIN Append(exec, c) : i \in 1 .. Len(exec) \/ i = Len(exec) + 1
  BY <1>1
<1> QED BY <1>1, <1>2, <1>3, <1>4

LEMMA ExecuteNumbers ==
  ASSUME TypeOK, Numbered, NEW x \in Ctxs, Execute(x)
  PROVE  Numbered'
<1> DEFINE c == Head(ctx[x].inbox)
<1>1. /\ ctx[x].inbox # << >> /\ UNCHANGED <<onConn, limbo>> /\ done' = Append(done, c)
      /\ ctx' = [ctx EXCEPT ![x].inbox = Tail(@), ![x].replies = Append(@, Head(ctx[x].inbox))]
  BY DEF Execute
<1>2. /\ c \in Nat /\ ctx[x].inbox \in Seq(Nat) /\ ctx[x].obuf \in Seq(Nat) /\ done \in Seq(Nat)
      /\ c \in In(ctx[x].inbox)
  <2>1. ctx[x].inbox \in Seq(Nat) /\ ctx[x].obuf \in Seq(Nat) /\ done \in Seq(Nat)
    BY CtxTyped DEF TypeOK
  <2> QED BY <1>1, <2>1, InTail
<1>3. /\ Pending(x) # << >> /\ c = Head(Pending(x)) /\ Pending(x)' = Tail(Pending(x))
      /\ \A y \in Ctxs \ {x} : Pending(y)' = Pending(y)
  <2>1. /\ ctx'[x].inbox = Tail(ctx[x].inbox) /\ ctx'[x].obuf = ctx[x].obuf
        /\ \A y \in Ctxs \ {x} : ctx'[y] = ctx[y]
    BY <1>1 DEF TypeOK, CtxType
  <2>2. /\ ctx[x].inbox \o ctx[x].obuf # << >>
        /\ Head(ctx[x].inbox \o ctx[x].obuf) = c
        /\ Tail(ctx[x].inbox \o ctx[x].obuf) = Tail(ctx[x].inbox) \o ctx[x].obuf
    BY <1>1, <1>2, FrontOfConcat
  <2> QED BY <2>1, <2>2 DEF Pending
<1>4. c \in In(Pending(x)) /\ c \in In(onConn[x]) /\ c \notin In(done)
  <2>1. c \in In(Pending(x))
    BY <1>2, CtxTyped
  <2>2. ~(c < c)
    BY <1>2
  <2> QED BY <2>1, <2>2 DEF Numbered, Streams, Stream
<1>5. \A y \in Ctxs \ {x} : c \notin In(onConn[y])
  BY <1>4 DEF Numbered, ConnsApart
<1> HIDE DEF c
<1>6. Streams'
  <2>1. Stream(onConn[x], Pending(x)', done')
    BY <1>1, <1>3, CtxTyped, StreamExecuted DEF Numbered, Streams, TypeOK
  <2>2. ASSUME NEW y \in Ctxs \ {x} PROVE Stream(onConn[y], Pending(y)', done')
    BY <1>1, <1>2, <1>3, <1>5, CtxTyped, StreamElsewhere DEF Numbered, Streams
  <2> QED BY <1>1, <2>1, <2>2 DEF Streams
<1>7. In(done') = In(done) \cup {c}
  BY <1>1, <1>2, InAppend
<1>8. LateApart'
  <2>1. \A late \in limbo : c \notin In(late)
    BY <1>4 DEF Numbered, LateApart
  <2> QED BY <1>1, <1>7, <2>1 DEF Numbered, LateApart
<1>9. Once'
  BY <1>1, <1>2, <1>4, OnceMore DEF Numbered, Once
<1> QED BY <1>1, <1>6, <1>8, <1>9 DEF Numbered, ConnsApart

LEMMA ExecuteLateNumbers ==
  ASSUME TypeOK, Numbered, ExecuteLate
  PROVE  Numbered'
<1>1. PICK late \in limbo :
        /\ done' = Append(done, Head(late))
        /\ limbo' = (limbo \ {late}) \cup (IF Len(late) = 1 THEN {} ELSE {Tail(late)})
        /\ UNCHANGED <<ctx, onConn>>
  BY DEF ExecuteLate
<1> DEFINE c == Head(late)
<1>2. /\ late \in Seq(Nat) /\ late # << >> /\ done \in Seq(Nat)
      /\ In(late) = {c} \cup In(Tail(late)) /\ c \in Nat /\ Tail(late) \in Seq(Nat)
  BY InTail DEF TypeOK, Numbered, LateApart
<1>3. c \notin In(done) /\ \A x \in Ctxs : c \notin In(onConn[x])
  BY <1>2 DEF Numbered, LateApart
<1>4. /\ c \notin In(Tail(late))
      /\ \A i, j \in DOMAIN Tail(late) : Tail(late)[i] = Tail(late)[j] => i = j
      /\ Len(late) # 1 => Tail(late) # << >>
  <2>1. /\ DOMAIN late = 1 .. Len(late) /\ DOMAIN Tail(late) = 1 .. Len(late) - 1
        /\ Len(late) \in Nat \ {0} /\ c = late[1]
        /\ \A i \in 1 .. Len(late) - 1 : Tail(late)[i] = late[i + 1]
    BY <1>2
  <2>2. \A i \in 1 .. Len(late) - 1 : i + 1 \in 1 .. Len(late) /\ i + 1 # 1 /\ i \in Int
    BY <2>1
  <2>3. \A i, j \in 1 .. Len(late) : late[i] = late[j] => i = j
    BY <2>1 DEF Numbered, LateApart
  <2>4. c \notin In(Tail(late))
    <3>1. 1 \in 1 .. Len(late)
      BY <2>1
    <3> QED BY <2>1, <2>2, <2>3, <3>1 DEF In
  <2>5. ASSUME NEW i \in DOMAIN Tail(late), NEW j \in DOMAIN Tail(late), Tail(late)[i] = Tail(late)[j]
        PROVE  i = j
    <3>1. i + 1 = j + 1
      BY <2>1, <2>2, <2>3, <2>5
    <3> QED BY <2>1, <2>2, <3>1
  <2>6. Len(late) # 1 => Tail(late) # << >>
    <3>1. Len(Tail(late)) = Len(late) - 1
      BY <1>2
    <3>2. Len(<< >>) = 0
      OBVIOUS
    <3> QED BY <2>1, <3>1, <3>2
  <2> QED BY <2>4, <2>5, <2>6
<1> HIDE DEF c
<1>5. In(done') = In(done) \cup {c}
  BY <1>1, <1>2, InAppend DEF c
<1>6. Streams'
  <2>1. ASSUME NEW x \in Ctxs PROVE Stream(onConn[x], Pending(x), done')
    BY <1>1, <1>2, <1>3, CtxTyped, StreamElsewhere DEF Numbered, Streams, c
  <2> QED BY <1>1, <2>1 DEF Streams, Pending
<1>7. Once'
  BY <1>1, <1>2, <1>3, OnceMore DEF Numbered, Once, c
<1>8. LateApart'
  <2>1. limbo' \subseteq (limbo \ {late}) \cup {Tail(late)} /\ (Tail(late) \in limbo' => Tail(late) \in limbo \/ Len(late) # 1)
    BY <1>1
  <2>2. \A other \in limbo \ {late} : In(late) \cap In(other) = {}
    BY DEF Numbered, LateApart
  <2>3. ASSUME NEW old \in limbo', old # Tail(late) \/ old \in limbo \ {late}
        PROVE  /\ old # << >> /\ \A i, j \in DOMAIN old : old[i] = old[j] => i = j
               /\ In(old) \cap In(done') = {} /\ \A x \in Ctxs : In(old) \cap In(onConn[x]) = {}
    <3>1. old \in limbo \ {late}
      BY <2>1, <2>3
    <3> QED BY <1>2, <1>5, <2>2, <3>1 DEF Numbered, LateApart
  <2>4. ASSUME Tail(late) \in limbo', Tail(late) \notin limbo \ {late}
        PROVE  /\ Tail(late) # << >>
               /\ \A i, j \in DOMAIN Tail(late) : Tail(late)[i] = Tail(late)[j] => i = j
               /\ In(Tail(late)) \cap In(done') = {}
               /\ \A x \in Ctxs : In(Tail(late)) \cap In(onConn[x]) = {}
    <3>1. Len(late) # 1
      BY <1>1, <2>4
    <3> QED BY <1>2, <1>4, <1>5, <3>1 DEF Numbered, LateApart
  <2>5. ASSUME NEW old \in limbo', NEW other \in limbo' \ {old} PROVE In(old) \cap In(other) = {}
    <3>1. In(Tail(late)) \subseteq In(late)
      BY <1>2
    <3>2. \A a \in limbo \ {late}, b \in limbo \ {late} : a # b => In(a) \cap In(b) = {}
      BY DEF Numbered, LateApart
    <3>3. CASE old \in limbo \ {late} /\ other \in limbo \ {late}
      BY <3>2, <3>3
    <3>4. CASE old = Tail(late) /\ other \in limbo \ {late}
      BY <2>2, <3>1, <3>4
    <3>5. CASE old \in limbo \ {late} /\ other = Tail(late)
      BY <2>2, <3>1, <3>5
    <3> QED BY <2>1, <3>3, <3>4, <3>5
  <2> QED BY <1>1, <2>3, <2>4, <2>5 DEF LateApart
<1> QED BY <1>1, <1>6, <1>7, <1>8 DEF Numbered, ConnsApart

-----------------------------------------------------------------------------
(* The inductive invariant *)

Working == {"send", "receive", "append", "replies", "drain"}
Batching(o) == o \in {"appendCmd", "commit"}
Holds(t) == pc[t] \notin {"idle", "lock"}

\* A thread has the m_lock of the RedisCtx it works on, from Lock to Return, and
\* nobody else has it.
LockKept ==
  \A t \in Threads :
    /\ Holds(t) => lock[Route(op[t])] = t
    /\ \A x \in Ctxs : lock[x] = t => Holds(t) /\ Route(op[t]) = x

\* A connection between two calls: nothing was sent that is not answered and
\* read, and m_appCnt counts what is buffered.
Quiet(x) ==
  /\ ctx[x].appCnt = Len(ctx[x].obuf) /\ ctx[x].appCnt < MaxCommit
  /\ ctx[x].inbox = << >> /\ ctx[x].replies = << >>
  /\ ~ctx[x].valid => ctx[x].appCnt = 0

QuietWhenFree == \A x \in Ctxs : lock[x] = "free" => Quiet(x)

\* Nothing is buffered on the connection for reading.
NoBatchRead == ctx["read"].obuf = << >> /\ ctx["read"].appCnt = 0

\* What a thread relies on at each step: how much of what it sent is still
\* unanswered or unread.
AtStep(t) ==
  LET x == Route(op[t])
      c == ctx[x]
  IN  /\ pc[t] = "lock" => reply[t] = 0
      /\ pc[t] \in Working => c.valid /\ (Batching(op[t]) => reply[t] = 0)
      /\ pc[t] \in {"return", "send", "append"} => Quiet(x)
      /\ pc[t] = "return" /\ ok[t] =>
           /\ op[t] = "commit" => c.appCnt = 0
           /\ reply[t] # 0 => reply[t] = cmd[t]
           /\ op[t] = "appendCmd" => cmd[t] # 0
      /\ pc[t] \in {"replies", "drain"} /\ op[t] = "appendCmd" => cmd[t] # 0
      /\ pc[t] \in {"send", "receive"} =>
           ~Batching(op[t]) /\ (op[t] = "delPatternKeys" => left[t] \in {-1} \cup 1 .. MaxKeys)
      /\ pc[t] = "receive" => \/ c.inbox = <<cmd[t]>> /\ c.replies = << >>
                              \/ c.inbox = << >> /\ c.replies = <<cmd[t]>>
      /\ pc[t] = "append" => op[t] = "appendCmd"
      /\ pc[t] = "replies" => /\ Batching(op[t]) /\ c.appCnt = Len(c.obuf)
                              /\ c.inbox = << >> /\ c.replies = << >>
      /\ pc[t] = "drain" => /\ Batching(op[t]) /\ c.obuf = << >>
                            /\ left[t] \in 1 .. MaxCommit
                            /\ Len(c.inbox) + Len(c.replies) = left[t]

Steady == \A t \in Threads : AtStep(t)

Locking == LockKept /\ QuietWhenFree /\ NoBatchRead /\ Steady

IInv == TypeOK /\ Locking /\ Numbered

\* A thread relies on what is its own and on the connection it works on.
LEMMA StepKept ==
  ASSUME NEW u \in Threads, AtStep(u),
         pc'[u] = pc[u], op'[u] = op[u], cmd'[u] = cmd[u], reply'[u] = reply[u],
         left'[u] = left[u], ok'[u] = ok[u], ctx'[Route(op[u])] = ctx[Route(op[u])]
  PROVE  AtStep(u)'
<1>1. Quiet(Route(op[u])) => Quiet(Route(op[u]))'
  BY DEF Quiet
<1> QED BY <1>1, Zenon DEF AtStep

LEMMA Routes ==
  /\ \A o \in Ops : Route(o) \in Ctxs
  /\ \A o \in Ops : IF Batching(o) THEN Route(o) = "write" ELSE Route(o) = "read"
BY DEF Ops, Ctxs, Route, Batching

\* What reconn leaves: a new connection, or none.
LEMMA ConnectedTyped ==
  ASSUME CtxAssumption, NEW c \in {NewCtx, NoCtx}
  PROVE  /\ c \in CtxType /\ c.appCnt = 0 /\ c.obuf = << >> /\ c.inbox = << >> /\ c.replies = << >>
         /\ NewCtx.valid
<1>1. << >> \in Seq(Nat)
  OBVIOUS
<1>2. 0 \in 0 .. MaxCommit
  BY CtxAssumption
<1>3. NoCtx \in CtxType
  BY <1>1, <1>2 DEF NoCtx, CtxType
<1>4. /\ NoCtx.appCnt = 0 /\ NoCtx.obuf = << >> /\ NoCtx.inbox = << >> /\ NoCtx.replies = << >>
  BY DEF NoCtx
<1>5. /\ NewCtx \in CtxType /\ NewCtx.valid /\ NewCtx.appCnt = NoCtx.appCnt
      /\ NewCtx.obuf = NoCtx.obuf /\ NewCtx.inbox = NoCtx.inbox /\ NewCtx.replies = NoCtx.replies
  BY <1>3 DEF NewCtx, CtxType
<1> QED BY <1>3, <1>4, <1>5

LEMMA Initially == ASSUME CtxAssumption, Init PROVE IInv
<1>1. /\ << >> \in Seq(Nat) /\ In(<< >>) = {}
      /\ Len(<< >>) = 0 /\ MaxCommit \in Nat \ {0} /\ << >> \o << >> = << >>
      /\ MaxKeys \in Nat /\ MaxCalls \in Nat /\ MaxBreaks \in Nat
  BY CtxAssumption DEF In
<1>2. /\ NewCtx \in CtxType /\ NewCtx.valid /\ NewCtx.appCnt = 0 /\ NewCtx.obuf = << >>
      /\ NewCtx.inbox = << >> /\ NewCtx.replies = << >>
  BY ConnectedTyped, CtxAssumption
<1>3. /\ ctx \in [Ctxs -> CtxType] /\ \A x \in Ctxs : ctx[x] = NewCtx
      /\ onConn \in [Ctxs -> Seq(Nat)] /\ \A x \in Ctxs : onConn[x] = << >>
  BY <1>1, <1>2 DEF Init
<1>4. TypeOK
  <2>1. \A x \in Ctxs :
          In(ctx[x].obuf) \cup In(ctx[x].inbox) \cup In(ctx[x].replies) \cup In(onConn[x]) \subseteq 1 .. made
    BY <1>1, <1>2, <1>3
  <2>2. /\ limbo \subseteq Seq(Nat) /\ done \in Seq(Nat)
        /\ In(done) \cup accepted \cup UNION {In(late) : late \in limbo} \subseteq 1 .. made
    BY <1>1 DEF Init
  <2>3. /\ calls \in 0 .. MaxCalls /\ breaks \in 0 .. MaxBreaks
        /\ left \in [Threads -> {-1} \cup (0 .. MaxCommit) \cup (0 .. MaxKeys)]
    BY <1>1 DEF Init
  <2>4. /\ made \in Nat /\ lock \in [Ctxs -> Threads \cup {"free"}] /\ pc \in [Threads -> Steps]
        /\ op \in [Threads -> Ops] /\ cmd \in [Threads -> 0 .. made] /\ reply \in [Threads -> 0 .. made]
        /\ ok \in [Threads -> BOOLEAN]
    BY DEF Init, Steps, Ops
  <2> QED BY <1>3, <2>1, <2>2, <2>3, <2>4 DEF TypeOK
<1>5. Locking
  <2>1. LockKept
    BY CtxAssumption DEF Init, LockKept, Holds
  <2>2. QuietWhenFree /\ NoBatchRead
    BY <1>1, <1>2, <1>3 DEF QuietWhenFree, Quiet, NoBatchRead, Ctxs
  <2>3. Steady
    BY DEF Init, Steady, AtStep, Working
  <2> QED BY <2>1, <2>2, <2>3 DEF Locking
<1>6. Numbered
  <2>1. \A x \in Ctxs : Pending(x) = << >>
    BY <1>1, <1>2, <1>3 DEF Pending
  <2>2. Streams
    BY <1>1, <1>3, <2>1, StreamEmpty DEF Streams, Init
  <2>3. ConnsApart /\ LateApart /\ Once
    BY <1>1, <1>3 DEF Init, ConnsApart, LateApart, Once
  <2> QED BY <2>2, <2>3 DEF Numbered
<1> QED BY <1>4, <1>5, <1>6 DEF IInv

\* Another thread that is past Lock works on the other RedisCtx.
LEMMA Alone ==
  ASSUME TypeOK, LockKept, NEW t \in Threads, NEW u \in Threads \ {t}, Holds(t), Holds(u)
  PROVE  Route(op[u]) # Route(op[t])
BY DEF LockKept

\* A step of the thread that has the lock, which it keeps: what has to be shown
\* is only what it relies on next.
LEMMA HolderKeeps ==
  ASSUME TypeOK, Locking, NEW t \in Threads, Holds(t), Holds(t)', UNCHANGED <<lock, op>>,
         \A u \in Threads \ {t} : /\ pc'[u] = pc[u] /\ cmd'[u] = cmd[u] /\ reply'[u] = reply[u]
                                  /\ left'[u] = left[u] /\ ok'[u] = ok[u],
         \A y \in Ctxs \ {Route(op[t])} : ctx'[y] = ctx[y],
         NoBatchRead', AtStep(t)'
  PROVE  Locking'
<1>1. op \in [Threads -> Ops] /\ \A u \in Threads : Route(op[u]) \in Ctxs
  BY Routes DEF TypeOK
<1>2. LockKept'
  BY DEF Locking, LockKept, Holds
<1>3. QuietWhenFree'
  <2>1. ASSUME NEW x \in Ctxs, lock[x] = "free" PROVE ctx'[x] = ctx[x]
    <3>1. lock[Route(op[t])] = t /\ t # "free"
      BY CtxAssumption DEF Locking, LockKept
    <3> QED BY <2>1, <3>1
  <2> QED BY <2>1 DEF Locking, QuietWhenFree, Quiet
<1>4. Steady'
  <2>1. ASSUME NEW u \in Threads \ {t} PROVE AtStep(u)'
    <3>1. AtStep(u)
      BY DEF Locking, Steady
    <3>2. CASE ~Holds(u)
      BY <3>1, <3>2 DEF AtStep, Holds, Working
    <3>3. CASE Holds(u)
      <4>1. Route(op[u]) \in Ctxs \ {Route(op[t])}
        BY <1>1, <3>3, Alone DEF Locking
      <4>2. ctx'[Route(op[u])] = ctx[Route(op[u])]
        BY <4>1
      <4> QED BY <3>1, <4>2, StepKept
    <3> QED BY <3>2, <3>3
  <2> QED BY <2>1 DEF Steady
<1> QED BY <1>2, <1>3, <1>4 DEF Locking

-----------------------------------------------------------------------------
(* Call, Lock and Return *)

LEMMA CallKeeps ==
  ASSUME IInv, NEW t \in Threads, NEW o \in Ops, Call(t, o)
  PROVE  IInv'
<1>1. /\ pc[t] = "idle" /\ calls < MaxCalls /\ calls' = calls + 1
      /\ op' = [op EXCEPT ![t] = o] /\ reply' = [reply EXCEPT ![t] = 0]
      /\ pc' = [pc EXCEPT ![t] = "lock"]
      /\ UNCHANGED <<ctx, lock, cmd, left, ok, made, breaks, limbo, done, onConn, accepted>>
  BY DEF Call
<1>2. TypeOK'
  <2>1. calls' \in 0 .. MaxCalls
    <3>1. MaxCalls \in Nat /\ calls \in 0 .. MaxCalls
      BY CtxAssumption DEF IInv, TypeOK
    <3> QED BY <1>1, <3>1
  <2>2. op' \in [Threads -> Ops] /\ reply' \in [Threads -> 0 .. made] /\ pc' \in [Threads -> Steps]
    BY <1>1 DEF IInv, TypeOK, Steps
  <2> QED BY <1>1, <2>1, <2>2 DEF IInv, TypeOK
<1>3. /\ \A u \in Threads \ {t} : pc'[u] = pc[u] /\ op'[u] = op[u] /\ reply'[u] = reply[u]
      /\ pc'[t] = "lock" /\ reply'[t] = 0
  BY <1>1 DEF IInv, TypeOK
<1>4. LockKept'
  BY <1>1, <1>3 DEF IInv, Locking, LockKept, Holds
<1>5. Steady'
  <2>1. AtStep(t)'
    BY <1>3 DEF AtStep, Working
  <2>2. ASSUME NEW u \in Threads \ {t} PROVE AtStep(u)'
    BY <1>1, <1>3, StepKept DEF IInv, Locking, Steady
  <2> QED BY <2>1, <2>2 DEF Steady
<1>6. QuietWhenFree' /\ NoBatchRead'
  BY <1>1 DEF IInv, Locking, QuietWhenFree, NoBatchRead, Quiet
<1>7. Numbered'
  BY <1>1, NumbersKept DEF IInv, Pending
<1> QED BY <1>2, <1>4, <1>5, <1>6, <1>7 DEF IInv, Locking

LEMMA LockKeeps ==
  ASSUME IInv, NEW t \in Threads, Lock(t)
  PROVE  IInv'
<1> DEFINE x == Route(op[t])
           c == ctx[x]
<1>1. /\ pc[t] = "lock" /\ lock[x] = "free" /\ lock' = [lock EXCEPT ![x] = t]
      /\ pc' = [pc EXCEPT ![t] = IF c.valid THEN FirstStep(op[t]) ELSE "fail"]
      /\ left' = [left EXCEPT ![t] = IF op[t] = "delPatternKeys" THEN -1 ELSE 0]
      /\ UNCHANGED <<ctx, op, cmd, reply, ok, made, calls, breaks, limbo, done, onConn, accepted>>
  BY DEF Lock
<1>2. /\ op[t] \in Ops /\ x \in Ctxs /\ t # "free" /\ TypeOK /\ Locking /\ reply[t] = 0 /\ Quiet(x)
  BY <1>1, Routes, CtxAssumption DEF IInv, TypeOK, Locking, Steady, AtStep, QuietWhenFree
<1>3. /\ FirstStep(op[t]) \in {"append", "replies", "send"}
      /\ FirstStep(op[t]) = "append" => op[t] = "appendCmd"
      /\ FirstStep(op[t]) = "replies" => op[t] = "commit"
      /\ FirstStep(op[t]) = "send" => ~Batching(op[t])
  BY <1>2 DEF FirstStep, Batching, Ops
<1>4. /\ pc'[t] \in {"append", "replies", "send", "fail"}
      /\ pc'[t] # "fail" => c.valid /\ pc'[t] = FirstStep(op[t])
      /\ op[t] = "delPatternKeys" => left'[t] = -1
      /\ lock'[x] = t
      /\ \A y \in Ctxs \ {x} : lock'[y] = lock[y]
      /\ \A u \in Threads \ {t} : pc'[u] = pc[u] /\ left'[u] = left[u]
  <2>1. pc'[t] = IF c.valid THEN FirstStep(op[t]) ELSE "fail"
    BY <1>1, <1>2 DEF TypeOK
  <2>2. /\ op[t] = "delPatternKeys" => left'[t] = -1
        /\ lock'[x] = t
        /\ \A y \in Ctxs \ {x} : lock'[y] = lock[y]
        /\ \A u \in Threads \ {t} : pc'[u] = pc[u] /\ left'[u] = left[u]
    BY <1>1, <1>2 DEF TypeOK
  <2>3. CASE c.valid
    BY <1>3, <2>1, <2>2, <2>3
  <2>4. CASE ~c.valid
    BY <1>3, <2>1, <2>2, <2>4
  <2> QED BY <2>3, <2>4
<1>5. TypeOK'
  <2>1. left' \in [Threads -> {-1} \cup (0 .. MaxCommit) \cup (0 .. MaxKeys)]
    <3>1. 0 \in 0 .. MaxCommit
      BY CtxAssumption
    <3> QED BY <1>1, <1>2, <3>1 DEF TypeOK
  <2>2. lock' \in [Ctxs -> Threads \cup {"free"}] /\ pc' \in [Threads -> Steps]
    BY <1>1, <1>2, <1>3 DEF TypeOK, Steps
  <2> QED BY <1>1, <1>2, <2>1, <2>2 DEF TypeOK
<1> HIDE DEF x, c
<1>6. LockKept'
  <2>1. \A u \in Threads \ {t} : ~(Holds(u) /\ Route(op[u]) = x)
    <3>1. \A u \in Threads : u # "free"
      BY CtxAssumption
    <3> QED BY <1>1, <1>2, <3>1 DEF Locking, LockKept
  <2>2. ASSUME NEW u \in Threads \ {t}
        PROVE  /\ Holds(u)' => lock'[Route(op[u])] = u
               /\ \A y \in Ctxs : lock'[y] = u => Holds(u)' /\ Route(op[u]) = y
    <3>1. Holds(u)' = Holds(u) /\ Route(op[u]) \in Ctxs
      BY <1>2, <1>4, Routes DEF Holds, TypeOK
    <3> QED BY <1>2, <1>4, <2>1, <3>1 DEF Locking, LockKept
  <2>3. /\ Holds(t)' /\ lock'[Route(op[t])] = t
        /\ \A y \in Ctxs : lock'[y] = t => Route(op[t]) = y
    BY <1>1, <1>2, <1>4 DEF Locking, LockKept, Holds, x
  <2> QED BY <1>1, <2>2, <2>3 DEF LockKept
<1>7. Steady'
  <2>1. AtStep(t)'
    <3>1. op'[t] = op[t] /\ ctx' = ctx /\ reply'[t] = 0
      BY <1>1, <1>2
    <3> QED BY <1>2, <1>3, <1>4, <3>1 DEF AtStep, Quiet, Working, Batching, x, c
  <2>2. ASSUME NEW u \in Threads \ {t} PROVE AtStep(u)'
    BY <1>1, <1>2, <1>4, StepKept DEF Locking, Steady
  <2> QED BY <2>1, <2>2 DEF Steady
<1>8. QuietWhenFree' /\ NoBatchRead'
  BY <1>1, <1>2, <1>4 DEF Locking, QuietWhenFree, NoBatchRead, Quiet
<1>9. Numbered'
  BY <1>1, NumbersKept DEF IInv, Pending
<1> QED BY <1>5, <1>6, <1>7, <1>8, <1>9 DEF IInv, Locking

LEMMA ReturnKeeps ==
  ASSUME IInv, NEW t \in Threads, Return(t)
  PROVE  IInv'
<1> DEFINE x == Route(op[t])
<1>1. /\ pc[t] = "return" /\ lock' = [lock EXCEPT ![x] = "free"] /\ pc' = [pc EXCEPT ![t] = "idle"]
      /\ accepted' \subseteq accepted \cup {cmd[t]}
      /\ (op[t] = "appendCmd" /\ ok[t]) \/ accepted' = accepted
      /\ UNCHANGED <<ctx, op, cmd, reply, left, ok, made, calls, breaks, limbo, done, onConn>>
  BY DEF Return, Goto
<1>2. /\ TypeOK /\ Locking /\ x \in Ctxs /\ lock[x] = t /\ Quiet(x) /\ t # "free"
  <2>1. TypeOK /\ Locking /\ x \in Ctxs /\ t # "free"
    BY Routes, CtxAssumption DEF IInv, TypeOK
  <2>2. lock[x] = t
    BY <1>1, <2>1 DEF Locking, LockKept, Holds
  <2>3. Quiet(x)
    BY <1>1, <2>1 DEF Locking, Steady, AtStep
  <2> QED BY <2>1, <2>2, <2>3
<1>3. /\ pc'[t] = "idle" /\ lock'[x] = "free"
      /\ \A y \in Ctxs \ {x} : lock'[y] = lock[y]
      /\ \A u \in Threads \ {t} : pc'[u] = pc[u]
  BY <1>1, <1>2 DEF TypeOK
<1>4. TypeOK'
  <2>1. accepted' \subseteq 1 .. made
    <3>1. CASE op[t] = "appendCmd" /\ ok[t]
      <4>1. cmd[t] \in 0 .. made /\ cmd[t] # 0 /\ made \in Nat
        BY <1>1, <1>2, <3>1 DEF TypeOK, Locking, Steady, AtStep
      <4>2. cmd[t] \in 1 .. made
        BY <4>1
      <4> QED BY <1>1, <1>2, <4>2 DEF TypeOK
    <3> QED BY <1>1, <1>2, <3>1 DEF TypeOK
  <2>2. lock' \in [Ctxs -> Threads \cup {"free"}] /\ pc' \in [Threads -> Steps]
    BY <1>1, <1>2 DEF TypeOK, Steps
  <2> QED BY <1>1, <1>2, <2>1, <2>2 DEF TypeOK
<1>5. LockKept'
  <2>1. ASSUME NEW u \in Threads \ {t}
        PROVE  /\ Holds(u)' => lock'[Route(op[u])] = u
               /\ \A y \in Ctxs : lock'[y] = u => Holds(u)' /\ Route(op[u]) = y
    <3>1. Holds(u)' = Holds(u) /\ Route(op[u]) \in Ctxs
      BY <1>2, <1>3, Routes DEF Holds, TypeOK
    <3>2. Holds(u) => Route(op[u]) # x
      BY <1>2 DEF Locking, LockKept
    <3>3. u # "free"
      BY CtxAssumption
    <3> QED BY <1>2, <1>3, <3>1, <3>2, <3>3 DEF Locking, LockKept
  <2>2. ~Holds(t)' /\ \A y \in Ctxs : lock'[y] # t
    BY <1>2, <1>3 DEF Locking, LockKept, Holds
  <2> QED BY <1>1, <2>1, <2>2 DEF LockKept
<1>6. Steady'
  <2>1. AtStep(t)'
    BY <1>3 DEF AtStep, Working
  <2>2. ASSUME NEW u \in Threads \ {t} PROVE AtStep(u)'
    BY <1>1, <1>2, <1>3, StepKept DEF Locking, Steady
  <2> QED BY <2>1, <2>2 DEF Steady
<1>7. QuietWhenFree' /\ NoBatchRead'
  BY <1>1, <1>2, <1>3 DEF Locking, QuietWhenFree, NoBatchRead, Quiet
<1>8. Numbered'
  BY <1>1, NumbersKept DEF IInv, Pending
<1> QED BY <1>4, <1>5, <1>6, <1>7, <1>8 DEF IInv, Locking

-----------------------------------------------------------------------------
(* The steps of the thread that has the lock *)

\* Every thread is left alone but t, of which all but op may change.
OnlyOf(t) == \A u \in Threads \ {t} :
               /\ pc'[u] = pc[u] /\ cmd'[u] = cmd[u] /\ reply'[u] = reply[u]
               /\ left'[u] = left[u] /\ ok'[u] = ok[u]

\* CommandFails, AppendFails and NothingToCommit.
LEMMA NoEffectKeeps ==
  ASSUME IInv, NEW t \in Threads, CommandFails(t) \/ AppendFails(t) \/ NothingToCommit(t)
  PROVE  IInv'
<1>1. /\ TypeOK /\ Locking /\ pc[t] \in {"send", "receive", "append", "replies"} /\ AtStep(t)
      /\ UNCHANGED <<ctx, lock, op, cmd, reply, left, made, calls, breaks, limbo, done, onConn, accepted>>
  BY DEF CommandFails, AppendFails, NothingToCommit, IInv, Locking, Steady
<1>2. \/ pc' = [pc EXCEPT ![t] = "fail"] /\ ok' = ok
      \/ /\ pc[t] = "replies" /\ ctx[Route(op[t])].appCnt = 0
         /\ pc' = [pc EXCEPT ![t] = "return"] /\ ok' = [ok EXCEPT ![t] = TRUE]
  BY DEF CommandFails, AppendFails, NothingToCommit, Goto, Succeed
<1>3. /\ pc' \in [Threads -> Steps] /\ ok' \in [Threads -> BOOLEAN] /\ OnlyOf(t)
      /\ pc'[t] = "fail" \/ /\ pc[t] = "replies" /\ ctx[Route(op[t])].appCnt = 0
                            /\ pc'[t] = "return" /\ ok'[t]
  BY <1>1, <1>2 DEF TypeOK, Steps, OnlyOf
<1>4. TypeOK'
  BY <1>1, <1>3 DEF TypeOK
<1>5. AtStep(t)'
  <2>1. CASE pc'[t] = "fail"
    BY <2>1 DEF AtStep, Working
  <2>2. CASE /\ pc[t] = "replies" /\ ctx[Route(op[t])].appCnt = 0
             /\ pc'[t] = "return" /\ ok'[t]
    <3>1. Quiet(Route(op[t]))
      <4>1. 0 < MaxCommit
        BY CtxAssumption
      <4> QED BY <1>1, <2>2, <4>1 DEF AtStep, Quiet
    <3>2. reply[t] = 0 /\ (op[t] = "appendCmd" => cmd[t] # 0)
      BY <1>1, <2>2 DEF AtStep, Working
    <3> QED BY <1>1, <2>2, <3>1, <3>2 DEF AtStep, Quiet, Working
  <2> QED BY <1>3, <2>1, <2>2
<1>6. Locking'
  <2>1. Holds(t) /\ Holds(t)' /\ NoBatchRead'
    BY <1>1, <1>3 DEF Holds, Locking, NoBatchRead
  <2> QED BY <1>1, <1>3, <1>5, <2>1, HolderKeeps DEF OnlyOf
<1>7. Numbered'
  BY <1>1, NumbersKept DEF IInv, Pending
<1> QED BY <1>4, <1>6, <1>7 DEF IInv

\* What was sent to a connection that is given up may be executed late.
LEMMA ReconnNumbers ==
  ASSUME IInv, NEW x \in Ctxs, NEW new \in {NewCtx, NoCtx},
         ctx' = [ctx EXCEPT ![x] = new], onConn' = [onConn EXCEPT ![x] = << >>],
         limbo' = IF ctx[x].inbox = << >> THEN limbo ELSE limbo \cup {ctx[x].inbox},
         UNCHANGED done
  PROVE  Numbered'
<1> DEFINE sent == ctx[x].inbox
<1>1. /\ TypeOK /\ Numbered /\ done \in Seq(Nat) /\ sent \in Seq(Nat)
      /\ ctx'[x] = new /\ onConn'[x] = << >>
      /\ \A y \in Ctxs \ {x} : ctx'[y] = ctx[y] /\ onConn'[y] = onConn[y]
  BY CtxTyped DEF IInv, TypeOK
<1>2. In(<< >>) = {} /\ << >> \o << >> = << >>
  BY DEF In
<1>3. Pending(x)' = << >> /\ \A y \in Ctxs \ {x} : Pending(y)' = Pending(y)
  BY <1>1, <1>2, ConnectedTyped, CtxAssumption DEF Pending
<1>4. Streams'
  <2>1. Stream(onConn'[x], Pending(x)', done)
    BY <1>1, <1>3, StreamEmpty
  <2> QED BY <1>1, <1>3, <2>1 DEF Numbered, Streams
<1>5. ConnsApart'
  BY <1>1, <1>2 DEF Numbered, ConnsApart
<1>6. In(sent) \subseteq In(Pending(x)) /\ In(sent) \subseteq In(onConn[x])
  BY <1>1, CtxTyped DEF Numbered, Streams, Stream
<1>7. /\ In(sent) \cap In(done) = {}
      /\ \A i, j \in DOMAIN sent : sent[i] = sent[j] => i = j
      /\ \A y \in Ctxs : In(sent) \cap In(onConn'[y]) = {}
      /\ \A late \in limbo : In(sent) \cap In(late) = {}
  <2>1. In(sent) \cap In(done) = {}
    <3>1. \A d \in In(done) \cap In(onConn[x]), p \in In(Pending(x)) : d < p
      BY <1>1 DEF Numbered, Streams, Stream
    <3>2. In(done) \subseteq Nat
      BY <1>1 DEF In
    <3> HIDE DEF sent
    <3>3. \A d \in In(sent) \cap In(done) : d < d /\ d \in Nat
      BY <1>6, <3>1, <3>2
    <3> QED BY <3>3
  <2>2. \A i, j \in DOMAIN sent : sent[i] = sent[j] => i = j
    <3>1. Increasing(sent \o ctx[x].obuf) /\ ctx[x].obuf \in Seq(Nat)
      BY <1>1, CtxTyped DEF Numbered, Streams, Stream, Pending
    <3> QED BY <1>1, <3>1, IncreasingFront
  <2>3. \A y \in Ctxs : In(sent) \cap In(onConn'[y]) = {}
    BY <1>1, <1>2, <1>6 DEF Numbered, ConnsApart
  <2>4. \A late \in limbo : In(sent) \cap In(late) = {}
    BY <1>1, <1>6 DEF Numbered, LateApart
  <2> QED BY <2>1, <2>2, <2>3, <2>4
<1>8. \A late \in limbo : \A y \in Ctxs : In(late) \cap In(onConn'[y]) = {}
  BY <1>1, <1>2 DEF Numbered, LateApart
<1> HIDE DEF sent
<1>9. LateApart'
  <2>1. CASE limbo' = limbo
    BY <1>1, <1>8, <2>1 DEF Numbered, LateApart
  <2>2. CASE limbo' = limbo \cup {sent} /\ sent # << >>
    BY <1>1, <1>7, <1>8, <2>2 DEF Numbered, LateApart
  <2> QED BY <2>1, <2>2 DEF sent
<1> QED BY <1>1, <1>4, <1>5, <1>9 DEF Numbered, Once

LEMMA ReconnKeeps ==
  ASSUME IInv, NEW t \in Threads, Reconn(t)
  PROVE  IInv'
<1>0. PICK x \in Ctxs : x = Route(op[t])
  BY Routes DEF IInv, TypeOK
<1>1. PICK new \in {NewCtx, NoCtx} : ctx' = [ctx EXCEPT ![x] = new]
  BY <1>0 DEF Reconn
<1>2. /\ pc[t] = "fail" /\ pc' = [pc EXCEPT ![t] = "return"] /\ ok' = [ok EXCEPT ![t] = FALSE]
      /\ limbo' = IF ctx[x].inbox = << >> THEN limbo ELSE limbo \cup {ctx[x].inbox}
      /\ onConn' = [onConn EXCEPT ![x] = << >>]
      /\ UNCHANGED <<lock, op, cmd, reply, left, made, calls, breaks, done, accepted>>
  BY <1>0 DEF Reconn, Goto
<1>3. TypeOK /\ Locking
  BY DEF IInv
<1>4. /\ new \in CtxType /\ new.appCnt = 0 /\ new.obuf = << >> /\ new.inbox = << >> /\ new.replies = << >>
  BY ConnectedTyped, CtxAssumption
<1>5. /\ ctx' \in [Ctxs -> CtxType] /\ ctx'[x] = new /\ onConn' \in [Ctxs -> Seq(Nat)] /\ onConn'[x] = << >>
      /\ \A y \in Ctxs \ {x} : ctx'[y] = ctx[y] /\ onConn'[y] = onConn[y]
      /\ pc' \in [Threads -> Steps] /\ ok' \in [Threads -> BOOLEAN] /\ OnlyOf(t)
      /\ pc'[t] = "return" /\ ~ok'[t]
  <2>1. << >> \in Seq(Nat)
    OBVIOUS
  <2> QED BY <1>1, <1>2, <1>3, <1>4, <2>1 DEF TypeOK, Steps, OnlyOf
<1>6. TypeOK'
  <2>1. \A y \in Ctxs : In(ctx'[y].obuf) \cup In(ctx'[y].inbox) \cup In(ctx'[y].replies) \cup In(onConn'[y])
                          \subseteq 1 .. made
    <3>1. In(<< >>) = {}
      BY DEF In
    <3>2. In(new.obuf) = {} /\ In(new.inbox) = {} /\ In(new.replies) = {}
      BY <1>4, <3>1
    <3>3. \A y \in Ctxs \ {x} : In(ctx[y].obuf) \cup In(ctx[y].inbox) \cup In(ctx[y].replies) \cup In(onConn[y])
                                  \subseteq 1 .. made
      BY <1>3 DEF TypeOK
    <3> QED BY <1>5, <3>1, <3>2, <3>3
  <2>2. limbo' \subseteq Seq(Nat) /\ UNION {In(late) : late \in limbo'} \subseteq 1 .. made
    <3>1. ctx[x].inbox \in Seq(Nat) /\ In(ctx[x].inbox) \subseteq 1 .. made
      BY <1>3, CtxTyped DEF TypeOK
    <3> QED BY <1>2, <1>3, <3>1 DEF TypeOK
  <2> QED BY <1>2, <1>3, <1>5, <2>1, <2>2 DEF TypeOK
<1>7. Quiet(x)'
  <2>1. 0 < MaxCommit /\ Len(<< >>) = 0
    BY CtxAssumption
  <2> QED BY <1>4, <1>5, <2>1 DEF Quiet
<1>8. AtStep(t)'
  BY <1>0, <1>2, <1>5, <1>7 DEF AtStep, Working
<1>9. Locking'
  <2>1. NoBatchRead'
    BY <1>3, <1>4, <1>5 DEF Locking, NoBatchRead, Ctxs
  <2>2. Holds(t) /\ Holds(t)'
    BY <1>2, <1>5 DEF Holds
  <2> QED BY <1>0, <1>2, <1>3, <1>5, <1>8, <2>1, <2>2, HolderKeeps DEF OnlyOf
<1>10. Numbered'
  BY <1>1, <1>2, <1>3, ReconnNumbers
<1> QED BY <1>6, <1>9, <1>10 DEF IInv

\* Types after a new command.
LEMMA NewCommandTyped ==
  ASSUME TypeOK, NEW t \in Threads, NEW x \in Ctxs, NEW c \in Nat, c = made + 1, made' = c,
         cmd' = [cmd EXCEPT ![t] = c], onConn' = [onConn EXCEPT ![x] = Append(@, c)],
         ctx' \in [Ctxs -> CtxType],
         \A y \in Ctxs : In(ctx'[y].obuf) \cup In(ctx'[y].inbox) \cup In(ctx'[y].replies)
           \subseteq In(ctx[y].obuf) \cup In(ctx[y].inbox) \cup In(ctx[y].replies) \cup {c},
         pc' \in [Threads -> Steps], ok' \in [Threads -> BOOLEAN],
         UNCHANGED <<lock, op, reply, left, calls, breaks, limbo, done, accepted>>
  PROVE  TypeOK'
<1>1. /\ 1 .. made \subseteq 1 .. made' /\ c \in 1 .. made' /\ 0 .. made \subseteq 0 .. made'
      /\ c \in 0 .. made' /\ made' \in Nat
  BY DEF TypeOK
<1>2. cmd' \in [Threads -> 0 .. made']
  <2>1. cmd \in [Threads -> 0 .. made]
    BY DEF TypeOK
  <2> QED BY <1>1, <2>1
<1>3. /\ onConn' \in [Ctxs -> Seq(Nat)] /\ In(onConn'[x]) = In(onConn[x]) \cup {c}
      /\ \A y \in Ctxs \ {x} : onConn'[y] = onConn[y]
  <2>1. onConn[x] \in Seq(Nat) /\ onConn \in [Ctxs -> Seq(Nat)]
    BY DEF TypeOK
  <2>2. Append(onConn[x], c) \in Seq(Nat) /\ In(Append(onConn[x], c)) = In(onConn[x]) \cup {c}
    BY <2>1, InAppend
  <2> QED BY <2>1, <2>2
<1>4. \A y \in Ctxs : In(ctx'[y].obuf) \cup In(ctx'[y].inbox) \cup In(ctx'[y].replies) \cup In(onConn'[y])
                        \subseteq 1 .. made'
  <2>1. \A y \in Ctxs : In(ctx[y].obuf) \cup In(ctx[y].inbox) \cup In(ctx[y].replies) \cup In(onConn[y])
                          \subseteq 1 .. made
    BY DEF TypeOK
  <2>2. ASSUME NEW y \in Ctxs
        PROVE  In(ctx'[y].obuf) \cup In(ctx'[y].inbox) \cup In(ctx'[y].replies) \subseteq 1 .. made'
    BY <1>1, <2>1
  <2>3. \A y \in Ctxs : In(onConn'[y]) \subseteq 1 .. made'
    BY <1>1, <1>3, <2>1
  <2> QED BY <2>2, <2>3
<1>5. reply' \in [Threads -> 0 .. made']
  BY <1>1 DEF TypeOK
<1>6. In(done) \cup accepted \cup UNION {In(late) : late \in limbo} \subseteq 1 .. made'
  BY <1>1 DEF TypeOK
<1> QED BY <1>1, <1>2, <1>3, <1>4, <1>5, <1>6 DEF TypeOK

LEMMA SendKeeps ==
  ASSUME IInv, NEW t \in Threads, Send(t)
  PROVE  IInv'
<1>1. PICK x \in Ctxs : x = Route(op[t])
  BY Routes DEF IInv, TypeOK
<1>2. PICK c \in Nat : c = made + 1
  BY DEF IInv, TypeOK
<1>3. /\ pc[t] = "send" /\ made' = c /\ cmd' = [cmd EXCEPT ![t] = c]
      /\ onConn' = [onConn EXCEPT ![x] = Append(@, c)]
      /\ ctx' = [ctx EXCEPT ![x].obuf = << >>, ![x].inbox = @ \o ctx[x].obuf \o <<c>>]
      /\ pc' = [pc EXCEPT ![t] = "receive"]
      /\ UNCHANGED <<lock, op, reply, left, ok, calls, breaks, limbo, done, accepted>>
  BY <1>1, <1>2 DEF Send, Goto
<1>4. TypeOK /\ Locking /\ AtStep(t)
  BY DEF IInv, Locking, Steady
<1>5. /\ x = "read" /\ ctx[x].valid /\ ctx[x].inbox = << >> /\ ctx[x].replies = << >>
      /\ ctx[x].obuf = << >> /\ ctx[x].appCnt = 0 /\ ~Batching(op[t])
      /\ op[t] = "delPatternKeys" => left[t] \in {-1} \cup 1 .. MaxKeys
  BY <1>1, <1>3, <1>4, Routes DEF AtStep, Quiet, Working, Locking, NoBatchRead, TypeOK
<1>6. << >> \o << >> \o <<c>> = <<c>> /\ <<c>> \in Seq(Nat) /\ << >> \in Seq(Nat)
  OBVIOUS
<1>7. /\ ctx'[x].inbox = <<c>> /\ ctx'[x].obuf = << >> /\ ctx'[x].replies = << >>
      /\ ctx'[x].appCnt = 0 /\ ctx'[x].valid
      /\ \A y \in Ctxs \ {x} : ctx'[y] = ctx[y]
      /\ ctx' \in [Ctxs -> CtxType]
  <2>1. ctx \in [Ctxs -> CtxType]
    BY <1>4 DEF TypeOK
  <2>2. ctx' = [ctx EXCEPT ![x].obuf = << >>, ![x].inbox = <<c>>]
    BY <1>3, <1>5, <1>6
  <2>3. ctx' \in [Ctxs -> CtxType] /\ \A y \in Ctxs \ {x} : ctx'[y] = ctx[y]
    BY <1>6, <2>1, <2>2 DEF CtxType
  <2>4. ctx'[x].inbox = <<c>> /\ ctx'[x].obuf = << >>
    BY <2>1, <2>2 DEF CtxType
  <2>5. /\ ctx'[x].replies = ctx[x].replies /\ ctx'[x].appCnt = ctx[x].appCnt
        /\ ctx'[x].valid = ctx[x].valid
    BY <2>1, <2>2 DEF CtxType
  <2> QED BY <1>5, <2>3, <2>4, <2>5
<1>8. /\ cmd'[t] = c /\ pc'[t] = "receive" /\ pc' \in [Threads -> Steps] /\ OnlyOf(t)
  BY <1>3, <1>4 DEF TypeOK, Steps, OnlyOf
<1>9. TypeOK'
  <2>1. In(<< >>) = {} /\ In(<<c>>) = {c}
    BY DEF In
  <2>2. \A y \in Ctxs : In(ctx'[y].obuf) \cup In(ctx'[y].inbox) \cup In(ctx'[y].replies)
          \subseteq In(ctx[y].obuf) \cup In(ctx[y].inbox) \cup In(ctx[y].replies) \cup {c}
    BY <1>7, <2>1
  <2>3. ok' \in [Threads -> BOOLEAN]
    BY <1>3, <1>4 DEF TypeOK
  <2>4. ctx' \in [Ctxs -> CtxType] /\ pc' \in [Threads -> Steps] /\ TypeOK
    BY <1>4, <1>7, <1>8
  <2>5. /\ made' = c /\ cmd' = [cmd EXCEPT ![t] = c] /\ onConn' = [onConn EXCEPT ![x] = Append(@, c)]
        /\ UNCHANGED <<lock, op, reply, left, calls, breaks, limbo, done, accepted>>
    BY <1>3
  <2> QED BY <1>2, <2>2, <2>3, <2>4, <2>5, NewCommandTyped
<1>10. AtStep(t)'
  BY <1>1, <1>3, <1>5, <1>7, <1>8 DEF AtStep, Working, Batching
<1>11. Locking'
  <2>1. NoBatchRead'
    BY <1>5, <1>7 DEF NoBatchRead
  <2>2. Holds(t) /\ Holds(t)'
    BY <1>3, <1>8 DEF Holds
  <2> QED BY <1>1, <1>3, <1>4, <1>7, <1>8, <1>10, <2>1, <2>2, HolderKeeps DEF OnlyOf
<1>12. Numbered'
  <2>1. Pending(x)' = Append(Pending(x), c)
    <3>1. <<c>> \o << >> = <<c>> /\ << >> \o << >> = << >> /\ Append(<< >>, c) = <<c>>
      OBVIOUS
    <3> QED BY <1>5, <1>7, <3>1 DEF Pending
  <2>2. \A y \in Ctxs \ {x} : Pending(y)' = Pending(y)
    BY <1>7 DEF Pending
  <2> QED BY <1>2, <1>3, <1>4, <2>1, <2>2, GivenNumbered DEF IInv
<1> QED BY <1>9, <1>11, <1>12 DEF IInv

LEMMA AppendKeeps ==
  ASSUME IInv, NEW t \in Threads, AppendV(t)
  PROVE  IInv'
<1>1. PICK x \in Ctxs : x = Route(op[t])
  BY Routes DEF IInv, TypeOK
<1>2. PICK c \in Nat : c = made + 1
  BY DEF IInv, TypeOK
<1>3. /\ pc[t] = "append" /\ made' = c /\ cmd' = [cmd EXCEPT ![t] = c]
      /\ onConn' = [onConn EXCEPT ![x] = Append(@, c)]
      /\ ctx' = [ctx EXCEPT ![x].obuf = Append(@, c), ![x].appCnt = @ + 1]
      /\ UNCHANGED <<lock, op, reply, left, calls, breaks, limbo, done, accepted>>
  BY <1>1, <1>2 DEF AppendV
<1>4. IF ctx[x].appCnt + 1 >= MaxCommit
      THEN pc' = [pc EXCEPT ![t] = "replies"] /\ ok' = ok
      ELSE pc' = [pc EXCEPT ![t] = "return"] /\ ok' = [ok EXCEPT ![t] = TRUE]
  BY <1>1 DEF AppendV, Goto, Succeed
<1>5. TypeOK /\ Locking /\ AtStep(t)
  BY DEF IInv, Locking, Steady
<1>6. /\ op[t] = "appendCmd" /\ x = "write" /\ ctx[x].valid /\ Quiet(x) /\ reply[t] = 0 /\ Batching(op[t])
  BY <1>1, <1>3, <1>5 DEF AtStep, Working, Route, Batching
<1>7. /\ ctx[x].obuf \in Seq(Nat) /\ ctx[x].inbox \in Seq(Nat) /\ ctx[x].appCnt \in Nat /\ MaxCommit \in Nat \ {0}
      /\ ctx[x].appCnt + 1 \in 0 .. MaxCommit
      /\ Append(ctx[x].obuf, c) \in Seq(Nat) /\ Len(Append(ctx[x].obuf, c)) = Len(ctx[x].obuf) + 1
  <2>1. ctx[x].obuf \in Seq(Nat) /\ ctx[x].inbox \in Seq(Nat) /\ ctx[x].appCnt \in 0 .. MaxCommit
    BY <1>5 DEF TypeOK, CtxType
  <2>2. MaxCommit \in Nat \ {0}
    BY CtxAssumption
  <2>3. ctx[x].appCnt < MaxCommit
    BY <1>6 DEF Quiet
  <2> QED BY <2>1, <2>2, <2>3
<1>8. /\ ctx' \in [Ctxs -> CtxType] /\ \A y \in Ctxs \ {x} : ctx'[y] = ctx[y]
      /\ ctx'[x].obuf = Append(ctx[x].obuf, c) /\ ctx'[x].appCnt = ctx[x].appCnt + 1
      /\ ctx'[x].inbox = << >> /\ ctx'[x].replies = << >> /\ ctx'[x].valid
  <2>1. ctx \in [Ctxs -> CtxType]
    BY <1>5 DEF TypeOK
  <2>2. ctx' \in [Ctxs -> CtxType] /\ \A y \in Ctxs \ {x} : ctx'[y] = ctx[y]
    BY <1>3, <1>7, <2>1 DEF CtxType
  <2>3. ctx'[x].obuf = Append(ctx[x].obuf, c) /\ ctx'[x].appCnt = ctx[x].appCnt + 1
    BY <1>3, <2>1 DEF CtxType
  <2>4. ctx'[x].inbox = ctx[x].inbox /\ ctx'[x].replies = ctx[x].replies /\ ctx'[x].valid = ctx[x].valid
    BY <1>3, <2>1 DEF CtxType
  <2> QED BY <1>6, <2>2, <2>3, <2>4 DEF Quiet
<1>9. /\ cmd'[t] = c /\ c # 0 /\ pc' \in [Threads -> Steps] /\ ok' \in [Threads -> BOOLEAN] /\ OnlyOf(t)
      /\ pc'[t] \in {"replies", "return"}
      /\ pc'[t] = "return" => ctx[x].appCnt + 1 < MaxCommit
  <2>1. pc \in [Threads -> Steps] /\ ok \in [Threads -> BOOLEAN] /\ cmd \in [Threads -> 0 .. made]
    BY <1>5 DEF TypeOK
  <2>2. cmd'[t] = c /\ \A u \in Threads \ {t} : cmd'[u] = cmd[u]
    BY <1>3, <2>1
  <2>3. c # 0
    BY <1>2, <1>5 DEF TypeOK
  <2>4. CASE ctx[x].appCnt + 1 >= MaxCommit
    BY <1>3, <1>4, <2>1, <2>2, <2>3, <2>4 DEF Steps, OnlyOf
  <2>5. CASE ~(ctx[x].appCnt + 1 >= MaxCommit)
    <3>1. ctx[x].appCnt + 1 < MaxCommit
      BY <1>7, <2>5
    <3> QED BY <1>3, <1>4, <2>1, <2>2, <2>3, <2>5, <3>1 DEF Steps, OnlyOf
  <2> QED BY <2>4, <2>5
<1>10. TypeOK'
  <2>1. In(<< >>) = {}
    BY DEF In
  <2>3. In(Append(ctx[x].obuf, c)) = In(ctx[x].obuf) \cup {c}
    BY <1>7, InAppend
  <2>2. \A y \in Ctxs : In(ctx'[y].obuf) \cup In(ctx'[y].inbox) \cup In(ctx'[y].replies)
          \subseteq In(ctx[y].obuf) \cup In(ctx[y].inbox) \cup In(ctx[y].replies) \cup {c}
    BY <1>8, <2>1, <2>3
  <2> QED BY <1>2, <1>3, <1>5, <1>8, <1>9, <2>2, NewCommandTyped
<1>11. AtStep(t)'
  <2>1. ctx'[x].appCnt = Len(ctx'[x].obuf)
    BY <1>6, <1>7, <1>8 DEF Quiet
  <2>2. op'[t] = op[t] /\ reply'[t] = 0
    BY <1>3, <1>6
  <2>3. CASE pc'[t] = "return"
    <3>1. Quiet(x)'
      BY <1>8, <1>9, <2>1, <2>3 DEF Quiet
    <3> QED BY <1>1, <1>3, <1>6, <1>9, <2>2, <2>3, <3>1 DEF AtStep, Working
  <2>4. CASE pc'[t] = "replies"
    BY <1>1, <1>3, <1>6, <1>8, <1>9, <2>1, <2>2, <2>4 DEF AtStep, Working
  <2> QED BY <1>9, <2>3, <2>4
<1>12. Locking'
  <2>1. NoBatchRead'
    BY <1>5, <1>6, <1>8 DEF Locking, NoBatchRead, Ctxs
  <2>2. Holds(t) /\ Holds(t)'
    BY <1>3, <1>9 DEF Holds
  <2> QED BY <1>1, <1>3, <1>5, <1>8, <1>9, <1>11, <2>1, <2>2, HolderKeeps DEF OnlyOf
<1>13. Numbered'
  <2>1. Pending(x)' = Append(Pending(x), c)
    <3>1. << >> \o Append(ctx[x].obuf, c) = Append(ctx[x].obuf, c) /\ << >> \o ctx[x].obuf = ctx[x].obuf
      BY <1>7, ConcatEmptySeq
    <3>2. ctx[x].inbox = << >>
      BY <1>6 DEF Quiet
    <3> QED BY <1>8, <3>1, <3>2 DEF Pending
  <2>2. \A y \in Ctxs \ {x} : Pending(y)' = Pending(y)
    BY <1>8 DEF Pending
  <2> QED BY <1>2, <1>3, <1>5, <2>1, <2>2, GivenNumbered DEF IInv
<1> QED BY <1>10, <1>12, <1>13 DEF IInv

\* Types when commands only move along their connection.
LEMMA MovedTyped ==
  ASSUME TypeOK, ctx' \in [Ctxs -> CtxType],
         \A y \in Ctxs : In(ctx'[y].obuf) \cup In(ctx'[y].inbox) \cup In(ctx'[y].replies)
           \subseteq In(ctx[y].obuf) \cup In(ctx[y].inbox) \cup In(ctx[y].replies),
         pc' \in [Threads -> Steps], ok' \in [Threads -> BOOLEAN],
         reply' \in [Threads -> 0 .. made],
         left' \in [Threads -> {-1} \cup (0 .. MaxCommit) \cup (0 .. MaxKeys)],
         breaks' \in 0 .. MaxBreaks,
         done' \in Seq(Nat), In(done') \subseteq 1 .. made,
         UNCHANGED <<lock, op, cmd, made, calls, limbo, onConn, accepted>>
  PROVE  TypeOK'
<1>1. \A y \in Ctxs : In(ctx'[y].obuf) \cup In(ctx'[y].inbox) \cup In(ctx'[y].replies) \cup In(onConn'[y])
                        \subseteq 1 .. made'
  BY DEF TypeOK
<1>2. /\ onConn' \in [Ctxs -> Seq(Nat)] /\ made' \in Nat /\ lock' \in [Ctxs -> Threads \cup {"free"}]
      /\ op' \in [Threads -> Ops] /\ cmd' \in [Threads -> 0 .. made'] /\ calls' \in 0 .. MaxCalls
      /\ limbo' \subseteq Seq(Nat)
      /\ In(done') \cup accepted' \cup UNION {In(late) : late \in limbo'} \subseteq 1 .. made'
  BY DEF TypeOK
<1> QED BY <1>1, <1>2 DEF TypeOK

LEMMA ReceiveKeeps ==
  ASSUME IInv, NEW t \in Threads, Receive(t)
  PROVE  IInv'
<1>1. PICK x \in Ctxs : x = Route(op[t])
  BY Routes DEF IInv, TypeOK
<1>2. /\ pc[t] = "receive" /\ ctx[x].replies # << >>
      /\ reply' = [reply EXCEPT ![t] = Head(ctx[x].replies)]
      /\ ctx' = [ctx EXCEPT ![x].replies = Tail(@)]
      /\ UNCHANGED <<lock, op, cmd, made, calls, breaks, limbo, done, onConn, accepted>>
  BY <1>1 DEF Receive
<1>3. \/ /\ ~Batching(op[t]) /\ op[t] # "delPatternKeys" /\ left' = left
         /\ pc' = [pc EXCEPT ![t] = "return"] /\ ok' = [ok EXCEPT ![t] = TRUE]
      \/ /\ op[t] # "delPatternKeys" /\ left' = left
         /\ pc' = [pc EXCEPT ![t] = "fail"] /\ ok' = ok
      \/ \E n \in IF left[t] = -1 THEN 0 .. MaxKeys ELSE {left[t] - 1} :
           /\ left' = [left EXCEPT ![t] = n] /\ op[t] = "delPatternKeys"
           /\ IF n = 0
              THEN pc' = [pc EXCEPT ![t] = "return"] /\ ok' = [ok EXCEPT ![t] = TRUE]
              ELSE pc' = [pc EXCEPT ![t] = "send"] /\ ok' = ok
  BY DEF Receive, Goto, Succeed, Batching
<1>4. TypeOK /\ Locking /\ AtStep(t) /\ MaxKeys \in Nat /\ MaxCommit \in Nat \ {0}
  BY CtxAssumption DEF IInv, Locking, Steady
<1>5. /\ ~Batching(op[t]) /\ x = "read" /\ ctx[x].valid
      /\ ctx[x].inbox = << >> /\ ctx[x].replies = <<cmd[t]>>
      /\ ctx[x].obuf = << >> /\ ctx[x].appCnt = 0
      /\ op[t] = "delPatternKeys" => left[t] \in {-1} \cup 1 .. MaxKeys
  <2>1. op[t] \in Ops
    BY <1>4 DEF TypeOK
  <2>2. ~Batching(op[t]) /\ ctx[x].valid /\ (op[t] = "delPatternKeys" => left[t] \in {-1} \cup 1 .. MaxKeys)
    BY <1>1, <1>2, <1>4 DEF AtStep, Working
  <2>3. ctx[x].inbox = << >> /\ ctx[x].replies = <<cmd[t]>>
    BY <1>1, <1>2, <1>4 DEF AtStep
  <2>4. x = "read"
    BY <1>1, <2>1, <2>2, Routes
  <2> QED BY <1>4, <2>2, <2>3, <2>4 DEF Locking, NoBatchRead
<1>6. cmd[t] \in 0 .. made /\ cmd[t] \in Nat /\ Head(<<cmd[t]>>) = cmd[t] /\ Tail(<<cmd[t]>>) = << >>
      /\ << >> \in Seq(Nat)
  BY <1>4 DEF TypeOK
<1>7. /\ ctx' \in [Ctxs -> CtxType] /\ \A y \in Ctxs \ {x} : ctx'[y] = ctx[y]
      /\ ctx'[x].replies = << >> /\ ctx'[x].inbox = << >> /\ ctx'[x].obuf = << >>
      /\ ctx'[x].appCnt = 0 /\ ctx'[x].valid
  <2>1. ctx \in [Ctxs -> CtxType]
    BY <1>4 DEF TypeOK
  <2>2. ctx' = [ctx EXCEPT ![x].replies = << >>]
    BY <1>2, <1>5, <1>6
  <2>3. ctx' \in [Ctxs -> CtxType] /\ \A y \in Ctxs \ {x} : ctx'[y] = ctx[y]
    BY <1>6, <2>1, <2>2 DEF CtxType
  <2>4. ctx'[x].replies = << >>
    BY <2>1, <2>2 DEF CtxType
  <2>5. /\ ctx'[x].inbox = ctx[x].inbox /\ ctx'[x].obuf = ctx[x].obuf
        /\ ctx'[x].appCnt = ctx[x].appCnt /\ ctx'[x].valid = ctx[x].valid
    BY <2>1, <2>2 DEF CtxType
  <2> QED BY <1>5, <2>3, <2>4, <2>5
<1>8. /\ reply' \in [Threads -> 0 .. made] /\ reply'[t] = cmd[t]
      /\ \A u \in Threads \ {t} : reply'[u] = reply[u]
  BY <1>2, <1>4, <1>5, <1>6 DEF TypeOK
<1>9. /\ pc' \in [Threads -> Steps] /\ ok' \in [Threads -> BOOLEAN]
      /\ left' \in [Threads -> {-1} \cup (0 .. MaxCommit) \cup (0 .. MaxKeys)]
      /\ \A u \in Threads \ {t} : pc'[u] = pc[u] /\ left'[u] = left[u] /\ ok'[u] = ok[u]
      /\ \/ pc'[t] = "return" \/ pc'[t] = "fail"
         \/ pc'[t] = "send" /\ (op[t] = "delPatternKeys" => left'[t] \in 1 .. MaxKeys)
  <2>1. /\ pc \in [Threads -> Steps] /\ ok \in [Threads -> BOOLEAN]
        /\ left \in [Threads -> {-1} \cup (0 .. MaxCommit) \cup (0 .. MaxKeys)]
    BY <1>4 DEF TypeOK
  <2>2. CASE left' = left /\ pc' = [pc EXCEPT ![t] = "return"] /\ ok' = [ok EXCEPT ![t] = TRUE]
    BY <2>1, <2>2 DEF Steps
  <2>3. CASE left' = left /\ pc' = [pc EXCEPT ![t] = "fail"] /\ ok' = ok
    BY <2>1, <2>3 DEF Steps
  <2>4. CASE op[t] = "delPatternKeys"
    <3>1. PICK n \in IF left[t] = -1 THEN 0 .. MaxKeys ELSE {left[t] - 1} :
            /\ left' = [left EXCEPT ![t] = n]
            /\ IF n = 0
               THEN pc' = [pc EXCEPT ![t] = "return"] /\ ok' = [ok EXCEPT ![t] = TRUE]
               ELSE pc' = [pc EXCEPT ![t] = "send"] /\ ok' = ok
      BY <1>3, <2>4
    <3>2. n \in 0 .. MaxKeys /\ (n # 0 => n \in 1 .. MaxKeys)
      BY <1>4, <1>5, <2>4
    <3>3. /\ left' \in [Threads -> {-1} \cup (0 .. MaxCommit) \cup (0 .. MaxKeys)] /\ left'[t] = n
          /\ \A u \in Threads \ {t} : left'[u] = left[u]
      BY <2>1, <3>1, <3>2
    <3>4. CASE n = 0
      BY <2>1, <3>1, <3>3, <3>4 DEF Steps
    <3>5. CASE n # 0
      BY <2>1, <3>1, <3>2, <3>3, <3>5 DEF Steps
    <3> QED BY <3>4, <3>5
  <2> QED BY <1>3, <2>2, <2>3, <2>4
<1>10. TypeOK'
  <2>1. In(<< >>) = {}
    BY DEF In
  <2>2. \A y \in Ctxs : In(ctx'[y].obuf) \cup In(ctx'[y].inbox) \cup In(ctx'[y].replies)
          \subseteq In(ctx[y].obuf) \cup In(ctx[y].inbox) \cup In(ctx[y].replies)
    BY <1>7, <2>1
  <2>3. breaks' \in 0 .. MaxBreaks /\ done' \in Seq(Nat) /\ In(done') \subseteq 1 .. made
    BY <1>2, <1>4 DEF TypeOK
  <2> QED BY <1>2, <1>4, <1>7, <1>8, <1>9, <2>2, <2>3, MovedTyped
<1>11. AtStep(t)'
  <2>1. Quiet(x)'
    <3>1. Len(<< >>) = 0 /\ 0 < MaxCommit
      BY <1>4
    <3> QED BY <1>7, <3>1 DEF Quiet
  <2>2. op'[t] = op[t] /\ cmd'[t] = cmd[t]
    BY <1>2
  <2>3. op[t] # "commit" /\ op[t] # "appendCmd"
    BY <1>5 DEF Batching
  <2> QED BY <1>1, <1>5, <1>7, <1>8, <1>9, <2>1, <2>2, <2>3 DEF AtStep, Working
<1>12. Locking'
  <2>1. NoBatchRead'
    BY <1>5, <1>7 DEF NoBatchRead
  <2>2. Holds(t) /\ Holds(t)'
    BY <1>2, <1>9 DEF Holds
  <2>3. \A u \in Threads \ {t} : cmd'[u] = cmd[u]
    BY <1>2
  <2> QED BY <1>1, <1>2, <1>4, <1>7, <1>8, <1>9, <1>11, <2>1, <2>2, <2>3, HolderKeeps
<1>13. Numbered'
  <2>1. Pending(x)' = Pending(x)
    BY <1>5, <1>7 DEF Pending
  <2>2. \A y \in Ctxs \ {x} : Pending(y)' = Pending(y)
    BY <1>7 DEF Pending
  <2> QED BY <1>2, <2>1, <2>2, NumbersKept DEF IInv
<1> QED BY <1>10, <1>12, <1>13 DEF IInv

-----------------------------------------------------------------------------
(* The steps of a commit *)

LEMMA SendBatchKeeps ==
  ASSUME IInv, NEW t \in Threads, SendBatch(t)
  PROVE  IInv'
<1>1. PICK x \in Ctxs : x = Route(op[t])
  BY Routes DEF IInv, TypeOK
<1>2. /\ pc[t] = "replies" /\ ctx[x].appCnt > 0
      /\ ctx' = [ctx EXCEPT ![x].obuf = << >>, ![x].inbox = @ \o ctx[x].obuf]
      /\ left' = [left EXCEPT ![t] = ctx[x].appCnt] /\ pc' = [pc EXCEPT ![t] = "drain"]
      /\ UNCHANGED <<lock, op, cmd, reply, ok, made, calls, breaks, limbo, done, onConn, accepted>>
  BY <1>1 DEF SendBatch, Goto
<1>3. TypeOK /\ Locking /\ AtStep(t) /\ MaxCommit \in Nat \ {0}
  BY CtxAssumption DEF IInv, Locking, Steady
<1>4. /\ Batching(op[t]) /\ ctx[x].appCnt = Len(ctx[x].obuf) /\ ctx[x].inbox = << >> /\ ctx[x].replies = << >>
      /\ ctx[x].valid /\ reply[t] = 0 /\ (op[t] = "appendCmd" => cmd[t] # 0)
  BY <1>1, <1>2, <1>3 DEF AtStep, Working
<1>5. /\ ctx[x].obuf \in Seq(Nat) /\ ctx[x].appCnt \in 0 .. MaxCommit /\ ctx[x].appCnt \in 1 .. MaxCommit
      /\ << >> \o ctx[x].obuf = ctx[x].obuf /\ << >> \in Seq(Nat) /\ ctx[x].obuf \o << >> = ctx[x].obuf
  <2>1. ctx[x].obuf \in Seq(Nat) /\ ctx[x].appCnt \in 0 .. MaxCommit
    BY <1>3 DEF TypeOK, CtxType
  <2> QED BY <1>2, <1>3, <2>1, ConcatEmptySeq
<1>6. /\ ctx' \in [Ctxs -> CtxType] /\ \A y \in Ctxs \ {x} : ctx'[y] = ctx[y]
      /\ ctx'[x].obuf = << >> /\ ctx'[x].inbox = ctx[x].obuf /\ ctx'[x].replies = << >>
      /\ ctx'[x].valid
  <2>1. ctx \in [Ctxs -> CtxType]
    BY <1>3 DEF TypeOK
  <2>2. ctx' = [ctx EXCEPT ![x].obuf = << >>, ![x].inbox = ctx[x].obuf]
    BY <1>2, <1>4, <1>5
  <2>3. ctx' \in [Ctxs -> CtxType] /\ \A y \in Ctxs \ {x} : ctx'[y] = ctx[y]
    BY <1>5, <2>1, <2>2 DEF CtxType
  <2>4. ctx'[x].obuf = << >> /\ ctx'[x].inbox = ctx[x].obuf
    BY <2>1, <2>2 DEF CtxType
  <2>5. ctx'[x].replies = ctx[x].replies /\ ctx'[x].valid = ctx[x].valid
    BY <2>1, <2>2 DEF CtxType
  <2> QED BY <1>4, <2>3, <2>4, <2>5
<1>7. /\ pc' \in [Threads -> Steps] /\ pc'[t] = "drain" /\ OnlyOf(t) /\ left'[t] = ctx[x].appCnt
      /\ left' \in [Threads -> {-1} \cup (0 .. MaxCommit) \cup (0 .. MaxKeys)]
  <2>1. pc \in [Threads -> Steps] /\ left \in [Threads -> {-1} \cup (0 .. MaxCommit) \cup (0 .. MaxKeys)]
    BY <1>3 DEF TypeOK
  <2> QED BY <1>2, <1>5, <2>1 DEF Steps, OnlyOf
<1>8. TypeOK'
  <2>1. In(<< >>) = {}
    BY DEF In
  <2>2. \A y \in Ctxs : In(ctx'[y].obuf) \cup In(ctx'[y].inbox) \cup In(ctx'[y].replies)
          \subseteq In(ctx[y].obuf) \cup In(ctx[y].inbox) \cup In(ctx[y].replies)
    BY <1>6, <2>1
  <2>3. /\ breaks' \in 0 .. MaxBreaks /\ done' \in Seq(Nat) /\ In(done') \subseteq 1 .. made
        /\ ok' \in [Threads -> BOOLEAN] /\ reply' \in [Threads -> 0 .. made]
    BY <1>2, <1>3 DEF TypeOK
  <2> QED BY <1>2, <1>3, <1>6, <1>7, <2>2, <2>3, MovedTyped
<1>9. AtStep(t)'
  <2>1. op'[t] = op[t] /\ reply'[t] = 0 /\ cmd'[t] = cmd[t]
    BY <1>2, <1>4
  <2>2. Len(ctx'[x].inbox) + Len(ctx'[x].replies) = left'[t] /\ left'[t] \in 1 .. MaxCommit
    <3>1. Len(<< >>) = 0 /\ Len(ctx[x].obuf) \in Nat
      BY <1>5
    <3> QED BY <1>4, <1>5, <1>6, <1>7, <3>1
  <2> QED BY <1>1, <1>4, <1>6, <1>7, <2>1, <2>2 DEF AtStep, Working
<1>10. Locking'
  <2>1. x = "write"
    BY <1>1, <1>4 DEF Route, Batching
  <2>2. NoBatchRead'
    BY <1>3, <1>6, <2>1 DEF Locking, NoBatchRead, Ctxs
  <2>3. Holds(t) /\ Holds(t)'
    BY <1>2, <1>7 DEF Holds
  <2> QED BY <1>1, <1>2, <1>3, <1>6, <1>7, <1>9, <2>2, <2>3, HolderKeeps DEF OnlyOf
<1>11. Numbered'
  <2>1. Pending(x)' = Pending(x)
    BY <1>4, <1>5, <1>6 DEF Pending
  <2>2. \A y \in Ctxs \ {x} : Pending(y)' = Pending(y)
    BY <1>6 DEF Pending
  <2> QED BY <1>2, <2>1, <2>2, NumbersKept DEF IInv
<1> QED BY <1>8, <1>10, <1>11 DEF IInv

LEMMA DrainReplyKeeps ==
  ASSUME IInv, NEW t \in Threads, DrainReply(t)
  PROVE  IInv'
<1>1. PICK x \in Ctxs : x = Route(op[t])
  BY Routes DEF IInv, TypeOK
<1>2. /\ pc[t] = "drain" /\ ctx[x].replies # << >> /\ left' = [left EXCEPT ![t] = @ - 1]
      /\ ctx' = [ctx EXCEPT ![x].replies = Tail(@), ![x].appCnt = IF left[t] = 1 THEN 0 ELSE @]
      /\ IF left[t] = 1
         THEN pc' = [pc EXCEPT ![t] = "return"] /\ ok' = [ok EXCEPT ![t] = TRUE]
         ELSE pc' = pc /\ ok' = ok
      /\ UNCHANGED <<lock, op, cmd, reply, made, calls, breaks, limbo, done, onConn, accepted>>
  BY <1>1 DEF DrainReply, Goto, Succeed
<1>3. TypeOK /\ Locking /\ AtStep(t) /\ MaxCommit \in Nat \ {0}
  BY CtxAssumption DEF IInv, Locking, Steady
<1>4. /\ Batching(op[t]) /\ ctx[x].obuf = << >> /\ left[t] \in 1 .. MaxCommit
      /\ Len(ctx[x].inbox) + Len(ctx[x].replies) = left[t]
      /\ ctx[x].valid /\ reply[t] = 0 /\ (op[t] = "appendCmd" => cmd[t] # 0)
  BY <1>1, <1>2, <1>3 DEF AtStep, Working
<1>5. /\ ctx[x].inbox \in Seq(Nat) /\ ctx[x].replies \in Seq(Nat)
      /\ Tail(ctx[x].replies) \in Seq(Nat) /\ In(Tail(ctx[x].replies)) \subseteq In(ctx[x].replies)
      /\ Len(ctx[x].replies) \in Nat \ {0} /\ Len(ctx[x].inbox) \in Nat
      /\ Len(Tail(ctx[x].replies)) = Len(ctx[x].replies) - 1
  <2>1. ctx[x].inbox \in Seq(Nat) /\ ctx[x].replies \in Seq(Nat)
    BY <1>3 DEF TypeOK, CtxType
  <2> QED BY <1>2, <2>1, InTail
<1>6. /\ ctx' \in [Ctxs -> CtxType] /\ \A y \in Ctxs \ {x} : ctx'[y] = ctx[y]
      /\ ctx'[x].replies = Tail(ctx[x].replies) /\ (left[t] = 1 => ctx'[x].appCnt = 0)
      /\ ctx'[x].inbox = ctx[x].inbox /\ ctx'[x].obuf = << >> /\ ctx'[x].valid
  <2>1. ctx \in [Ctxs -> CtxType]
    BY <1>3 DEF TypeOK
  <2>2. PICK n \in 0 .. MaxCommit : n = IF left[t] = 1 THEN 0 ELSE ctx[x].appCnt
    <3>1. 0 \in 0 .. MaxCommit /\ ctx[x].appCnt \in 0 .. MaxCommit
      BY <1>3, <2>1 DEF CtxType
    <3> QED BY <3>1
  <2>3. ctx' = [ctx EXCEPT ![x].replies = Tail(ctx[x].replies), ![x].appCnt = n]
    BY <1>2, <2>2
  <2>4. ctx' \in [Ctxs -> CtxType] /\ \A y \in Ctxs \ {x} : ctx'[y] = ctx[y]
    <3>1. PICK c : c = [ctx[x] EXCEPT !.replies = Tail(ctx[x].replies), !.appCnt = n]
      OBVIOUS
    <3>2. c \in CtxType
      BY <1>5, <2>1, <3>1 DEF CtxType
    <3>3. ctx' = [ctx EXCEPT ![x] = c]
      BY <2>3, <3>1
    <3> QED BY <2>1, <3>2, <3>3
  <2>5. ctx'[x].replies = Tail(ctx[x].replies) /\ ctx'[x].appCnt = n
    BY <2>1, <2>3 DEF CtxType
  <2>6. ctx'[x].inbox = ctx[x].inbox /\ ctx'[x].obuf = ctx[x].obuf /\ ctx'[x].valid = ctx[x].valid
    BY <2>1, <2>3 DEF CtxType
  <2> QED BY <1>4, <2>2, <2>4, <2>5, <2>6
<1>7. /\ pc' \in [Threads -> Steps] /\ ok' \in [Threads -> BOOLEAN] /\ OnlyOf(t)
      /\ left' \in [Threads -> {-1} \cup (0 .. MaxCommit) \cup (0 .. MaxKeys)]
      /\ IF left[t] = 1 THEN pc'[t] = "return"
         ELSE pc'[t] = "drain" /\ left'[t] = left[t] - 1 /\ left'[t] \in 1 .. MaxCommit
  <2>1. /\ pc \in [Threads -> Steps] /\ left \in [Threads -> {-1} \cup (0 .. MaxCommit) \cup (0 .. MaxKeys)]
        /\ ok \in [Threads -> BOOLEAN]
    BY <1>3 DEF TypeOK
  <2>2. left[t] - 1 \in 0 .. MaxCommit /\ (left[t] # 1 => left[t] - 1 \in 1 .. MaxCommit)
    BY <1>3, <1>4
  <2>3. /\ left' \in [Threads -> {-1} \cup (0 .. MaxCommit) \cup (0 .. MaxKeys)]
        /\ left'[t] = left[t] - 1 /\ \A u \in Threads \ {t} : left'[u] = left[u]
    BY <1>2, <2>1, <2>2
  <2>4. CASE left[t] = 1
    BY <1>2, <2>1, <2>3, <2>4 DEF Steps, OnlyOf
  <2>5. CASE left[t] # 1
    BY <1>2, <2>1, <2>2, <2>3, <2>5 DEF OnlyOf
  <2> QED BY <2>4, <2>5
<1>8. TypeOK'
  <2>1. \A y \in Ctxs : In(ctx'[y].obuf) \cup In(ctx'[y].inbox) \cup In(ctx'[y].replies)
          \subseteq In(ctx[y].obuf) \cup In(ctx[y].inbox) \cup In(ctx[y].replies)
    BY <1>4, <1>5, <1>6
  <2>2. /\ breaks' \in 0 .. MaxBreaks /\ done' \in Seq(Nat) /\ In(done') \subseteq 1 .. made
        /\ reply' \in [Threads -> 0 .. made]
    BY <1>2, <1>3 DEF TypeOK
  <2> QED BY <1>2, <1>3, <1>6, <1>7, <2>1, <2>2, MovedTyped
<1>9. AtStep(t)'
  <2>1. op'[t] = op[t] /\ reply'[t] = 0 /\ cmd'[t] = cmd[t]
    BY <1>2, <1>4
  <2>2. CASE left[t] = 1
    <3>1. /\ ctx[x].inbox = << >> /\ Tail(ctx[x].replies) = << >> /\ Len(<< >>) = 0 /\ 0 < MaxCommit
      <4>1. Len(ctx[x].inbox) + Len(ctx[x].replies) = 1
        BY <1>4, <2>2
      <4>2. ctx[x].inbox = << >> /\ Tail(ctx[x].replies) = << >>
        BY <1>2, <1>5, <4>1, OneLess
      <4>3. Len(<< >>) = 0 /\ 0 < MaxCommit
        BY <1>3
      <4> QED BY <4>2, <4>3
    <3>2. Quiet(x)'
      BY <1>6, <2>2, <3>1 DEF Quiet
    <3>3. ctx'[x].appCnt = 0 /\ pc'[t] = "return"
      BY <1>6, <1>7, <2>2
    <3> QED BY <1>1, <1>4, <2>1, <3>2, <3>3 DEF AtStep, Working
  <2>3. CASE left[t] # 1
    <3>1. Len(ctx'[x].inbox) + Len(ctx'[x].replies) = left'[t]
      <4>1. Len(ctx[x].inbox) + Len(Tail(ctx[x].replies)) = (Len(ctx[x].inbox) + Len(ctx[x].replies)) - 1
        BY <1>2, <1>5, OneLess
      <4>2. Len(ctx[x].inbox) + Len(Tail(ctx[x].replies)) = left[t] - 1
        BY <1>4, <4>1
      <4> QED BY <1>6, <1>7, <2>3, <4>2
    <3> QED BY <1>1, <1>4, <1>6, <1>7, <2>1, <2>3, <3>1 DEF AtStep, Working
  <2> QED BY <2>2, <2>3
<1>10. Locking'
  <2>1. x = "write"
    BY <1>1, <1>4 DEF Route, Batching
  <2>2. NoBatchRead'
    BY <1>3, <1>6, <2>1 DEF Locking, NoBatchRead, Ctxs
  <2>3. Holds(t) /\ Holds(t)'
    BY <1>2, <1>7 DEF Holds
  <2> QED BY <1>1, <1>2, <1>3, <1>6, <1>7, <1>9, <2>2, <2>3, HolderKeeps DEF OnlyOf
<1>11. Numbered'
  <2>1. \A y \in Ctxs : Pending(y)' = Pending(y)
    BY <1>4, <1>6 DEF Pending
  <2> QED BY <1>2, <2>1, NumbersKept DEF IInv
<1> QED BY <1>8, <1>10, <1>11 DEF IInv

LEMMA DrainFailsKeeps ==
  ASSUME IInv, NEW t \in Threads, DrainFails(t)
  PROVE  IInv'
<1>1. PICK x \in Ctxs : x = Route(op[t])
  BY Routes DEF IInv, TypeOK
<1>2. /\ pc[t] \in {"replies", "drain"} /\ ctx' = [ctx EXCEPT ![x].appCnt = 0]
      /\ pc' = [pc EXCEPT ![t] = "fail"]
      /\ UNCHANGED <<lock, op, cmd, reply, left, ok, made, calls, breaks, limbo, done, onConn, accepted>>
  BY <1>1 DEF DrainFails, Goto
<1>3. TypeOK /\ Locking /\ AtStep(t) /\ 0 \in 0 .. MaxCommit
  BY CtxAssumption DEF IInv, Locking, Steady
<1>4. /\ ctx' \in [Ctxs -> CtxType] /\ \A y \in Ctxs \ {x} : ctx'[y] = ctx[y]
      /\ ctx'[x].inbox = ctx[x].inbox /\ ctx'[x].obuf = ctx[x].obuf /\ ctx'[x].replies = ctx[x].replies
      /\ ctx'[x].appCnt = 0
  <2>1. ctx \in [Ctxs -> CtxType]
    BY <1>3 DEF TypeOK
  <2> QED BY <1>2, <1>3, <2>1 DEF CtxType
<1>5. pc' \in [Threads -> Steps] /\ pc'[t] = "fail" /\ OnlyOf(t)
  BY <1>2, <1>3 DEF TypeOK, Steps, OnlyOf
<1>6. TypeOK'
  <2>1. \A y \in Ctxs : In(ctx'[y].obuf) \cup In(ctx'[y].inbox) \cup In(ctx'[y].replies)
          \subseteq In(ctx[y].obuf) \cup In(ctx[y].inbox) \cup In(ctx[y].replies)
    BY <1>4
  <2>2. /\ breaks' \in 0 .. MaxBreaks /\ done' \in Seq(Nat) /\ In(done') \subseteq 1 .. made
        /\ reply' \in [Threads -> 0 .. made] /\ ok' \in [Threads -> BOOLEAN]
        /\ left' \in [Threads -> {-1} \cup (0 .. MaxCommit) \cup (0 .. MaxKeys)]
    BY <1>2, <1>3 DEF TypeOK
  <2> QED BY <1>2, <1>3, <1>4, <1>5, <2>1, <2>2, MovedTyped
<1>7. AtStep(t)'
  BY <1>5 DEF AtStep, Working
<1>8. Locking'
  <2>1. NoBatchRead'
    BY <1>3, <1>4 DEF Locking, NoBatchRead, Ctxs
  <2>2. Holds(t) /\ Holds(t)'
    BY <1>2, <1>5 DEF Holds
  <2> QED BY <1>1, <1>2, <1>3, <1>4, <1>5, <1>7, <2>1, <2>2, HolderKeeps DEF OnlyOf
<1>9. Numbered'
  <2>1. \A y \in Ctxs : Pending(y)' = Pending(y)
    BY <1>4 DEF Pending
  <2> QED BY <1>2, <2>1, NumbersKept DEF IInv
<1> QED BY <1>6, <1>8, <1>9 DEF IInv

-----------------------------------------------------------------------------
(* The steps of the server and of the network *)

LEMMA ExecuteKeeps ==
  ASSUME IInv, NEW x \in Ctxs, Execute(x)
  PROVE  IInv'
<1>1. PICK c : c = Head(ctx[x].inbox)
  OBVIOUS
<1>2. PICK rest : rest = Tail(ctx[x].inbox)
  OBVIOUS
<1>3. /\ ctx[x].inbox # << >> /\ done' = Append(done, c)
      /\ ctx' = [ctx EXCEPT ![x].inbox = rest, ![x].replies = Append(@, c)]
      /\ UNCHANGED <<lock, pc, op, cmd, reply, left, ok, made, calls, breaks, limbo, onConn, accepted>>
  BY <1>1, <1>2 DEF Execute, threads
<1>4. TypeOK /\ Locking
  BY DEF IInv
<1>5. /\ ctx[x].inbox \in Seq(Nat) /\ ctx[x].replies \in Seq(Nat) /\ rest \in Seq(Nat) /\ c \in Nat
      /\ In(ctx[x].inbox) = {c} \cup In(rest) /\ Append(ctx[x].replies, c) \in Seq(Nat)
      /\ In(Append(ctx[x].replies, c)) = In(ctx[x].replies) \cup {c}
  <2>1. ctx[x].inbox \in Seq(Nat) /\ ctx[x].replies \in Seq(Nat)
    BY <1>4 DEF TypeOK, CtxType
  <2>2. rest \in Seq(Nat) /\ c \in Nat /\ In(ctx[x].inbox) = {c} \cup In(rest)
    BY <1>1, <1>2, <1>3, <2>1, InTail
  <2> QED BY <2>1, <2>2, InAppend
<1>6. /\ ctx' \in [Ctxs -> CtxType] /\ \A y \in Ctxs \ {x} : ctx'[y] = ctx[y]
      /\ ctx'[x].inbox = rest /\ ctx'[x].replies = Append(ctx[x].replies, c)
      /\ ctx'[x].obuf = ctx[x].obuf /\ ctx'[x].appCnt = ctx[x].appCnt /\ ctx'[x].valid = ctx[x].valid
  <2>1. ctx \in [Ctxs -> CtxType]
    BY <1>4 DEF TypeOK
  <2>2. ctx' = [ctx EXCEPT ![x].inbox = rest, ![x].replies = Append(ctx[x].replies, c)]
    BY <1>3
  <2>3. ctx' \in [Ctxs -> CtxType] /\ \A y \in Ctxs \ {x} : ctx'[y] = ctx[y]
    BY <1>5, <2>1, <2>2 DEF CtxType
  <2>4. ctx'[x].inbox = rest /\ ctx'[x].replies = Append(ctx[x].replies, c)
    BY <2>1, <2>2 DEF CtxType
  <2>5. ctx'[x].obuf = ctx[x].obuf /\ ctx'[x].appCnt = ctx[x].appCnt /\ ctx'[x].valid = ctx[x].valid
    BY <2>1, <2>2 DEF CtxType
  <2> QED BY <2>3, <2>4, <2>5
<1>7. TypeOK'
  <2>1. \A y \in Ctxs : In(ctx'[y].obuf) \cup In(ctx'[y].inbox) \cup In(ctx'[y].replies)
          \subseteq In(ctx[y].obuf) \cup In(ctx[y].inbox) \cup In(ctx[y].replies)
    BY <1>5, <1>6
  <2>2. done' \in Seq(Nat) /\ In(done') \subseteq 1 .. made
    <3>1. done \in Seq(Nat) /\ In(done) \subseteq 1 .. made /\ In(ctx[x].inbox) \subseteq 1 .. made
      BY <1>4 DEF TypeOK
    <3>2. In(done') = In(done) \cup {c} /\ done' \in Seq(Nat)
      BY <1>3, <1>5, <3>1, InAppend
    <3> QED BY <1>5, <3>1, <3>2
  <2>3. /\ pc' \in [Threads -> Steps] /\ ok' \in [Threads -> BOOLEAN] /\ reply' \in [Threads -> 0 .. made]
        /\ left' \in [Threads -> {-1} \cup (0 .. MaxCommit) \cup (0 .. MaxKeys)]
        /\ breaks' \in 0 .. MaxBreaks
    BY <1>3, <1>4 DEF TypeOK
  <2> QED BY <1>3, <1>4, <1>6, <2>1, <2>2, <2>3, MovedTyped
<1>8. LockKept' /\ NoBatchRead'
  <2>1. LockKept'
    BY <1>3, <1>4 DEF Locking, LockKept, Holds
  <2>2. \A y \in Ctxs : ctx'[y].obuf = ctx[y].obuf /\ ctx'[y].appCnt = ctx[y].appCnt
    BY <1>6
  <2>3. NoBatchRead'
    BY <1>4, <2>2 DEF Locking, NoBatchRead, Ctxs
  <2> QED BY <2>1, <2>3
<1>9. QuietWhenFree'
  <2>1. lock[x] # "free"
    BY <1>3, <1>4 DEF Locking, QuietWhenFree, Quiet
  <2> QED BY <1>3, <1>4, <1>6, <2>1 DEF Locking, QuietWhenFree, Quiet
<1>10. Steady'
  <2> SUFFICES ASSUME NEW u \in Threads PROVE AtStep(u)'
    BY DEF Steady
  <2>1. AtStep(u) /\ Route(op[u]) \in Ctxs
    BY <1>4, Routes DEF Locking, Steady, TypeOK
  <2>2. CASE Route(op[u]) # x
    BY <1>3, <1>6, <2>1, <2>2, StepKept
  <2>3. CASE Route(op[u]) = x
    <3>1. pc[u] \notin {"return", "send", "append", "replies"}
      BY <1>3, <2>1, <2>3 DEF AtStep, Quiet
    <3>2. CASE pc[u] = "receive"
      <4>1. ctx[x].inbox = <<cmd[u]>> /\ ctx[x].replies = << >>
        BY <1>3, <2>1, <2>3, <3>2 DEF AtStep
      <4>2. c = cmd[u] /\ rest = << >> /\ Append(<< >>, c) = <<c>>
        BY <1>1, <1>2, <1>5, <4>1
      <4>3. ctx'[x].inbox = << >> /\ ctx'[x].replies = <<cmd[u]>>
        BY <1>6, <4>1, <4>2
      <4> QED BY <1>3, <1>6, <2>1, <2>3, <3>2, <4>3 DEF AtStep, Working
    <3>3. CASE pc[u] = "drain"
      <4>1. Len(ctx'[x].inbox) + Len(ctx'[x].replies) = Len(ctx[x].inbox) + Len(ctx[x].replies)
        <5>1. Len(Tail(ctx[x].inbox)) + Len(Append(ctx[x].replies, c)) = Len(ctx[x].inbox) + Len(ctx[x].replies)
          BY <1>3, <1>5, OneAcross
        <5> QED BY <1>2, <1>6, <5>1
      <4>2. /\ Batching(op[u]) /\ ctx[x].obuf = << >> /\ ctx[x].valid /\ reply[u] = 0
            /\ left[u] \in 1 .. MaxCommit /\ Len(ctx[x].inbox) + Len(ctx[x].replies) = left[u]
            /\ op[u] = "appendCmd" => cmd[u] # 0
        BY <2>1, <2>3, <3>3 DEF AtStep, Working
      <4> QED BY <1>3, <1>6, <2>3, <3>3, <4>1, <4>2 DEF AtStep, Working
    <3>4. CASE pc[u] \notin Working \cup {"return"}
      BY <1>3, <2>1, <3>4 DEF AtStep, Working
    <3> QED BY <3>1, <3>2, <3>3, <3>4 DEF Working
  <2> QED BY <2>2, <2>3
<1>11. Numbered'
  BY ExecuteNumbers DEF IInv
<1> QED BY <1>7, <1>8, <1>9, <1>10, <1>11 DEF IInv, Locking

LEMMA BreakKeeps ==
  ASSUME IInv, NEW x \in Ctxs, Break(x)
  PROVE  IInv'
<1>1. /\ breaks < MaxBreaks /\ breaks' = breaks + 1 /\ ctx' = [ctx EXCEPT ![x].dead = TRUE]
      /\ UNCHANGED <<lock, pc, op, cmd, reply, left, ok, made, calls, limbo, done, onConn, accepted>>
  BY DEF Break, threads
<1>2. TypeOK /\ Locking
  BY DEF IInv
<1>3. /\ ctx' \in [Ctxs -> CtxType]
      /\ \A y \in Ctxs : /\ ctx'[y].inbox = ctx[y].inbox /\ ctx'[y].obuf = ctx[y].obuf
                         /\ ctx'[y].replies = ctx[y].replies
                         /\ ctx'[y].appCnt = ctx[y].appCnt /\ ctx'[y].valid = ctx[y].valid
  <2>1. ctx \in [Ctxs -> CtxType]
    BY <1>2 DEF TypeOK
  <2>2. /\ ctx'[x].inbox = ctx[x].inbox /\ ctx'[x].obuf = ctx[x].obuf
        /\ ctx'[x].replies = ctx[x].replies
        /\ ctx'[x].appCnt = ctx[x].appCnt /\ ctx'[x].valid = ctx[x].valid
    BY <1>1, <2>1 DEF CtxType
  <2>3. ctx' \in [Ctxs -> CtxType] /\ \A y \in Ctxs \ {x} : ctx'[y] = ctx[y]
    BY <1>1, <2>1 DEF CtxType
  <2> QED BY <2>2, <2>3
<1>4. TypeOK'
  <2>1. breaks' \in 0 .. MaxBreaks
    <3>1. breaks \in 0 .. MaxBreaks /\ MaxBreaks \in Nat
      BY <1>2, CtxAssumption DEF TypeOK
    <3> QED BY <1>1, <3>1
  <2>2. /\ pc' \in [Threads -> Steps] /\ ok' \in [Threads -> BOOLEAN] /\ reply' \in [Threads -> 0 .. made]
        /\ left' \in [Threads -> {-1} \cup (0 .. MaxCommit) \cup (0 .. MaxKeys)]
        /\ done' \in Seq(Nat) /\ In(done') \subseteq 1 .. made
    BY <1>1, <1>2 DEF TypeOK
  <2> QED BY <1>1, <1>2, <1>3, <2>1, <2>2, MovedTyped
<1>5. \A y \in Ctxs : Quiet(y) => Quiet(y)'
  BY <1>3 DEF Quiet
<1>6. Locking'
  <2>1. LockKept' /\ NoBatchRead'
    BY <1>1, <1>2, <1>3 DEF Locking, LockKept, Holds, NoBatchRead, Ctxs
  <2>2. QuietWhenFree'
    BY <1>1, <1>2, <1>5 DEF Locking, QuietWhenFree
  <2>3. ASSUME NEW u \in Threads PROVE AtStep(u)'
    <3>1. AtStep(u) /\ Route(op[u]) \in Ctxs
      BY <1>2, Routes DEF Locking, Steady, TypeOK
    <3> QED BY <1>1, <1>3, <1>5, <3>1 DEF AtStep, Working
  <2> QED BY <2>1, <2>2, <2>3 DEF Locking, Steady
<1>7. Numbered'
  BY <1>1, <1>3, NumbersKept DEF IInv, Pending
<1> QED BY <1>4, <1>6, <1>7 DEF IInv

\* What leaves the connections and the threads alone.
LEMMA LockingKept ==
  ASSUME Locking, UNCHANGED <<ctx, lock, threads>>
  PROVE  Locking'
<1>1. UNCHANGED <<ctx, lock, pc, op, cmd, reply, left, ok>>
  BY DEF threads
<1>2. LockKept' /\ QuietWhenFree' /\ NoBatchRead'
  BY <1>1 DEF Locking, LockKept, Holds, QuietWhenFree, NoBatchRead, Quiet
<1>3. Steady'
  BY <1>1, StepKept DEF Locking, Steady
<1> QED BY <1>2, <1>3 DEF Locking

LEMMA ExecuteLateKeeps == ASSUME IInv, ExecuteLate PROVE IInv'
<1>1. PICK late \in limbo :
        /\ done' = Append(done, Head(late))
        /\ limbo' = (limbo \ {late}) \cup (IF Len(late) = 1 THEN {} ELSE {Tail(late)})
        /\ UNCHANGED <<ctx, lock, pc, op, cmd, reply, left, ok, made, calls, breaks, onConn, accepted>>
  BY DEF ExecuteLate, threads
<1>2. TypeOK /\ Numbered
  BY DEF IInv
<1>3. /\ late \in Seq(Nat) /\ late # << >> /\ In(late) \subseteq 1 .. made
      /\ done \in Seq(Nat) /\ In(done) \subseteq 1 .. made
  BY <1>2 DEF TypeOK, Numbered, LateApart
<1>4. In(late) = {Head(late)} \cup In(Tail(late)) /\ Tail(late) \in Seq(Nat) /\ Head(late) \in Nat
  BY <1>3, InTail
<1>5. done' \in Seq(Nat) /\ In(done') = In(done) \cup {Head(late)}
  BY <1>1, <1>3, <1>4, InAppend
<1>6. limbo' \subseteq limbo \cup {Tail(late)}
  BY <1>1
<1>7. /\ limbo' \subseteq Seq(Nat)
      /\ In(done') \cup accepted' \cup UNION {In(old) : old \in limbo'} \subseteq 1 .. made'
  <2>1. \A old \in limbo : In(old) \subseteq 1 .. made
    BY <1>2 DEF TypeOK
  <2>2. \A old \in limbo' : In(old) \subseteq 1 .. made
    BY <1>3, <1>4, <1>6, <2>1
  <2>3. limbo' \subseteq Seq(Nat)
    BY <1>2, <1>4, <1>6 DEF TypeOK
  <2>4. In(done') \subseteq 1 .. made /\ accepted' \subseteq 1 .. made
    BY <1>1, <1>2, <1>3, <1>4, <1>5 DEF TypeOK
  <2> QED BY <1>1, <2>2, <2>3, <2>4
<1>8. TypeOK'
  BY <1>1, <1>2, <1>5, <1>7 DEF TypeOK
<1>9. Locking' /\ Numbered'
  BY <1>1, <1>2, LockingKept, ExecuteLateNumbers DEF IInv, threads
<1> QED BY <1>8, <1>9 DEF IInv

LEMMA NoticeKeeps == ASSUME IInv, Notice PROVE IInv'
<1>1. /\ limbo' \subseteq limbo
      /\ UNCHANGED <<ctx, lock, pc, op, cmd, reply, left, ok, made, calls, breaks, done, onConn, accepted>>
  BY DEF Notice, threads
<1>2. TypeOK'
  BY <1>1 DEF IInv, TypeOK
<1>3. Locking'
  BY <1>1, LockingKept DEF IInv, threads
<1>4. Numbered'
  <2>1. Streams' /\ ConnsApart' /\ Once'
    BY <1>1 DEF IInv, Numbered, Streams, ConnsApart, Once, Pending
  <2>2. LateApart'
    BY <1>1 DEF IInv, Numbered, LateApart
  <2> QED BY <2>1, <2>2 DEF Numbered
<1> QED BY <1>2, <1>3, <1>4 DEF IInv

LEMMA Stutters == ASSUME IInv, UNCHANGED vars PROVE IInv'
<1>1. UNCHANGED <<ctx, lock, pc, op, cmd, reply, left, ok, made, calls, breaks, limbo, done, onConn, accepted>>
  BY DEF vars
<1>2. TypeOK'
  BY <1>1 DEF IInv, TypeOK
<1>3. Locking'
  BY <1>1, LockingKept DEF IInv, threads
<1>4. Numbered'
  BY <1>1, NumbersKept DEF IInv, Pending
<1> QED BY <1>2, <1>3, <1>4 DEF IInv

LEMMA StepsKeep == ASSUME IInv, [Next]_vars PROVE IInv'
<1>1. ASSUME NEW t \in Threads, Step(t) PROVE IInv'
  <2>1. CASE Reconn(t) \/ Return(t)
    BY <2>1, ReconnKeeps, ReturnKeeps
  <2>2. CASE Send(t) \/ Receive(t)
    BY <2>2, SendKeeps, ReceiveKeeps
  <2>3. CASE CommandFails(t) \/ AppendFails(t) \/ NothingToCommit(t)
    BY <2>3, NoEffectKeeps
  <2>4. CASE AppendV(t)
    BY <2>4, AppendKeeps
  <2>5. CASE SendBatch(t) \/ DrainReply(t) \/ DrainFails(t)
    BY <2>5, SendBatchKeeps, DrainReplyKeeps, DrainFailsKeeps
  <2> QED BY <1>1, <2>1, <2>2, <2>3, <2>4, <2>5 DEF Step
<1>2. ASSUME NEW t \in Threads, Lock(t) PROVE IInv'
  BY <1>2, LockKeeps
<1>3. ASSUME NEW t \in Threads, NEW o \in Ops, Call(t, o) PROVE IInv'
  BY <1>3, CallKeeps
<1>4. ASSUME NEW x \in Ctxs, Execute(x) \/ Break(x) PROVE IInv'
  BY <1>4, ExecuteKeeps, BreakKeeps
<1>5. CASE ExecuteLate \/ Notice
  BY <1>5, ExecuteLateKeeps, NoticeKeeps
<1>6. CASE UNCHANGED vars
  BY <1>6, Stutters
<1> QED BY <1>1, <1>2, <1>3, <1>4, <1>5, <1>6 DEF Next

LEMMA Invariance == Spec => []IInv
<1>1. Init => IInv
  BY Initially, CtxAssumption
<1>2. IInv /\ [Next]_vars => IInv'
  BY StepsKeep
<1> QED BY <1>1, <1>2, PTL DEF Spec

-----------------------------------------------------------------------------
(* What the invariant says *)

\* Every variable has its type: m_appCnt never passes MAX_COMMIT_CNT, and
\* nothing is sent, answered or executed that was not asked for.
THEOREM TypeCorrect == Spec => []TypeOK
<1>1. IInv => TypeOK
  BY DEF IInv
<1> QED BY <1>1, Invariance, PTL

\* The reply a query returns is the one to its own command, whatever other
\* threads do and whatever connections broke before.
THEOREM RepliesAreOwn == Spec => []ReplyIsOwn
<1>1. IInv => ReplyIsOwn
  <2> SUFFICES ASSUME IInv, NEW t \in Threads, pc[t] = "return", ok[t], reply[t] # 0
               PROVE  reply[t] = cmd[t]
    BY DEF ReplyIsOwn
  <2> QED BY DEF IInv, Locking, Steady, AtStep
<1> QED BY <1>1, Invariance, PTL

\* Between two calls nothing is outstanding on a connection, after failures
\* too, and m_appCnt counts what is buffered.
THEOREM NothingOutstanding == Spec => []NoneOutstanding
<1>1. IInv => NoneOutstanding
  BY DEF IInv, Locking, QuietWhenFree, Quiet, NoneOutstanding
<1> QED BY <1>1, Invariance, PTL

\* The server executes no command twice, not even what reaches it late from a
\* connection given up, and the commands of a connection in order.
THEOREM InOrder == Spec => []ExecutedInOrder
<1>1. ASSUME IInv PROVE ExecutedInOrder
  <2>1. Once /\ Streams /\ TypeOK
    BY <1>1 DEF IInv, Numbered
  <2>2. ASSUME NEW x \in Ctxs, NEW j \in DOMAIN onConn[x], NEW i \in 1 .. j - 1,
               NEW l \in DOMAIN done, done[l] = onConn[x][j]
        PROVE  \E k \in 1 .. l - 1 : done[k] = onConn[x][i]
    <3>1. /\ onConn[x] \in Seq(Nat) /\ done \in Seq(Nat) /\ DOMAIN onConn[x] = 1 .. Len(onConn[x])
          /\ DOMAIN done = 1 .. Len(done) /\ Len(onConn[x]) \in Nat /\ Len(done) \in Nat
      BY <2>1 DEF TypeOK
    <3>2. i \in DOMAIN onConn[x]
      BY <3>1
    <3>3. PICK a \in Nat : a = onConn[x][i]
      BY <3>1, <3>2
    <3>4. PICK b \in Nat : b = onConn[x][j]
      BY <3>1
    <3>5. /\ a < b /\ a \in In(onConn[x]) /\ b \in In(onConn[x]) /\ b \in In(done)
      BY <2>1, <2>2, <3>2, <3>3, <3>4 DEF Streams, Stream, Increasing, In
    <3>6. a \in In(done)
      <4>1. ASSUME a \in In(Pending(x)) PROVE FALSE
        <5>1. b < a
          BY <2>1, <3>5, <4>1 DEF Streams, Stream
        <5> QED BY <3>5, <5>1
      <4> QED BY <2>1, <3>5, <4>1 DEF Streams, Stream
    <3>7. PICK k \in DOMAIN done : done[k] = a
      BY <3>6 DEF In
    <3>8. k # l
      BY <2>2, <3>3, <3>4, <3>5, <3>7
    <3>9. ~(l < k)
      <4>1. ASSUME l < k PROVE FALSE
        <5>1. l \in 1 .. k - 1
          BY <3>1, <4>1
        <5>2. done[l] < done[k]
          BY <2>1, <2>2, <3>4, <3>5, <3>7, <5>1 DEF Streams, Stream
        <5> QED BY <2>2, <3>4, <3>5, <3>7, <5>2
      <4> QED BY <4>1
    <3>10. k \in 1 .. l - 1
      BY <3>1, <3>8, <3>9
    <3> QED BY <3>3, <3>7, <3>10
  <2> QED BY <2>1, <2>2 DEF ExecutedInOrder, Once
<1> QED BY <1>1, Invariance, PTL

\* When commit returns true, or appendCmd after it committed, the server has
\* executed every command given to the present connection, by any thread.
THEOREM CommittedIsExec == Spec => []CommittedIsExecuted
<1>1. ASSUME IInv PROVE CommittedIsExecuted
  <2> SUFFICES ASSUME NEW t \in Threads, pc[t] = "return", ok[t],
                      op[t] = "commit" \/ (op[t] = "appendCmd" /\ ctx["write"].appCnt = 0)
               PROVE  In(onConn["write"]) \subseteq In(done)
    BY DEF CommittedIsExecuted
  <2>1. "write" \in Ctxs /\ Route(op[t]) = "write"
    BY DEF Ctxs, Route
  <2>2. Quiet("write") /\ ctx["write"].appCnt = 0
    BY <1>1, <2>1 DEF IInv, Locking, Steady, AtStep
  <2>3. ctx["write"].obuf \in Seq(Nat) /\ Stream(onConn["write"], Pending("write"), done)
    BY <1>1, <2>1, CtxTyped DEF IInv, Numbered, Streams
  <2>4. ctx["write"].obuf = << >> /\ ctx["write"].inbox = << >>
    <3>1. Len(ctx["write"].obuf) = 0
      BY <2>2 DEF Quiet
    <3> QED BY <2>2, <2>3, <3>1 DEF Quiet
  <2>5. In(Pending("write")) = {}
    <3>1. << >> \o << >> = << >>
      OBVIOUS
    <3> QED BY <2>4, <3>1 DEF Pending, In
  <2> QED BY <2>3, <2>5 DEF Stream
<1> QED BY <1>1, Invariance, PTL

=============================================================================
