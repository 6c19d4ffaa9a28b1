------------------------------ MODULE RedisCtx ------------------------------
(***************************************************************************)
(* DbPool (redis-pool/src/DbConn.cpp, DbBase.cpp) over RedisCtx            *)
(* (_RedisHeader.cpp): threads share, for each redis server, one           *)
(* synchronous connection for reading and one for writing.  This is one    *)
(* server.  Every public operation of a RedisCtx holds its m_lock from     *)
(* beginning to end, across all it waits for.                              *)
(*                                                                         *)
(* hiredis is modelled by what the code relies on: redisAppendCommand only *)
(* buffers, redisGetReply sends the buffer and returns the next reply that *)
(* arrives, redisCommand does one and then the other.  The server answers  *)
(* the commands of a connection in order, and may execute what it has      *)
(* received even after the connection was given up.                        *)
(***************************************************************************)
EXTENDS Integers, Sequences, FiniteSets

CONSTANTS
  Threads,    \* application threads
  MaxCommit,  \* MAX_COMMIT_CNT (5000 in the code)
  MaxKeys,    \* bound on the keys a KEYS command finds
  MaxCalls,   \* bound on the calls in a behaviour
  MaxBreaks   \* bound on the connections that break

ASSUME CtxAssumption ==
  /\ MaxCommit \in Nat \ {0}
  /\ {MaxKeys, MaxCalls, MaxBreaks} \subseteq Nat
  /\ "free" \notin Threads

Ctxs == {"read", "write"}

Ops == {"operation", "queryDebug", "delPatternKeys", "appendCmd", "commit"}

VARIABLES
  ctx,       \* each RedisCtx with its redisContext and connection:
             \*   valid: chkValid(), appCnt: m_appCnt, obuf: commands buffered,
             \*   inbox: commands sent, replies: replies not yet read,
             \*   dead: the connection is broken
  lock,      \* m_lock of each RedisCtx: its holder, or "free"
  pc,        \* where each thread is
  op,        \* the operation it is in
  cmd,       \* the last command it sent or appended; commands are numbered
  reply,     \* the command whose reply it got last, 0 for none
  left,      \* replies (commit) or keys (delPatternKeys) still to go through
  ok,        \* what the operation returns
  made,      \* commands made so far
  calls,     \* calls so far
  breaks,    \* connections broken so far
  limbo,     \* server: what it received on connections given up since
  done,      \* server: the commands executed, in order
  onConn,    \* history: the commands given to the present connection
  accepted   \* history: the commands for which appendCmd returned true

threads == <<pc, op, cmd, reply, left, ok, made, calls>>
vars == <<ctx, lock, pc, op, cmd, reply, left, ok, made, calls, breaks,
          limbo, done, onConn, accepted>>

\* No redisContext: closed, and never yet or not successfully connected again.
NoCtx ==
  [valid |-> FALSE, appCnt |-> 0, obuf |-> << >>, inbox |-> << >>,
   replies |-> << >>, dead |-> FALSE]

\* After conn(): authenticated and with the database selected.
NewCtx == [NoCtx EXCEPT !.valid = TRUE]

\* Mutant: queries use the connection of the batches.
RouteShared(o) == "write"

\* DbPool sends batches to m_write and everything else to m_read.
Route(o) == IF o \in {"appendCmd", "commit"} THEN "write" ELSE "read"

\* DbPool::init was successful (DbInit): both are connected.
Init ==
  /\ ctx = [x \in Ctxs |-> NewCtx]
  /\ lock = [x \in Ctxs |-> "free"]
  /\ pc = [t \in Threads |-> "idle"]
  /\ op = [t \in Threads |-> "commit"]
  /\ cmd = [t \in Threads |-> 0]
  /\ reply = [t \in Threads |-> 0]
  /\ left = [t \in Threads |-> 0]
  /\ ok = [t \in Threads |-> FALSE]
  /\ made = 0 /\ calls = 0 /\ breaks = 0
  /\ limbo = {} /\ done = << >>
  /\ onConn = [x \in Ctxs |-> << >>]
  /\ accepted = {}

-----------------------------------------------------------------------------
(* What every operation begins and ends with *)

Call(t, o) ==
  /\ pc[t] = "idle" /\ calls < MaxCalls
  /\ calls' = calls + 1
  /\ op' = [op EXCEPT ![t] = o]
  /\ reply' = [reply EXCEPT ![t] = 0]
  /\ pc' = [pc EXCEPT ![t] = "lock"]
  /\ UNCHANGED <<ctx, lock, cmd, left, ok, made, breaks, limbo, done, onConn, accepted>>

\* Where a valid context takes the operation next.
FirstStep(o) ==
  CASE o = "appendCmd" -> "append"
    [] o = "commit" -> "replies"
    [] OTHER -> "send"

\* GuardLock, then chkValid: without a connection the operation fails.
Lock(t) ==
  LET x == Route(op[t])
  IN  /\ pc[t] = "lock" /\ lock[x] = "free"
      /\ lock' = [lock EXCEPT ![x] = t]
      /\ pc' = [pc EXCEPT ![t] = IF ctx[x].valid THEN FirstStep(op[t]) ELSE "fail"]
      /\ left' = [left EXCEPT ![t] = IF op[t] = "delPatternKeys" THEN -1 ELSE 0]
      /\ UNCHANGED <<ctx, op, cmd, reply, ok, made, calls, breaks, limbo, done, onConn, accepted>>

\* The next step of t, which leaves the other threads and the lock alone.
Goto(t, step) == pc' = [pc EXCEPT ![t] = step]

Succeed(t) == Goto(t, "return") /\ ok' = [ok EXCEPT ![t] = TRUE]

\* Mutant: close() leaves m_appCnt.
ReconnKeepCount(t) ==
  LET x == Route(op[t])
  IN  /\ pc[t] = "fail"
      /\ \E up \in BOOLEAN :
           ctx' = [ctx EXCEPT ![x] = [(IF up THEN NewCtx ELSE NoCtx) EXCEPT !.appCnt = ctx[x].appCnt]]
      /\ limbo' = IF ctx[x].inbox = << >> THEN limbo ELSE limbo \cup {ctx[x].inbox}
      /\ onConn' = [onConn EXCEPT ![x] = << >>]
      /\ Goto(t, "return") /\ ok' = [ok EXCEPT ![t] = FALSE]
      /\ UNCHANGED <<lock, op, cmd, reply, left, made, calls, breaks, done, accepted>>

\* Mutant: what the old connection was given is given to the new one.
ReconnResend(t) ==
  LET x == Route(op[t])
  IN  /\ pc[t] = "fail"
      /\ \E up \in BOOLEAN :
           ctx' = [ctx EXCEPT ![x] = IF up THEN [NewCtx EXCEPT !.inbox = onConn[x]] ELSE NoCtx]
      /\ limbo' = IF ctx[x].inbox = << >> THEN limbo ELSE limbo \cup {ctx[x].inbox}
      /\ Goto(t, "return") /\ ok' = [ok EXCEPT ![t] = FALSE]
      /\ UNCHANGED <<lock, op, cmd, reply, left, made, calls, breaks, done, onConn, accepted>>

\* An operation that fails calls reconn(): close() frees the context with all
\* that is buffered and resets m_appCnt; conn() connects, authenticates and
\* selects the database, or closes again.  The operation returns false or NULL.
Reconn(t) ==
  LET x == Route(op[t])
  IN  /\ pc[t] = "fail"
      /\ \E up \in BOOLEAN : ctx' = [ctx EXCEPT ![x] = IF up THEN NewCtx ELSE NoCtx]
      /\ limbo' = IF ctx[x].inbox = << >> THEN limbo ELSE limbo \cup {ctx[x].inbox}
      /\ onConn' = [onConn EXCEPT ![x] = << >>]
      /\ Goto(t, "return") /\ ok' = [ok EXCEPT ![t] = FALSE]
      /\ UNCHANGED <<lock, op, cmd, reply, left, made, calls, breaks, done, accepted>>

\* Mutant: a failed operation returns without unlocking.
ReturnLocked(t) ==
  LET x == Route(op[t])
  IN  /\ pc[t] = "return"
      /\ lock' = IF ok[t] THEN [lock EXCEPT ![x] = "free"] ELSE lock
      /\ Goto(t, "idle")
      /\ accepted' = IF op[t] = "appendCmd" /\ ok[t] THEN accepted \cup {cmd[t]} ELSE accepted
      /\ UNCHANGED <<ctx, op, cmd, reply, left, ok, made, calls, breaks, limbo, done, onConn>>

Return(t) ==
  LET x == Route(op[t])
  IN  /\ pc[t] = "return"
      /\ lock' = [lock EXCEPT ![x] = "free"]
      /\ Goto(t, "idle")
      /\ accepted' = IF op[t] = "appendCmd" /\ ok[t] THEN accepted \cup {cmd[t]} ELSE accepted
      /\ UNCHANGED <<ctx, op, cmd, reply, left, ok, made, calls, breaks, limbo, done, onConn>>

-----------------------------------------------------------------------------
(* operation, operationCmd, queryDebug and delPatternKeys *)

\* redisCommand: the buffer is sent, the new command with it.
Send(t) ==
  LET x == Route(op[t])
      c == made + 1
  IN  /\ pc[t] = "send"
      /\ made' = c
      /\ cmd' = [cmd EXCEPT ![t] = c]
      /\ onConn' = [onConn EXCEPT ![x] = Append(@, c)]
      /\ ctx' = [ctx EXCEPT ![x].obuf = << >>,
                            ![x].inbox = @ \o ctx[x].obuf \o <<c>>]
      /\ Goto(t, "receive")
      /\ UNCHANGED <<lock, op, reply, left, ok, calls, breaks, limbo, done, accepted>>

\* The reply of operation is the caller's, whatever it says.  An error reply
\* fails queryDebug.  delPatternKeys sends KEYS and then a DEL for each key.
Receive(t) ==
  LET x == Route(op[t])
  IN  /\ pc[t] = "receive" /\ ctx[x].replies # << >>
      /\ reply' = [reply EXCEPT ![t] = Head(ctx[x].replies)]
      /\ ctx' = [ctx EXCEPT ![x].replies = Tail(@)]
      /\ \/ op[t] \in {"operation", "queryDebug"} /\ Succeed(t) /\ UNCHANGED left
         \/ op[t] = "queryDebug" /\ Goto(t, "fail") /\ UNCHANGED <<left, ok>>
         \/ /\ op[t] = "delPatternKeys"
            /\ \E n \in IF left[t] = -1 THEN 0 .. MaxKeys ELSE {left[t] - 1} :
                 /\ left' = [left EXCEPT ![t] = n]
                 /\ IF n = 0 THEN Succeed(t) ELSE Goto(t, "send") /\ UNCHANGED ok
      /\ UNCHANGED <<lock, op, cmd, made, calls, breaks, limbo, done, onConn, accepted>>

\* Sending or receiving fails on a broken connection: the reply is NULL.
CommandFails(t) ==
  /\ pc[t] \in {"send", "receive"} /\ ctx[Route(op[t])].dead
  /\ Goto(t, "fail")
  /\ UNCHANGED <<ctx, lock, op, cmd, reply, left, ok, made, calls, breaks,
                 limbo, done, onConn, accepted>>

-----------------------------------------------------------------------------
(* appendCmd and commit *)

\* Mutant: appendCmd never commits by itself.
AppendOnly(t) ==
  LET x == Route(op[t])
      c == made + 1
  IN  /\ pc[t] = "append"
      /\ made' = c
      /\ cmd' = [cmd EXCEPT ![t] = c]
      /\ onConn' = [onConn EXCEPT ![x] = Append(@, c)]
      /\ ctx' = [ctx EXCEPT ![x].obuf = Append(@, c), ![x].appCnt = @ + 1]
      /\ Succeed(t)
      /\ UNCHANGED <<lock, op, reply, left, calls, breaks, limbo, done, accepted>>

\* appendV: the command is buffered, and MAX_COMMIT_CNT of them are committed.
AppendV(t) ==
  LET x == Route(op[t])
      c == made + 1
  IN  /\ pc[t] = "append"
      /\ made' = c
      /\ cmd' = [cmd EXCEPT ![t] = c]
      /\ onConn' = [onConn EXCEPT ![x] = Append(@, c)]
      /\ ctx' = [ctx EXCEPT ![x].obuf = Append(@, c), ![x].appCnt = @ + 1]
      /\ IF ctx[x].appCnt + 1 >= MaxCommit
         THEN Goto(t, "replies") /\ UNCHANGED ok
         ELSE Succeed(t)
      /\ UNCHANGED <<lock, op, reply, left, calls, breaks, limbo, done, accepted>>

\* redisvAppendCommand returns an error: no memory, or a wrong format.
AppendFails(t) ==
  /\ pc[t] = "append"
  /\ Goto(t, "fail")
  /\ UNCHANGED <<ctx, lock, op, cmd, reply, left, ok, made, calls, breaks,
                 limbo, done, onConn, accepted>>

\* getReplies with nothing to commit.
NothingToCommit(t) ==
  /\ pc[t] = "replies" /\ ctx[Route(op[t])].appCnt = 0
  /\ Succeed(t)
  /\ UNCHANGED <<ctx, lock, op, cmd, reply, left, made, calls, breaks,
                 limbo, done, onConn, accepted>>

\* Mutant: the last reply is not waited for.
SendBatchLessOne(t) ==
  LET x == Route(op[t])
  IN  /\ pc[t] = "replies" /\ ctx[x].appCnt > 1
      /\ ctx' = [ctx EXCEPT ![x].obuf = << >>, ![x].inbox = @ \o ctx[x].obuf]
      /\ left' = [left EXCEPT ![t] = ctx[x].appCnt - 1]
      /\ Goto(t, "drain")
      /\ UNCHANGED <<lock, op, cmd, reply, ok, made, calls, breaks, limbo, done, onConn, accepted>>

\* getReplies: the first redisGetReply sends the batch ...
SendBatch(t) ==
  LET x == Route(op[t])
  IN  /\ pc[t] = "replies" /\ ctx[x].appCnt > 0
      /\ ctx' = [ctx EXCEPT ![x].obuf = << >>, ![x].inbox = @ \o ctx[x].obuf]
      /\ left' = [left EXCEPT ![t] = ctx[x].appCnt]
      /\ Goto(t, "drain")
      /\ UNCHANGED <<lock, op, cmd, reply, ok, made, calls, breaks, limbo, done, onConn, accepted>>

\* ... and as many replies are read as were appended; what they say is logged.
DrainReply(t) ==
  LET x == Route(op[t])
  IN  /\ pc[t] = "drain" /\ ctx[x].replies # << >>
      /\ left' = [left EXCEPT ![t] = @ - 1]
      /\ ctx' = [ctx EXCEPT ![x].replies = Tail(@),
                            ![x].appCnt = IF left[t] = 1 THEN 0 ELSE @]
      /\ IF left[t] = 1 THEN Succeed(t) ELSE UNCHANGED <<pc, ok>>
      /\ UNCHANGED <<lock, op, cmd, reply, made, calls, breaks, limbo, done, onConn, accepted>>

\* A reply can't be had: the batch counts as committed, the operation fails.
DrainFails(t) ==
  LET x == Route(op[t])
  IN  /\ pc[t] \in {"replies", "drain"} /\ ctx[x].appCnt > 0 /\ ctx[x].dead
      /\ ctx' = [ctx EXCEPT ![x].appCnt = 0]
      /\ Goto(t, "fail")
      /\ UNCHANGED <<lock, op, cmd, reply, left, ok, made, calls, breaks, limbo,
                     done, onConn, accepted>>

-----------------------------------------------------------------------------
(* The redis server and the network *)

Execute(x) ==
  /\ ctx[x].inbox # << >>
  /\ done' = Append(done, Head(ctx[x].inbox))
  /\ ctx' = [ctx EXCEPT ![x].inbox = Tail(@),
                        ![x].replies = Append(@, Head(ctx[x].inbox))]
  /\ UNCHANGED <<lock, threads, breaks, limbo, onConn, accepted>>

\* The server executes something of a connection given up, or notices.
ExecuteLate ==
  \E late \in limbo :
    /\ done' = Append(done, Head(late))
    /\ limbo' = (limbo \ {late}) \cup (IF Len(late) = 1 THEN {} ELSE {Tail(late)})
    /\ UNCHANGED <<ctx, lock, threads, breaks, onConn, accepted>>

Notice ==
  \E late \in limbo :
    /\ limbo' = limbo \ {late}
    /\ UNCHANGED <<ctx, lock, threads, breaks, done, onConn, accepted>>

Break(x) ==
  /\ ctx[x].valid /\ ~ctx[x].dead /\ breaks < MaxBreaks
  /\ breaks' = breaks + 1
  /\ ctx' = [ctx EXCEPT ![x].dead = TRUE]
  /\ UNCHANGED <<lock, threads, limbo, done, onConn, accepted>>

Step(t) ==
  \/ Reconn(t) \/ Return(t)
  \/ Send(t) \/ Receive(t) \/ CommandFails(t)
  \/ AppendV(t) \/ AppendFails(t)
  \/ NothingToCommit(t) \/ SendBatch(t) \/ DrainReply(t) \/ DrainFails(t)

Next ==
  \/ \E t \in Threads : Step(t) \/ Lock(t) \/ \E o \in Ops : Call(t, o)
  \/ \E x \in Ctxs : Execute(x) \/ Break(x)
  \/ ExecuteLate \/ Notice

Spec == Init /\ [][Next]_vars

\* A thread that can go on does, a mutex is not withheld from a thread for
\* ever, and the server executes what it has received.
Fairness ==
  /\ \A t \in Threads : WF_vars(Step(t)) /\ SF_vars(Lock(t))
  /\ \A x \in Ctxs : WF_vars(Execute(x))

FairSpec == Spec /\ Fairness

-----------------------------------------------------------------------------
(* Properties *)

\* The commands in a sequence.
In(s) == {s[i] : i \in DOMAIN s}

Steps == {"idle", "lock", "fail", "return", "send", "receive", "append", "replies", "drain"}

CtxType == [valid : BOOLEAN, appCnt : 0 .. MaxCommit, obuf : Seq(Nat), inbox : Seq(Nat),
            replies : Seq(Nat), dead : BOOLEAN]

\* Every variable has its type; in particular a batch never grows beyond
\* MAX_COMMIT_CNT, and only commands that were made are anywhere.
TypeOK ==
  /\ ctx \in [Ctxs -> CtxType]
  /\ onConn \in [Ctxs -> Seq(Nat)]
  /\ \A x \in Ctxs :
       In(ctx[x].obuf) \cup In(ctx[x].inbox) \cup In(ctx[x].replies) \cup In(onConn[x]) \subseteq 1 .. made
  /\ made \in Nat
  /\ lock \in [Ctxs -> Threads \cup {"free"}]
  /\ pc \in [Threads -> Steps]
  /\ op \in [Threads -> Ops]
  /\ cmd \in [Threads -> 0 .. made]
  /\ reply \in [Threads -> 0 .. made]
  /\ left \in [Threads -> {-1} \cup (0 .. MaxCommit) \cup (0 .. MaxKeys)]
  /\ ok \in [Threads -> BOOLEAN]
  /\ calls \in 0 .. MaxCalls /\ breaks \in 0 .. MaxBreaks
  /\ limbo \subseteq Seq(Nat) /\ done \in Seq(Nat)
  /\ In(done) \cup accepted \cup UNION {In(late) : late \in limbo} \subseteq 1 .. made

\* A query gets the reply to its own command: never that of a batched command
\* still outstanding, of another thread's, or of one given up before a
\* reconnect.
ReplyIsOwn ==
  \A t \in Threads : pc[t] = "return" /\ ok[t] /\ reply[t] # 0 => reply[t] = cmd[t]

\* Whenever m_lock is free m_appCnt counts exactly the commands buffered, and
\* neither unanswered commands nor unread replies are left on the connection.
NoneOutstanding ==
  \A x \in Ctxs :
    lock[x] = "free" =>
      /\ ctx[x].appCnt = Len(ctx[x].obuf)
      /\ ctx[x].inbox = << >> /\ ctx[x].replies = << >>
      /\ ~ctx[x].valid => ctx[x].appCnt = 0

\* No command is executed twice, and of those given to the present connection
\* the server has executed the first ones, in order: none before one that was
\* given to it earlier.
ExecutedInOrder ==
  /\ \A i, j \in DOMAIN done : done[i] = done[j] => i = j
  /\ \A x \in Ctxs : \A j \in DOMAIN onConn[x] : \A i \in 1 .. j - 1 :
       \A l \in DOMAIN done :
         done[l] = onConn[x][j] => \E k \in 1 .. l - 1 : done[k] = onConn[x][i]

\* When commit returns true every command appended since the connection was
\* made has been executed, those of other threads included; the same when
\* appendCmd commits by itself.
CommittedIsExecuted ==
  \A t \in Threads :
    pc[t] = "return" /\ ok[t]
      /\ (op[t] = "commit" \/ (op[t] = "appendCmd" /\ ctx["write"].appCnt = 0)) =>
        In(onConn["write"]) \subseteq In(done)

\* Every call returns: no operation takes the lock it already has, and every
\* path gives it back.
CallsReturn == \A t \in Threads : pc[t] # "idle" ~> pc[t] = "idle"

\* "submits the commands not yet submitted in all dbs" (doc, line 55): when
\* commit is successful the commands that appendCmd accepted are executed.
CommitSubmitsAll ==
  \A t \in Threads :
    pc[t] = "return" /\ op[t] = "commit" /\ ok[t] => accepted \subseteq In(done)

=============================================================================
