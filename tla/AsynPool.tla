------------------------------ MODULE AsynPool ------------------------------
(***************************************************************************)
(* AsynDbPool, AsynCtx and Thread (redis-pool/src/AsynDbConn.cpp,          *)
(* _RedisHeader.cpp, Thread.h): asynchronous connections that any thread   *)
(* gives commands to and one thread, in event_base_dispatch, serves.  The  *)
(* callers hold m_lock of an AsynCtx for a whole call.  The event thread   *)
(* takes it only inside closeSafe: it frees connections without it.        *)
(*                                                                         *)
(* A call of hiredis is one step: what its functions do to a               *)
(* redisAsyncContext that two threads use at once is not modelled.  Using  *)
(* one that was freed is undefined: the process may crash, the call may    *)
(* fail, or it may seem to work.                                           *)
(***************************************************************************)
EXTENDS Naturals, Sequences

CONSTANTS
  Nodes,     \* the AsynCtx objects
  Callers,   \* threads that call operation, reset or add
  Conns,     \* addresses of redisAsyncContext; bounds how many there are
  MaxCalls,  \* bound on the calls
  MaxFails   \* bound on what goes wrong: connections, replies to select

VARIABLES
  ctx,       \* AsynCtx::ctx
  status,    \* AsynCtx::status
  lock,      \* AsynCtx::m_lock: who holds it, between steps
  conn,      \* hiredis: state and callbacks of each redisAsyncContext
  call,      \* where each caller is
  loop,      \* where the event thread is
  bRun, thr, \* Thread::bRun, and whether Thread::thr is not 0
  main,      \* where the thread is that uses start, stop and join
  calls, fails,
  idled,     \* history: a connection was freed when an AsynCtx had it and
             \* no callback of it was pending
  crashed    \* the process did not survive undefined behaviour

nodeVars == <<ctx, status, lock>>
mainVars == <<bRun, thr, main>>
vars == <<nodeVars, conn, call, loop, mainVars, calls, fails, idled, crashed>>

NoConn == "NULL"
NoNode == "no node"
Nobody == "nobody"

ASSUME AsynAssumption ==
  /\ NoConn \notin Conns /\ NoNode \notin Nodes /\ Nobody \notin Callers
  /\ {MaxCalls, MaxFails} \subseteq Nat

Gone == [st |-> "none", pend |-> << >>]
Serving == "dispatch"
Idle == [at |-> "idle", a |-> NoNode]

Init ==
  /\ ctx = [a \in Nodes |-> NoConn]
  /\ status = [a \in Nodes |-> "init"]
  /\ lock = [a \in Nodes |-> Nobody]
  /\ conn = [c \in Conns |-> Gone]
  /\ call = [t \in Callers |-> Idle]
  /\ loop = [at |-> "off", c |-> NoConn, a |-> NoNode]
  /\ bRun = FALSE /\ thr = FALSE /\ main = "new"
  /\ calls = 0 /\ fails = 0
  /\ idled = FALSE /\ crashed = FALSE

-----------------------------------------------------------------------------
(* hiredis *)

\* redisAsyncDisconnect: freed at once when nothing is pending and no callback
\* of it is running, otherwise when the last callback is done.
Disconnected(c) ==
  IF conn[c].pend = << >> /\ loop.c # c THEN Gone
  ELSE [conn[c] EXCEPT !.st = IF @ = "dropping" THEN @ ELSE "closing"]

\* redisAsyncCommand: the callback is pending with the AsynCtx it is for.
Pending(c, do, a) ==
  [conn EXCEPT ![c].pend = Append(@, [do |-> do, a |-> a])]

\* Mutant: AsynCtx::close leaves the status.
CloseKeepStatus(a) ==
  /\ ctx' = [ctx EXCEPT ![a] = NoConn]
  /\ UNCHANGED status
  /\ IF ctx[a] = NoConn THEN UNCHANGED <<conn, crashed>>
     ELSE IF conn[ctx[a]].st = "none" THEN crashed' \in BOOLEAN /\ UNCHANGED conn
     ELSE conn' = [conn EXCEPT ![ctx[a]] = Disconnected(ctx[a])] /\ UNCHANGED crashed

\* AsynCtx::close
Close(a) ==
  /\ ctx' = [ctx EXCEPT ![a] = NoConn]
  /\ status' = [status EXCEPT ![a] = "close"]
  /\ IF ctx[a] = NoConn THEN UNCHANGED <<conn, crashed>>
     ELSE IF conn[ctx[a]].st = "none" THEN crashed' \in BOOLEAN /\ UNCHANGED conn
     ELSE conn' = [conn EXCEPT ![ctx[a]] = Disconnected(ctx[a])] /\ UNCHANGED crashed

-----------------------------------------------------------------------------
(* operation, reset and add, by caller t *)

At(t, places) == ~crashed /\ call[t].at \in places
Goto(t, at) == call' = [call EXCEPT ![t].at = at]

\* operation goes on with "command" once it has the lock, reset and add, which
\* only call reconnSafe, with "close".
Begin(t, a) ==
  /\ At(t, {"idle"}) /\ calls < MaxCalls
  /\ \E what \in {"lock for command", "lock for close"} :
       call' = [call EXCEPT ![t] = [at |-> what, a |-> a]]
  /\ calls' = calls + 1
  /\ UNCHANGED <<nodeVars, conn, loop, mainVars, fails, idled, crashed>>

Lock(t) ==
  /\ At(t, {"lock for command", "lock for close"})
  /\ lock[call[t].a] = Nobody
  /\ lock' = [lock EXCEPT ![call[t].a] = t]
  /\ Goto(t, IF call[t].at = "lock for command" THEN "command" ELSE "close")
  /\ UNCHANGED <<ctx, status, conn, loop, mainVars, calls, fails, idled, crashed>>

\* redisAsyncCommand on what the AsynCtx has: a connection that is being closed
\* refuses the command.
Submit(t, do, accepted, refused) ==
  LET a == call[t].a
      c == ctx[a]
  IN  CASE conn[c].st = "open" -> conn' = Pending(c, do, a) /\ Goto(t, accepted) /\ UNCHANGED crashed
        [] conn[c].st \in {"closing", "dropping"} -> Goto(t, refused) /\ UNCHANGED <<conn, crashed>>
        [] conn[c].st = "none" ->
             /\ crashed' \in BOOLEAN
             /\ \E at \in {accepted, refused} : Goto(t, at)
             /\ UNCHANGED conn

\* Mutant: operation calls reconnSafe.
CommandSafe(t) ==
  LET a == call[t].a
  IN  /\ At(t, {"command"})
      /\ IF ctx[a] # NoConn /\ status[a] = "ok" THEN Submit(t, "cmd", "unlock", "lock for close")
         ELSE Goto(t, "lock for close") /\ UNCHANGED <<conn, crashed>>
      /\ UNCHANGED <<nodeVars, loop, mainVars, calls, fails, idled>>

\* operation: a command that isn't accepted makes it connect anew.
Command(t) ==
  LET a == call[t].a
  IN  /\ At(t, {"command"})
      /\ IF ctx[a] # NoConn /\ status[a] = "ok" THEN Submit(t, "cmd", "unlock", "close")
         ELSE Goto(t, "close") /\ UNCHANGED <<conn, crashed>>
      /\ UNCHANGED <<nodeVars, loop, mainVars, calls, fails, idled>>

\* reconn closes first; conn closes when select isn't accepted.
CloseOld(t) ==
  /\ At(t, {"close", "undo"})
  /\ Close(call[t].a)
  /\ Goto(t, IF call[t].at = "close" THEN "connect" ELSE "unlock")
  /\ UNCHANGED <<lock, loop, mainVars, calls, fails, idled>>

\* redisAsyncConnect and registerEvent: from here on the event thread serves
\* the connection, which has nothing pending yet.
Connect(t) ==
  LET a == call[t].a
  IN  /\ At(t, {"connect"})
      /\ \E c \in Conns :
           /\ conn[c].st = "none"
           /\ conn' = [conn EXCEPT ![c] = [st |-> "open", pend |-> << >>]]
           /\ ctx' = [ctx EXCEPT ![a] = c]
      /\ status' = [status EXCEPT ![a] = "ok"]
      /\ Goto(t, "select")
      /\ UNCHANGED <<lock, loop, mainVars, calls, fails, idled, crashed>>

ConnectFails(t) ==
  /\ At(t, {"connect"})
  /\ IF \E c \in Conns : conn[c].st = "none"
     THEN fails < MaxFails /\ fails' = fails + 1
     ELSE UNCHANGED fails
  /\ Goto(t, "unlock")
  /\ UNCHANGED <<nodeVars, conn, loop, mainVars, calls, idled, crashed>>

\* selectDb
Select(t) ==
  /\ At(t, {"select"})
  /\ Submit(t, "select", "unlock", "undo")
  /\ UNCHANGED <<nodeVars, loop, mainVars, calls, fails, idled>>

\* The call returns.
Unlock(t) ==
  /\ At(t, {"unlock"})
  /\ lock' = [lock EXCEPT ![call[t].a] = Nobody]
  /\ call' = [call EXCEPT ![t] = Idle]
  /\ UNCHANGED <<ctx, status, conn, loop, mainVars, calls, fails, idled, crashed>>

Caller(t) ==
  Lock(t) \/ Command(t) \/ CloseOld(t) \/ Connect(t) \/ ConnectFails(t) \/ Select(t) \/ Unlock(t)

-----------------------------------------------------------------------------
(* The event thread *)

\* Mutant: callbackCmdSet does nothing.
CallsCloseSelect(cb, reply) == cb.do = "select" /\ reply # "ok"

\* callbackSelect calls closeSafe unless the reply is OK, callbackCmdSet when
\* there is no reply.
CallsClose(cb, reply) == reply = "NULL" \/ (cb.do = "select" /\ reply # "ok")

\* The first pending callback of c, which st is the state of, runs: at once
\* if it doesn't wait for m_lock in closeSafe.
RunCallback(c, st, reply) ==
  LET cb == Head(conn[c].pend)
      rest == Tail(conn[c].pend)
  IN  /\ conn' = [conn EXCEPT ![c] = [st |-> st, pend |-> rest]]
      /\ loop' = [loop EXCEPT !.c = c, !.a = IF CallsClose(cb, reply) THEN cb.a ELSE NoNode]

Ready(c) == ~crashed /\ loop.at = Serving /\ loop.c = NoConn /\ conn[c].st \in {"open", "closing"}

\* A reply arrives.
Reply(c) ==
  /\ Ready(c) /\ conn[c].pend # << >>
  /\ \/ RunCallback(c, conn[c].st, "ok") /\ UNCHANGED fails
     \/ RunCallback(c, conn[c].st, "error") /\ fails < MaxFails /\ fails' = fails + 1
  /\ UNCHANGED <<nodeVars, call, mainVars, calls, idled, crashed>>

\* An error or the end of the connection: it is freed after its callbacks have
\* run without a reply.
Drop(c) ==
  /\ Ready(c) /\ fails < MaxFails
  /\ fails' = fails + 1
  /\ IF conn[c].pend = << >>
     THEN /\ conn' = [conn EXCEPT ![c] = Gone]
          /\ idled' = (idled \/ \E a \in Nodes : ctx[a] = c)
          /\ UNCHANGED loop
     ELSE RunCallback(c, "dropping", "NULL") /\ UNCHANGED idled
  /\ UNCHANGED <<nodeVars, call, mainVars, calls, crashed>>

\* closeSafe, in a callback: it closes what the AsynCtx has by now.
CloseSafe ==
  /\ ~crashed /\ loop.a # NoNode /\ lock[loop.a] = Nobody
  /\ Close(loop.a)
  /\ loop' = [loop EXCEPT !.a = NoNode]
  /\ UNCHANGED <<lock, call, mainVars, calls, fails, idled>>

\* A callback has returned: the next one runs, or the connection is freed when
\* it is the turn.
CallbackDone ==
  LET c == loop.c
      over == conn[c].st # "open" /\ conn[c].pend = << >>
  IN  /\ ~crashed /\ c # NoConn /\ loop.a = NoNode
      /\ IF conn[c].st = "dropping" /\ ~over THEN RunCallback(c, "dropping", "NULL")
         ELSE /\ loop' = [loop EXCEPT !.c = NoConn]
              /\ conn' = IF over THEN [conn EXCEPT ![c] = Gone] ELSE conn
      /\ UNCHANGED <<nodeVars, call, mainVars, calls, fails, idled, crashed>>

LoopAt(from, to) == ~crashed /\ loop.at = from /\ loop' = [loop EXCEPT !.at = to]

\* run(): isRun(), event_base_dispatch until no connection is registered, and
\* 10 seconds of select.
Check ==
  /\ LoopAt("check", IF bRun THEN Serving ELSE "leave")
  /\ UNCHANGED <<nodeVars, conn, call, mainVars, calls, fails, idled, crashed>>

DispatchReturns ==
  /\ \A c \in Conns : conn[c].st = "none"
  /\ LoopAt(Serving, "sleep")
  /\ UNCHANGED <<nodeVars, conn, call, mainVars, calls, fails, idled, crashed>>

\* Mutant: run() has no loop.
WakeOnce ==
  /\ LoopAt("sleep", "leave")
  /\ UNCHANGED <<nodeVars, conn, call, mainVars, calls, fails, idled, crashed>>

Wake ==
  /\ LoopAt("sleep", "check")
  /\ UNCHANGED <<nodeVars, conn, call, mainVars, calls, fails, idled, crashed>>

\* activate(): thr = 0, then bRun = false.
ClearThr ==
  /\ LoopAt("leave", "clear") /\ thr' = FALSE
  /\ UNCHANGED <<nodeVars, conn, call, bRun, main, calls, fails, idled, crashed>>

ClearRun ==
  /\ LoopAt("clear", "ended") /\ bRun' = FALSE
  /\ UNCHANGED <<nodeVars, conn, call, thr, main, calls, fails, idled, crashed>>

Loop == CloseSafe \/ CallbackDone \/ Check \/ DispatchReturns \/ Wake \/ ClearThr \/ ClearRun

-----------------------------------------------------------------------------
(* start, stop and join *)

MainAt(from, to) ==
  /\ ~crashed /\ main = from /\ main' = to
  /\ UNCHANGED <<nodeVars, conn, call, calls, fails, idled>>

Start ==
  /\ MainAt("new", "running") /\ bRun' = TRUE /\ thr' = TRUE
  /\ loop' = [loop EXCEPT !.at = "check"]
  /\ UNCHANGED crashed

\* Mutant: stop() gives the thread up, so that join() finds none to wait for.
StopForgets ==
  /\ MainAt("running", "stopped") /\ bRun' = FALSE /\ thr' = FALSE
  /\ UNCHANGED <<loop, crashed>>

Stop == MainAt("running", "stopped") /\ bRun' = FALSE /\ UNCHANGED <<thr, loop, crashed>>

\* join(), after stop: without it run() never ends.  It looks at thr, and reads
\* it again for pthread_join unless the compiler kept it: pthread_join(0) is
\* undefined.
JoinCheck ==
  /\ MainAt("stopped", IF thr THEN "joining" ELSE "joined")
  /\ UNCHANGED <<bRun, thr, loop, crashed>>

JoinRead ==
  /\ MainAt("joining", "waiting")
  /\ IF thr THEN UNCHANGED crashed ELSE crashed' \in BOOLEAN
  /\ UNCHANGED <<bRun, thr, loop>>

JoinReturns ==
  /\ loop.at = "ended"
  /\ MainAt("waiting", "joined") /\ thr' = FALSE
  /\ UNCHANGED <<bRun, loop, crashed>>

Join == JoinCheck \/ JoinRead \/ JoinReturns

Next ==
  \/ \E t \in Callers : Caller(t) \/ \E a \in Nodes : Begin(t, a)
  \/ \E c \in Conns : Reply(c) \/ Drop(c)
  \/ Loop \/ Start \/ Stop \/ Join

Spec == Init /\ [][Next]_vars

\* Threads in a call, and the event thread, go on; a server answers unless the
\* connection fails.
Fairness ==
  /\ \A t \in Callers : WF_vars(Caller(t))
  /\ \A c \in Conns : WF_vars(Reply(c))
  /\ WF_vars(Loop)
  /\ WF_vars(JoinRead \/ JoinReturns)

FairSpec == Spec /\ Fairness

-----------------------------------------------------------------------------
(* Properties *)

Callback == [do : {"select", "cmd"}, a : Nodes]
Holding == {"command", "close", "undo", "connect", "select", "unlock"}
Busy == Holding \cup {"lock for command", "lock for close"}

\* Types; and status is CTX_OK exactly when there is a context.
TypeOK ==
  /\ ctx \in [Nodes -> Conns \cup {NoConn}]
  /\ status \in [Nodes -> {"init", "ok", "close"}]
  /\ \A a \in Nodes : status[a] = "ok" <=> ctx[a] # NoConn
  /\ lock \in [Nodes -> Callers \cup {Nobody}]
  /\ conn \in [Conns -> [st : {"none", "open", "closing", "dropping"}, pend : Seq(Callback)]]
  /\ call \in [Callers -> [at : Busy \cup {"idle"}, a : Nodes \cup {NoNode}]]
  /\ \A t \in Callers : call[t].at \in Busy => call[t].a \in Nodes
  /\ loop \in [at : {"off", "check", Serving, "sleep", "leave", "clear", "ended"},
               c : Conns \cup {NoConn}, a : Nodes \cup {NoNode}]
  /\ {bRun, thr, idled, crashed} \subseteq BOOLEAN
  /\ main \in {"new", "running", "stopped", "joining", "waiting", "joined"}
  /\ calls \in 0 .. MaxCalls /\ fails \in 0 .. MaxFails

\* An AsynCtx never has a connection that was freed or is another's, and one
\* that it gave up is not given back: although connections fail, callbacks of
\* old ones close new ones, and freed addresses are used again, what ctx points
\* at is a connection whose callbacks are all its own, and nobody else has it.
\* A connection that the server closes while nothing is pending is the
\* exception: no callback tells the AsynCtx (AsynDbPool::disconnectCallback
\* only writes to the log), and the next command uses freed memory.
OwnConnection ==
  ~idled =>
    \A a \in Nodes : ctx[a] # NoConn =>
      /\ conn[ctx[a]].st \in {"open", "dropping"}
      /\ \A i \in DOMAIN conn[ctx[a]].pend : conn[ctx[a]].pend[i].a = a
      /\ \A b \in Nodes \ {a} : ctx[b] # ctx[a]

\* Once join has returned, the event thread is out of run(): it runs no callback
\* and will not, whichever of them wrote thr = 0 last, though join does not wait
\* for a thread that has written it and has bRun = false still to write.
JoinedIsOver ==
  main = "joined" => loop.at \in {"clear", "ended"} /\ loop.c = NoConn

\* Nobody waits for ever: although callers and callbacks wait for each other's
\* m_lock, every operation, reset and add returns; and join returns once stop
\* was called, if in the end no connection is left.
CallsReturn ==
  /\ \A t \in Callers : call[t] # Idle ~> call[t] = Idle \/ crashed
  /\ <>[](\A c \in Conns : conn[c].st = "none")
       => (main \in {"joining", "waiting"} ~> main = "joined" \/ crashed)

\* From start until stop, every command that was accepted, and every select, has
\* its callback in the end, also on connections that were given up or failed.
Answered ==
  \A c \in Conns : main = "running" /\ conn[c].pend # << >>
                     ~> conn[c].pend = << >> \/ main # "running" \/ crashed

=============================================================================
