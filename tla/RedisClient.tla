---------------------------- MODULE RedisClient ----------------------------
(***************************************************************************)
(* redis_client_t (redis-pool/src/redis_client.cpp) with socket_set.cpp:   *)
(* application threads append commands, one dispatch thread takes them off *)
(* the queue, sends each to the redis server of its key over a             *)
(* non-blocking socket and serves the edge-triggered events of epoll.      *)
(*                                                                         *)
(* The queue is the first-in first-out channel that QueueTChannel shows    *)
(* queue_t to be: command i is the i-th appended and dest[i] its server.   *)
(* The kernel and the servers are modelled by what the code sees of them:  *)
(* a socket has a send buffer of SndBuf bytes that the server empties, may *)
(* have replies to read, may be closed by the server, and wakes epoll when *)
(* one of these happens.  A command is CmdLen bytes, the k-th of command i *)
(* being <<i, k>>.                                                         *)
(*                                                                         *)
(* Descriptors are numbers that the process shares: other threads open and *)
(* close theirs, as the RedisCtx of the synchronous pool do.  Where the    *)
(* dispatch thread uses a number that is not its own any more, the step    *)
(* acts on whatever has that number.                                       *)
(***************************************************************************)
EXTENDS SocketSend, Integers, FiniteSets

CONSTANTS
  Servers,     \* the redis servers, one socket_t each (MAX_REDIS_DB_CNT is 1)
  Fds,         \* file descriptors the process can have
  SndBuf,      \* size of a socket's send buffer
  CmdLen,      \* bytes of a command
  MaxCmds,     \* bound on the commands appended
  MaxBreaks,   \* bound on the connections the servers close
  Others       \* what else opens descriptors, one at a time: each RedisCtx

ASSUME ClientAssumption ==
  /\ Fds \subseteq Nat
  /\ {SndBuf, CmdLen} \subseteq Nat \ {0}
  /\ {MaxCmds, MaxBreaks} \subseteq Nat
  /\ Servers \cap Others = {}
  /\ {"free", "none"} \cap (Servers \cup Others) = {}

VARIABLES
  hosts,    \* the servers m_cfg was left with
  pc,       \* where the dispatch thread is; "init" is before it is created
  dest,     \* history: the server of each command appended
  taken,    \* how many commands have left the queue
  evs,      \* the events of m_evs still to serve, by socket
  fd,       \* s->fd
  sc,       \* s->sc, the bytes kept for later
  owner,    \* kernel: whose each descriptor is
  sock,     \* kernel: the state of the socket of each server
  breaks,   \* connections closed by servers so far
  theirs,   \* the descriptor each of Others holds
  wire,     \* history: the bytes written to each server's present connection
  torn,     \* history: whether the present connection was sent something
            \* over a non-empty cache, or a short command was not kept
  robbed    \* history: the dispatch thread closed a descriptor of Others

dispatcher == <<pc, taken, evs, fd, sc>>
histories == <<wire, torn, robbed>>
vars == <<hosts, pc, dest, taken, evs, fd, sc, owner, sock, breaks, theirs, wire, torn, robbed>>

-----------------------------------------------------------------------------
(* Descriptors, sockets and epoll *)

NoFd == -1

FreeFds(own) == {f \in Fds : own[f] = "free"}
LowestFree(own) == CHOOSE f \in FreeFds(own) : \A g \in FreeFds(own) : f <= g

\* A socket just connected; epoll reports a watched one as writable.
Connected(isWatched) ==
  [unread |-> 0, nospace |-> FALSE, rx |-> FALSE, gone |-> FALSE,
   watched |-> isWatched, ready |-> isWatched]

\* No socket: the descriptor is closed.
Closed == Connected(FALSE)

\* What epoll_wait reports of a socket: EOF is reported as readable too, so
\* EPOLLRDHUP never comes without EPOLLIN.
Mask(k) == {e \in {"in", "out"} : IF e = "in" THEN k.rx \/ k.gone ELSE k.unread < SndBuf}

\* What has the number in s->fd now: a server's socket, another thread's
\* file or nothing.
Behind(s) == owner[fd[s]]

\* The connections of these servers are closed.
Lose(lost) ==
  /\ sock' = [t \in Servers |-> IF t \in lost THEN Closed ELSE sock[t]]
  /\ wire' = [t \in Servers |-> IF t \in lost THEN << >> ELSE wire[t]]

\* A change of a watched socket puts it on the ready list of epoll.
Woken(k) == [k EXCEPT !.ready = k.watched]

Bytes(i) == [k \in 1 .. CmdLen |-> <<i, k>>]

\* Where a command goes that no server is there for.
NoServer == "none"

Init ==
  /\ hosts \in SUBSET Servers
  /\ pc = "init" /\ dest = << >> /\ taken = 0 /\ evs = << >>
  /\ fd = [s \in Servers |-> NoFd]
  /\ sc = [s \in Servers |-> << >>]
  /\ owner = [f \in Fds |-> "free"]
  /\ sock = [s \in Servers |-> Closed]
  /\ breaks = 0 /\ theirs = [o \in Others |-> NoFd]
  /\ wire = [s \in Servers |-> << >>]
  /\ torn = [s \in Servers |-> FALSE]
  /\ robbed = FALSE

-----------------------------------------------------------------------------
(* init: add() each server of the configuration, then start the thread.     *)
(* init_node does not look at the result of parse, so that hosts may be     *)
(* only some of the configured servers, or none.                            *)

AddServer(s) ==
  /\ pc = "init" /\ s \in hosts /\ fd[s] = NoFd /\ FreeFds(owner) # {}
  /\ fd' = [fd EXCEPT ![s] = LowestFree(owner)]
  /\ owner' = [owner EXCEPT ![LowestFree(owner)] = s]
  /\ sock' = [sock EXCEPT ![s] = Connected(TRUE)]
  /\ UNCHANGED <<pc, dest, taken, evs, sc, breaks, theirs, hosts, histories>>

\* Every server is added: the queue, the pools and the thread are created.
StartThread ==
  /\ pc = "init" /\ \A s \in hosts : fd[s] # NoFd
  /\ pc' = "queue"
  /\ UNCHANGED <<dest, taken, evs, fd, sc, owner, sock, breaks, theirs, hosts, histories>>

\* A server can't be reached, or epoll_ctl fails: add returns -2, init -1.
\* So it does when the queue, a pool or the thread can't be made.
AddFails ==
  /\ pc = "init"
  /\ pc' = "failed"
  /\ UNCHANGED <<dest, taken, evs, fd, sc, owner, sock, breaks, theirs, hosts, histories>>

\* append_cmd, on an application thread: the queue takes the command.
AppendCmd(s) ==
  /\ pc \notin {"init", "failed"} /\ Len(dest) < MaxCmds
  /\ s \in (IF hosts = {} THEN {NoServer} ELSE hosts)
  /\ dest' = Append(dest, s)
  /\ UNCHANGED <<dispatcher, owner, sock, breaks, theirs, hosts, histories>>

-----------------------------------------------------------------------------
(* process_request_queue: one command *)

\* send_data of the next command for s: the socket it writes to, t's, has this
\* kernel state and was sent these bytes so far; the result is not looked at.
SendOn(s, t, k, cache, sent, isTorn) ==
  LET cmd == Bytes(taken + 1)
      room == SndBuf - k.unread
  IN  \E o \in SendData(cache, cmd, room) \cup (IF k.gone THEN SendErrors(cache, room) ELSE {}) :
        /\ wire' = [wire EXCEPT ![t] = sent \o o.out]
        /\ sc' = [sc EXCEPT ![s] = o.cache]
        /\ sock' = [sock EXCEPT ![t] =
                      [k EXCEPT !.unread = @ + Len(o.out),
                                !.nospace = @ \/ Len(o.out) < Len(cache) + CmdLen]]
        /\ torn' = [torn EXCEPT ![t] =
                      \/ isTorn
                      \/ fd[s] # NoFd /\ cache # << >>
                      \/ Len(o.out) - Len(cache) \in 1 .. CmdLen - 1 /\ o.cache = cache]

\* Mutant: the reconnected socket is sent what was kept for the old one.
SendReconnectedUncleared(s) ==
  /\ fd[s] = NoFd /\ FreeFds(owner) # {}
  /\ fd' = [fd EXCEPT ![s] = LowestFree(owner)]
  /\ owner' = [owner EXCEPT ![LowestFree(owner)] = s]
  /\ SendOn(s, s, Connected(TRUE), sc[s], << >>, FALSE)
  /\ taken' = taken + 1
  /\ UNCHANGED <<pc, dest, evs, breaks, theirs, hosts, robbed>>

\* The socket was closed: it is connected, registered and its caches emptied.
SendReconnected(s) ==
  /\ fd[s] = NoFd /\ FreeFds(owner) # {}
  /\ fd' = [fd EXCEPT ![s] = LowestFree(owner)]
  /\ owner' = [owner EXCEPT ![LowestFree(owner)] = s]
  /\ SendOn(s, s, Connected(TRUE), << >>, << >>, FALSE)
  /\ taken' = taken + 1
  /\ UNCHANGED <<pc, dest, evs, breaks, theirs, hosts, robbed>>

\* It can't be connected or registered: the command is given up.
GiveUp(s) ==
  /\ fd[s] = NoFd
  /\ taken' = taken + 1
  /\ UNCHANGED <<pc, dest, evs, fd, sc, owner, sock, breaks, theirs, hosts, histories>>

\* Mutant: a command that was not written in full is sent once more.
SendConnectedOnceMore(s) ==
  /\ fd[s] # NoFd
  /\ \E t \in Servers : Behind(s) = t /\ SendOn(s, t, sock[t], sc[s], wire[t], torn[t])
  /\ taken' = IF sc'[s] = << >> THEN taken + 1 ELSE taken
  /\ UNCHANGED <<pc, dest, evs, fd, owner, breaks, theirs, hosts, robbed>>

SendConnected(s) ==
  /\ fd[s] # NoFd
  /\ \E t \in Servers : Behind(s) = t /\ SendOn(s, t, sock[t], sc[s], wire[t], torn[t])
  /\ taken' = taken + 1
  /\ UNCHANGED <<pc, dest, evs, fd, owner, breaks, theirs, hosts, robbed>>

\* The number is another thread's file, that takes any part of it, or nobody's
\* and the write fails.
SendElsewhere(s) ==
  /\ fd[s] # NoFd /\ Behind(s) \notin Servers
  /\ \E room \in 0 .. Len(sc[s]) + CmdLen :
       \E o \in IF Behind(s) = "free" THEN SendErrors(sc[s], 0)
               ELSE SendData(sc[s], Bytes(taken + 1), room) \cup SendErrors(sc[s], room) :
         sc' = [sc EXCEPT ![s] = o.cache]
  /\ taken' = taken + 1
  /\ UNCHANGED <<pc, dest, evs, fd, owner, sock, breaks, theirs, hosts, histories>>

\* get_node finds no server in an empty ring (it reads past the end of the
\* map, the word behind which was zeroed): the command is skipped.
SkipCommand ==
  /\ dest[taken + 1] = NoServer
  /\ taken' = taken + 1
  /\ UNCHANGED <<pc, dest, evs, fd, sc, owner, sock, breaks, theirs, hosts, histories>>

ProcessRequest ==
  /\ pc = "queue" /\ taken < Len(dest)
  /\ \/ SkipCommand
     \/ \E s \in Servers :
          /\ dest[taken + 1] = s
          /\ SendReconnected(s) \/ GiveUp(s) \/ SendConnected(s) \/ SendElsewhere(s)

QueueEmpty ==
  /\ pc = "queue" /\ taken = Len(dest)
  /\ pc' = "wait"
  /\ UNCHANGED <<dest, taken, evs, fd, sc, owner, sock, breaks, theirs, hosts, histories>>

-----------------------------------------------------------------------------
(* dispatch_thread_proc: wait for events and serve them *)

\* Mutant: no timeout, so that only an event ends the wait.
PollForever ==
  /\ pc = "wait"
  /\ LET woken == {s \in Servers : sock[s].ready /\ Mask(sock[s]) # {}}
     IN  /\ woken # {}
         /\ evs' = [s \in woken |-> Mask(sock[s])]
  /\ pc' = "events"
  /\ sock' = [s \in Servers |-> [sock[s] EXCEPT !.ready = FALSE]]
  /\ UNCHANGED <<dest, taken, fd, sc, owner, breaks, theirs, hosts, histories>>

\* epoll_wait returns each socket on the ready list once, with all there is
\* to report of it now, or nothing after five seconds or a signal.
Poll ==
  /\ pc = "wait"
  /\ LET woken == {s \in Servers : sock[s].ready /\ Mask(sock[s]) # {}}
     IN  /\ evs' = [s \in woken |-> Mask(sock[s])]
         /\ pc' = IF woken = {} THEN "queue" ELSE "events"
  /\ sock' = [s \in Servers |-> [sock[s] EXCEPT !.ready = FALSE]]
  /\ UNCHANGED <<dest, taken, fd, sc, owner, breaks, theirs, hosts, histories>>

\* The event of s is served; after the last one the queue is next.
Served(s) ==
  /\ evs' = [t \in DOMAIN evs \ {s} |-> evs[t]]
  /\ pc' = IF DOMAIN evs = {s} THEN "queue" ELSE "events"

\* __CLOSE: reconnect, once the number s->fd is closed, whoever has it.  What
\* the cache keeps stays for the new connection.  reconnect returns 0 when it
\* succeeds, which "> 0" takes for a failure: the new socket is not registered
\* with epoll and the failure is logged in both cases.
Reconnect(s, own) ==
  /\ \/ /\ fd' = [fd EXCEPT ![s] = NoFd]
        /\ owner' = own
     \/ /\ FreeFds(own) # {}
        /\ fd' = [fd EXCEPT ![s] = LowestFree(own)]
        /\ owner' = [own EXCEPT ![LowestFree(own)] = s]
  /\ Lose({s, Behind(s)})
  /\ torn' = [torn EXCEPT ![s] = sc[s] # << >>]
  /\ robbed' = (robbed \/ Behind(s) \in Others)
  /\ Served(s)

\* Mutant: s->fd is not set to -1, so that reconnect finds the socket valid.
CloseAndReconnectStale(s) ==
  /\ owner' = [owner EXCEPT ![fd[s]] = "free"]
  /\ Lose({s, Behind(s)})
  /\ torn' = [torn EXCEPT ![s] = sc[s] # << >>]
  /\ robbed' = (robbed \/ Behind(s) \in Others)
  /\ Served(s)
  /\ UNCHANGED fd

CloseAndReconnect(s) == Reconnect(s, [owner EXCEPT ![fd[s]] = "free"])

\* EPOLLIN: recv_data reads and drops what there is, if anything.  After a
\* short read it does not look for the end of the stream.
Receive(s) ==
  /\ "in" \in evs[s]
  /\ \/ /\ Behind(s) \in Others
        /\ UNCHANGED sock
     \/ \E t \in Servers :
          /\ Behind(s) = t /\ (sock[t].rx \/ ~sock[t].gone)
          /\ sock' = [sock EXCEPT ![t].rx = FALSE]
  /\ Served(s)
  /\ UNCHANGED <<dest, taken, fd, sc, owner, breaks, theirs, hosts, histories>>

\* It meets the end of the stream or an error, or the pool has no memory for
\* the replies.
ReceiveFails(s) ==
  /\ "in" \in evs[s]
  /\ CloseAndReconnect(s)
  /\ UNCHANGED <<dest, taken, sc, breaks, theirs, hosts>>

\* EPOLLOUT, only when EPOLLIN is not reported with it: send_data_cache.
WriteCached(s) ==
  /\ evs[s] = {"out"}
  /\ \/ /\ Behind(s) \in Others
        /\ \E room \in 0 .. Len(sc[s]) : sc' = [sc EXCEPT ![s] = Flush(sc[s], room).cache]
        /\ UNCHANGED <<wire, sock>>
     \/ \E t \in Servers :
          /\ Behind(s) = t
          /\ LET o == Flush(sc[s], SndBuf - sock[t].unread)
             IN  /\ wire' = [wire EXCEPT ![t] = @ \o o.out]
                 /\ sc' = [sc EXCEPT ![s] = o.cache]
                 /\ sock' = [sock EXCEPT ![t].unread = @ + Len(o.out),
                                         ![t].nospace = @ \/ o.cache # << >>]
  /\ Served(s)
  /\ UNCHANGED <<dest, taken, fd, owner, breaks, theirs, hosts, torn, robbed>>

\* A call on the socket can fail: the server broke the connection after
\* epoll_wait returned, or the number is not the socket's any more.
Fails(s) == Behind(s) \in Servers => sock[Behind(s)].gone

\* getsockopt reports it.
SocketError(s) ==
  /\ evs[s] = {"out"} /\ Fails(s)
  /\ CloseAndReconnect(s)
  /\ UNCHANGED <<dest, taken, sc, breaks, theirs, hosts>>

\* Or the write of the cache fails: the cache is skipped, the descriptor is
\* closed but kept in s->fd, ...
WriteFails(s) ==
  /\ evs[s] = {"out"} /\ Fails(s) /\ sc[s] # << >>
  /\ sc' = [sc EXCEPT ![s] = << >>]
  /\ owner' = [owner EXCEPT ![fd[s]] = "free"]
  /\ Lose({s, Behind(s)})
  /\ robbed' = (robbed \/ Behind(s) \in Others)
  /\ evs' = [evs EXCEPT ![s] = {}]
  /\ pc' = "closing"
  /\ UNCHANGED <<dest, taken, fd, breaks, theirs, hosts, torn>>

\* ... and at __CLOSE it is closed again, whoever has it by then.
CloseAgain(s) ==
  /\ pc = "closing" /\ evs[s] = {}
  /\ CloseAndReconnect(s)
  /\ UNCHANGED <<dest, taken, sc, breaks, theirs, hosts>>

ServeEvent ==
  \E s \in DOMAIN evs :
    \/ /\ pc = "events"
       /\ Receive(s) \/ ReceiveFails(s) \/ WriteCached(s) \/ SocketError(s) \/ WriteFails(s)
    \/ CloseAgain(s)

-----------------------------------------------------------------------------
(* The kernel, the servers and the other threads *)

\* Whether the process has a connection to s now.
Open(s) == \E f \in Fds : owner[f] = s

\* The server has read some of what was sent.  Only a writer that was refused
\* is woken.
Drain(s) ==
  /\ Open(s) /\ ~sock[s].gone
  /\ \E n \in 0 .. sock[s].unread - 1 :
       sock' = [sock EXCEPT ![s] =
                  IF @.nospace THEN [Woken(@) EXCEPT !.unread = n, !.nospace = FALSE]
                               ELSE [@ EXCEPT !.unread = n]]
  /\ UNCHANGED <<pc, dest, taken, evs, fd, sc, owner, breaks, theirs, hosts, histories>>

Reply(s) ==
  /\ Open(s) /\ ~sock[s].gone /\ ~sock[s].rx
  /\ sock' = [sock EXCEPT ![s] = [Woken(@) EXCEPT !.rx = TRUE]]
  /\ UNCHANGED <<pc, dest, taken, evs, fd, sc, owner, breaks, theirs, hosts, histories>>

Break(s) ==
  /\ Open(s) /\ ~sock[s].gone /\ breaks < MaxBreaks
  /\ breaks' = breaks + 1
  /\ sock' = [sock EXCEPT ![s] = [Woken(@) EXCEPT !.gone = TRUE]]
  /\ UNCHANGED <<pc, dest, taken, evs, fd, sc, owner, theirs, hosts, histories>>

\* A server answers what it is sent on a closed connection with a reset.
Reset(s) ==
  /\ Open(s) /\ sock[s].gone /\ sock[s].unread > 0
  /\ sock' = [sock EXCEPT ![s] = [Woken(@) EXCEPT !.unread = 0]]
  /\ UNCHANGED <<pc, dest, taken, evs, fd, sc, owner, breaks, theirs, hosts, histories>>

\* Another thread opens a descriptor, ...
OpenForeign(o) ==
  /\ theirs[o] = NoFd /\ FreeFds(owner) # {}
  /\ theirs' = [theirs EXCEPT ![o] = LowestFree(owner)]
  /\ owner' = [owner EXCEPT ![LowestFree(owner)] = o]
  /\ UNCHANGED <<pc, dest, taken, evs, fd, sc, sock, breaks, hosts, histories>>

\* ... sends over it and receives, which reaches the client's socket when the
\* number has become that, ...
UseForeign(o) ==
  /\ theirs[o] # NoFd
  /\ \E t \in Servers :
       /\ owner[theirs[o]] = t
       /\ \E n \in sock[t].unread .. SndBuf :
            sock' = [sock EXCEPT ![t].unread = n, ![t].nospace = @ \/ n = SndBuf, ![t].rx = FALSE]
  /\ UNCHANGED <<pc, dest, taken, evs, fd, sc, owner, breaks, theirs, hosts, histories>>

\* ... and closes the number it was given, whoever has it now.
CloseForeign(o) ==
  /\ theirs[o] # NoFd
  /\ theirs' = [theirs EXCEPT ![o] = NoFd]
  /\ owner' = [owner EXCEPT ![theirs[o]] = "free"]
  /\ Lose({owner[theirs[o]]})
  /\ UNCHANGED <<pc, dest, taken, evs, fd, sc, breaks, hosts, torn, robbed>>

Starting == StartThread \/ AddFails \/ \E s \in Servers : AddServer(s)
Dispatching == ProcessRequest \/ QueueEmpty \/ Poll \/ ServeEvent
Appending == \E s \in Servers \cup {NoServer} : AppendCmd(s)
Serving == \E s \in Servers : Drain(s) \/ Reply(s) \/ Break(s) \/ Reset(s)
Foreign == \E o \in Others : OpenForeign(o) \/ UseForeign(o) \/ CloseForeign(o)

Next == Starting \/ Dispatching \/ Appending \/ Serving \/ Foreign

Spec == Init /\ [][Next]_vars

\* The dispatch thread is never blocked for good, as its sockets do not block;
\* another thread's file might, so that AppendedIsTaken says nothing once it may
\* use one.  Servers read what they are sent.
Fairness ==
  /\ WF_vars(Dispatching)
  /\ \A s \in Servers : WF_vars(Drain(s))

FairSpec == Spec /\ Fairness

-----------------------------------------------------------------------------
(* Properties *)

Socket ==
  [unread : 0 .. SndBuf, nospace : BOOLEAN, rx : BOOLEAN, gone : BOOLEAN, watched : BOOLEAN, ready : BOOLEAN]

\* The bytes of the first n commands, and those of them that may be cached.
SentBytes(n) == (1 .. n) \X (1 .. CmdLen)
KeptBytes(n) == (1 .. n) \X (2 .. CmdLen)

Distinct(bytes) == \A n \in DOMAIN bytes : \A m \in 1 .. n - 1 : bytes[m] # bytes[n]

\* Every variable has its type.  A cache holds, of each command taken off the
\* queue, bytes after the first, and none of them twice, so that it is never
\* longer than what was left of the commands cut short, whatever file the
\* number of its socket has become.
TypeOK ==
  /\ hosts \subseteq Servers
  /\ pc \in {"init", "queue", "wait", "events", "closing", "failed"}
  /\ dest \in Seq(Servers \cup {NoServer}) /\ Len(dest) <= MaxCmds
  /\ taken \in 0 .. Len(dest)
  /\ DOMAIN evs \subseteq Servers
  /\ \A s \in DOMAIN evs : evs[s] \subseteq {"in", "out"}
  /\ fd \in [Servers -> Fds \cup {NoFd}]
  /\ owner \in [Fds -> Servers \cup Others \cup {"free"}]
  /\ sc \in [Servers -> Seq(KeptBytes(taken))]
  /\ \A s \in Servers : Distinct(sc[s])
  /\ sock \in [Servers -> Socket]
  /\ \A s \in Servers : sock[s].ready => sock[s].watched
  /\ wire \in [Servers -> Seq(SentBytes(taken))]
  /\ torn \in [Servers -> BOOLEAN]
  /\ breaks \in 0 .. MaxBreaks
  /\ theirs \in [Others -> Fds \cup {NoFd}]
  /\ robbed \in BOOLEAN

\* The descriptor the dispatch thread writes to and reads from is open and is
\* its own, whatever numbers the kernel gives out again meanwhile to other
\* threads that open and close theirs.  One is stale only while it is closed
\* for the second time, or once such a second close has hit a descriptor of
\* another thread: then that thread may close, as its own, the number that
\* a reconnect was given since.  And no reconnect, not even then, leaks one.
FdOwned ==
  /\ \A s \in Servers :
       fd[s] # NoFd => \/ Behind(s) = s
                       \/ pc = "closing" /\ s \in DOMAIN evs /\ evs[s] = {}
                       \/ robbed
  /\ \A f \in Fds : owner[f] \in Servers => fd[owner[f]] = f

\* On a connection commands start in the order in which append_cmd was called,
\* none of them twice and each on its own server, even where what is cached
\* is sent again, as long as the second close has not hit another thread's
\* descriptor.
StartsInOrder ==
  ~robbed =>
    \A s \in Servers :
      LET starts == {n \in DOMAIN wire[s] : wire[s][n][2] = 1}
      IN  \A n \in starts :
            /\ wire[s][n][1] <= taken /\ dest[wire[s][n][1]] = s
            /\ \A m \in starts : m < n => wire[s][m][1] < wire[s][n][1]

\* Commands end to end, in the order they were appended.
Whole(bytes) ==
  bytes # << >> =>
    /\ bytes[1][2] = 1
    /\ \A n \in 1 .. Len(bytes) - 1 :
         \/ bytes[n + 1] = <<bytes[n][1], bytes[n][2] + 1>>
         \/ bytes[n][2] = CmdLen /\ bytes[n + 1][2] = 1 /\ bytes[n][1] < bytes[n + 1][1]
    /\ bytes[Len(bytes)][2] = CmdLen

\* As long as no command is sent while bytes of an earlier one are cached, and
\* the pool has memory for what a short write leaves, the server gets whole
\* commands: what was written and what is cached are commands end to end,
\* whatever short writes and flushes cut them.  A connection made by
\* process_request_queue starts like that, for it empties the cache; one that
\* the event loop made over a non-empty cache does not.
WholeCommands ==
  ~robbed => \A s \in Servers : fd[s] # NoFd /\ ~torn[s] => Whole(wire[s] \o sc[s])

\* Every command appended is taken off the queue, though nothing wakes the
\* dispatch thread when one is: epoll_wait times out.
AppendedIsTaken ==
  \A i \in 1 .. MaxCmds : Len(dest) >= i ~> taken >= i \/ robbed

\* "data in cache has been sent over" (socket_set.cpp:93): after that none of
\* it is sent again on the same connection.
SentOnce ==
  \A s \in Servers :
    \A m, n \in DOMAIN wire[s] : wire[s][m] = wire[s][n] => m = n

\* "write data next time" (socket_set.cpp:200), and there is a next time: what
\* is cached for a server that keeps reading, on a connection epoll watches, is
\* written in the end, unless that connection is lost.
LeftoverIsWritten ==
  \A s \in Servers :
    sock[s].watched /\ sc[s] # << >> ~> ~sock[s].watched \/ sc[s] = << >>

\* "close socket, peer info" (redis_client.cpp:539): what the dispatch thread
\* closes is its own socket, so that other threads keep the descriptors they
\* were given.
ClosesItsOwn == \A o \in Others : theirs[o] # NoFd => owner[theirs[o]] = o

=============================================================================
