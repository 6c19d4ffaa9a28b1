# redis-pool: specification, model checking and proofs

`redis-pool` (under `redis-pool/`) is a C++ client library that spreads keys over
many redis servers with a consistent-hash ring.  It has three ways to reach a
server: a synchronous one (`DbPool`, `DbRead`, `DbWrite` over `RedisCtx`), an
asynchronous one (`AsynDbPool` over `AsynCtx` and libevent), and an event-driven
one (`redis_client_t`: a lock-free queue, one dispatch thread, epoll and
non-blocking sockets).  The rest of the repository are two sample programs.
This directory holds TLA+ modules of these parts, the TLC configurations that
check them, and proofs for TLAPS.  Paths below are under `redis-pool/src/`.

## 1. Inventory

| Part | State | Operations | Talks to | Hard because |
|---|---|---|---|---|
| `queue_t` (`queue.cpp`) | the ring `m_queue`; `m_enqueue_pos`, `m_pre_enqueue_pos`, `m_dequeue_pos`, `m_pre_dequeue_pos` | `init`, `enqueue`, `dequeue`, `free_data` | callers of any thread; `redis_client_t` | no lock: two CAS and two in-order spins, a header read before it is owned, stale counters with unsigned wrap-around |
| `HashNodes`, `RedisNodes` | map from 32-bit hash to node; map from pointer to node | `putNode`, `getNode`, `putData`, `findData` | the pools | collisions between servers, wrapping at the end of the ring |
| `DbBase`, `DbPool`, `DbDebug` | one ring and one `RedisCtx` per server; read and write pools | `init`, `add`, and the calls below | `RedisConf`, `RedisCtx` | partial failure of `init`; all pools of all processes must agree |
| `RedisCtx` (`_RedisHeader.cpp`) | `redisContext`, `status`, `m_appCnt`, `m_lock` | `operation`, `operationCmd`, `queryDebug`, `delPatternKeys`, `appendCmd`, `commit`, reconnects | hiredis, the server | shared by threads; batches; failures in the middle; automatic commit |
| `redis_client_t`, `socket_set.cpp`, `cache.cpp` | the queue, one `socket_t` per server with a send cache, `m_evs` | `init`, `append_cmd`, `dispatch_thread_proc`, `process_request_queue`, `send_data`, `send_data_cache`, `recv_data`, `reconnect` | kernel (epoll, descriptors), servers | edge-triggered events, short writes, broken connections, reused descriptors |
| `memory_pool_t`, `element_set_t` | buckets of blocks, free lists, `m_allocated_size` | `alloc`, `release`; `get_elem`, `put_elem` | `cache_t` | two kinds of lists over the same elements, recycling while expanding, 32-bit arithmetic next to 2 GB |
| `cache_t` | block, offset, lengths | `append`, `skip` | the pool; `send_data` | data moves inside and between blocks |
| `AsynCtx`, `AsynDbPool` | `redisAsyncContext`, `status`, the pointer map | `add`, `operation`, `reset`, `run`, callbacks | libevent thread | callbacks of a connection that was replaced |
| `Thread`, `ThreadLock`, singletons | `bRun`, `thr`; `g_pool` | `start`, `stop`, `join`, `instance` | | unsynchronised flags |
| `RedisConf` | hosts, password | `parse` | jsoncpp | none; stateless after parsing |
| `util.c`, `Log.h`, `redis_protocol.cpp`, `packet_header.h`, samples | none | formatting, logging, demonstrations | | not modelled |

What makes each part correct:

* **queue_t** - nobody copies into cells that another thread is writing or
  reading; a message comes out whole, once, in the order of the claims; "full"
  and "empty" are true when reported; every call returns.
* **Hash ring** - every initialised pool sends a key to the same server; adding
  a server moves keys only to it.
* **RedisCtx** - a reply belongs to the call that gets it; nothing is executed
  twice; a successful commit means executed; the lock is always given back.
* **redis_client_t** - a descriptor that is used is the client's own, what it closes
  is its own, and it leaks none; the bytes a server receives are whole commands in
  order; what is appended is sent.
* **memory_pool_t** - no block is handed out twice, none is lost, the counters agree
  with the lists, no block but one of the largest size crosses the limit; a `cache_t` is the bytes that were appended and
  not skipped, wherever they are moved.
* **AsynCtx** - what it points at is a connection of its own; every call returns, every
  accepted command gets its callback.
* **Thread** - `join` returns, and not before `run` is over.

`PROJECT.json` lists the hazards line by line, with the properties that watch
each of them and the reason where there is none yet.

## 2. Plan

Modules in the order of their importance; M1 to M8 are written, checked and proved, but
for the liveness properties, which are only checked.

| | Modules | Content | Theorems |
|---|---|---|---|
| M1 | `QueueT`, `Channel`, `QueueTChannel`, `GatherCopy` | the queue, the channel it implements, its byte copies | done: all safety, `ImplementsChannel`, the byte copies |
| M2 | `HashRing`, `DbInit` | the ring and how `init` fills it | done: all safety |
| M3 | `RedisCtx` | the synchronous connection | done: all safety |
| M4 | `SocketSend` | what one send does with the cache, as operators | done: `FlushKeepsBytes`, `SendDataWrites` |
| M5 | `RedisClient` | composes M4 with the dispatch thread, epoll and the queue as a channel | done: all safety |
| M6 | `ElementSet`, `MemoryPool`, `Allocator` | two linked lists in one array; buckets; the allocator they implement | done: `TypeOK`, `BlocksApart`, `NothingLost`, `ImplementsAllocator`, `LimitCrossedByLargest` |
| M7 | `Cache` | composes M6 with the caches that use the pool | done: `CacheIsByteSequence` |
| M8 | `AsynPool` | event thread, callers, callbacks; start, stop and join | done: `OwnConnection`, `JoinedIsOver` |

## 3. Modules and code

**`QueueT`** - `queue.cpp`.  One action is one access to shared memory, so that
`enqueue` is `ReadPreEnq`, `ReadDeq`, `CasPreEnq`, one `WriteCell` per cell,
`Publish`, and `dequeue` is `ReadPreDeq`, `ReadEnq`, `ReadHdr`, `CasPreDeq`,
one `CopyCell` per cell, `Release`.  The loads are volatile and the CAS is a full
barrier; on the x86 the code is written for (it executes `pause`) a store is not
seen before an earlier store, so the interleavings of the accesses are the
behaviours.  Space is counted in cells of 8 bytes, `sizeof(header_t)`; a message
takes one cell for its header and its length rounded up.  A cell records which
message and which part of it was written there, so a torn or stale copy is
visible.  A header read from a cell that holds payload is any length.  The
positions are 64-bit and not reduced: they do not overflow in the life of a
process, and the one place where unsigned wrap matters, `m_queue_size -
(enqueue_pos - dequeue_pos)` with a stale `enqueue_pos`, gives the same number as
`Room` over the integers because two wraps cancel.  `claims` is a history
variable: the messages whose space is in use.

**`Channel`**, **`QueueTChannel`** - the abstract specification, a bounded
first-in first-out channel in three stages, and the mapping: the claims in order
of position (`InOrder`), cut at `m_enqueue_pos` and at `m_pre_dequeue_pos`: `Putting`,
`Ready` and `Taking`.

**`GatherCopy`** - the byte copies of one `enqueue` and the `dequeue` of its message.
`Add` is a turn of the loop that adds up the lengths, in 32 bits (`Word`), and refuses
what is longer than 1 GB (`Limit`); `Reject` is the other reasons to return; `Place`
claims the space, writes the header and calls `memcpy_v`, for the whole message or for
what comes before the end of the ring; `Turn` is a turn of the loop of `memcpy_v`, over
at most `MaxParts` buffers, and `Return` its return, with the second call if something
is left; `Take` is the copy out.  `QueueT` takes the result for granted cell by cell; this
is where it is checked and proved.  What other threads do meanwhile does not matter: by
`NoOverlap` nobody else touches these cells.

**`HashRing`** - `putNode` and `getNode` as operators on a function from taken
positions to servers.  The hash is any function.

**`DbInit`** - `DbPool::init`, `DbBase::init/add` and `DbDebug::init/add`: each pool
parses and adds the hosts one after the other; a server's vnodes are put in the
ring before it is connected, and a failure to connect ends `init`.  The pools step
independently, as separate processes that share the servers do; within one
`DbPool` the write pool starts after the read pool succeeded.

**`RedisCtx`** - one server's read and write connection and the threads that share
them.  Each public operation is `Call`, `Lock`, its steps on the connection, and
`Return`; a failure goes through `Reconn` first.  `redisAppendCommand` only
buffers, `redisGetReply` sends the buffer and waits; the server executes in order,
and may execute what it had received after the connection was given up (`limbo`).
`ctx[x].appCnt` is `m_appCnt`.

**`SocketSend`** - `send_data`, `send_data_cache` and the cache as operators: given
the cache, the command and the room in the kernel's buffer, the possible pairs of
bytes written and cache left.

**`RedisClient`** - `redis_client_t`.  `pc` is where the dispatch thread is: taking
commands off the queue (`ProcessRequest`, `QueueEmpty`), in `epoll_wait` (`Poll`),
serving events (`ServeEvent`).  The queue is the channel of M1.  A socket
has its unread bytes, pending replies, whether the peer closed it, and its place
in epoll's ready list, from which edge-triggered events are derived.

`init` may find any part of the servers in the configuration (`hosts`), or none, since
`init_node` does not look at what `parse` returns: in an empty ring every command
is skipped (`SkipCommand`, the `s == NULL` branch).

Descriptors are numbers that the kernel gives out lowest first, and the rest of the
process takes part: each of `Others`, as a `RedisCtx` of the synchronous pool does,
opens one, writes to and reads from its number, and closes it (`OpenForeign`,
`UseForeign`, `CloseForeign`), whoever has it by then.  All that the dispatch thread
does with `s->fd` acts on what has the number now (`Behind`): the socket
of a server, the file of another thread (`SendElsewhere`, and the other thread's
disjuncts of `Receive` and `WriteCached`) or nothing.  Between them, the second close of a
number (lines 501 and 542) can take another thread's descriptor (`robbed`); a
reconnect can be given its number; and the other thread's own close then takes the
client's socket away, or its reads and writes go to it.  What happens after that is modelled,
but `FdOwned`, `StartsInOrder`, `WholeCommands` and `AppendedIsTaken` promise nothing
of descriptors and bytes once `robbed` is true, except that none is leaked; that the
close should not happen is `ClosesItsOwn`, which run `client_close` refutes.

**`ElementSet`**, **`MemoryPool`** - `element_set.h` and `memory_pool.cpp`.  `get_elem` and
`put_elem` are operators on a record of both lists.  `alloc` and `release` hold `m_mutex`
throughout, so one call is going on at a time; it is cut into the turns of its
loops: `Alloc`, `Expand`, one `Recycle` per block freed, `RecycleNext`, one `Grow` per
block, `GrowFails`, `Take`, `Return`, and `Release` with its own recycling, ended by `TrimDone`.
`malloc` may fail, or return any address not in use.  Sizes are multiples of the
smallest block, and 2^32 is `Word`.  `heap` is what was not freed, `inUse` its size
without the cut to 32 bits, `held` what callers have.

**`Allocator`** - what the pool promises: whoever asks gets a block of the smallest size
that is enough, at an address and under a cookie nobody else has, or nothing.

**`Cache`** - `cache.cpp` over `MemoryPool`: the caches of a client share a pool, one thread
uses them.  `append` is `AppendData`, `Appending` when a block was asked for, `ReleaseOld`,
`AppendWrite`; between them are the steps of the pool.  Bytes are numbers modulo `Tags`
that go on from the last one of the cache, so that bytes lost, repeated or mixed with
another's are seen; what a cache does not have in use is `Junk`.  The destructor is a
`skip` of everything.

**`AsynPool`** - `AsynCtx`, `AsynDbPool` and `Thread`.  A caller is at `Begin`, `Lock`, `Command`,
`CloseOld`, `Connect`, `Select`, `Unlock`; `Close` is what `AsynCtx::close` does for callers and
callbacks alike.  The event thread is in `event_base_dispatch` (`Reply`, `Drop`, then
`CloseSafe` and `CallbackDone` for each callback), or in the rest of `run`; a
`redisAsyncContext` has its pending callbacks, each with the `AsynCtx` it was submitted
with, and is freed at once, or after its callbacks, as hiredis does.  Addresses are
used again.  `stop` and `join` are in steps: `join` reads `thr` (`JoinCheck`), reads it again
for `pthread_join` (`JoinRead`, by when it may be 0) and waits (`JoinReturns`).  Using one after it was freed is undefined: the process ends (`crashed`),
the call fails, or it seems to work.  `idled` records that a connection was freed
while an `AsynCtx` had it and no callback was pending to tell: that a server that
closes an idle connection leaves a dangling pointer is a fact of the code
(`AsynDbConn.cpp:181` only logs), and `OwnConnection` says that there is no other way
to one.

The `MC` modules only give values, symmetry and a view to the constants; a run whose
module has none is of the module itself.

## 4. Runs

| Run | Shows | Bounds and why they are enough |
|---|---|---|
| `queue` | `TypeOK`, `WindowOrder`, `NoOverlap`, `HeaderFresh`, `IntactDelivery`, `NoOrphan`, `FullIsReal`, `EmptyIsReal` and `ImplementsChannel` | 2 producers, 2 consumers, 4 cells, lengths rejected, fitting and too long, 3 messages: two of them fill the ring, the third wraps over the first while its header may still be read; the proofs cover the rest |
| `queue_live` | `EnqueueReturns`, `DequeueReturns`, `ImplementsFairChannel` | as `queue` with 2 messages, no symmetry |
| `copies` | `StoredInPlace` (with `WithinRing`), `TakenWhole` | ring of 8 bytes, header of 2, up to 3 buffers of 0 to 15 bytes, with a limit of 7 and lengths modulo 16, as 1 GB and 4 GB are to each other: sums that would wrap, empty buffers, every relation of a buffer's end to the ring's end; proved for all values |
| `ring_init` | `TypeOK`, `FirstCome`, `InitialisedPoolsAgree`, `OnlyNewTakesKeys` | 3 servers, 2 vnodes, 4 positions, every hash function: collisions, gaps and wrapping; proved for all values |
| `ctx` | `TypeOK`, `ReplyIsOwn`, `NoneOutstanding`, `ExecutedInOrder`, `CommittedIsExecuted`, `CallsReturn` | 2 threads, 3 calls, automatic commit at 2, one broken connection: two commands appended and a commit or a query between them, with a failure at any point |
| `client` | `TypeOK`, `FdOwned`, `StartsInOrder`, `WholeCommands`, `AppendedIsTaken` | 2 servers or fewer, 2 descriptors (so that one that is closed is the next one given out), buffer of 3 bytes and commands of 2: the second command is cut; 3 commands, one broken connection, one other thread that opens and closes a descriptor any number of times: its number is closed a second time, given to a reconnect, and closed by that thread; proved for all values but for `AppendedIsTaken` |
| `pool` | `TypeOK`, `BlocksApart`, `NothingLost`, `LimitCrossedByLargest`, `ImplementsAllocator`, `CacheIsByteSequence` | 2 caches; 3 sizes of blocks, one for each rule of expanding and recycling (4 at a time; 2 units' worth; one at a time); 4 elements, so that one bucket can have them all; the limit is the largest block and the word twice that, as 2 GB and 4 GB are; appends of 1, 3 and 13 units: within a block, to the next one, too long for any and for 32 bits |
| `asyn` | `TypeOK`, `OwnConnection`, `JoinedIsOver`, `CallsReturn`, `Answered` | 2 callers, 2 `AsynCtx` objects, 2 addresses (each is used again by another), 3 calls, 2 failures of a connection or of `select`: a late callback meets a new connection |

Run `pool` identifies states by `Live`, which leaves out fields that are set again before
they are read (`prev` and `ptr` of free elements, `link` of elements in no list), and takes
addresses and caches as interchangeable; all its properties are invariants or say something
of single steps in terms of what `Live` keeps.

Four runs are expected to find a violation; each states what a comment, a log
message or the documentation says.  They are disagreements met while modelling:

| Run | Says | Does |
|---|---|---|
| `client_resend` | `socket_set.cpp:93` "data in cache has been sent over" | the cache is not skipped and is sent again |
| `client_flush` | `socket_set.cpp:200` "write data next time" | a write event reported with a read event is not served, and there is no other edge |
| `client_close` | `redis_client.cpp:539` "close socket" | a number closed before is closed again, whoever has it; `reconnect` may then get that number, and its other user's own close ends the new connection |
| `ctx_lost_batch` | `doc/Redis_Hash接口使用说明.txt:55` commit submits all commands not yet submitted | a reconnect throws accepted commands away and the next commit succeeds |

Three more need no run.  `socket_set.cpp:69` says of EAGAIN "write data next time", but
`remain_len` is still 0 at `__OUT`: a command that meets a full buffer is not appended to
the cache, `process_request_queue` ignores the result, and it is never written
(`SendErrors` of `SocketSend`, and the gaps that `WholeCommands` allows).
`redis_client.cpp:547` tests `reconnect(s) > 0`, but `reconnect`
returns 0 for success and -1 for failure: a socket that the event loop
reconnects is never registered with epoll again (`Reconnect`), and its success is logged
as "reconnect to redis failed" (line 559).  And `doc/README`, point 3, has 16 databases per server,
where `MAX_REDIS_DB_CNT` (`RedisHeader.h:24`) is 1.

Deadlock is checked in the runs of the queue, where idle consumers may always
call again; the others stop where their bounds or a failed `init` end them
(`CHECK_DEADLOCK FALSE`).

**Fairness.**  `queue_live`: weak fairness of every thread inside a call - the spins
yield the processor - and none for making calls.  `client`, `client_flush`: weak
fairness of the dispatch thread, which never blocks longer than the five
seconds of `epoll_wait`, as its sockets do not block (`AppendedIsTaken` claims nothing
once it may use another thread's file, which might), and of each server's reading.  `ctx`: weak fairness
of a thread that can step and of the server, strong fairness of taking the
mutex, since a pthread mutex that is released again and again is in the end given to
each waiting thread; without that a thread may starve.  `asyn`: weak fairness of the
threads that are in a call, of the event thread, of `pthread_join`, and of a reply on each
connection that waits for one; a server that never answers is the failure `Drop`.  The
calls are bounded, so weak fairness is enough for `m_lock`.  That `join` returns is
claimed only for when no connection is left in the end, since `stop` does not wake
`event_base_dispatch`.

## 5. Proofs

`QueueTProofs` proves, for all sets of producers and consumers, every ring size
and all message lengths, `TypeOK`, `WindowOrder`, `NoOverlap`, `HeaderFresh`,
`IntactDelivery`, `NoOrphan`, `FullIsReal` and `EmptyIsReal`.  The only assumption is
`QueueAssumption`: the constants are sets of naturals and the size is positive.
None of the properties is inductive alone.  `NoOverlap` needs to know that what a
producer claims is free, hence that the room it saw when it read `m_dequeue_pos`
can only have grown (`RoomKept`); that a claim is contiguous with the others
(`Tiling`: the claims in use tile the window from `m_dequeue_pos` to
`m_pre_enqueue_pos`, with every counter on a boundary); and that a position
identifies its owner (`WritersOwn`, `ReadersOwn`).  `HeaderFresh`, the delicate one, needs
that a position read from `m_pre_dequeue_pos` was once the next to take and
that something was published there (`PositionOnceNext`), that published content
stays until it is released (`ContentKept`), and that counters only grow: if
the counter still has the old value at the compare-and-swap, nobody took the
message in between, so nobody wrote over its header.  `SlotsDistinct` is the
arithmetic fact under all of it: two positions less than the size apart lie in
different slots.  `IInv` is the conjunction; the proof has one lemma per group of
actions (`ClaimingKeeps`, `WritingKeeps`, `PublishingKeeps`, `TakingKeeps`, `CopyingKeeps`,
`ReleasingKeeps`).

From the same invariant the module proves the refinement, `ImplementsChannel`.  Two facts are
added: `Ordered`, the claims can be listed so that the first starts at `m_dequeue_pos`, each
other where the one before it ends, and the last ends at `m_pre_enqueue_pos`; and `Calling`,
a producer sends what its caller gave it.  Every counter cuts this list (`BoundaryCuts`), and the
messages of a part of it in the order of their positions are those in the order of the list
(`PartInOrder`), so the three stages of the channel are three parts of one list.  A successful
compare-and-swap in `enqueue` appends to the list (`ClaimIsReserve`); what the channel counts as
used is what the outer counters enclose (`UsedIs`), so `RoomKept` gives the room.  Publishing and
claiming in `dequeue` move a cut by one (`PublishIsPut`, `ClaimIsTake`; `HeaderFresh` is why the
second moves by exactly one message), and releasing drops the first of the list
(`ReleaseIsFree`).

`GatherCopyProofs` proves `TypeOK`, `WithinRing`, `StoredInPlace` and `TakenWhole`, for any ring,
number of buffers and lengths, from `CopyAssumption`: the size is a multiple of the
header's, two lengths up to the limit add up to less than the word, and a length with two
headers to no more than it (2^30, 2^32 and a few bytes in the code).  So the sum of
the lengths and `ROUND_UP` of it are exact.  To add up buffers for every input would need
induction over data; the invariant counts instead.  The bytes of the message before
a place in the buffers are a set (`Upto`).  `Summed`: `len` is the size of that set when
the lengths are added up, and `Sized`: of the set of all bytes when they are.  `Gathered`: what
`memcpy_v` has copied (`Copied`) is as many bytes as the set up to where it stands has, they
follow the header in the ring in the order of the buffers (`Holds`), the rest of the ring is
untouched, and what is still wanted fits between `dst` and the end of the ring.
A turn adds a run of bytes of one buffer to this (`PutPlaces`, `HoldsMore`).  That `memcpy_v`
does not run out of buffers before it has what it was asked for follows from the
counts, as all buffers together have `len` bytes (`ReturnKeeps`); that the two pieces fit,
although the code compares masked positions only, is `PiecesFit`.  `TypeOK`, which is
only proved here, says that no counter of the loops falls below zero or wraps.

`DbInitProofs` proves for any servers, hosts, vnodes and hash values `TypeOK`,
`FirstCome`, `InitialisedPoolsAgree` and `OnlyNewTakesKeys`, from `InitAssumption`.
`FirstCome` with `TypeOK` and "a pool that has not started has added nobody" is
inductive; two complete pools then have the same function as their ring.
`MinimalDisruption` is the fact about `putNode` and `getNode` alone, from which the
action property follows.  It uses the well-foundedness of < on the naturals to
show that the next position clockwise exists.

`MemoryPoolProofs` proves, for any number of elements, sizes, addresses and limits that
satisfy `ElementAssumption` and `PoolAssumption` (sizes grow; one expansion of a bucket
other than the last fits below the limit and into the word), `BlocksApart`,
`ImplementsAllocator` and `LimitCrossedByLargest`.  The invariant says what keeps the lists
right without counting them: the free elements form a list that neither branches nor
leads back to its first, and the predecessor of a used element is used and leads to it
(`ElementsOk`, kept by `GetElemKeeps` and `PutElemKeeps`); each used element has memory of
its own (`Backed`); what callers hold is used (`HeldIsUsed`); and the lists of the buckets
stay among the elements nobody holds, in their bucket, no two elements leading to the
same one and none to a first (`ListsApart`) - which is why the block that `Take` gives, or that
`Recycle` frees, is nobody's.  `AtWork` ties the call to its bucket: when it takes a block
there is one.  The refinement maps `Alloc` to `Ask`, `Take` to `Grant` (`FitIsSmallest`: the
first bucket that is large enough has the smallest size that is), a failure to
`Refuse`, and everything between to nothing.  For the limit, `Accounted` says that
`m_allocated_size` is the memory in use cut to the word, and that a bucket being
expanded has room for what is left to be added; `CutSum` is the arithmetic.

The second half of the module adds what has to be counted, `TypeOK` and `NothingLost`,
under the same assumptions and with three more parts of the invariant.  `BucketsCounted`: the list of each bucket goes
through its blocks in nobody's hands, in some order and to an end (`Chain`), and the counters of
the bucket are cardinalities.  `ElementsListed`: so do the two lists of the element set, with
`lastFree` and `prev` as that order has them, which is what lets `put_elem` take an
element out of the middle (`PutElemListed`).  `MemoryCounted`: the memory in use is that of
the used elements, and its size is the number of pairs of a block and a unit of it
(`Units`).  With `TurnsCounted` no counter falls below zero.  `NothingLost` itself is stated with
recursive functions, the walk along a list and the sum of the sizes.  `ChainIsList` and
`SumIsUnits` find their values: a function known otherwise satisfies the recursive
equation, so the one that is chosen satisfies it too, and the least argument where the two
would differ contradicts the equation (`LeastElement`).  That takes no induction
theorem with an operator for a parameter.

`AsynPoolProofs` proves `TypeOK`, `OwnConnection` and `JoinedIsOver` for any callers, `AsynCtx` objects,
addresses and failures that satisfy `AsynAssumption` (the values that stand for "none"
are not among the others; the bounds are numbers).  `OwnConnection` is not inductive: a
connection may be dropped while an `AsynCtx` has it, and would be freed under it.
`Owned` adds why it is not: the event thread is then in the callback that closes this
`AsynCtx`, because all callbacks of a connection are its `AsynCtx`'s own and the first of
them that runs without a reply takes the connection from it.  `LockKept` says that `m_lock`
is held from `Lock` to `Unlock`, so that `closeSafe` waits, and `ctx` is still set when the
call submits `select`.  There is one lemma per
action (`SubmittingKeeps`, `ConnectKeeps`, `DropKeeps`, ...); `CloseTyped` and `CloseLeaves` are what
`AsynCtx::close` does to the others' connections, wherever it is called.
`JoinedIsOver` follows from `Stopping`: a callback runs only inside
`event_base_dispatch`, on a connection that nobody can free meanwhile (`CloseSpares`),
so that the thread is past it when it sets `thr` to 0; and from `start` on `thr` is 0
only after that or after `pthread_join`.

`RedisCtxProofs` proves, for any threads, `MAX_COMMIT_CNT`, keys, calls and broken
connections, `TypeOK`, `ReplyIsOwn`, `NoneOutstanding`, `ExecutedInOrder` and
`CommittedIsExecuted`, from `CtxAssumption` (the batch size is positive, the bounds are numbers,
"free" is no thread).  The invariant has two halves.  `Locking` is about the threads:
who is past `Lock` has the `m_lock` of the `RedisCtx` it works on (`LockKept`), a
connection whose lock is free is `Quiet`, nothing is ever batched on the connection for
reading (`NoBatchRead`, which the routes of `DbPool` give and without which a query
would read a batch's reply), and at each step the holder knows what is outstanding:
`AtStep`, where a thread in `receive` has its own command either unanswered or answered and
nothing else on the connection, and one in `drain` has exactly `left` commands in both
together.  `HolderKeeps` then reduces a step to what its thread relies on next.
`Numbered` is about the commands: per connection, what was given is in increasing order, what
is pending is the end of it and what was executed the beginning (`Stream`); connections were
given different commands; and what was left behind on connections given up is apart from all of
that and from what was executed (`LateApart`), so that a late execution repeats nothing.
`ExecutedInOrder` says so position by position in `done`, not by a filtered sequence,
which the prover could only reason about by induction.

`CacheProofs` proves, for any number of caches and lengths and with `CacheAssumption`
besides (a length the code can be given is one the pool can be asked for, and the address
that stands for none is not an address), that the caches use the pool as it may be
used (`CachesUsePool`), from which everything above holds for them (`PoolServesCaches`),
and `CacheIsByteSequence`.  The invariant adds to that of the pool where bytes are:
a cache with a block has it from the pool, and what it holds lies inside it (`Stored`); no
two caches are in one block (`BlocksOwn`), so that by `BlocksApart` of the pool no
step of one writes where another's bytes are (`OthersStay`); and in the middle of an append
(`AtAppend`) the pool works for the length that was asked, the block it gives is in no cache
and long enough, and the one the cache left is in no cache either when it is released.
The sum of lengths is not cut, as a block is shorter than the word (`BlockFacts`).  What
`memcpy`, `memmove` and reading a window do byte by byte are lemmas about `Copy`, `Only` and
`SubSeq` (`CopyBytes`, `OnlyBytes`, `Window`); `AppendWriteCached` puts two of them together
when what there is moves to the front of its block first.

`RedisClientProofs` says first what one call does with bytes, for any cache, command and
room: `send_data_cache` neither loses nor repeats a byte (`FlushKeepsBytes`), `send_data`
writes a part of the cache, or all of it and then of the command (`SendDataWrites`), and
never more than the kernel takes.  It then proves, for any servers, descriptors, send
buffers, command lengths, commands, broken connections and other threads, `TypeOK`,
`FdOwned`, `StartsInOrder` and `WholeCommands`, from `ClientAssumption` (descriptors are
numbers, buffers and commands not empty; servers and other threads differ, and none of
them is "free" or "none", the marks of a descriptor that nobody has and of a command
without a server).  The invariant has three parts.

`Control` always holds.  It is about types, events and sockets, and about leaks
(`NoneLeaked`: a descriptor that is a server's is the one in its `s->fd`), which no
close of anybody's can break, since a close only frees.
`Owned` and `Content` hold until `robbed` (`RobbedStays`: it does not become false again).
`FdOwned` is not inductive: when `__CLOSE` closes a descriptor for the second time, it must
not be that of another server's socket.  `StaleOk` says that nobody or another thread has
it, which holds because the dispatch thread opens nothing between the two closes; and
`TheyHaveTheirs` that the other threads have what they were given, so that their own
closes take nothing from the client.  That ends with the step that sets `robbed`, and
with it the claim.

`Content` is about bytes, and
rests on what was said of one call (`Outcome`): what is cached are bytes of
commands already taken, never a first one, so that what is sent again never starts a
command (`KeptInOrder`), and a new command, the latest, starts after all others
(`SendKeepsOrder`).  A cache is empty where `torn` stays false and a command is sent, so
that commands that are whole are followed by one that is (`SendKeepsWhole`,
`WholeConcat`), and a flush moves bytes across the boundary between `wire` and `sc`
without changing the two together.  `torn` excuses what the event loop's own reconnect
(line 546) makes of a cache, which it keeps for the new connection: of the two reconnects,
`WholeCommands` holds only that of `process_request_queue` to account.

Every safety property that a passing run checks is stated by a theorem.  Only
model-checked: liveness, which is out of the prover's reach (`EnqueueReturns`,
`DequeueReturns`, `ImplementsFairChannel`, `CallsReturn`, `Answered` and `AppendedIsTaken`).

## 6. Not modelled, and why

* Singletons: `instance()` has no lock, but the documentation has `init`, its first
  caller, run before the threads start.  In `AsynDbPool::instance` `g_instance` is set
  before `g_base`, which is of no consequence under the same rule.
* What two threads do to one `redisAsyncContext` inside hiredis, and to the `std::map`
  from contexts to `AsynCtx` objects: data races in code that is not here, or on data
  that is only logged.
* `m_task_cnt`, `connectCallback`, `disconnectCallback`: only for the log.
* `memory_pool_t::uninit` and `element_set_t::uninit`: called by nothing.
* The arithmetic of `HashNodes::hash`: the properties hold for any function.
* Lengths in `append_cmd` (a fixed 1 MB buffer): bytes of commands are abstract.
* `RedisConf` beyond success and failure; `util.c`, `Log.h`, `redis_protocol.cpp`, the
  sample programs: no state.
* Replies in `redis_client_t`: the code discards them unread.
