----------------------------- MODULE SocketSend -----------------------------
(***************************************************************************)
(* send_data, send_data_cache and cache_t (redis-pool/src/socket_set.cpp,  *)
(* cache.cpp): what one call hands to the kernel and what it leaves in the *)
(* send cache of the socket.  Bytes are members of any set; room is how    *)
(* many of them the kernel takes now, so that write() returns the smaller  *)
(* of room and the length, and fails with EAGAIN when room is 0.  EINTR is *)
(* retried at once and is not seen.                                        *)
(***************************************************************************)
EXTENDS Naturals, Sequences

Smaller(m, n) == IF m < n THEN m ELSE n

\* cache_t::skip(n), and the bytes it skips.
Skip(bytes, n) == SubSeq(bytes, n + 1, Len(bytes))
Front(bytes, n) == SubSeq(bytes, 1, n)

\* cache_t::append: the pool may have no memory left for it.
AppendOrNot(cache, rest) == {cache, cache \o rest}

\* Mutant: remain_data is not advanced past what was written.
SendDataFromStart(cache, cmd, room) ==
  LET n == Smaller(Len(cache), room)
      m == Smaller(Len(cmd), room - n)
  IN  IF n < Len(cache)
      THEN {[out |-> Front(cache, n), cache |-> Skip(cache, n)]}
      ELSE {[out |-> cache \o Front(cmd, m), cache |-> c] :
              c \in IF m \in {0, Len(cmd)} THEN {cache} ELSE AppendOrNot(cache, cmd)}

\* send_data when no write fails.  The cache goes first; if some of it stays
\* behind the command is given up.  Once the cache is written the command
\* follows and what the kernel doesn't take of it is appended to the cache,
\* unless the kernel takes nothing of it: then it is given up.  The written
\* cache is not skipped.
SendData(cache, cmd, room) ==
  LET n == Smaller(Len(cache), room)
      m == Smaller(Len(cmd), room - n)
  IN  IF n < Len(cache)
      THEN {[out |-> Front(cache, n), cache |-> Skip(cache, n)]}
      ELSE {[out |-> cache \o Front(cmd, m), cache |-> c] :
              c \in IF m = 0 THEN {cache} ELSE AppendOrNot(cache, Skip(cmd, m))}

\* send_data on a broken connection: the write of the cache fails and the
\* cache is skipped, or the write of the command fails after it.
SendErrors(cache, room) ==
  {[out |-> << >>, cache |-> << >>]}
    \cup (IF Len(cache) <= room THEN {[out |-> cache, cache |-> cache]} ELSE {})

\* Mutant: the cache is not skipped.
FlushNoSkip(cache, room) ==
  [out |-> Front(cache, Smaller(Len(cache), room)), cache |-> cache]

\* send_data_cache when the write does not fail; what was written is skipped.
Flush(cache, room) ==
  LET n == Smaller(Len(cache), room)
  IN  [out |-> Front(cache, n), cache |-> Skip(cache, n)]

=============================================================================
