------------------------------- MODULE Broker -------------------------------
(***************************************************************************)
(* The Redis broker of busl (broker/io.go, broker/redis.go): one stream,   *)
(* the writers that append to it and the readers that follow it.           *)
(*                                                                         *)
(* A stream lives in two Redis keys.  "<key>:id" holds the bytes written   *)
(* so far and exists exactly while the stream is registered; "<key>:done"  *)
(* exists once a writer has closed the stream.  Both keys expire.  Redis   *)
(* executes every MULTI ... EXEC block as one step.  A reader first        *)
(* replays what is stored, then sleeps in Receive until a message on       *)
(* "<key>:id" (data was appended) or "<key>:kill" (the stream was closed)  *)
(* wakes it; messages carry no data, a woken reader fetches from the       *)
(* store again.                                                            *)
(*                                                                         *)
(* Streams with different keys share nothing but the message pattern       *)
(* "<key>:*", so one stream is modelled and foreign traffic that matches   *)
(* its pattern is the action OtherPublish.                                 *)
(***************************************************************************)
EXTENDS Integers, Sequences

CONSTANTS
  Writer,        \* publishers: each is one POST request
  Reader,        \* subscribers: each is one GET request
  Byte,          \* the bytes a publisher may send
  StartOffset,   \* offsets a subscriber may ask for (Last-Event-ID, Range)
  MaxChunk,      \* longest p given to writer.Write (the 4096 bytes of bufio.Reader)
  ReadLen,       \* length of the p given to reader.Read (32K in newKeepAliveReader)
  ChannelExpire, \* redisChannelExpire, in clock ticks
  MaxLen,        \* bound: bytes stored at one time
  MaxQueue,      \* bound: messages waiting on one subscription
  MaxEpoch       \* bound: times the stored bytes are discarded

ASSUME BrokerAssumption ==
  /\ StartOffset \subseteq Nat
  /\ MaxChunk \in Nat
  /\ ReadLen \in Nat \ {0}
  /\ MaxChunk <= ReadLen
  /\ ChannelExpire \in Nat \ {0}
  /\ MaxLen \in Nat
  /\ MaxQueue \in Nat
  /\ MaxEpoch \in Nat

VARIABLES
  str,      \* the string at "<key>:id", empty when the key is absent
  idTTL,    \* ticks "<key>:id" has left to live, 0 when absent
  doneTTL,  \* ticks "<key>:done" has left to live, 0 when absent
  writer,   \* writer[w]: where w's request stands
  rd,       \* rd[r]: the reader struct of r and its subscription
  epoch,    \* history: how many times stored bytes have been discarded
  ended     \* history: the last operation on the stream was a writer's Close

vars == <<str, idTTL, doneTTL, writer, rd, epoch, ended>>

(***************************************************************************)
(* A message waiting on a subscription.  "other" stands for everything     *)
(* Read answers with (0, nil): the confirmation of the PSUBSCRIBE, and     *)
(* messages of other keys that match the pattern.  len is history: how     *)
(* many bytes were stored when the message was published.                  *)
(***************************************************************************)
Message == [ch : {"id", "kill", "other"}, len : Nat]

WriterState == {"idle", "refused", "open", "failed", "closed"}

ReaderState ==
  [status   : {"new", "refused", "reading", "eof", "error", "closed"},
   conn     : {"none", "sent", "subscribed", "lost", "closed"},
   offset   : Nat,
   replayed : BOOLEAN,
   queue    : Seq(Message),
   \* history: where the reader started, what it handed to its caller, the
   \* epoch it started in, whether the PSUBSCRIBE had been executed when it
   \* last replayed, and how many bytes were stored when the stream was
   \* closed under it
   start    : Nat,
   out      : Seq(Byte),
   epoch    : Nat,
   covered  : BOOLEAN,
   owed     : Nat]

TypeOK ==
  /\ str \in Seq(Byte)
  /\ idTTL \in 0..ChannelExpire
  /\ doneTTL \in 0..ChannelExpire
  /\ writer \in [Writer -> WriterState]
  /\ rd \in [Reader -> ReaderState]
  /\ epoch \in Nat
  /\ ended \in BOOLEAN

-----------------------------------------------------------------------------
(* Redis, as far as the broker uses it.                                    *)

IsRegistered == idTTL > 0

Done == doneTTL > 0

\* Mutant: the key outlives its time by one tick.
RenewedTooLong(ttl) == IF ttl > 0 THEN ChannelExpire + 1 ELSE 0

\* EXPIRE of "<key>:id": of no effect when the key is absent.
Renewed(ttl) == IF ttl > 0 THEN ChannelExpire ELSE 0

\* PUBLISH reaches the connections subscribed at that moment, no others.
Published(ch, len) ==
  [r \in Reader |->
     IF rd[r].conn = "subscribed"
       THEN [rd[r] EXCEPT !.queue = Append(@, [ch |-> ch, len |-> len])]
       ELSE rd[r]]

RoomToPublish == \A r \in Reader : Len(rd[r].queue) < MaxQueue

\* The bytes are discarded: readers of the old bytes now belong to a past epoch.
EpochAfterDiscard == IF str = << >> THEN epoch ELSE epoch + 1

-----------------------------------------------------------------------------
(* RedisRegistrar.Register: SETEX of an empty string, on every PUT and     *)
(* POST /streams, whether or not the stream exists already.                *)
Register ==
  /\ EpochAfterDiscard <= MaxEpoch
  /\ str' = << >>
  /\ idTTL' = ChannelExpire
  /\ epoch' = EpochAfterDiscard
  /\ ended' = FALSE
  /\ UNCHANGED <<doneTTL, writer, rd>>

\* answered is FALSE when Redis cannot be asked, which IsRegistered reports
\* like an absent key.
NewWriter(w, answered) ==
  /\ writer[w] = "idle"
  /\ writer' = [writer EXCEPT ![w] =
                  IF answered /\ IsRegistered THEN "open" ELSE "refused"]
  /\ UNCHANGED <<str, idTTL, doneTTL, rd, epoch, ended>>

\* A chunk is what one Write carries; bufio.Reader.WriteTo starts with an empty one.
Chunk == UNION {[1..n -> Byte] : n \in 0..MaxChunk}

(***************************************************************************)
(* writer.Write: APPEND, EXPIRE, DEL done and PUBLISH in one transaction.  *)
(* The reply may be lost after Redis has executed it; io.Copy then stops   *)
(* and the request goes on to its deferred Close.                          *)
(***************************************************************************)
Write(w, p, replied) ==
  /\ writer[w] = "open"
  /\ Len(str) + Len(p) <= MaxLen
  /\ RoomToPublish
  /\ str' = str \o p
  /\ idTTL' = ChannelExpire
  /\ doneTTL' = 0
  /\ rd' = Published("id", Len(str) + Len(p))
  /\ ended' = FALSE
  /\ writer' = [writer EXCEPT ![w] = IF replied THEN "open" ELSE "failed"]
  /\ UNCHANGED epoch

\* The transaction never reached Redis, or the publisher's body ended in an error.
WriteFails(w) ==
  /\ writer[w] = "open"
  /\ writer' = [writer EXCEPT ![w] = "failed"]
  /\ UNCHANGED <<str, idTTL, doneTTL, rd, epoch, ended>>

\* writer.Close: SETEX done and PUBLISH kill in one transaction.
CloseWriter(w) ==
  /\ writer[w] \in {"open", "failed"}
  /\ RoomToPublish
  /\ doneTTL' = ChannelExpire
  /\ rd' = Published("kill", Len(str))
  /\ ended' = TRUE
  /\ writer' = [writer EXCEPT ![w] = "closed"]
  /\ UNCHANGED <<str, idTTL, epoch>>

\* Close's transaction fails (pub ignores its error) or the process dies first.
CloseLost(w) ==
  /\ writer[w] \in {"open", "failed"}
  /\ writer' = [writer EXCEPT ![w] = "closed"]
  /\ UNCHANGED <<str, idTTL, doneTTL, rd, epoch, ended>>

-----------------------------------------------------------------------------
(* NewReader sends the PSUBSCRIBE and does not wait for it; Seek moves to  *)
(* the offset asked for.  The server executes the PSUBSCRIBE later, on a   *)
(* connection of its own: the fetches of the same reader may overtake it.  *)

NewReader(r, off, answered) ==
  /\ rd[r].status = "new"
  /\ rd' = [rd EXCEPT ![r] =
              IF answered /\ IsRegistered
                THEN [@ EXCEPT !.status = "reading", !.conn = "sent", !.offset = off,
                               !.start = off, !.epoch = epoch]
                ELSE [@ EXCEPT !.status = "refused"]]
  /\ UNCHANGED <<str, idTTL, doneTTL, writer, epoch, ended>>

PSubscribed(r) ==
  /\ rd[r].conn = "sent"
  /\ rd' = [rd EXCEPT ![r].conn = "subscribed",
                      ![r].queue = <<[ch |-> "other", len |-> Len(str)]>>]
  /\ UNCHANGED <<str, idTTL, doneTTL, writer, epoch, ended>>

OtherPublish ==
  /\ RoomToPublish
  /\ rd' = Published("other", Len(str))
  /\ UNCHANGED <<str, idTTL, doneTTL, writer, epoch, ended>>

\* The subscription's connection breaks; what has not arrived yet is gone.
ConnLost(r, n) ==
  /\ rd[r].conn \in {"sent", "subscribed"}
  /\ rd[r].status = "reading"
  /\ rd' = [rd EXCEPT ![r].conn = "lost", ![r].queue = SubSeq(@, 1, n)]
  /\ UNCHANGED <<str, idTTL, doneTTL, writer, epoch, ended>>

-----------------------------------------------------------------------------
(* reader.fetch: one transaction of GETRANGE, STRLEN, EXISTS and EXPIRE.   *)

\* GETRANGE start (start + ReadLen - 1), for start >= 0.
GetRange(s, off) ==
  SubSeq(s, off + 1, IF off + ReadLen <= Len(s) THEN off + ReadLen ELSE Len(s))

\* Mutant: one byte left over is overlooked.
BufferedOffByOne(off, size) == off + ReadLen + 1 < size

\* More is stored than this fetch could return.
Buffered(off, size) == off + ReadLen < size

\* Mutant: to have caught up is taken for the end.
EOFWhenCaughtUp(r) == ~Buffered(rd[r].offset, Len(str))

FetchEOF(r) == Done /\ ~Buffered(rd[r].offset, Len(str))

\* Mutant: the size of the string is taken for the end of the bytes returned.
AdvancedToSize(r) ==
  [rd[r] EXCEPT !.offset = Len(str), !.out = @ \o GetRange(str, rd[r].offset)]

\* The reader after a fetch's bytes have been copied to the caller.
Advanced(r) ==
  [rd[r] EXCEPT !.offset = @ + Len(GetRange(str, rd[r].offset)),
                !.out = @ \o GetRange(str, rd[r].offset)]

\* Mutant: the first fetch ends the replay, however much is left.
CaughtUpAtOnce(r) == TRUE

\* The replay is over: the fetch returned the last byte stored.
CaughtUp(r) == ~Buffered(rd[r].offset, Len(str))

(***************************************************************************)
(* reader.Read while the reader has not caught up (replay).  On EOF the    *)
(* subscription stays open until the request closes the reader.            *)
(***************************************************************************)
Replay(r) ==
  /\ rd[r].status = "reading"
  /\ ~rd[r].replayed
  /\ rd' = [rd EXCEPT ![r] =
              [Advanced(r) EXCEPT
                 !.replayed = CaughtUp(r),
                 !.covered = (rd[r].conn # "sent"),
                 !.status = IF FetchEOF(r) THEN "eof" ELSE @,
                 !.owed = IF FetchEOF(r) THEN Len(str) ELSE @]]
  /\ idTTL' = Renewed(idTTL)
  /\ UNCHANGED <<str, doneTTL, writer, epoch, ended>>

\* reader.Close: unsubscribe and give the connection back.
ClosedConn(rec) == [rec EXCEPT !.conn = "closed", !.queue = << >>]

\* The messages on which read fetches.
Wakes(msg) == msg.ch \in {"id", "kill"}

\* Mutant: a kill ends the read only if "<key>:done" is still there.
EndsIfDone(r, msg) == FetchEOF(r)

\* The messages after which read closes the reader and reports EOF.
Ends(r, msg) == msg.ch = "kill" \/ FetchEOF(r)

(***************************************************************************)
(* reader.Read once it has caught up: it takes the next message and, on    *)
(* "id" or "kill", fetches.  On "kill", or when the fetch finds the stream *)
(* done, it closes itself and reports EOF.                                 *)
(***************************************************************************)
Receive(r) ==
  LET msg  == Head(rd[r].queue)
      next == [Advanced(r) EXCEPT !.queue = Tail(@)]
  IN  /\ rd[r].status = "reading"
      /\ rd[r].replayed
      /\ rd[r].queue # << >>
      /\ Wakes(msg)
      /\ rd' = [rd EXCEPT ![r] =
                  IF Ends(r, msg)
                    THEN [ClosedConn(next) EXCEPT
                            !.status = "eof",
                            !.owed = IF msg.ch = "kill" THEN msg.len ELSE Len(str)]
                    ELSE next]
      /\ idTTL' = Renewed(idTTL)
      /\ UNCHANGED <<str, doneTTL, writer, epoch, ended>>

ReceiveOther(r) ==
  /\ rd[r].status = "reading"
  /\ rd[r].replayed
  /\ rd[r].queue # << >>
  /\ ~Wakes(Head(rd[r].queue))
  /\ rd' = [rd EXCEPT ![r].queue = Tail(@)]
  /\ UNCHANGED <<str, idTTL, doneTTL, writer, epoch, ended>>

\* Receive on a broken connection: Read returns the error and the caller stops.
ReceiveError(r) ==
  /\ rd[r].status = "reading"
  /\ rd[r].replayed
  /\ rd[r].conn = "lost"
  /\ rd[r].queue = << >>
  /\ rd' = [rd EXCEPT ![r].status = "error"]
  /\ UNCHANGED <<str, idTTL, doneTTL, writer, epoch, ended>>

\* The request of r is over (EOF, an error, or the client went away).
CloseReader(r) ==
  /\ rd[r].status \in {"reading", "eof", "error"}
  /\ rd[r].conn # "closed"
  /\ rd' = [rd EXCEPT ![r] =
              [ClosedConn(rd[r]) EXCEPT
                 !.status = IF rd[r].status = "reading" THEN "closed" ELSE rd[r].status]]
  /\ UNCHANGED <<str, idTTL, doneTTL, writer, epoch, ended>>

\* The fetch of a Read that was under way when its reader was closed.  Nobody
\* takes what it returns.
LateFetch(r) ==
  /\ rd[r].status = "closed"
  /\ idTTL' = Renewed(idTTL)
  /\ UNCHANGED <<str, doneTTL, writer, rd, epoch, ended>>

\* RenewExpiry: every heartbeat of a subscriber that is waiting for data.
RenewExpiry(r) ==
  /\ rd[r].status \in {"reading", "eof", "error"}
  /\ idTTL' = Renewed(idTTL)
  /\ UNCHANGED <<str, doneTTL, writer, rd, epoch, ended>>

(***************************************************************************)
(* A transaction of fetch fails: fetch indexes the reply before it looks   *)
(* at the error, the panic is in a goroutine of its own and takes the      *)
(* process down, and with it every request it was serving.  No deferred    *)
(* Close reaches Redis.                                                    *)
(***************************************************************************)
FetchPanics ==
  /\ \E r \in Reader : rd[r].status \in {"reading", "closed"}
  /\ writer' = [w \in Writer |->
                  IF writer[w] \in {"open", "failed"} THEN "closed" ELSE writer[w]]
  /\ rd' = [r \in Reader |->
              CASE rd[r].status = "reading" -> [ClosedConn(rd[r]) EXCEPT !.status = "closed"]
                [] rd[r].status \in {"eof", "error"} -> ClosedConn(rd[r])
                [] OTHER -> rd[r]]
  /\ UNCHANGED <<str, idTTL, doneTTL, epoch, ended>>

-----------------------------------------------------------------------------
(* Time passes for both keys; a key whose time is up disappears.           *)
Tick ==
  /\ idTTL > 0 \/ doneTTL > 0
  /\ idTTL' = IF idTTL > 0 THEN idTTL - 1 ELSE 0
  /\ doneTTL' = IF doneTTL > 0 THEN doneTTL - 1 ELSE 0
  /\ IF idTTL = 1
       THEN /\ EpochAfterDiscard <= MaxEpoch
            /\ str' = << >>
            /\ epoch' = EpochAfterDiscard
       ELSE UNCHANGED <<str, epoch>>
  /\ UNCHANGED <<writer, rd, ended>>

-----------------------------------------------------------------------------
NewReaderState ==
  [status |-> "new", conn |-> "none", offset |-> 0, replayed |-> FALSE,
   queue |-> << >>, start |-> 0, out |-> << >>, epoch |-> 0,
   covered |-> FALSE, owed |-> 0]

Init ==
  /\ str = << >>
  /\ idTTL = 0
  /\ doneTTL = 0
  /\ writer = [w \in Writer |-> "idle"]
  /\ rd = [r \in Reader |-> NewReaderState]
  /\ epoch = 0
  /\ ended = FALSE

WriterStep(w) ==
  \/ \E answered \in BOOLEAN : NewWriter(w, answered)
  \/ \E p \in Chunk, replied \in BOOLEAN : Write(w, p, replied)
  \/ WriteFails(w)
  \/ CloseWriter(w)
  \/ CloseLost(w)

\* The steps of reader.Read, which its caller repeats until an error.
ReadStep(r) == Replay(r) \/ Receive(r) \/ ReceiveOther(r) \/ ReceiveError(r)

ReaderStep(r) ==
  \/ \E off \in StartOffset, answered \in BOOLEAN : NewReader(r, off, answered)
  \/ PSubscribed(r)
  \/ \E n \in 0..Len(rd[r].queue) : ConnLost(r, n)
  \/ ReadStep(r)
  \/ CloseReader(r)
  \/ LateFetch(r)
  \/ RenewExpiry(r)

Next ==
  \/ Register
  \/ OtherPublish
  \/ FetchPanics
  \/ Tick
  \/ \E w \in Writer : WriterStep(w)
  \/ \E r \in Reader : ReaderStep(r)

Spec == Init /\ [][Next]_vars

(***************************************************************************)
(* Fairness.  The goroutine of newKeepAliveReader calls Read again and     *)
(* again until it returns an error, Redis answers what it was sent, and    *)
(* time passes.  Nothing obliges a publisher to write or to close.         *)
(***************************************************************************)
FairSpec ==
  /\ Spec
  /\ \A r \in Reader : WF_vars(ReadStep(r)) /\ WF_vars(PSubscribed(r))
  /\ WF_vars(Tick)

-----------------------------------------------------------------------------
(* Properties.                                                             *)

\* The bytes r started on are still the ones stored.
Current(r) == rd[r].epoch = epoch

(***************************************************************************)
(* No gap, no duplicate, no reordering: what reader.Read has handed over   *)
(* is exactly the stored bytes from the offset asked for up to r.offset,   *)
(* however the replay, the wake-ups and the writers interleaved.           *)
(***************************************************************************)
DeliveredInOrder ==
  \A r \in Reader : Current(r) =>
    rd[r].out = SubSeq(str, rd[r].start + 1, rd[r].offset)

(***************************************************************************)
(* EOF is never early: a reader whose last replay saw its PSUBSCRIBE in    *)
(* force has, when Read reports io.EOF, handed over every byte that was    *)
(* stored when the stream was closed.  A kill wakes it for one fetch only, *)
(* so this rests on the fetches for the messages before the kill.          *)
(***************************************************************************)
EOFComplete ==
  \A r \in Reader :
    (rd[r].status = "eof" /\ rd[r].covered /\ Current(r)) => rd[r].owed <= rd[r].offset

(***************************************************************************)
(* No lost wake-up: a reader asleep in Receive that is behind the stored   *)
(* bytes has a message waiting on which it will fetch.  This is said of    *)
(* readers whose subscription is in force and was so when they last        *)
(* replayed; a PSUBSCRIBE executed later is CloseEndsEveryReader's matter. *)
(***************************************************************************)
NoLostWakeup ==
  \A r \in Reader :
    ( /\ rd[r].status = "reading"
      /\ rd[r].replayed
      /\ rd[r].covered
      /\ rd[r].conn = "subscribed"
      /\ Current(r)
      /\ rd[r].offset < Len(str) )
    => \E i \in 1..Len(rd[r].queue) : rd[r].queue[i].ch = "id"

-----------------------------------------------------------------------------
(* The inductive invariant behind the safety properties.                   *)

\* How far the stored bytes may have grown by the time m was published.
Growth(m) == IF m.ch = "id" THEN MaxChunk ELSE 0

\* A subscription does not exist before the reader does, and no replay is
\* covered by a PSUBSCRIBE that Redis has not executed.
ConnInv(r) ==
  /\ rd[r].epoch <= epoch
  /\ rd[r].status = "new" => rd[r].conn = "none"
  /\ rd[r].conn \in {"none", "sent"} => rd[r].queue = << >> /\ ~rd[r].covered
  /\ rd[r].conn = "none" => rd[r].status \in {"new", "refused"} /\ rd[r].out = << >>

\* What r has handed over, and that a reader never runs ahead of the bytes
\* except by having asked for a start beyond them.
OutputInv(r) ==
  /\ rd[r].start <= rd[r].offset
  /\ rd[r].offset = rd[r].start \/ rd[r].offset <= Len(str)
  /\ rd[r].out = SubSeq(str, rd[r].start + 1, rd[r].offset)

\* The lengths recorded in a queue are at most size; they grow by at most one
\* chunk per "id" message and not at all along a run of other messages.
Spaced(q, size) ==
  /\ \A i \in 1..Len(q) : q[i].len <= size
  /\ \A i \in 1..(Len(q) - 1) : q[i + 1].len <= q[i].len + Growth(q[i + 1])
  /\ \A i, k \in 1..Len(q) :
       (i <= k /\ \A j \in (i + 1)..k : q[j].ch # "id") => q[k].len <= q[i].len

\* The last message of a live subscription is as recent as the stored bytes.
QueueInv(r) ==
  /\ Spaced(rd[r].queue, Len(str))
  /\ (rd[r].conn = "subscribed" /\ rd[r].queue # << >>)
       => rd[r].queue[Len(rd[r].queue)].len = Len(str)

\* A reader that has caught up is at most one chunk behind the message it
\* will take next, and behind nothing when no message is waiting.
CaughtUpInv(r) ==
  LET q == rd[r].queue
  IN  (rd[r].replayed /\ rd[r].covered) =>
        /\ q # << >> => q[1].len <= rd[r].offset + Growth(q[1])
        /\ (rd[r].conn = "subscribed" /\ q = << >>) => Len(str) <= rd[r].offset

\* EOFComplete for one reader.
EOFInv(r) == (rd[r].status = "eof" /\ rd[r].covered) => rd[r].owed <= rd[r].offset

\* One reader's share of the invariant.
ReaderInv(r) ==
  /\ ConnInv(r)
  /\ Current(r) => OutputInv(r) /\ QueueInv(r) /\ CaughtUpInv(r) /\ EOFInv(r)

(***************************************************************************)
(* The invariant that every step preserves: what a reader of the current   *)
(* bytes has delivered, and how the messages waiting for it relate to its  *)
(* offset and to the bytes stored.                                         *)
(***************************************************************************)
BrokerInv == \A r \in Reader : ReaderInv(r)

-----------------------------------------------------------------------------
(* The refinement: Redis's keys and messages implement a log with cursors. *)

\* A kill is on its way to r, which is still reading.
KillUnderWay(r) ==
  rd[r].status = "reading" /\ \E i \in 1..Len(rd[r].queue) : rd[r].queue[i].ch = "kill"

CursorStatus(status) ==
  CASE status = "new" -> "idle"
    [] status = "refused" -> "refused"
    [] status = "reading" -> "open"
    [] status = "eof" -> "ended"
    [] OTHER -> "left"

Log == INSTANCE Stream WITH
  bytes  <- str,
  exists <- IsRegistered,
  closed <- Done,
  told   <- {r \in Reader : KillUnderWay(r)},
  cursor <- [r \in Reader |-> [status |-> CursorStatus(rd[r].status),
                               from |-> rd[r].start, out |-> rd[r].out]]

(***************************************************************************)
(* Every step of writers, readers, Redis and the clock is a step of the    *)
(* log or leaves it alone: the bytes are appended to or discarded as a     *)
(* whole, a reader hands over the next bytes of the log, and it reports    *)
(* the end only when it was told of a close or found the mark, in the      *)
(* latter case with everything that is left.                               *)
(***************************************************************************)
ImplementsStream == Log!StreamSpec

-----------------------------------------------------------------------------
(* What the repository's comments and tests say and the code does not do.  *)

(***************************************************************************)
(* As long as a stream can be read it is marked done exactly if it has     *)
(* been closed since it was created or last written to (server/errors.go:  *)
(* "an SSE stream that's already done should return a `204 No Content`").  *)
(* Register leaves the "<key>:done" of an earlier stream of that key in    *)
(* place; and reads renew "<key>:id" but not "<key>:done", so that a       *)
(* closed stream loses its mark while its bytes stay.                      *)
(***************************************************************************)
DoneTellsClosed == IsRegistered => (Done <=> ended)

(***************************************************************************)
(* A reader that has caught up and is waiting when the stream is closed    *)
(* reaches the end (broker/io_test.go, ExampleSubscribeConcurrent: the     *)
(* copy from the reader returns after the writer's Close).  A PSUBSCRIBE   *)
(* that takes effect after the kill leaves the reader waiting for ever.    *)
(***************************************************************************)
CloseEndsEveryReader ==
  \A r \in Reader :
    (rd[r].status = "reading" /\ rd[r].replayed /\ Done)
      ~> (rd[r].status # "reading" \/ ~ended)
=============================================================================
