------------------------------- MODULE Resume -------------------------------
(***************************************************************************)
(* An EventSource client that follows a stream through the SSE encoder     *)
(* (sse/sse.go) and, whenever its connection ends, asks again from the     *)
(* last id it has seen (server/middleware.go offset, newStorageReader,     *)
(* newReader; broker/io.go Seek and fetch; storage/blob.go Get).           *)
(*                                                                         *)
(* Every event carries the offset behind its bytes as its id.  The encoder *)
(* counts that offset itself, beside the reader's own.  It encodes in the  *)
(* caller's buffer: what does not fit is cut off.                          *)
(*                                                                         *)
(* A Read replays, until a fetch of the replay has found the end of what   *)
(* is stored; then, and also when the replay found nothing, it waits for a *)
(* notice (module Notices).  A fetch sends one transaction and decodes its *)
(* answers (module Wire), while publishers go on.  Which notices Redis     *)
(* sends, and when, is the matter of module Broker; here any of those that *)
(* the subscription lets through may come while a Read waits, or none.     *)
(***************************************************************************)
EXTENDS Notices

CONSTANTS
  Byte, Newline,  \* the bytes of a stream, and the one that splits data lines
  ReadLen,        \* length of the p given to Read (32K in newKeepAliveReader)
  MaxInt,         \* largest int64
  FirstOffset,    \* what Atoi makes of the first Last-Event-ID or Range
  MaxLen,         \* bound: bytes stored
  Key,            \* the stream's key
  Others          \* keys of other streams

ASSUME ResumeAssumption ==
  /\ Newline \in Byte
  /\ ReadLen \in Nat \ {0} /\ MaxInt \in Nat
  /\ MaxLen \in Nat /\ 2 * MaxLen + ReadLen <= MaxInt
  /\ FirstOffset \subseteq (MaxLen - MaxInt)..MaxInt
  /\ Byte \subseteq 0..255
  /\ Key \in Seq(0..255) /\ \A other \in Others : other \in Seq(0..255) /\ other # Key

VARIABLES
  str,     \* the stream's bytes
  done,    \* it has been closed and not written since
  stored,  \* it has expired and is served from the blob store
  resp,    \* the response under way
  notice,  \* what the Read under way has been told, or NotTold
  asked,   \* what Redis has answered to the fetch under way, or NotAsked
  client,  \* the EventSource
  cut      \* history: an event has been cut off

vars == <<str, done, stored, resp, notice, asked, client, cut>>

\* The int64 numbers, without the negative ones that are so far from the
\* stream that its reads (which then begin at its first byte again) would
\* have to return MaxInt bytes to come to it.
Offset == (MaxLen - MaxInt)..MaxInt

\* off: where the reader stands; count: the encoder's own offset; checked: the
\* stream was found done, and its length is being asked for; stage: whether the
\* next thing is a replay, or to wait for a notice, within a Read that has
\* replayed and found nothing, or because the reader has replayed.
Response ==
  [open : BOOLEAN, checked : BOOLEAN, off : Offset, count : Offset,
   stage : {"replay", "within", "live"}]

NoResponse == [open |-> FALSE, checked |-> FALSE, off |-> 0, count |-> 0, stage |-> "replay"]

\* The subscription, and what may come on it.
Pattern == wildcardId(Key)

Channels == {id(k) : k \in {Key} \cup Others} \cup {killId(k) : k \in {Key} \cup Others}

Notice ==
  {Confirmed(Pattern)}
  \cup {OnChannel(Pattern, channel) : channel \in {c \in Channels : GlobMatches(Pattern, c)}}

DataNotice == OnChannel(Pattern, id(Key))

KillNotice == OnChannel(Pattern, killId(Key))

NotTold == [kind |-> "none", pattern |-> << >>, channel |-> << >>]

\* What the transaction finds: the bytes, the length of the stream, the done mark.
Found == [data : Seq(Byte), size : 0..MaxLen, done : BOOLEAN]

NotAsked == [data |-> << >>, size |-> -1, done |-> FALSE]

\* Stands for data that has been garbled.
Junk == -1

\* id: the last event id; got: the data of the events; torn: an event that was
\* cut off has been received and not ended, nextId is its id.
Client ==
  [stopped : BOOLEAN, id : Offset, got : Seq(Byte \cup {Junk}), torn : BOOLEAN, nextId : Offset,
   start : FirstOffset]

ResumeTypeOK ==
  /\ str \in Seq(Byte) /\ Len(str) <= MaxLen
  /\ done \in BOOLEAN /\ stored \in BOOLEAN /\ cut \in BOOLEAN
  /\ resp \in Response
  /\ notice \in Notice \cup {NotTold}
  /\ asked \in Found \cup {NotAsked} /\ Len(asked.data) <= ReadLen
  /\ client \in Client

-----------------------------------------------------------------------------
(* The encoder.                                                            *)

\* Mutant: the id is the offset before the event.
IdBefore(pos, msg) == pos

\* The id of an event.
IdOf(pos, msg) == pos + Len(msg)

\* The length format gives an event, counting a field name or an end of line
\* as one: the id, a line of data for every piece between newlines, and an
\* empty line.
FormatLen(msg) ==
  LET Newlines == Len(SelectSeq(msg, LAMBDA b : b = Newline))
  IN  1 + 2 * (1 + Newlines) + (Len(msg) - Newlines) + 1

\* copy(p, buf) takes the event as a whole.
Fits(msg) == FormatLen(msg) <= ReadLen

\* int64 arithmetic.
Wrap(n) == IF n > MaxInt THEN n - 2 * MaxInt - 2 ELSE n

-----------------------------------------------------------------------------
(* Where the bytes come from.                                              *)

\* Redis GETRANGE: negative positions count from the end, and both of them
\* are taken for the first byte if they are before the beginning.
GetRange(s, first, last) ==
  LET From(i) == IF i < 0 THEN IF i + Len(s) < 0 THEN 0 ELSE i + Len(s) ELSE i
  IN  SubSeq(s, From(first) + 1, IF From(last) < Len(s) THEN From(last) + 1 ELSE Len(s))

\* int64 arithmetic of fetch: the end of what it asks for.
LastAsked == Wrap(resp.off + ReadLen) - 1

\* The words of commands are not looked at.
Name == <<67>>

\* The five commands before the EXEC, as writeCommand sends them.
Transaction ==
  << writeCommand(<<Name>>),
     writeCommand(<<Name, id(Key), Decimal(resp.off), Decimal(LastAsked)>>),
     writeCommand(<<Name, id(Key)>>),
     writeCommand(<<Name, doneId(Key)>>),
     writeCommand(<<Name, id(Key), Decimal(MaxLen)>>) >>

\* Redis executes them: what it finds in the range it was asked for (WireFaithful).
Executed ==
  [data |-> GetRange(str, resp.off, LastAsked), size |-> Len(str), done |-> done]

\* Its answers: to the five commands, and to the EXEC that of each of them.
Queued ==
  FlattenSeq([i \in 1..5 |-> Answer([NoReply EXCEPT !.type = "status", !.bytes = Name])])

Answers(found) ==
  LET int(n)  == [NoReply EXCEPT !.type = "int", !.int = n]
      bulk(p) == [NoReply EXCEPT !.type = "bulk", !.bytes = p]
      items   == <<bulk(found.data), int(found.size), int(IF found.done THEN 1 ELSE 0), int(1)>>
  IN  Queued \o Answer([NoReply EXCEPT !.type = "array", !.items = items])

\* EXECABORT.
Aborted == Answer([NoReply EXCEPT !.type = "error", !.bytes = Name])

\* What fetch makes of the answers: Values of all, Bytes, Int64 and Bool of each.
Decodes(result) ==
  /\ IsValues(result)
  /\ LET list == result.reply.items
     IN  IsBytes(list[1]) /\ IsInt64(list[2]) /\ IsBool(list[3])

Decoded(list) ==
  [data |-> list[1].bytes, size |-> Int64Of(list[2]), done |-> BoolOf(list[3])]

\* conn.Do("EXEC") behind the five.
Exec(wire) == Do(5, wire)

\* What a Read returns: what fetch decoded (WireFaithful); the store's body
\* starts at the offset it was asked for.
Fetched ==
  IF stored THEN SubSeq(str, resp.off + 1,
                        IF resp.off + ReadLen < Len(str) THEN resp.off + ReadLen ELSE Len(str))
            ELSE asked.data

\* Mutant: a client that has everything is not told so.
NothingLeftStrict(off) == off > Len(str)

\* Nothing is stored from the offset on.
NothingLeft(off) == off > Len(str) - 1

\* Mutant: the length is asked for before the done mark.
LengthFirst(question, off) == IF question = 1 THEN NothingLeft(off) ELSE done

\* broker.NoContent: what Redis says to its two requests.
NoContent(question, off) == IF question = 1 THEN done ELSE NothingLeft(off)

\* Mutant: a second Seek adds to the first.
SeekTwice(off) == off + off

\* newStorageReader seeks if the offset is positive, the encoder always does:
\* the reader keeps even an offset that it rejects.
Sought(off) == off

\* encoder.Seek: where the reader says it stands, which is 0 for an offset it
\* rejects; or the offset itself, as the body of a blob cannot seek.
EncoderSought(off) == IF ~stored /\ off < 0 THEN 0 ELSE Sought(off)

-----------------------------------------------------------------------------
(* The client.                                                             *)

(***************************************************************************)
(* An event that was cut off lacks its empty line: the client takes the    *)
(* next one, its id included, for the rest of the data, and ends up with   *)
(* the id of the first.  The data of the two is garbled.                   *)
(***************************************************************************)
Dispatched(msg, last) ==
  CASE Fits(msg) /\ ~client.torn ->
         [client EXCEPT !.got = @ \o msg, !.id = last]
    [] Fits(msg) /\ client.torn ->
         [client EXCEPT !.got = Append(@, Junk), !.id = client.nextId, !.torn = FALSE]
    [] ~Fits(msg) /\ ~client.torn ->
         [client EXCEPT !.torn = TRUE, !.nextId = last]
    [] OTHER -> client

\* What has not been dispatched is dropped with the connection.
Idle == [client EXCEPT !.torn = FALSE]

\* 204 and 416 end it.
Stop ==
  /\ client' = [client EXCEPT !.stopped = TRUE]
  /\ resp' = NoResponse

Open ==
  /\ resp' = [open |-> TRUE, checked |-> FALSE,
              off |-> IF stored /\ client.id < 0 THEN 0 ELSE Sought(client.id),
              count |-> EncoderSought(client.id), stage |-> "replay"]
  /\ UNCHANGED client

\* It asks for what follows its last id.
Connect ==
  /\ ~resp.open /\ ~resp.checked
  /\ ~client.stopped
  /\ \/ stored /\ client.id >= Len(str) /\ Stop
     \/ stored /\ client.id < Len(str) /\ Open
     \/ /\ ~stored /\ NoContent(1, client.id)
        /\ resp' = [NoResponse EXCEPT !.checked = TRUE]
        /\ UNCHANGED client
     \/ ~stored /\ ~NoContent(1, client.id) /\ Open
  /\ UNCHANGED <<str, done, stored, notice, asked, cut>>

\* NoContent's second request.
CheckLength ==
  /\ resp.checked
  /\ IF NoContent(2, client.id) THEN Stop ELSE Open
  /\ UNCHANGED <<str, done, stored, notice, asked, cut>>

\* The connection breaks, before or within an event; or that to Redis does.
Drop ==
  /\ resp.open \/ resp.checked
  /\ resp' = NoResponse
  /\ notice' = NotTold
  /\ asked' = NotAsked
  /\ client' = Idle
  /\ UNCHANGED <<str, done, stored, cut>>

\* PubSubConn.Receive returns, within a Read.
Hear(n) ==
  /\ resp.open /\ ~stored /\ asked = NotAsked /\ notice = NotTold
  /\ resp.stage # "replay"
  /\ notice' = n
  /\ UNCHANGED <<str, done, stored, resp, asked, client, cut>>

\* What the Read does about it: PubSubConn takes it for what it is (WireFaithful).
Reacts == IF notice = NotTold THEN "nothing" ELSE Reaction(Key, Meaning(notice))

\* fetch sends its transaction, and Redis executes it: on a replay, or on a
\* notice.
Ask ==
  /\ resp.open /\ ~stored /\ asked = NotAsked
  /\ IF notice = NotTold THEN resp.stage = "replay" ELSE Reacts \in {"fetch", "end"}
  /\ asked' = Executed
  /\ UNCHANGED <<str, done, stored, resp, notice, client, cut>>

\* Bytes can be read.
Answered == resp.open /\ (stored \/ asked # NotAsked)

\* There may be more behind what a fetch found.
Buffered == Wrap(resp.off + ReadLen) < asked.size

\* Nothing was, and the stream was done, or the stream has been killed.
EOF == ~stored /\ (Reacts = "end" \/ (~Buffered /\ asked.done))

\* replay and Read: what is next when a fetch has found data or a notice was
\* none to fetch for.  Only a replay sets r.replayed.
NextStage(data) ==
  CASE notice # NotTold -> IF resp.stage = "within" THEN "replay" ELSE resp.stage
    [] notice = NotTold /\ ~Buffered -> "live"
    [] OTHER -> IF data = << >> THEN "within" ELSE "replay"

\* encoder.Read, and the event reaches the client; the response may end with
\* it.  (Comments, the keep-alives, change nothing there.)
Event ==
  /\ Answered
  /\ Fetched # << >>
  /\ client' = LET seen == Dispatched(Fetched, IdOf(resp.count, Fetched))
               IN  IF EOF THEN [seen EXCEPT !.torn = FALSE] ELSE seen
  /\ cut' = (cut \/ ~Fits(Fetched))
  /\ resp' = IF EOF THEN NoResponse
              ELSE [resp EXCEPT !.off = @ + Len(Fetched), !.count = @ + Len(Fetched),
                                !.stage = NextStage(Fetched)]
  /\ notice' = NotTold
  /\ asked' = NotAsked
  /\ UNCHANGED <<str, done, stored>>

\* A replay has found nothing, and the Read goes on to wait; or it has waited,
\* returns neither bytes nor an error, and is called again.
Nothing ==
  /\ IF asked = NotAsked THEN notice # NotTold /\ Reacts = "nothing"
                         ELSE asked.data = << >> /\ ~EOF
  /\ resp' = [resp EXCEPT !.stage = NextStage(<< >>)]
  /\ notice' = NotTold
  /\ asked' = NotAsked
  /\ UNCHANGED <<str, done, stored, client, cut>>

\* EOF without bytes, or the body of the blob has ended.
End ==
  /\ Answered
  /\ Fetched = << >>
  /\ stored \/ EOF
  /\ resp' = NoResponse
  /\ notice' = NotTold
  /\ asked' = NotAsked
  /\ client' = Idle
  /\ UNCHANGED <<str, done, stored, cut>>

-----------------------------------------------------------------------------
(* The publisher and the archive.                                          *)

Publish(b) ==
  /\ ~stored
  /\ Len(str) < MaxLen
  /\ str' = Append(str, b)
  /\ done' = FALSE
  /\ UNCHANGED <<stored, resp, notice, asked, client, cut>>

CloseStream ==
  /\ ~stored
  /\ done' = TRUE
  /\ UNCHANGED <<str, stored, resp, notice, asked, client, cut>>

\* The stream has been archived (Archive!ArchivedAtRest) and expires, while no
\* request of this client's is under way.
Expire ==
  /\ done /\ ~stored /\ ~resp.open /\ ~resp.checked
  /\ stored' = TRUE
  /\ UNCHANGED <<str, done, resp, notice, asked, client, cut>>

-----------------------------------------------------------------------------
ResumeInit ==
  /\ str = << >>
  /\ done = FALSE
  /\ stored = FALSE
  /\ resp = NoResponse
  /\ notice = NotTold
  /\ asked = NotAsked
  /\ client \in {[stopped |-> FALSE, id |-> off, got |-> << >>,
                  torn |-> FALSE, nextId |-> off, start |-> off] : off \in FirstOffset}
  /\ cut = FALSE

ResumeNext ==
  \/ Connect
  \/ CheckLength
  \/ Drop
  \/ \E n \in Notice : Hear(n)
  \/ Ask
  \/ Nothing
  \/ Event
  \/ End
  \/ \E b \in Byte : Publish(b)
  \/ CloseStream
  \/ Expire

ResumeSpec == ResumeInit /\ [][ResumeNext]_vars

\* The client asks again, the handler goes on, and not every connection breaks
\* before it comes to its next step.  No notice is owed.
ResumeFairSpec ==
  /\ ResumeSpec
  /\ WF_vars(Connect) /\ SF_vars(CheckLength)
  /\ SF_vars(Ask) /\ SF_vars(Nothing) /\ SF_vars(Event) /\ SF_vars(End)

-----------------------------------------------------------------------------
(* Properties.                                                             *)

(***************************************************************************)
(* The data of the events is exactly what the stream holds between the     *)
(* first offset and the last id, over any number of broken connections and *)
(* wherever they broke, as long as no event was cut off (sse.go's FIXME)   *)
(* and the first offset was not negative.                                  *)
(***************************************************************************)
ResumesExactly ==
  (~cut /\ client.start >= 0) => client.got = SubSeq(str, client.start + 1, client.id)

(***************************************************************************)
(* The wire changes nothing: Redis is asked for the range fetch means,     *)
(* negative or wrapped around as it may be; a fetch takes what Redis       *)
(* answered for what it is, whatever bytes the stream holds, line ends     *)
(* among them; a notice is taken for what it is, and only the kill of this *)
(* stream, not one that the pattern lets through, ends a reader; and if    *)
(* the connection breaks within any of this, wherever that is, or Redis    *)
(* aborts the transaction, nothing is taken from it.                       *)
(***************************************************************************)
WireFaithful ==
  /\ resp.open =>
       LET range == Command(Transaction[2])
       IN  parseInt(range[3]) = resp.off /\ parseInt(range[4]) = LastAsked
  /\ asked # NotAsked =>
       LET wire == Answers(asked)
       IN  /\ Decodes(Exec(wire)) /\ Decoded(Exec(wire).reply.items) = asked
           /\ \A n \in 0..(Len(wire) - 1) : ~Decodes(Exec(SubSeq(wire, 1, n)))
           /\ ~Decodes(Exec(Queued \o Aborted))
  /\ (notice # NotTold /\ asked = NotAsked) =>
       LET wire == Pushed(notice)
       IN  /\ PubSubReceive(wire) = Meaning(notice)
           /\ Reacts = "fetch" <=> notice = DataNotice
           /\ Reacts = "end" <=> notice = KillNotice
           /\ \A n \in 0..(Len(wire) - 1) : PubSubReceive(SubSeq(wire, 1, n)) = Failure

(***************************************************************************)
(* The client is told to stop, by 204 or 416, only when the data of its    *)
(* events is all that is stored from its first offset on: over any number  *)
(* of broken connections, and also if something was written, or the stream *)
(* closed again, between the two requests of NoContent.                    *)
(***************************************************************************)
StopsComplete ==
  [][(client'.stopped /\ ~client.stopped /\ ~cut /\ client.start >= 0)
       => client.got = SubSeq(str, client.start + 1, Len(str))]_vars

\* Reads from here on come to the end of the stream.
Reaches(off) == off >= 0 \/ (str # << >> /\ Len(str) < ReadLen)

\* The Read under way waits for a notice, or may have to: it has caught up, has
\* asked before the stream was done, or its range wraps around.
WaitsForNotice ==
  /\ resp.open /\ ~stored
  /\ \/ resp.stage # "replay"
     \/ asked # NotAsked /\ ~EOF
     \/ resp.off + ReadLen > MaxInt

(***************************************************************************)
(* A client of a closed stream comes to its end, whatever it asked for at  *)
(* first, the largest int and negative offsets included, and however often *)
(* its connection breaks, unless its reader waits for a notice: the replay *)
(* alone gets it there.  (A waiting reader is owed the kill of the close:  *)
(* Subscriber's KillEndsResponse, and CloseEndsEveryReader, which is not   *)
(* always kept.  A negative first offset is a place where, for NoContent,  *)
(* something is always stored: of an empty stream its client is answered   *)
(* 200 and EOF every time, or waits for the kill that has gone by; and so  *)
(* it may if the stream fills the buffer of a Read.)                       *)
(***************************************************************************)
ClientStops ==
  ( /\ done /\ ~WaitsForNotice
    /\ Reaches(client.id) /\ (resp.open => Reaches(resp.off)) )
  ~> (client.stopped \/ ~done \/ cut)
=============================================================================
