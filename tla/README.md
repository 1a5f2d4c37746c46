# busl in TLA+

busl publishes and follows byte streams over HTTP. A publisher POSTs a chunked
body to `/streams/<key>`; subscribers GET the same path and receive what has
been sent so far and then what is still being sent. The bytes live in Redis, a
copy goes to a blob store. `busltee` runs a command and posts its output.

This directory holds TLA+ modules for the parts of busl in which several
processes meet, TLC configurations that check them on small instances, and
proofs for TLAPS. Paths below are relative to the repository's root.

## 1. Inventory

### Broker: `broker/redis.go`, `broker/io.go`

*State.* In Redis, for every stream: the string `<key>:id` with the bytes, which
exists exactly while the stream is registered, and the mark `<key>:done` once a
writer has closed it. Both live for `redisChannelExpire` (300 s) unless renewed.
In a process, for every subscriber: the `reader` struct (`offset`, `replayed`,
`buffered`, `closed`) and a connection subscribed to `<key>:*`.

*Operations.* `Register` (SETEX of the empty string), `IsRegistered`,
`NewWriter`, `Write` (APPEND, EXPIRE, DEL done, PUBLISH in one MULTI),
`writer.Close` (SETEX done, PUBLISH kill in one MULTI), `NewReader` (sends the
PSUBSCRIBE), `Seek`, `Read` (`replay` until caught up, afterwards `Receive` and a
`fetch` per message), `reader.Close`, `RenewExpiry`, `NoContent`, `Get`.

*Interaction.* Writers and readers share only Redis. Messages carry no data;
a reader that is woken fetches from its offset. PUBLISH reaches the connections
subscribed at that moment.

*Hard.* The PSUBSCRIBE is not confirmed before the first fetch, which uses
another connection; messages queue while the replay runs; a kill grants one last
fetch of 32K; two keys expire independently; connections break; a failing
transaction panics.

*Correct means.* Bytes are delivered in order, without gap or duplicate; no
wake-up is lost; EOF comes only after everything; a kill ends every reader it
reaches; every byte reaches every reader.

### Publisher and archive: `server/server.go` `pub`, `put`; `server/middleware.go` `storeOutput`; `storage/blob.go` `Put`

*State.* Per POST: the writer, the channel `done`, a storer goroutine, upload
goroutines with their buffer and remaining attempts; the object in the store.

*Operations.* `put` registers, `pub` copies the body to the writer, closes `done`
when the body ended well, and closes the writer in every case. The storer starts
an upload every `StorageInterval` and one after `done`; an upload reads the whole
stream from Redis once and PUTs it in at most three attempts.

*Hard.* Uploads are not ordered; attempts share one buffer; the key can expire
under a paused publisher; the last upload outlives its request and is not waited
for at shutdown; on the error paths the storer is never told to stop.

*Correct means.* In the end the store holds the whole stream; an upload never
takes away bytes; storers and uploads end.

### Subscriber: `server/server.go` `sub`; `server/middleware.go` `newReader`; `server/keepalivereader.go`; `storage/blob.go` `Get`

*State.* The reader, a channel of 100 payloads between the goroutine that reads
and the handler, the flag `eof`, the client's close notification.

*Operations.* Open a broker reader or fall back to the store; answer 204 if the
stream is done and nothing is left; copy payloads to the client; on a timeout send
a heartbeat and renew the key; stop when the client leaves.

*Hard.* The 204 check is two requests; readers are not closed after a 204 nor
behind the SSE encoder; the reading goroutine can be stuck in a full channel.

*Correct means.* 204 only if there was nothing to deliver; every subscription
ends with its request; the handler passes on the reader's bytes in order.

### Server process: `main.go`, `server/server.go` `Start`, `app`; vendored mux, authenticater, manners, rollbar

*State.* The listener with its flag and lock, manners' WaitGroup, the channel from
`AwaitSignals`, keep-alives on or off; per connection the request on it; rollbar's queue of
reports and the goroutine that posts them. Routes and credentials are fixed at start.

*Operations.* Accept, route (clean path, https, route order, basic authentication), redirect,
answer, report an error, close; a SIGURG that ends in `listener.Close` and a wait for zero.

*Hard.* Closing a listener looks like a failing one; a signal may come before the server is
there; connections without a request and kept-alive ones hold up the exit; `push` looks at a
channel and then sends; three redirects and an authentication interact.

*Correct means.* An exit cuts nothing off and takes place; every request is answered; only
credentials create streams; redirects settle.

### Redis connections: vendored redigo

*State.* A pool of idle connections with a count of the active ones; per connection the
commands whose answers are outstanding and the bytes on their way; per borrowed connection the
flags `state` that say what has to be undone before it goes back.

*Operations.* Get (reuse after a PING, or dial), Send, Flush, Do, Receive, Close (DISCARD,
UNSUBSCRIBE and sentinel, put), the protocol's encoder and parser, PubSubConn, Scan.

*Hard.* Answers are matched with commands by their order alone; a reader is closed while another
goroutine receives; a connection breaks at any byte; the subscription's pattern lets other
streams' messages through.

*Correct means.* Every command gets its own answer or an error; connections are neither lost nor
shared; what is parsed is what was sent, or nothing.

### SSE encoder and its clients: `sse/sse.go`, `server/middleware.go` `offset`, `newStorageReader`

*State.* The reader's offset and the encoder's own; on the client the last id.

*Hard.* Two seeks; ids count stored bytes while events are longer, and an event that does not fit
is cut off; negative and overflowing offsets; a stream that moves from Redis to the store between
two connections.

*Correct means.* Resuming at the last id loses and repeats nothing, and ends.

### busltee: `cmd/busltee/main.go`, `busltee/runner.go`, vendored pflag

*State.* The flag set; the child, a pipe that holds nothing, the upload with its retries, transport
goroutines of earlier attempts that are still reading, a channel of one signal.

*Hard.* Retries read on from the pipe; a failed upload must not block the child; an answer may
come before the body has ended; options may stand anywhere before "--".

*Correct means.* The line is obeyed; the child runs on; each attempt but the last loses one chunk at
most, none is uploaded twice; busltee ends with the child's status.

`PROJECT.json` lists the places where this code can go wrong in ways a test would
hardly reach ("hazards"), each with the properties that would show it.

## 2. Plan

| # | module | models | state |
|---|--------|--------|-------|
| 1 | `Broker`, `MCBroker` | one stream in Redis, its writers and readers | checked |
| 2 | `Stream` | what a stream promises: a log with cursors; `Broker` implements it | checked |
| 3 | `BrokerProofs` | type correctness and safety of `Broker` | proved |
| 4 | `Archive`, `MCArchive` (extends `Broker`) | POST, PUT, storers, request variables, uploads, store | checked |
| 5 | `Subscriber`, `MCSubscriber` (extends `Broker`) | `newReader`, `NoContent`, `keepAliveReader`, the SSE path, `storage.Get` | checked |
| 6 | `SubscriberProofs` (extends `BrokerProofs`) | types and safety of `Subscriber` | proved |
| 7 | `Wire`, `Notices` (extends `Wire`) | Redis protocol; subscriptions, PubSubConn, Scan | checked |
| 8 | `Resume`, `MCResume` (extends `Notices`) | SSE encoder, `fetch` over the wire, an EventSource that reconnects | checked |
| 9 | `Pool` | redigo's pool, a reader closed against a blocked `Receive` | checked |
| 10 | `Router`, `Server`, `MCServer` | routing and authentication; the process, its connections, reports and exit | checked |
| 11 | `Flags`, `Busltee`, `MCBusltee` | pflag and busltee's line; runner, pipe, upload | checked |
| 12 | `StreamProofs` (extends `BrokerProofs`) | that `Broker` implements `Stream` | proved |
| 13 | `ArchiveProofs` (extends `BrokerProofs`) | types, the whole stream at rest, uploads that extend | proved |
| 14 | `ServerProofs`, `BuslteeProofs`, `PoolProofs`, `ResumeProofs` | types and safety of their components | proved |

`Broker` (Redis and its readers) implements `Stream` (the promise), which is checked and proved. `Subscriber` and
`Archive` are built from `Broker`'s actions: what they do to its variables are steps of `Broker` by
construction, so that its invariants carry over to requests and publishers.

Every safety property that a passing run checks is also proved. Left: the liveness properties (section 6 says
why), and the parts named in section 7.

## 3. The modules

### `Broker`

One stream. Keys share nothing but the pattern `<key>:*`, so other streams appear
only as `OtherPublish`, a message that matches the pattern.

| state | code |
|-------|------|
| `str`, `idTTL` | the string at `<key>:id` and its time to live, 0 when absent |
| `doneTTL` | the time to live of `<key>:done`, 0 when absent |
| `writer[w]` | a POST: not begun, refused with 404, open, failed (its deferred Close is due), closed |
| `rd[r].status` | a GET: not begun, refused, reading, ended by EOF, by an error, or by its client |
| `rd[r].conn` | the subscription: PSUBSCRIBE sent, executed, connection lost, closed |
| `rd[r].offset`, `.replayed`, `.queue` | the reader's fields, and the messages not received yet |
| `start`, `out`, `epoch`, `covered`, `owed`, `ended`, `len` of a message | history |

Every MULTI ... EXEC is one action, as Redis executes it. `Write` is APPEND, EXPIRE,
DEL and PUBLISH together; with `replied = FALSE` Redis has executed it and the reply
is lost. `Replay` is one `Read` of a reader that has not caught up, `Receive` one
`Read` that got an "id" or "kill" message, its fetch included; between taking the
message off the connection and the fetch nothing of the reader's changes, and what
writers do in between is the same as if they had done it before the message was
taken. `NewReader` and `PSubscribed` are two steps because the code does not wait
for the second. `buffered` is not a variable: each `fetch` sets it before it is read.
`FetchPanics` is the crash that a failing transaction in `fetch` causes.

`epoch` counts how often stored bytes have been thrown away, by expiry or by
`Register`. A reader that started on earlier bytes holds an offset into something
that is gone; the safety properties speak of readers of the current bytes
(`Current`). `covered` says that Redis had executed the PSUBSCRIBE when the reader
last replayed; for the others see the finding on `CloseEndsEveryReader`.

### `Archive`

Extends `Broker`: the handler's actions (`PutStream`, `OpenPub`, `CopyChunk`,
`EndBody`, `FailBody`, `ClosePub`) take `Broker`'s `Register`, `NewWriter`, `Write`,
`WriteFails`, `CloseWriter` and `CloseLost` and add the channel `done`, the storer, the
request's variables and the uploads. `keyed[w]` says that the router's variables of `w`'s
request are there; `ClearVars` is the router's deferred `context.Clear`, and `Start` evaluates
`key(r)` and `requestURI(r)`, each of which may come before or after it. `GetOutput` copies the stream into the upload's buffer, once for all
attempts. `Put5xx(w, k, n)` is an attempt the store answers 5xx after reading `n`
bytes: they are gone from the buffer. `PutFails` is any other error, with or without
the object having been written. `Exit` is the process going away with its storers
and uploads. `mishap` is history: which of overlapping uploads, uploads without a key, failures of Redis or
the store, expiry, a PUT on a stream that has a publisher already, and an exit have
occurred; the properties name what they exclude.

### `Subscriber`

Extends `Broker` by one variable, `req[r]`: the handler of the GET request `r` and the
goroutine it started.

| state | code |
|-------|------|
| `phase` | not arrived; `newReader` asking for the done mark, for the length, or the store for a blob; `io.Copy` running; returned |
| `answer` | the status of the response |
| `sse` | the request accepts `text/event-stream`, the reader is behind the encoder |
| `left` | the attempts `storage.Get` has left |
| `go`, `held` | the goroutine of `newKeepAliveReader` is about to read, is inside `reader.Read` past its look at `closed`, holds a payload to be sent, or has ended |
| `ch` | the channel, of capacity `ChanCap` (100 in the code) |
| `gone` | the client has closed its connection |
| `sent`, `end`, `seen` | history |

`OpenSub` is `newStorageReader` with both calls of `Seek`; `AskDone` and `AskLength` are
the two requests of `NoContent`, each of which may fail; `GetBlob` is one attempt of
`storage.Get`. `GoEnter` is the look of `reader.Read` at `closed`; `GoRead` is the rest of a `Read`
of the broker's reader, so it contains `Broker`'s
`ReadStep`; a `Read` whose replay found nothing goes on to `Receive` and returns only
then. `GoReadClosed` is a `Read` that finds the reader closed: EOF. `GoReadLate` is a `Read` that was under way
when the handler closed the reader, most often blocked in `Receive` while the pool reads the answers to its clean-up
from the same connection: it may get a confirmation (which returns neither bytes nor an error), a message and
then a fetch (`Broker`'s `LateFetch`), an error, or nothing at all, and then it goes on waiting. Each of its payloads
takes a place of the channel before the EOF's. `Take`, `Heartbeat` and
`NoticeGone` are the three cases of the `select`, and a write to the client that fails
is `NoticeGone` with a payload lost.

Two paths of the code close nothing, and so do the actions: after a 204 `newReader`
returns nil for the reader (`AskLength`), and behind the encoder a `NopCloser` stands
between `Close` and the reader (`CloseSource`). `RenewExpiry` recognises the reader by its
type and does nothing behind the encoder (`Heartbeat`). The bytes of a blob, and what the
encoder makes of the bytes of a stream, are left to `Resume`; the properties about bytes speak
here of plain requests to the broker.

### `Stream`

The promise of `broker/broker.go`, without Redis: `bytes`, whether the log `exists`, whether it is
marked `closed`, the readers `told` of a close, and a `cursor` for every reader. `Broker`'s `Log` is
`INSTANCE Stream WITH` the stored string, the registration, the done mark, the kills on their way and
the readers' start and output; the property `ImplementsStream` is `Log!StreamSpec`.

### `Wire`, `Notices`, `Resume`

`Wire` is the protocol byte by byte: `writeCommand`, `readReply`, `Do` with its pipeline, and the
conversions `Values`, `Bytes`, `Int64`, `Bool`. `Notices` adds the channel names made of a key, what Redis pushes
on a subscription, `Scan` and `PubSubConn.Receive`, and what `reader.Read` does about each
notice. `Resume` is the EventSource, the encoder and the reader: `Connect` is a request up to the answer of
Redis that the stream is not done, or that it is, in which case `CheckLength` is the second request of `NoContent`;
between the two publishers go on. `Hear` is a `Receive`, `Ask` a `fetch`
whose answers Redis has given, `Event` the `Read` that hands them over as an event, `Nothing` the end of a
replay or of a `Read` that has found neither bytes nor EOF, `End` a `Read` that returns EOF. A `fetch` takes place on a
replay or on a notice and never otherwise: `resp.stage` says whether the next `Read` replays, or waits for a notice
because the replay of the same `Read` found nothing (`"within"`) or because the reader has replayed
(`"live"`, the field `replayed`). `resp.off` and `resp.count` are the offset of
the reader and that of the encoder. Negative positions of GETRANGE count from the end, and both are set to
the first byte if they are before the beginning. After `Expire` the stream is served from the store. The length
of an event is counted with one unit for a field name and for a line end: what matters is which
events fit the buffer. Integers are those of an int64 whose largest value is `MaxInt`.

### `Pool`

`conn[c]` is a redigo connection: its status, `pending`, the answers on their way in order, and what
Redis holds subscribed. A user borrows (`pc`), sends, waits, and gives back; a follower has two goroutines
(`task`), one in `Receive`, the other in `reader.Close`, which sets `closed`, sends an UNSUBSCRIBE, then the pool's UNSUBSCRIBE, PUNSUBSCRIBE and ECHO, and
reads up to the sentinel. `raced` is history: two goroutines have read from one connection at a
time, which redigo's documentation forbids (`redis/doc.go:102-104`) and `reader.Close` does; after that
any answer may go to either (`Collide`). `raced` is one flag for all connections: once it is set, `OwnAnswers` and
`CommandsEnd` claim nothing any more, of no connection. `Accounted` and the types hold all the same.

### `Router`, `Server`

`Router` holds pure definitions: paths as sequences of tokens, `cleanPath`, templates and their matching,
the route table of `app` in its order, `enforceHTTPS`, `auth`; `Answer(req)` is what a request gets, the
handler it reaches or a redirect with the request that follows it. `Server` is the process: `main` from its start to its exit,
the way of the signal in five steps, the listener's flag, lock and socket, `wg`, the connections with
the requests on them (`conn[c].at`), rollbar's queue. A handler is one state here; what
happens inside is the matter of `Subscriber`, `Broker` and `Archive`. `created` and `published` are
history for `OnlyTrustedCreate`.

### `Flags`, `Busltee`

`Flags` has the flag set with its definitions, and one action per kind of argument of `parseArgs`;
a token stands for an argument. What a line says is read a second time without the loop (`Written`,
`WrittenRetry`) and compared. `Busltee` goes on from there: `cmd` the child, `pipe` the chunks offered
by the two copiers of `os/exec`, `upload` the goroutine of `post`, `stale` the transport goroutines of attempts
that are over, which may each take one more chunk, `got` the chunks written to a connection by all the attempts
so far, `early` history: the upload succeeded before the output had ended.

## 4. The runs

| run | shows | instance |
|-----|-------|----------|
| `broker_safety` | `TypeOK`, `DeliveredInOrder`, `EOFComplete`, `NoLostWakeup`, and `ImplementsStream`, the refinement | 2 writers, 1 reader, 2 bytes, starts 0 and 1, chunks to 2, reads of 2, 3 bytes stored, 3 messages waiting, bytes discarded once |
| `subscriber_safety` | `SubTypeOK`, `ClientInOrder`, `ResponseComplete`, `ClosedWithRequest`, `NoContentJustified` | 2 writers, 1 request, 2 bytes, 2 stored, 1 message waiting, a channel of one, 2 attempts |
| `subscriber_liveness` | `DataReachesClient`, `KillEndsResponse`, `GoroutineEnds` | 2 writers, 1 request, 1 byte stored, 2 messages waiting, a channel of two, 1 attempt, no bytes discarded, `SubFairSpec` |
| `archive_safety` | `ArchiveTypeOK`, `ArchivedAtRest`, `UploadsExtend` | 2 publishers, 1 byte, 2 bytes stored, 1 attempt, bytes discarded once |
| `archive_liveness` | `StorerStops`, `UploadEnds` | 1 publisher, 3 attempts, `ArchiveFairSpec` |
| `resume` | `ResumeTypeOK`, `ResumesExactly`, `WireFaithful`, `StopsComplete`, `ClientStops` | 3 bytes, line ends among them, a buffer of 6 units, int64 up to 12, first offsets -9, -1, 0, 1, 12, two other keys, `ResumeFairSpec` |
| `pool` | `PoolTypeOK`, `OwnAnswers`, `Accounted`, `CommandsEnd` | 4 connections, a publisher and a follower, 2 idle, 1 message waiting, `PoolFairSpec` |
| `busltee` | `BuslteeTypeOK`, `UploadComplete`, `NoDuplicates`, `LineObeyed`, `CommandProceeds`, `EndsWithCommand` | lines of up to 4 of 14 arguments, 2 retries, 4 chunks, 2 signals, `BuslteeFairSpec` |
| `server` | `ServerTypeOK`, `GracefulExit`, `OnlyTrustedCreate`, `RedirectsSettle`, `RequestsAnswered`, `ShutdownCompletes` | 2 connections, 21 requests, 3 credentials of 2 users, a queue of one report, up to 3 redirects, `ServerFairSpec` |
| `broker_close` | violation of `CloseEndsEveryReader` | under `FairSpec` |
| `broker_mark` | violation of `DoneTellsClosed` | |
| `archive_body` | violation of `BodyArchived` | overlap, dropped variables and retries tolerated |

*Bounds of the stream.* `MaxLen`, `MaxQueue` and `MaxEpoch` appear in guards. With reads of two
bytes and three bytes stored a replay needs two fetches, a kill can find a reader a
whole read behind, and a fetch can return less than is stored; with three messages a
queue can hold data, a foreign message and a kill in any order. Readers never touch
each other's state and only renew the key's life, so one reader meets everything
that many do; two writers are needed because one writer's `Write` deletes the other's
done mark. A key lives one tick: expiry may then come at any moment, which is more
than the code allows. Writers and bytes are interchangeable and are permuted in the
safety runs; the liveness runs use no symmetry. In `Archive` one byte value is enough
for the passing run, where every upload is compared with the same stream by length,
and one attempt, since a failed one is a mishap those properties except; retries are in
`archive_liveness` and `archive_body`. At most one periodic
upload per publisher is in flight. In `Subscriber` a channel of one place is full after the first
payload, so that the goroutine holds another while the handler takes, leaves or crashes; requests
do not touch each other, so one is enough. A queue of more than one message is `broker_safety`'s
and `subscriber_liveness`'s. A goroutine whose reader is closed under it may want two places of the channel (`Wanted`),
so that `subscriber_liveness` has two: with none, one or both of them taken the property meets each of its cases.

*Bounds of the rest.* In `Resume` an event of two bytes fits the buffer, one of three or with a line
end may not, so that three bytes reach an event cut off and one behind it; the offsets -1 and 12 reach the negative range and the
wrapped-around one; -9 is the smallest of the offsets that `ResumeAssumption` admits, and wherever a read from it is still
before the stream it is read from the first byte again; a buffer of six holds the whole stream; the key `s:n` has channels that `s:*` matches, `n` has not. In `Pool` the follower's and the publisher's
connection meet in an idle list of two; four connections are more than are ever in use. A line of four
arguments has a url, a command, an option and a "--" in any order; four chunks fill both copiers twice, two retries leave
two stale goroutines. In `Server` two connections compete for one place in the queue, and one keeps
a graceful exit waiting while the other asks; the requests are one for every answer the router can give.

*Deadlock* is not checked: requests end, keys expire, processes exit and the bounds are used up, and
then nothing is left to do.

*Fairness.* `FairSpec`: the goroutine of `newKeepAliveReader` calls `Read` until it
returns an error (`server/keepalivereader.go:30`), so `ReadStep` is weakly fair; Redis
executes what it was sent, and time passes. `SubFairSpec`: the
goroutine is weakly fair when it reads and when the channel has room (`GoOn`), the handler when a
payload waits or the client has gone, each a case of a `select` in a loop. Nothing is assumed of a `Read` whose
reader was closed under it (`GoReadLate`): the pool may have read the answers it waits for. Clients need
not leave, and timers need not fire. Writers have no fairness: nobody has
to send or to close. `ArchiveFairSpec`: `select` takes a case that stays ready
(`StartFinal`), and a request to the store or to Redis is answered or fails; the code
sets no time limit on requests to the store, and one that is never answered is outside the
liveness runs. `ResumeFairSpec`: an EventSource reconnects (`Connect` is weakly fair), a handler goes on; `CheckLength`, `Ask`,
`Nothing`, `Event` and `End` are strongly fair, since a connection that breaks disables them and not
every connection breaks first. No notice is owed: `Hear` has no fairness, as a close publishes one kill and
`CloseEndsEveryReader` shows that it may reach nobody. `PoolFairSpec`: a goroutine with an answer to read goes on; Redis and
publishers owe nothing. `BuslteeFairSpec`: the goroutines of busltee run and its timer fires; nothing is asked of
the child, which need not end, nor of the server. `CommandProceeds` alone has it as its premise that an attempt ends or goes on
(`WF_vars(Uploading)`), so that the server reads, answers or fails: the code sets no time limit
but one for dialling (`busltee/runner.go:101-123`). `ServerFairSpec`: goroutines run, bodies and responses end by their clients or by
`ReadTimeout` and `WriteTimeout`, and Rollbar answers (its client has no timeout).

## 5. What the violations show

1. `CloseEndsEveryReader` (`broker/io.go:68`): the kill is published before Redis
   executes the PSUBSCRIBE of a reader that has caught up; nothing will wake it.
2. `DoneTellsClosed` (`broker/redis.go:98`, `broker/io.go:174`): a stream registered again within the
   life of its old done mark is born done; and reads keep the bytes of a closed stream alive and let the done
   mark die, so that a late subscriber waits on a closed stream.
3. `BodyArchived` (`server/server.go:87`): the storer asks for the stream's key after the router has
   dropped the request's variables and stores nothing of the stream; or a slow periodic upload lands after the
   last; or a retry (`storage/blob.go:37`) sends what the failed attempt left of their common buffer.

Properties that except something the code does, with nothing in the repository that promises otherwise:

- `ArchivedAtRest`, `UploadsExtend` except an expiry under a paused publisher, and an exit: manners' `StartRoutine`
  (`manners/server.go:66-68`) is meant for goroutines like the last upload and is not called for them. Reports in rollbar's queue are
  lost with an exit too.
- `ResumesExactly` excepts events that were cut off (the FIXME at `sse/sse.go:36`; the id runs ahead of the data) and
  negative first offsets (the reader counts from the end, the encoder from 0). `ClientStops` shows that the replay alone brings a client of a closed
  stream to its end. It excepts a client while its reader waits for a notice (`WaitsForNotice`), which is `KillEndsResponse`'s and
  `CloseEndsEveryReader`'s matter, and negative offsets into a stream that is empty or fills the buffer of a read:
  `NoContent` (`broker/io.go:218`) always finds something stored behind them, so that of an empty stream the client is answered 200 and EOF
  each time it asks, or waits for a kill that has gone by.
- `OwnAnswers` and `CommandsEnd` except everything that comes after two goroutines have first read from one connection at a time.
- `CommandProceeds` excepts uploads that succeed before the output ends: an early answer, and `--retry=-1`, which makes
  no attempt and no error (`busltee/runner.go:70`). A server that answers before the body has ended, as busl does with its 404, is a
  success for `post`, which drains the pipe only on an error (`busltee/runner.go:56-62`): the transport reads one chunk more at most,
  then nobody reads, and the command blocks in its next write. The comment at `busltee/runner.go:91-95` speaks of connections that do not work. It assumes a server that reads, answers or fails in the end.
- `EndsWithCommand` begins when the output has been read or the upload given up. Before that `cmd.Wait` waits for the
  copiers and they for the server, and a server that accepts and stops reading holds up the command and busltee for ever, since
  Run's time limit (`busltee/runner.go:39-43`) comes after `cmd.Wait`.
- `GoroutineEnds` excepts a goroutine that does not find the places it wants in the channel when its client has gone, and one that
  stays in `Receive` because the pool has read the answers it was waiting for.
- `LineObeyed` reads a line without "--" as pflag does: options of the command are taken for busltee's.

Seen while modelling, and sequential: a key with glob characters goes unescaped into the subscription's pattern, which may then
not match the stream's own channels (`broker/redis.go:73`); `--connect-timeout` below 1 is truncated to 0
(`busltee/runner.go:114`), no timeout, although the option takes fractions; only the first signal is passed on to the child
(`busltee/runner.go:147`); rollbar's token is read before the flags are parsed (`util/config.go:24`).

## 6. What is proved

`BrokerProofs` proves for every value of the constants that satisfies
`BrokerAssumption`:

- `TypeCorrect`: `Spec => []TypeOK`
- `InvCorrect`: `Spec => []BrokerInv`, the inductive invariant
- `DeliveryCorrect`, `EOFCorrect`, `WakeupCorrect`: `DeliveredInOrder`, `EOFComplete` and
  `NoLostWakeup`, each from `BrokerInv`.

The one assumption with content is `MaxChunk <= ReadLen`: `io.Copy` writes what
`bufio.NewReader` holds, 4096 bytes, and `newKeepAliveReader` reads 32K. It is needed:
a kill leaves a reader one fetch per message, and a chunk longer than a read would
stay undelivered.

*The argument.* The three properties are not inductive. That EOF is complete depends
on how far the reader may lag behind the message it takes next, and that on the whole
queue. Every message carries, as history, the length of the stream when it was
published. `QueueInv` says that these lengths grow by at most one chunk per "id" message
and not at all along other messages, and that the last one of a live subscription
equals what is stored. `CaughtUpInv` says that a reader that has caught up is behind
the next message by at most the chunk this message announces, and behind nothing when
no message waits. A `Receive` fetches at least one chunk, so after it the reader is
level with the message it took, and the next is at most one chunk further on. A kill
announces no growth, so its reader is level with everything stored when it was
published, which is `EOFInv`. `OutputInv` ties what has been delivered to the stored
bytes and the offset, and `ConnInv` says what cannot exist before the PSUBSCRIBE.
`ReaderInv` is the conjunction for one reader; there is a lemma for each kind of step,
and the proof goes action by action.

`SubscriberProofs` adds, under `SubscriberAssumption` (a channel and at least one attempt):

- `SubTypeCorrect`: `SubSpec => []SubTypeOK`, the capacity of the channel included.
- `NoSubscriptionLeft`: `SubSpec => []ClosedWithRequest`. The invariant `ClosedInv` adds what a
  reader's status says of its connection (a refused or new one has none, a closed one is
  closed) and that a request that has arrived has a reader that is no longer new;
  `BrokerStepKeeps` shows that no step of the broker gives a reader its connection back,
  `Standing` lists what a step can make of a request.

- `ClientInOrderCorrect`, `ResponseCompleteCorrect`, `NoContentCorrect`: the lemma `StepRefines` says that a step of
  `SubSpec` is a step of `Broker` or leaves its variables alone, so that `BrokerInv` holds of the readers of
  any number of requests. From there, `ClientInOrder`, `ResponseComplete` and
  `NoContentJustified`. `SubInv` joins `BrokerInv` with three invariants per request. `FlowInv`: what the
  client has, the payloads in the channel and the one the goroutine holds are, one behind the other, what the
  reader has handed over, as long as the handler copies; afterwards what the client has is its beginning. `EndInv`: a payload with an error is
  the last, the goroutine has ended behind it, and an EOF among the payloads means that the reader has come to its end, so that
  `EOFInv` of the broker applies. `PhaseInv` says what cannot be before the copy begins. `SeenInv` is
  for the 204: the length noted with the first question is still stored if nothing was discarded since.

`StreamProofs` proves `BrokerImplementsStream`: `Spec => ImplementsStream`, step by step: each action of `Broker` is an action of
`Stream` under the mapping of `Log`, or a stutter. It rests on `LogInv`: `TypeOK`, `BrokerInv` (a kill that is taken off a queue
finds the reader level with what was stored) and `CursorInv`, that a reader's offset is its start and what it has handed over.

`ArchiveProofs` (under `BrokerAssumption` and `ArchiveAssumption`: at least one attempt, and `Absent` is no sequence of bytes):

- `ArchiveTypeCorrect`, `ArchivedCorrect`, `UploadsExtendCorrect`: `ArchiveTypeOK`, `ArchivedAtRest`, `UploadsExtend`. Without
  a mishap uploads come one at a time, and `PrefixInv` says that the object in the store is a prefix of what is on its way and
  that a prefix of the stream; `PendingInv` that what the store lacks will be uploaded: a storer runs,
  or an upload has yet to read Redis, or it carries the whole stream. `ArchivedAtRest` is `PendingInv` when nothing is under way.

`ServerProofs` (under `RouterAssumption`, `ServerAssumption`: credentials and requests have the shape net/http gives them):

- `ServerTypeCorrect`, `GracefulExitCorrect`: `CountInv`, that `wg` is the number of connections that are open, and
  `ShutdownInv`, that the listener's flag is down before the signal is handed over, so that `Accept`'s error is taken for
  the shutdown. That `wg` does not go below zero follows.
- `OnlyTrustedCorrect`: a lemma about `Router` shows that whatever the request's path and method, a handler that creates
  streams is reached only past `auth`; `ConnInv` and `HistoryInv` carry this through redirects and kept-alive connections.
- `RedirectsSettleCorrect`: there are two reasons to redirect, a path that is not clean and a scheme that is not https. Each redirect
  removes one and does not bring back the other (`RedirectNears`), so that `ConnInv` can count them. That a clean path stays as it is
  (`CleanTwice`) is an induction along the path, which `cleanPath` walks with a recursive function: that the function
  exists (`WalkExists`) and what it computes are shown by induction over a set of numbers (`AllNumbers`), which follows from the least
  element of a set of numbers and needs no theorem with an operator for a parameter.

`BuslteeProofs` (under `FlagsAssumption`, `BuslteeAssumption`): `BuslteeTypeCorrect`, `NoDuplicatesCorrect`, `UploadCompleteCorrect`, `LineObeyedCorrect`.
`ChunkInv`: the chunks in the pipe and those uploaded, by whatever attempt, are apart, and the latter differ; `AttemptInv`: at most one transport goroutine is left behind per
attempt used up, also with a `--retry` of 0 or -1; `LostInv`: the chunks that went nowhere (`Lost`) and the
goroutines that may still take one are no more than the attempts used up, so that at the end of the body no more are lost than attempts have failed. An
attempt that fails passes its share on to the goroutine it leaves behind. `LineInv` is about the parser's loop: at every moment either the flags say what the first arguments say as a whole
(`ReadTo`), or the loop has met the terminator and taken what is behind it as it stands (`AllRead`), or an option was not well formed
(`Rejected`). `Lists` says that a sequence holds the arguments at some places in their order, and lemmas how it grows by one
more place or by all the places behind the terminator (`ListsOneMore`, `ListsRest`). `FlagsAssumption` says of the arguments what a
token stands for: that only "--" is read as the end of the options.

`PoolProofs` (under `PoolAssumption`: users are finitely many, and followers are among them):

- `PoolTypeCorrect`, `AccountedCorrect`: `BaseInv`, whether two goroutines have raced or not. `PlaceInv`: a connection is idle,
  one user's, or nobody's, and the active count says how many are not nobody's; `TaskInv`: of the goroutines of a follower
  one at most is past the flag `closed`, so that the reader is closed and given back once.
- `OwnAnswersCorrect`: `ReplyInv`, as long as no race has occurred. Idle connections are clean; what is on its way to a plain user is
  at most what it waits for; on a connection being closed the sentinel is the last answer, so that what
  `pooledConnection.Close` puts back is clean; and a goroutine still in `Receive` when the other closes either races
  or has a connection that has failed and is nobody's (`StaleInv`).

`ResumeProofs` (under `ResumeAssumption`):

- `ResumeTypeCorrect`: the two offsets stay within int64 for every first offset that is one, without the few most negative ones (below). They may differ, for a first offset that was
  negative; `CountInv` bounds by how much, and how far each can go before the bytes come to an end.
- `ResumesExactlyCorrect`, `StopsCompleteCorrect`: `ExactInv`, that reader, encoder and client stand at the same offset, and the data
  received is what is stored from the first offset to there. A 204 takes two answers of Redis: `CheckedInv` says that no response
  is open between them, so that the client gets nothing meanwhile, and the second compares its id with the length as it is then, so that the data is all that is stored at that
  moment, whatever was written or closed in between. `AskedInv`, that what a fetch has found is still what the stream holds at the reader's offset, although publishers have gone
  on.
- `WireFaithfulCorrect`: it follows from the types alone (`TypesMakeFaithful`), from lemmas about `Wire` and `Notices` that speak of bytes only.
  `Frames` says of some bytes and a reply that whoever reads them gets the reply, whatever comes behind, and that they are a fault when
  cut off anywhere. A line frames what it announces (`LineFrames`), and bytes behind their length frame these bytes, whatever they hold (`BulkFrames`): the parser looks for
  line ends in the length and behind the bytes, not in them. `FramesMore` puts one reply behind others, `FramesFlat` any number of them,
  `ArrayReply` and `DoTakes` say what an array and a `Do` make of that. From there on it is a matter of the few answers and notices
  there are: `CommandArrives`, `FetchDecodes`, `NoticeTaken`. What Redis writes as a number is what `parseInt` reads (`DigitsRead`).
  The functions that recursion defines (`Digits`, `Number`, `ReadItems`, and `FlattenSeq` of the library) exist and do what their
  equations say because of `Steps`, a function that is made place by place (`StepsExist`, `StepsAgree`), again by way of `AllNumbers`.

The assumptions with content are `2 * MaxLen + ReadLen <= MaxInt` and `FirstOffset \subseteq (MaxLen - MaxInt)..MaxInt`. A reader at a
negative offset that lies before the stream reads from its first byte again and again, while its encoder counts on from 0; the two
come to nonnegative offsets only after as many bytes as the offset is below 0. The smallest `MaxLen + 1` numbers of int64, from which the encoder would
come to its limit, are left out: that takes 2^63 bytes to be delivered. Redis strings hold up to 512 MB, reads are of 32K,
and `MaxInt` is 2^63 - 1.

*What the proofs do not rest on.* The bounds of the models (`MaxLen`, `MaxQueue`, `MaxEpoch`, `MaxPipe`, `MaxHops`, `MaxTokens`, `MaxOutput`,
`MaxSignals`) are constants with no upper limit, so the theorems hold whatever they are. No theorem assumes fairness.

*Only model-checked:*

- Liveness, which under fairness is outside what TLAPS proves: `DataReachesClient`, `KillEndsResponse`, `GoroutineEnds`, `StorerStops`,
  `UploadEnds`, `ClientStops`, `CommandsEnd`, `CommandProceeds`, `EndsWithCommand`, `RequestsAnswered`, `ShutdownCompletes`.

`BrokerInv` and the other inductive invariants are the other way round: they are proved, and no run lists them.

## 7. Not modelled

- What is written to the log, headers (CORS, cache control, request ids), counters, the text of errors and of a
  report: nothing depends on them. busltee's log file.
- Configuration: flags and environment of the server are constants of the models. The name of an object in the store, which
  is the request's URI with its query, is one blob.
- Most of the vendored code by lines, since busl calls little of it: sub-routers, host and query matchers and URL
  building of mux, pflag's other types and its usage texts, redigo's scripts, ScanStruct, logging connection, `MaxActive`,
  `Wait` and `Pool.Close`, rollbar's stack traces and filters, and testify, which only the tests use. What busl
  reaches of these libraries is modelled, and what is modelled of Go's net/http, os/exec and context switches is named external.
- TLS, TCP and timers: a connection is there or breaks, a timer fires at any time.
- Blobs whose transfer never ends: the liveness runs say nothing of them.
- Subscribers in `Archive`: they change nothing an upload reads, and all they do to the
  stream is to postpone its expiry, which a tick leaves open anyway.
