----------------------------- MODULE Subscriber -----------------------------
(***************************************************************************)
(* Following a stream over HTTP (server/server.go sub, server/middleware.go *)
(* newReader, server/keepalivereader.go, storage/blob.go Get).             *)
(*                                                                         *)
(* A GET opens a reader of the broker, or falls back to the blob store     *)
(* when the stream is not registered.  A stream that is done and has       *)
(* nothing left is answered 204.  Otherwise a goroutine reads from the     *)
(* reader and sends what it got over a channel to the handler, which       *)
(* copies it to the client, sends a heartbeat when nothing came for a      *)
(* while, and stops at the first error or when the client has left.        *)
(*                                                                         *)
(* The handler closes the reader when it returns, with two exceptions in   *)
(* the code: after a 204, and behind the SSE encoder.                      *)
(***************************************************************************)
EXTENDS Broker

CONSTANTS
  ChanCap,  \* capacity of the channel (100 in newKeepAliveReader)
  retries   \* attempts storage.Get makes

ASSUME SubscriberAssumption == ChanCap \in Nat \ {0} /\ retries \in Nat \ {0}

VARIABLE req   \* req[r]: the handler of r's request and the goroutine it started

subVars == <<vars, req>>

\* What one Read returned.  The bytes of a blob are left out.
Payload == [p : Seq(Byte), err : {"none", "eof", "error"}]

NoPayload == [p |-> << >>, err |-> "none"]

NothingSeen == [len |-> 0, epoch |-> 0]

Request ==
  [phase  : {"new", "done?", "length?", "get", "copy", "over"},
   answer : {"none", "200", "204", "404", "416", "500"},
   sse    : BOOLEAN,       \* Accept: text/event-stream
   left   : 0..retries,    \* attempts of storage.Get
   go     : {"none", "reading", "inside", "sending", "ended"},
   held   : Payload,       \* what the goroutine has read and not yet sent
   ch     : Seq(Payload),
   gone   : BOOLEAN,       \* the client has closed the connection
   \* history: the bytes copied to the client (those the events were made of,
   \* if they are encoded), why the copy ended, and length and epoch of the
   \* stream when it was found done, until the answer
   sent   : Seq(Byte),
   end    : {"none", "eof", "error", "gone", "crash"},
   seen   : [len : Nat, epoch : Nat]]

SubTypeOK ==
  /\ req \in [Reader -> Request]
  /\ \A r \in Reader : Len(req[r].ch) <= ChanCap

FromBroker(r) == rd[r].status \notin {"new", "refused"}

-----------------------------------------------------------------------------
(* newReader: what to answer.                                              *)

\* A Redis error in IsRegistered sends the request to the store, too.  The
\* encoder, which seeks again, seeks to the same offset.
OpenSub(r, off, sse, answered) ==
  /\ req[r].phase = "new"
  /\ NewReader(r, off, answered)
  /\ req' = [req EXCEPT ![r].sse = sse,
                        ![r].phase = IF rd'[r].status = "reading" THEN "done?" ELSE "get",
                        ![r].left = retries]

\* newKeepAliveReader has started its goroutine, sub begins to copy.
Copying(q) ==
  [q EXCEPT !.phase = "copy", !.answer = "200", !.go = "reading",
            !.left = 0, !.seen = NothingSeen]

Answered(q, status) == [q EXCEPT !.phase = "over", !.answer = status]

\* ReaderDone: EXISTS "<key>:done"; an error counts as not done.
AskDone(r, answered) ==
  /\ req[r].phase = "done?"
  /\ req' = [req EXCEPT ![r] =
               IF answered /\ Done
                 THEN [@ EXCEPT !.phase = "length?",
                                !.seen = [len |-> Len(str), epoch |-> epoch]]
                 ELSE Copying(@)]
  /\ UNCHANGED vars

\* Mutant: the last byte does not count.
NothingLeftOffByOne(off, len) == off >= len - 1

\* Nothing is stored from the offset on.
NothingLeft(off, len) == off > len - 1

\* NoContent: STRLEN, in a request of its own.  After a 204 the reader is
\* dropped without being closed.
AskLength(r, answered) ==
  /\ req[r].phase = "length?"
  /\ req' = [req EXCEPT ![r] =
               IF answered /\ NothingLeft(rd[r].start, Len(str))
                 THEN Answered(@, "204")
                 ELSE Copying(@)]
  /\ UNCHANGED vars

\* storage.Get: one attempt.
GetBlob(r, res) ==
  /\ req[r].phase = "get"
  /\ \/ /\ res = "2xx"
        /\ req' = [req EXCEPT ![r] = Copying(@)]
     \/ /\ res \in {"404", "416"}
        /\ req' = [req EXCEPT ![r] = Answered(@, res)]
     \/ /\ res = "error" \/ (res = "5xx" /\ req[r].left <= 1)
        /\ req' = [req EXCEPT ![r] = Answered(@, "500")]
     \/ /\ res = "5xx"
        /\ req[r].left > 1
        /\ req' = [req EXCEPT ![r].left = @ - 1]
  /\ UNCHANGED vars

-----------------------------------------------------------------------------
(* The goroutine of newKeepAliveReader.                                    *)

Holding(r, payload) ==
  req' = [req EXCEPT ![r].held = payload, ![r].go = "sending"]

\* Mutant: the buffer is kept, and the bytes of earlier reads are in it still.
ReadResultKept(r) ==
  [p |-> rd'[r].out,
   err |-> IF rd'[r].status \in {"eof", "error"} THEN rd'[r].status ELSE "none"]

\* What r.Read returns for a step of the reader.
ReadResult(r) ==
  [p |-> SubSeq(rd'[r].out, Len(rd[r].out) + 1, Len(rd'[r].out)),
   err |-> IF rd'[r].status \in {"eof", "error"} THEN rd'[r].status ELSE "none"]

\* reader.Read looks at r.closed once, and then goes on.
GoEnter(r) ==
  /\ req[r].go = "reading"
  /\ FromBroker(r) /\ rd[r].status # "closed"
  /\ req' = [req EXCEPT ![r].go = "inside"]
  /\ UNCHANGED vars

\* A replay that found nothing goes on to Receive within the same Read.
GoRead(r) ==
  /\ req[r].go = "inside"
  /\ ReadStep(r)
  /\ IF ~rd[r].replayed /\ ReadResult(r) = NoPayload
       THEN UNCHANGED req
       ELSE Holding(r, ReadResult(r))

\* The reader is found closed.
GoReadClosed(r) ==
  /\ req[r].go = "reading"
  /\ rd[r].status = "closed"
  /\ Holding(r, [p |-> << >>, err |-> "eof"])
  /\ UNCHANGED vars

(***************************************************************************)
(* The handler closes the reader while a Read is under way.  A fetch goes  *)
(* over a connection of its own and is not disturbed.  A Receive gets one  *)
(* of the answers to the clean-up, which the pool reads on the same        *)
(* connection: a confirmation, a message that was on its way (a kill among *)
(* them, and each is fetched for), or what is no notice at all; or the     *)
(* connection is gone already.  The bytes, which nobody takes, are left    *)
(* out.  Or the pool reads all the answers, and the Receive goes on        *)
(* waiting.                                                                *)
(***************************************************************************)
GoReadLate(r) ==
  /\ req[r].go = "inside"
  /\ rd[r].status = "closed"
  /\ \E err \in {"none", "eof", "error"} : Holding(r, [p |-> << >>, err |-> err])
  /\ LateFetch(r) \/ UNCHANGED vars

GoReadBlob(r, err) ==
  /\ req[r].go = "reading"
  /\ ~FromBroker(r)
  /\ Holding(r, [p |-> << >>, err |-> err])
  /\ UNCHANGED vars

\* Mutant: a read that returned nothing is taken for the end.
EndsOnNothing(payload) ==
  IF payload.err = "none" /\ payload.p # << >> THEN "reading" ELSE "ended"

\* The goroutine after sending a payload.
GoAfter(payload) == IF payload.err = "none" THEN "reading" ELSE "ended"

\* Mutant: one place too many.
RoomForOneMore(r) == Len(req[r].ch) <= ChanCap

\* The channel takes another payload.
Room(r) == Len(req[r].ch) < ChanCap

GoSend(r) ==
  /\ req[r].go = "sending"
  /\ Room(r)
  /\ req' = [req EXCEPT ![r].ch = Append(@, req[r].held),
                        ![r].go = GoAfter(req[r].held),
                        ![r].held = NoPayload]
  /\ UNCHANGED vars

-----------------------------------------------------------------------------
(* The handler: keepAliveReader.Read and io.Copy.                          *)

\* Mutant: nobody closes the reader.
LeftOpen(r) == UNCHANGED vars

\* The deferred rd.Close: NopCloser keeps it from a reader behind the encoder.
CloseSource(r) ==
  IF req[r].sse \/ ~FromBroker(r) \/ rd[r].conn = "closed"
    THEN UNCHANGED vars
    ELSE CloseReader(r)

Over(q, end) == [q EXCEPT !.phase = "over", !.end = end]

\* Mutant: the bytes that come with an error are dropped.
CopiedUnlessError(payload) == IF payload.err = "none" THEN payload.p ELSE << >>

\* The bytes of a payload that go to the client.
Copied(payload) == payload.p

\* A payload is copied to the client; the one with an error ends the copy.
Take(r) ==
  LET payload == Head(req[r].ch)
      next == [req[r] EXCEPT !.ch = Tail(@), !.sent = @ \o Copied(payload)]
  IN  /\ req[r].phase = "copy"
      /\ req[r].ch # << >>
      /\ IF payload.err = "none"
           THEN /\ req' = [req EXCEPT ![r] = next]
                /\ UNCHANGED vars
           ELSE /\ req' = [req EXCEPT ![r] = Over(next, payload.err)]
                /\ CloseSource(r)

\* The timer fires: the client is sent an ack, and a reader of the broker
\* that is not behind the encoder has its key renewed.
Heartbeat(r) ==
  /\ req[r].phase = "copy"
  /\ FromBroker(r) /\ ~req[r].sse
  /\ RenewExpiry(r)
  /\ UNCHANGED req

ClientLeaves(r) ==
  /\ req[r].phase \notin {"new", "over"}
  /\ ~req[r].gone
  /\ req' = [req EXCEPT ![r].gone = TRUE]
  /\ UNCHANGED vars

\* The handler notices, by the close notification or by a write that fails;
\* the payload it was writing is lost.
NoticeGone(r) ==
  /\ req[r].phase = "copy"
  /\ req[r].gone
  /\ \E n \in 0..1 :
       /\ n <= Len(req[r].ch)
       /\ req' = [req EXCEPT ![r] =
                    [Over(req[r], "gone") EXCEPT !.ch = SubSeq(req[r].ch, n + 1, Len(req[r].ch))]]
  /\ CloseSource(r)

\* A fetch panics: every request of the process is gone.
Panic ==
  /\ \E r \in Reader : req[r].go = "inside" /\ rd[r].status \in {"reading", "closed"}
  /\ FetchPanics
  /\ req' = [r \in Reader |->
               IF req[r].phase = "new" THEN req[r]
               ELSE [req[r] EXCEPT !.phase = "over", !.end = "crash", !.go = "ended",
                                   !.held = NoPayload, !.ch = << >>]]

-----------------------------------------------------------------------------
NewRequest ==
  [phase |-> "new", answer |-> "none", sse |-> FALSE, left |-> 0, go |-> "none",
   held |-> NoPayload, ch |-> << >>, gone |-> FALSE, sent |-> << >>, end |-> "none",
   seen |-> NothingSeen]

SubInit == Init /\ req = [r \in Reader |-> NewRequest]

HandlerStep(r) ==
  \/ \E off \in StartOffset, sse, answered \in BOOLEAN : OpenSub(r, off, sse, answered)
  \/ \E answered \in BOOLEAN : AskDone(r, answered) \/ AskLength(r, answered)
  \/ \E res \in {"2xx", "404", "416", "5xx", "error"} : GetBlob(r, res)
  \/ Take(r)
  \/ Heartbeat(r)
  \/ NoticeGone(r)

\* The goroutine's steps, but for a Read whose reader has been closed under it.
GoOn(r) ==
  \/ GoEnter(r)
  \/ GoRead(r)
  \/ GoReadClosed(r)
  \/ \E err \in {"none", "eof", "error"} : GoReadBlob(r, err)
  \/ GoSend(r)

GoStep(r) == GoOn(r) \/ GoReadLate(r)

\* What goes on around the subscribers: publishers, Redis, time.
Around ==
  /\ \/ Register
     \/ OtherPublish
     \/ Tick
     \/ \E w \in Writer : WriterStep(w)
     \/ \E r \in Reader : PSubscribed(r) \/ \E n \in 0..Len(rd[r].queue) : ConnLost(r, n)
  /\ UNCHANGED req

SubNext ==
  \/ Around
  \/ Panic
  \/ \E r \in Reader : HandlerStep(r) \/ GoStep(r) \/ ClientLeaves(r)

SubSpec == SubInit /\ [][SubNext]_subVars

(***************************************************************************)
(* The goroutine loops until it has sent an error, select takes a case     *)
(* that stays ready, Redis answers, time passes.  A Receive that the pool  *)
(* reads beside is owed no answer (GoReadLate).                            *)
(***************************************************************************)
SubFairSpec ==
  /\ SubSpec
  /\ \A r \in Reader :
       /\ WF_subVars(GoOn(r))
       /\ WF_subVars(Take(r))
       /\ WF_subVars(NoticeGone(r))
       /\ WF_subVars(PSubscribed(r) /\ UNCHANGED req)
  /\ WF_subVars(Tick /\ UNCHANGED req)

-----------------------------------------------------------------------------
(* Properties.                                                             *)

(***************************************************************************)
(* The client of a broker stream receives the stored bytes in order from   *)
(* the offset it asked for, through the channel and whichever way the      *)
(* request ends.  (Events, which may be cut off, are left out here and     *)
(* below.)                                                                 *)
(***************************************************************************)
ClientInOrder ==
  \A r \in Reader :
    (Current(r) /\ ~req[r].sse /\ req[r].sent # << >>) =>
      LET last == rd[r].start + Len(req[r].sent)
      IN  last <= Len(str) /\ req[r].sent = SubSeq(str, rd[r].start + 1, last)

(***************************************************************************)
(* A response that ends with EOF is complete: the client has all that was  *)
(* stored when the stream was closed (for a reader that was subscribed     *)
(* when it last replayed).                                                 *)
(***************************************************************************)
ResponseComplete ==
  \A r \in Reader :
    (req[r].end = "eof" /\ FromBroker(r) /\ ~req[r].sse /\ rd[r].covered /\ Current(r))
      => rd[r].owed <= rd[r].start + Len(req[r].sent)

(***************************************************************************)
(* A 204 is justified: when the stream was found done nothing was stored   *)
(* from the offset on, although the length is asked for later; unless the  *)
(* bytes were discarded between the two.                                   *)
(***************************************************************************)
NoContentJustified ==
  [][\A r \in Reader :
       ( /\ req'[r].answer = "204"
         /\ req[r].answer # "204"
         /\ req[r].seen.epoch = epoch )
       => req[r].seen.len <= rd[r].start]_subVars

(***************************************************************************)
(* No subscription outlives its request, but for the two exceptions of the *)
(* code (a 204, and a reader behind the SSE encoder).                      *)
(***************************************************************************)
ClosedWithRequest ==
  \A r \in Reader :
    (req[r].phase = "over" /\ req[r].answer = "200" /\ ~req[r].sse)
      => rd[r].conn \in {"none", "closed"}

(***************************************************************************)
(* Every stored byte reaches the client, if it stays, the subscription is  *)
(* healthy, the bytes are not discarded and the stream is not found closed *)
(* before they are appended (two publishers may write to one stream).      *)
(***************************************************************************)
DataReachesClient ==
  \A r \in Reader : \A n \in 1..MaxLen :
    ( /\ req[r].phase = "copy" /\ ~req[r].sse
      /\ rd[r].conn = "subscribed"
      /\ rd[r].covered
      /\ Current(r)
      /\ n <= Len(str) )
    ~> \/ n <= rd[r].start + Len(req[r].sent)
       \/ rd[r].status = "eof" /\ rd[r].owed < n
       \/ req[r].gone
       \/ rd[r].conn = "lost"
       \/ req[r].end \in {"error", "crash"}
       \/ ~Current(r)

(***************************************************************************)
(* A kill that was sent to a subscriber ends its response, behind the      *)
(* encoder or not.                                                         *)
(***************************************************************************)
KillEndsResponse ==
  \A r \in Reader :
    (req[r].phase = "copy" /\ \E i \in 1..Len(rd[r].queue) : rd[r].queue[i].ch = "kill")
      ~> req[r].phase = "over"

\* The places of the channel that the goroutine of a closed reader may want:
\* for what the Read under way returns or has returned, and for the EOF of
\* the next one.
Wanted(r) ==
  CASE req[r].go = "inside" -> 2
    [] req[r].go = "sending" -> IF req[r].held.err = "none" THEN 2 ELSE 1
    [] req[r].go = "reading" -> 1
    [] OTHER -> 0

(***************************************************************************)
(* When a request that does not use SSE is over, the goroutine ends,       *)
(* wherever in its loop the close of the reader has found it, if the       *)
(* channel has the places it may still want: two for a Read under way.     *)
(* Only in Receive can it be held up then, when the pool has read the      *)
(* answers it was waiting for.  (A goroutine that finds the channel full   *)
(* blocks for ever.)                                                       *)
(***************************************************************************)
GoroutineEnds ==
  \A r \in Reader :
    \/ ( /\ req[r].phase = "over" /\ req[r].answer = "200"
         /\ FromBroker(r) /\ ~req[r].sse
         /\ Len(req[r].ch) + Wanted(r) <= ChanCap )
         ~> req[r].go = "ended"
    \/ <>[](req[r].go = "inside" /\ rd[r].status = "closed")
=============================================================================
