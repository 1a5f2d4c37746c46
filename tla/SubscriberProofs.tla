-------------------------- MODULE SubscriberProofs --------------------------
(***************************************************************************)
(* Subscriber is built from Broker's actions, so what BrokerProofs shows   *)
(* of readers holds for the readers behind requests.  What a reader hands  *)
(* over comes through its goroutine and channel to the client in order,    *)
(* with the end behind it.                                                 *)
(***************************************************************************)
EXTENDS Subscriber, BrokerProofs

\* A step of r's handler is a step of the broker or leaves the broker alone.
LEMMA HandlerStepRefines ==
  ASSUME NEW r \in Reader, HandlerStep(r)
  PROVE  [Next]_vars
<1>1. CASE \E off \in StartOffset, sse, answered \in BOOLEAN : OpenSub(r, off, sse, answered)
  <2>1. PICK off \in StartOffset, sse \in BOOLEAN, answered \in BOOLEAN :
          OpenSub(r, off, sse, answered)
    BY <1>1
  <2>2. NewReader(r, off, answered)
    BY <2>1 DEF OpenSub
  <2> QED
    BY <2>2 DEF ReaderStep, Next
<1>2. CASE \E answered \in BOOLEAN : AskDone(r, answered) \/ AskLength(r, answered)
  BY <1>2 DEF AskDone, AskLength
<1>3. CASE \E res \in {"2xx", "404", "416", "5xx", "error"} : GetBlob(r, res)
  BY <1>3 DEF GetBlob
<1>4. ASSUME CloseSource(r)
      PROVE  [Next]_vars
  BY <1>4 DEF CloseSource, ReaderStep, Next
<1>5. CASE Take(r)
  BY <1>4, <1>5 DEF Take
<1>6. CASE Heartbeat(r)
  BY <1>6 DEF Heartbeat, ReaderStep, Next
<1>7. CASE NoticeGone(r)
  BY <1>4, <1>7 DEF NoticeGone
<1> QED
  BY <1>1, <1>2, <1>3, <1>5, <1>6, <1>7 DEF HandlerStep

\* So is a step of the goroutine that reads for r.
LEMMA GoStepRefines ==
  ASSUME NEW r \in Reader, GoStep(r)
  PROVE  [Next]_vars
<1>1. CASE GoRead(r)
  BY <1>1 DEF GoRead, ReaderStep, Next
<1>2. CASE GoReadClosed(r)
  BY <1>2 DEF GoReadClosed
<1>3. CASE \E err \in {"none", "eof", "error"} : GoReadBlob(r, err)
  BY <1>3 DEF GoReadBlob
<1>4. CASE GoSend(r)
  BY <1>4 DEF GoSend
<1>5. CASE GoEnter(r)
  BY <1>5 DEF GoEnter
<1>6. CASE GoReadLate(r)
  BY <1>6 DEF GoReadLate, ReaderStep, Next
<1> QED
  BY <1>1, <1>2, <1>3, <1>4, <1>5, <1>6 DEF GoStep, GoOn

\* So is what happens around the subscribers.
LEMMA AroundRefines ==
  ASSUME Around
  PROVE  Next
<1>1. CASE Register \/ OtherPublish \/ Tick \/ \E w \in Writer : WriterStep(w)
  BY <1>1 DEF Next
<1>2. CASE \E r \in Reader : PSubscribed(r) \/ \E n \in 0..Len(rd[r].queue) : ConnLost(r, n)
  BY <1>2 DEF ReaderStep, Next
<1> QED
  BY <1>1, <1>2 DEF Around

\* Every step of the requests is a step of the broker or leaves it alone.
LEMMA StepRefines ==
  ASSUME [SubNext]_subVars
  PROVE  [Next]_vars
<1>1. CASE UNCHANGED subVars
  BY <1>1 DEF subVars
<1>2. CASE Around
  BY <1>2, AroundRefines
<1>3. CASE Panic
  BY <1>3 DEF Panic, Next
<1>4. ASSUME NEW r \in Reader, HandlerStep(r) \/ GoStep(r) \/ ClientLeaves(r)
      PROVE  [Next]_vars
  <2>1. CASE ClientLeaves(r)
    BY <2>1 DEF ClientLeaves
  <2> QED
    BY <1>4, <2>1, HandlerStepRefines, GoStepRefines
<1> QED
  BY <1>1, <1>2, <1>3, <1>4 DEF SubNext

-----------------------------------------------------------------------------
(* Types.                                                                  *)

\* A request replaced by a well-typed one.
LEMMA UpdateType ==
  ASSUME SubTypeOK, NEW r \in Reader, NEW q \in Request, Len(q.ch) <= ChanCap,
         req' = [req EXCEPT ![r] = q]
  PROVE  SubTypeOK'
BY DEF SubTypeOK

\* A request whose copy begins is well typed.
LEMMA CopyingType ==
  ASSUME NEW q \in Request, Len(q.ch) <= ChanCap
  PROVE  Copying(q) \in Request /\ Len(Copying(q).ch) <= ChanCap
<1>1. 0 \in 0..retries /\ NothingSeen \in [len : Nat, epoch : Nat]
  BY SubscriberAssumption DEF NothingSeen
<1> QED
  BY <1>1 DEF Copying, Request

\* newReader keeps the request well typed.
LEMMA OpenSubType ==
  ASSUME SubTypeOK, NEW r \in Reader, NEW off \in StartOffset, NEW sse \in BOOLEAN,
         NEW answered \in BOOLEAN, OpenSub(r, off, sse, answered)
  PROVE  SubTypeOK'
<1>1. req[r] \in Request /\ Len(req[r].ch) <= ChanCap /\ retries \in 0..retries
  BY SubscriberAssumption DEF SubTypeOK
<1>2. PICK ph \in {"done?", "get"} :
        req' = [req EXCEPT ![r] = [req[r] EXCEPT !.sse = sse, !.phase = ph, !.left = retries]]
  BY DEF OpenSub, SubTypeOK
<1> DEFINE q == [req[r] EXCEPT !.sse = sse, !.phase = ph, !.left = retries]
<1>3. q \in Request /\ Len(q.ch) <= ChanCap
  BY <1>1 DEF Request
<1> QED
  BY <1>2, <1>3, UpdateType

\* So do the two questions behind a 204.
LEMMA AskType ==
  ASSUME TypeOK, SubTypeOK, NEW r \in Reader, NEW answered \in BOOLEAN,
         AskDone(r, answered) \/ AskLength(r, answered)
  PROVE  SubTypeOK'
<1>1. req[r] \in Request /\ Len(req[r].ch) <= ChanCap
  BY DEF SubTypeOK
<1>2. Copying(req[r]) \in Request /\ Len(Copying(req[r]).ch) <= ChanCap
  BY <1>1, CopyingType
<1>3. Answered(req[r], "204") \in Request /\ Len(Answered(req[r], "204").ch) <= ChanCap
  BY <1>1 DEF Answered, Request
<1>4. CASE AskDone(r, answered)
  <2> DEFINE q == [req[r] EXCEPT !.phase = "length?",
                                 !.seen = [len |-> Len(str), epoch |-> epoch]]
  <2>1. q \in Request /\ Len(q.ch) <= ChanCap
    <3>1. [len |-> Len(str), epoch |-> epoch] \in [len : Nat, epoch : Nat]
      BY DEF TypeOK
    <3> QED
      BY <1>1, <3>1 DEF Request
  <2>2. \/ req' = [req EXCEPT ![r] = q]
        \/ req' = [req EXCEPT ![r] = Copying(req[r])]
    BY <1>4 DEF AskDone, SubTypeOK
  <2> QED
    BY <1>2, <2>1, <2>2, UpdateType
<1>5. CASE AskLength(r, answered)
  <2>1. \/ req' = [req EXCEPT ![r] = Answered(req[r], "204")]
        \/ req' = [req EXCEPT ![r] = Copying(req[r])]
    BY <1>5 DEF AskLength, SubTypeOK
  <2> QED
    BY <1>2, <1>3, <2>1, UpdateType
<1> QED
  BY <1>4, <1>5

\* So does an attempt of storage.Get.
LEMMA GetBlobType ==
  ASSUME SubTypeOK, NEW r \in Reader,
         NEW res \in {"2xx", "404", "416", "5xx", "error"}, GetBlob(r, res)
  PROVE  SubTypeOK'
<1> DEFINE again == [req[r] EXCEPT !.left = @ - 1]
<1>1. req[r] \in Request /\ Len(req[r].ch) <= ChanCap
  BY DEF SubTypeOK
<1>2. ASSUME req' = [req EXCEPT ![r] = Copying(@)]
      PROVE  SubTypeOK'
  <2>1. Copying(req[r]) \in Request /\ Len(Copying(req[r]).ch) <= ChanCap
    BY <1>1, CopyingType
  <2>2. req' = [req EXCEPT ![r] = Copying(req[r])]
    BY <1>2 DEF SubTypeOK
  <2> QED
    BY <2>1, <2>2, UpdateType
<1>3. ASSUME NEW status \in {"404", "416", "500"},
             req' = [req EXCEPT ![r] = Answered(@, status)]
      PROVE  SubTypeOK'
  <2>1. Answered(req[r], status) \in Request /\ Len(Answered(req[r], status).ch) <= ChanCap
    BY <1>1 DEF Answered, Request
  <2>2. req' = [req EXCEPT ![r] = Answered(req[r], status)]
    BY <1>3 DEF SubTypeOK
  <2> QED
    BY <2>1, <2>2, UpdateType
<1>4. ASSUME req[r].left > 1, req' = [req EXCEPT ![r].left = @ - 1]
      PROVE  SubTypeOK'
  <2>1. req' = [req EXCEPT ![r] = again]
    BY <1>4 DEF SubTypeOK
  <2>2. req[r].left \in 0..retries /\ req[r].left - 1 \in 0..retries
    BY <1>1, <1>4, SubscriberAssumption DEF Request
  <2>3. again \in Request /\ Len(again.ch) <= ChanCap
    BY <1>1, <2>2 DEF Request
  <2> QED
    BY <2>1, <2>3, UpdateType
<1> QED
  BY <1>2, <1>3, <1>4 DEF GetBlob

\* A payload the goroutine has read leaves the request well typed.
LEMMA HoldingType ==
  ASSUME SubTypeOK, NEW r \in Reader, NEW payload \in Payload, Holding(r, payload)
  PROVE  SubTypeOK'
<1> DEFINE q == [req[r] EXCEPT !.held = payload, !.go = "sending"]
<1>1. req[r] \in Request /\ Len(req[r].ch) <= ChanCap
  BY DEF SubTypeOK
<1>2. req' = [req EXCEPT ![r] = q]
  BY DEF Holding, SubTypeOK
<1>3. q \in Request /\ Len(q.ch) <= ChanCap
  BY <1>1 DEF Request
<1> QED
  BY <1>2, <1>3, UpdateType

\* What a step of the reader returns is a payload.
LEMMA ReadResultType ==
  ASSUME TypeOK, TypeOK', NEW r \in Reader
  PROVE  ReadResult(r) \in Payload
<1>1. rd[r].out \in Seq(Byte) /\ rd'[r].out \in Seq(Byte)
  BY DEF TypeOK, ReaderState
<1>2. SubSeq(rd'[r].out, Len(rd[r].out) + 1, Len(rd'[r].out)) \in Seq(Byte)
  <2> DEFINE s == rd'[r].out
             a == Len(rd[r].out) + 1
  <2>1. s \in Seq(Byte) /\ a \in Nat /\ a >= 1 /\ Len(s) \in Nat
    BY <1>1
  <2> HIDE DEF s, a
  <2>2. SubSeq(s, a, Len(s)) \in Seq(Byte)
    BY <2>1
  <2> QED
    BY <2>2 DEF s, a
<1>3. (IF rd'[r].status \in {"eof", "error"} THEN rd'[r].status ELSE "none")
        \in {"none", "eof", "error"}
  OBVIOUS
<1> QED
  BY <1>2, <1>3 DEF ReadResult, Payload

\* The goroutine keeps the request well typed, and sends only where there is room.
LEMMA GoStepType ==
  ASSUME TypeOK, TypeOK', SubTypeOK, NEW r \in Reader, GoStep(r)
  PROVE  SubTypeOK'
<1>1. req[r] \in Request /\ Len(req[r].ch) <= ChanCap
  BY DEF SubTypeOK
<1>2. << >> \in Seq(Byte)
  OBVIOUS
<1>3. CASE GoRead(r)
  <2>1. CASE UNCHANGED req
    BY <2>1 DEF SubTypeOK
  <2>2. CASE Holding(r, ReadResult(r))
    BY <2>2, ReadResultType, HoldingType
  <2> QED
    BY <1>3, <2>1, <2>2 DEF GoRead
<1>4. ASSUME NEW err \in {"none", "eof", "error"}, Holding(r, [p |-> << >>, err |-> err])
      PROVE  SubTypeOK'
  <2>1. [p |-> << >>, err |-> err] \in Payload
    BY <1>2 DEF Payload
  <2> QED
    BY <1>4, <2>1, HoldingType
<1>5. CASE GoReadClosed(r)
  BY <1>4, <1>5 DEF GoReadClosed
<1>6. CASE \E err \in {"none", "eof", "error"} : GoReadBlob(r, err)
  BY <1>4, <1>6 DEF GoReadBlob
<1>8. CASE GoReadLate(r)
  BY <1>4, <1>8 DEF GoReadLate
<1>9. CASE GoEnter(r)
  <2> DEFINE q == [req[r] EXCEPT !.go = "inside"]
  <2>1. req' = [req EXCEPT ![r] = q]
    BY <1>9 DEF GoEnter, SubTypeOK
  <2>2. q \in Request /\ Len(q.ch) <= ChanCap
    BY <1>1 DEF Request
  <2> QED
    BY <2>1, <2>2, UpdateType
<1>7. CASE GoSend(r)
  <2> DEFINE q == [req[r] EXCEPT !.ch = Append(@, req[r].held),
                                 !.go = GoAfter(req[r].held),
                                 !.held = NoPayload]
  <2>1. req' = [req EXCEPT ![r] = q]
    BY <1>7 DEF GoSend, SubTypeOK
  <2>2. NoPayload \in Payload
    BY <1>2 DEF NoPayload, Payload
  <2>3. GoAfter(req[r].held) \in {"reading", "ended"}
    BY DEF GoAfter
  <2>4. req[r].ch \in Seq(Payload) /\ req[r].held \in Payload /\ Len(req[r].ch) < ChanCap
    BY <1>1, <1>7 DEF GoSend, Room, Request
  <2>5. /\ Append(req[r].ch, req[r].held) \in Seq(Payload)
        /\ Len(Append(req[r].ch, req[r].held)) <= ChanCap
    BY <2>4, SubscriberAssumption
  <2>6. q \in Request /\ Len(q.ch) <= ChanCap
    BY <1>1, <2>2, <2>3, <2>5 DEF Request
  <2> QED
    BY <2>1, <2>6, UpdateType
<1> QED
  BY <1>3, <1>5, <1>6, <1>7, <1>8, <1>9 DEF GoStep, GoOn

\* Taking a payload keeps the request well typed.
LEMMA TakeType ==
  ASSUME SubTypeOK, NEW r \in Reader, Take(r)
  PROVE  SubTypeOK'
<1> DEFINE payload == Head(req[r].ch)
           next == [req[r] EXCEPT !.ch = Tail(@), !.sent = @ \o Copied(payload)]
<1>1. req[r] \in Request /\ Len(req[r].ch) <= ChanCap
  BY DEF SubTypeOK
<1>2. req[r].ch \in Seq(Payload) /\ req[r].sent \in Seq(Byte) /\ req[r].ch # << >>
  BY <1>1 DEF Request, Take
<1>3. payload \in Payload /\ Tail(req[r].ch) \in Seq(Payload) /\ Len(Tail(req[r].ch)) <= ChanCap
  BY <1>1, <1>2, SubscriberAssumption
<1>4. req[r].sent \o Copied(payload) \in Seq(Byte) /\ payload.err \in {"none", "eof", "error"}
  BY <1>2, <1>3 DEF Copied, Payload
<1>5. next \in Request /\ Len(next.ch) <= ChanCap
  BY <1>1, <1>3, <1>4 DEF Request
<1>6. Over(next, payload.err) \in Request /\ Len(Over(next, payload.err).ch) <= ChanCap
  BY <1>4, <1>5 DEF Over, Request
<1>7. \/ req' = [req EXCEPT ![r] = next]
      \/ req' = [req EXCEPT ![r] = Over(next, payload.err)]
  BY DEF Take
<1> HIDE DEF next, payload
<1> QED
  BY <1>5, <1>6, <1>7, UpdateType

\* So does the end of a request whose client has gone.
LEMMA NoticeGoneType ==
  ASSUME SubTypeOK, NEW r \in Reader, NoticeGone(r)
  PROVE  SubTypeOK'
<1>1. req[r] \in Request /\ Len(req[r].ch) <= ChanCap /\ req[r].ch \in Seq(Payload)
  BY DEF SubTypeOK, Request
<1>2. PICK n \in 0..1 :
        /\ n <= Len(req[r].ch)
        /\ req' = [req EXCEPT ![r] =
             [Over(req[r], "gone") EXCEPT !.ch = SubSeq(req[r].ch, n + 1, Len(req[r].ch))]]
  BY DEF NoticeGone
<1> DEFINE rest == SubSeq(req[r].ch, n + 1, Len(req[r].ch))
           q == [Over(req[r], "gone") EXCEPT !.ch = rest]
<1>3. rest \in Seq(Payload) /\ Len(rest) <= ChanCap
  BY <1>1, <1>2, SubscriberAssumption
<1>5. req' = [req EXCEPT ![r] = q]
  BY <1>2
<1> HIDE DEF rest
<1>6. q \in Request /\ Len(q.ch) <= ChanCap
  BY <1>1, <1>3 DEF Over, Request
<1> QED
  BY <1>5, <1>6, UpdateType

(***************************************************************************)
(* Each step keeps the requests well typed; in particular the channel      *)
(* never holds more than its capacity.                                     *)
(***************************************************************************)
LEMMA SubTypeNext ==
  ASSUME TypeOK, TypeOK', SubTypeOK, [SubNext]_subVars
  PROVE  SubTypeOK'
<1>1. ASSUME UNCHANGED req
      PROVE  SubTypeOK'
  BY <1>1 DEF SubTypeOK
<1>2. CASE UNCHANGED subVars
  BY <1>1, <1>2 DEF subVars
<1>3. CASE Around
  BY <1>1, <1>3 DEF Around
<1>4. CASE Panic
  <2> SUFFICES ASSUME NEW r \in Reader
               PROVE  req'[r] \in Request /\ Len(req'[r].ch) <= ChanCap
    BY <1>4 DEF Panic, SubTypeOK
  <2> DEFINE q == [req[r] EXCEPT !.phase = "over", !.end = "crash", !.go = "ended",
                                 !.held = NoPayload, !.ch = << >>]
  <2>1. req[r] \in Request /\ Len(req[r].ch) <= ChanCap
    BY DEF SubTypeOK
  <2>2. req'[r] = req[r] \/ req'[r] = q
    BY <1>4 DEF Panic
  <2>3. NoPayload \in Payload /\ << >> \in Seq(Payload) /\ Len(<< >>) <= ChanCap
    BY SubscriberAssumption DEF NoPayload, Payload
  <2>4. q \in Request /\ Len(q.ch) <= ChanCap
    BY <2>1, <2>3 DEF Request
  <2> QED
    BY <2>1, <2>2, <2>4
<1>5. ASSUME NEW r \in Reader, HandlerStep(r)
      PROVE  SubTypeOK'
  <2>1. CASE \E off \in StartOffset, sse, answered \in BOOLEAN : OpenSub(r, off, sse, answered)
    BY <2>1, OpenSubType
  <2>2. CASE \E answered \in BOOLEAN : AskDone(r, answered) \/ AskLength(r, answered)
    BY <2>2, AskType
  <2>3. CASE \E res \in {"2xx", "404", "416", "5xx", "error"} : GetBlob(r, res)
    BY <2>3, GetBlobType
  <2>4. CASE Take(r)
    BY <2>4, TakeType
  <2>5. CASE Heartbeat(r)
    BY <1>1, <2>5 DEF Heartbeat
  <2>6. CASE NoticeGone(r)
    BY <2>6, NoticeGoneType
  <2> QED
    BY <1>5, <2>1, <2>2, <2>3, <2>4, <2>5, <2>6 DEF HandlerStep
<1>6. ASSUME NEW r \in Reader, ClientLeaves(r)
      PROVE  SubTypeOK'
  <2> DEFINE q == [req[r] EXCEPT !.gone = TRUE]
  <2>1. req[r] \in Request /\ Len(req[r].ch) <= ChanCap
    BY DEF SubTypeOK
  <2>2. req' = [req EXCEPT ![r] = q]
    BY <1>6 DEF ClientLeaves, SubTypeOK
  <2>3. q \in Request /\ Len(q.ch) <= ChanCap
    BY <2>1 DEF Request
  <2> QED
    BY <2>2, <2>3, UpdateType
<1> QED
  BY <1>2, <1>3, <1>4, <1>5, <1>6, GoStepType DEF SubNext

\* Requests are well typed at the start.
LEMMA SubTypeInit == SubInit => SubTypeOK
<1> SUFFICES ASSUME SubInit
             PROVE  SubTypeOK
  OBVIOUS
<1>1. /\ << >> \in Seq(Byte) /\ << >> \in Seq(Payload)
      /\ NoPayload \in Payload
      /\ 0 \in 0..retries /\ Len(<< >>) <= ChanCap
      /\ NothingSeen \in [len : Nat, epoch : Nat]
  BY SubscriberAssumption DEF NoPayload, Payload, NothingSeen
<1>2. NewRequest \in Request /\ Len(NewRequest.ch) <= ChanCap
  BY <1>1 DEF NewRequest, Request
<1> QED
  BY <1>2 DEF SubInit, SubTypeOK

-----------------------------------------------------------------------------
(* The readers of requests that are over.                                  *)

\* What a reader's status says of its connection.
ConnOfStatus(r) ==
  /\ rd[r].status \in {"new", "refused"} => rd[r].conn = "none"
  /\ rd[r].status = "closed" => rd[r].conn = "closed"

\* The request of r is one whose reader must be closed.
MustBeClosed(r) == req[r].phase = "over" /\ req[r].answer = "200" /\ ~req[r].sse

\* A request that is over and was answered 200 has had its reader closed.
ClosedInv ==
  \A r \in Reader :
    /\ ConnOfStatus(r)
    /\ req[r].phase # "new" => rd[r].status # "new"
    /\ MustBeClosed(r) => rd[r].conn \in {"none", "closed"}

\* What a step of the broker keeps of a reader's connection.
Keeps(r) ==
  /\ ConnOfStatus(r)'
  /\ rd[r].status # "new" =>
       /\ rd'[r].status # "new"
       /\ rd[r].conn \in {"none", "closed"} => rd'[r].conn \in {"none", "closed"}

\* The facts about the parts of a reader that fetch and Close produce.
LEMMA ReaderParts ==
  ASSUME TypeOK, NEW r \in Reader
  PROVE  /\ rd[r] \in ReaderState
         /\ Advanced(r) \in ReaderState
         /\ Advanced(r).status = rd[r].status /\ Advanced(r).conn = rd[r].conn
         /\ \A rec \in ReaderState :
              ClosedConn(rec) \in ReaderState
              /\ ClosedConn(rec).status = rec.status /\ ClosedConn(rec).conn = "closed"
<1>1. rd[r] \in ReaderState
  BY DEF TypeOK
<1>2. Advanced(r) \in ReaderState
  BY AdvancedIsState DEF TypeOK
<1>3. Advanced(r).status = rd[r].status /\ Advanced(r).conn = rd[r].conn
  BY <1>1 DEF Advanced, ReaderState
<1>4. ASSUME NEW rec \in ReaderState
      PROVE  /\ ClosedConn(rec) \in ReaderState
             /\ ClosedConn(rec).status = rec.status /\ ClosedConn(rec).conn = "closed"
  <2>1. << >> \in Seq(Message)
    OBVIOUS
  <2> QED
    BY <2>1 DEF ClosedConn, ReaderState
<1> QED
  BY <1>1, <1>2, <1>3, <1>4

\* A step of a reader x, as r sees it.
LEMMA ReaderStepKeeps ==
  ASSUME TypeOK, NEW r \in Reader, NEW x \in Reader, ReaderStep(x), ConnOfStatus(r)
  PROVE  Keeps(r)
<1>1. /\ rd \in [Reader -> ReaderState]
      /\ rd[r] \in ReaderState /\ rd[x] \in ReaderState
      /\ Advanced(x) \in ReaderState
      /\ Advanced(x).status = rd[x].status /\ Advanced(x).conn = rd[x].conn
      /\ \A rec \in ReaderState :
           ClosedConn(rec) \in ReaderState
           /\ ClosedConn(rec).status = rec.status /\ ClosedConn(rec).conn = "closed"
  BY ReaderParts DEF TypeOK
<1>2. ASSUME rd'[r] = rd[r]
      PROVE  Keeps(r)
  BY <1>2 DEF Keeps, ConnOfStatus
<1>3. CASE \E off \in StartOffset, answered \in BOOLEAN : NewReader(x, off, answered)
  BY <1>1, <1>3 DEF NewReader, Keeps, ConnOfStatus, ReaderState
<1>4. CASE PSubscribed(x)
  BY <1>1, <1>4 DEF PSubscribed, Keeps, ConnOfStatus, ReaderState
<1>5. CASE \E n \in 0..Len(rd[x].queue) : ConnLost(x, n)
  <2>1. PICK q : rd' = [rd EXCEPT ![x].conn = "lost", ![x].queue = q]
    BY <1>5 DEF ConnLost
  <2>2. rd[x].status = "reading" /\ rd[x].conn \in {"sent", "subscribed"}
    BY <1>5 DEF ConnLost
  <2>3. rd'[r].status = rd[r].status /\ (r # x => rd'[r].conn = rd[r].conn)
    BY <1>1, <2>1 DEF ReaderState
  <2> QED
    BY <2>2, <2>3 DEF Keeps, ConnOfStatus
<1>6. CASE Replay(x)
  <2> DEFINE q == [Advanced(x) EXCEPT
                 !.replayed = CaughtUp(x),
                 !.covered = (rd[x].conn # "sent"),
                 !.status = IF FetchEOF(x) THEN "eof" ELSE @,
                 !.owed = IF FetchEOF(x) THEN Len(str) ELSE @]
  <2>1. rd' = [rd EXCEPT ![x] = q] /\ rd[x].status = "reading"
    BY <1>6 DEF Replay
  <2>2. q.conn = rd[x].conn /\ q.status \in {"reading", "eof"}
    BY <1>1, <2>1 DEF ReaderState
  <2> HIDE DEF q
  <2> QED
    BY <1>1, <2>1, <2>2 DEF Keeps, ConnOfStatus
<1>7. CASE Receive(x)
  <2> DEFINE next == [Advanced(x) EXCEPT !.queue = Tail(@)]
             q == [ClosedConn(next) EXCEPT
                     !.status = "eof",
                     !.owed = IF Head(rd[x].queue).ch = "kill"
                                THEN Head(rd[x].queue).len ELSE Len(str)]
  <2>1. /\ rd' = [rd EXCEPT ![x] = q] \/ rd' = [rd EXCEPT ![x] = next]
        /\ rd[x].status = "reading"
    BY <1>7 DEF Receive
  <2>2. next.conn = rd[x].conn /\ next.status = "reading"
    BY <1>1, <2>1 DEF ReaderState
  <2>3. q.conn = "closed" /\ q.status = "eof"
    BY <1>1 DEF ClosedConn, ReaderState
  <2> HIDE DEF q, next
  <2> QED
    BY <1>1, <2>1, <2>2, <2>3 DEF Keeps, ConnOfStatus
<1>8. CASE ReceiveOther(x)
  <2>1. rd'[r].status = rd[r].status /\ rd'[r].conn = rd[r].conn
    BY <1>1, <1>8 DEF ReceiveOther, ReaderState
  <2> QED
    BY <2>1 DEF Keeps, ConnOfStatus
<1>9. CASE ReceiveError(x)
  BY <1>1, <1>9 DEF ReceiveError, Keeps, ConnOfStatus, ReaderState
<1>10. CASE CloseReader(x)
  <2> DEFINE q == [ClosedConn(rd[x]) EXCEPT
                     !.status = IF rd[x].status = "reading" THEN "closed" ELSE rd[x].status]
  <2>1. rd' = [rd EXCEPT ![x] = q] /\ rd[x].status \in {"reading", "eof", "error"}
    BY <1>10 DEF CloseReader
  <2>2. q.conn = "closed" /\ q.status \in {"closed", "eof", "error"}
    BY <1>1, <2>1 DEF ClosedConn, ReaderState
  <2> HIDE DEF q
  <2> QED
    BY <1>1, <2>1, <2>2 DEF Keeps, ConnOfStatus
<1>11. CASE RenewExpiry(x) \/ LateFetch(x)
  BY <1>2, <1>11 DEF RenewExpiry, LateFetch
<1> QED
  BY <1>3, <1>4, <1>5, <1>6, <1>7, <1>8, <1>9, <1>10, <1>11 DEF ReaderStep, ReadStep

\* Every step of the broker, as r sees it.
LEMMA BrokerStepKeeps ==
  ASSUME TypeOK, NEW r \in Reader, [Next]_vars, ConnOfStatus(r)
  PROVE  Keeps(r)
<1>1. rd \in [Reader -> ReaderState] /\ rd[r] \in ReaderState
  BY DEF TypeOK
<1>2. ASSUME UNCHANGED rd
      PROVE  Keeps(r)
  BY <1>2 DEF Keeps, ConnOfStatus
<1>3. ASSUME NEW ch, NEW len, rd' = Published(ch, len)
      PROVE  Keeps(r)
  <2>1. rd'[r].conn = rd[r].conn /\ rd'[r].status = rd[r].status
    BY <1>1, <1>3 DEF Published, ReaderState
  <2> QED
    BY <2>1 DEF Keeps, ConnOfStatus
<1>4. CASE UNCHANGED vars
  BY <1>2, <1>4 DEF vars
<1>5. CASE Register
  BY <1>2, <1>5 DEF Register
<1>6. CASE OtherPublish
  BY <1>3, <1>6 DEF OtherPublish
<1>7. CASE FetchPanics
  <2>1. /\ rd[r].status = "reading" => rd'[r] = [ClosedConn(rd[r]) EXCEPT !.status = "closed"]
        /\ rd[r].status \in {"eof", "error"} => rd'[r] = ClosedConn(rd[r])
        /\ rd[r].status \in {"new", "refused", "closed"} => rd'[r] = rd[r]
    BY <1>1, <1>7 DEF FetchPanics
  <2>2. [ClosedConn(rd[r]) EXCEPT !.status = "closed"].status = "closed"
        /\ [ClosedConn(rd[r]) EXCEPT !.status = "closed"].conn = "closed"
        /\ ClosedConn(rd[r]).status = rd[r].status /\ ClosedConn(rd[r]).conn = "closed"
    BY <1>1 DEF ClosedConn, ReaderState
  <2>3. rd[r].status \in {"new", "refused", "reading", "eof", "error", "closed"}
    BY <1>1 DEF ReaderState
  <2> QED
    BY <2>1, <2>2, <2>3 DEF Keeps, ConnOfStatus
<1>8. CASE Tick
  BY <1>2, <1>8 DEF Tick
<1>9. ASSUME NEW w \in Writer, WriterStep(w)
      PROVE  Keeps(r)
  <2>1. CASE \E answered \in BOOLEAN : NewWriter(w, answered)
    BY <1>2, <2>1 DEF NewWriter
  <2>2. CASE \E p \in Chunk, replied \in BOOLEAN : Write(w, p, replied)
    BY <1>3, <2>2 DEF Write
  <2>3. CASE WriteFails(w)
    BY <1>2, <2>3 DEF WriteFails
  <2>4. CASE CloseWriter(w)
    BY <1>3, <2>4 DEF CloseWriter
  <2>5. CASE CloseLost(w)
    BY <1>2, <2>5 DEF CloseLost
  <2> QED
    BY <1>9, <2>1, <2>2, <2>3, <2>4, <2>5 DEF WriterStep
<1> QED
  BY <1>4, <1>5, <1>6, <1>7, <1>8, <1>9, ReaderStepKeeps DEF Next

\* A step that leaves alone what ClosedInv reads of r's request.
SameStanding(r) ==
  /\ req'[r].phase = req[r].phase
  /\ req'[r].answer = req[r].answer
  /\ req'[r].sse = req[r].sse

\* What a step makes of r's standing.
LEMMA Standing ==
  ASSUME TypeOK, SubTypeOK, ClosedInv, [SubNext]_subVars, NEW r \in Reader
  PROVE  \/ SameStanding(r)
         \/ req'[r].phase # "over" /\ rd'[r].status # "new"
         \/ req'[r].phase # "over" /\ req[r].phase # "new"
         \/ req'[r].answer # "200" /\ req[r].phase # "new"
         \/ req[r].phase # "new" /\ req'[r].sse = req[r].sse /\ CloseSource(r)
         \/ Panic
<1>1. req \in [Reader -> Request] /\ req[r] \in Request
  BY DEF SubTypeOK
<1>2. ASSUME UNCHANGED req
      PROVE  SameStanding(r)
  BY <1>2 DEF SameStanding
<1>3. CASE UNCHANGED subVars
  BY <1>2, <1>3 DEF subVars
<1>4. CASE Around
  BY <1>2, <1>4 DEF Around
<1>5. ASSUME NEW x \in Reader, x # r, HandlerStep(x) \/ GoStep(x) \/ ClientLeaves(x)
      PROVE  SameStanding(r)
  <2>1. req'[r] = req[r]
    BY <1>1, <1>5 DEF HandlerStep, GoStep, GoOn, ClientLeaves, OpenSub, AskDone, AskLength,
                      GetBlob, Take, Heartbeat, NoticeGone, GoEnter, GoRead, GoReadClosed,
                      GoReadLate, GoReadBlob, GoSend, Holding
  <2> QED
    BY <2>1 DEF SameStanding
<1>6. ASSUME NEW off \in StartOffset, NEW sse \in BOOLEAN, NEW answered \in BOOLEAN,
             OpenSub(r, off, sse, answered)
      PROVE  req'[r].phase # "over" /\ rd'[r].status # "new"
  <2>1. req'[r].phase \in {"done?", "get"}
    BY <1>1, <1>6 DEF OpenSub, Request
  <2>2. rd'[r].status \in {"reading", "refused"}
    BY <1>6 DEF OpenSub, NewReader, TypeOK, ReaderState
  <2> QED
    BY <2>1, <2>2
<1>7. /\ Copying(req[r]).phase # "over"
      /\ \A status \in {"204", "404", "416", "500"} : Answered(req[r], status).answer # "200"
  BY <1>1 DEF Copying, Answered, Request
<1>8. ASSUME NEW answered \in BOOLEAN, AskDone(r, answered) \/ AskLength(r, answered)
      PROVE  /\ req[r].phase # "new"
             /\ req'[r].phase # "over" \/ req'[r].answer # "200"
  <2>1. CASE AskDone(r, answered)
    BY <1>1, <1>7, <2>1 DEF AskDone, Request
  <2>2. CASE AskLength(r, answered)
    BY <1>1, <1>7, <2>2 DEF AskLength
  <2> QED
    BY <1>8, <2>1, <2>2
<1>9. ASSUME NEW res \in {"2xx", "404", "416", "5xx", "error"}, GetBlob(r, res)
      PROVE  /\ req[r].phase # "new"
             /\ req'[r].phase # "over" \/ req'[r].answer # "200"
  <2>1. req[r].phase = "get"
    BY <1>9 DEF GetBlob
  <2>2. CASE req' = [req EXCEPT ![r] = Copying(@)]
    <3>1. req'[r] = Copying(req[r])
      BY <1>1, <2>2
    <3> QED
      BY <1>7, <2>1, <3>1
  <2>3. ASSUME NEW status \in {"404", "416", "500"}, req' = [req EXCEPT ![r] = Answered(@, status)]
        PROVE  req'[r].answer # "200"
    <3>1. req'[r] = Answered(req[r], status)
      BY <1>1, <2>3
    <3> QED
      BY <1>7, <3>1
  <2>4. CASE req' = [req EXCEPT ![r].left = @ - 1]
    <3>1. req'[r].phase = req[r].phase
      BY <1>1, <2>4 DEF Request
    <3> QED
      BY <2>1, <3>1
  <2>5. \/ req' = [req EXCEPT ![r] = Copying(@)]
        \/ \E status \in {"404", "416", "500"} : req' = [req EXCEPT ![r] = Answered(@, status)]
        \/ req' = [req EXCEPT ![r].left = @ - 1]
    BY <1>9 DEF GetBlob
  <2> QED
    BY <2>1, <2>2, <2>3, <2>4, <2>5
<1>10. CASE Take(r)
  <2> DEFINE next == [req[r] EXCEPT !.ch = Tail(@), !.sent = @ \o Copied(Head(req[r].ch))]
             last == Over(next, Head(req[r].ch).err)
  <2>1. next.phase = req[r].phase /\ next.answer = req[r].answer /\ next.sse = req[r].sse
    BY <1>1 DEF Request
  <2>2. last.sse = req[r].sse
    BY <1>1 DEF Over, Request
  <2>3. \/ req' = [req EXCEPT ![r] = next]
        \/ req' = [req EXCEPT ![r] = last] /\ CloseSource(r)
    BY <1>10 DEF Take
  <2>4. req[r].phase # "new"
    BY <1>10 DEF Take
  <2> HIDE DEF next, last
  <2> QED
    BY <1>1, <2>1, <2>2, <2>3, <2>4 DEF SameStanding
<1>11. CASE NoticeGone(r)
  <2>1. req[r].phase # "new" /\ CloseSource(r)
    BY <1>11 DEF NoticeGone
  <2>2. PICK rest : req' = [req EXCEPT ![r] = [Over(req[r], "gone") EXCEPT !.ch = rest]]
    BY <1>11 DEF NoticeGone
  <2>3. req'[r].sse = req[r].sse
    BY <1>1, <2>2 DEF Over, Request
  <2> QED
    BY <2>1, <2>3
<1>12. CASE Heartbeat(r)
  BY <1>2, <1>12 DEF Heartbeat
<1>13. ASSUME GoStep(r) \/ ClientLeaves(r)
       PROVE  SameStanding(r)
  <2>1. ASSUME NEW payload, Holding(r, payload)
        PROVE  SameStanding(r)
    BY <1>1, <2>1 DEF Holding, SameStanding, Request
  <2>2. CASE GoRead(r)
    BY <1>2, <2>1, <2>2 DEF GoRead
  <2>3. CASE GoReadClosed(r)
    BY <2>1, <2>3 DEF GoReadClosed
  <2>4. CASE \E err \in {"none", "eof", "error"} : GoReadBlob(r, err)
    BY <2>1, <2>4 DEF GoReadBlob
  <2>5. CASE GoSend(r)
    BY <1>1, <2>5 DEF GoSend, SameStanding, Request
  <2>6. CASE ClientLeaves(r)
    BY <1>1, <2>6 DEF ClientLeaves, SameStanding, Request
  <2>7. CASE GoEnter(r)
    BY <1>1, <2>7 DEF GoEnter, SameStanding, Request
  <2>8. CASE GoReadLate(r)
    BY <2>1, <2>8 DEF GoReadLate
  <2> QED
    BY <1>13, <2>2, <2>3, <2>4, <2>5, <2>6, <2>7, <2>8 DEF GoStep, GoOn
<1>14. CASE HandlerStep(r)
  BY <1>6, <1>8, <1>9, <1>10, <1>11, <1>12, <1>14 DEF HandlerStep
<1> QED
  BY <1>3, <1>4, <1>5, <1>13, <1>14 DEF SubNext

\* Every step keeps ClosedInv.
LEMMA ClosedNext ==
  ASSUME TypeOK, SubTypeOK, ClosedInv, [SubNext]_subVars
  PROVE  ClosedInv'
<1> SUFFICES ASSUME NEW r \in Reader
             PROVE  /\ ConnOfStatus(r)'
                    /\ req'[r].phase # "new" => rd'[r].status # "new"
                    /\ MustBeClosed(r)' => rd'[r].conn \in {"none", "closed"}
  BY DEF ClosedInv
<1>1. /\ ConnOfStatus(r)
      /\ req[r].phase # "new" => rd[r].status # "new"
      /\ MustBeClosed(r) => rd[r].conn \in {"none", "closed"}
  BY DEF ClosedInv
<1>2. Keeps(r)
  BY <1>1, StepRefines, BrokerStepKeeps
<1>3. CASE SameStanding(r)
  BY <1>1, <1>2, <1>3 DEF SameStanding, Keeps, MustBeClosed
<1>4. CASE req'[r].phase # "over" /\ rd'[r].status # "new"
  BY <1>2, <1>4 DEF Keeps, MustBeClosed
<1>5. CASE req[r].phase # "new" /\ (req'[r].phase # "over" \/ req'[r].answer # "200")
  BY <1>1, <1>2, <1>5 DEF Keeps, MustBeClosed
<1>6. CASE req[r].phase # "new" /\ req'[r].sse = req[r].sse /\ CloseSource(r)
  <2> SUFFICES ASSUME MustBeClosed(r)'
               PROVE  rd'[r].conn \in {"none", "closed"}
    BY <1>1, <1>2, <1>6 DEF Keeps
  <2>1. ~req[r].sse
    BY <1>6 DEF MustBeClosed
  <2>2. CASE ~FromBroker(r) \/ rd[r].conn = "closed"
    BY <1>1, <1>2, <1>6, <2>2 DEF FromBroker, ConnOfStatus, Keeps
  <2>3. CASE CloseReader(r)
    BY <2>3, ReaderParts DEF CloseReader, TypeOK, ReaderState
  <2> QED
    BY <1>6, <2>1, <2>2, <2>3 DEF CloseSource
<1>7. CASE Panic
  <2>1. req'[r].phase # "new" => req[r].phase # "new"
    BY <1>7 DEF Panic
  <2>2. rd'[r].conn \in {"none", "closed"}
    <3>1. rd[r] \in ReaderState
      BY DEF TypeOK
    <3>2. /\ rd[r].status = "reading" => rd'[r] = [ClosedConn(rd[r]) EXCEPT !.status = "closed"]
          /\ rd[r].status \in {"eof", "error"} => rd'[r] = ClosedConn(rd[r])
          /\ rd[r].status \in {"new", "refused", "closed"} => rd'[r] = rd[r]
      BY <1>7 DEF Panic, FetchPanics
    <3>3. /\ [ClosedConn(rd[r]) EXCEPT !.status = "closed"].conn = "closed"
          /\ ClosedConn(rd[r]).conn = "closed"
          /\ rd[r].status \in {"new", "refused", "reading", "eof", "error", "closed"}
      BY <3>1 DEF ClosedConn, ReaderState
    <3> QED
      BY <1>1, <3>2, <3>3 DEF ConnOfStatus
  <2> QED
    BY <1>1, <1>2, <2>1, <2>2 DEF Keeps
<1> QED
  BY <1>3, <1>4, <1>5, <1>6, <1>7, Standing

\* ClosedInv holds at the start.
LEMMA ClosedInit == SubInit => ClosedInv
BY DEF SubInit, Init, ClosedInv, ConnOfStatus, MustBeClosed, NewRequest, NewReaderState

(***************************************************************************)
(* Requests stay well typed, and no channel holds more than ChanCap.       *)
(***************************************************************************)
THEOREM SubTypeCorrect == SubSpec => []SubTypeOK
<1>1. SubInit => TypeOK /\ SubTypeOK
  BY TypeInit, SubTypeInit DEF SubInit
<1>2. TypeOK /\ SubTypeOK /\ [SubNext]_subVars => TypeOK' /\ SubTypeOK'
  BY StepRefines, TypeNext, SubTypeNext
<1> QED
  BY <1>1, <1>2, PTL DEF SubSpec

(***************************************************************************)
(* The handler of a request that was answered 200 and does not use SSE     *)
(* leaves no subscription behind, whichever way it ends.                   *)
(***************************************************************************)
THEOREM NoSubscriptionLeft == SubSpec => []ClosedWithRequest
<1>1. SubInit => TypeOK /\ SubTypeOK /\ ClosedInv
  BY TypeInit, SubTypeInit, ClosedInit DEF SubInit
<1>2. /\ TypeOK /\ SubTypeOK /\ ClosedInv /\ [SubNext]_subVars
      => TypeOK' /\ SubTypeOK' /\ ClosedInv'
  BY StepRefines, TypeNext, SubTypeNext, ClosedNext
<1>3. ClosedInv => ClosedWithRequest
  BY DEF ClosedInv, MustBeClosed, ClosedWithRequest
<1> QED
  BY <1>1, <1>2, <1>3, PTL DEF SubSpec

-----------------------------------------------------------------------------
(* What is on its way from the broker's reader to the client.              *)

\* What the client has, what waits in the channel and what the goroutine holds
\* are the pieces, cut at pos, of what the reader has handed over.
InFlight(sent, ch, p, out) ==
  \E pos \in [1..(Len(ch) + 1) -> 0..Len(out)] :
    /\ pos[1] = Len(sent)
    /\ \A i \in 1..Len(ch) :
         pos[i] <= pos[i + 1] /\ ch[i].p = SubSeq(out, pos[i] + 1, pos[i + 1])
    /\ p = SubSeq(out, pos[Len(ch) + 1] + 1, Len(out))

\* The client has the first bytes of what the reader has handed over.
Begins(sent, out) == Len(sent) <= Len(out) /\ sent = SubSeq(out, 1, Len(sent))

\* Cuts, one more cut, and one less.
LEMMA CutsIn ==
  ASSUME NEW n \in Nat, NEW m \in Nat, NEW pos \in [1..n -> 0..m]
  PROVE  \A i \in 1..n : pos[i] \in 0..m
OBVIOUS

LEMMA CutsAppended ==
  ASSUME NEW n \in Nat, NEW m \in Nat, NEW pos \in [1..n -> 0..m]
  PROVE  \E new \in [1..(n + 1) -> 0..m] :
           new[n + 1] = m /\ \A i \in 1..n : new[i] = pos[i]
<1> DEFINE new == [i \in 1..(n + 1) |-> IF i <= n THEN pos[i] ELSE m]
<1>1. new \in [1..(n + 1) -> 0..m]
  OBVIOUS
<1>2. new[n + 1] = m /\ \A i \in 1..n : new[i] = pos[i]
  OBVIOUS
<1> QED
  BY <1>1, <1>2

LEMMA CutsTail ==
  ASSUME NEW n \in Nat, NEW m \in Nat, NEW pos \in [1..(n + 1) -> 0..m]
  PROVE  \E new \in [1..n -> 0..m] : \A i \in 1..n : new[i] = pos[i + 1]
<1> DEFINE new == [i \in 1..n |-> pos[i + 1]]
<1>1. new \in [1..n -> 0..m]
  OBVIOUS
<1>2. \A i \in 1..n : new[i] = pos[i + 1]
  OBVIOUS
<1> QED
  BY <1>1, <1>2

LEMMA PieceKept ==
  ASSUME NEW out \in Seq(Byte), NEW g \in Seq(Byte),
         NEW a \in 0..Len(out), NEW b \in a..Len(out)
  PROVE  SubSeq(out \o g, a + 1, b) = SubSeq(out, a + 1, b)
<1>1. CASE a = b
  BY <1>1, SubSeqEmpty
<1>2. CASE a # b
  BY <1>2, SubSeqOfConcat1
<1> QED
  BY <1>1, <1>2

LEMMA PieceEmpty ==
  ASSUME NEW out \in Seq(Byte), NEW a \in 0..Len(out), SubSeq(out, a + 1, Len(out)) = << >>
  PROVE  a = Len(out)
<1>1. Len(SubSeq(out, a + 1, Len(out))) = IF a + 1 <= Len(out) THEN Len(out) - (a + 1) + 1 ELSE 0
  <2>1. \A i \in (a + 1)..Len(out) : out[i] \in Byte
    OBVIOUS
  <2> QED
    BY <2>1, SubSeqProperties
<1> QED
  BY <1>1

\* The rest of what has been read.
LEMMA PieceLast ==
  ASSUME NEW out \in Seq(Byte), NEW g \in Seq(Byte)
  PROVE  SubSeq(out \o g, Len(out) + 1, Len(out \o g)) = g
<1>1. Len(out \o g) = Len(out) + Len(g) /\ out \o g \in Seq(Byte)
  BY ConcatProperties
<1>2. CASE g = << >>
  BY <1>1, <1>2, SubSeqEmpty
<1>3. CASE g # << >>
  <2>1. Len(g) \in Nat /\ Len(g) >= 1
    BY <1>3
  <2>2. SubSeq(out \o g, Len(out) + 1, Len(out) + Len(g)) = SubSeq(g, 1, Len(g))
    BY <2>1, SubSeqOfConcat2
  <2> QED
    BY <1>1, <2>2, SubSeqFull
<1> QED
  BY <1>2, <1>3

LEMMA BeginsKept ==
  ASSUME NEW sent \in Seq(Byte), NEW out \in Seq(Byte), NEW g \in Seq(Byte), Begins(sent, out)
  PROVE  Begins(sent, out \o g)
<1>1. Len(out \o g) = Len(out) + Len(g)
  BY ConcatProperties
<1>2. SubSeq(out \o g, 0 + 1, Len(sent)) = SubSeq(out, 0 + 1, Len(sent))
  BY PieceKept DEF Begins
<1> QED
  BY <1>1, <1>2 DEF Begins

\* The copy begins.
LEMMA NothingInFlight == InFlight(<< >>, << >>, << >>, << >>)
<1> DEFINE pos == [i \in 1..1 |-> 0]
<1>1. pos \in [1..(Len(<< >>) + 1) -> 0..Len(<< >>)] /\ pos[1] = 0
  OBVIOUS
<1>2. << >> = SubSeq(<< >>, 0 + 1, 0)
  BY SubSeqEmpty
<1> HIDE DEF pos
<1> QED
  BY <1>1, <1>2 DEF InFlight

\* The goroutine has read g.
LEMMA FlightReads ==
  ASSUME NEW sent \in Seq(Byte), NEW ch \in Seq(Payload), NEW out \in Seq(Byte),
         NEW g \in Seq(Byte), NEW p \in Seq(Byte), p = << >>, InFlight(sent, ch, p, out)
  PROVE  InFlight(sent, ch, g, out \o g)
<1>1. PICK pos \in [1..(Len(ch) + 1) -> 0..Len(out)] :
        /\ pos[1] = Len(sent)
        /\ \A i \in 1..Len(ch) :
             pos[i] <= pos[i + 1] /\ ch[i].p = SubSeq(out, pos[i] + 1, pos[i + 1])
        /\ p = SubSeq(out, pos[Len(ch) + 1] + 1, Len(out))
  BY DEF InFlight
<1>2. /\ Len(ch) \in Nat /\ Len(out) \in Nat
      /\ \A i \in 1..(Len(ch) + 1) : pos[i] \in 0..Len(out)
  <2>1. Len(ch) + 1 \in Nat /\ Len(out) \in Nat
    OBVIOUS
  <2> QED
    BY <2>1, CutsIn
<1>3. pos[Len(ch) + 1] = Len(out)
  BY <1>1, <1>2, PieceEmpty
<1>4. Len(out \o g) = Len(out) + Len(g) /\ Len(g) \in Nat /\ Len(out) \in Nat
  BY ConcatProperties
<1>5. ASSUME NEW i \in 1..Len(ch)
      PROVE  pos[i] <= pos[i + 1] /\ ch[i].p = SubSeq(out \o g, pos[i] + 1, pos[i + 1])
  <2>1. pos[i] \in 0..Len(out) /\ pos[i + 1] \in pos[i]..Len(out)
    BY <1>1, <1>2
  <2> QED
    BY <1>1, <2>1, PieceKept
<1>6. g = SubSeq(out \o g, pos[Len(ch) + 1] + 1, Len(out \o g))
  BY <1>3, PieceLast
<1>7. pos \in [1..(Len(ch) + 1) -> 0..Len(out \o g)]
  BY <1>4
<1> QED
  BY <1>1, <1>5, <1>6, <1>7 DEF InFlight

\* The goroutine sends what it holds.
LEMMA FlightSends ==
  ASSUME NEW sent \in Seq(Byte), NEW ch \in Seq(Payload), NEW held \in Payload,
         NEW out \in Seq(Byte), NEW p, p = held.p, InFlight(sent, ch, p, out)
  PROVE  InFlight(sent, Append(ch, held), << >>, out)
<1>1. PICK pos \in [1..(Len(ch) + 1) -> 0..Len(out)] :
        /\ pos[1] = Len(sent)
        /\ \A i \in 1..Len(ch) :
             pos[i] <= pos[i + 1] /\ ch[i].p = SubSeq(out, pos[i] + 1, pos[i + 1])
        /\ p = SubSeq(out, pos[Len(ch) + 1] + 1, Len(out))
  BY DEF InFlight
<1> DEFINE c == Append(ch, held)
           n == Len(ch)
<1>2. /\ Len(c) = n + 1 /\ n \in Nat /\ Len(out) \in Nat
      /\ \A i \in 1..n : c[i] = ch[i]
      /\ c[n + 1] = held
  BY AppendProperties
<1> HIDE DEF c
<1>3. PICK new \in [1..(n + 1 + 1) -> 0..Len(out)] :
        new[n + 1 + 1] = Len(out) /\ \A i \in 1..(n + 1) : new[i] = pos[i]
  <2>1. n + 1 \in Nat /\ Len(out) \in Nat
    BY <1>2
  <2> QED
    BY <2>1, CutsAppended
<1>8. \A i \in 1..(n + 1) : pos[i] \in 0..Len(out)
  <2>1. n + 1 \in Nat /\ Len(out) \in Nat
    BY <1>2
  <2> QED
    BY <2>1, CutsIn
<1>4. ASSUME NEW i \in 1..(n + 1)
      PROVE  new[i] <= new[i + 1] /\ c[i].p = SubSeq(out, new[i] + 1, new[i + 1])
  <2>1. CASE i \in 1..n
    <3>1. i + 1 \in 1..(n + 1)
      BY <1>2, <2>1
    <3>2. new[i] = pos[i] /\ new[i + 1] = pos[i + 1] /\ c[i] = ch[i]
      BY <1>2, <1>3, <2>1, <3>1
    <3> QED
      BY <1>1, <2>1, <3>2
  <2>2. CASE i = n + 1
    <3>1. /\ new[i] = pos[n + 1] /\ new[i + 1] = Len(out) /\ c[i] = held
          /\ pos[n + 1] \in 0..Len(out)
      BY <1>2, <1>3, <1>8, <2>2
    <3>2. c[i].p = SubSeq(out, new[i] + 1, new[i + 1])
      BY <1>1, <3>1, Zenon
    <3>3. new[i] <= new[i + 1]
      BY <1>2, <3>1
    <3> QED
      BY <3>2, <3>3
  <2> QED
    BY <1>2, <2>1, <2>2
<1>5. << >> = SubSeq(out, new[n + 1 + 1] + 1, Len(out))
  BY <1>2, <1>3, SubSeqEmpty
<1>6. new[1] = Len(sent)
  BY <1>1, <1>2, <1>3
<1>7. InFlight(sent, c, << >>, out)
  BY <1>2, <1>3, <1>4, <1>5, <1>6 DEF InFlight
<1> QED
  BY <1>7 DEF c

\* The handler copies the first payload to the client.
LEMMA FlightTaken ==
  ASSUME NEW sent \in Seq(Byte), NEW ch \in Seq(Payload), ch # << >>, NEW p,
         NEW out \in Seq(Byte), InFlight(sent, ch, p, out), Begins(sent, out)
  PROVE  /\ InFlight(sent \o Head(ch).p, Tail(ch), p, out)
         /\ Begins(sent \o Head(ch).p, out)
         /\ (Len(ch) = 1 /\ p = << >>) => Len(sent \o Head(ch).p) = Len(out)
<1>1. PICK pos \in [1..(Len(ch) + 1) -> 0..Len(out)] :
        /\ pos[1] = Len(sent)
        /\ \A i \in 1..Len(ch) :
             pos[i] <= pos[i + 1] /\ ch[i].p = SubSeq(out, pos[i] + 1, pos[i + 1])
        /\ p = SubSeq(out, pos[Len(ch) + 1] + 1, Len(out))
  BY DEF InFlight
<1> DEFINE c == Tail(ch)
           n == Len(ch)
           s == sent \o Head(ch).p
<1>2. /\ n \in Nat /\ n >= 1 /\ Len(c) = n - 1 /\ Head(ch) = ch[1] /\ Len(out) \in Nat
      /\ \A i \in 1..(n - 1) : c[i] = ch[i + 1]
  BY HeadTailProperties
<1>3. \A i \in 1..(n + 1) : pos[i] \in 0..Len(out)
  <2>1. n + 1 \in Nat /\ Len(out) \in Nat
    BY <1>2
  <2> QED
    BY <2>1, CutsIn
<1>4. s = SubSeq(out, 1, pos[2]) /\ Len(s) = pos[2]
  <2>1. Head(ch).p = SubSeq(out, pos[1] + 1, pos[2]) /\ pos[1] \in 0..Len(out)
        /\ pos[2] \in pos[1]..Len(out)
    <3>1. 1 \in 1..n /\ 1 \in 1..(n + 1) /\ 1 + 1 \in 1..(n + 1) /\ 1 + 1 = 2
      BY <1>2
    <3>2. pos[1] <= pos[1 + 1] /\ ch[1].p = SubSeq(out, pos[1] + 1, pos[1 + 1])
      BY <1>1, <3>1, Zenon
    <3>3. pos[1] \in 0..Len(out) /\ pos[1 + 1] \in 0..Len(out)
      BY <1>3, <3>1, Zenon
    <3>4. pos[1 + 1] \in pos[1]..Len(out)
      BY <1>2, <3>2, <3>3
    <3>5. Head(ch).p = SubSeq(out, pos[1] + 1, pos[1 + 1])
      BY <1>2, <3>2, Zenon
    <3> QED
      BY <3>1, <3>3, <3>4, <3>5, Zenon
  <2>2. sent = SubSeq(out, 1, pos[1])
    BY <1>1 DEF Begins
  <2>3. SubSeq(out, 1, pos[1]) \o SubSeq(out, pos[1] + 1, pos[2]) = SubSeq(out, 1, pos[2])
    <3>1. 1 \in 1..(Len(out) + 1) /\ pos[1] \in (1 - 1)..Len(out) /\ pos[2] \in pos[1]..Len(out)
      BY <1>2, <2>1
    <3> QED
      BY <3>1, ConcatAdjacentSubSeq
  <2>4. s = SubSeq(out, 1, pos[2])
    BY <2>1, <2>2, <2>3
  <2>5. \A i \in 1..pos[2] : out[i] \in Byte
    BY <2>1
  <2>6. Len(SubSeq(out, 1, pos[2])) = IF 1 <= pos[2] THEN pos[2] - 1 + 1 ELSE 0
    BY <2>1, <2>5, SubSeqProperties
  <2>7. Len(s) = IF 1 <= pos[2] THEN pos[2] - 1 + 1 ELSE 0
    BY <2>4, <2>6, Zenon
  <2>8. Len(s) = pos[2]
    <3>1. pos[2] \in Nat
      BY <1>2, <2>1
    <3> HIDE DEF s
    <3> QED
      BY <3>1, <2>7
  <2> QED
    BY <2>4, <2>8
<1> HIDE DEF c, s
<1>8. PICK new \in [1..n -> 0..Len(out)] : \A i \in 1..n : new[i] = pos[i + 1]
  BY <1>2, CutsTail
<1>5. Begins(s, out)
  BY <1>2, <1>3, <1>4 DEF Begins
<1>6. InFlight(s, c, p, out)
  <2>1. new \in [1..(Len(c) + 1) -> 0..Len(out)] /\ new[1] = Len(s) /\ Len(c) + 1 = n
    BY <1>2, <1>4, <1>8
  <2>2. ASSUME NEW i \in 1..Len(c)
        PROVE  new[i] <= new[i + 1] /\ c[i].p = SubSeq(out, new[i] + 1, new[i + 1])
    <3>1. i \in 1..(n - 1) /\ i + 1 \in 1..n
      BY <1>2
    <3>2. new[i] = pos[i + 1] /\ new[i + 1] = pos[i + 1 + 1] /\ c[i] = ch[i + 1]
      BY <1>2, <1>8, <3>1
    <3>3. /\ pos[i + 1] <= pos[i + 1 + 1]
          /\ ch[i + 1].p = SubSeq(out, pos[i + 1] + 1, pos[i + 1 + 1])
      BY <1>1, <3>1, Zenon
    <3>4. new[i] <= new[i + 1]
      BY <3>2, <3>3, Zenon
    <3>5. c[i].p = SubSeq(out, new[i] + 1, new[i + 1])
      BY <3>2, <3>3, Zenon
    <3> QED
      BY <3>4, <3>5
  <2>3. p = SubSeq(out, new[Len(c) + 1] + 1, Len(out))
    <3>1. Len(c) + 1 = n /\ n \in 1..n
      BY <1>2
    <3>2. new[n] = pos[n + 1]
      BY <1>8, <3>1
    <3> QED
      BY <1>1, <3>1, <3>2, Zenon
  <2> QED
    BY <2>1, <2>2, <2>3 DEF InFlight
<1>7. (n = 1 /\ p = << >>) => Len(s) = Len(out)
  <2> SUFFICES ASSUME n = 1, p = << >>
               PROVE  pos[2] = Len(out)
    BY <1>4
  <2> QED
    BY <1>1, <1>3, PieceEmpty
<1> QED
  BY <1>5, <1>6, <1>7 DEF c, s

-----------------------------------------------------------------------------
(* What a request has, and its reader.                                     *)

\* Nothing has been read before the copy begins, and the reader is not closed
\* before the handler is over.
PhaseInv(r) ==
  /\ req[r].phase = "new" <=> rd[r].status = "new"
  /\ req[r].phase \in {"new", "done?", "length?", "get"} =>
       /\ req[r].go = "none" /\ req[r].held = NoPayload /\ req[r].ch = << >>
       /\ req[r].sent = << >> /\ rd[r].out = << >> /\ req[r].end = "none"
  /\ rd[r].status = "closed" => req[r].phase = "over"
  /\ req[r].go # "sending" => req[r].held = NoPayload

\* Nothing is lost, doubled or turned round on the way to the client.
FlowInv(r) ==
  /\ Begins(req[r].sent, rd[r].out)
  /\ req[r].phase = "copy" =>
       /\ req[r].go # "none"
       /\ InFlight(req[r].sent, req[r].ch, req[r].held.p, rd[r].out)

\* A payload with an error is the last one.
LastIsError(q) ==
  \A i \in 1..Len(q.ch) : q.ch[i].err # "none" => i = Len(q.ch) /\ q.go = "ended"

\* An end on its way to the client.
EndUnderWay(q) == q.held.err = "eof" \/ \E i \in 1..Len(q.ch) : q.ch[i].err = "eof"

\* The end comes behind everything that the reader has handed over.
EndInv(r) ==
  /\ req[r].phase = "copy" =>
       /\ LastIsError(req[r])
       /\ EndUnderWay(req[r]) => rd[r].status \in {"eof", "refused"}
  /\ req[r].end = "eof" =>
       /\ req[r].phase = "over" /\ rd[r].status \in {"eof", "refused"}
       /\ Len(req[r].sent) = Len(rd[r].out)

\* The length that was asked for first, as long as nothing is discarded.
SeenInv(r) ==
  req[r].phase = "length?" =>
    /\ req[r].seen.epoch <= epoch
    /\ req[r].seen.epoch = epoch => req[r].seen.len <= Len(str)

OwnInv(r) == PhaseInv(r) /\ FlowInv(r) /\ EndInv(r)

Typed == TypeOK /\ SubTypeOK

\* What a step of reader.Read does.
LEMMA ReadStepSees ==
  ASSUME TypeOK, NEW r \in Reader, ReadStep(r)
  PROVE  /\ rd[r].status = "reading"
         /\ rd'[r].status \in {"reading", "eof", "error"}
         /\ \E g \in Seq(Byte) : rd'[r].out = rd[r].out \o g
<1>1. /\ rd \in [Reader -> ReaderState] /\ rd[r] \in ReaderState /\ str \in Seq(Byte)
      /\ rd[r].out \in Seq(Byte) /\ rd[r].offset \in Nat
      /\ Advanced(r) \in ReaderState /\ Advanced(r).status = rd[r].status
  BY ReaderParts DEF TypeOK, ReaderState
<1>2. GetRange(str, rd[r].offset) \in Seq(Byte)
  BY <1>1, GetRangeIsSeq
<1>3. Advanced(r).out = rd[r].out \o GetRange(str, rd[r].offset)
  BY <1>1 DEF Advanced, ReaderState
<1>4. CASE Replay(r)
  <2>1. /\ rd[r].status = "reading" /\ rd'[r].out = Advanced(r).out
        /\ rd'[r].status \in {"reading", "eof"}
    BY <1>1, <1>4 DEF Replay, ReaderState
  <2> QED
    BY <1>2, <1>3, <2>1
<1>5. CASE Receive(r)
  <2>1. /\ rd[r].status = "reading" /\ rd'[r].out = Advanced(r).out
        /\ rd'[r].status \in {"reading", "eof"}
    BY <1>1, <1>5 DEF Receive, ClosedConn, ReaderState
  <2> QED
    BY <1>2, <1>3, <2>1
<1>6. CASE ReceiveOther(r) \/ ReceiveError(r)
  <2>1. /\ rd[r].status = "reading" /\ rd'[r].out = rd[r].out
        /\ rd'[r].status \in {"reading", "error"}
    BY <1>1, <1>6 DEF ReceiveOther, ReceiveError, ReaderState
  <2>2. rd[r].out \o << >> = rd[r].out /\ << >> \in Seq(Byte)
    BY <1>1, ConcatEmptySeq
  <2> QED
    BY <2>1, <2>2
<1> QED
  BY <1>4, <1>5, <1>6 DEF ReadStep

\* Closing the reader loses nothing of it.
LEMMA CloseSourceSees ==
  ASSUME TypeOK, NEW r \in Reader, CloseSource(r)
  PROVE  /\ rd'[r].out = rd[r].out
         /\ rd'[r].status = rd[r].status \/ (rd[r].status = "reading" /\ rd'[r].status = "closed")
<1>1. rd \in [Reader -> ReaderState] /\ rd[r] \in ReaderState
  BY DEF TypeOK
<1>2. CASE UNCHANGED vars
  BY <1>2 DEF vars
<1>3. CASE CloseReader(r)
  BY <1>1, <1>3 DEF CloseReader, ClosedConn, ReaderState
<1> QED
  BY <1>2, <1>3 DEF CloseSource

\* The readers as the steps around them, and those of other requests, leave them.
SameReader(r) == rd'[r].out = rd[r].out /\ rd'[r].status = rd[r].status

LEMMA AroundSees ==
  ASSUME TypeOK, NEW r \in Reader, Around
  PROVE  SameReader(r)
<1>1. rd \in [Reader -> ReaderState] /\ rd[r] \in ReaderState
  BY DEF TypeOK
<1>2. ASSUME NEW ch, NEW len, rd' = Published(ch, len)
      PROVE  SameReader(r)
  BY <1>1, <1>2 DEF Published, ReaderState, SameReader
<1>3. CASE Register \/ Tick
  BY <1>3 DEF Register, Tick, SameReader
<1>4. CASE OtherPublish
  BY <1>2, <1>4 DEF OtherPublish
<1>5. ASSUME NEW w \in Writer, WriterStep(w)
      PROVE  SameReader(r)
  <2>1. UNCHANGED rd \/ \E ch, len : rd' = Published(ch, len)
    BY <1>5 DEF WriterStep, NewWriter, Write, WriteFails, CloseWriter, CloseLost
  <2> QED
    BY <2>1, <1>2 DEF SameReader
<1>6. ASSUME NEW x \in Reader, PSubscribed(x)
      PROVE  SameReader(r)
  BY <1>1, <1>6 DEF PSubscribed, ReaderState, SameReader
<1>7. ASSUME NEW x \in Reader, NEW n \in 0..Len(rd[x].queue), ConnLost(x, n)
      PROVE  SameReader(r)
  <2>1. PICK q : rd' = [rd EXCEPT ![x] = [rd[x] EXCEPT !.conn = "lost", !.queue = q]]
    BY <1>1, <1>7 DEF ConnLost, ReaderState
  <2> QED
    BY <1>1, <2>1 DEF ReaderState, SameReader
<1> QED
  BY <1>3, <1>4, <1>5, <1>6, <1>7 DEF Around

LEMMA SameOwn ==
  ASSUME NEW r \in Reader, OwnInv(r), req'[r] = req[r], SameReader(r)
  PROVE  OwnInv(r)'
BY DEF OwnInv, PhaseInv, FlowInv, EndInv, SameReader

\* Another request's steps.
LEMMA OthersSame ==
  ASSUME Typed, NEW r \in Reader, NEW x \in Reader, x # r,
         HandlerStep(x) \/ GoStep(x) \/ ClientLeaves(x)
  PROVE  req'[r] = req[r] /\ rd'[r] = rd[r]
<1>1. req \in [Reader -> Request] /\ rd \in [Reader -> ReaderState]
  BY DEF Typed, SubTypeOK, TypeOK
<1>2. req'[r] = req[r]
  BY <1>1 DEF HandlerStep, GoStep, GoOn, ClientLeaves, OpenSub, AskDone, AskLength, GetBlob,
              Take, Heartbeat, NoticeGone, GoEnter, GoRead, GoReadClosed, GoReadLate,
              GoReadBlob, GoSend, Holding
<1>3. ASSUME CloseSource(x)
      PROVE  rd'[r] = rd[r]
  BY <1>1, <1>3 DEF CloseSource, CloseReader, vars
<1>4. ASSUME ReadStep(x)
      PROVE  rd'[r] = rd[r]
  BY <1>1, <1>4 DEF ReadStep, Replay, Receive, ReceiveOther, ReceiveError
<1>5. ASSUME NEW off, NEW answered, NewReader(x, off, answered)
      PROVE  rd'[r] = rd[r]
  BY <1>1, <1>5 DEF NewReader
<1>6. rd'[r] = rd[r]
  BY <1>3, <1>4, <1>5 DEF HandlerStep, GoStep, GoOn, ClientLeaves, OpenSub, AskDone,
       AskLength, GetBlob, Take, Heartbeat, RenewExpiry, NoticeGone, GoEnter, GoRead,
       GoReadClosed, GoReadLate, LateFetch, GoReadBlob, GoSend, vars
<1> QED
  BY <1>2, <1>6

-----------------------------------------------------------------------------
(* The handler's steps.                                                    *)

LEMMA OwnParts ==
  ASSUME Typed, NEW r \in Reader
  PROVE  /\ req \in [Reader -> Request] /\ req[r] \in Request
         /\ rd \in [Reader -> ReaderState] /\ rd[r] \in ReaderState
         /\ req[r].sent \in Seq(Byte) /\ req[r].ch \in Seq(Payload) /\ req[r].held \in Payload
         /\ rd[r].out \in Seq(Byte) /\ req[r].held.p \in Seq(Byte)
BY DEF Typed, SubTypeOK, TypeOK, Request, ReaderState, Payload

\* A handler that has not yet begun to copy.
Before(q) ==
  /\ q.go = "none" /\ q.held = NoPayload /\ q.ch = << >> /\ q.sent = << >> /\ q.end = "none"

\* Its step leaves it there, begins the copy, or is its last.
LEMMA BeforeOwn ==
  ASSUME NEW r \in Reader, rd'[r].out = << >>, rd'[r].status \notin {"new", "closed"},
         req'[r].held = NoPayload, req'[r].ch = << >>, req'[r].sent = << >>,
         req'[r].end = "none",
         \/ req'[r].phase \in {"done?", "length?", "get", "over"} /\ req'[r].go = "none"
         \/ req'[r].phase = "copy" /\ req'[r].go = "reading"
  PROVE  OwnInv(r)'
<1>1. PhaseInv(r)'
  BY DEF PhaseInv
<1>2. Begins(<< >>, << >>)
  BY SubSeqEmpty DEF Begins
<1>3. NoPayload.p = << >> /\ NoPayload.err = "none"
  BY DEF NoPayload
<1>4. FlowInv(r)'
  BY <1>2, <1>3, NothingInFlight DEF FlowInv
<1>5. EndInv(r)'
  BY <1>3 DEF EndInv, LastIsError, EndUnderWay
<1> QED
  BY <1>1, <1>4, <1>5 DEF OwnInv

LEMMA OpenSubOwn ==
  ASSUME Typed, NEW r \in Reader, OwnInv(r),
         NEW off \in StartOffset, NEW sse \in BOOLEAN, NEW answered \in BOOLEAN,
         OpenSub(r, off, sse, answered)
  PROVE  OwnInv(r)'
<1>1. req[r].phase = "new" /\ Before(req[r]) /\ rd[r].out = << >>
  BY DEF OwnInv, PhaseInv, OpenSub, Before
<1>2. PICK ph \in {"done?", "get"} :
        req' = [req EXCEPT ![r] = [req[r] EXCEPT !.sse = sse, !.phase = ph, !.left = retries]]
  BY OwnParts DEF OpenSub
<1>3. /\ req'[r].phase = ph /\ req'[r].go = req[r].go /\ req'[r].held = req[r].held
      /\ req'[r].ch = req[r].ch /\ req'[r].sent = req[r].sent /\ req'[r].end = req[r].end
  BY <1>2, OwnParts DEF Request
<1>4. rd'[r].out = rd[r].out /\ rd'[r].status \in {"reading", "refused"}
  BY OwnParts DEF OpenSub, NewReader, ReaderState
<1> QED
  BY <1>1, <1>3, <1>4, BeforeOwn DEF Before

\* The questions and attempts between newReader and the copy.
LEMMA AnsweringOwn ==
  ASSUME Typed, NEW r \in Reader, OwnInv(r), UNCHANGED rd,
         req[r].phase \in {"done?", "length?", "get"},
         NEW q, req' = [req EXCEPT ![r] = q],
         \/ q = Copying(req[r])
         \/ \E status : q = Answered(req[r], status)
         \/ \E seen : q = [req[r] EXCEPT !.phase = "length?", !.seen = seen]
         \/ \E left : q = [req[r] EXCEPT !.left = left]
  PROVE  OwnInv(r)'
<1>1. Before(req[r]) /\ rd[r].out = << >> /\ rd[r].status \notin {"new", "closed"}
  BY DEF OwnInv, PhaseInv, Before
<1>2. req'[r] = q
  BY OwnParts
<1>3. /\ q.held = req[r].held /\ q.ch = req[r].ch
      /\ q.sent = req[r].sent /\ q.end = req[r].end
      /\ \/ q.phase \in {"done?", "length?", "get", "over"} /\ q.go = req[r].go
         \/ q.phase = "copy" /\ q.go = "reading"
  BY OwnParts DEF Copying, Answered, Request
<1> QED
  BY <1>1, <1>2, <1>3, BeforeOwn DEF Before

LEMMA AskOwn ==
  ASSUME Typed, NEW r \in Reader, OwnInv(r), NEW answered \in BOOLEAN,
         AskDone(r, answered) \/ AskLength(r, answered)
  PROVE  OwnInv(r)'
<1>1. CASE AskDone(r, answered)
  <2>1. req[r].phase = "done?" /\ UNCHANGED rd
    BY <1>1 DEF AskDone, vars
  <2>2. \/ req' = [req EXCEPT ![r] = [req[r] EXCEPT !.phase = "length?",
                                !.seen = [len |-> Len(str), epoch |-> epoch]]]
        \/ req' = [req EXCEPT ![r] = Copying(req[r])]
    BY <1>1, OwnParts DEF AskDone
  <2> QED
    BY <2>1, <2>2, AnsweringOwn
<1>2. CASE AskLength(r, answered)
  <2>1. req[r].phase = "length?" /\ UNCHANGED rd
    BY <1>2 DEF AskLength, vars
  <2>2. \/ req' = [req EXCEPT ![r] = Answered(req[r], "204")]
        \/ req' = [req EXCEPT ![r] = Copying(req[r])]
    BY <1>2, OwnParts DEF AskLength
  <2> QED
    BY <2>1, <2>2, AnsweringOwn
<1> QED
  BY <1>1, <1>2

LEMMA GetBlobOwn ==
  ASSUME Typed, NEW r \in Reader, OwnInv(r),
         NEW res \in {"2xx", "404", "416", "5xx", "error"}, GetBlob(r, res)
  PROVE  OwnInv(r)'
<1>1. req[r].phase = "get" /\ UNCHANGED rd
  BY DEF GetBlob, vars
<1>2. \/ req' = [req EXCEPT ![r] = Copying(req[r])]
      \/ \E status : req' = [req EXCEPT ![r] = Answered(req[r], status)]
      \/ \E left : req' = [req EXCEPT ![r] = [req[r] EXCEPT !.left = left]]
  BY OwnParts DEF GetBlob
<1>3. ASSUME NEW status, req' = [req EXCEPT ![r] = Answered(req[r], status)]
      PROVE  OwnInv(r)'
  BY <1>1, <1>3, AnsweringOwn
<1>4. ASSUME NEW left, req' = [req EXCEPT ![r] = [req[r] EXCEPT !.left = left]]
      PROVE  OwnInv(r)'
  BY <1>1, <1>4, AnsweringOwn
<1>5. CASE req' = [req EXCEPT ![r] = Copying(req[r])]
  BY <1>1, <1>5, AnsweringOwn
<1> QED
  BY <1>2, <1>3, <1>4, <1>5

\* A copy that ends.
LEMMA OverOwn ==
  ASSUME NEW r \in Reader, PhaseInv(r), req[r].phase = "copy",
         req'[r].phase = "over", req'[r].go = req[r].go, req'[r].held = req[r].held,
         rd'[r].out = rd[r].out,
         rd'[r].status = rd[r].status \/ rd'[r].status = "closed",
         Begins(req'[r].sent, rd[r].out),
         req'[r].end = "eof" =>
           rd'[r].status \in {"eof", "refused"} /\ Len(req'[r].sent) = Len(rd[r].out)
  PROVE  OwnInv(r)'
BY DEF OwnInv, PhaseInv, FlowInv, EndInv

LEMMA NoticeGoneOwn ==
  ASSUME Typed, NEW r \in Reader, OwnInv(r), NoticeGone(r)
  PROVE  OwnInv(r)'
<1>1. PICK rest : req' = [req EXCEPT ![r] = [Over(req[r], "gone") EXCEPT !.ch = rest]]
  BY DEF NoticeGone
<1>2. /\ req'[r].phase = "over" /\ req'[r].go = req[r].go /\ req'[r].held = req[r].held
      /\ req'[r].sent = req[r].sent /\ req'[r].end = "gone"
  BY <1>1, OwnParts DEF Over, Request
<1>3. req[r].phase = "copy" /\ CloseSource(r)
  BY DEF NoticeGone
<1>4. /\ rd'[r].out = rd[r].out
      /\ rd'[r].status = rd[r].status \/ rd'[r].status = "closed"
  BY <1>3, CloseSourceSees DEF Typed
<1> QED
  BY <1>2, <1>3, <1>4, OverOwn DEF OwnInv, FlowInv

LEMMA TakeOwn ==
  ASSUME Typed, NEW r \in Reader, OwnInv(r), Take(r)
  PROVE  OwnInv(r)'
<1> DEFINE payload == Head(req[r].ch)
           next == [req[r] EXCEPT !.ch = Tail(@), !.sent = @ \o Copied(payload)]
           last == Over(next, payload.err)
<1>1. req[r].phase = "copy" /\ req[r].ch # << >>
  BY DEF Take
<1>2. \/ payload.err = "none" /\ req' = [req EXCEPT ![r] = next] /\ UNCHANGED vars
      \/ payload.err # "none" /\ req' = [req EXCEPT ![r] = last] /\ CloseSource(r)
  BY DEF Take
<1>3. /\ next.ch = Tail(req[r].ch) /\ next.sent = req[r].sent \o payload.p
      /\ next.phase = req[r].phase /\ next.go = req[r].go /\ next.held = req[r].held
      /\ next.end = req[r].end
  BY OwnParts DEF Request, Copied
<1>4. /\ last.sent = req[r].sent \o payload.p /\ last.phase = "over"
      /\ last.go = req[r].go /\ last.held = req[r].held /\ last.end = payload.err
  BY OwnParts DEF Request, Copied, Over
<1>5. /\ Begins(req[r].sent, rd[r].out)
      /\ InFlight(req[r].sent, req[r].ch, req[r].held.p, rd[r].out)
      /\ PhaseInv(r) /\ LastIsError(req[r]) /\ req[r].end # "eof"
      /\ EndUnderWay(req[r]) => rd[r].status \in {"eof", "refused"}
  BY <1>1 DEF OwnInv, FlowInv, EndInv
<1>6. /\ InFlight(req[r].sent \o payload.p, Tail(req[r].ch), req[r].held.p, rd[r].out)
      /\ Begins(req[r].sent \o payload.p, rd[r].out)
      /\ (Len(req[r].ch) = 1 /\ req[r].held.p = << >>) =>
           Len(req[r].sent \o payload.p) = Len(rd[r].out)
  <2> DEFINE s == req[r].sent
             c == req[r].ch
             p == req[r].held.p
             o == rd[r].out
  <2>1. /\ s \in Seq(Byte) /\ c \in Seq(Payload) /\ c # << >> /\ o \in Seq(Byte)
        /\ InFlight(s, c, p, o) /\ Begins(s, o)
    BY <1>1, <1>5, OwnParts
  <2> HIDE DEF s, c, p, o
  <2>2. /\ InFlight(s \o Head(c).p, Tail(c), p, o) /\ Begins(s \o Head(c).p, o)
        /\ (Len(c) = 1 /\ p = << >>) => Len(s \o Head(c).p) = Len(o)
    BY <2>1, FlightTaken
  <2> QED
    BY <2>2 DEF s, c, p, o
<1>7. /\ Len(req[r].ch) \in Nat /\ Len(req[r].ch) >= 1 /\ payload = req[r].ch[1]
      /\ Len(Tail(req[r].ch)) = Len(req[r].ch) - 1
      /\ \A i \in 1..Len(Tail(req[r].ch)) : Tail(req[r].ch)[i] = req[r].ch[i + 1]
  BY <1>1, OwnParts, HeadTailProperties
<1> HIDE DEF next, last, payload
<1>8. CASE payload.err = "none" /\ req' = [req EXCEPT ![r] = next] /\ UNCHANGED vars
  <2>1. req'[r] = next /\ rd' = rd
    BY <1>8, OwnParts DEF vars
  <2>2. PhaseInv(r)'
    BY <1>1, <1>3, <1>5, <2>1 DEF PhaseInv
  <2>3. FlowInv(r)'
    BY <1>1, <1>3, <1>6, <2>1, OwnParts DEF FlowInv, OwnInv
  <2>4. LastIsError(next) /\ (EndUnderWay(next) => EndUnderWay(req[r]))
    <3>1. \A i \in 1..Len(next.ch) : next.ch[i] = req[r].ch[i + 1] /\ i + 1 \in 1..Len(req[r].ch)
      BY <1>3, <1>7
    <3>2. Len(next.ch) = Len(req[r].ch) - 1
      BY <1>3, <1>7
    <3>3. LastIsError(next)
      BY <1>3, <1>5, <1>7, <3>1, <3>2 DEF LastIsError
    <3>4. EndUnderWay(next) => EndUnderWay(req[r])
      BY <1>3, <3>1 DEF EndUnderWay
    <3> QED
      BY <3>3, <3>4
  <2>5. EndInv(r)'
    BY <1>1, <1>3, <1>5, <2>1, <2>4 DEF EndInv
  <2> QED
    BY <2>2, <2>3, <2>5 DEF OwnInv
<1>9. CASE payload.err # "none" /\ req' = [req EXCEPT ![r] = last] /\ CloseSource(r)
  <2>1. req'[r] = last
    BY <1>9, OwnParts
  <2>2. 1 \in 1..Len(req[r].ch)
    BY <1>7
  <2>3. Len(req[r].ch) = 1 /\ req[r].go = "ended"
    BY <1>5, <1>7, <1>9, <2>2 DEF LastIsError
  <2>4. req[r].held.p = << >>
    BY <1>5, <2>3 DEF PhaseInv, NoPayload
  <2>5. /\ rd'[r].out = rd[r].out
        /\ rd'[r].status = rd[r].status \/ (rd[r].status = "reading" /\ rd'[r].status = "closed")
    BY <1>9, CloseSourceSees DEF Typed
  <2>6. payload.err = "eof" => rd[r].status \in {"eof", "refused"}
    BY <1>5, <1>7, <2>2 DEF EndUnderWay
  <2>7. Len(last.sent) = Len(rd[r].out)
    BY <1>4, <1>6, <2>3, <2>4
  <2> QED
    BY <1>1, <1>4, <1>5, <1>6, <2>1, <2>5, <2>6, <2>7, OverOwn
<1> QED
  BY <1>2, <1>8, <1>9

-----------------------------------------------------------------------------
(* The goroutine's steps.                                                  *)

\* The goroutine comes to hold a payload.
LEMMA HeldOwn ==
  ASSUME Typed, NEW r \in Reader, OwnInv(r), req[r].go \in {"reading", "inside"},
         NEW payload \in Payload, Holding(r, payload),
         rd[r].status \notin {"new"}, rd'[r].status # "new",
         rd'[r].status = "closed" => rd[r].status = "closed",
         rd[r].status \in {"eof", "refused"} => rd'[r].status = rd[r].status,
         rd'[r].out = rd[r].out \o payload.p,
         req[r].phase = "copy" /\ payload.err = "eof" => rd'[r].status \in {"eof", "refused"},
         req[r].end = "eof" => payload.p = << >>
  PROVE  OwnInv(r)'
<1>1. /\ req'[r].held = payload /\ req'[r].go = "sending" /\ req'[r].ch = req[r].ch
      /\ req'[r].sent = req[r].sent /\ req'[r].phase = req[r].phase /\ req'[r].end = req[r].end
  BY OwnParts DEF Holding, Request
<1>2. req[r].phase \in {"copy", "over"}
  <2>1. req[r].phase \in {"new", "done?", "length?", "get", "copy", "over"}
    BY OwnParts DEF Request
  <2> QED
    BY <2>1 DEF OwnInv, PhaseInv
<1>3. PhaseInv(r)'
  BY <1>1, <1>2 DEF OwnInv, PhaseInv
<1> DEFINE s == req[r].sent
           c == req[r].ch
           p == req[r].held.p
           o == rd[r].out
           g == payload.p
<1>4. /\ s \in Seq(Byte) /\ c \in Seq(Payload) /\ o \in Seq(Byte) /\ g \in Seq(Byte)
      /\ p \in Seq(Byte) /\ p = << >>
      /\ Begins(s, o)
      /\ req[r].phase = "copy" => InFlight(s, c, p, o)
  <2>1. req[r].held = NoPayload
    BY DEF OwnInv, PhaseInv
  <2>2. g \in Seq(Byte)
    BY DEF Payload
  <2> QED
    BY <2>1, <2>2, OwnParts DEF NoPayload, OwnInv, FlowInv
<1>5. Begins(s, o \o g) /\ (req[r].phase = "copy" => InFlight(s, c, g, o \o g))
  <2> HIDE DEF s, c, p, o, g
  <2>1. Begins(s, o \o g)
    BY <1>4, BeginsKept
  <2>2. InFlight(s, c, p, o) => InFlight(s, c, g, o \o g)
    BY <1>4, FlightReads
  <2> QED
    BY <1>4, <2>1, <2>2
<1>6. FlowInv(r)'
  BY <1>1, <1>5 DEF FlowInv
<1>7. req[r].phase = "copy" =>
        /\ \A i \in 1..Len(c) : c[i].err = "none"
        /\ LastIsError(req'[r])
        /\ EndUnderWay(req'[r]) => payload.err = "eof"
  BY <1>1 DEF OwnInv, EndInv, LastIsError, EndUnderWay
<1>8. g = << >> => o \o g = o
  BY <1>4, ConcatEmptySeq
<1>9. EndInv(r)'
  BY <1>1, <1>7, <1>8 DEF OwnInv, EndInv
<1> QED
  BY <1>3, <1>6, <1>9 DEF OwnInv

LEMMA GoReadOwn ==
  ASSUME Typed, TypeOK', NEW r \in Reader, OwnInv(r), GoRead(r)
  PROVE  OwnInv(r)'
<1>1. req[r].go = "inside" /\ ReadStep(r) /\ (UNCHANGED req \/ Holding(r, ReadResult(r)))
  BY DEF GoRead
<1>2. PICK g \in Seq(Byte) :
        /\ rd[r].status = "reading" /\ rd'[r].status \in {"reading", "eof", "error"}
        /\ rd'[r].out = rd[r].out \o g
  BY <1>1, ReadStepSees DEF Typed
<1>3. ReadResult(r).p = g
  <2>1. ReadResult(r).p = SubSeq(rd'[r].out, Len(rd[r].out) + 1, Len(rd'[r].out))
    BY DEF ReadResult
  <2>2. SubSeq(rd[r].out \o g, Len(rd[r].out) + 1, Len(rd[r].out \o g)) = g
    BY PieceLast, OwnParts
  <2> QED
    BY <1>2, <2>1, <2>2, Zenon
<1>4. ReadResult(r).err = IF rd'[r].status \in {"eof", "error"} THEN rd'[r].status ELSE "none"
  BY DEF ReadResult
<1>5. req[r].end # "eof"
  BY <1>2 DEF OwnInv, EndInv
<1>6. CASE Holding(r, ReadResult(r))
  <2>1. ReadResult(r) \in Payload
    BY ReadResultType DEF Typed
  <2> DEFINE payload == ReadResult(r)
  <2>2. payload \in Payload /\ payload.p = g /\ Holding(r, payload)
        /\ (payload.err = "eof" => rd'[r].status = "eof")
    BY <1>2, <1>3, <1>4, <1>6, <2>1
  <2> HIDE DEF payload
  <2>3. rd'[r].out = rd[r].out \o payload.p
    BY <1>2, <2>2
  <2> QED
    BY <1>1, <1>2, <1>5, <2>2, <2>3, HeldOwn
<1>7. CASE UNCHANGED req /\ ReadResult(r) = NoPayload
  <2>1. g = << >> /\ rd'[r].status = "reading"
    BY <1>2, <1>3, <1>4, <1>7 DEF NoPayload
  <2>2. rd'[r].out = rd[r].out
    BY <1>2, <2>1, ConcatEmptySeq, OwnParts
  <2> QED
    BY <1>2, <1>7, <2>1, <2>2, SameOwn DEF SameReader
<1> QED
  BY <1>6, <1>7 DEF GoRead

LEMMA GoReadElseOwn ==
  ASSUME Typed, NEW r \in Reader, OwnInv(r),
         \/ GoReadClosed(r) \/ GoReadLate(r)
         \/ \E err \in {"none", "eof", "error"} : GoReadBlob(r, err)
  PROVE  OwnInv(r)'
<1>1. PICK err \in {"none", "eof", "error"} : Holding(r, [p |-> << >>, err |-> err])
  BY DEF GoReadClosed, GoReadLate, GoReadBlob
<1> DEFINE payload == [p |-> << >>, err |-> err]
<1>2. payload \in Payload /\ payload.p = << >> /\ payload.err = err /\ Holding(r, payload)
  <2>1. << >> \in Seq(Byte)
    OBVIOUS
  <2> QED
    BY <1>1, <2>1 DEF Payload
<1> HIDE DEF payload
<1>3. /\ req[r].go \in {"reading", "inside"} /\ rd' = rd
      /\ rd[r].status = "closed" \/ rd[r].status \in {"new", "refused"}
  BY DEF GoReadClosed, GoReadLate, LateFetch, GoReadBlob, FromBroker, vars
<1>4. rd[r].status # "new" /\ (rd[r].status = "closed" => req[r].phase # "copy")
  BY <1>3 DEF OwnInv, PhaseInv
<1>5. rd'[r].out = rd[r].out \o payload.p
  BY <1>2, <1>3, ConcatEmptySeq, OwnParts
<1> QED
  BY <1>2, <1>3, <1>4, <1>5, HeldOwn

LEMMA GoEnterOwn ==
  ASSUME Typed, NEW r \in Reader, OwnInv(r), GoEnter(r)
  PROVE  OwnInv(r)'
<1>1. /\ req'[r].held = req[r].held /\ req'[r].go = "inside" /\ req'[r].ch = req[r].ch
      /\ req'[r].sent = req[r].sent /\ req'[r].phase = req[r].phase /\ req'[r].end = req[r].end
      /\ req[r].go = "reading" /\ rd' = rd
  BY OwnParts DEF GoEnter, Request, vars
<1> QED
  BY <1>1 DEF OwnInv, PhaseInv, FlowInv, EndInv, LastIsError, EndUnderWay

LEMMA GoSendOwn ==
  ASSUME Typed, NEW r \in Reader, OwnInv(r), GoSend(r)
  PROVE  OwnInv(r)'
<1> DEFINE s == req[r].sent
           c == req[r].ch
           h == req[r].held
           p == req[r].held.p
           o == rd[r].out
<1>1. /\ req'[r].held = NoPayload /\ req'[r].go = GoAfter(h) /\ req'[r].ch = Append(c, h)
      /\ req'[r].sent = s /\ req'[r].phase = req[r].phase /\ req'[r].end = req[r].end
      /\ req[r].go = "sending" /\ rd' = rd
  BY OwnParts DEF GoSend, Request, vars
<1>2. GoAfter(h) \in {"reading", "ended"} /\ (h.err # "none" => GoAfter(h) = "ended")
  BY DEF GoAfter
<1>3. PhaseInv(r)'
  BY <1>1, <1>2 DEF OwnInv, PhaseInv
<1>4. /\ s \in Seq(Byte) /\ c \in Seq(Payload) /\ o \in Seq(Byte) /\ h \in Payload
      /\ p = h.p
  BY OwnParts
<1>5. InFlight(s, c, p, o) => InFlight(s, Append(c, h), << >>, o)
  <2> HIDE DEF s, c, p, o, h
  <2> QED
    BY <1>4, FlightSends
<1>6. FlowInv(r)'
  <2>1. req[r].phase = "copy" => InFlight(s, c, p, o)
    BY DEF OwnInv, FlowInv
  <2>2. NoPayload.p = << >> /\ NoPayload.err = "none"
    BY DEF NoPayload
  <2> QED
    BY <1>1, <1>2, <1>5, <2>1, <2>2 DEF OwnInv, FlowInv
<1>7. /\ Len(Append(c, h)) = Len(c) + 1 /\ Len(c) \in Nat
      /\ \A i \in 1..Len(c) : Append(c, h)[i] = c[i]
      /\ Append(c, h)[Len(c) + 1] = h
  BY <1>4, AppendProperties
<1>8. ASSUME req[r].phase = "copy"
      PROVE  LastIsError(req'[r]) /\ (EndUnderWay(req'[r]) => EndUnderWay(req[r]))
  <2>1. \A i \in 1..Len(c) : c[i].err = "none"
    BY <1>1, <1>8 DEF OwnInv, EndInv, LastIsError
  <2>2. \A i \in 1..(Len(c) + 1) :
          (i \in 1..Len(c) /\ Append(c, h)[i].err = "none") \/ i = Len(c) + 1
    BY <1>7, <2>1
  <2>3. LastIsError(req'[r])
    BY <1>1, <1>2, <1>7, <2>2 DEF LastIsError
  <2>4. EndUnderWay(req'[r]) => h.err = "eof"
    BY <1>1, <1>7, <2>2 DEF EndUnderWay, NoPayload
  <2> QED
    BY <2>3, <2>4 DEF EndUnderWay
<1>9. EndInv(r)'
  BY <1>1, <1>8 DEF OwnInv, EndInv
<1> QED
  BY <1>3, <1>6, <1>9 DEF OwnInv

LEMMA ClientLeavesOwn ==
  ASSUME Typed, NEW r \in Reader, OwnInv(r), ClientLeaves(r)
  PROVE  OwnInv(r)'
<1>1. /\ req'[r].held = req[r].held /\ req'[r].go = req[r].go /\ req'[r].ch = req[r].ch
      /\ req'[r].sent = req[r].sent /\ req'[r].phase = req[r].phase /\ req'[r].end = req[r].end
      /\ rd' = rd
  BY OwnParts DEF ClientLeaves, Request, vars
<1> QED
  BY <1>1 DEF OwnInv, PhaseInv, FlowInv, EndInv, LastIsError, EndUnderWay

LEMMA PanicOwn ==
  ASSUME Typed, NEW r \in Reader, OwnInv(r), Panic
  PROVE  OwnInv(r)'
<1>1. /\ rd'[r].out = rd[r].out /\ (rd[r].status = "new" => rd'[r].status = "new")
      /\ rd[r].status # "new" => rd'[r].status # "new"
  BY OwnParts DEF Panic, FetchPanics, ClosedConn, ReaderState
<1>2. CASE req[r].phase = "new"
  <2>1. req'[r] = req[r]
    BY <1>2, OwnParts DEF Panic
  <2>2. rd'[r].status = rd[r].status
    BY <1>1, <1>2 DEF OwnInv, PhaseInv
  <2> QED
    BY <1>1, <2>1, <2>2, SameOwn DEF SameReader
<1>3. CASE req[r].phase # "new"
  <2>1. /\ req'[r].phase = "over" /\ req'[r].end = "crash" /\ req'[r].go = "ended"
        /\ req'[r].held = NoPayload /\ req'[r].sent = req[r].sent
    BY <1>3, OwnParts DEF Panic, Request
  <2> QED
    BY <1>1, <1>3, <2>1 DEF OwnInv, PhaseInv, FlowInv, EndInv
<1> QED
  BY <1>2, <1>3

\* Every step keeps what a request has.
LEMMA OwnNext ==
  ASSUME Typed, TypeOK', NEW r \in Reader, OwnInv(r), [SubNext]_subVars
  PROVE  OwnInv(r)'
<1>1. CASE UNCHANGED subVars
  BY <1>1, SameOwn DEF subVars, vars, SameReader
<1>2. CASE Around
  BY <1>2, SameOwn, AroundSees DEF Around, Typed
<1>3. CASE Panic
  BY <1>3, PanicOwn
<1>4. ASSUME NEW x \in Reader, x # r, HandlerStep(x) \/ GoStep(x) \/ ClientLeaves(x)
      PROVE  OwnInv(r)'
  BY <1>4, OthersSame, SameOwn DEF SameReader
<1>5. CASE HandlerStep(r)
  <2>1. CASE \E off \in StartOffset, sse, answered \in BOOLEAN : OpenSub(r, off, sse, answered)
    BY <2>1, OpenSubOwn
  <2>2. CASE \E answered \in BOOLEAN : AskDone(r, answered) \/ AskLength(r, answered)
    BY <2>2, AskOwn
  <2>3. CASE \E res \in {"2xx", "404", "416", "5xx", "error"} : GetBlob(r, res)
    BY <2>3, GetBlobOwn
  <2>4. CASE Take(r)
    BY <2>4, TakeOwn
  <2>5. CASE Heartbeat(r)
    BY <2>5, SameOwn DEF Heartbeat, RenewExpiry, SameReader
  <2>6. CASE NoticeGone(r)
    BY <2>6, NoticeGoneOwn
  <2> QED
    BY <1>5, <2>1, <2>2, <2>3, <2>4, <2>5, <2>6 DEF HandlerStep
<1>6. CASE GoStep(r)
  BY <1>6, GoEnterOwn, GoReadOwn, GoReadElseOwn, GoSendOwn DEF GoStep, GoOn
<1>7. CASE ClientLeaves(r)
  BY <1>7, ClientLeavesOwn
<1> QED
  BY <1>1, <1>2, <1>3, <1>4, <1>5, <1>6, <1>7 DEF SubNext

LEMMA OwnInit ==
  ASSUME SubInit, NEW r \in Reader
  PROVE  OwnInv(r) /\ SeenInv(r)
<1>1. req[r] = NewRequest /\ rd[r] = NewReaderState
  BY DEF SubInit, Init
<1>2. PhaseInv(r) /\ EndInv(r) /\ SeenInv(r)
  BY <1>1 DEF PhaseInv, EndInv, SeenInv, NewRequest, NewReaderState
<1>3. Begins(<< >>, << >>)
  BY SubSeqEmpty DEF Begins
<1>4. FlowInv(r)
  BY <1>1, <1>3 DEF FlowInv, NewRequest, NewReaderState
<1> QED
  BY <1>2, <1>4 DEF OwnInv

-----------------------------------------------------------------------------
(* The question for the length.                                            *)

\* Within an epoch, nothing that is stored goes away.
LEMMA StoredGrows ==
  ASSUME TypeOK, [Next]_vars
  PROVE  epoch <= epoch' /\ (epoch' = epoch => Len(str) <= Len(str'))
<1>1. str \in Seq(Byte) /\ epoch \in Nat /\ Len(str) \in Nat
  BY DEF TypeOK
<1>2. Len(<< >>) = 0 /\ (str = << >> => Len(str) = 0)
  OBVIOUS
<1>3. CASE UNCHANGED <<str, epoch>>
  BY <1>1, <1>3
<1>4. ASSUME str' = << >>, epoch' = EpochAfterDiscard
      PROVE  epoch <= epoch' /\ (epoch' = epoch => Len(str) <= Len(str'))
  BY <1>1, <1>2, <1>4 DEF EpochAfterDiscard
<1>5. CASE Register
  BY <1>4, <1>5 DEF Register
<1>6. CASE Tick
  BY <1>3, <1>4, <1>6 DEF Tick
<1>7. ASSUME NEW w \in Writer, NEW p \in Chunk, NEW replied, Write(w, p, replied)
      PROVE  epoch <= epoch' /\ (epoch' = epoch => Len(str) <= Len(str'))
  <2>1. p \in Seq(Byte) /\ Len(p) \in Nat
    BY ChunkIsSeq, BrokerAssumption
  <2>2. Len(str \o p) = Len(str) + Len(p)
    BY <1>1, <2>1, ConcatProperties
  <2>3. str' = str \o p /\ epoch' = epoch
    BY <1>7 DEF Write
  <2>4. Len(str') = Len(str) + Len(p)
    BY <2>2, <2>3, Zenon
  <2> QED
    BY <1>1, <2>1, <2>3, <2>4
<1>8. ASSUME NEW w \in Writer, WriterStep(w)
      PROVE  epoch <= epoch' /\ (epoch' = epoch => Len(str) <= Len(str'))
  BY <1>3, <1>7, <1>8 DEF WriterStep, NewWriter, WriteFails, CloseWriter, CloseLost
<1>9. ASSUME NEW r \in Reader, ReaderStep(r)
      PROVE  UNCHANGED <<str, epoch>>
  BY <1>9 DEF ReaderStep, ReadStep, NewReader, PSubscribed, ConnLost, Replay, Receive,
              ReceiveOther, ReceiveError, CloseReader, LateFetch, RenewExpiry
<1> QED
  BY <1>3, <1>5, <1>6, <1>8, <1>9 DEF Next, OtherPublish, FetchPanics, vars

\* The goroutine and the client do not answer.
LEMMA GoKeeps ==
  ASSUME Typed, NEW r \in Reader, GoStep(r) \/ ClientLeaves(r)
  PROVE  /\ req'[r].phase = req[r].phase /\ req'[r].seen = req[r].seen
         /\ req'[r].answer = req[r].answer
<1>1. ASSUME NEW payload, Holding(r, payload)
      PROVE  /\ req'[r].phase = req[r].phase /\ req'[r].seen = req[r].seen
             /\ req'[r].answer = req[r].answer
  BY <1>1, OwnParts DEF Holding, Request
<1>2. CASE GoRead(r)
  BY <1>1, <1>2 DEF GoRead
<1>3. CASE GoReadClosed(r)
  BY <1>1, <1>3 DEF GoReadClosed
<1>4. CASE \E err \in {"none", "eof", "error"} : GoReadBlob(r, err)
  BY <1>1, <1>4 DEF GoReadBlob
<1>5. CASE GoSend(r)
  BY <1>5, OwnParts DEF GoSend, Request
<1>6. CASE ClientLeaves(r)
  BY <1>6, OwnParts DEF ClientLeaves, Request
<1>7. CASE GoEnter(r)
  BY <1>7, OwnParts DEF GoEnter, Request
<1>8. CASE GoReadLate(r)
  BY <1>1, <1>8 DEF GoReadLate
<1> QED
  BY <1>2, <1>3, <1>4, <1>5, <1>6, <1>7, <1>8 DEF GoStep, GoOn

\* Nor does the handler while it copies.
LEMMA CopyKeeps ==
  ASSUME Typed, NEW r \in Reader, Take(r) \/ NoticeGone(r)
  PROVE  req'[r].phase \in {"copy", "over"} /\ req'[r].answer = req[r].answer
<1>1. req[r].phase = "copy"
  BY DEF Take, NoticeGone
<1>2. CASE Take(r)
  <2> DEFINE next == [req[r] EXCEPT !.ch = Tail(@), !.sent = @ \o Copied(Head(req[r].ch))]
             last == Over(next, Head(req[r].ch).err)
  <2>1. req' = [req EXCEPT ![r] = next] \/ req' = [req EXCEPT ![r] = last]
    BY <1>2 DEF Take
  <2>2. next.phase = req[r].phase /\ next.answer = req[r].answer
    BY OwnParts DEF Request
  <2>3. last.phase = "over" /\ last.answer = req[r].answer
    BY OwnParts DEF Over, Request
  <2> HIDE DEF next, last
  <2>4. req'[r] = next \/ req'[r] = last
    BY <2>1, OwnParts
  <2> QED
    BY <1>1, <2>2, <2>3, <2>4
<1>3. CASE NoticeGone(r)
  <2>1. PICK rest : req' = [req EXCEPT ![r] = [Over(req[r], "gone") EXCEPT !.ch = rest]]
    BY <1>3 DEF NoticeGone
  <2> QED
    BY <2>1, OwnParts DEF Over, Request
<1> QED
  BY <1>2, <1>3

\* What a step does to a question under way, and to one that is asked.
LEMMA SeenNext ==
  ASSUME Typed, TypeOK', NEW r \in Reader, SeenInv(r), [SubNext]_subVars
  PROVE  SeenInv(r)'
<1>1. /\ epoch \in Nat /\ epoch' \in Nat /\ epoch <= epoch'
      /\ epoch' = epoch => Len(str) <= Len(str')
      /\ Len(str) \in Nat /\ Len(str') \in Nat
  BY StepRefines, StoredGrows DEF Typed, TypeOK
<1>2. req[r].seen.epoch \in Nat /\ req[r].seen.len \in Nat
  BY OwnParts DEF Request
<1>3. ASSUME req'[r].phase = "length?" => req[r].phase = "length?" /\ req'[r].seen = req[r].seen
      PROVE  SeenInv(r)'
  BY <1>1, <1>2, <1>3 DEF SeenInv
<1>4. ASSUME NEW q, q.phase = req[r].phase, q.seen = req[r].seen, req'[r] = q
      PROVE  SeenInv(r)'
  BY <1>3, <1>4
<1>5. CASE UNCHANGED req
  BY <1>3, <1>5
<1>6. CASE Panic
  <2>1. req'[r] = req[r] \/ req'[r].phase = "over"
    BY <1>6, OwnParts DEF Panic, Request
  <2> QED
    BY <1>3, <2>1
<1>7. ASSUME NEW x \in Reader, x # r, HandlerStep(x) \/ GoStep(x) \/ ClientLeaves(x)
      PROVE  SeenInv(r)'
  BY <1>3, <1>7, OthersSame
<1>8. ASSUME NEW off \in StartOffset, NEW sse \in BOOLEAN, NEW answered \in BOOLEAN,
             OpenSub(r, off, sse, answered)
      PROVE  SeenInv(r)'
  <2>1. req'[r].phase \in {"done?", "get"}
    BY <1>8, OwnParts DEF OpenSub, Request
  <2> QED
    BY <1>3, <2>1
<1>9. ASSUME NEW answered \in BOOLEAN, AskDone(r, answered)
      PROVE  SeenInv(r)'
  <2>1. \/ req'[r] = Copying(req[r])
        \/ /\ req'[r].phase = "length?"
           /\ req'[r].seen = [len |-> Len(str), epoch |-> epoch]
           /\ UNCHANGED vars
    BY <1>9, OwnParts DEF AskDone, Request
  <2>2. Copying(req[r]).phase = "copy"
    BY OwnParts DEF Copying, Request
  <2>3. CASE req'[r].phase = "length?"
    BY <1>1, <2>1, <2>2, <2>3 DEF SeenInv, vars
  <2> QED
    BY <2>3 DEF SeenInv
<1>10. ASSUME NEW q, req' = [req EXCEPT ![r] = q], q.phase # "length?"
       PROVE  SeenInv(r)'
  <2>1. req'[r] = q
    BY <1>10, OwnParts
  <2> QED
    BY <1>3, <1>10, <2>1
<1>11. /\ Copying(req[r]).phase = "copy"
       /\ \A status : Answered(req[r], status).phase = "over"
  BY OwnParts DEF Copying, Answered, Request
<1>12. ASSUME NEW answered \in BOOLEAN, AskLength(r, answered)
       PROVE  SeenInv(r)'
  <2>1. \/ req' = [req EXCEPT ![r] = Copying(req[r])]
        \/ req' = [req EXCEPT ![r] = Answered(req[r], "204")]
    BY <1>12, OwnParts DEF AskLength
  <2> QED
    BY <1>10, <1>11, <2>1
<1>13. ASSUME NEW res, GetBlob(r, res)
       PROVE  SeenInv(r)'
  <2>1. \/ req' = [req EXCEPT ![r] = Copying(req[r])]
        \/ \E status : req' = [req EXCEPT ![r] = Answered(req[r], status)]
        \/ \E left : req' = [req EXCEPT ![r] = [req[r] EXCEPT !.left = left]]
    BY <1>13, OwnParts DEF GetBlob
  <2>2. ASSUME NEW left, req' = [req EXCEPT ![r] = [req[r] EXCEPT !.left = left]]
        PROVE  SeenInv(r)'
    <3>1. req'[r].phase = req[r].phase /\ req'[r].seen = req[r].seen
      BY <2>2, OwnParts DEF Request
    <3> QED
      BY <1>3, <3>1
  <2> QED
    BY <1>10, <1>11, <2>1, <2>2
<1>14. CASE Take(r) \/ NoticeGone(r)
  BY <1>3, <1>14, CopyKeeps
<1>15. CASE GoStep(r) \/ ClientLeaves(r)
  BY <1>3, <1>15, GoKeeps
<1>16. CASE HandlerStep(r)
  BY <1>5, <1>8, <1>9, <1>12, <1>13, <1>14, <1>16 DEF HandlerStep, Heartbeat
<1> QED
  BY <1>5, <1>6, <1>7, <1>15, <1>16 DEF SubNext, Around, subVars

-----------------------------------------------------------------------------
(* What follows of it.                                                     *)

(***************************************************************************)
(* The invariant of the requests: what the broker keeps for its readers,   *)
(* and what each request has of its reader's bytes.                        *)
(***************************************************************************)
SubInv ==
  /\ Typed /\ BrokerInv
  /\ \A r \in Reader : OwnInv(r) /\ SeenInv(r)

LEMMA SubInvInit == SubInit => SubInv
<1> SUFFICES ASSUME SubInit
             PROVE  SubInv
  OBVIOUS
<1>1. Init
  BY DEF SubInit
<1> QED
  BY <1>1, TypeInit, SubTypeInit, InvInit, OwnInit DEF SubInv, Typed

LEMMA SubInvNext == SubInv /\ [SubNext]_subVars => SubInv'
<1> SUFFICES ASSUME SubInv, [SubNext]_subVars
             PROVE  SubInv'
  OBVIOUS
<1>1. [Next]_vars /\ Typed /\ TypeOK /\ SubTypeOK /\ BrokerInv
  BY StepRefines DEF SubInv, Typed
<1>2. TypeOK' /\ SubTypeOK' /\ BrokerInv'
  BY <1>1, TypeNext, SubTypeNext, InvNext
<1>3. ASSUME NEW r \in Reader
      PROVE  OwnInv(r)' /\ SeenInv(r)'
  BY <1>1, <1>2, OwnNext, SeenNext DEF SubInv
<1> QED
  BY <1>2, <1>3 DEF SubInv, Typed

LEMMA SubInvCorrect == SubSpec => []SubInv
BY SubInvInit, SubInvNext, PTL DEF SubSpec

\* A reader of the current bytes stands where what it has handed over ends.
LEMMA OutputEnds ==
  ASSUME TypeOK, NEW r \in Reader, OutputInv(r)
  PROVE  /\ rd[r].offset = rd[r].start + Len(rd[r].out)
         /\ rd[r].out # << >> => rd[r].offset <= Len(str)
<1> DEFINE s == rd[r].start
           o == rd[r].offset
<1>1. str \in Seq(Byte) /\ s \in Nat /\ o \in Nat /\ s <= o /\ (o = s \/ o <= Len(str))
      /\ rd[r].out = SubSeq(str, s + 1, o)
  BY DEF OutputInv, TypeOK, ReaderState
<1>2. CASE o = s
  <2>1. rd[r].out = << >>
    BY <1>1, <1>2, SubSeqEmpty
  <2> QED
    BY <1>1, <1>2, <2>1
<1>3. CASE o # s
  <2>1. \A i \in (s + 1)..o : str[i] \in Byte
    BY <1>1, <1>3
  <2>2. Len(SubSeq(str, s + 1, o)) = IF s + 1 <= o THEN o - (s + 1) + 1 ELSE 0
    BY <1>1, <2>1, SubSeqProperties
  <2>3. Len(rd[r].out) = IF s + 1 <= o THEN o - (s + 1) + 1 ELSE 0
    BY <1>1, <2>2, Zenon
  <2>4. Len(rd[r].out) = o - s
    <3> HIDE DEF s, o
    <3> QED
      BY <1>1, <1>3, <2>3
  <2> QED
    BY <1>1, <1>3, <2>4
<1> QED
  BY <1>2, <1>3

(***************************************************************************)
(* What the client has of a broker stream are the stored bytes from the    *)
(* offset it asked for, in order, through the goroutine and the channel.   *)
(***************************************************************************)
THEOREM ClientInOrderCorrect == SubSpec => []ClientInOrder
<1>1. SubInv => ClientInOrder
  <2> SUFFICES ASSUME SubInv, NEW r \in Reader, Current(r), req[r].sent # << >>
               PROVE  LET last == rd[r].start + Len(req[r].sent)
                      IN  /\ last <= Len(str)
                          /\ req[r].sent = SubSeq(str, rd[r].start + 1, last)
    BY DEF ClientInOrder
  <2>1. TypeOK /\ OutputInv(r) /\ Begins(req[r].sent, rd[r].out) /\ Typed
    BY DEF SubInv, Typed, BrokerInv, ReaderInv, OwnInv, FlowInv
  <2> DEFINE st == rd[r].start
             off == rd[r].offset
             o == rd[r].out
             s == req[r].sent
             n == Len(s)
  <2>2. /\ str \in Seq(Byte) /\ st \in Nat /\ off \in Nat /\ s \in Seq(Byte) /\ o \in Seq(Byte)
        /\ o = SubSeq(str, st + 1, off) /\ n <= Len(o) /\ s = SubSeq(o, 1, n) /\ s # << >>
    BY <2>1, OwnParts DEF TypeOK, ReaderState, OutputInv, Begins
  <2>3. off = st + Len(o) /\ (o # << >> => off <= Len(str))
    BY <2>1, OutputEnds
  <2> HIDE DEF st, off, o, s
  <2>4. n \in Nat /\ n >= 1 /\ Len(o) \in Nat /\ Len(o) >= 1
    <3>1. n \in Nat /\ n # 0 /\ Len(o) \in Nat
      BY <2>2
    <3> QED
      BY <2>2, <3>1
  <2>5. off <= Len(str) /\ Len(str) \in Nat
    <3>1. Len(str) \in Nat /\ Len(<< >>) = 0
      BY <2>2
    <3>2. o # << >>
      BY <2>4, <3>1
    <3> QED
      BY <2>3, <3>1, <3>2, Zenon
  <2>6. SubSeq(SubSeq(str, st + 1, off), 1, n) = SubSeq(str, st + 1 + 1 - 1, st + 1 + n - 1)
    <3>1. /\ st + 1 \in 1..Len(str) /\ off \in 1..Len(str)
          /\ 1 \in 1..(off - (st + 1) + 1) /\ n \in 1..(off - (st + 1) + 1)
      BY <2>2, <2>3, <2>4, <2>5
    <3> QED
      BY <2>2, <3>1, SubSeqOfSubSeq
  <2>7. st + 1 + 1 - 1 = st + 1 /\ st + 1 + n - 1 = st + n
    BY <2>2, <2>4
  <2>8. s = SubSeq(str, st + 1, st + n)
    BY <2>2, <2>6, <2>7, Zenon
  <2>9. st + n <= Len(str)
    BY <2>2, <2>3, <2>4, <2>5
  <2> QED
    BY <2>8, <2>9 DEF st, s
<1> QED
  BY <1>1, SubInvCorrect, PTL

(***************************************************************************)
(* A response that ends with EOF is complete: the end comes last through   *)
(* the channel, and the broker's readers do not end early.                 *)
(***************************************************************************)
THEOREM ResponseCompleteCorrect == SubSpec => []ResponseComplete
<1>1. SubInv => ResponseComplete
  <2> SUFFICES ASSUME SubInv, NEW r \in Reader, req[r].end = "eof", FromBroker(r),
                      rd[r].covered, Current(r)
               PROVE  rd[r].owed <= rd[r].start + Len(req[r].sent)
    BY DEF ResponseComplete
  <2>1. TypeOK /\ OutputInv(r) /\ EOFInv(r)
    BY DEF SubInv, Typed, BrokerInv, ReaderInv
  <2>2. rd[r].status = "eof" /\ Len(req[r].sent) = Len(rd[r].out)
    BY DEF SubInv, OwnInv, EndInv, FromBroker
  <2>3. rd[r].owed <= rd[r].offset
    BY <2>1, <2>2 DEF EOFInv
  <2> QED
    BY <2>1, <2>2, <2>3, OutputEnds
<1> QED
  BY <1>1, SubInvCorrect, PTL

(***************************************************************************)
(* A 204 is justified by what was stored when the stream was found done,   *)
(* if nothing was discarded until its length was asked for.                *)
(***************************************************************************)
THEOREM NoContentCorrect == SubSpec => NoContentJustified
<1> DEFINE Justified ==
             \A r \in Reader :
               ( /\ req'[r].answer = "204"
                 /\ req[r].answer # "204"
                 /\ req[r].seen.epoch = epoch )
               => req[r].seen.len <= rd[r].start
<1>1. SubInv /\ [SubNext]_subVars => [Justified]_subVars
  <2> SUFFICES ASSUME SubInv, SubNext, NEW r \in Reader,
                      req'[r].answer = "204", req[r].answer # "204", req[r].seen.epoch = epoch
               PROVE  req[r].seen.len <= rd[r].start
    OBVIOUS
  <2>1. Typed
    BY DEF SubInv
  <2>2. ~UNCHANGED req
    OBVIOUS
  <2>3. ~Panic
    <3>1. ASSUME Panic
          PROVE  req'[r].answer = req[r].answer
      BY <2>1, <3>1, OwnParts DEF Panic, Request
    <3> QED
      BY <3>1
  <2>4. HandlerStep(r) \/ GoStep(r) \/ ClientLeaves(r)
    BY <2>1, <2>2, <2>3, OthersSame DEF SubNext, Around
  <2>5. /\ Copying(req[r]).answer = "200"
        /\ \A status : Answered(req[r], status).answer = status
    BY <2>1, OwnParts DEF Copying, Answered, Request
  <2>6. ~(GoStep(r) \/ ClientLeaves(r))
    BY <2>1, GoKeeps
  <2>7. ~(Take(r) \/ NoticeGone(r) \/ Heartbeat(r))
    BY <2>1, <2>2, CopyKeeps DEF Heartbeat
  <2>8. ASSUME NEW off, NEW sse, NEW answered, OpenSub(r, off, sse, answered)
        PROVE  req'[r].answer = req[r].answer
    BY <2>1, <2>8, OwnParts DEF OpenSub, Request
  <2>9. ASSUME NEW answered, AskDone(r, answered)
        PROVE  req'[r].answer # "204"
    BY <2>1, <2>5, <2>9, OwnParts DEF AskDone, Request
  <2>10. ASSUME NEW res, GetBlob(r, res)
         PROVE  req'[r].answer # "204"
    <3>1. \/ req' = [req EXCEPT ![r] = Copying(req[r])]
          \/ \E status \in {"404", "416", "500"} : req' = [req EXCEPT ![r] = Answered(req[r], status)]
          \/ \E left : req' = [req EXCEPT ![r] = [req[r] EXCEPT !.left = left]]
      BY <2>1, <2>10, OwnParts DEF GetBlob
    <3>2. ASSUME NEW left, req' = [req EXCEPT ![r] = [req[r] EXCEPT !.left = left]]
          PROVE  req'[r].answer = req[r].answer
      BY <2>1, <3>2, OwnParts DEF Request
    <3>3. ASSUME NEW q, req' = [req EXCEPT ![r] = q], q.answer # "204"
          PROVE  req'[r].answer # "204"
      BY <2>1, <3>3, OwnParts
    <3> QED
      BY <2>5, <3>1, <3>2, <3>3
  <2>11. PICK answered \in BOOLEAN : AskLength(r, answered)
    BY <2>4, <2>6, <2>7, <2>8, <2>9, <2>10 DEF HandlerStep
  <2>12. req[r].phase = "length?" /\ NothingLeft(rd[r].start, Len(str))
    <3>1. req'[r] = IF answered /\ NothingLeft(rd[r].start, Len(str))
                      THEN Answered(req[r], "204") ELSE Copying(req[r])
      BY <2>1, <2>11, OwnParts DEF AskLength
    <3> QED
      BY <2>5, <2>11, <3>1 DEF AskLength
  <2>13. req[r].seen.len <= Len(str)
    BY <2>12 DEF SubInv, SeenInv
  <2>14. rd[r].start \in Nat /\ Len(str) \in Nat /\ req[r].seen.len \in Nat
    <3>1. rd[r].start \in Nat /\ req[r].seen.len \in Nat
      BY <2>1, OwnParts DEF ReaderState, Request
    <3> QED
      BY <2>1, <3>1 DEF Typed, TypeOK
  <2> QED
    BY <2>12, <2>13, <2>14 DEF NothingLeft
<1> QED
  BY <1>1, SubInvCorrect, PTL DEF SubSpec, NoContentJustified
=============================================================================
