---------------------------- MODULE StreamProofs ----------------------------
(***************************************************************************)
(* The broker implements the log of Stream: the keys, messages and         *)
(* subscriptions of Redis, seen through the mapping of Broker, take only   *)
(* steps of a log with cursors.                                            *)
(***************************************************************************)
EXTENDS BrokerProofs

\* A reader stands where the bytes it has handed over end.
CursorInv == \A r \in Reader : rd[r].offset = rd[r].start + Len(rd[r].out)

\* Everything a step of the broker is judged by.
LogInv == TypeOK /\ BrokerInv /\ CursorInv

\* What of a reader the log sees.
CursorOf(rec) == [status |-> CursorStatus(rec.status), from |-> rec.start, out |-> rec.out]

Told == {r \in Reader : KillUnderWay(r)}

Cursors == [r \in Reader |-> CursorOf(rd[r])]

LEMMA CursorInit == Init => CursorInv
BY DEF Init, CursorInv, NewReaderState

\* A fetch moves the reader on by as many bytes as it hands over.
LEMMA FetchMoves ==
  ASSUME TypeOK, NEW r \in Reader, CursorInv
  PROVE  /\ Advanced(r).offset = Advanced(r).start + Len(Advanced(r).out)
         /\ Advanced(r).start = rd[r].start
         /\ Advanced(r).status = rd[r].status
         /\ Advanced(r).queue = rd[r].queue
         /\ Advanced(r).out = rd[r].out \o GetRange(str, rd[r].offset)
<1> DEFINE g == GetRange(str, rd[r].offset)
<1>1. rd[r] \in ReaderState /\ str \in Seq(Byte)
  BY DEF TypeOK
<1>2. /\ rd[r].out \in Seq(Byte) /\ rd[r].offset \in Nat /\ rd[r].start \in Nat
      /\ Len(rd[r].out) \in Nat
  BY <1>1 DEF ReaderState
<1>3. g \in Seq(Byte) /\ Len(g) \in Nat
  BY <1>1, <1>2, GetRangeIsSeq
<1>4. Len(rd[r].out \o g) = Len(rd[r].out) + Len(g)
  BY <1>2, <1>3, ConcatProperties
<1>5. rd[r].offset = rd[r].start + Len(rd[r].out)
  BY DEF CursorInv
<1> HIDE DEF g
<1>6. Advanced(r) = [rd[r] EXCEPT !.offset = rd[r].offset + Len(g), !.out = rd[r].out \o g]
  BY DEF Advanced, g
<1>7. /\ Advanced(r).offset = rd[r].offset + Len(g) /\ Advanced(r).out = rd[r].out \o g
      /\ Advanced(r).start = rd[r].start /\ Advanced(r).status = rd[r].status
      /\ Advanced(r).queue = rd[r].queue
  BY <1>1, <1>6 DEF ReaderState
<1>8. Advanced(r).offset = Advanced(r).start + Len(Advanced(r).out)
  <2>1. Len(Advanced(r).out) = Len(rd[r].out) + Len(g)
    BY <1>4, <1>7, Zenon
  <2> QED
    BY <2>1, <1>2, <1>3, <1>5, <1>7
<1> QED
  BY <1>7, <1>8 DEF g

LEMMA CursorNext == LogInv /\ [Next]_vars => CursorInv'
<1> SUFFICES ASSUME LogInv, [Next]_vars, NEW r \in Reader
             PROVE  (rd[r].offset = rd[r].start + Len(rd[r].out))'
  BY DEF CursorInv
<1> DEFINE Kept == /\ rd'[r].offset = rd[r].offset /\ rd'[r].start = rd[r].start
                   /\ rd'[r].out = rd[r].out
<1>t. TypeOK /\ BrokerInv /\ CursorInv /\ rd \in [Reader -> ReaderState]
  BY DEF LogInv, TypeOK
<1>k. Kept => (rd[r].offset = rd[r].start + Len(rd[r].out))'
  BY <1>t DEF CursorInv
<1> HIDE DEF Kept
<1>p. ASSUME NEW ch, NEW len, rd' = Published(ch, len)
      PROVE  Kept
  BY <1>p, <1>t DEF Published, ReaderState, Kept
<1>1. CASE UNCHANGED rd
  BY <1>1, <1>k DEF Kept
<1>2. CASE OtherPublish
  BY <1>2, <1>k, <1>p DEF OtherPublish
<1>3. CASE FetchPanics
  BY <1>3, <1>k, <1>t DEF FetchPanics, ClosedConn, ReaderState, Kept
<1>4. ASSUME NEW w \in Writer, WriterStep(w)
      PROVE  (rd[r].offset = rd[r].start + Len(rd[r].out))'
  <2>1. UNCHANGED rd \/ \E ch, len : rd' = Published(ch, len)
    BY <1>4 DEF WriterStep, NewWriter, Write, WriteFails, CloseWriter, CloseLost
  <2> QED
    BY <2>1, <1>1, <1>k, <1>p
<1>5. ASSUME NEW q \in Reader, ReaderStep(q)
      PROVE  (rd[r].offset = rd[r].start + Len(rd[r].out))'
  <2>1. ASSUME q # r, NEW v, rd' = [rd EXCEPT ![q] = v]
        PROVE  Kept
    BY <2>1, <1>t DEF Kept
  <2>2. CASE \E off \in StartOffset, answered \in BOOLEAN : NewReader(q, off, answered)
    <3> PICK off \in StartOffset, answered \in BOOLEAN : NewReader(q, off, answered)
      BY <2>2
    <3>1. CASE q = r
      <4>1. off \in Nat /\ rd[r].out = << >>
        BY <3>1, <1>t, BrokerAssumption DEF BrokerInv, ReaderInv, ConnInv, NewReader
      <4>2. CASE answered /\ IsRegistered
        <5>1. rd'[r] = [rd[r] EXCEPT !.status = "reading", !.conn = "sent", !.offset = off,
                                     !.start = off, !.epoch = epoch]
          BY <4>2, <3>1, <1>t DEF NewReader
        <5>2. rd'[r].offset = off /\ rd'[r].start = off /\ rd'[r].out = rd[r].out
          BY <5>1, <1>t DEF ReaderState
        <5> QED
          BY <5>2, <4>1
      <4>3. CASE ~(answered /\ IsRegistered)
        BY <4>3, <3>1, <1>t, <1>k DEF NewReader, ReaderState, Kept
      <4> QED
        BY <4>2, <4>3
    <3>2. CASE q # r
      BY <3>2, <2>1, <1>k DEF NewReader
    <3> QED
      BY <3>1, <3>2
  <2>3. CASE PSubscribed(q)
    <3>1. PICK queue : rd' = [rd EXCEPT ![q] = [rd[q] EXCEPT !.conn = "subscribed", !.queue = queue]]
      BY <2>3, <1>t DEF PSubscribed, ReaderState
    <3>2. Kept
      BY <3>1, <1>t DEF ReaderState, Kept
    <3> QED
      BY <3>2, <1>k
  <2>9. CASE ReceiveOther(q)
    <3>1. Kept
      BY <2>9, <1>t DEF ReceiveOther, ReaderState, Kept
    <3> QED
      BY <3>1, <1>k
  <2>10. CASE ReceiveError(q)
    <3>1. Kept
      BY <2>10, <1>t DEF ReceiveError, ReaderState, Kept
    <3> QED
      BY <3>1, <1>k
  <2>8. CASE \E n \in 0..Len(rd[q].queue) : ConnLost(q, n)
    <3>1. PICK n \in 0..Len(rd[q].queue) : ConnLost(q, n)
      BY <2>8
    <3>2. rd' = [rd EXCEPT ![q] = [rd[q] EXCEPT !.conn = "lost",
                                                !.queue = SubSeq(rd[q].queue, 1, n)]]
      BY <3>1, <1>t DEF ConnLost, ReaderState
    <3>3. Kept
      BY <3>2, <1>t DEF ReaderState, Kept
    <3> QED
      BY <3>3, <1>k
  <2>4. CASE CloseReader(q)
    <3>1. Kept
      BY <2>4, <1>t DEF CloseReader, ClosedConn, ReaderState, Kept
    <3> QED
      BY <3>1, <1>k
  <2>5. CASE Replay(q)
    <3>a. Advanced(r) \in ReaderState
      BY <1>t, AdvancedIsState DEF TypeOK
    <3>1. CASE q = r
      <4>1. /\ rd'[r].offset = Advanced(r).offset /\ rd'[r].start = Advanced(r).start
            /\ rd'[r].out = Advanced(r).out
        BY <2>5, <3>1, <3>a, <1>t DEF Replay, ReaderState
      <4> QED
        BY <4>1, <1>t, FetchMoves
    <3>2. CASE q # r
      BY <3>2, <2>5, <2>1, <1>k DEF Replay
    <3> QED
      BY <3>1, <3>2
  <2>6. CASE Receive(q)
    <3>a. Advanced(r) \in ReaderState
      BY <1>t, AdvancedIsState DEF TypeOK
    <3>1. CASE q = r
      <4>1. /\ rd'[r].offset = Advanced(r).offset /\ rd'[r].start = Advanced(r).start
            /\ rd'[r].out = Advanced(r).out
        BY <2>6, <3>1, <3>a, <1>t DEF Receive, ClosedConn, ReaderState
      <4> QED
        BY <4>1, <1>t, FetchMoves
    <3>2. CASE q # r
      BY <3>2, <2>6, <2>1, <1>k DEF Receive
    <3> QED
      BY <3>1, <3>2
  <2>7. CASE RenewExpiry(q) \/ LateFetch(q)
    BY <2>7, <1>1 DEF RenewExpiry, LateFetch
  <2> QED
    BY <1>5, <2>2, <2>3, <2>4, <2>5, <2>6, <2>7, <2>8, <2>9, <2>10
     DEF ReaderStep, ReadStep
<1> QED
  BY <1>1, <1>2, <1>3, <1>4, <1>5 DEF Next, Register, Tick, vars

-----------------------------------------------------------------------------
(* The initial state, and the steps that change no cursor.                 *)

\* The word of a close is waiting for a reader that stands as rec says.
KillIn(rec) == rec.status = "reading" /\ \E i \in 1..Len(rec.queue) : rec.queue[i].ch = "kill"

LEMMA LogInit == Init => Log!StreamInit
<1> SUFFICES ASSUME Init
             PROVE  Log!StreamInit
  OBVIOUS
<1>1. \A r \in Reader : rd[r] = NewReaderState
  BY DEF Init
<1>2. Told = {}
  BY <1>1 DEF Told, KillUnderWay, NewReaderState
<1>3. Cursors = [r \in Reader |-> [status |-> "idle", from |-> 0, out |-> << >>]]
  BY <1>1 DEF Cursors, CursorOf, NewReaderState, CursorStatus
<1>4. str = << >> /\ IsRegistered = FALSE /\ Done = FALSE
  BY DEF Init, IsRegistered, Done
<1> QED
  BY <1>2, <1>3, <1>4 DEF Log!StreamInit, Log!NoCursor, Told, Cursors, CursorOf

\* Messages change nothing the log sees of a reader but that it is told.
LEMMA PublishedSeen ==
  ASSUME TypeOK, NEW ch \in {"id", "kill", "other"}, NEW len \in Nat, rd' = Published(ch, len)
  PROVE  /\ Cursors' = Cursors
         /\ ch # "kill" => Told' = Told
         /\ \E S \in SUBSET {r \in Reader : Cursors[r].status = "open"} :
              ch = "kill" => Told' = Told \cup S
<1> DEFINE m == [ch |-> ch, len |-> len]
           S == {r \in Reader : rd[r].status = "reading" /\ rd[r].conn = "subscribed"}
<1>1. m \in Message /\ m.ch = ch
  BY DEF Message
<1>2. rd \in [Reader -> ReaderState]
  BY DEF TypeOK
<1>3. ASSUME NEW r \in Reader
      PROVE  /\ CursorOf(rd'[r]) = CursorOf(rd[r])
             /\ KillIn(rd'[r]) <=> (KillIn(rd[r]) \/ (ch = "kill" /\ r \in S))
  <2>1. CASE rd[r].conn # "subscribed"
    BY <2>1, <1>2 DEF Published
  <2>2. CASE rd[r].conn = "subscribed"
    <3>1. PICK q \in Seq(Message) : q = rd[r].queue
      BY <1>2 DEF ReaderState
    <3>2. /\ Len(Append(q, m)) = Len(q) + 1 /\ Append(q, m)[Len(q) + 1] = m
          /\ \A i \in 1..Len(q) : Append(q, m)[i] = q[i]
      BY <1>1, <3>1, AppendProperties
    <3> HIDE DEF m
    <3>3. rd'[r] = [rd[r] EXCEPT !.queue = Append(q, m)]
      BY <2>2, <3>1 DEF Published, m
    <3>4. /\ rd'[r].status = rd[r].status /\ rd'[r].start = rd[r].start
          /\ rd'[r].out = rd[r].out /\ rd'[r].queue = Append(q, m)
      BY <1>2, <3>3 DEF ReaderState
    <3>5. (\E i \in 1..Len(Append(q, m)) : Append(q, m)[i].ch = "kill")
            <=> (\E i \in 1..Len(q) : q[i].ch = "kill") \/ ch = "kill"
      <4>1. Len(q) \in Nat
        OBVIOUS
      <4> QED
        BY <1>1, <3>2, <4>1
    <3> QED
      BY <2>2, <3>1, <3>4, <3>5 DEF KillIn, CursorOf
  <2> QED
    BY <2>1, <2>2
<1> HIDE DEF m
<1>4. Cursors' = Cursors
  BY <1>3 DEF Cursors
<1>5. Told = {r \in Reader : KillIn(rd[r])} /\ Told' = {r \in Reader : KillIn(rd'[r])}
  BY DEF Told, KillUnderWay, KillIn
<1>6. S \in SUBSET {r \in Reader : Cursors[r].status = "open"}
  BY DEF Cursors, CursorOf, CursorStatus
<1> HIDE DEF S
<1>7. ch # "kill" => Told' = Told
  BY <1>3, <1>5
<1>8. ch = "kill" => Told' = Told \cup S
  BY <1>3, <1>5, <1>6
<1> QED
  BY <1>4, <1>6, <1>7, <1>8

LEMMA RegisterSeen == TypeOK /\ Register => Log!Create
<1> SUFFICES ASSUME TypeOK, Register
             PROVE  Log!Create
  OBVIOUS
<1>1. str' = << >> /\ IsRegistered' = TRUE /\ UNCHANGED <<doneTTL, rd>>
  BY BrokerAssumption DEF Register, IsRegistered
<1> QED
  BY <1>1 DEF Log!Create, Done, KillUnderWay

LEMMA TickSeen == TypeOK /\ Tick => Log!Expire
<1> SUFFICES ASSUME TypeOK, Tick
             PROVE  Log!Expire
  OBVIOUS
<1>1. idTTL \in Nat /\ doneTTL \in Nat /\ UNCHANGED rd
  BY DEF TypeOK, Tick
<1>2. \/ IsRegistered' = IsRegistered /\ str' = str
      \/ IsRegistered' = FALSE /\ str' = << >>
  <2>1. CASE idTTL = 1
    BY <1>1, <2>1 DEF Tick, IsRegistered
  <2>2. CASE idTTL # 1
    BY <1>1, <2>2 DEF Tick, IsRegistered
  <2> QED
    BY <2>1, <2>2
<1>3. Done' = Done \/ Done' = FALSE
  BY <1>1 DEF Tick, Done
<1> QED
  BY <1>1, <1>2, <1>3 DEF Log!Expire, KillUnderWay

LEMMA WriterSeen ==
  ASSUME TypeOK, NEW w \in Writer, WriterStep(w)
  PROVE  [Log!StreamNext]_(Log!streamVars)
<1>1. CASE UNCHANGED <<str, idTTL, doneTTL, rd>>
  BY <1>1 DEF Log!streamVars, IsRegistered, Done, KillUnderWay
<1>2. CASE \E p \in Chunk, replied \in BOOLEAN : Write(w, p, replied)
  <2> PICK p \in Chunk, replied \in BOOLEAN : Write(w, p, replied)
    BY <1>2
  <2>1. Len(str) + Len(p) \in Nat
    BY ChunkIsSeq DEF TypeOK
  <2>2. Cursors' = Cursors /\ Told' = Told
    BY <2>1, PublishedSeen DEF Write
  <2>3. str' = str \o p /\ IsRegistered' = TRUE /\ Done' = FALSE
    BY BrokerAssumption DEF Write, IsRegistered, Done
  <2>4. Log!Publish(p)
    BY <2>2, <2>3 DEF Log!Publish, Cursors, CursorOf, Told
  <2> QED
    BY <2>4 DEF Log!StreamNext
<1>3. CASE CloseWriter(w)
  <2>1. Len(str) \in Nat
    BY DEF TypeOK
  <2>2. PICK S \in SUBSET {r \in Reader : Cursors[r].status = "open"} : Told' = Told \cup S
    BY <1>3, <2>1, PublishedSeen DEF CloseWriter
  <2>3. Cursors' = Cursors
    BY <1>3, <2>1, PublishedSeen DEF CloseWriter
  <2>4. UNCHANGED <<str, IsRegistered>> /\ Done' = TRUE
    BY <1>3, BrokerAssumption DEF CloseWriter, IsRegistered, Done
  <2>5. Log!Close
    BY <2>2, <2>3, <2>4 DEF Log!Close, Cursors, CursorOf, Told
  <2> QED
    BY <2>5 DEF Log!StreamNext
<1> QED
  BY <1>1, <1>2, <1>3 DEF WriterStep, NewWriter, WriteFails, CloseLost

-----------------------------------------------------------------------------
(* The steps of one reader.                                                *)

\* A step of r alone changes r's cursor, and whether it is told, as r's record says.
LEMMA OneSeen ==
  ASSUME TypeOK, NEW r \in Reader, NEW v, rd' = [rd EXCEPT ![r] = v]
  PROVE  /\ Cursors' = [Cursors EXCEPT ![r] = CursorOf(v)]
         /\ (KillIn(v) <=> KillIn(rd[r])) => Told' = Told
         /\ ~KillIn(v) => Told' = Told \ {r}
<1>1. rd \in [Reader -> ReaderState]
  BY DEF TypeOK
<1>2. Told = {q \in Reader : KillIn(rd[q])} /\ Told' = {q \in Reader : KillIn(rd'[q])}
  BY DEF Told, KillUnderWay, KillIn
<1>3. \A q \in Reader : rd'[q] = IF q = r THEN v ELSE rd[q]
  BY <1>1
<1>4. Cursors' = [Cursors EXCEPT ![r] = CursorOf(v)]
  <2>1. \A q \in Reader : CursorOf(rd'[q]) = IF q = r THEN CursorOf(v) ELSE CursorOf(rd[q])
    BY <1>3
  <2> QED
    BY <2>1 DEF Cursors
<1>5. (KillIn(v) <=> KillIn(rd[r])) => Told' = Told
  BY <1>2, <1>3
<1>6. ~KillIn(v) => Told' = Told \ {r}
  BY <1>2, <1>3
<1> QED
  BY <1>4, <1>5, <1>6

\* What a fetch hands over is what the log has next, and all of it when
\* nothing is left in the store.
LEMMA FetchSeen ==
  ASSUME LogInv, NEW r \in Reader
  PROVE  \E n \in 0..Log!Left(r) :
           /\ CursorOf(Advanced(r)) = Log!HandedOver(r, n)
           /\ ~Buffered(rd[r].offset, Len(str)) => n = Log!Left(r)
<1> DEFINE off == rd[r].offset
           g == GetRange(str, off)
<1>1. /\ TypeOK /\ CursorInv /\ str \in Seq(Byte) /\ Len(str) \in Nat
      /\ rd[r] \in ReaderState
      /\ off \in Nat /\ ReadLen \in Nat \ {0}
  BY BrokerAssumption DEF LogInv, TypeOK, ReaderState
<1>2. Log!At(r) = off
  BY <1>1 DEF Log!At, CursorInv
<1>3. Log!Left(r) = IF off < Len(str) THEN Len(str) - off ELSE 0
  BY <1>2 DEF Log!Left
<1>4. /\ Advanced(r).start = rd[r].start /\ Advanced(r).status = rd[r].status
      /\ Advanced(r).out = rd[r].out \o g
  BY <1>1, FetchMoves
<1> DEFINE n == Len(g)
<1>5. n \in 0..Log!Left(r) /\ (~Buffered(off, Len(str)) => n = Log!Left(r))
  BY <1>1, <1>3, GetRangeIsSeq DEF Buffered
<1>6. g = SubSeq(str, off + 1, off + n)
  <2>1. CASE off >= Len(str)
    <3>1. n = 0
      BY <1>1, <2>1, GetRangeIsSeq
    <3>2. g = << >>
      BY <1>1, <3>1, GetRangeIsSeq, EmptySeq
    <3>3. SubSeq(str, off + 1, off + n) = << >>
      BY <1>1, <3>1, SubSeqEmpty
    <3> QED
      BY <3>2, <3>3
  <2>2. CASE off < Len(str) /\ off + ReadLen <= Len(str)
    <3>1. n = ReadLen
      BY <1>1, <2>2, GetRangeIsSeq
    <3> QED
      BY <2>2, <3>1 DEF GetRange
  <2>3. CASE off < Len(str) /\ off + ReadLen > Len(str)
    <3>1. n = Len(str) - off
      BY <1>1, <2>3, GetRangeIsSeq
    <3>2. off + n = Len(str) /\ ~(off + ReadLen <= Len(str))
      BY <1>1, <2>3, <3>1
    <3> QED
      BY <3>2 DEF GetRange
  <2> QED
    BY <1>1, <2>1, <2>2, <2>3
<1> HIDE DEF g, n
<1>7. CursorOf(Advanced(r)) = [status |-> CursorStatus(rd[r].status), from |-> rd[r].start,
                               out |-> rd[r].out \o g]
  BY <1>4, Zenon DEF CursorOf
<1>8. Log!HandedOver(r, n) = [status |-> CursorStatus(rd[r].status), from |-> rd[r].start,
                              out |-> rd[r].out \o SubSeq(str, off + 1, off + n)]
  <2>1. Cursors[r] = [status |-> CursorStatus(rd[r].status), from |-> rd[r].start,
                      out |-> rd[r].out]
    BY DEF Cursors, CursorOf
  <2>2. Log!HandedOver(r, n) =
          [Cursors[r] EXCEPT !.out = Cursors[r].out \o SubSeq(str, Log!At(r) + 1, Log!At(r) + n)]
    BY DEF Log!HandedOver, Cursors, CursorOf
  <2>3. Log!HandedOver(r, n) =
          [Cursors[r] EXCEPT !.out = Cursors[r].out \o SubSeq(str, off + 1, off + n)]
    BY <1>2, <2>2, Zenon
  <2>4. ASSUME NEW s, NEW a, NEW b, NEW d
        PROVE  [[status |-> s, from |-> a, out |-> b] EXCEPT !.out = d]
                 = [status |-> s, from |-> a, out |-> d]
    OBVIOUS
  <2>5. Cursors[r].out = rd[r].out
    BY <2>1
  <2>6. Log!HandedOver(r, n) =
          [[status |-> CursorStatus(rd[r].status), from |-> rd[r].start, out |-> rd[r].out]
             EXCEPT !.out = rd[r].out \o SubSeq(str, off + 1, off + n)]
    BY <2>1, <2>3, <2>5
  <2> QED
    BY <2>4, <2>6, Zenon
<1> QED
  BY <1>5, <1>6, <1>7, <1>8

LEMMA NewReaderSeen ==
  ASSUME LogInv, NEW r \in Reader, NEW off \in StartOffset, NEW answered \in BOOLEAN,
         NewReader(r, off, answered)
  PROVE  Log!Open(r, off) \/ Log!Refuse(r)
<1>1. /\ TypeOK /\ rd[r] \in ReaderState
      /\ rd[r].status = "new" /\ rd[r].out = << >> /\ rd[r].queue = << >>
      /\ UNCHANGED <<str, IsRegistered, Done>>
  BY DEF LogInv, TypeOK, BrokerInv, ReaderInv, ConnInv, NewReader, IsRegistered, Done
<1>2. ~KillIn(rd[r])
  BY <1>1 DEF KillIn
<1>3. CASE answered /\ IsRegistered
  <2> DEFINE v == [rd[r] EXCEPT !.status = "reading", !.conn = "sent", !.offset = off,
                                !.start = off, !.epoch = epoch]
  <2>1. rd' = [rd EXCEPT ![r] = v]
    BY <1>3 DEF NewReader
  <2>2. v.status = "reading" /\ v.start = off /\ v.out = << >> /\ v.queue = << >>
    BY <1>1 DEF ReaderState
  <2> HIDE DEF v
  <2>3. ~KillIn(v)
    BY <2>2 DEF KillIn
  <2>4. CursorOf(v) = [status |-> "open", from |-> off, out |-> << >>]
    BY <2>2 DEF CursorOf, CursorStatus
  <2>5. Cursors' = [Cursors EXCEPT ![r] = CursorOf(v)] /\ Told' = Told
    BY <1>1, <1>2, <2>1, <2>3, OneSeen
  <2>6. Cursors[r].status = "idle"
    BY <1>1 DEF Cursors, CursorOf, CursorStatus
  <2>7. Log!Open(r, off)
    BY <1>1, <1>3, <2>4, <2>5, <2>6 DEF Log!Open, Cursors, CursorOf, Told
  <2> QED
    BY <2>7
<1>4. CASE ~(answered /\ IsRegistered)
  <2> DEFINE v == [rd[r] EXCEPT !.status = "refused"]
  <2>1. rd' = [rd EXCEPT ![r] = v]
    BY <1>4 DEF NewReader
  <2>2. v.status = "refused" /\ v.start = rd[r].start /\ v.out = rd[r].out
    BY <1>1 DEF ReaderState
  <2> HIDE DEF v
  <2>3. ~KillIn(v)
    BY <2>2 DEF KillIn
  <2>4. CursorOf(v) = [CursorOf(rd[r]) EXCEPT !.status = "refused"]
    BY <2>2 DEF CursorOf, CursorStatus
  <2>5. Cursors' = [Cursors EXCEPT ![r] = CursorOf(v)] /\ Told' = Told
    BY <1>1, <1>2, <2>1, <2>3, OneSeen
  <2>6. Cursors[r].status = "idle" /\ Cursors[r] = CursorOf(rd[r])
    BY <1>1 DEF Cursors, CursorOf, CursorStatus
  <2>7. Cursors' = [Cursors EXCEPT ![r].status = "refused"]
    BY <2>4, <2>5, <2>6
  <2>8. Log!Refuse(r)
    BY <1>1, <2>5, <2>6, <2>7 DEF Log!Refuse, Cursors, CursorOf, Told
  <2> QED
    BY <2>8
<1> QED
  BY <1>3, <1>4

\* A fetch that is not the last delivers.
LEMMA DeliverSeen ==
  ASSUME LogInv, NEW r \in Reader, NEW v, rd' = [rd EXCEPT ![r] = v],
         rd[r].status = "reading", UNCHANGED <<str, IsRegistered, Done>>,
         CursorOf(v) = CursorOf(Advanced(r)), KillIn(v) <=> KillIn(rd[r])
  PROVE  \E n \in 0..Log!Left(r) : Log!Deliver(r, n)
<1>1. PICK n \in 0..Log!Left(r) : CursorOf(Advanced(r)) = Log!HandedOver(r, n)
  BY FetchSeen
<1>2. Cursors' = [Cursors EXCEPT ![r] = Log!HandedOver(r, n)] /\ Told' = Told
  BY <1>1, OneSeen DEF LogInv
<1>3. Cursors[r].status = "open"
  BY DEF Cursors, CursorOf, CursorStatus
<1>4. Log!Deliver(r, n)
  BY <1>2, <1>3 DEF Log!Deliver, Cursors, CursorOf, Told
<1> QED
  BY <1>4

\* The last fetch ends: with everything that is left, or because of a kill.
LEMMA EndSeen ==
  ASSUME LogInv, NEW r \in Reader, NEW v, rd' = [rd EXCEPT ![r] = v],
         rd[r].status = "reading", UNCHANGED <<str, IsRegistered, Done>>,
         CursorOf(v) = [CursorOf(Advanced(r)) EXCEPT !.status = "ended"], ~KillIn(v),
         KillIn(rd[r]) \/ FetchEOF(r)
  PROVE  \E n \in 0..Log!Left(r) : Log!End(r, n)
<1>1. PICK n \in 0..Log!Left(r) :
        /\ CursorOf(Advanced(r)) = Log!HandedOver(r, n)
        /\ ~Buffered(rd[r].offset, Len(str)) => n = Log!Left(r)
  BY FetchSeen
<1>2. /\ Cursors' = [Cursors EXCEPT ![r] = [Log!HandedOver(r, n) EXCEPT !.status = "ended"]]
      /\ Told' = Told \ {r}
  BY <1>1, OneSeen DEF LogInv
<1>3. Cursors[r].status = "open"
  BY DEF Cursors, CursorOf, CursorStatus
<1>4. r \in Told \/ (Done /\ n = Log!Left(r))
  BY <1>1 DEF FetchEOF, KillIn, Told, KillUnderWay
<1>5. Log!End(r, n)
  BY <1>2, <1>3, <1>4 DEF Log!End, Cursors, CursorOf, Told
<1> QED
  BY <1>5

LEMMA ReplaySeen ==
  ASSUME LogInv, NEW r \in Reader, Replay(r)
  PROVE  \E n \in 0..Log!Left(r) : Log!Deliver(r, n) \/ Log!End(r, n)
<1> DEFINE a == Advanced(r)
<1>1. /\ TypeOK /\ CursorInv /\ idTTL \in 0..ChannelExpire /\ rd[r].status = "reading"
      /\ a \in ReaderState
  BY AdvancedIsState DEF LogInv, TypeOK, Replay
<1>2. UNCHANGED <<str, IsRegistered, Done>>
  BY <1>1, BrokerAssumption DEF Replay, IsRegistered, Done, Renewed
<1>3. /\ a.status = rd[r].status /\ a.queue = rd[r].queue
  BY <1>1, FetchMoves
<1> HIDE DEF a
<1> DEFINE v == [a EXCEPT !.replayed = CaughtUp(r),
                          !.covered = (rd[r].conn # "sent"),
                          !.status = IF FetchEOF(r) THEN "eof" ELSE @,
                          !.owed = IF FetchEOF(r) THEN Len(str) ELSE @]
<1>4. /\ rd' = [rd EXCEPT ![r] = v]
      /\ v.status = IF FetchEOF(r) THEN "eof" ELSE "reading"
      /\ v.start = a.start /\ v.out = a.out /\ v.queue = a.queue
  <2>1. rd' = [rd EXCEPT ![r] = v]
    BY DEF Replay, a
  <2>2. v.status = IF FetchEOF(r) THEN "eof" ELSE "reading"
    BY <1>1, <1>3 DEF ReaderState
  <2>3. v.start = a.start /\ v.out = a.out /\ v.queue = a.queue
    BY <1>1 DEF ReaderState
  <2> QED
    BY <2>1, <2>2, <2>3
<1> HIDE DEF v
<1>5. CASE FetchEOF(r)
  <2>1. CursorOf(v) = [CursorOf(a) EXCEPT !.status = "ended"] /\ ~KillIn(v)
    BY <1>4, <1>5 DEF CursorOf, CursorStatus, KillIn
  <2> QED
    BY <1>1, <1>2, <1>4, <1>5, <2>1, EndSeen DEF a
<1>6. CASE ~FetchEOF(r)
  <2>1. CursorOf(v) = CursorOf(a) /\ (KillIn(v) <=> KillIn(rd[r]))
    BY <1>1, <1>3, <1>4, <1>6 DEF CursorOf, KillIn
  <2> QED
    BY <1>1, <1>2, <1>4, <2>1, DeliverSeen DEF a
<1> QED
  BY <1>5, <1>6

\* A message leaves the queue.
LEMMA TailKeepsKills ==
  ASSUME NEW q \in Seq(Message), q # << >>, Head(q).ch # "kill"
  PROVE  (\E i \in 1..Len(q) : q[i].ch = "kill")
           <=> (\E i \in 1..Len(Tail(q)) : Tail(q)[i].ch = "kill")
<1>1. /\ Len(q) \in Nat /\ Len(q) > 0 /\ Len(Tail(q)) = Len(q) - 1 /\ q[1].ch # "kill"
      /\ \A i \in 1..Len(q) - 1 : Tail(q)[i] = q[i + 1]
  BY HeadTailProperties, EmptySeq
<1> DEFINE t == Tail(q)
<1> HIDE DEF t
<1>2. ASSUME NEW i \in 1..Len(q), q[i].ch = "kill"
      PROVE  \E j \in 1..Len(t) : t[j].ch = "kill"
  <2>1. i - 1 \in 1..Len(t) /\ (i - 1) + 1 = i
    BY <1>1, <1>2 DEF t
  <2>2. t[i - 1] = q[i]
    BY <1>1, <2>1 DEF t
  <2> QED
    BY <1>2, <2>1, <2>2
<1>3. ASSUME NEW i \in 1..Len(t), t[i].ch = "kill"
      PROVE  \E j \in 1..Len(q) : q[j].ch = "kill"
  <2>1. i + 1 \in 1..Len(q) /\ t[i] = q[i + 1]
    BY <1>1 DEF t
  <2> QED
    BY <1>3, <2>1
<1> QED
  BY <1>2, <1>3 DEF t

LEMMA ReceiveSeen ==
  ASSUME LogInv, NEW r \in Reader, Receive(r)
  PROVE  \E n \in 0..Log!Left(r) : Log!Deliver(r, n) \/ Log!End(r, n)
<1> DEFINE a == Advanced(r)
           q == rd[r].queue
           msg == Head(q)
<1>1. /\ TypeOK /\ CursorInv /\ idTTL \in 0..ChannelExpire /\ rd[r].status = "reading"
      /\ a \in ReaderState /\ q \in Seq(Message) /\ q # << >> /\ Wakes(msg)
  BY AdvancedIsState DEF LogInv, TypeOK, Receive, ReaderState
<1>2. UNCHANGED <<str, IsRegistered, Done>>
  BY <1>1, BrokerAssumption DEF Receive, IsRegistered, Done, Renewed
<1>3. /\ a.status = rd[r].status /\ a.queue = q
  BY <1>1, FetchMoves
<1>4. 1 \in 1..Len(q) /\ q[1] = msg
  BY <1>1, HeadTailProperties, EmptySeq
<1> HIDE DEF a
<1> DEFINE next == [a EXCEPT !.queue = Tail(q)]
<1>5. /\ next.status = "reading" /\ next.start = a.start /\ next.out = a.out
      /\ next.queue = Tail(q)
  BY <1>1, <1>3 DEF ReaderState
<1>6. CASE Ends(r, msg)
  <2>1. PICK owed : rd' = [rd EXCEPT ![r] = [ClosedConn(next) EXCEPT !.status = "eof", !.owed = owed]]
    BY <1>1, <1>3, <1>6 DEF Receive, a
  <2> DEFINE v == [ClosedConn(next) EXCEPT !.status = "eof", !.owed = owed]
  <2>2. v.status = "eof" /\ v.start = a.start /\ v.out = a.out
    BY <1>1 DEF ClosedConn, ReaderState
  <2> HIDE DEF v
  <2>3. CursorOf(v) = [CursorOf(a) EXCEPT !.status = "ended"] /\ ~KillIn(v)
    BY <2>2 DEF CursorOf, CursorStatus, KillIn
  <2>4. KillIn(rd[r]) \/ FetchEOF(r)
    BY <1>1, <1>4, <1>6 DEF Ends, KillIn
  <2> QED
    BY <1>1, <1>2, <2>1, <2>3, <2>4, EndSeen DEF a, v
<1>7. CASE ~Ends(r, msg)
  <2>1. rd' = [rd EXCEPT ![r] = next]
    BY <1>1, <1>3, <1>7 DEF Receive, a
  <2>2. CursorOf(next) = CursorOf(a)
    BY <1>1, <1>3, <1>5 DEF CursorOf
  <2>3. KillIn(next) <=> KillIn(rd[r])
    BY <1>1, <1>5, <1>7, TailKeepsKills DEF KillIn, Ends
  <2> HIDE DEF next
  <2> QED
    BY <1>1, <1>2, <2>1, <2>2, <2>3, DeliverSeen DEF a
<1> QED
  BY <1>6, <1>7

\* A step that leaves r's record with the same cursor and word of a close.
LEMMA NothingSeen ==
  ASSUME LogInv, NEW r \in Reader, NEW v, rd' = [rd EXCEPT ![r] = v],
         UNCHANGED <<str, idTTL, doneTTL>>, CursorOf(v) = CursorOf(rd[r]),
         KillIn(v) <=> KillIn(rd[r])
  PROVE  UNCHANGED Log!streamVars
<1>1. Cursors' = [Cursors EXCEPT ![r] = CursorOf(rd[r])] /\ Told' = Told
  BY OneSeen DEF LogInv
<1>2. Cursors' = Cursors
  BY <1>1 DEF Cursors
<1> QED
  BY <1>1, <1>2 DEF Log!streamVars, Cursors, CursorOf, Told, IsRegistered, Done

\* A reader that stops early leaves the stream.
LEMMA LeaveSeen ==
  ASSUME LogInv, NEW r \in Reader, NEW v, rd' = [rd EXCEPT ![r] = v],
         UNCHANGED <<str, idTTL, doneTTL>>, rd[r].status = "reading",
         v.status \in {"error", "closed"}, v.start = rd[r].start, v.out = rd[r].out
  PROVE  \E S \in SUBSET Reader : Log!Abandon(S)
<1>1. ~KillIn(v) /\ TypeOK
  BY DEF KillIn, LogInv
<1>2. Cursors' = [Cursors EXCEPT ![r] = CursorOf(v)] /\ Told' = Told \ {r}
  BY <1>1, OneSeen
<1>3. CursorOf(v) = [CursorOf(rd[r]) EXCEPT !.status = "left"]
  BY DEF CursorOf, CursorStatus
<1>4. Cursors' = [q \in Reader |->
                    IF q \in {r} THEN [Cursors[q] EXCEPT !.status = "left"] ELSE Cursors[q]]
  BY <1>2, <1>3 DEF Cursors
<1>5. \A q \in {r} : Cursors[q].status = "open"
  BY DEF Cursors, CursorOf, CursorStatus
<1>6. Log!Abandon({r})
  BY <1>2, <1>4, <1>5 DEF Log!Abandon, Cursors, CursorOf, Told, IsRegistered, Done
<1> QED
  BY <1>6

LEMMA ConnLostSeen ==
  ASSUME LogInv, NEW r \in Reader, NEW n \in 0..Len(rd[r].queue), ConnLost(r, n)
  PROVE  Log!Miss(r) \/ UNCHANGED Log!streamVars
<1> DEFINE v == [rd[r] EXCEPT !.conn = "lost", !.queue = SubSeq(rd[r].queue, 1, n)]
<1>1. TypeOK /\ rd[r] \in ReaderState
  BY DEF LogInv, TypeOK
<1>2. rd' = [rd EXCEPT ![r] = v] /\ UNCHANGED <<str, idTTL, doneTTL>>
  BY <1>1 DEF ConnLost, ReaderState
<1>3. v.status = rd[r].status /\ v.start = rd[r].start /\ v.out = rd[r].out
  BY <1>1 DEF ReaderState
<1> HIDE DEF v
<1>4. CursorOf(v) = CursorOf(rd[r])
  BY <1>3 DEF CursorOf
<1>5. CASE KillIn(v) <=> KillIn(rd[r])
  BY <1>2, <1>4, <1>5, NothingSeen
<1>6. CASE ~(KillIn(v) <=> KillIn(rd[r]))
  <2>1. ~KillIn(v)
    <3> SUFFICES ASSUME KillIn(v)
                 PROVE  KillIn(rd[r])
      BY <1>6
    <3>1. v.queue = SubSeq(rd[r].queue, 1, n) /\ rd[r].queue \in Seq(Message)
      BY <1>1 DEF v, ReaderState
    <3>2. /\ Len(v.queue) = n /\ n \in Nat
          /\ \A i \in 1..n : v.queue[i] = rd[r].queue[i] /\ i \in 1..Len(rd[r].queue)
      BY <3>1, SubSeqProperties
    <3> QED
      BY <1>3, <3>2 DEF KillIn
  <2>2. Cursors' = [Cursors EXCEPT ![r] = CursorOf(rd[r])] /\ Told' = Told \ {r}
    BY <1>1, <1>2, <1>4, <2>1, OneSeen
  <2>3. Cursors' = Cursors
    BY <2>2 DEF Cursors
  <2>4. Log!Miss(r)
    BY <1>2, <2>2, <2>3 DEF Log!Miss, Cursors, CursorOf, Told, IsRegistered, Done
  <2> QED
    BY <2>4
<1> QED
  BY <1>5, <1>6

LEMMA FetchPanicsSeen ==
  ASSUME LogInv, FetchPanics
  PROVE  \E S \in SUBSET Reader : Log!Abandon(S)
<1> PICK S \in SUBSET Reader : S = {r \in Reader : rd[r].status = "reading"}
  OBVIOUS
<1>1. rd \in [Reader -> ReaderState]
  BY DEF LogInv, TypeOK
<1>2. ASSUME NEW r \in Reader
      PROVE  /\ rd'[r].status = IF r \in S THEN "closed" ELSE rd[r].status
             /\ rd'[r].start = rd[r].start /\ rd'[r].out = rd[r].out
  BY <1>1 DEF FetchPanics, ClosedConn, ReaderState
<1>3. Cursors' = [r \in Reader |->
                    IF r \in S THEN [Cursors[r] EXCEPT !.status = "left"] ELSE Cursors[r]]
  <2>1. ASSUME NEW r \in Reader
        PROVE  CursorOf(rd'[r]) = IF r \in S THEN [CursorOf(rd[r]) EXCEPT !.status = "left"]
                                  ELSE CursorOf(rd[r])
    BY <1>2 DEF CursorOf, CursorStatus
  <2> QED
    BY <2>1 DEF Cursors
<1>4. Told' = Told \ S
  BY <1>2 DEF Told, KillUnderWay
<1>5. \A r \in S : Cursors[r].status = "open"
  BY DEF Cursors, CursorOf, CursorStatus
<1>6. UNCHANGED <<str, idTTL, doneTTL>>
  BY DEF FetchPanics
<1>7. Log!Abandon(S)
  BY <1>3, <1>4, <1>5, <1>6 DEF Log!Abandon, Cursors, CursorOf, Told, IsRegistered, Done
<1> QED
  BY <1>7

\* Every step of one reader, its subscription included.
LEMMA ReaderSeen ==
  ASSUME LogInv, NEW r \in Reader, ReaderStep(r)
  PROVE  [Log!StreamNext]_(Log!streamVars)
<1>1. TypeOK /\ rd[r] \in ReaderState
  BY DEF LogInv, TypeOK
<1>2. CASE \E off \in StartOffset, answered \in BOOLEAN : NewReader(r, off, answered)
  BY <1>2, NewReaderSeen DEF Log!StreamNext
<1>3. CASE PSubscribed(r)
  <2> DEFINE v == [rd[r] EXCEPT !.conn = "subscribed",
                                !.queue = <<[ch |-> "other", len |-> Len(str)]>>]
  <2>1. rd' = [rd EXCEPT ![r] = v] /\ UNCHANGED <<str, idTTL, doneTTL>>
    BY <1>1, <1>3 DEF PSubscribed, ReaderState
  <2>2. /\ v.status = rd[r].status /\ v.start = rd[r].start /\ v.out = rd[r].out
        /\ v.queue = <<[ch |-> "other", len |-> Len(str)]>>
    BY <1>1 DEF ReaderState
  <2> HIDE DEF v
  <2>3. ~KillIn(v)
    BY <2>2 DEF KillIn
  <2>4. rd[r].queue = << >>
    BY <1>3 DEF LogInv, BrokerInv, ReaderInv, ConnInv, PSubscribed
  <2>5. ~KillIn(rd[r])
    BY <2>4 DEF KillIn
  <2>6. CursorOf(v) = CursorOf(rd[r])
    BY <2>2 DEF CursorOf
  <2> QED
    BY <2>1, <2>3, <2>5, <2>6, NothingSeen
<1>4. CASE \E n \in 0..Len(rd[r].queue) : ConnLost(r, n)
  BY <1>4, ConnLostSeen DEF Log!StreamNext
<1>5. CASE Replay(r) \/ Receive(r)
  BY <1>5, ReplaySeen, ReceiveSeen DEF Log!StreamNext
<1>6. CASE ReceiveOther(r)
  <2> DEFINE v == [rd[r] EXCEPT !.queue = Tail(rd[r].queue)]
  <2>1. rd' = [rd EXCEPT ![r] = v] /\ UNCHANGED <<str, idTTL, doneTTL>>
    BY <1>1, <1>6 DEF ReceiveOther, ReaderState
  <2>2. /\ v.status = rd[r].status /\ v.start = rd[r].start /\ v.out = rd[r].out
        /\ v.queue = Tail(rd[r].queue)
    BY <1>1 DEF ReaderState
  <2> HIDE DEF v
  <2>3. rd[r].queue \in Seq(Message) /\ rd[r].queue # << >> /\ Head(rd[r].queue).ch # "kill"
    BY <1>1, <1>6 DEF ReceiveOther, ReaderState, Wakes
  <2>4. KillIn(v) <=> KillIn(rd[r])
    BY <2>2, <2>3, TailKeepsKills DEF KillIn
  <2>5. CursorOf(v) = CursorOf(rd[r])
    BY <2>2 DEF CursorOf
  <2> QED
    BY <2>1, <2>4, <2>5, NothingSeen
<1>7. CASE ReceiveError(r)
  <2> DEFINE v == [rd[r] EXCEPT !.status = "error"]
  <2>1. rd' = [rd EXCEPT ![r] = v] /\ UNCHANGED <<str, idTTL, doneTTL>> /\ rd[r].status = "reading"
    BY <1>1, <1>7 DEF ReceiveError
  <2>2. v.status = "error" /\ v.start = rd[r].start /\ v.out = rd[r].out
    BY <1>1 DEF ReaderState
  <2> HIDE DEF v
  <2> QED
    BY <2>1, <2>2, LeaveSeen DEF Log!StreamNext
<1>8. CASE CloseReader(r)
  <2> DEFINE v == [ClosedConn(rd[r]) EXCEPT
                     !.status = IF rd[r].status = "reading" THEN "closed" ELSE rd[r].status]
  <2>1. rd' = [rd EXCEPT ![r] = v] /\ UNCHANGED <<str, idTTL, doneTTL>>
    BY <1>1, <1>8 DEF CloseReader
  <2>2. /\ v.status = IF rd[r].status = "reading" THEN "closed" ELSE rd[r].status
        /\ v.start = rd[r].start /\ v.out = rd[r].out
    BY <1>1 DEF ReaderState, ClosedConn
  <2> HIDE DEF v
  <2>3. CASE rd[r].status = "reading"
    BY <2>1, <2>2, <2>3, LeaveSeen DEF Log!StreamNext
  <2>4. CASE rd[r].status # "reading"
    <3>1. CursorOf(v) = CursorOf(rd[r]) /\ ~KillIn(v) /\ ~KillIn(rd[r])
      BY <2>2, <2>4 DEF CursorOf, KillIn
    <3> QED
      BY <2>1, <3>1, NothingSeen
  <2> QED
    BY <2>3, <2>4
<1>9. CASE RenewExpiry(r) \/ LateFetch(r)
  <2>1. idTTL \in 0..ChannelExpire
    BY <1>1 DEF TypeOK
  <2>2. UNCHANGED <<str, IsRegistered, Done, rd>>
    BY <1>9, <2>1, BrokerAssumption DEF RenewExpiry, LateFetch, IsRegistered, Done, Renewed
  <2> QED
    BY <2>2 DEF Log!streamVars, KillUnderWay
<1> QED
  BY <1>2, <1>3, <1>4, <1>5, <1>6, <1>7, <1>8, <1>9 DEF ReaderStep, ReadStep

-----------------------------------------------------------------------------
LEMMA StreamStep == LogInv /\ [Next]_vars => [Log!StreamNext]_(Log!streamVars)
<1> SUFFICES ASSUME LogInv, [Next]_vars
             PROVE  [Log!StreamNext]_(Log!streamVars)
  OBVIOUS
<1>1. TypeOK
  BY DEF LogInv
<1>2. CASE Register
  BY <1>1, <1>2, RegisterSeen DEF Log!StreamNext
<1>3. CASE OtherPublish
  <2>1. Cursors' = Cursors /\ Told' = Told /\ UNCHANGED <<str, idTTL, doneTTL>>
    <3>1. Len(str) \in Nat
      BY <1>1 DEF TypeOK
    <3> QED
      BY <1>1, <1>3, <3>1, PublishedSeen DEF OtherPublish
  <2> QED
    BY <2>1 DEF Log!streamVars, Cursors, CursorOf, Told, IsRegistered, Done
<1>4. CASE FetchPanics
  BY <1>4, FetchPanicsSeen DEF Log!StreamNext
<1>5. CASE Tick
  BY <1>1, <1>5, TickSeen DEF Log!StreamNext
<1>6. CASE \E w \in Writer : WriterStep(w)
  BY <1>1, <1>6, WriterSeen
<1>7. CASE \E r \in Reader : ReaderStep(r)
  BY <1>7, ReaderSeen
<1>8. CASE UNCHANGED vars
  BY <1>8 DEF vars, Log!streamVars, IsRegistered, Done, KillUnderWay
<1> QED
  BY <1>2, <1>3, <1>4, <1>5, <1>6, <1>7, <1>8 DEF Next

(***************************************************************************)
(* Redis's keys, its messages and the subscriptions implement the log: in  *)
(* every behaviour of the broker the bytes are appended to or discarded    *)
(* as a whole, a reader hands over the next bytes of the log, and it       *)
(* reports the end only when it was told of a close or has found the mark  *)
(* and handed over everything that was left.                               *)
(***************************************************************************)
THEOREM BrokerImplementsStream == Spec => ImplementsStream
<1>1. Init => Log!StreamInit
  BY LogInit
<1>2. Init => LogInv
  BY TypeInit, InvInit, CursorInit DEF LogInv
<1>3. LogInv /\ [Next]_vars => LogInv'
  BY TypeNext, InvNext, CursorNext DEF LogInv
<1>4. LogInv /\ [Next]_vars => [Log!StreamNext]_(Log!streamVars)
  BY StreamStep
<1> QED
  BY <1>1, <1>2, <1>3, <1>4, PTL DEF Spec, ImplementsStream, Log!StreamSpec
=============================================================================
