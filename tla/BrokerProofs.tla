---------------------------- MODULE BrokerProofs ----------------------------
(***************************************************************************)
(* Proofs about the broker, for any number of writers and readers, any     *)
(* bytes, chunk and buffer sizes and expiry times.                         *)
(***************************************************************************)
EXTENDS Broker, SequenceTheorems, TLAPS

-----------------------------------------------------------------------------
(* Operators of the model.                                                 *)

\* A chunk is a sequence of bytes of at most MaxChunk bytes.
LEMMA ChunkIsSeq ==
  ASSUME NEW p \in Chunk
  PROVE  p \in Seq(Byte) /\ Len(p) \in 0..MaxChunk
<1>1. PICK n \in 0..MaxChunk : p \in [1..n -> Byte]
  BY DEF Chunk
<1>2. n \in Nat
  BY <1>1, BrokerAssumption
<1> QED
  BY <1>1, <1>2

\* GETRANGE returns at most ReadLen bytes, none from an offset beyond the end.
LEMMA GetRangeIsSeq ==
  ASSUME NEW s \in Seq(Byte), NEW off \in Nat
  PROVE  /\ GetRange(s, off) \in Seq(Byte)
         /\ Len(GetRange(s, off)) \in Nat
         /\ off >= Len(s) => Len(GetRange(s, off)) = 0
         /\ off < Len(s) /\ off + ReadLen <= Len(s) => Len(GetRange(s, off)) = ReadLen
         /\ off < Len(s) /\ off + ReadLen > Len(s) => Len(GetRange(s, off)) = Len(s) - off
<1> DEFINE n == IF off + ReadLen <= Len(s) THEN off + ReadLen ELSE Len(s)
<1>1. n \in Nat /\ n <= Len(s) /\ off + 1 \in 1..Len(s) + off + 1
  BY BrokerAssumption
<1>2. SubSeq(s, off + 1, n) \in Seq(Byte)
  BY <1>1, SubSeqProperties, BrokerAssumption
<1>3. Len(SubSeq(s, off + 1, n)) = IF off + 1 <= n THEN n - off ELSE 0
  BY <1>1, SubSeqProperties, BrokerAssumption
<1> QED
  BY <1>1, <1>2, <1>3, BrokerAssumption DEF GetRange

-----------------------------------------------------------------------------
(* The parts of a reader's state that a step leaves well typed.            *)

\* Publishing leaves every reader a reader.
LEMMA PublishedIsState ==
  ASSUME rd \in [Reader -> ReaderState], NEW ch \in {"id", "kill", "other"}, NEW len \in Nat
  PROVE  Published(ch, len) \in [Reader -> ReaderState]
<1> SUFFICES ASSUME NEW r \in Reader
             PROVE  Published(ch, len)[r] \in ReaderState
  BY DEF Published
<1>1. [ch |-> ch, len |-> len] \in Message
  BY DEF Message
<1>2. Append(rd[r].queue, [ch |-> ch, len |-> len]) \in Seq(Message)
  BY <1>1, AppendProperties DEF ReaderState
<1> QED
  BY <1>2 DEF Published, ReaderState

\* A fetch leaves its reader a reader.
LEMMA AdvancedIsState ==
  ASSUME rd \in [Reader -> ReaderState], str \in Seq(Byte), NEW r \in Reader
  PROVE  Advanced(r) \in ReaderState
<1> DEFINE g == GetRange(str, rd[r].offset)
<1>1. g \in Seq(Byte) /\ Len(g) \in Nat
  BY GetRangeIsSeq DEF ReaderState
<1>2. rd[r].offset + Len(g) \in Nat
  BY <1>1 DEF ReaderState
<1>3. rd[r].out \o g \in Seq(Byte)
  BY <1>1, ConcatProperties DEF ReaderState
<1> QED
  BY <1>2, <1>3 DEF Advanced, ReaderState

-----------------------------------------------------------------------------
(* Type correctness.                                                       *)

LEMMA TypeInit == Init => TypeOK
<1> SUFFICES ASSUME Init
             PROVE  TypeOK
  OBVIOUS
<1>1. << >> \in Seq(Byte) /\ << >> \in Seq(Message)
  OBVIOUS
<1>2. NewReaderState \in ReaderState
  BY <1>1 DEF NewReaderState, ReaderState
<1>3. ended \in BOOLEAN
  BY DEF Init
<1>4. rd \in [Reader -> ReaderState] /\ writer \in [Writer -> WriterState]
  BY <1>2 DEF Init, WriterState
<1> QED
  BY <1>1, <1>3, <1>4, BrokerAssumption DEF Init, TypeOK

LEMMA TypeNext == TypeOK /\ [Next]_vars => TypeOK'
<1> SUFFICES ASSUME TypeOK, [Next]_vars
             PROVE  TypeOK'
  OBVIOUS
<1> USE DEF TypeOK
<1>t. Renewed(idTTL) \in 0..ChannelExpire /\ EpochAfterDiscard \in Nat
  BY BrokerAssumption DEF Renewed, EpochAfterDiscard
<1>1. CASE Register
  <2>1. ended' \in BOOLEAN
    BY <1>1 DEF Register
  <2> QED
    BY <1>1, <2>1, <1>t, BrokerAssumption DEF Register
<1>2. CASE OtherPublish
  <2>1. Len(str) \in Nat
    OBVIOUS
  <2> QED
    BY <1>2, <2>1, PublishedIsState DEF OtherPublish
<1>3. CASE FetchPanics
  <2>1. rd' \in [Reader -> ReaderState]
    <3> SUFFICES ASSUME NEW r \in Reader
                 PROVE  rd'[r] \in ReaderState
      BY <1>3 DEF FetchPanics
    <3>1. << >> \in Seq(Message)
      OBVIOUS
    <3> QED
      BY <1>3, <3>1 DEF FetchPanics, ClosedConn, ReaderState
  <2>2. writer' \in [Writer -> WriterState]
    BY <1>3 DEF FetchPanics, WriterState
  <2> QED
    BY <1>3, <2>1, <2>2 DEF FetchPanics
<1>4. CASE Tick
  <2>1. idTTL' \in 0..ChannelExpire /\ doneTTL' \in 0..ChannelExpire
    BY <1>4, BrokerAssumption DEF Tick
  <2>2. str' \in Seq(Byte) /\ epoch' \in Nat
    <3>1. CASE idTTL = 1
      BY <1>4, <1>t, <3>1 DEF Tick
    <3>2. CASE idTTL # 1
      BY <1>4, <3>2 DEF Tick
    <3> QED
      BY <3>1, <3>2
  <2> QED
    BY <1>4, <2>1, <2>2 DEF Tick
<1>5. CASE \E w \in Writer : WriterStep(w)
  <2> PICK w \in Writer : WriterStep(w)
    BY <1>5
  <2>1. CASE \E answered \in BOOLEAN : NewWriter(w, answered)
    BY <2>1 DEF NewWriter, WriterState
  <2>2. CASE \E p \in Chunk, replied \in BOOLEAN : Write(w, p, replied)
    <3> PICK p \in Chunk, replied \in BOOLEAN : Write(w, p, replied)
      BY <2>2
    <3>1. p \in Seq(Byte) /\ Len(p) \in Nat /\ Len(str) \in Nat
      BY ChunkIsSeq
    <3>2. str' \in Seq(Byte)
      BY <3>1, ConcatProperties DEF Write
    <3>3. rd' \in [Reader -> ReaderState]
      BY <3>1, PublishedIsState DEF Write
    <3>4. ended' \in BOOLEAN /\ writer' \in [Writer -> WriterState]
      BY DEF Write, WriterState
    <3> QED
      BY <3>2, <3>3, <3>4, BrokerAssumption DEF Write
  <2>3. CASE WriteFails(w)
    BY <2>3 DEF WriteFails, WriterState
  <2>4. CASE CloseWriter(w)
    <3>1. rd' \in [Reader -> ReaderState]
      BY <2>4, PublishedIsState DEF CloseWriter
    <3> QED
      BY <2>4, <3>1, BrokerAssumption DEF CloseWriter, WriterState
  <2>5. CASE CloseLost(w)
    BY <2>5 DEF CloseLost, WriterState
  <2> QED
    BY <2>1, <2>2, <2>3, <2>4, <2>5 DEF WriterStep
<1>6. CASE \E r \in Reader : ReaderStep(r)
  <2> PICK r \in Reader : ReaderStep(r)
    BY <1>6
  <2>e. << >> \in Seq(Message) /\ Len(str) \in Nat
    OBVIOUS
  <2>a. Advanced(r) \in ReaderState
    BY AdvancedIsState
  <2>1. CASE \E off \in StartOffset, answered \in BOOLEAN : NewReader(r, off, answered)
    <3> PICK off \in StartOffset, answered \in BOOLEAN : NewReader(r, off, answered)
      BY <2>1
    <3>1. off \in Nat
      BY BrokerAssumption
    <3>2. [rd[r] EXCEPT !.status = "reading", !.conn = "sent", !.offset = off,
                        !.start = off, !.epoch = epoch] \in ReaderState
      BY <3>1 DEF ReaderState
    <3>3. [rd[r] EXCEPT !.status = "refused"] \in ReaderState
      BY DEF ReaderState
    <3> QED
      BY <3>2, <3>3 DEF NewReader
  <2>2. CASE PSubscribed(r)
    <3>1. <<[ch |-> "other", len |-> Len(str)]>> \in Seq(Message)
      BY <2>e DEF Message
    <3>2. [rd[r] EXCEPT !.conn = "subscribed",
                        !.queue = <<[ch |-> "other", len |-> Len(str)]>>] \in ReaderState
      BY <3>1 DEF ReaderState
    <3> QED
      BY <2>2, <3>2 DEF PSubscribed
  <2>3. CASE \E n \in 0..Len(rd[r].queue) : ConnLost(r, n)
    <3> PICK n \in 0..Len(rd[r].queue) : ConnLost(r, n)
      BY <2>3
    <3>1. SubSeq(rd[r].queue, 1, n) \in Seq(Message)
      BY SubSeqProperties DEF ReaderState
    <3>2. [rd[r] EXCEPT !.conn = "lost", !.queue = SubSeq(@, 1, n)] \in ReaderState
      BY <3>1 DEF ReaderState
    <3> QED
      BY <3>2 DEF ConnLost
  <2>4. CASE Replay(r)
    <3>1. rd' \in [Reader -> ReaderState]
      BY <2>4, <2>a, <2>e DEF Replay, ReaderState, CaughtUp, Buffered
    <3> QED
      BY <2>4, <3>1, <1>t DEF Replay
  <2>5. CASE Receive(r)
    <3>1. Head(rd[r].queue) \in Message /\ Tail(rd[r].queue) \in Seq(Message)
      BY <2>5, HeadTailProperties DEF Receive, ReaderState
    <3>2. Advanced(r).queue = rd[r].queue
      BY DEF Advanced, ReaderState
    <3>3. Head(rd[r].queue).len \in Nat
      BY <3>1 DEF Message
    <3>4. [Advanced(r) EXCEPT !.queue = Tail(@)] \in ReaderState
      BY <3>1, <3>2, <2>a DEF ReaderState
    <3>5. rd' \in [Reader -> ReaderState]
      BY <2>5, <3>3, <3>4, <2>e DEF Receive, ReaderState, ClosedConn
    <3> QED
      BY <2>5, <3>5, <1>t DEF Receive
  <2>6. CASE ReceiveOther(r)
    <3>1. Tail(rd[r].queue) \in Seq(Message)
      BY <2>6, HeadTailProperties DEF ReceiveOther, ReaderState
    <3>2. [rd[r] EXCEPT !.queue = Tail(@)] \in ReaderState
      BY <3>1 DEF ReaderState
    <3> QED
      BY <2>6, <3>2 DEF ReceiveOther
  <2>7. CASE ReceiveError(r)
    <3>1. [rd[r] EXCEPT !.status = "error"] \in ReaderState
      BY DEF ReaderState
    <3> QED
      BY <2>7, <3>1 DEF ReceiveError
  <2>8. CASE CloseReader(r)
    <3> DEFINE c == ClosedConn(rd[r])
    <3>1. c \in ReaderState
      BY <2>e DEF ClosedConn, ReaderState
    <3>2. [c EXCEPT !.status = IF rd[r].status = "reading" THEN "closed" ELSE rd[r].status]
            \in ReaderState
      BY <3>1 DEF ReaderState
    <3> QED
      BY <2>8, <3>2 DEF CloseReader
  <2>9. CASE RenewExpiry(r) \/ LateFetch(r)
    BY <2>9, <1>t DEF RenewExpiry, LateFetch
  <2> QED
    BY <2>1, <2>2, <2>3, <2>4, <2>5, <2>6, <2>7, <2>8, <2>9 DEF ReaderStep, ReadStep
<1>7. CASE UNCHANGED vars
  BY <1>7 DEF vars
<1> QED
  BY <1>1, <1>2, <1>3, <1>4, <1>5, <1>6, <1>7 DEF Next

(***************************************************************************)
(* Every reachable state of the broker is well typed: in particular no     *)
(* offset is negative and no key outlives redisChannelExpire.              *)
(***************************************************************************)
THEOREM TypeCorrect == Spec => []TypeOK
<1> QED
  BY TypeInit, TypeNext, PTL DEF Spec

-----------------------------------------------------------------------------
(* The invariant, one kind of step at a time.                              *)

LEMMA InvInit == Init => BrokerInv
<1> SUFFICES ASSUME Init, NEW r \in Reader
             PROVE  ReaderInv(r)
  BY DEF BrokerInv
<1>1. rd[r] = NewReaderState /\ str = << >> /\ epoch = 0
  BY DEF Init
<1>2. ConnInv(r)
  BY <1>1 DEF ConnInv, NewReaderState
<1>3. OutputInv(r)
  BY <1>1, SubSeqEmpty DEF OutputInv, NewReaderState
<1>4. QueueInv(r) /\ CaughtUpInv(r) /\ EOFInv(r)
  BY <1>1 DEF QueueInv, Spaced, CaughtUpInv, EOFInv, NewReaderState
<1> QED
  BY <1>2, <1>3, <1>4 DEF ReaderInv

\* A fetch continues exactly where the bytes handed over so far stop.
LEMMA FetchExtends ==
  ASSUME NEW s \in Seq(Byte), NEW st \in Nat, NEW off \in Nat,
         st <= off, off = st \/ off <= Len(s)
  PROVE  \E n \in Nat :
           /\ off + Len(GetRange(s, off)) = n
           /\ st <= n /\ off <= n
           /\ n = st \/ n <= Len(s)
           /\ SubSeq(s, st + 1, off) \o GetRange(s, off) = SubSeq(s, st + 1, n)
           /\ Len(s) <= n \/ n = off + ReadLen
           /\ ~Buffered(off, Len(s)) => Len(s) <= n
<1> DEFINE g == GetRange(s, off)
<1>1. Len(s) \in Nat /\ ReadLen \in Nat \ {0}
  BY BrokerAssumption
<1>2. SubSeq(s, st + 1, off) \in Seq(Byte)
  <2>1. \A i \in (st + 1)..off : s[i] \in Byte
    OBVIOUS
  <2> QED
    BY <2>1, SubSeqProperties
<1>3. CASE off >= Len(s)
  <2>1. g = << >> /\ Len(g) = 0
    BY <1>1, <1>3, SubSeqEmpty, GetRangeIsSeq DEF GetRange
  <2>2. SubSeq(s, st + 1, off) \o g = SubSeq(s, st + 1, off)
    BY <1>2, <2>1, ConcatEmptySeq
  <2>3. off + Len(g) = off
    BY <2>1
  <2> WITNESS off \in Nat
  <2> QED
    BY <1>1, <1>3, <2>2, <2>3
<1>4. CASE off < Len(s)
  <2>1. PICK n \in Nat : n = IF off + ReadLen <= Len(s) THEN off + ReadLen ELSE Len(s)
    BY <1>1
  <2>2. n \in off..Len(s) /\ off \in (st + 1) - 1..Len(s) /\ st + 1 \in 1..Len(s) + 1
    BY <1>1, <1>4, <2>1
  <2>3. SubSeq(s, st + 1, off) \o SubSeq(s, off + 1, n) = SubSeq(s, st + 1, n)
    BY <2>2, ConcatAdjacentSubSeq
  <2>4. g = SubSeq(s, off + 1, n)
    BY <2>1 DEF GetRange
  <2>5. Len(g) = n - off
    <3>1. CASE off + ReadLen <= Len(s)
      BY <1>1, <1>4, <2>1, <3>1, GetRangeIsSeq
    <3>2. CASE off + ReadLen > Len(s)
      BY <1>1, <1>4, <2>1, <3>2, GetRangeIsSeq
    <3> QED
      BY <1>1, <3>1, <3>2
  <2>6. off + Len(g) = n
    BY <2>5
  <2>7. (Len(s) <= n \/ n = off + ReadLen) /\ (~Buffered(off, Len(s)) => Len(s) <= n)
    BY <1>1, <2>1 DEF Buffered
  <2> WITNESS n \in Nat
  <2> QED
    BY <1>1, <2>2, <2>3, <2>4, <2>6, <2>7
<1>5. off >= Len(s) \/ off < Len(s)
  BY <1>1
<1> QED
  BY <1>3, <1>4, <1>5, Zenon

\* What a fetch does to its reader.
LEMMA FetchAdvances ==
  ASSUME TypeOK, NEW r \in Reader, OutputInv(r)
  PROVE  \E n \in Nat :
           /\ Advanced(r) = [rd[r] EXCEPT !.offset = n, !.out = SubSeq(str, rd[r].start + 1, n)]
           /\ rd[r].start <= n /\ rd[r].offset <= n
           /\ n = rd[r].start \/ n <= Len(str)
           /\ Len(str) <= n \/ n = rd[r].offset + ReadLen
           /\ ~Buffered(rd[r].offset, Len(str)) => Len(str) <= n
<1>1. str \in Seq(Byte) /\ rd[r].offset \in Nat /\ rd[r].start \in Nat
  BY DEF TypeOK, ReaderState
<1>2. /\ rd[r].start <= rd[r].offset
      /\ rd[r].offset = rd[r].start \/ rd[r].offset <= Len(str)
      /\ rd[r].out = SubSeq(str, rd[r].start + 1, rd[r].offset)
  BY DEF OutputInv
<1>3. Advanced(r) = [rd[r] EXCEPT !.offset = rd[r].offset + Len(GetRange(str, rd[r].offset)),
                                  !.out = rd[r].out \o GetRange(str, rd[r].offset)]
  BY DEF Advanced
<1>4. PICK n \in Nat :
        /\ rd[r].offset + Len(GetRange(str, rd[r].offset)) = n
        /\ rd[r].start <= n /\ rd[r].offset <= n
        /\ n = rd[r].start \/ n <= Len(str)
        /\ SubSeq(str, rd[r].start + 1, rd[r].offset) \o GetRange(str, rd[r].offset)
             = SubSeq(str, rd[r].start + 1, n)
        /\ Len(str) <= n \/ n = rd[r].offset + ReadLen
        /\ ~Buffered(rd[r].offset, Len(str)) => Len(str) <= n
  BY <1>1, <1>2, FetchExtends
<1>5. Advanced(r) = [rd[r] EXCEPT !.offset = n, !.out = SubSeq(str, rd[r].start + 1, n)]
  BY <1>2, <1>3, <1>4
<1> QED
  BY <1>4, <1>5, Zenon

-----------------------------------------------------------------------------
(* Queues of messages.                                                     *)

LEMMA GrowthIsNat ==
  ASSUME NEW m \in Message
  PROVE  Growth(m) \in Nat /\ m.len \in Nat /\ (m.ch # "id" => Growth(m) = 0)
BY BrokerAssumption DEF Growth, Message

\* A message published with an append of d bytes is well placed at the end.
LEMMA SpacedAppend ==
  ASSUME NEW q \in Seq(Message), NEW size \in Nat, Spaced(q, size),
         q # << >> => q[Len(q)].len = size,
         NEW d \in Nat, NEW m \in Message, m.len = size + d, d <= Growth(m)
  PROVE  Spaced(Append(q, m), size + d)
<1> DEFINE qq == Append(q, m)
<1>1. PICK n \in Nat : n = Len(q)
  OBVIOUS
<1>2. /\ Len(qq) = n + 1 /\ qq[n + 1] = m /\ (\A i \in 1..n : qq[i] = q[i])
  BY <1>1, AppendProperties
<1>3. \A i \in 1..n : q[i] \in Message /\ q[i].len \in Nat
  BY <1>1, GrowthIsNat
<1>4. \A i \in 1..n : q[i].len <= size
  BY <1>1 DEF Spaced
<1>5. n \in 1..n => q[n].len = size
  BY <1>1
<1> HIDE DEF qq
<1>6. \A i \in 1..(n + 1) : qq[i].len <= size + d
  <2> SUFFICES ASSUME NEW i \in 1..(n + 1)
               PROVE  qq[i].len <= size + d
    OBVIOUS
  <2>1. CASE i = n + 1
    BY <1>2, <2>1
  <2>2. CASE i # n + 1
    <3>1. i \in 1..n
      BY <2>2
    <3> QED
      BY <1>2, <1>3, <1>4, <3>1
  <2> QED
    BY <2>1, <2>2
<1>7. \A i \in 1..n : qq[i + 1].len <= qq[i].len + Growth(qq[i + 1])
  <2> SUFFICES ASSUME NEW i \in 1..n
               PROVE  qq[i + 1].len <= qq[i].len + Growth(qq[i + 1])
    OBVIOUS
  <2>1. CASE i = n
    BY <1>2, <1>5, <2>1, GrowthIsNat
  <2>2. CASE i # n
    <3>1. i \in 1..(n - 1) /\ i + 1 \in 1..n
      BY <2>2
    <3> QED
      BY <1>1, <1>2, <3>1 DEF Spaced
  <2> QED
    BY <2>1, <2>2
<1>8. \A i, k \in 1..(n + 1) :
        (i <= k /\ \A j \in (i + 1)..k : qq[j].ch # "id") => qq[k].len <= qq[i].len
  <2> SUFFICES ASSUME NEW i \in 1..(n + 1), NEW k \in 1..(n + 1), i <= k,
                      \A j \in (i + 1)..k : qq[j].ch # "id"
               PROVE  qq[k].len <= qq[i].len
    OBVIOUS
  <2>1. CASE k # n + 1
    <3>1. i \in 1..n /\ k \in 1..n
      BY <2>1
    <3>2. \A j \in (i + 1)..k : q[j].ch # "id"
      BY <1>2, <3>1
    <3> QED
      BY <1>1, <1>2, <3>1, <3>2 DEF Spaced
  <2>2. CASE k = n + 1 /\ i = n + 1
    BY <1>2, <2>2
  <2>3. CASE k = n + 1 /\ i # n + 1
    <3>1. i \in 1..n /\ n \in 1..n /\ i <= n
      BY <2>3
    <3>2. \A j \in (i + 1)..n : q[j].ch # "id"
      BY <1>2, <2>3, <3>1
    <3>3. q[n].len <= q[i].len
      BY <1>1, <3>1, <3>2 DEF Spaced
    <3>4. k \in (i + 1)..k
      BY <2>3, <3>1
    <3>5. m.ch # "id"
      BY <1>2, <2>3, <3>4
    <3>6. m.len = size
      BY <3>5, GrowthIsNat
    <3> QED
      BY <1>2, <1>5, <2>3, <3>1, <3>3, <3>6
  <2> QED
    BY <2>1, <2>2, <2>3
<1>9. 1..(Len(qq) - 1) = 1..n /\ 1..Len(qq) = 1..(n + 1)
  BY <1>2
<1> QED
  BY <1>6, <1>7, <1>8, <1>9 DEF Spaced, qq

\* What is left of a queue once its first message is taken is well placed.
LEMMA SpacedTail ==
  ASSUME NEW q \in Seq(Message), q # << >>, NEW size \in Nat, Spaced(q, size)
  PROVE  Spaced(Tail(q), size)
<1> DEFINE qq == Tail(q)
<1>1. PICK n \in Nat : n = Len(q) - 1 /\ Len(q) = n + 1
  OBVIOUS
<1>2. Len(qq) = n /\ (\A i \in 1..n : qq[i] = q[i + 1])
  BY <1>1, HeadTailProperties
<1> HIDE DEF qq
<1>3. \A i \in 1..n : i \in Int /\ i + 1 \in 1..(n + 1)
  OBVIOUS
<1>4. \A i \in 1..n : qq[i].len <= size
  BY <1>1, <1>2, <1>3 DEF Spaced
<1>5. \A i \in 1..(n - 1) : qq[i + 1].len <= qq[i].len + Growth(qq[i + 1])
  <2> SUFFICES ASSUME NEW i \in 1..(n - 1)
               PROVE  qq[i + 1].len <= qq[i].len + Growth(qq[i + 1])
    OBVIOUS
  <2>1. i \in 1..n /\ i + 1 \in 1..n
    OBVIOUS
  <2>2. q[(i + 1) + 1].len <= q[i + 1].len + Growth(q[(i + 1) + 1])
    BY <1>1, <2>1 DEF Spaced
  <2> QED
    BY <1>2, <2>1, <2>2
<1>6. \A i, k \in 1..n :
        (i <= k /\ \A j \in (i + 1)..k : qq[j].ch # "id") => qq[k].len <= qq[i].len
  <2> SUFFICES ASSUME NEW i \in 1..n, NEW k \in 1..n, i <= k,
                      \A j \in (i + 1)..k : qq[j].ch # "id"
               PROVE  qq[k].len <= qq[i].len
    OBVIOUS
  <2>1. \A j \in (i + 1 + 1)..(k + 1) : q[j].ch # "id"
    <3> SUFFICES ASSUME NEW j \in (i + 1 + 1)..(k + 1)
                 PROVE  q[j].ch # "id"
      OBVIOUS
    <3>1. j - 1 \in (i + 1)..k /\ j - 1 \in 1..n /\ (j - 1) + 1 = j
      OBVIOUS
    <3>2. qq[j - 1].ch # "id"
      BY <3>1
    <3>3. qq[j - 1] = q[(j - 1) + 1]
      BY <1>2, <3>1
    <3> QED
      BY <3>1, <3>2, <3>3
  <2>2. i + 1 \in 1..Len(q) /\ k + 1 \in 1..Len(q) /\ i + 1 <= k + 1
    BY <1>1
  <2>3. q[k + 1].len <= q[i + 1].len
    BY <2>1, <2>2 DEF Spaced
  <2> QED
    BY <1>2, <2>3
<1> QED
  BY <1>2, <1>4, <1>5, <1>6 DEF Spaced, qq

\* So is what has arrived of a queue whose rest is lost.
LEMMA SpacedPrefix ==
  ASSUME NEW q \in Seq(Message), NEW n \in 0..Len(q), NEW size \in Nat, Spaced(q, size)
  PROVE  Spaced(SubSeq(q, 1, n), size)
<1> DEFINE qq == SubSeq(q, 1, n)
<1>1. n \in Nat /\ (\A i \in 1..n : q[i] \in Message)
  OBVIOUS
<1>2. Len(qq) = n /\ (\A i \in 1..n : qq[i] = q[i])
  BY <1>1, SubSeqProperties
<1> HIDE DEF qq
<1>3. \A i \in 1..n : i \in 1..Len(q)
  OBVIOUS
<1>4. \A i \in 1..(n - 1) : i \in 1..(Len(q) - 1) /\ i \in 1..n /\ i + 1 \in 1..n
  OBVIOUS
<1>5. \A i \in 1..n : qq[i].len <= size
  BY <1>2, <1>3 DEF Spaced
<1>6. \A i \in 1..(n - 1) : qq[i + 1].len <= qq[i].len + Growth(qq[i + 1])
  BY <1>2, <1>4 DEF Spaced
<1>7. \A i, k \in 1..n :
        (i <= k /\ \A j \in (i + 1)..k : qq[j].ch # "id") => qq[k].len <= qq[i].len
  <2> SUFFICES ASSUME NEW i \in 1..n, NEW k \in 1..n, i <= k,
                      \A j \in (i + 1)..k : qq[j].ch # "id"
               PROVE  qq[k].len <= qq[i].len
    OBVIOUS
  <2>1. \A j \in (i + 1)..k : j \in 1..n
    BY <1>1
  <2>2. \A j \in (i + 1)..k : q[j].ch # "id"
    BY <1>2, <2>1
  <2>3. q[k].len <= q[i].len
    BY <1>3, <2>2 DEF Spaced
  <2> QED
    BY <1>2, <2>3
<1> QED
  BY <1>2, <1>5, <1>6, <1>7 DEF Spaced, qq

-----------------------------------------------------------------------------
(* Steps that publish.                                                     *)

\* Appending does not change the bytes up to an offset within them.
LEMMA AppendKeepsOutput ==
  ASSUME NEW s \in Seq(Byte), NEW p \in Seq(Byte), NEW st \in Nat, NEW off \in Nat,
         st <= off, off = st \/ off <= Len(s)
  PROVE  SubSeq(s \o p, st + 1, off) = SubSeq(s, st + 1, off)
<1>1. CASE off = st
  BY <1>1, SubSeqEmpty
<1>2. CASE off # st
  <2>1. st + 1 \in 1..Len(s) /\ off \in 1..Len(s)
    BY <1>2
  <2> QED
    BY <2>1, SubSeqOfConcat1
<1> QED
  BY <1>1, <1>2

(***************************************************************************)
(* A transaction that appends p and publishes keeps the invariant: the     *)
(* message tells every subscriber of the growth, and the bytes handed over *)
(* so far are still a part of the stored ones.  Only an "id" message comes *)
(* with an append.                                                         *)
(***************************************************************************)
LEMMA PublishPreserves ==
  ASSUME TypeOK, BrokerInv,
         NEW ch \in {"id", "kill", "other"}, NEW p \in Seq(Byte),
         Len(p) <= MaxChunk, ch # "id" => p = << >>,
         str' = str \o p, epoch' = epoch,
         rd' = Published(ch, Len(str) + Len(p))
  PROVE  BrokerInv'
<1> SUFFICES ASSUME NEW r \in Reader
             PROVE  ReaderInv(r)'
  BY DEF BrokerInv
<1> DEFINE q  == rd[r].queue
           qq == rd'[r].queue
           m  == [ch |-> ch, len |-> Len(str) + Len(p)]
<1>1. PICK size \in Nat, d \in Nat, off \in Nat, st \in Nat :
        size = Len(str) /\ d = Len(p) /\ off = rd[r].offset /\ st = rd[r].start
  <2>1. Len(str) \in Nat /\ Len(p) \in Nat
    BY DEF TypeOK
  <2>2. rd[r].offset \in Nat /\ rd[r].start \in Nat
    BY DEF TypeOK, ReaderState
  <2> QED
    BY <2>1, <2>2
<1>2. str \in Seq(Byte) /\ Len(str') = size + d
  BY <1>1, ConcatProperties DEF TypeOK
<1>3. q \in Seq(Message)
  BY DEF TypeOK, ReaderState
<1>4. m \in Message /\ m.len = size + d /\ m.ch = ch
  BY <1>1 DEF Message
<1>5. d <= Growth(m)
  BY <1>1, <1>4 DEF Growth
<1>6. /\ rd'[r].status = rd[r].status /\ rd'[r].conn = rd[r].conn
      /\ rd'[r].offset = rd[r].offset /\ rd'[r].replayed = rd[r].replayed
      /\ rd'[r].start = rd[r].start /\ rd'[r].out = rd[r].out
      /\ rd'[r].epoch = rd[r].epoch /\ rd'[r].covered = rd[r].covered
      /\ rd'[r].owed = rd[r].owed
      /\ qq = IF rd[r].conn = "subscribed" THEN Append(q, m) ELSE q
  BY DEF Published, TypeOK, ReaderState
<1>7. ReaderInv(r)
  BY DEF BrokerInv
<1>8. ConnInv(r)'
  BY <1>6, <1>7 DEF ReaderInv, ConnInv
<1>9. ASSUME Current(r)'
      PROVE  OutputInv(r)' /\ QueueInv(r)' /\ CaughtUpInv(r)' /\ EOFInv(r)'
  <2>1. OutputInv(r) /\ QueueInv(r) /\ CaughtUpInv(r) /\ EOFInv(r)
    BY <1>6, <1>7, <1>9 DEF ReaderInv, Current
  <2>2. OutputInv(r)'
    <3>1. st <= off /\ (off = st \/ off <= size) /\ rd[r].out = SubSeq(str, st + 1, off)
      BY <1>1, <2>1 DEF OutputInv
    <3>2. SubSeq(str \o p, st + 1, off) = SubSeq(str, st + 1, off)
      <4>1. off = st \/ off <= Len(str)
        BY <1>1, <3>1
      <4> QED
        BY <1>2, <3>1, <4>1, AppendKeepsOutput
    <3>3. off = st \/ off <= size + d
      BY <3>1
    <3> QED
      BY <1>1, <1>2, <1>6, <3>1, <3>2, <3>3 DEF OutputInv
  <2>3. EOFInv(r)'
    BY <1>6, <2>1 DEF EOFInv
  <2>4. Spaced(q, size)
    BY <1>1, <2>1 DEF QueueInv
  <2>5. CASE rd[r].conn # "subscribed"
    <3>1. qq = q
      BY <1>6, <2>5
    <3>2. Spaced(q, size + d)
      <4>1. \A i \in 1..Len(q) : q[i].len \in Nat /\ q[i].len <= size
        BY <1>3, <2>4, GrowthIsNat DEF Spaced
      <4>2. \A i \in 1..Len(q) : q[i].len <= size + d
        BY <4>1
      <4> QED
        BY <2>4, <4>2 DEF Spaced
    <3>3. QueueInv(r)'
      BY <1>2, <1>6, <2>5, <3>1, <3>2 DEF QueueInv
    <3>4. CaughtUpInv(r)'
      BY <1>6, <2>1, <2>5, <3>1 DEF CaughtUpInv, Growth
    <3> QED
      BY <2>2, <2>3, <3>3, <3>4
  <2>6. CASE rd[r].conn = "subscribed"
    <3>1. qq = Append(q, m)
      BY <1>6, <2>6
    <3>2. q # << >> => q[Len(q)].len = size
      BY <1>1, <2>1, <2>6 DEF QueueInv
    <3>3. Spaced(qq, size + d)
      BY <1>3, <1>4, <1>5, <2>4, <3>1, <3>2, SpacedAppend
    <3>4. qq # << >> /\ qq[Len(qq)] = m
      BY <1>3, <1>4, <3>1, AppendProperties
    <3>5. QueueInv(r)'
      BY <1>2, <1>4, <3>3, <3>4 DEF QueueInv
    <3>6. ASSUME rd[r].replayed, rd[r].covered
          PROVE  qq[1].len <= off + Growth(qq[1])
      <4>1. CASE q = << >>
        <5>1. size <= off
          BY <1>1, <2>1, <2>6, <3>6, <4>1 DEF CaughtUpInv
        <5>2. qq[1] = m
          BY <1>3, <1>4, <3>1, <4>1, AppendProperties
        <5> QED
          BY <1>4, <1>5, <5>1, <5>2, GrowthIsNat
      <4>2. CASE q # << >>
        <5>1. 1 \in 1..Len(q)
          BY <1>3, <4>2
        <5>2. qq[1] = q[1]
          <6>1. \A i \in 1..Len(q) : Append(q, m)[i] = q[i]
            BY <1>3, <1>4, AppendProperties
          <6> QED
            BY <3>1, <5>1, <6>1
        <5> QED
          BY <1>1, <2>1, <3>6, <4>2, <5>2 DEF CaughtUpInv
      <4> QED
        BY <4>1, <4>2
    <3>7. CaughtUpInv(r)'
      BY <1>1, <1>6, <3>4, <3>6 DEF CaughtUpInv, Growth
    <3> QED
      BY <2>2, <2>3, <3>5, <3>7
  <2> QED
    BY <2>5, <2>6
<1> QED
  BY <1>8, <1>9 DEF ReaderInv

-----------------------------------------------------------------------------
(* Steps that touch no reader, and steps of one reader.                    *)

\* The readers are left alone and the bytes either stay or are discarded.
LEMMA DiscardPreserves ==
  ASSUME TypeOK, BrokerInv, rd' = rd,
         \/ str' = str /\ epoch' = epoch
         \/ str' = << >> /\ epoch' = EpochAfterDiscard
  PROVE  BrokerInv'
<1> SUFFICES ASSUME NEW r \in Reader
             PROVE  ReaderInv(r)'
  BY DEF BrokerInv
<1>1. ReaderInv(r)
  BY DEF BrokerInv
<1>2. CASE str' = str /\ epoch' = epoch
  BY <1>1, <1>2 DEF ReaderInv, ConnInv, Current, OutputInv, QueueInv, Spaced, Growth,
                    CaughtUpInv, EOFInv
<1>3. CASE str' # str /\ epoch' = epoch + 1
  <2>1. epoch \in Nat /\ rd[r].epoch \in Nat /\ rd[r].epoch <= epoch
    BY <1>1 DEF TypeOK, ReaderState, ReaderInv, ConnInv
  <2>2. rd[r].epoch <= epoch' /\ rd[r].epoch # epoch'
    BY <1>3, <2>1
  <2> QED
    BY <1>1, <2>2 DEF ReaderInv, ConnInv, Current
<1> QED
  BY <1>2, <1>3 DEF EpochAfterDiscard

\* A step of one reader says nothing about the others.
LEMMA OneReader ==
  ASSUME TypeOK, BrokerInv, NEW r \in Reader, NEW x,
         rd' = [rd EXCEPT ![r] = x], str' = str, epoch' = epoch,
         ReaderInv(r)'
  PROVE  BrokerInv'
<1> SUFFICES ASSUME NEW o \in Reader, o # r
             PROVE  ReaderInv(o)'
  BY DEF BrokerInv
<1>1. rd'[o] = rd[o]
  BY DEF TypeOK
<1>2. ReaderInv(o)
  BY DEF BrokerInv
<1> QED
  BY <1>1, <1>2 DEF ReaderInv, ConnInv, Current, OutputInv, QueueInv, Spaced, Growth,
                    CaughtUpInv, EOFInv

\* Closing drops what is waiting and keeps what was delivered.
LEMMA ClosePreserves ==
  ASSUME TypeOK, BrokerInv, NEW r \in Reader, str' = str, epoch' = epoch,
         rd[r].status \in {"reading", "eof", "error"},
         NEW st \in {"eof", "error", "closed"}, st = "eof" => rd[r].status = "eof",
         rd'[r] = [ClosedConn(rd[r]) EXCEPT !.status = st]
  PROVE  ReaderInv(r)'
<1>1. /\ rd'[r].status = st /\ rd'[r].conn = "closed" /\ rd'[r].queue = << >>
      /\ rd'[r].offset = rd[r].offset /\ rd'[r].replayed = rd[r].replayed
      /\ rd'[r].start = rd[r].start /\ rd'[r].out = rd[r].out
      /\ rd'[r].epoch = rd[r].epoch /\ rd'[r].covered = rd[r].covered
      /\ rd'[r].owed = rd[r].owed
  BY DEF ClosedConn, TypeOK, ReaderState
<1>2. ReaderInv(r)
  BY DEF BrokerInv
<1>3. ConnInv(r)'
  BY <1>1, <1>2 DEF ReaderInv, ConnInv
<1>4. Current(r)' => Current(r)
  BY <1>1 DEF Current
<1>5. Spaced(<< >>, Len(str))
  BY DEF Spaced
<1>6. Current(r)' => OutputInv(r)' /\ QueueInv(r)' /\ CaughtUpInv(r)' /\ EOFInv(r)'
  BY <1>1, <1>2, <1>4, <1>5 DEF ReaderInv, OutputInv, QueueInv, CaughtUpInv, EOFInv
<1> QED
  BY <1>3, <1>6 DEF ReaderInv

LEMMA NewReaderPreserves ==
  ASSUME TypeOK, BrokerInv, NEW r \in Reader, NEW off \in StartOffset,
         NEW answered \in BOOLEAN, NewReader(r, off, answered)
  PROVE  BrokerInv'
<1>1. off \in Nat /\ rd[r].status = "new" /\ str' = str /\ epoch' = epoch
  BY BrokerAssumption DEF NewReader
<1>2. ReaderInv(r)
  BY DEF BrokerInv
<1>3. rd[r].queue = << >> /\ rd[r].out = << >> /\ ~rd[r].covered /\ rd[r].conn = "none"
  BY <1>1, <1>2 DEF ReaderInv, ConnInv
<1>4. PICK x : rd' = [rd EXCEPT ![r] = x] /\ rd'[r] = x
  BY DEF NewReader, TypeOK
<1>5. CASE answered /\ IsRegistered
  <2>1. rd'[r] = [rd[r] EXCEPT !.status = "reading", !.conn = "sent", !.offset = off,
                               !.start = off, !.epoch = epoch]
    BY <1>5 DEF NewReader, TypeOK
  <2>2. /\ rd'[r].status = "reading" /\ rd'[r].conn = "sent" /\ rd'[r].offset = off
        /\ rd'[r].start = off /\ rd'[r].epoch = epoch /\ rd'[r].queue = << >>
        /\ rd'[r].out = << >> /\ ~rd'[r].covered
    BY <1>3, <2>1 DEF TypeOK, ReaderState
  <2>3. ConnInv(r)'
    <3>1. epoch \in Nat
      BY DEF TypeOK
    <3> QED
      BY <1>1, <2>2, <3>1 DEF ConnInv
  <2>4. OutputInv(r)'
    BY <1>1, <2>2, SubSeqEmpty DEF OutputInv
  <2>5. QueueInv(r)' /\ CaughtUpInv(r)' /\ EOFInv(r)'
    BY <2>2 DEF QueueInv, Spaced, CaughtUpInv, EOFInv
  <2>6. ReaderInv(r)'
    BY <2>3, <2>4, <2>5 DEF ReaderInv
  <2> QED
    BY <1>1, <1>4, <2>6, OneReader
<1>6. CASE ~(answered /\ IsRegistered)
  <2>1. rd'[r] = [rd[r] EXCEPT !.status = "refused"]
    BY <1>6 DEF NewReader, TypeOK
  <2>2. /\ rd'[r].status = "refused" /\ rd'[r].conn = rd[r].conn
        /\ rd'[r].queue = rd[r].queue
        /\ rd'[r].offset = rd[r].offset /\ rd'[r].replayed = rd[r].replayed
        /\ rd'[r].start = rd[r].start /\ rd'[r].out = rd[r].out
        /\ rd'[r].epoch = rd[r].epoch /\ rd'[r].covered = rd[r].covered
    BY <2>1 DEF TypeOK, ReaderState
  <2>3. ReaderInv(r)'
    BY <1>1, <1>2, <1>3, <2>2
       DEF ReaderInv, ConnInv, Current, OutputInv, QueueInv, Spaced, CaughtUpInv, EOFInv
  <2> QED
    BY <1>1, <1>4, <2>3, OneReader
<1> QED
  BY <1>5, <1>6

LEMMA PSubscribedPreserves ==
  ASSUME TypeOK, BrokerInv, NEW r \in Reader, PSubscribed(r)
  PROVE  BrokerInv'
<1> DEFINE m == [ch |-> "other", len |-> Len(str)]
<1>1. rd[r].conn = "sent" /\ str' = str /\ epoch' = epoch
  BY DEF PSubscribed
<1>2. ReaderInv(r)
  BY DEF BrokerInv
<1>3. ~rd[r].covered /\ rd[r].status # "new"
  BY <1>1, <1>2 DEF ReaderInv, ConnInv
<1>4. PICK x : rd' = [rd EXCEPT ![r] = x]
  BY DEF PSubscribed, TypeOK
<1>5. /\ rd'[r].conn = "subscribed" /\ rd'[r].queue = <<m>>
      /\ rd'[r].status = rd[r].status
      /\ rd'[r].offset = rd[r].offset /\ rd'[r].replayed = rd[r].replayed
      /\ rd'[r].start = rd[r].start /\ rd'[r].out = rd[r].out
      /\ rd'[r].epoch = rd[r].epoch /\ rd'[r].covered = rd[r].covered
  BY DEF PSubscribed, TypeOK, ReaderState
<1>6. Spaced(<<m>>, Len(str)) /\ Len(<<m>>) = 1 /\ <<m>>[1].len = Len(str)
  <2>1. Len(str) \in Nat
    BY DEF TypeOK
  <2>2. Len(<<m>>) = 1 /\ <<m>>[1] = m
    OBVIOUS
  <2>3. \A i \in 1..1 : i = 1
    OBVIOUS
  <2> QED
    BY <2>1, <2>2, <2>3 DEF Spaced
<1>7. ConnInv(r)'
  BY <1>1, <1>2, <1>3, <1>5 DEF ReaderInv, ConnInv
<1>8. Current(r)' => OutputInv(r)' /\ QueueInv(r)' /\ CaughtUpInv(r)' /\ EOFInv(r)'
  BY <1>1, <1>2, <1>3, <1>5, <1>6
     DEF ReaderInv, Current, OutputInv, QueueInv, CaughtUpInv, EOFInv
<1>9. ReaderInv(r)'
  BY <1>7, <1>8 DEF ReaderInv
<1> QED
  BY <1>1, <1>4, <1>9, OneReader

LEMMA ConnLostPreserves ==
  ASSUME TypeOK, BrokerInv, NEW r \in Reader, NEW n \in 0..Len(rd[r].queue), ConnLost(r, n)
  PROVE  BrokerInv'
<1> DEFINE q  == rd[r].queue
           qq == SubSeq(q, 1, n)
<1>1. rd[r].status = "reading" /\ str' = str /\ epoch' = epoch
  BY DEF ConnLost
<1>2. ReaderInv(r)
  BY DEF BrokerInv
<1>3. q \in Seq(Message) /\ Len(str) \in Nat
  BY DEF TypeOK, ReaderState
<1>4. PICK x : rd' = [rd EXCEPT ![r] = x]
  BY DEF ConnLost, TypeOK
<1>5. /\ rd'[r].conn = "lost" /\ rd'[r].queue = qq
      /\ rd'[r].status = rd[r].status
      /\ rd'[r].offset = rd[r].offset /\ rd'[r].replayed = rd[r].replayed
      /\ rd'[r].start = rd[r].start /\ rd'[r].out = rd[r].out
      /\ rd'[r].epoch = rd[r].epoch /\ rd'[r].covered = rd[r].covered
  BY DEF ConnLost, TypeOK, ReaderState
<1>6. /\ \A i \in 1..n : qq[i] = q[i]
      /\ Len(qq) = n
  <2>1. \A i \in 1..n : q[i] \in Message
    BY <1>3
  <2> QED
    BY <2>1, SubSeqProperties
<1>7. qq # << >> => q # << >> /\ qq[1] = q[1]
  <2>1. n = 0 => qq = << >>
    BY SubSeqEmpty
  <2>2. n # 0 => 1 \in 1..n
    BY <1>3
  <2>3. n # 0 => q # << >>
    BY <1>3
  <2> QED
    BY <1>6, <2>1, <2>2, <2>3
<1>8. ConnInv(r)'
  BY <1>1, <1>2, <1>5 DEF ReaderInv, ConnInv
<1>9. ASSUME Current(r)'
      PROVE  OutputInv(r)' /\ QueueInv(r)' /\ CaughtUpInv(r)' /\ EOFInv(r)'
  <2>1. OutputInv(r) /\ QueueInv(r) /\ CaughtUpInv(r)
    BY <1>1, <1>2, <1>5, <1>9 DEF ReaderInv, Current
  <2>2. Spaced(qq, Len(str))
    BY <1>3, <2>1, SpacedPrefix DEF QueueInv
  <2>3. QueueInv(r)'
    BY <1>1, <1>5, <2>2 DEF QueueInv
  <2>4. CaughtUpInv(r)'
    BY <1>5, <1>7, <2>1 DEF CaughtUpInv, Growth
  <2>5. OutputInv(r)' /\ EOFInv(r)'
    BY <1>1, <1>5, <2>1 DEF OutputInv, EOFInv
  <2> QED
    BY <2>3, <2>4, <2>5
<1>10. ReaderInv(r)'
  BY <1>8, <1>9 DEF ReaderInv
<1> QED
  BY <1>1, <1>4, <1>10, OneReader

\* A replay that is over has handed over everything stored.
LEMMA ReplayPreserves ==
  ASSUME TypeOK, BrokerInv, NEW r \in Reader, Replay(r)
  PROVE  BrokerInv'
<1> DEFINE q == rd[r].queue
<1>1. rd[r].status = "reading" /\ str' = str /\ epoch' = epoch
  BY DEF Replay
<1>2. ReaderInv(r)
  BY DEF BrokerInv
<1>3. q \in Seq(Message) /\ Len(str) \in Nat /\ Advanced(r) \in ReaderState
  BY AdvancedIsState DEF TypeOK, ReaderState
<1>4. PICK x : rd' = [rd EXCEPT ![r] = x]
  BY DEF Replay, TypeOK
<1>5. /\ rd'[r].conn = rd[r].conn /\ rd'[r].queue = q
      /\ rd'[r].start = rd[r].start /\ rd'[r].epoch = rd[r].epoch
      /\ rd'[r].offset = Advanced(r).offset /\ rd'[r].out = Advanced(r).out
      /\ rd'[r].status = IF FetchEOF(r) THEN "eof" ELSE "reading"
  <2>1. /\ Advanced(r).conn = rd[r].conn /\ Advanced(r).queue = q
        /\ Advanced(r).start = rd[r].start /\ Advanced(r).epoch = rd[r].epoch
        /\ Advanced(r).status = rd[r].status
    BY DEF Advanced, TypeOK, ReaderState
  <2> QED
    BY <1>1, <1>3, <2>1 DEF Replay, TypeOK, ReaderState
<1>6. /\ rd'[r].replayed = CaughtUp(r)
      /\ rd'[r].covered = (rd[r].conn # "sent")
      /\ FetchEOF(r) => rd'[r].owed = Len(str)
  BY <1>3 DEF Replay, TypeOK, ReaderState
<1>7. ConnInv(r)'
  <2>1. rd[r].conn # "none"
    BY <1>1, <1>2 DEF ReaderInv, ConnInv, Replay
  <2> QED
    BY <1>1, <1>2, <1>5, <1>6, <2>1 DEF ReaderInv, ConnInv
<1>8. ASSUME Current(r)'
      PROVE  OutputInv(r)' /\ QueueInv(r)' /\ CaughtUpInv(r)' /\ EOFInv(r)'
  <2>1. OutputInv(r) /\ QueueInv(r) /\ CaughtUpInv(r)
    BY <1>1, <1>2, <1>5, <1>8 DEF ReaderInv, Current
  <2>2. PICK n \in Nat :
          /\ Advanced(r) = [rd[r] EXCEPT !.offset = n, !.out = SubSeq(str, rd[r].start + 1, n)]
          /\ rd[r].start <= n /\ rd[r].offset <= n
          /\ n = rd[r].start \/ n <= Len(str)
          /\ ~Buffered(rd[r].offset, Len(str)) => Len(str) <= n
    BY <2>1, FetchAdvances
  <2>3. rd'[r].offset = n /\ rd'[r].out = SubSeq(str, rd[r].start + 1, n)
    BY <1>5, <2>2 DEF TypeOK, ReaderState
  <2>4. OutputInv(r)'
    BY <1>1, <1>5, <2>2, <2>3 DEF OutputInv
  <2>5. QueueInv(r)'
    BY <1>1, <1>5, <2>1 DEF QueueInv, Spaced, Growth
  <2>6. CaughtUpInv(r)'
    <3>1. ASSUME CaughtUp(r)
          PROVE  Len(str) <= n /\ (q # << >> => q[1].len <= n + Growth(q[1]))
      <4>1. Len(str) <= n
        BY <2>2, <3>1 DEF CaughtUp
      <4>2. ASSUME q # << >>
            PROVE  q[1].len <= n + Growth(q[1])
        <5>1. 1 \in 1..Len(q) /\ q[1] \in Message
          BY <1>3, <4>2
        <5>2. q[1].len <= Len(str)
          BY <2>1, <5>1 DEF QueueInv, Spaced
        <5> QED
          BY <1>3, <4>1, <5>1, <5>2, GrowthIsNat
      <4> QED
        BY <4>1, <4>2
    <3> QED
      BY <1>1, <1>5, <1>6, <2>3, <3>1 DEF CaughtUpInv, Growth
  <2>7. EOFInv(r)'
    <3>1. FetchEOF(r) => Len(str) <= n
      BY <2>2 DEF FetchEOF
    <3> QED
      BY <1>5, <1>6, <2>3, <3>1 DEF EOFInv
  <2> QED
    BY <2>4, <2>5, <2>6, <2>7
<1>9. ReaderInv(r)'
  BY <1>7, <1>8 DEF ReaderInv
<1> QED
  BY <1>1, <1>4, <1>9, OneReader

(***************************************************************************)
(* Taking a message: a fetch for an "id" catches up with the chunk that    *)
(* came with it, because a chunk is no longer than the buffer, and every   *)
(* other message finds the reader caught up with it already.               *)
(***************************************************************************)
LEMMA HeadTaken ==
  ASSUME NEW q \in Seq(Message), q # << >>, NEW size \in Nat, Spaced(q, size),
         NEW off \in Nat, NEW n \in Nat, off <= n,
         q[1].len <= off + Growth(q[1]),
         q[1].ch = "id" => size <= n \/ n = off + ReadLen
  PROVE  /\ q[1].len <= n
         /\ Tail(q) # << >> => Tail(q)[1].len <= n + Growth(Tail(q)[1])
         /\ Tail(q) # << >> => q[Len(q)] = Tail(q)[Len(Tail(q))]
         /\ Tail(q) = << >> => q[Len(q)] = q[1]
<1>1. PICK k \in Nat : Len(q) = k + 1
  OBVIOUS
<1>2. Len(Tail(q)) = k /\ (\A i \in 1..k : Tail(q)[i] = q[i + 1]) /\ Tail(q) \in Seq(Message)
  BY <1>1, HeadTailProperties
<1>3. q[1] \in Message
  OBVIOUS
<1>4. PICK l \in Nat, g \in Nat : l = q[1].len /\ g = Growth(q[1])
  BY <1>3, GrowthIsNat
<1>5. l <= size
  <2>1. 1 \in 1..Len(q)
    BY <1>1
  <2> QED
    BY <1>4, <2>1 DEF Spaced
<1>6. l <= n
  <2>1. CASE q[1].ch # "id"
    BY <1>3, <1>4, <2>1, GrowthIsNat
  <2>2. CASE q[1].ch = "id"
    <3>1. g = MaxChunk
      BY <1>4, <2>2 DEF Growth
    <3> QED
      BY <1>4, <1>5, <2>2, <3>1, BrokerAssumption
  <2> QED
    BY <2>1, <2>2
<1>7. ASSUME Tail(q) # << >>
      PROVE  Tail(q)[1].len <= n + Growth(Tail(q)[1])
  <2>1. k # 0
    BY <1>2, <1>7
  <2>2. 1 \in 1..k /\ 1 \in 1..(Len(q) - 1) /\ 2 \in 1..Len(q) /\ 1 + 1 = 2
    BY <1>1, <2>1
  <2>3. Tail(q)[1] = q[2]
    BY <1>2, <2>2
  <2>4. q[2].len <= q[1].len + Growth(q[2])
    BY <2>2 DEF Spaced
  <2>5. q[2] \in Message
    BY <2>2
  <2>6. PICK l2 \in Nat, g2 \in Nat : l2 = q[2].len /\ g2 = Growth(q[2])
    BY <2>5, GrowthIsNat
  <2>7. l2 <= l + g2
    BY <1>4, <2>4, <2>6
  <2>8. l2 <= n + g2
    BY <1>6, <2>7
  <2> QED
    BY <2>3, <2>6, <2>8
<1>8. Tail(q) # << >> => q[Len(q)] = Tail(q)[Len(Tail(q))]
  <2>1. Tail(q) # << >> => k \in 1..k
    BY <1>2
  <2> QED
    BY <1>1, <1>2, <2>1
<1>9. Tail(q) = << >> => q[Len(q)] = q[1]
  <2>1. Tail(q) = << >> => k = 0
    BY <1>2
  <2> QED
    BY <1>1, <2>1
<1> QED
  BY <1>4, <1>6, <1>7, <1>8, <1>9

LEMMA ReceivePreserves ==
  ASSUME TypeOK, BrokerInv, NEW r \in Reader, Receive(r)
  PROVE  BrokerInv'
<1> DEFINE q   == rd[r].queue
           msg == Head(q)
           a   == Advanced(r)
<1>1. /\ rd[r].status = "reading" /\ rd[r].replayed /\ q # << >> /\ Wakes(msg)
      /\ str' = str /\ epoch' = epoch
  BY DEF Receive
<1>2. ReaderInv(r)
  BY DEF BrokerInv
<1>3. q \in Seq(Message) /\ Len(str) \in Nat /\ a \in ReaderState /\ rd[r].offset \in Nat
  BY AdvancedIsState DEF TypeOK, ReaderState
<1>4. PICK x : rd' = [rd EXCEPT ![r] = x]
  BY DEF Receive, TypeOK
<1>5. /\ a.conn = rd[r].conn /\ a.queue = q /\ a.status = "reading"
      /\ a.start = rd[r].start /\ a.epoch = rd[r].epoch
      /\ a.replayed = rd[r].replayed /\ a.covered = rd[r].covered
  BY <1>1 DEF Advanced, TypeOK, ReaderState
<1>6. /\ rd'[r].start = rd[r].start /\ rd'[r].epoch = rd[r].epoch
      /\ rd'[r].offset = a.offset /\ rd'[r].out = a.out
      /\ rd'[r].replayed = rd[r].replayed /\ rd'[r].covered = rd[r].covered
  BY <1>3, <1>5 DEF Receive, ClosedConn, TypeOK, ReaderState
<1>7. ~Ends(r, msg) => /\ rd'[r].conn = rd[r].conn /\ rd'[r].queue = Tail(q)
                       /\ rd'[r].status = "reading"
  BY <1>3, <1>5 DEF Receive, TypeOK, ReaderState
<1>8. Ends(r, msg) => /\ rd'[r].conn = "closed" /\ rd'[r].queue = << >>
                      /\ rd'[r].owed = IF msg.ch = "kill" THEN msg.len ELSE Len(str)
                      /\ rd'[r].status = "eof"
  BY <1>3, <1>5 DEF Receive, ClosedConn, TypeOK, ReaderState
<1>9. rd[r].conn \notin {"none", "sent"}
  BY <1>1, <1>2 DEF ReaderInv, ConnInv
<1>10. ConnInv(r)'
  BY <1>1, <1>2, <1>6, <1>7, <1>8, <1>9 DEF ReaderInv, ConnInv
<1>11. ASSUME Current(r)'
       PROVE  OutputInv(r)' /\ QueueInv(r)' /\ CaughtUpInv(r)' /\ EOFInv(r)'
  <2>1. OutputInv(r) /\ QueueInv(r) /\ CaughtUpInv(r)
    BY <1>1, <1>2, <1>6, <1>11 DEF ReaderInv, Current
  <2>2. PICK n \in Nat :
          /\ a = [rd[r] EXCEPT !.offset = n, !.out = SubSeq(str, rd[r].start + 1, n)]
          /\ rd[r].start <= n /\ rd[r].offset <= n
          /\ n = rd[r].start \/ n <= Len(str)
          /\ Len(str) <= n \/ n = rd[r].offset + ReadLen
          /\ ~Buffered(rd[r].offset, Len(str)) => Len(str) <= n
    BY <2>1, FetchAdvances
  <2>3. rd'[r].offset = n /\ rd'[r].out = SubSeq(str, rd[r].start + 1, n)
    <3>1. a = [rd[r] EXCEPT !.offset = n, !.out = SubSeq(str, rd[r].start + 1, n)]
      BY <2>2
    <3>2. rd[r] \in ReaderState
      BY DEF TypeOK
    <3>3. a.offset = n /\ a.out = SubSeq(str, rd[r].start + 1, n)
      <4> HIDE DEF a
      <4> QED
        BY <3>1, <3>2 DEF ReaderState
    <3> QED
      BY <1>6, <3>3
  <2>4. OutputInv(r)'
    BY <1>1, <1>6, <2>2, <2>3 DEF OutputInv
  <2>5. Spaced(q, Len(str))
    BY <2>1 DEF QueueInv
  <2>6. msg = q[1]
    BY <1>1, <1>3
  <2>7. ASSUME rd[r].covered
        PROVE  /\ msg.len <= n
               /\ Tail(q) # << >> => Tail(q)[1].len <= n + Growth(Tail(q)[1])
               /\ Tail(q) # << >> => q[Len(q)] = Tail(q)[Len(Tail(q))]
               /\ Tail(q) = << >> => q[Len(q)] = q[1]
    <3>1. q[1].len <= rd[r].offset + Growth(q[1])
      BY <1>1, <2>1, <2>7 DEF CaughtUpInv
    <3>2. q[1].ch = "id" => Len(str) <= n \/ n = rd[r].offset + ReadLen
      BY <2>2
    <3> QED
      BY <1>1, <1>3, <2>2, <2>5, <2>6, <3>1, <3>2, HeadTaken
  <2>8. EOFInv(r)'
    <3>1. FetchEOF(r) => Len(str) <= n
      BY <2>2 DEF FetchEOF
    <3> QED
      BY <1>6, <1>7, <1>8, <2>3, <2>7, <3>1 DEF EOFInv, Ends
  <2>9. CASE Ends(r, msg)
    BY <1>6, <1>8, <2>4, <2>8, <2>9 DEF QueueInv, Spaced, CaughtUpInv
  <2>10. CASE ~Ends(r, msg)
    <3>1. Spaced(Tail(q), Len(str))
      BY <1>1, <1>3, <2>5, SpacedTail
    <3>2. QueueInv(r)'
      <4>1. ASSUME Tail(q) # << >>
            PROVE  q[Len(q)] = Tail(q)[Len(Tail(q))]
        BY <1>1, <1>3, <4>1, HeadTailProperties
      <4>2. rd[r].conn = "subscribed" => q[Len(q)].len = Len(str)
        BY <1>1, <2>1 DEF QueueInv
      <4> QED
        BY <1>1, <1>7, <2>10, <3>1, <4>1, <4>2 DEF QueueInv
    <3>3. CaughtUpInv(r)'
      <4>1. rd[r].conn = "subscribed" => q[Len(q)].len = Len(str)
        BY <1>1, <2>1 DEF QueueInv
      <4> QED
        BY <1>1, <1>6, <1>7, <2>3, <2>6, <2>7, <2>10, <4>1 DEF CaughtUpInv, Growth
    <3> QED
      BY <2>4, <2>8, <3>2, <3>3
  <2> QED
    BY <2>9, <2>10
<1>12. ReaderInv(r)'
  BY <1>10, <1>11 DEF ReaderInv
<1> QED
  BY <1>1, <1>4, <1>12, OneReader

LEMMA ReceiveOtherPreserves ==
  ASSUME TypeOK, BrokerInv, NEW r \in Reader, ReceiveOther(r)
  PROVE  BrokerInv'
<1> DEFINE q   == rd[r].queue
           off == rd[r].offset
<1>1. /\ rd[r].status = "reading" /\ rd[r].replayed /\ q # << >> /\ ~Wakes(Head(q))
      /\ str' = str /\ epoch' = epoch
  BY DEF ReceiveOther
<1>2. ReaderInv(r)
  BY DEF BrokerInv
<1>3. q \in Seq(Message) /\ Len(str) \in Nat /\ off \in Nat
  BY DEF TypeOK, ReaderState
<1>4. PICK x : rd' = [rd EXCEPT ![r] = x]
  BY DEF ReceiveOther, TypeOK
<1>5. /\ rd'[r].queue = Tail(q) /\ rd'[r].conn = rd[r].conn
      /\ rd'[r].status = rd[r].status
      /\ rd'[r].offset = off /\ rd'[r].replayed = rd[r].replayed
      /\ rd'[r].start = rd[r].start /\ rd'[r].out = rd[r].out
      /\ rd'[r].epoch = rd[r].epoch /\ rd'[r].covered = rd[r].covered
  BY DEF ReceiveOther, TypeOK, ReaderState
<1>6. rd[r].conn \notin {"none", "sent"}
  BY <1>1, <1>2 DEF ReaderInv, ConnInv
<1>7. ConnInv(r)'
  BY <1>1, <1>2, <1>5, <1>6 DEF ReaderInv, ConnInv
<1>8. ASSUME Current(r)'
      PROVE  OutputInv(r)' /\ QueueInv(r)' /\ CaughtUpInv(r)' /\ EOFInv(r)'
  <2>1. OutputInv(r) /\ QueueInv(r) /\ CaughtUpInv(r)
    BY <1>1, <1>2, <1>5, <1>8 DEF ReaderInv, Current
  <2>2. Spaced(q, Len(str))
    BY <2>1 DEF QueueInv
  <2>3. q[1].ch # "id"
    BY <1>1, <1>3 DEF Wakes
  <2>4. Spaced(Tail(q), Len(str))
    BY <1>1, <1>3, <2>2, SpacedTail
  <2>5. Tail(q) # << >> => q[Len(q)] = Tail(q)[Len(Tail(q))]
    BY <1>1, <1>3, HeadTailProperties
  <2>6. rd[r].conn = "subscribed" => q[Len(q)].len = Len(str)
    BY <1>1, <2>1 DEF QueueInv
  <2>7. QueueInv(r)'
    BY <1>1, <1>5, <2>4, <2>5, <2>6 DEF QueueInv
  <2>8. ASSUME rd[r].covered
        PROVE  /\ q[1].len <= off
               /\ Tail(q) # << >> => Tail(q)[1].len <= off + Growth(Tail(q)[1])
               /\ Tail(q) = << >> => q[Len(q)] = q[1]
    <3>1. q[1].len <= off + Growth(q[1])
      BY <1>1, <2>1, <2>8 DEF CaughtUpInv
    <3>2. off <= off
      BY <1>3
    <3> HIDE DEF q, off
    <3> QED
      BY <1>1, <1>3, <2>2, <2>3, <3>1, <3>2, HeadTaken
  <2>9. CaughtUpInv(r)'
    BY <1>1, <1>5, <2>6, <2>8 DEF CaughtUpInv, Growth
  <2>10. OutputInv(r)' /\ EOFInv(r)'
    BY <1>1, <1>5, <2>1 DEF OutputInv, EOFInv
  <2> QED
    BY <2>7, <2>9, <2>10
<1>9. ReaderInv(r)'
  BY <1>7, <1>8 DEF ReaderInv
<1> QED
  BY <1>1, <1>4, <1>9, OneReader

LEMMA ReceiveErrorPreserves ==
  ASSUME TypeOK, BrokerInv, NEW r \in Reader, ReceiveError(r)
  PROVE  BrokerInv'
<1>1. rd[r].conn = "lost" /\ str' = str /\ epoch' = epoch
  BY DEF ReceiveError
<1>2. ReaderInv(r)
  BY DEF BrokerInv
<1>3. PICK x : rd' = [rd EXCEPT ![r] = x]
  BY DEF ReceiveError, TypeOK
<1>4. /\ rd'[r].status = "error" /\ rd'[r].conn = rd[r].conn
      /\ rd'[r].queue = rd[r].queue
      /\ rd'[r].offset = rd[r].offset /\ rd'[r].replayed = rd[r].replayed
      /\ rd'[r].start = rd[r].start /\ rd'[r].out = rd[r].out
      /\ rd'[r].epoch = rd[r].epoch /\ rd'[r].covered = rd[r].covered
  BY DEF ReceiveError, TypeOK, ReaderState
<1>5. ReaderInv(r)'
  BY <1>1, <1>2, <1>4
     DEF ReaderInv, ConnInv, Current, OutputInv, QueueInv, Spaced, Growth, CaughtUpInv, EOFInv
<1> QED
  BY <1>1, <1>3, <1>5, OneReader

LEMMA CloseReaderPreserves ==
  ASSUME TypeOK, BrokerInv, NEW r \in Reader, CloseReader(r)
  PROVE  BrokerInv'
<1> DEFINE st == IF rd[r].status = "reading" THEN "closed" ELSE rd[r].status
<1>1. rd[r].status \in {"reading", "eof", "error"} /\ str' = str /\ epoch' = epoch
  BY DEF CloseReader
<1>2. st \in {"eof", "error", "closed"} /\ (st = "eof" => rd[r].status = "eof")
  BY <1>1
<1>3. rd' = [rd EXCEPT ![r] = [ClosedConn(rd[r]) EXCEPT !.status = st]]
  BY DEF CloseReader
<1>4. rd'[r] = [ClosedConn(rd[r]) EXCEPT !.status = st]
  BY <1>3 DEF TypeOK
<1>5. ReaderInv(r)'
  BY <1>1, <1>2, <1>4, ClosePreserves
<1> QED
  BY <1>1, <1>3, <1>5, OneReader

LEMMA FetchPanicsPreserves ==
  ASSUME TypeOK, BrokerInv, FetchPanics
  PROVE  BrokerInv'
<1> SUFFICES ASSUME NEW r \in Reader
             PROVE  ReaderInv(r)'
  BY DEF BrokerInv
<1>1. str' = str /\ epoch' = epoch
  BY DEF FetchPanics
<1>2. ReaderInv(r)
  BY DEF BrokerInv
<1>3. CASE rd[r].status = "reading"
  <2>1. rd'[r] = [ClosedConn(rd[r]) EXCEPT !.status = "closed"]
    BY <1>3 DEF FetchPanics
  <2> QED
    BY <1>1, <1>3, <2>1, ClosePreserves
<1>4. CASE rd[r].status \in {"eof", "error"}
  <2>1. rd'[r] = ClosedConn(rd[r])
    BY <1>4 DEF FetchPanics
  <2>2. ClosedConn(rd[r]) = [ClosedConn(rd[r]) EXCEPT !.status = rd[r].status]
    BY DEF ClosedConn, TypeOK, ReaderState
  <2> QED
    BY <1>1, <1>4, <2>1, <2>2, ClosePreserves
<1>5. CASE rd[r].status \notin {"reading", "eof", "error"}
  <2>1. rd'[r] = rd[r]
    BY <1>5 DEF FetchPanics
  <2> QED
    BY <1>1, <1>2, <2>1
       DEF ReaderInv, ConnInv, Current, OutputInv, QueueInv, Spaced, Growth, CaughtUpInv, EOFInv
<1> QED
  BY <1>3, <1>4, <1>5

-----------------------------------------------------------------------------
(* The invariant.                                                          *)

LEMMA InvNext == TypeOK /\ BrokerInv /\ [Next]_vars => BrokerInv'
<1> SUFFICES ASSUME TypeOK, BrokerInv, [Next]_vars
             PROVE  BrokerInv'
  OBVIOUS
<1>e. /\ << >> \in Seq(Byte) /\ Len(<< >>) = 0 /\ str \o << >> = str
      /\ Len(str) \in Nat /\ Len(str) + 0 = Len(str) /\ 0 <= MaxChunk
  BY ConcatEmptySeq, BrokerAssumption DEF TypeOK
<1>1. CASE Register
  BY <1>1, DiscardPreserves DEF Register
<1>2. CASE OtherPublish
  <2>1. rd' = Published("other", Len(str) + Len(<< >>)) /\ str' = str \o << >>
    BY <1>2, <1>e DEF OtherPublish
  <2> QED
    BY <1>2, <1>e, <2>1, PublishPreserves DEF OtherPublish
<1>3. CASE FetchPanics
  BY <1>3, FetchPanicsPreserves
<1>4. CASE Tick
  BY <1>4, DiscardPreserves DEF Tick
<1>5. CASE \E w \in Writer : WriterStep(w)
  <2> PICK w \in Writer : WriterStep(w)
    BY <1>5
  <2>1. CASE \E answered \in BOOLEAN : NewWriter(w, answered)
    BY <2>1, DiscardPreserves DEF NewWriter
  <2>2. CASE \E p \in Chunk, replied \in BOOLEAN : Write(w, p, replied)
    <3> PICK p \in Chunk, replied \in BOOLEAN : Write(w, p, replied)
      BY <2>2
    <3>1. p \in Seq(Byte) /\ Len(p) <= MaxChunk
      BY ChunkIsSeq, BrokerAssumption
    <3> QED
      BY <3>1, PublishPreserves DEF Write
  <2>3. CASE WriteFails(w)
    BY <2>3, DiscardPreserves DEF WriteFails
  <2>4. CASE CloseWriter(w)
    <3>1. rd' = Published("kill", Len(str) + Len(<< >>)) /\ str' = str \o << >>
      BY <2>4, <1>e DEF CloseWriter
    <3> QED
      BY <2>4, <1>e, <3>1, PublishPreserves DEF CloseWriter
  <2>5. CASE CloseLost(w)
    BY <2>5, DiscardPreserves DEF CloseLost
  <2> QED
    BY <2>1, <2>2, <2>3, <2>4, <2>5 DEF WriterStep
<1>6. CASE \E r \in Reader : ReaderStep(r)
  <2> PICK r \in Reader : ReaderStep(r)
    BY <1>6
  <2>1. CASE \E off \in StartOffset, answered \in BOOLEAN : NewReader(r, off, answered)
    BY <2>1, NewReaderPreserves
  <2>2. CASE PSubscribed(r)
    BY <2>2, PSubscribedPreserves
  <2>3. CASE \E n \in 0..Len(rd[r].queue) : ConnLost(r, n)
    BY <2>3, ConnLostPreserves
  <2>4. CASE Replay(r)
    BY <2>4, ReplayPreserves
  <2>5. CASE Receive(r)
    BY <2>5, ReceivePreserves
  <2>6. CASE ReceiveOther(r)
    BY <2>6, ReceiveOtherPreserves
  <2>7. CASE ReceiveError(r)
    BY <2>7, ReceiveErrorPreserves
  <2>8. CASE CloseReader(r)
    BY <2>8, CloseReaderPreserves
  <2>9. CASE RenewExpiry(r) \/ LateFetch(r)
    BY <2>9, DiscardPreserves DEF RenewExpiry, LateFetch
  <2> QED
    BY <2>1, <2>2, <2>3, <2>4, <2>5, <2>6, <2>7, <2>8, <2>9 DEF ReaderStep, ReadStep
<1>7. CASE UNCHANGED vars
  BY <1>7, DiscardPreserves DEF vars
<1> QED
  BY <1>1, <1>2, <1>3, <1>4, <1>5, <1>6, <1>7 DEF Next

(***************************************************************************)
(* The inductive invariant holds in every reachable state: how far behind  *)
(* a reader may be is bounded by the messages that wait for it.            *)
(***************************************************************************)
THEOREM InvCorrect == Spec => []BrokerInv
<1>1. Init => TypeOK /\ BrokerInv
  BY TypeInit, InvInit
<1>2. TypeOK /\ BrokerInv /\ [Next]_vars => TypeOK' /\ BrokerInv'
  BY TypeNext, InvNext
<1> QED
  BY <1>1, <1>2, PTL DEF Spec

(***************************************************************************)
(* Whatever the interleaving, a reader hands over the stored bytes from    *)
(* its offset on, each once and in order.                                  *)
(***************************************************************************)
THEOREM DeliveryCorrect == Spec => []DeliveredInOrder
<1>1. BrokerInv => DeliveredInOrder
  BY DEF BrokerInv, ReaderInv, OutputInv, DeliveredInOrder
<1> QED
  BY <1>1, InvCorrect, PTL

(***************************************************************************)
(* A reader whose subscription was in force at its last replay is never    *)
(* told EOF before it has handed over what was stored at the close.        *)
(***************************************************************************)
THEOREM EOFCorrect == Spec => []EOFComplete
<1>1. BrokerInv => EOFComplete
  BY DEF BrokerInv, ReaderInv, EOFInv, EOFComplete
<1> QED
  BY <1>1, InvCorrect, PTL

(***************************************************************************)
(* A covered reader that is behind has an "id" message waiting for it.     *)
(***************************************************************************)
THEOREM WakeupCorrect == Spec => []NoLostWakeup
<1>1. TypeOK /\ BrokerInv => NoLostWakeup
  <2> SUFFICES ASSUME TypeOK, BrokerInv, NEW r \in Reader,
                      rd[r].status = "reading", rd[r].replayed, rd[r].covered,
                      rd[r].conn = "subscribed", Current(r), rd[r].offset < Len(str),
                      \A i \in 1..Len(rd[r].queue) : rd[r].queue[i].ch # "id"
               PROVE  FALSE
    BY DEF NoLostWakeup
  <2> DEFINE q == rd[r].queue
  <2>1. QueueInv(r) /\ CaughtUpInv(r)
    BY DEF BrokerInv, ReaderInv
  <2>2. PICK off \in Nat, size \in Nat : off = rd[r].offset /\ size = Len(str)
    <3>1. rd[r].offset \in Nat /\ Len(str) \in Nat
      BY DEF TypeOK, ReaderState
    <3> QED
      BY <3>1
  <2>3. q \in Seq(Message) /\ off < size
    BY <2>2 DEF TypeOK, ReaderState
  <2>4. CASE q = << >>
    BY <2>1, <2>2, <2>3, <2>4 DEF CaughtUpInv
  <2>5. CASE q # << >>
    <3>1. PICK k \in Nat : k = Len(q) /\ 1 \in 1..k /\ k \in 1..k
      BY <2>3, <2>5
    <3>2. q[k].len = size
      BY <2>1, <2>2, <2>5, <3>1 DEF QueueInv
    <3>3. \A j \in (1 + 1)..k : j \in 1..k
      OBVIOUS
    <3>4. q[k].len <= q[1].len
      BY <2>1, <3>1, <3>3 DEF QueueInv, Spaced
    <3>5. q[1] \in Message /\ q[1].ch # "id"
      BY <2>3, <3>1
    <3>6. PICK l \in Nat : l = q[1].len /\ Growth(q[1]) = 0
      BY <3>5, GrowthIsNat
    <3>7. l <= off
      BY <2>1, <2>2, <2>5, <3>6 DEF CaughtUpInv
    <3> QED
      BY <2>3, <3>2, <3>4, <3>6, <3>7
  <2> QED
    BY <2>4, <2>5
<1> QED
  BY <1>1, TypeCorrect, InvCorrect, PTL
=============================================================================
