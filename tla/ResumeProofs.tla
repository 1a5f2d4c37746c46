---------------------------- MODULE ResumeProofs ----------------------------
(***************************************************************************)
(* What module Resume promises, proved for every stream, buffer, first     *)
(* offset, set of bytes and range of integers: its types, that a client    *)
(* that resumes has exactly the stream from where it began, that it is     *)
(* told to stop only when it has everything, and that the wire changes     *)
(* nothing, whatever bytes cross it and wherever it breaks.                *)
(*                                                                         *)
(* ResumeInv is inductive.  What a fetch has found is what the stream held *)
(* at the reader's offset, and still holds; the encoder's offset and the   *)
(* reader's differ only for an offset that was negative at first, and then *)
(* by an amount that int64 has room for; as long as nothing was cut off,   *)
(* both are the client's last id; and the length is asked for only while   *)
(* no response is open.                                                    *)
(***************************************************************************)
EXTENDS Resume, SequenceTheorems, WellFoundedInduction, TLAPS

\* The encoder counts from 0 where the reader counts from a negative offset,
\* and from a negative offset where the reader of a blob counts from 0.
CountInv ==
  LET ahead == resp.count - resp.off
  IN  resp.open =>
        \/ ahead = 0 /\ resp.off >= 0
        \/ ~stored /\ ahead \in 1..(MaxInt - MaxLen) /\ resp.off \in (-ahead)..MaxLen
        \/ stored /\ ahead \in (MaxLen - MaxInt)..(-1) /\ resp.off \in 0..MaxLen

\* What may be read at an offset.
Readable(off, data) ==
  /\ data \in Seq(Byte)
  /\ off < 0 => Len(data) <= -off
  /\ (off >= 0 /\ data # << >>) =>
       off + Len(data) <= Len(str) /\ data = SubSeq(str, off + 1, off + Len(data))

AskedInv == asked # NotAsked => resp.open /\ ~stored /\ Readable(resp.off, asked.data)

ExactInv ==
  (~cut /\ client.start >= 0) =>
    /\ ~client.torn
    /\ client.id = client.start \/ (client.start < client.id /\ client.id <= Len(str))
    /\ client.got = SubSeq(str, client.start + 1, client.id)
    /\ resp.open => resp.off = client.id /\ resp.count = client.id

\* The length is asked for before the response begins.
CheckedInv == resp.checked => ~resp.open

ResumeInv ==
  ResumeTypeOK /\ CountInv /\ AskedInv /\ ExactInv /\ CheckedInv /\ (stored => done)

-----------------------------------------------------------------------------
(* Ranges of bytes.                                                        *)

LEMMA RangeIs ==
  ASSUME NEW s \in Seq(Byte), NEW m \in Nat \ {0}, NEW n \in Int, n <= Len(s)
  PROVE  /\ SubSeq(s, m, n) \in Seq(Byte)
         /\ Len(SubSeq(s, m, n)) = IF m <= n THEN n - m + 1 ELSE 0
OBVIOUS

\* What is appended does not change what was there.
LEMMA RangeKept ==
  ASSUME NEW s \in Seq(Byte), NEW b \in Byte, NEW m \in Nat \ {0}, NEW n \in Int,
         n <= Len(s) \/ n < m
  PROVE  SubSeq(Append(s, b), m, n) = SubSeq(s, m, n)
<1>1. CASE n < m
  BY <1>1, SubSeqEmpty
<1>2. CASE m <= n
  <2> DEFINE t == Append(s, b)
  <2>1. t \in Seq(Byte) /\ Len(t) = Len(s) + 1 /\ \A i \in 1..Len(s) : t[i] = s[i]
    OBVIOUS
  <2> HIDE DEF t
  <2>2. /\ SubSeq(t, m, n) \in Seq(Byte) /\ SubSeq(s, m, n) \in Seq(Byte)
        /\ Len(SubSeq(t, m, n)) = n - m + 1 /\ Len(SubSeq(s, m, n)) = n - m + 1
        /\ \A i \in 1..(n - m + 1) : SubSeq(t, m, n)[i] = t[m + i - 1]
        /\ \A i \in 1..(n - m + 1) : SubSeq(s, m, n)[i] = s[m + i - 1]
    BY <1>2, <2>1
  <2>3. \A i \in 1..(n - m + 1) : m + i - 1 \in 1..Len(s)
    BY <1>2
  <2>4. SubSeq(t, m, n) = SubSeq(s, m, n)
    BY <2>1, <2>2, <2>3
  <2> QED
    BY <2>4 DEF t
<1> QED
  BY <1>1, <1>2

\* What is between two offsets and what follows it.
LEMMA RangesJoin ==
  ASSUME NEW s \in Seq(Byte), NEW first \in Nat, NEW upto \in Nat, NEW n \in Nat,
         first <= upto, upto + n <= Len(s)
  PROVE  SubSeq(s, first + 1, upto) \o SubSeq(s, upto + 1, upto + n) = SubSeq(s, first + 1, upto + n)
<1>1. \A m \in 1..(Len(s) + 1) : \A k \in (m - 1)..Len(s) : \A j \in k..Len(s) :
        SubSeq(s, m, k) \o SubSeq(s, k + 1, j) = SubSeq(s, m, j)
  BY ConcatAdjacentSubSeq
<1>2. PICK m \in Int, j \in Int : m = first + 1 /\ j = upto + n
  OBVIOUS
<1>3. m \in 1..(Len(s) + 1) /\ upto \in (m - 1)..Len(s) /\ j \in upto..Len(s)
  BY <1>2
<1>4. SubSeq(s, m, upto) \o SubSeq(s, upto + 1, j) = SubSeq(s, m, j)
  BY <1>1, <1>3, Zenon
<1> QED
  BY <1>2, <1>4, Zenon

-----------------------------------------------------------------------------
(* What can be read.                                                       *)

\* A GETRANGE for ReadLen bytes, its end wrapped around or not.
LEMMA ExecutedIs ==
  ASSUME ResumeTypeOK
  PROVE  /\ Executed \in Found /\ Len(Executed.data) <= ReadLen
         /\ Readable(resp.off, Executed.data)
<1> DEFINE off == resp.off
           L == Len(str)
           end == LastAsked
           from == IF off < 0 THEN IF off + L < 0 THEN 0 ELSE off + L ELSE off
           to == IF end < 0 THEN IF end + L < 0 THEN 0 ELSE end + L ELSE end
           last == IF to < L THEN to + 1 ELSE L
           d == SubSeq(str, from + 1, last)
<1>1. Executed = [data |-> d, size |-> L, done |-> done]
  BY DEF Executed, GetRange
<1>2. /\ off \in Int /\ off <= MaxInt /\ off >= MaxLen - MaxInt /\ L \in Nat /\ L <= MaxLen
      /\ str \in Seq(Byte) /\ done \in BOOLEAN
  BY ResumeAssumption DEF ResumeTypeOK, Response, Offset
<1>3. \/ off + ReadLen <= MaxInt /\ end = off + ReadLen - 1
      \/ off + ReadLen > MaxInt /\ end = off + ReadLen - 2 * MaxInt - 3
  BY <1>2, ResumeAssumption DEF LastAsked, Wrap
<1> HIDE DEF off, L, end
<1>4. end \in Int /\ to \in Int /\ last \in Int /\ from \in Nat /\ last <= L
  BY <1>2, <1>3, ResumeAssumption
<1>5. /\ off >= 0 => from = off /\ last - from <= ReadLen
      /\ off < 0 => last - from <= ReadLen /\ last - from <= -off
  BY <1>2, <1>3, ResumeAssumption
<1> HIDE DEF from, last, to
<1>6. d \in Seq(Byte) /\ Len(d) = IF from + 1 <= last THEN last - from ELSE 0
  <2>1. str \in Seq(Byte) /\ from + 1 \in Nat \ {0} /\ last \in Int /\ last <= Len(str)
    BY <1>2, <1>4 DEF L
  <2>2. d \in Seq(Byte) /\ Len(d) = IF from + 1 <= last THEN last - (from + 1) + 1 ELSE 0
    BY <2>1, RangeIs
  <2> QED
    BY <1>4, <2>2
<1>7. d # << >> => from < last /\ Len(d) = last - from
  BY <1>4, <1>6
<1>8. (off >= 0 /\ d # << >>) => off + Len(d) = last /\ d = SubSeq(str, off + 1, off + Len(d))
  BY <1>2, <1>4, <1>5, <1>7
<1> HIDE DEF d
<1>9. Len(d) <= ReadLen
  BY <1>2, <1>4, <1>5, <1>6, ResumeAssumption
<1>10. off < 0 => Len(d) <= -off
  BY <1>2, <1>4, <1>5, <1>6, <1>7
<1>11. (off >= 0 /\ d # << >>) =>
          off + Len(d) <= Len(str) /\ d = SubSeq(str, off + 1, off + Len(d))
  BY <1>4, <1>8 DEF L
<1>12. Executed \in Found /\ Executed.data = d
  BY <1>1, <1>2, <1>6, ResumeAssumption DEF Found
<1> QED
  BY <1>6, <1>9, <1>10, <1>11, <1>12 DEF Readable, off

LEMMA FetchedIs ==
  ASSUME ResumeInv, Answered
  PROVE  Readable(resp.off, Fetched)
<1>1. CASE ~stored
  BY <1>1 DEF ResumeInv, AskedInv, Answered, Fetched
<1>2. CASE stored
  <2> DEFINE off == resp.off
             last == IF off + ReadLen < Len(str) THEN off + ReadLen ELSE Len(str)
             d == SubSeq(str, off + 1, last)
  <2>1. Fetched = d
    BY <1>2 DEF Fetched
  <2>2. off \in Nat /\ str \in Seq(Byte) /\ ReadLen \in Nat
    BY <1>2, ResumeAssumption DEF ResumeInv, ResumeTypeOK, CountInv, Answered, Response, Offset
  <2> HIDE DEF off
  <2>3. last \in Nat /\ last <= Len(str) /\ off + 1 \in Nat \ {0}
    BY <2>2
  <2> HIDE DEF last
  <2>4. d \in Seq(Byte) /\ Len(d) = IF off + 1 <= last THEN last - (off + 1) + 1 ELSE 0
    BY <2>2, <2>3, RangeIs
  <2>5. d # << >> => Len(d) # 0
    BY <2>4
  <2> HIDE DEF d
  <2>6. d # << >> => off + Len(d) = last
    BY <2>2, <2>3, <2>4, <2>5
  <2>7. d # << >> => d = SubSeq(str, off + 1, off + Len(d))
    BY <2>6 DEF d
  <2> QED
    BY <2>1, <2>2, <2>3, <2>4, <2>6, <2>7 DEF Readable, off
<1> QED
  BY <1>1, <1>2

-----------------------------------------------------------------------------
(* The records.                                                            *)

LEMMA ResponseIs ==
  ASSUME NEW off \in Offset, NEW count \in Offset
  PROVE  [open |-> TRUE, checked |-> FALSE, off |-> off, count |-> count, stage |-> "replay"]
           \in Response
BY DEF Response

LEMMA StageIs ==
  ASSUME NEW data
  PROVE  resp.stage \in {"replay", "within", "live"}
           => NextStage(data) \in {"replay", "within", "live"}
BY DEF NextStage

LEMMA NoResponseIs ==
  /\ NoResponse \in Response /\ ~NoResponse.open
  /\ [NoResponse EXCEPT !.checked = TRUE] \in Response
  /\ ~[NoResponse EXCEPT !.checked = TRUE].open
<1>1. 0 \in Offset
  BY ResumeAssumption DEF Offset
<1>2. ASSUME NEW b \in BOOLEAN
      PROVE  [NoResponse EXCEPT !.checked = b] \in Response /\ ~[NoResponse EXCEPT !.checked = b].open
  <2>1. FALSE \in BOOLEAN
    OBVIOUS
  <2>2. NoResponse \in Response /\ NoResponse.open = FALSE
    BY <1>1, <2>1 DEF NoResponse, Response
  <2> QED
    BY <2>2 DEF Response
<1>3. TRUE \in BOOLEAN /\ FALSE \in BOOLEAN
  OBVIOUS
<1>4. NoResponse \in Response /\ ~NoResponse.open
  BY <1>1, <1>3 DEF NoResponse, Response
<1> QED
  BY <1>2, <1>3, <1>4, Zenon

LEMMA StartIs ==
  ASSUME NEW r \in Client
  PROVE  r.start \in Int /\ r.id \in Int
<1>1. r.start \in FirstOffset /\ r.id \in Offset
  BY DEF Client
<1>2. r.start \in (MaxLen - MaxInt)..MaxInt
  BY <1>1, ResumeAssumption
<1> QED
  BY <1>1, <1>2 DEF Offset

\* The client goes on: what is never changed, and what else.
Same(x, r) == x \in Client /\ x.start = r.start /\ x.stopped = r.stopped

LEMMA TornIs ==
  ASSUME NEW r \in Client, NEW b \in BOOLEAN
  PROVE  /\ Same([r EXCEPT !.torn = b], r)
         /\ [r EXCEPT !.torn = b].torn = b
         /\ [r EXCEPT !.torn = b].id = r.id /\ [r EXCEPT !.torn = b].got = r.got
BY DEF Client, Same

WithGot(r, got, upto) == [r EXCEPT !.got = got, !.id = upto]

LEMMA GotIs ==
  ASSUME NEW r \in Client, NEW upto \in Offset, NEW got \in Seq(Byte \cup {Junk})
  PROVE  /\ Same(WithGot(r, got, upto), r)
         /\ WithGot(r, got, upto).got = got /\ WithGot(r, got, upto).id = upto
         /\ WithGot(r, got, upto).torn = r.torn
BY DEF Client, Same, WithGot

LEMMA TornNextIs ==
  ASSUME NEW r \in Client, NEW upto \in Offset, NEW b \in BOOLEAN
  PROVE  Same([r EXCEPT !.torn = b, !.nextId = upto], r)
BY DEF Client, Same

LEMMA StoppedIs ==
  ASSUME NEW r \in Client
  PROVE  /\ [r EXCEPT !.stopped = TRUE] \in Client
         /\ [r EXCEPT !.stopped = TRUE].start = r.start
         /\ [r EXCEPT !.stopped = TRUE].id = r.id /\ [r EXCEPT !.stopped = TRUE].got = r.got
         /\ [r EXCEPT !.stopped = TRUE].torn = r.torn
BY DEF Client

LEMMA DispatchedIs ==
  ASSUME client \in Client, NEW msg \in Seq(Byte), NEW last \in Offset
  PROVE  /\ Same(Dispatched(msg, last), client)
         /\ (Fits(msg) /\ ~client.torn) =>
              /\ Dispatched(msg, last).got = client.got \o msg
              /\ Dispatched(msg, last).id = last /\ ~Dispatched(msg, last).torn
<1>1. /\ client.got \in Seq(Byte \cup {Junk}) /\ client.nextId \in Offset
      /\ msg \in Seq(Byte \cup {Junk}) /\ TRUE \in BOOLEAN /\ FALSE \in BOOLEAN
  BY DEF Client
<1>2. client.got \o msg \in Seq(Byte \cup {Junk}) /\ Append(client.got, Junk) \in Seq(Byte \cup {Junk})
  BY <1>1
<1>3. CASE Fits(msg) /\ ~client.torn
  <2>1. PICK got : got = client.got \o msg
    OBVIOUS
  <2>2. Dispatched(msg, last) = WithGot(client, got, last)
    BY <1>3, <2>1 DEF Dispatched, WithGot
  <2>3. got \in Seq(Byte \cup {Junk})
    BY <1>2, <2>1
  <2>4. /\ Same(Dispatched(msg, last), client) /\ Dispatched(msg, last).got = got
        /\ Dispatched(msg, last).id = last /\ Dispatched(msg, last).torn = client.torn
    BY <2>2, <2>3, GotIs
  <2> QED
    BY <1>3, <2>1, <2>4
<1>4. CASE Fits(msg) /\ client.torn
  <2>1. PICK got : got = Append(client.got, Junk)
    OBVIOUS
  <2>2. PICK x : x = WithGot(client, got, client.nextId)
    OBVIOUS
  <2>3. Dispatched(msg, last) = [x EXCEPT !.torn = FALSE]
    BY <1>4, <2>1, <2>2 DEF Dispatched, WithGot
  <2>4. got \in Seq(Byte \cup {Junk})
    BY <1>2, <2>1
  <2>5. Same(x, client)
    BY <1>1, <2>2, <2>4, GotIs
  <2>6. Same(Dispatched(msg, last), x)
    <3>1. x \in Client /\ FALSE \in BOOLEAN
      BY <2>5 DEF Same
    <3> QED
      BY <2>3, <3>1, TornIs
  <2> QED
    BY <1>4, <2>5, <2>6 DEF Same
<1>5. CASE ~Fits(msg) /\ ~client.torn
  <2>1. Dispatched(msg, last) = [client EXCEPT !.torn = TRUE, !.nextId = last]
    BY <1>5 DEF Dispatched
  <2> QED
    BY <1>1, <1>5, <2>1, TornNextIs
<1>6. CASE ~Fits(msg) /\ client.torn
  BY <1>6 DEF Dispatched, Same
<1> QED
  BY <1>3, <1>4, <1>5, <1>6

LEMMA IdleIs ==
  ASSUME client \in Client
  PROVE  Same(Idle, client) /\ Idle.id = client.id /\ Idle.got = client.got /\ ~Idle.torn
<1>1. FALSE \in BOOLEAN
  OBVIOUS
<1> QED
  BY <1>1, TornIs DEF Idle

-----------------------------------------------------------------------------
(* The steps.                                                              *)

\* The response ends, and nothing of it is left at the client.
LEMMA Ends ==
  ASSUME ResumeInv, UNCHANGED <<str, done, stored, cut>>, resp' = NoResponse,
         notice' = NotTold, asked' = NotAsked, client' = Idle
  PROVE  ResumeInv'
<1>1. ResumeTypeOK /\ client \in Client
  BY DEF ResumeInv, ResumeTypeOK
<1>2. /\ client' \in Client /\ client'.start = client.start /\ client'.id = client.id
      /\ client'.got = client.got /\ ~client'.torn
  BY <1>1, IdleIs DEF Same
<1>3. resp' \in Response /\ ~resp'.open
  BY NoResponseIs
<1>4. ResumeTypeOK'
  BY <1>1, <1>2, <1>3, ResumeAssumption DEF ResumeTypeOK, NotAsked
<1>5. CountInv' /\ AskedInv'
  BY <1>3 DEF CountInv, AskedInv
<1>6. ExactInv'
  BY <1>2, <1>3 DEF ResumeInv, ExactInv
<1>7. CheckedInv' /\ (stored => done)'
  BY <1>3 DEF ResumeInv, CheckedInv
<1> QED
  BY <1>4, <1>5, <1>6, <1>7 DEF ResumeInv

LEMMA StopStep ==
  ASSUME ResumeInv, Stop, UNCHANGED <<str, done, stored, notice, asked, cut>>, ~resp.open
  PROVE  ResumeInv'
<1>1. ResumeTypeOK /\ client \in Client
  BY DEF ResumeInv, ResumeTypeOK
<1>2. /\ client' \in Client /\ client'.start = client.start /\ client'.id = client.id
      /\ client'.got = client.got /\ client'.torn = client.torn
  BY <1>1, StoppedIs DEF Stop
<1>3. resp' \in Response /\ ~resp'.open
  BY NoResponseIs DEF Stop
<1>4. ResumeTypeOK'
  BY <1>1, <1>2, <1>3 DEF ResumeTypeOK
<1>5. CountInv' /\ AskedInv' /\ CheckedInv' /\ (stored => done)'
  BY <1>3 DEF ResumeInv, CountInv, AskedInv, CheckedInv, Readable
<1>6. ExactInv'
  BY <1>2, <1>3 DEF ResumeInv, ExactInv
<1> QED
  BY <1>4, <1>5, <1>6 DEF ResumeInv

LEMMA OpenStep ==
  ASSUME ResumeInv, Open, UNCHANGED <<str, done, stored, notice, asked, cut>>, ~resp.open
  PROVE  ResumeInv'
<1> DEFINE off == client.id
           sought == IF stored /\ off < 0 THEN 0 ELSE off
           count == IF ~stored /\ off < 0 THEN 0 ELSE off
<1>1. /\ ResumeTypeOK /\ client \in Client /\ off \in Offset /\ off \in Int /\ MaxInt \in Nat
      /\ MaxLen - MaxInt <= off /\ off <= MaxInt /\ stored \in BOOLEAN
      /\ 0 \in Offset /\ MaxLen \in Nat /\ ReadLen \in Nat
  BY ResumeAssumption DEF ResumeInv, ResumeTypeOK, Client, Offset
<1>2. ~resp.open /\ UNCHANGED <<str, done, stored, notice, asked, cut>>
  OBVIOUS
<1>3. /\ client' = client
      /\ resp' = [open |-> TRUE, checked |-> FALSE, off |-> sought, count |-> count,
                  stage |-> "replay"]
  BY DEF Open, Sought, EncoderSought
<1>4. ResumeInv'
  <2>1. sought \in Offset /\ count \in Offset
    BY <1>1
  <2>2. resp' \in Response /\ resp'.open /\ resp'.off = sought /\ resp'.count = count
    BY <1>3, <2>1, ResponseIs
  <2>3. ResumeTypeOK'
    BY <1>1, <1>2, <1>3, <2>2 DEF ResumeTypeOK
  <2>4. CountInv'
    <3>1. \/ count = sought /\ sought >= 0
          \/ ~stored /\ off < 0 /\ sought = off /\ count = 0
          \/ stored /\ off < 0 /\ sought = 0 /\ count = off
      BY <1>1
    <3> HIDE DEF sought, count, off
    <3>2. CASE count = sought /\ sought >= 0
      <4>1. count - sought = 0
        BY <2>1, <3>2 DEF Offset
      <4> QED
        BY <2>2, <3>2, <4>1 DEF CountInv
    <3>3. CASE ~stored /\ off < 0 /\ sought = off /\ count = 0
      <4>1. /\ count - sought = -off /\ -off \in 1..(MaxInt - MaxLen)
            /\ sought = -(-off) /\ sought \in (-(-off))..MaxLen
        BY <1>1, <3>3
      <4> QED
        BY <1>2, <2>2, <3>3, <4>1 DEF CountInv
    <3>4. CASE stored /\ off < 0 /\ sought = 0 /\ count = off
      <4>1. count - sought = off /\ off \in (MaxLen - MaxInt)..(-1) /\ 0 \in 0..MaxLen
        BY <1>1, <3>4
      <4> QED
        BY <1>2, <2>2, <3>4, <4>1 DEF CountInv
    <3> QED
      BY <3>1, <3>2, <3>3, <3>4
  <2>5. AskedInv' /\ CheckedInv' /\ (stored => done)'
    BY <1>2, <1>3 DEF ResumeInv, AskedInv, CheckedInv
  <2>6. ExactInv'
    <3> SUFFICES ASSUME ~cut, client.start >= 0
                 PROVE  ExactInv'
      BY <1>2, <1>3 DEF ExactInv
    <3>1. off >= 0
      <4>1. off = client.start \/ client.start < off
        BY DEF ResumeInv, ExactInv
      <4>2. client.start \in Int
        BY <1>1, StartIs
      <4> QED
        BY <1>1, <4>1, <4>2
    <3>2. sought = off /\ count = off
      BY <1>1, <3>1
    <3> QED
      BY <1>2, <1>3, <2>2, <3>2 DEF ResumeInv, ExactInv
  <2> QED
    BY <2>3, <2>4, <2>5, <2>6 DEF ResumeInv
<1> QED
  BY <1>4

LEMMA ConnectStep ==
  ASSUME ResumeInv, Connect \/ CheckLength
  PROVE  ResumeInv'
<1>1. UNCHANGED <<str, done, stored, notice, asked, cut>>
  BY DEF Connect, CheckLength
<1>2. ~resp.open
  BY DEF Connect, CheckLength, ResumeInv, CheckedInv
<1>3. CASE Stop
  BY <1>1, <1>2, <1>3, StopStep
<1>4. CASE Open
  BY <1>1, <1>2, <1>4, OpenStep
<1>5. CASE resp' = [NoResponse EXCEPT !.checked = TRUE] /\ UNCHANGED client
  <2>1. resp' \in Response /\ ~resp'.open
    BY <1>5, NoResponseIs
  <2>2. ResumeTypeOK'
    BY <1>1, <1>5, <2>1 DEF ResumeInv, ResumeTypeOK
  <2>3. CountInv' /\ AskedInv' /\ (stored => done)'
    BY <1>1, <1>2, <2>1 DEF ResumeInv, CountInv, AskedInv, Readable
  <2>4. ExactInv'
    BY <1>1, <1>5, <2>1 DEF ResumeInv, ExactInv
  <2> QED
    BY <2>1, <2>2, <2>3, <2>4 DEF ResumeInv, CheckedInv
<1> QED
  BY <1>3, <1>4, <1>5 DEF Connect, CheckLength

LEMMA AskStep ==
  ASSUME ResumeInv, Ask
  PROVE  ResumeInv'
<1>1. /\ resp.open /\ ~stored /\ asked' = Executed
      /\ UNCHANGED <<str, done, stored, resp, notice, client, cut>>
  BY DEF Ask
<1>2. Executed \in Found /\ Len(Executed.data) <= ReadLen /\ Readable(resp.off, Executed.data)
  BY ExecutedIs DEF ResumeInv
<1>3. ResumeTypeOK'
  BY <1>1, <1>2 DEF ResumeInv, ResumeTypeOK
<1>4. CountInv' /\ ExactInv' /\ CheckedInv' /\ (stored => done)'
  BY <1>1 DEF ResumeInv, CountInv, ExactInv, CheckedInv
<1>5. AskedInv'
  BY <1>1, <1>2 DEF AskedInv, Readable
<1> QED
  BY <1>3, <1>4, <1>5 DEF ResumeInv

LEMMA QuietSteps ==
  ASSUME ResumeInv, (\E n \in Notice : Hear(n)) \/ Nothing \/ CloseStream
  PROVE  ResumeInv'
<1>1. /\ UNCHANGED <<str, stored, client, cut>>
      /\ asked' \in {asked, NotAsked} /\ notice' \in Notice \cup {NotTold}
      /\ done' \in {done, TRUE}
      /\ resp' = resp \/ resp' = [resp EXCEPT !.stage = NextStage(<< >>)]
  BY DEF Hear, Nothing, CloseStream, ResumeInv, ResumeTypeOK
<1>6. /\ resp' \in Response /\ resp'.open = resp.open /\ resp'.checked = resp.checked
      /\ resp'.off = resp.off /\ resp'.count = resp.count
  <2>1. resp \in Response
    BY DEF ResumeInv, ResumeTypeOK
  <2> QED
    BY <1>1, <2>1, StageIs DEF Response
<1>2. ResumeTypeOK'
  <2>1. NotAsked.data = << >>
    BY DEF NotAsked
  <2> QED
    <3>1. Len(NotAsked.data) <= ReadLen
      BY <2>1, ResumeAssumption
    <3>2. asked \in Found \cup {NotAsked} /\ Len(asked.data) <= ReadLen
      BY DEF ResumeInv, ResumeTypeOK
    <3>3. asked' \in Found \cup {NotAsked} /\ Len(asked'.data) <= ReadLen
      BY <1>1, <3>1, <3>2
    <3>4. done' \in BOOLEAN
      BY <1>1 DEF ResumeInv, ResumeTypeOK
    <3>5. /\ str' = str /\ stored' = stored /\ client' = client /\ cut' = cut
          /\ notice' \in Notice \cup {NotTold} /\ resp' \in Response
      BY <1>1, <1>6
    <3>6. /\ str \in Seq(Byte) /\ Len(str) <= MaxLen /\ stored \in BOOLEAN /\ cut \in BOOLEAN
          /\ client \in Client
      BY DEF ResumeInv, ResumeTypeOK
    <3> QED
      BY <3>3, <3>4, <3>5, <3>6 DEF ResumeTypeOK
<1>3. CountInv' /\ ExactInv' /\ CheckedInv'
  BY <1>1, <1>6 DEF ResumeInv, CountInv, ExactInv, CheckedInv
<1>4. AskedInv'
  BY <1>1, <1>6 DEF ResumeInv, AskedInv, Readable
<1>5. stored' => done'
  <2>1. (stored => done) /\ stored' = stored /\ (done' = done \/ done' = TRUE)
    BY <1>1 DEF ResumeInv
  <2> QED
    BY <2>1, Zenon
<1> QED
  BY <1>2, <1>3, <1>4, <1>5 DEF ResumeInv

LEMMA ExpireStep ==
  ASSUME ResumeInv, Expire
  PROVE  ResumeInv'
<1>1. /\ done /\ ~resp.open /\ stored' = TRUE
      /\ UNCHANGED <<str, done, resp, notice, asked, client, cut>>
  BY DEF Expire
<1>2. asked = NotAsked
  BY <1>1 DEF ResumeInv, AskedInv
<1> QED
  BY <1>1, <1>2 DEF ResumeInv, ResumeTypeOK, CountInv, AskedInv, ExactInv, CheckedInv

LEMMA PublishStep ==
  ASSUME ResumeInv, NEW b \in Byte, Publish(b)
  PROVE  ResumeInv'
<1>1. /\ ~stored /\ Len(str) < MaxLen /\ str' = Append(str, b) /\ done' = FALSE
      /\ UNCHANGED <<stored, resp, notice, asked, client, cut>>
  BY DEF Publish
<1>2. str \in Seq(Byte) /\ Len(str) \in Nat /\ str' \in Seq(Byte) /\ Len(str') = Len(str) + 1
  BY <1>1 DEF ResumeInv, ResumeTypeOK
<1>3. ResumeTypeOK'
  <2>1. Len(str') <= MaxLen
    BY <1>1, <1>2, ResumeAssumption
  <2>2. done' \in BOOLEAN
    BY <1>1
  <2> QED
    BY <1>1, <1>2, <2>1, <2>2 DEF ResumeInv, ResumeTypeOK
<1>4. CountInv' /\ CheckedInv' /\ (stored => done)'
  BY <1>1 DEF ResumeInv, CountInv, CheckedInv
<1>5. AskedInv'
  <2> SUFFICES ASSUME asked # NotAsked PROVE Readable(resp.off, asked.data)'
    BY <1>1 DEF ResumeInv, AskedInv
  <2>1. PICK off, d : off = resp.off /\ d = asked.data
    OBVIOUS
  <2>2. Readable(off, d) /\ off \in Int
    BY <2>1 DEF ResumeInv, AskedInv, ResumeTypeOK, Response, Offset
  <2>3. ASSUME off >= 0, d # << >>
        PROVE  off + Len(d) <= Len(str') /\ d = SubSeq(str', off + 1, off + Len(d))
    <3>1. /\ off + Len(d) <= Len(str) /\ d = SubSeq(str, off + 1, off + Len(d))
          /\ Len(d) \in Nat
      BY <2>2, <2>3 DEF Readable
    <3>2. off + 1 \in Nat \ {0} /\ off + Len(d) \in Int
      BY <2>2, <2>3, <3>1
    <3>3. SubSeq(str', off + 1, off + Len(d)) = SubSeq(str, off + 1, off + Len(d))
      BY <1>1, <1>2, <3>1, <3>2, RangeKept
    <3>4. off + Len(d) <= Len(str')
      BY <1>2, <3>1, <3>2
    <3>5. d = SubSeq(str', off + 1, off + Len(d))
      BY <3>1, <3>3, Zenon
    <3> QED
      BY <3>4, <3>5
  <2> QED
    BY <1>1, <2>1, <2>2, <2>3 DEF Readable
<1>6. ExactInv'
  <2> SUFFICES ASSUME ~cut, client.start >= 0 PROVE ExactInv'
    BY <1>1 DEF ExactInv
  <2>1. PICK first, upto : first = client.start /\ upto = client.id
    OBVIOUS
  <2>2. first \in Int /\ upto \in Int
    BY <2>1, StartIs DEF ResumeInv, ResumeTypeOK
  <2>3. /\ ~client.torn /\ first >= 0 /\ (upto = first \/ (first < upto /\ upto <= Len(str)))
        /\ client.got = SubSeq(str, first + 1, upto)
        /\ resp.open => resp.off = client.id /\ resp.count = client.id
    BY <2>1 DEF ResumeInv, ExactInv
  <2>4. first + 1 \in Nat \ {0} /\ (upto <= Len(str) \/ upto < first + 1)
    BY <2>2, <2>3
  <2>5. SubSeq(str', first + 1, upto) = SubSeq(str, first + 1, upto)
    BY <1>1, <1>2, <2>2, <2>4, RangeKept
  <2>6. upto = first \/ (first < upto /\ upto <= Len(str'))
    BY <1>2, <2>2, <2>3
  <2> QED
    BY <1>1, <2>1, <2>3, <2>5, <2>6 DEF ExactInv
<1> QED
  BY <1>3, <1>4, <1>5, <1>6 DEF ResumeInv

\* b is no more than k - m, and a no further above it than top is above k.
LEMMA SumBound ==
  ASSUME NEW a \in Int, NEW b \in Int, NEW m \in Int, NEW k \in Int, NEW top \in Int,
         a - b <= top - k, b + m <= k
  PROVE  a + m <= top
OBVIOUS

\* The bytes of an event join what the client has.
LEMMA EventStep ==
  ASSUME ResumeInv, Event
  PROVE  ResumeInv'
<1> DEFINE d == Fetched
           n == Len(d)
           last == IdOf(resp.count, d)
           seen == Dispatched(d, last)
<1>1. /\ Answered /\ d # << >>
      /\ client' = IF EOF THEN [seen EXCEPT !.torn = FALSE] ELSE seen
      /\ cut' = (cut \/ ~Fits(d))
      /\ resp' = IF EOF THEN NoResponse
                 ELSE [resp EXCEPT !.off = @ + n, !.count = @ + n, !.stage = NextStage(d)]
      /\ notice' = NotTold /\ asked' = NotAsked /\ UNCHANGED <<str, done, stored>>
  BY DEF Event
<1>2. /\ ResumeTypeOK /\ CountInv /\ ExactInv /\ resp.open /\ client \in Client
      /\ str \in Seq(Byte) /\ Len(str) \in Nat /\ Len(str) <= MaxLen /\ resp \in Response
      /\ stored \in BOOLEAN
  BY <1>1 DEF ResumeInv, ResumeTypeOK, Answered, AskedInv
<1>3. Readable(resp.off, d)
  BY <1>1, FetchedIs
<1> HIDE DEF d
<1>4. d \in Seq(Byte) /\ n \in Nat /\ n > 0
  BY <1>1, <1>3 DEF Readable
<1>5. PICK off \in Int, count \in Int :
         /\ off = resp.off /\ count = resp.count
         /\ MaxLen - MaxInt <= off /\ off <= MaxInt /\ MaxLen - MaxInt <= count /\ count <= MaxInt
  BY <1>2, ResumeAssumption DEF Response, Offset
<1>6. last = count + n
  BY <1>5 DEF IdOf
<1>7. /\ off < 0 => n <= -off
      /\ off >= 0 => off + n <= Len(str) /\ d = SubSeq(str, off + 1, off + n)
  BY <1>1, <1>3, <1>5 DEF Readable
<1> HIDE DEF n, last
\* What the response would go on with.
<1>8. /\ off + n \in Offset /\ count + n \in Offset
      /\ LET ahead == (count + n) - (off + n)
         IN  \/ ahead = 0 /\ off + n >= 0
             \/ ~stored /\ ahead \in 1..(MaxInt - MaxLen) /\ off + n \in (-ahead)..MaxLen
             \/ stored /\ ahead \in (MaxLen - MaxInt)..(-1) /\ off + n \in 0..MaxLen
  <2> DEFINE ahead == count - off
  <2>1. \/ ahead = 0 /\ off >= 0
        \/ ~stored /\ ahead \in 1..(MaxInt - MaxLen) /\ off \in (-ahead)..MaxLen
        \/ stored /\ ahead \in (MaxLen - MaxInt)..(-1) /\ off \in 0..MaxLen
    BY <1>2, <1>5 DEF CountInv
  <2>2. (count + n) - (off + n) = ahead
    BY <1>4
  <2>3. ReadLen \in Nat /\ MaxLen \in Nat /\ MaxInt \in Nat /\ 2 * MaxLen + ReadLen <= MaxInt
    BY ResumeAssumption
  <2>4. off + n <= MaxLen
    BY <1>2, <1>4, <1>7, <2>3
  <2>5. off + n >= MaxLen - MaxInt /\ off + n <= MaxInt
    BY <1>4, <1>5, <2>3, <2>4
  <2>6. CASE ahead = 0 /\ off >= 0
    <3>1. off + n >= 0 /\ count + n = off + n
      BY <1>4, <2>6
    <3> QED
      BY <1>4, <2>2, <2>5, <2>6, <3>1 DEF Offset
  <2>7. CASE ~stored /\ ahead \in 1..(MaxInt - MaxLen) /\ off \in (-ahead)..MaxLen
    <3>2. off + n \in (-ahead)..MaxLen
      BY <1>4, <2>3, <2>4, <2>7
    <3>3. count + n <= MaxInt
      <4>1. count - off <= MaxInt - MaxLen
        BY <1>5, <2>3, <2>7
      <4> QED
        BY <1>4, <1>5, <2>3, <2>4, <4>1, SumBound
    <3>4. count + n >= MaxLen - MaxInt
      BY <1>4, <1>5, <2>3
    <3> QED
      BY <1>4, <2>2, <2>5, <2>7, <3>2, <3>3, <3>4 DEF Offset
  <2>8. CASE stored /\ ahead \in (MaxLen - MaxInt)..(-1) /\ off \in 0..MaxLen
    <3>1. off + n \in 0..MaxLen
      BY <1>4, <2>3, <2>4, <2>8
    <3>2. count + n <= MaxInt
      <4>1. count - off <= MaxInt - MaxLen
        BY <1>5, <2>3, <2>8
      <4> QED
        BY <1>4, <1>5, <2>3, <2>4, <4>1, SumBound
    <3>3. count + n >= MaxLen - MaxInt
      BY <1>4, <1>5, <2>3
    <3> QED
      BY <1>4, <2>2, <2>5, <2>8, <3>1, <3>2, <3>3 DEF Offset
  <2> QED
    BY <2>1, <2>6, <2>7, <2>8
<1>9. /\ Same(client', client) /\ cut' \in BOOLEAN /\ (~cut' => ~cut /\ Fits(d))
      /\ (Fits(d) /\ ~client.torn) =>
           client'.got = client.got \o d /\ client'.id = count + n /\ ~client'.torn
  <2>1. last \in Offset
    BY <1>6, <1>8
  <2> HIDE DEF seen
  <2>2. /\ Same(seen, client)
        /\ (Fits(d) /\ ~client.torn) =>
             seen.got = client.got \o d /\ seen.id = last /\ ~seen.torn
    BY <1>2, <1>4, <2>1, DispatchedIs DEF seen
  <2>3. FALSE \in BOOLEAN /\ seen \in Client
    BY <2>2 DEF Same
  <2>4. /\ Same([seen EXCEPT !.torn = FALSE], seen)
        /\ [seen EXCEPT !.torn = FALSE].torn = FALSE
        /\ [seen EXCEPT !.torn = FALSE].id = seen.id /\ [seen EXCEPT !.torn = FALSE].got = seen.got
    BY <2>3, TornIs
  <2>5. /\ Same(client', client)
        /\ (Fits(d) /\ ~client.torn) =>
             client'.got = client.got \o d /\ client'.id = count + n /\ ~client'.torn
    <3>1. CASE EOF
      BY <1>1, <1>6, <2>2, <2>4, <3>1 DEF Same
    <3>2. CASE ~EOF
      BY <1>1, <1>6, <2>2, <3>2
    <3> QED
      BY <3>1, <3>2
  <2> QED
    BY <1>1, <2>5
<1>10. /\ resp' \in Response /\ CheckedInv'
       /\ resp'.open => resp'.off = off + n /\ resp'.count = count + n
  <2>1. CASE EOF
    BY <1>1, <2>1, NoResponseIs DEF CheckedInv
  <2>2. CASE ~EOF
    <3> DEFINE stage == NextStage(d)
    <3>1. resp' = [resp EXCEPT !.off = off + n, !.count = count + n, !.stage = stage]
      BY <1>1, <1>5, <2>2
    <3>2. stage \in {"replay", "within", "live"}
      BY <1>2, StageIs DEF Response
    <3> HIDE DEF stage
    <3> QED
      BY <1>2, <1>8, <3>1, <3>2 DEF Response, ResumeInv, CheckedInv
  <2> QED
    BY <2>1, <2>2
<1>11. ResumeTypeOK'
  <2>1. Len(NotAsked.data) <= ReadLen
    BY ResumeAssumption DEF NotAsked
  <2>2. client' \in Client
    BY <1>9 DEF Same
  <2> QED
    BY <1>1, <1>2, <1>9, <1>10, <2>1, <2>2 DEF ResumeTypeOK
<1>12. CountInv'
  BY <1>1, <1>8, <1>10 DEF CountInv
<1>13. AskedInv'
  BY <1>1 DEF AskedInv
<1>14. ExactInv'
  <2> SUFFICES ASSUME ~cut', client'.start >= 0 PROVE ExactInv'
    BY DEF ExactInv
  <2>1. PICK first, upto : first = client.start /\ upto = client.id
    OBVIOUS
  <2>2. first \in Int /\ upto \in Int
    BY <1>2, <2>1, StartIs
  <2>3. /\ ~cut /\ client'.start = first /\ first >= 0
    BY <1>9, <2>1 DEF Same
  <2>4. /\ ~client.torn /\ (upto = first \/ (first < upto /\ upto <= Len(str)))
        /\ client.got = SubSeq(str, first + 1, upto)
        /\ off = upto /\ count = upto
    BY <1>2, <1>5, <2>1, <2>3 DEF ExactInv
  <2>5. client'.got = client.got \o d /\ client'.id = upto + n /\ ~client'.torn
    BY <1>9, <2>4
  <2>6. /\ first \in Nat /\ upto \in Nat /\ first <= upto /\ upto + n <= Len(str)
        /\ d = SubSeq(str, upto + 1, upto + n)
    BY <1>7, <2>2, <2>3, <2>4
  <2>7. client'.got = SubSeq(str, first + 1, upto + n)
    <3>1. SubSeq(str, first + 1, upto) \o SubSeq(str, upto + 1, upto + n) = SubSeq(str, first + 1, upto + n)
      BY <1>2, <1>4, <2>6, RangesJoin
    <3> QED
      BY <2>4, <2>5, <2>6, <3>1, Zenon
  <2>8. first < upto + n
    BY <1>4, <2>6
  <2>9. resp'.open => resp'.off = upto + n /\ resp'.count = upto + n
    BY <1>10, <2>4
  <2> QED
    BY <1>1, <2>3, <2>5, <2>6, <2>7, <2>8, <2>9 DEF ExactInv
<1>15. stored' => done'
  BY <1>1 DEF ResumeInv
<1> QED
  BY <1>10, <1>11, <1>12, <1>13, <1>14, <1>15 DEF ResumeInv

\* An event does not stop the client.
LEMMA EventGoesOn ==
  ASSUME client \in Client, Event
  PROVE  client'.stopped = client.stopped
<1>1. PICK msg, last :
        client' = IF EOF THEN [Dispatched(msg, last) EXCEPT !.torn = FALSE] ELSE Dispatched(msg, last)
  BY DEF Event
<1>2. DOMAIN client = {"stopped", "id", "got", "torn", "nextId", "start"}
  BY DEF Client
<1>3. /\ Dispatched(msg, last).stopped = client.stopped
      /\ DOMAIN Dispatched(msg, last) = DOMAIN client
  BY <1>2 DEF Dispatched
<1>4. [Dispatched(msg, last) EXCEPT !.torn = FALSE].stopped = Dispatched(msg, last).stopped
  BY <1>2, <1>3
<1> QED
  BY <1>1, <1>3, <1>4

-----------------------------------------------------------------------------
(* The specification.                                                      *)

LEMMA InitInv == ResumeInit => ResumeInv
<1> SUFFICES ASSUME ResumeInit PROVE ResumeInv
  OBVIOUS
<1>1. /\ str = << >> /\ done = FALSE /\ stored = FALSE /\ resp = NoResponse
      /\ notice = NotTold /\ asked = NotAsked /\ cut = FALSE
  BY DEF ResumeInit
<1>2. PICK off \in FirstOffset :
         client = [stopped |-> FALSE, id |-> off, got |-> << >>,
                   torn |-> FALSE, nextId |-> off, start |-> off]
  BY DEF ResumeInit
<1>3. off \in (MaxLen - MaxInt)..MaxInt /\ off \in Offset
  BY ResumeAssumption DEF Offset
<1>4. client \in Client
  BY <1>2, <1>3 DEF Client
<1>5. ResumeTypeOK
  <2>1. << >> \in Seq(Byte) /\ Len(<< >>) <= MaxLen /\ Len(NotAsked.data) <= ReadLen
    BY ResumeAssumption DEF NotAsked
  <2> QED
    BY <1>1, <1>4, <2>1, NoResponseIs DEF ResumeTypeOK
<1>6. CountInv /\ AskedInv /\ CheckedInv
  BY <1>1, NoResponseIs DEF CountInv, AskedInv, CheckedInv
<1>7. ExactInv
  <2>1. SubSeq(<< >>, off + 1, off) = << >>
    BY <1>3, ResumeAssumption, SubSeqEmpty
  <2> QED
    BY <1>1, <1>2, <2>1, NoResponseIs DEF ExactInv
<1> QED
  BY <1>1, <1>5, <1>6, <1>7 DEF ResumeInv

LEMMA NextInv ==
  ASSUME ResumeInv, [ResumeNext]_vars
  PROVE  ResumeInv'
<1>1. CASE UNCHANGED vars
  BY <1>1 DEF vars, ResumeInv, ResumeTypeOK, CountInv, AskedInv, Readable, ExactInv,
             CheckedInv
<1>2. CASE Drop \/ End
  BY <1>2, Ends DEF Drop, End
<1>3. CASE (\E n \in Notice : Hear(n)) \/ Nothing \/ CloseStream
  BY <1>3, QuietSteps
<1>4. CASE \E b \in Byte : Publish(b)
  BY <1>4, PublishStep
<1> QED
  BY <1>1, <1>2, <1>3, <1>4, ConnectStep, AskStep, EventStep, ExpireStep DEF ResumeNext

\* ResumeInv is an inductive invariant.
LEMMA ResumeInvCorrect == ResumeSpec => []ResumeInv
<1>1. ResumeInv /\ [ResumeNext]_vars => ResumeInv'
  BY NextInv
<1> QED
  BY InitInv, <1>1, PTL DEF ResumeSpec

\* Whatever a client asks for first, negative offsets and the largest int
\* included, the offsets of the reader and of the encoder (encoder.Seek, Read)
\* stay within int64, and a fetch finds no more than the buffer it was given.
THEOREM ResumeTypeCorrect == ResumeSpec => []ResumeTypeOK
<1>1. ResumeInv => ResumeTypeOK
  BY DEF ResumeInv
<1> QED
  BY ResumeInvCorrect, <1>1, PTL

\* A client that asks again from the last id of the encoder, over any number of
\* connections that broke anywhere, from Redis or from the store, has exactly
\* the stream's bytes between its first offset and that id.
THEOREM ResumesExactlyCorrect == ResumeSpec => []ResumesExactly
<1>1. ResumeInv => ResumesExactly
  BY DEF ResumeInv, ExactInv, ResumesExactly
<1> QED
  BY ResumeInvCorrect, <1>1, PTL

\* newReader and newStorageReader answer 204 or 416 only to a client that has,
\* as the data of its events, all that is stored from its first offset on,
\* although publishers go on between NoContent's two requests.
THEOREM StopsCompleteCorrect == ResumeSpec => StopsComplete
<1> DEFINE Stops == (client'.stopped /\ ~client.stopped /\ ~cut /\ client.start >= 0)
                      => client.got = SubSeq(str, client.start + 1, Len(str))
<1>1. ASSUME ResumeInv, ResumeNext PROVE Stops
  <2> SUFFICES ASSUME client'.stopped, ~client.stopped, ~cut, client.start >= 0
               PROVE  client.got = SubSeq(str, client.start + 1, Len(str))
    OBVIOUS
  <2>1. ResumeTypeOK /\ client \in Client
    BY <1>1 DEF ResumeInv, ResumeTypeOK
  <2>2. ~UNCHANGED client
    OBVIOUS
  <2>3. CASE Connect \/ CheckLength
    <3>1. client.id > Len(str) - 1 \/ client.id >= Len(str)
      BY <2>2, <2>3 DEF Connect, CheckLength, NoContent, NothingLeft, Open
    <3> DEFINE first == client.start
               upto == client.id
               len == Len(str)
    <3>2. first \in Int /\ upto \in Int /\ len \in Nat /\ upto >= len /\ first >= 0
      BY <2>1, <3>1, StartIs DEF ResumeTypeOK
    <3>3. /\ client.got = SubSeq(str, first + 1, upto)
          /\ upto = first \/ (first < upto /\ upto <= len)
      BY <1>1 DEF ResumeInv, ExactInv
    <3> HIDE DEF first, upto, len
    <3>4. CASE upto = len
      BY <3>3, <3>4 DEF first, len
    <3>5. CASE upto = first /\ first > len
      <4>1. SubSeq(str, first + 1, upto) = << >> /\ SubSeq(str, first + 1, len) = << >>
        BY <3>2, <3>5, SubSeqEmpty
      <4>2. client.got = SubSeq(str, first + 1, len)
        BY <3>3, <4>1
      <4> QED
        BY <4>2 DEF first, len
    <3>6. upto = first \/ (first < upto /\ upto <= len)
      BY <3>3
    <3>7. upto = len \/ (upto = first /\ first > len)
      BY <3>2, <3>6
    <3> QED
      BY <3>4, <3>5, <3>7, Zenon
  <2>4. CASE Drop \/ End
    <3>1. client' = Idle
      BY <2>4 DEF Drop, End
    <3> QED
      BY <2>1, <3>1, IdleIs DEF Same
  <2>5. CASE Event
    BY <2>1, <2>5, EventGoesOn
  <2> QED
    BY <1>1, <2>2, <2>3, <2>4, <2>5 DEF ResumeNext, Hear, Ask, Nothing, Publish, CloseStream, Expire
<1>2. ASSUME ResumeInv, [ResumeNext]_vars PROVE [Stops]_vars
  BY <1>1, <1>2
<1> QED
  BY ResumeInvCorrect, <1>2, PTL DEF ResumeSpec, StopsComplete

-----------------------------------------------------------------------------
(* Functions defined by recursion over numbers.                            *)

\* A set of numbers has a least element.
LEMMA Least ==
  ASSUME NEW S, S \subseteq Nat, S # {}
  PROVE  \E m \in S : \A k \in S : m <= k
<1>1. PICK m \in S : \A k \in S : <<k, m>> \notin OpToRel(<, Nat)
  BY WFMin, NatLessThanWellFounded, Zenon
<1>2. ASSUME NEW k \in S, k < m
      PROVE  FALSE
  <2>1. <<k, m>> \in Nat \X Nat /\ <<k, m>>[1] < <<k, m>>[2]
    BY <1>2
  <2>2. <<k, m>> \in OpToRel(<, Nat)
    BY <2>1, Zenon DEF OpToRel
  <2> QED
    BY <1>1, <1>2, <2>2
<1> QED
  BY <1>2

\* Induction, for a set of numbers.
LEMMA AllNumbers ==
  ASSUME NEW S, S \subseteq Nat, 0 \in S, \A n \in S : n + 1 \in S
  PROVE  S = Nat
<1>1. SUFFICES ASSUME Nat \ S # {} PROVE FALSE
  OBVIOUS
<1>2. PICK m \in Nat \ S : \A k \in Nat \ S : m <= k
  BY <1>1, Least
<1>3. m # 0 /\ m - 1 \in Nat /\ (m - 1) + 1 = m
  BY <1>2
<1>4. m - 1 \in S
  BY <1>2, <1>3
<1> QED
  BY <1>2, <1>3, <1>4

\* Step i makes f[i] of f[i - 1].
Steps(f, base, step, n) == f = [i \in 0..n |-> IF i = 0 THEN base ELSE step[i][f[i - 1]]]

\* What such a function is, place by place.
LEMMA StepsAre ==
  ASSUME NEW f, NEW base, NEW step, NEW n \in Nat
  PROVE  Steps(f, base, step, n) <=>
           /\ f = [i \in 0..n |-> f[i]]
           /\ f[0] = base /\ \A i \in 1..n : f[i] = step[i][f[i - 1]]
<1> DEFINE F(i) == IF i = 0 THEN base ELSE step[i][f[i - 1]]
<1>1. 0 \in 0..n /\ \A i \in 0..n : i = 0 \/ (i \in 1..n /\ i # 0)
  OBVIOUS
<1>2. \A i \in 1..n : i \in 0..n /\ i # 0
  OBVIOUS
<1>3. ASSUME Steps(f, base, step, n)
      PROVE  f = [i \in 0..n |-> f[i]] /\ \A i \in 0..n : f[i] = F(i)
  BY <1>3 DEF Steps
<1>4. ASSUME f = [i \in 0..n |-> f[i]], f[0] = base, \A i \in 1..n : f[i] = step[i][f[i - 1]]
      PROVE  Steps(f, base, step, n)
  <2>1. \A i \in 0..n : f[i] = F(i)
    BY <1>1, <1>4
  <2>2. f = [i \in 0..n |-> F(i)]
    BY <1>4, <2>1
  <2> QED
    BY <2>2 DEF Steps
<1> QED
  BY <1>1, <1>2, <1>3, <1>4

\* There is one.
LEMMA StepsExist ==
  ASSUME NEW base, NEW step, NEW n \in Nat
  PROVE  \E f : Steps(f, base, step, n)
<1> DEFINE S == {k \in Nat : \E f : Steps(f, base, step, k)}
<1>1. 0 \in S
  <2> DEFINE f == [i \in 0..0 |-> base]
  <2>1. f = [i \in 0..0 |-> f[i]] /\ f[0] = base /\ 0 \in Nat /\ 1..0 = {}
    OBVIOUS
  <2> HIDE DEF f
  <2>2. Steps(f, base, step, 0)
    BY <2>1, StepsAre
  <2> QED
    BY <2>2
<1>2. ASSUME NEW k \in S
      PROVE  k + 1 \in S
  <2>1. PICK f : Steps(f, base, step, k)
    OBVIOUS
  <2>2. k \in Nat /\ f[0] = base /\ \A i \in 1..k : f[i] = step[i][f[i - 1]]
    BY <2>1, StepsAre
  <2>3. PICK g : g = [i \in 0..(k + 1) |-> IF i = k + 1 THEN step[k + 1][f[k]] ELSE f[i]]
    OBVIOUS
  <2>4. /\ g = [i \in 0..(k + 1) |-> g[i]]
        /\ g[k + 1] = step[k + 1][f[k]] /\ \A i \in 0..k : g[i] = f[i]
    BY <2>2, <2>3
  <2>5. g[0] = base
    <3>1. 0 \in 0..k
      BY <2>2
    <3> QED
      BY <2>2, <2>4, <3>1
  <2>6. \A i \in 1..(k + 1) : g[i] = step[i][g[i - 1]]
    <3> SUFFICES ASSUME NEW i \in 1..(k + 1) PROVE g[i] = step[i][g[i - 1]]
      OBVIOUS
    <3>1. CASE i \in 1..k
      <4>1. i \in 0..k /\ i - 1 \in 0..k
        BY <2>2, <3>1
      <4> QED
        BY <2>2, <2>4, <3>1, <4>1
    <3>2. CASE i = k + 1
      <4>1. i - 1 = k /\ k \in 0..k
        BY <2>2, <3>2
      <4> QED
        BY <2>4, <3>2, <4>1
    <3> QED
      BY <2>2, <3>1, <3>2
  <2>7. Steps(g, base, step, k + 1)
    <3>1. PICK m \in Nat : m = k + 1
      BY <2>2
    <3>2. g = [i \in 0..m |-> g[i]] /\ \A i \in 1..m : g[i] = step[i][g[i - 1]]
      BY <2>4, <2>6, <3>1, Zenon
    <3>3. \A i \in 0..m : g[i] = IF i = 0 THEN base ELSE step[i][g[i - 1]]
      <4> SUFFICES ASSUME NEW i \in 0..m, i # 0 PROVE g[i] = step[i][g[i - 1]]
        BY <2>5
      <4>1. i \in 1..m
        OBVIOUS
      <4> QED
        BY <3>2, <4>1
    <3>4. Steps(g, base, step, m)
      BY <3>2, <3>3 DEF Steps
    <3> QED
      BY <3>1, <3>4
  <2> QED
    BY <2>2, <2>7
<1>3. S = Nat
  <2> HIDE DEF S
  <2>1. S \subseteq Nat
    BY DEF S
  <2> QED
    BY <1>1, <1>2, <2>1, AllNumbers
<1> QED
  BY <1>3

\* There is only one.
LEMMA StepsAgree ==
  ASSUME NEW f, NEW g, NEW step, NEW n \in Nat, f[0] = g[0],
         \A i \in 1..n : f[i] = step[i][f[i - 1]], \A i \in 1..n : g[i] = step[i][g[i - 1]]
  PROVE  f[n] = g[n]
<1> DEFINE S == {k \in Nat : k <= n => f[k] = g[k]}
<1>1. 0 \in S
  OBVIOUS
<1>2. ASSUME NEW k \in S
      PROVE  k + 1 \in S
  <2> SUFFICES ASSUME k + 1 <= n PROVE f[k + 1] = g[k + 1]
    OBVIOUS
  <2>1. k \in Nat /\ k <= n /\ k + 1 \in 1..n /\ (k + 1) - 1 = k
    OBVIOUS
  <2>2. f[k] = g[k]
    BY <2>1
  <2> QED
    BY <2>1, <2>2
<1>3. S = Nat
  <2> HIDE DEF S
  <2>1. S \subseteq Nat
    BY DEF S
  <2> QED
    BY <1>1, <1>2, <2>1, AllNumbers
<1> QED
  BY <1>3

\* What the steps keep.
LEMMA StepsKeep ==
  ASSUME NEW f, NEW step, NEW n \in Nat, NEW T, f[0] \in T,
         \A i \in 1..n : f[i] = step[i][f[i - 1]],
         \A i \in 1..n : \A x \in T : step[i][x] \in T
  PROVE  \A i \in 0..n : f[i] \in T
<1> DEFINE S == {k \in Nat : k <= n => f[k] \in T}
<1>1. 0 \in S
  OBVIOUS
<1>2. ASSUME NEW k \in S
      PROVE  k + 1 \in S
  <2> SUFFICES ASSUME k + 1 <= n PROVE f[k + 1] \in T
    OBVIOUS
  <2>1. k \in Nat /\ k <= n /\ k + 1 \in 1..n /\ (k + 1) - 1 = k
    OBVIOUS
  <2>2. f[k] \in T
    BY <2>1
  <2> QED
    BY <2>1, <2>2
<1>3. S = Nat
  <2> HIDE DEF S
  <2>1. S \subseteq Nat
    BY DEF S
  <2> QED
    BY <1>1, <1>2, <2>1, AllNumbers
<1> QED
  BY <1>3

-----------------------------------------------------------------------------
(* Numbers and their digits.                                               *)

\* Number, as the function it is defined by.
LEMMA NumberValue ==
  ASSUME NEW p
  PROVE  Number(p) = (CHOOSE f : f = [i \in 0..Len(p) |->
                        IF i = 0 THEN 0 ELSE 10 * f[i - 1] + (p[i] - Zero)])[Len(p)]
  BY Zenon DEF Number

\* The loop of parseInt, and of parseLen.
LEMMA NumberIs ==
  ASSUME NEW p \in Seq(Nat)
  PROVE  \E f : /\ f[0] = 0 /\ \A i \in 1..Len(p) : f[i] = 10 * f[i - 1] + (p[i] - Zero)
                /\ \A i \in 0..Len(p) : f[i] \in Int
                /\ Number(p) = f[Len(p)]
<1> DEFINE n == Len(p)
           step == [i \in Nat |-> [v \in Int |-> 10 * v + (p[i] - Zero)]]
           Value(f) == f = [i \in 0..Len(p) |-> IF i = 0 THEN 0 ELSE 10 * f[i - 1] + (p[i] - Zero)]
           value == CHOOSE f : Value(f)
<1>1. n \in Nat /\ \A i \in 1..n : p[i] \in Int /\ i \in Nat
  OBVIOUS
<1>2. \A i \in 1..n : \A v \in Int : step[i][v] = 10 * v + (p[i] - Zero) /\ step[i][v] \in Int
  <2> SUFFICES ASSUME NEW i \in 1..n, NEW v \in Int
               PROVE  step[i][v] = 10 * v + (p[i] - Zero) /\ step[i][v] \in Int
    OBVIOUS
  <2>1. step[i] = [u \in Int |-> 10 * u + (p[i] - Zero)]
    BY <1>1
  <2>2. step[i][v] = 10 * v + (p[i] - Zero)
    BY <2>1
  <2>3. p[i] \in Int
    BY <1>1
  <2>4. 10 * v + (p[i] - Zero) \in Int
    BY <2>3 DEF Zero
  <2> QED
    BY <2>2, <2>4, Zenon
<1>3. Number(p) = value[n]
  BY NumberValue
<1> HIDE DEF step, n, value
<1>4. PICK g : Steps(g, 0, step, n)
  BY <1>1, StepsExist
<1>5. /\ g = [i \in 0..n |-> g[i]]
      /\ g[0] = 0 /\ \A i \in 1..n : g[i] = step[i][g[i - 1]]
  BY <1>1, <1>4, StepsAre
<1>6. \A i \in 0..n : g[i] \in Int
  <2>1. g[0] \in Int /\ \A i \in 1..n : \A v \in Int : step[i][v] \in Int
    BY <1>2, <1>5
  <2> QED
    BY <1>1, <1>5, <2>1, StepsKeep
<1>7. \A i \in 0..n : g[i] = IF i = 0 THEN 0 ELSE 10 * g[i - 1] + (p[i] - Zero)
  <2> SUFFICES ASSUME NEW i \in 0..n, i # 0 PROVE g[i] = 10 * g[i - 1] + (p[i] - Zero)
    BY <1>5
  <2>1. i \in 1..n /\ i - 1 \in 0..n
    BY <1>1
  <2>2. g[i - 1] \in Int
    BY <1>6, <2>1
  <2> QED
    BY <1>2, <1>5, <2>1, <2>2
<1>8. Value(g)
  <2> DEFINE F(i) == IF i = 0 THEN 0 ELSE 10 * g[i - 1] + (p[i] - Zero)
  <2>1. \A i \in 0..n : g[i] = F(i)
    BY <1>7
  <2> HIDE DEF F
  <2>2. g = [i \in 0..n |-> F(i)]
    BY <1>5, <2>1
  <2> QED
    BY <2>2 DEF F, n
<1>9. \A i \in 0..n : value[i] = IF i = 0 THEN 0 ELSE 10 * value[i - 1] + (p[i] - Zero)
  <2>1. Value(value)
    BY <1>8 DEF value
  <2> QED
    BY <2>1 DEF n
<1> DEFINE S == {k \in Nat : k <= n => value[k] \in Int}
<1>10. 0 \in S
  BY <1>1, <1>9
<1>11. ASSUME NEW k \in S
       PROVE  k + 1 \in S
  <2> SUFFICES ASSUME k + 1 <= n PROVE value[k + 1] \in Int
    OBVIOUS
  <2>1. k \in Nat /\ k <= n /\ k + 1 \in 0..n /\ (k + 1) - 1 = k /\ k + 1 # 0 /\ k + 1 \in 1..n
    BY <1>1
  <2>2. value[k] \in Int /\ p[k + 1] \in Int
    BY <1>1, <2>1
  <2>3. value[k + 1] = 10 * value[k] + (p[k + 1] - Zero)
    BY <1>9, <2>1
  <2> QED
    BY <2>2, <2>3 DEF Zero
<1>12. S = Nat
  <2> HIDE DEF S
  <2>1. S \subseteq Nat
    BY DEF S
  <2> QED
    BY <1>10, <1>11, <2>1, AllNumbers
<1>13. /\ value[0] = 0 /\ \A i \in 1..n : value[i] = 10 * value[i - 1] + (p[i] - Zero)
       /\ \A i \in 0..n : value[i] \in Int
  <2>1. 0 \in 0..n /\ \A i \in 1..n : i \in 0..n /\ i # 0
    BY <1>1
  <2>2. \A i \in 0..n : i \in Nat /\ i <= n
    BY <1>1
  <2>3. \A i \in 0..n : value[i] \in Int
    BY <1>12, <2>2
  <2> QED
    BY <1>9, <2>1, <2>3
<1> QED
  BY <1>3, <1>13 DEF n

\* One more digit.
LEMMA NumberAppend ==
  ASSUME NEW p \in Seq(Nat), NEW b \in Nat
  PROVE  Number(Append(p, b)) = 10 * Number(p) + (b - Zero) /\ Number(p) \in Int
<1> DEFINE q == Append(p, b)
           n == Len(p)
<1>1. n \in Nat /\ q \in Seq(Nat) /\ Len(q) = n + 1 /\ q[n + 1] = b /\ \A i \in 1..n : q[i] = p[i]
  OBVIOUS
<1>2. PICK f : /\ f[0] = 0 /\ \A i \in 1..n : f[i] = 10 * f[i - 1] + (p[i] - Zero)
               /\ \A i \in 0..n : f[i] \in Int
               /\ Number(p) = f[n]
  BY NumberIs
<1> HIDE DEF q
<1>3. PICK g : /\ g[0] = 0 /\ \A i \in 1..(n + 1) : g[i] = 10 * g[i - 1] + (q[i] - Zero)
               /\ Number(q) = g[n + 1]
  <2>1. PICK g : /\ g[0] = 0 /\ \A i \in 1..Len(q) : g[i] = 10 * g[i - 1] + (q[i] - Zero)
                 /\ Number(q) = g[Len(q)]
    BY <1>1, NumberIs
  <2> QED
    BY <1>1, <2>1
<1> HIDE DEF n
<1> DEFINE S == {k \in Nat : k <= n => g[k] = f[k]}
<1>4. 0 \in S
  BY <1>2, <1>3
<1>5. ASSUME NEW k \in S
      PROVE  k + 1 \in S
  <2> SUFFICES ASSUME k + 1 <= n PROVE g[k + 1] = f[k + 1]
    OBVIOUS
  <2>1. k \in Nat /\ k <= n /\ k + 1 \in 1..n /\ k + 1 \in 1..(n + 1) /\ (k + 1) - 1 = k
    BY <1>1
  <2>2. g[k] = f[k] /\ q[k + 1] = p[k + 1]
    BY <1>1, <2>1
  <2>3. /\ g[k + 1] = 10 * g[k] + (q[k + 1] - Zero)
        /\ f[k + 1] = 10 * f[k] + (p[k + 1] - Zero)
    BY <1>2, <1>3, <2>1
  <2> QED
    BY <2>2, <2>3
<1>6. S = Nat
  <2> HIDE DEF S
  <2>1. S \subseteq Nat
    BY DEF S
  <2> QED
    BY <1>4, <1>5, <2>1, AllNumbers
<1>7. g[n] = f[n] /\ f[n] \in Int
  <2>1. n \in S /\ n <= n /\ n \in 0..n
    BY <1>1, <1>6
  <2> QED
    BY <1>2, <2>1
<1>8. n + 1 \in 1..(n + 1) /\ (n + 1) - 1 = n
  BY <1>1
<1>9. g[n + 1] = 10 * g[n] + (b - Zero)
  BY <1>1, <1>3, <1>8
<1> QED
  BY <1>2, <1>3, <1>7, <1>9 DEF q

\* One digit.
LEMMA NumberOfOne ==
  ASSUME NEW b \in Nat
  PROVE  Number(<<b>>) = b - Zero
<1>1. << >> \in Seq(Nat) /\ Len(<< >>) = 0 /\ Append(<< >>, b) = <<b>>
  OBVIOUS
<1>2. Number(<< >>) = 0
  BY <1>1, NumberIs
<1>3. Number(Append(<< >>, b)) = 10 * Number(<< >>) + (b - Zero)
  BY <1>1, NumberAppend
<1> QED
  BY <1>1, <1>2, <1>3 DEF Zero

\* What Digits says of a number, said of another function.
Numeral(f, n) ==
  f[n] = IF n < 10 THEN <<Zero + n>> ELSE Append(f[n \div 10], Zero + (n % 10))

\* Division by ten.
LEMMA TenthIs ==
  ASSUME NEW n \in Nat, n >= 10
  PROVE  /\ n \div 10 \in Nat /\ n \div 10 < n
         /\ n % 10 \in 0..9 /\ 10 * (n \div 10) + (n % 10) = n
  OBVIOUS

\* Two such functions agree as far as both go.
LEMMA NumeralsAgree ==
  ASSUME NEW f, NEW g, NEW n \in Nat,
         \A i \in 0..n : Numeral(f, i), \A i \in 0..n : Numeral(g, i)
  PROVE  f[n] = g[n]
<1> DEFINE S == {i \in 0..n : f[i] # g[i]}
<1>1. SUFFICES ASSUME S # {} PROVE FALSE
  <2>1. n \in 0..n
    OBVIOUS
  <2> QED
    BY <1>1, <2>1
<1>2. PICK m \in S : \A k \in S : m <= k
  <2>1. S \subseteq Nat
    OBVIOUS
  <2> HIDE DEF S
  <2> QED
    BY <1>1, <2>1, Least
<1>3. m \in 0..n /\ m \in Nat /\ Numeral(f, m) /\ Numeral(g, m) /\ f[m] # g[m]
  BY <1>2
<1>4. CASE m < 10
  BY <1>3, <1>4 DEF Numeral
<1>5. CASE m >= 10
  <2>1. m \div 10 \in 0..n /\ m \div 10 < m
    BY <1>3, <1>5, TenthIs
  <2>2. f[m \div 10] = g[m \div 10]
    BY <1>2, <1>3, <2>1
  <2>3. ~(m < 10)
    BY <1>3, <1>5
  <2> QED
    BY <1>3, <2>2, <2>3 DEF Numeral
<1> QED
  BY <1>3, <1>4, <1>5

\* There is one that goes as far as one likes.
LEMMA NumeralsExist ==
  ASSUME NEW n \in Nat
  PROVE  \E f : \A i \in 0..n : Numeral(f, i)
<1> DEFINE S == {k \in Nat : \E f : \A i \in 0..k : Numeral(f, i)}
<1>1. 0 \in S
  <2>1. PICK f : f = [i \in {0} |-> <<Zero + i>>]
    OBVIOUS
  <2>2. f[0] = <<Zero + 0>> /\ 0 < 10 /\ 0..0 = {0}
    BY <2>1
  <2>3. \A i \in 0..0 : Numeral(f, i)
    BY <2>2 DEF Numeral
  <2> QED
    BY <2>3
<1>2. ASSUME NEW k \in S
      PROVE  k + 1 \in S
  <2>1. k \in Nat /\ k + 1 \in Nat
    OBVIOUS
  <2>2. PICK f : \A i \in 0..k : Numeral(f, i)
    OBVIOUS
  <2>3. PICK last : last = IF k + 1 < 10 THEN <<Zero + (k + 1)>>
                           ELSE Append(f[(k + 1) \div 10], Zero + ((k + 1) % 10))
    OBVIOUS
  <2>4. PICK g : g = [i \in 0..(k + 1) |-> IF i = k + 1 THEN last ELSE f[i]]
    OBVIOUS
  <2>5. g[k + 1] = last /\ \A i \in 0..k : g[i] = f[i]
    BY <2>1, <2>4
  <2>6. ASSUME NEW i \in 0..(k + 1)
        PROVE  Numeral(g, i)
    <3>1. i \in Nat /\ (i >= 10 => i \div 10 \in 0..k)
      <4>1. CASE i >= 10
        <5>1. i \div 10 \in Nat /\ i \div 10 < i
          BY <4>1, TenthIs
        <5> QED
          BY <2>1, <5>1
      <4> QED
        BY <2>1, <4>1
    <3>2. i >= 10 => g[i \div 10] = f[i \div 10]
      BY <2>5, <3>1
    <3>3. CASE i = k + 1
      <4>1. g[i] = IF i < 10 THEN <<Zero + i>> ELSE Append(f[i \div 10], Zero + (i % 10))
        BY <2>3, <2>5, <3>3
      <4> QED
        BY <3>1, <3>2, <4>1 DEF Numeral
    <3>4. CASE i \in 0..k
      <4>1. g[i] = f[i] /\ Numeral(f, i)
        BY <2>2, <2>5, <3>4
      <4> QED
        BY <3>1, <3>2, <4>1 DEF Numeral
    <3> QED
      BY <2>1, <3>3, <3>4
  <2> QED
    BY <2>1, <2>6
<1>3. S = Nat
  <2> HIDE DEF S
  <2>1. S \subseteq Nat
    BY DEF S
  <2> QED
    BY <1>1, <1>2, <2>1, AllNumbers
<1> QED
  BY <1>3

\* Digits is such a function.
LEMMA DigitsIs ==
  \A n \in Nat : Numeral(Digits, n)
<1> DEFINE Upto(n) == CHOOSE f : \A i \in 0..n : Numeral(f, i)
           all == [n \in Nat |-> Upto(n)[n]]
           Whole(f) == f = [n \in Nat |-> IF n < 10 THEN <<Zero + n>>
                                          ELSE Append(f[n \div 10], Zero + (n % 10))]
<1>1. ASSUME NEW n \in Nat
      PROVE  \A i \in 0..n : Numeral(Upto(n), i) /\ all[i] = Upto(n)[i]
  <2> HIDE DEF all
  <2>1. ASSUME NEW m \in Nat PROVE \A i \in 0..m : Numeral(Upto(m), i)
    BY NumeralsExist
  <2> SUFFICES ASSUME NEW i \in 0..n PROVE all[i] = Upto(n)[i]
    BY <2>1
  <2>2. i \in Nat /\ \A j \in 0..i : j \in 0..n
    OBVIOUS
  <2>3. all[i] = Upto(i)[i]
    BY <2>2 DEF all
  <2>4. (\A j \in 0..i : Numeral(Upto(i), j)) /\ (\A j \in 0..i : Numeral(Upto(n), j))
    BY <2>1, <2>2
  <2> HIDE DEF Upto
  <2> QED
    BY <2>2, <2>3, <2>4, NumeralsAgree
<1>2. ASSUME NEW n \in Nat
      PROVE  Numeral(all, n)
  <2>1. PICK f : \A i \in 0..n : Numeral(f, i) /\ all[i] = f[i]
    BY <1>1
  <2> HIDE DEF all
  <2>2. n \in 0..n /\ (n >= 10 => n \div 10 \in 0..n)
    BY TenthIs
  <2>3. Numeral(f, n) /\ all[n] = f[n] /\ (n >= 10 => all[n \div 10] = f[n \div 10])
    BY <2>1, <2>2
  <2> QED
    BY <2>3 DEF Numeral
<1>3. Whole(all)
  <2>1. all = [n \in Nat |-> all[n]]
    OBVIOUS
  <2> HIDE DEF all
  <2>2. \A n \in Nat : all[n] = IF n < 10 THEN <<Zero + n>>
                                ELSE Append(all[n \div 10], Zero + (n % 10))
    BY <1>2 DEF Numeral
  <2> QED
    BY <2>1, <2>2, Zenon
<1>4. Digits = CHOOSE f : Whole(f)
  BY Zenon DEF Digits
<1>5. Whole(Digits)
  <2> HIDE DEF all, Whole
  <2> QED
    BY <1>3, <1>4, Zenon
<1> QED
  BY <1>5 DEF Numeral

\* Redis' digits are digits, and parseInt reads the number they stand for.
LEMMA DigitsRead ==
  ASSUME NEW n \in Nat
  PROVE  /\ Digits[n] \in Seq(Zero..(Zero + 9)) /\ Len(Digits[n]) > 0
         /\ Number(Digits[n]) = n
<1> DEFINE Fine(m) == /\ Digits[m] \in Seq(Zero..(Zero + 9)) /\ Len(Digits[m]) > 0
                      /\ Number(Digits[m]) = m
           S == {m \in Nat : ~Fine(m)}
<1>1. SUFFICES ASSUME S # {} PROVE FALSE
  OBVIOUS
<1>2. PICK m \in Nat : ~Fine(m) /\ \A k \in Nat : k < m => Fine(k)
  <2>1. S \subseteq Nat
    OBVIOUS
  <2>2. PICK m \in S : \A k \in S : m <= k
    BY <1>1, <2>1, Least
  <2>3. m \in Nat /\ ~Fine(m) /\ \A k \in Nat : ~Fine(k) => m <= k
    BY <2>2
  <2> HIDE DEF Fine
  <2> QED
    BY <2>3
<1> SUFFICES Fine(m)
  BY <1>2
<1>3. CASE m < 10
  <2>1. Numeral(Digits, m)
    BY DigitsIs
  <2>2. Digits[m] = <<Zero + m>>
    BY <1>3, <2>1 DEF Numeral
  <2>3. Zero + m \in Zero..(Zero + 9) /\ Zero + m \in Nat
    BY <1>3 DEF Zero
  <2>4. Number(<<Zero + m>>) = (Zero + m) - Zero
    BY <2>3, NumberOfOne
  <2>5. Number(Digits[m]) = m
    BY <2>2, <2>4 DEF Zero
  <2>6. <<Zero + m>> \in Seq(Zero..(Zero + 9)) /\ Len(<<Zero + m>>) > 0
    BY <2>3
  <2> QED
    BY <2>2, <2>5, <2>6
<1>4. CASE m >= 10
  <2> DEFINE q == m \div 10
             b == Zero + (m % 10)
  <2>1. /\ q \in Nat /\ q < m /\ b \in Zero..(Zero + 9) /\ b \in Nat
        /\ 10 * q + (b - Zero) = m
    BY <1>4, TenthIs DEF Zero
  <2>2. Digits[m] = Append(Digits[q], b)
    <3>1. Numeral(Digits, m) /\ ~(m < 10)
      BY <1>4, DigitsIs
    <3> QED
      BY <3>1 DEF Numeral
  <2> HIDE DEF q, b
  <2>3. Fine(q)
    BY <1>2, <2>1
  <2>4. Digits[q] \in Seq(Nat)
    BY <2>3 DEF Zero
  <2>5. Number(Append(Digits[q], b)) = 10 * Number(Digits[q]) + (b - Zero)
    BY <2>1, <2>4, NumberAppend
  <2>6. Number(Digits[m]) = m
    BY <2>1, <2>2, <2>3, <2>5
  <2>7. Append(Digits[q], b) \in Seq(Zero..(Zero + 9)) /\ Len(Append(Digits[q], b)) > 0
    BY <2>1, <2>3
  <2> QED
    BY <2>2, <2>6, <2>7
<1> QED
  BY <1>3, <1>4

-----------------------------------------------------------------------------
(* Beginnings and ends of what lies behind one another.                    *)

\* What is behind s and what is before t.
LEMMA EndOfBoth ==
  ASSUME NEW s \in Seq(Nat), NEW t \in Seq(Nat)
  PROVE  SubSeq(s \o t, Len(s) + 1, Len(s \o t)) = t /\ SubSeq(s \o t, 1, Len(s)) = s
<1> DEFINE end == SubSeq(s \o t, Len(s) + 1, Len(s \o t))
           beginning == SubSeq(s \o t, 1, Len(s))
<1>1. /\ Len(s) \in Nat /\ Len(t) \in Nat /\ Len(s \o t) = Len(s) + Len(t)
      /\ s \o t \in Seq(Nat)
      /\ \A i \in 1..(Len(s) + Len(t)) : (s \o t)[i] = IF i <= Len(s) THEN s[i] ELSE t[i - Len(s)]
  BY ConcatProperties
<1>2. end \in Seq(Nat) /\ Len(end) = Len(t) /\ \A i \in 1..Len(t) : end[i] = t[i]
  BY <1>1
<1>3. beginning \in Seq(Nat) /\ Len(beginning) = Len(s) /\ \A i \in 1..Len(s) : beginning[i] = s[i]
  BY <1>1
<1> HIDE DEF end, beginning
<1>4. end = t
  BY <1>2, SeqEqual
<1>5. beginning = s
  BY <1>3, SeqEqual
<1> QED
  BY <1>4, <1>5 DEF end, beginning

\* Cut within the first of the two.
LEMMA CutInFirst ==
  ASSUME NEW s \in Seq(Nat), NEW t \in Seq(Nat), NEW n \in 0..Len(s)
  PROVE  SubSeq(s \o t, 1, n) = SubSeq(s, 1, n)
<1> DEFINE u == SubSeq(s \o t, 1, n)
           v == SubSeq(s, 1, n)
<1>1. /\ Len(s) \in Nat /\ Len(t) \in Nat /\ Len(s \o t) = Len(s) + Len(t)
      /\ s \o t \in Seq(Nat)
      /\ \A i \in 1..(Len(s) + Len(t)) : (s \o t)[i] = IF i <= Len(s) THEN s[i] ELSE t[i - Len(s)]
  BY ConcatProperties
<1>2. u \in Seq(Nat) /\ Len(u) = n /\ \A i \in 1..n : u[i] = s[i]
  BY <1>1
<1>3. v \in Seq(Nat) /\ Len(v) = n /\ \A i \in 1..n : v[i] = s[i]
  BY <1>1
<1> HIDE DEF u, v
<1>4. u = v
  BY <1>2, <1>3, SeqEqual
<1> QED
  BY <1>4 DEF u, v

\* Cut within the second.
LEMMA CutInSecond ==
  ASSUME NEW s \in Seq(Nat), NEW t \in Seq(Nat), NEW n \in Len(s)..(Len(s) + Len(t))
  PROVE  /\ SubSeq(s \o t, 1, n) = s \o SubSeq(t, 1, n - Len(s))
         /\ n - Len(s) \in 0..Len(t) /\ SubSeq(t, 1, n - Len(s)) \in Seq(Nat)
<1> DEFINE m == n - Len(s)
           w == SubSeq(t, 1, m)
           u == SubSeq(s \o t, 1, n)
           v == s \o w
<1>1. /\ Len(s) \in Nat /\ Len(t) \in Nat /\ Len(s \o t) = Len(s) + Len(t) /\ m \in 0..Len(t)
      /\ s \o t \in Seq(Nat) /\ n \in Nat /\ Len(s) + m = n
      /\ \A i \in 1..(Len(s) + Len(t)) : (s \o t)[i] = IF i <= Len(s) THEN s[i] ELSE t[i - Len(s)]
  BY ConcatProperties
<1>2. u \in Seq(Nat) /\ Len(u) = n /\ \A i \in 1..n : u[i] = IF i <= Len(s) THEN s[i] ELSE t[i - Len(s)]
  BY <1>1
<1> HIDE DEF m
<1>3. w \in Seq(Nat) /\ Len(w) = m /\ \A i \in 1..m : w[i] = t[i]
  BY <1>1
<1> HIDE DEF u, w
<1>4. /\ v \in Seq(Nat) /\ Len(v) = n
      /\ \A i \in 1..n : v[i] = IF i <= Len(s) THEN s[i] ELSE w[i - Len(s)]
  <2>1. /\ v \in Seq(Nat) /\ Len(v) = Len(s) + Len(w)
        /\ \A i \in 1..(Len(s) + Len(w)) : v[i] = IF i <= Len(s) THEN s[i] ELSE w[i - Len(s)]
    BY <1>3, ConcatProperties
  <2> QED
    BY <1>1, <1>3, <2>1
<1> HIDE DEF v
<1>5. \A i \in 1..n : u[i] = v[i]
  <2> SUFFICES ASSUME NEW i \in 1..n PROVE u[i] = v[i]
    OBVIOUS
  <2>1. CASE i <= Len(s)
    BY <1>2, <1>4, <2>1
  <2>2. CASE ~(i <= Len(s))
    <3>1. i - Len(s) \in 1..m
      BY <1>1, <2>2
    <3> QED
      BY <1>2, <1>3, <1>4, <2>2, <3>1
  <2> QED
    BY <2>1, <2>2
<1>6. u = v
  BY <1>2, <1>4, <1>5, SeqEqual
<1> QED
  BY <1>1, <1>3, <1>6 DEF u, v, w, m

-----------------------------------------------------------------------------
(* A line, from the first byte of what it announces to its end.            *)

Line(b, text) == <<b>> \o text \o <<CR, LF>>

NoLineFeed(s) == \A i \in 1..Len(s) : s[i] # LF

\* Where the line feed is, the line ends.
LEMMA EndOfLineIs ==
  ASSUME NEW s \in Seq(Nat), NEW k \in 1..Len(s), s[k] = LF, \A i \in 1..(k - 1) : s[i] # LF
  PROVE  EndOfLine(s) = k
<1> DEFINE EndsAt(i) == s[i] = LF /\ \A j \in 1..(i - 1) : s[j] # LF
           e == CHOOSE i \in 1..Len(s) : EndsAt(i)
<1>1. EndOfLine(s) = e
  BY DEF EndOfLine
<1>2. EndsAt(k)
  OBVIOUS
<1>3. e \in 1..Len(s) /\ EndsAt(e)
  <2> HIDE DEF EndsAt
  <2> QED
    BY <1>2
<1>4. ~(e < k) /\ ~(k < e)
  <2>1. Len(s) \in Nat /\ e \in Nat /\ k \in Nat
    BY <1>3
  <2> HIDE DEF e
  <2>2. ~(e < k)
    BY <1>2, <1>3, <2>1
  <2>3. ~(k < e)
    BY <1>2, <1>3, <2>1
  <2> QED
    BY <2>2, <2>3
<1> QED
  BY <1>1, <1>3, <1>4

\* Without a line feed there is no line.
LEMMA NoEndOfLine ==
  ASSUME NEW s \in Seq(Nat), NoLineFeed(s)
  PROVE  ~LineOK(s) /\ ~Announces(s)
  BY DEF NoLineFeed, EndOfLine, LineOK, Announces

\* A line is found, and what is behind it left alone.
LEMMA LineFound ==
  ASSUME NEW l \in Seq(Nat), NEW t \in Seq(Nat), NoLineFeed(l)
  PROVE  LET s == (l \o <<CR, LF>>) \o t
         IN  LineOK(s) /\ readLine(s) = l /\ AfterLine(s) = t
<1> DEFINE n == Len(l)
           w == l \o <<CR, LF>>
           s == w \o t
<1>1. n \in Nat /\ <<CR, LF>> \in Seq(Nat) /\ Len(<<CR, LF>>) = 2
  BY DEF CR, LF
<1>2. w \in Seq(Nat) /\ Len(w) = n + 2 /\ w[n + 1] = CR /\ w[n + 2] = LF /\ \A i \in 1..n : w[i] = l[i]
  BY <1>1, ConcatProperties
<1> HIDE DEF w
<1>3. s \in Seq(Nat) /\ Len(s) = n + 2 + Len(t) /\ \A i \in 1..(n + 2) : s[i] = w[i]
  <2>1. /\ s \in Seq(Nat) /\ Len(s) = Len(w) + Len(t) /\ Len(t) \in Nat
        /\ \A i \in 1..(Len(w) + Len(t)) : s[i] = IF i <= Len(w) THEN w[i] ELSE t[i - Len(w)]
    <3>1. w \in Seq(Nat)
      BY <1>2
    <3> QED
      BY <3>1, ConcatProperties
  <2> HIDE DEF s, n
  <2> QED
    BY <1>1, <1>2, <2>1
<1>4. s[n + 1] = CR /\ s[n + 2] = LF /\ \A i \in 1..n : s[i] = l[i]
  BY <1>1, <1>2, <1>3
<1>5. AfterLine(s) = SubSeq(s, EndOfLine(s) + 1, Len(s))
  BY DEF AfterLine
<1>6. SubSeq(s, Len(w) + 1, Len(s)) = t
  BY <1>2, EndOfBoth
<1>7. SubSeq(s, 1, n) = l
  <2>1. SubSeq(s, 1, n) = SubSeq(w, 1, n)
    BY <1>1, <1>2, CutInFirst
  <2>2. SubSeq(w, 1, n) = l
    BY <1>1, EndOfBoth DEF w
  <2> QED
    BY <2>1, <2>2
<1> HIDE DEF s
<1>8. EndOfLine(s) = n + 2
  <2>1. \A i \in 1..((n + 2) - 1) : s[i] # LF
    <3> SUFFICES ASSUME NEW i \in 1..((n + 2) - 1) PROVE s[i] # LF
      OBVIOUS
    <3>1. i \in 1..n \/ i = n + 1
      BY <1>1
    <3>2. CASE i \in 1..n
      BY <1>4, <3>2 DEF NoLineFeed
    <3>3. CASE i = n + 1
      BY <1>4, <3>3 DEF CR, LF
    <3> QED
      BY <3>1, <3>2, <3>3
  <2>2. n + 2 \in 1..Len(s)
    BY <1>1, <1>3
  <2> QED
    BY <1>3, <1>4, <2>1, <2>2, EndOfLineIs
<1> HIDE DEF n
<1>9. LineOK(s)
  <2>1. (n + 2) - 1 = n + 1
    BY <1>1
  <2> QED
    BY <1>1, <1>4, <1>8, <2>1 DEF LineOK
<1>10. readLine(s) = l
  <2>1. (n + 2) - 2 = n
    BY <1>1
  <2> QED
    BY <1>7, <1>8, <2>1 DEF readLine
<1>11. AfterLine(s) = t
  BY <1>2, <1>5, <1>6, <1>8
<1> QED
  BY <1>9, <1>10, <1>11 DEF s, w

\* A line that announces something.
LEMMA LineRead ==
  ASSUME NEW b \in Nat \ {LF}, NEW text \in Seq(Nat), NoLineFeed(text), NEW t \in Seq(Nat)
  PROVE  LET s == Line(b, text) \o t
         IN  /\ Announces(s) /\ s[1] = b
             /\ Tail(readLine(s)) = text /\ AfterLine(s) = t
<1> DEFINE l == <<b>> \o text
           s == (l \o <<CR, LF>>) \o t
<1>1. l \in Seq(Nat) /\ Len(l) = 1 + Len(text) /\ l[1] = b /\ \A i \in 1..Len(text) : l[i + 1] = text[i]
  OBVIOUS
<1>2. NoLineFeed(l)
  <2> SUFFICES ASSUME NEW i \in 1..Len(l) PROVE l[i] # LF
    BY DEF NoLineFeed
  <2>1. i = 1 \/ (i - 1 \in 1..Len(text) /\ (i - 1) + 1 = i)
    BY <1>1
  <2> QED
    BY <1>1, <2>1 DEF NoLineFeed
<1>3. Tail(l) = text
  OBVIOUS
<1>4. s[1] = b
  BY <1>1 DEF CR, LF
<1> HIDE DEF l
<1>5. LineOK(s) /\ readLine(s) = l /\ AfterLine(s) = t
  BY <1>1, <1>2, LineFound
<1>6. l # << >>
  BY <1>1
<1>7. s = Line(b, text) \o t
  BY DEF Line, l
<1> HIDE DEF s
<1> QED
  BY <1>3, <1>4, <1>5, <1>6, <1>7 DEF Announces

\* Cut off before its end it is no line.
LEMMA LineCut ==
  ASSUME NEW b \in Nat \ {LF}, NEW text \in Seq(Nat), NoLineFeed(text),
         NEW n \in 0..(Len(text) + 2)
  PROVE  ~Announces(SubSeq(Line(b, text), 1, n))
<1> DEFINE w == Line(b, text)
           s == SubSeq(w, 1, n)
<1>1. /\ w \in Seq(Nat) /\ Len(w) = Len(text) + 3 /\ w[1] = b /\ w[Len(text) + 2] = CR
      /\ \A i \in 1..Len(text) : w[i + 1] = text[i]
  BY DEF Line, CR, LF
<1> HIDE DEF w
<1>2. s \in Seq(Nat) /\ Len(s) = n /\ \A i \in 1..n : s[i] = w[i]
  BY <1>1
<1> HIDE DEF s
<1>3. NoLineFeed(s)
  <2> SUFFICES ASSUME NEW i \in 1..n PROVE w[i] # LF
    BY <1>2 DEF NoLineFeed
  <2>1. i = 1 \/ i = Len(text) + 2 \/ (i - 1 \in 1..Len(text) /\ (i - 1) + 1 = i)
    OBVIOUS
  <2>2. CASE i = 1
    BY <1>1, <2>2
  <2>3. CASE i = Len(text) + 2
    BY <1>1, <2>3 DEF CR, LF
  <2>4. CASE i - 1 \in 1..Len(text) /\ (i - 1) + 1 = i
    BY <1>1, <2>4 DEF NoLineFeed
  <2> QED
    BY <2>1, <2>2, <2>3, <2>4
<1> QED
  BY <1>2, <1>3, NoEndOfLine DEF s, w

\* One behind the other.
LEMMA Behind ==
  ASSUME NEW s \in Seq(Nat), NEW t \in Seq(Nat)
  PROVE  /\ s \o t \in Seq(Nat) /\ Len(s \o t) = Len(s) + Len(t)
         /\ Len(s) \in Nat /\ Len(t) \in Nat
         /\ (Len(s) > 0 => (s \o t)[1] = s[1])
  OBVIOUS

LEMMA Regrouped ==
  ASSUME NEW s \in Seq(Nat), NEW t \in Seq(Nat), NEW u \in Seq(Nat)
  PROVE  (s \o t) \o u = s \o (t \o u)
  BY ConcatAssociative

-----------------------------------------------------------------------------
(* Numbers on a line.                                                      *)

\* The digits of a number are a text that parseInt and parseLen accept.
LEMMA DigitsText ==
  ASSUME NEW n \in Nat
  PROVE  /\ Digits[n] \in Seq(Nat) /\ NoLineFeed(Digits[n])
         /\ IntText(Digits[n]) /\ LenText(Digits[n]) /\ parseInt(Digits[n]) = n
<1> DEFINE d == Digits[n]
<1>1. d \in Seq(Zero..(Zero + 9)) /\ Len(d) > 0 /\ Number(d) = n
  BY DigitsRead
<1> HIDE DEF d
<1>2. d \in Seq(Nat) /\ d # << >> /\ \A i \in 1..Len(d) : d[i] \in Zero..(Zero + 9)
  <2>1. Zero..(Zero + 9) \subseteq Nat
    BY DEF Zero
  <2>2. d \in Seq(Nat)
    BY <1>1, <2>1, SeqMonotonic
  <2>3. \A i \in 1..Len(d) : d[i] \in Zero..(Zero + 9)
    BY <1>1, ElementOfSeq
  <2> QED
    BY <1>1, <2>2, <2>3
<1>3. NoLineFeed(d)
  BY <1>2 DEF NoLineFeed, LF, Zero
<1>4. AllDigits(d)
  BY <1>2 DEF AllDigits
<1>5. d[1] # Minus
  <2>1. 1 \in 1..Len(d)
    BY <1>1, <1>2
  <2> QED
    BY <1>2, <2>1 DEF Zero, Minus
<1> QED
  BY <1>1, <1>2, <1>3, <1>4, <1>5 DEF d, Unsigned, IntText, LenText, parseInt

\* So is a number with its sign.
LEMMA DecimalText ==
  ASSUME NEW n \in Int
  PROVE  /\ Decimal(n) \in Seq(Nat) /\ NoLineFeed(Decimal(n))
         /\ IntText(Decimal(n)) /\ parseInt(Decimal(n)) = n
<1>1. CASE n >= 0
  BY <1>1, DigitsText DEF Decimal
<1>2. CASE n < 0
  <2> DEFINE d == Digits[-n]
             p == <<Minus>> \o d
  <2>1. d \in Seq(Zero..(Zero + 9)) /\ Len(d) > 0 /\ Number(d) = -n
    BY <1>2, DigitsRead
  <2>2. d \in Seq(Nat) /\ NoLineFeed(d) /\ IntText(d)
    BY <1>2, DigitsText
  <2>3. \A i \in 1..Len(d) : d[i] \in Zero..(Zero + 9)
    <3> HIDE DEF d
    <3> QED
      BY <2>1, ElementOfSeq
  <2>4. Decimal(n) = p
    BY <1>2 DEF Decimal
  <2> HIDE DEF d
  <2>5. /\ p \in Seq(Nat) /\ p # << >> /\ p[1] = Minus /\ Tail(p) = d
        /\ Len(p) = Len(d) + 1 /\ \A i \in 1..Len(d) : p[i + 1] = d[i]
    BY <2>2 DEF Minus
  <2> HIDE DEF p
  <2>6. NoLineFeed(p)
    <3> SUFFICES ASSUME NEW i \in 1..Len(p) PROVE p[i] # LF
      BY DEF NoLineFeed
    <3>1. i = 1 \/ (i - 1 \in 1..Len(d) /\ (i - 1) + 1 = i)
      BY <2>2, <2>5
    <3>2. CASE i = 1
      BY <2>5, <3>2 DEF Minus, LF
    <3>3. CASE i - 1 \in 1..Len(d) /\ (i - 1) + 1 = i
      BY <2>2, <2>5, <3>3 DEF NoLineFeed
    <3> QED
      BY <3>1, <3>2, <3>3
  <2>7. Unsigned(p) = d
    BY <2>5 DEF Unsigned
  <2>8. IntText(p)
    BY <2>1, <2>3, <2>7 DEF IntText, AllDigits
  <2>9. parseInt(p) = n
    BY <2>1, <2>5, <2>7 DEF parseInt
  <2> QED
    BY <2>4, <2>5, <2>6, <2>8, <2>9
<1> QED
  BY <1>1, <1>2

-----------------------------------------------------------------------------
(* Replies but arrays: each is read as a whole, and nothing behind it; cut *)
(* off anywhere it is a fault.                                             *)

Status(p) == [NoReply EXCEPT !.type = "status", !.bytes = p]
Error(p) == [NoReply EXCEPT !.type = "error", !.bytes = p]
Bulk(p) == [NoReply EXCEPT !.type = "bulk", !.bytes = p]
Int64(n) == [NoReply EXCEPT !.type = "int", !.int = n]

\* Records with one field changed.
LEMMA RecordsUpdated ==
  ASSUME NEW t, NEW b, NEW i, NEW j, NEW x
  PROVE  LET r == [type |-> t, bytes |-> b, int |-> i, items |-> j]
         IN  /\ [r EXCEPT !.type = x] = [type |-> x, bytes |-> b, int |-> i, items |-> j]
             /\ [r EXCEPT !.bytes = x] = [type |-> t, bytes |-> x, int |-> i, items |-> j]
             /\ [r EXCEPT !.int = x] = [type |-> t, bytes |-> b, int |-> x, items |-> j]
             /\ [r EXCEPT !.items = x] = [type |-> t, bytes |-> b, int |-> i, items |-> x]
  OBVIOUS
\* The replies that are built from NoReply.
LEMMA RepliesAre ==
  ASSUME NEW u, NEW v
  PROVE  /\ [NoReply EXCEPT !.type = u, !.bytes = v] = [type |-> u, bytes |-> v, int |-> 0, items |-> << >>]
         /\ [NoReply EXCEPT !.type = u, !.int = v] = [type |-> u, bytes |-> << >>, int |-> v, items |-> << >>]
         /\ [NoReply EXCEPT !.type = u, !.items = v] = [type |-> u, bytes |-> << >>, int |-> 0, items |-> v]
<1> DEFINE r == [NoReply EXCEPT !.type = u]
<1>1. r = [type |-> u, bytes |-> << >>, int |-> 0, items |-> << >>]
  BY RecordsUpdated DEF NoReply
<1>2. /\ [NoReply EXCEPT !.type = u, !.bytes = v] = [r EXCEPT !.bytes = v]
      /\ [NoReply EXCEPT !.type = u, !.int = v] = [r EXCEPT !.int = v]
      /\ [NoReply EXCEPT !.type = u, !.items = v] = [r EXCEPT !.items = v]
  OBVIOUS
<1> HIDE DEF r
<1>3. [r EXCEPT !.bytes = v] = [type |-> u, bytes |-> v, int |-> 0, items |-> << >>]
  BY <1>1
<1>4. [r EXCEPT !.int = v] = [type |-> u, bytes |-> << >>, int |-> v, items |-> << >>]
  BY <1>1
<1>5. [r EXCEPT !.items = v] = [type |-> u, bytes |-> << >>, int |-> 0, items |-> v]
  BY <1>1
<1> QED
  BY <1>2, <1>3, <1>4, <1>5

LEMMA ItemsAre ==
  ASSUME NEW p \in Seq(Nat), NEW n \in Int
  PROVE  /\ Status(p) \in Item /\ Error(p) \in Item /\ Bulk(p) \in Item /\ Int64(n) \in Item
         /\ NoReply \in Item
<1>1. << >> \in Seq(Nat) /\ 0 \in Int
  OBVIOUS
<1>2. /\ Status(p) = [type |-> "status", bytes |-> p, int |-> 0, items |-> << >>]
      /\ Error(p) = [type |-> "error", bytes |-> p, int |-> 0, items |-> << >>]
      /\ Bulk(p) = [type |-> "bulk", bytes |-> p, int |-> 0, items |-> << >>]
      /\ Int64(n) = [type |-> "int", bytes |-> << >>, int |-> n, items |-> << >>]
  BY RepliesAre DEF Status, Error, Bulk, Int64
<1> QED
  BY <1>1, <1>2 DEF NoReply, Item

Frames(w, reply) ==
  /\ w \in Seq(Nat) /\ w # << >> /\ w[1] # Star /\ reply \in Item
  /\ \A t \in Seq(Nat) : readSimple(w \o t) = Read(reply, t) /\ (w \o t)[1] = w[1]
  /\ \A n \in 0..(Len(w) - 1) :
       readSimple(SubSeq(w, 1, n)) = Fault /\ (n > 0 => SubSeq(w, 1, n)[1] = w[1])

\* A line that is there is taken for what it announces.
LEMMA SimpleLine ==
  ASSUME NEW b \in Nat \ {LF}, NEW text \in Seq(Nat), NoLineFeed(text), NEW t \in Seq(Nat)
  PROVE  readSimple(Line(b, text) \o t) = Announced(b, text, t)
  BY LineRead DEF readSimple

\* A line that is cut off is a fault.
LEMMA SimpleCut ==
  ASSUME NEW b \in Nat \ {LF}, NEW text \in Seq(Nat), NoLineFeed(text),
         NEW n \in 0..(Len(text) + 2)
  PROVE  readSimple(SubSeq(Line(b, text), 1, n)) = Fault
  BY LineCut DEF readSimple

\* A line that says all.
LEMMA LineFrames ==
  ASSUME NEW b \in Nat \ {LF, Star}, NEW text \in Seq(Nat), NoLineFeed(text),
         NEW reply \in Item, \A t \in Seq(Nat) : Announced(b, text, t) = Read(reply, t)
  PROVE  Frames(Line(b, text), reply)
<1> DEFINE w == Line(b, text)
<1>1. w \in Seq(Nat) /\ Len(w) = Len(text) + 3 /\ w[1] = b /\ Len(text) \in Nat
  BY DEF Line, CR, LF
<1>2. \A t \in Seq(Nat) : readSimple(w \o t) = Read(reply, t)
  BY SimpleLine
<1>3. \A n \in 0..(Len(text) + 2) : readSimple(SubSeq(w, 1, n)) = Fault
  BY SimpleCut
<1> HIDE DEF w
<1>4. \A t \in Seq(Nat) : (w \o t)[1] = w[1]
  BY <1>1
<1>5. \A n \in 0..(Len(w) - 1) : n > 0 => SubSeq(w, 1, n)[1] = w[1]
  BY <1>1
<1>6. \A n \in 0..(Len(w) - 1) : readSimple(SubSeq(w, 1, n)) = Fault
  BY <1>1, <1>3
<1>7. w # << >>
  BY <1>1
<1> QED
  BY <1>1, <1>2, <1>4, <1>5, <1>6, <1>7 DEF Frames, w

LEMMA StatusFrames ==
  ASSUME NEW p \in Seq(Nat), NoLineFeed(p)
  PROVE  Frames(Line(Plus, p), Status(p))
<1>1. Plus \in Nat \ {LF, Star}
  BY DEF Plus, LF, Star
<1>2. \A t \in Seq(Nat) : Announced(Plus, p, t) = Read(Status(p), t)
  BY DEF Announced, Status, Plus, Minus, Colon, Dollar
<1> QED
  BY <1>1, <1>2, LineFrames, ItemsAre

LEMMA ErrorFrames ==
  ASSUME NEW p \in Seq(Nat), NoLineFeed(p)
  PROVE  Frames(Line(Minus, p), Error(p))
<1>1. Minus \in Nat \ {LF, Star}
  BY DEF Minus, LF, Star
<1>2. \A t \in Seq(Nat) : Announced(Minus, p, t) = Read(Error(p), t)
  BY DEF Announced, Error, Plus, Minus, Colon, Dollar
<1> QED
  BY <1>1, <1>2, LineFrames, ItemsAre

LEMMA IntFrames ==
  ASSUME NEW n \in Int
  PROVE  Frames(Line(Colon, Decimal(n)), Int64(n))
<1>1. Colon \in Nat \ {LF, Star}
  BY DEF Colon, LF, Star
<1>2. /\ Decimal(n) \in Seq(Nat) /\ NoLineFeed(Decimal(n))
      /\ IntText(Decimal(n)) /\ parseInt(Decimal(n)) = n
  BY DecimalText
<1>3. \A t \in Seq(Nat) : Announced(Colon, Decimal(n), t) = Read(Int64(n), t)
  BY <1>2 DEF Announced, Int64, Plus, Minus, Colon, Dollar
<1>4. Int64(n) \in Item
  BY ItemsAre, EmptySeq
<1> QED
  BY <1>1, <1>2, <1>3, <1>4, LineFrames

\* Bytes behind their length.
LEMMA BulkRead ==
  ASSUME NEW p \in Seq(Nat), NEW t \in Seq(Nat)
  PROVE  readBulk((p \o <<CR, LF>>) \o t, Len(p)) = Read(Bulk(p), t)
<1> DEFINE e == <<CR, LF>>
           s == (p \o e) \o t
           after == SubSeq(s, Len(p) + 1, Len(s))
<1>1. e \in Seq(Nat) /\ Len(e) = 2 /\ Len(p) \in Nat /\ Len(t) \in Nat
  BY DEF CR, LF
<1>2. e = << >> \o e /\ << >> \in Seq(Nat) /\ NoLineFeed(<< >>)
  BY <1>1 DEF NoLineFeed
<1> HIDE DEF e
<1>3. s = p \o (e \o t) /\ e \o t \in Seq(Nat) /\ Len(s) = Len(p) + 2 + Len(t)
  <2>1. s = p \o (e \o t)
    BY <1>1, Regrouped
  <2>2. e \o t \in Seq(Nat) /\ Len(e \o t) = Len(e) + Len(t)
    BY <1>1, Behind
  <2>3. Len(p \o (e \o t)) = Len(p) + Len(e \o t)
    BY <2>2, Behind
  <2> HIDE DEF s
  <2> QED
    BY <1>1, <2>1, <2>2, <2>3
<1>4. after = e \o t /\ SubSeq(s, 1, Len(p)) = p
  <2> HIDE DEF s
  <2> QED
    BY <1>3, EndOfBoth
<1>5. LineOK(after) /\ readLine(after) = << >> /\ AfterLine(after) = t
  <2>1. after = (<< >> \o e) \o t
    BY <1>2, <1>4
  <2> HIDE DEF after
  <2> QED
    BY <1>2, <2>1, LineFound DEF e
<1>6. ~(Len(p) > Len(s))
  BY <1>1, <1>3
<1> HIDE DEF s
<1> QED
  BY <1>4, <1>5, <1>6 DEF readBulk, Bulk, s, e

\* Bytes that are cut off, or the line end behind them.
LEMMA BulkCut ==
  ASSUME NEW p \in Seq(Nat), NEW m \in 0..(Len(p) + 1)
  PROVE  readBulk(SubSeq(p \o <<CR, LF>>, 1, m), Len(p)) = Fault
<1> DEFINE w == p \o <<CR, LF>>
           s == SubSeq(w, 1, m)
           after == SubSeq(s, Len(p) + 1, Len(s))
<1>1. w \in Seq(Nat) /\ Len(w) = Len(p) + 2 /\ w[Len(p) + 1] = CR /\ Len(p) \in Nat
  BY DEF CR, LF
<1> HIDE DEF w
<1>2. s \in Seq(Nat) /\ Len(s) = m /\ \A i \in 1..m : s[i] = w[i]
  <2>1. m \in Nat /\ m <= Len(w) /\ 1 \in Int
    BY <1>1
  <2>2. \A i \in 1..m : w[i] \in Nat
    BY <1>1, <2>1
  <2> HIDE DEF w
  <2> QED
    BY <2>1, <2>2, SubSeqProperties
<1> HIDE DEF s
<1>3. CASE m < Len(p)
  BY <1>1, <1>2, <1>3 DEF readBulk, s, w
<1>4. CASE m >= Len(p)
  <2>1. NoLineFeed(after) /\ after \in Seq(Nat)
    <3>1. CASE m = Len(p)
      <4>1. after = << >>
        BY <1>1, <1>2, <3>1, SubSeqEmpty
      <4> HIDE DEF after
      <4> QED
        BY <4>1 DEF NoLineFeed
    <3>2. CASE m = Len(p) + 1
      <4>1. s[m] = CR
        BY <1>1, <1>2, <3>2
      <4>2. after \in Seq(Nat) /\ Len(after) = 1 /\ after[1] = CR
        BY <1>1, <1>2, <3>2, <4>1
      <4> HIDE DEF after
      <4> QED
        BY <4>2 DEF NoLineFeed, CR, LF
    <3> QED
      BY <1>1, <1>4, <3>1, <3>2
  <2>2. ~LineOK(after)
    BY <2>1, NoEndOfLine
  <2> QED
    BY <2>2 DEF readBulk, s, w
<1> QED
  BY <1>1, <1>3, <1>4

LEMMA BulkFrames ==
  ASSUME NEW p \in Seq(Nat)
  PROVE  Frames(writeBytes(p), Bulk(p))
<1> DEFINE l == Line(Dollar, Digits[Len(p)])
           e == p \o <<CR, LF>>
           w == l \o e
<1>1. Dollar \in Nat \ {LF, Star} /\ Len(p) \in Nat
  BY DEF Dollar, LF, Star
<1>2. /\ Digits[Len(p)] \in Seq(Nat) /\ NoLineFeed(Digits[Len(p)])
      /\ LenText(Digits[Len(p)]) /\ parseInt(Digits[Len(p)]) = Len(p)
  BY <1>1, DigitsText
<1>3. <<CR, LF>> \in Seq(Nat) /\ e \in Seq(Nat) /\ Len(e) = Len(p) + 2
  BY DEF CR, LF
<1>4. l \in Seq(Nat) /\ Len(l) = Len(Digits[Len(p)]) + 3 /\ l[1] = Dollar /\ Len(Digits[Len(p)]) \in Nat
  BY <1>1, <1>2 DEF Line, CR, LF
<1>5. writeBytes(p) = w
  <2>1. writeBytes(p) = (l \o p) \o <<CR, LF>>
    BY DEF writeBytes, writeLen, Line
  <2> HIDE DEF l
  <2> QED
    BY <1>3, <1>4, <2>1, Regrouped
<1>6. \A t \in Seq(Nat) : Announced(Dollar, Digits[Len(p)], t) = readBulk(t, Len(p))
  BY <1>1, <1>2 DEF Announced, Plus, Minus, Colon, Dollar
<1>7. \A t \in Seq(Nat) : readSimple(l \o t) = readBulk(t, Len(p))
  BY <1>1, <1>2, <1>6, SimpleLine
<1>8. \A n \in 0..(Len(l) - 1) : readSimple(SubSeq(l, 1, n)) = Fault
  <2> SUFFICES ASSUME NEW n \in 0..(Len(l) - 1) PROVE readSimple(SubSeq(l, 1, n)) = Fault
    OBVIOUS
  <2>1. n \in 0..(Len(Digits[Len(p)]) + 2)
    BY <1>4
  <2> QED
    BY <1>1, <1>2, <2>1, SimpleCut
<1> HIDE DEF l
<1>9. ASSUME NEW t \in Seq(Nat)
      PROVE  readSimple(w \o t) = Read(Bulk(p), t)
  <2>1. w \o t = l \o (e \o t) /\ e \o t \in Seq(Nat)
    <3>1. l \in Seq(Nat) /\ e \in Seq(Nat)
      BY <1>3, <1>4
    <3> HIDE DEF e
    <3>2. (l \o e) \o t = l \o (e \o t)
      BY <3>1, Regrouped
    <3>3. e \o t \in Seq(Nat)
      BY <3>1, Behind
    <3> QED
      BY <3>2, <3>3
  <2>2. readSimple(w \o t) = readBulk(e \o t, Len(p))
    BY <1>7, <2>1
  <2> QED
    BY <2>2, BulkRead
<1> HIDE DEF e
<1>10. w \in Seq(Nat) /\ Len(w) = Len(l) + Len(e) /\ w[1] = Dollar /\ Len(w) > 0
  <2>1. w \in Seq(Nat) /\ Len(w) = Len(l) + Len(e) /\ w[1] = l[1]
    <3>1. l \in Seq(Nat) /\ e \in Seq(Nat) /\ Len(l) > 0
      BY <1>3, <1>4
    <3> QED
      BY <3>1, Behind
  <2>2. Len(l) > 0 /\ Len(l) \in Nat /\ Len(e) \in Nat /\ l[1] = Dollar
    BY <1>1, <1>3, <1>4
  <2> HIDE DEF w
  <2> QED
    BY <2>1, <2>2
<1>11. ASSUME NEW n \in 0..(Len(w) - 1)
       PROVE  readSimple(SubSeq(w, 1, n)) = Fault
  <2>1. CASE n < Len(l)
    <3>1. n \in 0..Len(l) /\ n \in 0..(Len(l) - 1)
      BY <1>4, <2>1
    <3>2. SubSeq(w, 1, n) = SubSeq(l, 1, n)
      BY <1>3, <1>4, <3>1, CutInFirst
    <3> QED
      BY <1>8, <3>1, <3>2
  <2>2. CASE n >= Len(l)
    <3> DEFINE m == n - Len(l)
    <3>1. n \in Len(l)..(Len(l) + Len(e)) /\ m \in 0..(Len(p) + 1)
      <4>1. /\ Len(w) = Len(l) + Len(e) /\ Len(e) = Len(p) + 2
            /\ Len(l) \in Nat /\ Len(p) \in Nat
        BY <1>1, <1>3, <1>4, <1>10
      <4> HIDE DEF w
      <4> QED
        BY <2>2, <4>1
    <3>2. SubSeq(w, 1, n) = l \o SubSeq(e, 1, m) /\ SubSeq(e, 1, m) \in Seq(Nat)
      BY <1>3, <1>4, <3>1, CutInSecond
    <3> HIDE DEF m
    <3>3. readSimple(SubSeq(w, 1, n)) = readBulk(SubSeq(e, 1, m), Len(p))
      BY <1>7, <3>2
    <3>4. readBulk(SubSeq(e, 1, m), Len(p)) = Fault
      BY <3>1, BulkCut DEF e
    <3> QED
      BY <3>3, <3>4
  <2> QED
    BY <1>4, <2>1, <2>2
<1> HIDE DEF w
<1>12. \A t \in Seq(Nat) : (w \o t)[1] = w[1]
  BY <1>10
<1>13. \A n \in 0..(Len(w) - 1) : n > 0 => SubSeq(w, 1, n)[1] = w[1]
  BY <1>10
<1>14. Bulk(p) \in Item
  BY ItemsAre
<1>15. w # << >> /\ w[1] # Star
  BY <1>10 DEF Star, Dollar
<1> QED
  BY <1>5, <1>9, <1>10, <1>11, <1>12, <1>13, <1>14, <1>15 DEF Frames

-----------------------------------------------------------------------------
(* Replies one behind the other.                                           *)

Listing(replies) == [NoReply EXCEPT !.type = "array", !.items = replies]

LEMMA ListingIs ==
  ASSUME NEW replies \in Seq(Item), NEW rest \in Seq(Nat)
  PROVE  /\ Listing(replies).type = "array" /\ Listing(replies).items = replies
         /\ Read(Listing(replies), rest) \in Pipeline
         /\ Read(Listing(replies), rest).ok = TRUE
         /\ Read(Listing(replies), rest).reply = Listing(replies)
         /\ Read(Listing(replies), rest).rest = rest
<1>1. Listing(replies) = [type |-> "array", bytes |-> << >>, int |-> 0, items |-> replies]
  BY RepliesAre DEF Listing
<1> QED
  BY <1>1 DEF Read, Pipeline

\* Behind a fault nothing is read.
LEMMA FaultIs ==
  Fault \in Pipeline /\ Fault.ok = FALSE /\ OneMore[Fault] = Fault
<1>1. Fault \in Pipeline /\ Fault.ok = FALSE
  BY EmptySeq DEF Fault, NoReply, Pipeline
<1>2. OneMore[Fault] = Appended(Fault, readSimple(Fault.rest))
  BY <1>1 DEF OneMore
<1> QED
  BY <1>1, <1>2 DEF Appended

\* ReadItems, as the function it is defined by.
LEMMA ItemsValue ==
  ASSUME NEW n, NEW s
  PROVE  ReadItems(n, s) = (CHOOSE f : f = [i \in 0..n |->
           IF i = 0 THEN Read([NoReply EXCEPT !.type = "array"], s) ELSE OneMore[f[i - 1]]])[n]
  BY Zenon DEF ReadItems

LEMMA NoItems ==
  ASSUME NEW s
  PROVE  Read([NoReply EXCEPT !.type = "array"], s) = Read(Listing(<< >>), s)
<1>1. [NoReply EXCEPT !.type = "array"] = [type |-> "array", bytes |-> << >>, int |-> 0, items |-> << >>]
  BY RecordsUpdated DEF NoReply
<1>2. Listing(<< >>) = [type |-> "array", bytes |-> << >>, int |-> 0, items |-> << >>]
  BY RepliesAre DEF Listing
<1> QED
  BY <1>1, <1>2

\* It goes reply by reply.
LEMMA ReadItemsIs ==
  ASSUME NEW n \in Nat, NEW s
  PROVE  \E f : /\ f[0] = Read(Listing(<< >>), s) /\ \A i \in 1..n : f[i] = OneMore[f[i - 1]]
                /\ ReadItems(n, s) = f[n]
<1> DEFINE base == Read([NoReply EXCEPT !.type = "array"], s)
           step == [i \in Nat |-> OneMore]
           All(f) == f = [i \in 0..n |-> IF i = 0 THEN base ELSE OneMore[f[i - 1]]]
           read == CHOOSE f : All(f)
<1>1. ReadItems(n, s) = read[n]
  BY ItemsValue
<1>2. \A i \in 1..n : step[i] = OneMore
  OBVIOUS
<1>3. base = Read(Listing(<< >>), s)
  BY NoItems
<1> HIDE DEF base, step
<1>4. PICK g : Steps(g, base, step, n)
  BY StepsExist
<1>5. g = [i \in 0..n |-> g[i]] /\ g[0] = base /\ \A i \in 1..n : g[i] = OneMore[g[i - 1]]
  BY <1>2, <1>4, StepsAre
<1>6. \E f : All(f)
  <2>1. \A i \in 0..n : g[i] = IF i = 0 THEN base ELSE OneMore[g[i - 1]]
    <3> SUFFICES ASSUME NEW i \in 0..n, i # 0 PROVE g[i] = OneMore[g[i - 1]]
      BY <1>5
    <3>1. i \in 1..n
      OBVIOUS
    <3> QED
      BY <1>5, <3>1
  <2>2. g = [i \in 0..n |-> IF i = 0 THEN base ELSE OneMore[g[i - 1]]]
    BY <1>5, <2>1
  <2> QED
    BY <2>2
<1>7. All(read)
  <2> HIDE DEF All
  <2> QED
    BY <1>6
<1> HIDE DEF read
<1>8. read[0] = base /\ \A i \in 1..n : read[i] = OneMore[read[i - 1]]
  <2>1. \A i \in 0..n : read[i] = IF i = 0 THEN base ELSE OneMore[read[i - 1]]
    BY <1>7
  <2>2. 0 \in 0..n /\ \A i \in 1..n : i \in 0..n /\ i # 0
    OBVIOUS
  <2> QED
    BY <2>1, <2>2
<1> QED
  BY <1>1, <1>3, <1>8

LEMMA ReadNoItems ==
  ASSUME NEW s
  PROVE  ReadItems(0, s) = Read(Listing(<< >>), s)
  BY ReadItemsIs

\* The reply behind the first n.
LEMMA ReadOneMore ==
  ASSUME NEW n \in Nat, NEW s
  PROVE  ReadItems(n + 1, s) = OneMore[ReadItems(n, s)]
<1>1. PICK f : /\ f[0] = Read(Listing(<< >>), s) /\ \A i \in 1..n : f[i] = OneMore[f[i - 1]]
               /\ ReadItems(n, s) = f[n]
  BY ReadItemsIs
<1>2. n + 1 \in Nat
  OBVIOUS
<1>3. PICK g : /\ g[0] = Read(Listing(<< >>), s) /\ \A i \in 1..(n + 1) : g[i] = OneMore[g[i - 1]]
               /\ ReadItems(n + 1, s) = g[n + 1]
  BY <1>2, ReadItemsIs
<1>4. f[n] = g[n]
  <2>1. PICK step : step = [i \in Nat |-> OneMore]
    OBVIOUS
  <2>2. \A i \in 1..n : step[i] = OneMore /\ i \in 1..(n + 1)
    BY <2>1
  <2>3. \A i \in 1..n : f[i] = step[i][f[i - 1]]
    BY <1>1, <2>2
  <2>4. \A i \in 1..n : g[i] = step[i][g[i - 1]]
    BY <1>3, <2>2
  <2>5. f[0] = g[0]
    BY <1>1, <1>3
  <2> QED
    BY <2>3, <2>4, <2>5, StepsAgree
<1>5. n + 1 \in 1..(n + 1) /\ (n + 1) - 1 = n
  OBVIOUS
<1> QED
  BY <1>1, <1>3, <1>4, <1>5

FramesItems(w, replies) ==
  /\ w \in Seq(Nat) /\ replies \in Seq(Item)
  /\ \A t \in Seq(Nat) : ReadItems(Len(replies), w \o t) = Read(Listing(replies), t)
  /\ \A n \in 0..(Len(w) - 1) : ReadItems(Len(replies), SubSeq(w, 1, n)) = Fault

LEMMA FramesNone == FramesItems(<< >>, << >>)
<1>1. << >> \in Seq(Nat) /\ << >> \in Seq(Item) /\ Len(<< >>) = 0 /\ 0..(0 - 1) = {}
  OBVIOUS
<1>2. \A t \in Seq(Nat) : << >> \o t = t
  BY ConcatEmptySeq
<1> QED
  BY <1>1, <1>2, ReadNoItems DEF FramesItems

\* One reply more.
LEMMA FramesMore ==
  ASSUME NEW w, NEW replies, NEW v, NEW reply, FramesItems(w, replies), Frames(v, reply)
  PROVE  FramesItems(w \o v, Append(replies, reply))
<1> DEFINE k == Len(replies)
<1>1. /\ w \in Seq(Nat) /\ v \in Seq(Nat) /\ replies \in Seq(Item) /\ reply \in Item
      /\ \A t \in Seq(Nat) : ReadItems(k, w \o t) = Read(Listing(replies), t)
      /\ \A n \in 0..(Len(w) - 1) : ReadItems(k, SubSeq(w, 1, n)) = Fault
      /\ \A t \in Seq(Nat) : readSimple(v \o t) = Read(reply, t)
      /\ \A n \in 0..(Len(v) - 1) : readSimple(SubSeq(v, 1, n)) = Fault
  BY DEF Frames, FramesItems
<1>2. /\ k \in Nat /\ Append(replies, reply) \in Seq(Item) /\ Len(Append(replies, reply)) = k + 1
      /\ w \o v \in Seq(Nat) /\ Len(w \o v) = Len(w) + Len(v) /\ Len(w) \in Nat /\ Len(v) \in Nat
  <2>1. k \in Nat /\ Append(replies, reply) \in Seq(Item) /\ Len(Append(replies, reply)) = k + 1
    BY <1>1
  <2> QED
    BY <1>1, <2>1, Behind
<1> HIDE DEF k
<1>3. \A s : ReadItems(k + 1, s) = OneMore[ReadItems(k, s)]
  BY <1>2, ReadOneMore
<1>4. ASSUME NEW u \in Seq(Nat)
      PROVE  OneMore[Read(Listing(replies), u)] = Appended(Read(Listing(replies), u), readSimple(u))
  BY <1>1, ListingIs DEF OneMore
<1>5. ASSUME NEW t \in Seq(Nat)
      PROVE  ReadItems(k + 1, (w \o v) \o t) = Read(Listing(Append(replies, reply)), t)
  <2>1. (w \o v) \o t = w \o (v \o t) /\ v \o t \in Seq(Nat)
    BY <1>1, Regrouped, Behind
  <2>2. ReadItems(k + 1, (w \o v) \o t) = Appended(Read(Listing(replies), v \o t), Read(reply, t))
    BY <1>1, <1>3, <1>4, <2>1
  <2>3. [Listing(replies) EXCEPT !.items = Append(@, reply)] = Listing(Append(replies, reply))
    <3>1. Listing(replies) = [type |-> "array", bytes |-> << >>, int |-> 0, items |-> replies]
      BY RepliesAre DEF Listing
    <3>2. Listing(Append(replies, reply))
            = [type |-> "array", bytes |-> << >>, int |-> 0, items |-> Append(replies, reply)]
      BY RepliesAre DEF Listing
    <3>3. Listing(replies).items = replies
      BY <3>1
    <3>4. PICK more : more = Append(replies, reply)
      OBVIOUS
    <3>5. [Listing(replies) EXCEPT !.items = more]
            = [type |-> "array", bytes |-> << >>, int |-> 0, items |-> more]
      BY <3>1
    <3> QED
      BY <3>2, <3>3, <3>4, <3>5
  <2>4. /\ Read(Listing(replies), v \o t).ok = TRUE /\ Read(Listing(replies), v \o t).reply = Listing(replies)
        /\ Read(reply, t).ok = TRUE /\ Read(reply, t).reply = reply /\ Read(reply, t).rest = t
    BY DEF Read
  <2> QED
    BY <2>2, <2>3, <2>4 DEF Appended
<1>6. ASSUME NEW n \in 0..(Len(w \o v) - 1)
      PROVE  ReadItems(k + 1, SubSeq(w \o v, 1, n)) = Fault
  <2>1. CASE n < Len(w)
    <3>1. n \in 0..Len(w) /\ n \in 0..(Len(w) - 1)
      BY <1>2, <2>1
    <3>2. SubSeq(w \o v, 1, n) = SubSeq(w, 1, n)
      BY <1>1, <3>1, CutInFirst
    <3>3. ReadItems(k, SubSeq(w, 1, n)) = Fault
      BY <1>1, <3>1
    <3> QED
      BY <1>3, <3>2, <3>3, FaultIs
  <2>2. CASE n >= Len(w)
    <3>1. n \in Len(w)..(Len(w) + Len(v)) /\ n - Len(w) \in 0..(Len(v) - 1)
      BY <1>2, <2>2
    <3>2. PICK m \in 0..(Len(v) - 1) : m = n - Len(w)
      BY <3>1
    <3>3. SubSeq(w \o v, 1, n) = w \o SubSeq(v, 1, m) /\ SubSeq(v, 1, m) \in Seq(Nat)
      BY <1>1, <3>1, <3>2, CutInSecond
    <3>4. ReadItems(k, SubSeq(w \o v, 1, n)) = Read(Listing(replies), SubSeq(v, 1, m))
      BY <1>1, <3>3
    <3>5. ReadItems(k + 1, SubSeq(w \o v, 1, n)) = Appended(Read(Listing(replies), SubSeq(v, 1, m)), Fault)
      BY <1>1, <1>3, <1>4, <3>3, <3>4
    <3> QED
      BY <3>5, FaultIs DEF Appended
  <2> QED
    BY <1>2, <2>1, <2>2
<1> QED
  BY <1>2, <1>5, <1>6 DEF FramesItems

-----------------------------------------------------------------------------
(* What is written one behind the other.                                   *)

\* FlattenSeq, as the function it is defined by.
LEMMA FlattenValue ==
  ASSUME NEW ws, Len(ws) # 0
  PROVE  FlattenSeq(ws) = (CHOOSE f : f = [i \in 1..Len(ws) |->
           IF i = 1 THEN ws[i] ELSE f[i - 1] \o ws[i]])[Len(ws)]
  BY Zenon DEF FlattenSeq

\* It puts one behind the other.
LEMMA FlattenIs ==
  ASSUME NEW ws \in Seq(Seq(Nat))
  PROVE  \E f : /\ f[0] = << >> /\ \A i \in 1..Len(ws) : f[i] = f[i - 1] \o ws[i]
                /\ FlattenSeq(ws) = f[Len(ws)]
<1> DEFINE n == Len(ws)
           step == [i \in Nat |-> [x \in Seq(Nat) |-> x \o ws[i]]]
           All(f) == f = [i \in 1..n |-> IF i = 1 THEN ws[i] ELSE f[i - 1] \o ws[i]]
           flatten == CHOOSE f : All(f)
<1>1. n \in Nat /\ \A i \in 1..n : ws[i] \in Seq(Nat) /\ i \in Nat
  OBVIOUS
<1>2. CASE n = 0
  <2>1. ws = << >>
    BY <1>2
  <2>2. FlattenSeq(ws) = << >>
    BY <2>1, <1>2 DEF FlattenSeq
  <2>3. PICK f : f = [i \in {0} |-> << >>]
    OBVIOUS
  <2>4. f[0] = << >> /\ 1..n = {}
    BY <1>2, <2>3
  <2> QED
    BY <1>2, <2>2, <2>4
<1>3. CASE n # 0
  <2>1. FlattenSeq(ws) = flatten[n]
    BY <1>3, FlattenValue
  <2>2. \A i \in 1..n : \A x \in Seq(Nat) : step[i][x] = x \o ws[i] /\ step[i][x] \in Seq(Nat)
    <3> SUFFICES ASSUME NEW i \in 1..n, NEW x \in Seq(Nat)
                 PROVE  step[i][x] = x \o ws[i] /\ step[i][x] \in Seq(Nat)
      OBVIOUS
    <3>1. step[i] = [y \in Seq(Nat) |-> y \o ws[i]]
      BY <1>1
    <3>2. step[i][x] = x \o ws[i]
      BY <3>1
    <3>3. x \o ws[i] \in Seq(Nat)
      BY <1>1, Behind
    <3> QED
      BY <3>2, <3>3, Zenon
  <2> HIDE DEF step
  <2>3. PICK g : Steps(g, << >>, step, n)
    BY <1>1, StepsExist
  <2>4. g[0] = << >> /\ \A i \in 1..n : g[i] = step[i][g[i - 1]]
    BY <1>1, <2>3, StepsAre
  <2>5. \A i \in 0..n : g[i] \in Seq(Nat)
    <3>1. g[0] \in Seq(Nat) /\ \A i \in 1..n : \A x \in Seq(Nat) : step[i][x] \in Seq(Nat)
      BY <2>2, <2>4, EmptySeq
    <3> HIDE DEF n
    <3> QED
      BY <1>1, <2>4, <3>1, StepsKeep
  <2>6. \A i \in 1..n : g[i] = g[i - 1] \o ws[i]
    <3> SUFFICES ASSUME NEW i \in 1..n PROVE g[i] = g[i - 1] \o ws[i]
      OBVIOUS
    <3>1. i - 1 \in 0..n
      BY <1>1
    <3>2. g[i - 1] \in Seq(Nat)
      BY <2>5, <3>1
    <3> QED
      BY <2>2, <2>4, <3>2
  <2>7. \E f : All(f)
    <3>1. PICK f : f = [i \in 1..n |-> g[i]]
      OBVIOUS
    <3>2. \A i \in 1..n : f[i] = IF i = 1 THEN ws[i] ELSE f[i - 1] \o ws[i]
      <4> SUFFICES ASSUME NEW i \in 1..n PROVE f[i] = IF i = 1 THEN ws[i] ELSE f[i - 1] \o ws[i]
        OBVIOUS
      <4>1. CASE i = 1
        <5>1. g[1] = << >> \o ws[1] /\ ws[1] \in Seq(Nat)
          <6>1. 1 \in 1..n /\ 1 - 1 = 0
            BY <4>1
          <6>2. g[1] = g[0] \o ws[1]
            BY <2>6, <6>1
          <6> QED
            BY <1>1, <2>4, <6>1, <6>2
        <5>2. << >> \o ws[1] = ws[1]
          BY <5>1, ConcatEmptySeq
        <5> QED
          BY <3>1, <4>1, <5>1, <5>2
      <4>2. CASE i # 1
        <5>1. i - 1 \in 1..n
          BY <1>1, <4>2
        <5> QED
          BY <2>6, <3>1, <4>2, <5>1
      <4> QED
        BY <4>1, <4>2
    <3>3. f = [i \in 1..n |-> IF i = 1 THEN ws[i] ELSE f[i - 1] \o ws[i]]
      BY <3>1, <3>2
    <3> QED
      BY <3>3
  <2>8. All(flatten)
    <3> HIDE DEF All
    <3> QED
      BY <2>7
  <2> HIDE DEF flatten
  <2>9. \A i \in 1..n : flatten[i] = IF i = 1 THEN ws[i] ELSE flatten[i - 1] \o ws[i]
    BY <2>8
  <2>10. PICK f : f = [i \in 0..n |-> IF i = 0 THEN << >> ELSE flatten[i]]
    OBVIOUS
  <2>11. f[0] = << >> /\ f[n] = flatten[n] /\ \A i \in 1..n : f[i] = flatten[i]
    <3>1. 0 \in 0..n /\ n \in 0..n /\ n # 0 /\ \A i \in 1..n : i \in 0..n /\ i # 0
      BY <1>1, <1>3
    <3> HIDE DEF n
    <3> QED
      BY <2>10, <3>1
  <2>12. \A i \in 1..n : f[i] = f[i - 1] \o ws[i]
    <3> SUFFICES ASSUME NEW i \in 1..n PROVE f[i] = f[i - 1] \o ws[i]
      OBVIOUS
    <3>1. CASE i = 1
      <4>1. << >> \o ws[1] = ws[1]
        BY <1>1, <3>1, ConcatEmptySeq
      <4>2. f[i] = ws[i] /\ i - 1 = 0
        BY <2>9, <2>11, <3>1
      <4> QED
        BY <2>11, <3>1, <4>1, <4>2
    <3>2. CASE i # 1
      <4>1. i - 1 \in 1..n
        BY <1>1, <3>2
      <4> QED
        BY <2>9, <2>11, <3>2, <4>1
    <3> QED
      BY <3>1, <3>2
  <2> QED
    BY <2>1, <2>11, <2>12
<1> QED
  BY <1>2, <1>3

\* Replies, written one behind the other, are read one after the other.
LEMMA FramesFlat ==
  ASSUME NEW ws \in Seq(Seq(Nat)), NEW replies \in Seq(Item), Len(ws) = Len(replies),
         \A i \in 1..Len(ws) : Frames(ws[i], replies[i])
  PROVE  FramesItems(FlattenSeq(ws), replies)
<1> DEFINE n == Len(ws)
<1>1. n \in Nat /\ Len(replies) = n
  OBVIOUS
<1>2. PICK f : /\ f[0] = << >> /\ \A i \in 1..n : f[i] = f[i - 1] \o ws[i]
               /\ FlattenSeq(ws) = f[n]
  BY FlattenIs
<1>3. \A i \in 1..n : Frames(ws[i], replies[i])
  OBVIOUS
<1> HIDE DEF n
<1> DEFINE S == {k \in Nat : k <= n => FramesItems(f[k], SubSeq(replies, 1, k))}
<1>4. 0 \in S
  <2>1. SubSeq(replies, 1, 0) = << >>
    BY SubSeqEmpty
  <2> QED
    BY <1>2, <2>1, FramesNone
<1>5. ASSUME NEW k \in S
      PROVE  k + 1 \in S
  <2> SUFFICES ASSUME k + 1 <= n PROVE FramesItems(f[k + 1], SubSeq(replies, 1, k + 1))
    OBVIOUS
  <2>1. k \in Nat /\ k <= n /\ k + 1 \in 1..n /\ (k + 1) - 1 = k
    BY <1>1
  <2>2. FramesItems(f[k], SubSeq(replies, 1, k))
    BY <2>1
  <2>3. f[k + 1] = f[k] \o ws[k + 1] /\ Frames(ws[k + 1], replies[k + 1])
    BY <1>2, <1>3, <2>1
  <2>4. SubSeq(replies, 1, k + 1) = Append(SubSeq(replies, 1, k), replies[k + 1])
    <3> DEFINE u == SubSeq(replies, 1, k + 1)
               v == SubSeq(replies, 1, k)
               x == Append(v, replies[k + 1])
    <3>1. replies[k + 1] \in Item
      BY <1>1, <2>1
    <3>2. u \in Seq(Item) /\ Len(u) = k + 1 /\ \A i \in 1..(k + 1) : u[i] = replies[i]
      BY <1>1, <2>1
    <3>3. v \in Seq(Item) /\ Len(v) = k /\ \A i \in 1..k : v[i] = replies[i]
      BY <1>1, <2>1
    <3> HIDE DEF u, v
    <3>4. x \in Seq(Item) /\ Len(x) = k + 1 /\ x[k + 1] = replies[k + 1] /\ \A i \in 1..k : x[i] = v[i]
      <4>1. v \in Seq(Item)
        BY <3>3
      <4>2. /\ x \in Seq(Item) /\ Len(x) = Len(v) + 1 /\ x[Len(v) + 1] = replies[k + 1]
            /\ \A i \in 1..Len(v) : x[i] = v[i]
        BY <3>1, <4>1, AppendProperties
      <4> HIDE DEF x
      <4> QED
        BY <3>3, <4>2
    <3> HIDE DEF x
    <3>5. \A i \in 1..(k + 1) : u[i] = x[i]
      <4>1. \A i \in 1..(k + 1) : i \in 1..k \/ i = k + 1
        BY <2>1
      <4> QED
        BY <3>2, <3>3, <3>4, <4>1
    <3>6. u = x
      BY <3>2, <3>4, <3>5, SeqEqual
    <3> QED
      BY <3>6 DEF u, v, x
  <2> QED
    BY <2>2, <2>3, <2>4, FramesMore
<1>6. S = Nat
  <2> HIDE DEF S
  <2>1. S \subseteq Nat
    BY DEF S
  <2> QED
    BY <1>4, <1>5, <2>1, AllNumbers
<1>7. FramesItems(f[n], SubSeq(replies, 1, n))
  <2>1. n \in S /\ n <= n
    BY <1>1, <1>6
  <2> QED
    BY <2>1
<1>8. SubSeq(replies, 1, n) = replies
  BY <1>1, SubSeqFull
<1> QED
  BY <1>2, <1>7, <1>8

-----------------------------------------------------------------------------
(* Arrays.                                                                 *)

FramesReply(w, reply) ==
  /\ w \in Seq(Nat)
  /\ \A t \in Seq(Nat) : readReply(w \o t) = Read(reply, t)
  /\ \A n \in 0..(Len(w) - 1) : readReply(SubSeq(w, 1, n)) = Fault

\* A reply that is no array.
LEMMA SimpleReply ==
  ASSUME NEW w, NEW reply, Frames(w, reply)
  PROVE  FramesReply(w, reply)
<1>1. /\ w \in Seq(Nat) /\ w[1] # Star
      /\ \A t \in Seq(Nat) : readSimple(w \o t) = Read(reply, t) /\ (w \o t)[1] = w[1]
      /\ \A n \in 0..(Len(w) - 1) :
           readSimple(SubSeq(w, 1, n)) = Fault /\ (n > 0 => SubSeq(w, 1, n)[1] = w[1])
  BY DEF Frames
<1>2. \A t \in Seq(Nat) : readReply(w \o t) = Read(reply, t)
  BY <1>1 DEF readReply
<1>3. ASSUME NEW n \in 0..(Len(w) - 1)
      PROVE  readReply(SubSeq(w, 1, n)) = Fault
  <2>1. CASE n = 0
    <3>1. SubSeq(w, 1, n) = << >>
      BY <2>1, SubSeqEmpty
    <3>2. NoLineFeed(<< >>) /\ << >> \in Seq(Nat)
      BY DEF NoLineFeed
    <3>3. ~Announces(SubSeq(w, 1, n))
      BY <3>1, <3>2, NoEndOfLine
    <3> QED
      BY <3>3 DEF readReply, readSimple
  <2>2. CASE n > 0
    BY <1>1, <2>2 DEF readReply
  <2> QED
    BY <2>1, <2>2
<1> QED
  BY <1>1, <1>2, <1>3 DEF FramesReply

\* An array is read as a whole, or is a fault.
LEMMA ArrayReply ==
  ASSUME NEW w, NEW replies, FramesItems(w, replies)
  PROVE  FramesReply(writeLen(Star, Len(replies)) \o w, Listing(replies))
<1> DEFINE k == Len(replies)
           l == Line(Star, Digits[k])
           v == l \o w
<1>1. /\ w \in Seq(Nat) /\ replies \in Seq(Item) /\ k \in Nat
      /\ \A t \in Seq(Nat) : ReadItems(k, w \o t) = Read(Listing(replies), t)
      /\ \A n \in 0..(Len(w) - 1) : ReadItems(k, SubSeq(w, 1, n)) = Fault
  BY DEF FramesItems
<1> HIDE DEF k
<1>2. /\ Digits[k] \in Seq(Nat) /\ NoLineFeed(Digits[k])
      /\ LenText(Digits[k]) /\ parseInt(Digits[k]) = k
  BY <1>1, DigitsText
<1>3. Star \in Nat \ {LF}
  BY DEF Star, LF
<1>4. /\ l \in Seq(Nat) /\ Len(l) = Len(Digits[k]) + 3 /\ Len(l) \in Nat
      /\ Len(Digits[k]) \in Nat
  BY <1>2, <1>3 DEF Line, CR, LF
<1>5. writeLen(Star, k) = l
  BY DEF writeLen, Line
<1>6. ASSUME NEW t \in Seq(Nat)
      PROVE  readReply(l \o t) = ReadItems(k, t)
  <2>1. /\ Announces(l \o t) /\ (l \o t)[1] = Star
        /\ Tail(readLine(l \o t)) = Digits[k] /\ AfterLine(l \o t) = t
    BY <1>2, <1>3, LineRead
  <2>2. readReply(l \o t) = readArray(Digits[k], t)
    BY <2>1 DEF readReply
  <2> QED
    BY <1>1, <1>2, <2>2 DEF readArray
<1>7. ASSUME NEW n \in 0..(Len(l) - 1)
      PROVE  readReply(SubSeq(l, 1, n)) = Fault
  <2>1. n \in 0..(Len(Digits[k]) + 2)
    BY <1>4
  <2>2. ~Announces(SubSeq(l, 1, n))
    BY <1>2, <1>3, <2>1, LineCut
  <2> QED
    BY <2>2 DEF readReply, readSimple
<1> HIDE DEF l
<1>8. v \in Seq(Nat) /\ Len(v) = Len(l) + Len(w) /\ Len(w) \in Nat
  BY <1>1, <1>4, Behind
<1>9. ASSUME NEW t \in Seq(Nat)
      PROVE  readReply(v \o t) = Read(Listing(replies), t)
  <2>1. l \in Seq(Nat) /\ w \in Seq(Nat)
    BY <1>1, <1>4
  <2>2. v \o t = l \o (w \o t)
    BY <2>1, Regrouped
  <2>3. w \o t \in Seq(Nat)
    BY <2>1, Behind
  <2> QED
    BY <1>1, <1>6, <2>2, <2>3
<1>10. ASSUME NEW n \in 0..(Len(v) - 1)
       PROVE  readReply(SubSeq(v, 1, n)) = Fault
  <2>1. CASE n < Len(l)
    <3>1. n \in 0..Len(l) /\ n \in 0..(Len(l) - 1)
      BY <1>4, <2>1
    <3>2. SubSeq(v, 1, n) = SubSeq(l, 1, n)
      BY <1>1, <1>4, <3>1, CutInFirst
    <3> QED
      BY <1>7, <3>1, <3>2
  <2>2. CASE n >= Len(l)
    <3>1. n \in Len(l)..(Len(l) + Len(w)) /\ n - Len(l) \in 0..(Len(w) - 1)
      <4>1. Len(v) = Len(l) + Len(w) /\ Len(l) \in Nat /\ Len(w) \in Nat
        BY <1>4, <1>8
      <4> HIDE DEF v
      <4> QED
        BY <2>2, <4>1
    <3>2. PICK m \in 0..(Len(w) - 1) : m = n - Len(l)
      BY <3>1
    <3>3. SubSeq(v, 1, n) = l \o SubSeq(w, 1, m) /\ SubSeq(w, 1, m) \in Seq(Nat)
      BY <1>1, <1>4, <3>1, <3>2, CutInSecond
    <3> QED
      BY <1>1, <1>6, <3>3
  <2> QED
    BY <1>4, <2>1, <2>2
<1> QED
  BY <1>5, <1>8, <1>9, <1>10 DEF FramesReply, k

-----------------------------------------------------------------------------
(* Do.                                                                     *)

NoErrors(replies) == \A i \in 1..Len(replies) : replies[i].type # "error"

\* An answer behind those to what was sent before.
LEMMA DoTakes ==
  ASSUME NEW q, NEW sent, NEW w, NEW reply, FramesItems(q, sent), NoErrors(sent),
         FramesReply(w, reply)
  PROVE  /\ Do(Len(sent), q \o w) = IF reply.type = "error" THEN Fault ELSE Read(reply, << >>)
         /\ \A n \in 0..(Len(q \o w) - 1) : Do(Len(sent), SubSeq(q \o w, 1, n)) = Fault
<1> DEFINE k == Len(sent)
<1>1. /\ q \in Seq(Nat) /\ w \in Seq(Nat) /\ sent \in Seq(Item) /\ k \in Nat
      /\ \A t \in Seq(Nat) : ReadItems(k, q \o t) = Read(Listing(sent), t)
      /\ \A n \in 0..(Len(q) - 1) : ReadItems(k, SubSeq(q, 1, n)) = Fault
      /\ \A t \in Seq(Nat) : readReply(w \o t) = Read(reply, t)
      /\ \A n \in 0..(Len(w) - 1) : readReply(SubSeq(w, 1, n)) = Fault
  BY DEF FramesItems, FramesReply
<1> HIDE DEF k
<1>2. /\ Len(q \o w) = Len(q) + Len(w) /\ Len(q) \in Nat /\ Len(w) \in Nat
      /\ w \o << >> = w /\ << >> \in Seq(Nat)
  BY <1>1, Behind, ConcatEmptySeq
<1>3. ASSUME NEW t \in Seq(Nat)
      PROVE  Do(k, q \o t) = Outcome(Read(Listing(sent), t), readReply(t))
  <2>1. ReadItems(k, q \o t) = Read(Listing(sent), t)
    BY <1>1
  <2>2. Read(Listing(sent), t).rest = t
    BY DEF Read
  <2> QED
    BY <2>1, <2>2 DEF Do
<1>4. Do(k, q \o w) = IF reply.type = "error" THEN Fault ELSE Read(reply, << >>)
  <2>1. readReply(w) = Read(reply, << >>)
    BY <1>1, <1>2
  <2>2. Do(k, q \o w) = Outcome(Read(Listing(sent), w), Read(reply, << >>))
    BY <1>1, <1>3, <2>1
  <2>3. /\ Read(Listing(sent), w).ok = TRUE /\ Read(Listing(sent), w).reply.items = sent
        /\ Read(reply, << >>).ok = TRUE /\ Read(reply, << >>).reply = reply
    BY <1>1, ListingIs DEF Read
  <2>4. (\E r \in Range(sent) \cup {reply} : r.type = "error") <=> reply.type = "error"
    <3>1. \A r \in Range(sent) : r.type # "error"
      BY <1>1 DEF Range, NoErrors
    <3> QED
      BY <3>1
  <2> QED
    BY <2>2, <2>3, <2>4 DEF Outcome
<1>5. ASSUME NEW n \in 0..(Len(q \o w) - 1)
      PROVE  Do(k, SubSeq(q \o w, 1, n)) = Fault
  <2>1. CASE n < Len(q)
    <3>1. n \in 0..Len(q) /\ n \in 0..(Len(q) - 1)
      BY <1>2, <2>1
    <3>2. SubSeq(q \o w, 1, n) = SubSeq(q, 1, n)
      BY <1>1, <3>1, CutInFirst
    <3>3. ReadItems(k, SubSeq(q \o w, 1, n)) = Fault
      BY <1>1, <3>1, <3>2
    <3> QED
      BY <3>3, FaultIs DEF Do, Outcome
  <2>2. CASE n >= Len(q)
    <3>1. n \in Len(q)..(Len(q) + Len(w)) /\ n - Len(q) \in 0..(Len(w) - 1)
      BY <1>2, <2>2
    <3>2. PICK m \in 0..(Len(w) - 1) : m = n - Len(q)
      BY <3>1
    <3>3. SubSeq(q \o w, 1, n) = q \o SubSeq(w, 1, m) /\ SubSeq(w, 1, m) \in Seq(Nat)
      BY <1>1, <3>1, <3>2, CutInSecond
    <3>4. Do(k, SubSeq(q \o w, 1, n)) = Outcome(Read(Listing(sent), SubSeq(w, 1, m)), Fault)
      BY <1>1, <1>3, <3>3
    <3> QED
      BY <3>4, FaultIs DEF Outcome
  <2> QED
    BY <1>2, <2>1, <2>2
<1> QED
  BY <1>4, <1>5 DEF k

-----------------------------------------------------------------------------
(* What writeCommand writes and Answer answers.                            *)

\* A command arrives with its arguments, whatever they hold.
LEMMA CommandArrives ==
  ASSUME NEW args \in Seq(Seq(Nat))
  PROVE  \A i \in 1..Len(args) : Command(writeCommand(args))[i] = args[i]
<1> DEFINE n == Len(args)
           ws == [i \in 1..n |-> writeBytes(args[i])]
           replies == [i \in 1..n |-> Bulk(args[i])]
<1>1. n \in Nat /\ \A i \in 1..n : args[i] \in Seq(Nat)
  OBVIOUS
<1>2. \A i \in 1..n : Frames(writeBytes(args[i]), Bulk(args[i])) /\ Bulk(args[i]).bytes = args[i]
  BY <1>1, BulkFrames, RepliesAre DEF Bulk
<1>3. \A i \in 1..n : writeBytes(args[i]) \in Seq(Nat) /\ Bulk(args[i]) \in Item
  BY <1>2 DEF Frames
<1>4. writeCommand(args) = writeLen(Star, n) \o FlattenSeq(ws)
  BY DEF writeCommand
<1> HIDE DEF n
<1>5. /\ ws \in Seq(Seq(Nat)) /\ replies \in Seq(Item) /\ Len(ws) = n /\ Len(replies) = n
      /\ \A i \in 1..n : ws[i] = writeBytes(args[i]) /\ replies[i] = Bulk(args[i])
  BY <1>1, <1>3
<1> HIDE DEF ws, replies
<1>6. FramesItems(FlattenSeq(ws), replies)
  BY <1>2, <1>5, FramesFlat
<1>7. FramesReply(writeCommand(args), Listing(replies))
  BY <1>4, <1>5, <1>6, ArrayReply
<1>8. readReply(writeCommand(args)) = Read(Listing(replies), << >>)
  <2>1. << >> \in Seq(Nat) /\ writeCommand(args) \in Seq(Nat)
    BY <1>7 DEF FramesReply
  <2>2. writeCommand(args) \o << >> = writeCommand(args)
    BY <2>1, ConcatEmptySeq
  <2>3. readReply(writeCommand(args) \o << >>) = Read(Listing(replies), << >>)
    BY <1>7, <2>1 DEF FramesReply
  <2> QED
    BY <2>2, <2>3
<1>9. readReply(writeCommand(args)).reply.items = replies
  <2>1. << >> \in Seq(Nat) /\ replies \in Seq(Item)
    BY <1>5
  <2>2. /\ Read(Listing(replies), << >>).reply = Listing(replies)
        /\ Listing(replies).items = replies
    BY <2>1, ListingIs
  <2> QED
    BY <1>8, <2>2
<1>10. Command(writeCommand(args)) = [i \in 1..n |-> replies[i].bytes]
  BY <1>5, <1>9 DEF Command
<1> QED
  BY <1>2, <1>5, <1>10 DEF n

LEMMA StatusAnswer ==
  ASSUME NEW p \in Seq(Nat)
  PROVE  Answer(Status(p)) = Line(Plus, p)
<1>1. Status(p).type = "status" /\ Status(p).bytes = p
  BY RepliesAre DEF Status
<1> QED
  BY <1>1 DEF Answer, Line

LEMMA ErrorAnswer ==
  ASSUME NEW p \in Seq(Nat)
  PROVE  Answer(Error(p)) = Line(Minus, p)
<1>1. Error(p).type = "error" /\ Error(p).bytes = p
  BY RepliesAre DEF Error
<1> QED
  BY <1>1 DEF Answer, Line

\* What the array in an answer may hold.
Plain(item) ==
  \/ \E p \in Seq(Nat) : item = Bulk(p)
  \/ \E n \in Int : item = Int64(n)

\* Redis' arrays are read for what they are.
LEMMA ArrayAnswer ==
  ASSUME NEW items \in Seq(Item), \A i \in 1..Len(items) : Plain(items[i])
  PROVE  FramesReply(Answer(Listing(items)), Listing(items))
<1> DEFINE n == Len(items)
           written(i) == IF items[i].type = "int" THEN <<Colon>> \o Decimal(items[i].int) \o <<CR, LF>>
                         ELSE writeBytes(items[i].bytes)
           ws == [i \in 1..n |-> written(i)]
<1>1. n \in Nat
  OBVIOUS
<1>2. ASSUME NEW i \in 1..n
      PROVE  Frames(written(i), items[i])
  <2>1. CASE \E p \in Seq(Nat) : items[i] = Bulk(p)
    <3>1. PICK p \in Seq(Nat) : items[i] = Bulk(p)
      BY <2>1
    <3>2. items[i].type = "bulk" /\ items[i].bytes = p
      BY <3>1, RepliesAre DEF Bulk
    <3>3. written(i) = writeBytes(p)
      BY <3>2
    <3> QED
      BY <3>1, <3>3, BulkFrames
  <2>2. CASE \E m \in Int : items[i] = Int64(m)
    <3>1. PICK m \in Int : items[i] = Int64(m)
      BY <2>2
    <3>2. items[i].type = "int" /\ items[i].int = m
      BY <3>1, RepliesAre DEF Int64
    <3>3. written(i) = Line(Colon, Decimal(m))
      BY <3>2 DEF Line
    <3> QED
      BY <3>1, <3>3, IntFrames
  <2> QED
    BY <2>1, <2>2 DEF Plain
<1>3. Answer(Listing(items)) = writeLen(Star, n) \o FlattenSeq(ws)
  <2>1. Listing(items).type = "array" /\ Listing(items).items = items
    BY ListingIs, EmptySeq
  <2> QED
    BY <2>1 DEF Answer
<1> HIDE DEF written, n
<1>4. \A i \in 1..n : written(i) \in Seq(Nat)
  BY <1>2 DEF Frames
<1>5. ws \in Seq(Seq(Nat)) /\ Len(ws) = n /\ \A i \in 1..n : ws[i] = written(i)
  BY <1>1, <1>4
<1> HIDE DEF ws
<1>6. FramesItems(FlattenSeq(ws), items)
  BY <1>2, <1>5, FramesFlat DEF n
<1> QED
  BY <1>3, <1>6, ArrayReply DEF n

\* All of an answer.
LEMMA WholeReply ==
  ASSUME NEW w, NEW reply, FramesReply(w, reply)
  PROVE  readReply(w) = Read(reply, << >>)
<1>1. << >> \in Seq(Nat) /\ w \in Seq(Nat)
  BY DEF FramesReply
<1>2. w \o << >> = w
  BY <1>1, ConcatEmptySeq
<1>3. readReply(w \o << >>) = Read(reply, << >>)
  BY <1>1 DEF FramesReply
<1> QED
  BY <1>2, <1>3

-----------------------------------------------------------------------------
(* The transaction of fetch.                                               *)

\* The stream's bytes and the key's are bytes on the wire.
LEMMA BytesAre ==
  /\ Name \in Seq(Nat) /\ NoLineFeed(Name)
  /\ Key \in Seq(Nat) /\ \A s \in Seq(Byte) : s \in Seq(Nat)
<1>1. Byte \subseteq Nat /\ 0..255 \subseteq Nat /\ Key \in Seq(0..255)
  BY ResumeAssumption
<1>2. Name \in Seq(Nat) /\ NoLineFeed(Name)
  BY DEF Name, NoLineFeed, LF
<1> QED
  BY <1>1, <1>2, SeqMonotonic

\* Redis is asked for the range that fetch means.
LEMMA RangeArrives ==
  ASSUME resp.off \in Int, LastAsked \in Int
  PROVE  LET range == Command(Transaction[2])
         IN  parseInt(range[3]) = resp.off /\ parseInt(range[4]) = LastAsked
<1> DEFINE args == <<Name, id(Key), Decimal(resp.off), Decimal(LastAsked)>>
<1>1. /\ Name \in Seq(Nat) /\ id(Key) \in Seq(Nat)
      /\ Decimal(resp.off) \in Seq(Nat) /\ Decimal(LastAsked) \in Seq(Nat)
  BY BytesAre, DecimalText DEF id, Colon
<1>2. args \in Seq(Seq(Nat)) /\ Len(args) = 4 /\ args[3] = Decimal(resp.off) /\ args[4] = Decimal(LastAsked)
  BY <1>1
<1>3. Transaction[2] = writeCommand(args)
  BY DEF Transaction
<1> HIDE DEF args
<1>4. Command(writeCommand(args))[3] = args[3] /\ Command(writeCommand(args))[4] = args[4]
  <2>1. 3 \in 1..Len(args) /\ 4 \in 1..Len(args)
    BY <1>2
  <2> QED
    BY <1>2, <2>1, CommandArrives
<1> QED
  BY <1>2, <1>3, <1>4, DecimalText

\* The answers before that to EXEC.
LEMMA QueuedFrames ==
  \E sent \in Seq(Item) : Len(sent) = 5 /\ NoErrors(sent) /\ FramesItems(Queued, sent)
<1> DEFINE ws == [i \in 1..5 |-> Line(Plus, Name)]
           sent == [i \in 1..5 |-> Status(Name)]
<1>1. Frames(Line(Plus, Name), Status(Name)) /\ Status(Name).type = "status"
  BY BytesAre, StatusFrames, RepliesAre DEF Status
<1>2. Line(Plus, Name) \in Seq(Nat) /\ Status(Name) \in Item
  BY <1>1 DEF Frames
<1>3. /\ ws \in Seq(Seq(Nat)) /\ sent \in Seq(Item) /\ Len(ws) = 5 /\ Len(sent) = 5
      /\ \A i \in 1..5 : ws[i] = Line(Plus, Name) /\ sent[i] = Status(Name)
  BY <1>2
<1>4. Queued = FlattenSeq(ws)
  <2>1. Answer([NoReply EXCEPT !.type = "status", !.bytes = Name]) = Line(Plus, Name)
    BY BytesAre, StatusAnswer DEF Status
  <2> QED
    BY <2>1 DEF Queued
<1> HIDE DEF ws, sent
<1>5. FramesItems(FlattenSeq(ws), sent)
  BY <1>1, <1>3, FramesFlat
<1>6. NoErrors(sent)
  BY <1>1, <1>3 DEF NoErrors
<1> QED
  BY <1>3, <1>4, <1>5, <1>6

\* What Redis found is what fetch decodes; it takes nothing from an answer
\* that is cut off, nor from a transaction that was aborted.
LEMMA FetchDecodes ==
  ASSUME NEW found \in Found
  PROVE  LET wire == Answers(found)
         IN  /\ Decodes(Exec(wire)) /\ Decoded(Exec(wire).reply.items) = found
             /\ \A n \in 0..(Len(wire) - 1) : ~Decodes(Exec(SubSeq(wire, 1, n)))
             /\ ~Decodes(Exec(Queued \o Aborted))
<1> DEFINE items == <<Bulk(found.data), Int64(found.size), Int64(IF found.done THEN 1 ELSE 0), Int64(1)>>
           answer == Answer(Listing(items))
<1>1. /\ found = [data |-> found.data, size |-> found.size, done |-> found.done]
      /\ found.data \in Seq(Nat) /\ found.size \in Int /\ found.done \in BOOLEAN
  <2>1. found.data \in Seq(Byte) /\ found.size \in 0..MaxLen /\ found.done \in BOOLEAN
    BY DEF Found
  <2>2. found = [data |-> found.data, size |-> found.size, done |-> found.done]
    BY DEF Found
  <2>3. found.size \in Int
    BY <2>1, ResumeAssumption
  <2> QED
    BY <2>1, <2>2, <2>3, BytesAre
<1>2. /\ Bulk(found.data) \in Item /\ Int64(found.size) \in Item /\ Int64(1) \in Item
      /\ Int64(IF found.done THEN 1 ELSE 0) \in Item
  BY <1>1, ItemsAre
<1>3. items \in Seq(Item) /\ Len(items) = 4
  BY <1>2
<1>4. \A i \in 1..Len(items) : Plain(items[i])
  <2>1. /\ Plain(Bulk(found.data)) /\ Plain(Int64(found.size)) /\ Plain(Int64(1))
        /\ Plain(Int64(IF found.done THEN 1 ELSE 0))
    BY <1>1 DEF Plain
  <2>2. \A i \in 1..Len(items) : i \in {1, 2, 3, 4}
    BY <1>3
  <2> QED
    BY <2>1, <2>2
<1>5. Answers(found) = Queued \o answer
  BY Zenon DEF Answers, Listing, Bulk, Int64
<1>6. /\ items[1] = Bulk(found.data) /\ items[2] = Int64(found.size)
      /\ items[3] = Int64(IF found.done THEN 1 ELSE 0)
  OBVIOUS
<1> HIDE DEF items
<1>7. FramesReply(answer, Listing(items))
  BY <1>3, <1>4, ArrayAnswer
<1> HIDE DEF answer
<1>8. PICK sent \in Seq(Item) : Len(sent) = 5 /\ NoErrors(sent) /\ FramesItems(Queued, sent)
  BY QueuedFrames
<1>9. Listing(items).type = "array" /\ Listing(items).items = items
  BY <1>3, ListingIs, EmptySeq
<1>10. /\ Do(Len(sent), Queued \o answer) = Read(Listing(items), << >>)
       /\ \A n \in 0..(Len(Queued \o answer) - 1) : Do(Len(sent), SubSeq(Queued \o answer, 1, n)) = Fault
  <2>1. /\ Do(Len(sent), Queued \o answer)
             = IF Listing(items).type = "error" THEN Fault ELSE Read(Listing(items), << >>)
        /\ \A n \in 0..(Len(Queued \o answer) - 1) : Do(Len(sent), SubSeq(Queued \o answer, 1, n)) = Fault
    BY <1>7, <1>8, DoTakes
  <2> QED
    BY <1>9, <2>1
<1>11. Exec(Queued \o answer) = Read(Listing(items), << >>)
  BY <1>8, <1>10 DEF Exec
<1>12. Exec(Queued \o answer).ok /\ Exec(Queued \o answer).reply = Listing(items)
  BY <1>11 DEF Read
<1>13. /\ items[1].type = "bulk" /\ items[1].bytes = found.data
       /\ items[2].type = "int" /\ items[2].int = found.size
       /\ items[3].type = "int" /\ items[3].int = (IF found.done THEN 1 ELSE 0)
  BY <1>6, RepliesAre DEF Bulk, Int64
<1>14. Decodes(Exec(Queued \o answer))
  BY <1>9, <1>12, <1>13 DEF Decodes, IsValues, IsBytes, IsInt64, IsBool
<1>15. Decoded(items) = found
  <2>1. Int64Of(items[2]) = found.size
    BY <1>13 DEF Int64Of
  <2>2. BoolOf(items[3]) = found.done
    BY <1>1, <1>13 DEF BoolOf
  <2> QED
    BY <1>1, <1>13, <2>1, <2>2 DEF Decoded
<1>16. ~Decodes(Fault)
  BY FaultIs DEF Decodes, IsValues
<1>17. ASSUME NEW n \in 0..(Len(Queued \o answer) - 1)
       PROVE  ~Decodes(Exec(SubSeq(Queued \o answer, 1, n)))
  BY <1>8, <1>10, <1>16 DEF Exec
<1>18. ~Decodes(Exec(Queued \o Aborted))
  <2>1. Aborted = Line(Minus, Name) /\ Error(Name).type = "error"
    BY BytesAre, ErrorAnswer, RepliesAre DEF Aborted, Error
  <2>2. FramesReply(Aborted, Error(Name))
    BY <2>1, BytesAre, ErrorFrames, SimpleReply
  <2>3. Do(Len(sent), Queued \o Aborted)
          = IF Error(Name).type = "error" THEN Fault ELSE Read(Error(Name), << >>)
    BY <1>8, <2>2, DoTakes
  <2>4. Exec(Queued \o Aborted) = Fault
    BY <1>8, <2>1, <2>3 DEF Exec
  <2> QED
    BY <1>16, <2>4
<1> QED
  BY <1>5, <1>9, <1>12, <1>14, <1>15, <1>17, <1>18

-----------------------------------------------------------------------------
(* Notices.                                                                *)

\* The words of notices differ.
LEMMA WordsAre ==
  /\ Word.message = <<109>> /\ Word.pmessage = <<112, 109>> /\ Word.psubscribe = <<112, 115>>
  /\ Word["psubscribe"] \in {Word[kind] : kind \in DOMAIN Word \ {"message", "pmessage"}}
  /\ \A kind \in DOMAIN Word \ {"message", "pmessage"} : Word[kind] # Word.pmessage
  /\ Word.pmessage # Word.message /\ Word.psubscribe # Word.message /\ Word.psubscribe # Word.pmessage
<1>1. /\ Word.message = <<109>> /\ Word.pmessage = <<112, 109>>
      /\ Word.subscribe = <<115>> /\ Word.psubscribe = <<112, 115>>
      /\ Word.unsubscribe = <<117>> /\ Word.punsubscribe = <<112, 117>>
      /\ DOMAIN Word = {"message", "pmessage", "subscribe", "psubscribe", "unsubscribe", "punsubscribe"}
  BY DEF Word
<1>2. /\ <<112, 109>> # <<109>> /\ <<112, 115>> # <<109>> /\ <<112, 115>> # <<112, 109>>
      /\ <<115>> # <<112, 109>> /\ <<117>> # <<112, 109>> /\ <<112, 117>> # <<112, 109>>
  OBVIOUS
<1>3. "psubscribe" \in DOMAIN Word \ {"message", "pmessage"}
  BY <1>1
<1> QED
  BY <1>1, <1>2, <1>3

\* What begins with a word is told by the word.
LEMMA BeginsWith ==
  ASSUME NEW word \in Seq(Nat), NEW rest \in Seq(Item)
  PROVE  OfResult(Read(Listing(<<Bulk(word)>> \o rest), << >>)) = OfKind(word, rest)
<1> DEFINE items == <<Bulk(word)>> \o rest
           result == Read(Listing(items), << >>)
           types == <<"string">>
<1>1. Bulk(word) \in Item /\ Bulk(word).type = "bulk" /\ Bulk(word).bytes = word
  <2>1. Bulk(word) \in Item
    BY ItemsAre
  <2>2. Bulk(word).type = "bulk" /\ Bulk(word).bytes = word
    BY RepliesAre DEF Bulk
  <2> QED
    BY <2>1, <2>2
<1>2. /\ items \in Seq(Item) /\ Len(items) = 1 + Len(rest) /\ Len(rest) \in Nat
      /\ items[1] = Bulk(word) /\ Tail(items) = rest
  BY <1>1
<1> HIDE DEF items
<1>3. IsValues(result) /\ result.reply.items = items
  <2>1. << >> \in Seq(Nat) /\ items \in Seq(Item)
    BY <1>2
  <2>2. /\ result.ok = TRUE /\ result.reply = Listing(items)
        /\ Listing(items).type = "array" /\ Listing(items).items = items
    BY <2>1, ListingIs
  <2> HIDE DEF result
  <2> QED
    BY <2>2 DEF IsValues
<1> HIDE DEF result
<1>4. Len(types) = 1 /\ types[1] = "string"
  OBVIOUS
<1>5. Convertible("string", Bulk(word)) /\ Converted("string", Bulk(word)) = word
  BY <1>1 DEF Convertible, Converted
<1>6. Scannable(items, types)
  BY <1>2, <1>4, <1>5 DEF Scannable
<1>7. Scan(items, types)[1] = word
  BY <1>2, <1>4, <1>5 DEF Scan
<1> QED
  BY <1>2, <1>3, <1>6, <1>7 DEF OfResult, result, items

\* A message is taken for one, on its channel.
LEMMA MessageTaken ==
  ASSUME NEW pattern \in Seq(Nat), NEW channel \in Seq(Nat)
  PROVE  LET wire == Pushed(OnChannel(pattern, channel))
         IN  /\ PubSubReceive(wire) = Told("pmessage", channel)
             /\ \A n \in 0..(Len(wire) - 1) : PubSubReceive(SubSeq(wire, 1, n)) = Failure
<1> DEFINE rest == <<Bulk(pattern), Bulk(channel), Bulk(Digits[1])>>
           items == <<Bulk(Word.pmessage), Bulk(pattern), Bulk(channel), Bulk(Digits[1])>>
           wire == Answer(Listing(items))
<1>1. /\ Word.pmessage \in Seq(Nat) /\ Digits[1] \in Seq(Nat)
  BY WordsAre, DigitsText
<1>2. /\ Bulk(Word.pmessage) \in Item /\ Bulk(pattern) \in Item /\ Bulk(channel) \in Item
      /\ Bulk(Digits[1]) \in Item
  BY <1>1, ItemsAre
<1>3. /\ items \in Seq(Item) /\ rest \in Seq(Item) /\ Len(items) = 4 /\ Len(rest) = 3
      /\ items = <<Bulk(Word.pmessage)>> \o rest
  BY <1>2
<1>4. \A i \in 1..Len(items) : Plain(items[i])
  <2>1. /\ Plain(Bulk(Word.pmessage)) /\ Plain(Bulk(pattern)) /\ Plain(Bulk(channel))
        /\ Plain(Bulk(Digits[1]))
    BY <1>1 DEF Plain
  <2>2. \A i \in 1..Len(items) : i \in {1, 2, 3, 4}
    BY <1>3
  <2> QED
    BY <2>1, <2>2
<1>5. Pushed(OnChannel(pattern, channel)) = wire
  <2>1. /\ OnChannel(pattern, channel).kind = "pmessage"
        /\ OnChannel(pattern, channel).pattern = pattern /\ OnChannel(pattern, channel).channel = channel
    BY DEF OnChannel
  <2> QED
    BY <2>1 DEF Pushed, Listing, Bulk
<1>6. rest[1] = Bulk(pattern) /\ rest[2] = Bulk(channel) /\ rest[3] = Bulk(Digits[1])
  OBVIOUS
<1> HIDE DEF items, rest
<1>7. FramesReply(wire, Listing(items))
  BY <1>3, <1>4, ArrayAnswer
<1>8. PubSubReceive(wire) = OfKind(Word.pmessage, rest)
  BY <1>1, <1>3, <1>7, WholeReply, BeginsWith DEF PubSubReceive
<1>9. /\ Len(PMessageTypes) = 3 /\ PMessageTypes[1] = "string" /\ PMessageTypes[2] = "string"
      /\ PMessageTypes[3] = "bytes"
  BY DEF PMessageTypes
<1>10. \A p \in Seq(Nat) : /\ Convertible("string", Bulk(p)) /\ Convertible("bytes", Bulk(p))
                           /\ Converted("string", Bulk(p)) = p
  BY RepliesAre DEF Bulk, Convertible, Converted
<1>11. Scannable(rest, PMessageTypes)
  <2>1. \A i \in 1..3 : i \in {1, 2, 3}
    OBVIOUS
  <2> QED
    BY <1>1, <1>3, <1>6, <1>9, <1>10, <2>1 DEF Scannable
<1>12. Scan(rest, PMessageTypes)[2] = channel
  BY <1>6, <1>9, <1>10 DEF Scan
<1>13. OfKind(Word.pmessage, rest) = Told("pmessage", channel)
  BY <1>11, <1>12, WordsAre DEF OfKind
<1> HIDE DEF wire
<1>14. ASSUME NEW n \in 0..(Len(wire) - 1)
       PROVE  PubSubReceive(SubSeq(wire, 1, n)) = Failure
  <2>1. readReply(SubSeq(wire, 1, n)) = Fault
    BY <1>7 DEF FramesReply
  <2> QED
    BY <2>1, FaultIs DEF PubSubReceive, OfResult, IsValues
<1> QED
  BY <1>5, <1>8, <1>13, <1>14

\* The confirmation of a subscription is taken for one.
LEMMA ConfirmationTaken ==
  ASSUME NEW pattern \in Seq(Nat)
  PROVE  LET wire == Pushed(Confirmed(pattern))
         IN  /\ PubSubReceive(wire) = Told("subscription", pattern)
             /\ \A n \in 0..(Len(wire) - 1) : PubSubReceive(SubSeq(wire, 1, n)) = Failure
<1> DEFINE rest == <<Bulk(pattern), Int64(1)>>
           items == <<Bulk(Word["psubscribe"]), Bulk(pattern), Int64(1)>>
           wire == Answer(Listing(items))
<1>1. Word["psubscribe"] \in Seq(Nat)
  <2>1. Word["psubscribe"] = <<112, 115>>
    BY WordsAre
  <2> QED
    BY <2>1
<1>2. Bulk(Word["psubscribe"]) \in Item /\ Bulk(pattern) \in Item /\ Int64(1) \in Item
  BY <1>1, ItemsAre
<1>3. /\ items \in Seq(Item) /\ rest \in Seq(Item) /\ Len(items) = 3 /\ Len(rest) = 2
      /\ items = <<Bulk(Word["psubscribe"])>> \o rest
  BY <1>2
<1>4. \A i \in 1..Len(items) : Plain(items[i])
  <2>1. Plain(Bulk(Word["psubscribe"])) /\ Plain(Bulk(pattern)) /\ Plain(Int64(1))
    BY <1>1 DEF Plain
  <2>2. \A i \in 1..Len(items) : i \in {1, 2, 3}
    BY <1>3
  <2> QED
    BY <2>1, <2>2
<1>5. Pushed(Confirmed(pattern)) = wire
  <2>1. Confirmed(pattern).kind = "psubscribe" /\ Confirmed(pattern).pattern = pattern
    BY DEF Confirmed
  <2> QED
    BY <2>1 DEF Pushed, Listing, Bulk, Int64
<1>6. rest[1] = Bulk(pattern) /\ rest[2] = Int64(1)
  OBVIOUS
<1> HIDE DEF items, rest
<1>7. FramesReply(wire, Listing(items))
  BY <1>3, <1>4, ArrayAnswer
<1>8. PubSubReceive(wire) = OfKind(Word["psubscribe"], rest)
  BY <1>1, <1>3, <1>7, WholeReply, BeginsWith DEF PubSubReceive
<1>9. Len(SubscriptionTypes) = 2 /\ SubscriptionTypes[1] = "string" /\ SubscriptionTypes[2] = "int"
  BY DEF SubscriptionTypes
<1>10. /\ Convertible("string", Bulk(pattern)) /\ Converted("string", Bulk(pattern)) = pattern
       /\ Convertible("int", Int64(1))
  BY RepliesAre DEF Bulk, Int64, Convertible, Converted
<1>11. Scannable(rest, SubscriptionTypes)
  <2>1. \A i \in 1..2 : i \in {1, 2}
    OBVIOUS
  <2> QED
    BY <1>3, <1>6, <1>9, <1>10, <2>1 DEF Scannable
<1>12. Scan(rest, SubscriptionTypes)[1] = pattern
  BY <1>6, <1>9, <1>10 DEF Scan
<1>13. OfKind(Word["psubscribe"], rest) = Told("subscription", pattern)
  BY <1>11, <1>12, WordsAre DEF OfKind
<1> HIDE DEF wire
<1>14. ASSUME NEW n \in 0..(Len(wire) - 1)
       PROVE  PubSubReceive(SubSeq(wire, 1, n)) = Failure
  <2>1. readReply(SubSeq(wire, 1, n)) = Fault
    BY <1>7 DEF FramesReply
  <2> QED
    BY <2>1, FaultIs DEF PubSubReceive, OfResult, IsValues
<1> QED
  BY <1>5, <1>8, <1>13, <1>14

\* No stream's channel is another one's kill.
LEMMA NamesDiffer ==
  ASSUME NEW k \in Seq(Nat), NEW m \in Seq(Nat)
  PROVE  id(k) # killId(m) /\ id(k) \in Seq(Nat) /\ killId(k) \in Seq(Nat) /\ wildcardId(k) \in Seq(Nat)
<1>1. /\ id(k) \in Seq(Nat) /\ Len(id(k)) = Len(k) + 2 /\ id(k)[Len(k) + 2] = 105
      /\ killId(k) \in Seq(Nat) /\ wildcardId(k) \in Seq(Nat)
  BY DEF id, killId, wildcardId, Colon, Star
<1>2. Len(killId(m)) = Len(m) + 2 /\ killId(m)[Len(m) + 2] = 107
  BY DEF killId, Colon
<1> QED
  BY <1>1, <1>2

\* A notice is taken for what it is, and only this stream's kill ends the
\* reader.
LEMMA NoticeTaken ==
  ASSUME notice \in Notice, notice # NotTold
  PROVE  LET wire == Pushed(notice)
         IN  /\ PubSubReceive(wire) = Meaning(notice)
             /\ Reacts = "fetch" <=> notice = DataNotice
             /\ Reacts = "end" <=> notice = KillNotice
             /\ \A n \in 0..(Len(wire) - 1) : PubSubReceive(SubSeq(wire, 1, n)) = Failure
<1>1. Key \in Seq(Nat) /\ \A k \in {Key} \cup Others : k \in Seq(Nat)
  <2>1. 0..255 \subseteq Nat /\ \A k \in {Key} \cup Others : k \in Seq(0..255)
    BY ResumeAssumption
  <2> QED
    BY <2>1, SeqMonotonic
<1>2. /\ Pattern \in Seq(Nat) /\ id(Key) # killId(Key) /\ \A c \in Channels : c \in Seq(Nat)
  BY <1>1, NamesDiffer DEF Pattern, Channels
<1>3. DataNotice.kind = "pmessage" /\ DataNotice.channel = id(Key)
  BY DEF DataNotice, OnChannel
<1>4. KillNotice.kind = "pmessage" /\ KillNotice.channel = killId(Key)
  BY DEF KillNotice, OnChannel
<1>5. Reacts = Reaction(Key, Meaning(notice))
  BY DEF Reacts
<1>6. CASE notice = Confirmed(Pattern)
  <2>1. notice.kind = "psubscribe" /\ notice.channel = Pattern
    BY <1>6 DEF Confirmed
  <2>2. Meaning(notice) = Told("subscription", Pattern)
    BY <2>1 DEF Meaning
  <2>3. Reacts = "nothing"
    BY <1>5, <2>2 DEF Reaction, Told
  <2>4. notice # DataNotice /\ notice # KillNotice
    BY <1>3, <1>4, <2>1
  <2> QED
    BY <1>2, <1>6, <2>2, <2>3, <2>4, ConfirmationTaken
<1>7. ASSUME NEW channel \in Channels, notice = OnChannel(Pattern, channel)
      PROVE  LET wire == Pushed(notice)
             IN  /\ PubSubReceive(wire) = Meaning(notice)
                 /\ Reacts = "fetch" <=> notice = DataNotice
                 /\ Reacts = "end" <=> notice = KillNotice
                 /\ \A n \in 0..(Len(wire) - 1) : PubSubReceive(SubSeq(wire, 1, n)) = Failure
  <2>1. notice.kind = "pmessage" /\ notice.channel = channel
    BY <1>7 DEF OnChannel
  <2>2. Meaning(notice) = Told("pmessage", channel)
    BY <2>1 DEF Meaning
  <2>3. /\ notice = DataNotice <=> channel = id(Key)
        /\ notice = KillNotice <=> channel = killId(Key)
    BY <1>3, <1>4, <1>7, <2>1 DEF DataNotice, KillNotice
  <2>4. /\ Reacts = "fetch" <=> channel = id(Key)
        /\ Reacts = "end" <=> channel = killId(Key)
    BY <1>2, <1>5, <2>2 DEF Reaction, Told, Kills
  <2>5. /\ PubSubReceive(Pushed(notice)) = Told("pmessage", channel)
        /\ \A n \in 0..(Len(Pushed(notice)) - 1) : PubSubReceive(SubSeq(Pushed(notice), 1, n)) = Failure
    BY <1>2, <1>7, MessageTaken
  <2> QED
    BY <2>2, <2>3, <2>4, <2>5
<1> QED
  BY <1>6, <1>7 DEF Notice

\* The wire changes nothing.
LEMMA TypesMakeFaithful ==
  ASSUME ResumeTypeOK
  PROVE  WireFaithful
<1>1. resp.off \in Int /\ LastAsked \in Int
  <2>1. resp.off \in Offset /\ MaxInt \in Nat /\ ReadLen \in Nat
    BY ResumeAssumption DEF ResumeTypeOK, Response
  <2>2. resp.off \in Int
    BY <2>1 DEF Offset
  <2> QED
    BY <2>1, <2>2 DEF LastAsked, Wrap
<1>2. LET range == Command(Transaction[2])
      IN  parseInt(range[3]) = resp.off /\ parseInt(range[4]) = LastAsked
  BY <1>1, RangeArrives
<1>3. asked # NotAsked => asked \in Found
  BY DEF ResumeTypeOK
<1>4. notice # NotTold => notice \in Notice
  BY DEF ResumeTypeOK
<1> QED
  BY <1>2, <1>3, <1>4, FetchDecodes, NoticeTaken, Zenon DEF WireFaithful

-----------------------------------------------------------------------------
(***************************************************************************)
(* redigo and fetch take what Redis sends for what it is, whatever the     *)
(* bytes of the stream and of its key are: Redis is asked for the range    *)
(* fetch means, the answers to the transaction decode to what Redis found, *)
(* a notice is taken for what it is, and nothing is taken from what breaks *)
(* off before its last byte.                                               *)
(***************************************************************************)
THEOREM WireFaithfulCorrect == ResumeSpec => []WireFaithful
<1>1. ResumeTypeOK => WireFaithful
  BY TypesMakeFaithful
<1> QED
  BY <1>1, ResumeTypeCorrect, PTL
=============================================================================
