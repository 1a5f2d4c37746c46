---------------------------- MODULE ArchiveProofs ----------------------------
(***************************************************************************)
(* Proofs about publishing and archiving, for any number of publishers,    *)
(* any bytes, chunk sizes, expiry times and number of attempts.            *)
(***************************************************************************)
EXTENDS Archive, BrokerProofs

-----------------------------------------------------------------------------
(* The inductive invariant behind ArchivedAtRest and UploadsExtend.        *)

Admitted(w) == writer[w] \in {"open", "failed", "closed"}

\* An upload that sends has attempts left: the counter runs out only with it.
AttemptsInv ==
  \A w \in Writer, k \in Kind : upload[w][k].phase = "put" => upload[w][k].left > 0

\* A storer runs for the publishers that were let in, and uploads belong to
\* storers.
FrameInv ==
  /\ \A w \in Writer : storer[w] # "none" <=> Admitted(w)
  /\ \A u \in InFlight : storer[u[1]] # "none"

Reading(u) == u \in InFlight /\ upload[u[1]][u[2]].phase = "get"

Sending(u) == u \in InFlight /\ upload[u[1]][u[2]].phase = "put"

Buf(u) == upload[u[1]][u[2]].buf

\* Every object on its way is a prefix of the stream that continues what the
\* store holds.
PrefixInv ==
  /\ blob # Absent => IsPrefix(blob, str)
  /\ \A u \in InFlight : Sending(u) =>
       /\ IsPrefix(Buf(u), str)
       /\ blob # Absent => IsPrefix(blob, Buf(u))

\* What the store lacks is going to be uploaded.
PendingInv ==
  \/ ~Begun
  \/ blob = str
  \/ \E w \in Writer : storer[w] = "running"
  \/ \E u \in InFlight : Reading(u) \/ (Sending(u) /\ Buf(u) = str)

\* As long as nothing out of the ordinary has happened: uploads come one at a
\* time, a storer stops after a body that ended well, and the stream and the
\* object in the store are only as old as its publishers.
CalmInv ==
  /\ \A u, v \in InFlight : u = v
  /\ \A w \in Writer : storer[w] = "stopped" => bodyEnd[w]
  /\ Begun => idTTL > 0
  /\ ~Begun => blob = Absent
  /\ PrefixInv
  /\ PendingInv

ArchiveInv ==
  /\ TypeOK
  /\ ArchiveTypeOK
  /\ AttemptsInv
  /\ FrameInv
  /\ mishap = {} => CalmInv

-----------------------------------------------------------------------------
(* Prefixes and the table of uploads.                                      *)

LEMMA PrefixIs ==
  ASSUME NEW s \in Seq(Byte), NEW t \in Seq(Byte)
  PROVE  IsPrefix(s, t) <=> Len(s) <= Len(t) /\ \A i \in 1..Len(s) : s[i] = t[i]
<1>1. Len(s) \in Nat /\ Len(t) \in Nat /\ SubSeq(s, 1, Len(s)) = s
  BY SubSeqFull
<1>2. CASE Len(s) <= Len(t)
  <2>1. \A i \in 1..Len(s) : t[i] \in Byte
    BY <1>1, <1>2
  <2>2. /\ SubSeq(t, 1, Len(s)) \in Seq(Byte) /\ Len(SubSeq(t, 1, Len(s))) = Len(s)
        /\ \A i \in 1..Len(s) : SubSeq(t, 1, Len(s))[i] = t[i]
    BY <1>1, <1>2, <2>1, SubSeqProperties
  <2>3. (\A i \in 1..Len(s) : s[i] = t[i]) => s = SubSeq(t, 1, Len(s))
    BY <2>2, SeqEqual
  <2> QED
    BY <1>1, <1>2, <2>2, <2>3 DEF IsPrefix
<1> QED
  BY <1>2 DEF IsPrefix

LEMMA PrefixOfItself ==
  ASSUME NEW s \in Seq(Byte)
  PROVE  IsPrefix(s, s)
BY PrefixIs

LEMMA PrefixOfPrefix ==
  ASSUME NEW s \in Seq(Byte), NEW t \in Seq(Byte), NEW u \in Seq(Byte),
         IsPrefix(s, t), IsPrefix(t, u)
  PROVE  IsPrefix(s, u)
<1>1. Len(s) \in Nat /\ Len(t) \in Nat /\ Len(u) \in Nat
  OBVIOUS
<1> QED
  BY <1>1, PrefixIs

LEMMA PrefixOfLonger ==
  ASSUME NEW s \in Seq(Byte), NEW t \in Seq(Byte), NEW p \in Seq(Byte), IsPrefix(s, t)
  PROVE  IsPrefix(s, t \o p)
<1>1. /\ t \o p \in Seq(Byte) /\ Len(t \o p) = Len(t) + Len(p)
      /\ \A i \in 1..Len(t) + Len(p) : (t \o p)[i] = IF i <= Len(t) THEN t[i] ELSE p[i - Len(t)]
  BY ConcatProperties
<1>2. Len(s) \in Nat /\ Len(t) \in Nat /\ Len(p) \in Nat
  OBVIOUS
<1>3. Len(t) <= Len(t \o p) /\ \A i \in 1..Len(t) : (t \o p)[i] = t[i]
  BY <1>1, <1>2
<1>4. IsPrefix(t, t \o p)
  BY <1>1, <1>3, PrefixIs
<1> QED
  BY <1>1, <1>4, PrefixOfPrefix

\* Two prefixes of each other are the same.
LEMMA PrefixBothWays ==
  ASSUME NEW s \in Seq(Byte), NEW t \in Seq(Byte), IsPrefix(s, t), IsPrefix(t, s)
  PROVE  s = t
<1>1. Len(s) \in Nat /\ Len(t) \in Nat
  OBVIOUS
<1>2. Len(s) = Len(t) /\ \A i \in 1..Len(s) : s[i] = t[i]
  BY <1>1, PrefixIs
<1> QED
  BY <1>2, SeqEqual

\* One upload changes, the others stay.
LEMMA UploadAt ==
  ASSUME ArchiveTypeOK, NEW w \in Writer, NEW k \in Kind, NEW x \in Upload,
         upload' = [upload EXCEPT ![w][k] = x]
  PROVE  /\ upload' \in [Writer -> [Kind -> Upload]]
         /\ \A v \in Writer, j \in Kind :
              upload'[v][j] = IF v = w /\ j = k THEN x ELSE upload[v][j]
         /\ InFlight' = IF x.phase = "idle" THEN InFlight \ {<<w, k>>}
                        ELSE InFlight \cup {<<w, k>>}
<1>1. upload \in [Writer -> [Kind -> Upload]]
  BY DEF ArchiveTypeOK
<1>2. \A v \in Writer, j \in Kind :
        upload'[v][j] = IF v = w /\ j = k THEN x ELSE upload[v][j]
  BY <1>1
<1>3. upload' \in [Writer -> [Kind -> Upload]]
  BY <1>1
<1>4. InFlight' = IF x.phase = "idle" THEN InFlight \ {<<w, k>>}
                  ELSE InFlight \cup {<<w, k>>}
  BY <1>2 DEF InFlight
<1> QED
  BY <1>2, <1>3, <1>4

LEMMA UploadsTyped ==
  ASSUME ArchiveTypeOK, NEW w \in Writer, NEW k \in Kind
  PROVE  /\ NoUpload \in Upload
         /\ upload[w][k] \in Upload
         /\ upload[w][k].buf \in Seq(Byte)
         /\ str \in Seq(Byte) => [phase |-> "put", buf |-> str, left |-> retries] \in Upload
<1>1. << >> \in Seq(Byte) /\ retries \in 0..retries /\ 0 \in 0..retries
  BY ArchiveAssumption
<1>2. NoUpload \in Upload
  BY <1>1 DEF NoUpload, Upload
<1>3. upload[w][k] \in Upload
  BY DEF ArchiveTypeOK
<1> QED
  BY <1>1, <1>2, <1>3 DEF Upload

-----------------------------------------------------------------------------
(* Types.                                                                  *)

\* The steps that concern Redis are steps of the broker, but for an exit.
LEMMA BrokerTypeNext ==
  ASSUME TypeOK, [ArchiveNext]_allVars
  PROVE  TypeOK'
<1>1. CASE [Next]_vars
  BY <1>1, TypeNext
<1>2. CASE Exit
  <2>1. writer' \in [Writer -> WriterState]
    BY <1>2 DEF Exit, TypeOK, WriterState
  <2>2. UNCHANGED <<str, idTTL, doneTTL, rd, epoch, ended>>
    BY <1>2 DEF Exit
  <2> QED
    BY <2>1, <2>2 DEF TypeOK
<1>3. CASE PutStream \/ PassTime
  BY <1>3, <1>1 DEF PutStream, PassTime, Next
<1>4. ASSUME NEW w \in Writer, PubStep(w)
      PROVE  [Next]_vars
  <2>1. WriterStep(w) \/ UNCHANGED vars
    BY <1>4 DEF PubStep, OpenPub, CopyChunk, EndBody, FailBody, ClosePub, ClearVars, WriterStep
  <2> QED
    BY <2>1 DEF Next
<1>5. ASSUME NEW w \in Writer, StartPeriodic(w) \/ StartFinal(w)
      PROVE  UNCHANGED vars
  BY <1>5 DEF StartPeriodic, StartFinal
<1>6. ASSUME NEW w \in Writer, NEW k \in Kind, UploadStep(w, k)
      PROVE  UNCHANGED vars
  BY <1>6 DEF UploadStep, GetOutput, GetFails, PutOK, Put5xx, PutRefused, PutFails
<1>7. CASE UNCHANGED allVars
  BY <1>7, <1>1 DEF allVars
<1> QED
  BY <1>1, <1>2, <1>3, <1>4, <1>5, <1>6, <1>7 DEF ArchiveNext

LEMMA StartType ==
  ASSUME ArchiveTypeOK, NEW w \in Writer, NEW k \in Kind, Start(w, k)
  PROVE  /\ upload' \in [Writer -> [Kind -> Upload]]
         /\ keyed' \in [Writer -> BOOLEAN]
         /\ mishap' \subseteq Mishap
<1>1. ASSUME upload' = [upload EXCEPT ![w][k].phase = "get"]
      PROVE  upload' \in [Writer -> [Kind -> Upload]]
  <2> DEFINE x == [upload[w][k] EXCEPT !.phase = "get"]
  <2>1. upload' = [upload EXCEPT ![w][k] = x]
    BY <1>1 DEF ArchiveTypeOK
  <2>2. upload[w][k] \in Upload
    BY UploadsTyped
  <2>3. x \in Upload
    BY <2>2 DEF Upload
  <2> HIDE DEF x
  <2> QED
    BY <2>1, <2>3, UploadAt
<1>2. ASSUME UNCHANGED upload
      PROVE  upload' \in [Writer -> [Kind -> Upload]]
  BY <1>2 DEF ArchiveTypeOK
<1>3. keyed' \in [Writer -> BOOLEAN]
  BY DEF Start, ArchiveTypeOK, VarsCleared
<1>4. mishap' \subseteq Mishap
  BY DEF Start, ArchiveTypeOK, Mishap
<1> QED
  BY <1>1, <1>2, <1>3, <1>4 DEF Start

LEMMA UploadStepType ==
  ASSUME ArchiveTypeOK, AttemptsInv, str \in Seq(Byte),
         NEW w \in Writer, NEW k \in Kind, UploadStep(w, k)
  PROVE  ArchiveTypeOK'
<1> DEFINE u == upload[w][k]
<1>1. u \in Upload /\ u.buf \in Seq(Byte) /\ NoUpload \in Upload
      /\ [phase |-> "put", buf |-> str, left |-> retries] \in Upload
  BY UploadsTyped
<1>2. UNCHANGED <<bodyEnd, storer, keyed>>
  BY DEF UploadStep, GetOutput, GetFails, PutOK, Put5xx, PutRefused, PutFails
<1>3. mishap' \subseteq Mishap
  BY DEF UploadStep, GetOutput, GetFails, PutOK, Put5xx, PutRefused, PutFails,
         ArchiveTypeOK, Mishap
<1>4. blob' \in Seq(Byte) \cup {Absent}
  <2>1. UNCHANGED blob \/ blob' = u.buf
    BY DEF UploadStep, GetOutput, GetFails, PutOK, Put5xx, PutRefused, PutFails
  <2> QED
    BY <1>1, <2>1 DEF ArchiveTypeOK
<1>5. ASSUME upload' = Ended(w, k)
      PROVE  upload' \in [Writer -> [Kind -> Upload]]
  BY <1>1, <1>5, UploadAt DEF Ended
<1>6. upload' \in [Writer -> [Kind -> Upload]]
  <2>1. CASE GetOutput(w, k)
    <3>1. CASE upload' = [upload EXCEPT ![w][k] = [phase |-> "put", buf |-> Output, left |-> Attempts]]
      BY <1>1, <3>1, UploadAt DEF Output, Attempts
    <3> QED
      BY <1>5, <2>1, <3>1 DEF GetOutput
  <2>2. CASE GetFails(w, k) \/ PutOK(w, k) \/ PutRefused(w, k) \/ PutFails(w, k)
    BY <1>5, <2>2 DEF GetFails, PutOK, PutRefused, PutFails
  <2>3. CASE \E n \in 0..Len(upload[w][k].buf) : Put5xx(w, k, n)
    <3>1. PICK n \in 0..Len(upload[w][k].buf) : Put5xx(w, k, n)
      BY <2>3
    <3> DEFINE x == [u EXCEPT !.buf = SubSeq(@, n + 1, Len(@)), !.left = AttemptsLeft(@)]
    <3>2. CASE AttemptsLeft(u.left) # 0
      <4>1. u.left \in 0..retries /\ u.left > 0
        BY <1>1, <3>1 DEF Put5xx, AttemptsInv, Upload
      <4>2. AttemptsLeft(u.left) \in 0..retries
        BY <4>1, ArchiveAssumption DEF AttemptsLeft
      <4>3. SubSeq(u.buf, n + 1, Len(u.buf)) \in Seq(Byte)
        BY <1>1, SubSeqProperties
      <4>4. x \in Upload
        BY <1>1, <4>2, <4>3 DEF Upload
      <4>5. upload' = [upload EXCEPT ![w][k] = x]
        BY <3>1, <3>2 DEF Put5xx
      <4> QED
        BY <4>4, <4>5, UploadAt
    <3> QED
      BY <1>5, <3>1, <3>2 DEF Put5xx
  <2> QED
    BY <2>1, <2>2, <2>3 DEF UploadStep
<1> QED
  BY <1>2, <1>3, <1>4, <1>6 DEF ArchiveTypeOK

LEMMA ArchiveTypeNext ==
  ASSUME TypeOK, ArchiveTypeOK, AttemptsInv, [ArchiveNext]_allVars
  PROVE  ArchiveTypeOK'
<1> USE DEF ArchiveTypeOK
<1>1. CASE PutStream \/ PassTime
  BY <1>1 DEF PutStream, PassTime, Mishap
<1>2. CASE Exit
  <2>1. NoUpload \in Upload
    <3>1. << >> \in Seq(Byte) /\ 0 \in 0..retries
      BY ArchiveAssumption
    <3> QED
      BY <3>1 DEF NoUpload, Upload
  <2> QED
    BY <1>2, <2>1 DEF Exit, Mishap
<1>3. ASSUME NEW w \in Writer, PubStep(w)
      PROVE  ArchiveTypeOK'
  <2>1. CASE OpenPub(w)
    BY <2>1 DEF OpenPub, VarsSet
  <2>2. CASE EndBody(w)
    BY <2>2 DEF EndBody
  <2>3. CASE CopyChunk(w) \/ FailBody(w) \/ ClosePub(w)
    BY <2>3 DEF CopyChunk, FailBody, ClosePub, archiveVars
  <2>4. CASE ClearVars(w)
    BY <2>4 DEF ClearVars, VarsCleared
  <2> QED
    BY <1>3, <2>1, <2>2, <2>3, <2>4 DEF PubStep
<1>4. ASSUME NEW w \in Writer, StartPeriodic(w) \/ StartFinal(w)
      PROVE  ArchiveTypeOK'
  <2>1. /\ upload' \in [Writer -> [Kind -> Upload]]
        /\ keyed' \in [Writer -> BOOLEAN]
        /\ mishap' \subseteq Mishap
    BY <1>4, StartType DEF StartPeriodic, StartFinal, Kind
  <2>2. UNCHANGED <<bodyEnd, blob>> /\ storer' \in [Writer -> {"none", "running", "stopped"}]
    BY <1>4 DEF StartPeriodic, StartFinal, Returns
  <2> QED
    BY <2>1, <2>2
<1>5. ASSUME NEW w \in Writer, NEW k \in Kind, UploadStep(w, k)
      PROVE  ArchiveTypeOK'
  <2> QED
    BY <1>5, UploadStepType DEF TypeOK
<1>6. CASE UNCHANGED allVars
  BY <1>6 DEF allVars, archiveVars
<1> QED
  BY <1>1, <1>2, <1>3, <1>4, <1>5, <1>6 DEF ArchiveNext

LEMMA AttemptsNext ==
  ASSUME ArchiveTypeOK, AttemptsInv, [ArchiveNext]_allVars
  PROVE  AttemptsInv'
<1> SUFFICES ASSUME NEW v \in Writer, NEW j \in Kind, upload'[v][j].phase = "put"
             PROVE  upload'[v][j].left > 0
  BY DEF AttemptsInv
<1>t. upload \in [Writer -> [Kind -> Upload]]
  BY DEF ArchiveTypeOK
<1>1. CASE upload'[v][j] = upload[v][j]
  BY <1>1 DEF AttemptsInv
<1>2. CASE UNCHANGED upload
  BY <1>1, <1>2
<1>3. CASE Exit
  BY <1>3 DEF Exit, NoUpload
<1>4. ASSUME NEW w \in Writer, StartPeriodic(w) \/ StartFinal(w)
      PROVE  upload'[v][j].left > 0
  <2>1. PICK k \in Kind : Start(w, k)
    BY <1>4 DEF StartPeriodic, StartFinal, Kind
  <2>2. CASE UNCHANGED upload
    BY <1>1, <2>2
  <2>3. CASE upload' = [upload EXCEPT ![w][k].phase = "get"]
    <3>1. upload[w][k] \in Upload
      BY <1>t
    <3>2. upload'[v][j] = IF v = w /\ j = k THEN [upload[w][k] EXCEPT !.phase = "get"]
                          ELSE upload[v][j]
      BY <1>t, <2>3
    <3>3. [upload[w][k] EXCEPT !.phase = "get"].phase = "get"
      BY <3>1 DEF Upload
    <3> QED
      BY <1>1, <3>2, <3>3
  <2> QED
    BY <2>1, <2>2, <2>3 DEF Start
<1>5. ASSUME NEW w \in Writer, NEW k \in Kind, UploadStep(w, k)
      PROVE  upload'[v][j].left > 0
  <2> DEFINE u == upload[w][k]
  <2>1. CASE v # w \/ j # k
    <3>1. \E x : upload' = [upload EXCEPT ![w][k] = x]
      BY <1>5 DEF UploadStep, GetOutput, GetFails, PutOK, Put5xx, PutRefused, PutFails, Ended
    <3> QED
      BY <1>1, <1>t, <2>1, <3>1
  <2>2. CASE v = w /\ j = k
    <3>1. ASSUME upload' = Ended(w, k)
          PROVE  FALSE
      BY <1>t, <2>2, <3>1 DEF Ended, NoUpload
    <3>2. CASE GetOutput(w, k)
      BY <1>t, <2>2, <3>1, <3>2, ArchiveAssumption DEF GetOutput, Attempts
    <3>3. CASE GetFails(w, k) \/ PutOK(w, k) \/ PutRefused(w, k) \/ PutFails(w, k)
      BY <3>1, <3>3 DEF GetFails, PutOK, PutRefused, PutFails
    <3>4. CASE \E n \in 0..Len(upload[w][k].buf) : Put5xx(w, k, n)
      <4>1. PICK n \in 0..Len(upload[w][k].buf) : Put5xx(w, k, n)
        BY <3>4
      <4>2. u \in Upload /\ u.left \in 0..retries /\ u.left > 0
        BY <1>t, <4>1 DEF Upload, Put5xx, AttemptsInv
      <4>3. CASE AttemptsLeft(u.left) # 0
        <5>1. upload'[v][j] = [u EXCEPT !.buf = SubSeq(@, n + 1, Len(@)), !.left = AttemptsLeft(@)]
          BY <1>t, <2>2, <4>1, <4>3 DEF Put5xx
        <5>2. upload'[v][j].left = AttemptsLeft(u.left)
          BY <4>2, <5>1 DEF Upload
        <5> QED
          BY <4>2, <4>3, <5>2, ArchiveAssumption DEF AttemptsLeft
      <4> QED
        BY <3>1, <4>1, <4>3 DEF Put5xx
    <3> QED
      BY <1>5, <3>2, <3>3, <3>4 DEF UploadStep
  <2> QED
    BY <2>1, <2>2
<1> QED
  BY <1>2, <1>3, <1>4, <1>5 DEF ArchiveNext, PutStream, PassTime, PubStep, OpenPub, CopyChunk,
     EndBody, FailBody, ClosePub, ClearVars, archiveVars, allVars

-----------------------------------------------------------------------------
(* The invariant, one kind of step at a time.                              *)

LEMMA MishapsStay ==
  ASSUME [ArchiveNext]_allVars
  PROVE  mishap \subseteq mishap'
BY DEF ArchiveNext, PutStream, PassTime, Exit, PubStep, OpenPub, CopyChunk, EndBody, FailBody,
   ClosePub, ClearVars, StartPeriodic, StartFinal, Start, UploadStep, GetOutput, GetFails, PutOK,
   Put5xx, PutRefused, PutFails, allVars, archiveVars

LEMMA BegunIs ==
  ASSUME TypeOK
  PROVE  /\ Begun <=> \E w \in Writer : Admitted(w)
         /\ FrameInv => (InFlight # {} => Begun)
<1>1. \A w \in Writer : Admitted(w) <=> writer[w] \notin {"idle", "refused"}
  BY DEF TypeOK, WriterState, Admitted
<1> QED
  BY <1>1 DEF Begun, FrameInv, InFlight

\* A step of a writer that neither opens nor admits anybody.
LEMMA AdmittedStay ==
  ASSUME TypeOK, NEW w \in Writer, NEW to \in {"open", "failed", "closed"},
         Admitted(w), writer' = [writer EXCEPT ![w] = to]
  PROVE  \A v \in Writer : Admitted(v)' <=> Admitted(v)
BY DEF TypeOK, Admitted

\* What an upload shows of itself is decided by the table of uploads.
LEMMA UploadsStay ==
  ASSUME UNCHANGED upload
  PROVE  /\ InFlight' = InFlight
         /\ \A u : (Reading(u)' <=> Reading(u)) /\ (Sending(u)' <=> Sending(u)) /\ Buf(u)' = Buf(u)
BY DEF InFlight, Reading, Sending, Buf

\* Steps that leave the stream, the uploads and the store alone.
LEMMA QuietKeepsCalm ==
  ASSUME CalmInv, UNCHANGED <<str, upload, blob, storer>>, Begun' <=> Begun,
         idTTL > 0 => idTTL' > 0, \A w \in Writer : bodyEnd[w] => bodyEnd'[w]
  PROVE  CalmInv'
<1>1. /\ InFlight' = InFlight
      /\ \A u : (Reading(u)' <=> Reading(u)) /\ (Sending(u)' <=> Sending(u)) /\ Buf(u)' = Buf(u)
  BY UploadsStay
<1>2. PrefixInv'
  BY <1>1 DEF CalmInv, PrefixInv
<1>3. PendingInv'
  BY <1>1 DEF CalmInv, PendingInv
<1> QED
  BY <1>1, <1>2, <1>3 DEF CalmInv

LEMMA FrameNext ==
  ASSUME TypeOK, ArchiveTypeOK, FrameInv, [ArchiveNext]_allVars
  PROVE  FrameInv'
<1>t. writer \in [Writer -> WriterState] /\ storer \in [Writer -> {"none", "running", "stopped"}]
  BY DEF TypeOK, ArchiveTypeOK
<1>k. ASSUME \A v \in Writer : Admitted(v)' <=> Admitted(v),
             \A v \in Writer : storer'[v] # "none" <=> storer[v] # "none",
             InFlight' \subseteq InFlight
      PROVE  FrameInv'
  <2>1. \A u \in InFlight : u[1] \in Writer
    BY DEF InFlight
  <2> QED
    BY <1>k, <2>1 DEF FrameInv
<1>1. CASE PutStream \/ PassTime \/ UNCHANGED allVars
  <2>1. UNCHANGED <<writer, storer, upload>>
    BY <1>1 DEF PutStream, Register, PassTime, Tick, allVars, vars, archiveVars
  <2> QED
    BY <2>1, <1>k, UploadsStay DEF Admitted
<1>2. CASE Exit
  <2>1. InFlight' = {}
    BY <1>2 DEF Exit, InFlight, NoUpload
  <2>2. \A v \in Writer : Admitted(v)' <=> Admitted(v)
    BY <1>2, <1>t DEF Exit, Admitted, WriterState
  <2>3. \A v \in Writer : storer'[v] # "none" <=> storer[v] # "none"
    BY <1>2, <1>t DEF Exit
  <2> QED
    BY <2>1, <2>2, <2>3, <1>k
<1>3. ASSUME NEW w \in Writer, OpenPub(w)
      PROVE  FrameInv'
  <2>1. PICK to \in {"open", "refused"} : writer' = [writer EXCEPT ![w] = to]
    BY <1>3 DEF OpenPub, NewWriter
  <2>2. writer[w] = "idle" /\ UNCHANGED upload
    BY <1>3 DEF OpenPub, NewWriter
  <2>3. InFlight' = InFlight
    BY <2>2, UploadsStay
  <2>4. storer[w] = "none"
    BY <2>2, <1>t DEF FrameInv, Admitted
  <2>5. storer' = [storer EXCEPT ![w] = IF to = "open" THEN "running" ELSE storer[w]]
    BY <1>3, <2>1, <1>t DEF OpenPub
  <2>6. \A v \in Writer : storer'[v] # "none" <=> Admitted(v)'
    BY <2>1, <2>4, <2>5, <1>t DEF FrameInv, Admitted
  <2>7. \A u \in InFlight : storer'[u[1]] # "none"
    BY <2>4, <2>5, <1>t DEF FrameInv, InFlight
  <2> QED
    BY <2>3, <2>6, <2>7 DEF FrameInv
<1>4. ASSUME NEW w \in Writer, CopyChunk(w) \/ FailBody(w) \/ ClosePub(w)
      PROVE  FrameInv'
  <2>1. PICK to \in {"open", "failed", "closed"} : writer' = [writer EXCEPT ![w] = to]
    BY <1>4 DEF CopyChunk, FailBody, ClosePub, Write, WriteFails, CloseWriter, CloseLost
  <2>2. Admitted(w) /\ UNCHANGED <<storer, upload>>
    BY <1>4 DEF CopyChunk, FailBody, ClosePub, Write, WriteFails, CloseWriter, CloseLost,
       Admitted, archiveVars
  <2> QED
    BY <2>1, <2>2, <1>k, AdmittedStay, UploadsStay
<1>5. ASSUME NEW w \in Writer, EndBody(w) \/ ClearVars(w)
      PROVE  FrameInv'
  <2>1. UNCHANGED <<writer, storer, upload>>
    BY <1>5 DEF EndBody, ClearVars, vars
  <2> QED
    BY <2>1, <1>k, UploadsStay DEF Admitted
<1>6. ASSUME NEW w \in Writer, StartPeriodic(w) \/ StartFinal(w)
      PROVE  FrameInv'
  <2>1. PICK k \in Kind : Start(w, k)
    BY <1>6 DEF StartPeriodic, StartFinal, Kind
  <2>2. UNCHANGED writer /\ storer[w] = "running" /\ storer' \in {storer, Returns(w)}
    BY <1>6 DEF StartPeriodic, StartFinal, vars
  <2>3. \A v \in Writer : storer'[v] # "none" <=> storer[v] # "none"
    BY <2>2, <1>t DEF Returns
  <2>4. InFlight' \subseteq InFlight \cup {<<w, k>>}
    <3>1. UNCHANGED upload \/ upload' = [upload EXCEPT ![w][k].phase = "get"]
      BY <2>1 DEF Start
    <3>2. \A v \in Writer, j \in Kind : upload'[v][j] = upload[v][j] \/ (v = w /\ j = k)
      BY <3>1 DEF ArchiveTypeOK
    <3> QED
      BY <3>2 DEF InFlight
  <2>5. \A u \in InFlight : u[1] \in Writer
    BY DEF InFlight
  <2> QED
    BY <2>2, <2>3, <2>4, <2>5 DEF FrameInv, Admitted
<1>7. ASSUME NEW w \in Writer, NEW k \in Kind, UploadStep(w, k)
      PROVE  FrameInv'
  <2>1. UNCHANGED <<writer, storer>> /\ <<w, k>> \in InFlight
    BY <1>7 DEF UploadStep, GetOutput, GetFails, PutOK, Put5xx, PutRefused, PutFails, vars, InFlight
  <2>2. \E x : upload' = [upload EXCEPT ![w][k] = x]
    BY <1>7 DEF UploadStep, GetOutput, GetFails, PutOK, Put5xx, PutRefused, PutFails, Ended
  <2>3. \A v \in Writer, j \in Kind : upload'[v][j] = upload[v][j] \/ (v = w /\ j = k)
    BY <2>2 DEF ArchiveTypeOK
  <2>4. InFlight' \subseteq InFlight
    BY <2>1, <2>3 DEF InFlight
  <2> QED
    BY <2>1, <2>4, <1>k DEF Admitted
<1> QED
  BY <1>1, <1>2, <1>3, <1>4, <1>5, <1>6, <1>7 DEF ArchiveNext, PubStep

\* Letting a publisher in starts a storer, and was asked of a stream that is there.
LEMMA OpenPubKeepsCalm ==
  ASSUME ArchiveInv, CalmInv, NEW w \in Writer, OpenPub(w)
  PROVE  CalmInv'
<1>t. /\ writer \in [Writer -> WriterState] /\ storer \in [Writer -> {"none", "running", "stopped"}]
      /\ TypeOK
  BY DEF ArchiveInv, TypeOK, ArchiveTypeOK
<1>1. UNCHANGED <<str, idTTL, upload, blob, bodyEnd>> /\ writer[w] = "idle"
  BY DEF OpenPub, NewWriter
<1>2. CASE writer'[w] = "open"
  <2>1. IsRegistered
    BY <1>t, <1>2 DEF OpenPub, NewWriter
  <2>2. storer' = [storer EXCEPT ![w] = "running"]
    BY <1>2 DEF OpenPub
  <2>3. Begun'
    BY <1>2 DEF Begun
  <2>4. PrefixInv'
    BY <1>1, UploadsStay DEF CalmInv, PrefixInv
  <2>5. PendingInv'
    BY <1>t, <2>2 DEF PendingInv
  <2>6. (\A u, v \in InFlight : u = v)'
    BY <1>1, UploadsStay DEF CalmInv
  <2>7. \A v \in Writer : storer'[v] = "stopped" => bodyEnd'[v]
    BY <1>t, <1>1, <2>2 DEF CalmInv
  <2> QED
    BY <1>1, <2>1, <2>3, <2>4, <2>5, <2>6, <2>7 DEF CalmInv, IsRegistered
<1>3. CASE writer'[w] # "open"
  <2>1. writer' = [writer EXCEPT ![w] = "refused"]
    BY <1>t, <1>3 DEF OpenPub, NewWriter
  <2>2. Begun' <=> Begun
    BY <1>t, <1>1, <2>1 DEF Begun
  <2>3. storer' = storer
    BY <1>t, <1>3 DEF OpenPub
  <2> QED
    BY <1>1, <2>2, <2>3, QuietKeepsCalm
<1> QED
  BY <1>2, <1>3

\* A body is copied only while its storer runs, which will see what it adds.
LEMMA CopyChunkKeepsCalm ==
  ASSUME ArchiveInv, CalmInv, NEW w \in Writer, CopyChunk(w)
  PROVE  CalmInv'
<1>t. /\ writer \in [Writer -> WriterState] /\ storer \in [Writer -> {"none", "running", "stopped"}]
      /\ TypeOK /\ ArchiveTypeOK /\ FrameInv /\ str \in Seq(Byte)
  BY DEF ArchiveInv, TypeOK, ArchiveTypeOK
<1>1. PICK p \in Chunk, replied \in BOOLEAN : Write(w, p, replied)
  BY DEF CopyChunk
<1>2. /\ UNCHANGED <<upload, blob, bodyEnd, storer>> /\ ~bodyEnd[w]
      /\ writer[w] = "open" /\ str' = str \o p /\ idTTL' > 0
  BY <1>1, BrokerAssumption DEF CopyChunk, Write, archiveVars
<1>3. p \in Seq(Byte)
  BY ChunkIsSeq
<1>4. storer[w] = "running"
  BY <1>t, <1>2 DEF FrameInv, Admitted, CalmInv
<1>5. Begun /\ Begun'
  <2>1. writer' = [writer EXCEPT ![w] = IF replied THEN "open" ELSE "failed"]
    BY <1>1 DEF Write
  <2> QED
    BY <1>t, <1>2, <2>1 DEF Begun
<1>6. /\ InFlight' = InFlight
      /\ \A u : (Reading(u)' <=> Reading(u)) /\ (Sending(u)' <=> Sending(u)) /\ Buf(u)' = Buf(u)
  BY <1>2, UploadsStay
<1>7. PrefixInv'
  <2>1. blob # Absent => IsPrefix(blob, str')
    BY <1>t, <1>2, <1>3, PrefixOfLonger DEF CalmInv, PrefixInv, ArchiveTypeOK
  <2>2. ASSUME NEW u \in InFlight, Sending(u)
        PROVE  IsPrefix(Buf(u), str')
    <3>1. Buf(u) \in Seq(Byte)
      BY <1>t, UploadsTyped DEF InFlight, Buf
    <3>2. IsPrefix(Buf(u), str)
      BY <2>2 DEF CalmInv, PrefixInv
    <3> QED
      BY <1>t, <1>2, <1>3, <3>1, <3>2, PrefixOfLonger
  <2> QED
    BY <1>2, <1>6, <2>1, <2>2 DEF CalmInv, PrefixInv
<1>8. PendingInv'
  BY <1>2, <1>4 DEF PendingInv
<1> QED
  BY <1>2, <1>5, <1>6, <1>7, <1>8 DEF CalmInv

\* A PUT before any publisher came leaves nothing to be archived.
LEMMA PutStreamKeepsCalm ==
  ASSUME ArchiveInv, CalmInv, PutStream, mishap' = {}
  PROVE  CalmInv'
<1>1. ~Begun /\ UNCHANGED <<writer, upload, blob, bodyEnd, storer>>
  BY DEF PutStream, Register
<1>2. ~Begun'
  BY <1>1 DEF Begun
<1>3. InFlight = {} /\ InFlight' = {}
  BY <1>1, BegunIs, UploadsStay DEF ArchiveInv
<1>4. blob' = Absent
  BY <1>1 DEF CalmInv
<1>5. PrefixInv' /\ PendingInv'
  BY <1>2, <1>3, <1>4 DEF PrefixInv, PendingInv
<1> QED
  BY <1>1, <1>2, <1>3, <1>4, <1>5 DEF CalmInv

\* With nothing else in flight an upload starts and will read everything.
LEMMA StartKeepsCalm ==
  ASSUME ArchiveInv, CalmInv, NEW w \in Writer, StartPeriodic(w) \/ StartFinal(w), mishap' = {}
  PROVE  CalmInv'
<1>t. /\ upload \in [Writer -> [Kind -> Upload]] /\ storer \in [Writer -> {"none", "running", "stopped"}]
      /\ TypeOK /\ FrameInv
  BY DEF ArchiveInv, ArchiveTypeOK
<1>1. PICK k \in Kind : Start(w, k)
  BY DEF StartPeriodic, StartFinal, Kind
<1>2. /\ InFlight = {} /\ upload' = [upload EXCEPT ![w][k].phase = "get"]
      /\ UNCHANGED <<vars, bodyEnd, blob>>
  BY <1>1 DEF Start, StartPeriodic, StartFinal
<1>3. /\ upload'[w][k].phase = "get"
      /\ \A v \in Writer, j \in Kind : upload'[v][j] = upload[v][j] \/ (v = w /\ j = k)
  BY <1>t, <1>2 DEF Upload
<1>4. InFlight' = {<<w, k>>}
  BY <1>2, <1>3 DEF InFlight
<1>5. Reading(<<w, k>>)' /\ ~Sending(<<w, k>>)'
  BY <1>3, <1>4 DEF Reading, Sending
<1>6. Begun' <=> Begun
  BY <1>2 DEF Begun, vars
<1>7. \A v \in Writer : storer'[v] = "stopped" => bodyEnd'[v]
  BY <1>t, <1>2 DEF CalmInv, StartPeriodic, StartFinal, Returns, DoneReceived
<1>8. PrefixInv'
  BY <1>2, <1>4, <1>5 DEF CalmInv, PrefixInv, vars
<1>9. PendingInv'
  BY <1>4, <1>5 DEF PendingInv
<1> QED
  BY <1>2, <1>4, <1>6, <1>7, <1>8, <1>9 DEF CalmInv, vars

\* The only upload reads the whole stream, or replaces the object by one that
\* continues it.
LEMMA UploadStepKeepsCalm ==
  ASSUME ArchiveInv, CalmInv, NEW w \in Writer, NEW k \in Kind, UploadStep(w, k), mishap' = {}
  PROVE  CalmInv'
<1>t. /\ upload \in [Writer -> [Kind -> Upload]] /\ blob \in Seq(Byte) \cup {Absent}
      /\ TypeOK /\ ArchiveTypeOK /\ FrameInv /\ str \in Seq(Byte)
  BY DEF ArchiveInv, ArchiveTypeOK, TypeOK
<1> DEFINE u == <<w, k>>
<1>1. /\ UNCHANGED <<vars, bodyEnd, storer>> /\ u \in InFlight
      /\ GetOutput(w, k) \/ PutOK(w, k)
  BY DEF UploadStep, GetOutput, GetFails, PutOK, Put5xx, PutRefused, PutFails, InFlight
<1>2. InFlight = {u}
  BY <1>1 DEF CalmInv
<1>3. Begun /\ Begun' /\ idTTL > 0
  BY <1>t, <1>1, BegunIs DEF CalmInv, Begun, vars
<1>4. CASE GetOutput(w, k)
  <2> DEFINE x == [phase |-> "put", buf |-> str, left |-> retries]
  <2>1. upload' = [upload EXCEPT ![w][k] = x] /\ blob' = blob
    BY <1>3, <1>4 DEF GetOutput, Output, Attempts, IsRegistered
  <2>2. x \in Upload
    BY <1>t, UploadsTyped
  <2>3. InFlight' = {u} /\ upload'[w][k] = x
    <3>1. InFlight' = IF x.phase = "idle" THEN InFlight \ {<<w, k>>} ELSE InFlight \cup {<<w, k>>}
      <4> HIDE DEF x
      <4> QED
        BY <1>t, <2>1, <2>2, UploadAt
    <3> QED
      BY <1>t, <1>2, <2>1, <3>1
  <2>4. Sending(u)' /\ Buf(u)' = str
    BY <2>3 DEF Sending, Buf
  <2>5. PrefixInv'
    BY <1>t, <1>1, <2>1, <2>3, <2>4, PrefixOfItself DEF CalmInv, PrefixInv, vars
  <2>6. PendingInv'
    BY <1>1, <2>3, <2>4 DEF PendingInv, vars
  <2> QED
    BY <1>1, <1>3, <2>3, <2>5, <2>6 DEF CalmInv, vars
<1>5. CASE PutOK(w, k)
  <2>1. upload' = [upload EXCEPT ![w][k] = NoUpload] /\ blob' = Buf(u) /\ Sending(u) /\ ~Reading(u)
    BY <1>1, <1>5 DEF PutOK, Ended, Buf, Sending, Reading
  <2>2. NoUpload \in Upload /\ Buf(u) \in Seq(Byte)
    BY <1>t, UploadsTyped DEF Buf
  <2>3. InFlight' = {}
    <3>1. InFlight' = IF NoUpload.phase = "idle" THEN InFlight \ {<<w, k>>}
                      ELSE InFlight \cup {<<w, k>>}
      BY <1>t, <2>1, <2>2, UploadAt
    <3> QED
      BY <1>2, <3>1 DEF NoUpload
  <2>4. IsPrefix(Buf(u), str) /\ (blob # Absent => IsPrefix(blob, Buf(u)))
    BY <1>1, <2>1 DEF CalmInv, PrefixInv
  <2>5. PrefixInv'
    BY <1>1, <2>1, <2>3, <2>4 DEF PrefixInv, vars
  <2>6. PendingInv'
    <3>1. CASE blob = str
      <4>1. Buf(u) = str
        BY <1>t, <2>2, <2>4, <3>1, ArchiveAssumption, PrefixBothWays
      <4> QED
        BY <1>1, <2>1, <4>1 DEF PendingInv, vars
    <3>2. CASE \E v \in Writer : storer[v] = "running"
      BY <1>1, <3>2 DEF PendingInv
    <3>3. CASE \E v \in InFlight : Reading(v) \/ (Sending(v) /\ Buf(v) = str)
      BY <1>1, <1>2, <2>1, <3>3 DEF PendingInv, vars
    <3> QED
      BY <1>3, <3>1, <3>2, <3>3 DEF CalmInv, PendingInv
  <2>7. blob' # Absent
    BY <2>1, <2>2, ArchiveAssumption
  <2> QED
    BY <1>1, <1>3, <2>3, <2>5, <2>6 DEF CalmInv, vars
<1> QED
  BY <1>1, <1>4, <1>5

LEMMA CalmNext ==
  ASSUME ArchiveInv, [ArchiveNext]_allVars, mishap' = {}
  PROVE  CalmInv'
<1>t. /\ mishap = {} /\ CalmInv /\ TypeOK
      /\ writer \in [Writer -> WriterState] /\ storer \in [Writer -> {"none", "running", "stopped"}]
      /\ bodyEnd \in [Writer -> BOOLEAN] /\ idTTL \in Nat
  BY MishapsStay DEF ArchiveInv, ArchiveTypeOK, TypeOK
<1>1. CASE PutStream
  BY <1>t, <1>1, PutStreamKeepsCalm
<1>2. CASE PassTime
  <2>1. idTTL # 1
    BY <1>2 DEF PassTime
  <2>2. /\ UNCHANGED <<str, writer, upload, blob, storer, bodyEnd>>
        /\ idTTL > 0 => idTTL' > 0
    BY <1>t, <1>2, <2>1 DEF PassTime, Tick
  <2> QED
    BY <1>t, <2>2, QuietKeepsCalm DEF Begun
<1>3. CASE Exit
  BY <1>3 DEF Exit
<1>4. ASSUME NEW w \in Writer, PubStep(w)
      PROVE  CalmInv'
  <2>1. CASE OpenPub(w)
    BY <1>t, <2>1, OpenPubKeepsCalm
  <2>2. CASE CopyChunk(w)
    BY <1>t, <2>2, CopyChunkKeepsCalm
  <2>3. CASE EndBody(w) \/ ClearVars(w)
    <3>1. /\ UNCHANGED <<str, idTTL, writer, upload, blob, storer>>
          /\ \A v \in Writer : bodyEnd[v] => bodyEnd'[v]
      BY <1>t, <2>3 DEF EndBody, ClearVars, vars
    <3> QED
      BY <1>t, <3>1, QuietKeepsCalm DEF Begun
  <2>4. CASE FailBody(w) \/ ClosePub(w)
    <3>1. PICK to \in {"failed", "closed"} : writer' = [writer EXCEPT ![w] = to]
      BY <2>4 DEF FailBody, ClosePub, WriteFails, CloseWriter, CloseLost
    <3>2. writer[w] \in {"open", "failed"} /\ UNCHANGED <<str, idTTL, upload, blob, storer, bodyEnd>>
      BY <2>4 DEF FailBody, ClosePub, WriteFails, CloseWriter, CloseLost, archiveVars
    <3>3. Begun' <=> Begun
      BY <1>t, <3>1, <3>2 DEF Begun
    <3> QED
      BY <1>t, <3>2, <3>3, QuietKeepsCalm
  <2> QED
    BY <1>4, <2>1, <2>2, <2>3, <2>4 DEF PubStep
<1>5. ASSUME NEW w \in Writer, StartPeriodic(w) \/ StartFinal(w)
      PROVE  CalmInv'
  BY <1>t, <1>5, StartKeepsCalm
<1>6. ASSUME NEW w \in Writer, NEW k \in Kind, UploadStep(w, k)
      PROVE  CalmInv'
  BY <1>t, <1>6, UploadStepKeepsCalm
<1>7. CASE UNCHANGED allVars
  BY <1>t, <1>7, QuietKeepsCalm DEF allVars, vars, archiveVars, Begun
<1> QED
  BY <1>1, <1>2, <1>3, <1>4, <1>5, <1>6, <1>7 DEF ArchiveNext

LEMMA ArchiveInvInit == ArchiveInit => ArchiveInv
<1> SUFFICES ASSUME ArchiveInit
             PROVE  ArchiveInv
  OBVIOUS
<1>1. TypeOK
  BY TypeInit DEF ArchiveInit
<1>2. NoUpload \in Upload /\ NoUpload.phase = "idle"
  <2>1. << >> \in Seq(Byte) /\ 0 \in 0..retries
    BY ArchiveAssumption
  <2> QED
    BY <2>1 DEF NoUpload, Upload
<1>3. \A w \in Writer, k \in Kind : upload[w][k] = NoUpload
  BY DEF ArchiveInit
<1>4. ArchiveTypeOK
  BY <1>2 DEF ArchiveInit, ArchiveTypeOK
<1>5. InFlight = {} /\ AttemptsInv
  BY <1>2, <1>3 DEF InFlight, AttemptsInv
<1>6. ~Begun
  BY DEF ArchiveInit, Init, Begun
<1>7. FrameInv
  BY <1>5 DEF ArchiveInit, Init, FrameInv, Admitted
<1>8. CalmInv
  BY <1>5, <1>6 DEF CalmInv, PrefixInv, PendingInv, ArchiveInit
<1> QED
  BY <1>1, <1>4, <1>5, <1>7, <1>8 DEF ArchiveInv

LEMMA ArchiveInvNext == ArchiveInv /\ [ArchiveNext]_allVars => ArchiveInv'
<1> SUFFICES ASSUME ArchiveInv, [ArchiveNext]_allVars
             PROVE  ArchiveInv'
  OBVIOUS
<1>1. TypeOK /\ ArchiveTypeOK /\ AttemptsInv /\ FrameInv
  BY DEF ArchiveInv
<1>2. TypeOK' /\ ArchiveTypeOK' /\ AttemptsInv' /\ FrameInv'
  BY <1>1, BrokerTypeNext, ArchiveTypeNext, AttemptsNext, FrameNext
<1>3. mishap' = {} => CalmInv'
  BY CalmNext
<1> QED
  BY <1>2, <1>3 DEF ArchiveInv

LEMMA ArchiveInvCorrect == ArchiveSpec => []ArchiveInv
BY ArchiveInvInit, ArchiveInvNext, PTL DEF ArchiveSpec

(***************************************************************************)
(* The storers, their uploads and what the store holds stay well typed: no *)
(* upload makes more attempts than storage.Put allows, or counts below     *)
(* zero.                                                                   *)
(***************************************************************************)
THEOREM ArchiveTypeCorrect == ArchiveSpec => []ArchiveTypeOK
<1>1. ArchiveInv => ArchiveTypeOK
  BY DEF ArchiveInv
<1> QED
  BY <1>1, ArchiveInvCorrect, PTL

(***************************************************************************)
(* Once every publisher, storer and upload has come to rest and nothing    *)
(* out of the ordinary has happened, the store holds the whole stream,     *)
(* however many publishers wrote to it and however their uploads followed  *)
(* one another: storeOutput's last upload of the last publisher reads all. *)
(***************************************************************************)
THEOREM ArchivedCorrect == ArchiveSpec => []ArchivedAtRest
<1>1. ArchiveInv => ArchivedAtRest
  <2> SUFFICES ASSUME ArchiveInv, AtRest, mishap = {}
               PROVE  blob = str
    BY DEF ArchivedAtRest
  <2>1. Begun
    BY DEF AtRest, Begun
  <2> QED
    BY <2>1 DEF ArchiveInv, CalmInv, PendingInv, AtRest
<1> QED
  BY <1>1, ArchiveInvCorrect, PTL

(***************************************************************************)
(* As long as nothing out of the ordinary happens no upload takes away     *)
(* bytes that a subscriber could already read from the store.              *)
(***************************************************************************)
THEOREM UploadsExtendCorrect == ArchiveSpec => UploadsExtend
<1>1. ArchiveInv /\ [ArchiveNext]_allVars => [mishap' = {} => Extends]_allVars
  <2> SUFFICES ASSUME ArchiveInv, [ArchiveNext]_allVars, mishap' = {}, blob # Absent
               PROVE  blob' # Absent /\ IsPrefix(blob, blob')
    BY DEF Extends
  <2>1. CalmInv /\ blob \in Seq(Byte)
    BY MishapsStay DEF ArchiveInv, ArchiveTypeOK
  <2>2. CASE UNCHANGED blob
    BY <2>1, <2>2, PrefixOfItself
  <2>3. ASSUME NEW w \in Writer, NEW k \in Kind, PutOK(w, k)
        PROVE  blob' # Absent /\ IsPrefix(blob, blob')
    <3>1. Sending(<<w, k>>) /\ <<w, k>> \in InFlight /\ blob' = Buf(<<w, k>>)
      BY <2>3 DEF PutOK, Sending, InFlight, Buf
    <3>2. Buf(<<w, k>>) \in Seq(Byte)
      BY UploadsTyped DEF ArchiveInv, Buf
    <3> QED
      BY <2>1, <3>1, <3>2, ArchiveAssumption DEF CalmInv, PrefixInv
  <2>4. UNCHANGED blob \/ \E w \in Writer, k \in Kind : PutOK(w, k)
    BY DEF ArchiveNext, PutStream, PassTime, Exit, PubStep, OpenPub, CopyChunk, EndBody, FailBody,
       ClosePub, ClearVars, StartPeriodic, StartFinal, UploadStep, GetOutput, GetFails,
       Put5xx, PutRefused, PutFails, allVars, archiveVars
  <2> QED
    BY <2>2, <2>3, <2>4
<1> QED
  BY <1>1, ArchiveInvCorrect, PTL DEF ArchiveSpec, UploadsExtend
=============================================================================
