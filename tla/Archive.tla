------------------------------ MODULE Archive -------------------------------
(***************************************************************************)
(* Publishing a stream and keeping a copy of it in the blob store          *)
(* (server/server.go pub, server/middleware.go storeOutput,                *)
(* storage/blob.go Put).                                                   *)
(*                                                                         *)
(* Each POST copies its body to a broker writer.  Beside it runs a storer  *)
(* goroutine that starts an upload every StorageInterval and, once the     *)
(* body has ended well, a last one.  An upload reads the whole stream from *)
(* Redis and PUTs it, in up to `retries` attempts; uploads run on their    *)
(* own and nothing orders them.                                            *)
(*                                                                         *)
(* The storer takes the stream's name from the request's variables when it *)
(* starts an upload.  The router drops these variables as soon as the      *)
(* handler has returned, and does not wait for the storer to have used     *)
(* them (gorilla/mux/mux.go ServeHTTP, gorilla/context).                   *)
(*                                                                         *)
(* Subscribers are left out: they change nothing an upload reads, and all  *)
(* they do to the stream is to postpone its expiry, which Tick already     *)
(* leaves open.                                                            *)
(***************************************************************************)
EXTENDS Broker, SequencesExt

CONSTANTS
  retries,    \* attempts storage.Put makes
  Absent,     \* the content of a blob that was never stored
  Tolerated   \* the mishaps BodyArchived does not excuse

ASSUME ArchiveAssumption == retries \in Nat \ {0} /\ Absent \notin Seq(Byte)

\* The uploads of one publisher: at most one periodic upload is in flight at
\* a time (a bound), and the last one is started once.
Kind == {"periodic", "final"}

VARIABLES
  bodyEnd,  \* bodyEnd[w]: w's body ended without error, its channel done is closed
  storer,   \* storer[w]: the storer goroutine of w
  keyed,    \* keyed[w]: the request's variables, the stream's key among them, are there
  upload,   \* upload[w][k]: a storeOutput goroutine
  blob,     \* what the store holds for the stream, or Absent
  mishap    \* history: what went wrong or out of the ordinary so far

archiveVars == <<bodyEnd, storer, keyed, upload, blob, mishap>>
allVars == <<vars, archiveVars>>

Upload == [phase : {"idle", "get", "put"}, buf : Seq(Byte), left : 0..retries]

NoUpload == [phase |-> "idle", buf |-> << >>, left |-> 0]

Mishap == {"overlap", "cleared", "retry", "store", "expiry", "register", "crash"}

ArchiveTypeOK ==
  /\ bodyEnd \in [Writer -> BOOLEAN]
  /\ storer \in [Writer -> {"none", "running", "stopped"}]
  /\ keyed \in [Writer -> BOOLEAN]
  /\ upload \in [Writer -> [Kind -> Upload]]
  /\ blob \in Seq(Byte) \cup {Absent}
  /\ mishap \subseteq Mishap

-----------------------------------------------------------------------------
(* The POST handler.                                                       *)

\* Some publisher has been let in.
Begun == \E w \in Writer : writer[w] \notin {"idle", "refused"}

\* PUT /streams/<key>: the bytes of an existing stream are dropped.
PutStream ==
  /\ Register
  /\ mishap' = IF Begun THEN mishap \cup {"register"} ELSE mishap
  /\ UNCHANGED <<bodyEnd, storer, keyed, upload, blob>>

\* context.Set: the router has stored the variables of the request.
VarsSet(w) == [keyed EXCEPT ![w] = TRUE]

\* context.Get, by way of mux.Vars: the key is found.
VarsFound(w) == keyed[w]

\* context.Clear.
VarsCleared(w) == [keyed EXCEPT ![w] = FALSE]

\* The writer is opened and the storer goroutine started, or the request refused.
OpenPub(w) ==
  /\ \E answered \in BOOLEAN : NewWriter(w, answered)
  /\ storer' = [storer EXCEPT ![w] = IF writer'[w] = "open" THEN "running" ELSE @]
  /\ keyed' = IF writer'[w] = "open" THEN VarsSet(w) ELSE keyed
  /\ UNCHANGED <<bodyEnd, upload, blob, mishap>>

CopyChunk(w) ==
  /\ ~bodyEnd[w]
  /\ \E p \in Chunk, replied \in BOOLEAN : Write(w, p, replied)
  /\ UNCHANGED archiveVars

\* io.Copy has reached the end of the body: close(done).
EndBody(w) ==
  /\ writer[w] = "open"
  /\ ~bodyEnd[w]
  /\ bodyEnd' = [bodyEnd EXCEPT ![w] = TRUE]
  /\ UNCHANGED <<vars, storer, keyed, upload, blob, mishap>>

\* io.Copy has failed: the handler returns and leaves done open.
FailBody(w) ==
  /\ ~bodyEnd[w]
  /\ WriteFails(w)
  /\ UNCHANGED archiveVars

\* The deferred writer.Close.
ClosePub(w) ==
  /\ bodyEnd[w] \/ writer[w] = "failed"
  /\ CloseWriter(w) \/ CloseLost(w)
  /\ UNCHANGED archiveVars

\* The handler has returned: the router's deferred context.Clear.
ClearVars(w) ==
  /\ writer[w] = "closed"
  /\ VarsFound(w)
  /\ keyed' = VarsCleared(w)
  /\ UNCHANGED <<vars, bodyEnd, storer, upload, blob, mishap>>

-----------------------------------------------------------------------------
(* The storer goroutine and its uploads.                                   *)

InFlight == {u \in Writer \X Kind : upload[u[1]][u[2]].phase # "idle"}

(***************************************************************************)
(* go storeOutput(key(r), requestURI(r)): the storer evaluates both        *)
(* arguments, and each looks the key up.  Without a key, broker.Get("")    *)
(* fails at once; if it goes between the two, the object is stored under   *)
(* an empty name.  Either way the upload does not touch the stream's blob. *)
(***************************************************************************)
Start(w, k) ==
  /\ upload[w][k].phase = "idle"
  /\ \/ /\ VarsFound(w)
        /\ upload' = [upload EXCEPT ![w][k].phase = "get"]
        /\ mishap' = IF InFlight # {} THEN mishap \cup {"overlap"} ELSE mishap
        /\ UNCHANGED keyed
     \/ /\ ~VarsFound(w) \/ writer[w] = "closed"
        /\ keyed' = VarsCleared(w)
        /\ mishap' = mishap \cup {"cleared"}
        /\ UNCHANGED upload

\* time.After(StorageInterval) has fired.
StartPeriodic(w) ==
  /\ storer[w] = "running"
  /\ Start(w, "periodic")
  /\ UNCHANGED <<vars, bodyEnd, storer, blob>>

\* Mutant: the loop goes on after the last upload.
LoopsOn(w) == storer

\* The loop returns after the last upload.
Returns(w) == [storer EXCEPT ![w] = "stopped"]

\* Mutant: the last upload does not wait for the end of the body.
NoWait(w) == TRUE

\* The storer has received from the closed channel done.
DoneReceived(w) == bodyEnd[w]

\* The channel done is closed: the last upload, and the end of the goroutine.
StartFinal(w) ==
  /\ storer[w] = "running"
  /\ DoneReceived(w)
  /\ Start(w, "final")
  /\ storer' = Returns(w)
  /\ UNCHANGED <<vars, bodyEnd, blob>>

\* Mutant: one attempt too many.
AttemptsTooMany == retries + 1

\* The attempts an upload starts with.
Attempts == retries

Ended(w, k) == [upload EXCEPT ![w][k] = NoUpload]

\* Mutant: only what is new since the last upload is read.
OutputRest == IF blob = Absent THEN str ELSE SubSeq(str, Len(blob) + 1, Len(str))

\* broker.Get: the whole stream.
Output == str

\* broker.Get is called once for all attempts.
GetOutput(w, k) ==
  /\ upload[w][k].phase = "get"
  /\ upload' = IF IsRegistered
                 THEN [upload EXCEPT ![w][k] = [phase |-> "put", buf |-> Output, left |-> Attempts]]
                 ELSE Ended(w, k)
  /\ UNCHANGED <<vars, bodyEnd, storer, keyed, blob, mishap>>

\* broker.Get fails for another reason than an absent key.
GetFails(w, k) ==
  /\ upload[w][k].phase = "get"
  /\ upload' = Ended(w, k)
  /\ mishap' = mishap \cup {"store"}
  /\ UNCHANGED <<vars, bodyEnd, storer, keyed, blob>>

PutOK(w, k) ==
  /\ upload[w][k].phase = "put"
  /\ blob' = upload[w][k].buf
  /\ upload' = Ended(w, k)
  /\ UNCHANGED <<vars, bodyEnd, storer, keyed, mishap>>

\* Mutant: the counter starts over instead of running out.
AttemptsRenewed(n) == IF n = 1 THEN retries ELSE n - 1

AttemptsLeft(n) == n - 1

(***************************************************************************)
(* The store answers 5xx.  It has read n bytes of the body; the buffer     *)
(* they came from is the one the next attempt sends.                       *)
(***************************************************************************)
Put5xx(w, k, n) ==
  LET u == upload[w][k]
  IN  /\ u.phase = "put"
      /\ IF AttemptsLeft(u.left) = 0
           THEN /\ upload' = Ended(w, k)
                /\ mishap' = mishap \cup {"store"}
           ELSE /\ upload' = [upload EXCEPT ![w][k] =
                               [u EXCEPT !.buf = SubSeq(@, n + 1, Len(@)),
                                         !.left = AttemptsLeft(@)]]
                /\ mishap' = mishap \cup {"retry"}
      /\ UNCHANGED <<vars, bodyEnd, storer, keyed, blob>>

\* No request can be made: there is no StorageBaseURL, or the URI does not parse.
PutRefused(w, k) ==
  /\ upload[w][k].phase = "put"
  /\ upload' = Ended(w, k)
  /\ mishap' = mishap \cup {"store"}
  /\ UNCHANGED <<vars, bodyEnd, storer, keyed, blob>>

\* Any other error ends the upload; its answer may be lost after the store
\* has taken the body.
PutFails(w, k) ==
  /\ upload[w][k].phase = "put"
  /\ blob' \in {blob, upload[w][k].buf}
  /\ upload' = Ended(w, k)
  /\ mishap' = mishap \cup {"store"}
  /\ UNCHANGED <<vars, bodyEnd, storer, keyed>>

-----------------------------------------------------------------------------
\* The process exits: storers and uploads are gone.  manners waits for the
\* requests it serves but not for the goroutines they started.
Exit ==
  /\ InFlight # {} \/ \E w \in Writer : storer[w] = "running"
  /\ writer' = [w \in Writer |->
                 IF writer[w] \in {"open", "failed"} THEN "closed" ELSE writer[w]]
  /\ upload' = [w \in Writer |-> [k \in Kind |-> NoUpload]]
  /\ storer' = [w \in Writer |-> IF storer[w] = "running" THEN "stopped" ELSE storer[w]]
  /\ keyed' = [w \in Writer |-> FALSE]
  /\ mishap' = mishap \cup {"crash"}
  /\ UNCHANGED <<str, idTTL, doneTTL, rd, epoch, ended, bodyEnd, blob>>

PassTime ==
  /\ Tick
  /\ mishap' = IF idTTL = 1 THEN mishap \cup {"expiry"} ELSE mishap
  /\ UNCHANGED <<bodyEnd, storer, keyed, upload, blob>>

-----------------------------------------------------------------------------
ArchiveInit ==
  /\ Init
  /\ bodyEnd = [w \in Writer |-> FALSE]
  /\ storer = [w \in Writer |-> "none"]
  /\ keyed = [w \in Writer |-> FALSE]
  /\ upload = [w \in Writer |-> [k \in Kind |-> NoUpload]]
  /\ blob = Absent
  /\ mishap = {}

PubStep(w) == OpenPub(w) \/ CopyChunk(w) \/ EndBody(w) \/ FailBody(w) \/ ClosePub(w) \/ ClearVars(w)

UploadStep(w, k) ==
  \/ GetOutput(w, k)
  \/ GetFails(w, k)
  \/ PutOK(w, k)
  \/ \E n \in 0..Len(upload[w][k].buf) : Put5xx(w, k, n)
  \/ PutRefused(w, k)
  \/ PutFails(w, k)

ArchiveNext ==
  \/ PutStream
  \/ PassTime
  \/ Exit
  \/ \E w \in Writer : PubStep(w) \/ StartPeriodic(w) \/ StartFinal(w)
  \/ \E w \in Writer, k \in Kind : UploadStep(w, k)

ArchiveSpec == ArchiveInit /\ [][ArchiveNext]_allVars

\* select takes a case that stays ready, and requests to the store end.
ArchiveFairSpec ==
  /\ ArchiveSpec
  /\ \A w \in Writer : WF_allVars(StartFinal(w))
  /\ \A w \in Writer, k \in Kind : WF_allVars(UploadStep(w, k))

-----------------------------------------------------------------------------
(* Properties.                                                             *)

\* Every publisher has ended, and so have the storers and uploads.
AtRest ==
  /\ InFlight = {}
  /\ \A w \in Writer : writer[w] \in {"refused", "closed"} /\ storer[w] # "running"
  /\ \E w \in Writer : writer[w] = "closed"

(***************************************************************************)
(* Once everything has come to rest the store holds the whole stream, if   *)
(* uploads did not overlap, the storer found the request's variables, the  *)
(* store and Redis did not fail, nothing expired and the process stayed    *)
(* up.                                                                     *)
(***************************************************************************)
ArchivedAtRest == (AtRest /\ mishap = {}) => blob = str

\* An upload keeps what the store held and may add to it.
Extends == blob = Absent \/ (blob' # Absent /\ IsPrefix(blob, blob'))

(***************************************************************************)
(* As long as none of that has happened, no upload takes away bytes that a *)
(* subscriber could already read from the store.                           *)
(***************************************************************************)
UploadsExtend == [][mishap' = {} => Extends]_allVars

(***************************************************************************)
(* The storer goroutine of a body that ended well ends.                    *)
(***************************************************************************)
StorerStops == \A w \in Writer : bodyEnd[w] ~> storer[w] # "running"

(***************************************************************************)
(* Every upload ends, however often the store answers 5xx.                 *)
(***************************************************************************)
UploadEnds ==
  \A w \in Writer, k \in Kind : upload[w][k].phase # "idle" ~> upload[w][k].phase = "idle"

-----------------------------------------------------------------------------
(* What the repository's tests say and the code does not do.               *)

(***************************************************************************)
(* A body that ended well ends up in the store as a whole                  *)
(* (server/server_test.go:258 compares what is stored with the body),      *)
(* although uploads overlap, the handler returns before the storer has     *)
(* asked for the stream's key, and the store needs a retry.  None of these *)
(* holds up: a slow earlier upload overwrites the last one, an upload      *)
(* without a key stores nothing, a retry sends what the attempt before it  *)
(* has left of their common reader.                                        *)
(***************************************************************************)
BodyArchived == (AtRest /\ mishap \subseteq Tolerated) => blob = str
=============================================================================
