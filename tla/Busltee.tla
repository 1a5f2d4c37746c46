------------------------------ MODULE Busltee -------------------------------
(***************************************************************************)
(* busltee (busltee/runner.go, cmd/busltee/main.go): reads its command     *)
(* line (module Flags), runs a command, copies its output to its own, and  *)
(* uploads it through a pipe in a POST that lasts as long as the command.  *)
(*                                                                         *)
(* The pipe holds nothing: a write to it ends when its chunk has been read.*)
(* An attempt reads it in a goroutine of the HTTP transport, which outlives*)
(* the attempt: it may take one more chunk before it notices that its      *)
(* connection is gone.  Retries follow timeouts only, those of connecting  *)
(* and those of a connection that has died.                                *)
(***************************************************************************)
EXTENDS Flags

CONSTANTS
  MaxOutput,  \* bound: chunks the command writes
  MaxSignals  \* bound: SIGTERM and SIGINT sent to busltee

ASSUME BuslteeAssumption == MaxOutput \in Nat /\ MaxSignals \in Nat

VARIABLES
  main,     \* reading flags; Run: starting, running, waiting for the upload; or
            \* exited with a code ("usage" and "exit2" before anything ran)
  conf,     \* the Config: Retry, and whether the URL is empty
  cmd,      \* the command: its status and what it has written so far
  pipe,     \* chunks offered by the two copiers of os/exec and not yet read
  upload,   \* the goroutine of post: its state and the retries it has left
  stale,    \* transport goroutines of attempts that are over, still reading
  got,      \* chunks written to a connection, by all the attempts so far
  signals,  \* sent: signals busltee got; passed: they were passed on
  early     \* history: the upload succeeded before the output had ended

runVars == <<cmd, pipe, stale, got, signals>>
vars == <<flagVars, main, conf, upload, early, runVars>>

BuslteeTypeOK ==
  /\ FlagsTypeOK
  /\ main \in {"flags", "usage", "exit2", "start", "run", "wait", "exit0", "exit1"}
  /\ conf \in [retry : {Retry, -1, 0, 1}, noURL : BOOLEAN]
  /\ cmd \in [status : {"none", "running", "ended"}, failed : BOOLEAN, out : 0..MaxOutput]
  /\ pipe \in SUBSET (1..MaxOutput) /\ Cardinality(pipe) <= 2
  /\ upload \in [state : {"dial", "send", "sent", "drain", "ok", "done"}, left : (-1)..Retry]
  /\ stale \in 0..(Retry + 1)
  /\ got \in Seq(1..MaxOutput)
  /\ signals \in [sent : 0..MaxSignals, passed : 0..MaxSignals]
  /\ early \in BOOLEAN

Exited == main \in {"exit0", "exit1", "usage", "exit2"}

\* Mutant: the writer is closed as soon as one of the copiers has nothing to do.
ClosedEarly == main \notin {"flags", "start"}

\* run has returned, and has closed the writer.
WriterClosed == main \notin {"flags", "start", "run"}

-----------------------------------------------------------------------------
(* The command.                                                            *)

ReadFlags ==
  /\ main = "flags"
  /\ ParseArg
  /\ UNCHANGED <<main, conf, upload, early, runVars>>

\* A url and a command.
Sufficient == Len(Args) >= 2

(***************************************************************************)
(* The line has been read: main exits, or calls Run, and post starts its   *)
(* goroutine.  A negative Retry makes no attempt and no error.  What was   *)
(* read of the line is forgotten but for what makes a difference later.    *)
(***************************************************************************)
ParseFlags ==
  /\ main = "flags"
  /\ flags.left = << >>
  /\ IF Parse # "returns" \/ ~Sufficient
       THEN /\ main' = IF Parse = "returns" THEN "usage" ELSE Parse
            /\ UNCHANGED <<conf, upload, early>>
       ELSE /\ main' = "start"
            /\ conf' = [retry |-> flags.value["retry"], noURL |-> Arg(0) = Word("")]
            /\ upload' = [state |-> IF conf'.retry < 0 THEN "ok" ELSE "dial", left |-> conf'.retry]
            /\ early' = (conf'.retry < 0)
  /\ line' = << >>
  /\ flags' = Unread(<< >>)
  /\ UNCHANGED runVars

Start ==
  /\ main = "start"
  /\ \/ /\ main' = "run"
        /\ cmd' = [cmd EXCEPT !.status = "running"]
     \/ /\ main' = "wait"
        /\ cmd' = [cmd EXCEPT !.status = "ended", !.failed = TRUE]
  /\ UNCHANGED <<flagVars, conf, pipe, upload, stale, got, signals, early>>

\* The command writes to stdout or stderr; a copier offers the chunk to the
\* pipe, and takes nothing else until it has been read.
Output ==
  /\ cmd.status = "running"
  /\ cmd.out < MaxOutput
  /\ Cardinality(pipe) < 2
  /\ pipe' = pipe \cup {cmd.out + 1}
  /\ cmd' = [cmd EXCEPT !.out = @ + 1]
  /\ UNCHANGED <<flagVars, conf, main, upload, stale, got, signals, early>>

End(failed) ==
  /\ cmd.status = "running"
  /\ cmd' = [cmd EXCEPT !.status = "ended", !.failed = failed]
  /\ UNCHANGED <<flagVars, conf, main, pipe, upload, stale, got, signals, early>>

\* cmd.Wait returns when the copiers have written everything; the writer is closed.
WaitReturns ==
  /\ main = "run"
  /\ cmd.status = "ended"
  /\ pipe = {}
  /\ main' = "wait"
  /\ UNCHANGED <<flagVars, conf, cmd, pipe, upload, stale, got, signals, early>>

\* A signal arrives once Notify has been called; before, it ends the process.
Signal ==
  /\ main \in {"run", "wait"}
  /\ signals.sent < MaxSignals
  /\ signals' = [signals EXCEPT !.sent = @ + 1]
  /\ UNCHANGED <<flagVars, conf, main, cmd, pipe, upload, stale, got, early>>

\* The goroutine of deliverSignals receives once.
PassSignal ==
  /\ ~Exited
  /\ signals.passed = 0 /\ signals.sent > 0
  /\ signals' = [signals EXCEPT !.passed = @ + 1]
  /\ UNCHANGED <<flagVars, conf, main, cmd, pipe, upload, stale, got, early>>

\* The exit status is the command's.
ExitStatus == IF cmd.failed THEN "exit1" ELSE "exit0"

\* Mutant: main waits for the upload, however long it takes.
UploadOnly(timeout) == upload.state = "done"

\* The upload is done, or a second has passed.
Waited(timeout) == timeout \/ upload.state = "done"

Exit(timeout) ==
  /\ main = "wait"
  /\ Waited(timeout)
  /\ main' = ExitStatus
  /\ UNCHANGED <<flagVars, conf, cmd, pipe, upload, stale, got, signals, early>>

-----------------------------------------------------------------------------
(* The upload.                                                             *)

Going(state) == main # "flags" /\ ~Exited /\ upload.state = state

\* The attempt under way reads a chunk and sends it.
Send(chunk) ==
  /\ Going("send")
  /\ chunk \in pipe
  /\ pipe' = pipe \ {chunk}
  /\ got' = Append(got, chunk)
  /\ UNCHANGED <<flagVars, conf, main, cmd, upload, stale, signals, early>>

Connect ==
  /\ Going("dial")
  /\ ~conf.noURL
  /\ upload' = [upload EXCEPT !.state = "send"]
  /\ UNCHANGED <<flagVars, conf, main, cmd, pipe, stale, got, signals, early>>

\* Mutant: the retries do not run out.
RetryAgain == [upload EXCEPT !.state = "dial"]

\* stream: the next attempt, or none.
RetryOrFail ==
  IF upload.left > 0 THEN [state |-> "dial", left |-> upload.left - 1]
                     ELSE [upload EXCEPT !.state = "drain"]

\* Mutant: what the connection took last is posted again.
PostedAgain ==
  /\ Going("dial") \/ Going("send") \/ Going("sent")
  /\ ~conf.noURL
  /\ upload' = RetryOrFail
  /\ stale' = IF upload.state = "send" THEN stale + 1 ELSE stale
  /\ pipe' = IF got = << >> THEN pipe ELSE pipe \cup {got[Len(got)]}
  /\ UNCHANGED <<flagVars, conf, main, cmd, got, signals, early>>

\* RoundTrip times out, at any point before the answer.  Its goroutine stays
\* behind if the body has not ended.
Timeout ==
  /\ Going("dial") \/ Going("send") \/ Going("sent")
  /\ ~conf.noURL
  /\ upload' = RetryOrFail
  /\ stale' = IF upload.state = "send" THEN stale + 1 ELSE stale
  /\ UNCHANGED <<flagVars, conf, main, cmd, pipe, got, signals, early>>

\* Another error, or no URL; then there is nothing to retry.
Fails ==
  /\ Going("dial") \/ Going("send") \/ Going("sent")
  /\ upload' = [upload EXCEPT !.state = "drain"]
  /\ stale' = IF upload.state = "send" THEN stale + 1 ELSE stale
  /\ UNCHANGED <<flagVars, conf, main, cmd, pipe, got, signals, early>>

\* The body ends, and the server answers.
BodyEnds ==
  /\ Going("send") /\ WriterClosed /\ pipe = {}
  /\ upload' = [upload EXCEPT !.state = "sent"]
  /\ UNCHANGED <<flagVars, conf, main, cmd, pipe, stale, got, signals, early>>

Answered ==
  /\ Going("sent")
  /\ upload' = [upload EXCEPT !.state = "ok"]
  /\ UNCHANGED <<flagVars, conf, main, cmd, pipe, stale, got, signals, early>>

\* An answer before the end of the body (404 for an unknown stream) is a
\* success as well, and nobody but the transport reads on.
AnsweredEarly ==
  /\ Going("send")
  /\ upload' = [upload EXCEPT !.state = "ok"]
  /\ stale' = stale + 1
  /\ early' = TRUE
  /\ UNCHANGED <<flagVars, conf, main, cmd, pipe, got, signals>>

\* Mutant: after an error nobody reads.
NotDrained(chunk) == FALSE

\* io.Copy(ioutil.Discard, reader).
Drained(chunk) == Going("drain") /\ chunk \in pipe

Drain(chunk) ==
  /\ Drained(chunk)
  /\ pipe' = pipe \ {chunk}
  /\ UNCHANGED <<flagVars, conf, main, cmd, upload, stale, got, signals, early>>

\* A transport goroutine of an earlier attempt takes a chunk that goes
\* nowhere, and ends as its write fails, or at the end of the pipe.
StaleRead ==
  /\ stale > 0 /\ ~Exited
  /\ \/ \E chunk \in pipe : pipe' = pipe \ {chunk}
     \/ WriterClosed /\ UNCHANGED pipe
  /\ stale' = stale - 1
  /\ UNCHANGED <<flagVars, conf, main, cmd, upload, got, signals, early>>

CloseDone ==
  /\ Going("ok") \/ (Going("drain") /\ WriterClosed /\ pipe = {})
  /\ upload' = [upload EXCEPT !.state = "done"]
  /\ UNCHANGED <<flagVars, conf, main, cmd, pipe, stale, got, signals, early>>

-----------------------------------------------------------------------------
BuslteeInit ==
  /\ FlagsInit
  /\ main = "flags"
  /\ conf = [retry |-> Retry, noURL |-> FALSE]
  /\ cmd = [status |-> "none", failed |-> FALSE, out |-> 0]
  /\ pipe = {}
  /\ upload = [state |-> "dial", left |-> Retry]
  /\ stale = 0
  /\ got = << >>
  /\ signals = [sent |-> 0, passed |-> 0]
  /\ early = FALSE

Uploading ==
  \/ Connect \/ Timeout \/ Fails \/ BodyEnds \/ Answered \/ AnsweredEarly \/ CloseDone
  \/ \E chunk \in pipe : Send(chunk) \/ Drain(chunk)

BuslteeNext ==
  \/ ReadFlags \/ ParseFlags \/ Start \/ Output \/ WaitReturns \/ Signal \/ PassSignal
  \/ \E failed \in BOOLEAN : End(failed)
  \/ \E timeout \in BOOLEAN : Exit(timeout)
  \/ Uploading
  \/ StaleRead

BuslteeSpec == BuslteeInit /\ [][BuslteeNext]_vars

\* The goroutines of busltee run and its timer fires; nothing is asked of the
\* command, which ends when it likes to, nor of the server.
BuslteeFairSpec ==
  /\ BuslteeSpec
  /\ WF_vars(Start) /\ WF_vars(WaitReturns) /\ WF_vars(PassSignal)
  /\ WF_vars(\E timeout \in BOOLEAN : Exit(timeout))
  /\ WF_vars(StaleRead)
  /\ WF_vars(\E chunk \in pipe : Drain(chunk))

-----------------------------------------------------------------------------
(* Properties.                                                             *)

(***************************************************************************)
(* The command that runs, the url and the retries are what the line says:  *)
(* what stands behind "--" reaches the command untouched, options in it    *)
(* included, and the last --retry before it counts.  Nothing runs for a    *)
(* line with an option that is not well-formed, and a well-formed one with *)
(* a url and a command is never turned down.                               *)
(***************************************************************************)
LineObeyed ==
  [][main = "flags" /\ main' # "flags" =>
       IF Len(Written) >= 2 /\ \A i \in OptionPart : WellFormed(line[i])
         THEN /\ main' = "start"
              /\ flags.args = Written
              /\ conf' = [retry |-> WrittenRetry, noURL |-> Written[1] = Word("")]
         ELSE main' \in {"usage", "exit2"}]_vars

(***************************************************************************)
(* A retry posts the rest of the pipe (runner.go:70-76), while goroutines  *)
(* of the attempts before it still read: once the body has ended, no more  *)
(* chunks went nowhere than there were attempts before, none if there was  *)
(* none.                                                                   *)
(***************************************************************************)
UploadComplete ==
  upload.state = "sent" =>
     Cardinality((1..cmd.out) \ {got[i] : i \in 1..Len(got)}) <= conf.retry - upload.left

(***************************************************************************)
(* No chunk is uploaded twice, in one attempt or in two, whatever attempts *)
(* and leftover goroutines read the pipe side by side: stream posts the    *)
(* same reader again (runner.go:71).                                       *)
(***************************************************************************)
NoDuplicates == \A i, j \in 1..Len(got) : got[i] = got[j] => i = j

(***************************************************************************)
(* The command is not held up ("we still need to proceed with the          *)
(* command's execution", runner.go:91-92): what it writes is read, whether *)
(* the upload works, is retried or fails, unless it has succeeded before   *)
(* the output ended: the server answered early, or --retry was negative.   *)
(* Nothing limits a request in time (runner.go:101), so that this takes    *)
(* attempts that go on or end: a server that reads, answers or fails.      *)
(***************************************************************************)
CommandProceeds ==
  WF_vars(Uploading) =>
    \A chunk \in 1..MaxOutput : chunk \in pipe ~> (chunk \notin pipe \/ early \/ Exited)

(***************************************************************************)
(* busltee ends after its command, with its status, even if the server     *)
(* neither reads, answers nor fails any more (Run's time limit of a second,*)
(* runner.go:39-43), once the output has been read or the upload given up. *)
(* Before that cmd.Wait (runner.go:140) waits for the copiers, and they    *)
(* for the server.                                                         *)
(***************************************************************************)
EndsWithCommand ==
  (cmd.status = "ended" /\ (pipe = {} \/ upload.state = "drain"))
     ~> (Exited /\ (main = "exit1" <=> cmd.failed))
=============================================================================
