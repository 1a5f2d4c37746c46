------------------------------- MODULE Server -------------------------------
(***************************************************************************)
(* The busl process from start to exit (main.go, server/server.go, manners)*)
(* with its connections, the requests on them, and the reports it sends to *)
(* Rollbar.                                                                *)
(*                                                                         *)
(* SIGURG asks for a graceful exit: the listener is closed, connections in *)
(* progress go on, and main returns once manners' WaitGroup is at zero.    *)
(* What else runs in the process (uploads to the store, which Archive      *)
(* models, and the queue of reports) ends with it.                         *)
(*                                                                         *)
(* The handlers sub and pub are one state each here; Subscriber, Broker    *)
(* and Archive are about what happens inside.                              *)
(***************************************************************************)
EXTENDS Router

CONSTANTS
  Conn,     \* connections that clients may open
  Request,  \* what they may ask
  Buffer,   \* rollbar.Buffer
  MaxHops   \* bound: redirects a client follows

\* cred is what BasicAuth finds in the Authorization header.
HttpRequest ==
  [method : STRING, path : Seq(STRING), proto : STRING, cred : {<< >>} \cup (STRING \X STRING)]

ASSUME ServerAssumption ==
  /\ Buffer \in Nat \ {0}
  /\ MaxHops \in Nat
  /\ Request \subseteq HttpRequest

VARIABLES
  main,      \* where main stands
  shutdown,  \* how far the signal has come
  listener,  \* the GracefulListener: its flag, its lock, the socket under it
  wg,        \* GracefulServer.wg
  keepalive, \* keep-alives are enabled
  conn,      \* conn[c]: the connection c and the request on it
  queue,     \* rollbar: reports in bodyChannel
  posting,   \* rollbar: a report is being posted
  created,   \* history: the streams registered, with the credentials shown
  published  \* history: the streams written to

reports == <<queue, posting>>
history == <<created, published>>
serverVars == <<main, shutdown, listener, wg, keepalive, conn, reports, history>>

\* History: a request that is to create a stream shows one of the credentials.
Trusted(req, answer) ==
  /\ answer.handler \in {"mkstream", "put"}
  /\ Creds = << >> \/ \E i \in DOMAIN Creds : Creds[i] = req.cred

\* at: "backlog" until Accept; "idle" between requests; the handler the
\* router chose; "publishing"; "push" and "sending" inside rollbar.push;
\* "answered" when the handler has returned.  hops: redirects followed.
NewConn == [at |-> "none", answer |-> Reply("none", << >>), trusted |-> FALSE, hops |-> 0]

InProgress(c) == conn[c].at \notin {"none", "backlog", "idle", "closed"}

ServerTypeOK ==
  /\ main \in {"config", "accept", "drain", "exited", "fatal"}
  /\ shutdown \in {"no", "queued", "received", "disabled", "handed"}
  /\ listener \in [open : BOOLEAN, locked : BOOLEAN, socket : BOOLEAN]
  /\ wg \in Nat
  /\ keepalive \in BOOLEAN
  /\ queue \in 0..Buffer
  /\ posting \in BOOLEAN

Running == main \notin {"exited", "fatal"}

At(c, where) == conn' = [conn EXCEPT ![c].at = where]

\* The handler needs its request no more; a redirect is remembered.
Leaves(c, where) ==
  conn' = [conn EXCEPT ![c] = IF @.answer.handler = "301" THEN [@ EXCEPT !.at = where]
                              ELSE [NewConn EXCEPT !.at = where]]

-----------------------------------------------------------------------------
(* main and Start.                                                         *)

\* Flags are parsed, app is built (auth ends the process on bad credentials),
\* the port is a number and free, manners listens for its shutdown.
Start(free) ==
  /\ main = "config"
  /\ IF CredsOK /\ free
       THEN /\ main' = "accept"
            /\ listener' = [open |-> TRUE, locked |-> FALSE, socket |-> TRUE]
       ELSE /\ main' = "fatal"
            /\ UNCHANGED listener
  /\ UNCHANGED <<shutdown, wg, keepalive, conn, reports, history>>

Connect(c) ==
  /\ Running
  /\ listener.socket
  /\ conn[c].at = "none"
  /\ At(c, "backlog")
  /\ UNCHANGED <<main, shutdown, listener, wg, keepalive, reports, history>>

StartRoutine == wg + 1

\* Serve reports StateNew before it accepts again.
Accept(c) ==
  /\ main = "accept"
  /\ listener.socket
  /\ conn[c].at = "backlog"
  /\ At(c, "idle")
  /\ wg' = StartRoutine
  /\ UNCHANGED <<main, shutdown, listener, keepalive, reports, history>>

\* What becomes of main when Accept fails: GracefulListener.Accept tells an
\* error behind a graceful close from one that is none.
AcceptError == IF listener.open THEN "fatal" ELSE "drain"

\* The socket is closed under Accept, or fails by itself.  A socket that
\* fails takes the process down (log.Fatalf) with everything in progress.
AcceptFails(broken) ==
  /\ main = "accept"
  /\ broken \/ ~listener.socket
  /\ ~listener.locked
  /\ main' = AcceptError
  /\ listener' = [listener EXCEPT !.socket = FALSE]
  /\ UNCHANGED <<shutdown, wg, keepalive, conn, reports, history>>

\* Mutant: main does not wait.
NotAwaited == TRUE

\* wg.Wait returns.
AllFinished == wg = 0

\* Serve, Start and main return: the process ends.
Exit ==
  /\ main = "drain"
  /\ AllFinished
  /\ main' = "exited"
  /\ UNCHANGED <<shutdown, listener, wg, keepalive, conn, reports, history>>

-----------------------------------------------------------------------------
(* The way of the signal: AwaitSignals, listenForShutdown, manners.        *)

\* The first SIGURG; the channel holds one and is read once.
Signal ==
  /\ Running
  /\ shutdown = "no"
  /\ shutdown' = "queued"
  /\ UNCHANGED <<main, listener, wg, keepalive, conn, reports, history>>

\* AwaitSignals closes its channel.
Received ==
  /\ Running
  /\ shutdown = "queued"
  /\ shutdown' = "received"
  /\ UNCHANGED <<main, listener, wg, keepalive, conn, reports, history>>

\* listenForShutdown runs once Start has built app.
DisableKeepAlives ==
  /\ main \in {"accept", "drain"}
  /\ shutdown = "received"
  /\ shutdown' = "disabled"
  /\ keepalive' = FALSE
  /\ UNCHANGED <<main, listener, wg, conn, reports, history>>

\* Shutdown <- true meets manners' goroutine, which calls listener.Close:
\* the flag first, under the lock,
CloseFlag ==
  /\ main \in {"accept", "drain"}
  /\ shutdown = "disabled"
  /\ shutdown' = "handed"
  /\ listener' = [listener EXCEPT !.open = FALSE, !.locked = TRUE]
  /\ UNCHANGED <<main, wg, keepalive, conn, reports, history>>

\* then the socket.
CloseSocket ==
  /\ Running
  /\ listener.locked
  /\ listener' = [open |-> FALSE, locked |-> FALSE, socket |-> FALSE]
  /\ UNCHANGED <<main, shutdown, wg, keepalive, conn, reports, history>>

-----------------------------------------------------------------------------
(* A request.                                                              *)

\* Answers that take no handler of busl's, and health, are given at once.
Served(answer) ==
  IF answer.handler \in {"301", "401", "404", "health"} THEN "answered" ELSE answer.handler

Asked(c, req, answer, hops) ==
  /\ conn' = [conn EXCEPT ![c] =
       IF answer.handler \in {"pub", "put", "mkstream", "301"}
         THEN [at |-> Served(answer), answer |-> answer,
               trusted |-> Trusted(req, answer), hops |-> hops]
         ELSE [NewConn EXCEPT !.at = Served(answer)]]
  /\ UNCHANGED <<main, shutdown, listener, wg, keepalive, reports, history>>

Answers == [req \in Request |-> Answer(req)]

\* A request arrives on a connection that has none.
Ask(c, req) == Running /\ conn[c].at = "idle" /\ Asked(c, req, Answers[req], 0)

\* The client follows a redirect; it may turn its request into a GET.
Follow(c) ==
  /\ Running
  /\ conn[c].at = "idle"
  /\ conn[c].answer.handler = "301"
  /\ conn[c].hops < MaxHops
  /\ \E method \in {conn[c].answer.next.method, "GET"} :
       LET req == [conn[c].answer.next EXCEPT !.method = method]
       IN  Asked(c, req, Answer(req), conn[c].hops + 1)

\* mkstream makes up a key.
NewUUID == <<"uuid">>

KeyOf(c) == IF conn[c].at = "mkstream" THEN NewUUID ELSE conn[c].answer.key

\* How a handler goes on: rollbar.Error builds a report, which push is to
\* queue before the handler returns.
Reporting(failed) == IF failed THEN "push" ELSE "answered"

\* mkstream and put; a failure is reported.
Create(c, registered) ==
  /\ Running
  /\ conn[c].at \in {"mkstream", "put"}
  /\ Leaves(c, Reporting(~registered))
  /\ created' = IF registered
                  THEN created \cup {[key |-> KeyOf(c), trusted |-> conn[c].trusted]}
                  ELSE created
  /\ UNCHANGED <<main, shutdown, listener, wg, keepalive, reports, published>>

\* pub: NewWriter finds the stream, or the request is refused (not chunked,
\* not registered, expired).
Publish(c, accepted) ==
  /\ Running
  /\ conn[c].at = "pub"
  /\ accepted => \E e \in created : e.key = conn[c].answer.key
  /\ IF accepted THEN At(c, "publishing") ELSE Leaves(c, "answered")
  /\ UNCHANGED <<main, shutdown, listener, wg, keepalive, reports, history>>

PublishWrites(c) ==
  /\ Running
  /\ conn[c].at = "publishing"
  /\ published' = published \cup {conn[c].answer.key}
  /\ UNCHANGED <<main, shutdown, listener, wg, keepalive, conn, reports, created>>

\* The body ends, breaks off, or fails otherwise, which is reported.
PublishEnds(c, failed) ==
  /\ Running
  /\ conn[c].at = "publishing"
  /\ Leaves(c, Reporting(failed))
  /\ UNCHANGED <<main, shutdown, listener, wg, keepalive, reports, history>>

SubEnds(c) ==
  /\ Running
  /\ conn[c].at = "sub"
  /\ Leaves(c, "answered")
  /\ UNCHANGED <<main, shutdown, listener, wg, keepalive, reports, history>>

\* Mutant: a closed connection is not counted off.
StillCounted == wg

\* Mutant: it is counted off for the close and once more.
CountedTwice == wg - 2

\* FinishRoutine, when a connection is closed.
FinishRoutine == wg - 1

Hangup(c) ==
  /\ conn' = [conn EXCEPT ![c] = [NewConn EXCEPT !.at = "closed"]]
  /\ wg' = FinishRoutine

\* The handler has returned; the connection is kept if both sides like.
Finish(c, kept) ==
  /\ Running
  /\ conn[c].at = "answered"
  /\ kept => keepalive
  /\ IF kept THEN Leaves(c, "idle") /\ UNCHANGED wg ELSE Hangup(c)
  /\ UNCHANGED <<main, shutdown, listener, keepalive, reports, history>>

\* The client leaves a connection without a request, or ReadTimeout ends it.
IdleEnds(c) ==
  /\ Running
  /\ conn[c].at = "idle"
  /\ Hangup(c)
  /\ UNCHANGED <<main, shutdown, listener, keepalive, reports, history>>

-----------------------------------------------------------------------------
(* Rollbar: push looks at the length of the channel and then sends.        *)

PushLooks(c) ==
  /\ Running
  /\ conn[c].at = "push"
  /\ IF queue < Buffer
       THEN Leaves(c, "sending")
       ELSE Leaves(c, "answered")
  /\ UNCHANGED <<main, shutdown, listener, wg, keepalive, reports, history>>

\* Mutant: the last place is never given.
OnePlaceLess == queue + 1 < Buffer

Place == queue < Buffer

\* The send finds a place, unless others have sent since.
PushSends(c) ==
  /\ Running
  /\ conn[c].at = "sending"
  /\ Place
  /\ Leaves(c, "answered")
  /\ queue' = queue + 1
  /\ UNCHANGED <<main, shutdown, listener, wg, keepalive, posting, history>>

Waiting == {c \in Conn : conn[c].at = "sending" /\ ~Place}

\* The next report is taken; its place goes to a sender that waits for one.
PostBegins ==
  /\ Running
  /\ ~posting
  /\ queue > 0
  /\ posting' = TRUE
  /\ IF Waiting = {}
       THEN queue' = queue - 1 /\ UNCHANGED conn
       ELSE UNCHANGED queue /\ \E c \in Waiting : Leaves(c, "answered")
  /\ UNCHANGED <<main, shutdown, listener, wg, keepalive, history>>

\* Posted or not: post reports a failure on stderr only.
PostEnds ==
  /\ Running
  /\ posting
  /\ posting' = FALSE
  /\ UNCHANGED <<main, shutdown, listener, wg, keepalive, conn, queue, history>>

-----------------------------------------------------------------------------
ServerInit ==
  /\ main = "config"
  /\ shutdown = "no"
  /\ listener = [open |-> FALSE, locked |-> FALSE, socket |-> FALSE]
  /\ wg = 0
  /\ keepalive = TRUE
  /\ conn = [c \in Conn |-> NewConn]
  /\ queue = 0 /\ posting = FALSE
  /\ created = {} /\ published = {}

\* What the process does for connection c.
HandlerStep(c) ==
  \/ \E yes \in BOOLEAN :
       Create(c, yes) \/ Publish(c, yes) \/ PublishEnds(c, yes) \/ Finish(c, yes)
  \/ SubEnds(c)
  \/ PushLooks(c)
  \/ PushSends(c)

Reporter == PostBegins \/ PostEnds

MainStep == (\E free \in BOOLEAN : Start(free)) \/ AcceptFails(FALSE) \/ Exit

ShutdownStep == Received \/ DisableKeepAlives \/ CloseFlag \/ CloseSocket

ServerNext ==
  \/ MainStep
  \/ AcceptFails(TRUE)
  \/ Signal
  \/ ShutdownStep
  \/ Reporter
  \/ \E c \in Conn :
       \/ Connect(c)
       \/ Accept(c)
       \/ \E req \in Request : Ask(c, req)
       \/ Follow(c)
       \/ PublishWrites(c)
       \/ IdleEnds(c)
       \/ HandlerStep(c)

ServerSpec == ServerInit /\ [][ServerNext]_serverVars

(***************************************************************************)
(* Goroutines run.  A body and a response end at last, by their clients or *)
(* by ReadTimeout and WriteTimeout (an hour each), and so does a           *)
(* connection without a request.  Rollbar is assumed to answer: a report   *)
(* is posted without a timeout.                                            *)
(***************************************************************************)
ServerFairSpec ==
  /\ ServerSpec
  /\ WF_serverVars(MainStep \/ ShutdownStep)
  /\ WF_serverVars(Reporter)
  /\ \A c \in Conn : WF_serverVars(HandlerStep(c) \/ IdleEnds(c))

-----------------------------------------------------------------------------
(* Properties.                                                             *)

(***************************************************************************)
(* A graceful exit cuts nothing off: when main returns no request is being *)
(* answered and no accepted connection is open (manners/server.go).  And   *)
(* closing the listener is never taken for a failure of it, which would    *)
(* end the process under its requests (log.Fatalf).                        *)
(***************************************************************************)
GracefulExit ==
  /\ main = "exited" => \A c \in Conn : conn[c].at \in {"none", "backlog", "closed"}
  /\ main = "fatal" => shutdown # "handed"

(***************************************************************************)
(* Only who knows a credential creates streams, and whatever is written    *)
(* goes to a stream so created, although anybody may write: through every  *)
(* path, redirect and method, and on connections that others used before.  *)
(***************************************************************************)
OnlyTrustedCreate ==
  /\ \A e \in created : e.trusted
  /\ \A k \in published : \E e \in created : e.key = k

(***************************************************************************)
(* Redirects settle: the client is sent to https and to the clean path at  *)
(* most once each, whoever of the three that redirect answers first.       *)
(***************************************************************************)
RedirectsSettle ==
  \A c \in Conn : conn[c].answer.handler = "301" => conn[c].hops < 2

(***************************************************************************)
(* Every request is answered, or the process ends: no handler waits for    *)
(* ever, not even for a place in the queue of reports.                     *)
(***************************************************************************)
RequestsAnswered ==
  \A c \in Conn : InProgress(c) ~> (~InProgress(c) \/ ~Running)

(***************************************************************************)
(* A signal ends the process, however many requests and connections        *)
(* without one there are, and also when it comes before the server runs.   *)
(***************************************************************************)
ShutdownCompletes == (shutdown = "queued") ~> ~Running
=============================================================================
