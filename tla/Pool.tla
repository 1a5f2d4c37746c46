-------------------------------- MODULE Pool --------------------------------
(***************************************************************************)
(* The connections to Redis (garyburd/redigo: redis/pool.go, conn.go,      *)
(* pubsub.go) and what the broker does with them (broker/redis.go newPool, *)
(* broker/io.go).                                                          *)
(*                                                                         *)
(* A user takes a connection from the pool, an idle one if that answers a  *)
(* PING, sends commands, reads the answers and gives it back.  Nothing     *)
(* matches answers with commands but their order.  A follower subscribes   *)
(* its connection and has two goroutines: one reads messages, the handler  *)
(* closes the reader when the request is over, also while the other is     *)
(* still reading.  redigo allows one reader at a time (redis/doc.go); with *)
(* two of them in one bufio.Reader any answer may go to the wrong one, be  *)
(* garbled or get lost.                                                    *)
(***************************************************************************)
EXTENDS Integers, Sequences, FiniteSets

CONSTANTS
  Conn,      \* bound: connections that exist at one time
  User,      \* users of the pool; each repeats Get, commands, Close
  Follower,  \* the users that subscribe: broker readers
  NoConn,
  MaxIdle,   \* Pool.MaxIdle (3 in newPool)
  MaxPipe    \* bound: messages waiting on a connection when another is published

ASSUME PoolAssumption ==
  /\ Follower \subseteq User /\ IsFiniteSet(User)
  /\ NoConn \notin Conn /\ MaxIdle \in Nat /\ MaxPipe \in Nat

VARIABLES
  conn,    \* conn[c]: a redis.conn and the answers on their way
  idle,    \* Pool.idle, the most recently used first
  active,  \* Pool.active
  user,    \* user[u]: where u is between Get and Close, and its connection
  task,    \* task[f]: the two goroutines of the follower f
  closed,  \* closed[f]: reader.closed; its pooledConnection has lost c
  raced    \* history: two goroutines have read from one connection at a time

vars == <<conn, idle, active, user, task, closed, raced>>

\* What Redis sends: a user's answer, or something on a subscription.
Reply == {"psubscribe", "data", "kill", "unsubscribe", "sentinel"} \cup User

Connection ==
  [status  : {"none", "open", "broken", "closed"},  \* closed: conn.err is set
   pending : Nat,
   pipe    : Seq(Reply),
   subscribed : BOOLEAN]

Holding == {"test", "dial", "held", "wait", "following"}

\* What a command does to the state of a connection (commandInfos).
ConnState == {"watch", "multi", "subscribe", "monitor"}

NoInfo == [set |-> {}, clear |-> {}]

CommandInfo(command) ==
  CASE command = "WATCH" -> [NoInfo EXCEPT !.set = {"watch"}]
    [] command = "UNWATCH" -> [NoInfo EXCEPT !.clear = {"watch"}]
    [] command = "MULTI" -> [NoInfo EXCEPT !.set = {"multi"}]
    [] command \in {"EXEC", "DISCARD"} -> [NoInfo EXCEPT !.clear = {"watch", "multi"}]
    [] command \in {"PSUBSCRIBE", "SUBSCRIBE"} -> [NoInfo EXCEPT !.set = {"subscribe"}]
    [] command = "MONITOR" -> [NoInfo EXCEPT !.set = {"monitor"}]
    [] OTHER -> NoInfo

\* pooledConnection.Send and Do keep account of it: what was there or has been
\* set since, and has not been cleared since.
Tracked(state, commands) ==
  LET Cleared(s, from) ==
        \E i \in from..Len(commands) : s \in CommandInfo(commands[i]).clear
  IN  {s \in ConnState :
         \/ s \in state /\ ~Cleared(s, 1)
         \/ \E i \in 1..Len(commands) :
              s \in CommandInfo(commands[i]).set /\ ~Cleared(s, i)}

\* A pooledConnection, and where its user stands.  n: idle connections Get may
\* still try, or answers Do has still to read.
UserState ==
  [pc : Holding \cup {"out", "returned"}, c : Conn \cup {NoConn}, n : Nat,
   state : SUBSET ConnState]

Out == [pc |-> "out", c |-> NoConn, n |-> 0, state |-> {}]

TaskState == {"none", "serve", "check", "enter", "receive", "lock", "drain",
              "flush", "put", "over"}

Task == {"reading", "handler"}

PoolTypeOK ==
  /\ conn \in [Conn -> Connection]
  /\ idle \in Seq(Conn) /\ Len(idle) <= MaxIdle
  /\ active \in Nat
  /\ user \in [User -> UserState]
  /\ task \in [Follower -> [Task -> TaskState]]
  /\ closed \in [Follower -> BOOLEAN]
  /\ raced \in BOOLEAN

-----------------------------------------------------------------------------
(* One connection.                                                         *)

Fresh(status) == [status |-> status, pending |-> 0, pipe |-> << >>, subscribed |-> FALSE]

\* conn.Close; conn.fatal closes too.
Closed == Fresh("closed")

\* Redis executes what it is sent, in order; a broken connection swallows it.
Sent(c, replies) ==
  IF conn[c].status = "open" THEN [conn[c] EXCEPT !.pipe = @ \o replies] ELSE conn[c]

\* The goroutines that are about to read from c.
Readers(c) ==
  {u \in User : user[u].c = c /\ user[u].pc \in {"test", "wait"}}
  \cup {t \in Follower \X Task :
          user[t[1]].c = c /\ task[t[1]][t[2]] \in {"receive", "drain", "flush"}}

Answer(c) == conn[c].pipe # << >>

\* readReply fails; conn.fatal.
Dead(c) == conn[c].status \in {"broken", "closed"} /\ ~Answer(c)

NowRaced(c) == raced' = (raced \/ Cardinality(Readers(c)) > 1)

\* Mutant: a reply is not counted.
NotCounted(n) == n

\* Mutant: a message counts like an answer.
CountedBelowZero(n) == n - 1

\* conn.Receive counts down, but not below zero: messages were not asked for.
Counted(n) == IF n > 0 THEN n - 1 ELSE n

\* conn.Receive.
Received(c) == [conn[c] EXCEPT !.pipe = Tail(@), !.pending = Counted(@)]

Taken(c) == [conn[c] EXCEPT !.pipe = Tail(@)]

-----------------------------------------------------------------------------
(* Pool.Get.                                                               *)

\* The idle connection used last is tried, or a new one is dialled.
TakeOrDial(u, list, tries) ==
  IF tries > 0 /\ list # << >>
    THEN /\ user' = [user EXCEPT ![u] = [Out EXCEPT !.pc = "test", !.c = Head(list), !.n = tries - 1]]
         /\ idle' = Tail(list)
    ELSE /\ user' = [user EXCEPT ![u] = [Out EXCEPT !.pc = "dial"]]
         /\ idle' = list

\* k connections have been idle for too long and are closed.
Get(u, k) ==
  LET kept == SubSeq(idle, 1, Len(idle) - k)
      gone == {idle[i] : i \in (Len(idle) - k + 1)..Len(idle)}
  IN  /\ user[u].pc = "out"
      /\ TakeOrDial(u, kept, Len(kept))
      /\ conn' = [c \in Conn |->
                   IF c \in gone THEN Closed
                   ELSE IF user'[u].c = c THEN Sent(c, <<u>>)   \* PING
                   ELSE conn[c]]
      /\ active' = active - k + (IF user'[u].pc = "dial" THEN 1 ELSE 0)
      /\ UNCHANGED <<task, closed, raced>>

\* TestOnBorrow: whatever the PING is answered with will do.
Tested(u) ==
  LET c == user[u].c
  IN  /\ user[u].pc = "test"
      /\ Answer(c)
      /\ conn' = [conn EXCEPT ![c] = Taken(c)]
      /\ user' = [user EXCEPT ![u].pc = "held"]
      /\ NowRaced(c)
      /\ UNCHANGED <<idle, active, task, closed>>

\* The connection that failed the test has been closed.
Released == active - 1

TestFails(u) ==
  LET c == user[u].c
  IN  /\ user[u].pc = "test"
      /\ Dead(c)
      /\ TakeOrDial(u, idle, user[u].n)
      /\ conn' = [d \in Conn |-> IF d = c THEN Closed
                                 ELSE IF user'[u].c = d THEN Sent(d, <<u>>) ELSE conn[d]]
      /\ active' = IF user'[u].pc = "dial" THEN Released + 1 ELSE Released
      /\ UNCHANGED <<task, closed, raced>>

\* Connections nobody refers to any more; a new one takes the place of any.
Unused ==
  {c \in Conn : /\ conn[c].status \in {"none", "closed"}
                /\ \A u \in User : user[u].c # c
                /\ \A i \in 1..Len(idle) : idle[i] # c}

Dialled(u) ==
  LET c == CHOOSE d \in Unused : TRUE
  IN  /\ user[u].pc = "dial"
      /\ Unused # {}
      /\ conn' = [conn EXCEPT ![c] = Fresh("open")]
      /\ user' = [user EXCEPT ![u].pc = "held", ![u].c = c]
      /\ UNCHANGED <<idle, active, task, closed, raced>>

\* The user gets an error at every use.
DialFails(u) ==
  /\ user[u].pc = "dial"
  /\ user' = [user EXCEPT ![u].pc = "out"]
  /\ active' = active - 1
  /\ UNCHANGED <<conn, idle, task, closed, raced>>

-----------------------------------------------------------------------------
(* conn.Do, and Pool.put for a connection without a subscription.          *)

\* What the broker's writers and registrars send, up to the command they Do.
Transaction == <<"MULTI", "APPEND", "EXEC">>
Calls == {<<"EXISTS">>, Transaction}

\* The commands are written in one go, and their answers are pending.
Do(u, commands) ==
  LET c    == user[u].c
      sent == Len(commands)
  IN  /\ user[u].pc = "held" /\ u \notin Follower
      /\ user' = [user EXCEPT ![u].pc = "wait", ![u].n = conn[c].pending + sent,
                              ![u].state = Tracked(@, commands)]
      /\ conn' = [conn EXCEPT ![c] =
                   [Sent(c, [i \in 1..sent |-> u]) EXCEPT !.pending = 0]]
      /\ UNCHANGED <<idle, active, task, closed, raced>>

\* The last of the answers is what Do returns.
DoReturns(u) ==
  LET c == user[u].c
  IN  /\ user[u].pc = "wait"
      /\ Answer(c)
      /\ conn' = [conn EXCEPT ![c] = Taken(c)]
      /\ user' = [user EXCEPT ![u].n = @ - 1,
                              ![u].pc = IF user[u].n = 1 THEN "held" ELSE "wait"]
      /\ NowRaced(c)
      /\ UNCHANGED <<idle, active, task, closed>>

DoFails(u) ==
  /\ user[u].pc = "wait"
  /\ Dead(user[u].c)
  /\ conn' = [conn EXCEPT ![user[u].c] = Closed]
  /\ user' = [user EXCEPT ![u].pc = "held"]
  /\ UNCHANGED <<idle, active, task, closed, raced>>

\* Pool.put: the connection becomes idle, in the place of the one that has
\* been idle longest when there are too many, or is closed.
Put(c, forceClose) ==
  LET list == <<c>> \o idle
      full == Len(list) > MaxIdle
      gone == IF conn[c].status = "closed" \/ forceClose THEN {c}
              ELSE IF full THEN {list[Len(list)]} ELSE {}
  IN  /\ idle' = IF c \in gone THEN idle
                 ELSE IF full THEN SubSeq(list, 1, Len(list) - 1) ELSE list
      /\ conn' = [d \in Conn |-> IF d \in gone THEN Closed ELSE conn[d]]
      /\ active' = active - Cardinality(gone)

GiveBack(u) ==
  /\ user[u].pc = "held" /\ u \notin Follower
  /\ Put(user[u].c, user[u].state # {})
  /\ user' = [user EXCEPT ![u] = Out]
  /\ UNCHANGED <<task, closed, raced>>

-----------------------------------------------------------------------------
(* A follower: NewReader, reader.Read, reader.Close.                       *)

Set(f, t, state) == task' = [task EXCEPT ![f][t] = state]

\* The goroutine is not started when the request is answered 204, and then
\* nobody closes the reader.
Follow(f, followed) ==
  LET c == user[f].c
  IN  /\ user[f].pc = "held" /\ f \in Follower
      /\ conn' = [conn EXCEPT ![c] =
                   [Sent(c, <<"psubscribe">>) EXCEPT !.pending = @ + 1,
                                                     !.subscribed = (conn[c].status = "open")]]
      /\ user' = [user EXCEPT ![f].pc = "following", ![f].state = Tracked(@, <<"PSUBSCRIBE">>)]
      /\ task' = [task EXCEPT ![f] = IF followed
                                       THEN [reading |-> "check", handler |-> "serve"]
                                       ELSE [reading |-> "over", handler |-> "over"]]
      /\ closed' = [closed EXCEPT ![f] = FALSE]
      /\ UNCHANGED <<idle, active, raced>>

\* Read looks at closed and then asks the connection, which may be gone by then.
Check(f) ==
  /\ task[f]["reading"] = "check"
  /\ Set(f, "reading", IF closed[f] THEN "over" ELSE "enter")
  /\ UNCHANGED <<conn, idle, active, user, closed, raced>>

Enter(f) ==
  /\ task[f]["reading"] = "enter"
  /\ Set(f, "reading", IF closed[f] THEN "over" ELSE "receive")
  /\ UNCHANGED <<conn, idle, active, user, closed, raced>>

\* A fetch may find the stream done; what is no message ends the loop.
Receive(f) ==
  LET c == user[f].c
      r == Head(conn[c].pipe)
  IN  /\ task[f]["reading"] = "receive"
      /\ Answer(c)
      /\ conn' = [conn EXCEPT ![c] = Received(c)]
      /\ \/ r \in {"psubscribe", "unsubscribe", "data"} /\ Set(f, "reading", "check")
         \/ r \in {"kill", "data"} /\ Set(f, "reading", IF closed[f] THEN "over" ELSE "lock")
         \/ r \in User \cup {"sentinel"} /\ Set(f, "reading", "over")
      /\ NowRaced(c)
      /\ UNCHANGED <<idle, active, user, closed>>

ReceiveFails(f) ==
  LET c == user[f].c
  IN  /\ task[f]["reading"] = "receive"
      /\ Dead(c)
      /\ conn' = [conn EXCEPT ![c] = Closed]
      /\ Set(f, "reading", "over")
      /\ UNCHANGED <<idle, active, user, closed, raced>>

\* The request is over; behind the SSE encoder Close does not reach the reader.
Leave(f, sse) ==
  /\ task[f]["handler"] = "serve"
  /\ Set(f, "handler", IF sse \/ closed[f] THEN "over" ELSE "lock")
  /\ UNCHANGED <<conn, idle, active, user, closed, raced>>

\* Mutant: the second Close finds the connection still there.
KeepsConnection(f) == FALSE

\* pooledConnection.Close has been here and left an errorConnection.
Gone(f) == closed[f]

\* The answer to the ECHO that follows the unsubscribes: random bytes.
Sentinel == "sentinel"

\* What Redis answers to the UNSUBSCRIBE of reader.Close and to the commands of
\* pooledConnection.Close.
Unsubscribed == <<"unsubscribe", "unsubscribe", "unsubscribe", Sentinel>>

\* UNSUBSCRIBE, then UNSUBSCRIBE, PUNSUBSCRIBE and an ECHO to know the end of
\* their answers.
Lock(f, t) ==
  LET c == user[f].c
  IN  /\ task[f][t] = "lock"
      /\ \A s \in Task : task[f][s] \notin {"drain", "flush", "put"}
      /\ closed' = [closed EXCEPT ![f] = TRUE]
      /\ IF Gone(f)
           THEN Set(f, t, "over") /\ UNCHANGED conn
           ELSE /\ Set(f, t, "drain")
                /\ conn' = [conn EXCEPT ![c] =
                     [Sent(c, Unsubscribed) EXCEPT !.pending = @ + Len(Unsubscribed),
                                                   !.subscribed = FALSE]]
      /\ UNCHANGED <<idle, active, user, raced>>

\* Mutant: the first confirmation is taken for the last answer.
LastIsUnsubscribe(r) == r = "unsubscribe"

\* The loop in pooledConnection.Close ends with the sentinel.
LastAnswer(r) == r = Sentinel

Drain(f, t) ==
  LET c == user[f].c
  IN  /\ task[f][t] = "drain"
      /\ Answer(c)
      /\ conn' = [conn EXCEPT ![c] = Received(c)]
      /\ IF LastAnswer(Head(conn[c].pipe))
           THEN Set(f, t, "flush") /\ user' = [user EXCEPT ![f].state = @ \ {"subscribe"}]
           ELSE UNCHANGED <<task, user>>
      /\ NowRaced(c)
      /\ UNCHANGED <<idle, active, closed>>

\* Do(""): reads an answer for everything that is pending.
Flush(f, t) ==
  LET c == user[f].c
  IN  /\ task[f][t] = "flush"
      /\ IF conn[c].pending = 0
           THEN Set(f, t, "put") /\ UNCHANGED <<conn, raced>>
           ELSE /\ Answer(c)
                /\ conn' = [conn EXCEPT ![c] = [Taken(c) EXCEPT !.pending = @ - 1]]
                /\ NowRaced(c)
                /\ UNCHANGED task
      /\ UNCHANGED <<idle, active, user, closed>>

\* The connection keeps its state: it is not to be used again.
DrainFails(f, t) ==
  LET c == user[f].c
  IN  /\ task[f][t] \in {"drain", "flush"}
      /\ Dead(c)
      /\ conn' = [conn EXCEPT ![c] = Closed]
      /\ Set(f, t, "put")
      /\ UNCHANGED <<idle, active, user, closed, raced>>

Return(f, t) ==
  /\ task[f][t] = "put"
  /\ Put(user[f].c, user[f].state # {})
  /\ user' = [user EXCEPT ![f].pc = "returned"]
  /\ Set(f, t, "over")
  /\ UNCHANGED <<closed, raced>>

\* Both goroutines have ended and the connection is back: another request.
Again(f) ==
  /\ user[f].pc = "returned"
  /\ \A t \in Task : task[f][t] = "over"
  /\ user' = [user EXCEPT ![f] = Out]
  /\ UNCHANGED <<conn, idle, active, task, closed, raced>>

-----------------------------------------------------------------------------
(* Redis, the network, and two readers in one bufio.Reader.                *)

Publish(c, message) ==
  /\ conn[c].subscribed
  /\ conn[c].status = "open"
  /\ Len(conn[c].pipe) < MaxPipe
  /\ conn' = [conn EXCEPT ![c].pipe = Append(@, message)]
  /\ UNCHANGED <<idle, active, user, task, closed, raced>>

\* What has not arrived yet is lost with the connection.
Break(c, n) ==
  /\ conn[c].status = "open"
  /\ conn' = [conn EXCEPT ![c].status = "broken", ![c].pipe = SubSeq(@, 1, n)]
  /\ UNCHANGED <<idle, active, user, task, closed, raced>>

\* An answer is garbled (a protocol error: conn.fatal) or gets lost.
Collide(c) ==
  /\ Cardinality(Readers(c)) > 1
  /\ Answer(c)
  /\ conn' \in {[conn EXCEPT ![c] = Closed], [conn EXCEPT ![c] = Taken(c)]}
  /\ raced' = TRUE
  /\ UNCHANGED <<idle, active, user, task, closed>>

-----------------------------------------------------------------------------
PoolInit ==
  /\ conn = [c \in Conn |-> Fresh("none")]
  /\ idle = << >>
  /\ active = 0
  /\ user = [u \in User |-> Out]
  /\ task = [f \in Follower |-> [t \in Task |-> "none"]]
  /\ closed = [f \in Follower |-> FALSE]
  /\ raced = FALSE

\* The steps that wait for nobody but Redis.
Reads(u) == Tested(u) \/ TestFails(u) \/ DoReturns(u) \/ DoFails(u)

UserStep(u) ==
  \/ \E k \in 0..Len(idle) : Get(u, k)
  \/ Reads(u)
  \/ Dialled(u)
  \/ DialFails(u)
  \/ \E commands \in Calls : Do(u, commands)
  \/ GiveBack(u)

Closing(f, t) == Lock(f, t) \/ Drain(f, t) \/ Flush(f, t) \/ DrainFails(f, t) \/ Return(f, t)

FollowerStep(f) ==
  \/ \E followed \in BOOLEAN : Follow(f, followed)
  \/ Check(f) \/ Enter(f) \/ Receive(f) \/ ReceiveFails(f)
  \/ \E sse \in BOOLEAN : Leave(f, sse)
  \/ \E t \in Task : Closing(f, t)
  \/ Again(f)

PoolNext ==
  \/ \E u \in User : UserStep(u)
  \/ \E f \in Follower : FollowerStep(f)
  \/ \E c \in Conn :
       \/ \E message \in {"data", "kill"} : Publish(c, message)
       \/ \E n \in 0..Len(conn[c].pipe) : Break(c, n)
       \/ Collide(c)

PoolSpec == PoolInit /\ [][PoolNext]_vars

\* A goroutine that can go on does: it waits for answers only.
PoolFairSpec ==
  /\ PoolSpec
  /\ \A u \in User : WF_vars(Reads(u))
  /\ \A f \in Follower, t \in Task : WF_vars(Closing(f, t))

-----------------------------------------------------------------------------
(* Properties.                                                             *)

(***************************************************************************)
(* Users read answers to their own commands: what is on its way on a       *)
(* connection that a plain user or a test waits on was sent to that user,  *)
(* and a connection that waits in the pool has no answers outstanding and  *)
(* no subscription, however the request before ended and whatever was      *)
(* published while its reader was closing.                                 *)
(***************************************************************************)
OwnAnswers ==
  ~raced =>
    /\ \A u \in User : user[u].pc \in {"test", "wait"} =>
         \A i \in 1..Len(conn[user[u].c].pipe) : conn[user[u].c].pipe[i] = u
    /\ \A i \in 1..Len(idle) :
         LET k == conn[idle[i]] IN k.pipe = << >> /\ k.pending = 0 /\ ~k.subscribed

(***************************************************************************)
(* Connections are neither lost nor shared: the count of active ones is    *)
(* those idle and those held (or being dialled), each is in one place, also*)
(* when both goroutines of a follower close its reader.                    *)
(***************************************************************************)
Accounted ==
  /\ active = Len(idle) + Cardinality({u \in User : user[u].pc \in Holding})
  /\ \A i, j \in 1..Len(idle) : idle[i] = idle[j] => i = j
  /\ \A u \in User : user[u].pc \in Holding \ {"dial"} =>
       /\ \A i \in 1..Len(idle) : idle[i] # user[u].c
       /\ \A v \in User : (user[v].pc \in Holding /\ user[v].c = user[u].c) => u = v

(***************************************************************************)
(* Every command is answered or fails: Dial sets no read timeout, so a     *)
(* user whose answer somebody else has read would wait for ever.  And so   *)
(* does the loop end that waits for the sentinel when a reader is closed:  *)
(* nothing is pending that no answer will come for.                        *)
(***************************************************************************)
CommandsEnd ==
  /\ \A u \in User :
       user[u].pc \in {"test", "wait"} ~> (user[u].pc \notin {"test", "wait"} \/ raced)
  /\ \A f \in Follower, t \in Task : task[f][t] = "drain" ~> (task[f][t] = "over" \/ raced)
=============================================================================
