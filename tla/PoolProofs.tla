----------------------------- MODULE PoolProofs -----------------------------
(***************************************************************************)
(* What module Pool promises, proved for every number of connections,      *)
(* users and followers, and every size of the pool: its types, that        *)
(* connections are neither lost nor shared, and that users read answers to *)
(* their own commands.                                                     *)
(*                                                                         *)
(* PoolInv is inductive.  Its parts: a connection is idle, or one user's;  *)
(* the goroutines of a follower close its reader once; and, as long as no  *)
(* two goroutines have read from one connection, an idle connection is     *)
(* clean, what is on its way to a plain user is at most what the user      *)
(* waits for, and the sentinel is the last thing that comes to a reader    *)
(* that is being closed.                                                   *)
(***************************************************************************)
EXTENDS Pool, FiniteSetTheorems, TLAPS

\* Users that the pool counts, and those that have a connection in hand.
Holders == {u \in User : user[u].pc \in Holding}

Having == {"test", "held", "wait", "following"}

InIdle(c) == \E i \in 1..Len(idle) : idle[i] = c

\* Each connection is in one place.
PlaceInv ==
  /\ Accounted
  /\ \A u \in User :
       /\ user[u].pc \in {"out", "dial"} => user[u].c = NoConn
       /\ user[u].pc \in Having \cup {"returned"} => user[u].c \in Conn
       /\ user[u].pc = "wait" => user[u].n > 0

Closers == {"drain", "flush", "put"}

\* The goroutines of a follower, and who of them closes its reader.
TaskInv(f) ==
  /\ user[f].pc \notin {"following", "returned"} =>
       \A t \in Task : task[f][t] \in {"none", "over"}
  /\ user[f].pc = "returned" => closed[f]
  /\ \A t \in Task : task[f][t] \in Closers =>
       /\ user[f].pc = "following" /\ closed[f]
       /\ \A s \in Task : s # t => task[f][s] \notin Closers
  /\ task[f]["handler"] \notin {"check", "enter", "receive"}

Clean(k) == k.pipe = << >> /\ k.pending = 0 /\ ~k.subscribed

Own(k, u, n) ==
  /\ k.pending = 0 /\ ~k.subscribed
  /\ Len(k.pipe) <= n /\ \A i \in 1..Len(k.pipe) : k.pipe[i] = u

\* What is on its way on the connection of a plain user or of a test.
UserInv(u, x, k) ==
  /\ x.pc = "test" => Own(k, u, 1)
  /\ x.pc = "held" => Clean(k)
  /\ x.pc = "wait" => Own(k, u, x.n)

\* ... on that of a follower that is being closed,
CloserInv(state, k) ==
  /\ state = "drain" =>
       ~k.subscribed /\ \A i \in 1..Len(k.pipe) : k.pipe[i] = Sentinel => i = Len(k.pipe)
  /\ state = "flush" => ~k.subscribed /\ k.pipe = << >>
  /\ state = "put" => k.status = "closed" \/ Clean(k)

\* ... or not yet.
FollowInv(x, tasks, over, k) ==
  x.pc = "following" =>
    /\ ~over => \A i \in 1..Len(k.pipe) : k.pipe[i] # Sentinel
    /\ \A t \in Task : CloserInv(tasks[t], k)

\* A reader that is still reading while the other goroutine closes: either
\* reads something and races, or the connection has failed and is nobody's.
StaleInv(f) ==
  (task[f]["reading"] = "receive" /\ closed[f] /\ task[f]["handler"] # "drain") =>
    /\ conn[user[f].c] = Closed
    /\ ~InIdle(user[f].c)
    /\ \A u \in User : (user[u].pc \in Having /\ user[u].c = user[f].c) => u = f

CleanIdle == \A i \in 1..Len(idle) : Clean(conn[idle[i]])

ReplyInv ==
  ~raced =>
    /\ CleanIdle
    /\ \A u \in User : UserInv(u, user[u], conn[user[u].c])
    /\ \A f \in Follower :
         FollowInv(user[f], task[f], closed[f], conn[user[f].c]) /\ StaleInv(f)

BaseInv == PoolTypeOK /\ PlaceInv /\ \A f \in Follower : TaskInv(f)

PoolInv == BaseInv /\ ReplyInv

-----------------------------------------------------------------------------
(* What the operators of the pool do.                                      *)

LEMMA SentIs ==
  ASSUME NEW c \in Conn, conn[c] \in Connection, NEW replies \in Seq(Reply)
  PROVE  /\ Sent(c, replies) \in Connection
         /\ Sent(c, replies).status = conn[c].status
         /\ Sent(c, replies).pending = conn[c].pending
         /\ Sent(c, replies).subscribed = conn[c].subscribed
         /\ Sent(c, replies).pipe =
              IF conn[c].status = "open" THEN conn[c].pipe \o replies ELSE conn[c].pipe
<1> DEFINE k == conn[c]
<1> HIDE DEF k
<1>1. k \in Connection
  BY DEF k
<1>2. k.pipe \o replies \in Seq(Reply)
  BY <1>1 DEF Connection
<1>3. /\ [k EXCEPT !.pipe = @ \o replies] \in Connection
      /\ [k EXCEPT !.pipe = @ \o replies].status = k.status
      /\ [k EXCEPT !.pipe = @ \o replies].pending = k.pending
      /\ [k EXCEPT !.pipe = @ \o replies].subscribed = k.subscribed
      /\ [k EXCEPT !.pipe = @ \o replies].pipe = k.pipe \o replies
  BY <1>1, <1>2 DEF Connection
<1> QED
  BY <1>1, <1>3 DEF Sent, k

LEMMA ClosedIs ==
  /\ Closed \in Connection /\ Clean(Closed) /\ Closed.status = "closed"
  /\ Fresh("open") \in Connection /\ Clean(Fresh("open"))
  /\ Fresh("none") \in Connection
BY DEF Closed, Fresh, Connection, Clean

LEMMA TrackedIs ==
  ASSUME NEW state, NEW commands
  PROVE  Tracked(state, commands) \in SUBSET ConnState
BY DEF Tracked

LEMMA HoldersFinite ==
  ASSUME NEW usr
  PROVE  /\ IsFiniteSet({u \in User : usr[u].pc \in Holding})
         /\ Cardinality({u \in User : usr[u].pc \in Holding}) \in Nat
<1>1. IsFiniteSet(User) /\ {u \in User : usr[u].pc \in Holding} \in SUBSET User
  BY PoolAssumption
<1> QED
  BY <1>1, FS_Subset, FS_CardinalityType

LEMMA HoldersNat == Cardinality(Holders) \in Nat
BY HoldersFinite DEF Holders

One(b) == IF b THEN 1 ELSE 0

\* The count of holders when one user changes.
LEMMA HoldersCount ==
  ASSUME user \in [User -> UserState], NEW u \in User, NEW x \in UserState,
         user' = [user EXCEPT ![u] = x]
  PROVE  Cardinality(Holders') =
           Cardinality(Holders) + One(x.pc \in Holding) - One(user[u].pc \in Holding)
<1>1. /\ IsFiniteSet(Holders) /\ Cardinality(Holders) \in Nat
      /\ u \in Holders <=> user[u].pc \in Holding
  BY HoldersFinite DEF Holders
<1>2. user'[u] = x /\ \A v \in User \ {u} : user'[v] = user[v]
  OBVIOUS
<1>3. CASE x.pc \in Holding
  <2>1. Holders' = Holders \cup {u}
    BY <1>2, <1>3 DEF Holders
  <2>2. Cardinality(Holders \cup {u}) =
          IF u \in Holders THEN Cardinality(Holders) ELSE Cardinality(Holders) + 1
    BY <1>1, FS_AddElement, Zenon
  <2> QED
    BY <1>1, <1>3, <2>1, <2>2 DEF One
<1>4. CASE x.pc \notin Holding
  <2>1. Holders' = Holders \ {u}
    BY <1>2, <1>4 DEF Holders
  <2>2. Cardinality(Holders \ {u}) =
          IF u \in Holders THEN Cardinality(Holders) - 1 ELSE Cardinality(Holders)
    BY <1>1, FS_RemoveElement, Zenon
  <2> QED
    BY <1>1, <1>4, <2>1, <2>2 DEF One
<1> QED
  BY <1>3, <1>4

LEMMA TestedOut ==
  ASSUME NEW h, NEW m
  PROVE  [Out EXCEPT !.pc = "test", !.c = h, !.n = m]
           = [pc |-> "test", c |-> h, n |-> m, state |-> {}]
<1> DEFINE r == [Out EXCEPT !.pc = "test", !.c = h, !.n = m]
           w == [pc |-> "test", c |-> h, n |-> m, state |-> {}]
<1>1. r = [i \in {"pc", "c", "n", "state"} |-> r[i]]
  BY Zenon DEF Out
<1>2. w = [i \in {"pc", "c", "n", "state"} |-> w[i]]
  BY Zenon
<1>3. r["pc"] = w["pc"] /\ r["c"] = w["c"] /\ r["n"] = w["n"] /\ r["state"] = w["state"]
  BY DEF Out
<1> HIDE DEF r, w
<1>4. r = w
  BY <1>1, <1>2, <1>3
<1> QED
  BY <1>4 DEF r, w

\* Get and a failed test: the next idle connection, or a new one.
LEMMA TakeOrDialIs ==
  ASSUME user \in [User -> UserState], idle \in Seq(Conn), NEW u \in User,
         NEW list \in Seq(Conn), Len(list) <= Len(idle),
         \A i \in 1..Len(list) : list[i] = idle[i],
         NEW tries \in Nat, TakeOrDial(u, list, tries)
  PROVE  \E x \in UserState, d \in {0, 1} :
           /\ user' = [user EXCEPT ![u] = x]
           /\ idle' \in Seq(Conn) /\ Len(idle') = Len(list) - d
           /\ \A i \in 1..Len(idle') : idle'[i] = idle[i + d] /\ i + d \in 1..Len(list)
           /\ \/ d = 1 /\ Len(list) > 0 /\ x.pc = "test" /\ x.c = idle[1] /\ x.c \in Conn
              \/ d = 0 /\ x.pc = "dial" /\ x.c = NoConn
<1>1. Out \in UserState /\ Out = [pc |-> "out", c |-> NoConn, n |-> 0, state |-> {}]
  BY DEF Out, UserState, Holding
<1>2. CASE tries > 0 /\ list # << >>
  <2> DEFINE x == [Out EXCEPT !.pc = "test", !.c = Head(list), !.n = tries - 1]
  <2>1. Len(list) > 0 /\ Head(list) = idle[1] /\ Head(list) \in Conn
    BY <1>2
  <2>2. x = [pc |-> "test", c |-> Head(list), n |-> tries - 1, state |-> {}]
    BY TestedOut
  <2> DEFINE y == [pc |-> "test", c |-> Head(list), n |-> tries - 1, state |-> {}]
  <2>a. tries - 1 \in Nat
    BY <1>2
  <2>b. y \in UserState /\ y.pc = "test" /\ y.c = Head(list)
    BY <2>1, <2>a DEF UserState, Holding
  <2>3. x \in UserState /\ x.pc = "test" /\ x.c = idle[1] /\ x.c \in Conn
    BY <2>1, <2>2, <2>b
  <2>4. user' = [user EXCEPT ![u] = x] /\ idle' = Tail(list)
    BY <1>2 DEF TakeOrDial
  <2>5. /\ idle' \in Seq(Conn) /\ Len(idle') = Len(list) - 1
        /\ \A i \in 1..Len(idle') : idle'[i] = idle[i + 1] /\ i + 1 \in 1..Len(list)
    BY <2>4, <2>1
  <2> HIDE DEF x
  <2> QED
    BY <2>1, <2>3, <2>4, <2>5
<1>3. CASE ~(tries > 0 /\ list # << >>)
  <2> DEFINE x == [Out EXCEPT !.pc = "dial"]
  <2>1. x \in UserState /\ x.pc = "dial" /\ x.c = NoConn
    BY <1>1 DEF UserState, Holding
  <2>2. user' = [user EXCEPT ![u] = x] /\ idle' = list
    BY <1>3 DEF TakeOrDial
  <2>3. /\ idle' \in Seq(Conn) /\ Len(idle') = Len(list) - 0
        /\ \A i \in 1..Len(idle') : idle'[i] = idle[i + 0] /\ i + 0 \in 1..Len(list)
    BY <2>2
  <2> HIDE DEF x
  <2> QED
    BY <2>1, <2>2, <2>3
<1> QED
  BY <1>2, <1>3

\* What put closes, and what is idle then.
LEMMA PutIs ==
  ASSUME idle \in Seq(Conn), Len(idle) <= MaxIdle, NEW c \in Conn, NEW force \in BOOLEAN,
         Put(c, force)
  PROVE  \E gone \in SUBSET Conn :
           /\ conn' = [d \in Conn |-> IF d \in gone THEN Closed ELSE conn[d]]
           /\ \A d \in gone : d = c \/ InIdle(d)
           /\ idle' \in Seq(Conn) /\ Len(idle') <= MaxIdle
           /\ Len(idle') = Len(idle) + 1 - Cardinality(gone) /\ Cardinality(gone) \in {0, 1}
           /\ active' = active - Cardinality(gone)
           /\ \/ c \in gone /\ idle' = idle
              \/ /\ conn[c].status # "closed" /\ Len(idle') > 0 /\ idle'[1] = c
                 /\ \A i \in 2..Len(idle') : idle'[i] = idle[i - 1] /\ i - 1 \in 1..Len(idle)
<1> DEFINE list == <<c>> \o idle
           full == Len(list) > MaxIdle
           gone == IF conn[c].status = "closed" \/ force THEN {c}
                   ELSE IF full THEN {list[Len(list)]} ELSE {}
<1>1. /\ conn' = [d \in Conn |-> IF d \in gone THEN Closed ELSE conn[d]]
      /\ active' = active - Cardinality(gone)
      /\ idle' = IF c \in gone THEN idle
                 ELSE IF full THEN SubSeq(list, 1, Len(list) - 1) ELSE list
  BY DEF Put
<1>2. /\ list \in Seq(Conn) /\ Len(list) = Len(idle) + 1 /\ list[1] = c
      /\ \A i \in 2..Len(list) : list[i] = idle[i - 1]
  OBVIOUS
<1>3. Len(idle) \in Nat /\ MaxIdle \in Nat
  BY PoolAssumption
<1>4. /\ Cardinality({}) = 0 /\ Cardinality({c}) = 1 /\ Cardinality({list[Len(list)]}) = 1
  BY FS_EmptySet, FS_Singleton, Zenon
<1>5. full => Len(list) = MaxIdle + 1
  BY <1>2, <1>3
<1>6. list[Len(list)] = c \/ InIdle(list[Len(list)])
  BY <1>2, <1>3 DEF InIdle
<1>7. list[Len(list)] \in Conn
  BY <1>2, <1>3
<1> HIDE DEF list
<1>8. CASE c \in gone
  <2>1. Cardinality(gone) = 1 /\ gone \in SUBSET Conn /\ \A d \in gone : d = c \/ InIdle(d)
    BY <1>4, <1>6, <1>7, <1>8
  <2> HIDE DEF gone
  <2> QED
    BY <1>1, <1>8, <2>1
<1>9. CASE c \notin gone /\ full
  <2>1. gone = {list[Len(list)]} /\ conn[c].status # "closed"
    BY <1>9
  <2>2. idle' = SubSeq(list, 1, Len(list) - 1)
    BY <1>1, <1>9
  <2>3. Len(list) > 1
    BY <1>2, <1>3, <1>9, <2>1
  <2>4. /\ idle' \in Seq(Conn) /\ Len(idle') = Len(idle) /\ Len(idle') > 0
        /\ idle'[1] = c
        /\ \A i \in 2..Len(idle') : idle'[i] = idle[i - 1] /\ i - 1 \in 1..Len(idle)
    BY <1>2, <1>3, <2>2, <2>3
  <2>5. Cardinality(gone) = 1 /\ gone \in SUBSET Conn /\ \A d \in gone : d = c \/ InIdle(d)
    BY <1>4, <1>6, <1>7, <2>1
  <2> HIDE DEF gone
  <2> QED
    BY <1>1, <1>3, <2>1, <2>4, <2>5
<1>10. CASE c \notin gone /\ ~full
  <2>1. gone = {} /\ conn[c].status # "closed"
    BY <1>10
  <2>2. idle' = list
    BY <1>1, <1>10
  <2>3. /\ idle' \in Seq(Conn) /\ Len(idle') = Len(idle) + 1 /\ Len(idle') <= MaxIdle
        /\ idle'[1] = c
        /\ \A i \in 2..Len(idle') : idle'[i] = idle[i - 1] /\ i - 1 \in 1..Len(idle)
    BY <1>2, <1>3, <1>10, <2>2
  <2>4. Cardinality(gone) = 0
    BY <1>4, <2>1
  <2> HIDE DEF gone
  <2> QED
    BY <1>1, <1>3, <2>1, <2>3, <2>4
<1> QED
  BY <1>8, <1>9, <1>10
-----------------------------------------------------------------------------
(* Connections are in one place.                                           *)

LEMMA HavingIs == Having = Holding \ {"dial"} /\ "dial" \in Holding
BY DEF Having, Holding

\* A step of one user, that may take a connection and may leave its own.
LEMMA PlaceMoved ==
  ASSUME PoolTypeOK, PlaceInv, NEW u \in User, NEW x \in UserState,
         user' = [user EXCEPT ![u] = x], idle' \in Seq(Conn),
         \A i, j \in 1..Len(idle') : idle'[i] = idle'[j] => i = j,
         \A i \in 1..Len(idle') :
           \/ InIdle(idle'[i])
           \/ user[u].pc \in Having /\ idle'[i] = user[u].c /\ x.pc \notin Having,
         x.pc \in Having =>
           /\ x.c \in Conn /\ \A i \in 1..Len(idle') : idle'[i] # x.c
           /\ \/ InIdle(x.c) \/ x.c \in Unused
              \/ user[u].pc \in Having /\ x.c = user[u].c,
         x.pc \in {"out", "dial"} => x.c = NoConn,
         x.pc = "returned" => x.c \in Conn,
         x.pc = "wait" => x.n > 0,
         active' = Len(idle') + Cardinality(Holders)
                     + One(x.pc \in Holding) - One(user[u].pc \in Holding)
  PROVE  PlaceInv'
<1>1. user'[u] = x /\ \A v \in User \ {u} : user'[v] = user[v]
  BY DEF PoolTypeOK
<1>2. \A v \in User : user[v].pc \in Having =>
        /\ user[v].c \in Conn /\ ~InIdle(user[v].c) /\ user[v].c \notin Unused
        /\ \A w \in User : (user[w].pc \in Having /\ user[w].c = user[v].c) => v = w
  BY HavingIs DEF PlaceInv, Accounted, InIdle, Unused
<1>3. NoConn \notin Conn
  BY PoolAssumption
<1>4. \A v \in User :
        /\ user'[v].pc \in {"out", "dial"} => user'[v].c = NoConn
        /\ user'[v].pc \in Having \cup {"returned"} => user'[v].c \in Conn
        /\ user'[v].pc = "wait" => user'[v].n > 0
  <2>1. \A v \in User :
          /\ user[v].pc \in {"out", "dial"} => user[v].c = NoConn
          /\ user[v].pc \in Having \cup {"returned"} => user[v].c \in Conn
          /\ user[v].pc = "wait" => user[v].n > 0
    BY DEF PlaceInv
  <2> QED
    BY <1>1, <2>1
<1>5. active' = Len(idle') + Cardinality({v \in User : user[v].pc \in Holding}')
  <2>1. user \in [User -> UserState] /\ Cardinality(Holders) \in Nat
    BY HoldersFinite DEF PoolTypeOK, Holders
  <2>2. Cardinality(Holders') =
          Cardinality(Holders) + One(x.pc \in Holding) - One(user[u].pc \in Holding)
    BY <2>1, HoldersCount
  <2>3. Cardinality(Holders') = Cardinality({v \in User : user[v].pc \in Holding}')
    BY DEF Holders
  <2>4. One(x.pc \in Holding) \in Int /\ One(user[u].pc \in Holding) \in Int /\ Len(idle') \in Nat
    BY DEF One
  <2> QED
    BY <2>1, <2>2, <2>3, <2>4
<1>6. ASSUME NEW v \in User, user'[v].pc \in Having
      PROVE  \A i \in 1..Len(idle') : idle'[i] # user'[v].c
  <2>1. CASE v = u
    BY <1>1, <1>6, <2>1
  <2>2. CASE v # u
    <3>1. user'[v] = user[v] /\ user[v].pc \in Having
      BY <1>1, <1>6, <2>2
    <3> QED
      BY <1>2, <2>2, <3>1
  <2> QED
    BY <2>1, <2>2
<1>7. ASSUME NEW v \in User, NEW w \in User, user'[v].pc \in Having, user'[w].pc \in Having,
             user'[w].c = user'[v].c
      PROVE  v = w
  <2>1. CASE v # u /\ w # u
    BY <1>1, <1>2, <1>7, <2>1
  <2>2. ASSUME NEW a \in User, a # u, user'[a].pc \in Having, x.pc \in Having, x.c = user'[a].c
        PROVE  FALSE
    <3>1. user'[a] = user[a]
      BY <1>1, <2>2
    <3> QED
      BY <1>2, <2>2, <3>1
  <2> QED
    BY <1>1, <1>7, <2>1, <2>2
<1>8. ASSUME NEW v \in User, NEW w \in User, user'[v].pc \in Having, user'[w].pc \in Holding,
             user'[w].c = user'[v].c
      PROVE  v = w
  BY <1>3, <1>4, <1>7, <1>8, HavingIs
<1>9. Accounted'
  <2>1. \A v \in User : user'[v].pc \in Holding \ {"dial"} =>
          /\ \A i \in 1..Len(idle') : idle'[i] # user'[v].c
          /\ \A w \in User : (user'[w].pc \in Holding /\ user'[w].c = user'[v].c) => v = w
    BY <1>6, <1>8, HavingIs
  <2> QED
    BY <1>5, <2>1 DEF Accounted
<1> QED
  BY <1>4, <1>9 DEF PlaceInv

\* A step of a user that goes on with the connection it has.
LEMMA PlaceKept ==
  ASSUME PoolTypeOK, PlaceInv, NEW u \in User, NEW x \in UserState,
         user' = [user EXCEPT ![u] = x], UNCHANGED <<idle, active>>,
         user[u].pc \in Having, x.pc \in Having, x.c = user[u].c, x.pc = "wait" => x.n > 0
  PROVE  PlaceInv'
<1>1. /\ idle' = idle /\ idle \in Seq(Conn) /\ active \in Nat
      /\ user[u].pc \in Holding /\ x.pc \in Holding
      /\ x.pc \notin {"out", "dial", "returned"}
  BY DEF PoolTypeOK, Having, Holding
<1>2. /\ \A i, j \in 1..Len(idle) : idle[i] = idle[j] => i = j
      /\ active = Len(idle) + Cardinality(Holders)
      /\ user[u].c \in Conn /\ \A i \in 1..Len(idle) : idle[i] # user[u].c
  BY HavingIs DEF PlaceInv, Accounted, Holders
<1>3. \A i \in 1..Len(idle') : InIdle(idle'[i])
  BY <1>1 DEF InIdle
<1>4. active' = Len(idle') + Cardinality(Holders)
                  + One(x.pc \in Holding) - One(user[u].pc \in Holding)
  <2>1. Cardinality(Holders) \in Nat
    BY HoldersFinite DEF Holders
  <2>2. Len(idle) \in Nat
    BY <1>1
  <2>3. One(x.pc \in Holding) = 1 /\ One(user[u].pc \in Holding) = 1
    BY <1>1 DEF One
  <2> QED
    BY <1>1, <1>2, <2>1, <2>2, <2>3
<1> QED
  BY <1>1, <1>2, <1>3, <1>4, PlaceMoved

\* A step of a user that takes an idle connection or dials.
LEMMA PlaceTaken ==
  ASSUME PoolTypeOK, PlaceInv, NEW u \in User, NEW x \in UserState, NEW d \in {0, 1},
         user' = [user EXCEPT ![u] = x], idle' \in Seq(Conn), Len(idle') + d <= Len(idle),
         \A i \in 1..Len(idle') : idle'[i] = idle[i + d] /\ i + d \in 1..Len(idle),
         \/ d = 1 /\ Len(idle) > 0 /\ x.pc = "test" /\ x.c = idle[1] /\ x.c \in Conn
         \/ d = 0 /\ x.pc = "dial" /\ x.c = NoConn,
         active' = Len(idle') + Cardinality(Holders) + 1 - One(user[u].pc \in Holding)
  PROVE  PlaceInv' /\ Len(idle') <= MaxIdle
<1>1. idle \in Seq(Conn) /\ Len(idle) <= MaxIdle /\ Len(idle) \in Nat /\ MaxIdle \in Nat
  BY PoolAssumption DEF PoolTypeOK
<1>2. \A i, j \in 1..Len(idle) : idle[i] = idle[j] => i = j
  BY DEF PlaceInv, Accounted
<1>3. Len(idle') \in Nat /\ Len(idle') <= MaxIdle
  BY <1>1
<1>4. \A i, j \in 1..Len(idle') : idle'[i] = idle'[j] => i = j
  BY <1>1, <1>2, <1>3
<1>5. \A i \in 1..Len(idle') : InIdle(idle'[i])
  BY DEF InIdle
<1>6. x.pc \in Having =>
        /\ x.c \in Conn /\ \A i \in 1..Len(idle') : idle'[i] # x.c
        /\ InIdle(x.c)
  <2>1. CASE d = 0
    BY <2>1 DEF Having
  <2>2. CASE d = 1
    <3>1. x.c = idle[1] /\ 1 \in 1..Len(idle) /\ x.c \in Conn
      BY <1>1, <2>2
    <3>2. \A i \in 1..Len(idle') : idle'[i] = idle[i + 1] /\ i + 1 \in 1..Len(idle) /\ i + 1 # 1
      BY <1>3, <2>2
    <3> QED
      BY <1>2, <3>1, <3>2 DEF InIdle
  <2> QED
    BY <2>1, <2>2
<1>7. x.pc \in Holding /\ One(x.pc \in Holding) = 1 /\ x.pc \notin {"out", "returned", "wait"}
  BY DEF Holding, One
<1>8. x.pc \in {"out", "dial"} => x.c = NoConn
  OBVIOUS
<1> QED
  BY <1>3, <1>4, <1>5, <1>6, <1>7, <1>8, PlaceMoved

\* A step of a user that gives its connection back.
LEMMA PlacePut ==
  ASSUME PoolTypeOK, PlaceInv, NEW u \in User, NEW x \in UserState, NEW force \in BOOLEAN,
         user' = [user EXCEPT ![u] = x], user[u].pc \in Having,
         Put(user[u].c, force),
         \/ x.pc = "out" /\ x.c = NoConn
         \/ x.pc = "returned" /\ x.c = user[u].c
  PROVE  PlaceInv' /\ idle' \in Seq(Conn) /\ Len(idle') <= MaxIdle
<1> DEFINE c == user[u].c
<1>1. idle \in Seq(Conn) /\ Len(idle) <= MaxIdle /\ Len(idle) \in Nat
  BY DEF PoolTypeOK
<1>2. /\ \A i, j \in 1..Len(idle) : idle[i] = idle[j] => i = j
      /\ active = Len(idle) + Cardinality(Holders)
      /\ c \in Conn /\ \A i \in 1..Len(idle) : idle[i] # c
  BY HavingIs DEF PlaceInv, Accounted, Holders
<1> HIDE DEF c
<1>3. PICK gone \in SUBSET Conn :
           /\ idle' \in Seq(Conn) /\ Len(idle') <= MaxIdle
           /\ Len(idle') = Len(idle) + 1 - Cardinality(gone) /\ Cardinality(gone) \in {0, 1}
           /\ active' = active - Cardinality(gone)
           /\ \/ c \in gone /\ idle' = idle
              \/ /\ conn[c].status # "closed" /\ Len(idle') > 0 /\ idle'[1] = c
                 /\ \A i \in 2..Len(idle') : idle'[i] = idle[i - 1] /\ i - 1 \in 1..Len(idle)
  <2>1. Put(c, force)
    BY DEF c
  <2> QED
    BY <1>1, <1>2, <2>1, PutIs
<1>4. Len(idle') \in Nat
  BY <1>3
<1>5. \A i, j \in 1..Len(idle') : idle'[i] = idle'[j] => i = j
  <2>1. CASE idle' = idle
    BY <1>2, <2>1
  <2>2. CASE /\ idle'[1] = c
             /\ \A i \in 2..Len(idle') : idle'[i] = idle[i - 1] /\ i - 1 \in 1..Len(idle)
    <3>1. \A i \in 1..Len(idle') : i # 1 => i \in 2..Len(idle')
      BY <1>4
    <3>2. \A i, j \in 2..Len(idle') : idle'[i] = idle'[j] => i = j
      <4> SUFFICES ASSUME NEW i \in 2..Len(idle'), NEW j \in 2..Len(idle'), idle'[i] = idle'[j]
                   PROVE  i = j
        OBVIOUS
      <4>1. idle[i - 1] = idle[j - 1] /\ i - 1 \in 1..Len(idle) /\ j - 1 \in 1..Len(idle)
        BY <2>2
      <4>2. i - 1 = j - 1
        BY <1>2, <4>1
      <4> QED
        BY <4>2
    <3>3. \A i \in 2..Len(idle') : idle'[i] # c
      BY <1>2, <2>2
    <3> QED
      BY <2>2, <3>1, <3>2, <3>3
  <2> QED
    BY <1>3, <2>1, <2>2
<1>6. x.pc \notin Having /\ x.pc \notin Holding /\ x.pc \notin {"dial", "wait"}
  BY DEF Having, Holding
<1>7. \A i \in 1..Len(idle') : InIdle(idle'[i]) \/ idle'[i] = c
  <2>1. CASE idle' = idle
    BY <2>1 DEF InIdle
  <2>2. CASE /\ idle'[1] = c
             /\ \A i \in 2..Len(idle') : idle'[i] = idle[i - 1] /\ i - 1 \in 1..Len(idle)
    <3>1. \A i \in 1..Len(idle') : i # 1 => i \in 2..Len(idle')
      BY <1>4
    <3> QED
      BY <2>2, <3>1 DEF InIdle
  <2> QED
    BY <1>3, <2>1, <2>2
<1>8. active' = Len(idle') + Cardinality(Holders)
                  + One(x.pc \in Holding) - One(user[u].pc \in Holding)
  <2>1. Cardinality(Holders) \in Nat /\ user[u].pc \in Holding
    BY HoldersFinite, HavingIs DEF Holders
  <2> QED
    BY <1>1, <1>2, <1>3, <1>6, <2>1 DEF One
<1>9. x.pc = "returned" => x.c \in Conn
  BY <1>2 DEF c
<1>10. \A i \in 1..Len(idle') :
           \/ InIdle(idle'[i])
           \/ user[u].pc \in Having /\ idle'[i] = user[u].c /\ x.pc \notin Having
  BY <1>6, <1>7 DEF c
<1>11. x.pc \in {"out", "dial"} => x.c = NoConn
  OBVIOUS
<1> QED
  BY <1>3, <1>5, <1>6, <1>8, <1>9, <1>10, <1>11, PlaceMoved
-----------------------------------------------------------------------------
(* Every step keeps the types, the places and the tasks.                   *)

LEMMA TasksKept ==
  ASSUME \A f \in Follower : TaskInv(f), UNCHANGED <<task, closed>>,
         user \in [User -> UserState], NEW u \in User, NEW x, user' = [user EXCEPT ![u] = x],
         \/ x.pc = user[u].pc
         \/ user[u].pc # "following" /\ x.pc \notin {"following", "returned"}
              /\ (u \in Follower => \A t \in Task : task[u][t] \in {"none", "over"})
  PROVE  \A f \in Follower : TaskInv(f)'
<1> SUFFICES ASSUME NEW f \in Follower PROVE TaskInv(f)'
  OBVIOUS
<1>1. f \in User /\ user'[u] = x /\ \A v \in User \ {u} : user'[v] = user[v]
  BY PoolAssumption
<1>2. task' = task /\ closed' = closed /\ TaskInv(f)
  OBVIOUS
<1>3. CASE user'[f].pc = user[f].pc
  BY <1>2, <1>3 DEF TaskInv
<1>4. CASE user'[f].pc # user[f].pc
  <2>1. f = u /\ x.pc \notin {"following", "returned"} /\ \A t \in Task : task[f][t] \in {"none", "over"}
    BY <1>1, <1>4
  <2> QED
    BY <1>1, <1>2, <2>1 DEF TaskInv, Closers
<1> QED
  BY <1>3, <1>4

LEMMA TasksIdle ==
  ASSUME \A f \in Follower : TaskInv(f), NEW u \in User, user[u].pc \notin {"following", "returned"}
  PROVE  u \in Follower => \A t \in Task : task[u][t] \in {"none", "over"}
BY DEF TaskInv

-----------------------------------------------------------------------------
(* Fields.                                                                 *)

Places == Holding \cup {"out", "returned"}

\* What the fields of a user's state are, but for what it keeps of commands.
UserIs(x, pc, c, n) == x \in UserState /\ x.pc = pc /\ x.c = c /\ x.n = n

LEMMA UserFields ==
  ASSUME NEW r \in UserState, NEW p \in Places, NEW n \in Nat, NEW s \in SUBSET ConnState
  PROVE  /\ UserIs([r EXCEPT !.pc = p], p, r.c, r.n)
         /\ UserIs([r EXCEPT !.state = s], r.pc, r.c, r.n)
         /\ UserIs([r EXCEPT !.pc = p, !.state = s], p, r.c, r.n)
         /\ UserIs([r EXCEPT !.n = n, !.pc = p], p, r.c, n)
         /\ UserIs([r EXCEPT !.pc = p, !.n = n, !.state = s], p, r.c, n)
<1> DEFINE R(a, b, m, st) == [pc |-> a, c |-> b, n |-> m, state |-> st]
<1>1. PICK a \in Places, b \in Conn \cup {NoConn}, m \in Nat, st \in SUBSET ConnState :
        r = R(a, b, m, st)
  BY DEF UserState, Places
<1> DEFINE rp == [r EXCEPT !.pc = p]
           rn == [r EXCEPT !.n = n]
           rpn == [rp EXCEPT !.n = n]
<1>2. rp = R(p, b, m, st) /\ rn = R(a, b, n, st) /\ [r EXCEPT !.state = s] = R(a, b, m, s)
  BY <1>1
<1>a. /\ [r EXCEPT !.pc = p, !.state = s] = [rp EXCEPT !.state = s]
      /\ [r EXCEPT !.n = n, !.pc = p] = [rn EXCEPT !.pc = p]
      /\ [r EXCEPT !.pc = p, !.n = n, !.state = s] = [rpn EXCEPT !.state = s]
      /\ [r EXCEPT !.pc = p] = rp
  OBVIOUS
<1> HIDE DEF rp, rn
<1>b. rpn = R(p, b, n, st)
  BY <1>2
<1> HIDE DEF rpn
<1>c. /\ [rp EXCEPT !.state = s] = R(p, b, m, s)
      /\ [rn EXCEPT !.pc = p] = R(p, b, n, st)
      /\ [rpn EXCEPT !.state = s] = R(p, b, n, s)
  BY <1>2, <1>b
<1>3. \A a1 \in Places, m1 \in Nat, st1 \in SUBSET ConnState :
        UserIs(R(a1, b, m1, st1), a1, b, m1)
  BY DEF UserState, Places, UserIs
<1>4. r.pc = a /\ r.c = b /\ r.n = m
  BY <1>1
<1> HIDE DEF R
<1>5. /\ [r EXCEPT !.pc = p] = R(p, b, m, st)
      /\ [r EXCEPT !.state = s] = R(a, b, m, s)
      /\ [r EXCEPT !.pc = p, !.state = s] = R(p, b, m, s)
      /\ [r EXCEPT !.n = n, !.pc = p] = R(p, b, n, st)
      /\ [r EXCEPT !.pc = p, !.n = n, !.state = s] = R(p, b, n, s)
  BY <1>2, <1>a, <1>c, Zenon
<1> QED
  BY <1>1, <1>3, <1>4, <1>5

\* What the fields of a connection are.
ConnIs(k, status, pending, pipe, subscribed) ==
  /\ k \in Connection
  /\ k.status = status /\ k.pending = pending /\ k.pipe = pipe /\ k.subscribed = subscribed

Statuses == {"none", "open", "broken", "closed"}

LEMMA ConnFields ==
  ASSUME NEW r \in Connection, NEW n \in Nat, NEW p \in Seq(Reply), NEW b \in BOOLEAN,
         NEW s \in Statuses
  PROVE  /\ ConnIs([r EXCEPT !.pipe = p], r.status, r.pending, p, r.subscribed)
         /\ ConnIs([r EXCEPT !.pending = n], r.status, n, r.pipe, r.subscribed)
         /\ ConnIs([r EXCEPT !.pipe = p, !.pending = n], r.status, n, p, r.subscribed)
         /\ ConnIs([r EXCEPT !.pending = n, !.subscribed = b], r.status, n, r.pipe, b)
         /\ ConnIs([r EXCEPT !.status = s, !.pipe = p], s, r.pending, p, r.subscribed)
<1> DEFINE R(st, m, q, c) == [status |-> st, pending |-> m, pipe |-> q, subscribed |-> c]
<1>1. PICK st \in Statuses, m \in Nat, q \in Seq(Reply), c \in BOOLEAN : r = R(st, m, q, c)
  BY DEF Connection, Statuses
<1> DEFINE rq == [r EXCEPT !.pipe = p]
           rn == [r EXCEPT !.pending = n]
           rs == [r EXCEPT !.status = s]
<1>2. rq = R(st, m, p, c) /\ rn = R(st, n, q, c) /\ rs = R(s, m, q, c)
  BY <1>1
<1>a. /\ [r EXCEPT !.pipe = p, !.pending = n] = [rq EXCEPT !.pending = n]
      /\ [r EXCEPT !.pending = n, !.subscribed = b] = [rn EXCEPT !.subscribed = b]
      /\ [r EXCEPT !.status = s, !.pipe = p] = [rs EXCEPT !.pipe = p]
      /\ [r EXCEPT !.pipe = p] = rq /\ [r EXCEPT !.pending = n] = rn
  OBVIOUS
<1> HIDE DEF rq, rn, rs
<1>b. /\ [rq EXCEPT !.pending = n] = R(st, n, p, c)
      /\ [rn EXCEPT !.subscribed = b] = R(st, n, q, b)
      /\ [rs EXCEPT !.pipe = p] = R(s, m, p, c)
  BY <1>2
<1>3. \A st1 \in Statuses, m1 \in Nat, q1 \in Seq(Reply), c1 \in BOOLEAN :
        ConnIs(R(st1, m1, q1, c1), st1, m1, q1, c1)
  BY DEF Connection, Statuses, ConnIs
<1>4. r.status = st /\ r.pending = m /\ r.pipe = q /\ r.subscribed = c
  BY <1>1
<1> HIDE DEF R
<1>5. /\ [r EXCEPT !.pipe = p] = R(st, m, p, c)
      /\ [r EXCEPT !.pending = n] = R(st, n, q, c)
      /\ [r EXCEPT !.pipe = p, !.pending = n] = R(st, n, p, c)
      /\ [r EXCEPT !.pending = n, !.subscribed = b] = R(st, n, q, b)
      /\ [r EXCEPT !.status = s, !.pipe = p] = R(s, m, p, c)
  BY <1>2, <1>a, <1>b, Zenon
<1> QED
  BY <1>1, <1>3, <1>4, <1>5

\* The tail of what is on its way.
LEMMA TailIs ==
  ASSUME NEW p \in Seq(Reply), p # << >>
  PROVE  /\ Tail(p) \in Seq(Reply) /\ Len(Tail(p)) = Len(p) - 1 /\ Len(p) \in Nat \ {0}
         /\ Head(p) = p[1]
         /\ \A i \in 1..Len(Tail(p)) : Tail(p)[i] = p[i + 1] /\ i + 1 \in 1..Len(p)
OBVIOUS

LEMMA CountedIs ==
  ASSUME NEW n \in Nat
  PROVE  Counted(n) \in Nat
BY DEF Counted

LEMMA TakenIs ==
  ASSUME NEW c \in Conn, conn[c] \in Connection, Answer(c)
  PROVE  /\ ConnIs(Taken(c), conn[c].status, conn[c].pending, Tail(conn[c].pipe),
                   conn[c].subscribed)
         /\ ConnIs(Received(c), conn[c].status, Counted(conn[c].pending), Tail(conn[c].pipe),
                   conn[c].subscribed)
<1> DEFINE k == conn[c]
<1>1. k \in Connection /\ k.pipe # << >>
  BY DEF Answer
<1>2. Taken(c) = [k EXCEPT !.pipe = Tail(k.pipe)]
  BY DEF Taken
<1>3. Received(c) = [k EXCEPT !.pipe = Tail(k.pipe), !.pending = Counted(k.pending)]
  BY DEF Received
<1> HIDE DEF k
<1>4. k.pipe \in Seq(Reply) /\ k.pending \in Nat
  BY <1>1 DEF Connection
<1> DEFINE q == Tail(k.pipe)
           n == Counted(k.pending)
<1>5. q \in Seq(Reply)
  BY <1>1, <1>4, TailIs
<1>6. n \in Nat
  BY <1>4, CountedIs
<1>a. "none" \in Statuses /\ TRUE \in BOOLEAN
  BY DEF Statuses
<1> HIDE DEF q, n
<1>7. /\ ConnIs([k EXCEPT !.pipe = q], k.status, k.pending, q, k.subscribed)
      /\ ConnIs([k EXCEPT !.pipe = q, !.pending = n], k.status, n, q, k.subscribed)
  BY <1>1, <1>5, <1>6, <1>a, ConnFields
<1> QED
  BY <1>2, <1>3, <1>7 DEF q, n, k

-----------------------------------------------------------------------------
(* A step of one user with its connection.                                 *)

LEMMA StepBase ==
  ASSUME PoolTypeOK, PlaceInv, NEW u \in User, NEW x \in UserState, NEW k \in Connection,
         user' = [user EXCEPT ![u] = x], UNCHANGED <<idle, active>>,
         user[u].pc \in Having, x.pc \in Having, x.c = user[u].c, x.pc = "wait" => x.n > 0,
         conn' = [conn EXCEPT ![user[u].c] = k], raced' \in BOOLEAN,
         task' \in [Follower -> [Task -> TaskState]], closed' \in [Follower -> BOOLEAN]
  PROVE  PoolTypeOK' /\ PlaceInv'
<1>1. PlaceInv'
  BY PlaceKept
<1>2. user' \in [User -> UserState] /\ conn' \in [Conn -> Connection]
  BY DEF PoolTypeOK
<1>3. PoolTypeOK'
  BY <1>2 DEF PoolTypeOK
<1> QED
  BY <1>1, <1>3

\* A user has the connection it waits on or holds.
LEMMA Has ==
  ASSUME BaseInv, NEW u \in User, user[u].pc \in Having
  PROVE  /\ PoolTypeOK /\ PlaceInv /\ \A f \in Follower : TaskInv(f)
         /\ user[u].c \in Conn /\ conn[user[u].c] \in Connection
         /\ user \in [User -> UserState] /\ user[u] \in UserState
         /\ raced \in BOOLEAN /\ task \in [Follower -> [Task -> TaskState]]
         /\ closed \in [Follower -> BOOLEAN]
<1>1. PoolTypeOK /\ PlaceInv /\ \A f \in Follower : TaskInv(f)
  BY DEF BaseInv
<1>2. user[u].c \in Conn
  BY <1>1 DEF PlaceInv
<1> QED
  BY <1>1, <1>2 DEF PoolTypeOK

LEMMA RacedType ==
  ASSUME NEW c, NowRaced(c), raced \in BOOLEAN
  PROVE  raced' \in BOOLEAN /\ (~raced' => ~raced /\ ~(Cardinality(Readers(c)) > 1))
BY DEF NowRaced

-----------------------------------------------------------------------------
(* What a step of one user does to the answers of the others: nothing.     *)

\* The connections a step of w may change.
Touched(w, d) ==
  \/ InIdle(d)
  \/ user[w].pc \in Having /\ d = user[w].c
  \/ d \in Unused

\* What there is to show about the follower that makes a step.
FollowerOK(f) == FollowInv(user[f], task[f], closed[f], conn[user[f].c]) /\ StaleInv(f)

LEMMA Moved ==
  ASSUME BaseInv, ReplyInv, ~raced, NEW w \in User, NEW x, user' = [user EXCEPT ![w] = x],
         \A f \in Follower \ {w} : task'[f] = task[f] /\ closed'[f] = closed[f],
         \A d \in Conn : conn'[d] = conn[d] \/ Touched(w, d),
         \A i \in 1..Len(idle') : Clean(conn'[idle'[i]]),
         \A i \in 1..Len(idle') : Touched(w, idle'[i]),
         x.pc \in Having => Touched(w, x.c),
         UserInv(w, x, conn'[x.c]),
         w \in Follower => FollowerOK(w)'
  PROVE  ReplyInv'
<1>1. /\ PoolTypeOK /\ PlaceInv /\ \A f \in Follower : TaskInv(f)
      /\ user \in [User -> UserState]
  BY DEF BaseInv, PoolTypeOK
<1>2. user'[w] = x /\ \A v \in User \ {w} : user'[v] = user[v]
  BY <1>1
<1>3. \A v \in User \ {w} : user[v].pc \in Having =>
        user[v].c \in Conn /\ ~Touched(w, user[v].c)
  BY <1>1, HavingIs DEF PlaceInv, Accounted, InIdle, Unused, Touched
<1>4. /\ \A u \in User : UserInv(u, user[u], conn[user[u].c])
      /\ \A f \in Follower :
           FollowInv(user[f], task[f], closed[f], conn[user[f].c]) /\ StaleInv(f)
  BY DEF ReplyInv
<1>5. ASSUME NEW v \in User
      PROVE  UserInv(v, user'[v], conn'[user'[v].c])
  <2>1. CASE v = w
    BY <1>2, <2>1
  <2>2. CASE v # w /\ user[v].pc \in Having
    <3>1. user'[v] = user[v] /\ conn'[user[v].c] = conn[user[v].c]
      BY <1>2, <1>3, <2>2
    <3>2. UserInv(v, user[v], conn[user[v].c])
      BY <1>4
    <3> QED
      BY <3>1, <3>2, Zenon
  <2>3. CASE v # w /\ user[v].pc \notin Having
    BY <1>2, <2>3 DEF UserInv, Having
  <2> QED
    BY <2>1, <2>2, <2>3
<1>6. ASSUME NEW f \in Follower, f # w
      PROVE  FollowInv(user'[f], task'[f], closed'[f], conn'[user'[f].c])
  <2>1. f \in User /\ user'[f] = user[f] /\ task'[f] = task[f] /\ closed'[f] = closed[f]
    BY <1>2, <1>6, PoolAssumption
  <2>2. CASE user[f].pc = "following"
    <3>1. conn'[user[f].c] = conn[user[f].c]
      BY <1>3, <1>6, <2>1, <2>2 DEF Having
    <3>2. FollowInv(user[f], task[f], closed[f], conn[user[f].c])
      BY <1>4
    <3> QED
      BY <2>1, <3>1, <3>2, Zenon
  <2>3. CASE user[f].pc # "following"
    BY <2>1, <2>3 DEF FollowInv
  <2> QED
    BY <2>2, <2>3
<1>7. ASSUME NEW f \in Follower, f # w
      PROVE  StaleInv(f)'
  <2> SUFFICES ASSUME task'[f]["reading"] = "receive" /\ closed'[f] /\ task'[f]["handler"] # "drain"
               PROVE  /\ conn'[user'[f].c] = Closed
                      /\ ~(\E i \in 1..Len(idle') : idle'[i] = user'[f].c)
                      /\ \A u \in User : (user'[u].pc \in Having /\ user'[u].c = user'[f].c) => u = f
    BY DEF StaleInv, InIdle
  <2>1. f \in User /\ user'[f] = user[f] /\ task'[f] = task[f] /\ closed'[f] = closed[f]
    BY <1>2, <1>7, PoolAssumption
  <2> DEFINE c == user[f].c
  <2>2. /\ conn[c] = Closed /\ ~InIdle(c)
        /\ \A u \in User : (user[u].pc \in Having /\ user[u].c = c) => u = f
    BY <1>4, <2>1 DEF StaleInv
  <2>3. c \in Conn
    <3>1. user[f].pc \in {"following", "returned"}
      <4>1. TaskInv(f) /\ task[f]["reading"] = "receive"
        BY <1>1, <2>1
      <4> QED
        BY <4>1 DEF TaskInv, Task
    <3> QED
      BY <1>1, <2>1, <3>1 DEF PlaceInv, Having
  <2>4. c \notin Unused
    BY <2>1 DEF Unused
  <2>5. ~Touched(w, c)
    BY <1>7, <2>2, <2>4 DEF Touched
  <2>6. conn'[c] = Closed
    BY <2>2, <2>3, <2>5
  <2>7. \A u \in User : (user'[u].pc \in Having /\ user'[u].c = c) => u = f
    BY <1>2, <2>2, <2>5
  <2> HIDE DEF c
  <2>8. ~(\E i \in 1..Len(idle') : idle'[i] = c)
    BY <2>5
  <2> QED
    BY <2>1, <2>6, <2>7, <2>8 DEF c
<1>8. \A f \in Follower :
        FollowInv(user'[f], task'[f], closed'[f], conn'[user'[f].c]) /\ StaleInv(f)'
  BY <1>6, <1>7 DEF FollowerOK
<1>9. CleanIdle'
  BY DEF CleanIdle, Clean
<1> QED
  BY <1>5, <1>8, <1>9 DEF ReplyInv

\* ... when it stays with its connection.
LEMMA Stayed ==
  ASSUME BaseInv, ReplyInv, ~raced, NEW w \in User, NEW x, user' = [user EXCEPT ![w] = x],
         \A f \in Follower \ {w} : task'[f] = task[f] /\ closed'[f] = closed[f],
         idle' = idle, user[w].pc \in Having, x.c = user[w].c, NEW k,
         conn' = [conn EXCEPT ![user[w].c] = k],
         UserInv(w, x, k),
         w \in Follower => FollowerOK(w)'
  PROVE  ReplyInv'
<1>1. /\ PoolTypeOK /\ PlaceInv
      /\ conn \in [Conn -> Connection] /\ idle \in Seq(Conn)
  BY DEF BaseInv, PoolTypeOK
<1>2. user[w].c \in Conn /\ conn'[user[w].c] = k
  BY <1>1 DEF PlaceInv
<1>3. \A d \in Conn : conn'[d] = conn[d] \/ Touched(w, d)
  BY <1>1, <1>2 DEF Touched
<1>4. \A i \in 1..Len(idle) : idle[i] \in Conn /\ idle[i] # user[w].c
  BY <1>1, HavingIs DEF PlaceInv, Accounted
<1>5. \A i \in 1..Len(idle') : Clean(conn'[idle'[i]])
  BY <1>1, <1>4 DEF ReplyInv, CleanIdle
<1>6. \A i \in 1..Len(idle') : Touched(w, idle'[i])
  BY DEF Touched, InIdle
<1>7. x.pc \in Having => Touched(w, x.c)
  BY DEF Touched
<1>8. UserInv(w, x, conn'[x.c])
  BY <1>2
<1> QED
  BY <1>3, <1>5, <1>6, <1>7, <1>8, Moved
Plain == {"test", "held", "wait"}

\* A follower that has not subscribed yet is not in the way.
LEMMA NotFollowing ==
  ASSUME BaseInv, NEW w \in Follower, user[w].pc \notin {"following", "returned"},
         user'[w].pc # "following", task' = task
  PROVE  FollowerOK(w)'
<1>1. \A t \in Task : task[w][t] \in {"none", "over"}
  BY DEF BaseInv, TaskInv
<1>2. task'[w]["reading"] # "receive"
  BY <1>1 DEF Task
<1> QED
  BY <1>2 DEF FollowerOK, FollowInv, StaleInv

-----------------------------------------------------------------------------
(* Pool.Get and conn.Do.                                                   *)

\* A user goes on with its connection, and is not following.
LEMMA PlainStep ==
  ASSUME PoolInv, NEW u \in User, NEW x \in UserState, NEW k \in Connection,
         user' = [user EXCEPT ![u] = x], UNCHANGED <<idle, active, task, closed>>,
         user[u].pc \in Plain, x.pc \in Plain, x.c = user[u].c, x.pc = "wait" => x.n > 0,
         conn' = [conn EXCEPT ![user[u].c] = k], raced' \in BOOLEAN, raced => raced',
         UserInv(u, user[u], conn[user[u].c]) => UserInv(u, x, k)
  PROVE  PoolInv'
<1>1. BaseInv /\ ReplyInv /\ user[u].pc \in Having /\ x.pc \in Having
  BY DEF PoolInv, Plain, Having
<1>2. /\ PoolTypeOK /\ PlaceInv /\ \A f \in Follower : TaskInv(f)
      /\ user[u].c \in Conn /\ conn[user[u].c] \in Connection
      /\ user \in [User -> UserState] /\ user[u] \in UserState /\ raced \in BOOLEAN
      /\ task \in [Follower -> [Task -> TaskState]] /\ closed \in [Follower -> BOOLEAN]
  BY <1>1, Has
<1>3. PoolTypeOK' /\ PlaceInv'
  BY <1>1, <1>2, StepBase
<1>4. \A f \in Follower : TaskInv(f)'
  BY <1>2, TasksKept, TasksIdle DEF Plain
<1>5. ReplyInv'
  <2>1. CASE raced'
    BY <2>1 DEF ReplyInv
  <2>2. CASE ~raced'
    <3>1. ~raced
      BY <1>2, <2>2
    <3>2. UserInv(u, x, k)
      BY <1>1, <3>1 DEF ReplyInv
    <3>3. u \in Follower => FollowerOK(u)'
      <4>1. user'[u].pc # "following" /\ user[u].pc \notin {"following", "returned"} /\ task' = task
        BY <1>2 DEF Plain
      <4> QED
        BY <1>1, <4>1, NotFollowing
    <3> QED
      BY <1>1, <3>1, <3>2, <3>3, Stayed
  <2> QED
    BY <2>1, <2>2
<1> QED
  BY <1>3, <1>4, <1>5 DEF PoolInv, BaseInv

LEMMA TestedStep ==
  ASSUME PoolInv, NEW u \in User, Tested(u)
  PROVE  PoolInv'
<1> DEFINE c == user[u].c
           x == [user[u] EXCEPT !.pc = "held"]
<1>1. /\ user[u].pc = "test" /\ Answer(c) /\ NowRaced(c)
      /\ conn' = [conn EXCEPT ![c] = Taken(c)] /\ user' = [user EXCEPT ![u] = x]
      /\ UNCHANGED <<idle, active, task, closed>>
  BY DEF Tested
<1>2. /\ c \in Conn /\ conn[c] \in Connection /\ user[u] \in UserState /\ raced \in BOOLEAN
  BY <1>1, Has DEF PoolInv, Having
<1>3. x \in UserState /\ x.pc = "held" /\ x.c = c
  <2>1. "held" \in Places /\ 0 \in Nat /\ {} \in SUBSET ConnState
    BY DEF Places, Holding
  <2>2. UserIs(x, "held", c, user[u].n)
    BY <1>2, <2>1, UserFields, Zenon
  <2> QED
    BY <2>2 DEF UserIs
<1>4. raced' \in BOOLEAN /\ (raced => raced')
  BY <1>1, <1>2, RacedType
<1> HIDE DEF x, c
<1>5. ConnIs(Taken(c), conn[c].status, conn[c].pending, Tail(conn[c].pipe), conn[c].subscribed)
  BY <1>1, <1>2, TakenIs
<1>6. UserInv(u, user[u], conn[c]) => UserInv(u, x, Taken(c))
  <2> SUFFICES ASSUME Own(conn[c], u, 1) PROVE Clean(Taken(c))
    BY <1>1, <1>3 DEF UserInv
  <2>1. conn[c].pipe \in Seq(Reply) /\ conn[c].pipe # << >> /\ Len(conn[c].pipe) <= 1
    BY <1>1, <1>2 DEF Own, Answer, Connection
  <2>2. Tail(conn[c].pipe) = << >>
    BY <2>1
  <2> QED
    BY <1>5, <2>2 DEF ConnIs, Clean, Own
<1>7. Taken(c) \in Connection
  BY <1>5 DEF ConnIs
<1> QED
  BY <1>1, <1>3, <1>4, <1>6, <1>7, PlainStep DEF Plain, c

LEMMA DoFailsStep ==
  ASSUME PoolInv, NEW u \in User, DoFails(u)
  PROVE  PoolInv'
<1> DEFINE c == user[u].c
           x == [user[u] EXCEPT !.pc = "held"]
<1>1. /\ user[u].pc = "wait"
      /\ conn' = [conn EXCEPT ![c] = Closed] /\ user' = [user EXCEPT ![u] = x]
      /\ UNCHANGED <<idle, active, task, closed, raced>>
  BY DEF DoFails
<1>2. /\ c \in Conn /\ conn[c] \in Connection /\ user[u] \in UserState /\ raced \in BOOLEAN
  BY <1>1, Has DEF PoolInv, Having
<1>3. x \in UserState /\ x.pc = "held" /\ x.c = c
  <2>1. "held" \in Places /\ 0 \in Nat /\ {} \in SUBSET ConnState
    BY DEF Places, Holding
  <2>2. UserIs(x, "held", c, user[u].n)
    BY <1>2, <2>1, UserFields, Zenon
  <2> QED
    BY <2>2 DEF UserIs
<1> HIDE DEF x, c
<1>4. UserInv(u, x, Closed)
  BY <1>3, ClosedIs DEF UserInv
<1>5. raced' \in BOOLEAN /\ (raced => raced')
  BY <1>1, <1>2
<1> QED
  BY <1>1, <1>3, <1>4, <1>5, ClosedIs, PlainStep DEF Plain, c

LEMMA DoReturnsStep ==
  ASSUME PoolInv, NEW u \in User, DoReturns(u)
  PROVE  PoolInv'
<1> DEFINE c == user[u].c
           n == user[u].n - 1
           p == IF user[u].n = 1 THEN "held" ELSE "wait"
           x == [user[u] EXCEPT !.n = n, !.pc = p]
<1>1. /\ user[u].pc = "wait" /\ Answer(c) /\ NowRaced(c)
      /\ conn' = [conn EXCEPT ![c] = Taken(c)]
      /\ user' = [user EXCEPT ![u].n = @ - 1, ![u].pc = p]
      /\ UNCHANGED <<idle, active, task, closed>>
  BY DEF DoReturns
<1>2. /\ c \in Conn /\ conn[c] \in Connection /\ user[u] \in UserState /\ raced \in BOOLEAN
      /\ user[u].n > 0 /\ user[u].n \in Nat /\ user \in [User -> UserState]
  <2>1. user[u].pc = "wait" => user[u].n > 0
    BY DEF PoolInv, BaseInv, PlaceInv
  <2>2. /\ c \in Conn /\ conn[c] \in Connection /\ user[u] \in UserState /\ raced \in BOOLEAN
        /\ user \in [User -> UserState]
    BY <1>1, Has DEF PoolInv, Having
  <2> QED
    BY <1>1, <2>1, <2>2 DEF UserState
<1>a. user' = [user EXCEPT ![u] = x]
  BY <1>1
<1>3. x \in UserState /\ x.pc = p /\ x.c = c /\ x.n = n /\ n \in Nat
  <2>1. p \in Places /\ {} \in SUBSET ConnState
    BY DEF Places, Holding
  <2>2. n \in Nat
    BY <1>2
  <2> HIDE DEF n, p
  <2>3. UserIs(x, p, c, n)
    BY <1>2, <2>1, <2>2, UserFields, Zenon
  <2> QED
    BY <2>2, <2>3 DEF UserIs
<1>4. raced' \in BOOLEAN /\ (raced => raced')
  BY <1>1, <1>2, RacedType
<1>b. p \in Plain /\ (p = "wait" => n > 0) /\ (p = "held" => n = 0) /\ p # "test"
  BY <1>2 DEF Plain
<1> HIDE DEF x, c
<1>5. ConnIs(Taken(c), conn[c].status, conn[c].pending, Tail(conn[c].pipe), conn[c].subscribed)
  BY <1>1, <1>2, TakenIs
<1>6. UserInv(u, user[u], conn[c]) => UserInv(u, x, Taken(c))
  <2> SUFFICES ASSUME Own(conn[c], u, user[u].n)
               PROVE  /\ p = "held" => Clean(Taken(c))
                      /\ p = "wait" => Own(Taken(c), u, n)
    BY <1>1, <1>3, <1>b DEF UserInv
  <2> DEFINE q == conn[c].pipe
  <2>1. q \in Seq(Reply) /\ q # << >> /\ Len(q) <= user[u].n /\ \A i \in 1..Len(q) : q[i] = u
    BY <1>1, <1>2 DEF Own, Answer, Connection
  <2> HIDE DEF q
  <2>2. PICK t \in Seq(Reply) : /\ t = Tail(q) /\ Len(t) = Len(q) - 1 /\ Len(q) \in Nat
                                /\ \A i \in 1..Len(t) : t[i] = u
    BY <2>1, TailIs
  <2>3. Len(t) <= n
    BY <1>2, <2>1, <2>2
  <2>4. Own(Taken(c), u, n)
    BY <1>5, <2>2, <2>3 DEF ConnIs, Own, q
  <2>5. n = 0 => t = << >>
    BY <2>2, <2>3
  <2>6. n = 0 => Clean(Taken(c))
    BY <1>5, <2>2, <2>4, <2>5 DEF ConnIs, Own, Clean, q
  <2> QED
    BY <1>b, <2>4, <2>6
<1>7. Taken(c) \in Connection
  BY <1>5 DEF ConnIs
<1>8. x.pc = "wait" => x.n > 0
  BY <1>3, <1>b
<1>9. user[u].pc \in Plain /\ x.pc \in Plain /\ x.c = user[u].c
  BY <1>1, <1>3, <1>b DEF Plain, c
<1> HIDE DEF n, p
<1> QED
  BY <1>1, <1>a, <1>3, <1>4, <1>6, <1>7, <1>8, <1>9, PlainStep DEF c

LEMMA DoStep ==
  ASSUME PoolInv, NEW u \in User, NEW commands \in Calls, Do(u, commands)
  PROVE  PoolInv'
<1> DEFINE c == user[u].c
           sent == Len(commands)
           n == conn[c].pending + sent
           replies == [i \in 1..sent |-> u]
           st == Tracked(user[u].state, commands)
           x == [user[u] EXCEPT !.pc = "wait", !.n = n, !.state = st]
           k == [Sent(c, replies) EXCEPT !.pending = 0]
<1>1. /\ user[u].pc = "held"
      /\ conn' = [conn EXCEPT ![c] = k]
      /\ user' = [user EXCEPT ![u].pc = "wait", ![u].n = n, ![u].state = Tracked(@, commands)]
      /\ UNCHANGED <<idle, active, task, closed, raced>>
  BY DEF Do
<1>2. /\ c \in Conn /\ conn[c] \in Connection /\ user[u] \in UserState /\ raced \in BOOLEAN
      /\ user \in [User -> UserState]
  BY <1>1, Has DEF PoolInv, Having
<1>3. user' = [user EXCEPT ![u] = x]
  BY <1>1
<1>4. sent \in Nat \ {0}
  BY DEF Calls, Transaction
<1> HIDE DEF sent
<1>5. n \in Nat /\ n > 0 /\ st \in SUBSET ConnState /\ conn[c].pending \in Nat
  BY <1>2, <1>4, TrackedIs DEF Connection
<1>6. replies \in Seq(Reply) /\ Len(replies) = sent /\ \A i \in 1..Len(replies) : replies[i] = u
  BY <1>4 DEF Reply
<1> HIDE DEF st, n, replies, c
<1>7. x \in UserState /\ x.pc = "wait" /\ x.c = c /\ x.n = n
  <2>1. "wait" \in Places
    BY DEF Places, Holding
  <2>2. UserIs(x, "wait", c, n)
    BY <1>2, <1>5, <2>1, UserFields, Zenon DEF c
  <2> QED
    BY <2>2 DEF UserIs
<1>8. /\ Sent(c, replies) \in Connection
      /\ Sent(c, replies).subscribed = conn[c].subscribed
      /\ Sent(c, replies).status = conn[c].status
      /\ Sent(c, replies).pipe =
           IF conn[c].status = "open" THEN conn[c].pipe \o replies ELSE conn[c].pipe
  BY <1>2, <1>6, SentIs
<1>9. ConnIs(k, conn[c].status, 0, Sent(c, replies).pipe, conn[c].subscribed)
  <2>1. Sent(c, replies).pipe \in Seq(Reply) /\ 0 \in Nat /\ TRUE \in BOOLEAN /\ "open" \in Statuses
    BY <1>8 DEF Connection, Statuses
  <2>2. ConnIs(k, Sent(c, replies).status, 0, Sent(c, replies).pipe, Sent(c, replies).subscribed)
    BY <1>8, <2>1, ConnFields, Zenon
  <2> QED
    BY <1>8, <2>2
<1> HIDE DEF k, x
<1>10. UserInv(u, user[u], conn[c]) => UserInv(u, x, k)
  <2> SUFFICES ASSUME Clean(conn[c]) PROVE Own(k, u, n)
    BY <1>1, <1>7 DEF UserInv
  <2>1. conn[c].pipe = << >> /\ conn[c].pending = 0 /\ ~conn[c].subscribed
    BY DEF Clean
  <2>2. n = sent
    BY <1>4, <2>1 DEF n
  <2>3. << >> \o replies = replies
    BY <1>6
  <2>4. Sent(c, replies).pipe = replies \/ Sent(c, replies).pipe = << >>
    BY <1>8, <2>1, <2>3
  <2> DEFINE p == Sent(c, replies).pipe
  <2> HIDE DEF p
  <2>5. Len(p) <= n /\ \A i \in 1..Len(p) : p[i] = u
    BY <1>4, <1>6, <2>2, <2>4 DEF p
  <2> QED
    BY <1>9, <2>1, <2>5 DEF ConnIs, Own, p
<1>11. k \in Connection
  BY <1>9 DEF ConnIs
<1>12. raced' \in BOOLEAN /\ (raced => raced')
  BY <1>1, <1>2
<1> QED
  BY <1>1, <1>3, <1>5, <1>7, <1>10, <1>11, <1>12, PlainStep DEF Plain, c

\* A user takes an idle connection, or dials; some are closed.
LEMMA TakenStep ==
  ASSUME PoolInv, NEW u \in User, NEW x \in UserState, NEW d \in {0, 1}, NEW gone \in SUBSET Conn,
         user[u].pc \in {"out", "test"}, user' = [user EXCEPT ![u] = x],
         idle' \in Seq(Conn), Len(idle') + d <= Len(idle),
         \A i \in 1..Len(idle') : idle'[i] = idle[i + d] /\ i + d \in 1..Len(idle),
         \/ d = 1 /\ Len(idle) > 0 /\ x.pc = "test" /\ x.c = idle[1] /\ x.c \in Conn
              /\ x.c \notin gone
         \/ d = 0 /\ x.pc = "dial" /\ x.c = NoConn,
         active' = Len(idle') + Cardinality(Holders) + 1 - One(user[u].pc \in Holding),
         \A c \in gone : Touched(u, c),
         conn' = [c \in Conn |-> IF c \in gone THEN Closed
                                 ELSE IF x.c = c THEN Sent(c, <<u>>) ELSE conn[c]],
         UNCHANGED <<task, closed, raced>>
  PROVE  PoolInv'
<1>1. /\ BaseInv /\ ReplyInv /\ PoolTypeOK /\ PlaceInv /\ \A f \in Follower : TaskInv(f)
      /\ conn \in [Conn -> Connection] /\ idle \in Seq(Conn) /\ Len(idle) \in Nat
      /\ user \in [User -> UserState]
      /\ \A i, j \in 1..Len(idle) : idle[i] = idle[j] => i = j
  BY DEF PoolInv, BaseInv, PoolTypeOK, PlaceInv, Accounted
<1>2. PlaceInv' /\ Len(idle') <= MaxIdle
  <2>1. \/ d = 1 /\ Len(idle) > 0 /\ x.pc = "test" /\ x.c = idle[1] /\ x.c \in Conn
        \/ d = 0 /\ x.pc = "dial" /\ x.c = NoConn
    OBVIOUS
  <2> QED
    BY <1>1, <2>1, PlaceTaken
<1>3. \A f \in Follower : TaskInv(f)'
  <2>1. x.pc \notin {"following", "returned"}
    OBVIOUS
  <2> QED
    BY <1>1, <2>1, TasksKept, TasksIdle
<1>4. conn' \in [Conn -> Connection]
  <2>1. \A c \in Conn : Sent(c, <<u>>) \in Connection
    <3>1. <<u>> \in Seq(Reply)
      BY DEF Reply
    <3> QED
      BY <1>1, <3>1, SentIs
  <2> QED
    BY <1>1, <2>1, ClosedIs
<1>5. active' \in Nat
  <2>1. Len(idle') \in Nat /\ One(user[u].pc \in Holding) \in {0, 1} /\ Cardinality(Holders) \in Nat
    BY HoldersNat DEF One
  <2> QED
    BY <2>1
<1>6. BaseInv'
  <2>1. user' \in [User -> UserState]
    BY <1>1
  <2>2. PoolTypeOK'
    BY <1>1, <1>2, <1>4, <1>5, <2>1 DEF PoolTypeOK
  <2> QED
    BY <1>2, <1>3, <2>2 DEF BaseInv
<1>7. CASE raced
  BY <1>6, <1>7 DEF PoolInv, ReplyInv
<1>8. CASE ~raced
  <2>1. x.pc = "test" => x.c \notin gone /\ InIdle(x.c) /\ x.c \in Conn
    BY <1>1 DEF InIdle
  <2>2. x.pc # "test" => x.c \notin Conn
    BY PoolAssumption
  <2>3. \A c \in Conn : conn'[c] = IF c \in gone THEN Closed
                                   ELSE IF x.c = c THEN Sent(c, <<u>>) ELSE conn[c]
    OBVIOUS
  <2>4. \A c \in Conn : conn'[c] = conn[c] \/ Touched(u, c)
    <3> SUFFICES ASSUME NEW c \in Conn, c \notin gone, x.c = c PROVE Touched(u, c)
      BY <2>3
    <3> QED
      BY <2>1, <2>2 DEF Touched
  <2>5. \A i \in 1..Len(idle') : InIdle(idle'[i]) /\ idle'[i] \in Conn /\ idle'[i] # x.c
    <3> SUFFICES ASSUME NEW i \in 1..Len(idle')
                 PROVE  InIdle(idle'[i]) /\ idle'[i] \in Conn /\ idle'[i] # x.c
      OBVIOUS
    <3>1. idle'[i] = idle[i + d] /\ i + d \in 1..Len(idle)
      OBVIOUS
    <3>2. InIdle(idle'[i]) /\ idle'[i] \in Conn
      BY <1>1, <3>1 DEF InIdle
    <3>3. CASE d = 0
      <4>1. x.c = NoConn
        BY <3>3
      <4> QED
        BY <3>2, <4>1, PoolAssumption
    <3>4. CASE d = 1
      <4>1. x.c = idle[1] /\ 1 \in 1..Len(idle)
        BY <1>1, <3>4
      <4>2. i + d # 1
        BY <3>4
      <4> QED
        BY <1>1, <3>1, <3>2, <4>1, <4>2
    <3> QED
      BY <3>2, <3>3, <3>4
  <2>6. \A c \in Conn : InIdle(c) => Clean(conn[c])
    BY <1>1, <1>8 DEF ReplyInv, CleanIdle, InIdle
  <2>7. \A i \in 1..Len(idle') : Clean(conn'[idle'[i]])
    BY <2>3, <2>5, <2>6, ClosedIs
  <2>8. UserInv(u, x, conn'[x.c])
    <3>1. CASE x.pc = "test"
      <4> DEFINE c == x.c
      <4>1. c \in Conn /\ conn'[c] = Sent(c, <<u>>) /\ Clean(conn[c])
        BY <2>1, <2>3, <2>6, <3>1
      <4>2. <<u>> \in Seq(Reply)
        BY DEF Reply
      <4> HIDE DEF c
      <4>3. /\ Sent(c, <<u>>).pending = conn[c].pending
            /\ Sent(c, <<u>>).subscribed = conn[c].subscribed
            /\ Sent(c, <<u>>).pipe =
                 IF conn[c].status = "open" THEN conn[c].pipe \o <<u>> ELSE conn[c].pipe
        BY <1>1, <4>1, <4>2, SentIs
      <4>4. PICK p : p = Sent(c, <<u>>).pipe
        OBVIOUS
      <4>5. p = <<u>> \/ p = << >>
        BY <4>1, <4>3, <4>4 DEF Clean
      <4>6. Len(p) <= 1 /\ \A i \in 1..Len(p) : p[i] = u
        <5>1. CASE p = <<u>>
          <6>1. Len(p) = 1 /\ p[1] = u
            BY <5>1
          <6> QED
            BY <6>1
        <5>2. CASE p = << >>
          <6>1. Len(p) = 0
            BY <5>2
          <6> QED
            BY <6>1
        <5> QED
          BY <4>5, <5>1, <5>2
      <4>7. Own(conn'[c], u, 1)
        BY <4>1, <4>3, <4>4, <4>6 DEF Own, Clean
      <4> QED
        BY <3>1, <4>7 DEF UserInv, c
    <3>2. CASE x.pc # "test"
      <4>1. x.pc = "dial"
        BY <3>2
      <4> QED
        BY <4>1 DEF UserInv
    <3> QED
      BY <3>1, <3>2
  <2>9. u \in Follower => FollowerOK(u)'
    <3>1. user'[u].pc # "following" /\ user[u].pc \notin {"following", "returned"} /\ task' = task
      BY <1>1
    <3> QED
      BY <1>1, <3>1, NotFollowing
  <2>10. x.pc \in Having => Touched(u, x.c)
    BY <2>1 DEF Touched, Having
  <2>11. \A i \in 1..Len(idle') : Touched(u, idle'[i])
    BY <2>5 DEF Touched
  <2>12. \A f \in Follower \ {u} : task'[f] = task[f] /\ closed'[f] = closed[f]
    OBVIOUS
  <2>13. ReplyInv'
    BY <1>1, <1>8, <2>4, <2>7, <2>8, <2>9, <2>10, <2>11, <2>12, Moved
  <2> QED
    BY <1>6, <2>13 DEF PoolInv
<1> QED
  BY <1>7, <1>8

LEMMA GetIs ==
  ASSUME PoolTypeOK, NEW u \in User, NEW k \in 0..Len(idle), Get(u, k)
  PROVE  \E x \in UserState, d \in {0, 1} :
           /\ user' = [user EXCEPT ![u] = x]
           /\ idle' \in Seq(Conn) /\ Len(idle') = Len(idle) - k - d
           /\ \A i \in 1..Len(idle') : idle'[i] = idle[i + d] /\ i + d \in 1..Len(idle)
           /\ \/ d = 1 /\ Len(idle) > 0 /\ x.pc = "test" /\ x.c = idle[1] /\ x.c \in Conn
                 /\ 1 \notin (Len(idle) - k + 1)..Len(idle)
              \/ d = 0 /\ x.pc = "dial" /\ x.c = NoConn
           /\ active' = active - k + 1 - d
           /\ conn' = [c \in Conn |->
                   IF c \in {idle[i] : i \in (Len(idle) - k + 1)..Len(idle)} THEN Closed
                   ELSE IF x.c = c THEN Sent(c, <<u>>)
                   ELSE conn[c]]
           /\ user[u].pc = "out" /\ UNCHANGED <<task, closed, raced>>
<1> DEFINE kept == SubSeq(idle, 1, Len(idle) - k)
<1>1. idle \in Seq(Conn) /\ Len(idle) \in Nat /\ user \in [User -> UserState] /\ active \in Nat
  BY DEF PoolTypeOK
<1>2. /\ kept \in Seq(Conn) /\ Len(kept) = Len(idle) - k /\ Len(kept) \in Nat
      /\ \A i \in 1..Len(kept) : kept[i] = idle[i]
  BY <1>1
<1>3. /\ TakeOrDial(u, kept, Len(kept))
      /\ active' = active - k + (IF user'[u].pc = "dial" THEN 1 ELSE 0)
      /\ conn' = [c \in Conn |->
                   IF c \in {idle[i] : i \in (Len(idle) - k + 1)..Len(idle)} THEN Closed
                   ELSE IF user'[u].c = c THEN Sent(c, <<u>>)
                   ELSE conn[c]]
      /\ user[u].pc = "out" /\ UNCHANGED <<task, closed, raced>>
  BY DEF Get
<1> HIDE DEF kept
<1>4. PICK x \in UserState, d \in {0, 1} :
           /\ user' = [user EXCEPT ![u] = x]
           /\ idle' \in Seq(Conn) /\ Len(idle') = Len(kept) - d
           /\ \A i \in 1..Len(idle') : idle'[i] = idle[i + d] /\ i + d \in 1..Len(kept)
           /\ \/ d = 1 /\ Len(kept) > 0 /\ x.pc = "test" /\ x.c = idle[1] /\ x.c \in Conn
              \/ d = 0 /\ x.pc = "dial" /\ x.c = NoConn
  <2>1. Len(kept) <= Len(idle)
    BY <1>1, <1>2
  <2> QED
    BY <1>1, <1>2, <1>3, <2>1, TakeOrDialIs
<1>5. user'[u] = x
  BY <1>1, <1>4
<1>6. active' = active - k + 1 - d
  BY <1>1, <1>3, <1>4, <1>5
<1>7. conn' = [c \in Conn |->
                   IF c \in {idle[i] : i \in (Len(idle) - k + 1)..Len(idle)} THEN Closed
                   ELSE IF x.c = c THEN Sent(c, <<u>>)
                   ELSE conn[c]]
  BY <1>3, <1>5
<1>8. Len(idle') = Len(idle) - k - d
  BY <1>2, <1>4
<1>9. \A i \in 1..Len(idle') : idle'[i] = idle[i + d] /\ i + d \in 1..Len(idle)
  BY <1>1, <1>2, <1>4
<1>10. \/ d = 1 /\ Len(idle) > 0 /\ x.pc = "test" /\ x.c = idle[1] /\ x.c \in Conn
          /\ 1 \notin (Len(idle) - k + 1)..Len(idle)
       \/ d = 0 /\ x.pc = "dial" /\ x.c = NoConn
  BY <1>1, <1>2, <1>4
<1> HIDE DEF kept
<1> QED
  BY <1>3, <1>4, <1>6, <1>7, <1>8, <1>9, <1>10

LEMMA GetStep ==
  ASSUME PoolInv, NEW u \in User, NEW k \in 0..Len(idle), Get(u, k)
  PROVE  PoolInv'
<1>1. /\ PoolTypeOK /\ idle \in Seq(Conn) /\ Len(idle) \in Nat
      /\ active = Len(idle) + Cardinality(Holders)
      /\ \A i, j \in 1..Len(idle) : idle[i] = idle[j] => i = j
  BY DEF PoolInv, BaseInv, PoolTypeOK, PlaceInv, Accounted, Holders
<1>2. PICK x \in UserState, d \in {0, 1} :
           /\ user' = [user EXCEPT ![u] = x]
           /\ idle' \in Seq(Conn) /\ Len(idle') = Len(idle) - k - d
           /\ \A i \in 1..Len(idle') : idle'[i] = idle[i + d] /\ i + d \in 1..Len(idle)
           /\ \/ d = 1 /\ Len(idle) > 0 /\ x.pc = "test" /\ x.c = idle[1] /\ x.c \in Conn
                 /\ 1 \notin (Len(idle) - k + 1)..Len(idle)
              \/ d = 0 /\ x.pc = "dial" /\ x.c = NoConn
           /\ active' = active - k + 1 - d
           /\ conn' = [c \in Conn |->
                   IF c \in {idle[i] : i \in (Len(idle) - k + 1)..Len(idle)} THEN Closed
                   ELSE IF x.c = c THEN Sent(c, <<u>>)
                   ELSE conn[c]]
           /\ user[u].pc = "out" /\ UNCHANGED <<task, closed, raced>>
  BY <1>1, GetIs
<1> DEFINE gone == {idle[i] : i \in (Len(idle) - k + 1)..Len(idle)}
<1>3. \A i \in (Len(idle) - k + 1)..Len(idle) : i \in 1..Len(idle)
  BY <1>1
<1>4. gone \in SUBSET Conn /\ \A c \in gone : Touched(u, c)
  BY <1>1, <1>3 DEF Touched, InIdle
<1>5. \/ d = 1 /\ Len(idle) > 0 /\ x.pc = "test" /\ x.c = idle[1] /\ x.c \in Conn /\ x.c \notin gone
      \/ d = 0 /\ x.pc = "dial" /\ x.c = NoConn
  <2>1. CASE d = 1
    <3>1. /\ x.c = idle[1] /\ 1 \in 1..Len(idle) /\ 1 \notin (Len(idle) - k + 1)..Len(idle)
          /\ x.pc = "test" /\ x.c \in Conn /\ Len(idle) > 0
      BY <1>1, <1>2, <2>1
    <3>2. x.c \notin gone
      BY <1>1, <1>3, <3>1
    <3> QED
      BY <2>1, <3>1, <3>2
  <2>2. CASE d = 0
    BY <1>2, <2>2
  <2> QED
    BY <2>1, <2>2
<1>6. active' = Len(idle') + Cardinality(Holders) + 1 - One(user[u].pc \in Holding)
  <2>1. One(user[u].pc \in Holding) = 0
    BY <1>2 DEF One, Holding
  <2>2. active' = active - k + 1 - d /\ Len(idle') = Len(idle) - k - d
    BY <1>2
  <2>3. Cardinality(Holders) \in Int
    BY HoldersNat
  <2>4. k \in Int /\ d \in Int /\ Len(idle) \in Int /\ active = Len(idle) + Cardinality(Holders)
    BY <1>1
  <2> QED
    BY <2>1, <2>2, <2>3, <2>4
<1>7. Len(idle') + d <= Len(idle)
  <2>1. Len(idle') = Len(idle) - k - d /\ k \in Nat /\ d \in Int /\ Len(idle) \in Nat
    BY <1>1, <1>2
  <2> QED
    BY <2>1
<1>8. user[u].pc \in {"out", "test"} /\ UNCHANGED <<task, closed, raced>>
  BY <1>2
<1>9. conn' = [c \in Conn |-> IF c \in gone THEN Closed
                              ELSE IF x.c = c THEN Sent(c, <<u>>) ELSE conn[c]]
  BY <1>2
<1>10. /\ user' = [user EXCEPT ![u] = x] /\ idle' \in Seq(Conn)
       /\ \A i \in 1..Len(idle') : idle'[i] = idle[i + d] /\ i + d \in 1..Len(idle)
  BY <1>2
<1> HIDE DEF gone
<1> QED
  BY <1>4, <1>5, <1>6, <1>7, <1>8, <1>9, <1>10, TakenStep

LEMMA TestFailsStep ==
  ASSUME PoolInv, NEW u \in User, TestFails(u)
  PROVE  PoolInv'
<1> DEFINE c == user[u].c
<1>1. /\ user[u].pc = "test" /\ TakeOrDial(u, idle, user[u].n)
      /\ conn' = [d \in Conn |-> IF d = c THEN Closed
                                 ELSE IF user'[u].c = d THEN Sent(d, <<u>>) ELSE conn[d]]
      /\ active' = IF user'[u].pc = "dial" THEN active - 1 + 1 ELSE active - 1
      /\ UNCHANGED <<task, closed, raced>>
  BY DEF TestFails, Released
<1>2. /\ idle \in Seq(Conn) /\ Len(idle) \in Nat /\ active \in Nat
      /\ active = Len(idle) + Cardinality(Holders)
      /\ user \in [User -> UserState] /\ user[u].n \in Nat
  BY DEF PoolInv, BaseInv, PoolTypeOK, PlaceInv, Accounted, Holders, UserState
<1>3. c \in Conn /\ \A i \in 1..Len(idle) : idle[i] # c
  BY <1>1, HavingIs DEF PoolInv, BaseInv, PlaceInv, Accounted, Having
<1>4. PICK x \in UserState, d \in {0, 1} :
           /\ user' = [user EXCEPT ![u] = x]
           /\ idle' \in Seq(Conn) /\ Len(idle') = Len(idle) - d
           /\ \A i \in 1..Len(idle') : idle'[i] = idle[i + d] /\ i + d \in 1..Len(idle)
           /\ \/ d = 1 /\ Len(idle) > 0 /\ x.pc = "test" /\ x.c = idle[1] /\ x.c \in Conn
              \/ d = 0 /\ x.pc = "dial" /\ x.c = NoConn
  <2>1. Len(idle) <= Len(idle) /\ \A i \in 1..Len(idle) : idle[i] = idle[i]
    BY <1>2
  <2> QED
    BY <1>1, <1>2, <2>1, TakeOrDialIs
<1>5. user'[u] = x
  BY <1>2, <1>4
<1>6. \/ d = 1 /\ Len(idle) > 0 /\ x.pc = "test" /\ x.c = idle[1] /\ x.c \in Conn /\ x.c \notin {c}
      \/ d = 0 /\ x.pc = "dial" /\ x.c = NoConn
  <2>1. Len(idle) > 0 => 1 \in 1..Len(idle)
    BY <1>2
  <2> QED
    BY <1>3, <1>4, <2>1
<1>7. active' = Len(idle') + Cardinality(Holders) + 1 - One(user[u].pc \in Holding)
  <2>1. One(user[u].pc \in Holding) = 1
    BY <1>1 DEF One, Holding
  <2>2. Cardinality(Holders) \in Int
    BY HoldersNat
  <2>3. Len(idle') = Len(idle) - d /\ active' = active - d
    BY <1>1, <1>2, <1>4, <1>5
  <2> QED
    BY <1>2, <2>1, <2>2, <2>3
<1>8. Touched(u, c)
  BY <1>1 DEF Touched, Having
<1> DEFINE gone == {c}
<1>9. conn' = [b \in Conn |-> IF b \in gone THEN Closed
                              ELSE IF x.c = b THEN Sent(b, <<u>>) ELSE conn[b]]
  BY <1>1, <1>5
<1>10. Len(idle') + d <= Len(idle)
  BY <1>2, <1>4
<1>11. gone \in SUBSET Conn /\ \A b \in gone : Touched(u, b)
  BY <1>3, <1>8
<1>12. /\ user' = [user EXCEPT ![u] = x] /\ idle' \in Seq(Conn)
       /\ \A i \in 1..Len(idle') : idle'[i] = idle[i + d] /\ i + d \in 1..Len(idle)
  BY <1>4
<1>13. user[u].pc \in {"out", "test"} /\ UNCHANGED <<task, closed, raced>>
  BY <1>1
<1>14. \/ d = 1 /\ Len(idle) > 0 /\ x.pc = "test" /\ x.c = idle[1] /\ x.c \in Conn /\ x.c \notin gone
       \/ d = 0 /\ x.pc = "dial" /\ x.c = NoConn
  BY <1>6
<1> HIDE DEF gone
<1> QED
  BY <1>7, <1>9, <1>10, <1>11, <1>12, <1>13, <1>14, TakenStep

LEMMA DialledUser ==
  ASSUME NEW r \in UserState, NEW q \in Conn
  PROVE  LET x == [r EXCEPT !.pc = "held", !.c = q]
         IN  x \in UserState /\ x.pc = "held" /\ x.c = q
<1> DEFINE R(a, b, m, st) == [pc |-> a, c |-> b, n |-> m, state |-> st]
           rp == [r EXCEPT !.pc = "held"]
<1>1. PICK a \in Places, b \in Conn \cup {NoConn}, m \in Nat, st \in SUBSET ConnState :
        r = R(a, b, m, st)
  BY DEF UserState, Places
<1>2. rp = R("held", b, m, st)
  BY <1>1
<1>3. [r EXCEPT !.pc = "held", !.c = q] = [rp EXCEPT !.c = q]
  OBVIOUS
<1> HIDE DEF rp
<1>4. [rp EXCEPT !.c = q] = R("held", q, m, st)
  BY <1>2
<1>5. R("held", q, m, st) \in UserState /\ R("held", q, m, st).pc = "held" /\ R("held", q, m, st).c = q
  BY DEF UserState, Holding
<1> HIDE DEF R
<1> QED
  BY <1>3, <1>4, <1>5

LEMMA DialledStep ==
  ASSUME PoolInv, NEW u \in User, Dialled(u)
  PROVE  PoolInv'
<1> DEFINE c == CHOOSE d \in Unused : TRUE
           x == [user[u] EXCEPT !.pc = "held", !.c = c]
<1>1. /\ user[u].pc = "dial" /\ Unused # {}
      /\ conn' = [conn EXCEPT ![c] = Fresh("open")]
      /\ user' = [user EXCEPT ![u].pc = "held", ![u].c = c]
      /\ UNCHANGED <<idle, active, task, closed, raced>>
  BY DEF Dialled
<1>2. c \in Unused
  BY <1>1, Zenon
<1> HIDE DEF c
<1>3. /\ BaseInv /\ ReplyInv /\ PoolTypeOK /\ PlaceInv /\ \A f \in Follower : TaskInv(f)
      /\ conn \in [Conn -> Connection] /\ idle \in Seq(Conn) /\ Len(idle) \in Nat
      /\ user \in [User -> UserState] /\ active \in Nat
      /\ active = Len(idle) + Cardinality(Holders)
      /\ \A i, j \in 1..Len(idle) : idle[i] = idle[j] => i = j
  BY DEF PoolInv, BaseInv, PoolTypeOK, PlaceInv, Accounted, Holders
<1>4. c \in Conn /\ \A i \in 1..Len(idle) : idle[i] # c
  BY <1>2 DEF Unused
<1>5. user' = [user EXCEPT ![u] = x]
  BY <1>1, <1>3
<1>6. x \in UserState /\ x.pc = "held" /\ x.c = c
  BY <1>3, <1>4, DialledUser
<1> HIDE DEF x
<1>7. \A i \in 1..Len(idle') : InIdle(idle'[i])
  BY <1>1 DEF InIdle
<1>8. active' = Len(idle') + Cardinality(Holders)
                  + One(x.pc \in Holding) - One(user[u].pc \in Holding)
  <2>1. One(user[u].pc \in Holding) = 1 /\ One(x.pc \in Holding) = 1
    BY <1>1, <1>6 DEF One, Holding
  <2>2. idle' = idle /\ active' = active
    BY <1>1
  <2>3. Cardinality(Holders) \in Int
    BY HoldersNat
  <2> QED
    BY <1>3, <2>1, <2>2, <2>3
<1>9. PlaceInv'
  <2>1. idle' = idle
    BY <1>1
  <2>2. x.pc \in Having =>
           /\ x.c \in Conn /\ \A i \in 1..Len(idle') : idle'[i] # x.c
           /\ \/ InIdle(x.c) \/ x.c \in Unused
              \/ user[u].pc \in Having /\ x.c = user[u].c
    BY <1>2, <1>4, <1>6, <2>1
  <2>3. x.pc \notin {"out", "dial", "returned", "wait"}
    BY <1>6
  <2>4. \A i, j \in 1..Len(idle') : idle'[i] = idle'[j] => i = j
    BY <1>3, <2>1
  <2> QED
    BY <1>3, <1>5, <1>6, <1>7, <1>8, <2>1, <2>2, <2>3, <2>4, PlaceMoved
<1>10. conn' \in [Conn -> Connection] /\ user' \in [User -> UserState]
  BY <1>1, <1>3, <1>5, <1>6, ClosedIs
<1>11. PoolTypeOK'
  BY <1>1, <1>3, <1>10 DEF PoolTypeOK
<1>12. \A f \in Follower : TaskInv(f)'
  <2>1. user[u].pc \notin {"following", "returned"} /\ x.pc \notin {"following", "returned"}
        /\ UNCHANGED <<task, closed>>
    BY <1>1, <1>6
  <2> QED
    BY <1>3, <1>5, <2>1, TasksKept, TasksIdle
<1>13. ReplyInv'
  <2>1. CASE raced
    BY <1>1, <2>1 DEF ReplyInv
  <2>2. CASE ~raced
    <3>1. \A b \in Conn : conn'[b] = conn[b] \/ Touched(u, b)
      BY <1>1, <1>2, <1>3 DEF Touched
    <3>2. \A i \in 1..Len(idle') : Clean(conn'[idle'[i]])
      <4>1. \A i \in 1..Len(idle) : idle[i] \in Conn /\ Clean(conn[idle[i]])
        BY <1>3, <2>2 DEF ReplyInv, CleanIdle
      <4>2. idle' = idle /\ \A i \in 1..Len(idle) : conn'[idle[i]] = conn[idle[i]]
        BY <1>1, <1>3, <1>4, <4>1
      <4> QED
        BY <4>1, <4>2
    <3>3. \A i \in 1..Len(idle') : Touched(u, idle'[i])
      BY <1>7 DEF Touched
    <3>4. x.pc \in Having => Touched(u, x.c)
      BY <1>2, <1>6 DEF Touched
    <3>5. UserInv(u, x, conn'[x.c])
      <4>1. conn'[x.c] = Fresh("open")
        BY <1>1, <1>3, <1>4, <1>6
      <4> QED
        BY <1>6, <4>1, ClosedIs DEF UserInv
    <3>6. u \in Follower => FollowerOK(u)'
      <4>1. user'[u].pc # "following" /\ user[u].pc \notin {"following", "returned"} /\ task' = task
        BY <1>1, <1>3, <1>5, <1>6
      <4> QED
        BY <1>3, <4>1, NotFollowing
    <3>7. \A f \in Follower \ {u} : task'[f] = task[f] /\ closed'[f] = closed[f]
      BY <1>1
    <3> QED
      BY <1>3, <1>5, <2>2, <3>1, <3>2, <3>3, <3>4, <3>5, <3>6, <3>7, Moved
  <2> QED
    BY <2>1, <2>2
<1> QED
  BY <1>9, <1>11, <1>12, <1>13 DEF PoolInv, BaseInv

\* A user without a connection, or one that has given it back, is out.
LEMMA OutStep ==
  ASSUME PoolInv, NEW u \in User, NEW x \in UserState, user[u].pc \in {"dial", "returned"},
         user' = [user EXCEPT ![u] = x], x.pc = "out", x.c = NoConn,
         u \in Follower => \A t \in Task : task[u][t] \in {"none", "over"},
         active' = active - One(user[u].pc \in Holding),
         UNCHANGED <<conn, idle, task, closed, raced>>
  PROVE  PoolInv'
<1>1. /\ BaseInv /\ ReplyInv /\ PoolTypeOK /\ PlaceInv /\ \A f \in Follower : TaskInv(f)
      /\ conn \in [Conn -> Connection] /\ idle \in Seq(Conn) /\ Len(idle) \in Nat
      /\ user \in [User -> UserState] /\ active \in Nat
      /\ active = Len(idle) + Cardinality(Holders)
      /\ \A i, j \in 1..Len(idle) : idle[i] = idle[j] => i = j
  BY DEF PoolInv, BaseInv, PoolTypeOK, PlaceInv, Accounted, Holders
<1>2. \A i \in 1..Len(idle') : InIdle(idle'[i])
  BY DEF InIdle
<1>3. x.pc \notin Holding /\ x.pc \notin Having
  BY DEF Holding, Having
<1>4. active' = Len(idle') + Cardinality(Holders)
                  + One(x.pc \in Holding) - One(user[u].pc \in Holding)
  <2>1. One(user[u].pc \in Holding) \in Int /\ One(x.pc \in Holding) = 0
    BY <1>3 DEF One
  <2>2. Cardinality(Holders) \in Int
    BY HoldersNat
  <2> QED
    BY <1>1, <2>1, <2>2
<1>5. PlaceInv'
  BY <1>1, <1>2, <1>3, <1>4, PlaceMoved
<1>6. active' \in Nat
  <2>1. u \in Holders => Cardinality(Holders) > 0
    <3>1. IsFiniteSet(Holders)
      BY HoldersFinite DEF Holders
    <3>2. Cardinality(Holders) = 0 <=> Holders = {}
      BY <3>1, FS_EmptySet
    <3> QED
      BY <3>2, HoldersNat
  <2>2. user[u].pc \in Holding <=> u \in Holders
    BY DEF Holders
  <2> QED
    BY <1>1, <2>1, <2>2, HoldersNat DEF One
<1>7. PoolTypeOK'
  <2>1. user' \in [User -> UserState]
    BY <1>1
  <2> QED
    BY <1>1, <1>6, <2>1 DEF PoolTypeOK
<1>8. \A f \in Follower : TaskInv(f)'
  BY <1>1, TasksKept
<1>9. ReplyInv'
  <2>1. CASE raced
    BY <2>1 DEF ReplyInv
  <2>2. CASE ~raced
    <3>1. \A i \in 1..Len(idle') : Clean(conn'[idle'[i]])
      BY <1>1, <2>2 DEF ReplyInv, CleanIdle
    <3>2. \A i \in 1..Len(idle') : Touched(u, idle'[i])
      BY <1>2 DEF Touched
    <3>3. UserInv(u, x, conn'[x.c])
      BY DEF UserInv
    <3>4. u \in Follower => FollowerOK(u)'
      <4> SUFFICES ASSUME u \in Follower PROVE FollowerOK(u)'
        OBVIOUS
      <4>1. user'[u].pc # "following" /\ task'[u]["reading"] # "receive"
        BY <1>1 DEF Task
      <4> QED
        BY <4>1 DEF FollowerOK, FollowInv, StaleInv
    <3> QED
      BY <1>1, <1>3, <2>2, <3>1, <3>2, <3>3, <3>4, Moved
  <2> QED
    BY <2>1, <2>2
<1> QED
  BY <1>5, <1>7, <1>8, <1>9 DEF PoolInv, BaseInv

LEMMA OutIs == Out \in UserState /\ Out.pc = "out" /\ Out.c = NoConn
BY DEF Out, UserState, Holding

LEMMA DialFailsStep ==
  ASSUME PoolInv, NEW u \in User, DialFails(u)
  PROVE  PoolInv'
<1> DEFINE x == [user[u] EXCEPT !.pc = "out"]
<1>1. /\ user[u].pc = "dial" /\ user' = [user EXCEPT ![u] = x] /\ active' = active - 1
      /\ UNCHANGED <<conn, idle, task, closed, raced>>
  BY DEF DialFails
<1>2. /\ user[u] \in UserState /\ user[u].c = NoConn /\ \A f \in Follower : TaskInv(f)
  BY <1>1 DEF PoolInv, BaseInv, PoolTypeOK, PlaceInv
<1>3. x \in UserState /\ x.pc = "out" /\ x.c = NoConn
  <2>1. "out" \in Places /\ 0 \in Nat /\ {} \in SUBSET ConnState
    BY DEF Places
  <2>2. UserIs(x, "out", user[u].c, user[u].n)
    BY <1>2, <2>1, UserFields, Zenon
  <2> QED
    BY <1>2, <2>2 DEF UserIs
<1> HIDE DEF x
<1>4. One(user[u].pc \in Holding) = 1
  BY <1>1 DEF One, Holding
<1>5. u \in Follower => \A t \in Task : task[u][t] \in {"none", "over"}
  <2>1. user[u].pc \notin {"following", "returned"}
    BY <1>1
  <2> QED
    BY <1>2, <2>1, TasksIdle
<1> QED
  BY <1>1, <1>3, <1>4, <1>5, OutStep

LEMMA AgainStep ==
  ASSUME PoolInv, NEW f \in Follower, Again(f)
  PROVE  PoolInv'
<1>1. /\ user[f].pc = "returned" /\ \A t \in Task : task[f][t] = "over"
      /\ user' = [user EXCEPT ![f] = Out]
      /\ UNCHANGED <<conn, idle, active, task, closed, raced>>
  BY DEF Again
<1>2. f \in User /\ active \in Nat
  BY PoolAssumption DEF PoolInv, BaseInv, PoolTypeOK
<1>3. One(user[f].pc \in Holding) = 0
  BY <1>1 DEF One, Holding
<1>4. active' = active - One(user[f].pc \in Holding)
  BY <1>1, <1>2, <1>3
<1> QED
  BY <1>1, <1>2, <1>4, OutIs, OutStep

-----------------------------------------------------------------------------
(* Pool.put.                                                               *)

LEMMA PutStep ==
  ASSUME PoolInv, NEW u \in User, NEW x \in UserState, NEW force \in BOOLEAN,
         user' = [user EXCEPT ![u] = x], user[u].pc \in Having,
         Put(user[u].c, force),
         \/ x.pc = "out" /\ x.c = NoConn
         \/ x.pc = "returned" /\ x.c = user[u].c,
         ~raced => conn[user[u].c].status = "closed" \/ Clean(conn[user[u].c]),
         raced' = raced,
         task' \in [Follower -> [Task -> TaskState]], closed' \in [Follower -> BOOLEAN],
         \A f \in Follower \ {u} : task'[f] = task[f] /\ closed'[f] = closed[f],
         \A f \in Follower : TaskInv(f)',
         (u \in Follower /\ ~raced) => FollowerOK(u)'
  PROVE  PoolInv'
<1> DEFINE c == user[u].c
<1>1. /\ BaseInv /\ ReplyInv /\ PoolTypeOK /\ PlaceInv
      /\ conn \in [Conn -> Connection] /\ idle \in Seq(Conn) /\ Len(idle) \in Nat
      /\ Len(idle) <= MaxIdle /\ user \in [User -> UserState] /\ active \in Nat
      /\ active = Len(idle) + Cardinality(Holders) /\ c \in Conn /\ raced \in BOOLEAN
  BY DEF PoolInv, BaseInv, PoolTypeOK, PlaceInv, Accounted, Holders
<1>2. PlaceInv' /\ idle' \in Seq(Conn) /\ Len(idle') <= MaxIdle
  <2>1. \/ x.pc = "out" /\ x.c = NoConn
        \/ x.pc = "returned" /\ x.c = user[u].c
    OBVIOUS
  <2> QED
    BY <1>1, <2>1, PlacePut
<1>3. PICK gone \in SUBSET Conn :
           /\ conn' = [d \in Conn |-> IF d \in gone THEN Closed ELSE conn[d]]
           /\ \A d \in gone : d = c \/ InIdle(d)
           /\ idle' \in Seq(Conn) /\ Len(idle') <= MaxIdle
           /\ Len(idle') = Len(idle) + 1 - Cardinality(gone) /\ Cardinality(gone) \in {0, 1}
           /\ active' = active - Cardinality(gone)
           /\ \/ c \in gone /\ idle' = idle
              \/ /\ conn[c].status # "closed" /\ Len(idle') > 0 /\ idle'[1] = c
                 /\ \A i \in 2..Len(idle') : idle'[i] = idle[i - 1] /\ i - 1 \in 1..Len(idle)
  BY <1>1, PutIs
<1>4. user[u].pc \in Holding
  BY HavingIs
<1>a. ~raced => conn[c].status = "closed" \/ Clean(conn[c])
  OBVIOUS
<1>b. user[u].pc \in Having /\ c = user[u].c
  OBVIOUS
<1> HIDE DEF c
<1>5. active' \in Nat
  <2>1. IsFiniteSet(Holders) /\ u \in Holders
    BY <1>4, HoldersFinite DEF Holders
  <2>2. Cardinality(Holders) # 0
    BY <2>1, FS_EmptySet
  <2>3. active' = active - Cardinality(gone) /\ Cardinality(gone) \in {0, 1}
    BY <1>3
  <2> QED
    BY <1>1, <2>2, <2>3, HoldersNat
<1>6. PoolTypeOK'
  <2>1. user' \in [User -> UserState]
    BY <1>1
  <2>2. conn' \in [Conn -> Connection]
    BY <1>1, <1>3, ClosedIs
  <2> QED
    BY <1>1, <1>2, <1>5, <2>1, <2>2 DEF PoolTypeOK
<1>7. ReplyInv'
  <2>1. CASE raced
    BY <2>1 DEF ReplyInv
  <2>2. CASE ~raced
    <3>1. \A b \in Conn : conn'[b] = IF b \in gone THEN Closed ELSE conn[b]
      BY <1>3
    <3>2. \A b \in gone : Touched(u, b)
      BY <1>3, <1>b DEF Touched
    <3>3. \A b \in Conn : conn'[b] = conn[b] \/ Touched(u, b)
      BY <3>1, <3>2
    <3>4. \A i \in 1..Len(idle) : idle[i] \in Conn /\ Clean(conn[idle[i]]) /\ InIdle(idle[i])
      BY <1>1, <2>2 DEF ReplyInv, CleanIdle, InIdle
    <3>5. \A i \in 1..Len(idle) : Clean(conn'[idle[i]]) /\ Touched(u, idle[i])
      BY <3>1, <3>4, ClosedIs DEF Touched
    <3>6. Touched(u, c) /\ (conn[c].status # "closed" => Clean(conn'[c]))
      BY <1>1, <1>a, <1>b, <2>2, <3>1, ClosedIs DEF Touched
    <3>7. \A i \in 1..Len(idle') : Clean(conn'[idle'[i]]) /\ Touched(u, idle'[i])
      <4>1. CASE idle' = idle
        BY <3>5, <4>1
      <4>2. CASE /\ conn[c].status # "closed" /\ idle'[1] = c
                 /\ \A i \in 2..Len(idle') : idle'[i] = idle[i - 1] /\ i - 1 \in 1..Len(idle)
        <5> SUFFICES ASSUME NEW i \in 1..Len(idle')
                     PROVE  Clean(conn'[idle'[i]]) /\ Touched(u, idle'[i])
          OBVIOUS
        <5>1. CASE i = 1
          BY <3>6, <4>2, <5>1
        <5>2. CASE i # 1
          <6>1. i \in 2..Len(idle')
            BY <1>2, <5>2
          <6>2. idle'[i] = idle[i - 1] /\ i - 1 \in 1..Len(idle)
            BY <4>2, <6>1
          <6> QED
            BY <3>5, <6>2
        <5> QED
          BY <5>1, <5>2
      <4> QED
        BY <1>3, <4>1, <4>2
    <3>8. x.pc \notin Having /\ UserInv(u, x, conn'[x.c])
      BY DEF UserInv, Having
    <3> QED
      BY <1>1, <2>2, <3>3, <3>7, <3>8, Moved
  <2> QED
    BY <2>1, <2>2
<1> QED
  BY <1>2, <1>6, <1>7 DEF PoolInv, BaseInv

LEMMA GiveBackStep ==
  ASSUME PoolInv, NEW u \in User, GiveBack(u)
  PROVE  PoolInv'
<1> DEFINE force == user[u].state # {}
<1>1. /\ user[u].pc = "held" /\ u \notin Follower /\ Put(user[u].c, force)
      /\ user' = [user EXCEPT ![u] = Out] /\ UNCHANGED <<task, closed, raced>>
  BY DEF GiveBack
<1>2. force \in BOOLEAN
  OBVIOUS
<1> HIDE DEF force
<1>3. /\ BaseInv /\ ReplyInv /\ PoolTypeOK /\ \A f \in Follower : TaskInv(f)
      /\ user \in [User -> UserState]
      /\ task \in [Follower -> [Task -> TaskState]] /\ closed \in [Follower -> BOOLEAN]
  BY DEF PoolInv, BaseInv, PoolTypeOK
<1>4. \A f \in Follower : TaskInv(f)'
  <2>1. /\ user[u].pc # "following" /\ Out.pc \notin {"following", "returned"}
        /\ UNCHANGED <<task, closed>>
    BY <1>1, OutIs
  <2> QED
    BY <1>1, <1>3, <2>1, TasksKept, TasksIdle
<1>5. ~raced => Clean(conn[user[u].c])
  <2>1. ~raced => UserInv(u, user[u], conn[user[u].c])
    BY <1>3 DEF ReplyInv
  <2> QED
    BY <1>1, <2>1 DEF UserInv
<1>6. user[u].pc \in Having
  BY <1>1 DEF Having
<1> QED
  BY <1>1, <1>2, <1>3, <1>4, <1>5, <1>6, OutIs, PutStep

-----------------------------------------------------------------------------
(* A follower's goroutines.                                                *)

LEMMA TaskIs ==
  ASSUME task \in [Follower -> [Task -> TaskState]], NEW f \in Follower, NEW t \in Task,
         NEW state \in TaskState, Set(f, t, state)
  PROVE  /\ task' \in [Follower -> [Task -> TaskState]] /\ task'[f][t] = state
         /\ \A s \in Task : s # t => task'[f][s] = task[f][s]
         /\ \A g \in Follower \ {f} : task'[g] = task[g]
<1>1. task' = [task EXCEPT ![f][t] = state]
  BY DEF Set
<1>2. task[f] \in [Task -> TaskState]
  OBVIOUS
<1> DEFINE tasks == [task[f] EXCEPT ![t] = state]
<1>3. task' = [task EXCEPT ![f] = tasks]
  BY <1>1
<1>4. tasks \in [Task -> TaskState] /\ tasks[t] = state /\ \A s \in Task : s # t => tasks[s] = task[f][s]
  BY <1>2
<1> HIDE DEF tasks
<1> QED
  BY <1>3, <1>4

LEMMA TwoTasks ==
  /\ Task = {"reading", "handler"} /\ "reading" \in Task /\ "handler" \in Task
  /\ "reading" # "handler"
BY DEF Task

\* The others' tasks are as before.
LEMMA OtherTasks ==
  ASSUME \A g \in Follower : TaskInv(g), NEW f \in Follower,
         \A g \in Follower \ {f} : task'[g] = task[g] /\ closed'[g] = closed[g]
                                   /\ user'[g].pc = user[g].pc,
         TaskInv(f)'
  PROVE  \A g \in Follower : TaskInv(g)'
<1> SUFFICES ASSUME NEW g \in Follower \ {f} PROVE TaskInv(g)'
  OBVIOUS
<1>1. task'[g] = task[g] /\ closed'[g] = closed[g] /\ user'[g].pc = user[g].pc /\ TaskInv(g)
  OBVIOUS
<1> QED
  BY <1>1 DEF TaskInv

LEMMA ReturnStep ==
  ASSUME PoolInv, NEW f \in Follower, NEW t \in Task, Return(f, t)
  PROVE  PoolInv'
<1> DEFINE force == user[f].state # {}
           x == [user[f] EXCEPT !.pc = "returned"]
           c == user[f].c
<1>1. /\ task[f][t] = "put" /\ Put(c, force) /\ user' = [user EXCEPT ![f] = x]
      /\ Set(f, t, "over") /\ closed' = closed /\ raced' = raced
  BY DEF Return
<1>2. force \in BOOLEAN /\ f \in User
  BY PoolAssumption
<1> HIDE DEF force
<1>3. /\ BaseInv /\ ReplyInv /\ PoolTypeOK /\ PlaceInv /\ \A g \in Follower : TaskInv(g)
      /\ user \in [User -> UserState] /\ user[f] \in UserState /\ conn \in [Conn -> Connection]
      /\ task \in [Follower -> [Task -> TaskState]] /\ closed \in [Follower -> BOOLEAN]
  BY <1>2 DEF PoolInv, BaseInv, PoolTypeOK
<1>4. /\ user[f].pc = "following" /\ closed[f] /\ user[f].pc \in Having
      /\ \A s \in Task : s # t => task[f][s] \notin Closers
      /\ task[f]["handler"] \notin {"check", "enter", "receive"}
  BY <1>1, <1>3 DEF TaskInv, Closers, Having
<1>5. c \in Conn
  BY <1>2, <1>3, <1>4 DEF PlaceInv
<1>6. x \in UserState /\ x.pc = "returned" /\ x.c = c
  <2>1. "returned" \in Places /\ 0 \in Nat /\ {} \in SUBSET ConnState
    BY DEF Places
  <2>2. UserIs(x, "returned", c, user[f].n)
    BY <1>3, <2>1, UserFields, Zenon
  <2> QED
    BY <2>2 DEF UserIs
<1> HIDE DEF x, c
<1>7. /\ task' \in [Follower -> [Task -> TaskState]] /\ task'[f][t] = "over"
      /\ \A s \in Task : s # t => task'[f][s] = task[f][s]
      /\ \A g \in Follower \ {f} : task'[g] = task[g]
  <2>1. "over" \in TaskState
    BY DEF TaskState
  <2> QED
    BY <1>1, <1>3, <2>1, TaskIs
<1>8. \A g \in Follower : TaskInv(g)'
  <2>1. user'[f] = x /\ \A g \in Follower \ {f} : user'[g] = user[g]
    BY <1>1, <1>2, <1>3, PoolAssumption
  <2>2. TaskInv(f)'
    <3>1. \A s \in Task : task'[f][s] \notin Closers
      BY <1>4, <1>7 DEF Closers
    <3>2. task'[f]["handler"] \notin {"check", "enter", "receive"}
      BY <1>4, <1>7, TwoTasks
    <3> QED
      BY <1>1, <1>4, <1>6, <2>1, <3>1, <3>2 DEF TaskInv
  <2> QED
    BY <1>1, <1>3, <1>7, <2>1, <2>2, OtherTasks
<1>9. ~raced => conn[c].status = "closed" \/ Clean(conn[c])
  <2>1. ~raced => FollowInv(user[f], task[f], closed[f], conn[c])
    BY <1>3 DEF ReplyInv, c
  <2> QED
    BY <1>1, <1>4, <2>1 DEF FollowInv, CloserInv
<1>10. ~raced => FollowerOK(f)'
  <2> SUFFICES ASSUME ~raced, task'[f]["reading"] = "receive", task'[f]["handler"] # "drain"
               PROVE  /\ conn'[c] = Closed
                      /\ ~(\E i \in 1..Len(idle') : idle'[i] = c)
                      /\ \A u \in User : (user'[u].pc \in Having /\ user'[u].c = c) => u = f
    <3>1. user'[f] = x
      BY <1>2, <1>1, <1>3
    <3> QED
      BY <1>6, <3>1 DEF FollowerOK, FollowInv, StaleInv, InIdle
  <2>1. t = "handler" /\ task[f]["reading"] = "receive" /\ task[f]["handler"] # "drain"
    BY <1>1, <1>7, TwoTasks
  <2>2. /\ conn[c] = Closed /\ ~InIdle(c)
        /\ \A u \in User : (user[u].pc \in Having /\ user[u].c = c) => u = f
    BY <1>3, <1>4, <2>1 DEF ReplyInv, StaleInv, c
  <2>3. conn[c].status = "closed"
    BY <2>2, ClosedIs
  <2>4. idle \in Seq(Conn) /\ Len(idle) <= MaxIdle
    BY <1>3 DEF PoolTypeOK
  <2>5. PICK gone \in SUBSET Conn :
           /\ conn' = [d \in Conn |-> IF d \in gone THEN Closed ELSE conn[d]]
           /\ c \in gone /\ idle' = idle
    BY <1>1, <1>2, <1>5, <2>3, <2>4, PutIs
  <2>6. conn'[c] = Closed /\ ~(\E i \in 1..Len(idle') : idle'[i] = c)
    BY <1>5, <2>2, <2>5 DEF InIdle
  <2>7. \A u \in User : u # f => user'[u] = user[u]
    BY <1>1, <1>3
  <2> QED
    BY <2>2, <2>6, <2>7
<1>11. \A g \in Follower \ {f} : task'[g] = task[g] /\ closed'[g] = closed[g]
  BY <1>1, <1>7
<1>12. closed' \in [Follower -> BOOLEAN]
  BY <1>1, <1>3
<1>13. /\ Put(user[f].c, force) /\ x.pc = "returned" /\ x.c = user[f].c
       /\ (~raced => conn[user[f].c].status = "closed" \/ Clean(conn[user[f].c]))
  BY <1>1, <1>6, <1>9 DEF c
<1> QED
  BY <1>1, <1>2, <1>4, <1>6, <1>7, <1>8, <1>10, <1>11, <1>12, <1>13, PutStep

\* Redis, and the readers, change nothing but a connection.
LEMMA ConnBase ==
  ASSUME BaseInv, conn' \in [Conn -> Connection], UNCHANGED <<idle, active, user>>,
         raced' \in BOOLEAN,
         task' \in [Follower -> [Task -> TaskState]], closed' \in [Follower -> BOOLEAN],
         \A f \in Follower : TaskInv(f)'
  PROVE  BaseInv'
<1>1. PoolTypeOK'
  BY DEF BaseInv, PoolTypeOK
<1>2. PlaceInv'
  BY DEF BaseInv, PlaceInv, Accounted
<1> QED
  BY <1>1, <1>2 DEF BaseInv

\* What is known of a follower one of whose goroutines is at work.
LEMMA FollowerHas ==
  ASSUME PoolInv, NEW f \in Follower, NEW t \in Task, task[f][t] \notin {"none", "over"}
  PROVE  /\ BaseInv /\ ReplyInv /\ PoolTypeOK /\ PlaceInv /\ \A g \in Follower : TaskInv(g)
         /\ f \in User /\ user[f].pc \in {"following", "returned"}
         /\ user[f].pc = "returned" => closed[f]
         /\ task[f][t] \in Closers => user[f].pc = "following" /\ closed[f]
         /\ user[f].c \in Conn /\ conn[user[f].c] \in Connection
         /\ conn \in [Conn -> Connection] /\ user \in [User -> UserState] /\ user[f] \in UserState
         /\ task \in [Follower -> [Task -> TaskState]] /\ closed \in [Follower -> BOOLEAN]
         /\ raced \in BOOLEAN
<1>1. /\ BaseInv /\ ReplyInv /\ PoolTypeOK /\ PlaceInv /\ \A g \in Follower : TaskInv(g)
      /\ f \in User
  BY PoolAssumption DEF PoolInv, BaseInv
<1>2. /\ user[f].pc \in {"following", "returned"}
      /\ user[f].pc = "returned" => closed[f]
      /\ task[f][t] \in Closers => user[f].pc = "following" /\ closed[f]
  BY <1>1 DEF TaskInv
<1>3. user[f].c \in Conn
  BY <1>1, <1>2 DEF PlaceInv, Having
<1> QED
  BY <1>1, <1>2, <1>3 DEF PoolTypeOK

\* A goroutine goes on to something that is not closing.
LEMMA TaskInvStep ==
  ASSUME PoolTypeOK, \A g \in Follower : TaskInv(g), NEW f \in Follower, NEW t \in Task,
         NEW state \in TaskState \ Closers, Set(f, t, state),
         user[f].pc \in {"following", "returned"},
         t = "handler" => state \notin {"check", "enter", "receive"},
         UNCHANGED <<user, closed>>
  PROVE  /\ \A g \in Follower : TaskInv(g)'
         /\ task' \in [Follower -> [Task -> TaskState]] /\ closed' \in [Follower -> BOOLEAN]
         /\ task'[f][t] = state /\ \A s \in Task : s # t => task'[f][s] = task[f][s]
         /\ \A g \in Follower \ {f} : task'[g] = task[g]
<1>1. /\ task' \in [Follower -> [Task -> TaskState]] /\ task'[f][t] = state
      /\ \A s \in Task : s # t => task'[f][s] = task[f][s]
      /\ \A g \in Follower \ {f} : task'[g] = task[g]
  BY TaskIs DEF PoolTypeOK
<1>2. closed' \in [Follower -> BOOLEAN]
  BY DEF PoolTypeOK
<1>3. TaskInv(f)'
  <2>1. TaskInv(f) /\ user' = user /\ closed' = closed
    OBVIOUS
  <2>2. ASSUME NEW s \in Task, task'[f][s] \in Closers
        PROVE  /\ user[f].pc = "following" /\ closed[f]
               /\ \A r \in Task : r # s => task'[f][r] \notin Closers
    <3>1. s # t /\ task[f][s] \in Closers
      BY <1>1, <2>2
    <3> QED
      BY <1>1, <2>1, <3>1 DEF TaskInv
  <2>3. task'[f]["handler"] \notin {"check", "enter", "receive"}
    BY <1>1, <2>1, TwoTasks DEF TaskInv
  <2>4. user[f].pc = "returned" => closed[f]
    BY <2>1 DEF TaskInv
  <2> QED
    BY <2>1, <2>2, <2>3, <2>4 DEF TaskInv
<1>4. \A g \in Follower : TaskInv(g)'
  BY <1>1, <1>3, OtherTasks
<1> QED
  BY <1>1, <1>2, <1>4

\* ... and nothing else changes.
LEMMA TaskStep ==
  ASSUME PoolInv, NEW f \in Follower, NEW t \in Task, task[f][t] \notin {"none", "over"},
         NEW state \in TaskState \ Closers, Set(f, t, state),
         t = "handler" => state \notin {"check", "enter", "receive"} /\ task[f][t] # "drain",
         state = "receive" => ~closed[f],
         UNCHANGED <<conn, idle, active, user, closed, raced>>
  PROVE  PoolInv'
<1>1. /\ BaseInv /\ ReplyInv /\ PoolTypeOK /\ PlaceInv /\ \A g \in Follower : TaskInv(g)
      /\ f \in User /\ user[f].pc \in {"following", "returned"}
      /\ user[f].c \in Conn /\ conn \in [Conn -> Connection] /\ user \in [User -> UserState]
      /\ raced \in BOOLEAN
  BY FollowerHas
<1>2. /\ \A g \in Follower : TaskInv(g)'
      /\ task' \in [Follower -> [Task -> TaskState]] /\ closed' \in [Follower -> BOOLEAN]
      /\ task'[f][t] = state /\ \A s \in Task : s # t => task'[f][s] = task[f][s]
      /\ \A g \in Follower \ {f} : task'[g] = task[g]
  BY <1>1, TaskInvStep
<1>3. BaseInv'
  BY <1>1, <1>2, ConnBase
<1>4. ReplyInv'
  <2>1. CASE raced
    BY <2>1 DEF ReplyInv
  <2>2. CASE ~raced
    <3>1. /\ CleanIdle /\ UserInv(f, user[f], conn[user[f].c])
          /\ FollowInv(user[f], task[f], closed[f], conn[user[f].c]) /\ StaleInv(f)
      BY <1>1, <2>2 DEF ReplyInv
    <3>2. FollowInv(user[f], task'[f], closed[f], conn[user[f].c])
      <4>1. \A s \in Task : task'[f][s] \in Closers => task[f][s] = task'[f][s]
        BY <1>2
      <4> QED
        BY <3>1, <4>1 DEF FollowInv, CloserInv, Closers
    <3>3. StaleInv(f)'
      <4> SUFFICES ASSUME task'[f]["reading"] = "receive", closed[f], task'[f]["handler"] # "drain"
                   PROVE  StaleInv(f)'
        BY DEF StaleInv
      <4>1. task[f]["reading"] = "receive" /\ task[f]["handler"] # "drain"
        BY <1>2, TwoTasks
      <4>2. /\ conn[user[f].c] = Closed /\ ~InIdle(user[f].c)
            /\ \A u \in User : (user[u].pc \in Having /\ user[u].c = user[f].c) => u = f
        BY <3>1, <4>1 DEF StaleInv
      <4> QED
        BY <4>2 DEF StaleInv, InIdle
    <3>4. FollowerOK(f)'
      BY <3>2, <3>3 DEF FollowerOK
    <3>5. /\ user' = [user EXCEPT ![f] = user[f]]
          /\ \A g \in Follower \ {f} : task'[g] = task[g] /\ closed'[g] = closed[g]
          /\ \A d \in Conn : conn'[d] = conn[d] \/ Touched(f, d)
      BY <1>1, <1>2
    <3>6. \A i \in 1..Len(idle') : Clean(conn'[idle'[i]]) /\ Touched(f, idle'[i])
      BY <3>1 DEF CleanIdle, Touched, InIdle
    <3>7. user[f].pc \in Having => Touched(f, user[f].c)
      BY DEF Touched
    <3> QED
      BY <1>1, <2>2, <3>1, <3>4, <3>5, <3>6, <3>7, Moved
  <2> QED
    BY <2>1, <2>2
<1> QED
  BY <1>3, <1>4 DEF PoolInv

\* Two goroutines of a follower are about to read.
LEMMA TwoReaders ==
  ASSUME NEW f \in Follower, task[f]["reading"] = "receive",
         task[f]["handler"] \in {"drain", "flush"}
  PROVE  Cardinality(Readers(user[f].c)) > 1
<1> DEFINE R == Readers(user[f].c)
           a == <<f, "reading">>
           b == <<f, "handler">>
<1>1. a # b /\ a \in R /\ b \in R
  BY TwoTasks DEF Readers
<1>2. IsFiniteSet(R)
  <2>1. IsFiniteSet(User) /\ IsFiniteSet(Follower)
    BY PoolAssumption, FS_Subset
  <2>2. IsFiniteSet(Task)
    <3>1. Task = ({} \cup {"reading"}) \cup {"handler"}
      BY DEF Task
    <3> QED
      BY <3>1, FS_EmptySet, FS_AddElement
  <2>3. IsFiniteSet(User \cup (Follower \X Task))
    BY <2>1, <2>2, FS_Product, FS_Union
  <2>4. R \in SUBSET (User \cup (Follower \X Task))
    BY DEF Readers
  <2> QED
    BY <2>3, <2>4, FS_Subset
<1> HIDE DEF a, b, R
<1>3. Cardinality({a} \cup {b}) = 2
  <2>1. IsFiniteSet({a}) /\ Cardinality({a}) = 1
    BY FS_Singleton, Zenon
  <2>2. b \notin {a}
    BY <1>1
  <2>3. Cardinality({a} \cup {b}) = IF b \in {a} THEN Cardinality({a}) ELSE Cardinality({a}) + 1
    BY <2>1, FS_AddElement, Zenon
  <2> QED
    BY <2>1, <2>2, <2>3
<1>4. {a} \cup {b} \in SUBSET R
  BY <1>1
<1>5. Cardinality({a} \cup {b}) <= Cardinality(R) /\ Cardinality(R) \in Nat
  BY <1>2, <1>4, FS_Subset, FS_CardinalityType
<1> QED
  BY <1>3, <1>5 DEF R

LEMMA CheckStep ==
  ASSUME PoolInv, NEW f \in Follower, Check(f) \/ Enter(f) \/ \E sse \in BOOLEAN : Leave(f, sse)
  PROVE  PoolInv'
<1>1. CASE Check(f)
  <2>1. PICK state \in {"over", "enter"} : Set(f, "reading", state)
    BY <1>1 DEF Check
  <2>2. state \in TaskState \ Closers
    BY DEF TaskState, Closers
  <2> QED
    BY <1>1, <2>1, <2>2, TwoTasks, TaskStep DEF Check
<1>2. CASE Enter(f)
  <2>1. PICK state \in {"over", "receive"} :
          Set(f, "reading", state) /\ (state = "receive" => ~closed[f])
    BY <1>2 DEF Enter
  <2>2. state \in TaskState \ Closers
    BY DEF TaskState, Closers
  <2> QED
    BY <1>2, <2>1, <2>2, TwoTasks, TaskStep DEF Enter
<1>3. CASE \E sse \in BOOLEAN : Leave(f, sse)
  <2>1. PICK state \in {"over", "lock"} : Set(f, "handler", state)
    BY <1>3 DEF Leave
  <2>2. state \in TaskState \ Closers
    BY DEF TaskState, Closers
  <2> QED
    BY <1>3, <2>1, <2>2, TwoTasks, TaskStep DEF Leave
<1> QED
  BY <1>1, <1>2, <1>3

\* A step of a follower with its connection, and then another in one go.
LEMMA FollowerStays ==
  ASSUME BaseInv, ReplyInv, ~raced, NEW f \in Follower, NEW x, NEW k,
         user' = [user EXCEPT ![f] = x], user[f].pc \in Having,
         x.pc = "following", x.c = user[f].c, idle' = idle,
         conn' = [conn EXCEPT ![user[f].c] = k],
         \A g \in Follower \ {f} : task'[g] = task[g] /\ closed'[g] = closed[g],
         FollowInv(x, task'[f], closed'[f], k), StaleInv(f)'
  PROVE  ReplyInv'
<1>1. /\ f \in User /\ user \in [User -> UserState] /\ conn \in [Conn -> Connection]
      /\ user[f].c \in Conn
  BY PoolAssumption DEF BaseInv, PoolTypeOK, PlaceInv
<1>2. user'[f] = x /\ conn'[user[f].c] = k
  BY <1>1
<1>3. FollowerOK(f)'
  BY <1>2, Zenon DEF FollowerOK
<1>4. UserInv(f, x, k)
  BY DEF UserInv
<1> QED
  BY <1>1, <1>3, <1>4, Stayed

LEMMA ReceiveStep ==
  ASSUME PoolInv, NEW f \in Follower, Receive(f)
  PROVE  PoolInv'
<1> DEFINE c == user[f].c
<1>1. /\ task[f]["reading"] = "receive" /\ Answer(c) /\ NowRaced(c)
      /\ conn' = [conn EXCEPT ![c] = Received(c)]
      /\ UNCHANGED <<idle, active, user, closed>>
  BY DEF Receive
<1>2. PICK state \in {"check", "over", "lock"} : Set(f, "reading", state)
  BY DEF Receive
<1>3. /\ BaseInv /\ ReplyInv /\ PoolTypeOK /\ PlaceInv /\ \A g \in Follower : TaskInv(g)
      /\ f \in User /\ user[f].pc \in {"following", "returned"}
      /\ user[f].pc = "returned" => closed[f]
      /\ c \in Conn /\ conn[c] \in Connection
      /\ conn \in [Conn -> Connection] /\ user \in [User -> UserState]
      /\ raced \in BOOLEAN
  BY <1>1, TwoTasks, FollowerHas
<1>4. ConnIs(Received(c), conn[c].status, Counted(conn[c].pending), Tail(conn[c].pipe),
             conn[c].subscribed)
  BY <1>1, <1>3, TakenIs
<1>5. /\ \A g \in Follower : TaskInv(g)'
      /\ task' \in [Follower -> [Task -> TaskState]] /\ closed' \in [Follower -> BOOLEAN]
      /\ task'[f]["reading"] = state
      /\ \A s \in Task : s # "reading" => task'[f][s] = task[f][s]
      /\ \A g \in Follower \ {f} : task'[g] = task[g]
  <2>1. state \in TaskState \ Closers
    BY DEF TaskState, Closers
  <2> QED
    BY <1>1, <1>2, <1>3, <2>1, TwoTasks, TaskInvStep
<1>6. raced' \in BOOLEAN /\ (~raced' => ~raced /\ ~(Cardinality(Readers(c)) > 1))
  BY <1>1, <1>3, RacedType
<1>7. BaseInv'
  <2>1. conn' \in [Conn -> Connection]
    BY <1>1, <1>3, <1>4 DEF ConnIs
  <2> QED
    BY <1>1, <1>3, <1>5, <1>6, <2>1, ConnBase
<1>8. ReplyInv'
  <2>1. CASE raced'
    BY <2>1 DEF ReplyInv
  <2>2. CASE ~raced'
    <3>1. ~raced /\ task[f]["handler"] \notin {"drain", "flush"}
      BY <1>1, <1>6, <2>2, TwoReaders
    <3>2. FollowInv(user[f], task[f], closed[f], conn[c]) /\ StaleInv(f)
      BY <1>3, <3>1 DEF ReplyInv
    <3>3. ~closed[f]
      <4> SUFFICES ASSUME closed[f] PROVE FALSE
        OBVIOUS
      <4>1. conn[c] = Closed
        BY <1>1, <3>1, <3>2 DEF StaleInv
      <4> QED
        BY <1>1, <4>1, ClosedIs DEF Answer, Clean
    <3>4. user[f].pc = "following"
      BY <1>3, <3>3
    <3> DEFINE k == Received(c)
               p == conn[c].pipe
    <3>5. p \in Seq(Reply) /\ p # << >> /\ \A i \in 1..Len(p) : p[i] # Sentinel
      BY <1>1, <1>3, <3>2, <3>3, <3>4 DEF FollowInv, Answer, Connection
    <3> HIDE DEF p
    <3>6. PICK q : q = Tail(p)
      OBVIOUS
    <3>7. \A i \in 1..Len(q) : q[i] # Sentinel
      BY <3>5, <3>6, TailIs
    <3>8. k.pipe = q
      BY <1>4, <3>6 DEF ConnIs, p
    <3>9. \A s \in Task : task'[f][s] \notin Closers
      <4>1. \A s \in Task : task[f][s] \notin Closers
        BY <1>3, <3>3 DEF TaskInv
      <4>2. state \notin Closers
        BY DEF Closers
      <4> QED
        BY <1>5, <4>1, <4>2
    <3> HIDE DEF k
    <3>10. FollowInv(user[f], task'[f], closed'[f], k)
      BY <3>7, <3>8, <3>9 DEF FollowInv, CloserInv, Closers
    <3>11. StaleInv(f)'
      BY <1>1, <3>3 DEF StaleInv
    <3>12. user' = [user EXCEPT ![f] = user[f]] /\ user[f].pc \in Having
      BY <1>1, <1>3, <3>4 DEF Having
    <3>13. /\ \A g \in Follower \ {f} : task'[g] = task[g] /\ closed'[g] = closed[g]
           /\ idle' = idle /\ conn' = [conn EXCEPT ![user[f].c] = k]
      BY <1>1, <1>5 DEF k
    <3> QED
      BY <1>3, <3>1, <3>4, <3>10, <3>11, <3>12, <3>13, FollowerStays
  <2> QED
    BY <2>1, <2>2
<1> QED
  BY <1>7, <1>8 DEF PoolInv

LEMMA ReceiveFailsStep ==
  ASSUME PoolInv, NEW f \in Follower, ReceiveFails(f)
  PROVE  PoolInv'
<1> DEFINE c == user[f].c
<1>1. /\ task[f]["reading"] = "receive"
      /\ conn' = [conn EXCEPT ![c] = Closed] /\ Set(f, "reading", "over")
      /\ UNCHANGED <<idle, active, user, closed, raced>>
  BY DEF ReceiveFails
<1>2. /\ BaseInv /\ ReplyInv /\ PoolTypeOK /\ PlaceInv /\ \A g \in Follower : TaskInv(g)
      /\ f \in User /\ user[f].pc \in {"following", "returned"}
      /\ user[f].pc = "returned" => closed[f]
      /\ c \in Conn /\ conn[c] \in Connection
      /\ conn \in [Conn -> Connection] /\ user \in [User -> UserState]
      /\ raced \in BOOLEAN
  BY <1>1, TwoTasks, FollowerHas
<1>3. /\ \A g \in Follower : TaskInv(g)'
      /\ task' \in [Follower -> [Task -> TaskState]] /\ closed' \in [Follower -> BOOLEAN]
      /\ task'[f]["reading"] = "over"
      /\ \A s \in Task : s # "reading" => task'[f][s] = task[f][s]
      /\ \A g \in Follower \ {f} : task'[g] = task[g]
  <2>1. "over" \in TaskState \ Closers
    BY DEF TaskState, Closers
  <2> QED
    BY <1>1, <1>2, <2>1, TwoTasks, TaskInvStep
<1>4. BaseInv'
  <2>1. conn' \in [Conn -> Connection]
    BY <1>1, <1>2, ClosedIs
  <2> QED
    BY <1>1, <1>2, <1>3, <2>1, ConnBase
<1>5. ReplyInv'
  <2>1. CASE raced
    BY <1>1, <2>1 DEF ReplyInv
  <2>2. CASE ~raced /\ user[f].pc = "following"
    <3>1. FollowInv(user[f], task[f], closed[f], conn[c])
      BY <1>2, <2>2 DEF ReplyInv
    <3>2. Closed.pipe = << >> /\ ~Closed.subscribed /\ Closed.status = "closed"
      BY ClosedIs DEF Clean
    <3>3. FollowInv(user[f], task'[f], closed'[f], Closed)
      <4>1. \A i \in 1..Len(Closed.pipe) : FALSE
        BY <3>2
      <4> QED
        BY <3>2, <4>1 DEF FollowInv, CloserInv
    <3>4. StaleInv(f)'
      BY <1>3 DEF StaleInv
    <3>5. user' = [user EXCEPT ![f] = user[f]] /\ user[f].pc \in Having
      BY <1>1, <1>2, <2>2 DEF Having
    <3>6. \A g \in Follower \ {f} : task'[g] = task[g] /\ closed'[g] = closed[g]
      BY <1>1, <1>3
    <3> QED
      BY <1>1, <1>2, <2>2, <3>3, <3>4, <3>5, <3>6, FollowerStays
  <2>3. CASE ~raced /\ user[f].pc = "returned"
    <3>1. task[f]["handler"] # "drain"
      BY <1>2, <2>3, TwoTasks DEF TaskInv, Closers
    <3>2. conn[c] = Closed
      BY <1>1, <1>2, <2>3, <3>1 DEF ReplyInv, StaleInv
    <3>3. conn' = conn
      BY <1>1, <1>2, <3>2
    <3>4. "over" \in TaskState \ Closers
      BY DEF TaskState, Closers
    <3> QED
      BY <1>1, <3>3, <3>4, TwoTasks, TaskStep DEF PoolInv
  <2> QED
    BY <1>2, <2>1, <2>2, <2>3
<1> QED
  BY <1>4, <1>5 DEF PoolInv

LEMMA ConcatIs ==
  ASSUME NEW p \in Seq(Reply), NEW r \in Seq(Reply)
  PROVE  /\ p \o r \in Seq(Reply) /\ Len(p \o r) = Len(p) + Len(r) /\ Len(p) \in Nat
         /\ \A i \in 1..Len(p) : (p \o r)[i] = p[i]
         /\ \A i \in 1..Len(r) : (p \o r)[Len(p) + i] = r[i]
         /\ << >> \o r = r
OBVIOUS

LEMMA FollowStep ==
  ASSUME PoolInv, NEW f \in Follower, NEW followed \in BOOLEAN, Follow(f, followed)
  PROVE  PoolInv'
<1> DEFINE c == user[f].c
           st == Tracked(user[f].state, <<"PSUBSCRIBE">>)
           x == [user[f] EXCEPT !.pc = "following", !.state = st]
           sent == Sent(c, <<"psubscribe">>)
           n == sent.pending + 1
           b == conn[c].status = "open"
           k == [sent EXCEPT !.pending = n, !.subscribed = b]
           tasks == IF followed THEN [reading |-> "check", handler |-> "serve"]
                                ELSE [reading |-> "over", handler |-> "over"]
<1>1. /\ user[f].pc = "held" /\ conn' = [conn EXCEPT ![c] = k]
      /\ user' = [user EXCEPT ![f].pc = "following", ![f].state = Tracked(@, <<"PSUBSCRIBE">>)]
      /\ task' = [task EXCEPT ![f] = tasks] /\ closed' = [closed EXCEPT ![f] = FALSE]
      /\ UNCHANGED <<idle, active, raced>>
  BY DEF Follow
<1>2. f \in User /\ user[f].pc \in Having
  BY <1>1, PoolAssumption DEF Having
<1>3. /\ BaseInv /\ ReplyInv /\ PoolTypeOK /\ PlaceInv /\ \A g \in Follower : TaskInv(g)
      /\ c \in Conn /\ conn[c] \in Connection
      /\ user \in [User -> UserState] /\ user[f] \in UserState
      /\ raced \in BOOLEAN /\ task \in [Follower -> [Task -> TaskState]]
      /\ closed \in [Follower -> BOOLEAN]
  BY <1>2, Has DEF PoolInv
<1>4. user' = [user EXCEPT ![f] = x]
  BY <1>1, <1>3
<1>5. x \in UserState /\ x.pc = "following" /\ x.c = c
  <2>1. "following" \in Places /\ 0 \in Nat /\ st \in SUBSET ConnState
    BY TrackedIs DEF Places, Holding
  <2> HIDE DEF st
  <2>2. UserIs(x, "following", c, user[f].n)
    BY <1>3, <2>1, UserFields, Zenon
  <2> QED
    BY <2>2 DEF UserIs
<1> HIDE DEF x, st
<1>6. /\ sent \in Connection /\ sent.pending = conn[c].pending
      /\ sent.pipe = IF conn[c].status = "open" THEN conn[c].pipe \o <<"psubscribe">>
                                                ELSE conn[c].pipe
  <2>1. <<"psubscribe">> \in Seq(Reply)
    BY DEF Reply
  <2> QED
    BY <1>3, <2>1, SentIs
<1> HIDE DEF sent
<1>7. ConnIs(k, sent.status, n, sent.pipe, b)
  <2>1. sent.pending \in Nat /\ sent.pipe \in Seq(Reply) /\ "open" \in Statuses
    BY <1>6 DEF Connection, Statuses
  <2>2. n \in Nat
    BY <2>1
  <2>3. b \in BOOLEAN
    OBVIOUS
  <2> HIDE DEF n, b
  <2> QED
    BY <1>6, <2>1, <2>2, <2>3, ConnFields, Zenon
<1>8. /\ tasks \in [Task -> TaskState] /\ \A t \in Task : tasks[t] \in {"check", "serve", "over"}
      /\ tasks["handler"] \in {"serve", "over"} /\ tasks["reading"] \in {"check", "over"}
  BY DEF Task, TaskState
<1> HIDE DEF n, b, k, tasks
<1>9. /\ task' \in [Follower -> [Task -> TaskState]] /\ closed' \in [Follower -> BOOLEAN]
      /\ task'[f] = tasks /\ closed'[f] = FALSE
      /\ \A g \in Follower \ {f} : task'[g] = task[g] /\ closed'[g] = closed[g]
  BY <1>1, <1>3, <1>8
<1>10. PoolTypeOK' /\ PlaceInv'
  <2>1. k \in Connection
    BY <1>7 DEF ConnIs
  <2>2. x.pc \in Having /\ x.pc # "wait" /\ raced' \in BOOLEAN
    BY <1>1, <1>3, <1>5 DEF Having
  <2> QED
    BY <1>1, <1>2, <1>3, <1>4, <1>5, <1>9, <2>1, <2>2, StepBase
<1>11. user'[f] = x /\ \A g \in User \ {f} : user'[g] = user[g]
  BY <1>2, <1>3, <1>4
<1>12. \A g \in Follower : TaskInv(g)'
  <2>1. TaskInv(f)'
    BY <1>5, <1>8, <1>9, <1>11 DEF TaskInv, Closers
  <2>2. \A g \in Follower \ {f} : user'[g].pc = user[g].pc
    BY <1>11, PoolAssumption
  <2> QED
    BY <1>3, <1>9, <2>1, <2>2, OtherTasks
<1>13. ReplyInv'
  <2>1. CASE raced
    BY <1>1, <2>1 DEF ReplyInv
  <2>2. CASE ~raced
    <3>1. Clean(conn[c])
      BY <1>1, <1>2, <1>3, <2>2 DEF ReplyInv, UserInv
    <3>2. PICK p : p = k.pipe
      OBVIOUS
    <3>3. p = <<"psubscribe">> \/ p = << >>
      <4>1. p = sent.pipe
        BY <1>7, <3>2 DEF ConnIs
      <4>2. <<"psubscribe">> \in Seq(Reply)
        BY DEF Reply
      <4>3. << >> \o <<"psubscribe">> = <<"psubscribe">>
        BY <4>2, ConcatIs
      <4> QED
        BY <1>6, <3>1, <4>1, <4>3 DEF Clean
    <3>4. \A i \in 1..Len(p) : p[i] # Sentinel
      <4>1. CASE p = <<"psubscribe">>
        <5>1. Len(p) = 1 /\ p[1] = "psubscribe"
          BY <4>1
        <5> QED
          BY <5>1 DEF Sentinel
      <4>2. CASE p = << >>
        <5>1. Len(p) = 0
          BY <4>2
        <5> QED
          BY <5>1
      <4> QED
        BY <3>3, <4>1, <4>2
    <3>5. FollowInv(x, task'[f], closed'[f], k)
      BY <1>8, <1>9, <3>2, <3>4 DEF FollowInv, CloserInv
    <3>6. StaleInv(f)'
      BY <1>9 DEF StaleInv
    <3> QED
      BY <1>1, <1>2, <1>3, <1>4, <1>5, <1>9, <2>2, <3>5, <3>6, FollowerStays
  <2> QED
    BY <2>1, <2>2
<1> QED
  BY <1>10, <1>12, <1>13 DEF PoolInv, BaseInv

-----------------------------------------------------------------------------
(* pooledConnection.Close of a connection with a subscription.             *)

\* A closing goroutine goes on.
LEMMA CloserTasks ==
  ASSUME PoolTypeOK, \A g \in Follower : TaskInv(g), NEW f \in Follower, NEW t \in Task,
         NEW state \in Closers, Set(f, t, state),
         user' \in [User -> UserState], user[f].pc = "following",
         \A g \in Follower : user'[g].pc = user[g].pc,
         closed' = [closed EXCEPT ![f] = TRUE],
         \A s \in Task : s # t => task[f][s] \notin Closers
  PROVE  /\ \A g \in Follower : TaskInv(g)'
         /\ task' \in [Follower -> [Task -> TaskState]] /\ closed' \in [Follower -> BOOLEAN]
         /\ task'[f][t] = state /\ \A s \in Task : s # t => task'[f][s] = task[f][s]
         /\ closed'[f]
         /\ \A g \in Follower \ {f} : task'[g] = task[g] /\ closed'[g] = closed[g]
<1>1. /\ task' \in [Follower -> [Task -> TaskState]] /\ task'[f][t] = state
      /\ \A s \in Task : s # t => task'[f][s] = task[f][s]
      /\ \A g \in Follower \ {f} : task'[g] = task[g]
  <2>1. state \in TaskState
    BY DEF TaskState, Closers
  <2> QED
    BY <2>1, TaskIs DEF PoolTypeOK
<1>2. /\ closed' \in [Follower -> BOOLEAN] /\ closed'[f]
      /\ \A g \in Follower \ {f} : closed'[g] = closed[g]
  BY DEF PoolTypeOK
<1>3. TaskInv(f)'
  <2>1. TaskInv(f) /\ user'[f].pc = "following"
    OBVIOUS
  <2>2. \A s \in Task : task'[f][s] \in Closers => s = t
    BY <1>1
  <2>3. task'[f]["handler"] \notin {"check", "enter", "receive"}
    BY <1>1, <2>1, TwoTasks DEF TaskInv, Closers
  <2> QED
    BY <1>2, <2>1, <2>2, <2>3 DEF TaskInv
<1> QED
  BY <1>1, <1>2, <1>3, OtherTasks

LEMMA UnsubscribedIs ==
  /\ Unsubscribed \in Seq(Reply) /\ Len(Unsubscribed) = 4
  /\ \A i \in 1..3 : Unsubscribed[i] = "unsubscribe"
  /\ Unsubscribed[4] = Sentinel
BY DEF Unsubscribed, Sentinel, Reply

LEMMA LockStep ==
  ASSUME PoolInv, NEW f \in Follower, NEW t \in Task, Lock(f, t)
  PROVE  PoolInv'
<1> DEFINE c == user[f].c
           sent == Sent(c, Unsubscribed)
           n == sent.pending + Len(Unsubscribed)
           k == [sent EXCEPT !.pending = n, !.subscribed = FALSE]
<1>1. /\ task[f][t] = "lock" /\ \A s \in Task : task[f][s] \notin Closers
      /\ closed' = [closed EXCEPT ![f] = TRUE]
      /\ UNCHANGED <<idle, active, user, raced>>
  BY DEF Lock, Closers
<1>2. IF closed[f] THEN Set(f, t, "over") /\ conn' = conn
                   ELSE Set(f, t, "drain") /\ conn' = [conn EXCEPT ![c] = k]
  BY DEF Lock, Gone
<1>3. /\ BaseInv /\ ReplyInv /\ PoolTypeOK /\ PlaceInv /\ \A g \in Follower : TaskInv(g)
      /\ f \in User /\ user[f].pc \in {"following", "returned"}
      /\ user[f].pc = "returned" => closed[f]
      /\ c \in Conn /\ conn[c] \in Connection
      /\ conn \in [Conn -> Connection] /\ user \in [User -> UserState]
      /\ closed \in [Follower -> BOOLEAN] /\ raced \in BOOLEAN
  BY <1>1, FollowerHas
<1>4. CASE closed[f]
  <2>1. closed' = closed
    BY <1>1, <1>3, <1>4
  <2>2. "over" \in TaskState \ Closers
    BY DEF TaskState, Closers
  <2> QED
    BY <1>1, <1>2, <1>4, <2>1, <2>2, TaskStep
<1>5. CASE ~closed[f]
  <2>1. Set(f, t, "drain") /\ conn' = [conn EXCEPT ![c] = k] /\ user[f].pc = "following"
    BY <1>2, <1>3, <1>5
  <2>2. /\ \A g \in Follower : TaskInv(g)'
        /\ task' \in [Follower -> [Task -> TaskState]] /\ closed' \in [Follower -> BOOLEAN]
        /\ task'[f][t] = "drain" /\ \A s \in Task : s # t => task'[f][s] = task[f][s]
        /\ closed'[f]
        /\ \A g \in Follower \ {f} : task'[g] = task[g] /\ closed'[g] = closed[g]
    <3>1. "drain" \in Closers
      BY DEF Closers
    <3> QED
      BY <1>1, <1>3, <2>1, <3>1, CloserTasks
  <2>3. /\ sent \in Connection /\ sent.pending = conn[c].pending
        /\ sent.pipe = IF conn[c].status = "open" THEN conn[c].pipe \o Unsubscribed
                                                  ELSE conn[c].pipe
    BY <1>3, UnsubscribedIs, SentIs
  <2> HIDE DEF sent
  <2>4. ConnIs(k, sent.status, n, sent.pipe, FALSE)
    <3>1. sent.pending \in Nat /\ sent.pipe \in Seq(Reply) /\ "open" \in Statuses
      BY <2>3 DEF Connection, Statuses
    <3>2. n \in Nat
      BY <3>1, UnsubscribedIs
    <3>3. FALSE \in BOOLEAN
      OBVIOUS
    <3> HIDE DEF n
    <3> QED
      BY <2>3, <3>1, <3>2, <3>3, ConnFields, Zenon
  <2> HIDE DEF n, k
  <2>5. BaseInv'
    <3>1. conn' \in [Conn -> Connection]
      BY <1>3, <2>1, <2>4 DEF ConnIs
    <3> QED
      BY <1>1, <1>3, <2>2, <3>1, ConnBase
  <2>6. ReplyInv'
    <3>1. CASE raced
      BY <1>1, <3>1 DEF ReplyInv
    <3>2. CASE ~raced
      <4>1. FollowInv(user[f], task[f], closed[f], conn[c])
        BY <1>3, <3>2 DEF ReplyInv
      <4>2. PICK p, q : p = conn[c].pipe /\ q = k.pipe
        OBVIOUS
      <4>3. p \in Seq(Reply) /\ \A i \in 1..Len(p) : p[i] # Sentinel
        BY <1>3, <1>5, <2>1, <4>1, <4>2 DEF FollowInv, Connection
      <4>4. q = p \o Unsubscribed \/ q = p
        BY <2>3, <2>4, <4>2 DEF ConnIs
      <4>5. \A i \in 1..Len(q) : q[i] = Sentinel => i = Len(q)
        <5>1. CASE q = p
          BY <4>3, <5>1
        <5>2. CASE q = p \o Unsubscribed
          <6>1. /\ Len(q) = Len(p) + 4 /\ Len(p) \in Nat
                /\ \A i \in 1..Len(p) : q[i] = p[i]
                /\ \A i \in 1..4 : q[Len(p) + i] = Unsubscribed[i]
            <7>1. /\ p \o Unsubscribed \in Seq(Reply)
                  /\ Len(p \o Unsubscribed) = Len(p) + Len(Unsubscribed) /\ Len(p) \in Nat
                  /\ \A i \in 1..Len(p) : (p \o Unsubscribed)[i] = p[i]
                  /\ \A i \in 1..Len(Unsubscribed) : (p \o Unsubscribed)[Len(p) + i] = Unsubscribed[i]
              BY <4>3, UnsubscribedIs, ConcatIs, Zenon
            <7> QED
              BY <5>2, <7>1, UnsubscribedIs, Zenon
          <6>2. \A i \in 1..3 : q[Len(p) + i] # Sentinel
            BY <6>1, UnsubscribedIs DEF Sentinel
          <6> SUFFICES ASSUME NEW i \in 1..Len(q), i # Len(q) PROVE q[i] # Sentinel
            OBVIOUS
          <6>3. i \in 1..Len(p) \/ \E j \in 1..3 : i = Len(p) + j
            BY <6>1
          <6> QED
            BY <4>3, <6>1, <6>2, <6>3
        <5> QED
          BY <4>4, <5>1, <5>2
      <4>6. ~k.subscribed
        BY <2>4 DEF ConnIs
      <4>7. FollowInv(user[f], task'[f], closed'[f], k)
        <5>1. \A s \in Task : s # t => task'[f][s] \notin Closers
          BY <1>1, <2>2
        <5> QED
          BY <2>2, <4>2, <4>5, <4>6, <5>1 DEF FollowInv, CloserInv, Closers
      <4>8. StaleInv(f)'
        BY <2>2, TwoTasks DEF StaleInv
      <4>9. user' = [user EXCEPT ![f] = user[f]] /\ user[f].pc \in Having
        BY <1>1, <1>3, <2>1 DEF Having
      <4> QED
        BY <1>1, <1>3, <2>1, <2>2, <3>2, <4>7, <4>8, <4>9, FollowerStays
    <3> QED
      BY <3>1, <3>2
  <2> QED
    BY <2>5, <2>6 DEF PoolInv
<1> QED
  BY <1>4, <1>5

\* The goroutine t of f goes on closing, with its connection.
Proceeds(f, t, state, tasks, x, k) ==
  /\ task' = [task EXCEPT ![f] = tasks]
  /\ tasks[t] = state /\ \A s \in Task : s # t => tasks[s] = task[f][s]
  /\ user' = [user EXCEPT ![f] = x] /\ x.pc = "following" /\ x.c = user[f].c
  /\ conn' = [conn EXCEPT ![user[f].c] = k]
  /\ idle' = idle /\ active' = active /\ closed' = closed
  /\ raced' \in BOOLEAN /\ (raced => raced')
  /\ (~raced' /\ FollowInv(user[f], task[f], closed[f], conn[user[f].c])) =>
       CloserInv(state, k)
  /\ ~raced' => StaleInv(f)'

LEMMA CloserStep ==
  ASSUME PoolInv, NEW f \in Follower, NEW t \in Task, task[f][t] \in Closers,
         NEW state \in Closers, NEW tasks \in [Task -> TaskState],
         NEW x \in UserState, NEW k \in Connection, Proceeds(f, t, state, tasks, x, k)
  PROVE  PoolInv'
<1> USE DEF Proceeds
<1> DEFINE c == user[f].c
<1>1. /\ BaseInv /\ ReplyInv /\ PoolTypeOK /\ PlaceInv /\ \A g \in Follower : TaskInv(g)
      /\ f \in User /\ user[f].pc = "following" /\ closed[f] /\ user[f].pc \in Having
      /\ c \in Conn /\ conn[c] \in Connection
      /\ user \in [User -> UserState] /\ task \in [Follower -> [Task -> TaskState]]
      /\ closed \in [Follower -> BOOLEAN] /\ raced \in BOOLEAN
  <2>1. task[f][t] \notin {"none", "over"}
    BY DEF Closers
  <2> QED
    BY <2>1, FollowerHas DEF Having
<1>2. \A s \in Task : s # t => task[f][s] \notin Closers
  BY <1>1 DEF TaskInv
<1>3. user'[f] = x /\ \A g \in Follower : user'[g].pc = user[g].pc
  BY <1>1, PoolAssumption
<1>4. /\ task' \in [Follower -> [Task -> TaskState]] /\ task'[f] = tasks
      /\ \A g \in Follower \ {f} : task'[g] = task[g] /\ closed'[g] = closed[g]
  BY <1>1
<1>5. PoolTypeOK' /\ PlaceInv'
  <2>1. x.pc \in Having /\ x.pc # "wait" /\ closed' \in [Follower -> BOOLEAN]
    BY <1>1 DEF Having
  <2> QED
    BY <1>1, <1>4, <2>1, StepBase
<1>6. \A g \in Follower : TaskInv(g)'
  <2>1. TaskInv(f)'
    <3>1. \A s \in Task : task'[f][s] \in Closers => s = t
      BY <1>2, <1>4
    <3>2. task'[f]["handler"] \notin {"check", "enter", "receive"}
      <4>1. task[f]["handler"] \notin {"check", "enter", "receive"}
        BY <1>1 DEF TaskInv
      <4> QED
        BY <1>4, <4>1, TwoTasks DEF Closers
    <3> QED
      BY <1>1, <1>3, <3>1, <3>2 DEF TaskInv
  <2> QED
    BY <1>1, <1>3, <1>4, <2>1, OtherTasks
<1>7. ReplyInv'
  <2>1. CASE raced'
    BY <2>1 DEF ReplyInv
  <2>2. CASE ~raced'
    <3>1. ~raced
      BY <1>1, <2>2
    <3>2. FollowInv(user[f], task[f], closed[f], conn[c])
      BY <1>1, <3>1 DEF ReplyInv
    <3>3. FollowInv(x, task'[f], closed'[f], k)
      <4>1. \A s \in Task : s # t => tasks[s] \notin {"drain", "flush", "put"}
        BY <1>2 DEF Closers
      <4>2. CloserInv(state, k)
        BY <2>2, <3>2
      <4> QED
        BY <1>1, <1>4, <4>1, <4>2 DEF FollowInv, CloserInv
    <3> QED
      BY <1>1, <1>4, <2>2, <3>1, <3>3, FollowerStays
  <2> QED
    BY <2>1, <2>2
<1> QED
  BY <1>5, <1>6, <1>7 DEF PoolInv, BaseInv

\* What else is known in the middle of closing.
LEMMA CloserHas ==
  ASSUME PoolInv, NEW f \in Follower, NEW t \in Task, task[f][t] \in Closers
  PROVE  /\ user[f].pc = "following" /\ closed[f] /\ user[f].c \in Conn
         /\ conn[user[f].c] \in Connection /\ raced \in BOOLEAN
         /\ user[f] \in UserState /\ user \in [User -> UserState] /\ conn \in [Conn -> Connection]
         /\ task \in [Follower -> [Task -> TaskState]]
         /\ user = [user EXCEPT ![f] = user[f]]
         /\ conn = [conn EXCEPT ![user[f].c] = conn[user[f].c]]
         /\ ~raced => StaleInv(f)
         /\ ~InIdle(user[f].c)
         /\ \A u \in User : (user[u].pc \in Having /\ user[u].c = user[f].c) => u = f
<1>1. task[f][t] \notin {"none", "over"}
  BY DEF Closers
<1>2. /\ BaseInv /\ ReplyInv /\ PoolTypeOK /\ PlaceInv /\ f \in User
      /\ user[f].pc = "following" /\ closed[f] /\ user[f].c \in Conn
      /\ conn[user[f].c] \in Connection /\ raced \in BOOLEAN
      /\ user[f] \in UserState /\ user \in [User -> UserState] /\ conn \in [Conn -> Connection]
      /\ task \in [Follower -> [Task -> TaskState]]
  BY <1>1, FollowerHas
<1>3. user = [user EXCEPT ![f] = user[f]] /\ conn = [conn EXCEPT ![user[f].c] = conn[user[f].c]]
  BY <1>2
<1>4. ~raced => StaleInv(f)
  BY <1>2 DEF ReplyInv
<1>5. user[f].pc \in Having
  BY <1>2 DEF Having
<1>6. /\ ~InIdle(user[f].c)
      /\ \A u \in User : (user[u].pc \in Having /\ user[u].c = user[f].c) => u = f
  BY <1>2, <1>5, HavingIs DEF PlaceInv, Accounted, InIdle
<1> QED
  BY <1>2, <1>3, <1>4, <1>6

\* The tasks of f after Set.
LEMMA SetIs ==
  ASSUME task \in [Follower -> [Task -> TaskState]], NEW f \in Follower, NEW t \in Task,
         NEW state \in TaskState,
         Set(f, t, state) \/ (task' = task /\ task[f][t] = state)
  PROVE  \E tasks \in [Task -> TaskState] :
           /\ task' = [task EXCEPT ![f] = tasks]
           /\ tasks[t] = state /\ \A s \in Task : s # t => tasks[s] = task[f][s]
<1>1. CASE Set(f, t, state)
  <2> DEFINE tasks == [task[f] EXCEPT ![t] = state]
  <2>1. task' = [task EXCEPT ![f] = tasks]
    BY <1>1 DEF Set
  <2>2. task[f] \in [Task -> TaskState]
    OBVIOUS
  <2>3. /\ tasks \in [Task -> TaskState] /\ tasks[t] = state
        /\ \A s \in Task : s # t => tasks[s] = task[f][s]
    BY <2>2
  <2> HIDE DEF tasks
  <2> QED
    BY <2>1, <2>3
<1>2. CASE task' = task /\ task[f][t] = state
  <2>1. task[f] \in [Task -> TaskState] /\ task' = [task EXCEPT ![f] = task[f]]
    BY <1>2
  <2> QED
    BY <1>2, <2>1
<1> QED
  BY <1>1, <1>2

LEMMA DrainStep ==
  ASSUME PoolInv, NEW f \in Follower, NEW t \in Task, Drain(f, t)
  PROVE  PoolInv'
<1> DEFINE c == user[f].c
           st == user[f].state \ {"subscribe"}
           last == LastAnswer(Head(conn[c].pipe))
           state == IF last THEN "flush" ELSE "drain"
           y == [user[f] EXCEPT !.state = st]
           k == Received(c)
<1>1. /\ task[f][t] = "drain" /\ Answer(c) /\ NowRaced(c)
      /\ conn' = [conn EXCEPT ![c] = k]
      /\ IF last THEN Set(f, t, "flush") /\ user' = [user EXCEPT ![f].state = @ \ {"subscribe"}]
                 ELSE task' = task /\ user' = user
      /\ UNCHANGED <<idle, active, closed>>
  BY DEF Drain
<1>2. task[f][t] \in Closers /\ state \in Closers /\ state \in TaskState
  BY <1>1 DEF Closers, TaskState
<1>3. /\ user[f].pc = "following" /\ closed[f] /\ c \in Conn
      /\ conn[c] \in Connection /\ raced \in BOOLEAN
      /\ user[f] \in UserState /\ user \in [User -> UserState] /\ conn \in [Conn -> Connection]
      /\ task \in [Follower -> [Task -> TaskState]]
      /\ user = [user EXCEPT ![f] = user[f]]
  BY <1>2, CloserHas
<1>4. PICK x \in UserState : user' = [user EXCEPT ![f] = x] /\ x.pc = "following" /\ x.c = c
  <2>1. CASE last
    <3>1. user' = [user EXCEPT ![f] = y]
      BY <1>1, <1>3, <2>1
    <3>2. "held" \in Places /\ 0 \in Nat /\ st \in SUBSET ConnState
      BY <1>3 DEF Places, Holding, UserState
    <3> HIDE DEF st
    <3>3. UserIs(y, user[f].pc, c, user[f].n)
      BY <1>3, <3>2, UserFields, Zenon
    <3> HIDE DEF y
    <3> QED
      BY <1>3, <3>1, <3>3 DEF UserIs
  <2>2. CASE ~last
    BY <1>1, <1>3, <2>2
  <2> QED
    BY <2>1, <2>2
<1>5. PICK tasks \in [Task -> TaskState] :
           /\ task' = [task EXCEPT ![f] = tasks]
           /\ tasks[t] = state /\ \A s \in Task : s # t => tasks[s] = task[f][s]
  <2>1. Set(f, t, state) \/ (task' = task /\ task[f][t] = state)
    BY <1>1
  <2> HIDE DEF state
  <2> QED
    BY <1>2, <1>3, <2>1, SetIs
<1>6. ConnIs(k, conn[c].status, Counted(conn[c].pending), Tail(conn[c].pipe), conn[c].subscribed)
  BY <1>1, <1>3, TakenIs
<1>7. raced' \in BOOLEAN /\ (~raced' => ~raced /\ ~(Cardinality(Readers(c)) > 1))
  BY <1>1, <1>3, RacedType
<1>8. ASSUME ~raced', FollowInv(user[f], task[f], closed[f], conn[c])
      PROVE  CloserInv(state, k)
  <2>1. PICK p, q : p = conn[c].pipe /\ q = Tail(p)
    OBVIOUS
  <2>2. /\ ~conn[c].subscribed /\ p \in Seq(Reply) /\ p # << >>
        /\ \A i \in 1..Len(p) : p[i] = Sentinel => i = Len(p)
    BY <1>1, <1>3, <1>8, <2>1 DEF FollowInv, CloserInv, Answer, Connection
  <2>3. /\ q \in Seq(Reply) /\ Len(q) = Len(p) - 1 /\ Len(p) \in Nat \ {0} /\ Head(p) = p[1]
        /\ \A i \in 1..Len(q) : q[i] = p[i + 1] /\ i + 1 \in 1..Len(p)
    BY <2>1, <2>2, TailIs
  <2>4. ~k.subscribed /\ k.pipe = q
    BY <1>6, <2>1, <2>2 DEF ConnIs
  <2>5. \A i \in 1..Len(q) : q[i] = Sentinel => i = Len(q)
    <3> SUFFICES ASSUME NEW i \in 1..Len(q), q[i] = Sentinel PROVE i = Len(q)
      OBVIOUS
    <3>1. i + 1 = Len(p)
      BY <2>2, <2>3
    <3> QED
      BY <2>3, <3>1
  <2>6. ASSUME last PROVE q = << >>
    <3>1. p[1] = Sentinel
      BY <2>1, <2>3, <2>6 DEF LastAnswer
    <3> HIDE DEF last
    <3>2. PICK n \in Nat : n = Len(p)
      BY <2>3
    <3>3. 1 = n
      <4>1. 1 \in 1..Len(p)
        BY <2>3, <3>2
      <4> QED
        BY <2>2, <3>1, <3>2, <4>1, Zenon
    <3>4. Len(q) = n - 1
      BY <2>3, <3>2
    <3>5. Len(q) = 0
      BY <3>3, <3>4
    <3> QED
      BY <2>3, <3>5
  <2> QED
    BY <2>4, <2>5, <2>6 DEF CloserInv
<1>9. ~raced' => StaleInv(f)'
  <2> SUFFICES ASSUME ~raced', task'[f]["reading"] = "receive" PROVE FALSE
    BY DEF StaleInv
  <2>1. task'[f] = tasks
    BY <1>3, <1>5
  <2>2. t = "handler" /\ task[f]["reading"] = "receive"
    BY <1>5, <2>1, TwoTasks
  <2> QED
    BY <1>1, <1>7, <2>2, TwoReaders
<1>10. k \in Connection
  BY <1>6 DEF ConnIs
<1>11. raced => raced'
  BY <1>7
<1> HIDE DEF k, state, c
<1>12. /\ x.c = user[f].c /\ conn' = [conn EXCEPT ![user[f].c] = k]
       /\ UNCHANGED <<idle, active, closed>>
  BY <1>1, <1>4 DEF c
<1>13. (~raced' /\ FollowInv(user[f], task[f], closed[f], conn[user[f].c])) =>
           CloserInv(state, k)
  BY <1>8 DEF c
<1>14. /\ task' = [task EXCEPT ![f] = tasks] /\ tasks[t] = state
       /\ user' = [user EXCEPT ![f] = x] /\ x.pc = "following"
       /\ idle' = idle /\ active' = active /\ closed' = closed /\ raced' \in BOOLEAN
  BY <1>4, <1>5, <1>7, <1>12
<1>15. \A s \in Task : s # t => tasks[s] = task[f][s]
  BY <1>5
<1>16. task[f][t] \in Closers /\ state \in Closers
  BY <1>2
<1>17. Proceeds(f, t, state, tasks, x, k)
  BY <1>9, <1>11, <1>12, <1>13, <1>14, <1>15 DEF Proceeds
<1> QED
  BY <1>10, <1>16, <1>17, CloserStep

LEMMA FlushStep ==
  ASSUME PoolInv, NEW f \in Follower, NEW t \in Task, Flush(f, t)
  PROVE  PoolInv'
<1> DEFINE c == user[f].c
<1>1. /\ task[f][t] = "flush" /\ UNCHANGED <<idle, active, user, closed>>
      /\ IF conn[c].pending = 0
           THEN Set(f, t, "put") /\ conn' = conn /\ raced' = raced
           ELSE /\ Answer(c) /\ NowRaced(c) /\ task' = task
                /\ conn' = [conn EXCEPT ![c] = [Taken(c) EXCEPT !.pending = @ - 1]]
  BY DEF Flush
<1>2. /\ task[f][t] \in Closers /\ "flush" \in Closers /\ "put" \in Closers
      /\ "flush" \in TaskState /\ "put" \in TaskState
  BY <1>1 DEF Closers, TaskState
<1>3. /\ user[f].pc = "following" /\ closed[f] /\ c \in Conn
      /\ conn[c] \in Connection /\ raced \in BOOLEAN
      /\ user[f] \in UserState /\ user \in [User -> UserState] /\ conn \in [Conn -> Connection]
      /\ task \in [Follower -> [Task -> TaskState]]
      /\ user = [user EXCEPT ![f] = user[f]] /\ conn = [conn EXCEPT ![c] = conn[c]]
      /\ ~raced => StaleInv(f)
  BY <1>2, CloserHas
<1>4. FollowInv(user[f], task[f], closed[f], conn[c]) =>
        ~conn[c].subscribed /\ conn[c].pipe = << >>
  BY <1>1, <1>3 DEF FollowInv, CloserInv
<1>5. CASE conn[c].pending = 0
  <2>1. Set(f, t, "put") /\ conn' = conn /\ raced' = raced
    BY <1>1, <1>5
  <2>2. PICK tasks \in [Task -> TaskState] :
           /\ task' = [task EXCEPT ![f] = tasks]
           /\ tasks[t] = "put" /\ \A s \in Task : s # t => tasks[s] = task[f][s]
    BY <1>2, <1>3, <2>1, SetIs
  <2>3. FollowInv(user[f], task[f], closed[f], conn[c]) => CloserInv("put", conn[c])
    BY <1>4, <1>5 DEF CloserInv, Clean
  <2>4. ~raced' => StaleInv(f)'
    <3> SUFFICES ASSUME ~raced', task'[f]["reading"] = "receive" PROVE StaleInv(f)'
      BY DEF StaleInv
    <3>1. task'[f] = tasks
      BY <1>3, <2>2
    <3>2. t = "handler" /\ task[f]["reading"] = "receive"
      BY <2>2, <3>1, TwoTasks
    <3>3. task[f]["handler"] # "drain" /\ ~raced
      BY <1>1, <2>1, <3>2
    <3> QED
      BY <1>1, <1>3, <2>1, <3>2, <3>3 DEF StaleInv, InIdle
  <2> HIDE DEF c
  <2>5. conn' = [conn EXCEPT ![user[f].c] = conn[c]] /\ user' = [user EXCEPT ![f] = user[f]]
    BY <1>1, <1>3, <2>1 DEF c
  <2>6. Proceeds(f, t, "put", tasks, user[f], conn[c])
    BY <1>1, <1>3, <2>1, <2>2, <2>3, <2>4, <2>5 DEF Proceeds, c
  <2> QED
    BY <1>2, <1>3, <2>6, CloserStep
<1>6. CASE conn[c].pending # 0
  <2> DEFINE k == [Taken(c) EXCEPT !.pending = @ - 1]
  <2>1. Answer(c) /\ NowRaced(c) /\ task' = task /\ conn' = [conn EXCEPT ![c] = k]
    BY <1>1, <1>6
  <2>2. PICK tasks \in [Task -> TaskState] :
           /\ task' = [task EXCEPT ![f] = tasks]
           /\ tasks[t] = "flush" /\ \A s \in Task : s # t => tasks[s] = task[f][s]
    BY <1>1, <1>2, <1>3, <2>1, SetIs
  <2>3. k \in Connection
    <3>1. Taken(c) \in Connection /\ Taken(c).pending = conn[c].pending
      BY <1>3, <2>1, TakenIs DEF ConnIs
    <3>2. Taken(c).pending - 1 \in Nat
      BY <1>3, <1>6, <3>1 DEF Connection
    <3> QED
      BY <3>1, <3>2 DEF Connection
  <2>4. raced' \in BOOLEAN /\ (~raced' => ~raced)
    BY <1>3, <2>1, RacedType
  <2>5. ~FollowInv(user[f], task[f], closed[f], conn[c])
    BY <1>4, <2>1 DEF Answer
  <2>6. raced'
    <3>1. ~raced => FollowInv(user[f], task[f], closed[f], conn[c])
      BY DEF PoolInv, ReplyInv
    <3> QED
      BY <2>4, <2>5, <3>1
  <2> HIDE DEF k
  <2>7. user' = [user EXCEPT ![f] = user[f]]
    BY <1>1, <1>3
  <2>8. Proceeds(f, t, "flush", tasks, user[f], k)
    BY <1>1, <1>3, <2>1, <2>2, <2>4, <2>6, <2>7 DEF Proceeds
  <2> QED
    BY <1>2, <1>3, <2>3, <2>8, CloserStep
<1> QED
  BY <1>5, <1>6

LEMMA DrainFailsStep ==
  ASSUME PoolInv, NEW f \in Follower, NEW t \in Task, DrainFails(f, t)
  PROVE  PoolInv'
<1> DEFINE c == user[f].c
<1>1. /\ task[f][t] \in {"drain", "flush"} /\ Set(f, t, "put")
      /\ conn' = [conn EXCEPT ![c] = Closed] /\ UNCHANGED <<idle, active, user, closed, raced>>
  BY DEF DrainFails
<1>2. task[f][t] \in Closers /\ "put" \in Closers /\ "put" \in TaskState
  BY <1>1 DEF Closers, TaskState
<1>3. /\ user[f].pc = "following" /\ c \in Conn /\ raced \in BOOLEAN
      /\ user[f] \in UserState /\ conn \in [Conn -> Connection]
      /\ task \in [Follower -> [Task -> TaskState]]
      /\ user = [user EXCEPT ![f] = user[f]]
      /\ ~InIdle(c)
      /\ \A u \in User : (user[u].pc \in Having /\ user[u].c = c) => u = f
  BY <1>2, CloserHas
<1>4. PICK tasks \in [Task -> TaskState] :
         /\ task' = [task EXCEPT ![f] = tasks]
         /\ tasks[t] = "put" /\ \A s \in Task : s # t => tasks[s] = task[f][s]
  BY <1>1, <1>2, <1>3, SetIs
<1>5. Closed \in Connection /\ CloserInv("put", Closed)
  BY ClosedIs DEF CloserInv
<1>6. StaleInv(f)'
  <2>1. conn'[user'[f].c] = Closed
    BY <1>1, <1>3
  <2> QED
    BY <1>1, <1>3, <2>1 DEF StaleInv, InIdle
<1>7. /\ user' = [user EXCEPT ![f] = user[f]] /\ raced' \in BOOLEAN /\ (raced => raced')
      /\ idle' = idle /\ active' = active /\ closed' = closed
  BY <1>1, <1>3
<1>8. CloserInv("put", Closed) /\ user[f].pc = "following"
  BY <1>3, <1>5
<1>9. Proceeds(f, t, "put", tasks, user[f], Closed)
  BY <1>1, <1>4, <1>6, <1>7, <1>8, Zenon DEF Proceeds
<1> QED
  BY <1>2, <1>3, <1>5, <1>9, CloserStep

-----------------------------------------------------------------------------
(* Redis, the network, and two readers.                                    *)

\* Whoever a connection belongs to, something happens to it.
LEMMA ConnStep ==
  ASSUME PoolInv, NEW c \in Conn, NEW k \in Connection, conn[c].status = "open",
         conn' = [conn EXCEPT ![c] = k],
         UNCHANGED <<idle, active, user, task, closed, raced>>,
         Clean(conn[c]) => Clean(k),
         \A u \in User, n \in Nat : Own(conn[c], u, n) => Own(k, u, n),
         \A f \in Follower : FollowInv(user[f], task[f], closed[f], conn[c]) =>
                             FollowInv(user[f], task[f], closed[f], k)
  PROVE  PoolInv'
<1>1. /\ BaseInv /\ ReplyInv /\ conn \in [Conn -> Connection] /\ raced \in BOOLEAN
      /\ idle \in Seq(Conn) /\ user \in [User -> UserState]
      /\ task \in [Follower -> [Task -> TaskState]] /\ closed \in [Follower -> BOOLEAN]
      /\ \A f \in Follower : TaskInv(f)
  BY DEF PoolInv, BaseInv, PoolTypeOK
<1>2. conn'[c] = k /\ \A d \in Conn : d # c => conn'[d] = conn[d]
  BY <1>1
<1>3. BaseInv'
  <2>1. conn' \in [Conn -> Connection] /\ raced' \in BOOLEAN
    BY <1>1
  <2>2. \A f \in Follower : TaskInv(f)'
    BY <1>1 DEF TaskInv
  <2> QED
    BY <1>1, <2>1, <2>2, ConnBase
<1>4. CASE raced
  BY <1>3, <1>4 DEF PoolInv, ReplyInv
<1>5. CASE ~raced
  <2>1. /\ CleanIdle
        /\ \A u \in User : UserInv(u, user[u], conn[user[u].c])
        /\ \A f \in Follower : FollowInv(user[f], task[f], closed[f], conn[user[f].c]) /\ StaleInv(f)
    BY <1>1, <1>5 DEF ReplyInv
  <2>2. \A u \in User : user[u].pc \in Having => user[u].c \in Conn
    BY <1>1 DEF BaseInv, PlaceInv
  <2>3. CleanIdle'
    <3> SUFFICES ASSUME NEW i \in 1..Len(idle) PROVE Clean(conn'[idle[i]])
      BY DEF CleanIdle
    <3>1. idle[i] \in Conn /\ Clean(conn[idle[i]])
      BY <1>1, <2>1 DEF CleanIdle
    <3> QED
      BY <1>2, <3>1
  <2>4. ASSUME NEW u \in User PROVE UserInv(u, user[u], conn'[user[u].c])
    <3>1. CASE user[u].pc \notin Having
      BY <3>1 DEF UserInv, Having
    <3>2. CASE user[u].pc \in Having /\ user[u].c # c
      BY <1>2, <2>1, <2>2, <3>2
    <3>3. CASE user[u].c = c
      <4>1. UserInv(u, user[u], conn[c]) /\ user[u].n \in Nat /\ 1 \in Nat
        BY <1>1, <2>1, <3>3 DEF UserState
      <4>2. UserInv(u, user[u], k)
        BY <4>1 DEF UserInv
      <4> QED
        BY <1>2, <3>3, <4>2
    <3> QED
      BY <3>1, <3>2, <3>3
  <2>5. ASSUME NEW f \in Follower
        PROVE  FollowInv(user[f], task[f], closed[f], conn'[user[f].c])
    <3> USE PoolAssumption
    <3>1. CASE user[f].pc # "following"
      BY <3>1 DEF FollowInv
    <3>2. CASE user[f].pc = "following" /\ user[f].c # c
      BY <1>2, <2>1, <2>2, <3>2 DEF Having
    <3>3. CASE user[f].c = c
      BY <1>2, <2>1, <3>3
    <3> QED
      BY <3>1, <3>2, <3>3
  <2>6. ASSUME NEW f \in Follower PROVE StaleInv(f)'
    <3> SUFFICES ASSUME task[f]["reading"] = "receive", closed[f], task[f]["handler"] # "drain"
                 PROVE  /\ conn'[user[f].c] = Closed
                        /\ ~InIdle(user[f].c)
                        /\ \A u \in User : (user[u].pc \in Having /\ user[u].c = user[f].c) => u = f
      BY DEF StaleInv, InIdle
    <3>1. /\ conn[user[f].c] = Closed
          /\ ~InIdle(user[f].c)
          /\ \A u \in User : (user[u].pc \in Having /\ user[u].c = user[f].c) => u = f
      BY <2>1 DEF StaleInv
    <3>2. user[f].c \in Conn
      BY FollowerHas, TwoTasks
    <3>3. user[f].c # c
      BY <3>1, ClosedIs
    <3> QED
      BY <1>2, <3>1, <3>2, <3>3
  <2>7. ReplyInv'
    BY <2>3, <2>4, <2>5, <2>6 DEF ReplyInv
  <2> QED
    BY <1>3, <2>7 DEF PoolInv
<1> QED
  BY <1>4, <1>5

LEMMA AppendIs ==
  ASSUME NEW p \in Seq(Reply), NEW r \in Reply
  PROVE  /\ Append(p, r) \in Seq(Reply)
         /\ \A i \in 1..Len(Append(p, r)) : Append(p, r)[i] = r \/ (i \in 1..Len(p) /\ Append(p, r)[i] = p[i])
OBVIOUS

LEMMA PublishStep ==
  ASSUME PoolInv, NEW c \in Conn, NEW message \in {"data", "kill"}, Publish(c, message)
  PROVE  PoolInv'
<1> DEFINE p == conn[c].pipe
           q == Append(p, message)
           k == [conn[c] EXCEPT !.pipe = q]
<1>1. /\ conn[c].subscribed /\ conn[c].status = "open" /\ conn' = [conn EXCEPT ![c] = k]
      /\ UNCHANGED <<idle, active, user, task, closed, raced>>
  BY DEF Publish
<1>2. conn[c] \in Connection /\ p \in Seq(Reply)
  BY DEF PoolInv, BaseInv, PoolTypeOK, Connection
<1>3. /\ q \in Seq(Reply)
      /\ \A i \in 1..Len(q) : q[i] = message \/ (i \in 1..Len(p) /\ q[i] = p[i])
  <2>1. message \in Reply
    BY DEF Reply
  <2> QED
    BY <1>2, <2>1, AppendIs
<1> HIDE DEF q
<1>4. ConnIs(k, "open", conn[c].pending, q, conn[c].subscribed)
  <2>1. 0 \in Nat /\ TRUE \in BOOLEAN /\ "none" \in Statuses
    BY DEF Statuses
  <2> QED
    BY <1>1, <1>2, <1>3, <2>1, ConnFields
<1> HIDE DEF k
<1>5. ~Clean(conn[c]) /\ \A u \in User, n \in Nat : ~Own(conn[c], u, n)
  BY <1>1 DEF Clean, Own
<1>6. ASSUME NEW f \in Follower, FollowInv(user[f], task[f], closed[f], conn[c])
      PROVE  FollowInv(user[f], task[f], closed[f], k)
  <2> SUFFICES ASSUME user[f].pc = "following"
               PROVE  /\ ~closed[f] => \A i \in 1..Len(k.pipe) : k.pipe[i] # Sentinel
                      /\ \A t \in Task : CloserInv(task[f][t], k)
    BY DEF FollowInv
  <2>1. /\ ~closed[f] => \A i \in 1..Len(p) : p[i] # Sentinel
        /\ \A t \in Task : CloserInv(task[f][t], conn[c])
    BY <1>6 DEF FollowInv
  <2>2. \A t \in Task : task[f][t] \notin {"drain", "flush", "put"}
    BY <1>1, <1>5, <2>1 DEF CloserInv
  <2>3. \A t \in Task : CloserInv(task[f][t], k)
    BY <2>2 DEF CloserInv
  <2>4. message # Sentinel /\ k.pipe = q
    BY <1>4 DEF Sentinel, ConnIs
  <2>5. ~closed[f] => \A i \in 1..Len(q) : q[i] # Sentinel
    BY <1>3, <2>1, <2>4
  <2> QED
    BY <2>3, <2>4, <2>5
<1>7. k \in Connection
  BY <1>4 DEF ConnIs
<1> QED
  BY <1>1, <1>5, <1>6, <1>7, ConnStep

LEMMA FirstIs ==
  ASSUME NEW p \in Seq(Reply), NEW n \in 0..Len(p)
  PROVE  /\ SubSeq(p, 1, n) \in Seq(Reply) /\ Len(SubSeq(p, 1, n)) = n /\ Len(p) \in Nat
         /\ \A i \in 1..n : SubSeq(p, 1, n)[i] = p[i] /\ i \in 1..Len(p)
OBVIOUS

LEMMA BreakStep ==
  ASSUME PoolInv, NEW c \in Conn, NEW n \in 0..Len(conn[c].pipe), Break(c, n)
  PROVE  PoolInv'
<1> DEFINE p == conn[c].pipe
           q == SubSeq(p, 1, n)
           k == [conn[c] EXCEPT !.status = "broken", !.pipe = q]
<1>1. conn[c] \in Connection /\ p \in Seq(Reply) /\ conn \in [Conn -> Connection]
  BY DEF PoolInv, BaseInv, PoolTypeOK, Connection
<1>2. /\ conn[c].status = "open"
      /\ UNCHANGED <<idle, active, user, task, closed, raced>>
      /\ conn' = [conn EXCEPT ![c].status = "broken", ![c].pipe = SubSeq(@, 1, n)]
  BY DEF Break
<1>3. conn' = [conn EXCEPT ![c] = k]
  BY <1>1, <1>2
<1>4. /\ q \in Seq(Reply) /\ Len(q) = n /\ Len(p) \in Nat
      /\ \A i \in 1..n : q[i] = p[i] /\ i \in 1..Len(p)
  BY <1>1, FirstIs
<1> HIDE DEF q
<1>5. ConnIs(k, "broken", conn[c].pending, q, conn[c].subscribed)
  <2>1. 0 \in Nat /\ TRUE \in BOOLEAN /\ "broken" \in Statuses
    BY DEF Statuses
  <2> QED
    BY <1>1, <1>4, <2>1, ConnFields
<1> HIDE DEF k
<1>6. k.pipe = q /\ k.pending = conn[c].pending /\ k.subscribed = conn[c].subscribed
  BY <1>5 DEF ConnIs
<1>7. p = << >> => q = << >>
  BY <1>1, <1>4
<1>8. Clean(conn[c]) => Clean(k)
  BY <1>6, <1>7 DEF Clean
<1>9. ASSUME NEW u \in User, NEW m \in Nat, Own(conn[c], u, m) PROVE Own(k, u, m)
  <2>1. Len(p) <= m /\ \A i \in 1..Len(p) : p[i] = u
    BY <1>9 DEF Own
  <2>2. Len(q) <= m
    BY <1>4, <2>1
  <2>3. \A i \in 1..Len(q) : q[i] = u
    BY <1>4, <2>1
  <2> QED
    BY <1>6, <1>9, <2>2, <2>3 DEF Own
<1>10. ASSUME NEW f \in Follower, FollowInv(user[f], task[f], closed[f], conn[c])
       PROVE  FollowInv(user[f], task[f], closed[f], k)
  <2> SUFFICES ASSUME user[f].pc = "following"
               PROVE  /\ ~closed[f] => \A i \in 1..Len(k.pipe) : k.pipe[i] # Sentinel
                      /\ \A t \in Task : CloserInv(task[f][t], k)
    BY DEF FollowInv
  <2>1. /\ ~closed[f] => \A i \in 1..Len(p) : p[i] # Sentinel
        /\ \A t \in Task : CloserInv(task[f][t], conn[c])
    BY <1>10 DEF FollowInv
  <2>2. ~closed[f] => \A i \in 1..Len(q) : q[i] # Sentinel
    BY <1>4, <2>1
  <2>3. ASSUME NEW t \in Task PROVE CloserInv(task[f][t], k)
    <3>1. CloserInv(task[f][t], conn[c])
      BY <2>1
    <3>2. ASSUME task[f][t] = "drain", NEW i \in 1..Len(q), q[i] = Sentinel PROVE i = Len(q)
      <4>1. i = Len(p) /\ i \in 1..n
        BY <1>4, <3>1, <3>2 DEF CloserInv
      <4> QED
        BY <1>4, <4>1
    <3>3. task[f][t] = "put" => Clean(k)
      BY <1>2, <1>8, <3>1 DEF CloserInv
    <3> QED
      BY <1>6, <1>7, <3>1, <3>2, <3>3 DEF CloserInv
  <2> QED
    BY <1>6, <2>2, <2>3
<1>11. k \in Connection
  BY <1>5 DEF ConnIs
<1> QED
  BY <1>2, <1>3, <1>8, <1>9, <1>10, <1>11, ConnStep

LEMMA CollideStep ==
  ASSUME PoolInv, NEW c \in Conn, Collide(c)
  PROVE  PoolInv'
<1>1. /\ Answer(c) /\ raced' = TRUE /\ UNCHANGED <<idle, active, user, task, closed>>
      /\ \/ conn' = [conn EXCEPT ![c] = Closed]
         \/ conn' = [conn EXCEPT ![c] = Taken(c)]
  BY DEF Collide
<1>2. /\ BaseInv /\ conn \in [Conn -> Connection] /\ conn[c] \in Connection
      /\ task \in [Follower -> [Task -> TaskState]] /\ closed \in [Follower -> BOOLEAN]
      /\ \A f \in Follower : TaskInv(f)
  BY DEF PoolInv, BaseInv, PoolTypeOK
<1>3. Closed \in Connection /\ Taken(c) \in Connection
  BY <1>1, <1>2, ClosedIs, TakenIs DEF ConnIs
<1>4. conn' \in [Conn -> Connection] /\ raced' \in BOOLEAN
  BY <1>1, <1>2, <1>3
<1>5. \A f \in Follower : TaskInv(f)'
  BY <1>1, <1>2 DEF TaskInv
<1>6. BaseInv'
  BY <1>1, <1>2, <1>4, <1>5, ConnBase
<1> QED
  BY <1>1, <1>6 DEF PoolInv, ReplyInv

-----------------------------------------------------------------------------
(* The specification.                                                      *)

LEMMA UserNext ==
  ASSUME PoolInv, NEW u \in User, UserStep(u)
  PROVE  PoolInv'
<1>1. CASE \E k \in 0..Len(idle) : Get(u, k)
  BY <1>1, GetStep
<1>2. CASE Reads(u)
  BY <1>2, TestedStep, TestFailsStep, DoReturnsStep, DoFailsStep DEF Reads
<1>3. CASE Dialled(u)
  BY <1>3, DialledStep
<1>4. CASE DialFails(u)
  BY <1>4, DialFailsStep
<1>5. CASE \E commands \in Calls : Do(u, commands)
  BY <1>5, DoStep
<1>6. CASE GiveBack(u)
  BY <1>6, GiveBackStep
<1> QED
  BY <1>1, <1>2, <1>3, <1>4, <1>5, <1>6 DEF UserStep

LEMMA FollowerNext ==
  ASSUME PoolInv, NEW f \in Follower, FollowerStep(f)
  PROVE  PoolInv'
<1>1. CASE \E followed \in BOOLEAN : Follow(f, followed)
  BY <1>1, FollowStep
<1>2. CASE Check(f) \/ Enter(f) \/ \E sse \in BOOLEAN : Leave(f, sse)
  BY <1>2, CheckStep
<1>3. CASE Receive(f) \/ ReceiveFails(f)
  BY <1>3, ReceiveStep, ReceiveFailsStep
<1>4. ASSUME NEW t \in Task, Closing(f, t) PROVE PoolInv'
  BY <1>4, LockStep, DrainStep, FlushStep, DrainFailsStep, ReturnStep DEF Closing
<1>5. CASE Again(f)
  BY <1>5, AgainStep
<1> QED
  BY <1>1, <1>2, <1>3, <1>4, <1>5 DEF FollowerStep

LEMMA InitInv == PoolInit => PoolInv
<1> SUFFICES ASSUME PoolInit PROVE PoolInv
  OBVIOUS
<1>1. PoolTypeOK
  <2>1. conn \in [Conn -> Connection] /\ user \in [User -> UserState]
    BY ClosedIs, OutIs DEF PoolInit
  <2>2. task \in [Follower -> [Task -> TaskState]]
    BY DEF PoolInit, TaskState
  <2>3. closed \in [Follower -> BOOLEAN] /\ raced \in BOOLEAN
    BY DEF PoolInit
  <2>4. idle \in Seq(Conn) /\ Len(idle) <= MaxIdle /\ active \in Nat
    BY PoolAssumption DEF PoolInit
  <2> QED
    BY <2>1, <2>2, <2>3, <2>4 DEF PoolTypeOK
<1>2. PlaceInv
  <2>1. {u \in User : user[u].pc \in Holding} = {}
    BY OutIs DEF PoolInit, Holding
  <2>2. Cardinality({u \in User : user[u].pc \in Holding}) = 0
    BY <2>1, FS_EmptySet, Zenon
  <2>3. active = 0 /\ Len(idle) = 0 /\ \A u \in User : user[u].pc = "out" /\ user[u].c = NoConn
    BY OutIs DEF PoolInit
  <2>4. Accounted
    BY <2>2, <2>3 DEF Accounted, Holding
  <2> QED
    BY <2>3, <2>4 DEF PlaceInv, Having
<1>3. \A f \in Follower : TaskInv(f)
  <2>1. \A f \in Follower, t \in Task : task[f][t] = "none"
    BY DEF PoolInit
  <2>2. \A f \in Follower : user[f].pc = "out"
    BY PoolAssumption, OutIs DEF PoolInit
  <2> QED
    BY <2>1, <2>2, TwoTasks DEF TaskInv, Closers
<1>4. ReplyInv
  <2>1. Len(idle) = 0 /\ \A u \in User : user[u].pc = "out"
    BY OutIs DEF PoolInit
  <2>2. \A f \in Follower : user[f].pc = "out" /\ ~closed[f]
    BY <2>1, PoolAssumption DEF PoolInit
  <2> QED
    BY <2>1, <2>2 DEF ReplyInv, CleanIdle, UserInv, FollowInv, StaleInv
<1> QED
  BY <1>1, <1>2, <1>3, <1>4 DEF PoolInv, BaseInv

LEMMA NextInv ==
  ASSUME PoolInv, [PoolNext]_vars
  PROVE  PoolInv'
<1>1. CASE UNCHANGED vars
  BY <1>1 DEF vars, PoolInv, BaseInv, PoolTypeOK, PlaceInv, Accounted, TaskInv, ReplyInv,
              CleanIdle, StaleInv, InIdle
<1>2. ASSUME NEW c \in Conn, NEW message \in {"data", "kill"}, Publish(c, message)
      PROVE  PoolInv'
  BY <1>2, PublishStep
<1>3. ASSUME NEW c \in Conn, NEW n \in 0..Len(conn[c].pipe), Break(c, n)
      PROVE  PoolInv'
  BY <1>3, BreakStep
<1> QED
  BY <1>1, <1>2, <1>3, UserNext, FollowerNext, CollideStep DEF PoolNext

\* PoolInv is an inductive invariant.
LEMMA PoolInvCorrect == PoolSpec => []PoolInv
<1>1. PoolInv /\ [PoolNext]_vars => PoolInv'
  BY NextInv
<1> QED
  BY InitInv, <1>1, PTL DEF PoolSpec

\* Whatever Redis, the network and the two goroutines of a follower do, the
\* pool's account and the connections stay what their types say: pending and
\* active do not go below zero (conn.Receive, Pool.release), and no more than
\* MaxIdle connections are idle (Pool.put).
THEOREM PoolTypeCorrect == PoolSpec => []PoolTypeOK
<1>1. PoolInv => PoolTypeOK
  BY DEF PoolInv, BaseInv
<1> QED
  BY PoolInvCorrect, <1>1, PTL

\* Pool.Get, Pool.put and both goroutines' pooledConnection.Close neither lose
\* a connection nor give one to two users, raced or not.
THEOREM AccountedCorrect == PoolSpec => []Accounted
<1>1. PoolInv => Accounted
  BY DEF PoolInv, BaseInv, PlaceInv
<1> QED
  BY PoolInvCorrect, <1>1, PTL

\* As long as no two goroutines have read from one connection at a time, a user
\* reads answers to its own commands, and what is put back into the pool has
\* nothing outstanding: the sentinel of pooledConnection.Close is the last
\* answer that comes, whatever is published before the unsubscribes.
THEOREM OwnAnswersCorrect == PoolSpec => []OwnAnswers
<1>1. ASSUME PoolInv PROVE OwnAnswers
  <2> SUFFICES ASSUME ~raced PROVE OwnAnswers
    BY DEF OwnAnswers
  <2>1. CleanIdle /\ \A u \in User : UserInv(u, user[u], conn[user[u].c])
    BY <1>1 DEF PoolInv, ReplyInv
  <2>2. ASSUME NEW u \in User, user[u].pc \in {"test", "wait"}
        PROVE  \A i \in 1..Len(conn[user[u].c].pipe) : conn[user[u].c].pipe[i] = u
    BY <2>1, <2>2 DEF UserInv, Own
  <2>3. \A i \in 1..Len(idle) :
          LET k == conn[idle[i]] IN k.pipe = << >> /\ k.pending = 0 /\ ~k.subscribed
    BY <2>1 DEF CleanIdle, Clean
  <2> QED
    BY <2>2, <2>3 DEF OwnAnswers
<1> QED
  BY PoolInvCorrect, <1>1, PTL
=============================================================================
