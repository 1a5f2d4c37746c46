------------------------------- MODULE Stream -------------------------------
(***************************************************************************)
(* What the broker promises (broker/broker.go: Registrar, Writer, Reader), *)
(* without Redis: a stream is a log of bytes that publishers append to and *)
(* that is discarded as a whole; a reader is a cursor that hands over the  *)
(* bytes of the log in order from the offset asked for, and that ends only *)
(* when a publisher has closed the stream.                                 *)
(*                                                                         *)
(* Two weaknesses of the promise are in the code: the log and the mark     *)
(* that it is closed may vanish, each by itself; and a reader that is told *)
(* of a close ends with what it has, whereas one that finds the mark ends  *)
(* with the whole log.                                                     *)
(***************************************************************************)
EXTENDS Integers, Sequences

CONSTANTS
  Reader,
  Chunk,        \* what is appended at once
  StartOffset   \* where readers start

VARIABLES
  bytes,    \* the log
  exists,   \* the stream is registered
  closed,   \* it is marked closed
  told,     \* the readers on their way to which is the word of a close
  cursor    \* cursor[r]: state of r, where it started, what it handed over

streamVars == <<bytes, exists, closed, told, cursor>>

NoCursor == [status |-> "idle", from |-> 0, out |-> << >>]

StreamInit ==
  /\ bytes = << >>
  /\ exists = FALSE
  /\ closed = FALSE
  /\ told = {}
  /\ cursor = [r \in Reader |-> NoCursor]

-----------------------------------------------------------------------------
\* The stream is registered, anew or again.  The mark is not looked at.
Create ==
  /\ bytes' = << >>
  /\ exists' = TRUE
  /\ UNCHANGED <<closed, told, cursor>>

\* Appending creates a stream that has vanished.
Publish(p) ==
  /\ bytes' = bytes \o p
  /\ exists' = TRUE
  /\ closed' = FALSE
  /\ UNCHANGED <<told, cursor>>

\* The readers that are listening are told.
Close ==
  /\ closed' = TRUE
  /\ \E S \in SUBSET {r \in Reader : cursor[r].status = "open"} : told' = told \cup S
  /\ UNCHANGED <<bytes, exists, cursor>>

\* The log, the mark or both have been kept for long enough.
Expire ==
  /\ \/ exists' = exists /\ bytes' = bytes
     \/ exists' = FALSE /\ bytes' = << >>
  /\ closed' \in {closed, FALSE}
  /\ UNCHANGED <<told, cursor>>

-----------------------------------------------------------------------------
Open(r, off) ==
  /\ exists
  /\ cursor[r].status = "idle"
  /\ cursor' = [cursor EXCEPT ![r] = [status |-> "open", from |-> off, out |-> << >>]]
  /\ UNCHANGED <<bytes, exists, closed, told>>

Refuse(r) ==
  /\ cursor[r].status = "idle"
  /\ cursor' = [cursor EXCEPT ![r].status = "refused"]
  /\ UNCHANGED <<bytes, exists, closed, told>>

At(r) == cursor[r].from + Len(cursor[r].out)

\* r after handing over the next n bytes.
HandedOver(r, n) ==
  [cursor[r] EXCEPT !.out = @ \o SubSeq(bytes, At(r) + 1, At(r) + n)]

Left(r) == IF At(r) < Len(bytes) THEN Len(bytes) - At(r) ELSE 0

Deliver(r, n) ==
  /\ cursor[r].status = "open"
  /\ cursor' = [cursor EXCEPT ![r] = HandedOver(r, n)]
  /\ UNCHANGED <<bytes, exists, closed, told>>

\* r reports the end, for a reason: it was told, or it found the mark and
\* hands over everything that is left.
End(r, n) ==
  /\ cursor[r].status = "open"
  /\ r \in told \/ (closed /\ n = Left(r))
  /\ cursor' = [cursor EXCEPT ![r] = [HandedOver(r, n) EXCEPT !.status = "ended"]]
  /\ told' = told \ {r}
  /\ UNCHANGED <<bytes, exists, closed>>

\* The word of a close does not arrive.
Miss(r) ==
  /\ told' = told \ {r}
  /\ UNCHANGED <<bytes, exists, closed, cursor>>

\* Some readers stop without having reported the end.
Abandon(S) ==
  /\ \A r \in S : cursor[r].status = "open"
  /\ cursor' = [r \in Reader |->
                  IF r \in S THEN [cursor[r] EXCEPT !.status = "left"] ELSE cursor[r]]
  /\ told' = told \ S
  /\ UNCHANGED <<bytes, exists, closed>>

-----------------------------------------------------------------------------
StreamNext ==
  \/ Create
  \/ \E p \in Chunk : Publish(p)
  \/ Close
  \/ Expire
  \/ \E S \in SUBSET Reader : Abandon(S)
  \/ \E r \in Reader :
       \/ \E off \in StartOffset : Open(r, off)
       \/ Refuse(r)
       \/ Miss(r)
       \/ \E n \in 0..Left(r) : Deliver(r, n) \/ End(r, n)

StreamSpec == StreamInit /\ [][StreamNext]_streamVars
=============================================================================
