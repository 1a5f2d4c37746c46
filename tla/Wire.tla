-------------------------------- MODULE Wire --------------------------------
(***************************************************************************)
(* The Redis protocol as redigo speaks it (redigo/redis/conn.go, reply.go) *)
(* and what broker/io.go's fetch makes of the answers to its transaction.  *)
(*                                                                         *)
(* What crosses the wire is a sequence of byte codes.  A length or a number*)
(* comes before the bytes it announces, so that these may hold anything,   *)
(* line ends included.  An answer to EXEC holds no array within an array.  *)
(***************************************************************************)
EXTENDS Integers, SequencesExt

CR == 13
LF == 10
Plus == 43      \* a status
Minus == 45     \* an error, or the sign of a number
Colon == 58     \* a number
Dollar == 36    \* bytes
Star == 42      \* an array
Zero == 48

-----------------------------------------------------------------------------
(* Writing.                                                                *)

\* The digits of a number.
Digits[n \in Nat] ==
  IF n < 10 THEN <<Zero + n>> ELSE Append(Digits[n \div 10], Zero + (n % 10))

Decimal(n) == IF n < 0 THEN <<Minus>> \o Digits[-n] ELSE Digits[n]

writeLen(prefix, n) == <<prefix>> \o Digits[n] \o <<CR, LF>>

writeBytes(p) == writeLen(Dollar, Len(p)) \o p \o <<CR, LF>>

\* A command and its arguments.
writeCommand(args) ==
  writeLen(Star, Len(args)) \o FlattenSeq([i \in 1..Len(args) |-> writeBytes(args[i])])

-----------------------------------------------------------------------------
(* Reading: a result has the reply, and the bytes behind it, or is a fault.*)

Item ==
  [type : {"nil", "status", "error", "int", "bulk", "array"}, bytes : Seq(Nat), int : Int,
   items : {<< >>}]

\* Everything read so far, as one array, and what is left.
Pipeline == [ok : BOOLEAN, reply : [type : {"nil", "array"}, bytes : {<< >>}, int : {0}, items : Seq(Item)],
             rest : Seq(Nat)]

NoReply == [type |-> "nil", bytes |-> << >>, int |-> 0, items |-> << >>]

Fault == [ok |-> FALSE, reply |-> NoReply, rest |-> << >>]

Read(reply, rest) == [ok |-> TRUE, reply |-> reply, rest |-> rest]

\* The position of the first line feed, or 0.
EndOfLine(s) ==
  IF \E i \in 1..Len(s) : s[i] = LF
    THEN CHOOSE i \in 1..Len(s) : s[i] = LF /\ \A j \in 1..(i - 1) : s[j] # LF
    ELSE 0

\* A line ends in CR LF, which it does not hold.
LineOK(s) == EndOfLine(s) >= 2 /\ s[EndOfLine(s) - 1] = CR

readLine(s) == SubSeq(s, 1, EndOfLine(s) - 2)

AfterLine(s) == SubSeq(s, EndOfLine(s) + 1, Len(s))

AllDigits(p) == p # << >> /\ \A i \in 1..Len(p) : p[i] \in Zero..(Zero + 9)

Number(p) ==
  LET value[i \in 0..Len(p)] == IF i = 0 THEN 0 ELSE 10 * value[i - 1] + (p[i] - Zero)
  IN  value[Len(p)]

\* parseInt; its errors are the texts that are no IntText.
Unsigned(p) == IF p # << >> /\ p[1] = Minus THEN Tail(p) ELSE p

IntText(p) == AllDigits(Unsigned(p))

parseInt(p) == IF p[1] = Minus THEN -Number(Unsigned(p)) ELSE Number(p)

\* parseLen: -1 announces nothing at all.
LenText(p) == AllDigits(p) \/ p = <<Minus, Zero + 1>>

\* io.ReadFull, and the empty line behind the bytes.
readBulk(s, n) ==
  LET after == SubSeq(s, n + 1, Len(s))
  IN  IF n > Len(s) \/ ~LineOK(after) \/ readLine(after) # << >> THEN Fault
      ELSE Read([NoReply EXCEPT !.type = "bulk", !.bytes = SubSeq(s, 1, n)], AfterLine(after))

\* A line that announces anything but an array: what the byte before its text says.
Announced(prefix, text, rest) ==
  CASE prefix = Plus -> Read([NoReply EXCEPT !.type = "status", !.bytes = text], rest)
    [] prefix = Minus -> Read([NoReply EXCEPT !.type = "error", !.bytes = text], rest)
    [] prefix = Colon /\ IntText(text) ->
         Read([NoReply EXCEPT !.type = "int", !.int = parseInt(text)], rest)
    [] prefix = Dollar /\ LenText(text) ->
         IF parseInt(text) < 0 THEN Read(NoReply, rest) ELSE readBulk(rest, parseInt(text))
    [] OTHER -> Fault

\* A line with at least one byte.
Announces(s) == LineOK(s) /\ readLine(s) # << >>

\* readReply, for everything but an array.
readSimple(s) ==
  IF Announces(s) THEN Announced(s[1], Tail(readLine(s)), AfterLine(s)) ELSE Fault

Appended(before, next) ==
  IF before.ok /\ next.ok
    THEN Read([before.reply EXCEPT !.items = Append(@, next.reply)], next.rest)
    ELSE Fault

\* One more reply.
OneMore[before \in Pipeline] == Appended(before, readSimple(before.rest))

\* n replies one after the other: the items of an array, or what a pipeline returns.
ReadItems(n, s) ==
  LET read[i \in 0..n] ==
        IF i = 0 THEN Read([NoReply EXCEPT !.type = "array"], s) ELSE OneMore[read[i - 1]]
  IN  read[n]

readArray(text, rest) ==
  CASE ~LenText(text) -> Fault
    [] LenText(text) /\ parseInt(text) < 0 -> Read(NoReply, rest)
    [] OTHER -> ReadItems(parseInt(text), rest)

readReply(s) ==
  IF Announces(s) /\ s[1] = Star THEN readArray(Tail(readLine(s)), AfterLine(s))
                                 ELSE readSimple(s)

\* What Do returns, from the answers to what was sent before and to its command.
Outcome(sent, last) ==
  LET Failed == \E reply \in Range(sent.reply.items) \cup {last.reply} : reply.type = "error"
  IN  IF ~sent.ok \/ ~last.ok \/ Failed THEN Fault ELSE last

\* Do: the answers to what was sent before, then the command's own; an error
\* among them is what Do returns.  (It leaves the connection usable, a fault does not.)
Do(pending, s) ==
  LET sent == ReadItems(pending, s)
  IN  Outcome(sent, readReply(sent.rest))

-----------------------------------------------------------------------------
(* What the conversions of reply.go accept.                                *)

IsValues(result) == result.ok /\ result.reply.type = "array"

IsBytes(reply) == reply.type \in {"bulk", "status"}

IsInt64(reply) == reply.type = "int" \/ (reply.type = "bulk" /\ IntText(reply.bytes))

\* (ParseBool of bytes is left out: EXISTS returns a number.)
IsBool(reply) == reply.type = "int"

Int64Of(reply) == IF reply.type = "int" THEN reply.int ELSE parseInt(reply.bytes)

BoolOf(reply) == reply.int # 0

-----------------------------------------------------------------------------
(* Redis' side.                                                            *)

Answer(reply) ==
  CASE reply.type = "status" -> <<Plus>> \o reply.bytes \o <<CR, LF>>
    [] reply.type = "error" -> <<Minus>> \o reply.bytes \o <<CR, LF>>
    [] reply.type = "int" -> <<Colon>> \o Decimal(reply.int) \o <<CR, LF>>
    [] reply.type = "bulk" -> writeBytes(reply.bytes)
    [] reply.type = "array" ->
         LET item(i) == IF reply.items[i].type = "int"
                          THEN <<Colon>> \o Decimal(reply.items[i].int) \o <<CR, LF>>
                          ELSE writeBytes(reply.items[i].bytes)
         IN  writeLen(Star, Len(reply.items)) \o FlattenSeq([i \in 1..Len(reply.items) |-> item(i)])

\* Redis has read a command: its arguments.
Command(s) ==
  LET items == readReply(s).reply.items
  IN  [i \in 1..Len(items) |-> items[i].bytes]

=============================================================================
