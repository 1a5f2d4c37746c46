------------------------------ MODULE Notices -------------------------------
(***************************************************************************)
(* What Redis pushes to a reader's connection and what the reader makes of *)
(* it (redigo/redis/pubsub.go, scan.go; broker/redis.go channel;           *)
(* broker/io.go reader.Read, reader.read).                                 *)
(*                                                                         *)
(* A reader subscribes to a pattern, <key>:*, which matches more than its  *)
(* own channels: those of every stream whose key begins with <key> and a   *)
(* colon.  Names are sequences of byte codes, with one byte for each of    *)
(* the words behind the last colon.                                        *)
(***************************************************************************)
EXTENDS Wire

-----------------------------------------------------------------------------
(* The names made of a key.                                                *)

id(key) == key \o <<Colon, 105>>

wildcardId(key) == key \o <<Colon, Star>>

doneId(key) == key \o <<Colon, 100>>

killId(key) == key \o <<Colon, 107>>

-----------------------------------------------------------------------------
(* Redis' side.                                                            *)

\* The kinds of notices, by the word each begins with.
Word ==
  [message |-> <<109>>, pmessage |-> <<112, 109>>,
   subscribe |-> <<115>>, psubscribe |-> <<112, 115>>,
   unsubscribe |-> <<117>>, punsubscribe |-> <<112, 117>>]

\* A glob pattern in which only the star is special.
GlobMatches(pattern, name) ==
  LET match[i \in 0..Len(pattern), j \in 0..Len(name)] ==
        IF i = 0 THEN j = 0
        ELSE IF pattern[i] = Star THEN \E k \in 0..j : match[i - 1, k]
        ELSE j > 0 /\ pattern[i] = name[j] /\ match[i - 1, j - 1]
  IN  match[Len(pattern), Len(name)]

\* A message on a channel that the pattern matches, or the confirmation of the
\* subscription to it.
OnChannel(pattern, channel) == [kind |-> "pmessage", pattern |-> pattern, channel |-> channel]

Confirmed(pattern) == [kind |-> "psubscribe", pattern |-> pattern, channel |-> pattern]

\* The bytes pushed.  Every message says 1.
Pushed(notice) ==
  LET bulk(p) == [NoReply EXCEPT !.type = "bulk", !.bytes = p]
      one     == [NoReply EXCEPT !.type = "int", !.int = 1]
      items   == IF notice.kind = "pmessage"
                   THEN <<bulk(Word.pmessage), bulk(notice.pattern), bulk(notice.channel), bulk(Digits[1])>>
                   ELSE <<bulk(Word[notice.kind]), bulk(notice.pattern), one>>
  IN  Answer([NoReply EXCEPT !.type = "array", !.items = items])

-----------------------------------------------------------------------------
(* Scan.                                                                   *)

\* Which items a variable of a type takes; nil leaves it as it is.
Convertible(type, item) ==
  \/ item.type = "nil"
  \/ item.type = "bulk" /\ (type \in {"string", "bytes"} \/ IntText(item.bytes))
  \/ item.type = "int" /\ type = "int"

\* convertAssign.
Converted(type, item) ==
  CASE type = "int" /\ item.type = "int" -> item.int
    [] type = "int" /\ item.type = "bulk" -> parseInt(item.bytes)
    [] type = "int" /\ item.type = "nil" -> 0
    [] OTHER -> item.bytes

\* The variables' types are given in their order; items may be left over.
Scannable(items, types) ==
  Len(items) >= Len(types) /\ \A i \in 1..Len(types) : Convertible(types[i], items[i])

Scan(items, types) == [i \in 1..Len(types) |-> Converted(types[i], items[i])]

-----------------------------------------------------------------------------
(* PubSubConn.Receive.                                                     *)

\* What Receive returns: a Subscription, Message or PMessage, or an error.
Told(type, channel) == [type |-> type, channel |-> channel]

Failure == Told("error", << >>)

\* What a notice is to be taken for.
Meaning(notice) ==
  Told(IF notice.kind = "pmessage" THEN "pmessage" ELSE "subscription", notice.channel)

MessageTypes == <<"string", "bytes">>
PMessageTypes == <<"string", "string", "bytes">>
SubscriptionTypes == <<"string", "int">>

\* By the word a notice begins with, which of the rest is the channel.
OfKind(word, rest) ==
  CASE word = Word.message /\ Scannable(rest, MessageTypes) ->
         Told("message", Scan(rest, MessageTypes)[1])
    [] word = Word.pmessage /\ Scannable(rest, PMessageTypes) ->
         Told("pmessage", Scan(rest, PMessageTypes)[2])
    [] word \in {Word[kind] : kind \in DOMAIN Word \ {"message", "pmessage"}}
       /\ Scannable(rest, SubscriptionTypes) ->
         Told("subscription", Scan(rest, SubscriptionTypes)[1])
    [] OTHER -> Failure

\* The answer is an array that begins with a word.
OfResult(result) ==
  IF IsValues(result) /\ Scannable(result.reply.items, <<"string">>)
    THEN OfKind(Scan(result.reply.items, <<"string">>)[1], Tail(result.reply.items))
    ELSE Failure

PubSubReceive(wire) == OfResult(readReply(wire))

-----------------------------------------------------------------------------
(* reader.Read of a reader that follows key.                               *)

\* Mutant: any kill that the pattern lets through ends the reader.
AnyKill(key, channel) == channel[Len(channel)] = 107

\* The message tells that this stream has been closed.
Kills(key, channel) == channel = killId(key)

\* What Read does about what it has received.
Reaction(key, event) ==
  CASE event.type = "error" -> "fail"
    [] event.type = "pmessage" /\ Kills(key, event.channel) -> "end"
    [] event.type = "pmessage" /\ event.channel = id(key) -> "fetch"
    [] OTHER -> "nothing"
=============================================================================
