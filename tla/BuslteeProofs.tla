--------------------------- MODULE BuslteeProofs ----------------------------
(***************************************************************************)
(* Proofs about busltee, for any command line, any number of retries and   *)
(* any output of the command: its types, what it uploads, and that the     *)
(* parser does what the line says as a whole.                              *)
(***************************************************************************)
EXTENDS Busltee, FiniteSetTheorems, TLAPS

-----------------------------------------------------------------------------
(* The inductive invariant.                                                *)

\* The flag set, of which --retry alone matters here.
FlagsInv ==
  /\ flags = [left |-> flags.left, args |-> flags.args,
              value |-> flags.value, error |-> flags.error]
  /\ flags.value = [name \in Option |-> flags.value[name]]
  /\ flags.value["retry"] \in {Retry, -1, 0, 1}

\* The command runs while main is in run, and nothing is written before or after.
CommandInv ==
  /\ main \in {"flags", "usage", "exit2", "start"} => cmd.status = "none"
  /\ main = "run" => cmd.status \in {"running", "ended"}
  /\ main \in {"wait", "exit0", "exit1"} => cmd.status = "ended"
  /\ cmd.status = "none" => cmd.out = 0
  /\ upload.state = "sent" => main \in {"wait", "exit0", "exit1"} /\ pipe = {}

\* Chunks are in the pipe or uploaded, once, by whatever attempt.
ChunkInv ==
  /\ IsFiniteSet(pipe) /\ pipe \subseteq 1..cmd.out
  /\ \A i \in 1..Len(got) : got[i] \in (1..cmd.out) \ pipe
  /\ \A i, j \in 1..Len(got) : got[i] = got[j] => i = j

\* An attempt leaves one goroutine behind.
AttemptInv ==
  /\ main = "flags" => conf.retry = Retry /\ upload.state = "dial" /\ stale = 0 /\ got = << >>
  /\ upload.left <= conf.retry /\ (conf.retry >= 0 => upload.left >= 0)
  /\ upload.state \in {"dial", "send", "sent"} => upload.left >= 0 /\ stale <= conf.retry - upload.left
  /\ stale <= conf.retry - upload.left + 1

\* The chunks that went nowhere.
Lost == {chunk \in 1..cmd.out : chunk \notin pipe /\ \A i \in 1..Len(got) : got[i] # chunk}

\* Each goroutine left behind has lost a chunk, or may still lose one.
LostInv ==
  /\ IsFiniteSet(Lost)
  /\ upload.state \in {"dial", "send", "sent"} =>
       Cardinality(Lost) + stale <= conf.retry - upload.left

BuslteeInv ==
  /\ BuslteeTypeOK /\ FlagsInv /\ CommandInv
  /\ ChunkInv /\ AttemptInv /\ LostInv
-----------------------------------------------------------------------------
(* The options.                                                            *)

FlagSet(f, s, v) ==
  [formal |-> f, shorthands |-> s, value |-> v, errorHandling |-> "ExitOnError"]

LEMMA CommandLineIs ==
  /\ Option = {"insecure", "retry", "connect-timeout", "log-prefix", "log-file"}
  /\ CommandLine.formal["retry"] = "int" /\ CommandLine.errorHandling = "ExitOnError"
  /\ CommandLine.formal["insecure"] = "bool"
  /\ \A name \in Option \ {"insecure"} : CommandLine.formal[name] \in {"int", "float64", "string"}
  /\ DOMAIN CommandLine.shorthands = {"k"} /\ CommandLine.shorthands["k"] = "insecure"
  /\ Defaults = [name \in Option |-> Defaults[name]]
  /\ Defaults["retry"] = Retry
<1> DEFINE f1 == Added(<< >>, "insecure", "bool")
           f2 == Added(f1, "retry", "int")
           f3 == Added(f2, "connect-timeout", "float64")
           f4 == Added(f3, "log-prefix", "string")
           f5 == Added(f4, "log-file", "string")
           v1 == Added(<< >>, "insecure", FALSE)
           v2 == Added(v1, "retry", Retry)
           v3 == Added(v2, "connect-timeout", 2)
           v4 == Added(v3, "log-prefix", "none")
           v5 == Added(v4, "log-file", "none")
           short == Added(<< >>, "k", "insecure")
           Set(f, v) == FlagSet(f, short, v)
<1>1. BoolVarP(NewFlagSet("ExitOnError"), "insecure", "k", FALSE) = Set(f1, v1)
  <2>1. ASSUME NEW default
        PROVE  BoolVarP(NewFlagSet("ExitOnError"), "insecure", "k", default)
                 = FlagSet(Added(<< >>, "insecure", "bool"), Added(<< >>, "k", "insecure"),
                           Added(<< >>, "insecure", default))
    <3> DEFINE f0 == Added(<< >>, "insecure", "bool")
               s0 == Added(<< >>, "k", "insecure")
               v0 == Added(<< >>, "insecure", default)
               empty == NewFlagSet("ExitOnError")
    <3>1. /\ f0 = Added(empty.formal, "insecure", "bool") /\ v0 = Added(empty.value, "insecure", default)
          /\ s0 = Added(empty.shorthands, "k", "insecure") /\ empty.errorHandling = "ExitOnError"
      BY DEF NewFlagSet
    <3> HIDE DEF f0, s0, v0, empty
    <3>2. BoolVarP(empty, "insecure", "k", default) = FlagSet(f0, s0, v0)
      BY <3>1 DEF BoolVarP, VarP, FlagSet
    <3> QED
      BY <3>2 DEF f0, s0, v0, empty
  <2> QED
    BY <2>1, Zenon
<1>2. /\ DOMAIN f1 = {"insecure"} /\ f1["insecure"] = "bool" /\ DOMAIN v1 = {"insecure"}
      /\ DOMAIN short = {"k"} /\ short["k"] = "insecure"
  BY DEF Added
<1> HIDE DEF f1, v1, short
<1>3. /\ DOMAIN f2 = {"insecure", "retry"} /\ f2["retry"] = "int"
      /\ f2["insecure"] = "bool"
      /\ DOMAIN v2 = DOMAIN f2 /\ v2["retry"] = Retry
  BY <1>2 DEF Added
<1> HIDE DEF f2, v2
<1>4. /\ DOMAIN f3 = {"insecure", "retry", "connect-timeout"} /\ f3["retry"] = "int"
      /\ f3["insecure"] = "bool" /\ f3["connect-timeout"] = "float64"
      /\ DOMAIN v3 = DOMAIN f3 /\ v3["retry"] = Retry
  BY <1>3 DEF Added
<1> HIDE DEF f3, v3
<1>5. /\ DOMAIN f4 = {"insecure", "retry", "connect-timeout", "log-prefix"} /\ f4["retry"] = "int"
      /\ f4["insecure"] = "bool" /\ f4["connect-timeout"] = "float64" /\ f4["log-prefix"] = "string"
      /\ DOMAIN v4 = DOMAIN f4 /\ v4["retry"] = Retry
  BY <1>4 DEF Added
<1> HIDE DEF f4, v4
<1>6. /\ DOMAIN f5 = {"insecure", "retry", "connect-timeout", "log-prefix", "log-file"} /\ f5["retry"] = "int"
      /\ f5["insecure"] = "bool" /\ f5["connect-timeout"] = "float64" /\ f5["log-prefix"] = "string" /\ f5["log-file"] = "string"
      /\ DOMAIN v5 = DOMAIN f5 /\ v5["retry"] = Retry
      /\ v5 = [e \in DOMAIN v5 |-> v5[e]]
  BY <1>5 DEF Added
<1> HIDE DEF f5, v5
<1>7. IntVar(Set(f1, v1), "retry", Retry) = Set(f2, v2)
  <2>1. /\ f2 = Added(Set(f1, v1).formal, "retry", "int") /\ v2 = Added(Set(f1, v1).value, "retry", Retry)
        /\ short = Set(f1, v1).shorthands /\ Set(f1, v1).errorHandling = "ExitOnError"
    BY DEF f2, v2, FlagSet
  <2> QED
    BY <2>1 DEF IntVar, VarP, FlagSet
<1>8. Float64Var(Set(f2, v2), "connect-timeout", 2) = Set(f3, v3)
  <2>1. /\ f3 = Added(Set(f2, v2).formal, "connect-timeout", "float64") /\ v3 = Added(Set(f2, v2).value, "connect-timeout", 2)
        /\ short = Set(f2, v2).shorthands /\ Set(f2, v2).errorHandling = "ExitOnError"
    BY DEF f3, v3, FlagSet
  <2> QED
    BY <2>1 DEF Float64Var, VarP, FlagSet
<1>9. StringVar(Set(f3, v3), "log-prefix", "none") = Set(f4, v4)
  <2>1. /\ f4 = Added(Set(f3, v3).formal, "log-prefix", "string") /\ v4 = Added(Set(f3, v3).value, "log-prefix", "none")
        /\ short = Set(f3, v3).shorthands /\ Set(f3, v3).errorHandling = "ExitOnError"
    BY DEF f4, v4, FlagSet
  <2> QED
    BY <2>1 DEF StringVar, VarP, FlagSet
<1>10. StringVar(Set(f4, v4), "log-file", "none") = Set(f5, v5)
  <2>1. /\ f5 = Added(Set(f4, v4).formal, "log-file", "string") /\ v5 = Added(Set(f4, v4).value, "log-file", "none")
        /\ short = Set(f4, v4).shorthands /\ Set(f4, v4).errorHandling = "ExitOnError"
    BY DEF f5, v5, FlagSet
  <2> QED
    BY <2>1 DEF StringVar, VarP, FlagSet
<1>11. CommandLine = Set(f5, v5)
  BY <1>1, <1>7, <1>8, <1>9, <1>10 DEF CommandLine
<1> QED
  BY <1>2, <1>6, <1>11 DEF Option, Defaults, FlagSet
-----------------------------------------------------------------------------
(* Reading the command line.                                               *)

IsFlags(f) == f = [left |-> f.left, args |-> f.args, value |-> f.value, error |-> f.error]

FlagsOK(f) ==
  /\ IsFlags(f)
  /\ f.left \in Seq(Token) /\ f.args \in Seq(Token) /\ f.error \in BOOLEAN
  /\ f.value = [name \in Option |-> f.value[name]]
  /\ f.value["retry"] \in {Retry, -1, 0, 1}

LEMMA FlagsRecordIs ==
  ASSUME NEW f, DOMAIN f = {"left", "args", "value", "error"}, f = [x \in DOMAIN f |-> f[x]],
         f.left \in Seq(Token), f.args \in Seq(Token), f.error \in BOOLEAN,
         f.value = [name \in Option |-> f.value[name]],
         f.value["retry"] \in {Retry, -1, 0, 1}
  PROVE  FlagsOK(f)
<1>1. IsFlags(f)
  BY DEF IsFlags
<1> QED
  BY <1>1 DEF FlagsOK

LEMMA FlagsAre ==
  ASSUME line \in Seq(Token), Len(line) <= MaxTokens
  PROVE  FlagsOK(flags) <=> FlagsTypeOK /\ FlagsInv
BY DEF FlagsOK, IsFlags, FlagsTypeOK, FlagsInv

LEMMA UnreadIs ==
  ASSUME NEW left \in Seq(Token)
  PROVE  FlagsOK(Unread(left)) /\ Unread(left).left = left
<1>1. /\ IsFlags(Unread(left)) /\ Unread(left).left = left /\ Unread(left).args = << >>
      /\ Unread(left).value = Defaults /\ Unread(left).error = FALSE
  BY DEF Unread, IsFlags
<1>2. /\ << >> \in Seq(Token) /\ Defaults = [name \in Option |-> Defaults[name]]
      /\ Defaults["retry"] \in {Retry, -1, 0, 1}
  BY CommandLineIs
<1> HIDE DEF Defaults
<1> QED
  BY <1>1, <1>2 DEF FlagsOK

LEMMA FlagsStep ==
  ASSUME FlagsTypeOK, FlagsInv, ParseArg
  PROVE  FlagsTypeOK' /\ FlagsInv'
<1> DEFINE left == flags.left
           args == flags.args
           value == flags.value
<1>1. FlagsOK(flags) /\ line' \in Seq(Token) /\ Len(line') <= MaxTokens
  BY FlagsAre DEF FlagsTypeOK, ParseArg, ParseWord, ParseEnd, ParseLong, ParseShort, ParseBad
<1>2. Parsing("word") \/ Parsing("end") \/ Parsing("long") \/ Parsing("short") \/ Parsing("bad")
  BY DEF ParseArg, ParseWord, ParseEnd, ParseLong, ParseShort, ParseBad
<1>3. left # << >> /\ Head(left) \in Token /\ Tail(left) \in Seq(Token)
  BY <1>1, <1>2 DEF Parsing, FlagsOK
<1>4. /\ IsFlags(flags) /\ left \in Seq(Token) /\ args \in Seq(Token) /\ flags.error \in BOOLEAN
      /\ value = [name \in Option |-> value[name]] /\ value["retry"] \in {Retry, -1, 0, 1}
  BY <1>1 DEF FlagsOK
<1> HIDE DEF left, args, value
<1>5. PICK l, a, v, e : flags = [left |-> l, args |-> a, value |-> v, error |-> e]
  BY <1>4 DEF IsFlags
<1>6. /\ left = l /\ args = a /\ value = v /\ flags.error = e
  BY <1>5 DEF left, args, value
\* The loop goes on with another argument, or with a value read.
<1>7. ASSUME NEW x \in Seq(Token), NEW y \in Seq(Token)
      PROVE  FlagsOK([flags EXCEPT !.args = x, !.left = y])
  <2> DEFINE h == [flags EXCEPT !.args = x, !.left = y]
  <2>1. /\ DOMAIN h = {"left", "args", "value", "error"} /\ h = [z \in DOMAIN h |-> h[z]]
        /\ h.left = y /\ h.args = x /\ h.value = v /\ h.error = e
    BY <1>5
  <2> HIDE DEF h
  <2>2. FlagsOK(h)
    BY <1>4, <1>6, <2>1, FlagsRecordIs
  <2> QED
    BY <2>2 DEF h
<1>8. ASSUME NEW x, x = [name \in Option |-> x[name]], x["retry"] \in {Retry, -1, 0, 1}
      PROVE  /\ FlagsOK([flags EXCEPT !.value = x, !.left = Tail(left)])
             /\ FlagsOK([flags EXCEPT !.left = Tail(left), !.value = x])
  <2> DEFINE h == [flags EXCEPT !.value = x, !.left = Tail(left)]
             g == [flags EXCEPT !.left = Tail(left), !.value = x]
  <2>1. /\ DOMAIN h = {"left", "args", "value", "error"} /\ h = [z \in DOMAIN h |-> h[z]]
        /\ h.left = Tail(left) /\ h.args = a /\ h.value = x /\ h.error = e
    BY <1>5
  <2>2. /\ DOMAIN g = {"left", "args", "value", "error"} /\ g = [z \in DOMAIN g |-> g[z]]
        /\ g.left = Tail(left) /\ g.args = a /\ g.value = x /\ g.error = e
    BY <1>5
  <2> HIDE DEF h, g
  <2>3. FlagsOK(h) /\ FlagsOK(g)
    BY <1>3, <1>4, <1>6, <1>8, <2>1, <2>2, FlagsRecordIs
  <2> QED
    BY <2>3 DEF h, g
<1>9. FlagsOK(Fail)
  <2> DEFINE h == Fail
  <2>1. /\ DOMAIN h = {"left", "args", "value", "error"} /\ h = [z \in DOMAIN h |-> h[z]]
        /\ h.left = << >> /\ h.args = a /\ h.value = v
    BY <1>5 DEF Fail
  <2>2. h.error \in BOOLEAN /\ << >> \in Seq(Token)
    BY <1>5 DEF Fail
  <2> HIDE DEF h
  <2>3. FlagsOK(h)
    BY <1>4, <1>6, <2>1, <2>2, FlagsRecordIs
  <2> QED
    BY <2>3 DEF h
<1>10. FlagsOK(flags')
  <2>1. CASE ParseWord
    <3>1. flags' = [flags EXCEPT !.args = Append(args, Head(left)), !.left = Tail(left)]
      BY <2>1 DEF ParseWord, left, args
    <3>2. Append(args, Head(left)) \in Seq(Token)
      BY <1>3, <1>4
    <3> QED
      BY <1>3, <1>7, <3>1, <3>2
  <2>2. CASE ParseEnd
    <3>1. flags' = [flags EXCEPT !.args = args \o Tail(left), !.left = << >>]
      BY <2>2 DEF ParseEnd, Terminated, left, args
    <3>2. args \o Tail(left) \in Seq(Token) /\ << >> \in Seq(Token)
      BY <1>3, <1>4
    <3> QED
      BY <1>7, <3>1, <3>2
  <2>3. ASSUME NEW name \in Option, NEW text
        PROVE  FlagsOK(SetFlag(name, text))
    <3> DEFINE reading == Reading(CommandLine.formal[name])
               w == [value EXCEPT ![name] = reading[text]]
    <3>1. CASE text \in DOMAIN reading
      <4>1. SetFlag(name, text) = [flags EXCEPT !.value = w, !.left = Tail(left)]
        BY <3>1 DEF SetFlag, left, value
      <4>2. w = [n \in Option |-> w[n]]
        BY <1>4
      <4>3. w["retry"] \in {Retry, -1, 0, 1}
        <5>1. CASE name = "retry"
          <6>1. reading = AsInt
            BY <5>1, CommandLineIs DEF Reading
          <6>2. reading[text] \in {0, 1, -1}
            BY <3>1, <6>1 DEF AsInt
          <6> HIDE DEF reading
          <6> QED
            BY <1>4, <5>1, <6>2
        <5>2. CASE name # "retry"
          BY <1>4, <5>2
        <5> QED
          BY <5>1, <5>2
      <4> HIDE DEF w
      <4> QED
        BY <1>8, <4>1, <4>2, <4>3
    <3>2. CASE text \notin DOMAIN reading
      BY <1>9, <3>2 DEF SetFlag
    <3> QED
      BY <3>1, <3>2
  <2>4. CASE ParseLong
    BY <1>9, <2>3, <2>4 DEF ParseLong
  <2>5. CASE ParseShort
    <3> DEFINE letters == Head(flags.left).letters
               Known == {i \in 1..Len(letters) : letters[i] \in DOMAIN CommandLine.shorthands}
               Named == {CommandLine.shorthands[letters[i]] : i \in Known}
               w == [name \in Option |-> IF name \in Named THEN TRUE ELSE value[name]]
    <3>1. Named \subseteq {"insecure"}
      BY CommandLineIs
    <3>2. flags' = Fail \/ flags' = [flags EXCEPT !.left = Tail(left), !.value = w]
      BY <2>5 DEF ParseShort, left, value
    <3>3. w = [n \in Option |-> w[n]]
      OBVIOUS
    <3> HIDE DEF Named
    <3>4. w["retry"] \in {Retry, -1, 0, 1}
      BY <1>4, <3>1, CommandLineIs
    <3> HIDE DEF w
    <3> QED
      BY <1>8, <1>9, <3>2, <3>3, <3>4
  <2>6. CASE ParseBad
    BY <1>9, <2>6 DEF ParseBad
  <2> QED
    BY <2>1, <2>2, <2>4, <2>5, <2>6 DEF ParseArg
<1>11. (FlagsTypeOK /\ FlagsInv)'
  BY <1>1, <1>10 DEF FlagsOK, IsFlags, FlagsTypeOK, FlagsInv
<1> QED
  BY <1>11
-----------------------------------------------------------------------------
(* Steps of the command and of main.                                       *)

CmdOK(c) == c \in [status : {"none", "running", "ended"}, failed : BOOLEAN, out : 0..MaxOutput]

UploadOK(u) == u \in [state : {"dial", "send", "sent", "drain", "ok", "done"}, left : (-1)..Retry]

\* What the type invariant says beside the flags.
StateOK ==
  /\ main \in {"flags", "usage", "exit2", "start", "run", "wait", "exit0", "exit1"}
  /\ conf \in [retry : {Retry, -1, 0, 1}, noURL : BOOLEAN]
  /\ CmdOK(cmd)
  /\ pipe \in SUBSET (1..MaxOutput) /\ Cardinality(pipe) <= 2
  /\ UploadOK(upload)
  /\ stale \in 0..(Retry + 1)
  /\ got \in Seq(1..MaxOutput)
  /\ signals \in [sent : 0..MaxSignals, passed : 0..MaxSignals]
  /\ early \in BOOLEAN

LEMMA TypeIs == BuslteeTypeOK <=> FlagsTypeOK /\ StateOK
BY DEF BuslteeTypeOK, StateOK, CmdOK, UploadOK

LEMMA CmdUpdate ==
  ASSUME CmdOK(cmd)
  PROVE  /\ \A x \in {"none", "running", "ended"} :
              CmdOK([cmd EXCEPT !.status = x]) /\ [cmd EXCEPT !.status = x].status = x
                /\ [cmd EXCEPT !.status = x].out = cmd.out
         /\ \A x \in 0..MaxOutput :
              CmdOK([cmd EXCEPT !.out = x]) /\ [cmd EXCEPT !.out = x].out = x
                /\ [cmd EXCEPT !.out = x].status = cmd.status
         /\ cmd.status \in {"none", "running", "ended"} /\ cmd.out \in 0..MaxOutput
BY DEF CmdOK

LEMMA CmdEnds ==
  ASSUME CmdOK(cmd), NEW failed \in BOOLEAN,
         NEW new, new = [cmd EXCEPT !.status = "ended", !.failed = failed]
  PROVE  CmdOK(new) /\ new.status = "ended" /\ new.out = cmd.out
BY DEF CmdOK

LEMMA UploadUpdate ==
  ASSUME UploadOK(upload)
  PROVE  /\ \A x \in {"dial", "send", "sent", "drain", "ok", "done"} :
              UploadOK([upload EXCEPT !.state = x]) /\ [upload EXCEPT !.state = x].state = x
                /\ [upload EXCEPT !.state = x].left = upload.left
         /\ upload.state \in {"dial", "send", "sent", "drain", "ok", "done"}
         /\ upload.left \in (-1)..Retry
BY DEF UploadOK

\* A step that leaves the flags alone.
LEMMA FlagsFrame ==
  ASSUME BuslteeInv, UNCHANGED flagVars, StateOK', CommandInv', ChunkInv', AttemptInv', LostInv'
  PROVE  BuslteeInv'
<1>1. FlagsTypeOK' /\ FlagsInv'
  BY DEF BuslteeInv, BuslteeTypeOK, FlagsTypeOK, FlagsInv, flagVars
<1>2. BuslteeTypeOK'
  BY <1>1 DEF BuslteeTypeOK, StateOK, CmdOK, UploadOK
<1> QED
  BY <1>1, <1>2 DEF BuslteeInv
\* Start, the end of the command, of its output and of main: the chunks stay.
LEMMA MainFrame ==
  ASSUME BuslteeInv, main # "flags", CmdOK(cmd'), cmd'.out = cmd.out,
         UNCHANGED <<flagVars, conf, pipe, upload, stale, got, early>>,
         main' \in {"run", "wait", "exit0", "exit1"} \/ UNCHANGED main,
         signals' \in [sent : 0..MaxSignals, passed : 0..MaxSignals], CommandInv'
  PROVE  BuslteeInv'
<1>1. StateOK
  BY TypeIs DEF BuslteeInv
<1>2. StateOK'
  BY <1>1 DEF StateOK
<1>3. ChunkInv'
  BY DEF BuslteeInv, ChunkInv
<1>4. AttemptInv'
  BY <1>1 DEF BuslteeInv, AttemptInv, StateOK
<1>5. LostInv'
  BY DEF BuslteeInv, LostInv, Lost
<1> QED
  BY <1>2, <1>3, <1>4, <1>5, FlagsFrame

LEMMA MainStepInv ==
  ASSUME BuslteeInv,
         \/ Start \/ WaitReturns \/ Signal \/ PassSignal
         \/ \E failed \in BOOLEAN : End(failed)
         \/ \E timeout \in BOOLEAN : Exit(timeout)
  PROVE  BuslteeInv'
<1>1. StateOK /\ CmdOK(cmd) /\ CommandInv
  BY TypeIs DEF StateOK, BuslteeInv
<1>2. cmd.status \in {"none", "running", "ended"}
  BY <1>1, CmdUpdate
<1>3. signals \in [sent : 0..MaxSignals, passed : 0..MaxSignals] /\ MaxSignals \in Nat
  BY <1>1, BuslteeAssumption DEF StateOK
<1>4. CASE Start
  <2>1. \/ main' = "run" /\ cmd' = [cmd EXCEPT !.status = "running"]
        \/ main' = "wait" /\ cmd' = [cmd EXCEPT !.status = "ended", !.failed = TRUE]
    BY <1>4 DEF Start
  <2>2. /\ main = "start"
        /\ UNCHANGED <<flagVars, conf, pipe, upload, stale, got, early, signals>>
    BY <1>4 DEF Start
  <2>3. TRUE \in BOOLEAN
    OBVIOUS
  <2>4. /\ CmdOK(cmd') /\ cmd'.out = cmd.out
        /\ \/ main' = "run" /\ cmd'.status = "running"
           \/ main' = "wait" /\ cmd'.status = "ended"
    BY <1>1, <2>1, <2>3, CmdUpdate, CmdEnds
  <2>5. CommandInv'
    BY <1>1, <2>2, <2>4 DEF CommandInv
  <2> QED
    BY <1>3, <2>2, <2>4, <2>5, MainFrame
<1>5. ASSUME NEW failed \in BOOLEAN, End(failed)
      PROVE  BuslteeInv'
  <2>1. /\ cmd.status = "running" /\ cmd' = [cmd EXCEPT !.status = "ended", !.failed = failed]
        /\ UNCHANGED <<main, flagVars, conf, pipe, upload, stale, got, early, signals>>
    BY <1>5 DEF End
  <2>2. CmdOK(cmd') /\ cmd'.out = cmd.out /\ cmd'.status = "ended"
    BY <1>1, <2>1, CmdEnds
  <2>3. CommandInv' /\ main # "flags"
    BY <1>1, <2>1, <2>2 DEF CommandInv
  <2> QED
    BY <1>3, <2>1, <2>2, <2>3, MainFrame
<1>6. CASE WaitReturns
  <2>1. /\ main = "run" /\ cmd.status = "ended" /\ main' = "wait"
        /\ UNCHANGED <<cmd, flagVars, conf, pipe, upload, stale, got, early, signals>>
    BY <1>6 DEF WaitReturns
  <2>2. CommandInv'
    BY <1>1, <2>1 DEF CommandInv
  <2> QED
    BY <1>1, <1>3, <2>1, <2>2, MainFrame
<1>7. ASSUME NEW timeout \in BOOLEAN, Exit(timeout)
      PROVE  BuslteeInv'
  <2>1. /\ main = "wait" /\ main' \in {"exit0", "exit1"}
        /\ UNCHANGED <<cmd, flagVars, conf, pipe, upload, stale, got, early, signals>>
    BY <1>7 DEF Exit, ExitStatus
  <2>2. CommandInv'
    BY <1>1, <2>1 DEF CommandInv
  <2> QED
    BY <1>1, <1>3, <2>1, <2>2, MainFrame
<1>8. CASE Signal \/ PassSignal
  <2>1. UNCHANGED <<main, cmd, flagVars, conf, pipe, upload, stale, got, early>>
    BY <1>8 DEF Signal, PassSignal
  <2>2. CommandInv'
    BY <1>1, <2>1 DEF CommandInv
  <2>3. PICK m \in 0..MaxSignals, n \in 0..MaxSignals : signals = [sent |-> m, passed |-> n]
    BY <1>3
  <2>4. \/ m < MaxSignals /\ signals' = [sent |-> m + 1, passed |-> n]
        \/ n = 0 /\ m > 0 /\ signals' = [sent |-> m, passed |-> n + 1]
    BY <1>8, <2>3 DEF Signal, PassSignal
  <2>5. signals' \in [sent : 0..MaxSignals, passed : 0..MaxSignals]
    BY <1>3, <2>4
  <2>6. CASE main # "flags"
    BY <1>1, <2>1, <2>2, <2>5, <2>6, MainFrame
  <2>7. CASE main = "flags"
    <3>1. StateOK'
      BY <1>1, <2>1, <2>5 DEF StateOK
    <3>2. ChunkInv' /\ AttemptInv' /\ LostInv'
      BY <2>1 DEF BuslteeInv, ChunkInv, AttemptInv, LostInv, Lost
    <3> QED
      BY <2>1, <2>2, <3>1, <3>2, FlagsFrame
  <2> QED
    BY <2>6, <2>7
<1> QED
  BY <1>4, <1>5, <1>6, <1>7, <1>8

\* A chunk more.
LEMMA OutputInv ==
  ASSUME BuslteeInv, Output
  PROVE  BuslteeInv'
<1> DEFINE new == cmd.out + 1
<1>1. StateOK /\ CmdOK(cmd) /\ CommandInv /\ ChunkInv
  BY TypeIs DEF StateOK, BuslteeInv
<1>2. /\ cmd.status = "running" /\ cmd.out < MaxOutput /\ Cardinality(pipe) < 2
      /\ pipe' = pipe \cup {new} /\ cmd' = [cmd EXCEPT !.out = new]
      /\ UNCHANGED <<flagVars, conf, main, upload, stale, got, signals, early>>
  BY DEF Output
<1>3. cmd.out \in 0..MaxOutput /\ new \in 1..MaxOutput /\ cmd.out \in Nat
  BY <1>1, <1>2, CmdUpdate, BuslteeAssumption
<1>4. CmdOK(cmd') /\ cmd'.out = new /\ cmd'.status = "running"
  BY <1>1, <1>2, <1>3, CmdUpdate
<1>5. main = "run" /\ upload.state # "sent"
  BY <1>1, <1>2 DEF CommandInv, StateOK
<1> HIDE DEF new
<1>6. IsFiniteSet(pipe') /\ Cardinality(pipe') <= 2 /\ pipe' \subseteq 1..new
  <2>1. /\ IsFiniteSet(pipe')
        /\ Cardinality(pipe') = IF new \in pipe THEN Cardinality(pipe) ELSE Cardinality(pipe) + 1
    BY <1>1, <1>2, FS_AddElement DEF ChunkInv
  <2>2. Cardinality(pipe) \in Nat
    BY <1>1, FS_CardinalityType DEF ChunkInv
  <2> QED
    BY <1>1, <1>2, <1>3, <2>1, <2>2 DEF ChunkInv, new
<1>7. StateOK'
  BY <1>1, <1>2, <1>3, <1>4, <1>6 DEF StateOK
<1>8. CommandInv'
  BY <1>2, <1>4, <1>5 DEF CommandInv
<1>9. ChunkInv'
  <2>1. \A i \in 1..Len(got) : got[i] \in (1..new) \ pipe'
    BY <1>1, <1>2, <1>3 DEF ChunkInv, new
  <2> QED
    BY <1>1, <1>2, <1>4, <1>6, <2>1 DEF ChunkInv
<1>10. AttemptInv'
  BY <1>2 DEF BuslteeInv, AttemptInv
<1>11. LostInv'
  <2>1. Lost' = Lost
    <3>1. \A chunk \in 1..new : chunk \in 1..cmd.out \/ chunk = new
      BY <1>3 DEF new
    <3>2. 1..cmd.out \subseteq 1..new
      BY <1>3 DEF new
    <3>3. new \notin 1..cmd.out
      BY <1>3 DEF new
    <3> QED
      BY <1>2, <1>4, <3>1, <3>2, <3>3 DEF Lost
  <2> QED
    BY <1>2, <2>1 DEF BuslteeInv, LostInv
<1> QED
  BY <1>2, <1>7, <1>8, <1>9, <1>10, <1>11, FlagsFrame
-----------------------------------------------------------------------------
(* Steps of the flags and of the upload.                                    *)

LEMMA ReadFlagsInv ==
  ASSUME BuslteeInv, ReadFlags
  PROVE  BuslteeInv'
<1>1. /\ ParseArg
      /\ UNCHANGED <<main, conf, upload, early, cmd, pipe, stale, got, signals>>
  BY DEF ReadFlags, runVars
<1>2. FlagsTypeOK' /\ FlagsInv'
  BY <1>1, FlagsStep DEF BuslteeInv, BuslteeTypeOK
<1>3. BuslteeTypeOK'
  BY <1>1, <1>2 DEF BuslteeInv, BuslteeTypeOK
<1>4. CommandInv' /\ ChunkInv' /\ AttemptInv' /\ LostInv'
  BY <1>1 DEF BuslteeInv, CommandInv, ChunkInv, AttemptInv, LostInv, Lost
<1> QED
  BY <1>2, <1>3, <1>4 DEF BuslteeInv

LEMMA ParseFlagsInv ==
  ASSUME BuslteeInv, ParseFlags
  PROVE  BuslteeInv'
<1>1. /\ StateOK /\ FlagsTypeOK /\ FlagsInv /\ CommandInv /\ ChunkInv /\ AttemptInv /\ LostInv
      /\ Retry \in Nat /\ Retry > 0 /\ MaxTokens \in Nat
  BY TypeIs, FlagsAssumption DEF BuslteeInv
<1>2. /\ main = "flags" /\ UNCHANGED <<cmd, pipe, stale, got, signals>>
      /\ line' = << >> /\ flags' = Unread(<< >>)
  BY DEF ParseFlags, runVars
<1>3. FlagsTypeOK' /\ FlagsInv'
  <2>1. << >> \in Seq(Token) /\ Len(<< >>) <= MaxTokens
    BY <1>1
  <2>2. FlagsOK(flags') /\ line' = << >>
    BY <1>2, <2>1, UnreadIs
  <2>3. (FlagsTypeOK /\ FlagsInv)'
    BY <2>1, <2>2 DEF FlagsOK, IsFlags, FlagsTypeOK, FlagsInv
  <2> QED
    BY <2>3
<1>4. CASE UNCHANGED <<conf, upload, early>> /\ main' \in {"usage", "exit2"}
  <2>1. StateOK'
    BY <1>1, <1>2, <1>4 DEF StateOK
  <2>2. CommandInv'
    BY <1>1, <1>2, <1>4 DEF CommandInv
  <2>3. ChunkInv' /\ AttemptInv' /\ LostInv'
    BY <1>1, <1>2, <1>4 DEF ChunkInv, AttemptInv, LostInv, Lost
  <2>4. BuslteeTypeOK'
    BY <1>3, <2>1 DEF BuslteeTypeOK, StateOK, CmdOK, UploadOK
  <2> QED
    BY <1>3, <2>2, <2>3, <2>4 DEF BuslteeInv
<1>5. CASE /\ main' = "start"
           /\ conf' = [retry |-> flags.value["retry"], noURL |-> Arg(0) = Word("")]
           /\ upload' = [state |-> IF conf'.retry < 0 THEN "ok" ELSE "dial", left |-> conf'.retry]
           /\ early' = (conf'.retry < 0)
  <2> DEFINE n == flags.value["retry"]
  <2>1. n \in {Retry, -1, 0, 1}
    BY <1>1 DEF FlagsInv
  <2>2. conf'.retry = n /\ conf' \in [retry : {Retry, -1, 0, 1}, noURL : BOOLEAN]
    <3> DEFINE b == (Arg(0) = Word(""))
    <3>1. b \in BOOLEAN
      OBVIOUS
    <3>2. conf' = [retry |-> n, noURL |-> b]
      BY <1>5
    <3> HIDE DEF b, n
    <3> QED
      BY <2>1, <3>1, <3>2
  <2>3. early' \in BOOLEAN
    <3> DEFINE b == (conf'.retry < 0)
    <3>1. b \in BOOLEAN
      OBVIOUS
    <3>2. early' = b
      BY <1>5
    <3> HIDE DEF b
    <3> QED
      BY <3>1, <3>2
  <2>4. /\ UploadOK(upload') /\ upload'.left = n
        /\ \/ upload'.state = "ok" /\ n < 0
           \/ upload'.state = "dial" /\ n >= 0
    <3>1. upload' = [state |-> IF n < 0 THEN "ok" ELSE "dial", left |-> n]
      BY <1>5, <2>2
    <3>2. n \in (-1)..Retry
      BY <1>1, <2>1
    <3> HIDE DEF n
    <3> QED
      BY <3>1, <3>2 DEF UploadOK
  <2> HIDE DEF n
  <2>5. StateOK'
    BY <1>1, <1>2, <1>5, <2>2, <2>3, <2>4 DEF StateOK
  <2>6. cmd.status = "none" /\ cmd.out = 0 /\ stale = 0 /\ got = << >>
    BY <1>1, <1>2 DEF CommandInv, AttemptInv
  <2>7. CommandInv'
    BY <1>2, <1>5, <2>4, <2>6 DEF CommandInv
  <2>8. ChunkInv'
    BY <1>1, <1>2 DEF ChunkInv
  <2>9. AttemptInv'
    <3>1. n \in Int
      BY <1>1, <2>1
    <3>2. stale' = 0
      BY <1>2, <2>6
    <3>3. main' # "flags"
      BY <1>5
    <3> QED
      BY <2>2, <2>4, <3>1, <3>2, <3>3 DEF AttemptInv
  <2>10. LostInv'
    <3>1. Lost = {} /\ Lost' = {}
      BY <1>2, <2>6 DEF Lost
    <3>2. n \in Int
      BY <1>1, <2>1
    <3> QED
      BY <1>2, <2>2, <2>4, <2>6, <3>1, <3>2, FS_EmptySet DEF LostInv
  <2>11. BuslteeTypeOK'
    BY <1>3, <2>5 DEF BuslteeTypeOK, StateOK, CmdOK, UploadOK
  <2> QED
    BY <1>3, <2>7, <2>8, <2>9, <2>10, <2>11 DEF BuslteeInv
<1>6. Parse = "returns" \/ Parse = "exit2"
  <2>1. CommandLine.errorHandling = "ExitOnError"
    BY CommandLineIs
  <2> QED
    BY <2>1 DEF Parse, ErrorHandling
<1> QED
  BY <1>4, <1>5, <1>6 DEF ParseFlags
\* An attempt ends, or the next begins: the chunks stay.
LEMMA UploadFrame ==
  ASSUME BuslteeInv, main # "flags", UploadOK(upload'), early' \in BOOLEAN,
         UNCHANGED <<flagVars, conf, main, cmd, pipe, got, signals>>,
         stale' \in Nat, AttemptInv',
         upload'.state \in {"dial", "send", "sent"} =>
           Cardinality(Lost) + stale' <= conf.retry - upload'.left,
         upload'.state = "sent" => main \in {"wait", "exit0", "exit1"} /\ pipe = {}
  PROVE  BuslteeInv'
<1>1. StateOK
  BY TypeIs DEF BuslteeInv
<1>2. stale' \in 0..(Retry + 1)
  <2>1. /\ conf.retry \in {Retry, -1, 0, 1} /\ Retry \in Nat /\ Retry > 0
        /\ upload'.left \in (-1)..Retry /\ upload'.left <= conf.retry
    BY <1>1, FlagsAssumption DEF StateOK, UploadOK, AttemptInv
  <2>2. stale' <= conf.retry - upload'.left + 1 /\ (conf.retry >= 0 => upload'.left >= 0)
    BY DEF AttemptInv
  <2> QED
    BY <2>1, <2>2
<1>3. StateOK'
  BY <1>1, <1>2 DEF StateOK
<1>4. CommandInv'
  BY DEF BuslteeInv, CommandInv
<1>5. ChunkInv'
  BY DEF BuslteeInv, ChunkInv
<1>6. LostInv'
  BY DEF BuslteeInv, LostInv, Lost
<1> QED
  BY <1>3, <1>4, <1>5, <1>6, FlagsFrame

LEMMA AttemptEndsInv ==
  ASSUME BuslteeInv,
         Timeout \/ Fails \/ BodyEnds \/ Answered \/ AnsweredEarly \/ CloseDone
  PROVE  BuslteeInv'
<1>1. StateOK /\ UploadOK(upload) /\ CommandInv /\ AttemptInv /\ LostInv
  BY TypeIs DEF StateOK, BuslteeInv
<1>2. /\ upload.state \in {"dial", "send", "sent", "drain", "ok", "done"}
      /\ upload.left \in (-1)..Retry /\ stale \in Nat /\ early \in BOOLEAN
      /\ conf.retry \in Int /\ Retry \in Nat /\ Cardinality(Lost) \in Nat
  BY <1>1, UploadUpdate, FlagsAssumption, FS_CardinalityType DEF StateOK, LostInv
<1>3. CASE Timeout \/ Fails
  <2>1. /\ main # "flags" /\ upload.state \in {"dial", "send", "sent"}
        /\ UNCHANGED <<flagVars, conf, main, cmd, pipe, got, signals, early>>
        /\ stale' = IF upload.state = "send" THEN stale + 1 ELSE stale
        /\ \/ /\ upload.left > 0
              /\ upload' = [state |-> "dial", left |-> upload.left - 1]
           \/ upload' = [upload EXCEPT !.state = "drain"]
    BY <1>3 DEF Timeout, Fails, Going, RetryOrFail
  <2>2. /\ UploadOK(upload')
        /\ \/ upload.left > 0 /\ upload'.state = "dial" /\ upload'.left = upload.left - 1
           \/ upload'.state = "drain" /\ upload'.left = upload.left
    <3>1. CASE /\ upload.left > 0
               /\ upload' = [state |-> "dial", left |-> upload.left - 1]
      <4>1. upload.left - 1 \in (-1)..Retry
        BY <1>2, <3>1
      <4>2. UploadOK(upload') /\ upload'.state = "dial" /\ upload'.left = upload.left - 1
        BY <3>1, <4>1 DEF UploadOK
      <4> QED
        BY <3>1, <4>2
    <3>2. CASE upload' = [upload EXCEPT !.state = "drain"]
      <4>1. UploadOK(upload') /\ upload'.state = "drain" /\ upload'.left = upload.left
        BY <1>1, <3>2, UploadUpdate
      <4> QED
        BY <4>1
    <3> QED
      BY <2>1, <3>1, <3>2
  <2>3. AttemptInv' /\ stale' \in Nat
    <3>1. stale' \in Nat /\ stale' <= stale + 1
      BY <1>2, <2>1
    <3>2. upload.left >= 0 /\ upload.left <= conf.retry /\ stale <= conf.retry - upload.left
      BY <1>1, <2>1 DEF AttemptInv
    <3>3. \/ /\ upload'.state = "dial" /\ upload'.left >= 0
             /\ upload'.left <= conf.retry /\ stale' <= conf.retry - upload'.left
          \/ /\ upload'.state = "drain" /\ upload'.left >= 0
             /\ upload'.left <= conf.retry /\ stale' <= conf.retry - upload'.left + 1
      BY <1>2, <2>2, <3>1, <3>2
    <3>4. main' # "flags" /\ conf' = conf
      BY <2>1
    <3>5. stale' <= conf.retry - upload'.left + 1
      BY <1>2, <2>2, <3>1, <3>3
    <3> QED
      BY <3>1, <3>3, <3>4, <3>5 DEF AttemptInv
  <2>4. upload'.state = "dial" => Cardinality(Lost) + stale' <= conf.retry - upload'.left
    BY <1>1, <1>2, <2>1, <2>2 DEF LostInv
  <2> QED
    BY <1>2, <2>1, <2>2, <2>3, <2>4, UploadFrame
<1>4. CASE BodyEnds
  <2>1. /\ main = "wait" /\ upload.state = "send" /\ pipe = {}
        /\ upload' = [upload EXCEPT !.state = "sent"]
        /\ UNCHANGED <<flagVars, conf, main, cmd, pipe, got, signals, early, stale>>
    BY <1>1, <1>4 DEF BodyEnds, Going, Exited, WriterClosed, StateOK
  <2>2. UploadOK(upload') /\ upload'.state = "sent" /\ upload'.left = upload.left
    BY <1>1, <2>1, UploadUpdate
  <2>3. AttemptInv' /\ Cardinality(Lost) + stale' <= conf.retry - upload'.left
    BY <1>1, <1>2, <2>1, <2>2 DEF AttemptInv, LostInv
  <2> QED
    BY <1>2, <2>1, <2>2, <2>3, UploadFrame
<1>5. CASE Answered \/ AnsweredEarly \/ CloseDone
  <2>1. /\ main # "flags" /\ upload.state \in {"send", "sent", "ok", "drain"}
        /\ \E x \in {"ok", "done"} : upload' = [upload EXCEPT !.state = x]
        /\ UNCHANGED <<flagVars, conf, main, cmd, pipe, got, signals>>
        /\ stale' = stale \/ (upload.state = "send" /\ stale' = stale + 1)
    BY <1>5 DEF Answered, AnsweredEarly, CloseDone, Going
  <2>2. early' \in BOOLEAN
    <3>1. TRUE \in BOOLEAN
      OBVIOUS
    <3> QED
      BY <1>2, <1>5, <3>1 DEF Answered, AnsweredEarly, CloseDone
  <2>3. UploadOK(upload') /\ upload'.state \in {"ok", "done"} /\ upload'.left = upload.left
    BY <1>1, <2>1, UploadUpdate
  <2>4. AttemptInv' /\ stale' \in Nat
    BY <1>1, <1>2, <2>1, <2>3 DEF AttemptInv
  <2> QED
    BY <2>1, <2>2, <2>3, <2>4, UploadFrame
<1> QED
  BY <1>3, <1>4, <1>5

LEMMA ConnectInv ==
  ASSUME BuslteeInv, Connect
  PROVE  BuslteeInv'
<1>1. StateOK /\ UploadOK(upload) /\ CommandInv /\ AttemptInv /\ LostInv /\ ChunkInv
  BY TypeIs DEF StateOK, BuslteeInv
<1>2. /\ main # "flags" /\ upload.state = "dial"
      /\ upload' = [upload EXCEPT !.state = "send"]
      /\ UNCHANGED <<flagVars, conf, main, cmd, pipe, stale, got, signals, early>>
  BY DEF Connect, Going
<1>3. UploadOK(upload') /\ upload'.state = "send" /\ upload'.left = upload.left
  BY <1>1, <1>2, UploadUpdate
<1>4. StateOK'
  BY <1>1, <1>2, <1>3 DEF StateOK
<1>5. CommandInv' /\ AttemptInv'
  BY <1>1, <1>2, <1>3 DEF CommandInv, AttemptInv
<1>6. ChunkInv'
  BY <1>1, <1>2 DEF ChunkInv
<1>7. LostInv'
  BY <1>1, <1>2, <1>3 DEF LostInv, Lost
<1> QED
  BY <1>2, <1>4, <1>5, <1>6, <1>7, FlagsFrame

\* A chunk is taken from the pipe.
LEMMA PipeShrinks ==
  ASSUME StateOK, ChunkInv, pipe' \subseteq pipe
  PROVE  IsFiniteSet(pipe') /\ pipe' \in SUBSET (1..MaxOutput) /\ Cardinality(pipe') <= 2
<1>1. /\ IsFiniteSet(pipe') /\ Cardinality(pipe') <= Cardinality(pipe)
      /\ Cardinality(pipe') \in Nat /\ Cardinality(pipe) \in Nat
  BY FS_Subset, FS_CardinalityType DEF ChunkInv
<1> QED
  BY <1>1 DEF StateOK

LEMMA SendInv ==
  ASSUME BuslteeInv, NEW chunk \in pipe, Send(chunk)
  PROVE  BuslteeInv'
<1>1. /\ StateOK /\ CommandInv /\ AttemptInv /\ LostInv /\ ChunkInv
      /\ got \in Seq(1..MaxOutput) /\ chunk \in 1..MaxOutput /\ chunk \in 1..cmd.out
  BY TypeIs DEF StateOK, BuslteeInv, ChunkInv
<1>2. /\ main # "flags" /\ upload.state = "send"
      /\ pipe' = pipe \ {chunk} /\ got' = Append(got, chunk)
      /\ UNCHANGED <<flagVars, conf, main, cmd, upload, stale, signals, early>>
  BY DEF Send, Going
<1>3. /\ got' \in Seq(1..MaxOutput) /\ Len(got') = Len(got) + 1 /\ Len(got) \in Nat
      /\ got'[Len(got) + 1] = chunk /\ \A i \in 1..Len(got) : got'[i] = got[i]
  BY <1>1, <1>2
<1>4. StateOK'
  BY <1>1, <1>2, <1>3, PipeShrinks DEF StateOK
<1>5. CommandInv' /\ AttemptInv'
  BY <1>1, <1>2 DEF CommandInv, AttemptInv
<1>6. ChunkInv'
  <2>1. \A i \in 1..Len(got') : i \in 1..Len(got) \/ i = Len(got) + 1
    BY <1>3
  <2>2. \A i \in 1..Len(got') : got'[i] \in (1..cmd.out) \ pipe'
    BY <1>1, <1>2, <1>3, <2>1 DEF ChunkInv
  <2>3. \A i \in 1..Len(got) : got'[i] # chunk
    BY <1>1, <1>3 DEF ChunkInv
  <2>4. \A i, j \in 1..Len(got') : got'[i] = got'[j] => i = j
    BY <1>1, <1>3, <2>1, <2>3 DEF ChunkInv
  <2> QED
    BY <1>1, <1>2, <2>2, <2>4, PipeShrinks DEF ChunkInv
<1>7. LostInv'
  <2>1. 1..Len(got) \subseteq 1..Len(got') /\ Len(got) + 1 \in 1..Len(got')
    BY <1>3
  <2>2. \A i \in 1..Len(got') : i \in 1..Len(got) \/ i = Len(got) + 1
    BY <1>3
  <2>3. Lost' = Lost
    BY <1>1, <1>2, <1>3, <2>1, <2>2 DEF Lost
  <2> QED
    BY <1>1, <1>2, <2>3 DEF LostInv
<1> QED
  BY <1>2, <1>4, <1>5, <1>6, <1>7, FlagsFrame

\* A chunk is read that goes nowhere.
LEMMA ReadAwayInv ==
  ASSUME BuslteeInv,
         StaleRead \/ \E chunk \in pipe : Drain(chunk)
  PROVE  BuslteeInv'
<1>1. /\ StateOK /\ CommandInv /\ AttemptInv /\ LostInv /\ ChunkInv
      /\ stale \in 0..(Retry + 1) /\ Retry \in Nat
      /\ conf.retry \in Int /\ upload.left \in Int
  BY TypeIs, FlagsAssumption, UploadUpdate DEF StateOK, BuslteeInv
<1>2. /\ main # "flags"
      /\ pipe' = pipe \/ \E chunk \in pipe : pipe' = pipe \ {chunk}
      /\ UNCHANGED <<flagVars, conf, main, cmd, upload, got, signals, early>>
      /\ \/ stale > 0 /\ stale' = stale - 1
         \/ upload.state = "drain" /\ stale' = stale
  BY <1>1 DEF StaleRead, Drain, Drained, Going, AttemptInv
<1>3. stale' \in 0..(Retry + 1) /\ stale' <= stale
  BY <1>1, <1>2
<1>4. StateOK'
  BY <1>1, <1>2, <1>3, PipeShrinks DEF StateOK
<1>5. CommandInv'
  BY <1>1, <1>2 DEF CommandInv
<1>6. AttemptInv'
  BY <1>1, <1>2, <1>3 DEF AttemptInv
<1>7. ChunkInv'
  BY <1>1, <1>2, PipeShrinks DEF ChunkInv
<1>8. LostInv'
  <2>1. PICK chunk : Lost' = Lost \/ Lost' = Lost \cup {chunk}
    <3>1. CASE pipe' = pipe
      BY <1>2, <3>1 DEF Lost
    <3>2. ASSUME NEW chunk \in pipe, pipe' = pipe \ {chunk} PROVE Lost' = Lost \cup {chunk}
      BY <1>1, <1>2, <3>2 DEF Lost, ChunkInv
    <3> QED
      BY <1>2, <3>1, <3>2
  <2>2. /\ IsFiniteSet(Lost') /\ Cardinality(Lost) \in Nat /\ Cardinality(Lost') \in Nat
        /\ Cardinality(Lost') <= Cardinality(Lost) + 1
    <3>1. IsFiniteSet(Lost) /\ Cardinality(Lost) \in Nat
      BY <1>1, FS_CardinalityType DEF LostInv
    <3>2. /\ IsFiniteSet(Lost \cup {chunk})
          /\ Cardinality(Lost \cup {chunk}) \in {Cardinality(Lost), Cardinality(Lost) + 1}
      BY <3>1, FS_AddElement
    <3>3. CASE Lost' = Lost
      BY <3>1, <3>3
    <3>4. CASE Lost' = Lost \cup {chunk}
      BY <3>1, <3>2, <3>4
    <3> QED
      BY <2>1, <3>3, <3>4
  <2> QED
    BY <1>1, <1>2, <2>2 DEF LostInv
<1> QED
  BY <1>2, <1>4, <1>5, <1>6, <1>7, <1>8, FlagsFrame

-----------------------------------------------------------------------------
(* Theorems.                                                               *)

LEMMA BuslteeInvInit ==
  ASSUME BuslteeInit
  PROVE  BuslteeInv
<1>1. /\ line \in Seq(Token) /\ Len(line) <= MaxTokens /\ flags = Unread(line)
      /\ Retry \in Nat /\ Retry > 0 /\ MaxOutput \in Nat /\ MaxSignals \in Nat
  BY FlagsAssumption, BuslteeAssumption DEF BuslteeInit, FlagsInit
<1>2. FlagsTypeOK /\ FlagsInv
  BY <1>1, UnreadIs, FlagsAre
<1>3. /\ main = "flags" /\ pipe = {} /\ stale = 0 /\ got = << >>
      /\ conf.retry = Retry /\ cmd.status = "none" /\ cmd.out = 0
      /\ upload.state = "dial" /\ upload.left = Retry
  BY DEF BuslteeInit
<1>4. StateOK
  <2>1. FALSE \in BOOLEAN
    OBVIOUS
  <2>2. /\ conf \in [retry : {Retry, -1, 0, 1}, noURL : BOOLEAN]
        /\ CmdOK(cmd) /\ UploadOK(upload)
        /\ signals \in [sent : 0..MaxSignals, passed : 0..MaxSignals]
    BY <1>1, <2>1 DEF BuslteeInit, CmdOK, UploadOK
  <2>3. early \in BOOLEAN
    BY <2>1 DEF BuslteeInit
  <2> QED
    BY <1>1, <1>3, <2>2, <2>3, FS_EmptySet DEF StateOK
<1>5. Lost = {}
  BY <1>3 DEF Lost
<1>6. CommandInv /\ ChunkInv /\ AttemptInv /\ LostInv
  BY <1>1, <1>3, <1>5, FS_EmptySet DEF CommandInv, ChunkInv, AttemptInv, LostInv
<1> QED
  BY <1>2, <1>4, <1>6, TypeIs DEF BuslteeInv

LEMMA BuslteeInvNext ==
  ASSUME BuslteeInv, [BuslteeNext]_vars
  PROVE  BuslteeInv'
<1>1. CASE ReadFlags \/ ParseFlags
  BY <1>1, ReadFlagsInv, ParseFlagsInv
<1>2. CASE \/ Start \/ WaitReturns \/ Signal \/ PassSignal
           \/ \E failed \in BOOLEAN : End(failed)
           \/ \E timeout \in BOOLEAN : Exit(timeout)
  BY <1>2, MainStepInv
<1>3. CASE Output
  BY <1>3, OutputInv
<1>4. CASE Uploading
  BY <1>4, ConnectInv, AttemptEndsInv, SendInv, ReadAwayInv DEF Uploading
<1>5. CASE StaleRead
  BY <1>5, ReadAwayInv
<1>6. CASE UNCHANGED vars
  <2>1. /\ UNCHANGED <<main, conf, upload, early, cmd, pipe, stale, got, signals, flagVars>>
        /\ StateOK
    BY <1>6, TypeIs DEF vars, runVars, BuslteeInv
  <2>2. StateOK' /\ CommandInv' /\ ChunkInv' /\ AttemptInv' /\ LostInv'
    BY <2>1 DEF BuslteeInv, StateOK, CommandInv, ChunkInv, AttemptInv, LostInv, Lost, CmdOK, UploadOK
  <2> QED
    BY <2>1, <2>2, FlagsFrame
<1> QED
  BY <1>1, <1>2, <1>3, <1>4, <1>5, <1>6 DEF BuslteeNext

LEMMA BuslteeInvCorrect == BuslteeSpec => []BuslteeInv
BY BuslteeInvInit, BuslteeInvNext, PTL DEF BuslteeSpec

\* The states of busltee have their types: no more goroutines are left behind
\* than there are attempts, and the pipe holds no more than one chunk a copier.
THEOREM BuslteeTypeCorrect == BuslteeSpec => []BuslteeTypeOK
<1>1. BuslteeInv => BuslteeTypeOK
  BY DEF BuslteeInv
<1> QED
  BY <1>1, BuslteeInvCorrect, PTL

\* No chunk is uploaded twice, by one attempt or by two: it leaves the pipe with
\* the one who reads it, and nothing puts it back for a retry.
THEOREM NoDuplicatesCorrect == BuslteeSpec => []NoDuplicates
<1>1. BuslteeInv => NoDuplicates
  BY DEF BuslteeInv, ChunkInv, NoDuplicates
<1> QED
  BY <1>1, BuslteeInvCorrect, PTL

\* When the body has ended, no more chunks went nowhere than there were attempts
\* before the one that ends: each leaves one goroutine, which reads once.
THEOREM UploadCompleteCorrect == BuslteeSpec => []UploadComplete
<1>1. BuslteeInv => UploadComplete
  <2>1. SUFFICES ASSUME BuslteeInv, upload.state = "sent"
                 PROVE  Cardinality((1..cmd.out) \ {got[i] : i \in 1..Len(got)}) <= conf.retry - upload.left
    BY DEF UploadComplete
  <2>2. pipe = {} /\ StateOK
    BY <2>1, TypeIs DEF BuslteeInv, CommandInv
  <2>3. Lost = (1..cmd.out) \ {got[i] : i \in 1..Len(got)}
    BY <2>2 DEF Lost
  <2>4. Cardinality(Lost) \in Nat /\ stale \in Nat /\ Cardinality(Lost) + stale <= conf.retry - upload.left
    BY <2>1, <2>2, FS_CardinalityType, FlagsAssumption DEF BuslteeInv, LostInv, StateOK
  <2>5. conf.retry - upload.left \in Int
    BY <2>2, UploadUpdate, FlagsAssumption DEF StateOK
  <2> QED
    BY <2>3, <2>4, <2>5
<1> QED
  BY <1>1, BuslteeInvCorrect, PTL

-----------------------------------------------------------------------------
(* What the loop has made of the first arguments of the line.              *)

Words(p) == {i \in 1..p : line[i].form = "word"}

\* The places of Written.
Kept == {i \in 1..Len(line) : i \notin OptionPart \cup Terminator \/ line[i].form = "word"}

RetriesAmong(places) == {i \in places : line[i].form = "long" /\ line[i].name = "retry"}

LastOf(places) == CHOOSE i \in places : \A j \in places : j <= i

RetryOf(places) == IF places = {} THEN Retry ELSE AsInt[line[LastOf(places)].text]

\* at gives the places in their order.
InOrder(at, n, places) ==
  /\ at \in [1..n -> places]
  /\ \A j, k \in 1..n : j < k => at[j] < at[k]
  /\ \A i \in places : \E k \in 1..n : at[k] = i

\* A sequence of the arguments at some places, in their order.
Lists(s, places) ==
  \E at : InOrder(at, Len(s), places) /\ \A k \in 1..Len(s) : s[k] = line[at[k]]

\* The loop has read p arguments, and none was "--".
ReadTo(f, p) ==
  /\ p \in 0..Len(line)
  /\ \A i \in 1..p : line[i] # Dashes /\ WellFormed(line[i])
  /\ f.left = SubSeq(line, p + 1, Len(line)) /\ f.error = FALSE
  /\ Lists(f.args, Words(p))
  /\ f.value["retry"] = RetryOf(RetriesAmong(1..p))

\* It has read the line up to the "--".
AllRead(f) ==
  /\ \A i \in OptionPart : WellFormed(line[i])
  /\ f.left = << >> /\ f.error = FALSE
  /\ Lists(f.args, Kept)
  /\ f.value["retry"] = RetryOf(RetriesAmong(OptionPart))

\* It has come upon an error.
Rejected(f) ==
  /\ \E i \in OptionPart : ~WellFormed(line[i])
  /\ f.left = << >> /\ f.error = TRUE

Progress(f) == (\E p \in 0..Len(line) : ReadTo(f, p)) \/ AllRead(f) \/ Rejected(f)

LineInv == main = "flags" => Progress(flags)

LEMMA ListsNothing == Lists(<< >>, {})
<1> DEFINE at == [k \in 1..0 |-> {}]
<1>1. InOrder(at, Len(<< >>), {})
  BY DEF InOrder
<1> HIDE DEF at
<1> QED
  BY <1>1 DEF Lists

LEMMA ListsOneMore ==
  ASSUME line \in Seq(Token), NEW s \in Seq(Token), NEW places \in SUBSET (1..Len(line)), Lists(s, places),
         NEW p \in 1..Len(line), \A i \in places : i < p
  PROVE  Lists(Append(s, line[p]), places \cup {p})
<1>1. PICK at : InOrder(at, Len(s), places) /\ \A k \in 1..Len(s) : s[k] = line[at[k]]
  BY DEF Lists
<1> DEFINE n == Len(s)
           t == Append(s, line[p])
           more == [k \in 1..(n + 1) |-> IF k = n + 1 THEN p ELSE at[k]]
<1>2. /\ n \in Nat /\ Len(t) = n + 1 /\ t[n + 1] = line[p]
      /\ \A k \in 1..n : t[k] = s[k]
  OBVIOUS
<1> HIDE DEF t, n
<1>3. /\ at \in [1..n -> places]
      /\ \A j, k \in 1..n : j < k => at[j] < at[k]
      /\ \A i \in places : \E k \in 1..n : at[k] = i
      /\ \A k \in 1..n : t[k] = line[at[k]]
  BY <1>1, <1>2 DEF InOrder, n
<1>4. \A k \in 1..n : at[k] \in places /\ at[k] \in Nat /\ at[k] < p
  <2>1. \A i \in places : i \in Nat /\ i < p
    OBVIOUS
  <2>2. \A k \in 1..n : at[k] \in places
    BY <1>3
  <2> QED
    BY <2>1, <2>2
<1>5. more[n + 1] = p /\ more = [k \in 1..(n + 1) |-> more[k]]
  <2>1. n + 1 \in 1..(n + 1)
    BY <1>2
  <2> QED
    BY <2>1
<1>6. \A k \in 1..n : more[k] = at[k]
  <2>1. \A k \in 1..n : k \in 1..(n + 1) /\ k # n + 1
    BY <1>2
  <2> QED
    BY <2>1
<1> HIDE DEF more
<1>7. /\ more[n + 1] = p /\ more = [k \in 1..(n + 1) |-> more[k]]
      /\ \A k \in 1..n : more[k] = at[k] /\ at[k] \in places /\ at[k] \in Nat /\ at[k] < p
  BY <1>4, <1>5, <1>6
<1>8. more \in [1..(n + 1) -> places \cup {p}]
  <2>1. \A k \in 1..(n + 1) : k \in 1..n \/ k = n + 1
    BY <1>2
  <2>2. \A k \in 1..(n + 1) : more[k] \in places \cup {p}
    BY <1>7, <2>1
  <2> QED
    BY <1>7, <2>2
<1>9. \A j, k \in 1..(n + 1) : j < k => more[j] < more[k]
  <2> SUFFICES ASSUME NEW j \in 1..(n + 1), NEW k \in 1..(n + 1), j < k PROVE more[j] < more[k]
    OBVIOUS
  <2>1. j \in 1..n /\ (k \in 1..n \/ k = n + 1)
    BY <1>2
  <2> QED
    BY <1>7, <1>3, <2>1
<1>10. \A i \in places \cup {p} : \E k \in 1..(n + 1) : more[k] = i
  <2> SUFFICES ASSUME NEW i \in places PROVE \E k \in 1..(n + 1) : more[k] = i
    BY <1>2, <1>7
  <2>1. PICK k \in 1..n : at[k] = i
    BY <1>3
  <2>2. k \in 1..(n + 1)
    BY <1>2
  <2> QED
    BY <1>7, <2>1, <2>2
<1>11. \A k \in 1..(n + 1) : t[k] = line[more[k]]
  <2>1. \A k \in 1..(n + 1) : k \in 1..n \/ k = n + 1
    BY <1>2
  <2> QED
    BY <1>2, <1>7, <1>3, <2>1
<1>12. InOrder(more, Len(t), places \cup {p})
  BY <1>2, <1>8, <1>9, <1>10 DEF InOrder
<1>13. Lists(t, places \cup {p})
  BY <1>2, <1>11, <1>12 DEF Lists
<1> QED
  BY <1>13 DEF t

\* The rest of the line, from p on.
LEMMA ListsRest ==
  ASSUME line \in Seq(Token), NEW s \in Seq(Token), NEW places \in SUBSET (1..Len(line)), Lists(s, places),
         NEW p \in 1..(Len(line) + 1), \A i \in places : i < p
  PROVE  Lists(s \o SubSeq(line, p, Len(line)), places \cup p..Len(line))
<1>1. PICK at : InOrder(at, Len(s), places) /\ \A k \in 1..Len(s) : s[k] = line[at[k]]
  BY DEF Lists
<1> DEFINE n == Len(s)
           m == Len(line) + 1 - p
           rest == SubSeq(line, p, Len(line))
           t == s \o rest
           all == places \cup p..Len(line)
           more == [k \in 1..(n + m) |-> IF k > n THEN p + (k - n) - 1 ELSE at[k]]
<1>2. /\ n \in Nat /\ m \in Nat /\ Len(line) \in Nat /\ Len(line) = p + m - 1 /\ p \in Nat
      /\ Len(rest) = m /\ rest \in Seq(Token) /\ \A k \in 1..m : rest[k] = line[p + k - 1]
  OBVIOUS
<1> HIDE DEF rest, m
<1>3. /\ Len(t) = n + m /\ \A k \in 1..n : t[k] = s[k]
      /\ \A k \in (n + 1)..(n + m) : t[k] = line[p + (k - n) - 1]
  <2>1. Len(t) = n + m /\ \A k \in 1..(n + m) : t[k] = IF k <= n THEN s[k] ELSE rest[k - n]
    BY <1>2
  <2> HIDE DEF t, n
  <2>2. \A k \in (n + 1)..(n + m) : k - n \in 1..m /\ k \in 1..(n + m) /\ ~(k <= n)
    BY <1>2
  <2>3. \A k \in 1..n : k \in 1..(n + m) /\ k <= n
    BY <1>2
  <2> QED
    BY <1>2, <2>1, <2>2, <2>3
<1> HIDE DEF t, n
<1>4. at \in [1..n -> places]
  BY <1>1 DEF InOrder, n
<1>5. /\ DOMAIN more = 1..(n + m) /\ \A k \in 1..n : more[k] = at[k] /\ at[k] \in places
      /\ \A k \in (n + 1)..(n + m) : more[k] = p + (k - n) - 1 /\ more[k] \in p..Len(line)
  BY <1>2, <1>4
<1>6. more = [k \in 1..(n + m) |-> more[k]]
  OBVIOUS
<1> HIDE DEF more
<1>7. \A k \in 1..(n + m) : k \in 1..n \/ k \in (n + 1)..(n + m)
  BY <1>2
<1>8. more \in [1..(n + m) -> all]
  BY <1>5, <1>6, <1>7
<1>9. \A j, k \in 1..(n + m) : j < k => more[j] < more[k]
  <2> SUFFICES ASSUME NEW j \in 1..(n + m), NEW k \in 1..(n + m), j < k PROVE more[j] < more[k]
    OBVIOUS
  <2>1. CASE k \in 1..n
    BY <1>1, <1>2, <1>5, <2>1 DEF InOrder, n
  <2>2. CASE k \in (n + 1)..(n + m) /\ j \in 1..n
    <3>1. more[j] \in 1..Len(line) /\ more[j] < p /\ more[k] \in p..Len(line)
      BY <1>5, <2>2
    <3> QED
      BY <1>2, <3>1
  <2>3. CASE j \in (n + 1)..(n + m) /\ k \in (n + 1)..(n + m)
    <3>1. more[j] = p + (j - n) - 1 /\ more[k] = p + (k - n) - 1
      BY <1>5, <2>3
    <3> QED
      BY <1>2, <3>1
  <2> QED
    BY <1>2, <1>7, <2>1, <2>2, <2>3
<1>10. \A i \in all : \E k \in 1..(n + m) : more[k] = i
  <2>1. ASSUME NEW i \in places PROVE \E k \in 1..(n + m) : more[k] = i
    <3>1. PICK k \in 1..n : at[k] = i
      BY <1>1 DEF InOrder, n
    <3> QED
      BY <1>2, <1>5, <3>1
  <2>2. ASSUME NEW i \in p..Len(line) PROVE \E k \in 1..(n + m) : more[k] = i
    <3>1. (i - p + 1) + n \in (n + 1)..(n + m) /\ (i - p + 1) + n \in 1..(n + m)
      BY <1>2
    <3>2. more[(i - p + 1) + n] = p + (((i - p + 1) + n) - n) - 1
      BY <1>5, <3>1
    <3>3. p + (((i - p + 1) + n) - n) - 1 = i
      BY <1>2
    <3> QED
      BY <3>1, <3>2, <3>3
  <2> QED
    BY <2>1, <2>2
<1>11. \A k \in 1..(n + m) : t[k] = line[more[k]]
  <2> SUFFICES ASSUME NEW k \in 1..(n + m) PROVE t[k] = line[more[k]]
    OBVIOUS
  <2>1. CASE k \in 1..n
    BY <1>1, <1>3, <1>5, <2>1 DEF n
  <2>2. CASE k \in (n + 1)..(n + m)
    BY <1>3, <1>5, <2>2
  <2> QED
    BY <1>7, <2>1, <2>2
<1>12. InOrder(more, Len(t), all)
  BY <1>3, <1>8, <1>9, <1>10 DEF InOrder
<1>13. Lists(t, all)
  BY <1>3, <1>11, <1>12 DEF Lists
<1> QED
  BY <1>13 DEF t, rest

\* What lists the places is what Written enumerates them to be.
LEMMA ListIs ==
  ASSUME NEW s \in Seq(Token), NEW places \in SUBSET Nat, Lists(s, places)
  PROVE  s = [n \in 1..Cardinality(places) |->
                line[CHOOSE i \in places : Cardinality({j \in places : j <= i}) = n]]
<1>1. PICK at : InOrder(at, Len(s), places) /\ \A k \in 1..Len(s) : s[k] = line[at[k]]
  BY DEF Lists
<1> DEFINE Upto(i) == {j \in places : j <= i}
<1>2. Len(s) \in Nat /\ s = [k \in 1..Len(s) |-> s[k]]
  OBVIOUS
<1>3. ASSUME NEW k \in 0..Len(s), NEW some \in SUBSET places,
             \A j \in 1..k : at[j] \in some, \A i \in some : \E j \in 1..k : at[j] = i
      PROVE  Cardinality(some) = k
  <2> DEFINE f == [j \in 1..k |-> at[j]]
  <2>1. /\ f \in [1..k -> some] /\ \A i \in some : \E j \in 1..k : f[j] = i
    BY <1>3
  <2>2. \A i, j \in 1..k : i # j => f[i] # f[j]
    <3> SUFFICES ASSUME NEW i \in 1..k, NEW j \in 1..k, i # j PROVE at[i] # at[j]
      OBVIOUS
    <3>1. i \in 1..Len(s) /\ j \in 1..Len(s) /\ (i < j \/ j < i)
      BY <1>2
    <3>2. at[i] \in Nat /\ at[j] \in Nat /\ (at[i] < at[j] \/ at[j] < at[i])
      BY <1>1, <3>1 DEF InOrder
    <3> QED
      BY <3>2
  <2> HIDE DEF f
  <2>3. f \in Bijection(1..k, some)
    BY <2>1, <2>2 DEF Bijection, Injection, Surjection, IsInjective
  <2>4. IsFiniteSet(1..k) /\ Cardinality(1..k) = k
    BY <1>2, FS_Interval
  <2> QED
    BY <2>3, <2>4, FS_Bijection DEF ExistsBijection
<1>4. Cardinality(places) = Len(s)
  BY <1>1, <1>2, <1>3 DEF InOrder
<1>5. ASSUME NEW k \in 1..Len(s)
      PROVE  at[k] \in places /\ Cardinality(Upto(at[k])) = k
  <2>1. \A j \in 1..k : j \in 1..Len(s) /\ (j < k \/ j = k)
    BY <1>2
  <2>2. /\ at \in [1..Len(s) -> places]
        /\ \A i, j \in 1..Len(s) : i < j => at[i] < at[j]
    BY <1>1 DEF InOrder
  <2>3. \A j \in 1..Len(s) : at[j] \in Nat /\ at[j] \in places
    BY <2>2
  <2>4. at[k] \in places /\ at[k] \in Nat /\ \A j \in 1..k : at[j] \in Nat /\ at[j] \in Upto(at[k])
    BY <2>1, <2>2, <2>3
  <2>5. ASSUME NEW i \in Upto(at[k]) PROVE \E j \in 1..k : at[j] = i
    <3>1. PICK j \in 1..Len(s) : at[j] = i
      BY <1>1 DEF InOrder
    <3>2. ~(k < j)
      <4>1. k < j => at[k] < at[j]
        BY <1>1, <3>1 DEF InOrder
      <4> QED
        BY <2>4, <3>1, <4>1
    <3> QED
      BY <1>2, <3>1, <3>2
  <2>6. k \in 0..Len(s) /\ Upto(at[k]) \in SUBSET places
    BY <1>2
  <2> HIDE DEF Upto
  <2> QED
    BY <1>3, <2>4, <2>5, <2>6
<1>6. ASSUME NEW k \in 1..Len(s)
      PROVE  (CHOOSE i \in places : Cardinality(Upto(i)) = k) = at[k]
  <2>1. ASSUME NEW i \in places, Cardinality(Upto(i)) = k PROVE i = at[k]
    <3>1. PICK j \in 1..Len(s) : at[j] = i
      BY <1>1 DEF InOrder
    <3>2. j = k
      BY <1>5, <2>1, <3>1
    <3> QED
      BY <3>1, <3>2
  <2> HIDE DEF Upto
  <2>2. at[k] \in places /\ Cardinality(Upto(at[k])) = k
    BY <1>5
  <2> QED
    BY <2>1, <2>2
<1>7. \A k \in 1..Len(s) : s[k] = line[CHOOSE i \in places : Cardinality(Upto(i)) = k]
  BY <1>1, <1>6
<1> HIDE DEF Upto
<1>8. s = [k \in 1..Cardinality(places) |-> line[CHOOSE i \in places : Cardinality(Upto(i)) = k]]
  BY <1>2, <1>4, <1>7
<1> QED
  BY <1>8 DEF Upto

-----------------------------------------------------------------------------
(* One step of the loop.                                                   *)

\* The flags after an option that said nothing about --retry, an argument, or "--".
ReadOn(f, args, left, retry) ==
  f.args = args /\ f.left = left /\ f.value["retry"] = retry /\ f.error = flags.error

LEMMA SetFlagIs ==
  ASSUME FlagsOK(flags), NEW name \in Option, NEW text
  PROVE  LET reading == Reading(CommandLine.formal[name])
         IN  /\ text \notin DOMAIN reading => SetFlag(name, text) = Fail
             /\ text \in DOMAIN reading =>
                  ReadOn(SetFlag(name, text), flags.args, Tail(flags.left),
                         IF name = "retry" THEN AsInt[text] ELSE flags.value["retry"])
<1> DEFINE reading == Reading(CommandLine.formal[name])
<1>1. PICK l, a, v, e : flags = [left |-> l, args |-> a, value |-> v, error |-> e]
  BY DEF FlagsOK, IsFlags
<1>2. flags.left = l /\ flags.args = a /\ flags.value = v /\ flags.error = e
  BY <1>1
<1>3. DOMAIN v = Option /\ "retry" \in Option
  BY <1>2, CommandLineIs DEF FlagsOK
<1>4. CASE text \in DOMAIN reading
  <2> DEFINE w == [v EXCEPT ![name] = reading[text]]
  <2>1. SetFlag(name, text) = [flags EXCEPT !.value = w, !.left = Tail(l)]
    BY <1>2, <1>4 DEF SetFlag
  <2>2. w["retry"] = IF name = "retry" THEN reading[text] ELSE v["retry"]
    BY <1>3
  <2>3. name = "retry" => reading = AsInt
    BY CommandLineIs DEF Reading
  <2> HIDE DEF w, reading
  <2>4. SetFlag(name, text) = [left |-> Tail(l), args |-> a, value |-> w, error |-> e]
    BY <1>1, <2>1
  <2>5. w["retry"] = IF name = "retry" THEN AsInt[text] ELSE v["retry"]
    BY <2>2, <2>3
  <2>6. ReadOn(SetFlag(name, text), a, Tail(l), IF name = "retry" THEN AsInt[text] ELSE v["retry"])
    BY <1>2, <2>4, <2>5 DEF ReadOn
  <2> QED
    BY <1>2, <1>4, <2>6 DEF reading
<1>5. CASE text \notin DOMAIN reading
  BY <1>5 DEF SetFlag
<1> QED
  BY <1>4, <1>5

LEMMA FailIs ==
  ASSUME FlagsOK(flags)
  PROVE  Fail.left = << >> /\ Fail.error = TRUE
BY DEF Fail, FlagsOK, IsFlags

\* Only a boolean goes without a text.
LEMMA NoTextIs ==
  /\ "true" \in DOMAIN Reading(CommandLine.formal["insecure"])
  /\ \A name \in Option : NoText \notin DOMAIN Reading(CommandLine.formal[name])
<1>1. \A kind \in {"bool", "int", "float64", "string"} : NoText \notin DOMAIN Reading(kind)
  BY DEF Reading, NoText, AsInt, AsFloat, AsBool, AsString, Text
<1>2. \A name \in Option : CommandLine.formal[name] \in {"bool", "int", "float64", "string"}
  BY CommandLineIs
<1>3. "true" \in DOMAIN Reading("bool")
  BY DEF Reading, AsBool
<1> QED
  BY <1>1, <1>2, <1>3, CommandLineIs

\* What a step does, by the argument it reads.
LEMMA ParseArgIs ==
  ASSUME FlagsOK(flags), ParseArg
  PROVE  LET token == Head(flags.left)
         IN  /\ flags.left # << >> /\ line' = line
             /\ \/ /\ token # Dashes /\ WellFormed(token)
                   /\ ReadOn(flags', IF token.form = "word" THEN Append(flags.args, token) ELSE flags.args,
                             Tail(flags.left),
                             IF token.form = "long" /\ token.name = "retry" THEN AsInt[token.text]
                                                                          ELSE flags.value["retry"])
                \/ /\ token.form = "end"
                   /\ ReadOn(flags', flags.args \o Tail(flags.left), << >>, flags.value["retry"])
                \/ /\ token # Dashes /\ ~WellFormed(token)
                   /\ flags'.left = << >> /\ flags'.error = TRUE
<1> DEFINE token == Head(flags.left)
           OnlyRetry == IF token.form = "long" /\ token.name = "retry" THEN AsInt[token.text]
                                                                       ELSE flags.value["retry"]
           OnlyArgs == IF token.form = "word" THEN Append(flags.args, token) ELSE flags.args
           Goes == token # Dashes /\ WellFormed(token) /\ ReadOn(flags', OnlyArgs, Tail(flags.left), OnlyRetry)
           Stops == token # Dashes /\ ~WellFormed(token) /\ flags'.left = << >> /\ flags'.error = TRUE
<1>1. /\ flags.left # << >> /\ line' = line
      /\ token.form \in {"word", "end", "long", "short", "bad"}
  BY DEF ParseArg, ParseWord, ParseEnd, ParseLong, ParseShort, ParseBad, Parsing
<1>2. Dashes.form = "end"
  BY DEF Dashes
<1>3. PICK l, a, v, e : flags = [left |-> l, args |-> a, value |-> v, error |-> e]
  BY DEF FlagsOK, IsFlags
<1>4. flags.left = l /\ flags.args = a /\ flags.value = v /\ flags.error = e
  BY <1>3
<1>5. CASE ParseWord
  <2>1. token.form = "word" /\ flags' = [flags EXCEPT !.args = Append(a, token), !.left = Tail(l)]
    BY <1>4, <1>5 DEF ParseWord, Parsing
  <2> HIDE DEF token
  <2>2. flags' = [left |-> Tail(l), args |-> Append(a, token), value |-> v, error |-> e]
    BY <1>3, <2>1
  <2>3. token # Dashes /\ WellFormed(token)
    BY <1>2, <2>1 DEF WellFormed
  <2>4. ReadOn(flags', Append(a, token), Tail(l), v["retry"])
    BY <1>4, <2>2 DEF ReadOn
  <2>5. OnlyArgs = Append(a, token) /\ OnlyRetry = v["retry"]
    BY <1>4, <2>1
  <2>6. Goes
    BY <1>4, <2>3, <2>4, <2>5
  <2> QED
    BY <1>1, <2>6 DEF token
<1>6. CASE ParseEnd
  <2>1. token.form = "end" /\ flags' = [flags EXCEPT !.args = a \o Tail(l), !.left = << >>]
    BY <1>4, <1>6 DEF ParseEnd, Parsing, Terminated
  <2>2. flags' = [left |-> << >>, args |-> a \o Tail(l), value |-> v, error |-> e]
    BY <1>3, <2>1
  <2>3. ReadOn(flags', a \o Tail(l), << >>, v["retry"])
    BY <1>4, <2>2 DEF ReadOn
  <2> QED
    BY <1>1, <1>4, <2>1, <2>3
<1>7. CASE ParseLong
  <2>1. /\ token.form = "long"
        /\ flags' = IF \/ token.name \notin Option
                       \/ token.text = NoText /\ CommandLine.formal[token.name] # "bool" THEN Fail
                    ELSE SetFlag(token.name, IF token.text = NoText THEN "true" ELSE token.text)
    BY <1>7 DEF ParseLong, Parsing
  <2>2. WellFormed(token) <=>
          \/ token.text = NoText /\ token.name = "insecure"
          \/ token.name \in Option /\ token.text \in DOMAIN Reading(CommandLine.formal[token.name])
    BY <2>1 DEF WellFormed
  <2>3. OnlyArgs = flags.args /\ token # Dashes
        /\ OnlyRetry = IF token.name = "retry" THEN AsInt[token.text] ELSE flags.value["retry"]
    BY <1>2, <2>1
  <2> HIDE DEF OnlyArgs, OnlyRetry
  <2> HIDE DEF token
  <2>4. flags' = Fail => flags'.left = << >> /\ flags'.error = TRUE
    BY FailIs
  <2>5. CASE token.name \notin Option
    <3>1. ~WellFormed(token)
      BY <2>2, <2>5, CommandLineIs
    <3>2. Stops
      BY <2>1, <2>3, <2>4, <2>5, <3>1
    <3> QED
      BY <1>1, <3>2 DEF token
  <2>6. CASE token.text = NoText /\ token.name \in Option /\ token.name # "insecure"
    <3>1. ~WellFormed(token)
      BY <2>2, <2>6, NoTextIs
    <3>2. CommandLine.formal[token.name] # "bool"
      BY <2>6, CommandLineIs
    <3>3. Stops
      BY <2>1, <2>3, <2>4, <2>6, <3>1, <3>2
    <3> QED
      BY <1>1, <3>3 DEF token
  <2>7. CASE token.text = NoText /\ token.name = "insecure"
    <3>1. WellFormed(token) /\ token.name \in Option /\ CommandLine.formal[token.name] = "bool"
      BY <2>2, <2>7, CommandLineIs
    <3>2. flags' = SetFlag("insecure", "true")
      BY <2>1, <2>7, <3>1
    <3>3. ReadOn(flags', flags.args, Tail(flags.left), flags.value["retry"])
      BY <2>7, <3>1, <3>2, SetFlagIs, NoTextIs
    <3>4. Goes
      BY <2>3, <2>7, <3>1, <3>3
    <3> QED
      BY <1>1, <3>4 DEF token, OnlyArgs, OnlyRetry
  <2>8. CASE token.text # NoText /\ token.name \in Option
    <3>1. flags' = SetFlag(token.name, token.text)
      BY <2>1, <2>8
    <3>2. CASE token.text \in DOMAIN Reading(CommandLine.formal[token.name])
      <4>1. ReadOn(flags', flags.args, Tail(flags.left),
                   IF token.name = "retry" THEN AsInt[token.text] ELSE flags.value["retry"])
        BY <2>8, <3>1, <3>2, SetFlagIs
      <4>2. Goes
        BY <2>2, <2>3, <2>8, <3>2, <4>1
      <4> QED
        BY <1>1, <4>2 DEF token, OnlyArgs, OnlyRetry
    <3>3. CASE token.text \notin DOMAIN Reading(CommandLine.formal[token.name])
      <4>1. flags' = Fail
        BY <2>8, <3>1, <3>3, SetFlagIs
      <4>2. Stops
        BY <2>2, <2>3, <2>4, <2>8, <3>3, <4>1
      <4> QED
        BY <1>1, <4>2 DEF token
    <3> QED
      BY <3>2, <3>3
  <2> QED
    BY <2>5, <2>6, <2>7, <2>8
<1>8. CASE ParseShort
  <2> DEFINE letters == token.letters
             Known == {i \in 1..Len(letters) : letters[i] \in DOMAIN CommandLine.shorthands}
             Named == {CommandLine.shorthands[letters[i]] : i \in Known}
             w == [name \in Option |-> IF name \in Named THEN TRUE ELSE v[name]]
  <2>1. /\ token.form = "short"
        /\ flags' = IF Known # 1..Len(letters) THEN Fail ELSE [flags EXCEPT !.left = Tail(l), !.value = w]
    BY <1>4, <1>8 DEF ParseShort, Parsing
  <2>2. Known = {i \in 1..Len(letters) : letters[i] = "k"} /\ Named \subseteq {"insecure"}
    BY CommandLineIs
  <2>3. WellFormed(token) <=> Known = 1..Len(letters)
    BY <2>1, <2>2 DEF WellFormed
  <2>4. token # Dashes /\ OnlyArgs = flags.args /\ OnlyRetry = flags.value["retry"]
    BY <1>2, <2>1
  <2>5. w["retry"] = v["retry"]
    BY <2>2, CommandLineIs
  <2> HIDE DEF token, OnlyArgs, OnlyRetry, Known, w, letters
  <2>6. CASE Known = 1..Len(letters)
    <3>1. flags' = [left |-> Tail(l), args |-> a, value |-> w, error |-> e]
      BY <1>3, <2>1, <2>6
    <3>2. ReadOn(flags', a, Tail(l), v["retry"])
      BY <1>4, <2>5, <3>1 DEF ReadOn
    <3>3. Goes
      BY <1>4, <2>3, <2>4, <2>6, <3>2
    <3> QED
      BY <1>1, <3>3 DEF token, OnlyArgs, OnlyRetry
  <2>7. CASE Known # 1..Len(letters)
    <3>1. Stops
      BY <2>1, <2>3, <2>4, <2>7, FailIs
    <3> QED
      BY <1>1, <3>1 DEF token
  <2> QED
    BY <2>6, <2>7
<1>9. CASE ParseBad
  <2>1. token.form = "bad" /\ flags' = Fail
    BY <1>9 DEF ParseBad, Parsing
  <2>2. Stops
    BY <1>2, <2>1, FailIs DEF WellFormed
  <2> QED
    BY <1>1, <2>2
<1> QED
  BY <1>5, <1>6, <1>7, <1>8, <1>9 DEF ParseArg

\* Without a "--" among the first p arguments.
LEMMA NoTerminator ==
  ASSUME line \in Seq(Token), NEW p \in 0..Len(line), \A i \in 1..p : line[i] # Dashes
  PROVE  /\ p = Len(line) => /\ Terminator = {} /\ OptionPart = 1..p
                            /\ Kept = Words(p)
         /\ (p < Len(line) /\ line[p + 1] = Dashes) =>
              /\ Terminator = {p + 1} /\ OptionPart = 1..p
              /\ Kept = Words(p) \cup (p + 2)..Len(line)
         /\ (p < Len(line) /\ line[p + 1] # Dashes) => p + 1 \in OptionPart
<1>1. Len(line) \in Nat /\ p \in Nat /\ p <= Len(line)
  OBVIOUS
<1>2. ASSUME p = Len(line) PROVE Terminator = {} /\ OptionPart = 1..p /\ Kept = Words(p)
  <2>1. Terminator = {} /\ OptionPart = 1..p
    BY <1>2 DEF Terminator, OptionPart
  <2> QED
    BY <1>2, <2>1 DEF Kept, Words
<1>3. ASSUME p < Len(line), line[p + 1] = Dashes
      PROVE  /\ Terminator = {p + 1} /\ OptionPart = 1..p
             /\ Kept = Words(p) \cup (p + 2)..Len(line)
  <2>1. p + 1 \in Terminator
    BY <1>1, <1>3 DEF Terminator
  <2>2. ASSUME NEW i \in Terminator PROVE i = p + 1
    <3>1. i \in 1..Len(line) /\ line[i] = Dashes /\ \A j \in 1..(i - 1) : line[j] # Dashes
      BY DEF Terminator
    <3>2. ~(i <= p)
      BY <1>1, <3>1
    <3>3. ~(p + 1 <= i - 1)
      BY <1>1, <1>3, <3>1
    <3> QED
      BY <1>1, <3>1, <3>2, <3>3
  <2>3. Terminator = {p + 1}
    BY <2>1, <2>2
  <2>4. OptionPart = 1..p
    BY <1>1, <1>3, <2>3 DEF OptionPart
  <2>5. Kept = Words(p) \cup (p + 2)..Len(line)
    <3>1. Kept = {i \in 1..Len(line) : i \notin 1..p \cup {p + 1} \/ line[i].form = "word"}
      BY <2>3, <2>4 DEF Kept
    <3>2. line[p + 1].form # "word"
      <4>1. Dashes.form = "end"
        BY DEF Dashes
      <4> QED
        BY <1>3, <4>1
    <3>3. ASSUME NEW i \in 1..Len(line)
          PROVE  (i \notin 1..p \cup {p + 1} \/ line[i].form = "word")
                   <=> i \in Words(p) \cup (p + 2)..Len(line)
      BY <1>1, <1>3, <3>2 DEF Words
    <3>4. Words(p) \cup (p + 2)..Len(line) \subseteq 1..Len(line)
      BY <1>1 DEF Words
    <3> QED
      BY <3>1, <3>3, <3>4
  <2> QED
    BY <2>3, <2>4, <2>5
<1>4. ASSUME p < Len(line), line[p + 1] # Dashes PROVE p + 1 \in OptionPart
  <2>1. ASSUME NEW j \in Terminator PROVE p + 1 < j
    <3>1. j \in 1..Len(line) /\ line[j] = Dashes
      BY DEF Terminator
    <3> QED
      BY <1>1, <1>4, <3>1
  <2>2. p + 1 \in 1..Len(line)
    BY <1>1, <1>4
  <2> QED
    BY <2>1, <2>2 DEF OptionPart
<1> QED
  BY <1>2, <1>3, <1>4

\* The last of one more.
LEMMA RetryOneMore ==
  ASSUME line \in Seq(Token), NEW p \in 1..Len(line)
  PROVE  RetryOf(RetriesAmong(1..p)) =
           IF line[p].form = "long" /\ line[p].name = "retry" THEN AsInt[line[p].text]
                                                             ELSE RetryOf(RetriesAmong(1..(p - 1)))
<1>1. p \in Nat /\ p > 0
  OBVIOUS
<1>2. CASE line[p].form = "long" /\ line[p].name = "retry"
  <2> DEFINE places == RetriesAmong(1..p)
  <2>1. p \in places /\ \A j \in places : j <= p /\ j \in Nat
    BY <1>1, <1>2 DEF RetriesAmong
  <2> HIDE DEF places
  <2>2. \A i \in places : (\A j \in places : j <= i) => i = p
    BY <1>1, <2>1
  <2>3. LastOf(places) = p
    BY <1>1, <2>1, <2>2 DEF LastOf
  <2>4. places # {}
    BY <2>1
  <2> QED
    BY <1>2, <2>3, <2>4 DEF RetryOf, places
<1>3. CASE ~(line[p].form = "long" /\ line[p].name = "retry")
  <2>1. RetriesAmong(1..p) = RetriesAmong(1..(p - 1))
    <3>1. \A i \in 1..p : i = p \/ i \in 1..(p - 1)
      BY <1>1
    <3>2. 1..(p - 1) \subseteq 1..p
      BY <1>1
    <3> QED
      BY <1>3, <3>1, <3>2 DEF RetriesAmong
  <2> QED
    BY <1>3, <2>1, Zenon
<1> QED
  BY <1>2, <1>3

LEMMA ProgressStep ==
  ASSUME FlagsTypeOK, FlagsInv, ParseArg, Progress(flags)
  PROVE  Progress(flags')
<1>1. line \in Seq(Token) /\ FlagsOK(flags) /\ flags.left # << >> /\ flags.args \in Seq(Token)
  BY FlagsAre, ParseArgIs DEF FlagsTypeOK
<1>2. PICK p \in 0..Len(line) : ReadTo(flags, p)
  BY <1>1 DEF Progress, AllRead, Rejected
<1> DEFINE token == line[p + 1]
           rest == SubSeq(line, p + 2, Len(line))
<1>3. Len(line) \in Nat /\ p \in Nat /\ p <= Len(line) /\ flags.left = SubSeq(line, p + 1, Len(line))
  BY <1>1 , <1>2 DEF ReadTo
<1>4. p < Len(line)
  BY <1>1, <1>3
<1>5. Head(flags.left) = token /\ Tail(flags.left) = rest /\ token \in Token /\ p + 1 \in 1..Len(line)
  BY <1>1, <1>3, <1>4
<1> HIDE DEF token, rest
<1>6. /\ \A i \in 1..p : line[i] # Dashes /\ WellFormed(line[i])
      /\ flags.error = FALSE /\ Lists(flags.args, Words(p))
      /\ flags.value["retry"] = RetryOf(RetriesAmong(1..p))
  BY <1>2 DEF ReadTo
<1>7. Words(p) \in SUBSET (1..Len(line)) /\ (\A i \in Words(p) : i < p + 1)
  BY <1>3 DEF Words
<1>8. CASE /\ token # Dashes /\ WellFormed(token)
           /\ ReadOn(flags', IF token.form = "word" THEN Append(flags.args, token) ELSE flags.args, rest,
                     IF token.form = "long" /\ token.name = "retry" THEN AsInt[token.text]
                                                                  ELSE flags.value["retry"])
  <2>1. \A i \in 1..(p + 1) : line[i] # Dashes /\ WellFormed(line[i])
    <3>1. \A i \in 1..(p + 1) : i \in 1..p \/ i = p + 1
      BY <1>3
    <3> QED
      BY <1>6, <1>8, <3>1 DEF token
  <2>2. Lists(flags'.args, Words(p + 1))
    <3>1. Words(p + 1) = IF token.form = "word" THEN Words(p) \cup {p + 1} ELSE Words(p)
      BY <1>3 DEF Words, token
    <3>2. CASE token.form = "word"
      <4>1. Lists(Append(flags.args, token), Words(p) \cup {p + 1})
        BY <1>1, <1>5, <1>6, <1>7, ListsOneMore DEF token
      <4> QED
        BY <1>8, <3>1, <3>2, <4>1 DEF ReadOn
    <3>3. CASE token.form # "word"
      BY <1>6, <1>8, <3>1, <3>3 DEF ReadOn
    <3> QED
      BY <3>2, <3>3
  <2>3. flags'.value["retry"] = RetryOf(RetriesAmong(1..(p + 1)))
    <3>1. (p + 1) - 1 = p
      BY <1>3
    <3>2. RetryOf(RetriesAmong(1..(p + 1))) =
            IF token.form = "long" /\ token.name = "retry" THEN AsInt[token.text]
                                                          ELSE RetryOf(RetriesAmong(1..p))
      BY <1>1, <1>5, <3>1, RetryOneMore DEF token
    <3> QED
      BY <1>6, <1>8, <3>2 DEF ReadOn
  <2>4. (p + 1) + 1 = p + 2 /\ p + 1 \in 0..Len(line)
    BY <1>3, <1>4
  <2>5. flags'.left = SubSeq(line, (p + 1) + 1, Len(line)) /\ flags'.error = FALSE
    BY <1>6, <1>8, <2>4 DEF ReadOn, rest
  <2> QED
    BY <2>1, <2>2, <2>3, <2>4, <2>5 DEF ReadTo, Progress
<1>9. CASE /\ token.form = "end"
           /\ ReadOn(flags', flags.args \o rest, << >>, flags.value["retry"])
  <2>1. token = Dashes
    BY <1>5, <1>9, FlagsAssumption
  <2>2. /\ OptionPart = 1..p /\ Kept = Words(p) \cup (p + 2)..Len(line)
    BY <1>1, <1>4, <1>6, <2>1, NoTerminator DEF token
  <2>3. p + 2 \in 1..(Len(line) + 1) /\ \A i \in Words(p) : i < p + 2
    BY <1>3, <1>4 DEF Words
  <2>4. Lists(flags.args \o rest, Kept)
    BY <1>1, <1>6, <1>7, <2>2, <2>3, ListsRest DEF rest
  <2> QED
    BY <1>6, <1>9, <2>2, <2>4 DEF ReadOn, AllRead, Progress
<1>10. CASE token # Dashes /\ ~WellFormed(token) /\ flags'.left = << >> /\ flags'.error = TRUE
  <2>1. p + 1 \in OptionPart
    BY <1>1, <1>4, <1>6, <1>10, NoTerminator DEF token
  <2> QED
    BY <1>10, <2>1 DEF Rejected, Progress, token
<1> QED
  BY <1>1, <1>5, <1>8, <1>9, <1>10, ParseArgIs

\* The loop has ended.
LEMMA ProgressEnds ==
  ASSUME line \in Seq(Token), flags.args \in Seq(Token), Progress(flags), flags.left = << >>
  PROVE  \/ /\ flags.error = FALSE /\ flags.args = Written /\ flags.value["retry"] = WrittenRetry
            /\ \A i \in OptionPart : WellFormed(line[i])
         \/ flags.error = TRUE /\ \E i \in OptionPart : ~WellFormed(line[i])
<1>1. ASSUME NEW p \in 0..Len(line), ReadTo(flags, p)
      PROVE  AllRead(flags)
  <2>1. /\ flags.left = SubSeq(line, p + 1, Len(line)) /\ Len(line) \in Nat /\ p \in Nat
        /\ \A i \in 1..p : line[i] # Dashes
    BY <1>1 DEF ReadTo
  <2>2. p = Len(line)
    BY <2>1
  <2>3. OptionPart = 1..p /\ Kept = Words(p)
    BY <2>1, <2>2, NoTerminator
  <2> QED
    BY <1>1, <2>3 DEF ReadTo, AllRead
<1>2. CASE AllRead(flags)
  <2>1. Kept \in SUBSET Nat /\ Lists(flags.args, Kept)
    BY <1>2 DEF AllRead, Kept
  <2>2. flags.args = [n \in 1..Cardinality(Kept) |->
                        line[CHOOSE i \in Kept : Cardinality({j \in Kept : j <= i}) = n]]
    BY <2>1, ListIs
  <2>3. flags.args = Written
    BY <2>2, Zenon DEF Written, Kept
  <2>4. WrittenRetry = RetryOf(RetriesAmong(OptionPart))
    BY DEF WrittenRetry, RetryOf, RetriesAmong, LastOf
  <2> QED
    BY <1>2, <2>3, <2>4 DEF AllRead
<1> QED
  BY <1>1, <1>2 DEF Progress, Rejected

-----------------------------------------------------------------------------
(* The command line is obeyed.                                             *)

LEMMA ProgressPrimed ==
  ASSUME line' = line, Progress(flags')
  PROVE  Progress(flags)'
<1>1. /\ Terminator' = Terminator /\ OptionPart' = OptionPart
      /\ \A p : Words(p)' = Words(p)
      /\ \A places : RetriesAmong(places)' = RetriesAmong(places)
  BY DEF Terminator, OptionPart, Words, RetriesAmong
<1>2. Kept' = Kept
  BY <1>1 DEF Kept
<1>3. ASSUME NEW places PROVE RetryOf(places)' = RetryOf(places)
  BY DEF RetryOf, LastOf
<1>4. \A s, places : Lists(s, places)' <=> Lists(s, places)
  BY DEF Lists, InOrder
<1>5. ASSUME NEW p, ReadTo(flags', p) PROVE ReadTo(flags, p)'
  BY <1>1, <1>3, <1>4, <1>5 DEF ReadTo
<1>6. ASSUME AllRead(flags') PROVE AllRead(flags)'
  BY <1>1, <1>2, <1>3, <1>4, <1>6 DEF AllRead
<1>7. ASSUME Rejected(flags') PROVE Rejected(flags)'
  BY <1>1, <1>7 DEF Rejected
<1> QED
  BY <1>5, <1>6, <1>7 DEF Progress

LEMMA LineInvInit ==
  ASSUME BuslteeInit
  PROVE  LineInv
<1>1. line \in Seq(Token) /\ flags = Unread(line)
  BY DEF BuslteeInit, FlagsInit
<1>2. /\ flags.left = line /\ flags.args = << >> /\ flags.error = FALSE
      /\ flags.value["retry"] = Retry
  BY <1>1, CommandLineIs DEF Unread
<1>3. Words(0) = {} /\ RetriesAmong(1..0) = {} /\ 0 \in 0..Len(line)
  BY <1>1 DEF Words, RetriesAmong
<1>4. line = SubSeq(line, 0 + 1, Len(line))
  BY <1>1
<1>5. flags.value["retry"] = RetryOf(RetriesAmong(1..0))
  BY <1>2, <1>3 DEF RetryOf
<1>6. \A i \in 1..0 : line[i] # Dashes /\ WellFormed(line[i])
  OBVIOUS
<1>7. Lists(flags.args, Words(0))
  BY <1>2, <1>3, ListsNothing
<1>8. ReadTo(flags, 0)
  BY <1>2, <1>3, <1>4, <1>5, <1>6, <1>7 DEF ReadTo
<1> QED
  BY <1>3, <1>8 DEF LineInv, Progress

\* Most steps are neither of main nor of its command line.
LEMMA Unmoved ==
  ASSUME Uploading \/ StaleRead \/ Output \/ Signal \/ PassSignal
  PROVE  UNCHANGED flagVars /\ main' = main
<1>1. ASSUME Uploading PROVE UNCHANGED flagVars /\ main' = main
  BY <1>1 DEF Uploading, Connect, Timeout, Fails, BodyEnds, Answered, AnsweredEarly, CloseDone, Send, Drain
<1>2. ASSUME StaleRead \/ Output PROVE UNCHANGED flagVars /\ main' = main
  BY <1>2 DEF StaleRead, Output
<1>3. ASSUME Signal \/ PassSignal PROVE UNCHANGED flagVars /\ main' = main
  BY <1>3 DEF Signal, PassSignal
<1> QED
  BY <1>1, <1>2, <1>3

LEMMA LineInvNext ==
  ASSUME BuslteeInv, LineInv, [BuslteeNext]_vars
  PROVE  LineInv'
<1>1. SUFFICES ASSUME main' = "flags" PROVE Progress(flags)'
  BY DEF LineInv
<1>2. CASE ReadFlags
  <2>1. ParseArg /\ main = "flags" /\ FlagsTypeOK /\ FlagsInv
    BY <1>2 DEF ReadFlags, BuslteeInv, BuslteeTypeOK
  <2>2. line' = line
    BY <2>1, FlagsAre, ParseArgIs DEF FlagsTypeOK
  <2> QED
    BY <2>1, <2>2, ProgressStep, ProgressPrimed DEF LineInv
<1>3. CASE ParseFlags
  <2>1. CommandLine.errorHandling = "ExitOnError"
    BY CommandLineIs
  <2>2. Parse \in {"returns", "exit2"}
    BY <2>1 DEF Parse, ErrorHandling
  <2> QED
    BY <1>1, <1>3, <2>2 DEF ParseFlags
<1>4. CASE UNCHANGED flagVars /\ main' = main
  BY <1>1, <1>4, ProgressPrimed DEF flagVars, LineInv
<1>5. CASE Uploading \/ StaleRead \/ Output \/ Signal \/ PassSignal \/ UNCHANGED vars
  <2>1. UNCHANGED flagVars /\ main' = main
    BY <1>5, Unmoved DEF vars
  <2> QED
    BY <1>4, <2>1
<1>6. CASE Start \/ WaitReturns \/ \E timeout \in BOOLEAN : Exit(timeout)
  BY <1>1, <1>6 DEF Start, WaitReturns, Exit, ExitStatus
<1>7. CASE \E failed \in BOOLEAN : End(failed)
  <2>1. UNCHANGED flagVars /\ main' = main
    BY <1>7 DEF End
  <2> QED
    BY <1>4, <2>1
<1> QED
  BY <1>2, <1>3, <1>5, <1>6, <1>7 DEF BuslteeNext

\* What stands behind "--" reaches the command untouched, the last --retry before
\* it counts, and busltee runs if and only if every option is well-formed and a
\* url and a command are left (main.go parseFlags, pflag's parseArgs): whatever
\* the arguments are and however many there are.
THEOREM LineObeyedCorrect == BuslteeSpec => LineObeyed
<1> DEFINE Obeyed ==
      main = "flags" /\ main' # "flags" =>
        IF Len(Written) >= 2 /\ \A i \in OptionPart : WellFormed(line[i])
          THEN /\ main' = "start"
               /\ flags.args = Written
               /\ conf' = [retry |-> WrittenRetry, noURL |-> Written[1] = Word("")]
          ELSE main' \in {"usage", "exit2"}
<1>1. ASSUME BuslteeInv, LineInv, BuslteeNext PROVE Obeyed
  <2> SUFFICES ASSUME main = "flags", main' # "flags" PROVE Obeyed
    OBVIOUS
  <2>1. ParseFlags
    BY <1>1, Unmoved DEF BuslteeNext, ReadFlags, Start, WaitReturns, End, Exit
  <2>2. /\ flags.left = << >> /\ line \in Seq(Token) /\ flags.args \in Seq(Token) /\ Progress(flags)
    BY <1>1, <2>1 DEF ParseFlags, LineInv, BuslteeInv, BuslteeTypeOK, FlagsTypeOK
  <2>3. Parse = IF flags.error THEN "exit2" ELSE "returns"
    BY CommandLineIs DEF Parse, ErrorHandling
  <2>4. CASE /\ flags.error = FALSE /\ flags.args = Written /\ flags.value["retry"] = WrittenRetry
             /\ \A i \in OptionPart : WellFormed(line[i])
    <3>1. CASE Sufficient
      <4>1. Len(Written) >= 2 /\ Arg(0) = Written[1]
        <5>1. Len(flags.args) \in Nat /\ Len(flags.args) >= 2
          BY <2>2, <3>1 DEF Sufficient, Args
        <5>2. 0 \in 0..(Len(flags.args) - 1) /\ 0 + 1 = 1
          BY <5>1
        <5>3. Arg(0) = flags.args[1]
          BY <5>2 DEF Arg, Args
        <5> QED
          BY <2>4, <5>1, <5>3
      <4>2. main' = "start" /\ conf' = [retry |-> flags.value["retry"], noURL |-> Arg(0) = Word("")]
        BY <2>1, <2>3, <2>4, <3>1 DEF ParseFlags
      <4> QED
        BY <2>4, <4>1, <4>2
    <3>2. CASE ~Sufficient
      <4>1. ~(Len(Written) >= 2)
        BY <2>4, <3>2 DEF Sufficient, Args
      <4>2. main' = "usage"
        BY <2>1, <2>3, <2>4, <3>2 DEF ParseFlags
      <4> QED
        BY <4>1, <4>2
    <3> QED
      BY <3>1, <3>2
  <2>5. CASE flags.error = TRUE /\ \E i \in OptionPart : ~WellFormed(line[i])
    <3>1. main' = "exit2"
      BY <2>1, <2>3, <2>5 DEF ParseFlags
    <3> QED
      BY <2>5, <3>1
  <2> QED
    BY <2>2, <2>4, <2>5, ProgressEnds
<1>2. ASSUME BuslteeInv, LineInv, [BuslteeNext]_vars PROVE [Obeyed]_vars
  BY <1>1, <1>2
<1>3. BuslteeSpec => []LineInv
  <2>1. BuslteeInv /\ LineInv /\ [BuslteeNext]_vars => LineInv'
    BY LineInvNext
  <2> QED
    BY LineInvInit, <2>1, BuslteeInvCorrect, PTL DEF BuslteeSpec
<1> QED
  BY <1>2, <1>3, BuslteeInvCorrect, PTL DEF BuslteeSpec, LineObeyed
=============================================================================
