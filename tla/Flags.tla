------------------------------- MODULE Flags --------------------------------
(***************************************************************************)
(* The command line of busltee (cmd/busltee/main.go) and the parser that   *)
(* reads it (ogier/pflag): options may stand anywhere before a "--", and   *)
(* what follows it is left alone.  An error in an option ends the process. *)
(*                                                                         *)
(* A token stands for a command-line argument by what the parser tells     *)
(* apart.  Texts are the values an option can be given; strconv reads them *)
(* as numbers or booleans or rejects them.  busltee has no option whose    *)
(* shorthand takes a value, so the parser's branch for those is left out.  *)
(***************************************************************************)
EXTENDS Integers, Sequences, FiniteSets

CONSTANTS
  Retry,     \* default of --retry (5)
  Token,     \* the arguments lines are made of
  MaxTokens  \* bound: arguments on a line

VARIABLES
  line,  \* the command line, until busltee has read it
  flags  \* the flag set: what is left of the line, and what has been read

flagVars == <<line, flags>>

-----------------------------------------------------------------------------
(* Values.                                                                 *)

Text == {"zero", "one", "minus", "half", "true", "junk"}

\* ParseInt, ParseFloat (in halves), ParseBool: the texts each accepts.
AsInt == [zero |-> 0, one |-> 1, minus |-> -1]

AsFloat == [zero |-> 0, one |-> 2, minus |-> -2, half |-> 1]

AsBool == [zero |-> FALSE, one |-> TRUE, true |-> TRUE]

AsString == [t \in Text |-> t]

\* Value.Set of the flag's type.
Reading(kind) ==
  CASE kind = "int" -> AsInt [] kind = "float64" -> AsFloat
    [] kind = "bool" -> AsBool [] kind = "string" -> AsString

-----------------------------------------------------------------------------
(* Defining flags.                                                         *)

NewFlagSet(errorHandling) ==
  [formal |-> << >>, shorthands |-> << >>, value |-> << >>, errorHandling |-> errorHandling]

\* A map with one entry more.
Added(map, entry, x) == [e \in DOMAIN map \cup {entry} |-> IF e = entry THEN x ELSE map[e]]

\* A flag and its default; name and shorthand must be new (VarP panics).
VarP(f, kind, name, shorthand, default) ==
  [formal        |-> Added(f.formal, name, kind),
   shorthands    |-> IF shorthand = "" THEN f.shorthands ELSE Added(f.shorthands, shorthand, name),
   value         |-> Added(f.value, name, default),
   errorHandling |-> f.errorHandling]

BoolVarP(f, name, shorthand, default) == VarP(f, "bool", name, shorthand, default)

IntVar(f, name, default) == VarP(f, "int", name, "", default)

Float64Var(f, name, default) == VarP(f, "float64", name, "", default)

StringVar(f, name, default) == VarP(f, "string", name, "", default)

\* The options of busltee.
CommandLine ==
  LET insecure == BoolVarP(NewFlagSet("ExitOnError"), "insecure", "k", FALSE)
      retry    == IntVar(insecure, "retry", Retry)
      timeout  == Float64Var(retry, "connect-timeout", 2)
      prefix   == StringVar(timeout, "log-prefix", "none")
  IN  StringVar(prefix, "log-file", "none")

Option == DOMAIN CommandLine.formal

Defaults == CommandLine.value

-----------------------------------------------------------------------------
(* Arguments.  word: no option, an empty argument or a single dash;        *)
(* end: "--"; long: --name, or --name=text; short: a dash and letters;     *)
(* bad: --- or --= and anything.                                           *)

Word(w)          == [form |-> "word", name |-> w, text |-> "", letters |-> << >>]
Dashes           == [form |-> "end", name |-> "", text |-> "", letters |-> << >>]
Long(name, text) == [form |-> "long", name |-> name, text |-> text, letters |-> << >>]
Short(letters)   == [form |-> "short", name |-> "", text |-> "", letters |-> letters]
Bad              == [form |-> "bad", name |-> "", text |-> "", letters |-> << >>]

\* No text was given with the option.
NoText == ""

ASSUME FlagsAssumption ==
  /\ Retry \in Nat \ {0} /\ MaxTokens \in Nat
  /\ \A token \in Token : token.form = "end" => token = Dashes

FlagsTypeOK ==
  /\ line \in Seq(Token) /\ Len(line) <= MaxTokens
  /\ flags.left \in Seq(Token) /\ flags.args \in Seq(Token)
  /\ DOMAIN flags.value = Option
  /\ flags.error \in BOOLEAN

-----------------------------------------------------------------------------
(* The loop of parseArgs: one step per argument.                           *)

\* The flag set before it has seen an argument.
Unread(arguments) == [left |-> arguments, args |-> << >>, value |-> Defaults, error |-> FALSE]

FlagsInit ==
  /\ line \in UNION {[1..n -> Token] : n \in 0..MaxTokens}
  /\ flags = Unread(line)

Parsing(form) == flags.left # << >> /\ Head(flags.left).form = form

\* failf, usage or help: no argument is read any more.
Fail == [flags EXCEPT !.error = TRUE, !.left = << >>]

\* Flags may be interspersed with arguments.
ParseWord ==
  /\ Parsing("word")
  /\ flags' = [flags EXCEPT !.args = Append(@, Head(flags.left)), !.left = Tail(@)]
  /\ UNCHANGED line

\* Mutant: "--" is dropped, and the flags behind it are read.
Dropped == [flags EXCEPT !.left = Tail(@)]

\* "--" terminates the flags.
Terminated == [flags EXCEPT !.args = @ \o Tail(flags.left), !.left = << >>]

ParseEnd ==
  /\ Parsing("end")
  /\ flags' = Terminated
  /\ UNCHANGED line

\* setFlag.
SetFlag(name, text) ==
  LET reading == Reading(CommandLine.formal[name])
  IN  IF text \in DOMAIN reading
        THEN [flags EXCEPT !.value[name] = reading[text], !.left = Tail(@)]
        ELSE Fail

\* A text follows the name after "=", and only booleans do without.
ParseLong ==
  LET token == Head(flags.left)
      Needs == token.text = NoText /\ CommandLine.formal[token.name] # "bool"
  IN  /\ Parsing("long")
      /\ flags' = IF token.name \notin Option \/ Needs THEN Fail
                  ELSE SetFlag(token.name, IF token.text = NoText THEN "true" ELSE token.text)
      /\ UNCHANGED line

\* Every letter is a boolean flag.
ParseShort ==
  LET letters == Head(flags.left).letters
      Known == {i \in 1..Len(letters) : letters[i] \in DOMAIN CommandLine.shorthands}
      Named == {CommandLine.shorthands[letters[i]] : i \in Known}
  IN  /\ Parsing("short")
      /\ flags' = IF Known # 1..Len(letters) THEN Fail
                  ELSE [flags EXCEPT !.left = Tail(@),
                          !.value = [name \in Option |-> IF name \in Named THEN TRUE ELSE @[name]]]
      /\ UNCHANGED line

\* "bad flag syntax".
ParseBad ==
  /\ Parsing("bad")
  /\ flags' = Fail
  /\ UNCHANGED line

ParseArg == ParseWord \/ ParseEnd \/ ParseLong \/ ParseShort \/ ParseBad

\* What Parse makes of an error, by the set's ErrorHandling.
ErrorHandling == [ContinueOnError |-> "returns", ExitOnError |-> "exit2", PanicOnError |-> "panics"]

\* How Parse ends once the loop has.
Parse == IF flags.error THEN ErrorHandling[CommandLine.errorHandling] ELSE "returns"

\* The arguments that are no flags.
Args == flags.args

\* One of them, counted from 0; an empty one if there is none.
Arg(i) == IF i \in 0..(Len(Args) - 1) THEN Args[i + 1] ELSE Word("")

-----------------------------------------------------------------------------
(* What a line says, read without the loop ("[OPTIONS] <url> -- <command>",*)
(* main.go:28).                                                            *)

\* Where the options end.
Terminator == {i \in 1..Len(line) : line[i] = Dashes /\ \A j \in 1..(i - 1) : line[j] # Dashes}

OptionPart == {i \in 1..Len(line) : \A j \in Terminator : i < j}

\* An option as the usage describes it.
WellFormed(token) ==
  \/ token.form = "word"
  \/ token.form = "short" /\ \A i \in 1..Len(token.letters) : token.letters[i] = "k"
  \/ token.form = "long" /\ token.text = NoText /\ token.name = "insecure"
  \/ /\ token.form = "long" /\ token.name \in Option
     /\ token.text \in DOMAIN Reading(CommandLine.formal[token.name])

\* The url and the command: words between the options, and all behind "--".
Written ==
  LET Kept == {i \in 1..Len(line) : i \notin OptionPart \cup Terminator \/ line[i].form = "word"}
      Place(i) == Cardinality({j \in Kept : j <= i})
  IN  [n \in 1..Cardinality(Kept) |-> line[CHOOSE i \in Kept : Place(i) = n]]

\* The last --retry among the options, or the default.
WrittenRetry ==
  LET Given == {i \in OptionPart : line[i].form = "long" /\ line[i].name = "retry"}
      last  == CHOOSE i \in Given : \A j \in Given : j <= i
  IN  IF Given = {} THEN Retry ELSE AsInt[line[last].text]
=============================================================================
