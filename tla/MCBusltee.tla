----------------------------- MODULE MCBusltee ------------------------------
(***************************************************************************)
(* busltee on command lines of a few arguments.                            *)
(***************************************************************************)
EXTENDS Busltee

Tokens ==
  {Word("url"), Word("cmd"), Word(""), Dashes, Bad, Short(<<"k">>), Short(<<"k", "h">>),
   Long("insecure", NoText), Long("retry", NoText), Long("retry", "one"),
   Long("retry", "minus"), Long("retry", "junk"), Long("connect-timeout", "half"), Long("verbose", NoText)}
=============================================================================
