------------------------------ MODULE MCResume ------------------------------
(***************************************************************************)
(* A stream of up to three bytes and a buffer of six units: an event of two*)
(* bytes fits, one of three, or with a line end in it, may be cut off.     *)
(***************************************************************************)
EXTENDS Resume

\* Negative, so that reads begin before the stream too; at the start, within the
\* stream, and what Atoi makes of too many digits.
FirstOffsets == {-9, -1, 0, 1, MaxInt}

\* "s", and the keys "s:n", whose channels the pattern s:* matches, and "n".
StreamKey == <<115>>
OtherKeys == {<<115, 58, 110>>, <<110>>}
=============================================================================
