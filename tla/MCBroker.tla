------------------------------ MODULE MCBroker ------------------------------
(***************************************************************************)
(* The broker on small instances.  Writers, readers and bytes are          *)
(* interchangeable, so the safety runs use their permutations as symmetry; *)
(* the liveness runs use none.                                             *)
(***************************************************************************)
EXTENDS Broker, TLC

Symmetry == Permutations(Writer) \cup Permutations(Reader) \cup Permutations(Byte)
=============================================================================
