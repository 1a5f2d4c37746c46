----------------------------- MODULE MCArchive ------------------------------
(***************************************************************************)
(* Publishing and archiving on small instances, without subscribers.       *)
(***************************************************************************)
EXTENDS Archive

Symmetry == Permutations(Writer) \cup Permutations(Byte)
=============================================================================
