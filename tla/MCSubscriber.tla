---------------------------- MODULE MCSubscriber ----------------------------
(***************************************************************************)
(* Requests for a stream on small instances.                               *)
(***************************************************************************)
EXTENDS Subscriber, TLC

Symmetry == Permutations(Writer) \cup Permutations(Byte)
=============================================================================
