--------------------------- MODULE MCEventStream ---------------------------
(* An instance of EventStream; the safety run takes the kinds as symmetric. *)
EXTENDS EventStream, TLC

KindSymmetry == Permutations(Kinds)
=============================================================================
