---------------------------- MODULE MCSourceIndex ----------------------------
(* Finite instances of SourceIndex for TLC.                                 *)
EXTENDS SourceIndex, TLC

CONSTANTS owner

\* the default configuration: every process has the same worker id
SharedOwner == [w \in Workers |-> owner]

ActorSymmetry == Permutations(Workers) \cup Permutations(Requests)
=============================================================================
