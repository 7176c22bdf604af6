----------------------------- MODULE MCChatTurn -----------------------------
(* Finite instances of ChatTurn for TLC.                                   *)
EXTENDS ChatTurn, TLC

CONSTANTS c1

OneConversation == [t \in Turns |-> c1]

WorkerSymmetry == Permutations(Workers)
=============================================================================
