--------------------------- MODULE MCComposerRefs ---------------------------
(* ComposerRefs with two conversations: t1 is answered and t2 asked in the   *)
(* first, t3 in the second; two tokens whose hashes and keys are in opposite *)
(* orders.                                                                   *)
EXTENDS ComposerRefs, TLC

CONSTANTS t1, t2, t3, k1, k2, r1, r2

InConversation == [t \in Turns |-> IF t = t3 THEN "c2" ELSE "c1"]
ByHash == <<k1, k2>>
Interchangeable == Permutations({r1, r2}) \cup Permutations(Sources)
ById   == <<k2, k1>>
=============================================================================
