--------------------------- MODULE RetrievalGate ---------------------------
(***************************************************************************)
(* What indexing promises retrieval about a source.  The gate opens and    *)
(* shuts as indexing succeeds or is given up; a cancellation or deletion   *)
(* locks it; only a newly queued request unlocks it, and never straight to *)
(* open; a source on its way out stays retired.                            *)
(***************************************************************************)
CONSTANT Sources

VARIABLE gate

Gates == {"shut", "open", "locked", "retired"}

Init == gate = [s \in Sources |-> "shut"]

Move(s, from, to) == gate[s] \in from /\ gate' = [gate EXCEPT ![s] = to]

Open(s)   == Move(s, {"shut"}, "open")
Shut(s)   == Move(s, {"open"}, "shut")
Lock(s)   == Move(s, {"shut", "open"}, "locked")
Unlock(s) == Move(s, {"locked"}, "shut")
Retire(s) == Move(s, Gates \ {"retired"}, "retired")

Next == \E s \in Sources : Open(s) \/ Shut(s) \/ Lock(s) \/ Unlock(s) \/ Retire(s)

Spec == Init /\ [][Next]_gate
=============================================================================
