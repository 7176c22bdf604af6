-------------------------- MODULE OperationLedger --------------------------
(***************************************************************************)
(* What an operation table promises about one resource: at most one        *)
(* operation is open at any time, an operation is opened once, and once    *)
(* closed it is never reopened.  A supersession closes the open operation  *)
(* and opens its successor in one step.                                    *)
(***************************************************************************)
CONSTANT Operations

VARIABLES open, closed

Init == open = {} /\ closed = {}

Fresh(o) == o \notin open \cup closed

Open(o) ==
  /\ open = {} /\ Fresh(o)
  /\ open' = {o} /\ UNCHANGED closed

Close(o) ==
  /\ open = {o}
  /\ open' = {} /\ closed' = closed \cup {o}

Supersede(o, successor) ==
  /\ open = {o} /\ Fresh(successor)
  /\ open' = {successor} /\ closed' = closed \cup {o}

Next == \E o \in Operations :
          Open(o) \/ Close(o) \/ \E s \in Operations : Supersede(o, s)

Spec == Init /\ [][Next]_<<open, closed>>
=============================================================================
