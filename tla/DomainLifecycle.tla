-------------------------- MODULE DomainLifecycle --------------------------
(***************************************************************************)
(* The lifecycle of one knowledge domain: services/domains.py, the         *)
(* controller adapter and the controller's command.  Administrators        *)
(* create, start, stop and delete the domain; each lifecycle request       *)
(* commits an operation under a new control generation, calls the          *)
(* controller with no transaction open, and completes by compare-and-set   *)
(* on that generation.  Workers reconcile operations whose outcome is      *)
(* unknown and carry deletions out under a lease.                          *)
(*                                                                         *)
(* An operation is named by the request that commits it.  A request keeps  *)
(* the domain as it loaded it: generations are computed from that copy.    *)
(***************************************************************************)
EXTENDS Naturals

CONSTANTS
  Requests,        \* lifecycle requests of administrators
  Workers,         \* processes running DomainDeleteWorker.run_once
  NoRequest,       \* no operation
  UncertainMessages, \* how the controller words an unknown outcome
  MaxInstances,    \* bound: times the domain id is created
  MaxFaults        \* bound: crashes, lost answers, early lease expiries

ASSUME LifecycleConstants ==
  /\ NoRequest \notin Requests
  /\ Workers \cap {"none", "expired"} = {}
  /\ UncertainMessages \subseteq {"uncertain", "timed out"}
  /\ MaxInstances \in Nat /\ MaxFaults \in Nat

VARIABLES
  row,      \* the domains row: state, control generation, instance, profile
  op,       \* domain_operations, one per request that committed one
  req,      \* per request: its stage and what it loaded
  work,     \* per worker: its stage and what it loaded
  runtime,  \* per instance: what the controller has on its host
  late,     \* controller calls whose caller gave up waiting
  seenUp,   \* history: instances some caller saw running
  erased,   \* history: what deletions have erased of the present domain
  faults    \* faults so far

vars == <<row, op, req, work, runtime, late, seenUp, erased, faults>>

Instances == 1..MaxInstances
States    == {"gone", "stopped", "running", "deleting"}
Profiles  == Requests \cup {"none", "assigned"}
Types     == {"create", "start", "stop", "delete"}
Active    == {"queued", "running"}
Ended     == {"succeeded", "failed", "cancelled", "removed"}
Runtimes  == {"absent", "provisioned", "running"}
Erasable  == {"turns", "sources", "runtime"}

Domains    == [state : States, gen : Nat, inst : Nat, profile : Profiles]
Operations == [type : Types, status : Active \cup Ended \cup {"none"}, gen : Nat,
               uncertain : BOOLEAN, lease : Workers \cup {"none", "expired"}]
Handlers   == [pc : {"idle", "loaded", "looked", "calling", "answered", "done"},
               kind : Types \cup {"assign"}, gen : Nat, inst : Nat,
               found : Requests \cup {NoRequest}, answer : {"none", "succeeded", "failed"}
                                                            \cup UncertainMessages]
Jobs       == [pc : {"idle", "listed", "settle", "redact", "purge", "remote", "remove"},
               op : Requests \cup {NoRequest}, gen : Nat, inst : Nat,
               health : {"none", "healthy", "unhealthy", "uncertain"}]
Calls      == [action : Types, inst : Nat]

NoOperation == [type |-> "create", status |-> "none", gen |-> 0, uncertain |-> FALSE,
                lease |-> "none"]
NoHandler   == [pc |-> "idle", kind |-> "create", gen |-> 0, inst |-> 0,
                found |-> NoRequest, answer |-> "none"]
NoJob       == [pc |-> "idle", op |-> NoRequest, gen |-> 0, inst |-> 0, health |-> "none"]

(* Deployments start with no domain, or with one that is stopped, legacy or *)
(* not, or running.                                                         *)
Init ==
  /\ row \in { [state |-> "gone",    gen |-> 0, inst |-> 0, profile |-> "none"],
               [state |-> "stopped", gen |-> 1, inst |-> 1, profile |-> "none"],
               [state |-> "stopped", gen |-> 1, inst |-> 1, profile |-> "assigned"],
               [state |-> "running", gen |-> 1, inst |-> 1, profile |-> "assigned"] }
  /\ op = [r \in Requests |-> NoOperation]
  /\ req = [r \in Requests |-> NoHandler]
  /\ work = [w \in Workers |-> NoJob]
  /\ runtime = [i \in Instances |->
                  CASE row.inst = i /\ row.state = "running" -> "running"
                    [] row.inst = i /\ row.state = "stopped" -> "provisioned"
                    [] OTHER                                 -> "absent"]
  /\ late = {} /\ erased = {} /\ faults = 0
  /\ seenUp = IF row.state = "running" THEN {row.inst} ELSE {}

-----------------------------------------------------------------------------
(* Shared pieces.                                                          *)

IsActive(r) == op[r].status \in Active
Idle        == \A r \in Requests : ~IsActive(r)
Stored(r)   == op[r].status \notin {"none", "removed"}

Fault == faults < MaxFaults /\ faults' = faults + 1

(* An operation row that a cascade removed cannot be written: the flush    *)
(* fails and its transaction with it.                                      *)
SetStatus(r, status) ==
  op' = IF Stored(r) THEN [op EXCEPT ![r].status = status, ![r].uncertain = FALSE]
                     ELSE op

Goto(r, stage) == req' = [req EXCEPT ![r].pc = stage]

(* The CAS of a completion: the instance and the generation it began under. *)
Current(inst, gen) == row.state # "gone" /\ row.inst = inst /\ row.gen = gen

Target(type) == IF type = "start" THEN "running" ELSE "stopped"

(* Completing an operation moves the domain if the operation is current,   *)
(* and otherwise cancels the operation; a lost lease cancels it too.       *)
Complete(r, inst, leased) ==
  IF leased /\ Current(inst, op[r].gen) /\ Stored(r)
  THEN /\ row' = [row EXCEPT !.state = Target(op[r].type)]
       /\ SetStatus(r, "succeeded")
  ELSE /\ SetStatus(r, "cancelled")
       /\ UNCHANGED row

-----------------------------------------------------------------------------
(* The controller's command on its host.  It ignores the generation.       *)

After(action, now) ==
  CASE action = "create" -> IF now = "absent" THEN "provisioned" ELSE now
    [] action = "start"  -> "running"
    [] action = "stop"   -> IF now = "running" THEN "provisioned" ELSE now
    [] action = "delete" -> "absent"

Apply(action, inst) == runtime' = [runtime EXCEPT ![inst] = After(action, @)]

LateCall ==
  \E c \in late : /\ Apply(c.action, c.inst)
                  /\ late' = late \ {c}
                  /\ UNCHANGED <<row, op, req, work, seenUp, erased, faults>>

RuntimeDies ==
  /\ Fault
  /\ \E i \in Instances : runtime[i] = "running" /\ Apply("stop", i)
  /\ UNCHANGED <<row, op, req, work, late, seenUp, erased>>

-----------------------------------------------------------------------------
(* create_domain: the row and its running operation, then the controller.  *)
(* The id is taken as long as a row exists.                                *)

CreateDomain(r) ==
  /\ req[r].pc = "idle"
  /\ row.state = "gone" /\ row.inst < MaxInstances
  /\ row' = [state |-> "stopped", gen |-> 1, inst |-> row.inst + 1, profile |-> "assigned"]
  /\ op' = [op EXCEPT ![r] = [NoOperation EXCEPT !.status = "running", !.gen = 1]]
  /\ req' = [req EXCEPT ![r] = [NoHandler EXCEPT !.pc = "calling", !.gen = 1,
                                                 !.inst = row.inst + 1]]
  /\ erased' = {}
  /\ UNCHANGED <<work, runtime, late, seenUp, faults>>

(* start_domain, stop_domain: check, ..., and commit from the loaded copy. *)
Load(r, kind) ==
  /\ req[r].pc = "idle"
  /\ req' = [req EXCEPT ![r] = [NoHandler EXCEPT !.pc = "loaded", !.kind = kind,
                                                 !.gen = row.gen, !.inst = row.inst]]
  /\ UNCHANGED <<row, op, work, runtime, late, seenUp, erased, faults>>

BeginStart(r) == Idle /\ row.state = "stopped" /\ row.profile # "none" /\ Load(r, "start")
BeginStop(r)  == Idle /\ row.state = "running" /\ Load(r, "stop")

(* The partial unique index admits one active operation.                   *)
Admits(except) == \A r \in Requests \ {except} : ~IsActive(r)

\* mutant of Insert: the generation before the increment
InsertBeforeAdvance(r, status) ==
  [op EXCEPT ![r] = [NoOperation EXCEPT !.type = req[r].kind, !.status = status,
                                        !.gen = req[r].gen]]

Insert(r, status) ==
  [op EXCEPT ![r] = [NoOperation EXCEPT !.type = req[r].kind, !.status = status,
                                        !.gen = req[r].gen + 1]]

CommitLifecycle(r) ==
  /\ req[r].pc = "loaded" /\ req[r].kind \in {"start", "stop"}
  /\ IF row.state # "gone" /\ Admits(r)
     THEN /\ row' = [row EXCEPT !.gen = req[r].gen + 1]
          /\ op' = Insert(r, "running")
          /\ Goto(r, "calling")
     ELSE /\ Goto(r, "done")
          /\ UNCHANGED <<row, op>>
  /\ UNCHANGED <<work, runtime, late, seenUp, erased, faults>>

(* The controller call of create, start and stop.                          *)
Answered(r, answer) ==
  req' = [req EXCEPT ![r].pc = "answered", ![r].answer = answer]

CallSucceeds(r) ==
  /\ req[r].pc = "calling"
  /\ Apply(req[r].kind, req[r].inst)
  /\ Answered(r, "succeeded")
  /\ seenUp' = IF req[r].kind = "start" THEN seenUp \cup {req[r].inst} ELSE seenUp
  /\ UNCHANGED <<row, op, work, late, erased, faults>>

CallFails(r) ==
  /\ req[r].pc = "calling"
  /\ Answered(r, "failed")
  /\ UNCHANGED <<row, op, work, runtime, late, seenUp, erased, faults>>

CallTimesOut(r) ==
  /\ req[r].pc = "calling" /\ Fault
  /\ late' = late \cup {[action |-> req[r].kind, inst |-> req[r].inst]}
  /\ \E m \in UncertainMessages : Answered(r, m)
  /\ UNCHANGED <<row, op, work, runtime, seenUp, erased>>

(* _raise_for_controller_result: an unknown outcome leaves the operation   *)
(* running and stores the controller's message; a failure ends it.         *)
KeepUncertain(r) ==
  /\ req[r].pc = "answered" /\ req[r].answer \in UncertainMessages
  /\ op' = IF Stored(r) THEN [op EXCEPT ![r].uncertain = req[r].answer = "uncertain"] ELSE op
  /\ Goto(r, "done")
  /\ UNCHANGED <<row, work, runtime, late, seenUp, erased, faults>>

EndFailed(r) ==
  /\ req[r].pc = "answered" /\ req[r].answer = "failed"
  /\ SetStatus(r, "failed")
  /\ Goto(r, "done")
  /\ UNCHANGED <<row, work, runtime, late, seenUp, erased, faults>>

EndCreate(r) ==
  /\ req[r].pc = "answered" /\ req[r].answer = "succeeded" /\ req[r].kind = "create"
  /\ SetStatus(r, "succeeded")
  /\ Goto(r, "done")
  /\ UNCHANGED <<row, work, runtime, late, seenUp, erased, faults>>

(* The call and its completion outlast the lease only in a slow process.   *)
EndLifecycle(r) ==
  /\ req[r].pc = "answered" /\ req[r].answer = "succeeded"
  /\ req[r].kind \in {"start", "stop"}
  /\ \/ Complete(r, req[r].inst, TRUE) /\ UNCHANGED faults
     \/ Fault /\ Complete(r, req[r].inst, FALSE)
  /\ Goto(r, "done")
  /\ UNCHANGED <<work, runtime, late, seenUp, erased>>

(* enqueue_delete_domain: load, look for the operation to supersede, commit. *)
BeginDelete(r) == row.state # "gone" /\ Load(r, "delete")

LookForActive(r) ==
  /\ req[r].pc = "loaded" /\ req[r].kind = "delete"
  /\ \/ Idle /\ Goto(r, "looked")
     \/ \E a \in Requests :
          /\ IsActive(a)
          /\ req' = IF op[a].type = "delete"
                    THEN [req EXCEPT ![r].pc = "done"]
                    ELSE [req EXCEPT ![r].pc = "looked", ![r].found = a]
  /\ UNCHANGED <<row, op, work, runtime, late, seenUp, erased, faults>>

\* mutant of Superseded: the operation found is left as it is
NotSuperseded(found) == IF found \in Requests THEN op ELSE op

(* The operation found is cancelled whatever has become of it since.       *)
Superseded(found) ==
  IF found = NoRequest THEN op
  ELSE [op EXCEPT ![found].status = "cancelled", ![found].uncertain = FALSE]

CommitDelete(r) ==
  /\ req[r].pc = "looked"
  /\ LET found == req[r].found
     IN IF /\ row.state # "gone" /\ Admits(found)
           /\ found # NoRequest => Stored(found)
        THEN /\ row' = [row EXCEPT !.state = "deleting", !.gen = req[r].gen + 1]
             /\ op' = [Superseded(found) EXCEPT ![r] = Insert(r, "queued")[r]]
        ELSE UNCHANGED <<row, op>>
  /\ Goto(r, "done")
  /\ UNCHANGED <<work, runtime, late, seenUp, erased, faults>>

(* assign_graph_extraction_profile: the test under the row lock reads the  *)
(* copy the session already holds.                                         *)
BeginAssign(r) == row.state = "stopped" /\ row.profile = "none" /\ Load(r, "assign")

CommitAssign(r) ==
  /\ req[r].pc = "loaded" /\ req[r].kind = "assign"
  /\ row' = IF row.state = "gone" THEN row ELSE [row EXCEPT !.profile = r]
  /\ Goto(r, "done")
  /\ UNCHANGED <<op, work, runtime, late, seenUp, erased, faults>>

CrashRequest(r) ==
  /\ req[r].pc \notin {"idle", "done"} /\ Fault
  /\ Goto(r, "done")
  /\ UNCHANGED <<row, op, work, runtime, late, seenUp, erased>>

-----------------------------------------------------------------------------
(* reconcile_uncertain_lifecycle_operations: list, probe, settle.          *)

Leave(w) == work' = [work EXCEPT ![w] = NoJob]

\* mutant of Reconcilable: stops only
ReconcilableStop(r) == op[r].type = "stop" /\ op[r].status = "running" /\ op[r].uncertain

Reconcilable(r) ==
  op[r].type \in {"start", "stop"} /\ op[r].status = "running" /\ op[r].uncertain

ListUncertain(w) ==
  /\ work[w].pc = "idle"
  /\ \E r \in Requests :
       /\ Reconcilable(r)
       /\ work' = [work EXCEPT ![w].pc = "listed", ![w].op = r, ![w].gen = op[r].gen]
  /\ UNCHANGED <<row, op, req, runtime, late, seenUp, erased, faults>>

Healths(inst) == {"unhealthy", "uncertain"} \cup
                 IF runtime[inst] = "running" THEN {"healthy"} ELSE {}

(* A generation that moved on cancels the listed operation unprobed.       *)
Probe(w) ==
  /\ work[w].pc = "listed"
  /\ IF row.state # "gone" /\ row.gen = work[w].gen
     THEN \E h \in Healths(row.inst) :
            /\ work' = [work EXCEPT ![w].pc = "settle", ![w].inst = row.inst,
                                    ![w].health = h]
            /\ IF h = "healthy" THEN UNCHANGED faults ELSE Fault \/ UNCHANGED faults
            /\ h = "uncertain" => faults' > faults
            /\ seenUp' = IF h = "healthy" THEN seenUp \cup {row.inst} ELSE seenUp
            /\ UNCHANGED op
     ELSE /\ SetStatus(work[w].op, "cancelled")
          /\ Leave(w)
          /\ UNCHANGED <<seenUp, faults>>
  /\ UNCHANGED <<row, req, runtime, late, erased>>

\* mutant of AsWanted: an unknown answer counts as no objection
NotRefuted(type, health) == health # IF type = "start" THEN "unhealthy" ELSE "healthy"

AsWanted(type, health) == health = IF type = "start" THEN "healthy" ELSE "unhealthy"

(* A start is failed by an unhealthy runtime and never by an unknown one;  *)
(* a stop whose runtime is still up is leased again and left alone.        *)
Settle(w) ==
  LET r == work[w].op
      asWanted == AsWanted(op[r].type, work[w].health)
  IN /\ work[w].pc = "settle"
     /\ \/ asWanted /\ Complete(r, work[w].inst, TRUE)
        \/ /\ op[r].type = "start" /\ work[w].health = "unhealthy"
           /\ SetStatus(r, "failed") /\ UNCHANGED row
        \/ /\ ~asWanted /\ ~(op[r].type = "start" /\ work[w].health = "unhealthy")
           /\ UNCHANGED <<row, op>>
     /\ Leave(w)
     /\ UNCHANGED <<req, runtime, late, seenUp, erased, faults>>

-----------------------------------------------------------------------------
(* DomainDeleteWorker.run_once.  The lease is compared by owner and time.  *)
(* Every worker process has the same owner id, so the value kept here is   *)
(* the process that last wrote the lease: its own copy of the operation is *)
(* current exactly then, and a refreshed copy is current when any is.      *)

\* mutant of Claimable: a deletion whose lease ran out is left alone
ClaimableOnce(r) == op[r].type = "delete" /\ op[r].status = "queued"

Claimable(r) ==
  /\ op[r].type = "delete"
  /\ \/ op[r].status = "queued"
     \/ op[r].status = "running" /\ op[r].lease = "expired"

Claim(w) ==
  /\ work[w].pc = "idle"
  /\ \E r \in Requests :
       /\ Claimable(r)
       /\ op' = [op EXCEPT ![r].status = "running", ![r].lease = w, ![r].uncertain = FALSE]
       /\ work' = [work EXCEPT ![w].pc = "redact", ![w].op = r, ![w].gen = op[r].gen,
                               ![w].inst = row.inst]
  /\ UNCHANGED <<row, req, runtime, late, seenUp, erased, faults>>

OwnLease(w)    == op[work[w].op].lease = w
SharedLease(w) == op[work[w].op].lease \in Workers

(* A heartbeat before each phase; losing it ends the pass.                 *)
Phase(w, from, to, what) ==
  /\ work[w].pc = from
  /\ IF OwnLease(w) /\ Stored(work[w].op)
     THEN /\ erased' = erased \cup {what}
          /\ work' = [work EXCEPT ![w].pc = to]
     ELSE /\ Leave(w)
          /\ UNCHANGED erased
  /\ UNCHANGED <<row, op, req, runtime, late, seenUp, faults>>

Redact(w) == Phase(w, "redact", "purge", "turns")
Purge(w)  == Phase(w, "purge", "remote", "sources")

FailDelete(w) ==
  /\ IF SharedLease(w) THEN SetStatus(work[w].op, "failed") ELSE UNCHANGED op
  /\ Leave(w)

PurgeFails(w) ==
  /\ work[w].pc = "purge" /\ Fault /\ OwnLease(w)
  /\ FailDelete(w)
  /\ UNCHANGED <<row, req, runtime, late, seenUp, erased>>

DeleteRuntime(w) ==
  /\ work[w].pc = "remote"
  /\ Apply("delete", work[w].inst)
  /\ erased' = erased \cup (IF work[w].inst = row.inst THEN {"runtime"} ELSE {})
  /\ work' = [work EXCEPT ![w].pc = "remove"]
  /\ UNCHANGED <<row, op, req, late, seenUp, faults>>

DeleteRuntimeFails(w) ==
  /\ work[w].pc = "remote" /\ Fault
  /\ UNCHANGED runtime \/ Apply("stop", work[w].inst)
  /\ FailDelete(w)
  /\ UNCHANGED <<row, req, late, seenUp, erased>>

(* An unknown outcome leaves the operation to be claimed again.            *)
DeleteRuntimeTimesOut(w) ==
  /\ work[w].pc = "remote" /\ Fault
  /\ late' = late \cup {[action |-> "delete", inst |-> work[w].inst]}
  /\ Leave(w)
  /\ UNCHANGED <<row, op, req, runtime, seenUp, erased>>

(* The row goes with everything that refers to it.                         *)
RemoveDomain(w) ==
  /\ work[w].pc = "remove"
  /\ IF SharedLease(w) /\ Stored(work[w].op)
     THEN /\ row' = [row EXCEPT !.state = "gone", !.profile = "none"]
          /\ op' = [r \in Requests |->
                      IF Stored(r) THEN [op[r] EXCEPT !.status = "removed"] ELSE op[r]]
     ELSE UNCHANGED <<row, op>>
  /\ Leave(w)
  /\ UNCHANGED <<req, runtime, late, seenUp, erased, faults>>

CrashWorker(w) ==
  /\ work[w].pc # "idle" /\ Fault
  /\ Leave(w)
  /\ UNCHANGED <<row, op, req, runtime, late, seenUp, erased>>

(* Free once the owner is gone; while it works, a delay longer than a lease. *)
LeaseExpires(r) ==
  /\ op[r].status = "running" /\ op[r].lease \in Workers
  /\ op' = [op EXCEPT ![r].lease = "expired"]
  /\ IF work[op[r].lease].pc # "idle" /\ work[op[r].lease].op = r
     THEN Fault
     ELSE UNCHANGED faults
  /\ UNCHANGED <<row, req, work, runtime, late, seenUp, erased>>

-----------------------------------------------------------------------------
RequestStep(r) ==
  \/ CommitLifecycle(r) \/ CallSucceeds(r) \/ CallFails(r) \/ KeepUncertain(r)
  \/ EndFailed(r) \/ EndCreate(r) \/ EndLifecycle(r)
  \/ LookForActive(r) \/ CommitDelete(r) \/ CommitAssign(r)

Begin(r) ==
  CreateDomain(r) \/ BeginStart(r) \/ BeginStop(r) \/ BeginDelete(r) \/ BeginAssign(r)

WorkerStep(w) ==
  \/ ListUncertain(w) \/ Probe(w) \/ Settle(w)
  \/ Claim(w) \/ Redact(w) \/ Purge(w) \/ DeleteRuntime(w) \/ RemoveDomain(w)

WorkerFault(w) ==
  PurgeFails(w) \/ DeleteRuntimeFails(w) \/ DeleteRuntimeTimesOut(w) \/ CrashWorker(w)

Next ==
  \/ \E r \in Requests : Begin(r) \/ RequestStep(r) \/ CallTimesOut(r) \/ CrashRequest(r)
                         \/ LeaseExpires(r)
  \/ \E w \in Workers : WorkerStep(w) \/ WorkerFault(w)
  \/ LateCall \/ RuntimeDies

Spec == Init /\ [][Next]_vars

(* Workers poll forever, a begun request runs to its end unless it crashes, *)
(* and time passes.                                                         *)
FairSpec ==
  /\ Spec
  /\ \A r \in Requests : WF_vars(RequestStep(r)) /\ WF_vars(LeaseExpires(r))
  /\ \A w \in Workers : WF_vars(WorkerStep(w))

-----------------------------------------------------------------------------
TypeOK ==
  /\ row \in Domains
  /\ op \in [Requests -> Operations]
  /\ req \in [Requests -> Handlers]
  /\ work \in [Workers -> Jobs]
  /\ runtime \in [Instances -> Runtimes]
  /\ late \subseteq Calls
  /\ seenUp \subseteq Instances
  /\ erased \subseteq Erasable
  /\ faults \in Nat

(* However requests interleave between their check and their commit, the   *)
(* domain has one queued or running operation at most.                     *)
OneActiveOperation == \A r, s \in Requests : IsActive(r) /\ IsActive(s) => r = s

(* The open operation is the one of the domain's current generation: a     *)
(* later lifecycle intent cannot leave an earlier one open.                *)
ActiveOpIsCurrent ==
  \A r \in Requests : IsActive(r) => row.state # "gone" /\ op[r].gen = row.gen

(* The domain is shown running only if somebody has seen this very         *)
(* instance of its runtime answer: no completion of an earlier instance    *)
(* and no unknown outcome says so.                                         *)
RunningWasSeenUp == row.state = "running" => row.inst \in seenUp

(* The row is the last thing a deletion removes: turns redacted, sources   *)
(* purged and the runtime gone, whichever workers did it.                  *)
RemovedLast ==
  [][row.state # "gone" /\ row'.state = "gone" => erased = Erasable]_vars

(* The operation rows keep the ledger's promise at the moment an operation *)
(* is closed or superseded.                                                *)
OpenOps   == {r \in Requests : IsActive(r)}
ClosedOps == {r \in Requests : op[r].status \in Ended}
Ledger == INSTANCE OperationLedger
            WITH Operations <- Requests, open <- OpenOps, closed <- ClosedOps
ImplementsLedger == Ledger!Spec

(* Every deletion that is queued ends: the domain goes, or the operation   *)
(* is failed for an administrator to see, through crashes and lost leases. *)
DeletionSettles ==
  \A r \in Requests : op[r].type = "delete" /\ IsActive(r) ~> ~IsActive(r)

(* A start whose outcome is recorded as uncertain is settled by probing.   *)
UncertainStartSettles ==
  \A r \in Requests : op[r].type = "start" /\ IsActive(r) /\ op[r].uncertain ~> ~IsActive(r)

(* "Probe uncertain start/stop ops and terminalize when runtime state is   *)
(* clear": a start whose caller gave up on an unknown outcome is settled.  *)
UnknownOutcomesSettle ==
  \A r \in Requests :
    op[r].type = "start" /\ IsActive(r) /\ req[r].pc = "done"
      /\ req[r].answer \in UncertainMessages ~> ~IsActive(r)

(* "DELETING is a permanent gate until deletion settles".                  *)
DeletingIsFinal ==
  [][row.state = "deleting" => row'.state \in {"deleting", "gone"}]_vars

(* The extraction profile of a legacy domain is assigned once.             *)
AssignedOnce ==
  [][row.profile \in Requests => row'.profile = row.profile \/ row'.state = "gone"]_vars

(* What is gone has no runtime left on the controller's host.              *)
NoOrphanRuntime ==
  row.state = "gone" /\ late = {} => \A i \in Instances : runtime[i] # "running"
=============================================================================
