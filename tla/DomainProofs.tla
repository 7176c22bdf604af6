---------------------------- MODULE DomainProofs ----------------------------
(***************************************************************************)
(* Proofs about DomainLifecycle, then about DomainReads and ReadGates: two  *)
(* systems with variables of their own, each for its own specification.    *)
(*                                                                         *)
(* DomainLifecycle, for every number of requests, workers, instances and   *)
(* faults: the operation rows keep the ledger's promise, the open one is   *)
(* of the current generation, running was seen, and the row goes last.     *)
(*                                                                         *)
(* DomainReads, for every number of reads, writers and sources and every   *)
(* limit: an admission entry counts the reads that refer to it, no gate    *)
(* lets more through than its limit, and an answer is of one life of the   *)
(* domain and the sources it shows.                                        *)
(***************************************************************************)
EXTENDS DomainLifecycle, DomainReads, FiniteSetTheorems, TLAPS

Typed == /\ row \in Domains /\ op \in [Requests -> Operations]
         /\ req \in [Requests -> Handlers] /\ work \in [Workers -> Jobs]

\* A request that has not reached its commit has no operation row.
Before == {"idle", "loaded", "looked"}
NotYetCommitted == \A r \in Requests : req[r].pc \in Before => op[r].status = "none"

\* Only a deletion looks for the operation to supersede, and a handler in its
\* call committed an operation of its own kind.
KindsAgree ==
  \A r \in Requests :
    /\ req[r].pc = "looked" => req[r].kind = "delete"
    /\ req[r].pc \in {"calling", "answered"} => req[r].kind = op[r].type

\* Whoever is about to report a runtime up has seen that instance of it.
ReportsWereSeen ==
  /\ \A r \in Requests : req[r].pc = "answered" /\ req[r].answer = "succeeded"
                           /\ req[r].kind = "start" => req[r].inst \in seenUp
  /\ \A w \in Workers : work[w].pc = "settle" /\ work[w].health = "healthy" =>
                           work[w].inst \in seenUp

Inv == Typed /\ NotYetCommitted /\ KindsAgree /\ OneActiveOperation /\ ActiveOpIsCurrent

-----------------------------------------------------------------------------
(* A step touches the operations in one of two ways: some end and the rest *)
(* keep their status class, or besides a request enters its own.           *)

Moves(s, t) == \/ s = t
               \/ s \in Active /\ t \in Active
               \/ s \in (Active \cup Ended) \ {"removed"} /\ t \in Ended

Keeps(q) == Moves(op[q].status, op'[q].status) /\ op'[q].gen = op[q].gen
                                               /\ op'[q].type = op[q].type

OnlyEnds == \A q \in Requests : Keeps(q)

Enters(r) == /\ op[r].status = "none" /\ op'[r].status \in Active
             /\ row'.state # "gone" /\ op'[r].gen = row'.gen
             /\ row.state # "gone" => row'.inst = row.inst /\ erased' = erased
             /\ \A q \in Requests \ {r} : Keeps(q) /\ op'[q].status \notin Active

\* The generation and the instance move only with an entry, and the row goes only with its
\* operations.
RowFollows == /\ row'.gen = row.gen /\ row'.inst = row.inst
              /\ row'.state = "gone" =>
                   row.state = "gone" \/ \A q \in Requests : ~Stored(q)'

Written == op' \in [Requests -> Operations] /\ row' \in Domains

LEMMA SetStatusEnds ==
  ASSUME Typed, NEW x, NEW s \in {"succeeded", "failed", "cancelled"}, SetStatus(x, s)
  PROVE  op' \in [Requests -> Operations] /\ OnlyEnds
<1>1. CASE x \in Requests /\ Stored(x)
  <2>1. op' = [op EXCEPT ![x] = [op[x] EXCEPT !.status = s, !.uncertain = FALSE]]
    BY <1>1 DEF SetStatus, Typed
  <2>2. /\ op[x] \in Operations
        /\ [op[x] EXCEPT !.status = s, !.uncertain = FALSE] \in Operations
    BY <1>1 DEF Typed, Operations, Ended
  <2>3. op[x].status \in (Active \cup Ended) \ {"removed"}
    BY <1>1, <2>2 DEF Stored, Operations
  <2>4. op' \in [Requests -> Operations]
    BY <2>1, <2>2 DEF Typed
  <2>5. ASSUME NEW q \in Requests PROVE Keeps(q)
    <3>1. CASE q = x
      BY <3>1, <1>1, <2>1, <2>2, <2>3 DEF Keeps, Moves, Typed, Ended, Operations
    <3>2. CASE q # x
      BY <3>2, <2>1 DEF Keeps, Moves, Typed
    <3>3. QED
      BY <3>1, <3>2
  <2>6. QED
    BY <2>4, <2>5 DEF OnlyEnds
<1>2. CASE ~(x \in Requests /\ Stored(x))
  <2>1. op' = op
    BY <1>2 DEF SetStatus, Typed
  <2>2. QED
    BY <2>1 DEF OnlyEnds, Keeps, Moves, Typed
<1>3. QED
  BY <1>1, <1>2

LEMMA CompleteEnds ==
  ASSUME Typed, NEW x, NEW inst, NEW leased \in BOOLEAN, Complete(x, inst, leased)
  PROVE  Written /\ OnlyEnds /\ RowFollows
<1>1. op' \in [Requests -> Operations] /\ OnlyEnds
  BY SetStatusEnds DEF Complete
<1>2. \/ row' = row
      \/ row.state # "gone" /\ row' = [row EXCEPT !.state = Target(op[x].type)]
  BY DEF Complete, Current
<1>3. Target(op[x].type) \in {"running", "stopped"}
  BY DEF Target
<1>4. row' \in Domains /\ RowFollows
  BY <1>2, <1>3 DEF Typed, Domains, States, RowFollows
<1>5. QED
  BY <1>1, <1>4 DEF Written

LEMMA SameOps ==
  ASSUME Typed, UNCHANGED <<row, op>>
  PROVE  Written /\ OnlyEnds /\ RowFollows
BY DEF Written, Typed, OnlyEnds, Keeps, Moves, RowFollows

\* What an insertion writes.
LEMMA InsertWrites ==
  ASSUME Typed, NEW r \in Requests, NEW s \in Active, req[r].kind \in Types
  PROVE  /\ Insert(r, s) \in [Requests -> Operations]
         /\ Insert(r, s)[r].status = s /\ Insert(r, s)[r].gen = req[r].gen + 1
         /\ Insert(r, s)[r].type = req[r].kind
         /\ \A q \in Requests \ {r} : Insert(r, s)[q] = op[q]
<1> DEFINE new == [NoOperation EXCEPT !.type = req[r].kind, !.status = s,
                                      !.gen = req[r].gen + 1]
<1>1. req[r].gen + 1 \in Nat
  BY DEF Typed, Handlers
<1>2. /\ new \in Operations
      /\ new.status = s /\ new.gen = req[r].gen + 1 /\ new.type = req[r].kind
  BY <1>1 DEF NoOperation, Operations
<1>3. Insert(r, s) = [op EXCEPT ![r] = new]
  BY DEF Insert
<1> HIDE DEF new
<1>4. QED
  BY <1>2, <1>3 DEF Typed

-----------------------------------------------------------------------------
(* What each group of actions writes to the row and the operations.        *)

Ends == Written /\ OnlyEnds /\ RowFollows

LEMMA CreateEnters ==
  ASSUME Inv, NEW r \in Requests, CreateDomain(r)
  PROVE  Written /\ Enters(r)
<1> DEFINE new == [NoOperation EXCEPT !.status = "running", !.gen = 1]
<1>1. op' = [op EXCEPT ![r] = new]
  BY DEF CreateDomain
<1>2. new \in Operations /\ new.status = "running" /\ new.gen = 1
  BY DEF NoOperation, Operations, Active, Types
<1> HIDE DEF new
<1>3. op' \in [Requests -> Operations]
  BY <1>1, <1>2 DEF Inv, Typed
<1>4. row.state = "gone" /\ row' \in Domains /\ row'.state = "stopped" /\ row'.gen = 1
  BY DEF CreateDomain, Inv, Typed, Domains, States, Profiles
<1>5. \A q \in Requests : op[q].status \notin Active
  BY DEF Inv, ActiveOpIsCurrent, IsActive, CreateDomain
<1>6. op[r].status = "none"
  BY DEF Inv, NotYetCommitted, Before, CreateDomain
<1>7. op'[r] = new /\ \A q \in Requests \ {r} : op'[q] = op[q]
  BY <1>1 DEF Inv, Typed
<1>8. op'[r].status \in Active /\ row'.state # "gone" /\ op'[r].gen = row'.gen
  BY <1>2, <1>4, <1>7 DEF Active
<1>9. \A q \in Requests \ {r} : Keeps(q) /\ op'[q].status \notin Active
  BY <1>5, <1>7 DEF Keeps, Moves
<1>10. QED
  BY <1>3, <1>4, <1>6, <1>8, <1>9 DEF Written, Enters

LEMMA LifecycleEnters ==
  ASSUME Inv, NEW r \in Requests, CommitLifecycle(r)
  PROVE  Ends \/ (Written /\ Enters(r) /\ op'[r].type = req[r].kind)
<1>1. CASE UNCHANGED <<row, op>>
  BY <1>1, SameOps DEF Inv, Ends
<1>2. CASE /\ row.state # "gone" /\ Admits(r)
           /\ row' = [row EXCEPT !.gen = req[r].gen + 1]
           /\ op' = Insert(r, "running")
  <2>1. /\ op' \in [Requests -> Operations]
        /\ op'[r].status = "running" /\ op'[r].gen = req[r].gen + 1
        /\ op'[r].type = req[r].kind
        /\ \A q \in Requests \ {r} : op'[q] = op[q]
    <3>1. req[r].kind \in Types
      BY DEF CommitLifecycle, Types
    <3>2. QED
      BY <1>2, <3>1, InsertWrites DEF Inv, Active
  <2>2. /\ row' \in Domains /\ row'.state = row.state /\ row'.gen = req[r].gen + 1
        /\ row'.inst = row.inst /\ erased' = erased
    BY <1>2 DEF Inv, Typed, Domains, Handlers, CommitLifecycle
  <2>3. op[r].status = "none"
    BY DEF Inv, NotYetCommitted, Before, CommitLifecycle
  <2>4. \A q \in Requests \ {r} : Keeps(q) /\ op'[q].status \notin Active
    BY <1>2, <2>1 DEF Admits, IsActive, Keeps, Moves
  <2>5. QED
    BY <1>2, <2>1, <2>2, <2>3, <2>4 DEF Written, Enters, Active
<1>3. QED
  BY <1>1, <1>2 DEF CommitLifecycle

(* The supersession and the insertion are one commit; the operation found  *)
(* may have ended since, and is then cancelled once more.                  *)
LEMMA DeleteEnters ==
  ASSUME Inv, NEW r \in Requests, CommitDelete(r)
  PROVE  Ends \/ (Written /\ Enters(r) /\ op'[r].type = req[r].kind)
<1> DEFINE found == req[r].found
<1>1. CASE UNCHANGED <<row, op>>
  BY <1>1, SameOps DEF Inv, Ends
<1>2. CASE /\ row.state # "gone" /\ Admits(found)
           /\ found # NoRequest => Stored(found)
           /\ row' = [row EXCEPT !.state = "deleting", !.gen = req[r].gen + 1]
           /\ op' = [Superseded(found) EXCEPT ![r] = Insert(r, "queued")[r]]
  <2>1. /\ Insert(r, "queued")[r] \in Operations
        /\ Insert(r, "queued")[r].status = "queued"
        /\ Insert(r, "queued")[r].gen = req[r].gen + 1
        /\ Insert(r, "queued")[r].type = req[r].kind
    <3>1. req[r].kind \in Types
      BY DEF CommitDelete, Types, Inv, KindsAgree
    <3>2. QED
      BY <3>1, InsertWrites DEF Inv, Active
  <2>2. op[r].status = "none"
    BY DEF Inv, NotYetCommitted, Before, CommitDelete
  <2>3. /\ Superseded(found) \in [Requests -> Operations]
        /\ \A q \in Requests \ {found} : Superseded(found)[q] = op[q]
        /\ found \in Requests =>
             /\ Superseded(found)[found].status = "cancelled"
             /\ Superseded(found)[found].gen = op[found].gen
             /\ Superseded(found)[found].type = op[found].type
    <3>1. CASE found = NoRequest
      BY <3>1, LifecycleConstants DEF Superseded, Inv, Typed
    <3>2. CASE found # NoRequest
      <4> DEFINE ended == [op[found] EXCEPT !.status = "cancelled", !.uncertain = FALSE]
      <4>1. found \in Requests /\ op[found] \in Operations
        BY <3>2 DEF Inv, Typed, Handlers
      <4>2. /\ ended \in Operations /\ ended.status = "cancelled"
            /\ ended.gen = op[found].gen /\ ended.type = op[found].type
        BY <4>1 DEF Operations, Ended
      <4>3. Superseded(found) = [op EXCEPT ![found] = ended]
        BY <3>2 DEF Superseded
      <4> HIDE DEF ended
      <4>4. QED
        BY <4>1, <4>2, <4>3 DEF Inv, Typed
    <3>3. QED
      BY <3>1, <3>2
  <2>4. /\ op' \in [Requests -> Operations]
        /\ op'[r] = Insert(r, "queued")[r]
        /\ \A q \in Requests \ {r} : op'[q] = Superseded(found)[q]
    BY <1>2, <2>1, <2>3
  <2>5. /\ row' \in Domains /\ row'.state = "deleting" /\ row'.gen = req[r].gen + 1
        /\ row'.inst = row.inst /\ erased' = erased
    <3> DEFINE gen == req[r].gen + 1
    <3>1. gen \in Nat
      BY DEF Inv, Typed, Handlers
    <3>2. row' = [row EXCEPT !.state = "deleting", !.gen = gen]
      BY <1>2
    <3> HIDE DEF gen
    <3>3. /\ row' \in Domains /\ row'.state = "deleting" /\ row'.gen = gen
          /\ row'.inst = row.inst
      BY <3>1, <3>2 DEF Inv, Typed, Domains, States
    <3>4. QED
      BY <3>3 DEF gen, CommitDelete
  <2>6. ASSUME NEW q \in Requests \ {r} PROVE Keeps(q) /\ op'[q].status \notin Active
    <3>1. CASE q = found
      <4>1. op[q].status \in (Active \cup Ended) \ {"removed"}
        BY <1>2, <3>1, LifecycleConstants DEF Stored, Inv, Typed, Operations
      <4>2. QED
        BY <2>3, <2>4, <3>1, <4>1 DEF Keeps, Moves, Active, Ended
    <3>2. CASE q # found
      BY <1>2, <2>3, <2>4, <3>2 DEF Keeps, Moves, Admits, IsActive
    <3>3. QED
      BY <3>1, <3>2
  <2>7. QED
    BY <2>1, <2>2, <2>4, <2>5, <2>6 DEF Written, Enters, Active
<1>3. QED
  BY <1>1, <1>2 DEF CommitDelete

LEMMA AnswersEnd ==
  ASSUME Inv, NEW r \in Requests,
         EndFailed(r) \/ EndCreate(r) \/ EndLifecycle(r) \/ KeepUncertain(r)
  PROVE  Ends
<1>1. CASE EndFailed(r) \/ EndCreate(r)
  <2>1. op' \in [Requests -> Operations] /\ OnlyEnds /\ row' = row
    BY <1>1, SetStatusEnds DEF EndFailed, EndCreate, Inv
  <2>2. QED
    BY <2>1 DEF Ends, Written, RowFollows, Inv, Typed
<1>2. CASE EndLifecycle(r)
  BY <1>2, CompleteEnds DEF EndLifecycle, Inv, Ends
<1>3. CASE KeepUncertain(r)
  <2>1. row' = row /\ (op' = op \/
          op' = [op EXCEPT ![r] = [op[r] EXCEPT !.uncertain = req[r].answer = "uncertain"]])
    BY <1>3 DEF KeepUncertain, Inv, Typed
  <2>2. /\ op[r] \in Operations
        /\ [op[r] EXCEPT !.uncertain = req[r].answer = "uncertain"] \in Operations
    BY DEF Inv, Typed, Operations
  <2>3. op' \in [Requests -> Operations] /\ OnlyEnds
    BY <2>1, <2>2 DEF OnlyEnds, Keeps, Moves, Inv, Typed, Operations
  <2>4. QED
    BY <2>1, <2>3 DEF Ends, Written, RowFollows, Inv, Typed
<1>4. QED
  BY <1>1, <1>2, <1>3

LEMMA LeasesEnd ==
  ASSUME Inv,
         (\E w \in Workers : Claim(w)) \/ (\E r \in Requests : LeaseExpires(r))
  PROVE  Ends
<1>1. PICK r \in Requests, l \in Workers \cup {"expired"} :
        /\ op[r].status \in Active /\ row' = row
        /\ \/ op' = [op EXCEPT ![r].status = "running", ![r].lease = l,
                               ![r].uncertain = FALSE]
           \/ op' = [op EXCEPT ![r].lease = l]
  <2>1. CASE \E w \in Workers : Claim(w)
    <3>1. PICK w \in Workers : Claim(w)
      BY <2>1
    <3>2. PICK r \in Requests :
            /\ Claimable(r) /\ row' = row
            /\ op' = [op EXCEPT ![r].status = "running", ![r].lease = w,
                               ![r].uncertain = FALSE]
      BY <3>1 DEF Claim
    <3>3. op[r].status \in Active
      BY <3>2 DEF Claimable, Active
    <3>4. QED
      BY <3>2, <3>3
  <2>2. CASE \E r \in Requests : LeaseExpires(r)
    BY <2>2 DEF LeaseExpires, Active
  <2>3. QED
    BY <2>1, <2>2
<1>2. op[r] \in Operations
  BY DEF Inv, Typed
<1>3. PICK new \in Operations :
        /\ op' = [op EXCEPT ![r] = new] /\ new.status \in Active
        /\ new.gen = op[r].gen /\ new.type = op[r].type
  <2> DEFINE claimed == [op[r] EXCEPT !.status = "running", !.lease = l, !.uncertain = FALSE]
             expired == [op[r] EXCEPT !.lease = l]
  <2>1. /\ claimed \in Operations /\ claimed.status \in Active
        /\ claimed.gen = op[r].gen /\ claimed.type = op[r].type
    BY <1>2 DEF Operations, Active
  <2>2. /\ expired \in Operations /\ expired.status \in Active
        /\ expired.gen = op[r].gen /\ expired.type = op[r].type
    BY <1>1, <1>2 DEF Operations
  <2>3. op' = [op EXCEPT ![r] = claimed] \/ op' = [op EXCEPT ![r] = expired]
    BY <1>1 DEF Inv, Typed
  <2> HIDE DEF claimed, expired
  <2>4. QED
    BY <2>1, <2>2, <2>3
<1>4. op' \in [Requests -> Operations] /\ OnlyEnds
  <2>1. op' \in [Requests -> Operations] /\ op'[r] = new
        /\ \A q \in Requests \ {r} : op'[q] = op[q]
    BY <1>3 DEF Inv, Typed
  <2>2. Keeps(r)
    BY <1>1, <1>3, <2>1 DEF Keeps, Moves
  <2>3. \A q \in Requests \ {r} : Keeps(q)
    BY <2>1 DEF Keeps, Moves
  <2>4. QED
    BY <2>1, <2>2, <2>3 DEF OnlyEnds
<1>5. row' = row /\ row \in Domains
  BY <1>1 DEF Inv, Typed
<1>6. RowFollows
  BY <1>5 DEF RowFollows
<1>7. QED
  BY <1>4, <1>5, <1>6 DEF Ends, Written

LEMMA WorkersEnd ==
  ASSUME Inv, NEW w \in Workers,
         Probe(w) \/ Settle(w) \/ PurgeFails(w) \/ DeleteRuntimeFails(w) \/ RemoveDomain(w)
  PROVE  Ends
<1>1. CASE Probe(w) \/ PurgeFails(w) \/ DeleteRuntimeFails(w)
  <2>1. row' = row /\ (op' = op \/ SetStatus(work[w].op, "cancelled")
                                \/ SetStatus(work[w].op, "failed"))
    BY <1>1 DEF Probe, PurgeFails, DeleteRuntimeFails, FailDelete
  <2>2. CASE op' = op
    BY <2>1, <2>2, SameOps DEF Ends, Inv
  <2>3. CASE SetStatus(work[w].op, "cancelled") \/ SetStatus(work[w].op, "failed")
    <3>1. op' \in [Requests -> Operations] /\ OnlyEnds
      BY <2>3, SetStatusEnds DEF Inv
    <3>2. QED
      BY <2>1, <3>1 DEF Ends, Written, RowFollows, Inv, Typed
  <2>4. QED
    BY <2>1, <2>2, <2>3
<1>2. CASE Settle(w)
  <2>1. \/ Complete(work[w].op, work[w].inst, TRUE)
        \/ SetStatus(work[w].op, "failed") /\ row' = row
        \/ UNCHANGED <<row, op>>
    BY <1>2 DEF Settle
  <2>2. CASE SetStatus(work[w].op, "failed") /\ row' = row
    <3>1. op' \in [Requests -> Operations] /\ OnlyEnds
      BY <2>2, SetStatusEnds DEF Inv
    <3>2. QED
      BY <2>2, <3>1 DEF Ends, Written, RowFollows, Inv, Typed
  <2>3. QED
    BY <2>1, <2>2, CompleteEnds, SameOps DEF Ends, Inv
<1>3. CASE RemoveDomain(w)
  <2>1. CASE UNCHANGED <<row, op>>
    BY <2>1, SameOps DEF Ends, Inv
  <2>2. CASE /\ row' = [row EXCEPT !.state = "gone", !.profile = "none"]
             /\ op' = [r \in Requests |->
                         IF Stored(r) THEN [op[r] EXCEPT !.status = "removed"] ELSE op[r]]
    <3>1. row' \in Domains /\ row'.gen = row.gen /\ row'.inst = row.inst
      BY <2>2 DEF Inv, Typed, Domains, States, Profiles
    <3>2. ASSUME NEW q \in Requests
          PROVE  op'[q] \in Operations /\ Keeps(q) /\ ~Stored(q)'
      <4>1. op[q] \in Operations /\ op[q].status \in Active \cup Ended \cup {"none"}
        BY DEF Inv, Typed, Operations
      <4>2. CASE Stored(q)
        <5>1. op'[q] = [op[q] EXCEPT !.status = "removed"]
          BY <2>2, <4>2
        <5>2. QED
          BY <4>1, <4>2, <5>1 DEF Stored, Keeps, Moves, Operations, Active, Ended
      <4>3. CASE ~Stored(q)
        BY <2>2, <4>1, <4>3 DEF Stored, Keeps, Moves, Active, Ended
      <4>4. QED
        BY <4>2, <4>3
    <3>3. op' \in [Requests -> Operations]
      <4>1. op' = [q \in Requests |-> op'[q]]
        BY <2>2
      <4>2. QED
        BY <3>2, <4>1
    <3>4. QED
      BY <3>1, <3>2, <3>3 DEF Ends, Written, OnlyEnds, RowFollows
  <2>3. QED
    BY <1>3, <2>1, <2>2 DEF RemoveDomain
<1>4. QED
  BY <1>1, <1>2, <1>3

-----------------------------------------------------------------------------
(* Every step but the entry of a request only ends operations.             *)

Commits(r) == CreateDomain(r) \/ CommitLifecycle(r) \/ CommitDelete(r)

LEMMA StepEnds ==
  ASSUME Inv, [Next]_vars, \A r \in Requests : ~Commits(r)
  PROVE  Ends
<1>1. CASE \/ \E r \in Requests : \/ BeginStart(r) \/ BeginStop(r) \/ BeginDelete(r)
                                 \/ BeginAssign(r) \/ CallSucceeds(r) \/ CallFails(r)
                                 \/ LookForActive(r) \/ CallTimesOut(r) \/ CrashRequest(r)
           \/ \E w \in Workers : \/ ListUncertain(w) \/ Redact(w) \/ Purge(w)
                                \/ DeleteRuntime(w) \/ DeleteRuntimeTimesOut(w)
                                \/ CrashWorker(w)
           \/ LateCall \/ RuntimeDies \/ UNCHANGED vars
  <2>1. UNCHANGED <<row, op>>
    BY <1>1 DEF BeginStart, BeginStop, BeginDelete, BeginAssign, Load, CallSucceeds,
                CallFails, LookForActive, CallTimesOut, CrashRequest, ListUncertain,
                Redact, Purge, Phase, DeleteRuntime, DeleteRuntimeTimesOut, CrashWorker,
                LateCall, RuntimeDies, vars
  <2>2. QED
    BY <2>1, SameOps DEF Ends, Inv
<1>2. CASE \E r \in Requests : CommitAssign(r)
  <2>1. /\ row' \in Domains /\ row'.gen = row.gen /\ row'.inst = row.inst
        /\ row'.state = row.state /\ op' = op
    BY <1>2 DEF CommitAssign, Inv, Typed, Domains, Profiles
  <2>2. QED
    BY <2>1 DEF Ends, Written, OnlyEnds, Keeps, Moves, RowFollows, Inv, Typed
<1>3. CASE \E r \in Requests : \/ EndFailed(r) \/ EndCreate(r) \/ EndLifecycle(r)
                               \/ KeepUncertain(r)
  BY <1>3, AnswersEnd
<1>4. CASE (\E w \in Workers : Claim(w)) \/ (\E r \in Requests : LeaseExpires(r))
  BY <1>4, LeasesEnd
<1>5. CASE \E w \in Workers : \/ Probe(w) \/ Settle(w) \/ PurgeFails(w)
                             \/ DeleteRuntimeFails(w) \/ RemoveDomain(w)
  BY <1>5, WorkersEnd
<1>6. QED
  BY <1>1, <1>2, <1>3, <1>4, <1>5
  DEF Next, Begin, RequestStep, WorkerStep, WorkerFault, Commits

-----------------------------------------------------------------------------
(* Handlers move forward; only a commit brings one to its call.            *)

Follows(q) ==
  /\ req'[q].pc \in Before => req[q].pc \in Before
  /\ req'[q].pc = "looked" => req'[q].kind = "delete"
  /\ req'[q].pc \in {"calling", "answered"} =>
       req[q].pc \in {"calling", "answered"} /\ req'[q].kind = req[q].kind

\* A commit leaves the stages before it, in the call of what it committed or done.
Committed(r) ==
  /\ req'[r].pc \in {"calling", "done"}
  /\ req'[r].pc = "calling" => req'[r].kind = op'[r].type
  /\ \A q \in Requests \ {r} : req'[q] = req[q]

LEMMA SameFollows ==
  ASSUME Inv, req' = req
  PROVE  req' \in [Requests -> Handlers] /\ \A q \in Requests : Follows(q)
BY DEF Inv, Typed, KindsAgree, Follows

\* One handler changes: the rest follow.
LEMMA OneFollows ==
  ASSUME Inv, NEW r \in Requests, NEW h \in Handlers, req' = [req EXCEPT ![r] = h],
         h.pc \in Before => req[r].pc \in Before,
         h.pc = "looked" => h.kind = "delete",
         h.pc \in {"calling", "answered"} =>
           req[r].pc \in {"calling", "answered"} /\ h.kind = req[r].kind
  PROVE  req' \in [Requests -> Handlers] /\ \A q \in Requests : Follows(q)
BY DEF Inv, Typed, KindsAgree, Follows

LEMMA HandlersFollow ==
  ASSUME Inv, [Next]_vars, \A r \in Requests : ~Commits(r)
  PROVE  req' \in [Requests -> Handlers] /\ \A q \in Requests : Follows(q)
<1>1. CASE UNCHANGED req
  BY <1>1, SameFollows
<1>2. CASE \E r \in Requests : BeginStart(r) \/ BeginStop(r) \/ BeginDelete(r) \/ BeginAssign(r)
  <2>1. PICK r \in Requests, kind \in {"start", "stop", "delete", "assign"} : Load(r, kind)
    BY <1>2 DEF BeginStart, BeginStop, BeginDelete, BeginAssign
  <2> DEFINE h == [NoHandler EXCEPT !.pc = "loaded", !.kind = kind, !.gen = row.gen,
                                    !.inst = row.inst]
  <2>2. h \in Handlers /\ h.pc = "loaded"
    BY DEF NoHandler, Handlers, Types, Inv, Typed, Domains
  <2>3. req' = [req EXCEPT ![r] = h] /\ req[r].pc = "idle"
    BY <2>1 DEF Load
  <2> HIDE DEF h
  <2>4. QED
    BY <2>2, <2>3, OneFollows DEF Before
<1>3. CASE \E r \in Requests : \/ CallSucceeds(r) \/ CallFails(r) \/ CallTimesOut(r)
  <2>1. PICK r \in Requests, a \in {"succeeded", "failed"} \cup UncertainMessages :
          req[r].pc = "calling" /\ Answered(r, a)
    BY <1>3 DEF CallSucceeds, CallFails, CallTimesOut
  <2> DEFINE h == [req[r] EXCEPT !.pc = "answered", !.answer = a]
  <2>2. h \in Handlers /\ h.pc = "answered" /\ h.kind = req[r].kind
    BY DEF Handlers, Inv, Typed
  <2>3. req' = [req EXCEPT ![r] = h]
    BY <2>1 DEF Answered, Inv, Typed
  <2> HIDE DEF h
  <2>4. QED
    BY <2>1, <2>2, <2>3, OneFollows DEF Before
<1>4. CASE \E r \in Requests : LookForActive(r) /\ req'[r].pc = "looked"
  <2>1. PICK r \in Requests : LookForActive(r) /\ req'[r].pc = "looked"
    BY <1>4
  <2>2. PICK a \in Requests \cup {NoRequest} :
          \/ req' = [req EXCEPT ![r] = [req[r] EXCEPT !.pc = "looked"]]
          \/ req' = [req EXCEPT ![r] = [req[r] EXCEPT !.pc = "looked", !.found = a]]
          \/ req' = [req EXCEPT ![r] = [req[r] EXCEPT !.pc = "done"]]
    BY <2>1 DEF LookForActive, Goto, Inv, Typed
  <2>3. req[r] \in Handlers /\ req[r].pc = "loaded" /\ req[r].kind = "delete"
    BY <2>1 DEF LookForActive, Inv, Typed
  <2>4. PICK h \in Handlers : req' = [req EXCEPT ![r] = h] /\ h.kind = "delete"
                              /\ h.pc \in {"looked", "done"}
    <3>1. /\ [req[r] EXCEPT !.pc = "looked"] \in Handlers
          /\ [req[r] EXCEPT !.pc = "looked", !.found = a] \in Handlers
          /\ [req[r] EXCEPT !.pc = "done"] \in Handlers
      BY <2>3 DEF Handlers
    <3>2. /\ [req[r] EXCEPT !.pc = "looked"].kind = "delete"
          /\ [req[r] EXCEPT !.pc = "looked", !.found = a].kind = "delete"
          /\ [req[r] EXCEPT !.pc = "done"].kind = "delete"
          /\ [req[r] EXCEPT !.pc = "looked"].pc = "looked"
          /\ [req[r] EXCEPT !.pc = "looked", !.found = a].pc = "looked"
          /\ [req[r] EXCEPT !.pc = "done"].pc = "done"
      BY <2>3 DEF Handlers
    <3>3. QED
      BY <2>2, <3>1, <3>2
  <2>5. QED
    BY <2>3, <2>4, OneFollows DEF Before
<1>5. CASE \E r \in Requests : Goto(r, "done")
  <2>1. PICK r \in Requests : Goto(r, "done")
    BY <1>5
  <2> DEFINE h == [req[r] EXCEPT !.pc = "done"]
  <2>2. h \in Handlers /\ h.pc = "done"
    BY DEF Handlers, Inv, Typed
  <2>3. req' = [req EXCEPT ![r] = h]
    BY <2>1 DEF Goto, Inv, Typed
  <2> HIDE DEF h
  <2>4. QED
    BY <2>2, <2>3, OneFollows DEF Before
<1>6. ASSUME NEW r \in Requests, LookForActive(r) PROVE req'[r].pc = "looked" \/ Goto(r, "done")
  BY <1>6 DEF LookForActive, Goto, Inv, Typed
<1>7. ASSUME NEW r \in Requests, \/ KeepUncertain(r) \/ EndFailed(r) \/ EndCreate(r)
                                \/ EndLifecycle(r) \/ CommitAssign(r) \/ CrashRequest(r)
      PROVE  Goto(r, "done")
  BY <1>7 DEF KeepUncertain, EndFailed, EndCreate, EndLifecycle, CommitAssign, CrashRequest
<1>8. ASSUME NEW w \in Workers, WorkerStep(w) \/ WorkerFault(w)
      PROVE  UNCHANGED req
  BY <1>8 DEF WorkerStep, WorkerFault, ListUncertain, Probe, Settle, Claim, Redact, Purge,
              Phase, DeleteRuntime, RemoveDomain, PurgeFails, DeleteRuntimeFails,
              DeleteRuntimeTimesOut, CrashWorker
<1>9. LateCall \/ RuntimeDies \/ UNCHANGED vars \/ (\E r \in Requests : LeaseExpires(r))
        => UNCHANGED req
  BY DEF LateCall, RuntimeDies, LeaseExpires, vars
<1>10. QED
  BY <1>1, <1>2, <1>3, <1>4, <1>5, <1>6, <1>7, <1>8, <1>9
  DEF Next, Begin, RequestStep, Commits

LEMMA CommitsCommit ==
  ASSUME Inv, NEW r \in Requests, Commits(r)
  PROVE  /\ req' \in [Requests -> Handlers] /\ Committed(r)
         /\ Ends \/ (Written /\ Enters(r))
<1>1. CASE CreateDomain(r)
  <2> DEFINE h == [NoHandler EXCEPT !.pc = "calling", !.gen = 1, !.inst = row.inst + 1]
  <2>1. row.inst + 1 \in Nat
    BY DEF Inv, Typed, Domains
  <2>2. h \in Handlers /\ h.pc = "calling" /\ h.kind = "create"
    BY <2>1 DEF NoHandler, Handlers, Types
  <2>3. req' = [req EXCEPT ![r] = h]
    BY <1>1 DEF CreateDomain
  <2> HIDE DEF h
  <2>4. op'[r].type = "create"
    BY <1>1 DEF CreateDomain, NoOperation, Inv, Typed
  <2>5. req' \in [Requests -> Handlers] /\ Committed(r)
    BY <2>2, <2>3, <2>4 DEF Committed, Inv, Typed
  <2>6. QED
    BY <1>1, <2>5, CreateEnters
<1>2. CASE CommitLifecycle(r) \/ CommitDelete(r)
  <2>1. PICK stage \in {"calling", "done"} :
          /\ Goto(r, stage)
          /\ stage = "calling" => CommitLifecycle(r) /\ op' = Insert(r, "running")
    BY <1>2 DEF CommitLifecycle, CommitDelete
  <2> DEFINE h == [req[r] EXCEPT !.pc = stage]
  <2>2. h \in Handlers /\ h.pc = stage /\ h.kind = req[r].kind
    BY DEF Handlers, Inv, Typed
  <2>3. req' = [req EXCEPT ![r] = h]
    BY <2>1 DEF Goto, Inv, Typed
  <2> HIDE DEF h
  <2>4. stage = "calling" => op'[r].type = req[r].kind
    BY <2>1, InsertWrites DEF CommitLifecycle, Types, Active, Inv
  <2>5. req' \in [Requests -> Handlers] /\ Committed(r)
    BY <2>2, <2>3, <2>4 DEF Committed, Inv, Typed
  <2>6. QED
    BY <1>2, <2>5, LifecycleEnters, DeleteEnters
<1>3. QED
  BY <1>1, <1>2 DEF Commits

LEMMA JobsTyped ==
  ASSUME Inv, [Next]_vars
  PROVE  work' \in [Workers -> Jobs]
<1>1. ASSUME NEW w \in Workers, NEW j \in Jobs, work' = [work EXCEPT ![w] = j]
      PROVE  work' \in [Workers -> Jobs]
  BY <1>1 DEF Inv, Typed
<1>2. ASSUME NEW w \in Workers, Leave(w) PROVE work' \in [Workers -> Jobs]
  <2>1. NoJob \in Jobs
    BY DEF NoJob, Jobs
  <2>2. QED
    BY <1>1, <1>2, <2>1 DEF Leave
<1>3. ASSUME NEW w \in Workers, ListUncertain(w) PROVE work' \in [Workers -> Jobs]
  <2>1. PICK r \in Requests :
          work' = [work EXCEPT ![w] = [work[w] EXCEPT !.pc = "listed", !.op = r,
                                                      !.gen = op[r].gen]]
    BY <1>3 DEF ListUncertain, Inv, Typed
  <2>2. [work[w] EXCEPT !.pc = "listed", !.op = r, !.gen = op[r].gen] \in Jobs
    BY DEF Inv, Typed, Jobs, Operations
  <2>3. QED
    BY <1>1, <2>1, <2>2
<1>4. ASSUME NEW w \in Workers, Probe(w) PROVE work' \in [Workers -> Jobs]
  <2>1. CASE Leave(w)
    BY <1>2, <2>1
  <2>2. CASE \E h \in Healths(row.inst) :
               work' = [work EXCEPT ![w].pc = "settle", ![w].inst = row.inst, ![w].health = h]
    <3>1. PICK h \in {"healthy", "unhealthy", "uncertain"} :
            work' = [work EXCEPT ![w] = [work[w] EXCEPT !.pc = "settle", !.inst = row.inst,
                                                        !.health = h]]
      <4>1. PICK h \in Healths(row.inst) :
              work' = [work EXCEPT ![w].pc = "settle", ![w].inst = row.inst, ![w].health = h]
        BY <2>2
      <4>2. h \in {"healthy", "unhealthy", "uncertain"}
        BY DEF Healths
      <4>3. QED
        BY <4>1, <4>2 DEF Inv, Typed
    <3>2. [work[w] EXCEPT !.pc = "settle", !.inst = row.inst, !.health = h] \in Jobs
      BY DEF Inv, Typed, Jobs, Domains
    <3>3. QED
      BY <1>1, <3>1, <3>2
  <2>3. QED
    BY <1>4, <2>1, <2>2 DEF Probe
<1>5. ASSUME NEW w \in Workers, Claim(w) PROVE work' \in [Workers -> Jobs]
  <2>1. PICK r \in Requests :
          work' = [work EXCEPT ![w] = [work[w] EXCEPT !.pc = "redact", !.op = r,
                                            !.gen = op[r].gen, !.inst = row.inst]]
    <3>1. PICK r \in Requests :
            work' = [work EXCEPT ![w].pc = "redact", ![w].op = r, ![w].gen = op[r].gen,
                                 ![w].inst = row.inst]
      BY <1>5 DEF Claim
    <3>2. work \in [Workers -> Jobs]
      BY DEF Inv, Typed
    <3>3. QED
      BY <3>1, <3>2
  <2>2. [work[w] EXCEPT !.pc = "redact", !.op = r, !.gen = op[r].gen, !.inst = row.inst]
          \in Jobs
    BY DEF Inv, Typed, Jobs, Operations, Domains
  <2>3. QED
    BY <1>1, <2>1, <2>2
<1>6. ASSUME NEW w \in Workers, Redact(w) \/ Purge(w) \/ DeleteRuntime(w)
      PROVE  work' \in [Workers -> Jobs]
  <2>1. CASE Leave(w)
    BY <1>2, <2>1
  <2>2. CASE \E stage \in {"purge", "remote", "remove"} : work' = [work EXCEPT ![w].pc = stage]
    <3>1. PICK stage \in {"purge", "remote", "remove"} :
            work' = [work EXCEPT ![w] = [work[w] EXCEPT !.pc = stage]]
      BY <2>2 DEF Inv, Typed
    <3>2. [work[w] EXCEPT !.pc = stage] \in Jobs
      BY DEF Inv, Typed, Jobs
    <3>3. QED
      BY <1>1, <3>1, <3>2
  <2>3. QED
    BY <1>6, <2>1, <2>2 DEF Redact, Purge, Phase, DeleteRuntime
<1>7. ASSUME NEW w \in Workers, \/ Settle(w) \/ RemoveDomain(w) \/ WorkerFault(w)
      PROVE  work' \in [Workers -> Jobs]
  BY <1>2, <1>7 DEF Settle, RemoveDomain, WorkerFault, PurgeFails, DeleteRuntimeFails,
                    FailDelete, DeleteRuntimeTimesOut, CrashWorker
<1>8. ASSUME NEW r \in Requests,
             Begin(r) \/ RequestStep(r) \/ CallTimesOut(r) \/ CrashRequest(r) \/ LeaseExpires(r)
      PROVE  UNCHANGED work
  BY <1>8 DEF Begin, CreateDomain, BeginStart, BeginStop, BeginDelete, BeginAssign, Load,
              RequestStep, CommitLifecycle, CallSucceeds, CallFails, KeepUncertain,
              EndFailed, EndCreate, EndLifecycle, LookForActive, CommitDelete, CommitAssign,
              CallTimesOut, CrashRequest, LeaseExpires
<1>9. LateCall \/ RuntimeDies \/ UNCHANGED vars => UNCHANGED work
  BY DEF LateCall, RuntimeDies, vars
<1>10. QED
  BY <1>3, <1>4, <1>5, <1>6, <1>7, <1>8, <1>9 DEF Next, WorkerStep, Inv, Typed

-----------------------------------------------------------------------------
(* The invariant.                                                          *)

LEMMA InvInit == Init => Inv
<1> SUFFICES ASSUME Init PROVE Inv
  OBVIOUS
<1>1. row \in Domains
  BY DEF Init, Domains, States, Profiles
<1>2. op \in [Requests -> Operations]
  BY DEF Init, NoOperation, Operations, Types
<1>3. req \in [Requests -> Handlers]
  BY DEF Init, NoHandler, Handlers, Types
<1>4. work \in [Workers -> Jobs]
  BY DEF Init, NoJob, Jobs
<1>5. QED
  BY <1>1, <1>2, <1>3, <1>4
  DEF Init, Inv, Typed, NotYetCommitted, KindsAgree, OneActiveOperation, ActiveOpIsCurrent,
      IsActive, NoOperation, NoHandler, Active

LEMMA EndsKeep ==
  ASSUME Inv, Ends
  PROVE  OneActiveOperation' /\ ActiveOpIsCurrent'
<1>1. \A q \in Requests : op'[q].status \in Active => op[q].status \in Active
  BY DEF Ends, OnlyEnds, Keeps, Moves, Active, Ended
<1>2. \A q \in Requests : op'[q].status \in Active => Stored(q)'
  BY DEF Stored, Active
<1>3. QED
  BY <1>1, <1>2 DEF Inv, OneActiveOperation, ActiveOpIsCurrent, IsActive, Ends, OnlyEnds,
                    Keeps, RowFollows

LEMMA EntryKeeps ==
  ASSUME Inv, NEW r \in Requests, Enters(r)
  PROVE  OneActiveOperation' /\ ActiveOpIsCurrent'
BY DEF OneActiveOperation, ActiveOpIsCurrent, IsActive, Enters

LEMMA InvStep == Inv /\ [Next]_vars => Inv'
<1> SUFFICES ASSUME Inv, [Next]_vars PROVE Inv'
  OBVIOUS
<1>1. CASE \A r \in Requests : ~Commits(r)
  <2>1. Ends /\ req' \in [Requests -> Handlers] /\ \A q \in Requests : Follows(q)
    BY <1>1, StepEnds, HandlersFollow
  <2>2. NotYetCommitted' /\ KindsAgree'
    BY <2>1 DEF Inv, NotYetCommitted, KindsAgree, Follows, Ends, OnlyEnds, Keeps, Moves,
                Active, Ended
  <2>3. QED
    BY <2>1, <2>2, EndsKeep, JobsTyped DEF Inv, Typed, Ends, Written
<1>2. CASE \E r \in Requests : Commits(r)
  <2>1. PICK r \in Requests : Commits(r)
    BY <1>2
  <2>2. /\ req' \in [Requests -> Handlers] /\ Committed(r) /\ Written
        /\ Ends \/ Enters(r)
    BY <2>1, CommitsCommit DEF Ends
  <2>3. \A q \in Requests \ {r} : Keeps(q)
    BY <2>2 DEF Ends, OnlyEnds, Enters
  <2>4. NotYetCommitted' /\ KindsAgree'
    BY <2>2, <2>3 DEF Inv, NotYetCommitted, KindsAgree, Committed, Keeps, Moves, Before,
                      Active, Ended
  <2>5. QED
    BY <2>2, <2>4, EndsKeep, EntryKeeps, JobsTyped DEF Inv, Typed, Written
<1>3. QED
  BY <1>1, <1>2

(* The invariant of the operation rows, their handlers and the row.        *)
THEOREM Invariance == Spec => []Inv
  BY InvInit, InvStep, PTL DEF Spec

(* The operation that is open is the one of the domain's current           *)
(* generation, however requests, reconciliation and deletion interleave.   *)
THEOREM OpenIsCurrent == Spec => []ActiveOpIsCurrent
  BY Invariance, PTL DEF Inv

(* There is one open operation at most.                                    *)
THEOREM OneIsOpen == Spec => []OneActiveOperation
  BY Invariance, PTL DEF Inv

-----------------------------------------------------------------------------
(* The refinement: an operation is opened, closed, or closed in favour of  *)
(* its successor.                                                          *)

ledger == <<OpenOps, ClosedOps>>

LEMMA SameOrClosed ==
  ASSUME Inv, OnlyEnds
  PROVE  [Ledger!Next]_ledger
<1>1. CASE \A q \in OpenOps : op'[q].status \in Active
  BY <1>1 DEF OnlyEnds, Keeps, Moves, OpenOps, ClosedOps, IsActive, Active, Ended, ledger
<1>2. CASE \E o \in OpenOps : op'[o].status \notin Active
  <2>1. PICK o \in Requests : op[o].status \in Active /\ op'[o].status \notin Active
    BY <1>2 DEF OpenOps, IsActive
  <2>2. op'[o].status \in Ended
    BY <2>1 DEF OnlyEnds, Keeps, Moves
  <2>3. \A q \in Requests \ {o} :
          op[q].status \notin Active /\ op'[q].status \notin Active
            /\ (op'[q].status \in Ended <=> op[q].status \in Ended)
    BY <2>1 DEF Inv, OneActiveOperation, IsActive, OnlyEnds, Keeps, Moves, Active, Ended
  <2>4. OpenOps = {o} /\ OpenOps' = {} /\ ClosedOps' = ClosedOps \cup {o}
    BY <2>1, <2>2, <2>3 DEF OpenOps, ClosedOps, IsActive
  <2>5. QED
    BY <2>4 DEF Ledger!Next, Ledger!Close
<1>3. QED
  BY <1>1, <1>2

LEMMA OpenedOrSuperseded ==
  ASSUME Inv, NEW r \in Requests, Enters(r)
  PROVE  Ledger!Next
<1>1. /\ r \notin OpenOps \cup ClosedOps /\ r \notin ClosedOps'
      /\ OpenOps' = {r}
  BY DEF Enters, OpenOps, ClosedOps, IsActive, Active, Ended
<1>2. CASE OpenOps = {}
  <2>1. ClosedOps' = ClosedOps
    BY <1>1, <1>2 DEF Enters, Keeps, Moves, OpenOps, ClosedOps, IsActive
  <2>2. QED
    BY <1>1, <1>2, <2>1 DEF Ledger!Next, Ledger!Open, Ledger!Fresh
<1>3. CASE OpenOps # {}
  <2>1. PICK o \in Requests \ {r} : op[o].status \in Active
    BY <1>1, <1>3 DEF OpenOps, IsActive
  <2>2. op'[o].status \in Ended
    BY <2>1 DEF Enters, Keeps, Moves
  <2>3. \A q \in Requests \ {o, r} :
          op[q].status \notin Active /\ (op'[q].status \in Ended <=> op[q].status \in Ended)
    BY <2>1 DEF Inv, OneActiveOperation, IsActive, Enters, Keeps, Moves
  <2>4. OpenOps = {o}
    BY <1>1, <2>1, <2>3 DEF OpenOps, IsActive
  <2>5. ClosedOps' = ClosedOps \cup {o}
    BY <1>1, <2>2, <2>3 DEF ClosedOps
  <2>6. QED
    BY <1>1, <2>4, <2>5 DEF Ledger!Next, Ledger!Supersede, Ledger!Fresh
<1>4. QED
  BY <1>2, <1>3

(* Domain operations implement OperationLedger: at most one is open, none  *)
(* is opened twice or reopened, and a supersession is one step, although   *)
(* requests check and commit apart and copies go stale in between.         *)
THEOREM KeepsLedger == Spec => ImplementsLedger
<1>1. Init => Ledger!Init
  BY DEF Init, Ledger!Init, OpenOps, ClosedOps, IsActive, NoOperation, Active, Ended
<1>2. Inv /\ [Next]_vars => [Ledger!Next]_ledger
  <2> SUFFICES ASSUME Inv, [Next]_vars PROVE [Ledger!Next]_ledger
    OBVIOUS
  <2>1. CASE \A r \in Requests : ~Commits(r)
    BY <2>1, StepEnds, SameOrClosed DEF Ends
  <2>2. CASE \E r \in Requests : Commits(r)
    <3>1. PICK r \in Requests : Commits(r)
      BY <2>2
    <3>2. Ends \/ Enters(r)
      BY <3>1, CommitsCommit
    <3>3. CASE Ends
      BY <3>3, SameOrClosed DEF Ends
    <3>4. CASE Enters(r)
      BY <3>4, OpenedOrSuperseded
    <3>5. QED
      BY <3>2, <3>3, <3>4
  <2>3. QED
    BY <2>1, <2>2
<1>3. QED
  BY <1>1, <1>2, Invariance, PTL DEF Spec, ImplementsLedger, Ledger!Spec, ledger

-----------------------------------------------------------------------------
(* What is shown running was seen running.                                 *)

LEMMA SeenGrows ==
  ASSUME [Next]_vars
  PROVE  seenUp \subseteq seenUp'
<1>1. CASE \E r \in Requests : CallSucceeds(r)
  BY <1>1 DEF CallSucceeds
<1>2. CASE \E w \in Workers : Probe(w)
  BY <1>2 DEF Probe
<1>3. CASE UNCHANGED seenUp
  BY <1>3
<1>4. QED
  BY <1>1, <1>2, <1>3
  DEF Next, Begin, CreateDomain, BeginStart, BeginStop, BeginDelete, BeginAssign, Load,
      RequestStep, CommitLifecycle, CallFails, KeepUncertain, EndFailed, EndCreate,
      EndLifecycle, LookForActive, CommitDelete, CommitAssign, CallTimesOut, CrashRequest,
      LeaseExpires, WorkerStep, ListUncertain, Settle, Claim, Redact, Purge, Phase,
      DeleteRuntime, RemoveDomain, WorkerFault, PurgeFails, DeleteRuntimeFails,
      DeleteRuntimeTimesOut, CrashWorker, LateCall, RuntimeDies, vars

LEMMA HandlersSaw ==
  ASSUME Inv, ReportsWereSeen, [Next]_vars, NEW q \in Requests,
         req'[q].pc = "answered", req'[q].answer = "succeeded", req'[q].kind = "start"
  PROVE  req'[q].inst \in seenUp'
<1>1. CASE \E r \in Requests : CallSucceeds(r)
  <2>1. PICK r \in Requests : CallSucceeds(r)
    BY <1>1
  <2> DEFINE h == [req[r] EXCEPT !.pc = "answered", !.answer = "succeeded"]
  <2>2. h.inst = req[r].inst /\ h.kind = req[r].kind
    BY DEF Inv, Typed, Handlers
  <2>3. req' = [req EXCEPT ![r] = h]
    BY <2>1 DEF CallSucceeds, Answered, Inv, Typed
  <2>4. CASE q = r
    <3>1. req'[r] = h
      BY <2>3 DEF Inv, Typed
    <3>2. req[r].kind = "start"
      BY <2>2, <2>4, <3>1
    <3>3. req[r].inst \in seenUp'
      BY <2>1, <3>2 DEF CallSucceeds
    <3>4. QED
      BY <2>2, <2>4, <3>1, <3>3
  <2>5. CASE q # r
    BY <2>3, <2>5, SeenGrows DEF ReportsWereSeen, Inv, Typed
  <2>6. QED
    BY <2>4, <2>5
<1>2. CASE req'[q] = req[q]
  BY <1>2, SeenGrows DEF ReportsWereSeen
<1>3. ASSUME NEW r \in Requests, \/ Begin(r) \/ CommitLifecycle(r) \/ CallFails(r)
                                \/ KeepUncertain(r) \/ EndFailed(r) \/ EndCreate(r)
                                \/ EndLifecycle(r) \/ LookForActive(r) \/ CommitDelete(r)
                                \/ CommitAssign(r) \/ CallTimesOut(r) \/ CrashRequest(r)
      PROVE  req'[q] = req[q]
  <2>1. CASE Begin(r)
    <3>1. req'[r].pc \in {"calling", "loaded"} /\ (q # r => req'[q] = req[q])
      BY <2>1 DEF Begin, CreateDomain, BeginStart, BeginStop, BeginDelete, BeginAssign,
                  Load, NoHandler, Inv, Typed
    <3>2. QED
      BY <3>1
  <2>2. CASE \E stage \in {"calling", "done", "looked"} : req'[r].pc = stage
             /\ (q # r => req'[q] = req[q])
    BY <2>2
  <2>3. CASE CallFails(r) \/ CallTimesOut(r)
    <3>1. PICK a \in {"failed"} \cup UncertainMessages : Answered(r, a)
      BY <2>3 DEF CallFails, CallTimesOut
    <3>2. req'[r].answer = a /\ (q # r => req'[q] = req[q])
      BY <3>1 DEF Answered, Inv, Typed, Handlers
    <3>3. a # "succeeded"
      BY LifecycleConstants
    <3>4. QED
      BY <3>2, <3>3
  <2>4. CASE LookForActive(r)
    BY <2>2, <2>4 DEF LookForActive, Goto, Inv, Typed, Handlers
  <2>5. CASE \/ CommitLifecycle(r) \/ KeepUncertain(r) \/ EndFailed(r) \/ EndCreate(r)
             \/ EndLifecycle(r) \/ CommitDelete(r) \/ CommitAssign(r) \/ CrashRequest(r)
    <3>1. Goto(r, "calling") \/ Goto(r, "done")
      BY <2>5 DEF CommitLifecycle, KeepUncertain, EndFailed, EndCreate, EndLifecycle,
                  CommitDelete, CommitAssign, CrashRequest
    <3>2. QED
      BY <2>2, <3>1 DEF Goto, Inv, Typed, Handlers
  <2>6. QED
    BY <1>3, <2>1, <2>3, <2>4, <2>5
<1>4. ASSUME \/ LateCall \/ RuntimeDies \/ UNCHANGED vars
             \/ \E r \in Requests : LeaseExpires(r)
             \/ \E w \in Workers : WorkerStep(w) \/ WorkerFault(w)
      PROVE  req'[q] = req[q]
  BY <1>4 DEF LateCall, RuntimeDies, LeaseExpires, WorkerStep, WorkerFault, ListUncertain,
              Probe, Settle, Claim, Redact, Purge, Phase, DeleteRuntime, RemoveDomain,
              PurgeFails, DeleteRuntimeFails, DeleteRuntimeTimesOut, CrashWorker, vars
<1>5. QED
  BY <1>1, <1>2, <1>3, <1>4 DEF Next, RequestStep

LEMMA JobsSaw ==
  ASSUME Inv, ReportsWereSeen, [Next]_vars, NEW v \in Workers,
         work'[v].pc = "settle", work'[v].health = "healthy"
  PROVE  work'[v].inst \in seenUp'
<1>1. CASE work'[v] = work[v]
  BY <1>1, SeenGrows DEF ReportsWereSeen
<1>2. ASSUME NEW w \in Workers, Leave(w) PROVE work'[v] = work[v]
  BY <1>2 DEF Leave, NoJob, Inv, Typed
<1>3. ASSUME NEW w \in Workers, NEW h \in Healths(row.inst), Probe(w),
             work' = [work EXCEPT ![w].pc = "settle", ![w].inst = row.inst, ![w].health = h],
             seenUp' = IF h = "healthy" THEN seenUp \cup {row.inst} ELSE seenUp
      PROVE  work'[v].inst \in seenUp'
  <2>1. CASE v # w
    BY <1>1, <1>3, <2>1 DEF Inv, Typed
  <2>2. CASE v = w
    <3>1. work'[v].health = h /\ work'[v].inst = row.inst
      BY <1>3, <2>2 DEF Inv, Typed, Jobs
    <3>2. QED
      BY <1>3, <3>1
  <2>3. QED
    BY <2>1, <2>2
<1>4. ASSUME NEW w \in Workers, NEW stage \in {"listed", "redact", "purge", "remote", "remove"},
             work'[w].pc = stage, v # w => work'[v] = work[v]
      PROVE  work'[v] = work[v]
  BY <1>4
<1>5. ASSUME NEW w \in Workers, WorkerStep(w) \/ WorkerFault(w), ~Probe(w)
      PROVE  work'[v] = work[v]
  <2>1. CASE Leave(w)
    BY <1>2, <2>1
  <2>2. CASE ListUncertain(w) \/ Claim(w)
    <3>1. work'[w].pc \in {"listed", "redact"} /\ (v # w => work'[v] = work[v])
      <4>1. CASE ListUncertain(w)
        BY <4>1 DEF ListUncertain, Inv, Typed, Jobs
      <4>2. CASE Claim(w)
        BY <4>2 DEF Claim, Inv, Typed, Jobs
      <4>3. QED
        BY <2>2, <4>1, <4>2
    <3>2. QED
      BY <1>4, <3>1
  <2>3. CASE \E stage \in {"purge", "remote", "remove"} : work' = [work EXCEPT ![w].pc = stage]
    <3>1. PICK stage \in {"purge", "remote", "remove"} : work' = [work EXCEPT ![w].pc = stage]
      BY <2>3
    <3>2. work'[w].pc = stage /\ (v # w => work'[v] = work[v])
      BY <3>1 DEF Inv, Typed, Jobs
    <3>3. QED
      BY <1>4, <3>2
  <2>4. QED
    BY <1>5, <2>1, <2>2, <2>3
    DEF WorkerStep, WorkerFault, Settle, Redact, Purge, Phase, DeleteRuntime, RemoveDomain,
        PurgeFails, DeleteRuntimeFails, FailDelete, DeleteRuntimeTimesOut, CrashWorker
<1>6. ASSUME NEW w \in Workers, Probe(w) PROVE work'[v].inst \in seenUp'
  BY <1>1, <1>2, <1>3, <1>6 DEF Probe
<1>7. ASSUME NEW r \in Requests,
             Begin(r) \/ RequestStep(r) \/ CallTimesOut(r) \/ CrashRequest(r) \/ LeaseExpires(r)
      PROVE  UNCHANGED work
  BY <1>7 DEF Begin, CreateDomain, BeginStart, BeginStop, BeginDelete, BeginAssign, Load,
              RequestStep, CommitLifecycle, CallSucceeds, CallFails, KeepUncertain,
              EndFailed, EndCreate, EndLifecycle, LookForActive, CommitDelete, CommitAssign,
              CallTimesOut, CrashRequest, LeaseExpires
<1>8. LateCall \/ RuntimeDies \/ UNCHANGED vars => UNCHANGED work
  BY DEF LateCall, RuntimeDies, vars
<1>9. QED
  BY <1>1, <1>5, <1>6, <1>7, <1>8 DEF Next

LEMMA CompleteSaw ==
  ASSUME Inv, RunningWasSeenUp, NEW x, NEW inst, NEW leased \in BOOLEAN,
         Complete(x, inst, leased), op[x].type = "start" => inst \in seenUp
  PROVE  row'.state = "running" => row'.inst \in seenUp
<1>1. CASE row' = row
  BY <1>1 DEF RunningWasSeenUp
<1>2. CASE row' = [row EXCEPT !.state = Target(op[x].type)] /\ row.inst = inst
  BY <1>2 DEF Target, Inv, Typed, Domains
<1>3. QED
  BY <1>1, <1>2 DEF Complete, Current

LEMMA RowSaw ==
  ASSUME Inv, ReportsWereSeen, RunningWasSeenUp, [Next]_vars, row'.state = "running"
  PROVE  row'.inst \in seenUp'
<1> SUFFICES row'.inst \in seenUp
  BY SeenGrows
<1>1. CASE row'.state = row.state /\ row'.inst = row.inst
  BY <1>1 DEF RunningWasSeenUp
<1>2. CASE \E r \in Requests : EndLifecycle(r)
  <2>1. PICK r \in Requests : EndLifecycle(r)
    BY <1>2
  <2>2. op[r].type = "start" => req[r].inst \in seenUp
    BY <2>1 DEF EndLifecycle, ReportsWereSeen, Inv, KindsAgree
  <2>3. QED
    BY <2>1, <2>2, CompleteSaw DEF EndLifecycle
<1>3. CASE \E w \in Workers : Settle(w)
  <2>1. PICK w \in Workers : Settle(w)
    BY <1>3
  <2>2. CASE AsWanted(op[work[w].op].type, work[w].health)
             /\ Complete(work[w].op, work[w].inst, TRUE)
    <3>1. op[work[w].op].type = "start" => work[w].inst \in seenUp
      BY <2>1, <2>2 DEF Settle, AsWanted, ReportsWereSeen
    <3>2. QED
      BY <2>2, <3>1, CompleteSaw
  <2>3. CASE row' = row
    BY <1>1, <2>3
  <2>4. QED
    BY <2>1, <2>2, <2>3 DEF Settle
<1>4. CASE \E r \in Requests : CreateDomain(r) \/ CommitDelete(r)
  <2>1. row' = row \/ row'.state \in {"stopped", "deleting"}
    <3>1. ASSUME NEW r \in Requests, CreateDomain(r) PROVE row'.state = "stopped"
      BY <3>1 DEF CreateDomain
    <3>2. ASSUME NEW r \in Requests, CommitDelete(r)
          PROVE  row' = row \/ row'.state = "deleting"
      <4>1. CASE row' = [row EXCEPT !.state = "deleting", !.gen = req[r].gen + 1]
        BY <4>1 DEF Inv, Typed, Domains
      <4>2. QED
        BY <3>2, <4>1 DEF CommitDelete
    <3>3. QED
      BY <1>4, <3>1, <3>2
  <2>2. QED
    BY <1>1, <2>1
<1>5. CASE \E r \in Requests : CommitLifecycle(r) \/ CommitAssign(r)
  BY <1>1, <1>5 DEF CommitLifecycle, CommitAssign, Inv, Typed, Domains
<1>6. CASE \E w \in Workers : RemoveDomain(w)
  <2>1. row' = row \/ row'.state = "gone"
    BY <1>6 DEF RemoveDomain, Inv, Typed, Domains
  <2>2. QED
    BY <1>1, <2>1
<1>7. CASE UNCHANGED row
  BY <1>1, <1>7
<1>8. QED
  BY <1>2, <1>3, <1>4, <1>5, <1>6, <1>7
  DEF Next, Begin, BeginStart, BeginStop, BeginDelete, BeginAssign, Load,
      RequestStep, CallSucceeds, CallFails, KeepUncertain, EndFailed, EndCreate,
      LookForActive, CallTimesOut, CrashRequest, LeaseExpires, WorkerStep, ListUncertain,
      Probe, Claim, Redact, Purge, Phase, DeleteRuntime, WorkerFault, PurgeFails,
      DeleteRuntimeFails, DeleteRuntimeTimesOut, CrashWorker, LateCall, RuntimeDies, vars

(* A domain is shown running only if a caller has seen that very instance  *)
(* of its runtime up: answers of earlier instances and unknown outcomes do *)
(* not get through the compare-and-set.                                    *)
THEOREM RunningWasSeen == Spec => []RunningWasSeenUp
<1> DEFINE Seen == ReportsWereSeen /\ RunningWasSeenUp
<1>1. Init => Seen
  BY DEF Init, ReportsWereSeen, RunningWasSeenUp, NoHandler, NoJob
<1>2. Inv /\ Seen /\ [Next]_vars => Seen'
  BY HandlersSaw, JobsSaw, RowSaw DEF ReportsWereSeen, RunningWasSeenUp
<1>3. QED
  BY <1>1, <1>2, Invariance, PTL DEF Spec


-----------------------------------------------------------------------------
(* The row goes last.                                                      *)

\* While the operation of a deleting worker is stored, the domain is the one it claimed and
\* everything up to the worker's phase is erased, by it or by a worker before it.
Deleting == {"redact", "purge", "remote", "remove"}
Done(pc) == CASE pc = "purge"  -> {"turns"}
              [] pc = "remote" -> {"turns", "sources"}
              [] pc = "remove" -> Erasable
              [] OTHER         -> {}
Erasing(w) ==
  work[w].pc \in Deleting =>
    /\ work[w].op \in Requests /\ op[work[w].op].status # "none"
    /\ Stored(work[w].op) => work[w].inst = row.inst /\ Done(work[w].pc) \subseteq erased

Progress == /\ erased \subseteq Erasable
            /\ \A r \in Requests : Stored(r) => row.state # "gone"
            /\ \A w \in Workers : Erasing(w)

\* No step brings an operation row back, and while one is stored the domain stays the same
\* and what is erased stays erased.
Lasts(q) ==
  op[q].status # "none" =>
    /\ op'[q].status # "none"
    /\ Stored(q)' => Stored(q) /\ row'.inst = row.inst /\ erased \subseteq erased'

LEMMA CommitsErase ==
  ASSUME NEW r \in Requests, Commits(r)
  PROVE  erased' = erased \/ CreateDomain(r)
BY DEF Commits, CommitLifecycle, CommitDelete

LEMMA ErasedGrows ==
  ASSUME [Next]_vars
  PROVE  /\ \/ \E r \in Requests : CreateDomain(r)
            \/ erased \subseteq erased'
         /\ erased \subseteq Erasable => erased' \subseteq Erasable
<1>1. CASE \E w \in Workers : Redact(w) \/ Purge(w) \/ DeleteRuntime(w)
  BY <1>1 DEF Redact, Purge, Phase, DeleteRuntime, Erasable
<1>2. CASE \E r \in Requests : CreateDomain(r)
  BY <1>2 DEF CreateDomain
<1>3. CASE UNCHANGED erased
  BY <1>3
<1>4. ASSUME NEW r \in Requests,
             Begin(r) \/ RequestStep(r) \/ CallTimesOut(r) \/ CrashRequest(r) \/ LeaseExpires(r)
      PROVE  CreateDomain(r) \/ UNCHANGED erased
  BY <1>4 DEF Begin, BeginStart, BeginStop, BeginDelete, BeginAssign, Load,
              RequestStep, CommitLifecycle, CallSucceeds, CallFails, KeepUncertain,
              EndFailed, EndCreate, EndLifecycle, LookForActive, CommitDelete, CommitAssign,
              CallTimesOut, CrashRequest, LeaseExpires
<1>5. ASSUME NEW w \in Workers, WorkerStep(w) \/ WorkerFault(w)
      PROVE  Redact(w) \/ Purge(w) \/ DeleteRuntime(w) \/ UNCHANGED erased
  BY <1>5 DEF WorkerStep, ListUncertain, Probe, Settle, Claim, RemoveDomain, WorkerFault,
              PurgeFails, DeleteRuntimeFails, DeleteRuntimeTimesOut, CrashWorker
<1>6. LateCall \/ RuntimeDies \/ UNCHANGED vars => UNCHANGED erased
  BY DEF LateCall, RuntimeDies, vars
<1>7. QED
  BY <1>1, <1>2, <1>3, <1>4, <1>5, <1>6 DEF Next

LEMMA RowsLast ==
  ASSUME Inv, Progress, [Next]_vars
  PROVE  /\ \A q \in Requests : Lasts(q)
         /\ \A r \in Requests : Stored(r)' => row'.state # "gone"
<1>1. CASE \A r \in Requests : ~Commits(r)
  <2>1. Ends
    BY <1>1, StepEnds
  <2>2. erased \subseteq erased'
    BY <1>1, ErasedGrows DEF Commits
  <2>3. \A q \in Requests : Keeps(q)
    BY <2>1 DEF Ends, OnlyEnds
  <2>4. \A q \in Requests : (Stored(q)' => Stored(q)) /\ Lasts(q)
    BY <2>1, <2>2, <2>3 DEF Ends, RowFollows, Keeps, Moves, Stored, Lasts, Active, Ended
  <2>5. QED
    BY <2>1, <2>4 DEF Progress, Ends, RowFollows
<1>2. CASE \E r \in Requests : Commits(r)
  <2>1. PICK r \in Requests : Commits(r)
    BY <1>2
  <2>2. (Ends /\ erased' = erased) \/ Enters(r)
    BY <2>1, CommitsCommit, CommitsErase, CreateEnters
  <2>3. CASE Ends /\ erased' = erased
    <3>1. \A q \in Requests : (Stored(q)' => Stored(q)) /\ Lasts(q)
      BY <2>3 DEF Ends, OnlyEnds, RowFollows, Keeps, Moves, Stored, Lasts, Active, Ended
    <3>2. QED
      BY <2>3, <3>1 DEF Progress, Ends, RowFollows
  <2>4. CASE Enters(r)
    <3>1. \A q \in Requests : op[q].status # "none" => (Stored(q)' => Stored(q))
      BY <2>4 DEF Enters, Keeps, Moves, Stored, Active, Ended
    <3>2. \A q \in Requests : op[q].status # "none" => op'[q].status # "none"
      BY <2>4 DEF Enters, Keeps, Moves, Active, Ended
    <3>3. \A q \in Requests : Lasts(q)
      BY <2>4, <3>1, <3>2 DEF Enters, Lasts, Progress
    <3>4. QED
      BY <2>4, <3>3 DEF Enters
  <2>5. QED
    BY <2>2, <2>3, <2>4
<1>3. QED
  BY <1>1, <1>2

\* A worker that stays where it is, and one that is not deleting.
LEMMA SameErasing ==
  ASSUME Progress, NEW w \in Workers, \A q \in Requests : Lasts(q), work'[w] = work[w]
  PROVE  Erasing(w)'
BY DEF Progress, Erasing, Lasts, Done

LEMMA ClaimErases ==
  ASSUME Inv, Progress, NEW w \in Workers, Claim(w), \A q \in Requests : Lasts(q)
  PROVE  Erasing(w)'
<1>1. PICK r \in Requests :
        /\ Claimable(r)
        /\ work' = [work EXCEPT ![w].pc = "redact", ![w].op = r, ![w].gen = op[r].gen,
                                ![w].inst = row.inst]
  BY DEF Claim
<1>2. work'[w].pc = "redact" /\ work'[w].op = r /\ work'[w].inst = row.inst /\ row' = row
  BY <1>1 DEF Claim, Inv, Typed, Jobs
<1>3. op[r].status # "none"
  BY <1>1 DEF Claimable
<1>4. op'[r].status # "none"
  BY <1>3 DEF Lasts
<1>5. QED
  BY <1>2, <1>4 DEF Erasing, Done

\* A phase is left with its part erased, or for good.
LEMMA PhaseErases ==
  ASSUME Inv, Progress, NEW w \in Workers, Redact(w) \/ Purge(w) \/ DeleteRuntime(w),
         \A q \in Requests : Lasts(q)
  PROVE  Erasing(w)'
<1>1. CASE Leave(w)
  BY <1>1 DEF Leave, NoJob, Erasing, Deleting, Inv, Typed
<1>2. ASSUME NEW from \in Deleting, NEW to \in Deleting, NEW what \in Erasable,
             work[w].pc = from, work' = [work EXCEPT ![w].pc = to], row' = row,
             work[w].inst = row.inst => erased' = erased \cup {what},
             Done(to) = Done(from) \cup {what}
      PROVE  Erasing(w)'
  <2>1. /\ work'[w].pc = to /\ work'[w].op = work[w].op /\ work'[w].inst = work[w].inst
    BY <1>2 DEF Inv, Typed, Jobs
  <2>2. /\ work[w].op \in Requests /\ op[work[w].op].status # "none"
        /\ Stored(work[w].op) => work[w].inst = row.inst /\ Done(from) \subseteq erased
    BY <1>2 DEF Progress, Erasing
  <2>3. Lasts(work[w].op)
    BY <2>2
  <2>4. op'[work[w].op].status # "none" /\ (Stored(work[w].op)' => Stored(work[w].op))
    BY <2>1, <2>2, <2>3 DEF Lasts, Stored
  <2>5. Stored(work[w].op) => Done(to) \subseteq erased'
    BY <1>2, <2>2
  <2>6. QED
    BY <1>2, <2>1, <2>2, <2>4, <2>5 DEF Erasing, Stored
<1>3. CASE Redact(w) /\ ~Leave(w)
  BY <1>2, <1>3 DEF Redact, Phase, Done, Deleting, Erasable
<1>4. CASE Purge(w) /\ ~Leave(w)
  BY <1>2, <1>4 DEF Purge, Phase, Done, Deleting, Erasable
<1>5. CASE DeleteRuntime(w)
  BY <1>2, <1>5 DEF DeleteRuntime, Done, Deleting, Erasable
<1>6. QED
  BY <1>1, <1>3, <1>4, <1>5

LEMMA ErasingLasts ==
  ASSUME Inv, Progress, [Next]_vars, NEW v \in Workers
  PROVE  Erasing(v)'
<1>0. \A q \in Requests : Lasts(q)
  BY RowsLast
<1>1. CASE work'[v] = work[v]
  BY <1>0, <1>1, SameErasing
<1>2. CASE Claim(v) \/ Redact(v) \/ Purge(v) \/ DeleteRuntime(v)
  BY <1>0, <1>2, ClaimErases, PhaseErases
<1>3. CASE work'[v].pc \in {"idle", "listed", "settle"}
  BY <1>3 DEF Erasing, Deleting
<1>4. ASSUME NEW w \in Workers, w # v, WorkerStep(w) \/ WorkerFault(w)
      PROVE  work'[v] = work[v]
  BY <1>4 DEF WorkerStep, WorkerFault, ListUncertain, Probe, Settle, Claim, Redact, Purge,
              Phase, DeleteRuntime, RemoveDomain, PurgeFails, DeleteRuntimeFails, FailDelete,
              DeleteRuntimeTimesOut, CrashWorker, Leave, Inv, Typed
<1>5. CASE Leave(v) \/ ListUncertain(v) \/ Probe(v)
  <2>1. Leave(v) => work'[v].pc = "idle"
    BY DEF Leave, NoJob, Inv, Typed
  <2>2. ListUncertain(v) => work'[v].pc = "listed"
    BY DEF ListUncertain, Inv, Typed, Jobs
  <2>3. Probe(v) => Leave(v) \/ work'[v].pc = "settle"
    BY DEF Probe, Inv, Typed, Jobs
  <2>4. QED
    BY <1>3, <1>5, <2>1, <2>2, <2>3
<1>6. ASSUME NEW r \in Requests,
             Begin(r) \/ RequestStep(r) \/ CallTimesOut(r) \/ CrashRequest(r) \/ LeaseExpires(r)
      PROVE  UNCHANGED work
  BY <1>6 DEF Begin, CreateDomain, BeginStart, BeginStop, BeginDelete, BeginAssign, Load,
              RequestStep, CommitLifecycle, CallSucceeds, CallFails, KeepUncertain,
              EndFailed, EndCreate, EndLifecycle, LookForActive, CommitDelete, CommitAssign,
              CallTimesOut, CrashRequest, LeaseExpires
<1>7. LateCall \/ RuntimeDies \/ UNCHANGED vars => UNCHANGED work
  BY DEF LateCall, RuntimeDies, vars
<1>8. WorkerStep(v) \/ WorkerFault(v) =>
        \/ Claim(v) \/ Redact(v) \/ Purge(v) \/ DeleteRuntime(v)
        \/ Leave(v) \/ ListUncertain(v) \/ Probe(v)
  BY DEF WorkerStep, WorkerFault, Settle, RemoveDomain, PurgeFails, DeleteRuntimeFails,
         FailDelete, DeleteRuntimeTimesOut, CrashWorker
<1>9. QED
  BY <1>1, <1>2, <1>4, <1>5, <1>6, <1>7, <1>8 DEF Next

\* Only a deletion in its last phase, its operation stored and leased, removes the row.
LEMMA OnlyRemoveRemoves ==
  ASSUME Inv, [Next]_vars, row.state # "gone", row'.state = "gone"
  PROVE  \E w \in Workers : work[w].pc = "remove" /\ Stored(work[w].op)
<1>1. CASE row'.state = row.state
  BY <1>1
<1>2. CASE \E w \in Workers : RemoveDomain(w)
  BY <1>1, <1>2 DEF RemoveDomain
<1>3. CASE \E r \in Requests : CreateDomain(r) \/ CommitLifecycle(r) \/ CommitDelete(r)
                               \/ CommitAssign(r)
  BY <1>1, <1>3 DEF CreateDomain, CommitLifecycle, CommitDelete, CommitAssign, Inv, Typed,
                    Domains
<1>4. ASSUME NEW x, NEW inst, NEW leased \in BOOLEAN, Complete(x, inst, leased)
      PROVE  row'.state # "gone" \/ row' = row
  BY <1>4 DEF Complete, Target, Inv, Typed, Domains
<1>5. CASE (\E r \in Requests : EndLifecycle(r)) \/ (\E w \in Workers : Settle(w))
  BY <1>1, <1>4, <1>5 DEF EndLifecycle, Settle
<1>6. CASE UNCHANGED row
  BY <1>1, <1>6
<1>7. ASSUME NEW r \in Requests,
             Begin(r) \/ RequestStep(r) \/ CallTimesOut(r) \/ CrashRequest(r) \/ LeaseExpires(r)
      PROVE  \/ CreateDomain(r) \/ CommitLifecycle(r) \/ CommitDelete(r) \/ CommitAssign(r)
             \/ EndLifecycle(r) \/ UNCHANGED row
  BY <1>7 DEF Begin, BeginStart, BeginStop, BeginDelete, BeginAssign, Load, RequestStep,
              CallSucceeds, CallFails, KeepUncertain, EndFailed, EndCreate, LookForActive,
              CallTimesOut, CrashRequest, LeaseExpires
<1>8. ASSUME NEW w \in Workers, WorkerStep(w) \/ WorkerFault(w)
      PROVE  RemoveDomain(w) \/ Settle(w) \/ UNCHANGED row
  BY <1>8 DEF WorkerStep, ListUncertain, Probe, Claim, Redact, Purge, Phase, DeleteRuntime,
              WorkerFault, PurgeFails, DeleteRuntimeFails, DeleteRuntimeTimesOut, CrashWorker
<1>9. LateCall \/ RuntimeDies \/ UNCHANGED vars => UNCHANGED row
  BY DEF LateCall, RuntimeDies, vars
<1>10. QED
  BY <1>2, <1>3, <1>5, <1>6, <1>7, <1>8, <1>9 DEF Next

(* The row is the last thing a deletion removes, whichever workers carried *)
(* it out and wherever they crashed or lost their lease: the turns are     *)
(* redacted, the sources purged and the runtime deleted by then.           *)
THEOREM RowGoesLast == Spec => RemovedLast
<1>1. Init => Progress
  BY DEF Init, Progress, Erasing, Deleting, NoJob, NoOperation, Stored
<1>2. Inv /\ Progress /\ [Next]_vars => Progress'
  <2>1. SUFFICES ASSUME Inv, Progress, [Next]_vars PROVE Progress'
    OBVIOUS
  <2>2. \A r \in Requests : Stored(r)' => row'.state # "gone"
    BY <2>1, RowsLast
  <2>3. \A w \in Workers : Erasing(w)'
    BY <2>1, ErasingLasts
  <2>4. erased' \subseteq Erasable
    BY <2>1, ErasedGrows DEF Progress
  <2>5. QED
    BY <2>2, <2>3, <2>4 DEF Progress
<1>3. Inv /\ Progress /\ [Next]_vars =>
        [row.state # "gone" /\ row'.state = "gone" => erased = Erasable]_vars
  BY OnlyRemoveRemoves DEF Progress, Erasing, Done, Deleting
<1>4. QED
  BY <1>1, <1>2, <1>3, Invariance, PTL DEF Spec, RemovedLast

-----------------------------------------------------------------------------
(* Admission gates.                                                        *)

Tickets == [kind : Kinds \cup {"none"}, held : Nat, ids : [Gates -> Nat]]
GatesTyped == /\ entry \in [Kept -> [id : Nat, users : Nat]]
              /\ ticket \in [Readers -> Tickets]

Referrers(g) == {r \in Readers : Refers(r, g)}
Holders(g)   == {r \in Readers : Holds(r, g)}

(* Whoever refers to a gate was given the one entry that is kept, so the   *)
(* holders of a permit are those of one semaphore.                         *)
Shared ==
  \A r \in Readers : \A g \in Gates :
    Refers(r, g) => ticket[r].ids[g] = IF g \in Kept THEN entry[g].id ELSE 0

Waiting(r) == ticket[r].kind # "none"
NoneOver   == \A r \in Readers : Waiting(r) => ticket[r].held <= Len(Order(ticket[r].kind))

Gated == GatesTyped /\ Shared /\ NoneOver /\ EntriesCountTheirReads /\ PermitsWithinLimits

LEMMA Pair ==
  ASSUME NEW o, NEW a, NEW b, NEW S, a \in S, b \in S, o = <<a, b>>
  PROVE  /\ Len(o) \in Nat /\ Len(o) > 0 /\ DOMAIN o = 1..Len(o)
         /\ \A i \in 1..Len(o) : o[i] \in S
<1>1. Len(o) = 2 /\ DOMAIN o = 1..2 /\ o[1] = a /\ o[2] = b
  OBVIOUS
<1>2. QED
  BY <1>1

LEMMA Triple ==
  ASSUME NEW o, NEW a, NEW b, NEW c, NEW S, a \in S, b \in S, c \in S, o = <<a, b, c>>
  PROVE  /\ Len(o) \in Nat /\ Len(o) > 0 /\ DOMAIN o = 1..Len(o)
         /\ \A i \in 1..Len(o) : o[i] \in S
<1>1. Len(o) = 3 /\ DOMAIN o = 1..3 /\ o[1] = a /\ o[2] = b /\ o[3] = c
  OBVIOUS
<1>2. QED
  BY <1>1

LEMMA OrderOf ==
  ASSUME NEW kind \in Kinds
  PROVE  /\ Len(Order(kind)) \in Nat /\ Len(Order(kind)) > 0
         /\ \A i \in 1..Len(Order(kind)) : Order(kind)[i] \in Gates
                                           /\ Order(kind)[i] \in Needs(kind)
         /\ Needs(kind) \subseteq Gates
<1>1. Gates = {"evidence", "principal", "graph", "all evidence", "all graphs"}
  BY DEF Gates, Kept
<1>2. /\ Len(Order(kind)) \in Nat /\ Len(Order(kind)) > 0
      /\ DOMAIN Order(kind) = 1..Len(Order(kind))
      /\ \A i \in 1..Len(Order(kind)) : Order(kind)[i] \in Gates
  <2>1. CASE kind = "evidence"
    <3>1. Order(kind) = <<"evidence", "all evidence">>
      BY <2>1 DEF Order
    <3>2. "evidence" \in Gates /\ "all evidence" \in Gates
      BY <1>1
    <3>3. QED
      BY <3>1, <3>2, Pair, Zenon
  <2>2. CASE kind # "evidence"
    <3>1. Order(kind) = <<"principal", "graph", "all graphs">>
      BY <2>2 DEF Order
    <3>2. "principal" \in Gates /\ "graph" \in Gates /\ "all graphs" \in Gates
      BY <1>1
    <3>3. QED
      BY <3>1, <3>2, Triple, Zenon
  <2>3. QED
    BY <2>1, <2>2
<1>3. QED
  BY <1>2 DEF Needs

LEMMA FiniteReaders ==
  ASSUME NEW g
  PROVE  /\ IsFiniteSet(Referrers(g)) /\ Cardinality(Referrers(g)) \in Nat
         /\ IsFiniteSet(Holders(g)) /\ Cardinality(Holders(g)) \in Nat
<1>1. Referrers(g) \in SUBSET Readers /\ Holders(g) \in SUBSET Readers
  BY DEF Referrers, Holders
<1>2. QED
  BY <1>1, FS_Subset, FS_CardinalityType, LimitsAssumption

LEMMA LimitIs ==
  ASSUME NEW g \in Gates
  PROVE  Limit[g] \in Nat
BY LimitsAssumption DEF Limit, Gates, Kept

(* There is always an identity for a new entry that no read still has.     *)
LEMMA FreshExists ==
  ASSUME GatesTyped, NEW g \in Gates
  PROVE  Fresh(g) \in Ids /\ Fresh(g) \in Nat
<1> DEFINE f == [r \in Readers |-> ticket[r].ids[g]]
           used == {f[r] : r \in Readers}
<1>1. f \in Surjection(Readers, used)
  BY DEF Surjection
<1>2. IsFiniteSet(used) /\ Cardinality(used) <= Cardinality(Readers)
      /\ Cardinality(Readers) \in Nat /\ Cardinality(used) \in Nat
  BY <1>1, FS_Surjection, FS_CardinalityType, LimitsAssumption
<1>3. IsFiniteSet(Ids) /\ Cardinality(Ids) = Cardinality(Readers) + 1
  <2>1. ASSUME NEW n \in Nat PROVE IsFiniteSet(1..(n + 1)) /\ Cardinality(1..(n + 1)) = n + 1
    <3>1. 1 \in Int /\ n + 1 \in Int /\ ~(1 > n + 1) /\ n + 1 - 1 + 1 = n + 1
      BY <2>1
    <3>2. QED
      BY <3>1, FS_Interval
  <2>2. QED
    BY <1>2, <2>1 DEF Ids
<1>4. ~(Ids \subseteq used)
  <2>1. ASSUME Ids \subseteq used PROVE FALSE
    <3>1. Cardinality(Ids) <= Cardinality(used)
      BY <1>2, <2>1, FS_Subset
    <3>2. QED
      BY <1>2, <1>3, <3>1
  <2>2. QED
    BY <2>1
<1>5. PICK id \in Ids : id \notin used
  BY <1>4
<1>6. \A r \in Readers : Refers(r, g) => ticket[r].ids[g] # id
  BY <1>5
<1>7. Fresh(g) \in Ids
  BY <1>6 DEF Fresh
<1>8. QED
  BY <1>2, <1>7 DEF Ids

(* A gate nobody refers to has no users.                                   *)
LEMMA NoUsers ==
  ASSUME EntriesCountTheirReads, NEW g \in Kept
  PROVE  entry[g].users = 0 => \A r \in Readers : ~Refers(r, g)
<1>1. entry[g].users = Cardinality(Referrers(g))
  BY DEF EntriesCountTheirReads, Referrers
<1>2. Cardinality(Referrers(g)) = 0 => Referrers(g) = {}
  BY FiniteReaders, FS_EmptySet
<1>3. QED
  BY <1>1, <1>2 DEF Referrers

LEMMA ArriveKeeps ==
  ASSUME Gated, NEW r \in Readers, NEW kind \in Kinds, ~Waiting(r), Arrive(r, kind)
  PROVE  Gated' /\ ticket'[r].kind = kind /\ \A q \in Readers \ {r} : ticket'[q] = ticket[q]
<1>1. \A g \in Kept : Given(g) \in Nat
  BY FreshExists DEF Gated, GatesTyped, Given, Gates
<1> DEFINE ids == [g \in Gates |-> IF g \in Needs(kind) \cap Kept THEN Given(g) ELSE 0]
<1>2. ids \in [Gates -> Nat]
  BY <1>1
<1>3. /\ ticket'[r] = [kind |-> kind, held |-> 0, ids |-> ids]
      /\ \A q \in Readers \ {r} : ticket'[q] = ticket[q]
      /\ ticket' \in [Readers -> Tickets]
  BY <1>2 DEF Gated, GatesTyped, Arrive, Tickets
<1>4. entry' = [g \in Kept |-> IF g \in Needs(kind)
                               THEN [id |-> Given(g), users |-> entry[g].users + 1]
                               ELSE entry[g]]
  BY DEF Arrive
<1>5. GatesTyped'
  BY <1>1, <1>3, <1>4 DEF Gated, GatesTyped
<1>6. \A g : /\ Refers(r, g)' <=> g \in Needs(kind)
             /\ \A q \in Readers \ {r} : Refers(q, g)' <=> Refers(q, g)
             /\ ~Refers(r, g)
  BY <1>3 DEF Refers, Waiting, Kinds
<1>7. \A g : /\ ~Holds(r, g)' /\ ~Holds(r, g)
             /\ \A q \in Readers \ {r} : Holds(q, g)' <=> Holds(q, g)
  <2>1. 1..ticket'[r].held = {}
    BY <1>3
  <2>2. QED
    BY <1>3, <2>1 DEF Holds, Waiting
<1>8. Shared'
  <2> SUFFICES ASSUME NEW q \in Readers, NEW g \in Gates, Refers(q, g)'
               PROVE  ticket'[q].ids[g] = IF g \in Kept THEN entry'[g].id ELSE 0
    BY DEF Shared
  <2>1. CASE q = r
    BY <1>3, <1>4, <1>6, <2>1
  <2>2. CASE q # r
    <3>1. Refers(q, g) /\ ticket'[q] = ticket[q]
      BY <1>3, <1>6, <2>2
    <3>2. g \in Kept => entry'[g].id = entry[g].id
      <4>1. ASSUME g \in Kept, g \in Needs(kind) PROVE Given(g) = entry[g].id
        BY <3>1, <4>1, NoUsers DEF Given, Gated
      <4>2. QED
        BY <1>4, <4>1
    <3>3. QED
      BY <3>1, <3>2 DEF Gated, Shared
  <2>3. QED
    BY <2>1, <2>2
<1>9. NoneOver'
  BY <1>3, OrderOf DEF Gated, NoneOver, Waiting
<1>10. EntriesCountTheirReads'
  <2> SUFFICES ASSUME NEW g \in Kept PROVE entry'[g].users = Cardinality(Referrers(g)')
    BY DEF EntriesCountTheirReads, Referrers
  <2>1. entry[g].users = Cardinality(Referrers(g)) /\ r \notin Referrers(g)
    BY <1>6 DEF Gated, EntriesCountTheirReads, Referrers
  <2>2. CASE g \in Needs(kind)
    <3>1. Referrers(g)' = Referrers(g) \cup {r}
      BY <1>6, <2>2 DEF Referrers
    <3>2. QED
      BY <1>4, <2>1, <2>2, <3>1, FiniteReaders, FS_AddElement
  <2>3. CASE g \notin Needs(kind)
    <3>1. Referrers(g)' = Referrers(g)
      BY <1>6, <2>3 DEF Referrers
    <3>2. QED
      BY <1>4, <2>1, <2>3, <3>1
  <2>4. QED
    BY <2>2, <2>3
<1>11. PermitsWithinLimits'
  <2>1. \A g \in Gates : Holders(g)' = Holders(g)
    BY <1>7 DEF Holders
  <2>2. QED
    BY <2>1 DEF Gated, PermitsWithinLimits, Holders
<1>12. QED
  BY <1>3, <1>5, <1>8, <1>9, <1>10, <1>11 DEF Gated

LEMMA TakeKeeps ==
  ASSUME Gated, NEW r \in Readers, Waiting(r), TakePermit(r)
  PROVE  /\ Gated' /\ ticket'[r].kind = ticket[r].kind
         /\ \A q \in Readers \ {r} : ticket'[q] = ticket[q]
<1> DEFINE n == ticket[r].held
           top == NextGate(r)
<1>1. /\ ticket[r].kind \in Kinds /\ n \in Nat /\ n < Len(Order(ticket[r].kind))
      /\ top = Order(ticket[r].kind)[n + 1] /\ top \in Gates /\ top \in Needs(ticket[r].kind)
  <2>1. ticket[r].kind \in Kinds /\ n \in Nat /\ n # Len(Order(ticket[r].kind))
        /\ n <= Len(Order(ticket[r].kind))
    BY DEF Gated, GatesTyped, Tickets, Waiting, NoneOver, TakePermit, Admitted
  <2>2. Len(Order(ticket[r].kind)) \in Nat
    BY <2>1, OrderOf
  <2>3. n < Len(Order(ticket[r].kind)) /\ n + 1 \in 1..Len(Order(ticket[r].kind))
    BY <2>1, <2>2
  <2>4. QED
    BY <2>1, <2>3, OrderOf DEF NextGate
<1>2. /\ ticket'[r] = [ticket[r] EXCEPT !.held = n + 1]
      /\ \A q \in Readers \ {r} : ticket'[q] = ticket[q]
      /\ ticket' \in [Readers -> Tickets] /\ entry' = entry
  <2>1. /\ ticket' = [ticket EXCEPT ![r] = [ticket[r] EXCEPT !.held = n + 1]]
        /\ entry' = entry
    BY DEF TakePermit
  <2>2. ticket \in [Readers -> Tickets] /\ ticket[r] \in Tickets /\ n + 1 \in Nat
    BY <1>1 DEF Gated, GatesTyped
  <2>3. [ticket[r] EXCEPT !.held = n + 1] \in Tickets
    BY <2>2 DEF Tickets
  <2>4. QED
    BY <2>1, <2>2, <2>3
<1>3. /\ ticket'[r].kind = ticket[r].kind /\ ticket'[r].ids = ticket[r].ids
      /\ ticket'[r].held = n + 1
  BY <1>2 DEF Gated, GatesTyped, Tickets
<1>4. \A q \in Readers : \A g : Refers(q, g)' <=> Refers(q, g)
  BY <1>2, <1>3 DEF Refers
<1>5. GatesTyped' /\ Shared'
  <2>1. \A q \in Readers : ticket'[q].ids = ticket[q].ids
    BY <1>2, <1>3
  <2>2. QED
    BY <1>2, <1>4, <2>1 DEF Gated, GatesTyped, Shared
<1>6. NoneOver'
  <2>1. n + 1 <= Len(Order(ticket[r].kind))
    BY <1>1, OrderOf
  <2>2. QED
    BY <1>2, <1>3, <2>1 DEF Gated, NoneOver, Waiting
<1>7. EntriesCountTheirReads'
  <2>1. \A g \in Kept : Referrers(g)' = Referrers(g)
    BY <1>4 DEF Referrers
  <2>2. QED
    BY <1>2, <2>1 DEF Gated, EntriesCountTheirReads, Referrers
<1>8. PermitsWithinLimits'
  <2> SUFFICES ASSUME NEW g \in Gates PROVE Cardinality(Holders(g)') <= Limit[g]
    BY DEF PermitsWithinLimits, Holders
  <2>1. \A q \in Readers \ {r} : Holds(q, g)' <=> Holds(q, g)
    BY <1>2 DEF Holds
  <2>2. Cardinality(Holders(g)) <= Limit[g] /\ Limit[g] \in Nat
    BY LimitIs DEF Gated, PermitsWithinLimits, Holders
  <2>3. CASE g # top
    <3>1. Holds(r, g)' <=> Holds(r, g)
      <4>1. \A i \in 1..(n + 1) : i \in 1..n \/ i = n + 1
        BY <1>1
      <4>2. \A i \in 1..n : i \in 1..(n + 1)
        BY <1>1
      <4>3. QED
        BY <1>1, <1>3, <2>3, <4>1, <4>2 DEF Holds
    <3>2. Holders(g)' = Holders(g)
      BY <2>1, <3>1 DEF Holders
    <3>3. QED
      BY <2>2, <3>2
  <2>4. CASE g = top
    <3>1. \A q \in Readers : Holds(q, g) => ticket[q].ids[g] = ticket[r].ids[g]
      <4>1. Refers(r, g)
        BY <1>1, <2>4 DEF Refers, Waiting
      <4>2. ASSUME NEW q \in Readers, Holds(q, g) PROVE Refers(q, g)
        <5>1. ticket[q].kind \in Kinds /\ ticket[q].held \in Nat
              /\ ticket[q].held <= Len(Order(ticket[q].kind))
          BY <4>2 DEF Holds, Gated, GatesTyped, Tickets, NoneOver, Waiting
        <5>2. PICK i \in 1..ticket[q].held : Order(ticket[q].kind)[i] = g
          BY <4>2 DEF Holds
        <5>3. i \in 1..Len(Order(ticket[q].kind))
          BY <5>1, <5>2, OrderOf
        <5>4. QED
          BY <4>2, <5>1, <5>2, <5>3, OrderOf DEF Refers, Holds
      <4>3. QED
        BY <4>1, <4>2 DEF Gated, Shared
    <3>2. {q \in Readers : Holds(q, g) /\ ticket[q].ids[g] = ticket[r].ids[g]} = Holders(g)
      BY <3>1 DEF Holders
    <3>3. Cardinality(Holders(g)) < Limit[g]
      BY <2>4, <3>2 DEF TakePermit, Free
    <3>4. Holders(g)' \in SUBSET (Holders(g) \cup {r})
      BY <2>1 DEF Holders
    <3>5. /\ IsFiniteSet(Holders(g) \cup {r})
          /\ Cardinality(Holders(g) \cup {r}) <= Cardinality(Holders(g)) + 1
          /\ Cardinality(Holders(g) \cup {r}) \in Nat
      <4>1. IsFiniteSet(Holders(g)) /\ Cardinality(Holders(g)) \in Nat
        BY FiniteReaders
      <4> HIDE DEF top
      <4>2. QED
        BY <4>1, FS_AddElement
    <3>6. Cardinality(Holders(g)') <= Cardinality(Holders(g) \cup {r})
          /\ Cardinality(Holders(g)') \in Nat
      BY <3>4, <3>5, FS_Subset, FS_CardinalityType
    <3>7. QED
      BY <2>2, <3>3, <3>5, <3>6, FiniteReaders
  <2>5. QED
    BY <2>3, <2>4
<1>9. QED
  BY <1>2, <1>3, <1>5, <1>6, <1>7, <1>8 DEF Gated

(* Fewer permits, or none.                                                 *)
LEMMA FewerHolders ==
  ASSUME Gated, \A g \in Gates : \A r \in Readers : Holds(r, g)' => Holds(r, g)
  PROVE  PermitsWithinLimits'
<1> SUFFICES ASSUME NEW g \in Gates PROVE Cardinality(Holders(g)') <= Limit[g]
  BY DEF PermitsWithinLimits, Holders
<1>1. Holders(g)' \in SUBSET Holders(g)
  BY DEF Holders
<1>2. /\ Cardinality(Holders(g)') <= Cardinality(Holders(g))
      /\ Cardinality(Holders(g)') \in Nat
  BY <1>1, FiniteReaders, FS_Subset, FS_CardinalityType
<1>3. Cardinality(Holders(g)) <= Limit[g] /\ Limit[g] \in Nat
  BY LimitIs DEF Gated, PermitsWithinLimits, Holders
<1>4. QED
  BY <1>2, <1>3, FiniteReaders

LEMMA ReturnKeeps ==
  ASSUME Gated, NEW r \in Readers, Waiting(r), ReturnPermits(r)
  PROVE  /\ Gated' /\ ticket'[r].kind = ticket[r].kind
         /\ \A q \in Readers \ {r} : ticket'[q] = ticket[q]
<1>1. /\ ticket'[r] = [ticket[r] EXCEPT !.held = 0]
      /\ \A q \in Readers \ {r} : ticket'[q] = ticket[q]
      /\ ticket' \in [Readers -> Tickets] /\ entry' = entry
  BY DEF Gated, GatesTyped, ReturnPermits, Tickets
<1>2. /\ ticket'[r].kind = ticket[r].kind /\ ticket'[r].ids = ticket[r].ids
      /\ ticket'[r].held = 0
  BY <1>1 DEF Gated, GatesTyped, Tickets
<1>3. \A q \in Readers : \A g : Refers(q, g)' <=> Refers(q, g)
  BY <1>1, <1>2 DEF Refers
<1>4. GatesTyped' /\ Shared'
  <2>1. \A q \in Readers : ticket'[q].ids = ticket[q].ids
    BY <1>1, <1>2
  <2>2. QED
    BY <1>1, <1>3, <2>1 DEF Gated, GatesTyped, Shared
<1>5. NoneOver'
  <2>1. Waiting(r) => 0 <= Len(Order(ticket[r].kind))
    BY OrderOf DEF Gated, GatesTyped, Tickets, Waiting
  <2>2. QED
    BY <1>1, <1>2, <2>1 DEF Gated, NoneOver, Waiting
<1>6. EntriesCountTheirReads'
  <2>1. \A g \in Kept : Referrers(g)' = Referrers(g)
    BY <1>3 DEF Referrers
  <2>2. QED
    BY <1>1, <2>1 DEF Gated, EntriesCountTheirReads, Referrers
<1>7. PermitsWithinLimits'
  <2>1. \A g : ~Holds(r, g)'
    BY <1>2 DEF Holds
  <2>2. \A g : \A q \in Readers : Holds(q, g)' => Holds(q, g)
    BY <1>1, <2>1 DEF Holds
  <2>3. QED
    BY <2>2, FewerHolders
<1>8. QED
  BY <1>1, <1>2, <1>4, <1>5, <1>6, <1>7 DEF Gated

LEMMA DropKeeps ==
  ASSUME Gated, NEW r \in Readers, Waiting(r), DropReferences(r)
  PROVE  /\ Gated' /\ ~Waiting(r)'
         /\ \A q \in Readers \ {r} : ticket'[q] = ticket[q]
<1>1. NoTicket \in Tickets
  BY DEF NoTicket, Tickets
<1>2. /\ ticket'[r] = NoTicket
      /\ \A q \in Readers \ {r} : ticket'[q] = ticket[q]
      /\ ticket' \in [Readers -> Tickets]
  BY <1>1 DEF Gated, GatesTyped, DropReferences
<1>3. /\ ~Waiting(r)' /\ \A g : ~Refers(r, g)' /\ ~Holds(r, g)'
      /\ \A q \in Readers \ {r} : \A g : /\ Refers(q, g)' <=> Refers(q, g)
                                        /\ Holds(q, g)' <=> Holds(q, g)
  BY <1>2 DEF Waiting, Refers, Holds, NoTicket
<1>4. \A g \in Kept : entry'[g] = IF Refers(r, g) THEN Dropped(g) ELSE entry[g]
  <2>1. \A g \in Kept : Refers(r, g) => entry[g].id = ticket[r].ids[g]
    BY DEF Gated, Shared, Gates
  <2>2. QED
    BY <2>1 DEF DropReferences
<1>5. ASSUME NEW g \in Kept
      PROVE  /\ entry'[g] \in [id : Nat, users : Nat] /\ entry'[g].id = entry[g].id
             /\ entry'[g].users = Cardinality(Referrers(g)')
  <2>1. entry[g] \in [id : Nat, users : Nat] /\ entry[g].users = Cardinality(Referrers(g))
    BY DEF Gated, GatesTyped, EntriesCountTheirReads, Referrers
  <2>0. ~Refers(r, g)' /\ \A q \in Readers \ {r} : Refers(q, g)' <=> Refers(q, g)
    BY <1>2 DEF Refers, NoTicket
  <2>2. CASE Refers(r, g)
    <3>1. Referrers(g)' = Referrers(g) \ {r} /\ r \in Referrers(g)
      BY <2>0, <2>2 DEF Referrers
    <3>2. IsFiniteSet(Referrers(g)) /\ Cardinality(Referrers(g)') = Cardinality(Referrers(g)) - 1
      BY <3>1, FiniteReaders, FS_RemoveElement
    <3>3. Cardinality(Referrers(g)') \in Nat
      BY <3>1, <3>2, FS_RemoveElement, FS_CardinalityType
    <3>4. entry'[g] = [entry[g] EXCEPT !.users = entry[g].users - 1]
      BY <1>4, <2>2 DEF Dropped
    <3>5. QED
      BY <2>1, <3>2, <3>3, <3>4
  <2>3. CASE ~Refers(r, g)
    <3>1. Referrers(g)' = Referrers(g)
      BY <2>0, <2>3 DEF Referrers
    <3>2. QED
      BY <1>4, <2>1, <2>3, <3>1
  <2>4. QED
    BY <2>2, <2>3
<1>6. GatesTyped'
  <2>1. entry' = [g \in Kept |-> entry'[g]]
    BY DEF DropReferences
  <2>2. QED
    BY <1>2, <1>5, <2>1 DEF GatesTyped
<1>7. Shared'
  <2> SUFFICES ASSUME NEW q \in Readers, NEW g \in Gates, Refers(q, g)'
               PROVE  ticket'[q].ids[g] = IF g \in Kept THEN entry'[g].id ELSE 0
    BY DEF Shared
  <2>1. q # r
    BY <1>3
  <2>2. Refers(q, g) /\ ticket'[q] = ticket[q]
    BY <1>2, <2>1 DEF Refers
  <2>3. QED
    BY <1>5, <2>2 DEF Gated, Shared
<1>8. NoneOver'
  BY <1>2, <1>3 DEF Gated, NoneOver, Waiting
<1>9. EntriesCountTheirReads'
  BY <1>5 DEF EntriesCountTheirReads, Referrers
<1>10. PermitsWithinLimits'
  <2>1. ASSUME NEW g, NEW q \in Readers PROVE Holds(q, g)' => Holds(q, g)
    BY <1>2 DEF Holds, NoTicket
  <2>2. QED
    BY <2>1, FewerHolders
<1>11. QED
  BY <1>2, <1>3, <1>6, <1>7, <1>8, <1>9, <1>10 DEF Gated

LEMMA GatesStart == GatesInit => Gated
<1> SUFFICES ASSUME GatesInit PROVE Gated
  OBVIOUS
<1>1. NoTicket \in Tickets /\ NoTicket.kind = "none"
  BY DEF NoTicket, Tickets
<1>2. GatesTyped /\ \A r \in Readers : ticket[r].kind = "none"
  BY <1>1 DEF GatesInit, GatesTyped
<1>3. \A r \in Readers : \A g : ~Refers(r, g) /\ ~Holds(r, g) /\ ~Waiting(r)
  BY <1>2 DEF Refers, Holds, Waiting
<1>4. \A g : Referrers(g) = {} /\ Holders(g) = {}
  BY <1>3 DEF Referrers, Holders
<1>5. Cardinality({}) = 0
  BY FS_EmptySet
<1>6. EntriesCountTheirReads
  <2>1. \A g \in Kept : entry[g].users = 0
    BY DEF GatesInit
  <2>2. QED
    BY <1>4, <1>5, <2>1 DEF EntriesCountTheirReads, Referrers
<1>7. PermitsWithinLimits
  <2> SUFFICES ASSUME NEW g \in Gates PROVE Cardinality(Holders(g)) <= Limit[g]
    BY DEF PermitsWithinLimits, Holders
  <2>1. QED
    BY <1>4, <1>5, LimitIs
<1>8. QED
  BY <1>2, <1>3, <1>6, <1>7 DEF Gated, Shared, NoneOver

-----------------------------------------------------------------------------
(* What a read has seen.                                                   *)

WriterStages == {"idle", "fenced", "delete", "verify", "claimed", "submit", "landed"}
Nobody       == CHOOSE s \in Sources : TRUE
Writes       == [pc : WriterStages, src : Sources \cup {Nobody}, gen : Nat,
                 base : Nat, corpus : Nat, was : Nat]
WorldTyped   == /\ ReadsTypeOK /\ dom.ctl > 0
                /\ write \in [Writers -> Writes]
                /\ \A w \in Writers : write[w].pc # "idle" => write[w].src \in Sources

Stages == {"idle", "admission", "resolve", "freeze", "call", "map", "reauthorize",
           "recheck", "return", "drop", "done"}
Reads  == [kind : Kinds \cup {"none"}, pc : Stages, ctl : Nat, desired : Nat, applied : Nat,
           scope : [Sources -> Nat], found : SUBSET Sources, remote : Nat,
           answer : {"none", "answered", "refused"},
           lapsed : SUBSET (Sources \cup {"domain"}), hidden : SUBSET Sources]

(* Evidence has its gates until they are dropped, a graph read only around *)
(* the call.                                                               *)
InAdmission(m) ==
  \/ m.pc \in {"admission", "call", "return", "drop"}
  \/ m.kind = "evidence" /\ m.pc \in {"resolve", "freeze", "map", "reauthorize", "recheck"}

(* Where a read is, the ticket it has and the answer it may already have.  *)
Fits(m, holding) ==
  /\ holding = IF InAdmission(m) THEN m.kind ELSE "none"
  /\ m.pc = "idle" <=> m.kind = "none"
  /\ m.pc \in {"freeze", "map", "recheck"} => m.kind = "evidence"
  /\ m.pc \notin {"return", "drop", "done"} => m.answer = "none"

(* What has overtaken a read has moved a generation it remembers.          *)
Seen(m) ==
  /\ m.ctl <= dom.ctl /\ ("domain" \in m.lapsed => m.ctl < dom.ctl)
  /\ \A s \in Sources : /\ m.scope[s] <= source[s].gen
                        /\ s \in m.lapsed /\ m.scope[s] # 0 => m.scope[s] < source[s].gen
  /\ m.kind = "evidence" /\ m.pc \in {"reauthorize", "recheck"} =>
       \A s \in m.found : m.scope[s] # 0

Sound(r) == read[r] \in Reads /\ Fits(read[r], ticket[r].kind) /\ Seen(read[r])
ReadsInv == /\ Gated /\ WorldTyped
            /\ read \in [Readers -> Reads]
            /\ \A r \in Readers : Sound(r)

(* What one step may do to the answer of one read.                         *)
OneLifeOf(r) ==
  /\ read[r].pc = "reauthorize" /\ read'[r].pc = "recheck" =>
       "domain" \notin read[r].lapsed
  /\ read[r].pc = "recheck" /\ read'[r].answer = "answered" =>
       read[r].found \cap read[r].lapsed = {}
  /\ IsGraph(r) /\ read[r].pc = "reauthorize" /\ read'[r].answer = "answered" =>
       "domain" \notin read[r].lapsed

LEMMA NoReadSound ==
  ASSUME WorldTyped
  PROVE  NoRead \in Reads /\ Fits(NoRead, "none") /\ Seen(NoRead)
<1>1. dom.ctl \in Nat /\ \A s \in Sources : source[s].gen \in Nat
  BY DEF WorldTyped, ReadsTypeOK
<1>2. NoRead \in Reads
  BY DEF NoRead, Reads, Stages
<1>3. Fits(NoRead, "none")
  BY DEF NoRead, Fits, InAdmission
<1>4. Seen(NoRead)
  BY <1>1 DEF NoRead, Seen, WorldTyped
<1>5. QED
  BY <1>2, <1>3, <1>4

LEMMA ReadsStart == ReadsInit => ReadsInv
<1> SUFFICES ASSUME ReadsInit PROVE ReadsInv
  OBVIOUS
<1>1. Gated /\ \A r \in Readers : ticket[r].kind = "none"
  BY GatesStart DEF ReadsInit, GatesInit, NoTicket
<1>2. WorldTyped
  <2>1. ReadsTypeOK /\ dom.ctl > 0
    BY ReadsConstants DEF ReadsInit, ReadsTypeOK, Phases
  <2>2. NoWrite \in Writes /\ NoWrite.pc = "idle"
    BY DEF NoWrite, Writes, WriterStages, Nobody
  <2>3. QED
    BY <2>1, <2>2 DEF ReadsInit, WorldTyped
<1>3. QED
  BY <1>1, <1>2, NoReadSound DEF ReadsInit, ReadsInv, Sound

LEMMA GatesRest ==
  ASSUME Gated, UNCHANGED gateVars
  PROVE  Gated'
<1>1. entry' = entry /\ ticket' = ticket
  BY DEF gateVars
<1>2. \A r \in Readers : \A g : Refers(r, g)' <=> Refers(r, g)
  BY <1>1 DEF Refers
<1>3. \A r \in Readers : \A g : Holds(r, g)' <=> Holds(r, g)
  BY <1>1 DEF Holds
<1>4. \A g : Referrers(g)' = Referrers(g) /\ Holders(g)' = Holders(g)
  BY <1>2, <1>3 DEF Referrers, Holders
<1>5. GatesTyped' /\ NoneOver' /\ Shared'
  BY <1>1, <1>2 DEF Gated, GatesTyped, NoneOver, Waiting, Shared
<1>6. EntriesCountTheirReads' /\ PermitsWithinLimits'
  BY <1>1, <1>4 DEF Gated, EntriesCountTheirReads, PermitsWithinLimits, Referrers, Holders
<1>7. QED
  BY <1>5, <1>6 DEF Gated

(* What every step of a read comes to: a sound record, and gates in order. *)
Turned(r, m) ==
  /\ m \in Reads /\ Fits(m, ticket'[r].kind) /\ Seen(m)
  /\ Gated' /\ \A q \in Readers \ {r} : ticket'[q] = ticket[q]

(* The record of a read, and what the invariant says of it.                *)
LEMMA OfRead ==
  ASSUME ReadsInv, NEW r \in Readers
  PROVE  /\ read[r] \in Reads /\ Fits(read[r], ticket[r].kind) /\ Seen(read[r])
         /\ Gated /\ WorldTyped
         /\ Waiting(r) <=> InAdmission(read[r])
         /\ read[r].kind \in Kinds \cup {"none"} /\ (read[r].pc # "idle" => read[r].kind \in Kinds)
<1>1. read[r] \in Reads /\ Fits(read[r], ticket[r].kind) /\ Seen(read[r]) /\ Gated /\ WorldTyped
  BY DEF ReadsInv, Sound
<1>2. read[r].kind \in Kinds \cup {"none"} /\ (read[r].pc # "idle" => read[r].kind \in Kinds)
  BY <1>1 DEF Reads, Fits
<1>3. InAdmission(read[r]) => read[r].kind # "none"
  BY <1>1 DEF InAdmission, Fits
<1>4. QED
  BY <1>1, <1>2, <1>3 DEF Waiting, Fits

LEMMA RefuseTurns ==
  ASSUME ReadsInv, NEW r \in Readers, UNCHANGED gateVars, InAdmission(read[r])
  PROVE  Turned(r, [read[r] EXCEPT !.pc = "return", !.answer = "refused"])
<1> DEFINE old == read[r]
           m   == [old EXCEPT !.pc = "return", !.answer = "refused"]
<1>1. old \in Reads /\ Fits(old, ticket[r].kind) /\ Seen(old) /\ Gated /\ old.kind # "none"
  BY OfRead DEF InAdmission, Fits
<1>2. /\ m \in Reads /\ m.pc = "return" /\ m.answer = "refused"
      /\ m.kind = old.kind /\ m.ctl = old.ctl /\ m.lapsed = old.lapsed /\ m.scope = old.scope
      /\ m.found = old.found
  BY <1>1 DEF Reads, Stages
<1>3. ticket' = ticket
  BY DEF gateVars
<1>4. Fits(m, ticket'[r].kind)
  <2>1. InAdmission(m)
    BY <1>2 DEF InAdmission
  <2> HIDE DEF m
  <2>2. QED
    BY <1>1, <1>2, <1>3, <2>1 DEF Fits
<1>5. Seen(m)
  <2> HIDE DEF m
  <2>1. QED
    BY <1>1, <1>2 DEF Seen
<1>6. QED
  BY <1>1, <1>2, <1>3, <1>4, <1>5, GatesRest DEF Turned

(* A read that only moves on.                                              *)
LEMMA ProceedTurns ==
  ASSUME ReadsInv, NEW r \in Readers, NEW stage \in Stages, stage # "idle",
         read[r].pc # "idle",
         Gated', \A q \in Readers \ {r} : ticket'[q] = ticket[q],
         ticket'[r].kind = IF InAdmission([read[r] EXCEPT !.pc = stage])
                           THEN read[r].kind ELSE "none",
         stage \in {"freeze", "map", "recheck"} => read[r].kind = "evidence",
         stage \notin {"return", "drop", "done"} => read[r].answer = "none",
         read[r].kind = "evidence" => read[r].pc \in {"reauthorize", "recheck"}
                                      \/ stage \notin {"reauthorize", "recheck"}
  PROVE  Turned(r, [read[r] EXCEPT !.pc = stage])
<1> DEFINE old == read[r]
           m   == [old EXCEPT !.pc = stage]
<1>1. old \in Reads /\ Fits(old, ticket[r].kind) /\ Seen(old) /\ old.kind # "none"
  BY OfRead DEF Fits
<1>2. /\ m \in Reads /\ m.pc = stage /\ m.answer = old.answer
      /\ m.kind = old.kind /\ m.ctl = old.ctl /\ m.lapsed = old.lapsed /\ m.scope = old.scope
      /\ m.found = old.found
  BY <1>1 DEF Reads
<1>3. Fits(m, ticket'[r].kind)
  <2>1. ticket'[r].kind = IF InAdmission(m) THEN m.kind ELSE "none"
    BY <1>2
  <2> HIDE DEF m
  <2>2. QED
    BY <1>1, <1>2, <2>1 DEF Fits
<1>4. Seen(m)
  <2> HIDE DEF m
  <2>1. QED
    BY <1>1, <1>2 DEF Seen
<1>5. QED
  BY <1>2, <1>3, <1>4 DEF Turned

Own(r) == /\ \E m \in Reads : Becomes(r, m) /\ Turned(r, m)
          /\ Unmoved /\ OneLifeOf(r)

LEMMA FarFromTheEnd ==
  ASSUME NEW r, read[r].pc \notin {"reauthorize", "recheck"}
  PROVE  OneLifeOf(r)
BY DEF OneLifeOf

LEMMA OwnRefusal ==
  ASSUME ReadsInv, NEW r \in Readers, UNCHANGED gateVars, InAdmission(read[r]), Refuse(r), Unmoved
  PROVE  Own(r)
<1> DEFINE m == [read[r] EXCEPT !.pc = "return", !.answer = "refused"]
<1>1. Becomes(r, m) /\ Turned(r, m)
  BY RefuseTurns DEF Refuse
<1>2. m \in Reads /\ m.pc = "return" /\ m.answer = "refused"
  BY OfRead DEF Reads, Stages
<1>3. read'[r] = m
  BY <1>1 DEF Becomes, ReadsInv
<1>4. OneLifeOf(r)
  BY <1>2, <1>3 DEF OneLifeOf
<1>5. QED
  BY <1>1, <1>2, <1>4 DEF Own

LEMMA OwnBeginning ==
  ASSUME ReadsInv, NEW r \in Readers, BeginRead(r)
  PROVE  Own(r)
<1>1. read[r].pc = "idle" /\ Unmoved
  BY DEF BeginRead, BeginEvidence, BeginSnapshot, BeginLabels, BeginGraph
<1>2. ~Waiting(r) /\ WorldTyped /\ Gated /\ OneLifeOf(r) /\ ticket[r].kind = "none"
  BY <1>1, OfRead, FarFromTheEnd DEF InAdmission, Fits, Waiting
<1>3. NoRead \in Reads /\ Seen(NoRead)
  BY <1>2, NoReadSound
<1>4. ASSUME NEW kind \in Kinds, NEW stage \in {"admission", "resolve"}
      PROVE  LET m == [NoRead EXCEPT !.kind = kind, !.pc = stage] IN
             m \in Reads /\ m.kind = kind /\ m.pc = stage /\ m.answer = "none" /\ Seen(m)
  <2> DEFINE m == [NoRead EXCEPT !.kind = kind, !.pc = stage]
  <2>1. /\ m \in Reads /\ m.kind = kind /\ m.pc = stage /\ m.answer = "none"
        /\ m.ctl = NoRead.ctl /\ m.lapsed = NoRead.lapsed /\ m.scope = NoRead.scope
    BY <1>3 DEF Reads, Stages, NoRead
  <2> HIDE DEF m
  <2>2. Seen(m)
    BY <1>3, <2>1 DEF Seen
  <2>3. QED
    BY <2>1, <2>2 DEF m
<1>5. CASE BeginEvidence(r)
  <2> DEFINE m == [NoRead EXCEPT !.kind = "evidence", !.pc = "admission"]
  <2>1. Becomes(r, m) /\ Arrive(r, "evidence")
    BY <1>5 DEF BeginEvidence
  <2>2. Gated' /\ ticket'[r].kind = "evidence" /\ \A q \in Readers \ {r} : ticket'[q] = ticket[q]
    BY <1>2, <2>1, ArriveKeeps DEF Kinds
  <2>3. /\ m \in Reads /\ m.kind = "evidence" /\ m.pc = "admission" /\ m.answer = "none"
        /\ Seen(m)
    BY <1>4 DEF Kinds
  <2> HIDE DEF m
  <2>4. Fits(m, "evidence")
    BY <2>3 DEF Fits, InAdmission
  <2>5. QED
    BY <1>1, <1>2, <2>1, <2>2, <2>3, <2>4 DEF Own, Turned
<1>6. ASSUME NEW kind \in {"snapshot", "labels"}, BeginGraph(r, kind)
      PROVE  Own(r)
  <2> DEFINE m == [NoRead EXCEPT !.kind = kind, !.pc = "resolve"]
  <2>1. Becomes(r, m) /\ UNCHANGED gateVars
    BY <1>6 DEF BeginGraph
  <2>2. Gated' /\ ticket' = ticket
    BY <1>2, <2>1, GatesRest DEF gateVars
  <2>3. m \in Reads /\ m.kind = kind /\ m.pc = "resolve" /\ m.answer = "none" /\ Seen(m)
    BY <1>4 DEF Kinds
  <2> HIDE DEF m
  <2>4. Fits(m, "none")
    BY <1>6, <2>3 DEF Fits, InAdmission
  <2>5. QED
    BY <1>1, <1>2, <2>1, <2>2, <2>3, <2>4 DEF Own, Turned
<1>7. QED
  BY <1>5, <1>6 DEF BeginRead, BeginSnapshot, BeginLabels

LEMMA OwnAdmission ==
  ASSUME ReadsInv, NEW r \in Readers, Admit(r)
  PROVE  Own(r)
<1> DEFINE old   == read[r]
           stage == IF IsGraph(r) THEN "call" ELSE "resolve"
<1>1. old.pc = "admission" /\ TakePermit(r) /\ Unmoved
  BY DEF Admit
<1>2. old \in Reads /\ Fits(old, ticket[r].kind) /\ Seen(old) /\ Gated /\ Waiting(r)
  BY <1>1, OfRead DEF InAdmission
<1>3. /\ Gated' /\ ticket'[r].kind = ticket[r].kind
      /\ \A q \in Readers \ {r} : ticket'[q] = ticket[q]
  BY <1>1, <1>2, TakeKeeps
<1>4. OneLifeOf(r) /\ ticket[r].kind = old.kind /\ old.answer = "none"
  BY <1>1, <1>2, FarFromTheEnd DEF Fits, InAdmission
<1>5. CASE UNCHANGED read
  <2>1. Becomes(r, old)
    BY <1>5 DEF Becomes, ReadsInv
  <2>2. QED
    BY <1>1, <1>2, <1>3, <1>4, <2>1 DEF Own, Turned
<1>6. CASE Proceed(r, stage)
  <2> DEFINE m == [old EXCEPT !.pc = stage]
  <2>1. m.pc = stage /\ m.kind = old.kind /\ m \in Reads /\ stage \in Stages
    BY <1>2 DEF Reads, Stages
  <2>2. InAdmission(m)
    BY <2>1 DEF InAdmission, IsGraph
  <2>3. Turned(r, m)
    BY <1>1, <1>3, <1>4, <2>1, <2>2, ProceedTurns
  <2>4. QED
    BY <1>1, <1>4, <1>6, <2>1, <2>3 DEF Own, Proceed
<1>7. QED
  BY <1>5, <1>6 DEF Admit

LEMMA OwnSaturation ==
  ASSUME ReadsInv, NEW r \in Readers, Saturated(r)
  PROVE  Own(r)
BY OwnRefusal DEF Saturated, InAdmission

LEMMA ResolvedSeen ==
  ASSUME ReadsInv, NEW r \in Readers, NEW stage \in Stages, read[r].pc = "resolve"
  PROVE  LET m == Resolved(r, stage) IN
         /\ m \in Reads /\ m.pc = stage /\ m.kind = read[r].kind /\ m.answer = read[r].answer
         /\ stage \notin {"reauthorize", "recheck"} => Seen(m)
<1> DEFINE old == read[r]
           m   == Resolved(r, stage)
<1>1. old \in Reads /\ Seen(old) /\ WorldTyped
  BY OfRead
<1>2. /\ dom.ctl \in Nat /\ dom.desired \in Nat /\ dom.applied \in Nat
      /\ \A s \in Sources : source[s].gen \in Nat
  BY <1>1 DEF WorldTyped, ReadsTypeOK
<1>3. PendingDeletes \in SUBSET Sources
  BY <1>1 DEF PendingDeletes, WorldTyped
<1>4. /\ m \in Reads /\ m.pc = stage /\ m.kind = old.kind /\ m.answer = old.answer
      /\ m.ctl = dom.ctl /\ m.lapsed = {} /\ m.scope = old.scope
  BY <1>1, <1>2, <1>3 DEF Resolved, Reads
<1> HIDE DEF m
<1>5. stage \notin {"reauthorize", "recheck"} => Seen(m)
  BY <1>1, <1>2, <1>4 DEF Seen
<1>6. QED
  BY <1>4, <1>5 DEF m

LEMMA OwnResolution ==
  ASSUME ReadsInv, NEW r \in Readers, Resolve(r)
  PROVE  Own(r)
<1> DEFINE old == read[r]
<1>1. old.pc = "resolve" /\ Unmoved
  BY DEF Resolve
<1>2. old \in Reads /\ Fits(old, ticket[r].kind) /\ Gated /\ OneLifeOf(r) /\ old.answer = "none"
      /\ Seen(old) /\ old.kind \in Kinds
  BY <1>1, OfRead, FarFromTheEnd DEF Fits
<1>3. CASE IsGraph(r)
  <2>1. ~Waiting(r) /\ old.kind # "evidence"
    BY <1>1, <1>3, OfRead DEF InAdmission, IsGraph
  <2>2. CASE Becomes(r, Resolved(r, "admission")) /\ Arrive(r, old.kind)
    <3> DEFINE m == Resolved(r, "admission")
    <3>1. /\ Gated' /\ ticket'[r].kind = old.kind
          /\ \A q \in Readers \ {r} : ticket'[q] = ticket[q]
      BY <1>2, <2>1, <2>2, ArriveKeeps
    <3>2. /\ m \in Reads /\ m.pc = "admission" /\ m.kind = old.kind /\ m.answer = "none"
          /\ Seen(m)
      BY <1>1, <1>2, ResolvedSeen DEF Stages
    <3> HIDE DEF m
    <3>3. Fits(m, old.kind)
      BY <1>2, <3>2 DEF Fits, InAdmission, Kinds
    <3>4. Becomes(r, m)
      BY <2>2 DEF m
    <3>5. QED
      BY <1>1, <1>2, <3>1, <3>2, <3>3, <3>4 DEF Own, Turned
  <2>3. CASE /\ Becomes(r, [old EXCEPT !.pc = "done", !.answer = "refused"])
             /\ UNCHANGED gateVars
    <3> DEFINE m == [old EXCEPT !.pc = "done", !.answer = "refused"]
    <3>1. Gated' /\ ticket' = ticket
      BY <1>2, <2>3, GatesRest DEF gateVars
    <3>2. /\ m \in Reads /\ m.pc = "done" /\ m.kind = old.kind /\ m.ctl = old.ctl
          /\ m.lapsed = old.lapsed /\ m.scope = old.scope
      BY <1>2 DEF Reads, Stages
    <3>3. ticket[r].kind = "none"
      BY <2>1 DEF Waiting
    <3> HIDE DEF m
    <3>4. Fits(m, "none")
      BY <1>2, <2>1, <3>2 DEF Fits, InAdmission, Kinds
    <3>5. Seen(m)
      BY <1>2, <3>2 DEF Seen
    <3>6. Becomes(r, m)
      BY <2>3 DEF m
    <3>7. QED
      BY <1>1, <1>2, <3>1, <3>2, <3>3, <3>4, <3>5, <3>6 DEF Own, Turned
  <2>4. QED
    BY <1>3, <2>2, <2>3 DEF Resolve
<1>4. CASE ~IsGraph(r)
  <2>1. old.kind = "evidence" /\ UNCHANGED gateVars /\ InAdmission(old)
    BY <1>1, <1>4 DEF IsGraph, InAdmission, Resolve
  <2>2. CASE Refuse(r)
    BY <1>1, <2>1, <2>2, OwnRefusal
  <2>3. CASE Becomes(r, Resolved(r, "freeze"))
    <3> DEFINE m == Resolved(r, "freeze")
    <3>1. Gated' /\ ticket' = ticket /\ ticket[r].kind = "evidence"
      BY <1>2, <2>1, GatesRest DEF gateVars, Fits
    <3>2. /\ m \in Reads /\ m.pc = "freeze" /\ m.kind = old.kind /\ m.answer = "none"
          /\ Seen(m)
      BY <1>1, <1>2, ResolvedSeen DEF Stages
    <3> HIDE DEF m
    <3>3. Fits(m, "evidence")
      BY <2>1, <3>2 DEF Fits, InAdmission
    <3>4. Becomes(r, m)
      BY <2>3 DEF m
    <3>5. QED
      BY <1>1, <1>2, <3>1, <3>2, <3>3, <3>4 DEF Own, Turned
  <2>4. QED
    BY <1>4, <2>2, <2>3 DEF Resolve
<1>5. QED
  BY <1>3, <1>4

LEMMA IdentityNat ==
  ASSUME WorldTyped, NEW s \in Sources
  PROVE  /\ Identity(s) \in Nat /\ source[s].gen \in Nat
         /\ Identity(s) <= source[s].gen
         /\ Identity(s) # 0 => Identity(s) = source[s].gen
BY DEF WorldTyped, ReadsTypeOK, Identity

LEMMA OwnFreezing ==
  ASSUME ReadsInv, NEW r \in Readers, Freeze(r)
  PROVE  Own(r)
<1> DEFINE old   == read[r]
           scope == [s \in Sources |-> Identity(s)]
           m     == [old EXCEPT !.pc = "call", !.scope = scope, !.lapsed = old.lapsed \ Sources]
<1>1. old.pc = "freeze" /\ Unmoved /\ UNCHANGED gateVars
  BY DEF Freeze
<1>2. /\ old \in Reads /\ Fits(old, ticket[r].kind) /\ Gated /\ OneLifeOf(r) /\ Seen(old)
      /\ WorldTyped
  BY <1>1, OfRead, FarFromTheEnd
<1>3. old.kind = "evidence" /\ old.answer = "none" /\ ticket[r].kind = "evidence" /\ InAdmission(old)
  BY <1>1, <1>2 DEF Fits, InAdmission
<1>4. CASE Refuse(r)
  BY <1>1, <1>3, <1>4, OwnRefusal
<1>5. CASE Becomes(r, m)
  <2>1. scope \in [Sources -> Nat]
    BY <1>2, IdentityNat
  <2>2. /\ m \in Reads /\ m.pc = "call" /\ m.kind = "evidence" /\ m.answer = "none"
        /\ m.ctl = old.ctl /\ m.lapsed = old.lapsed \ Sources
        /\ \A s \in Sources : m.scope[s] = Identity(s)
    <3>1. m \in Reads /\ m.scope = scope
      BY <1>2, <2>1 DEF Reads, Stages
    <3>2. /\ m.pc = "call" /\ m.kind = "evidence" /\ m.answer = "none"
          /\ m.ctl = old.ctl /\ m.lapsed = old.lapsed \ Sources
      BY <1>2, <1>3 DEF Reads
    <3>3. QED
      BY <3>1, <3>2
  <2>3. Gated' /\ ticket' = ticket
    BY <1>1, <1>2, GatesRest DEF gateVars
  <2> HIDE DEF m
  <2>4. Fits(m, "evidence")
    BY <2>2 DEF Fits, InAdmission
  <2>5. Seen(m)
    <3>1. m.ctl <= dom.ctl /\ ("domain" \in m.lapsed => m.ctl < dom.ctl)
      BY <1>2, <2>2 DEF Seen
    <3>2. \A s \in Sources : m.scope[s] <= source[s].gen /\ s \notin m.lapsed
      BY <1>2, <2>2, IdentityNat
    <3>3. QED
      BY <2>2, <3>1, <3>2 DEF Seen
  <2>6. QED
    BY <1>1, <1>2, <1>3, <1>5, <2>2, <2>3, <2>4, <2>5 DEF Own, Turned
<1>6. QED
  BY <1>4, <1>5 DEF Freeze

LEMMA OwnRetrieval ==
  ASSUME ReadsInv, NEW r \in Readers, Retrieve(r)
  PROVE  Own(r)
<1> DEFINE old == read[r]
<1>1. old.pc = "call" /\ old.kind = "evidence" /\ Unmoved /\ UNCHANGED gateVars /\ InAdmission(old)
  BY DEF Retrieve, IsGraph, InAdmission
<1>2. /\ old \in Reads /\ Fits(old, ticket[r].kind) /\ Gated /\ OneLifeOf(r) /\ Seen(old)
      /\ WorldTyped
  BY <1>1, OfRead, FarFromTheEnd
<1>3. CASE Refuse(r)
  BY <1>1, <1>3, OwnRefusal
<1>4. ASSUME NEW hits \in Candidates, Becomes(r, [old EXCEPT !.pc = "map", !.found = hits])
      PROVE  Own(r)
  <2> DEFINE m == [old EXCEPT !.pc = "map", !.found = hits]
  <2>1. hits \in SUBSET Sources
    BY <1>2 DEF Candidates, WorldTyped, ReadsTypeOK
  <2>2. /\ m \in Reads /\ m.pc = "map" /\ m.kind = old.kind /\ m.answer = old.answer
        /\ m.ctl = old.ctl /\ m.lapsed = old.lapsed /\ m.scope = old.scope
    BY <1>2, <2>1 DEF Reads, Stages
  <2>3. Gated' /\ ticket' = ticket
    BY <1>1, <1>2, GatesRest DEF gateVars
  <2>4. Becomes(r, m)
    BY <1>4
  <2> HIDE DEF m
  <2>5. Fits(m, ticket[r].kind)
    BY <1>1, <1>2, <2>2 DEF Fits, InAdmission
  <2>6. Seen(m)
    BY <1>2, <2>2 DEF Seen
  <2>7. QED
    BY <1>1, <1>2, <2>2, <2>3, <2>4, <2>5, <2>6 DEF Own, Turned
<1>5. QED
  BY <1>3, <1>4 DEF Retrieve

LEMMA OwnGraphCall ==
  ASSUME ReadsInv, NEW r \in Readers, CallGraph(r)
  PROVE  Own(r)
<1> DEFINE old   == read[r]
           graph == IF old.kind = "snapshot" THEN GraphSnapshot ELSE GraphLabels
           m     == [old EXCEPT !.pc = "return", !.found = graph.nodes, !.remote = graph.gen]
<1>1. old.pc = "call" /\ Unmoved /\ UNCHANGED gateVars /\ InAdmission(old)
  BY DEF CallGraph, InAdmission
<1>2. /\ old \in Reads /\ Fits(old, ticket[r].kind) /\ Gated /\ OneLifeOf(r) /\ Seen(old)
      /\ WorldTyped
  BY <1>1, OfRead, FarFromTheEnd
<1>3. CASE Refuse(r)
  BY <1>1, <1>3, OwnRefusal
<1>4. CASE Becomes(r, m)
  <2>1. graph.nodes \in SUBSET Sources /\ graph.gen \in Nat
    BY <1>2 DEF GraphSnapshot, GraphLabels, WorldTyped, ReadsTypeOK
  <2>2. /\ m \in Reads /\ m.pc = "return" /\ m.kind = old.kind /\ m.answer = old.answer
        /\ m.ctl = old.ctl /\ m.lapsed = old.lapsed /\ m.scope = old.scope
    <3> HIDE DEF graph
    <3>1. QED
      BY <1>2, <2>1 DEF Reads, Stages
  <2>3. Gated' /\ ticket' = ticket
    BY <1>1, <1>2, GatesRest DEF gateVars
  <2> HIDE DEF m
  <2>4. Fits(m, ticket[r].kind)
    BY <1>1, <1>2, <2>2 DEF Fits, InAdmission
  <2>5. Seen(m)
    BY <1>2, <2>2 DEF Seen
  <2>6. QED
    BY <1>1, <1>2, <1>4, <2>2, <2>3, <2>4, <2>5 DEF Own, Turned
<1>5. QED
  BY <1>3, <1>4 DEF CallGraph

LEMMA OwnMapping ==
  ASSUME ReadsInv, NEW r \in Readers, Map(r)
  PROVE  Own(r)
<1> DEFINE old     == read[r]
           current == {s \in Sources : SameControl(r) /\ old.scope[s] # 0
                                       /\ Identity(s) = old.scope[s]}
           m       == [old EXCEPT !.pc = "reauthorize", !.found = old.found \cap current]
<1>1. old.pc = "map" /\ Unmoved /\ UNCHANGED gateVars
  BY DEF Map
<1>2. /\ old \in Reads /\ Fits(old, ticket[r].kind) /\ Gated /\ OneLifeOf(r) /\ Seen(old)
  BY <1>1, OfRead, FarFromTheEnd
<1>3. old.kind = "evidence" /\ InAdmission(old)
  BY <1>1, <1>2 DEF Fits, InAdmission
<1>4. CASE Refuse(r)
  BY <1>1, <1>3, <1>4, OwnRefusal
<1>5. CASE Becomes(r, m)
  <2>1. /\ m \in Reads /\ m.pc = "reauthorize" /\ m.kind = old.kind /\ m.answer = old.answer
        /\ m.ctl = old.ctl /\ m.lapsed = old.lapsed /\ m.scope = old.scope
        /\ m.found = old.found \cap current
    <3>1. old.found \cap current \in SUBSET Sources
      OBVIOUS
    <3> HIDE DEF current
    <3>2. QED
      BY <1>2, <3>1 DEF Reads, Stages
  <2>2. \A s \in m.found : m.scope[s] # 0
    BY <2>1
  <2>3. Gated' /\ ticket' = ticket
    BY <1>1, <1>2, GatesRest DEF gateVars
  <2> HIDE DEF m
  <2>4. Fits(m, ticket[r].kind)
    BY <1>1, <1>2, <1>3, <2>1 DEF Fits, InAdmission
  <2>5. Seen(m)
    BY <1>2, <2>1, <2>2 DEF Seen
  <2>6. QED
    BY <1>1, <1>2, <1>5, <2>1, <2>3, <2>4, <2>5 DEF Own, Turned
<1>6. QED
  BY <1>4, <1>5 DEF Map

(* Evidence passes its first recheck only if the domain kept its control   *)
(* generation, which a stop or a start would have moved.                   *)
LEMMA OwnFirstRecheck ==
  ASSUME ReadsInv, NEW r \in Readers, ReauthorizeDomain(r)
  PROVE  Own(r)
<1> DEFINE old == read[r]
           m   == [old EXCEPT !.pc = "recheck"]
<1>1. /\ old.pc = "reauthorize" /\ old.kind = "evidence" /\ Unmoved /\ UNCHANGED gateVars
      /\ InAdmission(old)
  BY DEF ReauthorizeDomain, IsGraph, InAdmission
<1>2. /\ old \in Reads /\ Fits(old, ticket[r].kind) /\ Gated /\ Seen(old) /\ WorldTyped
  BY <1>1, OfRead
<1>3. CASE Refuse(r)
  BY <1>1, <1>3, OwnRefusal
<1>4. CASE SameControl(r) /\ Becomes(r, m)
  <2>1. m \in Reads /\ m.pc = "recheck" /\ m.kind = "evidence" /\ m.answer = old.answer
    BY <1>1, <1>2 DEF Reads, Stages
  <2>2. Gated' /\ ticket' = ticket
    BY <1>1, <1>2, GatesRest DEF gateVars
  <2>3. Turned(r, m)
    <3>1. ticket'[r].kind = IF InAdmission(m) THEN old.kind ELSE "none"
      BY <1>1, <1>2, <2>1, <2>2 DEF Fits, InAdmission
    <3>2. old.answer = "none"
      BY <1>1, <1>2 DEF Fits
    <3>3. QED
      BY <1>1, <2>2, <3>1, <3>2, ProceedTurns DEF Stages
  <2>4. "domain" \notin old.lapsed
    BY <1>2, <1>4 DEF SameControl, Seen, WorldTyped, ReadsTypeOK, Reads
  <2>5. OneLifeOf(r)
    BY <1>1, <2>4 DEF OneLifeOf, IsGraph
  <2>6. QED
    BY <1>1, <1>4, <2>1, <2>3, <2>5 DEF Own
<1>5. QED
  BY <1>3, <1>4 DEF ReauthorizeDomain, Proceed

(* ... and is answered only if every source of its scope has the identity  *)
(* it was frozen with, which a withdrawal would have moved.                *)
LEMMA OwnSecondRecheck ==
  ASSUME ReadsInv, NEW r \in Readers, ReauthorizeSources(r)
  PROVE  Own(r)
<1> DEFINE old == read[r]
           m   == [old EXCEPT !.pc = "return", !.answer = "answered"]
<1>1. old.pc = "recheck" /\ Unmoved /\ UNCHANGED gateVars
  BY DEF ReauthorizeSources
<1>2. /\ old \in Reads /\ Fits(old, ticket[r].kind) /\ Gated /\ Seen(old) /\ WorldTyped
  BY <1>1, OfRead
<1>3. old.kind = "evidence" /\ InAdmission(old)
  BY <1>1, <1>2 DEF Fits, InAdmission
<1>4. CASE Refuse(r)
  BY <1>1, <1>3, <1>4, OwnRefusal
<1>5. CASE /\ \A s \in Sources : old.scope[s] # 0 => Identity(s) = old.scope[s]
           /\ Becomes(r, m)
  <2>1. /\ m \in Reads /\ m.pc = "return" /\ m.kind = old.kind
        /\ m.ctl = old.ctl /\ m.lapsed = old.lapsed /\ m.scope = old.scope
    BY <1>2 DEF Reads, Stages
  <2>2. Gated' /\ ticket' = ticket
    BY <1>1, <1>2, GatesRest DEF gateVars
  <2>3. Becomes(r, m)
    BY <1>5
  <2> HIDE DEF m
  <2>4. Fits(m, ticket[r].kind)
    BY <1>1, <1>2, <1>3, <2>1 DEF Fits, InAdmission
  <2>5. Seen(m)
    BY <1>2, <2>1 DEF Seen
  <2>6. old.found \cap old.lapsed = {}
    <3> SUFFICES ASSUME NEW s \in old.found, s \in old.lapsed PROVE FALSE
      OBVIOUS
    <3>1. s \in Sources /\ old.scope[s] # 0 /\ old.scope[s] \in Nat
      BY <1>1, <1>2, <1>3 DEF Seen, Reads
    <3>2. Identity(s) = old.scope[s] /\ source[s].gen = old.scope[s]
      BY <1>2, <1>5, <3>1, IdentityNat
    <3>3. old.scope[s] < source[s].gen
      BY <1>2, <3>1 DEF Seen
    <3>4. QED
      BY <3>1, <3>2, <3>3
  <2>7. OneLifeOf(r)
    BY <1>1, <2>6 DEF OneLifeOf
  <2>8. QED
    BY <1>1, <2>1, <2>2, <2>3, <2>4, <2>5, <2>7 DEF Own, Turned
<1>6. QED
  BY <1>4, <1>5 DEF ReauthorizeSources

LEMMA OwnReturn ==
  ASSUME ReadsInv, NEW r \in Readers, Return(r)
  PROVE  Own(r)
<1> DEFINE old == read[r]
           m   == [old EXCEPT !.pc = "drop"]
<1>1. old.pc = "return" /\ ReturnPermits(r) /\ Unmoved /\ Becomes(r, m)
  BY DEF Return, Proceed
<1>2. old \in Reads /\ Fits(old, ticket[r].kind) /\ Gated /\ Waiting(r) /\ OneLifeOf(r)
  BY <1>1, OfRead, FarFromTheEnd DEF InAdmission
<1>3. /\ Gated' /\ ticket'[r].kind = ticket[r].kind
      /\ \A q \in Readers \ {r} : ticket'[q] = ticket[q]
  BY <1>1, <1>2, ReturnKeeps
<1>4. m \in Reads /\ m.pc = "drop"
  BY <1>2 DEF Reads, Stages
<1>5. Turned(r, m)
  <2>1. ticket'[r].kind = IF InAdmission(m) THEN old.kind ELSE "none"
    BY <1>1, <1>2, <1>3, <1>4 DEF Fits, InAdmission
  <2>2. QED
    BY <1>1, <1>3, <2>1, ProceedTurns DEF Stages
<1>6. QED
  BY <1>1, <1>2, <1>4, <1>5 DEF Own

LEMMA OwnDrop ==
  ASSUME ReadsInv, NEW r \in Readers, Drop(r)
  PROVE  Own(r)
<1> DEFINE old   == read[r]
           stage == IF IsGraph(r) /\ old.answer = "none" THEN "reauthorize" ELSE "done"
           m     == [old EXCEPT !.pc = stage]
<1>1. old.pc = "drop" /\ DropReferences(r) /\ Unmoved /\ Becomes(r, m)
  BY DEF Drop, Proceed
<1>2. old \in Reads /\ Fits(old, ticket[r].kind) /\ Gated /\ Waiting(r) /\ OneLifeOf(r)
  BY <1>1, OfRead, FarFromTheEnd DEF InAdmission
<1>3. Gated' /\ ~Waiting(r)' /\ \A q \in Readers \ {r} : ticket'[q] = ticket[q]
  BY <1>1, <1>2, DropKeeps
<1>4. ticket'[r].kind = "none"
  BY <1>3 DEF Waiting
<1>5. m \in Reads /\ m.pc = stage /\ m.kind = old.kind
  BY <1>2 DEF Reads, Stages
<1>6. Turned(r, m)
  <2>1. ~InAdmission(m) /\ (old.kind = "evidence" => stage = "done")
    BY <1>5 DEF InAdmission, IsGraph
  <2>2. stage \in Stages /\ stage # "idle" /\ stage \in {"reauthorize", "done"}
        /\ (stage # "done" => old.answer = "none")
    BY DEF Stages
  <2> HIDE DEF stage
  <2>3. QED
    BY <1>1, <1>3, <1>4, <2>1, <2>2, ProceedTurns
<1>7. QED
  BY <1>1, <1>2, <1>5, <1>6 DEF Own

(* A graph is answered only if the domain kept its control generation.     *)
LEMMA OwnGraphRecheck ==
  ASSUME ReadsInv, NEW r \in Readers, ReauthorizeGraph(r)
  PROVE  Own(r)
<1> DEFINE old  == read[r]
           fine == /\ SameControl(r) /\ SameGenerations(r)
                   /\ old.kind = "snapshot" => old.remote = dom.applied
           answer == IF fine THEN "answered" ELSE "refused"
           m    == [old EXCEPT !.pc = "done", !.answer = answer]
<1>1. old.pc = "reauthorize" /\ IsGraph(r) /\ Unmoved /\ UNCHANGED gateVars /\ Becomes(r, m)
  BY DEF ReauthorizeGraph
<1>2. old \in Reads /\ Fits(old, ticket[r].kind) /\ Gated /\ Seen(old) /\ WorldTyped
  BY OfRead
<1>3. /\ m \in Reads /\ m.pc = "done" /\ m.kind = old.kind /\ m.answer = answer
      /\ m.ctl = old.ctl /\ m.lapsed = old.lapsed /\ m.scope = old.scope
  <2>1. answer \in {"answered", "refused"}
    OBVIOUS
  <2> HIDE DEF answer
  <2>2. QED
    BY <1>2, <2>1 DEF Reads, Stages
<1>4. Gated' /\ ticket' = ticket
  BY <1>1, <1>2, GatesRest DEF gateVars
<1>5. read'[r] = m
  BY <1>1 DEF Becomes, ReadsInv
<1>6. answer = "answered" => "domain" \notin old.lapsed
  <2>1. ASSUME fine PROVE "domain" \notin old.lapsed
    BY <1>2, <2>1 DEF SameControl, Seen, WorldTyped, ReadsTypeOK, Reads
  <2>2. answer = "answered" => fine
    OBVIOUS
  <2> HIDE DEF answer, fine
  <2>3. QED
    BY <2>1, <2>2
<1> HIDE DEF m, answer
<1>7. Fits(m, ticket[r].kind)
  BY <1>1, <1>2, <1>3 DEF Fits, InAdmission, IsGraph
<1>8. Seen(m)
  BY <1>2, <1>3 DEF Seen
<1>9. OneLifeOf(r)
  BY <1>1, <1>3, <1>5, <1>6 DEF OneLifeOf, IsGraph
<1>10. QED
  BY <1>1, <1>3, <1>4, <1>7, <1>8, <1>9 DEF Own, Turned

LEMMA OwnEnd ==
  ASSUME ReadsInv, NEW r \in Readers, Finish(r)
  PROVE  Own(r)
<1>1. read[r].pc = "done" /\ Unmoved /\ UNCHANGED gateVars /\ Becomes(r, NoRead)
  BY DEF Finish
<1>2. Fits(read[r], ticket[r].kind) /\ Gated /\ WorldTyped /\ OneLifeOf(r)
  BY <1>1, OfRead, FarFromTheEnd
<1>3. ticket[r].kind = "none"
  BY <1>1, <1>2 DEF Fits, InAdmission
<1>4. Gated' /\ ticket' = ticket
  BY <1>1, <1>2, GatesRest DEF gateVars
<1>5. QED
  BY <1>1, <1>2, <1>3, <1>4, NoReadSound DEF Own, Turned

LEMMA OwnStep ==
  ASSUME ReadsInv, NEW r \in Readers, BeginRead(r) \/ ReadStep(r)
  PROVE  Own(r)
<1>1. CASE BeginRead(r)
  BY <1>1, OwnBeginning
<1>2. CASE ReadStep(r)
  BY <1>2, OwnAdmission, OwnSaturation, OwnResolution, OwnFreezing, OwnRetrieval, OwnGraphCall,
     OwnMapping, OwnFirstRecheck, OwnSecondRecheck, OwnReturn, OwnDrop, OwnGraphRecheck, OwnEnd
  DEF ReadStep
<1>3. QED
  BY <1>1, <1>2

-----------------------------------------------------------------------------
(* What the world does to a read: it overtakes it, and a generation moves. *)

Overtaken(r, what) ==
  /\ read'[r] = IF read[r].pc = "idle" THEN read[r]
                ELSE [read[r] EXCEPT !.lapsed = read[r].lapsed \cup {what}]
  /\ what \in Sources \cup {"domain"}
  /\ what = "domain" => dom'.ctl > dom.ctl
  /\ what # "domain" => source'[what].gen > source[what].gen

WorldMoves ==
  /\ WorldTyped' /\ UNCHANGED gateVars
  /\ dom'.ctl >= dom.ctl
  /\ \A s \in Sources : source'[s].gen >= source[s].gen
  /\ read' \in [Readers -> Reads]
  /\ \/ read' = read
     \/ \E what : \A r \in Readers : Overtaken(r, what)

LEMMA LapseOvertakes ==
  ASSUME ReadsInv, NEW what \in Sources \cup {"domain"}, Lapse(what),
         what = "domain" => dom'.ctl > dom.ctl,
         what # "domain" => source'[what].gen > source[what].gen
  PROVE  /\ read' \in [Readers -> Reads]
         /\ \A r \in Readers : Overtaken(r, what)
<1>1. ASSUME NEW r \in Readers
      PROVE  [read[r] EXCEPT !.lapsed = read[r].lapsed \cup {what}] \in Reads /\ read[r] \in Reads
  <2>1. read[r] \in Reads
    BY OfRead
  <2>2. read[r].lapsed \cup {what} \in SUBSET (Sources \cup {"domain"})
    BY <2>1 DEF Reads
  <2>3. QED
    BY <2>1, <2>2 DEF Reads
<1>2. QED
  BY <1>1 DEF Lapse, Overtaken

LEMMA MovesKeep ==
  ASSUME ReadsInv, WorldMoves
  PROVE  ReadsInv' /\ \A r \in Readers : OneLifeOf(r)
<1>1. Gated' /\ ticket' = ticket
  BY GatesRest DEF ReadsInv, WorldMoves, gateVars
<1>2. ASSUME NEW r \in Readers
      PROVE  Sound(r)' /\ OneLifeOf(r)
  <2> DEFINE old == read[r]
             new == read'[r]
  <2>1. old \in Reads /\ new \in Reads /\ Fits(old, ticket[r].kind) /\ Seen(old)
    BY OfRead DEF WorldMoves
  <2>2. /\ dom.ctl \in Nat /\ dom'.ctl \in Nat /\ dom'.ctl >= dom.ctl
        /\ \A s \in Sources : /\ source[s].gen \in Nat /\ source'[s].gen \in Nat
                              /\ source'[s].gen >= source[s].gen
    BY DEF WorldMoves, ReadsInv, WorldTyped, ReadsTypeOK
  <2>3. old.ctl \in Nat /\ \A s \in Sources : old.scope[s] \in Nat
    BY <2>1 DEF Reads
  <2>4. /\ new.pc = old.pc /\ new.kind = old.kind /\ new.answer = old.answer
        /\ new.ctl = old.ctl /\ new.scope = old.scope /\ new.found = old.found
    BY <2>1 DEF WorldMoves, Overtaken, Reads
  <2>5. /\ "domain" \in new.lapsed => "domain" \in old.lapsed \/ dom'.ctl > dom.ctl
        /\ \A s \in Sources : s \in new.lapsed => s \in old.lapsed \/ source'[s].gen > source[s].gen
    <3>1. CASE read' = read
      BY <3>1
    <3>2. ASSUME NEW what, Overtaken(r, what)
          PROVE  /\ "domain" \in new.lapsed => "domain" \in old.lapsed \/ dom'.ctl > dom.ctl
                 /\ \A s \in Sources : s \in new.lapsed =>
                      s \in old.lapsed \/ source'[s].gen > source[s].gen
      <4>1. new.lapsed \subseteq old.lapsed \cup {what}
        BY <2>1, <3>2 DEF Overtaken, Reads
      <4>2. QED
        BY <3>2, <4>1, ReadsConstants DEF Overtaken
    <3>3. QED
      BY <3>1, <3>2 DEF WorldMoves
  <2> HIDE DEF old, new
  <2>6. Fits(new, ticket[r].kind)
    BY <2>1, <2>4 DEF Fits, InAdmission
  <2>7. /\ new.ctl <= dom'.ctl /\ ("domain" \in new.lapsed => new.ctl < dom'.ctl)
        /\ \A s \in Sources : /\ new.scope[s] <= source'[s].gen
                              /\ s \in new.lapsed /\ new.scope[s] # 0 => new.scope[s] < source'[s].gen
    BY <2>1, <2>2, <2>3, <2>4, <2>5 DEF Seen
  <2>8. new.kind = "evidence" /\ new.pc \in {"reauthorize", "recheck"} =>
          \A s \in new.found : new.scope[s] # 0
    BY <2>1, <2>4 DEF Seen
  <2>9. Seen(read[r])'
    BY <2>7, <2>8 DEF Seen, new
  <2>10. OneLifeOf(r)
    BY <2>1, <2>4 DEF OneLifeOf, Fits, old, new
  <2>11. QED
    BY <1>1, <2>1, <2>6, <2>9, <2>10 DEF new, Sound
<1>3. WorldTyped' /\ read' \in [Readers -> Reads]
  BY DEF WorldMoves
<1>4. QED
  BY <1>1, <1>2, <1>3 DEF ReadsInv

LEMMA StillLives ==
  ASSUME ReadsInv, NEW r \in Readers, read'[r] = read[r]
  PROVE  OneLifeOf(r)
BY OfRead DEF OneLifeOf, Fits

LEMMA OwnKeeps ==
  ASSUME ReadsInv, NEW r \in Readers, Own(r)
  PROVE  ReadsInv' /\ \A q \in Readers : OneLifeOf(q)
<1>1. PICK m \in Reads : Becomes(r, m) /\ Turned(r, m)
  BY DEF Own
<1>2. /\ read'[r] = m /\ read' \in [Readers -> Reads]
      /\ \A q \in Readers \ {r} : read'[q] = read[q]
  BY <1>1 DEF Becomes, ReadsInv
<1>3. /\ dom' = dom /\ source' = source /\ store' = store /\ write' = write
      /\ changes' = changes
  BY DEF Own, Unmoved, rows
<1>4. WorldTyped'
  BY <1>3 DEF ReadsInv, WorldTyped, ReadsTypeOK
<1>5. ASSUME NEW q \in Readers PROVE Sound(q)'
  <2>1. CASE q = r
    <3>1. Seen(read[r])'
      BY <1>1, <1>2, <1>3 DEF Turned, Seen
    <3>2. QED
      BY <1>1, <1>2, <2>1, <3>1 DEF Sound, Turned
  <2>2. CASE q # r
    <3>1. read'[q] = read[q] /\ ticket'[q] = ticket[q] /\ Sound(q)
      BY <1>1, <1>2, <2>2 DEF Turned, ReadsInv
    <3>2. Seen(read[q])'
      BY <1>3, <3>1 DEF Sound, Seen
    <3>3. QED
      BY <3>1, <3>2 DEF Sound
  <2>3. QED
    BY <2>1, <2>2
<1>6. ASSUME NEW q \in Readers PROVE OneLifeOf(q)
  <2>1. q # r => read'[q] = read[q]
    BY <1>2
  <2>2. QED
    BY <2>1, StillLives DEF Own
<1>7. Gated'
  BY <1>1 DEF Turned
<1>8. QED
  BY <1>2, <1>4, <1>5, <1>6, <1>7 DEF ReadsInv

(* The world's steps.                                                      *)
LEMMA WorldFacts ==
  ASSUME ReadsInv
  PROVE  /\ dom \in [running : BOOLEAN, ctl : Nat, desired : Nat, applied : Nat]
         /\ dom.ctl > 0
         /\ source \in [Sources -> [phase : Phases, gen : Nat]]
         /\ store \in [docs : SUBSET Sources, nodes : SUBSET Sources, gen : Nat]
         /\ changes \in 0..MaxChanges /\ MaxChanges \in Nat
         /\ write \in [Writers -> Writes]
         /\ \A w \in Writers : write[w].pc # "idle" => write[w].src \in Sources
         /\ read \in [Readers -> Reads]
BY ReadsConstants DEF ReadsInv, WorldTyped, ReadsTypeOK

LEMMA OneMore ==
  ASSUME changes \in 0..MaxChanges, MaxChanges \in Nat, Change
  PROVE  changes' \in 0..MaxChanges
BY DEF Change

LEMMA Flipped ==
  ASSUME NEW b
  PROVE  (~b) \in BOOLEAN
<1>1. CASE b
  BY <1>1, Zenon
<1>2. CASE ~b
  BY <1>2, Zenon
<1>3. QED
  BY <1>1, <1>2

LEMMA DomRow ==
  ASSUME NEW d \in [running : BOOLEAN, ctl : Nat, desired : Nat, applied : Nat],
         NEW b \in BOOLEAN, NEW n \in Nat, NEW e,
         e = [d EXCEPT !.running = b, !.ctl = n]
  PROVE  e \in [running : BOOLEAN, ctl : Nat, desired : Nat, applied : Nat] /\ e.ctl = n
OBVIOUS

LEMMA ToggleMoves ==
  ASSUME ReadsInv, Toggle
  PROVE  WorldMoves
<1> USE WorldFacts
<1>1. /\ Change /\ UNCHANGED <<gateVars, source, store, write>> /\ Lapse("domain")
      /\ dom' = [dom EXCEPT !.running = ~dom.running, !.ctl = dom.ctl + 1]
  BY DEF Toggle
<1>2. changes' \in 0..MaxChanges
  BY <1>1, OneMore
<1>3. (~dom.running) \in BOOLEAN
  BY Flipped, Zenon
<1>4. dom' \in [running : BOOLEAN, ctl : Nat, desired : Nat, applied : Nat] /\ dom'.ctl = dom.ctl + 1
  <2>1. dom.ctl + 1 \in Nat /\ dom \in [running : BOOLEAN, ctl : Nat, desired : Nat, applied : Nat]
    OBVIOUS
  <2>2. QED
    BY <1>1, <1>3, <2>1, DomRow, Zenon
<1>5. dom'.ctl > dom.ctl
  BY <1>4
<1>6. read' \in [Readers -> Reads] /\ \A r \in Readers : Overtaken(r, "domain")
  BY <1>1, <1>5, LapseOvertakes
<1>7. WorldTyped'
  BY <1>1, <1>2, <1>4 DEF WorldTyped, ReadsTypeOK
<1>8. QED
  <2>1. \E what : \A r \in Readers : Overtaken(r, what)
    BY <1>6
  <2>2. UNCHANGED gateVars /\ dom'.ctl >= dom.ctl
        /\ \A z \in Sources : source'[z].gen >= source[z].gen
    BY <1>1, <1>4
  <2>3. QED
    BY <1>6, <1>7, <2>1, <2>2, Zenon DEF WorldMoves

LEMMA RequeueMoves ==
  ASSUME ReadsInv, NEW s \in Sources, Requeue(s)
  PROVE  WorldMoves
<1> USE WorldFacts
<1>1. /\ Change /\ UNCHANGED <<gateVars, dom, store, write, read>>
      /\ source' = [source EXCEPT ![s] = [phase |-> "queued", gen |-> source[s].gen + 1]]
  BY DEF Requeue
<1>2. changes' \in 0..MaxChanges
  BY <1>1, OneMore
<1>3. /\ source' \in [Sources -> [phase : Phases, gen : Nat]]
      /\ \A z \in Sources : source'[z].gen >= source[z].gen
  BY <1>1 DEF Phases
<1>4. WorldTyped'
  BY <1>1, <1>2, <1>3 DEF WorldTyped, ReadsTypeOK
<1>5. QED
  BY <1>1, <1>3, <1>4 DEF WorldMoves

LEMMA WithdrawMoves ==
  ASSUME ReadsInv, NEW w \in Writers, NEW s \in Sources, Withdraw(w, s)
  PROVE  WorldMoves
<1> USE WorldFacts
<1>1. /\ Change /\ UNCHANGED <<gateVars, dom, store>> /\ Lapse(s)
      /\ source' = [source EXCEPT ![s] = [phase |-> "withdrawn", gen |-> source[s].gen + 1]]
      /\ write' = [write EXCEPT ![w] = [write[w] EXCEPT !.pc = "fenced", !.src = s]]
  BY DEF Withdraw
<1>2. changes' \in 0..MaxChanges
  BY <1>1, OneMore
<1>3. /\ source' \in [Sources -> [phase : Phases, gen : Nat]]
      /\ \A z \in Sources : source'[z].gen >= source[z].gen
      /\ source'[s].gen > source[s].gen
  BY <1>1 DEF Phases
<1>4. [write[w] EXCEPT !.pc = "fenced", !.src = s] \in Writes
  BY DEF Writes, WriterStages
<1>5. /\ write' \in [Writers -> Writes]
      /\ \A v \in Writers : write'[v].pc # "idle" => write'[v].src \in Sources
  BY <1>1, <1>4 DEF Writes
<1>6. read' \in [Readers -> Reads] /\ \A r \in Readers : Overtaken(r, s)
  BY <1>1, <1>3, LapseOvertakes, ReadsConstants
<1>7. WorldTyped'
  BY <1>1, <1>2, <1>3, <1>5 DEF WorldTyped, ReadsTypeOK
<1>8. QED
  <2>1. \E what : \A r \in Readers : Overtaken(r, what)
    BY <1>6
  <2>2. UNCHANGED gateVars /\ dom'.ctl >= dom.ctl
        /\ \A z \in Sources : source'[z].gen >= source[z].gen
    BY <1>1, <1>3
  <2>3. QED
    BY <1>6, <1>7, <2>1, <2>2, Zenon DEF WorldMoves

DomRows    == [running : BOOLEAN, ctl : Nat, desired : Nat, applied : Nat]
SourceRows == [Sources -> [phase : Phases, gen : Nat]]
Stores     == [docs : SUBSET Sources, nodes : SUBSET Sources, gen : Nat]

LEMMA WriterMoves ==
  ASSUME ReadsInv, UNCHANGED <<gateVars, read, changes>>, NEW w \in Writers, NEW m \in Writes,
         write' = [write EXCEPT ![w] = m], m.pc # "idle" => m.src \in Sources,
         dom' \in DomRows, dom'.ctl = dom.ctl, source' \in SourceRows,
         \A s \in Sources : source'[s].gen = source[s].gen, store' \in Stores
  PROVE  WorldMoves
<1>1. /\ dom.ctl \in Nat /\ dom.ctl > 0 /\ \A s \in Sources : source[s].gen \in Nat
      /\ changes' \in 0..MaxChanges /\ write \in [Writers -> Writes]
      /\ \A v \in Writers : write[v].pc # "idle" => write[v].src \in Sources
      /\ read' \in [Readers -> Reads]
  BY WorldFacts
<1>2. /\ write' \in [Writers -> Writes]
      /\ \A v \in Writers : write'[v].pc # "idle" => write'[v].src \in Sources
  BY <1>1
<1>3. WorldTyped'
  BY <1>1, <1>2 DEF WorldTyped, ReadsTypeOK, DomRows, SourceRows, Stores
<1>4. /\ UNCHANGED gateVars /\ dom'.ctl >= dom.ctl /\ read' = read
      /\ \A s \in Sources : source'[s].gen >= source[s].gen
  BY <1>1
<1>5. QED
  BY <1>1, <1>3, <1>4, Zenon DEF WorldMoves

LEMMA WorldRows ==
  ASSUME ReadsInv
  PROVE  /\ dom \in DomRows /\ dom.desired \in Nat /\ dom.applied \in Nat
         /\ source \in SourceRows /\ store \in Stores
         /\ NoWrite \in Writes /\ NoWrite.pc = "idle"
         /\ \A w \in Writers : /\ write[w] \in Writes
                               /\ write[w].pc # "idle" => write[w].src \in Sources
<1>1. NoWrite \in Writes /\ NoWrite.pc = "idle"
  BY DEF NoWrite, Writes, WriterStages, Nobody
<1>2. QED
  BY <1>1, WorldFacts DEF DomRows, SourceRows, Stores

LEMMA DeletionMoves ==
  ASSUME ReadsInv, NEW w \in Writers, AdvanceForDelete(w) \/ DeleteLands(w) \/ VerifyAbsent(w)
  PROVE  WorldMoves
<1> DEFINE mine == write[w]
<1>1. /\ dom \in DomRows /\ dom.desired \in Nat /\ dom.applied \in Nat
      /\ source \in SourceRows /\ store \in Stores /\ NoWrite \in Writes /\ NoWrite.pc = "idle"
      /\ mine \in Writes /\ (mine.pc # "idle" => mine.src \in Sources)
  BY WorldRows
<1>2. CASE AdvanceForDelete(w)
  <2> DEFINE m == [mine EXCEPT !.pc = "delete", !.corpus = dom.desired + 1, !.was = dom.applied]
  <2>1. /\ mine.pc = "fenced" /\ UNCHANGED <<gateVars, source, store, read, changes>>
        /\ dom' = [dom EXCEPT !.desired = dom.desired + 1]
        /\ write' = [write EXCEPT ![w] = m]
    BY <1>2 DEF AdvanceForDelete
  <2>2. m \in Writes /\ m.src = mine.src
    <3> DEFINE next == dom.desired + 1
    <3>1. next \in Nat
      BY <1>1
    <3> HIDE DEF next
    <3>2. LET n == [mine EXCEPT !.pc = "delete", !.corpus = next, !.was = dom.applied]
          IN  n \in Writes /\ n.src = mine.src
      BY <1>1, <3>1 DEF Writes, WriterStages
    <3>3. QED
      BY <3>2 DEF next
  <2>3. dom' \in DomRows /\ dom'.ctl = dom.ctl
    BY <1>1, <2>1 DEF DomRows
  <2> HIDE DEF m
  <2>4. QED
    BY <1>1, <2>1, <2>2, <2>3, WriterMoves
<1>3. CASE DeleteLands(w)
  <2> DEFINE m == [mine EXCEPT !.pc = "verify"]
  <2>1. /\ mine.pc = "delete" /\ UNCHANGED <<gateVars, rows, read, changes>>
        /\ store' = [docs |-> store.docs \ {mine.src}, nodes |-> {}, gen |-> mine.corpus]
        /\ write' = [write EXCEPT ![w] = m]
    BY <1>3 DEF DeleteLands
  <2>2. m \in Writes /\ m.src = mine.src /\ mine.corpus \in Nat
    BY <1>1 DEF Writes, WriterStages
  <2>3. store' \in Stores
    BY <1>1, <2>1, <2>2 DEF Stores
  <2>4. dom' = dom /\ source' = source
    BY <2>1 DEF rows
  <2> HIDE DEF m
  <2>5. QED
    BY <1>1, <2>1, <2>2, <2>3, <2>4, WriterMoves
<1>4. CASE VerifyAbsent(w)
  <2>1. /\ UNCHANGED <<gateVars, source, store, read, changes>>
        /\ dom' = [dom EXCEPT !.applied = IF mine.corpus <= mine.was THEN dom.applied ELSE mine.corpus]
        /\ write' = [write EXCEPT ![w] = NoWrite]
    BY <1>4 DEF VerifyAbsent
  <2>2. mine.corpus \in Nat
    BY <1>1 DEF Writes
  <2>3. dom' \in DomRows /\ dom'.ctl = dom.ctl
    BY <1>1, <2>1, <2>2 DEF DomRows
  <2>4. QED
    BY <1>1, <2>1, <2>3, WriterMoves
<1>5. QED
  BY <1>2, <1>3, <1>4

LEMMA SubmissionMoves ==
  ASSUME ReadsInv, NEW w \in Writers,
         \/ \E s \in Sources : ClaimQueued(w, s)
         \/ AdvanceForSubmit(w) \/ SubmitLands(w) \/ WriteFails(w) \/ MarkReady(w)
  PROVE  WorldMoves
<1> DEFINE mine == write[w]
<1>1. /\ dom \in DomRows /\ dom.desired \in Nat /\ dom.applied \in Nat
      /\ source \in SourceRows /\ store \in Stores /\ NoWrite \in Writes /\ NoWrite.pc = "idle"
      /\ mine \in Writes /\ (mine.pc # "idle" => mine.src \in Sources)
  BY WorldRows
<1>2. ASSUME NEW s \in Sources, ClaimQueued(w, s) PROVE WorldMoves
  <2> DEFINE m == [NoWrite EXCEPT !.pc = "claimed", !.src = s, !.gen = source[s].gen,
                                  !.base = dom.desired]
  <2>1. UNCHANGED <<gateVars, rows, store, read, changes>> /\ write' = [write EXCEPT ![w] = m]
    BY <1>2 DEF ClaimQueued
  <2>2. source[s].gen \in Nat
    BY <1>1 DEF SourceRows
  <2>3. m \in Writes /\ m.src = s
    BY <1>1, <2>2 DEF Writes, WriterStages, NoWrite
  <2>4. dom' = dom /\ source' = source
    BY <2>1 DEF rows
  <2> HIDE DEF m
  <2>5. QED
    BY <1>1, <2>1, <2>3, <2>4, WriterMoves
<1>3. CASE AdvanceForSubmit(w)
  <2> DEFINE m == [mine EXCEPT !.pc = "submit", !.corpus = mine.base + 1]
  <2>1. /\ mine.pc = "claimed" /\ UNCHANGED <<gateVars, source, store, read, changes>>
        /\ dom' = [dom EXCEPT !.desired = mine.base + 1]
        /\ write' = [write EXCEPT ![w] = m]
    BY <1>3 DEF AdvanceForSubmit
  <2>2. m \in Writes /\ m.src = mine.src /\ mine.base \in Nat
    <3> DEFINE next == mine.base + 1
    <3>1. mine.base \in Nat /\ next \in Nat
      BY <1>1 DEF Writes
    <3> HIDE DEF next
    <3>2. LET n == [mine EXCEPT !.pc = "submit", !.corpus = next]
          IN  n \in Writes /\ n.src = mine.src
      BY <1>1, <3>1 DEF Writes, WriterStages
    <3>3. QED
      BY <3>1, <3>2 DEF next
  <2>3. dom' \in DomRows /\ dom'.ctl = dom.ctl
    BY <1>1, <2>1, <2>2 DEF DomRows
  <2> HIDE DEF m
  <2>4. QED
    BY <1>1, <2>1, <2>2, <2>3, WriterMoves
<1>4. CASE SubmitLands(w)
  <2> DEFINE docs == store.docs \cup {mine.src}
             m    == [mine EXCEPT !.pc = "landed"]
  <2>1. /\ mine.pc = "submit" /\ UNCHANGED <<gateVars, rows, read, changes>>
        /\ write' = [write EXCEPT ![w] = m]
    BY <1>4 DEF SubmitLands
  <2>2. PICK nodes \in NodesAfter(mine.src, docs) :
          store' = [docs |-> docs, nodes |-> nodes, gen |-> mine.corpus]
    BY <1>4 DEF SubmitLands
  <2>3. m \in Writes /\ m.src = mine.src /\ mine.corpus \in Nat
    BY <1>1 DEF Writes, WriterStages
  <2>4. docs \in SUBSET Sources /\ nodes \in SUBSET Sources
    BY <1>1, <2>1, <2>2 DEF NodesAfter, Stores
  <2>5. store' \in Stores
    BY <2>2, <2>3, <2>4 DEF Stores
  <2>6. dom' = dom /\ source' = source
    BY <2>1 DEF rows
  <2> HIDE DEF m, docs
  <2>7. QED
    BY <1>1, <2>1, <2>3, <2>5, <2>6, WriterMoves
<1>5. CASE WriteFails(w)
  <2> DEFINE s     == mine.src
             phase == IF source[s].phase = "queued" THEN "failed" ELSE source[s].phase
  <2>1. /\ mine.pc # "idle" /\ UNCHANGED <<gateVars, dom, store, read, changes>>
        /\ source' = [source EXCEPT ![s] = [source[s] EXCEPT !.phase = phase]]
        /\ write' = [write EXCEPT ![w] = NoWrite]
    BY <1>5 DEF WriteFails
  <2>2. s \in Sources /\ phase \in Phases /\ source[s] \in [phase : Phases, gen : Nat]
    BY <1>1, <2>1 DEF SourceRows, Phases
  <2> HIDE DEF phase, s
  <2>3. source' \in SourceRows /\ \A z \in Sources : source'[z].gen = source[z].gen
    BY <1>1, <2>1, <2>2 DEF SourceRows
  <2>4. QED
    BY <1>1, <2>1, <2>3, WriterMoves
<1>6. CASE MarkReady(w)
  <2>1. /\ mine.pc = "landed" /\ UNCHANGED <<gateVars, store, read, changes>>
        /\ write' = [write EXCEPT ![w] = NoWrite]
    BY <1>6 DEF MarkReady
  <2>2. /\ source' \in SourceRows /\ \A z \in Sources : source'[z].gen = source[z].gen
        /\ dom' \in DomRows /\ dom'.ctl = dom.ctl
    <3>1. CASE UNCHANGED rows
      BY <1>1, <3>1 DEF rows
    <3>2. CASE /\ source' = [source EXCEPT ![mine.src].phase = "ready"]
               /\ dom' = [dom EXCEPT !.applied = IF dom.desired >= dom.applied THEN dom.desired
                                                                               ELSE dom.applied]
      <4>1. mine.src \in Sources
        BY <1>1, <2>1
      <4>2. source' \in SourceRows /\ \A z \in Sources : source'[z].gen = source[z].gen
        BY <1>1, <3>2, <4>1 DEF SourceRows, Phases
      <4>3. dom' \in DomRows /\ dom'.ctl = dom.ctl
        BY <1>1, <3>2 DEF DomRows
      <4>4. QED
        BY <4>2, <4>3
    <3>3. QED
      BY <1>6, <3>1, <3>2 DEF MarkReady
  <2>3. QED
    BY <1>1, <2>1, <2>2, WriterMoves
<1>7. QED
  BY <1>2, <1>3, <1>4, <1>5, <1>6

LEMMA ReadsStep ==
  ASSUME ReadsInv, [ReadsNext]_readsVars
  PROVE  ReadsInv' /\ \A r \in Readers : OneLifeOf(r)
<1>1. CASE UNCHANGED readsVars
  <2>1. UNCHANGED gateVars /\ dom' = dom /\ source' = source /\ store' = store
        /\ write' = write /\ read' = read /\ changes' = changes
    BY <1>1 DEF readsVars, rows
  <2>2. dom.ctl \in Nat /\ \A s \in Sources : source[s].gen \in Nat
    BY WorldFacts
  <2>3. WorldTyped' /\ dom'.ctl >= dom.ctl /\ read' \in [Readers -> Reads]
        /\ \A s \in Sources : source'[s].gen >= source[s].gen
    BY <2>1, <2>2 DEF ReadsInv, WorldTyped, ReadsTypeOK
  <2>4. WorldMoves
    BY <2>1, <2>3, Zenon DEF WorldMoves
  <2>5. QED
    BY <2>4, MovesKeep
<1>2. CASE World
  <2>1. WorldMoves
    BY <1>2, ToggleMoves, RequeueMoves, WithdrawMoves, DeletionMoves, SubmissionMoves DEF World
  <2>2. QED
    BY <2>1, MovesKeep
<1>3. ASSUME NEW r \in Readers, BeginRead(r) \/ ReadStep(r)
      PROVE  ReadsInv' /\ \A q \in Readers : OneLifeOf(q)
  BY <1>3, OwnStep, OwnKeeps
<1>4. QED
  BY <1>1, <1>2, <1>3 DEF ReadsNext

LEMMA ReadsAlways == ReadsSpec => []ReadsInv
<1>1. ReadsInit => ReadsInv
  BY ReadsStart
<1>2. ReadsInv /\ [ReadsNext]_readsVars => ReadsInv'
  BY ReadsStep
<1>3. QED
  BY <1>1, <1>2, PTL DEF ReadsSpec

(* The rows, the runtime and the bound of changes keep their types.        *)
THEOREM ReadsTypes == ReadsSpec => []ReadsTypeOK
<1>1. ReadsInv => ReadsTypeOK
  BY DEF ReadsInv, WorldTyped
<1>2. QED
  BY <1>1, ReadsAlways, PTL

(* No entry of the gate dictionaries outlives the reads that refer to it:  *)
(* _retrieval_gates and _graph_admission count in, every end through       *)
(* finally counts out, for any number of reads.                            *)
THEOREM EntriesCount == ReadsSpec => []EntriesCountTheirReads
<1>1. ReadsInv => EntriesCountTheirReads
  BY DEF ReadsInv, Gated
<1>2. QED
  BY <1>1, ReadsAlways, PTL

(* No more reads are past a gate than its limit, though entries are        *)
(* removed and made again: whoever still refers to a gate was given the    *)
(* entry that is kept.                                                     *)
THEOREM PermitsStay == ReadsSpec => []PermitsWithinLimits
<1>1. ReadsInv => PermitsWithinLimits
  BY DEF ReadsInv, Gated
<1>2. QED
  BY <1>1, ReadsAlways, PTL

(* Evidence is answered only from one life of the domain and of the        *)
(* sources shown, a graph only from one life of the domain: what stops,    *)
(* starts or withdraws moves a generation that the rechecks compare with   *)
(* the one first read.  Which life the sources in a graph had is not said. *)
THEOREM OneLife == ReadsSpec => AnswersAreOfOneLife
<1> DEFINE A == \A r \in Readers : OneLifeOf(r)
<1>1. ReadsInv /\ [ReadsNext]_readsVars => [A]_readsVars
  BY ReadsStep
<1>2. ReadsSpec => [][A]_readsVars
  BY <1>1, ReadsAlways, PTL DEF ReadsSpec
<1>3. QED
  BY <1>2 DEF AnswersAreOfOneLife, OneLifeOf
=============================================================================
