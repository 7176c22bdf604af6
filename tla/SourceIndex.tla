---------------------------- MODULE SourceIndex ----------------------------
(***************************************************************************)
(* Source indexing: services/indexing.py.  A prepared source is queued     *)
(* under an index generation whose number names the request; leased        *)
(* workers submit it to the domain's private runtime, poll it and mark it  *)
(* ready; administrators retry, cancel and delete it meanwhile.            *)
(*                                                                         *)
(* A session keeps the row it loaded until it refreshes it, and a flush    *)
(* writes the attributes that differ from what was loaded, so every worker *)
(* and every administrative request carries its own copy of the row.       *)
(* Calls to the runtime happen between commits: they may fail, time out,   *)
(* or land after the caller has given up.                                  *)
(***************************************************************************)
EXTENDS Naturals, FiniteSets

CONSTANTS
  Sources,         \* source documents of one domain
  Workers,         \* processes running SourceIndexWorker.run_once
  Owners, OwnerOf, \* source_index_worker_id of each process
  Requests,        \* administrative requests and delete-worker iterations
  NoSource,        \* what an idle worker or request works on
  MaxGeneration,   \* bound: index generations of one source
  MaxDesired,      \* bound: corpus generations asked for by deletions
  MaxFaults        \* bound: crashes, lost answers and early lease expiries

ASSUME IndexConstants ==
  /\ OwnerOf \in [Workers -> Owners]
  /\ Owners \cap {"none", "backoff", "expired"} = {}
  /\ NoSource \notin Sources
  /\ MaxGeneration \in Nat /\ MaxDesired \in Nat /\ MaxFaults \in Nat

VARIABLES
  row,                        \* index columns of each source_documents row
  desired, applied, started,  \* the domain's graph generations and its latch
  up,                         \* the domain is running and its runtime answers
  docs,                       \* documents the runtime holds: request -> status
  calls,                      \* submit calls their caller no longer waits for
  work,                       \* per worker: run_once with its loaded copies
  adm,                        \* per request: the operation with its copies
  faults,                     \* faults so far
  withdrawn,                  \* history: fenced since the last queueing
  processed                   \* history: requests the runtime ever processed

domainVars == <<desired, applied, started>>
vars == <<row, domainVars, up, docs, calls, work, adm, faults, withdrawn, processed>>

-----------------------------------------------------------------------------
IndexStates == {"queued", "submitting", "accepted", "ready", "failed",
                "cancelling", "cancelled"}
Leases   == Owners \cup {"none", "backoff", "expired"}
Rows     == [state : {"prepared", "deleting", "gone"}, idx : IndexStates,
             gen : Nat, req : Nat, doc : BOOLEAN, lease : Leases]
Statuses == {"processing", "processed", "failed"}
Probes   == Statuses \cup {"missing", "unavailable"}
Stages   == {"idle", "claimed", "probe", "decide", "submit", "landed", "timeout",
             "error", "mark_ready", "apply"}
Steps    == {"idle", "advance", "delete", "verify", "finish", "remove"}
Kinds    == {"retry", "cancel", "cleanup"}
Jobs       == [pc : Stages, src : Sources \cup {NoSource}, gen : Nat, req : Nat,
               phase : IndexStates, copy : Rows, desired : Nat, probe : Probes]
Operations == [pc : Steps, kind : Kinds, src : Sources \cup {NoSource}, req : Nat,
               copy : Rows, corpus : Nat, applied : Nat]

\* publish_prepared_source has just queued generation 1; req 0 is None
Published == [state |-> "prepared", idx |-> "queued", gen |-> 1, req |-> 1,
              doc |-> FALSE, lease |-> "none"]

NoWork    == [pc |-> "idle", src |-> NoSource, gen |-> 0, req |-> 0,
              phase |-> "submitting", copy |-> Published, desired |-> 0,
              probe |-> "missing"]
NoRequest == [pc |-> "idle", kind |-> "retry", src |-> NoSource, req |-> 0,
              copy |-> Published, corpus |-> 0, applied |-> 0]

Init ==
  /\ row       = [s \in Sources |-> Published]
  /\ desired   = 0 /\ applied = 0 /\ started = FALSE
  /\ up        = TRUE
  /\ docs      = [q \in {} |-> "processing"]
  /\ calls     = {}
  /\ work      = [w \in Workers |-> NoWork]
  /\ adm       = [a \in Requests |-> NoRequest]
  /\ faults    = 0
  /\ withdrawn = [s \in Sources |-> FALSE]
  /\ processed = {}

-----------------------------------------------------------------------------
(* The session: what a flush writes                                        *)

\* one attribute: unchanged since it was loaded, so left out of the UPDATE
Column(now, old, new) == IF new = old THEN now ELSE new

Flushed(now, old, new) ==
  [state |-> Column(now.state, old.state, new.state),
   idx   |-> Column(now.idx,   old.idx,   new.idx),
   gen   |-> Column(now.gen,   old.gen,   new.gen),
   req   |-> Column(now.req,   old.req,   new.req),
   doc   |-> Column(now.doc,   old.doc,   new.doc),
   lease |-> Column(now.lease, old.lease, new.lease)]

Flush(s, old, new) == row' = [row EXCEPT ![s] = Flushed(@, old, new)]

Exists(s) == row[s].state # "gone"
Fault     == faults < MaxFaults /\ faults' = faults + 1

-----------------------------------------------------------------------------
(* The runtime, as the client uses it                                      *)

Answer(q)  == IF q \in DOMAIN docs THEN docs[q] ELSE "missing"

\* /v1/index/submit: a request already there is not inserted again
Land(q)    == docs' = [x \in DOMAIN docs \cup {q} |->
                         IF x \in DOMAIN docs THEN docs[x] ELSE "processing"]
Remove(q)  == docs' = [x \in DOMAIN docs \ {q} |-> docs[x]]

\* the pipeline finishes a document
FinishDocument(q, status) ==
  /\ q \in DOMAIN docs /\ docs[q] = "processing"
  /\ docs' = [docs EXCEPT ![q] = status]
  /\ processed' = IF status = "processed" THEN processed \cup {q} ELSE processed
  /\ UNCHANGED <<row, domainVars, up, calls, work, adm, faults, withdrawn>>

\* a submit call nobody waits for any more reaches the runtime after all
LateSubmit(q) ==
  /\ q \in calls
  /\ calls' = calls \ {q}
  /\ Land(q)
  /\ UNCHANGED <<row, domainVars, up, work, adm, faults, withdrawn, processed>>

\* the domain is stopped or started, or its runtime goes and comes back
Toggle ==
  /\ up' = ~up
  /\ UNCHANGED <<row, domainVars, docs, calls, work, adm, faults, withdrawn, processed>>

-----------------------------------------------------------------------------
(* The worker                                                              *)

Src(w)     == work[w].src
Request(w) == <<Src(w), work[w].req>>

Leave(w) == work' = [work EXCEPT ![w] = NoWork]
Goto(w, stage) == work' = [work EXCEPT ![w].pc = stage]

\* mutant of Claimable: a submission whose lease ran out is left alone
NeverReclaimed(r) ==
  /\ r.state = "prepared"
  /\ \/ r.idx = "queued"
     \/ r.idx = "accepted" /\ r.lease = "none"

\* _claim_next_source's selection
Claimable(r) ==
  /\ r.state = "prepared"
  /\ \/ r.idx = "queued"
     \/ r.idx = "submitting" /\ r.lease = "expired"
     \/ r.idx = "accepted" /\ r.lease \in {"none", "expired"}

\* _claim_next_source, then run_once loads the domain and keeps it
Claim(w, s) ==
  LET new == [row[s] EXCEPT !.idx = IF @ = "queued" THEN "submitting" ELSE @,
                            !.lease = OwnerOf[w]]
  IN /\ work[w].pc = "idle"
     /\ Claimable(row[s])
     /\ row' = [row EXCEPT ![s] = new]
     /\ work' = [work EXCEPT ![w] =
                   [pc |-> "claimed", src |-> s, gen |-> new.gen, req |-> new.req,
                    phase |-> new.idx, copy |-> new, desired |-> desired,
                    probe |-> "missing"]]
     /\ UNCHANGED <<domainVars, up, docs, calls, adm, faults, withdrawn, processed>>

\* a claimed row without a request id can never progress
FailWithoutRequest(w) ==
  /\ work[w].pc = "claimed" /\ work[w].req = 0
  /\ IF Exists(Src(w))
     THEN Flush(Src(w), work[w].copy,
                [work[w].copy EXCEPT !.idx = "failed", !.lease = "none"])
     ELSE UNCHANGED row
  /\ Leave(w)
  /\ UNCHANGED <<domainVars, up, docs, calls, adm, faults, withdrawn, processed>>

\* _heartbeat_index_lease's test of a refreshed row
LeaseCurrent(w) ==
  /\ Exists(Src(w))
  /\ row[Src(w)].lease = OwnerOf[w]
  /\ row[Src(w)].idx \notin {"cancelling", "cancelled"}

Heartbeat(w) ==
  /\ work[w].pc = "claimed" /\ work[w].req # 0
  /\ IF LeaseCurrent(w)
     THEN work' = [work EXCEPT ![w].pc = "probe", ![w].copy = row[Src(w)]]
     ELSE Leave(w)
  /\ UNCHANGED <<row, domainVars, up, docs, calls, adm, faults, withdrawn, processed>>

\* readiness: every transport problem is an unavailable runtime
Probe(w) ==
  /\ work[w].pc = "probe"
  /\ \/ /\ up
        /\ work' = [work EXCEPT ![w].pc = "decide", ![w].probe = Answer(Request(w))]
        /\ UNCHANGED faults
     \/ /\ IF up THEN Fault ELSE UNCHANGED faults
        /\ work' = [work EXCEPT ![w].pc = "decide", ![w].probe = "unavailable"]
  /\ UNCHANGED <<row, domainVars, up, docs, calls, adm, withdrawn, processed>>

\* _worker_result_is_current, on whatever copy the session holds
Current(w, copy) ==
  /\ copy.gen = work[w].gen /\ copy.req = work[w].req
  /\ copy.state = "prepared"
  /\ copy.idx \notin {"cancelling", "cancelled"}

Accepted(r) == [r EXCEPT !.idx = "accepted", !.doc = TRUE, !.lease = "none"]
Ready(r)    == [r EXCEPT !.idx = "ready", !.lease = "none"]
Failed(r)   == [r EXCEPT !.idx = "failed", !.lease = "none"]
Waiting(r)  == [r EXCEPT !.lease = "backoff"]

\* one mark_*_if_current and its commit; a vanished row fails the flush
Mark(w, copy, allowed, new, stage) ==
  IF Current(w, copy) /\ copy.idx \in allowed /\ Exists(Src(w))
  THEN /\ Flush(Src(w), copy, new)
       /\ IF stage = "idle" THEN Leave(w)
          ELSE work' = [work EXCEPT ![w].pc = stage, ![w].copy = new]
  ELSE Leave(w) /\ UNCHANGED row

\* the probe found the document, or a verdict on it
DecideProbe(w) ==
  LET copy == work[w].copy IN
  /\ work[w].pc = "decide"
  /\ CASE work[w].probe \in {"failed", "unavailable"} ->
            Mark(w, copy, IndexStates, Failed(copy), "idle")
       [] work[w].probe = "missing" ->
            /\ work[w].phase = "accepted"
            /\ Mark(w, copy, IndexStates, Failed(copy), "idle")
       [] work[w].probe = "processed" ->
            IF work[w].phase = "submitting"
            THEN Mark(w, copy, {"submitting"}, Accepted(copy), "mark_ready")
            ELSE Mark(w, copy, {"accepted"}, Ready(copy), "apply")
       [] work[w].probe = "processing" ->
            IF work[w].phase = "submitting"
            THEN Mark(w, copy, {"submitting"}, Accepted(copy), "idle")
            ELSE Mark(w, copy, {"submitting", "accepted"}, Waiting(copy), "idle")
  /\ UNCHANGED <<domainVars, up, docs, calls, adm, faults, withdrawn, processed>>

NeedsSubmit(w) ==
  work[w].pc = "decide" /\ work[w].probe = "missing" /\ work[w].phase = "submitting"

\* new submits wait for a running domain; this write has no test of its own
Postpone(w) ==
  /\ NeedsSubmit(w) /\ ~up
  /\ IF Exists(Src(w)) THEN Flush(Src(w), work[w].copy, Waiting(work[w].copy))
                       ELSE UNCHANGED row
  /\ Leave(w)
  /\ UNCHANGED <<domainVars, up, docs, calls, adm, faults, withdrawn, processed>>

\* the provider environment cannot be sealed
SealFails(w) ==
  /\ NeedsSubmit(w) /\ up
  /\ Mark(w, work[w].copy, IndexStates, Failed(work[w].copy), "idle")
  /\ Fault
  /\ UNCHANGED <<domainVars, up, docs, calls, adm, withdrawn, processed>>

\* mutant of Latch: the latch is set only once something was applied
LatchWhenApplied == applied > 0

\* mark_domain_indexing_ever_started
Latch == TRUE

\* the domain row is locked but not reloaded: the generation advances from the
\* one run_once loaded
AdvanceForSubmit(w) ==
  /\ NeedsSubmit(w) /\ up
  /\ desired' = work[w].desired + 1
  /\ started' = (started \/ Latch)
  /\ Goto(w, "submit")
  /\ UNCHANGED <<row, applied, up, docs, calls, adm, faults, withdrawn, processed>>

\* the call lands and its answer arrives; rendering needs a prepared source
SubmitSucceeds(w) ==
  /\ work[w].pc = "submit"
  /\ up /\ work[w].copy.state = "prepared"
  /\ Land(Request(w))
  /\ Goto(w, "landed")
  /\ UNCHANGED <<row, domainVars, up, calls, adm, faults, withdrawn, processed>>

\* refused before anything happened
SubmitRefused(w) ==
  /\ work[w].pc = "submit"
  /\ IF up /\ work[w].copy.state = "prepared" THEN Fault ELSE UNCHANGED faults
  /\ Goto(w, "error")
  /\ UNCHANGED <<row, domainVars, up, docs, calls, adm, withdrawn, processed>>

\* the answer is lost: a time-out or a transport error, before or after the
\* runtime has the document
SubmitUnanswered(w) ==
  /\ work[w].pc = "submit"
  /\ up /\ work[w].copy.state = "prepared"
  /\ Fault
  /\ \E stage \in {"timeout", "error"} : Goto(w, stage)
  /\ \/ Land(Request(w)) /\ UNCHANGED calls
     \/ calls' = calls \cup {Request(w)} /\ UNCHANGED docs
  /\ UNCHANGED <<row, domainVars, up, adm, withdrawn, processed>>

\* the heartbeat thread finds the lease lost: the answer will be dropped
BeatLoses(w) ==
  /\ work[w].pc \in {"submit", "landed"}
  /\ ~LeaseCurrent(w)
  /\ Leave(w)
  /\ calls' = IF work[w].pc = "submit" THEN calls \cup {Request(w)} ELSE calls
  /\ UNCHANGED <<row, domainVars, up, docs, adm, faults, withdrawn, processed>>

\* mark_index_accepted_if_current after a successful submit
MarkLanded(w) ==
  /\ work[w].pc = "landed"
  /\ Mark(w, work[w].copy, {"submitting"}, Accepted(work[w].copy), "idle")
  /\ UNCHANGED <<domainVars, up, docs, calls, adm, faults, withdrawn, processed>>

\* mutant of Reloaded: no rollback, the copy of the heartbeat is used
KeptCopy(w) == work[w].copy

\* a failed submit rolls back, which expires the copy: the next use reloads it
Reloaded(w) == row[Src(w)]

MarkUnanswered(w) ==
  LET now == Reloaded(w) IN
  /\ \/ /\ work[w].pc = "timeout"
        /\ Mark(w, now, {"submitting"}, Waiting(now), "idle")
     \/ /\ work[w].pc = "error"
        /\ Mark(w, now, IndexStates, Failed(now), "idle")
  /\ UNCHANGED <<domainVars, up, docs, calls, adm, faults, withdrawn, processed>>

MarkReady(w) ==
  /\ work[w].pc = "mark_ready"
  /\ Mark(w, work[w].copy, {"accepted"}, Ready(work[w].copy), "apply")
  /\ UNCHANGED <<domainVars, up, docs, calls, adm, faults, withdrawn, processed>>

\* the domain is refreshed and its applied generation set to the desired one
ApplyDesired(w) ==
  /\ work[w].pc = "apply"
  /\ applied' = IF desired >= applied THEN desired ELSE applied
  /\ Leave(w)
  /\ UNCHANGED <<row, desired, started, up, docs, calls, adm, faults, withdrawn, processed>>

\* the process dies or an exception ends the iteration; a submit call that was
\* under way may still land
Crash(w) ==
  /\ work[w].pc # "idle"
  /\ Fault
  /\ Leave(w)
  /\ \/ UNCHANGED calls
     \/ work[w].pc = "submit" /\ calls' = calls \cup {Request(w)}
  /\ UNCHANGED <<row, domainVars, up, docs, adm, withdrawn, processed>>

Executing(s) == \E w \in Workers : Src(w) = s

\* index_lease_expires_at passes; under a living worker its heartbeats failed
LeaseExpires(s) ==
  /\ row[s].lease \notin {"none", "expired"} /\ Exists(s)
  /\ IF row[s].lease # "backoff" /\ Executing(s) THEN Fault ELSE UNCHANGED faults
  /\ row' = [row EXCEPT ![s].lease = "expired"]
  /\ UNCHANGED <<domainVars, up, docs, calls, work, adm, withdrawn, processed>>

-----------------------------------------------------------------------------
(* Administrative requests and source deletion                             *)

Done(a) == adm' = [adm EXCEPT ![a] = NoRequest]

\* _remote_delete_required
RemoteDeleteRequired(r) == r.req # 0 /\ (r.idx \in {"accepted", "ready"} \/ r.doc)

\* the copy the request goes on with, and whether the runtime is asked first
Start(a, kind, s, old, new, needed) ==
  adm' = [adm EXCEPT ![a] =
            [NoRequest EXCEPT !.pc = IF needed /\ old.req # 0 THEN "advance"
                                                         ELSE "finish",
                              !.kind = kind, !.src = s, !.req = old.req,
                              !.copy = new]]

\* retry_source_index up to the remote deletion: nothing is committed yet
BeginRetry(a, s) ==
  /\ adm[a].pc = "idle"
  /\ row[s].state = "prepared" /\ row[s].gen < MaxGeneration
  /\ row[s].idx \notin {"queued", "submitting", "cancelling"}
  /\ Start(a, "retry", s, row[s], row[s], RemoteDeleteRequired(row[s]))
  /\ UNCHANGED <<row, domainVars, up, docs, calls, work, faults, withdrawn, processed>>

\* mutant of Fenced: the generation stays
FencedByState(r) == [r EXCEPT !.idx = "cancelling", !.lease = "none"]

\* the generation moves on and the lease goes
Fenced(r) == [r EXCEPT !.gen = @ + 1, !.idx = "cancelling", !.lease = "none"]

NeedsDelete(r) == RemoteDeleteRequired(r) \/ r.idx = "submitting"

\* cancel_source_index up to its first commit
BeginCancel(a, s) ==
  /\ adm[a].pc = "idle"
  /\ row[s].state = "prepared" /\ row[s].gen < MaxGeneration
  /\ row[s].idx # "cancelled"
  /\ row' = [row EXCEPT ![s] = Fenced(@)]
  /\ withdrawn' = [withdrawn EXCEPT ![s] = TRUE]
  /\ Start(a, "cancel", s, row[s], Fenced(row[s]), NeedsDelete(row[s]))
  /\ UNCHANGED <<domainVars, up, docs, calls, work, faults, processed>>

\* enqueue_delete_source, as far as the index columns care
EnqueueDelete(s) ==
  /\ row[s].state = "prepared"
  /\ row' = [row EXCEPT ![s].state = "deleting"]
  /\ withdrawn' = [withdrawn EXCEPT ![s] = TRUE]
  /\ UNCHANGED <<domainVars, up, docs, calls, work, adm, faults, processed>>

\* SourceDeleteWorker: cleanup_index_before_source_delete up to its first commit
BeginCleanup(a, s) ==
  LET old == row[s]
      new == IF old.idx = "cancelled" THEN old
             ELSE [Fenced(old) EXCEPT !.idx = IF NeedsDelete(old) THEN "cancelling"
                                                                  ELSE "cancelled"]
  IN /\ adm[a].pc = "idle"
     /\ old.state = "deleting" /\ old.gen < MaxGeneration
     /\ row' = [row EXCEPT ![s] = new]
     /\ Start(a, "cleanup", s, old, new, NeedsDelete(old))
     /\ UNCHANGED <<domainVars, up, docs, calls, work, faults, withdrawn, processed>>

\* _delete_remote_if_needed: lock the domain, advance, commit, refresh
AdvanceForDelete(a) ==
  /\ adm[a].pc = "advance"
  /\ desired < MaxDesired
  /\ desired' = desired + 1
  /\ adm' = [adm EXCEPT ![a].pc = "delete", ![a].corpus = desired + 1,
                        ![a].applied = applied]
  /\ UNCHANGED <<row, applied, started, up, docs, calls, work, faults, withdrawn, processed>>

\* DELETE /v1/index: a busy pipeline may keep the document without an error
CallDelete(a) ==
  /\ adm[a].pc = "delete" /\ up
  /\ adm' = [adm EXCEPT ![a].pc = "verify"]
  /\ \/ Remove(<<adm[a].src, adm[a].req>>) /\ UNCHANGED faults
     \/ Fault /\ UNCHANGED docs
  /\ UNCHANGED <<row, domainVars, up, calls, work, withdrawn, processed>>

\* is_absent, then the applied generation from the domain copy, and a commit
VerifyAbsent(a) ==
  /\ adm[a].pc = "verify" /\ up
  /\ <<adm[a].src, adm[a].req>> \notin DOMAIN docs
  /\ applied' = IF adm[a].corpus < adm[a].applied THEN applied
                ELSE Column(applied, adm[a].applied, adm[a].corpus)
  /\ adm' = [adm EXCEPT ![a].pc = "finish"]
  /\ UNCHANGED <<row, desired, started, up, docs, calls, work, faults, withdrawn, processed>>

\* SourceIndexError: the request ends with 502 and the row stays as it was
DeleteFails(a) ==
  /\ adm[a].pc \in {"delete", "verify"}
  /\ IF up /\ (adm[a].pc = "verify" => <<adm[a].src, adm[a].req>> \notin DOMAIN docs)
     THEN Fault ELSE UNCHANGED faults
  /\ Done(a)
  /\ UNCHANGED <<row, domainVars, up, docs, calls, work, withdrawn, processed>>

\* _queue_new_generation on the copy loaded at the start
Requeued(r) == [r EXCEPT !.gen = @ + 1, !.req = r.gen + 1, !.idx = "queued",
                         !.doc = FALSE, !.lease = "none"]

Withdrawn(r) == [r EXCEPT !.idx = "cancelled", !.req = 0, !.doc = FALSE]

FinishRetry(a) ==
  /\ adm[a].pc = "finish" /\ adm[a].kind = "retry"
  /\ Done(a)
  /\ IF Exists(adm[a].src)
     THEN /\ Flush(adm[a].src, adm[a].copy, Requeued(adm[a].copy))
          /\ withdrawn' = [withdrawn EXCEPT ![adm[a].src] = FALSE]
     ELSE UNCHANGED <<row, withdrawn>>
  /\ UNCHANGED <<domainVars, up, docs, calls, work, faults, processed>>

\* a cleanup whose copy is already cancelled has nothing left to write
FinishCancel(a) ==
  /\ adm[a].pc = "finish" /\ adm[a].kind \in {"cancel", "cleanup"}
  /\ adm' = [adm EXCEPT ![a] = IF adm[a].kind = "cancel" THEN NoRequest
                               ELSE [@ EXCEPT !.pc = "remove"]]
  /\ IF Exists(adm[a].src) /\ (adm[a].kind = "cancel" \/ adm[a].copy.idx # "cancelled")
     THEN Flush(adm[a].src, adm[a].copy, Withdrawn(adm[a].copy))
     ELSE UNCHANGED row
  /\ UNCHANGED <<domainVars, up, docs, calls, work, faults, withdrawn, processed>>

\* the stored files are gone and the row is deleted
RemoveSource(a) ==
  /\ adm[a].pc = "remove"
  /\ Done(a)
  /\ row' = [row EXCEPT ![adm[a].src].state = "gone"]
  /\ UNCHANGED <<domainVars, up, docs, calls, work, faults, withdrawn, processed>>

\* the process serving the request dies, or its transaction fails
CrashRequest(a) ==
  /\ adm[a].pc # "idle"
  /\ Fault
  /\ Done(a)
  /\ UNCHANGED <<row, domainVars, up, docs, calls, work, withdrawn, processed>>

-----------------------------------------------------------------------------
WorkerStep(w) ==
  \/ FailWithoutRequest(w) \/ Heartbeat(w) \/ Probe(w) \/ DecideProbe(w)
  \/ Postpone(w) \/ SealFails(w) \/ AdvanceForSubmit(w)
  \/ SubmitSucceeds(w) \/ SubmitRefused(w) \/ SubmitUnanswered(w) \/ BeatLoses(w)
  \/ MarkLanded(w) \/ MarkUnanswered(w) \/ MarkReady(w) \/ ApplyDesired(w)

RequestStep(a) ==
  \/ AdvanceForDelete(a) \/ CallDelete(a) \/ VerifyAbsent(a) \/ DeleteFails(a)
  \/ FinishRetry(a) \/ FinishCancel(a) \/ RemoveSource(a)

Next ==
  \/ \E w \in Workers : WorkerStep(w) \/ Crash(w) \/ \E s \in Sources : Claim(w, s)
  \/ \E a \in Requests : \/ RequestStep(a) \/ CrashRequest(a)
                         \/ \E s \in Sources : BeginRetry(a, s) \/ BeginCancel(a, s)
                                               \/ BeginCleanup(a, s)
  \/ \E s \in Sources : EnqueueDelete(s) \/ LeaseExpires(s)
  \/ \E q \in DOMAIN docs, status \in {"processed", "failed"} : FinishDocument(q, status)
  \/ \E q \in calls : LateSubmit(q)
  \/ Toggle

Spec == Init /\ [][Next]_vars

\* run_loop polls, calls have time-outs, clocks advance and the runtime works
\* off its pipeline.  Administrators, faults and late calls owe nothing.
Fairness ==
  /\ \A w \in Workers : WF_vars(WorkerStep(w))
  /\ \A s \in Sources : WF_vars(\E w \in Workers : Claim(w, s))
  /\ \A s \in Sources : WF_vars(LeaseExpires(s) /\ faults' = faults)
  /\ WF_vars(\E q \in DOMAIN docs, status \in {"processed", "failed"} :
               FinishDocument(q, status))
  /\ \A a \in Requests : WF_vars(RequestStep(a))

FairSpec == Spec /\ Fairness

-----------------------------------------------------------------------------
(* Invariants                                                              *)

DomainTyped ==
  /\ desired \in Nat /\ applied \in Nat
  /\ started \in BOOLEAN /\ up \in BOOLEAN
  /\ faults \in Nat

RuntimeTyped ==
  /\ DOMAIN docs \subseteq Sources \X Nat
  /\ \A q \in DOMAIN docs : docs[q] \in Statuses
  /\ calls \subseteq Sources \X Nat
  /\ processed \subseteq Sources \X Nat

WorkersTyped ==
  /\ work \in [Workers -> Jobs]
  /\ \A w \in Workers : (work[w].pc = "idle") <=> (work[w].src = NoSource)

RequestsTyped ==
  /\ adm \in [Requests -> Operations]
  /\ \A a \in Requests : (adm[a].pc = "idle") <=> (adm[a].src = NoSource)

\* Every column and every loaded copy keeps its vocabulary, and a worker or a
\* request has a source exactly while it is at work.
TypeOK ==
  /\ row \in [Sources -> Rows]
  /\ withdrawn \in [Sources -> BOOLEAN]
  /\ DomainTyped /\ RuntimeTyped /\ WorkersTyped /\ RequestsTyped

\* source_has_current_index_identity
HasIdentity(r) == r.req # 0 /\ r.gen >= 1 /\ r.req = r.gen

\* source_is_query_eligible, but for the domain's own availability
Eligible(s) == row[s].state = "prepared" /\ row[s].idx = "ready" /\ HasIdentity(row[s])

\* "Generation counters ... prevent stale completions": once a cancellation or
\* deletion has committed its fence, no submission, poll or zombie of an earlier request
\* makes the source retrievable again, until a retry has queued a new request.
\* Stale completions do overwrite the state; the identity is what holds.
FencedStaysIneligible ==
  \A s \in Sources : withdrawn[s] => ~Eligible(s)

\* "Durable latch: set once before first external index submit": whatever is
\* lost, late or crashed, a document or a call in the runtime implies that the
\* domain's extraction profile is already frozen.
LatchedBeforeSubmit ==
  (DOMAIN docs # {} \/ calls # {}) => started

-----------------------------------------------------------------------------
(* The abstract specification this one implements                          *)

gate == [s \in Sources |-> IF row[s].state # "prepared" THEN "retired"
                          ELSE IF Eligible(s) THEN "open"
                          ELSE IF withdrawn[s] THEN "locked" ELSE "shut"]

Gate == INSTANCE RetrievalGate

\* What retrieval may rely on: a source becomes retrievable only from a state
\* in which a request is open, never straight out of a cancellation, and never
\* again once it is being deleted.
KeepsRetrievalGate == Gate!Spec

-----------------------------------------------------------------------------
(* Action and liveness properties                                          *)

\* A request cut short by a runtime error leaves other requests alone: after
\* the rollback its marks see the row as it is, so they touch it only while it
\* still carries the generation and the request that was submitted.
ErrorsMarkTheirOwnRequest ==
  [][\A w \in Workers :
       work[w].pc \in {"timeout", "error"} /\ work'[w].pc = "idle"
       /\ row'[Src(w)].idx = "failed" /\ row[Src(w)].idx # "failed"
       => /\ row[Src(w)].gen = work[w].gen /\ row[Src(w)].req = work[w].req
          /\ ~withdrawn[Src(w)]]_vars

Processing(s) == row[s].state = "prepared" /\ row[s].idx \in {"queued", "submitting", "accepted"}

\* Lease recovery and reconciliation: while the domain stays available, an
\* index request that is queued, submitted or polled comes to a verdict,
\* whatever crashed, timed out or was overwritten on the way.
IndexingSettles ==
  <>[]up => \A s \in Sources : Processing(s) ~> ~Processing(s)

-----------------------------------------------------------------------------
(* What the documentation says and the code does not keep                  *)

Quiet(s) == /\ \A w \in Workers : Src(w) # s
            /\ \A a \in Requests : adm[a].src # s

\* data-and-lifecycle, "Generation counters and content hashes make retry safe
\* and prevent stale completions": a retrievable source's request was indexed.
EligibleWasIndexed ==
  \A s \in Sources : Eligible(s) => <<s, row[s].req>> \in processed

\* data-and-lifecycle, "commit operation intent before an external call": with
\* nobody at work, a retrievable source's document is there.
EligibleIsIndexed ==
  \A s \in Sources : Eligible(s) /\ Quiet(s) => <<s, row[s].req>> \in DOMAIN docs

\* http-api-catalog, index/cancel, "remote absence verified before terminal".
CancelledMeansAbsent ==
  \A s \in Sources : row[s].idx = "cancelled" /\ Quiet(s) /\ calls = {} =>
    \A q \in DOMAIN docs : q[1] # s

\* data-and-lifecycle, "Timeout or transport loss with an unknown remote outcome
\* enters reconciliation before retry": a queued request is not one of several
\* that the runtime may hold.
UnknownOutcomesAreReconciled ==
  \A s \in Sources : row[s].idx = "queued" /\ Quiet(s) =>
    \A q \in DOMAIN docs \cup calls : q[1] = s => q[2] = row[s].req

\* M-18, "the domain's desired generation advances ahead of the applied": graph
\* reads are refused while a document is being removed.
DeletionFencesGraph ==
  \A a \in Requests : adm[a].pc \in {"delete", "verify"} => desired > applied

\* data-and-lifecycle, "Generation counters ... make retry safe": an index
\* generation is never given out again.
GenerationsNeverGoBack ==
  [][\A s \in Sources : row'[s].gen >= row[s].gen]_vars

\* data-and-lifecycle, "Generation counters ... prevent stale completions": no
\* worker undoes a cancellation.
WorkersKeepCancelled ==
  [][\A s \in Sources : work' # work /\ row[s].idx \in {"cancelling", "cancelled"}
                       => row'[s].idx = row[s].idx]_vars

\* deployment-topology, "unresolved external work remains recoverable by lease
\* expiry/reconciliation": a cancellation does not stay unresolved.
Cancelling(s) == row[s].state = "prepared" /\ row[s].idx = "cancelling"

CancellingEnds ==
  <>[]up => \A s \in Sources : Cancelling(s) ~> ~Cancelling(s)
=============================================================================
