------------------------- MODULE SourceIndexProofs -------------------------
(***************************************************************************)
(* Proofs about SourceIndex for every number of sources, workers, requests *)
(* and index generations.                                                  *)
(***************************************************************************)
EXTENDS SourceIndex, TLAPS

\* Two versions of a row that belong to the same index request.
SameRequest(r, q) == r.gen = q.gen /\ r.req = q.req /\ r.state = q.state

\* What a worker may do to the rows: touch one of them, within its request.
RowsPolled ==
  /\ row' \in [Sources -> Rows]
  /\ \E s \in Sources : /\ SameRequest(row[s], row'[s])
                        /\ \A t \in Sources \ {s} : row'[t] = row[t]

-----------------------------------------------------------------------------
(* A flush touches one row; where the loaded copy and the new one agree on  *)
(* the request, so do the row before and the row after.                    *)
LEMMA FlushWritesOneRow ==
  ASSUME row \in [Sources -> Rows], NEW s \in Sources, NEW old \in Rows,
         NEW new \in Rows, Flush(s, old, new)
  PROVE  /\ row' \in [Sources -> Rows]
         /\ row'[s] = Flushed(row[s], old, new)
         /\ \A t \in Sources \ {s} : row'[t] = row[t]
         /\ SameRequest(old, new) => SameRequest(row[s], row'[s])
<1>1. Flushed(row[s], old, new) \in Rows
  BY DEF Flushed, Column, Rows
<1>2. /\ row' \in [Sources -> Rows]
      /\ row'[s] = Flushed(row[s], old, new)
      /\ \A t \in Sources \ {s} : row'[t] = row[t]
  BY <1>1 DEF Flush
<1>3. SameRequest(old, new) => SameRequest(row[s], row'[s])
  BY <1>2 DEF SameRequest, Flushed, Column
<1>4. QED
  BY <1>2, <1>3

(* Every mark a worker makes on a row keeps it within its request.         *)
LEMMA MarksKeepRequest ==
  ASSUME NEW r \in Rows
  PROVE  /\ Accepted(r) \in Rows /\ SameRequest(r, Accepted(r))
         /\ Ready(r) \in Rows /\ SameRequest(r, Ready(r))
         /\ Failed(r) \in Rows /\ SameRequest(r, Failed(r))
         /\ Waiting(r) \in Rows /\ SameRequest(r, Waiting(r))
BY DEF Accepted, Ready, Failed, Waiting, Rows, IndexStates, Leases, SameRequest

(* A worker at work has a source.                                          *)
LEMMA BusyWorkerHasSource ==
  ASSUME TypeOK, NEW w \in Workers, work[w].pc # "idle"
  PROVE  /\ Src(w) \in Sources /\ work[w] \in Jobs /\ work[w].copy \in Rows
         /\ row[Src(w)] \in Rows /\ work[w].req \in Nat
BY DEF TypeOK, WorkersTyped, Jobs, Src

LEMMA BusyRequestHasSource ==
  ASSUME TypeOK, NEW a \in Requests, adm[a].pc # "idle"
  PROVE  /\ adm[a].src \in Sources /\ adm[a] \in Operations /\ adm[a].copy \in Rows
         /\ row[adm[a].src] \in Rows /\ adm[a].req \in Nat
BY DEF TypeOK, RequestsTyped, Operations

(* Leaving or going on to another stage keeps the worker typed.            *)
LEMMA LeaveTyped ==
  ASSUME TypeOK, NEW w \in Workers, Leave(w)
  PROVE  WorkersTyped'
BY DEF TypeOK, WorkersTyped, Jobs, Leave, NoWork, Stages, IndexStates, Rows,
       Published, Leases, Probes, Statuses

LEMMA GotoTyped ==
  ASSUME TypeOK, NEW w \in Workers, work[w].pc # "idle",
         NEW stage \in Stages \ {"idle"}, Goto(w, stage)
  PROVE  WorkersTyped'
BY DEF TypeOK, WorkersTyped, Jobs, Goto

LEMMA DoneTyped ==
  ASSUME TypeOK, NEW a \in Requests, Done(a)
  PROVE  RequestsTyped'
BY DEF TypeOK, RequestsTyped, Operations, Done, NoRequest, Steps, Kinds, Rows,
       Published, IndexStates, Leases

(* One mark and its commit, on whatever copy the worker holds.             *)
LEMMA MarkStep ==
  ASSUME TypeOK, NEW w \in Workers, work[w].pc # "idle", NEW copy \in Rows,
         NEW allowed, NEW new \in Rows, SameRequest(copy, new),
         NEW stage \in Stages, Mark(w, copy, allowed, new, stage)
  PROVE  RowsPolled /\ WorkersTyped'
<1>1. Src(w) \in Sources
  BY BusyWorkerHasSource
<1>2. CASE UNCHANGED row /\ Leave(w)
  BY <1>1, <1>2, LeaveTyped DEF RowsPolled, SameRequest, TypeOK
<1>3. CASE /\ Flush(Src(w), copy, new)
           /\ IF stage = "idle" THEN Leave(w)
              ELSE work' = [work EXCEPT ![w].pc = stage, ![w].copy = new]
  <2>1. RowsPolled
    BY <1>1, <1>3, FlushWritesOneRow DEF RowsPolled, TypeOK
  <2>2. CASE stage = "idle"
    BY <1>3, <2>1, <2>2, LeaveTyped
  <2>3. CASE stage # "idle"
    <3>1. work' = [work EXCEPT ![w].pc = stage, ![w].copy = new]
      BY <1>3, <2>3
    <3>2. WorkersTyped'
      BY <2>3, <3>1 DEF TypeOK, WorkersTyped, Jobs
    <3>3. QED
      BY <2>1, <3>2
  <2>4. QED
    BY <2>2, <2>3
<1>4. QED
  BY <1>2, <1>3 DEF Mark

(* A worker that leaves every row alone.                                   *)
LEMMA IdleRows ==
  ASSUME TypeOK, NEW w \in Workers, work[w].pc # "idle", UNCHANGED row
  PROVE  RowsPolled
BY BusyWorkerHasSource DEF RowsPolled, SameRequest, TypeOK

(* A submit call that lands keeps the runtime typed.                       *)
LEMMA LandTyped ==
  ASSUME TypeOK, NEW q \in Sources \X Nat, Land(q)
  PROVE  /\ DOMAIN docs' \subseteq Sources \X Nat
         /\ \A x \in DOMAIN docs' : docs'[x] \in Statuses
BY DEF TypeOK, RuntimeTyped, Land, Statuses

LEMMA ClaimStep ==
  ASSUME TypeOK, NEW w \in Workers, NEW s \in Sources, Claim(w, s)
  PROVE  RowsPolled /\ TypeOK'
<1> DEFINE new == [row[s] EXCEPT !.idx = IF @ = "queued" THEN "submitting" ELSE @,
                                 !.lease = OwnerOf[w]]
<1>1. row[s] \in Rows /\ OwnerOf[w] \in Leases
  BY IndexConstants DEF TypeOK, Leases
<1>2. new \in Rows /\ SameRequest(row[s], new)
  BY <1>1 DEF Rows, IndexStates, SameRequest
<1>3. row' = [row EXCEPT ![s] = new]
  BY DEF Claim
<1>4. RowsPolled
  BY <1>2, <1>3 DEF RowsPolled, TypeOK
<1>5. WorkersTyped'
  <2>1. work' = [work EXCEPT ![w] =
                   [pc |-> "claimed", src |-> s, gen |-> new.gen, req |-> new.req,
                    phase |-> new.idx, copy |-> new, desired |-> desired,
                    probe |-> "missing"]]
    BY DEF Claim
  <2>2. new.gen \in Nat /\ new.req \in Nat /\ new.idx \in IndexStates
    BY <1>2 DEF Rows
  <2> HIDE DEF new
  <2>3. QED
    BY <1>2, <2>1, <2>2, IndexConstants
    DEF TypeOK, WorkersTyped, DomainTyped, Jobs, Stages, Probes, Statuses
<1>6. QED
  BY <1>4, <1>5 DEF Claim, RowsPolled, TypeOK, DomainTyped, RuntimeTyped, RequestsTyped,
                    domainVars

(* Actions that only mark a row and leave or go on.                        *)
LEMMA MarkingStep ==
  ASSUME TypeOK, NEW w \in Workers,
         \/ FailWithoutRequest(w) \/ DecideProbe(w) \/ Postpone(w) \/ SealFails(w)
         \/ MarkLanded(w) \/ MarkUnanswered(w) \/ MarkReady(w)
  PROVE  RowsPolled /\ TypeOK'
<1>1. work[w].pc # "idle"
  BY DEF FailWithoutRequest, DecideProbe, Postpone, SealFails, NeedsSubmit,
         MarkLanded, MarkUnanswered, MarkReady
<1>2. Src(w) \in Sources /\ work[w].copy \in Rows /\ Reloaded(w) \in Rows
  BY <1>1, BusyWorkerHasSource DEF Reloaded
<1>3. \A r \in Rows : /\ Accepted(r) \in Rows /\ SameRequest(r, Accepted(r))
                      /\ Ready(r) \in Rows /\ SameRequest(r, Ready(r))
                      /\ Failed(r) \in Rows /\ SameRequest(r, Failed(r))
                      /\ Waiting(r) \in Rows /\ SameRequest(r, Waiting(r))
  BY MarksKeepRequest
<1>4. RowsPolled /\ WorkersTyped'
  <2>1. CASE FailWithoutRequest(w)
    <3>1. [work[w].copy EXCEPT !.idx = "failed", !.lease = "none"]
            = Failed(work[w].copy)
      BY DEF Failed
    <3>2. CASE Flush(Src(w), work[w].copy, Failed(work[w].copy))
      BY <1>2, <1>3, <2>1, <3>2, LeaveTyped, FlushWritesOneRow
      DEF FailWithoutRequest, RowsPolled, TypeOK
    <3>3. CASE UNCHANGED row
      BY <1>1, <2>1, <3>3, LeaveTyped, IdleRows DEF FailWithoutRequest
    <3>4. QED
      BY <2>1, <3>1, <3>2, <3>3 DEF FailWithoutRequest
  <2>2. CASE DecideProbe(w)
    <3> DEFINE copy == work[w].copy
    <3>1. \/ \E allowed \in {IndexStates} : Mark(w, copy, allowed, Failed(copy), "idle")
          \/ Mark(w, copy, {"submitting"}, Accepted(copy), "mark_ready")
          \/ Mark(w, copy, {"accepted"}, Ready(copy), "apply")
          \/ Mark(w, copy, {"submitting"}, Accepted(copy), "idle")
          \/ Mark(w, copy, {"submitting", "accepted"}, Waiting(copy), "idle")
      <4>1. work[w].probe \in Probes
        BY <1>1, BusyWorkerHasSource DEF Jobs
      <4>2. QED
        BY <2>2, <4>1 DEF DecideProbe, Probes, Statuses
    <3>2. "idle" \in Stages /\ "mark_ready" \in Stages /\ "apply" \in Stages
      BY DEF Stages
    <3>3. QED
      BY <1>1, <1>2, <1>3, <3>1, <3>2, MarkStep
  <2>3. CASE Postpone(w)
    <3>1. CASE Flush(Src(w), work[w].copy, Waiting(work[w].copy))
      BY <1>2, <1>3, <2>3, <3>1, LeaveTyped, FlushWritesOneRow
      DEF Postpone, RowsPolled, TypeOK
    <3>2. CASE UNCHANGED row
      BY <1>1, <2>3, <3>2, LeaveTyped, IdleRows DEF Postpone
    <3>3. QED
      BY <2>3, <3>1, <3>2 DEF Postpone
  <2>4. CASE SealFails(w)
    BY <1>1, <1>2, <1>3, <2>4, MarkStep DEF SealFails, Stages
  <2>5. CASE MarkLanded(w)
    BY <1>1, <1>2, <1>3, <2>5, MarkStep DEF MarkLanded, Stages
  <2>6. CASE MarkUnanswered(w)
    BY <1>1, <1>2, <1>3, <2>6, MarkStep DEF MarkUnanswered, Stages
  <2>7. CASE MarkReady(w)
    BY <1>1, <1>2, <1>3, <2>7, MarkStep DEF MarkReady, Stages
  <2>8. QED
    BY <2>1, <2>2, <2>3, <2>4, <2>5, <2>6, <2>7
<1>5. /\ UNCHANGED <<domainVars, up, docs, calls, adm, withdrawn, processed>>
      /\ UNCHANGED faults \/ faults' = faults + 1
  BY DEF FailWithoutRequest, DecideProbe, Postpone, SealFails, NeedsSubmit,
         MarkLanded, MarkUnanswered, MarkReady, Fault
<1>6. QED
  BY <1>4, <1>5 DEF RowsPolled, TypeOK, DomainTyped, RuntimeTyped, RequestsTyped,
                    domainVars

(* Actions of a worker that leave every row alone.                         *)
LEMMA CallingStep ==
  ASSUME TypeOK, NEW w \in Workers,
         \/ Heartbeat(w) \/ Probe(w) \/ AdvanceForSubmit(w) \/ SubmitSucceeds(w)
         \/ SubmitRefused(w) \/ SubmitUnanswered(w) \/ BeatLoses(w)
         \/ ApplyDesired(w) \/ Crash(w)
  PROVE  RowsPolled /\ TypeOK'
<1>1. work[w].pc # "idle" /\ UNCHANGED <<row, up, adm, withdrawn, processed>>
  BY DEF Heartbeat, Probe, AdvanceForSubmit, NeedsSubmit, SubmitSucceeds, SubmitRefused,
         SubmitUnanswered, BeatLoses, ApplyDesired, Crash, domainVars
<1>2. Src(w) \in Sources /\ work[w] \in Jobs /\ row[Src(w)] \in Rows
  BY <1>1, BusyWorkerHasSource
<1>3. RowsPolled
  BY <1>1, IdleRows
<1>4. Request(w) \in Sources \X Nat
  BY <1>1, BusyWorkerHasSource DEF Request
<1>5. WorkersTyped'
  <2>1. CASE Heartbeat(w)
    <3>1. CASE Leave(w)
      BY <3>1, LeaveTyped
    <3>2. CASE work' = [work EXCEPT ![w].pc = "probe", ![w].copy = row[Src(w)]]
      BY <1>1, <1>2, <3>2 DEF TypeOK, WorkersTyped, Jobs, Stages
    <3>3. QED
      BY <2>1, <3>1, <3>2 DEF Heartbeat
  <2>2. CASE Probe(w)
    <3>1. PICK answer \in Probes :
            work' = [work EXCEPT ![w].pc = "decide", ![w].probe = answer]
      <4>1. Answer(Request(w)) \in Probes
        BY DEF TypeOK, RuntimeTyped, Answer, Probes
      <4>2. "unavailable" \in Probes
        BY DEF Probes
      <4>3. QED
        BY <2>2, <4>1, <4>2 DEF Probe
    <3>2. [work[w] EXCEPT !.pc = "decide", !.probe = answer] \in Jobs
      BY <1>2 DEF Jobs, Stages
    <3>3. work' = [work EXCEPT ![w] = [@ EXCEPT !.pc = "decide", !.probe = answer]]
      BY <3>1
    <3>4. QED
      BY <1>1, <3>2, <3>3 DEF TypeOK, WorkersTyped, Jobs
  <2>3. CASE AdvanceForSubmit(w)
    BY <1>1, <2>3, GotoTyped DEF AdvanceForSubmit, Stages
  <2>4. CASE SubmitSucceeds(w)
    BY <1>1, <2>4, GotoTyped DEF SubmitSucceeds, Stages
  <2>5. CASE SubmitRefused(w)
    BY <1>1, <2>5, GotoTyped DEF SubmitRefused, Stages
  <2>6. CASE SubmitUnanswered(w)
    BY <1>1, <2>6, GotoTyped DEF SubmitUnanswered, Stages
  <2>7. CASE BeatLoses(w) \/ ApplyDesired(w) \/ Crash(w)
    BY <2>7, LeaveTyped DEF BeatLoses, ApplyDesired, Crash
  <2>8. QED
    BY <2>1, <2>2, <2>3, <2>4, <2>5, <2>6, <2>7
<1>6. DomainTyped'
  <2>1. faults' \in Nat
    BY DEF TypeOK, DomainTyped, Fault, Heartbeat, Probe, AdvanceForSubmit, SubmitSucceeds,
           SubmitRefused, SubmitUnanswered, BeatLoses, ApplyDesired, Crash, domainVars
  <2>2. CASE AdvanceForSubmit(w)
    BY <1>2, <2>1, <2>2 DEF TypeOK, DomainTyped, Jobs, AdvanceForSubmit, Latch
  <2>3. CASE ApplyDesired(w)
    BY <2>1, <2>3 DEF TypeOK, DomainTyped, ApplyDesired
  <2>4. CASE UNCHANGED domainVars
    BY <1>1, <2>1, <2>4 DEF TypeOK, DomainTyped, domainVars
  <2>5. QED
    BY <2>2, <2>3, <2>4
    DEF Heartbeat, Probe, SubmitSucceeds, SubmitRefused, SubmitUnanswered, BeatLoses, Crash
<1>7. RuntimeTyped'
  <2>1. /\ UNCHANGED docs \/ Land(Request(w))
        /\ UNCHANGED calls \/ calls' = calls \cup {Request(w)}
    BY DEF Heartbeat, Probe, AdvanceForSubmit, SubmitSucceeds, SubmitRefused,
           SubmitUnanswered, BeatLoses, ApplyDesired, Crash
  <2>2. /\ DOMAIN docs' \subseteq Sources \X Nat
        /\ \A x \in DOMAIN docs' : docs'[x] \in Statuses
    BY <1>4, <2>1, LandTyped DEF TypeOK, RuntimeTyped
  <2>3. calls' \subseteq Sources \X Nat
    BY <1>4, <2>1 DEF TypeOK, RuntimeTyped
  <2>4. QED
    BY <1>1, <2>2, <2>3 DEF TypeOK, RuntimeTyped
<1>8. QED
  BY <1>1, <1>3, <1>5, <1>6, <1>7 DEF TypeOK, RequestsTyped

(* Whatever a worker does, it changes at most one row and stays within the  *)
(* request that row belongs to.                                            *)
LEMMA WorkerTyped ==
  ASSUME TypeOK, NEW w \in Workers,
         WorkerStep(w) \/ Crash(w) \/ \E s \in Sources : Claim(w, s)
  PROVE  RowsPolled /\ TypeOK'
<1>1. CASE \/ FailWithoutRequest(w) \/ DecideProbe(w) \/ Postpone(w) \/ SealFails(w)
           \/ MarkLanded(w) \/ MarkUnanswered(w) \/ MarkReady(w)
  BY <1>1, MarkingStep
<1>2. CASE \/ Heartbeat(w) \/ Probe(w) \/ AdvanceForSubmit(w) \/ SubmitSucceeds(w)
           \/ SubmitRefused(w) \/ SubmitUnanswered(w) \/ BeatLoses(w)
           \/ ApplyDesired(w) \/ Crash(w)
  BY <1>2, CallingStep
<1>3. CASE \E s \in Sources : Claim(w, s)
  BY <1>3, ClaimStep
<1>4. QED
  BY <1>1, <1>2, <1>3 DEF WorkerStep

-----------------------------------------------------------------------------
(* Administrative requests                                                 *)

LEMMA StartTyped ==
  ASSUME TypeOK, NEW a \in Requests, NEW kind \in Kinds, NEW s \in Sources,
         NEW old \in Rows, NEW new \in Rows, NEW needed, adm[a].pc = "idle",
         Start(a, kind, s, old, new, needed)
  PROVE  /\ RequestsTyped'
         /\ adm'[a].kind = kind /\ adm'[a].src = s /\ adm'[a].copy = new
         /\ \A b \in Requests \ {a} : adm'[b] = adm[b]
<1> DEFINE op == [NoRequest EXCEPT !.pc = IF needed /\ old.req # 0 THEN "advance"
                                                             ELSE "finish",
                                   !.kind = kind, !.src = s, !.req = old.req,
                                   !.copy = new]
<1>1. adm' = [adm EXCEPT ![a] = op]
  BY DEF Start
<1>2. /\ op \in Operations
      /\ op.pc # "idle" /\ op.kind = kind /\ op.src = s /\ op.copy = new
  BY DEF NoRequest, Operations, Steps, Rows
<1> HIDE DEF op
<1>3. /\ adm' \in [Requests -> Operations] /\ adm'[a] = op
      /\ \A b \in Requests \ {a} : adm'[b] = adm[b]
  BY <1>1, <1>2 DEF TypeOK, RequestsTyped
<1>4. RequestsTyped'
  BY <1>2, <1>3, IndexConstants DEF TypeOK, RequestsTyped
<1>5. QED
  BY <1>2, <1>3, <1>4

LEMMA FencedRow ==
  ASSUME NEW r \in Rows
  PROVE  /\ Fenced(r) \in Rows
         /\ Fenced(r).gen = r.gen + 1 /\ Fenced(r).req = r.req
         /\ Fenced(r).state = r.state /\ Fenced(r).idx = "cancelling"
<1>1. r.gen + 1 \in Nat
  BY DEF Rows
<1>2. QED
  BY <1>1 DEF Fenced, Rows, IndexStates, Leases

LEMMA RequeuedRow ==
  ASSUME NEW r \in Rows
  PROVE  /\ Requeued(r) \in Rows
         /\ Requeued(r).gen = r.gen + 1 /\ Requeued(r).req = r.gen + 1
         /\ Requeued(r).state = r.state /\ Requeued(r).idx = "queued"
<1>1. r.gen + 1 \in Nat
  BY DEF Rows
<1>2. QED
  BY <1>1 DEF Requeued, Rows, IndexStates, Leases

LEMMA WithdrawnRow ==
  ASSUME NEW r \in Rows
  PROVE  /\ Withdrawn(r) \in Rows
         /\ Withdrawn(r).gen = r.gen /\ Withdrawn(r).req = 0
         /\ Withdrawn(r).state = r.state /\ Withdrawn(r).idx = "cancelled"
BY DEF Withdrawn, Rows, IndexStates

\* What BeginCleanup makes of a row.
CleanedUp(r) ==
  IF r.idx = "cancelled" THEN r
  ELSE [Fenced(r) EXCEPT !.idx = IF NeedsDelete(r) THEN "cancelling" ELSE "cancelled"]

LEMMA CleanedUpRow ==
  ASSUME NEW r \in Rows
  PROVE  /\ CleanedUp(r) \in Rows /\ CleanedUp(r).state = r.state
         /\ CleanedUp(r).req = r.req
         /\ CleanedUp(r).gen = r.gen \/ CleanedUp(r).gen = r.gen + 1
<1>1. CASE r.idx = "cancelled"
  BY <1>1 DEF CleanedUp
<1>2. CASE r.idx # "cancelled"
  BY <1>2, FencedRow DEF CleanedUp, Rows, IndexStates
<1>3. QED
  BY <1>1, <1>2

(* Steps that open a request or finish one: they write one row.            *)
LEMMA WritingStep ==
  ASSUME TypeOK, NEW a \in Requests,
         \/ \E s \in Sources : BeginRetry(a, s) \/ BeginCancel(a, s) \/ BeginCleanup(a, s)
         \/ FinishRetry(a) \/ FinishCancel(a) \/ RemoveSource(a)
  PROVE  TypeOK'
<1>1. row' \in [Sources -> Rows] /\ withdrawn' \in [Sources -> BOOLEAN] /\ RequestsTyped'
  <2>1. CASE \E s \in Sources : BeginRetry(a, s)
    <3>1. PICK s \in Sources : BeginRetry(a, s)
      BY <2>1
    <3>2. row[s] \in Rows
      BY DEF TypeOK
    <3>3. RequestsTyped'
      BY <3>1, <3>2, StartTyped DEF BeginRetry, Kinds
    <3>4. QED
      BY <3>1, <3>3 DEF BeginRetry, TypeOK
  <2>2. CASE \E s \in Sources : BeginCancel(a, s)
    <3>1. PICK s \in Sources : BeginCancel(a, s)
      BY <2>2
    <3>2. row[s] \in Rows /\ Fenced(row[s]) \in Rows
      BY FencedRow DEF TypeOK
    <3>3. RequestsTyped'
      BY <3>1, <3>2, StartTyped DEF BeginCancel, Kinds
    <3>4. QED
      BY <3>1, <3>2, <3>3 DEF BeginCancel, TypeOK
  <2>3. CASE \E s \in Sources : BeginCleanup(a, s)
    <3>1. PICK s \in Sources : BeginCleanup(a, s)
      BY <2>3
    <3>2. row[s] \in Rows /\ CleanedUp(row[s]) \in Rows
      BY CleanedUpRow DEF TypeOK
    <3>3. /\ adm[a].pc = "idle" /\ UNCHANGED withdrawn
          /\ row' = [row EXCEPT ![s] = CleanedUp(row[s])]
          /\ Start(a, "cleanup", s, row[s], CleanedUp(row[s]), NeedsDelete(row[s]))
      BY <3>1 DEF BeginCleanup, CleanedUp
    <3>4. RequestsTyped'
      BY <3>2, <3>3, StartTyped DEF Kinds
    <3>5. QED
      BY <3>2, <3>3, <3>4 DEF TypeOK
  <2>4. CASE FinishRetry(a)
    <3>1. adm[a].src \in Sources /\ adm[a].copy \in Rows /\ Requeued(adm[a].copy) \in Rows
      BY <2>4, BusyRequestHasSource, RequeuedRow DEF FinishRetry
    <3>2. row' \in [Sources -> Rows]
      BY <2>4, <3>1, FlushWritesOneRow DEF FinishRetry, TypeOK
    <3>3. QED
      BY <2>4, <3>1, <3>2, DoneTyped DEF FinishRetry, TypeOK
  <2>5. CASE FinishCancel(a)
    <3>1. adm[a].src \in Sources /\ adm[a].copy \in Rows /\ Withdrawn(adm[a].copy) \in Rows
      BY <2>5, BusyRequestHasSource, WithdrawnRow DEF FinishCancel
    <3>2. row' \in [Sources -> Rows]
      BY <2>5, <3>1, FlushWritesOneRow DEF FinishCancel, TypeOK
    <3>3. RequestsTyped'
      <4>1. CASE adm[a].kind = "cancel"
        BY <2>5, <4>1, DoneTyped DEF FinishCancel, Done
      <4>2. CASE adm[a].kind # "cancel"
        <5>1. adm' = [adm EXCEPT ![a] = [@ EXCEPT !.pc = "remove"]]
          BY <2>5, <4>2 DEF FinishCancel
        <5>2. adm[a].pc # "idle"
          BY <2>5 DEF FinishCancel
        <5>3. QED
          BY <5>1, <5>2 DEF TypeOK, RequestsTyped, Operations, Steps
      <4>3. QED
        BY <4>1, <4>2
    <3>4. QED
      BY <2>5, <3>2, <3>3 DEF FinishCancel, TypeOK
  <2>6. CASE RemoveSource(a)
    <3>1. adm[a].src \in Sources /\ row[adm[a].src] \in Rows
      BY <2>6, BusyRequestHasSource DEF RemoveSource
    <3>2. row' \in [Sources -> Rows]
      BY <2>6, <3>1 DEF RemoveSource, Rows, TypeOK
    <3>3. QED
      BY <2>6, <3>2, DoneTyped DEF RemoveSource, TypeOK
  <2>7. QED
    BY <2>1, <2>2, <2>3, <2>4, <2>5, <2>6
<1>2. UNCHANGED <<domainVars, up, docs, calls, work, faults, processed>>
  BY DEF BeginRetry, BeginCancel, BeginCleanup, FinishRetry, FinishCancel, RemoveSource
<1>3. QED
  BY <1>1, <1>2 DEF TypeOK, DomainTyped, RuntimeTyped, WorkersTyped, domainVars

(* Steps of a request that leave the rows alone.                           *)
LEMMA DeletingStep ==
  ASSUME TypeOK, NEW a \in Requests,
         \/ AdvanceForDelete(a) \/ CallDelete(a) \/ VerifyAbsent(a)
         \/ DeleteFails(a) \/ CrashRequest(a)
  PROVE  TypeOK'
<1>1. UNCHANGED <<row, up, calls, work, withdrawn, processed>> /\ adm[a].pc # "idle"
  BY DEF AdvanceForDelete, CallDelete, VerifyAbsent, DeleteFails, CrashRequest, domainVars
<1>2. /\ adm[a] \in Operations /\ desired \in Nat /\ applied \in Nat
      /\ desired + 1 \in Nat
  BY DEF TypeOK, RequestsTyped, DomainTyped
<1>3. RequestsTyped'
  <2>1. CASE AdvanceForDelete(a)
    <3>1. [adm[a] EXCEPT !.pc = "delete", !.corpus = desired + 1, !.applied = applied]
            \in Operations
      BY <1>2 DEF Operations, Steps
    <3>2. adm' = [adm EXCEPT ![a] = [@ EXCEPT !.pc = "delete", !.corpus = desired + 1,
                                              !.applied = applied]]
      BY <2>1 DEF AdvanceForDelete
    <3>3. QED
      BY <1>1, <3>1, <3>2 DEF TypeOK, RequestsTyped, Operations
  <2>2. CASE CallDelete(a)
    BY <1>1, <2>2 DEF CallDelete, TypeOK, RequestsTyped, Operations, Steps
  <2>3. CASE VerifyAbsent(a)
    BY <1>1, <2>3 DEF VerifyAbsent, TypeOK, RequestsTyped, Operations, Steps
  <2>4. CASE DeleteFails(a) \/ CrashRequest(a)
    BY <2>4, DoneTyped DEF DeleteFails, CrashRequest
  <2>5. QED
    BY <2>1, <2>2, <2>3, <2>4
<1>4. DomainTyped'
  <2>1. faults' \in Nat
    BY DEF TypeOK, DomainTyped, Fault, AdvanceForDelete, CallDelete, VerifyAbsent,
           DeleteFails, CrashRequest
  <2>2. started' \in BOOLEAN /\ desired' \in Nat
    BY DEF TypeOK, DomainTyped, AdvanceForDelete, CallDelete, VerifyAbsent,
           DeleteFails, CrashRequest, domainVars
  <2>3. applied' \in Nat
    BY <1>2 DEF AdvanceForDelete, CallDelete, VerifyAbsent, DeleteFails, CrashRequest,
                domainVars, Column, Operations
  <2>4. QED
    BY <1>1, <2>1, <2>2, <2>3 DEF TypeOK, DomainTyped
<1>5. RuntimeTyped'
  <2>1. UNCHANGED docs \/ Remove(<<adm[a].src, adm[a].req>>)
    BY DEF AdvanceForDelete, CallDelete, VerifyAbsent, DeleteFails, CrashRequest
  <2>2. QED
    BY <1>1, <2>1 DEF TypeOK, RuntimeTyped, Remove
<1>6. QED
  BY <1>1, <1>3, <1>4, <1>5 DEF TypeOK, WorkersTyped

-----------------------------------------------------------------------------
(* The runtime, the clock and the deletion of a source                     *)

LEMMA RuntimeStep ==
  ASSUME TypeOK,
         \/ \E q \in DOMAIN docs, status \in {"processed", "failed"} : FinishDocument(q, status)
         \/ \E q \in calls : LateSubmit(q)
         \/ Toggle
  PROVE  TypeOK'
<1>1. UNCHANGED <<row, domainVars, work, adm, faults, withdrawn>>
  BY DEF FinishDocument, LateSubmit, Toggle
<1>2. RuntimeTyped' /\ up' \in BOOLEAN
  <2>1. CASE \E q \in DOMAIN docs, status \in {"processed", "failed"} : FinishDocument(q, status)
    BY <2>1 DEF FinishDocument, TypeOK, RuntimeTyped, DomainTyped, Statuses
  <2>2. CASE \E q \in calls : LateSubmit(q)
    <3>1. PICK q \in calls : LateSubmit(q)
      BY <2>2
    <3>2. q \in Sources \X Nat
      BY <3>1 DEF TypeOK, RuntimeTyped
    <3>3. QED
      BY <3>1, <3>2, LandTyped DEF LateSubmit, TypeOK, RuntimeTyped, DomainTyped
  <2>3. CASE Toggle
    BY <2>3 DEF Toggle, TypeOK, RuntimeTyped, DomainTyped
  <2>4. QED
    BY <2>1, <2>2, <2>3
<1>3. QED
  BY <1>1, <1>2 DEF TypeOK, DomainTyped, WorkersTyped, RequestsTyped, domainVars

LEMMA LeaseStep ==
  ASSUME TypeOK, NEW s \in Sources, LeaseExpires(s)
  PROVE  RowsPolled /\ TypeOK'
<1>1. row[s] \in Rows
  BY DEF TypeOK
<1>2. /\ [row[s] EXCEPT !.lease = "expired"] \in Rows
      /\ SameRequest(row[s], [row[s] EXCEPT !.lease = "expired"])
  BY <1>1 DEF Rows, Leases, SameRequest
<1>3. row' = [row EXCEPT ![s] = [@ EXCEPT !.lease = "expired"]]
  BY DEF LeaseExpires
<1>4. RowsPolled
  BY <1>2, <1>3 DEF RowsPolled, TypeOK
<1>5. UNCHANGED <<domainVars, up, docs, calls, work, adm, withdrawn, processed>>
      /\ faults' \in Nat
  BY DEF LeaseExpires, Fault, TypeOK, DomainTyped
<1>6. QED
  BY <1>4, <1>5 DEF RowsPolled, TypeOK, DomainTyped, RuntimeTyped, WorkersTyped,
                    RequestsTyped, domainVars

LEMMA DeleteStep ==
  ASSUME TypeOK, NEW s \in Sources, EnqueueDelete(s)
  PROVE  TypeOK' /\ row'[s].state = "deleting" /\ row'[s].gen = row[s].gen
         /\ row'[s].req = row[s].req
<1>1. row[s] \in Rows
  BY DEF TypeOK
<1>2. [row[s] EXCEPT !.state = "deleting"] \in Rows
  BY <1>1 DEF Rows
<1>3. row' = [row EXCEPT ![s] = [@ EXCEPT !.state = "deleting"]]
  BY DEF EnqueueDelete
<1>4. row' \in [Sources -> Rows]
  BY <1>2, <1>3 DEF TypeOK
<1>5. /\ row'[s].state = "deleting" /\ row'[s].gen = row[s].gen
      /\ row'[s].req = row[s].req
  BY <1>1, <1>3 DEF TypeOK, Rows
<1>6. QED
  BY <1>4, <1>5 DEF EnqueueDelete, TypeOK, DomainTyped, RuntimeTyped, WorkersTyped,
                    RequestsTyped, domainVars

-----------------------------------------------------------------------------
(* The type invariant                                                      *)

LEMMA TypeInitially == Init => TypeOK
<1> SUFFICES ASSUME Init
             PROVE  TypeOK
  OBVIOUS
<1>1. Published \in Rows
  BY DEF Published, Rows, IndexStates, Leases
<1>2. NoWork \in Jobs /\ NoWork.pc = "idle" /\ NoWork.src = NoSource
  BY <1>1 DEF NoWork, Jobs, Stages, IndexStates, Probes, Statuses
<1>3. NoRequest \in Operations /\ NoRequest.pc = "idle" /\ NoRequest.src = NoSource
  BY <1>1 DEF NoRequest, Operations, Steps, Kinds
<1>4. WorkersTyped /\ RequestsTyped
  BY <1>2, <1>3 DEF Init, WorkersTyped, RequestsTyped
<1>5. DomainTyped /\ RuntimeTyped
  BY DEF Init, DomainTyped, RuntimeTyped
<1>6. QED
  BY <1>1, <1>4, <1>5 DEF Init, TypeOK

LEMMA TypeStep == TypeOK /\ [Next]_vars => TypeOK'
<1> SUFFICES ASSUME TypeOK, [Next]_vars
             PROVE  TypeOK'
  OBVIOUS
<1>1. CASE \E w \in Workers : WorkerStep(w) \/ Crash(w) \/ \E s \in Sources : Claim(w, s)
  BY <1>1, WorkerTyped
<1>2. CASE \E a \in Requests : \/ RequestStep(a) \/ CrashRequest(a)
                               \/ \E s \in Sources : \/ BeginRetry(a, s) \/ BeginCancel(a, s)
                                                     \/ BeginCleanup(a, s)
  BY <1>2, WritingStep, DeletingStep DEF RequestStep
<1>3. CASE \E s \in Sources : EnqueueDelete(s) \/ LeaseExpires(s)
  BY <1>3, DeleteStep, LeaseStep
<1>4. CASE \/ \E q \in DOMAIN docs, status \in {"processed", "failed"} :
               FinishDocument(q, status)
           \/ \E q \in calls : LateSubmit(q)
           \/ Toggle
  BY <1>4, RuntimeStep
<1>5. CASE UNCHANGED vars
  BY <1>5 DEF vars, domainVars, TypeOK, DomainTyped, RuntimeTyped, WorkersTyped,
              RequestsTyped
<1>6. QED
  BY <1>1, <1>2, <1>3, <1>4, <1>5 DEF Next

(* Every column, every loaded copy and every runtime document stays within  *)
(* its vocabulary, whatever the numbers of sources, workers and requests.  *)
THEOREM TypeCorrect == Spec => []TypeOK
BY TypeInitially, TypeStep, PTL DEF Spec

-----------------------------------------------------------------------------
(* The latch                                                               *)

\* The latch is set before a worker is in its submit call, and so before any
\* call is under way or any document is in the runtime.
Latched ==
  /\ LatchedBeforeSubmit
  /\ \A w \in Workers : work[w].pc = "submit" => started

\* One worker moved, and not into its submit call.
NotSubmitting(w) ==
  /\ \A v \in Workers \ {w} : work'[v] = work[v]
  /\ work'[w].pc # "submit"

LEMMA LeaveMoves ==
  ASSUME TypeOK, NEW w \in Workers, Leave(w)
  PROVE  NotSubmitting(w)
BY DEF Leave, NoWork, NotSubmitting, TypeOK, WorkersTyped

LEMMA GotoMoves ==
  ASSUME TypeOK, NEW w \in Workers, NEW stage \in Stages \ {"submit"}, Goto(w, stage)
  PROVE  NotSubmitting(w)
BY DEF Goto, NotSubmitting, TypeOK, WorkersTyped, Jobs

LEMMA MarkMoves ==
  ASSUME TypeOK, NEW w \in Workers, NEW copy, NEW allowed, NEW new,
         NEW stage \in Stages \ {"submit"}, Mark(w, copy, allowed, new, stage)
  PROVE  NotSubmitting(w)
<1>1. CASE Leave(w)
  BY <1>1, LeaveMoves
<1>2. CASE work' = [work EXCEPT ![w].pc = stage, ![w].copy = new]
  BY <1>2 DEF NotSubmitting, TypeOK, WorkersTyped, Jobs
<1>3. QED
  BY <1>1, <1>2 DEF Mark

LEMMA OthersMove ==
  ASSUME TypeOK, NEW w \in Workers,
         \/ FailWithoutRequest(w) \/ Heartbeat(w) \/ Probe(w) \/ DecideProbe(w)
         \/ Postpone(w) \/ SealFails(w) \/ SubmitRefused(w) \/ MarkLanded(w)
         \/ MarkUnanswered(w) \/ MarkReady(w) \/ ApplyDesired(w)
         \/ \E s \in Sources : Claim(w, s)
  PROVE  NotSubmitting(w)
<1>1. {"idle", "error", "mark_ready", "apply"} \subseteq Stages \ {"submit"}
  BY DEF Stages
<1>2. CASE FailWithoutRequest(w) \/ Postpone(w) \/ ApplyDesired(w)
  BY <1>2, LeaveMoves DEF FailWithoutRequest, Postpone, ApplyDesired
<1>3. CASE SubmitRefused(w)
  BY <1>1, <1>3, GotoMoves DEF SubmitRefused
<1>4. CASE Heartbeat(w)
  <2>1. CASE Leave(w)
    BY <2>1, LeaveMoves
  <2>2. CASE work' = [work EXCEPT ![w].pc = "probe", ![w].copy = row[Src(w)]]
    BY <2>2 DEF NotSubmitting, TypeOK, WorkersTyped, Jobs
  <2>3. QED
    BY <1>4, <2>1, <2>2 DEF Heartbeat
<1>5. CASE Probe(w)
  BY <1>5 DEF Probe, NotSubmitting, TypeOK, WorkersTyped, Jobs
<1>6. CASE SealFails(w) \/ MarkLanded(w) \/ MarkUnanswered(w) \/ MarkReady(w)
  BY <1>1, <1>6, MarkMoves DEF SealFails, MarkLanded, MarkUnanswered, MarkReady
<1>7. CASE DecideProbe(w)
  <2>1. work[w].pc # "idle"
    BY <1>7 DEF DecideProbe
  <2>2. work[w].probe \in Probes
    BY <2>1, BusyWorkerHasSource DEF Jobs
  <2> DEFINE copy == work[w].copy
  <2>3. \/ Mark(w, copy, IndexStates, Failed(copy), "idle")
        \/ Mark(w, copy, {"submitting"}, Accepted(copy), "mark_ready")
        \/ Mark(w, copy, {"accepted"}, Ready(copy), "apply")
        \/ Mark(w, copy, {"submitting"}, Accepted(copy), "idle")
        \/ Mark(w, copy, {"submitting", "accepted"}, Waiting(copy), "idle")
    BY <1>7, <2>2 DEF DecideProbe, Probes, Statuses
  <2>4. QED
    BY <1>1, <2>3, MarkMoves
<1>8. CASE \E s \in Sources : Claim(w, s)
  <2>1. PICK s \in Sources : Claim(w, s)
    BY <1>8
  <2> DEFINE new == [row[s] EXCEPT !.idx = IF @ = "queued" THEN "submitting" ELSE @,
                                   !.lease = OwnerOf[w]]
             job == [pc |-> "claimed", src |-> s, gen |-> new.gen, req |-> new.req,
                     phase |-> new.idx, copy |-> new, desired |-> desired,
                     probe |-> "missing"]
  <2>2. work' = [work EXCEPT ![w] = job]
    BY <2>1 DEF Claim
  <2> HIDE DEF new
  <2>3. job.pc = "claimed"
    OBVIOUS
  <2> HIDE DEF job
  <2>4. QED
    BY <2>2, <2>3 DEF NotSubmitting, TypeOK, WorkersTyped
<1>9. QED
  BY <1>2, <1>3, <1>4, <1>5, <1>6, <1>7, <1>8

LEMMA LatchedStep == TypeOK /\ Latched /\ [Next]_vars => Latched'
<1> SUFFICES ASSUME TypeOK, Latched, [Next]_vars
             PROVE  Latched'
  OBVIOUS
<1>1. CASE \E w \in Workers : SubmitSucceeds(w) \/ SubmitUnanswered(w)
  <2>1. started /\ UNCHANGED domainVars
    BY <1>1 DEF SubmitSucceeds, SubmitUnanswered, Latched
  <2>2. QED
    BY <2>1 DEF domainVars, Latched, LatchedBeforeSubmit
<1>2. CASE \E w \in Workers : BeatLoses(w) \/ Crash(w)
  <2>1. PICK w \in Workers : BeatLoses(w) \/ Crash(w)
    BY <1>2
  <2>2. work' = [work EXCEPT ![w] = NoWork] /\ UNCHANGED <<docs, started>>
    BY <2>1 DEF BeatLoses, Crash, Leave, domainVars
  <2>3. \A v \in Workers : work'[v].pc = "submit" => work[v].pc = "submit"
    BY <2>2 DEF NoWork, TypeOK, WorkersTyped
  <2>4. UNCHANGED calls \/ work[w].pc = "submit"
    BY <2>1 DEF BeatLoses, Crash
  <2>5. QED
    BY <2>2, <2>3, <2>4 DEF Latched, LatchedBeforeSubmit
<1>3. CASE \E w \in Workers : AdvanceForSubmit(w)
  <2>1. started'
    BY <1>3 DEF AdvanceForSubmit, Latch
  <2>2. QED
    BY <2>1 DEF Latched, LatchedBeforeSubmit
<1>4. CASE \E w \in Workers : \/ FailWithoutRequest(w) \/ Heartbeat(w) \/ Probe(w)
                              \/ DecideProbe(w) \/ Postpone(w) \/ SealFails(w)
                              \/ SubmitRefused(w) \/ MarkLanded(w) \/ MarkUnanswered(w)
                              \/ MarkReady(w) \/ ApplyDesired(w)
                              \/ \E s \in Sources : Claim(w, s)
  <2>1. PICK w \in Workers : \/ FailWithoutRequest(w) \/ Heartbeat(w) \/ Probe(w)
                             \/ DecideProbe(w) \/ Postpone(w) \/ SealFails(w)
                             \/ SubmitRefused(w) \/ MarkLanded(w) \/ MarkUnanswered(w)
                             \/ MarkReady(w) \/ ApplyDesired(w)
                             \/ \E s \in Sources : Claim(w, s)
    BY <1>4
  <2>2. UNCHANGED <<docs, calls, started>>
    BY <2>1 DEF FailWithoutRequest, Heartbeat, Probe, DecideProbe, Postpone, SealFails,
                SubmitRefused, MarkLanded, MarkUnanswered, MarkReady, ApplyDesired,
                Claim, domainVars
  <2>3. \A v \in Workers : work'[v].pc = "submit" => work[v].pc = "submit"
    BY <2>1, OthersMove DEF NotSubmitting
  <2>4. QED
    BY <2>2, <2>3 DEF Latched, LatchedBeforeSubmit
<1>5. CASE \E a \in Requests : \/ RequestStep(a) \/ CrashRequest(a)
                               \/ \E s \in Sources : \/ BeginRetry(a, s) \/ BeginCancel(a, s)
                                                     \/ BeginCleanup(a, s)
  <2>1. PICK a \in Requests : \/ RequestStep(a) \/ CrashRequest(a)
                              \/ \E s \in Sources : \/ BeginRetry(a, s) \/ BeginCancel(a, s)
                                                    \/ BeginCleanup(a, s)
    BY <1>5
  <2>2. UNCHANGED <<calls, work, started>>
    BY <2>1 DEF RequestStep, CrashRequest, BeginRetry, BeginCancel, BeginCleanup,
                AdvanceForDelete, CallDelete, VerifyAbsent, DeleteFails, FinishRetry,
                FinishCancel, RemoveSource, domainVars
  <2>3. DOMAIN docs' \subseteq DOMAIN docs
    BY <2>1 DEF RequestStep, CrashRequest, BeginRetry, BeginCancel, BeginCleanup,
                AdvanceForDelete, CallDelete, VerifyAbsent, DeleteFails, FinishRetry,
                FinishCancel, RemoveSource, Remove
  <2>4. QED
    BY <2>2, <2>3 DEF Latched, LatchedBeforeSubmit
<1>6. CASE \/ \E s \in Sources : EnqueueDelete(s) \/ LeaseExpires(s)
           \/ \E q \in DOMAIN docs, status \in {"processed", "failed"} :
                FinishDocument(q, status)
           \/ \E q \in calls : LateSubmit(q)
           \/ Toggle
  <2>1. UNCHANGED <<work, started>>
    BY <1>6 DEF EnqueueDelete, LeaseExpires, FinishDocument, LateSubmit, Toggle, domainVars
  <2>2. DOMAIN docs' # {} \/ calls' # {} => DOMAIN docs # {} \/ calls # {}
    BY <1>6 DEF EnqueueDelete, LeaseExpires, FinishDocument, LateSubmit, Toggle
  <2>3. QED
    BY <2>1, <2>2 DEF Latched, LatchedBeforeSubmit
<1>7. CASE UNCHANGED vars
  BY <1>7 DEF vars, domainVars, Latched, LatchedBeforeSubmit
<1>8. QED
  BY <1>1, <1>2, <1>3, <1>4, <1>5, <1>6, <1>7 DEF Next, WorkerStep

(* Whatever is lost, late or crashed, a document or a call in a runtime     *)
(* implies that indexing_ever_started is set (mark_domain_indexing_ever_   *)
(* started), for every number of workers and sources.                      *)
THEOREM LatchedFirst == Spec => []LatchedBeforeSubmit
<1>1. Init => Latched
  BY DEF Init, Latched, LatchedBeforeSubmit, NoWork
<1>2. TypeOK /\ Latched /\ [Next]_vars => Latched'
  BY LatchedStep
<1>3. Latched => LatchedBeforeSubmit
  BY DEF Latched
<1>4. QED
  BY <1>1, <1>2, <1>3, TypeCorrect, PTL DEF Spec

-----------------------------------------------------------------------------
(* The fence                                                               *)

\* A request id never runs ahead of its generation, in the row or in a copy;
\* a fenced row has left its request behind; a retry holds a copy that was
\* not waiting to be indexed.
Fences ==
  /\ \A s \in Sources : /\ row[s].req <= row[s].gen
                        /\ withdrawn[s] /\ row[s].state = "prepared"
                             => row[s].req < row[s].gen
  /\ \A a \in Requests : /\ adm[a].copy.req <= adm[a].copy.gen
                         /\ adm[a].kind = "retry" /\ adm[a].pc # "idle"
                              => adm[a].copy.idx # "queued"

(* A polled row keeps its place behind the fence.                          *)
LEMMA PolledKeepsFences ==
  ASSUME TypeOK, Fences, RowsPolled, UNCHANGED <<adm, withdrawn>>
  PROVE  Fences'
BY DEF Fences, RowsPolled, SameRequest

LEMMA BeginKeepsFences ==
  ASSUME TypeOK, Fences, NEW a \in Requests, NEW s \in Sources,
         BeginRetry(a, s) \/ BeginCancel(a, s) \/ BeginCleanup(a, s)
  PROVE  Fences'
<1>1. row[s] \in Rows /\ row[s].gen \in Nat /\ row[s].req \in Nat
  BY DEF TypeOK, Rows
<1>2. CASE BeginRetry(a, s)
  <2>1. /\ adm'[a].copy = row[s] /\ \A b \in Requests \ {a} : adm'[b] = adm[b]
    BY <1>1, <1>2, StartTyped DEF BeginRetry, Kinds
  <2>2. row[s].idx # "queued" /\ UNCHANGED <<row, withdrawn>>
    BY <1>2 DEF BeginRetry
  <2>3. QED
    BY <2>1, <2>2 DEF Fences
<1>3. CASE BeginCancel(a, s)
  <2>1. /\ Fenced(row[s]) \in Rows /\ Fenced(row[s]).gen = row[s].gen + 1
        /\ Fenced(row[s]).req = row[s].req
    BY <1>1, FencedRow
  <2>2. /\ adm'[a].copy = Fenced(row[s]) /\ adm'[a].kind = "cancel"
        /\ \A b \in Requests \ {a} : adm'[b] = adm[b]
    BY <1>1, <1>3, <2>1, StartTyped DEF BeginCancel, Kinds
  <2>3. /\ row' = [row EXCEPT ![s] = Fenced(row[s])]
        /\ withdrawn' = [withdrawn EXCEPT ![s] = TRUE]
    BY <1>3 DEF BeginCancel
  <2>4. /\ row'[s] = Fenced(row[s])
        /\ \A t \in Sources \ {s} : row'[t] = row[t] /\ withdrawn'[t] = withdrawn[t]
    BY <2>3 DEF TypeOK
  <2>5. row[s].req < row[s].gen + 1 /\ row[s].req <= row[s].gen + 1
    BY <1>1 DEF Fences
  <2>6. QED
    BY <2>1, <2>2, <2>4, <2>5 DEF Fences
<1>4. CASE BeginCleanup(a, s)
  <2> DEFINE new == CleanedUp(row[s])
  <2>1. /\ new \in Rows /\ new.state = row[s].state /\ new.req = row[s].req
        /\ new.gen = row[s].gen \/ new.gen = row[s].gen + 1
    BY <1>1, CleanedUpRow
  <2>2. /\ adm[a].pc = "idle" /\ UNCHANGED withdrawn /\ row[s].state = "deleting"
        /\ row' = [row EXCEPT ![s] = new]
        /\ Start(a, "cleanup", s, row[s], new, NeedsDelete(row[s]))
    BY <1>4 DEF BeginCleanup, CleanedUp
  <2> HIDE DEF new
  <2>3. /\ adm'[a].copy = new /\ adm'[a].kind = "cleanup"
        /\ \A b \in Requests \ {a} : adm'[b] = adm[b]
    BY <1>1, <2>1, <2>2, StartTyped DEF Kinds
  <2>4. row'[s] = new /\ \A t \in Sources \ {s} : row'[t] = row[t]
    BY <2>2 DEF TypeOK
  <2>5. new.req <= new.gen
    BY <1>1, <2>1 DEF Fences
  <2>6. QED
    BY <2>1, <2>2, <2>3, <2>4, <2>5 DEF Fences
<1>5. QED
  BY <1>2, <1>3, <1>4

(* A finished retry queues the request its new generation names; whatever  *)
(* the row was, it now waits to be indexed.                                *)
LEMMA FinishRetryRow ==
  ASSUME TypeOK, Fences, NEW a \in Requests, FinishRetry(a), Exists(adm[a].src)
  PROVE  LET s == adm[a].src IN
         /\ s \in Sources
         /\ row'[s].idx = "queued" /\ row'[s].state = row[s].state
         /\ row'[s].gen \in Nat /\ row'[s].req = row'[s].gen
         /\ ~withdrawn'[s]
         /\ \A t \in Sources \ {s} : row'[t] = row[t] /\ withdrawn'[t] = withdrawn[t]
<1> DEFINE s == adm[a].src
           old == adm[a].copy
           new == Requeued(adm[a].copy)
<1>1. adm[a].pc # "idle" /\ adm[a].kind = "retry"
  BY DEF FinishRetry
<1>2. s \in Sources /\ old \in Rows /\ row[s] \in Rows
  BY <1>1, BusyRequestHasSource
<1>3. /\ new \in Rows /\ new.gen = old.gen + 1 /\ new.req = old.gen + 1
      /\ new.state = old.state /\ new.idx = "queued"
  BY <1>2, RequeuedRow
<1>4. old.gen \in Nat /\ old.req \in Nat /\ old.req <= old.gen /\ old.idx # "queued"
  BY <1>1, <1>2 DEF Fences, Rows
<1>5. Flush(s, old, new) /\ withdrawn' = [withdrawn EXCEPT ![s] = FALSE]
  BY DEF FinishRetry
<1> HIDE DEF old, new
<1>6. row'[s] = Flushed(row[s], old, new) /\ \A t \in Sources \ {s} : row'[t] = row[t]
  BY <1>2, <1>3, <1>5, FlushWritesOneRow DEF TypeOK
<1>7. /\ row'[s].idx = "queued" /\ row'[s].state = row[s].state
      /\ row'[s].gen = old.gen + 1 /\ row'[s].req = old.gen + 1
  BY <1>3, <1>4, <1>6 DEF Flushed, Column
<1>8. row'[s].gen \in Nat
  BY <1>4, <1>7
<1>9. /\ ~withdrawn'[s]
      /\ \A t \in Sources \ {s} : withdrawn'[t] = withdrawn[t]
  BY <1>2, <1>5 DEF TypeOK
<1>10. QED
  BY <1>2, <1>6, <1>7, <1>8, <1>9

LEMMA EndKeepsFences ==
  ASSUME TypeOK, Fences, NEW a \in Requests,
         FinishRetry(a) \/ FinishCancel(a) \/ RemoveSource(a)
  PROVE  Fences'
<1> DEFINE s == adm[a].src
<1>1. adm[a].pc # "idle"
  BY DEF FinishRetry, FinishCancel, RemoveSource
<1>2. s \in Sources /\ adm[a].copy \in Rows /\ row[s] \in Rows
  BY <1>1, BusyRequestHasSource
<1>3. \A b \in Requests : /\ adm'[b].copy.req <= adm'[b].copy.gen
                          /\ adm'[b].kind = "retry" /\ adm'[b].pc # "idle"
                               => adm'[b].copy.idx # "queued"
  <2>1. CASE adm' = [adm EXCEPT ![a] = NoRequest]
    BY <2>1 DEF NoRequest, Published, Fences, TypeOK, RequestsTyped
  <2>2. CASE /\ adm[a].kind = "cleanup"
             /\ adm' = [adm EXCEPT ![a] = [@ EXCEPT !.pc = "remove"]]
    BY <1>1, <2>2 DEF Fences, TypeOK, RequestsTyped, Operations
  <2>3. QED
    BY <2>1, <2>2 DEF FinishRetry, FinishCancel, RemoveSource, Done
<1>4. \A t \in Sources : /\ row'[t].req <= row'[t].gen
                         /\ withdrawn'[t] /\ row'[t].state = "prepared"
                              => row'[t].req < row'[t].gen
  <2>1. CASE UNCHANGED <<row, withdrawn>>
    BY <2>1 DEF Fences
  <2>2. CASE FinishRetry(a) /\ Exists(s)
    BY <2>2, FinishRetryRow DEF Fences
  <2>3. CASE /\ Flush(s, adm[a].copy, Withdrawn(adm[a].copy)) /\ UNCHANGED withdrawn
    <3>1. LET r == adm[a].copy IN
          /\ Withdrawn(r) \in Rows /\ Withdrawn(r).gen = r.gen
          /\ Withdrawn(r).req = 0 /\ Withdrawn(r).state = r.state
      BY <1>2, WithdrawnRow
    <3>2. /\ row'[s] = Flushed(row[s], adm[a].copy, Withdrawn(adm[a].copy))
          /\ \A t \in Sources \ {s} : row'[t] = row[t]
      BY <1>2, <2>3, <3>1, FlushWritesOneRow DEF TypeOK
    <3>3. /\ row'[s].gen = row[s].gen /\ row'[s].state = row[s].state
          /\ row'[s].req = row[s].req \/ row'[s].req = 0
      BY <3>1, <3>2 DEF Flushed, Column
    <3>4. row[s].gen \in Nat /\ row[s].req \in Nat
      BY <1>2 DEF Rows
    <3>5. /\ row'[s].req <= row'[s].gen
          /\ withdrawn'[s] /\ row'[s].state = "prepared" => row'[s].req < row'[s].gen
      BY <1>2, <2>3, <3>3, <3>4 DEF Fences
    <3>6. QED
      BY <2>3, <3>2, <3>5 DEF Fences
  <2>4. CASE RemoveSource(a)
    <3>1. /\ row'[s].state = "gone" /\ row'[s].gen = row[s].gen
          /\ row'[s].req = row[s].req
          /\ \A t \in Sources \ {s} : row'[t] = row[t]
      BY <1>2, <2>4 DEF RemoveSource, TypeOK, Rows
    <3>2. UNCHANGED withdrawn
      BY <2>4 DEF RemoveSource
    <3>3. QED
      BY <3>1, <3>2 DEF Fences
  <2>5. CASE FinishRetry(a)
    BY <2>1, <2>2, <2>5 DEF FinishRetry
  <2>6. CASE FinishCancel(a)
    BY <2>1, <2>3, <2>6 DEF FinishCancel
  <2>7. QED
    BY <2>4, <2>5, <2>6
<1> HIDE DEF s
<1>5. QED
  BY <1>3, <1>4, Zenon DEF Fences

LEMMA FencesStep == TypeOK /\ Fences /\ [Next]_vars => Fences'
<1> SUFFICES ASSUME TypeOK, Fences, [Next]_vars
             PROVE  Fences'
  OBVIOUS
<1>1. CASE \E w \in Workers : WorkerStep(w) \/ Crash(w) \/ \E s \in Sources : Claim(w, s)
  <2>1. RowsPolled
    BY <1>1, WorkerTyped
  <2>2. UNCHANGED <<adm, withdrawn>>
    BY <1>1 DEF WorkerStep, Crash, Claim, FailWithoutRequest, Heartbeat, Probe,
                DecideProbe, Postpone, SealFails, AdvanceForSubmit, SubmitSucceeds,
                SubmitRefused, SubmitUnanswered, BeatLoses, MarkLanded, MarkUnanswered,
                MarkReady, ApplyDesired
  <2>3. QED
    BY <2>1, <2>2, PolledKeepsFences
<1>2. CASE \E a \in Requests, s \in Sources : \/ BeginRetry(a, s) \/ BeginCancel(a, s)
                                              \/ BeginCleanup(a, s)
  BY <1>2, BeginKeepsFences
<1>3. CASE \E a \in Requests : FinishRetry(a) \/ FinishCancel(a) \/ RemoveSource(a)
  BY <1>3, EndKeepsFences
<1>4. CASE \E a \in Requests : \/ AdvanceForDelete(a) \/ CallDelete(a) \/ VerifyAbsent(a)
                               \/ DeleteFails(a) \/ CrashRequest(a)
  <2>1. PICK a \in Requests : \/ AdvanceForDelete(a) \/ CallDelete(a) \/ VerifyAbsent(a)
                              \/ DeleteFails(a) \/ CrashRequest(a)
    BY <1>4
  <2>2. UNCHANGED <<row, withdrawn>>
    BY <2>1 DEF AdvanceForDelete, CallDelete, VerifyAbsent, DeleteFails, CrashRequest
  <2>3. adm' \in [Requests -> Operations] /\ adm[a].pc # "idle"
    BY <2>1, DeletingStep
    DEF TypeOK, RequestsTyped, AdvanceForDelete, CallDelete, VerifyAbsent, DeleteFails,
        CrashRequest
  <2>4. /\ \A b \in Requests \ {a} : adm'[b] = adm[b]
        /\ \/ adm'[a] = NoRequest
           \/ adm'[a].copy = adm[a].copy /\ adm'[a].kind = adm[a].kind
    BY <2>1 DEF AdvanceForDelete, CallDelete, VerifyAbsent, DeleteFails, CrashRequest,
                Done, TypeOK, RequestsTyped, Operations
  <2>5. QED
    BY <2>2, <2>3, <2>4 DEF Fences, NoRequest, Published
<1>5. CASE \E s \in Sources : LeaseExpires(s)
  <2>1. UNCHANGED <<adm, withdrawn>>
    BY <1>5 DEF LeaseExpires
  <2>2. QED
    BY <1>5, <2>1, LeaseStep, PolledKeepsFences
<1>6. CASE \E s \in Sources : EnqueueDelete(s)
  <2>1. PICK s \in Sources : EnqueueDelete(s)
    BY <1>6
  <2>2. /\ row'[s].state = "deleting" /\ row'[s].gen = row[s].gen
        /\ row'[s].req = row[s].req
    BY <2>1, DeleteStep
  <2>3. /\ \A t \in Sources \ {s} : row'[t] = row[t] /\ withdrawn'[t] = withdrawn[t]
        /\ UNCHANGED adm
    BY <2>1 DEF EnqueueDelete, TypeOK
  <2>4. QED
    BY <2>2, <2>3 DEF Fences
<1>7. CASE \/ \E q \in DOMAIN docs, status \in {"processed", "failed"} :
               FinishDocument(q, status)
           \/ \E q \in calls : LateSubmit(q)
           \/ Toggle \/ UNCHANGED vars
  <2>1. UNCHANGED <<row, withdrawn, adm>>
    BY <1>7 DEF FinishDocument, LateSubmit, Toggle, vars
  <2>2. QED
    BY <2>1 DEF Fences
<1>8. QED
  BY <1>1, <1>2, <1>3, <1>4, <1>5, <1>6, <1>7 DEF Next, RequestStep

LEMMA FencesHold == Spec => []Fences
<1>1. Init => Fences
  BY DEF Init, Fences, Published, NoRequest
<1>2. QED
  BY <1>1, FencesStep, TypeCorrect, PTL DEF Spec

LEMMA FencesKeepIneligible ==
  ASSUME TypeOK, Fences
  PROVE  FencedStaysIneligible
BY DEF TypeOK, Rows, Fences, FencedStaysIneligible, Eligible, HasIdentity

(* A cancelled or deleted source is not retrievable until a retry queues a *)
(* new request, however many stale workers and requests still write to it. *)
THEOREM FenceHolds == Spec => []FencedStaysIneligible
<1>1. TypeOK /\ Fences => FencedStaysIneligible
  BY FencesKeepIneligible
<1>2. QED
  BY <1>1, FencesHold, TypeCorrect, PTL

-----------------------------------------------------------------------------
(* The retrieval gate                                                      *)

\* Moves of the gate of one source that RetrievalGate allows.
GateMoves(from, to) ==
  \/ to = from
  \/ to = "retired"
  \/ from = "shut" /\ to = "open"
  \/ from = "open" /\ to = "shut"
  \/ from \in {"shut", "open"} /\ to = "locked"
  \/ from = "locked" /\ to = "shut"

LEMMA GateValue ==
  ASSUME FencedStaysIneligible, NEW s \in Sources
  PROVE  /\ row[s].state # "prepared" => gate[s] = "retired"
         /\ row[s].state = "prepared" /\ withdrawn[s] => gate[s] = "locked"
         /\ row[s].state = "prepared" /\ ~withdrawn[s] /\ Eligible(s) => gate[s] = "open"
         /\ row[s].state = "prepared" /\ ~withdrawn[s] /\ ~Eligible(s) => gate[s] = "shut"
BY DEF gate, FencedStaysIneligible

LEMMA NextGateValue ==
  ASSUME FencedStaysIneligible', NEW s \in Sources
  PROVE  /\ row'[s].state # "prepared" => gate'[s] = "retired"
         /\ row'[s].state = "prepared" /\ withdrawn'[s] => gate'[s] = "locked"
         /\ row'[s].state = "prepared" /\ ~withdrawn'[s] /\ Eligible(s)' => gate'[s] = "open"
         /\ row'[s].state = "prepared" /\ ~withdrawn'[s] /\ ~Eligible(s)' => gate'[s] = "shut"
BY DEF gate, FencedStaysIneligible

(* A step that moves the gate of one source as allowed is a step, or a      *)
(* stutter, of the abstract specification.                                 *)
LEMMA GateStep ==
  ASSUME NEW s \in Sources, GateMoves(gate[s], gate'[s]),
         \A t \in Sources \ {s} : row'[t] = row[t] /\ withdrawn'[t] = withdrawn[t]
  PROVE  [Gate!Next]_gate
<1>1. \A t \in Sources \ {s} : gate'[t] = gate[t]
  BY DEF gate, Eligible, HasIdentity
<1>2. /\ gate = [t \in Sources |-> gate[t]] /\ gate' = [t \in Sources |-> gate'[t]]
      /\ gate[s] \in Gate!Gates
  BY DEF gate, Gate!Gates
<1> HIDE DEF gate
<1>3. gate' = [gate EXCEPT ![s] = gate'[s]]
  BY <1>1, <1>2
<1>4. CASE gate'[s] = gate[s]
  BY <1>1, <1>2, <1>4
<1>5. CASE gate'[s] # gate[s]
  BY <1>2, <1>3, <1>5
  DEF GateMoves, Gate!Next, Gate!Open, Gate!Shut, Gate!Lock, Gate!Unlock, Gate!Retire,
      Gate!Move
<1>6. QED
  BY <1>4, <1>5

(* Polling opens and shuts the gate, and leaves a locked or retired one.   *)
LEMMA PolledGate ==
  ASSUME RowsPolled, UNCHANGED withdrawn, FencedStaysIneligible, FencedStaysIneligible'
  PROVE  [Gate!Next]_gate
<1>1. PICK s \in Sources : /\ SameRequest(row[s], row'[s])
                           /\ \A t \in Sources \ {s} : row'[t] = row[t]
  BY DEF RowsPolled
<1>2. row'[s].state = row[s].state /\ withdrawn'[s] = withdrawn[s]
  BY <1>1 DEF SameRequest
<1>3. GateMoves(gate[s], gate'[s])
  BY <1>2, GateValue, NextGateValue DEF GateMoves
<1>4. QED
  BY <1>1, <1>3, GateStep

LEMMA SameGate ==
  ASSUME UNCHANGED <<row, withdrawn>>
  PROVE  [Gate!Next]_gate
BY DEF gate, Eligible, HasIdentity

LEMMA BeginGate ==
  ASSUME TypeOK, FencedStaysIneligible, FencedStaysIneligible',
         NEW a \in Requests, NEW s \in Sources,
         BeginRetry(a, s) \/ BeginCancel(a, s) \/ BeginCleanup(a, s)
  PROVE  [Gate!Next]_gate
<1>1. row[s] \in Rows
  BY DEF TypeOK
<1>2. CASE BeginRetry(a, s)
  BY <1>2, SameGate DEF BeginRetry
<1>3. CASE BeginCancel(a, s)
  <2>1. /\ row[s].state = "prepared" /\ row'[s] = Fenced(row[s]) /\ withdrawn'[s] = TRUE
        /\ \A t \in Sources \ {s} : row'[t] = row[t] /\ withdrawn'[t] = withdrawn[t]
    BY <1>3 DEF BeginCancel, TypeOK
  <2>2. row'[s].state = "prepared"
    BY <1>1, <2>1, FencedRow
  <2>3. GateMoves(gate[s], gate'[s])
    BY <2>1, <2>2, GateValue, NextGateValue DEF GateMoves
  <2>4. QED
    BY <2>1, <2>3, GateStep
<1>4. CASE BeginCleanup(a, s)
  <2>1. /\ row[s].state = "deleting" /\ row'[s] = CleanedUp(row[s]) /\ UNCHANGED withdrawn
        /\ \A t \in Sources \ {s} : row'[t] = row[t]
    BY <1>4 DEF BeginCleanup, CleanedUp, TypeOK
  <2>2. row'[s].state = "deleting"
    BY <1>1, <2>1, CleanedUpRow
  <2>3. GateMoves(gate[s], gate'[s])
    BY <2>2, NextGateValue DEF GateMoves
  <2>4. QED
    BY <2>1, <2>3, GateStep
<1>5. QED
  BY <1>2, <1>3, <1>4

LEMMA EndGate ==
  ASSUME TypeOK, Fences, FencedStaysIneligible, FencedStaysIneligible',
         NEW a \in Requests, FinishRetry(a) \/ FinishCancel(a) \/ RemoveSource(a)
  PROVE  [Gate!Next]_gate
<1>1. adm[a].pc # "idle"
  BY DEF FinishRetry, FinishCancel, RemoveSource
<1>2. PICK s \in Sources : s = adm[a].src /\ adm[a].copy \in Rows /\ row[s] \in Rows
  BY <1>1, BusyRequestHasSource
<1>3. CASE UNCHANGED <<row, withdrawn>>
  BY <1>3, SameGate
<1>4. CASE FinishRetry(a) /\ Exists(s)
  <2>1. /\ row'[s].idx = "queued" /\ row'[s].state = row[s].state /\ ~withdrawn'[s]
        /\ \A t \in Sources \ {s} : row'[t] = row[t] /\ withdrawn'[t] = withdrawn[t]
    BY <1>2, <1>4, FinishRetryRow
  <2>2. ~Eligible(s)'
    BY <2>1 DEF Eligible
  <2>3. GateMoves(gate[s], gate'[s])
    BY <1>2, <2>1, <2>2, GateValue, NextGateValue DEF GateMoves
  <2>4. QED
    BY <1>2, <2>1, <2>3, GateStep
<1>5. CASE Flush(s, adm[a].copy, Withdrawn(adm[a].copy)) /\ UNCHANGED withdrawn
  <2>1. Withdrawn(adm[a].copy) \in Rows /\ Withdrawn(adm[a].copy).state = adm[a].copy.state
    BY <1>2, WithdrawnRow
  <2>2. /\ row'[s] = Flushed(row[s], adm[a].copy, Withdrawn(adm[a].copy))
        /\ \A t \in Sources \ {s} : row'[t] = row[t]
    BY <1>2, <1>5, <2>1, FlushWritesOneRow DEF TypeOK
  <2>3. row'[s].state = row[s].state
    BY <2>1, <2>2 DEF Flushed, Column
  <2>4. withdrawn'[s] = withdrawn[s]
    BY <1>5
  <2>5. GateMoves(gate[s], gate'[s])
    BY <1>2, <2>3, <2>4, GateValue, NextGateValue DEF GateMoves
  <2>6. QED
    BY <1>2, <1>5, <2>2, <2>5, GateStep
<1>6. CASE RemoveSource(a)
  <2>1. /\ row'[s].state = "gone" /\ UNCHANGED withdrawn
        /\ \A t \in Sources \ {s} : row'[t] = row[t]
    BY <1>2, <1>6 DEF RemoveSource, TypeOK, Rows
  <2>2. GateMoves(gate[s], gate'[s])
    BY <1>2, <2>1, NextGateValue DEF GateMoves
  <2>3. QED
    BY <1>2, <2>1, <2>2, GateStep
<1>7. CASE FinishRetry(a)
  BY <1>2, <1>3, <1>4, <1>7 DEF FinishRetry
<1>8. CASE FinishCancel(a)
  BY <1>2, <1>3, <1>5, <1>8 DEF FinishCancel
<1>9. QED
  BY <1>6, <1>7, <1>8

LEMMA StepKeepsGate == TypeOK /\ Fences /\ [Next]_vars => [Gate!Next]_gate
<1> SUFFICES ASSUME TypeOK, Fences, [Next]_vars
             PROVE  [Gate!Next]_gate
  OBVIOUS
<1>0. FencedStaysIneligible /\ FencedStaysIneligible'
  <2>1. TypeOK' /\ Fences'
    BY TypeStep, FencesStep
  <2>2. QED
    BY <2>1, FencesKeepIneligible DEF FencedStaysIneligible, TypeOK, Rows, Fences, Eligible,
                                      HasIdentity
<1>1. CASE \E w \in Workers : WorkerStep(w) \/ Crash(w) \/ \E s \in Sources : Claim(w, s)
  <2>1. RowsPolled
    BY <1>1, WorkerTyped
  <2>2. UNCHANGED withdrawn
    BY <1>1 DEF WorkerStep, Crash, Claim, FailWithoutRequest, Heartbeat, Probe,
                DecideProbe, Postpone, SealFails, AdvanceForSubmit, SubmitSucceeds,
                SubmitRefused, SubmitUnanswered, BeatLoses, MarkLanded, MarkUnanswered,
                MarkReady, ApplyDesired
  <2>3. QED
    BY <1>0, <2>1, <2>2, PolledGate
<1>2. CASE \E a \in Requests, s \in Sources : \/ BeginRetry(a, s) \/ BeginCancel(a, s)
                                              \/ BeginCleanup(a, s)
  BY <1>0, <1>2, BeginGate
<1>3. CASE \E a \in Requests : FinishRetry(a) \/ FinishCancel(a) \/ RemoveSource(a)
  BY <1>0, <1>3, EndGate
<1>4. CASE \E s \in Sources : LeaseExpires(s)
  BY <1>0, <1>4, LeaseStep, PolledGate DEF LeaseExpires
<1>5. CASE \E s \in Sources : EnqueueDelete(s)
  <2>1. PICK s \in Sources : EnqueueDelete(s)
    BY <1>5
  <2>2. /\ row'[s].state = "deleting"
        /\ \A t \in Sources \ {s} : row'[t] = row[t] /\ withdrawn'[t] = withdrawn[t]
    BY <2>1, DeleteStep DEF EnqueueDelete, TypeOK
  <2>3. GateMoves(gate[s], gate'[s])
    BY <1>0, <2>2, NextGateValue DEF GateMoves
  <2>4. QED
    BY <2>2, <2>3, GateStep
<1>6. CASE \/ \E a \in Requests : \/ AdvanceForDelete(a) \/ CallDelete(a) \/ VerifyAbsent(a)
                                  \/ DeleteFails(a) \/ CrashRequest(a)
           \/ \E q \in DOMAIN docs, status \in {"processed", "failed"} :
                FinishDocument(q, status)
           \/ \E q \in calls : LateSubmit(q)
           \/ Toggle \/ UNCHANGED vars
  <2>1. UNCHANGED <<row, withdrawn>>
    BY <1>6 DEF AdvanceForDelete, CallDelete, VerifyAbsent, DeleteFails, CrashRequest,
                FinishDocument, LateSubmit, Toggle, vars
  <2>2. QED
    BY <2>1, SameGate
<1>7. QED
  BY <1>1, <1>2, <1>3, <1>4, <1>5, <1>6 DEF Next, RequestStep

(* Indexing implements RetrievalGate: a source becomes retrievable only     *)
(* while a request is open, never straight out of a cancellation, and never *)
(* again once it is being deleted, whatever stale copies are written back. *)
THEOREM ImplementsGate == Spec => KeepsRetrievalGate
<1>1. Init => Gate!Init
  BY DEF Init, Gate!Init, gate, Eligible, Published
<1>2. TypeOK /\ Fences /\ [Next]_vars => [Gate!Next]_gate
  BY StepKeepsGate
<1>3. QED
  BY <1>1, <1>2, FencesHold, TypeCorrect, PTL DEF Spec, KeepsRetrievalGate, Gate!Spec

-----------------------------------------------------------------------------
(* Errors mark their own request                                           *)

Awaiting(r) == r.idx \in {"queued", "submitting"}
Calling     == {"submit", "landed", "timeout", "error"}

\* A row that waits to be submitted has the request its generation names, and so
\* has every worker that goes on to submit it; a cancellation under way holds
\* the row it fenced.
Requested ==
  /\ \A s \in Sources : Awaiting(row[s]) => row[s].gen = row[s].req
  /\ \A a \in Requests :
       adm[a].pc # "idle" /\ adm[a].kind = "cancel" => adm[a].copy.idx = "cancelling"
  /\ \A w \in Workers : /\ work[w].phase = "submitting" => work[w].gen = work[w].req
                        /\ work[w].pc \in Calling => work[w].phase = "submitting"

\* No row comes to wait.
NoneQueued == \A s \in Sources : Awaiting(row'[s]) => Awaiting(row[s])

\* Worker w leaves, or goes on with the same request.
GoesOn(w) ==
  /\ \A v \in Workers \ {w} : work'[v] = work[v]
  /\ \/ work'[w] = NoWork
     \/ /\ work'[w].gen = work[w].gen /\ work'[w].req = work[w].req
        /\ work'[w].phase = work[w].phase
        /\ work'[w].pc \in Calling => work[w].pc \in Calling \/ work[w].phase = "submitting"

LEMMA LeaveGoesOn ==
  ASSUME TypeOK, NEW w \in Workers, Leave(w)
  PROVE  GoesOn(w)
BY DEF Leave, GoesOn, TypeOK, WorkersTyped

LEMMA GotoGoesOn ==
  ASSUME TypeOK, NEW w \in Workers, NEW stage, Goto(w, stage),
         stage \in Calling => work[w].pc \in Calling \/ work[w].phase = "submitting"
  PROVE  GoesOn(w)
BY DEF Goto, GoesOn, TypeOK, WorkersTyped, Jobs

(* A flush of a mark never makes a row wait.                               *)
LEMMA MarkQueuesNone ==
  ASSUME TypeOK, NEW s \in Sources, NEW copy \in Rows,
         NEW new \in {Accepted(copy), Ready(copy), Failed(copy), Waiting(copy)},
         Flush(s, copy, new)
  PROVE  NoneQueued
<1>1. new \in Rows
  BY MarksKeepRequest
<1>2. row'[s] = Flushed(row[s], copy, new) /\ \A t \in Sources \ {s} : row'[t] = row[t]
  BY <1>1, FlushWritesOneRow DEF TypeOK
<1>3. new.idx = copy.idx \/ new.idx \in {"accepted", "ready", "failed"}
  BY DEF Accepted, Ready, Failed, Waiting, Rows
<1>4. row'[s].idx = row[s].idx \/ row'[s].idx \in {"accepted", "ready", "failed"}
  BY <1>2, <1>3 DEF Flushed, Column
<1>5. Awaiting(row'[s]) => Awaiting(row[s])
  BY <1>4 DEF Awaiting
<1>6. QED
  BY <1>2, <1>5 DEF NoneQueued

LEMMA MarkGoesOn ==
  ASSUME TypeOK, NEW w \in Workers, work[w].pc # "idle", NEW copy \in Rows, NEW allowed,
         NEW new \in {Accepted(copy), Ready(copy), Failed(copy), Waiting(copy)},
         NEW stage \in {"idle", "mark_ready", "apply"}, Mark(w, copy, allowed, new, stage)
  PROVE  NoneQueued /\ GoesOn(w)
<1>1. Src(w) \in Sources
  BY BusyWorkerHasSource
<1>2. CASE Leave(w) /\ UNCHANGED row
  BY <1>2, LeaveGoesOn DEF NoneQueued
<1>3. CASE Flush(Src(w), copy, new) /\ Leave(w)
  BY <1>1, <1>3, LeaveGoesOn, MarkQueuesNone
<1>4. CASE /\ Flush(Src(w), copy, new)
           /\ work' = [work EXCEPT ![w].pc = stage, ![w].copy = new]
  <2>1. GoesOn(w)
    BY <1>4 DEF GoesOn, Calling, TypeOK, WorkersTyped, Jobs
  <2>2. QED
    BY <1>1, <1>4, <2>1, MarkQueuesNone
<1>5. QED
  BY <1>2, <1>3, <1>4 DEF Mark

LEMMA WorkerGoesOn ==
  ASSUME TypeOK, NEW w \in Workers, WorkerStep(w) \/ Crash(w)
  PROVE  NoneQueued /\ GoesOn(w)
<1>1. work[w].pc # "idle"
  BY DEF WorkerStep, Crash, FailWithoutRequest, Heartbeat, Probe, DecideProbe, Postpone,
         SealFails, NeedsSubmit, AdvanceForSubmit, SubmitSucceeds, SubmitRefused,
         SubmitUnanswered, BeatLoses, MarkLanded, MarkUnanswered, MarkReady, ApplyDesired
<1>2. Src(w) \in Sources /\ work[w].copy \in Rows /\ Reloaded(w) \in Rows
  BY <1>1, BusyWorkerHasSource DEF Reloaded
<1>3. UNCHANGED row => NoneQueued
  BY DEF NoneQueued
<1>4. CASE FailWithoutRequest(w)
  <2>1. [work[w].copy EXCEPT !.idx = "failed", !.lease = "none"] = Failed(work[w].copy)
    BY DEF Failed
  <2>2. Flush(Src(w), work[w].copy, Failed(work[w].copy)) \/ UNCHANGED row
    BY <1>4, <2>1 DEF FailWithoutRequest
  <2>3. QED
    BY <1>2, <1>3, <1>4, <2>2, LeaveGoesOn, MarkQueuesNone DEF FailWithoutRequest
<1>5. CASE Postpone(w)
  <2>1. Flush(Src(w), work[w].copy, Waiting(work[w].copy)) \/ UNCHANGED row
    BY <1>5 DEF Postpone
  <2>2. QED
    BY <1>2, <1>3, <1>5, <2>1, LeaveGoesOn, MarkQueuesNone DEF Postpone
<1>6. CASE SealFails(w) \/ MarkLanded(w) \/ MarkUnanswered(w) \/ MarkReady(w)
  BY <1>1, <1>2, <1>6, MarkGoesOn DEF SealFails, MarkLanded, MarkUnanswered, MarkReady
<1>7. CASE DecideProbe(w)
  <2> DEFINE copy == work[w].copy
  <2>1. work[w].probe \in Probes
    BY <1>1, BusyWorkerHasSource DEF Jobs
  <2>2. \/ Mark(w, copy, IndexStates, Failed(copy), "idle")
        \/ Mark(w, copy, {"submitting"}, Accepted(copy), "mark_ready")
        \/ Mark(w, copy, {"accepted"}, Ready(copy), "apply")
        \/ Mark(w, copy, {"submitting"}, Accepted(copy), "idle")
        \/ Mark(w, copy, {"submitting", "accepted"}, Waiting(copy), "idle")
    BY <1>7, <2>1 DEF DecideProbe, Probes, Statuses
  <2>3. QED
    BY <1>1, <1>2, <2>2, MarkGoesOn
<1>8. CASE ApplyDesired(w) \/ BeatLoses(w) \/ Crash(w)
  BY <1>3, <1>8, LeaveGoesOn DEF ApplyDesired, BeatLoses, Crash
<1>9. CASE SubmitRefused(w) \/ SubmitSucceeds(w) \/ SubmitUnanswered(w)
  BY <1>3, <1>9, GotoGoesOn DEF SubmitRefused, SubmitSucceeds, SubmitUnanswered, Calling
<1>10. CASE AdvanceForSubmit(w)
  BY <1>3, <1>10, GotoGoesOn DEF AdvanceForSubmit, NeedsSubmit
<1>11. CASE Heartbeat(w)
  <2>1. CASE Leave(w)
    BY <1>3, <1>11, <2>1, LeaveGoesOn DEF Heartbeat
  <2>2. CASE work' = [work EXCEPT ![w].pc = "probe", ![w].copy = row[Src(w)]]
    BY <1>3, <1>11, <2>2 DEF Heartbeat, GoesOn, Calling, TypeOK, WorkersTyped, Jobs
  <2>3. QED
    BY <1>11, <2>1, <2>2 DEF Heartbeat
<1>12. CASE Probe(w)
  <2>1. PICK answer : work' = [work EXCEPT ![w].pc = "decide", ![w].probe = answer]
    BY <1>12 DEF Probe
  <2>2. QED
    BY <1>3, <1>12, <2>1 DEF Probe, GoesOn, Calling, TypeOK, WorkersTyped, Jobs
<1>13. QED
  BY <1>4, <1>5, <1>6, <1>7, <1>8, <1>9, <1>10, <1>11, <1>12 DEF WorkerStep

LEMMA WorkerKeepsRequested ==
  ASSUME TypeOK, Requested, NEW w \in Workers, WorkerStep(w) \/ Crash(w)
  PROVE  Requested'
<1>1. NoneQueued /\ GoesOn(w) /\ RowsPolled
  BY WorkerGoesOn, WorkerTyped
<1>2. UNCHANGED adm
  BY DEF WorkerStep, Crash, FailWithoutRequest, Heartbeat, Probe, DecideProbe, Postpone,
         SealFails, AdvanceForSubmit, SubmitSucceeds, SubmitRefused, SubmitUnanswered,
         BeatLoses, MarkLanded, MarkUnanswered, MarkReady, ApplyDesired
<1>3. \A s \in Sources : Awaiting(row'[s]) => row'[s].gen = row'[s].req
  BY <1>1 DEF Requested, NoneQueued, RowsPolled, SameRequest
<1>4. \A v \in Workers : /\ work'[v].phase = "submitting" => work'[v].gen = work'[v].req
                         /\ work'[v].pc \in Calling => work'[v].phase = "submitting"
  BY <1>1 DEF Requested, GoesOn, NoWork, Calling
<1>5. QED
  BY <1>2, <1>3, <1>4 DEF Requested

LEMMA ClaimKeepsRequested ==
  ASSUME TypeOK, Requested, NEW w \in Workers, NEW s \in Sources, Claim(w, s)
  PROVE  Requested'
<1> DEFINE new == [row[s] EXCEPT !.idx = IF @ = "queued" THEN "submitting" ELSE @,
                                 !.lease = OwnerOf[w]]
           job == [pc |-> "claimed", src |-> s, gen |-> new.gen, req |-> new.req,
                   phase |-> new.idx, copy |-> new, desired |-> desired,
                   probe |-> "missing"]
<1>1. row' = [row EXCEPT ![s] = new] /\ work' = [work EXCEPT ![w] = job] /\ UNCHANGED adm
  BY DEF Claim
<1>2. row[s] \in Rows
  BY DEF TypeOK
<1>3. /\ new.gen = row[s].gen /\ new.req = row[s].req
      /\ Awaiting(new) => Awaiting(row[s])
  BY <1>2 DEF Rows, Awaiting
<1> HIDE DEF new
<1>4. /\ job.pc = "claimed" /\ job.gen = new.gen /\ job.req = new.req /\ job.phase = new.idx
  OBVIOUS
<1> HIDE DEF job
<1>5. /\ row'[s] = new /\ \A t \in Sources \ {s} : row'[t] = row[t]
      /\ work'[w] = job /\ \A v \in Workers \ {w} : work'[v] = work[v]
  BY <1>1 DEF TypeOK, WorkersTyped
<1>6. Awaiting(new) => new.gen = new.req
  BY <1>3 DEF Requested
<1>7. job.phase = "submitting" => job.gen = job.req
  BY <1>4, <1>6 DEF Awaiting
<1>8. QED
  BY <1>1, <1>4, <1>5, <1>6, <1>7 DEF Requested, Calling

LEMMA RequestsKeepRequested ==
  ASSUME TypeOK, Fences, Requested, NEW a \in Requests,
         \/ \E s \in Sources : BeginRetry(a, s) \/ BeginCancel(a, s) \/ BeginCleanup(a, s)
         \/ FinishRetry(a) \/ FinishCancel(a) \/ RemoveSource(a)
  PROVE  Requested'
<1>1. UNCHANGED work
  BY DEF BeginRetry, BeginCancel, BeginCleanup, FinishRetry, FinishCancel, RemoveSource
<1>2. \A s \in Sources : Awaiting(row'[s]) => row'[s].gen = row'[s].req
  <2>1. CASE UNCHANGED row
    BY <2>1 DEF Requested
  <2>2. CASE \E s \in Sources : BeginCancel(a, s) \/ BeginCleanup(a, s)
    <3>1. PICK s \in Sources : BeginCancel(a, s) \/ BeginCleanup(a, s)
      BY <2>2
    <3>2. row[s] \in Rows /\ Fenced(row[s]).idx = "cancelling"
      BY FencedRow DEF TypeOK
    <3>3. CleanedUp(row[s]).idx \in {"cancelling", "cancelled"}
      BY <3>2, FencedRow DEF CleanedUp, Rows
    <3>4. /\ row'[s] = Fenced(row[s]) \/ row'[s] = CleanedUp(row[s])
          /\ \A t \in Sources \ {s} : row'[t] = row[t]
      BY <3>1 DEF BeginCancel, BeginCleanup, CleanedUp, TypeOK
    <3>5. ~Awaiting(row'[s])
      BY <3>2, <3>3, <3>4 DEF Awaiting
    <3>6. QED
      BY <3>4, <3>5 DEF Requested
  <2>3. CASE FinishRetry(a) /\ Exists(adm[a].src)
    BY <2>3, FinishRetryRow DEF Requested
  <2>4. CASE FinishCancel(a) /\ ~UNCHANGED row
    <3> DEFINE s == adm[a].src
               copy == adm[a].copy
    <3>1. adm[a].pc # "idle" /\ Flush(s, copy, Withdrawn(copy))
      BY <2>4 DEF FinishCancel
    <3>2. s \in Sources /\ copy \in Rows /\ row[s] \in Rows
      BY <3>1, BusyRequestHasSource
    <3>3. copy.idx # "cancelled"
      BY <2>4, <3>1 DEF FinishCancel, Requested
    <3>4. Withdrawn(copy) \in Rows /\ Withdrawn(copy).idx = "cancelled"
      BY <3>2, WithdrawnRow
    <3>5. /\ row'[s] = Flushed(row[s], copy, Withdrawn(copy))
          /\ \A t \in Sources \ {s} : row'[t] = row[t]
      BY <3>1, <3>2, <3>4, FlushWritesOneRow DEF TypeOK
    <3>6. row'[s].idx = "cancelled"
      BY <3>3, <3>4, <3>5 DEF Flushed, Column
    <3>7. QED
      BY <3>5, <3>6 DEF Requested, Awaiting
  <2>5. CASE RemoveSource(a)
    <3>1. adm[a].src \in Sources /\ row[adm[a].src] \in Rows
      BY <2>5, BusyRequestHasSource DEF RemoveSource
    <3>2. /\ \A t \in Sources \ {adm[a].src} : row'[t] = row[t]
          /\ row'[adm[a].src].idx = row[adm[a].src].idx
          /\ row'[adm[a].src].gen = row[adm[a].src].gen
          /\ row'[adm[a].src].req = row[adm[a].src].req
      BY <2>5, <3>1 DEF RemoveSource, TypeOK, Rows
    <3>3. QED
      BY <3>1, <3>2 DEF Requested, Awaiting
  <2>6. QED
    BY <2>1, <2>2, <2>3, <2>4, <2>5 DEF BeginRetry, FinishRetry
<1>3. \A b \in Requests :
        adm'[b].pc # "idle" /\ adm'[b].kind = "cancel" => adm'[b].copy.idx = "cancelling"
  <2>1. CASE \E s \in Sources : BeginRetry(a, s) \/ BeginCancel(a, s) \/ BeginCleanup(a, s)
    <3>1. PICK s \in Sources : BeginRetry(a, s) \/ BeginCancel(a, s) \/ BeginCleanup(a, s)
      BY <2>1
    <3>2. row[s] \in Rows /\ Fenced(row[s]) \in Rows /\ CleanedUp(row[s]) \in Rows
      BY FencedRow, CleanedUpRow DEF TypeOK
    <3>3. /\ \A b \in Requests \ {a} : adm'[b] = adm[b]
          /\ \/ adm'[a].kind \in {"retry", "cleanup"}
             \/ adm'[a].copy = Fenced(row[s])
      <4>1. CASE BeginRetry(a, s)
        BY <3>2, <4>1, StartTyped DEF BeginRetry, Kinds
      <4>2. CASE BeginCancel(a, s)
        BY <3>2, <4>2, StartTyped DEF BeginCancel, Kinds
      <4>3. CASE BeginCleanup(a, s)
        <5>1. /\ adm[a].pc = "idle"
              /\ Start(a, "cleanup", s, row[s], CleanedUp(row[s]), NeedsDelete(row[s]))
          BY <4>3 DEF BeginCleanup, CleanedUp
        <5>2. QED
          BY <3>2, <5>1, StartTyped DEF Kinds
      <4>4. QED
        BY <3>1, <4>1, <4>2, <4>3
    <3>4. QED
      BY <3>2, <3>3, FencedRow DEF Requested
  <2>2. CASE FinishRetry(a) \/ FinishCancel(a) \/ RemoveSource(a)
    <3>1. /\ \A b \in Requests \ {a} : adm'[b] = adm[b]
          /\ adm'[a] = NoRequest \/ adm'[a].kind = "cleanup"
      <4>1. CASE adm' = [adm EXCEPT ![a] = NoRequest]
        BY <4>1 DEF TypeOK, RequestsTyped
      <4>2. CASE /\ adm[a].kind = "cleanup"
                 /\ adm' = [adm EXCEPT ![a] = [@ EXCEPT !.pc = "remove"]]
        BY <4>2 DEF TypeOK, RequestsTyped, Operations
      <4>3. QED
        BY <2>2, <4>1, <4>2 DEF FinishRetry, FinishCancel, RemoveSource, Done
    <3>2. QED
      BY <3>1 DEF Requested, NoRequest
  <2>3. QED
    BY <2>1, <2>2
<1>4. QED
  BY <1>1, <1>2, <1>3 DEF Requested

LEMMA RequestedStep == TypeOK /\ Fences /\ Requested /\ [Next]_vars => Requested'
<1> SUFFICES ASSUME TypeOK, Fences, Requested, [Next]_vars
             PROVE  Requested'
  OBVIOUS
<1>1. CASE \E w \in Workers : WorkerStep(w) \/ Crash(w)
  BY <1>1, WorkerKeepsRequested
<1>2. CASE \E w \in Workers, s \in Sources : Claim(w, s)
  BY <1>2, ClaimKeepsRequested
<1>3. CASE \E a \in Requests :
             \/ \E s \in Sources : BeginRetry(a, s) \/ BeginCancel(a, s) \/ BeginCleanup(a, s)
             \/ FinishRetry(a) \/ FinishCancel(a) \/ RemoveSource(a)
  BY <1>3, RequestsKeepRequested
<1>4. CASE \E a \in Requests : \/ AdvanceForDelete(a) \/ CallDelete(a) \/ VerifyAbsent(a)
                               \/ DeleteFails(a) \/ CrashRequest(a)
  <2>1. PICK a \in Requests : \/ AdvanceForDelete(a) \/ CallDelete(a) \/ VerifyAbsent(a)
                              \/ DeleteFails(a) \/ CrashRequest(a)
    BY <1>4
  <2>2. UNCHANGED <<row, work>> /\ adm[a].pc # "idle"
    BY <2>1 DEF AdvanceForDelete, CallDelete, VerifyAbsent, DeleteFails, CrashRequest
  <2>3. /\ \A b \in Requests \ {a} : adm'[b] = adm[b]
        /\ \/ adm'[a] = NoRequest
           \/ adm'[a].copy = adm[a].copy /\ adm'[a].kind = adm[a].kind
    BY <2>1 DEF AdvanceForDelete, CallDelete, VerifyAbsent, DeleteFails, CrashRequest,
                Done, TypeOK, RequestsTyped, Operations
  <2>4. QED
    BY <2>2, <2>3 DEF Requested, NoRequest
<1>5. CASE \E s \in Sources : LeaseExpires(s) \/ EnqueueDelete(s)
  <2>1. PICK s \in Sources : LeaseExpires(s) \/ EnqueueDelete(s)
    BY <1>5
  <2>2. /\ \A t \in Sources \ {s} : row'[t] = row[t]
        /\ row'[s].idx = row[s].idx /\ row'[s].gen = row[s].gen /\ row'[s].req = row[s].req
        /\ UNCHANGED <<adm, work>>
    BY <2>1 DEF LeaseExpires, EnqueueDelete, TypeOK, Rows
  <2>3. QED
    BY <2>2 DEF Requested, Awaiting
<1>6. CASE \/ \E q \in DOMAIN docs, status \in {"processed", "failed"} :
               FinishDocument(q, status)
           \/ \E q \in calls : LateSubmit(q)
           \/ Toggle \/ UNCHANGED vars
  <2>1. UNCHANGED <<row, work, adm>>
    BY <1>6 DEF FinishDocument, LateSubmit, Toggle, vars
  <2>2. QED
    BY <2>1 DEF Requested
<1>7. QED
  BY <1>1, <1>2, <1>3, <1>4, <1>5, <1>6 DEF Next, RequestStep

LEMMA RequestedHolds == Spec => []Requested
<1>1. Init => Requested
  BY DEF Init, Requested, Published, NoWork, NoRequest, Calling
<1>2. QED
  BY <1>1, RequestedStep, FencesHold, TypeCorrect, PTL DEF Spec

\* What the step of a worker does that comes back from a submit without an answer.
MarksItsOwn ==
  \A w \in Workers :
    work[w].pc \in {"timeout", "error"} /\ work'[w].pc = "idle"
    /\ row'[Src(w)].idx = "failed" /\ row[Src(w)].idx # "failed"
    => /\ row[Src(w)].gen = work[w].gen /\ row[Src(w)].req = work[w].req
       /\ ~withdrawn[Src(w)]

LEMMA ErrorStep == TypeOK /\ Fences /\ Requested /\ Next => MarksItsOwn
<1> SUFFICES ASSUME TypeOK, Fences, Requested, Next, NEW w \in Workers,
                    work[w].pc \in {"timeout", "error"}, work'[w].pc = "idle",
                    row'[Src(w)].idx = "failed", row[Src(w)].idx # "failed"
             PROVE  /\ row[Src(w)].gen = work[w].gen /\ row[Src(w)].req = work[w].req
                    /\ ~withdrawn[Src(w)]
  BY DEF MarksItsOwn
<1>1. row' # row /\ work'[w] # work[w]
  OBVIOUS
<1>2. PICK v \in Workers : WorkerStep(v) \/ Crash(v) \/ \E s \in Sources : Claim(v, s)
  <2>1. ASSUME NEW a \in Requests,
               \/ RequestStep(a) \/ CrashRequest(a)
               \/ \E s \in Sources : BeginRetry(a, s) \/ BeginCancel(a, s) \/ BeginCleanup(a, s)
        PROVE  UNCHANGED work
    <3>1. CASE RequestStep(a)
      BY <3>1 DEF RequestStep, AdvanceForDelete, CallDelete, VerifyAbsent, DeleteFails,
                  FinishRetry, FinishCancel, RemoveSource
    <3>2. CASE CrashRequest(a)
      BY <3>2 DEF CrashRequest
    <3>3. CASE \E s \in Sources : BeginRetry(a, s) \/ BeginCancel(a, s) \/ BeginCleanup(a, s)
      BY <3>3 DEF BeginRetry, BeginCancel, BeginCleanup
    <3>4. QED
      BY <2>1, <3>1, <3>2, <3>3
  <2>2. \A s \in Sources : EnqueueDelete(s) \/ LeaseExpires(s) => UNCHANGED work
    BY DEF EnqueueDelete, LeaseExpires
  <2>3. /\ \A q, status : FinishDocument(q, status) => UNCHANGED work
        /\ \A q : LateSubmit(q) => UNCHANGED work
        /\ Toggle => UNCHANGED work
    BY DEF FinishDocument, LateSubmit, Toggle
  <2>4. QED
    BY <1>1, <2>1, <2>2, <2>3 DEF Next
<1>3. v = w
  <2>1. CASE WorkerStep(v) \/ Crash(v)
    BY <1>1, <2>1, WorkerGoesOn DEF GoesOn
  <2>2. CASE \E s \in Sources : Claim(v, s)
    BY <1>1, <2>2 DEF Claim, TypeOK, WorkersTyped
  <2>3. QED
    BY <1>2, <2>1, <2>2
<1>4. MarkUnanswered(w)
  <2>1. ~Crash(w)
    BY <1>1 DEF Crash
  <2>2. \A s \in Sources : ~Claim(w, s)
    BY DEF Claim
  <2>3. /\ ~FailWithoutRequest(w) /\ ~Heartbeat(w) /\ ~Probe(w) /\ ~DecideProbe(w)
        /\ ~Postpone(w) /\ ~SealFails(w) /\ ~AdvanceForSubmit(w)
    BY DEF FailWithoutRequest, Heartbeat, Probe, DecideProbe, Postpone, SealFails,
           AdvanceForSubmit, NeedsSubmit
  <2>4. /\ ~SubmitSucceeds(w) /\ ~SubmitRefused(w) /\ ~SubmitUnanswered(w)
        /\ ~BeatLoses(w) /\ ~MarkLanded(w) /\ ~MarkReady(w) /\ ~ApplyDesired(w)
    BY DEF SubmitSucceeds, SubmitRefused, SubmitUnanswered, BeatLoses, MarkLanded, MarkReady,
           ApplyDesired
  <2>5. QED
    BY <1>2, <1>3, <2>1, <2>2, <2>3, <2>4 DEF WorkerStep
<1>5. Current(w, row[Src(w)])
  BY <1>1, <1>4 DEF MarkUnanswered, Reloaded, Mark
<1>6. Src(w) \in Sources
  BY BusyWorkerHasSource
<1>7. work[w].gen = work[w].req
  BY DEF Requested, Calling
<1>8. row[Src(w)].req = row[Src(w)].gen /\ row[Src(w)].state = "prepared"
  BY <1>5, <1>7 DEF Current
<1>9. ~withdrawn[Src(w)]
  BY <1>6, <1>8 DEF Fences, TypeOK, Rows
<1>10. QED
  BY <1>5, <1>9 DEF Current

(* A worker whose submission was cut short marks a row as failed only while *)
(* the row still carries that very request, and none is withdrawn: what     *)
(* others queued or fenced since is left alone.                            *)
THEOREM ErrorsStayTheirOwn == Spec => ErrorsMarkTheirOwnRequest
<1>1. TypeOK /\ Fences /\ Requested /\ [Next]_vars => [MarksItsOwn]_vars
  BY ErrorStep
<1>2. QED
  BY <1>1, RequestedHolds, FencesHold, TypeCorrect, PTL
  DEF Spec, ErrorsMarkTheirOwnRequest, MarksItsOwn
=============================================================================
