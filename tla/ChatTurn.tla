------------------------------ MODULE ChatTurn ------------------------------
(***************************************************************************)
(* Conversation turns: services/chat_turns.py with the callers that race   *)
(* it.  An API request validates and inserts a running turn; leased        *)
(* workers claim it, retrieve evidence, append stream events one commit at *)
(* a time and finalize it with a compare-and-set; the owner cancels it or  *)
(* deletes the conversation; an administrator deletes a source or the      *)
(* domain, which redacts every turn found to depend on it.                 *)
(*                                                                         *)
(* Every action is one database transaction, or the part of one between    *)
(* two reads another session can slip between.  The two-step operations    *)
(* are the point of the model: _persist_event reads the status and then    *)
(* inserts, _persist_evidence_refs reads the status and then waits for the *)
(* conversation lock, the deletions look up dependent turns and then       *)
(* commit.  PostgreSQL runs at READ COMMITTED.                             *)
(***************************************************************************)
EXTENDS Naturals, Sequences, FiniteSets

CONSTANTS
  Turns,           \* (conversation, client_request_id) pairs
  Conversations,
  ConversationOf,  \* the conversation of each turn
  Workers,         \* worker processes running ConversationTurnWorker.run_once
  Sources,         \* source documents of the one knowledge domain modelled
  Domain,          \* that domain
  NoTurn,          \* the job of an idle worker
  MaxGeneration,   \* bound: claims of one turn
  MaxDeltas        \* bound: answer tokens of one execution

ASSUME TurnConstants ==
  /\ ConversationOf \in [Turns -> Conversations]
  /\ Domain \notin Sources
  /\ NoTurn \notin Turns
  /\ MaxGeneration \in Nat /\ MaxDeltas \in Nat

VARIABLES
  conversations,   \* conversations that exist
  request,         \* per turn: the API request between validation and insert
  status, route, stopReason, gen, lease,   \* ConversationTurn columns
  evidence,        \* sources of the turn's evidence refs
  composer,        \* sources of the turn's accepted composer refs
  labelled,        \* the refs still carry their public labels and excerpts
  answer,          \* assistant_answer is stored
  events,          \* ConversationTurnEvent rows by sequence
  source, domain,  \* lifecycle state of the sources and of the domain
  todo,            \* per deletion: the open transaction and the turns it found
  pc, job, jobGen, found, sending, deltas, \* a worker's run_once
  bornAfter        \* history: sources already deleted when the turn was inserted

requestVars == <<conversations, request>>
turnVars    == <<status, route, stopReason, gen, lease, evidence, composer,
                 labelled, answer, events, bornAfter>>
adminVars   == <<source, domain, todo>>
workerVars  == <<pc, job, jobGen, found, sending, deltas>>
vars == <<requestVars, turnVars, adminVars, workerVars>>

-----------------------------------------------------------------------------
Routes      == {"direct_llm", "domain_rag"}
Outcomes    == {"completed", "failed", "cancelled"}
Statuses    == {"absent", "running", "redacted", "deleted"} \cup Outcomes
StopReasons == {"none", "direct_llm", "grounded", "no_grounded_context",
                "evidence_only", "provider_failure", "cancelled", "redacted"}
StreamTypes == {"retrieval.started", "evidence.delta", "retrieval.completed",
                "answer.delta"}
EventTypes  == {"turn.accepted", "route.selected", "redacted"}
               \cup StreamTypes \cup Outcomes
\* gen is 0 for rows the API writes; text: the payload holds derived content
Events      == [type : EventTypes, gen : Nat, text : BOOLEAN]
Redactors   == Sources \cup {Domain}
Stages      == {"idle", "claimed", "retrieve", "check_refs", "commit_refs",
                "persist", "append", "synthesize"}

Event(type, g, text) == [type |-> type, gen |-> g, text |-> text]
Exists(t)    == status[t] \notin {"absent", "deleted"}
Cites(t)     == evidence[t] \cup composer[t]
HasDelta(t)  == \E i \in DOMAIN events[t] : events[t][i].type = "answer.delta"
Ready        == {s \in Sources : source[s] = "ready"}

NothingTodo  == [open |-> FALSE, turns |-> {}, answered |-> {}]
NoRequest    == [open |-> FALSE, route |-> "direct_llm", refs |-> {}]

\* mutants of FenceOpen: either half of the test dropped
GenerationCurrent(w) == gen[job[w]] = jobGen[w]
StillRunning(w)      == status[job[w]] = "running"

\* _persist_event's and _execution_fence_open's test of a refreshed turn row,
\* and the condition of _finalize_turn_if_running's update
FenceOpen(w) == /\ status[job[w]] = "running"
                /\ gen[job[w]] = jobGen[w]

Init ==
  /\ conversations = Conversations
  /\ request    = [t \in Turns |-> NoRequest]
  /\ status     = [t \in Turns |-> "absent"]
  /\ route      = [t \in Turns |-> "direct_llm"]
  /\ stopReason = [t \in Turns |-> "none"]
  /\ gen        = [t \in Turns |-> 0]
  /\ lease      = [t \in Turns |-> "none"]
  /\ evidence   = [t \in Turns |-> {}]
  /\ composer   = [t \in Turns |-> {}]
  /\ labelled   = [t \in Turns |-> FALSE]
  /\ answer     = [t \in Turns |-> FALSE]
  /\ events     = [t \in Turns |-> << >>]
  /\ bornAfter  = [t \in Turns |-> {}]
  /\ source     = [s \in Sources |-> "ready"]
  /\ domain     = "running"
  /\ todo       = [d \in Redactors |-> NothingTodo]
  /\ pc         = [w \in Workers |-> "idle"]
  /\ job        = [w \in Workers |-> NoTurn]
  /\ jobGen     = [w \in Workers |-> 0]
  /\ found      = [w \in Workers |-> {}]
  /\ sending    = [w \in Workers |-> "answer.delta"]
  /\ deltas     = [w \in Workers |-> 0]

-----------------------------------------------------------------------------
(* API requests                                                            *)

\* mutant of ConversationBusy: only the same request counts as running
RequestBusy(t) == status[t] = "running"

\* _running_turn
ConversationBusy(t) ==
  \E u \in Turns : /\ ConversationOf[u] = ConversationOf[t]
                   /\ status[u] = "running"

\* start_or_replay_turn before the conversation lock.  An existing turn is
\* replayed or refused and nothing changes.
ValidateStart(t, r, refs) ==
  /\ ConversationOf[t] \in conversations
  /\ ~request[t].open
  /\ status[t] = "absent" /\ ~ConversationBusy(t)
  /\ r = "domain_rag" => domain = "running"
  /\ refs # {} => r = "domain_rag"
  /\ refs \subseteq Ready
  /\ request' = [request EXCEPT ![t] = [open |-> TRUE, route |-> r, refs |-> refs]]
  /\ UNCHANGED <<conversations, turnVars, adminVars, workerVars>>

\* start_or_replay_turn under the conversation lock: recheck, consume the
\* composer tokens (a committed source deletion has expired them: its listing
\* of tokens and its commit are one step here, ComposerRefs has them apart),
\* insert the turn with its first two events, make it claimable.
InsertTurn(t) ==
  /\ request[t].open
  /\ request' = [request EXCEPT ![t] = NoRequest]
  /\ IF /\ ConversationOf[t] \in conversations
        /\ status[t] = "absent" /\ ~ConversationBusy(t)
        /\ domain = "deleting" => request[t].refs = {}
        /\ request[t].refs \subseteq Ready
     THEN /\ status'    = [status EXCEPT ![t] = "running"]
          /\ route'     = [route EXCEPT ![t] = request[t].route]
          /\ composer'  = [composer EXCEPT ![t] = request[t].refs]
          /\ labelled'  = [labelled EXCEPT ![t] = TRUE]
          /\ events'    = [events EXCEPT ![t] = <<Event("turn.accepted", 0, FALSE),
                                                  Event("route.selected", 0, FALSE)>>]
          /\ bornAfter' = [bornAfter EXCEPT ![t] = Sources \ Ready]
          /\ UNCHANGED <<stopReason, gen, lease, evidence, answer>>
     ELSE UNCHANGED turnVars
  /\ UNCHANGED <<conversations, adminVars, workerVars>>

\* cancel_turn: compare-and-set on status alone, the event in the same commit
CancelTurn(t) ==
  /\ status[t] = "running"
  /\ status'     = [status EXCEPT ![t] = "cancelled"]
  /\ stopReason' = [stopReason EXCEPT ![t] = "cancelled"]
  /\ lease'      = [lease EXCEPT ![t] = "none"]
  /\ answer'     = [answer EXCEPT ![t] = FALSE]
  /\ events'     = [events EXCEPT ![t] = Append(@, Event("cancelled", 0, FALSE))]
  /\ UNCHANGED <<requestVars, route, gen, evidence, composer, labelled, bornAfter,
                 adminVars, workerVars>>

\* delete_conversation: the rows of its turns, refs and events cascade away
DeleteConversation(c) ==
  LET gone == {t \in Turns : ConversationOf[t] = c /\ Exists(t)} IN
  /\ c \in conversations
  /\ conversations' = conversations \ {c}
  /\ status'   = [t \in Turns |-> IF t \in gone THEN "deleted" ELSE status[t]]
  /\ events'   = [t \in Turns |-> IF t \in gone THEN << >> ELSE events[t]]
  /\ evidence' = [t \in Turns |-> IF t \in gone THEN {} ELSE evidence[t]]
  /\ composer' = [t \in Turns |-> IF t \in gone THEN {} ELSE composer[t]]
  /\ labelled' = [t \in Turns |-> IF t \in gone THEN FALSE ELSE labelled[t]]
  /\ answer'   = [t \in Turns |-> IF t \in gone THEN FALSE ELSE answer[t]]
  /\ lease'    = [t \in Turns |-> IF t \in gone THEN "none" ELSE lease[t]]
  /\ UNCHANGED <<request, route, stopReason, gen, bornAfter, adminVars, workerVars>>

-----------------------------------------------------------------------------
(* Source and domain deletion                                              *)

\* _turns_linked_to_source, _dependent_turns_for_domain
Dependent(d) ==
  {t \in Turns : /\ Exists(t)
                 /\ IF d = Domain THEN route[t] = "domain_rag" \/ Cites(t) # {}
                                  ELSE d \in Cites(t)}

\* enqueue_delete_source / enqueue_delete_domain, and the repetition of the
\* latter by DomainDeleteWorker and of the former by a second DELETE: the
\* transaction opens and loads the turns that depend on what it deletes.
BeginDeletion(d) ==
  /\ ~todo[d].open
  /\ LET hit == {t \in Dependent(d) : status[t] # "redacted"} IN
     todo' = [todo EXCEPT ![d] = [open |-> TRUE, turns |-> hit,
                                  answered |-> {t \in hit : answer[t]}]]
  /\ UNCHANGED <<requestVars, turnVars, source, domain, workerVars>>

Sanitized(log) == [i \in DOMAIN log |-> [log[i] EXCEPT !.text = FALSE]]

\* the rows as loaded: assistant_answer = None is written only if the loaded
\* copy had an answer, for an unchanged attribute is left out of the UPDATE
ClearedAnswers(d) == todo[d].answered

\* _redact_turns under the conversation locks, committed with the new source
\* or domain state.  A row that has vanished fails the whole transaction.
CommitDeletion(d) ==
  LET hit == todo[d].turns IN
  /\ todo[d].open
  /\ todo' = [todo EXCEPT ![d] = NothingTodo]
  /\ IF \E t \in hit : status[t] = "deleted"
     THEN UNCHANGED <<source, domain, turnVars>>
     ELSE /\ source' = [s \in Sources |-> IF s = d THEN "deleting" ELSE source[s]]
          /\ domain' = IF d = Domain THEN "deleting" ELSE domain
          /\ status'     = [t \in Turns |-> IF t \in hit THEN "redacted" ELSE status[t]]
          /\ stopReason' = [t \in Turns |-> IF t \in hit THEN "redacted" ELSE stopReason[t]]
          /\ labelled'   = [t \in Turns |-> IF t \in hit THEN FALSE ELSE labelled[t]]
          /\ answer'     = [t \in Turns |-> IF t \in ClearedAnswers(d) THEN FALSE
                                                                     ELSE answer[t]]
          /\ events'     = [t \in Turns |->
                              IF t \in hit
                              THEN Append(Sanitized(events[t]), Event("redacted", 0, FALSE))
                              ELSE events[t]]
          /\ UNCHANGED <<route, gen, lease, evidence, composer, bornAfter>>
  /\ UNCHANGED <<requestVars, workerVars>>

\* commit_protected_mutation rolls back: an audit row, a lock or an event
\* sequence failed
RollBackDeletion(d) ==
  /\ todo[d].open
  /\ todo' = [todo EXCEPT ![d] = NothingTodo]
  /\ UNCHANGED <<requestVars, turnVars, source, domain, workerVars>>

-----------------------------------------------------------------------------
(* The worker: ConversationTurnWorker.run_once and TurnOrchestrator         *)

\* mutant of Unleased: an expired lease is not taken over
NeverLeased(t) == lease[t] = "none"

Unleased(t) == lease[t] \in {"none", "expired"}

\* _claim_next_turn
Claim(w, t) ==
  /\ pc[w] = "idle"
  /\ status[t] = "running"
  /\ Unleased(t)
  /\ gen[t] < MaxGeneration
  /\ lease'  = [lease EXCEPT ![t] = "held"]
  /\ gen'    = [gen EXCEPT ![t] = @ + 1]
  /\ pc'     = [pc EXCEPT ![w] = "claimed"]
  /\ job'    = [job EXCEPT ![w] = t]
  /\ jobGen' = [jobGen EXCEPT ![w] = gen[t] + 1]
  /\ UNCHANGED <<requestVars, status, route, stopReason, evidence, composer, labelled,
                 answer, events, bornAfter, adminVars, found, sending, deltas>>

\* mutant of Leave: the worker forgets to drop its job
LeaveHoldingJob(w) ==
  /\ pc' = [pc EXCEPT ![w] = "idle"]
  /\ UNCHANGED <<job, jobGen, found, sending, deltas>>

\* run_once ends: whatever was claimed stays as the last commit left it
Leave(w) ==
  /\ pc'      = [pc EXCEPT ![w] = "idle"]
  /\ job'     = [job EXCEPT ![w] = NoTurn]
  /\ jobGen'  = [jobGen EXCEPT ![w] = 0]
  /\ found'   = [found EXCEPT ![w] = {}]
  /\ sending' = [sending EXCEPT ![w] = "answer.delta"]
  /\ deltas'  = [deltas EXCEPT ![w] = 0]

Goto(w, stage) ==
  /\ pc' = [pc EXCEPT ![w] = stage]
  /\ UNCHANGED <<job, jobGen, found, sending, deltas>>

\* hand one event to _persist_event
Emit(w, type) ==
  /\ pc'      = [pc EXCEPT ![w] = "persist"]
  /\ sending' = [sending EXCEPT ![w] = type]
  /\ UNCHANGED <<job, jobGen, found, deltas>>

\* _complete_turn and _fail_turn: _finalize_turn_if_running's compare-and-set
\* with the terminal event in the same commit
Finalize(w, outcome, reason) ==
  LET t == job[w] IN
  /\ Leave(w)
  /\ IF FenceOpen(w)
     THEN /\ status'     = [status EXCEPT ![t] = outcome]
          /\ stopReason' = [stopReason EXCEPT ![t] = reason]
          /\ lease'      = [lease EXCEPT ![t] = "none"]
          /\ answer'     = [answer EXCEPT ![t] = reason \in {"direct_llm", "grounded"}]
          /\ events'     = [events EXCEPT ![t] = Append(@,
                              Event(outcome, jobGen[w],
                                    outcome = "completed" /\ Cites(t) # {}))]
          /\ UNCHANGED <<route, gen, evidence, composer, labelled, bornAfter>>
     ELSE UNCHANGED turnVars
  /\ UNCHANGED <<requestVars, adminVars>>

\* run_once after the claim: an earlier execution's answer is never extended
BeginExecution(w) ==
  /\ pc[w] = "claimed"
  /\ ~HasDelta(job[w])
  /\ IF route[job[w]] = "domain_rag" THEN Emit(w, "retrieval.started")
                                     ELSE Goto(w, "synthesize")
  /\ UNCHANGED <<requestVars, turnVars, adminVars>>

\* the delta found above, or a synthesis profile that does not resolve
FailClaimed(w) ==
  /\ pc[w] = "claimed"
  /\ Finalize(w, "failed", "provider_failure")

\* _persist_event: refresh, status and generation checks
CheckFence(w) ==
  /\ pc[w] = "persist"
  /\ IF FenceOpen(w) THEN Goto(w, "append") ELSE Leave(w)
  /\ UNCHANGED <<requestVars, turnVars, adminVars>>

\* where the orchestrator goes once an event is durable
AfterEvent(w) ==
  LET type == sending[w] IN
  /\ IF type = "evidence.delta" THEN Emit(w, "retrieval.completed")
     ELSE /\ pc' = [pc EXCEPT ![w] = IF type = "retrieval.started" THEN "retrieve"
                                                                  ELSE "synthesize"]
          /\ deltas' = [deltas EXCEPT ![w] = IF type = "answer.delta" THEN @ + 1 ELSE @]
          /\ UNCHANGED <<job, jobGen, found, sending>>

\* _persist_event: next sequence, insert, commit.  Nothing locks the turn row,
\* so the row lands even if the turn ended after the check; only a vanished
\* parent row stops it.
AppendEvent(w) ==
  LET t == job[w] IN
  /\ pc[w] = "append"
  /\ IF status[t] = "deleted"
     THEN Leave(w) /\ UNCHANGED turnVars
     ELSE /\ events' = [events EXCEPT ![t] = Append(@,
                          Event(sending[w], jobGen[w],
                                sending[w] \in {"answer.delta", "evidence.delta"}))]
          /\ AfterEvent(w)
          /\ UNCHANGED <<status, route, stopReason, gen, lease, evidence, composer,
                         labelled, answer, bornAfter>>
  /\ UNCHANGED <<requestVars, adminVars>>

\* mutant of Reauthorized: the sources are not looked at again
DomainReauthorized(hits) == domain = "running"

\* map_retrieval_hits_to_internal_evidence, reauthorize_frozen_retrieval_scope
Reauthorized(hits) == domain = "running" /\ hits \subseteq Ready

\* retrieve_internal_scoped_evidence: hits are mapped and the frozen scope is
\* reauthorized against the committed domain and source states
Retrieve(w, hits) ==
  /\ pc[w] = "retrieve"
  /\ Reauthorized(hits)
  /\ found' = [found EXCEPT ![w] = hits]
  /\ IF hits = {} THEN /\ pc' = [pc EXCEPT ![w] = "persist"]
                       /\ sending' = [sending EXCEPT ![w] = "retrieval.completed"]
                  ELSE /\ pc' = [pc EXCEPT ![w] = "check_refs"]
                       /\ UNCHANGED sending
  /\ UNCHANGED <<job, jobGen, deltas, requestVars, turnVars, adminVars>>

\* retrieval raised ChatTurnError: runtime unavailable, scope no longer current
RetrieveFails(w) ==
  /\ pc[w] = "retrieve"
  /\ Finalize(w, "failed", "provider_failure")

\* _persist_evidence_refs before the conversation lock
CheckRefs(w) ==
  /\ pc[w] = "check_refs"
  /\ IF FenceOpen(w) THEN Goto(w, "commit_refs") ELSE Leave(w)
  /\ UNCHANGED <<requestVars, turnVars, adminVars>>

\* mutant of RefsCollide: evidence rows without the unique order index
RefsNeverCollide(t) == FALSE

RefsCollide(t) == evidence[t] # {}

\* mutant of NextAfterRefs: the evidence event is left out
CompletedAfterRefs == "retrieval.completed"

NextAfterRefs == "evidence.delta"

\* _persist_evidence_refs under the lock: no second check.  Rows numbered from
\* one collide with the rows of an earlier execution and the iteration dies.
CommitRefs(w) ==
  LET t == job[w] IN
  /\ pc[w] = "commit_refs"
  /\ IF status[t] = "deleted" \/ RefsCollide(t)
     THEN Leave(w) /\ UNCHANGED turnVars
     ELSE /\ evidence' = [evidence EXCEPT ![t] = found[w]]
          /\ labelled' = [labelled EXCEPT ![t] = TRUE]
          /\ Emit(w, NextAfterRefs)
          /\ UNCHANGED <<status, route, stopReason, gen, lease, composer, answer, events,
                         bornAfter>>
  /\ UNCHANGED <<requestVars, adminVars>>

\* a token from the synthesis provider
ReceiveToken(w) ==
  /\ pc[w] = "synthesize"
  /\ route[job[w]] = "direct_llm" \/ found[w] # {}
  /\ deltas[w] < MaxDeltas
  /\ Emit(w, "answer.delta")
  /\ UNCHANGED <<requestVars, turnVars, adminVars>>

\* the outcomes of an exhausted, failed or blank token stream
SynthesisEnds(w) ==
  IF route[job[w]] = "direct_llm"
  THEN {<<"failed", "provider_failure">>}
       \cup (IF deltas[w] > 0 THEN {<<"completed", "direct_llm">>} ELSE {})
  ELSE IF found[w] = {} THEN {<<"completed", "no_grounded_context">>}
  ELSE IF deltas[w] = 0 THEN {<<"completed", "evidence_only">>}
  ELSE {<<"completed", "grounded">>, <<"failed", "provider_failure">>}

EndSynthesis(w) ==
  /\ pc[w] = "synthesize"
  /\ \E end \in SynthesisEnds(w) : Finalize(w, end[1], end[2])

\* the process dies, the heartbeat reports the lease lost, or a sequence
\* collision aborts the iteration: nothing more is committed.  The last
\* generation the bound allows runs undisturbed.
Crash(w) ==
  /\ pc[w] # "idle"
  /\ jobGen[w] < MaxGeneration
  /\ Leave(w)
  /\ UNCHANGED <<requestVars, turnVars, adminVars>>

Executing(t) == \E w \in Workers : job[w] = t /\ jobGen[w] = gen[t]

\* lease_expires_at passes: no heartbeat came, or it came too late
LeaseExpires(t) ==
  /\ lease[t] = "held"
  /\ Executing(t) => gen[t] < MaxGeneration
  /\ lease' = [lease EXCEPT ![t] = "expired"]
  /\ UNCHANGED <<requestVars, status, route, stopReason, gen, evidence, composer,
                 labelled, answer, events, bornAfter, adminVars, workerVars>>

-----------------------------------------------------------------------------
WorkerStep(w) ==
  \/ BeginExecution(w) \/ FailClaimed(w)
  \/ CheckFence(w) \/ AppendEvent(w)
  \/ \E hits \in SUBSET Sources : Retrieve(w, hits)
  \/ RetrieveFails(w)
  \/ CheckRefs(w) \/ CommitRefs(w)
  \/ ReceiveToken(w) \/ EndSynthesis(w)

Next ==
  \/ \E t \in Turns, r \in Routes, refs \in SUBSET Sources : ValidateStart(t, r, refs)
  \/ \E t \in Turns : InsertTurn(t) \/ CancelTurn(t) \/ LeaseExpires(t)
  \/ \E c \in Conversations : DeleteConversation(c)
  \/ \E d \in Redactors : BeginDeletion(d) \/ CommitDeletion(d) \/ RollBackDeletion(d)
  \/ \E w \in Workers, t \in Turns : Claim(w, t)
  \/ \E w \in Workers : WorkerStep(w) \/ Crash(w)

Spec == Init /\ [][Next]_vars

\* run_loop polls until shutdown and provider, retrieval and lock waits are
\* bounded by timeouts; clocks advance.  Users, administrators and faults owe
\* nothing.
Fairness ==
  /\ \A w \in Workers : WF_vars(WorkerStep(w))
  /\ \A t \in Turns : WF_vars(\E w \in Workers : Claim(w, t))
  /\ \A t \in Turns : WF_vars(LeaseExpires(t) /\ ~Executing(t))

FairSpec == Spec /\ Fairness

-----------------------------------------------------------------------------
(* Invariants                                                              *)

RequestsTyped ==
  /\ conversations \subseteq Conversations
  /\ request \in [Turns -> [open : BOOLEAN, route : Routes, refs : SUBSET Sources]]

TurnsTyped ==
  /\ status \in [Turns -> Statuses]
  /\ route \in [Turns -> Routes]
  /\ stopReason \in [Turns -> StopReasons]
  /\ gen \in [Turns -> Nat]
  /\ lease \in [Turns -> {"none", "held", "expired"}]
  /\ evidence \in [Turns -> SUBSET Sources]
  /\ composer \in [Turns -> SUBSET Sources]
  /\ labelled \in [Turns -> BOOLEAN]
  /\ answer \in [Turns -> BOOLEAN]
  /\ events \in [Turns -> Seq(Events)]
  /\ bornAfter \in [Turns -> SUBSET Sources]

AdminTyped ==
  /\ source \in [Sources -> {"ready", "deleting"}]
  /\ domain \in {"running", "deleting"}
  /\ todo \in [Redactors -> [open : BOOLEAN, turns : SUBSET Turns, answered : SUBSET Turns]]

WorkersTyped ==
  /\ pc \in [Workers -> Stages]
  /\ job \in [Workers -> Turns \cup {NoTurn}]
  /\ \A w \in Workers : (pc[w] = "idle") <=> (job[w] = NoTurn)
  /\ jobGen \in [Workers -> Nat]
  /\ found \in [Workers -> SUBSET Sources]
  /\ sending \in [Workers -> StreamTypes]
  /\ deltas \in [Workers -> Nat]

\* Every variable keeps its column's vocabulary and range, and a worker holds
\* a job exactly while it is inside run_once.
TypeOK == RequestsTyped /\ TurnsTyped /\ AdminTyped /\ WorkersTyped

Places(t, types) == {i \in DOMAIN events[t] : events[t][i].type \in types}

\* "Terminal state and terminal event commit atomically", and an execution
\* emits exactly one of completed, failed, cancelled: whatever workers, the
\* canceller and deletions do, a running turn has no outcome event, an ended
\* turn has exactly the one its status names, and a redacted turn at most one.
OutcomeMatchesStatus ==
  \A t \in Turns :
    /\ status[t] = "running" => Places(t, Outcomes) = {}
    /\ status[t] \in Outcomes =>
         \E i \in Places(t, Outcomes) : events[t][i].type = status[t]
    /\ status[t] \in Outcomes \cup {"redacted"} =>
         \A i, j \in Places(t, Outcomes) : i = j

\* "Stale generation completions are no-ops": the worker's completed or failed
\* event of a turn was written by the latest claim of that turn, however many
\* executions whose lease ran out are still going.
OnlyLatestClaimFinalizes ==
  \A t \in Turns : \A i \in Places(t, {"completed", "failed"}) :
    events[t][i].gen = gen[t]

\* A turn inserted after a source's deletion committed never cites that
\* source, through its composer refs (tokens expired by the deletion) or its
\* evidence (scope reauthorized after the hits came back).
DeletedSourcesStayUncited ==
  \A t \in Turns : Cites(t) \cap bornAfter[t] = {}

\* Every answer delta of a grounded turn follows that turn's evidence event,
\* and a direct turn never emits a retrieval or evidence event, across all the
\* executions a turn may have had.
EvidencePrecedesAnswer ==
  \A t \in Turns :
    IF route[t] = "domain_rag"
    THEN \A i \in Places(t, {"answer.delta"}) :
           \E j \in Places(t, {"evidence.delta"}) : j < i
    ELSE Places(t, StreamTypes \ {"answer.delta"}) = {}

\* One conversation never has two running turns: the check under the
\* conversation lock holds against a concurrent request.
OneRunningTurn ==
  \A t, u \in Turns :
    /\ status[t] = "running" /\ status[u] = "running"
    /\ ConversationOf[t] = ConversationOf[u]
    => t = u

\* A turn's evidence refs come from a single execution and its evidence event
\* appears once, so the order and the citation labels of the evidence are
\* stable whatever is reclaimed.
EvidenceIsStable ==
  \A t \in Turns : \A i, j \in Places(t, {"evidence.delta"}) : i = j

-----------------------------------------------------------------------------
(* Action and liveness properties                                          *)

\* No late stream result, cancellation or second deletion revives or relabels
\* an ended turn: an outcome may only become a redaction, and a redaction is
\* final, until the conversation goes away.
EndedTurnsStayEnded ==
  [][\A t \in Turns :
       /\ status[t] \in Outcomes => status'[t] \in {status[t], "redacted", "deleted"}
       /\ status[t] \in {"redacted", "deleted"} => status'[t] \in {status[t], "deleted"}]_vars

\* The execution that finds its evidence already persisted by an earlier one
\* and can therefore never get past that insert.
StuckOnEvidence(t) == status[t] = "running" /\ evidence[t] # {} /\ gen[t] > 1

\* Lease recovery: a running turn ends although workers crash and lose leases,
\* unless an execution died between persisting evidence and the first token.
TurnEventuallyEnds ==
  \A t \in Turns : status[t] = "running" ~> (status[t] # "running" \/ StuckOnEvidence(t))

-----------------------------------------------------------------------------
(* What the documentation says and the code does not keep                  *)

\* sse-event-catalog, "cancel: any non-terminal prefix -> cancelled": nothing
\* but a redaction follows an outcome event.
OutcomeIsLast ==
  \A t \in Turns : \A i \in Places(t, Outcomes) :
    \A j \in DOMAIN events[t] : j > i => events[t][j].type = "redacted"

\* data-and-lifecycle, redaction invariant: once a deletion has committed and
\* no execution or deletion is under way, every turn citing it is redacted.
CitingTurnsAreRedacted ==
  /\ \A w \in Workers : pc[w] = "idle"
  /\ \A d \in Redactors : ~todo[d].open
  => \A t \in Turns, s \in Sources :
       source[s] = "deleting" /\ s \in Cites(t) => ~Exists(t) \/ status[t] = "redacted"

\* data-and-lifecycle, redaction invariant: a redacted turn shows neither
\* answer nor evidence content.
RedactedTurnsShowNothing ==
  \A t \in Turns : status[t] = "redacted" =>
    /\ ~labelled[t]
    /\ \A i \in DOMAIN events[t] : ~events[t][i].text

\* data-and-lifecycle, redaction invariant, "clear assistant answer": the
\* column of a redacted turn holds no answer.
RedactedAnswersAreCleared ==
  \A t \in Turns : status[t] = "redacted" => ~answer[t]

\* sse-event-catalog, "A later deletion may append one higher-sequence
\* turn.redacted".
OneRedactionEvent ==
  \A t \in Turns : Cardinality(Places(t, {"redacted"})) <= 1

\* run_once, "A lease/status fence intentionally rejects stale execution": the
\* deltas of an answered turn all come from the execution that completed it.
AnswerFromOneExecution ==
  \A t \in Turns : stopReason[t] \in {"direct_llm", "grounded"} =>
    \A i \in Places(t, {"answer.delta"}) : events[t][i].gen = gen[t]

\* deployment-topology, unresolved work "remains recoverable by lease expiry":
\* the execution that owns the turn can persist the evidence it retrieved.
ReclaimCanPersistEvidence ==
  \A w \in Workers : pc[w] = "commit_refs" /\ FenceOpen(w) => evidence[job[w]] = {}

\* sse-event-catalog, legal sequences: retrieval.started appears once.
RetrievalStartsOnce ==
  \A t \in Turns : Cardinality(Places(t, {"retrieval.started"})) <= 1
=============================================================================
