--------------------------- MODULE ChatTurnProofs ---------------------------
(***************************************************************************)
(* Theorems about ChatTurn for every number of turns, workers, sources and *)
(* claims: type correctness first, then the safety properties, which are   *)
(* conjuncts of Safe, inductive together with TypeOK.                      *)
(***************************************************************************)
EXTENDS ChatTurn, SequenceTheorems, TLAPS

(* An event row is well typed.                                             *)
LEMMA EventType ==
  ASSUME NEW type \in EventTypes, NEW g \in Nat, NEW text \in BOOLEAN
  PROVE  Event(type, g, text) \in Events
BY DEF Event, Events

(* Appending a row to one turn's log keeps the logs typed, keeps that       *)
(* turn's earlier rows and leaves the other turns' logs alone.             *)
LEMMA AppendedLog ==
  ASSUME NEW log \in Seq(Events), NEW e \in Events
  PROVE  /\ Append(log, e) \in Seq(Events)
         /\ Len(Append(log, e)) = Len(log) + 1
         /\ DOMAIN Append(log, e) = DOMAIN log \cup {Len(log) + 1}
         /\ Append(log, e)[Len(log) + 1] = e
         /\ \A i \in DOMAIN log : Append(log, e)[i] = log[i]
BY AppendProperties

(* The two rows a turn is born with.                                       *)
LEMMA FirstEvents ==
  ASSUME NEW first \in Events, NEW second \in Events
  PROVE  <<first, second>> \in Seq(Events)
OBVIOUS

(* Redaction rewrites payloads: no row appears, disappears, or changes its *)
(* type or the generation that wrote it.                                   *)
LEMMA SanitizedLog ==
  ASSUME NEW log \in Seq(Events)
  PROVE  /\ Sanitized(log) \in Seq(Events)
         /\ Len(Sanitized(log)) = Len(log)
         /\ DOMAIN Sanitized(log) = DOMAIN log
         /\ \A i \in DOMAIN log : /\ Sanitized(log)[i].type = log[i].type
                                  /\ Sanitized(log)[i].gen = log[i].gen
<1>1. \A i \in DOMAIN log : log[i] \in Events
  OBVIOUS
<1>2. \A i \in DOMAIN log : [log[i] EXCEPT !.text = FALSE] \in Events
  BY <1>1 DEF Events
<1>3. DOMAIN log = 1..Len(log)
  OBVIOUS
<1>4. Sanitized(log) \in [1..Len(log) -> Events]
  BY <1>2, <1>3 DEF Sanitized
<1>5. QED
  BY <1>1, <1>3, <1>4 DEF Sanitized, Events

-----------------------------------------------------------------------------
(* Type correctness, one lemma per group of variables.                     *)

(* An inserted turn has a legal row and a legal log.                       *)
LEMMA InsertTurnTyped ==
  ASSUME RequestsTyped, TurnsTyped, NEW t \in Turns, InsertTurn(t)
  PROVE  TurnsTyped'
<1>1. CASE UNCHANGED turnVars
  BY <1>1 DEF TurnsTyped, turnVars
<1>2. CASE ~UNCHANGED turnVars
  <2>1. /\ status'    = [status EXCEPT ![t] = "running"]
        /\ route'     = [route EXCEPT ![t] = request[t].route]
        /\ composer'  = [composer EXCEPT ![t] = request[t].refs]
        /\ labelled'  = [labelled EXCEPT ![t] = TRUE]
        /\ events'    = [events EXCEPT ![t] = <<Event("turn.accepted", 0, FALSE),
                                                Event("route.selected", 0, FALSE)>>]
        /\ bornAfter' = [bornAfter EXCEPT ![t] = Sources \ Ready]
        /\ UNCHANGED <<stopReason, gen, lease, evidence, answer>>
    BY <1>2 DEF InsertTurn
  <2>2. <<Event("turn.accepted", 0, FALSE), Event("route.selected", 0, FALSE)>>
          \in Seq(Events)
    <3>1. /\ Event("turn.accepted", 0, FALSE) \in Events
          /\ Event("route.selected", 0, FALSE) \in Events
      BY EventType DEF EventTypes
    <3>2. QED
      BY <3>1, FirstEvents
  <2>3. "running" \in Statuses
    BY DEF Statuses
  <2>4. request[t].route \in Routes /\ request[t].refs \in SUBSET Sources
    BY DEF RequestsTyped
  <2>5. status' \in [Turns -> Statuses] /\ events' \in [Turns -> Seq(Events)]
    BY <2>1, <2>2, <2>3 DEF TurnsTyped
  <2>6. route' \in [Turns -> Routes] /\ composer' \in [Turns -> SUBSET Sources]
    BY <2>1, <2>4 DEF TurnsTyped
  <2>7. bornAfter' \in [Turns -> SUBSET Sources] /\ labelled' \in [Turns -> BOOLEAN]
    BY <2>1 DEF TurnsTyped
  <2>8. QED
    BY <2>1, <2>5, <2>6, <2>7 DEF TurnsTyped
<1>3. QED
  BY <1>1, <1>2

(* Cancelling and losing a lease keep the row legal.                       *)
LEMMA LeaseAndCancelTyped ==
  ASSUME TurnsTyped, NEW t \in Turns, CancelTurn(t) \/ LeaseExpires(t)
  PROVE  TurnsTyped'
<1> USE DEF TurnsTyped
<1>1. CASE CancelTurn(t)
  <2>1. Event("cancelled", 0, FALSE) \in Events
    BY EventType DEF EventTypes, Outcomes
  <2>2. events' \in [Turns -> Seq(Events)]
    <3>1. Append(events[t], Event("cancelled", 0, FALSE)) \in Seq(Events)
      BY <2>1, AppendedLog
    <3>2. QED
      BY <1>1, <3>1 DEF CancelTurn
  <2>3. status' \in [Turns -> Statuses] /\ stopReason' \in [Turns -> StopReasons]
    BY <1>1 DEF CancelTurn, Statuses, Outcomes, StopReasons
  <2>4. QED
    BY <1>1, <2>2, <2>3 DEF CancelTurn
<1>2. CASE LeaseExpires(t)
  BY <1>2 DEF LeaseExpires
<1>3. QED
  BY <1>1, <1>2

(* The cascade of a deleted conversation leaves empty, legal values.       *)
LEMMA DeleteConversationTyped ==
  ASSUME TurnsTyped, NEW c \in Conversations, DeleteConversation(c)
  PROVE  TurnsTyped'
<1> USE DEF TurnsTyped
<1>1. << >> \in Seq(Events) /\ "deleted" \in Statuses
  BY DEF Statuses
<1>2. status' \in [Turns -> Statuses]
  BY <1>1 DEF DeleteConversation
<1>3. events' \in [Turns -> Seq(Events)]
  BY <1>1 DEF DeleteConversation
<1>4. evidence' \in [Turns -> SUBSET Sources] /\ composer' \in [Turns -> SUBSET Sources]
  BY DEF DeleteConversation
<1>5. /\ labelled' \in [Turns -> BOOLEAN] /\ answer' \in [Turns -> BOOLEAN]
      /\ lease' \in [Turns -> {"none", "held", "expired"}]
  BY DEF DeleteConversation
<1>6. QED
  BY <1>2, <1>3, <1>4, <1>5 DEF DeleteConversation

(* What a committing deletion does to the turns it found.                  *)
LEMMA CommitDeletionEffect ==
  ASSUME NEW d \in Redactors, CommitDeletion(d), ~UNCHANGED turnVars
  PROVE  /\ source' = [s \in Sources |-> IF s = d THEN "deleting" ELSE source[s]]
         /\ domain' = IF d = Domain THEN "deleting" ELSE domain
         /\ \A t \in todo[d].turns : status[t] # "deleted"
         /\ status'     = [t \in Turns |-> IF t \in todo[d].turns THEN "redacted"
                                                                  ELSE status[t]]
         /\ stopReason' = [t \in Turns |-> IF t \in todo[d].turns THEN "redacted"
                                                                  ELSE stopReason[t]]
         /\ labelled'   = [t \in Turns |-> IF t \in todo[d].turns THEN FALSE
                                                                  ELSE labelled[t]]
         /\ answer'     = [t \in Turns |-> IF t \in ClearedAnswers(d) THEN FALSE
                                                                    ELSE answer[t]]
         /\ events'     = [t \in Turns |->
                             IF t \in todo[d].turns
                             THEN Append(Sanitized(events[t]), Event("redacted", 0, FALSE))
                             ELSE events[t]]
         /\ UNCHANGED <<route, gen, lease, evidence, composer, bornAfter>>
BY DEF CommitDeletion

(* A redaction keeps the row and the log legal.                            *)
LEMMA CommitDeletionTyped ==
  ASSUME TurnsTyped, NEW d \in Redactors, CommitDeletion(d)
  PROVE  TurnsTyped'
<1>1. CASE UNCHANGED turnVars
  BY <1>1 DEF TurnsTyped, turnVars
<1>2. CASE ~UNCHANGED turnVars
  <2> USE CommitDeletionEffect, <1>2
  <2>1. Event("redacted", 0, FALSE) \in Events
    BY EventType DEF EventTypes
  <2>2. ASSUME NEW t \in Turns
        PROVE  Append(Sanitized(events[t]), Event("redacted", 0, FALSE)) \in Seq(Events)
    <3>1. events[t] \in Seq(Events)
      BY DEF TurnsTyped
    <3>2. Sanitized(events[t]) \in Seq(Events)
      BY <3>1, SanitizedLog
    <3>3. QED
      BY <2>1, <3>2, AppendedLog
  <2>3. events' \in [Turns -> Seq(Events)]
    <3>1. events' = [t \in Turns |->
                       IF t \in todo[d].turns
                       THEN Append(Sanitized(events[t]), Event("redacted", 0, FALSE))
                       ELSE events[t]]
      OBVIOUS
    <3>2. \A t \in Turns : events[t] \in Seq(Events)
      BY DEF TurnsTyped
    <3>3. \A t \in Turns : events'[t] \in Seq(Events)
      BY <2>2, <3>1, <3>2
    <3>4. QED
      BY <3>1, <3>3
  <2>4. status' \in [Turns -> Statuses] /\ stopReason' \in [Turns -> StopReasons]
    <3>1. /\ status' = [t \in Turns |-> IF t \in todo[d].turns THEN "redacted"
                                                              ELSE status[t]]
          /\ stopReason' = [t \in Turns |-> IF t \in todo[d].turns THEN "redacted"
                                                                  ELSE stopReason[t]]
      OBVIOUS
    <3>2. "redacted" \in Statuses /\ "redacted" \in StopReasons
      BY DEF Statuses, StopReasons
    <3>3. QED
      BY <3>1, <3>2 DEF TurnsTyped
  <2>5. labelled' \in [Turns -> BOOLEAN] /\ answer' \in [Turns -> BOOLEAN]
    BY DEF TurnsTyped
  <2>6. QED
    BY <2>3, <2>4, <2>5 DEF TurnsTyped
<1>3. QED
  BY <1>1, <1>2

(* Found turns are turns, and only deletions change the administrators'    *)
(* variables.                                                              *)
LEMMA AdminStaysTyped ==
  ASSUME AdminTyped, NEW d \in Redactors,
         BeginDeletion(d) \/ CommitDeletion(d) \/ RollBackDeletion(d)
  PROVE  AdminTyped'
<1> USE DEF AdminTyped
<1>1. CASE BeginDeletion(d)
  BY <1>1 DEF BeginDeletion, Dependent
<1>2. CASE CommitDeletion(d)
  <2>1. todo' \in [Redactors -> [open : BOOLEAN, turns : SUBSET Turns, answered : SUBSET Turns]]
    BY <1>2 DEF CommitDeletion, NothingTodo
  <2>2. CASE UNCHANGED <<source, domain>>
    BY <2>1, <2>2
  <2>3. CASE ~UNCHANGED <<source, domain>>
    <3>1. /\ source' = [s \in Sources |-> IF s = d THEN "deleting" ELSE source[s]]
          /\ domain' = IF d = Domain THEN "deleting" ELSE domain
      BY <1>2, <2>3 DEF CommitDeletion
    <3>2. QED
      BY <2>1, <3>1
  <2>4. QED
    BY <2>2, <2>3
<1>3. CASE RollBackDeletion(d)
  BY <1>3 DEF RollBackDeletion, NothingTodo
<1>4. QED
  BY <1>1, <1>2, <1>3

(* A worker inside run_once that moves on, or leaves.                      *)
LEMMA WorkerMovesTyped ==
  ASSUME WorkersTyped, NEW w \in Workers, pc[w] # "idle",
         \/ Leave(w)
         \/ \E stage \in Stages \ {"idle"} : Goto(w, stage)
         \/ \E type \in StreamTypes : Emit(w, type)
  PROVE  WorkersTyped'
<1> USE DEF WorkersTyped
<1>1. CASE Leave(w)
  <2>1. "answer.delta" \in StreamTypes /\ "idle" \in Stages
    BY DEF StreamTypes, Stages
  <2>2. /\ pc' \in [Workers -> Stages]
        /\ job' \in [Workers -> Turns \cup {NoTurn}]
        /\ jobGen' \in [Workers -> Nat]
        /\ found' \in [Workers -> SUBSET Sources]
        /\ sending' \in [Workers -> StreamTypes]
        /\ deltas' \in [Workers -> Nat]
    BY <1>1, <2>1 DEF Leave
  <2>3. \A v \in Workers : (pc'[v] = "idle") <=> (job'[v] = NoTurn)
    BY <1>1 DEF Leave
  <2>4. QED
    BY <2>2, <2>3
<1>2. ASSUME NEW stage \in Stages \ {"idle"}, Goto(w, stage)
      PROVE  WorkersTyped'
  BY <1>2 DEF Goto
<1>3. ASSUME NEW type \in StreamTypes, Emit(w, type)
      PROVE  WorkersTyped'
  <2>1. "persist" \in Stages
    BY DEF Stages
  <2>2. QED
    BY <1>3, <2>1 DEF Emit
<1>4. QED
  BY <1>1, <1>2, <1>3

(* What a finalization does when the compare-and-set still matches.        *)
LEMMA FinalizeTyped ==
  ASSUME TypeOK, NEW w \in Workers, pc[w] # "idle",
         NEW outcome \in Outcomes, NEW reason \in StopReasons,
         Finalize(w, outcome, reason)
  PROVE  TypeOK'
<1> DEFINE t == job[w]
           e == Event(outcome, jobGen[w], outcome = "completed" /\ Cites(t) # {})
<1>1. t \in Turns /\ jobGen[w] \in Nat /\ events[t] \in Seq(Events)
  BY DEF TypeOK, WorkersTyped, TurnsTyped
<1>2. e \in Events
  BY <1>1, EventType DEF EventTypes
<1>3. WorkersTyped'
  BY WorkerMovesTyped DEF Finalize, TypeOK
<1>4. RequestsTyped' /\ AdminTyped'
  BY DEF Finalize, TypeOK, RequestsTyped, AdminTyped, requestVars, adminVars
<1>5. TurnsTyped'
  <2>1. CASE FenceOpen(w)
    <3>1. Append(events[t], e) \in Seq(Events)
      BY <1>1, <1>2, AppendedLog
    <3>2. /\ status'     = [status EXCEPT ![t] = outcome]
          /\ stopReason' = [stopReason EXCEPT ![t] = reason]
          /\ lease'      = [lease EXCEPT ![t] = "none"]
          /\ answer'     = [answer EXCEPT ![t] = reason \in {"direct_llm", "grounded"}]
          /\ events'     = [events EXCEPT ![t] = Append(events[t], e)]
          /\ UNCHANGED <<route, gen, evidence, composer, labelled, bornAfter>>
      BY <2>1 DEF Finalize
    <3> HIDE DEF e, t
    <3>3. events' \in [Turns -> Seq(Events)]
      BY <3>1, <3>2 DEF TypeOK, TurnsTyped
    <3>4. status' \in [Turns -> Statuses]
      BY <3>2 DEF TypeOK, TurnsTyped, Statuses
    <3>5. answer' \in [Turns -> BOOLEAN]
      <4>1. (reason \in {"direct_llm", "grounded"}) \in BOOLEAN
        OBVIOUS
      <4>2. QED
        BY <3>2, <4>1 DEF TypeOK, TurnsTyped
    <3>6. QED
      BY <3>2, <3>3, <3>4, <3>5 DEF TypeOK, TurnsTyped
  <2>2. CASE ~FenceOpen(w)
    BY <2>2 DEF Finalize, TypeOK, TurnsTyped, turnVars
  <2>3. QED
    BY <2>1, <2>2
<1>6. QED
  BY <1>3, <1>4, <1>5 DEF TypeOK

(* An execution's steps that only move the worker.                         *)
LEMMA MovingStepsTyped ==
  ASSUME TypeOK, NEW w \in Workers,
         \/ BeginExecution(w) \/ CheckFence(w) \/ CheckRefs(w) \/ ReceiveToken(w)
         \/ Crash(w)
  PROVE  TypeOK'
<1>1. pc[w] # "idle"
  BY DEF BeginExecution, CheckFence, CheckRefs, ReceiveToken, Crash
<1>2. UNCHANGED <<requestVars, turnVars, adminVars>>
  BY DEF BeginExecution, CheckFence, CheckRefs, ReceiveToken, Crash
<1>3. RequestsTyped' /\ TurnsTyped' /\ AdminTyped'
  BY <1>2 DEF TypeOK, RequestsTyped, TurnsTyped, AdminTyped, requestVars, turnVars,
              adminVars
<1>4. \/ Leave(w)
      \/ \E stage \in Stages \ {"idle"} : Goto(w, stage)
      \/ \E type \in StreamTypes : Emit(w, type)
  <2>1. /\ {"synthesize", "append", "commit_refs"} \subseteq Stages \ {"idle"}
        /\ {"retrieval.started", "answer.delta"} \subseteq StreamTypes
    BY DEF Stages, StreamTypes
  <2>2. QED
    BY <2>1 DEF BeginExecution, CheckFence, CheckRefs, ReceiveToken, Crash
<1>5. WorkersTyped'
  BY <1>1, <1>4, WorkerMovesTyped DEF TypeOK
<1>6. QED
  BY <1>3, <1>5 DEF TypeOK

(* Each possible end of a synthesis is an outcome with a stop reason.      *)
LEMMA SynthesisEndsTyped ==
  ASSUME NEW w \in Workers, NEW end \in SynthesisEnds(w)
  PROVE  end[1] \in Outcomes /\ end[2] \in StopReasons
BY DEF SynthesisEnds, Outcomes, StopReasons

(* The steps that end an execution with an outcome.                        *)
LEMMA FinalizingStepsTyped ==
  ASSUME TypeOK, NEW w \in Workers,
         FailClaimed(w) \/ RetrieveFails(w) \/ EndSynthesis(w)
  PROVE  TypeOK'
<1>1. pc[w] # "idle"
  BY DEF FailClaimed, RetrieveFails, EndSynthesis
<1>2. "failed" \in Outcomes /\ "provider_failure" \in StopReasons
  BY DEF Outcomes, StopReasons
<1>3. CASE FailClaimed(w) \/ RetrieveFails(w)
  BY <1>1, <1>2, <1>3, FinalizeTyped DEF FailClaimed, RetrieveFails
<1>4. CASE EndSynthesis(w)
  BY <1>1, <1>4, FinalizeTyped, SynthesisEndsTyped DEF EndSynthesis
<1>5. QED
  BY <1>3, <1>4

(* Appending an event, retrieving, and persisting the evidence refs.       *)
LEMMA WritingStepsTyped ==
  ASSUME TypeOK, NEW w \in Workers, NEW hits \in SUBSET Sources,
         AppendEvent(w) \/ Retrieve(w, hits) \/ CommitRefs(w)
  PROVE  TypeOK'
<1> DEFINE t == job[w]
<1> USE DEF TypeOK
<1>1. pc[w] # "idle"
  BY DEF AppendEvent, Retrieve, CommitRefs
<1>2. t \in Turns /\ jobGen[w] \in Nat /\ events[t] \in Seq(Events)
      /\ sending[w] \in StreamTypes /\ found[w] \in SUBSET Sources
  BY <1>1 DEF WorkersTyped, TurnsTyped
<1>3. RequestsTyped' /\ AdminTyped'
  BY DEF AppendEvent, Retrieve, CommitRefs, RequestsTyped, AdminTyped, requestVars,
         adminVars
<1>4. CASE AppendEvent(w)
  <2>1. CASE status[t] = "deleted"
    <3>1. Leave(w) /\ UNCHANGED turnVars
      BY <1>4, <2>1 DEF AppendEvent
    <3>2. QED
      BY <1>1, <1>3, <3>1, WorkerMovesTyped DEF TurnsTyped, turnVars
  <2>2. CASE status[t] # "deleted"
    <3> DEFINE e == Event(sending[w], jobGen[w],
                          sending[w] \in {"answer.delta", "evidence.delta"})
    <3>1. e \in Events
      <4>1. sending[w] \in EventTypes
        BY <1>2 DEF EventTypes
      <4>2. (sending[w] \in {"answer.delta", "evidence.delta"}) \in BOOLEAN
        OBVIOUS
      <4>3. QED
        BY <1>2, <4>1, <4>2, EventType
    <3>2. Append(events[t], e) \in Seq(Events)
      BY <1>2, <3>1, AppendedLog
    <3>3. /\ events' = [events EXCEPT ![t] = Append(events[t], e)]
          /\ AfterEvent(w)
          /\ UNCHANGED <<status, route, stopReason, gen, lease, evidence, composer,
                         labelled, answer, bornAfter>>
      BY <1>4, <2>2 DEF AppendEvent
    <3> HIDE DEF e, t
    <3>4. TurnsTyped'
      <4>1. events' \in [Turns -> Seq(Events)]
        BY <3>2, <3>3 DEF TurnsTyped
      <4>2. QED
        BY <3>3, <4>1 DEF TurnsTyped
    <3>5. WorkersTyped'
      <4>1. /\ "retrieval.completed" \in StreamTypes
            /\ {"retrieve", "synthesize"} \subseteq Stages \ {"idle"}
        BY DEF StreamTypes, Stages
      <4>2. CASE sending[w] = "evidence.delta"
        BY <1>1, <3>3, <4>1, <4>2, WorkerMovesTyped DEF AfterEvent
      <4>3. CASE sending[w] # "evidence.delta"
        <5>1. /\ pc' = [pc EXCEPT ![w] = IF sending[w] = "retrieval.started"
                                         THEN "retrieve" ELSE "synthesize"]
              /\ deltas' = [deltas EXCEPT ![w] = IF sending[w] = "answer.delta"
                                                 THEN deltas[w] + 1 ELSE deltas[w]]
              /\ UNCHANGED <<job, jobGen, found, sending>>
          BY <3>3, <4>3 DEF AfterEvent
        <5>2. pc' \in [Workers -> Stages]
          BY <4>1, <5>1 DEF WorkersTyped
        <5>3. \A v \in Workers : (pc'[v] = "idle") <=> (job'[v] = NoTurn)
          BY <1>1, <4>1, <5>1 DEF WorkersTyped
        <5>4. deltas' \in [Workers -> Nat]
          BY <5>1 DEF WorkersTyped
        <5>5. QED
          BY <5>1, <5>2, <5>3, <5>4 DEF WorkersTyped
      <4>4. QED
        BY <4>2, <4>3
    <3>6. QED
      BY <1>3, <3>4, <3>5
  <2>3. QED
    BY <2>1, <2>2
<1>5. CASE Retrieve(w, hits)
  <2>1. TurnsTyped'
    BY <1>5 DEF Retrieve, TurnsTyped, turnVars
  <2>2. /\ "retrieval.completed" \in StreamTypes
        /\ {"persist", "check_refs"} \subseteq Stages \ {"idle"}
    BY DEF StreamTypes, Stages
  <2>3. WorkersTyped'
    <3>1. CASE hits = {}
      BY <1>1, <1>5, <2>2, <3>1 DEF Retrieve, WorkersTyped
    <3>2. CASE hits # {}
      BY <1>1, <1>5, <2>2, <3>2 DEF Retrieve, WorkersTyped
    <3>3. QED
      BY <3>1, <3>2
  <2>4. QED
    BY <1>3, <2>1, <2>3
<1>6. CASE CommitRefs(w)
  <2>1. CASE status[t] = "deleted" \/ RefsCollide(t)
    <3>1. Leave(w) /\ UNCHANGED turnVars
      BY <1>6, <2>1 DEF CommitRefs
    <3>2. QED
      BY <1>1, <1>3, <3>1, WorkerMovesTyped DEF TurnsTyped, turnVars
  <2>2. CASE ~(status[t] = "deleted" \/ RefsCollide(t))
    <3>1. /\ evidence' = [evidence EXCEPT ![t] = found[w]]
          /\ labelled' = [labelled EXCEPT ![t] = TRUE]
          /\ Emit(w, NextAfterRefs)
          /\ UNCHANGED <<status, route, stopReason, gen, lease, composer, answer,
                         events, bornAfter>>
      BY <1>6, <2>2 DEF CommitRefs
    <3>2. NextAfterRefs \in StreamTypes
      BY DEF NextAfterRefs, StreamTypes
    <3>3. WorkersTyped'
      BY <1>1, <3>1, <3>2, WorkerMovesTyped
    <3>4. TurnsTyped'
      BY <1>2, <3>1 DEF TurnsTyped
    <3>5. QED
      BY <1>3, <3>3, <3>4
  <2>3. QED
    BY <2>1, <2>2
<1>7. QED
  BY <1>4, <1>5, <1>6

(* A claim gives an idle worker a turn and the turn's next generation.     *)
LEMMA ClaimTyped ==
  ASSUME TypeOK, NEW w \in Workers, NEW t \in Turns, Claim(w, t)
  PROVE  TypeOK'
<1>1. TurnsTyped'
  BY DEF Claim, TypeOK, TurnsTyped
<1>2. RequestsTyped' /\ AdminTyped'
  BY DEF Claim, TypeOK, RequestsTyped, AdminTyped, requestVars, adminVars
<1>3. WorkersTyped'
  <2>1. gen[t] + 1 \in Nat /\ "claimed" \in Stages /\ t # NoTurn
    BY TurnConstants DEF TypeOK, TurnsTyped, Stages
  <2>2. QED
    BY <2>1 DEF Claim, TypeOK, WorkersTyped
<1>4. QED
  BY <1>1, <1>2, <1>3 DEF TypeOK

(* The initial values are typed.                                           *)
LEMMA InitTyped == Init => TypeOK
<1> SUFFICES ASSUME Init PROVE TypeOK
  OBVIOUS
<1> USE DEF Init
<1>1. RequestsTyped
  BY DEF RequestsTyped, NoRequest, Routes
<1>2. TurnsTyped
  BY DEF TurnsTyped, Statuses, Routes, StopReasons
<1>3. AdminTyped
  BY DEF AdminTyped, NothingTodo
<1>4. WorkersTyped
  BY DEF WorkersTyped, Stages, StreamTypes
<1>5. QED
  BY <1>1, <1>2, <1>3, <1>4 DEF TypeOK

(* Every step keeps every variable typed.                                  *)
LEMMA NextTyped == TypeOK /\ [Next]_vars => TypeOK'
<1> SUFFICES ASSUME TypeOK, [Next]_vars PROVE TypeOK'
  OBVIOUS
<1> USE DEF TypeOK
<1>1. ASSUME NEW t \in Turns, NEW r \in Routes, NEW refs \in SUBSET Sources,
             ValidateStart(t, r, refs)
      PROVE  TypeOK'
  <2>1. RequestsTyped'
    BY <1>1 DEF RequestsTyped, ValidateStart
  <2>2. UNCHANGED <<turnVars, adminVars, workerVars>>
    BY <1>1 DEF ValidateStart
  <2>3. QED
    BY <2>1, <2>2 DEF TurnsTyped, AdminTyped, WorkersTyped, turnVars, adminVars,
                      workerVars
<1>2. ASSUME NEW t \in Turns, InsertTurn(t)
      PROVE  TypeOK'
  <2>1. RequestsTyped'
    <3>1. NoRequest \in [open : BOOLEAN, route : Routes, refs : SUBSET Sources]
      BY DEF NoRequest, Routes
    <3>2. QED
      BY <1>2, <3>1 DEF InsertTurn, RequestsTyped
  <2>2. TurnsTyped'
    BY <1>2, InsertTurnTyped
  <2>3. UNCHANGED <<adminVars, workerVars>>
    BY <1>2 DEF InsertTurn
  <2>4. QED
    BY <2>1, <2>2, <2>3 DEF AdminTyped, WorkersTyped, adminVars, workerVars
<1>3. ASSUME NEW t \in Turns, CancelTurn(t) \/ LeaseExpires(t)
      PROVE  TypeOK'
  <2>1. TurnsTyped'
    BY <1>3, LeaseAndCancelTyped
  <2>2. UNCHANGED <<requestVars, adminVars, workerVars>>
    BY <1>3 DEF CancelTurn, LeaseExpires
  <2>3. QED
    BY <2>1, <2>2 DEF RequestsTyped, AdminTyped, WorkersTyped, requestVars, adminVars,
                      workerVars
<1>4. ASSUME NEW c \in Conversations, DeleteConversation(c)
      PROVE  TypeOK'
  <2>1. TurnsTyped'
    BY <1>4, DeleteConversationTyped
  <2>2. RequestsTyped'
    BY <1>4 DEF DeleteConversation, RequestsTyped
  <2>3. UNCHANGED <<adminVars, workerVars>>
    BY <1>4 DEF DeleteConversation
  <2>4. QED
    BY <2>1, <2>2, <2>3 DEF AdminTyped, WorkersTyped, adminVars, workerVars
<1>5. ASSUME NEW d \in Redactors,
             BeginDeletion(d) \/ CommitDeletion(d) \/ RollBackDeletion(d)
      PROVE  TypeOK'
  <2>1. AdminTyped'
    BY <1>5, AdminStaysTyped
  <2>2. TurnsTyped'
    BY <1>5, CommitDeletionTyped DEF BeginDeletion, RollBackDeletion, turnVars, TurnsTyped
  <2>3. UNCHANGED <<requestVars, workerVars>>
    BY <1>5 DEF BeginDeletion, CommitDeletion, RollBackDeletion
  <2>4. QED
    BY <2>1, <2>2, <2>3 DEF RequestsTyped, WorkersTyped, requestVars, workerVars
<1>6. ASSUME NEW w \in Workers, NEW t \in Turns, Claim(w, t)
      PROVE  TypeOK'
  BY <1>6, ClaimTyped
<1>7. ASSUME NEW w \in Workers, WorkerStep(w) \/ Crash(w)
      PROVE  TypeOK'
  <2> HIDE DEF TypeOK
  <2>1. {} \in SUBSET Sources
    OBVIOUS
  <2>2. QED
    BY <1>7, <2>1, MovingStepsTyped, FinalizingStepsTyped, WritingStepsTyped
    DEF WorkerStep
<1>8. CASE UNCHANGED vars
  BY <1>8 DEF vars, requestVars, turnVars, adminVars, workerVars, RequestsTyped,
              TurnsTyped, AdminTyped, WorkersTyped
<1>9. QED
  BY <1>1, <1>2, <1>3, <1>4, <1>5, <1>6, <1>7, <1>8 DEF Next

(* Every reachable state is typed: columns keep their vocabulary, logs hold *)
(* legal events, and a worker holds a job exactly while inside run_once.    *)
THEOREM TypeCorrect == Spec => []TypeOK
  BY InitTyped, NextTyped, PTL DEF Spec

-----------------------------------------------------------------------------
(* Safety.                                                                 *)

\* A turn that was never inserted has no rows, and nobody works on it.
NothingBeforeInsert ==
  /\ \A t \in Turns : status[t] = "absent" =>
       events[t] = << >> /\ evidence[t] = {} /\ composer[t] = {}
  /\ \A w \in Workers : job[w] \in Turns => status[job[w]] # "absent"
  /\ \A d \in Redactors : \A t \in todo[d].turns : status[t] # "absent"

\* What a worker has retrieved postdates every deletion that preceded its turn.
FoundAfterBirth ==
  /\ \A t \in Turns : bornAfter[t] \cap Ready = {}
  /\ \A w \in Workers : pc[w] = "idle" => found[w] = {}
  /\ \A w \in Workers : job[w] \in Turns => found[w] \cap bornAfter[job[w]] = {}

Safe == /\ NothingBeforeInsert
        /\ FoundAfterBirth
        /\ OutcomeMatchesStatus
        /\ OnlyLatestClaimFinalizes
        /\ OneRunningTurn
        /\ DeletedSourcesStayUncited

-----------------------------------------------------------------------------
(* One row appended to one turn's log adds its place and moves no other.   *)
LEMMA PlacesAfterAppend ==
  ASSUME events \in [Turns -> Seq(Events)], NEW t \in Turns, NEW e \in Events,
         events' = [events EXCEPT ![t] = Append(events[t], e)],
         NEW u \in Turns, NEW types
  PROVE  /\ u # t => events'[u] = events[u] /\ Places(u, types)' = Places(u, types)
         /\ e.type \notin types => Places(t, types)' = Places(t, types)
         /\ e.type \in types =>
              Places(t, types)' = Places(t, types) \cup {Len(events[t]) + 1}
         /\ events'[t][Len(events[t]) + 1] = e
         /\ \A i \in DOMAIN events[t] : events'[t][i] = events[t][i]
<1>1. events[t] \in Seq(Events)
  OBVIOUS
<1>2. events'[t] = Append(events[t], e) /\ (u # t => events'[u] = events[u])
  OBVIOUS
<1>3. /\ DOMAIN events'[t] = DOMAIN events[t] \cup {Len(events[t]) + 1}
      /\ events'[t][Len(events[t]) + 1] = e
      /\ \A i \in DOMAIN events[t] : events'[t][i] = events[t][i]
  BY <1>1, <1>2, AppendedLog
<1>4. u # t => Places(u, types)' = Places(u, types)
  BY <1>2 DEF Places
<1>5. /\ e.type \notin types => Places(t, types)' = Places(t, types)
      /\ e.type \in types =>
           Places(t, types)' = Places(t, types) \cup {Len(events[t]) + 1}
  BY <1>3 DEF Places
<1>6. QED
  BY <1>2, <1>3, <1>4, <1>5

(* A redaction of one log adds the redaction's place and moves no other.   *)
LEMMA PlacesAfterRedaction ==
  ASSUME NEW t \in Turns, events[t] \in Seq(Events),
         events'[t] = Append(Sanitized(events[t]), Event("redacted", 0, FALSE)),
         NEW types, "redacted" \notin types
  PROVE  /\ Places(t, types)' = Places(t, types)
         /\ \A i \in Places(t, types) : events'[t][i].gen = events[t][i].gen
                                     /\ events'[t][i].type = events[t][i].type
<1> DEFINE clean == Sanitized(events[t])
           e == Event("redacted", 0, FALSE)
<1>1. e \in Events /\ e.type = "redacted"
  BY EventType DEF EventTypes, Event
<1> HIDE DEF e
<1>2. /\ clean \in Seq(Events)
      /\ Len(clean) = Len(events[t])
      /\ DOMAIN clean = DOMAIN events[t]
      /\ \A i \in DOMAIN events[t] : /\ clean[i].type = events[t][i].type
                                     /\ clean[i].gen = events[t][i].gen
  BY SanitizedLog, Zenon
<1> HIDE DEF clean
<1>3. events'[t] = Append(clean, e)
  BY DEF clean, e
<1>4. /\ DOMAIN Append(clean, e) = DOMAIN clean \cup {Len(clean) + 1}
      /\ Append(clean, e)[Len(clean) + 1] = e
      /\ \A i \in DOMAIN clean : Append(clean, e)[i] = clean[i]
  BY <1>1, <1>2, AppendedLog, Zenon
<1>5. /\ DOMAIN events'[t] = DOMAIN events[t] \cup {Len(clean) + 1}
      /\ events'[t][Len(clean) + 1] = e
      /\ \A i \in DOMAIN events[t] : events'[t][i] = clean[i]
  BY <1>2, <1>3, <1>4, Zenon
<1>6. QED
  BY <1>1, <1>2, <1>5 DEF Places

(* A log that does not change keeps its places.                            *)
LEMMA SamePlaces ==
  ASSUME NEW t \in Turns, events'[t] = events[t], NEW types
  PROVE  Places(t, types)' = Places(t, types)
BY DEF Places

(* The steps that touch a status, a generation or a log, with the case of  *)
(* each that does.                                                         *)
LEMMA RowSteps ==
  ASSUME TypeOK, [Next]_vars, ~UNCHANGED <<status, gen, events>>
  PROVE  \/ \E t \in Turns : InsertTurn(t) /\ ~UNCHANGED turnVars
         \/ \E t \in Turns : CancelTurn(t)
         \/ \E c \in Conversations : DeleteConversation(c)
         \/ \E d \in Redactors : CommitDeletion(d) /\ ~UNCHANGED turnVars
         \/ \E w \in Workers, t \in Turns : Claim(w, t)
         \/ \E w \in Workers : /\ pc[w] # "idle" /\ FenceOpen(w)
                               /\ \E outcome \in {"completed", "failed"},
                                     reason \in StopReasons : Finalize(w, outcome, reason)
         \/ \E w \in Workers : AppendEvent(w) /\ status[job[w]] # "deleted"
<1>1. ~UNCHANGED turnVars /\ ~UNCHANGED vars
  BY DEF vars, turnVars
<1>2. Next
  BY <1>1
<1>3. ASSUME NEW w \in Workers, WorkerStep(w) \/ Crash(w)
      PROVE  \/ /\ pc[w] # "idle" /\ FenceOpen(w)
                /\ \E outcome \in {"completed", "failed"}, reason \in StopReasons :
                     Finalize(w, outcome, reason)
             \/ AppendEvent(w) /\ status[job[w]] # "deleted"
  <2>1. ASSUME NEW outcome, NEW reason, Finalize(w, outcome, reason)
        PROVE  FenceOpen(w)
    BY <1>1, <2>1 DEF Finalize
  <2>2. CASE FailClaimed(w) \/ RetrieveFails(w)
    BY <2>1, <2>2 DEF FailClaimed, RetrieveFails, StopReasons
  <2>3. CASE EndSynthesis(w)
    <3>1. \A end \in SynthesisEnds(w) : /\ end[1] \in {"completed", "failed"}
                                        /\ end[2] \in StopReasons
      BY DEF SynthesisEnds, StopReasons
    <3>2. QED
      BY <2>1, <2>3, <3>1 DEF EndSynthesis
  <2>4. CASE AppendEvent(w)
    BY <1>1, <2>4 DEF AppendEvent
  <2>5. ~CommitRefs(w)
    BY <1>1 DEF CommitRefs, turnVars
  <2>6. \A hits \in SUBSET Sources : ~Retrieve(w, hits)
    BY <1>1 DEF Retrieve
  <2>7. ~BeginExecution(w) /\ ~CheckFence(w) /\ ~CheckRefs(w) /\ ~ReceiveToken(w)
        /\ ~Crash(w)
    BY <1>1 DEF BeginExecution, CheckFence, CheckRefs, ReceiveToken, Crash
  <2>8. QED
    BY <1>3, <2>2, <2>3, <2>4, <2>5, <2>6, <2>7 DEF WorkerStep
<1>4. \A t \in Turns : ~LeaseExpires(t)
  BY DEF LeaseExpires
<1>5. \A t \in Turns, r \in Routes, refs \in SUBSET Sources : ~ValidateStart(t, r, refs)
  BY <1>1 DEF ValidateStart
<1>6. \A d \in Redactors : ~BeginDeletion(d) /\ ~RollBackDeletion(d)
  BY <1>1 DEF BeginDeletion, RollBackDeletion
<1>7. QED
  BY <1>1, <1>2, <1>3, <1>4, <1>5, <1>6 DEF Next

(* What inserting a turn does to its row and log.                          *)
LEMMA InsertEffect ==
  ASSUME TypeOK, NEW t \in Turns, InsertTurn(t), ~UNCHANGED turnVars
  PROVE  /\ status[t] = "absent" /\ ~ConversationBusy(t)
         /\ status' = [status EXCEPT ![t] = "running"]
         /\ composer' = [composer EXCEPT ![t] = request[t].refs]
         /\ bornAfter' = [bornAfter EXCEPT ![t] = Sources \ Ready]
         /\ request[t].refs \subseteq Ready
         /\ \A u \in Turns \ {t} : events'[u] = events[u]
         /\ Places(t, Outcomes)' = {}
         /\ UNCHANGED <<stopReason, gen, lease, evidence, answer>>
         /\ UNCHANGED <<conversations, adminVars, workerVars>>
<1> DEFINE log == <<Event("turn.accepted", 0, FALSE), Event("route.selected", 0, FALSE)>>
<1>1. events' = [events EXCEPT ![t] = log]
  BY DEF InsertTurn
<1>2. events'[t] = log /\ \A u \in Turns \ {t} : events'[u] = events[u]
  BY <1>1 DEF TypeOK, TurnsTyped
<1>3. \A i \in DOMAIN log : log[i].type \in {"turn.accepted", "route.selected"}
  BY DEF Event
<1> HIDE DEF log
<1>4. Places(t, Outcomes)' = {}
  BY <1>2, <1>3 DEF Places, Outcomes
<1>5. QED
  BY <1>2, <1>4 DEF InsertTurn

(* What finalizing does to the row and the log of the worker's turn.       *)
LEMMA FinalizeEffect ==
  ASSUME TypeOK, NEW w \in Workers, pc[w] # "idle", FenceOpen(w),
         NEW outcome \in {"completed", "failed"}, NEW reason \in StopReasons,
         Finalize(w, outcome, reason)
  PROVE  /\ job[w] \in Turns /\ status[job[w]] = "running" /\ jobGen[w] = gen[job[w]]
         /\ status' = [status EXCEPT ![job[w]] = outcome]
         /\ UNCHANGED <<route, gen, evidence, composer, labelled, bornAfter>>
         /\ \E e \in Events :
              /\ e.type = outcome /\ e.gen = gen[job[w]]
              /\ events' = [events EXCEPT ![job[w]] = Append(events[job[w]], e)]
<1> DEFINE e == Event(outcome, jobGen[w],
                      outcome = "completed" /\ Cites(job[w]) # {})
<1>1. job[w] \in Turns /\ jobGen[w] \in Nat
  BY DEF TypeOK, WorkersTyped
<1>2. e \in Events
  BY <1>1, EventType DEF EventTypes, Outcomes
<1>3. e.type = outcome /\ e.gen = jobGen[w]
  BY DEF Event
<1>4. events' = [events EXCEPT ![job[w]] = Append(events[job[w]], e)]
  BY DEF Finalize
<1> HIDE DEF e
<1>5. QED
  BY <1>1, <1>2, <1>3, <1>4 DEF Finalize, FenceOpen

(* What appending a stream event does.                                     *)
LEMMA AppendEffect ==
  ASSUME TypeOK, NEW w \in Workers, AppendEvent(w), status[job[w]] # "deleted"
  PROVE  /\ job[w] \in Turns
         /\ UNCHANGED <<status, route, gen, evidence, composer, labelled, bornAfter>>
         /\ \E e \in Events :
              /\ e.type \in StreamTypes /\ e.gen = jobGen[w] /\ e.type = sending[w]
              /\ events' = [events EXCEPT ![job[w]] = Append(events[job[w]], e)]
<1> DEFINE e == Event(sending[w], jobGen[w],
                      sending[w] \in {"answer.delta", "evidence.delta"})
<1>1. job[w] \in Turns /\ jobGen[w] \in Nat /\ sending[w] \in StreamTypes
  BY DEF AppendEvent, TypeOK, WorkersTyped
<1>2. e \in Events
  <2>1. (sending[w] \in {"answer.delta", "evidence.delta"}) \in BOOLEAN
    OBVIOUS
  <2>2. QED
    BY <1>1, <2>1, EventType DEF EventTypes
<1>3. e.type = sending[w] /\ e.gen = jobGen[w]
  BY DEF Event
<1>4. events' = [events EXCEPT ![job[w]] = Append(events[job[w]], e)]
  BY DEF AppendEvent
<1> HIDE DEF e
<1>5. QED
  BY <1>1, <1>2, <1>3, <1>4 DEF AppendEvent

(* What cancelling does.                                                   *)
LEMMA CancelEffect ==
  ASSUME TypeOK, NEW t \in Turns, CancelTurn(t)
  PROVE  /\ status[t] = "running"
         /\ status' = [status EXCEPT ![t] = "cancelled"]
         /\ UNCHANGED <<route, gen, evidence, composer, bornAfter>>
         /\ \E e \in Events :
              /\ e.type = "cancelled"
              /\ events' = [events EXCEPT ![t] = Append(events[t], e)]
<1> DEFINE e == Event("cancelled", 0, FALSE)
<1>1. e \in Events /\ e.type = "cancelled"
  BY EventType DEF EventTypes, Outcomes, Event
<1>2. events' = [events EXCEPT ![t] = Append(events[t], e)]
  BY DEF CancelTurn
<1> HIDE DEF e
<1>3. QED
  BY <1>1, <1>2 DEF CancelTurn

-----------------------------------------------------------------------------
(* A step ends at most the running turn it touches, with one outcome event *)
(* in the same transaction.                                                *)
LEMMA OutcomeStep ==
  ASSUME TypeOK, NothingBeforeInsert, OutcomeMatchesStatus, [Next]_vars
  PROVE  OutcomeMatchesStatus'
<1> DEFINE Match(u) ==
      /\ status[u] = "running" => Places(u, Outcomes) = {}
      /\ status[u] \in Outcomes =>
           \E i \in Places(u, Outcomes) : events[u][i].type = status[u]
      /\ status[u] \in Outcomes \cup {"redacted"} =>
           \A i, j \in Places(u, Outcomes) : i = j
<1> SUFFICES ASSUME NEW u \in Turns PROVE Match(u)'
  BY DEF OutcomeMatchesStatus
<1>1. Match(u)
  BY DEF OutcomeMatchesStatus
<1>2. ASSUME events'[u] = events[u], status'[u] = status[u]
      PROVE  Match(u)'
  BY <1>1, <1>2, SamePlaces
<1>3. status \in [Turns -> Statuses] /\ events \in [Turns -> Seq(Events)]
  BY DEF TypeOK, TurnsTyped
<1>4. ASSUME status[u] = "running", NEW e \in Events, e.type \in Outcomes,
             status' = [status EXCEPT ![u] = e.type],
             events' = [events EXCEPT ![u] = Append(events[u], e)]
      PROVE  Match(u)'
  <2>1. /\ Places(u, Outcomes)' = Places(u, Outcomes) \cup {Len(events[u]) + 1}
        /\ events'[u][Len(events[u]) + 1] = e
    BY <1>3, <1>4, PlacesAfterAppend
  <2>2. status'[u] = e.type /\ status'[u] # "running"
    BY <1>3, <1>4 DEF Outcomes
  <2>3. Places(u, Outcomes)' = {Len(events[u]) + 1}
    BY <1>1, <1>4, <2>1
  <2>4. QED
    BY <2>1, <2>2, <2>3
<1>5. CASE UNCHANGED <<status, gen, events>>
  BY <1>2, <1>5
<1>6. ASSUME NEW t \in Turns, InsertTurn(t), ~UNCHANGED turnVars
      PROVE  Match(u)'
  <2>1. CASE u = t
    <3>1. status'[u] = "running" /\ Places(u, Outcomes)' = {}
      BY <1>3, <1>6, <2>1, InsertEffect
    <3>2. QED
      BY <3>1 DEF Outcomes
  <2>2. CASE u # t
    BY <1>2, <1>3, <1>6, <2>2, InsertEffect
  <2>3. QED
    BY <2>1, <2>2
<1>7. ASSUME NEW t \in Turns, CancelTurn(t)
      PROVE  Match(u)'
  <2>1. CASE u = t
    BY <1>4, <1>7, <2>1, CancelEffect DEF Outcomes
  <2>2. CASE u # t
    BY <1>2, <1>3, <1>7, <2>2, CancelEffect
  <2>3. QED
    BY <2>1, <2>2
<1>8. ASSUME NEW c \in Conversations, DeleteConversation(c)
      PROVE  Match(u)'
  <2>1. CASE status'[u] = "deleted"
    BY <2>1 DEF Outcomes
  <2>2. CASE status'[u] # "deleted"
    BY <1>2, <1>8, <2>2 DEF DeleteConversation
  <2>3. QED
    BY <2>1, <2>2
<1>9. ASSUME NEW d \in Redactors, CommitDeletion(d), ~UNCHANGED turnVars
      PROVE  Match(u)'
  <2>1. CASE u \in todo[d].turns
    <3>1. status[u] # "deleted" /\ status[u] # "absent"
      BY <1>9, <2>1, CommitDeletionEffect DEF NothingBeforeInsert
    <3>2. status'[u] = "redacted"
      BY <1>9, <2>1, CommitDeletionEffect
    <3>3. events'[u] = Append(Sanitized(events[u]), Event("redacted", 0, FALSE))
      BY <1>9, <2>1, CommitDeletionEffect
    <3>4. Places(u, Outcomes)' = Places(u, Outcomes)
      BY <1>3, <3>3, PlacesAfterRedaction DEF Outcomes
    <3>5. \A i, j \in Places(u, Outcomes) : i = j
      BY <1>1, <1>3, <3>1 DEF Statuses, Outcomes
    <3>6. QED
      BY <3>2, <3>4, <3>5 DEF Outcomes
  <2>2. CASE u \notin todo[d].turns
    <3>1. /\ status' = [t \in Turns |-> IF t \in todo[d].turns THEN "redacted"
                                                                ELSE status[t]]
          /\ events' = [t \in Turns |->
                          IF t \in todo[d].turns
                          THEN Append(Sanitized(events[t]), Event("redacted", 0, FALSE))
                          ELSE events[t]]
      BY <1>9, CommitDeletionEffect
    <3>2. events'[u] = events[u] /\ status'[u] = status[u]
      BY <2>2, <3>1
    <3>3. QED
      BY <1>2, <3>2
  <2>3. QED
    BY <2>1, <2>2
<1>10. ASSUME NEW w \in Workers, NEW t \in Turns, Claim(w, t)
       PROVE  Match(u)'
  BY <1>2, <1>10 DEF Claim
<1>11. ASSUME NEW w \in Workers, pc[w] # "idle", FenceOpen(w),
              NEW outcome \in {"completed", "failed"}, NEW reason \in StopReasons,
              Finalize(w, outcome, reason)
       PROVE  Match(u)'
  <2>1. CASE u = job[w]
    BY <1>4, <1>11, <2>1, FinalizeEffect DEF Outcomes
  <2>2. CASE u # job[w]
    BY <1>2, <1>3, <1>11, <2>2, FinalizeEffect
  <2>3. QED
    BY <2>1, <2>2
<1>12. ASSUME NEW w \in Workers, AppendEvent(w), status[job[w]] # "deleted"
       PROVE  Match(u)'
  <2>1. PICK e \in Events :
          /\ e.type \in StreamTypes
          /\ events' = [events EXCEPT ![job[w]] = Append(events[job[w]], e)]
    BY <1>12, AppendEffect
  <2>2. job[w] \in Turns /\ status' = status
    BY <1>12, AppendEffect
  <2>3. CASE u = job[w]
    <3>1. e.type \notin Outcomes
      BY <2>1 DEF StreamTypes, Outcomes
    <3>2. /\ Places(u, Outcomes)' = Places(u, Outcomes)
          /\ \A i \in DOMAIN events[u] : events'[u][i] = events[u][i]
      BY <1>3, <2>1, <2>3, <3>1, PlacesAfterAppend
    <3>3. \A i \in Places(u, Outcomes) : events'[u][i] = events[u][i]
      BY <3>2 DEF Places
    <3>4. QED
      BY <1>1, <2>2, <3>2, <3>3
  <2>4. CASE u # job[w]
    BY <1>2, <1>3, <2>1, <2>2, <2>4
  <2>5. QED
    BY <2>3, <2>4
<1>13. QED
  BY <1>5, <1>6, <1>7, <1>8, <1>9, <1>10, <1>11, <1>12, RowSteps

(* The life of a turn: inserted, ended once, perhaps redacted, perhaps     *)
(* gone with its conversation, and nothing else.                           *)
LEMMA StatusSteps ==
  ASSUME TypeOK, [Next]_vars, NEW u \in Turns
  PROVE  \/ status'[u] = status[u]
         \/ status[u] = "absent" /\ status'[u] = "running"
         \/ status[u] = "running" /\ status'[u] \in Outcomes
         \/ /\ status[u] # "deleted" /\ status'[u] = "redacted"
            /\ \E d \in Redactors : u \in todo[d].turns
         \/ status[u] \notin {"absent", "deleted"} /\ status'[u] = "deleted"
<1> USE DEF TypeOK, TurnsTyped
<1>1. CASE UNCHANGED <<status, gen, events>>
  BY <1>1
<1>2. ASSUME NEW t \in Turns, InsertTurn(t), ~UNCHANGED turnVars
      PROVE  \/ status'[u] = status[u]
             \/ status[u] = "absent" /\ status'[u] = "running"
  BY <1>2, InsertEffect
<1>3. ASSUME NEW t \in Turns, CancelTurn(t)
      PROVE  \/ status'[u] = status[u]
             \/ status[u] = "running" /\ status'[u] \in Outcomes
  BY <1>3 DEF CancelTurn, Outcomes
<1>4. ASSUME NEW c \in Conversations, DeleteConversation(c)
      PROVE  \/ status'[u] = status[u]
             \/ status[u] \notin {"absent", "deleted"} /\ status'[u] = "deleted"
  BY <1>4 DEF DeleteConversation, Exists
<1>5. ASSUME NEW d \in Redactors, CommitDeletion(d), ~UNCHANGED turnVars
      PROVE  \/ status'[u] = status[u]
             \/ /\ status[u] # "deleted" /\ status'[u] = "redacted"
                /\ u \in todo[d].turns
  <2>1. /\ status' = [t \in Turns |-> IF t \in todo[d].turns THEN "redacted"
                                                             ELSE status[t]]
        /\ \A t \in todo[d].turns : status[t] # "deleted"
    BY <1>5, CommitDeletionEffect
  <2>2. QED
    BY <2>1
<1>6. ASSUME NEW w \in Workers, NEW t \in Turns, Claim(w, t)
      PROVE  status'[u] = status[u]
  BY <1>6 DEF Claim
<1>7. ASSUME NEW w \in Workers, pc[w] # "idle", FenceOpen(w),
             NEW outcome \in {"completed", "failed"}, NEW reason \in StopReasons,
             Finalize(w, outcome, reason)
      PROVE  \/ status'[u] = status[u]
             \/ status[u] = "running" /\ status'[u] \in Outcomes
  BY <1>7, FinalizeEffect DEF Outcomes
<1>8. ASSUME NEW w \in Workers, AppendEvent(w), status[job[w]] # "deleted"
      PROVE  status'[u] = status[u]
  BY <1>8, AppendEffect
<1>9. QED
  BY <1>1, <1>2, <1>3, <1>4, <1>5, <1>6, <1>7, <1>8, RowSteps

(* A generation changes only when a worker claims the running turn.        *)
LEMMA GenerationSteps ==
  ASSUME TypeOK, [Next]_vars, NEW u \in Turns
  PROVE  gen'[u] = gen[u] \/ (status[u] = "running" /\ events'[u] = events[u])
<1>1. ASSUME NEW w \in Workers, NEW t \in Turns, Claim(w, t)
      PROVE  gen'[u] = gen[u] \/ (status[u] = "running" /\ events'[u] = events[u])
  BY <1>1 DEF Claim, TypeOK, TurnsTyped
<1>2. \A d \in Redactors : CommitDeletion(d) => gen' = gen
  BY DEF CommitDeletion, turnVars
<1>3. \A w \in Workers : \A outcome, reason : Finalize(w, outcome, reason) => gen' = gen
  BY DEF Finalize, turnVars
<1>4. \A w \in Workers : AppendEvent(w) => gen' = gen
  BY DEF AppendEvent, turnVars
<1>5. \A t \in Turns : InsertTurn(t) => gen' = gen
  BY DEF InsertTurn, turnVars
<1>6. /\ \A t \in Turns : CancelTurn(t) => gen' = gen
      /\ \A c \in Conversations : DeleteConversation(c) => gen' = gen
  BY DEF CancelTurn, DeleteConversation
<1>7. QED
  BY <1>1, <1>2, <1>3, <1>4, <1>5, <1>6, RowSteps

(* Workers leave the administrators' state and the open requests alone.    *)
LEMMA WorkersOwnNoDeletion ==
  ASSUME NEW w \in Workers, WorkerStep(w) \/ Crash(w)
  PROVE  UNCHANGED <<requestVars, adminVars>>
<1>1. CASE FailClaimed(w) \/ RetrieveFails(w) \/ EndSynthesis(w)
  BY <1>1 DEF FailClaimed, RetrieveFails, EndSynthesis, Finalize
<1>2. CASE AppendEvent(w) \/ CommitRefs(w)
  BY <1>2 DEF AppendEvent, CommitRefs
<1>3. CASE BeginExecution(w) \/ CheckFence(w) \/ CheckRefs(w) \/ ReceiveToken(w)
           \/ Crash(w) \/ \E hits \in SUBSET Sources : Retrieve(w, hits)
  BY <1>3 DEF BeginExecution, CheckFence, CheckRefs, ReceiveToken, Crash, Retrieve
<1>4. QED
  BY <1>1, <1>2, <1>3 DEF WorkerStep

(* A worker gets a job only by claiming a running turn.                    *)
LEMMA JobSteps ==
  ASSUME TypeOK, [Next]_vars, NEW w \in Workers, job'[w] \in Turns
  PROVE  job'[w] = job[w] \/ status[job'[w]] = "running"
<1> USE DEF TypeOK, WorkersTyped
<1>1. ASSUME NEW v \in Workers, Leave(v)
      PROVE  job'[w] = job[w]
  BY <1>1, TurnConstants DEF Leave
<1>2. ASSUME NEW v \in Workers, WorkerStep(v) \/ Crash(v)
      PROVE  Leave(v) \/ job' = job
  <2>1. CASE BeginExecution(v) \/ CheckFence(v) \/ CheckRefs(v) \/ ReceiveToken(v)
             \/ Crash(v)
    BY <2>1 DEF BeginExecution, CheckFence, CheckRefs, ReceiveToken, Crash, Goto, Emit
  <2>2. CASE FailClaimed(v) \/ RetrieveFails(v) \/ EndSynthesis(v)
    BY <2>2 DEF FailClaimed, RetrieveFails, EndSynthesis, Finalize
  <2>3. CASE AppendEvent(v) \/ CommitRefs(v)
    BY <2>3 DEF AppendEvent, CommitRefs, AfterEvent, Emit
  <2>4. ASSUME NEW hits \in SUBSET Sources, Retrieve(v, hits)
        PROVE  job' = job
    BY <2>4 DEF Retrieve
  <2>5. QED
    BY <1>2, <2>1, <2>2, <2>3, <2>4 DEF WorkerStep
<1>3. ASSUME NEW v \in Workers, NEW t \in Turns, Claim(v, t)
      PROVE  job'[w] = job[w] \/ status[job'[w]] = "running"
  BY <1>3 DEF Claim
<1>4. \A t \in Turns : InsertTurn(t) \/ CancelTurn(t) \/ LeaseExpires(t) => job' = job
  BY DEF InsertTurn, CancelTurn, LeaseExpires, workerVars
<1>5. \A t \in Turns, r \in Routes, refs \in SUBSET Sources :
        ValidateStart(t, r, refs) => job' = job
  BY DEF ValidateStart, workerVars
<1>6. \A c \in Conversations : DeleteConversation(c) => job' = job
  BY DEF DeleteConversation, workerVars
<1>7. \A d \in Redactors : BeginDeletion(d) \/ CommitDeletion(d) \/ RollBackDeletion(d)
                           => job' = job
  BY DEF BeginDeletion, CommitDeletion, RollBackDeletion, workerVars
<1>8. UNCHANGED vars => job' = job
  BY DEF vars, workerVars
<1> HIDE DEF TypeOK, WorkersTyped
<1>9. QED
  BY <1>1, <1>2, <1>3, <1>4, <1>5, <1>6, <1>7, <1>8 DEF Next

(* The turns of an open deletion are the dependent turns it looked up.     *)
LEMMA TodoSteps ==
  ASSUME TypeOK, [Next]_vars, NEW d \in Redactors, NEW u \in todo'[d].turns
  PROVE  u \in todo[d].turns \/ (u \in Turns /\ Exists(u))
<1>1. ASSUME NEW b \in Redactors, BeginDeletion(b)
      PROVE  u \in todo[d].turns \/ (u \in Turns /\ Exists(u))
  <2>1. PICK answered :
          todo' = [todo EXCEPT ![b] =
                     [open |-> TRUE, turns |-> {t \in Dependent(b) : status[t] # "redacted"},
                      answered |-> answered]]
    BY <1>1 DEF BeginDeletion
  <2>2. CASE d = b
    BY <2>1, <2>2 DEF Dependent, TypeOK, AdminTyped
  <2>3. CASE d # b
    BY <2>1, <2>3 DEF TypeOK, AdminTyped
  <2>4. QED
    BY <2>2, <2>3
<1>2. ASSUME NEW b \in Redactors, CommitDeletion(b) \/ RollBackDeletion(b)
      PROVE  u \in todo[d].turns
  <2>1. todo' = [todo EXCEPT ![b] = NothingTodo]
    BY <1>2 DEF CommitDeletion, RollBackDeletion
  <2>2. CASE d = b
    BY <2>1, <2>2 DEF NothingTodo, TypeOK, AdminTyped
  <2>3. CASE d # b
    BY <2>1, <2>3 DEF TypeOK, AdminTyped
  <2>4. QED
    BY <2>2, <2>3
<1>3. \A t \in Turns : InsertTurn(t) \/ CancelTurn(t) \/ LeaseExpires(t) => todo' = todo
  BY DEF InsertTurn, CancelTurn, LeaseExpires, adminVars
<1>4. \A t \in Turns, r \in Routes, refs \in SUBSET Sources :
        ValidateStart(t, r, refs) => todo' = todo
  BY DEF ValidateStart, adminVars
<1>5. \A c \in Conversations : DeleteConversation(c) => todo' = todo
  BY DEF DeleteConversation, adminVars
<1>6. \A w \in Workers, t \in Turns : Claim(w, t) => todo' = todo
  BY DEF Claim, adminVars
<1>7. \A w \in Workers : WorkerStep(w) \/ Crash(w) => todo' = todo
  BY WorkersOwnNoDeletion DEF adminVars
<1>8. UNCHANGED vars => todo' = todo
  BY DEF vars, adminVars
<1>9. QED
  BY <1>1, <1>2, <1>3, <1>4, <1>5, <1>6, <1>7, <1>8 DEF Next

(* Only turns that were inserted get rows of their own.                    *)
LEMMA AbsentStaysBlank ==
  ASSUME TypeOK, NothingBeforeInsert, [Next]_vars, NEW u \in Turns,
         status[u] = "absent", status'[u] = "absent"
  PROVE  UNCHANGED <<events[u], evidence[u], composer[u]>>
<1> USE DEF TypeOK, TurnsTyped
<1>1. \A w \in Workers : job[w] # u
  BY DEF NothingBeforeInsert
<1>2. ASSUME NEW t \in Turns, InsertTurn(t)
      PROVE  UNCHANGED <<events[u], evidence[u], composer[u]>>
  <2>1. CASE UNCHANGED turnVars
    BY <2>1 DEF turnVars
  <2>2. CASE ~UNCHANGED turnVars
    <3>1. u # t
      BY <1>2, <2>2, InsertEffect
    <3>2. QED
      BY <1>2, <2>2, <3>1, InsertEffect
  <2>3. QED
    BY <2>1, <2>2
<1>3. ASSUME NEW t \in Turns, CancelTurn(t) \/ LeaseExpires(t)
      PROVE  UNCHANGED <<events[u], evidence[u], composer[u]>>
  BY <1>3 DEF CancelTurn, LeaseExpires
<1>4. ASSUME NEW c \in Conversations, DeleteConversation(c)
      PROVE  UNCHANGED <<events[u], evidence[u], composer[u]>>
  BY <1>4 DEF DeleteConversation, Exists
<1>5. ASSUME NEW d \in Redactors, CommitDeletion(d)
      PROVE  UNCHANGED <<events[u], evidence[u], composer[u]>>
  <2>1. u \notin todo[d].turns
    BY DEF NothingBeforeInsert
  <2>2. CASE UNCHANGED turnVars
    BY <2>2 DEF turnVars
  <2>3. CASE ~UNCHANGED turnVars
    <3>1. /\ events' = [t \in Turns |->
                          IF t \in todo[d].turns
                          THEN Append(Sanitized(events[t]), Event("redacted", 0, FALSE))
                          ELSE events[t]]
          /\ UNCHANGED <<evidence, composer>>
      BY <1>5, <2>3, CommitDeletionEffect
    <3>2. QED
      BY <2>1, <3>1
  <2>4. QED
    BY <2>2, <2>3
<1>6. ASSUME NEW w \in Workers, WorkerStep(w) \/ Crash(w)
      PROVE  UNCHANGED <<events[u], evidence[u], composer[u]>>
  <2>1. ASSUME NEW outcome, NEW reason, Finalize(w, outcome, reason)
        PROVE  UNCHANGED <<events[u], evidence[u], composer[u]>>
    BY <1>1, <2>1 DEF Finalize, turnVars
  <2>2. CASE FailClaimed(w) \/ RetrieveFails(w) \/ EndSynthesis(w)
    BY <2>1, <2>2 DEF FailClaimed, RetrieveFails, EndSynthesis
  <2>3. CASE AppendEvent(w) \/ CommitRefs(w)
    BY <1>1, <2>3 DEF AppendEvent, CommitRefs, turnVars
  <2>4. CASE BeginExecution(w) \/ CheckFence(w) \/ CheckRefs(w) \/ ReceiveToken(w)
             \/ Crash(w) \/ \E hits \in SUBSET Sources : Retrieve(w, hits)
    BY <2>4 DEF BeginExecution, CheckFence, CheckRefs, ReceiveToken, Crash, Retrieve,
                turnVars
  <2>5. QED
    BY <1>6, <2>2, <2>3, <2>4 DEF WorkerStep
<1>7. \A w \in Workers, t \in Turns : Claim(w, t) => UNCHANGED <<events, evidence, composer>>
  BY DEF Claim
<1>8. \A t \in Turns, r \in Routes, refs \in SUBSET Sources :
        ValidateStart(t, r, refs) => UNCHANGED <<events, evidence, composer>>
  BY DEF ValidateStart, turnVars
<1>9. \A d \in Redactors : BeginDeletion(d) \/ RollBackDeletion(d)
                            => UNCHANGED <<events, evidence, composer>>
  BY DEF BeginDeletion, RollBackDeletion, turnVars
<1>10. UNCHANGED vars => UNCHANGED <<events, evidence, composer>>
  BY DEF vars, turnVars
<1> HIDE DEF TypeOK, TurnsTyped
<1>11. QED
  BY <1>2, <1>3, <1>4, <1>5, <1>6, <1>7, <1>8, <1>9, <1>10 DEF Next

(* A worker's job changes only by a claim and by leaving, and a deletion   *)
(* finds only inserted turns.                                              *)
LEMMA NothingBeforeInsertStep ==
  ASSUME TypeOK, NothingBeforeInsert, [Next]_vars
  PROVE  NothingBeforeInsert'
<1>1. ASSUME NEW u \in Turns, status'[u] = "absent"
      PROVE  status[u] = "absent"
  BY <1>1, StatusSteps DEF Outcomes
<1>2. ASSUME NEW w \in Workers, job'[w] \in Turns
      PROVE  status'[job'[w]] # "absent"
  <2>1. job'[w] = job[w] \/ status[job'[w]] = "running"
    BY <1>2, JobSteps
  <2>2. job'[w] = job[w] => status[job'[w]] # "absent"
    BY <1>2 DEF NothingBeforeInsert
  <2>3. QED
    BY <1>1, <1>2, <2>1, <2>2
<1>3. ASSUME NEW d \in Redactors, NEW u \in todo'[d].turns
      PROVE  status'[u] # "absent"
  <2>1. u \in todo[d].turns \/ (u \in Turns /\ Exists(u))
    BY <1>3, TodoSteps
  <2>2. u \in Turns /\ status[u] # "absent"
    BY <2>1 DEF NothingBeforeInsert, Exists, TypeOK, AdminTyped
  <2>3. QED
    BY <1>1, <2>2
<1>4. ASSUME NEW u \in Turns, status'[u] = "absent"
      PROVE  events'[u] = << >> /\ evidence'[u] = {} /\ composer'[u] = {}
  <2>1. status[u] = "absent" /\ events[u] = << >> /\ evidence[u] = {} /\ composer[u] = {}
    BY <1>1, <1>4 DEF NothingBeforeInsert
  <2>2. QED
    BY <1>4, <2>1, AbsentStaysBlank
<1>5. QED
  BY <1>2, <1>3, <1>4 DEF NothingBeforeInsert

(* A completed or failed row is written by the claim the turn is at, and a *)
(* turn that has one is no longer claimed.                                 *)
LEMMA LatestClaimStep ==
  ASSUME TypeOK, OutcomeMatchesStatus, OnlyLatestClaimFinalizes, [Next]_vars
  PROVE  OnlyLatestClaimFinalizes'
<1> DEFINE Ends == {"completed", "failed"}
           Latest(u) == \A i \in Places(u, Ends) : events[u][i].gen = gen[u]
<1> SUFFICES ASSUME NEW u \in Turns PROVE Latest(u)'
  BY DEF OnlyLatestClaimFinalizes
<1>1. Latest(u)
  BY DEF OnlyLatestClaimFinalizes
<1>2. events \in [Turns -> Seq(Events)]
  BY DEF TypeOK, TurnsTyped
<1>3. ASSUME events'[u] = events[u]
      PROVE  Latest(u)'
  <2>1. Places(u, Ends)' = Places(u, Ends)
    BY <1>3, SamePlaces
  <2>2. CASE gen'[u] = gen[u]
    BY <1>1, <1>3, <2>1, <2>2
  <2>3. CASE status[u] = "running"
    <3>1. Places(u, Ends) = {}
      BY <2>3 DEF OutcomeMatchesStatus, Places, Outcomes
    <3>2. QED
      BY <2>1, <3>1
  <2>4. QED
    BY <2>2, <2>3, GenerationSteps
<1>4. ASSUME NEW t \in Turns, NEW e \in Events, gen' = gen,
             events' = [events EXCEPT ![t] = Append(events[t], e)],
             e.type \in Ends => e.gen = gen[t]
      PROVE  Latest(u)'
  <2>1. CASE u # t
    BY <1>2, <1>3, <1>4, <2>1
  <2>2. CASE u = t
    <3> HIDE DEF Ends
    <3>1. /\ e.type \notin Ends => Places(u, Ends)' = Places(u, Ends)
          /\ e.type \in Ends =>
               Places(u, Ends)' = Places(u, Ends) \cup {Len(events[u]) + 1}
          /\ events'[u][Len(events[u]) + 1] = e
          /\ \A i \in DOMAIN events[u] : events'[u][i] = events[u][i]
      BY <1>2, <1>4, <2>2, PlacesAfterAppend
    <3>2. \A i \in Places(u, Ends) : events'[u][i] = events[u][i]
      BY <3>1 DEF Places
    <3>3. gen'[u] = gen[u]
      BY <1>4
    <3>4. CASE e.type \in Ends
      <4>1. Places(u, Ends)' = Places(u, Ends) \cup {Len(events[u]) + 1}
        BY <3>1, <3>4
      <4>2. e.gen = gen[u]
        BY <1>4, <2>2, <3>4
      <4>3. QED
        BY <1>1, <3>1, <3>2, <3>3, <4>1, <4>2
    <3>5. CASE e.type \notin Ends
      <4>1. Places(u, Ends)' = Places(u, Ends)
        BY <3>1, <3>5
      <4>2. QED
        BY <1>1, <3>2, <3>3, <4>1
    <3>6. QED
      BY <3>4, <3>5
  <2>3. QED
    BY <2>1, <2>2
<1>5. ASSUME NEW t \in Turns, InsertTurn(t), ~UNCHANGED turnVars
      PROVE  Latest(u)'
  <2>1. CASE u = t
    <3>1. Places(u, Outcomes)' = {}
      BY <1>5, <2>1, InsertEffect
    <3>2. Places(u, Ends)' = {}
      BY <3>1 DEF Places, Outcomes
    <3>3. QED
      BY <3>2
  <2>2. CASE u # t
    BY <1>3, <1>5, <2>2, InsertEffect
  <2>3. QED
    BY <2>1, <2>2
<1>6. ASSUME NEW t \in Turns, CancelTurn(t)
      PROVE  Latest(u)'
  <2>1. PICK e \in Events :
          /\ e.type = "cancelled"
          /\ events' = [events EXCEPT ![t] = Append(events[t], e)]
    BY <1>6, CancelEffect
  <2>2. gen' = gen
    BY <1>6, CancelEffect
  <2>3. QED
    BY <1>4, <2>1, <2>2
<1>7. ASSUME NEW c \in Conversations, DeleteConversation(c)
      PROVE  Latest(u)'
  <2>1. CASE events'[u] = << >>
    BY <2>1 DEF Places
  <2>2. CASE events'[u] # << >>
    BY <1>3, <1>7, <2>2 DEF DeleteConversation
  <2>3. QED
    BY <2>1, <2>2
<1>8. ASSUME NEW d \in Redactors, CommitDeletion(d), ~UNCHANGED turnVars
      PROVE  Latest(u)'
  <2>1. /\ events' = [t \in Turns |->
                       IF t \in todo[d].turns
                       THEN Append(Sanitized(events[t]), Event("redacted", 0, FALSE))
                       ELSE events[t]]
        /\ gen' = gen
    BY <1>8, CommitDeletionEffect
  <2>2. CASE u \in todo[d].turns
    <3>1. events'[u] = Append(Sanitized(events[u]), Event("redacted", 0, FALSE))
      BY <2>1, <2>2
    <3>2. /\ Places(u, Ends)' = Places(u, Ends)
          /\ \A i \in Places(u, Ends) : events'[u][i].gen = events[u][i].gen
      BY <1>2, <3>1, PlacesAfterRedaction
    <3>3. QED
      BY <1>1, <2>1, <3>2
  <2>3. CASE u \notin todo[d].turns
    BY <1>3, <2>1, <2>3
  <2>4. QED
    BY <2>2, <2>3
<1>9. ASSUME NEW w \in Workers, pc[w] # "idle", FenceOpen(w),
             NEW outcome \in {"completed", "failed"}, NEW reason \in StopReasons,
             Finalize(w, outcome, reason)
      PROVE  Latest(u)'
  <2>1. PICK e \in Events :
          /\ e.type = outcome /\ e.gen = gen[job[w]]
          /\ events' = [events EXCEPT ![job[w]] = Append(events[job[w]], e)]
    BY <1>9, FinalizeEffect
  <2>2. gen' = gen /\ job[w] \in Turns
    BY <1>9, FinalizeEffect
  <2>3. QED
    BY <1>4, <2>1, <2>2
<1>10. ASSUME NEW w \in Workers, AppendEvent(w), status[job[w]] # "deleted"
       PROVE  Latest(u)'
  <2>1. PICK e \in Events :
          /\ e.type \in StreamTypes
          /\ events' = [events EXCEPT ![job[w]] = Append(events[job[w]], e)]
    BY <1>10, AppendEffect
  <2>2. gen' = gen /\ job[w] \in Turns
    BY <1>10, AppendEffect
  <2>3. e.type \notin Ends
    BY <2>1 DEF StreamTypes
  <2>4. QED
    BY <1>4, <2>1, <2>2, <2>3
<1>11. \A w \in Workers, t \in Turns : Claim(w, t) => events' = events
  BY DEF Claim
<1>12. QED
  BY <1>3, <1>5, <1>6, <1>7, <1>8, <1>9, <1>10, <1>11, RowSteps

(* A turn starts running by being inserted.                                *)
LEMMA OnlyInsertRuns ==
  ASSUME TypeOK, [Next]_vars, NEW u \in Turns, status[u] = "absent",
         status'[u] = "running"
  PROVE  \E t \in Turns : InsertTurn(t) /\ ~UNCHANGED turnVars
<1> USE DEF TypeOK, TurnsTyped
<1>1. \A t \in Turns : ~CancelTurn(t)
  BY DEF CancelTurn
<1>2. \A c \in Conversations : ~DeleteConversation(c)
  BY DEF DeleteConversation
<1>3. ASSUME NEW d \in Redactors, CommitDeletion(d), ~UNCHANGED turnVars
      PROVE  FALSE
  <2>1. status' = [t \in Turns |-> IF t \in todo[d].turns THEN "redacted"
                                                          ELSE status[t]]
    BY <1>3, CommitDeletionEffect
  <2>2. QED
    BY <2>1
<1>4. \A w \in Workers, t \in Turns : ~Claim(w, t)
  BY DEF Claim
<1>5. ASSUME NEW w \in Workers, pc[w] # "idle", FenceOpen(w),
             NEW outcome \in {"completed", "failed"}, NEW reason \in StopReasons,
             Finalize(w, outcome, reason)
      PROVE  FALSE
  BY <1>5, FinalizeEffect
<1>6. ASSUME NEW w \in Workers, AppendEvent(w), status[job[w]] # "deleted"
      PROVE  FALSE
  BY <1>6, AppendEffect
<1>7. ~UNCHANGED <<status, gen, events>>
  OBVIOUS
<1> HIDE DEF TypeOK, TurnsTyped
<1>8. QED
  BY <1>1, <1>2, <1>3, <1>4, <1>5, <1>6, <1>7, RowSteps

(* Only an insertion makes a turn run, and it looked for a running turn of *)
(* the conversation in the same transaction.                               *)
LEMMA OneRunningStep ==
  ASSUME TypeOK, OneRunningTurn, [Next]_vars
  PROVE  OneRunningTurn'
<1>1. CASE \E t \in Turns : InsertTurn(t) /\ ~UNCHANGED turnVars
  <2>1. PICK t \in Turns : InsertTurn(t) /\ ~UNCHANGED turnVars
    BY <1>1
  <2>2. /\ ~ConversationBusy(t)
        /\ \A u \in Turns : status'[u] = "running" => u = t \/ status[u] = "running"
    BY <2>1, InsertEffect DEF TypeOK, TurnsTyped
  <2>3. QED
    BY <2>2 DEF OneRunningTurn, ConversationBusy
<1>2. CASE ~\E t \in Turns : InsertTurn(t) /\ ~UNCHANGED turnVars
  <2>1. \A u \in Turns : status'[u] = "running" => status[u] = "running"
    <3>1. ASSUME NEW u \in Turns, status[u] = "absent", status'[u] = "running"
          PROVE  FALSE
      BY <1>2, <3>1, OnlyInsertRuns
    <3>2. QED
      BY <3>1, StatusSteps DEF Outcomes
  <2>2. QED
    BY <2>1 DEF OneRunningTurn
<1>3. QED
  BY <1>1, <1>2

-----------------------------------------------------------------------------
(* A deleted source never becomes ready again.                             *)
LEMMA ReadyShrinks ==
  ASSUME TypeOK, [Next]_vars
  PROVE  Ready' \subseteq Ready
<1>1. ASSUME NEW d \in Redactors, CommitDeletion(d)
      PROVE  Ready' \subseteq Ready
  <2>1. \/ source' = source
        \/ source' = [s \in Sources |-> IF s = d THEN "deleting" ELSE source[s]]
    BY <1>1 DEF CommitDeletion
  <2>2. QED
    BY <2>1 DEF Ready
<1>2. \A d \in Redactors : BeginDeletion(d) \/ RollBackDeletion(d) => source' = source
  BY DEF BeginDeletion, RollBackDeletion
<1>3. \A t \in Turns : InsertTurn(t) \/ CancelTurn(t) \/ LeaseExpires(t) => source' = source
  BY DEF InsertTurn, CancelTurn, LeaseExpires, adminVars
<1>4. \A t \in Turns, r \in Routes, refs \in SUBSET Sources :
        ValidateStart(t, r, refs) => source' = source
  BY DEF ValidateStart, adminVars
<1>5. \A c \in Conversations : DeleteConversation(c) => source' = source
  BY DEF DeleteConversation, adminVars
<1>6. \A w \in Workers, t \in Turns : Claim(w, t) => source' = source
  BY DEF Claim, adminVars
<1>7. \A w \in Workers : WorkerStep(w) \/ Crash(w) => source' = source
  BY WorkersOwnNoDeletion DEF adminVars
<1>8. UNCHANGED vars => source' = source
  BY DEF vars, adminVars
<1>9. source' = source => Ready' = Ready
  BY DEF Ready
<1>10. QED
  BY <1>1, <1>2, <1>3, <1>4, <1>5, <1>6, <1>7, <1>8, <1>9 DEF Next

(* What a worker step does to the refs: it persists what the worker found  *)
(* for the worker's own turn, or nothing.                                  *)
LEMMA WorkerRefs ==
  ASSUME TypeOK, NEW w \in Workers, WorkerStep(w) \/ Crash(w), NEW u \in Turns
  PROVE  /\ UNCHANGED <<bornAfter, composer>>
         /\ evidence'[u] = evidence[u] \/ (job[w] = u /\ evidence'[u] = found[w])
<1>1. CASE FailClaimed(w) \/ RetrieveFails(w) \/ EndSynthesis(w)
  BY <1>1 DEF FailClaimed, RetrieveFails, EndSynthesis, Finalize, turnVars
<1>2. CASE AppendEvent(w)
  BY <1>2 DEF AppendEvent, turnVars
<1>3. CASE CommitRefs(w)
  BY <1>3 DEF CommitRefs, turnVars, TypeOK, TurnsTyped
<1>4. CASE BeginExecution(w) \/ CheckFence(w) \/ CheckRefs(w) \/ ReceiveToken(w)
           \/ Crash(w) \/ \E hits \in SUBSET Sources : Retrieve(w, hits)
  BY <1>4 DEF BeginExecution, CheckFence, CheckRefs, ReceiveToken, Crash, Retrieve,
              turnVars
<1>5. QED
  BY <1>1, <1>2, <1>3, <1>4 DEF WorkerStep

(* What a step does to a turn's refs and to the deletions before its birth.*)
LEMMA RefSteps ==
  ASSUME TypeOK, [Next]_vars, NEW u \in Turns
  PROVE  \/ /\ bornAfter'[u] = bornAfter[u]
            /\ composer'[u] \in {composer[u], {}}
            /\ \/ evidence'[u] \in {evidence[u], {}}
               \/ \E w \in Workers : job[w] = u /\ evidence'[u] = found[w]
         \/ /\ status[u] = "absent" /\ bornAfter'[u] = Sources \ Ready
            /\ composer'[u] \subseteq Ready /\ evidence'[u] = evidence[u]
<1> DEFINE Same == UNCHANGED <<bornAfter, composer, evidence>>
<1>1. ASSUME NEW t \in Turns, InsertTurn(t)
      PROVE  \/ Same
             \/ UNCHANGED <<bornAfter[u], composer[u], evidence[u]>>
             \/ /\ status[u] = "absent" /\ bornAfter'[u] = Sources \ Ready
                /\ composer'[u] \subseteq Ready /\ evidence'[u] = evidence[u]
  <2>1. CASE UNCHANGED turnVars
    BY <2>1 DEF turnVars
  <2>2. CASE ~UNCHANGED turnVars
    BY <1>1, <2>2, InsertEffect DEF TypeOK, TurnsTyped
  <2>3. QED
    BY <2>1, <2>2
<1>2. ASSUME NEW c \in Conversations, DeleteConversation(c)
      PROVE  /\ bornAfter'[u] = bornAfter[u]
             /\ composer'[u] \in {composer[u], {}} /\ evidence'[u] \in {evidence[u], {}}
  BY <1>2 DEF DeleteConversation
<1>3. \A t \in Turns : CancelTurn(t) \/ LeaseExpires(t) => Same
  BY DEF CancelTurn, LeaseExpires
<1>4. \A t \in Turns, r \in Routes, refs \in SUBSET Sources : ValidateStart(t, r, refs) => Same
  BY DEF ValidateStart, turnVars
<1>5. \A d \in Redactors : BeginDeletion(d) \/ CommitDeletion(d) \/ RollBackDeletion(d) => Same
  BY DEF BeginDeletion, CommitDeletion, RollBackDeletion, turnVars
<1>6. \A w \in Workers, t \in Turns : Claim(w, t) => Same
  BY DEF Claim
<1>7. UNCHANGED vars => Same
  BY DEF vars, turnVars
<1>8. ASSUME NEW w \in Workers, WorkerStep(w) \/ Crash(w)
      PROVE  /\ UNCHANGED <<bornAfter, composer>>
             /\ evidence'[u] = evidence[u] \/ (job[w] = u /\ evidence'[u] = found[w])
  BY <1>8, WorkerRefs
<1>9. CASE Same
  BY <1>9
<1> HIDE DEF Same
<1>10. QED
  BY <1>1, <1>2, <1>3, <1>4, <1>5, <1>6, <1>7, <1>8, <1>9 DEF Next

(* A worker forgets what it found when it leaves, and finds only sources   *)
(* that are still ready.                                                   *)
LEMMA FoundSteps ==
  ASSUME TypeOK, [Next]_vars, NEW v \in Workers, pc[v] = "idle" => found[v] = {}
  PROVE  \/ found'[v] = {}
         \/ found'[v] = found[v] /\ job'[v] = job[v] /\ (pc'[v] = "idle" => pc[v] = "idle")
         \/ found'[v] \subseteq Ready /\ job'[v] = job[v] /\ pc'[v] # "idle"
<1> DEFINE Kept == found'[v] = found[v] /\ job'[v] = job[v]
                   /\ (pc'[v] = "idle" => pc[v] = "idle")
<1> USE DEF TypeOK, WorkersTyped
<1>1. ASSUME NEW w \in Workers, Leave(w)
      PROVE  found'[v] = {} \/ Kept
  BY <1>1 DEF Leave
<1>2. ASSUME NEW w \in Workers, NEW stage \in Stages \ {"idle"}, Goto(w, stage)
      PROVE  Kept
  BY <1>2 DEF Goto
<1>3. ASSUME NEW w \in Workers, NEW type, Emit(w, type)
      PROVE  Kept
  BY <1>3 DEF Emit
<1>4. {"synthesize", "append", "commit_refs"} \subseteq Stages \ {"idle"}
  BY DEF Stages
<1>5. ASSUME NEW w \in Workers, NEW hits \in SUBSET Sources, Retrieve(w, hits)
      PROVE  Kept \/ (found'[v] \subseteq Ready /\ job'[v] = job[v] /\ pc'[v] # "idle")
  BY <1>5 DEF Retrieve, Reauthorized
<1>6. ASSUME NEW w \in Workers, AfterEvent(w)
      PROVE  Kept
  <2>1. CASE sending[w] = "evidence.delta"
    BY <1>3, <1>6, <2>1 DEF AfterEvent
  <2>2. CASE sending[w] # "evidence.delta"
    <3>1. /\ pc' = [pc EXCEPT ![w] = IF sending[w] = "retrieval.started"
                                     THEN "retrieve" ELSE "synthesize"]
          /\ UNCHANGED <<job, jobGen, found, sending>>
      BY <1>6, <2>2 DEF AfterEvent
    <3>2. pc'[v] = "idle" => pc[v] = "idle"
      BY <3>1
    <3>3. QED
      BY <3>1, <3>2
  <2>3. QED
    BY <2>1, <2>2
<1>7. ASSUME NEW w \in Workers, NEW t \in Turns, Claim(w, t)
      PROVE  found'[v] = {} \/ Kept
  BY <1>7 DEF Claim
<1>8. UNCHANGED workerVars => Kept
  BY DEF workerVars
<1> HIDE DEF Kept, TypeOK, WorkersTyped
<1>9. ASSUME NEW w \in Workers, WorkerStep(w) \/ Crash(w)
      PROVE  \/ found'[v] = {} \/ Kept
             \/ found'[v] \subseteq Ready /\ job'[v] = job[v] /\ pc'[v] # "idle"
  <2>1. CASE BeginExecution(w) \/ CheckFence(w) \/ CheckRefs(w) \/ ReceiveToken(w)
             \/ Crash(w)
    BY <2>1, <1>1, <1>2, <1>3, <1>4
    DEF BeginExecution, CheckFence, CheckRefs, ReceiveToken, Crash
  <2>2. CASE FailClaimed(w) \/ RetrieveFails(w) \/ EndSynthesis(w)
    BY <2>2, <1>1 DEF FailClaimed, RetrieveFails, EndSynthesis, Finalize
  <2>3. CASE AppendEvent(w)
    BY <2>3, <1>1, <1>6 DEF AppendEvent
  <2>4. CASE CommitRefs(w)
    BY <2>4, <1>1, <1>3 DEF CommitRefs
  <2>5. QED
    BY <1>9, <1>5, <2>1, <2>2, <2>3, <2>4 DEF WorkerStep
<1>10. \A t \in Turns : InsertTurn(t) \/ CancelTurn(t) \/ LeaseExpires(t)
                        => UNCHANGED workerVars
  BY DEF InsertTurn, CancelTurn, LeaseExpires
<1>11. \A t \in Turns, r \in Routes, refs \in SUBSET Sources :
         ValidateStart(t, r, refs) => UNCHANGED workerVars
  BY DEF ValidateStart
<1>12. \A c \in Conversations : DeleteConversation(c) => UNCHANGED workerVars
  BY DEF DeleteConversation
<1>13. \A d \in Redactors : BeginDeletion(d) \/ CommitDeletion(d) \/ RollBackDeletion(d)
                            => UNCHANGED workerVars
  BY DEF BeginDeletion, CommitDeletion, RollBackDeletion
<1>14. UNCHANGED vars => UNCHANGED workerVars
  BY DEF vars
<1>15. QED
  BY <1>7, <1>8, <1>9, <1>10, <1>11, <1>12, <1>13, <1>14 DEF Next, Kept

(* Deletions only shrink what is ready, retrieval only finds what is ready, *)
(* so nothing found or born before a deletion meets what it deleted.        *)
LEMMA FoundAfterBirthStep ==
  ASSUME TypeOK, NothingBeforeInsert, FoundAfterBirth, [Next]_vars
  PROVE  FoundAfterBirth'
<1>1. ASSUME NEW u \in Turns
      PROVE  bornAfter'[u] \cap Ready' = {}
  BY ReadyShrinks, RefSteps DEF FoundAfterBirth
<1>2. ASSUME NEW w \in Workers, pc'[w] = "idle"
      PROVE  found'[w] = {}
  BY <1>2, FoundSteps DEF FoundAfterBirth
<1>3. ASSUME NEW w \in Workers, job'[w] \in Turns
      PROVE  found'[w] \cap bornAfter'[job'[w]] = {}
  <2> DEFINE u == job'[w]
  <2>1. CASE found'[w] = {}
    BY <2>1
  <2>2. CASE found'[w] # {}
    <3>1. /\ job'[w] = job[w]
          /\ found'[w] = found[w] \/ found'[w] \subseteq Ready
      BY <2>2, FoundSteps DEF FoundAfterBirth
    <3>2. status[u] # "absent"
      BY <1>3, <3>1 DEF NothingBeforeInsert
    <3>3. bornAfter'[u] = bornAfter[u]
      BY <1>3, <3>2, RefSteps
    <3>4. found[w] \cap bornAfter[u] = {} /\ bornAfter[u] \cap Ready = {}
      BY <1>3, <3>1 DEF FoundAfterBirth
    <3>5. QED
      BY <3>1, <3>3, <3>4
  <2>3. QED
    BY <2>1, <2>2
<1>4. QED
  BY <1>1, <1>2, <1>3 DEF FoundAfterBirth

(* A turn's refs come from a worker that found them for it, or from the    *)
(* request that inserted it.                                               *)
LEMMA UncitedStep ==
  ASSUME TypeOK, NothingBeforeInsert, FoundAfterBirth, DeletedSourcesStayUncited,
         [Next]_vars
  PROVE  DeletedSourcesStayUncited'
<1> SUFFICES ASSUME NEW u \in Turns PROVE (Cites(u) \cap bornAfter[u] = {})'
  BY DEF DeletedSourcesStayUncited
<1>1. evidence[u] \cap bornAfter[u] = {} /\ composer[u] \cap bornAfter[u] = {}
  BY DEF DeletedSourcesStayUncited, Cites
<1>2. \A w \in Workers : job[w] = u => found[w] \cap bornAfter[u] = {}
  BY DEF FoundAfterBirth
<1>3. status[u] = "absent" => evidence[u] = {}
  BY DEF NothingBeforeInsert
<1>4. /\ evidence'[u] \cap bornAfter'[u] = {}
      /\ composer'[u] \cap bornAfter'[u] = {}
  BY <1>1, <1>2, <1>3, RefSteps
<1>5. QED
  BY <1>4 DEF Cites

-----------------------------------------------------------------------------
(* Evidence.  An execution is on its turn's route and emits answer text    *)
(* after the evidence event; refs that were persisted keep every other     *)
(* execution from emitting one.                                            *)

Emitting(w, type) == pc[w] \in {"persist", "append"} /\ sending[w] = type
Backed(t) == Places(t, {"evidence.delta"}) # {}
Live(w) == job[w] \in Turns /\ status[job[w]] # "deleted"

OnRoute(w) ==
  /\ \/ pc[w] \in {"retrieve", "check_refs", "commit_refs"}
     \/ pc[w] \in {"persist", "append"} /\ sending[w] # "answer.delta"
     => route[job[w]] = "domain_rag"
  /\ pc[w] \in {"check_refs", "commit_refs"} => found[w] # {}
  /\ Emitting(w, "evidence.delta") => evidence[job[w]] # {} /\ ~Backed(job[w])
  /\ /\ route[job[w]] = "domain_rag"
     /\ \/ Emitting(w, "answer.delta")
        \/ found[w] # {} /\ (pc[w] = "synthesize" \/ Emitting(w, "retrieval.completed"))
     => Backed(job[w])

Executions == \A w \in Workers : Live(w) => OnRoute(w)
OneEmitter ==
  \A v, w \in Workers :
    /\ Live(w) /\ job[v] = job[w]
    /\ Emitting(v, "evidence.delta") /\ Emitting(w, "evidence.delta")
    => v = w
RefsBeforeEvent == \A t \in Turns : evidence[t] = {} => ~Backed(t)

Ordered == /\ Executions /\ OneEmitter /\ RefsBeforeEvent
           /\ EvidencePrecedesAnswer /\ EvidenceIsStable

(* What most steps do to a turn: its rows of the stream stay, go with the  *)
(* conversation, or are not there because it has just been inserted.       *)
Calm(t) ==
  \/ status'[t] = "deleted" /\ \A types : Places(t, types)' = {}
  \/ /\ route'[t] = route[t] /\ evidence'[t] = evidence[t]
     /\ \A types \in SUBSET StreamTypes : Places(t, types)' = Places(t, types)
  \/ status[t] = "absent" /\ \A types \in SUBSET StreamTypes : Places(t, types)' = {}

(* What they do to a worker.                                               *)
Stays(w) == UNCHANGED <<pc[w], job[w], found[w], sending[w]>>
Moves(w) ==
  Live(w)' => /\ OnRoute(w)'
              /\ Emitting(w, "evidence.delta")' =>
                   Emitting(w, "evidence.delta") /\ job'[w] = job[w]

LEMMA CalmSteps ==
  ASSUME TypeOK, NothingBeforeInsert, Ordered, [Next]_vars,
         \A t \in Turns : Calm(t), \A w \in Workers : Stays(w) \/ Moves(w)
  PROVE  Ordered'
<1>1. /\ {"evidence.delta"} \in SUBSET StreamTypes /\ {"answer.delta"} \in SUBSET StreamTypes
      /\ StreamTypes \ {"answer.delta"} \in SUBSET StreamTypes
  BY DEF StreamTypes
<1>2. \A t \in Turns : status[t] = "deleted" => status'[t] = "deleted"
  BY StatusSteps
<1>3. ASSUME NEW w \in Workers, Live(w)', Stays(w)
      PROVE  /\ Live(w) /\ job'[w] = job[w] /\ route'[job[w]] = route[job[w]]
             /\ evidence'[job[w]] = evidence[job[w]]
             /\ Backed(job[w])' <=> Backed(job[w])
  <2>1. Live(w) /\ job'[w] = job[w] /\ job[w] \in Turns
    BY <1>2, <1>3 DEF Live, Stays
  <2>2. status[job[w]] # "absent" /\ status'[job[w]] # "deleted"
    BY <1>3, <2>1 DEF Live, NothingBeforeInsert
  <2>3. QED
    BY <1>1, <2>1, <2>2 DEF Calm, Backed
<1>4. Executions'
  <2>1. ASSUME NEW w \in Workers, Live(w)', Stays(w)
        PROVE  OnRoute(w)'
    BY <1>3, <2>1 DEF Ordered, Executions, OnRoute, Emitting, Stays
  <2>2. QED
    BY <2>1 DEF Executions, Moves
<1>5. OneEmitter'
  <2>1. ASSUME NEW w \in Workers, Live(w)', Emitting(w, "evidence.delta")'
        PROVE  Live(w) /\ Emitting(w, "evidence.delta") /\ job'[w] = job[w]
    <3>1. Emitting(w, "evidence.delta") /\ job'[w] = job[w]
      BY <2>1 DEF Stays, Moves, Emitting
    <3>2. QED
      BY <1>2, <2>1, <3>1 DEF Live
  <2>2. QED
    BY <2>1 DEF Ordered, OneEmitter, Live
<1>6. RefsBeforeEvent'
  BY <1>1 DEF Ordered, RefsBeforeEvent, Calm, Backed
<1>7. EvidencePrecedesAnswer'
  <2>1. ASSUME NEW t \in Turns
        PROVE  IF route'[t] = "domain_rag"
               THEN \A i \in Places(t, {"answer.delta"})' :
                      \E j \in Places(t, {"evidence.delta"})' : j < i
               ELSE Places(t, StreamTypes \ {"answer.delta"})' = {}
    BY <1>1 DEF Ordered, EvidencePrecedesAnswer, Calm
  <2>2. QED
    BY <2>1 DEF EvidencePrecedesAnswer, StreamTypes
<1>8. EvidenceIsStable'
  BY <1>1 DEF Ordered, EvidenceIsStable, Calm
<1>9. QED
  BY <1>4, <1>5, <1>6, <1>7, <1>8 DEF Ordered

(* An outcome or a redaction is no row of the stream.                      *)
LEMMA OutcomeIsCalm ==
  ASSUME TypeOK, NEW t \in Turns, NEW e \in Events, e.type \notin StreamTypes,
         events' = [events EXCEPT ![t] = Append(events[t], e)], UNCHANGED <<route, evidence>>
  PROVE  \A u \in Turns : Calm(u)
<1>1. ASSUME NEW u \in Turns, NEW types \in SUBSET StreamTypes
      PROVE  Places(u, types)' = Places(u, types)
  <2>1. events \in [Turns -> Seq(Events)] /\ e.type \notin types
    BY DEF TypeOK, TurnsTyped
  <2>2. /\ u # t => Places(u, types)' = Places(u, types)
        /\ Places(t, types)' = Places(t, types)
    BY <2>1, PlacesAfterAppend
  <2>3. QED
    BY <2>2
<1>2. QED
  BY <1>1 DEF Calm

LEMMA RowsAreCalm ==
  ASSUME TypeOK, [Next]_vars, NEW u \in Turns,
         \A w \in Workers : ~AppendEvent(w) /\ ~CommitRefs(w)
  PROVE  Calm(u)
<1>1. CASE UNCHANGED <<events, route, evidence>>
  BY <1>1 DEF Calm, Places
<1>2. ASSUME NEW t \in Turns, InsertTurn(t)
      PROVE  Calm(u)
  <2>1. CASE UNCHANGED turnVars
    BY <1>1, <2>1 DEF turnVars
  <2>2. CASE ~UNCHANGED turnVars
    <3> DEFINE log == <<Event("turn.accepted", 0, FALSE), Event("route.selected", 0, FALSE)>>
    <3>1. status[t] = "absent" /\ UNCHANGED evidence /\ events' = [events EXCEPT ![t] = log]
          /\ route' = [route EXCEPT ![t] = request[t].route]
      BY <1>2, <2>2 DEF InsertTurn
    <3>2. \A i \in DOMAIN log : log[i].type \in {"turn.accepted", "route.selected"}
      BY DEF Event
    <3> HIDE DEF log
    <3>3. events'[t] = log /\ (u # t => events'[u] = events[u] /\ route'[u] = route[u])
      BY <3>1 DEF TypeOK, TurnsTyped
    <3>4. \A types \in SUBSET StreamTypes : Places(t, types)' = {}
      BY <3>2, <3>3 DEF Places, StreamTypes
    <3>5. CASE u = t
      BY <3>1, <3>4, <3>5 DEF Calm
    <3>6. CASE u # t
      BY <3>1, <3>3, <3>6 DEF Calm, Places
    <3>7. QED
      BY <3>5, <3>6
  <2>3. QED
    BY <2>1, <2>2
<1>3. ASSUME NEW t \in Turns, CancelTurn(t)
      PROVE  Calm(u)
  <2>1. PICK e \in Events : e.type = "cancelled"
                            /\ events' = [events EXCEPT ![t] = Append(events[t], e)]
    BY <1>3, CancelEffect
  <2>2. QED
    BY <1>3, <2>1, CancelEffect, OutcomeIsCalm DEF StreamTypes
<1>4. ASSUME NEW c \in Conversations, DeleteConversation(c)
      PROVE  Calm(u)
  <2>1. CASE status'[u] = "deleted" /\ events'[u] = << >>
    <3>1. \A types : Places(u, types)' = {}
      BY <2>1 DEF Places
    <3>2. QED
      BY <2>1, <3>1 DEF Calm
  <2>2. CASE UNCHANGED <<events[u], evidence[u], route[u]>>
    BY <2>2, SamePlaces DEF Calm
  <2>3. QED
    BY <1>4, <2>1, <2>2 DEF DeleteConversation
<1>5. ASSUME NEW d \in Redactors, CommitDeletion(d)
      PROVE  Calm(u)
  <2>1. CASE UNCHANGED turnVars
    BY <1>1, <2>1 DEF turnVars
  <2>2. CASE ~UNCHANGED turnVars
    <3>1. /\ UNCHANGED <<route, evidence>>
          /\ events' = [t \in Turns |->
                          IF t \in todo[d].turns
                          THEN Append(Sanitized(events[t]), Event("redacted", 0, FALSE))
                          ELSE events[t]]
      BY <1>5, <2>2, CommitDeletionEffect
    <3>2. CASE u \in todo[d].turns
      <4>1. /\ events'[u] = Append(Sanitized(events[u]), Event("redacted", 0, FALSE))
            /\ events[u] \in Seq(Events)
        BY <3>1, <3>2 DEF TypeOK, TurnsTyped
      <4>2. ASSUME NEW types \in SUBSET StreamTypes
            PROVE  Places(u, types)' = Places(u, types)
        <5>1. "redacted" \notin types
          BY DEF StreamTypes
        <5>2. QED
          BY <4>1, <5>1, PlacesAfterRedaction
      <4>3. QED
        BY <3>1, <4>2 DEF Calm
    <3>3. CASE u \notin todo[d].turns
      BY <3>1, <3>3, SamePlaces DEF Calm
    <3>4. QED
      BY <3>2, <3>3
  <2>3. QED
    BY <2>1, <2>2
<1>6. ASSUME NEW w \in Workers, FailClaimed(w) \/ RetrieveFails(w) \/ EndSynthesis(w)
      PROVE  Calm(u)
  <2>1. CASE UNCHANGED turnVars
    BY <1>1, <2>1 DEF turnVars
  <2>2. CASE ~UNCHANGED turnVars
    <3>1. pc[w] # "idle"
      BY <1>6 DEF FailClaimed, RetrieveFails, EndSynthesis
    <3>2. PICK outcome \in {"completed", "failed"}, reason \in StopReasons :
             Finalize(w, outcome, reason)
      <4>1. \A end \in SynthesisEnds(w) : end[1] \in {"completed", "failed"}
                                          /\ end[2] \in StopReasons
        BY DEF SynthesisEnds, StopReasons
      <4>2. QED
        BY <1>6, <4>1 DEF FailClaimed, RetrieveFails, EndSynthesis, StopReasons
    <3>3. FenceOpen(w)
      BY <2>2, <3>2 DEF Finalize
    <3>4. PICK e \in Events :
            e.type = outcome /\ events' = [events EXCEPT ![job[w]] = Append(events[job[w]], e)]
      BY <3>1, <3>2, <3>3, FinalizeEffect
    <3>5. job[w] \in Turns /\ UNCHANGED <<route, evidence>> /\ e.type \notin StreamTypes
      BY <3>1, <3>2, <3>3, <3>4, FinalizeEffect DEF StreamTypes
    <3>6. QED
      BY <3>4, <3>5, OutcomeIsCalm
  <2>3. QED
    BY <2>1, <2>2
<1>7. QED
  BY <1>1, <1>2, <1>3, <1>4, <1>5, <1>6
  DEF Next, ValidateStart, LeaseExpires, BeginDeletion, RollBackDeletion, Claim, WorkerStep,
      BeginExecution, CheckFence, Retrieve, CheckRefs, ReceiveToken, Crash, turnVars, vars

-----------------------------------------------------------------------------
(* The steps of one execution.                                             *)

LEMMA LeftIsIdle ==
  ASSUME TypeOK, NEW w \in Workers, Leave(w), NEW v \in Workers
  PROVE  Stays(v) \/ Moves(v)
BY TurnConstants DEF Leave, Stays, Moves, Live, TypeOK, WorkersTyped

LEMMA EmitsOrGoes ==
  ASSUME TypeOK, NEW w \in Workers, NEW stage, NEW type,
         pc' = [pc EXCEPT ![w] = stage], sending' = [sending EXCEPT ![w] = type],
         UNCHANGED <<job, found>>
  PROVE  /\ \A v \in Workers \ {w} : Stays(v)
         /\ pc'[w] = stage /\ sending'[w] = type /\ job'[w] = job[w] /\ found'[w] = found[w]
BY DEF Stays, TypeOK, WorkersTyped

(* Nothing but the worker changes.                                         *)
LEMMA WorkersMove ==
  ASSUME TypeOK, NothingBeforeInsert, FoundAfterBirth, Ordered, [Next]_vars, NEW v \in Workers,
         \A w \in Workers : ~AppendEvent(w) /\ ~CommitRefs(w)
  PROVE  Stays(v) \/ Moves(v)
<1>1. CASE UNCHANGED <<pc, job, found, sending>>
  BY <1>1 DEF Stays
<1>2. ASSUME NEW w \in Workers, Leave(w)
      PROVE  Stays(v) \/ Moves(v)
  BY <1>2, LeftIsIdle
<1>3. ASSUME NEW w \in Workers, NEW t \in Turns, Claim(w, t)
      PROVE  Stays(v) \/ Moves(v)
  <2>1. CASE v = w
    <3>1. pc'[w] = "claimed"
      BY <1>3 DEF Claim, TypeOK, WorkersTyped
    <3>2. QED
      BY <2>1, <3>1 DEF Moves, OnRoute, Emitting
  <2>2. CASE v # w
    BY <1>3, <2>2 DEF Claim, Stays, TypeOK, WorkersTyped
  <2>3. QED
    BY <2>1, <2>2
<1>4. ASSUME NEW w \in Workers, UNCHANGED turnVars, Live(w)', job'[w] = job[w]
      PROVE  /\ Live(w) /\ OnRoute(w) /\ Backed(job[w])' = Backed(job[w])
             /\ UNCHANGED <<route, evidence>>
  <2>1. Live(w) /\ UNCHANGED <<events, route, evidence>>
    BY <1>4 DEF Live, turnVars
  <2>2. OnRoute(w)
    BY <2>1 DEF Ordered, Executions
  <2>3. Places(job[w], {"evidence.delta"})' = Places(job[w], {"evidence.delta"})
    BY <1>4, <2>1 DEF Places
  <2>4. QED
    BY <2>1, <2>2, <2>3 DEF Backed
<1>5. ASSUME NEW w \in Workers, BeginExecution(w)
      PROVE  Stays(v) \/ Moves(v)
  <2>1. UNCHANGED turnVars /\ pc[w] = "claimed"
    BY <1>5 DEF BeginExecution
  <2>2. CASE route[job[w]] = "domain_rag" /\ Emit(w, "retrieval.started")
    <3>1. /\ \A x \in Workers \ {w} : Stays(x)
          /\ pc'[w] = "persist" /\ sending'[w] = "retrieval.started" /\ job'[w] = job[w]
      BY <2>2, EmitsOrGoes DEF Emit
    <3>2. Moves(w)
      BY <1>4, <2>1, <2>2, <3>1 DEF Moves, OnRoute, Emitting
    <3>3. QED
      BY <3>1, <3>2
  <2>3. CASE route[job[w]] # "domain_rag" /\ Goto(w, "synthesize")
    <3>1. /\ \A x \in Workers \ {w} : Stays(x)
          /\ pc'[w] = "synthesize" /\ job'[w] = job[w]
      BY <2>3 DEF Goto, Stays, TypeOK, WorkersTyped
    <3>2. Moves(w)
      BY <1>4, <2>1, <2>3, <3>1 DEF Moves, OnRoute, Emitting
    <3>3. QED
      BY <3>1, <3>2
  <2>4. QED
    BY <1>5, <2>2, <2>3 DEF BeginExecution
<1>6. ASSUME NEW w \in Workers, CheckFence(w) \/ CheckRefs(w)
      PROVE  Stays(v) \/ Moves(v)
  <2>1. UNCHANGED turnVars
    BY <1>6 DEF CheckFence, CheckRefs
  <2>2. CASE Leave(w)
    BY <1>2, <2>2
  <2>3. CASE \/ pc[w] = "persist" /\ Goto(w, "append")
             \/ pc[w] = "check_refs" /\ Goto(w, "commit_refs")
    <3>1. /\ \A x \in Workers \ {w} : Stays(x)
          /\ UNCHANGED <<job[w], found[w], sending[w]>>
          /\ \/ pc[w] = "persist" /\ pc'[w] = "append"
             \/ pc[w] = "check_refs" /\ pc'[w] = "commit_refs"
      BY <2>3 DEF Goto, Stays, TypeOK, WorkersTyped
    <3>2. Moves(w)
      BY <1>4, <2>1, <3>1 DEF Moves, OnRoute, Emitting
    <3>3. QED
      BY <3>1, <3>2
  <2>4. QED
    BY <1>6, <2>2, <2>3 DEF CheckFence, CheckRefs
<1>7. ASSUME NEW w \in Workers, NEW hits \in SUBSET Sources, Retrieve(w, hits)
      PROVE  Stays(v) \/ Moves(v)
  <2>1. /\ UNCHANGED <<turnVars, job>> /\ pc[w] = "retrieve"
        /\ found' = [found EXCEPT ![w] = hits]
        /\ \/ /\ hits = {} /\ pc' = [pc EXCEPT ![w] = "persist"]
              /\ sending' = [sending EXCEPT ![w] = "retrieval.completed"]
           \/ hits # {} /\ pc' = [pc EXCEPT ![w] = "check_refs"] /\ UNCHANGED sending
    BY <1>7 DEF Retrieve
  <2>2. /\ \A x \in Workers \ {w} : Stays(x)
        /\ job'[w] = job[w] /\ found'[w] = hits
        /\ \/ hits = {} /\ pc'[w] = "persist" /\ sending'[w] = "retrieval.completed"
           \/ hits # {} /\ pc'[w] = "check_refs"
    BY <2>1 DEF Stays, TypeOK, WorkersTyped
  <2>3. Moves(w)
    BY <1>4, <2>1, <2>2 DEF Moves, OnRoute, Emitting
  <2>4. QED
    BY <2>2, <2>3
<1>8. ASSUME NEW w \in Workers, ReceiveToken(w)
      PROVE  Stays(v) \/ Moves(v)
  <2>1. /\ UNCHANGED turnVars /\ pc[w] = "synthesize" /\ Emit(w, "answer.delta")
        /\ route[job[w]] = "direct_llm" \/ found[w] # {}
    BY <1>8 DEF ReceiveToken
  <2>2. /\ \A x \in Workers \ {w} : Stays(x)
        /\ pc'[w] = "persist" /\ sending'[w] = "answer.delta" /\ job'[w] = job[w]
    BY <2>1, EmitsOrGoes DEF Emit
  <2>3. Moves(w)
    BY <1>4, <2>1, <2>2 DEF Moves, OnRoute, Emitting
  <2>4. QED
    BY <2>2, <2>3
<1>9. ASSUME NEW w \in Workers,
             FailClaimed(w) \/ RetrieveFails(w) \/ EndSynthesis(w) \/ Crash(w)
      PROVE  Stays(v) \/ Moves(v)
  BY <1>2, <1>9 DEF FailClaimed, RetrieveFails, EndSynthesis, Finalize, Crash
<1>10. QED
  BY <1>1, <1>3, <1>5, <1>6, <1>7, <1>8, <1>9
  DEF Next, ValidateStart, InsertTurn, CancelTurn, LeaseExpires, DeleteConversation,
      BeginDeletion, CommitDeletion, RollBackDeletion, WorkerStep, workerVars, vars

(* The refs of an execution make it the one that may emit their event.     *)
LEMMA CommitRefsStep ==
  ASSUME TypeOK, NothingBeforeInsert, Ordered, [Next]_vars, NEW w \in Workers, CommitRefs(w)
  PROVE  Ordered'
<1> DEFINE t == job[w]
<1>1. t \in Turns /\ pc[w] = "commit_refs"
  BY DEF CommitRefs, TypeOK, WorkersTyped
<1>2. CASE Leave(w) /\ UNCHANGED turnVars
  <2>1. \A u \in Turns : Calm(u)
    BY <1>2 DEF turnVars, Calm, Places
  <2>2. QED
    BY <1>2, <2>1, LeftIsIdle, CalmSteps
<1>3. CASE /\ ~(status[t] = "deleted" \/ RefsCollide(t))
           /\ evidence' = [evidence EXCEPT ![t] = found[w]]
           /\ Emit(w, NextAfterRefs)
           /\ UNCHANGED <<status, route, events>>
  <2>1. Live(w) /\ OnRoute(w) /\ evidence[t] = {} /\ found[w] # {}
        /\ route[t] = "domain_rag" /\ ~Backed(t)
    BY <1>1, <1>3 DEF Live, RefsCollide, Ordered, Executions, OnRoute, RefsBeforeEvent
  <2>2. /\ \A v \in Workers \ {w} : Stays(v)
        /\ pc'[w] = "persist" /\ sending'[w] = "evidence.delta" /\ job'[w] = t
        /\ found'[w] = found[w]
    BY <1>3, EmitsOrGoes DEF Emit, NextAfterRefs
  <2>3. /\ evidence'[t] = found[w]
        /\ \A u \in Turns \ {t} : evidence'[u] = evidence[u]
    BY <1>1, <1>3 DEF TypeOK, TurnsTyped
  <2>4. \A u \in Turns : \A types : Places(u, types)' = Places(u, types)
    BY <1>3 DEF Places
  <2>5. \A u \in Turns : Backed(u)' = Backed(u)
    BY <2>4 DEF Backed
  <2>6. Executions'
    <3>1. OnRoute(w)'
      BY <1>1, <1>3, <2>1, <2>2, <2>3, <2>5 DEF OnRoute, Emitting
    <3>2. ASSUME NEW v \in Workers \ {w}, Live(v)'
          PROVE  OnRoute(v)'
      <4>1. Stays(v) /\ Live(v) /\ OnRoute(v)
        BY <1>3, <2>2, <3>2 DEF Live, Stays, Ordered, Executions
      <4>2. evidence[job[v]] # {} => evidence'[job[v]] # {}
        BY <2>1, <2>3, <4>1 DEF Live
      <4>3. QED
        BY <1>3, <2>5, <4>1, <4>2 DEF OnRoute, Emitting, Stays, Live
    <3>3. QED
      BY <3>1, <3>2 DEF Executions
  <2>7. OneEmitter'
    <3>1. ASSUME NEW v \in Workers, Emitting(v, "evidence.delta"), job[v] = t
          PROVE  FALSE
      BY <1>1, <2>1, <3>1 DEF Ordered, Executions, OnRoute, Live
    <3>2. QED
      BY <1>3, <2>2, <3>1 DEF Ordered, OneEmitter, Stays, Emitting, Live
  <2>8. RefsBeforeEvent'
    BY <2>1, <2>3, <2>5 DEF Ordered, RefsBeforeEvent
  <2>9. EvidencePrecedesAnswer' /\ EvidenceIsStable'
    <3>1. UNCHANGED <<route, events>>
      BY <1>3
    <3>2. QED
      BY <3>1 DEF Ordered, EvidencePrecedesAnswer, EvidenceIsStable, Places, StreamTypes
  <2>10. QED
    BY <2>6, <2>7, <2>8, <2>9 DEF Ordered
<1>4. QED
  BY <1>2, <1>3 DEF CommitRefs

(* The places of a kind of rows after one row is appended.                 *)
Appended(t, e) == events' = [events EXCEPT ![t] = Append(events[t], e)]

LEMMA AppendedPlaces ==
  ASSUME TypeOK, NEW t \in Turns, NEW e \in Events,
         Appended(t, e), NEW u \in Turns, NEW types
  PROVE  IF u = t /\ e.type \in types
         THEN Places(u, types)' = Places(u, types) \cup {Len(events[t]) + 1}
         ELSE Places(u, types)' = Places(u, types)
<1>1. events \in [Turns -> Seq(Events)]
  BY DEF TypeOK, TurnsTyped
<1>2. /\ u # t => Places(u, types)' = Places(u, types)
      /\ e.type \notin types => Places(t, types)' = Places(t, types)
      /\ e.type \in types => Places(t, types)' = Places(t, types) \cup {Len(events[t]) + 1}
  BY <1>1, PlacesAfterAppend DEF Appended
<1>3. QED
  BY <1>2

(* A row of the stream is appended: evidence once, before any answer.      *)
LEMMA AppendStep ==
  ASSUME TypeOK, NothingBeforeInsert, Ordered, [Next]_vars, NEW w \in Workers, AppendEvent(w)
  PROVE  Ordered'
<1> SUFFICES ASSUME NEW t \in Turns, job[w] = t
             PROVE  Ordered'
  BY DEF AppendEvent, TypeOK, WorkersTyped
<1>1. /\ pc[w] = "append" /\ sending[w] \in StreamTypes
      /\ events[t] \in Seq(Events)
  BY DEF AppendEvent, TypeOK, WorkersTyped, TurnsTyped
<1>2. CASE status[t] = "deleted"
  <2>1. Leave(w) /\ UNCHANGED turnVars
    BY <1>2 DEF AppendEvent
  <2>2. \A u \in Turns : Calm(u)
    BY <2>1 DEF turnVars, Calm, Places
  <2>3. QED
    BY <2>1, <2>2, LeftIsIdle, CalmSteps
<1>3. CASE status[t] # "deleted"
  <2>1. /\ UNCHANGED <<status, route, evidence>> /\ AfterEvent(w)
        /\ Live(w) /\ OnRoute(w)
    BY <1>1, <1>3 DEF AppendEvent, Live, Ordered, Executions
  <2>2. PICK e \in Events :
          /\ e.type \in StreamTypes /\ e.type = sending[w]
          /\ Appended(t, e)
    BY <1>3, AppendEffect DEF Appended
  <2> DEFINE n == Len(events[t]) + 1
  <2>3. ASSUME NEW u \in Turns, NEW types
        PROVE  IF u = t /\ e.type \in types
               THEN Places(u, types)' = Places(u, types) \cup {n}
               ELSE Places(u, types)' = Places(u, types)
    BY <2>2, AppendedPlaces
  <2>4. n \in Nat /\ \A types : \A i \in Places(t, types) : i \in Nat /\ i < n
    <3>1. DOMAIN events[t] = 1..Len(events[t]) /\ Len(events[t]) \in Nat
      BY <1>1
    <3>2. QED
      BY <3>1 DEF Places
  <2> HIDE DEF n
  <2>5. \A u \in Turns : Backed(u) => Backed(u)'
    BY <2>3 DEF Backed
  <2>6. ASSUME NEW u \in Turns, Backed(u)'
        PROVE  Backed(u) \/ (u = t /\ sending[w] = "evidence.delta")
    BY <2>2, <2>3, <2>6 DEF Backed
  <2>7. sending[w] = "evidence.delta" => Backed(t)' /\ ~Backed(t) /\ evidence[t] # {}
    BY <1>1, <2>1, <2>2, <2>3 DEF Backed, OnRoute, Emitting
  <2>8. /\ \A v \in Workers \ {w} : Stays(v)
        /\ UNCHANGED <<job[w], found[w]>>
        /\ \/ sending[w] = "evidence.delta" /\ pc'[w] = "persist"
              /\ sending'[w] = "retrieval.completed"
           \/ sending[w] = "retrieval.started" /\ pc'[w] = "retrieve"
           \/ sending[w] \in {"retrieval.completed", "answer.delta"} /\ pc'[w] = "synthesize"
    <3>1. CASE sending[w] = "evidence.delta"
      <4>1. Emit(w, "retrieval.completed")
        BY <2>1, <3>1 DEF AfterEvent
      <4>2. QED
        BY <3>1, <4>1, EmitsOrGoes DEF Emit
    <3>2. CASE sending[w] # "evidence.delta"
      <4>1. /\ pc' = [pc EXCEPT ![w] = IF sending[w] = "retrieval.started" THEN "retrieve"
                                                                       ELSE "synthesize"]
            /\ UNCHANGED <<job, found, sending>>
        BY <2>1, <3>2 DEF AfterEvent
      <4>2. QED
        BY <1>1, <3>2, <4>1 DEF Stays, TypeOK, WorkersTyped, StreamTypes
    <3>3. QED
      BY <3>1, <3>2
  <2>9. Executions'
    <3>1. OnRoute(w)'
      <4>1. route'[t] = "domain_rag" /\ found'[w] # {} /\ pc'[w] \in {"synthesize", "persist"}
            => Backed(t)'
        BY <1>1, <2>1, <2>5, <2>7, <2>8 DEF OnRoute, Emitting
      <4>2. QED
        BY <1>1, <2>1, <2>8, <4>1 DEF OnRoute, Emitting
    <3>2. ASSUME NEW v \in Workers \ {w}, Live(v)'
          PROVE  OnRoute(v)'
      <4>1. Stays(v) /\ Live(v) /\ OnRoute(v) /\ job[v] \in Turns
        BY <2>1, <2>8, <3>2 DEF Live, Stays, Ordered, Executions
      <4>2. PICK u \in Turns : u = job[v] /\ u = job'[v]
        BY <4>1 DEF Stays
      <4>3. Emitting(v, "evidence.delta") => ~Backed(u)'
        <5>1. SUFFICES ASSUME Emitting(v, "evidence.delta"), Backed(u)'
                       PROVE  FALSE
          OBVIOUS
        <5>2. ~Backed(u)
          BY <4>1, <4>2, <5>1 DEF OnRoute
        <5>3. u = t /\ Emitting(w, "evidence.delta")
          BY <1>1, <2>6, <5>1, <5>2 DEF Emitting
        <5>4. QED
          BY <2>1, <4>2, <5>1, <5>3 DEF Ordered, OneEmitter
      <4>4. QED
        BY <2>1, <2>5, <4>1, <4>2, <4>3 DEF OnRoute, Emitting, Stays
    <3>3. QED
      BY <3>1, <3>2 DEF Executions
  <2>10. OneEmitter'
    BY <2>1, <2>8 DEF Ordered, OneEmitter, Stays, Emitting, Live
  <2>11. RefsBeforeEvent'
    BY <2>1, <2>6, <2>7 DEF Ordered, RefsBeforeEvent
  <2>12. EvidenceIsStable'
    <3>1. ASSUME NEW u \in Turns, NEW i \in Places(u, {"evidence.delta"})',
                 NEW j \in Places(u, {"evidence.delta"})'
          PROVE  i = j
      <4>1. CASE u = t /\ sending[w] = "evidence.delta"
        <5>1. Places(t, {"evidence.delta"})' = {n}
          BY <2>2, <2>3, <2>7, <4>1 DEF Backed
        <5>2. QED
          BY <4>1, <5>1
      <4>2. CASE ~(u = t /\ sending[w] = "evidence.delta")
        <5>1. Places(u, {"evidence.delta"})' = Places(u, {"evidence.delta"})
          BY <2>2, <2>3, <4>2
        <5>2. QED
          BY <5>1 DEF Ordered, EvidenceIsStable
      <4>3. QED
        BY <4>1, <4>2
    <3>2. QED
      BY <3>1 DEF EvidenceIsStable
  <2>13. EvidencePrecedesAnswer'
    <3> DEFINE Others == StreamTypes \ {"answer.delta"}
    <3>1. ASSUME NEW u \in Turns, route'[u] # "domain_rag"
          PROVE  Places(u, Others)' = {}
      <4>1. route[u] # "domain_rag" /\ Places(u, Others) = {}
        BY <2>1, <3>1 DEF Ordered, EvidencePrecedesAnswer
      <4>2. u = t => e.type \notin Others
        BY <1>1, <2>1, <2>2, <4>1 DEF OnRoute
      <4>3. QED
        BY <2>3, <4>1, <4>2
    <3>2. ASSUME NEW u \in Turns, route'[u] = "domain_rag",
                 NEW i \in Places(u, {"answer.delta"})'
          PROVE  \E j \in Places(u, {"evidence.delta"})' : j < i
      <4>1. Places(u, {"evidence.delta"}) \subseteq Places(u, {"evidence.delta"})'
        BY <2>3
      <4>2. CASE i \in Places(u, {"answer.delta"})
        <5>1. \E j \in Places(u, {"evidence.delta"}) : j < i
          BY <2>1, <3>2, <4>2 DEF Ordered, EvidencePrecedesAnswer
        <5>2. QED
          BY <4>1, <5>1
      <4>3. CASE i \notin Places(u, {"answer.delta"})
        <5>1. u = t /\ i = n /\ sending[w] = "answer.delta"
          BY <2>2, <2>3, <3>2, <4>3
        <5>2. Backed(t)
          BY <1>1, <2>1, <3>2, <5>1 DEF OnRoute, Emitting
        <5>3. PICK j \in Places(t, {"evidence.delta"}) : TRUE
          BY <5>2 DEF Backed
        <5>4. j < n
          BY <2>4, <5>3
        <5>5. QED
          BY <4>1, <5>1, <5>3, <5>4
      <4>4. QED
        BY <4>2, <4>3
    <3>3. QED
      BY <3>1, <3>2 DEF EvidencePrecedesAnswer, StreamTypes
  <2>14. QED
    BY <2>9, <2>10, <2>11, <2>12, <2>13 DEF Ordered
<1>4. QED
  BY <1>2, <1>3

LEMMA OrderedStep ==
  ASSUME TypeOK, NothingBeforeInsert, FoundAfterBirth, Ordered, [Next]_vars
  PROVE  Ordered'
<1>1. CASE \E w \in Workers : AppendEvent(w) \/ CommitRefs(w)
  BY <1>1, AppendStep, CommitRefsStep
<1>2. CASE \A w \in Workers : ~AppendEvent(w) /\ ~CommitRefs(w)
  BY <1>2, RowsAreCalm, WorkersMove, CalmSteps
<1>3. QED
  BY <1>1, <1>2

-----------------------------------------------------------------------------
(* Nothing has happened initially.                                         *)
LEMMA InitSafe == Init => Safe
<1> SUFFICES ASSUME Init PROVE Safe
  OBVIOUS
<1> USE DEF Init
<1>1. NothingBeforeInsert
  BY TurnConstants DEF NothingBeforeInsert, NothingTodo
<1>2. FoundAfterBirth
  BY DEF FoundAfterBirth
<1>3. \A t \in Turns : \A types : Places(t, types) = {}
  BY DEF Places
<1>4. OutcomeMatchesStatus /\ OnlyLatestClaimFinalizes
  BY <1>3 DEF OutcomeMatchesStatus, OnlyLatestClaimFinalizes, Outcomes
<1>5. OneRunningTurn
  BY DEF OneRunningTurn
<1>6. DeletedSourcesStayUncited
  BY DEF DeletedSourcesStayUncited, Cites
<1>7. QED
  BY <1>1, <1>2, <1>4, <1>5, <1>6 DEF Safe

(* Safe is inductive relative to TypeOK.                                   *)
LEMMA NextSafe == TypeOK /\ Safe /\ [Next]_vars => Safe'
  BY NothingBeforeInsertStep, FoundAfterBirthStep, OutcomeStep, LatestClaimStep,
     OneRunningStep, UncitedStep DEF Safe

(* The inductive invariant holds in every reachable state.                 *)
THEOREM Safety == Spec => []Safe
  BY InitTyped, NextTyped, InitSafe, NextSafe, PTL DEF Spec

(* Nothing has been emitted initially.                                     *)
LEMMA InitOrdered == Init => Ordered
<1> SUFFICES ASSUME Init PROVE Ordered
  OBVIOUS
<1>1. \A w \in Workers : job[w] \notin Turns
  BY TurnConstants DEF Init
<1>2. \A t \in Turns : \A types : Places(t, types) = {}
  BY DEF Init, Places
<1>3. QED
  BY <1>1, <1>2
  DEF Ordered, Executions, OneEmitter, Live, RefsBeforeEvent, Backed,
      EvidencePrecedesAnswer, EvidenceIsStable

(* Executions keep to the order of evidence and answer in every reachable  *)
(* state.                                                                  *)
THEOREM EvidenceOrder == Spec => []Ordered
<1>1. Safe => NothingBeforeInsert /\ FoundAfterBirth
  BY DEF Safe
<1>2. TypeOK /\ Safe /\ Ordered /\ [Next]_vars => Ordered'
  BY <1>1, OrderedStep
<1>3. QED
  BY <1>2, InitOrdered, TypeCorrect, Safety, PTL DEF Spec

(* Every answer delta of a grounded turn follows the turn's evidence event *)
(* and a direct turn has no retrieval or evidence event, across all        *)
(* executions of the turn.  The completion is not covered.                 *)
THEOREM AnswersFollowEvidence == Spec => []EvidencePrecedesAnswer
<1>1. Ordered => EvidencePrecedesAnswer
  BY DEF Ordered
<1>2. QED
  BY <1>1, EvidenceOrder, PTL

(* The evidence event appears once, however often a turn is reclaimed: an  *)
(* execution that finds persisted refs never gets to emit another.         *)
THEOREM EvidenceOnce == Spec => []EvidenceIsStable
<1>1. Ordered => EvidenceIsStable
  BY DEF Ordered
<1>2. QED
  BY <1>1, EvidenceOrder, PTL

(* "Terminal state and terminal event commit atomically" for any number of *)
(* turns, workers and reclaims: a running turn's log has no outcome, an     *)
(* ended turn's log has exactly one, the one its status names.              *)
THEOREM OutcomesMatch == Spec => []OutcomeMatchesStatus
<1>1. Safe => OutcomeMatchesStatus
  BY DEF Safe
<1>2. QED
  BY <1>1, Safety, PTL

(* A worker whose lease was taken over never completes or fails the turn,  *)
(* however many executions of it are still going.                          *)
THEOREM StaleExecutionsNeverFinalize == Spec => []OnlyLatestClaimFinalizes
<1>1. Safe => OnlyLatestClaimFinalizes
  BY DEF Safe
<1>2. QED
  BY <1>1, Safety, PTL

(* Concurrent requests never leave two running turns in a conversation.    *)
THEOREM OneRunningTurnEach == Spec => []OneRunningTurn
<1>1. Safe => OneRunningTurn
  BY DEF Safe
<1>2. QED
  BY <1>1, Safety, PTL

(* Reauthorizing the frozen scope and expiring composer tokens keep a      *)
(* deleted source out of every turn inserted after its deletion.           *)
THEOREM DeletedSourcesUncited == Spec => []DeletedSourcesStayUncited
<1>1. Safe => DeletedSourcesStayUncited
  BY DEF Safe
<1>2. QED
  BY <1>1, Safety, PTL

(* An ended turn may only be redacted or disappear, a redacted one only    *)
(* disappear: no late worker, cancellation or deletion changes that.       *)
THEOREM EndedStayEnded == Spec => EndedTurnsStayEnded
<1>1. TypeOK /\ [Next]_vars =>
        [\A t \in Turns :
           /\ status[t] \in Outcomes => status'[t] \in {status[t], "redacted", "deleted"}
           /\ status[t] \in {"redacted", "deleted"} => status'[t] \in {status[t], "deleted"}]_vars
  BY StatusSteps DEF Outcomes
<1>2. QED
  BY <1>1, TypeCorrect, PTL DEF Spec, EndedTurnsStayEnded
=============================================================================
