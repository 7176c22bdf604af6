----------------------------- MODULE TurnStream -----------------------------
(***************************************************************************)
(* One turn's event ledger as its reader sees it: the tail of the ledger    *)
(* that the API streams (chat_turns.py, _tail_turn_events), the client that *)
(* follows it over lost connections (client/src/lib/stream), and what the  *)
(* chat page makes of the events.                                           *)
(*                                                                         *)
(* What the workers do to the turn is reduced to what they append: evidence *)
(* before answer text, one outcome, a redaction at any time (ChatTurn has   *)
(* how they come to it); retrieval.started and .completed, which only       *)
(* change a caption, are left out.  An execution looks whether the turn     *)
(* still runs and inserts its event afterwards, with no lock: whatever is   *)
(* committed in between, the event comes behind it.  An event is hot while  *)
(* its payload holds text, items or citations.  events_retained_after is 0  *)
(* in every row, so no cursor is refused as expired.                        *)
(***************************************************************************)
EXTENDS Naturals, Sequences, FiniteSets

CONSTANTS
  Writers,     \* executions of the turn's job, stale ones included
  MaxDeltas,   \* bound: answer.delta events of the turn
  MaxResumes,  \* maxAttempts of runResumableTurnStream
  MaxLosses,   \* bound: requests and connections lost
  MaxCalls     \* bound: submits, retries and replays of the user

ASSUME StreamConstants ==
  IsFiniteSet(Writers) /\ MaxDeltas \in Nat /\ MaxResumes \in Nat /\ MaxLosses \in Nat /\ MaxCalls \in Nat

VARIABLES
  status,    \* the turn's row
  ledger,    \* its events by sequence
  writing,   \* per execution: the event it is about to insert
  redaction, \* the redaction: under way, and history of how many events it cleared
  tail,      \* the response under way: _tail_turn_events' locals
  call,      \* runResumableTurnStream
  consumer,  \* createCanonicalTurnConsumer
  shown,     \* TurnStreamProjection
  page,      \* the turn as the conversation page loaded it
  losses, calls

turnVars   == <<status, ledger, writing, redaction>>
clientVars == <<call, consumer, shown, page>>
vars == <<turnVars, tail, clientVars, losses, calls>>

-----------------------------------------------------------------------------
Outcomes == {"completed", "failed", "cancelled"}
Terminal == Outcomes \cup {"redacted"}
Types    == {"accepted", "route", "evidence", "delta"} \cup Terminal

Event(type, hot) == [type |-> type, hot |-> hot]
Has(type)   == \E i \in DOMAIN ledger : ledger[i].type = type
CountOf(type) == Len(SelectSeq(ledger, LAMBDA e : e.type = type))

NoTail     == [pc |-> "none", cursor |-> 0, rebuild |-> FALSE, seen |-> "running",
               rows |-> << >>, late |-> FALSE]
NoConsumer == [applied |-> << >>, known |-> FALSE, terminal |-> FALSE]
NothingShown == [known |-> FALSE, answer |-> << >>, evidence |-> FALSE,
                 citations |-> FALSE, terminal |-> "none"]
NoRedaction == [open |-> FALSE, cleared |-> 0]
NoPage     == [status |-> "absent", answer |-> FALSE, evidence |-> FALSE]

Init ==
  /\ status   = "absent"
  /\ ledger   = << >>
  /\ writing  = [w \in Writers |-> "none"]
  /\ redaction = NoRedaction
  /\ tail     = NoTail
  /\ call     = [pc |-> "idle", kind |-> "start", attempts |-> 0]
  /\ consumer = NoConsumer
  /\ shown    = NothingShown
  /\ page     = NoPage
  /\ losses   = 0
  /\ calls    = 0

-----------------------------------------------------------------------------
(* The turn                                                                *)

Still == UNCHANGED <<tail, clientVars, losses, calls>>

\* _public_evidence_event: the items whose source and block still exist
EvidenceEvent == Event("evidence", TRUE)

InFlight(type) == Cardinality({w \in Writers : writing[w] = type})

\* _persist_event: the turn is read again, and is still running under the
\* execution's generation
TestTurn(w) ==
  /\ status = "running" /\ writing[w] = "none" /\ InFlight("evidence") = 0
  /\ \/ /\ ~Has("evidence") /\ ~Has("delta") /\ InFlight("delta") = 0
        /\ writing' = [writing EXCEPT ![w] = "evidence"]
     \/ /\ CountOf("delta") + InFlight("delta") < MaxDeltas
        /\ writing' = [writing EXCEPT ![w] = "delta"]
  /\ UNCHANGED <<status, ledger, redaction>> /\ Still

\* _persist_event: the next sequence, the row and the commit, whatever the turn's
\* status is by now
InsertEvent(w) ==
  /\ status # "deleted" /\ writing[w] # "none"
  /\ ledger' = Append(ledger, IF writing[w] = "evidence" THEN EvidenceEvent
                              ELSE Event(writing[w], TRUE))
  /\ writing' = [writing EXCEPT ![w] = "none"]
  /\ UNCHANGED <<status, redaction>> /\ Still

\* the sequence was taken meanwhile, the turn is gone, or the process dies
DropEvent(w) ==
  /\ writing[w] # "none"
  /\ writing' = [writing EXCEPT ![w] = "none"]
  /\ UNCHANGED <<status, ledger, redaction>> /\ Still

\* the condition of _finalize_turn_if_running's update, which waits for the lock
\* of a redaction under way
MayEnd == status = "running" /\ ~redaction.open

\* _complete_turn, _fail_turn, cancel_turn: the status and its event in one commit
EndTurn(outcome) ==
  /\ MayEnd
  /\ outcome = "completed" => InFlight("evidence") = 0
  /\ status' = outcome
  /\ ledger' = Append(ledger, Event(outcome, outcome = "completed" /\ Has("evidence")))
  /\ UNCHANGED <<writing, redaction>> /\ Still

\* mutant of Sanitized: completed payloads keep their citations
SanitizedText(e) == IF e.type \in {"evidence", "delta"} THEN [e EXCEPT !.hot = FALSE] ELSE e

\* _sanitize_turn_events_for_redaction
Sanitized(e) == [e EXCEPT !.hot = FALSE]

\* _redact_turns: the conversation and the turn are locked, the events listed
RedactLists ==
  /\ ~redaction.open /\ status \in {"running"} \cup Outcomes
  /\ redaction' = [open |-> TRUE, cleared |-> Len(ledger)]
  /\ UNCHANGED <<status, ledger, writing>> /\ Still

\* what was listed is cleared, whatever has been inserted since
Cleared == [i \in DOMAIN ledger |-> IF i <= redaction.cleared THEN Sanitized(ledger[i])
                                    ELSE ledger[i]]

RedactCommits ==
  /\ redaction.open /\ redaction' = [redaction EXCEPT !.open = FALSE]
  /\ status' = "redacted"
  /\ ledger' = Append(Cleared, Event("redacted", FALSE))
  /\ UNCHANGED writing /\ Still

\* the deletion that redacts the turn is rolled back
RedactFails ==
  /\ redaction.open /\ redaction' = NoRedaction
  /\ UNCHANGED <<status, ledger, writing>> /\ Still

\* delete_conversation
DeleteConversation ==
  /\ status \notin {"absent", "deleted"} /\ ~redaction.open
  /\ status' = "deleted" /\ ledger' = << >>
  /\ UNCHANGED <<writing, redaction>> /\ Still

-----------------------------------------------------------------------------
(* The response                                                            *)

Opened(after, rebuild) ==
  tail' = [NoTail EXCEPT !.pc = "load", !.cursor = after, !.rebuild = rebuild]

CallAt(pc) == call' = [call EXCEPT !.pc = pc]

\* _matching_existing_turn: the turn that this client request made
Existing == status \notin {"absent", "deleted"}

\* post_conversation_turn_stream: start_or_replay_turn inserts the turn or finds
\* the one this client request made; terminal payloads are rebuilt for the latter
ServeStart ==
  /\ call.pc = "sent" /\ call.kind = "start"
  /\ CASE status = "absent" ->
            /\ status' = "running"
            /\ ledger' = <<Event("accepted", FALSE), Event("route", FALSE)>>
            /\ UNCHANGED <<writing, redaction>>
            /\ Opened(0, FALSE) /\ CallAt("reading")
       [] Existing -> Opened(0, TRUE) /\ CallAt("reading") /\ UNCHANGED turnVars
       [] OTHER -> CallAt("failed") /\ UNCHANGED <<turnVars, tail>>
  /\ UNCHANGED <<consumer, shown, page, losses, calls>>

\* the rows' events_retained_after; _assert_event_cursor_available refuses less
RetainedAfter == 0

\* get_conversation_turn_events, stream_turn_events_by_turn
ServeEvents ==
  /\ call.pc = "sent" /\ call.kind = "events"
  /\ CASE status = "deleted" -> CallAt("failed") /\ UNCHANGED tail
       [] Len(consumer.applied) < RetainedAfter -> CallAt("refused") /\ UNCHANGED tail
       [] OTHER -> Opened(Len(consumer.applied), status # "running") /\ CallAt("reading")
  /\ UNCHANGED <<turnVars, consumer, shown, page, losses, calls>>

Close == tail' = NoTail /\ CallAt("ended")

\* _tail_turn_events: expire_all, the turn's row
Load ==
  /\ tail.pc = "load"
  /\ IF status = "deleted"
     THEN Close
     ELSE tail' = [tail EXCEPT !.pc = "list", !.seen = status] /\ UNCHANGED call
  /\ UNCHANGED <<turnVars, consumer, shown, page, losses, calls>>

RowAt(i) == [seq |-> i, type |-> ledger[i].type, hot |-> ledger[i].hot, again |-> FALSE]

\* _stored_events
List ==
  /\ tail.pc = "list"
  /\ tail' = [tail EXCEPT !.pc = IF tail.rebuild THEN "rebuild" ELSE "yield",
                          !.rows = [i \in 1..(Len(ledger) - tail.cursor)
                                      |-> RowAt(tail.cursor + i)]]
  /\ UNCHANGED <<turnVars, clientVars, losses, calls>>

\* safe_turn_summary: the refs that are not redacted, of a turn seen in a status
PublicRefs(seen) == Has("evidence") /\ seen # "redacted" /\ status # "redacted"

\* _completed_payload: of the status that was loaded, and of the evidence refs
\* as they are once they are asked for
Citable == PublicRefs(tail.seen)

\* _with_emit_replay
Rebuild ==
  /\ tail.pc = "rebuild"
  /\ LET Again(row) ==
           IF row.type \notin Outcomes THEN row
           ELSE [row EXCEPT !.again = TRUE,
                            !.hot = row.type = "completed" /\ Citable]
     IN tail' = [tail EXCEPT !.pc = "yield", !.rows = [i \in DOMAIN @ |-> Again(@[i])]]
  /\ UNCHANGED <<turnVars, clientVars, losses, calls>>

\* the consumer's answer to one event: turn-consumer.ts, receive
Digest(row) == <<row.type, row.hot, row.again>>
Receive(row) ==
  LET applied == Len(consumer.applied) IN
  CASE row.seq = applied + 1 -> "apply"
    [] row.seq > applied + 1 -> "gap"
    [] OTHER -> IF consumer.applied[row.seq] = Digest(row) THEN "ignore" ELSE "conflict"

Consumed(row) == [applied  |-> Append(consumer.applied, Digest(row)), known |-> TRUE,
                  terminal |-> consumer.terminal \/ row.type \in Terminal]

\* reduceTurnStreamEvent
Reduced(row) ==
  LET known == [shown EXCEPT !.known = TRUE] IN
  CASE row.type = "evidence"  -> [known EXCEPT !.evidence = @ \/ row.hot]
    [] row.type = "delta"     -> IF row.hot THEN [known EXCEPT !.answer = Append(@, row.seq)]
                                 ELSE known
    [] row.type = "completed" -> [known EXCEPT !.citations = row.hot, !.terminal = row.type]
    [] row.type \in {"failed", "cancelled"} -> [known EXCEPT !.terminal = row.type]
    [] row.type = "redacted"  -> [NothingShown EXCEPT !.known = TRUE, !.terminal = row.type]
    [] OTHER -> known

\* mutant of Moved: the cursor stays where the tail began
Unmoved(seq) == tail.cursor

\* cursor = event.sequence
Moved(seq) == seq

\* one event of the tail reaches the client; an event the consumer refuses ends
\* the call, to be resumed after a gap only
Yield ==
  /\ tail.pc = "yield" /\ tail.rows # << >>
  /\ LET row == Head(tail.rows) answer == Receive(row) IN
       /\ tail' = IF answer \in {"apply", "ignore"}
                  THEN [tail EXCEPT !.rows = Tail(@), !.cursor = Moved(row.seq)]
                  ELSE NoTail
       /\ call' = CASE answer = "gap" -> [call EXCEPT !.pc = "failed"]
                    [] answer = "conflict" -> [call EXCEPT !.pc = "refused"]
                    [] OTHER -> call
       /\ consumer' = IF answer = "apply" THEN Consumed(row)
                      ELSE [consumer EXCEPT !.known = TRUE]
       /\ shown' = IF answer = "apply" THEN Reduced(row) ELSE shown
  /\ UNCHANGED <<turnVars, page, losses, calls>>

\* mutants of TailIsOver: the row's status now, not the one the list was read
\* after; no deadline
TurnIsOver  == status # "running" \/ tail.late
SeenTheEnd  == tail.seen # "running"

\* idle_deadline is set once, when the tail begins
TailIsOver == tail.seen # "running" \/ tail.late

Poll ==
  /\ tail.pc = "yield" /\ tail.rows = << >>
  /\ IF TailIsOver
     THEN Close
     ELSE tail' = [tail EXCEPT !.pc = "load"] /\ UNCHANGED call
  /\ UNCHANGED <<turnVars, consumer, shown, page, losses, calls>>

DeadlinePasses ==
  /\ tail.pc # "none" /\ ~tail.late
  /\ tail' = [tail EXCEPT !.late = TRUE]
  /\ UNCHANGED <<turnVars, clientVars, losses, calls>>

-----------------------------------------------------------------------------
(* The client                                                              *)

\* the request, or the connection of its response, is lost
Lose ==
  /\ call.pc \in {"sent", "reading"}
  /\ losses < MaxLosses /\ losses' = losses + 1
  /\ CallAt("failed") /\ tail' = NoTail
  /\ UNCHANGED <<turnVars, consumer, shown, page, calls>>

Calls(kind) ==
  /\ calls < MaxCalls /\ calls' = calls + 1
  /\ call' = [pc |-> "sent", kind |-> kind, attempts |-> 0]
  /\ consumer' = NoConsumer
  /\ UNCHANGED <<turnVars, tail, page, losses>>

\* submit, also again with the same client request id while it is not known
\* whether the first was accepted
Submit ==
  /\ call.pc \in {"idle", "offline"} /\ ~shown.known
  /\ Calls("start")
  /\ shown' = NothingShown

\* retryLast of an accepted turn: a new consumer, but the projection is kept
Retry ==
  /\ call.pc = "offline" /\ shown.known
  /\ Calls("events")
  /\ UNCHANGED shown

\* conversation_turn_summaries: nothing but the status of a redacted turn
TurnDto == [status   |-> status,
            answer   |-> status = "completed",
            evidence |-> PublicRefs(status)]

\* loadConversation once the call is over
Reload ==
  /\ call.pc = "done"
  /\ CallAt("loaded")
  /\ page' = TurnDto
  /\ UNCHANGED <<turnVars, tail, consumer, shown, losses, calls>>

\* replayTurn, of a turn that was not running when the page was loaded
Replay ==
  /\ call.pc = "loaded" /\ page.status \notin {"running", "deleted"}
  /\ Calls("events")
  /\ shown' = NothingShown

Resume ==
  IF call.attempts < MaxResumes
  THEN call' = [pc |-> "sent", kind |-> "events", attempts |-> call.attempts + 1]
  ELSE CallAt("offline")

\* runResumableTurnStream after start
AfterStart ==
  /\ call.pc \in {"ended", "failed", "refused"} /\ call.attempts = 0
  /\ CASE call.pc = "refused" \/ (call.pc = "failed" /\ ~consumer.known) -> CallAt("offline")
       [] consumer.terminal -> CallAt("done")
       [] OTHER -> IF consumer.known THEN Resume ELSE CallAt("offline")
  /\ UNCHANGED <<turnVars, tail, consumer, shown, page, losses, calls>>

\* runResumableTurnStream after a resume: only a response that ended is asked
\* whether it was terminal
AfterResume ==
  /\ call.pc \in {"ended", "failed", "refused"} /\ call.attempts > 0
  /\ CASE call.pc = "refused" -> CallAt("offline")
       [] call.pc = "ended" /\ consumer.terminal -> CallAt("done")
       [] OTHER -> Resume
  /\ UNCHANGED <<turnVars, tail, consumer, shown, page, losses, calls>>

-----------------------------------------------------------------------------
Serve == ServeStart \/ ServeEvents \/ Load \/ List \/ Rebuild \/ Yield \/ Poll

Client == AfterStart \/ AfterResume

Write(w) == TestTurn(w) \/ InsertEvent(w) \/ DropEvent(w)

Redact == RedactLists \/ RedactCommits \/ RedactFails

Next ==
  \/ \E w \in Writers : Write(w)
  \/ Redact \/ DeleteConversation \/ \E o \in Outcomes : EndTurn(o)
  \/ Serve \/ DeadlinePasses \/ Lose
  \/ Submit \/ Retry \/ Replay \/ Reload \/ Client

Spec == Init /\ [][Next]_vars

\* The API and the client go on and time passes; no worker has to run, nothing
\* has to be lost and the user has to do nothing.
FairSpec == Spec /\ WF_vars(Serve) /\ WF_vars(DeadlinePasses) /\ WF_vars(Client)

-----------------------------------------------------------------------------
(* Properties                                                              *)

TypeOK ==
  /\ status \in {"absent", "running", "deleted"} \cup Terminal
  /\ \A i \in DOMAIN ledger : ledger[i].type \in Types
  /\ writing \in [Writers -> {"none", "evidence", "delta"}]
  /\ redaction \in [open : BOOLEAN, cleared : Nat]
  /\ call.pc \in {"idle", "sent", "reading", "ended", "failed", "refused", "done", "offline",
                 "loaded"}
  /\ call.attempts \in 0..MaxResumes
  /\ losses \in 0..MaxLosses /\ calls \in 0..MaxCalls

\* Whatever is appended, redacted or lost in between, every response begins
\* where the consumer stopped and repeats nothing: the consumer never meets a
\* gap, a regression or an event that has changed since it was applied.
StreamsFitTogether ==
  tail.pc = "yield" =>
    \A i \in DOMAIN tail.rows : tail.rows[i].seq = Len(consumer.applied) + i

\* A response that ends because the turn is no longer running has brought the
\* turn's terminal event, also when the turn ended between two reads of the
\* tail: the client never has to come back for it.
EndedTailsBroughtTheEnd ==
  [][tail.pc = "yield" /\ tail'.pc = "none" /\ call'.pc = "ended" /\ ~tail.late
       /\ status # "deleted" => consumer.terminal]_vars

\* A tail that has seen the redaction brings nothing of what the redaction
\* cleared, also where it rebuilds the payload of the turn's outcome.
ClearedTextStaysHidden ==
  tail.seen = "redacted" =>
    \A i \in DOMAIN tail.rows : tail.rows[i].seq <= redaction.cleared => ~tail.rows[i].hot

\* delete-redaction plan, R8: a late worker must not append another event to a
\* redacted turn.
RedactionIsLast == status = "redacted" => ledger[Len(ledger)].type = "redacted"

\* The same plan, R10: after the redaction no stream brings text of the turn back
\* (not kept: see the README).
RedactedTurnsStayHidden ==
  tail.seen = "redacted" => \A i \in DOMAIN tail.rows : ~tail.rows[i].hot

\* The page never shows citations of a completed turn without its evidence, also
\* when the turn was redacted while its events were listed and rebuilt.
CitationsHaveEvidence == shown.citations => shown.evidence

\* The page that is loaded after a stream has shown how the turn ended shows the
\* same end, unless the turn was redacted or deleted meanwhile.
OutcomesAgree ==
  call.pc = "loaded" /\ shown.terminal \in Outcomes =>
    page.status \in {shown.terminal, "redacted", "deleted"}

\* A call ends, with the outcome or offline, also when no worker ever runs the
\* turn or the turn is deleted.
EveryCallEnds == call.pc \in {"sent", "reading"} ~> call.pc \in {"done", "offline"}

\* sse-event-catalog, "User retry continues from the same applied cursor": what
\* was applied before going offline is not applied again.
RetryContinues ==
  \A i, j \in DOMAIN shown.answer : i # j => shown.answer[i] # shown.answer[j]

\* sse-event-catalog, turn.completed: "persist completed projection and stop
\* reconnect".
EndedTurnsStopReconnecting ==
  [][call.pc \in {"ended", "failed"} /\ consumer.terminal => call'.pc # "sent"]_vars
=============================================================================
