-------------------------- MODULE TurnStreamProofs --------------------------
(***************************************************************************)
(* Proofs about TurnStream for a turn of any length and any number of      *)
(* resumes, losses and calls: every response continues where the consumer  *)
(* stopped, a tail that has seen a redaction shows nothing of what it       *)
(* cleared, and a tail that ends because the turn ended has brought its end. *)
(***************************************************************************)
EXTENDS TurnStream, TLAPS

Statuses == {"absent", "running", "deleted"} \cup Terminal
Events   == [type : Types, hot : BOOLEAN]
Rows     == [seq : Nat, type : Types, hot : BOOLEAN, again : BOOLEAN]
TailPcs  == {"none", "load", "list", "rebuild", "yield"}
CallPcs  == {"idle", "sent", "reading", "ended", "failed", "refused", "done", "offline",
             "loaded"}

Tails     == [pc : TailPcs, cursor : Nat, rebuild : BOOLEAN, seen : Statuses,
              rows : Seq(Rows), late : BOOLEAN]
CallRows  == [pc : CallPcs, kind : {"start", "events"}, attempts : 0..MaxResumes]
Consumers == [applied : Seq(Types \X BOOLEAN \X BOOLEAN), known : BOOLEAN, terminal : BOOLEAN]

Typed == /\ status \in Statuses
         /\ ledger \in Seq(Events)
         /\ writing \in [Writers -> {"none", "evidence", "delta"}]
         /\ redaction \in [open : BOOLEAN, cleared : Nat]
         /\ tail \in Tails
         /\ call \in CallRows
         /\ consumer \in Consumers
         /\ losses \in 0..MaxLosses /\ calls \in 0..MaxCalls

\* What the redaction cleared is there and has no text.
ClearedIsCold == /\ redaction.cleared <= Len(ledger)
                 /\ \A k \in 1..Len(ledger) : k <= redaction.cleared => ~ledger[k].hot

\* What the turn's status, and a redaction under way, say of its ledger.
Turn ==
    /\ status \in Terminal => \E k \in 1..Len(ledger) : ledger[k].type \in Terminal
    /\ status = "redacted" => ClearedIsCold
    /\ redaction.open => status \in {"running"} \cup Outcomes /\ redaction.cleared <= Len(ledger)
    /\ status \in {"absent", "deleted"} => ledger = << >>

\* Before the turn is inserted nobody reads it, and the client only ever starts it.
Untouched ==
    status = "absent" =>
        /\ tail.pc = "none" /\ call.kind = "start" /\ call.attempts = 0
        /\ call.pc \notin {"reading", "done", "loaded"}
        /\ ~shown.known /\ ~consumer.known /\ ~consumer.terminal
        /\ \A w \in Writers : writing[w] = "none"

\* The consumer has applied a prefix of the ledger, and knows of the end in it.
Applied ==
    status # "deleted" =>
        /\ Len(consumer.applied) <= Len(ledger)
        /\ \A k \in 1..Len(ledger) :
             k <= Len(consumer.applied) /\ ledger[k].type \in Terminal => consumer.terminal

\* The cursor of the tail is the consumer's, and the rows it holds follow on it.
Tailing ==
    /\ tail.pc = "none" => tail = NoTail
    /\ tail.pc # "none" => tail.cursor = Len(consumer.applied) /\ call.pc = "reading"
    /\ tail.pc \in {"none", "load", "list"} => tail.rows = << >>
    /\ \A i \in 1..Len(tail.rows) : tail.rows[i].seq = tail.cursor + i
    /\ call.pc = "sent" /\ call.kind = "start" => consumer.applied = << >>

\* The rows are the ledger's, and a tail that has seen the end lists it.
Listed ==
    status # "deleted" =>
        /\ \A i \in 1..Len(tail.rows) : /\ tail.rows[i].seq \in 1..Len(ledger)
                                        /\ tail.rows[i].type = ledger[tail.rows[i].seq].type
        /\ tail.pc \in {"rebuild", "yield"} /\ tail.seen # "running" =>
             \E k \in 1..Len(ledger) :
               k <= tail.cursor + Len(tail.rows) /\ ledger[k].type \in Terminal

\* What the tail has seen of the turn lasts.
Seen ==
    /\ tail.pc \in {"list", "rebuild", "yield"} /\ tail.seen # "running" =>
         status \in Terminal \cup {"deleted"}
    /\ tail.pc \in {"list", "rebuild", "yield"} /\ tail.seen = "redacted" =>
         status \in {"redacted", "deleted"}
    /\ tail.seen = "redacted" =>
         \A i \in 1..Len(tail.rows) : tail.rows[i].seq <= redaction.cleared => ~tail.rows[i].hot

Inv == Typed /\ Turn /\ Untouched /\ Applied /\ Tailing /\ Listed /\ Seen

---------------------------------------------------------------------------
\* What the formulas of TurnStream say in the terms of the invariant.

LEMMA NoTailTyped == NoTail \in Tails /\ NoTail.pc = "none" /\ NoTail.rows = << >>
                     /\ NoTail.seen = "running"
<1>1. << >> \in Seq(Rows)
  OBVIOUS
<1> QED BY <1>1 DEF NoTail, Tails, TailPcs, Statuses

LEMMA NoConsumerTyped == NoConsumer \in Consumers /\ NoConsumer.applied = << >>
                         /\ NoConsumer.known = FALSE /\ NoConsumer.terminal = FALSE
<1>1. << >> \in Seq(Types \X BOOLEAN \X BOOLEAN)
  OBVIOUS
<1> QED BY <1>1 DEF NoConsumer, Consumers

LEMMA InvGives == Inv => TypeOK /\ StreamsFitTogether /\ ClearedTextStaysHidden
<1> SUFFICES ASSUME Inv PROVE TypeOK /\ StreamsFitTogether /\ ClearedTextStaysHidden
  OBVIOUS
<1>1. tail.rows \in Seq(Rows)
  BY DEF Inv, Typed, Tails
<1>2. DOMAIN tail.rows = 1..Len(tail.rows)
  BY <1>1
<1>3. TypeOK
  <2>1. \A i \in DOMAIN ledger : ledger[i] \in Events
    BY DEF Inv, Typed
  <2>2. call.pc \in CallPcs /\ call.attempts \in 0..MaxResumes
    BY DEF Inv, Typed, CallRows
  <2> QED BY <2>1, <2>2 DEF Inv, Typed, TypeOK, Statuses, Events, CallPcs
<1>4. StreamsFitTogether
  BY <1>2 DEF Inv, Tailing, StreamsFitTogether
<1>5. ClearedTextStaysHidden
  BY <1>2 DEF Inv, Seen, ClearedTextStaysHidden
<1> QED BY <1>3, <1>4, <1>5

LEMMA InitInv == Init => Inv
<1> SUFFICES ASSUME Init PROVE Inv
  OBVIOUS
<1>1. Typed
  <2>1. [pc |-> "idle", kind |-> "start", attempts |-> 0] \in CallRows
    BY StreamConstants DEF CallRows, CallPcs
  <2>2. ledger \in Seq(Events)
    BY DEF Init
  <2> QED BY <2>1, <2>2, NoTailTyped, NoConsumerTyped, StreamConstants
      DEF Init, Typed, Statuses, NoRedaction
<1>2. Len(ledger) = 0 /\ ledger = << >> /\ consumer.applied = << >> /\ Len(consumer.applied) = 0
  BY NoConsumerTyped DEF Init
<1>3. Turn /\ Untouched /\ Applied
  BY <1>2, NoTailTyped, NoConsumerTyped DEF Init, Turn, Untouched, Applied, Terminal, Outcomes,
     NothingShown, NoRedaction
<1>4. Tailing /\ Listed /\ Seen
  <2>1. tail = NoTail /\ tail.rows = << >> /\ Len(tail.rows) = 0
    BY NoTailTyped DEF Init
  <2> QED BY <2>1, <1>2, NoTailTyped DEF Init, Tailing, Listed, Seen
<1> QED BY <1>1, <1>3, <1>4 DEF Inv

---------------------------------------------------------------------------
\* The turn: steps that append to the ledger, and the deletion.

Reader == <<tail, call, consumer, shown, losses, calls>>

\* The ledger grows by one event and keeps the types of the others.
Grown == /\ ledger' \in Seq(Events)
         /\ Len(ledger') = Len(ledger) + 1
         /\ \A k \in 1..Len(ledger) : ledger'[k].type = ledger[k].type

LEMMA LedgerGrows ==
    ASSUME Inv, UNCHANGED Reader, Grown, Turn',
           status \notin {"absent", "deleted"}, status' \in Statuses \ {"absent", "deleted"},
           writing' \in [Writers -> {"none", "evidence", "delta"}],
           redaction' \in [open : BOOLEAN, cleared : Nat], redaction'.cleared = redaction.cleared,
           status = "running" \/ status' = "redacted" \/ status' = status
    PROVE  Inv'
<1>1. UNCHANGED <<tail, call, consumer, shown, losses, calls>>
  BY DEF Reader
<1>2. /\ tail \in Tails /\ tail.rows \in Seq(Rows) /\ tail.cursor \in Nat
      /\ consumer.applied \in Seq(Types \X BOOLEAN \X BOOLEAN) /\ ledger \in Seq(Events)
  BY DEF Inv, Typed, Tails, Consumers
<1>3. Len(tail.rows) \in Nat /\ Len(consumer.applied) \in Nat /\ Len(ledger) \in Nat
  BY <1>2
<1>4. Typed'
  BY <1>1 DEF Inv, Typed, Grown
<1>5. Untouched'
  BY DEF Untouched
<1>6. Applied'
  BY <1>1, <1>3 DEF Inv, Applied, Grown
<1>7. Tailing'
  BY <1>1 DEF Inv, Tailing
<1>8. Listed'
  <2>1. \A i \in 1..Len(tail.rows) : /\ tail.rows[i].seq \in 1..Len(ledger')
                                     /\ tail.rows[i].type = ledger'[tail.rows[i].seq].type
    <3> SUFFICES ASSUME NEW i \in 1..Len(tail.rows)
                 PROVE  /\ tail.rows[i].seq \in 1..Len(ledger')
                        /\ tail.rows[i].type = ledger'[tail.rows[i].seq].type
      OBVIOUS
    <3>1. tail.rows[i].seq \in 1..Len(ledger)
      BY DEF Inv, Listed
    <3>2. tail.rows[i].type = ledger[tail.rows[i].seq].type
      BY DEF Inv, Listed
    <3>3. Len(ledger') = Len(ledger) + 1
      BY DEF Grown
    <3>4. tail.rows[i].seq \in 1..Len(ledger')
      BY <1>3, <3>1, <3>3
    <3> QED BY <3>1, <3>2, <3>4 DEF Grown
  <2>2. tail.pc \in {"rebuild", "yield"} /\ tail.seen # "running" =>
             \E k \in 1..Len(ledger') :
               k <= tail.cursor + Len(tail.rows) /\ ledger'[k].type \in Terminal
    <3> SUFFICES ASSUME tail.pc \in {"rebuild", "yield"}, tail.seen # "running"
                 PROVE  \E k \in 1..Len(ledger') :
                          k <= tail.cursor + Len(tail.rows) /\ ledger'[k].type \in Terminal
      OBVIOUS
    <3>1. PICK k \in 1..Len(ledger) :
            k <= tail.cursor + Len(tail.rows) /\ ledger[k].type \in Terminal
      BY DEF Inv, Listed
    <3>2. k \in 1..Len(ledger')
      BY <1>3, <3>1 DEF Grown
    <3>3. ledger'[k].type \in Terminal
      BY <3>1 DEF Grown
    <3> QED BY <3>1, <3>2, <3>3
  <2> QED BY <1>1, <2>1, <2>2 DEF Listed
<1>9. Seen'
  BY <1>1 DEF Inv, Seen, Terminal, Outcomes
<1> QED BY <1>4, <1>5, <1>6, <1>7, <1>8, <1>9 DEF Inv

LEMMA AppendedGrows ==
    ASSUME ledger \in Seq(Events), NEW e \in Events, ledger' = Append(ledger, e)
    PROVE  /\ Grown
           /\ ledger'[Len(ledger) + 1] = e
           /\ \A k \in 1..Len(ledger) : ledger'[k] = ledger[k]
<1>1. Append(ledger, e) \in Seq(Events)
  OBVIOUS
<1>2. Len(Append(ledger, e)) = Len(ledger) + 1
  OBVIOUS
<1>3. \A k \in 1..Len(ledger) : Append(ledger, e)[k] = ledger[k]
  OBVIOUS
<1>4. Append(ledger, e)[Len(ledger) + 1] = e
  OBVIOUS
<1> QED BY <1>1, <1>2, <1>3, <1>4 DEF Grown

LEMMA InsertEventKeeps ==
    ASSUME Inv, NEW w \in Writers, InsertEvent(w) PROVE Inv'
<1>1. /\ status' = status /\ redaction' = redaction /\ UNCHANGED Reader
      /\ writing' = [writing EXCEPT ![w] = "none"]
  BY DEF InsertEvent, Still, clientVars, Reader
<1>2. status \notin {"absent", "deleted"} /\ status \in Statuses
  BY DEF InsertEvent, Inv, Untouched, Typed
<1>3. PICK e \in Events : ledger' = Append(ledger, e)
  <2>1. writing[w] \in {"evidence", "delta"}
    BY DEF InsertEvent, Inv, Typed
  <2>2. EvidenceEvent \in Events /\ Event("delta", TRUE) \in Events
    BY DEF EvidenceEvent, Event, Events, Types
  <2> QED BY <2>1, <2>2 DEF InsertEvent
<1>4. ledger \in Seq(Events) /\ Len(ledger) \in Nat /\ redaction.cleared \in Nat
  BY DEF Inv, Typed
<1>5. Grown /\ \A k \in 1..Len(ledger) : ledger'[k] = ledger[k]
  BY <1>3, <1>4, AppendedGrows
<1>6. Turn'
  <2>1. Len(ledger') = Len(ledger) + 1
    BY <1>5 DEF Grown
  <2>2. status \in Terminal => \E k \in 1..Len(ledger') : ledger'[k].type \in Terminal
    BY <1>4, <1>5, <2>1 DEF Inv, Turn
  <2>3. status = "redacted" => ClearedIsCold'
    BY <1>1, <1>4, <1>5, <2>1 DEF Inv, Turn, ClearedIsCold
  <2>4. redaction.open => /\ status \in {"running"} \cup Outcomes
                          /\ redaction.cleared <= Len(ledger')
    BY <1>4, <2>1 DEF Inv, Turn
  <2> QED BY <1>1, <1>2, <2>2, <2>3, <2>4 DEF Turn
<1>7. /\ writing' \in [Writers -> {"none", "evidence", "delta"}]
      /\ redaction' \in [open : BOOLEAN, cleared : Nat] /\ redaction'.cleared = redaction.cleared
  BY <1>1 DEF Inv, Typed
<1> QED BY <1>1, <1>2, <1>5, <1>6, <1>7, LedgerGrows

LEMMA EndTurnKeeps ==
    ASSUME Inv, NEW o \in Outcomes, EndTurn(o) PROVE Inv'
<1>1. /\ status = "running" /\ status' = o /\ UNCHANGED Reader
      /\ ~redaction.open /\ writing' = writing /\ redaction' = redaction
  BY DEF EndTurn, MayEnd, Still, clientVars, Reader
<1> DEFINE e == Event(o, o = "completed" /\ Has("evidence"))
<1>2. e \in Events /\ e.type = o
  BY DEF Event, Events, Types, Terminal
<1>3. ledger' = Append(ledger, e)
  BY DEF EndTurn
<1> HIDE DEF e
<1>4. ledger \in Seq(Events) /\ Len(ledger) \in Nat
  BY DEF Inv, Typed
<1>5. Grown /\ ledger'[Len(ledger) + 1] = e
  BY <1>2, <1>3, <1>4, AppendedGrows
<1>6. Turn'
  <2>1. Len(ledger) + 1 \in 1..Len(ledger')
    BY <1>4, <1>5 DEF Grown
  <2>2. ledger'[Len(ledger) + 1].type \in Terminal
    BY <1>2, <1>5 DEF Terminal
  <2>3. status' # "redacted" /\ status' \notin {"absent", "deleted"} /\ ~redaction'.open
    BY <1>1 DEF Outcomes
  <2> QED BY <2>1, <2>2, <2>3 DEF Turn
<1>7. /\ writing' \in [Writers -> {"none", "evidence", "delta"}]
      /\ redaction' \in [open : BOOLEAN, cleared : Nat] /\ redaction'.cleared = redaction.cleared
  BY <1>1 DEF Inv, Typed
<1> QED BY <1>1, <1>5, <1>6, <1>7, LedgerGrows DEF Statuses, Outcomes, Terminal

LEMMA RedactCommitsKeeps == Inv /\ RedactCommits => Inv'
<1> SUFFICES ASSUME Inv, RedactCommits PROVE Inv'
  OBVIOUS
<1> DEFINE e == Event("redacted", FALSE)
<1>1. /\ redaction.open /\ status' = "redacted" /\ writing' = writing /\ UNCHANGED Reader
      /\ redaction' = [redaction EXCEPT !.open = FALSE] /\ ledger' = Append(Cleared, e)
  BY DEF RedactCommits, Still, clientVars, Reader
<1>2. /\ redaction \in [open : BOOLEAN, cleared : Nat]
      /\ ledger \in Seq(Events) /\ Len(ledger) \in Nat
  BY DEF Inv, Typed
<1>3. /\ redaction' \in [open : BOOLEAN, cleared : Nat]
      /\ redaction'.cleared = redaction.cleared /\ ~redaction'.open
  BY <1>1, <1>2
<1>4. status \notin {"absent", "deleted"} /\ redaction.cleared <= Len(ledger)
  BY <1>1 DEF Inv, Turn, Outcomes
<1>5. e \in Events /\ e.type = "redacted"
  BY DEF Event, Events, Types, Terminal
<1>6. \A i \in 1..Len(ledger) :
        /\ Cleared[i] \in Events /\ Cleared[i].type = ledger[i].type
        /\ i <= redaction.cleared => ~Cleared[i].hot
  <2> SUFFICES ASSUME NEW i \in 1..Len(ledger)
               PROVE  /\ Cleared[i] \in Events /\ Cleared[i].type = ledger[i].type
                      /\ i <= redaction.cleared => ~Cleared[i].hot
    OBVIOUS
  <2>1. ledger[i] \in Events
    BY <1>2
  <2>2. Cleared[i] = IF i <= redaction.cleared THEN Sanitized(ledger[i]) ELSE ledger[i]
    BY <1>2 DEF Cleared
  <2>3. \A f \in Events : /\ Sanitized(f) \in Events
                          /\ Sanitized(f).type = f.type /\ Sanitized(f).hot = FALSE
    BY DEF Sanitized, Events
  <2> QED BY <2>1, <2>2, <2>3
<1>7. Cleared \in Seq(Events) /\ Len(Cleared) = Len(ledger)
  <2>1. DOMAIN Cleared = 1..Len(ledger)
    BY <1>2 DEF Cleared
  <2>2. Cleared = [i \in 1..Len(ledger) |-> Cleared[i]]
    BY <2>1 DEF Cleared
  <2>3. Cleared \in [1..Len(ledger) -> Events]
    BY <1>6, <2>2
  <2> QED BY <1>2, <2>3
<1> HIDE DEF e
<1>8. /\ Len(ledger') = Len(ledger) + 1 /\ ledger' \in Seq(Events)
      /\ \A k \in 1..Len(ledger) : ledger'[k] = Cleared[k]
      /\ ledger'[Len(ledger) + 1] = e
  BY <1>1, <1>5, <1>7
<1>9. Grown
  BY <1>6, <1>8 DEF Grown
<1>10. Turn'
  <2>1. ClearedIsCold'
    <3>1. \A k \in 1..Len(ledger') : k <= redaction.cleared => ~ledger'[k].hot
      BY <1>2, <1>4, <1>6, <1>8
    <3>2. redaction.cleared <= Len(ledger')
      BY <1>2, <1>4, <1>8
    <3> QED BY <1>3, <3>1, <3>2 DEF ClearedIsCold
  <2>2. Len(ledger) + 1 \in 1..Len(ledger') /\ ledger'[Len(ledger) + 1].type \in Terminal
    BY <1>2, <1>5, <1>8 DEF Terminal
  <2> QED BY <1>1, <1>3, <2>1, <2>2 DEF Turn
<1>11. writing' \in [Writers -> {"none", "evidence", "delta"}]
  BY <1>1 DEF Inv, Typed
<1> QED BY <1>1, <1>3, <1>4, <1>9, <1>10, <1>11, LedgerGrows DEF Statuses, Terminal

\* Steps of the workers and of a redaction that write nothing of the turn.
LEMMA TurnWaits ==
    ASSUME Inv,
           (\E w \in Writers : TestTurn(w) \/ DropEvent(w)) \/ RedactLists \/ RedactFails
    PROVE  Inv'
<1>1. status' = status /\ ledger' = ledger /\ UNCHANGED <<tail, call, consumer, shown, losses, calls>>
  BY DEF TestTurn, DropEvent, RedactLists, RedactFails, Still, clientVars
<1>2. /\ writing \in [Writers -> {"none", "evidence", "delta"}]
      /\ redaction \in [open : BOOLEAN, cleared : Nat]
      /\ ledger \in Seq(Events) /\ Len(ledger) \in Nat
  BY DEF Inv, Typed
<1>3. \/ writing' = writing
      \/ \E w \in Writers : writing' = [writing EXCEPT ![w] = "none"]
      \/ status = "running" /\ \E w \in Writers, type \in {"evidence", "delta"} :
                                  writing' = [writing EXCEPT ![w] = type]
  BY DEF TestTurn, DropEvent, RedactLists, RedactFails
<1>4. writing' \in [Writers -> {"none", "evidence", "delta"}]
  BY <1>2, <1>3
<1>5. \/ redaction' = redaction
      \/ /\ status \in {"running"} \cup Outcomes
         /\ redaction' \in [open : BOOLEAN, cleared : Nat]
         /\ redaction'.cleared <= Len(ledger)
  <2>1. CASE \E w \in Writers : TestTurn(w) \/ DropEvent(w)
    BY <2>1 DEF TestTurn, DropEvent
  <2>2. CASE RedactLists
    BY <1>2, <2>2 DEF RedactLists
  <2>3. CASE RedactFails
    BY <1>2, <2>3 DEF RedactFails, NoRedaction, Inv, Turn
  <2> QED BY <2>1, <2>2, <2>3
<1>6. redaction' \in [open : BOOLEAN, cleared : Nat]
  BY <1>2, <1>5
<1>7. Typed'
  BY <1>1, <1>4, <1>6 DEF Inv, Typed
<1>8. Turn'
  <2>1. CASE redaction' = redaction
    BY <1>1, <2>1 DEF Inv, Turn, ClearedIsCold
  <2>2. CASE redaction' # redaction
    BY <1>1, <1>5, <2>2 DEF Inv, Turn, Outcomes
  <2> QED BY <2>1, <2>2
<1>9. Untouched'
  BY <1>1, <1>2, <1>3 DEF Inv, Untouched
<1>10. Applied' /\ Tailing' /\ Listed'
  BY <1>1 DEF Inv, Applied, Tailing, Listed
<1>11. Seen'
  <2>1. CASE redaction' = redaction
    BY <1>1, <2>1 DEF Inv, Seen
  <2>2. CASE redaction' # redaction
    <3>1. status \notin {"redacted", "deleted"}
      BY <1>5, <2>2 DEF Outcomes
    <3>2. tail.seen = "redacted" => tail.rows = << >>
      BY <3>1 DEF Inv, Seen, Tailing, Typed, Tails, TailPcs
    <3>3. tail.seen = "redacted" => Len(tail.rows) = 0
      BY <3>2
    <3> QED BY <1>1, <3>3 DEF Inv, Seen
  <2> QED BY <2>1, <2>2
<1> QED BY <1>7, <1>8, <1>9, <1>10, <1>11 DEF Inv

LEMMA WriteKeeps ==
    ASSUME Inv, NEW w \in Writers, Write(w) PROVE Inv'
BY InsertEventKeeps, TurnWaits DEF Write

LEMMA RedactKeeps == Inv /\ Redact => Inv'
BY RedactCommitsKeeps, TurnWaits DEF Redact

LEMMA DeleteKeeps == Inv /\ DeleteConversation => Inv'
<1> SUFFICES ASSUME Inv, DeleteConversation PROVE Inv'
  OBVIOUS
<1>1. /\ status' = "deleted" /\ ledger' = << >> /\ UNCHANGED Reader
      /\ writing' = writing /\ redaction' = redaction /\ ~redaction.open
  BY DEF DeleteConversation, Still, clientVars, Reader
<1>2. UNCHANGED <<tail, call, consumer, shown, losses, calls>>
  BY <1>1 DEF Reader
<1>3. Typed'
  <2>1. ledger' \in Seq(Events) /\ status' \in Statuses
    BY <1>1 DEF Statuses
  <2> QED BY <1>1, <1>2, <2>1 DEF Inv, Typed
<1>4. Turn' /\ Untouched' /\ Applied' /\ Listed'
  BY <1>1 DEF Turn, Untouched, Applied, Listed, Terminal, Outcomes
<1>5. Tailing'
  BY <1>2 DEF Inv, Tailing
<1>6. Seen'
  BY <1>1, <1>2 DEF Inv, Seen
<1> QED BY <1>3, <1>4, <1>5, <1>6 DEF Inv

---------------------------------------------------------------------------
\* The client: steps after which no response is under way.

TurnSame == /\ status' = status /\ ledger' = ledger
            /\ writing' = writing /\ redaction' = redaction

LEMMA CallMoves ==
    ASSUME call \in CallRows, NEW pc \in CallPcs, CallAt(pc)
    PROVE  /\ call' \in CallRows /\ call'.pc = pc
           /\ call'.kind = call.kind /\ call'.attempts = call.attempts
BY DEF CallAt, CallRows

LEMMA Closed ==
    ASSUME Inv, UNCHANGED turnVars, tail' = NoTail, call' \in CallRows,
           consumer' = consumer \/ consumer' = NoConsumer,
           call'.pc = "sent" /\ call'.kind = "start" => consumer'.applied = << >>,
           status = "absent" => /\ call'.kind = "start" /\ call'.attempts = 0
                                /\ call'.pc \notin {"reading", "done", "loaded"}
                                /\ ~shown'.known,
           losses' \in 0..MaxLosses, calls' \in 0..MaxCalls
    PROVE  Inv'
<1>1. TurnSame
  BY DEF turnVars, TurnSame
<1>2. tail' \in Tails /\ tail'.pc = "none" /\ tail'.rows = << >> /\ tail'.seen = "running"
  BY NoTailTyped
<1>3. Len(tail'.rows) = 0
  BY <1>2
<1>4. Typed'
  BY <1>1, <1>2, NoConsumerTyped DEF Inv, Typed, TurnSame
<1>5. Turn'
  BY <1>1 DEF Inv, Turn, ClearedIsCold, TurnSame
<1>6. Untouched'
  BY <1>1, <1>2, NoConsumerTyped DEF Inv, Untouched, TurnSame
<1>7. Applied'
  <2>1. CASE consumer' = consumer
    BY <1>1, <2>1 DEF Inv, Applied, TurnSame
  <2>2. CASE consumer' = NoConsumer
    <3>1. Len(consumer'.applied) = 0
      BY <2>2, NoConsumerTyped
    <3>2. Len(ledger) \in Nat
      BY DEF Inv, Typed
    <3> QED BY <1>1, <3>1, <3>2 DEF Applied, TurnSame
  <2> QED BY <2>1, <2>2
<1>8. Tailing' /\ Listed' /\ Seen'
  BY <1>2, <1>3 DEF Tailing, Listed, Seen
<1> QED BY <1>4, <1>5, <1>6, <1>7, <1>8 DEF Inv

LEMMA NobodyReads == Inv /\ call.pc # "reading" => tail = NoTail
BY DEF Inv, Tailing

\* The call comes to a halt and its consumer keeps what it has.
LEMMA Halts ==
    ASSUME Inv, UNCHANGED <<turnVars, consumer, shown, losses, calls>>,
           NEW pc \in CallPcs \ {"sent", "reading"}, CallAt(pc),
           tail' = NoTail \/ (tail' = tail /\ call.pc # "reading"),
           status = "absent" => pc \notin {"done", "loaded"}
    PROVE  Inv'
<1>1. call' \in CallRows /\ call'.pc = pc /\ call'.kind = call.kind /\ call'.attempts = call.attempts
  BY CallMoves DEF Inv, Typed
<1>2. tail' = NoTail
  BY NobodyReads
<1>3. losses' \in 0..MaxLosses /\ calls' \in 0..MaxCalls
  BY DEF Inv, Typed
<1>4. status = "absent" => /\ call'.kind = "start" /\ call'.attempts = 0
                           /\ call'.pc \notin {"reading", "done", "loaded"}
                           /\ ~shown'.known
  BY <1>1 DEF Inv, Untouched
<1> QED BY <1>1, <1>2, <1>3, <1>4, Closed

LEMMA LoseKeeps == Inv /\ Lose => Inv'
<1> SUFFICES ASSUME Inv, Lose PROVE Inv'
  OBVIOUS
<1>1. /\ UNCHANGED <<turnVars, consumer, shown, calls>> /\ tail' = NoTail /\ CallAt("failed")
      /\ losses < MaxLosses /\ losses' = losses + 1
  BY DEF Lose
<1>2. /\ call' \in CallRows /\ call'.pc = "failed"
      /\ call'.kind = call.kind /\ call'.attempts = call.attempts
  BY <1>1, CallMoves DEF Inv, Typed, CallPcs
<1>3. losses' \in 0..MaxLosses /\ calls' \in 0..MaxCalls
  BY <1>1, StreamConstants DEF Inv, Typed
<1>4. status = "absent" => /\ call'.kind = "start" /\ call'.attempts = 0
                           /\ call'.pc \notin {"reading", "done", "loaded"}
                           /\ ~shown'.known
  BY <1>1, <1>2 DEF Inv, Untouched
<1> QED BY <1>1, <1>2, <1>3, <1>4, Closed

\* A new call of the user begins with a new consumer.
LEMMA Called ==
    ASSUME Inv, NEW kind \in {"start", "events"}, Calls(kind), call.pc # "reading",
           status = "absent" => kind = "start" /\ ~shown'.known
    PROVE  Inv'
<1>1. /\ UNCHANGED <<turnVars, tail, losses>> /\ consumer' = NoConsumer
      /\ call' = [pc |-> "sent", kind |-> kind, attempts |-> 0]
      /\ calls < MaxCalls /\ calls' = calls + 1
  BY DEF Calls
<1>2. call' \in CallRows /\ call'.pc = "sent" /\ call'.kind = kind /\ call'.attempts = 0
  BY <1>1, StreamConstants DEF CallRows, CallPcs
<1>3. losses' \in 0..MaxLosses /\ calls' \in 0..MaxCalls
  BY <1>1, StreamConstants DEF Inv, Typed
<1>4. tail' = NoTail
  BY <1>1, NobodyReads
<1> QED BY <1>1, <1>2, <1>3, <1>4, NoConsumerTyped, Closed

LEMMA UserKeeps == Inv /\ (Submit \/ Retry \/ Replay \/ Reload) => Inv'
<1> SUFFICES ASSUME Inv, Submit \/ Retry \/ Replay \/ Reload PROVE Inv'
  OBVIOUS
<1>1. CASE Submit
  BY <1>1, Called DEF Submit, NothingShown
<1>2. CASE Retry
  <2>1. status # "absent"
    BY <1>2 DEF Inv, Untouched, Retry
  <2> QED BY <1>2, <2>1, Called DEF Retry
<1>3. CASE Replay
  <2>1. status # "absent"
    BY <1>3 DEF Inv, Untouched, Replay
  <2> QED BY <1>3, <2>1, Called DEF Replay
<1>4. CASE Reload
  <2>1. status # "absent"
    BY <1>4 DEF Inv, Untouched, Reload
  <2>2. "loaded" \in CallPcs \ {"sent", "reading"}
    BY DEF CallPcs
  <2> QED BY <1>4, <2>1, <2>2, Halts DEF Reload
<1> QED BY <1>1, <1>2, <1>3, <1>4

LEMMA ResumeKeeps ==
    ASSUME Inv, Resume, UNCHANGED <<turnVars, tail, consumer, shown, losses, calls>>,
           call.pc \in {"ended", "failed", "refused"}, status # "absent"
    PROVE  Inv'
<1>1. CASE call.attempts < MaxResumes
  <2>1. call' = [pc |-> "sent", kind |-> "events", attempts |-> call.attempts + 1]
    BY <1>1 DEF Resume
  <2>2. call.attempts + 1 \in 0..MaxResumes
    BY <1>1, StreamConstants DEF Inv, Typed, CallRows
  <2>3. call' \in CallRows /\ call'.kind = "events"
    BY <2>1, <2>2 DEF CallRows, CallPcs
  <2>4. tail' = NoTail /\ losses' \in 0..MaxLosses /\ calls' \in 0..MaxCalls
    BY NobodyReads DEF Inv, Typed
  <2> QED BY <2>3, <2>4, Closed
<1>2. CASE ~(call.attempts < MaxResumes)
  <2>1. CallAt("offline") /\ "offline" \in CallPcs \ {"sent", "reading"}
    BY <1>2 DEF Resume, CallPcs
  <2> QED BY <2>1, Halts
<1> QED BY <1>1, <1>2

LEMMA ClientKeeps == Inv /\ Client => Inv'
<1> SUFFICES ASSUME Inv, Client PROVE Inv'
  OBVIOUS
<1>1. /\ UNCHANGED <<turnVars, tail, consumer, shown, losses, calls>>
      /\ call.pc \in {"ended", "failed", "refused"}
  BY DEF Client, AfterStart, AfterResume
<1>2. \/ CallAt("offline")
      \/ CallAt("done") /\ status # "absent"
      \/ Resume /\ status # "absent"
  <2>1. CASE AfterStart
    <3>1. status = "absent" => ~consumer.terminal /\ ~consumer.known
      BY DEF Inv, Untouched
    <3> QED BY <2>1, <3>1 DEF AfterStart
  <2>2. CASE AfterResume
    <3>1. status # "absent"
      BY <2>2, StreamConstants DEF Inv, Untouched, AfterResume
    <3> QED BY <2>2, <3>1 DEF AfterResume
  <2> QED BY <2>1, <2>2 DEF Client
<1>3. {"offline", "done"} \subseteq CallPcs \ {"sent", "reading"}
  BY DEF CallPcs
<1>4. CASE CallAt("offline")
  BY <1>1, <1>3, <1>4, Halts
<1>5. CASE CallAt("done") /\ status # "absent"
  BY <1>1, <1>3, <1>5, Halts
<1>6. CASE Resume /\ status # "absent"
  BY <1>1, <1>6, ResumeKeeps
<1> QED BY <1>2, <1>4, <1>5, <1>6

---------------------------------------------------------------------------
\* The response.

LEMMA Opens ==
    ASSUME Inv, NEW rebuild \in BOOLEAN, Opened(Len(consumer.applied), rebuild),
           CallAt("reading"), UNCHANGED <<consumer, shown, losses, calls>>,
           status' \in Statuses \ {"absent"}, ledger' \in Seq(Events), Turn', Applied',
           writing' = writing, redaction' = redaction
    PROVE  Inv'
<1> DEFINE after == Len(consumer.applied)
<1>1. after \in Nat
  BY DEF Inv, Typed, Consumers
<1>2. tail' = [NoTail EXCEPT !.pc = "load", !.cursor = after, !.rebuild = rebuild]
  BY DEF Opened
<1> HIDE DEF after
<1>3. /\ tail' \in Tails /\ tail'.pc = "load" /\ tail'.rows = << >> /\ tail'.cursor = after
      /\ tail'.seen = "running"
  <2>1. << >> \in Seq(Rows)
    OBVIOUS
  <2> QED BY <1>1, <1>2, <2>1 DEF NoTail, Tails, TailPcs, Statuses
<1>4. /\ call' \in CallRows /\ call'.pc = "reading"
      /\ call'.kind = call.kind /\ call'.attempts = call.attempts
  BY CallMoves DEF Inv, Typed, CallPcs
<1>5. Typed'
  BY <1>3, <1>4 DEF Inv, Typed
<1>6. Untouched'
  BY DEF Untouched
<1>7. Tailing' /\ Listed' /\ Seen'
  <2>1. Len(tail'.rows) = 0
    BY <1>3
  <2> QED BY <1>3, <1>4, <2>1 DEF Tailing, Listed, Seen, after
<1> QED BY <1>5, <1>6, <1>7 DEF Inv

LEMMA ServeStartKeeps == Inv /\ ServeStart => Inv'
<1> SUFFICES ASSUME Inv, ServeStart PROVE Inv'
  OBVIOUS
<1>1. /\ UNCHANGED <<consumer, shown, losses, calls>>
      /\ call.pc = "sent" /\ consumer.applied = << >>
  BY DEF ServeStart, Inv, Tailing
<1>2. Len(consumer.applied) = 0
  BY <1>1
<1>3. CASE status = "absent"
  <2>1. /\ status' = "running" /\ CallAt("reading") /\ Opened(0, FALSE)
        /\ writing' = writing /\ redaction' = redaction
        /\ ledger' = <<Event("accepted", FALSE), Event("route", FALSE)>>
    BY <1>3 DEF ServeStart, Existing
  <2>2. Event("accepted", FALSE) \in Events /\ Event("route", FALSE) \in Events
    BY DEF Event, Events, Types
  <2>3. ledger' \in Seq(Events) /\ Len(ledger') = 2
    <3>1. \A a, b \in Events : <<a, b>> \in Seq(Events) /\ Len(<<a, b>>) = 2
      OBVIOUS
    <3> QED BY <2>1, <2>2, <3>1
  <2>4. Turn'
    BY <1>3, <2>1 DEF Inv, Turn, Terminal, Outcomes
  <2>5. Applied'
    BY <1>1, <1>2, <2>3 DEF Applied
  <2> QED BY <1>1, <1>2, <2>1, <2>3, <2>4, <2>5, Opens DEF Statuses
<1>4. CASE Existing
  <2>1. status # "absent" /\ Opened(0, TRUE) /\ CallAt("reading") /\ UNCHANGED turnVars
    BY <1>4 DEF ServeStart, Existing
  <2>2. TurnSame
    BY <2>1 DEF turnVars, TurnSame
  <2>3. Turn' /\ Applied' /\ status' \in Statuses /\ ledger' \in Seq(Events)
    BY <1>1, <2>2 DEF Inv, Typed, Turn, ClearedIsCold, Applied, TurnSame
  <2> QED BY <1>1, <1>2, <2>1, <2>2, <2>3, Opens DEF TurnSame
<1>5. CASE status # "absent" /\ ~Existing
  <2>1. CallAt("failed") /\ UNCHANGED <<turnVars, tail>>
    BY <1>5 DEF ServeStart
  <2> QED BY <1>1, <1>5, <2>1, Halts DEF CallPcs
<1> QED BY <1>3, <1>4, <1>5

LEMMA ServeEventsKeeps == Inv /\ ServeEvents => Inv'
<1> SUFFICES ASSUME Inv, ServeEvents PROVE Inv'
  OBVIOUS
<1>1. /\ UNCHANGED <<turnVars, consumer, shown, losses, calls>>
      /\ call.pc = "sent" /\ status # "absent"
  BY DEF ServeEvents, Inv, Untouched
<1>2. \/ CallAt("failed") /\ UNCHANGED tail
      \/ CallAt("refused") /\ UNCHANGED tail
      \/ Opened(Len(consumer.applied), status # "running") /\ CallAt("reading")
  BY DEF ServeEvents
<1>3. {"failed", "refused"} \subseteq CallPcs \ {"sent", "reading"}
  BY DEF CallPcs
<1>4. CASE CallAt("failed") /\ UNCHANGED tail
  BY <1>1, <1>3, <1>4, Halts
<1>5. CASE CallAt("refused") /\ UNCHANGED tail
  BY <1>1, <1>3, <1>5, Halts
<1>6. CASE Opened(Len(consumer.applied), status # "running") /\ CallAt("reading")
  <2>1. TurnSame
    BY <1>1 DEF turnVars, TurnSame
  <2>2. Turn' /\ Applied' /\ status' \in Statuses /\ ledger' \in Seq(Events)
    BY <1>1, <2>1 DEF Inv, Typed, Turn, ClearedIsCold, Applied, TurnSame
  <2>3. PICK rebuild \in BOOLEAN : rebuild = (status # "running")
    OBVIOUS
  <2>4. Opened(Len(consumer.applied), rebuild)
    BY <1>6, <2>3
  <2> QED BY <1>1, <1>6, <2>1, <2>2, <2>4, Opens DEF TurnSame
<1> QED BY <1>2, <1>4, <1>5, <1>6

\* A step of the tail alone.
LEMMA TailMoves ==
    ASSUME Inv, UNCHANGED <<turnVars, call, consumer, shown, losses, calls>>,
           tail.pc # "none", tail' \in Tails, tail'.pc # "none", tail'.cursor = tail.cursor,
           tail'.pc \in {"load", "list"} => tail'.rows = << >>,
           \A i \in 1..Len(tail'.rows) : tail'.rows[i].seq = tail'.cursor + i,
           Listed', Seen'
    PROVE  Inv'
<1>1. TurnSame
  BY DEF turnVars, TurnSame
<1>2. Typed' /\ Turn' /\ Applied'
  BY <1>1 DEF Inv, Typed, Turn, ClearedIsCold, Applied, TurnSame
<1>3. Untouched'
  BY <1>1 DEF Inv, Untouched, TurnSame
<1>4. Tailing'
  BY DEF Inv, Tailing
<1> QED BY <1>2, <1>3, <1>4 DEF Inv

LEMMA CloseKeeps ==
    ASSUME Inv, Close, UNCHANGED <<turnVars, consumer, shown, losses, calls>>
    PROVE  Inv'
BY Halts DEF Close, CallPcs

LEMMA LoadKeeps == Inv /\ Load => Inv'
<1> SUFFICES ASSUME Inv, Load PROVE Inv'
  OBVIOUS
<1>1. UNCHANGED <<turnVars, consumer, shown, losses, calls>> /\ tail.pc = "load"
  BY DEF Load
<1>2. CASE status = "deleted"
  BY <1>1, <1>2, CloseKeeps DEF Load
<1>3. CASE status # "deleted"
  <2>1. tail' = [tail EXCEPT !.pc = "list", !.seen = status] /\ call' = call
    BY <1>3 DEF Load
  <2>2. tail \in Tails /\ status \in Statuses /\ tail.rows = << >>
    BY <1>1 DEF Inv, Typed, Tailing
  <2>3. /\ tail' \in Tails /\ tail'.pc = "list" /\ tail'.seen = status
        /\ tail'.cursor = tail.cursor /\ tail'.rows = << >>
    BY <2>1, <2>2 DEF Tails, TailPcs
  <2>4. Len(tail'.rows) = 0
    BY <2>3
  <2>5. Listed'
    BY <2>3, <2>4 DEF Listed
  <2>6. status' = status /\ status # "absent"
    BY <1>1 DEF turnVars, Inv, Untouched
  <2>7. Seen'
    BY <1>3, <2>2, <2>3, <2>4, <2>6 DEF Seen, Statuses
  <2> QED BY <1>1, <2>1, <2>3, <2>4, <2>5, <2>7, TailMoves
<1> QED BY <1>2, <1>3

LEMMA PollKeeps == Inv /\ Poll => Inv'
<1> SUFFICES ASSUME Inv, Poll PROVE Inv'
  OBVIOUS
<1>1. UNCHANGED <<turnVars, consumer, shown, losses, calls>> /\ tail.pc = "yield" /\ tail.rows = << >>
  BY DEF Poll
<1>2. CASE TailIsOver
  BY <1>1, <1>2, CloseKeeps DEF Poll
<1>3. CASE ~TailIsOver
  <2>1. tail' = [tail EXCEPT !.pc = "load"] /\ call' = call
    BY <1>3 DEF Poll
  <2>2. tail \in Tails
    BY DEF Inv, Typed
  <2>3. /\ tail' \in Tails /\ tail'.pc = "load" /\ tail'.seen = tail.seen
        /\ tail'.cursor = tail.cursor /\ tail'.rows = << >>
    BY <1>1, <2>1, <2>2 DEF Tails, TailPcs
  <2>4. Len(tail'.rows) = 0
    BY <2>3
  <2>5. Listed' /\ Seen'
    BY <2>3, <2>4 DEF Listed, Seen
  <2> QED BY <1>1, <2>1, <2>3, <2>4, <2>5, TailMoves
<1> QED BY <1>2, <1>3

LEMMA DeadlineKeeps == Inv /\ DeadlinePasses => Inv'
<1> SUFFICES ASSUME Inv, DeadlinePasses PROVE Inv'
  OBVIOUS
<1>1. /\ UNCHANGED <<turnVars, call, consumer, shown, losses, calls>>
      /\ tail.pc # "none" /\ tail' = [tail EXCEPT !.late = TRUE]
  BY DEF DeadlinePasses, clientVars
<1>2. /\ tail' \in Tails /\ tail'.pc = tail.pc /\ tail'.seen = tail.seen
      /\ tail'.cursor = tail.cursor /\ tail'.rows = tail.rows
  BY <1>1 DEF Inv, Typed, Tails
<1>3. TurnSame
  BY <1>1 DEF turnVars, TurnSame
<1>4. Listed' /\ Seen'
  BY <1>2, <1>3 DEF Inv, Listed, Seen, TurnSame
<1>5. /\ tail'.pc \in {"load", "list"} => tail'.rows = << >>
      /\ \A i \in 1..Len(tail'.rows) : tail'.rows[i].seq = tail'.cursor + i
  BY <1>2 DEF Inv, Tailing
<1> QED BY <1>1, <1>2, <1>4, <1>5, TailMoves

\* What _stored_events reads follows the cursor, and has the end of a turn that ended.
LEMMA ListKeeps == Inv /\ List => Inv'
<1> SUFFICES ASSUME Inv, List PROVE Inv'
  OBVIOUS
<1> DEFINE cursor == tail.cursor
           pc     == IF tail.rebuild THEN "rebuild" ELSE "yield"
           rows   == [i \in 1..(Len(ledger) - cursor) |-> RowAt(cursor + i)]
           size   == IF cursor <= Len(ledger) THEN Len(ledger) - cursor ELSE 0
<1>1. /\ UNCHANGED <<turnVars, call, consumer, shown, losses, calls>> /\ tail.pc = "list"
      /\ tail' = [tail EXCEPT !.pc = pc, !.rows = rows]
  BY DEF List, clientVars
<1>2. TurnSame
  BY <1>1 DEF turnVars, TurnSame
<1>3. tail \in Tails /\ cursor \in Nat /\ ledger \in Seq(Events) /\ Len(ledger) \in Nat
  BY DEF Inv, Typed, Tails
<1>4. pc \in {"rebuild", "yield"}
  OBVIOUS
<1>5. size \in Nat /\ 1..(Len(ledger) - cursor) = 1..size
  BY <1>3
<1>6. \A i \in 1..size : cursor + i \in 1..Len(ledger)
  BY <1>3
<1>7. \A i \in 1..size : /\ RowAt(cursor + i) \in Rows
                         /\ RowAt(cursor + i).seq = cursor + i
                         /\ RowAt(cursor + i).type = ledger[cursor + i].type
                         /\ RowAt(cursor + i).hot = ledger[cursor + i].hot
  <2> SUFFICES ASSUME NEW i \in 1..size
               PROVE  /\ RowAt(cursor + i) \in Rows
                      /\ RowAt(cursor + i).seq = cursor + i
                      /\ RowAt(cursor + i).type = ledger[cursor + i].type
                      /\ RowAt(cursor + i).hot = ledger[cursor + i].hot
    OBVIOUS
  <2>1. cursor + i \in 1..Len(ledger)
    BY <1>6
  <2>2. ledger[cursor + i] \in Events
    BY <1>3, <2>1
  <2>3. cursor + i \in Nat
    BY <2>1
  <2> HIDE DEF cursor
  <2> QED BY <2>2, <2>3 DEF RowAt, Rows, Events
<1>8. /\ rows \in Seq(Rows) /\ Len(rows) = size
      /\ \A i \in 1..size : rows[i] = RowAt(cursor + i)
  <2>1. rows = [i \in 1..size |-> RowAt(cursor + i)]
    BY <1>5
  <2>2. rows \in [1..size -> Rows]
    BY <1>7, <2>1
  <2>3. \A i \in 1..size : rows[i] = RowAt(cursor + i)
    BY <2>1
  <2> HIDE DEF rows
  <2> QED BY <1>5, <2>2, <2>3
<1> HIDE DEF rows, pc
<1>9. /\ tail' \in Tails /\ tail'.pc = pc /\ tail'.rows = rows
      /\ tail'.cursor = tail.cursor /\ tail'.seen = tail.seen
  BY <1>1, <1>3, <1>4, <1>8 DEF Tails, TailPcs
<1>10. \A i \in 1..Len(tail'.rows) :
         /\ tail'.rows[i].seq = cursor + i
         /\ tail'.rows[i].type = ledger[cursor + i].type
         /\ tail'.rows[i].hot = ledger[cursor + i].hot
  BY <1>7, <1>8, <1>9
<1>11. Listed'
  <2> SUFFICES ASSUME status # "deleted" PROVE Listed'
    BY <1>2 DEF Listed, TurnSame
  <2>1. cursor <= Len(ledger)
    BY <1>1 DEF Inv, Tailing, Applied
  <2>2. \A i \in 1..Len(tail'.rows) : /\ tail'.rows[i].seq \in 1..Len(ledger')
                                      /\ tail'.rows[i].type = ledger'[tail'.rows[i].seq].type
    BY <1>2, <1>6, <1>8, <1>9, <1>10 DEF TurnSame
  <2>3. cursor + size = Len(ledger)
    BY <1>3, <2>1
  <2>4. tail'.seen # "running" => \E k \in 1..Len(ledger) : ledger[k].type \in Terminal
    BY <1>1, <1>9 DEF Inv, Seen, Turn
  <2>5. tail'.cursor + Len(tail'.rows) = Len(ledger)
    BY <1>8, <1>9, <2>3
  <2>6. tail'.seen # "running" =>
          \E k \in 1..Len(ledger') :
            k <= tail'.cursor + Len(tail'.rows) /\ ledger'[k].type \in Terminal
    BY <1>2, <1>3, <2>4, <2>5 DEF TurnSame
  <2> QED BY <2>2, <2>6 DEF Listed
<1>12. Seen'
  <2>1. tail'.seen = "redacted" =>
          \A i \in 1..Len(tail'.rows) : tail'.rows[i].seq <= redaction'.cleared => ~tail'.rows[i].hot
    <3> SUFFICES ASSUME tail'.seen = "redacted", NEW i \in 1..Len(tail'.rows),
                        tail'.rows[i].seq <= redaction'.cleared
                 PROVE  ~tail'.rows[i].hot
      OBVIOUS
    <3>1. status \in {"redacted", "deleted"}
      BY <1>1, <1>9 DEF Inv, Seen
    <3>2. cursor + i \in 1..Len(ledger)
      BY <1>6, <1>8, <1>9
    <3>3. status # "deleted"
      <4> SUFFICES ASSUME status = "deleted" PROVE FALSE
        OBVIOUS
      <4>1. ledger = << >>
        BY DEF Inv, Turn
      <4>2. Len(ledger) = 0
        BY <4>1
      <4> QED BY <3>2, <4>2
    <3>4. cursor + i <= redaction.cleared
      BY <1>2, <1>10 DEF TurnSame
    <3> QED BY <1>10, <3>1, <3>2, <3>3, <3>4 DEF Inv, Turn, ClearedIsCold
  <2>2. /\ tail'.seen # "running" => status' \in Terminal \cup {"deleted"}
        /\ tail'.seen = "redacted" => status' \in {"redacted", "deleted"}
    BY <1>1, <1>2, <1>9 DEF Inv, Seen, TurnSame
  <2> QED BY <2>1, <2>2 DEF Seen
<1>13. /\ tail'.pc \notin {"none", "load", "list"}
       /\ \A i \in 1..Len(tail'.rows) : tail'.rows[i].seq = tail'.cursor + i
  BY <1>4, <1>9, <1>10
<1> QED BY <1>1, <1>9, <1>11, <1>12, <1>13, TailMoves

\* The same row with or without the payload that _with_emit_replay rebuilds.
SameRow(new, old) == /\ new \in Rows /\ new.seq = old.seq /\ new.type = old.type
                     /\ tail.seen = "redacted" /\ ~old.hot => ~new.hot

LEMMA RebuildKeeps == Inv /\ Rebuild => Inv'
<1> SUFFICES ASSUME Inv, Rebuild PROVE Inv'
  OBVIOUS
<1> DEFINE Again(row) == IF row.type \notin Outcomes THEN row
                         ELSE [row EXCEPT !.again = TRUE,
                                          !.hot = row.type = "completed" /\ Citable]
           size == Len(tail.rows)
           rows == [i \in DOMAIN tail.rows |-> Again(tail.rows[i])]
<1>1. /\ UNCHANGED <<turnVars, call, consumer, shown, losses, calls>> /\ tail.pc = "rebuild"
      /\ tail' = [tail EXCEPT !.pc = "yield", !.rows = rows]
  BY DEF Rebuild, clientVars
<1>2. TurnSame
  BY <1>1 DEF turnVars, TurnSame
<1>3. tail \in Tails /\ tail.rows \in Seq(Rows) /\ size \in Nat
  BY DEF Inv, Typed, Tails
<1>4. \A row \in Rows : SameRow(Again(row), row)
  <2> SUFFICES ASSUME NEW row \in Rows PROVE SameRow(Again(row), row)
    OBVIOUS
  <2>1. CASE row.type \notin Outcomes
    BY <2>1 DEF SameRow
  <2>2. CASE row.type \in Outcomes
    <3>1. PICK hot \in BOOLEAN : hot = (row.type = "completed" /\ Citable)
      OBVIOUS
    <3>2. Again(row) = [row EXCEPT !.again = TRUE, !.hot = hot]
      BY <2>2, <3>1
    <3>3. tail.seen = "redacted" => hot = FALSE
      BY <3>1 DEF Citable, PublicRefs
    <3> HIDE DEF Again
    <3>4. /\ Again(row) \in Rows /\ Again(row).seq = row.seq /\ Again(row).type = row.type
          /\ Again(row).hot = hot
      BY <3>2 DEF Rows
    <3> QED BY <3>3, <3>4 DEF SameRow
  <2> QED BY <2>1, <2>2
<1> HIDE DEF Again
<1>5. rows = [i \in 1..size |-> Again(tail.rows[i])]
  BY <1>3
<1>6. \A i \in 1..size : SameRow(rows[i], tail.rows[i])
  BY <1>3, <1>4, <1>5
<1>7. rows \in Seq(Rows) /\ Len(rows) = size
  <2>1. rows \in [1..size -> Rows]
    BY <1>5, <1>6 DEF SameRow
  <2> HIDE DEF rows, size
  <2> QED BY <1>3, <2>1
<1> HIDE DEF rows
<1>8. /\ tail' \in Tails /\ tail'.pc = "yield" /\ tail'.rows = rows
      /\ tail'.cursor = tail.cursor /\ tail'.seen = tail.seen
  BY <1>1, <1>3, <1>7 DEF Tails, TailPcs
<1>9. /\ Len(tail'.rows) = Len(tail.rows)
      /\ \A i \in 1..Len(tail'.rows) : SameRow(tail'.rows[i], tail.rows[i])
  BY <1>6, <1>7, <1>8
<1>10. Listed'
  BY <1>1, <1>2, <1>8, <1>9 DEF Inv, Listed, SameRow, TurnSame
<1>11. Seen'
  BY <1>1, <1>2, <1>8, <1>9 DEF Inv, Seen, SameRow, TurnSame
<1>12. \A i \in 1..Len(tail'.rows) : tail'.rows[i].seq = tail'.cursor + i
  BY <1>8, <1>9 DEF Inv, Tailing, SameRow
<1> QED BY <1>1, <1>8, <1>10, <1>11, <1>12, TailMoves

\* The consumer applies every row that reaches it: none is a gap or a regression.
LEMMA YieldApplies ==
    ASSUME Inv, Yield
    PROVE  LET row == Head(tail.rows) IN
           /\ row \in Rows /\ row = tail.rows[1]
           /\ row.seq = Len(consumer.applied) + 1
           /\ tail' = [tail EXCEPT !.rows = Tail(@), !.cursor = row.seq]
           /\ call' = call /\ consumer' = Consumed(row)
           /\ UNCHANGED <<turnVars, losses, calls>>
<1> DEFINE row == Head(tail.rows)
<1>1. tail.pc = "yield" /\ tail.rows # << >> /\ tail.rows \in Seq(Rows)
  BY DEF Yield, Inv, Typed, Tails
<1>2. row \in Rows /\ row = tail.rows[1] /\ 1 \in 1..Len(tail.rows)
  BY <1>1
<1>3. row.seq = tail.cursor + 1
  BY <1>2 DEF Inv, Tailing
<1>4. tail.cursor = Len(consumer.applied)
  BY <1>1 DEF Inv, Tailing
<1>5. row.seq = Len(consumer.applied) + 1
  BY <1>3, <1>4
<1>6. Receive(row) = "apply"
  BY <1>5 DEF Receive
<1> QED BY <1>2, <1>5, <1>6 DEF Yield, Moved

LEMMA YieldKeeps == Inv /\ Yield => Inv'
<1> SUFFICES ASSUME Inv, Yield PROVE Inv'
  OBVIOUS
<1> DEFINE row == Head(tail.rows)
           rest == Tail(tail.rows)
           applied == consumer.applied
<1>1. /\ row \in Rows /\ row = tail.rows[1] /\ row.seq = Len(applied) + 1
      /\ tail' = [tail EXCEPT !.rows = rest, !.cursor = row.seq]
      /\ call' = call /\ consumer' = Consumed(row)
      /\ UNCHANGED <<turnVars, losses, calls>>
  BY YieldApplies
<1>2. tail.pc = "yield" /\ tail.rows # << >>
  BY DEF Yield
<1>3. /\ tail \in Tails /\ tail.rows \in Seq(Rows) /\ tail.cursor \in Nat
      /\ consumer \in Consumers /\ applied \in Seq(Types \X BOOLEAN \X BOOLEAN)
      /\ ledger \in Seq(Events)
  BY DEF Inv, Typed, Tails, Consumers
<1>4. Len(tail.rows) \in Nat /\ Len(applied) \in Nat /\ Len(ledger) \in Nat
  BY <1>3
<1>5. /\ rest \in Seq(Rows) /\ Len(rest) = Len(tail.rows) - 1
      /\ \A i \in 1..Len(rest) : rest[i] = tail.rows[i + 1] /\ i + 1 \in 1..Len(tail.rows)
      /\ 1 \in 1..Len(tail.rows)
  BY <1>2, <1>3
<1>6. tail.cursor = Len(applied)
  BY <1>2 DEF Inv, Tailing
<1> HIDE DEF rest, row
<1>7. /\ tail' \in Tails /\ tail'.pc = "yield" /\ tail'.rows = rest
      /\ tail'.cursor = row.seq /\ tail'.seen = tail.seen
  BY <1>1, <1>2, <1>3, <1>5 DEF Tails, Rows
<1>8. /\ consumer' \in Consumers /\ consumer'.applied = Append(applied, Digest(row))
      /\ consumer'.terminal = (consumer.terminal \/ row.type \in Terminal)
  <2>1. Digest(row) \in Types \X BOOLEAN \X BOOLEAN
    BY <1>1 DEF Digest, Rows
  <2>2. Append(applied, Digest(row)) \in Seq(Types \X BOOLEAN \X BOOLEAN)
    BY <1>3, <2>1
  <2>3. consumer.terminal \in BOOLEAN
    BY <1>3 DEF Consumers
  <2> QED BY <1>1, <2>2, <2>3 DEF Consumed, Consumers
<1>9. Len(consumer'.applied) = Len(applied) + 1
  BY <1>3, <1>8
<1>10. TurnSame /\ status' = status /\ ledger' = ledger /\ status # "absent"
  BY <1>1, <1>2 DEF turnVars, Inv, Untouched, TurnSame
<1>11. Typed' /\ Turn' /\ Untouched'
  BY <1>1, <1>7, <1>8, <1>10 DEF Inv, Typed, Turn, ClearedIsCold, Untouched, TurnSame
<1>12. Applied'
  <2> SUFFICES ASSUME status # "deleted" PROVE Applied'
    BY <1>10 DEF Applied
  <2>1. row.seq \in 1..Len(ledger) /\ row.type = ledger[row.seq].type
    BY <1>1, <1>5 DEF Inv, Listed
  <2>2. Len(applied) + 1 <= Len(ledger)
    BY <1>1, <1>4, <2>1
  <2>3. ASSUME NEW k \in 1..Len(ledger), k <= Len(applied) + 1, ledger[k].type \in Terminal
        PROVE  consumer'.terminal
    <3>1. CASE k = Len(applied) + 1
      BY <1>1, <1>8, <2>1, <2>3, <3>1
    <3>2. CASE k # Len(applied) + 1
      <4>1. k <= Len(applied)
        BY <1>4, <2>3, <3>2
      <4>2. consumer.terminal
        BY <2>3, <4>1 DEF Inv, Applied
      <4> QED BY <1>8, <4>2
    <3> QED BY <3>1, <3>2
  <2> QED BY <1>9, <1>10, <2>2, <2>3 DEF Applied
<1>13. Tailing'
  <2>1. \A i \in 1..Len(rest) : rest[i].seq = row.seq + i
    <3> SUFFICES ASSUME NEW i \in 1..Len(rest) PROVE rest[i].seq = row.seq + i
      OBVIOUS
    <3>1. rest[i].seq = tail.cursor + (i + 1)
      BY <1>5 DEF Inv, Tailing
    <3>2. row.seq = tail.cursor + 1
      BY <1>1, <1>6
    <3>3. \A c, n \in Nat : c + (n + 1) = (c + 1) + n
      OBVIOUS
    <3>4. i \in Nat
      BY <1>5
    <3> QED BY <1>3, <3>1, <3>2, <3>3, <3>4
  <2>2. call'.pc = "reading"
    BY <1>1, <1>2 DEF Inv, Tailing
  <2> QED BY <1>1, <1>7, <1>9, <2>1, <2>2 DEF Tailing
<1>14. Listed'
  <2> SUFFICES ASSUME status # "deleted" PROVE Listed'
    BY <1>10 DEF Listed
  <2>1. \A i \in 1..Len(rest) : rest[i].seq \in 1..Len(ledger)
                                /\ rest[i].type = ledger[rest[i].seq].type
    BY <1>5 DEF Inv, Listed
  <2>2. row.seq + Len(rest) = tail.cursor + Len(tail.rows)
    <3>1. \A c, n \in Nat : (c + 1) + (n - 1) = c + n
      OBVIOUS
    <3>2. row.seq = tail.cursor + 1
      BY <1>1, <1>6
    <3> QED BY <1>3, <1>4, <1>5, <3>1, <3>2
  <2>3. tail.seen # "running" =>
          \E k \in 1..Len(ledger) :
            k <= tail.cursor + Len(tail.rows) /\ ledger[k].type \in Terminal
    BY <1>2 DEF Inv, Listed
  <2> QED BY <1>7, <1>10, <2>1, <2>2, <2>3 DEF Listed
<1>15. Seen'
  <2>1. tail.seen = "redacted" =>
          \A i \in 1..Len(rest) : rest[i].seq <= redaction.cleared => ~rest[i].hot
    BY <1>5 DEF Inv, Seen
  <2>2. /\ tail.seen # "running" => status \in Terminal \cup {"deleted"}
        /\ tail.seen = "redacted" => status \in {"redacted", "deleted"}
    BY <1>2 DEF Inv, Seen
  <2> QED BY <1>7, <1>10, <2>1, <2>2 DEF Seen, TurnSame
<1> QED BY <1>11, <1>12, <1>13, <1>14, <1>15 DEF Inv

LEMMA StutterKeeps == Inv /\ UNCHANGED vars => Inv'
<1> SUFFICES ASSUME Inv, UNCHANGED vars PROVE Inv'
  OBVIOUS
<1>1. UNCHANGED <<status, ledger, writing, redaction, tail, call, consumer, shown, losses, calls>>
  BY DEF vars, turnVars, clientVars
<1> QED BY <1>1 DEF Inv, Typed, Turn, ClearedIsCold, Untouched, Applied, Tailing, Listed, Seen

LEMMA NextKeeps == Inv /\ [Next]_vars => Inv'
<1> SUFFICES ASSUME Inv, [Next]_vars PROVE Inv'
  OBVIOUS
<1>1. CASE \/ \E w \in Writers : Write(w)
           \/ Redact \/ DeleteConversation \/ \E o \in Outcomes : EndTurn(o)
  BY <1>1, WriteKeeps, RedactKeeps, DeleteKeeps, EndTurnKeeps
<1>2. CASE Serve
  BY <1>2, ServeStartKeeps, ServeEventsKeeps, LoadKeeps, ListKeeps, RebuildKeeps, YieldKeeps,
     PollKeeps DEF Serve
<1>3. CASE DeadlinePasses \/ Lose
  BY <1>3, DeadlineKeeps, LoseKeeps
<1>4. CASE Submit \/ Retry \/ Replay \/ Reload \/ Client
  BY <1>4, UserKeeps, ClientKeeps
<1>5. CASE UNCHANGED vars
  BY <1>5, StutterKeeps
<1> QED BY <1>1, <1>2, <1>3, <1>4, <1>5 DEF Next

---------------------------------------------------------------------------
\* In every reachable state the turn, the tail and the client are as the
\* declarations of the ledger, the tail's locals and the call say.
THEOREM TypeCorrect == Spec => []TypeOK
<1>1. Init => Inv
  BY InitInv
<1>2. Inv /\ [Next]_vars => Inv'
  BY NextKeeps
<1>3. Inv => TypeOK
  BY InvGives
<1> QED BY <1>1, <1>2, <1>3, PTL DEF Spec

\* Every event a response brings is the next one the consumer waits for, whatever
\* was appended, redacted, deleted or lost in between.
THEOREM StreamsFit == Spec => []StreamsFitTogether
<1>1. Init => Inv
  BY InitInv
<1>2. Inv /\ [Next]_vars => Inv'
  BY NextKeeps
<1>3. Inv => StreamsFitTogether
  BY InvGives
<1> QED BY <1>1, <1>2, <1>3, PTL DEF Spec

\* A tail that has loaded the redacted turn holds no text, items or citations of
\* an event that the redaction cleared, also where the payload of its outcome was
\* rebuilt.  An event inserted behind the redaction is not among these.
THEOREM RedactionIsSeen == Spec => []ClearedTextStaysHidden
<1>1. Init => Inv
  BY InitInv
<1>2. Inv /\ [Next]_vars => Inv'
  BY NextKeeps
<1>3. Inv => ClearedTextStaysHidden
  BY InvGives
<1> QED BY <1>1, <1>2, <1>3, PTL DEF Spec

\* A step that ends a response in time ends it at the end of the turn.
EndBrought == tail.pc = "yield" /\ tail'.pc = "none" /\ call'.pc = "ended" /\ ~tail.late
                /\ status # "deleted" => consumer.terminal

LEMMA EndIsBrought == Inv /\ Next => EndBrought
<1> SUFFICES ASSUME Inv, Next, tail.pc = "yield", tail'.pc = "none", call'.pc = "ended",
                    ~tail.late, status # "deleted"
             PROVE  consumer.terminal
  BY DEF EndBrought
<1>1. call.pc = "reading"
  BY DEF Inv, Tailing
<1>2. call \in CallRows
  BY DEF Inv, Typed
<1>3. Poll
  <2>1. call' # call
    BY <1>1
  <2>2. \A pc \in CallPcs : CallAt(pc) => pc = "ended"
    BY <1>2, CallMoves
  <2>3. CASE \/ \E w \in Writers : Write(w)
             \/ Redact \/ DeleteConversation \/ \E o \in Outcomes : EndTurn(o)
    BY <2>1, <2>3 DEF Write, TestTurn, InsertEvent, DropEvent, Redact, RedactLists, RedactCommits,
       RedactFails, DeleteConversation, EndTurn, Still, clientVars
  <2>4. CASE Serve
    <3>1. ~Yield
      BY <2>1, YieldApplies
    <3> QED BY <1>1, <2>4, <3>1 DEF Serve, ServeStart, ServeEvents, Load, List, Rebuild
  <2>5. CASE DeadlinePasses \/ Lose
    BY <2>1, <2>2, <2>5 DEF DeadlinePasses, Lose, clientVars, CallPcs
  <2>6. CASE Submit \/ Retry \/ Replay \/ Reload \/ Client
    BY <1>1, <2>6 DEF Submit, Retry, Replay, Reload, Client, AfterStart, AfterResume
  <2> QED BY <2>3, <2>4, <2>5, <2>6 DEF Next
<1>4. tail.rows = << >> /\ tail.seen # "running"
  <2>1. TailIsOver
    <3>1. CASE ~TailIsOver
      BY <1>1, <1>3, <3>1 DEF Poll
    <3> QED BY <3>1
  <2> QED BY <1>3, <2>1 DEF Poll, TailIsOver
<1>5. PICK k \in 1..Len(ledger) : k <= tail.cursor + Len(tail.rows) /\ ledger[k].type \in Terminal
  BY <1>4 DEF Inv, Listed
<1>6. k <= Len(consumer.applied)
  <2>1. tail.cursor = Len(consumer.applied) /\ Len(tail.rows) = 0 /\ tail.cursor \in Nat
    BY <1>4 DEF Inv, Tailing, Typed, Tails
  <2> QED BY <1>5, <2>1
<1> QED BY <1>5, <1>6 DEF Inv, Applied

\* A response that ends because the turn is no longer running, and not because
\* its deadline passed or the conversation is gone, has brought the terminal
\* event to the consumer.
THEOREM EndedTailsEnd == Spec => EndedTailsBroughtTheEnd
<1>1. Init => Inv
  BY InitInv
<1>2. Inv /\ [Next]_vars => Inv'
  BY NextKeeps
<1>3. Inv /\ [Next]_vars => [EndBrought]_vars
  BY EndIsBrought
<1> QED BY <1>1, <1>2, <1>3, PTL DEF Spec, EndedTailsBroughtTheEnd, EndBrought
=============================================================================
