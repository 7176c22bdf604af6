---------------------------- MODULE ComposerRefs ----------------------------
(***************************************************************************)
(* Composer references: one-use tokens for sources, for the evidence of    *)
(* earlier turns and for prompt templates (composer_refs.py), the start of  *)
(* a turn that consumes them (chat_turns.py, start_or_replay_turn), the     *)
(* prompt built from them (prompt_assembly.py) and the deletion of a source *)
(* (sources.py, enqueue_delete_source), taken apart into its statements.   *)
(*                                                                         *)
(* All tokens are one owner's and of one running domain; a tuple of tokens  *)
(* is a set, so its fingerprint is the set.  PostgreSQL's row locks are     *)
(* conversationLock and tokenLock; a transaction's writes appear with its   *)
(* commit.  What else a worker does to a turn is in ChatTurn.               *)
(***************************************************************************)
EXTENDS Naturals, FiniteSets, Sequences

CONSTANTS
  Turns,           \* client request ids: each makes at most one turn
  ConversationOf,  \* of each of them
  Answered,        \* turns answered before the first step, citing every source
  Sources, Templates, Requests,
  HashOrder,       \* all tokens, by token_hash
  IdOrder,         \* and by primary key
  MaxPerKind,      \* MAX_COMPOSER_REFS_PER_KIND
  MaxTokens,       \* bound: tokens attached to one request
  NoOne            \* holds no lock, is no turn, source or template

Tokens == {HashOrder[i] : i \in DOMAIN HashOrder}

ASSUME RefConstants ==
  /\ HashOrder \in Seq(Tokens) /\ IdOrder \in Seq(Tokens)
  /\ {IdOrder[i] : i \in DOMAIN IdOrder} = Tokens
  /\ Len(IdOrder) = Cardinality(Tokens) /\ Len(HashOrder) = Cardinality(Tokens)
  /\ Answered \subseteq Turns
  /\ NoOne \notin Turns \cup Sources \cup Templates \cup Requests
  /\ Requests \cap Sources = {}

VARIABLES
  token,             \* ComposerRefToken rows
  turn,              \* conversation turns with their evidence and composer refs
  source,            \* state of the source rows
  conversationLock, tokenLock,
  request,           \* per request: start_or_replay_turn's locals
  deletion           \* per source: enqueue_delete_source's locals

locks == <<conversationLock, tokenLock>>
vars  == <<token, turn, source, locks, request, deletion>>

-----------------------------------------------------------------------------
Conversations == {ConversationOf[t] : t \in Turns}

SourceRef(s)      == [kind |-> "source", turn |-> NoOne, what |-> s]
EvidenceRef(t, s) == [kind |-> "evidence", turn |-> t, what |-> s]
TemplateRef(p)    == [kind |-> "template", turn |-> NoOne, what |-> p]
Targets == {SourceRef(s) : s \in Sources} \cup {TemplateRef(p) : p \in Templates}
           \cup {EvidenceRef(t, s) : t \in Turns, s \in Sources}

\* late: sources whose deletion had listed its tokens when this one was issued
NoToken == [target |-> TemplateRef(NoOne), expired |-> TRUE, consumed |-> FALSE,
            late |-> {}]

\* basis: sources whose text went into the prompt or the evidence;
\* bornAfter: sources whose deletion had committed when the turn was inserted
Turn(status, evidence) ==
  [status |-> status, evidence |-> evidence, refs |-> {}, used |-> {},
   basis |-> evidence, bornAfter |-> {}]

NoRequest  == [pc |-> "idle", turn |-> NoOne, tokens |-> {}, refs |-> {},
               answer |-> "none"]
NoDeletion == [pc |-> "idle", linked |-> {}, listed |-> {}, answered |-> {}]

Init ==
  /\ token    = [k \in Tokens |-> NoToken]
  /\ turn     = [t \in Turns |-> IF t \in Answered THEN Turn("completed", Sources)
                                 ELSE Turn("absent", {})]
  /\ source   = [s \in Sources |-> "ready"]
  /\ conversationLock = [c \in Conversations |-> NoOne]
  /\ tokenLock        = [k \in Tokens |-> NoOne]
  /\ request  = [r \in Requests |-> NoRequest]
  /\ deletion = [s \in Sources |-> NoDeletion]

-----------------------------------------------------------------------------
(* Discovery and expiry                                                    *)

\* What discovery lists: eligible sources, unredacted evidence of completed
\* turns, templates.
Discoverable(x) ==
  CASE x.kind = "source"   -> source[x.what] = "ready"
    [] x.kind = "evidence" -> /\ turn[x.turn].status = "completed"
                              /\ x.what \in turn[x.turn].evidence
    [] OTHER               -> TRUE

\* discover_composer_refs, one row of its result
Discover(k) ==
  /\ token[k] = NoToken
  /\ \E x \in Targets :
       /\ Discoverable(x)
       /\ token' = [token EXCEPT ![k] =
            [target |-> x, expired |-> FALSE, consumed |-> FALSE,
             late |-> {s \in Sources : deletion[s].pc \in {"expire", "done"}}]]
  /\ UNCHANGED <<turn, source, locks, request, deletion>>

\* _token_row_by_hash
Usable(k) == ~token[k].expired /\ ~token[k].consumed

\* COMPOSER_REF_TOKEN_TTL_SECONDS pass (a consumed token is no use anyway)
TokenTimesOut(k) ==
  /\ Usable(k)
  /\ token' = [token EXCEPT ![k].expired = TRUE]
  /\ UNCHANGED <<turn, source, locks, request, deletion>>

-----------------------------------------------------------------------------
(* Starting a turn                                                         *)

\* A request carries a client request id and tokens of an earlier discovery.
Ask(r) ==
  /\ request[r].pc = "idle"
  /\ \E t \in Turns \ Answered, ks \in SUBSET {k \in Tokens : token[k] # NoToken} :
       /\ Cardinality(ks) <= MaxTokens
       /\ request' = [request EXCEPT ![r] =
            [NoRequest EXCEPT !.pc = "look", !.turn = t, !.tokens = ks]]
  /\ UNCHANGED <<token, turn, source, locks, deletion>>

\* _matching_existing_turn compares the fingerprint of the tokens.
Replay(q) == IF turn[q.turn].used = q.tokens THEN "replayed" ELSE "conflict"

\* _running_turn
ConversationBusy(c) ==
  \E u \in Turns : ConversationOf[u] = c /\ turn[u].status = "running"

\* the session of a request or a deletion is closed: its locks go
Release(x) ==
  /\ conversationLock' = [c \in Conversations |->
       IF conversationLock[c] = x THEN NoOne ELSE conversationLock[c]]
  /\ tokenLock' = [k \in Tokens |->
       IF tokenLock[k] = x THEN NoOne ELSE tokenLock[k]]

\* the handler answers and get_db closes the session
Finish(r, answer) ==
  /\ request' = [request EXCEPT ![r] = [@ EXCEPT !.pc = "done", !.answer = answer]]
  /\ Release(r)

\* first read: is there a turn of this client request id
Look(r) ==
  LET q == request[r] IN
  /\ q.pc = "look"
  /\ IF turn[q.turn].status # "absent" THEN Finish(r, Replay(q))
     ELSE /\ request' = [request EXCEPT ![r].pc = "validate"]
          /\ UNCHANGED locks
  /\ UNCHANGED <<token, turn, source, deletion>>

\* mutant of Consumable: consumed_at was checked on validation
UnexpiredOnly(k) == ~token[k].expired

\* consume_composer_ref_tokens' test of a row it has locked
Consumable(k) == Usable(k)

\* _validate_template_ref, _validate_source_ref, _validate_evidence_ref: an
\* evidence ref must be of the conversation the turn is asked in.
Acceptable(x, c) == Discoverable(x) /\ (x.kind = "evidence" => ConversationOf[x.turn] = c)

\* _enforce_ref_caps
WithinCaps(ks) ==
  \A k \in ks : Cardinality({j \in ks : token[j].target.kind = token[k].target.kind})
                  <= MaxPerKind

\* the next reads: is a turn of the conversation running;
\* validate_composer_ref_tokens
Validate(r) ==
  LET q == request[r] IN
  /\ q.pc = "validate"
  /\ IF ConversationBusy(ConversationOf[q.turn]) THEN Finish(r, "in_progress")
     ELSE IF ~WithinCaps(q.tokens) \/ \E k \in q.tokens :
          ~Usable(k) \/ ~Acceptable(token[k].target, ConversationOf[q.turn])
     THEN Finish(r, "unavailable")
     ELSE /\ request' = [request EXCEPT ![r].pc = "lock",
                                        ![r].refs = {token[k].target : k \in q.tokens}]
          /\ UNCHANGED locks
  /\ UNCHANGED <<token, turn, source, deletion>>

\* _lock_conversation_for_turn_insert, and the first two reads again
LockConversation(r) ==
  LET q == request[r] c == ConversationOf[q.turn] IN
  /\ q.pc = "lock"
  /\ conversationLock[c] = NoOne
  /\ IF turn[q.turn].status # "absent" THEN Finish(r, Replay(q))
     ELSE IF ConversationBusy(c) THEN Finish(r, "in_progress")
     ELSE /\ request' = [request EXCEPT ![r].pc = "consume"]
          /\ conversationLock' = [conversationLock EXCEPT ![c] = r]
          /\ UNCHANGED tokenLock
  /\ UNCHANGED <<token, turn, source, deletion>>

\* The rows x locks of ks, in the given order, that it has not locked yet.
Unlocked(x, ks, order) == SelectSeq(order, LAMBDA k : k \in ks /\ tokenLock[k] # x)

TakeToken(x, ks, order) ==
  LET rest == Unlocked(x, ks, order) IN
  /\ rest # << >>
  /\ tokenLock[Head(rest)] = NoOne
  /\ tokenLock' = [tokenLock EXCEPT ![Head(rest)] = x]

\* consume_composer_ref_tokens: select ... for update, by token_hash
LockToken(r) ==
  /\ request[r].pc = "consume"
  /\ TakeToken(r, request[r].tokens, HashOrder)
  /\ UNCHANGED <<token, turn, source, conversationLock, request, deletion>>

\* the sources a ref is about
About(x) == IF x.kind = "template" THEN {} ELSE {x.what}

\* the rest of the transaction: consume all tokens and insert the turn with its
\* refs, or roll everything back
Insert(r) ==
  LET q == request[r] IN
  /\ q.pc = "consume"
  /\ Unlocked(r, q.tokens, HashOrder) = << >>
  /\ IF \A k \in q.tokens : Consumable(k)
     THEN /\ token' = [k \in Tokens |-> IF k \in q.tokens
                         THEN [token[k] EXCEPT !.consumed = TRUE] ELSE token[k]]
          /\ turn' = [turn EXCEPT ![q.turn] =
               [Turn("running", {}) EXCEPT !.refs = q.refs, !.used = q.tokens,
                  !.bornAfter = {s \in Sources : deletion[s].pc = "done"}]]
          /\ Finish(r, "created")
     ELSE Finish(r, "unavailable") /\ UNCHANGED <<token, turn>>
  /\ UNCHANGED <<source, deletion>>

-----------------------------------------------------------------------------
(* Running a turn                                                          *)

\* PromptAssemblyService: the blocks of a source (a deleted one keeps them for a
\* while), the excerpt of evidence that is not redacted
HasBody(x) == x.kind = "evidence" => turn[x.turn].status # "redacted"

\* run_once: the prompt is assembled from the turn's refs; the turn fails, or is
\* answered with the evidence it cites (without evidence nothing is answered)
Answer(t) ==
  /\ turn[t].status = "running"
  /\ \/ turn' = [turn EXCEPT ![t].status = "failed"]
     \/ \E cited \in SUBSET {s \in Sources : source[s] = "ready"} :
          turn' = [turn EXCEPT ![t].status = "completed", ![t].evidence = cited,
            ![t].basis = IF cited = {} THEN {}
              ELSE cited \cup UNION {About(x) : x \in {y \in turn[t].refs : HasBody(y)}}]
  /\ UNCHANGED <<token, source, locks, request, deletion>>

-----------------------------------------------------------------------------
(* Deleting a source                                                       *)

\* _turns_linked_to_source: by their evidence, by the source column of their
\* composer refs, which is null in an evidence ref
Linked(s) == {t \in Turns : s \in turn[t].evidence \/ SourceRef(s) \in turn[t].refs}

Step(s, pc) == deletion' = [deletion EXCEPT ![s].pc = pc]

\* _redact_turns skips turns that are redacted.
StartDelete(s) ==
  /\ source[s] = "ready" /\ deletion[s].pc = "idle"
  /\ deletion' = [deletion EXCEPT ![s] =
       [pc |-> "redact", listed |-> {},
        linked   |-> {t \in Linked(s) : turn[t].status # "redacted"},
        answered |-> {t \in Turns : turn[t].status = "completed"}]]
  /\ UNCHANGED <<token, turn, source, locks, request>>

Remaining(s) == {c \in {ConversationOf[t] : t \in deletion[s].linked} :
                   conversationLock[c] # s}

\* _lock_conversation_for_detail_change for the next linked turn
LockLinked(s) ==
  /\ deletion[s].pc = "redact"
  /\ \E c \in Remaining(s) :
       /\ conversationLock[c] = NoOne
       /\ conversationLock' = [conversationLock EXCEPT ![c] = s]
  /\ UNCHANGED <<token, turn, source, tokenLock, request, deletion>>

\* mutant of TokensOf: evidence tokens are forgotten
SourceTokensOf(s) == {k \in Tokens : token[k].target = SourceRef(s)}

\* the tokens _expire_composer_tokens_for_source selects: the source's, and its
\* evidence's
TokensOf(s) == {k \in Tokens : s \in About(token[k].target)}

ListTokens(s) ==
  /\ deletion[s].pc = "redact" /\ Remaining(s) = {}
  /\ deletion' = [deletion EXCEPT ![s].pc = "expire",
                     ![s].listed = {k \in TokensOf(s) : ~token[k].expired}]
  /\ UNCHANGED <<token, turn, source, locks, request>>

\* the flush updates the rows in the order of their primary keys
LockListed(s) ==
  /\ deletion[s].pc = "expire"
  /\ TakeToken(s, deletion[s].listed, IdOrder)
  /\ UNCHANGED <<token, turn, source, conversationLock, request, deletion>>

\* fence, redactions, expiry and the queued operation commit together
CommitDelete(s) ==
  LET d == deletion[s] IN
  /\ d.pc = "expire"
  /\ Unlocked(s, d.listed, IdOrder) = << >>
  /\ source' = [source EXCEPT ![s] = "deleting"]
  /\ turn'   = [t \in Turns |-> IF t \in d.linked
                  THEN [turn[t] EXCEPT !.status = "redacted"] ELSE turn[t]]
  /\ token'  = [k \in Tokens |-> IF k \in d.listed
                  THEN [token[k] EXCEPT !.expired = TRUE] ELSE token[k]]
  /\ Step(s, "done")
  /\ Release(s)
  /\ UNCHANGED request

-----------------------------------------------------------------------------
(* PostgreSQL's deadlock detection                                         *)

Sessions == Requests \cup Sources

\* the holder of the row lock a session waits for
WaitsFor(x, y) ==
  \/ /\ x \in Requests /\ request[x].pc = "lock"
     /\ conversationLock[ConversationOf[request[x].turn]] = y
  \/ /\ x \in Requests /\ request[x].pc = "consume"
     /\ LET rest == Unlocked(x, request[x].tokens, HashOrder) IN
        rest # << >> /\ tokenLock[Head(rest)] = y
  \/ /\ x \in Sources /\ deletion[x].pc = "redact"
     /\ \E c \in Remaining(x) : conversationLock[c] = y
  \/ /\ x \in Sources /\ deletion[x].pc = "expire"
     /\ LET rest == Unlocked(x, deletion[x].listed, IdOrder) IN
        rest # << >> /\ tokenLock[Head(rest)] = y

\* a circle of two or three sessions
InCircle(x) ==
  \E y \in Sessions : WaitsFor(x, y) /\
    (WaitsFor(y, x) \/ \E z \in Sessions : WaitsFor(y, z) /\ WaitsFor(z, x))

\* One of them is rolled back: its request ends with a server error.
Abort(x) ==
  /\ InCircle(x)
  /\ IF x \in Requests THEN Finish(x, "error") /\ UNCHANGED deletion
     ELSE /\ deletion' = [deletion EXCEPT ![x] = [NoDeletion EXCEPT !.pc = "aborted"]]
          /\ Release(x) /\ UNCHANGED request
  /\ UNCHANGED <<token, turn, source>>

-----------------------------------------------------------------------------
Start(r)  == \/ Look(r) \/ Validate(r) \/ LockConversation(r) \/ LockToken(r)
             \/ Insert(r)
Delete(s) == LockLinked(s) \/ ListTokens(s) \/ LockListed(s) \/ CommitDelete(s)

Next ==
  \/ \E k \in Tokens : Discover(k) \/ TokenTimesOut(k)
  \/ \E r \in Requests : Ask(r) \/ Start(r)
  \/ \E t \in Turns : Answer(t)
  \/ \E s \in Sources : StartDelete(s) \/ Delete(s)
  \/ \E x \in Sessions : Abort(x)

Spec == Init /\ [][Next]_vars

-----------------------------------------------------------------------------
(* What holds                                                              *)

Refs == Targets \cup {TemplateRef(NoOne)}
Statuses == {"absent", "running", "completed", "failed", "redacted"}
Stages   == {"idle", "look", "validate", "lock", "consume", "done"}
Answers  == {"none", "created", "replayed", "conflict", "in_progress", "unavailable", "error"}

TokenRows    == [target : Refs, expired : BOOLEAN, consumed : BOOLEAN, late : SUBSET Sources]
TurnRows     == [status : Statuses, evidence : SUBSET Sources, refs : SUBSET Refs,
                 used : SUBSET Tokens, basis : SUBSET Sources, bornAfter : SUBSET Sources]
RequestRows  == [pc : Stages, turn : Turns \cup {NoOne}, tokens : SUBSET Tokens,
                 refs : SUBSET Refs, answer : Answers]
DeletionRows == [pc : {"idle", "redact", "expire", "done", "aborted"},
                 linked : SUBSET Turns, listed : SUBSET Tokens, answered : SUBSET Turns]

\* Rows, locals and locks keep their vocabulary, and a request under way is for
\* a turn.
TypeOK ==
  /\ token    \in [Tokens -> TokenRows]
  /\ turn     \in [Turns -> TurnRows]
  /\ source   \in [Sources -> {"ready", "deleting"}]
  /\ request  \in [Requests -> RequestRows]
  /\ deletion \in [Sources -> DeletionRows]
  /\ conversationLock \in [Conversations -> Sessions \cup {NoOne}]
  /\ tokenLock        \in [Tokens -> Sessions \cup {NoOne}]
  /\ \A r \in Requests : request[r].pc = "idle" \/ request[r].turn \in Turns

\* A token is bound to one turn however many requests bring it at once, and a
\* request that is refused, fails or replays consumes none of its tokens.
TokensServeOneTurn ==
  /\ \A t, u \in Turns : turn[t].used \cap turn[u].used # {} => t = u
  /\ {k \in Tokens : token[k].consumed} = UNION {turn[t].used : t \in Turns}

\* A token issued before a deletion of its source, or of the source its
\* evidence comes from, listed the tokens to expire does not bring that source
\* into a turn after the deletion: consumption reads the expiry again.
DeletedTargetsStayOut ==
  \A t \in Turns : \A k \in turn[t].used :
    About(token[k].target) \cap turn[t].bornAfter \subseteq token[k].late

-----------------------------------------------------------------------------
(* What the documentation says and the code does not keep                  *)

\* data-and-lifecycle, redaction invariant, "redacts the whole derived turn":
\* a turn answered from text of the source, before its deletion began, is
\* redacted by it, whichever of its refs brought the text.
DerivedTurnsAreRedacted ==
  \A s \in Sources : deletion[s].pc = "done" =>
    \A t \in deletion[s].answered :
      s \in turn[t].basis => turn[t].status = "redacted"

\* interaction-behavior-prd M-10, "both attach to or replay that turn": of two
\* requests with the same id and the same tokens none is refused once the
\* other has made the turn.
TwinsReplay ==
  \A r \in Requests : request[r].answer \in {"in_progress", "unavailable"} =>
    ~\E q \in Requests :
       /\ request[q].answer = "created"
       /\ request[q].turn = request[r].turn /\ request[q].tokens = request[r].tokens

\* interaction-behavior-prd A-09, "redacts affected turns, invalidates governed
\* refs": after the deletion no turn that is not redacted holds a ref to the
\* source, one inserted while the deletion was under way included.
NoRefSurvivesDeletion ==
  \A s \in Sources : deletion[s].pc = "done" =>
    \A t \in Turns : SourceRef(s) \in turn[t].refs => turn[t].status = "redacted"

\* Starts lock tokens by hash and deletions by primary key: nobody is rolled
\* back for it.
NobodyWaitsInACircle == \A x \in Sessions : ~InCircle(x)
=============================================================================
