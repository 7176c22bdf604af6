------------------------------ MODULE ApiAccess ------------------------------
(***************************************************************************)
(* HTTP requests of the API, from the trusted ingress to the answer: the   *)
(* session and role checks, the durable claim an Idempotency-Key makes,    *)
(* the service's transactions, the answer; logins with their throttle and  *)
(* logouts between them; an API process that dies.                         *)
(*                                                                         *)
(* A handler has one database transaction open at a time and runs in a     *)
(* thread of its own, but for the coroutines, whose queries keep the one   *)
(* event loop that every answer and the end of every session wait for.     *)
(* What a request has inserted and not committed is seen by no other       *)
(* request, but a second insert of the same key waits for it (the unique   *)
(* index).  A row locked FOR UPDATE keeps writers and lockers of that row  *)
(* waiting.  What a service does is abstracted to the commits it makes;    *)
(* the modules of the components have the rest.                            *)
(***************************************************************************)
EXTENDS ApiRoutes, Naturals, FiniteSets

CONSTANTS
    Requests,       \* the HTTP requests of a behaviour
    Routes,         \* the routes they ask for: records of ApiRoutes by name
    Fingerprints,   \* what can be asked for under one key
    Logins,         \* bound: sessions an account can have had
    MaxFailures,    \* login_throttle_max_failures
    MaxCrashes      \* bound on deaths of the API process

ASSUME RoutesAssumption ==
    /\ \A name \in DOMAIN Routes :
        /\ Routes[name].who \in {"public", "member", "administrator"}
        /\ Routes[name].keyed => Routes[name].who # "public"
        /\ "ok" \notin Routes[name].refusals
    /\ Fingerprints # {}
    /\ MaxFailures \in Nat \ {0}

\* One account of each role; a token is one of the sessions it can have had.
Users == {"member", "administrator"}
Tokens == Users \X (1..Logins)
NoToken == <<"nobody", 0>>
Preauth == <<"preauth", 0>>

\* (principal, route class): the behaviours use one key for each.
Claims == Users \X { name \in DOMAIN Routes : Routes[name].keyed }
NoClaim == [state |-> "none"]

VARIABLES
    session,    \* AuthSession by token
    disabled,   \* the accounts with is_disabled
    claim,      \* HttpIdempotencyRecord by principal and route class
    throttle,   \* the LoginThrottleBucket of the client and the user name
    request,    \* the handler of each request
    crashes     \* deaths so far

vars == <<session, disabled, claim, throttle, request, crashes>>

---------------------------------------------------------------------------
\* State.

SessionStates == {"none", "live", "over", "revoked"}
ClaimStates ==
    {NoClaim} \cup [state : {"open", "pending", "completed"}, owner : Requests,
                    fingerprint : Fingerprints]
Throttles ==
    [count : 0..(MaxFailures + Cardinality(Requests)), stale : BOOLEAN, block : {"none", "on", "over"}]
Points ==
    {"new", "admitted", "asking", "inserting", "raced", "resolving", "serving", "locked",
     "calling", "refused", "served", "verifying", "cleared", "answered", "lost"}
Codes == {"", "ok", "capacity_unavailable", "audit_unavailable", "internal_error", "csrf_invalid",
          "unauthenticated", "forbidden", "validation_error", "idempotency_conflict",
          "not_found"} \cup UNION { Routes[name].refusals : name \in DOMAIN Routes }
Handlers ==
    [at : Points, route : DOMAIN Routes \cup {""}, token : Tokens \cup {NoToken},
     keyed : BOOLEAN, fingerprint : Fingerprints, change : {"none", "begun", "done"},
     code : Codes, by : Requests]

NewRequest(r) ==
    [at |-> "new", route |-> "", token |-> NoToken, keyed |-> FALSE,
     fingerprint |-> CHOOSE f \in Fingerprints : TRUE, change |-> "none", code |-> "", by |-> r]

\* One account is signed in; the others log in.  One more failed login blocks the bucket.
Init ==
    /\ \E first \in Users :
        session = [t \in Tokens |-> IF t = <<first, 1>> THEN "live" ELSE "none"]
    /\ disabled = {}
    /\ claim = [c \in Claims |-> NoClaim]
    /\ throttle = [count |-> MaxFailures - 1, stale |-> FALSE, block |-> "none"]
    /\ request = [r \in Requests |-> NewRequest(r)]
    /\ crashes = 0

---------------------------------------------------------------------------
\* Helpers.

At(r, point) == request[r].at = point
Asks(r) == Routes[request[r].route]
User(r) == request[r].token[1]
ClaimOf(r) == <<User(r), request[r].route>>

Goto(r, point) == request' = [request EXCEPT ![r].at = point]

\* A refused request that changed nothing is remembered only by its code.
Forget(r) ==
    IF request[r].change = "none" THEN NewRequest(r) ELSE request[r]
Answer(r, code) == request' = [request EXCEPT ![r] = [Forget(r) EXCEPT !.at = "answered", !.code = code]]

Live(t) == t \in Tokens /\ session[t] = "live" /\ t[1] \notin disabled
Locked(t) == \E r \in Requests : At(r, "locked") /\ request[r].token = t

\* A coroutine does not give the event loop back between its first query and its last.
Busy == {"asking", "inserting", "raced", "serving", "locked", "calling", "refused", "served"}
LoopTaken == \E r \in Requests : request[r].at \in Busy /\ Asks(r).loop

\* The record of a key is locked by the repeat that has read it, until its session closes.
RowHeld(c) == \E r \in Requests : At(r, "resolving") /\ ClaimOf(r) = c

\* A handler that ends takes the rows its transaction had not committed with it.
Released(r) ==
    [c \in Claims |->
        IF claim[c].state = "open" /\ claim[c].owner = r THEN NoClaim ELSE claim[c]]

---------------------------------------------------------------------------
\* Admission: ingress and CSRF, session, role, drain, If-Match.

\* binding: what the request's CSRF cookie was issued for.
SecurityPasses(route, token, binding) ==
    \/ ~route.unsafe
    \/ "login" \in route.service /\ binding = Preauth
    \/ "login" \notin route.service /\ token # NoToken /\ binding = token

Admit(r) ==
    \E name \in DOMAIN Routes, token \in Tokens \cup {NoToken}, binding \in Tokens \cup {Preauth} :
        LET route == Routes[name] IN
        /\ At(r, "new")
        /\ "login" \notin route.service
        /\ SecurityPasses(route, token, binding)
        /\ route.who # "public" => Live(token)
        /\ route.who = "administrator" => token[1] = "administrator"
        /\ \E keyed \in (IF route.keyed THEN BOOLEAN ELSE {FALSE}),
              f \in (IF route.keyed THEN Fingerprints ELSE {request[r].fingerprint}) :
            /\ ~keyed => f = request[r].fingerprint
            /\ request' = [request EXCEPT ![r] =
                  [@ EXCEPT !.at = IF keyed \/ route.loop THEN "admitted" ELSE "serving",
                            !.route = name, !.token = token, !.keyed = keyed,
                            !.fingerprint = f]]
        /\ UNCHANGED <<session, disabled, claim, throttle, crashes>>

\* The refusals of admission, in the order of the checks: an untrusted peer, CSRF, the session,
\* the role (a denial is audited, or its audit fails), a missing If-Match, a process that drains.
Denials(name, token, binding) ==
    LET route == Routes[name] IN
    {"forbidden"} \cup
    CASE ~SecurityPasses(route, token, binding) -> {"csrf_invalid"}
      [] SecurityPasses(route, token, binding) /\ route.who # "public" /\ ~Live(token)
           -> {"unauthenticated"}
      [] route.who = "administrator" /\ Live(token) /\ token[1] = "member"
           -> {"audit_unavailable"}
      [] OTHER -> (IF route.match \/ route.keyed THEN {"validation_error"} ELSE {})
                    \cup (IF name = "post_conversation_turn_stream"
                          THEN {"capacity_unavailable"} ELSE {})

Deny(r) ==
    \E name \in DOMAIN Routes, token \in Tokens \cup {NoToken}, binding \in Tokens \cup {Preauth} :
        /\ At(r, "new")
        /\ \E code \in Denials(name, token, binding) : Answer(r, code)
        /\ UNCHANGED <<session, disabled, claim, throttle, crashes>>

---------------------------------------------------------------------------
\* begin_idempotent.

Row(r) == claim[ClaimOf(r)]

\* mutant of Replay: a key reused for another request replays the first one's answer.
ReplayAnyFingerprint(r) ==
    CASE Row(r).state = "pending" -> Answer(r, "capacity_unavailable")
      [] OTHER ->
            \/ request' = [request EXCEPT ![r].at = "answered", ![r].code = "ok",
                                          ![r].by = Row(r).owner]
            \/ Answer(r, "not_found")
\* _resolve_existing and the replay of the handler, which reads the target again: a target
\* removed since is not found.
Replay(r) ==
    CASE Row(r).fingerprint # request[r].fingerprint -> Answer(r, "idempotency_conflict")
      [] Row(r).state = "pending" -> Answer(r, "capacity_unavailable")
      [] OTHER ->
            \/ request' = [request EXCEPT ![r].at = "answered", ![r].code = "ok",
                                          ![r].by = Row(r).owner]
            \/ Answer(r, "not_found")

\* A coroutine waits for its turn on the loop.
Start(r) ==
    /\ At(r, "admitted")
    /\ Asks(r).loop => ~LoopTaken
    /\ Goto(r, IF request[r].keyed THEN "asking" ELSE "serving")
    /\ UNCHANGED <<session, disabled, claim, throttle, crashes>>

Found(c) == claim[c].state \in {"pending", "completed"}

\* SELECT ... FOR UPDATE waits for the repeat that holds the record; a record found is held
\* from here on.
Lookup(r) ==
    /\ At(r, "asking")
    /\ ~RowHeld(ClaimOf(r))
    /\ Goto(r, IF Found(ClaimOf(r)) THEN "resolving" ELSE "inserting")
    /\ UNCHANGED <<session, disabled, claim, throttle, crashes>>

\* mutant of Insert: the claim is a plain write, no unique index stands behind it.
Overwrite(r) ==
    /\ At(r, "inserting")
    /\ claim' = [claim EXCEPT ![ClaimOf(r)] =
                    [state |-> "open", owner |-> r, fingerprint |-> request[r].fingerprint]]
    /\ Goto(r, "serving")
    /\ UNCHANGED <<session, disabled, throttle, crashes>>
\* The insert in a savepoint; it waits for one that is not committed, and a committed one
\* is an IntegrityError.
Insert(r) ==
    /\ At(r, "inserting")
    /\ \/ /\ Row(r) = NoClaim
          /\ claim' = [claim EXCEPT ![ClaimOf(r)] =
                          [state |-> "open", owner |-> r, fingerprint |-> request[r].fingerprint]]
          /\ Goto(r, "serving")
       \/ /\ Row(r).state \in {"pending", "completed"}
          /\ Goto(r, "raced")
          /\ UNCHANGED claim
    /\ UNCHANGED <<session, disabled, throttle, crashes>>

\* The record can have been given up between the insert and this read: internal_error.
LookupRaced(r) ==
    /\ At(r, "raced")
    /\ ~RowHeld(ClaimOf(r))
    /\ IF Found(ClaimOf(r))
       THEN Goto(r, "resolving")
       ELSE Row(r) = NoClaim /\ Answer(r, "internal_error")
    /\ UNCHANGED <<session, disabled, claim, throttle, crashes>>

\* The answer, and the end of the session and its locks once the loop comes to it.
Resolve(r) ==
    /\ At(r, "resolving")
    /\ ~LoopTaken
    /\ Replay(r)
    /\ UNCHANGED <<session, disabled, claim, throttle, crashes>>

---------------------------------------------------------------------------
\* The service.

\* The service's first commit carries the claim with it.
Committed(r) ==
    [c \in Claims |->
        IF claim[c].state = "open" /\ claim[c].owner = r
        THEN [claim[c] EXCEPT !.state = "pending"] ELSE claim[c]]

\* revalidate_mutation_actor locks the account and the session until the commit.
Revalidate(r) ==
    /\ At(r, "serving") /\ Asks(r).guarded
    /\ ~Locked(request[r].token)
    /\ IF Live(request[r].token)
       THEN Goto(r, "locked")
       ELSE Goto(r, "refused")
    /\ UNCHANGED <<session, disabled, claim, throttle, crashes>>

Ready(r) == At(r, "locked") \/ (At(r, "serving") /\ ~Asks(r).guarded)

Read(r) ==
    /\ At(r, "serving") /\ "read" \in Asks(r).service
    /\ Answer(r, "ok")
    /\ UNCHANGED <<session, disabled, claim, throttle, crashes>>

\* The change, its audit row and the claim in one commit.
Commit(r) ==
    /\ Ready(r) /\ Asks(r).service \cap {"once", "quiet"} # {}
    /\ request' = [request EXCEPT ![r].change = "done",
                      ![r].at = IF request[r].keyed THEN "served" ELSE "answered",
                      ![r].code = IF request[r].keyed THEN "" ELSE "ok"]
    /\ claim' = Committed(r)
    /\ UNCHANGED <<session, disabled, throttle, crashes>>

\* The operation row before the outside call, and the claim, in one commit.
Begin(r) ==
    /\ Ready(r) /\ "twice" \in Asks(r).service
    /\ request' = [request EXCEPT ![r].change = "begun", ![r].at = "calling"]
    /\ claim' = Committed(r)
    /\ UNCHANGED <<session, disabled, throttle, crashes>>

\* The outside call succeeded: its outcome and the audit row in one commit.
Finish(r) ==
    /\ At(r, "calling")
    /\ request' = [request EXCEPT ![r].change = "done",
                      ![r].at = IF request[r].keyed THEN "served" ELSE "answered",
                      ![r].code = IF request[r].keyed THEN "" ELSE "ok"]
    /\ UNCHANGED <<session, disabled, claim, throttle, crashes>>

\* The service refuses; a lost insert race has rolled the claim back with the rest.
Refuse(r) ==
    /\ (Ready(r) \/ At(r, "calling")) /\ Asks(r).refusals # {}
    /\ Goto(r, "refused")
    /\ \/ UNCHANGED claim
       \/ Ready(r) /\ Asks(r).rolls /\ claim' = Released(r)
    /\ UNCHANGED <<session, disabled, throttle, crashes>>

\* The audit row cannot be written: the transaction is rolled back, and AuditError, which no
\* handler catches, is the answer.
AuditFails(r) ==
    /\ \/ Ready(r) /\ "once" \in Asks(r).service
       \/ At(r, "calling")
    /\ Answer(r, "audit_unavailable")
    /\ claim' = Released(r)
    /\ UNCHANGED <<session, disabled, throttle, crashes>>

---------------------------------------------------------------------------
\* The end of a claim.

\* _abandon_idempotent_claim deletes the record this request inserted, committed or not; a
\* record the service's rollback took away is not found, which is ignored.
Abandon(r) ==
    /\ At(r, "refused")
    /\ request[r].keyed => ~RowHeld(ClaimOf(r))
    /\ claim' = IF request[r].keyed /\ Row(r) # NoClaim /\ Row(r).owner = r
                THEN [claim EXCEPT ![ClaimOf(r)] = NoClaim] ELSE claim
    /\ \E code \in Asks(r).refusals : Answer(r, code)
    /\ UNCHANGED <<session, disabled, throttle, crashes>>

Complete(r) ==
    /\ At(r, "served")
    /\ ~RowHeld(ClaimOf(r))
    /\ claim' = [claim EXCEPT ![ClaimOf(r)].state = "completed"]
    /\ request' = [request EXCEPT ![r].at = "answered", ![r].code = "ok"]
    /\ UNCHANGED <<session, disabled, throttle, crashes>>

---------------------------------------------------------------------------
\* Login and logout.

BeginLogin(r) ==
    \E name \in DOMAIN Routes, token \in Tokens \cup {NoToken} :
        /\ At(r, "new")
        /\ "login" \in Routes[name].service
        /\ IF throttle.block = "on"
           THEN Answer(r, "rate_limited")
           ELSE request' = [request EXCEPT ![r].at = "verifying", ![r].route = name,
                                           ![r].token = token]
        /\ UNCHANGED <<session, disabled, claim, throttle, crashes>>

\* The upsert of record_login_failure: a new bucket or window, which never blocks; a block in
\* force; the limit reached.
Failed ==
    IF throttle.count = 0 \/ throttle.stale
    THEN [count |-> 1, stale |-> FALSE, block |-> "none"]
    ELSE [throttle EXCEPT !.count = @ + 1,
              !.block = CASE @ = "on" -> "on"
                          [] @ # "on" /\ throttle.count + 1 >= MaxFailures -> "on"
                          [] OTHER -> "none"]

WrongPassword(r) ==
    /\ At(r, "verifying")
    /\ throttle' = Failed
    /\ Answer(r, "invalid_credentials")
    /\ UNCHANGED <<session, disabled, claim, crashes>>

\* clear_login_failures deletes the bucket in a transaction of its own.
RightPassword(r) ==
    /\ At(r, "verifying")
    /\ throttle' = [count |-> 0, stale |-> FALSE, block |-> "none"]
    /\ Goto(r, "cleared")
    /\ UNCHANGED <<session, disabled, claim, crashes>>

\* create_auth_session revokes the session the browser presented and starts another.
CreateSession(r) ==
    /\ At(r, "cleared")
    /\ ~Locked(request[r].token)
    /\ \E t \in Tokens :
        /\ t[1] \notin disabled
        /\ session[t] = "none" /\ \A n \in 1..(t[2] - 1) : session[<<t[1], n>>] # "none"
        /\ session' = [s \in Tokens |->
              IF s = t THEN "live"
              ELSE IF s = request[r].token /\ session[s] # "none" THEN "revoked" ELSE session[s]]
    /\ Answer(r, "ok")
    /\ UNCHANGED <<disabled, claim, throttle, crashes>>

\* mutant of Logout: the revocation does not wait for the holder of the row.
LogoutAtOnce(r) ==
    /\ At(r, "serving") /\ "logout" \in Asks(r).service
    /\ session' = [session EXCEPT ![request[r].token] = "revoked"]
    /\ Answer(r, "ok")
    /\ UNCHANGED <<disabled, claim, throttle, crashes>>
Logout(r) ==
    /\ At(r, "serving") /\ "logout" \in Asks(r).service
    /\ ~Locked(request[r].token)
    /\ session' = [session EXCEPT ![request[r].token] = "revoked"]
    /\ Answer(r, "ok")
    /\ UNCHANGED <<disabled, claim, throttle, crashes>>

---------------------------------------------------------------------------
\* Time, the operator and the process.

\* A session reaches its end or has not been used for session_idle_ttl_seconds.
SessionAges ==
    /\ \E t \in Tokens : session[t] = "live" /\ session' = [session EXCEPT ![t] = "over"]
    /\ UNCHANGED <<disabled, claim, throttle, request, crashes>>

WindowPasses ==
    /\ throttle.count > 0 /\ ~throttle.stale
    /\ throttle' = [throttle EXCEPT !.stale = TRUE]
    /\ UNCHANGED <<session, disabled, claim, request, crashes>>

BlockPasses ==
    /\ throttle.block = "on"
    /\ throttle' = [throttle EXCEPT !.block = "over"]
    /\ UNCHANGED <<session, disabled, claim, request, crashes>>

\* The operator writes the row of an account; it waits for a handler that has locked it.
DisableUser ==
    /\ \E u \in Users \ disabled :
        /\ ~\E r \in Requests : At(r, "locked") /\ User(r) = u
        /\ disabled' = disabled \cup {u}
    /\ UNCHANGED <<session, claim, throttle, request, crashes>>

Crash ==
    /\ crashes < MaxCrashes
    /\ crashes' = crashes + 1
    /\ claim' = [c \in Claims |-> IF claim[c].state = "open" THEN NoClaim ELSE claim[c]]
    /\ request' = [r \in Requests |->
          IF request[r].at \in {"new", "answered", "lost"} THEN request[r]
          ELSE [Forget(r) EXCEPT !.at = "lost"]]
    /\ UNCHANGED <<session, disabled, throttle>>

---------------------------------------------------------------------------
RequestStep(r) ==
    \/ Start(r) \/ Lookup(r) \/ Insert(r) \/ LookupRaced(r) \/ Resolve(r)
    \/ Revalidate(r) \/ Read(r) \/ Commit(r) \/ Begin(r) \/ Finish(r)
    \/ Refuse(r) \/ AuditFails(r) \/ Abandon(r) \/ Complete(r)
    \/ WrongPassword(r) \/ RightPassword(r) \/ CreateSession(r) \/ Logout(r)

Passage == SessionAges \/ WindowPasses \/ BlockPasses \/ DisableUser \/ Crash

Next ==
    \/ \E r \in Requests : Admit(r) \/ Deny(r) \/ BeginLogin(r) \/ RequestStep(r)
    \/ Passage

Spec == Init /\ [][Next]_vars

\* A handler whose query returns runs on, in its thread or on the event loop.  That a query
\* returns is not assumed: it waits for the row it asks for.
FairSpec == Spec /\ \A r \in Requests : WF_vars(RequestStep(r))

---------------------------------------------------------------------------
\* Properties.

\* The rows and the handlers have the shapes of their columns and locals.
TypeOK ==
    /\ session \in [Tokens -> SessionStates]
    /\ disabled \subseteq Users
    /\ claim \in [Claims -> ClaimStates]
    /\ throttle \in Throttles
    /\ request \in [Requests -> Handlers]
    /\ crashes \in 0..MaxCrashes

Under(c) == { r \in Requests : request[r].keyed /\ ClaimOf(r) = c }

\* One key changes the product once: of the requests that carry it, however they overlap, are
\* refused, lose their process and are sent again, at most one has made its change, and the
\* record names that one as long as it stands (begin_idempotent, the unique index on
\* principal, route class and key).
OneEffectPerKey ==
    \A c \in Claims :
        /\ Cardinality({ r \in Under(c) : request[r].change = "done" }) <= 1
        /\ \A r \in Under(c) : request[r].change = "done" => claim[c] # NoClaim /\ claim[c].owner = r

\* A success answered under a key is the answer to that very request: whatever is replayed was
\* asked for with the same payload, and two successes are one result (fingerprint_payload,
\* _resolve_existing).
SuccessesAgree ==
    \A c \in Claims : \A r, q \in Under(c) :
        request[r].code = "ok" /\ request[q].code = "ok"
        => request[r].by = request[q].by /\ request[r].fingerprint = request[q].fingerprint

\* A key that answers "already in progress" has somebody in progress, unless the process died
\* or the audit row of a committed change could not be written: no refusal leaves its claim
\* behind (_abandon_idempotent_claim).
PendingOwnersAreAtWork ==
    \A c \in Claims : claim[c].state = "pending" =>
        LET owner == request[claim[c].owner] IN
        \/ owner.at \in {"calling", "refused", "served", "lost"}
        \/ owner.at = "answered" /\ owner.code = "audit_unavailable"

\* The count that reaches the limit within its window has blocked the bucket, so no attempt
\* beyond those already past the check is verified (record_login_failure).  A limit of one
\* does not keep it: the first failure of a window never blocks.
FailuresReachTheBlock ==
    throttle.count >= MaxFailures /\ ~throttle.stale => throttle.block # "none"

\* A guarded handler makes its change only while the session it was admitted with is neither
\* revoked nor its account disabled, although both can happen after admission: a logout and a
\* change are in one order (revalidate_mutation_actor).
RevokedActorsChangeNothing ==
    [][\A r \in Requests :
        /\ request[r].change = "none" /\ request'[r].change # "none"
        /\ Asks(r).guarded
        => session[request[r].token] # "revoked" /\ User(r) \notin disabled]_vars

\* A coroutine keeps the loop while it waits for a record whose holder waits for the loop.
LoopIsStuck ==
    \E r \in Requests : request[r].at \in {"asking", "raced"} /\ Asks(r).loop /\ RowHeld(ClaimOf(r))


---------------------------------------------------------------------------
\* What the documentation says and the code does not do.

\* "Protected mutations write their audit row in the same transaction or return
\* 503 audit_unavailable with no product change" (docs/contracts/http-api-catalog.md:28).
\* create_domain, start_domain and stop_domain commit the operation first.
AuditFailureChangesNothing ==
    \A r \in Requests :
        At(r, "answered") /\ request[r].code = "audit_unavailable" => request[r].change = "none"

\* "same key+fingerprint reuses result" (docs/contracts/http-api-catalog.md:17): a repeat gets
\* its answer.
RepeatsAreAnswered ==
    \A r \in Requests : At(r, "asking") ~> At(r, "answered") \/ At(r, "lost")

\* A key is usable again: a pending claim is some day completed or given up.
KeysSettle ==
    \A c \in Claims : claim[c].state = "pending" ~> claim[c].state # "pending"

\* Every answer carries a code of the closed union of public_schemas.py.
CodesAreClosed ==
    \A r \in Requests : request[r].code \in APPROVED_HTTP_ERROR_CODES \cup {"", "ok"}

=============================================================================
