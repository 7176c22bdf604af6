----------------------------- MODULE ApiProofs ------------------------------
(***************************************************************************)
(* Proofs about ApiAccess, then about Listings: two systems with variables  *)
(* of their own, each for its own specification.                           *)
(*                                                                         *)
(* ApiAccess, for every number of requests, every table of routes and any  *)
(* number of crashes: a key has one effect, its successes agree, a revoked *)
(* actor changes nothing, and a pending key has an owner that accounts for *)
(* it.                                                                     *)
(*                                                                         *)
(* Listings, for every table, page size and number of pages: a walk that   *)
(* ends has shown what stayed in the list.                                 *)
(***************************************************************************)
EXTENDS ApiAccess, Listings, FiniteSetTheorems, TLAPS

Words == Codes \cup {"rate_limited", "invalid_credentials"}
Handlings == [at : Points, route : DOMAIN Routes \cup {""}, token : Tokens \cup {NoToken},
              keyed : BOOLEAN, fingerprint : Fingerprints, change : {"none", "begun", "done"},
              code : Words, by : Requests]

Typed == /\ request \in [Requests -> Handlings]
         /\ claim \in [Claims -> ClaimStates]
         /\ session \in [Tokens -> SessionStates]

\* What a handler knows of itself: it names its route until it ends, it has no change before
\* its first commit, and a key only together with a session and a route that takes one.
Ended == {"answered", "lost"}
Local(r) ==
    LET h == request[r] IN
    /\ h.at \notin {"new"} \cup Ended => h.route \in DOMAIN Routes
    /\ h.at \notin Ended => h.by = r
    /\ h.at # "answered" => h.code # "ok"
    /\ h.change # "none" => h.at \in {"calling", "refused", "served"} \cup Ended
    /\ h.change = "done" => h.at \in {"served"} \cup Ended
    /\ h.keyed => ClaimOf(r) \in Claims
    /\ h.at \in {"asking", "inserting", "raced", "resolving", "served"} => h.keyed
    /\ h.at = "new" => ~h.keyed
    /\ h.at = "calling" => h.change = "begun"

\* The record of a key and the handlers that carry it.
Owned(r, states) ==
    LET record == claim[ClaimOf(r)] IN
    record.state \in states /\ record.owner = r /\ record.fingerprint = request[r].fingerprint

Recorded(r) ==
    request[r].keyed =>
        /\ At(r, "serving") \/ At(r, "locked") => Owned(r, {"open"})
        /\ At(r, "calling") \/ At(r, "served") => Owned(r, {"pending"})
        /\ At(r, "resolving") => Found(ClaimOf(r))
        /\ request[r].change = "done" => Owned(r, {"pending", "completed"})
        /\ request[r].code = "ok" =>
            /\ claim[ClaimOf(r)].state = "completed"
            /\ claim[ClaimOf(r)].owner = request[r].by
            /\ claim[ClaimOf(r)].fingerprint = request[r].fingerprint

\* Only an answered handler has completed its record.
CompletedByAnswered ==
    \A c \in Claims : claim[c].state = "completed" => At(claim[c].owner, "answered")

Inv == Typed /\ CompletedByAnswered /\ \A r \in Requests : Local(r) /\ Recorded(r)

---------------------------------------------------------------------------
\* Moves of one handler.

LEMMA KnownWords ==
    ASSUME NEW name \in DOMAIN Routes, NEW code \in Routes[name].refusals
    PROVE  code \in Words /\ code # "ok"
BY RoutesAssumption DEF Words, Codes

LEMMA NewRow ==
    ASSUME NEW r \in Requests
    PROVE  /\ NewRequest(r) \in Handlings /\ NewRequest(r).at = "new" /\ NewRequest(r).by = r
           /\ ~NewRequest(r).keyed /\ NewRequest(r).change = "none" /\ NewRequest(r).code = ""
<1>1. (CHOOSE f \in Fingerprints : TRUE) \in Fingerprints
    BY RoutesAssumption
<1>2. QED
    BY <1>1 DEF NewRequest, Handlings, Words, Codes, Points

\* The handler r becomes h, and no other moves.
Becomes(r, h) ==
    /\ request' \in [Requests -> Handlings]
    /\ request'[r] = h
    /\ \A q \in Requests \ {r} : request'[q] = request[q]

LEMMA OneBecomes ==
    ASSUME Typed, NEW r \in Requests, NEW h \in Handlings, request' = [request EXCEPT ![r] = h]
    PROVE  Becomes(r, h)
BY DEF Typed, Becomes

\* Goto changes the point only.
LEMMA GotoMoves ==
    ASSUME Typed, NEW r \in Requests, NEW point \in Points, Goto(r, point)
    PROVE  \E h \in Handlings :
             /\ Becomes(r, h) /\ h.at = point
             /\ h.route = request[r].route /\ h.token = request[r].token
             /\ h.keyed = request[r].keyed /\ h.fingerprint = request[r].fingerprint
             /\ h.change = request[r].change /\ h.code = request[r].code
             /\ h.by = request[r].by
<1> DEFINE h == [request[r] EXCEPT !.at = point]
<1>1. request[r] \in Handlings
    BY DEF Typed
<1>2. /\ h \in Handlings /\ h.at = point
      /\ h.route = request[r].route /\ h.token = request[r].token
      /\ h.keyed = request[r].keyed /\ h.fingerprint = request[r].fingerprint
      /\ h.change = request[r].change /\ h.code = request[r].code
      /\ h.by = request[r].by
    BY <1>1 DEF Handlings
<1>3. request' = [request EXCEPT ![r] = h]
    BY DEF Goto, Typed
<1> HIDE DEF h
<1>4. QED
    BY <1>2, <1>3, OneBecomes

\* An answer without a change is not under its key any more.
LEMMA AnswerMoves ==
    ASSUME Typed, NEW r \in Requests, NEW code \in Words, Answer(r, code)
    PROVE  \E h \in Handlings :
             /\ Becomes(r, h) /\ h.at = "answered" /\ h.code = code
             /\ h.change = request[r].change
             /\ request[r].change = "none" => ~h.keyed
             /\ request[r].change # "none" =>
                  /\ h.route = request[r].route /\ h.token = request[r].token
                  /\ h.keyed = request[r].keyed /\ h.fingerprint = request[r].fingerprint
                  /\ h.by = request[r].by
<1> DEFINE old == Forget(r)
           h == [old EXCEPT !.at = "answered", !.code = code]
<1>1. old \in Handlings
    BY NewRow DEF Typed, Forget
<1>2. old.change = request[r].change /\ (request[r].change = "none" => ~old.keyed)
      /\ (request[r].change # "none" => old = request[r])
    BY NewRow DEF Forget
<1>3. request' = [request EXCEPT ![r] = h]
    BY DEF Answer
<1> HIDE DEF old
<1>4. /\ h \in Handlings /\ h.at = "answered" /\ h.code = code
      /\ h.route = old.route /\ h.token = old.token
      /\ h.keyed = old.keyed /\ h.fingerprint = old.fingerprint
      /\ h.change = old.change /\ h.by = old.by
    BY <1>1 DEF Handlings, Points
<1> HIDE DEF h
<1>5. QED
    BY <1>2, <1>3, <1>4, OneBecomes

---------------------------------------------------------------------------
\* What a move of r leaves to the others.

\* A move of r writes only claims nobody has and claims of r that are not completed, and takes
\* no record away that a repeat holds; the claims it completes are those of r, which is then
\* answered.
Touches(r) ==
    /\ claim' \in [Claims -> ClaimStates]
    /\ \A c \in Claims :
        \/ claim'[c] = claim[c]
        \/ /\ claim[c] = NoClaim \/ (claim[c].state # "completed" /\ claim[c].owner = r)
           /\ claim'[c].state = "completed" =>
                claim'[c].owner = r /\ request'[r].at = "answered"
           /\ Found(c) => claim'[c].state \in {"pending", "completed"} \/ ~RowHeld(c)

LEMMA OthersKeep ==
    ASSUME Typed, NEW r \in Requests, NEW h \in Handlings, Becomes(r, h), Touches(r),
           NEW q \in Requests \ {r}, Local(q), Recorded(q)
    PROVE  Local(q)' /\ Recorded(q)'
<1>1. request'[q] = request[q]
    BY DEF Becomes
<1>2. Local(q)'
    BY <1>1 DEF Local, ClaimOf, User
<1>3. ASSUME request[q].keyed PROVE Recorded(q)'
    <2> DEFINE c == ClaimOf(q)
    <2>1. c \in Claims
        BY <1>3 DEF Local
    <2>2. c' = c
        BY <1>1 DEF ClaimOf, User
    <2>3. \/ claim'[c] = claim[c]
          \/ claim[c].state = "none"
          \/ claim[c].state # "completed" /\ claim[c].owner = r
        BY <2>1 DEF Touches, NoClaim
    <2>4. claim[c].owner = q => claim[c].state = "none" \/ claim'[c] = claim[c]
        BY <2>3
    <2>5. claim[c].state = "completed" => claim'[c] = claim[c]
        BY <2>3
    <2>6. At(q, "resolving") => claim'[c].state \in {"pending", "completed"}
        <3> SUFFICES ASSUME At(q, "resolving") PROVE claim'[c].state \in {"pending", "completed"}
            OBVIOUS
        <3>1. RowHeld(c)
            BY DEF RowHeld
        <3>2. Found(c)
            BY <1>3 DEF Recorded
        <3>3. QED
            BY <2>1, <3>1, <3>2 DEF Touches, Found
    <2> HIDE DEF c
    <2>7. Recorded(q) => Recorded(q)'
        BY <1>1, <1>3, <2>2, <2>4, <2>5, <2>6 DEF Recorded, Owned, Found, At, c
    <2>8. QED
        BY <2>7
<1>4. ~request[q].keyed => Recorded(q)'
    BY <1>1 DEF Recorded
<1>5. QED
    BY <1>2, <1>3, <1>4

LEMMA OneMoves ==
    ASSUME Inv, NEW r \in Requests, NEW h \in Handlings, Becomes(r, h), Touches(r),
           ~At(r, "answered"), session' \in [Tokens -> SessionStates],
           Local(r)', Recorded(r)'
    PROVE  Inv'
<1>1. Typed'
    BY DEF Inv, Typed, Touches, Becomes
<1>2. ASSUME NEW q \in Requests PROVE Local(q)' /\ Recorded(q)'
    BY OthersKeep DEF Inv
<1>3. ASSUME NEW c \in Claims, claim'[c].state = "completed"
      PROVE  request'[claim'[c].owner].at = "answered"
    <2>1. claim'[c] \in ClaimStates
        BY DEF Touches
    <2>2. claim'[c].owner \in Requests
        BY <2>1, <1>3 DEF ClaimStates, NoClaim
    <2>3. CASE claim'[c] = claim[c]
        <3>1. request[claim'[c].owner].at = "answered"
            BY <2>3, <1>3 DEF Inv, CompletedByAnswered, At
        <3>2. claim'[c].owner # r
            BY <3>1 DEF At
        <3>3. QED
            BY <2>2, <3>1, <3>2 DEF Becomes
    <2>4. CASE claim'[c] # claim[c]
        BY <2>4, <1>3 DEF Touches
    <2>5. QED
        BY <2>3, <2>4
<1>4. CompletedByAnswered'
    BY <1>3 DEF CompletedByAnswered, At
<1>5. QED
    BY <1>1, <1>2, <1>4 DEF Inv

\* A move that leaves the claims alone touches nobody's.
LEMMA TouchesNothing ==
    ASSUME Typed, NEW r \in Requests, UNCHANGED claim
    PROVE  Touches(r)
BY DEF Typed, Touches

---------------------------------------------------------------------------
\* The shapes of the moves.

\* An answer that makes no change and replays none.
LEMMA AnswerKeeps ==
    ASSUME Inv, NEW r \in Requests, NEW code \in Words, Answer(r, code), Touches(r),
           ~At(r, "answered"), session' \in [Tokens -> SessionStates],
           request[r].change # "done", code = "ok" => request[r].change = "none"
    PROVE  Inv'
<1>1. Typed /\ Local(r)
    BY DEF Inv
<1>2. PICK h \in Handlings :
             /\ Becomes(r, h) /\ h.at = "answered" /\ h.code = code
             /\ h.change = request[r].change
             /\ request[r].change = "none" => ~h.keyed
             /\ request[r].change # "none" =>
                  /\ h.route = request[r].route /\ h.token = request[r].token
                  /\ h.keyed = request[r].keyed /\ h.fingerprint = request[r].fingerprint
                  /\ h.by = request[r].by
    BY <1>1, AnswerMoves
<1>3. request'[r] = h
    BY <1>2 DEF Becomes
<1>4. request[r].change \in {"none", "begun", "done"}
    BY <1>1 DEF Typed, Handlings
<1>5. Local(r)'
    BY <1>1, <1>2, <1>3, <1>4 DEF Local, Ended, ClaimOf, User
<1>6. Recorded(r)'
    BY <1>2, <1>3, <1>4 DEF Recorded, At
<1>7. QED
    BY <1>2, <1>5, <1>6, OneMoves

\* A step on in the handler, before its first commit or to its refusal.
LEMMA GotoKeeps ==
    ASSUME Inv, NEW r \in Requests,
           NEW point \in {"asking", "inserting", "raced", "resolving", "serving", "locked",
                          "refused", "cleared"},
           Goto(r, point), Touches(r), session' \in [Tokens -> SessionStates],
           request[r].at \notin {"new"} \cup Ended,
           point \in {"asking", "inserting", "raced", "resolving"} => request[r].keyed,
           point = "resolving" => claim'[ClaimOf(r)].state \in {"pending", "completed"},
           request[r].change # "done", request[r].change # "none" => point = "refused",
           request[r].keyed /\ point \in {"serving", "locked"} =>
               LET record == claim'[ClaimOf(r)] IN
               record.state = "open" /\ record.owner = r /\ record.fingerprint = request[r].fingerprint
    PROVE  Inv'
<1>1. Typed /\ Local(r) /\ point \in Points
    BY DEF Inv, Points
<1>2. PICK h \in Handlings :
             /\ Becomes(r, h) /\ h.at = point
             /\ h.route = request[r].route /\ h.token = request[r].token
             /\ h.keyed = request[r].keyed /\ h.fingerprint = request[r].fingerprint
             /\ h.change = request[r].change /\ h.code = request[r].code
             /\ h.by = request[r].by
    BY <1>1, GotoMoves
<1>3. request'[r] = h
    BY <1>2 DEF Becomes
<1>4. Local(r)'
    BY <1>1, <1>2, <1>3 DEF Local, Ended, ClaimOf, User
<1>5. Recorded(r)'
    BY <1>1, <1>2, <1>3 DEF Recorded, Owned, Found, Local, Ended, At, ClaimOf, User
<1>6. ~At(r, "answered")
    BY DEF At, Ended
<1>7. QED
    BY <1>2, <1>4, <1>5, <1>6, OneMoves

---------------------------------------------------------------------------
\* One lemma per action.

LEMMA AdmitForm ==
    ASSUME NEW r \in Requests, Admit(r)
    PROVE  \E name \in DOMAIN Routes, token \in Tokens \cup {NoToken},
           keyed \in BOOLEAN, f \in Fingerprints \cup {request[r].fingerprint} :
         /\ At(r, "new")
         /\ keyed => Routes[name].keyed
         /\ Routes[name].who # "public" => Live(token)
         /\ request' = [request EXCEPT ![r] =
                  [@ EXCEPT !.at = IF keyed \/ Routes[name].loop THEN "admitted" ELSE "serving",
                            !.route = name,
                            !.token = token, !.keyed = keyed, !.fingerprint = f]]
         /\ UNCHANGED <<session, claim>>
BY DEF Admit

LEMMA AdmitKeeps ==
    ASSUME Inv, NEW r \in Requests, Admit(r)
    PROVE  Inv'
<1>1. PICK name \in DOMAIN Routes, token \in Tokens \cup {NoToken},
           keyed \in BOOLEAN, f \in Fingerprints \cup {request[r].fingerprint} :
         /\ At(r, "new")
         /\ keyed => Routes[name].keyed
         /\ Routes[name].who # "public" => Live(token)
         /\ request' = [request EXCEPT ![r] =
                  [@ EXCEPT !.at = IF keyed \/ Routes[name].loop THEN "admitted" ELSE "serving",
                            !.route = name,
                            !.token = token, !.keyed = keyed, !.fingerprint = f]]
         /\ UNCHANGED <<session, claim>>
    BY AdmitForm
<1>2. Typed /\ Local(r) /\ request[r] \in Handlings
    BY DEF Inv, Typed
<1> DEFINE at == IF keyed \/ Routes[name].loop THEN "admitted" ELSE "serving"
           h == [request[r] EXCEPT !.at = at, !.route = name,
                            !.token = token, !.keyed = keyed, !.fingerprint = f]
<1>0. at \in Points /\ at \in {"admitted", "serving"} /\ (keyed => at = "admitted")
    BY DEF Points
<1>3. /\ h \in Handlings /\ h.at = at
      /\ h.route = name /\ h.token = token /\ h.keyed = keyed
      /\ h.change = request[r].change /\ h.code = request[r].code /\ h.by = request[r].by
    BY <1>0, <1>2 DEF Handlings
<1>4. request' = [request EXCEPT ![r] = h]
    BY <1>1, <1>2 DEF Typed
<1> HIDE DEF h, at
<1>5. Becomes(r, h)
    BY <1>2, <1>3, <1>4, OneBecomes
<1>6. keyed => <<token[1], name>> \in Claims
    BY <1>1, RoutesAssumption DEF Live, Tokens, Claims
<1>7. Local(r)'
    BY <1>0, <1>1, <1>2, <1>3, <1>5, <1>6 DEF Local, Becomes, Ended, ClaimOf, User, At
<1>8. Recorded(r)'
    BY <1>0, <1>1, <1>2, <1>3, <1>5 DEF Recorded, Local, Becomes, Ended, At
<1>9. Touches(r) /\ session' \in [Tokens -> SessionStates]
    BY <1>1, <1>2, TouchesNothing DEF Typed
<1>10. QED
    BY <1>1, <1>3, <1>5, <1>7, <1>8, <1>9, OneMoves DEF At

LEMMA DenyKeeps ==
    ASSUME Inv, NEW r \in Requests, Deny(r)
    PROVE  Inv'
<1>1. PICK name \in DOMAIN Routes, token \in Tokens \cup {NoToken},
           binding \in Tokens \cup {Preauth} :
         /\ At(r, "new") /\ UNCHANGED <<session, claim>>
         /\ \E code \in Denials(name, token, binding) : Answer(r, code)
    BY DEF Deny
<1>2. PICK code \in Words : Answer(r, code)
    BY <1>1 DEF Denials, Words, Codes
<1>3. Typed /\ request[r].change = "none"
    BY <1>1 DEF Inv, Local, At, Ended
<1>4. Touches(r) /\ session' \in [Tokens -> SessionStates]
    BY <1>1, <1>3, TouchesNothing DEF Typed
<1>5. QED
    BY <1>1, <1>2, <1>3, <1>4, AnswerKeeps DEF At

LEMMA BeginLoginKeeps ==
    ASSUME Inv, NEW r \in Requests, BeginLogin(r)
    PROVE  Inv'
<1>1. Typed /\ Local(r) /\ request[r] \in Handlings
    BY DEF Inv, Typed
<1>2. At(r, "new") /\ request[r].change = "none" /\ UNCHANGED <<session, claim>>
    BY <1>1 DEF BeginLogin, Local, At, Ended
<1>3. Touches(r) /\ session' \in [Tokens -> SessionStates]
    BY <1>1, <1>2, TouchesNothing DEF Typed
<1>4. CASE Answer(r, "rate_limited")
    BY <1>2, <1>3, <1>4, AnswerKeeps DEF At, Words
<1>5. CASE ~Answer(r, "rate_limited")
    <2>1. PICK name \in DOMAIN Routes, token \in Tokens \cup {NoToken} :
             request' = [request EXCEPT ![r].at = "verifying", ![r].route = name,
                                        ![r].token = token]
        BY <1>5 DEF BeginLogin
    <2> DEFINE h == [request[r] EXCEPT !.at = "verifying", !.route = name, !.token = token]
    <2>2. /\ h \in Handlings /\ h.at = "verifying" /\ h.route = name /\ h.keyed = request[r].keyed
          /\ h.change = request[r].change /\ h.code = request[r].code /\ h.by = request[r].by
        BY <1>1 DEF Handlings, Points
    <2>3. request' = [request EXCEPT ![r] = h]
        BY <1>1, <2>1 DEF Typed
    <2> HIDE DEF h
    <2>4. Becomes(r, h)
        BY <1>1, <2>2, <2>3, OneBecomes
    <2>5. Local(r)' /\ Recorded(r)'
        BY <1>1, <1>2, <2>2, <2>4 DEF Local, Recorded, Becomes, Ended, At
    <2>6. QED
        BY <1>2, <1>3, <2>2, <2>4, <2>5, OneMoves DEF At
<1>6. QED
    BY <1>4, <1>5

\* The replay of a completed record: the answer is its owner's.
LEMMA ReplayKeeps ==
    ASSUME Inv, NEW r \in Requests, At(r, "resolving"),
           Row(r).state = "completed", Row(r).fingerprint = request[r].fingerprint,
           request' = [request EXCEPT ![r].at = "answered", ![r].code = "ok",
                                      ![r].by = Row(r).owner],
           UNCHANGED <<session, claim>>
    PROVE  Inv'
<1>1. Typed /\ Local(r) /\ request[r] \in Handlings /\ request[r].keyed /\ ClaimOf(r) \in Claims
    BY DEF Inv, Typed, Local, At
<1>2. Row(r).owner \in Requests
    BY <1>1 DEF Typed, Row, ClaimStates, NoClaim
<1> DEFINE h == [request[r] EXCEPT !.at = "answered", !.code = "ok", !.by = Row(r).owner]
<1>3. /\ h \in Handlings /\ h.at = "answered" /\ h.route = request[r].route
      /\ h.token = request[r].token /\ h.keyed = request[r].keyed
      /\ h.fingerprint = request[r].fingerprint
      /\ h.change = request[r].change /\ h.code = "ok" /\ h.by = Row(r).owner
    BY <1>1, <1>2 DEF Handlings, Points, Words, Codes
<1>4. request' = [request EXCEPT ![r] = h]
    BY <1>1 DEF Typed
<1> HIDE DEF h
<1>5. Becomes(r, h)
    BY <1>1, <1>3, <1>4, OneBecomes
<1>6. request[r].change = "none"
    BY <1>1 DEF Local, At, Ended
<1>7. Local(r)' /\ Recorded(r)'
    BY <1>1, <1>3, <1>5, <1>6
    DEF Local, Recorded, Owned, Becomes, Ended, At, ClaimOf, User, Row
<1>8. Touches(r) /\ session' \in [Tokens -> SessionStates]
    BY <1>1, TouchesNothing DEF Typed
<1>9. QED
    BY <1>3, <1>5, <1>7, <1>8, OneMoves DEF At

LEMMA ResolveKeeps ==
    ASSUME Inv, NEW r \in Requests, Resolve(r)
    PROVE  Inv'
<1>1. At(r, "resolving") /\ Replay(r) /\ UNCHANGED <<session, claim>>
    BY DEF Resolve
<1>2. /\ Typed /\ Local(r) /\ request[r].change = "none" /\ ~At(r, "answered")
      /\ Row(r).state \in {"pending", "completed"}
    BY <1>1 DEF Inv, Local, Recorded, Found, Row, At, Ended
<1>3. Touches(r) /\ session' \in [Tokens -> SessionStates]
    BY <1>1, <1>2, TouchesNothing DEF Typed
<1>4. ASSUME NEW code \in {"idempotency_conflict", "capacity_unavailable", "not_found"},
             Answer(r, code)
      PROVE  Inv'
    <2>1. code \in Words
        BY DEF Words, Codes
    <2>2. QED
        BY <1>2, <1>3, <1>4, <2>1, AnswerKeeps
<1>5. CASE ~\E code \in {"idempotency_conflict", "capacity_unavailable", "not_found"} :
             Answer(r, code)
    <2>1. /\ Row(r).fingerprint = request[r].fingerprint /\ Row(r).state = "completed"
          /\ request' = [request EXCEPT ![r].at = "answered", ![r].code = "ok",
                                        ![r].by = Row(r).owner]
        BY <1>1, <1>2, <1>5 DEF Replay
    <2>2. QED
        BY <1>1, <2>1, ReplayKeeps
<1>6. QED
    BY <1>4, <1>5

LEMMA HandlerStartKeeps ==
    ASSUME Inv, NEW r \in Requests, Start(r)
    PROVE  Inv'
<1>1. At(r, "admitted") /\ UNCHANGED <<session, claim>>
    BY DEF Start
<1>2. Typed /\ request[r].change = "none"
    BY <1>1 DEF Inv, Local, At, Ended
<1>3. Touches(r) /\ session' \in [Tokens -> SessionStates]
    BY <1>1, <1>2, TouchesNothing DEF Typed
<1>4. CASE request[r].keyed
    <2>1. Goto(r, "asking")
        BY <1>4 DEF Start
    <2>2. QED
        BY <1>1, <1>2, <1>3, <1>4, <2>1, GotoKeeps DEF At, Ended
<1>5. CASE ~request[r].keyed
    <2>1. Goto(r, "serving")
        BY <1>5 DEF Start
    <2>2. QED
        BY <1>1, <1>2, <1>3, <1>5, <2>1, GotoKeeps DEF At, Ended
<1>6. QED
    BY <1>4, <1>5

LEMMA LookupKeeps ==
    ASSUME Inv, NEW r \in Requests, Lookup(r)
    PROVE  Inv'
<1>1. At(r, "asking") /\ UNCHANGED <<session, claim>>
    BY DEF Lookup
<1>2. Typed /\ request[r].keyed /\ request[r].change = "none"
    BY <1>1 DEF Inv, Local, At, Ended
<1>3. Touches(r) /\ session' \in [Tokens -> SessionStates]
    BY <1>1, <1>2, TouchesNothing DEF Typed
<1>4. CASE Found(ClaimOf(r))
    <2>1. Goto(r, "resolving") /\ claim'[ClaimOf(r)].state \in {"pending", "completed"}
        BY <1>1, <1>4 DEF Lookup, Found
    <2>2. QED
        BY <1>1, <1>2, <1>3, <2>1, GotoKeeps DEF At, Ended
<1>5. CASE ~Found(ClaimOf(r))
    <2>1. Goto(r, "inserting")
        BY <1>5 DEF Lookup
    <2>2. QED
        BY <1>1, <1>2, <1>3, <2>1, GotoKeeps DEF At, Ended
<1>6. QED
    BY <1>4, <1>5

LEMMA LookupRacedKeeps ==
    ASSUME Inv, NEW r \in Requests, LookupRaced(r)
    PROVE  Inv'
<1>1. At(r, "raced") /\ UNCHANGED <<session, claim>>
    BY DEF LookupRaced
<1>2. /\ Typed /\ request[r].keyed /\ request[r].change = "none"
      /\ "internal_error" \in Words
    BY <1>1 DEF Inv, Local, At, Ended, Words, Codes
<1>3. Touches(r) /\ session' \in [Tokens -> SessionStates]
    BY <1>1, <1>2, TouchesNothing DEF Typed
<1>4. CASE Found(ClaimOf(r))
    <2>1. Goto(r, "resolving") /\ claim'[ClaimOf(r)].state \in {"pending", "completed"}
        BY <1>1, <1>4 DEF LookupRaced, Found
    <2>2. QED
        BY <1>1, <1>2, <1>3, <2>1, GotoKeeps DEF At, Ended
<1>5. CASE Answer(r, "internal_error")
    BY <1>1, <1>2, <1>3, <1>5, AnswerKeeps DEF At
<1>6. QED
    BY <1>4, <1>5 DEF LookupRaced

LEMMA InsertKeeps ==
    ASSUME Inv, NEW r \in Requests, Insert(r)
    PROVE  Inv'
<1>1. At(r, "inserting") /\ UNCHANGED session
    BY DEF Insert
<1>2. Typed /\ request[r] \in Handlings /\ request[r].keyed /\ ClaimOf(r) \in Claims /\ request[r].change = "none"
    BY <1>1 DEF Inv, Typed, Local, At, Ended
<1>3. session' \in [Tokens -> SessionStates]
    BY <1>1, <1>2 DEF Typed
<1>4. CASE Goto(r, "raced") /\ UNCHANGED claim
    <2>1. Touches(r)
        BY <1>2, <1>4, TouchesNothing
    <2>2. QED
        BY <1>1, <1>2, <1>3, <1>4, <2>1, GotoKeeps DEF At, Ended
<1>5. CASE Row(r) = NoClaim /\ Goto(r, "serving")
           /\ claim' = [claim EXCEPT ![ClaimOf(r)] =
                   [state |-> "open", owner |-> r, fingerprint |-> request[r].fingerprint]]
    <2> DEFINE record == [state |-> "open", owner |-> r, fingerprint |-> request[r].fingerprint]
    <2>1. record \in ClaimStates /\ record.state = "open" /\ record.owner = r
          /\ record.fingerprint = request[r].fingerprint
        BY <1>2 DEF ClaimStates, Handlings
    <2>2. claim' = [claim EXCEPT ![ClaimOf(r)] = record]
        BY <1>5
    <2> HIDE DEF record
    <2>3. Touches(r) /\ claim'[ClaimOf(r)] = record
        BY <1>2, <1>5, <2>1, <2>2 DEF Touches, Typed, Row, Found, NoClaim
    <2>4. QED
        BY <1>1, <1>2, <1>3, <1>5, <2>1, <2>3, GotoKeeps DEF At, Ended
<1>6. QED
    BY <1>4, <1>5 DEF Insert

LEMMA RevalidateKeeps ==
    ASSUME Inv, NEW r \in Requests, Revalidate(r)
    PROVE  Inv'
<1>1. At(r, "serving") /\ UNCHANGED <<session, claim>>
      /\ (Goto(r, "locked") \/ Goto(r, "refused"))
    BY DEF Revalidate
<1>2. Typed /\ Local(r) /\ Recorded(r) /\ request[r].change = "none"
    BY <1>1 DEF Inv, Local, At, Ended
<1>3. Touches(r) /\ session' \in [Tokens -> SessionStates]
    BY <1>1, <1>2, TouchesNothing DEF Typed
<1>4. request[r].keyed => Owned(r, {"open"})
    BY <1>1, <1>2 DEF Recorded
<1>5. QED
    BY <1>1, <1>2, <1>3, <1>4, GotoKeeps DEF At, Ended, Owned

LEMMA ReadKeeps ==
    ASSUME Inv, NEW r \in Requests, Read(r)
    PROVE  Inv'
<1>1. At(r, "serving") /\ Answer(r, "ok") /\ UNCHANGED <<session, claim>>
    BY DEF Read
<1>2. Typed /\ request[r].change = "none" /\ "ok" \in Words
    BY <1>1 DEF Inv, Local, At, Ended, Words, Codes
<1>3. Touches(r) /\ session' \in [Tokens -> SessionStates]
    BY <1>1, <1>2, TouchesNothing DEF Typed
<1>4. QED
    BY <1>1, <1>2, <1>3, AnswerKeeps DEF At

\* What a commit and a rollback do to the claims.
LEMMA CommittedTouches ==
    ASSUME Typed, NEW r \in Requests, claim' = Committed(r)
    PROVE  /\ Touches(r)
           /\ \A c \in Claims : claim[c].state = "open" /\ claim[c].owner = r =>
                /\ claim'[c].state = "pending" /\ claim'[c].owner = r
                /\ claim'[c].fingerprint = claim[c].fingerprint
<1>1. ASSUME NEW c \in Claims
      PROVE  /\ claim'[c] \in ClaimStates
             /\ \/ claim'[c] = claim[c]
                \/ /\ claim[c].state = "open" /\ claim[c].owner = r
                   /\ claim'[c].state = "pending" /\ claim'[c].owner = r
                   /\ claim'[c].fingerprint = claim[c].fingerprint
             /\ claim[c].state = "open" /\ claim[c].owner = r => claim'[c].state = "pending"
    <2>1. claim[c] \in ClaimStates
        BY DEF Typed
    <2>2. CASE claim[c].state = "open" /\ claim[c].owner = r
        <3>1. claim'[c] = [claim[c] EXCEPT !.state = "pending"]
            BY <2>2 DEF Committed
        <3>2. QED
            BY <2>1, <2>2, <3>1 DEF ClaimStates, NoClaim
    <2>3. CASE ~(claim[c].state = "open" /\ claim[c].owner = r)
        BY <2>1, <2>3 DEF Committed
    <2>4. QED
        BY <2>2, <2>3
<1>2. claim' \in [Claims -> ClaimStates]
    <2>1. claim' = [c \in Claims |-> claim'[c]]
        BY DEF Committed
    <2>2. QED
        BY <1>1, <2>1
<1>3. Touches(r)
    BY <1>1, <1>2 DEF Touches, Found
<1>4. QED
    BY <1>1, <1>3

LEMMA ReleasedTouches ==
    ASSUME Typed, NEW r \in Requests, claim' = Released(r)
    PROVE  Touches(r)
<1>1. NoClaim \in ClaimStates /\ NoClaim.state = "none"
    BY DEF ClaimStates, NoClaim
<1>2. ASSUME NEW c \in Claims
      PROVE  /\ claim'[c] \in ClaimStates
             /\ \/ claim'[c] = claim[c]
                \/ claim[c].state = "open" /\ claim[c].owner = r /\ claim'[c] = NoClaim
    BY <1>1 DEF Released, Typed
<1>3. claim' \in [Claims -> ClaimStates]
    BY <1>2 DEF Released
<1>4. QED
    BY <1>1, <1>2, <1>3 DEF Touches, Found

\* Ready handlers: at "locked" or "serving", with no change yet, their claim open.
LEMMA ReadyKnows ==
    ASSUME Inv, NEW r \in Requests, Ready(r)
    PROVE  /\ request[r].at \in {"serving", "locked"} /\ request[r].change = "none"
           /\ request[r].route \in DOMAIN Routes
           /\ request[r].keyed => ClaimOf(r) \in Claims /\ Owned(r, {"open"})
BY DEF Inv, Ready, Local, Recorded, At, Ended

LEMMA CommitKeeps ==
    ASSUME Inv, NEW r \in Requests, Commit(r)
    PROVE  Inv'
<1>1. Typed /\ Local(r) /\ request[r] \in Handlings /\ Ready(r)
    BY DEF Inv, Typed, Commit
<1>2. request' = [request EXCEPT ![r].change = "done",
                      ![r].at = IF request[r].keyed THEN "served" ELSE "answered",
                      ![r].code = IF request[r].keyed THEN "" ELSE "ok"]
    BY DEF Commit
<1> DEFINE at == IF request[r].keyed THEN "served" ELSE "answered"
           code == IF request[r].keyed THEN "" ELSE "ok"
           h == [request[r] EXCEPT !.change = "done", !.at = at, !.code = code]
<1>0. at \in Points /\ code \in Words
    BY DEF Points, Words, Codes
<1>3. request' = [request EXCEPT ![r] = h]
    BY <1>1, <1>2 DEF Typed
<1> HIDE DEF at, code
<1>4. /\ h \in Handlings /\ h.at = at /\ h.code = code
      /\ h.route = request[r].route /\ h.token = request[r].token
      /\ h.keyed = request[r].keyed /\ h.fingerprint = request[r].fingerprint
      /\ h.change = "done" /\ h.by = request[r].by
    BY <1>0, <1>1 DEF Handlings
<1> HIDE DEF h
<1> USE DEF at, code
<1>5. Becomes(r, h)
    BY <1>1, <1>3, <1>4, OneBecomes
<1>6. claim' = Committed(r) /\ UNCHANGED session
    BY DEF Commit
<1>7. Touches(r) /\ session' \in [Tokens -> SessionStates]
    BY <1>1, <1>6, CommittedTouches DEF Typed
<1>8. Local(r)'
    BY <1>1, <1>4, <1>5, ReadyKnows DEF Local, Becomes, Ended, ClaimOf, User
<1>9. request[r].keyed =>
        LET record == claim'[ClaimOf(r)] IN
        record.state = "pending" /\ record.owner = r /\ record.fingerprint = request[r].fingerprint
    BY <1>1, <1>6, ReadyKnows, CommittedTouches DEF Owned
<1>10. Recorded(r)'
    BY <1>4, <1>5, <1>9 DEF Recorded, Owned, Becomes, At, ClaimOf, User
<1>11. QED
    BY <1>1, <1>4, <1>5, <1>7, <1>8, <1>10, ReadyKnows, OneMoves DEF At

LEMMA BeginKeeps ==
    ASSUME Inv, NEW r \in Requests, Begin(r)
    PROVE  Inv'
<1>1. Typed /\ Local(r) /\ request[r] \in Handlings /\ Ready(r)
    BY DEF Inv, Typed, Begin
<1> DEFINE h == [request[r] EXCEPT !.change = "begun", !.at = "calling"]
<1>2. /\ h \in Handlings /\ h.at = "calling"
      /\ h.route = request[r].route /\ h.token = request[r].token
      /\ h.keyed = request[r].keyed /\ h.fingerprint = request[r].fingerprint
      /\ h.change = "begun" /\ h.by = request[r].by /\ h.code = request[r].code
    BY <1>1 DEF Handlings, Points
<1>3. request' = [request EXCEPT ![r] = h]
    BY <1>1 DEF Typed, Begin
<1> HIDE DEF h
<1>4. Becomes(r, h)
    BY <1>1, <1>2, <1>3, OneBecomes
<1>5. claim' = Committed(r) /\ UNCHANGED session
    BY DEF Begin
<1>6. Touches(r) /\ session' \in [Tokens -> SessionStates]
    BY <1>1, <1>5, CommittedTouches DEF Typed
<1>7. Local(r)'
    BY <1>1, <1>2, <1>4, ReadyKnows DEF Local, Becomes, Ended, ClaimOf, User
<1>8. request[r].keyed =>
        LET record == claim'[ClaimOf(r)] IN
        record.state = "pending" /\ record.owner = r /\ record.fingerprint = request[r].fingerprint
    BY <1>1, <1>5, ReadyKnows, CommittedTouches DEF Owned
<1>9. request[r].code # "ok"
    BY <1>1, ReadyKnows DEF Local
<1>10. Recorded(r)'
    BY <1>2, <1>4, <1>8, <1>9 DEF Recorded, Owned, Becomes, At, ClaimOf, User
<1>11. QED
    BY <1>1, <1>2, <1>4, <1>6, <1>7, <1>10, ReadyKnows, OneMoves DEF At

LEMMA FinishKeeps ==
    ASSUME Inv, NEW r \in Requests, Finish(r)
    PROVE  Inv'
<1>1. Typed /\ Local(r) /\ Recorded(r) /\ request[r] \in Handlings /\ At(r, "calling")
    BY DEF Inv, Typed, Finish
<1>2. request' = [request EXCEPT ![r].change = "done",
                      ![r].at = IF request[r].keyed THEN "served" ELSE "answered",
                      ![r].code = IF request[r].keyed THEN "" ELSE "ok"]
    BY DEF Finish
<1> DEFINE at == IF request[r].keyed THEN "served" ELSE "answered"
           code == IF request[r].keyed THEN "" ELSE "ok"
           h == [request[r] EXCEPT !.change = "done", !.at = at, !.code = code]
<1>0. at \in Points /\ code \in Words
    BY DEF Points, Words, Codes
<1>3. request' = [request EXCEPT ![r] = h]
    BY <1>1, <1>2 DEF Typed
<1> HIDE DEF at, code
<1>4. /\ h \in Handlings /\ h.at = at /\ h.code = code
      /\ h.route = request[r].route /\ h.token = request[r].token
      /\ h.keyed = request[r].keyed /\ h.fingerprint = request[r].fingerprint
      /\ h.change = "done" /\ h.by = request[r].by
    BY <1>0, <1>1 DEF Handlings
<1> HIDE DEF h
<1> USE DEF at, code
<1>5. Becomes(r, h)
    BY <1>1, <1>3, <1>4, OneBecomes
<1>6. UNCHANGED <<session, claim>>
    BY DEF Finish
<1>7. Touches(r) /\ session' \in [Tokens -> SessionStates]
    BY <1>1, <1>6, TouchesNothing DEF Typed
<1>8. Local(r)'
    BY <1>1, <1>4, <1>5 DEF Local, Becomes, Ended, ClaimOf, User, At
<1>9. Recorded(r)'
    BY <1>1, <1>4, <1>5, <1>6 DEF Recorded, Owned, Becomes, At, ClaimOf, User
<1>10. QED
    BY <1>1, <1>4, <1>5, <1>7, <1>8, <1>9, OneMoves DEF At

LEMMA RefuseKeeps ==
    ASSUME Inv, NEW r \in Requests, Refuse(r)
    PROVE  Inv'
<1>1. Typed /\ Goto(r, "refused") /\ UNCHANGED session
    BY DEF Inv, Refuse
<1>2. Ready(r) \/ At(r, "calling")
    BY DEF Refuse
<1>3. request[r].at \notin {"new"} \cup Ended /\ request[r].change # "done"
    BY <1>2, ReadyKnows DEF Inv, Local, At, Ended
<1>4. UNCHANGED claim \/ claim' = Released(r)
    BY DEF Refuse
<1>5. Touches(r) /\ session' \in [Tokens -> SessionStates]
    BY <1>1, <1>4, TouchesNothing, ReleasedTouches DEF Typed
<1>6. QED
    BY <1>1, <1>3, <1>5, GotoKeeps

LEMMA AuditFailsKeeps ==
    ASSUME Inv, NEW r \in Requests, AuditFails(r)
    PROVE  Inv'
<1>1. Typed /\ Answer(r, "audit_unavailable") /\ claim' = Released(r) /\ UNCHANGED session
    BY DEF Inv, AuditFails
<1>2. Ready(r) \/ At(r, "calling")
    BY DEF AuditFails
<1>3. ~At(r, "answered") /\ request[r].change # "done"
    BY <1>2, ReadyKnows DEF Inv, Local, At, Ended
<1>4. Touches(r) /\ session' \in [Tokens -> SessionStates]
    BY <1>1, ReleasedTouches DEF Typed
<1>5. "audit_unavailable" \in Words
    BY DEF Words, Codes
<1>6. QED
    BY <1>1, <1>3, <1>4, <1>5, AnswerKeeps

\* A refused handler deletes its own record, which no answer has completed.
LEMMA AbandonKeeps ==
    ASSUME Inv, NEW r \in Requests, Abandon(r)
    PROVE  Inv'
<1>1. Typed /\ Local(r) /\ At(r, "refused") /\ UNCHANGED session
    BY DEF Inv, Abandon
<1>2. ~At(r, "answered") /\ request[r].change # "done"
    BY <1>1 DEF Local, At, Ended
<1>3. PICK code \in Asks(r).refusals : Answer(r, code)
    BY DEF Abandon
<1>4. request[r].route \in DOMAIN Routes
    BY <1>1 DEF Local, At, Ended
<1>5. code \in Words /\ code # "ok"
    BY <1>3, <1>4, KnownWords DEF Asks
<1>6. Touches(r)
    <2>1. CASE UNCHANGED claim
        BY <1>1, <2>1, TouchesNothing
    <2>2. CASE ~UNCHANGED claim
        <3>1. /\ request[r].keyed /\ Row(r).owner = r /\ ~RowHeld(ClaimOf(r))
              /\ claim' = [claim EXCEPT ![ClaimOf(r)] = NoClaim]
            BY <2>2 DEF Abandon
        <3>2. ClaimOf(r) \in Claims
            BY <1>1, <3>1 DEF Local
        <3>3. Row(r).state # "completed"
            BY <1>2, <3>1, <3>2 DEF Inv, CompletedByAnswered, Row
        <3>4. NoClaim \in ClaimStates /\ NoClaim.state = "none"
            BY DEF ClaimStates, NoClaim
        <3>5. QED
            BY <1>1, <3>1, <3>2, <3>3, <3>4 DEF Touches, Typed, Row
    <2>3. QED
        BY <2>1, <2>2
<1>7. session' \in [Tokens -> SessionStates]
    BY <1>1 DEF Typed
<1>8. QED
    BY <1>2, <1>3, <1>5, <1>6, <1>7, AnswerKeeps

LEMMA CompleteKeeps ==
    ASSUME Inv, NEW r \in Requests, Complete(r)
    PROVE  Inv'
<1>1. Typed /\ Local(r) /\ request[r] \in Handlings /\ At(r, "served") /\ UNCHANGED session
    BY DEF Inv, Typed, Complete
<1>2. /\ request[r].keyed /\ ClaimOf(r) \in Claims /\ Owned(r, {"pending"})
      /\ request[r].by = r /\ ~At(r, "answered")
    BY <1>1 DEF Inv, Local, Recorded, At, Ended
<1> DEFINE h == [request[r] EXCEPT !.at = "answered", !.code = "ok"]
           record == [claim[ClaimOf(r)] EXCEPT !.state = "completed"]
<1>3. /\ h \in Handlings /\ h.at = "answered" /\ h.code = "ok"
      /\ h.route = request[r].route /\ h.token = request[r].token
      /\ h.keyed = request[r].keyed /\ h.fingerprint = request[r].fingerprint
      /\ h.change = request[r].change /\ h.by = r
    BY <1>1, <1>2 DEF Handlings, Points, Words, Codes
<1>4. /\ record \in ClaimStates /\ record.state = "completed" /\ record.owner = r
      /\ record.fingerprint = request[r].fingerprint
    BY <1>1, <1>2 DEF Typed, ClaimStates, NoClaim, Owned
<1>5. request' = [request EXCEPT ![r] = h]
    BY <1>1 DEF Typed, Complete
<1>6. claim' = [claim EXCEPT ![ClaimOf(r)] = record]
    BY <1>1, <1>2 DEF Typed, Complete
<1> HIDE DEF h, record
<1>7. Becomes(r, h)
    BY <1>1, <1>3, <1>5, OneBecomes
<1>8. claim'[ClaimOf(r)] = record /\ Touches(r)
    BY <1>1, <1>2, <1>3, <1>4, <1>6, <1>7 DEF Touches, Typed, Owned, Becomes
<1>9. Local(r)'
    BY <1>1, <1>3, <1>7 DEF Local, Becomes, Ended, ClaimOf, User, At
<1>10. Recorded(r)'
    BY <1>3, <1>4, <1>7, <1>8 DEF Recorded, Owned, Becomes, At, ClaimOf, User
<1>11. session' \in [Tokens -> SessionStates]
    BY <1>1 DEF Typed
<1>12. QED
    BY <1>2, <1>3, <1>7, <1>8, <1>9, <1>10, <1>11, OneMoves

LEMMA PasswordsKeep ==
    ASSUME Inv, NEW r \in Requests, WrongPassword(r) \/ RightPassword(r)
    PROVE  Inv'
<1>1. Typed /\ At(r, "verifying") /\ UNCHANGED <<session, claim>>
    BY DEF Inv, WrongPassword, RightPassword
<1>2. /\ ~At(r, "answered") /\ request[r].change = "none"
      /\ request[r].at \notin {"new"} \cup Ended
    BY <1>1 DEF Inv, Local, At, Ended
<1>3. Touches(r) /\ session' \in [Tokens -> SessionStates]
    BY <1>1, TouchesNothing DEF Typed
<1>4. "invalid_credentials" \in Words
    BY DEF Words
<1>5. CASE Answer(r, "invalid_credentials")
    BY <1>2, <1>3, <1>4, <1>5, AnswerKeeps
<1>6. CASE Goto(r, "cleared")
    BY <1>2, <1>3, <1>6, GotoKeeps
<1>7. QED
    BY <1>5, <1>6 DEF WrongPassword, RightPassword

LEMMA SessionsKeep ==
    ASSUME Inv, NEW r \in Requests, CreateSession(r) \/ Logout(r)
    PROVE  Inv'
<1>1. /\ Typed /\ (At(r, "cleared") \/ At(r, "serving"))
      /\ Answer(r, "ok") /\ UNCHANGED claim
    BY DEF Inv, CreateSession, Logout
<1>2. ~At(r, "answered") /\ request[r].change = "none"
    BY <1>1 DEF Inv, Local, At, Ended
<1>3. session' \in [Tokens -> SessionStates]
    BY <1>1 DEF Typed, CreateSession, Logout, SessionStates
<1>4. Touches(r) /\ "ok" \in Words
    BY <1>1, TouchesNothing DEF Words, Codes
<1>5. QED
    BY <1>1, <1>2, <1>3, <1>4, AnswerKeeps

LEMMA PassagesKeep ==
    ASSUME Inv, session' \in [Tokens -> SessionStates], UNCHANGED <<request, claim>>
    PROVE  Inv'
<1>1. Typed' /\ CompletedByAnswered'
    BY DEF Inv, Typed, CompletedByAnswered, At
<1>2. ASSUME NEW q \in Requests PROVE Local(q)' /\ Recorded(q)'
    <2>1. Local(q) /\ Recorded(q)
        BY DEF Inv
    <2>2. QED
        BY <2>1 DEF Local, Recorded, Owned, Found, At, ClaimOf, User
<1>3. QED
    BY <1>1, <1>2 DEF Inv

\* A crash: what was not committed is gone, and so is the handler that had not answered.
LEMMA CrashKeeps ==
    ASSUME Inv, Crash
    PROVE  Inv'
<1>1. Typed /\ UNCHANGED session
    BY DEF Inv, Crash
<1>2. ASSUME NEW c \in Claims
      PROVE  /\ claim'[c] \in ClaimStates
             /\ claim[c].state \in {"pending", "completed"} => claim'[c] = claim[c]
             /\ claim'[c].state = "completed" => claim[c].state = "completed"
    BY <1>1 DEF Crash, Typed, ClaimStates, NoClaim
<1>3. ASSUME NEW q \in Requests
      PROVE  /\ request'[q] \in Handlings
             /\ \/ request'[q] = request[q] /\ request[q].at \in {"new"} \cup Ended
                \/ /\ request[q].at \notin {"new"} \cup Ended /\ request'[q].at = "lost"
                   /\ request'[q].change = request[q].change
                   /\ request'[q].code # "ok"
                   /\ request[q].change = "none" => ~request'[q].keyed
                   /\ request[q].change # "none" =>
                        /\ request'[q].route = request[q].route
                        /\ request'[q].token = request[q].token
                        /\ request'[q].keyed = request[q].keyed
                        /\ request'[q].fingerprint = request[q].fingerprint
    <2>1. request[q] \in Handlings /\ Local(q)
        BY <1>1 DEF Inv, Typed
    <2>2. CASE request[q].at \in {"new"} \cup Ended
        BY <2>1, <2>2 DEF Crash, Ended
    <2>3. CASE request[q].at \notin {"new"} \cup Ended
        <3> DEFINE old == Forget(q)
        <3>1. /\ old \in Handlings /\ old.change = request[q].change /\ old.code # "ok"
              /\ request[q].change = "none" => ~old.keyed
              /\ request[q].change # "none" => old = request[q]
            BY <2>1, <2>3, NewRow DEF Forget, Local, Ended
        <3>2. request'[q] = [old EXCEPT !.at = "lost"]
            BY <2>3 DEF Crash, Ended
        <3> HIDE DEF old
        <3>3. QED
            BY <2>3, <3>1, <3>2 DEF Handlings, Points
    <2>4. QED
        BY <2>2, <2>3
<1>4. Typed'
    <2>1. request' = [q \in Requests |-> request'[q]] /\ claim' = [c \in Claims |-> claim'[c]]
        BY DEF Crash
    <2>2. QED
        BY <1>1, <1>2, <1>3, <2>1 DEF Typed
<1>5. ASSUME NEW q \in Requests PROVE Local(q)' /\ Recorded(q)'
    <2>1. Local(q) /\ Recorded(q) /\ request[q] \in Handlings
        BY <1>1 DEF Inv, Typed
    <2>2. Local(q)'
        BY <1>3, <2>1 DEF Local, Ended, ClaimOf, User, Handlings
    <2>3. CASE request'[q].keyed
        <3>1. /\ request[q].keyed /\ ClaimOf(q)' = ClaimOf(q) /\ ClaimOf(q) \in Claims
              /\ request'[q].change = request[q].change
              /\ request'[q].fingerprint = request[q].fingerprint
              /\ request'[q].code = "ok" => request'[q] = request[q]
            BY <1>3, <2>1, <2>3 DEF Local, ClaimOf, User, Handlings
        <3>2. claim[ClaimOf(q)].state \in {"pending", "completed"}
                => claim'[ClaimOf(q)] = claim[ClaimOf(q)]
            BY <1>2, <3>1
        <3>3. request'[q].at \in {"new"} \cup Ended
            BY <1>3 DEF Ended
        <3>4. QED
            BY <2>1, <2>2, <3>1, <3>2, <3>3 DEF Recorded, Owned, Found, At, Ended, Local
    <2>4. QED
        BY <2>2, <2>3 DEF Recorded
<1>6. CompletedByAnswered'
    <2>1. ASSUME NEW c \in Claims, claim'[c].state = "completed"
          PROVE  request'[claim'[c].owner].at = "answered"
        <3>1. claim[c].state = "completed" /\ claim'[c] = claim[c]
            BY <1>2, <2>1
        <3>2. request[claim[c].owner].at = "answered"
            BY <3>1 DEF Inv, CompletedByAnswered, At
        <3>3. claim[c].owner \in Requests
            BY <1>1, <3>1 DEF Typed, ClaimStates, NoClaim
        <3>4. QED
            BY <1>3, <3>1, <3>2, <3>3 DEF Ended
    <2>2. QED
        BY <2>1 DEF CompletedByAnswered, At
<1>7. QED
    BY <1>4, <1>5, <1>6 DEF Inv

LEMMA InitHasInv ==
    ASSUME Init
    PROVE  Inv
<1>1. Typed
    <2>1. NoClaim \in ClaimStates
        BY DEF ClaimStates
    <2>2. claim \in [Claims -> ClaimStates]
        BY <2>1 DEF Init
    <2>3. request \in [Requests -> Handlings]
        BY NewRow DEF Init
    <2>4. session \in [Tokens -> SessionStates]
        BY DEF Init, SessionStates
    <2>5. QED
        BY <2>2, <2>3, <2>4 DEF Typed
<1>2. ASSUME NEW c \in Claims PROVE claim[c].state = "none"
    BY DEF Init, NoClaim
<1>3. CompletedByAnswered
    BY <1>2 DEF CompletedByAnswered
<1>4. ASSUME NEW q \in Requests PROVE Local(q) /\ Recorded(q)
    BY NewRow DEF Init, Local, Recorded, Ended
<1>5. QED
    BY <1>1, <1>3, <1>4 DEF Inv

LEMMA NextKeeps ==
    ASSUME Inv, [Next]_vars
    PROVE  Inv'
<1>1. CASE \E r \in Requests : Admit(r) \/ Deny(r) \/ BeginLogin(r) \/ RequestStep(r)
    BY <1>1, AdmitKeeps, DenyKeeps, BeginLoginKeeps, HandlerStartKeeps, LookupKeeps, InsertKeeps,
       LookupRacedKeeps, ResolveKeeps, RevalidateKeeps, ReadKeeps, CommitKeeps, BeginKeeps,
       FinishKeeps, RefuseKeeps, AuditFailsKeeps, AbandonKeeps, CompleteKeeps, PasswordsKeep, SessionsKeep
    DEF RequestStep
<1>2. CASE Passage
    <2>1. CASE Crash
        BY <2>1, CrashKeeps
    <2>2. CASE ~Crash
        <3>1. UNCHANGED <<request, claim>> /\ session' \in [Tokens -> SessionStates]
            BY <1>2, <2>2
            DEF Passage, SessionAges, WindowPasses, BlockPasses, DisableUser, Inv, Typed,
                SessionStates
        <3>2. QED
            BY <3>1, PassagesKeep
    <2>3. QED
        BY <2>1, <2>2
<1>3. CASE UNCHANGED vars
    BY <1>3, PassagesKeep DEF vars, Inv, Typed
<1>4. QED
    BY <1>1, <1>2, <1>3 DEF Next

LEMMA Invariance == Spec => []Inv
BY InitHasInv, NextKeeps, PTL DEF Spec

---------------------------------------------------------------------------
\* Theorems.

\* One key changes the product once, however many requests carry it: of those in flight,
\* refused, lost and sent again at most one has made its change, and the record names that
\* one as long as it stands (begin_idempotent, _abandon_idempotent_claim).
THEOREM OneEffect == Spec => []OneEffectPerKey
<1>1. ASSUME Inv PROVE OneEffectPerKey
    <2>1. ASSUME NEW c \in Claims, NEW r \in Under(c), request[r].change = "done"
          PROVE  claim[c].state # "none" /\ claim[c].owner = r
        BY <1>1, <2>1 DEF Inv, Under, Recorded, Owned
    <2>2. ASSUME NEW c \in Claims
          PROVE  Cardinality({ r \in Under(c) : request[r].change = "done" }) <= 1
        <3> DEFINE D == { r \in Under(c) : request[r].change = "done" }
        <3>1. CASE D = {}
            BY <3>1, FS_EmptySet
        <3>2. CASE D # {}
            <4>1. PICK r \in D : TRUE
                BY <3>2
            <4>2. D = {r}
                BY <2>1, <4>1
            <4> HIDE DEF D
            <4>3. Cardinality(D) = 1
                BY <4>2, FS_Singleton
            <4>4. QED
                BY <4>3 DEF D
        <3>3. QED
            BY <3>1, <3>2
    <2>3. QED
        BY <2>1, <2>2 DEF OneEffectPerKey, NoClaim
<1>2. QED
    BY <1>1, Invariance, PTL

\* Two successes answered under one key are one result and were asked for with one payload:
\* nothing is replayed to another request (_resolve_existing, fingerprint_payload).
THEOREM ReplaysAgree == Spec => []SuccessesAgree
<1>1. ASSUME Inv PROVE SuccessesAgree
    BY <1>1 DEF Inv, SuccessesAgree, Under, Recorded
<1>2. QED
    BY <1>1, Invariance, PTL

---------------------------------------------------------------------------
\* The rows a guarded handler holds.

\* A handler past revalidate_mutation_actor holds a session that is not revoked, of an account
\* that is not disabled: whoever would change either waits for it.
Held ==
    \A r \in Requests : At(r, "locked") =>
        /\ request[r].token \in Tokens
        /\ session[request[r].token] # "revoked"
        /\ User(r) \notin disabled

Moves(r) == Admit(r) \/ Deny(r) \/ BeginLogin(r) \/ RequestStep(r)

LEMMA AnswerChanges ==
    ASSUME Typed, NEW r \in Requests, NEW code, Answer(r, code)
    PROVE  request'[r].at = "answered" /\ request'[r].change = request[r].change
<1>1. Forget(r) \in Handlings /\ Forget(r).change = request[r].change
    BY NewRow DEF Typed, Forget
<1>2. request'[r] = [Forget(r) EXCEPT !.at = "answered", !.code = code]
    BY DEF Typed, Answer
<1>3. QED
    BY <1>1, <1>2 DEF Handlings

\* A handler moves alone; it reaches "locked" with a live session only; it makes its change
\* when it is ready or has begun it.
LEMMA OneMovesAlone ==
    ASSUME Inv, NEW r \in Requests, Moves(r)
    PROVE  /\ \A q \in Requests \ {r} : request'[q] = request[q]
           /\ request'[r].at = "locked" =>
                /\ Live(request[r].token) /\ request'[r].token = request[r].token
                /\ UNCHANGED <<session, disabled>>
           /\ request[r].change = "none" /\ request'[r].change # "none" => Ready(r)
<1>1. Typed /\ Local(r) /\ request[r] \in Handlings
    BY DEF Inv, Typed
<1>2. CASE \E code : Answer(r, code)
    <2>1. request'[r].at = "answered" /\ request'[r].change = request[r].change
        BY <1>1, <1>2, AnswerChanges
    <2>2. QED
        BY <1>1, <1>2, <2>1 DEF Answer, Typed
<1>3. CASE \E point \in Points \ {"locked"} : Goto(r, point)
    <2>1. PICK point \in Points \ {"locked"} : Goto(r, point)
        BY <1>3
    <2>2. PICK h \in Handlings :
            Becomes(r, h) /\ h.at = point /\ h.change = request[r].change
        BY <1>1, <2>1, GotoMoves
    <2>3. QED
        BY <1>1, <2>1, <2>2 DEF Becomes
<1>4. CASE Revalidate(r) /\ Goto(r, "locked")
    BY <1>1, <1>4 DEF Revalidate, Goto, Typed, Handlings
<1>5. CASE Admit(r)
    <2>1. PICK name \in DOMAIN Routes, token \in Tokens \cup {NoToken},
               keyed \in BOOLEAN, f \in Fingerprints \cup {request[r].fingerprint} :
             /\ At(r, "new")
             /\ keyed => Routes[name].keyed
             /\ Routes[name].who # "public" => Live(token)
             /\ request' = [request EXCEPT ![r] =
                      [@ EXCEPT !.at = IF keyed \/ Routes[name].loop THEN "admitted"
                                       ELSE "serving",
                                !.route = name, !.token = token, !.keyed = keyed,
                                !.fingerprint = f]]
             /\ UNCHANGED <<session, claim>>
        BY <1>5, AdmitForm
    <2> DEFINE at == IF keyed \/ Routes[name].loop THEN "admitted" ELSE "serving"
    <2> DEFINE h == [request[r] EXCEPT !.at = at, !.route = name, !.token = token,
                                       !.keyed = keyed, !.fingerprint = f]
    <2>2. h.at # "locked" /\ h.change = request[r].change
        BY <1>1 DEF Handlings
    <2>3. request' = [request EXCEPT ![r] = h]
        BY <1>1, <2>1 DEF Typed
    <2> HIDE DEF h
    <2>4. QED
        BY <1>1, <2>2, <2>3 DEF Typed
<1>6. CASE BeginLogin(r) /\ ~Answer(r, "rate_limited")
    <2>1. PICK name, token :
             request' = [request EXCEPT ![r].at = "verifying", ![r].route = name,
                                        ![r].token = token]
        BY <1>6 DEF BeginLogin
    <2> DEFINE h == [request[r] EXCEPT !.at = "verifying", !.route = name, !.token = token]
    <2>2. h.at = "verifying" /\ h.change = request[r].change
        BY <1>1 DEF Handlings
    <2>3. request' = [request EXCEPT ![r] = h]
        BY <1>1, <2>1 DEF Typed
    <2> HIDE DEF h
    <2>4. QED
        BY <1>1, <2>2, <2>3 DEF Typed
<1>7. CASE Commit(r) \/ Begin(r)
    <2>1. Ready(r) /\ \A q \in Requests \ {r} : request'[q] = request[q]
        BY <1>1, <1>7 DEF Commit, Begin, Typed
    <2>2. CASE Begin(r)
        BY <1>1, <2>1, <2>2 DEF Begin, Typed, Handlings
    <2>3. CASE Commit(r)
        <3> DEFINE at == IF request[r].keyed THEN "served" ELSE "answered"
                   code == IF request[r].keyed THEN "" ELSE "ok"
        <3>1. request' = [request EXCEPT ![r].change = "done", ![r].at = at, ![r].code = code]
            BY <2>3 DEF Commit
        <3>2. at # "locked"
            OBVIOUS
        <3> HIDE DEF at, code
        <3>3. request'[r].at = at
            BY <1>1, <3>1 DEF Typed, Handlings
        <3>4. QED
            BY <2>1, <3>2, <3>3
    <2>4. QED
        BY <1>7, <2>2, <2>3
<1>8. CASE Finish(r)
    BY <1>1, <1>8 DEF Finish, Typed, Handlings, Local, At
<1>9. CASE Complete(r)
    BY <1>1, <1>9 DEF Complete, Typed, Handlings
<1>10. CASE /\ Resolve(r)
            /\ request' = [request EXCEPT ![r].at = "answered", ![r].code = "ok",
                                          ![r].by = Row(r).owner]
    BY <1>1, <1>10 DEF Typed, Handlings
<1>11. QED
    BY <1>2, <1>3, <1>4, <1>5, <1>6, <1>7, <1>8, <1>9, <1>10
    DEF Moves, RequestStep, Start, Lookup, LookupRaced, Resolve, Replay, Deny, BeginLogin,
        Insert, Revalidate, Read, Refuse, AuditFails, Abandon, WrongPassword, RightPassword,
        CreateSession, Logout, Points

\* A revocation waits for whoever holds the session.
LEMMA RevocationsWait ==
    ASSUME Inv, NEW r \in Requests, Moves(r)
    PROVE  /\ UNCHANGED disabled
           /\ \A t \in Tokens : session'[t] = "revoked" =>
                session[t] = "revoked" \/ ~Locked(t)
<1>1. session \in [Tokens -> SessionStates]
    BY DEF Inv, Typed
<1>2. CASE CreateSession(r) \/ Logout(r)
    BY <1>1, <1>2 DEF CreateSession, Logout
<1>3. CASE ~(CreateSession(r) \/ Logout(r))
    BY <1>3
    DEF Moves, RequestStep, Admit, Deny, BeginLogin, Start, Lookup, Insert, LookupRaced, Resolve,
        Revalidate, Read, Commit, Begin, Finish, Refuse, AuditFails, Abandon, Complete, WrongPassword,
        RightPassword
<1>4. QED
    BY <1>2, <1>3

LEMMA HeldKeeps ==
    ASSUME Inv, Held, [Next]_vars
    PROVE  Held'
<1>1. ASSUME NEW r \in Requests, Moves(r) PROVE Held'
    <2>1. ASSUME NEW q \in Requests, request'[q].at = "locked"
          PROVE  /\ request'[q].token \in Tokens
                 /\ session'[request'[q].token] # "revoked"
                 /\ request'[q].token[1] \notin disabled'
        <3>1. CASE q = r
            BY <1>1, <2>1, <3>1, OneMovesAlone DEF Live
        <3>2. CASE q # r
            <4>1. request'[q] = request[q] /\ At(q, "locked")
                BY <1>1, <2>1, <3>2, OneMovesAlone DEF At
            <4>2. Locked(request[q].token)
                BY <4>1 DEF Locked
            <4>3. QED
                BY <1>1, <4>1, <4>2, RevocationsWait DEF Held, User
        <3>3. QED
            BY <3>1, <3>2
    <2>2. QED
        BY <2>1 DEF Held, At, User
<1>2. CASE Crash
    <2>1. ASSUME NEW q \in Requests PROVE request'[q].at # "locked"
        <3>1. Forget(q) \in Handlings /\ request[q] \in Handlings
            BY NewRow DEF Inv, Typed, Forget
        <3>2. QED
            BY <1>2, <3>1 DEF Crash, Handlings
    <2>2. QED
        BY <2>1 DEF Held, At
<1>3. CASE SessionAges
    BY <1>3 DEF SessionAges, Held, At, User, Inv, Typed
<1>4. CASE DisableUser
    BY <1>4 DEF DisableUser, Held, At, User
<1>5. CASE WindowPasses \/ BlockPasses \/ UNCHANGED vars
    BY <1>5 DEF WindowPasses, BlockPasses, vars, Held, At, User
<1>6. QED
    BY <1>1, <1>2, <1>3, <1>4, <1>5 DEF Next, Passage, Moves

LEMMA InitHasHeld == Init => Held
<1>1. SUFFICES ASSUME Init, NEW r \in Requests PROVE ~At(r, "locked")
    BY DEF Held
<1>2. QED
    BY <1>1, NewRow DEF Init, At

\* A logout, a new login or a disabled account and a guarded change are in one order: whoever
\* is revoked before the commit changes nothing (revalidate_mutation_actor).
THEOREM RevokedChangeNothing == Spec => RevokedActorsChangeNothing
<1>1. ASSUME Inv, Held, [Next]_vars, NEW r \in Requests,
             request[r].change = "none", request'[r].change # "none", Asks(r).guarded
      PROVE  session[request[r].token] # "revoked" /\ User(r) \notin disabled
    <2>1. PICK q \in Requests : Moves(q)
        <3>1. ~Crash
            <4>1. Forget(r) \in Handlings /\ Forget(r).change = request[r].change
                BY <1>1, NewRow DEF Inv, Typed, Forget
            <4>2. QED
                BY <1>1, <4>1 DEF Crash, Handlings
        <3>2. QED
            BY <1>1, <3>1
            DEF Next, Passage, SessionAges, WindowPasses, BlockPasses, DisableUser, vars, Moves
    <2>2. q = r /\ Ready(r)
        BY <1>1, <2>1, OneMovesAlone
    <2>3. At(r, "locked")
        BY <1>1, <2>2 DEF Ready
    <2>4. QED
        BY <1>1, <2>3 DEF Held
<1>2. Inv /\ Held /\ [Next]_vars =>
        [\A r \in Requests :
            /\ request[r].change = "none" /\ request'[r].change # "none"
            /\ Asks(r).guarded
            => session[request[r].token] # "revoked" /\ User(r) \notin disabled]_vars
    BY <1>1
<1>3. QED
    BY <1>2, InitHasInv, NextKeeps, InitHasHeld, HeldKeeps, PTL
    DEF Spec, RevokedActorsChangeNothing

---------------------------------------------------------------------------
\* Who has a claim that is open or pending.

\* The owner of an open or pending claim carries its key while it works; a pending claim's owner
\* works, died, or failed to write its audit row after the first commit.
Working == {"serving", "locked", "refused", "calling", "served"}
InProgress(c) ==
    LET h == request[claim[c].owner] IN
    /\ claim[c].state \in {"open", "pending"} /\ h.at \in Working =>
         h.keyed /\ ClaimOf(claim[c].owner) = c
    /\ claim[c].state = "open" => h.at \in {"serving", "locked", "refused"} \cup Ended
    /\ claim[c].state = "pending" =>
         \/ h.at \in {"calling", "refused", "served", "lost"}
         \/ h.at = "answered" /\ h.code = "audit_unavailable"

\* A claim that is open or pending after a move was so before it.
ClaimsKept(r) == \A c \in Claims : claim'[c].state \in {"open", "pending"} => claim'[c] = claim[c]

LEMMA AnswerCodes ==
    ASSUME Typed, NEW r \in Requests, NEW code, Answer(r, code)
    PROVE  request'[r].at = "answered" /\ request'[r].code = code
<1>1. Forget(r) \in Handlings
    BY NewRow DEF Typed, Forget
<1>2. request'[r] = [Forget(r) EXCEPT !.at = "answered", !.code = code]
    BY DEF Typed, Answer
<1>3. QED
    BY <1>1, <1>2 DEF Handlings

\* A claim that r does not own is as it was, and so is its owner.
LEMMA OthersWork ==
    ASSUME Inv, NEW r \in Requests, Moves(r), NEW c \in Claims, InProgress(c),
           claim'[c] = claim[c], claim[c].owner # r, claim[c].state \in {"open", "pending"}
    PROVE  InProgress(c)'
<1>1. claim[c].owner \in Requests
    BY DEF Inv, Typed, ClaimStates, NoClaim
<1>2. request'[claim[c].owner] = request[claim[c].owner]
    BY <1>1, OneMovesAlone
<1>3. QED
    BY <1>2 DEF InProgress, ClaimOf, User

\* A handler that leaves the claims alone or drops some, and has none at work or ends.
LEMMA KeptWork ==
    ASSUME Inv, NEW r \in Requests, Moves(r), ClaimsKept(r), NEW c \in Claims, InProgress(c),
           \/ request[r].at \notin Working \cup Ended
           \/ /\ request[r].at \in {"serving", "locked"}
              /\ \/ request'[r].at = "answered"
                 \/ /\ request'[r].at \in {"locked", "refused"}
                    /\ request'[r].keyed = request[r].keyed
                    /\ request'[r].token = request[r].token
                    /\ request'[r].route = request[r].route
           \/ /\ request[r].at = "calling"
              /\ \/ request'[r].at = "answered" /\ request'[r].code = "audit_unavailable"
                 \/ request'[r].at = "answered" /\ ~request[r].keyed
                 \/ /\ request'[r].at \in {"refused", "served"}
                    /\ request'[r].keyed = request[r].keyed
                    /\ request'[r].token = request[r].token
                    /\ request'[r].route = request[r].route
    PROVE  InProgress(c)'
<1>1. CASE claim'[c].state \notin {"open", "pending"}
    BY <1>1 DEF InProgress
<1>2. CASE claim'[c].state \in {"open", "pending"} /\ claim[c].owner # r
    BY <1>2, OthersWork DEF ClaimsKept
<1>3. CASE claim'[c].state \in {"open", "pending"} /\ claim[c].owner = r
    <2>1. claim'[c] = claim[c]
        BY <1>3 DEF ClaimsKept
    <2>2. request[r].at \in Working \cup Ended
        BY <1>3, <2>1 DEF InProgress, Working, Ended
    <2>3. request[r].at \in Working => request[r].keyed /\ ClaimOf(r) = c
        BY <1>3, <2>1 DEF InProgress
    <2>4. QED
        BY <1>3, <2>1, <2>2, <2>3 DEF InProgress, Working, Ended, ClaimOf, User
<1>4. QED
    BY <1>1, <1>2, <1>3

\* The first commit: the claim of a keyed handler is pending, and it works on.
LEMMA CommittedWork ==
    ASSUME Inv, NEW r \in Requests, Moves(r), claim' = Committed(r), Ready(r),
           NEW c \in Claims, InProgress(c),
           request[r].keyed => request'[r].at \in {"served", "calling"},
           request'[r].keyed = request[r].keyed, request'[r].token = request[r].token,
           request'[r].route = request[r].route
    PROVE  InProgress(c)'
<1>1. claim[c] \in ClaimStates /\ request[r].at \in {"serving", "locked"}
    BY ReadyKnows DEF Inv, Typed
<1>2. CASE claim[c].state = "open" /\ claim[c].owner = r
    <2>1. claim'[c].state = "pending" /\ claim'[c].owner = r
        BY <1>2, CommittedTouches DEF Inv
    <2>2. request[r].keyed /\ ClaimOf(r) = c
        BY <1>1, <1>2 DEF InProgress, Working
    <2>3. QED
        BY <2>1, <2>2 DEF InProgress, Working, ClaimOf, User
<1>3. CASE ~(claim[c].state = "open" /\ claim[c].owner = r)
    <2>1. claim'[c] = claim[c]
        BY <1>3 DEF Committed
    <2>2. CASE claim[c].state \in {"open", "pending"}
        <3>1. claim[c].owner # r
            BY <1>1, <1>3, <2>2 DEF InProgress
        <3>2. QED
            BY <2>1, <2>2, <3>1, OthersWork
    <2>3. CASE claim[c].state \notin {"open", "pending"}
        BY <2>1, <2>3 DEF InProgress
    <2>4. QED
        BY <2>2, <2>3
<1>4. QED
    BY <1>2, <1>3

LEMMA ReleasedKept ==
    ASSUME Typed, NEW r \in Requests, claim' = Released(r)
    PROVE  ClaimsKept(r)
BY DEF ClaimsKept, Released, NoClaim

LEMMA MovesWork ==
    ASSUME Inv, NEW r \in Requests, Moves(r), \A c \in Claims : InProgress(c)
    PROVE  \A c \in Claims : InProgress(c)'
<1> SUFFICES ASSUME NEW c \in Claims PROVE InProgress(c)'
    OBVIOUS
<1>0. InProgress(c) /\ Typed /\ Local(r) /\ request[r] \in Handlings
    BY DEF Inv, Typed
<1>1. CASE Admit(r) \/ Deny(r) \/ BeginLogin(r) \/ Start(r) \/ Lookup(r) \/ LookupRaced(r)
           \/ Resolve(r) \/ WrongPassword(r) \/ RightPassword(r) \/ CreateSession(r)
    <2>1. request[r].at \notin Working \cup Ended
        BY <1>1 DEF Admit, Deny, BeginLogin, Start, Lookup, LookupRaced, Resolve, WrongPassword,
                    RightPassword, CreateSession, At, Working, Ended
    <2>2. UNCHANGED claim
        BY <1>1 DEF Admit, Deny, BeginLogin, Start, Lookup, LookupRaced, Resolve, WrongPassword,
                    RightPassword, CreateSession
    <2>3. QED
        BY <1>0, <2>1, <2>2, KeptWork DEF ClaimsKept
<1>2. CASE Insert(r)
    <2>1. request[r].at \notin Working \cup Ended /\ request[r].keyed
        BY <1>0, <1>2 DEF Insert, At, Local, Working, Ended
    <2>2. CASE UNCHANGED claim
        BY <1>0, <2>1, <2>2, KeptWork DEF ClaimsKept
    <2>3. CASE claim' # claim
        <3>1. /\ Goto(r, "serving")
              /\ claim' = [claim EXCEPT ![ClaimOf(r)] =
                    [state |-> "open", owner |-> r, fingerprint |-> request[r].fingerprint]]
            BY <1>2, <2>3 DEF Insert
        <3>2. request'[r].at = "serving" /\ request'[r].keyed /\ ClaimOf(r)' = ClaimOf(r)
            BY <1>0, <2>1, <3>1 DEF Goto, Typed, Handlings, ClaimOf, User
        <3>3. CASE c = ClaimOf(r)
            <4>1. claim'[c].state = "open" /\ claim'[c].owner = r
                BY <1>0, <3>1, <3>3 DEF Typed
            <4>2. QED
                BY <3>2, <3>3, <4>1 DEF InProgress, Working
        <3>4. CASE c # ClaimOf(r)
            <4>1. claim'[c] = claim[c]
                BY <1>0, <3>1, <3>4 DEF Typed
            <4>2. CASE claim[c].state \in {"open", "pending"}
                <5>1. claim[c].owner # r
                    BY <1>0, <2>1, <4>2 DEF InProgress, Working, Ended
                <5>2. QED
                    BY <1>0, <4>1, <4>2, <5>1, OthersWork
            <4>3. CASE claim[c].state \notin {"open", "pending"}
                BY <4>1, <4>3 DEF InProgress
            <4>4. QED
                BY <4>2, <4>3
        <3>5. QED
            BY <3>3, <3>4
    <2>4. QED
        BY <2>2, <2>3
<1>3. CASE Revalidate(r)
    <2>1. request[r].at = "serving" /\ UNCHANGED claim /\ (Goto(r, "locked") \/ Goto(r, "refused"))
        BY <1>3 DEF Revalidate, At
    <2>2. /\ request'[r].at \in {"locked", "refused"} /\ request'[r].keyed = request[r].keyed
          /\ request'[r].token = request[r].token /\ request'[r].route = request[r].route
        <3>1. PICK point \in {"locked", "refused"} : Goto(r, point)
            BY <2>1
        <3>2. QED
            BY <1>0, <3>1 DEF Goto, Typed, Handlings
    <2>3. QED
        BY <1>0, <2>1, <2>2, KeptWork DEF ClaimsKept
<1>4. CASE Read(r) \/ Logout(r)
    <2>1. request[r].at = "serving" /\ UNCHANGED claim /\ Answer(r, "ok")
        BY <1>4 DEF Read, Logout, At
    <2>2. request'[r].at = "answered"
        BY <1>0, <2>1, AnswerCodes
    <2>3. QED
        BY <1>0, <2>1, <2>2, KeptWork DEF ClaimsKept
<1>5. CASE Commit(r) \/ Begin(r)
    <2>1. Ready(r) /\ claim' = Committed(r)
        BY <1>5 DEF Commit, Begin
    <2>2. /\ request[r].keyed => request'[r].at \in {"served", "calling"}
          /\ request'[r].keyed = request[r].keyed /\ request'[r].token = request[r].token
          /\ request'[r].route = request[r].route
        <3>1. CASE Begin(r)
            BY <1>0, <3>1 DEF Begin, Typed, Handlings
        <3>2. CASE Commit(r)
            <4> DEFINE at == IF request[r].keyed THEN "served" ELSE "answered"
                       code == IF request[r].keyed THEN "" ELSE "ok"
            <4>1. request' = [request EXCEPT ![r].change = "done", ![r].at = at, ![r].code = code]
                BY <3>2 DEF Commit
            <4>2. request[r].keyed => at = "served"
                OBVIOUS
            <4> HIDE DEF at, code
            <4>3. QED
                BY <1>0, <4>1, <4>2 DEF Typed, Handlings
        <3>3. QED
            BY <1>5, <3>1, <3>2
    <2>3. QED
        BY <1>0, <2>1, <2>2, CommittedWork
<1>6. CASE Finish(r)
    <2>1. request[r].at = "calling" /\ UNCHANGED claim
        BY <1>6 DEF Finish, At
    <2> DEFINE at == IF request[r].keyed THEN "served" ELSE "answered"
               code == IF request[r].keyed THEN "" ELSE "ok"
    <2>2. request' = [request EXCEPT ![r].change = "done", ![r].at = at, ![r].code = code]
        BY <1>6 DEF Finish
    <2>3. (request[r].keyed /\ at = "served") \/ (~request[r].keyed /\ at = "answered")
        BY <1>0 DEF Handlings
    <2> HIDE DEF at, code
    <2>4. /\ request'[r].at = at /\ request'[r].keyed = request[r].keyed
          /\ request'[r].token = request[r].token /\ request'[r].route = request[r].route
        BY <1>0, <2>2 DEF Typed, Handlings
    <2>5. QED
        BY <1>0, <2>1, <2>3, <2>4, KeptWork DEF ClaimsKept
<1>7. CASE Refuse(r)
    <2>1. (Ready(r) \/ At(r, "calling")) /\ Goto(r, "refused")
          /\ (UNCHANGED claim \/ claim' = Released(r))
        BY <1>7 DEF Refuse
    <2>2. /\ request'[r].at = "refused" /\ request'[r].keyed = request[r].keyed
          /\ request'[r].token = request[r].token /\ request'[r].route = request[r].route
        BY <1>0, <2>1 DEF Goto, Typed, Handlings
    <2>3. ClaimsKept(r) /\ request[r].at \in {"serving", "locked", "calling"}
        BY <1>0, <2>1, ReleasedKept, ReadyKnows DEF ClaimsKept, At
    <2>4. QED
        BY <1>0, <2>2, <2>3, KeptWork
<1>8. CASE AuditFails(r)
    <2>1. (Ready(r) \/ At(r, "calling")) /\ Answer(r, "audit_unavailable") /\ claim' = Released(r)
        BY <1>8 DEF AuditFails
    <2>2. request'[r].at = "answered" /\ request'[r].code = "audit_unavailable"
        BY <1>0, <2>1, AnswerCodes
    <2>3. ClaimsKept(r) /\ request[r].at \in {"serving", "locked", "calling"}
        BY <1>0, <2>1, ReleasedKept, ReadyKnows DEF At
    <2>4. QED
        BY <1>0, <2>2, <2>3, KeptWork
<1>9. CASE Abandon(r)
    <2>1. request[r].at = "refused"
          /\ claim' = IF request[r].keyed /\ Row(r) # NoClaim /\ Row(r).owner = r
                      THEN [claim EXCEPT ![ClaimOf(r)] = NoClaim] ELSE claim
        BY <1>9 DEF Abandon, At
    <2>2. NoClaim.state = "none"
        BY DEF NoClaim
    <2>3. CASE claim[c].state \in {"open", "pending"} /\ claim[c].owner = r
        <3>1. request[r].keyed /\ ClaimOf(r) = c
            BY <1>0, <2>1, <2>3 DEF InProgress, Working
        <3>2. claim'[c] = NoClaim
            BY <1>0, <2>1, <2>2, <2>3, <3>1 DEF Row, Typed
        <3>3. QED
            BY <2>2, <3>2 DEF InProgress
    <2>4. CASE ~(claim[c].state \in {"open", "pending"} /\ claim[c].owner = r)
        <3>1. claim'[c] = claim[c] \/ claim'[c].state = "none"
            BY <1>0, <2>1, <2>2 DEF Typed
        <3>2. CASE claim'[c] = claim[c] /\ claim[c].state \in {"open", "pending"}
            BY <1>0, <2>4, <3>2, OthersWork
        <3>3. CASE claim'[c].state \notin {"open", "pending"}
            BY <3>3 DEF InProgress
        <3>4. QED
            BY <3>1, <3>2, <3>3
    <2>5. QED
        BY <2>3, <2>4
<1>10. CASE Complete(r)
    <2>1. request[r].at = "served" /\ claim' = [claim EXCEPT ![ClaimOf(r)].state = "completed"]
        BY <1>10 DEF Complete, At
    <2>2. CASE c = ClaimOf(r)
        <3>1. claim'[c].state = "completed"
            <4>1. claim[c] \in ClaimStates /\ claim[c].state = "pending"
                BY <1>0, <2>1, <2>2 DEF Typed, Inv, Recorded, Owned, Local, At
            <4>2. claim'[c] = [claim[c] EXCEPT !.state = "completed"]
                BY <1>0, <2>1, <2>2 DEF Typed
            <4>3. QED
                BY <4>1, <4>2 DEF ClaimStates, NoClaim
        <3>2. QED
            BY <3>1 DEF InProgress
    <2>3. CASE c # ClaimOf(r)
        <3>1. claim'[c] = claim[c]
            BY <1>0, <2>1, <2>3 DEF Typed
        <3>2. CASE claim[c].state \in {"open", "pending"}
            <4>1. claim[c].owner # r
                BY <1>0, <2>1, <2>3, <3>2 DEF InProgress, Working
            <4>2. QED
                BY <1>0, <3>1, <3>2, <4>1, OthersWork
        <3>3. CASE claim[c].state \notin {"open", "pending"}
            BY <3>1, <3>3 DEF InProgress
        <3>4. QED
            BY <3>2, <3>3
    <2>4. QED
        BY <2>2, <2>3
<1>11. QED
    BY <1>1, <1>2, <1>3, <1>4, <1>5, <1>6, <1>7, <1>8, <1>9, <1>10 DEF Moves, RequestStep

LEMMA NextWorks ==
    ASSUME Inv, \A c \in Claims : InProgress(c), [Next]_vars
    PROVE  \A c \in Claims : InProgress(c)'
<1>1. CASE \E r \in Requests : Moves(r)
    BY <1>1, MovesWork
<1>2. CASE Crash
    <2> SUFFICES ASSUME NEW c \in Claims, claim'[c].state \in {"open", "pending"}
                 PROVE  InProgress(c)'
        BY DEF InProgress
    <2>1. claim[c] \in ClaimStates /\ claim'[c] = claim[c] /\ claim[c].state = "pending"
        BY <1>2 DEF Crash, Inv, Typed, ClaimStates, NoClaim
    <2> DEFINE o == claim[c].owner
    <2>2. o \in Requests /\ request[o] \in Handlings /\ Forget(o) \in Handlings
        <3>1. o \in Requests
            BY <2>1 DEF ClaimStates, NoClaim
        <3>2. request[o] \in Handlings
            BY <3>1 DEF Inv, Typed
        <3> HIDE DEF o
        <3>3. QED
            BY <3>1, <3>2, NewRow DEF Forget
    <2>3. InProgress(c)
        OBVIOUS
    <2> HIDE DEF o
    <2>4. CASE request[o].at \in Ended
        <3>1. request'[o] = request[o]
            BY <1>2, <2>2, <2>4 DEF Crash, Ended
        <3>2. QED
            BY <2>1, <2>3, <2>4, <3>1 DEF InProgress, Working, Ended, o
    <2>5. CASE request[o].at \notin Ended
        <3>1. request[o].at \in {"calling", "refused", "served"}
            BY <2>1, <2>3, <2>5 DEF InProgress, Ended, o
        <3>2. request'[o] = [Forget(o) EXCEPT !.at = "lost"]
            BY <1>2, <2>2, <3>1 DEF Crash
        <3>3. request'[o].at = "lost"
            BY <2>2, <3>2 DEF Handlings
        <3>4. QED
            BY <2>1, <3>3 DEF InProgress, Working, o
    <2>6. QED
        BY <2>4, <2>5
<1>3. CASE UNCHANGED <<claim, request>>
    BY <1>3 DEF InProgress, ClaimOf, User
<1>4. QED
    BY <1>1, <1>2, <1>3
    DEF Next, Passage, SessionAges, WindowPasses, BlockPasses, DisableUser, vars, Moves

\* A key that answers "already in progress" has somebody at work under it, unless the process
\* died or the audit of a committed change failed: no refusal leaves its claim behind
\* (_abandon_idempotent_claim).
THEOREM PendingMeansWork == Spec => []PendingOwnersAreAtWork
<1>1. Init => \A c \in Claims : InProgress(c)
    BY DEF Init, NoClaim, InProgress
<1>2. Inv /\ (\A c \in Claims : InProgress(c)) /\ [Next]_vars => (\A c \in Claims : InProgress(c))'
    BY NextWorks
<1>3. (\A c \in Claims : InProgress(c)) => PendingOwnersAreAtWork
    BY DEF InProgress, PendingOwnersAreAtWork, Ended
<1>4. QED
    BY <1>1, <1>2, <1>3, Invariance, PTL DEF Spec

-----------------------------------------------------------------------------
(* The order of a list, and the rank of a row in it.                       *)

KeyedRows == \A r \in Rows : Key(r) \in Nat \X Nat /\ Key(r)[2] = r

LEMMA Later ==
  ASSUME NEW j \in Nat \X Nat, NEW k \in Nat \X Nat, NEW l \in Nat \X Nat
  PROVE  /\ ~After(j, j)
         /\ After(j, k) /\ After(k, l) => After(j, l)
         /\ j[2] # k[2] => After(j, k) \/ After(k, j)
BY DEF After

LEMMA Ranked ==
  ASSUME KeyedRows, NEW found \in SUBSET Rows, IsFiniteSet(found)
  PROVE  /\ \A r \in found : /\ IsFiniteSet(Before(r, found))
                             /\ Cardinality(Before(r, found)) \in Nat
                             /\ Cardinality(Before(r, found)) < Cardinality(found)
         /\ \A r \in found : \A s \in Before(r, found) :
              Cardinality(Before(s, found)) < Cardinality(Before(r, found))
         /\ \A r \in found : \A s \in found \ {r} : r \in Before(s, found) \/ s \in Before(r, found)
<1>0. \A r \in found : Key(r) \in Nat \X Nat /\ Key(r)[2] = r
  BY DEF KeyedRows
<1>1. ASSUME NEW r \in found
      PROVE  /\ IsFiniteSet(Before(r, found)) /\ Cardinality(Before(r, found)) \in Nat
             /\ Cardinality(Before(r, found)) < Cardinality(found)
  <2>1. Before(r, found) \in SUBSET (found \ {r})
    BY <1>0, Later DEF Before
  <2>2. IsFiniteSet(found \ {r}) /\ Cardinality(found \ {r}) = Cardinality(found) - 1
    BY FS_RemoveElement
  <2>3. IsFiniteSet(Before(r, found)) /\ Cardinality(Before(r, found)) <= Cardinality(found \ {r})
    BY <2>1, <2>2, FS_Subset
  <2>4. QED
    BY <2>2, <2>3, FS_CardinalityType
<1>2. ASSUME NEW r \in found, NEW s \in Before(r, found)
      PROVE  Cardinality(Before(s, found)) < Cardinality(Before(r, found))
  <2>1. s \in found /\ After(Key(r), Key(s))
    BY DEF Before
  <2>2. Before(s, found) \in SUBSET (Before(r, found) \ {s})
    <3> SUFFICES ASSUME NEW t \in found, After(Key(s), Key(t))
                 PROVE  After(Key(r), Key(t)) /\ t # s
      BY DEF Before
    <3>1. QED
      BY <1>0, <2>1, Later
  <2>3. /\ IsFiniteSet(Before(r, found) \ {s})
        /\ Cardinality(Before(r, found) \ {s}) = Cardinality(Before(r, found)) - 1
    BY <1>1, FS_RemoveElement
  <2>4. Cardinality(Before(s, found)) <= Cardinality(Before(r, found) \ {s})
    BY <2>2, <2>3, FS_Subset
  <2>5. QED
    BY <1>1, <2>1, <2>3, <2>4
<1>3. ASSUME NEW r \in found, NEW s \in found \ {r}
      PROVE  r \in Before(s, found) \/ s \in Before(r, found)
  BY <1>0, Later DEF Before
<1>4. QED
  BY <1>1, <1>2, <1>3

(* Every rank below the number of rows is the rank of a row.               *)
LEMMA EveryRank ==
  ASSUME KeyedRows, NEW found \in SUBSET Rows, IsFiniteSet(found), NEW i \in 1..Cardinality(found)
  PROVE  \E r \in found : Cardinality(Before(r, found)) = i - 1
<1> DEFINE n    == Cardinality(found)
           rank == [r \in found |-> Cardinality(Before(r, found))]
<1>1. n \in Nat
  BY FS_CardinalityType
<1>2. rank \in [found -> 0..(n - 1)]
  BY <1>1, Ranked
<1>3. ASSUME NEW r \in found, NEW s \in found, rank[r] = rank[s] PROVE r = s
  <2>1. Cardinality(Before(r, found)) \in Nat /\ Cardinality(Before(s, found)) \in Nat
    BY Ranked
  <2>2. Cardinality(Before(r, found)) = Cardinality(Before(s, found))
    BY <1>3
  <2>3. SUFFICES ASSUME r # s PROVE FALSE
    OBVIOUS
  <2>4. r \in Before(s, found) \/ s \in Before(r, found)
    BY <2>3, Ranked
  <2>5. QED
    BY <2>1, <2>2, <2>4, Ranked
<1>4. rank \in Injection(found, 0..(n - 1))
  BY <1>2, <1>3 DEF Injection, IsInjective
<1>5. IsFiniteSet(0..(n - 1)) /\ Cardinality(0..(n - 1)) = n
  <2>1. 0 \in Int /\ n - 1 \in Int /\ (0 > n - 1 => n = 0) /\ n - 1 - 0 + 1 = n
    BY <1>1
  <2> HIDE DEF n
  <2>2. QED
    BY <2>1, FS_Interval
<1>6. rank \in Surjection(found, 0..(n - 1))
  BY <1>4, <1>5, FS_Injection
<1>7. i - 1 \in 0..(n - 1)
  BY <1>1
<1>8. PICK r \in found : rank[r] = i - 1
  BY <1>6, <1>7 DEF Surjection
<1>9. QED
  BY <1>8

(* A page holds the first rows, each once, and the rest comes after it.    *)
LEMMA PageIs ==
  ASSUME KeyedRows, NEW found \in SUBSET Rows, IsFiniteSet(found),
         NEW size \in Nat, size <= Cardinality(found)
  PROVE  LET page == Newest(found, size) IN
         /\ page \in [1..size -> found] /\ IsInjective(page)
         /\ size = Cardinality(found) => found \subseteq Range(page)
         /\ size > 0 => \A r \in found : r \in Range(page) \/ After(Key(r), Key(page[size]))
         /\ \A r \in Range(page) : ~After(Key(r), Key(page[size]))
<1> DEFINE page == Newest(found, size)
           rank(r) == Cardinality(Before(r, found))
<1>1. Cardinality(found) \in Nat
  BY FS_CardinalityType
<1>2. \A i \in 1..size : page[i] \in found /\ rank(page[i]) = i - 1
  <2> SUFFICES ASSUME NEW i \in 1..size PROVE page[i] \in found /\ rank(page[i]) = i - 1
    OBVIOUS
  <2>1. i \in 1..Cardinality(found)
    BY <1>1
  <2>2. page[i] = CHOOSE r \in found : rank(r) = i - 1
    BY DEF Newest
  <2>3. QED
    BY <2>1, <2>2, EveryRank
<1>3. DOMAIN page = 1..size /\ page \in [1..size -> found]
  BY <1>2 DEF Newest
<1> HIDE DEF page
<1>4. IsInjective(page)
  <2> SUFFICES ASSUME NEW a \in 1..size, NEW b \in 1..size, page[a] = page[b] PROVE a = b
    BY <1>3 DEF IsInjective
  <2>1. a - 1 = b - 1
    BY <1>2
  <2>2. QED
    BY <2>1
<1>5. \A r \in found : \A s \in found : rank(r) = rank(s) => r = s
  <2> SUFFICES ASSUME NEW r \in found, NEW s \in found, rank(r) = rank(s), r # s PROVE FALSE
    OBVIOUS
  <2>1. r \in Before(s, found) \/ s \in Before(r, found)
    BY Ranked
  <2>2. rank(r) \in Nat /\ rank(s) \in Nat
    BY Ranked
  <2>3. QED
    BY <2>1, <2>2, Ranked
<1>6. \A r \in found : rank(r) < size => r \in Range(page)
  <2> SUFFICES ASSUME NEW r \in found, rank(r) < size PROVE r \in Range(page)
    OBVIOUS
  <2>1. rank(r) \in Nat
    BY Ranked
  <2>2. rank(r) + 1 \in 1..size /\ rank(r) + 1 - 1 = rank(r)
    BY <2>1
  <2>3. PICK i \in 1..size : i = rank(r) + 1
    BY <2>2
  <2>4. page[i] \in found /\ rank(page[i]) = rank(r)
    BY <1>2, <2>1, <2>3
  <2>5. page[i] = r
    BY <1>5, <2>4
  <2>6. QED
    BY <1>3, <2>5 DEF Range
<1>7. size = Cardinality(found) => found \subseteq Range(page)
  BY <1>6, Ranked
<1>8. ASSUME size > 0, NEW r \in found, r \notin Range(page) PROVE After(Key(r), Key(page[size]))
  <2>1. size \in 1..size /\ page[size] \in found /\ rank(page[size]) = size - 1
    BY <1>2, <1>8
  <2>2. ~(rank(r) < size) /\ rank(r) \in Nat
    BY <1>6, <1>8, Ranked
  <2>3. r # page[size]
    BY <1>3, <1>8, <2>1 DEF Range
  <2>4. r \notin Before(page[size], found)
    BY <2>1, <2>2, Ranked
  <2>5. page[size] \in Before(r, found)
    BY <2>1, <2>3, <2>4, Ranked
  <2>6. QED
    BY <2>5 DEF Before
<1>9. ASSUME NEW r \in Range(page) PROVE ~After(Key(r), Key(page[size]))
  <2>1. PICK i \in 1..size : r = page[i]
    BY <1>3 DEF Range
  <2>2. /\ r \in found /\ rank(r) = i - 1
        /\ page[size] \in found /\ rank(page[size]) = size - 1
    BY <1>2, <2>1
  <2>3. page[size] \notin Before(r, found)
    BY <2>2, Ranked
  <2>4. QED
    BY <2>2, <2>3 DEF Before
<1>10. QED
  BY <1>3, <1>4, <1>7, <1>8, <1>9 DEF page

(* What a walk has shown after one page more.                              *)
LEMMA Joined ==
  ASSUME NEW S, NEW shown \in Seq(S), NEW size \in Nat, NEW page \in [1..size -> S]
  PROVE  /\ shown \o page \in Seq(S)
         /\ Range(shown \o page) = Range(shown) \cup Range(page)
         /\ IsInjective(shown) /\ IsInjective(page) /\ Range(shown) \cap Range(page) = {}
              => IsInjective(shown \o page)
<1> DEFINE n == Len(shown)
           t == shown \o page
<1>1. page \in Seq(S) /\ Len(page) = size /\ n \in Nat /\ DOMAIN shown = 1..n /\ DOMAIN page = 1..size
  OBVIOUS
<1>2. /\ t \in Seq(S) /\ Len(t) = n + size /\ DOMAIN t = 1..(n + size)
      /\ \A i \in 1..(n + size) : t[i] = IF i <= n THEN shown[i] ELSE page[i - n]
  BY <1>1
<1> HIDE DEF t, n
<1>3. ASSUME NEW i \in 1..(n + size)
      PROVE  \/ i \in 1..n /\ t[i] = shown[i]
             \/ i - n \in 1..size /\ t[i] = page[i - n] /\ ~(i \in 1..n)
  BY <1>1, <1>2
<1>4. Range(t) \subseteq Range(shown) \cup Range(page)
  <2> SUFFICES ASSUME NEW i \in 1..(n + size) PROVE t[i] \in Range(shown) \cup Range(page)
    BY <1>2 DEF Range
  <2>1. QED
    BY <1>1, <1>3 DEF Range
<1>5. Range(shown) \subseteq Range(t)
  <2> SUFFICES ASSUME NEW i \in 1..n PROVE shown[i] \in Range(t)
    BY <1>1 DEF Range
  <2>1. i \in 1..(n + size) /\ t[i] = shown[i]
    BY <1>1, <1>2
  <2>2. QED
    BY <1>2, <2>1 DEF Range
<1>6. Range(page) \subseteq Range(t)
  <2> SUFFICES ASSUME NEW i \in 1..size PROVE page[i] \in Range(t)
    BY <1>1 DEF Range
  <2>1. n + i \in 1..(n + size) /\ t[n + i] = page[n + i - n] /\ n + i - n = i
    BY <1>1, <1>2
  <2>2. QED
    BY <1>2, <2>1 DEF Range
<1>7. ASSUME IsInjective(shown), IsInjective(page), Range(shown) \cap Range(page) = {}
      PROVE  IsInjective(t)
  <2> SUFFICES ASSUME NEW i \in 1..(n + size), NEW j \in 1..(n + size), t[i] = t[j] PROVE i = j
    BY <1>2 DEF IsInjective
  <2>1. \A a \in 1..n : \A b \in 1..size : shown[a] # page[b]
    BY <1>1, <1>7 DEF Range
  <2>2. CASE i \in 1..n /\ t[i] = shown[i]
    <3>1. j \in 1..n /\ t[j] = shown[j]
      BY <1>3, <2>1, <2>2
    <3>2. QED
      BY <1>1, <1>7, <2>2, <3>1 DEF IsInjective
  <2>3. CASE i - n \in 1..size /\ t[i] = page[i - n]
    <3>1. j - n \in 1..size /\ t[j] = page[j - n]
      BY <1>3, <2>1, <2>3
    <3>2. i - n = j - n
      BY <1>1, <1>7, <2>3, <3>1 DEF IsInjective
    <3>3. QED
      BY <1>1, <3>2
  <2>4. QED
    BY <1>3, <2>2, <2>3
<1>8. QED
  BY <1>2, <1>4, <1>5, <1>6, <1>7 DEF t

-----------------------------------------------------------------------------
(* The inductive invariant.                                                *)

Times  == 0..MaxTime
Record == [state : {"none", "flushed", "there", "gone"}, made : Times, touched : Times,
           ready : BOOLEAN]
Walks  == [pc : {"idle", "ask", "select", "ended", "expired"}, cursor : Rows \cup {None},
           after : {None} \cup (Nat \X Rows), shown : Seq(Rows), stayed : SUBSET Rows,
           written : SUBSET Rows]

Used == {r \in Rows : row[r].state # "none"}

(* A table of finitely many rows, none stamped later than now.             *)
Tabled == /\ list \in Lists /\ clock \in Times /\ parent \in BOOLEAN
          /\ row \in [Rows -> Record] /\ walk \in Walks
          /\ IsFiniteSet(Used) /\ \A r \in Rows : row[r].touched <= clock

There(r) == row[r].state = "there"

(* The order keeps a row ahead of the walk, or behind it.                  *)
Ahead(r)  == /\ walk.pc = "ask" /\ walk.cursor # None /\ There(walk.cursor)
                  => After(Key(r), Key(walk.cursor))
             /\ walk.pc = "select" /\ walk.after # None => After(Key(r), walk.after)
Behind(r) == /\ walk.pc = "ask" /\ walk.cursor # None /\ There(walk.cursor)
                  => ~After(Key(r), Key(walk.cursor))
             /\ walk.pc = "select" /\ walk.after # None => ~After(Key(r), walk.after)

Seen == Range(walk.shown)

(* A walk without a cursor is on its first page.                           *)
Begun == /\ walk.pc = "idle" => /\ walk.cursor = None /\ walk.after = None
                                /\ walk.shown = << >> /\ walk.stayed = {}
         /\ walk.pc = "ask" /\ walk.cursor = None => walk.after = None /\ walk.shown = << >>
         /\ walk.pc = "select" /\ walk.after = None => walk.shown = << >>

\* what stayed is still in the list, and was shown or is yet to come
Staying == /\ walk.stayed \subseteq Shown
           /\ walk.pc \in {"ask", "select"} =>
                \A r \in walk.stayed \ walk.written : r \in Seen \/ Ahead(r)

\* what was shown does not come again, unless a write moves it
Passing == /\ \A r \in Seen : row[r].state \in {"there", "gone"}
           /\ walk.cursor \in Seen \cup {None}
           /\ list # "documents" => \A r \in Seen : There(r) => Behind(r)

ListsInv == Tabled /\ Begun /\ Staying /\ Passing /\ WalksShowWhatStayed

LEMMA Facts ==
  ASSUME Tabled
  PROVE  /\ KeyedRows /\ \A r \in Rows : Key(r) \in Nat \X Rows
         /\ \A r \in Rows : row[r] \in Record
         /\ Stored \in SUBSET Rows /\ Own \in SUBSET Stored /\ Shown \in SUBSET Stored
         /\ IsFiniteSet(Stored) /\ clock \in Nat /\ MaxTime \in Nat
<1>1. \A r \in Rows : row[r] \in Record /\ row[r].made \in Nat /\ row[r].touched \in Nat /\ r \in Nat
  BY ListingConstants DEF Tabled, Record, Times
<1>2. KeyedRows /\ \A r \in Rows : Key(r) \in Nat \X Rows
  BY <1>1 DEF KeyedRows, Key
<1>3. Stored \in SUBSET Used /\ Stored \in SUBSET Rows /\ Own \in SUBSET Stored
  BY DEF Stored, Used, Own
<1>4. IsFiniteSet(Stored)
  BY <1>3, FS_Subset DEF Tabled
<1>5. Shown \in SUBSET Stored
  BY <1>3 DEF Shown
<1>6. QED
  BY <1>1, <1>2, <1>3, <1>4, <1>5, ListingConstants DEF Tabled, Times

LEMMA ListsStart == ListsInit => ListsInv
<1> SUFFICES ASSUME ListsInit PROVE ListsInv
  OBVIOUS
<1>1. Used = {} /\ IsFiniteSet(Used)
  BY FS_EmptySet DEF ListsInit, Used, Blank
<1>2. Blank \in Record /\ Blank.touched = 0 /\ 0 \in Times
  BY ListingConstants DEF Blank, Record, Times
<1>3. Tabled
  <2>1. walk \in Walks
    BY DEF ListsInit, Walks
  <2>2. QED
    BY <1>1, <1>2, <2>1 DEF ListsInit, Tabled
<1>4. Range(walk.shown) = {} /\ IsInjective(walk.shown)
  BY DEF ListsInit, Range, IsInjective
<1>5. QED
  BY <1>3, <1>4 DEF ListsInit, ListsInv, Begun, Staying, Passing, Seen, WalksShowWhatStayed

-----------------------------------------------------------------------------
(* Rows are inserted, written and removed.                                 *)

Raised(r) == /\ list = "documents" /\ (walk.pc # "idle" => r \in walk'.written)
             /\ Key(r)'[1] >= Key(r)[1] /\ Key(r)'[2] = Key(r)[2]

(* What such a step does to a walk and to the order.                       *)
RowsMove ==
  /\ Tabled' /\ list' = list
  /\ walk'.pc = walk.pc /\ walk'.cursor = walk.cursor /\ walk'.after = walk.after
  /\ walk'.shown = walk.shown
  /\ walk'.stayed \subseteq walk.stayed \cap Shown'
  /\ walk.pc # "idle" => walk.written \subseteq walk'.written
  /\ \A r \in Rows : /\ row[r].state = "there" => row'[r].state \in {"there", "gone"}
                     /\ row[r].state = "gone"  => row'[r].state = "gone"
                     /\ There(r) /\ row'[r].state = "there" => Key(r)' = Key(r) \/ Raised(r)

LEMMA RowsKeep ==
  ASSUME ListsInv, RowsMove
  PROVE  ListsInv'
<1>1. /\ walk \in Walks /\ walk' \in Walks /\ walk.stayed \subseteq Shown
      /\ Shown \subseteq Stored /\ \A r \in Rows : Key(r) \in Nat \X Nat
  BY Facts DEF ListsInv, Tabled, RowsMove, Staying, KeyedRows
<1>2. Range(walk'.shown) = Range(walk.shown) /\ Seen' = Seen
  BY DEF RowsMove, Seen
<1>3. Seen \subseteq Rows
  <2>1. walk.shown \in Seq(Rows)
    BY <1>1 DEF Walks
  <2>2. QED
    BY <2>1 DEF Seen, Range
<1>4. walk.cursor \in Seen \cup {None} /\ \A r \in Seen : row[r].state \in {"there", "gone"}
  BY DEF ListsInv, Passing
<1>5. \A r \in Shown' : row'[r].state = "there"
  BY DEF Shown, Own, Stored
<1>6. Begun'
  BY DEF ListsInv, Begun, RowsMove
<1>7. Staying'
  <2>1. walk'.stayed \subseteq Shown'
    BY DEF RowsMove
  <2>2. ASSUME NEW r \in walk'.stayed \ walk'.written, walk.pc \in {"ask", "select"}
        PROVE  r \in Seen \/ Ahead(r)'
    <3>1. /\ r \in walk.stayed \ walk.written /\ r \in Rows /\ There(r) /\ row'[r].state = "there"
      BY <1>1, <1>5, <2>1, <2>2 DEF RowsMove, Stored, There
    <3>2. Key(r)' = Key(r)
      BY <2>2, <3>1 DEF RowsMove, Raised
    <3>3. SUFFICES ASSUME Ahead(r) PROVE Ahead(r)'
      BY <2>2, <3>1 DEF ListsInv, Staying
    <3>4. ASSUME NEW c \in Rows, walk.pc = "ask", walk.cursor = c, c # None,
                 row'[c].state = "there"
          PROVE  After(Key(r), Key(c)')
      <4>1. There(c)
        BY <1>4, <3>4 DEF RowsMove, There
      <4>2. After(Key(r), Key(c))
        BY <3>3, <3>4, <4>1 DEF Ahead
      <4>3. Key(c)' = Key(c) \/ (Key(c)'[1] >= Key(c)[1] /\ Key(c)'[2] = Key(c)[2])
        BY <3>4, <4>1 DEF RowsMove, Raised
      <4>4. Key(c) \in Nat \X Nat /\ Key(r) \in Nat \X Nat
        BY <1>1, <3>1
      <4>5. Key(c)'[1] \in Nat
        BY <3>4 DEF RowsMove, Tabled, Key, Record, Times
      <4>6. QED
        BY <4>2, <4>3, <4>4, <4>5 DEF After
    <3>5. QED
      <4>1. walk'.pc = walk.pc /\ walk'.cursor = walk.cursor /\ walk'.after = walk.after
        BY DEF RowsMove
      <4>2. walk.pc = "select" /\ walk.after # None => After(Key(r), walk.after)
        BY <3>3 DEF Ahead
      <4>3. walk.cursor \in Rows \cup {None}
        BY <1>3, <1>4
      <4>4. QED
        BY <3>2, <3>4, <4>1, <4>2, <4>3 DEF Ahead, There
  <2>3. QED
    BY <1>2, <2>1, <2>2 DEF Staying, RowsMove
<1>8. Passing'
  <2>1. \A r \in Seen : row'[r].state \in {"there", "gone"}
    BY <1>3, <1>4 DEF RowsMove
  <2>2. ASSUME list # "documents", NEW r \in Seen, row'[r].state = "there"
        PROVE  Behind(r)'
    <3>1. \A x \in Seen : row'[x].state = "there" => There(x) /\ Key(x)' = Key(x)
      BY <1>3, <1>4, <2>2 DEF RowsMove, Raised, There
    <3>2. Behind(r)
      BY <2>2, <3>1 DEF ListsInv, Passing
    <3>3. QED
      BY <1>4, <2>2, <3>1, <3>2 DEF Behind, RowsMove, There
  <2>3. QED
    BY <1>2, <1>4, <2>1, <2>2 DEF Passing, RowsMove, There
<1>9. WalksShowWhatStayed'
  BY <1>2 DEF ListsInv, WalksShowWhatStayed, RowsMove
<1>10. QED
  BY <1>6, <1>7, <1>8, <1>9 DEF ListsInv, RowsMove

WalkKept == /\ walk'.pc = walk.pc /\ walk'.cursor = walk.cursor /\ walk'.after = walk.after
            /\ walk'.shown = walk.shown /\ walk' \in Walks /\ list' = list /\ clock' = clock
            /\ walk'.stayed \subseteq walk.stayed \cap Shown'

LEMMA ChangedWalk ==
  ASSUME ListsInv, NEW rowsWritten \in SUBSET Rows, Changed(rowsWritten)
  PROVE  /\ WalkKept
         /\ walk.pc # "idle" => walk'.written = walk.written \cup rowsWritten
<1> DEFINE stays  == walk.stayed \cap Shown'
           wrote  == IF walk.pc = "idle" THEN {} ELSE walk.written \cup rowsWritten
<1>1. /\ walk' = [walk EXCEPT !.stayed = stays, !.written = wrote]
      /\ list' = list /\ clock' = clock /\ walk \in Walks
  BY DEF Changed, ListsInv, Tabled
<1>2. stays \in SUBSET Rows /\ wrote \in SUBSET Rows
  BY <1>1 DEF Walks
<1> HIDE DEF stays, wrote
<1>3. /\ walk' \in Walks /\ walk'.pc = walk.pc /\ walk'.cursor = walk.cursor
      /\ walk'.after = walk.after /\ walk'.shown = walk.shown
      /\ walk'.stayed = stays /\ walk'.written = wrote
  BY <1>1, <1>2 DEF Walks
<1>4. QED
  BY <1>1, <1>3 DEF WalkKept, stays, wrote

LEMMA UnchangedWalk ==
  ASSUME ListsInv, UNCHANGED <<list, clock, walk>>, Shown \subseteq Shown'
  PROVE  WalkKept /\ walk'.written = walk.written
BY DEF ListsInv, Tabled, WalkKept, Staying

(* One row is inserted, written or removed.                                *)
LEMMA OneRowMoves ==
  ASSUME ListsInv, WalkKept, NEW r \in Rows, NEW m \in Record, parent' = parent,
         row' = [row EXCEPT ![r] = m], m.touched <= clock,
         walk.pc # "idle" => walk.written \subseteq walk'.written,
         row[r].state = "there" => m.state \in {"there", "gone"},
         row[r].state = "gone" => m.state = "gone",
         row[r].state = "there" /\ m.state = "there" =>
           /\ list = "documents" /\ (walk.pc # "idle" => r \in walk'.written)
           /\ m.touched >= row[r].touched
  PROVE  RowsMove
<1>1. /\ \A q \in Rows : row[q] \in Record /\ row[q].touched <= clock /\ row[q].touched \in Nat
      /\ row \in [Rows -> Record] /\ m.touched \in Nat /\ IsFiniteSet(Used)
      /\ list' = list /\ clock' = clock
  BY ListingConstants DEF ListsInv, Tabled, Record, Times, WalkKept
<1>2. /\ row' \in [Rows -> Record] /\ row'[r] = m /\ \A q \in Rows \ {r} : row'[q] = row[q]
  BY <1>1
<1>3. Used' \in SUBSET (Used \cup {r})
  BY <1>2 DEF Used
<1>4. IsFiniteSet(Used')
  BY <1>1, <1>3, FS_AddElement, FS_Subset
<1>5. Tabled'
  BY <1>1, <1>2, <1>4 DEF ListsInv, Tabled, WalkKept
<1>6. ASSUME NEW q \in Rows
      PROVE  /\ row[q].state = "there" => row'[q].state \in {"there", "gone"}
             /\ row[q].state = "gone"  => row'[q].state = "gone"
             /\ There(q) /\ row'[q].state = "there" => Key(q)' = Key(q) \/ Raised(q)
  <2>1. CASE q # r
    <3>1. row'[q] = row[q]
      BY <1>2, <2>1
    <3>2. Key(q)' = Key(q)
      BY <1>1, <3>1 DEF Key
    <3>3. QED
      BY <3>1, <3>2
  <2>2. CASE q = r
    <3>1. row'[q] = m
      BY <1>2, <2>2
    <3>2. ASSUME There(q), row'[q].state = "there" PROVE Raised(q)
      <4>1. /\ list = "documents" /\ (walk.pc # "idle" => q \in walk'.written)
            /\ m.touched >= row[q].touched
        BY <2>2, <3>1, <3>2 DEF There
      <4>2. Key(q)' = <<m.touched, q>> /\ Key(q) = <<row[q].touched, q>>
        BY <1>1, <3>1, <4>1 DEF Key
      <4>3. QED
        BY <4>1, <4>2 DEF Raised
    <3>3. QED
      BY <2>2, <3>1, <3>2
  <2>3. QED
    BY <2>1, <2>2
<1>7. QED
  BY <1>5, <1>6 DEF RowsMove, WalkKept

LEMMA Records ==
  ASSUME ListsInv
  PROVE  /\ Blank \in Record /\ Gone \in Record /\ Blank.touched = 0 /\ Gone.touched = 0
         /\ Gone.state = "gone" /\ clock \in Times /\ clock \in Nat
         /\ \A r \in Rows : row[r] \in Record /\ row[r].touched <= clock
<1>1. 0 \in Times
  BY ListingConstants DEF Times
<1>2. Blank \in Record /\ Blank.touched = 0
  BY <1>1 DEF Blank, Record
<1>3. Gone \in Record /\ Gone.touched = 0 /\ Gone.state = "gone"
  BY <1>2 DEF Gone, Record
<1>4. clock \in Times /\ \A r \in Rows : row[r].touched <= clock
  BY DEF ListsInv, Tabled
<1>5. clock \in Nat /\ \A r \in Rows : row[r] \in Record
  BY Facts DEF ListsInv
<1>6. QED
  BY <1>2, <1>3, <1>4, <1>5

LEMMA InsertMoves ==
  ASSUME ListsInv, NEW r \in Rows, Flush(r) \/ CommitRow(r)
  PROVE  RowsMove
<1>0. /\ Blank \in Record /\ Gone \in Record /\ Gone.touched = 0 /\ Gone.state = "gone"
      /\ clock \in Times /\ clock \in Nat /\ row[r] \in Record /\ row[r].touched <= clock
  BY Records
<1>1. CASE Flush(r)
  <2> DEFINE m == [Blank EXCEPT !.state = "flushed", !.made = clock, !.touched = clock]
  <2>1. /\ row[r].state = "none" /\ row' = [row EXCEPT ![r] = m]
        /\ UNCHANGED <<list, clock, parent, walk>>
    BY <1>1 DEF Flush
  <2>2. m \in Record /\ m.touched = clock /\ m.state = "flushed"
    BY <1>0 DEF Record
  <2> HIDE DEF m
  <2>3. Shown \subseteq Shown'
    <3>1. \A q \in Rows : row[q].state = "there" => row'[q] = row[q]
      BY <2>1 DEF ListsInv, Tabled
    <3>2. QED
      BY <2>1, <3>1 DEF Shown, Own, Stored
  <2>4. WalkKept /\ walk'.written = walk.written
    BY <2>1, <2>3, UnchangedWalk
  <2>5. m.touched <= clock /\ row[r].state # "there" /\ row[r].state # "gone"
    BY <1>0, <2>1, <2>2
  <2>6. QED
    BY <2>1, <2>2, <2>4, <2>5, OneRowMoves
<1>2. CASE CommitRow(r)
  <2> DEFINE m == IF parent THEN [row[r] EXCEPT !.state = "there"] ELSE Gone
  <2>1. /\ row[r].state = "flushed" /\ row' = [row EXCEPT ![r] = m]
        /\ UNCHANGED <<list, clock, parent, walk>>
    BY <1>2 DEF CommitRow
  <2>2. m \in Record /\ m.touched <= clock /\ m.state \in {"there", "gone"}
    BY <1>0 DEF Record
  <2> HIDE DEF m
  <2>3. Shown \subseteq Shown'
    <3>1. \A q \in Rows : row[q].state = "there" => row'[q] = row[q]
      BY <2>1 DEF ListsInv, Tabled
    <3>2. QED
      BY <2>1, <3>1 DEF Shown, Own, Stored
  <2>4. WalkKept /\ walk'.written = walk.written
    BY <2>1, <2>3, UnchangedWalk
  <2>5. QED
    BY <1>0, <2>1, <2>2, <2>4, OneRowMoves
<1>3. QED
  BY <1>1, <1>2

LEMMA Reversed ==
  ASSUME NEW b
  PROVE  (~b) \in BOOLEAN
<1>1. CASE b
  BY <1>1, Zenon
<1>2. CASE ~b
  BY <1>2, Zenon
<1>3. QED
  BY <1>1, <1>2

LEMMA WriteMoves ==
  ASSUME ListsInv, NEW r \in Rows, Delete(r) \/ Index(r) \/ Preview(r)
  PROVE  RowsMove
<1>0. /\ Gone \in Record /\ Gone.touched = 0 /\ Gone.state = "gone"
      /\ clock \in Times /\ clock \in Nat /\ row[r] \in Record /\ row[r].touched <= clock
  BY Records
<1>1. CASE Delete(r)
  <2>1. /\ row' = [row EXCEPT ![r] = Gone] /\ parent' = parent /\ Changed({})
    BY <1>1 DEF Delete
  <2>2. WalkKept /\ (walk.pc # "idle" => walk'.written = walk.written \cup {})
    BY <2>1, ChangedWalk
  <2>3. Gone.touched <= clock /\ (walk.pc # "idle" => walk.written \subseteq walk'.written)
    BY <1>0, <2>2
  <2>4. QED
    BY <1>0, <2>1, <2>2, <2>3, OneRowMoves
<1>2. CASE Index(r) \/ Preview(r)
  <2> DEFINE flag == IF Index(r) THEN ~row[r].ready ELSE row[r].ready
             m    == [row[r] EXCEPT !.ready = flag, !.touched = clock]
  <2>1. flag \in BOOLEAN
    <3>1. (~row[r].ready) \in BOOLEAN
      BY Reversed, Zenon
    <3>2. row[r].ready \in BOOLEAN
      BY <1>0 DEF Record
    <3>3. QED
      BY <3>1, <3>2, Zenon
  <2>2. /\ list = "documents" /\ row[r].state = "there" /\ parent' = parent /\ Changed({r})
    BY <1>2 DEF Index, Preview
  <2>3. row' = [row EXCEPT ![r] = m]
    <3>1. CASE Index(r)
      <4>1. row' = [row EXCEPT ![r] = [row[r] EXCEPT !.ready = ~row[r].ready, !.touched = clock]]
        BY <3>1 DEF Index
      <4>2. flag = ~row[r].ready
        BY <3>1, Zenon
      <4>3. QED
        BY <4>1, <4>2, Zenon
    <3>2. CASE ~Index(r)
      <4>1. row' = [row EXCEPT ![r] = [row[r] EXCEPT !.touched = clock]]
        BY <1>2, <3>2 DEF Preview
      <4>2. flag = row[r].ready
        BY <3>2, Zenon
      <4>3. [row[r] EXCEPT !.ready = row[r].ready, !.touched = clock]
              = [row[r] EXCEPT !.touched = clock]
        BY <1>0 DEF Record
      <4>4. QED
        BY <4>1, <4>2, <4>3, Zenon
    <3>3. QED
      BY <3>1, <3>2
  <2>4. m \in Record /\ m.touched = clock /\ m.state = "there"
    <3> HIDE DEF flag
    <3>1. QED
      BY <1>0, <2>1, <2>2 DEF Record
  <2> HIDE DEF m, flag
  <2>5. WalkKept /\ (walk.pc # "idle" => walk'.written = walk.written \cup {r})
    BY <2>2, ChangedWalk
  <2>6. /\ m.touched <= clock /\ m.touched >= row[r].touched
        /\ walk.pc # "idle" => walk.written \subseteq walk'.written /\ r \in walk'.written
    BY <1>0, <2>4, <2>5
  <2>7. QED
    BY <2>2, <2>3, <2>4, <2>5, <2>6, OneRowMoves
<1>3. QED
  BY <1>1, <1>2

LEMMA ClockMoves ==
  ASSUME ListsInv, Tick
  PROVE  RowsMove
<1>1. /\ clock < MaxTime /\ clock' = clock + 1 /\ list' = list /\ row' = row
      /\ parent' = parent /\ walk' = walk
  BY DEF Tick
<1>2. /\ clock' \in Times /\ \A r \in Rows : row[r].touched <= clock'
  <2>1. clock \in Nat /\ MaxTime \in Nat /\ \A r \in Rows : row[r] \in Record /\ row[r].touched <= clock
    BY Facts, Records DEF ListsInv
  <2>2. QED
    BY <1>1, <2>1 DEF Times, Record
<1>3. Used' = Used /\ Shown' = Shown
  BY <1>1 DEF Used, Shown, Own, Stored
<1>4. Tabled'
  BY <1>1, <1>2, <1>3 DEF ListsInv, Tabled
<1>5. \A r \in Rows : Key(r)' = Key(r)
  BY <1>1 DEF Key
<1>6. QED
  BY <1>1, <1>3, <1>4, <1>5 DEF ListsInv, Staying, RowsMove, There

LEMMA ParentMoves ==
  ASSUME ListsInv, ParentLeaves \/ ParentReturns
  PROVE  RowsMove
<1>1. CASE ParentLeaves
  <2>1. /\ parent' = FALSE /\ Changed({})
        /\ row' = [r \in Rows |-> IF list # "documents" /\ r \in Own THEN Gone ELSE row[r]]
    BY <1>1 DEF ParentLeaves
  <2>2. WalkKept /\ (walk.pc # "idle" => walk'.written = walk.written \cup {})
    BY <2>1, ChangedWalk
  <2>3. /\ Gone \in Record /\ Gone.touched = 0 /\ Gone.state = "gone" /\ clock \in Nat
        /\ \A r \in Rows : row[r] \in Record /\ row[r].touched <= clock
    BY Records
  <2>4. \A r \in Own : row[r].state = "there"
    BY DEF Own, Stored
  <2>5. \A r \in Rows : /\ row'[r] \in Record /\ row'[r].touched <= clock
                        /\ row'[r] = row[r] \/ (row'[r] = Gone /\ row[r].state = "there")
    BY <2>1, <2>3, <2>4
  <2>6. Used' \in SUBSET Used /\ IsFiniteSet(Used)
    BY <2>5 DEF Used, ListsInv, Tabled
  <2>7. IsFiniteSet(Used')
    BY <2>6, FS_Subset
  <2>8. Tabled'
    <3>1. row' \in [Rows -> Record]
      BY <2>1, <2>5
    <3>2. QED
      BY <2>1, <2>2, <2>5, <2>7, <3>1 DEF ListsInv, Tabled, WalkKept
  <2>9. ASSUME NEW r \in Rows
        PROVE  /\ row[r].state = "there" => row'[r].state \in {"there", "gone"}
               /\ row[r].state = "gone"  => row'[r].state = "gone"
               /\ row'[r].state = "there" => Key(r)' = Key(r)
    BY <2>2, <2>3, <2>5 DEF Key, WalkKept
  <2>10. QED
    BY <2>2, <2>8, <2>9 DEF RowsMove, WalkKept
<1>2. CASE ParentReturns
  <2>1. /\ ~parent /\ parent' = TRUE /\ UNCHANGED <<list, clock, row, walk>>
    BY <1>2 DEF ParentReturns
  <2>2. Used' = Used /\ Shown \subseteq Shown'
    BY <2>1 DEF Used, Shown, Own, Stored
  <2>3. Tabled'
    BY <2>1, <2>2 DEF ListsInv, Tabled
  <2>4. \A r \in Rows : Key(r)' = Key(r)
    BY <2>1 DEF Key
  <2>5. QED
    BY <2>1, <2>2, <2>3, <2>4 DEF ListsInv, Staying, RowsMove, There
<1>3. QED
  BY <1>1, <1>2

-----------------------------------------------------------------------------
(* Requests.                                                               *)

(* A request changes the walk alone.                                       *)
OnlyWalks == UNCHANGED <<list, clock, row, parent>> /\ walk' \in Walks

LEMMA AskFrame ==
  ASSUME ListsInv, OnlyWalks
  PROVE  /\ Tabled' /\ Shown' = Shown
         /\ \A r \in Rows : Key(r)' = Key(r)
<1>1. Used' = Used
  BY DEF Used, OnlyWalks
<1>2. QED
  BY <1>1 DEF ListsInv, Tabled, OnlyWalks, Shown, Own, Stored, Key

LEMMA StartKeeps ==
  ASSUME ListsInv, StartWalk
  PROVE  ListsInv'
<1>1. /\ walk.pc = "idle" /\ UNCHANGED <<list, clock, row, parent>>
      /\ walk' = [walk EXCEPT !.pc = "ask", !.stayed = Shown]
      /\ walk \in Walks /\ walk.cursor = None /\ walk.after = None /\ walk.shown = << >>
  BY DEF StartWalk, ListsInv, Tabled, Begun
<1>2. Shown \in SUBSET Rows
  BY Facts DEF ListsInv
<1>3. /\ walk' \in Walks /\ walk'.pc = "ask" /\ walk'.stayed = Shown /\ walk'.cursor = None
      /\ walk'.after = None /\ walk'.shown = << >>
  BY <1>1, <1>2 DEF Walks
<1>4. Tabled' /\ Shown' = Shown
  BY <1>1, <1>3, AskFrame DEF OnlyWalks
<1>5. Range(walk'.shown) = {} /\ IsInjective(walk'.shown)
  BY <1>3 DEF Range, IsInjective
<1>6. Begun' /\ Staying' /\ Passing' /\ WalksShowWhatStayed'
  BY <1>3, <1>4, <1>5 DEF Begun, Staying, Passing, WalksShowWhatStayed, Seen, Ahead, Behind
<1>7. QED
  BY <1>4, <1>6 DEF ListsInv

(* A walk that is over shows what it showed.                               *)
LEMMA OverKeeps ==
  ASSUME ListsInv, UNCHANGED <<list, clock, row, parent>>, walk' \in Walks,
         walk.pc = "ask", walk'.shown = walk.shown, walk'.stayed = walk.stayed,
         walk'.written = walk.written, walk'.cursor \in {walk.cursor, None},
         \/ walk'.pc = "expired"
         \/ walk'.pc = "ended" /\ walk.stayed = {}
  PROVE  ListsInv'
<1>1. Tabled' /\ Shown' = Shown
  BY AskFrame DEF OnlyWalks
<1>2. Range(walk'.shown) = Range(walk.shown)
  OBVIOUS
<1>3. Begun' /\ Staying'
  BY <1>1 DEF ListsInv, Begun, Staying
<1>4. Passing'
  BY <1>2 DEF ListsInv, Passing, Seen, Behind, There
<1>5. WalksShowWhatStayed'
  BY <1>2 DEF ListsInv, WalksShowWhatStayed
<1>6. QED
  BY <1>1, <1>3, <1>4, <1>5 DEF ListsInv

LEMMA AnchorKeeps ==
  ASSUME ListsInv, NEW scope \in SUBSET Stored, FindAnchor(scope)
  PROVE  ListsInv'
<1> DEFINE c == walk.cursor
<1>1. /\ walk.pc = "ask" /\ UNCHANGED <<list, clock, row, parent>> /\ walk \in Walks
      /\ c \in Rows \cup {None} /\ walk.after \in {None} \cup (Nat \X Rows)
      /\ Staying /\ Begun /\ Passing /\ WalksShowWhatStayed
  BY DEF FindAnchor, ListsInv, Tabled, Walks
<1>2. CASE c \notin scope \cup {None} /\ walk' = [walk EXCEPT !.pc = "expired"]
  <2>1. /\ walk' \in Walks /\ walk'.pc = "expired" /\ walk'.shown = walk.shown
        /\ walk'.stayed = walk.stayed /\ walk'.written = walk.written /\ walk'.cursor = c
    BY <1>1, <1>2 DEF Walks
  <2>2. QED
    BY <1>1, <2>1, OverKeeps
<1>3. CASE c = None /\ walk' = [walk EXCEPT !.pc = "select"]
  <2>1. /\ walk' \in Walks /\ walk'.pc = "select" /\ walk'.shown = walk.shown
        /\ walk'.stayed = walk.stayed /\ walk'.written = walk.written /\ walk'.cursor = c
        /\ walk'.after = walk.after /\ walk.after = None /\ walk.shown = << >>
    BY <1>1, <1>3 DEF Walks, Begun
  <2>2. Tabled' /\ Shown' = Shown
    BY <1>1, <2>1, AskFrame DEF OnlyWalks
  <2>3. Range(walk'.shown) = Range(walk.shown)
    BY <2>1
  <2>4. Begun' /\ Staying'
    BY <1>1, <2>1, <2>2 DEF Begun, Staying, Ahead
  <2>5. Passing' /\ WalksShowWhatStayed'
    BY <1>1, <2>1, <2>3 DEF Passing, Behind, Seen, WalksShowWhatStayed
  <2>6. QED
    BY <2>2, <2>4, <2>5 DEF ListsInv
<1>4. CASE c \in scope /\ walk' = [walk EXCEPT !.pc = "select", !.after = Key(c)]
  <2>1. c \in Rows /\ There(c) /\ Key(c) \in Nat \X Rows /\ c # None /\ Key(c) # None
    BY <1>1, <1>4, Facts, ListingConstants DEF ListsInv, Stored, There
  <2>2. /\ walk' \in Walks /\ walk'.pc = "select" /\ walk'.shown = walk.shown
        /\ walk'.stayed = walk.stayed /\ walk'.written = walk.written /\ walk'.cursor = c
        /\ walk'.after = Key(c)
    BY <1>1, <1>4, <2>1 DEF Walks
  <2>3. Tabled' /\ Shown' = Shown /\ \A r \in Rows : Key(r)' = Key(r)
    BY <1>1, <2>2, AskFrame DEF OnlyWalks
  <2>4. Seen' = Seen /\ Seen \subseteq Rows
    <3>1. walk.shown \in Seq(Rows)
      BY <1>1 DEF Walks
    <3>2. QED
      BY <2>2, <3>1 DEF Seen, Range
  <2>5. Begun'
    BY <2>1, <2>2 DEF Begun
  <2>6. Staying'
    <3>1. ASSUME NEW r \in walk.stayed \ walk.written PROVE r \in Seen \/ Ahead(r)'
      <4>1. r \in Rows /\ (r \in Seen \/ After(Key(r), Key(c)))
        BY <1>1, <2>1 DEF Staying, Ahead, Walks
      <4>2. Key(r)' = Key(r)
        BY <2>3, <4>1
      <4>3. QED
        BY <2>2, <4>1, <4>2 DEF Ahead
    <3>2. QED
      BY <1>1, <2>2, <2>3, <2>4, <3>1 DEF Staying
  <2>7. Passing'
    <3>1. ASSUME list # "documents", NEW r \in Seen, There(r) PROVE Behind(r)'
      <4>1. Key(r)' = Key(r) /\ ~After(Key(r), Key(c))
        BY <1>1, <2>1, <2>3, <2>4, <3>1 DEF Passing, Behind
      <4>2. QED
        BY <2>2, <4>1 DEF Behind
    <3>2. QED
      BY <1>1, <2>2, <2>4, <3>1 DEF Passing, There
  <2>8. WalksShowWhatStayed'
    <3>1. Range(walk'.shown) = Range(walk.shown)
      BY <2>2
    <3>2. QED
      BY <1>1, <2>2, <3>1 DEF WalksShowWhatStayed
  <2>9. QED
    BY <2>3, <2>5, <2>6, <2>7, <2>8 DEF ListsInv
<1>5. QED
  BY <1>2, <1>3, <1>4 DEF FindAnchor

(* A page leaves nothing out: what stayed is on it, was shown before, or   *)
(* comes after its last row.                                               *)
LEMMA PageKeeps ==
  ASSUME ListsInv, NEW scope \in SUBSET Stored, SelectPage(scope),
         walk.stayed \subseteq scope,
         list \notin {"users", "domains"} => scope \subseteq Own
  PROVE  ListsInv'
<1> DEFINE found == {r \in scope : Follows(r)}
           n     == Cardinality(found)
           more  == n > Limit
           size  == IF more THEN Limit ELSE n
           page  == Newest(found, size)
           last  == page[Limit]
<1>1. /\ walk.pc = "select" /\ UNCHANGED <<list, clock, row, parent>> /\ walk \in Walks
      /\ walk.shown \in Seq(Rows) /\ walk.stayed \subseteq Rows
      /\ Staying /\ Begun /\ Passing /\ WalksShowWhatStayed /\ Tabled
  BY DEF SelectPage, ListsInv, Tabled, Walks
<1>2. walk' = [walk EXCEPT !.shown = walk.shown \o page,
                           !.cursor = IF more THEN last ELSE None,
                           !.pc = IF more THEN "ask" ELSE "ended"]
  BY DEF SelectPage
<1>3. /\ KeyedRows /\ found \in SUBSET Rows /\ found \subseteq Stored /\ IsFiniteSet(found) /\ n \in Nat
      /\ Limit \in Nat /\ Limit > 0
  <2>1. KeyedRows /\ Stored \in SUBSET Rows /\ IsFiniteSet(Stored)
    BY <1>1, Facts
  <2>2. found \in SUBSET Stored
    OBVIOUS
  <2>3. IsFiniteSet(found)
    BY <2>1, <2>2, FS_Subset
  <2>4. n \in Nat
    BY <2>3, FS_CardinalityType
  <2>5. Limit \in Nat /\ Limit > 0
    BY ListingConstants
  <2>6. found \in SUBSET Rows
    BY <2>1, <2>2
  <2> HIDE DEF found, n
  <2>7. QED
    BY <2>1, <2>2, <2>3, <2>4, <2>5, <2>6
<1>4. size \in Nat /\ size <= n /\ (more => size = Limit /\ size > 0) /\ (~more => size = n)
  BY <1>3
<1> HIDE DEF found, more, size, page, n
<1>5. /\ page \in [1..size -> found] /\ IsInjective(page)
      /\ ~more => found \subseteq Range(page)
      /\ more => /\ last \in Range(page) /\ last \in found
                 /\ \A r \in found : r \in Range(page) \/ After(Key(r), Key(last))
                 /\ \A r \in Range(page) : ~After(Key(r), Key(last))
  <2>1. /\ page \in [1..size -> found] /\ IsInjective(page)
        /\ size = n => found \subseteq Range(page)
        /\ size > 0 => \A r \in found : r \in Range(page) \/ After(Key(r), Key(page[size]))
        /\ \A r \in Range(page) : ~After(Key(r), Key(page[size]))
    BY <1>3, <1>4, PageIs DEF page, n
  <2>2. more => Limit \in 1..size
    BY <1>3, <1>4
  <2>3. more => last \in Range(page) /\ last \in found
    BY <2>1, <2>2 DEF Range
  <2>4. QED
    BY <1>4, <2>1, <2>3
<1>6. /\ walk.shown \o page \in Seq(Rows)
      /\ Range(walk.shown \o page) = Range(walk.shown) \cup Range(page)
      /\ IsInjective(walk.shown) /\ Range(walk.shown) \cap Range(page) = {}
           => IsInjective(walk.shown \o page)
  <2>1. page \in [1..size -> Rows]
    BY <1>3, <1>5
  <2>2. QED
    BY <1>1, <1>4, <1>5, <2>1, Joined
<1>7. Range(page) \subseteq found
  BY <1>5 DEF Range
<1> HIDE DEF last
<1>8. /\ walk'.pc = IF more THEN "ask" ELSE "ended"
      /\ walk'.cursor = IF more THEN last ELSE None
      /\ walk'.shown = walk.shown \o page /\ walk'.stayed = walk.stayed
      /\ walk'.written = walk.written /\ walk'.after = walk.after /\ walk' \in Walks
  <2> DEFINE shown == walk.shown \o page
             pc    == IF more THEN "ask" ELSE "ended"
             next  == IF more THEN last ELSE None
  <2>1. shown \in Seq(Rows) /\ pc \in {"ask", "ended"} /\ next \in Rows \cup {None}
    BY <1>3, <1>5, <1>6
  <2>2. walk' = [walk EXCEPT !.shown = shown, !.cursor = next, !.pc = pc]
    BY <1>2
  <2> HIDE DEF shown, pc, next
  <2>3. /\ walk'.pc = pc /\ walk'.cursor = next /\ walk'.shown = shown /\ walk' \in Walks
        /\ walk'.stayed = walk.stayed /\ walk'.written = walk.written /\ walk'.after = walk.after
    BY <1>1, <2>1, <2>2 DEF Walks
  <2>4. QED
    BY <2>3 DEF shown, pc, next
<1>9. Tabled' /\ Shown' = Shown /\ \A r \in Rows : Key(r)' = Key(r)
  BY <1>1, <1>8, AskFrame DEF OnlyWalks
<1>10. Seen' = Seen \cup Range(page) /\ Seen \subseteq Rows
  <2>1. Seen \subseteq Rows
    BY <1>1 DEF Seen, Range
  <2>2. QED
    BY <1>6, <1>8, <2>1 DEF Seen
<1>11. more => last \in Rows /\ last # None /\ There(last)
  BY <1>3, <1>5, ListingConstants DEF Stored, There
<1>12. Begun'
  BY <1>8, <1>11 DEF Begun
\* who stayed and was not shown is found
<1>13. \A r \in walk.stayed \ walk.written : r \in Seen \/ r \in found
  BY <1>1 DEF Staying, Ahead, Follows, found
<1>14. Staying'
  <2>1. ASSUME more, NEW r \in walk.stayed \ walk.written PROVE r \in Seen' \/ Ahead(r)'
    <3>1. SUFFICES ASSUME r \notin Seen' PROVE Ahead(r)'
      OBVIOUS
    <3>2. r \in Rows /\ After(Key(r), Key(last))
      BY <1>3, <1>5, <1>10, <1>13, <2>1, <3>1
    <3>3. Key(r)' = Key(r) /\ walk'.cursor = last /\ walk'.pc = "ask"
      BY <1>8, <1>9, <2>1, <3>2
    <3>4. Key(walk.cursor)' = Key(last)
      BY <1>1, <3>3 DEF Key
    <3>5. QED
      BY <3>2, <3>3, <3>4 DEF Ahead
  <2>2. QED
    BY <1>1, <1>8, <1>9, <2>1 DEF Staying
\* what was shown before lies before the page
<1>15. ASSUME list # "documents", NEW r \in Seen, There(r)
       PROVE  r \notin found /\ (more => ~After(Key(r), Key(last)))
  <2>1. walk.after # None
    <3>1. walk.shown # << >>
      BY DEF Seen, Range
    <3>2. QED
      BY <1>1, <3>1 DEF Begun
  <2>2. ~After(Key(r), walk.after)
    BY <1>1, <1>15, <2>1 DEF Passing, Behind
  <2>3. r \notin found
    BY <2>1, <2>2 DEF found, Follows
  <2>4. ASSUME more, After(Key(r), Key(last)) PROVE FALSE
    <3>1. After(Key(last), walk.after)
      BY <1>5, <2>1, <2>4 DEF found, Follows
    <3>2. /\ Key(r) \in Nat \X Nat /\ Key(last) \in Nat \X Nat
          /\ walk.after \in Nat \X Nat
      <4>1. walk.after \in Nat \X Rows
        BY <1>1, <2>1 DEF Walks
      <4>2. QED
        BY <1>3, <1>10, <1>11, <2>4, <4>1, ListingConstants DEF KeyedRows
    <3>3. QED
      BY <2>2, <2>4, <3>1, <3>2, Later
  <2>5. QED
    BY <2>3, <2>4
<1>16. Passing'
  <2>1. \A r \in Seen' : row'[r].state \in {"there", "gone"}
    BY <1>1, <1>3, <1>7, <1>10 DEF Passing, Stored
  <2>2. walk'.cursor \in Seen' \cup {None}
    BY <1>5, <1>8, <1>10
  <2>3. ASSUME list # "documents", NEW r \in Seen', There(r) PROVE Behind(r)'
    <3>1. more => ~After(Key(r), Key(last))
      BY <1>5, <1>10, <1>15, <2>3
    <3>2. r \in Rows /\ Key(r)' = Key(r)
      BY <1>3, <1>7, <1>9, <1>10
    <3>3. more => Key(walk.cursor)' = Key(last)
      BY <1>1, <1>8 DEF Key
    <3>4. QED
      BY <1>8, <3>1, <3>2, <3>3 DEF Behind
  <2>4. QED
    BY <1>1, <2>1, <2>2, <2>3 DEF Passing, There
<1>17. WalksShowWhatStayed'
  <2>1. ~more => walk.stayed \ walk.written \subseteq Range(walk'.shown)
    BY <1>5, <1>6, <1>8, <1>13 DEF Seen
  <2>2. list \notin {"users", "domains"} => Range(walk'.shown) \cap Elsewhere = {}
    <3>1. found \subseteq scope
      BY DEF found
    <3>2. QED
      BY <1>1, <1>6, <1>7, <1>8, <3>1 DEF WalksShowWhatStayed, Own
  <2>3. list # "documents" => IsInjective(walk'.shown)
    <3> SUFFICES ASSUME list # "documents" PROVE IsInjective(walk'.shown)
      OBVIOUS
    <3>1. \A r \in found : There(r)
      BY <1>3 DEF Stored, There
    <3>2. Range(walk.shown) \cap Range(page) = {}
      BY <1>7, <1>15, <3>1 DEF Seen
    <3>3. QED
      BY <1>1, <1>6, <1>8, <3>2 DEF WalksShowWhatStayed
  <2>4. QED
    BY <1>1, <1>8, <2>1, <2>2, <2>3 DEF WalksShowWhatStayed
<1>18. QED
  BY <1>9, <1>12, <1>14, <1>16, <1>17 DEF ListsInv

LEMMA ShownIs ==
  /\ list \in {"users", "domains"} => Shown = Stored
  /\ list = "documents" => Shown = {r \in Own : row[r].ready /\ parent}
  /\ list \notin {"users", "domains", "documents"} => Shown = Own
BY DEF Shown

LEMMA RefusedKeeps ==
  ASSUME ListsInv, NoParent
  PROVE  ListsInv'
<1>1. /\ walk.pc = "ask" /\ walk' = [walk EXCEPT !.pc = "expired"] /\ walk \in Walks
      /\ UNCHANGED <<list, clock, row, parent>>
  BY DEF NoParent, ListsInv, Tabled
<1>2. /\ walk' \in Walks /\ walk'.pc = "expired" /\ walk'.shown = walk.shown
      /\ walk'.stayed = walk.stayed /\ walk'.written = walk.written /\ walk'.cursor = walk.cursor
  BY <1>1 DEF Walks
<1>3. QED
  BY <1>1, <1>2, OverKeeps

LEMMA ListKeeps ==
  ASSUME ListsInv,
         ListUsers \/ ListConversations \/ ListDomains \/ ListDomainOperations
         \/ ListSources \/ ListSourceOperations
  PROVE  ListsInv'
<1>1. walk.stayed \subseteq Shown /\ Own \in SUBSET Stored /\ Stored \in SUBSET Stored
  BY Facts DEF ListsInv, Staying
<1>2. CASE ListUsers \/ ListDomains
  <2>1. list \in {"users", "domains"} /\ (FindAnchor(Stored) \/ SelectPage(Stored))
    BY <1>2 DEF ListUsers, ListDomains, Serve
  <2>2. QED
    BY <1>1, <2>1, ShownIs, AnchorKeeps, PageKeeps
<1>3. CASE ListConversations \/ ListDomainOperations \/ ListSources \/ ListSourceOperations
  <2>1. /\ list \notin {"users", "domains", "documents"}
        /\ FindAnchor(Own) \/ SelectPage(Own) \/ NoParent
    BY <1>3 DEF ListConversations, ListDomainOperations, ListSources, ListSourceOperations,
                Serve, UnderParent
  <2>2. QED
    BY <1>1, <2>1, ShownIs, AnchorKeeps, PageKeeps, RefusedKeeps
<1>4. QED
  BY <1>2, <1>3

LEMMA LibraryKeeps ==
  ASSUME ListsInv, ListDocuments
  PROVE  ListsInv'
<1> DEFINE serving == {r \in Own : row[r].ready}
<1>1. /\ list = "documents" /\ walk.stayed \subseteq Shown /\ Own \in SUBSET Stored
      /\ serving \in SUBSET Stored /\ serving \subseteq Own /\ walk \in Walks
  BY Facts DEF ListsInv, Staying, ListDocuments, Tabled
<1>2. walk.stayed \subseteq serving /\ (~parent => walk.stayed = {})
  BY <1>1, ShownIs
<1>3. CASE FindAnchor(Own)
  BY <1>1, <1>3, AnchorKeeps
<1>4. CASE SelectPage(serving)
  <2> HIDE DEF serving
  <2>1. QED
    BY <1>1, <1>2, <1>4, PageKeeps
<1>5. CASE /\ walk.pc = "ask" /\ ~parent
           /\ walk' = [walk EXCEPT !.pc = "ended", !.cursor = None]
           /\ UNCHANGED <<list, clock, row, parent>>
  <2>1. /\ walk' \in Walks /\ walk'.pc = "ended" /\ walk'.shown = walk.shown
        /\ walk'.stayed = walk.stayed /\ walk'.written = walk.written /\ walk'.cursor = None
    BY <1>1, <1>5 DEF Walks
  <2>2. QED
    BY <1>2, <1>5, <2>1, OverKeeps
<1>6. QED
  BY <1>3, <1>4, <1>5 DEF ListDocuments

LEMMA ListsStep ==
  ASSUME ListsInv, [ListsNext]_listVars
  PROVE  ListsInv'
<1>1. CASE UNCHANGED listVars
  <2>1. UNCHANGED <<list, clock, row, parent, walk>>
    BY <1>1 DEF listVars
  <2>2. Tabled' /\ Shown' = Shown /\ \A r \in Rows : Key(r)' = Key(r)
    BY <2>1, AskFrame DEF OnlyWalks, ListsInv, Tabled
  <2>3. RowsMove
    BY <2>1, <2>2 DEF RowsMove, ListsInv, Staying, There
  <2>4. QED
    BY <2>3, RowsKeep
<1>2. CASE \/ Tick \/ ParentLeaves \/ ParentReturns
           \/ \E r \in Rows : Flush(r) \/ CommitRow(r) \/ Delete(r) \/ Index(r) \/ Preview(r)
  <2>1. RowsMove
    BY <1>2, ClockMoves, ParentMoves, InsertMoves, WriteMoves
  <2>2. QED
    BY <2>1, RowsKeep
<1>3. CASE Request
  BY <1>3, StartKeeps, ListKeeps, LibraryKeeps DEF Request
<1>4. QED
  BY <1>1, <1>2, <1>3 DEF ListsNext

LEMMA ListsAlways == ListsSpec => []ListsInv
<1>1. ListsInit => ListsInv
  BY ListsStart
<1>2. ListsInv /\ [ListsNext]_listVars => ListsInv'
  BY ListsStep
<1>3. QED
  BY <1>1, <1>2, PTL DEF ListsSpec

(* The rows, the clock and the walk keep their types.                      *)
THEOREM ListsTypes == ListsSpec => []ListsTypeOK
<1>1. ListsInv => ListsTypeOK
  BY DEF ListsInv, Tabled, ListsTypeOK, Record, Times, Walks
<1>2. QED
  BY <1>1, ListsAlways, PTL

(* Pages fit together, for any rows, limit and number of pages: the cursor *)
(* names the last row shown, the next page is what comes after it, and no  *)
(* commit, removal or write moves a row that stayed and was not written    *)
(* from ahead of the cursor to behind it.                                  *)
THEOREM WalksFit == ListsSpec => []WalksShowWhatStayed
<1>1. ListsInv => WalksShowWhatStayed
  BY DEF ListsInv
<1>2. QED
  BY <1>1, ListsAlways, PTL
=============================================================================
