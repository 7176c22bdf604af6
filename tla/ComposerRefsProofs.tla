-------------------------- MODULE ComposerRefsProofs --------------------------
(***************************************************************************)
(* Proofs about ComposerRefs for every number of turns, conversations,     *)
(* sources, tokens and requests: a token serves one turn, and tokens that a *)
(* deletion has listed do not bring its source into a later turn.          *)
(***************************************************************************)
EXTENDS ComposerRefs, TLAPS

\* A turn that has not been inserted holds nothing.
AbsentIsEmpty ==
  \A t \in Turns : turn[t].status = "absent" =>
    turn[t].used = {} /\ turn[t].evidence = {} /\ turn[t].refs = {}

\* A request about to consume its tokens holds the lock of the conversation, in
\* which its turn is still missing.
ConsumersHoldTheLock ==
  \A r \in Requests : request[r].pc = "consume" =>
    /\ conversationLock[ConversationOf[request[r].turn]] = r
    /\ turn[request[r].turn].status = "absent"

\* A deletion redacts turns that exist.
LinkedExist ==
  \A s \in Sources : \A t \in deletion[s].linked : turn[t].status # "absent"

\* A token of a source, unless issued too late, is listed when the deletion has
\* listed its tokens and expired when it has committed.
DeletionsReachTokens ==
  \A s \in Sources, k \in Tokens :
    s \in About(token[k].target) /\ s \notin token[k].late =>
      /\ deletion[s].pc = "expire" => k \in deletion[s].listed \/ token[k].expired
      /\ deletion[s].pc = "done" => token[k].expired

Inv == /\ TypeOK /\ AbsentIsEmpty /\ ConsumersHoldTheLock /\ LinkedExist
       /\ DeletionsReachTokens /\ TokensServeOneTurn /\ DeletedTargetsStayOut

-----------------------------------------------------------------------------
LEMMA AboutSources ==
  ASSUME NEW x \in Refs
  PROVE  About(x) \subseteq Sources
BY DEF About, Refs, Targets, SourceRef, EvidenceRef, TemplateRef

LEMMA ConversationKnown ==
  ASSUME NEW t \in Turns
  PROVE  ConversationOf[t] \in Conversations
BY DEF Conversations

(* Closing a session frees its own locks and nobody else's.                *)
LEMMA ReleaseFreesOwn ==
  ASSUME TypeOK, NEW x \in Sessions, Release(x)
  PROVE  /\ conversationLock' \in [Conversations -> Sessions \cup {NoOne}]
         /\ tokenLock' \in [Tokens -> Sessions \cup {NoOne}]
         /\ \A c \in Conversations : conversationLock[c] # x =>
              conversationLock'[c] = conversationLock[c]
BY DEF Release, TypeOK

(* The answer of a request changes the request alone, and its locks.       *)
LEMMA FinishKeeps ==
  ASSUME TypeOK, NEW r \in Requests, request[r].pc # "idle", NEW a \in Answers, Finish(r, a)
  PROVE  /\ request' \in [Requests -> RequestRows]
         /\ \A q \in Requests : request'[q].pc = "idle" \/ request'[q].turn \in Turns
         /\ request'[r].pc = "done"
         /\ \A q \in Requests \ {r} : request'[q] = request[q]
         /\ conversationLock' \in [Conversations -> Sessions \cup {NoOne}]
         /\ tokenLock' \in [Tokens -> Sessions \cup {NoOne}]
         /\ \A c \in Conversations : conversationLock[c] # r =>
              conversationLock'[c] = conversationLock[c]
<1>1. /\ conversationLock' \in [Conversations -> Sessions \cup {NoOne}]
      /\ tokenLock' \in [Tokens -> Sessions \cup {NoOne}]
      /\ \A c \in Conversations : conversationLock[c] # r =>
           conversationLock'[c] = conversationLock[c]
  BY ReleaseFreesOwn DEF Finish, Sessions
<1> DEFINE ended == [request[r] EXCEPT !.pc = "done", !.answer = a]
<1>2. request' = [request EXCEPT ![r] = ended]
  BY DEF Finish
<1>3. request \in [Requests -> RequestRows] /\ request[r].turn \in Turns
  BY DEF TypeOK
<1>4. ended \in RequestRows /\ ended.turn = request[r].turn /\ ended.pc = "done"
  BY <1>3 DEF RequestRows, Stages
<1> HIDE DEF ended
<1>5. /\ request' \in [Requests -> RequestRows]
      /\ request'[r] = ended
      /\ \A q \in Requests \ {r} : request'[q] = request[q]
  BY <1>2, <1>3, <1>4
<1>6. QED
  BY <1>1, <1>3, <1>4, <1>5 DEF TypeOK

-----------------------------------------------------------------------------
(* One lemma per action: Inv is preserved.                                 *)

(* An expiry flag that is raised disturbs nothing: Consumable gets stronger *)
(* and DeletionsReachTokens too.                                           *)
LEMMA ExpiryKeeps ==
  ASSUME Inv, NEW gone \in SUBSET Tokens,
         token' = [k \in Tokens |-> IF k \in gone THEN [token[k] EXCEPT !.expired = TRUE]
                                    ELSE token[k]]
  PROVE  /\ token' \in [Tokens -> TokenRows]
         /\ \A k \in Tokens : /\ token'[k].target = token[k].target
                              /\ token'[k].late = token[k].late
                              /\ token'[k].consumed = token[k].consumed
                              /\ token[k].expired => token'[k].expired
                              /\ k \in gone => token'[k].expired
<1>1. token \in [Tokens -> TokenRows]
  BY DEF Inv, TypeOK
<1>2. QED
  BY <1>1 DEF TokenRows

LEMMA DiscoverKeeps ==
  ASSUME Inv, NEW k \in Tokens, Discover(k)
  PROVE  Inv'
<1>1. PICK x \in Targets :
        token' = [token EXCEPT ![k] = [target |-> x, expired |-> FALSE, consumed |-> FALSE,
                    late |-> {s \in Sources : deletion[s].pc \in {"expire", "done"}}]]
  BY DEF Discover
<1>2. /\ token \in [Tokens -> TokenRows] /\ token[k] = NoToken
      /\ UNCHANGED <<turn, source, locks, request, deletion>>
  BY DEF Inv, TypeOK, Discover
<1>3. /\ \A j \in Tokens \ {k} : token'[j] = token[j]
      /\ ~token[k].consumed /\ ~token'[k].consumed
      /\ token'[k].late = {s \in Sources : deletion[s].pc \in {"expire", "done"}}
      /\ token' \in [Tokens -> TokenRows]
  BY <1>1, <1>2 DEF NoToken, TokenRows, Refs
<1>4. TypeOK'
  BY <1>2, <1>3 DEF Inv, TypeOK, locks
<1>5. AbsentIsEmpty' /\ ConsumersHoldTheLock' /\ LinkedExist'
  BY <1>2 DEF Inv, AbsentIsEmpty, ConsumersHoldTheLock, LinkedExist, locks
<1>6. DeletionsReachTokens'
  BY <1>2, <1>3 DEF Inv, DeletionsReachTokens, About
<1>7. TokensServeOneTurn'
  BY <1>2, <1>3 DEF Inv, TokensServeOneTurn
<1>8. \A t \in Turns : turn[t].used \subseteq Tokens \ {k}
  BY <1>3 DEF Inv, TokensServeOneTurn, TypeOK, TurnRows
<1>9. DeletedTargetsStayOut'
  BY <1>2, <1>3, <1>8 DEF Inv, DeletedTargetsStayOut, About
<1>10. QED
  BY <1>4, <1>5, <1>6, <1>7, <1>9 DEF Inv

LEMMA TimeOutKeeps ==
  ASSUME Inv, NEW k \in Tokens, TokenTimesOut(k)
  PROVE  Inv'
<1>1. token' = [j \in Tokens |-> IF j \in {k} THEN [token[j] EXCEPT !.expired = TRUE]
                                 ELSE token[j]]
  BY DEF TokenTimesOut, Inv, TypeOK
<1>2. /\ token' \in [Tokens -> TokenRows]
      /\ \A j \in Tokens : /\ token'[j].target = token[j].target
                           /\ token'[j].late = token[j].late
                           /\ token'[j].consumed = token[j].consumed
                           /\ token[j].expired => token'[j].expired
  BY <1>1, ExpiryKeeps
<1>3. UNCHANGED <<turn, source, locks, request, deletion>>
  BY DEF TokenTimesOut
<1>4. TypeOK'
  BY <1>2, <1>3 DEF Inv, TypeOK, locks
<1>5. AbsentIsEmpty' /\ ConsumersHoldTheLock' /\ LinkedExist'
  BY <1>3 DEF Inv, AbsentIsEmpty, ConsumersHoldTheLock, LinkedExist, locks
<1>6. DeletionsReachTokens'
  BY <1>2, <1>3 DEF Inv, DeletionsReachTokens, About
<1>7. TokensServeOneTurn'
  BY <1>2, <1>3 DEF Inv, TokensServeOneTurn
<1>8. DeletedTargetsStayOut'
  BY <1>2, <1>3 DEF Inv, DeletedTargetsStayOut, About, TypeOK, TurnRows
<1>9. QED
  BY <1>4, <1>5, <1>6, <1>7, <1>8 DEF Inv

(* A step that leaves tokens, turns, sources and deletions alone and keeps *)
(* the locks of requests about to consume.                                 *)
LEMMA RequestStepKeeps ==
  ASSUME Inv, UNCHANGED <<token, turn, source, deletion>>, TypeOK', ConsumersHoldTheLock'
  PROVE  Inv'
BY DEF Inv, AbsentIsEmpty, LinkedExist, DeletionsReachTokens, TokensServeOneTurn,
       DeletedTargetsStayOut

(* A request that is answered without a turn.                              *)
LEMMA AnsweredKeeps ==
  ASSUME Inv, NEW r \in Requests, request[r].pc # "idle", NEW a \in Answers, Finish(r, a),
         UNCHANGED <<token, turn, source, deletion>>
  PROVE  Inv'
<1>1. TypeOK
  BY DEF Inv
<1>2. TypeOK'
  BY <1>1, FinishKeeps DEF TypeOK
<1>3. ConsumersHoldTheLock'
  <2> SUFFICES ASSUME NEW q \in Requests, request'[q].pc = "consume"
               PROVE  /\ conversationLock'[ConversationOf[request'[q].turn]] = q
                      /\ turn'[request'[q].turn].status = "absent"
    BY DEF ConsumersHoldTheLock
  <2>1. q # r /\ request'[q] = request[q]
    BY <1>1, FinishKeeps
  <2>2. /\ conversationLock[ConversationOf[request[q].turn]] = q
        /\ turn[request[q].turn].status = "absent"
    BY <2>1 DEF Inv, ConsumersHoldTheLock
  <2>3. request[q].turn \in Turns
    BY <1>1, <2>1 DEF TypeOK
  <2>4. QED
    BY <1>1, <2>1, <2>2, <2>3, FinishKeeps, ConversationKnown
<1>4. QED
  BY <1>2, <1>3, RequestStepKeeps

LEMMA AskKeeps ==
  ASSUME Inv, NEW r \in Requests, Ask(r)
  PROVE  Inv'
<1>1. PICK t \in Turns, ks \in SUBSET Tokens :
        request' = [request EXCEPT ![r] =
          [NoRequest EXCEPT !.pc = "look", !.turn = t, !.tokens = ks]]
  BY DEF Ask
<1> DEFINE row == [NoRequest EXCEPT !.pc = "look", !.turn = t, !.tokens = ks]
<1>2. UNCHANGED <<token, turn, source, conversationLock, tokenLock, deletion>>
  BY DEF Ask, locks
<1>3. request \in [Requests -> RequestRows]
  BY DEF Inv, TypeOK
<1>4. NoRequest \in RequestRows
  BY DEF NoRequest, RequestRows, Stages, Answers
<1>5. row \in RequestRows /\ row.turn = t /\ row.pc = "look"
  BY <1>4 DEF RequestRows, Stages
<1>6. request' = [request EXCEPT ![r] = row]
  BY <1>1
<1> HIDE DEF row
<1>7. TypeOK'
  BY <1>2, <1>3, <1>5, <1>6 DEF Inv, TypeOK
<1>8. ConsumersHoldTheLock'
  BY <1>2, <1>3, <1>5, <1>6 DEF Inv, ConsumersHoldTheLock
<1>9. QED
  BY <1>2, <1>7, <1>8, RequestStepKeeps

(* A request that goes on, keeping its locks, to a step before consumption. *)
LEMMA AdvanceKeeps ==
  ASSUME Inv, NEW r \in Requests, request[r].pc # "idle",
         NEW row \in RequestRows, row.turn = request[r].turn, row.pc # "consume",
         request' = [request EXCEPT ![r] = row],
         UNCHANGED <<token, turn, source, conversationLock, tokenLock, deletion>>
  PROVE  Inv'
<1>1. request \in [Requests -> RequestRows] /\ request[r].turn \in Turns
  BY DEF Inv, TypeOK
<1>2. TypeOK'
  BY <1>1 DEF Inv, TypeOK
<1>3. ConsumersHoldTheLock'
  BY <1>1 DEF Inv, ConsumersHoldTheLock
<1>4. QED
  BY <1>2, <1>3, RequestStepKeeps

LEMMA LookKeeps ==
  ASSUME Inv, NEW r \in Requests, Look(r)
  PROVE  Inv'
<1>1. UNCHANGED <<token, turn, source, deletion>> /\ request[r].pc = "look"
  BY DEF Look
<1>2. CASE turn[request[r].turn].status # "absent"
  <2>1. Finish(r, Replay(request[r])) /\ Replay(request[r]) \in Answers
    BY <1>2 DEF Look, Replay, Answers
  <2>2. QED
    BY <1>1, <2>1, AnsweredKeeps
<1>3. CASE turn[request[r].turn].status = "absent"
  <2>1. /\ request' = [request EXCEPT ![r] = [request[r] EXCEPT !.pc = "validate"]]
        /\ UNCHANGED <<conversationLock, tokenLock>>
    BY <1>3 DEF Look, locks
  <2>2. request[r] \in RequestRows
    BY DEF Inv, TypeOK
  <2>3. /\ [request[r] EXCEPT !.pc = "validate"] \in RequestRows
        /\ [request[r] EXCEPT !.pc = "validate"].turn = request[r].turn
        /\ [request[r] EXCEPT !.pc = "validate"].pc # "consume"
    BY <2>2 DEF RequestRows, Stages
  <2>4. QED
    BY <1>1, <2>1, <2>3, AdvanceKeeps
<1>4. QED
  BY <1>2, <1>3

LEMMA ValidateKeeps ==
  ASSUME Inv, NEW r \in Requests, Validate(r)
  PROVE  Inv'
<1>1. UNCHANGED <<token, turn, source, deletion>> /\ request[r].pc = "validate"
  BY DEF Validate
<1>2. CASE \E a \in {"in_progress", "unavailable"} : Finish(r, a)
  BY <1>1, <1>2, AnsweredKeeps DEF Answers
<1>3. CASE ~\E a \in {"in_progress", "unavailable"} : Finish(r, a)
  <2> DEFINE row == [request[r] EXCEPT !.pc = "lock",
                       !.refs = {token[k].target : k \in request[r].tokens}]
  <2>1. request' = [request EXCEPT ![r] = row] /\ UNCHANGED <<conversationLock, tokenLock>>
    BY <1>3 DEF Validate, locks
  <2>2. request[r] \in RequestRows /\ token \in [Tokens -> TokenRows]
    BY DEF Inv, TypeOK
  <2>3. \A k \in request[r].tokens : token[k].target \in Refs
    BY <2>2 DEF RequestRows, TokenRows
  <2>4. row \in RequestRows /\ row.turn = request[r].turn /\ row.pc # "consume"
    BY <2>2, <2>3 DEF RequestRows, Stages
  <2>5. QED
    BY <1>1, <2>1, <2>4, AdvanceKeeps
<1>4. QED
  BY <1>2, <1>3

LEMMA LockConversationKeeps ==
  ASSUME Inv, NEW r \in Requests, LockConversation(r)
  PROVE  Inv'
<1> DEFINE q == request[r]
           c == ConversationOf[q.turn]
<1>1. /\ UNCHANGED <<token, turn, source, deletion>>
      /\ q.pc = "lock" /\ conversationLock[c] = NoOne
  BY DEF LockConversation
<1>2. /\ q \in RequestRows /\ q.turn \in Turns /\ c \in Conversations
      /\ request \in [Requests -> RequestRows]
      /\ conversationLock \in [Conversations -> Sessions \cup {NoOne}]
  BY <1>1, ConversationKnown DEF Inv, TypeOK
<1>3. CASE \E a \in {Replay(q), "in_progress"} : Finish(r, a)
  BY <1>1, <1>3, AnsweredKeeps DEF Answers, Replay
<1>4. CASE ~\E a \in {Replay(q), "in_progress"} : Finish(r, a)
  <2>1. /\ turn[q.turn].status = "absent"
        /\ request' = [request EXCEPT ![r] = [q EXCEPT !.pc = "consume"]]
        /\ conversationLock' = [conversationLock EXCEPT ![c] = r]
        /\ UNCHANGED tokenLock
    BY <1>4 DEF LockConversation
  <2>2. [q EXCEPT !.pc = "consume"] \in RequestRows
    BY <1>2 DEF RequestRows, Stages
  <2>3. TypeOK'
    BY <1>1, <1>2, <2>1, <2>2 DEF Inv, TypeOK, Sessions
  <2>4. ConsumersHoldTheLock'
    <3> SUFFICES ASSUME NEW p \in Requests, request'[p].pc = "consume"
                 PROVE  /\ conversationLock'[ConversationOf[request'[p].turn]] = p
                        /\ turn'[request'[p].turn].status = "absent"
      BY DEF ConsumersHoldTheLock
    <3>1. CASE p = r
      BY <1>1, <1>2, <2>1, <3>1
    <3>2. CASE p # r
      <4>1. /\ request'[p] = request[p]
            /\ conversationLock[ConversationOf[request[p].turn]] = p
            /\ turn[request[p].turn].status = "absent"
        BY <1>2, <2>1, <3>2 DEF Inv, ConsumersHoldTheLock
      <4>2. ConversationOf[request[p].turn] # c
        BY <1>1, <4>1, RefConstants
      <4>3. QED
        BY <1>1, <1>2, <2>1, <4>1, <4>2
    <3>3. QED
      BY <3>1, <3>2
  <2>5. QED
    BY <1>1, <2>3, <2>4, RequestStepKeeps
<1>5. QED
  BY <1>3, <1>4

(* A row lock of a token is a matter of its own.                           *)
LEMMA TokenLockKeeps ==
  ASSUME Inv, NEW x \in Sessions, NEW ks, NEW order, TakeToken(x, ks, order),
         UNCHANGED <<token, turn, source, conversationLock, request, deletion>>
  PROVE  Inv'
<1>1. PICK k : tokenLock' = [tokenLock EXCEPT ![k] = x]
  BY DEF TakeToken
<1>2. TypeOK'
  BY <1>1 DEF Inv, TypeOK
<1>3. ConsumersHoldTheLock'
  BY DEF Inv, ConsumersHoldTheLock
<1>4. QED
  BY <1>2, <1>3, RequestStepKeeps

(* The turn is inserted and its tokens are consumed: they were neither      *)
(* expired nor consumed when the request held their locks.                 *)
LEMMA InsertKeeps ==
  ASSUME Inv, NEW r \in Requests, Insert(r)
  PROVE  Inv'
<1> DEFINE q == request[r]
           born == {s \in Sources : deletion[s].pc = "done"}
           row == [Turn("running", {}) EXCEPT !.refs = q.refs, !.used = q.tokens,
                     !.bornAfter = born]
<1>1. q.pc = "consume" /\ UNCHANGED <<source, deletion>>
  BY DEF Insert
<1>2. /\ TypeOK /\ q \in RequestRows /\ q.turn \in Turns
      /\ token \in [Tokens -> TokenRows] /\ turn \in [Turns -> TurnRows]
  BY <1>1 DEF Inv, TypeOK
<1>3. CASE ~\A k \in q.tokens : Consumable(k)
  <2>1. Finish(r, "unavailable") /\ UNCHANGED <<token, turn>>
    BY <1>3 DEF Insert
  <2>2. QED
    BY <1>1, <2>1, AnsweredKeeps DEF Answers
<1>4. CASE \A k \in q.tokens : Consumable(k)
  <2>1. /\ token' = [k \in Tokens |-> IF k \in q.tokens
                       THEN [token[k] EXCEPT !.consumed = TRUE] ELSE token[k]]
        /\ turn' = [turn EXCEPT ![q.turn] = row]
        /\ Finish(r, "created") /\ "created" \in Answers
    BY <1>4 DEF Insert, Answers
  <2>2. q.tokens \subseteq Tokens /\ q.refs \subseteq Refs
    BY <1>2 DEF RequestRows
  <2>3. Turn("running", {}) \in TurnRows
    BY DEF Turn, TurnRows, Statuses
  <2>4. /\ row \in TurnRows /\ row.status = "running" /\ row.used = q.tokens
        /\ row.bornAfter = born
    <3>1. born \in SUBSET Sources
      OBVIOUS
    <3> HIDE DEF born
    <3>2. row \in TurnRows
      BY <2>2, <2>3, <3>1 DEF TurnRows, Statuses
    <3>3. row.status = "running"
      BY <2>3 DEF TurnRows, Turn
    <3>4. row.used = q.tokens /\ row.bornAfter = born
      BY <2>3 DEF TurnRows
    <3>5. QED
      BY <3>2, <3>3, <3>4
  <2> HIDE DEF row
  <2>5. /\ turn' \in [Turns -> TurnRows]
        /\ turn'[q.turn] = row
        /\ \A t \in Turns \ {q.turn} : turn'[t] = turn[t]
    BY <1>2, <2>1, <2>4
  <2>6. /\ token' \in [Tokens -> TokenRows]
        /\ \A k \in Tokens : /\ token'[k].target = token[k].target
                             /\ token'[k].late = token[k].late
                             /\ token'[k].expired = token[k].expired
                             /\ token'[k].consumed = (k \in q.tokens \/ token[k].consumed)
    <3> SUFFICES ASSUME NEW k \in Tokens
                 PROVE  /\ token'[k] \in TokenRows
                        /\ token'[k].target = token[k].target
                        /\ token'[k].late = token[k].late
                        /\ token'[k].expired = token[k].expired
                        /\ token'[k].consumed = (k \in q.tokens \/ token[k].consumed)
      BY <2>1
    <3>1. token[k] \in TokenRows
      BY <1>2
    <3>2. CASE k \in q.tokens
      BY <2>1, <3>1, <3>2 DEF TokenRows
    <3>3. CASE k \notin q.tokens
      BY <2>1, <3>1, <3>3 DEF TokenRows
    <3>4. QED
      BY <3>2, <3>3
  <2>7. \A k \in q.tokens : ~token[k].expired /\ ~token[k].consumed
    BY <1>4 DEF Consumable, Usable
  <2>8. TypeOK'
    BY <1>1, <1>2, <2>1, <2>5, <2>6, FinishKeeps DEF TypeOK
  <2>9. turn[q.turn].status = "absent" /\ turn[q.turn].used = {}
    BY <1>1, <1>2 DEF Inv, ConsumersHoldTheLock, AbsentIsEmpty
  <2>10. AbsentIsEmpty' /\ LinkedExist'
    <3>1. \A s \in Sources : deletion[s].linked \subseteq Turns
      BY <1>2 DEF TypeOK, DeletionRows
    <3>2. LinkedExist'
      BY <1>1, <2>4, <2>5, <3>1 DEF Inv, LinkedExist
    <3>3. AbsentIsEmpty'
      BY <2>4, <2>5 DEF Inv, AbsentIsEmpty
    <3>4. QED
      BY <3>2, <3>3
  <2>11. ConsumersHoldTheLock'
    <3> SUFFICES ASSUME NEW p \in Requests, request'[p].pc = "consume"
                 PROVE  /\ conversationLock'[ConversationOf[request'[p].turn]] = p
                        /\ turn'[request'[p].turn].status = "absent"
      BY DEF ConsumersHoldTheLock
    <3>1. p # r /\ request'[p] = request[p]
      BY <1>1, <1>2, <2>1, FinishKeeps
    <3>2. /\ conversationLock[ConversationOf[request[p].turn]] = p
          /\ turn[request[p].turn].status = "absent"
          /\ conversationLock[ConversationOf[q.turn]] = r
      BY <1>1, <3>1 DEF Inv, ConsumersHoldTheLock
    <3>3. request[p].turn \in Turns
      BY <1>2, <3>1 DEF TypeOK
    <3>4. request[p].turn # q.turn
      BY <3>1, <3>2
    <3>5. conversationLock'[ConversationOf[request[p].turn]] = p
      BY <1>1, <1>2, <2>1, <3>1, <3>2, <3>3, FinishKeeps, ConversationKnown
    <3>6. QED
      BY <2>5, <3>1, <3>2, <3>3, <3>4, <3>5
  <2>12. DeletionsReachTokens'
    BY <1>1, <2>6 DEF Inv, DeletionsReachTokens
  <2>13. \A t \in Turns : turn[t].used \cap q.tokens = {} /\ turn[t].used \subseteq Tokens
    BY <1>2, <2>2, <2>7 DEF Inv, TokensServeOneTurn, TurnRows
  <2>14. TokensServeOneTurn'
    <3>1. \A t, u \in Turns : turn'[t].used \cap turn'[u].used # {} => t = u
      BY <2>4, <2>5, <2>13 DEF Inv, TokensServeOneTurn
    <3>2. {k \in Tokens : token'[k].consumed} = q.tokens \cup {k \in Tokens : token[k].consumed}
      BY <2>2, <2>6
    <3>3. UNION {turn'[t].used : t \in Turns} = q.tokens \cup UNION {turn[t].used : t \in Turns}
      BY <1>2, <2>4, <2>5, <2>9
    <3>4. QED
      BY <3>1, <3>2, <3>3 DEF Inv, TokensServeOneTurn
  <2>15. DeletedTargetsStayOut'
    <3> SUFFICES ASSUME NEW t \in Turns, NEW k \in turn'[t].used, NEW s \in turn'[t].bornAfter,
                        s \in About(token'[k].target)
                 PROVE  s \in token'[k].late
      BY DEF DeletedTargetsStayOut
    <3>1. CASE t = q.turn
      <4>1. k \in q.tokens /\ k \in Tokens /\ s \in Sources /\ deletion[s].pc = "done"
        BY <2>2, <2>4, <2>5, <3>1
      <4>2. s \in About(token[k].target) /\ ~token[k].expired
        BY <2>6, <2>7, <4>1
      <4>3. QED
        BY <2>6, <4>1, <4>2 DEF Inv, DeletionsReachTokens
    <3>2. CASE t # q.turn
      <4>1. turn'[t] = turn[t] /\ k \in Tokens
        BY <2>5, <2>13, <3>2
      <4>2. s \in About(token[k].target) \cap turn[t].bornAfter
        BY <2>6, <4>1
      <4>3. QED
        BY <2>6, <4>1, <4>2 DEF Inv, DeletedTargetsStayOut
    <3>3. QED
      BY <3>1, <3>2
  <2>16. QED
    BY <2>8, <2>10, <2>11, <2>12, <2>14, <2>15 DEF Inv
<1>5. QED
  BY <1>3, <1>4

LEMMA AnswerKeeps ==
  ASSUME Inv, NEW t \in Turns, Answer(t)
  PROVE  Inv'
<1>1. /\ turn[t].status = "running"
      /\ UNCHANGED <<token, source, conversationLock, tokenLock, request, deletion>>
      /\ turn \in [Turns -> TurnRows]
      /\ \A s \in Sources : deletion[s].linked \subseteq Turns
  BY DEF Answer, locks, Inv, TypeOK, DeletionRows
<1>2. PICK row \in TurnRows :
        /\ turn' = [turn EXCEPT ![t] = row]
        /\ row.status # "absent"
        /\ row.used = turn[t].used /\ row.bornAfter = turn[t].bornAfter
  <2>1. turn[t] \in TurnRows
    BY <1>1
  <2>2. CASE turn' = [turn EXCEPT ![t].status = "failed"]
    <3>1. turn' = [turn EXCEPT ![t] = [turn[t] EXCEPT !.status = "failed"]]
      BY <2>2
    <3>2. [turn[t] EXCEPT !.status = "failed"] \in TurnRows
      BY <2>1 DEF TurnRows, Statuses
    <3>3. QED
      BY <2>1, <3>1, <3>2 DEF TurnRows
  <2>3. CASE turn' # [turn EXCEPT ![t].status = "failed"]
    <3> DEFINE read == UNION {About(x) : x \in {y \in turn[t].refs : HasBody(y)}}
    <3>1. PICK cited \in SUBSET Sources :
            turn' = [turn EXCEPT ![t].status = "completed", ![t].evidence = cited,
                       ![t].basis = IF cited = {} THEN {} ELSE cited \cup read]
      BY <2>3 DEF Answer
    <3>2. read \subseteq Sources
      BY <2>1, AboutSources DEF TurnRows
    <3> HIDE DEF read
    <3> DEFINE basis == IF cited = {} THEN {} ELSE cited \cup read
               row == [turn[t] EXCEPT !.status = "completed", !.evidence = cited,
                         !.basis = basis]
    <3>3. basis \in SUBSET Sources
      BY <3>2
    <3>4. turn' = [turn EXCEPT ![t] = row]
      BY <1>1, <3>1
    <3> HIDE DEF basis
    <3>5. row \in TurnRows
      BY <2>1, <3>3 DEF TurnRows, Statuses
    <3>6. row.status # "absent" /\ row.used = turn[t].used /\ row.bornAfter = turn[t].bornAfter
      BY <2>1 DEF TurnRows
    <3>7. QED
      BY <3>4, <3>5, <3>6
  <2>4. QED
    BY <2>2, <2>3
<1>3. /\ turn' \in [Turns -> TurnRows]
      /\ \A u \in Turns : /\ turn'[u].used = turn[u].used
                          /\ turn'[u].bornAfter = turn[u].bornAfter
                          /\ u # t => turn'[u] = turn[u]
      /\ turn'[t].status # "absent"
  BY <1>1, <1>2
<1>4. TypeOK'
  BY <1>1, <1>3 DEF Inv, TypeOK
<1>5. AbsentIsEmpty'
  BY <1>3 DEF Inv, AbsentIsEmpty
<1>6. LinkedExist'
  BY <1>1, <1>3 DEF Inv, LinkedExist
<1>7. ConsumersHoldTheLock'
  BY <1>1, <1>3 DEF Inv, ConsumersHoldTheLock, TypeOK
<1>8. DeletionsReachTokens'
  BY <1>1 DEF Inv, DeletionsReachTokens
<1>9. TokensServeOneTurn'
  BY <1>1, <1>3 DEF Inv, TokensServeOneTurn
<1>10. DeletedTargetsStayOut'
  BY <1>1, <1>3 DEF Inv, DeletedTargetsStayOut
<1>11. QED
  BY <1>4, <1>5, <1>6, <1>7, <1>8, <1>9, <1>10 DEF Inv

(* A deletion that goes on or is rolled back before its commit.            *)
LEMMA DeletionStepKeeps ==
  ASSUME Inv, NEW s \in Sources, NEW row \in DeletionRows,
         deletion' = [deletion EXCEPT ![s] = row],
         \A t \in row.linked : turn[t].status # "absent",
         row.pc # "done",
         row.pc = "expire" => row.listed = {k \in TokensOf(s) : ~token[k].expired},
         UNCHANGED <<token, turn, source, request>>,
         conversationLock' \in [Conversations -> Sessions \cup {NoOne}],
         tokenLock' \in [Tokens -> Sessions \cup {NoOne}],
         \A c \in Conversations : conversationLock[c] # s => conversationLock'[c] = conversationLock[c]
  PROVE  Inv'
<1>1. deletion \in [Sources -> DeletionRows]
  BY DEF Inv, TypeOK
<1>2. deletion'[s] = row /\ \A x \in Sources \ {s} : deletion'[x] = deletion[x]
  BY <1>1
<1>3. TypeOK'
  BY <1>1 DEF Inv, TypeOK
<1>4. ConsumersHoldTheLock'
  BY RefConstants, ConversationKnown DEF Inv, TypeOK, ConsumersHoldTheLock
<1>5. AbsentIsEmpty' /\ TokensServeOneTurn' /\ DeletedTargetsStayOut'
  BY DEF Inv, AbsentIsEmpty, TokensServeOneTurn, DeletedTargetsStayOut
<1>6. LinkedExist'
  BY <1>2 DEF Inv, LinkedExist
<1>7. DeletionsReachTokens'
  BY <1>2 DEF Inv, DeletionsReachTokens, TokensOf
<1>8. QED
  BY <1>3, <1>4, <1>5, <1>6, <1>7 DEF Inv

LEMMA StartDeleteKeeps ==
  ASSUME Inv, NEW s \in Sources, StartDelete(s)
  PROVE  Inv'
<1> DEFINE linked == {t \in Linked(s) : turn[t].status # "redacted"}
           answered == {t \in Turns : turn[t].status = "completed"}
           row == [pc |-> "redact", listed |-> {}, linked |-> linked, answered |-> answered]
<1>1. /\ deletion' = [deletion EXCEPT ![s] = row]
      /\ UNCHANGED <<token, turn, source, request, conversationLock, tokenLock>>
  BY DEF StartDelete, locks
<1>2. linked \subseteq Turns /\ answered \subseteq Turns
  BY DEF Linked
<1>3. \A t \in linked : turn[t].status # "absent"
  BY DEF Linked, Inv, AbsentIsEmpty
<1> HIDE DEF linked, answered
<1>4. row \in DeletionRows
  BY <1>2 DEF DeletionRows
<1>5. row.pc = "redact" /\ row.linked = linked
  OBVIOUS
<1> HIDE DEF row
<1>6. QED
  BY <1>1, <1>3, <1>4, <1>5, DeletionStepKeeps DEF Inv, TypeOK

LEMMA ListTokensKeeps ==
  ASSUME Inv, NEW s \in Sources, ListTokens(s)
  PROVE  Inv'
<1> DEFINE listed == {k \in TokensOf(s) : ~token[k].expired}
           row == [deletion[s] EXCEPT !.pc = "expire", !.listed = listed]
<1>1. /\ deletion' = [deletion EXCEPT ![s] = row]
      /\ UNCHANGED <<token, turn, source, request, conversationLock, tokenLock>>
  BY DEF ListTokens, locks
<1>2. deletion[s] \in DeletionRows /\ listed \subseteq Tokens
  BY DEF Inv, TypeOK, TokensOf
<1>3. /\ row \in DeletionRows /\ row.pc = "expire" /\ row.listed = listed
      /\ row.linked = deletion[s].linked
  BY <1>2 DEF DeletionRows
<1> HIDE DEF row
<1>4. \A t \in row.linked : turn[t].status # "absent"
  BY <1>3 DEF Inv, LinkedExist
<1>5. QED
  BY <1>1, <1>3, <1>4, DeletionStepKeeps DEF Inv, TypeOK

LEMMA LockLinkedKeeps ==
  ASSUME Inv, NEW s \in Sources, LockLinked(s)
  PROVE  Inv'
<1>1. PICK c \in Conversations :
        conversationLock[c] = NoOne /\ conversationLock' = [conversationLock EXCEPT ![c] = s]
  <2>1. deletion[s].linked \subseteq Turns
    BY DEF Inv, TypeOK, DeletionRows
  <2>2. Remaining(s) \subseteq Conversations
    BY <2>1 DEF Remaining, Conversations
  <2>3. QED
    BY <2>2 DEF LockLinked
<1>2. UNCHANGED <<token, turn, source, tokenLock, request, deletion>>
  BY DEF LockLinked
<1>3. TypeOK'
  BY <1>1, <1>2 DEF Inv, TypeOK, Sessions
<1>4. ConsumersHoldTheLock'
  BY <1>1, <1>2, RefConstants, ConversationKnown DEF Inv, TypeOK, ConsumersHoldTheLock
<1>5. QED
  BY <1>2, <1>3, <1>4, RequestStepKeeps

(* The commit: the listed tokens expire, the linked turns are redacted.    *)
LEMMA CommitDeleteKeeps ==
  ASSUME Inv, NEW s \in Sources, CommitDelete(s)
  PROVE  Inv'
<1> DEFINE d == deletion[s]
           row == [d EXCEPT !.pc = "done"]
<1>1. /\ d.pc = "expire" /\ Release(s) /\ UNCHANGED request
      /\ source' = [source EXCEPT ![s] = "deleting"]
      /\ deletion' = [deletion EXCEPT ![s] = row]
  BY DEF CommitDelete, Step
<1>2. TypeOK /\ d \in DeletionRows
  BY DEF Inv, TypeOK
<1>3. /\ token' \in [Tokens -> TokenRows]
      /\ \A k \in Tokens : /\ token'[k].target = token[k].target
                           /\ token'[k].late = token[k].late
                           /\ token'[k].consumed = token[k].consumed
                           /\ token[k].expired => token'[k].expired
                           /\ k \in d.listed => token'[k].expired
  <2>1. /\ d.listed \in SUBSET Tokens
        /\ token' = [k \in Tokens |-> IF k \in d.listed THEN [token[k] EXCEPT !.expired = TRUE]
                                      ELSE token[k]]
    BY <1>2 DEF CommitDelete, DeletionRows
  <2>2. QED
    BY <2>1, ExpiryKeeps
<1>4. /\ turn' \in [Turns -> TurnRows]
      /\ \A t \in Turns : /\ turn'[t].used = turn[t].used
                          /\ turn'[t].bornAfter = turn[t].bornAfter
                          /\ turn'[t].evidence = turn[t].evidence
                          /\ turn'[t].refs = turn[t].refs
                          /\ turn'[t].status = IF t \in d.linked THEN "redacted"
                                               ELSE turn[t].status
  <2>1. turn' = [t \in Turns |-> IF t \in d.linked
                   THEN [turn[t] EXCEPT !.status = "redacted"] ELSE turn[t]]
    BY DEF CommitDelete
  <2>2. turn \in [Turns -> TurnRows]
    BY <1>2 DEF TypeOK
  <2>3. \A t \in Turns : /\ [turn[t] EXCEPT !.status = "redacted"] \in TurnRows
                         /\ turn[t] \in TurnRows
    BY <2>2 DEF TurnRows, Statuses
  <2>4. turn' \in [Turns -> TurnRows]
    BY <2>1, <2>3
  <2>5. QED
    BY <2>1, <2>2, <2>4 DEF TurnRows
<1>5. /\ row \in DeletionRows /\ row.linked = d.linked /\ row.pc = "done"
  BY <1>2 DEF DeletionRows
<1> HIDE DEF row
<1>6. /\ deletion' \in [Sources -> DeletionRows]
      /\ deletion'[s] = row
      /\ \A x \in Sources \ {s} : deletion'[x] = deletion[x]
  BY <1>1, <1>2, <1>5 DEF TypeOK
<1>7. /\ conversationLock' \in [Conversations -> Sessions \cup {NoOne}]
      /\ tokenLock' \in [Tokens -> Sessions \cup {NoOne}]
      /\ \A c \in Conversations : conversationLock[c] # s =>
           conversationLock'[c] = conversationLock[c]
  BY <1>1, <1>2, ReleaseFreesOwn DEF Sessions
<1>8. TypeOK'
  BY <1>1, <1>2, <1>3, <1>4, <1>6, <1>7 DEF TypeOK
<1>9. \A x \in Sources : deletion[x].linked \subseteq Turns
  BY <1>2 DEF TypeOK, DeletionRows
<1>10. LinkedExist'
  BY <1>4, <1>5, <1>6, <1>9 DEF Inv, LinkedExist
<1>11. AbsentIsEmpty'
  BY <1>4 DEF Inv, AbsentIsEmpty
<1>12. ConsumersHoldTheLock'
  <2> SUFFICES ASSUME NEW p \in Requests, request[p].pc = "consume"
               PROVE  /\ conversationLock'[ConversationOf[request[p].turn]] = p
                      /\ turn'[request[p].turn].status = "absent"
    BY <1>1 DEF ConsumersHoldTheLock
  <2>1. /\ conversationLock[ConversationOf[request[p].turn]] = p
        /\ turn[request[p].turn].status = "absent"
        /\ request[p].turn \in Turns
    BY <1>2 DEF Inv, ConsumersHoldTheLock, TypeOK
  <2>2. p # s
    BY RefConstants
  <2>3. request[p].turn \notin d.linked
    BY <2>1 DEF Inv, LinkedExist
  <2>4. QED
    BY <1>4, <1>7, <2>1, <2>2, <2>3, ConversationKnown
<1>13. DeletionsReachTokens'
  BY <1>1, <1>3, <1>5, <1>6 DEF Inv, DeletionsReachTokens
<1>14. TokensServeOneTurn'
  BY <1>3, <1>4 DEF Inv, TokensServeOneTurn
<1>15. DeletedTargetsStayOut'
  BY <1>2, <1>3, <1>4 DEF Inv, DeletedTargetsStayOut, TypeOK, TurnRows
<1>16. QED
  BY <1>8, <1>10, <1>11, <1>12, <1>13, <1>14, <1>15 DEF Inv

LEMMA AbortKeeps ==
  ASSUME Inv, NEW x \in Sessions, Abort(x)
  PROVE  Inv'
<1>1. UNCHANGED <<token, turn, source>>
  BY DEF Abort
<1>2. CASE x \in Requests
  <2>1. Finish(x, "error") /\ UNCHANGED deletion
    BY <1>2 DEF Abort
  <2>2. request[x].pc # "idle"
    BY <1>2, RefConstants DEF Abort, InCircle, WaitsFor
  <2>3. QED
    BY <1>1, <1>2, <2>1, <2>2, AnsweredKeeps DEF Answers
<1>3. CASE x \notin Requests
  <2> DEFINE row == [NoDeletion EXCEPT !.pc = "aborted"]
  <2>1. /\ x \in Sources /\ Release(x) /\ UNCHANGED request
        /\ deletion' = [deletion EXCEPT ![x] = row]
    BY <1>3 DEF Abort, Sessions
  <2>2. row \in DeletionRows /\ row.linked = {} /\ row.pc = "aborted"
    BY DEF NoDeletion, DeletionRows
  <2> HIDE DEF row
  <2>3. QED
    BY <1>1, <2>1, <2>2, ReleaseFreesOwn, DeletionStepKeeps DEF Inv
<1>4. QED
  BY <1>2, <1>3

-----------------------------------------------------------------------------
LEMMA InitInv == Init => Inv
<1> SUFFICES ASSUME Init PROVE Inv
  OBVIOUS
<1>1. NoToken \in TokenRows /\ ~NoToken.consumed /\ About(NoToken.target) = {}
  BY DEF NoToken, TokenRows, Refs, TemplateRef, About
<1>2. /\ Turn("completed", Sources) \in TurnRows /\ Turn("absent", {}) \in TurnRows
      /\ \A status \in Statuses, e \in SUBSET Sources :
           Turn(status, e).used = {} /\ Turn(status, e).bornAfter = {}
      /\ Turn("completed", Sources).status = "completed"
      /\ Turn("absent", {}).evidence = {} /\ Turn("absent", {}).refs = {}
  BY DEF Turn, TurnRows, Statuses
<1>3. NoRequest \in RequestRows /\ NoRequest.pc = "idle"
  BY DEF NoRequest, RequestRows, Stages, Answers
<1>4. NoDeletion \in DeletionRows /\ NoDeletion.pc = "idle" /\ NoDeletion.linked = {}
  BY DEF NoDeletion, DeletionRows
<1>5. turn \in [Turns -> TurnRows]
  BY <1>2 DEF Init
<1>6. \A t \in Turns : turn[t].used = {} /\ turn[t].bornAfter = {}
  BY <1>2 DEF Init, Statuses
<1>7. TypeOK
  BY <1>1, <1>3, <1>4, <1>5 DEF Init, TypeOK
<1>8. AbsentIsEmpty
  BY <1>2, <1>6 DEF Init, AbsentIsEmpty
<1>9. ConsumersHoldTheLock /\ LinkedExist /\ DeletionsReachTokens
  BY <1>1, <1>3, <1>4 DEF Init, ConsumersHoldTheLock, LinkedExist, DeletionsReachTokens
<1>10. TokensServeOneTurn /\ DeletedTargetsStayOut
  BY <1>1, <1>6 DEF Init, TokensServeOneTurn, DeletedTargetsStayOut
<1>11. QED
  BY <1>7, <1>8, <1>9, <1>10 DEF Inv

LEMMA NextInv == Inv /\ [Next]_vars => Inv'
<1> SUFFICES ASSUME Inv, [Next]_vars PROVE Inv'
  OBVIOUS
<1>1. ASSUME NEW k \in Tokens, Discover(k) \/ TokenTimesOut(k) PROVE Inv'
  BY <1>1, DiscoverKeeps, TimeOutKeeps
<1>2. ASSUME NEW r \in Requests, Ask(r) PROVE Inv'
  BY <1>2, AskKeeps
<1>3. ASSUME NEW r \in Requests, Start(r) PROVE Inv'
  <2>1. CASE Look(r) \/ Validate(r) \/ LockConversation(r)
    BY <1>3, <2>1, LookKeeps, ValidateKeeps, LockConversationKeeps
  <2>2. CASE LockToken(r)
    BY <1>3, <2>2, TokenLockKeeps DEF LockToken, Sessions
  <2>3. CASE Insert(r)
    BY <1>3, <2>3, InsertKeeps
  <2>4. QED
    BY <1>3, <2>1, <2>2, <2>3 DEF Start
<1>4. ASSUME NEW t \in Turns, Answer(t) PROVE Inv'
  BY <1>4, AnswerKeeps
<1>5. ASSUME NEW s \in Sources, StartDelete(s) PROVE Inv'
  BY <1>5, StartDeleteKeeps
<1>6. ASSUME NEW s \in Sources, Delete(s) PROVE Inv'
  <2>1. CASE LockLinked(s) \/ ListTokens(s) \/ CommitDelete(s)
    BY <1>6, <2>1, LockLinkedKeeps, ListTokensKeeps, CommitDeleteKeeps
  <2>2. CASE LockListed(s)
    BY <1>6, <2>2, TokenLockKeeps DEF LockListed, Sessions
  <2>3. QED
    BY <1>6, <2>1, <2>2 DEF Delete
<1>7. ASSUME NEW x \in Sessions, Abort(x) PROVE Inv'
  BY <1>7, AbortKeeps
<1>8. CASE UNCHANGED vars
  BY <1>8 DEF vars, locks, Inv, TypeOK, AbsentIsEmpty, ConsumersHoldTheLock, LinkedExist,
              DeletionsReachTokens, TokensServeOneTurn, DeletedTargetsStayOut
<1>9. QED
  BY <1>1, <1>2, <1>3, <1>4, <1>5, <1>6, <1>7, <1>8 DEF Next

(* The parts together are an inductive invariant.                          *)
THEOREM Invariance == Spec => []Inv
<1>1. Init => Inv
  BY InitInv
<1>2. Inv /\ [Next]_vars => Inv'
  BY NextInv
<1>3. QED
  BY <1>1, <1>2, PTL DEF Spec

(* However many requests bring a token at once and whichever of them are    *)
(* refused, rolled back or replayed, a consumed token belongs to exactly    *)
(* one turn and a token of a turn is consumed.                             *)
THEOREM TokensOnce == Spec => []TokensServeOneTurn
<1>1. Inv => TokensServeOneTurn
  BY DEF Inv
<1>2. QED
  BY <1>1, Invariance, PTL

(* A token that a deletion could list does not bring its source into a turn *)
(* inserted after the deletion has committed.                              *)
THEOREM DeletedStayOut == Spec => []DeletedTargetsStayOut
<1>1. Inv => DeletedTargetsStayOut
  BY DEF Inv
<1>2. QED
  BY <1>1, Invariance, PTL

(* Rows, locals and locks keep their vocabulary.                           *)
THEOREM RefTypes == Spec => []TypeOK
<1>1. Inv => TypeOK
  BY DEF Inv
<1>2. QED
  BY <1>1, Invariance, PTL
=============================================================================
