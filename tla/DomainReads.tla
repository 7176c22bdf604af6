---------------------------- MODULE DomainReads ----------------------------
(***************************************************************************)
(* Scoped retrieval (evidence.py) and graph reads (graphs.py) of one        *)
(* domain, against what goes on meanwhile: the domain is stopped and       *)
(* started, its sources are withdrawn, deleted and indexed again, and the  *)
(* runtime's documents and graph change.  A read checks the rows, lets go  *)
(* of the database while it asks the runtime, and checks the rows again.   *)
(*                                                                         *)
(* The index worker and source deletion are reduced to what they do to the *)
(* generations, the runtime and a source's identity (SourceIndex has the   *)
(* rest).  A health call may fail and a deadline may pass at any time.     *)
(***************************************************************************)
EXTENDS ReadGates

CONSTANTS
  Sources,
  Writers,      \* index workers and deletions under way at once
  MaxChanges    \* bound: stops, starts, withdrawals and requests to index

ASSUME ReadsConstants ==
  /\ MaxChanges \in Nat
  /\ "domain" \notin Sources

VARIABLES
  dom,      \* the domain row: running with no active operation, generations
  source,   \* per source: its index state and identity
  store,    \* the runtime: documents, graph nodes and their generation
  write,    \* per writer: where it is
  read,     \* per read: where it is and what it has seen
  changes

rows == <<dom, source>>
readsVars == <<gateVars, rows, store, write, read, changes>>

Phases == {"queued", "ready", "failed", "withdrawn"}

NoRead == [kind |-> "none", pc |-> "idle", ctl |-> 0, desired |-> 0, applied |-> 0,
           scope |-> [s \in Sources |-> 0], found |-> {}, remote |-> 0,
           answer |-> "none", lapsed |-> {}, hidden |-> {}]
NoWrite == [pc |-> "idle", src |-> CHOOSE s \in Sources : TRUE, gen |-> 0,
            base |-> 0, corpus |-> 0, was |-> 0]

\* every source is indexed
ReadsInit ==
  /\ GatesInit
  /\ dom     = [running |-> TRUE, ctl |-> 1, desired |-> 1, applied |-> 1]
  /\ source  = [s \in Sources |-> [phase |-> "ready", gen |-> 1]]
  /\ store   = [docs |-> Sources, nodes |-> Sources, gen |-> 1]
  /\ write   = [w \in Writers |-> NoWrite]
  /\ read    = [r \in Readers |-> NoRead]
  /\ changes = 0

-----------------------------------------------------------------------------
(* The world a read meets                                                  *)

Change == changes < MaxChanges /\ changes' = changes + 1

\* what a read under way has been overtaken by
Lapse(what) == read' = [r \in Readers |-> IF read[r].pc = "idle" THEN read[r]
                                          ELSE [read[r] EXCEPT !.lapsed = @ \cup {what}]]

\* start_domain, stop_domain with their workers: the generation moves with both
Toggle ==
  /\ Change
  /\ dom' = [dom EXCEPT !.running = ~@, !.ctl = @ + 1]
  /\ Lapse("domain")
  /\ UNCHANGED <<gateVars, source, store, write>>

\* retry_source_index of a source whose runtime copy is gone: a new generation
Requeue(s) ==
  /\ source[s].phase \in {"failed", "withdrawn"} /\ s \notin store.docs
  /\ \A w \in Writers : write[w].pc # "idle" => write[w].src # s
  /\ Change
  /\ source' = [source EXCEPT ![s] = [phase |-> "queued", gen |-> @.gen + 1]]
  /\ UNCHANGED <<gateVars, dom, store, write, read>>

\* a cancellation or the deletion worker: the source is fenced first
Withdraw(w, s) ==
  /\ write[w].pc = "idle" /\ source[s].phase = "ready"
  /\ Change
  /\ source' = [source EXCEPT ![s] = [phase |-> "withdrawn", gen |-> @.gen + 1]]
  /\ write' = [write EXCEPT ![w].pc = "fenced", ![w].src = s]
  /\ Lapse(s)
  /\ UNCHANGED <<gateVars, dom, store>>

\* _delete_remote_if_needed: advance, commit, and only then the runtime
AdvanceForDelete(w) ==
  /\ write[w].pc = "fenced"
  /\ dom' = [dom EXCEPT !.desired = @ + 1]
  /\ write' = [write EXCEPT ![w].pc = "delete", ![w].corpus = dom.desired + 1,
                            ![w].was = dom.applied]
  /\ UNCHANGED <<gateVars, source, store, read, changes>>

\* the runtime forgets the document and writes an empty graph state
DeleteLands(w) ==
  /\ write[w].pc = "delete"
  /\ store' = [docs |-> store.docs \ {write[w].src}, nodes |-> {}, gen |-> write[w].corpus]
  /\ write' = [write EXCEPT ![w].pc = "verify"]
  /\ UNCHANGED <<gateVars, rows, read, changes>>

\* is_absent, then mark_domain_graph_applied_generation through the loaded row
VerifyAbsent(w) ==
  LET mine == write[w] IN
  /\ mine.pc = "verify"
  /\ dom' = [dom EXCEPT !.applied = IF mine.corpus <= mine.was THEN @ ELSE mine.corpus]
  /\ write' = [write EXCEPT ![w] = NoWrite]
  /\ UNCHANGED <<gateVars, source, store, read, changes>>

\* run_once claims a queued source and keeps the domain row it loads
ClaimQueued(w, s) ==
  /\ write[w].pc = "idle" /\ source[s].phase = "queued" /\ dom.running
  /\ \A v \in Writers : write[v].pc # "idle" => write[v].src # s
  /\ write' = [write EXCEPT ![w] = [NoWrite EXCEPT !.pc = "claimed", !.src = s,
                                    !.gen = source[s].gen, !.base = dom.desired]]
  /\ UNCHANGED <<gateVars, rows, store, read, changes>>

\* the generation advances from the row that was loaded with the claim
AdvanceForSubmit(w) ==
  /\ write[w].pc = "claimed"
  /\ dom' = [dom EXCEPT !.desired = write[w].base + 1]
  /\ write' = [write EXCEPT ![w].pc = "submit", ![w].corpus = write[w].base + 1]
  /\ UNCHANGED <<gateVars, source, store, read, changes>>

\* the graph state a submission writes: the nodes of its own text (synthetic
\* extraction, the local client), or every label the runtime knows by then
NodesAfter(s, docs) == {{s}, docs}

\* the runtime has the document and writes its graph state
SubmitLands(w) ==
  LET docs == store.docs \cup {write[w].src} IN
  /\ write[w].pc = "submit"
  /\ \E nodes \in NodesAfter(write[w].src, docs) :
       store' = [docs |-> docs, nodes |-> nodes, gen |-> write[w].corpus]
  /\ write' = [write EXCEPT ![w].pc = "landed"]
  /\ UNCHANGED <<gateVars, rows, read, changes>>

\* the request is given up: the generation it advanced stays ahead
WriteFails(w) ==
  /\ write[w].pc \in {"claimed", "submit", "delete"}
  /\ source' = [source EXCEPT ![write[w].src].phase = IF @ = "queued" THEN "failed" ELSE @]
  /\ write' = [write EXCEPT ![w] = NoWrite]
  /\ UNCHANGED <<gateVars, dom, store, read, changes>>

\* mark_index_ready_if_current; the applied generation is the desired one of a
\* refreshed row
MarkReady(w) ==
  LET mine == write[w] IN
  /\ mine.pc = "landed"
  /\ IF source[mine.src] = [phase |-> "queued", gen |-> mine.gen]
     THEN /\ source' = [source EXCEPT ![mine.src].phase = "ready"]
          /\ dom' = [dom EXCEPT !.applied = IF dom.desired >= @ THEN dom.desired ELSE @]
     ELSE UNCHANGED rows
  /\ write' = [write EXCEPT ![w] = NoWrite]
  /\ UNCHANGED <<gateVars, store, read, changes>>

-----------------------------------------------------------------------------
(* A read                                                                  *)

IsGraph(r) == read[r].kind # "evidence"

Becomes(r, new) == read' = [read EXCEPT ![r] = new]
Proceed(r, stage)  == Becomes(r, [read[r] EXCEPT !.pc = stage])

\* inside the admission every end is through finally
Refuse(r) == Becomes(r, [read[r] EXCEPT !.pc = "return", !.answer = "refused"])

Unmoved == UNCHANGED <<rows, store, write, changes>>

\* the route calls retrieve_scoped_evidence: admission comes first
BeginEvidence(r) ==
  /\ read[r].pc = "idle"
  /\ Becomes(r, [NoRead EXCEPT !.kind = "evidence", !.pc = "admission"])
  /\ Arrive(r, "evidence")
  /\ Unmoved

\* a graph read looks at the rows first
BeginGraph(r, kind) ==
  /\ read[r].pc = "idle"
  /\ Becomes(r, [NoRead EXCEPT !.kind = kind, !.pc = "resolve"])
  /\ UNCHANGED gateVars /\ Unmoved

\* get_domain_graph_snapshot, search_domain_graph_labels
BeginSnapshot(r) == BeginGraph(r, "snapshot")
BeginLabels(r)   == BeginGraph(r, "labels")

Admit(r) ==
  /\ read[r].pc = "admission" /\ TakePermit(r)
  /\ IF ticket'[r].held < Len(Order(read[r].kind)) THEN UNCHANGED read
     ELSE Proceed(r, IF IsGraph(r) THEN "call" ELSE "resolve")
  /\ Unmoved

\* retrieval_saturated; graph_rate_limited or graph_capacity
Saturated(r) ==
  /\ read[r].pc = "admission" /\ MayGiveUp(r)
  /\ Refuse(r)
  /\ UNCHANGED gateVars /\ Unmoved

PendingDeletes == {write[w].src : w \in {v \in Writers : write[v].pc \in {"delete", "verify"}}}

\* resolve_available_domain: the row, then the runtime's health
Resolved(r, stage) ==
  [read[r] EXCEPT !.pc = stage, !.ctl = dom.ctl, !.desired = dom.desired,
                  !.applied = dom.applied, !.lapsed = {}, !.hidden = PendingDeletes]

\* ... and for a graph the generations; db.commit() ends the transaction
Resolve(r) ==
  /\ read[r].pc = "resolve"
  /\ IF IsGraph(r)
     THEN \/ /\ dom.running /\ dom.desired <= dom.applied
             /\ Becomes(r, Resolved(r, "admission"))
             /\ Arrive(r, read[r].kind)
          \/ /\ Becomes(r, [read[r] EXCEPT !.pc = "done", !.answer = "refused"])
             /\ UNCHANGED gateVars
     ELSE /\ \/ dom.running /\ Becomes(r, Resolved(r, "freeze"))
             \/ Refuse(r)
          /\ UNCHANGED gateVars
  /\ Unmoved

\* mutant of Identity: the generations are left out
IdentityByState(s) == IF source[s].phase = "ready" THEN 1 ELSE 0

\* _frozen_source_identity of an eligible source, 0 for any other
Identity(s) == IF source[s].phase = "ready" THEN source[s].gen ELSE 0

\* eligible_sources_for_domain, freeze_retrieval_scope and the commit
Freeze(r) ==
  LET scope == [s \in Sources |-> Identity(s)] IN
  /\ read[r].pc = "freeze"
  /\ \/ /\ \E s \in Sources : scope[s] # 0
        /\ Becomes(r, [read[r] EXCEPT !.pc = "call", !.scope = scope,
                                      !.lapsed = @ \ Sources])
     \/ Refuse(r)                  \* no eligible source, or the deadline
  /\ UNCHANGED gateVars /\ Unmoved

\* the candidates of a retrieval: any of the runtime's blocks, as few as it likes;
\* too many bytes or another shape is malformed
Candidates == SUBSET store.docs

\* client.retrieve, outside the database
Retrieve(r) ==
  /\ read[r].pc = "call" /\ ~IsGraph(r)
  /\ \/ \E hits \in Candidates :
          Becomes(r, [read[r] EXCEPT !.pc = "map", !.found = hits])
     \/ Refuse(r)
  /\ UNCHANGED gateVars /\ Unmoved

\* what the runtime answers: only a snapshot says which generation it is of
GraphSnapshot == [nodes |-> store.nodes, gen |-> store.gen]
GraphLabels   == [nodes |-> store.nodes, gen |-> 0]

\* graph_snapshot or graph_label_search, outside the database
CallGraph(r) ==
  LET graph == IF read[r].kind = "snapshot" THEN GraphSnapshot ELSE GraphLabels IN
  /\ read[r].pc = "call" /\ IsGraph(r)
  /\ \/ Becomes(r, [read[r] EXCEPT !.pc = "return", !.found = graph.nodes,
                                   !.remote = graph.gen])
     \/ Refuse(r)
  /\ UNCHANGED gateVars /\ Unmoved

SameControl(r) == dom.running /\ dom.ctl = read[r].ctl

\* map_retrieval_hits_to_internal_evidence: one statement joins the hits with
\* the frozen identities
Map(r) ==
  LET current == {s \in Sources : SameControl(r) /\ read[r].scope[s] # 0
                                  /\ Identity(s) = read[r].scope[s]}
  IN /\ read[r].pc = "map"
     /\ \/ Becomes(r, [read[r] EXCEPT !.pc = "reauthorize", !.found = @ \cap current])
        \/ Refuse(r)
     /\ UNCHANGED gateVars /\ Unmoved

\* reauthorize_frozen_retrieval_scope: the domain, and its runtime's health ...
ReauthorizeDomain(r) ==
  /\ read[r].pc = "reauthorize" /\ ~IsGraph(r)
  /\ \/ SameControl(r) /\ Proceed(r, "recheck")
     \/ Refuse(r)
  /\ UNCHANGED gateVars /\ Unmoved

\* ... and then every source of the scope, whether it was hit or not
ReauthorizeSources(r) ==
  /\ read[r].pc = "recheck"
  /\ \/ /\ \A s \in Sources : read[r].scope[s] # 0 => Identity(s) = read[r].scope[s]
        /\ Becomes(r, [read[r] EXCEPT !.pc = "return", !.answer = "answered"])
     \/ Refuse(r)
  /\ UNCHANGED gateVars /\ Unmoved

\* the end of the admission, however it came about
Return(r) ==
  /\ read[r].pc = "return" /\ ReturnPermits(r)
  /\ Proceed(r, "drop")
  /\ Unmoved

Drop(r) ==
  /\ read[r].pc = "drop" /\ DropReferences(r)
  /\ Proceed(r, IF IsGraph(r) /\ read[r].answer = "none" THEN "reauthorize" ELSE "done")
  /\ Unmoved

SameGenerations(r) ==
  /\ dom.desired = read[r].desired /\ dom.applied = read[r].applied
  /\ dom.desired <= dom.applied

\* _reauthorize_after_call; the snapshot also carries the runtime's generation
ReauthorizeGraph(r) ==
  LET fine == /\ SameControl(r) /\ SameGenerations(r)
              /\ read[r].kind = "snapshot" => read[r].remote = dom.applied
  IN /\ read[r].pc = "reauthorize" /\ IsGraph(r)
     /\ Becomes(r, [read[r] EXCEPT !.pc = "done",
                                   !.answer = IF fine THEN "answered" ELSE "refused"])
     /\ UNCHANGED gateVars /\ Unmoved

Finish(r) ==
  /\ read[r].pc = "done"
  /\ Becomes(r, NoRead)
  /\ UNCHANGED gateVars /\ Unmoved

ReadStep(r) ==
  Admit(r) \/ Saturated(r) \/ Resolve(r) \/ Freeze(r) \/ Retrieve(r) \/ CallGraph(r)
  \/ Map(r) \/ ReauthorizeDomain(r) \/ ReauthorizeSources(r) \/ Return(r) \/ Drop(r)
  \/ ReauthorizeGraph(r) \/ Finish(r)

BeginRead(r) == BeginEvidence(r) \/ BeginSnapshot(r) \/ BeginLabels(r)

World ==
  \/ Toggle
  \/ \E s \in Sources : Requeue(s) \/ \E w \in Writers : Withdraw(w, s) \/ ClaimQueued(w, s)
  \/ \E w \in Writers : AdvanceForDelete(w) \/ DeleteLands(w) \/ VerifyAbsent(w)
                        \/ AdvanceForSubmit(w) \/ SubmitLands(w) \/ WriteFails(w)
                        \/ MarkReady(w)

ReadsNext == World \/ \E r \in Readers : BeginRead(r) \/ ReadStep(r)

ReadsSpec == ReadsInit /\ [][ReadsNext]_readsVars

\* A call of a request thread goes on, its deadline passes; nobody has to
\* begin a read, and nothing is assumed of the writers.
FairReadsSpec == ReadsSpec /\ \A r \in Readers : WF_readsVars(ReadStep(r))

-----------------------------------------------------------------------------
(* Properties                                                              *)

ReadsTypeOK ==
  /\ dom \in [running : BOOLEAN, ctl : Nat, desired : Nat, applied : Nat]
  /\ source \in [Sources -> [phase : Phases, gen : Nat]]
  /\ store \in [docs : SUBSET Sources, nodes : SUBSET Sources, gen : Nat]
  /\ changes \in 0..MaxChanges

\* A read that is answered was of one life of what it shows, also when the
\* domain went down and came back, or a source was withdrawn and indexed again,
\* while the runtime was asked: a graph is answered and evidence passes its
\* first recheck only if the domain was never stopped since it was resolved,
\* and evidence is answered only if none of its sources was fenced since the
\* scope was frozen.  Of the sources a graph shows it says nothing: graphs.py
\* compares no identity of theirs.
AnswersAreOfOneLife ==
  [][\A r \in Readers :
       /\ read[r].pc = "reauthorize" /\ read'[r].pc = "recheck" =>
            "domain" \notin read[r].lapsed
       /\ read[r].pc = "recheck" /\ read'[r].answer = "answered" =>
            read[r].found \cap read[r].lapsed = {}
       /\ IsGraph(r) /\ read[r].pc = "reauthorize" /\ read'[r].answer = "answered" =>
            "domain" \notin read[r].lapsed]_readsVars

\* Every read ends: nobody waits for a permit for ever, and a domain's gate is
\* never held for a process-wide one that cannot come.
EveryReadEnds == \A r \in Readers : read[r].pc # "idle" ~> read[r].pc = "idle"

\* interaction-behavior-prd M-18, "an admin deletes an indexed source so the
\* domain's desired generation advances ahead of the applied ... the server
\* returns retryable 409 graph_refreshing ... rather than deleted nodes".
DeletedNodesStayHidden ==
  [][\A r \in Readers :
       IsGraph(r) /\ read[r].pc = "reauthorize" /\ read'[r].answer = "answered" =>
         read[r].found \cap read[r].hidden = {}]_readsVars

\* indexing.py, "Record applied generation only after a successful runtime graph
\* mutation": no generation is recorded while a writer has advanced to it and
\* its runtime call is still to come.
AppliedFollowsTheRuntime ==
  [][dom'.applied # dom.applied =>
       \A w \in Writers : write[w].pc \in {"submit", "delete"} => write[w].corpus > dom'.applied]_readsVars
=============================================================================
