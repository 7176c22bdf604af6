------------------------- MODULE SourcePreparation -------------------------
(***************************************************************************)
(* One uploaded source from its upload to its removal: services/sources.py *)
(* and services/preview.py over the object store.  Requests upload, retry, *)
(* cancel and delete from the copies they loaded; worker processes prepare *)
(* the source, render its preview and carry deletions out under leases;    *)
(* the deletion of the whole domain purges it with everything else.        *)
(*                                                                         *)
(* An operation is named by the request that queued it.  Every process     *)
(* presents the same worker id, so a refreshed lease is current whoever    *)
(* renewed it; "lease" keeps who renewed it last, for the checks the code  *)
(* makes on a copy.                                                        *)
(***************************************************************************)
EXTENDS Naturals

CONSTANTS
  Requests,     \* administrators' requests about the source
  Workers,      \* worker processes
  NoRequest,    \* no operation
  MaxFaults     \* bound: crashes, failures and leases lost by slow workers

ASSUME PreparationConstants ==
  /\ NoRequest \notin Requests
  /\ Workers \cap {"none", "expired"} = {}
  /\ MaxFaults \in Nat

VARIABLES
  domain,   \* state of the domain that owns the source
  source,   \* source_documents row and what it refers to
  preview,  \* its preview columns
  op,       \* source_preparation_operations
  req,      \* per request: its stage and what it loaded
  work,     \* per worker: its job and what it loaded
  store,    \* object keys present in the object store
  lost,     \* history: keys that the deletion of the domain has erased
  faults    \* faults so far

vars == <<domain, source, preview, op, req, work, store, lost, faults>>

Types    == {"prepare", "delete"}
Active   == {"queued", "running"}
Ended    == {"succeeded", "failed", "cancelled", "removed"}
Leases   == Workers \cup {"none", "expired"}
Keys     == [kind : {"original", "images", "preview"}, by : Requests \cup Workers, at : Nat]
NoKeys   == {}

Sources    == [state : {"gone", "pending", "prepared", "deleting"}, gen : Nat,
               keys : SUBSET Keys]
Previews   == [state : {"none", "queued", "running", "ready", "failed"}, gen : Nat,
               lease : Leases]
Operations == [type : Types, status : Active \cup Ended \cup {"none"}, gen : Nat,
               lease : Leases]
Handlers   == [pc : {"idle", "loaded", "flushed", "stored", "done"},
               kind : {"upload", "retry", "cancel", "delete"}, gen : Nat,
               found : Requests \cup {NoRequest}]
Jobs       == [pc : {"idle", "parse", "write", "finalize", "render", "publish",
                     "erase", "remove", "fail", "failpreview"},
               op : Requests \cup {NoRequest}, gen : Nat, fits : BOOLEAN,
               keys : SUBSET Keys]

NoOperation == [type |-> "prepare", status |-> "none", gen |-> 0, lease |-> "none"]
NoHandler   == [pc |-> "idle", kind |-> "upload", gen |-> 0, found |-> NoRequest]
NoJob       == [pc |-> "idle", op |-> NoRequest, gen |-> 0, fits |-> FALSE, keys |-> NoKeys]
NoSource    == [state |-> "gone", gen |-> 0, keys |-> NoKeys]
NoPreview   == [state |-> "none", gen |-> 0, lease |-> "none"]

Init ==
  /\ domain = "live"
  /\ source = NoSource /\ preview = NoPreview
  /\ op = [r \in Requests |-> NoOperation]
  /\ req = [r \in Requests |-> NoHandler]
  /\ work = [w \in Workers |-> NoJob]
  /\ store = {} /\ lost = {} /\ faults = 0

-----------------------------------------------------------------------------
(* Shared pieces.                                                          *)

Fault == faults < MaxFaults /\ faults' = faults + 1

(* The deletion of the domain has written the row, its preview and its     *)
(* operation and not committed: whoever writes one of them waits.          *)
RowsFree == domain # "erasing"

IsActive(r) == op[r].status \in Active
Stored(r)   == op[r].status \notin {"none", "removed"}

\* mutant of Key: objects named after the source instead of a fresh key
SharedKey(kind, by) ==
  [kind |-> kind, by |-> IF kind = "original" THEN by ELSE CHOOSE w \in Workers : TRUE,
   at |-> source.gen]

Key(kind, by) == [kind |-> kind, by |-> by, at |-> source.gen]

Goto(r, stage) == req' = [req EXCEPT ![r].pc = stage]
Leave(w) == work' = [work EXCEPT ![w] = NoJob]

End(r, status) ==
  op' = IF Stored(r) THEN [op EXCEPT ![r].status = status, ![r].lease = "none"] ELSE op

LeaseCurrent(r) == op[r].status = "running" /\ op[r].lease \in Workers

(* A row that goes takes its operations with it.                           *)
Cascade == [r \in Requests |-> IF Stored(r) THEN [op[r] EXCEPT !.status = "removed"] ELSE op[r]]

(* The partial unique index admits one active operation.                   *)
Admits(except) == \A r \in Requests \ {except} : ~IsActive(r)

Inserted(r, type, gen) ==
  [type |-> type, status |-> "queued", gen |-> gen, lease |-> "none"]

-----------------------------------------------------------------------------
(* upload_source_bytes: checks, flush of the rows, the object, commit.     *)

UploadChecks(r) ==
  /\ req[r].pc = "idle"
  /\ domain = "live" /\ source.state = "gone" /\ source.gen = 0
  /\ req' = [req EXCEPT ![r] = [NoHandler EXCEPT !.pc = "loaded"]]
  /\ UNCHANGED <<domain, source, preview, op, work, store, lost, faults>>

(* The unique index on the content makes the second of two uploads wait    *)
(* for the first, and fail if that one commits.  Once the row is removed   *)
(* an upload makes another source, which is not this one.                  *)
UploadFlush(r) ==
  /\ req[r].pc = "loaded" /\ req[r].kind = "upload"
  /\ \A s \in Requests : req[s].pc \notin {"flushed", "stored"}
  /\ Goto(r, IF domain = "gone" \/ source.gen > 0 THEN "done" ELSE "flushed")
  /\ UNCHANGED <<domain, source, preview, op, work, store, lost, faults>>

UploadStore(r) ==
  /\ req[r].pc = "flushed"
  /\ \/ /\ store' = store \cup {Key("original", r)}
        /\ Goto(r, "stored")
        /\ UNCHANGED faults
     \/ /\ Fault /\ Goto(r, "done")
        /\ UNCHANGED store
  /\ UNCHANGED <<domain, source, preview, op, work, lost>>

UploadCommit(r) ==
  /\ req[r].pc = "stored"
  /\ source' = [state |-> "pending", gen |-> 1, keys |-> {Key("original", r)}]
  /\ preview' = NoPreview
  /\ op' = [op EXCEPT ![r] = Inserted(r, "prepare", 1)]
  /\ Goto(r, "done")
  /\ UNCHANGED <<domain, work, store, lost, faults>>

-----------------------------------------------------------------------------
(* retry_source, cancel_source, enqueue_delete_source: load and check, then *)
(* write the generation counted from the loaded copy.                      *)

Load(r, kind, found) ==
  /\ req[r].pc = "idle" /\ domain = "live" /\ source.state # "gone"
  /\ req' = [req EXCEPT ![r] = [pc |-> "loaded", kind |-> kind, gen |-> source.gen,
                                found |-> found]]
  /\ UNCHANGED <<domain, source, preview, op, work, store, lost, faults>>

BeginRetry(r) ==
  /\ source.state = "pending" /\ Admits(NoRequest)
  /\ Load(r, "retry", NoRequest)

BeginCancel(r) ==
  /\ source.state = "pending"
  /\ \E a \in Requests : IsActive(a) /\ op[a].type = "prepare" /\ Load(r, "cancel", a)

BeginDelete(r) ==
  /\ source.state = "deleting" => Admits(NoRequest)
  /\ Load(r, "delete", NoRequest)

CommitRetry(r) ==
  /\ req[r].pc = "loaded" /\ req[r].kind = "retry" /\ RowsFree
  /\ IF source.state # "gone" /\ Admits(NoRequest)
     THEN /\ source' = [source EXCEPT !.gen = req[r].gen + 1]
          /\ op' = [op EXCEPT ![r] = Inserted(r, "prepare", req[r].gen + 1)]
     ELSE UNCHANGED <<source, op>>
  /\ Goto(r, "done")
  /\ UNCHANGED <<domain, preview, work, store, lost, faults>>

CommitCancel(r) ==
  /\ req[r].pc = "loaded" /\ req[r].kind = "cancel" /\ RowsFree
  /\ IF source.state # "gone"
     THEN /\ source' = [source EXCEPT !.gen = req[r].gen + 1]
          /\ End(req[r].found, "cancelled")
     ELSE UNCHANGED <<source, op>>
  /\ Goto(r, "done")
  /\ UNCHANGED <<domain, preview, work, store, lost, faults>>

(* Deleting supersedes whatever is active by now, with one flush before    *)
(* the new operation is inserted.                                          *)
CommitDelete(r) ==
  /\ req[r].pc = "loaded" /\ req[r].kind = "delete" /\ RowsFree
  /\ IF source.state # "gone"
     THEN /\ source' = [source EXCEPT !.state = "deleting", !.gen = req[r].gen + 1]
          /\ op' = [s \in Requests |->
                      IF s = r THEN Inserted(r, "delete", req[r].gen + 1)
                      ELSE IF IsActive(s)
                           THEN [op[s] EXCEPT !.status = "cancelled", !.lease = "none"]
                           ELSE op[s]]
     ELSE UNCHANGED <<source, op>>
  /\ Goto(r, "done")
  /\ UNCHANGED <<domain, preview, work, store, lost, faults>>

CrashRequest(r) ==
  /\ req[r].pc \notin {"idle", "done"} /\ Fault
  /\ Goto(r, "done")
  /\ UNCHANGED <<domain, source, preview, op, work, store, lost>>

-----------------------------------------------------------------------------
(* Claims.  A lease that ran out is taken over; an ended one is not.       *)

\* mutant of Claimable: a running operation is left to its first worker
ClaimableOnce(r, type) == op[r].type = type /\ op[r].status = "queued"

Claimable(r, type) ==
  /\ op[r].type = type
  /\ \/ op[r].status = "queued"
     \/ op[r].status = "running" /\ op[r].lease = "expired"

Take(w, r, stage) ==
  /\ op' = [op EXCEPT ![r].status = "running", ![r].lease = w]
  /\ work' = [work EXCEPT ![w] =
                [pc |-> stage, op |-> r, gen |-> op[r].gen, keys |-> source.keys,
                 fits |-> source.state = "pending" /\ source.gen = op[r].gen]]

(* _heartbeat_prep_lease refreshes the operation, so any process's lease   *)
(* counts, and renews it.                                                  *)
Beat(w, continue, stage) ==
  IF LeaseCurrent(work[w].op)
  THEN /\ op' = [op EXCEPT ![work[w].op].lease = w]
       /\ work' = [work EXCEPT ![w] = [continue EXCEPT !.pc = stage]]
  ELSE /\ Leave(w)
       /\ UNCHANGED op

-----------------------------------------------------------------------------
(* SourcePreparationWorker.run_once and publish_prepared_source.           *)

ClaimPreparation(w) ==
  /\ work[w].pc = "idle" /\ RowsFree /\ \E r \in Requests : Claimable(r, "prepare") /\ Take(w, r, "parse")
  /\ UNCHANGED <<domain, source, preview, req, store, lost, faults>>

Parsed(w) ==
  /\ work[w].pc = "parse" /\ RowsFree
  /\ Beat(w, work[w], "write")
  /\ UNCHANGED <<domain, source, preview, req, store, lost, faults>>

(* After a failure the operation is read again; one that is still leased   *)
(* is failed, by a plain update that comes after that look.                *)
FailOperation(w) ==
  IF LeaseCurrent(work[w].op)
  THEN work' = [work EXCEPT ![w].pc = "fail"]
  ELSE Leave(w)

FailWrite(w) ==
  /\ work[w].pc = "fail" /\ RowsFree
  /\ End(work[w].op, "failed")
  /\ Leave(w)
  /\ UNCHANGED <<domain, source, preview, req, store, lost, faults>>

ParserFails(w) ==
  /\ work[w].pc = "parse" /\ Fault
  /\ FailOperation(w)
  /\ UNCHANGED <<domain, source, preview, op, req, store, lost>>

(* publish_prepared_source looks at the source as it was when claimed; one *)
(* that no longer fits leaves the operation running.                       *)
WriteImages(w) ==
  /\ work[w].pc = "write"
  /\ IF work[w].fits
     THEN /\ store' = store \cup {Key("images", w)}
          /\ work' = [work EXCEPT ![w].pc = "finalize", ![w].keys = {Key("images", w)}]
     ELSE /\ Leave(w)
          /\ UNCHANGED store
  /\ UNCHANGED <<domain, source, preview, op, req, lost, faults>>

WriteFails(w) ==
  /\ work[w].pc \in {"write", "finalize"} /\ work[w].fits /\ Fault
  /\ store' = IF work[w].pc = "finalize" THEN store \ work[w].keys ELSE store
  /\ FailOperation(w)
  /\ UNCHANGED <<domain, source, preview, op, req, lost>>

\* mutant of Publishable: the source and the lease as they were when claimed
PublishableWhenClaimed(w) == work[w].fits

(* _cas_finalize_preparation: the operation, then the source.              *)
Publishable(w) ==
  /\ LeaseCurrent(work[w].op) /\ op[work[w].op].gen = work[w].gen
  /\ source.state = "pending" /\ source.gen = work[w].gen

Finalize(w) ==
  /\ work[w].pc = "finalize" /\ RowsFree
  /\ IF Publishable(w)
     THEN /\ source' = [source EXCEPT !.state = "prepared", !.keys = @ \cup work[w].keys]
          /\ preview' = [state |-> "queued", gen |-> source.gen, lease |-> "none"]
          /\ End(work[w].op, "succeeded")
          /\ UNCHANGED store
     ELSE /\ store' = store \ work[w].keys
          /\ UNCHANGED <<source, preview, op>>
  /\ Leave(w)
  /\ UNCHANGED <<domain, req, lost, faults>>

-----------------------------------------------------------------------------
(* SourcePreviewWorker.run_once: heartbeats compare the worker's own copy  *)
(* of the lease.  A preview queued for an earlier generation is claimed    *)
(* for the present one.                                                    *)

PreviewClaimable ==
  /\ source.state = "prepared"
  /\ \/ preview.state = "queued"
     \/ preview.state = "running" /\ preview.lease = "expired"

ClaimPreview(w) ==
  /\ work[w].pc = "idle" /\ RowsFree /\ PreviewClaimable
  /\ preview' = [state |-> "running", gen |-> source.gen, lease |-> w]
  /\ work' = [work EXCEPT ![w] = [NoJob EXCEPT !.pc = "render", !.gen = source.gen]]
  /\ UNCHANGED <<domain, source, op, req, store, lost, faults>>

Rendered(w) ==
  /\ work[w].pc = "render" /\ RowsFree
  /\ IF preview.lease = w /\ source.state # "gone"
     THEN /\ store' = store \cup {Key("preview", w)}
          /\ work' = [work EXCEPT ![w].pc = "publish", ![w].keys = {Key("preview", w)}]
     ELSE /\ Leave(w)
          /\ UNCHANGED store
  /\ UNCHANGED <<domain, source, preview, op, req, lost, faults>>

(* _fail_preview: the lease of the row read again, then a plain update,    *)
(* then what was written for the preview is deleted.                       *)
RenderFails(w) ==
  /\ work[w].pc \in {"render", "publish"} /\ Fault
  /\ IF preview.lease \in Workers
     THEN /\ work' = [work EXCEPT ![w].pc = "failpreview"]
          /\ UNCHANGED store
     ELSE /\ Leave(w)
          /\ store' = store \ work[w].keys
  /\ UNCHANGED <<domain, source, preview, op, req, lost>>

FailPreview(w) ==
  /\ work[w].pc = "failpreview" /\ RowsFree
  /\ preview' = IF source.state = "gone" THEN preview
                ELSE [preview EXCEPT !.state = "failed", !.lease = "none"]
  /\ store' = store \ work[w].keys
  /\ Leave(w)
  /\ UNCHANGED <<domain, source, op, req, lost, faults>>

(* _cas_publish.                                                           *)
PreviewCurrent(w) ==
  /\ source.state = "prepared" /\ source.gen = work[w].gen
  /\ preview.state = "running" /\ preview.gen = work[w].gen /\ preview.lease \in Workers

PublishPreview(w) ==
  /\ work[w].pc = "publish" /\ RowsFree
  /\ IF PreviewCurrent(w)
     THEN /\ preview' = [preview EXCEPT !.state = "ready", !.lease = "none"]
          /\ source' = [source EXCEPT !.keys = @ \cup work[w].keys]
          /\ UNCHANGED store
     ELSE /\ store' = store \ work[w].keys
          /\ UNCHANGED <<preview, source>>
  /\ Leave(w)
  /\ UNCHANGED <<domain, op, req, lost, faults>>

-----------------------------------------------------------------------------
(* SourceDeleteWorker.run_once: the object keys are those the row had when *)
(* the worker loaded it.                                                   *)

ClaimDelete(w) ==
  /\ work[w].pc = "idle" /\ RowsFree /\ \E r \in Requests : Claimable(r, "delete") /\ Take(w, r, "erase")
  /\ UNCHANGED <<domain, source, preview, req, store, lost, faults>>

Erased(w) == work[w].keys

Erase(w) ==
  /\ work[w].pc = "erase" /\ RowsFree
  /\ Beat(w, work[w], "remove")
  /\ store' = IF LeaseCurrent(work[w].op) THEN store \ Erased(w) ELSE store
  /\ UNCHANGED <<domain, source, preview, req, lost, faults>>

(* Remote index content or an object could not be removed.                 *)
EraseFails(w) ==
  /\ work[w].pc = "erase" /\ Fault
  /\ \E some \in SUBSET Erased(w) : store' = store \ some
  /\ FailOperation(w)
  /\ UNCHANGED <<domain, source, preview, op, req, lost>>

(* The operation and the source are compared as last read: the source at   *)
(* the claim, or again when its index content was removed.  The lease is   *)
(* looked at first and may run out before the row is written.              *)
RemoveSource(w) ==
  LET r == work[w].op IN
  /\ work[w].pc = "remove" /\ RowsFree
  /\ \/ /\ op[r].lease # w \/ source.state = "gone"
        /\ UNCHANGED <<source, preview, op>>
     \/ /\ source.state # "gone"
        /\ source' = [NoSource EXCEPT !.gen = source.gen]
        /\ preview' = NoPreview
        /\ op' = Cascade
     \/ /\ source.state # "gone"
        /\ source.state # "deleting" \/ source.gen # work[w].gen
        /\ End(r, "cancelled")
        /\ UNCHANGED <<source, preview>>
  /\ Leave(w)
  /\ UNCHANGED <<domain, req, store, lost, faults>>

-----------------------------------------------------------------------------
(* A worker dies; a lease runs out, freely once nobody works under it.     *)

CrashWorker(w) ==
  /\ work[w].pc # "idle" /\ Fault
  /\ Leave(w)
  /\ UNCHANGED <<domain, source, preview, op, req, store, lost>>

LeaseExpires(r) ==
  /\ op[r].status = "running" /\ op[r].lease \in Workers
  /\ op' = [op EXCEPT ![r].lease = "expired"]
  /\ IF \E w \in Workers : work[w].pc # "idle" /\ work[w].op = r
     THEN Fault ELSE UNCHANGED faults
  /\ UNCHANGED <<domain, source, preview, req, work, store, lost>>

PreviewLeaseExpires ==
  /\ preview.lease \in Workers
  /\ preview' = [preview EXCEPT !.lease = "expired"]
  /\ IF work[preview.lease].pc \in {"render", "publish"} THEN Fault ELSE UNCHANGED faults
  /\ UNCHANGED <<domain, source, op, req, work, store, lost>>

-----------------------------------------------------------------------------
(* The deletion of the domain, as far as its sources see it.               *)

DomainDeletionBegins ==
  /\ domain = "live" /\ domain' = "deleting"
  /\ UNCHANGED <<source, preview, op, req, work, store, lost, faults>>

(* purge_domain_sources_local marks the source as deleting, with a flush   *)
(* only; where the source has index content, its clean-up commits.         *)
PurgeFences ==
  /\ domain \in {"deleting", "purged"} /\ domain' = "fenced"
  /\ source.state # "gone"
  /\ source' = [source EXCEPT !.state = "deleting", !.gen = @ + 1]
  /\ op' = [r \in Requests |->
              IF IsActive(r) THEN [op[r] EXCEPT !.status = "cancelled", !.lease = "none"]
              ELSE op[r]]
  /\ UNCHANGED <<preview, req, work, store, lost, faults>>

\* original and images
Purged == {k \in source.keys : k.kind # "preview"}

PurgeErases ==
  /\ source.state # "gone"
  /\ \/ domain \in {"deleting", "purged"} /\ domain' = "erasing"
     \/ domain = "fenced" /\ domain' = "erased"
  /\ store' = store \ Purged /\ lost' = lost \cup Purged
  /\ UNCHANGED <<source, preview, op, req, work, faults>>

(* The row goes with the commit of the next heartbeat.                     *)
PurgeCommits ==
  /\ \/ domain \in {"erasing", "erased"}
     \/ domain = "deleting" /\ source.state = "gone"
  /\ domain' = "purged"
  /\ source' = [NoSource EXCEPT !.gen = source.gen]
  /\ preview' = NoPreview
  /\ op' = Cascade
  /\ UNCHANGED <<req, work, store, lost, faults>>

(* The storage fails, the worker dies or its lease was lost: the rows are  *)
(* as they were, whatever has been erased, and the purge may begin again.  *)
PurgeFails ==
  /\ domain \in {"deleting", "fenced", "erasing", "erased"} /\ Fault
  /\ domain' = "deleting"
  /\ \E some \in SUBSET Purged : store' = store \ some /\ lost' = lost \cup some
  /\ UNCHANGED <<source, preview, op, req, work>>

(* An upload that flushed its rows holds the domain row.                   *)
RemoveDomain ==
  /\ domain = "purged" /\ domain' = "gone"
  /\ \A r \in Requests : req[r].pc \notin {"flushed", "stored"}
  /\ source' = [NoSource EXCEPT !.gen = source.gen]
  /\ preview' = NoPreview
  /\ op' = Cascade
  /\ UNCHANGED <<req, work, store, lost, faults>>

Purge == PurgeFences \/ PurgeErases \/ PurgeCommits

-----------------------------------------------------------------------------
Begin(r) == UploadChecks(r) \/ BeginRetry(r) \/ BeginCancel(r) \/ BeginDelete(r)

RequestStep(r) ==
  \/ UploadFlush(r) \/ UploadStore(r) \/ UploadCommit(r)
  \/ CommitRetry(r) \/ CommitCancel(r) \/ CommitDelete(r)

Claim(w) == ClaimPreparation(w) \/ ClaimPreview(w) \/ ClaimDelete(w)

WorkerStep(w) ==
  \/ Parsed(w) \/ WriteImages(w) \/ Finalize(w) \/ Rendered(w) \/ PublishPreview(w)
  \/ Erase(w) \/ RemoveSource(w) \/ FailWrite(w) \/ FailPreview(w)

WorkerFault(w) ==
  ParserFails(w) \/ WriteFails(w) \/ RenderFails(w) \/ EraseFails(w) \/ CrashWorker(w)

Next ==
  \/ \E r \in Requests : Begin(r) \/ RequestStep(r) \/ CrashRequest(r) \/ LeaseExpires(r)
  \/ \E w \in Workers : Claim(w) \/ WorkerStep(w) \/ WorkerFault(w)
  \/ PreviewLeaseExpires \/ DomainDeletionBegins \/ Purge \/ PurgeFails \/ RemoveDomain

Spec == Init /\ [][Next]_vars

(* Workers poll in a fixed order, but a claim leaves its work unclaimable   *)
(* for a lease, so each kind of work is reached again; a step under way     *)
(* ends, a purge that holds the rows included, and time passes.             *)
FairSpec ==
  /\ Spec
  /\ \A r \in Requests : WF_vars(LeaseExpires(r)) /\ WF_vars(RequestStep(r))
  /\ WF_vars(PreviewLeaseExpires) /\ WF_vars(PurgeCommits)
  /\ \A w \in Workers :
       /\ WF_vars(WorkerStep(w))
       /\ SF_vars(ClaimPreparation(w)) /\ SF_vars(ClaimPreview(w)) /\ SF_vars(ClaimDelete(w))

-----------------------------------------------------------------------------
TypeOK ==
  /\ domain \in {"live", "deleting", "fenced", "erasing", "erased", "purged", "gone"}
  /\ source \in Sources /\ preview \in Previews
  /\ op \in [Requests -> Operations]
  /\ req \in [Requests -> Handlers]
  /\ work \in [Workers -> Jobs]
  /\ store \subseteq Keys /\ lost \subseteq Keys /\ faults \in Nat

(* Until it is being deleted, every object a source refers to is in the    *)
(* store, but those that a deletion of its domain has erased: no worker's  *)
(* clean-up takes what another one published.                              *)
ReferencedObjectsExist ==
  source.state \in {"pending", "prepared"} => source.keys \subseteq store \cup lost

(* A source being deleted is never pending or prepared again, whatever     *)
(* preparation, retry or preview was under way.                            *)
DeletingIsFinal ==
  [][source.state = "deleting" => source'.state \in {"deleting", "gone"}]_vars

(* The worker that had claimed a cancelled operation does not make it      *)
(* succeed, and nothing makes it active again; it may still record its own *)
(* failure over the cancellation, since it looks before it writes.         *)
CancelledNeverSucceeds ==
  [][\A r \in Requests :
       op[r].status = "cancelled" =>
         op'[r].status \in {"cancelled", "failed", "removed"}]_vars

(* A cancelled operation keeps that outcome (not kept: see the README).    *)
CancelledStaysCancelled ==
  [][\A r \in Requests :
       op[r].status = "cancelled" => op'[r].status \in {"cancelled", "removed"}]_vars

(* Without a crash or a failure, removing a source leaves no object of it  *)
(* behind, though images and previews are written before they are owned.   *)
OrphansNeedFaults ==
  faults = 0 /\ domain = "live" /\ source.state = "gone"
    /\ (\A w \in Workers : work[w].pc = "idle")
    /\ (\A r \in Requests : req[r].pc \in {"idle", "loaded", "done"}) => store = {}

(* The operation rows of a source keep the ledger's promise.               *)
Ledger == INSTANCE OperationLedger
            WITH Operations <- Requests,
                 open <- {r \in Requests : IsActive(r)},
                 closed <- {r \in Requests : op[r].status \in Ended}
ImplementsLedger == Ledger!Spec

(* A preparation that fits its source ends, unless something supersedes it. *)
PreparationSettles ==
  \A r \in Requests :
    op[r].type = "prepare" /\ IsActive(r) ~>
      ~IsActive(r) \/ source.state # "pending" \/ source.gen # op[r].gen

(* A prepared source gets its preview, or an error, or is deleted.         *)
PreviewSettles ==
  source.state = "prepared" ~> preview.state \in {"ready", "failed"} \/ source.state # "prepared"

(* A deletion that is queued ends: the source is removed, or it failed or  *)
(* is cancelled, for an administrator to see.                              *)
DeletionSettles ==
  \A r \in Requests : op[r].type = "delete" /\ IsActive(r) ~> ~IsActive(r)

(* Every preparation that is queued ends (not kept: see the README).       *)
EveryPreparationSettles ==
  \A r \in Requests : op[r].type = "prepare" /\ IsActive(r) ~> ~IsActive(r)

(* A ready preview is the preview of the present generation (not kept).    *)
ReadyPreviewIsServed ==
  [](source.state = "prepared" /\ preview.state = "ready" => preview.gen = source.gen)

(* Removing a domain leaves no object of its sources behind (not kept).    *)
DomainRemovalLeavesNothing == faults = 0 /\ domain = "gone"
    /\ (\A w \in Workers : work[w].pc = "idle") => store = {}
=============================================================================
