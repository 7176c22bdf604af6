----------------------- MODULE SourcePreparationProofs -----------------------
(***************************************************************************)
(* Proofs about SourcePreparation for any number of requests, workers and  *)
(* faults: the objects a source refers to are there, a deletion is final,  *)
(* and the operation rows keep the ledger's promise.                       *)
(***************************************************************************)
EXTENDS SourcePreparation, TLAPS

Typed ==
  /\ source \in Sources /\ preview \in Previews
  /\ op \in [Requests -> Operations]
  /\ req \in [Requests -> Handlers]
  /\ work \in [Workers -> Jobs]

InUpload(r) == req[r].pc \in {"flushed", "stored"}

(* Before the first upload commits there is nothing to work on.            *)
Unborn ==
  source.gen = 0 =>
    /\ source.state = "gone" /\ source.keys = {}
    /\ \A r \in Requests : op[r].status = "none"
    /\ \A w \in Workers : work[w].pc = "idle"

(* One upload at a time is past the unique index, and its object is there. *)
Uploading ==
  \A r \in Requests : InUpload(r) =>
    /\ source.gen = 0
    /\ \A q \in Requests \ {r} : ~InUpload(q)
    /\ req[r].pc = "stored" => [kind |-> "original", by |-> r, at |-> 0] \in store

(* A request has no operation before it ends, and cancels one it found.    *)
Unissued ==
  \A r \in Requests :
    /\ req[r].pc # "done" => op[r].status = "none"
    /\ req[r].pc = "loaded" /\ req[r].kind = "cancel" => req[r].found \in Requests

(* Once a deletion has been asked for, the source is deleting or gone.     *)
Dying == source.state \in {"deleting", "gone"}
Deletions ==
  /\ \A r \in Requests : op[r].type = "delete" => source.gen > 0 /\ Dying
  /\ \A w \in Workers : work[w].pc \in {"erase", "remove"} => Dying

OneOpen ==
  /\ \A r, q \in Requests : IsActive(r) /\ IsActive(q) => r = q
  /\ \A r \in Requests : IsActive(r) => source.state # "gone"

(* A job names its operation.  Images and previews are named after their   *)
(* worker, which has published none of the kind it is working on: images   *)
(* come with the one step from pending to prepared, a preview with the one *)
(* step to ready, over which a late failure may still be written.          *)
Own(w, kind, keys) == \A k \in keys : k.kind = kind /\ k.by = w
Without(w, kind, keys) == \A k \in keys : ~(k.kind = kind /\ k.by = w)
JobKnows(w) ==
  /\ work[w].pc \in {"parse", "write", "finalize", "erase", "remove", "fail"} =>
       work[w].op \in Requests
  /\ work[w].pc = "finalize" => work[w].fits /\ Own(w, "images", work[w].keys)
  /\ work[w].pc \in {"parse", "write", "finalize"} /\ work[w].fits =>
       Without(w, "images", source.keys)
  /\ work[w].pc = "render" => work[w].keys = {}
  /\ work[w].pc \in {"publish", "failpreview"} => Own(w, "preview", work[w].keys)
  /\ work[w].pc \in {"render", "publish", "failpreview"} => Without(w, "preview", source.keys)
SourceObjects ==
  /\ source.state = "pending" => \A k \in source.keys : k.kind = "original"
  /\ \A k \in source.keys : k.kind = "preview" => preview.state \in {"ready", "failed"}
  /\ preview.lease \in Workers => preview.state = "running"
Objects == SourceObjects /\ \A w \in Workers : JobKnows(w)

(* What a living source refers to, or is about to, is in the store, unless *)
(* the deletion of its domain has erased it.                               *)
Present == store \cup lost
Held ==
  ~Dying =>
    /\ source.keys \subseteq Present
    /\ \A w \in Workers : work[w].pc \in {"finalize", "publish"} => work[w].keys \subseteq Present

Inv == Typed /\ Unborn /\ Uploading /\ Unissued /\ Deletions /\ OneOpen /\ Objects /\ Held

-----------------------------------------------------------------------------
(* Steps of operations: none is opened, an ended one stays ended, and a    *)
(* cancelled one may be recorded as failed, but not as succeeded.          *)

OpKeeps(r) ==
  /\ op'[r].type = op[r].type
  /\ IsActive(r)' => IsActive(r)
  /\ op'[r].status = "none" <=> op[r].status = "none"
  /\ op[r].status = "cancelled" => op'[r].status \in {"cancelled", "failed", "removed"}
OpsKeep == op' \in [Requests -> Operations] /\ \A r \in Requests : OpKeeps(r)

LEMMA UnchangedOps ==
  ASSUME Typed, UNCHANGED op
  PROVE  OpsKeep
BY DEF Typed, OpsKeep, OpKeeps, IsActive

(* A row changes its status or its lease.                                  *)
LEMMA OneOp ==
  ASSUME Typed, NEW r \in Requests,
         NEW status \in Active \cup Ended, NEW lease \in Leases,
         op[r].status # "none",
         status \in Active => IsActive(r),
         op[r].status = "cancelled" => status \in {"cancelled", "failed", "removed"},
         op' = [op EXCEPT ![r].status = status, ![r].lease = lease]
  PROVE  OpsKeep
<1> DEFINE h == [op[r] EXCEPT !.status = status, !.lease = lease]
<1>1. op[r] \in Operations
  BY DEF Typed
<1>2. h \in Operations /\ h.type = op[r].type /\ h.status = status
  BY <1>1 DEF Operations
<1>3. op' = [op EXCEPT ![r] = h]
  BY DEF Typed
<1> HIDE DEF h
<1>4. op' \in [Requests -> Operations] /\ op'[r] = h
      /\ \A q \in Requests \ {r} : op'[q] = op[q]
  BY <1>2, <1>3 DEF Typed
<1>5. OpKeeps(r)
  BY <1>2, <1>4 DEF OpKeeps, IsActive, Active, Ended
<1>6. ASSUME NEW q \in Requests \ {r} PROVE OpKeeps(q)
  BY <1>4 DEF OpKeeps, IsActive
<1>7. QED
  BY <1>4, <1>5, <1>6 DEF OpsKeep

LEMMA LeaseMoves ==
  ASSUME Typed, NEW r \in Requests, NEW lease \in Leases, IsActive(r),
         op' = [op EXCEPT ![r].lease = lease]
  PROVE  OpsKeep
<1> DEFINE h == [op[r] EXCEPT !.lease = lease]
<1>1. h \in Operations /\ h.type = op[r].type /\ h.status = op[r].status
  BY DEF Typed, Operations
<1>2. op' = [op EXCEPT ![r] = h]
  BY DEF Typed
<1> HIDE DEF h
<1>3. op' \in [Requests -> Operations] /\ op'[r] = h
      /\ \A q \in Requests \ {r} : op'[q] = op[q]
  BY <1>1, <1>2 DEF Typed
<1>4. QED
  BY <1>1, <1>3 DEF OpsKeep, OpKeeps, IsActive, Active

LEMMA EndKeeps ==
  ASSUME Typed, NEW r \in Requests, NEW status \in {"succeeded", "failed", "cancelled"},
         status = "succeeded" => IsActive(r), End(r, status)
  PROVE  OpsKeep
<1>1. CASE Stored(r)
  <2>1. "none" \in Leases /\ status \in Active \cup Ended
    BY DEF Leases, Ended
  <2>2. op' = [op EXCEPT ![r].status = status, ![r].lease = "none"]
    BY <1>1 DEF End
  <2>3. /\ op[r].status # "none" /\ status \notin Active
        /\ op[r].status = "cancelled" => status \in {"cancelled", "failed"}
    BY <1>1 DEF Stored, IsActive, Active
  <2>4. QED
    BY <2>1, <2>2, <2>3, OneOp
<1>2. CASE ~Stored(r)
  BY <1>2, UnchangedOps DEF End
<1>3. QED
  BY <1>1, <1>2

LEMMA CascadeKeeps ==
  ASSUME Typed, op' = Cascade
  PROVE  OpsKeep /\ \A r \in Requests : ~IsActive(r)'
<1>1. ASSUME NEW r \in Requests
      PROVE  op'[r] \in Operations /\ OpKeeps(r) /\ ~IsActive(r)'
  <2>1. op[r] \in Operations
    BY DEF Typed
  <2>2. CASE Stored(r)
    <3>1. op'[r] = [op[r] EXCEPT !.status = "removed"]
      BY <2>2 DEF Cascade
    <3>2. op'[r] \in Operations /\ op'[r].type = op[r].type /\ op'[r].status = "removed"
      BY <2>1, <3>1 DEF Operations, Ended
    <3>3. QED
      BY <2>2, <3>2 DEF OpKeeps, IsActive, Active, Stored
  <2>3. CASE ~Stored(r)
    <3>1. op'[r] = op[r] /\ op[r].status \in {"none", "removed"}
      BY <2>3 DEF Cascade, Stored
    <3>2. QED
      BY <2>1, <3>1 DEF OpKeeps, IsActive, Active
  <2>4. QED
    BY <2>2, <2>3
<1>2. op' = [r \in Requests |-> op'[r]]
  BY DEF Cascade
<1>3. QED
  BY <1>1, <1>2 DEF OpsKeep

-----------------------------------------------------------------------------
(* Steps of one worker.                                                    *)

(* The job of w becomes j, and no other changes.                           *)
Becomes(w, j) ==
  /\ work' \in [Workers -> Jobs]
  /\ work'[w] = j
  /\ \A v \in Workers \ {w} : work'[v] = work[v]

LEMMA JobBecomes ==
  ASSUME Typed, NEW w \in Workers, NEW j \in Jobs, work' = [work EXCEPT ![w] = j]
  PROVE  Becomes(w, j)
BY DEF Typed, Becomes

LEMMA Idle == NoJob \in Jobs /\ NoJob.pc = "idle" /\ NoJob.keys = {}
BY DEF NoJob, Jobs, NoKeys, Keys

LEMMA JobMoves ==
  ASSUME Inv, NEW w \in Workers, NEW j \in Jobs, Becomes(w, j), OpsKeep,
         UNCHANGED <<source, req>>, source.gen > 0, preview' \in Previews,
         j.pc \in {"erase", "remove"} => Dying,
         SourceObjects', JobKnows(w)', Held'
  PROVE  Inv'
<1>1. Typed'
  BY DEF Inv, Typed, Becomes, OpsKeep
<1>2. Unborn' /\ Uploading' /\ Unissued' /\ OneOpen'
  BY DEF Inv, Unborn, Uploading, InUpload, Unissued, OneOpen, OpsKeep, OpKeeps, Dying
<1>3. Deletions'
  BY DEF Inv, Deletions, Dying, OpsKeep, OpKeeps, Becomes
<1>4. ASSUME NEW v \in Workers PROVE JobKnows(v)'
  <2>1. CASE v # w
    BY <2>1 DEF Inv, Objects, JobKnows, Becomes, Own, Without
  <2>2. QED
    BY <2>1
<1>5. QED
  BY <1>1, <1>2, <1>3, <1>4 DEF Inv, Objects

-----------------------------------------------------------------------------
(* Requests.                                                               *)

(* A step that touches nobody's rows or objects, only the request.         *)
LEMMA RequestMoves ==
  ASSUME Inv, NEW r \in Requests, NEW h \in Handlers, req' = [req EXCEPT ![r] = h],
         UNCHANGED <<source, preview, op, work, store, lost>>,
         req[r].pc # "done", h.pc = "loaded" /\ h.kind = "cancel" => h.found \in Requests,
         h.pc \in {"flushed", "stored"} =>
           /\ source.gen = 0 /\ \A q \in Requests \ {r} : ~InUpload(q)
           /\ h.pc = "stored" => [kind |-> "original", by |-> r, at |-> 0] \in store
  PROVE  Inv'
<1>1. req' \in [Requests -> Handlers] /\ req'[r] = h
      /\ \A q \in Requests \ {r} : req'[q] = req[q]
  BY DEF Inv, Typed
<1>2. Typed' /\ Unborn' /\ Deletions' /\ OneOpen' /\ Objects' /\ Held'
  BY <1>1
  DEF Inv, Typed, Unborn, Deletions, Dying, OneOpen, IsActive, Objects, SourceObjects,
      JobKnows, Own, Without, Held, Present
<1>3. Unissued'
  BY <1>1 DEF Inv, Unissued
<1>4. Uploading'
  <2>1. ASSUME NEW q \in Requests, InUpload(q)'
        PROVE  /\ source'.gen = 0
               /\ \A s \in Requests \ {q} : ~InUpload(s)'
               /\ req'[q].pc = "stored" => [kind |-> "original", by |-> q, at |-> 0] \in store'
    <3>1. CASE q = r
      BY <1>1, <2>1, <3>1 DEF InUpload
    <3>2. CASE q # r
      <4>1. InUpload(q)
        BY <1>1, <2>1, <3>2 DEF InUpload
      <4>2. h.pc \notin {"flushed", "stored"}
        BY <3>2, <4>1
      <4>3. QED
        BY <1>1, <3>2, <4>1, <4>2 DEF Inv, Uploading, InUpload
    <3>3. QED
      BY <3>1, <3>2
  <2>2. QED
    BY <2>1 DEF Uploading
<1>5. QED
  BY <1>2, <1>3, <1>4 DEF Inv

LEMMA NoHandlerTyped == NoHandler \in Handlers /\ [NoHandler EXCEPT !.pc = "loaded"] \in Handlers
BY DEF NoHandler, Handlers

LEMMA GotoMoves ==
  ASSUME Typed, NEW r \in Requests, NEW stage \in {"flushed", "stored", "done"}, Goto(r, stage)
  PROVE  \E h \in Handlers : req' = [req EXCEPT ![r] = h] /\ h.pc = stage
<1> DEFINE h == [req[r] EXCEPT !.pc = stage]
<1>1. h \in Handlers /\ h.pc = stage
  BY DEF Typed, Handlers
<1>2. req' = [req EXCEPT ![r] = h]
  BY DEF Typed, Goto
<1> HIDE DEF h
<1>3. QED
  BY <1>1, <1>2

LEMMA BeginKeeps ==
  ASSUME Inv, NEW r \in Requests, Begin(r)
  PROVE  Inv'
<1>1. Typed /\ UNCHANGED <<source, preview, op, work, store, lost>> /\ req[r].pc = "idle"
  BY DEF Inv, Begin, UploadChecks, BeginRetry, BeginCancel, BeginDelete, Load
<1>2. PICK h \in Handlers :
        /\ req' = [req EXCEPT ![r] = h] /\ h.pc = "loaded"
        /\ h.kind = "cancel" => h.found \in Requests
  <2>1. CASE UploadChecks(r)
    <3>1. /\ [NoHandler EXCEPT !.pc = "loaded"].pc = "loaded"
          /\ [NoHandler EXCEPT !.pc = "loaded"].kind = "upload"
      BY DEF NoHandler
    <3>2. QED
      BY <2>1, <3>1, NoHandlerTyped DEF UploadChecks
  <2>2. ASSUME NEW kind \in {"retry", "cancel", "delete"}, NEW found \in Requests \cup {NoRequest},
               Load(r, kind, found), kind = "cancel" => found \in Requests
        PROVE  \E h \in Handlers :
                 /\ req' = [req EXCEPT ![r] = h] /\ h.pc = "loaded"
                 /\ h.kind = "cancel" => h.found \in Requests
    <3> DEFINE h == [pc |-> "loaded", kind |-> kind, gen |-> source.gen, found |-> found]
    <3>1. h \in Handlers /\ h.pc = "loaded" /\ h.kind = kind /\ h.found = found
      BY <1>1 DEF Typed, Sources, Handlers
    <3>2. req' = [req EXCEPT ![r] = h]
      BY <2>2 DEF Load
    <3> HIDE DEF h
    <3>3. QED
      BY <2>2, <3>1, <3>2
  <2>3. QED
    BY <2>1, <2>2 DEF Begin, BeginRetry, BeginCancel, BeginDelete
<1>3. QED
  BY <1>1, <1>2, RequestMoves

LEMMA UploadFlushKeeps ==
  ASSUME Inv, NEW r \in Requests, UploadFlush(r)
  PROVE  Inv'
<1>1. /\ Typed /\ UNCHANGED <<source, preview, op, work, store, lost>> /\ req[r].pc = "loaded"
      /\ source.gen \in Nat
  BY DEF Inv, Typed, Sources, UploadFlush
<1>2. CASE Goto(r, "flushed") /\ ~(source.gen > 0)
  <2>1. PICK h \in Handlers : req' = [req EXCEPT ![r] = h] /\ h.pc = "flushed"
    BY <1>1, <1>2, GotoMoves
  <2>2. source.gen = 0
    BY <1>1, <1>2
  <2>3. \A q \in Requests : ~InUpload(q)
    BY DEF UploadFlush, InUpload
  <2>4. QED
    BY <1>1, <2>1, <2>2, <2>3, RequestMoves
<1>3. CASE Goto(r, "done")
  <2>1. PICK h \in Handlers : req' = [req EXCEPT ![r] = h] /\ h.pc = "done"
    BY <1>1, <1>3, GotoMoves
  <2>2. QED
    BY <1>1, <2>1, RequestMoves
<1>4. QED
  BY <1>2, <1>3 DEF UploadFlush

LEMMA CrashRequestKeeps ==
  ASSUME Inv, NEW r \in Requests, CrashRequest(r)
  PROVE  Inv'
<1>1. Typed /\ UNCHANGED <<source, preview, op, work, store, lost>> /\ req[r].pc # "done"
  BY DEF Inv, CrashRequest
<1>2. PICK h \in Handlers : req' = [req EXCEPT ![r] = h] /\ h.pc = "done"
  BY <1>1, GotoMoves DEF CrashRequest
<1>3. QED
  BY <1>1, <1>2, RequestMoves

LEMMA UploadStoreKeeps ==
  ASSUME Inv, NEW r \in Requests, UploadStore(r)
  PROVE  Inv'
<1>1. /\ Typed /\ UNCHANGED <<source, preview, op, work, lost>> /\ req[r].pc = "flushed"
      /\ InUpload(r)
  BY DEF Inv, UploadStore, InUpload
<1>2. CASE Goto(r, "done") /\ UNCHANGED store
  <2>1. PICK h \in Handlers : req' = [req EXCEPT ![r] = h] /\ h.pc = "done"
    BY <1>1, <1>2, GotoMoves
  <2>2. QED
    BY <1>1, <1>2, <2>1, RequestMoves
<1>3. CASE Goto(r, "stored") /\ store' = store \cup {Key("original", r)}
  <2>1. PICK h \in Handlers : req' = [req EXCEPT ![r] = h] /\ h.pc = "stored"
    BY <1>1, <1>3, GotoMoves
  <2>2. req' \in [Requests -> Handlers] /\ req'[r] = h
        /\ \A q \in Requests \ {r} : req'[q] = req[q]
    BY <1>1, <2>1 DEF Typed
  <2>3. source.gen = 0 /\ \A q \in Requests \ {r} : ~InUpload(q)
    BY <1>1 DEF Inv, Uploading
  <2>4. Uploading'
    BY <1>1, <1>3, <2>1, <2>2, <2>3 DEF Uploading, InUpload, Key
  <2>5. Unissued'
    BY <1>1, <2>1, <2>2 DEF Inv, Unissued
  <2>6. Held'
    BY <1>1, <1>3 DEF Inv, Held, Present, Dying
  <2>7. Typed' /\ Unborn' /\ Deletions' /\ OneOpen' /\ Objects'
    BY <1>1, <2>2
    DEF Inv, Typed, Unborn, Deletions, Dying, OneOpen, IsActive, Objects, SourceObjects,
        JobKnows, Own, Without
  <2>8. QED
    BY <2>4, <2>5, <2>6, <2>7 DEF Inv
<1>4. QED
  BY <1>2, <1>3 DEF UploadStore

(* The first upload: nothing was there, and its object is in the store.    *)
LEMMA UploadCommitKeeps ==
  ASSUME Inv, NEW r \in Requests, UploadCommit(r)
  PROVE  Inv'
<1>1. /\ Typed /\ UNCHANGED <<work, store, lost>> /\ InUpload(r) /\ req[r].pc = "stored"
      /\ source' = [state |-> "pending", gen |-> 1, keys |-> {Key("original", r)}]
      /\ preview' = NoPreview
      /\ op' = [op EXCEPT ![r] = Inserted(r, "prepare", 1)]
  BY DEF Inv, UploadCommit, InUpload
<1>2. /\ source.gen = 0 /\ \A q \in Requests \ {r} : ~InUpload(q)
      /\ Key("original", r) \in store /\ Key("original", r) \in Keys
      /\ Key("original", r).kind = "original"
  <2>1. source.gen = 0 /\ \A q \in Requests \ {r} : ~InUpload(q)
    BY <1>1 DEF Inv, Uploading
  <2>2. Key("original", r) \in store
    BY <1>1, <2>1 DEF Inv, Uploading, Key
  <2>3. Key("original", r) \in Keys /\ Key("original", r).kind = "original"
    BY <2>1 DEF Key, Keys
  <2>4. QED
    BY <2>1, <2>2, <2>3
<1>3. /\ \A q \in Requests : op[q].status = "none"
      /\ \A w \in Workers : work[w].pc = "idle"
  BY <1>2 DEF Inv, Unborn
<1>4. PICK h \in Handlers : req' = [req EXCEPT ![r] = h] /\ h.pc = "done"
  BY <1>1, GotoMoves DEF UploadCommit
<1>5. req' \in [Requests -> Handlers] /\ req'[r] = h
      /\ \A q \in Requests \ {r} : req'[q] = req[q]
  BY <1>1, <1>4 DEF Typed
<1> DEFINE row == Inserted(r, "prepare", 1)
<1>6. row \in Operations /\ row.type = "prepare" /\ row.status = "queued"
  BY DEF Inserted, Operations, Types, Active, Leases
<1> HIDE DEF row
<1>7. op' \in [Requests -> Operations] /\ op'[r] = row
      /\ \A q \in Requests \ {r} : op'[q] = op[q]
  BY <1>1, <1>6 DEF Typed, row
<1>8. source' \in Sources /\ source'.state = "pending" /\ source'.gen = 1
      /\ source'.keys = {Key("original", r)}
  BY <1>1, <1>2 DEF Sources
<1>9. Typed' /\ Unborn'
  BY <1>1, <1>5, <1>7, <1>8 DEF Typed, Unborn, NoPreview, Previews, Leases
<1>10. Uploading' /\ Unissued'
  BY <1>2, <1>4, <1>5, <1>7 DEF Inv, Uploading, InUpload, Unissued
<1>11. Deletions'
  <2>1. ASSUME NEW q \in Requests PROVE op'[q].type # "delete"
    <3>1. op[q].type # "delete"
      BY <1>2 DEF Inv, Deletions
    <3>2. QED
      BY <1>6, <1>7, <3>1
  <2>2. ASSUME NEW w \in Workers PROVE work'[w].pc = "idle"
    BY <1>1, <1>3
  <2>3. QED
    BY <2>1, <2>2 DEF Deletions
<1>12. OneOpen'
  BY <1>3, <1>7, <1>8 DEF OneOpen, IsActive, Active
<1>13. Objects'
  BY <1>1, <1>2, <1>3, <1>8, PreparationConstants
  DEF Objects, SourceObjects, JobKnows, NoPreview
<1>14. Held'
  BY <1>1, <1>2, <1>3, <1>8 DEF Held, Present
<1>15. QED
  BY <1>9, <1>10, <1>11, <1>12, <1>13, <1>14 DEF Inv

(* A retry, a cancellation or a deletion writes the state and the          *)
(* generation of a source that is there.                                   *)
LEMMA SourceMoves ==
  ASSUME Inv, NEW r \in Requests, UNCHANGED <<preview, work, store, lost>>,
         req[r].pc = "loaded", Goto(r, "done"),
         source.state # "gone", source' \in Sources, source'.keys = source.keys,
         source'.gen > 0, source'.state \in {source.state, "deleting"},
         op' \in [Requests -> Operations],
         \A q \in Requests \ {r} : op[q].status = "none" => op'[q].status = "none",
         \A q \in Requests : op'[q].type = "delete" => Dying',
         OneOpen'
  PROVE  Inv'
<1>1. Typed /\ source.gen # 0
  BY DEF Inv, Unborn
<1>2. PICK h \in Handlers : req' = [req EXCEPT ![r] = h] /\ h.pc = "done"
  BY <1>1, GotoMoves
<1>3. req' \in [Requests -> Handlers] /\ req'[r] = h
      /\ \A q \in Requests \ {r} : req'[q] = req[q]
  BY <1>1, <1>2 DEF Typed
<1>4. Typed' /\ Unborn'
  BY <1>1, <1>3 DEF Typed, Unborn, Sources
<1>5. Uploading' /\ Unissued'
  BY <1>1, <1>2, <1>3 DEF Inv, Uploading, InUpload, Unissued
<1>6. Dying => Dying'
  BY DEF Dying
<1>7. Deletions'
  BY <1>6 DEF Inv, Deletions
<1>8. Objects'
  BY DEF Inv, Objects, SourceObjects, JobKnows
<1>9. Held'
  BY <1>6 DEF Inv, Held, Present
<1>10. QED
  BY <1>4, <1>5, <1>7, <1>8, <1>9 DEF Inv

LEMMA CommitRetryKeeps ==
  ASSUME Inv, NEW r \in Requests, CommitRetry(r)
  PROVE  Inv'
<1>1. Typed /\ req[r].pc = "loaded" /\ Goto(r, "done") /\ UNCHANGED <<preview, work, store, lost>>
  BY DEF Inv, CommitRetry
<1>2. CASE UNCHANGED <<source, op>>
  <2>1. PICK h \in Handlers : req' = [req EXCEPT ![r] = h] /\ h.pc = "done"
    BY <1>1, GotoMoves
  <2>2. QED
    BY <1>1, <1>2, <2>1, RequestMoves
<1>3. CASE /\ source.state # "gone" /\ Admits(NoRequest)
           /\ source' = [source EXCEPT !.gen = req[r].gen + 1]
           /\ op' = [op EXCEPT ![r] = Inserted(r, "prepare", req[r].gen + 1)]
  <2> DEFINE gen == req[r].gen + 1
             row == Inserted(r, "prepare", gen)
  <2>1. req[r].gen \in Nat
    BY <1>1 DEF Typed, Handlers
  <2>2. gen \in Nat /\ gen > 0
    BY <2>1
  <2> HIDE DEF gen
  <2>3. row \in Operations /\ row.type = "prepare" /\ row.status = "queued"
    BY <2>2 DEF Inserted, Operations, Types, Active, Leases
  <2>4. op' = [op EXCEPT ![r] = row] /\ source' = [source EXCEPT !.gen = gen]
    BY <1>3 DEF gen
  <2> HIDE DEF row
  <2>5. op' \in [Requests -> Operations] /\ op'[r] = row
        /\ \A q \in Requests \ {r} : op'[q] = op[q]
    BY <1>1, <2>3, <2>4 DEF Typed
  <2>6. source' \in Sources /\ source'.keys = source.keys /\ source'.gen = gen
        /\ source'.state = source.state
    BY <1>1, <2>2, <2>4 DEF Typed, Sources
  <2>7. \A q \in Requests : ~IsActive(q)
    BY <1>3, PreparationConstants DEF Admits
  <2>8. OneOpen'
    BY <1>3, <2>5, <2>6, <2>7 DEF OneOpen, IsActive
  <2>9. \A q \in Requests : op'[q].type = "delete" => Dying'
    BY <2>3, <2>5, <2>6 DEF Inv, Deletions, Dying
  <2>10. QED
    BY <1>1, <1>3, <2>2, <2>5, <2>6, <2>8, <2>9, SourceMoves
<1>4. QED
  BY <1>2, <1>3 DEF CommitRetry

LEMMA CommitCancelKeeps ==
  ASSUME Inv, NEW r \in Requests, CommitCancel(r)
  PROVE  Inv'
<1>1. Typed /\ req[r].pc = "loaded" /\ Goto(r, "done") /\ UNCHANGED <<preview, work, store, lost>>
  BY DEF Inv, CommitCancel
<1>2. CASE UNCHANGED <<source, op>>
  <2>1. PICK h \in Handlers : req' = [req EXCEPT ![r] = h] /\ h.pc = "done"
    BY <1>1, GotoMoves
  <2>2. QED
    BY <1>1, <1>2, <2>1, RequestMoves
<1>3. CASE /\ source.state # "gone" /\ source' = [source EXCEPT !.gen = req[r].gen + 1]
           /\ End(req[r].found, "cancelled")
  <2> DEFINE gen == req[r].gen + 1
  <2>1. req[r].gen \in Nat
    BY <1>1 DEF Typed, Handlers
  <2>2. gen \in Nat /\ gen > 0
    BY <2>1
  <2>3. source' = [source EXCEPT !.gen = gen]
    BY <1>3
  <2> HIDE DEF gen
  <2>4. OpsKeep
    <3>1. req[r].found \in Requests
      BY <1>1 DEF Inv, Unissued, CommitCancel
    <3>2. QED
      BY <1>1, <1>3, <3>1, EndKeeps
  <2>5. source' \in Sources /\ source'.keys = source.keys /\ source'.gen = gen
        /\ source'.state = source.state
    BY <1>1, <2>2, <2>3 DEF Typed, Sources
  <2>6. OneOpen' /\ (\A q \in Requests : op'[q].type = "delete" => Dying')
    BY <2>4, <2>5 DEF Inv, OneOpen, Deletions, Dying, OpsKeep, OpKeeps
  <2>7. QED
    BY <1>1, <1>3, <2>2, <2>4, <2>5, <2>6, SourceMoves DEF OpsKeep, OpKeeps
<1>4. QED
  BY <1>2, <1>3 DEF CommitCancel

LEMMA CommitDeleteKeeps ==
  ASSUME Inv, NEW r \in Requests, CommitDelete(r)
  PROVE  Inv'
<1>1. Typed /\ req[r].pc = "loaded" /\ Goto(r, "done") /\ UNCHANGED <<preview, work, store, lost>>
  BY DEF Inv, CommitDelete
<1>2. CASE UNCHANGED <<source, op>>
  <2>1. PICK h \in Handlers : req' = [req EXCEPT ![r] = h] /\ h.pc = "done"
    BY <1>1, GotoMoves
  <2>2. QED
    BY <1>1, <1>2, <2>1, RequestMoves
<1>3. CASE /\ source.state # "gone"
           /\ source' = [source EXCEPT !.state = "deleting", !.gen = req[r].gen + 1]
           /\ op' = [s \in Requests |->
                      IF s = r THEN Inserted(r, "delete", req[r].gen + 1)
                      ELSE IF IsActive(s)
                           THEN [op[s] EXCEPT !.status = "cancelled", !.lease = "none"]
                           ELSE op[s]]
  <2> DEFINE gen == req[r].gen + 1
  <2>1. req[r].gen \in Nat
    BY <1>1 DEF Typed, Handlers
  <2>2. gen \in Nat /\ gen > 0
    BY <2>1
  <2>3. source' = [source EXCEPT !.state = "deleting", !.gen = gen]
    BY <1>3
  <2>4. op'[r] = Inserted(r, "delete", gen)
    BY <1>3
  <2> HIDE DEF gen
  <2>5. op'[r] \in Operations
    BY <2>2, <2>4 DEF Inserted, Operations, Types, Active, Leases
  <2>6. ASSUME NEW q \in Requests \ {r}
        PROVE  /\ op'[q] \in Operations /\ ~IsActive(q)'
               /\ op[q].status = "none" => op'[q].status = "none"
    <3>1. op[q] \in Operations
      BY <1>1 DEF Typed
    <3>2. CASE IsActive(q)
      <4>1. op'[q] = [op[q] EXCEPT !.status = "cancelled", !.lease = "none"]
        BY <1>3, <3>2
      <4>2. op'[q] \in Operations /\ op'[q].status = "cancelled"
        BY <3>1, <4>1 DEF Operations, Ended, Leases
      <4>3. QED
        BY <3>2, <4>2 DEF IsActive, Active
    <3>3. CASE ~IsActive(q)
      <4>1. op'[q] = op[q]
        BY <1>3, <3>3
      <4>2. QED
        BY <3>1, <3>3, <4>1 DEF IsActive
    <3>4. QED
      BY <3>2, <3>3
  <2>7. op' \in [Requests -> Operations]
    <3>1. op' = [s \in Requests |-> op'[s]]
      BY <1>3
    <3>2. QED
      BY <2>5, <2>6, <3>1
  <2>8. source' \in Sources /\ source'.keys = source.keys /\ source'.gen = gen
        /\ source'.state = "deleting"
    BY <1>1, <2>2, <2>3 DEF Typed, Sources
  <2>9. OneOpen'
    BY <2>6, <2>8 DEF OneOpen
  <2>10. QED
    BY <1>1, <1>3, <2>2, <2>6, <2>7, <2>8, <2>9, SourceMoves DEF Dying
<1>4. QED
  BY <1>2, <1>3 DEF CommitDelete

-----------------------------------------------------------------------------
(* Workers.                                                                *)

LEMMA Working ==
  ASSUME Inv, NEW w \in Workers
  PROVE  /\ Typed /\ JobKnows(w) /\ SourceObjects
         /\ work[w] \in Jobs /\ source \in Sources
         /\ work[w].pc # "idle" => source.gen > 0
         /\ source.state # "gone" => source.gen > 0
<1>1. source.gen \in Nat
  BY DEF Inv, Typed, Sources
<1>2. source.gen = 0 \/ source.gen > 0
  BY <1>1
<1>3. QED
  BY <1>2 DEF Inv, Typed, Unborn, Objects

(* A worker that writes no more for its source, or gives its job up, may   *)
(* still delete what it has written itself.                                *)
LEMMA StopKeeps ==
  ASSUME Inv, NEW w \in Workers, NEW j \in Jobs, Becomes(w, j),
         j.pc \in {"idle", "fail", "failpreview"}, JobKnows(w)', OpsKeep,
         UNCHANGED <<source, req, lost>>, source.gen > 0, preview' \in Previews, SourceObjects',
         store' = store \/ (\E kind : Own(w, kind, store \ store') /\
                             Without(w, kind, source.keys) /\ store' \subseteq store) \/ Dying
  PROVE  Inv'
<1>1. Held'
  <2>1. SUFFICES ASSUME ~Dying
                 PROVE  /\ source.keys \subseteq Present'
                        /\ \A v \in Workers :
                             work'[v].pc \in {"finalize", "publish"} => work'[v].keys \subseteq Present'
    BY DEF Held, Dying
  <2>2. source.keys \subseteq Present
        /\ \A v \in Workers \ {w} :
             work[v].pc \in {"finalize", "publish"} =>
               work[v].keys \subseteq Present /\ \A k \in work[v].keys : k.by = v
    BY <2>1 DEF Inv, Held, Objects, JobKnows, Own
  <2>3. store' = store \/ (store' \subseteq store /\ (\A k \in store \ store' : k.by = w)
                           /\ (\A k \in store \ store' : k \notin source.keys))
    BY <2>1 DEF Own, Without
  <2>4. source.keys \subseteq Present'
    BY <2>2, <2>3 DEF Present
  <2>5. ASSUME NEW v \in Workers, work'[v].pc \in {"finalize", "publish"}
        PROVE  work'[v].keys \subseteq Present'
    <3>1. v # w /\ work'[v] = work[v]
      BY <2>5 DEF Becomes
    <3>2. QED
      BY <2>2, <2>3, <2>5, <3>1 DEF Present
  <2>6. QED
    BY <2>4, <2>5
<1>2. QED
  BY <1>1, JobMoves

LEMMA LeaveKeeps ==
  ASSUME Inv, NEW w \in Workers, Leave(w), OpsKeep, UNCHANGED <<source, req, lost>>,
         source.gen > 0, preview' \in Previews, SourceObjects',
         store' = store \/ (\E kind : Own(w, kind, store \ store') /\
                             Without(w, kind, source.keys) /\ store' \subseteq store) \/ Dying
  PROVE  Inv'
<1>1. NoJob \in Jobs /\ NoJob.pc = "idle"
  BY Idle
<1>2. Becomes(w, NoJob)
  BY <1>1, JobBecomes DEF Inv, Leave
<1>3. JobKnows(w)'
  BY <1>1, <1>2 DEF JobKnows, Becomes
<1>4. QED
  BY <1>1, <1>2, <1>3, StopKeeps

(* A job goes on to its next stage.                                        *)
LEMMA StageMoves ==
  ASSUME Typed, NEW w \in Workers, NEW stage \in {"write", "remove", "fail", "failpreview"},
         work' = [work EXCEPT ![w] = [work[w] EXCEPT !.pc = stage]]
  PROVE  \E j \in Jobs :
           /\ Becomes(w, j) /\ j.pc = stage /\ j.op = work[w].op /\ j.fits = work[w].fits
           /\ j.keys = work[w].keys
<1> DEFINE j == [work[w] EXCEPT !.pc = stage]
<1>1. /\ j \in Jobs /\ j.pc = stage /\ j.op = work[w].op /\ j.fits = work[w].fits
      /\ j.keys = work[w].keys
  BY DEF Typed, Jobs
<1>2. work' = [work EXCEPT ![w] = j]
  OBVIOUS
<1> HIDE DEF j
<1>3. QED
  BY <1>1, <1>2, JobBecomes

LEMMA SamePreview ==
  ASSUME Inv, UNCHANGED <<source, preview>>
  PROVE  SourceObjects' /\ preview' \in Previews
BY DEF Inv, Typed, Objects, SourceObjects

LEMMA FailOperationKeeps ==
  ASSUME Inv, NEW w \in Workers, FailOperation(w), work[w].op \in Requests,
         work[w].pc # "idle", UNCHANGED <<source, preview, op, req, lost>>,
         store' = store \/ (\E kind : Own(w, kind, store \ store') /\
                             Without(w, kind, source.keys) /\ store' \subseteq store) \/ Dying
  PROVE  Inv'
<1>1. Typed /\ OpsKeep /\ source.gen > 0
  BY Working, UnchangedOps
<1>2. SourceObjects' /\ preview' \in Previews
  BY SamePreview
<1>3. CASE Leave(w)
  BY <1>1, <1>2, <1>3, LeaveKeeps
<1>4. CASE work' = [work EXCEPT ![w].pc = "fail"]
  <2>1. work' = [work EXCEPT ![w] = [work[w] EXCEPT !.pc = "fail"]]
    BY <1>1, <1>4 DEF Typed
  <2>2. PICK j \in Jobs :
           /\ Becomes(w, j) /\ j.pc = "fail" /\ j.op = work[w].op /\ j.fits = work[w].fits
           /\ j.keys = work[w].keys
    BY <1>1, <2>1, StageMoves
  <2>3. JobKnows(w)'
    BY <2>2 DEF JobKnows, Becomes
  <2>4. QED
    BY <1>1, <1>2, <2>2, <2>3, StopKeeps
<1>5. QED
  BY <1>3, <1>4 DEF FailOperation

LEMMA FailWriteKeeps ==
  ASSUME Inv, NEW w \in Workers, FailWrite(w)
  PROVE  Inv'
<1>1. /\ work[w].pc = "fail" /\ End(work[w].op, "failed") /\ Leave(w)
      /\ UNCHANGED <<source, preview, req, store, lost>>
  BY DEF FailWrite
<1>2. Typed /\ work[w].op \in Requests /\ source.gen > 0
  BY <1>1, Working DEF JobKnows
<1>3. OpsKeep
  BY <1>1, <1>2, EndKeeps
<1>4. QED
  BY <1>1, <1>2, <1>3, SamePreview, LeaveKeeps

LEMMA TakeKeeps ==
  ASSUME Inv, NEW w \in Workers, ClaimPreparation(w) \/ ClaimDelete(w)
  PROVE  Inv'
<1>1. PICK r \in Requests, type \in {"prepare", "delete"}, stage \in {"parse", "erase"} :
        /\ Claimable(r, type) /\ Take(w, r, stage)
        /\ stage = "erase" => type = "delete"
  BY DEF ClaimPreparation, ClaimDelete
<1>2. UNCHANGED <<source, preview, req, store, lost>>
  BY DEF ClaimPreparation, ClaimDelete
<1>3. Typed /\ IsActive(r) /\ op[r] \in Operations /\ op[r].type = type
  BY <1>1 DEF Inv, Typed, Claimable, IsActive, Active
<1>4. source.state # "gone" /\ source.gen > 0
  BY <1>3, Working DEF Inv, OneOpen
<1>5. OpsKeep
  <2>1. "running" \in Active \cup Ended /\ w \in Leases /\ op[r].status \notin {"none", "cancelled"}
    BY <1>3 DEF Active, Leases, IsActive
  <2>2. op' = [op EXCEPT ![r].status = "running", ![r].lease = w]
    BY <1>1 DEF Take
  <2>3. QED
    BY <1>3, <2>1, <2>2, OneOp
<1> DEFINE fits == source.state = "pending" /\ source.gen = op[r].gen
           j == [pc |-> stage, op |-> r, gen |-> op[r].gen, keys |-> source.keys,
                 fits |-> fits]
<1>6. work' = [work EXCEPT ![w] = j]
  BY <1>1 DEF Take
<1>7. fits \in BOOLEAN /\ (fits => source.state = "pending")
  OBVIOUS
<1> HIDE DEF fits
<1>8. /\ j \in Jobs /\ j.pc = stage /\ j.op = r /\ j.keys = source.keys
      /\ j.fits = fits
  BY <1>3, <1>7 DEF Jobs, Typed, Sources, Operations
<1> HIDE DEF j
<1>9. Becomes(w, j)
  BY <1>3, <1>6, <1>8, JobBecomes
<1>10. j.pc \in {"erase", "remove"} => Dying
  BY <1>1, <1>3, <1>8 DEF Inv, Deletions
<1>11. JobKnows(w)'
  BY <1>2, <1>7, <1>8, <1>9 DEF Inv, Objects, SourceObjects, JobKnows, Becomes, Without
<1>12. Held'
  BY <1>2, <1>8, <1>9 DEF Inv, Held, Present, Dying, Becomes
<1>13. QED
  BY <1>2, <1>4, <1>5, <1>8, <1>9, <1>10, <1>11, <1>12, SamePreview, JobMoves

(* A heartbeat: the lease is renewed and the job goes on, or it is left.   *)
LEMMA BeatMoves ==
  ASSUME Inv, NEW w \in Workers, NEW stage \in {"write", "remove"}, Beat(w, work[w], stage),
         work[w].op \in Requests
  PROVE  /\ OpsKeep
         /\ \/ Leave(w)
            \/ work' = [work EXCEPT ![w] = [work[w] EXCEPT !.pc = stage]]
<1>1. CASE LeaseCurrent(work[w].op)
  <2>1. IsActive(work[w].op) /\ w \in Leases
    BY <1>1 DEF LeaseCurrent, IsActive, Active, Leases
  <2>2. op' = [op EXCEPT ![work[w].op].lease = w]
    BY <1>1 DEF Beat
  <2>3. OpsKeep
    BY <2>1, <2>2, LeaseMoves DEF Inv
  <2>4. QED
    BY <1>1, <2>3 DEF Beat
<1>2. CASE ~LeaseCurrent(work[w].op)
  BY <1>2, UnchangedOps DEF Inv, Beat
<1>3. QED
  BY <1>1, <1>2

LEMMA ParsedKeeps ==
  ASSUME Inv, NEW w \in Workers, Parsed(w)
  PROVE  Inv'
<1>1. /\ work[w].pc = "parse" /\ Beat(w, work[w], "write")
      /\ UNCHANGED <<source, preview, req, store, lost>>
  BY DEF Parsed
<1>2. Typed /\ JobKnows(w) /\ work[w].op \in Requests /\ source.gen > 0
  BY <1>1, Working DEF JobKnows
<1>3. /\ OpsKeep
      /\ \/ Leave(w)
         \/ work' = [work EXCEPT ![w] = [work[w] EXCEPT !.pc = "write"]]
  BY <1>1, <1>2, BeatMoves
<1>4. CASE Leave(w)
  BY <1>1, <1>2, <1>3, <1>4, SamePreview, LeaveKeeps
<1>5. CASE work' = [work EXCEPT ![w] = [work[w] EXCEPT !.pc = "write"]]
  <2>1. PICK j \in Jobs :
           /\ Becomes(w, j) /\ j.pc = "write" /\ j.op = work[w].op /\ j.fits = work[w].fits
           /\ j.keys = work[w].keys
    BY <1>2, <1>5, StageMoves
  <2>2. JobKnows(w)'
    BY <1>1, <1>2, <2>1 DEF JobKnows, Becomes, Without
  <2>3. Held'
    BY <1>1, <2>1 DEF Inv, Held, Present, Dying, Becomes
  <2>4. QED
    BY <1>1, <1>2, <1>3, <2>1, <2>2, <2>3, SamePreview, JobMoves
<1>6. QED
  BY <1>3, <1>4, <1>5

LEMMA ParserFailsKeeps ==
  ASSUME Inv, NEW w \in Workers, ParserFails(w)
  PROVE  Inv'
<1>1. /\ work[w].pc = "parse" /\ FailOperation(w)
      /\ UNCHANGED <<source, preview, op, req, store, lost>>
  BY DEF ParserFails
<1>2. work[w].op \in Requests
  BY <1>1, Working DEF JobKnows
<1>3. QED
  BY <1>1, <1>2, FailOperationKeeps

(* The images or the preview that w writes get a key of their own.         *)
LEMMA Writes ==
  ASSUME Inv, NEW w \in Workers, NEW stage \in {"finalize", "publish"},
         NEW kind \in {"images", "preview"},
         work' = [work EXCEPT ![w].pc = stage, ![w].keys = {Key(kind, w)}]
  PROVE  \E j \in Jobs :
           /\ Becomes(w, j) /\ j.pc = stage /\ j.op = work[w].op /\ j.fits = work[w].fits
           /\ j.keys = {Key(kind, w)} /\ Own(w, kind, j.keys)
<1> DEFINE keys == {Key(kind, w)}
           j == [work[w] EXCEPT !.pc = stage, !.keys = keys]
<1>1. Key(kind, w) \in Keys /\ Key(kind, w).kind = kind /\ Key(kind, w).by = w
  BY DEF Inv, Typed, Sources, Key, Keys
<1>2. keys \in SUBSET Keys /\ Own(w, kind, keys)
  BY <1>1 DEF Own
<1>3. work' = [work EXCEPT ![w] = j]
  BY DEF Inv, Typed
<1> HIDE DEF keys
<1>4. /\ j \in Jobs /\ j.pc = stage /\ j.op = work[w].op /\ j.fits = work[w].fits
      /\ j.keys = keys
  BY <1>2 DEF Inv, Typed, Jobs
<1> HIDE DEF j
<1>5. Becomes(w, j)
  BY <1>3, <1>4, JobBecomes DEF Inv
<1>6. QED
  BY <1>2, <1>4, <1>5 DEF keys

LEMMA WriteImagesKeeps ==
  ASSUME Inv, NEW w \in Workers, WriteImages(w)
  PROVE  Inv'
<1>1. work[w].pc = "write" /\ UNCHANGED <<source, preview, op, req, lost>>
  BY DEF WriteImages
<1>2. Typed /\ JobKnows(w) /\ work[w].op \in Requests /\ source.gen > 0
  BY <1>1, Working DEF JobKnows
<1>3. OpsKeep
  BY <1>1, <1>2, UnchangedOps
<1>4. CASE Leave(w) /\ UNCHANGED store
  BY <1>1, <1>2, <1>3, <1>4, SamePreview, LeaveKeeps
<1>5. CASE /\ work[w].fits /\ store' = store \cup {Key("images", w)}
           /\ work' = [work EXCEPT ![w].pc = "finalize", ![w].keys = {Key("images", w)}]
  <2>1. PICK j \in Jobs :
           /\ Becomes(w, j) /\ j.pc = "finalize" /\ j.op = work[w].op
           /\ j.fits = work[w].fits
           /\ j.keys = {Key("images", w)} /\ Own(w, "images", j.keys)
    BY <1>5, Writes
  <2>2. JobKnows(w)'
    BY <1>1, <1>2, <1>5, <2>1 DEF JobKnows, Becomes, Without, Own
  <2>3. Held'
    BY <1>1, <1>5, <2>1 DEF Inv, Held, Present, Dying, Becomes
  <2>4. QED
    BY <1>1, <1>2, <1>3, <2>1, <2>2, <2>3, SamePreview, JobMoves
<1>6. QED
  BY <1>4, <1>5 DEF WriteImages

LEMMA WriteFailsKeeps ==
  ASSUME Inv, NEW w \in Workers, WriteFails(w)
  PROVE  Inv'
<1>1. /\ work[w].pc \in {"write", "finalize"} /\ work[w].fits /\ FailOperation(w)
      /\ UNCHANGED <<source, preview, op, req, lost>>
      /\ store' = IF work[w].pc = "finalize" THEN store \ work[w].keys ELSE store
  BY DEF WriteFails
<1>2. JobKnows(w) /\ work[w].op \in Requests
  BY <1>1, Working DEF JobKnows
<1>3. Own(w, "images", store \ store') /\ store' \subseteq store
  BY <1>1, <1>2 DEF JobKnows, Own
<1>4. Without(w, "images", source.keys)
  BY <1>1, <1>2 DEF JobKnows
<1>5. QED
  BY <1>1, <1>2, <1>3, <1>4, FailOperationKeeps

LEMMA ClaimPreviewKeeps ==
  ASSUME Inv, NEW w \in Workers, ClaimPreview(w)
  PROVE  Inv'
<1>1. /\ PreviewClaimable /\ UNCHANGED <<source, op, req, store, lost>>
      /\ preview' = [state |-> "running", gen |-> source.gen, lease |-> w]
      /\ work' = [work EXCEPT ![w] = [NoJob EXCEPT !.pc = "render", !.gen = source.gen]]
  BY DEF ClaimPreview
<1>2. /\ Typed /\ SourceObjects /\ source.gen > 0 /\ source.gen \in Nat
      /\ \A k \in source.keys : k.kind # "preview"
  BY <1>1, Working DEF PreviewClaimable, SourceObjects, Sources
<1> DEFINE j == [NoJob EXCEPT !.pc = "render", !.gen = source.gen]
<1>3. j \in Jobs /\ j.pc = "render" /\ j.keys = {}
  BY <1>2 DEF NoJob, NoKeys, Jobs, Keys
<1> HIDE DEF j
<1>4. Becomes(w, j)
  BY <1>1, <1>2, <1>3, JobBecomes DEF j
<1>5. OpsKeep /\ preview' \in Previews
  BY <1>1, <1>2, UnchangedOps DEF Previews, Leases
<1>6. SourceObjects' /\ JobKnows(w)'
  BY <1>1, <1>2, <1>3, <1>4 DEF SourceObjects, JobKnows, Becomes, Without
<1>7. Held'
  BY <1>1, <1>3, <1>4 DEF Inv, Held, Present, Dying, Becomes
<1>8. QED
  BY <1>1, <1>2, <1>3, <1>4, <1>5, <1>6, <1>7, JobMoves

LEMMA RenderedKeeps ==
  ASSUME Inv, NEW w \in Workers, Rendered(w)
  PROVE  Inv'
<1>1. work[w].pc = "render" /\ UNCHANGED <<source, preview, op, req, lost>>
  BY DEF Rendered
<1>2. Typed /\ JobKnows(w) /\ source.gen > 0
  BY <1>1, Working
<1>3. OpsKeep
  BY <1>1, <1>2, UnchangedOps
<1>4. CASE Leave(w) /\ UNCHANGED store
  BY <1>1, <1>2, <1>3, <1>4, SamePreview, LeaveKeeps
<1>5. CASE /\ store' = store \cup {Key("preview", w)}
           /\ work' = [work EXCEPT ![w].pc = "publish", ![w].keys = {Key("preview", w)}]
  <2>1. PICK j \in Jobs :
           /\ Becomes(w, j) /\ j.pc = "publish" /\ j.op = work[w].op
           /\ j.fits = work[w].fits
           /\ j.keys = {Key("preview", w)} /\ Own(w, "preview", j.keys)
    BY <1>5, Writes
  <2>2. JobKnows(w)'
    BY <1>1, <1>2, <2>1 DEF JobKnows, Becomes, Without, Own
  <2>3. Held'
    BY <1>1, <1>5, <2>1 DEF Inv, Held, Present, Dying, Becomes
  <2>4. QED
    BY <1>1, <1>2, <1>3, <2>1, <2>2, <2>3, SamePreview, JobMoves
<1>6. QED
  BY <1>4, <1>5 DEF Rendered

LEMMA RenderFailsKeeps ==
  ASSUME Inv, NEW w \in Workers, RenderFails(w)
  PROVE  Inv'
<1>1. work[w].pc \in {"render", "publish"} /\ UNCHANGED <<source, preview, op, req, lost>>
  BY DEF RenderFails
<1>2. Typed /\ JobKnows(w) /\ source.gen > 0
  BY <1>1, Working
<1>3. OpsKeep /\ SourceObjects' /\ preview' \in Previews
  BY <1>1, <1>2, UnchangedOps, SamePreview
<1>4. Own(w, "preview", work[w].keys) /\ Without(w, "preview", source.keys)
  BY <1>1, <1>2 DEF JobKnows, Own
<1>5. CASE Leave(w) /\ store' = store \ work[w].keys
  <2>1. Own(w, "preview", store \ store') /\ store' \subseteq store
    BY <1>4, <1>5 DEF Own
  <2>2. QED
    BY <1>1, <1>2, <1>3, <1>4, <1>5, <2>1, LeaveKeeps
<1>6. CASE work' = [work EXCEPT ![w].pc = "failpreview"] /\ UNCHANGED store
  <2>1. work' = [work EXCEPT ![w] = [work[w] EXCEPT !.pc = "failpreview"]]
    BY <1>2, <1>6 DEF Typed
  <2>2. PICK j \in Jobs :
           /\ Becomes(w, j) /\ j.pc = "failpreview" /\ j.op = work[w].op
           /\ j.fits = work[w].fits /\ j.keys = work[w].keys
    BY <1>2, <2>1, StageMoves
  <2>3. JobKnows(w)'
    BY <1>1, <1>4, <2>2 DEF JobKnows, Becomes, Own, Without
  <2>4. QED
    BY <1>1, <1>2, <1>3, <1>6, <2>2, <2>3, StopKeeps
<1>7. QED
  BY <1>5, <1>6 DEF RenderFails

LEMMA FailPreviewKeeps ==
  ASSUME Inv, NEW w \in Workers, FailPreview(w)
  PROVE  Inv'
<1>1. /\ work[w].pc = "failpreview" /\ Leave(w) /\ store' = store \ work[w].keys
      /\ UNCHANGED <<source, op, req, lost>>
  BY DEF FailPreview
<1>2. Typed /\ JobKnows(w) /\ SourceObjects /\ source.gen > 0
  BY <1>1, Working
<1>3. OpsKeep
  BY <1>1, <1>2, UnchangedOps
<1>4. Own(w, "preview", store \ store') /\ store' \subseteq store
  BY <1>1, <1>2 DEF JobKnows, Own
<1>5. Without(w, "preview", source.keys)
  BY <1>1, <1>2 DEF JobKnows
<1>6. preview' \in Previews /\ SourceObjects'
  <2>1. CASE UNCHANGED preview
    BY <1>1, <2>1, SamePreview
  <2>2. CASE preview' = [preview EXCEPT !.state = "failed", !.lease = "none"]
    <3>1. preview' \in Previews /\ preview'.lease = "none" /\ preview'.state = "failed"
      BY <1>2, <2>2 DEF Typed, Previews, Leases
    <3>2. QED
      BY <1>1, <1>2, <3>1, PreparationConstants DEF SourceObjects
  <2>3. QED
    BY <2>1, <2>2 DEF FailPreview
<1>7. QED
  BY <1>1, <1>2, <1>3, <1>4, <1>5, <1>6, LeaveKeeps

LEMMA EraseKeeps ==
  ASSUME Inv, NEW w \in Workers, Erase(w)
  PROVE  Inv'
<1>1. /\ work[w].pc = "erase" /\ Beat(w, work[w], "remove")
      /\ UNCHANGED <<source, preview, req, lost>>
  BY DEF Erase
<1>2. Typed /\ JobKnows(w) /\ work[w].op \in Requests /\ source.gen > 0
  BY <1>1, Working DEF JobKnows
<1>3. Dying
  BY <1>1 DEF Inv, Deletions
<1>4. /\ OpsKeep
      /\ \/ Leave(w)
         \/ work' = [work EXCEPT ![w] = [work[w] EXCEPT !.pc = "remove"]]
  BY <1>1, <1>2, BeatMoves
<1>5. CASE Leave(w)
  BY <1>1, <1>2, <1>3, <1>4, <1>5, SamePreview, LeaveKeeps
<1>6. CASE work' = [work EXCEPT ![w] = [work[w] EXCEPT !.pc = "remove"]]
  <2>1. PICK j \in Jobs :
           /\ Becomes(w, j) /\ j.pc = "remove" /\ j.op = work[w].op /\ j.fits = work[w].fits
           /\ j.keys = work[w].keys
    BY <1>2, <1>6, StageMoves
  <2>2. JobKnows(w)'
    BY <1>1, <1>2, <2>1 DEF JobKnows, Becomes
  <2>3. Held'
    BY <1>1, <1>3 DEF Held, Present, Dying
  <2>4. QED
    BY <1>1, <1>2, <1>3, <1>4, <2>1, <2>2, <2>3, SamePreview, JobMoves
<1>7. QED
  BY <1>4, <1>5, <1>6

LEMMA EraseFailsKeeps ==
  ASSUME Inv, NEW w \in Workers, EraseFails(w)
  PROVE  Inv'
<1>1. /\ work[w].pc = "erase" /\ FailOperation(w)
      /\ UNCHANGED <<source, preview, op, req, lost>>
  BY DEF EraseFails
<1>2. work[w].op \in Requests /\ Dying
  BY <1>1, Working DEF JobKnows, Inv, Deletions
<1>3. QED
  BY <1>1, <1>2, FailOperationKeeps

LEMMA CrashWorkerKeeps ==
  ASSUME Inv, NEW w \in Workers, CrashWorker(w)
  PROVE  Inv'
<1>1. /\ work[w].pc # "idle" /\ Leave(w)
      /\ UNCHANGED <<source, preview, op, req, store, lost>>
  BY DEF CrashWorker
<1>2. OpsKeep /\ source.gen > 0
  BY <1>1, Working, UnchangedOps
<1>3. QED
  BY <1>1, <1>2, SamePreview, LeaveKeeps

-----------------------------------------------------------------------------
(* Steps that write the source's row, its preview or a lease.              *)

LEMMA RowMoves ==
  ASSUME Inv, UNCHANGED req, source' \in Sources, source'.gen = 0 <=> source.gen = 0,
         preview' \in Previews, OpsKeep, work' \in [Workers -> Jobs],
         \A v \in Workers : work'[v] = work[v] \/ work'[v].pc = "idle",
         Dying => Dying',
         source'.state = "gone" => source.state = "gone" \/ \A r \in Requests : ~IsActive(r)',
         source.gen = 0 => UNCHANGED store /\ source'.state = "gone" /\ source'.keys = {},
         Objects', Held'
  PROVE  Inv'
<1>1. Typed'
  BY DEF Inv, Typed, OpsKeep
<1>2. Unborn'
  BY DEF Inv, Unborn, OpsKeep, OpKeeps
<1>3. Uploading' /\ Unissued'
  BY DEF Inv, Uploading, InUpload, Unissued, OpsKeep, OpKeeps
<1>4. Deletions'
  <2>1. source.gen > 0 => source'.gen > 0
    <3>1. source.gen \in Nat /\ source'.gen \in Nat
      BY DEF Inv, Typed, Sources
    <3>2. QED
      BY <3>1
  <2>2. QED
    BY <2>1 DEF Inv, Deletions, OpsKeep, OpKeeps
<1>5. OneOpen'
  BY DEF Inv, OneOpen, OpsKeep, OpKeeps
<1>6. QED
  BY <1>1, <1>2, <1>3, <1>4, <1>5 DEF Inv

LEMMA Leaves ==
  ASSUME Typed, NEW w \in Workers, Leave(w)
  PROVE  /\ Becomes(w, NoJob) /\ work' \in [Workers -> Jobs]
         /\ \A v \in Workers : work'[v] = work[v] \/ work'[v].pc = "idle"
BY Idle, JobBecomes DEF Leave, Becomes

LEMMA FinalizeKeeps ==
  ASSUME Inv, NEW w \in Workers, Finalize(w)
  PROVE  Inv'
<1>1. work[w].pc = "finalize" /\ Leave(w) /\ UNCHANGED <<domain, req, lost, faults>>
  BY DEF Finalize
<1>2. /\ Typed /\ JobKnows(w) /\ SourceObjects /\ work[w].op \in Requests /\ source.gen > 0
      /\ source.gen \in Nat /\ Own(w, "images", work[w].keys) /\ work[w].fits
      /\ work[w] \in Jobs
  BY <1>1, Working DEF JobKnows, Sources
<1>3. /\ Becomes(w, NoJob) /\ work' \in [Workers -> Jobs]
      /\ \A v \in Workers : work'[v] = work[v] \/ work'[v].pc = "idle"
  BY <1>1, <1>2, Leaves
<1>4. CASE store' = store \ work[w].keys /\ UNCHANGED <<source, preview, op>>
  <2>1. Own(w, "images", store \ store') /\ store' \subseteq store
    BY <1>2, <1>4 DEF Own
  <2>2. Without(w, "images", source.keys) /\ OpsKeep
    BY <1>1, <1>2, <1>4, UnchangedOps DEF JobKnows
  <2>3. QED
    BY <1>1, <1>2, <1>4, <2>1, <2>2, SamePreview, LeaveKeeps
<1>5. CASE /\ Publishable(w)
           /\ source' = [source EXCEPT !.state = "prepared", !.keys = @ \cup work[w].keys]
           /\ preview' = [state |-> "queued", gen |-> source.gen, lease |-> "none"]
           /\ End(work[w].op, "succeeded")
           /\ UNCHANGED store
  <2> DEFINE keys == source.keys \cup work[w].keys
  <2>1. keys \in SUBSET Keys
    BY <1>2 DEF Typed, Sources, Jobs
  <2>2. source' = [source EXCEPT !.state = "prepared", !.keys = keys]
    BY <1>5
  <2> HIDE DEF keys
  <2>3. /\ source' \in Sources /\ source'.gen = source.gen /\ source'.state = "prepared"
        /\ source'.keys = keys
    BY <1>2, <2>1, <2>2 DEF Typed, Sources
  <2>4. preview' \in Previews /\ preview'.lease = "none"
    BY <1>2, <1>5 DEF Previews, Leases
  <2>5. OpsKeep
    BY <1>2, <1>5, EndKeeps DEF Publishable, LeaseCurrent, IsActive, Active
  <2>6. source.state = "pending" /\ ~Dying /\ ~Dying'
    BY <1>5, <2>3 DEF Publishable, Dying
  <2>7. \A k \in keys : k.kind # "preview"
    BY <1>2, <2>6 DEF keys, SourceObjects, Own
  <2>8. SourceObjects'
    BY <2>3, <2>4, <2>7, PreparationConstants DEF SourceObjects
  <2>9. ASSUME NEW v \in Workers PROVE JobKnows(v)'
    <3>1. CASE v = w
      BY <1>3, <3>1, Idle DEF Becomes, JobKnows
    <3>2. CASE v # w
      <4>1. \A kind : Without(v, kind, source.keys) => Without(v, kind, source'.keys)
        BY <1>2, <2>3, <3>2 DEF Without, Own, keys
      <4>2. JobKnows(v) /\ work'[v] = work[v]
        BY <1>3, <3>2 DEF Becomes, Inv, Objects
      <4>3. QED
        BY <4>1, <4>2 DEF JobKnows
    <3>3. QED
      BY <3>1, <3>2
  <2>10. Held'
    BY <1>1, <1>3, <1>5, <2>3, <2>6, Idle DEF Inv, Held, Present, Becomes, keys
  <2>11. QED
    BY <1>1, <1>2, <1>3, <2>3, <2>4, <2>5, <2>6, <2>8, <2>9, <2>10, RowMoves DEF Objects
<1>6. QED
  BY <1>4, <1>5 DEF Finalize

LEMMA PublishPreviewKeeps ==
  ASSUME Inv, NEW w \in Workers, PublishPreview(w)
  PROVE  Inv'
<1>1. work[w].pc = "publish" /\ Leave(w) /\ UNCHANGED <<op, req, lost>>
  BY DEF PublishPreview
<1>2. /\ Typed /\ JobKnows(w) /\ SourceObjects /\ source.gen > 0 /\ source.gen \in Nat
      /\ Own(w, "preview", work[w].keys) /\ work[w] \in Jobs
  BY <1>1, Working DEF JobKnows, Sources
<1>3. /\ Becomes(w, NoJob) /\ work' \in [Workers -> Jobs] /\ OpsKeep
      /\ \A v \in Workers : work'[v] = work[v] \/ work'[v].pc = "idle"
  BY <1>1, <1>2, Leaves, UnchangedOps
<1>4. CASE store' = store \ work[w].keys /\ UNCHANGED <<preview, source>>
  <2>1. Own(w, "preview", store \ store') /\ store' \subseteq store
    BY <1>2, <1>4 DEF Own
  <2>2. Without(w, "preview", source.keys)
    BY <1>1, <1>2 DEF JobKnows
  <2>3. QED
    BY <1>1, <1>2, <1>3, <1>4, <2>1, <2>2, SamePreview, LeaveKeeps
<1>5. CASE /\ PreviewCurrent(w)
           /\ preview' = [preview EXCEPT !.state = "ready", !.lease = "none"]
           /\ source' = [source EXCEPT !.keys = @ \cup work[w].keys]
           /\ UNCHANGED store
  <2> DEFINE keys == source.keys \cup work[w].keys
  <2>1. keys \in SUBSET Keys
    BY <1>2 DEF Typed, Sources, Jobs
  <2>2. source' = [source EXCEPT !.keys = keys]
    BY <1>5
  <2> HIDE DEF keys
  <2>3. /\ source' \in Sources /\ source'.gen = source.gen /\ source'.state = "prepared"
        /\ source'.keys = keys
    BY <1>2, <1>5, <2>1, <2>2 DEF Typed, Sources, PreviewCurrent
  <2>4. preview' \in Previews /\ preview'.lease = "none" /\ preview'.state = "ready"
    BY <1>2, <1>5 DEF Typed, Previews, Leases
  <2>5. source.state = "prepared" /\ preview.state # "ready" /\ ~Dying /\ ~Dying'
    BY <1>5, <2>3 DEF PreviewCurrent, Dying
  <2>6. SourceObjects'
    BY <2>3, <2>4, PreparationConstants DEF SourceObjects
  <2>7. ASSUME NEW v \in Workers PROVE JobKnows(v)'
    <3>1. CASE v = w
      BY <1>3, <3>1, Idle DEF Becomes, JobKnows
    <3>2. CASE v # w
      <4>1. \A kind : Without(v, kind, source.keys) => Without(v, kind, source'.keys)
        BY <1>2, <2>3, <3>2 DEF Without, Own, keys
      <4>2. JobKnows(v) /\ work'[v] = work[v]
        BY <1>3, <3>2 DEF Becomes, Inv, Objects
      <4>3. QED
        BY <4>1, <4>2 DEF JobKnows
    <3>3. QED
      BY <3>1, <3>2
  <2>8. Held'
    BY <1>1, <1>3, <1>5, <2>3, <2>5, Idle DEF Inv, Held, Present, Becomes, keys
  <2>9. QED
    BY <1>1, <1>2, <1>3, <2>3, <2>4, <2>5, <2>6, <2>7, <2>8, RowMoves DEF Objects
<1>6. QED
  BY <1>4, <1>5 DEF PublishPreview

(* The row goes, by its deletion or with its domain.                       *)
LEMMA RowGoes ==
  ASSUME Inv, UNCHANGED req, source' = [NoSource EXCEPT !.gen = source.gen],
         preview' = NoPreview, op' = Cascade, work' \in [Workers -> Jobs],
         \A v \in Workers : work'[v] = work[v] \/ work'[v].pc = "idle",
         source.gen = 0 => UNCHANGED store
  PROVE  Inv'
<1>1. OpsKeep /\ \A r \in Requests : ~IsActive(r)'
  BY CascadeKeeps DEF Inv
<1>2. source' \in Sources /\ source'.gen = source.gen /\ source'.state = "gone"
      /\ source'.keys = {}
  BY DEF Inv, Typed, Sources, NoSource, NoKeys, Keys
<1>3. preview' \in Previews /\ preview'.lease = "none"
  BY DEF NoPreview, Previews, Leases
<1>4. Dying' /\ Held'
  BY <1>2 DEF Dying, Held, Present
<1>5. SourceObjects'
  BY <1>2, <1>3, PreparationConstants DEF SourceObjects
<1>6. ASSUME NEW v \in Workers PROVE JobKnows(v)'
  BY <1>2 DEF Inv, Objects, JobKnows, Without
<1>7. QED
  BY <1>1, <1>2, <1>3, <1>4, <1>5, <1>6, RowMoves DEF Objects

LEMMA RemoveSourceKeeps ==
  ASSUME Inv, NEW w \in Workers, RemoveSource(w)
  PROVE  Inv'
<1>1. work[w].pc = "remove" /\ Leave(w) /\ UNCHANGED <<req, store, lost>>
  BY DEF RemoveSource
<1>2. /\ Typed /\ work[w].op \in Requests /\ source.gen > 0 /\ JobKnows(w)
  BY <1>1, Working DEF JobKnows
<1>3. /\ Becomes(w, NoJob) /\ work' \in [Workers -> Jobs]
      /\ \A v \in Workers : work'[v] = work[v] \/ work'[v].pc = "idle"
  BY <1>1, <1>2, Leaves
<1>4. CASE UNCHANGED <<source, preview, op>>
  BY <1>1, <1>2, <1>4, UnchangedOps, SamePreview, LeaveKeeps
<1>5. CASE UNCHANGED <<source, preview>> /\ End(work[w].op, "cancelled")
  <2>1. OpsKeep
    BY <1>2, <1>5, EndKeeps
  <2>2. QED
    BY <1>1, <1>2, <1>5, <2>1, SamePreview, LeaveKeeps
<1>6. CASE /\ source' = [NoSource EXCEPT !.gen = source.gen]
           /\ preview' = NoPreview /\ op' = Cascade
  BY <1>1, <1>3, <1>6, RowGoes
<1>7. QED
  BY <1>4, <1>5, <1>6 DEF RemoveSource

LEMMA LeaseExpiresKeeps ==
  ASSUME Inv, NEW r \in Requests, LeaseExpires(r)
  PROVE  Inv'
<1>1. /\ UNCHANGED <<source, preview, req, work, store, lost>>
      /\ op[r].status = "running" /\ op' = [op EXCEPT ![r].lease = "expired"]
  BY DEF LeaseExpires
<1>2. OpsKeep
  BY <1>1, LeaseMoves DEF Inv, IsActive, Active, Leases
<1>3. QED
  BY <1>1, <1>2, RowMoves
  DEF Inv, Typed, Unborn, Dying, Objects, SourceObjects, JobKnows, Held, Present

LEMMA PreviewLeaseExpiresKeeps ==
  ASSUME Inv, PreviewLeaseExpires
  PROVE  Inv'
<1>1. /\ UNCHANGED <<source, op, req, work, store, lost>>
      /\ preview' = [preview EXCEPT !.lease = "expired"]
  BY DEF PreviewLeaseExpires
<1>2. OpsKeep /\ Typed
  BY <1>1, UnchangedOps DEF Inv
<1>3. preview' \in Previews /\ preview'.state = preview.state /\ preview'.lease = "expired"
  BY <1>1, <1>2 DEF Typed, Previews, Leases
<1>4. Objects'
  BY <1>1, <1>3, PreparationConstants DEF Inv, Objects, SourceObjects, JobKnows
<1>5. QED
  BY <1>1, <1>2, <1>3, <1>4, RowMoves DEF Inv, Typed, Unborn, Dying, Held, Present

(* The deletion of the domain: its fence cancels what is active.           *)
LEMMA FencesKeep ==
  ASSUME Inv, PurgeFences
  PROVE  OpsKeep /\ \A r \in Requests : ~IsActive(r)'
<1>1. op' = [r \in Requests |->
               IF IsActive(r) THEN [op[r] EXCEPT !.status = "cancelled", !.lease = "none"]
               ELSE op[r]]
  BY DEF PurgeFences
<1>2. ASSUME NEW r \in Requests
      PROVE  op'[r] \in Operations /\ OpKeeps(r) /\ ~IsActive(r)'
  <2>1. op[r] \in Operations
    BY DEF Inv, Typed
  <2>2. CASE IsActive(r)
    <3>1. op'[r] = [op[r] EXCEPT !.status = "cancelled", !.lease = "none"]
      BY <1>1, <2>2
    <3>2. op'[r] \in Operations /\ op'[r].type = op[r].type /\ op'[r].status = "cancelled"
      BY <2>1, <3>1 DEF Operations, Ended, Leases
    <3>3. QED
      BY <2>2, <3>2 DEF OpKeeps, IsActive, Active
  <2>3. CASE ~IsActive(r)
    <3>1. op'[r] = op[r]
      BY <1>1, <2>3
    <3>2. QED
      BY <2>1, <2>3, <3>1 DEF OpKeeps, IsActive
  <2>4. QED
    BY <2>2, <2>3
<1>3. QED
  BY <1>1, <1>2 DEF OpsKeep

LEMMA PurgeFencesKeeps ==
  ASSUME Inv, PurgeFences
  PROVE  Inv'
<1>1. /\ source.state # "gone" /\ UNCHANGED <<preview, req, work, store, lost>>
      /\ source' = [source EXCEPT !.state = "deleting", !.gen = @ + 1]
  BY DEF PurgeFences
<1>2. Typed /\ source.gen \in Nat /\ source.gen # 0
  BY <1>1 DEF Inv, Typed, Sources, Unborn
<1> DEFINE gen == source.gen + 1
<1>3. gen \in Nat /\ gen # 0 /\ source' = [source EXCEPT !.state = "deleting", !.gen = gen]
  BY <1>1, <1>2
<1> HIDE DEF gen
<1>4. /\ source' \in Sources /\ source'.keys = source.keys /\ source'.state = "deleting"
      /\ source'.gen = gen
  BY <1>2, <1>3 DEF Typed, Sources
<1>5. source'.gen # 0
  BY <1>3, <1>4
<1>6. OpsKeep
  BY FencesKeep
<1>7. Dying' /\ Held'
  BY <1>4 DEF Dying, Held
<1>8. Objects'
  BY <1>1, <1>4 DEF Inv, Objects, SourceObjects, JobKnows
<1>9. QED
  BY <1>1, <1>2, <1>4, <1>5, <1>6, <1>7, <1>8, RowMoves DEF Typed

(* What the deletion of the domain erases is recorded as lost.             *)
LEMMA ErasedKeeps ==
  ASSUME Inv, UNCHANGED <<source, preview, op, req, work>>,
         NEW some \in SUBSET Purged, store' = store \ some, lost' = lost \cup some
  PROVE  Inv'
<1>1. OpsKeep /\ Typed
  BY UnchangedOps DEF Inv
<1>2. source.gen = 0 => UNCHANGED store /\ source.state = "gone" /\ source.keys = {}
  BY DEF Inv, Unborn, Purged
<1>3. Objects'
  BY DEF Inv, Objects, SourceObjects, JobKnows
<1>4. Present \subseteq Present'
  BY DEF Present
<1>5. Held'
  BY <1>4 DEF Inv, Held, Dying
<1>6. QED
  BY <1>1, <1>2, <1>3, <1>5, RowMoves DEF Typed, Dying

LEMMA DomainStepKeeps ==
  ASSUME Inv, DomainDeletionBegins \/ Purge \/ PurgeFails \/ RemoveDomain
  PROVE  Inv'
<1>1. CASE DomainDeletionBegins
  <2>1. UNCHANGED <<source, preview, op, req, work, store, lost>>
    BY <1>1 DEF DomainDeletionBegins
  <2>2. OpsKeep
    BY <2>1, UnchangedOps DEF Inv
  <2>3. QED
    BY <2>1, <2>2, RowMoves
    DEF Inv, Typed, Unborn, Dying, Objects, SourceObjects, JobKnows, Held, Present
<1>2. CASE PurgeCommits \/ RemoveDomain
  <2>1. /\ UNCHANGED <<req, work, store, lost>> /\ source' = [NoSource EXCEPT !.gen = source.gen]
        /\ preview' = NoPreview /\ op' = Cascade
    BY <1>2 DEF PurgeCommits, RemoveDomain
  <2>2. QED
    BY <2>1, RowGoes DEF Inv, Typed
<1>3. CASE PurgeErases
  <2>1. Purged \in SUBSET Purged
    OBVIOUS
  <2>2. QED
    BY <1>3, <2>1, ErasedKeeps DEF PurgeErases
<1>4. CASE PurgeFails
  BY <1>4, ErasedKeeps DEF PurgeFails
<1>5. QED
  BY <1>1, <1>2, <1>3, <1>4, PurgeFencesKeeps DEF Purge

LEMMA NextKeeps ==
  ASSUME Inv, [Next]_vars
  PROVE  Inv'
<1>1. CASE UNCHANGED vars
  <2>1. UNCHANGED <<source, preview, op, req, work, store, lost>>
    BY <1>1 DEF vars
  <2>2. OpsKeep
    BY <2>1, UnchangedOps DEF Inv
  <2>3. QED
    BY <2>1, <2>2, RowMoves
    DEF Inv, Typed, Unborn, Dying, Objects, SourceObjects, JobKnows, Held, Present
<1>2. ASSUME NEW r \in Requests,
             Begin(r) \/ RequestStep(r) \/ CrashRequest(r) \/ LeaseExpires(r)
      PROVE  Inv'
  BY <1>2, BeginKeeps, UploadFlushKeeps, UploadStoreKeeps, UploadCommitKeeps,
     CommitRetryKeeps, CommitCancelKeeps, CommitDeleteKeeps, CrashRequestKeeps,
     LeaseExpiresKeeps
  DEF RequestStep
<1>3. ASSUME NEW w \in Workers, Claim(w) \/ WorkerStep(w) \/ WorkerFault(w)
      PROVE  Inv'
  <2>1. CASE Claim(w)
    BY <2>1, TakeKeeps, ClaimPreviewKeeps DEF Claim
  <2>2. CASE WorkerStep(w)
    BY <2>2, ParsedKeeps, WriteImagesKeeps, FinalizeKeeps, RenderedKeeps,
       PublishPreviewKeeps, EraseKeeps, RemoveSourceKeeps, FailWriteKeeps, FailPreviewKeeps
    DEF WorkerStep
  <2>3. CASE WorkerFault(w)
    BY <2>3, ParserFailsKeeps, WriteFailsKeeps, RenderFailsKeeps, EraseFailsKeeps,
       CrashWorkerKeeps
    DEF WorkerFault
  <2>4. QED
    BY <1>3, <2>1, <2>2, <2>3
<1>4. QED
  BY <1>1, <1>2, <1>3, PreviewLeaseExpiresKeeps, DomainStepKeeps DEF Next

LEMMA InitHasInv == Init => Inv
<1> SUFFICES ASSUME Init PROVE Inv
  OBVIOUS
<1>1. /\ NoOperation \in Operations /\ NoOperation.status = "none"
      /\ NoOperation.type = "prepare"
  BY DEF NoOperation, Operations, Types, Leases
<1>2. NoHandler \in Handlers /\ NoHandler.pc = "idle"
  BY NoHandlerTyped DEF NoHandler
<1>3. NoSource \in Sources /\ NoPreview \in Previews /\ NoPreview.lease = "none"
  BY DEF NoSource, NoPreview, NoKeys, Sources, Previews, Leases, Keys
<1>4. Typed
  BY <1>1, <1>2, <1>3, Idle DEF Init, Typed
<1>5. Unborn /\ Uploading /\ Unissued
  BY <1>1, <1>2, Idle DEF Init, Unborn, Uploading, InUpload, Unissued, NoSource, NoKeys
<1>6. Deletions /\ OneOpen
  BY <1>1, Idle DEF Init, Deletions, OneOpen, IsActive, Active
<1>7. Objects /\ Held
  BY <1>3, Idle, PreparationConstants
  DEF Init, Objects, SourceObjects, JobKnows, Held, Present, Dying, NoSource, NoKeys
<1>8. QED
  BY <1>4, <1>5, <1>6, <1>7 DEF Inv

LEMMA Invariance == Spec => []Inv
BY InitHasInv, NextKeeps, PTL DEF Spec

-----------------------------------------------------------------------------
(* Until it is being deleted, every object the source refers to is in the  *)
(* object store or has been erased by the deletion of its domain, whatever *)
(* clean-up the workers do under leases they lost.                         *)
THEOREM ObjectsExist == Spec => []ReferencedObjectsExist
<1>1. Inv => ReferencedObjectsExist
  BY DEF Inv, Typed, Sources, Held, Present, Dying, ReferencedObjectsExist
<1>2. QED
  BY <1>1, Invariance, PTL

(* No preparation, retry, preview or upload that was under way takes a     *)
(* source out of its deletion.                                             *)
THEOREM DeletionIsFinal == Spec => DeletingIsFinal
<1>1. Inv /\ [Next]_vars =>
        [source.state = "deleting" => source'.state \in {"deleting", "gone"}]_vars
  <2> SUFFICES ASSUME Inv, [Next]_vars, source.state = "deleting"
               PROVE  source'.state \in {"deleting", "gone"}
    OBVIOUS
  <2>1. source \in Sources /\ source.gen # 0
    BY DEF Inv, Typed, Unborn
  <2>2. CASE \E r \in Requests : UploadCommit(r)
    BY <2>1, <2>2 DEF UploadCommit, Inv, Uploading, InUpload
  <2>3. CASE \E r \in Requests : CommitRetry(r) \/ CommitCancel(r) \/ CommitDelete(r)
    BY <2>1, <2>3 DEF CommitRetry, CommitCancel, CommitDelete, Sources
  <2>4. CASE \E w \in Workers : Finalize(w) \/ PublishPreview(w) \/ RemoveSource(w)
    BY <2>1, <2>4
    DEF Finalize, Publishable, PublishPreview, PreviewCurrent, RemoveSource, NoSource
  <2>5. CASE PurgeFences \/ PurgeCommits \/ RemoveDomain
    BY <2>1, <2>5 DEF PurgeFences, PurgeCommits, RemoveDomain, NoSource, Sources
  <2>6. CASE UNCHANGED source
    BY <2>6
  <2>7. QED
    BY <2>2, <2>3, <2>4, <2>5, <2>6
    DEF Next, Begin, UploadChecks, BeginRetry, BeginCancel, BeginDelete, Load, RequestStep,
        UploadFlush, UploadStore, CrashRequest, LeaseExpires, Claim, ClaimPreparation,
        ClaimPreview, ClaimDelete, WorkerStep, Parsed, WriteImages, Rendered, Erase,
        FailWrite, FailPreview, WorkerFault, ParserFails, WriteFails, RenderFails,
        EraseFails, CrashWorker, PreviewLeaseExpires, DomainDeletionBegins, Purge,
        PurgeErases, PurgeFails, vars
<1>2. QED
  BY <1>1, Invariance, PTL DEF Spec, DeletingIsFinal

-----------------------------------------------------------------------------
(* Most steps keep every operation as OpsKeep says; an upload, a retry and *)
(* a deletion that commit enter a row of their own.                        *)

Enters(r) ==
  /\ op[r].status = "none" /\ op'[r].status = "queued"
  /\ \A q \in Requests \ {r} : OpKeeps(q) /\ ~IsActive(q)'
  /\ op' \in [Requests -> Operations]

LEMMA RequestEnters ==
  ASSUME Inv, NEW r \in Requests, UploadCommit(r) \/ CommitRetry(r) \/ CommitDelete(r)
  PROVE  OpsKeep \/ Enters(r)
<1>1. Typed /\ Typed' /\ op[r].status = "none"
  BY NextKeeps DEF Inv, Unissued, Next, RequestStep, UploadCommit, CommitRetry, CommitDelete
<1>2. CASE UNCHANGED op
  BY <1>1, <1>2, UnchangedOps
<1>3. ASSUME NEW type, NEW gen, op' = [op EXCEPT ![r] = Inserted(r, type, gen)],
             \A q \in Requests \ {r} : ~IsActive(q)
      PROVE  Enters(r)
  <2>1. op'[r].status = "queued" /\ \A q \in Requests \ {r} : op'[q] = op[q]
    BY <1>1, <1>3 DEF Typed, Inserted
  <2>2. QED
    BY <1>1, <1>3, <2>1 DEF Enters, OpKeeps, IsActive, Typed
<1>4. CASE UploadCommit(r)
  <2>1. \A q \in Requests : ~IsActive(q)
    BY <1>4 DEF UploadCommit, Inv, Uploading, InUpload, Unborn, IsActive, Active
  <2>2. QED
    BY <1>3, <1>4, <2>1 DEF UploadCommit
<1>5. CASE CommitRetry(r)
  BY <1>2, <1>3, <1>5, PreparationConstants DEF CommitRetry, Admits
<1>6. CASE CommitDelete(r) /\ source.state # "gone"
  <2> DEFINE gen == req[r].gen + 1
  <2>1. op' = [s \in Requests |->
                 IF s = r THEN Inserted(r, "delete", gen)
                 ELSE IF IsActive(s)
                      THEN [op[s] EXCEPT !.status = "cancelled", !.lease = "none"]
                      ELSE op[s]]
    BY <1>6 DEF CommitDelete
  <2> HIDE DEF gen
  <2>2. op'[r].status = "queued"
    BY <2>1 DEF Inserted
  <2>3. ASSUME NEW q \in Requests \ {r}
        PROVE  OpKeeps(q) /\ ~IsActive(q)'
    <3>1. op[q] \in Operations
      BY <1>1 DEF Typed
    <3>2. CASE IsActive(q)
      <4>1. op'[q] = [op[q] EXCEPT !.status = "cancelled", !.lease = "none"]
        BY <2>1, <3>2
      <4>2. op'[q].type = op[q].type /\ op'[q].status = "cancelled"
        BY <3>1, <4>1 DEF Operations
      <4>3. QED
        BY <3>2, <4>2 DEF OpKeeps, IsActive, Active
    <3>3. CASE ~IsActive(q)
      <4>1. op'[q] = op[q]
        BY <2>1, <3>3
      <4>2. QED
        BY <3>3, <4>1 DEF OpKeeps, IsActive
    <3>4. QED
      BY <3>2, <3>3
  <2>4. QED
    BY <1>1, <2>2, <2>3 DEF Enters, Typed
<1>7. QED
  BY <1>2, <1>4, <1>5, <1>6 DEF CommitDelete

LEMMA StepKeepsOrEnters ==
  ASSUME Inv, [Next]_vars
  PROVE  OpsKeep \/ \E r \in Requests : Enters(r)
<1>1. Typed
  BY DEF Inv
<1>2. CASE UNCHANGED op
  BY <1>1, <1>2, UnchangedOps
<1>3. CASE \E r \in Requests : UploadCommit(r) \/ CommitRetry(r) \/ CommitDelete(r)
  BY <1>3, RequestEnters
<1>4. CASE \E r \in Requests : CommitCancel(r)
  <2>1. PICK r \in Requests : CommitCancel(r)
    BY <1>4
  <2>2. req[r].found \in Requests
    BY <2>1 DEF CommitCancel, Inv, Unissued
  <2>3. QED
    BY <1>1, <1>2, <2>1, <2>2, EndKeeps DEF CommitCancel
<1>5. CASE \E r \in Requests : LeaseExpires(r)
  BY <1>1, <1>5, LeaseMoves DEF LeaseExpires, IsActive, Active, Leases
<1>6. CASE \E w \in Workers : ClaimPreparation(w) \/ ClaimDelete(w)
  <2>1. PICK w \in Workers, r \in Requests, type \in {"prepare", "delete"},
             stage \in {"parse", "erase"} : Claimable(r, type) /\ Take(w, r, stage)
    BY <1>6 DEF ClaimPreparation, ClaimDelete
  <2>2. /\ "running" \in Active \cup Ended /\ w \in Leases /\ IsActive(r)
        /\ op[r].status \notin {"none", "cancelled"}
    BY <2>1 DEF Claimable, Active, Leases, IsActive
  <2>3. op' = [op EXCEPT ![r].status = "running", ![r].lease = w]
    BY <2>1 DEF Take
  <2>4. QED
    BY <1>1, <2>2, <2>3, OneOp
<1>7. CASE \E w \in Workers : Parsed(w) \/ Erase(w)
  <2>1. PICK w \in Workers, stage \in {"write", "remove"} :
          Beat(w, work[w], stage) /\ work[w].pc \in {"parse", "erase"}
    BY <1>7 DEF Parsed, Erase
  <2>2. work[w].op \in Requests
    BY <2>1, Working DEF JobKnows
  <2>3. QED
    BY <2>1, <2>2, BeatMoves
<1>8. CASE \E w \in Workers : FailWrite(w)
  <2>1. PICK w \in Workers : FailWrite(w)
    BY <1>8
  <2>2. work[w].op \in Requests
    BY <2>1, Working DEF FailWrite, JobKnows
  <2>3. QED
    BY <1>1, <2>1, <2>2, EndKeeps DEF FailWrite
<1>9. CASE \E w \in Workers : Finalize(w)
  <2>1. PICK w \in Workers : Finalize(w)
    BY <1>9
  <2>2. work[w].op \in Requests
    BY <2>1, Working DEF Finalize, JobKnows
  <2>3. QED
    BY <1>1, <1>2, <2>1, <2>2, EndKeeps
    DEF Finalize, Publishable, LeaseCurrent, IsActive, Active
<1>10. CASE \E w \in Workers : RemoveSource(w)
  <2>1. PICK w \in Workers : RemoveSource(w)
    BY <1>10
  <2>2. work[w].op \in Requests
    BY <2>1, Working DEF RemoveSource, JobKnows
  <2>3. QED
    BY <1>1, <1>2, <2>1, <2>2, EndKeeps, CascadeKeeps DEF RemoveSource
<1>11. CASE PurgeCommits \/ RemoveDomain
  BY <1>1, <1>11, CascadeKeeps DEF PurgeCommits, RemoveDomain
<1>12. CASE PurgeFences
  BY <1>12, FencesKeep
<1>13. QED
  BY <1>2, <1>3, <1>4, <1>5, <1>6, <1>7, <1>8, <1>9, <1>10, <1>11, <1>12
  DEF Next, Begin, UploadChecks, BeginRetry, BeginCancel, BeginDelete, Load, RequestStep,
      UploadFlush, UploadStore, CrashRequest, Claim, ClaimPreview, WorkerStep, WriteImages,
      Rendered, PublishPreview, FailPreview, WorkerFault, ParserFails, WriteFails,
      RenderFails, EraseFails, CrashWorker, PreviewLeaseExpires, DomainDeletionBegins,
      Purge, PurgeErases, PurgeFails, vars

-----------------------------------------------------------------------------
OpenOps == {r \in Requests : IsActive(r)}
ClosedOps == {r \in Requests : op[r].status \in Ended}
ledger == <<OpenOps, ClosedOps>>

LEMMA KeptOrClosed ==
  ASSUME Inv, OpsKeep
  PROVE  [Ledger!Next]_ledger
<1>1. \A r \in Requests : IsActive(r)' => IsActive(r)
  BY DEF OpsKeep, OpKeeps
<1>2. ASSUME NEW r \in Requests
      PROVE  /\ op[r].status \in Active \cup Ended \cup {"none"}
             /\ op'[r].status \in Active \cup Ended \cup {"none"}
             /\ op'[r].status = "none" <=> op[r].status = "none"
  BY DEF Inv, Typed, OpsKeep, OpKeeps, Operations
<1>3. ClosedOps' = ClosedOps \cup {r \in OpenOps : ~IsActive(r)'}
  BY <1>1, <1>2 DEF ClosedOps, OpenOps, IsActive, Active, Ended
<1>4. CASE \A r \in OpenOps : IsActive(r)'
  <2>1. OpenOps' = OpenOps /\ ClosedOps' = ClosedOps
    BY <1>1, <1>3, <1>4 DEF OpenOps
  <2>2. QED
    BY <2>1 DEF ledger
<1>5. CASE \E r \in OpenOps : ~IsActive(r)'
  <2>1. PICK r \in OpenOps : ~IsActive(r)'
    BY <1>5
  <2>2. r \in Requests /\ OpenOps = {r}
    BY <2>1 DEF Inv, OneOpen, OpenOps
  <2>3. OpenOps' = {} /\ ClosedOps' = ClosedOps \cup {r}
    BY <1>1, <1>3, <2>1, <2>2 DEF OpenOps
  <2>4. Ledger!Close(r)
    BY <2>2, <2>3 DEF Ledger!Close, OpenOps, ClosedOps
  <2>5. QED
    BY <2>2, <2>4 DEF Ledger!Next
<1>6. QED
  BY <1>4, <1>5

LEMMA OpenedOrSuperseded ==
  ASSUME Inv, NEW r \in Requests, Enters(r)
  PROVE  [Ledger!Next]_ledger
<1>1. /\ r \notin OpenOps /\ r \notin ClosedOps
      /\ OpenOps' = {r}
  BY DEF Enters, OpenOps, ClosedOps, IsActive, Active, Ended
<1>2. ASSUME NEW q \in Requests \ {r}
      PROVE  /\ op[q].status \in Active \cup Ended \cup {"none"}
             /\ op'[q].status \in Ended \cup {"none"}
             /\ op'[q].status = "none" <=> op[q].status = "none"
  BY DEF Inv, Typed, Enters, OpKeeps, Operations, IsActive
<1>3. ClosedOps' = ClosedOps \cup OpenOps
  BY <1>2 DEF ClosedOps, OpenOps, Enters, IsActive, Active, Ended
<1>4. CASE OpenOps = {}
  <2>1. Ledger!Open(r)
    BY <1>1, <1>3, <1>4 DEF Ledger!Open, Ledger!Fresh, OpenOps, ClosedOps
  <2>2. QED
    BY <2>1 DEF Ledger!Next
<1>5. CASE OpenOps # {}
  <2>1. PICK q \in OpenOps : TRUE
    BY <1>5
  <2>2. q \in Requests /\ OpenOps = {q}
    BY <2>1 DEF Inv, OneOpen, OpenOps
  <2>3. Ledger!Supersede(q, r)
    BY <1>1, <1>3, <2>2 DEF Ledger!Supersede, Ledger!Fresh, OpenOps, ClosedOps
  <2>4. QED
    BY <2>2, <2>3 DEF Ledger!Next
<1>6. QED
  BY <1>4, <1>5

(* The operations of a source keep the ledger's promise: at most one is    *)
(* open, each is opened once, and a closed one is never reopened.          *)
THEOREM KeepsLedger == Spec => ImplementsLedger
<1>1. Init => Ledger!Init
  BY DEF Init, Ledger!Init, OpenOps, ClosedOps, IsActive, NoOperation, Active, Ended
<1>2. Inv /\ [Next]_vars => [Ledger!Next]_ledger
  BY StepKeepsOrEnters, KeptOrClosed, OpenedOrSuperseded
<1>3. QED
  BY <1>1, <1>2, Invariance, PTL
  DEF Spec, ImplementsLedger, Ledger!Spec, ledger, OpenOps, ClosedOps

(* The worker that had claimed a cancelled operation neither revives it nor *)
(* completes it: at most it records its own failure over the cancellation.  *)
THEOREM CancelledStaysOver == Spec => CancelledNeverSucceeds
<1>1. Inv /\ [Next]_vars =>
        [\A r \in Requests :
           op[r].status = "cancelled" =>
             op'[r].status \in {"cancelled", "failed", "removed"}]_vars
  BY StepKeepsOrEnters DEF OpsKeep, OpKeeps, Enters
<1>2. QED
  BY <1>1, Invariance, PTL DEF Spec, CancelledNeverSucceeds
=============================================================================
