------------------------------ MODULE Controller ------------------------------
(***************************************************************************)
(* The declarative controller (pkg/controller/controller.go) together with *)
(* the parts of its environment it interacts with:                         *)
(*                                                                         *)
(*  - the cluster: objects of each source kind, created, updated and       *)
(*    deleted by others; every change becomes a watch event;               *)
(*  - one runtime controller per source kind (controller.NewTyped), whose *)
(*    workqueue holds each distinct Request once: a Request equal to one   *)
(*    still queued is dropped, one equal to the Request being reconciled  *)
(*    is queued again when Reconcile returns.  Its worker takes requests   *)
(*    in order and calls Reconcile, which blocks on the shared, bounded    *)
(*    watcher channel;                                                     *)
(*  - the controller's own worker (Start), which receives requests from    *)
(*    the channel and runs processRequest: Get the object, evaluate the    *)
(*    pipeline, write each resulting delta to the target;                  *)
(*  - the pipeline engine (its base-view caches and emitted-view cache)    *)
(*    and the target writer, modelled from the specification since their  *)
(*    code is not part of this source tree.                                *)
(*                                                                         *)
(* An object is abstracted to its version: 0 is "absent", 1..MaxVersion   *)
(* are contents.  A view object is the composite of one object per source *)
(* kind that satisfies the join condition; its content is the tuple of    *)
(* the versions it was computed from.                                      *)
(***************************************************************************)
EXTENDS Integers, Sequences, FiniteSets

CONSTANTS
  Kinds,              \* the source kinds of the controller (config.Sources)
  Keys,               \* object identities (namespace/name)
  MaxVersion,         \* number of distinct contents an object can have
  WatcherBufferSize,  \* capacity of the watcher channel (1024 in the code)
  MaxChanges,         \* bound on the number of cluster changes
  MaxWriteFailures,   \* bound on the number of failed target writes
  JoinCond(_, _),     \* the @join condition on a composite and its contents
  ExprFails(_, _)     \* the pipeline's expressions fail on a composite

(* New's sanity checks: at least one source; the join condition stands   *)
(* for the @join a multi-source controller must have.                     *)
ASSUME ControllerAssumption ==
  /\ Kinds # {} /\ IsFiniteSet(Kinds)
  /\ Keys # {} /\ IsFiniteSet(Keys)
  /\ MaxVersion \in Nat \ {0}
  /\ WatcherBufferSize \in Nat \ {0}
  /\ MaxChanges \in Nat
  /\ MaxWriteFailures \in Nat

NoObject == 0
Tombstone == -1                 \* an object with identity only
Versions == 1..MaxVersion
ObjStates == {NoObject} \cup Versions

EventTypes == {"Added", "Updated", "Deleted"}
Requests == [kind : Kinds, key : Keys, type : EventTypes]
NoRequest == [none |-> TRUE]

Composites == [Kinds -> Keys]
Contents == [Kinds -> Versions \cup {Tombstone}]
NoView == [k \in Kinds |-> NoObject]   \* no view object
Views == [Composites -> Contents \cup {NoView}]
Deltas == [type : EventTypes, id : Composites, obj : Contents]

(* The join condition and the failure of an expression are predicates:  *)
(* an expression error is ExprFails, not a third value of the condition.  *)
ASSUME JoinCondBoolean ==
  \A c \in Composites, v \in [Kinds -> Versions] :
    JoinCond(c, v) \in BOOLEAN /\ ExprFails(c, v) \in BOOLEAN

VARIABLES
  cluster,      \* the objects of the source kinds, as the client's Get sees them
  inbox,        \* per kind: requests queued in the runtime controller
  reconciling,  \* per kind: the request a runtime worker is handing to Reconcile
  redo,         \* per kind: that request was added again while in Reconcile
  watcher,      \* c.watcher: the bounded request channel
  wpc,          \* the worker: "idle" in Start's select, "writing" deltas, "stopped"
  outbox,       \* the deltas of the current request not written yet
  base,         \* engine: the base-view cache of each source kind
  view,         \* engine: the emitted-view cache
  target,       \* the target objects as written
  ctxDone,      \* the context passed to Start is cancelled
  closed,       \* c.watcher has been closed
  panicked,     \* a send on the closed channel crashed the process
  changes,      \* number of cluster changes so far
  failures,     \* number of failed target writes so far
  failedIds,    \* history: the target objects whose write failed
  skipped       \* history: the composites whose last evaluation failed

vars == <<cluster, inbox, reconciling, redo, watcher, wpc, outbox, base,
          view, target, ctxDone, closed, panicked, changes, failures,
          failedIds, skipped>>
env == <<cluster, changes>>
engine == <<base, view>>

-----------------------------------------------------------------------------
(* The full evaluation of the pipeline on a state of the source caches:   *)
(* every composite whose members all exist and satisfy the join.          *)
FullView(st) ==
  [c \in Composites |->
     LET v == [k \in Kinds |-> st[k][c[k]]]
     IN  IF (\A k \in Kinds : v[k] # NoObject) /\ JoinCond(c, v)
         THEN v ELSE NoView]

(* Pipeline.Evaluate on a delta (kind k, key, type t, object obj): apply  *)
(* the delta to the base-view cache, re-evaluate the composites that     *)
(* contain the object, emit Deleted for those present before and absent  *)
(* after, and for those present after Added if new, else the input type. *)
NewBase(k, key, t, obj) ==
  [base EXCEPT ![k][key] = IF t = "Deleted" THEN NoObject ELSE obj]

Touched(k, key) == {c \in Composites : c[k] = key}

EvalDeltas(k, key, t, obj) ==
  LET nv     == FullView(NewBase(k, key, t, obj))
      before == {c \in Touched(k, key) : view[c] # NoView}
      after  == {c \in Touched(k, key) : nv[c] # NoView}
  IN  {[type |-> "Deleted", id |-> c, obj |-> view[c]] : c \in before \ after}
      \cup
      {[type |-> IF c \in before THEN t ELSE "Added", id |-> c, obj |-> nv[c]] :
         c \in after}

EvalView(k, key, t, obj) ==
  LET nv == FullView(NewBase(k, key, t, obj))
  IN  [c \in Composites |-> IF c \in Touched(k, key) THEN nv[c] ELSE view[c]]

(* Evaluate fails with an expression error on a composite the delta       *)
(* touches and whose members all exist after the delta is applied.       *)
EvaluateFails(k, key, t, obj) ==
  LET nb == NewBase(k, key, t, obj)
  IN  \E c \in Touched(k, key) :
        LET v == [kk \in Kinds |-> nb[kk][c[kk]]]
        IN  (\A kk \in Kinds : v[kk] # NoObject) /\ ExprFails(c, v)

(* Mutant: the writer stores the delta's object whatever its type, so a  *)
(* Deleted delta writes back the content the view object had.            *)
TargetWriteIgnoresType(d) == [target EXCEPT ![d.id] = d.obj]

(* target.Write: delete the projected identity, or create-or-update it.   *)
TargetWrite(d) ==
  [target EXCEPT ![d.id] = IF d.type = "Deleted" THEN NoView ELSE d.obj]

-----------------------------------------------------------------------------
(* The workqueue of kind k holds the Request r.                            *)
Queued(k, r) == \E i \in 1..Len(inbox[k]) : inbox[k][i] = r

(* The cluster changes and the watch event reaches the workqueue (Add): a *)
(* Request already queued is dropped, one being reconciled is marked to   *)
(* be queued again when it is done, any other is queued at the end.       *)
Emit(k, r) ==
  \/ /\ Queued(k, r)
     /\ UNCHANGED <<inbox, redo>>
  \/ /\ ~Queued(k, r)
     /\ reconciling[k] = r
     /\ redo' = [redo EXCEPT ![k] = TRUE]
     /\ UNCHANGED inbox
  \/ /\ ~Queued(k, r)
     /\ reconciling[k] # r
     /\ inbox' = [inbox EXCEPT ![k] = Append(@, r)]
     /\ UNCHANGED redo

CreateObject(k, key, v) ==
  /\ changes < MaxChanges
  /\ cluster[k][key] = NoObject
  /\ cluster' = [cluster EXCEPT ![k][key] = v]
  /\ changes' = changes + 1
  /\ Emit(k, [kind |-> k, key |-> key, type |-> "Added"])

UpdateObject(k, key, v) ==
  /\ changes < MaxChanges
  /\ cluster[k][key] \notin {NoObject, v}
  /\ cluster' = [cluster EXCEPT ![k][key] = v]
  /\ changes' = changes + 1
  /\ Emit(k, [kind |-> k, key |-> key, type |-> "Updated"])

DeleteObject(k, key) ==
  /\ changes < MaxChanges
  /\ cluster[k][key] # NoObject
  /\ cluster' = [cluster EXCEPT ![k][key] = NoObject]
  /\ changes' = changes + 1
  /\ Emit(k, [kind |-> k, key |-> key, type |-> "Deleted"])

Environment ==
  /\ \/ \E k \in Kinds, key \in Keys, v \in Versions : CreateObject(k, key, v)
     \/ \E k \in Kinds, key \in Keys, v \in Versions : UpdateObject(k, key, v)
     \/ \E k \in Kinds, key \in Keys : DeleteObject(k, key)
  /\ UNCHANGED <<reconciling, watcher, wpc, outbox, base, view, target,
                 ctxDone, closed, panicked, failures, failedIds, skipped>>

(* A runtime controller's worker takes the next request of its kind; it   *)
(* stops taking requests once the context is cancelled.                   *)
Dequeue(k) ==
  /\ ~ctxDone
  /\ reconciling[k] = NoRequest
  /\ inbox[k] # <<>>
  /\ reconciling' = [reconciling EXCEPT ![k] = Head(inbox[k])]
  /\ inbox' = [inbox EXCEPT ![k] = Tail(@)]
  /\ UNCHANGED <<env, redo, watcher, wpc, outbox, engine, target, ctxDone,
                 closed, panicked, failures, failedIds, skipped>>

-----------------------------------------------------------------------------
(* Reconcile has returned and the worker calls Done: the request is       *)
(* queued again if it was added while being reconciled.                   *)
Done(k) ==
  /\ reconciling' = [reconciling EXCEPT ![k] = NoRequest]
  /\ redo' = [redo EXCEPT ![k] = FALSE]
  /\ inbox' = IF redo[k] THEN [inbox EXCEPT ![k] = Append(@, reconciling[k])]
              ELSE inbox

(* Mutant: Reconcile sends without waiting for room in the channel.      *)
ReconcileUnbounded(k) ==
  /\ reconciling[k] # NoRequest
  /\ ~closed
  /\ watcher' = Append(watcher, reconciling[k])
  /\ Done(k)
  /\ UNCHANGED <<env, wpc, outbox, engine, target, ctxDone, closed,
                 panicked, failures, failedIds, skipped>>

(* ContrllerReconciler.Reconcile: r.watcher <- req, blocking while the    *)
(* channel is full.                                                        *)
Reconcile(k) ==
  /\ reconciling[k] # NoRequest
  /\ ~closed
  /\ Len(watcher) < WatcherBufferSize
  /\ watcher' = Append(watcher, reconciling[k])
  /\ Done(k)
  /\ UNCHANGED <<env, wpc, outbox, engine, target, ctxDone, closed,
                 panicked, failures, failedIds, skipped>>

(* The same send when Start has already closed the channel: Go panics.    *)
SendOnClosed(k) ==
  /\ reconciling[k] # NoRequest
  /\ closed
  /\ panicked' = TRUE
  /\ reconciling' = [reconciling EXCEPT ![k] = NoRequest]
  /\ UNCHANGED <<env, inbox, redo, watcher, wpc, outbox, engine, target,
                 ctxDone, closed, failures, failedIds, skipped>>

(* processRequest, first part: for Added/Updated/Replaced the object is   *)
(* fetched; for any other type the delta carries an identity-only object. *)
GetFails(r) ==
  /\ r.type \in {"Added", "Updated"}
  /\ cluster[r.kind][r.key] = NoObject

FetchedObject(r) ==
  IF r.type \in {"Added", "Updated"} THEN cluster[r.kind][r.key] ELSE Tombstone

(* Start receives a request; the Get fails ("object disappeared"), the    *)
(* error is logged and the loop goes on.                                   *)
ProcessGetFails ==
  /\ wpc = "idle"
  /\ watcher # <<>>
  /\ GetFails(Head(watcher))
  /\ watcher' = Tail(watcher)
  /\ UNCHANGED <<env, inbox, reconciling, redo, wpc, outbox, engine, target,
                 ctxDone, closed, panicked, failures, failedIds, skipped>>

(* Start receives a request, the object is fetched and the delta is       *)
(* evaluated by the pipeline; the deltas it returns are to be written.    *)
ProcessEvaluate ==
  /\ wpc = "idle"
  /\ watcher # <<>>
  /\ ~GetFails(Head(watcher))
  /\ LET r   == Head(watcher)
         obj == FetchedObject(r)
         out == EvalDeltas(r.kind, r.key, r.type, obj)
     IN  /\ ~EvaluateFails(r.kind, r.key, r.type, obj)
         /\ watcher' = Tail(watcher)
         /\ base' = NewBase(r.kind, r.key, r.type, obj)
         /\ view' = EvalView(r.kind, r.key, r.type, obj)
         /\ outbox' = out
         /\ wpc' = IF out = {} THEN "idle" ELSE "writing"
         /\ skipped' = skipped \ Touched(r.kind, r.key)
  /\ UNCHANGED <<env, inbox, reconciling, redo, target, ctxDone, closed,
                 panicked, failures, failedIds>>

(* Evaluate returns an error: processRequest returns it and no delta is   *)
(* written.  The engine has applied the delta to its base-view cache      *)
(* before the join (spec 4.2); its emitted-view cache is not updated.    *)
ProcessEvaluateFails ==
  /\ wpc = "idle"
  /\ watcher # <<>>
  /\ ~GetFails(Head(watcher))
  /\ LET r   == Head(watcher)
         obj == FetchedObject(r)
     IN  /\ EvaluateFails(r.kind, r.key, r.type, obj)
         /\ watcher' = Tail(watcher)
         /\ base' = NewBase(r.kind, r.key, r.type, obj)
         /\ skipped' = skipped \cup Touched(r.kind, r.key)
  /\ UNCHANGED <<env, inbox, reconciling, redo, wpc, outbox, view, target,
                 ctxDone, closed, panicked, failures, failedIds>>

(* The deltas are written one by one, deletes first (the pipeline's       *)
(* ordering of a fan-out); the order among the others is unspecified.     *)
NextToWrite(d) ==
  /\ d \in outbox
  /\ d.type = "Deleted" \/ \A e \in outbox : e.type # "Deleted"

(* Mutant: the write loop returns after the first delta.                 *)
WriteDeltaReturnsEarly(d) ==
  /\ wpc = "writing"
  /\ NextToWrite(d)
  /\ target' = TargetWrite(d)
  /\ outbox' = {}
  /\ wpc' = "idle"
  /\ UNCHANGED <<env, inbox, reconciling, redo, watcher, engine, ctxDone,
                 closed, panicked, failures, failedIds, skipped>>

WriteDelta(d) ==
  /\ wpc = "writing"
  /\ NextToWrite(d)
  /\ target' = TargetWrite(d)
  /\ outbox' = outbox \ {d}
  /\ wpc' = IF outbox \ {d} = {} THEN "idle" ELSE "writing"
  /\ UNCHANGED <<env, inbox, reconciling, redo, watcher, engine, ctxDone,
                 closed, panicked, failures, failedIds, skipped>>

(* target.Write fails: processRequest returns the error at once, so the   *)
(* deltas after this one are never written.                                *)
WriteFails(d) ==
  /\ wpc = "writing"
  /\ failures < MaxWriteFailures
  /\ NextToWrite(d)
  /\ outbox' = {}
  /\ wpc' = "idle"
  /\ failures' = failures + 1
  /\ failedIds' = failedIds \cup {d.id}
  /\ UNCHANGED <<env, inbox, reconciling, redo, watcher, engine, target,
                 ctxDone, closed, panicked, skipped>>

(* Shutdown: the manager cancels the context; Start's select may pick     *)
(* ctx.Done() whenever the worker is back in the loop, even with requests *)
(* still in the channel, and the deferred close(c.watcher) runs.          *)
Cancel ==
  /\ ~ctxDone
  /\ ctxDone' = TRUE
  /\ UNCHANGED <<env, inbox, reconciling, redo, watcher, wpc, outbox, engine,
                 target, closed, panicked, failures, failedIds, skipped>>

Stop ==
  /\ ctxDone
  /\ wpc = "idle"
  /\ wpc' = "stopped"
  /\ closed' = TRUE
  /\ UNCHANGED <<env, inbox, reconciling, redo, watcher, outbox, engine,
                 target, ctxDone, panicked, failures, failedIds, skipped>>

-----------------------------------------------------------------------------
(* New: an empty channel, empty engine caches; the cluster starts empty.  *)
Init ==
  /\ cluster = [k \in Kinds |-> [key \in Keys |-> NoObject]]
  /\ inbox = [k \in Kinds |-> <<>>]
  /\ reconciling = [k \in Kinds |-> NoRequest]
  /\ redo = [k \in Kinds |-> FALSE]
  /\ watcher = <<>>
  /\ wpc = "idle"
  /\ outbox = {}
  /\ base = [k \in Kinds |-> [key \in Keys |-> NoObject]]
  /\ view = [c \in Composites |-> NoView]
  /\ target = [c \in Composites |-> NoView]
  /\ ctxDone = FALSE
  /\ closed = FALSE
  /\ panicked = FALSE
  /\ changes = 0
  /\ failures = 0
  /\ failedIds = {}
  /\ skipped = {}

Controller ==
  \/ \E k \in Kinds : Dequeue(k)
  \/ \E k \in Kinds : Reconcile(k)
  \/ ProcessGetFails
  \/ ProcessEvaluate
  \/ ProcessEvaluateFails
  \/ \E d \in outbox : WriteDelta(d)
  \/ \E d \in outbox : WriteFails(d)

Next == Environment \/ Controller

Spec == Init /\ [][Next]_vars

(* The same system with the manager shutting the controller down.        *)
NextShutdown ==
  \/ Next
  \/ Cancel
  \/ Stop
  \/ \E k \in Kinds : SendOnClosed(k)

ShutdownSpec == Init /\ [][NextShutdown]_vars

-----------------------------------------------------------------------------
TypeOK ==
  /\ cluster \in [Kinds -> [Keys -> ObjStates]]
  /\ inbox \in [Kinds -> Seq(Requests)]
  /\ reconciling \in [Kinds -> Requests \cup {NoRequest}]
  /\ redo \in [Kinds -> BOOLEAN]
  /\ watcher \in Seq(Requests)
  /\ Len(watcher) <= WatcherBufferSize
  /\ wpc \in {"idle", "writing", "stopped"}
  /\ outbox \in SUBSET Deltas
  /\ base \in [Kinds -> [Keys -> ObjStates]]
  /\ view \in Views
  /\ target \in Views
  /\ ctxDone \in BOOLEAN /\ closed \in BOOLEAN /\ panicked \in BOOLEAN
  /\ changes \in 0..MaxChanges
  /\ failures \in 0..MaxWriteFailures
  /\ failedIds \subseteq Composites
  /\ skipped \subseteq Composites

(* Nothing is pending anywhere: every watch event has been handled.       *)
Quiescent ==
  /\ \A k \in Kinds : inbox[k] = <<>> /\ reconciling[k] = NoRequest
  /\ watcher = <<>>
  /\ wpc = "idle"

(* Once every request is handled, the engine's base-view caches hold      *)
(* exactly the cluster's objects, although each request carries only an   *)
(* identity and an event type and processRequest fetches the object       *)
(* later, when it may have changed again or gone (the Get for             *)
(* Added/Updated and the identity-only tombstone of a Deleted request),  *)
(* and although the workqueue coalesces equal Requests.                   *)
BaseTracksCluster == Quiescent => base = cluster

(* When every request is handled and no write has failed, the target     *)
(* holds the full evaluation of the pipeline on the engine's base-view   *)
(* caches at every composite whose last evaluation did not fail: the      *)
(* deltas, computed incrementally against the emitted-view cache, are all *)
(* written, and a composite left stale by an Evaluate error (whose deltas *)
(* processRequest drops, spec 7.2) is repaired by the next request that   *)
(* touches it, although the emitted-view cache it is compared with is     *)
(* stale.                                                                  *)
TargetConverges ==
  Quiescent /\ failures = 0 =>
    \A c \in Composites \ skipped : target[c] = FullView(base)[c]

(* A failed target write loses that write only (spec 4.5: errors are     *)
(* reported but do not abort the remaining writes): once everything is    *)
(* handled, the target differs from the full evaluation of the base-view  *)
(* caches, outside the composites an Evaluate error skipped, only at      *)
(* objects whose write failed.                                             *)
WriteFailureIsolated ==
  Quiescent =>
    \A c \in Composites \ skipped :
      target[c] # FullView(base)[c] => c \in failedIds

(* The controller implements the engine contract (EngineContract): every *)
(* step changes one cluster object, makes the base cache adopt one object *)
(* as the cluster holds it at that moment or as gone, writes to the target *)
(* one view object's full evaluation on the current base cache, or leaves *)
(* all three alone.  processRequest's deltas, computed incrementally and  *)
(* written one by one after the Get, are never stale when written.        *)
EC == INSTANCE EngineContract WITH cluster <- cluster, base <- base, target <- target

EngineRefinement == EC!Spec

(* Shutting the controller down never sends on a closed channel (spec     *)
(* 5: inbound events after cancellation are dropped).                     *)
NoSendOnClosedChannel == ~panicked

(* When the worker exits, the channel has been drained (spec 4.5: after  *)
(* shutdown the worker drains and exits).                                 *)
WorkerDrainsOnShutdown == wpc = "stopped" => watcher = <<>>
=============================================================================
