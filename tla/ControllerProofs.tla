--------------------------- MODULE ControllerProofs ---------------------------
(***************************************************************************)
(* Proofs about the controller loop, for every set of kinds and keys,     *)
(* every join condition and expression failure, channel capacity and     *)
(* bound: the state keeps its types; once every request is handled and   *)
(* no write has failed, the target holds the full evaluation of the      *)
(* engine's base caches outside the composites whose evaluation failed;   *)
(* and the controller implements the engine's contract.                   *)
(***************************************************************************)
EXTENDS Controller, SequenceTheorems, TLAPS

USE ControllerAssumption, JoinCondBoolean

BaseStates == [Kinds -> [Keys -> ObjStates]]

-----------------------------------------------------------------------------
(* The full evaluation of the pipeline on well-typed caches is a view.    *)
LEMMA FullViewType ==
  ASSUME NEW st \in BaseStates
  PROVE  FullView(st) \in Views
<1> SUFFICES ASSUME NEW c \in Composites
             PROVE  FullView(st)[c] \in Contents \cup {NoView}
  BY DEF FullView, Views
<1> DEFINE v == [k \in Kinds |-> st[k][c[k]]]
<1>1. v \in [Kinds -> ObjStates]
  BY DEF BaseStates, Composites
<1>2. (\A k \in Kinds : v[k] # NoObject) => v \in Contents
  BY <1>1 DEF Contents, ObjStates, NoObject, Versions
<1>3. QED
  BY <1>2 DEF FullView, NoView

(* Applying a delta to a base-view cache keeps it well typed.             *)
LEMMA NewBaseType ==
  ASSUME base \in BaseStates, NEW k \in Kinds, NEW key \in Keys,
         NEW t \in EventTypes, NEW obj,
         t = "Deleted" \/ obj \in ObjStates
  PROVE  NewBase(k, key, t, obj) \in BaseStates
BY DEF NewBase, BaseStates, ObjStates, NoObject

(* The emitted-view cache after an evaluation is a view.                   *)
LEMMA EvalViewType ==
  ASSUME base \in BaseStates, view \in Views, NEW k \in Kinds, NEW key \in Keys,
         NEW t \in EventTypes, NEW obj,
         t = "Deleted" \/ obj \in ObjStates
  PROVE  EvalView(k, key, t, obj) \in Views
<1>1. FullView(NewBase(k, key, t, obj)) \in Views
  BY NewBaseType, FullViewType
<1>2. QED
  BY <1>1 DEF EvalView, Views

(* Every delta the pipeline returns is a delta on a composite.            *)
LEMMA EvalDeltasType ==
  ASSUME base \in BaseStates, view \in Views, NEW k \in Kinds, NEW key \in Keys,
         NEW t \in EventTypes, NEW obj,
         t = "Deleted" \/ obj \in ObjStates
  PROVE  EvalDeltas(k, key, t, obj) \subseteq Deltas
<1>1. FullView(NewBase(k, key, t, obj)) \in Views
  BY NewBaseType, FullViewType
<1>2. QED
  BY <1>1 DEF EvalDeltas, Deltas, Views, Touched, EventTypes

(* Writing a delta keeps the target a view.                                *)
LEMMA TargetWriteType ==
  ASSUME target \in Views, NEW d \in Deltas
  PROVE  TargetWrite(d) \in Views
BY DEF TargetWrite, Views, Deltas

(* The object a request is processed with: the fetched one for Added and  *)
(* Updated, the identity-only tombstone for Deleted.                       *)
LEMMA FetchedObjectType ==
  ASSUME cluster \in BaseStates, NEW r \in Requests
  PROVE  r.type = "Deleted" \/ FetchedObject(r) \in ObjStates
BY DEF FetchedObject, Requests, EventTypes, BaseStates

-----------------------------------------------------------------------------
LEMMA InitTypeOK == Init => TypeOK
<1> SUFFICES ASSUME Init PROVE TypeOK
  OBVIOUS
<1>1. <<>> \in Seq(Requests) /\ Len(<<>>) = 0
  BY EmptySeq
<1>2. [c \in Composites |-> NoView] \in Views
      /\ [k \in Kinds |-> FALSE] \in [Kinds -> BOOLEAN]
  BY DEF Views
<1>3. ctxDone \in BOOLEAN /\ closed \in BOOLEAN /\ panicked \in BOOLEAN
  BY Zenon DEF Init
<1>4. QED
  BY <1>1, <1>2, <1>3 DEF Init, TypeOK, ObjStates, NoObject

(* A cluster change keeps the types; it appends a request to its inbox.  *)
LEMMA EnvironmentTypeOK == TypeOK /\ Environment => TypeOK'
<1> SUFFICES ASSUME TypeOK, Environment PROVE TypeOK'
  OBVIOUS
<1>1. ASSUME NEW k \in Kinds, NEW key \in Keys, NEW x \in ObjStates,
             NEW t \in EventTypes,
             changes < MaxChanges,
             cluster' = [cluster EXCEPT ![k][key] = x],
             changes' = changes + 1,
             Emit(k, [kind |-> k, key |-> key, type |-> t])
      PROVE  TypeOK'
  <2>1. [kind |-> k, key |-> key, type |-> t] \in Requests
    BY DEF Requests
  <2> DEFINE r == [kind |-> k, key |-> key, type |-> t]
  <2>2. inbox' \in [Kinds -> Seq(Requests)] /\ redo' \in [Kinds -> BOOLEAN]
    <3>1. CASE UNCHANGED <<inbox, redo>>
      BY <3>1 DEF TypeOK
    <3>2. CASE redo' = [redo EXCEPT ![k] = TRUE] /\ UNCHANGED inbox
      BY <3>2 DEF TypeOK
    <3>3. CASE inbox' = [inbox EXCEPT ![k] = Append(@, r)] /\ UNCHANGED redo
      <4>1. Append(inbox[k], r) \in Seq(Requests)
        BY <2>1, AppendProperties DEF TypeOK
      <4>2. QED
        BY <3>3, <4>1 DEF TypeOK
    <3>4. QED
      BY <1>1, <3>1, <3>2, <3>3 DEF Emit
  <2>3. cluster' \in [Kinds -> [Keys -> ObjStates]] /\ changes' \in 0..MaxChanges
    BY <1>1 DEF TypeOK
  <2>4. QED
    BY <2>2, <2>3 DEF Environment, TypeOK
<1>2. QED
  BY <1>1 DEF Environment, CreateObject, UpdateObject, DeleteObject, EventTypes,
             ObjStates, Versions, NoObject

LEMMA NextTypeOK == TypeOK /\ [Next]_vars => TypeOK'
<1> SUFFICES ASSUME TypeOK, [Next]_vars PROVE TypeOK'
  OBVIOUS
<1>1. CASE Environment
  BY <1>1, EnvironmentTypeOK
<1>2. ASSUME NEW k \in Kinds, Dequeue(k) PROVE TypeOK'
  <2>1. inbox[k] \in Seq(Requests) /\ inbox[k] # <<>>
    BY <1>2 DEF Dequeue, TypeOK
  <2>2. Head(inbox[k]) \in Requests /\ Tail(inbox[k]) \in Seq(Requests)
    BY <2>1, HeadTailProperties
  <2>3. QED
    BY <1>2, <2>2 DEF Dequeue, TypeOK, env, engine
<1>3. ASSUME NEW k \in Kinds, Reconcile(k) PROVE TypeOK'
  <2>1. reconciling[k] \in Requests
    BY <1>3 DEF Reconcile, TypeOK
  <2>2. watcher' \in Seq(Requests) /\ Len(watcher') <= WatcherBufferSize
    BY <1>3, <2>1, AppendProperties DEF Reconcile, TypeOK
  <2>3. inbox' \in [Kinds -> Seq(Requests)] /\ redo' \in [Kinds -> BOOLEAN]
        /\ reconciling' \in [Kinds -> Requests \cup {NoRequest}]
    BY <1>3, <2>1, AppendProperties DEF Reconcile, Done, TypeOK
  <2>4. QED
    BY <1>3, <2>2, <2>3 DEF Reconcile, TypeOK, env, engine
<1>4. CASE ProcessGetFails
  <2>1. watcher' \in Seq(Requests) /\ Len(watcher') <= WatcherBufferSize
    BY <1>4, HeadTailProperties DEF ProcessGetFails, TypeOK
  <2>2. QED
    BY <1>4, <2>1 DEF ProcessGetFails, TypeOK, env, engine
<1>5. CASE ProcessEvaluate
  <2> DEFINE r == Head(watcher)
             obj == FetchedObject(r)
  <2>1. r \in Requests /\ Tail(watcher) \in Seq(Requests)
        /\ Len(Tail(watcher)) <= WatcherBufferSize
    BY <1>5, HeadTailProperties DEF ProcessEvaluate, TypeOK
  <2>2. r.type = "Deleted" \/ obj \in ObjStates
    BY <2>1, FetchedObjectType DEF TypeOK, BaseStates
  <2>3. r.kind \in Kinds /\ r.key \in Keys /\ r.type \in EventTypes
    BY <2>1 DEF Requests
  <2>4. /\ NewBase(r.kind, r.key, r.type, obj) \in BaseStates
        /\ EvalView(r.kind, r.key, r.type, obj) \in Views
        /\ EvalDeltas(r.kind, r.key, r.type, obj) \subseteq Deltas
    BY <2>2, <2>3, NewBaseType, EvalViewType, EvalDeltasType DEF TypeOK, BaseStates
  <2>5. QED
    BY <1>5, <2>1, <2>4 DEF ProcessEvaluate, TypeOK, BaseStates, env
<1>9. CASE ProcessEvaluateFails
  <2> DEFINE r == Head(watcher)
             obj == FetchedObject(r)
  <2>1. r \in Requests /\ Tail(watcher) \in Seq(Requests)
        /\ Len(Tail(watcher)) <= WatcherBufferSize
    BY <1>9, HeadTailProperties DEF ProcessEvaluateFails, TypeOK
  <2>2. r.type = "Deleted" \/ obj \in ObjStates
    BY <2>1, FetchedObjectType DEF TypeOK, BaseStates
  <2>3. r.kind \in Kinds /\ r.key \in Keys /\ r.type \in EventTypes
    BY <2>1 DEF Requests
  <2>4. NewBase(r.kind, r.key, r.type, obj) \in BaseStates
    BY <2>2, <2>3, NewBaseType DEF TypeOK, BaseStates
  <2>5. Touched(r.kind, r.key) \subseteq Composites
    BY DEF Touched
  <2>6. QED
    BY <1>9, <2>1, <2>4, <2>5 DEF ProcessEvaluateFails, TypeOK, BaseStates, env
<1>6. ASSUME NEW d \in outbox, WriteDelta(d) PROVE TypeOK'
  <2>1. d \in Deltas
    BY DEF TypeOK
  <2>2. TargetWrite(d) \in Views
    BY <2>1, TargetWriteType DEF TypeOK
  <2>3. QED
    BY <1>6, <2>2 DEF WriteDelta, TypeOK, env, engine
<1>7. ASSUME NEW d \in outbox, WriteFails(d) PROVE TypeOK'
  <2>1. d.id \in Composites
    BY DEF TypeOK, Deltas
  <2>2. QED
    BY <1>7, <2>1 DEF WriteFails, TypeOK, env, engine
<1>8. CASE UNCHANGED vars
  BY <1>8 DEF vars, TypeOK
<1>10. QED
  BY <1>1, <1>2, <1>3, <1>4, <1>5, <1>6, <1>7, <1>8, <1>9 DEF Next, Controller

(* Every step of the controller and of its environment keeps the state    *)
(* well typed: the channel never holds more than WatcherBufferSize        *)
(* requests, the pipeline returns only deltas on composites and the      *)
(* writes keep the target a view.                                          *)
THEOREM TypeCorrect == Spec => []TypeOK
BY InitTypeOK, NextTypeOK, PTL DEF Spec

-----------------------------------------------------------------------------
(* TargetConverges.  Outside the composites whose last evaluation failed, *)
(* the emitted-view cache is the full evaluation of the base caches; the  *)
(* worker is idle only with nothing left to write; every pending delta is *)
(* on a composite whose evaluation succeeded; and while no write has      *)
(* failed, the target differs from the emitted view only at composites a  *)
(* pending delta will write, each with the view's value.                  *)
OutIds == {d.id : d \in outbox}

ViewIsFull == \A c \in Composites \ skipped : view[c] = FullView(base)[c]

IdleEmpty == wpc = "idle" => outbox = {}

WritesPending ==
  /\ failures = 0 => \A c \in Composites \ OutIds : target[c] = view[c]
  /\ \A d \in outbox :
       (IF d.type = "Deleted" THEN NoView ELSE d.obj) = view[d.id]

PendingEvaluated == \A d \in outbox : d.id \notin skipped

TInv == TypeOK /\ ViewIsFull /\ IdleEmpty /\ WritesPending /\ PendingEvaluated

(* Evaluating a delta on object <<k, key>> changes the full evaluation    *)
(* only at the composites that contain the object.                        *)
LEMMA FullViewLocal ==
  ASSUME base \in BaseStates, NEW k \in Kinds, NEW key \in Keys, NEW t, NEW obj,
         NEW c \in Composites \ Touched(k, key)
  PROVE  FullView(NewBase(k, key, t, obj))[c] = FullView(base)[c]
<1>1. [k2 \in Kinds |-> NewBase(k, key, t, obj)[k2][c[k2]]]
        = [k2 \in Kinds |-> base[k2][c[k2]]]
  BY DEF NewBase, Touched, BaseStates, Composites
<1>2. QED
  BY <1>1 DEF FullView

(* After a Deleted, no composite containing the object is in the view.    *)
LEMMA FullViewDeleted ==
  ASSUME base \in BaseStates, NEW k \in Kinds, NEW key \in Keys, NEW obj,
         NEW c \in Touched(k, key)
  PROVE  FullView(NewBase(k, key, "Deleted", obj))[c] = NoView
<1>1. NewBase(k, key, "Deleted", obj)[k][c[k]] = NoObject
  BY DEF NewBase, Touched, BaseStates, Composites
<1>2. QED
  BY <1>1 DEF FullView, Touched, Composites

(* The emitted-view cache Evaluate leaves is the full evaluation of the    *)
(* base cache it leaves, at the composites it re-evaluates and at those   *)
(* it leaves alone whose evaluation had not failed.                        *)
LEMMA EvalViewFull ==
  ASSUME base \in BaseStates, ViewIsFull, NEW k \in Kinds, NEW key \in Keys,
         NEW t, NEW obj, NEW c \in Composites \ (skipped \ Touched(k, key))
  PROVE  EvalView(k, key, t, obj)[c] = FullView(NewBase(k, key, t, obj))[c]
<1>1. CASE c \in Touched(k, key)
  BY <1>1 DEF EvalView
<1>2. CASE c \notin Touched(k, key)
  <2>1. EvalView(k, key, t, obj)[c] = view[c]
    BY <1>2 DEF EvalView
  <2>2. view[c] = FullView(base)[c]
    BY <1>2 DEF ViewIsFull
  <2>3. QED
    BY <1>2, <2>1, <2>2, FullViewLocal
<1>3. QED
  BY <1>1, <1>2

(* processRequest starts from a target equal to the view; the deltas the  *)
(* pipeline returns are exactly the composites whose view changes, each   *)
(* carrying the new value (a Deleted one when it leaves the view).       *)
LEMMA EvaluateWrites ==
  ASSUME TypeOK, ViewIsFull, IdleEmpty, WritesPending, PendingEvaluated,
         ProcessEvaluate
  PROVE  ViewIsFull' /\ IdleEmpty' /\ WritesPending' /\ PendingEvaluated'
<1> DEFINE r      == Head(watcher)
           k      == r.kind
           key    == r.key
           t      == r.type
           obj    == FetchedObject(r)
           nv     == FullView(NewBase(k, key, t, obj))
           before == {c \in Touched(k, key) : view[c] # NoView}
           after  == {c \in Touched(k, key) : nv[c] # NoView}
           out    == EvalDeltas(k, key, t, obj)
<1>1. /\ r \in Requests /\ k \in Kinds /\ key \in Keys /\ t \in EventTypes
      /\ base \in BaseStates
  <2>1. r \in Requests
    BY HeadTailProperties DEF ProcessEvaluate, TypeOK
  <2>2. QED
    BY <2>1 DEF Requests, TypeOK, BaseStates
<1>2. /\ base' = NewBase(k, key, t, obj)
      /\ view' = EvalView(k, key, t, obj)
      /\ outbox' = out
      /\ wpc' = IF out = {} THEN "idle" ELSE "writing"
      /\ skipped' = skipped \ Touched(k, key)
      /\ UNCHANGED <<target, failures>>
      /\ wpc = "idle"
  BY DEF ProcessEvaluate
<1>3. \A c \in Touched(k, key) : view'[c] = nv[c]
  BY <1>2 DEF EvalView, Touched
<1>4. ViewIsFull' /\ IdleEmpty'
  <2>1. ASSUME NEW c \in Composites \ skipped'
        PROVE  view'[c] = FullView(base')[c]
    BY <1>1, <1>2, <2>1, EvalViewFull
  <2>2. QED
    BY <1>2, <2>1 DEF ViewIsFull, IdleEmpty
<1>5. ASSUME NEW c \in Touched(k, key), t = "Deleted" PROVE nv[c] = NoView
  BY <1>1, <1>5, FullViewDeleted
<1>6. \A d \in out : d.id \in Touched(k, key)
  BY DEF EvalDeltas
<1>7. ASSUME NEW d \in out
      PROVE  (IF d.type = "Deleted" THEN NoView ELSE d.obj) = view'[d.id]
  <2>1. CASE \E c \in before \ after :
               d = [type |-> "Deleted", id |-> c, obj |-> view[c]]
    <3>1. PICK c \in before \ after :
               d = [type |-> "Deleted", id |-> c, obj |-> view[c]]
      BY <2>1
    <3>2. nv[c] = NoView
      BY <3>1
    <3>3. QED
      BY <1>3, <3>1, <3>2
  <2>2. CASE \E c \in after :
               d = [type |-> IF c \in before THEN t ELSE "Added", id |-> c,
                    obj |-> nv[c]]
    <3>1. PICK c \in after :
               d = [type |-> IF c \in before THEN t ELSE "Added", id |-> c,
                    obj |-> nv[c]]
      BY <2>2
    <3>2. d.type # "Deleted"
      BY <3>1, <1>5
    <3>3. QED
      BY <1>3, <3>1, <3>2
  <2>3. QED
    BY <2>1, <2>2 DEF EvalDeltas
<1>8. ASSUME failures' = 0
      PROVE  \A c \in Composites \ {d.id : d \in out} : target'[c] = view'[c]
  <2>1. \A c \in Composites : target[c] = view[c]
    BY <1>2, <1>8 DEF IdleEmpty, WritesPending, OutIds
  <2>2. ASSUME NEW c \in Composites \ {d.id : d \in out}
        PROVE  target'[c] = view'[c]
    <3>1. CASE c \in Touched(k, key)
      <4>1. c \notin before \ after /\ c \notin after
        <5>1. c \in before \ after
                => [type |-> "Deleted", id |-> c, obj |-> view[c]] \in out
          BY DEF EvalDeltas
        <5>2. c \in after
                => [type |-> IF c \in before THEN t ELSE "Added", id |-> c,
                    obj |-> nv[c]] \in out
          BY DEF EvalDeltas
        <5>3. QED
          BY <2>2, <5>1, <5>2
      <4>2. view[c] = NoView /\ nv[c] = NoView
        BY <3>1, <4>1
      <4>3. QED
        BY <1>2, <1>3, <2>1, <3>1, <4>2
    <3>2. CASE c \notin Touched(k, key)
      BY <1>2, <2>1, <3>2 DEF EvalView
    <3>3. QED
      BY <3>1, <3>2
  <2>3. QED
    BY <2>2
<1>9. PendingEvaluated'
  BY <1>2, <1>6 DEF PendingEvaluated
<1>10. QED
  BY <1>2, <1>4, <1>7, <1>8, <1>9 DEF WritesPending, OutIds

(* Evaluate fails: the base caches change only at the composites the      *)
(* delta touches, which are recorded as failed; nothing is to be written. *)
LEMMA EvaluateFailsKeeps ==
  ASSUME TypeOK, ViewIsFull, IdleEmpty, WritesPending, PendingEvaluated,
         ProcessEvaluateFails
  PROVE  ViewIsFull' /\ IdleEmpty' /\ WritesPending' /\ PendingEvaluated'
<1> DEFINE r   == Head(watcher)
           obj == FetchedObject(r)
<1>1. r \in Requests /\ base \in BaseStates
  BY HeadTailProperties DEF ProcessEvaluateFails, TypeOK, BaseStates
<1>2. /\ base' = NewBase(r.kind, r.key, r.type, obj)
      /\ skipped' = skipped \cup Touched(r.kind, r.key)
      /\ UNCHANGED <<view, target, outbox, wpc, failures>>
      /\ wpc = "idle"
  BY DEF ProcessEvaluateFails
<1>3. ASSUME NEW c \in Composites \ skipped'
      PROVE  view'[c] = FullView(base')[c]
  <2>1. c \notin Touched(r.kind, r.key) /\ c \notin skipped
    BY <1>2
  <2>2. QED
    BY <1>1, <1>2, <2>1, FullViewLocal DEF ViewIsFull, Requests
<1>4. outbox = {}
  BY <1>2 DEF IdleEmpty
<1>5. QED
  BY <1>2, <1>3, <1>4 DEF ViewIsFull, IdleEmpty, WritesPending,
                          PendingEvaluated, OutIds

(* Writing a pending delta makes the target agree with the view there.    *)
LEMMA WriteDeltaWrites ==
  ASSUME TypeOK, ViewIsFull, IdleEmpty, WritesPending, PendingEvaluated,
         NEW d \in outbox, WriteDelta(d)
  PROVE  ViewIsFull' /\ IdleEmpty' /\ WritesPending' /\ PendingEvaluated'
<1>1. /\ target' = [target EXCEPT ![d.id] = IF d.type = "Deleted" THEN NoView ELSE d.obj]
      /\ outbox' = outbox \ {d}
      /\ wpc' = IF outbox \ {d} = {} THEN "idle" ELSE "writing"
      /\ UNCHANGED <<base, view, failures, skipped>>
  BY DEF WriteDelta, TargetWrite, engine
<1>2. d.id \in Composites /\ target \in [Composites -> Contents \cup {NoView}]
  BY DEF TypeOK, Deltas, Views
<1>3. ViewIsFull' /\ IdleEmpty' /\ PendingEvaluated'
  BY <1>1 DEF ViewIsFull, IdleEmpty, PendingEvaluated
<1>4. ASSUME failures' = 0
      PROVE  \A c \in Composites \ {e.id : e \in outbox'} : target'[c] = view'[c]
  <2>1. ASSUME NEW c \in Composites \ {e.id : e \in outbox'}
        PROVE  target'[c] = view'[c]
    <3>1. CASE c = d.id
      BY <1>1, <1>2, <1>4, <3>1 DEF WritesPending
    <3>2. CASE c # d.id
      <4>1. c \notin OutIds
        BY <1>1, <2>1, <3>2 DEF OutIds
      <4>2. QED
        BY <1>1, <1>2, <1>4, <3>2, <4>1 DEF WritesPending
    <3>3. QED
      BY <3>1, <3>2
  <2>2. QED
    BY <2>1
<1>5. \A e \in outbox' : (IF e.type = "Deleted" THEN NoView ELSE e.obj) = view'[e.id]
  BY <1>1 DEF WritesPending
<1>6. QED
  BY <1>3, <1>4, <1>5 DEF WritesPending, OutIds

LEMMA InitTInv == Init => TInv
<1> SUFFICES ASSUME Init PROVE TInv
  OBVIOUS
<1>1. TypeOK
  BY InitTypeOK
<1>2. ASSUME NEW c \in Composites PROVE FullView(base)[c] = NoView
  <2>1. PICK k \in Kinds : TRUE
    BY ControllerAssumption
  <2>2. base[k][c[k]] = NoObject
    BY DEF Init, Composites
  <2>3. QED
    BY <2>2 DEF FullView
<1>3. ViewIsFull
  BY <1>2 DEF Init, ViewIsFull
<1>4. IdleEmpty /\ WritesPending /\ PendingEvaluated
  BY DEF Init, IdleEmpty, WritesPending, PendingEvaluated
<1>5. QED
  BY <1>1, <1>3, <1>4 DEF TInv

LEMMA NextTInv == TInv /\ [Next]_vars => TInv'
<1> SUFFICES ASSUME TInv, [Next]_vars PROVE TInv'
  OBVIOUS
<1>0. TypeOK /\ TypeOK'
  BY NextTypeOK DEF TInv
<1> DEFINE Frozen == UNCHANGED <<base, view, outbox, wpc, target, failures, skipped>>
<1>1. Frozen => (ViewIsFull /\ IdleEmpty /\ WritesPending /\ PendingEvaluated)'
  BY DEF TInv, ViewIsFull, IdleEmpty, WritesPending, PendingEvaluated, OutIds
<1>2. CASE Environment \/ (\E k \in Kinds : Dequeue(k) \/ Reconcile(k))
           \/ ProcessGetFails \/ UNCHANGED vars
  <2>1. Frozen
    BY <1>2 DEF Environment, Dequeue, Reconcile, ProcessGetFails, engine, vars
  <2>2. QED
    BY <1>0, <1>1, <2>1 DEF TInv
<1>3. CASE ProcessEvaluate
  BY <1>0, <1>3, EvaluateWrites DEF TInv
<1>4. CASE ProcessEvaluateFails
  BY <1>0, <1>4, EvaluateFailsKeeps DEF TInv
<1>5. CASE \E d \in outbox : WriteDelta(d)
  BY <1>0, <1>5, WriteDeltaWrites DEF TInv
<1>6. CASE \E d \in outbox : WriteFails(d)
  <2>1. failures' # 0 /\ outbox' = {} /\ UNCHANGED <<base, view, skipped>>
    BY <1>0, <1>6 DEF WriteFails, TypeOK, engine
  <2>2. QED
    BY <1>0, <2>1 DEF TInv, ViewIsFull, IdleEmpty, WritesPending, PendingEvaluated
<1>7. QED
  BY <1>2, <1>3, <1>4, <1>5, <1>6 DEF Next, Controller

LEMMA TInvConverges == TInv => TargetConverges
<1> SUFFICES ASSUME TInv, Quiescent, failures = 0,
                    NEW c \in Composites \ skipped
             PROVE  target[c] = FullView(base)[c]
  BY DEF TargetConverges
<1>1. target[c] = view[c]
  BY DEF TInv, Quiescent, IdleEmpty, WritesPending, OutIds
<1>2. QED
  BY <1>1 DEF TInv, ViewIsFull

(* TargetConverges for every instance: once every request is handled and *)
(* no write has failed, the target holds the engine's full evaluation of *)
(* its base caches at every composite whose last evaluation did not fail, *)
(* although Evaluate sees only one changed object per request, a failed   *)
(* Evaluate leaves the base caches updated and its deltas unwritten, and  *)
(* the deltas are written one at a time.                                   *)
THEOREM TargetConvergesHolds == Spec => []TargetConverges
<1>1. Init => TInv
  BY InitTInv
<1>2. TInv /\ [Next]_vars => TInv'
  BY NextTInv
<1>3. TInv => TargetConverges
  BY TInvConverges
<1>4. QED
  BY <1>1, <1>2, <1>3, PTL DEF Spec
-----------------------------------------------------------------------------
(* EngineRefinement: the controller implements EngineContract under the  *)
(* identity mapping on cluster, base and target.  The contract's full     *)
(* evaluation is the controller's.                                        *)
LEMMA FullViewIsContract ==
  ASSUME NEW st PROVE FullView(st) = EC!FullView(st)
  BY DEF FullView, EC!FullView, Composites, EC!Composites, NoView, EC!NoView,
         NoObject, EC!NoObject

(* New starts from the contract's initial state.                          *)
LEMMA InitRefines == Init => EC!Init
  BY DEF Init, EC!Init, Composites, EC!Composites, NoView, EC!NoView,
         NoObject, EC!NoObject

(* An object state of the controller is one of the contract's.            *)
LEMMA ObjStatesContract == ObjStates = EC!ObjStates
  BY ControllerAssumption DEF ObjStates, Versions, NoObject, EC!ObjStates

(* Every step of the controller is a step of the contract or leaves       *)
(* cluster, base and target alone.  ProcessEvaluate adopts the object the *)
(* Get returned, which is the cluster's, or its absence, also when the    *)
(* evaluation then fails; WriteDelta                                      *)
(* writes the full evaluation of the current base, by WritesPending,     *)
(* PendingEvaluated and ViewIsFull.                                        *)
LEMMA NextRefines == TInv /\ [Next]_vars => [EC!Next]_EC!vars
<1> SUFFICES ASSUME TInv, [Next]_vars PROVE [EC!Next]_EC!vars
  OBVIOUS
<1>1. TypeOK
  BY DEF TInv
<1>2. CASE Environment
  <2>1. PICK k \in Kinds, key \in Keys, v \in ObjStates :
               cluster' = [cluster EXCEPT ![k][key] = v]
    BY <1>2 DEF Environment, CreateObject, UpdateObject, DeleteObject, ObjStates
  <2>2. UNCHANGED <<base, target>>
    BY <1>2 DEF Environment
  <2>3. EC!Change(k, key, v)
    BY <2>1, <2>2 DEF EC!Change
  <2>4. QED
    BY <2>3, ObjStatesContract DEF EC!Next
<1>3. CASE \/ \E k \in Kinds : Dequeue(k) \/ Reconcile(k)
           \/ ProcessGetFails
           \/ \E d \in outbox : WriteFails(d)
           \/ UNCHANGED vars
  BY <1>3 DEF Dequeue, Reconcile, ProcessGetFails, WriteFails, env, engine,
              vars, EC!vars
<1>4. CASE ProcessEvaluate \/ ProcessEvaluateFails
  <2> DEFINE r   == Head(watcher)
             obj == FetchedObject(r)
             v   == IF r.type = "Deleted" THEN NoObject ELSE obj
  <2>1. r \in Requests
    BY <1>1, <1>4, HeadTailProperties DEF ProcessEvaluate, ProcessEvaluateFails,
                                          TypeOK
  <2>2. base' = [base EXCEPT ![r.kind][r.key] = v]
    BY <1>4 DEF ProcessEvaluate, ProcessEvaluateFails, NewBase
  <2>3. UNCHANGED <<cluster, target>>
    BY <1>4 DEF ProcessEvaluate, ProcessEvaluateFails, env
  <2>4. v \in {NoObject, cluster[r.kind][r.key]}
    BY <2>1 DEF FetchedObject, Requests, EventTypes
  <2>5. v \in ObjStates
    BY <1>1, <2>1, <2>4 DEF TypeOK, Requests, ObjStates
  <2>6. EC!Adopt(r.kind, r.key, v)
    BY <2>2, <2>3, <2>4 DEF EC!Adopt, NoObject, EC!NoObject
  <2>7. QED
    BY <2>1, <2>5, <2>6, ObjStatesContract DEF EC!Next, Requests
<1>5. CASE \E d \in outbox : WriteDelta(d)
  <2>1. PICK d \in outbox : WriteDelta(d)
    BY <1>5
  <2>2. d.id \in Composites
    BY <1>1 DEF TypeOK, Deltas
  <2>3. (IF d.type = "Deleted" THEN NoView ELSE d.obj) = FullView(base)[d.id]
    BY <2>2 DEF TInv, WritesPending, ViewIsFull, PendingEvaluated
  <2>4. target' = [target EXCEPT ![d.id] = EC!FullView(base)[d.id]]
    BY <2>1, <2>3, FullViewIsContract DEF WriteDelta, TargetWrite
  <2>5. UNCHANGED <<cluster, base>>
    BY <2>1 DEF WriteDelta, env, engine
  <2>6. QED
    BY <2>2, <2>4, <2>5 DEF EC!Publish, EC!Next, Composites, EC!Composites
<1>6. QED
  BY <1>2, <1>3, <1>4, <1>5 DEF Next, Controller

(* EngineRefinement for every instance: whatever the interleaving of the  *)
(* runtime workers, the channel and the controller's worker, the engine  *)
(* only ever adopts an object as the cluster holds it or as gone, and the *)
(* target only ever receives the full evaluation of the current base,     *)
(* also after a failed write.                                              *)
THEOREM EngineRefinementHolds == Spec => EngineRefinement
<1>1. Init => TInv
  BY InitTInv
<1>2. TInv /\ [Next]_vars => TInv'
  BY NextTInv
<1>3. Init => EC!Init
  BY InitRefines
<1>4. TInv /\ [Next]_vars => [EC!Next]_EC!vars
  BY NextRefines
<1>5. QED
  BY <1>1, <1>2, <1>3, <1>4, PTL DEF Spec, EngineRefinement, EC!Spec
=============================================================================
