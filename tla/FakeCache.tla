------------------------------ MODULE FakeCache ------------------------------
(***************************************************************************)
(* FakeRuntimeCache (pkg/cache/fake_cache.go): the in-memory cache the     *)
(* controller's tests run against.  It holds one object in Store, which it *)
(* deep-copies on Upsert and Get, and a map from GVK to informer that it   *)
(* fills lazily in informerFor.                                            *)
(*                                                                         *)
(* Objects live in a heap of cells, so that the copying can be told apart  *)
(* from aliasing: the callers hold the cells in Refs, and StoreCell is the *)
(* cache's own copy.  An object is a name and a version.  Informers are    *)
(* numbered in the order they are created.  WaitForCacheSync, Start,       *)
(* IndexField and List's empty case change no state and are not actions.   *)
(* The cache is the one NewFakeRuntimeCache builds, whose Scheme is never  *)
(* nil; the nil-Scheme defaults of GetInformer and RemoveInformer are then *)
(* no-ops, and a struct-literal cache is not modelled.                      *)
(***************************************************************************)
EXTENDS Naturals, Sequences

CONSTANTS
  Gvks,          \* the GroupVersionKinds callers ask about
  KnownGvks,     \* those the Scheme knows (Scheme.New / ObjectKinds succeed)
  Refs,          \* objects held by the callers
  Keys,          \* object names (client.ObjectKey)
  Versions,      \* object contents
  StoreCell,     \* the cell c.Store points to after an Upsert
  Nil,           \* a nil pointer
  MaxInformers,  \* bound on the informers created
  MaxRemoves,    \* bound on RemoveInformer calls per GVK
  MaxListed      \* bound on the objects appended by List

ASSUME FakeCacheAssumption ==
  /\ KnownGvks \subseteq Gvks
  /\ StoreCell \notin Refs
  /\ Nil \notin Refs \cup {StoreCell}
  /\ MaxInformers \in Nat /\ MaxRemoves \in Nat /\ MaxListed \in Nat
  /\ Keys # {} /\ Versions # {}

Cells == Refs \cup {StoreCell}
Objects == [name : Keys, version : Versions]
NotFound == [notFound |-> TRUE]

(* A nil pointer is no object.                                            *)
ASSUME NilIsNoObject == Nil \notin Objects

VARIABLES
  heap,        \* the contents of every object
  store,       \* c.Store: Nil or the cell it points to
  informers,   \* c.InformersByGVK: gvk -> informer number, 0 when absent
  nextInformer,\* informers created so far
  cacheError,  \* c.Error # nil
  listed,      \* the items List appended to the callers' lists
  created,     \* history: informers created per GVK
  removed,     \* history: RemoveInformer calls per GVK
  upserted,    \* history: the object passed to the last Upsert, or Nil
  lastGet      \* history: the key and the result of the last Get

vars == <<heap, store, informers, nextInformer, cacheError, listed,
          created, removed, upserted, lastGet>>
history == <<created, removed, upserted, lastGet>>

-----------------------------------------------------------------------------
(* Mutant: informerFor registers a new informer on every call.             *)
InformerForAlwaysNew(g) ==
  /\ ~cacheError
  /\ nextInformer < MaxInformers
  /\ informers' = [informers EXCEPT ![g] = nextInformer + 1]
  /\ nextInformer' = nextInformer + 1
  /\ created' = [created EXCEPT ![g] = @ + 1]

(* informerFor: fail with c.Error, return the registered informer, or     *)
(* register a new FakeInformer.                                            *)
InformerFor(g) ==
  /\ ~cacheError
  /\ \/ /\ informers[g] # 0
        /\ UNCHANGED <<informers, nextInformer, created>>
     \/ /\ informers[g] = 0
        /\ nextInformer < MaxInformers
        /\ informers' = [informers EXCEPT ![g] = nextInformer + 1]
        /\ nextInformer' = nextInformer + 1
        /\ created' = [created EXCEPT ![g] = @ + 1]

(* GetInformerForKind: Scheme.New(gvk), then informerFor.  An unknown GVK *)
(* is an error that changes nothing.                                       *)
GetInformerForKind(g) ==
  /\ g \in KnownGvks
  /\ InformerFor(g)
  /\ UNCHANGED <<heap, store, cacheError, listed,
                 removed, upserted, lastGet>>

(* Scheme.ObjectKinds(obj) succeeds for a typed object of a GVK the Scheme *)
(* knows, and for an unstructured object (object.Object) of any GVK, which *)
(* it takes from the object itself.                                        *)
ObjectKindsOK(g, unstructured) == unstructured \/ g \in KnownGvks

(* GetInformer: ObjectKinds(obj), then informerFor.                        *)
GetInformer(g, unstructured) ==
  /\ ObjectKindsOK(g, unstructured)
  /\ InformerFor(g)
  /\ UNCHANGED <<heap, store, cacheError, listed, removed,
                 upserted, lastGet>>

(* RemoveInformer: ObjectKinds(obj), delete the entry.                      *)
RemoveInformer(g, unstructured) ==
  /\ removed[g] < MaxRemoves
  /\ ObjectKindsOK(g, unstructured)
  /\ informers' = [informers EXCEPT ![g] = 0]
  /\ removed' = [removed EXCEPT ![g] = @ + 1]
  /\ UNCHANGED <<heap, store, nextInformer, cacheError, listed,
                 created, upserted, lastGet>>

(* Get: deep-copy Store into the caller's object, or NotFound for the key. *)
Get(r, key) ==
  /\ IF store # Nil
     THEN /\ heap' = [heap EXCEPT ![r] = heap[store]]
          /\ lastGet' = [key |-> key, result |-> heap[store]]
     ELSE /\ lastGet' = [key |-> key, result |-> NotFound]
          /\ UNCHANGED heap
  /\ UNCHANGED <<store, informers, nextInformer, cacheError,
                 listed, created, removed, upserted>>

(* Mutant: List appends whatever Store holds, nil included.               *)
ListAppendsNil ==
  /\ Len(listed) < MaxListed
  /\ listed' = Append(listed, IF store = Nil THEN Nil ELSE heap[store])
  /\ UNCHANGED <<heap, store, informers, nextInformer, cacheError,
                 history>>

(* List: append a deep copy of Store to the caller's list.                *)
List ==
  /\ store # Nil
  /\ Len(listed) < MaxListed
  /\ listed' = Append(listed, heap[store])
  /\ UNCHANGED <<heap, store, informers, nextInformer, cacheError,
                 history>>

(* Mutant: Upsert keeps the caller's pointer instead of a deep copy.      *)
UpsertAliases(r) ==
  /\ store' = r
  /\ upserted' = heap[r]
  /\ UNCHANGED <<heap, informers, nextInformer, cacheError,
                 listed, created, removed, lastGet>>

(* Upsert: c.Store = DeepCopy(obj).                                        *)
Upsert(r) ==
  /\ heap' = [heap EXCEPT ![StoreCell] = heap[r]]
  /\ store' = StoreCell
  /\ upserted' = heap[r]
  /\ UNCHANGED <<informers, nextInformer, cacheError, listed,
                 created, removed, lastGet>>

(* Delete: c.Store = nil, whatever object is passed.                       *)
Delete ==
  /\ store' = Nil
  /\ upserted' = Nil
  /\ UNCHANGED <<heap, informers, nextInformer, cacheError,
                 listed, created, removed, lastGet>>

(* The test code around the cache: it edits its own objects, and may set  *)
(* the exported Error field.                                               *)
Mutate(r, v) ==
  /\ heap' = [heap EXCEPT ![r].version = v]
  /\ UNCHANGED <<store, informers, nextInformer, cacheError,
                 listed, history>>

SetError ==
  /\ ~cacheError
  /\ cacheError' = TRUE
  /\ UNCHANGED <<heap, store, informers, nextInformer, listed,
                 history>>

-----------------------------------------------------------------------------
(* NewFakeRuntimeCache(nil): the Scheme defaults to scheme.Scheme.  The   *)
(* cache's own cell holds nothing before the first Upsert; its initial    *)
(* contents are never read.                                               *)
Init ==
  /\ \E h \in [Refs -> Objects] :
       heap = [c \in Cells |-> IF c = StoreCell THEN CHOOSE o \in Objects : TRUE
                                                ELSE h[c]]
  /\ store = Nil
  /\ informers = [g \in Gvks |-> 0]
  /\ nextInformer = 0
  /\ cacheError = FALSE
  /\ listed = <<>>
  /\ created = [g \in Gvks |-> 0]
  /\ removed = [g \in Gvks |-> 0]
  /\ upserted = Nil
  /\ lastGet = [key |-> Nil, result |-> NotFound]

Next ==
  \/ \E g \in Gvks : GetInformerForKind(g)
  \/ \E g \in Gvks, u \in BOOLEAN : GetInformer(g, u) \/ RemoveInformer(g, u)
  \/ \E r \in Refs, k \in Keys : Get(r, k)
  \/ List
  \/ \E r \in Refs : Upsert(r)
  \/ Delete
  \/ \E r \in Refs, v \in Versions : Mutate(r, v)
  \/ SetError

Spec == Init /\ [][Next]_vars

-----------------------------------------------------------------------------
TypeOK ==
  /\ heap \in [Cells -> Objects]
  /\ store \in Cells \cup {Nil}
  /\ informers \in [Gvks -> 0..MaxInformers]
  /\ nextInformer \in 0..MaxInformers
  /\ cacheError \in BOOLEAN
  /\ listed \in Seq(Objects)

(* What the cache holds is what was last upserted, however the callers    *)
(* edit their objects afterwards and whatever Get copies out: Upsert and  *)
(* Get deep-copy, so Store never aliases a caller's object.               *)
StoreIsolated ==
  store # Nil => heap[store] = upserted

(* informerFor hands out one informer per GVK: a second informer for the  *)
(* same GVK is created only after RemoveInformer dropped the first, so    *)
(* handlers registered on an informer returned earlier keep receiving.    *)
InformerNotDuplicated ==
  \A g \in Gvks : created[g] <= removed[g] + 1
=============================================================================
