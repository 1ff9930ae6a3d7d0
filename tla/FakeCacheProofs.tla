--------------------------- MODULE FakeCacheProofs ---------------------------
(***************************************************************************)
(* Proofs about the fake runtime cache, for every set of GVKs, objects and *)
(* bounds: Upsert's deep copy keeps the store isolated from the callers,  *)
(* and informerFor creates at most one informer per GVK between removals.  *)
(***************************************************************************)
EXTENDS FakeCache, SequenceTheorems, TLAPS

(* The history variables keep their types.                                *)
HistoryTypeOK ==
  /\ created \in [Gvks -> Nat]
  /\ removed \in [Gvks -> Nat]
  /\ upserted \in Objects \cup {Nil}

(* c.Store is either nil or the cache's own copy, never a caller's cell. *)
StoreIsOwnCell == store \in {Nil, StoreCell}

(* A GVK has had one informer more than it has had removals only while  *)
(* it has a registered informer.                                           *)
InformerCount ==
  \A g \in Gvks : created[g] <= removed[g] + (IF informers[g] # 0 THEN 1 ELSE 0)

(* Informers are numbered in creation order, so a registered informer's  *)
(* number is at most the count of informers created.                      *)
InformersIssued == \A g \in Gvks : informers[g] <= nextInformer

IInv ==
  /\ TypeOK
  /\ HistoryTypeOK
  /\ StoreIsOwnCell
  /\ StoreIsolated
  /\ InformerCount
  /\ InformersIssued

USE FakeCacheAssumption, NilIsNoObject

-----------------------------------------------------------------------------
LEMMA InitIInv == Init => IInv
<1> SUFFICES ASSUME Init PROVE IInv
  OBVIOUS
<1>1. \E o \in Objects : TRUE
  <2>1. PICK k \in Keys : TRUE
    OBVIOUS
  <2>2. PICK v \in Versions : TRUE
    OBVIOUS
  <2>3. [name |-> k, version |-> v] \in Objects
    BY <2>1, <2>2 DEF Objects
  <2>4. QED
    BY <2>3
<1>2. TypeOK
  <2>1. heap \in [Cells -> Objects]
    BY <1>1 DEF Init, Cells
  <2>2. <<>> \in Seq(Objects)
    BY EmptySeq
  <2>3. store \in Cells \cup {Nil} /\ listed \in Seq(Objects)
    BY <2>2 DEF Init
  <2>4. /\ informers \in [Gvks -> 0..MaxInformers]
        /\ nextInformer \in 0..MaxInformers
    BY DEF Init
  <2>5. cacheError \in BOOLEAN
    BY Zenon DEF Init
  <2>6. QED
    BY <2>1, <2>3, <2>4, <2>5 DEF TypeOK
<1>3. HistoryTypeOK /\ StoreIsOwnCell /\ StoreIsolated /\ InformerCount
      /\ InformersIssued
  BY DEF Init, HistoryTypeOK, StoreIsOwnCell, StoreIsolated, InformerCount,
         InformersIssued
<1>4. QED
  BY <1>2, <1>3 DEF IInv

-----------------------------------------------------------------------------
(* informerFor, as GetInformerForKind and GetInformer run it, on a GVK    *)
(* whose removal count does not change.                                    *)
LEMMA InformerForKeeps ==
  ASSUME IInv, NEW g \in Gvks, InformerFor(g), removed' = removed
  PROVE  /\ informers' \in [Gvks -> 0..MaxInformers]
         /\ nextInformer' \in 0..MaxInformers
         /\ created' \in [Gvks -> Nat]
         /\ InformerCount'
         /\ InformersIssued'
<1>1. CASE informers[g] # 0
  BY <1>1 DEF InformerFor, IInv, TypeOK, HistoryTypeOK, InformerCount,
              InformersIssued
<1>2. CASE informers[g] = 0
  <2>1. /\ nextInformer < MaxInformers
        /\ informers' = [informers EXCEPT ![g] = nextInformer + 1]
        /\ nextInformer' = nextInformer + 1
        /\ created' = [created EXCEPT ![g] = @ + 1]
    BY <1>2 DEF InformerFor
  <2>2. created[g] <= removed[g]
    BY <1>2 DEF IInv, InformerCount, HistoryTypeOK
  <2>3. InformersIssued'
    BY <2>1 DEF IInv, TypeOK, InformersIssued
  <2>4. QED
    BY <2>1, <2>2, <2>3 DEF IInv, TypeOK, HistoryTypeOK, InformerCount
<1>3. QED
  BY <1>1, <1>2

-----------------------------------------------------------------------------
LEMMA NextIInv == IInv /\ [Next]_vars => IInv'
<1> SUFFICES ASSUME IInv, [Next]_vars PROVE IInv'
  OBVIOUS
<1>0. /\ TypeOK /\ HistoryTypeOK /\ StoreIsOwnCell /\ StoreIsolated
      /\ InformerCount /\ InformersIssued
  BY DEF IInv
<1>1. ASSUME NEW g \in Gvks, GetInformerForKind(g) PROVE IInv'
  <2>1. /\ informers' \in [Gvks -> 0..MaxInformers]
        /\ nextInformer' \in 0..MaxInformers
        /\ created' \in [Gvks -> Nat]
        /\ InformerCount' /\ InformersIssued'
    BY <1>1, InformerForKeeps DEF GetInformerForKind
  <2>2. QED
    BY <1>0, <1>1, <2>1 DEF GetInformerForKind, IInv, TypeOK, HistoryTypeOK,
       StoreIsOwnCell, StoreIsolated
<1>2. ASSUME NEW g \in Gvks, NEW u \in BOOLEAN, GetInformer(g, u) PROVE IInv'
  <2>1. /\ informers' \in [Gvks -> 0..MaxInformers]
        /\ nextInformer' \in 0..MaxInformers
        /\ created' \in [Gvks -> Nat]
        /\ InformerCount' /\ InformersIssued'
    BY <1>2, InformerForKeeps DEF GetInformer
  <2>2. QED
    BY <1>0, <1>2, <2>1 DEF GetInformer, IInv, TypeOK, HistoryTypeOK,
       StoreIsOwnCell, StoreIsolated
<1>3. ASSUME NEW g \in Gvks, NEW u \in BOOLEAN, RemoveInformer(g, u) PROVE IInv'
  <2>1. InformerCount' /\ InformersIssued'
    BY <1>0, <1>3 DEF RemoveInformer, InformerCount, InformersIssued, TypeOK,
                      HistoryTypeOK
  <2>2. QED
    BY <1>0, <1>3, <2>1 DEF RemoveInformer, IInv, TypeOK, HistoryTypeOK,
       StoreIsOwnCell, StoreIsolated
<1>4. ASSUME NEW r \in Refs, NEW k \in Keys, Get(r, k) PROVE IInv'
  <2>1. heap' \in [Cells -> Objects]
    BY <1>0, <1>4 DEF Get, TypeOK, StoreIsOwnCell, Cells
  <2>2. StoreIsolated'
    <3>1. store # Nil => heap'[store] = heap[store]
      BY <1>0, <1>4 DEF Get, StoreIsOwnCell, TypeOK, Cells
    <3>2. QED
      BY <1>0, <1>4, <3>1 DEF Get, StoreIsolated
  <2>3. QED
    BY <1>0, <1>4, <2>1, <2>2 DEF Get, IInv, TypeOK, HistoryTypeOK,
       StoreIsOwnCell, InformerCount, InformersIssued
<1>5. CASE List
  <2>1. listed' \in Seq(Objects)
    BY <1>0, <1>5, AppendProperties DEF List, TypeOK, StoreIsOwnCell, Cells
  <2>2. QED
    BY <1>0, <1>5, <2>1 DEF List, history, IInv, TypeOK, HistoryTypeOK,
       StoreIsOwnCell, StoreIsolated, InformerCount, InformersIssued
<1>6. ASSUME NEW r \in Refs, Upsert(r) PROVE IInv'
  <2>1. heap[r] \in Objects
    BY <1>0 DEF TypeOK, Cells
  <2>2. heap' \in [Cells -> Objects] /\ heap'[StoreCell] = heap[r]
    BY <1>0, <1>6, <2>1 DEF Upsert, TypeOK, Cells
  <2>3. QED
    BY <1>0, <1>6, <2>1, <2>2 DEF Upsert, IInv, TypeOK, HistoryTypeOK,
       StoreIsOwnCell, StoreIsolated, InformerCount, InformersIssued, Cells
<1>7. CASE Delete
  BY <1>0, <1>7 DEF Delete, IInv, TypeOK, HistoryTypeOK, StoreIsOwnCell,
     StoreIsolated, InformerCount, InformersIssued
<1>8. ASSUME NEW r \in Refs, NEW v \in Versions, Mutate(r, v) PROVE IInv'
  <2>1. heap' \in [Cells -> Objects]
    BY <1>0, <1>8 DEF Mutate, TypeOK, Cells, Objects
  <2>2. store # Nil => heap'[store] = heap[store]
    <3>1. r # StoreCell
      BY FakeCacheAssumption
    <3>2. QED
      BY <1>0, <1>8, <3>1 DEF Mutate, StoreIsOwnCell, TypeOK, Cells
  <2>3. QED
    BY <1>0, <1>8, <2>1, <2>2 DEF Mutate, history, IInv, TypeOK, HistoryTypeOK,
       StoreIsOwnCell, StoreIsolated, InformerCount, InformersIssued
<1>9. CASE SetError
  BY <1>0, <1>9 DEF SetError, history, IInv, TypeOK, HistoryTypeOK, StoreIsOwnCell,
     StoreIsolated, InformerCount, InformersIssued
<1>10. CASE UNCHANGED vars
  BY <1>0, <1>10 DEF vars, IInv, TypeOK, HistoryTypeOK, StoreIsOwnCell,
     StoreIsolated, InformerCount, InformersIssued
<1>11. QED
  BY <1>1, <1>2, <1>3, <1>4, <1>5, <1>6, <1>7, <1>8, <1>9, <1>10 DEF Next

-----------------------------------------------------------------------------
(* Every operation of the cache keeps its state well typed.               *)
THEOREM TypeCorrect == Spec => []TypeOK
<1>1. IInv => TypeOK
  BY DEF IInv
<1>2. QED
  BY InitIInv, NextIInv, <1>1, PTL DEF Spec

(* Upsert's and Get's deep copies keep the store equal to the object last *)
(* upserted, whatever the callers do to their own objects.               *)
THEOREM StoreIsolatedHolds == Spec => []StoreIsolated
<1>1. IInv => StoreIsolated
  BY DEF IInv
<1>2. QED
  BY InitIInv, NextIInv, <1>1, PTL DEF Spec

(* informerFor hands out one informer per GVK until RemoveInformer drops  *)
(* it: no GVK ever has two informers created without a removal between.   *)
THEOREM InformerNotDuplicatedHolds == Spec => []InformerNotDuplicated
<1>1. IInv => InformerNotDuplicated
  <2> SUFFICES ASSUME IInv, NEW g \in Gvks PROVE created[g] <= removed[g] + 1
    BY DEF InformerNotDuplicated
  <2>1. created[g] <= removed[g] + (IF informers[g] # 0 THEN 1 ELSE 0)
    BY DEF IInv, InformerCount
  <2>2. created[g] \in Nat /\ removed[g] \in Nat
    BY DEF IInv, HistoryTypeOK
  <2>3. QED
    BY <2>1, <2>2
<1>2. QED
  BY InitIInv, NextIInv, <1>1, PTL DEF Spec

=============================================================================
