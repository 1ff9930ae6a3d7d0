---------------------------- MODULE EngineContract ----------------------------
(***************************************************************************)
(* What the declarative controller promises of the pipeline engine and     *)
(* the target writer, with the runtime controllers' queues, the watcher    *)
(* channel, the Get and the delta outbox abstracted away:                  *)
(*                                                                         *)
(*  - the cluster's objects change by one object at a time;                *)
(*  - the engine's base-view cache adopts one object at a time, and what  *)
(*    it adopts is that object as the cluster holds it at that moment, or *)
(*    its absence (a Deleted request carries no object);                   *)
(*  - the target is written one view object at a time, and what is        *)
(*    written is the full evaluation of the pipeline on the base cache at *)
(*    that moment: never a delta computed from an older state.            *)
(*                                                                         *)
(* Controller refines this specification with the identity mapping on      *)
(* cluster, base and target (Controller!EngineRefinement).                 *)
(***************************************************************************)
EXTENDS Integers

CONSTANTS
  Kinds,          \* the source kinds
  Keys,           \* object identities
  MaxVersion,     \* number of distinct contents an object can have
  JoinCond(_, _)  \* the @join condition on a composite and its contents

VARIABLES
  cluster,  \* the objects of the source kinds
  base,     \* the engine's base-view caches
  target    \* the target objects as written

vars == <<cluster, base, target>>

NoObject == 0
ObjStates == 0..MaxVersion
Composites == [Kinds -> Keys]
NoView == [k \in Kinds |-> NoObject]

(* The pipeline on a state of the source caches: every composite whose    *)
(* members all exist and satisfy the join, with the members' contents.    *)
FullView(st) ==
  [c \in Composites |->
     LET v == [k \in Kinds |-> st[k][c[k]]]
     IN  IF (\A k \in Kinds : v[k] # NoObject) /\ JoinCond(c, v)
         THEN v ELSE NoView]

Init ==
  /\ cluster = [k \in Kinds |-> [key \in Keys |-> NoObject]]
  /\ base = [k \in Kinds |-> [key \in Keys |-> NoObject]]
  /\ target = [c \in Composites |-> NoView]

(* Another client creates, updates or deletes one object.                 *)
Change(k, key, v) ==
  /\ cluster' = [cluster EXCEPT ![k][key] = v]
  /\ UNCHANGED <<base, target>>

(* The engine takes in one object: as the cluster holds it now, or gone.  *)
Adopt(k, key, v) ==
  /\ v \in {NoObject, cluster[k][key]}
  /\ base' = [base EXCEPT ![k][key] = v]
  /\ UNCHANGED <<cluster, target>>

(* The writer brings one view object of the target up to date.            *)
Publish(c) ==
  /\ target' = [target EXCEPT ![c] = FullView(base)[c]]
  /\ UNCHANGED <<cluster, base>>

Next ==
  \/ \E k \in Kinds, key \in Keys, v \in ObjStates : Change(k, key, v)
  \/ \E k \in Kinds, key \in Keys, v \in ObjStates : Adopt(k, key, v)
  \/ \E c \in Composites : Publish(c)

Spec == Init /\ [][Next]_vars
=============================================================================
