---------------------------- MODULE MCController ----------------------------
(* The two-source controller of the deployment-configmap example: a       *)
(* Deployment's content (its version) says which ConfigMap it refers to,  *)
(* and the join pairs the Deployment with that ConfigMap.  Changing a     *)
(* Deployment therefore moves it from one composite to another, which     *)
(* makes a fan-out of a Deleted and an Added delta.  Version 2 of a       *)
(* ConfigMap stands for content the pipeline's expressions cannot         *)
(* evaluate (an @and over a field that is not a boolean, say), so that    *)
(* Evaluate returns an expression error on every composite holding it.   *)
EXTENDS Controller

CONSTANTS ConfigMap, Deployment, c1, c2

MCKinds == {ConfigMap, Deployment}
MCKeys == {c1, c2}

(* Version v of a Deployment annotates it with ConfigMap RefOf(v).       *)
RefOf(v) == IF v = 1 THEN c1 ELSE IF v = 2 THEN c2 ELSE "none"

MCJoinCond(c, v) == c[ConfigMap] = RefOf(v[Deployment])

MCExprFails(c, v) == v[ConfigMap] = 2
=============================================================================
