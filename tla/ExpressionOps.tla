----------------------------- MODULE ExpressionOps -----------------------------
(***************************************************************************)
(* The non-recursive layer of the expression language                     *)
(* (pkg/pipeline/expression.go): Go values, JSON parse trees, the outcome *)
(* of a call, the conversion helpers, the object case of UnmarshalJSON,  *)
(* unpackList, and the operators that Evaluate applies to the value of  *)
(* their argument.  Expression adds the recursive decoder, encoder and   *)
(* evaluator on top of it.                                                *)
(*                                                                         *)
(* Go values are a tagged union (null, bool, int64, float64, string, list, *)
(* map); a float is kept as a whole number of halves.  A JSON text is kept *)
(* as its parse tree, each number remembering whether it was written with *)
(* a fraction part.  The outcome of a call is Ok(v), Err (an error return) *)
(* or Panic (a run-time panic).  The conversion helpers, GetJSONPath and  *)
(* MatchLabels live outside expression.go and are modelled from the       *)
(* specification.                                                          *)
(***************************************************************************)
EXTENDS Integers, Sequences, FiniteSets

SX == INSTANCE SequencesExt

-----------------------------------------------------------------------------
(* Go values.                                                              *)
VNull == [t |-> "null"]
VBool(b) == [t |-> "bool", b |-> b]
VInt(n) == [t |-> "int", i |-> n]
VFloat(h) == [t |-> "float", h |-> h]     \* the float h / 2
VStr(s) == [t |-> "string", s |-> s]
VList(s) == [t |-> "list", l |-> s]
VMap(f) == [t |-> "map", m |-> f]

(* JSON texts, as parse trees.  JNum(h, point): the number h / 2, written *)
(* with a fraction part or not.                                            *)
JNull == [j |-> "null"]
JBool(b) == [j |-> "bool", b |-> b]
JNum(h, point) == [j |-> "num", n |-> h, point |-> point]
JStr(s) == [j |-> "str", s |-> s]
JArr(s) == [j |-> "arr", elems |-> s]
JObj(f) == [j |-> "obj", fields |-> f]

(* Expression{Op, Arg, Literal}.  A nil Arg or Literal is NoArg / NoLit;  *)
(* a []Expression literal is [exps |-> seq], a map[string]Expression      *)
(* literal is [expmap |-> f].                                             *)
NoArg == [none |-> "arg"]
NoLit == [none |-> "lit"]
Exp(op, arg, lit) == [op |-> op, arg |-> arg, lit |-> lit]

Ok(v) == [r |-> "ok", v |-> v]
Err == [r |-> "err"]
Panic == [r |-> "panic"]
IsOk(res) == res.r = "ok"

(* The outcome of a group of calls none of which is known to come first: *)
(* a panic wins over an error.                                            *)
Failure(results) ==
  IF \E x \in results : x = Panic THEN Panic ELSE Err

(* The outcome of a sequence of calls that stops at the first failure.    *)
FirstFailure(rs) ==
  rs[SX!Min({i \in DOMAIN rs : ~IsOk(rs[i])})]

(* string(s[0]) == "@": the index panics on an empty string.              *)
StartsWithAt(s) == Len(s) >= 1 /\ SubSeq(s, 1, 1) = "@"

-----------------------------------------------------------------------------
(* The conversion helpers.                                                 *)
AsBool(v) == IF v.t = "bool" THEN Ok(v.b) ELSE Err
AsInt(v) == IF v.t = "int" THEN Ok(v.i) ELSE Err
(* An int64 is widened to a float64, in halves.                            *)
AsFloat(v) ==
  CASE v.t = "float" -> Ok(v.h)
    [] v.t = "int"   -> Ok(2 * v.i)
    [] OTHER         -> Err
AsString(v) == IF v.t = "string" THEN Ok(v.s) ELSE Err
AsList(v) == IF v.t = "list" THEN Ok(v.l) ELSE Err
AsObject(v) == IF v.t = "map" THEN Ok(v.m) ELSE Err
AsBoolList(v) ==
  IF v.t = "list" /\ \A i \in DOMAIN v.l : v.l[i].t = "bool"
  THEN Ok([i \in DOMAIN v.l |-> v.l[i].b]) ELSE Err
AsStringList(v) ==
  IF v.t = "list" /\ \A i \in DOMAIN v.l : v.l[i].t = "string"
  THEN Ok([i \in DOMAIN v.l |-> v.l[i].s]) ELSE Err
(* A list of numbers: int64 when all are, otherwise all widened to float. *)
AsIntOrFloatList(v) ==
  IF v.t = "list" /\ \A i \in DOMAIN v.l : v.l[i].t \in {"int", "float"}
  THEN LET allInt == \A i \in DOMAIN v.l : v.l[i].t = "int"
       IN  Ok([int |-> allInt,
               nums |-> [i \in DOMAIN v.l |->
                          IF allInt THEN v.l[i].i ELSE AsFloat(v.l[i]).v]])
  ELSE Err
AsBinaryIntOrFloatList(v) ==
  IF v.t = "list" /\ Len(v.l) = 2 THEN AsIntOrFloatList(v) ELSE Err
(* The argument of a list command: the elements of a literal @list, or   *)
(* the single expression itself.                                          *)
AsExpOrList(arg) ==
  IF arg = NoArg THEN Err
  ELSE IF arg.op = "@list" /\ "exps" \in DOMAIN arg.lit THEN Ok(arg.lit.exps)
  ELSE Ok(<<arg>>)

(* JSON paths: "$" is the element iterated over, or the object outside a *)
(* list command; "$.k" is the field k of it, null when missing.           *)
NoSubject == [none |-> "subject"]
GetJSONPath(ctx, s) ==
  LET root == IF ctx.subject # NoSubject THEN ctx.subject ELSE ctx.object
      key == SubSeq(s, 3, Len(s))
  IN  CASE s = "$" -> Ok(root)
        [] Len(s) >= 2 /\ SubSeq(s, 1, 2) = "$." ->
             Ok(IF root.t = "map" /\ key \in DOMAIN root.m THEN root.m[key] ELSE VNull)
        [] OTHER -> Ok(VStr(s))

(* A selector matches a label set that has each of its key/value pairs.  *)
MatchLabels(labels, selector) ==
  Ok(\A k \in DOMAIN selector : k \in DOMAIN labels /\ labels[k] = selector[k])

-----------------------------------------------------------------------------
(* UnmarshalJSON: try bool, int64, float64, non-empty string, list, map,  *)
(* in this order.  JSON null decodes into the bool (false) and a number   *)
(* with a fraction part fails as an int64.  A map with one key starting   *)
(* with @ is an operator; its key is indexed before that test.  A failing *)
(* element fails the whole list or map.                                    *)
(* Mutant: a map with a single key is taken for an operator whatever the *)
(* key.                                                                     *)
ObjectExpAnyKeyIsOp(es) ==
  LET op == CHOOSE k \in DOMAIN es : TRUE
      dict == Ok(Exp("@dict", NoArg, [expmap |-> [k \in DOMAIN es |-> es[k].v]]))
  IN  IF ~\A k \in DOMAIN es : IsOk(es[k]) THEN Failure({es[k] : k \in DOMAIN es})
      ELSE IF Cardinality(DOMAIN es) # 1 THEN dict
      ELSE IF op = "" THEN Panic
      ELSE Ok(Exp(op, es[op].v, NoLit))

(* The object case of UnmarshalJSON, given the outcomes of decoding each  *)
(* field: the first failure; a single key is an operator when it starts  *)
(* with @ (op[0] panics on the empty key); otherwise a @dict literal.     *)
ObjectExp(es) ==
  LET op == CHOOSE k \in DOMAIN es : TRUE
      dict == Ok(Exp("@dict", NoArg, [expmap |-> [k \in DOMAIN es |-> es[k].v]]))
  IN  IF ~\A k \in DOMAIN es : IsOk(es[k]) THEN Failure({es[k] : k \in DOMAIN es})
      ELSE IF Cardinality(DOMAIN es) # 1 THEN dict
      ELSE IF op = "" THEN Panic
      ELSE IF StartsWithAt(op) THEN Ok(Exp(op, es[op].v, NoLit))
      ELSE dict

(* unpackList: a list whose first element is a list becomes that element. *)
UnpackList(s) ==
  IF s # <<>> /\ s[1].t = "list" THEN s[1].l ELSE s

(* The @list unpacking rule (spec, operator catalogue): only a list that  *)
(* holds exactly one list loses its outer wrap.                           *)
SpecUnpack(s) == IF Len(s) = 1 /\ s[1].t = "list" THEN s[1].l ELSE s

(* The value of a number, in halves.                                        *)
NumVal(x) == IF x.t = "int" THEN 2 * x.i ELSE x.h
IsNum(x) == x.t \in {"int", "float"}
-----------------------------------------------------------------------------
(* The operators that take the value of their Arg (the last switch): the  *)
(* boolean ones, the ordered comparisons, @selector, the float arithmetic *)
(* and the list reductions.                                                *)
BoolOp(op, arg) ==
  LET pair == AsList(arg)
      bools == AsBoolList(arg)
  IN
  CASE op = "@isnil" -> Ok(VBool(arg = VNull))
    [] op = "@exists" -> Ok(VBool(arg # VNull))
    [] op = "@not" -> IF IsOk(AsBool(arg)) THEN Ok(VBool(~AsBool(arg).v)) ELSE Err
    [] op = "@eq" ->
         IF IsOk(pair) /\ Len(pair.v) = 2 THEN Ok(VBool(pair.v[1] = pair.v[2])) ELSE Err
    [] op = "@and" ->
         IF IsOk(bools) THEN Ok(VBool(\A i \in DOMAIN bools.v : bools.v[i])) ELSE Err
    [] op = "@or" ->
         IF IsOk(bools) THEN Ok(VBool(\E i \in DOMAIN bools.v : bools.v[i])) ELSE Err

(* Mutant: @lte compares strictly.                                         *)
CompareOpLteStrict(op, arg) ==
  LET nums == AsBinaryIntOrFloatList(arg)
      a == nums.v.nums[1]
      b == nums.v.nums[2]
  IN  IF ~IsOk(nums) THEN Err
      ELSE Ok(VBool(CASE op = "@lt" -> a < b [] op = "@lte" -> a < b
                      [] op = "@gt" -> a > b [] op = "@gte" -> a >= b))

(* @lt @lte @gt @gte on two numbers, int64 or widened to float64.          *)
CompareOp(op, arg) ==
  LET nums == AsBinaryIntOrFloatList(arg)
      a == nums.v.nums[1]
      b == nums.v.nums[2]
  IN  IF ~IsOk(nums) THEN Err
      ELSE Ok(VBool(CASE op = "@lt" -> a < b [] op = "@lte" -> a <= b
                      [] op = "@gt" -> a > b [] op = "@gte" -> a >= b))

(* @selector: [selector, labels]; a nil side does not match.               *)
SelectorOp(arg) ==
  LET pair == AsList(arg)
  IN  IF ~IsOk(pair) \/ Len(pair.v) # 2 THEN Err
      ELSE IF pair.v[1] = VNull \/ pair.v[2] = VNull THEN Ok(VBool(FALSE))
      ELSE IF IsOk(AsObject(pair.v[1])) /\ IsOk(AsObject(pair.v[2]))
      THEN Ok(VBool(MatchLabels(AsObject(pair.v[2]).v, AsObject(pair.v[1]).v).v))
      ELSE Err

(* @abs @ceil @floor, in halves.                                           *)
FloatOp(op, arg) ==
  LET h == AsFloat(arg).v
  IN  IF ~IsOk(AsFloat(arg)) THEN Err
      ELSE Ok(VFloat(CASE op = "@abs" -> IF h < 0 THEN -h ELSE h
                       [] op = "@ceil" -> IF h % 2 = 0 THEN h ELSE h + 1
                       [] op = "@floor" -> IF h % 2 = 0 THEN h ELSE h - 1))

(* @sum @len @in @concat.                                                  *)
ListOp(op, arg) ==
  LET pair == AsList(arg)
      ns == AsIntOrFloatList(arg)
      total == SX!FoldLeft(+, 0, ns.v.nums)
  IN
  CASE op = "@sum" ->
         IF ~IsOk(ns) THEN Err
         ELSE IF ns.v.int THEN Ok(VInt(total)) ELSE Ok(VFloat(total))
    [] op = "@len" -> IF IsOk(pair) THEN Ok(VInt(Len(pair.v))) ELSE Err
    [] op = "@in" ->
         IF ~IsOk(pair) \/ Len(pair.v) # 2 \/ ~IsOk(AsList(pair.v[2])) THEN Err
         ELSE LET l == AsList(pair.v[2]).v
              IN  Ok(VBool(\E i \in DOMAIN l : l[i] = pair.v[1]))
    [] op = "@concat" ->
         LET ss == AsStringList(arg)
         IN  IF IsOk(ss) THEN Ok(VStr(SX!FoldLeft(\o, "", ss.v))) ELSE Err

ApplyOp(op, arg) ==
  CASE op \in {"@isnil", "@exists", "@not", "@eq", "@and", "@or"} -> BoolOp(op, arg)
    [] op \in {"@lt", "@lte", "@gt", "@gte"} -> CompareOp(op, arg)
    [] op = "@selector" -> SelectorOp(arg)
    [] op \in {"@abs", "@ceil", "@floor"} -> FloatOp(op, arg)
    [] op \in {"@sum", "@len", "@in", "@concat"} -> ListOp(op, arg)
    [] OTHER -> Err

=============================================================================
