----------------------------- MODULE Expression -----------------------------
(***************************************************************************)
(* The expression language of the pipeline (pkg/pipeline/expression.go):  *)
(* the JSON decoding of an expression (UnmarshalJSON), its encoding        *)
(* (MarshalJSON), and its evaluator (Evaluate, unpackList).                *)
(*                                                                         *)
(* It extends ExpressionOps, which holds the values, the conversion      *)
(* helpers and the operators applied to an argument's value.  This module *)
(* is for TLC only: it is recursive.                                        *)
(***************************************************************************)
EXTENDS ExpressionOps, TLC

-----------------------------------------------------------------------------
(* UnmarshalJSON: each JSON kind in the order the code tries them; the    *)
(* object case is ObjectExp.                                                *)
RECURSIVE Unmarshal(_)
Unmarshal(j) ==
  CASE j.j = "null" -> Ok(Exp("@bool", NoArg, VBool(FALSE)))
    [] j.j = "bool" -> Ok(Exp("@bool", NoArg, VBool(j.b)))
    [] j.j = "num" /\ ~j.point -> Ok(Exp("@int", NoArg, VInt(j.n \div 2)))
    [] j.j = "num" -> Ok(Exp("@float", NoArg, VFloat(j.n)))
    [] j.j = "str" /\ j.s # "" -> Ok(Exp("@string", NoArg, VStr(j.s)))
    [] j.j = "arr" ->
         LET es == [i \in DOMAIN j.elems |-> Unmarshal(j.elems[i])]
         IN  IF \A i \in DOMAIN es : IsOk(es[i])
             THEN Ok(Exp("@list", NoArg, [exps |-> [i \in DOMAIN es |-> es[i].v]]))
             ELSE FirstFailure(es)
    [] j.j = "obj" -> ObjectExp([k \in DOMAIN j.fields |-> Unmarshal(j.fields[k])])
    [] OTHER -> Err

(* json.Marshal of a Go value; a float64 with no fraction is written with *)
(* none.                                                                   *)
RECURSIVE ValueToJSON(_)
ValueToJSON(v) ==
  CASE v.t = "null"   -> JNull
    [] v.t = "bool"   -> JBool(v.b)
    [] v.t = "int"    -> JNum(2 * v.i, FALSE)
    [] v.t = "float"  -> JNum(v.h, v.h % 2 = 1)
    [] v.t = "string" -> JStr(v.s)
    [] v.t = "list"   -> JArr([i \in DOMAIN v.l |-> ValueToJSON(v.l[i])])
    [] v.t = "map"    -> JObj([k \in DOMAIN v.m |-> ValueToJSON(v.m[k])])

(* MarshalJSON.  @any writes its Literal; a coercion with an Arg keeps     *)
(* its op; @list and @dict with an Arg write the Arg alone; any other op  *)
(* becomes {op: arg}, a nil Arg written as null.                          *)
RECURSIVE Marshal(_)
Marshal(e) ==
  LET sub(x) == IF x = NoArg THEN Ok(JNull) ELSE Marshal(x)
      wrap(x) == IF IsOk(sub(x)) THEN Ok(JObj(e.op :> sub(x).v)) ELSE sub(x)
      lit(conv, enc(_)) == IF IsOk(conv) THEN Ok(enc(conv.v)) ELSE Err
      ms(f) == [i \in DOMAIN f |-> Marshal(f[i])]
      allOk(f) == \A i \in DOMAIN f : IsOk(ms(f)[i])
      okv(f) == [i \in DOMAIN f |-> ms(f)[i].v]
  IN
  CASE e.op = "@any" -> Ok(IF e.lit = NoLit THEN JNull ELSE ValueToJSON(e.lit))
    [] e.op \in {"@bool", "@int", "@float", "@string"} /\ e.arg # NoArg -> wrap(e.arg)
    [] e.op = "@bool" -> lit(AsBool(e.lit), JBool)
    [] e.op = "@int" -> lit(AsInt(e.lit), LAMBDA n : JNum(2 * n, FALSE))
    [] e.op = "@float" -> lit(AsFloat(e.lit), LAMBDA h : JNum(h, h % 2 = 1))
    [] e.op = "@string" -> lit(AsString(e.lit), JStr)
    [] e.op \in {"@list", "@dict"} /\ e.arg # NoArg -> Marshal(e.arg)
    [] e.op = "@list" ->
         IF e.lit # NoLit /\ "exps" \in DOMAIN e.lit
         THEN IF allOk(e.lit.exps) THEN Ok(JArr(okv(e.lit.exps)))
              ELSE FirstFailure(ms(e.lit.exps))
         ELSE Err
    [] e.op = "@dict" ->
         IF e.lit # NoLit /\ "expmap" \in DOMAIN e.lit
         THEN IF allOk(e.lit.expmap) THEN Ok(JObj(okv(e.lit.expmap)))
              ELSE Failure({ms(e.lit.expmap)[k] : k \in DOMAIN e.lit.expmap})
         ELSE Err
    [] e.op = "" -> Panic
    [] ~StartsWithAt(e.op) -> Err
    [] OTHER -> wrap(e.arg)

-----------------------------------------------------------------------------
(* Evaluate.  The loops of the list commands are recursive operators over *)
(* the rest of the list; each stops at the first error, as the code's    *)
(* early returns do.                                                       *)
SubCtx(ctx, x) == [object |-> ctx.object, subject |-> x]
ListCommands == {"@filter", "@any", "@all", "@none", "@map"}

RECURSIVE Eval(_, _), EvalList(_, _), FilterLoop(_, _, _), AnyLoop(_, _, _, _),
          MapLoop(_, _, _), FilterLoopInverted(_, _, _), AnyLoopNoBreak(_, _, _, _)

(* Evaluate each expression of a literal list, in order.                  *)
EvalList(es, ctx) ==
  IF es = <<>> THEN Ok(<<>>)
  ELSE LET h == Eval(Head(es), ctx)
           t == EvalList(Tail(es), ctx)
       IN  CASE ~IsOk(h) -> h
             [] ~IsOk(t) -> t
             [] OTHER -> Ok(<<h.v>> \o t.v)

(* Mutant: @filter keeps the inputs whose condition is false.             *)
FilterLoopInverted(cond, list, ctx) ==
  IF list = <<>> THEN Ok(<<>>)
  ELSE LET r == Eval(cond, SubCtx(ctx, Head(list)))
           rest == FilterLoop(cond, Tail(list), ctx)
       IN  CASE ~IsOk(r) -> r
             [] ~IsOk(AsBool(r.v)) -> Err
             [] ~IsOk(rest) -> rest
             [] ~AsBool(r.v).v -> Ok(<<Head(list)>> \o rest.v)
             [] OTHER -> rest

(* @filter's loop: keep the inputs whose condition is true.               *)
FilterLoop(cond, list, ctx) ==
  IF list = <<>> THEN Ok(<<>>)
  ELSE LET r == Eval(cond, SubCtx(ctx, Head(list)))
           rest == FilterLoop(cond, Tail(list), ctx)
       IN  CASE ~IsOk(r) -> r
             [] ~IsOk(AsBool(r.v)) -> Err
             [] ~IsOk(rest) -> rest
             [] AsBool(r.v).v -> Ok(<<Head(list)>> \o rest.v)
             [] OTHER -> rest

(* Mutant: the loop of @any, @all and @none has no break.                *)
AnyLoopNoBreak(exp, list, ctx, stopOn) ==
  IF list = <<>> THEN Ok(FALSE)
  ELSE LET r == Eval(exp, SubCtx(ctx, Head(list)))
           rest == AnyLoop(exp, Tail(list), ctx, stopOn)
       IN  CASE ~IsOk(r) -> r
             [] ~IsOk(AsBool(r.v)) -> Err
             [] ~IsOk(rest) -> rest
             [] OTHER -> Ok(AsBool(r.v).v = stopOn \/ rest.v)

(* The loop of @any, @all and @none: TRUE when some input's condition is *)
(* stopOn, where the loop breaks; FALSE when none is.                      *)
AnyLoop(exp, list, ctx, stopOn) ==
  IF list = <<>> THEN Ok(FALSE)
  ELSE LET r == Eval(exp, SubCtx(ctx, Head(list)))
       IN  CASE ~IsOk(r) -> r
             [] ~IsOk(AsBool(r.v)) -> Err
             [] AsBool(r.v).v = stopOn -> Ok(TRUE)
             [] OTHER -> AnyLoop(exp, Tail(list), ctx, stopOn)

(* @map's loop.                                                            *)
MapLoop(exp, list, ctx) ==
  IF list = <<>> THEN Ok(<<>>)
  ELSE LET r == Eval(exp, SubCtx(ctx, Head(list)))
           rest == MapLoop(exp, Tail(list), ctx)
       IN  CASE ~IsOk(r) -> r
             [] ~IsOk(rest) -> rest
             [] OTHER -> Ok(<<r.v>> \o rest.v)

Eval(e, ctx) ==
  LET litOrArg == IF e.arg = NoArg THEN Ok(e.lit) ELSE Eval(e.arg, ctx)
      coerce(conv(_), mk(_)) ==
        CASE ~IsOk(litOrArg) -> litOrArg
          [] ~IsOk(conv(litOrArg.v)) -> Err
          [] OTHER -> Ok(mk(conv(litOrArg.v).v))
      args == AsExpOrList(e.arg)
      raw == Eval(args.v[2], ctx)
      list == AsList(raw.v)
      argv == Eval(e.arg, ctx)
  IN
  CASE e.op = "" -> Err
    [] e.op = "@bool" -> coerce(AsBool, VBool)
    [] e.op = "@int" -> coerce(AsInt, VInt)
    [] e.op = "@float" -> coerce(AsFloat, VFloat)
    [] e.op = "@string" ->
         CASE ~IsOk(litOrArg) -> litOrArg
           [] ~IsOk(AsString(litOrArg.v)) -> Err
           [] OTHER -> GetJSONPath(ctx, AsString(litOrArg.v).v)
    [] e.op = "@list" ->
         LET vs == IF e.arg # NoArg
                   THEN IF ~IsOk(argv) THEN argv
                        ELSE IF argv.v.t = "list" THEN Ok(argv.v.l) ELSE Err
                   ELSE IF e.lit # NoLit /\ "exps" \in DOMAIN e.lit
                        THEN EvalList(e.lit.exps, ctx) ELSE Err
         IN  IF IsOk(vs) THEN Ok(VList(UnpackList(vs.v))) ELSE vs
    [] e.op = "@dict" ->
         IF e.arg # NoArg
         THEN IF ~IsOk(argv) THEN argv
              ELSE IF argv.v.t = "map" THEN argv ELSE Err
         ELSE IF e.lit # NoLit /\ "expmap" \in DOMAIN e.lit
              THEN LET m == e.lit.expmap
                       rs == [k \in DOMAIN m |-> Eval(m[k], ctx)]
                   IN  IF \A k \in DOMAIN rs : IsOk(rs[k])
                       THEN Ok(VMap([k \in DOMAIN rs |-> rs[k].v]))
                       ELSE Failure({rs[k] : k \in DOMAIN rs})
              ELSE Err
    [] e.op \in ListCommands ->
         CASE ~IsOk(args) -> Err
           [] e.op = "@map" /\ Len(args.v) < 2 -> Panic
           [] e.op # "@map" /\ Len(args.v) # 2 -> Err
           [] raw.r = "panic" -> Panic
           [] ~IsOk(raw) \/ ~IsOk(list) -> Err
           [] e.op = "@filter" ->
                LET r == FilterLoop(args.v[1], list.v, ctx)
                IN  IF IsOk(r) THEN Ok(VList(r.v)) ELSE r
           [] e.op = "@map" ->
                LET r == MapLoop(args.v[1], list.v, ctx)
                IN  IF IsOk(r) THEN Ok(VList(r.v)) ELSE r
           [] OTHER ->
                LET stopOn == e.op # "@all"
                    r == AnyLoop(args.v[1], list.v, ctx, stopOn)
                IN  CASE ~IsOk(r) -> r
                      [] e.op = "@any" -> Ok(VBool(r.v))
                      [] OTHER -> Ok(VBool(~r.v))
    [] e.arg = NoArg -> Err
    [] ~IsOk(argv) -> argv
    [] StartsWithAt(e.op) -> ApplyOp(e.op, argv.v)
    [] OTHER -> Ok(VMap(e.op :> argv.v))
-----------------------------------------------------------------------------
(* The calls of the module's public methods on one JSON document: decode  *)
(* it, evaluate it against each object, encode it, and decode the        *)
(* encoding.                                                               *)
CONSTANTS
  Docs,      \* the JSON documents decoded
  Objects    \* the objects expressions are evaluated against

VARIABLES
  doc,         \* the JSON text given to UnmarshalJSON
  parsed,      \* its outcome
  evaluated,   \* object -> outcome of Evaluate
  marshalled,  \* the outcome of MarshalJSON on the parsed expression
  reparsed     \* the outcome of UnmarshalJSON on that encoding

exprVars == <<doc, parsed, evaluated, marshalled, reparsed>>

Pending == [none |-> "pending"]
Ctx(o) == [object |-> o, subject |-> NoSubject]

ExprInit ==
  /\ doc \in Docs
  /\ parsed = Pending
  /\ evaluated = Pending
  /\ marshalled = Pending
  /\ reparsed = Pending

UnmarshalJSON ==
  /\ parsed = Pending
  /\ parsed' = Unmarshal(doc)
  /\ UNCHANGED <<doc, evaluated, marshalled, reparsed>>

Evaluate ==
  /\ parsed # Pending /\ IsOk(parsed)
  /\ evaluated = Pending
  /\ evaluated' = [o \in Objects |-> Eval(parsed.v, Ctx(o))]
  /\ UNCHANGED <<doc, parsed, marshalled, reparsed>>

MarshalJSON ==
  /\ parsed # Pending /\ IsOk(parsed)
  /\ marshalled = Pending
  /\ marshalled' = Marshal(parsed.v)
  /\ UNCHANGED <<doc, parsed, evaluated, reparsed>>

UnmarshalMarshalled ==
  /\ marshalled # Pending /\ IsOk(marshalled)
  /\ reparsed = Pending
  /\ reparsed' = Unmarshal(marshalled.v)
  /\ UNCHANGED <<doc, parsed, evaluated, marshalled>>

ExprNext == UnmarshalJSON \/ Evaluate \/ MarshalJSON \/ UnmarshalMarshalled

ExprSpec == ExprInit /\ [][ExprNext]_exprVars

-----------------------------------------------------------------------------
Outcome(x) == x = Pending \/ x.r \in {"ok", "err", "panic"}

(* Every decoded expression is well formed: its op, and that of each of  *)
(* its parts, starts with @.                                              *)
RECURSIVE WellFormed(_)
WellFormed(e) ==
  /\ StartsWithAt(e.op)
  /\ e.arg # NoArg => WellFormed(e.arg)
  /\ e.lit # NoLit /\ "exps" \in DOMAIN e.lit =>
       \A i \in DOMAIN e.lit.exps : WellFormed(e.lit.exps[i])
  /\ e.lit # NoLit /\ "expmap" \in DOMAIN e.lit =>
       \A k \in DOMAIN e.lit.expmap : WellFormed(e.lit.expmap[k])

TypeOK ==
  /\ doc \in Docs
  /\ Outcome(parsed) /\ Outcome(marshalled) /\ Outcome(reparsed)
  /\ evaluated = Pending \/ \A o \in Objects : Outcome(evaluated[o])
  /\ parsed # Pending /\ IsOk(parsed) => WellFormed(parsed.v)

(* The arguments of a list command as the reference sees them: a         *)
(* condition and the list it is applied to, with the condition's outcome *)
(* on each element.                                                        *)
CommandArgs(o) ==
  LET args == AsExpOrList(parsed.v.arg)
      raw == Eval(args.v[2], Ctx(o))
  IN  [ok |-> IsOk(args) /\ Len(args.v) = 2 /\ IsOk(raw) /\ IsOk(AsList(raw.v)),
       cond |-> args.v[1], list |-> AsList(raw.v).v]
CondOn(o, x) == Eval(CommandArgs(o).cond, SubCtx(Ctx(o), x))
IsBoolOutcome(r) == IsOk(r) /\ r.v.t = "bool"

(* @filter (spec: [lambda, list]) evaluates to the elements of the list   *)
(* whose condition is true, in their order, whenever the condition is a  *)
(* boolean on every element; this is what the loop of Evaluate's @filter *)
(* computes.                                                               *)
FilterMatchesReference ==
  evaluated # Pending /\ parsed.v.op = "@filter" =>
    \A o \in Objects :
      LET c == CommandArgs(o)
      IN  (c.ok /\ \A i \in DOMAIN c.list : IsBoolOutcome(CondOn(o, c.list[i]))) =>
            evaluated[o] = Ok(VList(SelectSeq(c.list, LAMBDA x : CondOn(o, x) = Ok(VBool(TRUE)))))

(* @any, @all and @none are the quantifiers over the list, and they stop  *)
(* at the first element that decides them: the outcome is an error only  *)
(* if an element before the deciding one has a condition that fails or is*)
(* not a boolean.                                                          *)
QuantifiersMatchReference ==
  evaluated # Pending /\ parsed.v.op \in {"@any", "@all", "@none"} =>
    \A o \in Objects :
      LET c == CommandArgs(o)
          stopOn == parsed.v.op # "@all"
          decides(i) == CondOn(o, c.list[i]) = Ok(VBool(stopOn))
          fails(i) == ~IsBoolOutcome(CondOn(o, c.list[i]))
          firstStop == {i \in DOMAIN c.list : decides(i) \/ fails(i)}
      IN  c.ok =>
            CASE firstStop = {} ->
                   evaluated[o] = Ok(VBool(parsed.v.op # "@any"))
              [] fails(SX!Min(firstStop)) -> ~IsOk(evaluated[o])
              [] OTHER -> evaluated[o] = Ok(VBool(parsed.v.op = "@any"))
ArgOn(o) == Eval(parsed.v.arg, Ctx(o))

(* The numeric coercion rule (spec, operator catalogue): the ordered      *)
(* comparisons compare the values of two numbers, int64 or float64, and  *)
(* @sum of int64s is their int64 sum while a float among them makes the  *)
(* sum a float64.                                                          *)
NumericOpsMatchReference ==
  evaluated # Pending =>
    \A o \in Objects :
      LET a == ArgOn(o)
          ns == a.v.l
          total == SX!FoldLeft(+, 0, [i \in DOMAIN ns |-> NumVal(ns[i])])
      IN  /\ (parsed.v.op \in {"@lt", "@lte", "@gt", "@gte"} /\ IsOk(a)
               /\ a.v.t = "list" /\ Len(a.v.l) = 2 /\ IsNum(ns[1]) /\ IsNum(ns[2])) =>
               LET x == NumVal(ns[1])
                   y == NumVal(ns[2])
               IN  evaluated[o] =
                     Ok(VBool(CASE parsed.v.op = "@lt" -> x < y
                                [] parsed.v.op = "@lte" -> x <= y
                                [] parsed.v.op = "@gt" -> x > y
                                [] OTHER -> x >= y))
          /\ (parsed.v.op = "@sum" /\ IsOk(a) /\ a.v.t = "list"
               /\ \A i \in DOMAIN ns : IsNum(ns[i])) =>
               evaluated[o] = IF \A j \in DOMAIN ns : ns[j].t = "int"
                              THEN Ok(VInt(total \div 2))
                              ELSE Ok(VFloat(total))

UnpackOnlySingletons ==
  evaluated # Pending /\ parsed.v.op = "@list" /\ parsed.v.arg = NoArg =>
    \A o \in Objects :
      LET vs == EvalList(parsed.v.lit.exps, Ctx(o))
      IN  IsOk(vs) => evaluated[o] = Ok(VList(SpecUnpack(vs.v)))

(* P1 (round trip): re-serialising a parsed expression gives JSON that   *)
(* parses to an expression with the same outcome on every object.        *)
RoundTrip ==
  reparsed # Pending =>
    /\ IsOk(reparsed)
    /\ \A o \in Objects : Eval(reparsed.v, Ctx(o)) = Eval(parsed.v, Ctx(o))

(* Failure modes (spec): an ill-typed coercion, a wrong arity or an      *)
(* unknown op is an expression error that propagates; evaluation never   *)
(* panics.                                                                 *)
EvalNeverPanics ==
  evaluated # Pending => \A o \in Objects : evaluated[o] # Panic

(* Decoding a JSON document either yields an expression or an error.      *)
UnmarshalNeverPanics == parsed # Panic
=============================================================================
