-------------------------- MODULE ExpressionOpsProofs --------------------------
(***************************************************************************)
(* Proofs about the operator layer of the expression language, for every  *)
(* integer and every float (in halves), not only the documents TLC tries: *)
(* the ordered comparisons follow the numeric coercion rule, the rounding *)
(* operators round, the operators applied to an argument's value never    *)
(* panic, and the two divergences the runs exhibit (the empty key of a    *)
(* JSON object, the unpacking of a list) happen exactly on the inputs     *)
(* stated here.                                                            *)
(***************************************************************************)
EXTENDS ExpressionOps, FiniteSetTheorems, SequenceTheorems, TLAPS

(* The numbers of the language: int64s and float64s (in halves).          *)
Numbers == {VInt(n) : n \in Int} \cup {VFloat(h) : h \in Int}

(* The reference order of two numbers on their values.                     *)
Compare(op, x, y) ==
  CASE op = "@lt" -> x < y [] op = "@lte" -> x <= y
    [] op = "@gt" -> x > y [] op = "@gte" -> x >= y

-----------------------------------------------------------------------------
(* The list of two numbers the comparisons convert their argument to: the *)
(* int64s themselves when both are int64s, else both widened to halves.  *)
LEMMA BinaryNumbers ==
  ASSUME NEW x \in Numbers, NEW y \in Numbers
  PROVE  LET nums == AsBinaryIntOrFloatList(VList(<<x, y>>))
         IN  /\ IsOk(nums)
             /\ nums.v.int <=> x.t = "int" /\ y.t = "int"
             /\ nums.v.int => nums.v.nums = <<x.i, y.i>>
             /\ ~nums.v.int => nums.v.nums = <<NumVal(x), NumVal(y)>>
<1>1. /\ x.t \in {"int", "float"} /\ y.t \in {"int", "float"}
      /\ (x.t = "int" => x.i \in Int) /\ (x.t = "float" => x.h \in Int)
      /\ (y.t = "int" => y.i \in Int) /\ (y.t = "float" => y.h \in Int)
  BY DEF Numbers, VInt, VFloat
<1>2. /\ DOMAIN <<x, y>> = {1, 2} /\ Len(<<x, y>>) = 2
      /\ <<x, y>>[1] = x /\ <<x, y>>[2] = y
  OBVIOUS
<1>3. AsFloat(x).v = NumVal(x) /\ AsFloat(y).v = NumVal(y)
  BY <1>1 DEF AsFloat, NumVal, Ok
<1>4. QED
  BY <1>1, <1>2, <1>3 DEF AsBinaryIntOrFloatList, AsIntOrFloatList, VList,
     IsOk, Ok, NumVal

(* The numeric coercion rule of the operator catalogue, for every pair of *)
(* numbers: @lt @lte @gt @gte compare the values of two int64s or         *)
(* float64s, an int64 widened when the other is a float64 (CompareOp,     *)
(* expression.go's @lt..@gte cases over asBinaryIntOrFloatList).          *)
THEOREM CompareFollowsCoercion ==
  ASSUME NEW op \in {"@lt", "@lte", "@gt", "@gte"},
         NEW x \in Numbers, NEW y \in Numbers
  PROVE  ApplyOp(op, VList(<<x, y>>)) = Ok(VBool(Compare(op, NumVal(x), NumVal(y))))
<1> DEFINE nums == AsBinaryIntOrFloatList(VList(<<x, y>>))
           a == nums.v.nums[1]
           b == nums.v.nums[2]
<1>1. ApplyOp(op, VList(<<x, y>>)) = CompareOp(op, VList(<<x, y>>))
  BY DEF ApplyOp
<1>2. CompareOp(op, VList(<<x, y>>)) = Ok(VBool(Compare(op, a, b)))
  BY BinaryNumbers DEF CompareOp, Compare
<1>3. Compare(op, a, b) = Compare(op, NumVal(x), NumVal(y))
  <2>1. CASE nums.v.int
    <3>1. a = x.i /\ b = y.i /\ x.t = "int" /\ y.t = "int"
      BY <2>1, BinaryNumbers
    <3>2. x.i \in Int /\ y.i \in Int
      BY <3>1 DEF Numbers, VInt, VFloat
    <3>3. NumVal(x) = 2 * a /\ NumVal(y) = 2 * b
      BY <3>1 DEF NumVal
    <3>4. QED
      BY <3>1, <3>2, <3>3 DEF Compare
  <2>2. CASE ~nums.v.int
    BY <2>2, BinaryNumbers
  <2>3. QED
    BY <2>1, <2>2
<1>4. QED
  BY <1>1, <1>2, <1>3

-----------------------------------------------------------------------------
(* An outcome that is a return, with a value or an error.                  *)
Returns(res) == res = Err \/ \E v : res = Ok(v)

(* The operators Evaluate applies to the value of its argument return an *)
(* error on every ill-typed or wrongly sized argument and never panic,    *)
(* whatever the value: the type switches of asBool, asList and the other  *)
(* helpers come before every index (BoolOp, CompareOp, SelectorOp,        *)
(* FloatOp, ListOp).  The panics of Evaluate come from its own cases.     *)
THEOREM OperatorsNeverPanic ==
  ASSUME NEW op, NEW arg
  PROVE  /\ Returns(ApplyOp(op, arg))
         /\ ApplyOp(op, arg) # Panic
<1>1. \A v : Ok(v) # Panic /\ Err # Panic
  BY DEF Ok, Err, Panic
<1>2. Returns(ApplyOp(op, arg))
  <2>1. CASE op \in {"@isnil", "@exists", "@not", "@eq", "@and", "@or"}
    BY <2>1 DEF ApplyOp, BoolOp, Returns
  <2>2. CASE op \in {"@lt", "@lte", "@gt", "@gte"}
    BY <2>2 DEF ApplyOp, CompareOp, Returns
  <2>3. CASE op = "@selector"
    <3> DEFINE pair == AsList(arg)
    <3>1. ApplyOp(op, arg) = SelectorOp(arg)
      BY <2>3 DEF ApplyOp
    <3>2. CASE ~IsOk(pair) \/ Len(pair.v) # 2
      BY <3>1, <3>2 DEF SelectorOp, Returns
    <3>3. CASE ~(~IsOk(pair) \/ Len(pair.v) # 2)
               /\ (pair.v[1] = VNull \/ pair.v[2] = VNull)
      <4>1. SelectorOp(arg) = Ok(VBool(FALSE))
        <5>1. ~(IsOk(AsObject(pair.v[1])) /\ IsOk(AsObject(pair.v[2])))
          BY <3>3 DEF AsObject, VNull, IsOk, Ok, Err
        <5>2. QED
          BY <3>3, <5>1 DEF SelectorOp
      <4>2. QED
        BY <3>1, <4>1 DEF Returns
    <3>4. CASE ~(~IsOk(pair) \/ Len(pair.v) # 2)
               /\ ~(pair.v[1] = VNull \/ pair.v[2] = VNull)
               /\ IsOk(AsObject(pair.v[1])) /\ IsOk(AsObject(pair.v[2]))
      <4>1. SelectorOp(arg)
              = Ok(VBool(MatchLabels(AsObject(pair.v[2]).v, AsObject(pair.v[1]).v).v))
        BY <3>4 DEF SelectorOp
      <4>2. QED
        BY <3>1, <4>1 DEF Returns
    <3>5. CASE ~(~IsOk(pair) \/ Len(pair.v) # 2)
               /\ ~(pair.v[1] = VNull \/ pair.v[2] = VNull)
               /\ ~(IsOk(AsObject(pair.v[1])) /\ IsOk(AsObject(pair.v[2])))
      BY <3>1, <3>5 DEF SelectorOp, Returns
    <3>6. QED
      BY <3>2, <3>3, <3>4, <3>5
  <2>4. CASE op \in {"@abs", "@ceil", "@floor"}
    BY <2>4 DEF ApplyOp, FloatOp, Returns
  <2>5. CASE op \in {"@sum", "@len", "@in", "@concat"}
    <3> DEFINE pair == AsList(arg)
               ns == AsIntOrFloatList(arg)
               total == SX!FoldLeft(+, 0, ns.v.nums)
               ss == AsStringList(arg)
    <3>1. ApplyOp(op, arg) = ListOp(op, arg)
      BY <2>5 DEF ApplyOp
    <3>2. CASE op = "@sum"
      <4>1. ListOp(op, arg) \in {Err, Ok(VInt(total)), Ok(VFloat(total))}
        BY <3>2 DEF ListOp
      <4>2. QED
        BY <3>1, <4>1 DEF Returns
    <3>3. CASE op = "@len"
      <4>1. ListOp(op, arg) \in {Err, Ok(VInt(Len(pair.v)))}
        BY <3>3 DEF ListOp
      <4>2. QED
        BY <3>1, <4>1 DEF Returns
    <3>4. CASE op = "@in"
      <4>1. ListOp(op, arg) = Err
            \/ ListOp(op, arg) = Ok(VBool(\E i \in DOMAIN AsList(pair.v[2]).v :
                                           AsList(pair.v[2]).v[i] = pair.v[1]))
        BY <3>4 DEF ListOp
      <4>2. QED
        BY <3>1, <4>1 DEF Returns
    <3>5. CASE op = "@concat"
      <4>1. ListOp(op, arg) \in {Err, Ok(VStr(SX!FoldLeft(\o, "", ss.v)))}
        BY <3>5 DEF ListOp
      <4>2. QED
        BY <3>1, <4>1 DEF Returns
    <3>6. QED
      BY <2>5, <3>2, <3>3, <3>4, <3>5
  <2>6. CASE op \notin {"@isnil", "@exists", "@not", "@eq", "@and", "@or",
                        "@lt", "@lte", "@gt", "@gte", "@selector",
                        "@abs", "@ceil", "@floor", "@sum", "@len", "@in", "@concat"}
    BY <2>6 DEF ApplyOp, Returns
  <2>7. QED
    BY <2>1, <2>2, <2>3, <2>4, <2>5, <2>6
<1>3. QED
  BY <1>1, <1>2 DEF Returns

-----------------------------------------------------------------------------
(* The rounding of a float h / 2 to a whole number c / 2, on halves.       *)
IsCeil(c, h) == c % 2 = 0 /\ h <= c /\ c < h + 2
IsFloor(c, h) == c % 2 = 0 /\ c <= h /\ h < c + 2

(* @ceil, @floor and @abs of every number are math.Ceil, math.Floor and   *)
(* math.Abs of its float64 value: the least whole number not below it, the*)
(* greatest not above it, and its magnitude, negative halves included     *)
(* (FloatOp over asFloat).                                                 *)
THEOREM RoundingIsMath ==
  ASSUME NEW x \in Numbers
  PROVE  /\ \E c \in Int : FloatOp("@ceil", x) = Ok(VFloat(c)) /\ IsCeil(c, NumVal(x))
         /\ \E c \in Int : FloatOp("@floor", x) = Ok(VFloat(c)) /\ IsFloor(c, NumVal(x))
         /\ \E c \in Int : FloatOp("@abs", x) = Ok(VFloat(c))
                          /\ c >= 0 /\ (c = NumVal(x) \/ c = -NumVal(x))
<1> DEFINE h == NumVal(x)
<1>1. IsOk(AsFloat(x)) /\ AsFloat(x).v = h /\ h \in Int
  BY DEF Numbers, VInt, VFloat, AsFloat, NumVal, IsOk, Ok
<1>2. FloatOp("@ceil", x) = Ok(VFloat(IF h % 2 = 0 THEN h ELSE h + 1))
  BY <1>1 DEF FloatOp
<1>3. FloatOp("@floor", x) = Ok(VFloat(IF h % 2 = 0 THEN h ELSE h - 1))
  BY <1>1 DEF FloatOp
<1>4. FloatOp("@abs", x) = Ok(VFloat(IF h < 0 THEN -h ELSE h))
  BY <1>1 DEF FloatOp
<1>5. h % 2 \in {0, 1}
  BY <1>1
<1>6. IsCeil(IF h % 2 = 0 THEN h ELSE h + 1, h)
  BY <1>1, <1>5 DEF IsCeil
<1>7. IsFloor(IF h % 2 = 0 THEN h ELSE h - 1, h)
  BY <1>1, <1>5 DEF IsFloor
<1>8. QED
  BY <1>1, <1>2, <1>3, <1>4, <1>6, <1>7

-----------------------------------------------------------------------------
(* The outcome of decoding one field of a JSON object.                     *)
IsOutcome(res) == res = Err \/ res = Panic \/ IsOk(res)

(* The key Go's map iteration yields for op in a one-key object is that   *)
(* key: CHOOSE over a singleton is its element.                           *)
LEMMA ChooseSingleton ==
  ASSUME NEW x, NEW S, S = {x}
  PROVE  (CHOOSE k \in S : TRUE) = x
<1>1. \A k \in S : k = x
  OBVIOUS
<1>2. (CHOOSE k \in S : TRUE) \in S
  OBVIOUS
<1>3. QED
  BY <1>1, <1>2

(* The object case of UnmarshalJSON panics exactly when decoding one of    *)
(* its fields panicked, or when every field decoded and the object is     *)
(* {"": x}: the only key is empty and op[0] indexes it (expression.go,    *)
(* the len(cv) == 1 branch).  A one-key object with any other key, and    *)
(* every object with more or fewer keys, decodes or returns an error.     *)
THEOREM EmptyKeyIsTheOnlyPanic ==
  ASSUME NEW D, IsFiniteSet(D), NEW Outs, NEW fs \in [D -> Outs],
         \A k \in D : IsOutcome(fs[k])
  PROVE  ObjectExp(fs) = Panic
           <=> \/ \E k \in D : fs[k] = Panic
               \/ D = {""} /\ \A k \in D : IsOk(fs[k])
<1>1. DOMAIN fs = D
  OBVIOUS
<1>2. \A v : Ok(v) # Panic /\ Err # Panic /\ ~IsOk(Panic)
  BY DEF Ok, Err, Panic, IsOk
<1>3. CASE ~\A k \in D : IsOk(fs[k])
  <2>1. ObjectExp(fs) = Failure({fs[k] : k \in D})
    BY <1>1, <1>3 DEF ObjectExp
  <2>2. QED
    BY <1>2, <1>3, <2>1 DEF Failure
<1>4. CASE \A k \in D : IsOk(fs[k])
  <2>1. ~\E k \in D : fs[k] = Panic
    BY <1>2, <1>4
  <2>2. (Cardinality(D) = 1 /\ (CHOOSE k \in D : TRUE) = "") <=> D = {""}
    <3>1. ASSUME Cardinality(D) = 1, (CHOOSE k \in D : TRUE) = ""
          PROVE  D = {""}
      <4>1. PICK x : D = {x}
        BY <3>1, FS_Singleton
      <4>2. (CHOOSE k \in D : TRUE) = x
        BY <4>1, ChooseSingleton
      <4>3. QED
        BY <3>1, <4>1, <4>2
    <3>2. ASSUME D = {""} PROVE Cardinality(D) = 1 /\ (CHOOSE k \in D : TRUE) = ""
      <4>1. Cardinality(D) = 1
        BY <3>2, FS_Singleton
      <4>2. (CHOOSE k \in D : TRUE) = ""
        BY <3>2, ChooseSingleton
      <4>3. QED
        BY <4>1, <4>2
    <3>3. QED
      BY <3>1, <3>2
  <2>3. CASE Cardinality(D) = 1 /\ (CHOOSE k \in D : TRUE) = ""
    <3>1. ObjectExp(fs) = Panic
      BY <1>1, <1>4, <2>3 DEF ObjectExp
    <3>2. QED
      BY <1>4, <2>2, <2>3, <3>1
  <2>4. CASE ~(Cardinality(D) = 1 /\ (CHOOSE k \in D : TRUE) = "")
    <3>1. ObjectExp(fs) # Panic
      <4>1. CASE Cardinality(D) # 1
        BY <1>1, <1>4, <4>1 DEF ObjectExp, Ok, Panic
      <4>2. CASE Cardinality(D) = 1
        <5>1. (CHOOSE k \in DOMAIN fs : TRUE) # ""
          BY <1>1, <2>4, <4>2
        <5>2. QED
          BY <1>1, <1>4, <4>2, <5>1 DEF ObjectExp, Ok, Panic
      <4>3. QED
        BY <4>1, <4>2
    <3>2. QED
      BY <2>1, <2>2, <2>4, <3>1
  <2>5. QED
    BY <2>3, <2>4
<1>5. QED
  BY <1>3, <1>4

(* unpackList (expression.go) departs from the @list unpacking rule only *)
(* where the finding on UnpackOnlySingletons says: a list of two or more *)
(* elements whose first is a list is replaced by that first list, which  *)
(* the rule keeps whole.  On every other list, of any length, the two    *)
(* agree.                                                                  *)
THEOREM UnpackDivergence ==
  ASSUME NEW S, NEW s \in Seq(S)
  PROVE  \/ UnpackList(s) = SpecUnpack(s)
         \/ /\ Len(s) >= 2 /\ s[1].t = "list"
            /\ UnpackList(s) = s[1].l /\ SpecUnpack(s) = s
<1>1. Len(s) \in Nat /\ (s # <<>> <=> Len(s) >= 1)
  BY EmptySeq, LenProperties
<1>2. CASE s = <<>> \/ s[1].t # "list"
  BY <1>1, <1>2 DEF UnpackList, SpecUnpack
<1>3. CASE s # <<>> /\ s[1].t = "list" /\ Len(s) = 1
  BY <1>3 DEF UnpackList, SpecUnpack
<1>4. CASE s # <<>> /\ s[1].t = "list" /\ Len(s) # 1
  <2>0. Len(s) # 0 /\ Len(s) # 1
    BY <1>4, EmptySeq
  <2>1. Len(s) >= 2
    <3>1. \A n \in Nat : n # 0 /\ n # 1 => n >= 2
      OBVIOUS
    <3>2. QED
      BY <1>1, <2>0, <3>1
  <2>2. UnpackList(s) = s[1].l /\ SpecUnpack(s) = s
    BY <1>4 DEF UnpackList, SpecUnpack
  <2>3. QED
    BY <1>4, <2>1, <2>2
<1>5. QED
  BY <1>2, <1>3, <1>4

=============================================================================
