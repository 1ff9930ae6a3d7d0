---------------------------- MODULE MCExpression ----------------------------
(***************************************************************************)
(* The documents decoded: every scalar kind (null, booleans, a number      *)
(* written with and without a fraction, a half, strings including "$",    *)
(* "$.a" and ""), lists of them and of lists, every operator applied to   *)
(* them, the list commands with conditions that hold, fail or are not     *)
(* boolean, and maps with one key, two keys and an empty key.             *)
(***************************************************************************)
EXTENDS Expression

One == JNum(2, FALSE)            \* 1
OnePt == JNum(2, TRUE)           \* 1.0
Half == JNum(1, TRUE)            \* 0.5
Three == JNum(6, FALSE)          \* 3
MinusHalf == JNum(-1, TRUE)      \* -0.5

Scalars == {JNull, JBool(TRUE), JBool(FALSE), One, OnePt, Half, Three,
            MinusHalf, JStr("a"), JStr("$.a"), JStr("")}
Numbers == {One, OnePt, Half, Three}
Pairs == {JArr(<<x, y>>) : x \in Numbers \cup {JStr("a")}, y \in Numbers}
         \cup {JArr(<<JBool(b), JBool(c)>>) : b, c \in BOOLEAN}
         \cup {JArr(<<JStr("a"), JStr("$.a")>>), JArr(<<One, JArr(<<One, Three>>)>>)}
Lists == {JArr(<<>>), JArr(<<One, Three, Half>>), JArr(<<Three, JStr("a"), One>>),
          JArr(<<JArr(<<One>>), JArr(<<Three>>)>>), JArr(<<JArr(<<One, Three>>)>>),
          JArr(<<JNull, One>>)}
Conds == {JObj("@gt" :> JArr(<<JStr("$"), One>>)),
          JObj("@lte" :> JArr(<<JStr("$"), OnePt>>)),
          JObj("@not" :> JStr("$"))}

Unary == {JObj(op :> x) : op \in {"@not", "@isnil", "@exists", "@abs", "@ceil",
                                  "@floor", "@len", "@int", "@float", "@string"},
                          x \in Scalars}
Binary == {JObj(op :> p) : op \in {"@lt", "@lte", "@gt", "@gte", "@eq", "@and",
                                   "@or", "@sum", "@in", "@concat", "@selector",
                                   "@list"},
                           p \in Pairs}
Commands == {JObj(op :> JArr(<<c, l>>)) : op \in ListCommands, c \in Conds, l \in Lists}
            \cup {JObj("@map" :> JArr(<<c>>)) : c \in Conds}
Maps == {JObj(("a" :> x) @@ ("b" :> One)) : x \in Scalars}
        \cup {JObj("" :> One), JObj("a" :> Half), JObj("@nop" :> One)}

MCDocs == Scalars \cup Pairs \cup Lists \cup Unary \cup Binary \cup Commands \cup Maps
MCObjects == {VMap("a" :> VInt(1)), VMap("a" :> VFloat(1))}
=============================================================================
