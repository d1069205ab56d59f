------------------------------ MODULE ConstGen ------------------------------
(***************************************************************************)
(* The arithmetic of the interpreter (ARITH_OP, CMP_OP_RES, IsEqual,       *)
(* IsFalse of sqvm.cpp) and the evaluator of constant expressions of the   *)
(* compiler (compiler/constgen.cpp), which folds them with it.             *)
(*                                                                         *)
(* A result is a value, or Error: the operation raised.  Integers are      *)
(* those of TLA+; floats are left out.                                     *)
(***************************************************************************)
EXTENDS Ast, TLC

Error == <<"error">>

\* The named constants in scope: the host's functions and the program's.
Consts == [print |-> Native("print"), type |-> Native("type"), six |-> IntV(6)]
IsConstant(x) == x \in DOMAIN Consts
IsPureFunction(v) == v = Native("type")

IsInt(v) == v[1] = "int"
IsStr(v) == v[1] = "str"
IsFalse(v) == v \in {Null, BoolV(FALSE), IntV(0)}
IsEqual(v, w) == v = w

Text(v) == CASE IsStr(v) -> v[2]
             [] IsInt(v) -> ToString(v[2])
             [] v[1] = "bool" -> IF v[2] THEN "true" ELSE "false"
             [] OTHER -> v[1]

\* Division truncates towards zero.
Quot(m, n) ==
  LET Magnitude(i) == IF i < 0 THEN -i ELSE i
      q == Magnitude(m) \div Magnitude(n)
  IN IF (m < 0) = (n < 0) THEN q ELSE -q

\* The types are combined with |, and the type of null is 0: null counts as
\* the integer 0 when the other operand is an integer.
Number(v) == IF v = Null THEN 0 ELSE v[2]

Arith(op, v, w) ==
  LET m == Number(v)
      n == Number(w)
  IN
  IF {v[1], w[1]} \subseteq {"int", "null"} /\ {v, w} # {Null}
  THEN CASE op = "ADD" -> IntV(m + n)
         [] op = "SUB" -> IntV(m - n)
         [] op = "MUL" -> IntV(m * n)
         [] op = "DIV" -> IF n = 0 THEN Error ELSE IntV(Quot(m, n))
         [] op = "MOD" -> IF n = 0 THEN Error ELSE IntV(m - n * Quot(m, n))
  ELSE IF op = "ADD" /\ (IsStr(v) \/ IsStr(w)) THEN StrV(Text(v) \o Text(w)) ELSE Error

Neg(v) == IF IsInt(v) THEN IntV(- v[2]) ELSE Error
Not(v) == BoolV(IsFalse(v))

\* The order of two values, an integer, or Error.  null precedes every value
\* of another type; the programs compare no two different strings.
ObjCmp(v, w) ==
  CASE v = w -> IntV(0)
    [] v[1] = w[1] /\ v[1] = "int" -> IntV(v[2] - w[2])
    [] v[1] = w[1] /\ v[1] = "bool" -> IntV(IF w[2] THEN -1 ELSE 1)
    [] v[1] # w[1] /\ v = Null -> IntV(-1)
    [] v[1] # w[1] /\ w = Null -> IntV(1)
    [] OTHER -> Error

Compare(op, v, w) ==
  LET r == ObjCmp(v, w)
  IN IF r = Error THEN Error
     ELSE BoolV(CASE op = "LT" -> r[2] < 0
                  [] op = "LE" -> r[2] <= 0
                  [] op = "GT" -> r[2] > 0
                  [] op = "GE" -> r[2] >= 0)

ArithOps   == {"ADD", "SUB", "MUL", "DIV", "MOD"}
CompareOps == {"LT", "LE", "GT", "GE"}
LogicalOps == {"ANDAND", "OROR", "NULLC"}

BinaryOp(op, v, w) ==
  CASE op \in ArithOps -> Arith(op, v, w)
    [] op \in CompareOps -> Compare(op, v, w)
    [] op = "EQ" -> BoolV(IsEqual(v, w))
    [] op = "NE" -> BoolV(~ IsEqual(v, w))

\* && || ?? : whether the value of the first operand is the result.
Decides(op, v) == CASE op = "ANDAND" -> IsFalse(v)
                    [] op = "OROR" -> ~ IsFalse(v)
                    [] op = "NULLC" -> v # Null

TypeName(v) == CASE v[1] = "int" -> "integer" [] v[1] = "str" -> "string" [] OTHER -> v[1]
CallPure(args) == IF Len(args) = 1 THEN StrV(TypeName(args[1])) ELSE Error

---------------------------------------------------------------------------
(* Both operands are evaluated whatever the operator: an error in one that *)
(* would not be reached is an error of the compilation.                    *)

RECURSIVE ConstValue(_)
ConstValue(n) ==
  CASE n.op = "LITERAL" -> n.val
    [] n.op = "ID" -> IF IsConstant(n.name) THEN Consts[n.name] ELSE Error
    [] n.op \in {"PAREN", "INLINE_CONST"} -> ConstValue(n.arg)
    [] n.op = "NEG" -> Neg(ConstValue(n.arg))
    [] n.op = "NOT" -> LET v == ConstValue(n.arg) IN IF v = Error THEN Error ELSE Not(v)
    [] n.op \in ArithOps \cup CompareOps \cup LogicalOps \cup {"EQ", "NE"} ->
         LET v == ConstValue(n.lhs)
             w == ConstValue(n.rhs)
         IN IF Error \in {v, w} THEN Error
            ELSE IF n.op \in LogicalOps THEN IF Decides(n.op, v) THEN v ELSE w
            ELSE BinaryOp(n.op, v, w)
    [] n.op = "TERNARY" ->
         LET v == ConstValue(n.a)
         IN IF v = Error THEN Error
            ELSE ConstValue(IF IsFalse(v) THEN n.c ELSE n.b)
    [] OTHER -> Error

=============================================================================
