-------------------------------- MODULE Ast --------------------------------
(***************************************************************************)
(* The syntax trees the parser hands to the code generator                 *)
(* (compiler/ast.h): one constructor per node class that CodeGen compiles. *)
(* Positions in the source text, visitors and transformers are left out.   *)
(* A value is a tagged tuple; strings are the strings of TLA+.             *)
(***************************************************************************)
EXTENDS Integers, Sequences

Null      == <<"null">>
IntV(n)   == <<"int", n>>
BoolV(b)  == <<"bool", b>>
StrV(s)   == <<"str", s>>
Native(s) == <<"native", s>>

\* An absent child: no else branch, no initializer, no argument.
None == [op |-> "NONE"]

---------------------------------------------------------------------------
(* Expressions.                                                            *)

Literal(v)        == [op |-> "LITERAL", val |-> v]
Id(x)             == [op |-> "ID", name |-> x]
UnExpr(op, e)     == [op |-> op, arg |-> e]
BinExpr(op, l, r) == [op |-> op, lhs |-> l, rhs |-> r]
Compound(op, l, r) == [op |-> "COMPOUND", aop |-> op, lhs |-> l, rhs |-> r]
TerExpr(a, b, c)  == [op |-> "TERNARY", a |-> a, b |-> b, c |-> c]
IncExpr(e, d, postfix) == [op |-> "INC", arg |-> e, diff |-> d, postfix |-> postfix]
CallExpr(f, args) == [op |-> "CALL", callee |-> f, args |-> args]
ArrayExpr(es)     == [op |-> "ARRAY", inits |-> es]
GetSlotExpr(e, k) == [op |-> "GETSLOT", receiver |-> e, key |-> k]
CommaExpr(es)     == [op |-> "COMMA", exprs |-> es]
CodeBlockExpr(b)  == [op |-> "CODE_BLOCK_EXPR", block |-> b]
ParamDecl(x, def) == [name |-> x, def |-> def]
FunctionExpr(x, params, body) ==
  [op |-> "FUNCTION", name |-> x, params |-> params, body |-> body]

---------------------------------------------------------------------------
(* Statements.  A block is the body of a function, or a nested one.        *)

Block(ss)     == [op |-> "BLOCK", stmts |-> ss, isBody |-> FALSE]
BodyBlock(ss) == [op |-> "BLOCK", stmts |-> ss, isBody |-> TRUE]
VarDecl(x, init)      == [op |-> "VAR", name |-> x, init |-> init]
IfStatement(e, t, f)  == [op |-> "IF", cond |-> e, then |-> t, else |-> f]
WhileStatement(e, s)  == [op |-> "WHILE", cond |-> e, body |-> s]
DoWhileStatement(s, e) == [op |-> "DOWHILE", cond |-> e, body |-> s]
ForStatement(i, e, m, s) ==
  [op |-> "FOR", init |-> i, cond |-> e, mod |-> m, body |-> s]
ForeachStatement(x, v, e, s) ==
  [op |-> "FOREACH", idx |-> x, name |-> v, container |-> e, body |-> s]
SwitchStatement(e, cases, d) ==
  [op |-> "SWITCH", cond |-> e, cases |-> cases, default |-> d]
SwitchCase(v, s)      == [case |-> v, stmt |-> s]
TryStatement(t, x, s) == [op |-> "TRY", try |-> t, name |-> x, catch |-> s]
ReturnStatement(e)    == [op |-> "RETURN", arg |-> e]
ThrowStatement(e)     == [op |-> "THROW", arg |-> e]
ExprStatement(e)      == [op |-> "EXPR_STMT", arg |-> e]
BreakStatement        == [op |-> "BREAK"]
ContinueStatement     == [op |-> "CONTINUE"]

=============================================================================
