------------------------------- MODULE Meaning -------------------------------
(***************************************************************************)
(* What a program of the language means, from the language reference: an   *)
(* evaluator of the trees of Ast that knows nothing of registers, jumps or *)
(* instructions.  The compiled program must print and return the same.     *)
(*                                                                         *)
(* An environment maps each variable in scope to its cell; a store s holds *)
(* the cells, the arrays, the functions made and what was printed.  The    *)
(* reference leaves open when an operand that is a variable is read, and   *)
(* the programs evaluated here do not depend on it.                        *)
(***************************************************************************)
EXTENDS ConstGen, SequencesExt

EmptyStore == [cells |-> <<>>, arrays |-> <<>>, fns |-> <<>>, out |-> <<>>]
RuntimeError == StrV("error")

\* The outcome of an expression: a value, or the value thrown.
Value(s, v)  == [s |-> s, v |-> v, err |-> FALSE]
Thrown(s, v) == [s |-> s, v |-> v, err |-> TRUE]
Checked(s, v) == IF v = Error THEN Thrown(s, RuntimeError) ELSE Value(s, v)
Then(r, K(_, _)) == IF r.err THEN r ELSE K(r.s, r.v)

\* The outcome of a statement: the variables in scope after it, and how it
\* ended (sig): normally, by a jump, a return or a throw.
Ended(s, e, sig, v) == [s |-> s, env |-> e, sig |-> sig, v |-> v]
Normally(s, e) == Ended(s, e, "none", Null)
AfterValue(r, e, K(_, _)) == IF r.err THEN Ended(r.s, e, "throw", r.v) ELSE K(r.s, r.v)

NewCell(s, v) == [s EXCEPT !.cells = Append(@, v)]
Bind(s, e, x) == (x :> Len(s.cells)) @@ e          \* x is the newest cell

Element(s, c, k) ==
  IF c[1] = "array" /\ IsInt(k) /\ k[2] \in 0..(Len(s.arrays[c[2]]) - 1)
  THEN s.arrays[c[2]][k[2] + 1] ELSE Error
WithElement(s, c, k, v) == [s EXCEPT !.arrays[c[2]][k[2] + 1] = v]

RECURSIVE Ev(_, _, _), EvSeq(_, _, _), Exec(_, _, _), ExecSeq(_, _, _)

EvSeq(ns, e, s) ==
  IF ns = <<>> THEN Value(s, <<>>)
  ELSE Then(Ev(Head(ns), e, s), LAMBDA s1, v :
         Then(EvSeq(Tail(ns), e, s1), LAMBDA s2, vs : Value(s2, <<v>> \o vs)))

\* A place: a variable's cell, or an element with its container and key.
\* Update reads it, gives the new value and the result of the expression.
Update(n, rhs, e, s, New(_, _), Result(_, _)) ==
  LET SetCell(s1, old, v) ==
        IF v = Error THEN Thrown(s1, RuntimeError)
        ELSE Value([s1 EXCEPT !.cells[e[n.name]] = v], Result(old, v))
      Variable(s1, w) == SetCell(s1, s1.cells[e[n.name]], New(s1.cells[e[n.name]], w))
      SetElement(s1, vs, old, v) ==
        IF v = Error THEN Thrown(s1, RuntimeError)
        ELSE Value(WithElement(s1, vs[1], vs[2], v), Result(old, v))
      OfElement(s1, vs, old) ==
        SetElement(s1, vs, old, IF old = Error THEN Error ELSE New(old, vs[3]))
      Slot(s1, vs) == OfElement(s1, vs, Element(s1, vs[1], vs[2]))
  IN IF n.op = "ID" THEN Then(Ev(rhs, e, s), Variable)
     ELSE Then(EvSeq(<<n.receiver, n.key, rhs>>, e, s), Slot)

\* A call: the parameters left out take their default values.
Outcome(r) == IF r.sig = "throw" THEN Thrown(r.s, r.v) ELSE Value(r.s, r.v)
BindNew(s, e, x, v) == <<NewCell(s, v), Bind(NewCell(s, v), e, x)>>
BindSelf(fn, f, s) == IF fn.node.name = "" THEN <<s, fn.env>> ELSE BindNew(s, fn.env, fn.node.name, f)
WithParams(fn, all, se) ==
  FoldLeft(LAMBDA p, i : BindNew(p[1], p[2], fn.node.params[i].name, all[i]), se,
           [i \in 1..Len(fn.node.params) |-> i])
RunBody(fn, se) == Exec(fn.node.body, se[2], se[1])
CallClosure(fn, f, args, s, missing) ==
  IF missing \notin 0..Len(fn.defaults) THEN Thrown(s, RuntimeError)
  ELSE Outcome(RunBody(fn, WithParams(fn,
         args \o SubSeq(fn.defaults, Len(fn.defaults) - missing + 1, Len(fn.defaults)),
         BindSelf(fn, f, s))))
ApplyFn(fn, f, args, s) == CallClosure(fn, f, args, s, Len(fn.node.params) - Len(args))
Apply(f, args, s) ==
  CASE f = Native("print") /\ Len(args) = 1 ->
         Value([s EXCEPT !.out = Append(@, Text(args[1]))], Null)
    [] f = Native("type") -> Checked(s, CallPure(args))
    [] f[1] = "closure" -> ApplyFn(s.fns[f[2]], f, args, s)
    [] OTHER -> Thrown(s, RuntimeError)

Ev(n, e, s) ==
  CASE n.op = "LITERAL" -> Value(s, n.val)
    [] n.op = "ID" -> Value(s, IF n.name \in DOMAIN e THEN s.cells[e[n.name]] ELSE Consts[n.name])
    [] n.op \in {"PAREN", "INLINE_CONST"} -> Ev(n.arg, e, s)
    [] n.op = "NEG" -> Then(Ev(n.arg, e, s), LAMBDA s1, v : Checked(s1, Neg(v)))
    [] n.op = "NOT" -> Then(Ev(n.arg, e, s), LAMBDA s1, v : Value(s1, Not(v)))
    [] n.op \in LogicalOps ->
         Then(Ev(n.lhs, e, s), LAMBDA s1, v : IF Decides(n.op, v) THEN Value(s1, v)
                                              ELSE Ev(n.rhs, e, s1))
    [] n.op \in ArithOps \cup CompareOps \cup {"EQ", "NE"} ->
         Then(EvSeq(<<n.lhs, n.rhs>>, e, s), LAMBDA s1, vs : Checked(s1, BinaryOp(n.op, vs[1], vs[2])))
    [] n.op = "TERNARY" ->
         Then(Ev(n.a, e, s), LAMBDA s1, v : Ev(IF IsFalse(v) THEN n.c ELSE n.b, e, s1))
    [] n.op = "ASSIGN" -> Update(n.lhs, n.rhs, e, s, LAMBDA old, w : w, LAMBDA old, v : v)
    [] n.op = "COMPOUND" ->
         Update(n.lhs, n.rhs, e, s, LAMBDA old, w : Arith(n.aop, old, w), LAMBDA old, v : v)
    [] n.op = "INC" ->
         Update(n.arg, Literal(IntV(n.diff)), e, s, LAMBDA old, w : Arith("ADD", old, w),
                LAMBDA old, v : IF n.postfix THEN old ELSE v)
    [] n.op = "CALL" ->
         Then(Ev(n.callee, e, s), LAMBDA s1, f :
           Then(EvSeq(n.args, e, s1), LAMBDA s2, args : Apply(f, args, s2)))
    [] n.op = "ARRAY" ->
         Then(EvSeq(n.inits, e, s), LAMBDA s1, vs :
           Value([s1 EXCEPT !.arrays = Append(@, vs)], <<"array", Len(s1.arrays) + 1>>))
    [] n.op = "GETSLOT" ->
         Then(EvSeq(<<n.receiver, n.key>>, e, s), LAMBDA s1, vs : Checked(s1, Element(s1, vs[1], vs[2])))
    [] n.op = "COMMA" -> Then(EvSeq(n.exprs, e, s), LAMBDA s1, vs : Value(s1, Last(vs)))
    [] n.op = "CODE_BLOCK_EXPR" ->
         Outcome(Exec(n.block, e, s))
    [] n.op = "FUNCTION" ->
         LET defs == SelectSeq([i \in 1..Len(n.params) |-> n.params[i].def], LAMBDA d : d # None)
         IN Then(EvSeq(defs, e, s), LAMBDA s1, vs :
              Value([s1 EXCEPT !.fns = Append(@, [node |-> n, env |-> e, defaults |-> vs])],
                    <<"closure", Len(s1.fns) + 1>>))

---------------------------------------------------------------------------
(* Statements.                                                             *)

ExecRest(r, ns) == IF r.sig # "none" THEN r ELSE ExecSeq(ns, r.env, r.s)
ExecSeq(ns, e, s) == IF ns = <<>> THEN Normally(s, e) ELSE ExecRest(Exec(Head(ns), e, s), Tail(ns))

\* The test comes before the body (While), or after the first one.  After is
\* done at the end of each turn; a continue ends only the turn.
RECURSIVE While(_, _, _, _, _), Turn(_, _, _, _, _), Each(_, _, _, _, _)
While(cond, after, body, e, s) ==
  IF cond = None THEN Turn(cond, after, body, e, s)
  ELSE AfterValue(Ev(cond, e, s), e, LAMBDA s1, v :
         IF IsFalse(v) THEN Normally(s1, e) ELSE Turn(cond, after, body, e, s1))
AfterTurn(r, cond, after, body, e) ==
  CASE r.sig = "break" -> Normally(r.s, e)
    [] r.sig \in {"none", "continue"} ->
         IF after = None THEN While(cond, after, body, e, r.s)
         ELSE AfterValue(Ev(after, e, r.s), e, LAMBDA s1, v : While(cond, after, body, e, s1))
    [] OTHER -> r
Turn(cond, after, body, e, s) == AfterTurn(Exec(body, e, s), cond, after, body, e)

\* Turn i of a foreach over array a: both variables are new.
AfterEach(r, n, a, i, e) ==
  CASE r.sig = "break" -> Normally(r.s, e)
    [] r.sig \in {"none", "continue"} -> Each(n, a, i + 1, e, r.s)
    [] OTHER -> r
BindElement(n, se, v) == BindNew(se[1], se[2], n.name, v)
ExecIn(n, se) == Exec(n, se[2], se[1])
Each(n, a, i, e, s) ==
  IF i >= Len(s.arrays[a]) THEN Normally(s, e)
  ELSE AfterEach(ExecIn(n.body, BindElement(n, IF n.idx = "" THEN <<s, e>>
                                               ELSE BindNew(s, e, n.idx, IntV(i)),
                                            s.arrays[a][i + 1])), n, a, i, e)

\* The cases from the first one that equals v on, and then the default.
RECURSIVE Cases(_, _, _, _)
Cases(n, v, e, s) ==
  IF n.cases = <<>>
  THEN IF n.default = None THEN Normally(s, e) ELSE Exec(n.default, e, s)
  ELSE AfterValue(Ev(Head(n.cases).case, e, s), e, LAMBDA s1, w :
         IF IsEqual(v, w)
         THEN ExecSeq([i \in 1..Len(n.cases) |-> Block(<<n.cases[i].stmt>>)]
                        \o (IF n.default = None THEN <<>> ELSE <<Block(<<n.default>>)>>), e, s1)
         ELSE Cases([n EXCEPT !.cases = Tail(@)], v, e, s1))

LeavingScope(r, e) == [r EXCEPT !.env = e]
ForLoop(n, r) == IF r.sig # "none" THEN r ELSE While(n.cond, n.mod, n.body, r.env, r.s)
AfterSwitch(r, e) == [r EXCEPT !.env = e, !.sig = IF @ = "break" THEN "none" ELSE @]
Declared(se) == Normally(se[1], se[2])
CatchIf(r, n, e) ==
  IF r.sig = "throw" THEN ExecIn(n.catch, BindNew(r.s, e, n.name, r.v)) ELSE r
Exec(n, e, s) ==
  CASE n.op = "BLOCK" -> [ExecSeq(n.stmts, e, s) EXCEPT !.env = e]
    [] n.op = "VAR" ->
         AfterValue(IF n.init = None THEN Value(s, Null) ELSE Ev(n.init, e, s), e, LAMBDA s1, v :
           Declared(BindNew(s1, e, n.name, v)))
    [] n.op = "EXPR_STMT" -> AfterValue(Ev(n.arg, e, s), e, LAMBDA s1, v : Normally(s1, e))
    [] n.op = "IF" ->
         AfterValue(Ev(n.cond, e, s), e, LAMBDA s1, v :
           IF ~ IsFalse(v) THEN [Exec(n.then, e, s1) EXCEPT !.env = e]
           ELSE IF n.else = None THEN Normally(s1, e) ELSE [Exec(n.else, e, s1) EXCEPT !.env = e])
    [] n.op = "WHILE" -> While(n.cond, None, n.body, e, s)
    [] n.op = "DOWHILE" -> Turn(n.cond, None, n.body, e, s)
    [] n.op = "FOR" ->
         LeavingScope(ForLoop(n, IF n.init = None THEN Normally(s, e)
                                 ELSE IF n.init.op = "VAR" THEN Exec(n.init, e, s)
                                 ELSE Exec(ExprStatement(n.init), e, s)), e)
    [] n.op = "FOREACH" ->
         AfterValue(Ev(n.container, e, s), e, LAMBDA s1, v :
           IF v[1] = "array" THEN Each(n, v[2], 0, e, s1) ELSE Ended(s1, e, "throw", RuntimeError))
    [] n.op = "SWITCH" ->
         AfterValue(Ev(n.cond, e, s), e, LAMBDA s1, v :
           AfterSwitch(Cases(n, v, e, s1), e))
    [] n.op = "TRY" ->
         LeavingScope(CatchIf(Exec(n.try, e, s), n, e), e)
    [] n.op = "BREAK" -> Ended(s, e, "break", Null)
    [] n.op = "CONTINUE" -> Ended(s, e, "continue", Null)
    [] n.op = "RETURN" ->
         IF n.arg = None THEN Ended(s, e, "return", Null)
         ELSE AfterValue(Ev(n.arg, e, s), e, LAMBDA s1, v : Ended(s1, e, "return", v))
    [] n.op = "THROW" -> AfterValue(Ev(n.arg, e, s), e, LAMBDA s1, v : Ended(s1, e, "throw", v))

\* What the program prints, and whether it ends by an error.
Observed(r) == [out |-> r.s.out, failed |-> r.sig = "throw", result |-> Text(r.v)]
MeaningOf(root) == Observed(Exec(root, [x \in {} |-> 0], EmptyStore))

=============================================================================
