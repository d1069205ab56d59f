----------------------------- MODULE MCMachine -----------------------------
(***************************************************************************)
(* Programs for Machine, and what must hold of their runs.  A family of    *)
(* programs is a context with every statement, or expression, of a set in  *)
(* it.  fs holds functions made by a program, called at its end to see     *)
(* which variables they captured; t prints its argument and returns it, so *)
(* that the order of evaluation is seen.                                   *)
(***************************************************************************)
EXTENDS Machine, CodeGen, Meaning

\* Tuples, so that TLC compiles each program once.
CompiledPrograms == <<>> \o [p \in 1..Len(Programs) |->
                               [plain |-> Generate(Programs[p], FALSE),
                                optimized |-> Generate(Programs[p], TRUE)]]
CompiledProgram(p, opt) ==
  IF opt THEN CompiledPrograms[p].optimized ELSE CompiledPrograms[p].plain
Meanings == <<>> \o [p \in 1..Len(Programs) |-> MeaningOf(Programs[p])]

---------------------------------------------------------------------------
(* Properties.                                                             *)

\* The compiled program prints, returns and fails as the program does, with
\* and without the optimizer.
MeansTheSame ==
  status # "running" =>
    status # "rejected" /\ [out |-> out, failed |-> status = "failed", result |-> Text(result)] = Meanings[prog]

\* The programs end: no jump of the compiler makes a loop that the program
\* has not.
Ends == <>(status # "running")

\* The registers that an instruction names belong to its frame, and the
\* next instruction to its function.  A captured variable that is still on
\* the stack is in a frame that is still there.
Named(i) ==
  CASE i.op \in {"LOAD", "LOADINT", "LOADBOOL", "NEWOBJ", "CLOSURE", "THROW", "JZ"} -> {i.a0}
    [] i.op \in ArithOps \cup {"CMP", "GET"} -> {i.a0, i.a1, i.a2}
    [] i.op = "CALL" -> {i.a1} \cup i.a2..(i.a2 + i.a3 - 1) \cup ({i.a0} \ {NoTarget})
    [] i.op \in {"FOREACH", "PREFOREACH"} -> {i.a0, i.a2, i.a2 + 1, i.a2 + 2}
    [] i.op = "DMOVE" -> {i.a0, i.a1, i.a2, i.a3}
    [] OTHER -> {}
InFrame ==
  /\ status = "running" => /\ ci.ip \in 0..(Len(Fn(ci.fn).code) - 1)
                           /\ \A r \in Named(i_) : r < Fn(ci.fn).stacksize
  /\ \A o \in 1..Len(outers) :
       outers[o].open => frames # <<>> /\ outers[o].pos < ci.base + Fn(ci.fn).stacksize

\* Each frame's traps are the last ones pushed; none is left at the end
\* (the assertion of _OP_RETURN: traps == 0).
TrapsBalanced ==
  LET count == FoldLeft(LAMBDA n, f : n + f.traps, 0, frames)
  IN Len(_etraps) = count /\ (status = "done" => _etraps = <<>>)

\* The expression of a memo is evaluated once.
MemoOnce == status = "running" /\ i_.op = "SAVE_STATIC_MEMO" => MemoKey(i_) \notin DOMAIN _staticmemos

---------------------------------------------------------------------------
(* Building programs.                                                      *)

N(k)       == Literal(IntV(k))
Call0(f)   == CallExpr(f, <<>>)
Call1(f, a) == CallExpr(f, <<a>>)
Show(e)    == ExprStatement(Call1(Id("print"), e))
Do(e)      == ExprStatement(e)
Set_(x, e) == Do(BinExpr("ASSIGN", Id(x), e))
Inc(x)     == IncExpr(Id(x), 1, TRUE)
Plus(a, b) == BinExpr("ADD", a, b)
Less(a, b) == BinExpr("LT", a, b)
Eq(a, b)   == BinExpr("EQ", a, b)
If(c, s)   == IfStatement(c, Block(<<s>>), None)
Lambda(ss) == FunctionExpr("", <<>>, BodyBlock(ss))
\* The d-th digit of k, written with digits below n.
Pick(seq, k, d) == seq[((k \div d) % Len(seq)) + 1]

\* A function that captures x and changes it at each call.
Counter(x) == Lambda(<<Do(Compound("ADD", Id(x), N(3))), ReturnStatement(Id(x))>>)
Element_(x, e) == GetSlotExpr(Id(x), e)
Keep(k, f) == Do(BinExpr("ASSIGN", Element_("fs", k), f))
CallKept(k) == If(BinExpr("NE", Element_("fs", N(k)), Literal(Null)), Show(Call0(Element_("fs", N(k)))))

\* Two turns over i, by each kind of loop.
Loop(kind, body) ==
  LET head == VarDecl("i", N(0))
      test == Less(Id("i"), N(2))
  IN CASE kind = "while" -> <<head, WhileStatement(test, Block(<<Do(Inc("i"))>> \o body))>>
       [] kind = "do"    -> <<head, DoWhileStatement(Block(<<Do(Inc("i"))>> \o body), test)>>
       [] kind = "for"   -> <<ForStatement(head, test, Inc("i"), Block(body))>>
       [] kind = "index" -> <<ForeachStatement("i", "e", ArrayExpr(<<N(6), N(6)>>), Block(body))>>
       [] kind = "value" -> <<ForeachStatement("", "i", ArrayExpr(<<N(1), N(0)>>), Block(body))>>
LoopKinds == <<"while", "do", "for", "index", "value">>

\* How a turn may end early, and what may stand around that.
Exits == <<BreakStatement, ContinueStatement, ReturnStatement(N(6)), ThrowStatement(N(6))>>
Around(k, s) ==
  CASE k = 1 -> If(Eq(Id("i"), N(1)), s)
    [] k = 2 -> TryStatement(Block(<<If(Eq(Id("i"), N(1)), s)>>), "x", Block(<<Show(Id("x"))>>))
    [] k = 3 -> TryStatement(Block(<<ThrowStatement(N(1))>>), "x", Block(<<If(Eq(Id("x"), Id("i")), s)>>))
    [] k = 4 -> ForStatement(VarDecl("j", N(0)), Less(Id("j"), N(1)), Inc("j"),
                             Block(<<VarDecl("d", Id("i")), Keep(N(0), Counter("d")), If(Id("d"), s)>>))
    [] k = 5 -> DoWhileStatement(Block(<<If(Id("i"), s)>>), N(0))
Captures == <<VarDecl("c", Id("i")), Keep(Id("i"), Counter("c"))>>

LoopProgram(k) ==
  LET s    == Around(Pick(<<1, 2, 3, 4, 5>>, k, 5), Pick(Exits, k, 25))
      body == Pick(<<<<s>> \o Captures, Captures \o <<s>>>>, k, 100)
  IN BodyBlock(<<VarDecl("fs", ArrayExpr(<<Literal(Null), Literal(Null), Literal(Null)>>)),
                 TryStatement(Block(<<Do(Call0(UnExpr("PAREN", Lambda(Loop(Pick(LoopKinds, k, 1), body)))))>>), "y",
                              Block(<<Show(Id("y"))>>)),
                 CallKept(0), CallKept(1), CallKept(1), CallKept(2)>>)
LoopPrograms == [k \in 1..200 |-> LoopProgram(k - 1)]

---------------------------------------------------------------------------
(* Every expression in every place.  x is a parameter, n a variable of the *)
(* function, g and a are captured; h is called twice, so that a memo is    *)
(* saved and then loaded.                                                  *)

Str(x)   == Literal(StrV(x))
Paren(e) == UnExpr("PAREN", e)
T(e)     == Call1(Id("t"), e)
Six      == BinExpr("MUL", N(2), Paren(N(3)))

Expressions ==
  <<N(1), Literal(Null), Literal(BoolV(TRUE)), Id("x"), Id("g"), Id("six"),
    Plus(Id("x"), N(1)), Plus(N(1), Id("g")), BinExpr("SUB", Id("x"), N(1)), BinExpr("MUL", Id("x"), Id("g")),
    BinExpr("DIV", N(6), Id("x")), BinExpr("MOD", Id("six"), N(2)), Plus(Six, N(1)),
    BinExpr("SUB", Paren(Plus(Six, N(1))), N(6)), BinExpr("ANDAND", Six, Id("x")),
    Less(Id("x"), N(1)), BinExpr("GE", N(1), Id("x")), Less(T(N(0)), Id("x")), Less(N(1), N(2)),
    Eq(Id("x"), N(1)), BinExpr("NE", Id("x"), Literal(Null)), Eq(N(1), Id("g")),
    UnExpr("NOT", Id("x")), UnExpr("NEG", Id("x")),
    BinExpr("ANDAND", Id("x"), T(N(1))), BinExpr("OROR", T(N(0)), Id("x")),
    BinExpr("NULLC", T(Literal(Null)), Id("x")), BinExpr("OROR", Paren(BinExpr("ANDAND", Id("x"), T(N(0)))), T(N(6))),
    TerExpr(Id("x"), T(N(6)), Id("x")), TerExpr(Less(Id("x"), N(1)), N(1), Paren(Plus(Id("x"), N(1)))),
    Plus(Paren(TerExpr(Id("x"), N(1), N(2))), N(6)),
    Element_("a", N(1)), Element_("a", Id("x")), Element_("a", N(6)),
    IncExpr(Id("n"), 1, TRUE), IncExpr(Id("n"), -1, FALSE), IncExpr(Id("g"), 1, TRUE),
    IncExpr(Element_("a", Id("x")), 1, FALSE), IncExpr(Element_("a", N(1)), 1, TRUE),
    Paren(BinExpr("ASSIGN", Id("n"), N(6))), Paren(Compound("ADD", Id("g"), Id("x"))),
    Paren(Compound("SUB", Element_("a", N(1)), N(1))), Paren(BinExpr("ASSIGN", Element_("a", Id("x")), N(6))),
    T(Id("x")), Call1(Id("type"), N(1)), Plus(Call1(Id("type"), N(1)), N(6)),
    Call0(Paren(Lambda(<<ReturnStatement(Id("x"))>>))), Call0(Element_("a", N(2))),
    CodeBlockExpr(Block(<<If(Id("x"), ReturnStatement(T(N(6)))), ReturnStatement(Id("n"))>>)),
    ArrayExpr(<<Id("x"), N(1), Literal(BoolV(TRUE)), Id("six"), Str("s")>>)>>

Place(k, e) ==
  CASE k = 1  -> <<Show(e)>>
    [] k = 2  -> <<VarDecl("y", e), VarDecl("z", None), Show(Id("y")), Show(Id("z"))>>
    [] k = 3  -> <<Set_("x", e)>>
    [] k = 4  -> <<Do(Compound("ADD", Id("x"), e))>>
    [] k = 5  -> <<Do(BinExpr("ASSIGN", Element_("a", N(0)), e)), Show(Element_("a", N(0)))>>
    [] k = 6  -> <<IfStatement(e, Show(N(1)), Show(N(2)))>>
    [] k = 7  -> <<WhileStatement(e, Block(<<Show(N(1)), BreakStatement>>))>>
    [] k = 8  -> <<VarDecl("k", N(0)),
                   DoWhileStatement(Block(<<If(Eq(IncExpr(Id("k"), 1, TRUE), N(1)), BreakStatement)>>), e)>>
    [] k = 9  -> <<ForStatement(VarDecl("k", N(0)), e, Inc("k"), If(Less(N(0), Id("k")), BreakStatement))>>
    [] k = 10 -> <<ReturnStatement(e)>>
    [] k = 11 -> <<Show(Eq(Paren(e), N(1)))>>
    [] k = 12 -> <<Show(BinExpr("OROR", Paren(e), T(N(6))))>>
    [] k = 13 -> <<Show(TerExpr(Paren(e), N(1), Id("x")))>>
    [] k = 14 -> <<Show(T(e))>>
    [] k = 15 -> <<Set_("g", e)>>
    [] k = 16 -> <<SwitchStatement(e, <<SwitchCase(N(1), Block(<<Show(N(1)), BreakStatement>>)),
                                        SwitchCase(Id("x"), Show(N(2)))>>, Show(N(6)))>>
    [] k = 17 -> <<TryStatement(ThrowStatement(e), "y", Show(Id("y")))>>
    [] k = 18 -> <<ForeachStatement("", "y", ArrayExpr(<<e, Id("x")>>), Show(Id("y")))>>
    [] k = 19 -> <<Do(e)>>
    [] k = 20 -> <<Show(BinExpr("NE", Paren(e), Id("x")))>>

Function(x, params, ss) == VarDecl(x, FunctionExpr(x, [k \in 1..Len(params) |-> ParamDecl(params[k], None)], BodyBlock(ss)))
Attempt(e) == TryStatement(Block(<<Show(e)>>), "y", Block(<<Show(Id("y"))>>))
InPlace(k, e) ==
  BodyBlock(<<VarDecl("g", N(1)), VarDecl("a", ArrayExpr(<<N(0), N(1), Literal(Null)>>)),
              Function("t", <<"v">>, <<Show(Id("v")), ReturnStatement(Id("v"))>>),
              Function("h", <<"x">>, <<VarDecl("n", N(1))>> \o Place(k, e) \o <<Show(Id("x")), Show(Id("n"))>>),
              Attempt(Call1(Id("h"), N(1))), Attempt(Call1(Id("h"), N(0))),
              Show(Id("g")), Show(Element_("a", N(1)))>>)

ExpressionProgram(k) == InPlace((k % 20) + 1, Pick(Expressions, k, 20))
ExpressionPrograms == [k \in 1..(20 * Len(Expressions)) |-> ExpressionProgram(k - 1)]

---------------------------------------------------------------------------
(* Every kind of function called in every way.  f is called with 2 by a    *)
(* function that captures u.                                               *)

Functions ==
  LET Def(params, ss) == VarDecl("f", FunctionExpr("f", params, BodyBlock(ss)))
      p == ParamDecl("p", None)
      Ret(e) == ReturnStatement(e)
      Smaller == BinExpr("SUB", Id("p"), N(1))
  IN <<Def(<<p>>, <<If(Eq(Id("p"), N(0)), Ret(N(0))), Ret(Plus(Id("p"), Call1(Id("f"), Smaller)))>>),
       Def(<<p, ParamDecl("q", Literal(Null))>>,
           <<VarDecl("r", Lambda(<<Ret(Id("p"))>>)),
             If(Eq(Id("p"), N(0)), Ret(Call0(Id("q")))),
             Ret(CallExpr(Id("f"), <<Smaller, Id("r")>>))>>),
       Def(<<p, ParamDecl("q", Call1(Id("t"), Id("u"))), ParamDecl("r", N(6))>>,
           <<If(Eq(Id("p"), N(0)), Ret(Plus(Id("q"), Id("r")))), Ret(CallExpr(Id("f"), <<N(0), Id("q")>>))>>),
       Def(<<>>, <<Ret(N(1))>>),
       Def(<<p>>, <<Do(BinExpr("ASSIGN", Id("v"), Counter("p"))), ThrowStatement(Call0(Id("v")))>>),
       Def(<<p>>, <<VarDecl("w", Id("p")), Do(BinExpr("ASSIGN", Id("v"), Counter("w"))),
                    Do(Inc("w")), Ret(Call0(Id("v")))>>),
       Def(<<p>>, <<Ret(Call0(Paren(Lambda(<<Do(Compound("ADD", Id("u"), Id("p"))),
                                             Ret(Call0(Paren(Lambda(<<Do(Inc("p")), Ret(Id("p"))>>))))>>))))>>),
       Def(<<p>>, <<TryStatement(Block(<<If(Id("p"), Ret(Call1(Id("f"), Literal(Null)))), ThrowStatement(Id("p"))>>),
                                 "x", Block(<<Do(BinExpr("ASSIGN", Id("v"), Lambda(<<Ret(Id("x"))>>))),
                                              ThrowStatement(N(6))>>))>>),
       VarDecl("f", Id("print")), VarDecl("f", Id("type")), VarDecl("f", N(1))>>

CallSite(k) ==
  LET call == Call1(Id("f"), N(2))
      ForEach(s) == ForeachStatement("", "z", ArrayExpr(<<N(0), N(1)>>), Block(<<s>>))
  IN CASE k = 1 -> <<Do(call)>>
       [] k = 2 -> <<ReturnStatement(call)>>
       [] k = 3 -> <<TryStatement(ReturnStatement(call), "y", ReturnStatement(Id("y")))>>
       [] k = 4 -> <<ForEach(TryStatement(Block(<<Show(call)>>), "y", Block(<<ContinueStatement>>)))>>
       [] k = 5 -> <<VarDecl("z", TerExpr(Eq(call, N(1)), call, Plus(call, N(1)))), ReturnStatement(Id("z"))>>
       [] k = 6 -> <<Show(CodeBlockExpr(Block(<<If(Id("m"), ReturnStatement(call)), ReturnStatement(N(6))>>)))>>
       [] k = 7 -> <<Do(BinExpr("ASSIGN", Id("v"), Lambda(<<Do(Inc("u")), ReturnStatement(call)>>))),
                     ReturnStatement(Call0(Id("v")))>>

CallProgram(k) ==
  BodyBlock(<<VarDecl("u", N(0)), VarDecl("v", Literal(Null)),
              Function("t", <<"e">>, <<Show(Id("e")), ReturnStatement(Id("e"))>>), Pick(Functions, k, 7),
              Function("h", <<"m">>, CallSite((k % 7) + 1)),
              Attempt(Call1(Id("h"), N(1))), Show(Id("u")),
              If(Id("v"), Attempt(Call0(Id("v")))), Attempt(Call1(Id("h"), N(1)))>>)
CallPrograms == [k \in 1..(7 * Len(Functions)) |-> CallProgram(k - 1)]

\* The three families one after the other.
AllPrograms ==
  LET l == 200  e == 20 * Len(Expressions)  c == 7 * Len(Functions)
  IN [k \in 1..(l + e + c) |->
        IF k <= l THEN LoopProgram(k - 1)
        ELSE IF k <= l + e THEN ExpressionProgram(k - l - 1) ELSE CallProgram(k - l - e - 1)]

---------------------------------------------------------------------------
(* Programs that the compiled code gives another meaning.                  *)

Main(ss) == <<BodyBlock(ss)>>
\* for (local i = 0; i < 2; i = x ? i + 1 : i + 2) { print(i); if (i != n) break; n++ }
ForModifierPrograms ==
  Main(<<VarDecl("x", N(1)), VarDecl("n", N(0)),
         ForStatement(VarDecl("i", N(0)), Less(Id("i"), N(2)),
                      BinExpr("ASSIGN", Id("i"), TerExpr(Id("x"), Plus(Id("i"), N(1)), Plus(Id("i"), N(2)))),
                      Block(<<Show(Id("i")), If(BinExpr("NE", Id("i"), Id("n")), BreakStatement), Do(Inc("n"))>>))>>)
\* foreach (i in [0, 1]) { local c = i; fs[i] = @() c; switch (i) { case 0: continue } }
SwitchContinuePrograms ==
  Main(<<VarDecl("fs", ArrayExpr(<<N(0), N(0)>>)),
         ForeachStatement("", "i", ArrayExpr(<<N(0), N(1)>>),
           Block(<<VarDecl("c", Id("i")), Keep(Id("i"), Lambda(<<ReturnStatement(Id("c"))>>)),
                   SwitchStatement(Id("i"), <<SwitchCase(N(0), Block(<<ContinueStatement>>))>>, None)>>)),
         Show(Call0(Element_("fs", N(0)))), Show(Call0(Element_("fs", N(1))))>>)
\* local s = "a"; print(1 + s)
ConcatPrograms == Main(<<VarDecl("s", Str("a")), Show(Plus(N(1), Id("s")))>>)
\* print(true || (1 / 0))
FoldErrorPrograms ==
  Main(<<Show(BinExpr("OROR", Literal(BoolV(TRUE)), Paren(BinExpr("DIV", N(1), N(0)))))>>)
\* print($${ foreach (z in [0, 1]) { if (z) return 2 }; return 6 })
CodeBlockReturnPrograms ==
  Main(<<Show(CodeBlockExpr(Block(<<
           ForeachStatement("", "z", ArrayExpr(<<N(0), N(1)>>), Block(<<If(Id("z"), ReturnStatement(N(2)))>>)),
           ReturnStatement(N(6))>>)))>>)
\* function f(a) { a = 1; let b = a + 2; print(b); return a }   print(f(7))
ParameterPrograms ==
  Main(<<Function("f", <<"a">>, <<Set_("a", N(1)), VarDecl("b", Plus(Id("a"), N(2))), Show(Id("b")),
                                  ReturnStatement(Id("a"))>>),
         Show(Call1(Id("f"), N(7)))>>)
\* let f = function f(n) { return n ? f(0) : 6 }; let g = function f(n) { return n ? f(0) : 1 }; print(g(1))
CalleeNamePrograms ==
  LET Def(x, k) == VarDecl(x, FunctionExpr("f", <<ParamDecl("n", None)>>,
                     BodyBlock(<<ReturnStatement(TerExpr(Id("n"), Call1(Id("f"), N(0)), N(k)))>>)))
  IN Main(<<Def("f", 6), Def("g", 1), Show(Call1(Id("g"), N(1)))>>)
\* [print][t(0)](t(1))
CalleeOrderPrograms ==
  Main(<<Function("t", <<"v">>, <<Show(Id("v")), ReturnStatement(Id("v"))>>),
         Do(Call1(GetSlotExpr(ArrayExpr(<<Id("print")>>), T(N(0))), T(N(6))))>>)

\* The arguments of a call are evaluated before the expression called.
ArgumentsFirst == status = "done" => out[1] = Text(IntV(6))

=============================================================================
