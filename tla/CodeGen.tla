------------------------------- MODULE CodeGen -------------------------------
(***************************************************************************)
(* The code generator (CodeGenVisitor, compiler/codegen.cpp): it walks the *)
(* tree of a program once and adds the instructions of each node to the    *)
(* function being compiled.  Gen(c, n) is the compilation c after node n;  *)
(* the value of an expression is on top of the stack of targets.           *)
(*                                                                         *)
(* Tables, classes, generators, types of variables, line information and   *)
(* documentation objects are left out.  An error of the compilation is the *)
(* field error of the outermost function.                                  *)
(***************************************************************************)
EXTENDS ConstGen, Optimizer

CompileError(c) == [c EXCEPT ![1].error = TRUE]

\* How the code names an operation, by the operator of the tree.
OpCode(op) ==
  CASE op \in CompareOps -> "CMP"
    [] op = "ANDAND" -> "AND" [] op = "OROR" -> "OR" [] op = "NULLC" -> "NULLCOALESCE"
    [] OTHER -> op
CmpCode(op) == CASE op = "GT" -> 0 [] op = "GE" -> 2 [] op = "LT" -> 3 [] op = "LE" -> 4 [] OTHER -> 0

---------------------------------------------------------------------------
(* Scopes and blocks that break and continue leave.                        *)

Height(c) == Len(Cur(c).locals)
BeginScope(c) == With(c, [Cur(c) EXCEPT !.scope = Height(c)])
EndScopeNoClose(c, old) ==
  With(c, [Cur(SetStackSize(c, Cur(c).scope)) EXCEPT !.scope = old])
ToScope(c, old) == With(c, [Cur(c) EXCEPT !.scope = old])
CloseIfLess(c, before, at) ==
  IF Cur(c).outers # before THEN AddInstruction(c, "CLOSE", 0, at, 0, 0) ELSE c
EndScope(c, old) ==
  ToScope(CloseIfLess(SetStackSize(c, Cur(c).scope), Cur(c).outers, Cur(c).scope), old)
Scoped(c, Body(_)) == EndScope(Body(BeginScope(c)), Cur(c).scope)

\* An instruction whose result is the target, or a new target.
AddTo(c, op, a1, a2, a3) == AddInstruction(c, op, TopTarget(c), a1, a2, a3)
AddToNew(c, op, a1, a2, a3) == AddTo(PushTarget(c), op, a1, a2, a3)
\* The value on top decides a jump; it goes.
AddJumpOn(c, op, a1, a2) == AddInstruction(PopTarget(c), op, TopTarget(c), a1, a2, 0)
AddJump(c) == AddInstruction(c, "JMP", 0, 0, 0, 0)
\* The jump at position p goes to the next instruction.
JumpHere(c, p) == SetParam1(c, p, CurrentPos(c) - p)

BeginBreakableBlock(c) ==
  With(c, [Cur(c) EXCEPT !.breaktargets = Append(@, 0),
                         !.continuetargets = Append(@, 0),
                         !.blocks = Append(@, Cur(c).scope)])

\* The jumps at the positions ps go to position at.
RECURSIVE Resolve(_, _, _)
Resolve(c, ps, at) ==
  IF ps = <<>> THEN c
  ELSE Resolve(SetParams(c, Head(ps), 0, at - Head(ps), 0, 0), Tail(ps), at)

From(seq, n) == SubSeq(seq, n + 1, Len(seq))
KeepBreaks(c, n) == With(c, [Cur(c) EXCEPT !.breaks = SubSeq(@, 1, n)])
KeepContinues(c, n) == With(c, [Cur(c) EXCEPT !.continues = SubSeq(@, 1, n)])
ResolveBreaks(c, n) == KeepBreaks(Resolve(c, From(Cur(c).breaks, n), CurrentPos(c)), n)
ResolveContinues(c, n, at) == KeepContinues(Resolve(c, From(Cur(c).continues, n), at), n)

\* old: the compilation when the block began.
PopBlock(c) == With(c, [Cur(c) EXCEPT !.breaktargets = Front(@), !.continuetargets = Front(@),
                                      !.blocks = Front(@)])
EndBreakableBlock(c, old, at) ==
  PopBlock(ResolveBreaks(ResolveContinues(c, Len(Cur(old).continues), at),
                         Len(Cur(old).breaks)))

ResolveOuters(c) ==
  LET at == Last(Cur(c).blocks)
  IN IF CountOuters(Cur(c), at) > 0 THEN AddInstruction(c, "CLOSE", 0, at, 0, 0) ELSE c

PopTraps(c, n) == IF n > 0 THEN AddInstruction(c, "POPTRAP", n, 0, 0, 0) ELSE c

\* A jump out of the block, to be resolved when the block ends.
Listed(c, jumps) ==
  With(c, IF jumps = "breaks" THEN [Cur(c) EXCEPT !.breaks = Append(@, CurrentPos(c))]
          ELSE [Cur(c) EXCEPT !.continues = Append(@, CurrentPos(c))])
Leave(c, jumps) == Listed(AddJump(c), jumps)

Complexity(c, k) == With(c, [Cur(c) EXCEPT !.complexity = @ + k])
Bump(seq, k) == IF seq = <<>> THEN seq ELSE [seq EXCEPT ![Len(seq)] = @ + k]
CountTraps(c, k) ==
  With(c, [Cur(c) EXCEPT !.traps = @ + k, !.breaktargets = Bump(@, k),
                         !.continuetargets = Bump(@, k)])

---------------------------------------------------------------------------
(* Values known when compiling.                                            *)

RECURSIVE HasOuter(_, _, _)
HasOuter(c, k, x) == k > 1 /\ (LocalVariable(c[k - 1], x) # -1 \/ HasOuter(c, k - 1, x))
IsVariable(c, x) == LocalVariable(Cur(c), x) # -1 \/ HasOuter(c, Len(c), x)

RECURSIVE ConstEvaluable(_, _)
ConstEvaluable(c, n) ==
  CASE n.op \in {"PAREN", "INLINE_CONST", "NEG", "NOT"} -> ConstEvaluable(c, n.arg)
    [] n.op = "LITERAL" -> TRUE
    [] n.op = "ID" -> ~ IsVariable(c, n.name) /\ IsConstant(n.name)
    [] n.op \in ArithOps \cup CompareOps \cup LogicalOps \cup {"EQ", "NE"} ->
         ConstEvaluable(c, n.lhs) /\ ConstEvaluable(c, n.rhs)
    [] n.op = "TERNARY" -> \A m \in {n.a, n.b, n.c} : ConstEvaluable(c, m)
    [] OTHER -> FALSE

\* How much work a constant expression saves, 0 if it is not constant.
ConstScoreThreshold == 10
RECURSIVE ConstScore(_)
ConstScore(n) ==
  CASE n.op \in {"LITERAL", "INLINE_CONST"} -> 1
    [] n.op = "ID" -> IF IsConstant(n.name) THEN 1 ELSE 0
    [] n.op \in {"NEG", "NOT", "PAREN"} ->
         IF ConstScore(n.arg) = 0 THEN 0 ELSE ConstScore(n.arg) + 1
    [] n.op \in ArithOps \cup CompareOps \cup LogicalOps \cup {"EQ", "NE"} ->
         IF 0 \in {ConstScore(n.lhs), ConstScore(n.rhs)} THEN 0
         ELSE ConstScore(n.lhs) + ConstScore(n.rhs) + 1
    [] n.op = "TERNARY" ->
         LET scores == {ConstScore(n.a), ConstScore(n.b), ConstScore(n.c)}
         IN IF 0 \in scores THEN 0
            ELSE ConstScore(n.a) + ConstScore(n.b) + ConstScore(n.c) + 1
    [] n.op = "CALL" ->
         IF /\ n.callee.op = "ID" /\ IsConstant(n.callee.name)
            /\ IsPureFunction(Consts[n.callee.name])
            /\ \A i \in 1..Len(n.args) : ConstScore(n.args[i]) > 0
         THEN 20 + FoldLeft(LAMBDA s, m : s + ConstScore(m) + 1, 0, n.args) ELSE 0
    [] OTHER -> 0

IsIntLiteral(n) == n.op = "LITERAL" /\ IsInt(n.val)

LoadConstant(c, v, r) ==
  CASE v[1] = "int"  -> AddInstruction(c, "LOADINT", r, v[2], 0, 0)
    [] v[1] = "bool" -> AddInstruction(c, "LOADBOOL", r, IF v[2] THEN 1 ELSE 0, 0, 0)
    [] v[1] = "null" -> AddInstruction(c, "LOADNULLS", r, 1, 0, 0)
    [] OTHER -> AddInstruction(GetConstant(c, v), "LOAD", r,
                               ConstantIndex(AddConstant(Cur(c).lits, v), v), 0, 0)
LoadToTarget(c, v) == LoadConstant(c, v, TopTarget(c))
PushConstant(c, v) == LoadToTarget(PushTarget(c), v)

MoveTo(c, r, s) == IF r # s THEN AddInstruction(c, "MOVE", r, s, 0, 0) ELSE c
\* The value on top, in register trg, is popped.
PopMoving(c, trg) == MoveTo(PopTarget(c), trg, TopTarget(c))
MoveIfCurrentTargetIsLocal(c) ==
  IF IsLocal(c, TopTarget(c)) THEN AddToNew(PopTarget(c), "MOVE", TopTarget(c), 0, 0) ELSE c

RECURSIVE Names(_)
\* The names used behind a function, in a statement (CaptureScanVisitor).
RECURSIVE CapturedIn(_)

ChildrenOf(n) ==
  CASE n.op \in {"LITERAL", "ID", "NONE", "BREAK", "CONTINUE"} -> {}
    [] n.op \in {"PAREN", "INLINE_CONST", "NEG", "NOT", "INC", "RETURN", "THROW", "EXPR_STMT"} -> {n.arg}
    [] n.op = "TERNARY" -> {n.a, n.b, n.c}
    [] n.op = "CALL" -> {n.callee} \cup {n.args[i] : i \in 1..Len(n.args)}
    [] n.op = "ARRAY" -> {n.inits[i] : i \in 1..Len(n.inits)}
    [] n.op = "COMMA" -> {n.exprs[i] : i \in 1..Len(n.exprs)}
    [] n.op = "GETSLOT" -> {n.receiver, n.key}
    [] n.op = "CODE_BLOCK_EXPR" -> {n.block}
    [] n.op = "FUNCTION" -> {n.body} \cup {n.params[i].def : i \in 1..Len(n.params)}
    [] n.op = "BLOCK" -> {n.stmts[i] : i \in 1..Len(n.stmts)}
    [] n.op = "VAR" -> {n.init}
    [] n.op = "IF" -> {n.cond, n.then, n.else}
    [] n.op \in {"WHILE", "DOWHILE"} -> {n.cond, n.body}
    [] n.op = "FOR" -> {n.init, n.cond, n.mod, n.body}
    [] n.op = "FOREACH" -> {n.container, n.body}
    [] n.op = "SWITCH" -> {n.cond, n.default}
                          \cup UNION {{n.cases[i].case, n.cases[i].stmt} : i \in 1..Len(n.cases)}
    [] n.op = "TRY" -> {n.try, n.catch}
    [] OTHER -> {n.lhs, n.rhs}

Names(n) == IF n.op = "ID" THEN {n.name} ELSE UNION {Names(m) : m \in ChildrenOf(n)}
CapturedIn(n) == IF n.op = "FUNCTION" THEN Names(n)
                 ELSE UNION {CapturedIn(m) : m \in ChildrenOf(n)}

---------------------------------------------------------------------------
(* The nodes.  Gen: for the value of an expression; GenTarget: for a       *)
(* place to assign to or to call, an element being left as its container   *)
(* and its key.                                                            *)

RECURSIVE Gen(_, _), GenNode(_, _), GenFunction(_, _)

ToFold(c, n) == n.op \notin {"LITERAL", "ID"} /\ ConstEvaluable(c, n)
Memoizes(c, n) == /\ ~ Cur(c).inmemo /\ Cur(c).optimizer /\ Cur(c).complexity > 0
                  /\ ConstScore(n) > ConstScoreThreshold

InMemo(c, inmemo) == With(c, [Cur(c) EXCEPT !.inmemo = inmemo])
NewMemo(c) == With(c, [Cur(c) EXCEPT !.memos = @ + 1, !.inmemo = TRUE])
\* far: from the instruction that loads the memo to the one that saves it.
SaveMemo(c, load, src, idx, far) ==
  AddInstruction(SetParams(c, load, TopTarget(c), idx, far \div 256, far % 256),
                 "SAVE_STATIC_MEMO", src, idx, (far + 1) \div 256, (far + 1) % 256)
MemoOf(c, load, idx) ==
  SaveMemo(PushTarget(PopTarget(c)), load, TopTarget(c), idx, CurrentPos(c) + 1 - load)
GenStaticMemo(c, n) ==                       \* 32768: STATIC_MEMO_AUTO_FLAG
  InMemo(MemoOf(Gen(AddInstruction(NewMemo(c), "DATA_NOP", 0, 0, 0, 0), n),
                CurrentPos(c) + 1, 32768 + Cur(c).memos), Cur(c).inmemo)

PushFolded(c, v) == IF v = Error THEN CompileError(PushTarget(c)) ELSE PushConstant(c, v)
ValueMaybe(c, n) ==
  CASE ToFold(c, n) -> PushFolded(c, ConstValue(n))
    [] ~ ToFold(c, n) /\ Memoizes(c, n) -> GenStaticMemo(c, n)
    [] OTHER -> Gen(c, n)

GenTarget(c, n) ==
  CASE n.op = "GETSLOT" -> ValueMaybe(Gen(c, n.receiver), n.key)
    [] n.op = "ID" /\ LocalVariable(Cur(c), n.name) = -1 /\ n.name # Cur(c).self
         /\ HasOuter(c, Len(c), n.name) -> GetOuterVariable(c, n.name).c
    [] OTHER -> Gen(c, n)

\* The captured variable that GetOuterVariable found.
ReadOuter(o) == AddToNew(o.c, "GETOUTER", o.pos, 0, 0)
GenName(c, x, o) ==
  CASE o.pos # -1 -> ReadOuter(o)
    [] o.pos = -1 /\ IsConstant(x) -> PushConstant(c, Consts[x])
    [] OTHER -> CompileError(PushTarget(c))
GenId(c, x) ==
  CASE x = Cur(c).self /\ LocalVariable(Cur(c), x) = -1 -> AddToNew(c, "LOADCALLEE", 0, 0, 0)
    [] x # Cur(c).self /\ LocalVariable(Cur(c), x) # -1 -> PushTargetAt(c, LocalVariable(Cur(c), x))
    [] x # Cur(c).self /\ LocalVariable(Cur(c), x) = -1 -> GenName(c, x, GetOuterVariable(c, x))
    [] OTHER -> CompileError(PushTarget(c))

\* OfOne, OfTwo: the operands are the values on top.
OfOne(c, op) == AddToNew(PopTarget(c), op, TopTarget(c), 0, 0)
OfTwo(c, op, a3) == AddToNew(PopTarget(PopTarget(c)), op, TopTarget(c), UpTarget(c, 1), a3)
GenUnary(c, n) == OfOne(ValueMaybe(c, n.arg), n.op)
GenBinary(c, n) == OfTwo(ValueMaybe(ValueMaybe(c, n.lhs), n.rhs), OpCode(n.op), CmpCode(n.op))

\* An integer literal is an operand of the instruction.
AddI(c, k) == AddToNew(PopTarget(c), "ADDI", k, TopTarget(c), 0)
GenAddI(c, n, k) == AddI(Gen(c, n), k)

JumpDecided(c, jpos) == JumpHere(SnoozeOpt(c), jpos)
\* The value src decides, in register trg; otherwise rhs is the value.
GenOtherwise(c, op, src, trg, rhs) ==
  JumpDecided(PopMoving(SnoozeOpt(Gen(MoveTo(AddInstruction(c, op, trg, 0, src, 0), trg, src), rhs)),
                        trg), CurrentPos(c) + 1)
FirstOf(c, src, n) == GenOtherwise(c, OpCode(n.op), src, TopTarget(c), n.rhs)
ShortCircuitOf(c, n) == FirstOf(PushTarget(PopTarget(c)), TopTarget(c), n)
GenShortCircuit(c, n) == ShortCircuitOf(Gen(c, n.lhs), n)

\* c: after the jump over the third operand.
ThirdOf(c, n, jz, trg) ==
  LET jmp == CurrentPos(c)
      Ended(d) == SetParam1(JumpHere(d, jmp), jz, jmp - jz)
  IN SnoozeOpt(Ended(PopMoving(ValueMaybe(c, n.c), trg)))
SecondOf(c, n, jz) ==
  ThirdOf(AddJump(PopMoving(ValueMaybe(c, n.b), TopTarget(c))), n, jz, TopTarget(c))
Chosen(c, n) == SecondOf(PushTarget(c), n, CurrentPos(c))
GenTernary(c, n) == Chosen(AddJumpOn(Gen(c, n.a), "JZ", 0, 0), n)

\* The place n, and the value to write to it on top.
AssignOuter(c, o, v) == AddToNew(PopTarget(o.c), "SETOUTER", o.pos, v, 0)
AssignElement(c) == AddToNew(PopTarget(PopTarget(PopTarget(c))), "SET", UpTarget(c, 1),
                          UpTarget(c, 2), TopTarget(c))
Write(c, n, o) ==
  CASE n.op = "ID" /\ LocalVariable(Cur(c), n.name) # -1 ->
         AddTo(PopTarget(c), "MOVE", TopTarget(c), 0, 0)
    [] n.op = "ID" /\ LocalVariable(Cur(c), n.name) = -1 /\ o.pos # -1 ->
         AssignOuter(c, o, TopTarget(c))
    [] n.op = "GETSLOT" -> AssignElement(c)
    [] OTHER -> CompileError(c)
Assigned(c, n) == Write(c, n, GetOuterVariable(c, n.name))
GenAssign(c, n) == Assigned(ValueMaybe(GenTarget(c, n.lhs), n.rhs), n.lhs)

ArithCode(op) == CASE op = "ADD" -> 1 [] op = "SUB" -> 2 [] op = "MUL" -> 3 [] op = "DIV" -> 4 [] op = "MOD" -> 5

\* The captured variable is on top of the value v to combine it with.
SetCombined(c, op, pos, v) ==
  LET tmp == TopTarget(c)
  IN AddToNew(PopTarget(PopTarget(AddTo(c, op, v, tmp, 0))), "SETOUTER", pos, tmp, 0)
CombineInPlace(c, op, v) == SnoozeOpt(AddTo(c, op, v, TopTarget(c), 0))
Combine(c, n, op, o) ==
  CASE n.op = "ID" /\ LocalVariable(Cur(c), n.name) # -1 ->
         CombineInPlace(PushTargetAt(PopTarget(PopTarget(c)), UpTarget(c, 1)), op, TopTarget(c))
    [] n.op = "ID" /\ LocalVariable(Cur(c), n.name) = -1 /\ o.pos # -1 ->
         SetCombined(ReadOuter(o), op, o.pos, TopTarget(c))
    [] n.op = "GETSLOT" ->
         AddToNew(PopTarget(PopTarget(PopTarget(c))), "COMPARITH",
                  UpTarget(c, 2) * 65536 + TopTarget(c), UpTarget(c, 1), ArithCode(op))
    [] OTHER -> CompileError(c)
Combined(c, n, op) == Combine(c, n, op, GetOuterVariable(c, n.name))
GenCompound(c, n) == Combined(ValueMaybe(GenTarget(c, n.lhs), n.rhs), n.lhs, n.aop)

\* tmp: where the value before is wanted.
StepOuter(c, n, pos, tmp) ==
  LET new == TopTarget(c)
  IN AddInstruction(AddInstruction(AddInstruction(c, "GETOUTER", new, pos, 0, 0),
                    "PINCL", tmp, new, 0, n.diff), "SETOUTER", new, pos, new, 0)
StepOuterIn(c, n, pos) ==
  IF n.postfix THEN PopTarget(StepOuter(PushTarget(c), n, pos, TopTarget(c)))
  ELSE StepOuter(c, n, pos, TopTarget(c))
StepPlace(c, n, x, o) ==
  CASE x.op = "GETSLOT" ->
         AddToNew(PopTarget(PopTarget(c)), IF n.postfix THEN "PINC" ELSE "INC",
                  UpTarget(c, 1), TopTarget(c), n.diff)
    [] x.op = "ID" /\ LocalVariable(Cur(c), x.name) # -1 ->
         IF n.postfix THEN AddToNew(PopTarget(c), "PINCL", TopTarget(c), 0, n.diff)
         ELSE AddTo(c, "INCL", TopTarget(c), 0, n.diff)
    [] x.op = "ID" /\ LocalVariable(Cur(c), x.name) = -1 /\ o.pos # -1 ->
         StepOuterIn(PushTarget(o.c), n, o.pos)
    [] OTHER -> CompileError(c)
Stepped(c, n, x) == StepPlace(c, n, x, GetOuterVariable(c, x.name))
GenInc(c, n) == Stepped(GenTarget(c, n.arg), n, n.arg)

RECURSIVE GenArgs(_, _), GenElements(_, _), PopTargets(_, _)
GenArgs(c, args) ==
  IF args = <<>> THEN c
  ELSE GenArgs(MoveIfCurrentTargetIsLocal(ValueMaybe(c, Head(args))), Tail(args))
PopTargets(c, n) == IF n = 0 THEN c ELSE PopTargets(PopTarget(c), n - 1)

\* The callee and what it will see as `this', on top of each other.
PrepareCall(c, key, container) ==
  AddInstruction(c, "PREPCALL", UpTarget(c, 1), key, container, TopTarget(c))
WithThis(c, n, o) ==
  CASE n.op = "GETSLOT" ->
         PrepareCall(PushTarget(PushTarget(PopTarget(PopTarget(c)))), TopTarget(c), UpTarget(c, 1))
    [] n.op = "ID" /\ LocalVariable(Cur(c), n.name) = -1 /\ o.pos # -1 ->
         AddToNew(ReadOuter(o), "MOVE", 0, 0, 0)
    [] OTHER -> AddToNew(c, "MOVE", 0, 0, 0)
Callee(c, n) == WithThis(c, n, IF n.op = "ID" THEN GetOuterVariable(c, n.name) ELSE [pos |-> -1])
GenCallee(c, n) == Callee(GenTarget(c, n), n)

CallOf(c, nargs) ==
  AddToNew(PopTarget(PopTarget(c)), "CALL", UpTarget(c, 1), TopTarget(c), nargs + 1)
GenCall(c, n) ==
  CallOf(PopTargets(GenArgs(GenCallee(c, n.callee), n.args), Len(n.args)), Len(n.args))

AppendElement(c) == AddTo(PopTarget(c), "APPENDARRAY", TopTarget(c), 0, 0)
GenElements(c, es) ==
  IF es = <<>> THEN c ELSE GenElements(AppendElement(ValueMaybe(c, Head(es))), Tail(es))
GenArray(c, n) == GenElements(AddToNew(c, "NEWOBJ", Len(n.inits), 0, 1), n.inits)

GenGetSlot(c, n) == OfTwo(GenTarget(c, n), "GET", 0)

BeginCodeBlock(c, res) ==
  With(c, [Cur(c) EXCEPT !.breaktargets = Append(@, 0), !.continuetargets = Append(@, -1),
                         !.blocks = Append(@, Cur(c).scope), !.results = Append(@, res)])
EndCodeBlock(c) == With(c, [Cur(c) EXCEPT !.results = Front(@)])
CodeBlock(c, n) ==
  EndCodeBlock(PopBlock(ResolveBreaks(Gen(BeginCodeBlock(BeginScope(c), TopTarget(c)), n.block),
                                      Len(Cur(c).breaks))))
GenCodeBlock(c, n) == EndScope(CodeBlock(PushTarget(c), n), Cur(c).scope)

---------------------------------------------------------------------------
(* Statements.                                                             *)

RECURSIVE GenStatements(_, _), GenCases(_, _, _, _), GenComma(_, _), GenDefaults(_, _)
GenStatements(c, ss) ==
  IF ss = <<>> \/ c[1].error THEN c ELSE GenStatements(SnoozeOpt(Gen(c, Head(ss))), Tail(ss))

GenBlock(c, n) ==
  IF n.isBody THEN EndScopeNoClose(GenStatements(BeginScope(c), n.stmts), Cur(c).scope)
  ELSE EndScope(GenStatements(BeginScope(c), n.stmts), Cur(c).scope)

\* A variable gets a register of its own.
MoveToNew(c, r) == MoveTo(c, TopTarget(c), r)
Initialized(c) == MoveToNew(PushTarget(PopTarget(c)), TopTarget(c))
GenVar(c, n) ==
  IF LocalVariable(Cur(c), n.name) # -1 \/ n.name = Cur(c).self \/ IsConstant(n.name)
  THEN CompileError(c)
  ELSE PushLocalVariable(PopTarget(IF n.init = None THEN AddToNew(c, "LOADNULLS", 1, 0, 0)
                                   ELSE Initialized(ValueMaybe(c, n.init))), n.name)

GenElse(c, n, jz) ==
  LET jmp == CurrentPos(c)
  IN SetParam1(JumpHere(Gen(c, n.else), jmp), jz, jmp - jz)
AfterThen(c, n, jz) == IF n.else = None THEN JumpHere(c, jz) ELSE GenElse(AddJump(c), n, jz)
GenThen(c, n) == AfterThen(Gen(c, n.then), n, CurrentPos(c))
GenIf(c, n) == GenThen(AddJumpOn(ValueMaybe(c, n.cond), "JZ", 0, 0), n)

GenBody(c, n) == Scoped(c, LAMBDA b : Gen(b, n.body))
JumpBack(c, start) == AddInstruction(c, "JMP", 0, start - CurrentPos(c) - 1, 0, 0)
\* start: where the loop begins; old: when its block did.
WhileBody(c, n, start, old) ==
  EndBreakableBlock(JumpHere(JumpBack(GenBody(c, n), start), CurrentPos(c)), old, start)
WhileTest(c, n, start) ==
  WhileBody(AddJumpOn(BeginBreakableBlock(c), "JZ", 0, 0), n, start, c)
GenWhile(c, n) == WhileTest(Gen(c, n.cond), n, CurrentPos(c))

DoWhileTest_Bug(c, n, old) ==
  EndBreakableBlock(JumpBack(AddJumpOn(Gen(c, n.cond), "JZ", 1, 0), CurrentPos(old)), old,
                    CurrentPos(old))
DoWhileTest(c, n, old) ==
  EndBreakableBlock(JumpBack(AddJumpOn(Gen(c, n.cond), "JZ", 1, 0), CurrentPos(old)), old,
                    CurrentPos(c))
GenDoWhile(c, n) == DoWhileTest(GenBody(BeginBreakableBlock(c), n), n, c)

\* The modifier is compiled first, taken out, and added again after the body.
RECURSIVE Readd(_, _)
Readd(c, code) == IF code = <<>> THEN c ELSE Readd(AddInstr(c, Head(code)), Tail(code))

\* jmp: the position before the modifier; a comparison that cannot be
\* merged into the jump back stays behind it.
ForTest(c, cmp, jmp) == IF CurrentPos(c) # cmp THEN SetParam1(c, CurrentPos(c), jmp - cmp - 1) ELSE c
JumpBackOn(c, jmp) ==
  ForTest(AddJumpOn(c, "JZ", jmp - CurrentPos(c), 1), CurrentPos(c), jmp)
JumpHereIf(c, p) == IF p > 0 THEN JumpHere(c, p) ELSE c
ForEnd(c, n, jmp) ==
  IF n.cond = None THEN JumpBack(c, jmp)
  ELSE JumpHereIf(JumpBackOn(Gen(SnoozeOpt(c), n.cond), jmp), jmp)
\* old: before the body, the modifier included.
ForBody(c, n, jmp, mod, old) ==
  EndBreakableBlock(RestoreOpt(ForEnd(Readd(c, mod), n, jmp)), old, CurrentPos(c))
ForModified(c, n, jmp) ==
  LET mod == From(Cur(c).code, jmp + 1)
  IN ForBody(Gen(BeginBreakableBlock(SnoozeOpt(PopInstructions(c, Len(mod)))), n.body),
             n, jmp, mod, c)
ForTested(c, n) ==
  ForModified(IF n.mod = None THEN c ELSE PopTarget(Gen(SnoozeOpt(c), n.mod)), n, CurrentPos(c))
ForInit(c, n) ==
  ForTested(IF n.cond = None THEN c ELSE AddJumpOn(Gen(c, n.cond), "JZ", 0, 0), n)
GenFor(c, n) ==
  ForInit(SnoozeOpt(IF n.init = None THEN c
                    ELSE IF n.init.op = "VAR" THEN Gen(c, n.init)
                    ELSE PopTarget(Gen(c, n.init))), n)

\* A variable that a function of the body captures is bound anew each time.
PerIteration(n) == (({n.idx, n.name} \ {""}) \cap CapturedIn(n.body)) # {}
Bound(c, x, src) == AddInstruction(PushLocalVariable(c, x), "MOVE", Height(c), src, 0, 0)
ForeachBody(c, n, first) ==
  LET Body(b) == Gen(Bound(IF n.idx # "" THEN Bound(b, n.idx, first) ELSE b, n.name, first + 1),
                     n.body)
  IN IF PerIteration(n) THEN Scoped(c, Body) ELSE Gen(c, n.body)
\* post: the instruction before the body, at: the last one of the body.
ForeachResolved(c, post, at) == SetParam1(JumpHere(c, post), post - 1, at + 2 - post)
ForeachEnd(c, con, first, post) ==
  ForeachResolved(AddInstruction(c, "FOREACH", con, post - (CurrentPos(c) + 1), first, 0),
                  post, CurrentPos(c))
ForeachLoop(c, n, con, first, old) ==
  PopTarget(EndBreakableBlock(ForeachEnd(c, con, first, CurrentPos(old)), old, CurrentPos(c)))
ForeachEntered(c, n, con, first) ==
  ForeachLoop(ForeachBody(BeginBreakableBlock(c), n, first), n, con, first, c)
ForeachOver(c, n, con, first) ==
  ForeachEntered(AddInstruction(AddInstruction(c, "PREFOREACH", con, 0, first, 0),
                                "POSTFOREACH", con, 0, first, 0), n, con, first)
ForeachVariables(c, n) ==
  ForeachOver(PushLocalVariable(PushLocalVariable(PushLocalVariable(c,
                IF n.idx # "" /\ ~ PerIteration(n) THEN n.idx ELSE "@INDEX@"),
                IF PerIteration(n) THEN "@valouter@" ELSE n.name), "@ITERATOR@"),
              n, TopTarget(c), Height(c))
GenForeach(c, n) == ForeachVariables(Gen(c, n.container), n)

\* jz: where the test of the case before failed, -1 for the first case; skip:
\* the jump of a case that falls through, over the test of the next one.
CaseBody(c, cases, skip, expr) ==
  GenCases(Scoped(IF skip = -1 THEN c ELSE JumpHere(c, skip), LAMBDA b : Gen(b, Head(cases).stmt)),
           Tail(cases), CurrentPos(c), expr)
TestEqual(c, trg, expr) ==
  AddInstruction(AddTo(c, "EQ", trg, expr, 0), "JZ", TopTarget(c), 0, 0, 0)
EqualTo(c, expr) ==
  IF IsLocal(c, TopTarget(c)) THEN PopTarget(TestEqual(PushTarget(PopTarget(c)), TopTarget(c), expr))
  ELSE PopTarget(TestEqual(c, TopTarget(c), expr))
CaseTest(c, cases, skip, expr) ==
  CaseBody(EqualTo(ValueMaybe(c, Head(cases).case), expr), cases, skip, expr)
NextCase(c, cases, jz, expr) ==
  CaseTest(JumpHere(c, jz), cases, CurrentPos(c), expr)
GenCases(c, cases, jz, expr) ==
  CASE cases = <<>> -> IF jz = -1 THEN c ELSE JumpHere(c, jz)
    [] cases # <<>> /\ jz = -1 -> CaseTest(c, cases, -1, expr)
    [] OTHER -> NextCase(AddJump(c), cases, jz, expr)

BeginSwitch(c) == With(c, [Cur(c) EXCEPT !.breaktargets = Append(@, 0), !.blocks = Append(@, Cur(c).scope)])
EndSwitch(c) == With(c, [Cur(c) EXCEPT !.breaktargets = Front(@), !.blocks = Front(@)])
GenDefault(c, n) == IF n.default = None THEN c ELSE Scoped(c, LAMBDA b : Gen(b, n.default))
SwitchOn(c, n) ==
  EndSwitch(ResolveBreaks(PopTarget(GenDefault(GenCases(BeginSwitch(c), n.cases, -1, TopTarget(c)), n)),
                          Len(Cur(c).breaks)))
GenSwitch(c, n) == SwitchOn(Gen(c, n.cond), n)

\* c: after the jump over the catch block.
GenCatch(c, n, trap, jmp) ==
  LET Caught(b) == Gen(SetParam0(PushLocalVariable(b, n.name), trap, Height(b)), n.catch)
      Ended(b)  == SetParams(b, jmp, 0, CurrentPos(b) - jmp, 0, 0)
  IN Scoped(SetParam1(c, trap, jmp - trap), LAMBDA b : Ended(Caught(b)))
AfterTry(c, n, trap) == GenCatch(c, n, trap, CurrentPos(c))
Tried(c, n, trap) ==
  AfterTry(AddJump(CountTraps(AddInstruction(c, "POPTRAP", 1, 0, 0, 0), -1)), n, trap)
GenTry(c, n) ==
  Tried(Scoped(CountTraps(AddInstruction(c, "PUSHTRAP", 0, 0, 0, 0), 1), LAMBDA b : Gen(b, n.try)),
        n, CurrentPos(c) + 1)

GenBreak_Bug(c) == Leave(ResolveOuters(c), "breaks")
GenBreak(c) == Leave(ResolveOuters(PopTraps(c, Last(Cur(c).breaktargets))), "breaks")
GenContinue_Bug(c) == Leave(PopTraps(c, Last(Cur(c).continuetargets)), "continues")
GenContinue(c) ==
  IF Cur(c).continuetargets = <<>> \/ Last(Cur(c).continuetargets) < 0 THEN CompileError(c)
  ELSE Leave(ResolveOuters(PopTraps(c, Last(Cur(c).continuetargets))), "continues")

WithReturn(c, pos) == With(c, [Cur(c) EXCEPT !.returnexp = pos])
ReturnFromBlock(c, n, res) ==
  Leave(ResolveOuters(IF n.arg = None THEN AddInstruction(c, "LOADNULLS", res, 1, 0, 0)
                      ELSE AddInstruction(PopTarget(c), "MOVE", res, TopTarget(c), 0, 0)), "breaks")
ReturnFromFunction(c, n, pos) ==
  IF n.arg = None THEN AddInstruction(WithReturn(c, -1), "RETURN", NoTarget, 0, 0, 0)
  ELSE AddInstruction(WithReturn(PopTarget(c), pos), "RETURN", 1, TopTarget(c), 0, 0)
ReturnValue(c, n, pos) ==
  IF Cur(c).results # <<>>
  THEN ReturnFromBlock(PopTraps(c, Last(Cur(c).breaktargets)), n, Last(Cur(c).results))
  ELSE ReturnFromFunction(PopTraps(c, Cur(c).traps), n, pos)
GenReturn(c, n) ==
  ReturnValue(IF n.arg = None THEN c ELSE ValueMaybe(c, n.arg), n, CurrentPos(c) + 1)

GenThrow(c, n) == AddJumpOn(ValueMaybe(c, n.arg), "THROW", 0, 0)

GenComma(c, es) == IF es = <<>> THEN c ELSE GenComma(Gen(c, Head(es)), Tail(es))

---------------------------------------------------------------------------
(* Functions.  The default values are computed where the function is made. *)

AddParameters(fs, xs) ==
  FoldLeft(LAMBDA f, x : Last(PushLocalVariable(<<f>>, x)), fs, <<"this">> \o xs)

GenDefaults(c, params) ==
  IF params = <<>> THEN c
  ELSE GenDefaults(IF Head(params).def = None THEN c ELSE ValueMaybe(c, Head(params).def),
                   Tail(params))

BuildProto(fs) ==
  [code |-> fs.code, lits |-> fs.lits, functions |-> fs.functions, outers |-> fs.outervalues,
   nparams |-> fs.nparams, defaults |-> fs.defaults, stacksize |-> fs.stacksize,
   memos |-> [i \in 1..fs.memos |-> Null]]

\* The function is finished: it is optimized and kept among the functions
\* of the program (a field of the outermost one).
Finished(c, fs) == [c |-> [Front(c) EXCEPT ![1].protos = Append(@, BuildProto(fs))],
                    id |-> Len(c[1].protos) + 1]
Optimized(fs) == IF fs.optimizer THEN Optimize(fs) ELSE fs
EndFunction(c) == Finished(c, Optimized(Cur(c)))
Finish(c) == EndFunction(AddInstruction(c, "RETURN", NoTarget, 0, 0, 0))

NamesOf(params) == [i \in 1..Len(params) |-> params[i].name]
CountDefaults(params) == Cardinality({i \in 1..Len(params) : params[i].def # None})
\* defs: the registers of the default values.
Child(c, n, xs, defs) ==
  [AddParameters(EmptyFuncState(Cur(c).optimizer), xs) EXCEPT
     !.self = n.name, !.nparams = Len(xs) + 1, !.defaults = defs, !.complexity = Cur(c).complexity]
NewClosure(c) == AddToNew(c, "CLOSURE", Len(Cur(c).functions) - 1, 0, 0)
WithFunction(c, id, inmemo) ==
  With(c, [Cur(c) EXCEPT !.functions = Append(@, id), !.inmemo = inmemo])
InParent(done, inmemo) == NewClosure(WithFunction(Complexity(done.c, -1), done.id, inmemo))
Defined(c, n, ndef) ==
  Finish(Gen(Append(PopTargets(c, ndef),
                    Child(c, n, NamesOf(n.params), [i \in 1..ndef |-> UpTarget(c, ndef - i)])), n.body))
GenFunction(c, n) ==
  InParent(Defined(GenDefaults(Complexity(InMemo(c, FALSE), 1), n.params), n, CountDefaults(n.params)),
           Cur(c).inmemo)

InLoop(c, Loop(_)) == Complexity(Scoped(Complexity(c, 1), Loop), -1)

\* After an error nothing more is compiled.
Gen(c, n) ==
  CASE c[1].error -> PushTargetAt(PushTargetAt(c, 0), 0)
    [] ~ c[1].error -> GenNode(c, n)

GenNode(c, n) ==
  CASE n.op = "LITERAL" -> PushConstant(c, n.val)
    [] n.op = "ID" -> GenId(c, n.name)
    [] n.op \in {"PAREN", "INLINE_CONST"} -> Gen(c, n.arg)
    [] n.op \in {"NEG", "NOT"} -> GenUnary(c, n)
    [] n.op \in LogicalOps -> GenShortCircuit(c, n)
    [] n.op = "ADD" /\ IsIntLiteral(n.lhs) -> GenAddI(c, n.rhs, n.lhs.val[2])
    [] n.op = "ADD" /\ ~ IsIntLiteral(n.lhs) /\ IsIntLiteral(n.rhs) -> GenAddI(c, n.lhs, n.rhs.val[2])
    [] n.op = "SUB" /\ IsIntLiteral(n.rhs) -> GenAddI(c, n.lhs, - n.rhs.val[2])
    [] \/ n.op \in {"MUL", "DIV", "MOD", "EQ", "NE"} \cup CompareOps
       \/ n.op = "ADD" /\ ~ IsIntLiteral(n.lhs) /\ ~ IsIntLiteral(n.rhs)
       \/ n.op = "SUB" /\ ~ IsIntLiteral(n.rhs) -> GenBinary(c, n)
    [] n.op = "ASSIGN" -> GenAssign(c, n)
    [] n.op = "COMPOUND" -> GenCompound(c, n)
    [] n.op = "INC" -> GenInc(c, n)
    [] n.op = "TERNARY" -> GenTernary(c, n)
    [] n.op = "CALL" -> GenCall(c, n)
    [] n.op = "ARRAY" -> GenArray(c, n)
    [] n.op = "GETSLOT" -> GenGetSlot(c, n)
    [] n.op = "COMMA" -> GenComma(c, n.exprs)
    [] n.op = "CODE_BLOCK_EXPR" -> GenCodeBlock(c, n)
    [] n.op = "FUNCTION" -> GenFunction(c, n)
    [] n.op = "BLOCK" -> GenBlock(c, n)
    [] n.op = "VAR" -> GenVar(c, n)
    [] n.op = "EXPR_STMT" -> DiscardTarget(Gen(c, n.arg))
    [] n.op = "IF" -> Scoped(c, LAMBDA b : GenIf(b, n))
    [] n.op = "WHILE" -> InLoop(c, LAMBDA b : GenWhile(b, n))
    [] n.op = "DOWHILE" -> InLoop(c, LAMBDA b : GenDoWhile(b, n))
    [] n.op = "FOR" -> InLoop(c, LAMBDA b : GenFor(b, n))
    [] n.op = "FOREACH" -> InLoop(c, LAMBDA b : GenForeach(b, n))
    [] n.op = "SWITCH" -> Scoped(c, LAMBDA b : GenSwitch(b, n))
    [] n.op = "TRY" -> GenTry(c, n)
    [] n.op = "BREAK" -> GenBreak(c)
    [] n.op = "CONTINUE" -> GenContinue(c)
    [] n.op = "RETURN" -> GenReturn(c, n)
    [] n.op = "THROW" -> GenThrow(c, n)

\* The program, as its functions; the last one is the main function.
MainFunction(optimizer) ==
  [AddParameters(EmptyFuncState(optimizer), <<"vargv">>) EXCEPT !.self = "__main__", !.nparams = 2]
EndProgram(c) ==
  [ok |-> ~ c[1].error, protos |-> Append(c[1].protos, BuildProto(Optimized(Cur(c))))]
Generate(root, optimizer) ==
  EndProgram(AddInstruction(Gen(<<MainFunction(optimizer)>>, root), "RETURN", NoTarget, 0, 0, 0))

=============================================================================
