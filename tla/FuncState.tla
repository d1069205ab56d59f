------------------------------ MODULE FuncState ------------------------------
(***************************************************************************)
(* SQFuncState (compiler/sqfuncstate.cpp): the function being compiled --  *)
(* its instructions, the registers in use (_vlocals), the stack of         *)
(* registers that hold intermediate results (_targetstack), the captured   *)
(* variables, the unresolved jumps -- and the optimizer that merges an     *)
(* instruction with the one before it while it is added.                   *)
(*                                                                         *)
(* Registers, positions of instructions and literals count from zero, as   *)
(* in the code.  A compilation is the sequence of the functions that are   *)
(* open: the last one is being compiled, each is the _parent of the next.  *)
(***************************************************************************)
EXTENDS Ast, FiniteSets, SequencesExt

MaxFuncStackSize == 255          \* MAX_FUNC_STACKSIZE, an operand of eight bits
NoTarget == 255                  \* the operand 0xFF

\* The distance of a static memo, held in two operands.
Distance(i) == i.a2 * 256 + i.a3
Instr(op, a0, a1, a2, a3) ==
  [op |-> op, a0 |-> a0, a1 |-> a1, a2 |-> a2, a3 |-> a3]

EmptyFuncState(optimizer) ==
  [optimizer |-> optimizer, code |-> <<>>, opt |-> TRUE, lits |-> <<>>, locals |-> <<>>, targets |-> <<>>,
   breaks |-> <<>>, continues |-> <<>>, breaktargets |-> <<>>,
   continuetargets |-> <<>>, blocks |-> <<>>, results |-> <<>>,
   scope |-> 0, traps |-> 0, returnexp |-> 0, outers |-> 0,
   outervalues |-> <<>>, infos |-> {}, nparams |-> 0, defaults |-> <<>>,
   stacksize |-> 0, memos |-> 0, functions |-> <<>>, complexity |-> 0,
   inmemo |-> FALSE, self |-> "", protos |-> <<>>, error |-> FALSE]

Cur(c) == c[Len(c)]
With(c, fs) == [c EXCEPT ![Len(c)] = fs]
CurrentPos(c) == Len(Cur(c).code) - 1

---------------------------------------------------------------------------
(* Literals.                                                               *)

HasConstant(lits, v) == \E i \in 1..Len(lits) : lits[i] = v
AddConstant(lits, v) == IF HasConstant(lits, v) THEN lits ELSE Append(lits, v)
ConstantIndex(lits, v) == (CHOOSE i \in 1..Len(lits) : lits[i] = v) - 1

GetConstant(c, v) == With(c, [Cur(c) EXCEPT !.lits = AddConstant(@, v)])

---------------------------------------------------------------------------
(* Registers and targets.  A register without a name is a temporary.       *)

Temporary == [name |-> "", outer |-> FALSE, start |-> 0]

IsLocalIn(fs, r) == r < Len(fs.locals) /\ fs.locals[r + 1].name # ""
IsLocal(c, r) == IsLocalIn(Cur(c), r)

Grown(fs) ==
  [fs EXCEPT !.stacksize = IF Len(fs.locals) > @ THEN Len(fs.locals) ELSE @]

PushTargetAt(c, r) == With(c, [Cur(c) EXCEPT !.targets = Append(@, r)])
AllocatedTarget(fs) == Grown([fs EXCEPT !.locals = Append(@, Temporary),
                                        !.targets = Append(@, Len(fs.locals))])
PushTarget(c) == With(c, AllocatedTarget(Cur(c)))
TopTarget(c) == Last(Cur(c).targets)
UpTarget(c, n) == Cur(c).targets[Len(Cur(c).targets) - n]

\* The target goes, and its register with it unless it is a variable's.
PopTarget(c) ==
  LET fs == Cur(c)
      temp == fs.locals[TopTarget(c) + 1].name = ""
  IN With(c, [fs EXCEPT !.targets = Front(@),
                        !.locals = IF temp THEN Front(@) ELSE @])

\* An assignment whose value nobody reads does not write it to a register.
DiscardTarget(c) ==
  LET r  == TopTarget(c)
      fs == Cur(PopTarget(c))
      n  == Len(fs.code)
      ResultOps == {"SETI", "SETK", "SET", "SETOUTER", "CALL"}
  IN IF n > 0 /\ fs.opt /\ fs.code[n].op \in ResultOps /\ fs.code[n].a0 = r
     THEN With(c, [fs EXCEPT !.code[n].a0 = NoTarget])
     ELSE With(c, fs)

PushLocalVariable(c, x) ==
  LET fs == Cur(c)
      v  == [name |-> x, outer |-> FALSE, start |-> Len(fs.code)]
  IN With(c, Grown([fs EXCEPT !.locals = Append(@, v)]))

\* The register of the innermost variable called x, -1 if there is none.
LocalVariable(fs, x) ==
  LET named == {i \in 1..Len(fs.locals) : fs.locals[i].name = x}
  IN IF named = {} THEN -1 ELSE Max(named) - 1

\* The captured variable x of function k: its position among the captured
\* variables, adding it (and capturing it in the functions around) when an
\* enclosing function has it.  [c, pos], with pos = -1 if there is none.
RECURSIVE GetOuterIn(_, _, _)
GetOuterIn(c, k, x) ==
  LET fs    == c[k]
      known == {i \in 1..Len(fs.outervalues) : fs.outervalues[i].name = x}
      Captured(d, r, local) ==
        [c |-> [d EXCEPT ![k].outervalues =
                  Append(@, [name |-> x, src |-> r, local |-> local])],
         pos |-> Len(fs.outervalues)]
  IN IF known # {} THEN [c |-> c, pos |-> Min(known) - 1]
     ELSE IF k = 1 THEN [c |-> c, pos |-> -1]
     ELSE LET r == LocalVariable(c[k - 1], x)
          IN IF r # -1
             THEN Captured([c EXCEPT ![k - 1].locals[r + 1].outer = TRUE,
                                     ![k - 1].outers = @ + 1], r, TRUE)
             ELSE LET up == GetOuterIn(c, k - 1, x)
                  IN IF up.pos = -1 THEN up ELSE Captured(up.c, up.pos, FALSE)

GetOuterVariable(c, x) == GetOuterIn(c, Len(c), x)

CountOuters(fs, n) == Cardinality({i \in (n + 1)..Len(fs.locals) : fs.locals[i].outer})

\* The variables from register n on go out of scope.
SetStackSize(c, n) ==
  LET fs   == Cur(c)
      gone == {i \in (n + 1)..Len(fs.locals) : fs.locals[i].name # ""}
      Info(i) == [pos |-> i - 1, start |-> fs.locals[i].start, end |-> Len(fs.code) - 1]
  IN With(c, [fs EXCEPT !.locals = SubSeq(@, 1, IF n < Len(@) THEN n ELSE Len(@)),
                        !.outers = @ - Cardinality({i \in gone : fs.locals[i].outer}),
                        !.infos = @ \cup {Info(i) : i \in gone}])

---------------------------------------------------------------------------
(* Instructions.                                                           *)

SnoozeOpt(c) == With(c, [Cur(c) EXCEPT !.opt = FALSE])
RestoreOpt(c) == With(c, [Cur(c) EXCEPT !.opt = TRUE])
PopInstructions(c, n) == With(c, [Cur(c) EXCEPT !.code = SubSeq(@, 1, Len(@) - n)])
SetParam1(c, p, v) == With(c, [Cur(c) EXCEPT !.code[p + 1].a1 = v])
SetParam0(c, p, v) == With(c, [Cur(c) EXCEPT !.code[p + 1].a0 = v])
SetParams(c, p, a0, a1, a2, a3) ==
  With(c, [Cur(c) EXCEPT !.code[p + 1] = Instr(@.op, a0, a1, a2, a3)])

ProducerOps == {"GET", "GETK", "ADD", "SUB", "MUL", "DIV", "MOD", "LOADINT", "LOADBOOL",
                "LOAD", "NEG", "NOT", "ADDI", "CMP"}
LoadOps == {"LOAD", "LOADINT", "LOADBOOL"}

\* What the operand of APPENDARRAY is: a register (0), a literal, a number.
AppendedKind(op) == CASE op = "LOAD" -> 1 [] op = "LOADINT" -> 2 [] op = "LOADBOOL" -> 4

LoadedValue(fs, i) ==
  CASE i.op = "LOADINT"  -> IntV(i.a1)
    [] i.op = "LOADBOOL" -> BoolV(i.a1 = 1)
    [] i.op = "LOAD"     -> fs.lits[i.a1 + 1]

\* The literal that instruction p loads, as an operand of its successor.
IndexOf(lits, v) == ConstantIndex(AddConstant(lits, v), v)
AsLiteral(fs, p) == IndexOf(fs.lits, LoadedValue(fs, p))

\* p becomes q and the new instruction is dropped.
Merged(fs, q) == [fs EXCEPT !.code[Len(fs.code)] = q]
MergedLiteral(fs, p, q) == [Merged(fs, q) EXCEPT !.lits = AddConstant(@, LoadedValue(fs, p))]

\* An instruction that cannot be merged is added; it, or the one before it,
\* may still be changed.
Appended(fs, p, i, isChild) ==
  LET n == Len(fs.code)
      unread == \/ i.op \in {"SET", "SETI", "SETK"} /\ i.a0 = i.a3
                \/ i.op = "SETOUTER" /\ i.a0 = i.a2
      tail == i.op = "RETURN" /\ isChild /\ i.a0 # NoTarget
              /\ p.op = "CALL" /\ fs.returnexp < n - 1
  IN [fs EXCEPT !.code = Append(IF tail THEN [@ EXCEPT ![n].op = "TAILCALL"] ELSE @,
                                IF unread THEN [i EXCEPT !.a0 = NoTarget] ELSE i)]

\* The simple optimizer: i comes after p, and what is left of the two.
MergedWith(fs, p, i, isChild) ==
  LET feeds == p.a0 = i.a1 /\ ~ IsLocalIn(fs, p.a0)
  IN CASE i.op = "JZ" /\ p.op = "CMP" ->
            Merged(fs, Instr("JCMP", p.a1, i.a1, p.a2, p.a3 + 8 * i.a2))
       [] i.op = "SET" /\ p.op \in {"LOAD", "LOADINT"} /\ feeds ->
            Merged(fs, Instr(IF p.op = "LOAD" THEN "SETK" ELSE "SETI",
                             IF i.a0 = i.a3 THEN NoTarget ELSE i.a0, p.a1, i.a2, i.a3))
       [] i.op = "RETURN" /\ p.op = "CLOSE" -> Merged(fs, i)
       [] i.op = "GET" /\ p.op \in {"LOAD", "LOADINT"} /\ feeds ->
            MergedLiteral(fs, p, Instr("GETK", i.a0, AsLiteral(fs, p), i.a2, i.a3))
       [] i.op = "PREPCALL" /\ p.op = "LOAD" /\ feeds ->
            Merged(fs, Instr("PREPCALLK", i.a0, p.a1, i.a2, i.a3))
       [] i.op = "APPENDARRAY" /\ p.op \in LoadOps /\ feeds ->
            Merged(fs, Instr("APPENDARRAY", i.a0, p.a1, AppendedKind(p.op), 255))
       [] i.op = "MOVE" /\ p.op \in ProducerOps /\ feeds ->
            [Merged(fs, [p EXCEPT !.a0 = i.a0]) EXCEPT !.opt = FALSE]
       [] i.op = "MOVE" /\ p.op \in {"GETOUTER", "LOADCALLEE"} /\ i.a0 # 0 /\ p.a2 = 0 ->
            Merged(fs, [p EXCEPT !.a2 = i.a0, !.a3 = i.a1])
       [] i.op = "MOVE" /\ p.op = "MOVE" ->
            Merged(fs, Instr("DMOVE", p.a0, p.a1, i.a0, i.a1))
       [] i.op = "LOAD" /\ p.op = "LOAD" ->
            Merged(fs, Instr("DLOAD", p.a0, p.a1, i.a0, i.a1))
       [] i.op \in {"EQ", "NE"} /\ p.op \in LoadOps /\ feeds ->
            MergedLiteral(fs, p, Instr(i.op, i.a0, AsLiteral(fs, p), i.a2, 1))
       [] i.op = "LOADNULLS" /\ p.op = "LOADNULLS" /\ p.a0 + p.a1 = i.a0 ->
            Merged(fs, [p EXCEPT !.a1 = @ + 1])
       [] OTHER -> Appended(fs, p, i, isChild)

Extended(fs, i, isChild) ==
  IF fs.code = <<>> \/ ~ fs.opt \/ ~ fs.optimizer
  THEN [fs EXCEPT !.code = Append(@, i), !.opt = TRUE]
  ELSE MergedWith(fs, Last(fs.code), i, isChild)
AddInstr(c, i) == With(c, Extended(Cur(c), i, Len(c) > 1))

AddInstruction(c, op, a0, a1, a2, a3) == AddInstr(c, Instr(op, a0, a1, a2, a3))

=============================================================================
