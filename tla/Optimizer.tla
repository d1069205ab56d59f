------------------------------ MODULE Optimizer ------------------------------
(***************************************************************************)
(* The optimizer of a finished function (SQOptimizer,                      *)
(* compiler/optimizer.cpp): it folds operations on integers that were just *)
(* loaded, fuses a load with the comparison that reads it, drops jumps to  *)
(* the next instruction, and makes a jump to a jump go where that goes.    *)
(* The table of jumps says where each jump is and where it must go while   *)
(* instructions are cut; the jumps are corrected at the end of a pass.     *)
(***************************************************************************)
EXTENDS FuncState

CONSTANT NearJump     \* the longest jump of an operand of eight bits (127)
ASSUME NearJumpAssumption == NearJump \in Nat
IsNear(d) == - NearJump - 1 <= d /\ d <= NearJump

RECURSIVE FoldFrom(_, _), DropEmptyJumps(_, _), Passes(_, _),
          FoldJumpsFrom(_, _), Repeated(_, _)

\* o: the function (fs), its jumps, and whether the code was changed.
Instrs(o) == o.fs.code
At(o, i) == o.fs.code[i + 1]
Replaced(o, i, q) == [o EXCEPT !.fs.code[i + 1] = q, !.changed = TRUE]

IsUnsafeJumpRange(o, start, count) ==
  \E k \in 1..Len(o.jumps) : o.jumps[k].to > start /\ o.jumps[k].to < start + count
IsLocalVarInstructions(o, start, count) ==
  \E v \in o.fs.infos : v.start > start /\ v.start < start + count
IsLocalVarRegister(o, r, i) ==
  \E v \in o.fs.infos : v.pos = r /\ v.start <= i /\ v.end > i

CutRange(o, start, old, new) ==
  LET from  == start + new
      count == old - new
      Moved(j) == LET passed == j.to >= from + 1
                      after  == j.at >= from
                  IN [j EXCEPT !.to = IF passed THEN @ - count ELSE @,
                               !.at = IF after THEN @ - count ELSE @,
                               !.modified = @ \/ passed \/ after]
      Shrunk(v) == IF v.start > from
                   THEN [v EXCEPT !.start = @ - count,
                                  !.end = IF @ >= v.start THEN @
                                          ELSE IF v.start - count - 1 \in 0..from
                                          THEN v.start - count - 1 ELSE 0]
                   ELSE v
      Ended(v) == IF v.end >= from
                  THEN [v EXCEPT !.end = Max({@ - count, from - 1, 0})] ELSE v
  IN [o EXCEPT !.jumps = [k \in 1..Len(@) |-> Moved(@[k])],
               !.fs.code = SubSeq(@, 1, from) \o SubSeq(@, from + count + 1, Len(@)),
               !.fs.infos = {Ended(Shrunk(v)) : v \in @},
               !.changed = TRUE]

---------------------------------------------------------------------------
(* Folding.                                                                *)

FoldedOps == {"ADD", "SUB", "MUL", "DIV", "MOD"}
Truncated(m, n) == LET Abs(i) == IF i < 0 THEN - i ELSE i
                   IN IF (m < 0) = (n < 0) THEN Abs(m) \div Abs(n) ELSE - (Abs(m) \div Abs(n))
Folded(op, m, n) == CASE op = "ADD" -> m + n
                      [] op = "SUB" -> m - n
                      [] op = "MUL" -> m * n
                      [] op = "DIV" -> Truncated(m, n)
                      [] op = "MOD" -> m - n * Truncated(m, n)

\* load a; load b; op: whether the result takes the place of both loads,
\* of the second one, or of the operation.
DropsFirst(o, i, a) == ~ IsLocalVarInstructions(o, i, 2) /\ ~ IsLocalVarRegister(o, a.a0, i)
DropsSecond(o, i, b) ==
  /\ \/ ~ IsLocalVarInstructions(o, i, 3)
     \/ IsLocalVarInstructions(o, i, 2) /\ ~ IsLocalVarInstructions(o, i + 1, 2)
  /\ ~ IsLocalVarRegister(o, b.a0, i + 1)
FoldInto(o, i, q, dropA, dropB) ==
  CASE dropA /\ dropB -> CutRange(Replaced(o, i, q), i, 3, 1)
    [] ~ dropA /\ dropB -> CutRange(Replaced(o, i + 1, q), i + 1, 2, 1)
    [] OTHER -> Replaced(o, i + 2, q)
TopFirst(a, b, op) == a.a0 = op.a1 /\ b.a0 = op.a2
Divisor(a, b, op) == IF TopFirst(a, b, op) THEN a.a1 ELSE b.a1
Dividend(a, b, op) == IF TopFirst(a, b, op) THEN b.a1 ELSE a.a1
Foldable(a, b, op) ==
  /\ op.op \in FoldedOps /\ a.op = "LOADINT" /\ b.op = "LOADINT" /\ a.a0 # b.a0
  /\ TopFirst(a, b, op) \/ (a.a0 = op.a2 /\ b.a0 = op.a1)
  /\ op.op \in {"DIV", "MOD"} => Divisor(a, b, op) < -1 \/ Divisor(a, b, op) > 0
\* The result keeps the operands of the instruction whose place it takes.
LoadFolded(o, i, a, b, op) ==
  LET at == IF ~ DropsSecond(o, i, b) THEN op ELSE IF DropsFirst(o, i, a) THEN a ELSE b
  IN [at EXCEPT !.op = "LOADINT", !.a0 = op.a0,
                !.a1 = Folded(op.op, Dividend(a, b, op), Divisor(a, b, op))]
FoldTriple(o, i, a, b, op) ==
  IF Foldable(a, b, op) /\ ~ IsUnsafeJumpRange(o, i, 3)
  THEN FoldInto(o, i, LoadFolded(o, i, a, b, op), DropsFirst(o, i, a), DropsSecond(o, i, b)) ELSE o
FoldArith(o, i) ==
  IF i + 3 < Len(Instrs(o)) THEN FoldTriple(o, i, At(o, i), At(o, i + 1), At(o, i + 2)) ELSE o

\* load; op: the load goes unless a variable was loaded.
LoadGoes(o, i) == /\ ~ IsLocalVarInstructions(o, i, 2)
                  /\ ~ IsLocalVarRegister(o, At(o, i).a0, i)
Fused(o, i, q) == IF LoadGoes(o, i) THEN CutRange(Replaced(o, i, q), i, 2, 1)
                  ELSE Replaced(o, i + 1, q)

FoldAddI(o, i) ==
  LET a  == At(o, i)
      op == At(o, i + 1)
  IN IF /\ op.op = "ADDI" /\ a.op = "LOADINT" /\ a.a0 = op.a2
        /\ ~ IsUnsafeJumpRange(o, i, 2)
     THEN Fused(o, i, [(IF LoadGoes(o, i) THEN a ELSE op)
                         EXCEPT !.op = "LOADINT", !.a0 = op.a0, !.a1 = a.a1 + op.a1])
     ELSE o

WithLiteral(o, v) == [o EXCEPT !.fs.lits = AddConstant(@, v)]
\* The jump at position at has its distance in another operand now.
InOperand0(o, at) ==
  [o EXCEPT !.jumps = [k \in 1..Len(@) |-> IF @[k].at = at THEN [@[k] EXCEPT !.arg = "a0"] ELSE @[k]]]
FoldCompare(o, i, a, op) ==
  CASE a.op = "LOAD" -> Fused(o, i, Instr("JCMPK", a.a1, op.a1, op.a2, op.a3))
    [] a.op = "LOADINT" /\ ~ IsNear(op.a1) ->
         WithLiteral(Fused(o, i, Instr("JCMPK", ConstantIndex(AddConstant(o.fs.lits, IntV(a.a1)), IntV(a.a1)),
                                       op.a1, op.a2, op.a3)), IntV(a.a1))
    [] OTHER -> InOperand0(Fused(o, i, Instr("JCMPI", op.a1, a.a1, op.a2, op.a3)),
                           IF LoadGoes(o, i) THEN i ELSE i + 1)
FoldPair(o, i, a, op) ==
  IF /\ op.op = "JCMP" /\ a.op \in {"LOAD", "LOADINT"}
     /\ a.a0 = op.a0 /\ a.a0 # op.a2
     /\ ~ IsUnsafeJumpRange(o, i, 2)
  THEN FoldCompare(o, i, a, op) ELSE o
FoldJump(o, i) == FoldPair(o, i, At(o, i), At(o, i + 1))

FoldPairs(o, i) == IF i + 2 < Len(Instrs(o)) THEN FoldJump(FoldAddI(o, i), i) ELSE o
FoldOnce(o, i) == FoldPairs(FoldArith([o EXCEPT !.changed = FALSE], i), i)

\* Position i again while it changes, then the next.
FoldNext(o, i, changed) ==
  IF o.changed THEN FoldFrom(o, i) ELSE [FoldFrom(o, i + 1) EXCEPT !.changed = @ \/ changed]
FoldFrom(o, i) ==
  IF i + 2 >= Len(Instrs(o)) THEN o ELSE FoldNext(FoldOnce(o, i), i, o.changed)

DropEmptyJumps(o, i) ==
  IF i <= 0 THEN o
  ELSE DropEmptyJumps(IF At(o, i).op = "JMP" /\ At(o, i).a1 = 0 THEN CutRange(o, i, 1, 0) ELSE o,
                      i - 1)

---------------------------------------------------------------------------
(* The jumps.  A static memo holds the distance between its two            *)
(* instructions in both of them.                                           *)

ForwardJumps == {"JMP", "JCMP", "JCMPK", "JZ", "AND", "OR", "PUSHTRAP", "FOREACH",
                 "PREFOREACH", "POSTFOREACH"}

LongJumps == {"JMP", "JCMP", "JCMPK", "JZ", "AND", "OR", "PUSHTRAP"}
JumpOf(code, p) ==
  LET i == code[p + 1]
      J(to, arg) == <<[at |-> p, to |-> to, at0 |-> p, to0 |-> to, arg |-> arg, modified |-> FALSE]>>
      save == p + Distance(i)
  IN CASE i.op \in ForwardJumps -> J(p + i.a1 + 1, "a1")
       [] i.op = "JCMPI" -> J(p + i.a0 + 1, "a0")
       [] i.op = "NULLCOALESCE" -> J(p + i.a1, "a1")
       [] i.op = "DATA_NOP" /\ save > 0 /\ save < Len(code)
            /\ {i.a0, i.a1, i.a2, i.a3} # {0}
            /\ code[save + 1].op = "SAVE_STATIC_MEMO"
            /\ save + 1 - Distance(code[save + 1]) = p -> J(save + 1, "plus")
       [] i.op = "SAVE_STATIC_MEMO" -> J(p + 1 - Distance(i), "minus")
       [] OTHER -> <<>>
JumpsOf(code) == FlattenSeq([k \in 1..Len(code) |-> JumpOf(code, k - 1)])

Far(i, d) == [i EXCEPT !.a2 = d \div 256, !.a3 = d % 256]
\* The jump grew by `change'.
CorrectedBy(fs, j, i, change) ==
  CASE ~ j.modified -> fs
    [] j.modified /\ j.arg = "a1" -> [fs EXCEPT !.code[j.at + 1].a1 = @ + change]
    [] j.modified /\ j.arg = "plus" -> [fs EXCEPT !.code[j.at + 1] = Far(i, Distance(i) + change)]
    [] j.modified /\ j.arg = "minus" -> [fs EXCEPT !.code[j.at + 1] = Far(i, Distance(i) - change)]
    [] j.modified /\ j.arg = "a0" /\ IsNear(i.a0 + change) ->
         [fs EXCEPT !.code[j.at + 1].a0 = @ + change]
    [] OTHER -> [fs EXCEPT !.lits = AddConstant(@, IntV(i.a1)),
                           !.code[j.at + 1] =
                              Instr("JCMPK", ConstantIndex(AddConstant(fs.lits, IntV(i.a1)), IntV(i.a1)),
                                    i.a0 + change, i.a2, i.a3)]
Corrected(fs, j) == CorrectedBy(fs, j, fs.code[j.at + 1], (j.to - j.to0) - (j.at - j.at0))

\* Two passes at most; the second one only if the first changed the code.
NextPass(o, fs, n) ==
  IF o.changed THEN Passes(FoldLeft(Corrected, o.fs, o.jumps), n - 1) ELSE fs
WithoutEmptyJumps(o) == DropEmptyJumps(o, Len(Instrs(o)) - 1)
Passes(fs, n) ==
  IF n = 0 THEN fs
  ELSE NextPass(WithoutEmptyJumps(
         FoldFrom([fs |-> fs, jumps |-> JumpsOf(fs.code), changed |-> FALSE], 0)), fs, n)

\* A jump to a jump, four times over.
JumpTo(code, p, i, next) ==
  CASE i.op \in LongJumps /\ next.op = "JMP" -> [code EXCEPT ![p].a1 = @ + next.a1 + 1]
    [] i.op = "JCMPI" /\ next.op = "JMP" /\ IsNear(i.a0 + next.a1 + 1) ->
         [code EXCEPT ![p].a0 = @ + next.a1 + 1]
    [] OTHER -> code
Target(code, i, to) == IF to \in 1..Len(code) THEN code[to] ELSE i
FoldedFrom(code, p, i) ==
  JumpTo(code, p, i, Target(code, i, p + 1 + (IF i.op \in LongJumps THEN i.a1 ELSE i.a0)))
IsJump(i) == i.op \in LongJumps \cup {"JCMPI"}
FoldJumpsFrom(code, p) ==
  CASE p > Len(code) -> code
    [] p <= Len(code) /\ IsJump(code[p]) -> FoldJumpsFrom(FoldedFrom(code, p, code[p]), p + 1)
    [] OTHER -> FoldJumpsFrom(code, p + 1)

Repeated(code, n) == IF n = 0 THEN code ELSE Repeated(FoldJumpsFrom(code, 1), n - 1)
FoldAllJumps(fs) == [fs EXCEPT !.code = Repeated(@, 4)]
Optimize(fs) == FoldAllJumps(Passes(fs, 2))

=============================================================================
