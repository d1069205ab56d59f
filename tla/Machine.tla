------------------------------- MODULE Machine -------------------------------
(***************************************************************************)
(* The interpreter (SQVM::Execute, sqvm.cpp) running what the compiler     *)
(* made of a program: registers, frames, traps, captured variables.        *)
(*                                                                         *)
(* A program is chosen at the start, compiled with or without the          *)
(* optimizer.  _stack holds the registers of all frames; the frame of a    *)
(* call begins at its `base' in it and ends at its `top'.  An instruction  *)
(* is one step.  Native code is print and type.                            *)
(***************************************************************************)
EXTENDS FuncState, ConstGen

CONSTANTS Programs,      \* the programs, a sequence of trees
          Compile(_, _), \* what the compiler makes of a program (its number),
                         \* with or without the optimizer
          StackSize      \* the bound on the registers of all frames
ASSUME MachineAssumption == StackSize \in Nat

VARIABLES prog, optimized, \* which program runs, and how it was compiled
          compiled,        \* its functions (protos), or a compilation that failed
          frames,          \* _callsstack
          _stack,          \* position -> value
          _etraps,         \* the traps of all frames
          outers,          \* captured variables: [open, pos, val]
          closures,        \* [proto, outers, defaults]
          arrays,
          _staticmemos,    \* <<function, index>> -> value, once it was saved
          out,             \* what was printed
          status,          \* "running", "done", "failed", or "rejected" by the compiler
          result           \* what the program returned or threw

heap == <<outers, closures, arrays, _staticmemos, out>>
vars == <<prog, optimized, compiled, frames, _stack, _etraps, heap, status, result>>

Protos == compiled.protos
ci == Last(frames)
Fn(f) == Protos[closures[f].proto]
Lits == Fn(ci.fn).lits
i_ == Fn(ci.fn).code[ci.ip + 1]

STK(r) == _stack[ci.base + r + 1]
With1(stk, r, v) == [stk EXCEPT ![ci.base + r + 1] = v]
Put(r, v) == With1(_stack, r, v)
PutUnless255(r, v) == IF r = NoTarget THEN _stack ELSE Put(r, v)
OuterCell(k) == closures[ci.fn].outers[k + 1]
OuterValue(o) == IF outers[o].open THEN _stack[outers[o].pos + 1] ELSE outers[o].val

\* The registers from a to b, which are positions, become null.
Cleared(stk, a, b) == [p \in 1..StackSize |-> IF p - 1 \in a..b THEN Null ELSE stk[p]]

CloseOuters_Bug(os, stk, a) == os
\* The captured variables from position a on leave the stack.
CloseOuters(os, stk, a) ==
  [k \in 1..Len(os) |-> IF os[k].open /\ os[k].pos >= a
                        THEN [os[k] EXCEPT !.open = FALSE, !.val = stk[os[k].pos + 1]]
                        ELSE os[k]]

Frame(f, base, target) ==
  [fn |-> f, ip |-> 0, base |-> base, top |-> base + Fn(f).stacksize, target |-> target, traps |-> 0]

Init == /\ prog \in 1..Len(Programs) /\ optimized \in BOOLEAN
        /\ compiled = Compile(prog, optimized)
        /\ closures = <<[proto |-> Len(Protos), outers |-> <<>>, defaults |-> <<>>]>>
        /\ _stack = [p \in 1..StackSize |-> Null]
        /\ frames = <<Frame(1, 0, -1)>>
        /\ _etraps = <<>> /\ outers = <<>> /\ arrays = <<>> /\ out = <<>>
        /\ _staticmemos = [m \in {} |-> Null]
        /\ status = (IF compiled.ok THEN "running" ELSE "rejected")
        /\ result = Null

---------------------------------------------------------------------------
(* How an instruction ends: at the next one, or d instructions further on  *)
(* with the registers stk; or by an exception.                             *)

Jump(d, stk) == /\ frames' = [frames EXCEPT ![Len(frames)].ip = @ + 1 + d]
                /\ _stack' = stk
                /\ UNCHANGED <<_etraps, status, result>>
Continue(stk) == Jump(0, stk)
Same == UNCHANGED <<prog, optimized, compiled>>
SameHeap == Same /\ UNCHANGED heap

\* exception_trap: the frames without a trap are left.
Raise(v) ==
  LET trapped == {k \in 1..Len(frames) : frames[k].traps > 0}
      k == Max(trapped)
      t == Last(_etraps)
      from == IF trapped = {} THEN 0
              ELSE IF k < Len(frames) THEN frames[k + 1].base ELSE StackSize
  IN /\ outers' = CloseOuters(outers, _stack, from)
     /\ UNCHANGED <<closures, arrays, _staticmemos, out>> /\ Same
     /\ IF trapped = {}
        THEN /\ frames' = <<>> /\ _etraps' = <<>>
             /\ _stack' = [p \in 1..StackSize |-> Null]
             /\ status' = "failed" /\ result' = v
        ELSE /\ frames' = [SubSeq(frames, 1, k) EXCEPT ![k].ip = t.ip, ![k].traps = @ - 1,
                                                       ![k].top = t.top]
             /\ _etraps' = Front(_etraps)
             /\ _stack' = Cleared([_stack EXCEPT ![t.base + t.extarget + 1] = v], t.top, StackSize)
             /\ UNCHANGED <<status, result>>
RaiseError == Raise(StrV("error"))

\* The value of an operation goes to the target, unless it failed.
Deliver(v) == IF v = Error THEN RaiseError ELSE Continue(Put(i_.a0, v)) /\ SameHeap

\* Get, Set: the elements of an array.
Get(c, k) == IF c[1] = "array" /\ IsInt(k) /\ k[2] \in 0..(Len(arrays[c[2]]) - 1)
             THEN arrays[c[2]][k[2] + 1] ELSE Error
Set(c, k, v) == [arrays EXCEPT ![c[2]][k[2] + 1] = v]

---------------------------------------------------------------------------
(* Instructions that compute a value.                                      *)

CmpName(k) == CASE k = 0 -> "GT" [] k = 2 -> "GE" [] k = 3 -> "LT" [] k = 4 -> "LE"
ArithName(k) == CASE k = 1 -> "ADD" [] k = 2 -> "SUB" [] k = 3 -> "MUL" [] k = 4 -> "DIV" [] k = 5 -> "MOD"
Literal1 == IF i_.a3 # 0 THEN Lits[i_.a1 + 1] ELSE STK(i_.a1)

Loaded == CASE i_.op = "LOAD" -> Lits[i_.a1 + 1]
            [] i_.op = "LOADINT" -> IntV(i_.a1)
            [] i_.op = "LOADBOOL" -> BoolV(i_.a1 # 0)
            [] i_.op = "MOVE" -> STK(i_.a1)
Load == i_.op \in {"LOAD", "LOADINT", "LOADBOOL", "MOVE"} /\ Deliver(Loaded)
LoadNulls == /\ i_.op = "LOADNULLS"
             /\ Continue(Cleared(_stack, ci.base + i_.a0, ci.base + i_.a0 + i_.a1 - 1)) /\ SameHeap

\* Two moves in one instruction: the second one reads what the first wrote.
Twice(v, r, W(_)) ==
  LET stk == Put(i_.a0, v) IN Continue(With1(stk, r, W(stk))) /\ SameHeap
Double == \/ i_.op = "DLOAD" /\ Twice(Lits[i_.a1 + 1], i_.a2, LAMBDA stk : Lits[i_.a3 + 1])
          \/ i_.op = "DMOVE" /\ Twice(STK(i_.a1), i_.a2, LAMBDA stk : stk[ci.base + i_.a3 + 1])
AndMove(v) == IF i_.a2 = 0 THEN Deliver(v)
              ELSE Twice(v, i_.a2, LAMBDA stk : stk[ci.base + i_.a3 + 1])
LoadCallee == i_.op = "LOADCALLEE" /\ AndMove(<<"closure", ci.fn>>)
GetOuter == i_.op = "GETOUTER" /\ AndMove(OuterValue(OuterCell(i_.a1)))

Computed == CASE i_.op \in ArithOps -> Arith(i_.op, STK(i_.a2), STK(i_.a1))
              [] i_.op = "ADDI" -> Arith("ADD", STK(i_.a2), IntV(i_.a1))
              [] i_.op = "CMP"  -> Compare(CmpName(i_.a3), STK(i_.a2), STK(i_.a1))
              [] i_.op = "EQ"   -> BoolV(IsEqual(STK(i_.a2), Literal1))
              [] i_.op = "NE"   -> BoolV(~ IsEqual(STK(i_.a2), Literal1))
              [] i_.op = "NEG"  -> Neg(STK(i_.a1))
              [] i_.op = "NOT"  -> Not(STK(i_.a1))
              [] i_.op = "GET"  -> Get(STK(i_.a2), STK(i_.a1))
              [] i_.op = "GETK" -> Get(STK(i_.a2), Lits[i_.a1 + 1])
Compute == /\ i_.op \in ArithOps \cup {"ADDI", "CMP", "EQ", "NE", "NEG", "NOT", "GET", "GETK"}
           /\ Deliver(Computed)

\* INCL, PINCL: a variable of the frame, and its old value.
Increment ==
  LET v == Arith("ADD", STK(i_.a1), IntV(i_.a3))
      stk == IF i_.op = "INCL" THEN _stack ELSE Put(i_.a0, STK(i_.a1))
  IN /\ i_.op \in {"INCL", "PINCL"}
     /\ IF v = Error THEN RaiseError ELSE Continue(With1(stk, i_.a1, v)) /\ SameHeap

---------------------------------------------------------------------------
(* Instructions that change what is not a register.                        *)

SetOuter == /\ i_.op = "SETOUTER"
            /\ LET o == OuterCell(i_.a1)
                   v == STK(i_.a2)
                   stk == IF outers[o].open THEN [_stack EXCEPT ![outers[o].pos + 1] = v] ELSE _stack
               IN /\ outers' = IF outers[o].open THEN outers ELSE [outers EXCEPT ![o].val = v]
                  /\ Continue(IF i_.a0 = NoTarget THEN stk
                              ELSE [stk EXCEPT ![ci.base + i_.a0 + 1] = stk[ci.base + i_.a2 + 1]])
            /\ Same /\ UNCHANGED <<closures, arrays, _staticmemos, out>>

NewArray == /\ i_.op = "NEWOBJ"
            /\ arrays' = Append(arrays, <<>>)
            /\ Continue(Put(i_.a0, <<"array", Len(arrays) + 1>>))
            /\ Same /\ UNCHANGED <<outers, closures, _staticmemos, out>>

AppendArray ==
  LET v == CASE i_.a2 = 0 -> STK(i_.a1) [] i_.a2 = 1 -> Lits[i_.a1 + 1]
             [] i_.a2 = 2 -> IntV(i_.a1) [] i_.a2 = 4 -> BoolV(i_.a1 # 0)
  IN /\ i_.op = "APPENDARRAY"
     /\ arrays' = [arrays EXCEPT ![STK(i_.a0)[2]] = Append(@, v)]
     /\ Continue(_stack) /\ Same /\ UNCHANGED <<outers, closures, _staticmemos, out>>

\* Element k of c becomes v, and w goes to the target if there is one.
Store(c, k, v, w) ==
  IF v = Error \/ Get(c, k) = Error THEN RaiseError
  ELSE /\ arrays' = Set(c, k, v)
       /\ Continue(PutUnless255(i_.a0, w))
       /\ Same /\ UNCHANGED <<outers, closures, _staticmemos, out>>
SetElement ==
  LET key == CASE i_.op = "SET" -> STK(i_.a1) [] i_.op = "SETI" -> IntV(i_.a1)
               [] i_.op = "SETK" -> Lits[i_.a1 + 1]
  IN i_.op \in {"SET", "SETI", "SETK"} /\ Store(STK(i_.a2), key, STK(i_.a3), STK(i_.a3))

\* DerefInc: op= and ++ on an element.
DerefInc(op, c, k, w, postfix) ==
  LET old == Get(c, k)
      v == IF old = Error THEN Error ELSE Arith(op, old, w)
  IN Store(c, k, v, IF postfix THEN old ELSE v)
Modify ==
  \/ /\ i_.op = "COMPARITH"
     /\ DerefInc(ArithName(i_.a3), STK(i_.a1 \div 65536), STK(i_.a2), STK(i_.a1 % 65536), FALSE)
  \/ /\ i_.op \in {"INC", "PINC"}
     /\ DerefInc("ADD", STK(i_.a1), STK(i_.a2), IntV(i_.a3), i_.op = "PINC")

\* A variable that is captured twice is captured by the same cell.
FindOuter(os, pos) ==
  LET found == {o \in 1..Len(os) : os[o].open /\ os[o].pos = pos}
  IN IF found # {} THEN [os |-> os, o |-> Min(found)]
     ELSE [os |-> Append(os, [open |-> TRUE, pos |-> pos, val |-> Null]), o |-> Len(os) + 1]
Closure ==
  LET p == Fn(ci.fn).functions[i_.a1 + 1]
      Capture(acc, v) ==
        LET f == FindOuter(acc.os, ci.base + v.src)
        IN IF v.local THEN [os |-> f.os, cs |-> Append(acc.cs, f.o)]
           ELSE [acc EXCEPT !.cs = Append(@, OuterCell(v.src))]
      all == FoldLeft(Capture, [os |-> outers, cs |-> <<>>], Protos[p].outers)
      defs == Protos[p].defaults
  IN /\ i_.op = "CLOSURE"
     /\ outers' = all.os
     /\ closures' = Append(closures, [proto |-> p, outers |-> all.cs,
                                      defaults |-> [k \in 1..Len(defs) |-> STK(defs[k])]])
     /\ Continue(Put(i_.a0, <<"closure", Len(closures) + 1>>))
     /\ Same /\ UNCHANGED <<arrays, _staticmemos, out>>

Close == /\ i_.op = "CLOSE"
         /\ outers' = CloseOuters(outers, _stack, ci.base + i_.a1)
         /\ Continue(_stack) /\ Same /\ UNCHANGED <<closures, arrays, _staticmemos, out>>

\* The first run of the expression of a memo changes the instruction before
\* it into one that loads the value and jumps over the expression.
\* STATIC_MEMO_AUTO_FLAG: a container is not kept.
MemoKey(i) == <<closures[ci.fn].proto, i.a1>>
LoadStaticMemo_Bug == i_.op = "DATA_NOP" /\ Continue(_stack) /\ SameHeap
LoadStaticMemo ==
  /\ i_.op = "DATA_NOP"
  /\ IF MemoKey(i_) \in DOMAIN _staticmemos
     THEN Jump(Distance(i_), Put(i_.a0, _staticmemos[MemoKey(i_)]))
     ELSE Continue(_stack)
  /\ SameHeap
SaveStaticMemo ==
  LET load == Fn(ci.fn).code[ci.ip + 2 - Distance(i_)]
      v == STK(i_.a0)
  IN /\ i_.op = "SAVE_STATIC_MEMO"
     /\ _staticmemos' = IF v[1] = "array" THEN _staticmemos ELSE (MemoKey(i_) :> v) @@ _staticmemos
     /\ Continue(Put(load.a0, v)) /\ Same /\ UNCHANGED <<outers, closures, arrays, out>>

---------------------------------------------------------------------------
(* Jumps, loops and traps.                                                 *)

JumpIf(c, d) == Jump(IF c THEN d ELSE 0, _stack) /\ SameHeap

Branch == \/ i_.op = "JMP" /\ JumpIf(TRUE, i_.a1)
          \/ i_.op = "JZ" /\ JumpIf((IF IsFalse(STK(i_.a0)) THEN 1 ELSE 0) # i_.a2, i_.a1)

\* The bit above the comparison says on which result to jump.
CompareAndJump ==
  LET w == CASE i_.op = "JCMP" -> STK(i_.a0) [] i_.op = "JCMPK" -> Lits[i_.a0 + 1]
             [] i_.op = "JCMPI" -> IntV(i_.a1)
      r == Compare(CmpName(i_.a3 % 8), STK(i_.a2), w)
  IN /\ i_.op \in {"JCMP", "JCMPK", "JCMPI"}
     /\ IF r = Error THEN RaiseError
        ELSE JumpIf(r = BoolV(i_.a3 \div 8 = 1), IF i_.op = "JCMPI" THEN i_.a0 ELSE i_.a1)

\* The first operand is the value of the expression, or the second one is.
ShortCircuit ==
  /\ i_.op \in {"AND", "OR", "NULLCOALESCE"}
  /\ LET v == STK(i_.a2)
         decided == CASE i_.op = "AND" -> IsFalse(v) [] i_.op = "OR" -> ~ IsFalse(v)
                      [] i_.op = "NULLCOALESCE" -> v # Null
     IN IF decided THEN Jump(i_.a1, Put(i_.a0, v)) ELSE Continue(_stack)
  /\ SameHeap

\* FOREACH_OP: the index, the value and the position are three registers.
Advance(stk, exit, body) ==
  LET c == STK(i_.a0)
      pos == stk[ci.base + i_.a2 + 3]
      n == IF pos = Null THEN 0 ELSE pos[2]
  IN IF c[1] # "array" THEN RaiseError
     ELSE /\ IF n < Len(arrays[c[2]])
             THEN Jump(body, [stk EXCEPT ![ci.base + i_.a2 + 1] = IntV(n),
                                         ![ci.base + i_.a2 + 2] = arrays[c[2]][n + 1],
                                         ![ci.base + i_.a2 + 3] = IntV(n + 1)])
             ELSE Jump(exit, stk)
          /\ SameHeap
Foreach == \/ /\ i_.op = "PREFOREACH"
              /\ Advance(Cleared(_stack, ci.base + i_.a2, ci.base + i_.a2 + 2), i_.a1, 1)
           \/ i_.op = "FOREACH" /\ Advance(_stack, 0, i_.a1)

PushTrap ==
  /\ i_.op = "PUSHTRAP"
  /\ _etraps' = Append(_etraps, [ip |-> ci.ip + 1 + i_.a1, base |-> ci.base, top |-> ci.top,
                                 extarget |-> i_.a0])
  /\ frames' = [frames EXCEPT ![Len(frames)].ip = @ + 1, ![Len(frames)].traps = @ + 1]
  /\ UNCHANGED <<_stack, status, result>> /\ SameHeap
PopTrap ==
  /\ i_.op = "POPTRAP"
  /\ _etraps' = SubSeq(_etraps, 1, Len(_etraps) - i_.a0)
  /\ frames' = [frames EXCEPT ![Len(frames)].ip = @ + 1, ![Len(frames)].traps = @ - i_.a0]
  /\ UNCHANGED <<_stack, status, result>> /\ SameHeap
Throw == i_.op = "THROW" /\ Raise(STK(i_.a0))

---------------------------------------------------------------------------
(* Calls.                                                                  *)

\* StartCall: the parameters that were not passed take their default values.
Passes1(f, n) == LET missing == Fn(f).nparams - n IN missing \in 0..Len(closures[f].defaults)
WithDefaults(f, n, base, stk) ==
  LET defs == closures[f].defaults
      missing == Fn(f).nparams - n
  IN [p \in 1..StackSize |-> IF p - 1 \in (base + n)..(base + n + missing - 1)
                             THEN defs[Len(defs) - missing + p - base - n] ELSE stk[p]]

CallNative(f, n) ==
  LET args == [k \in 1..(n - 1) |-> STK(i_.a2 + k)]
      v == IF f = Native("type") THEN CallPure(args) ELSE Null
  IN IF v = Error \/ (f = Native("print") /\ n # 2) THEN RaiseError
     ELSE /\ out' = IF f = Native("print") THEN Append(out, Text(args[1])) ELSE out
          /\ Continue(PutUnless255(i_.a0, v))
          /\ Same /\ UNCHANGED <<outers, closures, arrays, _staticmemos>>

Call ==
  LET f == STK(i_.a1)
      target == IF i_.a0 = NoTarget THEN -1 ELSE i_.a0
      base == ci.base + i_.a2
  IN /\ i_.op = "CALL" \/ (i_.op = "TAILCALL" /\ f[1] # "closure")
     /\ CASE f[1] = "closure" /\ Passes1(f[2], i_.a3) ->
               /\ frames' = Append([frames EXCEPT ![Len(frames)].ip = @ + 1], Frame(f[2], base, target))
               /\ _stack' = WithDefaults(f[2], i_.a3, base, _stack)
               /\ UNCHANGED <<_etraps, status, result>> /\ SameHeap
          [] f[1] = "native" -> CallNative(f, i_.a3)
          [] OTHER -> RaiseError

\* The frame is used again: what was captured leaves it first.
TailCall ==
  LET f == STK(i_.a1)
      moved == [p \in 1..StackSize |-> IF p - 1 \in ci.base..(ci.base + i_.a3 - 1)
                                       THEN _stack[p + i_.a2] ELSE _stack[p]]
      frame == Frame(f[2], ci.base, ci.target)
  IN /\ i_.op = "TAILCALL" /\ f[1] = "closure"
     /\ IF Passes1(f[2], i_.a3)
        THEN /\ frames' = [frames EXCEPT ![Len(frames)] =
                             [frame EXCEPT !.top = Max({ci.top, @}), !.traps = ci.traps]]
             /\ _stack' = WithDefaults(f[2], i_.a3, ci.base, moved)
             /\ outers' = CloseOuters(outers, _stack, ci.base)
             /\ Same /\ UNCHANGED <<_etraps, closures, arrays, _staticmemos, out, status, result>>
        ELSE RaiseError

\* The value is written before the captured variables leave the frame.
Return ==
  LET v == IF i_.a0 = NoTarget THEN Null ELSE STK(i_.a1)
      caller == frames[Len(frames) - 1]
      stk == IF ci.target = -1 THEN _stack ELSE [_stack EXCEPT ![caller.base + ci.target + 1] = v]
      root == Len(frames) = 1
  IN /\ i_.op = "RETURN"
     /\ frames' = Front(frames)
     /\ outers' = CloseOuters(outers, IF root THEN _stack ELSE stk, ci.base)
     /\ _stack' = IF root THEN [p \in 1..StackSize |-> Null] ELSE Cleared(stk, caller.top, ci.top)
     /\ IF root THEN status' = "done" /\ result' = v ELSE UNCHANGED <<status, result>>
     /\ Same /\ UNCHANGED <<_etraps, closures, arrays, _staticmemos, out>>

PrepCall ==
  LET key == IF i_.op = "PREPCALLK" THEN Lits[i_.a1 + 1] ELSE STK(i_.a1)
      v == Get(STK(i_.a2), key)
  IN /\ i_.op \in {"PREPCALL", "PREPCALLK"}
     /\ IF v = Error THEN RaiseError
        ELSE Continue(With1(Put(i_.a3, STK(i_.a2)), i_.a0, v)) /\ SameHeap

Execute ==
  \/ Load \/ LoadNulls \/ Double \/ LoadCallee \/ GetOuter \/ Compute \/ Increment
  \/ SetOuter \/ NewArray \/ AppendArray \/ SetElement \/ Modify \/ Closure \/ Close
  \/ LoadStaticMemo \/ SaveStaticMemo
  \/ Branch \/ CompareAndJump \/ ShortCircuit \/ Foreach \/ PushTrap \/ PopTrap \/ Throw
  \/ Call \/ TailCall \/ Return \/ PrepCall

Halted == status # "running" /\ UNCHANGED vars
Next == (status = "running" /\ Execute) \/ Halted

Spec == Init /\ [][Next]_vars

\* The interpreter does not stop between two instructions.  A step is
\* possible as long as the program runs: this is WF_vars(Next), stated
\* without ENABLED.
FairSpec == Spec /\ ([]<><<Next>>_vars \/ []<>(status # "running"))

=============================================================================
