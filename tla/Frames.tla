------------------------------- MODULE Frames -------------------------------
(***************************************************************************)
(* The calls of a VM (squirrel/sqvm.cpp, sqclosure.h, sqobject.cpp): call  *)
(* frames, exception traps, captured locals (outers), generators, and      *)
(* native functions that call scripts again (each by an Execute of its     *)
(* own).                                                                   *)
(*                                                                         *)
(* A script is any sequence of the steps that compiled code can take: it   *)
(* declares locals, opens and leaves blocks, try blocks, switches and      *)
(* loops (the macros BEGIN_SCOPE, END_SCOPE and RESOLVE_OUTERS and the     *)
(* statements of compiler/codegen.cpp), makes closures, calls, yields,     *)
(* resumes, throws and returns.                                            *)
(*                                                                         *)
(* vm.frames are _callsstack from the bottom.  A frame has its kind (a     *)
(* "generator" runs a generator function), its stack base, the locals in   *)
(* scope (the identity of each variable, in the order of their slots), the *)
(* open scopes, the number of its traps, its generator, and the flag       *)
(* _root.  A scope has the number of locals it began with (its stacksize)  *)
(* and that its body begins with: between them are the variables of a      *)
(* "for" loop.                                                             *)
(* vm.execs are the activations of Execute, each the value of its variable *)
(* traps; vm.etraps is _etraps; vm.open is _openouters, the slot and the   *)
(* variable of each; vm.stray are those of them that compiled code forgot  *)
(* to close.                                                               *)
(***************************************************************************)
EXTENDS Integers, Sequences, FiniteSets

CONSTANTS
  Vars,               \* identities of local variables: naturals
  Gens,               \* generators
  None,               \* no generator
  FrameSize,          \* bound: locals of a function (its _stacksize)
  MaxFrames,          \* bound: call frames
  MaxScopes,          \* bound: open scopes of all functions
  TryInForeach,       \* foreach iterates generators that have a trap set
  SharedGenerators    \* scripts resume generators that sq_resume has resumed

ASSUME VarsAssumption == Vars \subseteq Nat /\ None \notin Gens
ASSUME BoundsAssumption == FrameSize \in Nat /\ MaxFrames \in Nat /\ MaxScopes \in Nat
ASSUME ScriptsAssumption == {TryInForeach, SharedGenerators} \subseteq BOOLEAN

VARIABLE vm

Frame(kind, base, g, root) ==
  [kind |-> kind, base |-> base, vars |-> <<>>, scopes |-> <<>>, etraps |-> 0,
   gen |-> g, root |-> root]

Dead == [state |-> "dead", vars |-> <<>>, scopes |-> <<>>, traps |-> <<>>,
         root |-> FALSE]

Scope(kind, size, body) == [kind |-> kind, size |-> size, body |-> body]

Depth(s) == Len(s.frames)
ci(s) == s.frames[Depth(s)]
SetCi(s, f) == [s EXCEPT !.frames[Depth(s)] = f]

Script == Depth(vm) > 0 /\ ci(vm).kind # "native"
Native == Depth(vm) > 0 /\ ci(vm).kind = "native"

\* The elements of a sequence but the last n.
Without(q, n) == SubSeq(q, 1, Len(q) - n)

Highest(K) == CHOOSE k \in K : \A j \in K : j <= k

Holds(vars, v) == \E i \in DOMAIN vars : vars[i] = v

InScope(s) ==
  {v \in Vars : \/ \E k \in 1 .. Depth(s) : Holds(s.frames[k].vars, v)
               \/ \E g \in Gens : Holds(s.gens[g].vars, v)}

----------------------------------------------------------------------------
(* Outers *)

CloseOuters_Bug(s, pos) ==
  LET C == {o \in s.open : o.pos >= pos - 1}
  IN [s EXCEPT !.open = @ \ C, !.stray = @ \ C]

CloseOuters(s, pos) ==
  LET C == {o \in s.open : o.pos >= pos}
  IN [s EXCEPT !.open = @ \ C, !.stray = @ \ C]

\* FindOuter: the open outer of the slot, or a new one.
FindOuter(s, pos, v) ==
  IF \E o \in s.open : o.pos = pos THEN s
  ELSE [s EXCEPT !.open = @ \union {[pos |-> pos, var |-> v]}]

----------------------------------------------------------------------------
(* Frames *)

EnterFrame(s, f) == [s EXCEPT !.frames = Append(@, f)]

\* All frames but the lowest n are left, by a LeaveFrame for each.  No frame
\* has a lower base than the one below it, so this closes what the lowest of
\* their CloseOuters does.
LeaveFrames_Bug(s, n) == [s EXCEPT !.frames = SubSeq(@, 1, n)]

LeaveFrames(s, n) ==
  IF n = Depth(s) THEN s
  ELSE CloseOuters([s EXCEPT !.frames = SubSeq(@, 1, n)], s.frames[n + 1].base)

AddTraps(s, n) == [s EXCEPT !.execs[Len(s.execs)] = @ + n]

\* Takes the last n traps of the running frame away.
POPTRAP(s, n) ==
  AddTraps([SetCi(s, [ci(s) EXCEPT !.etraps = @ - n])
              EXCEPT !.etraps = Without(@, n)], -n)

\* The generators of all frames but the lowest n are killed.
Kill_Bug(s, n) == s

Kill(s, n) ==
  LET killed == {s.frames[k].gen : k \in n + 1 .. Depth(s)}
  IN [s EXCEPT !.gens = [g \in Gens |-> IF g \in killed THEN Dead ELSE @[g]]]

\* After the root frame of an Execute is left, so is the Execute.
LeaveExecute_Bug(s, root) == s

LeaveExecute(s, root) == IF root THEN [s EXCEPT !.execs = Without(@, 1)] ELSE s

\* The open outers from a slot on are left to what uses their slots next.
LeaveOpen(s, from, to) ==
  [s EXCEPT !.stray = @ \union {o \in s.open : o.pos \in from .. to - 1}]

\* To the last trap of the frame.  The code of a catch begins with the scope
\* of the try, and one local more: the exception.  The outers of the scopes
\* that the exception leaves stay open.
Catch(s, e) ==
  LET t == s.etraps[Len(s.etraps)]
      f == [ci(s) EXCEPT !.base = t.base,
                         !.scopes = Append(SubSeq(@, 1, t.scope - 1), Scope("block", t.size, t.size)),
                         !.vars = Append(SubSeq(@, 1, t.size), e)]
  IN POPTRAP(SetCi(LeaveOpen(s, t.base + t.size, t.base + Len(ci(s).vars)), f), 1)

\* exception_trap: the loop leaves one frame after another, up to the first
\* that has a trap or is the root of this Execute.
Unwind(s, e) ==
  LET n == Highest({k \in 1 .. Depth(s) : s.frames[k].etraps > 0 \/ s.frames[k].root})
  IN IF s.frames[n].etraps > 0
     THEN Catch(LeaveFrames(Kill(s, n), n), e)
     ELSE LeaveExecute(LeaveFrames(Kill(s, n - 1), n - 1), TRUE)

----------------------------------------------------------------------------
(* Steps of scripts *)

Init == vm = [frames |-> <<>>, execs |-> <<>>, etraps |-> <<>>, open |-> {},
              stray |-> {}, gens |-> [g \in Gens |-> Dead]]

Fresh(s) == Vars \ (InScope(s) \union {o.var : o \in s.open})
NextVar(s) == CHOOSE v \in Fresh(s) : \A w \in Fresh(s) : v <= w

OpenScopes(s) ==
  Cardinality({p \in (1 .. Depth(s)) \X (1 .. MaxScopes) : p[2] \in DOMAIN s.frames[p[1]].scopes})
  + Cardinality({p \in Gens \X (1 .. MaxScopes) : p[2] \in DOMAIN s.gens[p[1]].scopes})

Room(s) == Len(ci(s).vars) < FrameSize /\ Fresh(s) # {}

DeclareLocal ==
  /\ Script /\ Room(vm)
  /\ vm' = SetCi(vm, [ci(vm) EXCEPT !.vars = Append(@, NextVar(vm))])

EnterScope(s, scope) == SetCi(s, [ci(s) EXCEPT !.scopes = Append(@, scope)])

\* A block, or a switch: the locals of its cases are those of the scope.
OpenBlock(kind) ==
  /\ Script /\ OpenScopes(vm) < MaxScopes
  /\ LET size == Len(ci(vm).vars) IN vm' = EnterScope(vm, Scope(kind, size, size))

\* A loop without variables of its own, or a "for" with one: the variable lives
\* as long as the loop, the locals of the body as long as an iteration.
OpenLoop(n) ==
  /\ Script /\ OpenScopes(vm) < MaxScopes
  /\ n = 1 => Room(vm)
  /\ LET f == ci(vm)
         size == Len(f.vars)
         new == IF n = 1 THEN <<NextVar(vm)>> ELSE <<>>
     IN vm' = EnterScope(SetCi(vm, [f EXCEPT !.vars = @ \o new]), Scope("loop", size, size + n))

\* The function has a local for the exception of the catch.
PUSHTRAP ==
  /\ Script /\ OpenScopes(vm) < MaxScopes /\ Len(ci(vm).vars) < FrameSize
  /\ LET f == ci(vm)
         size == Len(f.vars)
         t == [base |-> f.base, scope |-> Len(f.scopes) + 1, size |-> size]
         g == [f EXCEPT !.etraps = @ + 1, !.scopes = Append(@, Scope("try", size, size))]
     IN vm' = AddTraps([SetCi(vm, g) EXCEPT !.etraps = Append(@, t)], 1)

\* The function is left with its outermost n scopes and m locals, without the
\* traps of the try blocks left.
Leave(s, n, m) ==
  LET left == n + 1 .. Len(ci(s).scopes)
      t == POPTRAP(s, Cardinality({k \in left : ci(s).scopes[k].kind = "try"}))
  IN SetCi(t, [ci(t) EXCEPT !.scopes = SubSeq(@, 1, n), !.vars = SubSeq(@, 1, m)])

\* Some closure captured a local above the first m.
Captured(s, m) ==
  \E o \in s.open, k \in m + 1 .. Len(ci(s).vars) : ci(s).vars[k] = o.var

\* An instruction _OP_CLOSE from the local after the first n is compiled when
\* some closure of the source captures such a local; that is so if one above
\* the first m, a local of this iteration, is captured now.
Compiled(close, s, n, m) ==
  /\ Captured(s, m) => close
  /\ close => Len(ci(s).vars) > n

CloseLocals(close, s, n) == IF close THEN CloseOuters(s, ci(s).base + n) ELSE s

\* END_SCOPE: the end of the innermost scope; that of a loop, between two
\* iterations.
EndScope ==
  /\ Script /\ ci(vm).scopes # <<>>
  /\ LET n == Len(ci(vm).scopes)
         scope == ci(vm).scopes[n]
     IN /\ scope.kind = "loop" => Len(ci(vm).vars) = scope.body
        /\ \E close \in BOOLEAN :
             /\ Compiled(close, vm, scope.size, scope.size)
             /\ vm' = CloseLocals(close, Leave(vm, n - 1, scope.size), scope.size)

\* The end of an iteration, which is that of the block of the body.
EndBody ==
  /\ Script /\ ci(vm).scopes # <<>>
  /\ LET n == Len(ci(vm).scopes)
         scope == ci(vm).scopes[n]
     IN /\ scope.kind = "loop"
        /\ \E close \in BOOLEAN :
             /\ Compiled(close, vm, scope.body, scope.body)
             /\ vm' = CloseLocals(close, Leave(vm, n, scope.body), scope.body)

\* The innermost open scope of these kinds; 0 if there is none.
Innermost(f, kinds) == Highest({0} \union {k \in DOMAIN f.scopes : f.scopes[k].kind \in kinds})

\* Out of the innermost loop or switch, over the end of its scope.
Break ==
  /\ Script
  /\ LET k == Innermost(ci(vm), {"loop", "switch"})
         size == ci(vm).scopes[k].size
     IN /\ k > 0
        /\ \E close \in BOOLEAN :
             /\ Compiled(close, vm, size, size)
             /\ vm' = CloseLocals(close, Leave(vm, k - 1, size), size)

\* To the next iteration of the innermost loop.  The outers are closed from
\* where the innermost loop or switch began: the variable of a "for" is detached
\* from its closures, and the locals of the loop around a switch stay open.
Continue ==
  /\ Script
  /\ LET k == Innermost(ci(vm), {"loop"})
         j == Innermost(ci(vm), {"loop", "switch"})
         body == ci(vm).scopes[k].body
         size == ci(vm).scopes[j].size
     IN /\ k > 0
        /\ \E close \in BOOLEAN :
             /\ Compiled(close, vm, size, IF j = k THEN body ELSE size)
             /\ LET s == CloseLocals(close, Leave(vm, k, body), size)
                IN vm' = LeaveOpen(s, ci(vm).base + body, ci(vm).base + size)

\* A closure captures local i.
CLOSURE(i) ==
  /\ Script /\ i \in DOMAIN ci(vm).vars
  /\ vm' = FindOuter(vm, ci(vm).base + i - 1, ci(vm).vars[i])

CanCall == Depth(vm) < MaxFrames

CALL ==
  /\ Script /\ CanCall
  /\ vm' = EnterFrame(vm, Frame("script", ci(vm).base + Len(ci(vm).vars), None, FALSE))

\* "return f()" outside of try blocks: the frame is used again, by a function
\* that is not a generator's.
TAILCALL ==
  /\ Script /\ ci(vm).etraps = 0
  /\ vm' = SetCi(CloseOuters(vm, ci(vm).base),
                 [ci(vm) EXCEPT !.kind = "script", !.vars = <<>>, !.scopes = <<>>])

\* The compiled code pops the traps of the function before.
RETURN ==
  /\ Script
  /\ LET n == Depth(vm) - 1
         s == POPTRAP(vm, ci(vm).etraps)
     IN vm' = LeaveExecute(LeaveFrames(Kill(s, n), n), ci(s).root)

THROW ==
  /\ Script /\ Fresh(vm) # {}
  /\ vm' = Unwind(vm, NextVar(vm))

----------------------------------------------------------------------------
(* Generators *)

\* The call of a generator function: it yields before its first instruction.
NewGenerator(g) ==
  /\ Script /\ vm.gens[g] = Dead
  /\ \A k \in 1 .. Depth(vm) : vm.frames[k].gen # g
  /\ vm' = [vm EXCEPT !.gens[g].state = "suspended"]

\* Traps q at a stack base that is n slots higher.
Moved(q, n) == [k \in DOMAIN q |-> [q[k] EXCEPT !.base = @ + n]]

\* The last n traps of the VM, their stack base relative.
SavedTraps(s, n) ==
  LET last == SubSeq(s.etraps, Len(s.etraps) - n + 1, Len(s.etraps))
  IN Moved(last, -ci(s).base)

YIELD ==
  /\ Script /\ ci(vm).kind = "generator"
  /\ LET f == ci(vm)
         n == f.etraps
         s == CloseOuters(vm, f.base)
         t == [s EXCEPT !.gens[f.gen] = [state |-> "suspended", vars |-> f.vars,
                          scopes |-> f.scopes, traps |-> SavedTraps(s, n),
                          root |-> f.root],
                        !.etraps = Without(@, n)]
     IN vm' = LeaveExecute(LeaveFrames(AddTraps(t, -n), Depth(vm) - 1), f.root)

\* The generator g runs on top of the stack again, its traps with it.
Resume_Bug(s, g, base) ==
  LET saved == s.gens[g]
      f == [Frame("generator", base, g, saved.root)
              EXCEPT !.vars = saved.vars, !.scopes = saved.scopes,
                     !.etraps = Len(saved.traps)]
  IN [EnterFrame(s, f)
        EXCEPT !.gens[g] = [Dead EXCEPT !.state = "running"],
               !.etraps = @ \o saved.traps]

Resume(s, g, base) ==
  LET saved == s.gens[g]
      f == [Frame("generator", base, g, saved.root)
              EXCEPT !.vars = saved.vars, !.scopes = saved.scopes,
                     !.etraps = Len(saved.traps)]
  IN [EnterFrame(s, f)
        EXCEPT !.gens[g] = [Dead EXCEPT !.state = "running"],
               !.etraps = @ \o Moved(saved.traps, base)]

Suspended(g) == vm.gens[g].state = "suspended"
Top(s) == ci(s).base + FrameSize

\* The frame gets the flag _root that it had when the generator yielded.
OfScripts(g) == SharedGenerators \/ ~vm.gens[g].root

RESUME(g) ==
  /\ Script /\ Suspended(g) /\ OfScripts(g) /\ CanCall
  /\ vm' = AddTraps(Resume(vm, g, Top(vm)), Len(vm.gens[g].traps))

\* FOREACH and PREFOREACH of a generator
FOREACH(g) ==
  /\ Script /\ Suspended(g) /\ OfScripts(g) /\ CanCall
  /\ TryInForeach \/ vm.gens[g].traps = <<>>
  /\ vm' = Resume(vm, g, Top(vm))

\* Resuming a generator that is running or dead is an error.
RESUME_Error(g) ==
  /\ Script /\ ~Suspended(g) /\ Fresh(vm) # {}
  /\ vm' = Unwind(vm, NextVar(vm))

----------------------------------------------------------------------------
(* Native functions *)

CallNative ==
  /\ Script /\ CanCall
  /\ vm' = EnterFrame(vm, Frame("native", ci(vm).base + Len(ci(vm).vars), None, FALSE))

\* Execute, from the host program or from a native function
Execute ==
  /\ Depth(vm) = 0 \/ Native
  /\ CanCall
  /\ LET base == IF Native THEN ci(vm).base ELSE 0
     IN vm' = [EnterFrame(vm, Frame("script", base, None, TRUE))
                 EXCEPT !.execs = Append(@, 0)]

\* Execute(ET_RESUME_GENERATOR): sq_resume
ExecuteGenerator(g) ==
  /\ Native /\ Suspended(g) /\ CanCall
  /\ LET s == Resume(vm, g, Top(vm))
     IN vm' = [SetCi(s, [ci(s) EXCEPT !.root = TRUE])
                 EXCEPT !.execs = Append(@, Len(vm.gens[g].traps))]

\* sq_tailcall: the frame of the native function becomes that of the script.
NativeTailCall ==
  /\ Native
  /\ vm' = SetCi(vm, [ci(vm) EXCEPT !.kind = "script"])

NativeReturn ==
  /\ Native
  /\ vm' = LeaveFrames(vm, Depth(vm) - 1)

\* The function reports an error, its own or that of the script it called.
NativeError ==
  /\ Native /\ Fresh(vm) # {}
  /\ vm' = Unwind(LeaveFrames(vm, Depth(vm) - 1), NextVar(vm))

Next ==
  \/ DeclareLocal \/ PUSHTRAP \/ EndScope \/ EndBody \/ Break \/ Continue
  \/ \E kind \in {"block", "switch"} : OpenBlock(kind)
  \/ \E n \in {0, 1} : OpenLoop(n)
  \/ \E i \in 1 .. FrameSize : CLOSURE(i)
  \/ CALL \/ TAILCALL \/ RETURN \/ THROW \/ YIELD
  \/ \E g \in Gens : NewGenerator(g) \/ RESUME(g) \/ FOREACH(g) \/ RESUME_Error(g)
                       \/ ExecuteGenerator(g)
  \/ CallNative \/ Execute \/ NativeTailCall \/ NativeReturn \/ NativeError

Spec == Init /\ [][Next]_vm

----------------------------------------------------------------------------
(* Properties *)

\* The activation of Execute that runs frame k.
ExecOf(s, k) == Cardinality({r \in 1 .. k : s.frames[r].root})

TypeOK ==
  /\ Depth(vm) <= MaxFrames
  /\ \A k \in 1 .. Depth(vm) :
       /\ vm.frames[k].kind \in {"script", "generator", "native"}
       /\ vm.frames[k].base \in Nat /\ vm.frames[k].etraps \in Nat
       /\ Len(vm.frames[k].vars) <= FrameSize
  /\ Len(vm.execs) = ExecOf(vm, Depth(vm))
  /\ \A o \in vm.open : o.pos \in Nat /\ o.var \in Vars

\* f[1] + ... + f[n]
SumTo(f, n) ==
  LET t[k \in 0 .. n] == IF k = 0 THEN 0 ELSE t[k - 1] + f[k]
  IN t[n]

\* The traps of each frame; the traps of those that activation e runs.
Traps(s) == [k \in 1 .. Depth(s) |-> s.frames[k].etraps]
TrapsIn(s, e) == [k \in 1 .. Depth(s) |->
                    IF ExecOf(s, k) = e THEN s.frames[k].etraps ELSE 0]

\* The variable traps of each activation of Execute, which decides whether the
\* error handler is called, is the number of traps that its frames have set.
TrapsCounted(s) ==
  \A e \in DOMAIN s.execs : s.execs[e] = SumTo(TrapsIn(s, e), Depth(s))

Tries(scopes) == {j \in DOMAIN scopes : scopes[j].kind = "try"}

\* q are traps of the try blocks among the scopes, for a frame at the base.
TrapsOf(q, scopes, base) ==
  /\ {q[j].scope : j \in DOMAIN q} = Tries(scopes)
  /\ \A j \in DOMAIN q : q[j].base = base /\ q[j].size = scopes[q[j].scope].size

OwnTraps(s, k) ==
  LET below == SumTo(Traps(s), k - 1)
  IN [j \in 1 .. s.frames[k].etraps |-> s.etraps[below + j]]

\* An exception lands in the frame that set the trap: from the top, the traps
\* of the VM are those of its frames, with the base each frame has now, also
\* for a generator that resumed elsewhere, and each is that of a try block
\* the frame is in.
TrapsOfTheirFrames(s) ==
  /\ Len(s.etraps) = SumTo(Traps(s), Depth(s))
  /\ \A k \in 1 .. Depth(s) :
       TrapsOf(OwnTraps(s, k), s.frames[k].scopes, s.frames[k].base)

\* No trap is lost, counted twice, or left to another frame; so that
\* "assert(traps == 0)" holds after the root function of an Execute has
\* popped its traps and returned.
TrapsSound == TrapsCounted(vm) /\ TrapsOfTheirFrames(vm)

\* The variable in a slot of the stack.
VarAt(s, pos) ==
  {v \in Vars : \E k \in 1 .. Depth(s) :
     \E i \in DOMAIN s.frames[k].vars :
       s.frames[k].base + i - 1 = pos /\ s.frames[k].vars[i] = v}

\* An open outer belongs to the variable that its slot holds: a closure never
\* reads or writes another variable than the one it captured.  This does not
\* hold for the outers that the code leaves open: those of the scopes that an
\* exception leaves for a catch of the same function, and those of the locals of
\* a loop's body when a switch in it continues the loop.  Their slots are used
\* again, and closures of a variable put there share the outer.
OuterOfItsVariable == \A o \in vm.open \ vm.stray : o.var \in VarAt(vm, o.pos)

\* The variable of the innermost loop of a function.
LoopVars(f) ==
  LET k == Innermost(f, {"loop"})
  IN IF k = 0 THEN {} ELSE {f.vars[i] : i \in f.scopes[k].size + 1 .. f.scopes[k].body}

StaysShared ==
  \A o \in vm.open \ vm'.open :
    o.var \in InScope(vm') => \/ YIELD /\ Holds(ci(vm).vars, o.var)
                              \/ Continue /\ o.var \in LoopVars(ci(vm))

\* "Free variables reference a local variable from an outer scope.  A program
\* can read or write a free variable": whatever returns, throws or leaves a
\* scope, a captured variable that is still in scope stays shared with its
\* closures.  Two instructions detach it: a generator that yields detaches all
\* its locals, and a continue the variable of its "for" loop.
CapturedShared == [][StaysShared]_vm

\* A generator runs in exactly one frame; when that frame is left by a return
\* or by an exception, the generator is dead.
GeneratorFrames ==
  \A g \in Gens :
    Cardinality({k \in 1 .. Depth(vm) : vm.frames[k].gen = g})
      = (IF vm.gens[g].state = "running" THEN 1 ELSE 0)
============================================================================
