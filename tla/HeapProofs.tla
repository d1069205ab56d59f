----------------------------- MODULE HeapProofs -----------------------------
(***************************************************************************)
(* Theorems about Heap, for any finite set of objects of any kinds, any    *)
(* handles and any bounds.                                                 *)
(*                                                                         *)
(* The invariant holds between any two statements of the calls in          *)
(* progress.  What the calls have done is read off the statement they are  *)
(* at (Done): an object that is being released has left the chain and      *)
(* dropped its fields as far as its call has come (OnGc, Dying), one that  *)
(* is being marked is not on the marked chain yet and has marked what it   *)
(* refers to as far as its call has come (Moved, Marks).  The count of an  *)
(* object is the number of its references (Counted), which are none for    *)
(* one that is being released; so a reference that ends is never of such   *)
(* an object, and no object is released twice (NoRefs, LastRef).           *)
(*                                                                         *)
(* A chain is a set of objects that is linked both ways and has no part    *)
(* that leads into itself only (Chained, Trapless): what the links lead to *)
(* from its head is the whole set (ChainIs).                               *)
(*                                                                         *)
(* That the loop of the collector leaves nothing unmarked (AllSwept) needs *)
(* what it has finalized (Passed) and that an object refers by fixed to    *)
(* an older one (Older): if some were left, the newest of them would be    *)
(* referred to by none of them, so its count would be 0, and it would have *)
(* been released.                                                          *)
(***************************************************************************)
EXTENDS Heap, FiniteSetTheorems, TLAPS

----------------------------------------------------------------------------
(* The invariant *)

\* The calls of the stack q, and those in progress.
CallsOf(q) == {q[k] : k \in 1 .. Len(q)}
Pending == CallsOf(calls)

\* The statement a call is at, those it has executed, and the call at its next
\* statement.
StepOf(f) == Steps(f)[f.at]
Done(f)   == {Steps(f)[i] : i \in 1 .. f.at - 1}
NextOf(f) == [f EXCEPT !.at = @ + 1]

\* The objects of calls F that are being released, that of the release hook that
\* runs, those that have left the chain, and those whose Mark has not ended.
ReleasedBy(F) == {f.obj : f \in {g \in F : g.do = "release"}}
HookedBy(F)   == {f.obj : f \in {g \in F : StepOf(g) = "unhook"}}
UnlinkedBy(F) == {f.obj : f \in {g \in F : g.do = "release" /\ "unlink" \in Done(g)}}
MarkedBy(F)   == {f.obj : f \in {g \in F : g.do = "mark"}}

Released == ReleasedBy(Pending)
InHook   == HookedBy(Pending)
Unlinked == UnlinkedBy(Pending)
Marking  == MarkedBy(Pending)

MarkedOnes == {o \in Objects : mark[o]}

\* What is on the marked chain, and on _gc_chain.
Moved == MarkedOnes \ Marking
OnGc  == live \ (Moved \union Unlinked)

CallRec == [do : {"turn", "release", "mark"}, obj : Objects, at : Nat \ {0}]

Pointers == [Objects -> ObjectOrNone]
Chains == [head : ObjectOrNone, thead : ObjectOrNone, next : Pointers, prev : Pointers]

MarkPhase == pc \in {"mark", "search"}
LoopPhase == pc \in {"sweep", "close"}

Typed ==
  /\ live \subseteq Objects /\ root \subseteq Objects /\ doomed \subseteq Objects
  /\ ref \in [Objects -> Int] /\ mark \in [Objects -> BOOLEAN]
  /\ links \in Chains
  /\ val \in Pointers /\ fixed \in Pointers /\ hnd \in Pointers
  /\ pc \in {"idle", "mark", "sweep", "search", "empty", "close", "closed"}
  /\ cur \in ObjectOrNone

\* The calls in progress are of different objects, the turn of a loop is the
\* first, and the phase of the VM allows their kinds.
Apart(q) == \A j, k \in 1 .. Len(q) : q[j].obj = q[k].obj => j = k
IsCalls(q) ==
  /\ q \in Seq(CallRec) /\ Apart(q)
  /\ \A k \in 1 .. Len(q) : /\ q[k].at \in 1 .. Len(Steps(q[k]))
                            /\ q[k].do = "turn" => k = 1

Called ==
  /\ IsCalls(calls)
  /\ \A f \in Pending : f.do = "mark" <=> MarkPhase
  /\ \A f \in Pending : f.do = "turn" => LoopPhase /\ f.obj = cur
  /\ LoopPhase \/ cur = None

\* What is not allocated is blank; only instances have handles.
Dead ==
  /\ \A o \in Objects \ live :
       /\ ref[o] = 0 /\ ~mark[o]
       /\ val[o] = None /\ fixed[o] = None /\ hnd[o] = None
  /\ \A o \in Objects : hnd[o] # None => Kind[o] = "instance"

\* An object that is being released has no reference left but that of its hook.
Dying ==
  \A f \in Pending : f.do = "release" =>
    /\ f.obj \in live /\ ~mark[f.obj]
    /\ ref[f.obj] = (IF f.obj \in InHook THEN 1 ELSE 0)
    /\ "val" \in Done(f) => val[f.obj] = None
    /\ "fixed" \in Done(f) => fixed[f.obj] = None
    /\ "hook" \in Done(f) => hnd[f.obj] = None

\* The references to p.
Users(v, p) == {o \in Objects : v[o] = p}
In(p, S) == IF p \in S THEN 1 ELSE 0
Count(p) ==
  Cardinality(Users(val, p)) + Cardinality(Users(fixed, p))
    + In(p, Handles) + In(p, root) + In(p, {cur}) + In(p, InHook)
Counted == \A p \in Objects : ref[p] = Count(p)

\* No nonempty set of objects of G leads by f into itself only.
Trapless(f, G) == \A S \in SUBSET G : S # {} => \E o \in S : f[o] \notin S

\* G is a list, linked both ways, that starts at first.
Chained(c, G, first) ==
  /\ first \in G \union {None}
  /\ \A o \in G : c.next[o] \in G \union {None} /\ c.prev[o] \in G \union {None}
  /\ \A o, p \in G : c.next[o] = p <=> c.prev[p] = o
  /\ \A o \in G : c.prev[o] = None <=> o = first
  /\ Trapless(c.next, G) /\ Trapless(c.prev, G)

OnChains ==
  /\ Chained(links, OnGc, links.head)
  /\ Chained(links, Moved, links.thead)

\* A marked object has marked, or will still mark, what it refers to.
Marks ==
  /\ Marking \subseteq MarkedOnes
  /\ MarkPhase \/ pc = "sweep" \/ MarkedOnes = {}
  /\ pc = "sweep" => root \union Handles \subseteq MarkedOnes
  /\ \A o \in MarkedOnes :
       /\ \/ fixed[o] \in MarkedOnes \union {None}
          \/ \E f \in Pending : f.do = "mark" /\ f.obj = o /\ "mark_fixed" \notin Done(f)
       /\ \/ val[o] \in MarkedOnes \union {None}
          \/ \E f \in Pending : f.do = "mark" /\ f.obj = o /\ "mark_val" \notin Done(f)

\* What is doomed is not reached, and is not marked.
Doom ==
  /\ pc = "mark" => MarkedOnes \subseteq Reachable /\ doomed \intersect Reachable = {}
  /\ pc = "sweep" => doomed \intersect MarkedOnes = {}

\* An object refers by fixed to an older one: every set of objects has one that
\* none of them refers to so.
Older == \A S \in SUBSET Objects : S # {} => \E p \in S : \A o \in S : fixed[o] # p

\* The loop has finalized P, what is on the chain before cur: those of them that
\* are not being released are still referred to.
Passed(P) ==
  /\ P \subseteq OnGc \ {cur}
  /\ links.head \in P \union {cur}
  /\ \A o \in P : links.next[o] \in P \union {cur}
  /\ \A o \in P : /\ val[o] = None
                  /\ Kind[o] # "closure" => fixed[o] = None
                  /\ o \in Released \/ ref[o] > 0

\* A turn has finalized its object as far as it has come.
Turn ==
  \A f \in Pending : f.do = "turn" =>
    /\ "val" \in Done(f) => val[f.obj] = None
    /\ "fixed" \in Done(f) => fixed[f.obj] = None

Loops ==
  /\ LoopPhase => cur \in OnGc \union {None} /\ \E P \in SUBSET Objects : Passed(P)
  /\ Turn
  /\ pc \in {"close", "closed"} => root = {} /\ Handles = {}

Inv ==
  /\ Typed /\ Called /\ Dead /\ Dying /\ Counted
  /\ OnChains /\ Marks /\ Doom /\ Older /\ Loops
----------------------------------------------------------------------------
(* Calls *)

\* What the call has executed.
LEMMA DoneAt ==
  ASSUME NEW f
  PROVE  /\ f.at = 1 => Done(f) = {}
         /\ f.at = 2 => Done(f) = {Steps(f)[1]}
         /\ f.at = 3 => Done(f) = {Steps(f)[1], Steps(f)[2]}
         /\ f.at = 4 => Done(f) = {Steps(f)[1], Steps(f)[2], Steps(f)[3]}
         /\ f.at = 5 => Done(f) =
              {Steps(f)[1], Steps(f)[2], Steps(f)[3], Steps(f)[4]}
         /\ f.at = 6 => Done(f) =
              {Steps(f)[1], Steps(f)[2], Steps(f)[3], Steps(f)[4], Steps(f)[5]}
  BY DEF Done

\* Which call a statement is of, and what comes before it.
LEMMA StepFacts ==
  ASSUME NEW f \in CallRec, f.at \in 1 .. Len(Steps(f))
  PROVE  /\ StepOf(f) \in {"val", "fixed"} => f.do \in {"turn", "release"}
         /\ StepOf(f) \in {"hook", "unhook", "unlink", "free"} => f.do = "release"
         /\ StepOf(f) \in {"mark_fixed", "mark_val", "move"} <=> f.do = "mark"
         /\ StepOf(f) = "turn" => f.do = "turn"
         /\ StepOf(f) \in {"hook", "unhook"} => Kind[f.obj] = "instance"
         /\ StepOf(f) \notin {"free", "turn", "move"} => f.at < Len(Steps(f))
         /\ StepOf(f) = "free" =>
              /\ {"val", "fixed", "unlink"} \subseteq Done(f)
              /\ Kind[f.obj] = "instance" => "hook" \in Done(f)
         /\ StepOf(f) = "turn" =>
              /\ "val" \in Done(f)
              /\ Kind[f.obj] # "closure" => "fixed" \in Done(f)
         /\ StepOf(f) = "move" => {"mark_val", "mark_fixed"} \subseteq Done(f)
         /\ StepOf(f) = "unhook" => "unlink" \notin Done(f)
         /\ StepOf(f) = "unlink" => "unlink" \notin Done(f)
<1>1. Kind[f.obj] \in {"table", "closure", "instance"}
  BY KindAssumption DEF CallRec
<1>2. f.do \in {"turn", "release", "mark"}
  BY DEF CallRec
<1>3. CASE f.do = "turn" /\ Kind[f.obj] = "table"
  <2>1. Steps(f) = <<"val", "fixed", "turn">>
    BY <1>3 DEF Steps, TurnSteps, ReleaseSteps, MarkSteps
  <2>2. f.at \in 1 .. 3
    BY <2>1
  <2>3. /\ f.at = 1 => StepOf(f) = "val" /\ Done(f) = {}
        /\ f.at = 2 => StepOf(f) = "fixed" /\ Done(f) = {"val"}
        /\ f.at = 3 => StepOf(f) = "turn" /\ Done(f) = {"val", "fixed"}
    BY <2>1, DoneAt DEF StepOf
  <2>4. QED
    BY <1>3, <2>1, <2>2, <2>3
<1>4. CASE f.do = "turn" /\ Kind[f.obj] = "closure"
  <2>1. Steps(f) = <<"val", "turn">>
    BY <1>4 DEF Steps, TurnSteps, ReleaseSteps, MarkSteps
  <2>2. f.at \in 1 .. 2
    BY <2>1
  <2>3. /\ f.at = 1 => StepOf(f) = "val" /\ Done(f) = {}
        /\ f.at = 2 => StepOf(f) = "turn" /\ Done(f) = {"val"}
    BY <2>1, DoneAt DEF StepOf
  <2>4. QED
    BY <1>4, <2>1, <2>2, <2>3
<1>5. CASE f.do = "turn" /\ Kind[f.obj] = "instance"
  <2>1. Steps(f) = <<"fixed", "val", "turn">>
    BY <1>5 DEF Steps, TurnSteps, ReleaseSteps, MarkSteps
  <2>2. f.at \in 1 .. 3
    BY <2>1
  <2>3. /\ f.at = 1 => StepOf(f) = "fixed" /\ Done(f) = {}
        /\ f.at = 2 => StepOf(f) = "val" /\ Done(f) = {"fixed"}
        /\ f.at = 3 => StepOf(f) = "turn" /\ Done(f) = {"fixed", "val"}
    BY <2>1, DoneAt DEF StepOf
  <2>4. QED
    BY <1>5, <2>1, <2>2, <2>3
<1>6. CASE f.do = "release" /\ Kind[f.obj] = "table"
  <2>1. Steps(f) = <<"fixed", "unlink", "val", "free">>
    BY <1>6 DEF Steps, TurnSteps, ReleaseSteps, MarkSteps
  <2>2. f.at \in 1 .. 4
    BY <2>1
  <2>3. /\ f.at = 1 => StepOf(f) = "fixed" /\ Done(f) = {}
        /\ f.at = 2 => StepOf(f) = "unlink" /\ Done(f) = {"fixed"}
        /\ f.at = 3 => StepOf(f) = "val" /\ Done(f) = {"fixed", "unlink"}
        /\ f.at = 4 => StepOf(f) = "free" /\ Done(f) = {"fixed", "unlink", "val"}
    BY <2>1, DoneAt DEF StepOf
  <2>4. QED
    BY <1>6, <2>1, <2>2, <2>3
<1>7. CASE f.do = "release" /\ Kind[f.obj] = "closure"
  <2>1. Steps(f) = <<"val", "fixed", "unlink", "free">>
    BY <1>7 DEF Steps, TurnSteps, ReleaseSteps, MarkSteps
  <2>2. f.at \in 1 .. 4
    BY <2>1
  <2>3. /\ f.at = 1 => StepOf(f) = "val" /\ Done(f) = {}
        /\ f.at = 2 => StepOf(f) = "fixed" /\ Done(f) = {"val"}
        /\ f.at = 3 => StepOf(f) = "unlink" /\ Done(f) = {"val", "fixed"}
        /\ f.at = 4 => StepOf(f) = "free" /\ Done(f) = {"val", "fixed", "unlink"}
    BY <2>1, DoneAt DEF StepOf
  <2>4. QED
    BY <1>7, <2>1, <2>2, <2>3
<1>8. CASE f.do = "release" /\ Kind[f.obj] = "instance"
  <2>1. Steps(f) = <<"hook", "unhook", "unlink", "fixed", "val", "free">>
    BY <1>8 DEF Steps, TurnSteps, ReleaseSteps, MarkSteps
  <2>2. f.at \in 1 .. 6
    BY <2>1
  <2>3. /\ f.at = 1 => StepOf(f) = "hook" /\ Done(f) = {}
        /\ f.at = 2 => StepOf(f) = "unhook" /\ Done(f) = {"hook"}
        /\ f.at = 3 => StepOf(f) = "unlink" /\ Done(f) = {"hook", "unhook"}
        /\ f.at = 4 => StepOf(f) = "fixed" /\ Done(f) = {"hook", "unhook", "unlink"}
        /\ f.at = 5 => StepOf(f) = "val" /\ Done(f) = {"hook", "unhook", "unlink", "fixed"}
        /\ f.at = 6 => StepOf(f) = "free" /\ Done(f) = {"hook", "unhook", "unlink", "fixed", "val"}
    BY <2>1, DoneAt DEF StepOf
  <2>4. QED
    BY <1>8, <2>1, <2>2, <2>3
<1>9. CASE f.do = "mark"
  <2>1. Steps(f) = <<"mark_fixed", "mark_val", "move">>
    BY <1>9 DEF Steps, TurnSteps, ReleaseSteps, MarkSteps
  <2>2. f.at \in 1 .. 3
    BY <2>1
  <2>3. /\ f.at = 1 => StepOf(f) = "mark_fixed" /\ Done(f) = {}
        /\ f.at = 2 => StepOf(f) = "mark_val" /\ Done(f) = {"mark_fixed"}
        /\ f.at = 3 => StepOf(f) = "move" /\ Done(f) = {"mark_fixed", "mark_val"}
    BY <2>1, DoneAt DEF StepOf
  <2>4. QED
    BY <1>9, <2>1, <2>2, <2>3
<1>10. QED
  BY <1>1, <1>2, <1>3, <1>4, <1>5, <1>6, <1>7, <1>8, <1>9

\* The next statement.
LEMMA NextFacts ==
  ASSUME NEW f \in CallRec, f.at < Len(Steps(f)), f.at \in Nat
  PROVE  /\ NextOf(f) \in CallRec
         /\ NextOf(f).do = f.do /\ NextOf(f).obj = f.obj
         /\ NextOf(f).at \in 1 .. Len(Steps(NextOf(f)))
         /\ Done(NextOf(f)) = Done(f) \union {StepOf(f)}
         /\ StepOf(NextOf(f)) = "unhook" <=> StepOf(f) = "hook"
<1>1. /\ NextOf(f).do = f.do /\ NextOf(f).obj = f.obj /\ NextOf(f).at = f.at + 1
      /\ NextOf(f) \in CallRec
  BY DEF NextOf, CallRec
<1>2. Steps(NextOf(f)) = Steps(f)
  BY <1>1 DEF Steps
<1>3. Len(Steps(f)) \in Nat
  BY KindAssumption DEF CallRec, Steps, TurnSteps, ReleaseSteps, MarkSteps
<1>4. NextOf(f).at \in 1 .. Len(Steps(NextOf(f)))
  BY <1>1, <1>2, <1>3 DEF CallRec
<1>5. Done(NextOf(f)) = Done(f) \union {StepOf(f)}
  BY <1>1, <1>2 DEF Done, StepOf, CallRec
<1>6. StepOf(NextOf(f)) = "unhook" <=> StepOf(f) = "hook"
  <2>1. Kind[f.obj] \in {"table", "closure", "instance"}
    BY KindAssumption DEF CallRec
  <2>2. f.at \in Nat \ {0} /\ f.do \in {"turn", "release", "mark"}
    BY DEF CallRec
  <2>3. CASE f.do = "turn"
    BY <1>1, <1>2, <2>1, <2>2, <2>3 DEF StepOf, Steps, TurnSteps
  <2>4. CASE f.do = "mark"
    BY <1>1, <1>2, <2>2, <2>4 DEF StepOf, Steps, MarkSteps
  <2>5. CASE f.do = "release"
    BY <1>1, <1>2, <2>1, <2>2, <2>5 DEF StepOf, Steps, ReleaseSteps
  <2>6. QED
    BY <2>2, <2>3, <2>4, <2>5
<1>7. QED
  BY <1>1, <1>4, <1>5, <1>6

\* A call that begins.
LEMMA CallFacts ==
  ASSUME NEW do \in {"turn", "release", "mark"}, NEW o \in Objects
  PROVE  /\ Call(do, o) \in CallRec
         /\ Call(do, o).do = do /\ Call(do, o).obj = o /\ Call(do, o).at = 1
         /\ Call(do, o).at \in 1 .. Len(Steps(Call(do, o)))
         /\ Done(Call(do, o)) = {} /\ StepOf(Call(do, o)) # "unhook"
<1>1. /\ Call(do, o) \in CallRec
      /\ Call(do, o).do = do /\ Call(do, o).obj = o /\ Call(do, o).at = 1
  BY DEF Call, CallRec
<1>2. Done(Call(do, o)) = {}
  BY <1>1 DEF Done
<1>3. Kind[o] \in {"table", "closure", "instance"}
  BY KindAssumption
<1>4. CASE do = "turn"
  BY <1>1, <1>2, <1>3, <1>4 DEF StepOf, Steps, TurnSteps
<1>5. CASE do = "mark"
  BY <1>1, <1>2, <1>5 DEF StepOf, Steps, MarkSteps
<1>6. CASE do = "release"
  BY <1>1, <1>2, <1>3, <1>6 DEF StepOf, Steps, ReleaseSteps
<1>7. QED
  BY <1>4, <1>5, <1>6

LEMMA TopIs ==
  ASSUME NEW q, IsCalls(q), q # <<>>
  PROVE  /\ Len(q) \in Nat \ {0} /\ q[Len(q)] \in CallsOf(q)
         /\ q[Len(q)] \in CallRec
         /\ q[Len(q)].at \in 1 .. Len(Steps(q[Len(q)]))
<1>1. q \in Seq(CallRec)
  BY DEF IsCalls
<1>2. Len(q) \in Nat \ {0}
  BY <1>1
<1>3. QED
  BY <1>1, <1>2 DEF IsCalls, CallsOf

\* The calls of a stack are in range.
LEMMA CallsAre ==
  ASSUME NEW q, IsCalls(q), NEW f \in CallsOf(q)
  PROVE  f \in CallRec /\ f.at \in 1 .. Len(Steps(f))
<1>1. PICK n \in Nat : Len(q) = n
  BY DEF IsCalls
<1>2. PICK k \in 1 .. n : f = q[k]
  BY <1>1 DEF CallsOf
<1>3. QED
  BY <1>1, <1>2 DEF IsCalls

\* No two calls are of the same object.
LEMMA CallsApart ==
  ASSUME NEW q, IsCalls(q), NEW f \in CallsOf(q), NEW g \in CallsOf(q), f.obj = g.obj
  PROVE  f = g
<1>1. PICK j \in 1 .. Len(q) : f = q[j]
  BY DEF CallsOf
<1>2. PICK k \in 1 .. Len(q) : g = q[k]
  BY DEF CallsOf
<1>3. QED
  BY <1>1, <1>2 DEF IsCalls, Apart

LEMMA AdvanceCalls ==
  ASSUME NEW q, IsCalls(q), q # <<>>, NEW f, f = q[Len(q)], f.at < Len(Steps(f)),
         NEW r, r = [q EXCEPT ![Len(q)].at = @ + 1]
  PROVE  /\ IsCalls(r) /\ r # <<>>
         /\ CallsOf(r) = (CallsOf(q) \ {f}) \union {NextOf(f)}
<1>1. PICK n \in Nat \ {0} : Len(q) = n
  BY TopIs
<1>2. q \in Seq(CallRec) /\ f \in CallRec /\ f.at \in 1 .. Len(Steps(f))
  BY TopIs DEF IsCalls
<1>3. f.at \in Nat
  BY <1>2
<1>4. NextOf(f) \in CallRec /\ NextOf(f).do = f.do /\ NextOf(f).obj = f.obj
      /\ NextOf(f).at \in 1 .. Len(Steps(NextOf(f)))
  BY <1>2, <1>3, NextFacts
<1>5. r = [q EXCEPT ![n] = NextOf(f)]
  BY <1>1 DEF NextOf
<1>6. /\ r \in Seq(CallRec) /\ Len(r) = n /\ r[n] = NextOf(f)
      /\ \A k \in 1 .. n : k # n => r[k] = q[k]
  BY <1>1, <1>2, <1>4, <1>5
<1>7. \A k \in 1 .. n : r[k].obj = q[k].obj /\ r[k].do = q[k].do
  BY <1>1, <1>4, <1>6
<1>8. \A j, k \in 1 .. n : q[j].obj = q[k].obj => j = k
  BY <1>1 DEF IsCalls, Apart
<1>9. IsCalls(r)
  <2>1. \A k \in 1 .. n : /\ q[k].at \in 1 .. Len(Steps(q[k]))
                          /\ q[k].do = "turn" => k = 1
    BY <1>1 DEF IsCalls
  <2>2. \A k \in 1 .. n : r[k].at \in 1 .. Len(Steps(r[k]))
    BY <1>4, <1>6, <2>1
  <2>3. Apart(r)
    BY <1>6, <1>7, <1>8 DEF Apart
  <2>4. QED
    BY <1>6, <1>7, <2>1, <2>2, <2>3 DEF IsCalls
<1>10. CallsOf(r) = (CallsOf(q) \ {f}) \union {NextOf(f)}
  <2>1. \A k \in 1 .. n : q[k] = f => k = n
    BY <1>1, <1>8
  <2>2. CallsOf(r) = {r[k] : k \in 1 .. n} /\ CallsOf(q) = {q[k] : k \in 1 .. n}
    BY <1>1, <1>6 DEF CallsOf
  <2>3. ASSUME NEW g \in CallsOf(r)
        PROVE  g \in (CallsOf(q) \ {f}) \union {NextOf(f)}
    <3>1. PICK k \in 1 .. n : g = r[k]
      BY <2>2
    <3>2. k # n => g = q[k] /\ g # f
      BY <1>6, <2>1, <3>1
    <3>3. QED
      BY <1>6, <2>2, <3>1, <3>2
  <2>4. ASSUME NEW g \in (CallsOf(q) \ {f}) \union {NextOf(f)}
        PROVE  g \in CallsOf(r)
    <3>1. CASE g = NextOf(f)
      <4>1. n \in 1 .. n /\ g = r[n]
        BY <1>6, <3>1
      <4>2. QED
        BY ONLY <2>2, <4>1
    <3>2. CASE g \in CallsOf(q) \ {f}
      <4>1. PICK k \in 1 .. n : g = q[k]
        BY <2>2, <3>2
      <4>2. k # n
        BY <1>1, <3>2, <4>1
      <4>3. QED
        BY <1>6, <2>2, <4>1, <4>2
    <3>3. QED
      BY <2>4, <3>1, <3>2
  <2>5. QED
    BY <2>3, <2>4
<1>11. QED
  BY <1>6, <1>9, <1>10

LEMMA ReturnCalls ==
  ASSUME NEW q, IsCalls(q), q # <<>>, NEW f, f = q[Len(q)],
         NEW r, r = SubSeq(q, 1, Len(q) - 1)
  PROVE  /\ IsCalls(r) /\ CallsOf(r) = CallsOf(q) \ {f}
         /\ f.do = "turn" => r = <<>>
<1>1. PICK n \in Nat \ {0} : Len(q) = n
  BY TopIs
<1>2. q \in Seq(CallRec)
  BY DEF IsCalls
<1>3. /\ r \in Seq(CallRec) /\ Len(r) = n - 1
      /\ \A k \in 1 .. n - 1 : r[k] = q[k]
  BY <1>1, <1>2
<1>4. \A j, k \in 1 .. n : q[j].obj = q[k].obj => j = k
  BY <1>1 DEF IsCalls, Apart
<1>5. IsCalls(r)
  BY <1>1, <1>3, <1>4 DEF IsCalls, Apart
<1>6. CallsOf(r) = CallsOf(q) \ {f}
  <2>1. \A k \in 1 .. n : q[k] = f => k = n
    BY <1>1, <1>4
  <2>2. CallsOf(r) = {r[k] : k \in 1 .. n - 1} /\ CallsOf(q) = {q[k] : k \in 1 .. n}
    BY <1>1, <1>3 DEF CallsOf
  <2>3. QED
    BY <1>1, <1>3, <2>1, <2>2
<1>7. f.do = "turn" => r = <<>>
  BY <1>1, <1>3 DEF IsCalls
<1>8. QED
  BY <1>5, <1>6, <1>7

LEMMA BeginCall ==
  ASSUME NEW q, IsCalls(q), NEW do \in {"turn", "release", "mark"}, NEW o \in Objects,
         do # "turn" \/ q = <<>>, \A g \in CallsOf(q) : g.obj # o
  PROVE  LET r == q \o <<Call(do, o)>> IN
         /\ IsCalls(r) /\ r # <<>>
         /\ CallsOf(r) = CallsOf(q) \union {Call(do, o)}
<1> DEFINE r == q \o <<Call(do, o)>>
<1>1. PICK n \in Nat : Len(q) = n
  BY DEF IsCalls
<1>2. q \in Seq(CallRec) /\ Call(do, o) \in CallRec
  BY CallFacts DEF IsCalls
<1>3. /\ r \in Seq(CallRec) /\ Len(r) = n + 1 /\ r[n + 1] = Call(do, o)
      /\ \A k \in 1 .. n : r[k] = q[k]
  BY <1>1, <1>2
<1>4. /\ Call(do, o).obj = o /\ Call(do, o).do = do
      /\ Call(do, o).at \in 1 .. Len(Steps(Call(do, o)))
  BY CallFacts
<1>5. q = <<>> => n = 0
  BY <1>1
<1>6. \A k \in 1 .. n : q[k].obj # o
  BY <1>1 DEF CallsOf
<1> HIDE DEF r
<1>7. IsCalls(r)
  BY <1>1, <1>3, <1>4, <1>5, <1>6 DEF IsCalls, Apart
<1>8. CallsOf(r) = CallsOf(q) \union {Call(do, o)}
  <2>1. CallsOf(r) = {r[k] : k \in 1 .. n + 1} /\ CallsOf(q) = {q[k] : k \in 1 .. n}
    BY <1>1, <1>3 DEF CallsOf
  <2>2. QED
    BY <1>1, <1>3, <2>1
<1>9. QED
  BY <1>3, <1>7, <1>8 DEF r

\* The calls whose object is not that of f.
LEMMA OtherCalls ==
  ASSUME NEW q, IsCalls(q), NEW f \in CallsOf(q)
  PROVE  \A g \in CallsOf(q) \ {f} : g.obj # f.obj
  BY CallsApart

\* What the next statement of f changes.
LEMMA AdvanceSets ==
  ASSUME NEW q, IsCalls(q), NEW f \in CallsOf(q), f.at < Len(Steps(f)),
         NEW G, G = (CallsOf(q) \ {f}) \union {NextOf(f)}
  PROVE  /\ ReleasedBy(G) = ReleasedBy(CallsOf(q))
         /\ MarkedBy(G) = MarkedBy(CallsOf(q))
         /\ HookedBy(G) = IF StepOf(f) = "hook" THEN HookedBy(CallsOf(q)) \union {f.obj}
                          ELSE HookedBy(CallsOf(q)) \ {f.obj}
         /\ StepOf(f) # "unhook" => f.obj \notin HookedBy(CallsOf(q))
         /\ StepOf(f) = "unhook" => f.obj \in HookedBy(CallsOf(q))
         /\ UnlinkedBy(G) = IF StepOf(f) = "unlink"
                            THEN UnlinkedBy(CallsOf(q)) \union {f.obj}
                            ELSE UnlinkedBy(CallsOf(q))
<1> DEFINE F == CallsOf(q)
           h == NextOf(f)
<1>1. f \in CallRec /\ f.at \in 1 .. Len(Steps(f)) /\ f.at \in Nat
  BY CallsAre
<1>2. /\ h.do = f.do /\ h.obj = f.obj /\ Done(h) = Done(f) \union {StepOf(f)}
      /\ StepOf(h) = "unhook" <=> StepOf(f) = "hook"
  BY <1>1, NextFacts
<1>3. \A g \in F \ {f} : g.obj # f.obj
  BY OtherCalls
<1>4. StepOf(f) = "unlink" => f.do = "release"
  BY <1>1, StepFacts
<1>5. f \in F /\ G = (F \ {f}) \union {h}
  OBVIOUS
<1> HIDE DEF F, h
<1>6. ReleasedBy(G) = ReleasedBy(F)
  BY <1>2, <1>5 DEF ReleasedBy
<1>7. MarkedBy(G) = MarkedBy(F)
  BY <1>2, <1>5 DEF MarkedBy
<1>8. /\ StepOf(f) # "unhook" => f.obj \notin HookedBy(F)
      /\ StepOf(f) = "unhook" => f.obj \in HookedBy(F)
  BY <1>3, <1>5 DEF HookedBy
<1>9. HookedBy(G) = IF StepOf(f) = "hook" THEN HookedBy(F) \union {f.obj}
                    ELSE HookedBy(F) \ {f.obj}
  BY <1>2, <1>3, <1>5 DEF HookedBy
<1>10. UnlinkedBy(G) = IF StepOf(f) = "unlink" THEN UnlinkedBy(F) \union {f.obj}
                       ELSE UnlinkedBy(F)
  BY <1>2, <1>4, <1>5 DEF UnlinkedBy
<1>11. QED
  BY <1>6, <1>7, <1>8, <1>9, <1>10 DEF F

LEMMA ReturnSets ==
  ASSUME NEW q, IsCalls(q), NEW f \in CallsOf(q),
         NEW G, G = CallsOf(q) \ {f}
  PROVE  /\ ReleasedBy(G) = ReleasedBy(CallsOf(q)) \ {f.obj}
         /\ MarkedBy(G) = MarkedBy(CallsOf(q)) \ {f.obj}
         /\ HookedBy(G) = HookedBy(CallsOf(q)) \ {f.obj}
         /\ UnlinkedBy(G) = UnlinkedBy(CallsOf(q)) \ {f.obj}
<1> DEFINE F == CallsOf(q)
<1>1. \A g \in F \ {f} : g.obj # f.obj
  BY OtherCalls
<1> HIDE DEF F
<1>2. G = F \ {f}
  BY DEF F
<1>3. ReleasedBy(G) = ReleasedBy(F) \ {f.obj}
  BY <1>1, <1>2 DEF ReleasedBy
<1>4. MarkedBy(G) = MarkedBy(F) \ {f.obj}
  BY <1>1, <1>2 DEF MarkedBy
<1>5. HookedBy(G) = HookedBy(F) \ {f.obj}
  BY <1>1, <1>2 DEF HookedBy
<1>6. UnlinkedBy(G) = UnlinkedBy(F) \ {f.obj}
  BY <1>1, <1>2 DEF UnlinkedBy
<1>7. QED
  BY <1>3, <1>4, <1>5, <1>6 DEF F

LEMMA BeginSets ==
  ASSUME NEW F, NEW do \in {"turn", "release", "mark"}, NEW o \in Objects,
         NEW G, G = F \union {Call(do, o)}
  PROVE  /\ ReleasedBy(G) = IF do = "release" THEN ReleasedBy(F) \union {o}
                            ELSE ReleasedBy(F)
         /\ MarkedBy(G) = IF do = "mark" THEN MarkedBy(F) \union {o} ELSE MarkedBy(F)
         /\ HookedBy(G) = HookedBy(F)
         /\ UnlinkedBy(G) = UnlinkedBy(F)
<1> DEFINE c == Call(do, o)
<1>1. c.do = do /\ c.obj = o /\ Done(c) = {} /\ StepOf(c) # "unhook"
  BY CallFacts
<1>2. G = F \union {c}
  OBVIOUS
<1> HIDE DEF c
<1>3. ReleasedBy(G) = IF do = "release" THEN ReleasedBy(F) \union {o} ELSE ReleasedBy(F)
  BY <1>1, <1>2 DEF ReleasedBy
<1>4. MarkedBy(G) = IF do = "mark" THEN MarkedBy(F) \union {o} ELSE MarkedBy(F)
  BY <1>1, <1>2 DEF MarkedBy
<1>5. HookedBy(G) = HookedBy(F)
  BY <1>1, <1>2 DEF HookedBy
<1>6. UnlinkedBy(G) = UnlinkedBy(F)
  BY <1>1, <1>2 DEF UnlinkedBy
<1>7. QED
  BY <1>3, <1>4, <1>5, <1>6

----------------------------------------------------------------------------
(* Counts *)

LEMMA MoreLess ==
  ASSUME NEW f \in [Objects -> Int], NEW o \in ObjectOrNone
  PROVE  /\ More(f, o) \in [Objects -> Int] /\ Less(f, o) \in [Objects -> Int]
         /\ \A p \in Objects : /\ More(f, o)[p] = f[p] + In(p, {o})
                               /\ Less(f, o)[p] = f[p] - In(p, {o})
  BY ObjectsAssumption DEF More, Less, In, ObjectOrNone

LEMMA UsersAre ==
  ASSUME NEW v, NEW p
  PROVE  /\ IsFiniteSet(Users(v, p)) /\ Cardinality(Users(v, p)) \in Nat
         /\ Cardinality(Users(v, p)) = 0 <=> \A o \in Objects : v[o] # p
<1>1. Users(v, p) \in SUBSET Objects
  BY DEF Users
<1>2. IsFiniteSet(Users(v, p))
  BY <1>1, ObjectsAssumption, FS_Subset
<1>3. Cardinality(Users(v, p)) = 0 <=> Users(v, p) = {}
  BY <1>2, FS_EmptySet
<1>4. QED
  BY <1>2, <1>3, FS_CardinalityType DEF Users

\* What the references by a field v are when it is y for x: those by w.
Rewired(v, x, y, w) ==
  \A p : Cardinality(Users(w, p)) =
           Cardinality(Users(v, p)) + In(p, {y}) - In(p, {v[x]})

LEMMA CountPut ==
  ASSUME NEW v \in Pointers, NEW x \in Objects, NEW y,
         NEW w, w = [v EXCEPT ![x] = y]
  PROVE  Rewired(v, x, y, w)
<1> SUFFICES ASSUME NEW p
             PROVE  Cardinality(Users(w, p)) =
                      Cardinality(Users(v, p)) + In(p, {y}) - In(p, {v[x]})
  BY DEF Rewired
<1>0. DOMAIN v = Objects
  BY DEF Pointers
<1> DEFINE R == Users(v, p) \ {x}
<1>1. IsFiniteSet(Users(v, p)) /\ Cardinality(Users(v, p)) \in Nat
  BY UsersAre
<1>2. /\ IsFiniteSet(R)
      /\ Cardinality(R) = IF x \in Users(v, p) THEN Cardinality(Users(v, p)) - 1
                          ELSE Cardinality(Users(v, p))
  BY <1>1, FS_RemoveElement
<1>3. x \in Users(v, p) <=> v[x] = p
  BY DEF Users
<1>4. Cardinality(R) = Cardinality(Users(v, p)) - In(p, {v[x]})
  BY <1>1, <1>2, <1>3 DEF In
<1>5. CASE y = p
  <2>1. Users(w, p) = R \union {x}
    BY <1>0, <1>5 DEF Users
  <2>2. x \notin R
    OBVIOUS
  <2>3. Cardinality(Users(w, p)) = Cardinality(R) + 1
    BY <1>2, <2>1, <2>2, FS_AddElement
  <2>4. QED
    BY <1>1, <1>4, <1>5, <2>3 DEF In
<1>6. CASE y # p
  <2>1. Users(w, p) = R
    BY <1>0, <1>6 DEF Users
  <2> DEFINE b == In(p, {y})
             c == In(p, {v[x]})
             n == Cardinality(Users(v, p))
  <2>2. b = 0 /\ c \in {0, 1} /\ n \in Nat
    BY <1>1, <1>6 DEF In
  <2>3. Cardinality(Users(w, p)) = n - c
    BY <1>4, <2>1
  <2> HIDE DEF b, c, n
  <2>4. Cardinality(Users(w, p)) = n + b - c
    BY <2>2, <2>3
  <2>5. QED
    BY <2>4 DEF b, c, n
<1>7. QED
  BY <1>5, <1>6

LEMMA InSets ==
  ASSUME NEW p, NEW S
  PROVE  /\ In(p, S) \in Nat /\ In(p, S) <= 1
         /\ In(p, S) = 1 <=> p \in S
         /\ In(p, S) = 0 <=> p \notin S
         /\ In(p, {}) = 0
         /\ \A x : x \notin S => In(p, S \union {x}) = In(p, S) + In(p, {x})
         /\ \A x : x \in S => In(p, S \ {x}) = In(p, S) - In(p, {x})
  BY DEF In

----------------------------------------------------------------------------
(* Chains *)

\* A chain whose links are those of another.
LEMMA ChainSame ==
  ASSUME NEW c, NEW d, NEW G, NEW first, Chained(c, G, first),
         \A o \in G : d.next[o] = c.next[o] /\ d.prev[o] = c.prev[o]
  PROVE  Chained(d, G, first)
<1>1. Trapless(d.next, G) /\ Trapless(d.prev, G)
  BY DEF Chained, Trapless
<1>2. QED
  BY <1>1 DEF Chained

\* What holds the first object, and the next of each that it holds, holds all.
LEMMA ChainCover ==
  ASSUME NEW c, NEW G, G \subseteq Objects, NEW first, Chained(c, G, first), NEW S,
         first \in S \union {None},
         \A q \in G : q \in S => c.next[q] \in S \union {None}
  PROVE  G \subseteq S
<1> SUFFICES ASSUME G \ S # {}
             PROVE  FALSE
  OBVIOUS
<1>1. PICK x \in G \ S : c.prev[x] \notin G \ S
  <2>1. G \ S \in SUBSET G
    OBVIOUS
  <2>2. QED
    BY <2>1 DEF Chained, Trapless
<1>2. x \in Objects /\ x # None
  BY ObjectsAssumption
<1>3. c.prev[x] # None
  BY <1>2 DEF Chained
<1>4. c.prev[x] \in G /\ c.prev[x] \in S
  BY <1>1, <1>3 DEF Chained
<1>5. c.next[c.prev[x]] = x
  BY <1>4 DEF Chained
<1>6. QED
  BY <1>2, <1>4, <1>5

LEMMA ChainIs ==
  ASSUME NEW c, NEW G, G \subseteq Objects, NEW first, Chained(c, G, first)
  PROVE  Chain(c, first) = G
<1>1. Chain(c, first) \subseteq G
  <2>1. G \union {None} \in SUBSET ObjectOrNone
    BY DEF ObjectOrNone
  <2>2. first \in G \union {None} /\ \A q \in G : c.next[q] \in G \union {None}
    BY DEF Chained
  <2>3. \A p \in Chain(c, first) : p \in Objects /\ p \in G \union {None}
    BY <2>1, <2>2 DEF Chain
  <2>4. QED
    BY <2>3, ObjectsAssumption
<1>2. ASSUME NEW p \in G, NEW S \in SUBSET ObjectOrNone, first \in S,
             \A q \in S \ {None} : c.next[q] \in S
      PROVE  p \in S
  <2>1. \A q \in G : q \in S => c.next[q] \in S \union {None}
    BY <1>2, ObjectsAssumption
  <2>2. G \subseteq S
    BY <1>2, <2>1, ChainCover
  <2>3. QED
    BY <2>2
<1>3. G \subseteq Chain(c, first)
  BY <1>2 DEF Chain
<1>4. QED
  BY <1>1, <1>3

\* A chain without an object of it.
LEMMA TraplessSkip ==
  ASSUME NEW f, NEW G, G \subseteq Objects, Trapless(f, G), NEW o \in G, NEW g,
         \A x \in G \ {o} : g[x] = IF f[x] = o THEN f[o] ELSE f[x]
  PROVE  Trapless(g, G \ {o})
<1> SUFFICES ASSUME NEW S \in SUBSET (G \ {o}), S # {}
             PROVE  \E x \in S : g[x] \notin S
  BY DEF Trapless
<1>1. PICK x \in S : f[x] \notin S
  BY DEF Trapless
<1>2. CASE f[x] = o /\ f[o] \in S
  <2>1. S \union {o} \in SUBSET G /\ S \union {o} # {}
    OBVIOUS
  <2>2. PICK y \in S \union {o} : f[y] \notin S \union {o}
    BY <2>1 DEF Trapless
  <2>3. y \in S /\ f[y] # o
    BY <1>2, <2>2
  <2>4. QED
    BY <2>2, <2>3
<1>3. CASE ~(f[x] = o /\ f[o] \in S)
  BY <1>1, <1>3
<1>4. QED
  BY <1>2, <1>3

\* AddToChain: d is c with o before the chain G.
Pushed(c, G, o, d) ==
  /\ d \in Chains /\ Chained(d, G \union {o}, o)
  /\ d.head = c.head /\ d.thead = c.thead
  /\ \A x \in Objects : x \notin G \union {o} =>
       d.next[x] = c.next[x] /\ d.prev[x] = c.prev[x]

LEMMA ChainPush ==
  ASSUME NEW c \in Chains, NEW G, G \subseteq Objects, NEW first, Chained(c, G, first),
         NEW o \in Objects, o \notin G, NEW d, d = Linked(c, o, first)
  PROVE  Pushed(c, G, o, d)
<1>1. first \in G \union {None} /\ o # None /\ None \notin G /\ None \notin Objects
  BY ObjectsAssumption DEF Chained
<1>2. /\ d \in Chains /\ d.head = c.head /\ d.thead = c.thead
      /\ d.next = [c.next EXCEPT ![o] = first]
      /\ d.prev = Put([c.prev EXCEPT ![o] = None], first, o)
  BY <1>1 DEF Linked, Chains, Put, Pointers, ObjectOrNone
<1>3. \A x \in Objects : d.next[x] = IF x = o THEN first ELSE c.next[x]
  BY <1>2 DEF Chains, Pointers
<1>4. \A x \in Objects : d.prev[x] = IF x = first THEN o
                                     ELSE IF x = o THEN None ELSE c.prev[x]
  <2> DEFINE h == [c.prev EXCEPT ![o] = None]
  <2>1. /\ h \in [Objects -> ObjectOrNone]
        /\ \A x \in Objects : h[x] = IF x = o THEN None ELSE c.prev[x]
    BY DEF Chains, Pointers, ObjectOrNone
  <2> HIDE DEF h
  <2>2. \A x \in Objects : Put(h, first, o)[x] = IF x = first THEN o ELSE h[x]
    BY <1>1, <2>1 DEF Put
  <2>3. QED
    BY <1>2, <2>1, <2>2 DEF h
<1>5. Trapless(d.next, G \union {o})
  <2> SUFFICES ASSUME NEW S \in SUBSET (G \union {o}), S # {}
               PROVE  \E x \in S : d.next[x] \notin S
    BY DEF Trapless
  <2>1. CASE S = {o}
    BY <1>1, <1>3, <2>1
  <2>2. CASE S # {o}
    <3>1. S \ {o} \in SUBSET G /\ S \ {o} # {}
      BY <2>2
    <3>2. PICK x \in S \ {o} : c.next[x] \notin S \ {o}
      BY <3>1 DEF Chained, Trapless
    <3>3. c.next[x] # o
      BY <1>1, <3>2 DEF Chained
    <3>4. QED
      BY <1>3, <3>2, <3>3
  <2>3. QED
    BY <2>1, <2>2
<1>6. Trapless(d.prev, G \union {o})
  <2> SUFFICES ASSUME NEW S \in SUBSET (G \union {o}), S # {}
               PROVE  \E x \in S : d.prev[x] \notin S
    BY DEF Trapless
  <2>1. CASE o \in S
    BY <1>1, <1>4, <2>1
  <2>2. CASE o \notin S
    <3>1. PICK x \in S : c.prev[x] \notin S
      BY <2>2 DEF Chained, Trapless
    <3>2. QED
      BY <1>4, <2>2, <3>1
  <2>3. QED
    BY <2>1, <2>2
<1>7. ASSUME NEW x \in G \union {o}, NEW y \in G \union {o}
      PROVE  d.next[x] = y <=> d.prev[y] = x
  <2>1. \A a, b \in G : c.next[a] = b <=> c.prev[b] = a
    BY DEF Chained
  <2>2. \A a \in G : c.next[a] \in G \union {None} /\ c.prev[a] \in G \union {None}
    BY DEF Chained
  <2>3. \A a \in G : c.prev[a] = None <=> a = first
    BY DEF Chained
  <2>4. QED
    BY <1>1, <1>3, <1>4, <2>1, <2>2, <2>3
<1>8. \A x \in G \union {o} : /\ d.next[x] \in G \union {o, None}
                              /\ d.prev[x] \in G \union {o, None}
                              /\ d.prev[x] = None <=> x = o
  BY <1>1, <1>3, <1>4 DEF Chained
<1>9. Chained(d, G \union {o}, o)
  BY <1>5, <1>6, <1>7, <1>8 DEF Chained
<1>10. ASSUME NEW x \in Objects, x \notin G \union {o}
       PROVE  d.next[x] = c.next[x] /\ d.prev[x] = c.prev[x]
  <2>1. x # o /\ x # first
    BY <1>1, <1>10
  <2>2. QED
    BY <1>3, <1>4, <2>1
<1>11. QED
  BY <1>2, <1>9, <1>10 DEF Pushed

\* d is c without o, which was on the chain G of the head.
Removed(c, G, o, d) ==
  /\ d \in Chains /\ Chained(d, G \ {o}, d.head)
  /\ d.thead = c.thead
  /\ d.head = IF c.prev[o] = None THEN c.next[o] ELSE c.head
  /\ \A x \in G \ {o} :
       d.next[x] = IF c.next[x] = o THEN c.next[o] ELSE c.next[x]
  /\ \A x \in Objects \ G : d.next[x] = c.next[x] /\ d.prev[x] = c.prev[x]

LEMMA ChainRemove ==
  ASSUME NEW c \in Chains, NEW G, G \subseteq Objects, Chained(c, G, c.head),
         NEW o \in G, NEW d, d = RemoveFromChain(c, o)
  PROVE  Removed(c, G, o, d)
<1>1. /\ None \notin Objects /\ o \in Objects
      /\ c.next[o] \in G \union {None} /\ c.prev[o] \in G \union {None}
  BY ObjectsAssumption DEF Chained
<1>2. c.next[o] # o
  <2>1. {o} \in SUBSET G /\ Trapless(c.next, G)
    BY DEF Chained
  <2>2. \E x \in {o} : c.next[x] \notin {o}
    BY <2>1 DEF Trapless
  <2>3. QED
    BY <2>2
<1>3. c.prev[o] # o
  BY <1>2 DEF Chained
<1>4. /\ d \in Chains /\ d.thead = c.thead
      /\ d.head = IF c.prev[o] = None THEN c.next[o] ELSE c.head
      /\ d.next = [Put(c.next, c.prev[o], c.next[o]) EXCEPT ![o] = None]
      /\ d.prev = [Put(c.prev, c.next[o], c.prev[o]) EXCEPT ![o] = None]
  BY <1>1 DEF RemoveFromChain, Chains, Put, Pointers, ObjectOrNone
<1>5. \A x \in Objects \ {o} : d.next[x] = IF x = c.prev[o] THEN c.next[o] ELSE c.next[x]
  BY <1>1, <1>4 DEF Chains, Pointers, Put, ObjectOrNone
<1>6. \A x \in Objects \ {o} : d.prev[x] = IF x = c.next[o] THEN c.prev[o] ELSE c.prev[x]
  BY <1>1, <1>4 DEF Chains, Pointers, Put, ObjectOrNone
<1>7. \A x \in G : /\ x = c.prev[o] <=> c.next[x] = o
                   /\ x = c.next[o] <=> c.prev[x] = o
  BY DEF Chained
<1>8. \A x \in G \ {o} : /\ d.next[x] = IF c.next[x] = o THEN c.next[o] ELSE c.next[x]
                         /\ d.prev[x] = IF c.prev[x] = o THEN c.prev[o] ELSE c.prev[x]
  BY <1>5, <1>6, <1>7
<1>9. Trapless(d.next, G \ {o}) /\ Trapless(d.prev, G \ {o})
  <2>1. Trapless(c.next, G) /\ Trapless(c.prev, G)
    BY DEF Chained
  <2>2. QED
    BY <1>8, <2>1, TraplessSkip
<1>10. \A a, b \in G : c.next[a] = b <=> c.prev[b] = a
  BY DEF Chained
<1>11. ASSUME NEW x \in G \ {o}, NEW y \in G \ {o}
       PROVE  d.next[x] = y <=> d.prev[y] = x
  BY <1>1, <1>8, <1>10
<1>12. c.head \in G \union {None} /\ \A a \in G : c.prev[a] = None <=> a = c.head
  BY DEF Chained
<1>13. \A a \in G : c.next[a] \in G \union {None} /\ c.prev[a] \in G \union {None}
  BY DEF Chained
<1>14. \A x \in G \ {o} : /\ d.next[x] \in (G \ {o}) \union {None}
                          /\ d.prev[x] \in (G \ {o}) \union {None}
  BY <1>2, <1>3, <1>8, <1>13
<1>15. d.head \in (G \ {o}) \union {None}
  BY <1>1, <1>2, <1>4, <1>12
<1>16. \A x \in G \ {o} : d.prev[x] = None <=> x = d.head
  BY <1>1, <1>4, <1>8, <1>10, <1>12
<1>17. Chained(d, G \ {o}, d.head)
  BY <1>9, <1>11, <1>14, <1>15, <1>16 DEF Chained
<1>18. \A x \in Objects \ G : d.next[x] = c.next[x] /\ d.prev[x] = c.prev[x]
  BY <1>1, <1>5, <1>6
<1>19. QED
  BY <1>4, <1>8, <1>17, <1>18 DEF Removed

LEMMA ChainJoin ==
  ASSUME NEW c \in Chains, NEW G, G \subseteq Objects, NEW H, H \subseteq Objects,
         G \intersect H = {}, Chained(c, G, c.head), Chained(c, H, c.thead)
  PROVE  /\ Joined(c) \in Chains /\ Chained(Joined(c), G \union H, Joined(c).head)
         /\ Joined(c).thead = None
<1>1. None \notin Objects /\ c.head \in G \union {None} /\ c.thead \in H \union {None}
  BY ObjectsAssumption DEF Chained
<1>2. CASE c.head = None
  <2> DEFINE d == [c EXCEPT !.head = c.thead, !.thead = None]
  <2>1. Joined(c) = d
    BY <1>2 DEF Joined
  <2>2. d \in Chains /\ d.thead = None /\ d.head = c.thead
        /\ d.next = c.next /\ d.prev = c.prev
    BY DEF Chains, ObjectOrNone
  <2> HIDE DEF d
  <2>3. G \subseteq {}
    <3>1. c.head \in {} \union {None}
      BY <1>2
    <3>2. QED
      BY <3>1, ChainCover
  <2>4. Chained(d, G \union H, c.thead)
    <3>1. G \union H = H
      BY <2>3
    <3>2. Chained(d, H, c.thead)
      BY <2>2, ChainSame
    <3>3. QED
      BY <3>1, <3>2
  <2>5. QED
    BY <2>1, <2>2, <2>4
<1>3. CASE c.head # None
  <2> DEFINE last == CHOOSE o \in G : c.next[o] = None
             d == [c EXCEPT !.next = [@ EXCEPT ![last] = c.thead],
                            !.prev = Put(@, c.thead, last), !.thead = None]
  <2>1. Chain(c, c.head) = G
    BY ChainIs
  <2>2. \E o \in G : c.next[o] = None
    <3>1. G \in SUBSET G /\ G # {} /\ Trapless(c.next, G)
      BY <1>1, <1>3 DEF Chained
    <3>2. \E o \in G : c.next[o] \notin G
      BY <3>1 DEF Trapless
    <3>3. QED
      BY <3>2 DEF Chained
  <2>3. last \in G /\ c.next[last] = None
    BY <2>2
  <2>4. Joined(c) = d
    BY <1>3, <2>1 DEF Joined
  <2> HIDE DEF last
  <2>5. last \in Objects /\ last # None /\ last \notin H
    BY <1>1, <2>3
  <2>6. /\ d \in Chains /\ d.thead = None /\ d.head = c.head
        /\ d.next = [c.next EXCEPT ![last] = c.thead]
        /\ d.prev = Put(c.prev, c.thead, last)
    BY <2>5 DEF Chains, Pointers, ObjectOrNone, Put
  <2>7. /\ \A x \in Objects : d.next[x] = IF x = last THEN c.thead ELSE c.next[x]
        /\ \A x \in Objects : d.prev[x] = IF x = c.thead THEN last ELSE c.prev[x]
    BY <1>1, <2>6 DEF Chains, Pointers, Put
  <2> HIDE DEF d
  <2>8. Trapless(d.next, G \union H)
    <3> SUFFICES ASSUME NEW S \in SUBSET (G \union H), S # {}
                 PROVE  \E x \in S : d.next[x] \notin S
      BY DEF Trapless
    <3>1. CASE S \intersect H # {}
      <4>1. S \intersect H \in SUBSET H /\ Trapless(c.next, H)
        BY DEF Chained
      <4>2. PICK x \in S \intersect H : c.next[x] \notin S \intersect H
        BY <3>1, <4>1 DEF Trapless
      <4>3. c.next[x] \in H \union {None} /\ d.next[x] = c.next[x]
        BY <2>5, <2>7 DEF Chained
      <4>4. QED
        BY <1>1, <4>2, <4>3
    <3>2. CASE S \intersect H = {}
      <4>1. S \in SUBSET G /\ Trapless(c.next, G)
        BY <3>2 DEF Chained
      <4>2. PICK x \in S : c.next[x] \notin S
        BY <4>1 DEF Trapless
      <4>3. QED
        BY <1>1, <2>7, <3>2, <4>2
    <3>3. QED
      BY <3>1, <3>2
  <2>9. Trapless(d.prev, G \union H)
    <3> SUFFICES ASSUME NEW S \in SUBSET (G \union H), S # {}
                 PROVE  \E x \in S : d.prev[x] \notin S
      BY DEF Trapless
    <3>1. CASE S \intersect G # {}
      <4>1. S \intersect G \in SUBSET G /\ Trapless(c.prev, G)
        BY DEF Chained
      <4>2. PICK x \in S \intersect G : c.prev[x] \notin S \intersect G
        BY <3>1, <4>1 DEF Trapless
      <4>3. x # c.thead
        BY <1>1
      <4>4. c.prev[x] \in G \union {None} /\ d.prev[x] = c.prev[x]
        BY <2>7, <4>3 DEF Chained
      <4>5. QED
        BY <1>1, <4>2, <4>4
    <3>2. CASE S \intersect G = {}
      <4>1. S \in SUBSET H /\ Trapless(c.prev, H)
        BY <3>2 DEF Chained
      <4>2. PICK x \in S : c.prev[x] \notin S
        BY <4>1 DEF Trapless
      <4>3. QED
        BY <2>3, <2>7, <3>2, <4>2
    <3>3. QED
      BY <3>1, <3>2
  <2>10. ASSUME NEW x \in G \union H, NEW y \in G \union H
         PROVE  d.next[x] = y <=> d.prev[y] = x
    <3>1. /\ \A a, b \in G : c.next[a] = b <=> c.prev[b] = a
          /\ \A a, b \in H : c.next[a] = b <=> c.prev[b] = a
      BY DEF Chained
    <3>2. /\ \A a \in G : c.next[a] \in G \union {None} /\ c.prev[a] \in G \union {None}
          /\ \A a \in H : c.next[a] \in H \union {None} /\ c.prev[a] \in H \union {None}
      BY DEF Chained
    <3>3. /\ \A a \in H : c.prev[a] = None <=> a = c.thead
          /\ x # None /\ y # None /\ x \in Objects /\ y \in Objects
      BY <1>1 DEF Chained
    <3>4. CASE x \in G /\ y \in G
      <4>1. y # c.thead
        BY <1>1, <3>4
      <4>2. QED
        BY <1>1, <2>3, <2>7, <3>1, <3>3, <3>4, <4>1
    <3>5. CASE x \in H /\ y \in H
      BY <2>5, <2>7, <3>1, <3>3, <3>5
    <3>6. CASE x \in G /\ y \in H
      BY <1>1, <2>3, <2>7, <3>2, <3>3, <3>6
    <3>7. CASE x \in H /\ y \in G
      BY <1>1, <2>5, <2>7, <3>2, <3>3, <3>7
    <3>8. QED
      BY <3>4, <3>5, <3>6, <3>7
  <2>11. ASSUME NEW x \in G \union H
         PROVE  /\ d.next[x] \in G \union H \union {None}
                /\ d.prev[x] \in G \union H \union {None}
                /\ d.prev[x] = None <=> x = c.head
    <3>1. /\ \A a \in G : c.next[a] \in G \union {None} /\ c.prev[a] \in G \union {None}
          /\ \A a \in H : c.next[a] \in H \union {None} /\ c.prev[a] \in H \union {None}
          /\ \A a \in H : c.prev[a] = None <=> a = c.thead
          /\ \A a \in G : c.prev[a] = None <=> a = c.head
      BY DEF Chained
    <3>2. x \in Objects /\ x # None
      BY <1>1
    <3>3. CASE x \in G
      <4>1. x # c.thead
        BY <1>1, <3>3
      <4>2. QED
        BY <1>1, <2>7, <3>1, <3>2, <3>3, <4>1
    <3>4. CASE x \in H
      BY <1>1, <1>3, <2>3, <2>5, <2>7, <3>1, <3>2, <3>4
    <3>5. QED
      BY <3>3, <3>4
  <2>12. Chained(d, G \union H, c.head)
    BY <1>1, <2>8, <2>9, <2>10, <2>11 DEF Chained
  <2>13. QED
    BY <2>4, <2>6, <2>12
<1>4. QED
  BY <1>2, <1>3

----------------------------------------------------------------------------
(* References *)

LEMMA ReachedHolds ==
  ASSUME NEW v \in Pointers, NEW f \in Pointers, NEW S, S \subseteq Objects
  PROVE  /\ S \subseteq Reached(v, f, S) /\ Reached(v, f, S) \subseteq Objects
         /\ \A q \in Reached(v, f, S) : /\ v[q] \in Reached(v, f, S) \union {None}
                                        /\ f[q] \in Reached(v, f, S) \union {None}
<1>1. S \subseteq Reached(v, f, S) /\ Reached(v, f, S) \subseteq Objects
  BY DEF Reached
<1>2. ASSUME NEW q \in Reached(v, f, S), NEW p \in {v[q], f[q]}, p # None
      PROVE  p \in Reached(v, f, S)
  <2>1. q \in Objects /\ q # None /\ p \in Objects
    BY <1>1, <1>2, ObjectsAssumption DEF Pointers, ObjectOrNone
  <2>2. ASSUME NEW T \in SUBSET ObjectOrNone, S \subseteq T,
               \A x \in T \ {None} : {v[x], f[x]} \subseteq T
        PROVE  p \in T
    <3>1. q \in T
      BY <2>2 DEF Reached
    <3>2. QED
      BY <2>1, <2>2, <3>1
  <2>3. QED
    BY <2>1, <2>2 DEF Reached
<1>3. QED
  BY <1>1, <1>2

LEMMA ReachedLeast ==
  ASSUME NEW v, NEW f, NEW S, NEW T \in SUBSET ObjectOrNone, S \subseteq T,
         \A q \in T \ {None} : v[q] \in T /\ f[q] \in T
  PROVE  Reached(v, f, S) \subseteq T
  BY DEF Reached

LEMMA HandlesAre ==
  ASSUME hnd \in Pointers
  PROVE  /\ Handles \subseteq Objects
         /\ \A p \in Objects : p \in Handles <=> \E o \in Objects : hnd[o] = p
  BY ObjectsAssumption DEF Handles, Pointers, ObjectOrNone

\* The references to p that are not the loop's or its hook's.
Held(p) == Cardinality(Users(val, p)) + Cardinality(Users(fixed, p))
             + In(p, Handles) + In(p, root)

IsHeld(p) == \/ \E o \in Objects : val[o] = p \/ fixed[o] = p
             \/ p \in Handles \union root

LEMMA HeldIs ==
  ASSUME NEW p
  PROVE  /\ Held(p) \in Nat /\ (Held(p) >= 1 <=> IsHeld(p))
         /\ Count(p) = Held(p) + In(p, {cur}) + In(p, InHook)
<1> DEFINE a == Cardinality(Users(val, p))
           b == Cardinality(Users(fixed, p))
           c == In(p, Handles)
           d == In(p, root)
<1>1. /\ a \in Nat /\ (a = 0 <=> \A o \in Objects : val[o] # p)
      /\ b \in Nat /\ (b = 0 <=> \A o \in Objects : fixed[o] # p)
  BY UsersAre
<1>2. /\ c \in Nat /\ (c = 0 <=> p \notin Handles)
      /\ d \in Nat /\ (d = 0 <=> p \notin root)
  BY InSets
<1>3. Held(p) = a + b + c + d
  BY DEF Held
<1>4. Count(p) = a + b + c + d + In(p, {cur}) + In(p, InHook)
  BY DEF Count
<1> HIDE DEF a, b, c, d
<1>5. Held(p) \in Nat /\ (Held(p) >= 1 <=> a # 0 \/ b # 0 \/ c # 0 \/ d # 0)
  BY <1>1, <1>2, <1>3
<1>6. In(p, {cur}) \in Nat /\ In(p, InHook) \in Nat
  BY InSets
<1>7. QED
  BY <1>1, <1>2, <1>3, <1>4, <1>5, <1>6 DEF IsHeld

\* What is referred to is allocated.
LEMMA HeldLive ==
  ASSUME Typed, Dead, Counted, NEW p \in Objects, IsHeld(p) \/ p = cur
  PROVE  ref[p] >= 1 /\ p \in live
<1>1. ref[p] = Held(p) + In(p, {cur}) + In(p, InHook)
  BY HeldIs DEF Counted
<1>2. /\ Held(p) \in Nat /\ (Held(p) >= 1 <=> IsHeld(p))
      /\ In(p, {cur}) \in Nat /\ (In(p, {cur}) = 1 <=> p = cur) /\ In(p, InHook) \in Nat
  BY HeldIs, InSets
<1>3. ref[p] >= 1
  BY <1>1, <1>2
<1>4. QED
  BY <1>3 DEF Dead

LEMMA ReachableLive ==
  ASSUME Typed, Dead, Counted
  PROVE  Reachable \subseteq live
<1>1. \A p \in Objects : IsHeld(p) => p \in live
  BY HeldLive
<1>2. Handles \subseteq Objects /\ root \subseteq Objects /\ live \subseteq Objects
      /\ val \in Pointers /\ fixed \in Pointers
  BY HandlesAre DEF Typed
<1>3. root \union Handles \subseteq live \union {None}
  BY <1>1, <1>2 DEF IsHeld
<1>4. \A q \in (live \union {None}) \ {None} : /\ val[q] \in live \union {None}
                                               /\ fixed[q] \in live \union {None}
  BY <1>1, <1>2 DEF IsHeld, Pointers, ObjectOrNone
<1>5. live \union {None} \in SUBSET ObjectOrNone
  BY <1>2 DEF ObjectOrNone
<1>6. Reachable \subseteq live \union {None}
  BY <1>3, <1>4, <1>5, ReachedLeast DEF Reachable
<1>7. Reachable \subseteq Objects
  BY DEF Reachable, Reached
<1>8. QED
  BY <1>6, <1>7, ObjectsAssumption

\* Nothing refers to an object that is being released.
LEMMA NoRefs ==
  ASSUME Typed, Called, Dying, Counted, NEW p \in Released
  PROVE  p \in Objects /\ ~ IsHeld(p) /\ p # cur
<1>1. PICK f \in Pending : f.do = "release" /\ f.obj = p
  BY DEF Released, ReleasedBy
<1>2. p \in Objects
  BY <1>1, CallsAre DEF Called, Pending, CallRec
<1>3. ref[p] = IF p \in InHook THEN 1 ELSE 0
  BY <1>1 DEF Dying
<1>4. ref[p] = Held(p) + In(p, {cur}) + In(p, InHook)
  BY <1>2, HeldIs DEF Counted
<1>5. /\ Held(p) \in Nat /\ (Held(p) >= 1 <=> IsHeld(p))
      /\ In(p, {cur}) \in Nat /\ (In(p, {cur}) = 1 <=> p = cur)
      /\ In(p, {cur}) <= 1 /\ (In(p, {cur}) = 0 <=> p # cur)
      /\ In(p, InHook) = IF p \in InHook THEN 1 ELSE 0
  BY HeldIs, InSets DEF In
<1>6. QED
  BY <1>2, <1>3, <1>4, <1>5

\* An object whose last reference ends is in no call.
LEMMA LastRef ==
  ASSUME Typed, Called, Dying, Counted, ~ MarkPhase,
         NEW p \in Objects, IsHeld(p), ref[p] = 1
  PROVE  \A f \in Pending : f.obj # p
<1>1. ASSUME NEW f \in Pending, f.obj = p
      PROVE  FALSE
  <2>1. f.do \in {"turn", "release", "mark"}
    BY CallsAre DEF Called, Pending, CallRec
  <2>2. f.do # "mark"
    BY DEF Called
  <2>3. p \notin Released
    BY NoRefs
  <2>4. f.do # "release"
    BY <1>1, <2>3 DEF Released, ReleasedBy
  <2>5. p = cur
    BY <1>1, <2>1, <2>2, <2>4 DEF Called
  <2>6. ref[p] = Held(p) + In(p, {cur}) + In(p, InHook)
    BY HeldIs DEF Counted
  <2>7. Held(p) \in Nat /\ Held(p) >= 1 /\ In(p, InHook) \in Nat /\ In(p, {cur}) = 1
    BY <2>5, HeldIs, InSets
  <2>8. QED
    BY <2>6, <2>7
<1>2. QED
  BY <1>1

----------------------------------------------------------------------------
(* What an action does to the calls *)

\* What is released when the last reference to p ends.
Ending(g, p) == {x \in Objects : x = p /\ g[x] = 1 /\ ~ mark[x]}

\* F and G differ only by the releases of E that begin.
Begins(F, G, E) ==
  /\ G = F \union {Call("release", x) : x \in E}
  /\ ReleasedBy(G) = ReleasedBy(F) \union E /\ MarkedBy(G) = MarkedBy(F)
  /\ HookedBy(G) = HookedBy(F) /\ UnlinkedBy(G) = UnlinkedBy(F)

LEMMA ReleaseCalls ==
  ASSUME NEW q, IsCalls(q), NEW g, NEW p \in ObjectOrNone,
         g[p] = 1 => \A f \in CallsOf(q) : f.obj # p
  PROVE  LET r == q \o Release(g, p)
         IN IsCalls(r) /\ Begins(CallsOf(q), CallsOf(r), Ending(g, p))
<1> DEFINE r == q \o Release(g, p)
<1>1. CASE p # None /\ g[p] = 1 /\ ~ mark[p]
  <2>1. p \in Objects
    BY <1>1 DEF ObjectOrNone
  <2>2. r = q \o <<Call("release", p)>> /\ Ending(g, p) = {p}
    BY <1>1, <2>1 DEF Release, Ending
  <2> HIDE DEF r
  <2>3. IsCalls(r) /\ CallsOf(r) = CallsOf(q) \union {Call("release", p)}
    BY <1>1, <2>1, <2>2, BeginCall
  <2>4. /\ ReleasedBy(CallsOf(r)) = ReleasedBy(CallsOf(q)) \union {p}
        /\ MarkedBy(CallsOf(r)) = MarkedBy(CallsOf(q))
        /\ HookedBy(CallsOf(r)) = HookedBy(CallsOf(q))
        /\ UnlinkedBy(CallsOf(r)) = UnlinkedBy(CallsOf(q))
    BY <2>1, <2>3, BeginSets
  <2>5. CallsOf(r) = CallsOf(q) \union {Call("release", x) : x \in Ending(g, p)}
    BY <2>2, <2>3
  <2>6. QED
    BY <2>2, <2>3, <2>4, <2>5 DEF Begins, r
<1>2. CASE ~(p # None /\ g[p] = 1 /\ ~ mark[p])
  <2>1. q \in Seq(CallRec)
    BY DEF IsCalls
  <2>2. r = q /\ Ending(g, p) = {}
    BY <1>2, <2>1, ObjectsAssumption DEF Release, Ending
  <2> HIDE DEF r
  <2>3. QED
    BY <2>2 DEF Begins, r
<1>3. QED
  BY <1>1, <1>2

\* The top call goes to its next statement, and what loses its last reference
\* is released.
Advances(E) ==
  LET f == Top
  IN /\ IsCalls(calls') /\ calls # <<>>
     /\ Top \in Pending /\ f \in CallRec
     /\ Pending' = (Pending \ {f}) \union {NextOf(f)} \union {Call("release", x) : x \in E}
     /\ Released' = Released \union E /\ Marking' = Marking
     /\ InHook' = IF StepOf(f) = "hook" THEN InHook \union {f.obj}
                  ELSE InHook \ {f.obj}
     /\ StepOf(f) # "unhook" => f.obj \notin InHook
     /\ StepOf(f) = "unhook" => f.obj \in InHook
     /\ Unlinked' = IF StepOf(f) = "unlink" THEN Unlinked \union {f.obj} ELSE Unlinked

LEMMA AdvanceStep ==
  ASSUME Called, calls # <<>>, Top.at < Len(Steps(Top)),
         NEW g, NEW p \in ObjectOrNone,
         g[p] = 1 => \A f \in Pending : f.obj # p,
         calls' = Advanced \o Release(g, p)
  PROVE  Advances(Ending(g, p))
<1> DEFINE f == Top
           r == Advanced
<1>1. /\ IsCalls(calls) /\ f \in Pending /\ f \in CallRec
      /\ f = calls[Len(calls)] /\ f.at \in Nat
  BY TopIs DEF Called, Pending, Top, CallRec
<1>2. IsCalls(r) /\ CallsOf(r) = (Pending \ {f}) \union {NextOf(f)}
  BY <1>1, AdvanceCalls DEF Pending, Advanced
<1> HIDE DEF r
<1>3. g[p] = 1 => \A h \in CallsOf(r) : h.obj # p
  <2>1. NextOf(f).obj = f.obj
    BY <1>1, NextFacts
  <2>2. QED
    BY <1>1, <1>2, <2>1
<1>4. IsCalls(calls') /\ Begins(CallsOf(r), CallsOf(calls'), Ending(g, p))
  BY <1>2, <1>3, ReleaseCalls DEF r
<1>5. /\ ReleasedBy(CallsOf(r)) = Released /\ MarkedBy(CallsOf(r)) = Marking
      /\ HookedBy(CallsOf(r)) = IF StepOf(f) = "hook" THEN InHook \union {f.obj}
                                ELSE InHook \ {f.obj}
      /\ StepOf(f) # "unhook" => f.obj \notin InHook
      /\ StepOf(f) = "unhook" => f.obj \in InHook
      /\ UnlinkedBy(CallsOf(r)) = IF StepOf(f) = "unlink" THEN Unlinked \union {f.obj}
                                  ELSE Unlinked
  BY <1>1, <1>2, AdvanceSets DEF Released, Marking, InHook, Unlinked, Pending
<1>6. Pending' = CallsOf(calls')
  BY DEF Pending
<1>7. /\ Released' = ReleasedBy(Pending') /\ Marking' = MarkedBy(Pending')
      /\ InHook' = HookedBy(Pending') /\ Unlinked' = UnlinkedBy(Pending')
  BY DEF Released, Marking, InHook, Unlinked, ReleasedBy, MarkedBy, HookedBy, UnlinkedBy
<1> HIDE DEF f
<1>8. QED
  BY <1>1, <1>2, <1>4, <1>5, <1>6, <1>7 DEF Advances, Begins, f

\* The same without a release.
LEMMA AdvanceOnly ==
  ASSUME Called, calls # <<>>, Top.at < Len(Steps(Top)), calls' = Advanced
  PROVE  Advances({})
<1>1. IsCalls(Advanced)
  BY AdvanceCalls DEF Called, Advanced, Top
<1>2. Advanced \in Seq(CallRec)
  BY <1>1 DEF IsCalls
<1>3. Advanced \o Release([x \in {} |-> 0], None) = Advanced
  BY <1>2 DEF Release
<1>4. Ending([x \in {} |-> 0], None) = {}
  BY ObjectsAssumption DEF Ending
<1>5. None \in ObjectOrNone
  BY DEF ObjectOrNone
<1>6. \A f \in Pending : f.obj # None
  BY CallsAre, ObjectsAssumption DEF Called, Pending, CallRec
<1>7. QED
  BY <1>3, <1>4, <1>5, <1>6, AdvanceStep

LEMMA NoCalls ==
  ASSUME calls = <<>>
  PROVE  /\ IsCalls(calls) /\ CallsOf(calls) = {} /\ Pending = {} /\ Released = {}
         /\ Marking = {} /\ InHook = {} /\ Unlinked = {}
<1>1. IsCalls(calls) /\ Pending = {} /\ CallsOf(calls) = {}
  BY DEF IsCalls, Apart, CallsOf, Pending
<1>2. QED
  BY <1>1 DEF Released, Marking, InHook, Unlinked, ReleasedBy, MarkedBy, HookedBy, UnlinkedBy

\* When no other call is in progress, what loses its last reference is released.
LEMMA ReleaseStep ==
  ASSUME NEW g, NEW p \in ObjectOrNone, calls' = Release(g, p)
  PROVE  /\ IsCalls(calls')
         /\ Pending' = {Call("release", x) : x \in Ending(g, p)}
         /\ Released' = Ending(g, p) /\ Marking' = {} /\ InHook' = {} /\ Unlinked' = {}
<1>1. IsCalls(<<>>) /\ CallsOf(<<>>) = {}
  BY DEF IsCalls, Apart, CallsOf
<1>2. /\ ReleasedBy({}) = {} /\ MarkedBy({}) = {}
      /\ HookedBy({}) = {} /\ UnlinkedBy({}) = {}
  BY DEF ReleasedBy, MarkedBy, HookedBy, UnlinkedBy
<1>3. calls' = <<>> \o Release(g, p)
  BY DEF Release
<1>4. IsCalls(calls') /\ Begins({}, CallsOf(calls'), Ending(g, p))
  BY <1>1, <1>3, ReleaseCalls
<1>5. Pending' = CallsOf(calls')
  BY DEF Pending
<1>6. /\ Released' = ReleasedBy(Pending') /\ Marking' = MarkedBy(Pending')
      /\ InHook' = HookedBy(Pending') /\ Unlinked' = UnlinkedBy(Pending')
  BY DEF Released, Marking, InHook, Unlinked, ReleasedBy, MarkedBy, HookedBy, UnlinkedBy
<1>7. QED
  BY <1>2, <1>4, <1>5, <1>6 DEF Begins

\* The top call returns.
LEMMA ReturnStep ==
  ASSUME Called, calls # <<>>
  PROVE  /\ IsCalls(Returned) /\ CallsOf(Returned) = Pending \ {Top}
         /\ Top.do = "turn" => Returned = <<>> /\ Pending = {Top}
         /\ calls' = Returned =>
              /\ IsCalls(calls') /\ Pending' = Pending \ {Top}
              /\ Released' = Released \ {Top.obj} /\ Marking' = Marking \ {Top.obj}
              /\ InHook' = InHook \ {Top.obj} /\ Unlinked' = Unlinked \ {Top.obj}
<1> DEFINE f == Top
<1>1. IsCalls(calls) /\ f = calls[Len(calls)] /\ f \in Pending
  BY TopIs DEF Called, Top, Pending
<1>2. /\ IsCalls(Returned) /\ CallsOf(Returned) = Pending \ {f}
      /\ f.do = "turn" => Returned = <<>>
  BY <1>1, ReturnCalls DEF Returned, Pending
<1>3. CallsOf(<<>>) = {}
  BY DEF CallsOf
<1>4. f.do = "turn" => Pending = {f}
  BY <1>1, <1>2, <1>3
<1>5. ASSUME calls' = Returned
      PROVE  /\ IsCalls(calls') /\ Pending' = Pending \ {f}
             /\ Released' = Released \ {f.obj} /\ Marking' = Marking \ {f.obj}
             /\ InHook' = InHook \ {f.obj} /\ Unlinked' = Unlinked \ {f.obj}
  <2>1. CallsOf(calls') = Pending \ {f} /\ Pending' = CallsOf(calls')
    BY <1>2, <1>5 DEF Pending
  <2>2. LET G == CallsOf(calls')
        IN /\ ReleasedBy(G) = Released \ {f.obj} /\ MarkedBy(G) = Marking \ {f.obj}
           /\ HookedBy(G) = InHook \ {f.obj} /\ UnlinkedBy(G) = Unlinked \ {f.obj}
    BY <1>1, <2>1, ReturnSets DEF Released, Marking, InHook, Unlinked, Pending
  <2>3. /\ Released' = ReleasedBy(Pending') /\ Marking' = MarkedBy(Pending')
        /\ InHook' = HookedBy(Pending') /\ Unlinked' = UnlinkedBy(Pending')
    BY DEF Released, Marking, InHook, Unlinked, ReleasedBy, MarkedBy, HookedBy, UnlinkedBy
  <2>4. QED
    BY <1>2, <1>5, <2>1, <2>2, <2>3
<1>6. QED
  BY <1>2, <1>4, <1>5

LEMMA TopFacts ==
  ASSUME Called, NEW s, At(s)
  PROVE  /\ calls # <<>> /\ Top \in Pending /\ StepOf(Top) = s
         /\ Top \in CallRec /\ Top.at \in 1 .. Len(Steps(Top)) /\ Top.obj \in Objects
<1>1. calls # <<>> /\ IsCalls(calls)
  BY DEF At, Called
<1>2. Top \in Pending /\ Top \in CallRec /\ Top.at \in 1 .. Len(Steps(Top))
  BY <1>1, TopIs DEF Pending, Top
<1>3. QED
  BY <1>1, <1>2 DEF At, StepOf, CallRec

\* While nothing is being marked, the call stack has no Mark.
LEMMA NoMarking ==
  ASSUME Called, Marks, ~ MarkPhase
  PROVE  /\ Marking = {} /\ Moved = MarkedOnes
         /\ OnGc = live \ (MarkedOnes \union Unlinked)
         /\ \A o \in MarkedOnes : /\ fixed[o] \in MarkedOnes \union {None}
                                  /\ val[o] \in MarkedOnes \union {None}
<1>1. \A f \in Pending : f.do # "mark"
  BY DEF Called
<1>2. Marking = {}
  BY <1>1 DEF Marking, MarkedBy
<1>3. QED
  BY <1>1, <1>2 DEF Moved, OnGc, Marks

\* The statements of releases and turns leave the marks alone.
LEMMA MarksStep ==
  ASSUME Inv, ~ MarkPhase, UNCHANGED <<mark, pc, doomed>>,
         IsCalls(calls'), Marking' = {}, LoopPhase \/ cur' = None,
         \A f \in Pending' : f.do = "turn" => LoopPhase /\ f.obj = cur',
         \A f \in Pending' : f.do # "mark",
         pc = "sweep" =>
           /\ Handles' \subseteq Handles /\ root' \subseteq root
           /\ \A o \in Objects : val'[o] \in {val[o], None} /\ fixed'[o] \in {fixed[o], None}
  PROVE  /\ Called' /\ Marks' /\ Doom'
         /\ Moved' = Moved /\ Moved = MarkedOnes
         /\ OnGc = live \ (MarkedOnes \union Unlinked)
         /\ OnGc' = live' \ (MarkedOnes \union Unlinked')
<1>1. /\ Marking = {} /\ Moved = MarkedOnes
      /\ OnGc = live \ (MarkedOnes \union Unlinked)
      /\ \A o \in MarkedOnes : /\ fixed[o] \in MarkedOnes \union {None}
                               /\ val[o] \in MarkedOnes \union {None}
  BY NoMarking DEF Inv
<1>2. /\ MarkedOnes' = MarkedOnes /\ Moved' = Moved
      /\ OnGc' = live' \ (MarkedOnes \union Unlinked')
  BY <1>1 DEF MarkedOnes, Moved, OnGc
<1>3. ~ MarkPhase' /\ LoopPhase' = LoopPhase
  BY DEF MarkPhase, LoopPhase
<1>4. Called'
  BY <1>3 DEF Inv, Called
<1>5. Marks'
  <2>1. CASE pc = "sweep"
    <3>1. /\ root' \union Handles' \subseteq MarkedOnes
          /\ \A o \in MarkedOnes : /\ fixed'[o] \in MarkedOnes \union {None}
                                   /\ val'[o] \in MarkedOnes \union {None}
      BY <1>1, <2>1 DEF Inv, Marks, MarkedOnes
    <3>2. QED
      BY <1>2, <2>1, <3>1 DEF Marks
  <2>2. CASE pc # "sweep"
    <3>1. MarkedOnes = {}
      BY <2>2 DEF Inv, Marks
    <3>2. QED
      BY <1>2, <2>2, <3>1 DEF Marks
  <2>3. QED
    BY <2>1, <2>2
<1>6. Doom'
  BY <1>2 DEF Inv, Doom, MarkPhase
<1>7. QED
  BY <1>1, <1>2, <1>4, <1>5, <1>6

\* Most of them leave the chains alone too.
LEMMA QuietStep ==
  ASSUME Inv, OnGc' = OnGc, Moved' = Moved, links' = links
  PROVE  OnChains'
  BY DEF Inv, OnChains, Chained, Trapless

\* The loop goes on while objects are released.
LEMMA LoopsStep ==
  ASSUME Inv, UNCHANGED <<links, pc, cur>>, OnGc' = OnGc, Turn',
         LoopPhase =>
           /\ Handles' \subseteq Handles /\ root' \subseteq root
           /\ \A o \in Objects : val'[o] \in {val[o], None} /\ fixed'[o] \in {fixed[o], None}
           /\ \A o \in OnGc : o \in Released \/ ref[o] > 0 => o \in Released' \/ ref'[o] > 0,
         pc = "closed" => root' = {} /\ Handles' = {}
  PROVE  Loops'
<1>1. LoopPhase' = LoopPhase
  BY DEF LoopPhase
<1>2. CASE LoopPhase
  <2>1. PICK P \in SUBSET Objects : Passed(P)
    BY <1>2 DEF Inv, Loops
  <2>2. ASSUME NEW o \in P
        PROVE  /\ val'[o] = None
               /\ Kind[o] # "closure" => fixed'[o] = None
               /\ o \in Released' \/ ref'[o] > 0
    <3>1. /\ o \in Objects /\ o \in OnGc /\ val[o] = None
          /\ Kind[o] # "closure" => fixed[o] = None
          /\ o \in Released \/ ref[o] > 0
      BY <2>1 DEF Passed
    <3>2. QED
      BY <1>2, <3>1
  <2>3. /\ P \subseteq OnGc' \ {cur'}
        /\ links'.head \in P \union {cur'}
        /\ \A o \in P : links'.next[o] \in P \union {cur'}
    BY <2>1 DEF Passed
  <2>4. Passed(P)'
    BY <2>2, <2>3 DEF Passed
  <2>5. QED
    BY <1>2, <2>4 DEF Inv, Loops
<1>3. CASE ~ LoopPhase
  BY <1>1, <1>3 DEF Loops, LoopPhase
<1>4. QED
  BY <1>2, <1>3

\* The releases in progress, and those that begin.
LEMMA DyingStep ==
  ASSUME Inv, NEW E \in SUBSET Objects, Advances(E), Top.at < Len(Steps(Top)),
         UNCHANGED <<live, mark>>,
         \A x \in Released : /\ ref'[x] = IF x \in InHook' THEN 1 ELSE 0
                             /\ val[x] = None => val'[x] = None
                             /\ fixed[x] = None => fixed'[x] = None
                             /\ hnd[x] = None => hnd'[x] = None,
         StepOf(Top) = "val" => val'[Top.obj] = None,
         StepOf(Top) = "fixed" => fixed'[Top.obj] = None,
         StepOf(Top) = "hook" => hnd'[Top.obj] = None,
         \A x \in E : x \in live /\ ~ mark[x] /\ ref'[x] = 0 /\ x \notin InHook'
  PROVE  Dying'
<1> DEFINE f == Top
<1>1. f \in Pending /\ f \in CallRec /\ f.at < Len(Steps(f)) /\ f.at \in Nat
  BY DEF Advances, CallRec
<1>2. Pending' = (Pending \ {f}) \union {NextOf(f)} \union {Call("release", x) : x \in E}
  BY DEF Advances
<1>3. /\ NextOf(f).do = f.do /\ NextOf(f).obj = f.obj
      /\ Done(NextOf(f)) = Done(f) \union {StepOf(f)}
  BY <1>1, NextFacts
<1>4. ASSUME NEW h \in Pending', h.do = "release"
      PROVE  /\ h.obj \in live /\ ~ mark[h.obj]
             /\ ref'[h.obj] = (IF h.obj \in InHook' THEN 1 ELSE 0)
             /\ "val" \in Done(h) => val'[h.obj] = None
             /\ "fixed" \in Done(h) => fixed'[h.obj] = None
             /\ "hook" \in Done(h) => hnd'[h.obj] = None
  <2>1. ASSUME NEW g \in Pending, g.do = "release"
        PROVE  /\ g.obj \in live /\ ~ mark[g.obj] /\ g.obj \in Released
               /\ "val" \in Done(g) => val[g.obj] = None
               /\ "fixed" \in Done(g) => fixed[g.obj] = None
               /\ "hook" \in Done(g) => hnd[g.obj] = None
    BY <2>1 DEF Inv, Dying, Released, ReleasedBy
  <2>2. CASE h \in Pending \ {f}
    BY <1>4, <2>1, <2>2
  <2>3. CASE h = NextOf(f)
    <3>1. f.do = "release"
      BY <1>3, <1>4, <2>3
    <3>2. QED
      BY <1>1, <1>3, <2>1, <2>3, <3>1
  <2>4. CASE h \in {Call("release", x) : x \in E}
    <3>1. PICK x \in E : h = Call("release", x)
      BY <2>4
    <3>2. h.obj = x /\ Done(h) = {}
      BY <3>1, CallFacts
    <3>3. QED
      BY <3>2
  <2>5. QED
    BY <1>2, <2>2, <2>3, <2>4
<1>5. live' = live /\ mark' = mark
  OBVIOUS
<1>6. QED
  BY <1>4, <1>5 DEF Dying

\* The turn in progress.
LEMMA TurnStep ==
  ASSUME Inv, NEW E \in SUBSET Objects, Advances(E), Top.at < Len(Steps(Top)),
         \A x \in Objects : /\ val[x] = None => val'[x] = None
                            /\ fixed[x] = None => fixed'[x] = None,
         StepOf(Top) = "val" => val'[Top.obj] = None,
         StepOf(Top) = "fixed" => fixed'[Top.obj] = None
  PROVE  /\ Turn'
         /\ \A f \in Pending' : f.do = "turn" => LoopPhase /\ f.obj = cur
         /\ (\A f \in Pending : f.do # "mark") => \A f \in Pending' : f.do # "mark"
<1> DEFINE f == Top
<1>1. f \in Pending /\ f \in CallRec /\ f.at < Len(Steps(f)) /\ f.at \in Nat
  BY DEF Advances, CallRec
<1>2. Pending' = (Pending \ {f}) \union {NextOf(f)} \union {Call("release", x) : x \in E}
  BY DEF Advances
<1>3. /\ NextOf(f).do = f.do /\ NextOf(f).obj = f.obj
      /\ Done(NextOf(f)) = Done(f) \union {StepOf(f)}
  BY <1>1, NextFacts
<1>4. \A x \in E : Call("release", x).do = "release"
  BY CallFacts
<1>5. \A h \in Pending' : h \in Pending \ {f} \/ h = NextOf(f) \/ h.do = "release"
  BY <1>2, <1>4
<1>6. \A h \in Pending : h.obj \in Objects
  BY CallsAre DEF Inv, Called, Pending, CallRec
<1>7. \A h \in Pending' : h.do = "turn" => /\ "val" \in Done(h) => val'[h.obj] = None
                                           /\ "fixed" \in Done(h) => fixed'[h.obj] = None
  BY <1>1, <1>3, <1>5, <1>6 DEF Inv, Loops, Turn
<1>8. \A h \in Pending' : h.do = "turn" => LoopPhase /\ h.obj = cur
  BY <1>1, <1>3, <1>5 DEF Inv, Called
<1>9. QED
  BY <1>1, <1>3, <1>5, <1>7, <1>8 DEF Turn

LEMMA DropValStep ==
  ASSUME Inv, DropVal
  PROVE  Inv'
<1> DEFINE o == Top.obj
           p == val[o]
           E == Ending(ref, p)
<1>1. /\ calls # <<>> /\ Top \in Pending /\ StepOf(Top) = "val" /\ Top \in CallRec
      /\ Top.at \in 1 .. Len(Steps(Top)) /\ o \in Objects
  BY TopFacts DEF Inv, DropVal
<1>2. Top.do \in {"turn", "release"} /\ Top.at < Len(Steps(Top))
  BY <1>1, StepFacts
<1>3. ~ MarkPhase /\ \A f \in Pending : f.do # "mark"
  BY <1>1, <1>2 DEF Inv, Called
<1>4. /\ val' = [val EXCEPT ![o] = None] /\ ref' = Less(ref, p)
      /\ calls' = Advanced \o Release(ref, p)
      /\ UNCHANGED <<live, mark, links, fixed, hnd, root, pc, cur, doomed>>
  BY DEF DropVal, loop
<1>5. /\ val \in Pointers /\ p \in ObjectOrNone /\ ref \in [Objects -> Int]
      /\ None \in ObjectOrNone /\ None \notin Objects
  BY <1>1, ObjectsAssumption DEF Inv, Typed, Pointers, ObjectOrNone
<1>6. /\ \A x \in Objects : val'[x] = IF x = o THEN None ELSE val[x]
      /\ val' \in Pointers
  BY <1>1, <1>4, <1>5 DEF Pointers
<1>7. p \in Objects => IsHeld(p) /\ p \in live /\ p \notin Released
  <2>1. p \in Objects => IsHeld(p)
    BY <1>1 DEF IsHeld
  <2>2. QED
    BY <2>1, HeldLive, NoRefs DEF Inv
<1>8. ref[p] = 1 => \A f \in Pending : f.obj # p
  <2>1. CASE p \in Objects
    BY <1>3, <1>7, <2>1, LastRef DEF Inv
  <2>2. CASE p = None
    BY <1>5, <2>2, CallsAre DEF Inv, Called, Pending, CallRec
  <2>3. QED
    BY <1>5, <2>1, <2>2 DEF ObjectOrNone
<1>9. Advances(E)
  BY <1>1, <1>2, <1>4, <1>5, <1>8, AdvanceStep DEF Inv
<1>10. /\ E \in SUBSET Objects
       /\ IsCalls(calls') /\ Released' = Released \union E
       /\ Marking' = Marking /\ InHook' = InHook /\ Unlinked' = Unlinked
  BY <1>1, <1>9 DEF Advances, Ending
<1>11. /\ ref' \in [Objects -> Int]
       /\ \A x \in Objects : ref'[x] = ref[x] - In(x, {p})
  <2> HIDE DEF o, p
  <2>1. /\ Less(ref, p) \in [Objects -> Int]
        /\ \A x \in Objects : Less(ref, p)[x] = ref[x] - In(x, {p})
    BY <1>5, MoreLess
  <2>2. QED
    BY <1>4, <2>1
<1>12. \A x \in Objects : x # p => ref'[x] = ref[x]
  BY <1>5, <1>11, InSets DEF In
<1>13. Typed'
  BY <1>4, <1>6, <1>11 DEF Inv, Typed
<1>14. /\ Turn'
       /\ \A f \in Pending' : f.do = "turn" => LoopPhase /\ f.obj = cur
       /\ \A f \in Pending' : f.do # "mark"
  BY <1>1, <1>2, <1>3, <1>4, <1>6, <1>9, <1>10, TurnStep
<1>15. Marking' = {} /\ Handles' = Handles
  BY <1>3, <1>4, <1>10, NoMarking DEF Inv, Handles
<1>16. /\ Called' /\ OnChains' /\ Marks' /\ Doom'
       /\ OnGc' = OnGc
  <2>1. /\ Called' /\ Marks' /\ Doom'
        /\ Moved' = Moved /\ OnGc' = OnGc
    BY <1>3, <1>4, <1>6, <1>10, <1>14, <1>15, MarksStep DEF Inv, Called
  <2>2. QED
    BY <1>4, <2>1, QuietStep
<1>17. Dead'
  BY <1>4, <1>6, <1>7, <1>12 DEF Inv, Dead
<1>18. Dying'
  <2>1. \A x \in E : x \in live /\ ~ mark[x] /\ ref'[x] = 0 /\ x \notin InHook'
    <3>1. ASSUME NEW x \in E
          PROVE  x = p /\ x \in Objects /\ ref[x] = 1 /\ ~ mark[x]
      BY DEF Ending
    <3>2. ASSUME NEW x \in E
          PROVE  ref'[x] = 0
      BY <3>1, <1>11 DEF In
    <3>3. ASSUME NEW x \in E
          PROVE  x \notin InHook'
      BY <3>1, <1>8, <1>10 DEF InHook, HookedBy
    <3>4. QED
      BY <3>1, <3>2, <3>3, <1>7
  <2>2. \A x \in Released : x \in Objects /\ x # p
    BY <1>7, NoRefs DEF Inv
  <2>3. \A x \in Released : ref[x] = IF x \in InHook THEN 1 ELSE 0
    BY DEF Inv, Dying, Released, ReleasedBy
  <2>4. \A x \in Released : ref'[x] = IF x \in InHook' THEN 1 ELSE 0
    BY <1>10, <1>12, <2>2, <2>3
  <2>5. QED
    BY <1>1, <1>2, <1>4, <1>6, <1>9, <1>10, <2>1, <2>2, <2>4, DyingStep
<1>19. Counted'
  <2>1. ASSUME NEW x \in Objects
        PROVE  ref'[x] = Count(x)'
    <3> DEFINE a == Cardinality(Users(val, x))
    <3>1. Cardinality(Users(val', x)) = a + In(x, {None}) - In(x, {p})
      <4>1. Rewired(val, o, None, val')
        BY <1>1, <1>4, <1>5, CountPut
      <4>2. QED
        BY <4>1 DEF Rewired
    <3>2. In(x, {None}) = 0 /\ In(x, {p}) \in Nat /\ a \in Nat
      BY <1>5, InSets, UsersAre DEF In
    <3>3. ref[x] = Count(x)
      BY DEF Inv, Counted
    <3>4. Count(x)' = Cardinality(Users(val', x)) + Cardinality(Users(fixed, x))
            + In(x, Handles) + In(x, root) + In(x, {cur}) + In(x, InHook)
      BY <1>4, <1>10, <1>15 DEF Count
    <3>5. /\ Cardinality(Users(fixed, x)) \in Nat /\ In(x, Handles) \in Nat
          /\ In(x, root) \in Nat /\ In(x, {cur}) \in Nat /\ In(x, InHook) \in Nat
      BY InSets, UsersAre
    <3>6. QED
      BY <1>11, <3>1, <3>2, <3>3, <3>4, <3>5 DEF Count
  <2>2. QED
    BY <2>1 DEF Counted
<1>20. Older'
  BY <1>4 DEF Inv, Older
<1>21. Loops'
  <2>1. \A x \in OnGc : x \in Released \/ ref[x] > 0 => x \in Released' \/ ref'[x] > 0
    <3>1. ASSUME NEW x \in OnGc, ref[x] > 0, x \notin Released'
          PROVE  ref'[x] > 0
      <4>1. x \in Objects /\ ~ mark[x]
        BY <1>3, NoMarking DEF Inv, Typed, MarkedOnes
      <4>2. x = p => ref[x] # 1
        BY <1>10, <3>1, <4>1 DEF Ending
      <4>3. ref[x] \in Int
        BY <1>5, <4>1
      <4>4. QED
        BY <1>11, <3>1, <4>1, <4>2, <4>3 DEF In
    <3>2. QED
      BY <1>10, <3>1
  <2>2. QED
    BY <1>4, <1>6, <1>14, <1>15, <1>16, <2>1, LoopsStep DEF Inv, Loops
<1>22. QED
  BY <1>13, <1>16, <1>17, <1>18, <1>19, <1>20, <1>21 DEF Inv

LEMMA DropFixedStep ==
  ASSUME Inv, DropFixed
  PROVE  Inv'
<1> DEFINE o == Top.obj
           p == fixed[o]
           E == Ending(ref, p)
<1>1. /\ calls # <<>> /\ Top \in Pending /\ StepOf(Top) = "fixed" /\ Top \in CallRec
      /\ Top.at \in 1 .. Len(Steps(Top)) /\ o \in Objects
  BY TopFacts DEF Inv, DropFixed
<1>2. Top.do \in {"turn", "release"} /\ Top.at < Len(Steps(Top))
  BY <1>1, StepFacts
<1>3. ~ MarkPhase /\ \A f \in Pending : f.do # "mark"
  BY <1>1, <1>2 DEF Inv, Called
<1>4. /\ fixed' = [fixed EXCEPT ![o] = None] /\ ref' = Less(ref, p)
      /\ calls' = Advanced \o Release(ref, p)
      /\ UNCHANGED <<live, mark, links, val, hnd, root, pc, cur, doomed>>
  BY DEF DropFixed, loop
<1>5. /\ fixed \in Pointers /\ p \in ObjectOrNone /\ ref \in [Objects -> Int]
      /\ None \in ObjectOrNone /\ None \notin Objects
  BY <1>1, ObjectsAssumption DEF Inv, Typed, Pointers, ObjectOrNone
<1>6. /\ \A x \in Objects : fixed'[x] = IF x = o THEN None ELSE fixed[x]
      /\ fixed' \in Pointers
  BY <1>1, <1>4, <1>5 DEF Pointers
<1>7. p \in Objects => IsHeld(p) /\ p \in live /\ p \notin Released
  <2>1. p \in Objects => IsHeld(p)
    BY <1>1 DEF IsHeld
  <2>2. QED
    BY <2>1, HeldLive, NoRefs DEF Inv
<1>8. ref[p] = 1 => \A f \in Pending : f.obj # p
  <2>1. CASE p \in Objects
    BY <1>3, <1>7, <2>1, LastRef DEF Inv
  <2>2. CASE p = None
    BY <1>5, <2>2, CallsAre DEF Inv, Called, Pending, CallRec
  <2>3. QED
    BY <1>5, <2>1, <2>2 DEF ObjectOrNone
<1>9. Advances(E)
  BY <1>1, <1>2, <1>4, <1>5, <1>8, AdvanceStep DEF Inv
<1>10. /\ E \in SUBSET Objects
       /\ IsCalls(calls') /\ Released' = Released \union E
       /\ Marking' = Marking /\ InHook' = InHook /\ Unlinked' = Unlinked
  BY <1>1, <1>9 DEF Advances, Ending
<1>11. /\ ref' \in [Objects -> Int]
       /\ \A x \in Objects : ref'[x] = ref[x] - In(x, {p})
  <2> HIDE DEF o, p
  <2>1. /\ Less(ref, p) \in [Objects -> Int]
        /\ \A x \in Objects : Less(ref, p)[x] = ref[x] - In(x, {p})
    BY <1>5, MoreLess
  <2>2. QED
    BY <1>4, <2>1
<1>12. \A x \in Objects : x # p => ref'[x] = ref[x]
  BY <1>5, <1>11, InSets DEF In
<1>13. Typed'
  BY <1>4, <1>6, <1>11 DEF Inv, Typed
<1>14. /\ Turn'
       /\ \A f \in Pending' : f.do = "turn" => LoopPhase /\ f.obj = cur
       /\ \A f \in Pending' : f.do # "mark"
  BY <1>1, <1>2, <1>3, <1>4, <1>6, <1>9, <1>10, TurnStep
<1>15. Marking' = {} /\ Handles' = Handles
  BY <1>3, <1>4, <1>10, NoMarking DEF Inv, Handles
<1>16. /\ Called' /\ OnChains' /\ Marks' /\ Doom'
       /\ OnGc' = OnGc
  <2>1. /\ Called' /\ Marks' /\ Doom'
        /\ Moved' = Moved /\ OnGc' = OnGc
    BY <1>3, <1>4, <1>6, <1>10, <1>14, <1>15, MarksStep DEF Inv, Called
  <2>2. QED
    BY <1>4, <2>1, QuietStep
<1>17. Dead'
  BY <1>4, <1>6, <1>7, <1>12 DEF Inv, Dead
<1>18. Dying'
  <2>1. \A x \in E : x \in live /\ ~ mark[x] /\ ref'[x] = 0 /\ x \notin InHook'
    <3>1. ASSUME NEW x \in E
          PROVE  x = p /\ x \in Objects /\ ref[x] = 1 /\ ~ mark[x]
      BY DEF Ending
    <3>2. ASSUME NEW x \in E
          PROVE  ref'[x] = 0
      BY <3>1, <1>11 DEF In
    <3>3. ASSUME NEW x \in E
          PROVE  x \notin InHook'
      BY <3>1, <1>8, <1>10 DEF InHook, HookedBy
    <3>4. QED
      BY <3>1, <3>2, <3>3, <1>7
  <2>2. \A x \in Released : x \in Objects /\ x # p
    BY <1>7, NoRefs DEF Inv
  <2>3. \A x \in Released : ref[x] = IF x \in InHook THEN 1 ELSE 0
    BY DEF Inv, Dying, Released, ReleasedBy
  <2>4. \A x \in Released : ref'[x] = IF x \in InHook' THEN 1 ELSE 0
    BY <1>10, <1>12, <2>2, <2>3
  <2>5. QED
    BY <1>1, <1>2, <1>4, <1>6, <1>9, <1>10, <2>1, <2>2, <2>4, DyingStep
<1>19. Counted'
  <2>1. ASSUME NEW x \in Objects
        PROVE  ref'[x] = Count(x)'
    <3> DEFINE a == Cardinality(Users(fixed, x))
    <3>1. Cardinality(Users(fixed', x)) = a + In(x, {None}) - In(x, {p})
      <4>1. Rewired(fixed, o, None, fixed')
        BY <1>1, <1>4, <1>5, CountPut
      <4>2. QED
        BY <4>1 DEF Rewired
    <3>2. In(x, {None}) = 0 /\ In(x, {p}) \in Nat /\ a \in Nat
      BY <1>5, InSets, UsersAre DEF In
    <3>3. ref[x] = Count(x)
      BY DEF Inv, Counted
    <3>4. Count(x)' = Cardinality(Users(val, x)) + Cardinality(Users(fixed', x))
            + In(x, Handles) + In(x, root) + In(x, {cur}) + In(x, InHook)
      BY <1>4, <1>10, <1>15 DEF Count
    <3>5. /\ Cardinality(Users(val, x)) \in Nat /\ In(x, Handles) \in Nat
          /\ In(x, root) \in Nat /\ In(x, {cur}) \in Nat /\ In(x, InHook) \in Nat
      BY InSets, UsersAre
    <3> DEFINE b == Cardinality(Users(val, x))
               h == In(x, Handles)
               r == In(x, root)
               c == In(x, {cur})
               k == In(x, InHook)
               m == In(x, {p})
    <3>6. ref[x] = b + a + h + r + c + k /\ ref'[x] = ref[x] - m
      BY <1>11, <3>3 DEF Count
    <3>7. Count(x)' = b + (a - m) + h + r + c + k
      BY <3>1, <3>2, <3>4
    <3>8. /\ a \in Nat /\ b \in Nat /\ h \in Nat /\ r \in Nat /\ c \in Nat
          /\ k \in Nat /\ m \in Nat
      BY <3>2, <3>5
    <3> HIDE DEF a, b, h, r, c, k, m
    <3>9. QED
      BY <3>6, <3>7, <3>8
  <2>2. QED
    BY <2>1 DEF Counted
<1>20. Older'
  <2>1. ASSUME NEW S \in SUBSET Objects, S # {}
        PROVE  \E x \in S : \A y \in S : fixed'[y] # x
    <3>1. PICK x \in S : \A y \in S : fixed[y] # x
      BY <2>1 DEF Inv, Older
    <3>2. QED
      BY <1>5, <1>6, <3>1
  <2>2. QED
    BY <2>1 DEF Older
<1>21. Loops'
  <2>1. \A x \in OnGc : x \in Released \/ ref[x] > 0 => x \in Released' \/ ref'[x] > 0
    <3>1. ASSUME NEW x \in OnGc, ref[x] > 0, x \notin Released'
          PROVE  ref'[x] > 0
      <4>1. x \in Objects /\ ~ mark[x]
        BY <1>3, NoMarking DEF Inv, Typed, MarkedOnes
      <4>2. x = p => ref[x] # 1
        BY <1>10, <3>1, <4>1 DEF Ending
      <4>3. ref[x] \in Int
        BY <1>5, <4>1
      <4>4. QED
        BY <1>11, <3>1, <4>1, <4>2, <4>3 DEF In
    <3>2. QED
      BY <1>10, <3>1
  <2>2. QED
    BY <1>4, <1>6, <1>14, <1>15, <1>16, <2>1, LoopsStep DEF Inv, Loops
<1>22. QED
  BY <1>13, <1>16, <1>17, <1>18, <1>19, <1>20, <1>21 DEF Inv

LEMMA CountedStep ==
  ASSUME Inv, NEW x \in Objects,
         ref'[x] - ref[x] =
             (Cardinality(Users(val', x)) - Cardinality(Users(val, x)))
           + (Cardinality(Users(fixed', x)) - Cardinality(Users(fixed, x)))
           + (In(x, Handles') - In(x, Handles)) + (In(x, root') - In(x, root))
           + (In(x, {cur'}) - In(x, {cur})) + (In(x, InHook') - In(x, InHook)),
         ref'[x] \in Int
  PROVE  ref'[x] = Count(x)'
<1> DEFINE a == Cardinality(Users(val, x))
           b == Cardinality(Users(fixed, x))
           h == In(x, Handles)
           r == In(x, root)
           c == In(x, {cur})
           k == In(x, InHook)
           aa == Cardinality(Users(val', x))
           bb == Cardinality(Users(fixed', x))
           hh == In(x, Handles')
           rr == In(x, root')
           cc == In(x, {cur'})
           kk == In(x, InHook')
<1>1. ref[x] = a + b + h + r + c + k
  BY DEF Inv, Counted, Count
<1>2. Count(x)' = aa + bb + hh + rr + cc + kk
  BY DEF Count
<1>3. /\ a \in Nat /\ b \in Nat /\ h \in Nat /\ r \in Nat /\ c \in Nat /\ k \in Nat
      /\ aa \in Nat /\ bb \in Nat /\ hh \in Nat /\ rr \in Nat /\ cc \in Nat /\ kk \in Nat
  BY UsersAre, InSets
<1>4. ref'[x] - ref[x] = (aa - a) + (bb - b) + (hh - h) + (rr - r) + (cc - c) + (kk - k)
  OBVIOUS
<1> HIDE DEF a, b, h, r, c, k, aa, bb, hh, rr, cc, kk
<1>5. QED
  BY <1>1, <1>2, <1>3, <1>4

LEMMA RunHookStep ==
  ASSUME Inv, RunHook
  PROVE  Inv'
<1> DEFINE o == Top.obj
           p == hnd[o]
           last == \A x \in Objects \ {o} : hnd[x] # p
           held == [ref EXCEPT ![o] = @ + 1]
           q == IF last THEN p ELSE None
           E == Ending(held, q)
<1>1. /\ calls # <<>> /\ Top \in Pending /\ StepOf(Top) = "hook" /\ Top \in CallRec
      /\ Top.at \in 1 .. Len(Steps(Top)) /\ o \in Objects
  BY TopFacts DEF Inv, RunHook
<1>2. Top.do = "release" /\ Top.at < Len(Steps(Top))
  BY <1>1, StepFacts
<1>3. ~ MarkPhase /\ \A f \in Pending : f.do # "mark"
  BY <1>1, <1>2 DEF Inv, Called
<1>4. o \in Released /\ o \in live /\ ~ IsHeld(o) /\ o # cur
  BY <1>1, <1>2, NoRefs DEF Inv, Released, ReleasedBy, Dying
<1>5. /\ hnd \in Pointers /\ p \in ObjectOrNone /\ ref \in [Objects -> Int]
      /\ None \in ObjectOrNone /\ None \notin Objects
  BY <1>1, ObjectsAssumption DEF Inv, Typed, Pointers, ObjectOrNone
<1>6. /\ hnd' = [hnd EXCEPT ![o] = None] /\ ref' = Less(held, q)
      /\ calls' = Advanced \o Release(held, q)
      /\ UNCHANGED <<live, mark, links, fixed, val, root, pc, cur, doomed>>
  <2>1. /\ hnd' = [hnd EXCEPT ![o] = None]
        /\ ref' = IF last THEN Less(held, p) ELSE held
        /\ calls' = Advanced \o IF last THEN Release(held, p) ELSE <<>>
        /\ UNCHANGED <<live, mark, links, fixed, val, root, pc, cur, doomed>>
    BY DEF RunHook, loop
  <2>2. Less(held, None) = held /\ Release(held, None) = <<>>
    BY DEF Less, Release
  <2>3. QED
    BY <2>1, <2>2
<1>7. /\ \A x \in Objects : hnd'[x] = IF x = o THEN None ELSE hnd[x]
      /\ hnd' \in Pointers
  BY <1>1, <1>5, <1>6 DEF Pointers
<1>8. /\ held \in [Objects -> Int]
      /\ \A x \in Objects : held[x] = ref[x] + In(x, {o})
  BY <1>1, <1>5 DEF In
<1>9. /\ \A x \in Objects : x \in Handles' <=> x \in Handles /\ x # q
      /\ q \in Objects => q \in Handles
      /\ q \in ObjectOrNone
      /\ Handles \subseteq Objects /\ Handles' \subseteq Objects
  <2>1. /\ Handles \subseteq Objects
        /\ \A x \in Objects : x \in Handles <=> \E y \in Objects : hnd[y] = x
    BY <1>5, HandlesAre
  <2>2. /\ Handles' \subseteq Objects
        /\ \A x \in Objects : x \in Handles' <=> \E y \in Objects : hnd'[y] = x
    BY <1>5, <1>7 DEF Handles, Pointers, ObjectOrNone
  <2>3. q \in ObjectOrNone /\ (q \in Objects => q \in Handles)
    BY <1>1, <1>5, <2>1
  <2>4. ASSUME NEW x \in Objects
        PROVE  x \in Handles' <=> x \in Handles /\ x # q
    <3>1. x \in Handles' <=> \E y \in Objects \ {o} : hnd[y] = x
      BY <1>1, <1>5, <1>7, <2>2
    <3>2. x # p => (x \in Handles <=> \E y \in Objects \ {o} : hnd[y] = x)
      BY <1>1, <2>1
    <3>3. CASE x = p
      <4>1. last <=> ~ \E y \in Objects \ {o} : hnd[y] = x
        BY <3>3
      <4>2. QED
        BY <1>1, <1>5, <2>1, <3>1, <3>3, <4>1
    <3>4. CASE x # p
      BY <1>5, <3>1, <3>2, <3>4
    <3>5. QED
      BY <3>3, <3>4
  <2>5. QED
    BY <2>1, <2>2, <2>3, <2>4
<1> HIDE DEF q, last, held
<1>10. q \in Objects => IsHeld(q) /\ q \in live /\ q \notin Released /\ q # o
  <2>1. q \in Objects => IsHeld(q)
    BY <1>9 DEF IsHeld
  <2>2. QED
    BY <1>4, <2>1, HeldLive, NoRefs DEF Inv
<1>11. held[q] = 1 => \A f \in Pending : f.obj # q
  <2>1. CASE q \in Objects
    <3>1. held[q] = ref[q]
      BY <1>5, <1>8, <1>10, <2>1 DEF In
    <3>2. QED
      BY <1>3, <1>10, <2>1, <3>1, LastRef DEF Inv
  <2>2. CASE q = None
    BY <1>5, <2>2, CallsAre DEF Inv, Called, Pending, CallRec
  <2>3. QED
    BY <1>9, <2>1, <2>2 DEF ObjectOrNone
<1>12. Advances(E)
  BY <1>1, <1>2, <1>6, <1>9, <1>11, AdvanceStep DEF Inv
<1>13. /\ E \in SUBSET Objects
       /\ IsCalls(calls') /\ Released' = Released \union E
       /\ Marking' = Marking /\ InHook' = InHook \union {o} /\ Unlinked' = Unlinked
       /\ o \notin InHook
  BY <1>1, <1>12 DEF Advances, Ending
<1>14. /\ ref' \in [Objects -> Int]
       /\ \A x \in Objects : ref'[x] = ref[x] + In(x, {o}) - In(x, {q})
  <2>1. /\ Less(held, q) \in [Objects -> Int]
        /\ \A x \in Objects : Less(held, q)[x] = held[x] - In(x, {q})
    BY <1>8, <1>9, MoreLess
  <2>2. ref' = Less(held, q)
    BY <1>6
  <2>3. ASSUME NEW x \in Objects
        PROVE  ref'[x] = ref[x] + In(x, {o}) - In(x, {q})
    <3>1. ref'[x] = held[x] - In(x, {q})
      BY <2>1, <2>2
    <3>2. held[x] = ref[x] + In(x, {o})
      BY <1>8
    <3>3. ref[x] \in Int /\ In(x, {o}) \in Nat /\ In(x, {q}) \in Nat
      BY <1>5, InSets
    <3>4. QED
      BY <3>1, <3>2, <3>3
  <2>4. QED
    BY <2>1, <2>2, <2>3
<1>15. Typed'
  BY <1>6, <1>7, <1>14 DEF Inv, Typed
<1>16. /\ Turn'
       /\ \A f \in Pending' : f.do = "turn" => LoopPhase /\ f.obj = cur
       /\ \A f \in Pending' : f.do # "mark"
  BY <1>1, <1>2, <1>3, <1>6, <1>12, <1>13, TurnStep
<1>17. Marking' = {} /\ Handles' \subseteq Handles
  BY <1>3, <1>9, <1>13, NoMarking DEF Inv
<1>18. /\ Called' /\ OnChains' /\ Marks' /\ Doom'
       /\ OnGc' = OnGc
  <2>1. /\ Called' /\ Marks' /\ Doom'
        /\ Moved' = Moved /\ OnGc' = OnGc
    BY <1>3, <1>6, <1>13, <1>16, <1>17, MarksStep DEF Inv, Called
  <2>2. QED
    BY <1>6, <2>1, QuietStep
<1>19. Dead'
  <2>1. \A x \in Objects : x # o /\ x # q => ref'[x] = ref[x]
    BY <1>5, <1>14 DEF In
  <2>2. QED
    BY <1>4, <1>6, <1>7, <1>10, <2>1 DEF Inv, Dead
<1>20. Dying'
  <2>1. \A x \in E : x \in live /\ ~ mark[x] /\ ref'[x] = 0 /\ x \notin InHook'
    <3>1. ASSUME NEW x \in E
          PROVE  x = q /\ x \in Objects /\ held[x] = 1 /\ ~ mark[x] /\ x # o
      BY <1>10 DEF Ending
    <3>2. ASSUME NEW x \in E
          PROVE  ref'[x] = 0
      BY <3>1, <1>5, <1>8, <1>14 DEF In
    <3>3. ASSUME NEW x \in E
          PROVE  x \notin InHook'
      BY <3>1, <1>11, <1>13 DEF InHook, HookedBy
    <3>4. QED
      BY <3>1, <3>2, <3>3, <1>10
  <2>2. \A x \in Released : x \in Objects /\ x # q
    BY <1>10, NoRefs DEF Inv
  <2>3. \A x \in Released : ref[x] = IF x \in InHook THEN 1 ELSE 0
    BY DEF Inv, Dying, Released, ReleasedBy
  <2>4. \A x \in Released : ref'[x] = IF x \in InHook' THEN 1 ELSE 0
    <3>1. ASSUME NEW x \in Released
          PROVE  ref'[x] = IF x \in InHook' THEN 1 ELSE 0
      <4>1. ref'[x] = ref[x] + In(x, {o}) /\ x \in Objects
        BY <1>5, <1>14, <2>2 DEF In
      <4>2. QED
        BY <1>13, <2>3, <4>1 DEF In
    <3>2. QED
      BY <3>1
  <2>5. QED
    BY <1>1, <1>2, <1>6, <1>7, <1>12, <1>13, <2>1, <2>2, <2>4, DyingStep
<1>21. Counted'
  <2>1. ASSUME NEW x \in Objects
        PROVE  ref'[x] = Count(x)'
    <3>1. In(x, Handles') - In(x, Handles) = 0 - In(x, {q})
      BY <1>9 DEF In
    <3>2. In(x, InHook') - In(x, InHook) = In(x, {o})
      BY <1>13 DEF In
    <3>3. ref'[x] - ref[x] = In(x, {o}) - In(x, {q}) /\ ref'[x] \in Int
      BY <1>5, <1>14 DEF In
    <3>4. /\ Cardinality(Users(val', x)) - Cardinality(Users(val, x)) = 0
          /\ Cardinality(Users(fixed', x)) - Cardinality(Users(fixed, x)) = 0
          /\ In(x, root') - In(x, root) = 0
          /\ In(x, {cur'}) - In(x, {cur}) = 0
      BY <1>6, UsersAre, InSets
    <3>5. In(x, {o}) \in Nat /\ In(x, {q}) \in Nat
      BY InSets
    <3> DEFINE u == In(x, {o})
               w == In(x, {q})
    <3>6. u \in Nat /\ w \in Nat /\ ref'[x] - ref[x] = u - w
      BY <3>3, <3>5
    <3> HIDE DEF u, w
    <3>7. 0 + 0 + (0 - w) + 0 + 0 + u = u - w
      BY <3>6
    <3>8. QED
      BY <3>1, <3>2, <3>3, <3>4, <3>6, <3>7, CountedStep DEF u, w
  <2>2. QED
    BY <2>1 DEF Counted
<1>22. Older'
  BY <1>6 DEF Inv, Older
<1>23. Loops'
  <2>1. \A x \in OnGc : x \in Released \/ ref[x] > 0 => x \in Released' \/ ref'[x] > 0
    <3>1. ASSUME NEW x \in OnGc, ref[x] > 0, x \notin Released'
          PROVE  ref'[x] > 0
      <4>1. x \in Objects /\ ~ mark[x] /\ x # o
        BY <1>3, <1>4, <1>13, <3>1, NoMarking DEF Inv, Typed, MarkedOnes
      <4>2. held[x] = ref[x] /\ ref[x] \in Int
        BY <1>5, <1>8, <4>1 DEF In
      <4>3. x = q => ref[x] # 1
        BY <1>13, <3>1, <4>1, <4>2 DEF Ending
      <4>4. QED
        BY <1>14, <3>1, <4>1, <4>2, <4>3 DEF In
    <3>2. QED
      BY <1>13, <3>1
  <2>2. pc = "closed" => root' = {} /\ Handles' = {}
    BY <1>6, <1>17 DEF Inv, Loops
  <2>3. QED
    BY <1>6, <1>16, <1>17, <1>18, <2>1, <2>2, LoopsStep
<1>24. QED
  BY <1>15, <1>18, <1>19, <1>20, <1>21, <1>22, <1>23 DEF Inv

LEMMA EndHookStep ==
  ASSUME Inv, EndHook
  PROVE  Inv'
<1> DEFINE o == Top.obj
<1>1. /\ calls # <<>> /\ Top \in Pending /\ StepOf(Top) = "unhook" /\ Top \in CallRec
      /\ Top.at \in 1 .. Len(Steps(Top)) /\ o \in Objects
  BY TopFacts DEF Inv, EndHook
<1>2. Top.do = "release" /\ Top.at < Len(Steps(Top))
  BY <1>1, StepFacts
<1>3. ~ MarkPhase /\ \A f \in Pending : f.do # "mark"
  BY <1>1, <1>2 DEF Inv, Called
<1>4. o \in Released /\ o \in live
  BY <1>1, <1>2 DEF Inv, Released, ReleasedBy, Dying
<1>5. /\ ref' = [ref EXCEPT ![o] = @ - 1] /\ calls' = Advanced
      /\ UNCHANGED <<live, mark, links, val, fixed, hnd, root, pc, cur, doomed>>
  BY DEF EndHook, loop, fields
<1>6. Advances({})
  BY <1>1, <1>2, <1>5, AdvanceOnly DEF Inv
<1>7. /\ IsCalls(calls') /\ Released' = Released /\ Marking' = Marking
      /\ InHook' = InHook \ {o} /\ o \in InHook /\ Unlinked' = Unlinked
  BY <1>1, <1>6 DEF Advances
<1>8. /\ ref \in [Objects -> Int] /\ ref' \in [Objects -> Int]
      /\ \A x \in Objects : ref'[x] = ref[x] - In(x, {o})
  BY <1>1, <1>5 DEF Inv, Typed, In
<1>9. Typed'
  BY <1>5, <1>8 DEF Inv, Typed
<1>10. /\ Turn'
       /\ \A f \in Pending' : f.do = "turn" => LoopPhase /\ f.obj = cur
       /\ \A f \in Pending' : f.do # "mark"
  BY <1>1, <1>2, <1>3, <1>5, <1>6, TurnStep
<1>11. Marking' = {} /\ Handles' = Handles
  BY <1>3, <1>5, <1>7, NoMarking DEF Inv, Handles
<1>12. /\ Called' /\ Marks' /\ Doom' /\ Moved' = Moved /\ OnGc' = OnGc
  BY <1>3, <1>5, <1>7, <1>10, <1>11, MarksStep DEF Inv, Called
<1>13. OnChains'
  BY <1>5, <1>12, QuietStep
<1>14. Dead'
  BY <1>4, <1>5, <1>8 DEF Inv, Dead, In
<1>15. Dying'
  <2>1. \A x \in Released : x \in Objects /\ ref[x] = IF x \in InHook THEN 1 ELSE 0
    BY NoRefs DEF Inv, Dying, Released, ReleasedBy
  <2>2. \A x \in Released : ref'[x] = IF x \in InHook' THEN 1 ELSE 0
    BY <1>7, <1>8, <2>1 DEF In
  <2>3. QED
    BY <1>1, <1>2, <1>5, <1>6, <2>2, DyingStep
<1>16. Counted'
  <2>1. ASSUME NEW x \in Objects
        PROVE  ref'[x] = Count(x)'
    <3>1. In(x, InHook') - In(x, InHook) = 0 - In(x, {o})
      BY <1>7 DEF In
    <3>2. ref'[x] - ref[x] = 0 - In(x, {o}) /\ ref'[x] \in Int
      BY <1>8 DEF In
    <3>3. /\ Cardinality(Users(val', x)) - Cardinality(Users(val, x)) = 0
          /\ Cardinality(Users(fixed', x)) - Cardinality(Users(fixed, x)) = 0
          /\ In(x, root') - In(x, root) = 0 /\ In(x, Handles') - In(x, Handles) = 0
          /\ In(x, {cur'}) - In(x, {cur}) = 0
      BY <1>5, <1>11, UsersAre, InSets
    <3> DEFINE u == In(x, {o})
    <3>4. u \in Nat
      BY InSets
    <3> HIDE DEF u
    <3>5. 0 + 0 + 0 + 0 + 0 + (0 - u) = 0 - u
      BY <3>4
    <3>6. QED
      BY <3>1, <3>2, <3>3, <3>5, CountedStep DEF u
  <2>2. QED
    BY <2>1 DEF Counted
<1>17. Older'
  BY <1>5 DEF Inv, Older
<1>18. Loops'
  <2>1. \A x \in OnGc : x \in Released \/ ref[x] > 0 => x \in Released' \/ ref'[x] > 0
    <3>1. ASSUME NEW x \in OnGc, ref[x] > 0, x \notin Released
          PROVE  ref'[x] > 0
      <4>1. x \in Objects /\ x # o
        BY <1>4, <3>1 DEF Inv, Typed, OnGc
      <4>2. QED
        BY <1>5, <3>1, <4>1
    <3>2. QED
      BY <1>7, <3>1
  <2>2. QED
    BY <1>5, <1>10, <1>11, <1>12, <2>1, LoopsStep DEF Inv, Loops
<1>19. QED
  BY <1>9, <1>12, <1>13, <1>14, <1>15, <1>16, <1>17, <1>18 DEF Inv

LEMMA UnlinkStep ==
  ASSUME Inv, Unlink
  PROVE  Inv'
<1> DEFINE o == Top.obj
<1>1. /\ calls # <<>> /\ Top \in Pending /\ StepOf(Top) = "unlink" /\ Top \in CallRec
      /\ Top.at \in 1 .. Len(Steps(Top)) /\ o \in Objects
  BY TopFacts DEF Inv, Unlink
<1>2. Top.do = "release" /\ Top.at < Len(Steps(Top)) /\ "unlink" \notin Done(Top)
  BY <1>1, StepFacts
<1>3. ~ MarkPhase /\ \A f \in Pending : f.do # "mark"
  BY <1>1, <1>2 DEF Inv, Called
<1>4. o \in Released /\ o \in live /\ ~ mark[o] /\ o # cur
  BY <1>1, <1>2, NoRefs DEF Inv, Released, ReleasedBy, Dying
<1>5. o \notin Unlinked
  <2>1. ASSUME NEW f \in Pending, "unlink" \in Done(f), f.obj = o
        PROVE  FALSE
    BY <1>1, <1>2, <2>1, CallsApart DEF Inv, Called, Pending
  <2>2. QED
    BY <2>1 DEF Unlinked, UnlinkedBy
<1>6. /\ links' = RemoveFromChain(links, o) /\ calls' = Advanced
      /\ UNCHANGED <<live, ref, mark, val, fixed, hnd, root, pc, cur, doomed>>
  BY DEF Unlink, loop, fields, counts
<1>7. Advances({})
  BY <1>1, <1>2, <1>6, AdvanceOnly DEF Inv
<1>8. /\ IsCalls(calls') /\ Released' = Released /\ Marking' = Marking
      /\ InHook' = InHook /\ Unlinked' = Unlinked \union {o}
  BY <1>1, <1>7 DEF Advances
<1>9. /\ Turn'
      /\ \A f \in Pending' : f.do = "turn" => LoopPhase /\ f.obj = cur
      /\ \A f \in Pending' : f.do # "mark"
  BY <1>1, <1>2, <1>3, <1>6, <1>7, TurnStep
<1>10. Marking' = {} /\ Handles' = Handles
  BY <1>3, <1>6, <1>8, NoMarking DEF Inv, Handles
<1>11. /\ Called' /\ Marks' /\ Doom' /\ Moved' = Moved /\ Moved = MarkedOnes
       /\ OnGc = live \ (MarkedOnes \union Unlinked)
       /\ OnGc' = live' \ (MarkedOnes \union Unlinked')
  BY <1>3, <1>6, <1>8, <1>9, <1>10, MarksStep DEF Inv, Called
<1>12. OnGc' = OnGc \ {o} /\ o \in OnGc
  BY <1>4, <1>5, <1>6, <1>8, <1>11 DEF MarkedOnes
<1>13. /\ links' \in Chains /\ Chained(links', OnGc \ {o}, links'.head)
       /\ links'.thead = links.thead
       /\ links'.head = IF links.prev[o] = None THEN links.next[o] ELSE links.head
       /\ \A x \in OnGc \ {o} :
            links'.next[x] = IF links.next[x] = o THEN links.next[o] ELSE links.next[x]
       /\ \A x \in Objects \ OnGc :
            links'.next[x] = links.next[x] /\ links'.prev[x] = links.prev[x]
  <2>1. links \in Chains /\ Chained(links, OnGc, links.head) /\ OnGc \subseteq Objects
    BY DEF Inv, Typed, OnChains, OnGc
  <2>2. Removed(links, OnGc, o, links')
    BY <1>6, <1>12, <2>1, ChainRemove
  <2>3. QED
    BY <2>2 DEF Removed
<1>14. OnChains'
  <2>1. Chained(links', Moved, links'.thead)
    <3>1. Chained(links, Moved, links.thead) /\ Moved \subseteq Objects \ OnGc
      BY <1>11 DEF Inv, OnChains, MarkedOnes
    <3>2. Chained(links', Moved, links.thead)
      BY <1>13, <3>1, ChainSame
    <3>3. QED
      BY <1>13, <3>2
  <2>2. QED
    BY <1>11, <1>12, <1>13, <2>1 DEF OnChains
<1>15. Typed' /\ Dead' /\ Older'
  BY <1>6, <1>13 DEF Inv, Typed, Dead, Older
<1>16. Dying'
  <2>1. \A x \in Released : ref[x] = IF x \in InHook THEN 1 ELSE 0
    BY DEF Inv, Dying, Released, ReleasedBy
  <2>2. QED
    BY <1>1, <1>2, <1>6, <1>7, <1>8, <2>1, DyingStep
<1>17. Counted'
  BY <1>6, <1>8, <1>10 DEF Inv, Counted, Count
<1>18. Loops'
  <2>1. CASE LoopPhase
    <3>1. PICK P \in SUBSET Objects : Passed(P)
      BY <2>1 DEF Inv, Loops
    <3>0. PICK Q \in SUBSET Objects : Q = P \ {o}
      OBVIOUS
    <3>2. /\ Chained(links, OnGc, links.head)
          /\ links.next[o] # o
      <4>1. Chained(links, OnGc, links.head)
        BY DEF Inv, OnChains
      <4>2. {o} \in SUBSET OnGc /\ Trapless(links.next, OnGc)
        BY <1>12, <4>1 DEF Chained
      <4>3. \E x \in {o} : links.next[x] \notin {o}
        BY <4>2 DEF Trapless
      <4>4. QED
        BY <4>1, <4>3
    <3>3. \A x \in P \union {cur} : x = o => x \in P
      BY <1>4
    <3>4. o \in P => links.next[o] \in Q \union {cur}
      BY <3>0, <3>1, <3>2 DEF Passed
    <3>5. links'.head \in Q \union {cur'}
      <4>1. CASE links.prev[o] = None
        <5>1. o = links.head
          BY <1>12, <3>2, <4>1 DEF Chained
        <5>2. QED
          BY <1>6, <1>13, <3>0, <3>1, <3>3, <3>4, <4>1, <5>1 DEF Passed
      <4>2. CASE links.prev[o] # None
        <5>1. o # links.head
          BY <1>12, <3>2, <4>2 DEF Chained
        <5>2. QED
          BY <1>6, <1>13, <3>0, <3>1, <4>2, <5>1 DEF Passed
      <4>3. QED
        BY <4>1, <4>2
    <3>6. ASSUME NEW x \in Q
          PROVE  links'.next[x] \in Q \union {cur'}
      <4>1. x \in OnGc \ {o} /\ links.next[x] \in P \union {cur}
        BY <3>0, <3>1 DEF Passed
      <4>2. QED
        BY <1>6, <1>13, <3>0, <3>3, <3>4, <4>1
    <3>7. Q \subseteq OnGc' \ {cur'}
      BY <1>6, <1>12, <3>0, <3>1 DEF Passed
    <3>8. \A x \in Q : /\ val'[x] = None
                       /\ Kind[x] # "closure" => fixed'[x] = None
                       /\ x \in Released' \/ ref'[x] > 0
      BY <1>6, <1>8, <3>0, <3>1 DEF Passed
    <3>9. Passed(Q)'
      BY <3>5, <3>6, <3>7, <3>8 DEF Passed
    <3>10. cur' \in OnGc' \union {None}
      BY <1>4, <1>6, <1>12, <2>1 DEF Inv, Loops
    <3>11. pc' \in {"close", "closed"} => root' = {} /\ Handles' = {}
      BY <1>6, <1>10 DEF Inv, Loops
    <3>12. QED
      BY <1>9, <3>9, <3>10, <3>11 DEF Loops
  <2>2. CASE ~ LoopPhase
    BY <1>6, <1>9, <1>10, <2>2 DEF Inv, Loops, LoopPhase
  <2>3. QED
    BY <2>1, <2>2
<1>19. QED
  BY <1>11, <1>14, <1>15, <1>16, <1>17, <1>18 DEF Inv

LEMMA FreeStep ==
  ASSUME Inv, Free
  PROVE  Inv'
<1> DEFINE o == Top.obj
<1>1. /\ calls # <<>> /\ Top \in Pending /\ StepOf(Top) = "free" /\ Top \in CallRec
      /\ Top.at \in 1 .. Len(Steps(Top)) /\ o \in Objects
  BY TopFacts DEF Inv, Free
<1>2. /\ Top.do = "release" /\ {"val", "fixed", "unlink"} \subseteq Done(Top)
      /\ Kind[o] = "instance" => "hook" \in Done(Top)
  BY <1>1, StepFacts
<1>3. ~ MarkPhase /\ \A f \in Pending : f.do # "mark"
  BY <1>1, <1>2 DEF Inv, Called
<1>4. o \in Released /\ o \in Unlinked /\ o # cur
  BY <1>1, <1>2, NoRefs DEF Inv, Released, ReleasedBy, Unlinked, UnlinkedBy
<1>5. o \notin InHook
  <2>1. ASSUME NEW f \in Pending, StepOf(f) = "unhook", f.obj = o
        PROVE  FALSE
    BY <1>1, <2>1, CallsApart DEF Inv, Called, Pending
  <2>2. QED
    BY <2>1 DEF InHook, HookedBy
<1>6. /\ o \in live /\ ~ mark[o] /\ ref[o] = 0
      /\ val[o] = None /\ fixed[o] = None /\ hnd[o] = None
  BY <1>1, <1>2, <1>5 DEF Inv, Dying, Dead
<1>7. /\ live' = live \ {o} /\ calls' = Returned
      /\ UNCHANGED <<links, ref, mark, val, fixed, hnd, root, pc, cur, doomed>>
  BY DEF Free, loop, fields
<1>8. /\ IsCalls(calls') /\ Pending' = Pending \ {Top}
      /\ Released' = Released \ {o} /\ Marking' = Marking \ {o}
      /\ InHook' = InHook /\ Unlinked' = Unlinked \ {o}
  BY <1>1, <1>5, <1>7, ReturnStep DEF Inv
<1>9. Turn' /\ Dying'
  <2>1. \A f \in Pending' : f \in Pending /\ f.obj # o
    BY <1>1, <1>8, OtherCalls DEF Inv, Called, Pending
  <2>2. QED
    BY <1>7, <1>8, <2>1 DEF Inv, Loops, Turn, Dying
<1>10. Marking' = {} /\ Handles' = Handles
  BY <1>3, <1>7, <1>8, NoMarking DEF Inv, Handles
<1>11. /\ Called' /\ Marks' /\ Doom' /\ Moved' = Moved /\ OnGc' = OnGc /\ o \notin OnGc
  <2>1. /\ LoopPhase \/ cur' = None
        /\ \A f \in Pending' : f.do = "turn" => LoopPhase /\ f.obj = cur'
        /\ \A f \in Pending' : f.do # "mark"
    BY <1>3, <1>7, <1>8 DEF Inv, Called
  <2>2. /\ Called' /\ Marks' /\ Doom' /\ Moved' = Moved
        /\ OnGc = live \ (MarkedOnes \union Unlinked)
        /\ OnGc' = live' \ (MarkedOnes \union Unlinked')
    BY <1>3, <1>7, <1>8, <1>10, <2>1, MarksStep
  <2>3. QED
    BY <1>4, <1>7, <1>8, <2>2
<1>12. OnChains'
  BY <1>7, <1>11, QuietStep
<1>13. Typed' /\ Older'
  BY <1>7 DEF Inv, Typed, Older
<1>14. Dead'
  BY <1>6, <1>7 DEF Inv, Dead
<1>15. Counted'
  BY <1>7, <1>8, <1>10 DEF Inv, Counted, Count
<1>16. Loops'
  <2>1. \A x \in OnGc : x \in Released \/ ref[x] > 0 => x \in Released' \/ ref'[x] > 0
    BY <1>7, <1>8, <1>11
  <2>2. QED
    BY <1>7, <1>9, <1>10, <1>11, <2>1, LoopsStep DEF Inv, Loops
<1>17. QED
  BY <1>9, <1>11, <1>12, <1>13, <1>14, <1>15, <1>16 DEF Inv

\* The turn of the loop.
LEMMA EndTurnStep ==
  ASSUME Inv, EndTurn
  PROVE  Inv'
<1> DEFINE o == Top.obj
           n == links.next[o]
           E == Ending(ref, o)
<1>1. /\ calls # <<>> /\ Top \in Pending /\ StepOf(Top) = "turn" /\ Top \in CallRec
      /\ Top.at \in 1 .. Len(Steps(Top)) /\ o \in Objects
  BY TopFacts DEF Inv, EndTurn
<1>2. /\ Top.do = "turn" /\ "val" \in Done(Top)
      /\ Kind[o] # "closure" => "fixed" \in Done(Top)
  BY <1>1, StepFacts
<1>3. /\ LoopPhase /\ o = cur /\ val[o] = None
      /\ Kind[o] # "closure" => fixed[o] = None
  BY <1>1, <1>2 DEF Inv, Called, Loops, Turn
<1>4. ~ MarkPhase
  BY <1>3 DEF LoopPhase, MarkPhase
<1>5. Returned = <<>> /\ Pending = {Top}
  BY <1>1, <1>2, ReturnStep DEF Inv
<1>6. /\ Released = {} /\ Marking = {} /\ InHook = {} /\ Unlinked = {}
  BY <1>1, <1>2, <1>5 DEF Released, Marking, InHook, Unlinked, ReleasedBy, MarkedBy,
     HookedBy, UnlinkedBy
<1>7. /\ ref' = Less(More(ref, n), o) /\ calls' = Release(ref, o) /\ cur' = n
      /\ UNCHANGED <<live, mark, links, val, fixed, hnd, root, pc, doomed>>
  BY <1>5 DEF EndTurn, fields, Release
<1>8. o \in OnGc /\ o \in live /\ Chained(links, OnGc, links.head) /\ ~ mark[o]
      /\ OnGc \subseteq Objects /\ None \notin Objects
  BY <1>1, <1>3, <1>4, NoMarking, ObjectsAssumption
     DEF Inv, Loops, OnChains, OnGc, Typed, ObjectOrNone, MarkedOnes
<1>9. n \in OnGc \union {None} /\ n # o
  <2>1. {o} \in SUBSET OnGc /\ Trapless(links.next, OnGc)
    BY <1>8 DEF Chained
  <2>2. \E x \in {o} : links.next[x] \notin {o}
    BY <2>1 DEF Trapless
  <2>3. QED
    BY <1>8, <2>2 DEF Chained
<1>10. /\ IsCalls(calls')
       /\ Pending' = {Call("release", x) : x \in E}
       /\ Released' = E /\ Marking' = {} /\ InHook' = {} /\ Unlinked' = {}
  BY <1>1, <1>7, ReleaseStep DEF ObjectOrNone
<1>11. E = IF ref[o] = 1 THEN {o} ELSE {}
  BY <1>1, <1>8 DEF Ending
<1>12. /\ ref \in [Objects -> Int] /\ ref' \in [Objects -> Int]
       /\ \A x \in Objects : ref'[x] = ref[x] + In(x, {n}) - In(x, {o})
  <2> DEFINE g == More(ref, n)
  <2>1. ref \in [Objects -> Int] /\ n \in ObjectOrNone
    BY <1>8, <1>9 DEF Inv, Typed, ObjectOrNone
  <2>2. /\ g \in [Objects -> Int]
        /\ \A x \in Objects : g[x] = ref[x] + In(x, {n})
    BY <2>1, MoreLess
  <2>a. o \in ObjectOrNone
    BY <1>1 DEF ObjectOrNone
  <2> HIDE DEF g, o
  <2>3. /\ Less(g, o) \in [Objects -> Int]
        /\ \A x \in Objects : Less(g, o)[x] = g[x] - In(x, {o})
    BY <2>a, <2>2, MoreLess
  <2>4. ref' = Less(g, o)
    BY <1>7 DEF g
  <2>5. ASSUME NEW x \in Objects
        PROVE  ref'[x] = ref[x] + In(x, {n}) - In(x, {o})
    <3>1. ref'[x] = g[x] - In(x, {o}) /\ g[x] = ref[x] + In(x, {n})
      BY <2>2, <2>3, <2>4
    <3>2. ref[x] \in Int /\ In(x, {n}) \in Nat /\ In(x, {o}) \in Nat
      BY <2>1, InSets
    <3>3. QED
      BY <3>1, <3>2
  <2>6. QED
    BY <2>1, <2>3, <2>4, <2>5
<1>13. Typed' /\ Older'
  <2>1. cur' \in ObjectOrNone
    BY <1>7, <1>8, <1>9 DEF ObjectOrNone
  <2>2. QED
    BY <1>7, <1>12, <2>1 DEF Inv, Typed, Older
<1>14. \A f \in Pending' : /\ f.do = "release" /\ f.obj = o /\ Done(f) = {} /\ ref[o] = 1
  <2>1. ASSUME NEW f \in Pending'
        PROVE  f.do = "release" /\ f.obj = o /\ Done(f) = {} /\ ref[o] = 1
    <3>1. PICK x \in E : f = Call("release", x)
      BY <1>10
    <3>2. x = o /\ ref[o] = 1
      BY <1>11
    <3>3. QED
      BY <1>1, <3>1, <3>2, CallFacts
  <2>2. QED
    BY <2>1
<1>15. /\ Called' /\ Marks' /\ Doom' /\ Moved' = Moved /\ OnGc' = OnGc
  <2>1. /\ \A f \in Pending' : f.do = "turn" => LoopPhase /\ f.obj = cur'
        /\ \A f \in Pending' : f.do # "mark"
    BY <1>14
  <2>2. Handles' = Handles
    BY <1>7 DEF Handles
  <2>3. /\ Called' /\ Marks' /\ Doom' /\ Moved' = Moved
        /\ OnGc = live \ (MarkedOnes \union Unlinked)
        /\ OnGc' = live' \ (MarkedOnes \union Unlinked')
    BY <1>3, <1>4, <1>7, <1>10, <2>1, <2>2, MarksStep
  <2>4. QED
    BY <1>6, <1>7, <1>10, <2>3
<1>16. OnChains'
  BY <1>7, <1>15, QuietStep
<1>17. Dead'
  <2>1. \A x \in Objects \ live : ref'[x] = ref[x]
    <3>1. ASSUME NEW x \in Objects \ live
          PROVE  ref'[x] = ref[x]
      <4>1. x # o /\ x # n /\ ref[x] \in Int
        BY <1>8, <1>9, <1>12 DEF OnGc
      <4>2. QED
        BY <1>12, <4>1 DEF In
    <3>2. QED
      BY <3>1
  <2>2. QED
    BY <1>7, <2>1 DEF Inv, Dead
<1>18. Dying'
  <2>1. ref[o] = 1 => ref'[o] = 0
    BY <1>1, <1>9, <1>12 DEF In
  <2>2. QED
    BY <1>7, <1>8, <1>10, <1>14, <2>1 DEF Dying
<1>19. Counted'
  <2>1. ASSUME NEW x \in Objects
        PROVE  ref'[x] = Count(x)'
    <3> DEFINE u == In(x, {n})
               w == In(x, {o})
    <3>1. u \in Nat /\ w \in Nat /\ ref[x] \in Int /\ ref'[x] \in Int
      BY <1>12, InSets
    <3>2. ref'[x] = ref[x] + u - w
      BY <1>12
    <3>3. In(x, {cur'}) = u /\ In(x, {cur}) = w
      BY <1>3, <1>7
    <3>4. /\ Cardinality(Users(val', x)) - Cardinality(Users(val, x)) = 0
          /\ Cardinality(Users(fixed', x)) - Cardinality(Users(fixed, x)) = 0
          /\ In(x, root') - In(x, root) = 0 /\ In(x, Handles') - In(x, Handles) = 0
          /\ In(x, InHook') - In(x, InHook) = 0
      BY <1>6, <1>7, <1>10, UsersAre, InSets DEF Handles
    <3> HIDE DEF u, w
    <3>5. ref'[x] - ref[x] = 0 + 0 + 0 + 0 + (u - w) + 0
      BY <3>1, <3>2
    <3>6. QED
      BY <3>1, <3>3, <3>4, <3>5, CountedStep
  <2>2. QED
    BY <2>1 DEF Counted
<1>20. Loops'
  <2>1. PICK P \in SUBSET Objects : Passed(P)
    BY <1>3 DEF Inv, Loops
  <2>2. PICK Q \in SUBSET Objects : Q = P \union {o}
    BY <1>1
  <2>3. /\ P \subseteq OnGc \ {o} /\ links.head \in P \union {o}
        /\ \A x \in P : links.next[x] \in P \union {o}
        /\ \A x \in P : /\ val[x] = None
                        /\ Kind[x] # "closure" => fixed[x] = None
                        /\ ref[x] > 0
    BY <1>3, <1>6, <2>1 DEF Passed
  <2>4. n \notin P
    <3>1. SUFFICES ASSUME n \in P
                   PROVE  FALSE
      OBVIOUS
    <3>2. Q \in SUBSET OnGc /\ Q # {} /\ Trapless(links.next, OnGc)
      BY <1>8, <2>2, <2>3 DEF Chained
    <3>3. PICK x \in Q : links.next[x] \notin Q
      BY <3>2 DEF Trapless
    <3>4. QED
      BY <2>2, <2>3, <3>1, <3>3
  <2>5. Q \subseteq OnGc' \ {cur'}
    BY <1>7, <1>8, <1>9, <1>15, <2>2, <2>3, <2>4
  <2>6. links'.head \in Q \union {cur'} /\ \A x \in Q : links'.next[x] \in Q \union {cur'}
    BY <1>7, <2>2, <2>3
  <2>7. \A x \in Q : x \in Released' \/ ref'[x] > 0
    <3>1. ref[o] >= 1
      BY <1>1, <1>3, HeldLive DEF Inv
    <3>2. ASSUME NEW x \in Q
          PROVE  x \in Released' \/ ref'[x] > 0
      <4>1. CASE x = o
        <5>1. ref'[o] = ref[o] - 1 /\ ref[o] \in Int
          BY <1>1, <1>9, <1>12 DEF In
        <5>2. ref[o] = 1 => o \in Released'
          BY <1>10, <1>11
        <5>3. QED
          BY <3>1, <4>1, <5>1, <5>2
      <4>2. CASE x # o
        <5>1. x \in P /\ x \in Objects /\ x # n
          BY <2>2, <2>4, <4>2
        <5>2. ref'[x] = ref[x] /\ ref[x] > 0
          BY <1>12, <2>3, <4>2, <5>1 DEF In
        <5>3. QED
          BY <5>2
      <4>3. QED
        BY <4>1, <4>2
    <3>3. QED
      BY <3>2
  <2>8. \A x \in Q : val'[x] = None /\ (Kind[x] # "closure" => fixed'[x] = None)
    BY <1>3, <1>7, <2>2, <2>3
  <2>9. Passed(Q)'
    BY <2>5, <2>6, <2>7, <2>8 DEF Passed
  <2>10. Turn'
    BY <1>14 DEF Turn
  <2>11. cur' \in OnGc' \union {None}
    BY <1>7, <1>9, <1>15
  <2>12. pc' \in {"close", "closed"} => root' = {} /\ Handles' = {}
    BY <1>7 DEF Inv, Loops, Handles
  <2>13. QED
    BY <2>9, <2>10, <2>11, <2>12 DEF Loops
<1>21. QED
  BY <1>13, <1>15, <1>16, <1>17, <1>18, <1>19, <1>20 DEF Inv

----------------------------------------------------------------------------
(* Mark *)

LEMMA MarkingCalls ==
  ASSUME Inv, MarkPhase
  PROVE  /\ \A f \in Pending : f.do = "mark"
         /\ Released = {} /\ InHook = {} /\ Unlinked = {}
         /\ OnGc = live \ Moved /\ ~ LoopPhase /\ cur = None
<1>1. \A f \in Pending : f.do = "mark" /\ f \in CallRec /\ f.at \in 1 .. Len(Steps(f))
  BY CallsAre DEF Inv, Called, Pending
<1>2. \A f \in Pending : StepOf(f) # "unhook"
  BY <1>1, StepFacts
<1>3. Released = {} /\ InHook = {} /\ Unlinked = {}
  BY <1>1, <1>2 DEF Released, ReleasedBy, InHook, HookedBy, Unlinked, UnlinkedBy
<1>4. ~ LoopPhase
  BY DEF MarkPhase, LoopPhase
<1>5. QED
  BY <1>1, <1>3, <1>4 DEF OnGc, Inv, Called

\* The same for the next state.
LEMMA MarkingCallsNext ==
  ASSUME IsCalls(calls'), \A f \in Pending' : f.do = "mark"
  PROVE  Released' = {} /\ InHook' = {} /\ Unlinked' = {}
<1>1. Pending' = CallsOf(calls')
  BY DEF Pending
<1>2. \A f \in Pending' : f \in CallRec /\ f.at \in 1 .. Len(Steps(f))
  BY <1>1, CallsAre
<1>3. \A f \in Pending' : StepOf(f) # "unhook"
  BY <1>2, StepFacts
<1>4. /\ Released' = ReleasedBy(Pending')
      /\ InHook' = HookedBy(Pending') /\ Unlinked' = UnlinkedBy(Pending')
  BY DEF Released, InHook, Unlinked, ReleasedBy, HookedBy, UnlinkedBy
<1>5. QED
  BY <1>3, <1>4 DEF ReleasedBy, HookedBy, UnlinkedBy

\* What marking keeps, whatever it marks.
LEMMA MarkKeeps ==
  ASSUME Inv, MarkPhase, IsCalls(calls'), \A f \in Pending' : f.do = "mark",
         UNCHANGED <<live, ref, val, fixed, hnd, root, pc, cur, doomed>>,
         mark' \in [Objects -> BOOLEAN], MarkedOnes' \subseteq live,
         links' \in Chains
  PROVE  /\ Typed' /\ Called' /\ Dead' /\ Dying' /\ Counted' /\ Older' /\ Loops'
         /\ MarkPhase' /\ OnGc' = live \ Moved' /\ Reachable' = Reachable
<1>1. Released' = {} /\ InHook' = {} /\ Unlinked' = {}
  BY MarkingCallsNext
<1>2. InHook = {} /\ ~ LoopPhase /\ cur = None
  BY MarkingCalls
<1>3. MarkPhase' /\ ~ LoopPhase' /\ Handles' = Handles
  BY <1>2 DEF MarkPhase, LoopPhase, Handles
<1>4. Called'
  BY <1>2, <1>3 DEF Called
<1>5. Dead'
  BY DEF Inv, Dead, MarkedOnes
<1>6. Dying'
  BY DEF Dying
<1>7. Counted'
  BY <1>1, <1>2, <1>3 DEF Inv, Counted, Count
<1>8. Loops'
  BY <1>3 DEF Loops, Turn, MarkPhase
<1>9. Reachable' = Reachable
  BY <1>3 DEF Reachable, Reached
<1>10. QED
  BY <1>1, <1>3, <1>4, <1>5, <1>6, <1>7, <1>8, <1>9 DEF Inv, Typed, Older, OnGc

\* The reachable objects that are not marked yet.
LEMMA MarkStep ==
  ASSUME Inv, MarkPhase, calls # <<>>, NEW p \in ObjectOrNone,
         \/ StepOf(Top) = "mark_fixed" /\ p = fixed[Top.obj]
         \/ StepOf(Top) = "mark_val" /\ p = val[Top.obj],
         MarkNext(p), UNCHANGED <<live, ref, links, val, fixed, hnd, root, pc, cur, doomed>>
  PROVE  Inv'
<1> DEFINE o == Top.obj
           f == Top
<1>1. PICK N \in SUBSET Objects : N = IF p = None \/ mark[p] THEN {} ELSE {p}
  BY DEF ObjectOrNone
<1>2. /\ \A g \in Pending : g.do = "mark"
      /\ OnGc = live \ Moved
  BY MarkingCalls
<1>3. /\ f \in Pending /\ f \in CallRec /\ f.at \in 1 .. Len(Steps(f)) /\ o \in Objects
      /\ f = calls[Len(calls)] /\ IsCalls(calls) /\ f.at \in Nat
  BY TopIs DEF Inv, Called, Pending, Top, CallRec
<1>4. f.at < Len(Steps(f))
  BY <1>3, StepFacts
<1>5. /\ IsCalls(Advanced)
      /\ CallsOf(Advanced) = (Pending \ {f}) \union {NextOf(f)}
  BY <1>3, <1>4, AdvanceCalls DEF Pending, Advanced
<1>6. /\ NextOf(f).do = f.do /\ NextOf(f).obj = f.obj
      /\ Done(NextOf(f)) = Done(f) \union {StepOf(f)}
  BY <1>3, <1>4, NextFacts
<1>7. Marking \subseteq MarkedOnes /\ o \in MarkedOnes /\ o \in live
  BY <1>2, <1>3 DEF Inv, Marks, Marking, MarkedBy, Dead, MarkedOnes
<1>8. /\ IsCalls(calls')
      /\ CallsOf(calls') = CallsOf(Advanced) \union {Call("mark", x) : x \in N}
      /\ mark' = [x \in Objects |-> mark[x] \/ x \in N]
  <2>1. mark \in [Objects -> BOOLEAN] /\ None \notin Objects
    BY ObjectsAssumption DEF Inv, Typed
  <2>2. CASE p = None \/ mark[p]
    BY <1>1, <1>5, <2>1, <2>2 DEF MarkNext
  <2>3. CASE ~(p = None \/ mark[p])
    <3>1. p \in Objects /\ N = {p} /\ p \notin MarkedOnes
      BY <1>1, <2>3 DEF ObjectOrNone, MarkedOnes
    <3>2. calls' = Advanced \o <<Call("mark", p)>> /\ mark' = [mark EXCEPT ![p] = TRUE]
      <4>1. calls' = Append(Advanced, Call("mark", p)) /\ mark' = [mark EXCEPT ![p] = TRUE]
        BY <2>3 DEF MarkNext
      <4>2. Advanced \in Seq(CallRec) /\ Call("mark", p) \in CallRec
        BY <1>5, <3>1, CallFacts DEF IsCalls
      <4>3. QED
        BY <4>1, <4>2
    <3>3. \A g \in CallsOf(Advanced) : g.obj # p
      BY <1>2, <1>5, <1>6, <1>7, <3>1 DEF Marking, MarkedBy
    <3>4. /\ IsCalls(calls')
          /\ CallsOf(calls') = CallsOf(Advanced) \union {Call("mark", p)}
      BY <1>5, <3>1, <3>2, <3>3, BeginCall
    <3>5. QED
      BY <2>1, <3>1, <3>2, <3>4
  <2>4. QED
    BY <2>2, <2>3
<1>9. Pending' = (Pending \ {f}) \union {NextOf(f)} \union {Call("mark", x) : x \in N}
  BY <1>5, <1>8 DEF Pending
<1>10. /\ \A x \in N : /\ Call("mark", x).do = "mark" /\ Call("mark", x).obj = x
                       /\ Done(Call("mark", x)) = {}
       /\ \A g \in Pending' : g.do = "mark"
  BY <1>2, <1>3, <1>6, <1>9, CallFacts
<1>11. /\ MarkedOnes' = MarkedOnes \union N /\ N \intersect MarkedOnes = {}
       /\ mark' \in [Objects -> BOOLEAN]
  BY <1>1, <1>8 DEF MarkedOnes, ObjectOrNone, Inv, Typed
<1>12. Marking' = Marking \union N
  <2>1. Marking = {g.obj : g \in Pending} /\ Marking' = {g.obj : g \in Pending'}
    BY <1>2, <1>10 DEF Marking, MarkedBy
  <2>2. {g.obj : g \in Pending'} = {g.obj : g \in Pending} \union N
    <3>1. \A g \in Pending' : g.obj \in {h.obj : h \in Pending} \union N
      BY <1>3, <1>6, <1>9, <1>10
    <3>2. \A g \in Pending : \E h \in Pending' : h.obj = g.obj
      BY <1>6, <1>9
    <3>3. \A x \in N : \E h \in Pending' : h.obj = x
      BY <1>9, <1>10
    <3>4. QED
      BY <3>1, <3>2, <3>3
  <2>3. QED
    BY <2>1, <2>2
<1>13. Moved' = Moved
  BY <1>11, <1>12 DEF Moved
<1>14. MarkedOnes' \subseteq live
  <2>1. \A x \in N : IsHeld(x)
    BY <1>1, <1>3 DEF IsHeld
  <2>2. N \subseteq live
    BY <2>1, HeldLive DEF Inv
  <2>3. QED
    BY <1>11, <2>2 DEF Inv, Dead, MarkedOnes
<1>15. /\ Typed' /\ Called' /\ Dead' /\ Dying' /\ Counted' /\ Older' /\ Loops'
       /\ MarkPhase' /\ OnGc' = OnGc /\ Reachable' = Reachable
  <2>1. links' \in Chains
    BY DEF Inv, Typed
  <2>2. QED
    BY <1>2, <1>8, <1>10, <1>11, <1>13, <1>14, <2>1, MarkKeeps
<1>16. OnChains'
  BY <1>13, <1>15, QuietStep
<1>17. Marks'
  <2>1. Marking' \subseteq MarkedOnes'
    BY <1>7, <1>11, <1>12
  <2>2. ASSUME NEW x \in MarkedOnes'
        PROVE  /\ \/ fixed[x] \in MarkedOnes' \union {None}
                  \/ \E g \in Pending' : /\ g.do = "mark" /\ g.obj = x
                                         /\ "mark_fixed" \notin Done(g)
               /\ \/ val[x] \in MarkedOnes' \union {None}
                  \/ \E g \in Pending' : /\ g.do = "mark" /\ g.obj = x
                                         /\ "mark_val" \notin Done(g)
    <3>1. CASE x \in N
      BY <1>9, <1>10, <3>1
    <3>2. CASE x \in MarkedOnes
      <4>1. /\ \/ fixed[x] \in MarkedOnes \union {None}
               \/ \E g \in Pending : /\ g.obj = x /\ "mark_fixed" \notin Done(g)
            /\ \/ val[x] \in MarkedOnes \union {None}
               \/ \E g \in Pending : /\ g.obj = x /\ "mark_val" \notin Done(g)
        BY <3>2 DEF Inv, Marks
      <4>2. CASE x = o
        <5>1. p \in MarkedOnes' \union {None}
          BY <1>1, <1>11 DEF MarkedOnes, ObjectOrNone
        <5>2. \A g \in Pending : g.obj = o => g = f
          BY <1>3, CallsApart DEF Pending
        <5>3. NextOf(f) \in Pending' /\ NextOf(f).do = "mark" /\ NextOf(f).obj = o
          BY <1>2, <1>3, <1>6, <1>9
        <5>4. CASE StepOf(f) = "mark_fixed" /\ p = fixed[o]
          BY <1>6, <1>11, <4>1, <4>2, <5>1, <5>2, <5>3, <5>4
        <5>5. CASE StepOf(f) = "mark_val" /\ p = val[o]
          BY <1>6, <1>11, <4>1, <4>2, <5>1, <5>2, <5>3, <5>5
        <5>6. QED
          BY <5>4, <5>5
      <4>3. CASE x # o
        <5>1. \A g \in Pending : g.obj = x => g \in Pending' /\ g.do = "mark"
          BY <1>2, <1>9, <4>3
        <5>2. QED
          BY <1>11, <4>1, <5>1
      <4>4. QED
        BY <4>2, <4>3
    <3>3. QED
      BY <1>11, <3>1, <3>2
  <2>3. pc' = "sweep" => FALSE
    BY DEF MarkPhase
  <2>4. QED
    BY <1>15, <2>1, <2>2, <2>3 DEF Marks
<1>18. Doom'
  <2>1. ASSUME pc = "mark"
        PROVE  N \subseteq Reachable
    <3>1. o \in Reachable
      BY <1>7, <2>1 DEF Inv, Doom
    <3>2. /\ root \union Handles \subseteq Objects
          /\ val \in Pointers /\ fixed \in Pointers
      BY HandlesAre DEF Inv, Typed
    <3>3. fixed[o] \in Reachable \union {None} /\ val[o] \in Reachable \union {None}
      BY <3>1, <3>2, ReachedHolds DEF Reachable
    <3>4. QED
      BY <1>1, <3>3
  <2>2. pc # "sweep"
    BY DEF MarkPhase
  <2>3. QED
    BY <1>11, <1>15, <2>1, <2>2 DEF Inv, Doom
<1>19. QED
  BY <1>15, <1>16, <1>17, <1>18 DEF Inv

LEMMA MarkFixedStep ==
  ASSUME Inv, MarkFixed
  PROVE  Inv'
<1>1. /\ calls # <<>> /\ Top \in Pending /\ StepOf(Top) = "mark_fixed" /\ Top \in CallRec
      /\ Top.at \in 1 .. Len(Steps(Top)) /\ Top.obj \in Objects
  BY TopFacts DEF Inv, MarkFixed
<1>2. MarkPhase
  BY <1>1, StepFacts DEF Inv, Called
<1>3. fixed[Top.obj] \in ObjectOrNone
  BY <1>1 DEF Inv, Typed, Pointers
<1>4. QED
  BY <1>1, <1>2, <1>3, MarkStep DEF MarkFixed, counts, fields, loop

LEMMA MarkValStep ==
  ASSUME Inv, MarkVal
  PROVE  Inv'
<1>1. /\ calls # <<>> /\ Top \in Pending /\ StepOf(Top) = "mark_val" /\ Top \in CallRec
      /\ Top.at \in 1 .. Len(Steps(Top)) /\ Top.obj \in Objects
  BY TopFacts DEF Inv, MarkVal
<1>2. MarkPhase
  BY <1>1, StepFacts DEF Inv, Called
<1>3. val[Top.obj] \in ObjectOrNone
  BY <1>1 DEF Inv, Typed, Pointers
<1>4. QED
  BY <1>1, <1>2, <1>3, MarkStep DEF MarkVal, counts, fields, loop

LEMMA RunMarkStep ==
  ASSUME Inv, NEW o \in Objects, RunMark(o)
  PROVE  Inv'
<1>1. /\ MarkPhase /\ calls = <<>> /\ o \in root \union Handles /\ ~ mark[o]
      /\ mark' = [mark EXCEPT ![o] = TRUE] /\ calls' = <<Call("mark", o)>>
      /\ UNCHANGED <<live, ref, links, val, fixed, hnd, root, pc, cur, doomed>>
  BY DEF RunMark, MarkPhase, counts, fields, loop
<1>2. /\ IsCalls(calls) /\ CallsOf(calls) = {} /\ Pending = {} /\ Marking = {}
  BY <1>1, NoCalls
<1>3. IsCalls(calls') /\ Pending' = {Call("mark", o)}
  <2>1. calls' = calls \o <<Call("mark", o)>>
    BY <1>1
  <2>2. IsCalls(calls') /\ CallsOf(calls') = CallsOf(calls) \union {Call("mark", o)}
    BY <1>2, <2>1, BeginCall
  <2>3. QED
    BY <1>2, <2>2 DEF Pending
<1>4. Call("mark", o).do = "mark" /\ Call("mark", o).obj = o /\ Done(Call("mark", o)) = {}
  BY CallFacts
<1>5. Marking' = {o}
  BY <1>3, <1>4 DEF Marking, MarkedBy
<1>6. /\ MarkedOnes' = MarkedOnes \union {o} /\ o \notin MarkedOnes
      /\ mark' \in [Objects -> BOOLEAN]
  BY <1>1 DEF MarkedOnes, Inv, Typed
<1>7. Moved' = Moved
  BY <1>2, <1>5, <1>6 DEF Moved
<1>8. MarkedOnes' \subseteq live
  <2>1. IsHeld(o)
    BY <1>1 DEF IsHeld
  <2>2. o \in live
    BY <2>1, HeldLive DEF Inv
  <2>3. QED
    BY <1>6, <2>2 DEF Inv, Dead, MarkedOnes
<1>9. /\ Typed' /\ Called' /\ Dead' /\ Dying' /\ Counted' /\ Older' /\ Loops'
      /\ MarkPhase' /\ OnGc' = OnGc /\ Reachable' = Reachable
  <2>1. links' \in Chains
    BY <1>1 DEF Inv, Typed
  <2>2. \A f \in Pending' : f.do = "mark"
    BY <1>3, <1>4
  <2>3. OnGc = live \ Moved
    BY <1>1, MarkingCalls
  <2>4. QED
    BY <1>1, <1>3, <1>6, <1>7, <1>8, <2>1, <2>2, <2>3, MarkKeeps
<1>10. OnChains'
  BY <1>1, <1>7, <1>9, QuietStep
<1>11. Marks'
  <2>1. ASSUME NEW x \in MarkedOnes'
        PROVE  /\ \/ fixed[x] \in MarkedOnes' \union {None}
                  \/ \E g \in Pending' : /\ g.do = "mark" /\ g.obj = x
                                         /\ "mark_fixed" \notin Done(g)
               /\ \/ val[x] \in MarkedOnes' \union {None}
                  \/ \E g \in Pending' : /\ g.do = "mark" /\ g.obj = x
                                         /\ "mark_val" \notin Done(g)
    BY <1>2, <1>3, <1>4, <1>6 DEF Inv, Marks
  <2>2. pc' = "sweep" => FALSE
    BY <1>1 DEF MarkPhase
  <2>3. QED
    BY <1>1, <1>5, <1>6, <1>9, <2>1, <2>2 DEF Marks
<1>12. Doom'
  <2>1. root \union Handles \subseteq Objects /\ val \in Pointers /\ fixed \in Pointers
    BY HandlesAre DEF Inv, Typed
  <2>2. o \in Reachable
    BY <1>1, <2>1, ReachedHolds DEF Reachable
  <2>3. pc # "sweep"
    BY <1>1 DEF MarkPhase
  <2>4. QED
    BY <1>1, <1>6, <1>9, <2>2, <2>3 DEF Inv, Doom
<1>13. QED
  BY <1>9, <1>10, <1>11, <1>12 DEF Inv

LEMMA MoveMarkedStep ==
  ASSUME Inv, MoveMarked
  PROVE  Inv'
<1> DEFINE o == Top.obj
           d == RemoveFromChain(links, o)
<1>1. /\ calls # <<>> /\ Top \in Pending /\ StepOf(Top) = "move" /\ Top \in CallRec
      /\ Top.at \in 1 .. Len(Steps(Top)) /\ o \in Objects
  BY TopFacts DEF Inv, MoveMarked
<1>2. MarkPhase /\ {"mark_fixed", "mark_val"} \subseteq Done(Top)
  BY <1>1, StepFacts DEF Inv, Called
<1>3. /\ \A f \in Pending : f.do = "mark"
      /\ OnGc = live \ Moved
  BY <1>2, MarkingCalls
<1>4. /\ links' = AddToMarked(d, o) /\ calls' = Returned
      /\ UNCHANGED <<live, ref, mark, val, fixed, hnd, root, pc, cur, doomed>>
  BY DEF MoveMarked, counts, fields, loop
<1>5. /\ IsCalls(calls') /\ Pending' = Pending \ {Top} /\ Marking' = Marking \ {o}
  BY <1>1, <1>4, ReturnStep DEF Inv
<1>6. /\ o \in Marking /\ o \in MarkedOnes /\ o \in live /\ MarkedOnes' = MarkedOnes
  BY <1>1, <1>3, <1>4 DEF Inv, Marks, Marking, MarkedBy, Dead, MarkedOnes
<1>7. Moved' = Moved \union {o} /\ o \notin Moved
  BY <1>5, <1>6 DEF Moved
<1>8. /\ links \in Chains /\ Chained(links, OnGc, links.head)
      /\ Chained(links, Moved, links.thead)
      /\ OnGc \subseteq Objects /\ Moved \subseteq Objects \ OnGc /\ o \in OnGc
  BY <1>3, <1>6, <1>7 DEF Inv, Typed, OnChains, Moved, MarkedOnes
<1>9. Removed(links, OnGc, o, d)
  BY <1>8, ChainRemove
<1>10. PICK G \in SUBSET Objects : G = OnGc \ {o}
  BY <1>8
<1> HIDE DEF d
<1>11. /\ d \in Chains /\ Chained(d, G, d.head) /\ d.thead = links.thead
       /\ Chained(d, Moved, d.thead)
  <2>1. Chained(d, Moved, links.thead)
    BY <1>8, <1>9, ChainSame DEF Removed
  <2>2. QED
    BY <1>9, <1>10, <2>1 DEF Removed
<1> DEFINE e == Linked(d, o, d.thead)
<1>12. /\ e \in Chains /\ Chained(e, Moved \union {o}, o) /\ e.head = d.head
       /\ Chained(e, G, e.head)
  <2>1. /\ e \in Chains /\ Chained(e, Moved \union {o}, o) /\ e.head = d.head
        /\ \A x \in Objects : x \notin Moved \union {o} =>
             e.next[x] = d.next[x] /\ e.prev[x] = d.prev[x]
    <3>1. Moved \subseteq Objects /\ o \notin Moved
      BY <1>7, <1>8
    <3>2. Pushed(d, Moved, o, e)
      BY <1>1, <1>11, <3>1, ChainPush
    <3>3. QED
      BY <3>2 DEF Pushed
  <2>2. \A x \in G : e.next[x] = d.next[x] /\ e.prev[x] = d.prev[x]
    BY <1>8, <1>10, <2>1
  <2>3. Chained(e, G, d.head)
    BY <1>11, <2>2, ChainSame
  <2>4. QED
    BY <2>1, <2>3
<1> HIDE DEF e
<1>13. /\ links' \in Chains /\ links'.thead = o /\ links'.head = e.head
       /\ links'.next = e.next /\ links'.prev = e.prev
  <2>1. links' = [e EXCEPT !.thead = o]
    BY <1>4 DEF AddToMarked, e
  <2>2. QED
    BY <1>1, <1>12, <2>1 DEF Chains, ObjectOrNone
<1>14. MarkedOnes' \subseteq live
  BY <1>6 DEF Inv, Dead, MarkedOnes
<1>15. /\ Typed' /\ Called' /\ Dead' /\ Dying' /\ Counted' /\ Older' /\ Loops'
       /\ MarkPhase' /\ OnGc' = live \ Moved' /\ Reachable' = Reachable
  <2>1. mark' \in [Objects -> BOOLEAN] /\ \A f \in Pending' : f.do = "mark"
    BY <1>3, <1>4, <1>5 DEF Inv, Typed
  <2>2. QED
    BY <1>2, <1>4, <1>5, <1>13, <1>14, <2>1, MarkKeeps
<1>16. OnChains'
  <2>1. OnGc' = G
    BY <1>3, <1>7, <1>10, <1>15
  <2>2. Chained(links', G, e.head) /\ Chained(links', Moved \union {o}, o)
    BY <1>12, <1>13, ChainSame
  <2>3. QED
    BY <1>7, <1>13, <2>1, <2>2 DEF OnChains
<1>17. Marks'
  <2>1. ASSUME NEW x \in MarkedOnes
        PROVE  /\ \/ fixed[x] \in MarkedOnes \union {None}
                  \/ \E g \in Pending' : /\ g.do = "mark" /\ g.obj = x
                                         /\ "mark_fixed" \notin Done(g)
               /\ \/ val[x] \in MarkedOnes \union {None}
                  \/ \E g \in Pending' : /\ g.do = "mark" /\ g.obj = x
                                         /\ "mark_val" \notin Done(g)
    BY <1>2, <1>5 DEF Inv, Marks
  <2>2. pc' = "sweep" => FALSE
    BY <1>2, <1>4 DEF MarkPhase
  <2>3. QED
    BY <1>4, <1>5, <1>6, <1>15, <2>1, <2>2 DEF Inv, Marks
<1>18. Doom'
  BY <1>4, <1>6, <1>15 DEF Inv, Doom
<1>19. QED
  BY <1>15, <1>16, <1>17, <1>18 DEF Inv

----------------------------------------------------------------------------
(* The phases of the VM *)

\* What the steps of a VM without calls keep.
LEMMA PhaseStep ==
  ASSUME Inv, calls = <<>>,
         UNCHANGED <<live, ref, mark, links, val, fixed, hnd, root, cur, calls>>
  PROVE  /\ Dead' /\ Dying' /\ Counted' /\ OnChains' /\ Older' /\ Turn'
         /\ Pending' = {} /\ Marking' = {} /\ IsCalls(calls')
         /\ OnGc' = OnGc /\ Moved' = Moved /\ MarkedOnes' = MarkedOnes
         /\ Reachable' = Reachable /\ Handles' = Handles
<1>1. /\ Pending = {} /\ Released = {} /\ Marking = {} /\ InHook = {} /\ Unlinked = {}
      /\ IsCalls(calls)
  BY NoCalls
<1>2. /\ Pending' = Pending /\ Released' = Released /\ Marking' = Marking
      /\ InHook' = InHook /\ Unlinked' = Unlinked /\ IsCalls(calls')
  BY <1>1 DEF Pending, Released, Marking, InHook, Unlinked, CallsOf
<1>3. MarkedOnes' = MarkedOnes /\ Moved' = Moved /\ OnGc' = OnGc
  BY <1>2 DEF MarkedOnes, Moved, OnGc
<1>4. Handles' = Handles
  BY DEF Handles
<1>5. Counted'
  BY <1>2, <1>4 DEF Inv, Counted, Count
<1>6. OnChains'
  BY <1>3, QuietStep
<1>7. Reachable' = Reachable
  BY <1>4 DEF Reachable, Reached
<1>8. Dead' /\ Dying' /\ Turn' /\ Older'
  BY <1>1, <1>2 DEF Inv, Dead, Dying, Turn, Older
<1>9. QED
  BY <1>1, <1>2, <1>3, <1>4, <1>5, <1>6, <1>7, <1>8

LEMMA CollectGarbageStep ==
  ASSUME Inv, CollectGarbage
  PROVE  Inv'
<1>1. /\ calls = <<>> /\ pc = "idle" /\ pc' = "mark" /\ doomed' = live \ Reachable
      /\ UNCHANGED <<live, ref, mark, links, val, fixed, hnd, root, cur, calls>>
  BY DEF CollectGarbage, Idle, counts, fields
<1>2. /\ Dead' /\ Dying' /\ Counted' /\ OnChains' /\ Older' /\ Turn'
      /\ Pending' = {} /\ Marking' = {} /\ IsCalls(calls')
      /\ MarkedOnes' = MarkedOnes /\ Reachable' = Reachable
  BY <1>1, PhaseStep
<1>3. MarkedOnes = {} /\ cur = None
  BY <1>1 DEF Inv, Marks, Called, MarkPhase, LoopPhase
<1>4. Typed'
  BY <1>1 DEF Inv, Typed
<1>5. Called' /\ Marks' /\ Loops'
  BY <1>1, <1>2, <1>3 DEF Called, Marks, Loops, MarkPhase, LoopPhase
<1>6. Doom'
  BY <1>1, <1>2, <1>3 DEF Doom
<1>7. QED
  BY <1>2, <1>4, <1>5, <1>6 DEF Inv

LEMMA ResurrectUnreachableStep ==
  ASSUME Inv, ResurrectUnreachable
  PROVE  Inv'
<1>1. /\ calls = <<>> /\ pc = "idle" /\ pc' = "search" /\ doomed' = doomed
      /\ UNCHANGED <<live, ref, mark, links, val, fixed, hnd, root, cur, calls>>
  BY DEF ResurrectUnreachable, Idle, counts, fields
<1>2. /\ Dead' /\ Dying' /\ Counted' /\ OnChains' /\ Older' /\ Turn'
      /\ Pending' = {} /\ Marking' = {} /\ IsCalls(calls')
      /\ MarkedOnes' = MarkedOnes
  BY <1>1, PhaseStep
<1>3. MarkedOnes = {} /\ cur = None
  BY <1>1 DEF Inv, Marks, Called, MarkPhase, LoopPhase
<1>4. Typed' /\ Doom'
  BY <1>1 DEF Inv, Typed, Doom
<1>5. Called' /\ Marks' /\ Loops'
  BY <1>1, <1>2, <1>3 DEF Called, Marks, Loops, MarkPhase, LoopPhase
<1>6. QED
  BY <1>2, <1>4, <1>5 DEF Inv

LEMMA CloseStep ==
  ASSUME Inv, Close
  PROVE  Inv'
<1>1. /\ calls = <<>> /\ pc = "idle" /\ pc' = "empty" /\ doomed' = doomed
      /\ UNCHANGED <<live, ref, mark, links, val, fixed, hnd, root, cur, calls>>
  BY DEF Close, Idle, counts, fields
<1>2. /\ Dead' /\ Dying' /\ Counted' /\ OnChains' /\ Older' /\ Turn'
      /\ Pending' = {} /\ Marking' = {} /\ IsCalls(calls')
      /\ MarkedOnes' = MarkedOnes
  BY <1>1, PhaseStep
<1>3. MarkedOnes = {} /\ cur = None
  BY <1>1 DEF Inv, Marks, Called, MarkPhase, LoopPhase
<1>4. Typed' /\ Doom'
  BY <1>1 DEF Inv, Typed, Doom
<1>5. Called' /\ Marks' /\ Loops'
  BY <1>1, <1>2, <1>3 DEF Called, Marks, Loops, MarkPhase, LoopPhase
<1>6. QED
  BY <1>2, <1>4, <1>5 DEF Inv

LEMMA CloseEndStep ==
  ASSUME Inv, CloseEnd
  PROVE  Inv'
<1>1. /\ calls = <<>> /\ pc = "close" /\ pc' = "closed" /\ doomed' = doomed /\ cur = None
      /\ UNCHANGED <<live, ref, mark, links, val, fixed, hnd, root, cur, calls>>
  BY DEF CloseEnd, counts, fields
<1>2. /\ Dead' /\ Dying' /\ Counted' /\ OnChains' /\ Older' /\ Turn'
      /\ Pending' = {} /\ Marking' = {} /\ IsCalls(calls')
      /\ MarkedOnes' = MarkedOnes /\ Handles' = Handles
  BY <1>1, PhaseStep
<1>3. MarkedOnes = {} /\ root = {} /\ Handles = {}
  BY <1>1 DEF Inv, Marks, Loops, MarkPhase
<1>4. Typed' /\ Doom'
  BY <1>1 DEF Inv, Typed, Doom
<1>5. Called' /\ Marks' /\ Loops'
  BY <1>1, <1>2, <1>3 DEF Called, Marks, Loops, MarkPhase, LoopPhase
<1>6. QED
  BY <1>2, <1>4, <1>5 DEF Inv

\* The loop begins.
LEMMA BeginLoopStep ==
  ASSUME Inv, calls = <<>>, BeginLoop, cur = None, pc' \in {"sweep", "close"},
         pc' = "sweep" => root \union Handles \subseteq MarkedOnes,
         pc' = "close" => root = {} /\ Handles = {} /\ MarkedOnes = {},
         doomed \intersect MarkedOnes = {}
  PROVE  Inv'
<1> DEFINE n == links.head
<1>1. /\ ref' = More(ref, n) /\ cur' = n
      /\ UNCHANGED <<live, mark, links, val, fixed, hnd, root, calls, doomed>>
  BY DEF BeginLoop, fields
<1>2. /\ Pending = {} /\ Released = {} /\ Marking = {} /\ InHook = {} /\ Unlinked = {}
      /\ IsCalls(calls)
  BY NoCalls
<1>3. /\ Pending' = {} /\ Released' = {} /\ Marking' = {} /\ InHook' = {} /\ Unlinked' = {}
      /\ IsCalls(calls')
  BY <1>1, <1>2 DEF Pending, Released, Marking, InHook, Unlinked, CallsOf
<1>4. MarkedOnes' = MarkedOnes /\ Moved' = Moved /\ OnGc' = OnGc /\ Moved = MarkedOnes
  BY <1>1, <1>2, <1>3 DEF MarkedOnes, Moved, OnGc
<1>5. Handles' = Handles
  BY <1>1 DEF Handles
<1>6. n \in OnGc \union {None} /\ OnGc \subseteq live /\ live \subseteq Objects
  BY DEF Inv, OnChains, Chained, OnGc, Typed
<1>7. /\ ref \in [Objects -> Int] /\ ref' \in [Objects -> Int]
      /\ \A x \in Objects : ref'[x] = ref[x] + In(x, {n})
  <2>1. n \in ObjectOrNone /\ ref \in [Objects -> Int]
    BY <1>6 DEF ObjectOrNone, Inv, Typed
  <2>2. /\ More(ref, n) \in [Objects -> Int]
        /\ \A x \in Objects : More(ref, n)[x] = ref[x] + In(x, {n})
    BY <2>1, MoreLess
  <2>3. QED
    BY <1>1, <2>1, <2>2
<1>8. Typed' /\ Older'
  BY <1>1, <1>6, <1>7 DEF Inv, Typed, ObjectOrNone, Older
<1>9. LoopPhase' /\ ~ MarkPhase'
  BY DEF LoopPhase, MarkPhase
<1>10. Called' /\ Dying' /\ Turn'
  BY <1>3, <1>9 DEF Called, Dying, Turn
<1>11. Dead'
  <2>1. ASSUME NEW x \in Objects \ live
        PROVE  ref'[x] = ref[x]
    <3>1. x # n /\ ref[x] \in Int
      BY <1>6, <1>7, ObjectsAssumption
    <3>2. QED
      BY <1>7, <3>1 DEF In
  <2>2. QED
    BY <1>1, <2>1 DEF Inv, Dead
<1>12. Counted'
  <2>1. ASSUME NEW x \in Objects
        PROVE  ref'[x] = Count(x)'
    <3> DEFINE u == In(x, {n})
    <3>1. u \in Nat /\ ref[x] \in Int /\ ref'[x] \in Int /\ ref'[x] = ref[x] + u
      BY <1>7, InSets
    <3>2. In(x, {cur'}) = u /\ In(x, {cur}) = 0
      BY <1>1, ObjectsAssumption DEF In
    <3>3. /\ Cardinality(Users(val', x)) - Cardinality(Users(val, x)) = 0
          /\ Cardinality(Users(fixed', x)) - Cardinality(Users(fixed, x)) = 0
          /\ In(x, root') - In(x, root) = 0 /\ In(x, Handles') - In(x, Handles) = 0
          /\ In(x, InHook') - In(x, InHook) = 0
      BY <1>1, <1>2, <1>3, <1>5, UsersAre, InSets
    <3> HIDE DEF u
    <3>4. ref'[x] - ref[x] = 0 + 0 + 0 + 0 + (u - 0) + 0
      BY <3>1
    <3>5. QED
      BY <3>1, <3>2, <3>3, <3>4, CountedStep
  <2>2. QED
    BY <2>1 DEF Counted
<1>13. OnChains'
  BY <1>1, <1>4, QuietStep
<1>14. Marks'
  <2>1. \A o \in MarkedOnes : /\ fixed[o] \in MarkedOnes \union {None}
                              /\ val[o] \in MarkedOnes \union {None}
    BY <1>2 DEF Inv, Marks
  <2>2. QED
    BY <1>1, <1>3, <1>4, <1>5, <2>1 DEF Marks
<1>15. Doom'
  BY <1>1, <1>4 DEF Doom
<1>16. Loops'
  <2>1. Passed({})'
    BY <1>1 DEF Passed
  <2>2. cur' \in OnGc' \union {None}
    BY <1>1, <1>4, <1>6
  <2>3. \E P \in SUBSET Objects : Passed(P)'
    BY <2>1
  <2>4. QED
    BY <1>1, <1>5, <1>9, <1>10, <2>2, <2>3 DEF Loops
<1>17. QED
  BY <1>8, <1>10, <1>11, <1>12, <1>13, <1>14, <1>15, <1>16 DEF Inv

LEMMA BeginSweepStep ==
  ASSUME Inv, BeginSweep
  PROVE  Inv'
<1>1. /\ pc = "mark" /\ pc' = "sweep" /\ calls = <<>> /\ BeginLoop
      /\ \A o \in root \union Handles : mark[o]
  BY DEF BeginSweep, Marked
<1>2. cur = None
  BY <1>1, MarkingCalls DEF MarkPhase
<1>3. root \union Handles \subseteq MarkedOnes
  BY <1>1, HandlesAre DEF MarkedOnes, Inv, Typed
<1>4. doomed \intersect MarkedOnes = {}
  BY <1>1 DEF Inv, Doom
<1>5. QED
  BY <1>1, <1>2, <1>3, <1>4, BeginLoopStep

LEMMA BeginCloseStep ==
  ASSUME Inv, BeginClose
  PROVE  Inv'
<1>1. /\ pc = "empty" /\ pc' = "close" /\ calls = <<>> /\ BeginLoop
      /\ root = {} /\ Handles = {}
  BY DEF BeginClose
<1>2. cur = None /\ MarkedOnes = {}
  BY <1>1 DEF Inv, Called, Marks, LoopPhase, MarkPhase
<1>3. QED
  BY <1>1, <1>2, BeginLoopStep

LEMMA SweepStep ==
  ASSUME Inv, Sweep
  PROVE  Inv'
<1>1. /\ pc \in {"sweep", "close"} /\ calls = <<>> /\ cur # None
      /\ calls' = <<Call("turn", cur)>>
      /\ UNCHANGED <<live, ref, mark, links, val, fixed, hnd, root, pc, cur, doomed>>
  BY DEF Sweep, counts, fields, loop
<1>2. /\ IsCalls(calls) /\ CallsOf(calls) = {} /\ Pending = {} /\ Released = {}
      /\ Marking = {} /\ InHook = {} /\ Unlinked = {}
  BY <1>1, NoCalls
<1>3. cur \in Objects /\ LoopPhase /\ ~ MarkPhase
  BY <1>1 DEF Inv, Typed, ObjectOrNone, LoopPhase, MarkPhase
<1>4. IsCalls(calls') /\ Pending' = {Call("turn", cur)}
  <2>1. calls' = calls \o <<Call("turn", cur)>>
    BY <1>1
  <2>2. /\ "turn" \in {"turn", "release", "mark"} /\ IsCalls(calls) /\ cur \in Objects
        /\ \A g \in CallsOf(calls) : g.obj # cur
    BY <1>2, <1>3
  <2>3. LET r == calls \o <<Call("turn", cur)>>
        IN IsCalls(r) /\ CallsOf(r) = CallsOf(calls) \union {Call("turn", cur)}
    BY ONLY <1>1, <2>2, BeginCall
  <2>4. IsCalls(calls') /\ CallsOf(calls') = CallsOf(calls) \union {Call("turn", cur)}
    BY ONLY <2>1, <2>3
  <2>5. QED
    BY <1>2, <2>4 DEF Pending
<1>5. LET f == Call("turn", cur)
      IN f.do = "turn" /\ f.obj = cur /\ Done(f) = {} /\ StepOf(f) # "unhook"
  BY <1>3, CallFacts
<1>6. /\ Released' = {} /\ Marking' = {} /\ InHook' = {} /\ Unlinked' = {}
  BY <1>4, <1>5 DEF Released, Marking, InHook, Unlinked, ReleasedBy, MarkedBy, HookedBy,
     UnlinkedBy
<1>7. Handles' = Handles
  BY <1>1 DEF Handles
<1>8. /\ Called' /\ Marks' /\ Doom' /\ Moved' = Moved /\ OnGc' = OnGc
  <2>1. /\ \A f \in Pending' : f.do = "turn" => LoopPhase /\ f.obj = cur'
        /\ \A f \in Pending' : f.do # "mark"
    BY <1>1, <1>3, <1>4, <1>5
  <2>2. /\ Called' /\ Marks' /\ Doom' /\ Moved' = Moved
        /\ OnGc = live \ (MarkedOnes \union Unlinked)
        /\ OnGc' = live' \ (MarkedOnes \union Unlinked')
    BY <1>1, <1>3, <1>4, <1>6, <1>7, <2>1, MarksStep
  <2>3. QED
    BY <1>1, <1>2, <1>6, <2>2
<1>9. OnChains'
  BY <1>1, <1>8, QuietStep
<1>10. Typed' /\ Dead' /\ Older'
  BY <1>1 DEF Inv, Typed, Dead, Older
<1>11. Dying' /\ Turn'
  BY <1>4, <1>5 DEF Dying, Turn
<1>12. Counted'
  BY <1>1, <1>2, <1>6, <1>7 DEF Inv, Counted, Count
<1>13. Loops'
  BY <1>1, <1>2, <1>6, <1>7, <1>8, <1>11, LoopsStep
<1>14. QED
  BY <1>8, <1>9, <1>10, <1>11, <1>12, <1>13 DEF Inv

\* When the loop has come to the end of the chain, nothing is left on it: each
\* object was finalized, so what still refers to one is newer, and on the chain.
LEMMA AllSwept ==
  ASSUME Inv, LoopPhase, calls = <<>>, cur = None
  PROVE  OnGc = {} /\ live = MarkedOnes /\ Moved = MarkedOnes
<1>1. /\ Released = {} /\ InHook = {} /\ Unlinked = {}
  BY NoCalls
<1>2. ~ MarkPhase /\ pc \in {"sweep", "close"}
  BY DEF MarkPhase, LoopPhase
<1>3. /\ Moved = MarkedOnes /\ OnGc = live \ MarkedOnes
      /\ \A o \in MarkedOnes : /\ fixed[o] \in MarkedOnes \union {None}
                               /\ val[o] \in MarkedOnes \union {None}
  BY <1>1, <1>2, NoMarking DEF Inv
<1>4. MarkedOnes \subseteq live /\ live \subseteq Objects /\ None \notin Objects
  BY ObjectsAssumption DEF Inv, Typed, Dead, MarkedOnes
<1>5. PICK P \in SUBSET Objects : Passed(P)
  BY DEF Inv, Loops
<1>6. OnGc = P
  <2>1. /\ Chained(links, OnGc, links.head) /\ OnGc \subseteq Objects
        /\ links.head \in P \union {None}
        /\ \A q \in OnGc : q \in P => links.next[q] \in P \union {None}
    BY <1>3, <1>4, <1>5 DEF Inv, OnChains, Passed
  <2>2. OnGc \subseteq P
    BY <2>1, ChainCover
  <2>3. QED
    BY <1>5, <2>2 DEF Passed
<1>7. SUFFICES ASSUME P # {}
               PROVE  FALSE
  BY <1>3, <1>4, <1>6
<1>8. PICK p \in P : \A o \in P : fixed[o] # p
  BY <1>7 DEF Inv, Older
<1>9. p \in Objects /\ ref[p] > 0 /\ p \notin MarkedOnes
  BY <1>1, <1>3, <1>5, <1>6 DEF Passed
<1>10. IsHeld(p)
  <2>1. ref[p] = Held(p) + In(p, {cur}) + In(p, InHook)
    BY <1>9, HeldIs DEF Inv, Counted
  <2>2. In(p, {cur}) = 0 /\ In(p, InHook) = 0
    BY <1>1, <1>4, <1>9 DEF In
  <2>3. Held(p) \in Nat /\ (Held(p) >= 1 <=> IsHeld(p))
    BY HeldIs
  <2>4. QED
    BY <1>9, <2>1, <2>2, <2>3
<1>11. p \notin root \union Handles
  BY <1>2, <1>9 DEF Inv, Marks, Loops
<1>12. PICK o \in Objects : val[o] = p \/ fixed[o] = p
  BY <1>10, <1>11 DEF IsHeld
<1>13. o \in live
  BY <1>4, <1>9, <1>12 DEF Inv, Dead
<1>14. o \notin MarkedOnes
  BY <1>3, <1>4, <1>9, <1>12
<1>15. o \in P
  BY <1>3, <1>6, <1>13, <1>14
<1>16. val[o] = None
  BY <1>5, <1>15 DEF Passed
<1>17. QED
  BY <1>4, <1>8, <1>9, <1>12, <1>15, <1>16

LEMMA CollectEndStep ==
  ASSUME Inv, CollectEnd
  PROVE  Inv'
<1>1. /\ pc = "sweep" /\ calls = <<>> /\ cur = None /\ pc' = "idle"
      /\ mark' = UnMark(Chain(links, links.thead))
      /\ links' = [links EXCEPT !.head = links.thead, !.thead = None]
      /\ doomed' = {}
      /\ UNCHANGED <<live, ref, val, fixed, hnd, root, cur, calls>>
  BY DEF CollectEnd, counts, fields
<1>2. /\ Pending = {} /\ Released = {} /\ Marking = {} /\ InHook = {} /\ Unlinked = {}
      /\ IsCalls(calls)
  BY <1>1, NoCalls
<1>3. /\ Pending' = {} /\ Released' = {} /\ Marking' = {} /\ InHook' = {} /\ Unlinked' = {}
      /\ IsCalls(calls')
  BY <1>1, <1>2 DEF Pending, Released, Marking, InHook, Unlinked, CallsOf
<1>4. OnGc = {} /\ live = MarkedOnes /\ Moved = MarkedOnes
  BY <1>1, AllSwept DEF LoopPhase
<1>5. /\ links \in Chains /\ live \subseteq Objects /\ Chained(links, live, links.thead)
      /\ mark \in [Objects -> BOOLEAN]
  BY <1>4 DEF Inv, Typed, OnChains
<1>6. Chain(links, links.thead) = live
  BY <1>5, ChainIs
<1>7. /\ mark' \in [Objects -> BOOLEAN] /\ \A o \in Objects : ~ mark'[o]
      /\ MarkedOnes' = {}
  BY <1>1, <1>4, <1>5, <1>6 DEF UnMark, MarkedOnes
<1>8. Moved' = {} /\ OnGc' = live
  BY <1>1, <1>3, <1>7 DEF Moved, OnGc
<1>9. /\ links' \in Chains /\ links'.head = links.thead /\ links'.thead = None
      /\ links'.next = links.next /\ links'.prev = links.prev
  BY <1>1, <1>5 DEF Chains, ObjectOrNone
<1>10. OnChains'
  <2>1. Chained(links', live, links'.head)
    BY <1>5, <1>9, ChainSame
  <2>2. Chained(links', {}, None)
    BY DEF Chained, Trapless
  <2>3. QED
    BY <1>8, <1>9, <2>1, <2>2 DEF OnChains
<1>11. Handles' = Handles
  BY <1>1 DEF Handles
<1>12. Counted'
  BY <1>1, <1>2, <1>3, <1>11 DEF Inv, Counted, Count
<1>13. Typed' /\ Dead' /\ Older'
  BY <1>1, <1>7, <1>9 DEF Inv, Typed, Dead, Older
<1>14. Called' /\ Dying' /\ Marks' /\ Doom' /\ Loops'
  BY <1>1, <1>3, <1>7 DEF Called, Dying, Marks, Doom, Loops, Turn, MarkPhase, LoopPhase
<1>15. QED
  BY <1>10, <1>12, <1>13, <1>14 DEF Inv

LEMMA ResurrectStep ==
  ASSUME Inv, Resurrect
  PROVE  Inv'
<1> DEFINE found == Chain(links, links.head)
<1>1. /\ pc = "search" /\ calls = <<>> /\ pc' = "idle"
      /\ \A o \in root \union Handles : mark[o]
      /\ ref' = [o \in Objects |-> IF o \in found THEN ref[o] + 1 ELSE ref[o]]
      /\ root' = root \union found /\ links' = Joined(links)
      /\ mark' = UnMark(Chain(Joined(links), Joined(links).head))
      /\ UNCHANGED <<live, val, fixed, hnd, cur, calls, doomed>>
  BY DEF Resurrect, Marked, fields
<1>2. /\ Pending = {} /\ Released = {} /\ Marking = {} /\ InHook = {} /\ Unlinked = {}
      /\ IsCalls(calls)
  BY <1>1, NoCalls
<1>3. /\ Pending' = {} /\ Released' = {} /\ Marking' = {} /\ InHook' = {} /\ Unlinked' = {}
      /\ IsCalls(calls')
  BY <1>1, <1>2 DEF Pending, Released, Marking, InHook, Unlinked, CallsOf
<1>4. OnGc = live \ Moved /\ Moved = MarkedOnes /\ cur = None
  BY <1>1, <1>2, MarkingCalls DEF MarkPhase, Moved
<1>5. /\ links \in Chains /\ live \subseteq Objects /\ MarkedOnes \subseteq live
      /\ Chained(links, OnGc, links.head) /\ Chained(links, Moved, links.thead)
      /\ OnGc \subseteq Objects /\ Moved \subseteq Objects /\ OnGc \intersect Moved = {}
      /\ OnGc \union Moved = live /\ root \subseteq Objects /\ ref \in [Objects -> Int]
  BY <1>4 DEF Inv, Typed, OnChains, Dead, MarkedOnes
<1>6. found = OnGc
  BY <1>5, ChainIs
<1>7. /\ links' \in Chains /\ Chained(links', live, links'.head) /\ links'.thead = None
  <2>1. /\ Joined(links) \in Chains
        /\ Chained(Joined(links), OnGc \union Moved, Joined(links).head)
        /\ Joined(links).thead = None
    BY <1>5, ChainJoin
  <2>2. QED
    BY <1>1, <1>5, <2>1
<1> HIDE DEF found
<1>8. /\ mark' \in [Objects -> BOOLEAN] /\ \A o \in Objects : ~ mark'[o]
      /\ MarkedOnes' = {}
  <2>1. Chain(links', links'.head) = live
    BY <1>5, <1>7, ChainIs
  <2>2. mark' = UnMark(live) /\ mark \in [Objects -> BOOLEAN]
    BY <1>1, <2>1 DEF Inv, Typed
  <2>3. QED
    BY <1>5, <2>2 DEF UnMark, MarkedOnes
<1>9. Moved' = {} /\ OnGc' = live
  BY <1>1, <1>3, <1>8 DEF Moved, OnGc
<1>10. OnChains'
  <2>1. Chained(links', {}, None)
    BY DEF Chained, Trapless
  <2>2. QED
    BY <1>7, <1>9, <2>1 DEF OnChains
<1>11. Handles' = Handles
  BY <1>1 DEF Handles
<1>12. root \intersect found = {} /\ found \subseteq live
  BY <1>1, <1>4, <1>5, <1>6 DEF MarkedOnes
<1>13. /\ ref' \in [Objects -> Int]
       /\ \A x \in Objects : ref'[x] = ref[x] + In(x, found)
  BY <1>1, <1>5 DEF In
<1>14. Counted'
  <2>1. ASSUME NEW x \in Objects
        PROVE  ref'[x] = Count(x)'
    <3> DEFINE u == In(x, found)
    <3>1. u \in Nat /\ ref[x] \in Int /\ ref'[x] \in Int /\ ref'[x] = ref[x] + u
      BY <1>5, <1>13, InSets
    <3>2. In(x, root') - In(x, root) = u
      BY <1>1, <1>12 DEF In
    <3>3. /\ Cardinality(Users(val', x)) - Cardinality(Users(val, x)) = 0
          /\ Cardinality(Users(fixed', x)) - Cardinality(Users(fixed, x)) = 0
          /\ In(x, {cur'}) - In(x, {cur}) = 0 /\ In(x, Handles') - In(x, Handles) = 0
          /\ In(x, InHook') - In(x, InHook) = 0
      BY <1>1, <1>2, <1>3, <1>11, UsersAre, InSets
    <3> HIDE DEF u
    <3>4. ref'[x] - ref[x] = 0 + 0 + 0 + u + 0 + 0
      BY <3>1
    <3>5. QED
      BY <3>1, <3>2, <3>3, <3>4, CountedStep
  <2>2. QED
    BY <2>1 DEF Counted
<1>15. Dead'
  <2>1. \A x \in Objects \ live : ref'[x] = ref[x]
    BY <1>1, <1>12
  <2>2. QED
    BY <1>1, <1>8, <2>1 DEF Inv, Dead
<1>16. Typed' /\ Older'
  BY <1>1, <1>5, <1>7, <1>8, <1>12, <1>13 DEF Inv, Typed, Older
<1>17. Called' /\ Dying' /\ Marks' /\ Doom' /\ Loops'
  BY <1>1, <1>3, <1>4, <1>8 DEF Called, Dying, Marks, Doom, Loops, Turn, MarkPhase, LoopPhase
<1>18. QED
  BY <1>10, <1>14, <1>15, <1>16, <1>17 DEF Inv

\* The program waits for nothing but releases.
LEMMA RestStep ==
  ASSUME Inv, pc \in {"idle", "empty"}, calls = <<>>,
         UNCHANGED <<mark, pc, cur, doomed>>,
         NEW g, NEW p \in ObjectOrNone, calls' = Release(g, p),
         \A x \in Ending(g, p) : x \in live' /\ ref'[x] = 0
  PROVE  /\ Called' /\ Marks' /\ Doom' /\ Loops' /\ Dying'
         /\ cur = None /\ MarkedOnes = {} /\ InHook = {} /\ InHook' = {}
         /\ OnGc = live /\ OnGc' = live' /\ Moved = {} /\ Moved' = {}
<1>1. /\ Pending = {} /\ Released = {} /\ Marking = {} /\ InHook = {} /\ Unlinked = {}
  BY NoCalls
<1>2. /\ IsCalls(calls')
      /\ Pending' = {Call("release", x) : x \in Ending(g, p)}
      /\ Released' = Ending(g, p) /\ Marking' = {} /\ InHook' = {} /\ Unlinked' = {}
  BY ReleaseStep
<1>3. /\ ~ MarkPhase /\ ~ LoopPhase /\ ~ MarkPhase' /\ ~ LoopPhase'
      /\ pc' \in {"idle", "empty"}
  BY DEF MarkPhase, LoopPhase
<1>4. cur = None /\ MarkedOnes = {}
  BY <1>3 DEF Inv, Called, Marks, LoopPhase
<1>5. MarkedOnes' = {} /\ Moved = {} /\ Moved' = {} /\ OnGc = live /\ OnGc' = live'
  BY <1>1, <1>2, <1>4 DEF MarkedOnes, Moved, OnGc
<1>6. \A f \in Pending' : \E x \in Ending(g, p) :
        f.do = "release" /\ f.obj = x /\ Done(f) = {}
  <2>1. ASSUME NEW x \in Ending(g, p)
        PROVE  LET f == Call("release", x)
               IN f.do = "release" /\ f.obj = x /\ Done(f) = {}
    BY CallFacts DEF Ending
  <2>2. QED
    BY <1>2, <2>1
<1>7. \A f \in Pending' : f.do = "release"
  BY <1>6
<1>8. Called'
  BY <1>2, <1>3, <1>4, <1>7 DEF Called
<1>9. Marks'
  BY <1>2, <1>3, <1>5 DEF Marks
<1>10. Doom'
  BY <1>3 DEF Doom, MarkPhase, LoopPhase
<1>11. Loops'
  BY <1>3, <1>7 DEF Loops, Turn
<1>12. Dying'
  <2>1. \A x \in Ending(g, p) : x \in live' /\ ref'[x] = 0 /\ ~ mark'[x]
    BY DEF Ending
  <2>2. QED
    BY <1>2, <1>6, <2>1 DEF Dying
<1>13. QED
  BY <1>1, <1>2, <1>4, <1>5, <1>8, <1>9, <1>10, <1>11, <1>12

LEMMA StoreStep ==
  ASSUME Inv, NEW o \in Objects, NEW x \in ObjectOrNone, Store(o, x)
  PROVE  Inv'
<1> DEFINE p == val[o]
           g == More(ref, x)
<1>1. /\ pc = "idle" /\ calls = <<>> /\ o \in Reachable
      /\ x \in Reachable \union {None} /\ x # p
      /\ val' = [val EXCEPT ![o] = x] /\ ref' = Less(g, p) /\ calls' = Release(g, p)
      /\ UNCHANGED <<live, mark, links, fixed, hnd, root, pc, cur, doomed>>
  BY DEF Store, Idle, loop
<1>2. /\ val \in Pointers /\ p \in ObjectOrNone /\ ref \in [Objects -> Int]
      /\ None \notin Objects /\ live \subseteq Objects /\ o \in live
      /\ x \in Objects => x \in live
  BY <1>1, ReachableLive, ObjectsAssumption DEF Inv, Typed, Pointers, ObjectOrNone
<1>3. p \in Objects => p \in live
  <2>1. p \in Objects => IsHeld(p)
    BY DEF IsHeld
  <2>2. QED
    BY <2>1, HeldLive DEF Inv
<1>4. g \in [Objects -> Int] /\ \A y \in Objects : g[y] = ref[y] + In(y, {x})
  BY <1>2, MoreLess
<1>5. ref' \in [Objects -> Int] /\ \A y \in Objects : ref'[y] = g[y] - In(y, {p})
  <2> HIDE DEF g, p
  <2>1. g \in [Objects -> Int] /\ p \in ObjectOrNone
    BY <1>2, <1>4
  <2>2. /\ Less(g, p) \in [Objects -> Int]
        /\ \A y \in Objects : Less(g, p)[y] = g[y] - In(y, {p})
    BY <2>1, MoreLess
  <2>3. QED
    BY <1>1, <2>2
<1> HIDE DEF g
<1>6. \A y \in Ending(g, p) : y \in live' /\ ref'[y] = 0
  BY <1>1, <1>3, <1>5 DEF Ending, In
<1>7. /\ Called' /\ Marks' /\ Doom' /\ Loops' /\ Dying'
      /\ InHook = {} /\ InHook' = {} /\ OnGc' = OnGc /\ Moved' = Moved
  <2>1. /\ Called' /\ Marks' /\ Doom' /\ Loops' /\ Dying'
        /\ InHook = {} /\ InHook' = {}
        /\ OnGc = live /\ OnGc' = live' /\ Moved = {} /\ Moved' = {}
    BY <1>1, <1>2, <1>6, RestStep
  <2>2. QED
    BY <1>1, <2>1
<1>8. OnChains'
  BY <1>1, <1>7, QuietStep
<1>9. /\ \A y \in Objects : val'[y] = IF y = o THEN x ELSE val[y]
      /\ val' \in Pointers
  BY <1>1, <1>2 DEF Pointers
<1>10. Typed' /\ Older'
  BY <1>1, <1>5, <1>9 DEF Inv, Typed, Older
<1>11. Dead'
  <2>1. ASSUME NEW y \in Objects \ live
        PROVE  ref'[y] = ref[y] /\ val'[y] = val[y]
    <3>1. y # o /\ y # x /\ y # p /\ ref[y] \in Int
      BY <1>2, <1>3
    <3>2. In(y, {x}) = 0 /\ In(y, {p}) = 0
      BY <3>1 DEF In
    <3>3. QED
      BY <1>4, <1>5, <1>9, <3>1, <3>2
  <2>2. QED
    BY <1>1, <2>1 DEF Inv, Dead
<1>12. Counted'
  <2>1. ASSUME NEW y \in Objects
        PROVE  ref'[y] = Count(y)'
    <3> DEFINE u == In(y, {x})
               w == In(y, {p})
    <3>1. /\ u \in Nat /\ w \in Nat /\ ref[y] \in Int /\ ref'[y] \in Int
          /\ ref'[y] = ref[y] + u - w
      BY <1>2, <1>4, <1>5, InSets
    <3>2. Cardinality(Users(val', y)) - Cardinality(Users(val, y)) = u - w
      <4>1. Cardinality(Users(val', y)) = Cardinality(Users(val, y)) + u - w
        <5>1. Rewired(val, o, x, val')
          BY <1>1, <1>2, CountPut
        <5>2. QED
          BY <5>1 DEF Rewired
      <4>2. Cardinality(Users(val, y)) \in Nat /\ u \in Nat /\ w \in Nat
        BY UsersAre, InSets
      <4> HIDE DEF u, w
      <4>3. QED
        BY <4>1, <4>2
    <3>3. /\ Cardinality(Users(fixed', y)) - Cardinality(Users(fixed, y)) = 0
          /\ In(y, root') - In(y, root) = 0 /\ In(y, Handles') - In(y, Handles) = 0
          /\ In(y, {cur'}) - In(y, {cur}) = 0 /\ In(y, InHook') - In(y, InHook) = 0
      <4>1. Handles' = Handles
        BY <1>1 DEF Handles
      <4>2. QED
        BY <1>1, <1>7, <4>1, UsersAre, InSets
    <3> HIDE DEF u, w
    <3>4. ref'[y] - ref[y] = (u - w) + 0 + 0 + 0 + 0 + 0
      BY <3>1
    <3>5. QED
      BY <3>1, <3>2, <3>3, <3>4, CountedStep
  <2>2. QED
    BY <2>1 DEF Counted
<1>13. QED
  BY <1>7, <1>8, <1>10, <1>11, <1>12 DEF Inv

LEMMA PushStep ==
  ASSUME Inv, NEW o \in Objects, Push(o)
  PROVE  Inv'
<1>1. /\ pc = "idle" /\ calls = <<>> /\ o \in Reachable \ root
      /\ ref' = More(ref, o) /\ root' = root \union {o}
      /\ UNCHANGED <<live, mark, links, val, fixed, hnd, pc, cur, calls, doomed>>
  BY DEF Push, Idle, fields
<1>2. /\ ref \in [Objects -> Int] /\ root \subseteq Objects
      /\ None \notin Objects /\ None \in ObjectOrNone /\ o \in ObjectOrNone /\ o \in live
  BY <1>1, ReachableLive, ObjectsAssumption DEF Inv, Typed, ObjectOrNone
<1>3. ref' \in [Objects -> Int] /\ \A y \in Objects : ref'[y] = ref[y] + In(y, {o})
  BY <1>1, <1>2, MoreLess
<1>4. /\ Called' /\ Marks' /\ Doom' /\ Loops' /\ Dying'
      /\ InHook = {} /\ InHook' = {} /\ OnGc' = OnGc /\ Moved' = Moved
  <2>1. calls' = Release(ref, None) /\ Ending(ref, None) = {}
    BY <1>1, <1>2 DEF Release, Ending
  <2>2. \A x \in Ending(ref, None) : x \in live' /\ ref'[x] = 0
    BY <2>1
  <2>3. pc \in {"idle", "empty"} /\ UNCHANGED <<mark, pc, cur, doomed>>
    BY <1>1
  <2>4. /\ Called' /\ Marks' /\ Doom' /\ Loops' /\ Dying'
        /\ InHook = {} /\ InHook' = {}
        /\ OnGc = live /\ OnGc' = live' /\ Moved = {} /\ Moved' = {}
    BY <1>1, <1>2, <2>1, <2>2, <2>3, RestStep
  <2>5. QED
    BY <1>1, <2>4
<1>5. OnChains'
  BY <1>1, <1>4, QuietStep
<1>6. Typed' /\ Older'
  BY <1>1, <1>2, <1>3 DEF Inv, Typed, Older
<1>7. Dead'
  <2>1. ASSUME NEW y \in Objects \ live
        PROVE  ref'[y] = ref[y]
    <3>1. In(y, {o}) = 0 /\ ref[y] \in Int
      BY <1>2 DEF In
    <3>2. QED
      BY <1>3, <3>1
  <2>2. QED
    BY <1>1, <2>1 DEF Inv, Dead
<1>8. Counted'
  <2>1. ASSUME NEW y \in Objects
        PROVE  ref'[y] = Count(y)'
    <3> DEFINE u == In(y, {o})
    <3>1. u \in Nat /\ ref[y] \in Int /\ ref'[y] \in Int /\ ref'[y] = ref[y] + u
      BY <1>2, <1>3, InSets
    <3>2. In(y, root') - In(y, root) = u
      BY <1>1 DEF In
    <3>3. /\ Cardinality(Users(val', y)) - Cardinality(Users(val, y)) = 0
          /\ Cardinality(Users(fixed', y)) - Cardinality(Users(fixed, y)) = 0
          /\ In(y, Handles') - In(y, Handles) = 0
          /\ In(y, {cur'}) - In(y, {cur}) = 0 /\ In(y, InHook') - In(y, InHook) = 0
      <4>1. Handles' = Handles
        BY <1>1 DEF Handles
      <4>2. QED
        BY <1>1, <1>4, <4>1, UsersAre, InSets
    <3> HIDE DEF u
    <3>4. ref'[y] - ref[y] = 0 + 0 + 0 + u + 0 + 0
      BY <3>1
    <3>5. QED
      BY <3>1, <3>2, <3>3, <3>4, CountedStep
  <2>2. QED
    BY <2>1 DEF Counted
<1>9. QED
  BY <1>4, <1>5, <1>6, <1>7, <1>8 DEF Inv

LEMMA PopRootStep ==
  ASSUME Inv, NEW o \in Objects, pc \in {"idle", "empty"}, calls = <<>>, PopRoot(o)
  PROVE  Inv'
<1>1. /\ o \in root /\ root' = root \ {o} /\ ref' = Less(ref, o) /\ calls' = Release(ref, o)
      /\ UNCHANGED <<live, mark, links, val, fixed, hnd, pc, cur, doomed>>
  BY DEF PopRoot, fields
<1>2. /\ ref \in [Objects -> Int] /\ root \subseteq Objects
      /\ o \in ObjectOrNone /\ o \in live
  <2>1. IsHeld(o)
    BY <1>1 DEF IsHeld
  <2>2. QED
    BY <2>1, HeldLive DEF Inv, Typed, ObjectOrNone
<1>3. ref' \in [Objects -> Int] /\ \A y \in Objects : ref'[y] = ref[y] - In(y, {o})
  BY <1>1, <1>2, MoreLess
<1>4. /\ Called' /\ Marks' /\ Doom' /\ Loops' /\ Dying'
      /\ InHook = {} /\ InHook' = {} /\ OnGc' = OnGc /\ Moved' = Moved
  <2>1. \A x \in Ending(ref, o) : x \in live' /\ ref'[x] = 0
    BY <1>1, <1>2, <1>3 DEF Ending, In
  <2>2. UNCHANGED <<mark, pc, cur, doomed>>
    BY <1>1
  <2>3. /\ Called' /\ Marks' /\ Doom' /\ Loops' /\ Dying'
        /\ InHook = {} /\ InHook' = {}
        /\ OnGc = live /\ OnGc' = live' /\ Moved = {} /\ Moved' = {}
    BY <1>1, <1>2, <2>1, <2>2, RestStep
  <2>4. QED
    BY <1>1, <2>3
<1>5. OnChains'
  BY <1>1, <1>4, QuietStep
<1>6. Typed' /\ Older'
  BY <1>1, <1>2, <1>3 DEF Inv, Typed, Older
<1>7. Dead'
  <2>1. ASSUME NEW y \in Objects \ live
        PROVE  ref'[y] = ref[y]
    <3>1. In(y, {o}) = 0 /\ ref[y] \in Int
      BY <1>2 DEF In
    <3>2. QED
      BY <1>3, <3>1
  <2>2. QED
    BY <1>1, <2>1 DEF Inv, Dead
<1>8. Counted'
  <2>1. ASSUME NEW y \in Objects
        PROVE  ref'[y] = Count(y)'
    <3> DEFINE u == In(y, {o})
    <3>1. u \in Nat /\ ref[y] \in Int /\ ref'[y] \in Int /\ ref'[y] = ref[y] - u
      BY <1>2, <1>3, InSets
    <3>2. In(y, root') - In(y, root) = 0 - u
      BY <1>1 DEF In
    <3>3. /\ Cardinality(Users(val', y)) - Cardinality(Users(val, y)) = 0
          /\ Cardinality(Users(fixed', y)) - Cardinality(Users(fixed, y)) = 0
          /\ In(y, Handles') - In(y, Handles) = 0
          /\ In(y, {cur'}) - In(y, {cur}) = 0 /\ In(y, InHook') - In(y, InHook) = 0
      <4>1. Handles' = Handles
        BY <1>1 DEF Handles
      <4>2. QED
        BY <1>1, <1>4, <4>1, UsersAre, InSets
    <3> HIDE DEF u
    <3>4. ref'[y] - ref[y] = 0 + 0 + 0 + (0 - u) + 0 + 0
      BY <3>1
    <3>5. QED
      BY <3>1, <3>2, <3>3, <3>4, CountedStep
  <2>2. QED
    BY <2>1 DEF Counted
<1>9. QED
  BY <1>4, <1>5, <1>6, <1>7, <1>8 DEF Inv

LEMMA EmptyHandlesStep ==
  ASSUME Inv, NEW p \in Objects, EmptyHandles(p)
  PROVE  Inv'
<1>1. /\ pc = "empty" /\ calls = <<>> /\ p \in Handles
      /\ hnd' = [o \in Objects |-> IF hnd[o] = p THEN None ELSE hnd[o]]
      /\ ref' = Less(ref, p) /\ calls' = Release(ref, p)
      /\ UNCHANGED <<live, mark, links, val, fixed, root, pc, cur, doomed>>
  BY DEF EmptyHandles, loop
<1>2. /\ ref \in [Objects -> Int] /\ hnd \in Pointers /\ None \notin Objects
      /\ p \in ObjectOrNone /\ p \in live
  <2>1. IsHeld(p)
    BY <1>1 DEF IsHeld
  <2>2. QED
    BY <2>1, HeldLive, ObjectsAssumption DEF Inv, Typed, ObjectOrNone
<1>3. ref' \in [Objects -> Int] /\ \A y \in Objects : ref'[y] = ref[y] - In(y, {p})
  BY <1>1, <1>2, MoreLess
<1>4. /\ hnd' \in Pointers
      /\ \A o \in Objects : hnd'[o] = IF hnd[o] = p THEN None ELSE hnd[o]
  BY <1>1, <1>2 DEF Pointers, ObjectOrNone
<1>5. \A y \in Objects : y \in Handles' <=> y \in Handles /\ y # p
  <2>1. /\ \A y \in Objects : y \in Handles <=> \E o \in Objects : hnd[o] = y
        /\ \A y \in Objects : y \in Handles' <=> \E o \in Objects : hnd'[o] = y
    BY <1>2, <1>4 DEF Handles, Pointers, ObjectOrNone
  <2>2. QED
    BY <1>2, <1>4, <2>1
<1>6. /\ Called' /\ Marks' /\ Doom' /\ Loops' /\ Dying'
      /\ InHook = {} /\ InHook' = {} /\ OnGc' = OnGc /\ Moved' = Moved
  <2>1. \A x \in Ending(ref, p) : x \in live' /\ ref'[x] = 0
    BY <1>1, <1>2, <1>3 DEF Ending, In
  <2>2. UNCHANGED <<mark, pc, cur, doomed>> /\ pc \in {"idle", "empty"}
    BY <1>1
  <2>3. /\ Called' /\ Marks' /\ Doom' /\ Loops' /\ Dying'
        /\ InHook = {} /\ InHook' = {}
        /\ OnGc = live /\ OnGc' = live' /\ Moved = {} /\ Moved' = {}
    BY <1>1, <1>2, <2>1, <2>2, RestStep
  <2>4. QED
    BY <1>1, <2>3
<1>7. OnChains'
  BY <1>1, <1>6, QuietStep
<1>8. Typed' /\ Older'
  BY <1>1, <1>3, <1>4 DEF Inv, Typed, Older
<1>9. Dead'
  <2>1. ASSUME NEW y \in Objects \ live
        PROVE  ref'[y] = ref[y]
    <3>1. In(y, {p}) = 0 /\ ref[y] \in Int
      BY <1>2 DEF In
    <3>2. QED
      BY <1>3, <3>1
  <2>2. QED
    BY <1>1, <1>4, <2>1 DEF Inv, Dead
<1>10. Counted'
  <2>1. ASSUME NEW y \in Objects
        PROVE  ref'[y] = Count(y)'
    <3> DEFINE u == In(y, {p})
    <3>1. u \in Nat /\ ref[y] \in Int /\ ref'[y] \in Int /\ ref'[y] = ref[y] - u
      BY <1>2, <1>3, InSets
    <3>2. In(y, Handles') - In(y, Handles) = 0 - u
      BY <1>1, <1>5 DEF In
    <3>3. /\ Cardinality(Users(val', y)) - Cardinality(Users(val, y)) = 0
          /\ Cardinality(Users(fixed', y)) - Cardinality(Users(fixed, y)) = 0
          /\ In(y, root') - In(y, root) = 0
          /\ In(y, {cur'}) - In(y, {cur}) = 0 /\ In(y, InHook') - In(y, InHook) = 0
      BY <1>1, <1>6, UsersAre, InSets
    <3> HIDE DEF u
    <3>4. ref'[y] - ref[y] = 0 + 0 + (0 - u) + 0 + 0 + 0
      BY <3>1
    <3>5. QED
      BY <3>1, <3>2, <3>3, <3>4, CountedStep
  <2>2. QED
    BY <2>1 DEF Counted
<1>11. QED
  BY <1>6, <1>7, <1>8, <1>9, <1>10 DEF Inv

LEMMA NewStep ==
  ASSUME Inv, NEW o \in Objects, NEW f \in ObjectOrNone, New(o, f)
  PROVE  Inv'
<1> DEFINE p == IF Owns[o] \in Reachable THEN Owns[o] ELSE None
           k == IF p \in Handles THEN None ELSE p
           a == [ref EXCEPT ![o] = 1]
           one == More(a, f)
<1>1. /\ pc = "idle" /\ calls = <<>> /\ o \notin live
      /\ f \in Reachable \union {None}
      /\ ref' = More(one, k)
      /\ fixed' = [fixed EXCEPT ![o] = f] /\ hnd' = [hnd EXCEPT ![o] = p]
      /\ live' = live \union {o} /\ links' = AddToGc(links, o) /\ root' = root \union {o}
      /\ UNCHANGED <<mark, val, pc, cur, calls, doomed>>
  <2>1. More(one, None) = one
    BY DEF More
  <2>2. ref' = IF p \in Handles THEN one ELSE More(one, p)
    BY DEF New
  <2>3. ref' = More(one, k)
    BY <2>1, <2>2
  <2>4. QED
    BY <2>3 DEF New, Idle
<1>2. /\ ref \in [Objects -> Int] /\ hnd \in Pointers /\ fixed \in Pointers
      /\ links \in Chains /\ live \subseteq Objects /\ root \subseteq Objects
      /\ None \notin Objects /\ Handles \subseteq Objects
  BY HandlesAre, ObjectsAssumption DEF Inv, Typed
<1>3. /\ f \in live \union {None} /\ p \in live \union {None} /\ k \in live \union {None}
      /\ f # o /\ p # o /\ k # o
  BY <1>1, <1>2, ReachableLive DEF Inv
<1>4. /\ p \in ObjectOrNone /\ k \in ObjectOrNone
      /\ p # None => Kind[o] = "instance"
  BY <1>2, <1>3, OwnsAssumption DEF ObjectOrNone
<1>5. /\ ref[o] = 0 /\ ~ mark[o] /\ val[o] = None /\ fixed[o] = None /\ hnd[o] = None
      /\ ~ IsHeld(o)
  BY <1>1, HeldLive DEF Inv, Dead
<1>6. /\ o \notin root /\ \A x \in Objects : fixed[x] # o
  BY <1>5 DEF IsHeld
<1>7. /\ ref' \in [Objects -> Int]
      /\ \A y \in Objects : ref'[y] = ref[y] + In(y, {o}) + In(y, {f}) + In(y, {k})
  <2> HIDE DEF k, p
  <2>1. a \in [Objects -> Int] /\ \A y \in Objects : a[y] = ref[y] + In(y, {o})
    BY <1>2, <1>5 DEF In
  <2> HIDE DEF a
  <2>2. one \in [Objects -> Int] /\ \A y \in Objects : one[y] = a[y] + In(y, {f})
    BY <2>1, MoreLess
  <2> HIDE DEF one
  <2>3. one \in [Objects -> Int] /\ k \in ObjectOrNone
    BY <1>4, <2>2
  <2>4. /\ More(one, k) \in [Objects -> Int]
        /\ \A y \in Objects : More(one, k)[y] = one[y] + In(y, {k})
    BY <2>3, MoreLess
  <2>5. QED
    BY <1>1, <2>1, <2>2, <2>4
<1>8. /\ \A x \in Objects : fixed'[x] = IF x = o THEN f ELSE fixed[x]
      /\ \A x \in Objects : hnd'[x] = IF x = o THEN p ELSE hnd[x]
      /\ fixed' \in Pointers /\ hnd' \in Pointers
  BY <1>1, <1>2, <1>4 DEF Pointers
<1>9. \A y \in Objects : y \in Handles' <=> y \in Handles \/ y = p
  <2>1. /\ \A y \in Objects : y \in Handles <=> \E x \in Objects : hnd[x] = y
        /\ \A y \in Objects : y \in Handles' <=> \E x \in Objects : hnd'[x] = y
    BY <1>2, <1>8 DEF Handles, Pointers, ObjectOrNone
  <2>2. QED
    BY <1>2, <1>5, <1>8, <2>1
<1>10. /\ Called' /\ Marks' /\ Doom' /\ Loops' /\ Dying'
       /\ InHook = {} /\ InHook' = {}
       /\ OnGc = live /\ OnGc' = live' /\ Moved = {} /\ Moved' = {}
  <2>1. calls' = Release(ref, None) /\ Ending(ref, None) = {}
    BY <1>1, <1>2 DEF Release, Ending
  <2>2. \A x \in Ending(ref, None) : x \in live' /\ ref'[x] = 0
    BY <2>1
  <2>3. /\ pc \in {"idle", "empty"} /\ UNCHANGED <<mark, pc, cur, doomed>>
        /\ None \in ObjectOrNone
    BY <1>1 DEF ObjectOrNone
  <2>4. QED
    BY <1>1, <2>1, <2>2, <2>3, RestStep
<1>11. links' \in Chains /\ OnChains'
  <2> DEFINE d == Linked(links, o, links.head)
  <2>1. Chained(links, live, links.head) /\ Chained(links, {}, links.thead)
    BY <1>10 DEF Inv, OnChains
  <2>2. Pushed(links, live, o, d)
    BY <1>1, <1>2, <2>1, ChainPush
  <2> HIDE DEF d
  <2>3. d \in Chains /\ Chained(d, live', o) /\ d.thead = links.thead
    BY <1>1, <2>2 DEF Pushed
  <2>4. links' = [d EXCEPT !.head = o]
    BY <1>1 DEF AddToGc, d
  <2>5. /\ links' \in Chains /\ links'.head = o /\ links'.thead = links.thead
        /\ links'.next = d.next /\ links'.prev = d.prev
    BY <2>3, <2>4 DEF Chains, ObjectOrNone
  <2>6. Chained(links', live', links'.head)
    BY <2>3, <2>5, ChainSame
  <2>7. Chained(links', {}, links'.thead)
    BY <2>1, <2>5 DEF Chained, Trapless
  <2>8. QED
    BY <1>10, <2>5, <2>6, <2>7 DEF OnChains
<1>12. Typed'
  BY <1>1, <1>2, <1>7, <1>8, <1>11 DEF Inv, Typed
<1>13. Dead'
  <2>1. ASSUME NEW y \in Objects \ live'
        PROVE  ref'[y] = ref[y] /\ fixed'[y] = fixed[y] /\ hnd'[y] = hnd[y]
    <3>1. y # o /\ y # f /\ y # k /\ ref[y] \in Int
      BY <1>1, <1>2, <1>3
    <3>2. In(y, {o}) = 0 /\ In(y, {f}) = 0 /\ In(y, {k}) = 0
      BY <3>1 DEF In
    <3> HIDE DEF k
    <3>3. QED
      BY <1>7, <1>8, <3>1, <3>2
  <2>2. \A y \in Objects \ live' : y \in Objects \ live
    BY <1>1
  <2>3. \A y \in Objects : hnd'[y] # None => Kind[y] = "instance"
    BY <1>4, <1>8 DEF Inv, Dead
  <2>4. QED
    BY <1>1, <2>1, <2>2, <2>3 DEF Inv, Dead
<1>14. Counted'
  <2>1. ASSUME NEW y \in Objects
        PROVE  ref'[y] = Count(y)'
    <3> DEFINE u == In(y, {o})
               v == In(y, {f})
               w == In(y, {k})
    <3>1. /\ u \in Nat /\ v \in Nat /\ w \in Nat /\ ref[y] \in Int /\ ref'[y] \in Int
          /\ ref'[y] = ref[y] + u + v + w
      BY <1>2, <1>7, InSets
    <3>2. Cardinality(Users(fixed', y)) - Cardinality(Users(fixed, y)) = v
      <4>1. Cardinality(Users(fixed', y)) =
              Cardinality(Users(fixed, y)) + v - In(y, {fixed[o]})
        <5>1. Rewired(fixed, o, f, fixed')
          BY <1>1, <1>2, CountPut
        <5>2. QED
          BY <5>1 DEF Rewired
      <4>2. /\ Cardinality(Users(fixed, y)) \in Nat /\ v \in Nat
            /\ In(y, {fixed[o]}) = 0
        BY <1>2, <1>5, UsersAre, InSets DEF In
      <4> HIDE DEF v
      <4>3. QED
        BY <4>1, <4>2
    <3>3. In(y, root') - In(y, root) = u
      BY <1>1, <1>6 DEF In
    <3>4. In(y, Handles') - In(y, Handles) = w
      BY <1>2, <1>9 DEF In
    <3>5. /\ Cardinality(Users(val', y)) - Cardinality(Users(val, y)) = 0
          /\ In(y, {cur'}) - In(y, {cur}) = 0 /\ In(y, InHook') - In(y, InHook) = 0
      BY <1>1, <1>10, UsersAre, InSets
    <3> HIDE DEF u, v, w
    <3>6. ref'[y] - ref[y] = 0 + v + w + u + 0 + 0
      BY <3>1
    <3>7. QED
      BY <3>1, <3>2, <3>3, <3>4, <3>5, <3>6, CountedStep
  <2>2. QED
    BY <2>1 DEF Counted
<1>15. Older'
  <2>1. ASSUME NEW S \in SUBSET Objects, S # {}
        PROVE  \E x \in S : \A y \in S : fixed'[y] # x
    <3>1. CASE o \in S
      BY <1>3, <1>6, <1>8, <3>1
    <3>2. CASE o \notin S
      <4>1. PICK x \in S : \A y \in S : fixed[y] # x
        BY <2>1 DEF Inv, Older
      <4>2. QED
        BY <1>8, <3>2, <4>1
    <3>3. QED
      BY <3>1, <3>2
  <2>2. QED
    BY <2>1 DEF Older
<1>16. QED
  BY <1>10, <1>11, <1>12, <1>13, <1>14, <1>15 DEF Inv

----------------------------------------------------------------------------
(* The invariant holds *)

LEMMA InitInv == Init => Inv
<1> SUFFICES ASSUME Init
             PROVE  Inv
  OBVIOUS
<1>1. /\ live = {} /\ root = {} /\ doomed = {} /\ calls = <<>>
      /\ ref = [o \in Objects |-> 0] /\ mark = [o \in Objects |-> FALSE]
      /\ links = [head |-> None, thead |-> None, next |-> Blank, prev |-> Blank]
      /\ val = Blank /\ fixed = Blank /\ hnd = Blank
      /\ pc = "idle" /\ cur = None
  BY DEF Init
<1>2. Blank \in Pointers /\ (\A o \in Objects : Blank[o] = None) /\ None \notin Objects
  BY ObjectsAssumption DEF Blank, Pointers, ObjectOrNone
<1>3. /\ Pending = {} /\ Released = {} /\ Marking = {} /\ InHook = {} /\ Unlinked = {}
      /\ IsCalls(calls)
  BY <1>1, NoCalls
<1>4. MarkedOnes = {} /\ Moved = {} /\ OnGc = {}
  BY <1>1 DEF MarkedOnes, Moved, OnGc
<1>5. Handles = {}
  BY <1>1, <1>2 DEF Handles
<1>6. ~ MarkPhase /\ ~ LoopPhase
  BY <1>1 DEF MarkPhase, LoopPhase
<1>7. Typed
  BY <1>1, <1>2 DEF Typed, Chains, ObjectOrNone
<1>8. Called /\ Dying /\ Marks /\ Doom /\ Loops
  BY <1>1, <1>3, <1>4, <1>6 DEF Called, Dying, Marks, Doom, Loops, Turn
<1>9. Dead
  BY <1>1, <1>2 DEF Dead
<1>10. Counted
  <2>1. ASSUME NEW p \in Objects
        PROVE  ref[p] = Count(p)
    <3>1. Cardinality(Users(val, p)) = 0 /\ Cardinality(Users(fixed, p)) = 0
      BY <1>1, <1>2, UsersAre
    <3>2. /\ In(p, Handles) = 0 /\ In(p, root) = 0 /\ In(p, {cur}) = 0 /\ In(p, InHook) = 0
      BY <1>1, <1>2, <1>3, <1>5 DEF In
    <3>3. ref[p] = 0
      BY <1>1
    <3>4. QED
      BY <3>1, <3>2, <3>3 DEF Count
  <2>2. QED
    BY <2>1 DEF Counted
<1>11. OnChains
  <2>1. links.head = None /\ links.thead = None
    BY <1>1
  <2>2. QED
    BY <1>4, <2>1 DEF OnChains, Chained, Trapless
<1>12. Older
  BY <1>1, <1>2 DEF Older
<1>13. QED
  BY <1>7, <1>8, <1>9, <1>10, <1>11, <1>12 DEF Inv

LEMMA Stutter ==
  ASSUME Inv, UNCHANGED vars
  PROVE  Inv'
<1>1. UNCHANGED <<live, ref, mark, links, val, fixed, hnd, root, pc, cur, doomed, calls>>
  BY DEF vars, counts, fields, loop
<1>2. Pending' = Pending
  BY <1>1 DEF Pending, CallsOf
<1>3. /\ Released' = Released /\ Marking' = Marking /\ InHook' = InHook
      /\ Unlinked' = Unlinked
  BY <1>2 DEF Released, Marking, InHook, Unlinked, ReleasedBy, MarkedBy, HookedBy, UnlinkedBy
<1>4. MarkedOnes' = MarkedOnes /\ Moved' = Moved /\ OnGc' = OnGc
  BY <1>1, <1>3 DEF MarkedOnes, Moved, OnGc
<1>5. Handles' = Handles /\ (MarkPhase' <=> MarkPhase) /\ (LoopPhase' <=> LoopPhase)
  BY <1>1 DEF Handles, MarkPhase, LoopPhase
<1>6. Reachable' = Reachable
  BY <1>1, <1>5 DEF Reachable, Reached
<1>7. Typed' /\ Dead' /\ Older'
  BY <1>1 DEF Inv, Typed, Dead, Older
<1>8. Called'
  BY <1>1, <1>2, <1>5 DEF Inv, Called
<1>9. Dying'
  BY <1>1, <1>2, <1>3 DEF Inv, Dying
<1>10. Counted'
  BY <1>1, <1>3, <1>5 DEF Inv, Counted, Count
<1>11. OnChains'
  BY <1>1, <1>4, QuietStep
<1>12. Marks'
  BY <1>1, <1>2, <1>3, <1>4, <1>5 DEF Inv, Marks
<1>13. Doom'
  BY <1>1, <1>4, <1>6 DEF Inv, Doom
<1>14. Loops'
  <2>1. \A P : Passed(P)' <=> Passed(P)
    BY <1>1, <1>3, <1>4 DEF Passed
  <2>2. Turn'
    BY <1>1, <1>2 DEF Inv, Loops, Turn
  <2>3. QED
    BY <1>1, <1>4, <1>5, <2>1, <2>2 DEF Inv, Loops
<1>15. QED
  BY <1>7, <1>8, <1>9, <1>10, <1>11, <1>12, <1>13, <1>14 DEF Inv

LEMMA NextInv == Inv /\ [Next]_vars => Inv'
<1> SUFFICES ASSUME Inv, [Next]_vars
             PROVE  Inv'
  OBVIOUS
<1>1. CASE UNCHANGED vars
  BY <1>1, Stutter
<1>2. CASE Program
  <2>1. ASSUME NEW o \in Objects, NEW x \in ObjectOrNone, New(o, x)
        PROVE  Inv'
    BY <2>1, NewStep
  <2>2. ASSUME NEW o \in Objects, NEW x \in ObjectOrNone, Store(o, x)
        PROVE  Inv'
    BY <2>2, StoreStep
  <2>3. ASSUME NEW o \in Objects, Push(o)
        PROVE  Inv'
    BY <2>3, PushStep
  <2>4. ASSUME NEW o \in Objects, Pop(o)
        PROVE  Inv'
    BY <2>4, PopRootStep DEF Pop, Idle
  <2>5. QED
    BY <1>2, <2>1, <2>2, <2>3, <2>4, CollectGarbageStep, ResurrectUnreachableStep, CloseStep
       DEF Program
<1>3. CASE Continue
  <2>1. ASSUME NEW o \in Objects, RunMark(o)
        PROVE  Inv'
    BY <2>1, RunMarkStep
  <2>2. ASSUME NEW o \in Objects, EmptyStack(o)
        PROVE  Inv'
    BY <2>2, PopRootStep DEF EmptyStack
  <2>3. ASSUME NEW o \in Objects, EmptyHandles(o)
        PROVE  Inv'
    BY <2>3, EmptyHandlesStep
  <2>4. CASE DropVal \/ DropFixed \/ RunHook \/ EndHook \/ Unlink \/ Free
    BY <2>4, DropValStep, DropFixedStep, RunHookStep, EndHookStep, UnlinkStep, FreeStep
  <2>5. CASE MarkFixed \/ MarkVal \/ MoveMarked \/ EndTurn
    BY <2>5, MarkFixedStep, MarkValStep, MoveMarkedStep, EndTurnStep
  <2>6. CASE BeginSweep \/ Sweep \/ CollectEnd \/ Resurrect \/ BeginClose \/ CloseEnd
    BY <2>6, BeginSweepStep, SweepStep, CollectEndStep, ResurrectStep, BeginCloseStep,
       CloseEndStep
  <2>7. QED
    BY <1>3, <2>1, <2>2, <2>3, <2>4, <2>5, <2>6 DEF Continue
<1>4. QED
  BY <1>1, <1>2, <1>3 DEF Next

\* At every statement of a cascade of releases, of a collection and of the
\* closing of a VM, the counts are the references, the two chains are linked and
\* hold what is allocated, marked objects have marked what they refer to, and the
\* loop of the collector has finalized what it has passed.
THEOREM HeapInvariant == Spec => []Inv
<1>1. QED
  BY InitInv, NextInv, PTL DEF Spec

\* A reference count is never off: not by a cascade of releases, by hooks that
\* give handles back in the middle of one, nor by the turns of the collector.
THEOREM HeapCountsExact == Spec => []CountsExact
<1>1. Inv => CountsExact
  <2> SUFFICES ASSUME Inv
               PROVE  CountsExact
    OBVIOUS
  <2>1. PICK n \in Nat : Len(calls) = n
    BY DEF Inv, Called, IsCalls
  <2>2. DOMAIN calls = 1 .. n /\ Pending = {calls[k] : k \in 1 .. n}
    BY <2>1 DEF Inv, Called, IsCalls, Pending, CallsOf
  <2>3. \A j, k \in DOMAIN calls : calls[j].obj = calls[k].obj => j = k
    BY <2>1, <2>2 DEF Inv, Called, IsCalls, Apart
  <2>4. ASSUME NEW p \in Objects
        PROVE  ref[p] = References(p)
    <3>1. live \subseteq Objects /\ None # p
      BY ObjectsAssumption DEF Inv, Typed
    <3>2. \A o \in Objects \ live : val[o] # p /\ fixed[o] # p /\ hnd[o] # p
      BY <3>1 DEF Inv, Dead
    <3>3. /\ {o \in live : val[o] = p} = Users(val, p)
          /\ {o \in live : fixed[o] = p} = Users(fixed, p)
      BY <3>1, <3>2 DEF Users
    <3>4. p \in Handles <=> \E o \in live : hnd[o] = p
      BY <3>1, <3>2, HandlesAre DEF Inv, Typed
    <3>5. Hooked(p) <=> p \in InHook
      <4>1. \A f \in Pending : StepOf(f) = "unhook" => f.do = "release"
        BY CallsAre, StepFacts DEF Inv, Called, Pending
      <4>2. p \in InHook <=> \E k \in 1 .. n : calls[k].obj = p /\ StepOf(calls[k]) = "unhook"
        BY <2>2 DEF InHook, HookedBy
      <4>3. QED
        BY <2>2, <4>1, <4>2 DEF Hooked, StepOf
    <3>6. ref[p] = Count(p)
      BY DEF Inv, Counted
    <3>7. /\ In(p, Handles) = IF \E o \in live : hnd[o] = p THEN 1 ELSE 0
          /\ In(p, root) = IF p \in root THEN 1 ELSE 0
          /\ In(p, {cur}) = IF p = cur THEN 1 ELSE 0
          /\ In(p, InHook) = IF Hooked(p) THEN 1 ELSE 0
      BY <3>4, <3>5 DEF In
    <3>8. Count(p) = References(p)
      BY <3>3, <3>7 DEF Count, References
    <3>9. QED
      BY <3>6, <3>8
  <2>5. \A o \in Objects \ live : ref[o] = 0
    BY DEF Inv, Dead
  <2>6. QED
    BY <2>3, <2>4, <2>5 DEF CountsExact
<1>2. QED
  BY <1>1, HeapInvariant, PTL

\* Between calls, each allocated object is on the chain that its mark tells, and
\* both chains are linked both ways.
THEOREM HeapChainsSound == Spec => []ChainsSound
<1>1. Inv => ChainsSound
  <2> SUFFICES ASSUME Inv, calls = <<>>
               PROVE  LET gc == Chain(links, links.head)
                          marked == Chain(links, links.thead)
                      IN /\ gc \intersect marked = {}
                         /\ gc \union marked = live
                         /\ \A o \in live : mark[o] <=> o \in marked
                         /\ \A o, p \in live : links.next[o] = p <=> links.prev[p] = o
                         /\ \A o \in live :
                              links.prev[o] = None <=> o \in {links.head, links.thead}
    BY DEF ChainsSound
  <2>1. Moved = MarkedOnes /\ OnGc = live \ Moved
    BY NoCalls DEF Moved, OnGc
  <2>2. live \subseteq Objects /\ MarkedOnes \subseteq live /\ None \notin Objects
    BY ObjectsAssumption DEF Inv, Typed, Dead, MarkedOnes
  <2>3. /\ Chained(links, OnGc, links.head) /\ OnGc \subseteq Objects
        /\ Chained(links, Moved, links.thead) /\ Moved \subseteq Objects
    BY <2>1, <2>2 DEF Inv, OnChains
  <2>4. Chain(links, links.head) = OnGc /\ Chain(links, links.thead) = Moved
    BY <2>3, ChainIs
  <2>5. \A o \in live : mark[o] <=> o \in Moved
    BY <2>1, <2>2 DEF MarkedOnes
  <2>6. \A o, p \in live : links.next[o] = p <=> links.prev[p] = o
    <3>1. ASSUME NEW o \in live, NEW p \in live
          PROVE  links.next[o] = p <=> links.prev[p] = o
      <4>1. CASE o \in OnGc /\ p \in OnGc
        BY <2>3, <4>1 DEF Chained
      <4>2. CASE o \in Moved /\ p \in Moved
        BY <2>3, <4>2 DEF Chained
      <4>3. CASE (o \in OnGc /\ p \in Moved) \/ (o \in Moved /\ p \in OnGc)
        BY <2>1, <2>2, <2>3, <4>3 DEF Chained
      <4>4. QED
        BY <2>1, <4>1, <4>2, <4>3
    <3>2. QED
      BY <3>1
  <2>7. \A o \in live : links.prev[o] = None <=> o \in {links.head, links.thead}
    BY <2>1, <2>2, <2>3 DEF Chained
  <2>8. QED
    BY <2>1, <2>2, <2>4, <2>5, <2>6, <2>7
<1>2. QED
  BY <1>1, HeapInvariant, PTL

----------------------------------------------------------------------------
(* What is not released *)

\* What can be reached is referred to.
LEMMA ReachableHeld ==
  ASSUME Inv
  PROVE  \A p \in Reachable : IsHeld(p)
<1> DEFINE T == {p \in Objects : IsHeld(p)} \union {None}
<1>1. /\ val \in Pointers /\ fixed \in Pointers
      /\ root \subseteq Objects /\ Handles \subseteq Objects /\ None \notin Objects
  BY HandlesAre, ObjectsAssumption DEF Inv, Typed
<1>2. root \union Handles \subseteq T
  BY <1>1 DEF IsHeld
<1>3. \A q \in T \ {None} : val[q] \in T /\ fixed[q] \in T
  BY <1>1 DEF IsHeld, Pointers, ObjectOrNone
<1>4. T \in SUBSET ObjectOrNone
  BY DEF ObjectOrNone
<1> HIDE DEF T
<1>5. Reachable \subseteq T
  BY <1>2, <1>3, <1>4, ReachedLeast DEF Reachable
<1>6. Reachable \subseteq Objects
  BY DEF Reachable, Reached
<1>7. QED
  BY <1>1, <1>5, <1>6 DEF T

\* Neither a release nor a turn of the loop is of an object that can be reached.
LEMMA Unreached ==
  Inv => \A f \in Pending : f.do \in {"turn", "release"} => f.obj \notin Reachable
<1> SUFFICES ASSUME Inv, NEW f \in Pending, f.do \in {"turn", "release"}
             PROVE  f.obj \notin Reachable
  OBVIOUS
<1>1. CASE f.do = "release"
  <2>1. ~ IsHeld(f.obj)
    BY <1>1, NoRefs DEF Inv, Released, ReleasedBy
  <2>2. QED
    BY <2>1, ReachableHeld
<1>2. CASE f.do = "turn"
  <2>1. LoopPhase /\ f.obj = cur /\ f.obj \in Objects /\ ~ MarkPhase
    BY <1>2, CallsAre DEF Inv, Called, Pending, CallRec, LoopPhase, MarkPhase
  <2>2. cur \in OnGc /\ cur \notin MarkedOnes
    BY <2>1, NoMarking, ObjectsAssumption DEF Inv, Loops
  <2>3. root \union Handles \subseteq MarkedOnes
    BY <2>1 DEF Inv, Marks, Loops, LoopPhase
  <2>4. \A o \in MarkedOnes : /\ fixed[o] \in MarkedOnes \union {None}
                              /\ val[o] \in MarkedOnes \union {None}
    BY <2>1, NoMarking DEF Inv
  <2>5. MarkedOnes \union {None} \in SUBSET ObjectOrNone
    BY DEF MarkedOnes, ObjectOrNone
  <2>6. root \union Handles \subseteq MarkedOnes \union {None}
    BY <2>3
  <2>7. \A q \in (MarkedOnes \union {None}) \ {None} :
          val[q] \in MarkedOnes \union {None} /\ fixed[q] \in MarkedOnes \union {None}
    BY <2>4
  <2>8. Reachable \subseteq MarkedOnes \union {None}
    BY <2>5, <2>6, <2>7, ReachedLeast DEF Reachable
  <2>9. QED
    BY <2>1, <2>2, <2>8, ObjectsAssumption
<1>3. QED
  BY <1>1, <1>2

\* The call that advances is still in progress after the statement.
LEMMA TopStays ==
  ASSUME Inv, NEW s \in {"val", "fixed"}, At(s),
         NEW g, NEW p, calls' = Advanced \o Release(g, p)
  PROVE  \E h \in Pending' : h.do \in {"turn", "release"} /\ h.obj = Top.obj
<1>1. PICK n \in Nat \ {0} : Len(calls) = n
  BY TopIs, TopFacts DEF Inv, Called
<1>2. /\ calls # <<>> /\ StepOf(Top) = s /\ Top \in CallRec /\ calls \in Seq(CallRec)
      /\ Top.at \in 1 .. Len(Steps(Top)) /\ Top = calls[n] /\ Top.at \in Nat
  BY <1>1, TopFacts DEF Inv, Called, IsCalls, Top, CallRec
<1>3. Top.do \in {"turn", "release"} /\ Top.at < Len(Steps(Top))
  BY <1>2, StepFacts
<1>4. /\ NextOf(Top) \in CallRec
      /\ NextOf(Top).do = Top.do /\ NextOf(Top).obj = Top.obj
  BY <1>2, <1>3, NextFacts
<1>5. Advanced = [calls EXCEPT ![n] = NextOf(Top)]
  BY <1>1, <1>2 DEF Advanced, NextOf
<1>6. Advanced \in Seq(CallRec) /\ Len(Advanced) = n /\ Advanced[n] = NextOf(Top)
  BY <1>1, <1>2, <1>4, <1>5
<1>7. PICK r : r = Release(g, p) /\ (r = <<>> \/ r = <<Call("release", p)>>)
  BY DEF Release
<1>8. n \in 1 .. Len(calls') /\ calls'[n] = NextOf(Top)
  BY <1>6, <1>7
<1>9. NextOf(Top) \in Pending'
  BY <1>8 DEF Pending, CallsOf
<1>10. QED
  BY <1>3, <1>4, <1>9

LEMMA ReachedLive == Inv => Reachable \subseteq live
  BY ReachableLive DEF Inv

\* A step of a release, of the collector or of the closing of the VM changes no
\* field but those of objects that cannot be reached, and frees none that can.
THEOREM HeapReachableKept == Spec => ReachableKept
<1>1. Inv /\ Inv' /\ [Next]_vars =>
        [~ Idle => \A o \in Reachable' :
           o \in live' /\ val'[o] = val[o] /\ fixed'[o] = fixed[o]]_vars
  <2> SUFFICES ASSUME Inv, Inv', Next, ~ Idle, NEW o \in Reachable'
               PROVE  o \in live' /\ val'[o] = val[o] /\ fixed'[o] = fixed[o]
    OBVIOUS
  <2>1. Continue
    BY DEF Next, Program, New, Store, Push, Pop, CollectGarbage, ResurrectUnreachable, Close
  <2>2. o \in live'
    <3>1. (Inv => Reachable \subseteq live)'
      BY ReachedLive, PTL
    <3>2. QED
      BY <3>1
  <2>3. \A h \in Pending' : h.do \in {"turn", "release"} => h.obj # o
    <3>1. (Inv => \A f \in Pending : f.do \in {"turn", "release"} => f.obj \notin Reachable)'
      BY Unreached, PTL
    <3>2. QED
      BY <3>1
  <2>4. CASE DropVal
    <3>1. /\ At("val") /\ calls' = Advanced \o Release(ref, val[Top.obj])
          /\ val' = [val EXCEPT ![Top.obj] = None] /\ fixed' = fixed
      BY <2>4 DEF DropVal
    <3>2. Top.obj # o
      BY <2>3, <3>1, TopStays
    <3>3. QED
      BY <2>2, <3>1, <3>2 DEF Inv, Typed, Pointers
  <2>5. CASE DropFixed
    <3>1. /\ At("fixed") /\ calls' = Advanced \o Release(ref, fixed[Top.obj])
          /\ fixed' = [fixed EXCEPT ![Top.obj] = None] /\ val' = val
      BY <2>5 DEF DropFixed
    <3>2. Top.obj # o
      BY <2>3, <3>1, TopStays
    <3>3. QED
      BY <2>2, <3>1, <3>2 DEF Inv, Typed, Pointers
  <2>6. CASE ~ DropVal /\ ~ DropFixed
    <3>1. val' = val /\ fixed' = fixed
      BY <2>1, <2>6 DEF Continue, RunHook, EndHook, Unlink, Free, MarkFixed, MarkVal,
         MoveMarked, EndTurn, RunMark, EmptyStack, PopRoot, EmptyHandles, BeginSweep, Sweep,
         CollectEnd, Resurrect, BeginClose, BeginLoop, CloseEnd, fields
    <3>2. QED
      BY <2>2, <3>1
  <2>7. QED
    BY <2>4, <2>5, <2>6
<1>2. QED
  BY <1>1, HeapInvariant, PTL DEF Spec, ReachableKept

\* A closed VM has nothing left.
Closed == pc = "closed" => live = {} /\ calls = <<>>

LEMMA ClosedStays == Inv /\ Closed /\ [Next]_vars => Closed'
<1> SUFFICES ASSUME Inv, Closed, [Next]_vars, pc' = "closed"
             PROVE  live' = {} /\ calls' = <<>>
  BY DEF Closed
<1>1. CASE CloseEnd
  <2>1. OnGc = {} /\ live = MarkedOnes
    BY <1>1, AllSwept DEF CloseEnd, LoopPhase
  <2>2. MarkedOnes = {}
    BY <1>1 DEF Inv, Marks, CloseEnd, MarkPhase
  <2>3. QED
    BY <1>1, <2>1, <2>2 DEF CloseEnd, counts
<1>2. CASE UNCHANGED vars
  BY <1>2 DEF Closed, vars, counts, loop
<1>3. CASE Next /\ ~ CloseEnd
  <2>1. pc = "closed" /\ calls = <<>>
    <3>1. pc' = "closed" => pc' = pc
      BY <1>3, Zenon DEF Next, Program, Continue, New, Store, Push, Pop, PopRoot, CollectGarbage,
         ResurrectUnreachable, Close, DropVal, DropFixed, RunHook, EndHook, Unlink, Free,
         MarkFixed, MarkVal, MoveMarked, EndTurn, RunMark, EmptyStack, EmptyHandles,
         BeginSweep, Sweep, CollectEnd, Resurrect, BeginClose, BeginLoop, loop
    <3>2. pc = "closed"
      BY <3>1
    <3>3. QED
      BY <3>2, Zenon DEF Closed
  <2>2. ~ Next
    BY <1>3, <2>1 DEF Next, Program, Continue, New, Store, Push, Pop, Idle, CollectGarbage,
       ResurrectUnreachable, Close, At, DropVal, DropFixed, RunHook, EndHook, Unlink, Free,
       MarkFixed, MarkVal, MoveMarked, EndTurn, RunMark, EmptyStack, EmptyHandles,
       BeginSweep, Sweep, CollectEnd, Resurrect, BeginClose, CloseEnd
  <2>3. QED
    BY <1>3, <2>2
<1>4. QED
  BY <1>1, <1>2, <1>3

\* A collection destroys all that was unreachable when it began, and the closing
\* of a VM all there is, whatever refers to what.
THEOREM HeapGarbageGone == Spec => GarbageGone
<1>1. Init => Closed
  BY DEF Init, Closed
<1>2. Spec => []Closed
  BY <1>1, ClosedStays, HeapInvariant, PTL DEF Spec
<1>3. Inv /\ Closed' /\ [Next]_vars =>
        [/\ pc = "sweep" /\ pc' = "idle" => doomed \intersect live' = {}
         /\ pc' = "closed" => live' = {}]_vars
  <2> SUFFICES ASSUME Inv, Closed', Next
               PROVE  /\ pc = "sweep" /\ pc' = "idle" => doomed \intersect live' = {}
                      /\ pc' = "closed" => live' = {}
    OBVIOUS
  <2>1. ASSUME pc = "sweep", pc' = "idle"
        PROVE  doomed \intersect live' = {}
    <3>1. CollectEnd
      BY <2>1 DEF Next, Program, Continue, New, Store, Push, Pop, Idle, PopRoot,
         CollectGarbage, ResurrectUnreachable, Close, DropVal, DropFixed, RunHook, EndHook,
         Unlink, Free, MarkFixed, MarkVal, MoveMarked, EndTurn, RunMark, EmptyStack,
         EmptyHandles, BeginSweep, Sweep, Resurrect, BeginClose, BeginLoop, CloseEnd, loop
    <3>2. live = MarkedOnes
      BY <3>1, AllSwept DEF CollectEnd, LoopPhase
    <3>3. QED
      BY <2>1, <3>1, <3>2 DEF Inv, Doom, CollectEnd, counts
  <2>2. QED
    BY <2>1 DEF Closed
<1>4. QED
  BY <1>2, <1>3, HeapInvariant, PTL DEF Spec, GarbageGone

=============================================================================
