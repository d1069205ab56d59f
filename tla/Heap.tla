-------------------------------- MODULE Heap --------------------------------
(***************************************************************************)
(* Ownership of the collectable objects (squirrel/sqobject.h, sqobject.cpp,*)
(* sqclass.h, sqclosure.h, sqtable.h, sqstate.cpp): reference counts       *)
(* release what nothing refers to, at once and in cascade; cycles are      *)
(* released by the collector, which moves what it can reach to a second    *)
(* chain, finalizes what is left on the first one and then releases it.    *)
(*                                                                         *)
(* live are the allocated objects; ref their counts and mark the bit       *)
(* MARK_FLAG of these.  links are the chains: next and prev of each        *)
(* object, head of _gc_chain, thead of the collector's tchain.  An object  *)
(* refers to another by val (what the program can change: a table's or     *)
(* instance's value, a closure's outer value) and by fixed (set once:      *)
(* delegate, class, function); hnd is the object of which its C++ part     *)
(* owns a handle, which its release hook gives back.  A handle table node  *)
(* counts one reference, however many handles it stands for.               *)
(*                                                                         *)
(* root are the references of the root VM's stack.  calls are the C++      *)
(* calls in progress, each a loop turn of the collector or a call of       *)
(* Release or Mark and the statement it is at: a release releases what the *)
(* object referred to, and so on.  Meanwhile the program waits.            *)
(***************************************************************************)
EXTENDS Integers, Sequences, FiniteSets

CONSTANTS
  Objects,  \* addresses
  None,     \* the null pointer
  Kind,     \* "table", "closure" or "instance" for each object
  Owns,     \* the object of which an instance's C++ part takes a handle
  HasFixed, \* bound: the objects made with a delegate, a function or a class
  MaxStack  \* bound: references of the stack

ASSUME ObjectsAssumption == IsFiniteSet(Objects) /\ None \notin Objects
ASSUME KindAssumption == Kind \in [Objects -> {"table", "closure", "instance"}]
ASSUME OwnsAssumption ==
  /\ Owns \in [Objects -> Objects \union {None}]
  /\ \A o \in Objects : Owns[o] # None => Kind[o] = "instance"

VARIABLES
  live, ref, mark, links, val, fixed, hnd,
  root,    \* what the stack refers to
  pc,      \* what the VM does when no call is in progress
  cur,     \* t of the loops of CollectGarbage and of ~SQSharedState
  calls,   \* the calls in progress
  doomed   \* history: what was unreachable when the collection began

counts == <<live, ref>>
fields == <<val, fixed, hnd>>
loop == <<root, pc, cur, doomed>>
vars == <<counts, mark, links, fields, loop, calls>>

ObjectOrNone == Objects \union {None}
Blank == [o \in Objects |-> None]

----------------------------------------------------------------------------
(* Chains *)

\* A field of the object o, if there is one, becomes v.
Put(f, o, v) == IF o = None THEN f ELSE [f EXCEPT ![o] = v]

\* AddToChain, with the head that the chain has.
Linked(c, o, head) ==
  [c EXCEPT !.next = [@ EXCEPT ![o] = head],
            !.prev = Put([@ EXCEPT ![o] = None], head, o)]
AddToGc(c, o)     == [Linked(c, o, c.head) EXCEPT !.head = o]
AddToMarked(c, o) == [Linked(c, o, c.thead) EXCEPT !.thead = o]

\* Always called with the head of _gc_chain.
RemoveFromChain_Bug(c, o) ==
  [c EXCEPT !.head = IF c.prev[o] = None THEN c.next[o] ELSE @,
            !.next = [Put(@, c.prev[o], c.next[o]) EXCEPT ![o] = None],
            !.prev = [@ EXCEPT ![o] = None]]

RemoveFromChain(c, o) ==
  [c EXCEPT !.head = IF c.prev[o] = None THEN c.next[o] ELSE @,
            !.next = [Put(@, c.prev[o], c.next[o]) EXCEPT ![o] = None],
            !.prev = [Put(@, c.next[o], c.prev[o]) EXCEPT ![o] = None]]

\* The objects of the chain from o on: the least set that the links lead to.
Chain(c, o) ==
  {p \in Objects : \A S \in SUBSET ObjectOrNone :
     o \in S /\ (\A q \in S \ {None} : c.next[q] \in S) => p \in S}

\* The two chains joined, the unreachable objects first.
Joined(c) ==
  IF c.head = None THEN [c EXCEPT !.head = c.thead, !.thead = None]
  ELSE LET last == CHOOSE o \in Chain(c, c.head) : c.next[o] = None
       IN [c EXCEPT !.next = [@ EXCEPT ![last] = c.thead],
                    !.prev = Put(@, c.thead, last), !.thead = None]

----------------------------------------------------------------------------
(* What the program and the handles can reach *)

\* The objects of _refs_table
Handles == {hnd[o] : o \in Objects} \ {None}

\* What objects with these fields lead to from the set S.
Reached(v, f, S) ==
  {p \in Objects : \A T \in SUBSET ObjectOrNone :
     S \subseteq T /\ (\A q \in T \ {None} : {v[q], f[q]} \subseteq T) => p \in T}

Reachable == Reached(val, fixed, root \union Handles)

----------------------------------------------------------------------------
(* References and calls *)

More(f, o) == IF o = None THEN f ELSE [f EXCEPT ![o] = @ + 1]
Less(f, o) == IF o = None THEN f ELSE [f EXCEPT ![o] = @ - 1]

Call(do, o) == [do |-> do, obj |-> o, at |-> 1]

\* The call that ends a reference to o which the counts f still count: the mark
\* bit is part of the count.
Release(f, o) ==
  IF o # None /\ f[o] = 1 /\ ~mark[o] THEN <<Call("release", o)>> ELSE <<>>

\* The statements of a turn of the collector's loop (Finalize, and the release
\* of the object), of Mark, and of the Release and the destructor of each kind.
\* Finalize of a closure keeps its function.
TurnSteps_Bug(kind) ==
  CASE kind = "table"    -> <<"fixed", "turn">>
    [] kind = "closure"  -> <<"turn">>
    [] kind = "instance" -> <<"fixed", "val", "turn">>

TurnSteps(kind) ==
  CASE kind = "table"    -> <<"val", "fixed", "turn">>
    [] kind = "closure"  -> <<"val", "turn">>
    [] kind = "instance" -> <<"fixed", "val", "turn">>

ReleaseSteps(kind) ==
  CASE kind = "table"    -> <<"fixed", "unlink", "val", "free">>
    [] kind = "closure"  -> <<"val", "fixed", "unlink", "free">>
    [] kind = "instance" -> <<"hook", "unhook", "unlink", "fixed", "val", "free">>

MarkSteps == <<"mark_fixed", "mark_val", "move">>

Steps(f) == CASE f.do = "turn"    -> TurnSteps(Kind[f.obj])
              [] f.do = "release" -> ReleaseSteps(Kind[f.obj])
              [] f.do = "mark"    -> MarkSteps

Top == calls[Len(calls)]
At(step) == calls # <<>> /\ Steps(Top)[Top.at] = step

Advanced == [calls EXCEPT ![Len(calls)].at = @ + 1]
Returned == SubSeq(calls, 1, Len(calls) - 1)

----------------------------------------------------------------------------
(* The statements of the calls, of the object o *)

DropVal ==
  /\ At("val")
  /\ LET o == Top.obj
     IN /\ val' = [val EXCEPT ![o] = None]
        /\ ref' = Less(ref, val[o])
        /\ calls' = Advanced \o Release(ref, val[o])
  /\ UNCHANGED <<live, mark, links, fixed, hnd, loop>>

DropFixed ==
  /\ At("fixed")
  /\ LET o == Top.obj
     IN /\ fixed' = [fixed EXCEPT ![o] = None]
        /\ ref' = Less(ref, fixed[o])
        /\ calls' = Advanced \o Release(ref, fixed[o])
  /\ UNCHANGED <<live, mark, links, val, hnd, loop>>

\* The release hook runs with a reference more and gives the handle back.
RunHook ==
  /\ At("hook")
  /\ LET o == Top.obj
         p == hnd[o]
         last == \A x \in Objects \ {o} : hnd[x] # p
         held == [ref EXCEPT ![o] = @ + 1]
     IN /\ hnd' = [hnd EXCEPT ![o] = None]
        /\ ref' = IF last THEN Less(held, p) ELSE held
        /\ calls' = Advanced \o IF last THEN Release(held, p) ELSE <<>>
  /\ UNCHANGED <<live, mark, links, val, fixed, loop>>

EndHook ==
  /\ At("unhook")
  /\ ref' = [ref EXCEPT ![Top.obj] = @ - 1]
  /\ calls' = Advanced
  /\ UNCHANGED <<live, mark, links, fields, loop>>

Unlink ==
  /\ At("unlink")
  /\ links' = RemoveFromChain(links, Top.obj)
  /\ calls' = Advanced
  /\ UNCHANGED <<counts, mark, fields, loop>>

Free ==
  /\ At("free")
  /\ live' = live \ {Top.obj}
  /\ calls' = Returned
  /\ UNCHANGED <<ref, mark, links, fields, loop>>

\* Mark of what the object refers to, unless it is marked.
MarkNext(o) ==
  IF o = None \/ mark[o]
  THEN calls' = Advanced /\ UNCHANGED mark
  ELSE /\ calls' = Append(Advanced, Call("mark", o))
       /\ mark' = [mark EXCEPT ![o] = TRUE]

MarkFixed ==
  /\ At("mark_fixed")
  /\ MarkNext(fixed[Top.obj])
  /\ UNCHANGED <<counts, links, fields, loop>>

MarkVal ==
  /\ At("mark_val")
  /\ MarkNext(val[Top.obj])
  /\ UNCHANGED <<counts, links, fields, loop>>

\* The object joins the marked chain last.
MoveMarked ==
  /\ At("move")
  /\ links' = AddToMarked(RemoveFromChain(links, Top.obj), Top.obj)
  /\ calls' = Returned
  /\ UNCHANGED <<counts, mark, fields, loop>>

\* The end of a turn: the next object is held before this one is released.
EndTurn_Bug ==
  /\ At("turn")
  /\ LET o == Top.obj
         n == links.next[o]
     IN /\ ref' = Less(ref, o)
        /\ calls' = Returned \o Release(ref, o)
        /\ cur' = n
  /\ UNCHANGED <<live, mark, links, fields, root, pc, doomed>>

\* Restarts from the head instead of going on to the next.
EndTurn_Loop_Bug ==
  /\ At("turn")
  /\ LET o == Top.obj
         n == links.head
     IN /\ ref' = Less(More(ref, n), o)
        /\ calls' = Returned \o Release(More(ref, n), o)
        /\ cur' = n
  /\ UNCHANGED <<live, mark, links, fields, root, pc, doomed>>

EndTurn ==
  /\ At("turn")
  /\ LET o == Top.obj
         n == links.next[o]
     IN /\ ref' = Less(More(ref, n), o)
        /\ calls' = Returned \o Release(ref, o)
        /\ cur' = n
  /\ UNCHANGED <<live, mark, links, fields, root, pc, doomed>>

----------------------------------------------------------------------------
(* The program *)

Idle == pc = "idle" /\ calls = <<>>

\* An object is made and pushed on the stack.
New(o, f) ==
  /\ Idle /\ o \notin live /\ Cardinality(root) < MaxStack
  /\ f \in (IF o \in HasFixed THEN Reachable ELSE {}) \union {None}
  /\ LET p == IF Owns[o] \in Reachable THEN Owns[o] ELSE None
         one == More([ref EXCEPT ![o] = 1], f)
     IN /\ ref' = IF p \in Handles THEN one ELSE More(one, p)
        /\ fixed' = [fixed EXCEPT ![o] = f]
        /\ hnd' = [hnd EXCEPT ![o] = p]
  /\ live' = live \union {o}
  /\ links' = AddToGc(links, o)
  /\ root' = root \union {o}
  /\ UNCHANGED <<mark, val, pc, cur, calls, doomed>>

\* o.val = x: the new value is referred to before the old one is released.
Store(o, x) ==
  /\ Idle /\ o \in Reachable
  /\ x \in Reachable \union {None} /\ x # val[o]
  /\ val' = [val EXCEPT ![o] = x]
  /\ ref' = Less(More(ref, x), val[o])
  /\ calls' = Release(More(ref, x), val[o])
  /\ UNCHANGED <<live, mark, links, fixed, hnd, loop>>

Push(o) ==
  /\ Idle /\ Cardinality(root) < MaxStack
  /\ o \in Reachable \ root
  /\ ref' = More(ref, o)
  /\ root' = root \union {o}
  /\ UNCHANGED <<live, mark, links, fields, pc, cur, calls, doomed>>

PopRoot(o) ==
  /\ o \in root
  /\ root' = root \ {o}
  /\ ref' = Less(ref, o)
  /\ calls' = Release(ref, o)
  /\ UNCHANGED <<live, mark, links, fields, pc, cur, doomed>>

Pop(o) == Idle /\ PopRoot(o)

----------------------------------------------------------------------------
(* The collector *)

CollectGarbage ==
  /\ Idle
  /\ pc' = "mark"
  /\ doomed' = live \ Reachable
  /\ UNCHANGED <<counts, mark, links, fields, root, cur, calls>>

\* RunMark, one object of the stack or of the handle table after the other.
RunMark(o) ==
  /\ pc \in {"mark", "search"} /\ calls = <<>>
  /\ o \in root \union Handles /\ ~mark[o]
  /\ mark' = [mark EXCEPT ![o] = TRUE]
  /\ calls' = <<Call("mark", o)>>
  /\ UNCHANGED <<counts, links, fields, loop>>

Marked_Bug == calls = <<>> /\ \A o \in root : mark[o]

Marked == calls = <<>> /\ \A o \in root \union Handles : mark[o]

\* The loop takes a reference of the first object that it will finalize.
BeginLoop ==
  /\ ref' = More(ref, links.head)
  /\ cur' = links.head
  /\ UNCHANGED <<live, mark, links, fields, root, calls, doomed>>

BeginSweep == pc = "mark" /\ Marked /\ pc' = "sweep" /\ BeginLoop

Sweep ==
  /\ pc \in {"sweep", "close"} /\ calls = <<>> /\ cur # None
  /\ calls' = <<Call("turn", cur)>>
  /\ UNCHANGED <<counts, mark, links, fields, loop>>

UnMark(S) == [o \in Objects |-> mark[o] /\ o \notin S]

\* After the loop the marked chain becomes the chain.
CollectEnd ==
  /\ pc = "sweep" /\ calls = <<>> /\ cur = None
  /\ pc' = "idle"
  /\ mark' = UnMark(Chain(links, links.thead))
  /\ links' = [links EXCEPT !.head = links.thead, !.thead = None]
  /\ doomed' = {}
  /\ UNCHANGED <<counts, fields, root, cur, calls>>

ResurrectUnreachable ==
  /\ Idle
  /\ pc' = "search"
  /\ UNCHANGED <<counts, mark, links, fields, root, cur, calls, doomed>>

\* Every unreachable object is pushed on the stack (in one array, in the code).
Resurrect ==
  /\ pc = "search" /\ Marked
  /\ pc' = "idle"
  /\ LET found == Chain(links, links.head)
     IN /\ ref' = [o \in Objects |-> IF o \in found THEN ref[o] + 1 ELSE ref[o]]
        /\ root' = root \union found
  /\ links' = Joined(links)
  /\ mark' = UnMark(Chain(Joined(links), Joined(links).head))
  /\ UNCHANGED <<live, fields, cur, calls, doomed>>

----------------------------------------------------------------------------
(* The end of the VM: ~SQSharedState *)

Close ==
  /\ Idle
  /\ pc' = "empty"
  /\ UNCHANGED <<counts, mark, links, fields, root, cur, calls, doomed>>

EmptyStack(o) == pc = "empty" /\ calls = <<>> /\ PopRoot(o)

\* RefTable::Finalize: a hook finds no handle to give back afterwards.
EmptyHandles(p) ==
  /\ pc = "empty" /\ calls = <<>> /\ root = {} /\ p \in Handles
  /\ hnd' = [o \in Objects |-> IF hnd[o] = p THEN None ELSE hnd[o]]
  /\ ref' = Less(ref, p)
  /\ calls' = Release(ref, p)
  /\ UNCHANGED <<live, mark, links, val, fixed, loop>>

BeginClose ==
  /\ pc = "empty" /\ calls = <<>> /\ root = {} /\ Handles = {}
  /\ pc' = "close" /\ BeginLoop

CloseEnd ==
  /\ pc = "close" /\ calls = <<>> /\ cur = None
  /\ pc' = "closed"
  /\ UNCHANGED <<counts, mark, links, fields, root, cur, calls, doomed>>

----------------------------------------------------------------------------

Program ==
  \/ \E o \in Objects, x \in ObjectOrNone : New(o, x) \/ Store(o, x)
  \/ \E o \in Objects : Push(o) \/ Pop(o)
  \/ CollectGarbage \/ ResurrectUnreachable \/ Close

\* What runs to its end once it has begun.
Continue ==
  \/ DropVal \/ DropFixed \/ RunHook \/ EndHook \/ Unlink \/ Free
  \/ MarkFixed \/ MarkVal \/ MoveMarked \/ EndTurn
  \/ \E o \in Objects : RunMark(o) \/ EmptyStack(o) \/ EmptyHandles(o)
  \/ BeginSweep \/ Sweep \/ CollectEnd \/ Resurrect
  \/ BeginClose \/ CloseEnd

Init ==
  /\ live = {} /\ root = {} /\ doomed = {} /\ calls = <<>>
  /\ ref = [o \in Objects |-> 0] /\ mark = [o \in Objects |-> FALSE]
  /\ links = [head |-> None, thead |-> None, next |-> Blank, prev |-> Blank]
  /\ val = Blank /\ fixed = Blank /\ hnd = Blank
  /\ pc = "idle" /\ cur = None

Next == Program \/ Continue

Spec == Init /\ [][Next]_vars

\* Releases, and the loops of the collector and of the destructor, do not pause.
FairSpec == Spec /\ WF_vars(Continue)

----------------------------------------------------------------------------
(* Properties *)

Resting == calls = <<>> /\ pc \in {"idle", "closed"}

\* The hook of o is running.
Hooked(o) ==
  \E k \in DOMAIN calls : /\ calls[k].do = "release" /\ calls[k].obj = o
                          /\ Steps(calls[k])[calls[k].at] = "unhook"

\* References to p: from live objects, the handle table, the stack, the loop,
\* and the call of its hook.
References(p) ==
    Cardinality({o \in live : val[o] = p})
  + Cardinality({o \in live : fixed[o] = p})
  + (IF \E o \in live : hnd[o] = p THEN 1 ELSE 0)
  + (IF p \in root THEN 1 ELSE 0) + (IF p = cur THEN 1 ELSE 0)
  + (IF Hooked(p) THEN 1 ELSE 0)

\* The count of every object is the number of its references, at every statement
\* of a cascade of releases, of hooks that give handles back in the middle of
\* one and of the turns of the collector; so nothing refers to a destroyed
\* object, and no object is destroyed twice.
CountsExact ==
  /\ \A o \in Objects : ref[o] = References(o)
  /\ \A o \in Objects \ live : ref[o] = 0
  /\ \A j, k \in DOMAIN calls : calls[j].obj = calls[k].obj => j = k

\* Between calls, every live object is on one chain, which is linked both ways:
\* on the marked one exactly while it is marked.
ChainsSound ==
  LET gc == Chain(links, links.head)
      marked == Chain(links, links.thead)
  IN calls = <<>> =>
       /\ gc \intersect marked = {}
       /\ gc \union marked = live
       /\ \A o \in live : mark[o] <=> o \in marked
       /\ \A o, p \in live : links.next[o] = p <=> links.prev[p] = o
       /\ \A o \in live : links.prev[o] = None <=> o \in {links.head, links.thead}

\* Only the program changes what it can reach: a release, a turn of the
\* collector or the closing of the VM neither finalizes nor destroys it.
ReachableKept ==
  [][ ~Idle => \A o \in Reachable' :
        o \in live' /\ val'[o] = val[o] /\ fixed'[o] = fixed[o]]_vars

\* When a collection ends, all that was unreachable when it began is destroyed:
\* the cycles, and what only they referred to.  The closing of the VM leaves
\* nothing ("assert(_gc_chain==NULL); //just to proove a theory").
GarbageGone ==
  [][ /\ pc = "sweep" /\ pc' = "idle" => doomed \intersect live' = {}
      /\ pc' = "closed" => live' = {} ]_vars

\* Every release, every collection and the closing of a VM end.
CollectorEnds == ~Resting ~> Resting

============================================================================
