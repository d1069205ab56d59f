------------------------------ MODULE RefTable ------------------------------
(***************************************************************************)
(* RefTable (squirrel/sqstate.cpp, sqstate.h): the objects the embedding   *)
(* program holds handles of, with their counts.  One block of memory holds *)
(* the buckets and the nodes; free nodes form a list; the block doubles    *)
(* when a node is needed and none is free.                                 *)
(*                                                                         *)
(* A table is a record: size is _numofslots; buckets, obj, refs and next   *)
(* are the block (NULL for the null pointer, NoObject for the null object  *)
(* of a free node); freelist and slotused are the members of these names.  *)
(*                                                                         *)
(* A handle that is given back may be the last reference of its object:    *)
(* the object then dies at the end of Release, when the table is whole     *)
(* again, and its destructor may call the table.  Calls of destructors are *)
(* therefore calls like any other.                                         *)
(***************************************************************************)
EXTENDS Links, FiniteSets

CONSTANTS
  Objects,    \* reference counted objects
  NoObject,   \* the null object
  NoAnswer,   \* the result of a call that has none
  HashObj,    \* a function from Objects to Nat
  MaxRefs,    \* bound: a function, the handles of each object
  MaxSlots    \* bound: size of the block

ASSUME ObjectsAssumption == NoObject \notin Objects
ASSUME HashAssumption == HashObj \in [Objects -> Nat]
ASSUME BoundsAssumption == MaxRefs \in [Objects -> Nat] /\ MaxSlots \in Nat

VARIABLES
  rt,       \* the table
  answer    \* what the last call returned

vars == <<rt, answer>>

Slots(t) == 0 .. t.size - 1

InUse(t) == {i \in Slots(t) : t.obj[i] # NoObject}

\* HashObj(obj) & (_numofslots - 1), for a size that is a power of two
MainPos(t, o) == HashObj[o] % t.size

AllocNodes(size) ==
  [size |-> size, slotused |-> 0, freelist |-> 0,
   buckets |-> [i \in 0 .. size - 1 |-> NULL],
   obj     |-> [i \in 0 .. size - 1 |-> NoObject],
   refs    |-> [i \in 0 .. size - 1 |-> 0],
   next    |-> [i \in 0 .. size - 1 |-> IF i < size - 1 THEN i + 1 ELSE NULL]]

\* The nodes of the list that starts at node i.
Listed(t, i) == Walk(t.next, t.size, i)

\* The nodes of the bucket of object o.
InBucket(t, o) == Listed(t, t.buckets[MainPos(t, o)])

Holders(t, o) == {i \in InBucket(t, o) : t.obj[i] = o}

\* The loop of Get: the node that holds o, or NULL.
Find(t, o) == OneOf(Holders(t, o))

\* prev of Get: the node before i in the bucket of o, or NULL.
Before(t, o, i) == OneOf({j \in InBucket(t, o) : t.next[j] = i})

\* Takes the first free node to the head of the bucket; refs is untouched.
Add(t, mainpos, o) ==
  LET n == t.freelist
  IN  [t EXCEPT !.obj      = [@ EXCEPT ![n] = o],
                !.buckets  = [@ EXCEPT ![mainpos] = n],
                !.freelist = t.next[n],
                !.next     = [@ EXCEPT ![n] = t.buckets[mainpos]],
                !.slotused = @ + 1]

\* The counts start again in the new block.
MoveNode_Bug(t, m, i) ==
  IF t.obj[i] = NoObject THEN m
  ELSE [Add(m, MainPos(m, t.obj[i]), t.obj[i])
          EXCEPT !.refs = [@ EXCEPT ![m.freelist] = 1]]

\* The object of node i and its count go to the new block m.
MoveNode(t, m, i) ==
  IF t.obj[i] = NoObject THEN m
  ELSE [Add(m, MainPos(m, t.obj[i]), t.obj[i])
          EXCEPT !.refs = [@ EXCEPT ![m.freelist] = t.refs[i]]]

\* The new block m after each iteration of the loop of Resize: the objects of
\* the first n nodes and their counts are in it.
Moved(t, m) ==
  LET new[n \in 0 .. t.size] ==
        IF n = 0 THEN m ELSE MoveNode(t, new[n - 1], n - 1)
  IN  new

Resize(t, size) == Moved(t, AllocNodes(size))[t.size]

\* Get(..., add = true): the table in which o has a node
Get(t, o) ==
  IF Find(t, o) # NULL THEN t
  ELSE LET u == IF t.size = t.slotused THEN Resize(t, 2 * t.size) ELSE t
       IN Add(u, MainPos(u, o), o)

\* A node in the middle of its bucket is unlinked like the first one.
Unlink_Bug(t, o, i) ==
  [t EXCEPT !.buckets  = [@ EXCEPT ![MainPos(t, o)] = t.next[i]],
            !.next     = [@ EXCEPT ![i] = t.freelist],
            !.freelist = i,
            !.slotused = @ - 1,
            !.obj      = [@ EXCEPT ![i] = NoObject]]

\* Node i of object o leaves its bucket for the free list.
Unlink(t, o, i) ==
  LET prev == Before(t, o, i)
      u == IF prev # NULL
           THEN [t EXCEPT !.next = [@ EXCEPT ![prev] = t.next[i]]]
           ELSE [t EXCEPT !.buckets = [@ EXCEPT ![MainPos(t, o)] = t.next[i]]]
  IN  [u EXCEPT !.next     = [@ EXCEPT ![i] = t.freelist],
                !.freelist = i,
                !.slotused = @ - 1,
                !.obj      = [@ EXCEPT ![i] = NoObject]]

----------------------------------------------------------------------------
(* The calls of the embedding program *)

Count(t, o) ==
  LET i == Find(t, o) IN IF i = NULL THEN 0 ELSE t.refs[i]

Init == rt = AllocNodes(4) /\ answer = NoAnswer

CountUp(t, o) ==
  [t EXCEPT !.refs[Find(t, o)] = @ + 1]

AddRef(o) ==
  /\ Count(rt, o) < MaxRefs[o]
  /\ LET t == Get(rt, o)
     IN  t.size <= MaxSlots /\ rt' = CountUp(t, o)
  /\ answer' = NoAnswer

GetRefCount(o) == answer' = <<"count", Count(rt, o)>> /\ UNCHANGED rt

\* A program gives back only what it was given (the code asserts it).
Release(o) ==
  /\ Find(rt, o) # NULL
  /\ LET i == Find(rt, o)
         t == [rt EXCEPT !.refs[i] = @ - 1]
         last == t.refs[i] = 0
     IN  /\ rt' = IF last THEN Unlink(t, o, i) ELSE t
         /\ answer' = <<"last", last>>

Next == \E o \in Objects : AddRef(o) \/ GetRefCount(o) \/ Release(o)

Spec == Init /\ [][Next]_vars

----------------------------------------------------------------------------
(* Properties *)

IsRefTable(t) ==
  /\ DOMAIN t = {"size", "buckets", "obj", "refs", "next", "freelist", "slotused"}
  /\ t.size     \in Nat \ {0}
  /\ t.buckets  \in [Slots(t) -> Slots(t) \union {NULL}]
  /\ t.next     \in [Slots(t) -> Slots(t) \union {NULL}]
  /\ t.obj      \in [Slots(t) -> Objects \union {NoObject}]
  /\ t.refs     \in [Slots(t) -> Nat]
  /\ t.freelist \in Slots(t) \union {NULL}
  /\ t.slotused \in Nat

\* Every node is in exactly one list, the free list or the bucket of its
\* object; an object has one node; the count of nodes in use is exact.
OneListEach(t) ==
  /\ Listed(t, t.freelist) = Slots(t) \ InUse(t)
  /\ \A b \in Slots(t) :
        Listed(t, t.buckets[b]) =
          {i \in InUse(t) : MainPos(t, t.obj[i]) = b}
  /\ \A i, j \in InUse(t) : t.obj[i] = t.obj[j] => i = j
  /\ t.slotused = Cardinality(InUse(t))

\* A node counts handles exactly while it is in use (the asserts of Add and of
\* Resize).
CountsInUse(t) == \A i \in Slots(t) : t.refs[i] > 0 <=> i \in InUse(t)

\* Lists end, no two meet, and nothing leads to the first node of a list.
ListsApart(t) ==
  /\ Acyclic(t.next, t.size)
  /\ SingleFile(t.next, t.size)
  /\ t.freelist = NULL \/ NoLinkTo(t.next, t.size, t.freelist)
  /\ \A b \in Slots(t) :
        t.buckets[b] = NULL \/ NoLinkTo(t.next, t.size, t.buckets[b])

\* The inductive invariant.
WholeTable ==
  IsRefTable(rt) /\ ListsApart(rt) /\ OneListEach(rt) /\ CountsInUse(rt)

\* Through any calls, releases in the middle of a bucket and growth included,
\* every node is in exactly one list: the free list, or the bucket of its
\* object.  Free nodes count no handle (the assert of Add), and when none is
\* left all are in use (the asserts of Get and of Resize).
EveryNodeInOneList ==
  /\ OneListEach(rt)
  /\ CountsInUse(rt)
  /\ rt.slotused = rt.size <=> rt.freelist = NULL

Bag == INSTANCE HandleBag WITH bag <- [o \in Objects |-> Count(rt, o)]

\* The table is the bag of the handles taken and not given back: no growth and
\* no release of another object changes a count, and Release answers TRUE for
\* the last handle only.
ImplementsBag == Bag!Spec
============================================================================
