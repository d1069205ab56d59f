----------------------------- MODULE HashNodes -----------------------------
(***************************************************************************)
(* The node array of SQTable (squirrel/sqtable.h, squirrel/sqtable.cpp):   *)
(* a chained hash table whose chains live inside one array of nodes, and   *)
(* whose free nodes are handed out by a pointer that only moves down.      *)
(*                                                                         *)
(* A table is a record                                                     *)
(*   size       number of nodes (_numofnodes_minus_one + 1)                *)
(*   key, val   the key and the value of each node                         *)
(*   next       the index of the next node of the chain, or NULL           *)
(*   firstfree  the index of _firstfree                                    *)
(*   used       _usednodes                                                 *)
(*   id         _classTypeId                                               *)
(* Operators take a table and return a table: the module has no state.     *)
(* An operator named ..._Bug is a wrong variant of the one that follows:   *)
(* no specification uses it; the properties are shown to tell it apart.    *)
(* _classTypeId is an FNV hash of the insert positions and of the key      *)
(* addresses; it is kept here as the sequence that is hashed (<<>> is the  *)
(* id 0), that is, the hash is assumed to have no collision.  An address   *)
(* may serve another string once the first one is gone: Addr need not be   *)
(* injective.                                                              *)
(***************************************************************************)
EXTENDS Links, FiniteSets, Sequences

CONSTANTS
  Keys,         \* the keys of the scripts
  StringKeys,   \* those of them that are strings
  Vals,         \* the values of the scripts
  Null,         \* the script value null
  Free,         \* the key of a free node (OT_FREE_TABLE_SLOT)
  Hash,         \* HashObj: a function from Keys to Nat
  Addr,         \* the address of a key's string object
  TypedNodes    \* tables of at most this many nodes have a type id (32)

ASSUME KeysAssumption == Free \notin Keys /\ StringKeys \subseteq Keys
ASSUME ValsAssumption == Null \in Vals
ASSUME HashAssumption == Hash \in [Keys -> Nat]
ASSUME AddrAssumption == DOMAIN Addr = Keys
ASSUME TypedAssumption == TypedNodes \in Nat

Nodes(t) == 0 .. t.size - 1

Occupied(t) == {i \in Nodes(t) : t.key[i] # Free}

KeysIn(t) == {t.key[i] : i \in Occupied(t)}

\* HashObj(key) & _numofnodes_minus_one, for a size that is a power of two
MainPos(t, k) == Hash[k] % t.size

TypeIds == Seq(Nat \X {Addr[k] : k \in Keys})

Fields == {"size", "key", "val", "next", "firstfree", "used", "id"}

IsTable(t) ==
  /\ DOMAIN t = Fields
  /\ t.size      \in Nat \ {0}
  /\ t.key       \in [Nodes(t) -> Keys \union {Free}]
  /\ t.val       \in [Nodes(t) -> Vals]
  /\ t.next      \in [Nodes(t) -> Nodes(t) \union {NULL}]
  /\ t.firstfree \in Nodes(t)
  /\ t.used      \in Int
  /\ t.id        \in TypeIds

\* The free pointer rests on a node that is free and ends its chain, every
\* link leads above it, and each node has at most one predecessor.
WellLinked(t) ==
  /\ t.key[t.firstfree] = Free
  /\ t.next[t.firstfree] = NULL
  /\ \A i \in Nodes(t) : t.next[i] # NULL => t.next[i] > t.firstfree
  /\ \A i, j \in Nodes(t) :
        t.next[i] = t.next[j] /\ t.next[i] # NULL => i = j

----------------------------------------------------------------------------
(* Allocation and lookup *)

AllocNodes(n) ==
  [size      |-> n,
   key       |-> [i \in 0 .. n - 1 |-> Free],
   val       |-> [i \in 0 .. n - 1 |-> Null],
   next      |-> [i \in 0 .. n - 1 |-> NULL],
   firstfree |-> n - 1,
   used      |-> 0,
   id        |-> <<>>]

\* The nodes that the loop of _Get visits when it starts at node i.
Chain(t, i) == Walk(t.next, t.size, i)

Holders(t, k) == {i \in Chain(t, MainPos(t, k)) : t.key[i] = k}

\* _Get: the node that holds k, or NULL
GetNode(t, k) ==
  IF Holders(t, k) = {} THEN NULL ELSE CHOOSE i \in Holders(t, k) : TRUE

SetVal(t, i, v) == [t EXCEPT !.val = [@ EXCEPT ![i] = v]]

----------------------------------------------------------------------------
(* What every operation finds and leaves *)

\* Every walk comes to an end.
ChainsStop(t) == Acyclic(t.next, t.size)

\* The keys are stored once, each on the chain of its main position; a key
\* away from its main position lies at or above the free pointer, at a node
\* that is no stored key's main position; links lead to or above the free
\* pointer, no two meet and none closes a cycle.  This holds also while a new
\* key has its node and the free pointer has not moved yet.
Placed(t) ==
  /\ IsTable(t)
  /\ \A i \in Nodes(t) :
        \/ t.next[i] = NULL
        \/ t.next[i] > t.firstfree
        \/ t.next[i] = t.firstfree /\ t.key[t.firstfree] # Free
  /\ \A i, j \in Nodes(t) :
        t.next[i] = t.next[j] /\ t.next[i] # NULL => i = j
  /\ ChainsStop(t)
  /\ \A i, j \in Occupied(t) : t.key[i] = t.key[j] => i = j
  /\ \A i \in Occupied(t) : i \in Chain(t, MainPos(t, t.key[i]))
  /\ \A i \in Occupied(t) :
        MainPos(t, t.key[i]) # i =>
          /\ i >= t.firstfree
          /\ \A j \in Occupied(t) : MainPos(t, t.key[j]) # i

\* Between operations the free pointer rests on a free node that ends its
\* chain, and the count is exact.
Sound(t) ==
  /\ Placed(t)
  /\ t.key[t.firstfree] = Free
  /\ t.next[t.firstfree] = NULL
  /\ t.used = Cardinality(Occupied(t))

----------------------------------------------------------------------------
(* Insertion *)

\* The predecessor is left linked to mp.
MoveCollider_Bug(t, mp, prev) ==
  LET n == t.firstfree
  IN  [t EXCEPT
        !.next = [@ EXCEPT ![n] = t.next[mp], ![mp] = NULL],
        !.key  = [@ EXCEPT ![n] = t.key[mp], ![mp] = Free],
        !.val  = [@ EXCEPT ![n] = t.val[mp], ![mp] = Null]]

\* The collider at mp is not in its main position: it moves to the free node,
\* behind its predecessor, and mp becomes free.
MoveCollider(t, mp, prev) ==
  LET n == t.firstfree
  IN  [t EXCEPT
        !.next = [@ EXCEPT ![prev] = n, ![n] = t.next[mp], ![mp] = NULL],
        !.key  = [@ EXCEPT ![n] = t.key[mp], ![mp] = Free],
        !.val  = [@ EXCEPT ![n] = t.val[mp], ![mp] = Null]]

\* The rest of the chain is cut off.
LinkFree_Bug(t, mp) ==
  [t EXCEPT !.next = [@ EXCEPT ![t.firstfree] = NULL, ![mp] = t.firstfree]]

\* The free node is chained right behind the main position.
LinkFree(t, mp) ==
  [t EXCEPT !.next = [@ EXCEPT ![t.firstfree] = t.next[mp],
                               ![mp] = t.firstfree]]

\* The predecessors of mp that the walk from the collider's own main
\* position can stop at.
Preds(t, mp) ==
  {p \in Chain(t, MainPos(t, t.key[mp])) : t.next[p] = mp}

MustMove(t, mp) ==
  /\ mp > t.firstfree
  /\ MainPos(t, t.key[mp]) # mp

\* The node that a new key gets, in the table as the search leaves it.
Claim(t, k) ==
  LET mp == MainPos(t, k)
  IN  IF t.key[mp] = Free
      THEN [tab |-> t, pos |-> mp]
      ELSE IF MustMove(t, mp)
           THEN [tab |-> MoveCollider(t, mp, CHOOSE p \in Preds(t, mp) : TRUE),
                 pos |-> mp]
           ELSE [tab |-> LinkFree(t, mp), pos |-> t.firstfree]

\* What the loop "correct firstfree" can stop at.
FreeBelow(t) ==
  {i \in 0 .. t.firstfree : t.key[i] = Free /\ t.next[i] = NULL}

Highest(S) == CHOOSE i \in S : \A j \in S : j <= i

NextId(t, k, pos) ==
  IF k \in StringKeys /\ t.size <= TypedNodes
  THEN IF t.id # <<>> \/ t.used = 0 THEN Append(t.id, <<pos, Addr[k]>>) ELSE t.id
  ELSE <<>>

\* The new key at node i gets its value and is counted; firstfree and the
\* type id move on.
Fill(t, i, v, ff, id) ==
  [t EXCEPT !.firstfree = ff,
            !.val  = [@ EXCEPT ![i] = v],
            !.id   = id,
            !.used = @ + 1]

PutKey(t, i, k) == [t EXCEPT !.key = [@ EXCEPT ![i] = k]]

\* NewSlot for a key that is absent, up to the point where it either
\* returns true (ok) or has no free node left and calls Rehash.
Insert(t, k, v) ==
  LET c  == Claim(t, k)
      t1 == PutKey(c.tab, c.pos, k)
      fb == FreeBelow(t1)
  IN  IF fb = {}
      THEN [ok |-> FALSE, tab |-> [t1 EXCEPT !.firstfree = 0]]
      ELSE [ok |-> TRUE,
            tab |-> Fill(t1, c.pos, v, Highest(fb), NextId(t1, k, c.pos))]

----------------------------------------------------------------------------
(* Rehash *)

\* The array shrinks as soon as it is half empty.
NewSize_Bug(t, force) ==
  IF t.used >= t.size - t.size \div 4 THEN 2 * t.size
  ELSE IF t.used <= t.size \div 2 /\ t.size > 1 THEN t.size \div 2
  ELSE IF force THEN 2 * t.size
  ELSE t.size

NewSize(t, force) ==
  IF t.used >= t.size - t.size \div 4 THEN 2 * t.size
  ELSE IF t.used < t.size \div 4 /\ t.size > 1 THEN t.size \div 2
  ELSE IF force THEN 2 * t.size
  ELSE t.size

\* The count is not reset before the reinsertions.
Reinserted_Bug(t, n) ==
  LET new[i \in 0 .. t.size] ==
        IF i = 0 THEN [AllocNodes(n) EXCEPT !.id = t.id, !.used = t.used]
        ELSE IF t.key[i - 1] = Free THEN new[i - 1]
        ELSE Insert(new[i - 1], t.key[i - 1], t.val[i - 1]).tab
  IN  new

\* The table after each iteration of Rehash's loop over the old nodes.
Reinserted(t, n) ==
  LET new[i \in 0 .. t.size] ==
        IF i = 0 THEN [AllocNodes(n) EXCEPT !.id = t.id]
        ELSE IF t.key[i - 1] = Free THEN new[i - 1]
        ELSE Insert(new[i - 1], t.key[i - 1], t.val[i - 1]).tab
  IN  new

Rehash(t, force) ==
  LET n == NewSize(t, force)
  IN  IF n = t.size THEN t ELSE Reinserted(t, n)[t.size]

\* No reinsertion of a Rehash runs out of free nodes.
HasRoom(t, force) ==
  LET n   == NewSize(t, force)
      new == Reinserted(t, n)
  IN  n # t.size =>
        \A i \in 1 .. t.size :
           t.key[i - 1] # Free =>
             Insert(new[i - 1], t.key[i - 1], t.val[i - 1]).ok

----------------------------------------------------------------------------
(* The operations of SQTable: the new table, and what they return *)

NewSlotIn(t, k, v) ==
  IF GetNode(t, k) # NULL
  THEN [ret |-> FALSE, tab |-> SetVal(t, GetNode(t, k), v)]
  ELSE LET ins == Insert(t, k, v)
           big == Rehash(ins.tab, TRUE)
       IN  IF ins.ok
           THEN [ret |-> TRUE, tab |-> ins.tab]
           ELSE [ret |-> FALSE, tab |-> SetVal(big, GetNode(big, k), v)]

\* A node that is emptied keeps its place in its chain.
FreeNode(t, i) ==
  [t EXCEPT !.key  = [@ EXCEPT ![i] = Free],
            !.val  = [@ EXCEPT ![i] = Null],
            !.used = @ - 1]

\* The emptied node is cut out of the array: its link is lost.
RemoveFrom_Bug(t, k) ==
  IF GetNode(t, k) = NULL THEN t
  ELSE LET i == GetNode(t, k)
       IN  [Rehash([FreeNode(t, i) EXCEPT !.next = [@ EXCEPT ![i] = NULL]], FALSE)
             EXCEPT !.id = <<>>]

\* The next node of the chain moves up into the emptied one.
RemoveFrom_Bug2(t, k) ==
  LET i == GetNode(t, k)
      s == t.next[i]
  IN  IF i = NULL THEN t
      ELSE IF s = NULL THEN [Rehash(FreeNode(t, i), FALSE) EXCEPT !.id = <<>>]
      ELSE [Rehash([FreeNode(t, s) EXCEPT
                      !.key  = [@ EXCEPT ![i] = t.key[s]],
                      !.val  = [@ EXCEPT ![i] = t.val[s]],
                      !.next = [@ EXCEPT ![i] = t.next[s], ![s] = NULL]], FALSE)
             EXCEPT !.id = <<>>]

\* The type id survives a removal.
RemoveFrom_Bug3(t, k) ==
  IF GetNode(t, k) = NULL THEN t
  ELSE Rehash(FreeNode(t, GetNode(t, k)), FALSE)

RemoveFrom(t, k) ==
  IF GetNode(t, k) = NULL THEN t
  ELSE [Rehash(FreeNode(t, GetNode(t, k)), FALSE) EXCEPT !.id = <<>>]

ClearNodes(t) ==
  [t EXCEPT !.key  = [i \in Nodes(t) |-> Free],
            !.val  = [i \in Nodes(t) |-> Null],
            !.next = [i \in Nodes(t) |-> NULL]]

\* The free pointer is put behind the last node.
ClearTable_Bug(t, rehash) ==
  LET c == [ClearNodes(t) EXCEPT !.used = 0, !.id = <<>>]
  IN  IF rehash THEN Rehash(c, TRUE) ELSE [c EXCEPT !.firstfree = t.size]

ClearTable(t, rehash) ==
  LET c == [ClearNodes(t) EXCEPT !.used = 0, !.id = <<>>]
  IN  IF rehash THEN Rehash(c, TRUE) ELSE [c EXCEPT !.firstfree = t.size - 1]

\* The first occupied node from index i on, or NULL: what Next stops at.
NextNode(t, i) ==
  LET later == {j \in Occupied(t) : j >= i}
  IN  IF later = {} THEN NULL ELSE CHOOSE j \in later : \A l \in later : j <= l
============================================================================
