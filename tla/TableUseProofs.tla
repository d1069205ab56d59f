--------------------------- MODULE TableUseProofs ---------------------------
(***************************************************************************)
(* Theorems about two users of a table, for any keys, hash function and    *)
(* node counts: a foreach whose body changes the table, and an inline      *)
(* cache.                                                                  *)
(*                                                                         *)
(* Of the foreach: an operation that keeps the node array either leaves    *)
(* every key where it is (Stays) or adds a key and moves the others down   *)
(* (Sinks), so no key gets ahead of the cursor.                            *)
(*                                                                         *)
(* Of the cache: the type id of a table tells, from some entry on, at      *)
(* which node each of its keys was put, in the order of the insertions.    *)
(* Two tables with the same id tell the same story from the same entry on  *)
(* (StartIsOne), and a story leaves every key at the same node, even in    *)
(* arrays of different sizes (StoryIsOne).  The keys that are moved on the *)
(* way are in the story, although the id does not record the node that     *)
(* they are moved to: it is the highest free one.                          *)
(***************************************************************************)
EXTENDS TableForeach, TableCache, SQTableProofs


----------------------------------------------------------------------------
(* Where the keys go in an array that keeps its size *)

\* Every key of u is at the node where t has it.
Stays(t, u) ==
  \A i \in Occupied(u) : i \in Occupied(t) /\ u.key[i] = t.key[i]

\* No key that t has is further up in u, and u has a key more.
Sinks(t, u) ==
  /\ \A i \in Occupied(u), j \in Occupied(t) : u.key[i] = t.key[j] => i <= j
  /\ ~ (KeysIn(u) \subseteq KeysIn(t))

\* An Insert that succeeds adds its key and moves the others down, if at all.
LEMMA InsertSinks ==
  ASSUME NEW t, Sound(t), NEW k \in Keys, Absent(t, k), NEW v \in Vals,
         Insert(t, k, v).ok
  PROVE  Sinks(t, Insert(t, k, v).tab)
<1> DEFINE c  == Claim(t, k)
           t1 == PutKey(c.tab, c.pos, k)
           fb == FreeBelow(t1)
           n  == t.firstfree
           r  == Insert(t, k, v).tab
<1>1. /\ IsTable(t) /\ n \in Nodes(t) /\ Nodes(t) \subseteq Nat /\ k # Free
      /\ t.key[n] = Free
      /\ \A i, j \in Occupied(t) : t.key[i] = t.key[j] => i = j
  BY NodeFacts, KeysAssumption DEF Sound, Placed
<1>2. r = Fill(t1, c.pos, v, Highest(fb), NextId(t1, k, c.pos))
  BY InsertCases
<1>3. PICK x : Claimed(t, t1, k, c.pos, x)
  BY ClaimSound
<1>4. \/ t1.key = [t.key EXCEPT ![c.pos] = k]
      \/ /\ c.pos > n
         /\ t1.key = [t.key EXCEPT ![n] = t.key[c.pos], ![c.pos] = k]
  BY <1>1, ClaimKeys DEF MustMove
<1> HIDE DEF t1, c, fb
<1>5. /\ c.pos \in Nodes(t) /\ IsTable(t1) /\ t1.size = t.size
      /\ t1.key[c.pos] = k
  BY <1>3 DEF Claimed, Placed
<1>6. r.key = t1.key /\ Nodes(r) = Nodes(t)
  BY <1>2, <1>5 DEF Fill, IsTable, Fields, Nodes
<1> HIDE DEF r
<1>7. \A i \in Nodes(t) : t.key[i] # k
  BY DEF Absent
<1>8. ASSUME NEW i \in Occupied(r), NEW j \in Occupied(t), r.key[i] = t.key[j]
      PROVE  i <= j
  <2>1. i \in Nodes(t) /\ j \in Nodes(t) /\ t1.key[i] = t.key[j] /\ t.key[j] # Free
    BY <1>6, <1>8 DEF Occupied
  <2>2. i # c.pos
    BY <1>5, <1>7, <2>1
  <2>3. CASE t.key[i] = t1.key[i]
    <3>1. i \in Occupied(t)
      BY <2>1, <2>3 DEF Occupied
    <3>2. i = j
      BY <1>1, <2>1, <2>3, <3>1
    <3>3. QED
      BY <1>1, <2>1, <3>2
  <2>4. CASE t.key[i] # t1.key[i]
    <3>1. i = n /\ c.pos > n /\ t1.key[i] = t.key[c.pos]
      BY <1>1, <1>4, <1>5, <2>1, <2>2, <2>4 DEF IsTable
    <3>2. c.pos \in Occupied(t)
      BY <1>5, <2>1, <3>1 DEF Occupied
    <3>3. c.pos = j
      BY <1>1, <2>1, <3>1, <3>2
    <3>4. QED
      BY <1>1, <2>1, <3>1, <3>3
  <2>5. QED
    BY <2>3, <2>4
<1>9. k \in KeysIn(r) /\ k \notin KeysIn(t)
  <2>1. c.pos \in Occupied(r) /\ r.key[c.pos] = k
    BY <1>1, <1>5, <1>6 DEF Occupied
  <2>2. QED
    BY <1>7, <2>1 DEF KeysIn, Occupied
<1>10. Sinks(t, r)
  BY <1>8, <1>9 DEF Sinks
<1>11. QED
  BY <1>10 DEF r

\* A forced Rehash always changes the size; any Rehash that changes nothing
\* else leaves the table alone.
LEMMA RehashSize ==
  ASSUME NEW t, IsTable(t), NEW force
  PROVE  /\ Rehash(t, force).size = NewSize(t, force)
         /\ Rehash(t, force).size = t.size => Rehash(t, force) = t
         /\ force = TRUE => NewSize(t, force) # t.size
<1>1. Rehash(t, force).size = NewSize(t, force)
  BY RehashIsTable
<1>2. force = TRUE => NewSize(t, force) # t.size
  <2>1. t.size \in Nat \ {0}
    BY DEF IsTable
  <2>2. QED
    BY <2>1 DEF NewSize
<1>3. Rehash(t, force).size = t.size => Rehash(t, force) = t
  BY <1>1 DEF Rehash
<1>4. QED
  BY <1>1, <1>2, <1>3

LEMMA NewSlotMoves ==
  ASSUME NEW t, Sound(t), NEW k \in Keys, NEW v \in Vals,
         NEW u, u = NewSlotIn(t, k, v).tab, u.size = t.size
  PROVE  Stays(t, u) \/ Sinks(t, u)
<1> DEFINE ins == Insert(t, k, v)
           big == Rehash(ins.tab, TRUE)
<1>1. Placed(t) /\ IsTable(t)
  BY DEF Sound, Placed
<1>2. CASE GetNode(t, k) # NULL
  <2>1. u = SetVal(t, GetNode(t, k), v)
    BY <1>2 DEF NewSlotIn
  <2>2. u.key = t.key /\ u.size = t.size
    BY <1>1, <2>1 DEF SetVal, IsTable, Fields
  <2>3. Stays(t, u)
    BY <2>2 DEF Stays, Occupied, Nodes
  <2>4. QED
    BY <2>3
<1>3. CASE GetNode(t, k) = NULL /\ ins.ok
  <2>1. u = ins.tab
    BY <1>3 DEF NewSlotIn
  <2>2. Absent(t, k)
    BY <1>1, <1>3, GetNodeSound
  <2>3. Sinks(t, ins.tab)
    BY <1>3, <2>2, InsertSinks
  <2>4. QED
    BY <2>1, <2>3
<1>4. CASE GetNode(t, k) = NULL /\ ~ ins.ok
  <2>1. u = SetVal(big, GetNode(big, k), v)
    BY <1>4 DEF NewSlotIn
  <2>2. IsTable(ins.tab) /\ ins.tab.size = t.size
    BY <1>1, InsertIsTable
  <2> HIDE DEF ins
  <2>3. IsTable(big) /\ big.size # t.size
    BY <2>2, RehashSize, RehashIsTable
  <2> HIDE DEF big
  <2>4. u.size = big.size
    BY <2>1, <2>3 DEF SetVal, IsTable, Fields
  <2>5. QED
    BY <2>3, <2>4
<1>5. QED
  BY <1>2, <1>3, <1>4

LEMMA RemoveStays ==
  ASSUME NEW t, Sound(t), NEW k \in Keys,
         NEW u, u = RemoveFrom(t, k), u.size = t.size
  PROVE  Stays(t, u)
<1> DEFINE i == GetNode(t, k)
           f == FreeNode(t, i)
           g == Rehash(f, FALSE)
<1>1. Placed(t) /\ IsTable(t)
  BY DEF Sound, Placed
<1>2. CASE i = NULL
  BY <1>2 DEF RemoveFrom, Stays
<1>3. CASE i # NULL
  <2>1. u = [g EXCEPT !.id = <<>>]
    BY <1>3 DEF RemoveFrom
  <2>2. i \in Occupied(t) /\ i \in Nodes(t)
    BY <1>1, <1>3, GetNodeSound DEF Occupied
  <2> HIDE DEF i
  <2>3. IsTable(f) /\ f.size = t.size /\ f.key = [t.key EXCEPT ![i] = Free]
    <3>1. IsTable(f)
      BY <1>1, <2>2, FreeNodeIsTable
    <3>2. f.size = t.size /\ f.key = [t.key EXCEPT ![i] = Free]
      BY <1>1 DEF FreeNode, IsTable, Fields
    <3>3. QED
      BY <3>1, <3>2
  <2> HIDE DEF f
  <2>4. IsTable(g)
    BY <2>3, RehashIsTable
  <2>5. u.size = g.size /\ u.key = g.key
    BY <2>1, <2>4 DEF IsTable, Fields
  <2>6. g = f
    <3>1. g.size = f.size
      BY <2>3, <2>5
    <3>2. Rehash(f, FALSE).size = f.size => Rehash(f, FALSE) = f
      BY <2>3, RehashSize
    <3>3. QED
      BY <3>1, <3>2
  <2>7. /\ Nodes(u) = Nodes(t)
        /\ \A j \in Nodes(t) : u.key[j] # Free => u.key[j] = t.key[j]
    <3>1. u.size = t.size /\ u.key = [t.key EXCEPT ![i] = Free]
      BY ONLY <2>3, <2>5, <2>6
    <3>2. DOMAIN t.key = Nodes(t)
      BY <1>1 DEF IsTable
    <3>3. \A j \in Nodes(t) : u.key[j] = IF j = i THEN Free ELSE t.key[j]
      BY ONLY <3>1, <3>2
    <3>4. QED
      BY ONLY <3>1, <3>3 DEF Nodes
  <2>8. QED
    BY <2>7 DEF Stays, Occupied
<1>4. QED
  BY <1>2, <1>3

LEMMA ClearStays ==
  ASSUME NEW t, Sound(t), NEW rehash \in BOOLEAN,
         NEW u, u = ClearTable(t, rehash)
  PROVE  Stays(t, u)
<1>1. Sound(u) /\ \A a, w : ~ Has(u, a, w)
  BY ClearSound
<1>2. Occupied(u) = {}
  BY <1>1 DEF Has
<1>3. QED
  BY <1>2 DEF Stays

\* What any operation that leaves the array in place does to the keys.
LEMMA StepMoves ==
  ASSUME Sound(tab), Next, tab'.size = tab.size
  PROVE  Stays(tab, tab') \/ Sinks(tab, tab')
<1>1. ASSUME NEW k \in Keys, NEW v \in Vals, NewSlot(k, v)
      PROVE  Stays(tab, tab') \/ Sinks(tab, tab')
  BY <1>1, NewSlotMoves DEF NewSlot
<1>2. ASSUME NEW k \in Keys, NEW v \in Vals, Set(k, v)
      PROVE  Stays(tab, tab')
  <2>1. IsTable(tab)
    BY DEF Sound, Placed
  <2>2. tab' = tab \/ tab' = SetVal(tab, GetNode(tab, k), v)
    BY <1>2 DEF Set
  <2>3. tab'.key = tab.key
    BY <2>1, <2>2 DEF SetVal, IsTable, Fields
  <2>4. QED
    BY <2>3 DEF Stays, Occupied, Nodes
<1>3. ASSUME NEW k \in Keys, Get(k)
      PROVE  Stays(tab, tab')
  BY <1>3 DEF Get, Stays
<1>4. ASSUME NEW k \in Keys, Remove(k)
      PROVE  Stays(tab, tab')
  BY <1>4, RemoveStays DEF Remove
<1>5. ASSUME NEW rehash \in BOOLEAN, Clear(rehash)
      PROVE  Stays(tab, tab')
  BY <1>5, ClearStays DEF Clear
<1>6. QED
  BY <1>1, <1>2, <1>3, <1>4, <1>5 DEF Next

----------------------------------------------------------------------------
(* The loop *)

\* Next hands out the first occupied node from the cursor on.
LEMMA NextIsFirst ==
  ASSUME NEW t, IsTable(t), NEW c \in Nat
  PROVE  \/ /\ NextNode(t, c) = NULL
            /\ \A j \in Occupied(t) : j < c
         \/ /\ NextNode(t, c) \in Occupied(t)
            /\ NextNode(t, c) >= c
            /\ \A j \in Occupied(t) : j >= c => NextNode(t, c) <= j
<1> DEFINE later == {j \in Occupied(t) : j >= c}
<1>1. Occupied(t) \subseteq Nat
  BY NodeFacts DEF Occupied
<1>2. CASE later = {}
  <2>1. NextNode(t, c) = NULL
    BY <1>2 DEF NextNode
  <2>2. \A j \in Occupied(t) : j < c
    BY <1>1, <1>2
  <2>3. QED
    BY <2>1, <2>2
<1>3. CASE later # {}
  <2>1. later \in SUBSET Nat
    BY <1>1
  <2>2. \E j \in later : \A l \in later : j <= l
    BY <1>3, <2>1, LeastNat
  <2>3. NextNode(t, c) = CHOOSE j \in later : \A l \in later : j <= l
    BY <1>3 DEF NextNode
  <2>4. NextNode(t, c) \in later /\ \A l \in later : NextNode(t, c) <= l
    BY <2>2, <2>3
  <2>5. QED
    BY <2>4
<1>4. QED
  BY <1>2, <1>3

\* The nodes from the cursor on have not been given yet.
AheadUnvisited ==
  \A i \in Occupied(tab) :
    /\ visits[tab.key[i]] <= 1
    /\ cursor # NULL /\ i >= cursor => visits[tab.key[i]] = 0

\* The nodes behind it have, when only keys that were there are still there.
BehindVisited ==
  \A i \in Occupied(tab) :
    tab.key[i] \in kept /\ i < cursor => visits[tab.key[i]] = 1

FIInv ==
  /\ Sound(tab)
  /\ cursor \in Nat \union {NULL}
  /\ visits \in [Keys -> Nat]
  /\ \A k \in Keys : k \notin KeysIn(tab) => visits[k] = 0
  /\ kept \subseteq KeysIn(tab)
  /\ intact => AheadUnvisited
  /\ intact /\ ~ grown /\ cursor # NULL => BehindVisited

LEMMA ForeachInit == FInit => FIInv
<1> SUFFICES ASSUME FInit PROVE FIInv
  OBVIOUS
<1>1. Sound(tab)
  BY NodesInit DEF FInit, NodesInv
<1>2. QED
  BY <1>1 DEF FInit, FIInv

LEMMA BeginStep ==
  ASSUME FIInv, Begin
  PROVE  FIInv'
<1>1. /\ tab' = tab /\ cursor' = 0 /\ kept' = KeysIn(tab)
      /\ visits' = [k \in Keys |-> 0]
  BY DEF Begin, vars
<1>2. Sound(tab') /\ IsTable(tab)
  BY <1>1 DEF FIInv, Sound, Placed
<1>3. \A i \in Occupied(tab) : tab.key[i] \in Keys /\ i \in Nat
  BY <1>2, NodeFacts DEF IsTable, Occupied
<1>4. AheadUnvisited'
  BY <1>1, <1>3 DEF AheadUnvisited
<1>5. BehindVisited'
  BY <1>1, <1>3 DEF BehindVisited
<1>6. QED
  BY <1>1, <1>2, <1>4, <1>5 DEF FIInv

LEMMA StepStep ==
  ASSUME FIInv, Step
  PROVE  FIInv'
<1> DEFINE i == NextNode(tab, cursor)
<1>1. /\ tab' = tab /\ kept' = kept /\ intact' = intact /\ grown' = grown
      /\ cursor # NULL /\ cursor \in Nat /\ visits \in [Keys -> Nat]
      /\ Sound(tab) /\ IsTable(tab)
  BY DEF Step, FIInv, Sound, Placed
<1>2. /\ \A j \in Occupied(tab) : tab.key[j] \in Keys /\ j \in Nat
      /\ \A j, l \in Occupied(tab) : tab.key[j] = tab.key[l] => j = l
  BY <1>1, NodeFacts DEF IsTable, Occupied, Sound, Placed
<1>3. CASE i = NULL
  <2>1. cursor' = NULL /\ visits' = visits
    BY <1>3 DEF Step
  <2>2. QED
    BY <1>1, <2>1 DEF FIInv, AheadUnvisited
<1>4. CASE i # NULL
  <2>1. /\ cursor' = i + 1
        /\ visits' = [visits EXCEPT ![tab.key[i]] = @ + 1]
    BY <1>4 DEF Step
  <2>2. /\ i \in Occupied(tab) /\ i >= cursor
        /\ \A j \in Occupied(tab) : j >= cursor => i <= j
    BY <1>1, <1>4, NextIsFirst
  <2>3. tab.key[i] \in KeysIn(tab) /\ tab.key[i] \in Keys /\ i \in Nat
    BY <1>2, <2>2 DEF KeysIn
  <2> HIDE DEF i
  <2>4. /\ visits' \in [Keys -> Nat]
        /\ visits'[tab.key[i]] = visits[tab.key[i]] + 1
        /\ \A k \in Keys : k # tab.key[i] => visits'[k] = visits[k]
    BY <1>1, <2>1, <2>3
  <2>5. i + 1 \in Nat /\ i + 1 # NULL
    BY <2>3 DEF NULL
  <2>6. \A k \in Keys : k \notin KeysIn(tab) => visits'[k] = 0
    BY <2>3, <2>4 DEF FIInv
  <2>7. ASSUME intact
        PROVE  AheadUnvisited'
    <3>1. visits[tab.key[i]] = 0
      BY <1>1, <2>2, <2>7 DEF FIInv, AheadUnvisited
    <3>2. SUFFICES ASSUME NEW j \in Occupied(tab)
                   PROVE  /\ visits'[tab.key[j]] <= 1
                          /\ j >= i + 1 => visits'[tab.key[j]] = 0
      BY <1>1, <2>1 DEF AheadUnvisited
    <3>3. CASE j = i
      BY <2>3, <2>4, <3>1, <3>3
    <3>4. CASE j # i
      <4>1. visits'[tab.key[j]] = visits[tab.key[j]]
        BY <1>2, <2>2, <2>4, <3>4
      <4>2. /\ visits[tab.key[j]] <= 1
            /\ j >= cursor => visits[tab.key[j]] = 0
        BY <1>1, <2>7 DEF FIInv, AheadUnvisited
      <4>3. j >= i + 1 => j >= cursor
        <5>1. i \in Nat /\ j \in Nat /\ cursor \in Nat /\ i >= cursor
          BY <1>1, <1>2, <2>2, <2>3
        <5>2. QED
          BY ONLY <5>1
      <4>4. QED
        BY <4>1, <4>2, <4>3
    <3>5. QED
      BY <3>3, <3>4
  <2>8. ASSUME intact, ~ grown
        PROVE  BehindVisited'
    <3>1. visits[tab.key[i]] = 0
      BY <1>1, <2>2, <2>8 DEF FIInv, AheadUnvisited
    <3>2. SUFFICES ASSUME NEW j \in Occupied(tab), tab.key[j] \in kept, j < i + 1
                   PROVE  visits'[tab.key[j]] = 1
      BY <1>1, <2>1 DEF BehindVisited
    <3>3. CASE j = i
      BY <2>4, <3>1, <3>3
    <3>4. CASE j # i
      <4>1. visits'[tab.key[j]] = visits[tab.key[j]]
        BY <1>2, <2>2, <2>4, <3>4
      <4>2. j < cursor
        <5>1. i \in Nat /\ j \in Nat /\ cursor \in Nat
          BY <1>1, <1>2, <2>3
        <5>2. j >= cursor => i <= j
          BY <2>2
        <5>3. j < i + 1 /\ j # i
          BY <3>2, <3>4
        <5>4. QED
          BY ONLY <5>1, <5>2, <5>3
      <4>3. visits[tab.key[j]] = 1
        BY <1>1, <2>8, <3>2, <4>2 DEF FIInv, BehindVisited
      <4>4. QED
        BY <4>1, <4>3
    <3>5. QED
      BY <3>3, <3>4
  <2>9. QED
    BY <1>1, <2>1, <2>4, <2>5, <2>6, <2>7, <2>8 DEF FIInv
<1>5. QED
  BY <1>3, <1>4

LEMMA ChangeStep ==
  ASSUME FIInv, Change
  PROVE  FIInv'
<1>1. /\ Next /\ cursor' = cursor
      /\ visits' = [k \in Keys |-> IF k \in KeysIn(tab') THEN visits[k] ELSE 0]
      /\ kept' = kept \intersect KeysIn(tab')
      /\ intact' = (intact /\ tab'.size = tab.size)
      /\ grown' = (grown \/ ~ (KeysIn(tab') \subseteq KeysIn(tab)))
  BY DEF Change
<1>2. /\ Sound(tab) /\ IsTable(tab) /\ cursor \in Nat \union {NULL}
      /\ visits \in [Keys -> Nat]
  BY DEF FIInv, Sound, Placed
<1>3. Sound(tab') /\ IsTable(tab')
  BY <1>1, <1>2, NodesStep DEF NodesInv, Sound, Placed
<1>4. /\ \A j \in Occupied(tab) : j \in Nat
      /\ \A i \in Occupied(tab') :
           tab'.key[i] \in Keys /\ tab'.key[i] \in KeysIn(tab') /\ i \in Nat
  BY <1>2, <1>3, NodeFacts DEF IsTable, Occupied, KeysIn
<1>5. \A i \in Occupied(tab') : visits'[tab'.key[i]] = visits[tab'.key[i]]
  BY <1>1, <1>4
<1>6. visits' \in [Keys -> Nat]
      /\ \A k \in Keys : k \notin KeysIn(tab') => visits'[k] = 0
  BY <1>1, <1>2
<1>7. ASSUME intact'
      PROVE  AheadUnvisited'
  <2>1. intact /\ AheadUnvisited /\ tab'.size = tab.size
    BY <1>1, <1>7 DEF FIInv
  <2>2. SUFFICES ASSUME NEW i \in Occupied(tab')
                 PROVE  /\ visits[tab'.key[i]] <= 1
                        /\ cursor # NULL /\ i >= cursor => visits[tab'.key[i]] = 0
    BY <1>1, <1>5 DEF AheadUnvisited
  <2>3. CASE tab'.key[i] \notin KeysIn(tab)
    <3>1. visits[tab'.key[i]] = 0
      BY <1>4, <2>3 DEF FIInv
    <3>2. QED
      BY <3>1
  <2>4. CASE tab'.key[i] \in KeysIn(tab)
    <3>1. PICK j \in Occupied(tab) : tab.key[j] = tab'.key[i]
      BY <2>4 DEF KeysIn
    <3>2. i <= j
      <4>1. CASE Stays(tab, tab')
        <5>1. i \in Occupied(tab) /\ tab.key[i] = tab.key[j]
          BY <3>1, <4>1 DEF Stays
        <5>2. i = j
          BY <1>2, <5>1 DEF Sound, Placed
        <5>3. QED
          BY <1>4, <5>2
      <4>2. CASE Sinks(tab, tab')
        BY <3>1, <4>2 DEF Sinks
      <4>3. QED
        BY <1>1, <1>2, <2>1, <4>1, <4>2, StepMoves
    <3>3. /\ visits[tab.key[j]] <= 1
          /\ cursor # NULL /\ j >= cursor => visits[tab.key[j]] = 0
      BY <2>1 DEF AheadUnvisited
    <3>4. cursor # NULL /\ i >= cursor => j >= cursor
      BY <1>2, <1>4, <3>2
    <3>5. QED
      BY <3>1, <3>3, <3>4
  <2>5. QED
    BY <2>3, <2>4
<1>8. ASSUME intact', ~ grown', cursor' # NULL
      PROVE  BehindVisited'
  <2>1. /\ intact /\ ~ grown /\ cursor # NULL /\ BehindVisited
        /\ tab'.size = tab.size /\ KeysIn(tab') \subseteq KeysIn(tab)
    BY <1>1, <1>8 DEF FIInv
  <2>2. Stays(tab, tab')
    BY <1>1, <1>2, <2>1, StepMoves DEF Sinks
  <2>3. SUFFICES ASSUME NEW i \in Occupied(tab'), tab'.key[i] \in kept',
                        i < cursor
                 PROVE  visits[tab'.key[i]] = 1
    BY <1>1, <1>5 DEF BehindVisited
  <2>4. i \in Occupied(tab) /\ tab'.key[i] = tab.key[i] /\ tab.key[i] \in kept
    BY <1>1, <2>2, <2>3 DEF Stays
  <2>5. QED
    BY <2>1, <2>3, <2>4 DEF BehindVisited
<1>9. kept' \subseteq KeysIn(tab')
  BY <1>1
<1>10. QED
  BY <1>1, <1>2, <1>3, <1>6, <1>7, <1>8, <1>9 DEF FIInv

\* The inductive invariant of the loop.
THEOREM ForeachInvariant == FSpec => []FIInv
<1>1. FIInv /\ [FNext]_fvars => FIInv'
  <2> SUFFICES ASSUME FIInv, [FNext]_fvars PROVE FIInv'
    OBVIOUS
  <2>1. CASE Begin
    BY <2>1, BeginStep
  <2>2. CASE Step
    BY <2>2, StepStep
  <2>3. CASE Change
    BY <2>3, ChangeStep
  <2>4. CASE UNCHANGED fvars
    BY <2>4 DEF fvars, FIInv, AheadUnvisited, BehindVisited
  <2>5. QED
    BY <2>1, <2>2, <2>3, <2>4 DEF FNext
<1>2. QED
  BY <1>1, ForeachInit, PTL DEF FSpec

\* As long as the array is not reallocated, no entry is given twice, whatever
\* the body inserts, overwrites, removes or clears: a collider that NewSlot
\* moves only ever moves to a lower node.
THEOREM ForeachVisitsOnce == FSpec => []VisitedOnce
<1>1. FIInv => VisitedOnce
  BY DEF FIInv, VisitedOnce, AheadUnvisited, KeysIn
<1>2. QED
  BY <1>1, ForeachInvariant, PTL

\* A loop whose body adds no key and does not reallocate the array ends only
\* after it gave every key that was there all the time.
THEOREM ForeachMissesNone == FSpec => NoneMissed
<1>1. FIInv /\ [FNext]_fvars => [NoneMissedStep]_fvars
  <2> SUFFICES ASSUME FIInv, FNext, cursor # NULL, cursor' = NULL, intact,
                      ~ grown, NEW k \in kept
               PROVE  visits[k] = 1
    BY DEF NoneMissedStep
  <2>1. cursor \in Nat /\ IsTable(tab)
    BY DEF FIInv, Sound, Placed
  <2>2. Step
    BY DEF FNext, Begin, Change
  <2>3. \A j \in Occupied(tab) : j < cursor
    <3>1. CASE NextNode(tab, cursor) = NULL
      <4>1. NULL \notin Occupied(tab)
        BY <2>1, NodeFacts DEF Occupied
      <4>2. QED
        BY <2>1, <3>1, <4>1, NextIsFirst
    <3>2. CASE NextNode(tab, cursor) # NULL
      <4>1. cursor' = NextNode(tab, cursor) + 1
        BY <2>2, <3>2 DEF Step
      <4>2. NextNode(tab, cursor) \in Nat
        BY <2>1, <3>2, NextIsFirst, NodeFacts DEF Occupied
      <4>3. QED
        BY <4>1, <4>2 DEF NULL
    <3>3. QED
      BY <3>1, <3>2
  <2>4. PICK j \in Occupied(tab) : tab.key[j] = k
    BY DEF FIInv, KeysIn
  <2>5. QED
    BY <2>3, <2>4 DEF FIInv, BehindVisited
<1>2. QED
  BY <1>1, ForeachInvariant, PTL DEF FSpec, NoneMissed

----------------------------------------------------------------------------
(* What a type id tells *)


KeyAddrs(t) == {Addr[k] : k \in KeysIn(t)}

\* No two keys of the table are at the same address.
Apart(t) == \A k, l \in KeysIn(t) : Addr[k] = Addr[l] => k = l

\* The addresses at the nodes.
Shape(t) ==
  [i \in Nodes(t) |-> IF t.key[i] = Free THEN {} ELSE {Addr[t.key[i]]}]

\* The entry e of a type id turns the shape l into m: the key goes to its
\* node, and what was there moves to the highest free node.
Placing(l, m, e) ==
  /\ e[1] \in DOMAIN l
  /\ \/ l[e[1]] = {} /\ m = [l EXCEPT ![e[1]] = {e[2]}]
     \/ \E n \in DOMAIN l :
          /\ l[e[1]] # {} /\ n < e[1]
          /\ l[n] = {} /\ \A i \in DOMAIN l : l[i] = {} => i <= n
          /\ m = [l EXCEPT ![n] = l[e[1]], ![e[1]] = {e[2]}]

\* h shows an array of n nodes after each entry of the id that follows the
\* b-th one.
Story(id, b, n, h) ==
  /\ h[0] = [i \in 0 .. n - 1 |-> {}]
  /\ \A j \in 1 .. Len(id) - b : Placing(h[j - 1], h[j], id[b + j])

Since(id, b) == {id[j][2] : j \in b + 1 .. Len(id)}

NoRepeat(id, b) ==
  \A i, j \in b + 1 .. Len(id) : id[i][2] = id[j][2] => i = j

\* The entry before the story began names a key of the story: it began with
\* a Rehash.
BeginsWhole(id, b) == b > 0 => id[b][2] \in Since(id, b)

\* The id of t tells the story of its keys from the entry b + 1 on.
Tells(t, b) ==
  /\ \E h : Story(t.id, b, t.size, h) /\ h[Len(t.id) - b] = Shape(t)
  /\ NoRepeat(t.id, b)
  /\ Since(t.id, b) = KeyAddrs(t)

----------------------------------------------------------------------------
(* Stories *)

\* The shape l of an array of n nodes is the shape r of one of m nodes, as
\* far as it goes; the rest of r is free.
Agree(l, n, r, m) ==
  /\ DOMAIN l = 0 .. n - 1 /\ DOMAIN r = 0 .. m - 1
  /\ \A i \in 0 .. n - 1 : l[i] = r[i]
  /\ \A i \in 0 .. m - 1 : i >= n => r[i] = {}

\* An entry keeps shapes in agreement: in a larger array nothing is moved,
\* because its highest free node is out of reach.
LEMMA AgreeStep ==
  ASSUME NEW n \in Nat, NEW m \in Nat, n <= m,
         NEW l, NEW r, Agree(l, n, r, m), NEW l1, NEW r1, NEW e,
         Placing(l, l1, e), Placing(r, r1, e)
  PROVE  Agree(l1, n, r1, m)
<1>1. /\ DOMAIN l = 0 .. n - 1 /\ DOMAIN r = 0 .. m - 1
      /\ \A i \in 0 .. n - 1 : l[i] = r[i]
      /\ \A i \in 0 .. m - 1 : i >= n => r[i] = {}
  BY DEF Agree
<1>2. PICK p : p = e[1]
  OBVIOUS
<1>3. p \in 0 .. n - 1 /\ p \in 0 .. m - 1 /\ l[p] = r[p]
  BY <1>1, <1>2 DEF Placing
<1>4. CASE l[p] = {}
  <2>1. /\ l1 = [l EXCEPT ![p] = {e[2]}]
        /\ r1 = [r EXCEPT ![p] = {e[2]}]
    BY <1>2, <1>3, <1>4 DEF Placing
  <2>2. DOMAIN l1 = 0 .. n - 1 /\ DOMAIN r1 = 0 .. m - 1
    BY <1>1, <2>1
  <2>3. /\ \A i \in 0 .. n - 1 : l1[i] = IF i = p THEN {e[2]} ELSE l[i]
        /\ \A i \in 0 .. m - 1 : r1[i] = IF i = p THEN {e[2]} ELSE r[i]
    BY <1>1, <2>1
  <2>4. \A i \in 0 .. n - 1 : i \in 0 .. m - 1
    OBVIOUS
  <2>5. \A i \in 0 .. n - 1 : l1[i] = r1[i]
    BY <1>1, <2>3, <2>4
  <2>6. \A i \in 0 .. m - 1 : i >= n => r1[i] = {}
    <3>1. ~ (p >= n)
      BY <1>3
    <3>2. QED
      BY <1>1, <2>3, <3>1
  <2>7. QED
    BY <2>2, <2>5, <2>6 DEF Agree
<1>5. CASE l[p] # {}
  <2>1. n = m
    <3>1. PICK q \in 0 .. m - 1 :
            q < p /\ \A i \in 0 .. m - 1 : r[i] = {} => i <= q
      BY <1>1, <1>2, <1>3, <1>5 DEF Placing
    <3>2. SUFFICES ASSUME n < m PROVE FALSE
      OBVIOUS
    <3>3. m - 1 \in 0 .. m - 1 /\ m - 1 >= n
      BY <3>2
    <3>4. m - 1 <= q
      BY <1>1, <3>1, <3>3
    <3>5. QED
      BY <1>3, <3>1, <3>2, <3>4
  <2>2. PICK q \in 0 .. n - 1 :
          /\ l[q] = {} /\ \A i \in 0 .. n - 1 : l[i] = {} => i <= q
          /\ l1 = [l EXCEPT ![q] = l[p], ![p] = {e[2]}]
    BY <1>1, <1>2, <1>5 DEF Placing
  <2>3. PICK s \in 0 .. n - 1 :
          /\ r[s] = {} /\ \A i \in 0 .. n - 1 : r[i] = {} => i <= s
          /\ r1 = [r EXCEPT ![s] = r[p], ![p] = {e[2]}]
    BY <1>1, <1>2, <1>3, <1>5, <2>1 DEF Placing
  <2>4. q = s
    <3>1. q <= s /\ s <= q
      BY <1>1, <2>2, <2>3
    <3>2. QED
      BY <3>1
  <2>5. DOMAIN l1 = 0 .. n - 1 /\ DOMAIN r1 = 0 .. m - 1
    BY <1>1, <2>2, <2>3
  <2>6. /\ \A i \in 0 .. n - 1 : l1[i] = IF i = p THEN {e[2]}
                                      ELSE IF i = q THEN l[p] ELSE l[i]
        /\ \A i \in 0 .. n - 1 : r1[i] = IF i = p THEN {e[2]}
                                      ELSE IF i = q THEN r[p] ELSE r[i]
    BY <1>1, <2>1, <2>2, <2>3, <2>4
  <2>7. \A i \in 0 .. m - 1 : ~ (i >= n)
    BY <2>1
  <2>8. QED
    BY <1>1, <1>3, <2>5, <2>6, <2>7 DEF Agree
<1>6. QED
  BY <1>4, <1>5
\* Two arrays that the same story fills agree.
LEMMA StoryIsOne ==
  ASSUME NEW id \in TypeIds, NEW b \in 0 .. Len(id),
         NEW n \in Nat, NEW m \in Nat, n <= m, NEW g, NEW h,
         Story(id, b, n, g), Story(id, b, m, h)
  PROVE  Agree(g[Len(id) - b], n, h[Len(id) - b], m)
<1> DEFINE S == {j \in 0 .. Len(id) - b : Agree(g[j], n, h[j], m)}
<1>1. Len(id) - b \in Nat
  BY DEF TypeIds
<1>2. PICK z \in Nat : z = Len(id) - b
  BY <1>1
<1>3. 0 \in S
  <2>1. Agree(g[0], n, h[0], m)
    BY DEF Story, Agree
  <2>2. QED
    BY <1>1, <2>1
<1>4. ASSUME NEW j \in 1 .. z, j - 1 \in S
      PROVE  j \in S
  <2>1. j \in 1 .. Len(id) - b
    BY <1>2
  <2>2. Placing(g[j - 1], g[j], id[b + j]) /\ Placing(h[j - 1], h[j], id[b + j])
    BY <2>1 DEF Story
  <2>3. Agree(g[j - 1], n, h[j - 1], m)
    BY <1>4
  <2>4. PICK e : e = id[b + j]
    OBVIOUS
  <2>5. Agree(g[j], n, h[j], m)
    BY <2>2, <2>3, <2>4, AgreeStep
  <2>6. j \in 0 .. Len(id) - b
    BY <1>2, <2>1
  <2>7. QED
    BY <2>5, <2>6
<1>5. \A j \in 0 .. z : j \in S
  <2> HIDE DEF S
  <2>1. QED
    BY <1>3, <1>4, InductionUpTo
<1>6. QED
  BY <1>2, <1>5

\* An id has one beginning of a story: an earlier one would tell a key of the
\* later one twice.
LEMMA StartIsOne ==
  ASSUME NEW id \in TypeIds, NEW b \in 0 .. Len(id) - 1,
         NEW c \in 0 .. Len(id) - 1,
         NoRepeat(id, b), BeginsWhole(id, b),
         NoRepeat(id, c), BeginsWhole(id, c)
  PROVE  b = c
<1>1. PICK z \in Nat : z = Len(id)
  BY DEF TypeIds
<1>2. ASSUME NEW x \in 0 .. z - 1, NEW y \in 0 .. z - 1, x < y,
             NoRepeat(id, x), BeginsWhole(id, y)
      PROVE  FALSE
  <2>1. PICK j \in y + 1 .. z : id[j][2] = id[y][2]
    BY <1>1, <1>2 DEF BeginsWhole, Since
  <2>2. j \in x + 1 .. z /\ y \in x + 1 .. z /\ j # y
    BY <1>2, <2>1
  <2>3. \A i, l \in x + 1 .. z : id[i][2] = id[l][2] => i = l
    BY <1>1, <1>2 DEF NoRepeat
  <2>4. QED
    BY <2>1, <2>2, <2>3
<1>3. b \in 0 .. z - 1 /\ c \in 0 .. z - 1
  BY <1>1
<1>4. ~ (b < c) /\ ~ (c < b)
  BY <1>2, <1>3
<1>5. QED
  BY <1>3, <1>4

\* One more entry.
LEMMA TellsOn ==
  ASSUME NEW t, t.id \in TypeIds, NEW b \in 0 .. Len(t.id), Tells(t, b),
         NEW r, NEW e, r.id = Append(t.id, e), r.size = t.size,
         Placing(Shape(t), Shape(r), e),
         KeyAddrs(r) = KeyAddrs(t) \union {e[2]}, e[2] \notin KeyAddrs(t)
  PROVE  Tells(r, b)
<1>1. PICK z \in Nat : z = Len(t.id)
  BY DEF TypeIds
<1>2. /\ Len(r.id) = z + 1 /\ r.id[z + 1] = e
      /\ \A i \in 1 .. z : r.id[i] = t.id[i]
  BY <1>1 DEF TypeIds
<1>3. b \in 0 .. z
  BY <1>1
<1>4. PICK h : Story(t.id, b, t.size, h) /\ h[z - b] = Shape(t)
  BY <1>1 DEF Tells
<1>5. /\ h[0] = [i \in 0 .. t.size - 1 |-> {}]
      /\ \A j \in 1 .. z - b : Placing(h[j - 1], h[j], t.id[b + j])
  BY <1>1, <1>4 DEF Story
<1>6. PICK g : g = [j \in 0 .. z + 1 - b |-> IF j = z + 1 - b THEN Shape(r)
                                                              ELSE h[j]]
  OBVIOUS
<1>7. /\ g[z + 1 - b] = Shape(r)
      /\ \A j \in 0 .. z - b : g[j] = h[j]
  BY <1>3, <1>6
<1>8. Story(r.id, b, r.size, g)
  <2>1. g[0] = [i \in 0 .. r.size - 1 |-> {}]
    BY <1>3, <1>5, <1>7
  <2>2. ASSUME NEW j \in 1 .. z + 1 - b
        PROVE  Placing(g[j - 1], g[j], r.id[b + j])
    <3>1. CASE j = z + 1 - b
      <4>1. j - 1 = z - b /\ b + j = z + 1 /\ j - 1 \in 0 .. z - b
        BY <1>3, <3>1
      <4>2. g[j - 1] = Shape(t) /\ g[j] = Shape(r) /\ r.id[b + j] = e
        BY <1>2, <1>4, <1>7, <3>1, <4>1
      <4>3. QED
        BY <4>2
    <3>2. CASE j # z + 1 - b
      <4>1. /\ j \in 1 .. z - b /\ j \in 0 .. z - b /\ j - 1 \in 0 .. z - b
            /\ b + j \in 1 .. z
        BY <1>3, <3>2
      <4>2. g[j - 1] = h[j - 1] /\ g[j] = h[j] /\ r.id[b + j] = t.id[b + j]
        BY <1>2, <1>7, <4>1
      <4>3. QED
        BY <1>5, <4>1, <4>2
    <3>3. QED
      BY <3>1, <3>2
  <2>3. QED
    BY <1>2, <2>1, <2>2 DEF Story
<1>9. Since(t.id, b) = KeyAddrs(t) /\ NoRepeat(t.id, b)
  BY DEF Tells
<1>10. Since(r.id, b) = KeyAddrs(r)
  <2>1. Since(r.id, b) = Since(t.id, b) \union {e[2]}
    <3>1. \A i \in b + 1 .. z + 1 : i = z + 1 \/ i \in b + 1 .. z
      BY <1>3
    <3>2. z + 1 \in b + 1 .. z + 1 /\ \A i \in b + 1 .. z : i \in b + 1 .. z + 1
      BY <1>3
    <3>3. \A i \in b + 1 .. z : r.id[i] = t.id[i]
      BY <1>2, <1>3
    <3>4. QED
      BY <1>1, <1>2, <3>1, <3>2, <3>3 DEF Since
  <2>2. QED
    BY <1>9, <2>1
<1>11. NoRepeat(r.id, b)
  <2>1. \A i \in b + 1 .. z : r.id[i] = t.id[i] /\ t.id[i][2] # e[2]
    <3>1. \A i \in b + 1 .. z : t.id[i][2] \in Since(t.id, b)
      BY <1>1 DEF Since
    <3>2. \A i \in b + 1 .. z : i \in 1 .. z
      BY <1>3
    <3>3. QED
      BY <1>2, <1>9, <3>1, <3>2
  <2>2. \A i \in b + 1 .. z + 1 : i = z + 1 \/ i \in b + 1 .. z
    BY <1>3
  <2>3. \A i, j \in b + 1 .. z : t.id[i][2] = t.id[j][2] => i = j
    BY <1>1, <1>9 DEF NoRepeat
  <2>4. QED
    BY <1>2, <2>1, <2>2, <2>3 DEF NoRepeat
<1>12. h[z - b] = Shape(t) /\ Len(r.id) - b = z + 1 - b
  BY <1>2, <1>4
<1>13. QED
  BY <1>7, <1>8, <1>10, <1>11, <1>12 DEF Tells
----------------------------------------------------------------------------
(* Insertions *)

LEMMA KeysHas ==
  ASSUME NEW t
  PROVE  \A k : k \in KeysIn(t) <=> \E w : Has(t, k, w)
BY DEF KeysIn, Has

\* Two tables with the same entries, or the same keys, have the same keys.
LEMMA SameKeysIn ==
  ASSUME NEW t, NEW r, \A a, w : Has(r, a, w) <=> Has(t, a, w)
  PROVE  KeysIn(r) = KeysIn(t)
BY KeysHas

LEMMA KeysAre ==
  ASSUME NEW t, IsTable(t)
  PROVE  KeysIn(t) \subseteq Keys
BY DEF KeysIn, IsTable, Occupied

\* No collider of the table would have to move.
NothingMoves(t) == \A mp \in Occupied(t) : ~ MustMove(t, mp)

\* The shape after a key was put at p, or its old key moved to n first.
LEMMA ShapePut ==
  ASSUME NEW t, NEW r, Nodes(r) = Nodes(t), NEW p \in Nodes(t),
         NEW k, k # Free,
         \A i \in Nodes(t) : r.key[i] = IF i = p THEN k ELSE t.key[i]
  PROVE  Shape(r) = [Shape(t) EXCEPT ![p] = {Addr[k]}]
<1>1. PICK f : f = Shape(t)
  OBVIOUS
<1>2. f = [i \in Nodes(t) |-> IF t.key[i] = Free THEN {} ELSE {Addr[t.key[i]]}]
  BY <1>1 DEF Shape
<1>3. PICK g : g = Shape(r)
  OBVIOUS
<1>4. g = [i \in Nodes(t) |-> IF r.key[i] = Free THEN {} ELSE {Addr[r.key[i]]}]
  BY <1>3 DEF Shape
<1>5. \A i \in Nodes(t) : g[i] = IF i = p THEN {Addr[k]} ELSE f[i]
  BY <1>2, <1>4
<1>6. DOMAIN f = Nodes(t) /\ g = [i \in Nodes(t) |-> g[i]]
  BY <1>2, <1>4
<1>7. g = [i \in Nodes(t) |-> IF i = p THEN {Addr[k]} ELSE f[i]]
  BY <1>4, <1>5
<1>8. [f EXCEPT ![p] = {Addr[k]}] =
        [i \in Nodes(t) |-> IF i = p THEN {Addr[k]} ELSE f[i]]
  BY <1>6
<1>9. QED
  BY <1>1, <1>3, <1>7, <1>8

LEMMA ShapeMove ==
  ASSUME NEW t, NEW r, Nodes(r) = Nodes(t), NEW p \in Nodes(t),
         NEW n \in Nodes(t), n # p, NEW k, k # Free, t.key[p] # Free,
         \A i \in Nodes(t) : r.key[i] = IF i = p THEN k
                                      ELSE IF i = n THEN t.key[p]
                                      ELSE t.key[i],
         NEW f, f = Shape(t), NEW g, g = Shape(r)
  PROVE  g = [f EXCEPT ![n] = f[p], ![p] = {Addr[k]}]
<1>1. f = [i \in Nodes(t) |-> IF t.key[i] = Free THEN {} ELSE {Addr[t.key[i]]}]
  BY DEF Shape
<1>2. g = [i \in Nodes(t) |-> IF r.key[i] = Free THEN {} ELSE {Addr[r.key[i]]}]
  BY DEF Shape
<1>3. \A i \in Nodes(t) : g[i] = IF i = p THEN {Addr[k]}
                                ELSE IF i = n THEN f[p] ELSE f[i]
  <2>1. \A i \in Nodes(t) :
          /\ f[i] = IF t.key[i] = Free THEN {} ELSE {Addr[t.key[i]]}
          /\ g[i] = IF r.key[i] = Free THEN {} ELSE {Addr[r.key[i]]}
    BY <1>1, <1>2
  <2>2. g[p] = {Addr[k]}
    BY <2>1
  <2>3. g[n] = f[p]
    <3>1. r.key[n] = t.key[p]
      OBVIOUS
    <3>2. QED
      BY <2>1, <3>1
  <2>4. ASSUME NEW i \in Nodes(t), i # p, i # n
        PROVE  g[i] = f[i]
    <3>1. r.key[i] = t.key[i]
      BY <2>4
    <3>2. QED
      BY <2>1, <3>1
  <2>5. QED
    BY <2>2, <2>3, <2>4
<1>4. DOMAIN f = Nodes(t)
  BY <1>1
<1>5. g = [i \in Nodes(t) |-> IF i = p THEN {Addr[k]}
                             ELSE IF i = n THEN f[p] ELSE f[i]]
  BY <1>2, <1>3
<1>6. [f EXCEPT ![n] = f[p], ![p] = {Addr[k]}] =
        [i \in Nodes(t) |-> IF i = p THEN {Addr[k]}
                           ELSE IF i = n THEN f[p] ELSE f[i]]
  BY <1>4
<1>7. QED
  BY <1>5, <1>6

\* An Insert that succeeds is the entry that it appends to the type id.
LEMMA InsertPlaces ==
  ASSUME NEW t, Sound(t), NEW k \in Keys, Absent(t, k), NEW v \in Vals,
         Insert(t, k, v).ok, Packed(t) \/ NothingMoves(t)
  PROVE  LET r == Insert(t, k, v).tab
             p == Claim(t, k).pos
         IN  /\ Placing(Shape(t), Shape(r), <<p, Addr[k]>>)
             /\ r.id = IF k \in StringKeys /\ t.size <= TypedNodes
                       THEN IF t.id # <<>> \/ t.used = 0
                            THEN Append(t.id, <<p, Addr[k]>>)
                            ELSE t.id
                       ELSE <<>>
<1> DEFINE c  == Claim(t, k)
           t1 == PutKey(c.tab, c.pos, k)
           fb == FreeBelow(t1)
           n  == t.firstfree
           r  == Insert(t, k, v).tab
           e  == <<c.pos, Addr[k]>>
<1>1. /\ IsTable(t) /\ n \in Nodes(t) /\ Nodes(t) \subseteq Nat /\ k # Free
      /\ t.key[n] = Free
  BY NodeFacts, KeysAssumption DEF Sound, Placed
<1>2. r = Fill(t1, c.pos, v, Highest(fb), NextId(t1, k, c.pos))
  BY InsertCases
<1>3. PICK x : Claimed(t, t1, k, c.pos, x)
  BY ClaimSound
<1>4. \/ /\ t.key[c.pos] = Free
         /\ t1.key = [t.key EXCEPT ![c.pos] = k]
      \/ /\ t.key[c.pos] # Free /\ MustMove(t, c.pos)
         /\ t1.key = [t.key EXCEPT ![n] = t.key[c.pos], ![c.pos] = k]
  BY ClaimKeys
<1>5. e[1] = c.pos /\ e[2] = Addr[k]
  OBVIOUS
<1> HIDE DEF t1, c, fb, e
<1>6. /\ c.pos \in Nodes(t) /\ IsTable(t1) /\ t1.size = t.size
      /\ t1.used = t.used /\ t1.id = t.id
  BY <1>3 DEF Claimed, Placed
<1>7. /\ r.key = t1.key /\ Nodes(r) = Nodes(t) /\ r.size = t.size
      /\ r.id = NextId(t1, k, c.pos)
  BY <1>2, <1>6 DEF Fill, IsTable, Fields, Nodes
<1> HIDE DEF r
<1>8. /\ DOMAIN Shape(t) = Nodes(t)
      /\ \A i \in Nodes(t) :
           /\ Shape(t)[i] = {} <=> t.key[i] = Free
           /\ t.key[i] # Free => Shape(t)[i] = {Addr[t.key[i]]}
  BY DEF Shape
<1>10. Placing(Shape(t), Shape(r), e)
  <2>1. CASE /\ t.key[c.pos] = Free
             /\ t1.key = [t.key EXCEPT ![c.pos] = k]
    <3>1. \A i \in Nodes(t) : t1.key[i] = IF i = c.pos THEN k ELSE t.key[i]
      BY <1>1, <1>6, <2>1 DEF IsTable
    <3>2. Shape(r) = [Shape(t) EXCEPT ![c.pos] = {Addr[k]}]
      BY <1>1, <1>6, <1>7, <3>1, ShapePut
    <3>3. QED
      BY <1>5, <1>6, <1>8, <2>1, <3>2 DEF Placing
  <2>2. CASE /\ t.key[c.pos] # Free /\ MustMove(t, c.pos)
             /\ t1.key = [t.key EXCEPT ![n] = t.key[c.pos], ![c.pos] = k]
    <3>1. c.pos \in Occupied(t) /\ n < c.pos
      BY <1>1, <1>6, <2>2 DEF Occupied, MustMove
    <3>2. Packed(t)
      BY <2>2, <3>1 DEF NothingMoves
    <3>3. \A i \in Nodes(t) : t1.key[i] = IF i = c.pos THEN k
                                          ELSE IF i = n THEN t.key[c.pos]
                                          ELSE t.key[i]
      BY <1>1, <1>6, <2>2, <3>1 DEF IsTable
    <3>4. PICK f, g, p : f = Shape(t) /\ g = Shape(r) /\ p = c.pos
      OBVIOUS
    <3>5. g = [f EXCEPT ![n] = f[p], ![p] = {Addr[k]}]
      <4>1. n # p /\ p \in Nodes(t) /\ n \in Nodes(t) /\ t.key[p] # Free
        BY <1>1, <1>6, <2>2, <3>4
      <4>2. \A i \in Nodes(t) : r.key[i] = IF i = p THEN k
                                          ELSE IF i = n THEN t.key[p]
                                          ELSE t.key[i]
        BY ONLY <1>7, <3>3, <3>4
      <4>3. f = Shape(t) /\ g = Shape(r) /\ Nodes(r) = Nodes(t) /\ k # Free
        BY ONLY <1>1, <1>7, <3>4
      <4>4. QED
        BY ONLY <4>1, <4>2, <4>3, ShapeMove
    <3>6. \A i \in Nodes(t) : Shape(t)[i] = {} => i <= n
      BY <1>8, <3>2 DEF Packed
    <3>7. Shape(t)[c.pos] # {} /\ Shape(t)[n] = {}
      BY <1>1, <1>6, <1>8, <2>2
    <3>8. /\ p \in DOMAIN f /\ n \in DOMAIN f /\ n < p
          /\ f[p] # {} /\ f[n] = {}
          /\ \A i \in DOMAIN f : f[i] = {} => i <= n
      <4>1. DOMAIN f = Nodes(t) /\ p \in Nodes(t) /\ n \in Nodes(t) /\ n < p
        BY ONLY <1>1, <1>6, <1>8, <3>1, <3>4
      <4>2. f[p] # {} /\ f[n] = {}
        BY ONLY <3>4, <3>7
      <4>3. \A i \in Nodes(t) : f[i] = {} => i <= n
        BY ONLY <3>4, <3>6
      <4>4. QED
        BY ONLY <4>1, <4>2, <4>3
    <3>9. Placing(f, g, e)
      <4>1. e[1] = p /\ e[2] = Addr[k]
        BY ONLY <1>5, <3>4
      <4>2. QED
        BY ONLY <3>5, <3>8, <4>1 DEF Placing
    <3>10. QED
      BY <3>4, <3>9
  <2>3. QED
    BY <1>4, <2>1, <2>2
<1>11. QED
  BY <1>6, <1>7, <1>10 DEF NextId, r, e, c

----------------------------------------------------------------------------
(* Tables whose ids are right *)

AllHome(t) == \A i \in Occupied(t) : MainPos(t, t.key[i]) = i

\* What an insertion finds in a table that will have an id: nothing was ever
\* removed from its array, unless the array is so small that nothing moves.
Regular(t) ==
  t.id # <<>> \/ t.used = 0 =>
    /\ Packed(t) \/ t.size <= 3
    /\ t.used = 1 => AllHome(t)

\* Below b the id is that of an earlier array.
TellsFrom(t, b) == t.id # <<>> \/ t.used = 0 => Tells(t, b)

\* A table without keys tells nothing, whatever the id is so far.
LEMMA TellsNothing ==
  ASSUME NEW t, IsTable(t), Occupied(t) = {}
  PROVE  Tells(t, Len(t.id))
<1>1. PICK z \in Nat : z = Len(t.id)
  BY DEF IsTable, TypeIds
<1>2. PICK h : h = [j \in 0 .. 0 |-> [i \in 0 .. t.size - 1 |-> {}]]
  OBVIOUS
<1>3. z - z = 0 /\ (1 .. z - z) = {} /\ (z + 1 .. z) = {}
  BY <1>1
<1>4. h[0] = [i \in 0 .. t.size - 1 |-> {}]
  BY <1>2
<1>5. h[0] = Shape(t)
  <2>1. \A i \in Nodes(t) : t.key[i] = Free
    BY DEF Occupied
  <2>2. QED
    BY <1>4, <2>1 DEF Shape, Nodes
<1>6. Story(t.id, z, t.size, h)
  BY <1>1, <1>3, <1>4 DEF Story
<1>7. KeyAddrs(t) = {} /\ Since(t.id, z) = {} /\ NoRepeat(t.id, z)
  BY <1>1, <1>3 DEF KeyAddrs, KeysIn, Since, NoRepeat
<1>8. QED
  BY <1>1, <1>3, <1>5, <1>6, <1>7 DEF Tells

\* In an array of three nodes, the third key fills it and the first one is at
\* home: nothing moves.
LEMMA SmallStays ==
  ASSUME NEW t, Sound(t), Regular(t), t.id # <<>> \/ t.used = 0,
         t.size <= 3, NEW k \in Keys, Absent(t, k), NEW v \in Vals,
         Insert(t, k, v).ok
  PROVE  NothingMoves(t)
<1>1. /\ IsTable(t) /\ t.used \in Nat /\ t.size \in Nat
      /\ t.used = Cardinality(Occupied(t)) /\ IsFiniteSet(Occupied(t))
  BY UsedBelowSize, OccupiedCount DEF Sound, Placed, IsTable
<1>2. t.used + 1 < t.size
  <2>1. PICK r : r = Insert(t, k, v).tab
    OBVIOUS
  <2>2. Sound(r) /\ r.size = t.size /\ r.used = t.used + 1
    BY <2>1, InsertOk DEF Inserted
  <2>3. QED
    BY <2>2, UsedBelowSize
<1>3. CASE t.used = 0
  BY <1>1, <1>3, FS_EmptySet DEF NothingMoves
<1>4. CASE t.used = 1
  BY <1>4 DEF Regular, AllHome, NothingMoves, MustMove
<1>5. QED
  BY <1>1, <1>2, <1>3, <1>4

\* A table gets an id only when it has one or has no key.
LEMMA InsertId ==
  ASSUME NEW t, Sound(t), NEW k \in Keys, Absent(t, k), NEW v \in Vals,
         Insert(t, k, v).ok
  PROVE  Insert(t, k, v).tab.id # <<>> => t.id # <<>> \/ t.used = 0
<1> DEFINE c  == Claim(t, k)
           t1 == PutKey(c.tab, c.pos, k)
           fb == FreeBelow(t1)
           r  == Insert(t, k, v).tab
<1>1. r = Fill(t1, c.pos, v, Highest(fb), NextId(t1, k, c.pos))
  BY InsertCases
<1>2. PICK x : Claimed(t, t1, k, c.pos, x)
  BY ClaimSound
<1> HIDE DEF t1, c, fb
<1>3. IsTable(t1) /\ t1.used = t.used /\ t1.id = t.id
  BY <1>2 DEF Claimed, Placed
<1>4. r.id = NextId(t1, k, c.pos)
  BY <1>1, <1>3 DEF Fill, IsTable, Fields
<1>5. QED
  BY <1>3, <1>4 DEF NextId

\* The first key of a table goes to its main position.
LEMMA FirstAtHome ==
  ASSUME NEW t, Sound(t), Occupied(t) = {}, NEW k \in Keys, NEW v \in Vals,
         Insert(t, k, v).ok
  PROVE  AllHome(Insert(t, k, v).tab)
<1> DEFINE mp == MainPos(t, k)
           t1 == PutKey(t, mp, k)
           fb == FreeBelow(t1)
           r  == Insert(t, k, v).tab
<1>1. IsTable(t) /\ mp \in Nodes(t) /\ \A i \in Nodes(t) : t.key[i] = Free
  <2>1. IsTable(t)
    BY DEF Sound, Placed
  <2>2. mp \in Nodes(t)
    BY <2>1, MainPosIsNode
  <2>3. QED
    BY <2>1, <2>2 DEF Occupied
<1>2. Claim(t, k) = [tab |-> t, pos |-> mp]
  BY <1>1 DEF Claim
<1>3. r = Fill(t1, mp, v, Highest(fb), NextId(t1, k, mp))
  <2>1. Claim(t, k).tab = t /\ Claim(t, k).pos = mp
    BY <1>2
  <2>2. Insert(t, k, v) =
          IF fb = {} THEN [ok |-> FALSE, tab |-> [t1 EXCEPT !.firstfree = 0]]
          ELSE [ok |-> TRUE,
                tab |-> Fill(t1, mp, v, Highest(fb), NextId(t1, k, mp))]
    BY <2>1 DEF Insert
  <2> HIDE DEF fb, t1, mp
  <2>3. QED
    BY <2>2
<1>4. /\ t1.key = [t.key EXCEPT ![mp] = k] /\ t1.size = t.size
      /\ DOMAIN t1 = Fields
  BY <1>1 DEF PutKey, IsTable, Fields
<1> HIDE DEF mp, t1, fb
<1>5. r.key = t1.key /\ r.size = t.size
  BY <1>3, <1>4 DEF Fill, Fields
<1> HIDE DEF r
<1>6. \A i \in Nodes(t) : r.key[i] # Free => i = mp /\ r.key[i] = k
  BY <1>1, <1>4, <1>5 DEF IsTable
<1>7. AllHome(r)
  BY <1>5, <1>6 DEF AllHome, Occupied, Nodes, MainPos, mp
<1>8. QED
  BY <1>7 DEF r

\* An insertion into a Regular table: the id goes on with the story.
LEMMA InsertRegular ==
  ASSUME NEW t, Sound(t), Regular(t), NEW b \in 0 .. Len(t.id),
         TellsFrom(t, b), NEW k \in Keys, Absent(t, k), NEW v \in Vals,
         Insert(t, k, v).ok, Addr[k] \notin KeyAddrs(t)
  PROVE  LET r == Insert(t, k, v).tab
         IN  /\ Regular(r) /\ TellsFrom(r, b)
             /\ r.used # 0
             /\ r.id # <<>> =>
                  /\ Len(r.id) = Len(t.id) + 1
                  /\ \A j \in 1 .. Len(t.id) : r.id[j] = t.id[j]
<1> DEFINE r == Insert(t, k, v).tab
           p == Claim(t, k).pos
           e == <<p, Addr[k]>>
<1>1. IsTable(t) /\ t.id \in TypeIds /\ t.used \in Nat
  BY UsedBelowSize DEF Sound, Placed, IsTable
<1>2. Inserted(t, r, k, v)
  BY InsertOk
<1>3. Packed(t) => Packed(r)
  BY InsertStaysPacked
<1>4. Packed(t) \/ NothingMoves(t) =>
        /\ Placing(Shape(t), Shape(r), e)
        /\ r.id = IF k \in StringKeys /\ t.size <= TypedNodes
                  THEN IF t.id # <<>> \/ t.used = 0
                       THEN Append(t.id, e)
                       ELSE t.id
                  ELSE <<>>
  BY InsertPlaces
<1>5. e[2] = Addr[k]
  OBVIOUS
<1> HIDE DEF r, e, p
<1>6. /\ Sound(r) /\ r.size = t.size /\ r.used = t.used + 1 /\ r.used # 0
      /\ \A a, w : Has(r, a, w) <=> (a = k /\ w = v) \/ Has(t, a, w)
  BY <1>1, <1>2 DEF Inserted
<1>7. KeysIn(r) = KeysIn(t) \union {k}
  BY <1>6, KeysHas
<1>8. KeyAddrs(r) = KeyAddrs(t) \union {Addr[k]}
  BY <1>7 DEF KeyAddrs
<1>9. r.id # <<>> => t.id # <<>> \/ t.used = 0
  BY InsertId DEF r
<1>10. ASSUME r.id # <<>>
       PROVE  /\ Packed(r) \/ r.size <= 3
              /\ r.used = 1 => AllHome(r)
              /\ Tells(r, b)
              /\ Len(r.id) = Len(t.id) + 1
              /\ \A j \in 1 .. Len(t.id) : r.id[j] = t.id[j]
  <2>1. t.id # <<>> \/ t.used = 0
    BY <1>9, <1>10
  <2>2. Packed(t) \/ t.size <= 3
    BY <2>1 DEF Regular
  <2>3. Packed(t) \/ NothingMoves(t)
    BY <2>1, <2>2, SmallStays
  <2>4. Placing(Shape(t), Shape(r), e) /\ r.id = Append(t.id, e)
    BY <1>4, <1>10, <2>1, <2>3
  <2>5. Tells(t, b)
    BY <2>1 DEF TellsFrom
  <2>6. Tells(r, b)
    BY <1>1, <1>5, <1>6, <1>8, <2>4, <2>5, TellsOn
  <2>7. /\ Len(r.id) = Len(t.id) + 1
        /\ \A j \in 1 .. Len(t.id) : r.id[j] = t.id[j]
    BY <1>1, <2>4 DEF TypeIds
  <2>8. ASSUME r.used = 1
        PROVE  AllHome(r)
    <3>1. t.used = 0
      BY <1>1, <1>6, <2>8
    <3>2. Occupied(t) = {}
      BY <1>1, <3>1, OccupiedCount, FS_EmptySet DEF Sound
    <3>3. QED
      BY <3>2, FirstAtHome DEF r
  <2>9. QED
    BY <1>3, <1>6, <2>2, <2>6, <2>7, <2>8
<1>11. Regular(r) /\ TellsFrom(r, b)
  BY <1>6, <1>10 DEF Regular, TellsFrom
<1>12. QED
  BY <1>6, <1>10, <1>11 DEF r
----------------------------------------------------------------------------
(* Rehash *)

\* What the loop of Rehash keeps, besides Filled: the id of the old array is
\* the beginning of the new one.
Retold(t, cur) ==
  /\ Regular(cur)
  /\ TellsFrom(cur, Len(t.id))
  /\ cur.id # <<>> \/ cur.used = 0 =>
       /\ Len(cur.id) >= Len(t.id)
       /\ \A j \in 1 .. Len(t.id) : cur.id[j] = t.id[j]

LEMMA RetoldStep ==
  ASSUME NEW t, Placed(t), Apart(t),
         NEW n \in Nat \ {0}, Cardinality(Occupied(t)) < n,
         NEW i \in 1 .. t.size, NEW cur, Filled(t, n, cur, i - 1),
         Retold(t, cur)
  PROVE  Retold(t, RehashStep(t, cur, i))
<1>1. IsTable(t) /\ i - 1 \in Nodes(t) /\ t.id \in TypeIds
  BY DEF Placed, IsTable, Nodes
<1>2. CASE t.key[i - 1] = Free
  BY <1>2 DEF RehashStep
<1>3. CASE t.key[i - 1] # Free
  <2> DEFINE k == t.key[i - 1]
             v == t.val[i - 1]
             r == Insert(cur, k, v).tab
  <2>1. k \in Keys /\ v \in Vals /\ i - 1 \in Occupied(t)
    BY <1>1, <1>3 DEF IsTable, Occupied
  <2>2. RehashStep(t, cur, i) = r
    BY <1>3 DEF RehashStep
  <2>3. Insert(cur, k, v).ok
    BY <1>3, FilledStep
  <2> HIDE DEF k, v
  <2>4. /\ Sound(cur) /\ IsTable(cur) /\ cur.id \in TypeIds
        /\ \A a, w : Has(cur, a, w) <=>
                       \E j \in Upto(t, i - 1) : t.key[j] = a /\ t.val[j] = w
    BY DEF Filled, Sound, Placed, IsTable
  <2>5. KeysIn(cur) \subseteq KeysIn(t) /\ k \notin KeysIn(cur) /\ k \in KeysIn(t)
    <3>1. ASSUME NEW a \in KeysIn(cur)
          PROVE  a \in KeysIn(t) /\ a # k
      <4>1. PICK w : Has(cur, a, w)
        BY <3>1, KeysHas
      <4>2. PICK j \in Upto(t, i - 1) : t.key[j] = a
        BY <2>4, <4>1
      <4>3. j \in Occupied(t) /\ j < i - 1
        BY <4>2 DEF Upto
      <4>4. j # i - 1
        <5>1. j \in Nat /\ i \in Nat
          BY <1>1, <4>3, NodeFacts DEF Occupied, IsTable
        <5>2. QED
          BY <4>3, <5>1
      <4>5. QED
        BY <2>1, <4>2, <4>3, <4>4 DEF KeysIn, Placed, k
    <3>2. QED
      BY <2>1, <3>1 DEF KeysIn, k
  <2>6. Absent(cur, k) /\ Addr[k] \notin KeyAddrs(cur)
    <3>1. Absent(cur, k)
      BY <2>1, <2>5, KeysAssumption DEF Absent, KeysIn, Occupied
    <3>2. Addr[k] \notin KeyAddrs(cur)
      BY <2>5 DEF KeyAddrs, Apart
    <3>3. QED
      BY <3>1, <3>2
  <2>7. PICK z \in Nat : z = Len(t.id)
    BY <1>1 DEF TypeIds
  <2>8. PICK y \in Nat : y = Len(cur.id)
    BY <2>4 DEF TypeIds
  <2>9. r.id # <<>> => cur.id # <<>> \/ cur.used = 0
    BY <2>1, <2>3, <2>4, <2>6, InsertId
  <2>10. CASE cur.id # <<>> \/ cur.used = 0
    <3>1. /\ y >= z
          /\ \A j \in 1 .. z : cur.id[j] = t.id[j]
      BY <2>7, <2>8, <2>10 DEF Retold
    <3>2. z \in 0 .. Len(cur.id)
      BY <2>8, <3>1
    <3>3. /\ Regular(r) /\ TellsFrom(r, z) /\ r.used # 0
          /\ r.id # <<>> => /\ Len(r.id) = Len(cur.id) + 1
                            /\ \A j \in 1 .. Len(cur.id) : r.id[j] = cur.id[j]
      BY <2>1, <2>3, <2>4, <2>6, <2>7, <3>2, InsertRegular DEF Retold
    <3> HIDE DEF r
    <3>4. r.id # <<>> => /\ Len(r.id) >= z
                         /\ \A j \in 1 .. z : r.id[j] = t.id[j]
      <4>1. \A j \in 1 .. z : j \in 1 .. y
        BY <3>1
      <4>2. QED
        BY <2>8, <3>1, <3>3, <4>1
    <3>5. QED
      BY <2>2, <2>7, <3>3, <3>4 DEF Retold
  <2>11. CASE ~ (cur.id # <<>> \/ cur.used = 0)
    <3>1. Inserted(cur, r, k, v) /\ cur.used \in Nat
      BY <2>1, <2>3, <2>4, <2>6, InsertOk, UsedBelowSize
    <3> HIDE DEF r
    <3>2. r.used # 0
      BY <3>1 DEF Inserted
    <3>3. r.id = <<>>
      BY <2>9, <2>11
    <3>4. QED
      BY <2>2, <3>2, <3>3 DEF Retold, Regular, TellsFrom
  <2>12. QED
    BY <2>10, <2>11
<1>4. QED
  BY <1>2, <1>3

\* A Rehash that moves the keys retells them.
LEMMA RehashRetells ==
  ASSUME NEW t, Placed(t), Counted(t), Apart(t), NEW force,
         NewSize(t, force) # t.size
  PROVE  Retold(t, Rehash(t, force))
<1> DEFINE n == NewSize(t, force)
           f == Reinserted(t, n)
           S == {i \in 0 .. t.size : Retold(t, f[i])}
<1>1. IsTable(t) /\ t.size \in 0 .. t.size /\ t.size \in Nat /\ t.id \in TypeIds
  BY DEF Placed, IsTable
<1>2. n \in Nat \ {0} /\ Cardinality(Occupied(t)) < n
  BY <1>1, NewSizeType, NewSizeRoom
<1>3. IsRun(t, n, t.size, f)
  BY <1>1, ReinsertedIsRun
<1>4. Rehash(t, force) = f[t.size]
  BY DEF Rehash
<1> HIDE DEF n, f
<1>5. \A i \in 0 .. t.size : Filled(t, n, f[i], i)
  BY <1>2, <1>3, RunFilled
<1>6. f = [i \in 0 .. t.size |-> IF i = 0 THEN RehashStart(t, n)
                                           ELSE RehashStep(t, f[i - 1], i)]
  BY <1>3 DEF IsRun
<1>7. 0 \in S
  <2>1. f[0] = RehashStart(t, n)
    BY <1>1, <1>6
  <2>2. /\ f[0].id = t.id /\ f[0].used = 0
    BY <2>1 DEF RehashStart, AllocNodes
  <2>3. /\ Sound(f[0]) /\ Packed(f[0]) /\ IsTable(f[0])
    BY <1>1, <1>5 DEF Filled, Sound, Placed
  <2>4. Occupied(f[0]) = {}
    BY <2>2, <2>3, OccupiedCount, FS_EmptySet DEF Sound
  <2>5. Tells(f[0], Len(t.id))
    BY <2>2, <2>3, <2>4, TellsNothing
  <2>6. Len(t.id) >= Len(t.id)
    BY <1>1 DEF TypeIds
  <2>7. Retold(t, f[0])
    BY <2>2, <2>3, <2>5, <2>6 DEF Retold, Regular, TellsFrom
  <2>8. QED
    BY <1>1, <2>7
<1>8. ASSUME NEW i \in 1 .. t.size, i - 1 \in S
      PROVE  i \in S
  <2>1. f[i] = RehashStep(t, f[i - 1], i) /\ i \in 0 .. t.size
    BY <1>1, <1>6
  <2>2. Filled(t, n, f[i - 1], i - 1) /\ Retold(t, f[i - 1])
    BY <1>1, <1>5, <1>8
  <2>3. Retold(t, f[i])
    BY <1>2, <2>1, <2>2, RetoldStep
  <2>4. QED
    BY <2>1, <2>3
<1>9. \A i \in 0 .. t.size : i \in S
  <2> HIDE DEF S
  <2>1. QED
    BY <1>1, <1>7, <1>8, InductionUpTo
<1>10. QED
  BY <1>1, <1>4, <1>9

----------------------------------------------------------------------------
(* The operations *)

\* What holds of the table of the instruction between operations.
Known(t) ==
  /\ Sound(t)
  /\ Apart(t)
  /\ Regular(t)
  /\ t.id # <<>> =>
       \E b \in 0 .. Len(t.id) - 1 : Tells(t, b) /\ BeginsWhole(t.id, b)

\* Values are no part of it.
LEMMA KnownFrame ==
  ASSUME NEW t, Known(t), NEW r, Sound(r), r.size = t.size, r.key = t.key,
         r.next = t.next, r.firstfree = t.firstfree, r.used = t.used,
         r.id = t.id
  PROVE  Known(r)
<1>1. /\ Nodes(r) = Nodes(t) /\ Occupied(r) = Occupied(t)
      /\ \A k : MainPos(r, k) = MainPos(t, k)
  BY DEF Nodes, Occupied, MainPos
<1>2. KeysIn(r) = KeysIn(t) /\ KeyAddrs(r) = KeyAddrs(t) /\ Shape(r) = Shape(t)
  BY <1>1 DEF KeysIn, KeyAddrs, Shape
<1>3. Apart(r) /\ Regular(r)
  BY <1>1, <1>2 DEF Known, Apart, Regular, Packed, AllHome
<1>4. \A b : Tells(t, b) => Tells(r, b)
  BY <1>2 DEF Tells
<1>5. QED
  BY <1>3, <1>4 DEF Known

LEMMA KnownSetVal ==
  ASSUME NEW t, Known(t), NEW i \in Occupied(t), NEW v \in Vals
  PROVE  Known(SetVal(t, i, v))
<1>1. Sound(t) /\ IsTable(t)
  BY DEF Known, Sound, Placed
<1>2. PICK r : r = SetVal(t, i, v)
  OBVIOUS
<1>3. Sound(r)
  BY <1>1, <1>2, SetValSound
<1>4. /\ r.size = t.size /\ r.key = t.key /\ r.next = t.next
      /\ r.firstfree = t.firstfree /\ r.used = t.used /\ r.id = t.id
  BY <1>1, <1>2 DEF SetVal, IsTable, Fields
<1>5. QED
  BY <1>2, <1>3, <1>4, KnownFrame

\* A table with an empty id only has to be Regular.
LEMMA KnownUntyped ==
  ASSUME NEW t, Sound(t), Apart(t), t.id = <<>>,
         t.used = 0 => Packed(t) \/ t.size <= 3
  PROVE  Known(t)
BY DEF Known, Regular

\* An id that is not empty tells of a key.
LEMMA RetoldIsKnown ==
  ASSUME NEW t, t.id \in TypeIds, NEW r, Sound(r), Packed(r), Apart(r),
         Retold(t, r),
         t.id # <<>> => t.id[Len(t.id)][2] \in KeyAddrs(r),
         r.id # <<>> => KeyAddrs(r) # {}
  PROVE  Known(r)
<1>1. Regular(r)
  BY DEF Retold
<1>2. ASSUME r.id # <<>>
      PROVE  \E b \in 0 .. Len(r.id) - 1 : Tells(r, b) /\ BeginsWhole(r.id, b)
  <2>1. PICK z \in Nat : z = Len(t.id)
    BY DEF TypeIds
  <2>2. /\ Tells(r, z) /\ Len(r.id) >= z
        /\ \A j \in 1 .. z : r.id[j] = t.id[j]
    BY <1>2, <2>1 DEF Retold, TellsFrom
  <2>3. PICK y \in Nat : y = Len(r.id)
    BY DEF Sound, Placed, IsTable, TypeIds
  <2>4. Since(r.id, z) = KeyAddrs(r)
    BY <2>2 DEF Tells
  <2>5. z \in 0 .. y - 1
    <3>1. PICK j \in z + 1 .. y : TRUE
      BY <1>2, <2>3, <2>4 DEF Since
    <3>2. QED
      BY <3>1
  <2>6. BeginsWhole(r.id, z)
    <3>1. ASSUME z > 0
          PROVE  r.id[z][2] \in Since(r.id, z)
      <4>1. t.id # <<>> /\ r.id[z] = t.id[z]
        BY <2>1, <2>2, <3>1
      <4>2. QED
        BY <2>1, <2>4, <4>1
    <3>2. QED
      BY <3>1 DEF BeginsWhole
  <2>7. QED
    BY <2>2, <2>3, <2>5, <2>6
<1>3. QED
  BY <1>1, <1>2 DEF Known
\* Apart says that the new key has an address of its own.
LEMMA NewAddress ==
  ASSUME NEW t, NEW r, NEW k \in Keys, Absent(t, k), Apart(r),
         KeysIn(r) = KeysIn(t) \union {k}
  PROVE  /\ Addr[k] \notin KeyAddrs(t)
         /\ KeyAddrs(r) = KeyAddrs(t) \union {Addr[k]}
<1>1. k \notin KeysIn(t)
  BY DEF KeysIn, Absent, Occupied
<1>2. QED
  BY <1>1 DEF Apart, KeyAddrs

LEMMA KnownInsert ==
  ASSUME NEW t, Known(t), NEW k \in Keys, Absent(t, k), NEW v \in Vals,
         Insert(t, k, v).ok, NEW r, r = Insert(t, k, v).tab, Apart(r)
  PROVE  Known(r)
<1>1. /\ Sound(t) /\ IsTable(t) /\ t.id \in TypeIds /\ Regular(t)
  BY DEF Known, Sound, Placed, IsTable
<1>2. Inserted(t, r, k, v)
  BY <1>1, InsertOk
<1>3. KeysIn(r) = KeysIn(t) \union {k}
  BY <1>2, KeysHas DEF Inserted
<1>4. /\ Addr[k] \notin KeyAddrs(t)
      /\ KeyAddrs(r) = KeyAddrs(t) \union {Addr[k]}
  BY <1>3, NewAddress
<1>5. PICK z \in Nat : z = Len(t.id)
  BY <1>1 DEF TypeIds
<1>6. PICK b \in 0 .. z :
        /\ TellsFrom(t, b)
        /\ z # 0 => b # z /\ BeginsWhole(t.id, b)
  <2>1. CASE t.id # <<>>
    <3>1. PICK b \in 0 .. z - 1 : Tells(t, b) /\ BeginsWhole(t.id, b)
      BY <1>5, <2>1 DEF Known
    <3>2. b \in 0 .. z /\ b # z
      BY <3>1
    <3>3. QED
      BY <3>1, <3>2 DEF TellsFrom
  <2>2. CASE t.id = <<>>
    <3>1. z = 0 /\ 0 \in 0 .. z
      BY <1>5, <2>2
    <3>2. TellsFrom(t, 0)
      <4>1. ASSUME t.used = 0
            PROVE  Tells(t, 0)
        <5>1. Occupied(t) = {}
          BY <1>1, <4>1, OccupiedCount, FS_EmptySet DEF Sound
        <5>2. QED
          BY <1>1, <1>5, <3>1, <5>1, TellsNothing
      <4>2. QED
        BY <2>2, <4>1 DEF TellsFrom
    <3>3. QED
      BY <3>1, <3>2
  <2>3. QED
    BY <2>1, <2>2
<1>7. /\ Regular(r) /\ TellsFrom(r, b)
      /\ r.id # <<>> =>
           /\ Len(r.id) = z + 1
           /\ \A j \in 1 .. z : r.id[j] = t.id[j]
  BY <1>1, <1>4, <1>5, <1>6, InsertRegular
<1>8. ASSUME r.id # <<>>
      PROVE  \E c \in 0 .. Len(r.id) - 1 : Tells(r, c) /\ BeginsWhole(r.id, c)
  <2>1. Len(r.id) = z + 1 /\ b \in 0 .. Len(r.id) - 1
    BY <1>5, <1>6, <1>7, <1>8
  <2>2. Tells(r, b) /\ Since(r.id, b) = KeyAddrs(r)
    BY <1>7, <1>8 DEF TellsFrom, Tells
  <2>3. ASSUME b > 0
        PROVE  r.id[b][2] \in Since(r.id, b)
    <3>1. z # 0 /\ b \in 1 .. z /\ t.id # <<>>
      BY <1>5, <1>6, <2>3
    <3>2. t.id[b][2] \in Since(t.id, b)
      BY <1>6, <2>3, <3>1 DEF BeginsWhole
    <3>3. Since(t.id, b) = KeyAddrs(t)
      BY <1>6, <3>1 DEF TellsFrom, Tells
    <3>4. r.id[b] = t.id[b]
      BY <1>7, <1>8, <3>1
    <3>5. QED
      BY <1>4, <2>2, <3>2, <3>3, <3>4
  <2>4. QED
    BY <2>1, <2>2, <2>3 DEF BeginsWhole
<1>9. QED
  BY <1>2, <1>7, <1>8 DEF Known, Inserted

\* The last key of the id is a key of the table.
LEMMA LastIsKey ==
  ASSUME NEW t, Known(t), t.id # <<>>
  PROVE  t.id[Len(t.id)][2] \in KeyAddrs(t)
<1>1. PICK z \in Nat : z = Len(t.id)
  BY DEF Known, Sound, Placed, IsTable, TypeIds
<1>2. PICK b \in 0 .. z - 1 : Tells(t, b)
  BY <1>1 DEF Known
<1>3. z \in b + 1 .. z
  BY <1>2
<1>4. t.id[z][2] \in Since(t.id, b)
  BY <1>1, <1>3 DEF Since
<1>5. QED
  BY <1>1, <1>2, <1>4 DEF Tells

\* An Insert without a free node leaves the id.
LEMMA FullKeepsId ==
  ASSUME NEW t, Sound(t), NEW k \in Keys, Absent(t, k), NEW v \in Vals,
         ~ Insert(t, k, v).ok
  PROVE  Insert(t, k, v).tab.id = t.id
<1> DEFINE c  == Claim(t, k)
           t1 == PutKey(c.tab, c.pos, k)
           fb == FreeBelow(t1)
<1>1. Insert(t, k, v).tab = [t1 EXCEPT !.firstfree = 0]
  BY InsertCases
<1>2. PICK x : Claimed(t, t1, k, c.pos, x)
  BY ClaimSound
<1> HIDE DEF t1, c, fb
<1>3. IsTable(t1) /\ t1.id = t.id
  BY <1>2 DEF Claimed, Placed
<1>4. QED
  BY <1>1, <1>3 DEF IsTable, Fields

LEMMA KnownGrow ==
  ASSUME NEW t, Known(t), NEW k \in Keys, Absent(t, k), NEW v \in Vals,
         ~ Insert(t, k, v).ok,
         NEW r, r = Rehash(Insert(t, k, v).tab, TRUE), Apart(r)
  PROVE  Known(r) /\ k \in KeysIn(r)
<1>1. /\ Sound(t) /\ t.id \in TypeIds /\ t.used \in Nat
  BY UsedBelowSize DEF Known, Sound, Placed, IsTable
<1>2. PICK f : f = Insert(t, k, v).tab
  OBVIOUS
<1>3. /\ Placed(f) /\ f.used = t.used /\ Cardinality(Occupied(f)) = t.used + 1
      /\ \E w \in Vals : Has(f, k, w)
      /\ \A a, w : a # k => (Has(f, a, w) <=> Has(t, a, w))
  BY <1>1, <1>2, InsertFull
<1>4. KeysIn(f) = KeysIn(t) \union {k}
  <2>1. \A a : a \in KeysIn(f) <=> a = k \/ a \in KeysIn(t)
    BY <1>3, KeysHas
  <2>2. QED
    BY <2>1
<1>5. f.id = t.id
  BY <1>1, <1>2, FullKeepsId
<1>6. Counted(f)
  BY <1>1, <1>3 DEF Counted
<1>7. NewSize(f, TRUE) # f.size
  <2>1. PICK m \in Nat \ {0} : m = f.size
    BY <1>3 DEF Placed, IsTable
  <2>2. 2 * m # m /\ (m > 1 => m \div 2 # m)
    BY SMT
  <2>3. QED
    BY <2>1, <2>2 DEF NewSize
<1>8. /\ Sound(r) /\ Packed(r) /\ \A a, w : Has(r, a, w) <=> Has(f, a, w)
  BY <1>2, <1>3, <1>6, <1>7, RehashMoves
<1>9. KeysIn(r) = KeysIn(t) \union {k}
  BY <1>4, <1>8, SameKeysIn
<1>10. Apart(f)
  BY <1>4, <1>9 DEF Apart
<1>11. Retold(f, r)
  BY <1>2, <1>3, <1>6, <1>7, <1>10, RehashRetells
<1>12. KeyAddrs(r) # {} /\ KeyAddrs(t) \subseteq KeyAddrs(r)
  BY <1>9 DEF KeyAddrs
<1>13. f.id # <<>> => f.id[Len(f.id)][2] \in KeyAddrs(r)
  BY <1>5, <1>12, LastIsKey
<1>14. QED
  BY <1>1, <1>5, <1>8, <1>9, <1>11, <1>12, <1>13, RetoldIsKnown
LEMMA SetValKeys ==
  ASSUME NEW t, IsTable(t), NEW i, NEW v
  PROVE  KeysIn(SetVal(t, i, v)) = KeysIn(t)
<1>1. PICK r : r = SetVal(t, i, v)
  OBVIOUS
<1>2. r.size = t.size /\ r.key = t.key
  BY <1>1 DEF SetVal, IsTable, Fields
<1>3. QED
  BY <1>1, <1>2 DEF KeysIn, Occupied, Nodes

LEMMA KnownNewSlot ==
  ASSUME NEW t, Known(t), NEW k \in Keys, NEW v \in Vals,
         NEW r, r = NewSlotIn(t, k, v).tab, Apart(r)
  PROVE  Known(r)
<1> DEFINE ins == Insert(t, k, v)
           big == Rehash(ins.tab, TRUE)
<1>1. Sound(t) /\ Placed(t) /\ IsTable(t)
  BY DEF Known, Sound, Placed
<1>2. CASE GetNode(t, k) # NULL
  <2>1. r = SetVal(t, GetNode(t, k), v)
    BY <1>2 DEF NewSlotIn
  <2>2. GetNode(t, k) \in Occupied(t)
    BY <1>1, <1>2, GetNodeSound
  <2>3. QED
    BY <2>1, <2>2, KnownSetVal
<1>3. CASE GetNode(t, k) = NULL /\ ins.ok
  <2>1. r = ins.tab
    BY <1>3 DEF NewSlotIn
  <2>2. Absent(t, k)
    BY <1>1, <1>3, GetNodeSound
  <2>3. QED
    BY <1>3, <2>1, <2>2, KnownInsert
<1>4. CASE GetNode(t, k) = NULL /\ ~ ins.ok
  <2>1. r = SetVal(big, GetNode(big, k), v)
    BY <1>4 DEF NewSlotIn
  <2>2. Absent(t, k)
    BY <1>1, <1>4, GetNodeSound
  <2>3. IsTable(big)
    BY <1>1, InsertIsTable, RehashIsTable
  <2>4. Known(big) /\ k \in KeysIn(big)
    <3>1. PICK b : b = big
      OBVIOUS
    <3>2. KeysIn(r) = KeysIn(b)
      <4>1. r = SetVal(b, GetNode(b, k), v) /\ IsTable(b)
        BY <2>1, <2>3, <3>1
      <4>2. QED
        BY <4>1, SetValKeys
    <3>3. Apart(b)
      BY <3>2 DEF Apart
    <3>4. QED
      BY <1>4, <2>2, <3>1, <3>3, KnownGrow
  <2> HIDE DEF big, ins
  <2>5. Placed(big) /\ ~ Absent(big, k)
    BY <2>4 DEF Known, Sound, Absent, KeysIn, Occupied
  <2>6. GetNode(big, k) \in Occupied(big)
    BY <2>5, GetNodeSound
  <2>7. QED
    BY <2>1, <2>4, <2>6, KnownSetVal
<1>5. QED
  BY <1>2, <1>3, <1>4

\* A Rehash that has no key to move and does not move the array has at most
\* three nodes.
LEMMA EmptyStaysSmall ==
  ASSUME NEW t, IsTable(t), t.used = 0, NewSize(t, FALSE) = t.size
  PROVE  t.size <= 3
<1>1. PICK n \in Nat \ {0} : n = t.size
  BY DEF IsTable
<1>2. n # 2 * n /\ (n > 1 => n \div 2 # n) /\ n \div 4 \in Nat
      /\ (n > 3 => n \div 4 > 0)
  BY SMT
<1>3. ~ (0 < n \div 4 /\ n > 1)
  BY <1>1, <1>2 DEF NewSize
<1>4. QED
  BY <1>1, <1>2, <1>3

LEMMA KnownRemove ==
  ASSUME NEW t, Known(t), NEW k \in Keys, NEW r, r = RemoveFrom(t, k)
  PROVE  Known(r)
<1>1. Sound(t) /\ Placed(t) /\ IsTable(t)
  BY DEF Known, Sound, Placed
<1>2. CASE GetNode(t, k) = NULL
  BY <1>2 DEF RemoveFrom
<1>3. CASE GetNode(t, k) # NULL
  <2>1. PICK f : f = FreeNode(t, GetNode(t, k))
    OBVIOUS
  <2>2. PICK g : g = Rehash(f, FALSE)
    OBVIOUS
  <2>3. r = [g EXCEPT !.id = <<>>]
    BY <1>3, <2>1, <2>2 DEF RemoveFrom
  <2>4. GetNode(t, k) \in Occupied(t)
    BY <1>1, <1>3, GetNodeSound
  <2>5. Sound(f)
    BY <1>1, <2>1, <2>4, FreeNodeSound
  <2>6. Sound(g) /\ IsTable(g)
    <3>1. Sound(g)
      BY <2>2, <2>5, RehashSound
    <3>2. QED
      BY <3>1 DEF Sound, Placed
  <2>7. /\ r.size = g.size /\ r.key = g.key /\ r.next = g.next
        /\ r.firstfree = g.firstfree /\ r.used = g.used /\ r.id = <<>>
    BY <2>3, <2>6 DEF IsTable, Fields
  <2>8. Sound(r) /\ \A a, w : Has(r, a, w) <=> a # k /\ Has(t, a, w)
    BY <1>1, RemoveSound
  <2>9. Apart(r)
    <3>1. KeysIn(r) \subseteq KeysIn(t)
      BY <2>8, KeysHas
    <3>2. QED
      BY <3>1 DEF Known, Apart
  <2>10. ASSUME r.used = 0
         PROVE  Packed(r) \/ r.size <= 3
    <3>1. IsTable(f) /\ Placed(f) /\ Counted(f)
      <4>1. f.used \in Nat /\ f.used = Cardinality(Occupied(f))
        BY <2>5, UsedBelowSize DEF Sound
      <4>2. QED
        BY <2>5, <4>1 DEF Sound, Placed, Counted
    <3>2. CASE NewSize(f, FALSE) # f.size
      <4>1. Packed(g)
        BY <2>2, <3>1, <3>2, RehashMoves
      <4>2. QED
        BY <2>7, <4>1 DEF Packed, Nodes
    <3>3. CASE NewSize(f, FALSE) = f.size
      <4>1. g = f
        BY <2>2, <3>3 DEF Rehash
      <4>2. QED
        BY <2>7, <2>10, <3>1, <3>3, <4>1, EmptyStaysSmall
    <3>4. QED
      BY <3>2, <3>3
  <2>11. QED
    BY <2>7, <2>8, <2>9, <2>10, KnownUntyped
<1>4. QED
  BY <1>2, <1>3

LEMMA KnownClear ==
  ASSUME NEW t, Known(t), NEW rehash \in BOOLEAN,
         NEW r, r = ClearTable(t, rehash)
  PROVE  Known(r)
<1>1. Sound(t)
  BY DEF Known
<1>2. Sound(r) /\ Packed(r) /\ \A a, w : ~ Has(r, a, w)
  BY <1>1, ClearSound
<1>3. KeysIn(r) = {}
  BY <1>2, KeysHas
<1>4. PICK c : c = [ClearNodes(t) EXCEPT !.used = 0, !.id = <<>>]
  OBVIOUS
<1>5. /\ Placed(c) /\ Counted(c) /\ Occupied(c) = {}
      /\ NewSize(c, TRUE) # c.size /\ c.id = <<>> /\ IsTable(c)
  <2>1. /\ Placed(c) /\ Counted(c) /\ Occupied(c) = {}
        /\ NewSize(c, TRUE) # c.size /\ c.id = <<>>
    BY <1>1, <1>4, ClearedSound
  <2>2. QED
    BY <2>1 DEF Placed
<1>6. r.id = <<>>
  <2>1. CASE rehash
    <3>1. r = Rehash(c, TRUE)
      BY <1>4, <2>1 DEF ClearTable
    <3>2. Apart(c)
      BY <1>5 DEF Apart, KeysIn
    <3>3. Retold(c, r)
      BY <1>5, <3>1, <3>2, RehashRetells
    <3>4. SUFFICES ASSUME r.id # <<>> PROVE FALSE
      OBVIOUS
    <3>5. Len(c.id) = 0
      BY <1>5
    <3>6. Tells(r, 0)
      BY <3>3, <3>4, <3>5 DEF Retold, TellsFrom
    <3>7. PICK m \in Nat : m = Len(r.id) /\ m # 0
      BY <1>2, <3>4 DEF Sound, Placed, IsTable, TypeIds
    <3>8. 1 \in 0 + 1 .. m
      BY <3>7
    <3>9. Since(r.id, 0) # {}
      BY <3>7, <3>8 DEF Since
    <3>10. QED
      BY <1>3, <3>6, <3>9 DEF Tells, KeyAddrs
  <2>2. CASE ~ rehash
    <3>1. r = [c EXCEPT !.firstfree = t.size - 1]
      BY <1>4, <2>2 DEF ClearTable
    <3>2. QED
      BY <1>5, <3>1 DEF IsTable, Fields
  <2>3. QED
    BY <2>1, <2>2
<1>7. QED
  BY <1>2, <1>3, <1>6, KnownUntyped DEF Apart

LEMMA KnownAlloc ==
  ASSUME NEW n \in Nat \ {0}, NEW r, r = AllocNodes(n)
  PROVE  Known(r)
<1>1. /\ IsTable(r) /\ r.size = n /\ r.firstfree = n - 1 /\ r.used = 0
      /\ r.key = [i \in 0 .. n - 1 |-> Free]
      /\ r.next = [i \in 0 .. n - 1 |-> NULL] /\ r.id = <<>>
  BY AllocIsTable DEF AllocNodes
<1>2. Sound(r) /\ Packed(r) /\ \A a, w : ~ Has(r, a, w)
  BY <1>1, AllocSound
<1>3. KeysIn(r) = {}
  BY <1>2, KeysHas
<1>4. QED
  BY <1>1, <1>2, <1>3, KnownUntyped DEF Apart
----------------------------------------------------------------------------
(* The instruction *)

\* The hint hi remembers a node of some table whose id it has: the story of
\* that id ends with the literal k at the node.
Told(hi, k) ==
  hi.id # <<>> =>
    /\ hi.id \in TypeIds
    /\ \E b \in 0 .. Len(hi.id) - 1, n \in Nat : \E h :
         /\ Story(hi.id, b, n, h)
         /\ NoRepeat(hi.id, b) /\ BeginsWhole(hi.id, b)
         /\ hi.idx \in 0 .. n - 1
         /\ h[Len(hi.id) - b][hi.idx] = {Addr[k]}

\* No other key has the address of the literal.
AloneAt(k) == k \in Keys /\ \A l \in Keys : Addr[l] = Addr[k] => l = k

CacheInv ==
  /\ Known(tab)
  /\ Told(hint, lit)
  /\ AloneAt(lit)

LEMMA ToldByTable ==
  ASSUME NEW t, Known(t), t.id # <<>>, NEW k \in Keys,
         GetNode(t, k) # NULL,
         NEW hi, hi = [id |-> t.id, idx |-> GetNode(t, k)]
  PROVE  Told(hi, k)
<1>1. /\ Placed(t) /\ IsTable(t) /\ t.id \in TypeIds /\ t.size \in Nat
  BY DEF Known, Sound, Placed, IsTable
<1>2. GetNode(t, k) \in Occupied(t) /\ t.key[GetNode(t, k)] = k
  BY <1>1, GetNodeSound
<1>3. PICK i : i = GetNode(t, k)
  OBVIOUS
<1>4. /\ i \in 0 .. t.size - 1 /\ t.key[i] = k /\ k # Free
      /\ hi.id = t.id /\ hi.idx = i
  BY <1>2, <1>3 DEF Occupied, Nodes
<1>5. PICK b \in 0 .. Len(t.id) - 1 : Tells(t, b) /\ BeginsWhole(t.id, b)
  BY DEF Known
<1>6. PICK h : Story(t.id, b, t.size, h) /\ h[Len(t.id) - b] = Shape(t)
  BY <1>5 DEF Tells
<1>7. Shape(t)[i] = {Addr[k]}
  BY <1>4 DEF Shape, Nodes
<1>8. NoRepeat(t.id, b)
  BY <1>5 DEF Tells
<1>9. QED
  BY <1>1, <1>4, <1>5, <1>6, <1>7, <1>8 DEF Told

\* Two tables of the same id hold the literal at the same node.
LEMMA ToldIsRight ==
  ASSUME NEW t, Known(t), t.id # <<>>, NEW k, AloneAt(k),
         NEW hi, Told(hi, k), hi.id = t.id
  PROVE  hi.idx \in Nodes(t) /\ t.key[hi.idx] = k
<1>1. /\ IsTable(t) /\ t.id \in TypeIds /\ t.size \in Nat
  BY DEF Known, Sound, Placed, IsTable
<1>2. PICK b \in 0 .. Len(t.id) - 1 : Tells(t, b) /\ BeginsWhole(t.id, b)
  BY DEF Known
<1>3. PICK h : Story(t.id, b, t.size, h) /\ h[Len(t.id) - b] = Shape(t)
  BY <1>2 DEF Tells
<1>3a. PICK c \in 0 .. Len(t.id) - 1, n \in Nat : \E g :
        /\ Story(t.id, c, n, g)
        /\ NoRepeat(t.id, c) /\ BeginsWhole(t.id, c)
        /\ hi.idx \in 0 .. n - 1
        /\ g[Len(t.id) - c][hi.idx] = {Addr[k]}
  BY DEF Told
<1>4. PICK g :
      /\ Story(t.id, c, n, g)
      /\ NoRepeat(t.id, c) /\ BeginsWhole(t.id, c)
      /\ hi.idx \in 0 .. n - 1
      /\ g[Len(t.id) - c][hi.idx] = {Addr[k]}
  BY <1>3a
<1>5. b = c
  BY <1>1, <1>2, <1>4, StartIsOne DEF Tells
<1>6. b \in 0 .. Len(t.id)
  BY <1>1 DEF TypeIds
<1>7. PICK i, l, r : i = hi.idx /\ l = g[Len(t.id) - b] /\ r = Shape(t)
  OBVIOUS
<1>8. i \in 0 .. n - 1 /\ l[i] = {Addr[k]} /\ h[Len(t.id) - b] = r
  BY <1>3, <1>4, <1>5, <1>7
<1>9. i \in 0 .. t.size - 1 /\ r[i] = {Addr[k]}
  <2>1. CASE n <= t.size
    <3>1. Agree(l, n, r, t.size)
      <4>1. Story(t.id, b, n, g)
        BY <1>4, <1>5
      <4>2. Agree(g[Len(t.id) - b], n, h[Len(t.id) - b], t.size)
        BY <1>1, <1>3, <1>6, <2>1, <4>1, StoryIsOne
      <4>3. QED
        BY <1>7, <1>8, <4>2
    <3>2. QED
      BY <1>1, <1>8, <2>1, <3>1 DEF Agree
  <2>2. CASE t.size <= n
    <3>1. Agree(r, t.size, l, n)
      <4>1. Story(t.id, b, n, g)
        BY <1>4, <1>5
      <4>2. Agree(h[Len(t.id) - b], t.size, g[Len(t.id) - b], n)
        BY <1>1, <1>3, <1>6, <2>2, <4>1, StoryIsOne
      <4>3. QED
        BY <1>7, <1>8, <4>2
    <3>2. i < t.size
      <4>1. i >= t.size => l[i] = {}
        BY <1>8, <3>1 DEF Agree
      <4>2. l[i] # {}
        BY <1>8
      <4>3. ~ (i >= t.size)
        BY <4>1, <4>2
      <4>4. i \in Nat /\ t.size \in Nat
        BY <1>1, <1>8
      <4>5. QED
        BY <4>3, <4>4
    <3>3. i \in 0 .. t.size - 1
      BY <1>1, <1>8, <3>2
    <3>4. QED
      BY <1>8, <3>1, <3>3 DEF Agree
  <2>3. QED
    BY <1>1, <2>1, <2>2
<1>10. i \in Nodes(t) /\ t.key[i] # Free /\ {Addr[t.key[i]]} = {Addr[k]}
  BY <1>7, <1>9 DEF Shape, Nodes
<1>11. t.key[i] \in Keys /\ Addr[t.key[i]] = Addr[k]
  BY <1>1, <1>10 DEF IsTable
<1>12. QED
  BY <1>7, <1>10, <1>11 DEF AloneAt

LEMMA CacheInvIsRight == CacheInv => HintIsRight
<1> SUFFICES ASSUME CacheInv, Hit
             PROVE  hint.idx \in Nodes(tab) /\ tab.key[hint.idx] = lit
  BY DEF HintIsRight
<1>1. tab.id # <<>> /\ hint.id = tab.id
  BY DEF Hit, Typed
<1>2. QED
  BY <1>1, ToldIsRight DEF CacheInv

LEMMA CacheInit == CInit => CacheInv
<1> SUFFICES ASSUME CInit PROVE CacheInv
  OBVIOUS
<1>1. Known(tab)
  BY KnownAlloc, SizesAssumption DEF CInit, Init
<1>2. Told(hint, lit)
  BY DEF CInit, Told
<1>3. AloneAt(lit)
  BY KeysAssumption DEF CInit, AloneAt
<1>4. QED
  BY <1>1, <1>2, <1>3 DEF CacheInv

LEMMA RememberStep ==
  ASSUME CacheInv, Remember
  PROVE  Told(hint', lit)
<1>1. CASE Typed /\ ~ Hit /\ CachedNode # NULL
  <2>1. CachedNode = GetNode(tab, lit)
    BY <1>1 DEF CachedNode
  <2>2. hint' = [id |-> tab.id, idx |-> GetNode(tab, lit)]
    BY <1>1, <2>1 DEF Remember
  <2>3. tab.id # <<>> /\ GetNode(tab, lit) # NULL
    BY <1>1, <2>1 DEF Typed
  <2>4. QED
    BY <2>2, <2>3, ToldByTable DEF CacheInv, AloneAt
<1>2. CASE ~ (Typed /\ ~ Hit /\ CachedNode # NULL)
  BY <1>2 DEF Remember, CacheInv
<1>3. QED
  BY <1>1, <1>2

\* The node that the instruction works on holds a key.
LEMMA CachedNodeHolds ==
  ASSUME CacheInv, CachedNode # NULL
  PROVE  CachedNode \in Occupied(tab)
<1>1. Placed(tab) /\ lit \in Keys
  BY DEF CacheInv, Known, Sound, AloneAt
<1>2. CASE Hit
  <2>1. CachedNode = hint.idx
    BY <1>2 DEF CachedNode
  <2>2. hint.idx \in Nodes(tab) /\ tab.key[hint.idx] = lit
    BY <1>2, CacheInvIsRight DEF HintIsRight
  <2>3. QED
    BY <1>1, <2>1, <2>2, KeysAssumption DEF Occupied
<1>3. CASE ~ Hit
  <2>1. CachedNode = GetNode(tab, lit)
    BY <1>3 DEF CachedNode
  <2>2. QED
    BY <1>1, <2>1, GetNodeSound
<1>4. QED
  BY <1>2, <1>3

LEMMA SetKnown ==
  ASSUME Known(tab), NEW k \in Keys, NEW v \in Vals, Set(k, v)
  PROVE  Known(tab')
<1>1. Placed(tab)
  BY DEF Known, Sound
<1>2. CASE GetNode(tab, k) = NULL
  BY <1>2 DEF Set
<1>3. CASE GetNode(tab, k) # NULL
  <2>1. tab' = SetVal(tab, GetNode(tab, k), v)
    BY <1>3 DEF Set
  <2>2. GetNode(tab, k) \in Occupied(tab)
    BY <1>1, <1>3, GetNodeSound
  <2>3. QED
    BY <2>1, <2>2, KnownSetVal
<1>4. QED
  BY <1>2, <1>3

LEMMA CacheStep == CacheInv /\ [CNext]_cvars => CacheInv'
<1> SUFFICES ASSUME CacheInv, [CNext]_cvars
             PROVE  CacheInv'
  OBVIOUS
<1>1. /\ Known(tab) /\ Told(hint, lit) /\ AloneAt(lit) /\ lit \in Keys
  BY DEF CacheInv, AloneAt
<1>2. CASE GetLiteral
  <2>1. tab' = tab /\ lit' = lit /\ Remember
    BY <1>2 DEF GetLiteral, Get
  <2>2. Told(hint', lit)
    BY <2>1, RememberStep
  <2>3. QED
    BY <1>1, <2>1, <2>2 DEF CacheInv
<1>3. ASSUME NEW v \in Vals, SetLiteral(v)
      PROVE  CacheInv'
  <2>1. lit' = lit /\ Remember
    BY <1>3 DEF SetLiteral
  <2>2. Told(hint', lit)
    BY <2>1, RememberStep
  <2>3. Known(tab')
    <3>1. CASE CachedNode # NULL
      <4>1. tab' = SetVal(tab, CachedNode, v)
        BY <1>3, <3>1 DEF SetLiteral
      <4>2. CachedNode \in Occupied(tab)
        BY <3>1, CachedNodeHolds
      <4>3. QED
        BY <1>1, <4>1, <4>2, KnownSetVal
    <3>2. CASE CachedNode = NULL
      BY <1>1, <1>3, <3>2, SetKnown DEF SetLiteral
    <3>3. QED
      BY <3>1, <3>2
  <2>4. QED
    BY <1>1, <2>1, <2>2, <2>3 DEF CacheInv
<1>4. CASE Elsewhere
  <2>1. Next /\ Apart(tab') /\ lit' = lit /\ hint' = hint
    BY <1>4 DEF Elsewhere, Apart
  <2>2. Known(tab')
    <3>1. ASSUME NEW k \in Keys, NEW v \in Vals, NewSlot(k, v)
          PROVE  Known(tab')
      BY <1>1, <2>1, <3>1, KnownNewSlot DEF NewSlot
    <3>2. ASSUME NEW k \in Keys, NEW v \in Vals, Set(k, v)
          PROVE  Known(tab')
      BY <1>1, <3>2, SetKnown
    <3>3. ASSUME NEW k \in Keys, Get(k)
          PROVE  Known(tab')
      BY <1>1, <3>3 DEF Get
    <3>4. ASSUME NEW k \in Keys, Remove(k)
          PROVE  Known(tab')
      BY <1>1, <3>4, KnownRemove DEF Remove
    <3>5. ASSUME NEW rehash \in BOOLEAN, Clear(rehash)
          PROVE  Known(tab')
      BY <1>1, <3>5, KnownClear DEF Clear
    <3>6. QED
      BY <2>1, <3>1, <3>2, <3>3, <3>4, <3>5 DEF Next
  <2>3. QED
    BY <1>1, <2>1, <2>2 DEF CacheInv
<1>5. CASE NewTable
  <2>1. Known(tab')
    BY <1>5, KnownAlloc, SizesAssumption DEF NewTable
  <2>2. QED
    BY <1>1, <1>5, <2>1 DEF NewTable, CacheInv
<1>6. CASE UNCHANGED cvars
  BY <1>1, <1>6 DEF cvars, CacheInv
<1>7. QED
  BY <1>2, <1>3, <1>4, <1>5, <1>6 DEF CNext

----------------------------------------------------------------------------

\* Whatever the scripts do to the tables that an instruction meets, its table
\* and its hint stay as described above.
THEOREM CacheInvariant == CSpec => []CacheInv
<1>1. CInit => CacheInv
  BY CacheInit
<1>2. CacheInv /\ [CNext]_cvars => CacheInv'
  BY CacheStep
<1>3. QED
  BY <1>1, <1>2, PTL DEF CSpec

\* The hint of _OP_GET_LITERAL and _OP_SET_LITERAL never leads to another
\* key's node: the asserts of GetNodeFromTypeHint hold, for any hash function,
\* any assignment of addresses and any array sizes.
THEOREM CacheHintIsRight == CSpec => []HintIsRight
<1>1. CSpec => []CacheInv
  BY CacheInvariant
<1>2. CacheInv => HintIsRight
  BY CacheInvIsRight
<1>3. QED
  BY <1>1, <1>2, PTL

=============================================================================
