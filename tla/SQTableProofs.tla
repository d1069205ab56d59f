--------------------------- MODULE SQTableProofs ---------------------------
(***************************************************************************)
(* Theorems about SQTable, for any keys, values, hash function, node       *)
(* counts and bound; and, first, the lemmas about the operators of         *)
(* HashNodes that they rest on.                                            *)
(***************************************************************************)
EXTENDS SQTable, LinksProofs

----------------------------------------------------------------------------
(* Extrema and types *)

\* The node that the firstfree loop stops at is the highest candidate.
LEMMA HighestIsMax ==
  ASSUME NEW m \in Nat, NEW S \in SUBSET (0 .. m), S # {}
  PROVE  Highest(S) \in S /\ \A j \in S : j <= Highest(S)
<1> DEFINE T == {d \in 0 .. m : m - d \in S}
<1>1. T \in SUBSET Nat /\ T # {}
  <2>1. PICK s \in S : TRUE
    OBVIOUS
  <2>2. m - s \in T
    BY <2>1
  <2>3. QED
    BY <2>2
<1>2. PICK x \in T : \A y \in T : x <= y
  BY <1>1, LeastNat
<1>3. m - x \in S /\ \A j \in S : j <= m - x
  <2>1. m - x \in S
    BY <1>2
  <2>2. ASSUME NEW j \in S
        PROVE  j <= m - x
    <3>1. m - j \in T
      OBVIOUS
    <3>2. x <= m - j
      BY <1>2, <3>1
    <3>3. QED
      BY <3>2
  <2>3. QED
    BY <2>1, <2>2
<1>4. QED
  BY <1>3 DEF Highest

----------------------------------------------------------------------------
(* Types *)

LEMMA MainPosIsNode ==
  ASSUME NEW t, IsTable(t), NEW k \in Keys
  PROVE  MainPos(t, k) \in Nodes(t)
<1>1. Hash[k] \in Nat /\ t.size \in Nat \ {0}
  BY HashAssumption DEF IsTable
<1>2. Hash[k] % t.size \in 0 .. t.size - 1
  BY <1>1
<1>3. QED
  BY <1>2 DEF MainPos, Nodes

\* What IsTable says of nodes, links and the free pointer, as numbers.
LEMMA NodeFacts ==
  ASSUME NEW t, IsTable(t)
  PROVE  /\ t.size \in Nat \ {0}
         /\ Nodes(t) \subseteq Nat
         /\ NULL \notin Nodes(t) /\ NULL \in Int
         /\ t.firstfree \in Nodes(t)
         /\ \A i \in Nodes(t) :
              t.next[i] \in Int /\ (t.next[i] # NULL => t.next[i] \in Nodes(t))
<1>1. /\ t.size \in Nat \ {0} /\ t.firstfree \in Nodes(t)
      /\ \A i \in Nodes(t) : t.next[i] \in Nodes(t) \union {NULL}
  BY DEF IsTable
<1>2. Nodes(t) \subseteq Nat /\ NULL \notin Nodes(t) /\ NULL \in Int
  BY <1>1 DEF Nodes, NULL
<1>3. QED
  BY <1>1, <1>2

LEMMA AllocIsTable ==
  ASSUME NEW n \in Nat \ {0}
  PROVE  IsTable(AllocNodes(n))
<1>1. AllocNodes(n).id \in TypeIds
  BY DEF AllocNodes, TypeIds
<1>2. QED
  BY <1>1, ValsAssumption DEF AllocNodes, IsTable, Nodes, NULL, Fields

LEMMA SetValIsTable ==
  ASSUME NEW t, IsTable(t), NEW i, NEW v \in Vals
  PROVE  IsTable(SetVal(t, i, v))
BY DEF IsTable, SetVal, Nodes, Fields

\* Moving a collider, to whatever predecessor the search ended at.
LEMMA MoveIsTable ==
  ASSUME NEW t, IsTable(t), NEW mp \in Nodes(t), NEW prev
  PROVE  IsTable(MoveCollider(t, mp, prev))
BY ValsAssumption DEF IsTable, MoveCollider, Nodes, NULL, Fields

LEMMA LinkIsTable ==
  ASSUME NEW t, IsTable(t), NEW mp \in Nodes(t)
  PROVE  IsTable(LinkFree(t, mp))
BY DEF IsTable, LinkFree, Nodes, NULL, Fields

\* The search for a node leaves a table and names one of its nodes.
LEMMA ClaimIsTable ==
  ASSUME NEW t, IsTable(t), NEW k \in Keys
  PROVE  LET c == Claim(t, k)
         IN  /\ IsTable(c.tab)
             /\ c.pos \in Nodes(t)
             /\ c.tab.size = t.size
             /\ c.tab.firstfree = t.firstfree
             /\ c.tab.used = t.used
             /\ c.tab.id = t.id
<1> DEFINE mp == MainPos(t, k)
<1>1. mp \in Nodes(t)
  BY MainPosIsNode
<1>2. t.firstfree \in Nodes(t)
  BY DEF IsTable
<1>3. CASE t.key[mp] = Free
  BY <1>1, <1>3 DEF Claim
<1>4. CASE t.key[mp] # Free /\ MustMove(t, mp)
  <2> DEFINE m == MoveCollider(t, mp, CHOOSE p \in Preds(t, mp) : TRUE)
  <2>1. Claim(t, k) = [tab |-> m, pos |-> mp]
    BY <1>4 DEF Claim
  <2>2. IsTable(m)
    BY <1>1, MoveIsTable
  <2>3. /\ m.size = t.size /\ m.firstfree = t.firstfree
        /\ m.used = t.used /\ m.id = t.id
    BY DEF MoveCollider, IsTable, Fields
  <2>4. QED
    BY <1>1, <2>1, <2>2, <2>3
<1>5. CASE t.key[mp] # Free /\ ~ MustMove(t, mp)
  <2> DEFINE m == LinkFree(t, mp)
  <2>1. Claim(t, k) = [tab |-> m, pos |-> t.firstfree]
    BY <1>5 DEF Claim
  <2>2. IsTable(m)
    BY <1>1, LinkIsTable
  <2>3. /\ m.size = t.size /\ m.firstfree = t.firstfree
        /\ m.used = t.used /\ m.id = t.id
    BY DEF LinkFree, IsTable, Fields
  <2>4. QED
    BY <1>2, <2>1, <2>2, <2>3
<1>6. QED
  BY <1>3, <1>4, <1>5

\* What Insert does, in terms of the node it claimed.
LEMMA InsertCases ==
  ASSUME NEW t, NEW k, NEW v
  PROVE  LET c  == Claim(t, k)
             t1 == PutKey(c.tab, c.pos, k)
             fb == FreeBelow(t1)
         IN  /\ Insert(t, k, v).ok <=> fb # {}
             /\ fb = {} => Insert(t, k, v).tab = [t1 EXCEPT !.firstfree = 0]
             /\ fb # {} =>
                  Insert(t, k, v).tab =
                    Fill(t1, c.pos, v, Highest(fb), NextId(t1, k, c.pos))
BY DEF Insert

LEMMA NextIdType ==
  ASSUME NEW t, IsTable(t), NEW k \in Keys, NEW i \in Nodes(t)
  PROVE  NextId(t, k, i) \in TypeIds
<1>1. t.id \in TypeIds
  BY DEF IsTable
<1>2. <<i, Addr[k]>> \in Nat \X {Addr[l] : l \in Keys}
  BY DEF Nodes
<1>3. Append(t.id, <<i, Addr[k]>>) \in TypeIds
  BY <1>1, <1>2 DEF TypeIds
<1>4. <<>> \in TypeIds
  BY DEF TypeIds
<1>5. QED
  BY <1>1, <1>3, <1>4 DEF NextId

\* Giving a new key its value, counting it and moving the free pointer.
LEMMA FillIsTable ==
  ASSUME NEW t, IsTable(t), NEW i \in Nodes(t), NEW v \in Vals,
         NEW ff \in Nodes(t), NEW id \in TypeIds
  PROVE  /\ IsTable(Fill(t, i, v, ff, id))
         /\ Fill(t, i, v, ff, id).size = t.size
BY DEF IsTable, Nodes, Fields, Fill

LEMMA PutKeyIsTable ==
  ASSUME NEW t, IsTable(t), NEW i \in Nodes(t), NEW k \in Keys
  PROVE  /\ IsTable(PutKey(t, i, k))
         /\ PutKey(t, i, k).size = t.size
         /\ PutKey(t, i, k).firstfree = t.firstfree
BY DEF IsTable, Nodes, Fields, PutKey

\* Inserting a key leaves a table of the same size, free node or not.
LEMMA InsertIsTable ==
  ASSUME NEW t, IsTable(t), NEW k \in Keys, NEW v \in Vals
  PROVE  /\ IsTable(Insert(t, k, v).tab)
         /\ Insert(t, k, v).tab.size = t.size
<1> DEFINE c  == Claim(t, k)
           t1 == PutKey(c.tab, c.pos, k)
           fb == FreeBelow(t1)
<1>1. /\ IsTable(c.tab) /\ c.pos \in Nodes(t) /\ c.pos \in Nodes(c.tab)
      /\ c.tab.size = t.size /\ c.tab.firstfree = t.firstfree
  BY ClaimIsTable DEF Nodes
<1>2. IsTable(t1) /\ t1.size = t.size /\ t1.firstfree = t.firstfree
  BY <1>1, PutKeyIsTable
<1>3. t.firstfree \in Nat /\ t.size \in Nat \ {0} /\ t.firstfree \in Nodes(t)
  BY DEF IsTable, Nodes
<1>4. CASE fb = {}
  <2>1. Insert(t, k, v).tab = [t1 EXCEPT !.firstfree = 0]
    BY <1>4, InsertCases
  <2>2. 0 \in Nodes(t1)
    BY <1>2, <1>3 DEF Nodes
  <2> HIDE DEF t1
  <2>3. QED
    BY <1>2, <2>1, <2>2 DEF IsTable, Nodes, Fields
<1>5. CASE fb # {}
  <2>1. Insert(t, k, v).tab =
          Fill(t1, c.pos, v, Highest(fb), NextId(t1, k, c.pos))
    BY <1>5, InsertCases
  <2>2. fb \in SUBSET (0 .. t.firstfree)
    BY <1>2 DEF FreeBelow
  <2>3. Highest(fb) \in 0 .. t.firstfree
    BY <1>3, <1>5, <2>2, HighestIsMax
  <2>4. Highest(fb) \in Nodes(t1)
    BY <1>2, <1>3, <2>3 DEF Nodes
  <2>5. c.pos \in Nodes(t1)
    BY <1>1, <1>2 DEF Nodes
  <2>6. NextId(t1, k, c.pos) \in TypeIds
    BY <1>2, <2>5, NextIdType
  <2>7. QED
    BY <1>2, <2>1, <2>4, <2>5, <2>6, FillIsTable
<1>6. QED
  BY <1>4, <1>5

----------------------------------------------------------------------------
(* Rehash: the loop over the old nodes *)

RehashStep(t, cur, i) ==
  IF t.key[i - 1] = Free THEN cur
  ELSE Insert(cur, t.key[i - 1], t.val[i - 1]).tab

RehashStart(t, n) == [AllocNodes(n) EXCEPT !.id = t.id]

IsRun(t, n, m, f) ==
  f = [i \in 0 .. m |-> IF i = 0 THEN RehashStart(t, n)
                                 ELSE RehashStep(t, f[i - 1], i)]

\* The recursive function of Reinserted exists: its equation has a solution.
LEMMA RunExists ==
  ASSUME NEW t, NEW n, NEW m \in Nat
  PROVE  \E f : IsRun(t, n, m, f)
<1> DEFINE S == {i \in 0 .. m : \E f : IsRun(t, n, i, f)}
<1>1. 0 \in S
  <2>1. IsRun(t, n, 0, [i \in 0 .. 0 |-> RehashStart(t, n)])
    BY DEF IsRun
  <2>2. QED
    BY <2>1
<1>2. ASSUME NEW i \in 1 .. m, i - 1 \in S
      PROVE  i \in S
  <2>1. PICK f : IsRun(t, n, i - 1, f)
    BY <1>2
  <2> DEFINE g == [j \in 0 .. i |-> IF j = i THEN RehashStep(t, f[i - 1], i)
                                             ELSE f[j]]
  <2>2. IsRun(t, n, i, g)
    <3>1. f = [j \in 0 .. i - 1 |-> IF j = 0 THEN RehashStart(t, n)
                                             ELSE RehashStep(t, f[j - 1], j)]
      BY <2>1 DEF IsRun
    <3>2. ASSUME NEW j \in 0 .. i
          PROVE  g[j] = IF j = 0 THEN RehashStart(t, n)
                                 ELSE RehashStep(t, g[j - 1], j)
      <4>1. CASE j = 0
        BY <3>1, <4>1
      <4>2. CASE j # 0
        <5>1. j - 1 \in 0 .. i - 1 /\ g[j - 1] = f[j - 1]
          BY <4>2
        <5>2. CASE j = i
          BY <4>2, <5>1, <5>2
        <5>3. CASE j # i
          BY <3>1, <4>2, <5>1, <5>3
        <5>4. QED
          BY <5>2, <5>3
      <4>3. QED
        BY <4>1, <4>2
    <3> DEFINE h == [j \in 0 .. i |-> IF j = 0 THEN RehashStart(t, n)
                                               ELSE RehashStep(t, g[j - 1], j)]
    <3>3. g = h
      <4>1. \A j \in 0 .. i : g[j] = h[j]
        BY <3>2
      <4>2. QED
        BY <4>1
    <3>4. QED
      BY <3>3 DEF IsRun
  <2>3. QED
    BY <2>2
<1>3. \A i \in 0 .. m : i \in S
  <2> HIDE DEF S
  <2>1. QED
    BY <1>1, <1>2, InductionUpTo
<1>4. QED
  BY <1>3

LEMMA ReinsertedIsRun ==
  ASSUME NEW t, IsTable(t), NEW n
  PROVE  IsRun(t, n, t.size, Reinserted(t, n))
<1>1. \E f : IsRun(t, n, t.size, f)
  BY RunExists DEF IsTable
<1>2. \A f : IsRun(t, n, t.size, f) <=>
         f = [i \in 0 .. t.size |->
               IF i = 0 THEN [AllocNodes(n) EXCEPT !.id = t.id]
               ELSE IF t.key[i - 1] = Free THEN f[i - 1]
               ELSE Insert(f[i - 1], t.key[i - 1], t.val[i - 1]).tab]
  BY DEF IsRun, RehashStep, RehashStart
<1>3. QED
  BY <1>1, <1>2 DEF Reinserted

\* Every table of the loop of Rehash is a table of the new size.
LEMMA RunIsTable ==
  ASSUME NEW t, IsTable(t), NEW n \in Nat \ {0}, NEW f,
         IsRun(t, n, t.size, f)
  PROVE  \A i \in 0 .. t.size : IsTable(f[i]) /\ f[i].size = n
<1> DEFINE S == {i \in 0 .. t.size : IsTable(f[i]) /\ f[i].size = n}
<1>1. t.size \in Nat
  BY DEF IsTable
<1>2. f = [i \in 0 .. t.size |-> IF i = 0 THEN RehashStart(t, n)
                                           ELSE RehashStep(t, f[i - 1], i)]
  BY DEF IsRun
<1>3. 0 \in S
  <2>1. f[0] = RehashStart(t, n)
    BY <1>1, <1>2
  <2>2. IsTable(AllocNodes(n)) /\ AllocNodes(n).size = n
    BY AllocIsTable DEF AllocNodes
  <2>3. IsTable(RehashStart(t, n)) /\ RehashStart(t, n).size = n
    BY <2>2 DEF RehashStart, IsTable, Nodes, Fields
  <2>4. QED
    BY <1>1, <2>1, <2>3
<1>4. ASSUME NEW i \in 1 .. t.size, i - 1 \in S
      PROVE  i \in S
  <2>1. f[i] = RehashStep(t, f[i - 1], i)
    BY <1>1, <1>2
  <2>2. IsTable(f[i - 1]) /\ f[i - 1].size = n
    BY <1>4
  <2>3. i - 1 \in Nodes(t)
    BY <1>1 DEF Nodes
  <2>4. CASE t.key[i - 1] = Free
    BY <1>1, <2>1, <2>2, <2>4 DEF RehashStep
  <2>5. CASE t.key[i - 1] # Free
    <3>1. t.key[i - 1] \in Keys /\ t.val[i - 1] \in Vals
      BY <2>3, <2>5 DEF IsTable
    <3>2. f[i] = Insert(f[i - 1], t.key[i - 1], t.val[i - 1]).tab
      BY <2>1, <2>5 DEF RehashStep
    <3>3. IsTable(f[i]) /\ f[i].size = n
      BY <2>2, <3>1, <3>2, InsertIsTable
    <3>4. QED
      BY <1>1, <3>3
  <2>6. QED
    BY <2>4, <2>5
<1>5. \A i \in 0 .. t.size : i \in S
  <2> HIDE DEF S
  <2>1. QED
    BY <1>1, <1>3, <1>4, InductionUpTo
<1>6. QED
  BY <1>5

LEMMA NewSizeType ==
  ASSUME NEW t, IsTable(t), NEW force
  PROVE  NewSize(t, force) \in Nat \ {0}
<1>1. t.size \in Nat \ {0} /\ t.used \in Int
  BY DEF IsTable
<1>2. t.size > 1 => t.size \div 2 \in Nat \ {0}
  BY <1>1
<1>3. 2 * t.size \in Nat \ {0}
  BY <1>1
<1>4. QED
  BY <1>1, <1>2, <1>3 DEF NewSize

LEMMA RehashIsTable ==
  ASSUME NEW t, IsTable(t), NEW force
  PROVE  IsTable(Rehash(t, force)) /\ Rehash(t, force).size = NewSize(t, force)
<1> DEFINE n == NewSize(t, force)
<1>1. n \in Nat \ {0}
  BY NewSizeType
<1>2. CASE n = t.size
  BY <1>2 DEF Rehash
<1>3. CASE n # t.size
  <2>1. Rehash(t, force) = Reinserted(t, n)[t.size]
    BY <1>3 DEF Rehash
  <2>2. IsRun(t, n, t.size, Reinserted(t, n))
    BY ReinsertedIsRun
  <2>3. t.size \in 0 .. t.size
    BY DEF IsTable
  <2> HIDE DEF n
  <2>4. /\ IsTable(Reinserted(t, n)[t.size])
        /\ Reinserted(t, n)[t.size].size = n
    BY <1>1, <2>2, <2>3, RunIsTable
  <2>5. QED
    BY <2>1, <2>4 DEF n
<1>4. QED
  BY <1>2, <1>3

----------------------------------------------------------------------------
(* Types of the operations *)

\* A key is found at a node of the table that holds it, or not at all.
LEMMA GetNodeType ==
  ASSUME NEW t, NEW k
  PROVE  GetNode(t, k) # NULL =>
           GetNode(t, k) \in Nodes(t) /\ t.key[GetNode(t, k)] = k
<1>1. Holders(t, k) \subseteq {i \in Nodes(t) : t.key[i] = k}
  BY DEF Holders, Chain, Walk, Nodes
<1>2. CASE Holders(t, k) = {}
  BY <1>2 DEF GetNode
<1>3. CASE Holders(t, k) # {}
  <2>1. GetNode(t, k) \in Holders(t, k)
    BY <1>3 DEF GetNode
  <2>2. QED
    BY <1>1, <2>1
<1>4. QED
  BY <1>2, <1>3

LEMMA NewSlotIsTable ==
  ASSUME NEW t, IsTable(t), NEW k \in Keys, NEW v \in Vals
  PROVE  /\ IsTable(NewSlotIn(t, k, v).tab)
         /\ NewSlotIn(t, k, v).ret \in BOOLEAN
<1> DEFINE ins == Insert(t, k, v)
           big == Rehash(ins.tab, TRUE)
<1>1. IsTable(ins.tab)
  BY InsertIsTable
<1>2. IsTable(big)
  BY <1>1, RehashIsTable
<1>3. CASE GetNode(t, k) # NULL
  <2>1. NewSlotIn(t, k, v) =
          [ret |-> FALSE, tab |-> SetVal(t, GetNode(t, k), v)]
    BY <1>3 DEF NewSlotIn
  <2>2. QED
    BY <2>1, SetValIsTable
<1>4. CASE GetNode(t, k) = NULL /\ ins.ok
  <2>1. NewSlotIn(t, k, v) = [ret |-> TRUE, tab |-> ins.tab]
    BY <1>4 DEF NewSlotIn
  <2>2. QED
    BY <1>1, <2>1
<1>5. CASE GetNode(t, k) = NULL /\ ~ ins.ok
  <2>1. NewSlotIn(t, k, v) =
          [ret |-> FALSE, tab |-> SetVal(big, GetNode(big, k), v)]
    BY <1>5 DEF NewSlotIn
  <2> HIDE DEF big
  <2>2. IsTable(SetVal(big, GetNode(big, k), v))
    BY <1>2, SetValIsTable
  <2>3. QED
    BY <2>1, <2>2
<1>6. QED
  BY <1>3, <1>4, <1>5

LEMMA FreeNodeIsTable ==
  ASSUME NEW t, IsTable(t), NEW i
  PROVE  IsTable(FreeNode(t, i))
<1>1. PICK r : r = FreeNode(t, i)
  OBVIOUS
<1>2. /\ r.size = t.size /\ r.next = t.next /\ r.firstfree = t.firstfree
      /\ r.id = t.id /\ r.used = t.used - 1 /\ DOMAIN r = Fields
      /\ r.key = [t.key EXCEPT ![i] = Free]
      /\ r.val = [t.val EXCEPT ![i] = Null]
  BY <1>1 DEF FreeNode, IsTable, Fields
<1>3. /\ r.key \in [Nodes(t) -> Keys \union {Free}]
      /\ r.val \in [Nodes(t) -> Vals]
  <2>1. /\ t.key \in [Nodes(t) -> Keys \union {Free}]
        /\ t.val \in [Nodes(t) -> Vals]
    BY DEF IsTable
  <2>2. r.key \in [Nodes(t) -> Keys \union {Free}]
    BY <1>2, <2>1
  <2>3. r.val \in [Nodes(t) -> Vals]
    BY <1>2, <2>1, ValsAssumption
  <2>4. QED
    BY <2>2, <2>3
<1>4. Nodes(r) = Nodes(t)
  BY <1>2 DEF Nodes
<1>5. IsTable(r)
  BY <1>2, <1>3, <1>4 DEF IsTable
<1>6. QED
  BY <1>1, <1>5

LEMMA RemoveIsTable ==
  ASSUME NEW t, IsTable(t), NEW k \in Keys
  PROVE  IsTable(RemoveFrom(t, k))
<1> DEFINE f == FreeNode(t, GetNode(t, k))
           r == Rehash(f, FALSE)
<1>1. CASE GetNode(t, k) = NULL
  BY <1>1 DEF RemoveFrom
<1>2. CASE GetNode(t, k) # NULL
  <2>1. IsTable(f)
    BY FreeNodeIsTable
  <2>2. IsTable(r)
    <3> HIDE DEF f
    <3>1. QED
      BY <2>1, RehashIsTable
  <2>3. RemoveFrom(t, k) = [r EXCEPT !.id = <<>>]
    BY <1>2 DEF RemoveFrom
  <2>4. <<>> \in TypeIds
    BY DEF TypeIds
  <2> HIDE DEF r
  <2>5. QED
    BY <2>2, <2>3, <2>4 DEF IsTable, Nodes, Fields
<1>3. QED
  BY <1>1, <1>2

LEMMA ClearIsTable ==
  ASSUME NEW t, IsTable(t), NEW rehash \in BOOLEAN
  PROVE  IsTable(ClearTable(t, rehash))
<1> DEFINE n == ClearNodes(t)
           c == [n EXCEPT !.used = 0, !.id = <<>>]
<1>1. <<>> \in TypeIds
  BY DEF TypeIds
<1>2. IsTable(n) /\ n.size = t.size
  BY ValsAssumption DEF ClearNodes, IsTable, Nodes, NULL, Fields
<1>3. IsTable(c) /\ c.size = t.size
  <2> HIDE DEF n
  <2>1. QED
    BY <1>1, <1>2 DEF IsTable, Nodes, Fields
<1>4. CASE rehash
  <2>1. ClearTable(t, rehash) = Rehash(c, TRUE)
    BY <1>4 DEF ClearTable
  <2> HIDE DEF c
  <2>2. QED
    BY <1>3, <2>1, RehashIsTable
<1>5. CASE ~ rehash
  <2>1. ClearTable(t, rehash) = [c EXCEPT !.firstfree = t.size - 1]
    BY <1>5 DEF ClearTable
  <2>2. t.size - 1 \in Nodes(c)
    BY <1>3 DEF IsTable, Nodes
  <2> HIDE DEF c
  <2>3. QED
    BY <1>3, <2>1, <2>2 DEF IsTable, Nodes, Fields
<1>6. QED
  BY <1>4, <1>5

----------------------------------------------------------------------------
(* Chains *)

LEMMA TableIsLinks ==
  ASSUME NEW t, IsTable(t)
  PROVE  IsLinks(t.next, t.size)
BY DEF IsTable, IsLinks, Nodes

LEMMA ChainInNodes ==
  ASSUME NEW t, NEW i
  PROVE  Chain(t, i) \subseteq Nodes(t)
BY WalkInNodes DEF Chain, Nodes

LEMMA StartInChain ==
  ASSUME NEW t, IsTable(t), NEW i \in Nodes(t)
  PROVE  i \in Chain(t, i)
BY TableIsLinks, StartInWalk DEF Chain, Nodes

\* The walk visits nothing outside a set that holds its start and is closed
\* under next.
LEMMA ChainIsLeast ==
  ASSUME NEW t, IsTable(t), NEW i \in Nodes(t), NEW S, i \in S,
         \A x \in S \intersect Nodes(t) : t.next[x] # NULL => t.next[x] \in S
  PROVE  Chain(t, i) \subseteq S
BY TableIsLinks, WalkIsLeast DEF Chain, Nodes

LEMMA ChainIsClosed ==
  ASSUME NEW t, IsTable(t), NEW i \in Nodes(t), NEW x \in Chain(t, i),
         t.next[x] # NULL
  PROVE  t.next[x] \in Chain(t, i)
BY TableIsLinks, WalkIsClosed DEF Chain, Nodes

LEMMA StopsEverywhere ==
  ASSUME NEW t
  PROVE  ChainsStop(t) <=>
           \A i \in Nodes(t) : \E j \in Chain(t, i) : t.next[j] = NULL
BY DEF ChainsStop, Acyclic, Chain, Nodes

\* Where every walk stops, no set of nodes leads only into itself.
LEMMA NoTrap ==
  ASSUME NEW t, IsTable(t), ChainsStop(t), NEW S \in SUBSET Nodes(t), S # {}
  PROVE  \E x \in S : t.next[x] \notin S
BY TableIsLinks, AcyclicHasNoTrap DEF ChainsStop, Nodes

\* And the converse.
LEMMA NoTrapStops ==
  ASSUME NEW t, IsTable(t),
         \A S \in SUBSET Nodes(t) : S # {} => \E x \in S : t.next[x] \notin S
  PROVE  ChainsStop(t)
BY TableIsLinks, TrapFreeIsAcyclic DEF ChainsStop, Nodes

----------------------------------------------------------------------------
(* Inserting, moving, removing and rehashing keep the node array Sound and *)
(* change exactly the entry they name.                                     *)

\* The table has the entry (k, v).
Has(t, k, v) == \E i \in Occupied(t) : t.key[i] = k /\ t.val[i] = v

Absent(t, k) == \A i \in Nodes(t) : t.key[i] # k

----------------------------------------------------------------------------
(* Claiming a node for a new key *)

\* r is t with k in its node, its free pointer not moved yet; x is the node
\* that became occupied.
Claimed(t, r, k, pos, x) ==
  /\ Placed(r)
  /\ r.size = t.size
  /\ r.firstfree = t.firstfree
  /\ r.used = t.used
  /\ r.id = t.id
  /\ pos \in Nodes(t) /\ r.key[pos] = k
  /\ x \in Nodes(t) \ Occupied(t)
  /\ Occupied(r) = Occupied(t) \union {x}
  /\ \A i \in Nodes(t) \ Occupied(r) : t.next[i] = NULL => r.next[i] = NULL
  /\ \A a, w : a # k => (Has(r, a, w) <=> Has(t, a, w))

SameButNodes(t, r) ==
  /\ IsTable(r)
  /\ r.size = t.size
  /\ r.firstfree = t.firstfree
  /\ r.used = t.used
  /\ r.id = t.id

\* The main position is free: the key goes there.
LEMMA ClaimAtHome ==
  ASSUME NEW t, Sound(t), NEW k \in Keys, Absent(t, k),
         NEW r, SameButNodes(t, r),
         t.key[MainPos(t, k)] = Free,
         r.key = [t.key EXCEPT ![MainPos(t, k)] = k],
         r.next = t.next, r.val = t.val
  PROVE  Claimed(t, r, k, MainPos(t, k), MainPos(t, k))
<1> DEFINE mp == MainPos(t, k)
<1>1. /\ IsTable(t) /\ IsTable(r) /\ Nodes(r) = Nodes(t)
      /\ r.firstfree = t.firstfree /\ t.firstfree \in Nodes(t)
  BY DEF Sound, Placed, SameButNodes, Nodes, IsTable
<1>2. mp \in Nodes(t)
  BY <1>1, MainPosIsNode
<1>3. k # Free
  BY KeysAssumption
<1>4. \A a : MainPos(r, a) = MainPos(t, a)
  BY DEF MainPos, SameButNodes
<1>5. /\ \A i \in Nodes(t) : r.key[i] = IF i = mp THEN k ELSE t.key[i]
      /\ \A i \in Nodes(t) : t.key[i] # k
      /\ t.key[mp] = Free
  BY <1>1, <1>2 DEF IsTable, Absent
<1> HIDE DEF mp
<1>6. /\ mp \in Nodes(t) \ Occupied(t)
      /\ Occupied(r) = Occupied(t) \union {mp}
  BY <1>1, <1>2, <1>3, <1>5 DEF Occupied
<1>7. ASSUME NEW s \in Nodes(t)
      PROVE  Chain(t, s) \subseteq Chain(r, s)
  <2>1. s \in Chain(r, s)
    BY <1>1, StartInChain
  <2>2. \A x \in Chain(r, s) : r.next[x] # NULL => r.next[x] \in Chain(r, s)
    BY <1>1, ChainIsClosed
  <2>3. QED
    BY <1>1, <2>1, <2>2, ChainIsLeast
<1>8. Placed(r)
  <2>1. \A i \in Nodes(r) :
          \/ r.next[i] = NULL
          \/ r.next[i] > r.firstfree
          \/ r.next[i] = r.firstfree /\ r.key[r.firstfree] # Free
    BY <1>1 DEF Sound, Placed
  <2>2. \A i, j \in Nodes(r) :
          r.next[i] = r.next[j] /\ r.next[i] # NULL => i = j
    BY <1>1 DEF Sound, Placed
  <2>3. \A i, j \in Occupied(r) : r.key[i] = r.key[j] => i = j
    BY <1>5, <1>6 DEF Sound, Placed, Occupied
  <2>4. ASSUME NEW i \in Occupied(r)
        PROVE  i \in Chain(r, MainPos(r, r.key[i]))
    <3>1. CASE i = mp
      <4>1. MainPos(r, r.key[i]) = mp
        BY <1>2, <1>4, <1>5, <3>1 DEF mp
      <4>2. QED
        BY <1>1, <1>2, <3>1, <4>1, StartInChain
    <3>2. CASE i # mp
      <4>1. i \in Occupied(t) /\ r.key[i] = t.key[i]
        BY <1>5, <1>6, <3>2 DEF Occupied
      <4>2. i \in Chain(t, MainPos(t, t.key[i]))
        BY <4>1 DEF Sound, Placed
      <4>3. MainPos(t, t.key[i]) \in Nodes(t)
        BY <1>1, <4>1, MainPosIsNode DEF Occupied, IsTable
      <4>4. QED
        BY <1>4, <1>7, <4>1, <4>2, <4>3
    <3>3. QED
      BY <3>1, <3>2
  <2>5. ASSUME NEW i \in Occupied(r), MainPos(r, r.key[i]) # i
        PROVE  /\ i >= r.firstfree
               /\ \A j \in Occupied(r) : MainPos(r, r.key[j]) # i
    <3>1. i # mp
      BY <1>2, <1>4, <1>5, <2>5 DEF mp
    <3>2. i \in Occupied(t) /\ r.key[i] = t.key[i]
      BY <1>5, <1>6, <3>1 DEF Occupied
    <3>3. /\ i >= t.firstfree
          /\ \A j \in Occupied(t) : MainPos(t, t.key[j]) # i
      BY <1>4, <2>5, <3>2 DEF Sound, Placed
    <3>4. MainPos(r, r.key[mp]) = mp
      BY <1>2, <1>4, <1>5 DEF mp
    <3>5. \A j \in Occupied(t) : j # mp => r.key[j] = t.key[j]
      BY <1>5 DEF Occupied
    <3>6. QED
      BY <1>1, <1>4, <1>6, <3>1, <3>3, <3>4, <3>5
  <2>6. ChainsStop(r)
    BY <1>1, <1>7, StopsEverywhere DEF Sound, Placed
  <2>7. QED
    BY <1>1, <2>1, <2>2, <2>3, <2>4, <2>5, <2>6 DEF Placed
<1>9. ASSUME NEW a, NEW w, a # k
      PROVE  Has(r, a, w) <=> Has(t, a, w)
  BY <1>5, <1>6, <1>9 DEF Has, Occupied
<1>10. r.key[mp] = k
  BY <1>2, <1>5
<1>11. QED
  BY <1>2, <1>6, <1>8, <1>9, <1>10 DEF Claimed, SameButNodes, mp

\* No stored key has the free pointer's node as its main position: its chain
\* would have to go through that node, which is free and has no successor.
LEMMA FreeIsNoHome ==
  ASSUME NEW t, Sound(t), NEW i \in Occupied(t)
  PROVE  MainPos(t, t.key[i]) # t.firstfree
<1> DEFINE n == t.firstfree
<1>1. /\ IsTable(t) /\ n \in Nodes(t)
      /\ t.key[n] = Free /\ t.next[n] = NULL
  BY DEF Sound, Placed, IsTable
<1>2. SUFFICES ASSUME MainPos(t, t.key[i]) = n
               PROVE  FALSE
  OBVIOUS
<1>3. Chain(t, n) \subseteq {n}
  BY <1>1, ChainIsLeast
<1>4. i \in Chain(t, n)
  BY <1>2 DEF Sound, Placed
<1>5. QED
  BY <1>1, <1>3, <1>4 DEF Occupied

\* The main position holds a key that is at home: the free node is chained
\* right behind it.
LEMMA ClaimBehind ==
  ASSUME NEW t, Sound(t), NEW k \in Keys, Absent(t, k),
         NEW r, SameButNodes(t, r), NEW mp, mp = MainPos(t, k),
         NEW n, n = t.firstfree,
         t.key[mp] # Free, ~ MustMove(t, mp),
         r.key = [t.key EXCEPT ![n] = k],
         r.next = [t.next EXCEPT ![n] = t.next[mp], ![mp] = n],
         r.val = t.val
  PROVE  Claimed(t, r, k, n, n)
<1>1. /\ IsTable(t) /\ IsTable(r) /\ Nodes(r) = Nodes(t)
      /\ r.firstfree = n /\ n \in Nodes(t)
      /\ t.key[n] = Free /\ t.next[n] = NULL
  BY DEF Sound, Placed, SameButNodes, Nodes, IsTable
<1>2. mp \in Nodes(t) /\ mp # n /\ mp \in Occupied(t)
  BY <1>1, MainPosIsNode DEF Occupied
<1>3. k # Free
  BY KeysAssumption
<1>4. \A a : MainPos(r, a) = MainPos(t, a)
  BY DEF MainPos, SameButNodes
<1>5. /\ \A i \in Nodes(t) : r.key[i] = IF i = n THEN k ELSE t.key[i]
      /\ \A i \in Nodes(t) : r.next[i] = IF i = mp THEN n
                                      ELSE IF i = n THEN t.next[mp]
                                      ELSE t.next[i]
      /\ \A i \in Nodes(t) : t.key[i] # k
  BY <1>1, <1>2 DEF IsTable, Absent
<1>6. /\ n \in Nodes(t) \ Occupied(t)
      /\ Occupied(r) = Occupied(t) \union {n}
  BY <1>1, <1>2, <1>3, <1>5 DEF Occupied
<1>7. ASSUME NEW s \in Nodes(t)
      PROVE  Chain(t, s) \subseteq Chain(r, s)
  <2>1. s \in Chain(r, s)
    BY <1>1, StartInChain
  <2>2. ASSUME NEW x \in Chain(r, s) \intersect Nodes(t), t.next[x] # NULL
        PROVE  t.next[x] \in Chain(r, s)
    <3>1. x # n
      BY <1>1, <2>2
    <3>2. \A z \in Chain(r, s) : r.next[z] # NULL => r.next[z] \in Chain(r, s)
      BY <1>1, ChainIsClosed
    <3>3. CASE x = mp
      <4>1. n \in Chain(r, s)
        BY <1>1, <1>2, <1>5, <2>2, <3>2, <3>3, NodeFacts
      <4>2. r.next[n] = t.next[mp]
        BY <1>1, <1>2, <1>5
      <4>3. QED
        BY <2>2, <3>2, <3>3, <4>1, <4>2
    <3>4. CASE x # mp
      BY <1>5, <2>2, <3>1, <3>2, <3>4
    <3>5. QED
      BY <3>3, <3>4
  <2>3. QED
    BY <1>1, <2>1, <2>2, ChainIsLeast
<1>8. n \in Chain(r, mp)
  <2>1. mp \in Chain(r, mp)
    BY <1>1, <1>2, StartInChain
  <2>2. r.next[mp] = n /\ n # NULL
    BY <1>1, <1>2, <1>5, NodeFacts
  <2>3. QED
    BY <1>1, <1>2, <2>1, <2>2, ChainIsClosed
<1>9. MainPos(t, t.key[mp]) = mp
  <2>1. t.firstfree \in Int /\ mp \in Int
    BY <1>1, <1>2 DEF Nodes, IsTable
  <2>2. MainPos(t, t.key[mp]) # mp => mp >= t.firstfree
    BY <1>2 DEF Sound, Placed
  <2>3. QED
    BY <1>2, <2>1, <2>2 DEF MustMove
<1>10. \A i \in Nodes(t) : /\ t.next[i] # NULL => t.next[i] > n
                           /\ t.next[i] # n
  <2>1. n \in Int /\ \A i \in Nodes(t) : t.next[i] \in Int
    BY <1>1, NodeFacts
  <2>2. \A i \in Nodes(t) : t.next[i] = NULL \/ t.next[i] > n
    BY <1>1 DEF Sound, Placed
  <2>3. NULL \notin Nodes(t)
    BY <1>1, NodeFacts
  <2>4. n # NULL
    BY <1>1, <2>3
  <2>5. QED
    BY <2>1, <2>2, <2>4
<1>11. Placed(r)
  <2>1. \A i \in Nodes(r) :
          \/ r.next[i] = NULL
          \/ r.next[i] > r.firstfree
          \/ r.next[i] = r.firstfree /\ r.key[r.firstfree] # Free
    BY <1>1, <1>2, <1>3, <1>5, <1>10
  <2>2. \A i, j \in Nodes(r) :
          r.next[i] = r.next[j] /\ r.next[i] # NULL => i = j
    <3>1. \A i, j \in Nodes(t) :
            t.next[i] = t.next[j] /\ t.next[i] # NULL => i = j
      BY DEF Sound, Placed
    <3>2. QED
      BY <1>1, <1>2, <1>5, <1>10, <3>1
  <2>3. \A i, j \in Occupied(r) : r.key[i] = r.key[j] => i = j
    BY <1>5, <1>6 DEF Sound, Placed, Occupied
  <2>4. ASSUME NEW i \in Occupied(r)
        PROVE  i \in Chain(r, MainPos(r, r.key[i]))
    <3>1. CASE i = n
      <4>1. MainPos(r, r.key[i]) = mp
        BY <1>1, <1>4, <1>5, <3>1
      <4>2. QED
        BY <1>8, <3>1, <4>1
    <3>2. CASE i # n
      <4>1. i \in Occupied(t) /\ r.key[i] = t.key[i]
        BY <1>5, <1>6, <3>2 DEF Occupied
      <4>2. i \in Chain(t, MainPos(t, t.key[i]))
        BY <4>1 DEF Sound, Placed
      <4>3. MainPos(t, t.key[i]) \in Nodes(t)
        BY <1>1, <4>1, MainPosIsNode DEF Occupied, IsTable
      <4>4. QED
        BY <1>4, <1>7, <4>1, <4>2, <4>3
    <3>3. QED
      BY <3>1, <3>2
  <2>5. ASSUME NEW i \in Occupied(r), MainPos(r, r.key[i]) # i
        PROVE  /\ i >= r.firstfree
               /\ \A j \in Occupied(r) : MainPos(r, r.key[j]) # i
    <3>1. MainPos(r, r.key[n]) = mp
      BY <1>1, <1>4, <1>5
    <3>2. \A j \in Occupied(t) : j # n /\ r.key[j] = t.key[j]
      BY <1>5, <1>6 DEF Occupied
    <3>3. CASE i = n
      <4>1. i >= r.firstfree
        BY <1>1, <3>3 DEF Nodes, IsTable
      <4>2. \A j \in Occupied(t) : MainPos(t, t.key[j]) # n
        BY FreeIsNoHome
      <4>3. QED
        BY <1>2, <1>4, <1>6, <3>1, <3>2, <3>3, <4>1, <4>2
    <3>4. CASE i # n
      <4>1. i \in Occupied(t)
        BY <1>6, <3>4
      <4>2. MainPos(t, t.key[i]) # i
        BY <1>4, <2>5, <3>2, <4>1
      <4>3. i >= t.firstfree /\ \A j \in Occupied(t) : MainPos(t, t.key[j]) # i
        BY <4>1, <4>2 DEF Sound, Placed
      <4>4. i # mp
        BY <1>9, <4>2
      <4>5. QED
        BY <1>1, <1>4, <1>6, <3>1, <3>2, <4>3, <4>4
    <3>5. QED
      BY <3>3, <3>4
  <2>6. ASSUME NEW S \in SUBSET Nodes(r), \A x \in S : r.next[x] \in S, S # {}
        PROVE  FALSE
    <3> DEFINE T == S \ {n}
    <3>1. ASSUME NEW x \in T
          PROVE  t.next[x] \in T
      <4>1. x \in Nodes(t) /\ x # n /\ x \in S
        BY <1>1
      <4>2. CASE x = mp
        <5>1. n \in S
          BY <1>5, <2>6, <4>1, <4>2
        <5>2. r.next[n] = t.next[mp] /\ r.next[n] \in S
          BY <1>1, <1>2, <1>5, <2>6, <5>1
        <5>3. t.next[mp] # n
          BY <1>1, <1>2, <1>10
        <5>4. QED
          BY <4>2, <5>2, <5>3
      <4>3. CASE x # mp
        BY <1>5, <1>10, <2>6, <4>1, <4>3
      <4>4. QED
        BY <4>2, <4>3
    <3>2. T # {}
      <4>1. n \in S => r.next[n] = t.next[mp] /\ t.next[mp] \in S
        BY <1>1, <1>2, <1>5, <2>6
      <4>2. S \subseteq Nodes(t) /\ NULL \notin Nodes(t)
        BY <1>1, NodeFacts
      <4>3. QED
        BY <1>2, <1>10, <2>6, <4>1, <4>2
    <3>3. T \in SUBSET Nodes(t)
      BY <1>1
    <3> HIDE DEF T
    <3>4. QED
      BY <1>1, <3>1, <3>2, <3>3, NoTrap DEF Sound, Placed
  <2>7. ChainsStop(r)
    BY <1>1, <2>6, NoTrapStops
  <2>8. QED
    BY <1>1, <2>1, <2>2, <2>3, <2>4, <2>5, <2>7 DEF Placed
<1>12. ASSUME NEW a, NEW w, a # k
       PROVE  Has(r, a, w) <=> Has(t, a, w)
  BY <1>5, <1>6, <1>12 DEF Has, Occupied
<1>13. r.key[n] = k
  BY <1>1, <1>5
<1>14. \A i \in Nodes(t) \ Occupied(r) : t.next[i] = NULL => r.next[i] = NULL
  BY <1>2, <1>5, <1>6
<1>15. QED
  BY <1>1, <1>6, <1>11, <1>12, <1>13, <1>14 DEF Claimed, SameButNodes

\* A collider away from home has exactly one predecessor on the walk from its
\* main position, and it is not its own.
LEMMA OnePredecessor ==
  ASSUME NEW t, Sound(t), NEW mp \in Occupied(t),
         MainPos(t, t.key[mp]) # mp
  PROVE  \E p \in Nodes(t) : p # mp /\ t.next[p] = mp /\ Preds(t, mp) = {p}
<1> DEFINE m == MainPos(t, t.key[mp])
<1>1. IsTable(t) /\ mp \in Nodes(t) /\ mp # NULL
  BY DEF Sound, Placed, Occupied, Nodes, NULL, IsTable
<1>2. m \in Nodes(t)
  BY <1>1, MainPosIsNode DEF Occupied, IsTable
<1>3. mp \in Chain(t, m)
  BY DEF Sound, Placed
<1>4. \E p \in Chain(t, m) : p # mp /\ t.next[p] = mp
  <2>1. SUFFICES ASSUME \A p \in Chain(t, m) : p # mp => t.next[p] # mp
                 PROVE  FALSE
    OBVIOUS
  <2> DEFINE S == Chain(t, m) \ {mp}
  <2>2. m \in S
    BY <1>1, <1>2, StartInChain
  <2>3. ASSUME NEW x \in S \intersect Nodes(t), t.next[x] # NULL
        PROVE  t.next[x] \in S
    <3>1. t.next[x] \in Chain(t, m)
      BY <1>1, <1>2, <2>3, ChainIsClosed
    <3>2. QED
      BY <2>1, <3>1
  <2> HIDE DEF S
  <2>4. Chain(t, m) \subseteq S
    BY <1>1, <1>2, <2>2, <2>3, ChainIsLeast
  <2>5. QED
    BY <1>3, <2>4 DEF S
<1>5. PICK p \in Chain(t, m) : p # mp /\ t.next[p] = mp
  BY <1>4
<1>6. p \in Nodes(t)
  BY <1>5, ChainInNodes
<1>7. \A q \in Nodes(t) : t.next[q] = mp => q = p
  BY <1>1, <1>5, <1>6 DEF Sound, Placed
<1>8. Preds(t, mp) = {p}
  BY <1>5, <1>6, <1>7, ChainInNodes DEF Preds
<1>9. QED
  BY <1>5, <1>6, <1>8

\* The main position holds a collider, which moves to the free node.
LEMMA ClaimFromCollider ==
  ASSUME NEW t, Sound(t), NEW k \in Keys, Absent(t, k),
         NEW r, SameButNodes(t, r), NEW mp, mp = MainPos(t, k),
         NEW n, n = t.firstfree,
         t.key[mp] # Free, MustMove(t, mp),
         NEW p \in Nodes(t), p # mp, t.next[p] = mp,
         r.key = [t.key EXCEPT ![n] = t.key[mp], ![mp] = k],
         r.next = [t.next EXCEPT ![p] = n, ![n] = t.next[mp], ![mp] = NULL],
         r.val = [t.val EXCEPT ![n] = t.val[mp], ![mp] = Null]
  PROVE  Claimed(t, r, k, mp, n)
<1>1. /\ IsTable(t) /\ IsTable(r) /\ Nodes(r) = Nodes(t)
      /\ r.firstfree = n /\ n \in Nodes(t) /\ n # NULL
      /\ t.key[n] = Free /\ t.next[n] = NULL
  <2>1. /\ IsTable(t) /\ IsTable(r) /\ Nodes(r) = Nodes(t)
        /\ r.firstfree = n /\ n \in Nodes(t)
        /\ t.key[n] = Free /\ t.next[n] = NULL
    BY DEF Sound, Placed, SameButNodes, Nodes, IsTable
  <2>2. n # NULL
    BY <2>1, NodeFacts
  <2>3. QED
    BY <2>1, <2>2
<1>2. mp \in Nodes(t) /\ mp # n /\ mp \in Occupied(t) /\ mp > n /\ mp # NULL
  <2>1. mp \in Nodes(t)
    BY <1>1, MainPosIsNode
  <2>2. mp # n /\ mp \in Occupied(t) /\ mp > n
    BY <1>1, <2>1 DEF Occupied, MustMove
  <2>3. mp # NULL
    BY <1>1, <2>1, NodeFacts
  <2>4. QED
    BY <2>1, <2>2, <2>3
<1>3. k # Free
  BY KeysAssumption
<1>4. \A a : MainPos(r, a) = MainPos(t, a)
  BY DEF MainPos, SameButNodes
<1>5. p # n
  BY <1>1, <1>2
<1>6. /\ \A i \in Nodes(t) : r.key[i] = IF i = mp THEN k
                                     ELSE IF i = n THEN t.key[mp]
                                     ELSE t.key[i]
      /\ \A i \in Nodes(t) : r.val[i] = IF i = mp THEN Null
                                     ELSE IF i = n THEN t.val[mp]
                                     ELSE t.val[i]
      /\ \A i \in Nodes(t) : r.next[i] = IF i = mp THEN NULL
                                      ELSE IF i = n THEN t.next[mp]
                                      ELSE IF i = p THEN n
                                      ELSE t.next[i]
      /\ \A i \in Nodes(t) : t.key[i] # k
  BY <1>1, <1>2, <1>5 DEF IsTable, Absent
<1>7. /\ n \in Nodes(t) \ Occupied(t)
      /\ Occupied(r) = Occupied(t) \union {n}
  BY <1>1, <1>2, <1>3, <1>6 DEF Occupied
<1>8. MainPos(t, t.key[mp]) # mp
  BY DEF MustMove
<1>9. \A j \in Occupied(t) : MainPos(t, t.key[j]) # mp
  BY <1>2, <1>8 DEF Sound, Placed
<1>10. \A i, j \in Nodes(t) : t.next[i] = t.next[j] /\ t.next[i] # NULL => i = j
  BY DEF Sound, Placed
<1>11. \A i \in Nodes(t) : t.next[i] # NULL => t.next[i] > n /\ t.next[i] # n
  <2>1. n \in Int /\ \A i \in Nodes(t) : t.next[i] \in Int
    BY <1>1, NodeFacts
  <2>2. \A i \in Nodes(t) : t.next[i] = NULL \/ t.next[i] > n
    BY <1>1 DEF Sound, Placed
  <2>3. QED
    BY <2>1, <2>2
<1>12. ASSUME NEW s \in Nodes(t), s # mp
       PROVE  /\ Chain(t, s) \ {mp} \subseteq Chain(r, s)
              /\ mp \in Chain(t, s) => n \in Chain(r, s)
  <2> DEFINE S == Chain(r, s) \union (IF n \in Chain(r, s) THEN {mp} ELSE {})
  <2>1. s \in Chain(r, s)
    BY <1>1, StartInChain
  <2>2. \A z \in Chain(r, s) : r.next[z] # NULL => r.next[z] \in Chain(r, s)
    BY <1>1, ChainIsClosed
  <2>3. mp \notin Chain(r, s)
    <3> DEFINE T == Nodes(t) \ {mp}
    <3>1. \A x \in T : r.next[x] # mp
      <4>1. t.next[mp] # mp
        BY <1>2, <1>10
      <4>2. QED
        BY <1>1, <1>2, <1>6, <1>10, <4>1
    <3>2. \A x \in T \intersect Nodes(r) : r.next[x] # NULL => r.next[x] \in T
      BY <1>1, <3>1 DEF IsTable
    <3>3. s \in T /\ s \in Nodes(r)
      BY <1>1, <1>12
    <3> HIDE DEF T
    <3>4. Chain(r, s) \subseteq T
      BY <1>1, <3>2, <3>3, ChainIsLeast
    <3>5. QED
      BY <3>4 DEF T
  <2>4. ASSUME NEW x \in S \intersect Nodes(t), t.next[x] # NULL
        PROVE  t.next[x] \in S
    <3>1. CASE x = mp
      <4>1. n \in Chain(r, s)
        BY <2>3, <2>4, <3>1
      <4>2. r.next[n] = t.next[mp]
        BY <1>1, <1>2, <1>6
      <4>3. QED
        BY <2>2, <2>4, <3>1, <4>1, <4>2
    <3>2. CASE x = p
      <4>1. x \in Chain(r, s)
        BY <2>4, <3>2
      <4>2. r.next[x] = n
        BY <1>5, <1>6, <3>2
      <4>3. n \in Chain(r, s)
        BY <1>1, <2>2, <4>1, <4>2
      <4>4. QED
        BY <3>2, <4>3
    <3>3. CASE x # mp /\ x # p
      <4>1. x \in Chain(r, s)
        BY <2>4, <3>3
      <4>2. x # n
        BY <1>1, <2>4
      <4>3. r.next[x] = t.next[x]
        BY <1>6, <2>4, <3>3, <4>2
      <4>4. QED
        BY <2>2, <2>4, <4>1, <4>3
    <3>4. QED
      BY <3>1, <3>2, <3>3
  <2>5. s \in S
    BY <2>1
  <2> HIDE DEF S
  <2>6. Chain(t, s) \subseteq S
    BY <1>1, <2>4, <2>5, ChainIsLeast
  <2>7. QED
    BY <2>3, <2>6 DEF S
<1>13. ASSUME NEW i \in Occupied(t)
       PROVE  /\ i # mp => /\ r.key[i] = t.key[i]
                           /\ i \in Chain(r, MainPos(t, t.key[i]))
              /\ i = mp => n \in Chain(r, MainPos(t, t.key[i]))
  <2>1. i \in Chain(t, MainPos(t, t.key[i]))
    BY DEF Sound, Placed
  <2>2. MainPos(t, t.key[i]) \in Nodes(t)
    BY <1>1, MainPosIsNode DEF Occupied, IsTable
  <2>3. MainPos(t, t.key[i]) # mp
    BY <1>9
  <2>4. i \in Nodes(t) /\ i # n
    BY <1>7 DEF Occupied
  <2>5. QED
    BY <1>6, <1>12, <2>1, <2>2, <2>3, <2>4
<1>14. Placed(r)
  <2>1. \A i \in Nodes(r) :
          \/ r.next[i] = NULL
          \/ r.next[i] > r.firstfree
          \/ r.next[i] = r.firstfree /\ r.key[r.firstfree] # Free
    <3>1. r.key[n] # Free
      BY <1>1, <1>2, <1>6 DEF Occupied
    <3>2. ASSUME NEW i \in Nodes(t), r.next[i] # NULL
          PROVE  r.next[i] > n \/ r.next[i] = n
      BY <1>1, <1>2, <1>6, <1>11, <3>2
    <3>3. QED
      BY <1>1, <3>1, <3>2
  <2>2. \A i, j \in Nodes(r) :
          r.next[i] = r.next[j] /\ r.next[i] # NULL => i = j
    BY <1>1, <1>2, <1>5, <1>6, <1>10, <1>11
  <2>3. \A i, j \in Occupied(r) : r.key[i] = r.key[j] => i = j
    BY <1>2, <1>6, <1>7 DEF Sound, Placed, Occupied
  <2>4. ASSUME NEW i \in Occupied(r)
        PROVE  i \in Chain(r, MainPos(r, r.key[i]))
    <3>1. CASE i = mp
      <4>1. MainPos(r, r.key[i]) = mp
        BY <1>2, <1>4, <1>6, <3>1
      <4>2. QED
        BY <1>1, <1>2, <3>1, <4>1, StartInChain
    <3>2. CASE i = n
      <4>1. r.key[i] = t.key[mp]
        BY <1>1, <1>2, <1>6, <3>2
      <4>2. QED
        BY <1>2, <1>4, <1>13, <3>2, <4>1
    <3>3. CASE i # mp /\ i # n
      BY <1>4, <1>7, <1>13, <3>3
    <3>4. QED
      BY <3>1, <3>2, <3>3
  <2>5. ASSUME NEW i \in Occupied(r), MainPos(r, r.key[i]) # i
        PROVE  /\ i >= r.firstfree
               /\ \A j \in Occupied(r) : MainPos(r, r.key[j]) # i
    <3>1. /\ r.key[mp] = k
          /\ r.key[n] = t.key[mp]
          /\ \A j \in Occupied(t) : j # mp => r.key[j] = t.key[j]
      BY <1>1, <1>2, <1>6, <1>13
    <3>2. i # mp
      BY <1>4, <2>5, <3>1
    <3>3. CASE i = n
      <4>1. \A j \in Occupied(t) : MainPos(t, t.key[j]) # n
        BY FreeIsNoHome
      <4>2. i >= r.firstfree
        BY <1>1, <3>3 DEF Nodes, IsTable
      <4>3. \A j \in Occupied(r) : MainPos(r, r.key[j]) # n
        BY <1>2, <1>4, <1>7, <3>1, <4>1
      <4>4. QED
        BY <3>3, <4>2, <4>3
    <3>4. CASE i # n
      <4>1. i \in Occupied(t) /\ r.key[i] = t.key[i]
        BY <1>7, <3>1, <3>2, <3>4
      <4>2. i >= t.firstfree /\ \A j \in Occupied(t) : MainPos(t, t.key[j]) # i
        BY <1>4, <2>5, <4>1 DEF Sound, Placed
      <4>3. \A j \in Occupied(r) : MainPos(r, r.key[j]) # i
        BY <1>2, <1>4, <1>7, <3>1, <3>2, <4>2
      <4>4. QED
        BY <1>1, <4>2, <4>3
    <3>5. QED
      BY <3>3, <3>4
  <2>6. ASSUME NEW S \in SUBSET Nodes(r), \A x \in S : r.next[x] \in S, S # {}
        PROVE  FALSE
    <3>1. NULL \notin Nodes(t) /\ S \subseteq Nodes(t)
      BY <1>1, NodeFacts
    <3>2. mp \notin S
      BY <1>2, <1>6, <2>6, <3>1
    <3>3. CASE n \in S
      <4> DEFINE T == (S \ {n}) \union {mp}
      <4>1. t.next[mp] \in T
        BY <1>1, <1>2, <1>6, <1>11, <2>6, <3>1, <3>3
      <4>2. \A x \in S \ {n} : t.next[x] \in T
        <5>1. \A x \in S \ {n} : x # p => t.next[x] = r.next[x]
          BY <1>6, <3>1, <3>2
        <5>2. \A x \in S \ {n} : x # p => t.next[x] \in S \ {n}
          BY <1>11, <2>6, <3>1, <5>1
        <5>3. QED
          BY <5>2
      <4>3. T \in SUBSET Nodes(t) /\ T # {}
        BY <1>2, <3>1
      <4>4. \A x \in T : t.next[x] \in T
        BY <4>1, <4>2
      <4> HIDE DEF T
      <4>5. QED
        BY <1>1, <4>3, <4>4, NoTrap DEF Sound, Placed
    <3>4. CASE n \notin S
      <4>1. p \notin S
        BY <1>2, <1>5, <1>6, <2>6, <3>4
      <4>2. \A x \in S : t.next[x] \in S
        BY <1>6, <2>6, <3>1, <3>2, <3>4, <4>1
      <4>3. QED
        BY <1>1, <2>6, <3>1, <4>2, NoTrap DEF Sound, Placed
    <3>5. QED
      BY <3>3, <3>4
  <2>7. ChainsStop(r)
    BY <1>1, <2>6, NoTrapStops
  <2>8. QED
    BY <1>1, <2>1, <2>2, <2>3, <2>4, <2>5, <2>7 DEF Placed
<1>15. ASSUME NEW a, NEW w, a # k
       PROVE  Has(r, a, w) <=> Has(t, a, w)
  <2>1. ASSUME Has(r, a, w) PROVE Has(t, a, w)
    <3>1. PICK i \in Occupied(r) : r.key[i] = a /\ r.val[i] = w
      BY <2>1 DEF Has
    <3>2. i # mp
      BY <1>2, <1>6, <1>15, <3>1
    <3>3. CASE i = n
      BY <1>1, <1>2, <1>6, <3>1, <3>3 DEF Has
    <3>4. CASE i # n
      BY <1>6, <1>7, <3>1, <3>2, <3>4 DEF Has, Occupied
    <3>5. QED
      BY <3>3, <3>4
  <2>2. ASSUME Has(t, a, w) PROVE Has(r, a, w)
    <3>1. PICK i \in Occupied(t) : t.key[i] = a /\ t.val[i] = w
      BY <2>2 DEF Has
    <3>2. CASE i = mp
      <4>1. n \in Occupied(r) /\ r.key[n] = a /\ r.val[n] = w
        BY <1>1, <1>2, <1>6, <1>7, <3>1, <3>2
      <4>2. QED
        BY <4>1 DEF Has
    <3>3. CASE i # mp
      BY <1>6, <1>7, <3>1, <3>3 DEF Has, Occupied
    <3>4. QED
      BY <3>2, <3>3
  <2>3. QED
    BY <2>1, <2>2
<1>16. r.key[mp] = k
  BY <1>2, <1>6
<1>17. \A i \in Nodes(t) \ Occupied(r) : t.next[i] = NULL => r.next[i] = NULL
  BY <1>2, <1>6, <1>7
<1>18. QED
  BY <1>2, <1>7, <1>14, <1>15, <1>16, <1>17 DEF Claimed, SameButNodes

\* In each of the three cases, Claim makes room for the key in a table that
\* is Placed.
LEMMA ClaimSound ==
  ASSUME NEW t, Sound(t), NEW k \in Keys, Absent(t, k)
  PROVE  LET c == Claim(t, k)
         IN  \E x : Claimed(t, PutKey(c.tab, c.pos, k), k, c.pos, x)
<1> DEFINE c  == Claim(t, k)
           r  == PutKey(c.tab, c.pos, k)
           mp == MainPos(t, k)
           n  == t.firstfree
<1>1. IsTable(t) /\ mp \in Nodes(t) /\ n \in Nodes(t)
  BY MainPosIsNode DEF Sound, Placed, IsTable
<1>2. SameButNodes(t, r)
  <2>1. /\ IsTable(c.tab) /\ c.pos \in Nodes(c.tab)
        /\ c.tab.size = t.size /\ c.tab.firstfree = t.firstfree
        /\ c.tab.used = t.used /\ c.tab.id = t.id
    BY <1>1, ClaimIsTable DEF Nodes
  <2> HIDE DEF c
  <2>2. IsTable(r) /\ r.size = c.tab.size /\ r.firstfree = c.tab.firstfree
    BY <2>1, PutKeyIsTable
  <2>3. r.used = c.tab.used /\ r.id = c.tab.id
    BY <2>1 DEF PutKey, IsTable, Fields
  <2>4. QED
    BY <2>1, <2>2, <2>3 DEF SameButNodes
<1>3. CASE t.key[mp] = Free
  <2>1. c = [tab |-> t, pos |-> mp]
    BY <1>3 DEF Claim
  <2>2. r = PutKey(t, mp, k) /\ c.pos = mp
    BY <2>1
  <2>3. /\ r.key = [t.key EXCEPT ![mp] = k] /\ r.next = t.next
        /\ r.val = t.val
    BY <1>1, <2>2 DEF PutKey, IsTable, Fields
  <2> HIDE DEF r, c, mp
  <2>4. Claimed(t, r, k, mp, mp)
    BY <1>2, <1>3, <2>3, ClaimAtHome DEF mp
  <2>5. QED
    BY <2>2, <2>4 DEF r, c
<1>4. CASE t.key[mp] # Free /\ MustMove(t, mp)
  <2>1. mp \in Occupied(t) /\ MainPos(t, t.key[mp]) # mp
    BY <1>1, <1>4 DEF Occupied, MustMove
  <2> HIDE DEF mp
  <2>2. PICK p \in Nodes(t) : p # mp /\ t.next[p] = mp /\ Preds(t, mp) = {p}
    BY <2>1, OnePredecessor
  <2>3. (CHOOSE q \in Preds(t, mp) : TRUE) = p
    BY <2>2
  <2>4. c = [tab |-> MoveCollider(t, mp, p), pos |-> mp]
    BY <1>4, <2>3 DEF Claim, mp
  <2>5. r = PutKey(MoveCollider(t, mp, p), mp, k) /\ c.pos = mp
    BY <2>4
  <2>6. PICK m : m = MoveCollider(t, mp, p)
    OBVIOUS
  <2>7. /\ m.key = [t.key EXCEPT ![n] = t.key[mp], ![mp] = Free]
        /\ m.next = [t.next EXCEPT ![p] = n, ![n] = t.next[mp], ![mp] = NULL]
        /\ m.val = [t.val EXCEPT ![n] = t.val[mp], ![mp] = Null]
        /\ DOMAIN m = Fields
    BY <1>1, <2>6 DEF MoveCollider, IsTable, Fields
  <2>8. /\ r.key = [m.key EXCEPT ![mp] = k]
        /\ r.next = m.next /\ r.val = m.val
    BY <2>5, <2>6, <2>7 DEF PutKey, Fields
  <2>9. r.key = [t.key EXCEPT ![n] = t.key[mp], ![mp] = k]
    BY <2>7, <2>8
  <2> HIDE DEF r, c, n
  <2>10. Claimed(t, r, k, mp, n)
    BY <1>2, <1>4, <2>2, <2>7, <2>8, <2>9, ClaimFromCollider DEF mp, n
  <2>11. QED
    BY <2>5, <2>10 DEF r, c
<1>5. CASE t.key[mp] # Free /\ ~ MustMove(t, mp)
  <2>1. c = [tab |-> LinkFree(t, mp), pos |-> n]
    BY <1>5 DEF Claim
  <2>2. r = PutKey(LinkFree(t, mp), n, k) /\ c.pos = n
    BY <2>1
  <2> HIDE DEF mp
  <2>3. PICK m : m = LinkFree(t, mp)
    OBVIOUS
  <2>4. /\ m.key = t.key /\ m.val = t.val /\ DOMAIN m = Fields
        /\ m.next = [t.next EXCEPT ![n] = t.next[mp], ![mp] = n]
    BY <1>1, <2>3 DEF LinkFree, IsTable, Fields
  <2>5. /\ r.key = [m.key EXCEPT ![n] = k]
        /\ r.next = m.next /\ r.val = m.val
    BY <2>2, <2>3, <2>4 DEF PutKey, Fields
  <2> HIDE DEF r, c, n
  <2>6. Claimed(t, r, k, n, n)
    BY <1>2, <1>5, <2>4, <2>5, ClaimBehind DEF mp, n
  <2>7. QED
    BY <2>2, <2>6 DEF r, c
<1>6. QED
  BY <1>3, <1>4, <1>5

\* The keys after a new one was given its node: a collider went down.
LEMMA ClaimKeys ==
  ASSUME NEW t, Sound(t), NEW k \in Keys
  PROVE  LET c == Claim(t, k)
             r == PutKey(c.tab, c.pos, k)
             n == t.firstfree
         IN  \/ /\ t.key[c.pos] = Free
                /\ r.key = [t.key EXCEPT ![c.pos] = k]
             \/ /\ t.key[c.pos] # Free /\ MustMove(t, c.pos)
                /\ r.key = [t.key EXCEPT ![n] = t.key[c.pos], ![c.pos] = k]
<1> DEFINE c  == Claim(t, k)
           r  == PutKey(c.tab, c.pos, k)
           mp == MainPos(t, k)
           n  == t.firstfree
<1>1. IsTable(t) /\ mp \in Nodes(t) /\ n \in Nodes(t) /\ t.key[n] = Free
  BY MainPosIsNode DEF IsTable, Sound, Placed
<1>2. CASE t.key[mp] = Free
  <2>1. c = [tab |-> t, pos |-> mp]
    BY <1>2 DEF Claim
  <2>2. r = PutKey(t, mp, k) /\ c.pos = mp
    BY <2>1
  <2>3. r.key = [t.key EXCEPT ![mp] = k]
    BY <1>1, <2>2 DEF PutKey, IsTable, Fields
  <2>4. QED
    BY <1>2, <2>2, <2>3
<1>3. CASE t.key[mp] # Free /\ MustMove(t, mp)
  <2>1. PICK p : p = CHOOSE q \in Preds(t, mp) : TRUE
    OBVIOUS
  <2>2. PICK m : m = MoveCollider(t, mp, p)
    OBVIOUS
  <2>3. c = [tab |-> m, pos |-> mp]
    BY <1>3, <2>1, <2>2 DEF Claim
  <2>4. r = PutKey(m, mp, k) /\ c.pos = mp
    BY <2>3
  <2>5. /\ m.key = [t.key EXCEPT ![n] = t.key[mp], ![mp] = Free]
        /\ DOMAIN m = Fields
    BY <1>1, <2>2 DEF MoveCollider, IsTable, Fields
  <2>6. r.key = [m.key EXCEPT ![mp] = k]
    BY <2>4, <2>5 DEF PutKey, Fields
  <2>7. r.key = [t.key EXCEPT ![n] = t.key[mp], ![mp] = k]
    BY <2>5, <2>6
  <2>8. QED
    BY <1>3, <2>4, <2>7
<1>4. CASE t.key[mp] # Free /\ ~ MustMove(t, mp)
  <2>1. PICK m : m = LinkFree(t, mp)
    OBVIOUS
  <2>2. c = [tab |-> m, pos |-> n]
    BY <1>4, <2>1 DEF Claim
  <2>3. r = PutKey(m, n, k) /\ c.pos = n
    BY <2>2
  <2>4. m.key = t.key /\ DOMAIN m = Fields
    BY <1>1, <2>1 DEF LinkFree, IsTable, Fields
  <2>5. r.key = [t.key EXCEPT ![n] = k]
    BY <2>3, <2>4 DEF PutKey, Fields
  <2>6. QED
    BY <1>1, <2>3, <2>5
<1>5. QED
  BY <1>2, <1>3, <1>4

----------------------------------------------------------------------------
(* Insert *)

\* Chains depend on the links only.
LEMMA SameChains ==
  ASSUME NEW t, IsTable(t), NEW r, IsTable(r),
         r.size = t.size, r.next = t.next, NEW i \in Nodes(t)
  PROVE  Chain(t, i) = Chain(r, i)
<1>1. Nodes(t) = Nodes(r)
  BY DEF Nodes
<1>2. Chain(t, i) \subseteq Chain(r, i)
  <2>1. i \in Chain(r, i)
    BY <1>1, StartInChain
  <2>2. \A x \in Chain(r, i) : r.next[x] # NULL => r.next[x] \in Chain(r, i)
    BY <1>1, ChainIsClosed
  <2>3. QED
    BY <2>1, <2>2, ChainIsLeast
<1>3. Chain(r, i) \subseteq Chain(t, i)
  <2>1. i \in Chain(t, i)
    BY StartInChain
  <2>2. \A x \in Chain(t, i) : t.next[x] # NULL => t.next[x] \in Chain(t, i)
    BY ChainIsClosed
  <2>3. QED
    BY <1>1, <2>1, <2>2, ChainIsLeast
<1>4. QED
  BY <1>2, <1>3

\* Values, the id and the count do not matter to Placed, and the free pointer
\* may move down.
LEMMA PlacedFrame ==
  ASSUME NEW t, Placed(t), NEW r, IsTable(r), r.size = t.size,
         r.key = t.key, r.next = t.next, r.firstfree <= t.firstfree
  PROVE  Placed(r)
<1>1. /\ IsTable(t) /\ Nodes(r) = Nodes(t) /\ Occupied(r) = Occupied(t)
      /\ \A k : MainPos(r, k) = MainPos(t, k)
  BY DEF Placed, Nodes, Occupied, MainPos
<1>2. r.firstfree \in Int /\ t.firstfree \in Int
  BY <1>1 DEF IsTable, Nodes
<1>3. \A i \in Nodes(t) : t.next[i] # NULL => t.next[i] \in Int
  BY <1>1 DEF IsTable, Nodes
<1>4. \A i \in Nodes(r) :
        \/ r.next[i] = NULL
        \/ r.next[i] > r.firstfree
        \/ r.next[i] = r.firstfree /\ r.key[r.firstfree] # Free
  <2>1. \A i \in Nodes(t) :
          \/ t.next[i] = NULL
          \/ t.next[i] > t.firstfree
          \/ t.next[i] = t.firstfree /\ t.key[t.firstfree] # Free
    BY DEF Placed
  <2>2. QED
    BY <1>1, <1>2, <1>3, <2>1
<1>5. \A i \in Nodes(t) : Chain(r, i) = Chain(t, i)
  BY <1>1, SameChains
<1>6. \A i \in Occupied(t) : MainPos(t, t.key[i]) \in Nodes(t)
  BY <1>1, MainPosIsNode DEF Occupied, IsTable
<1>7. \A i \in Occupied(t) : i \in Int /\ (i >= t.firstfree => i >= r.firstfree)
  BY <1>1, <1>2 DEF Occupied, Nodes
<1>8. ChainsStop(r)
  BY <1>1, <1>5, StopsEverywhere DEF Placed
<1>9. \A i \in Occupied(r) : i \in Chain(r, MainPos(r, r.key[i]))
  BY <1>1, <1>5, <1>6 DEF Placed
<1>10. \A i \in Occupied(r) :
         MainPos(r, r.key[i]) # i =>
           /\ i >= r.firstfree
           /\ \A j \in Occupied(r) : MainPos(r, r.key[j]) # i
  BY <1>1, <1>7 DEF Placed
<1>11. /\ \A i, j \in Nodes(r) :
             r.next[i] = r.next[j] /\ r.next[i] # NULL => i = j
       /\ \A i, j \in Occupied(r) : r.key[i] = r.key[j] => i = j
  BY <1>1 DEF Placed
<1>12. QED
  BY <1>4, <1>8, <1>9, <1>10, <1>11 DEF Placed

LEMMA NodesCount ==
  ASSUME NEW t, IsTable(t)
  PROVE  IsFiniteSet(Nodes(t)) /\ Cardinality(Nodes(t)) = t.size
<1>1. 0 \in Int /\ t.size - 1 \in Int /\ ~ (0 > t.size - 1)
      /\ (t.size - 1) - 0 + 1 = t.size
  BY DEF IsTable
<1>2. /\ IsFiniteSet(0 .. t.size - 1)
      /\ Cardinality(0 .. t.size - 1) =
           IF 0 > t.size - 1 THEN 0 ELSE (t.size - 1) - 0 + 1
  BY <1>1, FS_Interval
<1>3. QED
  BY <1>1, <1>2 DEF Nodes

LEMMA OccupiedCount ==
  ASSUME NEW t, IsTable(t)
  PROVE  /\ IsFiniteSet(Occupied(t))
         /\ Cardinality(Occupied(t)) \in 0 .. t.size
         /\ Cardinality(Occupied(t)) = t.size => Occupied(t) = Nodes(t)
<1>1. Occupied(t) \in SUBSET Nodes(t)
  BY DEF Occupied
<1>2. /\ IsFiniteSet(Occupied(t))
      /\ Cardinality(Occupied(t)) <= Cardinality(Nodes(t))
      /\ Cardinality(Nodes(t)) = Cardinality(Occupied(t)) =>
           Nodes(t) = Occupied(t)
  BY <1>1, NodesCount, FS_Subset
<1>3. Cardinality(Occupied(t)) \in Nat
  BY <1>2, FS_CardinalityType
<1>4. t.size \in Nat
  BY DEF IsTable
<1>5. QED
  BY <1>2, <1>3, <1>4, NodesCount

LEMMA OneMore ==
  ASSUME NEW S, IsFiniteSet(S), NEW x, x \notin S
  PROVE  Cardinality(S \union {x}) = Cardinality(S) + 1
BY FS_AddElement

\* t with the entry (k, v) added.
Inserted(t, r, k, v) ==
  /\ Sound(r)
  /\ r.size = t.size
  /\ r.used = t.used + 1
  /\ \A a, w : Has(r, a, w) <=> (a = k /\ w = v) \/ Has(t, a, w)

\* A key is stored once, so its node decides its value.
LEMMA HasAt ==
  ASSUME NEW t, Placed(t), NEW i \in Occupied(t), NEW w
  PROVE  Has(t, t.key[i], w) <=> t.val[i] = w
BY DEF Has, Placed

LEMMA InsertOk ==
  ASSUME NEW t, Sound(t), NEW k \in Keys, Absent(t, k), NEW v \in Vals,
         Insert(t, k, v).ok
  PROVE  Inserted(t, Insert(t, k, v).tab, k, v)
<1> DEFINE c  == Claim(t, k)
           t1 == PutKey(c.tab, c.pos, k)
           fb == FreeBelow(t1)
           ff == Highest(fb)
           id == NextId(t1, k, c.pos)
<1>1. PICK x : Claimed(t, t1, k, c.pos, x)
  BY ClaimSound
<1>2. fb # {} /\ Insert(t, k, v).tab = Fill(t1, c.pos, v, ff, id)
  BY InsertCases
<1> HIDE DEF t1, c
<1>3. /\ Placed(t1) /\ IsTable(t1) /\ IsTable(t) /\ Nodes(t1) = Nodes(t)
      /\ t1.firstfree = t.firstfree /\ t1.used = t.used /\ t1.size = t.size
      /\ c.pos \in Nodes(t1) /\ t1.key[c.pos] = k
  BY <1>1 DEF Claimed, Placed, Sound, Nodes
<1>4. id \in TypeIds
  BY <1>3, NextIdType
<1>5. t1.firstfree \in Nat /\ t1.firstfree \in Nodes(t1)
  BY <1>3 DEF IsTable, Nodes
<1>6. ff \in fb /\ ff \in 0 .. t1.firstfree /\ ff \in Nodes(t1)
  <2>1. fb \in SUBSET (0 .. t1.firstfree)
    BY DEF FreeBelow
  <2>2. ff \in fb
    BY <1>2, <1>5, <2>1, HighestIsMax
  <2>3. t1.size \in Nat
    BY <1>3 DEF IsTable
  <2>4. QED
    BY <1>5, <2>1, <2>2, <2>3 DEF Nodes
<1> DEFINE r == Fill(t1, c.pos, v, ff, id)
<1>7. IsTable(r) /\ r.size = t1.size
  BY <1>3, <1>4, <1>6, FillIsTable
<1>8. /\ r.key = t1.key /\ r.next = t1.next /\ r.firstfree = ff
      /\ r.used = t1.used + 1 /\ r.val = [t1.val EXCEPT ![c.pos] = v]
  BY <1>3 DEF Fill, IsTable, Fields
<1>9. t1.key[ff] = Free /\ t1.next[ff] = NULL
  BY <1>6 DEF FreeBelow
<1> HIDE DEF r, ff, fb, id
<1>10. Placed(r)
  BY <1>3, <1>5, <1>6, <1>7, <1>8, PlacedFrame
<1>11. Occupied(r) = Occupied(t1)
  BY <1>7, <1>8 DEF Occupied, Nodes
<1>12. Cardinality(Occupied(r)) = t.used + 1
  <2>1. IsFiniteSet(Occupied(t)) /\ Cardinality(Occupied(t)) = t.used
    BY <1>3, OccupiedCount DEF Sound
  <2>2. Occupied(r) = Occupied(t) \union {x} /\ x \notin Occupied(t)
    BY <1>1, <1>11 DEF Claimed
  <2>3. QED
    BY <2>1, <2>2, OneMore
<1>13. Sound(r)
  BY <1>3, <1>8, <1>9, <1>10, <1>12 DEF Sound
<1>14. ASSUME NEW a, NEW w
       PROVE  Has(r, a, w) <=> (a = k /\ w = v) \/ Has(t, a, w)
  <2>1. c.pos \in Occupied(r) /\ r.key[c.pos] = k /\ r.val[c.pos] = v
    BY <1>3, <1>8, <1>11, KeysAssumption DEF Occupied, IsTable
  <2>2. CASE a = k
    <3>1. Has(r, r.key[c.pos], w) <=> r.val[c.pos] = w
      BY <1>10, <2>1, HasAt
    <3>2. ~ Has(t, a, w)
      BY <2>2 DEF Has, Absent, Occupied
    <3>3. QED
      BY <2>1, <2>2, <3>1, <3>2
  <2>3. CASE a # k
    <3>1. Has(t1, a, w) <=> Has(t, a, w)
      BY <1>1, <2>3 DEF Claimed
    <3>2. \A i \in Occupied(t1) : t1.key[i] = a => r.val[i] = t1.val[i]
      BY <1>3, <1>8, <2>3 DEF Occupied, IsTable
    <3>3. Has(r, a, w) <=> Has(t1, a, w)
      BY <1>8, <1>11, <3>2 DEF Has
    <3>4. QED
      BY <2>3, <3>1, <3>3
  <2>4. QED
    BY <2>2, <2>3
<1>15. Inserted(t, r, k, v)
  BY <1>3, <1>7, <1>8, <1>13, <1>14 DEF Inserted
<1>16. QED
  BY <1>2, <1>15 DEF r, ff, fb, id

\* An Insert that finds no free node has stored the key already, but not
\* counted it.
LEMMA InsertFull ==
  ASSUME NEW t, Sound(t), NEW k \in Keys, Absent(t, k), NEW v \in Vals,
         ~ Insert(t, k, v).ok
  PROVE  LET r == Insert(t, k, v).tab
         IN  /\ Placed(r)
             /\ r.size = t.size
             /\ r.used = t.used
             /\ Cardinality(Occupied(r)) = t.used + 1
             /\ \E w \in Vals : Has(r, k, w)
             /\ \A a, w : a # k => (Has(r, a, w) <=> Has(t, a, w))
<1> DEFINE c  == Claim(t, k)
           t1 == PutKey(c.tab, c.pos, k)
           r  == Insert(t, k, v).tab
<1>1. PICK x : Claimed(t, t1, k, c.pos, x)
  BY ClaimSound
<1>2. r = [t1 EXCEPT !.firstfree = 0]
  BY InsertCases
<1>3. IsTable(r) /\ IsTable(t)
  BY InsertIsTable DEF Sound, Placed
<1> HIDE DEF t1, c, r
<1>4. /\ Placed(t1) /\ IsTable(t1) /\ Nodes(t1) = Nodes(t)
      /\ t1.used = t.used /\ t1.size = t.size
      /\ c.pos \in Nodes(t1) /\ t1.key[c.pos] = k
      /\ t1.firstfree \in Nat
  <2>1. /\ Placed(t1) /\ IsTable(t1) /\ Nodes(t1) = Nodes(t)
        /\ t1.used = t.used /\ t1.size = t.size
        /\ c.pos \in Nodes(t1) /\ t1.key[c.pos] = k
    BY <1>1 DEF Claimed, Placed, Nodes
  <2>2. t1.firstfree \in Nat
    BY <2>1 DEF Nodes, IsTable
  <2>3. QED
    BY <2>1, <2>2
<1>5. /\ r.size = t1.size /\ r.key = t1.key /\ r.next = t1.next
      /\ r.val = t1.val /\ r.used = t1.used /\ r.firstfree = 0
  BY <1>2, <1>4 DEF IsTable, Fields
<1>6. Placed(r)
  BY <1>3, <1>4, <1>5, PlacedFrame
<1>7. Occupied(r) = Occupied(t1)
  BY <1>5 DEF Occupied, Nodes
<1>8. Cardinality(Occupied(r)) = t.used + 1
  <2>1. IsFiniteSet(Occupied(t)) /\ Cardinality(Occupied(t)) = t.used
    BY <1>3, OccupiedCount DEF Sound
  <2>2. Occupied(r) = Occupied(t) \union {x} /\ x \notin Occupied(t)
    BY <1>1, <1>7 DEF Claimed
  <2>3. QED
    BY <2>1, <2>2, OneMore
<1>9. c.pos \in Occupied(r) /\ r.key[c.pos] = k /\ r.val[c.pos] \in Vals
  BY <1>4, <1>5, <1>7, KeysAssumption DEF Occupied, IsTable
<1>10. \E w \in Vals : Has(r, k, w)
  BY <1>9 DEF Has
<1>11. \A a, w : Has(r, a, w) <=> Has(t1, a, w)
  BY <1>5, <1>7 DEF Has
<1>12. \A a, w : a # k => (Has(t1, a, w) <=> Has(t, a, w))
  BY <1>1 DEF Claimed
<1>13. QED
  BY <1>4, <1>5, <1>6, <1>8, <1>10, <1>11, <1>12 DEF r

\* No free node lies above the free pointer or has a successor, as in an
\* array that only inserts have filled.
Packed(t) ==
  \A i \in Nodes(t) :
     t.key[i] = Free => i <= t.firstfree /\ t.next[i] = NULL

\* In such an array, an insert that leaves one node over finds it.
LEMMA InsertPacked ==
  ASSUME NEW t, Sound(t), Packed(t), t.used + 1 < t.size,
         NEW k \in Keys, Absent(t, k), NEW v \in Vals
  PROVE  Insert(t, k, v).ok /\ Packed(Insert(t, k, v).tab)
<1> DEFINE c  == Claim(t, k)
           t1 == PutKey(c.tab, c.pos, k)
           fb == FreeBelow(t1)
           id == NextId(t1, k, c.pos)
           ff == Highest(fb)
<1>1. PICK x : Claimed(t, t1, k, c.pos, x)
  BY ClaimSound
<1>2. /\ Insert(t, k, v).ok <=> fb # {}
      /\ fb # {} => Insert(t, k, v).tab = Fill(t1, c.pos, v, ff, id)
  BY InsertCases
<1> HIDE DEF t1, c
<1>3. /\ IsTable(t1) /\ IsTable(t) /\ Nodes(t1) = Nodes(t)
      /\ t1.firstfree = t.firstfree /\ t1.size = t.size
  BY <1>1 DEF Claimed, Placed, Sound, Nodes
<1>4. t1.firstfree \in Nat
  BY <1>3 DEF IsTable, Nodes
<1>5. \A i \in Nodes(t1) :
        t1.key[i] = Free => i \in 0 .. t1.firstfree /\ t1.next[i] = NULL
  <2> SUFFICES ASSUME NEW i \in Nodes(t1), t1.key[i] = Free
               PROVE  i \in 0 .. t1.firstfree /\ t1.next[i] = NULL
    OBVIOUS
  <2>1. i \notin Occupied(t1)
    BY DEF Occupied
  <2>2. i \in Nodes(t) /\ i \notin Occupied(t)
    BY <1>1, <1>3, <2>1 DEF Claimed
  <2>3. i <= t.firstfree /\ t.next[i] = NULL
    BY <2>2 DEF Packed, Occupied
  <2>4. t1.next[i] = NULL
    BY <1>1, <2>1, <2>2, <2>3 DEF Claimed
  <2>5. i \in Nat
    BY <1>3 DEF Nodes
  <2>6. QED
    BY <1>3, <1>4, <2>3, <2>4, <2>5
<1>6. fb # {}
  <2>1. IsFiniteSet(Occupied(t)) /\ Cardinality(Occupied(t)) = t.used
    BY <1>3, OccupiedCount DEF Sound
  <2>2. Occupied(t1) = Occupied(t) \union {x} /\ x \notin Occupied(t)
    BY <1>1 DEF Claimed
  <2>3. Cardinality(Occupied(t1)) = t.used + 1
    BY <2>1, <2>2, OneMore
  <2>4. t.used \in Int /\ t.size \in Nat
    BY <1>3 DEF IsTable
  <2>5. Occupied(t1) # Nodes(t1)
    BY <1>3, <2>3, <2>4, NodesCount
  <2>6. PICK i \in Nodes(t1) : t1.key[i] = Free
    BY <2>5 DEF Occupied
  <2>7. i \in fb
    BY <1>5, <2>6 DEF FreeBelow
  <2>8. QED
    BY <2>7
<1>7. \A i \in fb : i <= ff
  <2>1. fb \in SUBSET (0 .. t1.firstfree)
    BY DEF FreeBelow
  <2>2. QED
    BY <1>4, <1>6, <2>1, HighestIsMax
<1> DEFINE r == Fill(t1, c.pos, v, ff, id)
<1>8. /\ r.key = t1.key /\ r.next = t1.next /\ r.firstfree = ff
      /\ Nodes(r) = Nodes(t1)
  BY <1>3 DEF Fill, IsTable, Fields, Nodes
<1> HIDE DEF r, ff
<1>9. Packed(r)
  BY <1>5, <1>7, <1>8 DEF Packed, FreeBelow
<1>10. QED
  BY <1>2, <1>6, <1>9 DEF r, ff

\* A node is always free.
LEMMA UsedBelowSize ==
  ASSUME NEW t, Sound(t)
  PROVE  t.used \in Nat /\ t.used < t.size
<1>1. IsTable(t) /\ t.key[t.firstfree] = Free
  BY DEF Sound, Placed
<1>2. t.firstfree \in Nodes(t) /\ t.firstfree \notin Occupied(t)
  BY <1>1 DEF IsTable, Occupied
<1>3. /\ Cardinality(Occupied(t)) # t.size
      /\ Cardinality(Occupied(t)) \in 0 .. t.size
  BY <1>1, <1>2, OccupiedCount
<1>4. t.used = Cardinality(Occupied(t)) /\ t.size \in Nat
  BY <1>1 DEF Sound, IsTable
<1>5. QED
  BY <1>3, <1>4

LEMMA InsertStaysPacked ==
  ASSUME NEW t, Sound(t), Packed(t), NEW k \in Keys, Absent(t, k),
         NEW v \in Vals, Insert(t, k, v).ok
  PROVE  Packed(Insert(t, k, v).tab)
<1> DEFINE r == Insert(t, k, v).tab
<1>1. Sound(r) /\ r.size = t.size /\ r.used = t.used + 1
  BY InsertOk DEF Inserted
<1> HIDE DEF r
<1>2. t.used + 1 < t.size
  BY <1>1, UsedBelowSize
<1>3. QED
  BY <1>2, InsertPacked

----------------------------------------------------------------------------
(* Rehash *)

\* The occupied nodes that the loop has passed before its i-th node.
Upto(t, i) == {j \in Occupied(t) : j < i}

\* The half filled array: Packed, with exactly the entries passed so far.
Filled(t, n, r, i) ==
  /\ Sound(r)
  /\ Packed(r)
  /\ r.size = n
  /\ r.used = Cardinality(Upto(t, i))
  /\ \A a, w : Has(r, a, w) <=>
                 \E j \in Upto(t, i) : t.key[j] = a /\ t.val[j] = w

LEMMA AllocSound ==
  ASSUME NEW n \in Nat \ {0}, NEW r, IsTable(r), r.size = n,
         r.key = [i \in 0 .. n - 1 |-> Free],
         r.next = [i \in 0 .. n - 1 |-> NULL], r.firstfree = n - 1, r.used = 0
  PROVE  Sound(r) /\ Packed(r) /\ \A a, w : ~ Has(r, a, w)
<1>1. Nodes(r) = 0 .. n - 1 /\ Occupied(r) = {}
  BY DEF Nodes, Occupied
<1>2. /\ \A i \in Nodes(r) : r.next[i] = NULL /\ r.key[i] = Free
      /\ r.firstfree \in Nodes(r)
      /\ \A i \in Nodes(r) : i <= r.firstfree
  <2>1. \A i \in Nodes(r) : r.next[i] = NULL /\ r.key[i] = Free
    BY <1>1
  <2>2. n - 1 \in 0 .. n - 1 /\ \A i \in 0 .. n - 1 : i <= n - 1
    OBVIOUS
  <2>3. QED
    BY <1>1, <2>1, <2>2
<1>3. ChainsStop(r)
  BY <1>2, StartInChain, StopsEverywhere
<1>4. Placed(r)
  BY <1>1, <1>2, <1>3 DEF Placed
<1>5. QED
  BY <1>1, <1>2, <1>4, FS_EmptySet DEF Sound, Packed, Has

\* One iteration of the loop.
LEMMA FilledStep ==
  ASSUME NEW t, Placed(t), NEW n \in Nat \ {0}, Cardinality(Occupied(t)) < n,
         NEW i \in 1 .. t.size, NEW cur, Filled(t, n, cur, i - 1)
  PROVE  /\ Filled(t, n, RehashStep(t, cur, i), i)
         /\ t.key[i - 1] # Free =>
              Insert(cur, t.key[i - 1], t.val[i - 1]).ok
<1>1. IsTable(t) /\ t.size \in Nat /\ i - 1 \in Nodes(t) /\ i \in Nat
  BY DEF Placed, IsTable, Nodes
<1>2. Occupied(t) \subseteq Nat
  BY <1>1 DEF Occupied, Nodes
<1>3. CASE t.key[i - 1] = Free
  <2>1. Upto(t, i) = Upto(t, i - 1)
    <3>1. i - 1 \notin Occupied(t)
      BY <1>3 DEF Occupied
    <3>2. \A j \in Occupied(t) : j < i <=> j < i - 1
      BY <1>1, <1>2, <3>1
    <3>3. QED
      BY <3>2 DEF Upto
  <2>2. RehashStep(t, cur, i) = cur
    BY <1>3 DEF RehashStep
  <2>3. QED
    BY <1>3, <2>1, <2>2 DEF Filled
<1>4. CASE t.key[i - 1] # Free
  <2> DEFINE k == t.key[i - 1]
             v == t.val[i - 1]
  <2>1. k \in Keys /\ v \in Vals /\ i - 1 \in Occupied(t)
    BY <1>1, <1>4 DEF IsTable, Occupied
  <2>2. Upto(t, i) = Upto(t, i - 1) \union {i - 1} /\ i - 1 \notin Upto(t, i - 1)
    <3>1. \A j \in Occupied(t) : j < i <=> j < i - 1 \/ j = i - 1
      BY <1>1, <1>2
    <3>2. ~ (i - 1 < i - 1)
      BY <1>1
    <3>3. QED
      BY <2>1, <3>1, <3>2 DEF Upto
  <2>3. /\ Sound(cur) /\ Packed(cur) /\ cur.size = n
        /\ cur.used = Cardinality(Upto(t, i - 1))
        /\ \A a, w : Has(cur, a, w) <=>
                       \E j \in Upto(t, i - 1) : t.key[j] = a /\ t.val[j] = w
    BY DEF Filled
  <2> HIDE DEF k, v
  <2>4. Absent(cur, k)
    <3>1. SUFFICES ASSUME NEW x \in Nodes(cur), cur.key[x] = k
                   PROVE  FALSE
      BY DEF Absent
    <3>2. Has(cur, k, cur.val[x])
      BY <2>1, <3>1, KeysAssumption DEF Has, Occupied
    <3>3. PICK j \in Upto(t, i - 1) : t.key[j] = k
      BY <2>3, <3>2
    <3>4. j = i - 1
      BY <2>1, <3>3 DEF Placed, Upto, k
    <3>5. QED
      BY <2>2, <3>3, <3>4
  <2>5. /\ Cardinality(Upto(t, i)) = cur.used + 1
        /\ cur.used + 1 < cur.size
    <3>1. /\ Upto(t, i) \in SUBSET Occupied(t)
          /\ Upto(t, i - 1) \in SUBSET Occupied(t)
      BY DEF Upto
    <3>2. IsFiniteSet(Occupied(t)) /\ Cardinality(Occupied(t)) \in Nat
      BY <1>1, OccupiedCount, FS_CardinalityType
    <3>3. IsFiniteSet(Upto(t, i - 1))
      BY <3>1, <3>2, FS_Subset
    <3>4. Cardinality(Upto(t, i)) = Cardinality(Upto(t, i - 1)) + 1
      BY <2>2, <3>3, OneMore
    <3>5. Cardinality(Upto(t, i)) <= Cardinality(Occupied(t))
      BY <3>1, <3>2, FS_Subset
    <3>6. Cardinality(Upto(t, i - 1)) \in Nat
      BY <3>3, FS_CardinalityType
    <3>7. QED
      BY <2>3, <3>2, <3>4, <3>5, <3>6
  <2>6. Insert(cur, k, v).ok /\ Packed(Insert(cur, k, v).tab)
    BY <2>1, <2>3, <2>4, <2>5, InsertPacked
  <2>7. Inserted(cur, Insert(cur, k, v).tab, k, v)
    BY <2>1, <2>3, <2>4, <2>6, InsertOk
  <2> DEFINE r == Insert(cur, k, v).tab
  <2>8. Packed(r) /\ Inserted(cur, r, k, v)
    BY <2>6, <2>7
  <2>9. RehashStep(t, cur, i) = r
    BY <1>4 DEF RehashStep, k, v
  <2> HIDE DEF r
  <2>10. \A a, w : Has(r, a, w) <=>
                      \E j \in Upto(t, i) : t.key[j] = a /\ t.val[j] = w
    <3> SUFFICES ASSUME NEW a, NEW w
                 PROVE  Has(r, a, w) <=>
                          \E j \in Upto(t, i) : t.key[j] = a /\ t.val[j] = w
      OBVIOUS
    <3>1. Has(r, a, w) <=> (a = k /\ w = v) \/ Has(cur, a, w)
      BY <2>8 DEF Inserted
    <3>2. (a = k /\ w = v) <=> (t.key[i - 1] = a /\ t.val[i - 1] = w)
      BY DEF k, v
    <3>3. QED
      BY <2>2, <2>3, <3>1, <3>2
  <2>11. Filled(t, n, r, i)
    BY <2>3, <2>5, <2>8, <2>10 DEF Filled, Inserted
  <2>12. QED
    BY <2>6, <2>9, <2>11 DEF k, v
<1>5. QED
  BY <1>3, <1>4

\* The whole loop.
LEMMA RunFilled ==
  ASSUME NEW t, Placed(t), NEW n \in Nat \ {0}, Cardinality(Occupied(t)) < n,
         NEW f, IsRun(t, n, t.size, f)
  PROVE  \A i \in 0 .. t.size : Filled(t, n, f[i], i)
<1> DEFINE S == {i \in 0 .. t.size : Filled(t, n, f[i], i)}
<1>1. IsTable(t) /\ t.size \in Nat
  BY DEF Placed, IsTable
<1>2. f = [i \in 0 .. t.size |-> IF i = 0 THEN RehashStart(t, n)
                                           ELSE RehashStep(t, f[i - 1], i)]
  BY DEF IsRun
<1>3. 0 \in S
  <2>1. f[0] = RehashStart(t, n)
    BY <1>1, <1>2
  <2>2. IsTable(f[0])
    BY <1>1, RunIsTable
  <2>3. /\ f[0].size = n /\ f[0].used = 0 /\ f[0].firstfree = n - 1
        /\ f[0].key = [i \in 0 .. n - 1 |-> Free]
        /\ f[0].next = [i \in 0 .. n - 1 |-> NULL]
    BY <2>1 DEF RehashStart, AllocNodes
  <2>4. Sound(f[0]) /\ Packed(f[0]) /\ \A a, w : ~ Has(f[0], a, w)
    BY <2>2, <2>3, AllocSound
  <2>5. Upto(t, 0) = {}
    BY <1>1 DEF Upto, Occupied, Nodes
  <2>6. Filled(t, n, f[0], 0)
    BY <2>3, <2>4, <2>5, FS_EmptySet DEF Filled
  <2>7. QED
    BY <1>1, <2>6
<1>4. ASSUME NEW i \in 1 .. t.size, i - 1 \in S
      PROVE  i \in S
  <2>1. f[i] = RehashStep(t, f[i - 1], i)
    BY <1>1, <1>2
  <2>2. Filled(t, n, f[i], i)
    BY <1>4, <2>1, FilledStep
  <2>3. QED
    BY <1>1, <2>2
<1>5. \A i \in 0 .. t.size : i \in S
  <2> HIDE DEF S
  <2>1. QED
    BY <1>1, <1>3, <1>4, InductionUpTo
<1>6. QED
  BY <1>5

\* The counts with which Rehash is called: exact, or one too low when a new
\* key is in its node already.
Counted(t) == t.used \in {Cardinality(Occupied(t)), Cardinality(Occupied(t)) - 1}
              /\ t.used >= 0

\* The new size leaves a node free, even for one key more than are counted.
LEMMA NewSizeRoom ==
  ASSUME NEW t, IsTable(t), Counted(t), NEW force, NewSize(t, force) # t.size
  PROVE  Cardinality(Occupied(t)) < NewSize(t, force)
<1>1. t.size \in Nat \ {0} /\ t.used \in Nat
  BY DEF IsTable, Counted
<1>2. /\ Cardinality(Occupied(t)) \in 0 .. t.size
      /\ Cardinality(Occupied(t)) <= t.used + 1
  BY <1>1, OccupiedCount DEF Counted
<1>3. CASE NewSize(t, force) = 2 * t.size
  BY <1>1, <1>2, <1>3
<1>4. CASE t.used < t.size \div 4 /\ NewSize(t, force) = t.size \div 2
  <2>1. t.size \div 4 <= t.size \div 2 - 1
    <3>1. t.size \div 4 >= 1
      BY <1>1, <1>4
    <3>2. QED
      BY <1>1, <3>1
  <2>2. Cardinality(Occupied(t)) <= t.size \div 4
    BY <1>1, <1>2, <1>4
  <2>3. QED
    BY <1>1, <1>2, <1>4, <2>1, <2>2
<1>5. QED
  BY <1>3, <1>4 DEF NewSize

\* The reinsertions find a free node each.
LEMMA RehashRoom ==
  ASSUME NEW t, Placed(t), Counted(t), NEW force
  PROVE  HasRoom(t, force)
<1> DEFINE n == NewSize(t, force)
           f == Reinserted(t, n)
<1>1. IsTable(t)
  BY DEF Placed
<1>2. n \in Nat \ {0}
  BY <1>1, NewSizeType
<1>3. SUFFICES ASSUME n # t.size, NEW i \in 1 .. t.size, t.key[i - 1] # Free
               PROVE  Insert(f[i - 1], t.key[i - 1], t.val[i - 1]).ok
  BY DEF HasRoom
<1>4. Cardinality(Occupied(t)) < n
  BY <1>1, <1>3, NewSizeRoom
<1>5. IsRun(t, n, t.size, f)
  BY <1>1, ReinsertedIsRun
<1>6. i - 1 \in 0 .. t.size
  BY <1>1 DEF IsTable
<1> HIDE DEF n, f
<1>7. Filled(t, n, f[i - 1], i - 1)
  BY <1>2, <1>4, <1>5, <1>6, RunFilled
<1>8. QED
  BY <1>2, <1>3, <1>4, <1>7, FilledStep

\* A Rehash that changes the size moves every entry and counts it.
LEMMA RehashMoves ==
  ASSUME NEW t, Placed(t), Counted(t), NEW force, NewSize(t, force) # t.size
  PROVE  LET r == Rehash(t, force)
         IN  /\ Sound(r)
             /\ Packed(r)
             /\ r.used = Cardinality(Occupied(t))
             /\ \A a, w : Has(r, a, w) <=> Has(t, a, w)
<1> DEFINE n == NewSize(t, force)
           f == Reinserted(t, n)
<1>1. IsTable(t) /\ t.size \in 0 .. t.size
  BY DEF Placed, IsTable
<1>2. n \in Nat \ {0} /\ Cardinality(Occupied(t)) < n
  BY <1>1, NewSizeType, NewSizeRoom
<1>3. IsRun(t, n, t.size, f)
  BY <1>1, ReinsertedIsRun
<1>4. Rehash(t, force) = f[t.size]
  BY DEF Rehash
<1> HIDE DEF n, f
<1>5. Filled(t, n, f[t.size], t.size)
  BY <1>1, <1>2, <1>3, RunFilled
<1>6. Upto(t, t.size) = Occupied(t)
  BY <1>1 DEF Upto, Occupied, Nodes
<1>7. QED
  BY <1>4, <1>5, <1>6 DEF Filled, Has

\* Every Rehash of a Sound table leaves the same entries in a Sound table.
LEMMA RehashSound ==
  ASSUME NEW t, Sound(t), NEW force
  PROVE  /\ Sound(Rehash(t, force))
         /\ \A a, w : Has(Rehash(t, force), a, w) <=> Has(t, a, w)
<1>1. Placed(t) /\ IsTable(t)
  BY DEF Sound, Placed
<1>2. Counted(t)
  BY <1>1, OccupiedCount DEF Sound, Counted
<1>3. CASE NewSize(t, force) = t.size
  BY <1>3 DEF Rehash
<1>4. CASE NewSize(t, force) # t.size
  BY <1>1, <1>2, <1>4, RehashMoves
<1>5. QED
  BY <1>3, <1>4

----------------------------------------------------------------------------
(* The operations *)

\* The walk from the main position finds every stored key, at its only node.
LEMMA FoundAt ==
  ASSUME NEW t, Placed(t), NEW i \in Occupied(t)
  PROVE  Holders(t, t.key[i]) = {i} /\ GetNode(t, t.key[i]) = i
<1>1. i \in Chain(t, MainPos(t, t.key[i]))
  BY DEF Placed
<1>2. \A j \in Nodes(t) : t.key[j] = t.key[i] => j = i
  BY DEF Placed, Occupied
<1>3. Holders(t, t.key[i]) = {i}
  BY <1>1, <1>2, ChainInNodes DEF Holders
<1>4. i # NULL
  BY DEF Placed, IsTable, Occupied, Nodes, NULL
<1>5. QED
  BY <1>3, <1>4 DEF GetNode

\* GetNode answers NULL exactly for the absent keys.
LEMMA GetNodeSound ==
  ASSUME NEW t, Placed(t), NEW k \in Keys
  PROVE  /\ GetNode(t, k) = NULL <=> Absent(t, k)
         /\ GetNode(t, k) # NULL =>
              /\ GetNode(t, k) \in Occupied(t)
              /\ t.key[GetNode(t, k)] = k
<1>1. IsTable(t) /\ k # Free
  BY KeysAssumption DEF Placed
<1>2. GetNode(t, k) # NULL =>
        GetNode(t, k) \in Nodes(t) /\ t.key[GetNode(t, k)] = k
  BY GetNodeType
<1>3. ASSUME ~ Absent(t, k)
      PROVE  GetNode(t, k) # NULL
  <2>1. PICK i \in Nodes(t) : t.key[i] = k
    BY <1>3 DEF Absent
  <2>2. GetNode(t, k) = i
    BY <1>1, <2>1, FoundAt DEF Occupied
  <2>3. i # NULL
    BY <1>1 DEF IsTable, Nodes, NULL
  <2>4. QED
    BY <2>2, <2>3
<1>4. QED
  BY <1>1, <1>2, <1>3 DEF Absent, Occupied

\* Giving a stored key another value.
LEMMA SetValSound ==
  ASSUME NEW t, Sound(t), NEW i \in Occupied(t), NEW v \in Vals
  PROVE  LET r == SetVal(t, i, v)
         IN  /\ Sound(r)
             /\ \A a, w : Has(r, a, w) <=>
                            IF a = t.key[i] THEN w = v ELSE Has(t, a, w)
<1>1. PICK r : r = SetVal(t, i, v)
  OBVIOUS
<1>2. IsTable(t) /\ IsTable(r) /\ Placed(t)
  BY <1>1, SetValIsTable DEF Sound, Placed
<1>3. /\ r.size = t.size /\ r.key = t.key /\ r.next = t.next
      /\ r.firstfree = t.firstfree /\ r.used = t.used
      /\ r.val = [t.val EXCEPT ![i] = v]
  BY <1>1, <1>2 DEF SetVal, IsTable, Fields
<1>4. Occupied(r) = Occupied(t) /\ r.firstfree \in Int
  BY <1>2, <1>3 DEF Occupied, Nodes, IsTable
<1>5. Placed(r)
  BY <1>2, <1>3, <1>4, PlacedFrame
<1>6. Sound(r)
  BY <1>3, <1>4, <1>5 DEF Sound
<1>7. /\ r.val[i] = v
      /\ \A j \in Occupied(t) : j # i => r.val[j] = t.val[j]
  BY <1>2, <1>3 DEF IsTable, Occupied
<1>8. ASSUME NEW a, NEW w
      PROVE  Has(r, a, w) <=> IF a = t.key[i] THEN w = v ELSE Has(t, a, w)
  <2>1. CASE a = t.key[i]
    <3>1. Has(r, r.key[i], w) <=> r.val[i] = w
      BY <1>4, <1>5, HasAt
    <3>2. QED
      BY <1>3, <1>7, <2>1, <3>1
  <2>2. CASE a # t.key[i]
    BY <1>3, <1>4, <1>7, <2>2 DEF Has
  <2>3. QED
    BY <2>1, <2>2
<1>9. QED
  BY <1>1, <1>6, <1>8

\* NewSlot sets the entry of its key, new or not, and no other.
LEMMA NewSlotSound ==
  ASSUME NEW t, Sound(t), NEW k \in Keys, NEW v \in Vals
  PROVE  LET r == NewSlotIn(t, k, v).tab
         IN  /\ Sound(r)
             /\ \A a, w : Has(r, a, w) <=>
                            IF a = k THEN w = v ELSE Has(t, a, w)
<1> DEFINE ins == Insert(t, k, v)
           big == Rehash(ins.tab, TRUE)
           r   == NewSlotIn(t, k, v).tab
           Put == \A a, w : Has(r, a, w) <=>
                            IF a = k THEN w = v ELSE Has(t, a, w)
<1>1. Placed(t) /\ IsTable(t)
  BY DEF Sound, Placed
<1>2. CASE GetNode(t, k) # NULL
  <2>1. r = SetVal(t, GetNode(t, k), v)
    BY <1>2 DEF NewSlotIn
  <2>2. GetNode(t, k) \in Occupied(t) /\ t.key[GetNode(t, k)] = k
    BY <1>1, <1>2, GetNodeSound
  <2> HIDE DEF r
  <2>3. QED
    BY <2>1, <2>2, SetValSound DEF r
<1>3. CASE GetNode(t, k) = NULL /\ ins.ok
  <2>1. r = ins.tab
    BY <1>3 DEF NewSlotIn
  <2>2. Absent(t, k)
    BY <1>1, <1>3, GetNodeSound
  <2>3. Inserted(t, ins.tab, k, v)
    BY <1>3, <2>2, InsertOk
  <2>4. \A w : ~ Has(t, k, w)
    BY <2>2 DEF Has, Absent, Occupied
  <2> HIDE DEF r, ins
  <2>5. Put
    BY <2>1, <2>3, <2>4 DEF Inserted
  <2>6. Sound(r)
    BY <2>1, <2>3 DEF Inserted
  <2>7. QED
    BY <2>5, <2>6 DEF r
<1>4. CASE GetNode(t, k) = NULL /\ ~ ins.ok
  <2>1. r = SetVal(big, GetNode(big, k), v)
    BY <1>4 DEF NewSlotIn
  <2>2. Absent(t, k)
    BY <1>1, <1>4, GetNodeSound
  <2>3. /\ Placed(ins.tab)
        /\ ins.tab.used = t.used
        /\ Cardinality(Occupied(ins.tab)) = t.used + 1
        /\ \E w \in Vals : Has(ins.tab, k, w)
        /\ \A a, w : a # k => (Has(ins.tab, a, w) <=> Has(t, a, w))
    BY <1>4, <2>2, InsertFull
  <2>4. t.used \in Nat
    BY <1>1, OccupiedCount, FS_CardinalityType DEF Sound
  <2> HIDE DEF r, ins
  <2>5. Counted(ins.tab)
    BY <2>3, <2>4 DEF Counted
  <2>6. NewSize(ins.tab, TRUE) # ins.tab.size
    <3>1. ins.tab.size \in Nat \ {0}
      BY <2>3 DEF Placed, IsTable
    <3>2. QED
      BY <3>1 DEF NewSize
  <2>7. Sound(big) /\ \A a, w : Has(big, a, w) <=> Has(ins.tab, a, w)
    BY <2>3, <2>5, <2>6, RehashMoves
  <2> HIDE DEF big
  <2>8. Placed(big)
    BY <2>7 DEF Sound
  <2>9. ~ Absent(big, k)
    BY <2>3, <2>7 DEF Has, Absent, Occupied
  <2>10. GetNode(big, k) \in Occupied(big) /\ big.key[GetNode(big, k)] = k
    BY <2>8, <2>9, GetNodeSound
  <2>11. /\ Sound(r)
         /\ \A a, w : Has(r, a, w) <=>
                        IF a = k THEN w = v ELSE Has(big, a, w)
    BY <2>1, <2>7, <2>10, SetValSound
  <2>12. Put
    BY <2>3, <2>7, <2>11
  <2>13. QED
    BY <2>11, <2>12 DEF r
<1>5. QED
  BY <1>2, <1>3, <1>4

\* Emptying a node leaves its links, so every other key is found as before.
LEMMA FreeNodeSound ==
  ASSUME NEW t, Sound(t), NEW i \in Occupied(t)
  PROVE  LET r == FreeNode(t, i)
         IN  /\ Sound(r)
             /\ \A a, w : Has(r, a, w) <=> a # t.key[i] /\ Has(t, a, w)
<1>1. PICK r : r = FreeNode(t, i)
  OBVIOUS
<1>2. IsTable(t) /\ IsTable(r) /\ Placed(t) /\ i \in Nodes(t)
  BY <1>1, FreeNodeIsTable DEF Sound, Placed, Occupied
<1>3. /\ r.size = t.size /\ r.key = [t.key EXCEPT ![i] = Free]
      /\ r.next = t.next /\ r.firstfree = t.firstfree /\ r.used = t.used - 1
      /\ r.val = [t.val EXCEPT ![i] = Null]
  BY <1>1, <1>2 DEF FreeNode, IsTable, Fields
<1>4. /\ Nodes(r) = Nodes(t)
      /\ \A k : MainPos(r, k) = MainPos(t, k)
      /\ \A j \in Nodes(t) : Chain(r, j) = Chain(t, j)
  BY <1>2, <1>3, SameChains DEF Nodes, MainPos
<1>5. /\ r.key[i] = Free
      /\ \A j \in Nodes(t) : j # i => r.key[j] = t.key[j] /\ r.val[j] = t.val[j]
  BY <1>2, <1>3 DEF IsTable
<1>6. Occupied(r) = Occupied(t) \ {i}
  BY <1>2, <1>4, <1>5 DEF Occupied
<1>7. t.key[t.firstfree] = Free /\ t.next[t.firstfree] = NULL
      /\ t.firstfree \in Nodes(t)
  BY <1>2 DEF Sound, IsTable
<1>8. r.key[r.firstfree] = Free /\ r.next[r.firstfree] = NULL
  BY <1>3, <1>5, <1>7
<1>9. Placed(r)
  <2>1. \A j \in Nodes(r) :
          \/ r.next[j] = NULL
          \/ r.next[j] > r.firstfree
          \/ r.next[j] = r.firstfree /\ r.key[r.firstfree] # Free
    BY <1>2, <1>3, <1>4, <1>7 DEF Placed
  <2>2. ChainsStop(r)
    BY <1>2, <1>3, <1>4, StopsEverywhere DEF Placed
  <2>3. \A j \in Occupied(t) : MainPos(t, t.key[j]) \in Nodes(t)
    BY <1>2, MainPosIsNode DEF Occupied, IsTable
  <2>4. \A j \in Occupied(r) : j \in Nodes(t) /\ r.key[j] = t.key[j]
    BY <1>5, <1>6 DEF Occupied
  <2>5. \A j \in Occupied(r) : j \in Chain(r, MainPos(r, r.key[j]))
    BY <1>2, <1>4, <1>6, <2>3, <2>4 DEF Placed
  <2>6. \A j \in Occupied(r) :
          MainPos(r, r.key[j]) # j =>
            /\ j >= r.firstfree
            /\ \A l \in Occupied(r) : MainPos(r, r.key[l]) # j
    BY <1>2, <1>3, <1>4, <1>6, <2>4 DEF Placed
  <2>7. /\ \A j, l \in Nodes(r) :
              r.next[j] = r.next[l] /\ r.next[j] # NULL => j = l
        /\ \A j, l \in Occupied(r) : r.key[j] = r.key[l] => j = l
    BY <1>2, <1>3, <1>4, <1>6, <2>4 DEF Placed
  <2>8. QED
    BY <1>2, <2>1, <2>2, <2>5, <2>6, <2>7 DEF Placed
<1>10. Cardinality(Occupied(r)) = r.used
  <2>1. IsFiniteSet(Occupied(t)) /\ Cardinality(Occupied(t)) = t.used
    BY <1>2, OccupiedCount DEF Sound
  <2>2. QED
    BY <1>3, <1>6, <2>1, FS_RemoveElement
<1>11. Sound(r)
  BY <1>8, <1>9, <1>10 DEF Sound
<1>12. \A j \in Occupied(t) : t.key[j] = t.key[i] => j = i
  BY <1>2 DEF Placed
<1>13. \A a, w : Has(r, a, w) <=> a # t.key[i] /\ Has(t, a, w)
  <2> SUFFICES ASSUME NEW a, NEW w
               PROVE  Has(r, a, w) <=> a # t.key[i] /\ Has(t, a, w)
    OBVIOUS
  <2>1. \A j \in Occupied(r) : /\ j \in Occupied(t) /\ j # i
                               /\ r.key[j] = t.key[j] /\ r.val[j] = t.val[j]
    BY <1>5, <1>6 DEF Occupied
  <2>2. Has(r, a, w) => a # t.key[i] /\ Has(t, a, w)
    BY <1>12, <2>1 DEF Has
  <2>3. a # t.key[i] /\ Has(t, a, w) => Has(r, a, w)
    BY <1>6, <2>1 DEF Has
  <2>4. QED
    BY <2>2, <2>3
<1>14. QED
  BY <1>1, <1>11, <1>13

\* The type id is no part of Sound.
LEMMA DropIdSound ==
  ASSUME NEW t, Sound(t)
  PROVE  LET r == [t EXCEPT !.id = <<>>]
         IN  Sound(r) /\ \A a, w : Has(r, a, w) <=> Has(t, a, w)
<1>1. PICK r : r = [t EXCEPT !.id = <<>>]
  OBVIOUS
<1>2. IsTable(t) /\ Placed(t)
  BY DEF Sound, Placed
<1>3. /\ r.size = t.size /\ r.key = t.key /\ r.next = t.next
      /\ r.firstfree = t.firstfree /\ r.used = t.used /\ r.val = t.val
      /\ r.id = <<>> /\ DOMAIN r = Fields
  BY <1>1, <1>2 DEF IsTable, Fields
<1>4. <<>> \in TypeIds
  BY DEF TypeIds
<1>5. IsTable(r) /\ Nodes(r) = Nodes(t) /\ Occupied(r) = Occupied(t)
  BY <1>2, <1>3, <1>4 DEF IsTable, Nodes, Occupied
<1>6. r.firstfree \in Int
  BY <1>5 DEF IsTable, Nodes
<1>7. Placed(r)
  BY <1>2, <1>3, <1>5, <1>6, PlacedFrame
<1>8. Sound(r)
  BY <1>3, <1>5, <1>7 DEF Sound
<1>9. \A a, w : Has(r, a, w) <=> Has(t, a, w)
  BY <1>3, <1>5 DEF Has
<1>10. QED
  BY <1>1, <1>8, <1>9

LEMMA RemoveSound ==
  ASSUME NEW t, Sound(t), NEW k \in Keys
  PROVE  LET r == RemoveFrom(t, k)
         IN  /\ Sound(r)
             /\ \A a, w : Has(r, a, w) <=> a # k /\ Has(t, a, w)
<1> DEFINE i == GetNode(t, k)
           f == FreeNode(t, i)
           g == Rehash(f, FALSE)
           r == RemoveFrom(t, k)
<1>1. Placed(t)
  BY DEF Sound
<1>2. CASE i = NULL
  <2>1. r = t
    BY <1>2 DEF RemoveFrom
  <2>2. \A w : ~ Has(t, k, w)
    BY <1>1, <1>2, GetNodeSound DEF Absent, Has, Occupied
  <2>3. QED
    BY <2>1, <2>2
<1>3. CASE i # NULL
  <2>1. r = [g EXCEPT !.id = <<>>]
    BY <1>3 DEF RemoveFrom
  <2>2. i \in Occupied(t) /\ t.key[i] = k
    BY <1>1, <1>3, GetNodeSound
  <2> HIDE DEF r, i
  <2>3. Sound(f) /\ \A a, w : Has(f, a, w) <=> a # k /\ Has(t, a, w)
    BY <2>2, FreeNodeSound
  <2> HIDE DEF f
  <2>4. Sound(g) /\ \A a, w : Has(g, a, w) <=> Has(f, a, w)
    BY <2>3, RehashSound
  <2> HIDE DEF g
  <2>5. Sound(r) /\ \A a, w : Has(r, a, w) <=> Has(g, a, w)
    BY <2>1, <2>4, DropIdSound
  <2>6. QED
    BY <2>3, <2>4, <2>5 DEF r
<1>4. QED
  BY <1>2, <1>3

\* What Clear makes of the array before it rehashes or resets firstfree.
LEMMA ClearedSound ==
  ASSUME NEW t, Sound(t),
         NEW c, c = [ClearNodes(t) EXCEPT !.used = 0, !.id = <<>>]
  PROVE  /\ Placed(c) /\ Counted(c) /\ Occupied(c) = {}
         /\ NewSize(c, TRUE) # c.size
         /\ c.size = t.size /\ c.used = 0 /\ c.id = <<>>
         /\ c.key = [i \in Nodes(t) |-> Free]
         /\ c.next = [i \in Nodes(t) |-> NULL]
<1>1. IsTable(t) /\ t.size \in Nat \ {0} /\ t.firstfree \in Nodes(t)
  BY DEF Sound, Placed, IsTable
<1>2. /\ c.size = t.size /\ c.used = 0 /\ c.firstfree = t.firstfree
      /\ c.key = [i \in Nodes(t) |-> Free]
      /\ c.next = [i \in Nodes(t) |-> NULL]
      /\ c.val = [i \in Nodes(t) |-> Null]
      /\ c.id = <<>> /\ DOMAIN c = Fields
  BY <1>1 DEF ClearNodes, IsTable, Fields
<1>3. <<>> \in TypeIds
  BY DEF TypeIds
<1>4. IsTable(c) /\ Nodes(c) = Nodes(t) /\ Occupied(c) = {}
  <2>1. Nodes(c) = Nodes(t)
    BY <1>2 DEF Nodes
  <2>2. /\ c.key \in [Nodes(c) -> Keys \union {Free}]
        /\ c.val \in [Nodes(c) -> Vals]
        /\ c.next \in [Nodes(c) -> Nodes(c) \union {NULL}]
    BY <1>2, <2>1, ValsAssumption
  <2>3. Occupied(c) = {}
    BY <1>2, <2>1 DEF Occupied
  <2>4. QED
    BY <1>1, <1>2, <1>3, <2>1, <2>2, <2>3 DEF IsTable
<1>5. /\ ChainsStop(c)
      /\ \A i \in Nodes(c) : c.next[i] = NULL
  <2>1. \A i \in Nodes(c) : c.next[i] = NULL
    BY <1>2, <1>4
  <2>2. QED
    BY <1>4, <2>1, StartInChain, StopsEverywhere
<1>6. Placed(c)
  BY <1>4, <1>5 DEF Placed
<1>7. Counted(c)
  BY <1>2, <1>4, FS_EmptySet DEF Counted
<1>8. NewSize(c, TRUE) # c.size
  BY <1>1, <1>2 DEF NewSize
<1>9. QED
  BY <1>2, <1>4, <1>6, <1>7, <1>8

\* Clear leaves no entry and puts the free pointer on the last node; with
\* rehash, the emptied array is replaced, wherever its free pointer was.
LEMMA ClearSound ==
  ASSUME NEW t, Sound(t), NEW rehash \in BOOLEAN
  PROVE  LET r == ClearTable(t, rehash)
         IN  Sound(r) /\ Packed(r) /\ \A a, w : ~ Has(r, a, w)
<1> DEFINE r == ClearTable(t, rehash)
<1>1. t.size \in Nat \ {0}
  BY DEF Sound, Placed, IsTable
<1>2. PICK c : c = [ClearNodes(t) EXCEPT !.used = 0, !.id = <<>>]
  OBVIOUS
<1>3. /\ Placed(c) /\ Counted(c) /\ Occupied(c) = {}
      /\ NewSize(c, TRUE) # c.size
      /\ c.size = t.size /\ c.used = 0 /\ IsTable(c)
      /\ c.key = [i \in Nodes(t) |-> Free]
      /\ c.next = [i \in Nodes(t) |-> NULL]
  <2>1. Placed(c) /\ Counted(c)
    BY <1>2, ClearedSound
  <2>2. IsTable(c)
    BY <2>1 DEF Placed
  <2>3. QED
    BY <1>2, <2>1, <2>2, ClearedSound
<1>4. CASE rehash
  <2>1. r = Rehash(c, TRUE)
    BY <1>2, <1>4 DEF ClearTable
  <2> HIDE DEF r
  <2>2. Sound(r) /\ Packed(r) /\ \A a, w : Has(r, a, w) <=> Has(c, a, w)
    BY <1>3, <2>1, RehashMoves
  <2>3. QED
    BY <1>3, <2>2 DEF Has, r
<1>5. CASE ~ rehash
  <2>1. r = [c EXCEPT !.firstfree = t.size - 1]
    BY <1>2, <1>5 DEF ClearTable
  <2> HIDE DEF r
  <2>2. /\ r.size = c.size /\ r.used = 0 /\ r.firstfree = t.size - 1
        /\ r.key = c.key /\ r.next = c.next /\ r.val = c.val
        /\ r.id = c.id /\ DOMAIN r = Fields
    BY <1>3, <2>1 DEF IsTable, Fields
  <2>3. Nodes(r) = Nodes(c) /\ t.size - 1 \in Nodes(c)
    BY <1>1, <1>3, <2>2 DEF Nodes
  <2>4. IsTable(r)
    BY <1>3, <2>2, <2>3 DEF IsTable
  <2>5. /\ r.key = [i \in 0 .. t.size - 1 |-> Free]
        /\ r.next = [i \in 0 .. t.size - 1 |-> NULL]
        /\ r.size = t.size
    BY <1>3, <2>2 DEF Nodes
  <2>6. Sound(r) /\ Packed(r) /\ \A a, w : ~ Has(r, a, w)
    BY <1>1, <2>2, <2>4, <2>5, AllocSound
  <2>7. QED
    BY <2>6 DEF r
<1>6. QED
  BY <1>4, <1>5

----------------------------------------------------------------------------
(* The theorems *)


\* Every operation, the growing and shrinking of the array included, leaves a
\* well formed node array and a well formed answer.
THEOREM TypeCorrect == Spec => []TypeOK
<1>1. Init => TypeOK
  <2> SUFFICES ASSUME Init PROVE TypeOK
    OBVIOUS
  <2>1. PICK n \in InitSizes : tab = AllocNodes(n)
    BY DEF Init
  <2>2. n \in Nat \ {0}
    BY SizesAssumption
  <2>3. QED
    BY <2>1, <2>2, AllocIsTable DEF Init, TypeOK
<1>2. TypeOK /\ [Next]_vars => TypeOK'
  <2> SUFFICES ASSUME TypeOK, [Next]_vars PROVE TypeOK'
    OBVIOUS
  <2> USE DEF TypeOK
  <2>1. ASSUME NEW k \in Keys, NEW v \in Vals, NewSlot(k, v)
        PROVE  TypeOK'
    BY <2>1, NewSlotIsTable DEF NewSlot
  <2>2. ASSUME NEW k \in Keys, NEW v \in Vals, Set(k, v)
        PROVE  TypeOK'
    BY <2>2, SetValIsTable DEF Set
  <2>3. ASSUME NEW k \in Keys, Get(k)
        PROVE  TypeOK'
    <3>1. GetNode(tab, k) # NULL => tab.val[GetNode(tab, k)] \in Vals
      BY GetNodeType DEF IsTable
    <3>2. QED
      BY <2>3, <3>1 DEF Get
  <2>4. ASSUME NEW k \in Keys, Remove(k)
        PROVE  TypeOK'
    BY <2>4, RemoveIsTable DEF Remove
  <2>5. ASSUME NEW rehash \in BOOLEAN, Clear(rehash)
        PROVE  TypeOK'
    BY <2>5, ClearIsTable DEF Clear
  <2>6. CASE UNCHANGED vars
    BY <2>6 DEF vars
  <2>7. QED
    BY <2>1, <2>2, <2>3, <2>4, <2>5, <2>6 DEF Next
<1>3. QED
  BY <1>1, <1>2, PTL DEF Spec

----------------------------------------------------------------------------
(* Safety of the node array *)

\* A new table is Sound.
LEMMA NodesInit == Init => NodesInv
<1> SUFFICES ASSUME Init PROVE NodesInv
  OBVIOUS
<1>1. PICK n \in InitSizes : tab = AllocNodes(n)
  BY DEF Init
<1>2. n \in Nat \ {0}
  BY SizesAssumption
<1>3. IsTable(tab)
  BY <1>1, <1>2, AllocIsTable
<1>4. /\ tab.size = n /\ tab.firstfree = n - 1 /\ tab.used = 0
      /\ tab.key = [i \in 0 .. n - 1 |-> Free]
      /\ tab.next = [i \in 0 .. n - 1 |-> NULL]
  BY <1>1 DEF AllocNodes
<1>5. QED
  BY <1>2, <1>3, <1>4, AllocSound DEF NodesInv

\* No operation leaves a Sound table unsound.
LEMMA NodesStep == NodesInv /\ [Next]_vars => NodesInv'
<1> SUFFICES ASSUME Sound(tab), [Next]_vars PROVE Sound(tab')
  BY DEF NodesInv
<1>1. ASSUME NEW k \in Keys, NEW v \in Vals, NewSlot(k, v)
      PROVE  Sound(tab')
  BY <1>1, NewSlotSound DEF NewSlot
<1>2. ASSUME NEW k \in Keys, NEW v \in Vals, Set(k, v)
      PROVE  Sound(tab')
  <2>1. CASE GetNode(tab, k) = NULL
    BY <1>2, <2>1 DEF Set
  <2>2. CASE GetNode(tab, k) # NULL
    <3>1. GetNode(tab, k) \in Occupied(tab)
      BY <2>2, GetNodeSound DEF Sound
    <3>2. QED
      BY <1>2, <2>2, <3>1, SetValSound DEF Set
  <2>3. QED
    BY <2>1, <2>2
<1>3. ASSUME NEW k \in Keys, Get(k)
      PROVE  Sound(tab')
  BY <1>3 DEF Get
<1>4. ASSUME NEW k \in Keys, Remove(k)
      PROVE  Sound(tab')
  BY <1>4, RemoveSound DEF Remove
<1>5. ASSUME NEW rehash \in BOOLEAN, Clear(rehash)
      PROVE  Sound(tab')
  BY <1>5, ClearSound DEF Clear
<1>6. CASE UNCHANGED vars
  BY <1>6 DEF vars
<1>7. QED
  BY <1>1, <1>2, <1>3, <1>4, <1>5, <1>6 DEF Next

\* Every operation finds the node array Sound and leaves it Sound, whatever
\* was inserted, moved, removed, cleared and rehashed before.
THEOREM NodesSound == Spec => []NodesInv
BY NodesInit, NodesStep, PTL DEF Spec

\* The free pointer rests on an unlinked free node below every link target,
\* and no two links meet.
THEOREM LinksStaySound == Spec => []LinkInv
<1>1. NodesInv => LinkInv
  <2> SUFFICES ASSUME Sound(tab) PROVE WellLinked(tab)
    BY DEF NodesInv, LinkInv
  <2>1. QED
    BY DEF Sound, Placed, WellLinked
<1>2. QED
  BY <1>1, NodesSound, PTL

\* No key is lost and none is stored twice.
THEOREM KeysAreFound == Spec => []FoundInv
<1>1. NodesInv => FoundInv
  BY FoundAt DEF NodesInv, FoundInv, Sound
<1>2. QED
  BY <1>1, NodesSound, PTL

\* The loops over a chain stop.
THEOREM LoopsStop == Spec => []ChainsEnd
<1>1. NodesInv => ChainsEnd
  BY DEF NodesInv, ChainsEnd, Sound, Placed
<1>2. QED
  BY <1>1, NodesSound, PTL

\* The count is the number of keys, and a node is always free.
THEOREM CountIsExact == Spec => []UsedExact
<1>1. NodesInv => UsedExact
  BY UsedBelowSize DEF NodesInv, Sound, UsedExact
<1>2. QED
  BY <1>1, NodesSound, PTL

\* The predecessor search of a collider succeeds, with one answer.
THEOREM PredecessorIsFound == Spec => []ColliderHasPredecessor
<1>1. NodesInv => ColliderHasPredecessor
  <2> SUFFICES ASSUME Sound(tab), NEW mp \in Occupied(tab), MustMove(tab, mp)
               PROVE  Cardinality(Preds(tab, mp)) = 1
    BY DEF NodesInv, ColliderHasPredecessor
  <2>1. PICK p \in Nodes(tab) : Preds(tab, mp) = {p}
    BY OnePredecessor DEF MustMove
  <2>2. QED
    BY <2>1, FS_Singleton
<1>2. QED
  BY <1>1, NodesSound, PTL

\* A Rehash never finds the new array full, not even for the key that NewSlot
\* has placed and not counted yet.
THEOREM ReinsertionsHaveRoom == Spec => []RehashHasRoom
<1>1. NodesInv => RehashHasRoom
  <2> SUFFICES ASSUME Sound(tab) PROVE RehashHasRoom
    BY DEF NodesInv
  <2>1. ASSUME NEW t, Sound(t)
        PROVE  Placed(t) /\ Counted(t) /\ t.used \in Nat
    <3>1. IsTable(t) /\ Placed(t)
      BY <2>1 DEF Sound, Placed
    <3>2. t.used \in Nat
      BY <2>1, <3>1, OccupiedCount, FS_CardinalityType DEF Sound
    <3>3. QED
      BY <2>1, <3>1, <3>2 DEF Counted, Sound
  <2>2. ASSUME NEW k \in Keys, GetNode(tab, k) = NULL
        PROVE  LET t == Insert(tab, k, Null).tab
               IN  Placed(t) /\ Counted(t)
    <3> DEFINE t == Insert(tab, k, Null).tab
    <3>1. Absent(tab, k)
      BY <2>1, <2>2, GetNodeSound
    <3>2. CASE Insert(tab, k, Null).ok
      <4>1. Sound(t)
        BY <3>1, <3>2, ValsAssumption, InsertOk DEF Inserted
      <4>2. QED
        BY <2>1, <4>1
    <3>3. CASE ~ Insert(tab, k, Null).ok
      <4>1. /\ Placed(t) /\ t.used = tab.used
            /\ Cardinality(Occupied(t)) = tab.used + 1
        BY <3>1, <3>3, ValsAssumption, InsertFull
      <4>2. tab.used \in Nat
        BY <2>1
      <4> HIDE DEF t
      <4>3. QED
        BY <4>1, <4>2 DEF Counted, t
    <3>4. QED
      BY <3>2, <3>3
  <2>3. QED
    BY <2>1, <2>2, RehashRoom DEF RehashHasRoom
<1>2. QED
  BY <1>1, NodesSound, PTL

----------------------------------------------------------------------------
(* The node array implements the map *)

\* What the map says of a key, in terms of the entries.
LEMMA EntryOf ==
  ASSUME NEW t, Sound(t), NEW k \in Keys
  PROVE  /\ ContentsOf(t)[k] \in Vals \union {NotFound}
         /\ \A w \in Vals : ContentsOf(t)[k] = w <=> Has(t, k, w)
         /\ \A w : Has(t, k, w) => w \in Vals
         /\ ContentsOf(t)[k] = NotFound <=> GetNode(t, k) = NULL
<1>1. Placed(t) /\ IsTable(t)
  BY DEF Sound, Placed
<1>2. \A i \in Occupied(t) : t.val[i] \in Vals
  BY <1>1 DEF IsTable, Occupied
<1>3. NotFound \notin Vals
  BY NotFoundAssumption
<1>4. CASE GetNode(t, k) = NULL
  <2>1. Absent(t, k)
    BY <1>1, <1>4, GetNodeSound
  <2>2. \A w : ~ Has(t, k, w)
    BY <2>1 DEF Has, Absent, Occupied
  <2>3. ContentsOf(t)[k] = NotFound
    BY <1>4 DEF ContentsOf
  <2>4. QED
    BY <1>3, <1>4, <2>2, <2>3
<1>5. CASE GetNode(t, k) # NULL
  <2>1. GetNode(t, k) \in Occupied(t) /\ t.key[GetNode(t, k)] = k
    BY <1>1, <1>5, GetNodeSound
  <2>2. ContentsOf(t)[k] = t.val[GetNode(t, k)]
    BY <1>5 DEF ContentsOf
  <2>3. \A w : Has(t, k, w) <=> t.val[GetNode(t, k)] = w
    BY <1>1, <2>1, HasAt
  <2>4. QED
    BY <1>2, <1>3, <1>5, <2>1, <2>2, <2>3
<1>6. QED
  BY <1>4, <1>5

\* Two tables with the same entries for a key say the same of it.
LEMMA SameEntry ==
  ASSUME NEW t, Sound(t), NEW r, Sound(r), NEW k \in Keys,
         \A w : Has(r, k, w) <=> Has(t, k, w)
  PROVE  ContentsOf(r)[k] = ContentsOf(t)[k]
<1>1. CASE ContentsOf(t)[k] \in Vals
  BY <1>1, EntryOf
<1>2. CASE ContentsOf(r)[k] \in Vals
  BY <1>2, EntryOf
<1>3. CASE ContentsOf(t)[k] = NotFound /\ ContentsOf(r)[k] = NotFound
  BY <1>3
<1>4. QED
  BY <1>1, <1>2, <1>3, EntryOf

\* A table whose entry of k is v, and whose other entries are as before, is
\* the map with k set to v.
LEMMA PutEntry ==
  ASSUME NEW t, Sound(t), NEW r, Sound(r), NEW k \in Keys, NEW v \in Vals,
         \A a, w : Has(r, a, w) <=> IF a = k THEN w = v ELSE Has(t, a, w)
  PROVE  ContentsOf(r) = [ContentsOf(t) EXCEPT ![k] = v]
<1>1. ContentsOf(r)[k] = v
  BY EntryOf
<1>2. \A l \in Keys : l # k => ContentsOf(r)[l] = ContentsOf(t)[l]
  BY SameEntry
<1>3. QED
  BY <1>1, <1>2 DEF ContentsOf

LEMMA DropEntry ==
  ASSUME NEW t, Sound(t), NEW r, Sound(r), NEW k \in Keys,
         \A a, w : Has(r, a, w) <=> a # k /\ Has(t, a, w)
  PROVE  ContentsOf(r) = [ContentsOf(t) EXCEPT ![k] = NotFound]
<1>1. ContentsOf(r)[k] = NotFound
  BY EntryOf
<1>2. \A l \in Keys : l # k => ContentsOf(r)[l] = ContentsOf(t)[l]
  BY SameEntry
<1>3. QED
  BY <1>1, <1>2 DEF ContentsOf

LEMMA NoEntry ==
  ASSUME NEW r, Sound(r), \A a, w : ~ Has(r, a, w)
  PROVE  ContentsOf(r) = [k \in Keys |-> NotFound]
<1>1. \A k \in Keys : ContentsOf(r)[k] = NotFound
  BY EntryOf
<1>2. QED
  BY <1>1 DEF ContentsOf

\* NewSlot answers TRUE only for a key that was absent.
LEMMA NewSlotAnswer ==
  ASSUME NEW t, NEW k, NEW v, NewSlotIn(t, k, v).ret
  PROVE  GetNode(t, k) = NULL
BY DEF NewSlotIn

\* Whatever the hash function, the sizes and the history of the node array,
\* a script cannot tell the table from a map: each operation changes the entry
\* it names and no other, and answers from the map.
THEOREM TableIsMap == Spec => ImplementsMap
<1>1. Init => Map!Init
  <2> SUFFICES ASSUME Init PROVE Map!Init
    OBVIOUS
  <2>1. PICK n \in InitSizes : tab = AllocNodes(n)
    BY DEF Init
  <2>2. n \in Nat \ {0}
    BY SizesAssumption
  <2>3. IsTable(tab)
    BY <2>1, <2>2, AllocIsTable
  <2>4. /\ tab.size = n /\ tab.firstfree = n - 1 /\ tab.used = 0
        /\ tab.key = [i \in 0 .. n - 1 |-> Free]
        /\ tab.next = [i \in 0 .. n - 1 |-> NULL]
    BY <2>1 DEF AllocNodes
  <2>5. Sound(tab) /\ \A a, w : ~ Has(tab, a, w)
    BY <2>2, <2>3, <2>4, AllocSound
  <2>6. QED
    BY <2>5, NoEntry DEF Map!Init, Init, Contents
<1>2. TypeOK /\ NodesInv /\ NodesInv' /\ [Next]_vars => [Map!Next]_(Map!vars)
  <2> SUFFICES ASSUME TypeOK, Sound(tab), Sound(tab'), [Next]_vars
               PROVE  [Map!Next]_(Map!vars)
    BY DEF NodesInv
  <2> USE DEF Contents
  <2>0. /\ DOMAIN ContentsOf(tab) = Keys
        /\ \A k \in Keys : /\ ContentsOf(tab)[k] = NotFound <=> GetNode(tab, k) = NULL
                           /\ GetNode(tab, k) # NULL =>
                                ContentsOf(tab)[k] = tab.val[GetNode(tab, k)]
    BY EntryOf DEF ContentsOf
  <2>1. ASSUME NEW k \in Keys, NEW v \in Vals, NewSlot(k, v)
        PROVE  Map!NewSlot(k, v)
    <3>1. \A a, w : Has(tab', a, w) <=> IF a = k THEN w = v ELSE Has(tab, a, w)
      BY <2>1, NewSlotSound DEF NewSlot
    <3>2. ContentsOf(tab') = [ContentsOf(tab) EXCEPT ![k] = v]
      BY <3>1, PutEntry
    <3>3. ret' \in BOOLEAN
      BY <2>1, NewSlotIsTable DEF NewSlot, TypeOK
    <3>4. ret' => GetNode(tab, k) = NULL
      BY <2>1, NewSlotAnswer DEF NewSlot
    <3>5. QED
      BY <2>0, <3>2, <3>3, <3>4 DEF Map!NewSlot
  <2>2. ASSUME NEW k \in Keys, NEW v \in Vals, Set(k, v)
        PROVE  Map!Set(k, v)
    <3>1. CASE GetNode(tab, k) = NULL
      BY <2>0, <2>2, <3>1 DEF Set, Map!Set
    <3>2. CASE GetNode(tab, k) # NULL
      <4>1. GetNode(tab, k) \in Occupied(tab) /\ tab.key[GetNode(tab, k)] = k
        BY <3>2, GetNodeSound DEF Sound
      <4>2. ret' = TRUE /\ tab' = SetVal(tab, GetNode(tab, k), v)
        BY <2>2, <3>2 DEF Set
      <4>3. \A a, w : Has(tab', a, w) <=>
                       IF a = k THEN w = v ELSE Has(tab, a, w)
        BY <4>1, <4>2, SetValSound
      <4>4. ContentsOf(tab') = [ContentsOf(tab) EXCEPT ![k] = v]
        BY <4>3, PutEntry
      <4>5. QED
        BY <2>0, <3>2, <4>2, <4>4 DEF Map!Set
    <3>3. QED
      BY <3>1, <3>2
  <2>3. ASSUME NEW k \in Keys, Get(k)
        PROVE  Map!Get(k)
    <3>1. ContentsOf(tab)[k] = IF GetNode(tab, k) = NULL THEN NotFound
                               ELSE tab.val[GetNode(tab, k)]
      BY DEF ContentsOf
    <3>2. QED
      BY <2>3, <3>1 DEF Get, Map!Get
  <2>4. ASSUME NEW k \in Keys, Remove(k)
        PROVE  Map!Remove(k)
    <3>1. \A a, w : Has(tab', a, w) <=> a # k /\ Has(tab, a, w)
      BY <2>4, RemoveSound DEF Remove
    <3>2. ContentsOf(tab') = [ContentsOf(tab) EXCEPT ![k] = NotFound]
      BY <3>1, DropEntry
    <3>3. QED
      BY <2>4, <3>2 DEF Remove, Map!Remove
  <2>5. ASSUME NEW rehash \in BOOLEAN, Clear(rehash)
        PROVE  Map!Clear
    <3>1. ContentsOf(tab') = [k \in Keys |-> NotFound]
      BY <2>5, ClearSound, NoEntry DEF Clear
    <3>2. QED
      BY <2>5, <3>1 DEF Clear, Map!Clear
  <2>6. CASE UNCHANGED vars
    BY <2>6 DEF vars, Map!vars
  <2>7. QED
    BY <2>1, <2>2, <2>3, <2>4, <2>5, <2>6 DEF Next, Map!Next
<1>3. QED
  BY <1>1, <1>2, TypeCorrect, NodesSound, PTL DEF Spec, ImplementsMap, Map!Spec
============================================================================
