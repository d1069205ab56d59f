----------------------------- MODULE LinksProofs -----------------------------
(***************************************************************************)
(* What a walk along links visits: the least set of nodes that holds its   *)
(* start and is closed under next; and what unlinking a node and linking   *)
(* it elsewhere do to the walks.  The proofs about hash tables use these   *)
(* lemmas, never the recursion itself.                                     *)
(***************************************************************************)
EXTENDS Links, FiniteSets, FiniteSetTheorems, WellFoundedInduction, TLAPS

----------------------------------------------------------------------------
(* Induction, for sets of naturals *)

\* Every nonempty set of naturals has a least element.
LEMMA LeastNat ==
  ASSUME NEW T \in SUBSET Nat, T # {}
  PROVE  \E x \in T : \A y \in T : x <= y
<1>1. PICK x \in T : \A y \in T : ~ (<<y, x>> \in OpToRel(<, Nat))
  BY NatLessThanWellFounded, WFMin
<1>2. \A y \in T : ~ (y < x)
  BY <1>1 DEF OpToRel
<1>3. QED
  BY <1>2

\* A set of naturals that holds 0 and is closed under +1 up to m holds 0..m.
LEMMA InductionUpTo ==
  ASSUME NEW m \in Nat, NEW S, 0 \in S,
         \A i \in 1 .. m : i - 1 \in S => i \in S
  PROVE  \A i \in 0 .. m : i \in S
<1>1. SUFFICES ASSUME NEW j \in 0 .. m, j \notin S
               PROVE  FALSE
  OBVIOUS
<1> DEFINE T == {i \in 0 .. m : i \notin S}
<1>2. T \in SUBSET Nat /\ T # {}
  BY <1>1
<1>3. PICK x \in T : \A y \in T : x <= y
  BY <1>2, LeastNat
<1>4. x \in 1 .. m
  BY <1>3
<1>5. x - 1 \in 0 .. m /\ x - 1 \notin T
  BY <1>3, <1>4
<1>6. QED
  BY <1>3, <1>4, <1>5

----------------------------------------------------------------------------
(* Walks *)

IsLinks(next, n) ==
  n \in Nat \ {0} /\ next \in [0 .. n - 1 -> 0 .. n - 1 \union {NULL}]

After(next, j) == IF j = NULL THEN NULL ELSE next[j]

IsWalk(next, i, m, f) ==
  f = [j \in 0 .. m |-> IF j = 0 THEN i ELSE After(next, f[j - 1])]

Onward(next, i, S) == {i} \union {next[x] : x \in S \ {NULL}}

IsSeen(next, i, m, g) ==
  g = [j \in 0 .. m |-> IF j = 0 THEN {i} ELSE Onward(next, i, g[j - 1])]

Visited(f, j) == {f[l] : l \in 0 .. j}

\* A loop along the links runs n - 1 times, say.
LEMMA WalkExists ==
  ASSUME NEW next, NEW i, NEW m \in Nat
  PROVE  \E f : IsWalk(next, i, m, f)
<1> DEFINE S == {l \in 0 .. m : \E f : IsWalk(next, i, l, f)}
<1>1. 0 \in S
  <2>1. IsWalk(next, i, 0, [j \in 0 .. 0 |-> i])
    BY DEF IsWalk
  <2>2. QED
    BY <2>1
<1>2. ASSUME NEW l \in 1 .. m, l - 1 \in S
      PROVE  l \in S
  <2>1. PICK f : IsWalk(next, i, l - 1, f)
    BY <1>2
  <2> DEFINE g == [j \in 0 .. l |-> IF j = l THEN After(next, f[l - 1])
                                             ELSE f[j]]
             h == [j \in 0 .. l |->
                     IF j = 0 THEN i ELSE After(next, g[j - 1])]
  <2>2. f = [j \in 0 .. l - 1 |->
               IF j = 0 THEN i ELSE After(next, f[j - 1])]
    BY <2>1 DEF IsWalk
  <2>3. ASSUME NEW j \in 0 .. l
        PROVE  g[j] = h[j]
    <3>1. CASE j = 0
      BY <2>2, <3>1
    <3>2. CASE j # 0
      <4>1. j - 1 \in 0 .. l - 1 /\ g[j - 1] = f[j - 1]
        BY <3>2
      <4>2. CASE j = l
        BY <3>2, <4>1, <4>2
      <4>3. CASE j # l
        BY <2>2, <3>2, <4>1, <4>3
      <4>4. QED
        BY <4>2, <4>3
    <3>3. QED
      BY <3>1, <3>2
  <2>4. g = h
    BY <2>3
  <2>5. IsWalk(next, i, l, g)
    BY <2>4 DEF IsWalk
  <2>6. QED
    BY <2>5
<1>3. \A l \in 0 .. m : l \in S
  <2> HIDE DEF S
  <2>1. QED
    BY <1>1, <1>2, InductionUpTo
<1>4. QED
  BY <1>3

\* So does the one of Walk.
LEMMA SeenExists ==
  ASSUME NEW next, NEW i, NEW m \in Nat
  PROVE  \E g : IsSeen(next, i, m, g)
<1> DEFINE S == {l \in 0 .. m : \E g : IsSeen(next, i, l, g)}
<1>1. 0 \in S
  <2>1. IsSeen(next, i, 0, [j \in 0 .. 0 |-> {i}])
    BY DEF IsSeen
  <2>2. QED
    BY <2>1
<1>2. ASSUME NEW l \in 1 .. m, l - 1 \in S
      PROVE  l \in S
  <2>1. PICK f : IsSeen(next, i, l - 1, f)
    BY <1>2
  <2> DEFINE g == [j \in 0 .. l |-> IF j = l THEN Onward(next, i, f[l - 1])
                                             ELSE f[j]]
             h == [j \in 0 .. l |->
                     IF j = 0 THEN {i} ELSE Onward(next, i, g[j - 1])]
  <2>2. f = [j \in 0 .. l - 1 |->
               IF j = 0 THEN {i} ELSE Onward(next, i, f[j - 1])]
    BY <2>1 DEF IsSeen
  <2>3. ASSUME NEW j \in 0 .. l
        PROVE  g[j] = h[j]
    <3>1. CASE j = 0
      BY <2>2, <3>1
    <3>2. CASE j # 0
      <4>1. j - 1 \in 0 .. l - 1 /\ g[j - 1] = f[j - 1]
        BY <3>2
      <4>2. CASE j = l
        BY <3>2, <4>1, <4>2
      <4>3. CASE j # l
        <5>1. j \in 0 .. l - 1 /\ g[j] = f[j]
          BY <4>3
        <5>2. f[j] = Onward(next, i, f[j - 1])
          BY <2>2, <3>2, <5>1
        <5>3. h[j] = Onward(next, i, g[j - 1])
          BY <3>2
        <5>4. QED
          BY <4>1, <5>1, <5>2, <5>3
      <4>4. QED
        BY <4>2, <4>3
    <3>3. QED
      BY <3>1, <3>2
  <2>4. g = h
    BY <2>3
  <2>5. IsSeen(next, i, l, g)
    BY <2>4 DEF IsSeen
  <2>6. QED
    BY <2>5
<1>3. \A l \in 0 .. m : l \in S
  <2> HIDE DEF S
  <2>1. QED
    BY <1>1, <1>2, InductionUpTo
<1>4. QED
  BY <1>3

LEMMA SeenOfRun ==
  ASSUME NEW next, NEW i, NEW m \in Nat, NEW f, IsWalk(next, i, m, f),
         NEW g, IsSeen(next, i, m, g)
  PROVE  \A j \in 0 .. m : g[j] \ {NULL} = Visited(f, j) \ {NULL}
<1> DEFINE S == {j \in 0 .. m :
                   g[j] \ {NULL} = {f[l] : l \in 0 .. j} \ {NULL}}
<1>1. /\ f[0] = i
      /\ \A j \in 1 .. m : f[j] = After(next, f[j - 1])
  <2>1. f = [j \in 0 .. m |-> IF j = 0 THEN i ELSE After(next, f[j - 1])]
    BY DEF IsWalk
  <2>2. \A j \in 0 .. m : f[j] = IF j = 0 THEN i ELSE After(next, f[j - 1])
    BY <2>1
  <2>3. QED
    BY <2>2
<1>2. /\ g[0] = {i}
      /\ \A j \in 1 .. m : g[j] = Onward(next, i, g[j - 1])
  <2>1. g = [j \in 0 .. m |-> IF j = 0 THEN {i} ELSE Onward(next, i, g[j - 1])]
    BY DEF IsSeen
  <2>2. \A j \in 0 .. m :
          g[j] = IF j = 0 THEN {i} ELSE Onward(next, i, g[j - 1])
    BY <2>1
  <2>3. QED
    BY <2>2
<1>3. 0 \in S
  <2>1. {f[l] : l \in 0 .. 0} = {f[0]}
    OBVIOUS
  <2>2. QED
    BY <1>1, <1>2, <2>1
<1>4. ASSUME NEW j \in 1 .. m, j - 1 \in S
      PROVE  j \in S
  <2>1. g[j] = {i} \union {next[x] : x \in g[j - 1] \ {NULL}}
    BY <1>2 DEF Onward
  <2>2. g[j - 1] \ {NULL} = {f[l] : l \in 0 .. j - 1} \ {NULL}
    BY <1>4
  <2>3. ASSUME NEW x \in g[j] \ {NULL}
        PROVE  x \in {f[l] : l \in 0 .. j}
    <3>1. CASE x = i
      BY <1>1, <3>1
    <3>2. CASE x # i
      <4>1. PICK y \in g[j - 1] \ {NULL} : x = next[y]
        BY <2>1, <3>2
      <4>2. PICK l \in 0 .. j - 1 : y = f[l]
        BY <2>2
      <4>3. l + 1 \in 1 .. m /\ l + 1 \in 0 .. j /\ (l + 1) - 1 = l
        OBVIOUS
      <4>4. f[l + 1] = After(next, f[l])
        BY <1>1, <4>3
      <4>5. QED
        BY <4>1, <4>2, <4>3, <4>4 DEF After
    <3>3. QED
      BY <3>1, <3>2
  <2>4. ASSUME NEW l \in 0 .. j, f[l] # NULL
        PROVE  f[l] \in g[j]
    <3>1. CASE l = 0
      BY <1>1, <2>1, <3>1
    <3>2. CASE l # 0
      <4>1. l \in 1 .. m /\ l - 1 \in 0 .. j - 1
        BY <3>2
      <4>2. f[l] = After(next, f[l - 1])
        BY <1>1, <4>1
      <4>3. f[l - 1] # NULL /\ f[l] = next[f[l - 1]]
        BY <2>4, <4>2 DEF After
      <4>4. f[l - 1] \in g[j - 1] \ {NULL}
        BY <2>2, <4>1, <4>3
      <4>5. QED
        BY <2>1, <4>3, <4>4
    <3>3. QED
      BY <3>1, <3>2
  <2>5. g[j] \ {NULL} = {f[l] : l \in 0 .. j} \ {NULL}
    BY <2>3, <2>4
  <2>6. j \in 0 .. m
    OBVIOUS
  <2>7. QED
    BY <2>5, <2>6
<1>5. \A j \in 0 .. m : j \in S
  <2> HIDE DEF S
  <2>1. QED
    BY <1>3, <1>4, InductionUpTo
<1>6. QED
  BY <1>5 DEF Visited

\* f goes n - 1 steps along the links, and the walk is what it visits.
StepsOf(next, n, i, f) ==
  /\ f[0] = i
  /\ \A j \in 1 .. n - 1 : f[j] = After(next, f[j - 1])
  /\ Walk(next, n, i) = {f[j] : j \in 0 .. n - 1} \intersect (0 .. n - 1)

\* Some such f exists.
LEMMA WalkIsRun ==
  ASSUME NEW next, NEW n, IsLinks(next, n), NEW i
  PROVE  \E f : StepsOf(next, n, i, f)
<1>1. n - 1 \in Nat /\ NULL \notin 0 .. n - 1
  BY DEF IsLinks, NULL
<1>2. PICK f : IsWalk(next, i, n - 1, f)
  BY <1>1, WalkExists
<1> DEFINE seen == CHOOSE g : IsSeen(next, i, n - 1, g)
<1>3. IsSeen(next, i, n - 1, seen)
  <2>1. \E g : IsSeen(next, i, n - 1, g)
    BY <1>1, SeenExists
  <2>2. QED
    BY <2>1
<1>4. Walk(next, n, i) = seen[n - 1] \intersect (0 .. n - 1)
  <2> DEFINE Run(g) ==
               g = [m \in 0 .. n - 1 |->
                     IF m = 0 THEN {i}
                     ELSE {i} \union {next[j] : j \in g[m - 1] \ {NULL}}]
             run == CHOOSE g : Run(g)
  <2>1. Walk(next, n, i) = run[n - 1] \intersect (0 .. n - 1)
    BY DEF Walk
  <2>2. \A g : IsSeen(next, i, n - 1, g) <=> Run(g)
    BY DEF IsSeen, Onward
  <2> HIDE DEF Run
  <2>3. run = seen
    BY <2>2
  <2>4. QED
    BY <2>1, <2>3
<1> HIDE DEF seen
<1>5. seen[n - 1] \ {NULL} = Visited(f, n - 1) \ {NULL}
  <2>1. \A j \in 0 .. n - 1 : seen[j] \ {NULL} = Visited(f, j) \ {NULL}
    <3>1. PICK m \in Nat : m = n - 1
      BY <1>1
    <3>2. IsWalk(next, i, m, f) /\ IsSeen(next, i, m, seen)
      BY <1>2, <1>3, <3>1
    <3>3. \A j \in 0 .. m : seen[j] \ {NULL} = Visited(f, j) \ {NULL}
      BY ONLY <3>2, m \in Nat, SeenOfRun
    <3>4. QED
      BY <3>1, <3>3
  <2>2. n - 1 \in 0 .. n - 1
    BY <1>1
  <2>3. QED
    BY <2>1, <2>2
<1>6. Walk(next, n, i) = {f[j] : j \in 0 .. n - 1} \intersect (0 .. n - 1)
  BY <1>1, <1>4, <1>5 DEF Visited
<1>7. /\ f[0] = i
      /\ \A j \in 1 .. n - 1 : f[j] = After(next, f[j - 1])
  <2>1. f = [j \in 0 .. n - 1 |->
                IF j = 0 THEN i ELSE After(next, f[j - 1])]
    BY <1>2 DEF IsWalk
  <2>2. \A j \in 0 .. n - 1 : f[j] = IF j = 0 THEN i ELSE After(next, f[j - 1])
    BY <2>1
  <2>3. f[0] = i
    BY <1>1, <2>2
  <2>4. \A j \in 1 .. n - 1 : j \in 0 .. n - 1 /\ j # 0
    BY <1>1
  <2>5. QED
    BY <2>2, <2>3, <2>4
<1>8. QED
  BY <1>6, <1>7 DEF StepsOf

LEMMA WalkInNodes ==
  ASSUME NEW next, NEW n, NEW i
  PROVE  Walk(next, n, i) \subseteq 0 .. n - 1
BY DEF Walk

LEMMA StartInWalk ==
  ASSUME NEW next, NEW n, IsLinks(next, n), NEW i \in 0 .. n - 1
  PROVE  i \in Walk(next, n, i)
<1>1. 0 \in 0 .. n - 1
  BY DEF IsLinks
<1>2. PICK f : StepsOf(next, n, i, f)
  BY WalkIsRun
<1>3. QED
  BY <1>1, <1>2 DEF StepsOf

\* The walk visits nothing outside a set that holds its start and is closed
\* under next.
LEMMA WalkIsLeast ==
  ASSUME NEW next, NEW n, IsLinks(next, n), NEW i \in 0 .. n - 1,
         NEW S, i \in S,
         \A x \in S \intersect (0 .. n - 1) : next[x] # NULL => next[x] \in S
  PROVE  Walk(next, n, i) \subseteq S
<1>0. PICK f : StepsOf(next, n, i, f)
  BY WalkIsRun
<1>1. /\ f[0] = i
      /\ \A j \in 1 .. n - 1 : f[j] = After(next, f[j - 1])
      /\ Walk(next, n, i) = {f[j] : j \in 0 .. n - 1} \intersect (0 .. n - 1)
  BY ONLY <1>0 DEF StepsOf
<1> DEFINE V == {j \in 0 .. n - 1 :
                   f[j] = NULL \/ f[j] \in (0 .. n - 1) \intersect S}
<1>2. n - 1 \in Nat
  BY DEF IsLinks
<1>3. 0 \in V
  BY <1>1, <1>2
<1>4. ASSUME NEW j \in 1 .. n - 1, j - 1 \in V
      PROVE  j \in V
  <2>1. f[j] = After(next, f[j - 1])
    BY <1>1
  <2>2. CASE f[j - 1] = NULL
    BY <1>2, <2>1, <2>2 DEF After
  <2>3. CASE f[j - 1] # NULL
    <3>1. f[j - 1] \in (0 .. n - 1) \intersect S
      BY <1>4, <2>3
    <3>2. f[j] = next[f[j - 1]]
      BY <2>1, <2>3 DEF After
    <3>3. f[j] = NULL \/ f[j] \in (0 .. n - 1) \intersect S
      BY <3>1, <3>2 DEF IsLinks
    <3>4. QED
      BY <1>2, <3>3
  <2>4. QED
    BY <2>2, <2>3
<1>5. \A j \in 0 .. n - 1 : j \in V
  <2> HIDE DEF V
  <2>1. QED
    BY <1>2, <1>3, <1>4, InductionUpTo
<1>6. ASSUME NEW x \in Walk(next, n, i)
      PROVE  x \in S
  <2>1. PICK j \in 0 .. n - 1 : x = f[j]
    BY <1>1
  <2>2. x \in 0 .. n - 1 /\ x # NULL
    BY <1>2, WalkInNodes DEF NULL
  <2>3. QED
    BY <1>5, <2>1, <2>2
<1>7. QED
  BY <1>6

\* The walk is long enough to see all of its list: as many steps as the
\* array has nodes come back to a node already seen, or reach the end.
LEMMA WalkIsClosed ==
  ASSUME NEW next, NEW n, IsLinks(next, n), NEW i \in 0 .. n - 1,
         NEW x \in Walk(next, n, i),
         next[x] # NULL
  PROVE  next[x] \in Walk(next, n, i)
<1>0. PICK f : StepsOf(next, n, i, f)
  BY WalkIsRun
<1>1. /\ f[0] = i
      /\ \A j \in 1 .. n - 1 : f[j] = After(next, f[j - 1])
      /\ Walk(next, n, i) = {f[j] : j \in 0 .. n - 1} \intersect (0 .. n - 1)
  BY ONLY <1>0 DEF StepsOf
<1>2. n - 1 \in Nat /\ n \in Nat
  BY DEF IsLinks
<1>3. x \in 0 .. n - 1 /\ x # NULL
  BY <1>2, WalkInNodes DEF NULL
<1>4. PICK m \in 0 .. n - 1 : f[m] = x
  BY <1>1
<1> DEFINE y == next[x]
<1>5. y \in 0 .. n - 1
  BY <1>3 DEF IsLinks
<1>6. SUFFICES ASSUME \A j \in 0 .. n - 1 : f[j] # y
               PROVE  FALSE
  BY <1>1, <1>5
<1>7. m = n - 1
  <2>1. SUFFICES ASSUME m # n - 1
                 PROVE  FALSE
    OBVIOUS
  <2>2. m + 1 \in 1 .. n - 1 /\ m + 1 \in 0 .. n - 1
        /\ (m + 1) - 1 = m
    BY <1>2, <2>1
  <2>3. f[m + 1] = After(next, f[m])
    BY <1>1, <2>2
  <2>4. f[m + 1] = y
    BY <1>3, <1>4, <2>3 DEF After
  <2>5. QED
    BY <1>6, <2>2, <2>4
<1>8. \A j \in 0 .. n - 1 : f[j] \in 0 .. n - 1
  <2> DEFINE V == {j \in 0 .. m : f[m - j] \in 0 .. n - 1}
             W == {j \in 0 .. n - 1 : f[j] \in (0 .. n - 1) \union {NULL}}
  <2>1. \A j \in 0 .. n - 1 : j \in W
    <3>1. 0 \in W
      BY <1>1, <1>2
    <3>2. ASSUME NEW j \in 1 .. n - 1, j - 1 \in W
          PROVE  j \in W
      <4>1. f[j] = After(next, f[j - 1])
        BY <1>1
      <4>2. f[j] \in (0 .. n - 1) \union {NULL}
        BY <3>2, <4>1 DEF After, IsLinks
      <4>3. QED
        BY <1>2, <4>2
    <3> HIDE DEF W
    <3>3. QED
      BY <1>2, <3>1, <3>2, InductionUpTo
  <2>2. 0 \in V
    BY <1>2, <1>3, <1>4
  <2>3. ASSUME NEW j \in 1 .. m, j - 1 \in V
        PROVE  j \in V
    <3>1. m - j + 1 \in 1 .. n - 1 /\ (m - j + 1) - 1 = m - j
          /\ m - j \in 0 .. n - 1 /\ m - (j - 1) = m - j + 1
      BY <1>2
    <3>2. f[m - j + 1] = After(next, f[m - j])
      BY <1>1, <3>1
    <3>3. f[m - j + 1] \in 0 .. n - 1
      BY <2>3, <3>1
    <3>4. f[m - j + 1] # NULL
      BY <1>2, <3>3 DEF NULL
    <3>5. f[m - j] # NULL
      BY <3>2, <3>4 DEF After
    <3>6. f[m - j] \in 0 .. n - 1
      BY <2>1, <3>1, <3>5
    <3>7. QED
      BY <3>6
  <2>4. \A j \in 0 .. m : j \in V
    <3> HIDE DEF V
    <3>1. QED
      BY <2>2, <2>3, InductionUpTo
  <2>5. ASSUME NEW j \in 0 .. n - 1
        PROVE  f[j] \in 0 .. n - 1
    <3>1. m - j \in 0 .. m /\ m - (m - j) = j
      BY <1>2, <1>7
    <3>2. QED
      BY <2>4, <3>1
  <2>6. QED
    BY <2>5
<1> DEFINE g == [j \in 0 .. n - 1 |-> f[j]]
<1>9. \E a, b \in 0 .. n - 1 : a # b /\ g[a] = g[b]
  <2> DEFINE D == 0 .. n - 1
             E == D \ {y}
  <2>1. IsFiniteSet(D) /\ Cardinality(D) = n
    <3>1. 0 \in Int /\ n - 1 \in Int /\ ~ (0 > n - 1)
          /\ (n - 1) - 0 + 1 = n
      BY <1>2
    <3>2. /\ IsFiniteSet(0 .. n - 1)
          /\ Cardinality(0 .. n - 1) =
               IF 0 > n - 1 THEN 0 ELSE (n - 1) - 0 + 1
      BY <3>1, FS_Interval
    <3>3. QED
      BY <3>1, <3>2
  <2>2. y \in D
    BY <1>5
  <2>3. g \in [D -> E]
    BY <1>6, <1>8
  <2> HIDE DEF D, g, y
  <2>4. IsFiniteSet(E) /\ Cardinality(E) = n - 1
    BY <2>1, <2>2, FS_RemoveElement
  <2>5. Cardinality(E) < Cardinality(D)
    BY <1>2, <2>1, <2>4
  <2> HIDE DEF E
  <2>6. \E a, b \in D : a # b /\ g[a] = g[b]
    BY <2>1, <2>3, <2>4, <2>5, FS_PigeonHole
  <2>7. QED
    BY <2>6 DEF D
<1>10. PICK a \in 0 .. n - 1, b \in 0 .. n - 1 :
              a < b /\ f[a] = f[b]
  BY <1>2, <1>9
<1> DEFINE R == {d \in 0 .. m - b : f[a + d] = f[b + d]}
<1>11. f[a + (m - b)] = f[m]
  <2>1. 0 \in R
    BY <1>2, <1>7, <1>10
  <2>2. ASSUME NEW d \in 1 .. m - b, d - 1 \in R
        PROVE  d \in R
    <3>1. /\ a + d \in 1 .. n - 1 /\ b + d \in 1 .. n - 1
          /\ (a + d) - 1 = a + (d - 1) /\ (b + d) - 1 = b + (d - 1)
      BY <1>2, <1>7, <1>10
    <3>2. f[a + d] = After(next, f[a + (d - 1)])
      BY <1>1, <3>1
    <3>3. f[b + d] = After(next, f[b + (d - 1)])
      BY <1>1, <3>1
    <3>4. f[a + d] = f[b + d]
      BY <2>2, <3>2, <3>3
    <3>5. QED
      BY <1>2, <1>7, <3>4
  <2>3. m - b \in Nat
    BY <1>2, <1>7
  <2>4. \A d \in 0 .. m - b : d \in R
    <3> HIDE DEF R
    <3>1. QED
      BY <2>1, <2>2, <2>3, InductionUpTo
  <2>5. m - b \in 0 .. m - b /\ b + (m - b) = m
    BY <1>2, <1>7, <2>3
  <2>6. QED
    BY <2>4, <2>5
<1>12. QED
  <2> DEFINE p == a + (m - b)
  <2>1. p + 1 \in 1 .. n - 1 /\ p + 1 \in 0 .. n - 1
        /\ (p + 1) - 1 = p
    BY <1>2, <1>7, <1>10
  <2>2. f[p + 1] = After(next, f[p])
    BY <1>1, <2>1
  <2>3. f[p] = x
    BY <1>4, <1>11
  <2>4. f[p + 1] = y
    BY <1>3, <2>2, <2>3 DEF After
  <2>5. QED
    BY <1>6, <2>1, <2>4

LEMMA NullIsNoNode ==
  ASSUME NEW next, NEW n, IsLinks(next, n)
  PROVE  /\ NULL \notin 0 .. n - 1
         /\ \A i \in 0 .. n - 1 : next[i] \in 0 .. n - 1 \union {NULL}
BY DEF IsLinks, NULL

LEMMA WalkOfNull ==
  ASSUME NEW next, NEW n, IsLinks(next, n)
  PROVE  Walk(next, n, NULL) = {}
<1> SUFFICES ASSUME NEW i, i = NULL
             PROVE  Walk(next, n, i) = {}
  OBVIOUS
<1>0. PICK f : StepsOf(next, n, i, f)
  BY WalkIsRun
<1>1. /\ f[0] = i
      /\ \A j \in 1 .. n - 1 : f[j] = After(next, f[j - 1])
      /\ Walk(next, n, i) = {f[j] : j \in 0 .. n - 1} \intersect (0 .. n - 1)
  BY ONLY <1>0 DEF StepsOf
<1> DEFINE V == {j \in 0 .. n - 1 : f[j] = NULL}
<1>2. n - 1 \in Nat
  BY DEF IsLinks
<1>3. 0 \in V
  BY <1>1, <1>2
<1>4. ASSUME NEW j \in 1 .. n - 1, j - 1 \in V
      PROVE  j \in V
  BY <1>1, <1>2, <1>4 DEF After
<1>5. \A j \in 0 .. n - 1 : j \in V
  <2> HIDE DEF V
  <2>1. QED
    BY <1>2, <1>3, <1>4, InductionUpTo
<1>6. QED
  BY <1>1, <1>5, NullIsNoNode

\* WalkIsLeast and WalkIsClosed, for a walk that may be empty.
LEMMA WalkWithin ==
  ASSUME NEW next, NEW n, IsLinks(next, n),
         NEW i \in 0 .. n - 1 \union {NULL}, NEW S, i # NULL => i \in S,
         \A x \in S \intersect (0 .. n - 1) : next[x] # NULL => next[x] \in S
  PROVE  Walk(next, n, i) \subseteq S
<1>1. CASE i = NULL
  BY <1>1, WalkOfNull
<1>2. CASE i # NULL
  BY <1>2, WalkIsLeast
<1>3. QED
  BY <1>1, <1>2

LEMMA WalkGoesOn ==
  ASSUME NEW next, NEW n, IsLinks(next, n),
         NEW i \in 0 .. n - 1 \union {NULL}, NEW x \in Walk(next, n, i),
         next[x] # NULL
  PROVE  next[x] \in Walk(next, n, i)
<1>1. CASE i = NULL
  BY <1>1, WalkOfNull
<1>2. CASE i # NULL
  BY <1>2, WalkIsClosed
<1>3. QED
  BY <1>1, <1>2

\* A walk is its first node and the walk from the next one.
LEMMA WalkUnfold ==
  ASSUME NEW next, NEW n, IsLinks(next, n), NEW i \in 0 .. n - 1
  PROVE  Walk(next, n, i) = {i} \union Walk(next, n, next[i])
<1>1. next[i] \in 0 .. n - 1 \union {NULL}
  BY NullIsNoNode
<1>2. next[i] # NULL => next[i] \in Walk(next, n, next[i])
  BY <1>1, StartInWalk
<1>3. Walk(next, n, i) \subseteq {i} \union Walk(next, n, next[i])
  <2> DEFINE S == {i} \union Walk(next, n, next[i])
  <2>1. \A x \in S : next[x] # NULL => next[x] \in S
    BY <1>1, <1>2, WalkGoesOn
  <2>2. i \in S
    OBVIOUS
  <2> HIDE DEF S
  <2>3. Walk(next, n, i) \subseteq S
    BY <2>1, <2>2, WalkIsLeast
  <2>4. QED
    BY <2>3 DEF S
<1>4. i \in Walk(next, n, i) /\ (next[i] # NULL => next[i] \in Walk(next, n, i))
  BY StartInWalk, WalkIsClosed
<1>5. Walk(next, n, next[i]) \subseteq Walk(next, n, i)
  <2>1. \A x \in Walk(next, n, i) :
          next[x] # NULL => next[x] \in Walk(next, n, i)
    BY WalkIsClosed
  <2>2. QED
    BY <1>1, <1>4, <2>1, WalkWithin
<1>6. QED
  BY <1>3, <1>4, <1>5

\* A node that no link leads to is on no other walk.
LEMMA FirstIsAlone ==
  ASSUME NEW next, NEW n, IsLinks(next, n), NEW a, NoLinkTo(next, n, a),
         NEW i \in 0 .. n - 1 \union {NULL}, i # a
  PROVE  a \notin Walk(next, n, i)
<1> DEFINE S == (0 .. n - 1) \ {a}
<1>1. i # NULL => i \in S
  OBVIOUS
<1>2. \A x \in S \intersect (0 .. n - 1) : next[x] # NULL => next[x] \in S
  BY NullIsNoNode DEF NoLinkTo
<1>3. Walk(next, n, i) \subseteq S
  <2> HIDE DEF S
  <2>1. QED
    BY <1>1, <1>2, WalkWithin
<1>4. QED
  BY <1>3

\* Links that are the same along a walk.
LEMMA WalkFrame ==
  ASSUME NEW next, NEW n, IsLinks(next, n), NEW nx, IsLinks(nx, n),
         NEW i \in 0 .. n - 1 \union {NULL},
         \A x \in Walk(next, n, i) : nx[x] = next[x]
  PROVE  Walk(nx, n, i) = Walk(next, n, i)
<1>1. i # NULL => i \in Walk(next, n, i) /\ i \in Walk(nx, n, i)
  BY StartInWalk
<1>2. Walk(nx, n, i) \subseteq Walk(next, n, i)
  <2>1. \A x \in Walk(next, n, i) : nx[x] # NULL => nx[x] \in Walk(next, n, i)
    BY WalkGoesOn
  <2>2. QED
    BY <1>1, <2>1, WalkWithin
<1>3. Walk(next, n, i) \subseteq Walk(nx, n, i)
  <2>1. \A x \in Walk(nx, n, i) : next[x] # NULL => next[x] \in Walk(nx, n, i)
    BY <1>2, WalkGoesOn
  <2>2. QED
    BY <1>1, <2>1, WalkWithin
<1>4. QED
  BY <1>2, <1>3

\* Every node of a walk but the first is behind another one.
LEMMA WalkPredecessor ==
  ASSUME NEW next, NEW n, IsLinks(next, n), NEW i \in 0 .. n - 1,
         NEW x \in Walk(next, n, i), x # i
  PROVE  \E p \in Walk(next, n, i) : next[p] = x
<1> SUFFICES ASSUME \A p \in Walk(next, n, i) : next[p] # x
             PROVE  FALSE
  OBVIOUS
<1> DEFINE S == Walk(next, n, i) \ {x}
<1>1. i \in S
  BY StartInWalk
<1>2. \A y \in S : next[y] # NULL => next[y] \in S
  BY WalkIsClosed
<1>3. Walk(next, n, i) \subseteq S
  <2> HIDE DEF S
  <2>1. QED
    BY <1>1, <1>2, WalkIsLeast
<1>4. QED
  BY <1>3

----------------------------------------------------------------------------
(* Walks that stop *)

\* Where every walk stops, no set of nodes leads only into itself.
LEMMA AcyclicHasNoTrap ==
  ASSUME NEW next, NEW n, IsLinks(next, n), Acyclic(next, n),
         NEW S \in SUBSET (0 .. n - 1), S # {}
  PROVE  \E x \in S : next[x] \notin S
<1>1. SUFFICES ASSUME \A x \in S : next[x] \in S
               PROVE  FALSE
  OBVIOUS
<1>2. PICK i \in S : TRUE
  OBVIOUS
<1>3. Walk(next, n, i) \subseteq S
  BY <1>1, WalkIsLeast
<1>4. PICK j \in Walk(next, n, i) : next[j] = NULL
  BY DEF Acyclic
<1>5. NULL \notin 0 .. n - 1
  BY DEF IsLinks, NULL
<1>6. QED
  BY <1>1, <1>3, <1>4, <1>5

\* And the converse.
LEMMA TrapFreeIsAcyclic ==
  ASSUME NEW next, NEW n, IsLinks(next, n),
         \A S \in SUBSET (0 .. n - 1) : S # {} => \E x \in S : next[x] \notin S
  PROVE  Acyclic(next, n)
<1> SUFFICES ASSUME NEW i \in 0 .. n - 1
             PROVE  \E j \in Walk(next, n, i) : next[j] = NULL
  BY DEF Acyclic
<1>1. Walk(next, n, i) \in SUBSET (0 .. n - 1) /\ Walk(next, n, i) # {}
  BY StartInWalk, WalkInNodes
<1>2. PICK x \in Walk(next, n, i) : next[x] \notin Walk(next, n, i)
  BY <1>1
<1>3. next[x] = NULL
  BY <1>2, WalkIsClosed
<1>4. QED
  BY <1>3

\* A list of all nodes in order, as a new block has it.
LEMMA InOrder ==
  ASSUME NEW n \in Nat \ {0}, NEW next,
         next = [i \in 0 .. n - 1 |-> IF i < n - 1 THEN i + 1 ELSE NULL]
  PROVE  /\ IsLinks(next, n)
         /\ Walk(next, n, 0) = 0 .. n - 1
         /\ Acyclic(next, n)
         /\ SingleFile(next, n)
         /\ NoLinkTo(next, n, 0)
<1>1. IsLinks(next, n)
  BY DEF IsLinks
<1>2. \A i \in 0 .. n - 1 : next[i] = IF i < n - 1 THEN i + 1 ELSE NULL
  OBVIOUS
<1>3. Walk(next, n, 0) = 0 .. n - 1
  <2> DEFINE S == Walk(next, n, 0)
  <2>1. 0 \in S
    BY <1>1, StartInWalk
  <2>2. ASSUME NEW i \in 1 .. n - 1, i - 1 \in S
        PROVE  i \in S
    <3>1. i - 1 \in 0 .. n - 1 /\ i - 1 < n - 1 /\ (i - 1) + 1 = i /\ i # NULL
      BY DEF NULL
    <3>2. next[i - 1] = i
      BY <1>2, <3>1
    <3>3. 0 \in 0 .. n - 1
      OBVIOUS
    <3>4. QED
      BY <1>1, <2>2, <3>1, <3>2, <3>3, WalkIsClosed
  <2>3. \A i \in 0 .. n - 1 : i \in S
    <3> HIDE DEF S
    <3>1. n - 1 \in Nat
      OBVIOUS
    <3>2. QED
      BY <2>1, <2>2, <3>1, InductionUpTo
  <2>4. QED
    BY <2>3, WalkInNodes
<1>4. Acyclic(next, n)
  <2>1. SUFFICES ASSUME NEW S \in SUBSET (0 .. n - 1), S # {},
                        \A x \in S : next[x] \in S
                 PROVE  FALSE
    BY <1>1, TrapFreeIsAcyclic
  <2> DEFINE T == {d \in 0 .. n - 1 : n - 1 - d \in S}
  <2>2. T \in SUBSET Nat /\ T # {}
    <3>1. PICK x \in S : TRUE
      BY <2>1
    <3>2. n - 1 - x \in T
      OBVIOUS
    <3>3. T \in SUBSET Nat
      OBVIOUS
    <3> HIDE DEF T
    <3>4. QED
      BY <3>2, <3>3
  <2>3. PICK d \in T : \A e \in T : d <= e
    BY <2>2, LeastNat
  <2>4. n - 1 - d \in S /\ next[n - 1 - d] \in S
    BY <2>1
  <2>5. d # 0
    BY <1>2, <2>4 DEF NULL
  <2>6. next[n - 1 - d] = n - d
    BY <1>2, <2>5
  <2>7. d - 1 \in T
    BY <2>4, <2>5, <2>6
  <2>8. QED
    BY <2>3, <2>7
<1>5. SingleFile(next, n) /\ NoLinkTo(next, n, 0)
  BY <1>2 DEF SingleFile, NoLinkTo, NULL
<1>6. QED
  BY <1>1, <1>3, <1>4, <1>5

----------------------------------------------------------------------------
(* Linking a node elsewhere *)

\* The links nx that come of linking the first node a of a list before g, the
\* first of another one.
PopPushed(next, n, a, g, nx) ==
  /\ IsLinks(nx, n)
  /\ Walk(nx, n, next[a]) = Walk(next, n, a) \ {a}
  /\ Walk(nx, n, a) = {a} \union Walk(next, n, g)
  /\ \A i \in 0 .. n - 1 \union {NULL} :
       i # a => Walk(nx, n, i) = Walk(next, n, i)
  /\ Acyclic(next, n) => Acyclic(nx, n)
  /\ SingleFile(next, n) /\ (g = NULL \/ NoLinkTo(next, n, g)) =>
       /\ SingleFile(nx, n)
       /\ next[a] = NULL \/ NoLinkTo(nx, n, next[a])
  /\ \A h : NoLinkTo(next, n, h) /\ h # g => NoLinkTo(nx, n, h)

LEMMA PopPush ==
  ASSUME NEW next, NEW n, IsLinks(next, n), NEW a \in 0 .. n - 1,
         NoLinkTo(next, n, a), NEW g \in 0 .. n - 1 \union {NULL}, g # a,
         NEW nx, nx = [next EXCEPT ![a] = g]
  PROVE  PopPushed(next, n, a, g, nx)
<1>1. IsLinks(nx, n) /\ n \in Nat \ {0}
  BY DEF IsLinks
<1>2. /\ nx[a] = g
      /\ \A x \in 0 .. n - 1 : x # a => nx[x] = next[x]
  BY DEF IsLinks
<1>3. ASSUME NEW i \in 0 .. n - 1 \union {NULL}, i # a
      PROVE  /\ a \notin Walk(next, n, i)
             /\ Walk(nx, n, i) = Walk(next, n, i)
  <2>1. a \notin Walk(next, n, i)
    BY <1>3, FirstIsAlone
  <2>2. \A x \in Walk(next, n, i) : nx[x] = next[x]
    BY <1>2, <2>1, WalkInNodes
  <2>3. Walk(nx, n, i) = Walk(next, n, i)
    BY ONLY <1>1, <2>2, WalkFrame, IsLinks(next, n),
            i \in 0 .. n - 1 \union {NULL}
  <2>4. QED
    BY <2>1, <2>3
<1>4. next[a] # a /\ next[a] \in 0 .. n - 1 \union {NULL}
  BY NullIsNoNode DEF NoLinkTo
<1>5. Walk(nx, n, next[a]) = Walk(next, n, a) \ {a}
  <2>1. Walk(next, n, a) = {a} \union Walk(next, n, next[a])
    BY WalkUnfold
  <2>2. QED
    BY <1>3, <1>4, <2>1
<1>6. Walk(nx, n, a) = {a} \union Walk(next, n, g)
  <2>1. Walk(nx, n, a) = {a} \union Walk(nx, n, nx[a])
    BY ONLY <1>1, a \in 0 .. n - 1, WalkUnfold
  <2>2. QED
    BY <1>2, <1>3, <2>1
<1>7. ASSUME Acyclic(next, n)
      PROVE  Acyclic(nx, n)
  <2>1. SUFFICES ASSUME NEW S \in SUBSET (0 .. n - 1), S # {},
                        \A x \in S : nx[x] \in S
                 PROVE  FALSE
    BY <1>1, TrapFreeIsAcyclic
  <2>2. g \in S => g # NULL
    BY NullIsNoNode
  <2>3. S \ {a} # {}
    BY <1>2, <2>1
  <2>4. \A x \in S \ {a} : next[x] \in S \ {a}
    BY <1>2, <2>1 DEF NoLinkTo
  <2>5. QED
    BY <1>7, <2>3, <2>4, AcyclicHasNoTrap
<1>8. ASSUME SingleFile(next, n), g = NULL \/ NoLinkTo(next, n, g)
      PROVE  /\ SingleFile(nx, n)
             /\ next[a] = NULL \/ NoLinkTo(nx, n, next[a])
  <2>1. SingleFile(nx, n)
    BY <1>2, <1>8 DEF SingleFile, NoLinkTo
  <2>2. ASSUME next[a] # NULL, NEW x \in 0 .. n - 1
        PROVE  nx[x] # next[a]
    BY <1>2, <1>8, <2>2 DEF SingleFile, NoLinkTo
  <2>3. QED
    BY <2>1, <2>2 DEF NoLinkTo
<1>9. ASSUME NEW h, NoLinkTo(next, n, h), h # g
      PROVE  NoLinkTo(nx, n, h)
  BY <1>2, <1>9 DEF NoLinkTo
<1>10. QED
  BY <1>1, <1>3, <1>5, <1>6, <1>7, <1>8, <1>9 DEF PopPushed

\* The links nx that come of taking node a out of its list, where it comes after
\* p, and linking it before g, the first of another list.
CutPushed(next, n, a, p, g, nx) ==
  /\ IsLinks(nx, n)
  /\ p # a /\ g # a
  /\ \A i \in 0 .. n - 1 \union {NULL} :
       i # a => Walk(nx, n, i) = Walk(next, n, i) \ {a}
  /\ Walk(nx, n, a) = {a} \union (Walk(next, n, g) \ {a})
  /\ Acyclic(nx, n)
  /\ SingleFile(nx, n)
  /\ NoLinkTo(nx, n, a)
  /\ \A h : NoLinkTo(next, n, h) /\ h # g => NoLinkTo(nx, n, h)

LEMMA CutPush ==
  ASSUME NEW next, NEW n, IsLinks(next, n), SingleFile(next, n),
         Acyclic(next, n), NEW a \in 0 .. n - 1, NEW p \in 0 .. n - 1,
         next[p] = a, NEW g \in 0 .. n - 1 \union {NULL},
         g = NULL \/ NoLinkTo(next, n, g),
         NEW nx, nx = [next EXCEPT ![p] = next[a], ![a] = g]
  PROVE  CutPushed(next, n, a, p, g, nx)
<1>1. p # a
  <2>1. SUFFICES ASSUME p = a PROVE FALSE
    OBVIOUS
  <2>2. {a} \in SUBSET (0 .. n - 1) /\ {a} # {} /\ \A x \in {a} : next[x] \in {a}
    BY <2>1
  <2>3. QED
    BY <2>2, AcyclicHasNoTrap
<1>2. g # a
  BY NullIsNoNode DEF NoLinkTo
<1>3. /\ nx[a] = g /\ nx[p] = next[a]
      /\ \A x \in 0 .. n - 1 : x # a /\ x # p => nx[x] = next[x]
  BY <1>1 DEF IsLinks
<1>4. next[a] \in 0 .. n - 1 \union {NULL} /\ next[a] # a
  <2>1. next[a] # a
    BY <1>1 DEF SingleFile, NULL
  <2>2. QED
    BY <2>1, NullIsNoNode
<1>5. IsLinks(nx, n)
  BY <1>1, <1>4 DEF IsLinks
<1>6. \A x \in 0 .. n - 1 : next[x] = a => x = p
  BY NullIsNoNode DEF SingleFile
<1>7. \A x \in 0 .. n - 1 : nx[x] # a
  BY <1>2, <1>3, <1>4, <1>6
<1>8. ASSUME NEW i \in 0 .. n - 1 \union {NULL}, i # a
      PROVE  Walk(nx, n, i) = Walk(next, n, i) \ {a}
  <2>1. i # NULL => i \in Walk(next, n, i) /\ i \in Walk(nx, n, i)
    BY <1>5, StartInWalk
  <2>2. Walk(nx, n, i) \subseteq Walk(next, n, i) \ {a}
    <3>1. ASSUME NEW x \in Walk(next, n, i) \ {a}, nx[x] # NULL
          PROVE  nx[x] \in Walk(next, n, i) \ {a}
      <4>1. x \in 0 .. n - 1
        BY WalkInNodes
      <4>2. CASE x = p
        <5>1. a \in Walk(next, n, i)
          BY <4>1, <4>2, WalkGoesOn, NullIsNoNode
        <5>2. QED
          BY <1>3, <1>7, <3>1, <4>1, <4>2, <5>1, WalkGoesOn
      <4>3. CASE x # p
        BY <1>3, <1>7, <3>1, <4>1, <4>3, WalkGoesOn
      <4>4. QED
        BY <4>2, <4>3
    <3> DEFINE S == Walk(next, n, i) \ {a}
    <3>2. \A x \in S : nx[x] # NULL => nx[x] \in S
      BY <3>1
    <3>3. i # NULL => i \in S
      BY <1>8, <2>1
    <3> HIDE DEF S
    <3>4. Walk(nx, n, i) \subseteq S
      BY <1>5, <3>2, <3>3, WalkWithin
    <3>5. QED
      BY <3>4 DEF S
  <2>3. Walk(next, n, i) \subseteq
          Walk(nx, n, i) \union (IF p \in Walk(nx, n, i) THEN {a} ELSE {})
    <3> DEFINE S == Walk(nx, n, i) \union
                      (IF p \in Walk(nx, n, i) THEN {a} ELSE {})
    <3>1. ASSUME NEW x \in S, next[x] # NULL
          PROVE  next[x] \in S
      <4>1. CASE x = a
        <5>1. p \in Walk(nx, n, i)
          BY <2>2, <3>1, <4>1
        <5>2. QED
          BY <1>3, <1>5, <3>1, <4>1, <5>1, WalkGoesOn
      <4>2. CASE x = p
        BY <1>1, <4>2
      <4>3. CASE x # a /\ x # p
        <5>1. x \in Walk(nx, n, i) /\ x \in 0 .. n - 1
          BY <4>3, WalkInNodes
        <5>2. QED
          BY <1>3, <1>5, <3>1, <4>3, <5>1, WalkGoesOn
      <4>4. QED
        BY <4>1, <4>2, <4>3
    <3>2. i # NULL => i \in S
      BY <2>1
    <3> HIDE DEF S
    <3>3. Walk(next, n, i) \subseteq S
      BY <3>1, <3>2, WalkWithin
    <3>4. QED
      BY <3>3 DEF S
  <2>4. QED
    BY <2>2, <2>3
<1>9. Walk(nx, n, a) = {a} \union (Walk(next, n, g) \ {a})
  <2>1. Walk(nx, n, a) = {a} \union Walk(nx, n, nx[a])
    BY ONLY <1>5, a \in 0 .. n - 1, WalkUnfold
  <2>2. QED
    BY <1>2, <1>3, <1>8, <2>1
<1>10. Acyclic(nx, n)
  <2>1. SUFFICES ASSUME NEW S \in SUBSET (0 .. n - 1), S # {},
                        \A x \in S : nx[x] \in S
                 PROVE  FALSE
    BY <1>5, TrapFreeIsAcyclic
  <2>2. \A x \in S \ {a} : nx[x] \in S \ {a}
    BY <1>7, <2>1
  <2>3. S \ {a} # {}
    BY <1>2, <1>3, <2>1
  <2>4. CASE p \in S
    <3> DEFINE T == S \union {a}
    <3>1. \A x \in T : next[x] \in T
      BY <1>3, <2>1, <2>4
    <3>2. T \in SUBSET (0 .. n - 1) /\ T # {}
      OBVIOUS
    <3> HIDE DEF T
    <3>3. QED
      BY <3>1, <3>2, AcyclicHasNoTrap
  <2>5. CASE p \notin S
    <3>1. \A x \in S \ {a} : next[x] \in S \ {a}
      BY <1>3, <2>2, <2>5
    <3>2. QED
      BY <2>3, <3>1, AcyclicHasNoTrap
  <2>6. QED
    BY <2>4, <2>5
<1>11. SingleFile(nx, n)
  <2>1. SUFFICES ASSUME NEW i \in 0 .. n - 1, NEW j \in 0 .. n - 1,
                        nx[i] = nx[j], nx[i] # NULL, i # j
                 PROVE  FALSE
    BY DEF SingleFile
  <2>2. \A x \in 0 .. n - 1 : next[x] # g \/ g = NULL
    BY DEF NoLinkTo
  <2>3. \A x, y \in 0 .. n - 1 : next[x] = next[y] /\ next[x] # NULL => x = y
    BY DEF SingleFile
  <2>4. CASE i # a /\ j # a
    BY <1>1, <1>3, <2>1, <2>3, <2>4
  <2>5. CASE i = a
    BY <1>1, <1>3, <2>1, <2>2, <2>5
  <2>6. CASE j = a
    BY <1>1, <1>3, <2>1, <2>2, <2>6
  <2>7. QED
    BY <2>4, <2>5, <2>6
<1>12. ASSUME NEW h, NoLinkTo(next, n, h), h # g
       PROVE  NoLinkTo(nx, n, h)
  BY <1>1, <1>3, <1>12 DEF NoLinkTo
<1>13. NoLinkTo(nx, n, a)
  BY <1>7 DEF NoLinkTo
<1>14. QED
  BY <1>1, <1>2, <1>5, <1>8, <1>9, <1>10, <1>11, <1>12, <1>13 DEF CutPushed
============================================================================
