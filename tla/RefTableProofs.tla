--------------------------- MODULE RefTableProofs ---------------------------
(***************************************************************************)
(* RefTable keeps its lists whole and implements HandleBag, for any        *)
(* objects and any hash function.                                          *)
(***************************************************************************)
EXTENDS RefTable, LinksProofs

\* What every call finds and leaves, but for the counts.
Chained(t) == IsRefTable(t) /\ ListsApart(t) /\ OneListEach(t)

\* Object o has a node, with r handles.
Holds(t, o, r) == \E i \in Slots(t) : t.obj[i] = o /\ t.refs[i] = r

Absent(t, o) == \A i \in Slots(t) : t.obj[i] # o

----------------------------------------------------------------------------
(* Types *)

LEMMA TableIsLinks ==
  ASSUME NEW t, IsRefTable(t)
  PROVE  IsLinks(t.next, t.size) /\ t.size \in Nat \ {0}
BY DEF IsRefTable, IsLinks, Slots

LEMMA MainPosIsSlot ==
  ASSUME NEW t, IsRefTable(t), NEW o \in Objects
  PROVE  MainPos(t, o) \in Slots(t)
<1>1. HashObj[o] \in Nat /\ t.size \in Nat \ {0}
  BY HashAssumption DEF IsRefTable
<1>2. PICK h \in Nat, n \in Nat \ {0} : h = HashObj[o] /\ n = t.size
  BY <1>1
<1>3. h % n \in 0 .. n - 1
  OBVIOUS
<1>4. QED
  BY <1>2, <1>3 DEF MainPos, Slots

LEMMA UsedAreFinite ==
  ASSUME NEW t, IsRefTable(t)
  PROVE  /\ InUse(t) \subseteq Slots(t)
         /\ IsFiniteSet(InUse(t))
         /\ Cardinality(InUse(t)) \in Nat
<1>1. PICK n \in Nat : n = t.size
  BY DEF IsRefTable
<1>2. IsFiniteSet(0 .. n - 1)
  BY FS_Interval
<1>3. InUse(t) \subseteq 0 .. n - 1
  BY <1>1 DEF InUse, Slots
<1>4. IsFiniteSet(InUse(t))
  BY <1>2, <1>3, FS_Subset
<1>5. QED
  BY <1>1, <1>3, <1>4, FS_CardinalityType DEF Slots

LEMMA InUseHasObject ==
  ASSUME NEW t, IsRefTable(t), NEW i \in InUse(t)
  PROVE  i \in Slots(t) /\ t.obj[i] \in Objects
BY DEF IsRefTable, InUse

LEMMA ObjectIsInUse ==
  ASSUME NEW t, NEW i \in Slots(t), t.obj[i] \in Objects
  PROVE  i \in InUse(t)
BY ObjectsAssumption DEF InUse

----------------------------------------------------------------------------
(* Adding a node *)

LEMMA AddFields ==
  ASSUME NEW t, IsRefTable(t), t.freelist \in Slots(t), NEW b \in Slots(t),
         NEW o \in Objects, NEW r, r = Add(t, b, o)
  PROVE  /\ IsRefTable(r)
         /\ r.size = t.size
         /\ r.refs = t.refs
         /\ r.obj = [t.obj EXCEPT ![t.freelist] = o]
         /\ r.buckets = [t.buckets EXCEPT ![b] = t.freelist]
         /\ r.freelist = t.next[t.freelist]
         /\ r.next = [t.next EXCEPT ![t.freelist] = t.buckets[b]]
         /\ r.slotused = t.slotused + 1
<1>1. /\ r.size = t.size
      /\ r.refs = t.refs
      /\ r.obj = [t.obj EXCEPT ![t.freelist] = o]
      /\ r.buckets = [t.buckets EXCEPT ![b] = t.freelist]
      /\ r.freelist = t.next[t.freelist]
      /\ r.next = [t.next EXCEPT ![t.freelist] = t.buckets[b]]
      /\ r.slotused = t.slotused + 1
      /\ DOMAIN r = DOMAIN t
  BY DEF Add, IsRefTable
<1>2. Slots(r) = Slots(t)
  BY <1>1 DEF Slots
<1>3. IsRefTable(r)
  BY <1>1, <1>2 DEF IsRefTable
<1>4. QED
  BY <1>1, <1>3

\* The first free node is no bucket's.
LEMMA FreeNode ==
  ASSUME NEW t, Chained(t), t.freelist # NULL
  PROVE  /\ t.freelist \in Slots(t) \ InUse(t)
         /\ NoLinkTo(t.next, t.size, t.freelist)
         /\ \A b \in Slots(t) : t.buckets[b] # t.freelist
<1>1. t.freelist \in Slots(t) /\ NoLinkTo(t.next, t.size, t.freelist)
  BY DEF Chained, IsRefTable, ListsApart
<1>2. t.freelist \in Listed(t, t.freelist)
  BY <1>1, StartInWalk, TableIsLinks DEF Chained, Listed, Slots
<1>3. t.freelist \in Slots(t) \ InUse(t)
  BY <1>2 DEF Chained, OneListEach
<1>4. ASSUME NEW b \in Slots(t), t.buckets[b] = t.freelist
      PROVE  FALSE
  <2>1. t.freelist \in Listed(t, t.buckets[b])
    BY <1>2, <1>4
  <2>2. QED
    BY <1>3, <2>1 DEF Chained, OneListEach
<1>5. QED
  BY <1>1, <1>3, <1>4

\* Two buckets do not share their first node.
LEMMA HeadsApart ==
  ASSUME NEW t, Chained(t), NEW b \in Slots(t), NEW c \in Slots(t),
         t.buckets[b] = t.buckets[c], t.buckets[b] # NULL
  PROVE  b = c
<1>1. t.buckets[b] \in Slots(t)
  BY DEF Chained, IsRefTable
<1>2. t.buckets[b] \in Listed(t, t.buckets[b])
  BY <1>1, StartInWalk, TableIsLinks DEF Chained, Listed, Slots
<1>3. /\ MainPos(t, t.obj[t.buckets[b]]) = b
      /\ MainPos(t, t.obj[t.buckets[b]]) = c
  BY <1>2 DEF Chained, OneListEach
<1>4. QED
  BY <1>3

LEMMA AddChained ==
  ASSUME NEW t, Chained(t), t.freelist # NULL, NEW o \in Objects, Absent(t, o),
         NEW r, r = Add(t, MainPos(t, o), o)
  PROVE  /\ Chained(r)
         /\ r.size = t.size /\ r.refs = t.refs
         /\ r.obj = [t.obj EXCEPT ![t.freelist] = o]
         /\ InUse(r) = InUse(t) \union {t.freelist}
         /\ t.freelist \in Slots(t) \ InUse(t)
         /\ r.slotused = t.slotused + 1
<1> DEFINE a == t.freelist
           b == MainPos(t, o)
           g == t.buckets[b]
<1>1. IsRefTable(t) /\ ListsApart(t) /\ OneListEach(t)
  BY DEF Chained
<1>2. b \in Slots(t) /\ g \in Slots(t) \union {NULL}
  BY <1>1, MainPosIsSlot DEF IsRefTable
<1>3. /\ a \in Slots(t) /\ a \notin InUse(t)
      /\ NoLinkTo(t.next, t.size, a)
      /\ g # a
  BY <1>2, FreeNode
<1>4. /\ IsRefTable(r)
      /\ r.size = t.size
      /\ r.refs = t.refs
      /\ r.obj = [t.obj EXCEPT ![a] = o]
      /\ r.buckets = [t.buckets EXCEPT ![b] = a]
      /\ r.freelist = t.next[a]
      /\ r.next = [t.next EXCEPT ![a] = g]
      /\ r.slotused = t.slotused + 1
  BY <1>1, <1>2, <1>3, AddFields
<1>5. g = NULL \/ NoLinkTo(t.next, t.size, g)
  BY <1>1, <1>2 DEF ListsApart
<1>6. /\ Walk(r.next, t.size, t.next[a]) = Walk(t.next, t.size, a) \ {a}
      /\ Walk(r.next, t.size, a) = {a} \union Walk(t.next, t.size, g)
      /\ \A i \in Slots(t) \union {NULL} :
           i # a => Walk(r.next, t.size, i) = Walk(t.next, t.size, i)
      /\ Acyclic(r.next, t.size) /\ SingleFile(r.next, t.size)
      /\ t.next[a] = NULL \/ NoLinkTo(r.next, t.size, t.next[a])
      /\ \A h : NoLinkTo(t.next, t.size, h) /\ h # g =>
                NoLinkTo(r.next, t.size, h)
  <2>1. IsLinks(t.next, t.size) /\ Acyclic(t.next, t.size)
        /\ SingleFile(t.next, t.size)
    BY <1>1, TableIsLinks DEF ListsApart
  <2>2. PICK next, n, nx : next = t.next /\ n = t.size /\ nx = r.next
    OBVIOUS
  <2> HIDE DEF a, g
  <2>3. /\ IsLinks(next, n) /\ a \in 0 .. n - 1 /\ NoLinkTo(next, n, a)
        /\ g \in 0 .. n - 1 \union {NULL} /\ g # a
        /\ nx = [next EXCEPT ![a] = g]
    BY <1>2, <1>3, <1>4, <2>1, <2>2 DEF Slots
  <2>4. PopPushed(next, n, a, g, nx)
    BY <2>1, <2>2, <2>3, PopPush
  <2>5. QED
    BY <1>5, <2>1, <2>2, <2>3, <2>4 DEF Slots, PopPushed
<1>7. Slots(r) = Slots(t) /\ InUse(r) = InUse(t) \union {a}
  <2>1. o # NoObject
    BY ObjectsAssumption
  <2>2. Slots(r) = Slots(t)
    BY <1>4 DEF Slots
  <2>3. \A i \in Slots(t) : r.obj[i] = IF i = a THEN o ELSE t.obj[i]
    BY <1>1, <1>4 DEF IsRefTable
  <2>4. QED
    BY <1>3, <2>1, <2>2, <2>3 DEF InUse
<1>8. ListsApart(r)
  <2>1. ASSUME NEW c \in Slots(t)
        PROVE  r.buckets[c] = NULL \/ NoLinkTo(r.next, t.size, r.buckets[c])
    <3>1. CASE c = b
      <4>1. r.buckets[c] = a
        BY <1>1, <1>2, <1>4, <3>1 DEF IsRefTable
      <4>2. QED
        BY <1>3, <1>6, <4>1
    <3>2. CASE c # b
      <4>1. r.buckets[c] = t.buckets[c]
        BY <1>1, <1>2, <1>4, <3>2 DEF IsRefTable
      <4>2. t.buckets[c] # g \/ t.buckets[c] = NULL
        BY <1>2, <3>2, HeadsApart
      <4>3. t.buckets[c] = NULL \/ NoLinkTo(t.next, t.size, t.buckets[c])
        BY <1>1 DEF ListsApart
      <4>4. QED
        BY <1>6, <4>1, <4>2, <4>3
    <3>3. QED
      BY <3>1, <3>2
  <2>2. QED
    BY <1>4, <1>6, <1>7, <2>1 DEF ListsApart
<1>9. OneListEach(r)
  <2>1. Listed(r, r.freelist) = Slots(r) \ InUse(r)
    <3>1. Listed(t, a) = Slots(t) \ InUse(t)
      BY <1>1 DEF OneListEach
    <3>2. QED
      BY <1>4, <1>6, <1>7, <3>1 DEF Listed
  <2>2. \A i \in Slots(t) : r.obj[i] = IF i = a THEN o ELSE t.obj[i]
    BY <1>1, <1>4 DEF IsRefTable
  <2>3. \A x : MainPos(r, x) = MainPos(t, x)
    BY <1>4 DEF MainPos
  <2>4. ASSUME NEW c \in Slots(r)
        PROVE  Listed(r, r.buckets[c]) =
                 {i \in InUse(r) : MainPos(r, r.obj[i]) = c}
    <3>1. Listed(t, t.buckets[c]) = {i \in InUse(t) : MainPos(t, t.obj[i]) = c}
      BY <1>1, <1>7, <2>4 DEF OneListEach
    <3>2. \A i \in InUse(t) : i \in Slots(t) /\ i # a
      BY <1>1, <1>3, UsedAreFinite
    <3>3. CASE c = b
      <4>1. r.buckets[c] = a
        BY <1>1, <1>2, <1>4, <3>3 DEF IsRefTable
      <4>2. Listed(r, r.buckets[c]) = {a} \union Listed(t, t.buckets[c])
        BY <1>4, <1>6, <3>3, <4>1 DEF Listed
      <4>3. QED
        BY <1>3, <1>7, <2>2, <2>3, <3>1, <3>2, <3>3, <4>2
    <3>4. CASE c # b
      <4>1. r.buckets[c] = t.buckets[c]
        BY <1>1, <1>2, <1>4, <1>7, <3>4 DEF IsRefTable
      <4>2. t.buckets[c] # a /\ t.buckets[c] \in Slots(t) \union {NULL}
        BY <1>1, <1>3, <1>7, FreeNode DEF IsRefTable, NULL
      <4>3. Listed(r, r.buckets[c]) = Listed(t, t.buckets[c])
        BY <1>4, <1>6, <4>1, <4>2 DEF Listed
      <4>4. QED
        BY <1>3, <1>7, <2>2, <2>3, <3>1, <3>2, <3>4, <4>3
    <3>5. QED
      BY <3>3, <3>4
  <2>5. \A i, j \in InUse(r) : r.obj[i] = r.obj[j] => i = j
    <3>1. \A i, j \in InUse(t) : t.obj[i] = t.obj[j] => i = j
      BY <1>1 DEF OneListEach
    <3>2. \A i \in InUse(t) : i \in Slots(t) /\ t.obj[i] # o /\ i # a
      BY <1>1, <1>3, UsedAreFinite DEF Absent
    <3>3. QED
      BY <1>3, <1>7, <2>2, <3>1, <3>2
  <2>6. r.slotused = Cardinality(InUse(r))
    <3>1. IsFiniteSet(InUse(t)) /\ t.slotused = Cardinality(InUse(t))
      BY <1>1, UsedAreFinite DEF OneListEach
    <3>2. Cardinality(InUse(t) \union {a}) = Cardinality(InUse(t)) + 1
      BY <1>3, <3>1, FS_AddElement
    <3>3. QED
      BY <1>4, <1>7, <3>1, <3>2
  <2>7. QED
    BY <2>1, <2>4, <2>5, <2>6 DEF OneListEach
<1>10. QED
  BY <1>3, <1>4, <1>7, <1>8, <1>9 DEF Chained
----------------------------------------------------------------------------
(* Looking up *)

LEMMA FindFacts ==
  ASSUME NEW t, Chained(t), NEW o \in Objects
  PROVE  \/ Find(t, o) = NULL /\ Absent(t, o)
         \/ /\ Find(t, o) \in InUse(t) /\ t.obj[Find(t, o)] = o
            /\ Find(t, o) # NULL
            /\ \A i \in Slots(t) : t.obj[i] = o => i = Find(t, o)
<1> DEFINE b == MainPos(t, o)
<1>1. IsRefTable(t) /\ OneListEach(t)
  BY DEF Chained
<1>2. b \in Slots(t)
  BY <1>1, MainPosIsSlot
<1>3. Listed(t, t.buckets[b]) = {i \in InUse(t) : MainPos(t, t.obj[i]) = b}
  BY <1>1, <1>2 DEF OneListEach
<1>4. \A i \in Slots(t) : t.obj[i] = o => i \in InUse(t)
  BY ObjectIsInUse
<1>5. Holders(t, o) = {i \in InUse(t) : t.obj[i] = o}
  BY <1>3 DEF Holders, InBucket
<1>6. \A i \in InUse(t) : i \in Slots(t) /\ i # NULL
  BY <1>1 DEF InUse, Slots, NULL, IsRefTable
<1>7. \A i, j \in InUse(t) : t.obj[i] = t.obj[j] => i = j
  BY <1>1 DEF OneListEach
<1>8. CASE Holders(t, o) = {}
  <2>1. Find(t, o) = NULL
    BY <1>8 DEF Find, OneOf
  <2>2. QED
    BY <1>4, <1>5, <1>8, <2>1 DEF Absent
<1>9. CASE Holders(t, o) # {}
  <2>1. Find(t, o) \in Holders(t, o)
    BY <1>9 DEF Find, OneOf
  <2>2. QED
    BY <1>4, <1>5, <1>6, <1>7, <2>1
<1>10. QED
  BY <1>8, <1>9

LEMMA CountFacts ==
  ASSUME NEW t, Chained(t), NEW o \in Objects
  PROVE  /\ Absent(t, o) => Count(t, o) = 0
         /\ \A i \in Slots(t) : t.obj[i] = o => Count(t, o) = t.refs[i]
<1>1. Find(t, o) = NULL => Count(t, o) = 0
  BY DEF Count
<1>2. Find(t, o) # NULL => Count(t, o) = t.refs[Find(t, o)]
  BY DEF Count
<1>3. \A i \in InUse(t) : i \in Slots(t)
  BY DEF InUse
<1>4. QED
  BY <1>1, <1>2, <1>3, FindFacts DEF Absent

----------------------------------------------------------------------------
(* Removing a node *)

LEMMA BeforeFacts ==
  ASSUME NEW t, Chained(t), NEW i \in InUse(t)
  PROVE  LET p == Before(t, t.obj[i], i)
             b == MainPos(t, t.obj[i])
         IN  /\ b \in Slots(t)
             /\ \/ p = NULL /\ t.buckets[b] = i
                \/ p # NULL /\ p \in Slots(t) /\ t.next[p] = i
<1> DEFINE o == t.obj[i]
           b == MainPos(t, o)
           p == Before(t, o, i)
           B == {j \in InBucket(t, o) : t.next[j] = i}
<1>1. IsRefTable(t) /\ OneListEach(t) /\ IsLinks(t.next, t.size)
  BY TableIsLinks DEF Chained
<1>2. i \in Slots(t) /\ o \in Objects /\ b \in Slots(t)
  BY <1>1, InUseHasObject, MainPosIsSlot
<1>3. InBucket(t, o) = {j \in InUse(t) : MainPos(t, t.obj[j]) = b}
  BY <1>1, <1>2 DEF OneListEach, InBucket
<1>4. \A j \in InBucket(t, o) : j \in Slots(t) /\ j # NULL
  BY <1>1, <1>3 DEF InUse, Slots, NULL, IsRefTable
<1>5. CASE B = {}
  <2>1. p = NULL
    BY <1>5 DEF Before, OneOf
  <2>2. i \in Walk(t.next, t.size, t.buckets[b])
    BY <1>3 DEF InBucket, Listed
  <2>3. t.buckets[b] \in Slots(t)
    <3>1. t.buckets[b] \in Slots(t) \union {NULL}
      BY <1>1, <1>2 DEF IsRefTable
    <3>2. t.buckets[b] = NULL => Walk(t.next, t.size, t.buckets[b]) = {}
      BY <1>1, WalkOfNull
    <3>3. QED
      BY <2>2, <3>1, <3>2
  <2>4. i = t.buckets[b]
    <3>1. PICK next, n, h : next = t.next /\ n = t.size /\ h = t.buckets[b]
      OBVIOUS
    <3>2. IsLinks(next, n) /\ h \in 0 .. n - 1 /\ i \in Walk(next, n, h)
      BY <1>1, <2>2, <2>3, <3>1 DEF Slots
    <3>3. i # h => \E j \in Walk(next, n, h) : next[j] = i
      BY ONLY <3>2, WalkPredecessor
    <3>4. QED
      BY <1>5, <3>1, <3>3 DEF InBucket, Listed
  <2>5. QED
    BY <1>2, <2>1, <2>4
<1>6. CASE B # {}
  <2>1. p \in B
    BY <1>6 DEF Before, OneOf
  <2>2. QED
    BY <1>2, <1>4, <2>1
<1>7. QED
  BY <1>5, <1>6

LEMMA UnlinkFields ==
  ASSUME NEW t, IsRefTable(t), NEW o, NEW i \in Slots(t), t.slotused > 0,
         MainPos(t, o) \in Slots(t), NEW r, r = Unlink(t, o, i),
         Before(t, o, i) \in Slots(t) \union {NULL}, Before(t, o, i) # i
  PROVE  /\ IsRefTable(r)
         /\ r.size = t.size
         /\ r.refs = t.refs
         /\ r.obj = [t.obj EXCEPT ![i] = NoObject]
         /\ r.buckets = IF Before(t, o, i) = NULL
                        THEN [t.buckets EXCEPT ![MainPos(t, o)] = t.next[i]]
                        ELSE t.buckets
         /\ r.freelist = i
         /\ r.next = IF Before(t, o, i) = NULL
                     THEN [t.next EXCEPT ![i] = t.freelist]
                     ELSE [t.next EXCEPT ![Before(t, o, i)] = t.next[i],
                                         ![i] = t.freelist]
         /\ r.slotused = t.slotused - 1
<1>1. /\ r.size = t.size
      /\ r.refs = t.refs
      /\ r.obj = [t.obj EXCEPT ![i] = NoObject]
      /\ r.buckets = IF Before(t, o, i) = NULL
                     THEN [t.buckets EXCEPT ![MainPos(t, o)] = t.next[i]]
                     ELSE t.buckets
      /\ r.freelist = i
      /\ r.next = IF Before(t, o, i) = NULL
                  THEN [t.next EXCEPT ![i] = t.freelist]
                  ELSE [t.next EXCEPT ![Before(t, o, i)] = t.next[i],
                                      ![i] = t.freelist]
      /\ r.slotused = t.slotused - 1
      /\ DOMAIN r = DOMAIN t
  BY DEF Unlink, IsRefTable
<1>2. Slots(r) = Slots(t)
  BY <1>1 DEF Slots
<1>3. /\ r.next \in [Slots(t) -> Slots(t) \union {NULL}]
      /\ r.buckets \in [Slots(t) -> Slots(t) \union {NULL}]
      /\ r.slotused \in Nat
  BY <1>1 DEF IsRefTable
<1>4. r.obj \in [Slots(t) -> Objects \union {NoObject}]
  BY <1>1 DEF IsRefTable
<1>5. IsRefTable(r)
  BY <1>1, <1>2, <1>3, <1>4 DEF IsRefTable
<1>6. QED
  BY <1>1, <1>5
\* What the lists of t are after node i has left its bucket.
Freed(t, nx, i, b, heads) ==
  /\ Acyclic(nx, t.size) /\ SingleFile(nx, t.size)
  /\ NoLinkTo(nx, t.size, i)
  /\ Walk(nx, t.size, i) = {i} \union (Slots(t) \ InUse(t))
  /\ \A c \in Slots(t) :
        /\ heads[c] = NULL \/ NoLinkTo(nx, t.size, heads[c])
        /\ Walk(nx, t.size, heads[c]) = Listed(t, t.buckets[c]) \ {i}

\* The buckets of t, its free list and node i.
LEMMA ListFacts ==
  ASSUME NEW t, Chained(t), NEW i \in InUse(t)
  PROVE  /\ i \in Slots(t) /\ i # NULL /\ i # t.freelist
         /\ t.freelist \in Slots(t) \union {NULL}
         /\ t.freelist = NULL \/ NoLinkTo(t.next, t.size, t.freelist)
         /\ Walk(t.next, t.size, t.freelist) = Slots(t) \ InUse(t)
         /\ \A c \in Slots(t) :
              /\ t.buckets[c] \in Slots(t) \union {NULL}
              /\ t.buckets[c] = NULL \/ NoLinkTo(t.next, t.size, t.buckets[c])
              /\ t.buckets[c] = NULL \/ t.buckets[c] # t.freelist
<1>1. IsRefTable(t) /\ ListsApart(t) /\ OneListEach(t)
  BY DEF Chained
<1>2. i \in Slots(t) /\ i # NULL
  BY <1>1 DEF InUse, Slots, NULL, IsRefTable
<1>3. i # t.freelist
  BY <1>2, FreeNode
<1>4. ASSUME NEW c \in Slots(t)
      PROVE  t.buckets[c] = NULL \/ t.buckets[c] # t.freelist
  BY FreeNode
<1>5. QED
  BY <1>1, <1>2, <1>3, <1>4 DEF IsRefTable, ListsApart, OneListEach, Listed

\* Node i is the first of its bucket b.
LEMMA FirstFreed ==
  ASSUME NEW t, Chained(t), NEW i \in InUse(t), NEW b \in Slots(t),
         t.buckets[b] = i,
         NEW nx, nx = [t.next EXCEPT ![i] = t.freelist],
         NEW heads, heads = [t.buckets EXCEPT ![b] = t.next[i]]
  PROVE  Freed(t, nx, i, b, heads)
<1> PICK next, n, g : next = t.next /\ n = t.size /\ g = t.freelist
  OBVIOUS
<1>1. /\ IsLinks(next, n) /\ Acyclic(next, n) /\ SingleFile(next, n)
      /\ Slots(t) = 0 .. n - 1
  BY TableIsLinks DEF Chained, ListsApart, Slots
<1>2. /\ i \in 0 .. n - 1 /\ i # NULL /\ g # i
      /\ g \in 0 .. n - 1 \union {NULL}
      /\ g = NULL \/ NoLinkTo(next, n, g)
      /\ NoLinkTo(next, n, i)
      /\ Walk(next, n, g) = (0 .. n - 1) \ InUse(t)
  BY <1>1, ListFacts
<1>3. /\ Walk(nx, n, next[i]) = Walk(next, n, i) \ {i}
      /\ Walk(nx, n, i) = {i} \union Walk(next, n, g)
      /\ \A j \in 0 .. n - 1 \union {NULL} :
           j # i => Walk(nx, n, j) = Walk(next, n, j)
      /\ Acyclic(nx, n) /\ SingleFile(nx, n)
      /\ next[i] = NULL \/ NoLinkTo(nx, n, next[i])
      /\ \A h : NoLinkTo(next, n, h) /\ h # g => NoLinkTo(nx, n, h)
  <2>1. PopPushed(next, n, i, g, nx)
    BY <1>1, <1>2, PopPush
  <2>2. QED
    BY <1>1, <1>2, <2>1 DEF PopPushed
<1>4. ASSUME NEW c \in Slots(t)
      PROVE  /\ heads[c] = NULL \/ NoLinkTo(nx, n, heads[c])
             /\ Walk(nx, n, heads[c]) = Listed(t, t.buckets[c]) \ {i}
  <2>1. t.buckets \in [Slots(t) -> Slots(t) \union {NULL}]
    BY DEF Chained, IsRefTable
  <2>2. CASE c = b
    <3>1. heads[c] = next[i]
      BY <2>1, <2>2
    <3>2. QED
      BY <1>3, <2>2, <3>1 DEF Listed
  <2>3. CASE c # b
    <3>1. heads[c] = t.buckets[c]
      BY <2>1, <2>3
    <3>2. t.buckets[c] # i
      BY <1>2, <2>3, HeadsApart
    <3>3. i \notin Listed(t, t.buckets[c])
      <4>1. i \in Listed(t, t.buckets[b])
        BY <1>1, <1>2, StartInWalk DEF Listed
      <4>2. QED
        BY <2>3, <4>1 DEF Chained, OneListEach
    <3>4. /\ t.buckets[c] \in 0 .. n - 1 \union {NULL}
          /\ t.buckets[c] = NULL \/ NoLinkTo(next, n, t.buckets[c])
          /\ t.buckets[c] = NULL \/ t.buckets[c] # g
      BY <1>1, ListFacts
    <3>5. Walk(nx, n, heads[c]) = Walk(next, n, t.buckets[c])
      BY <1>3, <3>1, <3>2, <3>4
    <3>6. Walk(next, n, t.buckets[c]) = Listed(t, t.buckets[c])
      BY DEF Listed
    <3>7. QED
      BY <1>3, <3>1, <3>3, <3>4, <3>5, <3>6
  <2>4. QED
    BY <2>2, <2>3
<1>5. NoLinkTo(nx, n, i)
  BY <1>2, <1>3
<1>6. QED
  BY <1>1, <1>2, <1>3, <1>4, <1>5 DEF Freed

\* Node i is behind p.
LEMMA LaterFreed ==
  ASSUME NEW t, Chained(t), NEW i \in InUse(t), NEW b \in Slots(t),
         NEW p \in Slots(t), t.next[p] = i,
         NEW nx, nx = [t.next EXCEPT ![p] = t.next[i], ![i] = t.freelist]
  PROVE  Freed(t, nx, i, b, t.buckets) /\ p # i
<1> PICK next, n, g : next = t.next /\ n = t.size /\ g = t.freelist
  OBVIOUS
<1>1. /\ IsLinks(next, n) /\ Acyclic(next, n) /\ SingleFile(next, n)
      /\ Slots(t) = 0 .. n - 1
  BY TableIsLinks DEF Chained, ListsApart, Slots
<1>2. /\ i \in 0 .. n - 1 /\ i # NULL /\ g # i
      /\ g \in 0 .. n - 1 \union {NULL}
      /\ g = NULL \/ NoLinkTo(next, n, g)
      /\ Walk(next, n, g) = (0 .. n - 1) \ InUse(t)
  BY <1>1, ListFacts
<1>3. /\ p # i
      /\ \A j \in 0 .. n - 1 \union {NULL} :
           j # i => Walk(nx, n, j) = Walk(next, n, j) \ {i}
      /\ Walk(nx, n, i) = {i} \union (Walk(next, n, g) \ {i})
      /\ Acyclic(nx, n)
      /\ SingleFile(nx, n)
      /\ NoLinkTo(nx, n, i)
      /\ \A h : NoLinkTo(next, n, h) /\ h # g => NoLinkTo(nx, n, h)
  <2>1. p \in 0 .. n - 1 /\ next[p] = i
    BY <1>1
  <2>2. CutPushed(next, n, i, p, g, nx)
    BY <1>1, <1>2, <2>1, CutPush
  <2>3. QED
    BY <2>2 DEF CutPushed
<1>4. ASSUME NEW c \in Slots(t)
      PROVE  /\ t.buckets[c] = NULL \/ NoLinkTo(nx, n, t.buckets[c])
             /\ Walk(nx, n, t.buckets[c]) = Listed(t, t.buckets[c]) \ {i}
  <2>1. /\ t.buckets[c] \in 0 .. n - 1 \union {NULL}
        /\ t.buckets[c] = NULL \/ NoLinkTo(next, n, t.buckets[c])
        /\ t.buckets[c] = NULL \/ t.buckets[c] # g
    BY <1>1, ListFacts
  <2>2. t.buckets[c] # i
    BY <1>1, <1>2, <2>1 DEF NoLinkTo
  <2>3. QED
    BY <1>3, <2>1, <2>2 DEF Listed
<1>5. QED
  BY <1>1, <1>2, <1>3, <1>4 DEF Freed

LEMMA UnlinkChained ==
  ASSUME NEW t, Chained(t), NEW i \in InUse(t),
         NEW r, r = Unlink(t, t.obj[i], i)
  PROVE  /\ Chained(r)
         /\ r.size = t.size /\ r.refs = t.refs
         /\ r.obj = [t.obj EXCEPT ![i] = NoObject]
         /\ InUse(r) = InUse(t) \ {i}
<1> DEFINE o == t.obj[i]
           b == MainPos(t, o)
           p == Before(t, o, i)
<1>1. IsRefTable(t) /\ ListsApart(t) /\ OneListEach(t)
  BY DEF Chained
<1>2. i \in Slots(t) /\ o \in Objects /\ i # NULL
  BY <1>1, InUseHasObject, ListFacts
<1>3. /\ b \in Slots(t)
      /\ \/ p = NULL /\ t.buckets[b] = i
         \/ p # NULL /\ p \in Slots(t) /\ t.next[p] = i
  BY BeforeFacts
<1>4. p # i /\ p \in Slots(t) \union {NULL}
  <2>1. CASE p = NULL
    BY <1>2, <2>1
  <2>2. CASE p # NULL
    <3>1. p # i
      BY <1>3, <2>2, LaterFreed
    <3>2. QED
      BY <1>3, <2>2, <3>1
  <2>3. QED
    BY <2>1, <2>2
<1>5. /\ IsFiniteSet(InUse(t)) /\ t.slotused = Cardinality(InUse(t))
      /\ Cardinality(InUse(t) \ {i}) = Cardinality(InUse(t)) - 1
      /\ t.slotused > 0
  <2>1. IsFiniteSet(InUse(t)) /\ t.slotused = Cardinality(InUse(t))
        /\ Cardinality(InUse(t)) \in Nat
    BY <1>1, UsedAreFinite DEF OneListEach
  <2>2. Cardinality(InUse(t) \ {i}) = Cardinality(InUse(t)) - 1
    BY <2>1, FS_RemoveElement
  <2>3. Cardinality(InUse(t) \ {i}) \in Nat
    BY <2>1, FS_RemoveElement, FS_CardinalityType
  <2>4. QED
    BY <2>1, <2>2, <2>3
<1>6. /\ IsRefTable(r)
      /\ r.size = t.size
      /\ r.refs = t.refs
      /\ r.obj = [t.obj EXCEPT ![i] = NoObject]
      /\ r.buckets = IF p = NULL THEN [t.buckets EXCEPT ![b] = t.next[i]]
                     ELSE t.buckets
      /\ r.freelist = i
      /\ r.next = IF p = NULL THEN [t.next EXCEPT ![i] = t.freelist]
                  ELSE [t.next EXCEPT ![p] = t.next[i], ![i] = t.freelist]
      /\ r.slotused = t.slotused - 1
  BY <1>1, <1>2, <1>3, <1>4, <1>5, UnlinkFields
<1>7. Freed(t, r.next, i, b, r.buckets)
  <2>1. CASE p = NULL
    BY <1>3, <1>6, <2>1, FirstFreed
  <2>2. CASE p # NULL
    BY <1>3, <1>6, <2>2, LaterFreed
  <2>3. QED
    BY <2>1, <2>2
<1> HIDE DEF p
<1>8. Slots(r) = Slots(t) /\ InUse(r) = InUse(t) \ {i}
  <2>1. Slots(r) = Slots(t)
    BY <1>6 DEF Slots
  <2>2. \A j \in Slots(t) : r.obj[j] = IF j = i THEN NoObject ELSE t.obj[j]
    BY <1>1, <1>6 DEF IsRefTable
  <2>3. QED
    BY <2>1, <2>2 DEF InUse
<1>9. ListsApart(r)
  BY <1>6, <1>7, <1>8 DEF Freed, ListsApart
<1>10. OneListEach(r)
  <2>1. Listed(r, r.freelist) = Slots(r) \ InUse(r)
    BY <1>2, <1>6, <1>7, <1>8 DEF Freed, Listed
  <2>2. \A j \in InUse(r) : r.obj[j] = t.obj[j] /\ j \in InUse(t) /\ j # i
    BY <1>1, <1>6, <1>8, UsedAreFinite DEF IsRefTable
  <2>3. \A x : MainPos(r, x) = MainPos(t, x)
    BY <1>6 DEF MainPos
  <2>4. ASSUME NEW c \in Slots(r)
        PROVE  Listed(r, r.buckets[c]) =
                 {j \in InUse(r) : MainPos(r, r.obj[j]) = c}
    <3>1. Listed(t, t.buckets[c]) = {j \in InUse(t) : MainPos(t, t.obj[j]) = c}
      BY <1>1, <1>8, <2>4 DEF OneListEach
    <3>2. Listed(r, r.buckets[c]) = Listed(t, t.buckets[c]) \ {i}
      BY <1>6, <1>7, <1>8 DEF Freed, Listed
    <3>3. QED
      BY <1>8, <2>2, <2>3, <3>1, <3>2
  <2>5. \A j, k \in InUse(r) : r.obj[j] = r.obj[k] => j = k
    BY <1>1, <2>2 DEF OneListEach
  <2>6. r.slotused = Cardinality(InUse(r))
    BY <1>5, <1>6, <1>8
  <2>7. QED
    BY <2>1, <2>4, <2>5, <2>6 DEF OneListEach
<1>11. QED
  BY <1>6, <1>8, <1>9, <1>10 DEF Chained
----------------------------------------------------------------------------
(* A new block *)

LEMMA AllocChained ==
  ASSUME NEW n \in Nat \ {0}, NEW t, t = AllocNodes(n)
  PROVE  /\ Chained(t) /\ t.size = n
         /\ InUse(t) = {} /\ t.slotused = 0
         /\ \A i \in Slots(t) : t.refs[i] = 0
<1>1. /\ t.size = n /\ t.slotused = 0 /\ t.freelist = 0
      /\ t.buckets = [i \in 0 .. n - 1 |-> NULL]
      /\ t.obj = [i \in 0 .. n - 1 |-> NoObject]
      /\ t.refs = [i \in 0 .. n - 1 |-> 0]
      /\ t.next = [i \in 0 .. n - 1 |-> IF i < n - 1 THEN i + 1 ELSE NULL]
      /\ DOMAIN t = {"size", "buckets", "obj", "refs", "next", "freelist",
                     "slotused"}
  BY DEF AllocNodes
<1>2. Slots(t) = 0 .. n - 1 /\ InUse(t) = {}
  BY <1>1 DEF Slots, InUse
<1>3. /\ IsLinks(t.next, n)
      /\ Walk(t.next, n, 0) = 0 .. n - 1
      /\ Acyclic(t.next, n)
      /\ SingleFile(t.next, n)
      /\ NoLinkTo(t.next, n, 0)
  BY <1>1, InOrder
<1>4. IsRefTable(t)
  <2>1. t.next \in [0 .. n - 1 -> 0 .. n - 1 \union {NULL}]
    BY <1>3 DEF IsLinks
  <2>2. t.obj \in [0 .. n - 1 -> Objects \union {NoObject}]
    BY <1>1
  <2>3. QED
    BY <1>1, <1>2, <2>1, <2>2 DEF IsRefTable
<1>5. ListsApart(t)
  BY <1>1, <1>2, <1>3 DEF ListsApart
<1>6. OneListEach(t)
  <2>1. \A c \in Slots(t) : Listed(t, t.buckets[c]) = {}
    BY <1>1, <1>2, <1>3, WalkOfNull DEF Listed
  <2>2. Cardinality({}) = 0
    BY FS_EmptySet
  <2>3. QED
    BY <1>1, <1>2, <1>3, <2>1, <2>2 DEF OneListEach, Listed
<1>7. QED
  BY <1>1, <1>2, <1>4, <1>5, <1>6 DEF Chained

\* Table r differs from t in the counts only.
LEMMA CountsFrame ==
  ASSUME NEW t, Chained(t), NEW f \in [Slots(t) -> Nat],
         NEW r, r = [t EXCEPT !.refs = f]
  PROVE  /\ Chained(r) /\ r.size = t.size /\ r.slotused = t.slotused
         /\ r.refs = f /\ r.obj = t.obj
         /\ Slots(r) = Slots(t) /\ InUse(r) = InUse(t)
         /\ \A o : Find(r, o) = Find(t, o)
<1>1. /\ DOMAIN r = DOMAIN t
      /\ r.size = t.size /\ r.buckets = t.buckets /\ r.obj = t.obj
      /\ r.next = t.next /\ r.freelist = t.freelist
      /\ r.slotused = t.slotused /\ r.refs = f
  BY DEF Chained, IsRefTable
<1>2. Slots(r) = Slots(t) /\ InUse(r) = InUse(t)
  BY <1>1 DEF Slots, InUse
<1>3. IsRefTable(r) /\ ListsApart(r)
  BY <1>1, <1>2 DEF Chained, IsRefTable, ListsApart
<1>4. \A i : Listed(r, i) = Listed(t, i)
  BY <1>1 DEF Listed
<1>5. \A o : MainPos(r, o) = MainPos(t, o)
  BY <1>1 DEF MainPos
<1>6. OneListEach(r)
  BY <1>1, <1>2, <1>4, <1>5 DEF Chained, OneListEach
<1>7. ASSUME NEW o
      PROVE  Find(r, o) = Find(t, o)
  <2>1. Listed(r, r.buckets[MainPos(r, o)]) = Listed(t, t.buckets[MainPos(t, o)])
    BY <1>1, <1>4, <1>5
  <2>2. Holders(r, o) = Holders(t, o)
    BY <1>1, <2>1 DEF Holders, InBucket
  <2>3. QED
    BY <2>2 DEF Find
<1>8. QED
  BY <1>1, <1>2, <1>3, <1>6, <1>7 DEF Chained

\* A table without a free node is full.
LEMMA NoneFree ==
  ASSUME NEW t, Chained(t)
  PROVE  /\ t.freelist = NULL <=> t.slotused = t.size
         /\ t.slotused <= t.size
<1>1. IsRefTable(t) /\ OneListEach(t) /\ IsLinks(t.next, t.size)
  BY TableIsLinks DEF Chained
<1>2. PICK n \in Nat \ {0} : n = t.size
  BY <1>1 DEF IsRefTable
<1>3. IsFiniteSet(0 .. n - 1) /\ Cardinality(0 .. n - 1) = n
  <2>1. 0 \in Int /\ n - 1 \in Int /\ ~ (0 > n - 1) /\ (n - 1) - 0 + 1 = n
    OBVIOUS
  <2>2. QED
    BY <2>1, FS_Interval
<1>4. InUse(t) \subseteq 0 .. n - 1 /\ t.slotused = Cardinality(InUse(t))
  BY <1>1, <1>2, UsedAreFinite DEF OneListEach, Slots
<1>5. t.slotused <= t.size
  BY <1>2, <1>3, <1>4, FS_Subset
<1>6. t.slotused = t.size => InUse(t) = 0 .. n - 1
  BY <1>2, <1>3, <1>4, FS_Subset
<1>7. InUse(t) = 0 .. n - 1 => t.slotused = t.size
  BY <1>2, <1>3, <1>4
<1>8. t.freelist = NULL => InUse(t) = 0 .. n - 1
  <2>1. t.freelist = NULL => Listed(t, t.freelist) = {}
    BY <1>1, WalkOfNull DEF Listed
  <2>2. QED
    BY <1>1, <1>2, <1>4, <2>1 DEF OneListEach, Slots
<1>9. t.freelist # NULL => InUse(t) # 0 .. n - 1
  <2>1. t.freelist # NULL => t.freelist \in Slots(t) \ InUse(t)
    BY FreeNode
  <2>2. QED
    BY <1>2, <2>1 DEF Slots
<1>10. QED
  BY <1>5, <1>6, <1>7, <1>8, <1>9

----------------------------------------------------------------------------
(* Growth *)

IsMove(t, m, k, f) ==
  f = [n \in 0 .. k |-> IF n = 0 THEN m ELSE MoveNode(t, f[n - 1], n - 1)]

\* The recursive function of Moved exists.
LEMMA MoveExists ==
  ASSUME NEW t, NEW m, NEW k \in Nat
  PROVE  \E f : IsMove(t, m, k, f)
<1> DEFINE S == {l \in 0 .. k : \E f : IsMove(t, m, l, f)}
<1>1. 0 \in S
  <2>1. IsMove(t, m, 0, [n \in 0 .. 0 |-> m])
    BY DEF IsMove
  <2>2. QED
    BY <2>1
<1>2. ASSUME NEW l \in 1 .. k, l - 1 \in S
      PROVE  l \in S
  <2>1. PICK f : IsMove(t, m, l - 1, f)
    BY <1>2
  <2> DEFINE g == [n \in 0 .. l |-> IF n = l THEN MoveNode(t, f[l - 1], l - 1)
                                             ELSE f[n]]
             h == [n \in 0 .. l |->
                     IF n = 0 THEN m ELSE MoveNode(t, g[n - 1], n - 1)]
  <2>2. f = [n \in 0 .. l - 1 |->
               IF n = 0 THEN m ELSE MoveNode(t, f[n - 1], n - 1)]
    BY <2>1 DEF IsMove
  <2>3. ASSUME NEW j \in 0 .. l
        PROVE  g[j] = h[j]
    <3>1. CASE j = 0
      BY <2>2, <3>1
    <3>2. CASE j # 0
      <4>1. j - 1 \in 0 .. l - 1 /\ g[j - 1] = f[j - 1]
        BY <3>2
      <4>2. h[j] = MoveNode(t, g[j - 1], j - 1)
        BY <3>2
      <4>3. CASE j = l
        BY <4>1, <4>2, <4>3
      <4>4. CASE j # l
        <5>1. j \in 0 .. l - 1 /\ g[j] = f[j]
          BY <4>4
        <5>2. f[j] = MoveNode(t, f[j - 1], j - 1)
          BY <2>2, <3>2, <5>1
        <5>3. QED
          BY <4>1, <4>2, <5>1, <5>2
      <4>5. QED
        BY <4>3, <4>4
    <3>3. QED
      BY <3>1, <3>2
  <2>4. g = h
    BY <2>3
  <2>5. IsMove(t, m, l, g)
    BY <2>4 DEF IsMove
  <2>6. QED
    BY <2>5
<1>3. \A l \in 0 .. k : l \in S
  <2> HIDE DEF S
  <2>1. QED
    BY <1>1, <1>2, InductionUpTo
<1>4. QED
  BY <1>3

LEMMA MovedSteps ==
  ASSUME NEW t, IsRefTable(t), NEW m, NEW f, f = Moved(t, m)
  PROVE  /\ f[0] = m
         /\ \A n \in 1 .. t.size : f[n] = MoveNode(t, f[n - 1], n - 1)
<1>1. t.size \in Nat
  BY DEF IsRefTable
<1>2. \E g : IsMove(t, m, t.size, g)
  BY <1>1, MoveExists
<1>3. IsMove(t, m, t.size, f)
  <2> DEFINE Run(g) ==
               g = [n \in 0 .. t.size |->
                     IF n = 0 THEN m ELSE MoveNode(t, g[n - 1], n - 1)]
             run == CHOOSE g : Run(g)
  <2>1. f = run
    BY DEF Moved
  <2>2. \A g : IsMove(t, m, t.size, g) <=> Run(g)
    BY DEF IsMove
  <2> HIDE DEF Run
  <2>3. Run(run)
    BY <1>2, <2>2
  <2>4. QED
    BY <2>1, <2>2, <2>3
<1>4. f = [n \in 0 .. t.size |->
             IF n = 0 THEN m ELSE MoveNode(t, f[n - 1], n - 1)]
  BY <1>3 DEF IsMove
<1>5. \A n \in 0 .. t.size :
        f[n] = IF n = 0 THEN m ELSE MoveNode(t, f[n - 1], n - 1)
  BY <1>4
<1>6. \A n \in 1 .. t.size : n \in 0 .. t.size /\ n # 0
  BY <1>1
<1>7. QED
  BY <1>1, <1>5, <1>6
\* The new block m holds the objects of the first k nodes of t, with their
\* counts, and nothing else.
Copied(t, m, k) ==
  /\ Chained(m) /\ CountsInUse(m)
  /\ m.size = 2 * t.size /\ m.slotused <= k
  /\ \A o \in Objects, r \in Nat :
       Holds(m, o, r) <=> \E j \in Slots(t) : j < k /\ t.obj[j] = o /\ t.refs[j] = r

LEMMA MoveCopies ==
  ASSUME NEW t, Chained(t), CountsInUse(t), NEW k \in Slots(t),
         NEW m, Copied(t, m, k), NEW r, r = MoveNode(t, m, k)
  PROVE  Copied(t, r, k + 1)
<1>1. PICK n \in Nat \ {0} : n = t.size
  BY DEF Chained, IsRefTable
<1>2. k \in 0 .. n - 1 /\ Slots(t) = 0 .. n - 1
  BY <1>1 DEF Slots
<1>3. \A j \in Slots(t) : j < k + 1 <=> j < k \/ j = k
  BY <1>2
<1>4. Chained(m) /\ CountsInUse(m) /\ m.size = 2 * n /\ m.slotused <= k
  BY <1>1 DEF Copied
<1>5. \A o \in Objects, c \in Nat :
        Holds(m, o, c) <=>
          \E j \in Slots(t) : j < k /\ t.obj[j] = o /\ t.refs[j] = c
  BY DEF Copied
<1>6. \A j \in Slots(t) : t.refs[j] \in Nat
  BY DEF Chained, IsRefTable
<1>7. m.slotused \in Nat
  BY <1>4 DEF Chained, IsRefTable
<1>8. CASE t.obj[k] = NoObject
  <2>1. r = m
    BY <1>8 DEF MoveNode
  <2>2. r.slotused <= k + 1
    BY <1>2, <1>4, <1>7, <2>1
  <2>3. \A o \in Objects : t.obj[k] # o
    BY <1>8, ObjectsAssumption
  <2>4. QED
    BY <1>1, <1>3, <1>4, <1>5, <2>1, <2>2, <2>3 DEF Copied
<1>9. CASE t.obj[k] # NoObject
  <2> DEFINE o == t.obj[k]
             a == m.freelist
             u == Add(m, MainPos(m, o), o)
  <2>1. k \in InUse(t) /\ o \in Objects /\ t.refs[k] > 0
    BY <1>9 DEF Chained, IsRefTable, InUse, CountsInUse
  <2>2. Absent(m, o)
    <3> SUFFICES ASSUME NEW i \in Slots(m), m.obj[i] = o
                 PROVE  FALSE
      BY DEF Absent
    <3>1. m.refs[i] \in Nat
      BY <1>4 DEF Chained, IsRefTable
    <3>2. Holds(m, o, m.refs[i])
      BY DEF Holds
    <3>3. PICK j \in Slots(t) : j < k /\ t.obj[j] = o
      BY <1>5, <2>1, <3>1, <3>2
    <3>4. j \in InUse(t)
      BY <2>1, <3>3, ObjectIsInUse
    <3>5. j = k
      BY <2>1, <3>3, <3>4 DEF Chained, OneListEach
    <3>6. QED
      BY <1>2, <3>3, <3>5
  <2>3. a # NULL
    <3>1. m.slotused # m.size
      BY <1>2, <1>4, <1>7
    <3>2. QED
      BY <1>4, <3>1, NoneFree
  <2>4. /\ Chained(u)
        /\ u.size = m.size /\ u.refs = m.refs
        /\ u.obj = [m.obj EXCEPT ![a] = o]
        /\ InUse(u) = InUse(m) \union {a}
        /\ a \in Slots(m) \ InUse(m)
        /\ u.slotused = m.slotused + 1
    BY <1>4, <2>1, <2>2, <2>3, AddChained
  <2>5. r = [u EXCEPT !.refs = [u.refs EXCEPT ![a] = t.refs[k]]]
    BY <1>9 DEF MoveNode
  <2>6. /\ m.refs \in [Slots(m) -> Nat]
        /\ m.obj \in [Slots(m) -> Objects \union {NoObject}]
    BY <1>4 DEF Chained, IsRefTable
  <2>7. Slots(u) = Slots(m)
    BY <2>4 DEF Slots
  <2>8. [u.refs EXCEPT ![a] = t.refs[k]] \in [Slots(u) -> Nat]
    BY <1>6, <2>4, <2>6, <2>7
  <2> HIDE DEF a, u
  <2>9. /\ Chained(r) /\ r.size = u.size /\ r.slotused = u.slotused
        /\ r.refs = [u.refs EXCEPT ![a] = t.refs[k]] /\ r.obj = u.obj
        /\ Slots(r) = Slots(u) /\ InUse(r) = InUse(u)
    <3>1. PICK g \in [Slots(u) -> Nat] : g = [u.refs EXCEPT ![a] = t.refs[k]]
      BY <2>8
    <3>2. r = [u EXCEPT !.refs = g]
      BY <2>5, <3>1
    <3>3. Chained(u)
      BY <2>4
    <3>4. /\ Chained(r) /\ r.size = u.size /\ r.slotused = u.slotused
          /\ r.refs = g /\ r.obj = u.obj
          /\ Slots(r) = Slots(u) /\ InUse(r) = InUse(u)
      BY ONLY <3>2, <3>3, g \in [Slots(u) -> Nat], CountsFrame
    <3>5. QED
      BY <3>1, <3>4
  <2>10. \A i \in Slots(m) :
           /\ r.obj[i] = IF i = a THEN o ELSE m.obj[i]
           /\ r.refs[i] = IF i = a THEN t.refs[k] ELSE m.refs[i]
    BY <2>4, <2>6, <2>9
  <2>11. CountsInUse(r)
    BY <1>4, <2>1, <2>4, <2>7, <2>9, <2>10 DEF CountsInUse
  <2>12. ASSUME NEW x \in Objects, NEW c \in Nat
         PROVE  Holds(r, x, c) <=>
                  \E j \in Slots(t) : j < k + 1 /\ t.obj[j] = x /\ t.refs[j] = c
    <3>1. m.obj[a] = NoObject
      BY <2>4 DEF InUse
    <3>2. Holds(r, x, c) <=> Holds(m, x, c) \/ (x = o /\ c = t.refs[k])
      BY <2>4, <2>7, <2>9, <2>10, <3>1, ObjectsAssumption DEF Holds
    <3>3. QED
      BY <1>3, <1>5, <3>2
  <2>13. r.size = 2 * t.size /\ r.slotused <= k + 1
    BY <1>1, <1>2, <1>4, <1>7, <2>4, <2>9
  <2>14. QED
    BY <2>9, <2>11, <2>12, <2>13 DEF Copied
<1>10. QED
  BY <1>8, <1>9

\* The table grows: the same objects with the same counts, and room.
LEMMA ResizeCopies ==
  ASSUME NEW t, Chained(t), CountsInUse(t), NEW r, r = Resize(t, 2 * t.size)
  PROVE  Copied(t, r, t.size)
<1>1. PICK n \in Nat \ {0} : n = t.size
  BY DEF Chained, IsRefTable
<1> DEFINE m == AllocNodes(2 * t.size)
           f == Moved(t, m)
           S == {k \in 0 .. n : Copied(t, f[k], k)}
<1>2. f[0] = m /\ \A k \in 1 .. n : f[k] = MoveNode(t, f[k - 1], k - 1)
  BY <1>1, MovedSteps DEF Chained
<1>3. r = f[n]
  BY <1>1 DEF Resize
<1>4. /\ Chained(m) /\ m.size = 2 * t.size
      /\ InUse(m) = {} /\ m.slotused = 0
      /\ \A i \in Slots(m) : m.refs[i] = 0
  <2>1. 2 * n \in Nat \ {0}
    OBVIOUS
  <2>2. QED
    BY <1>1, <2>1, AllocChained
<1> HIDE DEF f
<1>5. Copied(t, m, 0)
  <2> HIDE DEF m
  <2>1. CountsInUse(m)
    BY <1>4 DEF CountsInUse
  <2>2. ASSUME NEW o \in Objects, NEW c \in Nat, Holds(m, o, c)
        PROVE  FALSE
    BY <1>4, <2>2, ObjectIsInUse DEF Holds
  <2>3. \A j \in Slots(t) : ~ (j < 0)
    BY <1>1 DEF Slots
  <2>4. QED
    BY <1>4, <2>1, <2>2, <2>3 DEF Copied
<1>6. 0 \in S
  BY <1>2, <1>5
<1>7. ASSUME NEW k \in 1 .. n, k - 1 \in S
      PROVE  k \in S
  <2>1. k - 1 \in Slots(t) /\ (k - 1) + 1 = k /\ k \in 0 .. n
    BY <1>1 DEF Slots
  <2>2. Copied(t, f[k - 1], k - 1) /\ f[k] = MoveNode(t, f[k - 1], k - 1)
    BY <1>2, <1>7
  <2>3. Copied(t, f[k], (k - 1) + 1)
    BY <2>1, <2>2, MoveCopies
  <2>4. QED
    BY <2>1, <2>3
<1>8. \A k \in 0 .. n : k \in S
  <2> HIDE DEF S
  <2>1. QED
    BY <1>6, <1>7, InductionUpTo
<1>9. QED
  BY <1>1, <1>3, <1>8
----------------------------------------------------------------------------
(* Counts *)

LEMMA CountIsNat ==
  ASSUME NEW t, Chained(t), NEW o \in Objects
  PROVE  Count(t, o) \in Nat
<1>1. \A i \in Slots(t) : t.refs[i] \in Nat
  BY DEF Chained, IsRefTable
<1>2. QED
  BY <1>1, CountFacts DEF Absent

\* The count of an object is that of its node, wherever the node is.
LEMMA SameCount ==
  ASSUME NEW t, Chained(t), NEW r, Chained(r), NEW o \in Objects,
         \A c \in Nat : Holds(r, o, c) <=> Holds(t, o, c)
  PROVE  Count(r, o) = Count(t, o)
<1>1. /\ \A i \in Slots(t) : t.refs[i] \in Nat
      /\ \A i \in Slots(r) : r.refs[i] \in Nat
  BY DEF Chained, IsRefTable
<1>2. CASE Absent(t, o)
  <2>1. Absent(r, o)
    BY <1>1, <1>2 DEF Absent, Holds
  <2>2. QED
    BY <1>2, <2>1, CountFacts
<1>3. CASE ~ Absent(t, o)
  <2>1. PICK i \in Slots(t) : t.obj[i] = o
    BY <1>3 DEF Absent
  <2>2. Count(t, o) = t.refs[i]
    BY <2>1, CountFacts
  <2>3. Holds(t, o, t.refs[i])
    BY <2>1 DEF Holds
  <2>4. Holds(r, o, t.refs[i])
    BY <1>1, <2>3
  <2>5. PICK j \in Slots(r) : r.obj[j] = o /\ r.refs[j] = t.refs[i]
    BY <2>4 DEF Holds
  <2>6. Count(r, o) = r.refs[j]
    BY <2>5, CountFacts
  <2>7. QED
    BY <2>2, <2>5, <2>6
<1>4. QED
  BY <1>2, <1>3

\* What Get returns: a table in which object o has node i, which alone may
\* count no handle yet.
HasNode(t, o, g, i) ==
  /\ Chained(g)
  /\ i = Find(g, o) /\ i \in InUse(g) /\ g.obj[i] = o
  /\ \A j \in Slots(g) : j # i => (g.refs[j] > 0 <=> j \in InUse(g))
  /\ \A x \in Objects : Count(g, x) = Count(t, x)

LEMMA AddHasNode ==
  ASSUME NEW t, Chained(t), CountsInUse(t), t.freelist # NULL,
         NEW o \in Objects, Absent(t, o),
         NEW g, g = Add(t, MainPos(t, o), o)
  PROVE  HasNode(t, o, g, Find(g, o))
<1> PICK a : a = t.freelist
  OBVIOUS
<1>1. /\ Chained(g)
      /\ g.size = t.size /\ g.refs = t.refs
      /\ g.obj = [t.obj EXCEPT ![a] = o]
      /\ InUse(g) = InUse(t) \union {a}
      /\ a \in Slots(t) \ InUse(t)
  BY AddChained
<1>2. Slots(g) = Slots(t)
  BY <1>1 DEF Slots
<1>3. /\ t.refs \in [Slots(t) -> Nat]
      /\ t.obj \in [Slots(t) -> Objects \union {NoObject}]
  BY DEF Chained, IsRefTable
<1>4. \A i \in Slots(t) : g.obj[i] = IF i = a THEN o ELSE t.obj[i]
  BY <1>1, <1>3
<1>5. t.refs[a] = 0 /\ t.obj[a] = NoObject
  BY <1>1, <1>3 DEF CountsInUse, InUse
<1>6. Find(g, o) = a /\ a \in InUse(g) /\ g.obj[a] = o
  <2>1. a \in Slots(g) /\ g.obj[a] = o /\ ~ Absent(g, o)
    BY <1>1, <1>2, <1>4 DEF Absent
  <2>2. QED
    BY <1>1, <2>1, FindFacts
<1>7. ASSUME NEW x \in Objects
      PROVE  Count(g, x) = Count(t, x)
  <2>1. CASE x = o
    <3>1. Count(t, o) = 0
      BY CountFacts
    <3>2. /\ Chained(g)
          /\ g.obj[a] = o /\ a \in Slots(g) /\ g.refs[a] = 0
      BY <1>1, <1>2, <1>4, <1>5
    <3>3. Count(g, o) = 0
      BY ONLY <3>2, o \in Objects, CountFacts
    <3>4. QED
      BY <2>1, <3>1, <3>3
  <2>2. CASE x # o
    <3>1. \A c \in Nat : Holds(g, x, c) <=> Holds(t, x, c)
      BY <1>1, <1>2, <1>4, <1>5, <2>2, ObjectsAssumption DEF Holds
    <3>2. QED
      BY <1>1, <3>1, SameCount
  <2>3. QED
    BY <2>1, <2>2
<1>8. \A j \in Slots(g) : j # a => (g.refs[j] > 0 <=> j \in InUse(g))
  BY <1>1, <1>2 DEF CountsInUse
<1>9. QED
  BY <1>1, <1>6, <1>7, <1>8 DEF HasNode

LEMMA CopiedCounts ==
  ASSUME NEW t, Chained(t), NEW r, Copied(t, r, t.size)
  PROVE  /\ Chained(r) /\ CountsInUse(r) /\ r.freelist # NULL
         /\ \A x \in Objects :
              Count(r, x) = Count(t, x) /\ (Absent(t, x) => Absent(r, x))
<1>1. PICK n \in Nat \ {0} : n = t.size
  BY DEF Chained, IsRefTable
<1>2. \A j \in Slots(t) : j < t.size
  BY <1>1 DEF Slots
<1>3. \A o \in Objects, c \in Nat : Holds(r, o, c) <=> Holds(t, o, c)
  BY <1>2 DEF Copied, Holds
<1>4. Chained(r) /\ CountsInUse(r)
  BY DEF Copied
<1>5. r.freelist # NULL
  <2>1. r.size = 2 * n /\ r.slotused <= n
    BY <1>1 DEF Copied
  <2>2. r.slotused # r.size
    <3>1. r.slotused \in Nat
      BY <1>4 DEF Chained, IsRefTable
    <3>2. QED
      BY <2>1, <3>1
  <2>3. QED
    BY <1>4, <2>2, NoneFree
<1>6. ASSUME NEW x \in Objects
      PROVE  /\ Count(r, x) = Count(t, x)
             /\ Absent(t, x) => Absent(r, x)
  <2>1. \A i \in Slots(r) : r.refs[i] \in Nat
    BY <1>4 DEF Chained, IsRefTable
  <2>2. Absent(t, x) => Absent(r, x)
    BY <1>3, <2>1 DEF Absent, Holds
  <2>3. QED
    BY <1>3, <1>4, <2>2, SameCount
<1>7. QED
  BY <1>4, <1>5, <1>6

LEMMA GetHasNode ==
  ASSUME NEW t, Chained(t), CountsInUse(t), NEW o \in Objects,
         NEW g, g = Get(t, o)
  PROVE  HasNode(t, o, g, Find(g, o))
<1>1. CASE Find(t, o) # NULL
  <2>1. g = t
    BY <1>1 DEF Get
  <2>2. Find(t, o) \in InUse(t) /\ t.obj[Find(t, o)] = o
    BY <1>1, FindFacts
  <2>3. QED
    BY <2>1, <2>2 DEF HasNode, CountsInUse
<1>2. CASE Find(t, o) = NULL
  <2>1. Absent(t, o)
    <3>1. NULL \notin InUse(t)
      BY ListFacts
    <3>2. QED
      BY <1>2, <3>1, FindFacts
  <2>2. CASE t.size = t.slotused
    <3> PICK u : u = Resize(t, 2 * t.size)
      OBVIOUS
    <3>1. g = Add(u, MainPos(u, o), o)
      BY <1>2, <2>2 DEF Get
    <3>2. Copied(t, u, t.size)
      BY ResizeCopies
    <3>3. /\ Chained(u) /\ CountsInUse(u) /\ u.freelist # NULL
          /\ Absent(u, o)
          /\ \A x \in Objects : Count(u, x) = Count(t, x)
      BY <2>1, <3>2, CopiedCounts
    <3>4. HasNode(u, o, g, Find(g, o))
      BY <3>1, <3>3, AddHasNode
    <3>5. QED
      BY <3>3, <3>4 DEF HasNode
  <2>3. CASE t.size # t.slotused
    <3>1. g = Add(t, MainPos(t, o), o)
      BY <1>2, <2>3 DEF Get
    <3>2. t.freelist # NULL
      BY <2>3, NoneFree
    <3>3. QED
      BY <2>1, <3>1, <3>2, AddHasNode
  <2>4. QED
    BY <2>2, <2>3
<1>3. QED
  BY <1>1, <1>2
----------------------------------------------------------------------------
(* The calls *)

\* Whole(t) is the inductive invariant, of any table.
Whole(t) == Chained(t) /\ CountsInUse(t)

\* A handle of an object whose node is i, the only one that may count none.
LEMMA CountUpWhole ==
  ASSUME NEW t, NEW o \in Objects, NEW g, NEW i, HasNode(t, o, g, i),
         NEW r, r = CountUp(g, o)
  PROVE  /\ Whole(r)
         /\ \A x \in Objects :
              Count(r, x) = IF x = o THEN Count(t, x) + 1 ELSE Count(t, x)
<1>1. /\ Chained(g) /\ i = Find(g, o) /\ i \in InUse(g) /\ g.obj[i] = o
      /\ \A j \in Slots(g) : j # i => (g.refs[j] > 0 <=> j \in InUse(g))
      /\ \A x \in Objects : Count(g, x) = Count(t, x)
  BY DEF HasNode
<1>2. i \in Slots(g) /\ g.refs \in [Slots(g) -> Nat]
  BY <1>1 DEF Chained, IsRefTable, InUse
<1>3. PICK f : f = [g.refs EXCEPT ![i] = @ + 1]
  OBVIOUS
<1>4. f \in [Slots(g) -> Nat]
  BY <1>2, <1>3
<1>5. r = [g EXCEPT !.refs = f]
  BY <1>1, <1>3 DEF CountUp
<1>6. /\ Chained(r) /\ r.size = g.size
      /\ r.refs = f /\ r.obj = g.obj
      /\ Slots(r) = Slots(g) /\ InUse(r) = InUse(g)
      /\ \A x : Find(r, x) = Find(g, x)
  <2>1. Chained(g)
    BY <1>1
  <2>2. QED
    BY ONLY <1>4, <1>5, <2>1, CountsFrame
<1>7. \A j \in Slots(g) : f[j] = IF j = i THEN g.refs[i] + 1 ELSE g.refs[j]
  BY <1>2, <1>3
<1>8. CountsInUse(r)
  BY <1>1, <1>2, <1>6, <1>7 DEF CountsInUse
<1>9. ASSUME NEW x \in Objects
      PROVE  Count(r, x) = IF x = o THEN Count(t, x) + 1 ELSE Count(t, x)
  <2>1. Find(r, x) = Find(g, x) /\ Count(g, x) = Count(t, x)
    BY <1>1, <1>6
  <2>2. i # NULL
    BY <1>1, ListFacts
  <2>3. CASE x = o
    BY <1>1, <1>2, <1>6, <1>7, <2>1, <2>2, <2>3 DEF Count
  <2>4. CASE x # o
    <3>1. CASE Find(g, x) = NULL
      BY <2>1, <2>4, <3>1 DEF Count
    <3>2. CASE Find(g, x) # NULL
      <4>1. NULL \notin InUse(g)
        BY <1>1, ListFacts
      <4>2. Find(g, x) \in InUse(g) /\ g.obj[Find(g, x)] = x
        BY <1>1, <3>2, FindFacts
      <4>3. Find(g, x) # i /\ Find(g, x) \in Slots(g)
        BY <1>1, <2>4, <4>2 DEF InUse
      <4>4. QED
        BY <1>6, <1>7, <2>1, <2>4, <3>2, <4>3 DEF Count
    <3>3. QED
      BY <3>1, <3>2
  <2>5. QED
    BY <2>3, <2>4
<1>10. QED
  BY <1>6, <1>8, <1>9 DEF Whole

\* A handle is given back, and with the last one the node.
OneLess(t, o) == [t EXCEPT !.refs[Find(t, o)] = @ - 1]

LEMMA ReleaseWhole ==
  ASSUME NEW t, Whole(t), NEW o \in Objects, Find(t, o) # NULL,
         NEW u, u = OneLess(t, o),
         NEW r, r = IF u.refs[Find(t, o)] = 0 THEN Unlink(u, o, Find(t, o))
                                              ELSE u
  PROVE  /\ Whole(r)
         /\ Count(t, o) > 0 /\ (u.refs[Find(t, o)] = 0 <=> Count(t, o) = 1)
         /\ \A x \in Objects :
              Count(r, x) = IF x = o THEN Count(t, x) - 1 ELSE Count(t, x)
<1> PICK i : i = Find(t, o)
  OBVIOUS
<1> DEFINE last == u.refs[i] = 0
<1>1. Chained(t) /\ CountsInUse(t)
  BY DEF Whole
<1>2. i \in InUse(t) /\ t.obj[i] = o /\ i \in Slots(t) /\ i # NULL
  BY <1>1, FindFacts DEF InUse
<1>3. t.refs \in [Slots(t) -> Nat] /\ t.refs[i] > 0 /\ Count(t, o) = t.refs[i]
  BY <1>1, <1>2, CountFacts DEF Chained, IsRefTable, CountsInUse
<1>4. PICK f : f = [t.refs EXCEPT ![i] = @ - 1]
  OBVIOUS
<1>5. f \in [Slots(t) -> Nat]
  BY <1>2, <1>3, <1>4
<1>6. u = [t EXCEPT !.refs = f]
  BY <1>4 DEF OneLess
<1>7. /\ Chained(u) /\ u.size = t.size
      /\ u.refs = f /\ u.obj = t.obj
      /\ Slots(u) = Slots(t) /\ InUse(u) = InUse(t)
      /\ \A x : Find(u, x) = Find(t, x)
  BY ONLY <1>1, <1>5, <1>6, CountsFrame
<1>8. \A j \in Slots(t) : f[j] = IF j = i THEN t.refs[i] - 1 ELSE t.refs[j]
  BY <1>2, <1>3, <1>4
<1>9. Count(t, o) > 0 /\ (last <=> Count(t, o) = 1)
  <2>1. f[i] = t.refs[i] - 1 /\ (last <=> f[i] = 0)
    BY <1>2, <1>7, <1>8
  <2>2. t.refs[i] \in Nat
    BY <1>2, <1>3
  <2>3. QED
    BY <1>3, <2>1, <2>2
<1>10. ASSUME NEW x \in Objects
       PROVE  Count(u, x) = IF x = o THEN Count(t, x) - 1 ELSE Count(t, x)
  <2>1. Find(u, x) = Find(t, x)
    BY <1>7
  <2>2. CASE x = o
    BY <1>2, <1>3, <1>7, <1>8, <2>1, <2>2 DEF Count
  <2>3. CASE x # o
    <3>1. CASE Find(t, x) = NULL
      BY <2>1, <2>3, <3>1 DEF Count
    <3>2. CASE Find(t, x) # NULL
      <4>1. Find(t, x) \in InUse(t) /\ t.obj[Find(t, x)] = x
        BY <1>1, <3>2, FindFacts
      <4>2. Find(t, x) # i /\ Find(t, x) \in Slots(t)
        BY <1>2, <2>3, <4>1 DEF InUse
      <4>3. QED
        BY <1>7, <1>8, <2>1, <2>3, <3>2, <4>2 DEF Count
    <3>3. QED
      BY <3>1, <3>2
  <2>4. QED
    BY <2>2, <2>3
<1>11. CASE ~ last
  <2>1. r = u
    BY <1>11
  <2>2. f[i] # 0 /\ f[i] \in Nat
    BY <1>2, <1>5, <1>7, <1>11
  <2>3. CountsInUse(u)
    BY <1>1, <1>2, <1>5, <1>7, <1>8, <2>2 DEF CountsInUse
  <2>4. QED
    BY <1>7, <1>9, <1>10, <2>1, <2>3 DEF Whole
<1>12. CASE last
  <2>1. f[i] = 0 /\ u.obj[i] = o /\ i \in InUse(u) /\ i \in Slots(u)
    BY <1>2, <1>7, <1>12
  <2>2. r = Unlink(u, u.obj[i], i)
    BY <1>12, <2>1
  <2>3. /\ Chained(r)
        /\ r.size = u.size /\ r.refs = u.refs
        /\ r.obj = [u.obj EXCEPT ![i] = NoObject]
        /\ InUse(r) = InUse(u) \ {i}
    <3>1. Chained(u) /\ i \in InUse(u)
      BY <1>7, <2>1
    <3>2. QED
      BY ONLY <2>2, <3>1, UnlinkChained
  <2>4. Slots(r) = Slots(t)
    BY <1>7, <2>3 DEF Slots
  <2>5. u.obj \in [Slots(t) -> Objects \union {NoObject}]
    BY <1>7 DEF Chained, IsRefTable
  <2>6. \A j \in Slots(t) : r.obj[j] = IF j = i THEN NoObject ELSE u.obj[j]
    BY <2>3, <2>5
  <2>7. CountsInUse(r)
    BY <1>1, <1>2, <1>7, <1>8, <2>1, <2>3, <2>4 DEF CountsInUse
  <2>8. ASSUME NEW x \in Objects
        PROVE  Count(r, x) = Count(u, x)
    <3>1. CASE x = o
      <4>1. \A j \in Slots(t) : t.obj[j] = o => j = i
        BY <1>1, <1>2, FindFacts DEF Absent
      <4>2. Absent(r, o)
        BY <1>7, <2>4, <2>6, <4>1, ObjectsAssumption DEF Absent
      <4>3. Count(r, o) = 0
        BY <2>3, <4>2, CountFacts
      <4>4. Count(u, o) = 0
        <5>1. Chained(u) /\ i \in Slots(u) /\ u.obj[i] = o /\ u.refs[i] = 0
          BY <1>7, <2>1
        <5>2. QED
          BY ONLY <5>1, o \in Objects, CountFacts
      <4>5. QED
        BY <3>1, <4>3, <4>4
    <3>2. CASE x # o
      <4>1. \A c \in Nat : Holds(r, x, c) <=> Holds(u, x, c)
        BY <1>7, <2>1, <2>3, <2>4, <2>6, <3>2, ObjectsAssumption DEF Holds
      <4>2. QED
        BY <1>7, <2>3, <4>1, SameCount
    <3>3. QED
      BY <3>1, <3>2
  <2>9. QED
    BY <1>9, <1>10, <2>3, <2>7, <2>8 DEF Whole
<1>13. QED
  BY <1>11, <1>12

\* The first block.
LEMMA InitWhole ==
  ASSUME NEW t, t = AllocNodes(4)
  PROVE  Whole(t) /\ \A x \in Objects : Count(t, x) = 0
<1>1. /\ Chained(t)
      /\ InUse(t) = {}
      /\ \A i \in Slots(t) : t.refs[i] = 0
  BY AllocChained
<1>2. CountsInUse(t)
  BY <1>1 DEF CountsInUse
<1>3. \A x \in Objects : Absent(t, x)
  BY <1>1, ObjectIsInUse DEF Absent
<1>4. QED
  BY <1>1, <1>2, <1>3, CountFacts DEF Whole
----------------------------------------------------------------------------
(* The table through any calls *)

LEMMA WholeIsWholeTable == WholeTable <=> Whole(rt)
BY DEF WholeTable, Whole, Chained

LEMMA InitSteps ==
  ASSUME Init
  PROVE  Whole(rt) /\ Bag!Init
<1>1. Whole(rt) /\ \A x \in Objects : Count(rt, x) = 0
  BY InitWhole DEF Init
<1>2. QED
  BY <1>1 DEF Init, Bag!Init

LEMMA AddRefSteps ==
  ASSUME Whole(rt), NEW o \in Objects, AddRef(o)
  PROVE  Whole(rt)' /\ Bag!AddRef(o)
<1>1. HasNode(rt, o, Get(rt, o), Find(Get(rt, o), o))
  BY GetHasNode DEF Whole
<1>2. rt' = CountUp(Get(rt, o), o) /\ answer' = NoAnswer
  BY DEF AddRef
<1>3. /\ Whole(rt')
      /\ \A x \in Objects :
           Count(rt', x) = IF x = o THEN Count(rt, x) + 1 ELSE Count(rt, x)
  BY <1>1, <1>2, CountUpWhole
<1>4. QED
  BY <1>2, <1>3 DEF Bag!AddRef

LEMMA GetRefCountSteps ==
  ASSUME Whole(rt), NEW o \in Objects, GetRefCount(o)
  PROVE  Whole(rt)' /\ Bag!GetRefCount(o)
<1>1. rt' = rt /\ answer' = <<"count", Count(rt, o)>>
  BY DEF GetRefCount
<1>2. Whole(rt)'
  BY <1>1 DEF Whole, Chained, IsRefTable, ListsApart, OneListEach, CountsInUse,
              Listed, InUse, Slots, MainPos
<1>3. [x \in Objects |-> Count(rt, x)]' = [x \in Objects |-> Count(rt, x)]
  BY <1>1
<1>4. QED
  BY <1>1, <1>2, <1>3 DEF Bag!GetRefCount

LEMMA ReleaseSteps ==
  ASSUME Whole(rt), NEW o \in Objects, Release(o)
  PROVE  Whole(rt)' /\ Bag!Release(o)
<1> PICK t, u, r, i : /\ t = rt /\ i = Find(t, o) /\ r = rt'
                      /\ u = OneLess(t, o)
  OBVIOUS
<1>1. /\ i # NULL
      /\ r = IF u.refs[i] = 0 THEN Unlink(u, o, i) ELSE u
      /\ answer' = <<"last", u.refs[i] = 0>>
  BY DEF Release, OneLess
<1>2. /\ Whole(r)
      /\ Count(t, o) > 0 /\ (u.refs[i] = 0 <=> Count(t, o) = 1)
      /\ \A x \in Objects :
           Count(r, x) = IF x = o THEN Count(t, x) - 1 ELSE Count(t, x)
  <2>1. Whole(t)
    OBVIOUS
  <2>2. QED
    BY ONLY <1>1, <2>1, o \in Objects, i = Find(t, o), u = OneLess(t, o),
            ReleaseWhole
<1>3. answer' = <<"last", Count(rt, o) = 1>>
  BY <1>1, <1>2
<1>4. QED
  BY <1>2, <1>3 DEF Bag!Release

LEMMA TableSteps ==
  ASSUME Whole(rt), [Next]_vars
  PROVE  Whole(rt)' /\ [Bag!Next]_<<[o \in Objects |-> Count(rt, o)], answer>>
<1>1. CASE Next
  <2>1. PICK o \in Objects : AddRef(o) \/ GetRefCount(o) \/ Release(o)
    BY <1>1 DEF Next
  <2>2. /\ Whole(rt)'
        /\ Bag!AddRef(o) \/ Bag!GetRefCount(o) \/ Bag!Release(o)
    BY <2>1, AddRefSteps, GetRefCountSteps, ReleaseSteps
  <2>3. QED
    BY <2>2 DEF Bag!Next
<1>2. CASE UNCHANGED vars
  BY <1>2 DEF vars
<1>3. QED
  BY <1>1, <1>2

\* Whatever handles are taken and given back, the lists of the table stay
\* apart and end, every node is in its list, and the counts say which nodes
\* are in use.
THEOREM WholeTableInvariant == Spec => []WholeTable
<1>1. Init => WholeTable
  BY InitSteps, WholeIsWholeTable
<1>2. WholeTable /\ [Next]_vars => WholeTable'
  <2>1. WholeTable' <=> Whole(rt)'
    BY DEF WholeTable, Whole, Chained
  <2>2. QED
    BY <2>1, TableSteps, WholeIsWholeTable
<1>3. QED
  BY <1>1, <1>2, PTL DEF Spec

\* Every node is in the free list or in the bucket of its object, for any
\* objects, hash function and order of the calls.
THEOREM EveryNodeInOneListInvariant == Spec => []EveryNodeInOneList
<1>1. WholeTable => EveryNodeInOneList
  <2>1. SUFFICES ASSUME Whole(rt) PROVE EveryNodeInOneList
    BY WholeIsWholeTable
  <2>2. rt.freelist = NULL <=> rt.slotused = rt.size
    BY <2>1, NoneFree DEF Whole
  <2>3. QED
    BY <2>1, <2>2 DEF EveryNodeInOneList, Whole, Chained
<1>2. QED
  BY <1>1, WholeTableInvariant, PTL

\* The table implements the bag of handles: every call does to the counts what
\* HandleBag says, and answers what it says.
THEOREM TableImplementsBag == Spec => ImplementsBag
<1>1. Init => Bag!Init
  BY InitSteps
<1>2. WholeTable /\ [Next]_vars =>
        [Bag!Next]_<<[o \in Objects |-> Count(rt, o)], answer>>
  BY TableSteps, WholeIsWholeTable
<1>3. QED
  BY <1>1, <1>2, WholeTableInvariant, PTL DEF Spec, ImplementsBag, Bag!Spec
============================================================================
