------------------------ MODULE SQStringTableProofs ------------------------
(***************************************************************************)
(* SQStringTable keeps one object per text, each in its bucket, for any    *)
(* texts, any hash function and any amount of memory.                      *)
(***************************************************************************)
EXTENDS SQStringTable, LinksProofs

LiveIn(tx) == {a \in Addresses : tx[a] # NoText}

\* The strings with contents tx, in chains by links nx from the first strings
\* heads of size buckets.
Linked(tx, heads, size, nx) ==
  /\ size \in Nat \ {0}
  /\ tx \in [Addresses -> Texts \union {NoText}]
  /\ heads \in [0 .. size - 1 -> Addresses \union {NULL}]
  /\ nx \in [Addresses -> Addresses \union {NULL}]
  /\ Acyclic(nx, MaxStrings) /\ SingleFile(nx, MaxStrings)
  /\ \A h \in 0 .. size - 1 :
       /\ heads[h] = NULL \/ NoLinkTo(nx, MaxStrings, heads[h])
       /\ Walk(nx, MaxStrings, heads[h]) =
            {a \in LiveIn(tx) : Bucket(tx[a], size) = h}
  /\ \A a \in Addresses : tx[a] = NoText => nx[a] = NULL

LEMMA BucketInRange ==
  ASSUME NEW c \in Texts, NEW size \in Nat \ {0}
  PROVE  Bucket(c, size) \in 0 .. size - 1
<1>1. HashStr[c] \in Nat
  BY TextsAssumption
<1>2. PICK x \in Nat : x = HashStr[c]
  BY <1>1
<1>3. x % size \in 0 .. size - 1
  OBVIOUS
<1>4. QED
  BY <1>2, <1>3 DEF Bucket

LEMMA LiveText ==
  ASSUME NEW tx \in [Addresses -> Texts \union {NoText}], NEW a \in LiveIn(tx)
  PROVE  a \in Addresses /\ tx[a] \in Texts
BY DEF LiveIn

LEMMA LinkedIsLinks ==
  ASSUME NEW tx, NEW heads, NEW size, NEW nx, Linked(tx, heads, size, nx)
  PROVE  IsLinks(nx, MaxStrings)
BY RoomAssumption DEF Linked, IsLinks, Addresses

\* An address is no null pointer.
LEMMA AddressNotNull ==
  ASSUME NEW a \in Addresses
  PROVE  a # NULL
BY RoomAssumption DEF Addresses, NULL

\* Nothing leads to memory where no string lives.
LEMMA FreeIsAlone ==
  ASSUME NEW tx, NEW heads, NEW size, NEW nx, Linked(tx, heads, size, nx),
         NEW a \in Addresses, tx[a] = NoText
  PROVE  /\ NoLinkTo(nx, MaxStrings, a)
         /\ \A h \in 0 .. size - 1 : heads[h] # a
<1>1. IsLinks(nx, MaxStrings)
  BY LinkedIsLinks
<1>2. ASSUME NEW h \in 0 .. size - 1
      PROVE  a \notin Walk(nx, MaxStrings, heads[h])
  BY DEF Linked, LiveIn
<1>3. ASSUME NEW h \in 0 .. size - 1, heads[h] = a
      PROVE  FALSE
  BY <1>1, <1>2, <1>3, StartInWalk DEF Addresses
<1>4. ASSUME NEW b \in Addresses, nx[b] = a
      PROVE  FALSE
  <2>1. tx[b] \in Texts /\ b \in LiveIn(tx)
    BY <1>4, AddressNotNull DEF Linked, LiveIn
  <2>2. PICK h \in 0 .. size - 1 : h = Bucket(tx[b], size)
    BY <2>1, BucketInRange DEF Linked
  <2>3. b \in Walk(nx, MaxStrings, heads[h])
    BY <2>1, <2>2 DEF Linked
  <2>4. heads[h] \in 0 .. MaxStrings - 1 \union {NULL}
    BY DEF Linked, Addresses
  <2>5. a \in Walk(nx, MaxStrings, heads[h])
    BY <1>1, <1>4, <2>3, <2>4, AddressNotNull, WalkGoesOn
  <2>6. QED
    BY <1>2, <2>5
<1>5. QED
  BY <1>3, <1>4 DEF NoLinkTo, Addresses

\* Two buckets do not share their first string.
LEMMA HeadsApart ==
  ASSUME NEW tx, NEW heads, NEW size, NEW nx, Linked(tx, heads, size, nx),
         NEW h \in 0 .. size - 1, NEW k \in 0 .. size - 1,
         heads[h] = heads[k], heads[h] # NULL
  PROVE  h = k
<1>1. heads[h] \in 0 .. MaxStrings - 1
  BY DEF Linked, Addresses
<1>2. heads[h] \in Walk(nx, MaxStrings, heads[h])
  BY <1>1, LinkedIsLinks, StartInWalk
<1>3. /\ Bucket(tx[heads[h]], size) = h
      /\ Bucket(tx[heads[h]], size) = k
  BY <1>2 DEF Linked
<1>4. QED
  BY <1>3

\* A new string goes to the head of its bucket.
LEMMA LinkNew ==
  ASSUME NEW tx, NEW heads, NEW size, NEW nx, Linked(tx, heads, size, nx),
         NEW a \in Addresses, tx[a] = NoText, NEW c \in Texts,
         NEW h, h = Bucket(c, size)
  PROVE  Linked([tx EXCEPT ![a] = c], [heads EXCEPT ![h] = a], size,
                [nx EXCEPT ![a] = heads[h]])
<1> PICK ty, hd, ny, g : /\ ty = [tx EXCEPT ![a] = c]
                         /\ hd = [heads EXCEPT ![h] = a]
                         /\ ny = [nx EXCEPT ![a] = heads[h]]
                         /\ g = heads[h]
  OBVIOUS
<1>1. /\ size \in Nat \ {0}
      /\ tx \in [Addresses -> Texts \union {NoText}]
      /\ heads \in [0 .. size - 1 -> Addresses \union {NULL}]
      /\ nx \in [Addresses -> Addresses \union {NULL}]
      /\ Acyclic(nx, MaxStrings) /\ SingleFile(nx, MaxStrings)
  BY DEF Linked
<1>2. h \in 0 .. size - 1
  BY <1>1, BucketInRange
<1>3. g \in Addresses \union {NULL} /\ g # a
      /\ (g = NULL \/ NoLinkTo(nx, MaxStrings, g))
  <2>1. g \in Addresses \union {NULL}
        /\ (g = NULL \/ NoLinkTo(nx, MaxStrings, g))
    BY <1>1, <1>2 DEF Linked
  <2>2. \A k \in 0 .. size - 1 : heads[k] # a
    BY FreeIsAlone
  <2>3. QED
    BY <1>2, <2>1, <2>2
<1>4. NoLinkTo(nx, MaxStrings, a)
  BY FreeIsAlone
<1>5. /\ Walk(ny, MaxStrings, a) = {a} \union Walk(nx, MaxStrings, g)
      /\ \A i \in Addresses \union {NULL} :
           i # a => Walk(ny, MaxStrings, i) = Walk(nx, MaxStrings, i)
      /\ Acyclic(ny, MaxStrings) /\ SingleFile(ny, MaxStrings)
      /\ \A x : NoLinkTo(nx, MaxStrings, x) /\ x # g =>
                NoLinkTo(ny, MaxStrings, x)
  <2>1. /\ IsLinks(nx, MaxStrings) /\ a \in 0 .. MaxStrings - 1
        /\ g \in 0 .. MaxStrings - 1 \union {NULL}
        /\ ny = [nx EXCEPT ![a] = g]
    BY <1>3, LinkedIsLinks DEF Addresses
  <2>2. PopPushed(nx, MaxStrings, a, g, ny)
    BY <1>3, <1>4, <2>1, PopPush
  <2>3. QED
    BY <1>1, <1>3, <2>2 DEF PopPushed, Addresses
<1>6. /\ ty \in [Addresses -> Texts \union {NoText}]
      /\ hd \in [0 .. size - 1 -> Addresses \union {NULL}]
      /\ ny \in [Addresses -> Addresses \union {NULL}]
  BY <1>1, <1>2, <1>3
<1>7. /\ \A b \in Addresses : ty[b] = IF b = a THEN c ELSE tx[b]
      /\ \A b \in Addresses : ny[b] = IF b = a THEN g ELSE nx[b]
      /\ \A k \in 0 .. size - 1 : hd[k] = IF k = h THEN a ELSE heads[k]
  BY <1>1, <1>2
<1>8. LiveIn(ty) = LiveIn(tx) \union {a} /\ a \notin LiveIn(tx)
  BY <1>7, TextsAssumption DEF LiveIn
<1>9. ASSUME NEW k \in 0 .. size - 1
      PROVE  /\ hd[k] = NULL \/ NoLinkTo(ny, MaxStrings, hd[k])
             /\ Walk(ny, MaxStrings, hd[k]) =
                  {b \in LiveIn(ty) : Bucket(ty[b], size) = k}
  <2>1. Walk(nx, MaxStrings, heads[k]) =
          {b \in LiveIn(tx) : Bucket(tx[b], size) = k}
    BY DEF Linked
  <2>2. \A b \in LiveIn(tx) : b \in Addresses /\ b # a /\ ty[b] = tx[b]
    BY <1>7, <1>8 DEF LiveIn
  <2>3. ty[a] = c
    BY <1>7
  <2>4. CASE k = h
    <3>1. hd[k] = a /\ Walk(ny, MaxStrings, hd[k]) =
                         {a} \union Walk(nx, MaxStrings, heads[k])
      BY <1>5, <1>7, <2>4
    <3>2. NoLinkTo(ny, MaxStrings, a)
      BY <1>3, <1>4, <1>5
    <3>3. Walk(ny, MaxStrings, hd[k]) =
            {a} \union {b \in LiveIn(tx) : Bucket(tx[b], size) = k}
      BY <2>1, <3>1
    <3>4. Bucket(ty[a], size) = k
      BY <2>3, <2>4
    <3>5. Walk(ny, MaxStrings, hd[k]) =
            {b \in LiveIn(ty) : Bucket(ty[b], size) = k}
      BY <1>8, <2>2, <3>3, <3>4
    <3>6. QED
      BY <3>1, <3>2, <3>5
  <2>5. CASE k # h
    <3>1. hd[k] = heads[k] /\ heads[k] # a
          /\ heads[k] \in Addresses \union {NULL}
          /\ (heads[k] = NULL \/ NoLinkTo(nx, MaxStrings, heads[k]))
      <4>1. heads[k] # a
        BY FreeIsAlone
      <4>2. QED
        BY <1>1, <1>7, <2>5, <4>1 DEF Linked
    <3>2. heads[k] = NULL \/ heads[k] # g
      BY <1>2, <2>5, HeadsApart
    <3>3. Walk(ny, MaxStrings, hd[k]) = Walk(nx, MaxStrings, heads[k])
      BY <1>5, <3>1
    <3>4. hd[k] = NULL \/ NoLinkTo(ny, MaxStrings, hd[k])
      BY <1>5, <3>1, <3>2
    <3>5. QED
      BY <1>8, <2>1, <2>2, <2>3, <2>5, <3>3, <3>4
  <2>6. QED
    BY <2>4, <2>5
<1>10. \A b \in Addresses : ty[b] = NoText => ny[b] = NULL
  BY <1>7, TextsAssumption DEF Linked
<1>11. Linked(ty, hd, size, ny)
  BY <1>1, <1>5, <1>6, <1>9, <1>10 DEF Linked
<1>12. QED
  BY <1>11
----------------------------------------------------------------------------
(* Growth *)

\* The strings moved when i buckets were taken up and p is the first string
\* left of the last one.
Taken(tx, n, nx, i, p) ==
  {a \in LiveIn(tx) : Bucket(tx[a], n) < i} \ Walk(nx, MaxStrings, p)

\* The loops of Resize: old are the first strings of n buckets, heads those of
\* size buckets in the new array.  Every string is in a chain of the new array,
\* in what is left of the last bucket taken up, or in a later old one.
Midway(tx, old, n, size, heads, nx, i, p) ==
  /\ n \in Nat \ {0} /\ size \in Nat \ {0} /\ i \in 0 .. n
  /\ tx \in [Addresses -> Texts \union {NoText}]
  /\ old \in [0 .. n - 1 -> Addresses \union {NULL}]
  /\ heads \in [0 .. size - 1 -> Addresses \union {NULL}]
  /\ nx \in [Addresses -> Addresses \union {NULL}]
  /\ p \in Addresses \union {NULL}
  /\ Acyclic(nx, MaxStrings) /\ SingleFile(nx, MaxStrings)
  /\ p = NULL \/ NoLinkTo(nx, MaxStrings, p)
  /\ \A a \in Walk(nx, MaxStrings, p) :
       a \in LiveIn(tx) /\ Bucket(tx[a], n) = i - 1
  /\ \A k \in i .. n - 1 :
       /\ old[k] = NULL \/ NoLinkTo(nx, MaxStrings, old[k])
       /\ Walk(nx, MaxStrings, old[k]) =
            {a \in LiveIn(tx) : Bucket(tx[a], n) = k}
  /\ \A h \in 0 .. size - 1 :
       /\ heads[h] = NULL \/ NoLinkTo(nx, MaxStrings, heads[h])
       /\ Walk(nx, MaxStrings, heads[h]) =
            {a \in Taken(tx, n, nx, i, p) : Bucket(tx[a], size) = h}
  /\ \A a \in Addresses : tx[a] = NoText => nx[a] = NULL

LEMMA MidwayIsLinks ==
  ASSUME NEW tx, NEW old, NEW n, NEW size, NEW heads, NEW nx, NEW i, NEW p,
         Midway(tx, old, n, size, heads, nx, i, p)
  PROVE  IsLinks(nx, MaxStrings)
BY RoomAssumption DEF Midway, IsLinks, Addresses

\* The string that moves next is in what is left of its bucket only.
LEMMA NextToMove ==
  ASSUME NEW tx, NEW old, NEW n, NEW size, NEW heads, NEW nx, NEW i, NEW p,
         Midway(tx, old, n, size, heads, nx, i, p), p # NULL
  PROVE  /\ p \in Walk(nx, MaxStrings, p) /\ p \in LiveIn(tx)
         /\ p \in Addresses /\ tx[p] \in Texts
         /\ Bucket(tx[p], n) = i - 1 /\ i - 1 \in 0 .. n - 1
         /\ p \notin Taken(tx, n, nx, i, p)
         /\ NoLinkTo(nx, MaxStrings, p)
         /\ Bucket(tx[p], size) \in 0 .. size - 1
         /\ \A h \in 0 .. size - 1 : heads[h] # p
         /\ \A k \in i .. n - 1 : old[k] # p
<1>1. p \in Addresses /\ NoLinkTo(nx, MaxStrings, p)
  BY DEF Midway
<1>2. p \in Walk(nx, MaxStrings, p)
  BY <1>1, MidwayIsLinks, StartInWalk DEF Addresses
<1>3. p \in LiveIn(tx) /\ Bucket(tx[p], n) = i - 1
  BY <1>2 DEF Midway
<1>4. tx[p] \in Texts
  BY <1>3, LiveText DEF Midway
<1>5. i - 1 \in 0 .. n - 1 /\ Bucket(tx[p], size) \in 0 .. size - 1
  <2>1. n \in Nat \ {0} /\ size \in Nat \ {0}
    BY DEF Midway
  <2>2. Bucket(tx[p], n) \in 0 .. n - 1 /\ Bucket(tx[p], size) \in 0 .. size - 1
    BY <1>4, <2>1, BucketInRange
  <2>3. QED
    BY <1>3, <2>2
<1>6. p \notin Taken(tx, n, nx, i, p)
  BY <1>2 DEF Taken
<1>7. ASSUME NEW h \in 0 .. size - 1, heads[h] = p
      PROVE  FALSE
  BY <1>2, <1>6, <1>7 DEF Midway
<1>8. ASSUME NEW k \in i .. n - 1, old[k] = p
      PROVE  FALSE
  <2>1. Bucket(tx[p], n) = k
    BY <1>2, <1>8 DEF Midway
  <2>2. i \in Nat
    BY DEF Midway
  <2>3. QED
    BY <1>3, <2>1, <2>2
<1>9. QED
  BY <1>1, <1>2, <1>3, <1>4, <1>5, <1>6, <1>7, <1>8

\* The first strings of different chains differ.
LEMMA FirstsApart ==
  ASSUME NEW tx, NEW old, NEW n, NEW size, NEW heads, NEW nx, NEW i, NEW p,
         Midway(tx, old, n, size, heads, nx, i, p),
         NEW h \in 0 .. size - 1, heads[h] # NULL
  PROVE  /\ \A k \in 0 .. size - 1 : heads[k] = heads[h] => k = h
         /\ \A k \in i .. n - 1 : old[k] # heads[h]
<1>1. heads[h] \in Addresses
  BY DEF Midway
<1>2. heads[h] \in Walk(nx, MaxStrings, heads[h])
  BY <1>1, MidwayIsLinks, StartInWalk DEF Addresses
<1>3. /\ heads[h] \in Taken(tx, n, nx, i, p)
      /\ Bucket(tx[heads[h]], size) = h
  BY <1>2 DEF Midway
<1>4. ASSUME NEW k \in 0 .. size - 1, heads[k] = heads[h]
      PROVE  k = h
  <2>1. Bucket(tx[heads[h]], size) = k
    BY <1>2, <1>4 DEF Midway
  <2>2. QED
    BY <1>3, <2>1
<1>5. ASSUME NEW k \in i .. n - 1, old[k] = heads[h]
      PROVE  FALSE
  <2>1. Bucket(tx[heads[h]], n) = k
    BY <1>2, <1>5 DEF Midway
  <2>2. Bucket(tx[heads[h]], n) < i /\ i \in Nat
    BY <1>3 DEF Taken, Midway
  <2>3. QED
    BY <2>1, <2>2
<1>6. QED
  BY <1>4, <1>5
\* The first string left of a bucket goes to the head of its new one.
LEMMA MoveTurn ==
  ASSUME NEW tx, NEW old, NEW n, NEW size, NEW heads, NEW nx, NEW i, NEW p,
         Midway(tx, old, n, size, heads, nx, i, p), p # NULL,
         NEW h, h = Bucket(tx[p], size),
         NEW hd, hd = [heads EXCEPT ![h] = p],
         NEW ny, ny = [nx EXCEPT ![p] = heads[h]]
  PROVE  /\ Midway(tx, old, n, size, hd, ny, i, nx[p])
         /\ Taken(tx, n, ny, i, nx[p]) = Taken(tx, n, nx, i, p) \union {p}
         /\ p \notin Taken(tx, n, nx, i, p)
<1> PICK g, T : g = heads[h] /\ T = Taken(tx, n, nx, i, p)
  OBVIOUS
<1>1. /\ n \in Nat \ {0} /\ size \in Nat \ {0} /\ i \in 0 .. n
      /\ tx \in [Addresses -> Texts \union {NoText}]
      /\ old \in [0 .. n - 1 -> Addresses \union {NULL}]
      /\ heads \in [0 .. size - 1 -> Addresses \union {NULL}]
      /\ nx \in [Addresses -> Addresses \union {NULL}]
      /\ Acyclic(nx, MaxStrings) /\ SingleFile(nx, MaxStrings)
  BY DEF Midway
<1>2. /\ p \in Walk(nx, MaxStrings, p) /\ p \in LiveIn(tx)
      /\ p \in Addresses /\ tx[p] \in Texts
      /\ Bucket(tx[p], n) = i - 1 /\ i - 1 \in 0 .. n - 1
      /\ p \notin T
      /\ NoLinkTo(nx, MaxStrings, p)
      /\ h \in 0 .. size - 1
      /\ \A k \in 0 .. size - 1 : heads[k] # p
      /\ \A k \in i .. n - 1 : old[k] # p
  BY NextToMove
<1>3. g \in Addresses \union {NULL} /\ g # p
      /\ (g = NULL \/ NoLinkTo(nx, MaxStrings, g))
  <2>1. g \in Addresses \union {NULL}
        /\ (g = NULL \/ NoLinkTo(nx, MaxStrings, g))
    BY <1>1, <1>2 DEF Midway
  <2>2. QED
    BY <1>2, <2>1
<1>4. /\ Walk(ny, MaxStrings, nx[p]) = Walk(nx, MaxStrings, p) \ {p}
      /\ Walk(ny, MaxStrings, p) = {p} \union Walk(nx, MaxStrings, g)
      /\ \A x \in Addresses \union {NULL} :
           x # p => Walk(ny, MaxStrings, x) = Walk(nx, MaxStrings, x)
      /\ Acyclic(ny, MaxStrings) /\ SingleFile(ny, MaxStrings)
      /\ nx[p] = NULL \/ NoLinkTo(ny, MaxStrings, nx[p])
      /\ \A x : NoLinkTo(nx, MaxStrings, x) /\ x # g =>
                NoLinkTo(ny, MaxStrings, x)
  <2>1. /\ IsLinks(nx, MaxStrings) /\ p \in 0 .. MaxStrings - 1
        /\ g \in 0 .. MaxStrings - 1 \union {NULL}
        /\ ny = [nx EXCEPT ![p] = g]
    BY <1>2, <1>3, MidwayIsLinks DEF Addresses
  <2>2. PopPushed(nx, MaxStrings, p, g, ny)
    BY <1>2, <1>3, <2>1, PopPush
  <2>3. QED
    BY <1>1, <1>3, <2>2 DEF PopPushed, Addresses
<1>5. /\ hd \in [0 .. size - 1 -> Addresses \union {NULL}]
      /\ ny \in [Addresses -> Addresses \union {NULL}]
      /\ nx[p] \in Addresses \union {NULL}
      /\ \A b \in Addresses : ny[b] = IF b = p THEN g ELSE nx[b]
      /\ \A k \in 0 .. size - 1 : hd[k] = IF k = h THEN p ELSE heads[k]
  BY <1>1, <1>2, <1>3
<1>6. Taken(tx, n, ny, i, nx[p]) = T \union {p}
  <2>1. Bucket(tx[p], n) < i
    BY <1>1, <1>2
  <2>2. QED
    BY <1>2, <1>4, <2>1 DEF Taken
<1>7. ASSUME NEW k \in 0 .. size - 1
      PROVE  /\ hd[k] = NULL \/ NoLinkTo(ny, MaxStrings, hd[k])
             /\ Walk(ny, MaxStrings, hd[k]) =
                  {b \in T \union {p} : Bucket(tx[b], size) = k}
  <2>1. Walk(nx, MaxStrings, heads[k]) =
          {b \in T : Bucket(tx[b], size) = k}
    BY DEF Midway
  <2>2. CASE k = h
    <3>1. hd[k] = p /\ Walk(ny, MaxStrings, hd[k]) =
                         {p} \union Walk(nx, MaxStrings, heads[k])
      BY <1>4, <1>5, <2>2
    <3>2. NoLinkTo(ny, MaxStrings, p)
      BY <1>2, <1>3, <1>4
    <3>3. Bucket(tx[p], size) = k
      BY <2>2
    <3>4. QED
      BY <2>1, <3>1, <3>2, <3>3
  <2>3. CASE k # h
    <3>1. hd[k] = heads[k] /\ heads[k] # p
          /\ heads[k] \in Addresses \union {NULL}
          /\ (heads[k] = NULL \/ NoLinkTo(nx, MaxStrings, heads[k]))
      <4>1. heads[k] # p
        BY <1>2
      <4>2. QED
        BY <1>1, <1>5, <2>3, <4>1 DEF Midway
    <3>2. heads[k] = NULL \/ heads[k] # g
      BY <1>2, <2>3, FirstsApart
    <3>3. Walk(ny, MaxStrings, hd[k]) = Walk(nx, MaxStrings, heads[k])
      BY <1>4, <3>1
    <3>4. hd[k] = NULL \/ NoLinkTo(ny, MaxStrings, hd[k])
      BY <1>4, <3>1, <3>2
    <3>5. Bucket(tx[p], size) # k
      BY <2>3
    <3>6. QED
      BY <2>1, <3>3, <3>4, <3>5
  <2>4. QED
    BY <2>2, <2>3
<1>8. ASSUME NEW k \in i .. n - 1
      PROVE  /\ old[k] = NULL \/ NoLinkTo(ny, MaxStrings, old[k])
             /\ Walk(ny, MaxStrings, old[k]) =
                  {a \in LiveIn(tx) : Bucket(tx[a], n) = k}
  <2>1. k \in 0 .. n - 1
    BY <1>1
  <2>2. /\ old[k] \in Addresses \union {NULL} /\ old[k] # p
        /\ old[k] = NULL \/ NoLinkTo(nx, MaxStrings, old[k])
        /\ Walk(nx, MaxStrings, old[k]) =
             {a \in LiveIn(tx) : Bucket(tx[a], n) = k}
    <3>1. old[k] # p
      BY <1>2
    <3>2. QED
      BY <1>1, <2>1, <3>1 DEF Midway
  <2>3. old[k] = NULL \/ old[k] # g
    BY <1>2, FirstsApart
  <2>4. QED
    BY <1>4, <2>2, <2>3
<1>9. \A a \in Walk(ny, MaxStrings, nx[p]) :
        a \in LiveIn(tx) /\ Bucket(tx[a], n) = i - 1
  BY <1>4 DEF Midway
<1>10. \A a \in Addresses : tx[a] = NoText => ny[a] = NULL
  BY <1>2, <1>5, TextsAssumption DEF Midway
<1>11. Midway(tx, old, n, size, hd, ny, i, nx[p])
  BY <1>1, <1>4, <1>5, <1>6, <1>7, <1>8, <1>9, <1>10 DEF Midway
<1>12. QED
  BY <1>2, <1>6, <1>11

\* The next bucket is taken up.
LEMMA TakeTurn ==
  ASSUME NEW tx, NEW old, NEW n, NEW size, NEW heads, NEW nx, NEW i,
         Midway(tx, old, n, size, heads, nx, i, NULL), i < n
  PROVE  /\ Midway(tx, old, n, size, heads, nx, i + 1, old[i])
         /\ Taken(tx, n, nx, i + 1, old[i]) = Taken(tx, n, nx, i, NULL)
<1>1. /\ n \in Nat \ {0} /\ size \in Nat \ {0} /\ i \in 0 .. n
      /\ tx \in [Addresses -> Texts \union {NoText}]
      /\ old \in [0 .. n - 1 -> Addresses \union {NULL}]
      /\ heads \in [0 .. size - 1 -> Addresses \union {NULL}]
      /\ nx \in [Addresses -> Addresses \union {NULL}]
      /\ Acyclic(nx, MaxStrings) /\ SingleFile(nx, MaxStrings)
  BY DEF Midway
<1>2. /\ i \in i .. n - 1 /\ i \in 0 .. n - 1
      /\ i + 1 \in 0 .. n /\ (i + 1) - 1 = i
      /\ \A k \in i + 1 .. n - 1 : k \in i .. n - 1
  BY <1>1
<1>3. Walk(nx, MaxStrings, old[i]) =
        {a \in LiveIn(tx) : Bucket(tx[a], n) = i}
  BY <1>2 DEF Midway
<1>4. /\ old[i] \in Addresses \union {NULL}
      /\ old[i] = NULL \/ NoLinkTo(nx, MaxStrings, old[i])
  BY <1>1, <1>2 DEF Midway
<1>5. Walk(nx, MaxStrings, NULL) = {}
  BY MidwayIsLinks, WalkOfNull
<1>6. Taken(tx, n, nx, i + 1, old[i]) = Taken(tx, n, nx, i, NULL)
  <2>1. \A a \in LiveIn(tx) : Bucket(tx[a], n) \in 0 .. n - 1
    BY <1>1, LiveText, BucketInRange
  <2>2. \A b \in 0 .. n - 1 : b < i + 1 /\ b # i <=> b < i
    BY <1>1
  <2>3. QED
    BY <1>3, <1>5, <2>1, <2>2 DEF Taken
<1>7. \A a \in Walk(nx, MaxStrings, old[i]) :
        a \in LiveIn(tx) /\ Bucket(tx[a], n) = (i + 1) - 1
  BY <1>2, <1>3
<1>8. \A k \in i + 1 .. n - 1 :
        /\ old[k] = NULL \/ NoLinkTo(nx, MaxStrings, old[k])
        /\ Walk(nx, MaxStrings, old[k]) =
             {a \in LiveIn(tx) : Bucket(tx[a], n) = k}
  BY <1>2 DEF Midway
<1>9. \A h \in 0 .. size - 1 :
        /\ heads[h] = NULL \/ NoLinkTo(nx, MaxStrings, heads[h])
        /\ Walk(nx, MaxStrings, heads[h]) =
             {a \in Taken(tx, n, nx, i + 1, old[i]) : Bucket(tx[a], size) = h}
  BY <1>6 DEF Midway
<1>10. \A a \in Addresses : tx[a] = NoText => nx[a] = NULL
  BY DEF Midway
<1>11. Midway(tx, old, n, size, heads, nx, i + 1, old[i])
  BY <1>1, <1>2, <1>4, <1>7, <1>8, <1>9, <1>10 DEF Midway
<1>12. QED
  BY <1>6, <1>11
\* Before the loops.
LEMMA NothingMoved ==
  ASSUME NEW tx, NEW old, NEW n, NEW nx, Linked(tx, old, n, nx),
         NEW size \in Nat \ {0},
         NEW heads, heads = [h \in 0 .. size - 1 |-> NULL]
  PROVE  Midway(tx, old, n, size, heads, nx, 0, NULL)
<1>1. n \in Nat \ {0} /\ 0 \in 0 .. n
  BY DEF Linked
<1>2. Walk(nx, MaxStrings, NULL) = {}
  BY LinkedIsLinks, WalkOfNull
<1>3. Taken(tx, n, nx, 0, NULL) = {}
  <2>1. ASSUME NEW a \in LiveIn(tx), Bucket(tx[a], n) < 0
        PROVE  FALSE
    <3>1. Bucket(tx[a], n) \in 0 .. n - 1
      BY <1>1, LiveText, BucketInRange DEF Linked
    <3>2. QED
      BY <2>1, <3>1
  <2>2. QED
    BY <2>1 DEF Taken
<1>4. heads \in [0 .. size - 1 -> Addresses \union {NULL}]
  OBVIOUS
<1>5. \A h \in 0 .. size - 1 : heads[h] = NULL
  OBVIOUS
<1>6. QED
  BY <1>1, <1>2, <1>3, <1>4, <1>5 DEF Linked, Midway

\* After them.
LEMMA AllMoved ==
  ASSUME NEW tx, NEW old, NEW n, NEW size, NEW heads, NEW nx,
         Midway(tx, old, n, size, heads, nx, n, NULL)
  PROVE  Linked(tx, heads, size, nx)
<1>1. Walk(nx, MaxStrings, NULL) = {}
  BY MidwayIsLinks, WalkOfNull
<1>2. Taken(tx, n, nx, n, NULL) = LiveIn(tx)
  <2>1. ASSUME NEW a \in LiveIn(tx)
        PROVE  Bucket(tx[a], n) < n
    <3>1. n \in Nat \ {0}
      BY DEF Midway
    <3>2. Bucket(tx[a], n) \in 0 .. n - 1
      BY <3>1, LiveText, BucketInRange DEF Midway
    <3>3. QED
      BY <3>1, <3>2
  <2>2. QED
    BY <1>1, <2>1 DEF Taken
<1>3. QED
  BY <1>2 DEF Linked, Midway

\* The state s of the loops after m turns: they are done, or each turn took up
\* a bucket or moved a string.
AfterTurns(tx, old, n, size, m, s) ==
  /\ DOMAIN s = {"heads", "next", "i", "p"}
  /\ Midway(tx, old, n, size, s.heads, s.next, s.i, s.p)
  /\ \/ m <= s.i + Cardinality(Taken(tx, n, s.next, s.i, s.p))
     \/ s.i = n /\ s.p = NULL

LEMMA TakenAreFinite ==
  ASSUME NEW tx, NEW n, NEW nx, NEW i, NEW p
  PROVE  /\ IsFiniteSet(Taken(tx, n, nx, i, p))
         /\ Taken(tx, n, nx, i, p) \subseteq Addresses
         /\ Cardinality(Taken(tx, n, nx, i, p)) \in 0 .. MaxStrings
         /\ Cardinality(Taken(tx, n, nx, i, p)) = MaxStrings =>
              Taken(tx, n, nx, i, p) = Addresses
<1> PICK T : T = Taken(tx, n, nx, i, p)
  OBVIOUS
<1>1. T \subseteq Addresses
  BY DEF Taken, LiveIn
<1>2. IsFiniteSet(Addresses) /\ Cardinality(Addresses) = MaxStrings
  <2>1. PICK l \in Nat \ {0} : l = MaxStrings
    BY RoomAssumption
  <2>2. 0 \in Int /\ l - 1 \in Int /\ ~ (0 > l - 1) /\ (l - 1) - 0 + 1 = l
    OBVIOUS
  <2>3. QED
    BY <2>1, <2>2, FS_Interval DEF Addresses
<1>3. /\ IsFiniteSet(T) /\ Cardinality(T) <= MaxStrings
      /\ Cardinality(T) = MaxStrings => T = Addresses
  BY <1>1, <1>2, FS_Subset
<1>4. Cardinality(T) \in Nat
  BY <1>3, FS_CardinalityType
<1>5. QED
  BY <1>1, <1>3, <1>4, RoomAssumption

LEMMA TurnKeeps ==
  ASSUME NEW tx, NEW old, NEW n, NEW size, NEW m \in Nat, NEW s,
         AfterTurns(tx, old, n, size, m, s),
         NEW r, r = Turn(tx, old, n, size, s)
  PROVE  AfterTurns(tx, old, n, size, m + 1, r)
<1> PICK hd, nx, i, p :
      hd = s.heads /\ nx = s.next /\ i = s.i /\ p = s.p
  OBVIOUS
<1>1. /\ DOMAIN s = {"heads", "next", "i", "p"}
      /\ Midway(tx, old, n, size, hd, nx, i, p)
      /\ m <= i + Cardinality(Taken(tx, n, nx, i, p)) \/ (i = n /\ p = NULL)
  BY DEF AfterTurns
<1>2. n \in Nat /\ i \in 0 .. n
  BY <1>1 DEF Midway
<1>3. PICK c \in Nat : c = Cardinality(Taken(tx, n, nx, i, p))
  BY TakenAreFinite, RoomAssumption
<1>4. CASE p # NULL
  <2> PICK h, hd2, nx2, q : /\ h = Bucket(tx[p], size)
                            /\ hd2 = [hd EXCEPT ![h] = p]
                            /\ nx2 = [nx EXCEPT ![p] = hd[h]]
                            /\ q = nx[p]
    OBVIOUS
  <2>1. /\ Midway(tx, old, n, size, hd2, nx2, i, q)
        /\ Taken(tx, n, nx2, i, q) = Taken(tx, n, nx, i, p) \union {p}
        /\ p \notin Taken(tx, n, nx, i, p)
    BY <1>1, <1>4, MoveTurn
  <2>2. /\ DOMAIN r = {"heads", "next", "i", "p"}
        /\ r.heads = hd2 /\ r.next = nx2 /\ r.i = i /\ r.p = q
    BY <1>1, <1>4 DEF Turn
  <2>3. Cardinality(Taken(tx, n, nx2, i, q)) = c + 1
    BY <1>3, <2>1, TakenAreFinite, FS_AddElement
  <2>4. m + 1 <= i + (c + 1)
    BY <1>1, <1>2, <1>3, <1>4
  <2>5. QED
    BY <2>1, <2>2, <2>3, <2>4 DEF AfterTurns
<1>5. CASE p = NULL /\ i < n
  <2>1. /\ Midway(tx, old, n, size, hd, nx, i + 1, old[i])
        /\ Taken(tx, n, nx, i + 1, old[i]) = Taken(tx, n, nx, i, NULL)
    BY <1>1, <1>5, TakeTurn
  <2>2. /\ DOMAIN r = {"heads", "next", "i", "p"}
        /\ r.heads = hd /\ r.next = nx /\ r.i = i + 1 /\ r.p = old[i]
    BY <1>1, <1>5 DEF Turn
  <2>3. m + 1 <= (i + 1) + c
    BY <1>1, <1>2, <1>3, <1>5
  <2>4. QED
    BY <1>3, <1>5, <2>1, <2>2, <2>3 DEF AfterTurns
<1>6. CASE p = NULL /\ ~ (i < n)
  <2>1. r = s /\ i = n
    BY <1>2, <1>6 DEF Turn
  <2>2. QED
    BY <1>1, <1>6, <2>1 DEF AfterTurns
<1>7. QED
  BY <1>4, <1>5, <1>6

IsLoop(tx, old, n, size, s0, k, f) ==
  f = [m \in 0 .. k |->
        IF m = 0 THEN s0 ELSE Turn(tx, old, n, size, f[m - 1])]

\* The recursive function of Turns exists.
LEMMA LoopExists ==
  ASSUME NEW tx, NEW old, NEW n, NEW size, NEW s0, NEW k \in Nat
  PROVE  \E f : IsLoop(tx, old, n, size, s0, k, f)
<1> DEFINE S == {l \in 0 .. k : \E f : IsLoop(tx, old, n, size, s0, l, f)}
<1>1. 0 \in S
  <2>1. IsLoop(tx, old, n, size, s0, 0, [m \in 0 .. 0 |-> s0])
    BY DEF IsLoop
  <2>2. QED
    BY <2>1
<1>2. ASSUME NEW l \in 1 .. k, l - 1 \in S
      PROVE  l \in S
  <2>1. PICK f : IsLoop(tx, old, n, size, s0, l - 1, f)
    BY <1>2
  <2> DEFINE g == [m \in 0 .. l |->
                     IF m = l THEN Turn(tx, old, n, size, f[l - 1]) ELSE f[m]]
             h == [m \in 0 .. l |->
                     IF m = 0 THEN s0 ELSE Turn(tx, old, n, size, g[m - 1])]
  <2>2. f = [m \in 0 .. l - 1 |->
               IF m = 0 THEN s0 ELSE Turn(tx, old, n, size, f[m - 1])]
    BY <2>1 DEF IsLoop
  <2>3. ASSUME NEW j \in 0 .. l
        PROVE  g[j] = h[j]
    <3>1. CASE j = 0
      BY <2>2, <3>1
    <3>2. CASE j # 0
      <4>1. j - 1 \in 0 .. l - 1 /\ g[j - 1] = f[j - 1]
        BY <3>2
      <4>2. h[j] = Turn(tx, old, n, size, g[j - 1])
        BY <3>2
      <4>3. CASE j = l
        BY <4>1, <4>2, <4>3
      <4>4. CASE j # l
        <5>1. j \in 0 .. l - 1 /\ g[j] = f[j]
          BY <4>4
        <5>2. f[j] = Turn(tx, old, n, size, f[j - 1])
          BY <2>2, <3>2, <5>1
        <5>3. QED
          BY <4>1, <4>2, <5>1, <5>2
      <4>5. QED
        BY <4>3, <4>4
    <3>3. QED
      BY <3>1, <3>2
  <2>4. g = h
    BY <2>3
  <2>5. IsLoop(tx, old, n, size, s0, l, g)
    BY <2>4 DEF IsLoop
  <2>6. QED
    BY <2>5
<1>3. \A l \in 0 .. k : l \in S
  <2> HIDE DEF S
  <2>1. QED
    BY <1>1, <1>2, InductionUpTo
<1>4. QED
  BY <1>3

LEMMA TurnsSteps ==
  ASSUME NEW tx, NEW old, NEW n \in Nat, NEW nx, NEW size,
         NEW f, f = Turns(tx, old, n, nx, size),
         NEW s0, s0 = [heads |-> [h \in 0 .. size - 1 |-> NULL],
                       next |-> nx, i |-> 0, p |-> NULL]
  PROVE  /\ f[0] = s0
         /\ \A m \in 1 .. n + MaxStrings : f[m] = Turn(tx, old, n, size, f[m - 1])
<1> PICK k \in Nat : k = n + MaxStrings
  BY RoomAssumption
<1>1. \E g : IsLoop(tx, old, n, size, s0, k, g)
  BY LoopExists
<1>2. IsLoop(tx, old, n, size, s0, k, f)
  <2> DEFINE Run(g) ==
               g = [m \in 0 .. n + MaxStrings |->
                     IF m = 0
                     THEN [heads |-> [h \in 0 .. size - 1 |-> NULL],
                           next |-> nx, i |-> 0, p |-> NULL]
                     ELSE Turn(tx, old, n, size, g[m - 1])]
             run == CHOOSE g : Run(g)
  <2>1. f = run
    BY DEF Turns
  <2>2. \A g : IsLoop(tx, old, n, size, s0, k, g) <=> Run(g)
    BY DEF IsLoop
  <2> HIDE DEF Run
  <2>3. Run(run)
    BY <1>1, <2>2
  <2>4. QED
    BY <2>1, <2>2, <2>3
<1>3. f = [m \in 0 .. k |->
             IF m = 0 THEN s0 ELSE Turn(tx, old, n, size, f[m - 1])]
  BY <1>2 DEF IsLoop
<1>4. \A m \in 0 .. k :
        f[m] = IF m = 0 THEN s0 ELSE Turn(tx, old, n, size, f[m - 1])
  BY ONLY <1>3
<1>5. 0 \in 0 .. k /\ \A m \in 1 .. k : m \in 0 .. k /\ m # 0
  OBVIOUS
<1>6. f[0] = s0 /\ \A m \in 1 .. k : f[m] = Turn(tx, old, n, size, f[m - 1])
  BY ONLY <1>4, <1>5
<1>7. QED
  BY <1>6
\* The table grows: the same strings, each in its new bucket.
LEMMA ResizeLinked ==
  ASSUME NEW tx, NEW old, NEW n, NEW nx, Linked(tx, old, n, nx),
         NEW size \in Nat \ {0},
         NEW tab, tab = Resize(tx, old, n, nx, size)
  PROVE  Linked(tx, tab.heads, size, tab.next)
<1>1. n \in Nat \ {0}
  BY DEF Linked
<1> PICK k \in Nat : k = n + MaxStrings
  BY <1>1, RoomAssumption
<1> PICK heads : heads = [h \in 0 .. size - 1 |-> NULL]
  OBVIOUS
<1> PICK s0 : s0 = [heads |-> heads, next |-> nx, i |-> 0, p |-> NULL]
  OBVIOUS
<1> PICK f : f = Turns(tx, old, n, nx, size)
  OBVIOUS
<1> DEFINE S == {m \in 0 .. k : AfterTurns(tx, old, n, size, m, f[m])}
<1>2. /\ f[0] = s0
      /\ \A m \in 1 .. k : f[m] = Turn(tx, old, n, size, f[m - 1])
  BY <1>1, TurnsSteps
<1>3. 0 \in S
  <2>1. Midway(tx, old, n, size, heads, nx, 0, NULL)
    BY NothingMoved
  <2>2. 0 <= 0 + Cardinality(Taken(tx, n, nx, 0, NULL))
    BY TakenAreFinite, RoomAssumption
  <2>3. AfterTurns(tx, old, n, size, 0, s0)
    BY <2>1, <2>2 DEF AfterTurns
  <2>4. QED
    BY <1>2, <2>3
<1>4. ASSUME NEW m \in 1 .. k, m - 1 \in S
      PROVE  m \in S
  <2>1. AfterTurns(tx, old, n, size, m - 1, f[m - 1])
    BY <1>4
  <2>2. m - 1 \in Nat /\ (m - 1) + 1 = m /\ m \in 0 .. k
    OBVIOUS
  <2>3. AfterTurns(tx, old, n, size, (m - 1) + 1, f[m])
    BY <1>2, <2>1, <2>2, TurnKeeps
  <2>4. QED
    BY <2>2, <2>3
<1>5. AfterTurns(tx, old, n, size, k, f[k])
  <2> HIDE DEF S
  <2>1. \A m \in 0 .. k : m \in S
    BY <1>3, <1>4, InductionUpTo
  <2>2. QED
    BY <2>1 DEF S
<1>6. tab = f[k]
  BY DEF Resize
<1> PICK T : T = Taken(tx, n, tab.next, tab.i, tab.p)
  OBVIOUS
<1>7. Midway(tx, old, n, size, tab.heads, tab.next, tab.i, tab.p)
  BY <1>5, <1>6 DEF AfterTurns
<1>8. tab.i = n /\ tab.p = NULL
  <2>1. SUFFICES ASSUME k <= tab.i + Cardinality(T)
                 PROVE  tab.i = n /\ tab.p = NULL
    BY <1>5, <1>6 DEF AfterTurns
  <2>2. tab.i \in 0 .. n
    BY <1>7 DEF Midway
  <2>3. /\ Cardinality(T) \in 0 .. MaxStrings
        /\ Cardinality(T) = MaxStrings => T = Addresses
    BY TakenAreFinite
  <2>4. tab.i = n /\ Cardinality(T) = MaxStrings
    BY <1>1, <2>1, <2>2, <2>3, RoomAssumption
  <2>5. tab.p \in Addresses \union {NULL}
    BY <1>7 DEF Midway
  <2>6. tab.p # NULL => tab.p \notin T
    BY <1>7, NextToMove
  <2>7. QED
    BY <2>3, <2>4, <2>5, <2>6
<1>9. QED
  BY <1>7, <1>8, AllMoved

----------------------------------------------------------------------------
(* Removal *)

\* The last reference to the string at address a goes.
LEMMA RemoveLinked ==
  ASSUME NEW tx, NEW heads, NEW size, NEW nx, Linked(tx, heads, size, nx),
         NEW a \in LiveIn(tx),
         NEW h, h = Bucket(tx[a], size),
         NEW prev,
         prev = OneOf({b \in Walk(nx, MaxStrings, heads[h]) : nx[b] = a}),
         NEW hd, hd = IF prev = NULL THEN [heads EXCEPT ![h] = nx[a]] ELSE heads,
         NEW ny, ny = IF prev = NULL
                      THEN [nx EXCEPT ![a] = NULL]
                      ELSE [nx EXCEPT ![prev] = nx[a], ![a] = NULL]
  PROVE  Linked([tx EXCEPT ![a] = NoText], hd, size, ny)
<1> PICK ty : ty = [tx EXCEPT ![a] = NoText]
  OBVIOUS
<1>1. /\ size \in Nat \ {0}
      /\ tx \in [Addresses -> Texts \union {NoText}]
      /\ heads \in [0 .. size - 1 -> Addresses \union {NULL}]
      /\ nx \in [Addresses -> Addresses \union {NULL}]
      /\ Acyclic(nx, MaxStrings) /\ SingleFile(nx, MaxStrings)
      /\ IsLinks(nx, MaxStrings)
  <2>1. IsLinks(nx, MaxStrings)
    BY LinkedIsLinks
  <2>2. QED
    BY <2>1 DEF Linked
<1>2. a \in Addresses /\ tx[a] \in Texts /\ a # NULL /\ h \in 0 .. size - 1
  BY <1>1, LiveText, AddressNotNull, BucketInRange
<1>3. \A k \in 0 .. size - 1 :
        /\ heads[k] \in Addresses \union {NULL}
        /\ heads[k] = NULL \/ NoLinkTo(nx, MaxStrings, heads[k])
        /\ Walk(nx, MaxStrings, heads[k]) =
             {b \in LiveIn(tx) : Bucket(tx[b], size) = k}
  BY <1>1 DEF Linked
<1>4. a \in Walk(nx, MaxStrings, heads[h])
  BY <1>2, <1>3
<1>5. /\ nx[a] \in Addresses \union {NULL}
      /\ ty \in [Addresses -> Texts \union {NoText}]
      /\ \A b \in Addresses : ty[b] = IF b = a THEN NoText ELSE tx[b]
      /\ LiveIn(ty) = LiveIn(tx) \ {a}
  BY <1>1, <1>2 DEF LiveIn
<1>6. /\ hd \in [0 .. size - 1 -> Addresses \union {NULL}]
      /\ ny \in [Addresses -> Addresses \union {NULL}]
      /\ Acyclic(ny, MaxStrings) /\ SingleFile(ny, MaxStrings)
      /\ ny[a] = NULL
      /\ \A b \in Addresses : nx[b] = NULL => ny[b] = NULL
      /\ \A k \in 0 .. size - 1 :
           /\ hd[k] = NULL \/ NoLinkTo(ny, MaxStrings, hd[k])
           /\ Walk(ny, MaxStrings, hd[k]) =
                Walk(nx, MaxStrings, heads[k]) \ {a}
  <2>1. CASE prev = NULL
    <3>1. hd = [heads EXCEPT ![h] = nx[a]] /\ ny = [nx EXCEPT ![a] = NULL]
      BY <2>1
    <3>2. {b \in Walk(nx, MaxStrings, heads[h]) : nx[b] = a} = {}
      <4>1. SUFFICES ASSUME NEW b \in Walk(nx, MaxStrings, heads[h]), nx[b] = a
                     PROVE  FALSE
        OBVIOUS
      <4>2. prev \in Walk(nx, MaxStrings, heads[h])
        BY <4>1 DEF OneOf
      <4>3. prev \in Addresses
        BY <4>2, WalkInNodes DEF Addresses
      <4>4. QED
        BY <2>1, <4>3, AddressNotNull
    <3>3. heads[h] = a
      <4>1. heads[h] \in 0 .. MaxStrings - 1
        <5>1. heads[h] = NULL => Walk(nx, MaxStrings, heads[h]) = {}
          BY <1>1, WalkOfNull
        <5>2. QED
          BY <1>2, <1>3, <1>4, <5>1 DEF Addresses
      <4>2. a # heads[h] =>
              \E b \in Walk(nx, MaxStrings, heads[h]) : nx[b] = a
        BY <1>1, <1>4, <4>1, WalkPredecessor
      <4>3. QED
        BY <3>2, <4>2
    <3>4. NoLinkTo(nx, MaxStrings, a)
      BY <1>2, <1>3, <3>3
    <3>5. PopPushed(nx, MaxStrings, a, NULL, ny)
      <4>1. a \in 0 .. MaxStrings - 1 /\ NULL \in 0 .. MaxStrings - 1 \union {NULL}
        BY <1>2 DEF Addresses
      <4>2. QED
        BY <1>1, <1>2, <3>1, <3>4, <4>1, PopPush
    <3>6. /\ Walk(ny, MaxStrings, nx[a]) = Walk(nx, MaxStrings, a) \ {a}
          /\ \A i \in Addresses \union {NULL} :
               i # a => Walk(ny, MaxStrings, i) = Walk(nx, MaxStrings, i)
          /\ Acyclic(ny, MaxStrings) /\ SingleFile(ny, MaxStrings)
          /\ nx[a] = NULL \/ NoLinkTo(ny, MaxStrings, nx[a])
          /\ \A x : NoLinkTo(nx, MaxStrings, x) /\ x # NULL =>
                    NoLinkTo(ny, MaxStrings, x)
      BY <1>1, <3>5 DEF PopPushed, Addresses
    <3>7. /\ \A b \in Addresses : ny[b] = IF b = a THEN NULL ELSE nx[b]
          /\ \A k \in 0 .. size - 1 : hd[k] = IF k = h THEN nx[a] ELSE heads[k]
          /\ hd \in [0 .. size - 1 -> Addresses \union {NULL}]
          /\ ny \in [Addresses -> Addresses \union {NULL}]
      BY <1>1, <1>2, <1>5, <3>1
    <3>8. ASSUME NEW k \in 0 .. size - 1
          PROVE  /\ hd[k] = NULL \/ NoLinkTo(ny, MaxStrings, hd[k])
                 /\ Walk(ny, MaxStrings, hd[k]) =
                      Walk(nx, MaxStrings, heads[k]) \ {a}
      <4>1. CASE k = h
        BY <3>3, <3>6, <3>7, <4>1
      <4>2. CASE k # h
        <5>1. heads[k] # a
          BY <1>2, <3>3, <4>2, HeadsApart
        <5>2. a \notin Walk(nx, MaxStrings, heads[k])
          BY <1>2, <1>3, <4>2
        <5>3. hd[k] = heads[k] /\ heads[k] \in Addresses \union {NULL}
              /\ (heads[k] = NULL \/ NoLinkTo(nx, MaxStrings, heads[k]))
          BY <1>3, <3>7, <4>2
        <5>4. Walk(ny, MaxStrings, hd[k]) = Walk(nx, MaxStrings, heads[k])
          BY <3>6, <5>1, <5>3
        <5>5. hd[k] = NULL \/ NoLinkTo(ny, MaxStrings, hd[k])
          BY <3>6, <5>3
        <5>6. QED
          BY <5>2, <5>4, <5>5
      <4>3. QED
        BY <4>1, <4>2
    <3>9. QED
      BY <1>2, <3>6, <3>7, <3>8
  <2>2. CASE prev # NULL
    <3>1. hd = heads /\ ny = [nx EXCEPT ![prev] = nx[a], ![a] = NULL]
      BY <2>2
    <3>2. prev \in Addresses /\ nx[prev] = a
      <4> DEFINE B == {b \in Walk(nx, MaxStrings, heads[h]) : nx[b] = a}
      <4>1. prev \in B
        BY <2>2 DEF OneOf
      <4>2. QED
        BY <4>1, WalkInNodes DEF Addresses
    <3>3. CutPushed(nx, MaxStrings, a, prev, NULL, ny)
      <4>1. /\ a \in 0 .. MaxStrings - 1 /\ prev \in 0 .. MaxStrings - 1
            /\ NULL \in 0 .. MaxStrings - 1 \union {NULL}
        BY <1>2, <3>2 DEF Addresses
      <4>2. QED
        BY <1>1, <3>1, <3>2, <4>1, CutPush
    <3>4. /\ prev # a
          /\ \A i \in Addresses \union {NULL} :
               i # a => Walk(ny, MaxStrings, i) = Walk(nx, MaxStrings, i) \ {a}
          /\ Acyclic(ny, MaxStrings) /\ SingleFile(ny, MaxStrings)
          /\ \A x : NoLinkTo(nx, MaxStrings, x) /\ x # NULL =>
                    NoLinkTo(ny, MaxStrings, x)
      BY <3>3 DEF CutPushed, Addresses
    <3>5. /\ \A b \in Addresses :
               ny[b] = IF b = a THEN NULL
                       ELSE IF b = prev THEN nx[a] ELSE nx[b]
          /\ ny \in [Addresses -> Addresses \union {NULL}]
      BY <1>1, <1>2, <1>5, <3>1, <3>2
    <3>6. ASSUME NEW k \in 0 .. size - 1
          PROVE  /\ hd[k] = NULL \/ NoLinkTo(ny, MaxStrings, hd[k])
                 /\ Walk(ny, MaxStrings, hd[k]) =
                      Walk(nx, MaxStrings, heads[k]) \ {a}
      <4>1. heads[k] # a
        BY <1>2, <1>3, <3>2 DEF NoLinkTo, Addresses
      <4>2. QED
        BY <1>3, <3>1, <3>4, <4>1
    <3>7. \A b \in Addresses : nx[b] = NULL => b # prev
      BY <1>2, <3>2
    <3>8. QED
      BY <1>1, <1>2, <3>1, <3>4, <3>5, <3>6, <3>7
  <2>3. QED
    BY <2>1, <2>2
<1>7. ASSUME NEW k \in 0 .. size - 1
      PROVE  Walk(ny, MaxStrings, hd[k]) =
               {b \in LiveIn(ty) : Bucket(ty[b], size) = k}
  <2>1. \A b \in LiveIn(ty) : ty[b] = tx[b]
    BY <1>5 DEF LiveIn
  <2>2. Walk(ny, MaxStrings, hd[k]) =
          {b \in LiveIn(tx) : Bucket(tx[b], size) = k} \ {a}
    BY <1>3, <1>6
  <2>3. QED
    BY <1>5, <2>1, <2>2
<1>8. \A b \in Addresses : ty[b] = NoText => ny[b] = NULL
  BY <1>5, <1>6 DEF Linked
<1>9. Linked(ty, hd, size, ny)
  BY <1>1, <1>5, <1>6, <1>7, <1>8 DEF Linked
<1>10. QED
  BY <1>9
----------------------------------------------------------------------------
(* The calls *)

\* The inductive invariant, of any contents of the variables.
Kept(tx, heads, size, nx, rf, used) ==
  /\ Linked(tx, heads, size, nx)
  /\ rf \in [Addresses -> Nat]
  /\ \A a, b \in LiveIn(tx) : tx[a] = tx[b] => a = b
  /\ LiveIn(tx) = {a \in Addresses : rf[a] > 0}
  /\ used = Cardinality(LiveIn(tx))

LEMMA LiveAreFinite ==
  ASSUME NEW tx
  PROVE  IsFiniteSet(LiveIn(tx)) /\ Cardinality(LiveIn(tx)) \in Nat
<1>1. IsFiniteSet(Addresses)
  <2>1. PICK l \in Nat : l = MaxStrings
    BY RoomAssumption
  <2>2. 0 \in Int /\ l - 1 \in Int
    OBVIOUS
  <2>3. QED
    BY <2>1, <2>2, FS_Interval DEF Addresses
<1>2. LiveIn(tx) \subseteq Addresses
  BY DEF LiveIn
<1>3. QED
  BY <1>1, <1>2, FS_Subset, FS_CardinalityType

LEMMA KeptIsWhole ==
  WholeStrings <=> Kept(text, strings, numofslots, next, refs, slotused)
<1>1. Live = LiveIn(text)
  BY DEF Live, LiveIn
<1>2. \A i : Chain(i) = Walk(next, MaxStrings, strings[i])
  BY DEF Chain
<1>3. ASSUME WholeStrings
      PROVE  Kept(text, strings, numofslots, next, refs, slotused)
  <2>1. Linked(text, strings, numofslots, next)
    <3>1. \A a \in Addresses : text[a] = NoText => next[a] = NULL
      BY <1>3 DEF WholeStrings, ChainsApart, Live
    <3>2. QED
      BY <1>1, <1>2, <1>3, <3>1
         DEF WholeStrings, TypeOK, ChainsApart, OneObjectPerText, Linked
  <2>2. QED
    BY <1>1, <1>3, <2>1 DEF WholeStrings, TypeOK, OneObjectPerText, Kept
<1>4. ASSUME Kept(text, strings, numofslots, next, refs, slotused)
      PROVE  WholeStrings
  <2>1. Linked(text, strings, numofslots, next)
    BY <1>4 DEF Kept
  <2>2. TypeOK
    <3>1. slotused \in Nat
      BY <1>4, LiveAreFinite DEF Kept
    <3>2. QED
      BY <1>4, <2>1, <3>1 DEF Kept, Linked, TypeOK
  <2>3. ChainsApart
    <3>1. \A a \in Addresses \ Live : next[a] = NULL
      BY <2>1 DEF Linked, Live
    <3>2. QED
      BY <2>1, <3>1 DEF Linked, ChainsApart
  <2>4. OneObjectPerText
    BY <1>1, <1>2, <1>4, <2>1 DEF Kept, Linked, OneObjectPerText
  <2>5. QED
    BY <2>2, <2>3, <2>4 DEF WholeStrings
<1>5. QED
  BY <1>3, <1>4

LEMMA InitKept ==
  ASSUME Init
  PROVE  Kept(text, strings, numofslots, next, refs, slotused)
<1>1. /\ numofslots = 4
      /\ strings = [i \in 0 .. 3 |-> NULL]
      /\ slotused = 0
      /\ text = [a \in Addresses |-> NoText]
      /\ next = [a \in Addresses |-> NULL]
      /\ refs = [a \in Addresses |-> 0]
  BY DEF Init
<1>2. LiveIn(text) = {}
  BY <1>1 DEF LiveIn
<1>3. IsLinks(next, MaxStrings)
  BY <1>1, RoomAssumption DEF IsLinks, Addresses
<1>4. \A a \in Addresses : next[a] = NULL
  BY <1>1
<1>5. Acyclic(next, MaxStrings)
  BY <1>3, <1>4, StartInWalk DEF Acyclic, Addresses
<1>6. SingleFile(next, MaxStrings)
  BY <1>4 DEF SingleFile, Addresses
<1>7. Walk(next, MaxStrings, NULL) = {}
  BY <1>3, WalkOfNull
<1>8. Linked(text, strings, numofslots, next)
  BY <1>1, <1>2, <1>4, <1>5, <1>6, <1>7 DEF Linked
<1>9. {a \in Addresses : refs[a] > 0} = {}
  BY <1>1
<1>10. Cardinality({}) = 0
  BY FS_EmptySet
<1>11. QED
  BY <1>1, <1>2, <1>8, <1>9, <1>10 DEF Kept

LEMMA AddKnownKeeps ==
  ASSUME Kept(text, strings, numofslots, next, refs, slotused),
         NEW c \in Texts, AddKnown(c)
  PROVE  Kept(text', strings', numofslots', next', refs', slotused')
<1>1. PICK a \in Found(c) : refs' = [refs EXCEPT ![a] = @ + 1]
  BY DEF AddKnown
<1>2. UNCHANGED <<numofslots, strings, slotused, text, next>>
  BY DEF AddKnown
<1>3. Bucket(c, numofslots) \in 0 .. numofslots - 1
  BY BucketInRange DEF Kept, Linked
<1>4. a \in LiveIn(text)
  BY <1>1, <1>3 DEF Found, Chain, Kept, Linked
<1>5. a \in Addresses /\ refs[a] > 0 /\ refs \in [Addresses -> Nat]
  BY <1>4 DEF Kept
<1>6. /\ refs' \in [Addresses -> Nat]
      /\ \A b \in Addresses :
           refs'[b] = IF b = a THEN refs[a] + 1 ELSE refs[b]
  BY <1>1, <1>5
<1>7. {b \in Addresses : refs'[b] > 0} = {b \in Addresses : refs[b] > 0}
  BY <1>5, <1>6
<1>8. QED
  BY <1>2, <1>6, <1>7 DEF Kept

LEMMA AddNewKeeps ==
  ASSUME Kept(text, strings, numofslots, next, refs, slotused),
         NEW c \in Texts, AddNew(c)
  PROVE  Kept(text', strings', numofslots', next', refs', slotused')
<1> PICK h, u : h = Bucket(c, numofslots) /\ u = text'
  OBVIOUS
<1>1. Linked(text, strings, numofslots, next)
  BY DEF Kept
<1>2. PICK a \in Addresses \ Live :
        /\ text' = [text EXCEPT ![a] = c]
        /\ refs' = [refs EXCEPT ![a] = 1]
        /\ \/ /\ numofslots' = 2 * numofslots
              /\ strings' = Resize(text', [strings EXCEPT ![h] = a], numofslots,
                                   [next EXCEPT ![a] = strings[h]],
                                   2 * numofslots).heads
              /\ next' = Resize(text', [strings EXCEPT ![h] = a], numofslots,
                                [next EXCEPT ![a] = strings[h]],
                                2 * numofslots).next
           \/ /\ strings' = [strings EXCEPT ![h] = a]
              /\ next' = [next EXCEPT ![a] = strings[h]]
              /\ UNCHANGED numofslots
  BY DEF AddNew
<1>3. slotused' = slotused + 1 /\ Found(c) = {}
  BY DEF AddNew
<1>4. a \in Addresses /\ text[a] = NoText /\ a \notin LiveIn(text)
  BY <1>2 DEF Live, LiveIn
<1> PICK hd, nx : /\ hd = [strings EXCEPT ![h] = a]
                  /\ nx = [next EXCEPT ![a] = strings[h]]
  OBVIOUS
<1>5. Linked(u, hd, numofslots, nx)
  BY <1>1, <1>2, <1>4, LinkNew
<1>6. Linked(text', strings', numofslots', next')
  <2>1. CASE /\ numofslots' = 2 * numofslots
             /\ strings' = Resize(u, hd, numofslots, nx, 2 * numofslots).heads
             /\ next' = Resize(u, hd, numofslots, nx, 2 * numofslots).next
    <3>1. 2 * numofslots \in Nat \ {0}
      BY <1>1 DEF Linked
    <3> PICK size, tab : /\ size = 2 * numofslots
                         /\ tab = Resize(u, hd, numofslots, nx, size)
      OBVIOUS
    <3>2. Linked(u, tab.heads, size, tab.next)
      BY <1>5, <3>1, ResizeLinked
    <3>3. QED
      BY <2>1, <3>2
  <2>2. CASE strings' = hd /\ next' = nx /\ UNCHANGED numofslots
    BY <1>5, <2>2
  <2>3. QED
    BY <1>2, <2>1, <2>2
<1>7. /\ LiveIn(text') = LiveIn(text) \union {a}
      /\ \A b \in LiveIn(text) : b # a /\ text'[b] = text[b]
      /\ text'[a] = c
  <2>1. text \in [Addresses -> Texts \union {NoText}]
    BY <1>1 DEF Linked
  <2>2. QED
    BY <1>2, <1>4, <2>1, TextsAssumption DEF LiveIn
<1>8. \A b \in LiveIn(text) : text[b] # c
  <2>1. h \in 0 .. numofslots - 1
    BY <1>1, BucketInRange DEF Linked
  <2>2. Chain(h) = {b \in LiveIn(text) : Bucket(text[b], numofslots) = h}
    BY <1>1, <2>1 DEF Linked, Chain
  <2>3. QED
    BY <1>3, <2>2 DEF Found
<1>9. \A b, d \in LiveIn(text') : text'[b] = text'[d] => b = d
  BY <1>7, <1>8 DEF Kept
<1>10. /\ refs' \in [Addresses -> Nat]
       /\ LiveIn(text') = {b \in Addresses : refs'[b] > 0}
  <2>1. refs \in [Addresses -> Nat]
        /\ LiveIn(text) = {b \in Addresses : refs[b] > 0}
    BY DEF Kept
  <2>2. /\ refs' \in [Addresses -> Nat]
        /\ \A b \in Addresses : refs'[b] = IF b = a THEN 1 ELSE refs[b]
    BY <1>2, <1>4, <2>1
  <2>3. QED
    BY <1>4, <1>7, <2>1, <2>2
<1>11. slotused' = Cardinality(LiveIn(text'))
  BY <1>3, <1>4, <1>7, LiveAreFinite, FS_AddElement DEF Kept
<1>12. QED
  BY <1>6, <1>9, <1>10, <1>11 DEF Kept

LEMMA ReleaseKeeps ==
  ASSUME Kept(text, strings, numofslots, next, refs, slotused),
         NEW a \in Addresses, Release(a)
  PROVE  Kept(text', strings', numofslots', next', refs', slotused')
<1>1. Linked(text, strings, numofslots, next)
  BY DEF Kept
<1>2. /\ refs[a] > 0
      /\ refs' = [refs EXCEPT ![a] = @ - 1]
      /\ UNCHANGED numofslots
      /\ refs[a] > 1 => UNCHANGED <<strings, slotused, text, next>>
      /\ ~ (refs[a] > 1) => /\ Remove(a)
                            /\ text' = [text EXCEPT ![a] = NoText]
                            /\ slotused' = slotused - 1
  BY DEF Release
<1>3. /\ refs \in [Addresses -> Nat]
      /\ LiveIn(text) = {b \in Addresses : refs[b] > 0}
      /\ a \in LiveIn(text)
  BY <1>2 DEF Kept
<1>4. /\ refs' \in [Addresses -> Nat]
      /\ \A b \in Addresses :
           refs'[b] = IF b = a THEN refs[a] - 1 ELSE refs[b]
  BY <1>2, <1>3
<1>5. CASE refs[a] > 1
  <2>1. {b \in Addresses : refs'[b] > 0} = {b \in Addresses : refs[b] > 0}
    BY <1>3, <1>4, <1>5
  <2>2. QED
    BY <1>2, <1>4, <1>5, <2>1 DEF Kept
<1>6. CASE ~ (refs[a] > 1)
  <2> PICK h, prev :
        /\ h = Bucket(text[a], numofslots)
        /\ prev = OneOf({b \in Walk(next, MaxStrings, strings[h]) : next[b] = a})
    OBVIOUS
  <2>1. /\ strings' = IF prev = NULL THEN [strings EXCEPT ![h] = next[a]]
                      ELSE strings
        /\ next' = IF prev = NULL
                   THEN [next EXCEPT ![a] = NULL]
                   ELSE [next EXCEPT ![prev] = next[a], ![a] = NULL]
    BY <1>2, <1>6 DEF Remove, Chain
  <2>2. Linked(text', strings', numofslots', next')
    <3> PICK hd, ny : hd = strings' /\ ny = next'
      OBVIOUS
    <3>1. Linked([text EXCEPT ![a] = NoText], hd, numofslots, ny)
      BY <1>1, <1>3, <2>1, RemoveLinked
    <3>2. QED
      BY <1>2, <1>6, <3>1
  <2>3. /\ LiveIn(text') = LiveIn(text) \ {a}
        /\ \A b \in LiveIn(text') : text'[b] = text[b]
    <3>1. text \in [Addresses -> Texts \union {NoText}]
      BY <1>1 DEF Linked
    <3>2. QED
      BY <1>2, <1>6, <3>1 DEF LiveIn
  <2>4. refs'[a] = 0
    BY <1>2, <1>3, <1>4, <1>6
  <2>5. LiveIn(text') = {b \in Addresses : refs'[b] > 0}
    BY <1>3, <1>4, <2>3, <2>4
  <2>6. slotused' = Cardinality(LiveIn(text'))
    <3>1. slotused = Cardinality(LiveIn(text)) /\ slotused' = slotused - 1
      BY <1>2, <1>6 DEF Kept
    <3>2. QED
      BY <1>3, <2>3, <3>1, LiveAreFinite, FS_RemoveElement
  <2>7. \A b, d \in LiveIn(text') : text'[b] = text'[d] => b = d
    BY <2>3 DEF Kept
  <2>8. QED
    BY <1>4, <2>2, <2>5, <2>6, <2>7 DEF Kept
<1>7. QED
  BY <1>5, <1>6

\* Whatever strings are created and dropped, and however often the table grows
\* in between: chains end and stay apart, and the table is what
\* OneObjectPerText says.
THEOREM WholeStringsInvariant == Spec => []WholeStrings
<1>1. Init => WholeStrings
  BY InitKept, KeptIsWhole
<1>2. WholeStrings /\ [Next]_vars => WholeStrings'
  <2>1. SUFFICES ASSUME WholeStrings, [Next]_vars
                 PROVE  WholeStrings'
    OBVIOUS
  <2>2. Kept(text, strings, numofslots, next, refs, slotused)
    BY <2>1, KeptIsWhole
  <2>3. Kept(text', strings', numofslots', next', refs', slotused')
    <3>1. ASSUME NEW c \in Texts, AddKnown(c)
          PROVE  Kept(text', strings', numofslots', next', refs', slotused')
      BY <2>2, <3>1, AddKnownKeeps
    <3>2. ASSUME NEW c \in Texts, AddNew(c)
          PROVE  Kept(text', strings', numofslots', next', refs', slotused')
      BY <2>2, <3>2, AddNewKeeps
    <3>3. ASSUME NEW a \in Addresses, Release(a)
          PROVE  Kept(text', strings', numofslots', next', refs', slotused')
      BY <2>2, <3>3, ReleaseKeeps
    <3>4. CASE UNCHANGED vars
      BY <2>2, <3>4 DEF vars
    <3>5. QED
      BY <2>1, <3>1, <3>2, <3>3, <3>4 DEF Next
  <2>4. (WholeStrings <=>
           Kept(text, strings, numofslots, next, refs, slotused))'
    BY KeptIsWhole, PTL
  <2>5. QED
    BY <2>3, <2>4
<1>3. QED
  BY <1>1, <1>2, PTL DEF Spec

\* Equal strings are one object, each in its bucket, as long as they are
\* referenced: for any texts, hash function and amount of memory.
THEOREM OneObjectPerTextInvariant == Spec => []OneObjectPerText
<1>1. WholeStrings => OneObjectPerText
  BY DEF WholeStrings
<1>2. QED
  BY <1>1, WholeStringsInvariant, PTL
============================================================================
