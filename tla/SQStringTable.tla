--------------------------- MODULE SQStringTable ---------------------------
(***************************************************************************)
(* SQStringTable (squirrel/sqstate.cpp): every string object of a virtual  *)
(* machine, chained by _next from buckets.  A string is created by its     *)
(* characters: if an equal one lives it is returned, so that strings are   *)
(* compared by address everywhere else.  The table holds no reference: a   *)
(* string leaves it when its last reference goes.                          *)
(***************************************************************************)
EXTENDS Links, FiniteSets

CONSTANTS
  Texts,       \* contents: characters and length
  HashStr,     \* _hashstr: a function from Texts to Nat
  NoText,      \* the content of an address where no string lives
  MaxStrings,  \* bound: the string objects there is memory for
  MaxRefs      \* bound: a function, the references to each string

ASSUME TextsAssumption == NoText \notin Texts /\ HashStr \in [Texts -> Nat]
ASSUME RoomAssumption == MaxStrings \in Nat \ {0} /\ MaxRefs \in [Texts -> Nat]

VARIABLES
  numofslots, \* _numofslots
  strings,    \* _strings: the first string of each bucket
  slotused,   \* _slotused
  text,       \* the content of the string at each address
  next,       \* its _next; NULL where no string lives
  refs        \* its reference count

vars == <<numofslots, strings, slotused, text, next, refs>>

Addresses == 0 .. MaxStrings - 1

Live == {a \in Addresses : text[a] # NoText}

\* newhash & (size - 1), for a size that is a power of two
Bucket(c, size) == HashStr[c] % size

\* The strings of bucket b.
Chain(b) == Walk(next, MaxStrings, strings[b])

\* One turn of the loops of Resize over the first strings old of n buckets: the
\* first string p of what is left of a bucket goes to the head of its new
\* bucket; or bucket i is taken up.
Turn(tx, old, n, size, s) ==
  IF s.p # NULL
  THEN LET h == Bucket(tx[s.p], size)
       IN  [s EXCEPT !.heads = [@ EXCEPT ![h] = s.p],
                     !.next  = [@ EXCEPT ![s.p] = s.heads[h]],
                     !.p     = s.next[s.p]]
  ELSE IF s.i < n THEN [s EXCEPT !.p = old[s.i], !.i = @ + 1] ELSE s

\* The state of the loops after each turn; there are enough turns for every
\* bucket and every string.
Turns(tx, old, n, nx, size) ==
  LET loop[m \in 0 .. n + MaxStrings] ==
        IF m = 0
        THEN [heads |-> [h \in 0 .. size - 1 |-> NULL],
              next |-> nx, i |-> 0, p |-> NULL]
        ELSE Turn(tx, old, n, size, loop[m - 1])
  IN  loop

Resize(tx, old, n, nx, size) == Turns(tx, old, n, nx, size)[n + MaxStrings]

----------------------------------------------------------------------------

Init ==
  /\ numofslots = 4
  /\ strings = [i \in 0 .. 3 |-> NULL]
  /\ slotused = 0
  /\ text = [a \in Addresses |-> NoText]
  /\ next = [a \in Addresses |-> NULL]
  /\ refs = [a \in Addresses |-> 0]

Found_Bug(c) ==
  {a \in {strings[Bucket(c, numofslots)]} \ {NULL} : text[a] = c}

\* The loop of Add: the string with these characters, if it is in its bucket.
Found(c) == {a \in Chain(Bucket(c, numofslots)) : text[a] = c}

\* SQString::Create wrapped in a reference, when the characters are known.
AddKnown(c) ==
  /\ \E a \in Found(c) :
        /\ refs[a] < MaxRefs[c]
        /\ refs' = [refs EXCEPT ![a] = @ + 1]
  /\ UNCHANGED <<numofslots, strings, slotused, text, next>>

\* ... and when they are not: the string is linked at the head of its bucket
\* and the table doubles once it has more strings than buckets.
AddNew(c) ==
  /\ Found(c) = {}
  /\ \E a \in Addresses \ Live :
        LET h == Bucket(c, numofslots)
            heads == [strings EXCEPT ![h] = a]
            nx == [next EXCEPT ![a] = strings[h]]
            tab == Resize(text', heads, numofslots, nx, 2 * numofslots)
        IN  /\ text' = [text EXCEPT ![a] = c]
            /\ refs' = [refs EXCEPT ![a] = 1]
            /\ IF slotused + 1 > numofslots
               THEN /\ numofslots' = 2 * numofslots
                    /\ strings' = tab.heads /\ next' = tab.next
               ELSE strings' = heads /\ next' = nx /\ UNCHANGED numofslots
  /\ slotused' = slotused + 1

\* The string at address a is unlinked and its memory freed.
Remove(a) ==
  LET h == Bucket(text[a], numofslots)
      prev == OneOf({b \in Chain(h) : next[b] = a})
  IN  IF prev = NULL
      THEN /\ strings' = [strings EXCEPT ![h] = next[a]]
           /\ next' = [next EXCEPT ![a] = NULL]
      ELSE /\ next' = [next EXCEPT ![prev] = next[a], ![a] = NULL]
           /\ UNCHANGED strings

\* A reference to the string at address a goes, perhaps the last one.
Release(a) ==
  /\ refs[a] > 0
  /\ refs' = [refs EXCEPT ![a] = @ - 1]
  /\ IF refs[a] > 1
     THEN UNCHANGED <<strings, slotused, text, next>>
     ELSE /\ Remove(a)
          /\ text' = [text EXCEPT ![a] = NoText]
          /\ slotused' = slotused - 1
  /\ UNCHANGED numofslots

Next == \/ \E c \in Texts : AddKnown(c) \/ AddNew(c)
        \/ \E a \in Addresses : Release(a)

Spec == Init /\ [][Next]_vars

----------------------------------------------------------------------------
(* Properties *)

TypeOK ==
  /\ numofslots \in Nat \ {0}
  /\ strings  \in [0 .. numofslots - 1 -> Addresses \union {NULL}]
  /\ slotused \in Nat
  /\ text     \in [Addresses -> Texts \union {NoText}]
  /\ next     \in [Addresses -> Addresses \union {NULL}]
  /\ refs     \in [Addresses -> Nat]

\* Chains end, no two meet, and nothing leads to the first string of a bucket
\* or away from freed memory.
ChainsApart ==
  /\ Acyclic(next, MaxStrings)
  /\ SingleFile(next, MaxStrings)
  /\ \A i \in 0 .. numofslots - 1 :
        strings[i] = NULL \/ NoLinkTo(next, MaxStrings, strings[i])
  /\ \A a \in Addresses \ Live : next[a] = NULL

\* Equal strings are one object, whatever was created, dropped or moved
\* between their creations: the machine compares strings by address.  A string
\* lives exactly as long as it is referenced, and as long as it lives it is in
\* its bucket and in no other (or Remove would run into its assert); a bucket
\* leads to no freed string.
OneObjectPerText ==
  /\ \A a, b \in Live : text[a] = text[b] => a = b
  /\ Live = {a \in Addresses : refs[a] > 0}
  /\ \A i \in 0 .. numofslots - 1 :
        Chain(i) = {a \in Live : Bucket(text[a], numofslots) = i}
  /\ slotused = Cardinality(Live)

\* The inductive invariant.
WholeStrings == TypeOK /\ ChainsApart /\ OneObjectPerText
============================================================================
