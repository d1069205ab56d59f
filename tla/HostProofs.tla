----------------------------- MODULE HostProofs -----------------------------
(***************************************************************************)
(* Theorems about what the host program calls: the module manager          *)
(* (SqModules), for any files and bounds, and the C interface (HostApi),   *)
(* for stacks of any height.                                               *)
(*                                                                         *)
(* The stack of activations of the manager has a shape: a reload or a      *)
(* close lies at its bottom, a handler on it, scripts above, and only the  *)
(* topmost script can be in its compilation.  runningScripts is that stack *)
(* of scripts.                                                             *)
(*                                                                         *)
(* A call of the interface is one of a few ways to change a stack (a value *)
(* pushed, values popped, popped and one pushed, one replaced), each of    *)
(* which leaves the values below where they are; the last part says so of  *)
(* the ways, then of every call at every index.                            *)
(***************************************************************************)
EXTENDS SqModules, HostApi, FiniteSetTheorems, SequenceTheorems, TLAPS

Acts == Script \cup Handler \cup Loop

----------------------------------------------------------------------------
(* The shape of the stack *)

IsScript(x) == x.op = "require"
Compiles(x) == x.op = "require" /\ x.stage = "compile"
IsLoop(x) == x.op \in {"reload", "close"}

\* The last activation of a, if it is a script's, is in its compilation.
TopCompiles(a) == a # <<>> /\ Compiles(a[Len(a)])

\* The stacks a and b agree on their m activations at the bottom.
Same(a, b, m) ==
  m \in Nat /\ m <= Len(a) /\ m <= Len(b) /\ \A k \in 1..m : b[k] = a[k]

\* Above the n activations at the bottom of a there are scripts.
ScriptsAbove(a, n) == \A k \in n + 1..Len(a) : IsScript(a[k])

\* A loop alone on the stack waits for a script only when it reloads.
Waits(a, n) == n = 1 /\ Len(a) = 1 => a[1].op = "reload" /\ a[1].stage = "load"

\* Of the stack a, the n activations at the bottom are not of scripts, and the
\* scripts r execute.
Bottom(a, n) ==
  /\ a \in Seq(Acts) /\ n \in 0..2 /\ n <= Len(a)
  /\ \A k \in 1..n : ~ IsScript(a[k])
  /\ ScriptsAbove(a, n)
  /\ n >= 1 => IsLoop(a[1])
  /\ n = 2 => a[2].op = "handler" /\ a[1].stage = "handlers"
  /\ n = 1 /\ Len(a) > 1 => a[1].stage = "load" /\ a[1].op = "reload"

Running_(a, r, n) ==
  /\ r \in Seq(Files)
  /\ \A k \in n + 1..Len(a) - 1 : ~ Compiles(a[k])
  /\ Len(r) = Len(a) - n - (IF TopCompiles(a) THEN 1 ELSE 0)
  /\ \A k \in 1..Len(r) : r[k] = a[n + k].fn

Shape(a, r, n) == Bottom(a, n) /\ Running_(a, r, n)

LEMMA ActCases ==
  ASSUME NEW x \in Acts
  PROVE  /\ IsScript(x) <=> x \in Script
         /\ x.op = "handler" <=> x \in Handler
         /\ IsLoop(x) <=> x \in Loop
         /\ IsScript(x) \/ x.op = "handler" \/ IsLoop(x)
         /\ IsScript(x) => x.op # "handler" /\ ~ IsLoop(x)
         /\ IsLoop(x) => x.op # "handler"
BY DEF Acts, Script, Handler, Loop, IsScript, IsLoop

LEMMA AppendIs ==
  ASSUME NEW S, NEW a \in Seq(S), NEW x \in S
  PROVE  /\ Append(a, x) \in Seq(S) /\ Len(Append(a, x)) = Len(a) + 1
         /\ Append(a, x)[Len(a) + 1] = x
         /\ Same(a, Append(a, x), Len(a))
BY DEF Same

LEMMA PairIs ==
  ASSUME NEW x, NEW y
  PROVE  Append(<<x>>, y) = <<x, y>>
<1> DEFINE S == {x, y}
           a == <<x>>
           b == Append(a, y)
           c == <<x, y>>
<1>1. a \in Seq(S) /\ c \in Seq(S) /\ y \in S /\ Len(a) = 1 /\ a[1] = x
      /\ Len(c) = 2 /\ c[1] = x /\ c[2] = y
  OBVIOUS
<1> HIDE DEF a, S, c
<1>2. /\ b \in Seq(S) /\ Len(b) = Len(a) + 1 /\ b[Len(a) + 1] = y
      /\ Same(a, b, Len(a))
  BY <1>1, AppendIs
<1> HIDE DEF b
<1>3. Len(b) = Len(c) /\ \A k \in 1..Len(b) : b[k] = c[k]
  BY <1>1, <1>2 DEF Same
<1>4. b = c
  BY <1>1, <1>2, <1>3, SeqEqual
<1>5. QED
  BY <1>4 DEF a, b, c

LEMMA FrontIs ==
  ASSUME NEW S, NEW a \in Seq(S), a # <<>>
  PROVE  /\ Front(a) \in Seq(S) /\ Len(Front(a)) = Len(a) - 1
         /\ Same(a, Front(a), Len(a) - 1)
         /\ Len(a) \in Nat \ {0}
<1>1. Len(a) \in Nat \ {0}
  BY EmptySeq
<1>2. PICK m \in Nat : m = Len(a) - 1
  BY <1>1
<1>3. /\ SubSeq(a, 1, m) \in Seq(S)
      /\ Len(SubSeq(a, 1, m)) = m
      /\ \A i \in 1..m : SubSeq(a, 1, m)[i] = a[i]
  <2>1. \A i \in 1..m : a[i] \in S
    BY <1>1, <1>2
  <2>2. 1 \in Int /\ m \in Int
    OBVIOUS
  <2>3. /\ SubSeq(a, 1, m) \in Seq(S)
        /\ Len(SubSeq(a, 1, m)) = IF 1 <= m THEN m - 1 + 1 ELSE 0
        /\ \A i \in 1..m - 1 + 1 : SubSeq(a, 1, m)[i] = a[1 + i - 1]
    BY ONLY <2>1, <2>2, SubSeqProperties
  <2>4. m - 1 + 1 = m /\ \A i \in 1..m : 1 + i - 1 = i
    OBVIOUS
  <2>5. QED
    BY <2>3, <2>4
<1>4. Front(a) = SubSeq(a, 1, m)
  BY <1>2 DEF Front
<1>5. QED
  BY <1>1, <1>2, <1>3, <1>4 DEF Same

LEMMA PutIs ==
  ASSUME NEW S, NEW a \in Seq(S), NEW x \in S, a # <<>>
  PROVE  /\ [a EXCEPT ![Len(a)] = x] \in Seq(S)
         /\ Len([a EXCEPT ![Len(a)] = x]) = Len(a)
         /\ [a EXCEPT ![Len(a)] = x][Len(a)] = x
         /\ Same(a, [a EXCEPT ![Len(a)] = x], Len(a) - 1)
<1>1. Len(a) \in Nat \ {0}
  BY FrontIs
<1>2. PICK i \in 1..Len(a) : i = Len(a)
  BY <1>1
<1>3. /\ [a EXCEPT ![i] = x] \in Seq(S)
      /\ Len([a EXCEPT ![i] = x]) = Len(a)
      /\ \A j \in 1 .. Len(a) : [a EXCEPT ![i] = x][j] = IF j=i THEN x ELSE a[j]
  BY ONLY <1>2, a \in Seq(S), x \in S, ExceptSeq
<1>4. QED
  BY <1>1, <1>2, <1>3 DEF Same

\* What lies below the scripts stays while they come, change and go.
LEMMA BottomKept ==
  ASSUME NEW a, NEW n, Bottom(a, n), NEW b \in Seq(Acts), NEW m \in Nat, n <= m,
         Same(a, b, m), ScriptsAbove(b, m), Waits(a, n)
  PROVE  Bottom(b, n)
<1>1. n \in 0..2 /\ Len(a) \in Nat /\ Len(b) \in Nat /\ n <= Len(a) /\ n <= Len(b)
  BY DEF Bottom, Same
<1>2. \A k \in 1..n : b[k] = a[k]
  BY <1>1 DEF Same
<1>3. \A k \in 1..n : ~ IsScript(b[k])
  BY <1>2 DEF Bottom
<1>4. ScriptsAbove(b, n)
  <2> SUFFICES ASSUME NEW k \in n + 1..Len(b) PROVE IsScript(b[k])
    BY DEF ScriptsAbove
  <2>1. CASE k <= m
    <3>1. k \in 1..m /\ k \in n + 1..Len(a)
      BY <2>1, <1>1 DEF Same
    <3>2. b[k] = a[k] /\ IsScript(a[k])
      BY <3>1 DEF Same, Bottom, ScriptsAbove
    <3>3. QED
      BY <3>2
  <2>2. CASE k > m
    BY <2>2, <1>1 DEF ScriptsAbove
  <2>3. QED
    BY <2>1, <2>2, <1>1
<1>5. n >= 1 => b[1] = a[1]
  BY <1>1, <1>2
<1>6. n = 2 => b[2] = a[2]
  BY <1>1, <1>2
<1>7. n >= 1 => IsLoop(b[1])
  BY <1>5 DEF Bottom
<1>8. n = 2 => b[2].op = "handler" /\ b[1].stage = "handlers"
  BY <1>1, <1>5, <1>6 DEF Bottom
<1>9. n = 1 /\ Len(b) > 1 => b[1].stage = "load" /\ b[1].op = "reload"
  <2>1. n = 1 /\ Len(a) > 1 => a[1].stage = "load" /\ a[1].op = "reload"
    BY DEF Bottom
  <2>2. n = 1 => Len(a) = 1 \/ Len(a) > 1
    <3>1. PICK l \in Nat : l = Len(a)
      BY <1>1
    <3>2. n = 1 => l = 1 \/ l > 1
      BY <1>1, <3>1
    <3>3. QED
      BY ONLY <3>1, <3>2
  <2>3. n = 1 => b[1] = a[1]
    BY <1>5
  <2>4. n = 1 /\ Len(a) = 1 => a[1].op = "reload" /\ a[1].stage = "load"
    BY DEF Waits
  <2>5. QED
    BY <2>1, <2>2, <2>3, <2>4
<1>10. QED
  BY <1>1, <1>3, <1>4, <1>7, <1>8, <1>9 DEF Bottom

\* No script but the topmost one is in its compilation.
LEMMA CompilesKept ==
  ASSUME NEW a \in Seq(Acts), NEW r, NEW n \in 0..2, Running_(a, r, n), NEW b \in Seq(Acts),
         Same(a, b, Len(b) - 1), Len(b) - 1 = Len(a) => ~ TopCompiles(a)
  PROVE  \A k \in n + 1..Len(b) - 1 : ~ Compiles(b[k])
<1> TAKE k \in n + 1..Len(b) - 1
<1>1. k \in 1..Len(b) - 1 /\ k \in 1..Len(a) /\ b[k] = a[k] /\ Len(a) \in Nat
  BY DEF Same
<1>2. CASE k = Len(a)
  <2>1. Len(b) - 1 = Len(a) /\ a # <<>>
    BY <1>1, <1>2 DEF Same
  <2>2. QED
    BY <2>1, <1>1, <1>2 DEF TopCompiles
<1>3. CASE k # Len(a)
  <2>1. k \in n + 1..Len(a) - 1
    BY <1>1, <1>3
  <2>2. QED
    BY <2>1, <1>1 DEF Running_
<1>4. QED
  BY <1>2, <1>3

\* A script starts on top of a stack that waits for it.
LEMMA PushScript ==
  ASSUME NEW a, NEW r, NEW n, Shape(a, r, n), NEW x \in Script, Compiles(x),
         ~ TopCompiles(a), Waits(a, n)
  PROVE  Shape(Append(a, x), r, n)
<1> DEFINE b == Append(a, x)
<1>1. x \in Acts /\ IsScript(x)
  BY DEF Acts, Script, IsScript
<1>2. a \in Seq(Acts) /\ n \in 0..2 /\ Len(a) \in Nat /\ n <= Len(a) /\ Bottom(a, n)
  BY DEF Shape, Bottom
<1>3. /\ b \in Seq(Acts) /\ Len(b) = Len(a) + 1 /\ b[Len(a) + 1] = x
      /\ Same(a, b, Len(a))
  BY <1>1, <1>2, AppendIs
<1> HIDE DEF b
<1>4. Bottom(b, n)
  <2>1. ScriptsAbove(b, Len(a))
    BY <1>1, <1>2, <1>3 DEF ScriptsAbove
  <2>2. QED
    BY <1>2, <1>3, <2>1, BottomKept
<1>5. Running_(b, r, n)
  <2>1. TopCompiles(b)
    BY <1>2, <1>3 DEF TopCompiles
  <2>2. \A k \in n + 1..Len(b) - 1 : ~ Compiles(b[k])
    <3>1. Len(b) - 1 = Len(a) /\ Running_(a, r, n)
      BY <1>2, <1>3 DEF Shape
    <3>2. Same(a, b, Len(b) - 1) /\ (Len(b) - 1 = Len(a) => ~ TopCompiles(a))
      BY <3>1, <1>3
    <3>3. QED
      BY <1>2, <1>3, <3>1, <3>2, CompilesKept
  <2>3. r \in Seq(Files) /\ Len(r) = Len(a) - n /\ \A k \in 1..Len(r) : r[k] = a[n + k].fn
    BY <1>2 DEF Shape, Running_
  <2>4. \A k \in 1..Len(r) : n + k \in 1..Len(a)
    BY <2>3, <1>2
  <2>5. \A k \in 1..Len(r) : r[k] = b[n + k].fn
    BY <2>3, <2>4, <1>3 DEF Same
  <2>6. Len(r) = Len(b) - n - 1
    BY <2>3, <1>2, <1>3
  <2>7. QED
    BY <2>1, <2>2, <2>3, <2>5, <2>6 DEF Running_
<1>6. QED
  BY <1>4, <1>5 DEF b, Shape

\* What remains when a script leaves the top is not in its compilation.
LEMMA FrontNotCompiles ==
  ASSUME NEW a, NEW r, NEW n, Shape(a, r, n), n < Len(a), a # <<>>
  PROVE  /\ ~ TopCompiles(Front(a)) /\ Bottom(Front(a), n)
         /\ \A k \in n + 1..Len(Front(a)) - 1 : ~ Compiles(Front(a)[k])
<1> DEFINE b == Front(a)
<1>1. a \in Seq(Acts) /\ n \in 0..2 /\ Bottom(a, n) /\ Running_(a, r, n)
  BY DEF Shape, Bottom
<1>2. /\ b \in Seq(Acts) /\ Len(b) = Len(a) - 1 /\ Len(a) \in Nat \ {0}
      /\ Same(a, b, Len(a) - 1)
  BY <1>1, FrontIs
<1> HIDE DEF b
<1>3. Bottom(b, n)
  <2>1. n <= Len(a) - 1 /\ Len(a) - 1 \in Nat
    BY <1>1, <1>2
  <2>2. ScriptsAbove(b, Len(a) - 1)
    BY <1>2 DEF ScriptsAbove
  <2>3. Waits(a, n)
    BY <2>1, <1>1 DEF Waits
  <2>4. QED
    BY <1>1, <1>2, <2>1, <2>2, <2>3, BottomKept
<1>4. ~ TopCompiles(b)
  <2> SUFFICES ASSUME b # <<>>, Compiles(b[Len(b)]) PROVE FALSE
    BY DEF TopCompiles
  <2>1. Len(b) \in 1..Len(a) - 1 /\ b[Len(b)] = a[Len(b)]
    BY <1>2, EmptySeq DEF Same
  <2>2. CASE Len(b) <= n
    BY <2>1, <2>2, <1>1 DEF Bottom, Compiles, IsScript
  <2>3. CASE Len(b) > n
    BY <2>1, <2>3, <1>1 DEF Running_
  <2>4. QED
    BY <2>2, <2>3, <2>1, <1>1
<1>5. \A k \in n + 1..Len(b) - 1 : ~ Compiles(b[k])
  <2> SUFFICES ASSUME NEW k \in n + 1..Len(b) - 1 PROVE ~ Compiles(b[k])
    OBVIOUS
  <2>1. k \in 1..Len(a) - 1 /\ k \in n + 1..Len(a) - 1
    BY <1>1, <1>2
  <2>2. QED
    BY <2>1, <1>1, <1>2 DEF Same, Running_
<1>6. QED
  BY <1>3, <1>4, <1>5 DEF b

\* The script on top has not been translated: it goes away, or begins to execute.
LEMMA PopCompiling ==
  ASSUME NEW a, NEW r, NEW n, Shape(a, r, n), TopCompiles(a)
  PROVE  Shape(Front(a), r, n)
<1> DEFINE b == Front(a)
<1>1. a \in Seq(Acts) /\ a # <<>> /\ n \in 0..2
  BY DEF Shape, Bottom, TopCompiles
<1>2. /\ b \in Seq(Acts) /\ Len(b) = Len(a) - 1 /\ Len(a) \in Nat \ {0}
      /\ Same(a, b, Len(a) - 1)
  BY <1>1, FrontIs
<1>3. n < Len(a)
  BY <1>1, <1>2 DEF Shape, Bottom, TopCompiles, Compiles, IsScript
<1>4. /\ ~ TopCompiles(b) /\ Bottom(b, n)
      /\ \A k \in n + 1..Len(b) - 1 : ~ Compiles(b[k])
  BY <1>1, <1>3, FrontNotCompiles
<1> HIDE DEF b
<1>5. r \in Seq(Files) /\ Len(r) = Len(a) - n - 1 /\ \A k \in 1..Len(r) : r[k] = a[n + k].fn
  BY DEF Shape, Running_
<1>6. \A k \in 1..Len(r) : n + k \in 1..Len(a) - 1
  BY <1>1, <1>2, <1>5
<1>7. \A k \in 1..Len(r) : r[k] = b[n + k].fn
  BY <1>2, <1>5, <1>6 DEF Same
<1>8. Len(r) = Len(b) - n - 0
  BY <1>1, <1>2, <1>5
<1>9. QED
  BY <1>4, <1>5, <1>7, <1>8 DEF Shape, Running_, b

LEMMA BeginExecuting ==
  ASSUME NEW a, NEW r, NEW n, Shape(a, r, n), TopCompiles(a),
         NEW x \in Script, x.fn = a[Len(a)].fn, ~ Compiles(x)
  PROVE  Shape([a EXCEPT ![Len(a)] = x], Append(r, x.fn), n)
<1> DEFINE b == [a EXCEPT ![Len(a)] = x]
           q == Append(r, x.fn)
<1>1. a \in Seq(Acts) /\ a # <<>> /\ n \in 0..2 /\ x \in Acts /\ IsScript(x)
  BY DEF Shape, Bottom, TopCompiles, Acts, Script, IsScript
<1>2. /\ b \in Seq(Acts) /\ Len(b) = Len(a) /\ b[Len(a)] = x
      /\ Same(a, b, Len(a) - 1) /\ Len(a) \in Nat \ {0}
  BY <1>1, PutIs, FrontIs
<1>3. /\ r \in Seq(Files) /\ x.fn \in Files /\ Len(r) \in Nat /\ Len(r) = Len(a) - n - 1
      /\ \A k \in 1..Len(r) : r[k] = a[n + k].fn
  BY DEF Shape, Running_, Script
<1>4. n < Len(a)
  BY <1>1, <1>2, <1>3
<1>5. /\ q \in Seq(Files) /\ Len(q) = Len(r) + 1 /\ q[Len(r) + 1] = x.fn
      /\ Same(r, q, Len(r))
  BY <1>3, AppendIs
<1>12. Bottom(a, n) /\ Running_(a, r, n)
  BY DEF Shape
<1> HIDE DEF b, q
<1>6. Bottom(b, n)
  <2>1. n <= Len(a) - 1 /\ Len(a) - 1 \in Nat
    BY <1>1, <1>2, <1>4
  <2>2. ScriptsAbove(b, Len(a) - 1)
    BY <1>1, <1>2 DEF ScriptsAbove
  <2>3. Waits(a, n)
    BY <1>4, <1>1 DEF Waits
  <2>4. QED
    BY <1>12, <1>2, <2>1, <2>2, <2>3, BottomKept
<1>7. ~ TopCompiles(b)
  BY <1>2 DEF TopCompiles
<1>8. \A k \in 1..Len(q) : q[k] = b[n + k].fn
  <2> SUFFICES ASSUME NEW k \in 1..Len(q) PROVE q[k] = b[n + k].fn
    OBVIOUS
  <2> PICK m \in Nat, j \in Nat : m = Len(a) /\ j = Len(r)
    BY <1>2, <1>3
  <2>3. j = m - n - 1 /\ Len(q) = j + 1 /\ n \in 0..2
    BY <1>1, <1>3, <1>5
  <2>1. CASE k = Len(q)
    <3>1. n + k = m
      BY ONLY <2>1, <2>3, m \in Nat, j \in Nat
    <3>2. q[k] = x.fn /\ b[m] = x
      BY ONLY <1>2, <1>5, <2>1, m = Len(a)
    <3>3. QED
      BY ONLY <3>1, <3>2
  <2>2. CASE k # Len(q)
    <3>1. k \in 1..Len(r) /\ n + k \in 1..Len(a) - 1
      BY ONLY <2>2, <2>3, k \in 1..Len(q), m \in Nat, j \in Nat,
              m = Len(a), j = Len(r)
    <3>2. q[k] = r[k] /\ b[n + k] = a[n + k]
      BY <3>1, <1>2, <1>5 DEF Same
    <3>3. QED
      BY <3>1, <3>2, <1>3
  <2>4. QED
    BY <2>1, <2>2
<1>9. \A k \in n + 1..Len(b) - 1 : ~ Compiles(b[k])
  <2>1. Same(a, b, Len(b) - 1) /\ Len(b) - 1 # Len(a)
    BY <1>2
  <2>2. QED
    BY <2>1, <1>1, <1>2, <1>12, CompilesKept
<1>10. Len(q) = Len(b) - n - 0
  BY <1>1, <1>2, <1>3, <1>5
<1>11. QED
  BY <1>5, <1>6, <1>7, <1>8, <1>9, <1>10 DEF Shape, Running_, b, q

\* A script that executes is on top of the stack and of the list.
LEMMA TopExecutes ==
  ASSUME NEW a, NEW r, NEW n, Shape(a, r, n), a # <<>>, IsScript(a[Len(a)]),
         ~ TopCompiles(a)
  PROVE  /\ n < Len(a) /\ Len(a) \in Nat \ {0} /\ n \in 0..2 /\ a \in Seq(Acts)
         /\ r \in Seq(Files) /\ Len(r) = Len(a) - n /\ r # <<>>
         /\ r[Len(r)] = a[Len(a)].fn
         /\ \A k \in 1..Len(r) : r[k] = a[n + k].fn
<1>1. Len(a) \in Nat \ {0} /\ n \in 0..2 /\ a \in Seq(Acts)
  BY FrontIs DEF Shape, Bottom
<1>2. n < Len(a)
  BY <1>1 DEF Shape, Bottom, IsScript
<1>3. /\ r \in Seq(Files) /\ Len(r) = Len(a) - n - 0
      /\ \A k \in 1..Len(r) : r[k] = a[n + k].fn
  BY DEF Shape, Running_
<1>4. r # <<>> /\ Len(r) \in 1..Len(r) /\ n + Len(r) = Len(a)
  BY <1>1, <1>2, <1>3
<1>5. r[Len(r)] = a[n + Len(r)].fn
  BY <1>3, <1>4
<1>6. QED
  BY <1>1, <1>2, <1>3, <1>4, <1>5

LEMMA PopExecuting ==
  ASSUME NEW a, NEW r, NEW n, Shape(a, r, n), a # <<>>, IsScript(a[Len(a)]),
         ~ TopCompiles(a)
  PROVE  Shape(Front(a), Front(r), n)
<1> DEFINE b == Front(a)
           q == Front(r)
<1>1. /\ n < Len(a) /\ Len(a) \in Nat \ {0} /\ n \in 0..2 /\ a \in Seq(Acts)
      /\ r \in Seq(Files) /\ Len(r) = Len(a) - n /\ r # <<>>
      /\ \A k \in 1..Len(r) : r[k] = a[n + k].fn
  BY TopExecutes
<1>2. b \in Seq(Acts) /\ Len(b) = Len(a) - 1 /\ Same(a, b, Len(a) - 1)
  BY <1>1, FrontIs
<1>3. q \in Seq(Files) /\ Len(q) = Len(r) - 1 /\ Same(r, q, Len(r) - 1)
  BY <1>1, FrontIs
<1>4. /\ ~ TopCompiles(b) /\ Bottom(b, n)
      /\ \A k \in n + 1..Len(b) - 1 : ~ Compiles(b[k])
  BY <1>1, FrontNotCompiles
<1> HIDE DEF b, q
<1>5. Len(q) = Len(b) - n - 0
  BY <1>1, <1>2, <1>3
<1>6. \A k \in 1..Len(q) : q[k] = b[n + k].fn
  <2> SUFFICES ASSUME NEW k \in 1..Len(q) PROVE q[k] = b[n + k].fn
    OBVIOUS
  <2>1. k \in 1..Len(r) - 1 /\ n + k \in 1..Len(a) - 1
    BY <1>1, <1>2, <1>3
  <2>2. q[k] = r[k] /\ b[n + k] = a[n + k]
    BY <2>1, <1>2, <1>3 DEF Same
  <2>3. QED
    BY <2>1, <2>2, <1>1
<1>7. QED
  BY <1>3, <1>4, <1>5, <1>6 DEF Shape, Running_, b, q

\* The script on top goes on to its body: its name is popped and pushed.
LEMMA Repushed ==
  ASSUME NEW S, NEW r \in Seq(S), r # <<>>
  PROVE  Append(Front(r), r[Len(r)]) = r
<1>1. /\ Front(r) \in Seq(S) /\ Len(Front(r)) = Len(r) - 1
      /\ Same(r, Front(r), Len(r) - 1) /\ Len(r) \in Nat \ {0}
  BY FrontIs
<1>2. r[Len(r)] \in S
  BY <1>1
<1> DEFINE q == Append(Front(r), r[Len(r)])
<1>3. /\ q \in Seq(S) /\ Len(q) = Len(Front(r)) + 1
      /\ q[Len(Front(r)) + 1] = r[Len(r)]
      /\ Same(Front(r), q, Len(Front(r)))
  BY <1>1, <1>2, AppendIs
<1> HIDE DEF q
<1>4. \A k \in 1..Len(r) : q[k] = r[k]
  BY <1>1, <1>3 DEF Same
<1>5. Len(q) = Len(r)
  BY <1>1, <1>3
<1>6. q = r
  BY <1>3, <1>4, <1>5, SeqEqual
<1>7. QED
  BY <1>6 DEF q

LEMMA ContinueExecuting ==
  ASSUME NEW a, NEW r, NEW n, Shape(a, r, n), a # <<>>, IsScript(a[Len(a)]),
         ~ TopCompiles(a), NEW x \in Script, x.fn = a[Len(a)].fn, ~ Compiles(x)
  PROVE  Shape([a EXCEPT ![Len(a)] = x], r, n)
<1> DEFINE b == [a EXCEPT ![Len(a)] = x]
<1>1. /\ n < Len(a) /\ Len(a) \in Nat \ {0} /\ n \in 0..2 /\ a \in Seq(Acts)
      /\ r \in Seq(Files) /\ Len(r) = Len(a) - n /\ r # <<>>
      /\ r[Len(r)] = a[Len(a)].fn
      /\ \A k \in 1..Len(r) : r[k] = a[n + k].fn
  BY TopExecutes
<1>2. x \in Acts /\ IsScript(x) /\ Bottom(a, n) /\ Running_(a, r, n)
  BY DEF Shape, Acts, Script, IsScript
<1>3. b \in Seq(Acts) /\ Len(b) = Len(a) /\ b[Len(a)] = x /\ Same(a, b, Len(a) - 1)
  <2>1. a \in Seq(Acts) /\ x \in Acts /\ a # <<>>
    BY <1>1, <1>2
  <2>2. QED
    BY ONLY <2>1, PutIs
<1> HIDE DEF b
<1>4. Bottom(b, n)
  <2>1. n <= Len(a) - 1 /\ Len(a) - 1 \in Nat
    BY <1>1
  <2>2. ScriptsAbove(b, Len(a) - 1)
    BY <1>1, <1>2, <1>3 DEF ScriptsAbove
  <2>3. Waits(a, n)
    BY <1>1 DEF Waits
  <2>4. QED
    BY <1>2, <1>3, <2>1, <2>2, <2>3, BottomKept
<1>5. ~ TopCompiles(b)
  BY <1>3 DEF TopCompiles
<1>6. \A k \in n + 1..Len(b) - 1 : ~ Compiles(b[k])
  <2>1. Same(a, b, Len(b) - 1) /\ Len(b) - 1 # Len(a)
    BY <1>1, <1>3
  <2>2. QED
    BY <2>1, <1>1, <1>2, <1>3, CompilesKept
<1>7. Len(r) = Len(b) - n - 0
  BY <1>1, <1>3
<1>8. \A k \in 1..Len(r) : r[k] = b[n + k].fn
  <2> SUFFICES ASSUME NEW k \in 1..Len(r) PROVE r[k] = b[n + k].fn
    OBVIOUS
  <2>1. CASE n + k = Len(a)
    BY <2>1, <1>1, <1>3
  <2>2. CASE n + k # Len(a)
    <3>1. n + k \in 1..Len(a) - 1
      BY <2>2, <1>1
    <3>2. QED
      BY <3>1, <1>1, <1>3 DEF Same
  <2>3. QED
    BY <2>1, <2>2
<1>9. QED
  BY <1>1, <1>4, <1>5, <1>6, <1>7, <1>8 DEF Shape, Running_, b


\* The stack with nothing, or with a loop, or with a loop and its handler.
LEMMA ShapeOfNone ==
  /\ Shape(<<>>, <<>>, 0)
  /\ \A r, n : Shape(<<>>, r, n) => r = <<>> /\ n = 0
<1>1. Shape(<<>>, <<>>, 0)
  BY DEF Shape, Bottom, Running_, ScriptsAbove, TopCompiles
<1>2. ASSUME NEW r, NEW n, Shape(<<>>, r, n) PROVE r = <<>> /\ n = 0
  <2>1. n \in 0..2 /\ n <= Len(<<>>) /\ r \in Seq(Files)
    BY <1>2 DEF Shape, Bottom, Running_
  <2>2. n = 0 /\ Len(<<>>) = 0
    BY <2>1
  <2>3. Len(r) = 0 - 0 - 0
    BY <1>2, <2>2 DEF Shape, Running_, TopCompiles
  <2>4. QED
    BY <2>1, <2>2, <2>3, EmptySeq
<1>3. QED
  BY <1>1, <1>2

LEMMA ShapeOfLoop ==
  ASSUME NEW l \in Loop
  PROVE  Shape(<<l>>, <<>>, 1)
<1>1. l \in Acts /\ IsLoop(l) /\ ~ IsScript(l)
  BY DEF Acts, Loop, IsLoop, IsScript
<1>2. Bottom(<<l>>, 1)
  BY <1>1 DEF Bottom, ScriptsAbove
<1>3. ~ TopCompiles(<<l>>)
  BY <1>1 DEF TopCompiles, Compiles, IsScript
<1>4. QED
  BY <1>2, <1>3 DEF Shape, Running_

LEMMA ShapeOfHandler ==
  ASSUME NEW l \in Loop, l.stage = "handlers", NEW h \in Handler
  PROVE  Shape(<<l, h>>, <<>>, 2)
<1>1. /\ l \in Acts /\ IsLoop(l) /\ ~ IsScript(l)
      /\ h \in Acts /\ h.op = "handler" /\ ~ IsScript(h)
  BY DEF Acts, Loop, IsLoop, IsScript, Handler
<1> DEFINE a == <<l, h>>
<1>2. a \in Seq(Acts) /\ Len(a) = 2 /\ a[1] = l /\ a[2] = h
  BY <1>1
<1> HIDE DEF a
<1>3. \A k \in 1..2 : ~ IsScript(a[k])
  BY <1>1, <1>2
<1>4. ScriptsAbove(a, 2)
  BY <1>2 DEF ScriptsAbove
<1>5. Bottom(a, 2)
  BY <1>1, <1>2, <1>3, <1>4 DEF Bottom
<1>6. ~ TopCompiles(a)
  BY <1>1, <1>2 DEF TopCompiles, Compiles, IsScript
<1>7. \A k \in 2 + 1..Len(a) - 1 : ~ Compiles(a[k])
  BY <1>2
<1>8. Running_(a, <<>>, 2)
  <2>1. <<>> \in Seq(Files) /\ Len(<<>>) = Len(a) - 2 - 0
    BY <1>2
  <2>2. \A k \in 1..Len(<<>>) : <<>>[k] = a[2 + k].fn
    OBVIOUS
  <2>3. QED
    BY <2>1, <2>2, <1>6, <1>7 DEF Running_
<1>9. QED
  BY <1>5, <1>8 DEF Shape, a

LEMMA LoopOnTop ==
  ASSUME NEW a, NEW r, NEW n, Shape(a, r, n), a # <<>>, IsLoop(a[Len(a)])
  PROVE  /\ n = 1 /\ Len(a) = 1 /\ r = <<>> /\ a = <<a[1]>>
         /\ a[1] \in Loop /\ Front(a) = <<>>
         /\ \A l \in Loop : [a EXCEPT ![Len(a)] = l] = <<l>>
<1>1. a \in Seq(Acts) /\ n \in 0..2 /\ Len(a) \in Nat \ {0} /\ n <= Len(a) /\ Bottom(a, n)
  BY FrontIs DEF Shape, Bottom
<1>2. a[Len(a)] \in Acts /\ ~ IsScript(a[Len(a)]) /\ a[Len(a)].op # "handler"
  BY <1>1 DEF IsScript, IsLoop
<1>3. Len(a) <= n
  BY <1>1, <1>2 DEF Bottom, ScriptsAbove
<1>4. n # 2
  BY <1>1, <1>2, <1>3 DEF Bottom
<1>5. n = 1 /\ Len(a) = 1
  <2>1. PICK m \in Nat : m = Len(a)
    BY <1>1
  <2>2. m # 0 /\ n <= m /\ m <= n /\ n \in 0..2 /\ n # 2
    BY <1>1, <1>3, <1>4, <2>1
  <2>3. QED
    BY ONLY <2>1, <2>2
<1>6. r = <<>>
  <2>1. ~ TopCompiles(a)
    BY <1>2 DEF TopCompiles, Compiles, IsScript
  <2>2. r \in Seq(Files) /\ Len(r) = n - n - 0
    BY <1>5, <2>1 DEF Shape, Running_
  <2>3. QED
    BY <2>2, <1>5, EmptySeq
<1>7. a[1] \in Loop
  BY <1>2, <1>5, ActCases
<1>8. a = <<a[1]>>
  BY <1>1, <1>2, <1>5
<1>9. Front(a) = <<>>
  <2>1. Front(a) \in Seq(Acts) /\ Len(Front(a)) = 0
    BY <1>1, <1>5, FrontIs
  <2>2. QED
    BY <2>1, EmptySeq
<1>10. ASSUME NEW l \in Loop PROVE [a EXCEPT ![Len(a)] = l] = <<l>>
  <2>1. l \in Acts
    BY DEF Acts
  <2>2. [a EXCEPT ![1] = l] = <<l>>
    BY <1>8, <1>5
  <2>3. QED
    BY <2>2, <1>5
<1>11. QED
  BY <1>5, <1>6, <1>7, <1>8, <1>9, <1>10

LEMMA HandlerOnTop ==
  ASSUME NEW a, NEW r, NEW n, Shape(a, r, n), a # <<>>, a[Len(a)].op = "handler"
  PROVE  /\ n = 2 /\ Len(a) = 2 /\ r = <<>>
         /\ a[1] \in Loop /\ a[1].stage = "handlers" /\ Front(a) = <<a[1]>>
<1>1. a \in Seq(Acts) /\ n \in 0..2 /\ Len(a) \in Nat \ {0} /\ n <= Len(a) /\ Bottom(a, n)
  BY FrontIs DEF Shape, Bottom
<1>2. a[Len(a)] \in Acts /\ ~ IsScript(a[Len(a)]) /\ ~ IsLoop(a[Len(a)])
  BY <1>1 DEF IsScript, IsLoop
<1>3. Len(a) <= n
  BY <1>1, <1>2 DEF Bottom, ScriptsAbove
<1>4. Len(a) # 1
  <2> SUFFICES ASSUME Len(a) = 1 PROVE FALSE
    OBVIOUS
  <2>1. n >= 1
    BY <1>1, <1>3
  <2>2. QED
    BY <2>1, <1>1, <1>2 DEF Bottom
<1>5. n = 2 /\ Len(a) = 2
  <2>1. PICK m \in Nat : m = Len(a)
    BY <1>1
  <2>2. m # 0 /\ n <= m /\ m <= n /\ n \in 0..2 /\ m # 1
    BY <1>1, <1>3, <1>4, <2>1
  <2>3. QED
    BY ONLY <2>1, <2>2
<1>6. r = <<>>
  <2>1. ~ TopCompiles(a)
    BY <1>2 DEF TopCompiles, Compiles, IsScript
  <2>2. r \in Seq(Files) /\ Len(r) = n - n - 0
    BY <1>5, <2>1 DEF Shape, Running_
  <2>3. QED
    BY <2>2, <1>5, EmptySeq
<1>7. a[1] \in Acts /\ IsLoop(a[1]) /\ a[1].stage = "handlers"
  BY <1>1, <1>5 DEF Bottom
<1>8. a[1] \in Loop
  BY <1>7, ActCases
<1>9. Front(a) = <<a[1]>>
  <2>3. Len(a) - 1 = 1 /\ a # <<>>
    BY <1>5
  <2>1. Front(a) \in Seq(Acts) /\ Len(Front(a)) = 1 /\ Same(a, Front(a), 1)
    BY <1>1, <2>3, FrontIs
  <2>2. Front(a)[1] = a[1]
    BY <2>1 DEF Same
  <2>4. QED
    BY <2>1, <2>2
<1>10. QED
  BY <1>5, <1>6, <1>7, <1>8, <1>9

----------------------------------------------------------------------------
(* The inductive invariant *)

\* Some number of activations lies below the scripts.
Stack == \E n \in 0..2 : Shape(acts, runningScripts, n)

\* No file is recorded twice, and none of those being executed is recorded.
Once(s) == \A j, k \in 1..Len(s) : s[j] = s[k] => j = k
NamesOnce(list) == \A j, k \in 1..Len(list) : list[j].fn = list[k].fn => j = k
Fresh ==
  /\ NamesOnce(modules) /\ NamesOnce(prevModules) /\ Once(runningScripts)
  /\ \A k \in 1..Len(runningScripts) : ~ Found(modules, runningScripts[k])
  /\ TopCompiles(acts) => /\ ~ Found(modules, Top.fn)
                          /\ checkCircularReferences(Top.fn)

\* The handlers called are the first ones of the list.
InHandlers(a) == a # <<>> /\ IsLoop(a[1]) /\ a[1].stage = "handlers"
Calls ==
  /\ Once(onModuleUnload)
  /\ IF InHandlers(acts)
       THEN /\ acts[1].n <= Len(onModuleUnload)
            /\ Len(called) = acts[1].i /\ acts[1].i <= acts[1].n
            /\ \A k \in 1..Len(called) : called[k] = onModuleUnload[k]
       ELSE called = <<>>
  /\ ~ HandlersRegister =>
       dropped = {} /\ (InHandlers(acts) => acts[1].n = Len(onModuleUnload))

\* What was loaded before a reload of all: a file is still to be loaded, or it is
\* loaded, or being loaded, or its failure is about to be noted.
InReload(a) == a # <<>> /\ a[1].op = "reload"
Seen(a, list, answer, f) ==
  \/ \E k \in 1..Len(a[1].todo) : a[1].todo[k] = f
  \/ /\ a[1].stage = "load"
     /\ \/ Found(list, f)
        \/ Len(a) > 1 /\ a[2].fn = f
        \/ Len(a) = 1 /\ answer = "fail"
Reloads ==
  /\ InReload(acts) => ~ last.ok /\ reloads <= MaxReloads
  /\ acts # <<>> /\ acts[1].op = "close" => reloads = MaxReloads + 1
  /\ reloads <= MaxReloads /\ last.all /\ last.ok =>
       \A k \in 1..Len(last.loaded) : Found(modules, last.loaded[k].fn)
  /\ InReload(acts) /\ last.all /\ acts[1].ok =>
       /\ acts[1].must
       /\ \A k \in 1..Len(last.loaded) : Seen(acts, modules, ret, last.loaded[k].fn)

IInv == TypeOK /\ Stack /\ Fresh /\ StorageReused /\ Calls /\ Reloads

----------------------------------------------------------------------------
(* What the innermost activation tells of the stack *)

LEMMA TopIs ==
  ASSUME TypeOK, ~ Idle
  PROVE  /\ acts \in Seq(Acts) /\ acts # <<>> /\ Len(acts) \in Nat \ {0}
         /\ Top = acts[Len(acts)] /\ Top \in Acts
<1>1. acts \in Seq(Acts) /\ acts # <<>>
  BY DEF TypeOK, Acts, Idle
<1>2. Len(acts) \in Nat \ {0}
  BY <1>1, FrontIs
<1>3. acts[Len(acts)] \in Acts
  BY <1>1, <1>2
<1>4. QED
  BY <1>1, <1>2, <1>3 DEF Top

\* A script on top: it is being compiled, or executes.
LEMMA ScriptOnTop ==
  ASSUME TypeOK, NEW s, AtStage("require", s)
  PROVE  /\ acts # <<>> /\ Top \in Script /\ IsScript(acts[Len(acts)])
         /\ Top = acts[Len(acts)] /\ Top.stage = s
         /\ s = "compile" <=> TopCompiles(acts)
<1>1. ~ Idle /\ Top.op = "require" /\ Top.stage = s
  BY DEF AtStage, At
<1>2. acts # <<>> /\ Top = acts[Len(acts)] /\ Top \in Acts
  BY <1>1, TopIs
<1>3. Top \in Script
  BY <1>1, <1>2, ActCases DEF IsScript
<1>4. QED
  BY <1>1, <1>2, <1>3 DEF IsScript, TopCompiles, Compiles

\* Where a script or a handler may load a module.
LEMMA MayLoad ==
  ASSUME TypeOK, NEW n, Shape(acts, runningScripts, n),
         Running \/ AtStage("require", "import")
  PROVE  ~ TopCompiles(acts) /\ Waits(acts, n) /\ acts # <<>> /\ ~ IsLoop(Top)
<1>1. acts # <<>> /\ Top = acts[Len(acts)] /\ Len(acts) \in Nat \ {0}
  BY TopIs DEF Running, AtStage, At
<1>2. ~ TopCompiles(acts) /\ ~ IsLoop(Top)
  BY <1>1, ScriptOnTop DEF Running, AtStage, At, TopCompiles, Compiles, IsLoop
<1>3. ASSUME n = 1, Len(acts) = 1 PROVE FALSE
  BY <1>1, <1>2, <1>3 DEF Shape, Bottom
<1>4. QED
  BY <1>1, <1>2, <1>3 DEF Waits

\* The scripts change; the stack keeps its shape.
LEMMA RequireStack ==
  ASSUME TypeOK, NEW n \in 0..2, NEW stay, Shape(stay, runningScripts, n),
         ~ TopCompiles(stay), Waits(stay, n),
         NEW f \in Files, NEW must, requireModule(f, must, stay),
         \A k \in 1..Len(prevModules) : prevModules[k].store \in Runs
  PROVE  Stack'
<1>1. runningScripts' = runningScripts
  BY DEF requireModule
<1>2. CASE acts' = stay
  BY <1>1, <1>2 DEF Stack
<1>3. CASE Compile(f, stay)
  <2> DEFINE x == [op |-> "require", fn |-> f, run |-> runs + 1,
                   store |-> setupStateStorage(f), stage |-> "compile"]
  <2>1. runs + 1 \in Runs
    <3>1. runs < MaxRuns
      BY ONLY <1>3 DEF Compile
    <3>2. runs \in 0..MaxRuns
      BY DEF TypeOK
    <3>3. QED
      BY ONLY <3>1, <3>2, BoundsAssumption DEF Runs
  <2>2. setupStateStorage(f) \in Runs
    <3>1. CASE Found(prevModules, f)
      <4>1. PICK k \in DOMAIN prevModules : prevModules[k].fn = f
        BY <3>1 DEF Found
      <4>2. (CHOOSE j \in DOMAIN prevModules : prevModules[j].fn = f) \in DOMAIN prevModules
        BY <4>1
      <4>3. DOMAIN prevModules = 1..Len(prevModules)
        BY DEF TypeOK
      <4>4. QED
        BY <3>1, <4>2, <4>3 DEF setupStateStorage
    <3>2. CASE ~ Found(prevModules, f)
      BY <3>2, <2>1 DEF setupStateStorage
    <3>3. QED
      BY <3>1, <3>2
  <2>3. x \in Script /\ Compiles(x)
    BY <2>1, <2>2 DEF Script, Compiles
  <2>4. acts' = Append(stay, x)
    BY <1>3 DEF Compile
  <2> HIDE DEF x
  <2>5. Shape(Append(stay, x), runningScripts, n)
    BY <2>3, PushScript
  <2>6. QED
    BY <1>1, <2>4, <2>5 DEF Stack
<1>4. QED
  BY <1>2, <1>3 DEF requireModule, Answer

\* A reload or the closing begins on the empty stack.
LEMMA BeginStack ==
  ASSUME TypeOK, NEW n, Shape(acts, runningScripts, n), Idle,
         NEW op \in {"reload", "close"}, NEW todo \in Seq(Files), NEW must \in BOOLEAN,
         Begin(op, todo, must)
  PROVE  Stack' /\ acts = <<>> /\ runningScripts = <<>> /\ runningScripts' = <<>>
<1> DEFINE l == [op |-> op, stage |-> "handlers", i |-> 0, n |-> Len(onModuleUnload),
                 todo |-> todo, must |-> must, ok |-> TRUE]
<1>1. acts = <<>>
  BY DEF Idle
<1>2. runningScripts = <<>> /\ runningScripts' = runningScripts
  BY <1>1, ShapeOfNone DEF Begin
<1>3. l \in Loop
  BY LenProperties DEF Loop, TypeOK
<1>4. acts' = <<l>>
  BY DEF Begin
<1> HIDE DEF l
<1>5. Shape(<<l>>, <<>>, 1)
  BY <1>3, ShapeOfLoop
<1>6. QED
  BY <1>1, <1>2, <1>4, <1>5 DEF Stack

\* The names of the modules, which a reload of all loads again.
LEMMA NamesOf ==
  ASSUME NEW list \in Seq(Module)
  PROVE  /\ [k \in DOMAIN list |-> list[k].fn] \in Seq(Files)
         /\ Len([k \in DOMAIN list |-> list[k].fn]) = Len(list)
         /\ \A k \in 1..Len(list) : [j \in DOMAIN list |-> list[j].fn][k] = list[k].fn
         /\ DOMAIN list = 1..Len(list) /\ Len(list) \in Nat
         /\ \A k \in 1..Len(list) : list[k] \in Module /\ list[k].fn \in Files /\ list[k].store \in Runs
<1>1. DOMAIN list = 1..Len(list) /\ Len(list) \in Nat
  OBVIOUS
<1>2. \A k \in 1..Len(list) : list[k] \in Module /\ list[k].fn \in Files /\ list[k].store \in Runs
  <2>1. \A k \in 1..Len(list) : list[k] \in Module
    OBVIOUS
  <2>2. QED
    BY <2>1 DEF Module
<1> DEFINE names == [k \in DOMAIN list |-> list[k].fn]
<1>3. names \in [1..Len(list) -> Files]
  BY <1>1, <1>2
<1>4. names \in Seq(Files) /\ Len(names) = Len(list)
  BY <1>1, <1>3
<1>5. QED
  BY <1>1, <1>2, <1>4

LEMMA CallHandlerIs ==
  ASSUME IInv, CallHandler
  PROVE  /\ Len(acts) = 1 /\ acts[1] \in Loop /\ acts[1].stage = "handlers"
         /\ acts[1].i < acts[1].n /\ acts[1].n <= Len(onModuleUnload)
         /\ acts[1].i + 1 \in 1..Len(onModuleUnload)
         /\ called' = Append(called, onModuleUnload[acts[1].i + 1])
         /\ \E l \in Loop, h \in Handler :
              /\ l = [acts[1] EXCEPT !.i = acts[1].i + 1] /\ l.stage = "handlers"
              /\ acts' = <<l, h>> /\ runningScripts' = <<>> /\ runningScripts = <<>>
<1>1. TypeOK
  BY DEF IInv
<1>2. PICK n \in 0..2 : Shape(acts, runningScripts, n)
  BY DEF IInv, Stack
<1>3. acts # <<>> /\ IsLoop(Top) /\ Top = acts[Len(acts)]
  BY <1>1, TopIs DEF CallHandler, AtStage, At, IsLoop
<1>4. /\ Len(acts) = 1 /\ runningScripts = <<>> /\ acts = <<acts[1]>> /\ acts[1] \in Loop
      /\ \A l \in Loop : [acts EXCEPT ![Len(acts)] = l] = <<l>>
  BY <1>2, <1>3, LoopOnTop
<1>5. Top = acts[1] /\ Top.stage = "handlers" /\ Top.i < Top.n
  BY <1>3, <1>4 DEF CallHandler, AtStage
<1>6. InHandlers(acts) /\ acts[1].n <= Len(onModuleUnload)
  BY <1>3, <1>4, <1>5 DEF IInv, Calls, InHandlers
<1>7. Top.i + 1 \in 1..Len(onModuleUnload)
  <2>1. acts[1].i \in Nat /\ acts[1].n \in Nat /\ Len(onModuleUnload) \in Nat
    BY <1>1, <1>4 DEF Loop, TypeOK
  <2>2. QED
    BY <1>5, <1>6, <2>1
<1>8. PICK t \in Loop : t = acts[1]
  BY <1>4
<1>9. PICK j \in Nat : j = t.i + 1
  BY <1>8 DEF Loop
<1>10. PICK l \in Loop : l = [t EXCEPT !.i = j]
  BY <1>8 DEF Loop
<1>11. l.stage = "handlers"
  BY <1>5, <1>8, <1>10 DEF Loop
<1>12. PICK h \in Handler : h = [op |-> "handler", run |-> onModuleUnload[Top.i + 1]]
  <2>1. onModuleUnload[Top.i + 1] \in Runs
    BY <1>1, <1>7 DEF TypeOK
  <2>2. QED
    BY <2>1 DEF Handler
<1>13. [acts EXCEPT ![Len(acts)].i = Top.i + 1] = <<l>>
  <2>1. [acts EXCEPT ![Len(acts)].i = j] = [acts EXCEPT ![Len(acts)] = l]
    BY <1>4, <1>8, <1>10
  <2>2. Top.i + 1 = j
    BY <1>5, <1>8, <1>9
  <2>3. QED
    BY <1>4, <2>1, <2>2
<1>14. acts' = Append(<<l>>, h)
  BY <1>12, <1>13 DEF CallHandler
<1>15. acts' = <<l, h>>
  BY <1>14, PairIs
<1>16. runningScripts' = <<>> /\ called' = Append(called, onModuleUnload[acts[1].i + 1])
  BY <1>4, <1>5 DEF CallHandler
<1>17. l = [acts[1] EXCEPT !.i = acts[1].i + 1]
  BY <1>8, <1>9, <1>10
<1>18. QED
  BY <1>4, <1>5, <1>6, <1>7, <1>11, <1>15, <1>16, <1>17

LEMMA StackNext ==
  ASSUME IInv, Next
  PROVE  Stack'
<1>1. TypeOK
  BY DEF IInv
<1>2. PICK n \in 0..2 : Shape(acts, runningScripts, n)
  BY DEF IInv, Stack
<1>3. \A k \in 1..Len(prevModules) : prevModules[k].store \in Runs
  BY <1>1, NamesOf DEF TypeOK
<1>4. ASSUME NEW f \in Files, Import(f) PROVE Stack'
  <2>1. ~ TopCompiles(acts) /\ Waits(acts, n)
    BY <1>1, <1>2, <1>4, MayLoad DEF Import
  <2>2. requireModule(f, TRUE, acts)
    BY <1>4 DEF Import
  <2>3. QED
    BY <1>1, <1>2, <1>3, <2>1, <2>2, RequireStack
<1>5. ASSUME NEW f \in Files, NEW must \in BOOLEAN, sqRequire(f, must) PROVE Stack'
  <2>1. ~ TopCompiles(acts) /\ Waits(acts, n)
    BY <1>1, <1>2, <1>5, MayLoad DEF sqRequire
  <2>2. requireModule(f, must, acts)
    BY <1>5 DEF sqRequire
  <2>3. QED
    BY <1>1, <1>2, <1>3, <2>1, <2>2, RequireStack
<1>6. ASSUME NEW f \in Files, NEW must \in BOOLEAN, HostRequire(f, must) PROVE Stack'
  <2>1. acts = <<>>
    BY <1>6 DEF HostRequire, Open, Idle
  <2>2. n = 0 /\ Shape(<<>>, runningScripts, n)
    BY <1>2, <2>1, ShapeOfNone
  <2>3. ~ TopCompiles(<<>>) /\ Waits(<<>>, n)
    BY <2>2 DEF TopCompiles, Waits
  <2>4. requireModule(f, must, <<>>)
    BY <1>6 DEF HostRequire
  <2>5. QED
    BY <1>1, <1>2, <1>3, <2>2, <2>3, <2>4, RequireStack
<1>7. ASSUME NEW f \in Files, NEW must \in BOOLEAN, reloadModule(f, must) PROVE Stack'
  <2>1. <<f>> \in Seq(Files)
    OBVIOUS
  <2>2. Idle /\ Begin("reload", <<f>>, must)
    BY <1>7 DEF reloadModule, Open
  <2>3. QED
    BY <1>1, <1>2, <2>1, <2>2, BeginStack
<1>8. CASE reloadAll
  <2> DEFINE todo == [k \in DOMAIN modules |-> modules[k].fn]
  <2>1. todo \in Seq(Files)
    BY <1>1, NamesOf DEF TypeOK
  <2>2. Idle /\ Begin("reload", todo, TRUE)
    BY <1>8 DEF reloadAll, Open
  <2> HIDE DEF todo
  <2>3. QED
    BY <1>1, <1>2, <2>1, <2>2, BeginStack
<1>9. CASE Close
  <2>1. <<>> \in Seq(Files)
    OBVIOUS
  <2>2. Idle /\ Begin("close", <<>>, FALSE)
    BY <1>9 DEF Close, Open
  <2>3. QED
    BY <1>1, <1>2, <2>1, <2>2, BeginStack
<1>10. CASE UNCHANGED <<acts, runningScripts>>
  BY <1>2, <1>10 DEF Stack
<1>11. CASE CompileFails
  <2>1. TopCompiles(acts)
    BY <1>1, <1>11, ScriptOnTop DEF CompileFails
  <2>2. Shape(Front(acts), runningScripts, n)
    BY <1>2, <2>1, PopCompiling
  <2>3. acts' = Front(acts) /\ runningScripts' = runningScripts
    BY <1>11 DEF CompileFails, Finish, Unchanged
  <2>4. QED
    BY <2>2, <2>3 DEF Stack
<1>12. CASE ImportsBegin \/ NoImports
  <2>1. /\ TopCompiles(acts) /\ Top \in Script /\ Top = acts[Len(acts)] /\ acts # <<>>
    BY <1>1, <1>12, ScriptOnTop DEF ImportsBegin, NoImports
  <2>2. PICK s \in {"import", "body"} : acts' = [acts EXCEPT ![Len(acts)] = [Top EXCEPT !.stage = s]]
    BY <1>12 DEF ImportsBegin, NoImports, BodyBegins, Put
  <2>3. PICK x \in Script : x = [Top EXCEPT !.stage = s]
    BY <2>1 DEF Script
  <2>4. x.fn = acts[Len(acts)].fn /\ ~ Compiles(x)
    BY <2>1, <2>3 DEF Script, Compiles
  <2>5. Shape([acts EXCEPT ![Len(acts)] = x], Append(runningScripts, x.fn), n)
    BY <1>2, <2>1, <2>4, BeginExecuting
  <2>6. runningScripts' = Append(runningScripts, x.fn)
    BY <1>12, <2>1, <2>4 DEF ImportsBegin, NoImports
  <2>7. QED
    BY <2>2, <2>3, <2>5, <2>6 DEF Stack
<1>13. CASE ImportsDone
  <2>1. /\ ~ TopCompiles(acts) /\ Top \in Script /\ Top = acts[Len(acts)] /\ acts # <<>>
        /\ IsScript(acts[Len(acts)])
    BY <1>1, <1>13, ScriptOnTop DEF ImportsDone
  <2>2. PICK x \in Script : x = [Top EXCEPT !.stage = "body"]
    BY <2>1 DEF Script
  <2>3. x.fn = acts[Len(acts)].fn /\ ~ Compiles(x)
    BY <2>1, <2>2 DEF Script, Compiles
  <2>4. Shape([acts EXCEPT ![Len(acts)] = x], runningScripts, n)
    BY <1>2, <2>1, <2>3, ContinueExecuting
  <2>5. /\ runningScripts \in Seq(Files) /\ runningScripts # <<>>
        /\ runningScripts[Len(runningScripts)] = Top.fn
    BY <1>2, <2>1, TopExecutes
  <2>6. runningScripts' = runningScripts
    BY <1>13, <2>5, Repushed DEF ImportsDone
  <2>7. acts' = [acts EXCEPT ![Len(acts)] = x]
    BY <1>13, <2>2 DEF ImportsDone, BodyBegins, Put
  <2>8. QED
    BY <2>4, <2>6, <2>7 DEF Stack
<1>14. CASE ImportFails \/ TranslateFails \/ BodyFails \/ BodyReturns
  <2>1. /\ ~ TopCompiles(acts) /\ acts # <<>> /\ IsScript(acts[Len(acts)])
    BY <1>1, <1>14, ScriptOnTop DEF ImportFails, TranslateFails, BodyFails, BodyReturns
  <2>2. Shape(Front(acts), Front(runningScripts), n)
    BY <1>2, <2>1, PopExecuting
  <2>3. acts' = Front(acts) /\ runningScripts' = Front(runningScripts)
    BY <1>14 DEF ImportFails, TranslateFails, BodyFails, BodyReturns, Finish
  <2>4. QED
    BY <2>2, <2>3 DEF Stack
<1>15. CASE CallHandler
  <2>1. PICK l \in Loop, h \in Handler :
          acts' = <<l, h>> /\ runningScripts' = <<>> /\ l.stage = "handlers"
    BY <1>15, CallHandlerIs
  <2>2. Shape(<<l, h>>, <<>>, 2)
    BY <2>1, ShapeOfHandler
  <2>3. QED
    BY <2>1, <2>2 DEF Stack
<1>16. CASE HandlerReturns
  <2>1. acts # <<>> /\ acts[Len(acts)].op = "handler"
    BY <1>1, <1>16, TopIs DEF HandlerReturns, At
  <2>2. /\ runningScripts = <<>> /\ acts[1] \in Loop /\ Front(acts) = <<acts[1]>>
    BY <1>2, <2>1, HandlerOnTop
  <2>3. acts' = <<acts[1]>> /\ runningScripts' = <<>>
    BY <1>16, <2>2 DEF HandlerReturns, Finish, Unchanged
  <2>4. Shape(<<acts[1]>>, <<>>, 1)
    BY <2>2, ShapeOfLoop
  <2>5. QED
    BY <2>3, <2>4 DEF Stack
<1>17. CASE HandlersDone \/ ReloadAnswered \/ ReloadEnds \/ Closed \/ ReloadRequires
  <2>1. acts # <<>> /\ IsLoop(acts[Len(acts)]) /\ Top = acts[Len(acts)]
    BY <1>1, <1>17, TopIs
       DEF HandlersDone, ReloadAnswered, ReloadEnds, Closed, ReloadRequires, AtStage, At, IsLoop
  <2>2. /\ Len(acts) = 1 /\ runningScripts = <<>> /\ acts[1] \in Loop /\ Front(acts) = <<>>
        /\ \A l \in Loop : [acts EXCEPT ![Len(acts)] = l] = <<l>>
    BY <1>2, <2>1, LoopOnTop
  <2>3. Top \in Loop
    BY <2>1, <2>2
  <2>4. CASE HandlersDone
    <3>1. PICK l \in Loop : l = [Top EXCEPT !.stage = "load"]
      BY <2>3 DEF Loop
    <3>2. acts' = <<l>> /\ runningScripts' = <<>>
      BY <2>2, <2>4, <3>1 DEF HandlersDone, Put
    <3>3. QED
      BY <3>2, ShapeOfLoop DEF Stack
  <2>5. CASE ReloadAnswered
    <3>1. PICK l \in Loop : l = [Top EXCEPT !.ok = @ /\ ret = "ok"]
      BY <2>3 DEF Loop
    <3>2. acts' = <<l>> /\ runningScripts' = <<>>
      BY <2>2, <2>5, <3>1 DEF ReloadAnswered, Put, Unchanged
    <3>3. QED
      BY <3>2, ShapeOfLoop DEF Stack
  <2>6. CASE ReloadEnds \/ Closed
    <3>1. acts' = <<>> /\ runningScripts' = <<>>
      BY <2>2, <2>6 DEF ReloadEnds, Closed, Finish
    <3>2. QED
      BY <3>1, ShapeOfNone DEF Stack
  <2>7. CASE ReloadRequires
    <3>1. Top.todo \in Seq(Files) /\ Top.todo # <<>> /\ Top.must \in BOOLEAN
          /\ Top.op = "reload" /\ Top.stage = "load"
      BY <2>3, <2>7 DEF Loop, ReloadRequires, AtStage, At
    <3>2. Tail(Top.todo) \in Seq(Files) /\ Head(Top.todo) \in Files
      BY <3>1, HeadTailProperties
    <3>3. PICK l \in Loop : l = [Top EXCEPT !.todo = Tail(@)]
      BY <2>3, <3>2 DEF Loop
    <3>4. l.op = "reload" /\ l.stage = "load"
      BY <2>3, <3>1, <3>3 DEF Loop
    <3>5. requireModule(Head(Top.todo), Top.must, <<l>>)
      BY <2>7, <3>3 DEF ReloadRequires
    <3>6. Shape(<<l>>, runningScripts, 1) /\ Waits(<<l>>, 1)
      BY <2>2, <3>4, ShapeOfLoop DEF Waits
    <3>7. ~ TopCompiles(<<l>>)
      BY <3>4 DEF TopCompiles, Compiles
    <3>8. 1 \in 0..2
      OBVIOUS
    <3>9. QED
      BY <1>1, <1>3, <3>2, <3>5, <3>6, <3>7, <3>8, RequireStack
  <2>8. QED
    BY <1>17, <2>4, <2>5, <2>6, <2>7
<1>18. ImportAnswered \/ GoesOn \/ persist_state \/ register_on_module_unload
         \/ (\E f \in Volatile : ChangeDisk(f)) => UNCHANGED <<acts, runningScripts>>
  BY DEF ImportAnswered, GoesOn, persist_state, register_on_module_unload, ChangeDisk, Unchanged
<1>19. QED
  BY <1>4, <1>5, <1>6, <1>7, <1>8, <1>9, <1>10, <1>11, <1>12, <1>13, <1>14, <1>15, <1>16,
     <1>17, <1>18 DEF Next

----------------------------------------------------------------------------
(* Types *)

LEMMA TypeNext ==
  ASSUME IInv, Next
  PROVE  TypeOK'
<1>1. TypeOK
  BY DEF IInv
<1>2. PICK n \in 0..2 : Shape(acts, runningScripts, n)
  BY DEF IInv, Stack
<1>3. acts' \in Seq(Script \cup Handler \cup Loop) /\ runningScripts' \in Seq(Files)
  BY StackNext DEF Stack, Shape, Bottom, Running_, Acts
<1> DEFINE Rest == /\ files' \subseteq Files /\ storage' \in [Runs -> 0..MaxRuns]
                   /\ modules' \in Seq(Module) /\ prevModules' \in Seq(Module)
                   /\ onModuleUnload' \in Seq(Runs)
                   /\ ret' \in {"none", "ok", "fail"}
                   /\ runs' \in 0..MaxRuns /\ reloads' \in 0..MaxReloads + 1
                   /\ called' \in Seq(Runs) /\ dropped' \subseteq Runs
                   /\ last' \in [loaded: Seq(Module), all: BOOLEAN, ok: BOOLEAN]
                   /\ kept' \in [Files -> 0..MaxRuns]
<1>4. ASSUME NEW f, NEW must, NEW stay, requireModule(f, must, stay) PROVE Rest
  <2>1. UNCHANGED <<disk, lists, reloads, ghosts>>
    BY <1>4 DEF requireModule
  <2>2. ret' \in {"none", "ok", "fail"} /\ runs' \in 0..MaxRuns
    <3>1. (\E r \in {"ok", "fail"} : Answer(r, stay)) \/ Compile(f, stay)
      BY <1>4 DEF requireModule
    <3>2. CASE \E r \in {"ok", "fail"} : Answer(r, stay)
      BY <1>1, <3>2 DEF Answer, TypeOK
    <3>3. CASE Compile(f, stay)
      BY <1>1, <3>3, BoundsAssumption DEF Compile, TypeOK
    <3>4. QED
      BY <3>1, <3>2, <3>3
  <2>3. QED
    BY <1>1, <2>1, <2>2 DEF TypeOK, disk, lists, ghosts
<1>5. ASSUME NEW f \in Files, \/ Import(f)
                              \/ \E must \in BOOLEAN : sqRequire(f, must) \/ HostRequire(f, must)
      PROVE  Rest
  BY <1>4, <1>5 DEF Import, sqRequire, HostRequire
<1>6. ASSUME ReloadRequires PROVE Rest
  BY <1>4, <1>6 DEF ReloadRequires
<1>7. ASSUME \/ CompileFails \/ ImportsBegin \/ ImportAnswered \/ ImportFails
             \/ NoImports \/ ImportsDone \/ TranslateFails
             \/ GoesOn \/ BodyFails \/ HandlerReturns \/ ReloadAnswered
      PROVE  Rest
  <2>1. UNCHANGED <<disk, lists, runs, reloads, ghosts>>
    BY <1>7 DEF CompileFails, ImportsBegin, ImportAnswered, ImportFails, NoImports, ImportsDone,
       TranslateFails, GoesOn, BodyFails, HandlerReturns, ReloadAnswered, BodyBegins, Unchanged
  <2>2. ret' \in {ret, "none", "fail"}
    BY <1>7 DEF CompileFails, ImportsBegin, ImportAnswered, ImportFails, NoImports, ImportsDone,
       TranslateFails, GoesOn, BodyFails, HandlerReturns, ReloadAnswered, BodyBegins, Unchanged,
       Finish
  <2>3. QED
    BY <1>1, <2>1, <2>2 DEF TypeOK, disk, lists, ghosts
<1>8. ASSUME BodyReturns PROVE Rest
  <2>1. Top \in Script
    BY <1>1, <1>8, ScriptOnTop DEF BodyReturns
  <2>2. Top.fn \in Files /\ Top.store \in Runs
    BY <2>1 DEF Script
  <2>3. [fn |-> Top.fn, store |-> Top.store] \in Module
    BY <2>2 DEF Module
  <2>4. modules' \in Seq(Module)
    BY <1>1, <1>8, <2>3 DEF BodyReturns, TypeOK
  <2>5. kept' \in [Files -> 0..MaxRuns]
    BY <1>1, <1>8, <2>2 DEF BodyReturns, TypeOK
  <2>6. ret' \in {"none", "ok"}
    BY <1>8 DEF BodyReturns, Finish
  <2>7. UNCHANGED <<disk, prevModules, onModuleUnload, runs, reloads, called, dropped, last>>
    BY <1>8 DEF BodyReturns
  <2>8. QED
    BY <1>1, <2>4, <2>5, <2>6, <2>7 DEF TypeOK, disk
<1>9. ASSUME persist_state PROVE Rest
  <2>1. Top \in Script
    BY <1>1, <1>9, ScriptOnTop DEF persist_state
  <2>2. Top.run \in 0..MaxRuns /\ Top.store \in Runs
    BY <2>1 DEF Script, Runs
  <2>3. storage' \in [Runs -> 0..MaxRuns]
    BY <1>1, <1>9, <2>2 DEF persist_state, TypeOK
  <2>4. UNCHANGED <<files, lists, ret, runs, reloads, ghosts>>
    BY <1>9 DEF persist_state
  <2>5. QED
    BY <1>1, <2>3, <2>4 DEF TypeOK, lists, ghosts
<1>10. ASSUME register_on_module_unload PROVE Rest
  <2>1. Top \in Script
    BY <1>1, <1>10, ScriptOnTop DEF register_on_module_unload
  <2>2. Top.run \in Runs
    BY <2>1 DEF Script
  <2>3. onModuleUnload' \in Seq(Runs)
    BY <1>1, <1>10, <2>2 DEF register_on_module_unload, TypeOK
  <2>4. UNCHANGED <<disk, modules, prevModules, ret, runs, reloads, ghosts>>
    BY <1>10 DEF register_on_module_unload
  <2>5. QED
    BY <1>1, <2>3, <2>4 DEF TypeOK, disk, ghosts
<1>11. ASSUME NEW f \in Volatile, ChangeDisk(f) PROVE Rest
  <2>1. files' \subseteq Files
    BY <1>1, <1>11, FilesAssumption DEF ChangeDisk, TypeOK
  <2>2. UNCHANGED <<storage, lists, ret, runs, reloads, ghosts>>
    BY <1>11 DEF ChangeDisk
  <2>3. QED
    BY <1>1, <2>1, <2>2 DEF TypeOK, lists, ghosts
<1>12. ASSUME CallHandler PROVE Rest
  <2>1. acts[1].i + 1 \in 1..Len(onModuleUnload)
        /\ called' = Append(called, onModuleUnload[acts[1].i + 1])
    BY <1>12, CallHandlerIs
  <2>6. PICK k \in 1..Len(onModuleUnload) : k = acts[1].i + 1
    BY <2>1
  <2>2. onModuleUnload[k] \in Runs
    BY <1>1 DEF TypeOK
  <2>7. called' = Append(called, onModuleUnload[k])
    BY <2>1, <2>6
  <2>3. called' \in Seq(Runs)
    BY <1>1, <2>2, <2>7 DEF TypeOK
  <2>4. UNCHANGED <<disk, lists, ret, runs, reloads, dropped, last, kept>>
    BY <1>12 DEF CallHandler
  <2>5. QED
    BY <1>1, <2>3, <2>4 DEF TypeOK, disk, lists
<1>13. ASSUME \/ \E f \in Files, must \in BOOLEAN : reloadModule(f, must)
              \/ reloadAll \/ Close
       PROVE  Rest
  <2>1. prevModules' = modules /\ modules' = <<>>
        /\ UNCHANGED <<disk, onModuleUnload, ret, runs, called, dropped, kept>>
    BY <1>13 DEF reloadModule, reloadAll, Close, Begin
  <2>2. reloads' \in 0..MaxReloads + 1
    <3>1. MaxReloads \in Nat /\ reloads \in Nat
      BY <1>1, BoundsAssumption DEF TypeOK
    <3>2. (reloads < MaxReloads /\ reloads' = reloads + 1) \/ reloads' = MaxReloads + 1
      BY <1>13 DEF reloadModule, reloadAll, Close
    <3>3. QED
      BY <3>1, <3>2
  <2>3. last' \in [loaded: Seq(Module), all: BOOLEAN, ok: BOOLEAN]
    <3>1. last' \in {last, [loaded |-> modules, all |-> TRUE, ok |-> FALSE],
                           [loaded |-> modules, all |-> FALSE, ok |-> FALSE]}
      BY <1>13 DEF reloadModule, reloadAll, Close
    <3>2. last \in [loaded: Seq(Module), all: BOOLEAN, ok: BOOLEAN] /\ modules \in Seq(Module)
      BY <1>1 DEF TypeOK
    <3>3. \A ms \in Seq(Module), all \in BOOLEAN :
            [loaded |-> ms, all |-> all, ok |-> FALSE] \in [loaded: Seq(Module), all: BOOLEAN, ok: BOOLEAN]
      OBVIOUS
    <3>4. CASE last' = last
      BY <3>2, <3>4
    <3>5. CASE last' = [loaded |-> modules, all |-> TRUE, ok |-> FALSE]
      BY <3>2, <3>3, <3>5
    <3>6. CASE last' = [loaded |-> modules, all |-> FALSE, ok |-> FALSE]
      BY <3>2, <3>3, <3>6
    <3>7. QED
      BY <3>1, <3>4, <3>5, <3>6
  <2>4. QED
    BY <1>1, <2>1, <2>2, <2>3 DEF TypeOK, disk
<1>14. ASSUME HandlersDone \/ Closed PROVE Rest
  <2>1. onModuleUnload' = <<>> /\ called' = <<>> /\ dropped' \subseteq Runs
    <3>1. ToSet(onModuleUnload) \subseteq Runs
      BY <1>1 DEF TypeOK, ToSet
    <3>2. QED
      BY <1>1, <1>14, <3>1 DEF HandlersDone, Closed, ClearHandlers, TypeOK
  <2>2. modules' \in Seq(Module) /\ prevModules' \in Seq(Module) /\ ret' \in {ret, "none"}
    <3>1. modules' \in {modules, <<>>} /\ prevModules' \in {prevModules, <<>>} /\ ret' \in {ret, "none"}
      BY <1>1, <1>14 DEF HandlersDone, Closed, Finish
    <3>2. <<>> \in Seq(Module)
      OBVIOUS
    <3>3. QED
      BY <1>1, <3>1, <3>2 DEF TypeOK
  <2>3. UNCHANGED <<disk, runs, reloads, last, kept>>
    BY <1>14 DEF HandlersDone, Closed
  <2>4. QED
    BY <1>1, <2>1, <2>2, <2>3 DEF TypeOK, disk
<1>15. ASSUME ReloadEnds PROVE Rest
  <2>1. acts # <<>> /\ IsLoop(acts[Len(acts)]) /\ Top = acts[Len(acts)]
    BY <1>1, <1>15, TopIs DEF ReloadEnds, AtStage, At, IsLoop
  <2>2. Top.ok \in BOOLEAN
    BY <1>2, <2>1, LoopOnTop DEF Loop
  <2>3. last' \in [loaded: Seq(Module), all: BOOLEAN, ok: BOOLEAN]
    BY <1>1, <1>15, <2>2 DEF ReloadEnds, TypeOK
  <2>4. prevModules' = <<>> /\ ret' = "none"
        /\ UNCHANGED <<disk, modules, onModuleUnload, runs, reloads, called, dropped, kept>>
    BY <1>15 DEF ReloadEnds, Finish
  <2>5. QED
    BY <1>1, <2>3, <2>4 DEF TypeOK, disk
<1> HIDE DEF Rest
<1>16. Rest
  BY <1>5, <1>6, <1>7, <1>8, <1>9, <1>10, <1>11, <1>12, <1>13, <1>14, <1>15 DEF Next
<1>17. QED
  BY <1>3, <1>16 DEF TypeOK, Rest

----------------------------------------------------------------------------
(* No file is recorded or executed twice *)

\* The step loads a file, for a stack that waits for it.
Loads(f, must, stay) ==
  /\ requireModule(f, must, stay) /\ stay \in Seq(Acts) /\ ~ TopCompiles(stay)
  /\ \A x \in ToSet(stay) : IsScript(x) => x \in ToSet(acts)
  /\ \/ stay = acts /\ (acts # <<>> => ~ IsLoop(Top))
     \/ /\ Len(acts) = 1 /\ acts[1] \in Loop
        /\ acts[1].op = "reload" /\ acts[1].stage = "load" /\ ret = "none"
        /\ acts[1].todo # <<>> /\ f = Head(acts[1].todo) /\ must = acts[1].must
        /\ stay = <<[acts[1] EXCEPT !.todo = Tail(@)]>>

\* A reload begins, or the closing.
Begins == \/ \E f \in Files, must \in BOOLEAN : reloadModule(f, must)
          \/ reloadAll \/ Close

\* A script is compiled because it was, or because the step loads it.
LEMMA WhoLoads ==
  ASSUME IInv, Next
  PROVE  \/ \E f \in Files, must \in BOOLEAN, stay \in Seq(Acts) : Loads(f, must, stay)
         \/ /\ UNCHANGED <<acts, modules, prevModules, runningScripts>>
            /\ ret' = ret \/ ~ IsLoop(Top)
         \/ /\ ~ TopCompiles(acts')
            /\ \/ CompileFails \/ ImportsBegin \/ NoImports \/ ImportsDone
               \/ ImportFails \/ TranslateFails \/ BodyFails \/ BodyReturns
               \/ CallHandler \/ HandlerReturns \/ HandlersDone \/ ReloadAnswered
               \/ ReloadEnds \/ Closed
               \/ /\ Begins /\ acts = <<>> /\ modules' = <<>> /\ prevModules' = modules
                  /\ runningScripts' = <<>> /\ \A x \in ToSet(acts') : ~ IsScript(x)
<1>1. TypeOK
  BY DEF IInv
<1>2. PICK n \in 0..2 : Shape(acts, runningScripts, n)
  BY DEF IInv, Stack
<1>3. ASSUME NEW f \in Files, NEW must \in BOOLEAN,
             \/ Import(f) /\ must = TRUE
             \/ sqRequire(f, must)
      PROVE  Loads(f, must, acts)
  <2>1. ~ TopCompiles(acts) /\ ~ IsLoop(Top)
    BY <1>1, <1>2, <1>3, MayLoad DEF Import, sqRequire
  <2>2. requireModule(f, must, acts) /\ acts \in Seq(Acts)
    BY <1>1, <1>3 DEF Import, sqRequire, TypeOK, Acts
  <2>3. QED
    BY <2>1, <2>2 DEF Loads
<1>4. ASSUME NEW f \in Files, NEW must \in BOOLEAN, HostRequire(f, must)
      PROVE  Loads(f, must, <<>>) /\ <<>> \in Seq(Acts)
  BY <1>4 DEF HostRequire, Loads, TopCompiles, ToSet, Open, Idle
<1>5. ASSUME ReloadRequires
      PROVE  \E f \in Files, must \in BOOLEAN, stay \in Seq(Acts) : Loads(f, must, stay)
  <2>1. acts # <<>> /\ IsLoop(acts[Len(acts)]) /\ Top = acts[Len(acts)]
    BY <1>1, <1>5, TopIs DEF ReloadRequires, AtStage, At, IsLoop
  <2>2. Top \in Loop /\ Top.op = "reload" /\ Top.todo # <<>>
    BY <1>2, <1>5, <2>1, LoopOnTop DEF ReloadRequires, AtStage, At
  <2>3. Top.todo \in Seq(Files) /\ Top.must \in BOOLEAN
    BY <2>2 DEF Loop
  <2>4. Tail(Top.todo) \in Seq(Files) /\ Head(Top.todo) \in Files
    BY <2>2, <2>3, HeadTailProperties
  <2>5. PICK l \in Loop : l = [Top EXCEPT !.todo = Tail(@)]
    BY <2>2, <2>4 DEF Loop
  <2> DEFINE stay == <<l>>
  <2>6. /\ <<l>> \in Seq(Acts) /\ ~ TopCompiles(<<l>>)
        /\ \A x \in ToSet(<<l>>) : ~ IsScript(x)
    <3>1. l \in Acts /\ l.op # "require"
      BY DEF Acts, Loop
    <3>2. \A x \in ToSet(<<l>>) : x = l
      BY DEF ToSet
    <3>3. QED
      BY <3>1, <3>2 DEF TopCompiles, Compiles, IsScript
  <2>7. requireModule(Head(Top.todo), Top.must, <<l>>)
    BY <1>5, <2>5 DEF ReloadRequires
  <2>8. Len(acts) = 1 /\ acts[1] = Top /\ Top.stage = "load" /\ ret = "none"
    BY <1>2, <1>5, <2>1, LoopOnTop DEF ReloadRequires, AtStage, Going
  <2>9. stay \in Seq(Acts) /\ Loads(Head(Top.todo), Top.must, stay)
    BY <2>2, <2>5, <2>6, <2>7, <2>8 DEF Loads, stay
  <2>10. QED
    BY <2>3, <2>4, <2>9
<1>6. ASSUME NEW op \in {"reload", "close"}, NEW todo, NEW must, Idle, Begin(op, todo, must)
      PROVE  /\ ~ TopCompiles(acts')
             /\ acts = <<>> /\ modules' = <<>> /\ prevModules' = modules
             /\ runningScripts' = <<>> /\ \A x \in ToSet(acts') : ~ IsScript(x)
  <2>1. acts = <<>>
    BY <1>6 DEF Idle
  <2>2. runningScripts' = <<>>
    BY <1>2, <1>6, <2>1, ShapeOfNone DEF Begin
  <2>3. ~ TopCompiles(acts') /\ \A x \in ToSet(acts') : ~ IsScript(x)
    BY <1>6 DEF Begin, TopCompiles, Compiles, IsScript, ToSet
  <2>4. QED
    BY <1>6, <2>1, <2>2, <2>3 DEF Begin
<1>7. ASSUME Begins
      PROVE  /\ ~ TopCompiles(acts')
             /\ acts = <<>> /\ modules' = <<>> /\ prevModules' = modules
             /\ runningScripts' = <<>> /\ \A x \in ToSet(acts') : ~ IsScript(x)
  BY <1>6, <1>7 DEF Begins, reloadModule, reloadAll, Close, Open
<1>8. ASSUME CompileFails PROVE ~ TopCompiles(acts')
  <2>1. TopCompiles(acts) /\ acts # <<>> /\ IsScript(acts[Len(acts)])
    BY <1>1, <1>8, ScriptOnTop DEF CompileFails
  <2>2. n < Len(acts)
    BY <1>2, <2>1, FrontIs DEF Shape, Bottom, IsScript
  <2>3. QED
    BY <1>2, <1>8, <2>1, <2>2, FrontNotCompiles DEF CompileFails, Finish
<1>9. ASSUME ImportFails \/ TranslateFails \/ BodyFails \/ BodyReturns
      PROVE  ~ TopCompiles(acts')
  <2>1. acts # <<>> /\ IsScript(acts[Len(acts)])
    BY <1>1, <1>9, ScriptOnTop DEF ImportFails, TranslateFails, BodyFails, BodyReturns
  <2>2. n < Len(acts)
    BY <1>2, <2>1, FrontIs DEF Shape, Bottom, IsScript
  <2>3. acts' = Front(acts)
    BY <1>9 DEF ImportFails, TranslateFails, BodyFails, BodyReturns, Finish
  <2>4. QED
    BY <1>2, <2>1, <2>2, <2>3, FrontNotCompiles
<1>10. ASSUME NEW x \in Acts, Put(x), ~ Compiles(x), ~ Idle PROVE ~ TopCompiles(acts')
  <2>1. acts \in Seq(Acts) /\ acts # <<>>
    BY <1>1, <1>10, TopIs
  <2>2. Len(acts') = Len(acts) /\ acts'[Len(acts)] = x
    BY <1>10, <2>1, PutIs DEF Put
  <2>3. QED
    BY <1>10, <2>2 DEF TopCompiles
<1>11. ASSUME ImportsBegin \/ NoImports \/ ImportsDone PROVE ~ TopCompiles(acts')
  <2>1. Top \in Script /\ ~ Idle
    BY <1>1, <1>11, ScriptOnTop DEF ImportsBegin, NoImports, ImportsDone, AtStage, At
  <2>2. PICK s \in {"import", "body"} : Put([Top EXCEPT !.stage = s])
    BY <1>11 DEF ImportsBegin, NoImports, ImportsDone, BodyBegins
  <2>3. [Top EXCEPT !.stage = s] \in Acts /\ ~ Compiles([Top EXCEPT !.stage = s])
    BY <2>1 DEF Acts, Script, Compiles
  <2>4. QED
    BY <1>10, <2>1, <2>2, <2>3
<1>12. ASSUME CallHandler PROVE ~ TopCompiles(acts')
  <2>1. PICK l \in Loop, h \in Handler : acts' = <<l, h>>
    BY <1>12, CallHandlerIs
  <2>2. QED
    BY <2>1 DEF TopCompiles, Compiles, Handler
<1>13. ASSUME HandlerReturns PROVE ~ TopCompiles(acts')
  <2>1. acts # <<>> /\ acts[Len(acts)].op = "handler"
    BY <1>1, <1>13, TopIs DEF HandlerReturns, At
  <2>2. acts[1] \in Loop /\ acts' = <<acts[1]>>
    BY <1>2, <1>13, <2>1, HandlerOnTop DEF HandlerReturns, Finish
  <2>3. QED
    BY <2>2 DEF TopCompiles, Compiles, Loop
<1>14. ASSUME HandlersDone \/ ReloadAnswered PROVE ~ TopCompiles(acts')
  <2>1. acts # <<>> /\ IsLoop(acts[Len(acts)]) /\ Top = acts[Len(acts)] /\ ~ Idle
    BY <1>1, <1>14, TopIs DEF HandlersDone, ReloadAnswered, AtStage, At, IsLoop
  <2>2. Top \in Loop
    BY <1>2, <2>1, LoopOnTop
  <2>3. PICK x \in Loop : Put(x)
    <3>1. [Top EXCEPT !.stage = "load"] \in Loop
      BY <2>2 DEF Loop
    <3>2. [Top EXCEPT !.ok = @ /\ ret = "ok"] \in Loop
      BY <2>2 DEF Loop
    <3>3. QED
      BY <1>14, <3>1, <3>2 DEF HandlersDone, ReloadAnswered
  <2>4. x \in Acts /\ ~ Compiles(x)
    BY DEF Acts, Loop, Compiles
  <2>5. QED
    BY <1>10, <2>1, <2>3, <2>4
<1>15. ASSUME ReloadEnds \/ Closed PROVE ~ TopCompiles(acts')
  <2>1. acts # <<>> /\ IsLoop(acts[Len(acts)])
    BY <1>1, <1>15, TopIs DEF ReloadEnds, Closed, AtStage, At, IsLoop
  <2>2. acts' = <<>>
    BY <1>2, <1>15, <2>1, LoopOnTop DEF ReloadEnds, Closed, Finish
  <2>3. QED
    BY <2>2 DEF TopCompiles
<1>16. ASSUME ImportAnswered \/ GoesOn \/ persist_state \/ register_on_module_unload
               \/ (\E f \in Volatile : ChangeDisk(f))
       PROVE  /\ UNCHANGED <<acts, modules, prevModules, runningScripts>>
              /\ ret' = ret \/ ~ IsLoop(Top)
  BY <1>16 DEF ImportAnswered, GoesOn, persist_state, register_on_module_unload, ChangeDisk,
     Unchanged, lists, Running, AtStage, At, IsLoop
<1>17. acts \in Seq(Acts)
  BY <1>1 DEF TypeOK, Acts
<1>18. QED
  BY <1>3, <1>4, <1>5, <1>7, <1>8, <1>9, <1>11, <1>12, <1>13, <1>14, <1>15, <1>16, <1>17 DEF Next, Begins

LEMMA OnceFront ==
  ASSUME NEW S, NEW s \in Seq(S), s # <<>>, Once(s)
  PROVE  /\ Once(Front(s))
         /\ \A k \in 1..Len(Front(s)) : k \in 1..Len(s) /\ Front(s)[k] = s[k] /\ s[k] # s[Len(s)]
<1>1. /\ Len(Front(s)) = Len(s) - 1 /\ Same(s, Front(s), Len(s) - 1)
      /\ Len(s) \in Nat \ {0}
  BY FrontIs
<1>2. \A k \in 1..Len(Front(s)) : k \in 1..Len(s) /\ k # Len(s) /\ Front(s)[k] = s[k]
  BY <1>1 DEF Same
<1>3. Len(s) \in 1..Len(s)
  BY <1>1
<1>4. QED
  BY <1>2, <1>3 DEF Once

LEMMA OnceAppend ==
  ASSUME NEW S, NEW s \in Seq(S), NEW x \in S, Once(s), \A k \in 1..Len(s) : s[k] # x
  PROVE  Once(Append(s, x))
<1>1. /\ Len(Append(s, x)) = Len(s) + 1 /\ Append(s, x)[Len(s) + 1] = x
      /\ Same(s, Append(s, x), Len(s)) /\ Len(s) \in Nat
  BY AppendIs
<1> DEFINE b == Append(s, x)
<1> HIDE DEF b
<1>2. SUFFICES ASSUME NEW j \in 1..Len(b), NEW k \in 1..Len(b), b[j] = b[k] PROVE j = k
  BY DEF Once, b
<1>3. \A i \in 1..Len(b) : (i \in 1..Len(s) /\ b[i] = s[i]) \/ (i = Len(s) + 1 /\ b[i] = x)
  BY <1>1 DEF Same, b
<1>4. QED
  BY <1>2, <1>3 DEF Once

\* The same for the names of a list of modules.
LEMMA NamesOnceAppend ==
  ASSUME NEW s \in Seq(Module), NEW x \in Module, NamesOnce(s), ~ Found(s, x.fn)
  PROVE  /\ NamesOnce(Append(s, x)) /\ Append(s, x) \in Seq(Module)
         /\ \A f : Found(Append(s, x), f) <=> Found(s, f) \/ f = x.fn
         /\ \A k \in 1..Len(Append(s, x)) :
              (k \in 1..Len(s) /\ Append(s, x)[k] = s[k]) \/ Append(s, x)[k] = x
<1> DEFINE b == Append(s, x)
<1>1. /\ b \in Seq(Module) /\ Len(b) = Len(s) + 1 /\ b[Len(s) + 1] = x
      /\ Same(s, b, Len(s)) /\ Len(s) \in Nat
  BY AppendIs
<1> HIDE DEF b
<1>2. \A i \in 1..Len(b) : (i \in 1..Len(s) /\ b[i] = s[i]) \/ (i = Len(s) + 1 /\ b[i] = x)
  BY <1>1 DEF Same
<1>3. DOMAIN s = 1..Len(s) /\ DOMAIN b = 1..Len(b)
  BY <1>1
<1>4. NamesOnce(b)
  <2> SUFFICES ASSUME NEW j \in 1..Len(b), NEW k \in 1..Len(b), b[j].fn = b[k].fn PROVE j = k
    BY DEF NamesOnce
  <2>1. \A i \in 1..Len(s) : s[i].fn # x.fn
    BY <1>3 DEF Found
  <2>2. QED
    BY <1>2, <2>1 DEF NamesOnce
<1>5. ASSUME NEW f PROVE Found(b, f) <=> Found(s, f) \/ f = x.fn
  <2>1. ASSUME Found(b, f) PROVE Found(s, f) \/ f = x.fn
    BY <1>2, <1>3, <2>1 DEF Found
  <2>2. ASSUME Found(s, f) PROVE Found(b, f)
    <3>1. PICK k \in 1..Len(s) : s[k].fn = f
      BY <1>3, <2>2 DEF Found
    <3>2. k \in 1..Len(b) /\ b[k] = s[k]
      BY <1>1, <3>1 DEF Same
    <3>3. QED
      BY <1>3, <3>1, <3>2 DEF Found
  <2>3. ASSUME f = x.fn PROVE Found(b, f)
    <3>1. Len(s) + 1 \in 1..Len(b)
      BY <1>1
    <3>2. QED
      BY <1>1, <1>3, <2>3, <3>1 DEF Found
  <2>4. QED
    BY <2>1, <2>2, <2>3
<1>6. QED
  BY <1>1, <1>2, <1>4, <1>5 DEF b

LEMMA FreshNext ==
  ASSUME IInv, Next
  PROVE  Fresh'
<1>1. TypeOK /\ Fresh
  BY DEF IInv
<1>2. PICK n \in 0..2 : Shape(acts, runningScripts, n)
  BY DEF IInv, Stack
<1>3. ASSUME NEW f \in Files, NEW must, NEW stay, Loads(f, must, stay) PROVE Fresh'
  <2>1. UNCHANGED <<modules, prevModules, runningScripts>> /\ stay \in Seq(Acts) /\ ~ TopCompiles(stay)
    BY <1>3 DEF Loads, requireModule, lists
  <2>2. CASE acts' = stay
    BY <1>1, <2>1, <2>2 DEF Fresh, Found
  <2>3. CASE Compile(f, stay) /\ checkCircularReferences(f) /\ ~ Found(modules, f)
    <3> DEFINE x == [op |-> "require", fn |-> f, run |-> runs + 1,
                     store |-> setupStateStorage(f), stage |-> "compile"]
    <3>1. acts' = Append(stay, x)
      BY <2>3 DEF Compile
    <3>2. acts'[Len(acts')] = x
      <4>1. stay \in Seq(Acts \cup {x}) /\ x \in Acts \cup {x}
        BY <2>1
      <4> HIDE DEF x
      <4>2. QED
        BY <3>1, <4>1, AppendIs
    <3>3. Top'.fn = f
      BY <3>2 DEF Top
    <3>4. ~ Found(modules', Top'.fn) /\ checkCircularReferences(Top.fn)'
      BY <2>1, <2>3, <3>3 DEF Found, checkCircularReferences
    <3>5. QED
      BY <1>1, <2>1, <3>4 DEF Fresh, Found
  <2>4. QED
    BY <1>3, <2>2, <2>3 DEF Loads, requireModule, Answer
<1>4. ASSUME UNCHANGED <<acts, modules, prevModules, runningScripts>> PROVE Fresh'
  BY <1>1, <1>4 DEF Fresh, Found, Top, checkCircularReferences
<1>5. ASSUME UNCHANGED <<modules, prevModules, runningScripts>>, ~ TopCompiles(acts') PROVE Fresh'
  BY <1>1, <1>5 DEF Fresh, Found
<1>6. ASSUME \/ CompileFails \/ CallHandler \/ HandlerReturns \/ HandlersDone \/ ReloadAnswered
      PROVE  UNCHANGED <<modules, prevModules, runningScripts>>
  BY <1>6 DEF CompileFails, CallHandler, HandlerReturns, HandlersDone, ReloadAnswered,
     Unchanged, lists
<1>7. ASSUME ImportsBegin \/ NoImports, ~ TopCompiles(acts') PROVE Fresh'
  <2>1. TopCompiles(acts) /\ Top \in Script
    BY <1>1, <1>7, ScriptOnTop DEF ImportsBegin, NoImports
  <2>2. UNCHANGED <<modules, prevModules>> /\ runningScripts' = Append(runningScripts, Top.fn)
    BY <1>7 DEF ImportsBegin, NoImports, BodyBegins, Unchanged, lists
  <2>3. Top.fn \in Files /\ runningScripts \in Seq(Files)
    BY <1>1, <2>1 DEF Script, TypeOK
  <2>4. ~ Found(modules, Top.fn) /\ \A k \in 1..Len(runningScripts) : runningScripts[k] # Top.fn
    BY <1>1, <2>1, <2>3 DEF Fresh, checkCircularReferences
  <2>5. Once(runningScripts')
    BY <1>1, <2>2, <2>3, <2>4, OnceAppend DEF Fresh
  <2>6. /\ Len(runningScripts') = Len(runningScripts) + 1
        /\ runningScripts'[Len(runningScripts) + 1] = Top.fn
        /\ Same(runningScripts, runningScripts', Len(runningScripts))
        /\ Len(runningScripts) \in Nat
    BY <2>2, <2>3, AppendIs
  <2>7. ASSUME NEW k \in 1..Len(runningScripts') PROVE ~ Found(modules, runningScripts'[k])
    <3>1. CASE k = Len(runningScripts) + 1
      BY <2>4, <2>6, <3>1
    <3>2. CASE k # Len(runningScripts) + 1
      <4>1. k \in 1..Len(runningScripts)
        BY <2>6, <3>2
      <4>2. QED
        BY <1>1, <2>6, <4>1 DEF Fresh, Same
    <3>3. QED
      BY <3>1, <3>2
  <2>8. QED
    BY <1>1, <1>7, <2>2, <2>5, <2>7 DEF Fresh, Found
<1>8. ASSUME ImportsDone, ~ TopCompiles(acts') PROVE Fresh'
  <2>1. /\ ~ TopCompiles(acts) /\ Top = acts[Len(acts)] /\ acts # <<>>
        /\ IsScript(acts[Len(acts)])
    BY <1>1, <1>8, ScriptOnTop DEF ImportsDone
  <2>2. /\ runningScripts \in Seq(Files) /\ runningScripts # <<>>
        /\ runningScripts[Len(runningScripts)] = Top.fn
    BY <1>2, <2>1, TopExecutes
  <2>3. runningScripts' = runningScripts /\ UNCHANGED <<modules, prevModules>>
    BY <1>8, <2>2, Repushed DEF ImportsDone, BodyBegins, Unchanged, lists
  <2>4. QED
    BY <1>5, <1>8, <2>3
<1>9. ASSUME ImportFails \/ TranslateFails \/ BodyFails \/ BodyReturns, ~ TopCompiles(acts')
      PROVE  Fresh'
  <2>1. /\ ~ TopCompiles(acts) /\ Top = acts[Len(acts)] /\ acts # <<>> /\ Top \in Script
        /\ IsScript(acts[Len(acts)])
    BY <1>1, <1>9, ScriptOnTop DEF ImportFails, TranslateFails, BodyFails, BodyReturns
  <2>2. /\ runningScripts \in Seq(Files) /\ runningScripts # <<>>
        /\ runningScripts[Len(runningScripts)] = Top.fn
    BY <1>2, <2>1, TopExecutes
  <2>3. runningScripts' = Front(runningScripts) /\ prevModules' = prevModules
    BY <1>9 DEF ImportFails, TranslateFails, BodyFails, BodyReturns, Unchanged, lists
  <2>4. /\ Once(runningScripts')
        /\ \A k \in 1..Len(runningScripts') :
             /\ k \in 1..Len(runningScripts) /\ runningScripts'[k] = runningScripts[k]
             /\ runningScripts[k] # Top.fn
    BY <1>1, <2>2, <2>3, OnceFront DEF Fresh
  <2>5. \A k \in 1..Len(runningScripts') : ~ Found(modules, runningScripts'[k])
    BY <1>1, <2>4 DEF Fresh
  <2>6. CASE ImportFails \/ TranslateFails \/ BodyFails
    <3>1. modules' = modules
      BY <2>6 DEF ImportFails, TranslateFails, BodyFails, Unchanged, lists
    <3>2. QED
      BY <1>1, <1>9, <2>3, <2>4, <2>5, <3>1 DEF Fresh
  <2>7. CASE BodyReturns
    <3>1. PICK x \in Module : x = [fn |-> Top.fn, store |-> Top.store]
      BY <2>1 DEF Module, Script
    <3>2. modules' = Append(modules, x) /\ modules \in Seq(Module) /\ x.fn = Top.fn
      BY <1>1, <2>7, <3>1 DEF BodyReturns, TypeOK
    <3>3. ~ Found(modules, x.fn)
      <4>1. Len(runningScripts) \in 1..Len(runningScripts)
        BY <2>2, FrontIs
      <4>2. QED
        BY <1>1, <2>2, <3>2, <4>1 DEF Fresh
    <3>4. /\ NamesOnce(modules')
          /\ \A f : Found(modules', f) <=> Found(modules, f) \/ f = x.fn
      BY <1>1, <3>2, <3>3, NamesOnceAppend DEF Fresh
    <3>5. \A k \in 1..Len(runningScripts') : ~ Found(modules', runningScripts'[k])
      BY <2>4, <2>5, <3>2, <3>4
    <3>6. QED
      BY <1>1, <1>9, <2>3, <2>4, <3>4, <3>5 DEF Fresh
  <2>8. QED
    BY <1>9, <2>6, <2>7
<1>10. NamesOnce(<<>>) /\ Once(<<>>)
  BY DEF NamesOnce, Once
<1>11. ASSUME acts = <<>>, modules' = <<>>, prevModules' = modules, runningScripts' = <<>>,
              ~ TopCompiles(acts')
       PROVE  Fresh'
  BY <1>1, <1>10, <1>11 DEF Fresh
<1>12. ASSUME ReloadEnds \/ Closed, ~ TopCompiles(acts') PROVE Fresh'
  <2>1. prevModules' = <<>> /\ (modules' = modules \/ modules' = <<>>)
        /\ runningScripts' = runningScripts
    BY <1>12 DEF ReloadEnds, Closed
  <2>2. \A f : ~ Found(<<>>, f)
    BY DEF Found
  <2>3. QED
    BY <1>1, <1>10, <1>12, <2>1, <2>2 DEF Fresh
<1>13. QED
  BY <1>3, <1>4, <1>5, <1>6, <1>7, <1>8, <1>9, <1>11, <1>12, WhoLoads

----------------------------------------------------------------------------
(* The persisted values *)

LEMMA ToSetIs ==
  ASSUME NEW S, NEW s \in Seq(S)
  PROVE  /\ ToSet(s) = {s[k] : k \in 1..Len(s)}
         /\ \A x \in S : ToSet(Append(s, x)) = ToSet(s) \cup {x}
         /\ s # <<>> => ToSet(Front(s)) \subseteq ToSet(s) /\ s[Len(s)] \in ToSet(s)
         /\ s # <<>> => \A x \in S : ToSet([s EXCEPT ![Len(s)] = x]) \subseteq ToSet(s) \cup {x}
<1>1. \A t \in Seq(S) : ToSet(t) = {t[k] : k \in 1..Len(t)}
  BY DEF ToSet
<1>2. ASSUME NEW x \in S PROVE ToSet(Append(s, x)) = ToSet(s) \cup {x}
  <2> DEFINE b == Append(s, x)
  <2>1. b \in Seq(S) /\ Len(b) = Len(s) + 1 /\ b[Len(s) + 1] = x /\ Same(s, b, Len(s))
    BY AppendIs
  <2> HIDE DEF b
  <2>2. \A k \in 1..Len(s) : k \in 1..Len(b) /\ b[k] = s[k]
    BY <2>1 DEF Same
  <2>3. \A k \in 1..Len(b) : k \in 1..Len(s) \/ k = Len(s) + 1
    BY <2>1 DEF Same
  <2>4. Len(s) + 1 \in 1..Len(b)
    BY <2>1 DEF Same
  <2>5. ToSet(b) = ToSet(s) \cup {x}
    BY <1>1, <2>1, <2>2, <2>3, <2>4
  <2>6. QED
    BY <2>5 DEF b
<1>3. ASSUME s # <<>> PROVE ToSet(Front(s)) \subseteq ToSet(s) /\ s[Len(s)] \in ToSet(s)
  <2>1. /\ Front(s) \in Seq(S) /\ Len(Front(s)) = Len(s) - 1 /\ Same(s, Front(s), Len(s) - 1)
        /\ Len(s) \in Nat \ {0}
    BY <1>3, FrontIs
  <2>2. \A k \in 1..Len(Front(s)) : k \in 1..Len(s) /\ Front(s)[k] = s[k]
    BY <2>1 DEF Same
  <2>3. Len(s) \in 1..Len(s)
    BY <2>1
  <2>4. QED
    BY <1>1, <2>1, <2>2, <2>3
<1>4. ASSUME s # <<>>, NEW x \in S
      PROVE  ToSet([s EXCEPT ![Len(s)] = x]) \subseteq ToSet(s) \cup {x}
  <2> DEFINE b == [s EXCEPT ![Len(s)] = x]
  <2>1. b \in Seq(S) /\ Len(b) = Len(s) /\ b[Len(s)] = x /\ Same(s, b, Len(s) - 1)
    BY <1>4, PutIs
  <2> HIDE DEF b
  <2>2. \A k \in 1..Len(b) : k \in 1..Len(s) /\ (b[k] = s[k] \/ b[k] = x)
    BY <2>1 DEF Same
  <2>3. ToSet(b) \subseteq ToSet(s) \cup {x}
    BY <1>1, <2>1, <2>2
  <2>4. QED
    BY <2>3 DEF b
<1>5. QED
  BY <1>1, <1>2, <1>3, <1>4

\* A script of b is one of a, at another stage.
ScriptsFrom(a, b) ==
  \A x \in ToSet(b) : IsScript(x) =>
    \E y \in ToSet(a) : IsScript(y) /\ y.fn = x.fn /\ y.store = x.store

LEMMA ReusedStep ==
  ASSUME StorageReused, prevModules' = prevModules, ScriptsFrom(acts, acts'),
         \A m \in ToSet(modules') :
           \/ m \in ToSet(modules)
           \/ \E y \in ToSet(acts) : IsScript(y) /\ y.fn = m.fn /\ y.store = m.store
  PROVE  StorageReused'
<1> SUFFICES ASSUME NEW p \in ToSet(prevModules)
             PROVE  /\ \A m \in ToSet(modules') : m.fn = p.fn => m.store = p.store
                    /\ \A x \in ToSet(acts') : x.op = "require" /\ x.fn = p.fn => x.store = p.store
  BY DEF StorageReused
<1>1. /\ \A m \in ToSet(modules) : m.fn = p.fn => m.store = p.store
      /\ \A x \in ToSet(acts) : IsScript(x) /\ x.fn = p.fn => x.store = p.store
  BY DEF StorageReused, IsScript
<1>2. QED
  BY <1>1 DEF ScriptsFrom, IsScript

LEMMA ScriptsKept ==
  ASSUME IInv,
         \/ CompileFails \/ ImportsBegin \/ NoImports \/ ImportsDone
         \/ ImportFails \/ TranslateFails \/ BodyFails \/ BodyReturns
         \/ CallHandler \/ HandlerReturns \/ HandlersDone \/ ReloadAnswered
         \/ ReloadEnds \/ Closed
  PROVE  ScriptsFrom(acts, acts')
<1>1. TypeOK /\ acts \in Seq(Acts)
  BY DEF IInv, TypeOK, Acts
<1>2. PICK n \in 0..2 : Shape(acts, runningScripts, n)
  BY DEF IInv, Stack
<1>3. ~ Idle /\ acts # <<>>
  BY DEF CompileFails, ImportsBegin, NoImports, ImportsDone, ImportFails, TranslateFails, BodyFails,
     BodyReturns, CallHandler, HandlerReturns, HandlersDone, ReloadAnswered, ReloadEnds, Closed,
     AtStage, At, Idle
<1>4. Top \in ToSet(acts) /\ Top \in Acts
  BY <1>1, <1>3, TopIs, ToSetIs
<1>5. ASSUME acts' = Front(acts) PROVE ScriptsFrom(acts, acts')
  BY <1>1, <1>3, <1>5, ToSetIs DEF ScriptsFrom
<1>6. ASSUME NEW x \in Acts, Put(x), IsScript(x) => IsScript(Top) /\ x.fn = Top.fn /\ x.store = Top.store
      PROVE  ScriptsFrom(acts, acts')
  <2>1. ToSet(acts') \subseteq ToSet(acts) \cup {x}
    BY <1>1, <1>3, <1>6, ToSetIs DEF Put
  <2>2. QED
    BY <1>4, <1>6, <2>1 DEF ScriptsFrom
<1>7. CASE \/ CompileFails \/ ImportFails \/ TranslateFails \/ BodyFails \/ BodyReturns
           \/ HandlerReturns \/ ReloadEnds \/ Closed
  BY <1>5, <1>7 DEF CompileFails, ImportFails, TranslateFails, BodyFails, BodyReturns,
     HandlerReturns, ReloadEnds, Closed, Finish
<1>8. CASE ImportsBegin \/ NoImports \/ ImportsDone
  <2>1. Top \in Script /\ IsScript(Top)
    BY <1>1, <1>8, ScriptOnTop DEF ImportsBegin, NoImports, ImportsDone
  <2>2. PICK s \in {"import", "body"} : Put([Top EXCEPT !.stage = s])
    BY <1>8 DEF ImportsBegin, NoImports, ImportsDone, BodyBegins
  <2>3. PICK x \in Acts : x = [Top EXCEPT !.stage = s]
    BY <2>1 DEF Acts, Script
  <2>4. x.fn = Top.fn /\ x.store = Top.store
    BY <2>1, <2>3 DEF Script
  <2>5. QED
    BY <1>6, <2>1, <2>2, <2>3, <2>4
<1>9. CASE CallHandler
  <2>1. PICK l \in Loop, h \in Handler : acts' = <<l, h>>
    BY <1>9, CallHandlerIs
  <2>2. \A x \in ToSet(acts') : x = l \/ x = h
    BY <2>1 DEF ToSet
  <2>3. QED
    BY <2>2 DEF ScriptsFrom, IsScript, Loop, Handler
<1>10. CASE HandlersDone \/ ReloadAnswered
  <2>1. acts # <<>> /\ IsLoop(acts[Len(acts)]) /\ Top = acts[Len(acts)]
    BY <1>1, <1>10, TopIs DEF HandlersDone, ReloadAnswered, AtStage, At, IsLoop
  <2>2. Top \in Loop
    BY <1>2, <2>1, LoopOnTop
  <2>3. PICK x \in Loop : Put(x)
    <3>1. [Top EXCEPT !.stage = "load"] \in Loop
      BY <2>2 DEF Loop
    <3>2. [Top EXCEPT !.ok = @ /\ ret = "ok"] \in Loop
      BY <2>2 DEF Loop
    <3>3. QED
      BY <1>10, <3>1, <3>2 DEF HandlersDone, ReloadAnswered
  <2>4. x \in Acts /\ ~ IsScript(x)
    BY DEF Acts, Loop, IsScript
  <2>5. QED
    BY <1>6, <2>3, <2>4
<1>11. QED
  BY <1>7, <1>8, <1>9, <1>10

LEMMA ReusedNext ==
  ASSUME IInv, Next
  PROVE  StorageReused'
<1>1. TypeOK /\ StorageReused /\ NamesOnce(prevModules)
  BY DEF IInv, Fresh
<1>2. acts \in Seq(Acts) /\ modules \in Seq(Module) /\ prevModules \in Seq(Module)
  BY <1>1 DEF TypeOK, Acts
<1>3. ASSUME NEW f \in Files, NEW must, NEW stay, Loads(f, must, stay) PROVE StorageReused'
  <2>1. UNCHANGED <<modules, prevModules>> /\ stay \in Seq(Acts)
        /\ ScriptsFrom(acts, stay)
    BY <1>3 DEF Loads, requireModule, lists, ScriptsFrom
  <2>2. CASE acts' = stay
    BY <1>1, <2>1, <2>2, ReusedStep
  <2>3. CASE Compile(f, stay)
    <3> DEFINE x == [op |-> "require", fn |-> f, run |-> runs + 1,
                     store |-> setupStateStorage(f), stage |-> "compile"]
    <3>1. acts' = Append(stay, x)
      BY <2>3 DEF Compile
    <3>2. x.fn = f /\ x.store = setupStateStorage(f)
      OBVIOUS
    <3> HIDE DEF x
    <3>3. ToSet(acts') = ToSet(stay) \cup {x}
      <4>1. stay \in Seq(Acts \cup {x}) /\ x \in Acts \cup {x}
        BY <2>1
      <4>2. QED
        BY <3>1, <4>1, ToSetIs
    <3>4. SUFFICES ASSUME NEW p \in ToSet(prevModules)
                   PROVE  /\ \A m \in ToSet(modules) : m.fn = p.fn => m.store = p.store
                          /\ \A y \in ToSet(stay) \cup {x} :
                               y.op = "require" /\ y.fn = p.fn => y.store = p.store
      BY <2>1, <3>3 DEF StorageReused
    <3>5. /\ \A m \in ToSet(modules) : m.fn = p.fn => m.store = p.store
          /\ \A y \in ToSet(acts) : IsScript(y) /\ y.fn = p.fn => y.store = p.store
      BY <1>1 DEF StorageReused, IsScript
    <3>6. \A y \in ToSet(stay) : IsScript(y) /\ y.fn = p.fn => y.store = p.store
      BY <2>1, <3>5 DEF ScriptsFrom
    <3>7. ASSUME x.fn = p.fn PROVE x.store = p.store
      <4>1. PICK k \in 1..Len(prevModules) : prevModules[k] = p
        BY <1>2, ToSetIs
      <4>2. DOMAIN prevModules = 1..Len(prevModules)
        BY <1>2
      <4> DEFINE j == CHOOSE i \in DOMAIN prevModules : prevModules[i].fn = f
      <4>3. j \in DOMAIN prevModules /\ prevModules[j].fn = f /\ Found(prevModules, f)
        BY <3>2, <3>7, <4>1, <4>2 DEF Found
      <4>4. x.store = prevModules[j].store
        BY <3>2, <4>3 DEF setupStateStorage
      <4> HIDE DEF j
      <4>5. j = k
        BY <1>1, <3>2, <3>7, <4>1, <4>2, <4>3 DEF NamesOnce
      <4>6. QED
        BY <4>1, <4>4, <4>5
    <3>8. QED
      BY <3>5, <3>6, <3>7 DEF IsScript
  <2>4. QED
    BY <1>3, <2>2, <2>3 DEF Loads, requireModule, Answer
<1>4. ASSUME UNCHANGED <<acts, modules, prevModules, runningScripts>> PROVE StorageReused'
  BY <1>1, <1>4 DEF StorageReused
<1>5. ToSet(<<>>) = {}
  BY DEF ToSet
<1>6. ASSUME acts = <<>>, modules' = <<>>, prevModules' = modules,
             \A x \in ToSet(acts') : ~ IsScript(x)
      PROVE  StorageReused'
  BY <1>5, <1>6 DEF StorageReused, IsScript
<1>7. ASSUME ReloadEnds \/ Closed PROVE StorageReused'
  <2>1. prevModules' = <<>>
    BY <1>7 DEF ReloadEnds, Closed
  <2>2. QED
    BY <1>5, <2>1 DEF StorageReused
<1>8. ASSUME \/ CompileFails \/ ImportsBegin \/ NoImports \/ ImportsDone
             \/ ImportFails \/ TranslateFails \/ BodyFails
             \/ CallHandler \/ HandlerReturns \/ HandlersDone \/ ReloadAnswered
      PROVE  StorageReused'
  <2>1. UNCHANGED <<modules, prevModules>>
    BY <1>8 DEF CompileFails, ImportsBegin, NoImports, ImportsDone, ImportFails, TranslateFails,
       BodyFails, CallHandler, HandlerReturns, HandlersDone, ReloadAnswered, BodyBegins, Unchanged,
       lists
  <2>2. ScriptsFrom(acts, acts')
    BY <1>8, ScriptsKept
  <2>3. QED
    BY <1>1, <2>1, <2>2, ReusedStep
<1>9. ASSUME BodyReturns PROVE StorageReused'
  <2>1. prevModules' = prevModules /\ modules' = Append(modules, [fn |-> Top.fn, store |-> Top.store])
    BY <1>9 DEF BodyReturns
  <2>2. /\ Top = acts[Len(acts)] /\ acts # <<>> /\ Top \in Script /\ IsScript(Top)
    BY <1>1, <1>9, ScriptOnTop DEF BodyReturns
  <2>3. PICK m \in Module : m = [fn |-> Top.fn, store |-> Top.store]
    BY <2>2 DEF Module, Script
  <2>4. ToSet(modules') = ToSet(modules) \cup {m} /\ Top \in ToSet(acts)
    BY <1>2, <2>1, <2>2, <2>3, ToSetIs
  <2>5. ScriptsFrom(acts, acts')
    BY <1>9, ScriptsKept
  <2>6. \A y \in ToSet(modules') :
          \/ y \in ToSet(modules)
          \/ \E x \in ToSet(acts) : IsScript(x) /\ x.fn = y.fn /\ x.store = y.store
    BY <2>2, <2>3, <2>4
  <2>7. QED
    BY <1>1, <2>1, <2>5, <2>6, ReusedStep
<1>10. QED
  BY <1>3, <1>4, <1>6, <1>7, <1>8, <1>9, WhoLoads

----------------------------------------------------------------------------
(* The handlers *)

\* The steps of a script change nothing at the bottom of the stack but itself.
LEMMA PopFacts ==
  ASSUME NEW a \in Seq(Acts), a # <<>>, IsScript(a[Len(a)])
  PROVE  /\ Len(a) = 1 => Front(a) = <<>> /\ IsScript(a[1])
         /\ Len(a) # 1 => /\ Len(a) > 1 /\ Front(a) # <<>> /\ Front(a)[1] = a[1]
                          /\ Len(a) > 2 => Len(Front(a)) > 1 /\ Front(a)[2] = a[2]
                          /\ Len(a) <= 2 => Len(a) = 2 /\ Len(Front(a)) = 1
<1> DEFINE b == Front(a)
<1>1. b \in Seq(Acts) /\ Len(b) = Len(a) - 1 /\ Same(a, b, Len(a) - 1) /\ Len(a) \in Nat \ {0}
  BY FrontIs
<1> HIDE DEF b
<1>2. PICK m \in Nat \ {0} : m = Len(a)
  BY <1>1
<1>3. m = 1 => b = <<>> /\ IsScript(a[1])
  <2>1. ASSUME m = 1 PROVE Len(b) = 0 /\ Len(a) = 1
    BY ONLY <1>1, <1>2, <2>1
  <2>2. m = 1 => b = <<>>
    BY ONLY <1>1, <2>1, EmptySeq
  <2>3. QED
    BY <2>1, <2>2
<1>4. m # 1 => b # <<>> /\ b[1] = a[1]
  <2>1. m # 1 => 1 \in 1..m - 1 /\ Len(b) # 0
    BY <1>1, <1>2
  <2>2. QED
    BY <1>1, <1>2, <2>1 DEF Same
<1>5. m > 2 => Len(b) > 1 /\ b[2] = a[2]
  <2>1. m > 2 => 2 \in 1..m - 1 /\ Len(b) > 1
    BY <1>1, <1>2
  <2>2. QED
    BY <1>1, <1>2, <2>1 DEF Same
<1>6. m # 1 => m > 1 /\ (m <= 2 => m = 2 /\ Len(b) = 1)
  BY <1>1, <1>2
<1>7. QED
  BY <1>2, <1>3, <1>4, <1>5, <1>6 DEF b

LEMMA PutFacts ==
  ASSUME NEW a \in Seq(Acts), a # <<>>, NEW x \in Acts,
         NEW b, b = [a EXCEPT ![Len(a)] = x]
  PROVE  /\ Len(b) = Len(a) /\ b # <<>> /\ Len(a) \in Nat \ {0}
         /\ Len(a) = 1 => b[1] = x
         /\ Len(a) > 1 => b[1] = a[1]
         /\ Len(a) = 2 => b[2] = x
         /\ Len(a) > 2 => b[2] = a[2]
<1>1. /\ b \in Seq(Acts) /\ Len(b) = Len(a) /\ b[Len(a)] = x /\ Same(a, b, Len(a) - 1)
  BY PutIs
<1>2. PICK m \in Nat \ {0} : m = Len(a)
  BY FrontIs
<1>3. b # <<>>
  BY <1>1, <1>2
<1>4. m > 1 => 1 \in 1..m - 1
  BY <1>2
<1>5. m > 2 => 2 \in 1..m - 1
  BY <1>2
<1>6. QED
  BY <1>1, <1>2, <1>3, <1>4, <1>5 DEF Same

LEMMA PushFacts ==
  ASSUME NEW a \in Seq(Acts), NEW x \in Acts
  PROVE  /\ Append(a, x) # <<>> /\ Len(Append(a, x)) = Len(a) + 1 /\ Len(a) \in Nat
         /\ a = <<>> => Append(a, x)[1] = x
         /\ a # <<>> => Append(a, x)[1] = a[1] /\ Len(a) >= 1
         /\ Len(a) = 1 => Append(a, x)[2] = x
         /\ Len(a) > 1 => Append(a, x)[2] = a[2]
<1> DEFINE b == Append(a, x)
<1>1. b \in Seq(Acts) /\ Len(b) = Len(a) + 1 /\ b[Len(a) + 1] = x /\ Same(a, b, Len(a))
  BY AppendIs
<1> HIDE DEF b
<1>2. PICK m \in Nat : m = Len(a)
  BY <1>1 DEF Same
<1>3. b # <<>> /\ (a = <<>> => m = 0) /\ (a # <<>> => m >= 1)
  BY <1>1, <1>2, EmptySeq
<1>4. (m >= 1 => 1 \in 1..m) /\ (m > 1 => 2 \in 1..m)
  BY <1>2
<1>5. QED
  BY <1>1, <1>2, <1>3, <1>4 DEF Same, b

\* The reload or the close at the bottom is as it was.
SameLoop(a, b) ==
  \/ /\ a # <<>> /\ b # <<>> /\ b[1] = a[1] /\ IsLoop(a[1])
  \/ /\ a # <<>> => ~ IsLoop(a[1])
     /\ b # <<>> => ~ IsLoop(b[1])

\* The steps of the loop at the bottom; all others leave it as it is.
LoopSteps == CallHandler \/ HandlersDone \/ Closed \/ ReloadAnswered \/ ReloadEnds \/ Begins

LEMMA ScriptsKeepLoop ==
  ASSUME IInv,
         \/ CompileFails \/ ImportsBegin \/ NoImports \/ ImportsDone
         \/ ImportFails \/ TranslateFails \/ BodyFails \/ BodyReturns \/ HandlerReturns
  PROVE  SameLoop(acts, acts')
<1>1. TypeOK /\ acts \in Seq(Acts)
  BY DEF IInv, TypeOK, Acts
<1>2. PICK n \in 0..2 : Shape(acts, runningScripts, n)
  BY DEF IInv, Stack
<1>3. CASE \/ CompileFails \/ ImportFails \/ TranslateFails \/ BodyFails \/ BodyReturns
  <2>1. acts # <<>> /\ IsScript(acts[Len(acts)]) /\ acts' = Front(acts)
    BY <1>1, <1>3, ScriptOnTop DEF CompileFails, ImportFails, TranslateFails, BodyFails,
       BodyReturns, Finish
  <2>2. QED
    BY <1>1, <2>1, PopFacts DEF SameLoop, IsScript, IsLoop
<1>4. CASE ImportsBegin \/ NoImports \/ ImportsDone
  <2>1. Top \in Script /\ Top = acts[Len(acts)] /\ acts # <<>>
    BY <1>1, <1>4, ScriptOnTop DEF ImportsBegin, NoImports, ImportsDone
  <2>2. PICK s \in {"import", "body"} : Put([Top EXCEPT !.stage = s])
    BY <1>4 DEF ImportsBegin, NoImports, ImportsDone, BodyBegins
  <2>3. PICK x \in Script : x = [Top EXCEPT !.stage = s]
    BY <2>1 DEF Script
  <2>8. x \in Acts /\ acts' = [acts EXCEPT ![Len(acts)] = x]
    BY <2>2, <2>3 DEF Put, Acts
  <2>4. /\ acts' # <<>> /\ Len(acts) \in Nat \ {0}
        /\ Len(acts) = 1 => acts'[1] = x
        /\ Len(acts) > 1 => acts'[1] = acts[1]
    <3>1. PICK b : b = [acts EXCEPT ![Len(acts)] = x]
      OBVIOUS
    <3>2. x \in Acts /\ acts' = b
      BY <2>8, <3>1
    <3>3. /\ b # <<>> /\ Len(acts) \in Nat \ {0}
          /\ Len(acts) = 1 => b[1] = x
          /\ Len(acts) > 1 => b[1] = acts[1]
      BY ONLY <1>1, <2>1, <3>1, <3>2, PutFacts
    <3>4. QED
      BY <3>2, <3>3
  <2>5. ~ IsLoop(x) /\ ~ IsLoop(Top)
    BY <2>1 DEF IsLoop, Script
  <2>6. Len(acts) = 1 \/ Len(acts) > 1
    <3>1. PICK m \in Nat \ {0} : m = Len(acts)
      BY <2>4
    <3>2. m = 1 \/ m > 1
      BY <3>1
    <3>3. QED
      BY ONLY <3>1, <3>2
  <2>7. QED
    BY <2>1, <2>4, <2>5, <2>6 DEF SameLoop
<1>5. CASE HandlerReturns
  <2>1. acts # <<>> /\ acts[Len(acts)].op = "handler"
    BY <1>1, <1>5, TopIs DEF HandlerReturns, At
  <2>2. acts[1] \in Loop /\ acts' = <<acts[1]>>
    BY <1>2, <1>5, <2>1, HandlerOnTop DEF HandlerReturns, Finish
  <2>3. QED
    BY <2>1, <2>2 DEF SameLoop, IsLoop, Loop
<1>6. QED
  BY <1>3, <1>4, <1>5

LEMMA LoopKept ==
  ASSUME IInv, Next
  PROVE  SameLoop(acts, acts') \/ LoopSteps \/ \E f \in Files, must \in BOOLEAN, stay \in Seq(Acts) :
           /\ Loads(f, must, stay) /\ Len(acts) = 1
           /\ acts[1].op = "reload" /\ acts[1].stage = "load"
           /\ acts' # <<>> /\ acts'[1] = [acts[1] EXCEPT !.todo = Tail(@)]
<1>1. TypeOK /\ acts \in Seq(Acts)
  BY DEF IInv, TypeOK, Acts
<1>2. ASSUME NEW f \in Files, NEW must \in BOOLEAN, NEW stay \in Seq(Acts), Loads(f, must, stay)
      PROVE  \/ acts' = stay
             \/ /\ acts' # <<>>
                /\ stay # <<>> => acts'[1] = stay[1]
                /\ stay = <<>> => ~ IsLoop(acts'[1])
  <2>1. acts' = stay \/ Compile(f, stay)
    BY <1>2 DEF Loads, requireModule, Answer
  <2>2. CASE Compile(f, stay)
    <3> DEFINE x == [op |-> "require", fn |-> f, run |-> runs + 1,
                     store |-> setupStateStorage(f), stage |-> "compile"]
    <3>1. acts' = Append(stay, x) /\ ~ IsLoop(x)
      BY <2>2 DEF Compile, IsLoop
    <3> HIDE DEF x
    <3>2. /\ acts' # <<>>
          /\ stay # <<>> => acts'[1] = stay[1]
          /\ stay = <<>> => acts'[1] = x
      <4>1. stay \in Seq(Acts \cup {x}) /\ x \in Acts \cup {x}
        OBVIOUS
      <4>2. /\ acts' \in Seq(Acts \cup {x}) /\ Len(acts') = Len(stay) + 1
            /\ acts'[Len(stay) + 1] = x /\ Same(stay, acts', Len(stay))
        BY <3>1, <4>1, AppendIs
      <4>3. stay # <<>> => 1 \in 1..Len(stay)
        BY <4>2, EmptySeq DEF Same
      <4>4. QED
        BY <4>2, <4>3 DEF Same
    <3>3. QED
      BY <3>1, <3>2
  <2>3. QED
    BY <2>1, <2>2
<1>3. ASSUME NEW f \in Files, NEW must \in BOOLEAN, NEW stay \in Seq(Acts), Loads(f, must, stay)
      PROVE  \/ SameLoop(acts, acts')
             \/ /\ Len(acts) = 1 /\ acts[1].op = "reload" /\ acts[1].stage = "load"
                /\ acts' # <<>> /\ acts'[1] = [acts[1] EXCEPT !.todo = Tail(@)]
  <2>1. CASE stay = acts
    BY <1>2, <1>3, <2>1 DEF SameLoop
  <2>2. CASE stay # acts
    <3>1. /\ Len(acts) = 1 /\ acts[1].op = "reload" /\ acts[1].stage = "load"
          /\ stay = <<[acts[1] EXCEPT !.todo = Tail(@)]>>
      BY <1>3, <2>2 DEF Loads
    <3>2. stay # <<>> /\ stay[1] = [acts[1] EXCEPT !.todo = Tail(@)]
      BY <3>1
    <3>3. QED
      BY <1>2, <1>3, <3>1, <3>2
  <2>3. QED
    BY <2>1, <2>2
<1>4. ASSUME UNCHANGED acts PROVE SameLoop(acts, acts')
  BY <1>4 DEF SameLoop
<1>5. QED
  BY <1>3, <1>4, ScriptsKeepLoop, WhoLoads DEF LoopSteps

\* What the loop does, on the stack that it is alone on.
LEMMA LoopStepsIs ==
  ASSUME IInv, HandlersDone \/ Closed \/ ReloadAnswered \/ ReloadEnds
  PROVE  /\ acts # <<>> /\ Len(acts) = 1 /\ acts[1] \in Loop /\ IsLoop(acts[1]) /\ Top = acts[1]
         /\ HandlersDone => acts' = <<[acts[1] EXCEPT !.stage = "load"]>>
         /\ ReloadAnswered => acts' = <<[acts[1] EXCEPT !.ok = @ /\ ret = "ok"]>>
         /\ ReloadEnds \/ Closed => acts' = <<>>
<1>1. TypeOK
  BY DEF IInv
<1>2. PICK n \in 0..2 : Shape(acts, runningScripts, n)
  BY DEF IInv, Stack
<1>3. acts # <<>> /\ IsLoop(acts[Len(acts)]) /\ Top = acts[Len(acts)]
  BY <1>1, TopIs DEF HandlersDone, ReloadAnswered, ReloadEnds, Closed, AtStage, At, IsLoop
<1>4. /\ Len(acts) = 1 /\ acts[1] \in Loop /\ Front(acts) = <<>>
      /\ \A l \in Loop : [acts EXCEPT ![Len(acts)] = l] = <<l>>
  BY <1>2, <1>3, LoopOnTop
<1>5. [acts[1] EXCEPT !.stage = "load"] \in Loop
  BY <1>4 DEF Loop
<1>6. [acts[1] EXCEPT !.ok = @ /\ ret = "ok"] \in Loop
  BY <1>4 DEF Loop
<1>7. QED
  BY <1>3, <1>4, <1>5, <1>6 DEF HandlersDone, ReloadAnswered, ReloadEnds, Closed, Put, Finish

\* The loop that begins.
LEMMA BeginsIs ==
  ASSUME IInv, Begins
  PROVE  \E l \in Loop :
           /\ acts = <<>> /\ acts' = <<l>> /\ l.stage = "handlers" /\ l.i = 0
           /\ l.n = Len(onModuleUnload)
           /\ UNCHANGED <<onModuleUnload, called, dropped, ret>>
           /\ \/ /\ l.op = "reload" /\ reloads' <= MaxReloads /\ ~ last'.ok
                 /\ last'.all => /\ l.must /\ last'.loaded = modules
                                 /\ l.todo = [k \in DOMAIN modules |-> modules[k].fn]
              \/ l.op = "close" /\ reloads' = MaxReloads + 1
<1>1. TypeOK
  BY DEF IInv
<1>2. Len(onModuleUnload) \in Nat /\ modules \in Seq(Module)
  BY <1>1, LenProperties DEF TypeOK
<1>3. [k \in DOMAIN modules |-> modules[k].fn] \in Seq(Files)
  BY <1>2, NamesOf
<1>4. MaxReloads \in Nat /\ reloads \in Nat
  BY <1>1, BoundsAssumption DEF TypeOK
<1>5. ASSUME NEW op \in {"reload", "close"}, NEW todo \in Seq(Files), NEW must \in BOOLEAN,
             Idle, Begin(op, todo, must)
      PROVE  \E l \in Loop :
               /\ l = [op |-> op, stage |-> "handlers", i |-> 0, n |-> Len(onModuleUnload),
                       todo |-> todo, must |-> must, ok |-> TRUE]
               /\ acts = <<>> /\ acts' = <<l>>
               /\ UNCHANGED <<onModuleUnload, called, dropped, ret>>
  <2> DEFINE l == [op |-> op, stage |-> "handlers", i |-> 0, n |-> Len(onModuleUnload),
                   todo |-> todo, must |-> must, ok |-> TRUE]
  <2>1. l \in Loop
    BY <1>2 DEF Loop
  <2>2. acts = <<>> /\ acts' = <<l>> /\ UNCHANGED <<onModuleUnload, called, dropped, ret>>
    BY <1>5 DEF Begin, Idle
  <2>3. WITNESS l \in Loop
  <2>4. QED
    BY <2>2
<1>6. CASE \E f \in Files, must \in BOOLEAN : reloadModule(f, must)
  <2>1. PICK f \in Files, must \in BOOLEAN : reloadModule(f, must)
    BY <1>6
  <2>2. /\ Idle /\ Begin("reload", <<f>>, must) /\ reloads < MaxReloads /\ reloads' = reloads + 1
        /\ last' = [loaded |-> modules, all |-> FALSE, ok |-> FALSE]
    BY <2>1 DEF reloadModule, Open
  <2>3. reloads' <= MaxReloads /\ ~ last'.ok /\ ~ last'.all
    BY <1>4, <2>2
  <2>4. <<f>> \in Seq(Files)
    OBVIOUS
  <2>5. PICK l \in Loop :
               /\ l = [op |-> "reload", stage |-> "handlers", i |-> 0, n |-> Len(onModuleUnload),
                       todo |-> <<f>>, must |-> must, ok |-> TRUE]
               /\ acts = <<>> /\ acts' = <<l>>
               /\ UNCHANGED <<onModuleUnload, called, dropped, ret>>
    BY <1>5, <2>2, <2>4
  <2>6. l.stage = "handlers" /\ l.i = 0 /\ l.n = Len(onModuleUnload) /\ l.op = "reload"
    BY <2>5
  <2>7. /\ acts = <<>> /\ acts' = <<l>> /\ l.stage = "handlers" /\ l.i = 0
        /\ l.n = Len(onModuleUnload)
        /\ UNCHANGED <<onModuleUnload, called, dropped, ret>>
        /\ l.op = "reload" /\ reloads' <= MaxReloads /\ ~ last'.ok
        /\ last'.all => /\ l.must /\ last'.loaded = modules
                        /\ l.todo = [k \in DOMAIN modules |-> modules[k].fn]
    BY <2>3, <2>5, <2>6
  <2>8. QED
    BY <2>7
<1>7. CASE reloadAll
  <2> DEFINE todo == [k \in DOMAIN modules |-> modules[k].fn]
  <2>1. /\ Idle /\ Begin("reload", todo, TRUE) /\ reloads < MaxReloads /\ reloads' = reloads + 1
        /\ last' = [loaded |-> modules, all |-> TRUE, ok |-> FALSE]
    BY <1>7 DEF reloadAll, Open
  <2>2. reloads' <= MaxReloads /\ ~ last'.ok /\ last'.loaded = modules
    BY <1>4, <2>1
  <2>3. PICK l \in Loop :
               /\ l = [op |-> "reload", stage |-> "handlers", i |-> 0, n |-> Len(onModuleUnload),
                       todo |-> todo, must |-> TRUE, ok |-> TRUE]
               /\ acts = <<>> /\ acts' = <<l>>
               /\ UNCHANGED <<onModuleUnload, called, dropped, ret>>
    BY <1>3, <1>5, <2>1
  <2>4. QED
    BY <2>2, <2>3
<1>8. CASE Close
  <2>1. Idle /\ Begin("close", <<>>, FALSE) /\ reloads' = MaxReloads + 1
    BY <1>8 DEF Close, Open
  <2>2. <<>> \in Seq(Files)
    OBVIOUS
  <2>3. PICK l \in Loop :
               /\ l = [op |-> "close", stage |-> "handlers", i |-> 0, n |-> Len(onModuleUnload),
                       todo |-> <<>>, must |-> FALSE, ok |-> TRUE]
               /\ acts = <<>> /\ acts' = <<l>>
               /\ UNCHANGED <<onModuleUnload, called, dropped, ret>>
    BY <1>5, <2>1, <2>2
  <2>4. l.stage = "handlers" /\ l.i = 0 /\ l.n = Len(onModuleUnload) /\ l.op = "close"
    BY <2>3
  <2>5. QED
    BY <2>1, <2>3, <2>4
<1>9. QED
  BY <1>6, <1>7, <1>8 DEF Begins
\* The list of handlers, those called and those dropped change in four actions.
LEMMA ListKept ==
  ASSUME Next
  PROVE  \/ UNCHANGED <<onModuleUnload, called, dropped>>
         \/ register_on_module_unload \/ CallHandler \/ HandlersDone \/ Closed
<1>1. ASSUME NEW f \in Files, NEW must, NEW stay, requireModule(f, must, stay)
      PROVE  UNCHANGED <<onModuleUnload, called, dropped>>
  BY <1>1 DEF requireModule, lists, ghosts
<1>2. ASSUME NEW op, NEW todo, NEW must, Begin(op, todo, must)
      PROVE  UNCHANGED <<onModuleUnload, called, dropped>>
  BY <1>2 DEF Begin
<1>3. ASSUME NEW f \in Files
      PROVE  /\ Import(f) => UNCHANGED <<onModuleUnload, called, dropped>>
             /\ \A must \in BOOLEAN :
                  sqRequire(f, must) \/ HostRequire(f, must) \/ reloadModule(f, must) =>
                    UNCHANGED <<onModuleUnload, called, dropped>>
  BY <1>1, <1>2, <1>3 DEF Import, sqRequire, HostRequire, reloadModule
<1>4. ASSUME \E f \in Volatile : ChangeDisk(f) PROVE UNCHANGED <<onModuleUnload, called, dropped>>
  BY <1>4 DEF ChangeDisk, lists, ghosts
<1>5. ASSUME \/ CompileFails \/ ImportsBegin \/ ImportAnswered \/ ImportFails
             \/ NoImports \/ ImportsDone \/ TranslateFails \/ GoesOn \/ BodyFails
             \/ HandlerReturns \/ ReloadAnswered
      PROVE  UNCHANGED <<onModuleUnload, called, dropped>>
  BY <1>5 DEF CompileFails, ImportsBegin, ImportAnswered, ImportFails, NoImports, ImportsDone,
     TranslateFails, GoesOn, BodyFails, HandlerReturns, ReloadAnswered, BodyBegins, Unchanged, lists,
     ghosts
<1>6. ASSUME BodyReturns \/ persist_state \/ ReloadEnds
      PROVE  UNCHANGED <<onModuleUnload, called, dropped>>
  BY <1>6 DEF BodyReturns, persist_state, ReloadEnds, lists, ghosts
<1>7. ASSUME reloadAll \/ Close PROVE UNCHANGED <<onModuleUnload, called, dropped>>
  BY <1>2, <1>7 DEF reloadAll, Close
<1>8. ASSUME ReloadRequires PROVE UNCHANGED <<onModuleUnload, called, dropped>>
  BY <1>8 DEF ReloadRequires, requireModule, lists, ghosts
<1>9. QED
  BY <1>3, <1>4, <1>5, <1>6, <1>7, <1>8 DEF Next

\* A script that runs above a loop that calls handlers runs for a handler.
LEMMA HandlerBelow ==
  ASSUME IInv, AtStage("require", "body"), InHandlers(acts)
  PROVE  HandlerRuns
<1>1. TypeOK
  BY DEF IInv
<1>2. PICK n \in 0..2 : Shape(acts, runningScripts, n)
  BY DEF IInv, Stack
<1>3. acts # <<>> /\ IsScript(acts[Len(acts)]) /\ acts \in Seq(Acts)
  BY <1>1, ScriptOnTop DEF TypeOK, Acts
<1>4. PICK m \in Nat \ {0} : m = Len(acts)
  BY <1>3, FrontIs
<1>5. ~ IsScript(acts[1])
  BY DEF InHandlers, IsLoop, IsScript
<1>6. m > 1
  BY <1>3, <1>4, <1>5
<1>7. n # 0
  <2>1. 1 \in 1..m
    BY <1>4
  <2>2. QED
    BY <1>2, <1>4, <1>5, <2>1 DEF Shape, Bottom, ScriptsAbove
<1>8. n # 1
  BY <1>2, <1>4, <1>6 DEF Shape, Bottom, InHandlers
<1>9. acts[2].op = "handler"
  BY <1>2, <1>7, <1>8 DEF Shape, Bottom
<1>10. 2 \in DOMAIN acts
  BY <1>3, <1>4, <1>6
<1>11. QED
  BY <1>9, <1>10 DEF HandlerRuns

\* A stack that a loop calling handlers does not lie under.
LEMMA NotInHandlers ==
  ASSUME NEW a, NEW b, SameLoop(a, b)
  PROVE  InHandlers(b) <=> InHandlers(a)
BY DEF SameLoop, InHandlers

\* A step of a loop changes one field.
LEMMA LoopUpdates ==
  ASSUME NEW l \in Loop
  PROVE  /\ [l EXCEPT !.stage = "load"].stage = "load"
         /\ [l EXCEPT !.stage = "load"].op = l.op
         /\ [l EXCEPT !.stage = "load"].todo = l.todo
         /\ [l EXCEPT !.stage = "load"].must = l.must
         /\ [l EXCEPT !.stage = "load"].ok = l.ok
         /\ \A t : /\ [l EXCEPT !.todo = t].stage = l.stage /\ [l EXCEPT !.todo = t].op = l.op
                   /\ [l EXCEPT !.todo = t].todo = t
                   /\ [l EXCEPT !.todo = t].must = l.must /\ [l EXCEPT !.todo = t].ok = l.ok
         /\ \A o : /\ [l EXCEPT !.ok = o].stage = l.stage /\ [l EXCEPT !.ok = o].op = l.op
                   /\ [l EXCEPT !.ok = o].todo = l.todo
                   /\ [l EXCEPT !.ok = o].must = l.must /\ [l EXCEPT !.ok = o].ok = o
         /\ \A j : /\ [l EXCEPT !.i = j].stage = l.stage /\ [l EXCEPT !.i = j].op = l.op
                   /\ [l EXCEPT !.i = j].todo = l.todo
                   /\ [l EXCEPT !.i = j].must = l.must /\ [l EXCEPT !.i = j].ok = l.ok
BY DEF Loop

LEMMA CallsNext ==
  ASSUME IInv, Next
  PROVE  Calls'
<1>1. TypeOK /\ Calls
  BY DEF IInv
<1>2. acts \in Seq(Acts) /\ onModuleUnload \in Seq(Runs) /\ called \in Seq(Runs)
  BY <1>1 DEF TypeOK, Acts
<1>3. CASE SameLoop(acts, acts') /\ UNCHANGED <<onModuleUnload, called, dropped>>
  <2>1. InHandlers(acts') <=> InHandlers(acts)
    BY <1>3, NotInHandlers
  <2>2. InHandlers(acts) => acts'[1] = acts[1]
    BY <1>3 DEF SameLoop, InHandlers
  <2>3. QED
    BY <1>1, <1>3, <2>1, <2>2 DEF Calls
<1>4. ASSUME ~ InHandlers(acts), ~ InHandlers(acts'), UNCHANGED <<onModuleUnload, called, dropped>>
      PROVE  Calls'
  BY <1>1, <1>4 DEF Calls
<1>5. CASE register_on_module_unload
  <2>1. /\ acts' = acts /\ UNCHANGED <<called, dropped>> /\ AtStage("require", "body")
        /\ HandlerRuns => HandlersRegister
    BY <1>5 DEF register_on_module_unload, ghosts
  <2>2. Top \in Script
    BY <1>1, <2>1, ScriptOnTop
  <2>3. PICK x \in Runs : x = Top.run
    BY <2>2 DEF Script
  <2>4. CASE onModuleUnload' = onModuleUnload
    BY <1>1, <2>1, <2>4 DEF Calls
  <2>5. CASE ~ Contains(onModuleUnload, x) /\ onModuleUnload' = Append(onModuleUnload, x)
    <3>1. \A k \in 1..Len(onModuleUnload) : onModuleUnload[k] # x
      BY <1>2, <2>5 DEF Contains
    <3>2. Once(onModuleUnload')
      BY <1>1, <1>2, <2>5, <3>1, OnceAppend DEF Calls
    <3>3. /\ Len(onModuleUnload') = Len(onModuleUnload) + 1 /\ Len(onModuleUnload) \in Nat
          /\ \A k \in 1..Len(onModuleUnload) : onModuleUnload'[k] = onModuleUnload[k]
      BY <1>2, <2>5, AppendIs DEF Same
    <3>4. CASE InHandlers(acts)
      <4>1. HandlersRegister
        BY <2>1, <3>4, HandlerBelow
      <4>2. acts[1] \in Loop /\ acts[1].n \in Nat /\ acts[1].i \in Nat
        <5>1. acts[1] \in Acts /\ IsLoop(acts[1])
          BY <1>2, <3>4 DEF InHandlers
        <5>2. acts[1] \in Loop
          BY <5>1, ActCases
        <5>3. QED
          BY <5>2 DEF Loop
      <4>3. /\ acts[1].n <= Len(onModuleUnload) /\ Len(called) = acts[1].i
            /\ acts[1].i <= acts[1].n
            /\ \A k \in 1..Len(called) : called[k] = onModuleUnload[k]
        BY <1>1, <3>4 DEF Calls
      <4>4. acts[1].n <= Len(onModuleUnload')
        BY <3>3, <4>2, <4>3
      <4>5. \A k \in 1..Len(called) : called[k] = onModuleUnload'[k]
        BY <3>3, <4>2, <4>3
      <4>6. QED
        BY <2>1, <3>2, <3>4, <4>1, <4>3, <4>4, <4>5 DEF Calls
    <3>5. CASE ~ InHandlers(acts)
      BY <1>1, <2>1, <3>2, <3>5 DEF Calls
    <3>6. QED
      BY <3>4, <3>5
  <2>6. QED
    BY <1>5, <2>3, <2>4, <2>5 DEF register_on_module_unload
<1>6. CASE CallHandler
  <2>1. /\ acts[1] \in Loop /\ acts[1].stage = "handlers" /\ acts # <<>>
        /\ acts[1].i < acts[1].n /\ acts[1].n <= Len(onModuleUnload)
        /\ acts[1].i + 1 \in 1..Len(onModuleUnload)
        /\ called' = Append(called, onModuleUnload[acts[1].i + 1])
    <3>1. acts # <<>>
      BY <1>6 DEF CallHandler, AtStage, At, Idle
    <3>2. QED
      BY <1>6, <3>1, CallHandlerIs
  <2>2. PICK l \in Loop, h \in Handler :
           /\ l = [acts[1] EXCEPT !.i = acts[1].i + 1] /\ l.stage = "handlers"
           /\ acts' = <<l, h>>
    BY <1>6, CallHandlerIs
  <2>3. UNCHANGED <<onModuleUnload, dropped>>
    BY <1>6 DEF CallHandler, lists
  <2>4. l.i = acts[1].i + 1 /\ l.n = acts[1].n
    BY <2>1, <2>2 DEF Loop
  <2>5. acts'[1] = l /\ acts' # <<>> /\ IsLoop(l)
    BY <2>2 DEF IsLoop, Loop
  <2>6. InHandlers(acts) /\ InHandlers(acts')
    BY <2>1, <2>2, <2>5 DEF InHandlers, IsLoop, Loop
  <2>7. PICK i \in Nat : i = acts[1].i /\ i = Len(called)
    BY <1>1, <2>1, <2>6 DEF Calls, Loop
  <2>8. PICK m \in Nat : m = acts[1].n
    BY <2>1 DEF Loop
  <2>9. i + 1 <= m /\ m <= Len(onModuleUnload) /\ i < m
    BY <2>1, <2>7, <2>8
  <2>10. Len(called') = i + 1 /\ called'[i + 1] = onModuleUnload[i + 1]
         /\ \A k \in 1..i : called'[k] = called[k]
    <3>1. onModuleUnload[i + 1] \in Runs
      BY <1>2, <2>1, <2>7
    <3>2. QED
      BY <1>2, <2>1, <2>7, <3>1, AppendIs DEF Same
  <2>11. \A k \in 1..Len(called') : called'[k] = onModuleUnload[k]
    <3>1. \A k \in 1..i : called[k] = onModuleUnload[k]
      BY <1>1, <2>6, <2>7 DEF Calls
    <3>2. \A k \in 1..i + 1 : k \in 1..i \/ k = i + 1
      OBVIOUS
    <3>3. QED
      BY <2>10, <3>1, <3>2
  <2>12. Once(onModuleUnload) /\ (~ HandlersRegister => dropped = {} /\ m = Len(onModuleUnload))
    BY <1>1, <2>6, <2>8 DEF Calls
  <2>13. l.n = m /\ l.i = i + 1
    BY <2>4, <2>7, <2>8
  <2>14. QED
    BY <2>3, <2>5, <2>6, <2>9, <2>10, <2>11, <2>12, <2>13 DEF Calls
<1>7. CASE HandlersDone \/ Closed
  <2>1. /\ acts # <<>> /\ acts[1] \in Loop /\ IsLoop(acts[1]) /\ Top = acts[1]
        /\ HandlersDone => acts' = <<[acts[1] EXCEPT !.stage = "load"]>>
        /\ Closed => acts' = <<>>
    BY <1>7, LoopStepsIs
  <2>2. ~ InHandlers(acts')
    <3>1. [acts[1] EXCEPT !.stage = "load"].stage = "load"
      BY <2>1, LoopUpdates
    <3>2. PICK l : l = [acts[1] EXCEPT !.stage = "load"]
      OBVIOUS
    <3>3. l.stage = "load" /\ (HandlersDone => acts' = <<l>>)
      BY <2>1, <3>1, <3>2
    <3>4. QED
      BY <1>7, <2>1, <3>3 DEF InHandlers
  <2>3. ClearHandlers
    BY <1>7 DEF HandlersDone, Closed
  <2>4. InHandlers(acts) /\ acts[1].i = acts[1].n /\ onModuleUnload' = <<>> /\ called' = <<>>
    BY <2>1, <2>3 DEF ClearHandlers, InHandlers
  <2>5. ASSUME ~ HandlersRegister PROVE dropped' = {}
    <3>1. /\ dropped = {} /\ Len(called) = Len(onModuleUnload)
          /\ \A k \in 1..Len(called) : called[k] = onModuleUnload[k]
      BY <1>1, <2>4, <2>5 DEF Calls
    <3>2. ToSet(onModuleUnload) \subseteq ToSet(called)
      BY <1>2, <3>1, ToSetIs
    <3>3. QED
      BY <2>3, <3>1, <3>2 DEF ClearHandlers
  <2>6. Once(<<>>)
    BY DEF Once
  <2>7. QED
    BY <2>2, <2>4, <2>5, <2>6 DEF Calls
<1>8. CASE Begins
  <2>1. PICK l \in Loop : /\ acts = <<>> /\ acts' = <<l>> /\ l.stage = "handlers" /\ l.i = 0
                          /\ l.n = Len(onModuleUnload)
                          /\ UNCHANGED <<onModuleUnload, called, dropped>>
    BY <1>8, BeginsIs
  <2>2. InHandlers(acts') /\ acts'[1] = l
    BY <2>1 DEF InHandlers, IsLoop, Loop
  <2>3. called = <<>> /\ Once(onModuleUnload) /\ (~ HandlersRegister => dropped = {})
    BY <1>1, <2>1 DEF Calls, InHandlers
  <2>4. Len(called) = 0 /\ Len(onModuleUnload) \in Nat
    BY <1>2, <2>3
  <2>5. QED
    BY <2>1, <2>2, <2>3, <2>4 DEF Calls
<1>9. CASE ReloadAnswered \/ ReloadEnds
  <2>1. /\ acts # <<>> /\ acts[1] \in Loop /\ Top = acts[1]
        /\ ReloadAnswered => acts' = <<[acts[1] EXCEPT !.ok = @ /\ ret = "ok"]>>
        /\ ReloadEnds => acts' = <<>>
    BY <1>9, LoopStepsIs
  <2>2. acts[1].stage = "load"
    BY <1>9, <2>1 DEF ReloadAnswered, ReloadEnds, AtStage
  <2>3. [acts[1] EXCEPT !.ok = @ /\ ret = "ok"].stage = "load"
    BY <2>1, <2>2, LoopUpdates
  <2>4. ~ InHandlers(acts) /\ ~ InHandlers(acts')
    <3>1. PICK l : l = [acts[1] EXCEPT !.ok = @ /\ ret = "ok"]
      OBVIOUS
    <3>2. l.stage = "load" /\ (ReloadAnswered => acts' = <<l>>)
      BY <2>1, <2>3, <3>1
    <3>3. QED
      BY <1>9, <2>1, <2>2, <3>2 DEF InHandlers
  <2>5. UNCHANGED <<onModuleUnload, called, dropped>>
    BY <1>9 DEF ReloadAnswered, ReloadEnds, Unchanged, lists, ghosts
  <2>6. QED
    BY <1>4, <2>4, <2>5
<1>10. ASSUME NEW f \in Files, NEW must \in BOOLEAN, NEW stay \in Seq(Acts),
              Loads(f, must, stay), Len(acts) = 1,
              acts[1].op = "reload", acts[1].stage = "load", acts' # <<>>,
              acts'[1] = [acts[1] EXCEPT !.todo = Tail(@)]
       PROVE  Calls'
  <2>1. UNCHANGED <<onModuleUnload, called, dropped>>
    BY <1>10 DEF Loads, requireModule, lists, ghosts
  <2>2. acts[1] \in Loop
    <3>1. 1 \in 1..Len(acts) /\ IsLoop(acts[1])
      BY <1>10 DEF IsLoop
    <3>2. acts[1] \in Acts
      BY <1>2, <3>1
    <3>3. QED
      BY <3>1, <3>2, ActCases
  <2>3. [acts[1] EXCEPT !.todo = Tail(@)].stage = "load"
    BY <1>10, <2>2, LoopUpdates
  <2>4. ~ InHandlers(acts) /\ ~ InHandlers(acts')
    BY <1>10, <2>3 DEF InHandlers
  <2>5. QED
    BY <1>4, <2>1, <2>4
<1>11. QED
  BY <1>3, <1>5, <1>6, <1>7, <1>8, <1>9, <1>10, ListKept, LoopKept DEF LoopSteps
----------------------------------------------------------------------------
(* What a reload of all still has to load *)

\* The last reload, the count and the modules change in few actions.
LEMMA LastKept ==
  ASSUME Next
  PROVE  /\ UNCHANGED <<last, reloads>> \/ Begins \/ ReloadEnds
         /\ UNCHANGED modules \/ BodyReturns \/ Begins \/ Closed
<1>1. ASSUME NEW f \in Files, NEW must, NEW stay, requireModule(f, must, stay)
      PROVE  UNCHANGED <<last, reloads, modules>>
  BY <1>1 DEF requireModule, lists, ghosts
<1>2. ASSUME NEW f \in Files
      PROVE  /\ Import(f) => UNCHANGED <<last, reloads, modules>>
             /\ \A must \in BOOLEAN :
                  sqRequire(f, must) \/ HostRequire(f, must) => UNCHANGED <<last, reloads, modules>>
  BY <1>1, <1>2 DEF Import, sqRequire, HostRequire
<1>3. ASSUME \E f \in Volatile : ChangeDisk(f) PROVE UNCHANGED <<last, reloads, modules>>
  BY <1>3 DEF ChangeDisk, lists, ghosts
<1>4. ASSUME \/ CompileFails \/ ImportsBegin \/ ImportAnswered \/ ImportFails
             \/ NoImports \/ ImportsDone \/ TranslateFails \/ GoesOn \/ BodyFails
             \/ HandlerReturns \/ ReloadAnswered
      PROVE  UNCHANGED <<last, reloads, modules>>
  BY <1>4 DEF CompileFails, ImportsBegin, ImportAnswered, ImportFails, NoImports, ImportsDone,
     TranslateFails, GoesOn, BodyFails, HandlerReturns, ReloadAnswered, BodyBegins, Unchanged, lists,
     ghosts
<1>5. ASSUME persist_state \/ register_on_module_unload \/ CallHandler \/ HandlersDone
      PROVE  UNCHANGED <<last, reloads, modules>>
  BY <1>5 DEF persist_state, register_on_module_unload, CallHandler, HandlersDone, lists, ghosts
<1>6. ASSUME ReloadRequires PROVE UNCHANGED <<last, reloads, modules>>
  BY <1>6 DEF ReloadRequires, requireModule, lists, ghosts
<1>7. /\ BodyReturns \/ Closed => UNCHANGED <<last, reloads>>
      /\ ReloadEnds => UNCHANGED modules
  BY DEF BodyReturns, Closed, ReloadEnds
<1>8. QED
  BY <1>2, <1>3, <1>4, <1>5, <1>6, <1>7 DEF Next, Begins

\* Above a loop the innermost activation is the second or a later one.
LEMMA AboveLoop ==
  ASSUME TypeOK, acts # <<>>, IsLoop(acts[1]), ~ IsLoop(Top)
  PROVE  Len(acts) > 1 /\ Len(acts) # 1
<1>1. PICK m \in Nat \ {0} : m = Len(acts)
  BY TopIs DEF Idle
<1>2. m # 1
  BY <1>1 DEF Top
<1>3. m > 1
  BY <1>2
<1>4. QED
  BY <1>1, <1>3

\* f is being loaded for the loop, or has just failed.
Pending(a, answer, f) ==
  \/ Len(a) > 1 /\ a[2].fn = f
  \/ Len(a) = 1 /\ answer = "fail"

LEMMA TailIsNot ==
  ASSUME NEW S, NEW t \in Seq(S), t # <<>>
  PROVE  Tail(t) # t
<1>1. PICK m \in Nat : m = Len(t)
  BY LenProperties
<1>2. Len(Tail(t)) = m - 1
  BY <1>1, HeadTailProperties
<1>3. m - 1 # m
  OBVIOUS
<1>4. QED
  BY <1>1, <1>2, <1>3

LEMMA PendingIs ==
  ASSUME NEW a, NEW r, NEW f
  PROVE  /\ Len(a) > 1 /\ a[2].fn = f => Pending(a, r, f)
         /\ Len(a) = 1 /\ r = "fail" => Pending(a, r, f)
         /\ Pending(a, r, f) /\ Len(a) # 1 => Len(a) > 1 /\ a[2].fn = f
         /\ Pending(a, r, f) /\ r # "fail" => Len(a) > 1 /\ a[2].fn = f
BY Zenon DEF Pending

\* A file of the list of a loop was to be loaded, is loaded, or is pending.
LEMMA SeenIs ==
  ASSUME NEW a, NEW s, NEW r, NEW f
  PROVE  Seen(a, s, r, f) <=>
           \/ \E k \in 1..Len(a[1].todo) : a[1].todo[k] = f
           \/ a[1].stage = "load" /\ (Found(s, f) \/ Pending(a, r, f))
BY Zenon DEF Seen, Pending

LEMMA SeenKept ==
  ASSUME NEW a, NEW b, NEW s, NEW t, NEW r, NEW q, NEW f,
         b[1].todo = a[1].todo, b[1].stage = a[1].stage, Seen(a, s, r, f),
         Found(s, f) => Found(t, f),
         a[1].stage = "load" /\ Pending(a, r, f) => Found(t, f) \/ Pending(b, q, f)
  PROVE  Seen(b, t, q, f)
BY SeenIs

\* The steps above the loop keep what it has seen.
LEMMA StepSeen ==
  ASSUME IInv, Next, SameLoop(acts, acts'), ~ LoopSteps, InReload(acts), acts[1].stage = "load",
         NEW f, Pending(acts, ret, f)
  PROVE  Found(modules', f) \/ Pending(acts', ret', f)
<1>1. TypeOK /\ acts \in Seq(Acts) /\ acts # <<>> /\ IsLoop(acts[1])
  BY DEF IInv, TypeOK, Acts, InReload, IsLoop
<1>2. PICK n \in 0..2 : Shape(acts, runningScripts, n)
  BY DEF IInv, Stack
<1>3. ASSUME ~ IsLoop(Top) PROVE Len(acts) > 1 /\ Len(acts) # 1 /\ acts[2].fn = f
  BY <1>1, <1>3, AboveLoop, PendingIs
<1>4. ASSUME NEW g \in Files, NEW must \in BOOLEAN, NEW stay \in Seq(Acts), Loads(g, must, stay)
      PROVE  Found(modules', f) \/ Pending(acts', ret', f)
  <2>1. stay = acts
    <3>1. CASE stay = <<[acts[1] EXCEPT !.todo = Tail(@)]>> /\ acts[1].todo # <<>> /\ acts[1] \in Loop
      <4>1. PICK t : t = acts[1].todo
        OBVIOUS
      <4>2. t \in Seq(Files) /\ t # <<>> /\ Tail(t) # t
        <5>1. t \in Seq(Files) /\ t # <<>>
          BY <3>1, <4>1 DEF Loop
        <5>2. QED
          BY <5>1, TailIsNot
      <4>3. PICK l : l = [acts[1] EXCEPT !.todo = Tail(@)]
        OBVIOUS
      <4>4. l.todo = Tail(t) /\ l.op = acts[1].op
        BY <3>1, <4>1, <4>3, LoopUpdates
      <4>5. acts'[1] = l
        <5>1. acts' = <<l>> \/ Compile(g, <<l>>)
          BY <1>4, <3>1, <4>3 DEF Loads, requireModule, Answer
        <5>2. ASSUME Compile(g, <<l>>) PROVE acts'[1] = l
          BY <5>2 DEF Compile
        <5>3. QED
          BY <5>1, <5>2
      <4>6. IsLoop(acts[1]) /\ acts'[1] # acts[1]
        BY <1>1, <4>1, <4>2, <4>4, <4>5
      <4>7. QED
        BY <1>1, <4>6 DEF SameLoop
    <3>2. QED
      BY <1>4, <3>1 DEF Loads
  <2>2. ~ IsLoop(Top)
    <3>1. CASE ~ (acts # <<>> => ~ IsLoop(Top))
      <4>1. Len(acts) = 1 /\ acts[1] \in Loop /\ acts[1].todo # <<>>
            /\ acts = <<[acts[1] EXCEPT !.todo = Tail(@)]>>
        BY <1>4, <2>1, <3>1 DEF Loads
      <4>2. PICK t : t = acts[1].todo
        OBVIOUS
      <4>3. t \in Seq(Files) /\ t # <<>>
        BY <4>1, <4>2 DEF Loop
      <4>4. Tail(t) # t
        BY <4>3, TailIsNot
      <4>5. PICK l : l = [acts[1] EXCEPT !.todo = Tail(@)]
        OBVIOUS
      <4>6. l.todo = Tail(t) /\ acts = <<l>>
        BY <4>1, <4>2, <4>5, LoopUpdates
      <4>7. acts[1] = l
        BY <4>6
      <4>8. QED
        BY <4>2, <4>4, <4>6, <4>7
    <3>2. QED
      BY <1>1, <3>1
  <2>3. CASE acts' = acts
    BY <1>3, <2>2, <2>3, PendingIs
  <2>4. CASE acts' # acts
    <3>1. Compile(g, acts)
      BY <1>4, <2>1, <2>4 DEF Loads, requireModule, Answer
    <3>2. PICK x : acts' = Append(acts, x)
      BY <3>1 DEF Compile
    <3>3. PICK m \in Nat : m = Len(acts)
      BY <1>1
    <3>4. acts'[2] = acts[2] /\ Len(acts') > 1
      <4>1. acts \in Seq(Acts \cup {x}) /\ x \in Acts \cup {x}
        BY <1>1
      <4>2. Len(acts') = m + 1 /\ Same(acts, acts', m)
        BY <3>2, <3>3, <4>1, AppendIs
      <4>3. m > 1
        BY <1>3, <2>2, <3>3
      <4>4. QED
        BY <3>3, <4>2, <4>3 DEF Same
    <3>5. QED
      BY <1>3, <2>2, <3>4, PendingIs
  <2>5. QED
    BY <2>3, <2>4
<1>5. CASE CompileFails \/ ImportFails \/ TranslateFails \/ BodyFails
  <2>1. acts # <<>> /\ IsScript(acts[Len(acts)]) /\ acts' = Front(acts) /\ ~ IsLoop(Top)
    BY <1>1, <1>5, ScriptOnTop DEF CompileFails, ImportFails, TranslateFails, BodyFails,
       BodyReturns, Finish, IsLoop, IsScript
  <2>2. Len(acts) > 1 /\ Len(acts) # 1 /\ acts[2].fn = f
    BY <1>3, <2>1
  <2>3. ret' = "fail"
    BY <1>5, <2>2 DEF CompileFails, ImportFails, TranslateFails, BodyFails, Finish
  <2>4. PICK m \in Nat : m = Len(acts)
    BY <1>1
  <2>5. /\ m > 2 => Len(acts') > 1 /\ acts'[2] = acts[2]
        /\ m <= 2 => Len(acts') = 1
    BY <1>1, <2>1, <2>2, <2>4, PopFacts
  <2>6. CASE m > 2
    BY <2>2, <2>5, <2>6, PendingIs
  <2>7. CASE m <= 2
    BY <2>3, <2>5, <2>7, PendingIs
  <2>8. QED
    BY <2>6, <2>7
<1>6. CASE BodyReturns
  <2>1. acts # <<>> /\ IsScript(acts[Len(acts)]) /\ acts' = Front(acts) /\ ~ IsLoop(Top)
        /\ Top = acts[Len(acts)] /\ Top \in Script
    BY <1>1, <1>6, ScriptOnTop DEF BodyReturns, Finish, IsLoop, IsScript
  <2>2. Len(acts) > 1 /\ Len(acts) # 1 /\ acts[2].fn = f
    BY <1>3, <2>1
  <2>4. PICK m \in Nat : m = Len(acts)
    BY <1>1
  <2>5. /\ m > 2 => Len(acts') > 1 /\ acts'[2] = acts[2]
        /\ m <= 2 => m = 2
    BY <1>1, <2>1, <2>2, <2>4, PopFacts
  <2>6. PICK x \in Module : x = [fn |-> Top.fn, store |-> Top.store]
    BY <2>1 DEF Script, Module
  <2>7. modules' = Append(modules, x) /\ modules \in Seq(Module)
    BY <1>1, <1>6, <2>6 DEF BodyReturns, TypeOK
  <2>8. Found(modules', x.fn)
    <3>1. /\ modules' \in Seq(Module) /\ Len(modules') = Len(modules) + 1 /\ Len(modules) \in Nat
          /\ modules'[Len(modules) + 1] = x
      BY <2>7, AppendIs
    <3>2. Len(modules) + 1 \in DOMAIN modules'
      BY <3>1
    <3>3. QED
      BY <3>1, <3>2 DEF Found
  <2>9. CASE m = 2
    BY <2>1, <2>2, <2>4, <2>6, <2>8, <2>9
  <2>10. CASE m > 2
    BY <2>2, <2>5, <2>10, PendingIs
  <2>11. m = 2 \/ m > 2
    BY <2>5
  <2>12. QED
    BY <2>9, <2>10, <2>11
<1>7. CASE ImportsBegin \/ NoImports \/ ImportsDone
  <2>1. Top \in Script /\ Top = acts[Len(acts)] /\ acts # <<>> /\ ~ IsLoop(Top)
    BY <1>1, <1>7, ScriptOnTop DEF ImportsBegin, NoImports, ImportsDone, IsScript, IsLoop
  <2>2. PICK s \in {"import", "body"} : Put([Top EXCEPT !.stage = s])
    BY <1>7 DEF ImportsBegin, NoImports, ImportsDone, BodyBegins
  <2>3. PICK x \in Script : x = [Top EXCEPT !.stage = s]
    BY <2>1 DEF Script
  <2>4. x \in Acts /\ x.fn = Top.fn
    BY <2>1, <2>3 DEF Acts, Script
  <2>5. PICK b : b = [acts EXCEPT ![Len(acts)] = x]
    OBVIOUS
  <2>6. acts' = b
    BY <2>2, <2>3, <2>5 DEF Put
  <2>7. /\ Len(b) = Len(acts) /\ Len(acts) \in Nat \ {0}
        /\ Len(acts) = 2 => b[2] = x
        /\ Len(acts) > 2 => b[2] = acts[2]
    BY ONLY <1>1, <2>1, <2>4, <2>5, PutFacts
  <2>8. Len(acts) > 1 /\ Len(acts) # 1 /\ acts[2].fn = f
    BY <1>3, <2>1
  <2>9. PICK m \in Nat : m = Len(acts) /\ m > 1
    BY <2>7, <2>8
  <2>10. m = 2 \/ m > 2
    BY <2>9
  <2>11. acts'[2].fn = f
    BY <2>1, <2>4, <2>6, <2>7, <2>8, <2>9, <2>10
  <2>12. Len(acts') > 1
    BY <2>6, <2>7, <2>9
  <2>13. QED
    BY <2>11, <2>12, PendingIs
<1>8. CASE HandlerReturns
  <2>1. acts # <<>> /\ acts[Len(acts)].op = "handler"
    BY <1>1, <1>8, TopIs DEF HandlerReturns, At
  <2>2. acts[1].stage = "handlers"
    BY <1>2, <1>8, <2>1, HandlerOnTop
  <2>3. QED
    BY <2>2
<1>9. CASE UNCHANGED <<acts, modules, prevModules, runningScripts>> /\ (ret' = ret \/ ~ IsLoop(Top))
  <2>1. CASE ret' = ret
    BY <1>9, <2>1 DEF Pending
  <2>2. CASE ~ IsLoop(Top)
    BY <1>3, <1>9, <2>2, PendingIs
  <2>3. QED
    BY <1>9, <2>1, <2>2
<1>10. QED
  BY <1>4, <1>5, <1>6, <1>7, <1>8, <1>9, WhoLoads DEF LoopSteps
\* A loaded module stays in the list until the next reload.
LEMMA FoundKept ==
  ASSUME TypeOK, Next, ~ Begins, ~ Closed, NEW f, Found(modules, f)
  PROVE  Found(modules', f)
<1>1. CASE UNCHANGED modules
  BY <1>1
<1>2. CASE BodyReturns
  <2>1. PICK x : modules' = Append(modules, x)
    BY <1>2 DEF BodyReturns
  <2>2. modules \in Seq(Module \cup {x}) /\ x \in Module \cup {x}
    BY DEF TypeOK
  <2>3. modules' \in Seq(Module \cup {x}) /\ Same(modules, modules', Len(modules))
        /\ Len(modules') = Len(modules) + 1 /\ Len(modules) \in Nat
    BY <2>1, <2>2, AppendIs
  <2>4. PICK k \in 1..Len(modules) : modules[k].fn = f
    BY <2>2 DEF Found
  <2>5. modules'[k].fn = f /\ k \in DOMAIN modules'
    BY <2>3, <2>4 DEF Same
  <2>6. QED
    BY <2>5 DEF Found
<1>3. QED
  BY <1>1, <1>2, LastKept

\* What the loop promises of the files it was given, when it goes on.
Promise(a, list, answer, loaded) ==
  a[1].must /\ \A k \in 1..Len(loaded) : Seen(a, list, answer, loaded[k].fn)

\* The loop takes the next file of its list.
LEMMA TakesNext ==
  ASSUME IInv, Next, NEW f \in Files, NEW must \in BOOLEAN, NEW stay \in Seq(Acts),
         Loads(f, must, stay), Len(acts) = 1, acts[1].op = "reload", stay # acts
  PROVE  /\ acts[1] \in Loop /\ acts # <<>> /\ acts' # <<>>
         /\ acts'[1].op = "reload" /\ acts'[1].ok = acts[1].ok /\ acts'[1].must = acts[1].must
         /\ acts[1].must => \A g : Seen(acts, modules, ret, g) => Seen(acts', modules', ret', g)
<1>1. TypeOK /\ acts # <<>>
  <2>1. Len(<<>>) = 0
    OBVIOUS
  <2>2. Len(acts) # 0
    OBVIOUS
  <2>3. QED
    BY <2>1, <2>2 DEF IInv
<1>2. /\ acts[1] \in Loop /\ acts[1].stage = "load" /\ ret = "none" /\ acts[1].todo # <<>>
      /\ f = Head(acts[1].todo) /\ must = acts[1].must
      /\ stay = <<[acts[1] EXCEPT !.todo = Tail(@)]>> /\ requireModule(f, must, stay)
  BY DEF Loads
<1>3. PICK t \in Seq(Files) : t = acts[1].todo
  BY <1>2 DEF Loop
<1>4. PICK l : l = [acts[1] EXCEPT !.todo = Tail(@)]
  OBVIOUS
<1>5. /\ l.op = "reload" /\ l.ok = acts[1].ok /\ l.must = acts[1].must /\ l.stage = "load"
      /\ l.todo = Tail(t)
  BY <1>2, <1>3, <1>4, LoopUpdates
<1>6. stay = <<l>> /\ Len(stay) = 1 /\ stay[1] = l /\ stay # <<>>
  BY <1>2, <1>4
<1>7. UNCHANGED modules
  BY <1>2 DEF requireModule, lists
<1>8. \/ acts' = stay
      \/ \E x : acts' = Append(stay, x) /\ x.fn = f
  <2>1. acts' = stay \/ Compile(f, stay)
    BY <1>2 DEF requireModule, Answer
  <2>2. ASSUME Compile(f, stay) PROVE \E x : acts' = Append(stay, x) /\ x.fn = f
    <3>1. PICK x : x = [op |-> "require", fn |-> f, run |-> runs + 1,
                        store |-> setupStateStorage(f), stage |-> "compile"]
      OBVIOUS
    <3>2. x.fn = f
      BY <3>1
    <3>3. acts' = Append(stay, x)
      BY <2>2, <3>1 DEF Compile
    <3>4. QED
      BY <3>2, <3>3
  <2>3. QED
    BY <2>1, <2>2
<1>9. /\ acts' # <<>> /\ acts'[1] = l
      /\ acts' # stay => Len(acts') = 2 /\ acts'[2].fn = f
  <2>1. CASE acts' = stay
    BY <1>6, <2>1
  <2>2. ASSUME NEW x, acts' = Append(stay, x), x.fn = f
        PROVE  acts' # <<>> /\ acts'[1] = l /\ Len(acts') = 2 /\ acts'[2].fn = f
    <3>1. acts' = <<l, x>>
      BY <1>6, <2>2, PairIs
    <3>2. QED
      BY <2>2, <3>1
  <2>3. QED
    BY <1>8, <2>1, <2>2
<1>10. ASSUME acts[1].must, acts' = stay PROVE Found(modules', f) \/ ret' = "fail"
  <2>1. must
    BY <1>2, <1>10
  <2>2. CASE Compile(f, stay)
    <3>1. PICK x : acts' = Append(stay, x)
      BY <2>2 DEF Compile
    <3>2. acts' = <<l, x>>
      BY <1>6, <3>1, PairIs
    <3>3. PICK b : b = <<l, x>>
      OBVIOUS
    <3>4. Len(b) = 2 /\ acts' = b
      BY <3>2, <3>3
    <3>5. b = stay
      BY <1>10, <3>4
    <3>6. Len(stay) = 2
      BY <3>4, <3>5
    <3>7. Len(stay) # 2
      BY <1>6
    <3>8. QED
      BY <3>6, <3>7
  <2>3. CASE Answer("fail", stay)
    BY <1>6, <2>3 DEF Answer
  <2>4. QED
    BY <1>2, <1>7, <2>1, <2>2, <2>3 DEF requireModule
<1>11. ASSUME acts[1].must PROVE Found(modules', f) \/ Pending(acts', ret', f)
  <2>1. CASE acts' = stay
    BY <1>6, <1>10, <1>11, <2>1, PendingIs
  <2>2. CASE acts' # stay
    BY <1>9, <2>2, PendingIs
  <2>3. QED
    BY <2>1, <2>2
<1>12. ASSUME acts[1].must, NEW g, Seen(acts, modules, ret, g) PROVE Seen(acts', modules', ret', g)
  <2>1. CASE Found(modules, g)
    BY <1>5, <1>7, <1>9, <2>1, SeenIs
  <2>2. CASE g = f
    BY <1>5, <1>9, <1>11, <1>12, <2>2, SeenIs
  <2>3. CASE g # f /\ ~ Found(modules, g)
    <3>1. ~ Pending(acts, ret, g)
      BY <1>2, PendingIs
    <3>2. PICK k \in 1..Len(t) : t[k] = g
      BY <1>3, <1>12, <2>3, <3>1, SeenIs
    <3>3. PICK m \in Nat : m = Len(t)
      BY <1>3
    <3>4. t[1] = f
      BY <1>2, <1>3, HeadTailProperties
    <3>5. k - 1 \in 1..m - 1 /\ k # 1
      BY <2>3, <3>2, <3>3, <3>4
    <3>6. Len(Tail(t)) = m - 1 /\ Tail(t)[k - 1] = t[k]
      <4>1. /\ Len(Tail(t)) = Len(t) - 1
            /\ \A i \in 1..Len(Tail(t)) : Tail(t)[i] = t[i + 1]
        BY <1>2, <1>3, HeadTailProperties
      <4>2. Len(Tail(t)) = m - 1
        BY <3>3, <4>1
      <4>3. Tail(t)[k - 1] = t[(k - 1) + 1]
        BY <3>5, <4>1, <4>2
      <4>4. (k - 1) + 1 = k
        BY <3>2, <3>3
      <4>5. QED
        BY <4>2, <4>3, <4>4
    <3>7. \E i \in 1..Len(acts'[1].todo) : acts'[1].todo[i] = g
      <4>1. acts'[1].todo = Tail(t)
        BY <1>5, <1>9
      <4>2. k - 1 \in 1..Len(Tail(t)) /\ Tail(t)[k - 1] = g
        BY <3>2, <3>5, <3>6
      <4>3. QED
        BY <4>1, <4>2
    <3>8. QED
      BY <3>7, SeenIs
  <2>4. QED
    BY <2>1, <2>2, <2>3
<1>13. QED
  BY <1>1, <1>2, <1>5, <1>9, <1>12
\* A load for the stack as it is leaves the loop at the bottom as it is.
LEMMA LoadsKeep ==
  ASSUME NEW f, NEW must, Loads(f, must, acts)
  PROVE  SameLoop(acts, acts')
<1>1. acts \in Seq(Acts) /\ (acts' = acts \/ \E x : acts' = Append(acts, x) /\ ~ IsLoop(x))
  <2>1. acts \in Seq(Acts) /\ (acts' = acts \/ Compile(f, acts))
    BY DEF Loads, requireModule, Answer
  <2>2. ASSUME Compile(f, acts) PROVE \E x : acts' = Append(acts, x) /\ ~ IsLoop(x)
    <3>1. PICK x : x = [op |-> "require", fn |-> f, run |-> runs + 1,
                        store |-> setupStateStorage(f), stage |-> "compile"]
      OBVIOUS
    <3>2. ~ IsLoop(x)
      BY <3>1 DEF IsLoop
    <3>3. acts' = Append(acts, x)
      BY <2>2, <3>1 DEF Compile
    <3>4. QED
      BY <3>2, <3>3
  <2>3. QED
    BY <2>1, <2>2
<1>2. CASE acts' = acts
  BY <1>2 DEF SameLoop
<1>3. ASSUME NEW x, acts' = Append(acts, x), ~ IsLoop(x) PROVE SameLoop(acts, acts')
  <2>1. acts \in Seq(Acts \cup {x}) /\ x \in Acts \cup {x}
    BY <1>1
  <2>2. /\ acts' \in Seq(Acts \cup {x}) /\ Len(acts') = Len(acts) + 1 /\ acts'[Len(acts) + 1] = x
        /\ Same(acts, acts', Len(acts))
    BY <1>3, <2>1, AppendIs
  <2>3. PICK m \in Nat : m = Len(acts)
    BY <1>1
  <2>4. acts' # <<>>
    BY <2>2, <2>3
  <2>5. CASE acts = <<>>
    BY <1>3, <2>2, <2>5 DEF SameLoop
  <2>6. CASE acts # <<>>
    <3>1. 1 \in 1..m
      BY <1>1, <2>3, <2>6, EmptySeq
    <3>2. acts'[1] = acts[1]
      BY <2>2, <2>3, <3>1 DEF Same
    <3>3. QED
      BY <2>4, <2>6, <3>2 DEF SameLoop
  <2>7. QED
    BY <2>5, <2>6
<1>4. QED
  BY <1>1, <1>2, <1>3

\* A reload stays a reload until it ends, and a closing a closing.
LEMMA LoopStays ==
  ASSUME IInv, Next, ~ Begins
  PROVE  /\ InReload(acts') => InReload(acts)
         /\ acts' # <<>> /\ acts'[1].op = "close" => acts # <<>> /\ acts[1].op = "close"
<1>1. CASE SameLoop(acts, acts')
  BY <1>1 DEF SameLoop, InReload, IsLoop
<1>2. CASE CallHandler
  <2>1. PICK l \in Loop, h \in Handler :
           l = [acts[1] EXCEPT !.i = acts[1].i + 1] /\ acts' = <<l, h>>
    BY <1>2, CallHandlerIs
  <2>2. acts[1] \in Loop /\ acts # <<>>
    BY <1>2, CallHandlerIs DEF CallHandler, AtStage, At, Idle
  <2>3. l.op = acts[1].op
    BY <2>1, <2>2, LoopUpdates
  <2>4. QED
    BY <2>1, <2>2, <2>3 DEF InReload
<1>3. CASE HandlersDone \/ Closed \/ ReloadAnswered \/ ReloadEnds
  <2>1. acts # <<>> /\ acts[1] \in Loop
    BY <1>3, LoopStepsIs
  <2>2. PICK l : l = [acts[1] EXCEPT !.stage = "load"]
    OBVIOUS
  <2>3. PICK k : k = [acts[1] EXCEPT !.ok = @ /\ ret = "ok"]
    OBVIOUS
  <2>4. acts' = <<l>> \/ acts' = <<k>> \/ acts' = <<>>
    BY <1>3, <2>2, <2>3, LoopStepsIs
  <2>5. l.op = acts[1].op /\ k.op = acts[1].op
    BY <2>1, <2>2, <2>3, LoopUpdates
  <2>6. QED
    BY <2>1, <2>4, <2>5 DEF InReload
<1>4. ASSUME NEW f \in Files, NEW must \in BOOLEAN, NEW stay \in Seq(Acts),
             Loads(f, must, stay), Len(acts) = 1, acts[1].op = "reload", ~ SameLoop(acts, acts'),
             acts'[1] = [acts[1] EXCEPT !.todo = Tail(@)]
      PROVE  /\ InReload(acts') => InReload(acts)
             /\ acts' # <<>> /\ acts'[1].op = "close" => acts # <<>> /\ acts[1].op = "close"
  <2>1. CASE stay # acts
    <3>1. acts # <<>> /\ acts'[1].op = "reload"
      BY <1>4, <2>1, TakesNext
    <3>2. QED
      BY <1>4, <3>1 DEF InReload
  <2>2. CASE stay = acts
    BY <1>4, <2>2, LoadsKeep
  <2>3. QED
    BY <2>1, <2>2
<1>5. QED
  BY <1>1, <1>2, <1>3, <1>4, LoopKept DEF LoopSteps

LEMMA ReloadsNext ==
  ASSUME IInv, Next
  PROVE  Reloads'
<1>1. TypeOK /\ Reloads
  BY DEF IInv
<1>2. acts \in Seq(Acts) /\ modules \in Seq(Module)
      /\ MaxReloads \in Nat /\ reloads \in Nat /\ last.loaded \in Seq(Module)
  BY <1>1, BoundsAssumption DEF TypeOK, Acts
<1> DEFINE
      Kinds == /\ InReload(acts') => ~ last'.ok /\ reloads' <= MaxReloads
               /\ acts' # <<>> /\ acts'[1].op = "close" => reloads' = MaxReloads + 1
      Done  == reloads' <= MaxReloads /\ last'.all /\ last'.ok =>
                 \A k \in 1..Len(last'.loaded) : Found(modules', last'.loaded[k].fn)
      Going_ == InReload(acts') /\ last'.all /\ acts'[1].ok =>
                  /\ acts'[1].must
                  /\ \A k \in 1..Len(last'.loaded) : Seen(acts', modules', ret', last'.loaded[k].fn)
<1>3. SUFFICES Kinds /\ Done /\ Going_
  BY DEF Reloads
<1> HIDE DEF Kinds, Done, Going_
<1>4. CASE Begins
  <2>1. PICK l \in Loop :
           /\ acts' = <<l>> /\ l.stage = "handlers"
           /\ \/ /\ l.op = "reload" /\ reloads' <= MaxReloads /\ ~ last'.ok
                 /\ last'.all => /\ l.must /\ last'.loaded = modules
                                 /\ l.todo = [k \in DOMAIN modules |-> modules[k].fn]
              \/ l.op = "close" /\ reloads' = MaxReloads + 1
    BY <1>4, BeginsIs
  <2>2. acts'[1] = l
    BY <2>1
  <2>3. Kinds
    BY <2>1, <2>2 DEF Kinds, InReload
  <2>4. ~ (MaxReloads + 1 <= MaxReloads)
    BY <1>2
  <2>5. Done
    BY <2>1, <2>4 DEF Done
  <2>6. ASSUME l.op = "reload", last'.all PROVE
          /\ l.must
          /\ \A k \in 1..Len(last'.loaded) : Seen(acts', modules', ret', last'.loaded[k].fn)
    <3>1. l.must /\ last'.loaded = modules /\ l.todo = [k \in DOMAIN modules |-> modules[k].fn]
      BY <2>1, <2>6
    <3>2. PICK t : t = [k \in DOMAIN modules |-> modules[k].fn]
      OBVIOUS
    <3>3. Len(t) = Len(modules) /\ \A k \in 1..Len(modules) : t[k] = modules[k].fn
      BY <1>2, <3>2, NamesOf
    <3>4. l.todo = t
      BY <3>1, <3>2
    <3>5. ASSUME NEW k \in 1..Len(modules) PROVE Seen(acts', modules', ret', modules[k].fn)
      <4>1. k \in 1..Len(acts'[1].todo) /\ acts'[1].todo[k] = modules[k].fn
        BY <2>2, <3>3, <3>4
      <4>2. QED
        BY <4>1, SeenIs
    <3>6. QED
      BY <3>1, <3>5
  <2>7. Going_
    BY <2>1, <2>2, <2>6 DEF Going_, InReload
  <2>8. QED
    BY <2>3, <2>5, <2>7
<1>5. CASE ReloadEnds
  <2>1. /\ acts # <<>> /\ Len(acts) = 1 /\ acts[1] \in Loop /\ Top = acts[1] /\ acts' = <<>>
    BY <1>5, LoopStepsIs
  <2>2. Kinds /\ Going_
    BY <2>1 DEF Kinds, Going_, InReload
  <2>3. /\ acts[1].op = "reload" /\ acts[1].stage = "load" /\ ret = "none" /\ acts[1].todo = <<>>
        /\ last' = [last EXCEPT !.ok = acts[1].ok] /\ UNCHANGED <<modules, reloads>>
    BY <1>5, <2>1 DEF ReloadEnds, AtStage, At, Going
  <2>4. last'.loaded = last.loaded /\ last'.all = last.all /\ last'.ok = acts[1].ok
    BY <1>1, <2>3 DEF TypeOK
  <2>5. ASSUME last.all, acts[1].ok, NEW k \in 1..Len(last.loaded)
        PROVE  Found(modules, last.loaded[k].fn)
    <3>1. Seen(acts, modules, ret, last.loaded[k].fn)
      BY <1>1, <2>1, <2>3, <2>5 DEF Reloads, InReload
    <3>2. ~ Pending(acts, ret, last.loaded[k].fn)
      BY <2>1, <2>3, PendingIs
    <3>3. 1..Len(acts[1].todo) = {}
      BY <2>3
    <3>4. QED
      BY <3>1, <3>2, <3>3, SeenIs
  <2>6. Done
    BY <2>3, <2>4, <2>5 DEF Done
  <2>7. QED
    BY <2>2, <2>6
<1>6. CASE ~ Begins /\ ~ ReloadEnds
  <2>1. last' = last /\ reloads' = reloads
    BY <1>6, LastKept
  <2>2. Kinds
    BY <1>1, <1>6, <2>1, LoopStays DEF Kinds, Reloads, InReload
  <2>3. CASE Closed
    <3>1. acts # <<>> /\ acts' = <<>> /\ Top = acts[1] /\ acts[1].op = "close"
      BY <2>3, LoopStepsIs DEF Closed, At
    <3>2. reloads' = MaxReloads + 1
      BY <1>1, <2>1, <3>1 DEF Reloads
    <3>3. ~ (MaxReloads + 1 <= MaxReloads)
      BY <1>2
    <3>4. Done /\ Going_
      BY <3>1, <3>2, <3>3 DEF Done, Going_, InReload
    <3>5. QED
      BY <2>2, <3>4
  <2>4. CASE ~ Closed
    <3>1. \A f : Found(modules, f) => Found(modules', f)
      BY <1>1, <1>6, <2>4, FoundKept
    <3>2. Done
      BY <1>1, <2>1, <3>1 DEF Done, Reloads
    <3>3. SUFFICES ASSUME InReload(acts'), last.all, acts'[1].ok
                   PROVE  Promise(acts', modules', ret', last.loaded)
      BY <2>1, <2>2, <3>2 DEF Going_, Promise
    <3>4. InReload(acts)
      BY <1>6, <3>3, LoopStays
    <3>5. ASSUME acts[1].ok PROVE Promise(acts, modules, ret, last.loaded)
      BY <1>1, <3>3, <3>4, <3>5 DEF Reloads, Promise
    <3>6. CASE SameLoop(acts, acts') /\ ~ LoopSteps
      <4>1. acts'[1] = acts[1]
        BY <3>4, <3>6 DEF SameLoop, InReload, IsLoop
      <4>2. ASSUME NEW f, Seen(acts, modules, ret, f) PROVE Seen(acts', modules', ret', f)
        <5>1. acts[1].stage = "load" /\ Pending(acts, ret, f) =>
                 Found(modules', f) \/ Pending(acts', ret', f)
          BY <3>4, <3>6, StepSeen
        <5>2. QED
          BY <3>1, <4>1, <4>2, <5>1, SeenIs
      <4>3. QED
        BY <3>3, <3>5, <4>1, <4>2 DEF Promise
    <3>7. CASE CallHandler
      <4>1. PICK l \in Loop, h \in Handler :
               /\ l = [acts[1] EXCEPT !.i = acts[1].i + 1] /\ acts' = <<l, h>>
        BY <3>7, CallHandlerIs
      <4>2. acts[1] \in Loop /\ acts[1].stage = "handlers"
        BY <3>7, CallHandlerIs
      <4>3. /\ l.ok = acts[1].ok /\ l.must = acts[1].must /\ l.todo = acts[1].todo
            /\ acts'[1] = l
        BY <4>1, <4>2, LoopUpdates
      <4>4. ASSUME NEW f, Seen(acts, modules, ret, f) PROVE Seen(acts', modules', ret', f)
        BY <4>2, <4>3, <4>4, SeenIs
      <4>5. QED
        BY <3>3, <3>5, <4>3, <4>4 DEF Promise
    <3>8. CASE HandlersDone
      <4>1. acts[1] \in Loop /\ acts' = <<[acts[1] EXCEPT !.stage = "load"]>> /\ Top = acts[1]
        BY <3>8, LoopStepsIs
      <4>2. PICK l : l = [acts[1] EXCEPT !.stage = "load"]
        OBVIOUS
      <4>3. /\ l.ok = acts[1].ok /\ l.must = acts[1].must /\ l.todo = acts[1].todo
            /\ acts'[1] = l
        BY <4>1, <4>2, LoopUpdates
      <4>4. acts[1].stage = "handlers"
        BY <3>8, <4>1 DEF HandlersDone, ClearHandlers
      <4>5. ASSUME NEW f, Seen(acts, modules, ret, f) PROVE Seen(acts', modules', ret', f)
        BY <4>3, <4>4, <4>5, SeenIs
      <4>6. QED
        BY <3>3, <3>5, <4>3, <4>5 DEF Promise
    <3>9. CASE ReloadAnswered
      <4>1. acts[1] \in Loop /\ acts' = <<[acts[1] EXCEPT !.ok = @ /\ ret = "ok"]>>
            /\ Top = acts[1] /\ Len(acts) = 1
        BY <3>9, LoopStepsIs
      <4>2. PICK l : l = [acts[1] EXCEPT !.ok = @ /\ ret = "ok"]
        OBVIOUS
      <4>3. /\ l.ok = (acts[1].ok /\ ret = "ok") /\ l.must = acts[1].must
            /\ l.todo = acts[1].todo /\ l.stage = acts[1].stage /\ acts'[1] = l
        BY <4>1, <4>2, LoopUpdates
      <4>4. acts[1].ok /\ ret = "ok"
        BY <3>3, <4>3
      <4>5. ASSUME NEW f, Seen(acts, modules, ret, f) PROVE Seen(acts', modules', ret', f)
        <5>1. ~ Pending(acts, ret, f)
          BY <4>1, <4>4, PendingIs
        <5>2. QED
          BY <3>1, <4>3, <4>5, <5>1, SeenIs
      <4>6. QED
        BY <3>5, <4>3, <4>4, <4>5 DEF Promise
    <3>10. ASSUME NEW f \in Files, NEW must \in BOOLEAN, NEW stay \in Seq(Acts),
                  Loads(f, must, stay), Len(acts) = 1, acts[1].op = "reload", ~ SameLoop(acts, acts')
           PROVE  Promise(acts', modules', ret', last.loaded)
      <4>1. stay # acts
        BY <3>10, LoadsKeep
      <4>2. /\ acts'[1].ok = acts[1].ok /\ acts'[1].must = acts[1].must
            /\ acts[1].must => \A g : Seen(acts, modules, ret, g) => Seen(acts', modules', ret', g)
        BY <3>10, <4>1, TakesNext
      <4>3. QED
        BY <3>3, <3>5, <4>2 DEF Promise
    <3>11. QED
      BY <1>6, <2>4, <3>6, <3>7, <3>8, <3>9, <3>10, LoopKept DEF LoopSteps
  <2>5. QED
    BY <2>3, <2>4
<1>7. QED
  BY <1>4, <1>5, <1>6
----------------------------------------------------------------------------
(* The theorems *)

LEMMA InitIInv == Init => IInv
<1> SUFFICES ASSUME Init PROVE IInv
  OBVIOUS
<1>1. MaxRuns \in Nat /\ MaxReloads \in Nat
  BY BoundsAssumption
<1>2. TypeOK
  <2>1. files \subseteq Files /\ storage \in [Runs -> 0..MaxRuns]
    BY <1>1 DEF Init, Runs
  <2>2. modules \in Seq(Module) /\ prevModules \in Seq(Module) /\ runningScripts \in Seq(Files)
        /\ onModuleUnload \in Seq(Runs) /\ acts \in Seq(Script \cup Handler \cup Loop)
        /\ called \in Seq(Runs)
    BY DEF Init
  <2>3. ret \in {"none", "ok", "fail"} /\ runs \in 0..MaxRuns /\ reloads \in 0..MaxReloads + 1
        /\ dropped \subseteq Runs
    BY <1>1 DEF Init
  <2>4. last \in [loaded: Seq(Module), all: BOOLEAN, ok: BOOLEAN]
    BY DEF Init
  <2>5. kept \in [Files -> 0..MaxRuns]
    BY <1>1 DEF Init
  <2>6. QED
    BY <2>1, <2>2, <2>3, <2>4, <2>5 DEF TypeOK
<1>3. acts = <<>> /\ runningScripts = <<>> /\ modules = <<>> /\ prevModules = <<>>
      /\ onModuleUnload = <<>> /\ called = <<>> /\ dropped = {} /\ ~ last.all
  BY DEF Init
<1>4. Stack
  <2>1. Shape(<<>>, <<>>, 0)
    BY DEF Shape, Bottom, Running_, ScriptsAbove, TopCompiles
  <2>2. QED
    BY <1>3, <2>1 DEF Stack
<1>5. Fresh
  BY <1>3 DEF Fresh, NamesOnce, Once, TopCompiles
<1>6. StorageReused
  BY <1>3 DEF StorageReused, ToSet
<1>7. Calls
  BY <1>3 DEF Calls, Once, InHandlers
<1>8. Reloads
  BY <1>3 DEF Reloads, InReload
<1>9. QED
  BY <1>2, <1>4, <1>5, <1>6, <1>7, <1>8 DEF IInv

LEMMA Stutters ==
  ASSUME IInv, UNCHANGED vars
  PROVE  IInv'
<1>1. /\ UNCHANGED <<files, storage, modules, prevModules, onModuleUnload, runningScripts, acts>>
      /\ UNCHANGED <<ret, runs, reloads, called, dropped, last, kept>>
  BY DEF vars, disk, lists, ghosts
<1>2. TypeOK'
  BY <1>1 DEF IInv, TypeOK
<1>3. Stack'
  BY <1>1 DEF IInv, Stack
<1>4. Fresh'
  BY <1>1 DEF IInv, Fresh, checkCircularReferences, Top
<1>5. StorageReused'
  BY <1>1 DEF IInv, StorageReused
<1>6. Calls'
  BY <1>1 DEF IInv, Calls
<1>7. Reloads'
  BY <1>1 DEF IInv, Reloads
<1>8. QED
  BY <1>2, <1>3, <1>4, <1>5, <1>6, <1>7 DEF IInv

LEMMA NextIInv ==
  ASSUME IInv, [Next]_vars
  PROVE  IInv'
<1>1. CASE Next
  BY <1>1, TypeNext, StackNext, FreshNext, ReusedNext, CallsNext, ReloadsNext DEF IInv
<1>2. CASE UNCHANGED vars
  BY <1>2, Stutters
<1>3. QED
  BY <1>1, <1>2

\* What holds in every state of the module manager.
THEOREM ManagerInvariant == Spec => []IInv
<1>1. QED
  BY InitIInv, NextIInv, PTL DEF Spec

\* Every variable of the manager has its type, for any files and bounds: no
\* activation is left waiting for an answer that does not exist, and no list
\* holds an undefined record.
THEOREM ManagerTyped == Spec => []TypeOK
<1>1. IInv => TypeOK
  BY DEF IInv
<1>2. QED
  BY <1>1, ManagerInvariant, PTL

LEMMA StackIsRunning ==
  ASSUME IInv
  PROVE  RunningStack
<1>1. PICK n \in 0..2 : Shape(acts, runningScripts, n)
  BY DEF IInv, Stack
<1>2. /\ acts \in Seq(Acts) /\ runningScripts \in Seq(Files) /\ n <= Len(acts)
      /\ \A k \in 1..n : ~ IsScript(acts[k])
      /\ \A k \in n + 1..Len(acts) : IsScript(acts[k])
      /\ \A k \in n + 1..Len(acts) - 1 : ~ Compiles(acts[k])
      /\ \A k \in 1..Len(runningScripts) : runningScripts[k] = acts[n + k].fn
  BY <1>1 DEF Shape, Bottom, Running_, ScriptsAbove
<1>3. PICK m \in Nat : m = Len(acts)
  BY <1>2
<1>4. PICK r \in Nat : r = Len(runningScripts)
  BY <1>2
<1>5. DOMAIN acts = 1..m /\ DOMAIN runningScripts = 1..r
  BY <1>2, <1>3, <1>4
<1>6. \A k \in 1..m : (acts[k].op = "require" /\ acts[k].stage # "compile") <=>
                         (IsScript(acts[k]) /\ ~ Compiles(acts[k]))
  BY DEF IsScript, Compiles
<1>7. TopCompiles(acts) => m # 0 /\ Compiles(acts[m]) /\ IsScript(acts[m]) /\ m > n
  <2>1. TopCompiles(acts) => m # 0 /\ Compiles(acts[m]) /\ IsScript(acts[m])
    BY <1>2, <1>3, EmptySeq DEF TopCompiles, Compiles, IsScript
  <2>2. ASSUME TopCompiles(acts) PROVE m > n
    <3>1. m \in 1..m /\ IsScript(acts[m])
      BY <2>1, <2>2
    <3>2. ~ m <= n
      BY <1>2, <3>1
    <3>3. QED
      BY <3>2
  <2>3. QED
    BY <2>1, <2>2
<1>8. \A k \in n + 1..m : ~ Compiles(acts[k]) <=> k \in n + 1..n + r
  <2>1. CASE TopCompiles(acts)
    <3>1. r = m - n - 1
      BY <1>1, <1>3, <1>4, <2>1 DEF Shape, Running_
    <3>2. \A k \in n + 1..m : k \in n + 1..n + r <=> k # m
      BY <3>1
    <3>3. \A k \in n + 1..m : k # m => ~ Compiles(acts[k])
      BY <1>2, <1>3
    <3>4. QED
      BY <1>7, <2>1, <3>2, <3>3
  <2>2. CASE ~ TopCompiles(acts)
    <3>1. r = m - n - 0
      BY <1>1, <1>3, <1>4, <2>2 DEF Shape, Running_
    <3>2. \A k \in n + 1..m : k \in n + 1..n + r
      BY <3>1
    <3>3. \A k \in n + 1..m : ~ Compiles(acts[k])
      <4>1. \A k \in n + 1..m : k # m => ~ Compiles(acts[k])
        BY <1>2, <1>3
      <4>2. m # 0 => ~ Compiles(acts[m])
        BY <1>2, <1>3, <2>2 DEF TopCompiles
      <4>3. QED
        BY <4>1, <4>2
    <3>4. QED
      BY <3>2, <3>3
  <2>3. QED
    BY <2>1, <2>2
<1>9. n + r <= m
  <2>1. CASE TopCompiles(acts)
    BY <1>1, <1>3, <1>4, <2>1 DEF Shape, Running_
  <2>2. CASE ~ TopCompiles(acts)
    <3>1. r = m - n - 0
      BY <1>1, <1>3, <1>4, <2>2 DEF Shape, Running_
    <3>2. QED
      BY <3>1
  <2>3. QED
    BY <2>1, <2>2
<1>10. Executing = n + 1..n + r
  <2>1. \A k \in 1..m : k \in Executing <=> IsScript(acts[k]) /\ ~ Compiles(acts[k])
    BY <1>5, <1>6 DEF Executing
  <2>2. \A k \in 1..m : k \in Executing <=> k \in n + 1..n + r
    <3>1. \A k \in 1..m : k \in 1..n \/ k \in n + 1..m
      OBVIOUS
    <3>2. \A k \in 1..n : k \notin n + 1..n + r
      OBVIOUS
    <3>3. QED
      BY <1>2, <1>3, <1>8, <2>1, <3>1, <3>2
  <2>3. Executing \subseteq 1..m
    BY <1>5 DEF Executing
  <2>4. n + 1..n + r \subseteq 1..m
    BY <1>9
  <2>5. QED
    BY <2>2, <2>3, <2>4
<1>11. n \in 0..Len(acts)
  BY <1>2, <1>3
<1>12. QED
  BY <1>2, <1>4, <1>5, <1>10, <1>11 DEF RunningStack

\* However scripts fail (in their text, their imports or their body), and whatever
\* they require inside handlers and reloads, the names on runningScripts are those
\* of the scripts whose imports or body are in progress, in order.
THEOREM ManagerRunningStack == Spec => []RunningStack
<1>1. QED
  BY ManagerInvariant, StackIsRunning, PTL

LEMMA FreshIsOnce ==
  ASSUME IInv
  PROVE  LoadedOnce
<1> DEFINE names == [k \in DOMAIN modules |-> modules[k].fn]
<1>1. /\ modules \in Seq(Module) /\ runningScripts \in Seq(Files)
      /\ NamesOnce(modules) /\ Once(runningScripts)
      /\ \A k \in 1..Len(runningScripts) : ~ Found(modules, runningScripts[k])
  BY DEF IInv, TypeOK, Fresh
<1>2. PICK m \in Nat : m = Len(modules)
  BY <1>1
<1>3. PICK r \in Nat : r = Len(runningScripts)
  BY <1>1
<1>4. names \in Seq(Files) /\ Len(names) = m /\ \A k \in 1..m : names[k] = modules[k].fn
  BY <1>1, <1>2, NamesOf
<1> HIDE DEF names
<1> DEFINE c == names \o runningScripts
<1>5. /\ DOMAIN c = 1..m + r
      /\ \A k \in 1..m : c[k] = names[k]
      /\ \A k \in 1..r : c[m + k] = runningScripts[k]
  <2>1. c \in Seq(Files) /\ Len(c) = m + r
    BY <1>1, <1>3, <1>4, ConcatProperties
  <2>2. \A k \in 1..m + r :
          c[k] = IF k <= m THEN names[k] ELSE runningScripts[k - m]
    BY <1>1, <1>3, <1>4, ConcatProperties
  <2>3. QED
    BY <2>1, <2>2
<1> HIDE DEF c
<1>6. ASSUME NEW j \in 1..m, NEW k \in 1..m, c[j] = c[k] PROVE j = k
  BY <1>1, <1>2, <1>4, <1>5, <1>6 DEF NamesOnce
<1>7. ASSUME NEW j \in 1..m, NEW k \in 1..r PROVE c[j] # c[m + k]
  <2>1. DOMAIN modules = 1..m
    BY <1>1, <1>2
  <2>2. c[j] = modules[j].fn /\ c[m + k] = runningScripts[k]
    BY <1>4, <1>5
  <2>3. QED
    BY <1>1, <1>3, <2>1, <2>2 DEF Found
<1>8. ASSUME NEW j \in 1..r, NEW k \in 1..r, c[m + j] = c[m + k] PROVE j = k
  BY <1>1, <1>3, <1>5, <1>8 DEF Once
<1>9. \A k \in 1..m + r : k \in 1..m \/ \E i \in 1..r : k = m + i
  <2>1. \A k \in 1..m + r : k \in 1..m \/ (k - m \in 1..r /\ k = m + (k - m))
    OBVIOUS
  <2>2. QED
    BY <2>1
<1>10. ASSUME NEW j \in 1..m + r, NEW k \in 1..m + r, c[j] = c[k] PROVE j = k
  BY <1>6, <1>7, <1>8, <1>9, <1>10
<1>11. IsInjective(c)
  BY <1>5, <1>10 DEF IsInjective
<1>12. QED
  BY <1>11 DEF LoadedOnce, c, names

\* No file is loaded twice between two reloads, and a script that is being
\* executed is neither loaded nor executed again, for any graph of requires.
THEOREM ManagerLoadedOnce == Spec => []LoadedOnce
<1>1. QED
  BY ManagerInvariant, FreshIsOnce, PTL

\* Every run of a file during a reload is given the table of persisted values of
\* the file's record in the generation being replaced.
THEOREM ManagerStorageReused == Spec => []StorageReused
<1>1. IInv => StorageReused
  BY DEF IInv
<1>2. QED
  BY <1>1, ManagerInvariant, PTL

LEMMA DoneIsLoaded ==
  ASSUME IInv
  PROVE  AllReloaded
<1> SUFFICES ASSUME Open, last.all, last.ok, NEW p \in ToSet(last.loaded)
             PROVE  Found(modules, p.fn)
  BY DEF AllReloaded
<1>1. last.loaded \in Seq(Module)
  BY DEF IInv, TypeOK
<1>2. PICK k \in 1..Len(last.loaded) : last.loaded[k] = p
  BY <1>1, ToSetIs
<1>3. QED
  BY <1>2 DEF IInv, Reloads, Open

\* A reload of all that reports success has loaded every module there was.
THEOREM ManagerReloadsAll == Spec => []AllReloaded
<1>1. QED
  BY ManagerInvariant, DoneIsLoaded, PTL

LEMMA CalledOnce ==
  ASSUME IInv
  PROVE  IsInjective(called)
<1>1. called \in Seq(Runs) /\ onModuleUnload \in Seq(Runs) /\ Once(onModuleUnload)
  BY DEF IInv, TypeOK, Calls
<1>2. CASE InHandlers(acts)
  <2>1. /\ acts[1].n <= Len(onModuleUnload) /\ Len(called) = acts[1].i /\ acts[1].i <= acts[1].n
        /\ \A k \in 1..Len(called) : called[k] = onModuleUnload[k]
    BY <1>2 DEF IInv, Calls
  <2>2. acts[1] \in Loop
    <3>1. acts \in Seq(Acts) /\ acts # <<>> /\ IsLoop(acts[1])
      BY <1>2 DEF IInv, TypeOK, Acts, InHandlers
    <3>2. acts[1] \in Acts
      BY <3>1
    <3>3. QED
      BY <3>1, <3>2, ActCases
  <2>3. PICK i \in Nat : i = Len(called)
    BY <1>1
  <2>4. PICK m \in Nat : m = Len(onModuleUnload)
    BY <1>1
  <2>5. PICK n \in Nat : n = acts[1].n
    BY <2>2 DEF Loop
  <2>6. i <= n /\ n <= m
    BY <2>1, <2>3, <2>4, <2>5
  <2>7. DOMAIN called = 1..i /\ \A k \in 1..i : k \in 1..m
    BY <1>1, <2>3, <2>6
  <2>8. \A j, k \in 1..i : called[j] = called[k] => j = k
    BY <1>1, <2>1, <2>3, <2>4, <2>7 DEF Once
  <2>9. QED
    BY <2>7, <2>8 DEF IsInjective
<1>3. CASE ~ InHandlers(acts)
  <2>1. called = <<>>
    BY <1>3 DEF IInv, Calls
  <2>2. QED
    BY <2>1 DEF IsInjective
<1>4. QED
  BY <1>2, <1>3

\* If no module that registers a handler is loaded while a handler runs, a reload
\* is complete: each handler is called once and none is dropped unheard, and when
\* a reload of all reports success every module is loaded again.
THEOREM ManagerReloadComplete ==
  ASSUME ~ HandlersRegister
  PROVE  Spec => []ReloadComplete
<1>1. IInv => ReloadComplete
  <2> SUFFICES ASSUME IInv PROVE ReloadComplete
    OBVIOUS
  <2>1. dropped = {}
    BY DEF IInv, Calls
  <2>2. QED
    BY <2>1, CalledOnce, DoneIsLoaded DEF ReloadComplete, HandlersOnce
<1>2. QED
  BY <1>1, ManagerInvariant, PTL

----------------------------------------------------------------------------
(* Values, and what a call may do to the stack *)

Kinds == Types \cup Closures \cup Arrays \cup
           {"null", "number", "string", "userpointer", "userdata", "thread", "table",
            "class", "instance", "weakref", "result"}
Stacks == Seq(Kinds)

\* t leaves the m values at the bottom of s where they are.
Leaves(s, t, m) == m <= Len(s) /\ m <= Len(t) /\ \A k \in 1..m : SameType(t[k], s[k])

\* A call on s that the documentation says takes pops values and pushes others
\* may succeed with t, or fail with t.
Succeeds(s, pops, pushes, t) ==
  t \in Stacks /\ Len(t) = Len(s) - pops + pushes /\ Leaves(s, t, Len(s) - pops)
Fails(s, pops, t) ==
  t \in Stacks /\ Len(t) \in {Len(s), Len(s) - pops} /\ Leaves(s, t, Len(t))

\* It may also suspend the VM with t, or leave something behind when it fails.
Waiting(s, c, t) ==
  /\ t \in Stacks /\ Leaves(s, t, Len(s) - c.pops)
  /\ Len(t) = Len(s) + (IF c.f = "sq_resume" THEN 1 ELSE 0)
LeavesBehind(s, c, t) ==
  /\ t \in Stacks /\ Leaves(s, t, Len(s) - c.pops)
  /\ \/ c.f = "sq_next" /\ Len(t) = Len(s)
     \/ Len(t) = Len(s) - c.pops + LeftBehind(c.f) /\ Len(t) > Len(s)

Documented(s, c) ==
  /\ c.pops \in Nat
  /\ \A o \in c.out :
       IF o.ok THEN IF o.waits THEN Waiting(s, c, o.st) ELSE Succeeds(s, c.pops, c.pushes, o.st)
       ELSE Fails(s, c.pops, o.st) \/ LeavesBehind(s, c, o.st)

\* i is an index of the interface, positive or negative, of one of the values
\* below the n on top.
Index(s, i, n) == i \in Int /\ Pos(s, i) \in 1..Len(s) /\ Pos(s, i) <= Len(s) - n

----------------------------------------------------------------------------
(* The operators on stacks *)

\* What is pushed lies over what was there.
LEMMA PushedIs ==
  ASSUME NEW s \in Stacks, NEW t \in Kinds
  PROVE  /\ Pushed(s, t) \in Stacks /\ Len(Pushed(s, t)) = Len(s) + 1
         /\ \A k \in 1..Len(s) : Pushed(s, t)[k] = s[k]
         /\ Pushed(s, t)[Len(s) + 1] = t
BY DEF Pushed, Stacks

\* A pop leaves what is below.
LEMMA PopIs ==
  ASSUME NEW s \in Stacks, NEW n \in 0..Len(s)
  PROVE  /\ Pop(s, n) \in Stacks /\ Len(Pop(s, n)) = Len(s) - n
         /\ \A k \in 1..(Len(s) - n) : Pop(s, n)[k] = s[k]
<1>1. Len(s) - n \in 0..Len(s) /\ Len(s) \in Nat BY DEF Stacks
<1> QED BY <1>1, SubSeqProperties DEF Pop, Stacks

\* A value replaced is the only one that changes.
LEMMA ReplacedIs ==
  ASSUME NEW s \in Stacks, NEW i, Index(s, i, 0), NEW t \in Kinds
  PROVE  /\ Replaced(s, i, t) \in Stacks /\ Len(Replaced(s, i, t)) = Len(s)
         /\ Replaced(s, i, t)[Pos(s, i)] = t
         /\ \A k \in 1..Len(s) : k # Pos(s, i) => Replaced(s, i, t)[k] = s[k]
<1> DEFINE r == [k \in 1..Len(s) |-> IF k = Pos(s, i) THEN t ELSE s[k]]
<1>1. \A k \in 1..Len(s) : s[k] \in Kinds BY DEF Stacks
<1>2. Replaced(s, i, t) = r BY DEF Replaced, Stacks
<1>3. r \in Seq(Kinds) /\ Len(r) = Len(s) BY <1>1 DEF Stacks
<1> QED BY <1>2, <1>3 DEF Stacks, Index

\* An indexed value is one.
LEMMA GetIs ==
  ASSUME NEW s \in Stacks, NEW i, Index(s, i, 0)
  PROVE  Get(s, i) \in Kinds /\ Get(s, i) = s[Pos(s, i)]
BY DEF Get, Index, Stacks

\* -1 is the index of the value on top.
LEMMA OnTopIs ==
  ASSUME NEW s \in Stacks, s # <<>>
  PROVE  Index(s, -1, 0) /\ Pos(s, -1) = Len(s) /\ Len(s) \in Nat \ {0}
<1>1. Len(s) \in Nat /\ Len(s) # 0 BY EmptySeq DEF Stacks
<1> QED BY <1>1 DEF Index, Pos

\* The indices of calls are indices.
LEMMA IndicesAre ==
  ASSUME NEW s \in Stacks, NEW n \in Nat, NEW i \in Indices(s, n)
  PROVE  Index(s, i, n)
<1>1. Len(s) \in Nat BY DEF Stacks
<1> QED BY <1>1 DEF Index, Pos, Indices

LEMMA SameTypeIs == \A t : SameType(t, t)
BY DEF SameType
LEMMA ArraysAlike == \A t, u \in Arrays : SameType(t, u)
BY DEF SameType

----------------------------------------------------------------------------
(* Ways of a call to go *)

\* A call that fails may leave the stack alone,
LEMMA FailsAlone ==
  ASSUME NEW s \in Stacks, NEW pops \in 0..Len(s)
  PROVE  Fails(s, pops, s)
<1>1. Len(s) \in Nat BY DEF Stacks
<1> QED BY <1>1, SameTypeIs DEF Fails, Leaves

\* or take its arguments.
LEMMA FailsPopped ==
  ASSUME NEW s \in Stacks, NEW pops \in 0..Len(s)
  PROVE  Fails(s, pops, Pop(s, pops))
<1>1. Len(s) \in Nat BY DEF Stacks
<1>2. /\ Pop(s, pops) \in Stacks /\ Len(Pop(s, pops)) = Len(s) - pops
      /\ \A k \in 1..(Len(s) - pops) : Pop(s, pops)[k] = s[k]
  BY PopIs
<1> QED BY <1>1, <1>2, SameTypeIs DEF Fails, Leaves

\* A call that takes and pushes nothing leaves the stack alone,
LEMMA SucceedsAlone ==
  ASSUME NEW s \in Stacks
  PROVE  Succeeds(s, 0, 0, s)
<1>1. Len(s) \in Nat BY DEF Stacks
<1> QED BY <1>1, SameTypeIs DEF Succeeds, Leaves

\* or makes an array empty, or one that is not.
LEMMA SucceedsArray ==
  ASSUME NEW s \in Stacks, NEW i, Index(s, i, 0), Get(s, i) \in Arrays, NEW t \in Arrays
  PROVE  Succeeds(s, 0, 0, Replaced(s, i, t))
<1>1. Len(s) \in Nat /\ t \in Kinds BY DEF Stacks, Kinds
<1>2. SameType(t, s[Pos(s, i)]) BY GetIs, ArraysAlike
<1> QED BY <1>1, <1>2, ReplacedIs, SameTypeIs DEF Succeeds, Leaves

\* A call may push a value,
LEMMA SucceedsPushed ==
  ASSUME NEW s \in Stacks, NEW t \in Kinds
  PROVE  Succeeds(s, 0, 1, Pushed(s, t))
<1>1. Len(s) \in Nat BY DEF Stacks
<1> QED BY <1>1, PushedIs, SameTypeIs DEF Succeeds, Leaves

\* take values,
LEMMA SucceedsPopped ==
  ASSUME NEW s \in Stacks, NEW n \in 0..Len(s)
  PROVE  Succeeds(s, n, 0, Pop(s, n))
<1>1. Len(s) \in Nat BY DEF Stacks
<1>2. /\ Pop(s, n) \in Stacks /\ Len(Pop(s, n)) = Len(s) - n
      /\ \A k \in 1..(Len(s) - n) : Pop(s, n)[k] = s[k]
  BY PopIs
<1> QED BY <1>1, <1>2, SameTypeIs DEF Succeeds, Leaves

\* take values and push one,
LEMMA SucceedsPoppedPushed ==
  ASSUME NEW s \in Stacks, NEW n \in 0..Len(s), NEW t \in Kinds
  PROVE  Succeeds(s, n, 1, Pushed(Pop(s, n), t))
<1>1. Len(s) \in Nat BY DEF Stacks
<1>2. /\ Pop(s, n) \in Stacks /\ Len(Pop(s, n)) = Len(s) - n
      /\ \A k \in 1..(Len(s) - n) : Pop(s, n)[k] = s[k]
  BY PopIs
<1>3. /\ Pushed(Pop(s, n), t) \in Stacks /\ Len(Pushed(Pop(s, n), t)) = Len(s) - n + 1
      /\ \A k \in 1..(Len(s) - n) : Pushed(Pop(s, n), t)[k] = Pop(s, n)[k]
  BY <1>2, PushedIs
<1> QED BY <1>1, <1>2, <1>3, SameTypeIs DEF Succeeds, Leaves

\* replace the value on top,
LEMMA SucceedsReplaced ==
  ASSUME NEW s \in Stacks, s # <<>>, NEW t \in Kinds
  PROVE  Succeeds(s, 1, 1, Replaced(s, -1, t))
<1>1. \A k \in 1..(Len(s) - 1) : Replaced(s, -1, t)[k] = s[k] BY OnTopIs, ReplacedIs
<1>2. Len(s) \in Nat \ {0} /\ Replaced(s, -1, t) \in Stacks /\ Len(Replaced(s, -1, t)) = Len(s)
  BY OnTopIs, ReplacedIs
<1> QED BY <1>1, <1>2, SameTypeIs DEF Succeeds, Leaves

\* or follow another call.
LEMMA SucceedsThen ==
  ASSUME NEW s \in Stacks, NEW r, NEW t, NEW p \in 0..Len(s), NEW q \in Nat,
         Succeeds(s, 0, 0, r), Succeeds(r, p, q, t)
  PROVE  Succeeds(s, p, q, t)
<1>1. Len(s) \in Nat BY DEF Stacks
<1>2. ASSUME NEW k \in 1..(Len(s) - p) PROVE SameType(t[k], s[k])
  <2>1. k \in 1..Len(s) /\ Len(r) = Len(s) BY <1>1 DEF Succeeds
  <2>2. SameType(r[k], s[k]) /\ SameType(t[k], r[k]) BY <1>1, <2>1 DEF Succeeds, Leaves
  <2> QED BY <2>2 DEF SameType
<1> QED BY <1>1, <1>2 DEF Succeeds, Leaves
----------------------------------------------------------------------------
(* The calls *)

\* The outcomes of the helpers.
LEMMA EitherIs ==
  ASSUME NEW s \in Stacks, NEW c, NEW a, NEW b, c.out = Either(a, b),
         Succeeds(s, c.pops, c.pushes, a), Fails(s, c.pops, b), c.pops \in Nat
  PROVE  Documented(s, c)
BY DEF Either, Ok, Fail, Documented, Fails

LEMMA OkIfIs ==
  ASSUME NEW s \in Stacks, NEW c, NEW test, NEW a, c.out = OkIf(test, a, s),
         test => Succeeds(s, c.pops, c.pushes, a), c.pops \in 0..Len(s)
  PROVE  Documented(s, c)
<1>1. Fails(s, c.pops, s) BY FailsAlone
<1> QED BY <1>1 DEF OkIf, Ok, Fail, Documented, Fails

LEMMA FailIs ==
  ASSUME NEW s \in Stacks, NEW c, c.out = {Fail(s)}, c.pops \in 0..Len(s)
  PROVE  Documented(s, c)
<1>1. Fails(s, c.pops, s) BY FailsAlone
<1> QED BY <1>1 DEF Fail, Documented, Fails

\* The slot of a native closure, below n free variables.
LEMMA NewSlotDocumented ==
  ASSUME NEW s \in Stacks, NEW n \in {0, 1}, n <= Len(s)
  PROVE  Documented(s, Call("sq_new_closure_slot_from_decl_string", n, 0,
                            sq_new_closure_slot_from_decl_string(s, n)))
<1> DEFINE t == Pop(s, n)
           two == <<"string", "nativeclosure">>
           u == t \o two
           c == Call("sq_new_closure_slot_from_decl_string", n, 0,
                     sq_new_closure_slot_from_decl_string(s, n))
<1>1. Len(s) \in Nat /\ n \in 0..Len(s) BY DEF Stacks
<1>2. t \in Stacks /\ Len(t) = Len(s) - n /\ \A k \in 1..(Len(s) - n) : t[k] = s[k]
  BY <1>1, PopIs
<1>3. two \in Seq(Kinds) /\ Len(two) = 2 BY DEF Kinds, Closures
<1>4. u \in Stacks /\ Len(u) = Len(s) - n + 2 /\ \A k \in 1..(Len(s) - n) : u[k] = s[k]
  BY <1>2, <1>3, ConcatProperties DEF Stacks
<1> HIDE DEF t, two, u
<1>5. /\ Pop(u, 2) \in Stacks /\ Len(Pop(u, 2)) = Len(s) - n
      /\ \A k \in 1..(Len(s) - n) : Pop(u, 2)[k] = u[k]
  <2>1. 2 \in 0..Len(u) /\ Len(u) - 2 = Len(s) - n BY <1>1, <1>4
  <2> QED BY <1>4, <2>1, PopIs
<1>6. Succeeds(s, n, 0, Pop(u, 2))
  BY <1>1, <1>4, <1>5, SameTypeIs DEF Succeeds, Leaves
<1>7. LeavesBehind(s, c, u)
  <2>1. c.pops = n /\ LeftBehind(c.f) = 2 BY DEF Call, LeftBehind
  <2>2. Leaves(s, u, Len(s) - n) BY <1>1, <1>4, SameTypeIs DEF Leaves
  <2>3. Len(u) > Len(s) BY <1>1, <1>4
  <2> QED BY <1>4, <2>1, <2>2, <2>3 DEF LeavesBehind
<1>8. Fails(s, n, t) BY <1>1, FailsPopped DEF t
<1>9. c.out = {Fail(t)} \cup sq_newslot(u, -3) /\ c.pops = n /\ c.pushes = 0
  BY DEF c, Call, sq_new_closure_slot_from_decl_string, t, two, u
<1>10. sq_newslot(u, -3) \subseteq {Ok(Pop(u, 2)), Fail(u)}
  BY DEF sq_newslot, Either
<1> HIDE DEF c
<1>11. Documented(s, c)
  BY <1>1, <1>6, <1>7, <1>8, <1>9, <1>10 DEF Documented, Ok, Fail
<1> QED BY <1>11 DEF c

\* Calls that only push.
LEMMA PlainDocumented ==
  ASSUME NEW s \in Stacks, NEW c \in PlainCalls(s)
  PROVE  Documented(s, c)
<1>0. Documented(s, Call("sq_new_closure_slot_from_decl_string", 0, 0,
                          sq_new_closure_slot_from_decl_string(s, 0)))
  <2>1. Len(s) \in Nat /\ (s # <<>> => Len(s) # 0) BY EmptySeq DEF Stacks
  <2>2. 0 \in {0, 1} /\ 0 <= Len(s) BY <2>1
  <2> QED BY <2>2, NewSlotDocumented
<1> USE DEF Call
<1>1. Len(s) \in Nat /\ Fails(s, 0, s) BY FailsAlone DEF Stacks
<1>2. \A t \in Kinds : Succeeds(s, 0, 1, Pushed(s, t)) BY SucceedsPushed
<1>3. Documented(s, Call("sq_pushnull..sq_pushthread", 0, 1, PushesValue(s)))
  BY <1>2 DEF Documented, PushesValue, Ok, Kinds
<1>4. Documented(s, Call("sq_newtable..sq_newarray", 0, 1, CreatesObject(s)))
  BY <1>2 DEF Documented, CreatesObject, Ok, Kinds, Arrays
<1>5. Documented(s, Call("sq_pushroottable", 0, 1, PushesTable(s)))
  BY <1>2 DEF Documented, PushesTable, Ok, Kinds
<1>6. Documented(s, Call("sq_pushobject", 0, 1, sq_pushobj(s)))
  BY <1>2 DEF Documented, sq_pushobj, Ok, Kinds
<1>7. Documented(s, Call("sq_newthread", 0, 1, sq_newthread(s)))
  BY <1>1, <1>2 DEF Documented, sq_newthread, Ok, Fail, Kinds
<1>8. Documented(s, Call("sq_getlasterror", 0, 1, sq_getlasterror(s)))
  BY <1>2 DEF Documented, sq_getlasterror, Ok, Kinds
<1>9. \A f, t : t \in Kinds => Documented(s, Call(f, 0, 1, Either(Pushed(s, t), s)))
  BY <1>1, <1>2, EitherIs
<1>10. Documented(s, Call("sq_newclass", 0, 1, sq_newclass(s, FALSE)))
  BY <1>2 DEF Documented, sq_newclass, Ok, Kinds
<1>11. "closure" \in Kinds /\ "result" \in Kinds BY DEF Kinds, Closures
<1>12. Documented(s, Call("sq_wakeupvm", 0, 0, sq_wakeupvm(s, FALSE, FALSE)))
  BY <1>1 DEF Documented, sq_wakeupvm, Fail
<1> QED
  BY <1>3, <1>4, <1>5, <1>6, <1>7, <1>8, <1>9, <1>10, <1>11, <1>12, <1>0
  DEF PlainCalls, sq_compile, sq_readclosure, sq_getcallee, sq_obj_get, sq_getlocal

\* Calls that take at most the value on top.
LEMMA TopDocumented ==
  ASSUME NEW s \in Stacks, s # <<>>, NEW c \in TopCalls(s)
  PROVE  Documented(s, c)
<1>0. Documented(s, Call("sq_new_closure_slot_from_decl_string", 1, 0,
                          sq_new_closure_slot_from_decl_string(s, 1)))
  <2>1. Len(s) \in Nat /\ (s # <<>> => Len(s) # 0) BY EmptySeq DEF Stacks
  <2>2. 1 \in {0, 1} /\ 1 <= Len(s) BY <2>1
  <2> QED BY <2>2, NewSlotDocumented
<1> USE DEF Call
<1>1. Len(s) \in Nat \ {0} BY OnTopIs
<1>2. Fails(s, 0, s) /\ Fails(s, 1, s) /\ Fails(s, 1, Pop(s, 1))
  BY <1>1, FailsAlone, FailsPopped
<1>3. \A t \in Kinds : Succeeds(s, 1, 1, Pushed(Pop(s, 1), t)) BY <1>1, SucceedsPoppedPushed
<1>4. Succeeds(s, 1, 0, Pop(s, 1)) /\ Succeeds(s, 0, 0, s)
  BY <1>1, SucceedsPopped, SucceedsAlone
<1>5. Documented(s, Call("sq_newclass(base)", 1, 1, sq_newclass(s, TRUE)))
  BY <1>2, <1>3 DEF Documented, sq_newclass, Either, Ok, Fail, Kinds, Fails
<1>6. Documented(s, Call("sq_newclosure", 1, 1, sq_newclosure(s, 1)))
  BY <1>3 DEF Documented, sq_newclosure, Ok, Kinds, Closures
<1>7. Documented(s, Call("sq_pop", 1, 0, sq_pop(s, 1)))
  BY <1>4 DEF Documented, sq_pop, Ok
<1>8. \A f, types : Documented(s, Call(f, 1, 0, SetsFromTop(s, types)))
  BY <1>1, <1>4, OkIfIs DEF SetsFromTop
<1>9. Documented(s, Call("sq_setparamscheck", 0, 0, sq_setparamscheck(s)))
  BY <1>2, <1>4 DEF Documented, sq_setparamscheck, Either, Ok, Fail, Fails
<1>10. Documented(s, Call("sq_throwobject", 1, 0, sq_throwobject(s)))
  BY <1>2 DEF Documented, sq_throwobject, Fail, Fails
<1>11. ASSUME NEW r \in BOOLEAN
       PROVE  Documented(s, Call("sq_resume", 0, IF r THEN 1 ELSE 0, sq_resume(s, r)))
  <2>1. \A t \in Kinds : Succeeds(s, 0, 1, Pushed(s, t)) BY SucceedsPushed
  <2>2. "null" \in Kinds /\ "result" \in Kinds BY DEF Kinds
  <2> DEFINE call == Call("sq_resume", 0, IF r THEN 1 ELSE 0, sq_resume(s, r))
  <2>3. \A t \in Kinds : Waiting(s, call, Pushed(s, t))
    BY <1>1, <2>1 DEF Waiting, Succeeds
  <2>4. LeavesBehind(s, call, Pushed(s, "null"))
    BY <1>1, <2>1, <2>2 DEF LeavesBehind, LeftBehind, Succeeds
  <2>5. \A o \in call.out : \/ o = Fail(s) \/ o = Fail(Pushed(s, "null"))
                        \/ \E t \in Kinds : \/ o = Ok(IF r THEN Pushed(s, t) ELSE s)
                                            \/ o = Suspends(Pushed(s, t))
    BY <2>2 DEF sq_resume
  <2>6. call.pops = 0 /\ call.pushes = (IF r THEN 1 ELSE 0) OBVIOUS
  <2> HIDE DEF call
  <2>7. Documented(s, call)
    BY <1>1, <1>2, <1>4, <2>1, <2>3, <2>4, <2>5, <2>6 DEF Documented, Ok, Fail, Suspends
  <2> QED BY <2>7 DEF call
<1> QED
  BY <1>5, <1>6, <1>7, <1>8, <1>9, <1>10, <1>11, <1>0
  DEF TopCalls, sq_seterrorhandler, sq_setdebughook, sq_setroottable, sq_setconsttable

\* Calls on the object at an index.
LEMMA IndexDocumented ==
  ASSUME NEW s \in Stacks, NEW i, Index(s, i, 0), NEW c \in IndexCalls(s, i)
  PROVE  Documented(s, c)
<1> USE DEF Call
<1>1. Len(s) \in Nat /\ Fails(s, 0, s) BY FailsAlone DEF Stacks
<1>2. Get(s, i) \in Kinds BY GetIs
<1>3. \A t \in Kinds : Succeeds(s, 0, 1, Pushed(s, t)) BY SucceedsPushed
<1>4. Succeeds(s, 0, 0, s) BY SucceedsAlone
<1>5. Get(s, i) \in Arrays => \A t \in Arrays : Succeeds(s, 0, 0, Replaced(s, i, t))
  BY SucceedsArray
<1>6. \A t \in {"null", "string", "table", "class", "instance", "weakref", "result"} : t \in Kinds
  BY DEF Kinds
<1>7. \A f, t : t \in Kinds => Documented(s, Call(f, 0, 1, Either(Pushed(s, t), s)))
  BY <1>1, <1>3, EitherIs
<1>8. \A f, t, test : t \in Kinds => Documented(s, Call(f, 0, 1, OkIf(test, Pushed(s, t), s)))
  BY <1>1, <1>3 DEF OkIf, Ok, Fail, Documented, Fails
<1>9. \A f, p : p \in {0, 1} => Documented(s, Call(f, 0, p, {Fail(s)}))
  BY <1>1 DEF Fail, Documented, Fails
<1>10. Documented(s, Call("sq_push", 0, 1, sq_push(s, i)))
  BY <1>2, <1>3 DEF Documented, sq_push, Ok
<1>11. Documented(s, Call("sq_clear", 0, 0, sq_clear(s, i)))
  BY <1>1, <1>4, <1>5 DEF Documented, sq_clear, OkIf, Ok, Fail, Fails, Arrays
<1>12. Documented(s, Call("sq_arrayresize", 0, 0, sq_arrayresize(s, i)))
  BY <1>1, <1>5 DEF Documented, sq_arrayresize, Ok, Fail, Fails
<1>13. Documented(s, Call("sq_arrayreverse", 0, 0, sq_arrayreverse(s, i)))
  BY <1>1, <1>4 DEF Documented, sq_arrayreverse, OkIf, Ok, Fail, Fails
<1>14. Documented(s, Call("sq_arrayremove", 0, 0, sq_arrayremove(s, i)))
  BY <1>1, <1>5 DEF Documented, sq_arrayremove, Ok, Fail, Fails, Arrays
<1>15. ASSUME Get(s, i) \in Arrays, NEW t \in Arrays
       PROVE  Succeeds(s, 0, 1, Pushed(Replaced(s, i, t), "result"))
  <2>1. Succeeds(s, 0, 0, Replaced(s, i, t)) BY <1>5, <1>15
  <2>2. Replaced(s, i, t) \in Stacks BY <2>1 DEF Succeeds
  <2>3. Succeeds(Replaced(s, i, t), 0, 1, Pushed(Replaced(s, i, t), "result"))
    BY <1>6, <2>2, SucceedsPushed
  <2> QED BY <1>1, <2>1, <2>3, SucceedsThen
<1>16. Documented(s, Call("sq_arraypop", 0, 1, sq_arraypop(s, i, TRUE)))
  BY <1>1, <1>15 DEF Documented, sq_arraypop, Ok, Fail, Fails, Arrays
<1>17. Documented(s, Call("sq_arraypop(no value)", 0, 0, sq_arraypop(s, i, FALSE)))
  <2>1. CASE Get(s, i) # "array" BY <1>9, <2>1 DEF sq_arraypop
  <2>2. CASE Get(s, i) = "array"
    <3>1. \A t \in Arrays : Succeeds(s, 0, 0, Replaced(s, i, t)) BY <1>5, <2>2 DEF Arrays
    <3>2. sq_arraypop(s, i, FALSE) = {Ok(Replaced(s, i, t)) : t \in Arrays}
      BY <2>2 DEF sq_arraypop
    <3> DEFINE call == Call("sq_arraypop(no value)", 0, 0, sq_arraypop(s, i, FALSE))
    <3>3. call.out = {Ok(Replaced(s, i, t)) : t \in Arrays} /\ call.pops = 0 /\ call.pushes = 0
      BY <3>2
    <3> HIDE DEF call
    <3>4. Documented(s, call) BY <3>1, <3>3 DEF Documented, Ok
    <3> QED BY <3>4 DEF call
  <2> QED BY <2>1, <2>2
<1>18. Documented(s, Call("sq_getdelegate", 0, 1, sq_getdelegate(s, i)))
  BY <1>1, <1>3, <1>6 DEF Documented, sq_getdelegate, Ok, Fail, Fails
<1>19. Documented(s, Call("sq_clone", 0, 1, sq_clone(s, i))) BY <1>2, <1>7 DEF sq_clone
<1>20. Documented(s, Call("sq_getbase", 0, 1, sq_getbase(s, i)))
  BY <1>1, <1>3, <1>6 DEF Documented, sq_getbase, Ok, Fail, Fails
<1>21. Documented(s, Call("sq_getclass", 0, 1, sq_getclass(s, i)))
  BY <1>6, <1>8 DEF sq_getclass
<1>22. Documented(s, Call("sq_createinstance", 0, 1, sq_createinstance(s, i)))
  BY <1>6, <1>7, <1>9 DEF sq_createinstance
<1>23. Documented(s, Call("sq_weakref", 0, 1, sq_weakref(s, i)))
  BY <1>2, <1>3, <1>6 DEF Documented, sq_weakref, Ok
<1>24. Documented(s, Call("sq_freeze", 0, 1, sq_freeze(s, i))) BY <1>2, <1>8 DEF sq_freeze
<1>25. Documented(s, Call("sq_getweakrefval", 0, 1, sq_getweakrefval(s, i)))
  BY <1>1, <1>3, <1>6 DEF Documented, sq_getweakrefval, Ok, Fail, Fails
<1>26. Documented(s, Call("sq_getbyhandle", 0, 1, sq_getbyhandle(s, i)))
  BY <1>6, <1>7, <1>9 DEF sq_getbyhandle
<1>27. Documented(s, Call("sq_getclosurename", 0, 1, sq_getclosurename(s, i)))
  BY <1>1, <1>3, <1>6 DEF Documented, sq_getclosurename, Ok, Fail, Fails
<1>28. Documented(s, Call("sq_getfreevariable", 0, 1, sq_getfreevariable(s, i)))
  BY <1>6, <1>7, <1>9 DEF sq_getfreevariable
<1>29. Documented(s, Call("sq_typeof", 0, 1, sq_typeof(s, i))) BY <1>6, <1>7 DEF sq_typeof
<1>30. Documented(s, Call("sq_tostring", 0, 1, sq_tostring(s, i))) BY <1>6, <1>7 DEF sq_tostring
<1> QED
  BY <1>10, <1>11, <1>12, <1>13, <1>14, <1>16, <1>17, <1>18, <1>19, <1>20, <1>21, <1>22,
     <1>23, <1>24, <1>25, <1>26, <1>27, <1>28, <1>29, <1>30
  DEF IndexCalls

\* Calls on the object at an index with the value on top.
LEMMA OneValueDocumented ==
  ASSUME NEW s \in Stacks, NEW i, Index(s, i, 1), NEW c \in OneValueCalls(s, i)
  PROVE  Documented(s, c)
<1> USE DEF Call
<1>1. Len(s) \in Nat \ {0} /\ s # <<>> /\ Index(s, i, 0)
  <2>1. Len(s) \in Nat BY DEF Stacks
  <2>2. Len(s) # 0 /\ Index(s, i, 0) BY <2>1 DEF Index
  <2> QED BY <2>1, <2>2
<1>2. Fails(s, 1, s) /\ Fails(s, 1, Pop(s, 1)) BY <1>1, FailsAlone, FailsPopped
<1>3. Succeeds(s, 1, 0, Pop(s, 1)) BY <1>1, SucceedsPopped
<1>4. Succeeds(s, 1, 1, Replaced(s, -1, "result")) BY <1>1, SucceedsReplaced DEF Kinds
<1>5. Get(s, i) \in Arrays => Succeeds(s, 1, 0, Pop(Replaced(s, i, "array"), 1))
  <2> HAVE Get(s, i) \in Arrays
  <2>1. Succeeds(s, 0, 0, Replaced(s, i, "array")) BY <1>1, SucceedsArray DEF Arrays
  <2>2. Replaced(s, i, "array") \in Stacks /\ Len(Replaced(s, i, "array")) = Len(s)
    BY <1>1, <2>1 DEF Succeeds
  <2>3. Succeeds(Replaced(s, i, "array"), 1, 0, Pop(Replaced(s, i, "array"), 1))
    BY <1>1, <2>2, SucceedsPopped
  <2> QED BY <1>1, <2>1, <2>3, SucceedsThen
<1>6. \A f, n, a, b : Succeeds(s, 1, n, a) /\ Fails(s, 1, b)
                        => Documented(s, Call(f, 1, n, Either(a, b)))
  BY EitherIs
<1>7. \A f, n, a, test : (test => Succeeds(s, 1, n, a))
                           => Documented(s, Call(f, 1, n, OkIf(test, a, s)))
  BY <1>2 DEF OkIf, Ok, Fail, Documented, Fails
<1>8. \A f, n : Documented(s, Call(f, 1, n, {Fail(s)}))
  BY <1>2 DEF Fail, Documented, Fails
<1>9. Documented(s, Call("sq_arrayappend", 1, 0, sq_arrayappend(s, i)))
  <2>1. CASE Get(s, i) = "array0" BY <1>5, <1>7, <2>1 DEF sq_arrayappend
  <2>2. CASE Get(s, i) # "array0" BY <1>3, <1>7, <2>2 DEF sq_arrayappend
  <2> QED BY <2>1, <2>2
<1>10. Documented(s, Call("sq_arrayinsert", 1, 0, sq_arrayinsert(s, i)))
  BY <1>2, <1>5, <1>6, <1>8 DEF sq_arrayinsert
<1>11. Documented(s, Call("sq_deleteslot", 1, 1, sq_deleteslot(s, i, TRUE)))
  BY <1>2, <1>4, <1>6, <1>8 DEF sq_deleteslot
<1>12. Documented(s, Call("sq_deleteslot(no value)", 1, 0, sq_deleteslot(s, i, FALSE)))
  BY <1>2, <1>3, <1>6, <1>8 DEF sq_deleteslot
<1>13. Documented(s, Call("sq_rawdeleteslot", 1, 1, sq_rawdeleteslot(s, i, TRUE)))
  BY <1>2, <1>4, <1>6, <1>8 DEF sq_rawdeleteslot
<1>14. Documented(s, Call("sq_get", 1, 1, sq_get(s, i))) BY <1>2, <1>4, <1>6 DEF sq_get
<1>15. Documented(s, Call("sq_rawget", 1, 1, sq_rawget(s, i)))
  BY <1>2, <1>4, <1>6 DEF sq_rawget
<1>16. Documented(s, Call("sq_setdelegate", 1, 0, sq_setdelegate(s, i)))
  BY <1>2, <1>3, <1>6, <1>7 DEF sq_setdelegate
<1>17. Documented(s, Call("sq_next", 1, 3, sq_next(s, i)))
  <2> DEFINE call == Call("sq_next", 1, 3, sq_next(s, i))
  <2>1. ASSUME NEW t \in Kinds
        PROVE  Succeeds(s, 1, 3, Advanced(s, t)) /\ LeavesBehind(s, call, Replaced(s, -1, t))
    <3>1. Succeeds(s, 1, 1, Replaced(s, -1, t)) BY <1>1, SucceedsReplaced
    <3>2. <<"result", "result">> \in Seq(Kinds) /\ Len(<<"result", "result">>) = 2 BY DEF Kinds
    <3>3. Replaced(s, -1, t) \in Seq(Kinds) /\ Len(Replaced(s, -1, t)) = Len(s)
      BY <1>1, <3>1 DEF Succeeds, Stacks
    <3>4. /\ Advanced(s, t) \in Seq(Kinds) /\ Len(Advanced(s, t)) = Len(s) + 2
          /\ \A k \in 1..Len(s) : Advanced(s, t)[k] = Replaced(s, -1, t)[k]
      BY <3>2, <3>3, ConcatProperties DEF Advanced
    <3>5. Succeeds(s, 1, 3, Advanced(s, t))
      BY <1>1, <3>1, <3>4 DEF Succeeds, Leaves, Stacks
    <3>6. LeavesBehind(s, call, Replaced(s, -1, t))
      BY <1>1, <3>1, <3>3 DEF Succeeds, LeavesBehind, Stacks
    <3> QED BY <3>5, <3>6
  <2>2. "number" \in Kinds /\ "result" \in Kinds /\ "null" \in Kinds BY DEF Kinds
  <2>3. \A o \in call.out : o = Fail(s) \/ \E t \in Kinds : \/ o = Ok(Advanced(s, t))
                                                       \/ o = Fail(Replaced(s, -1, t))
    BY <2>2 DEF sq_next
  <2>4. call.pops = 1 /\ call.pushes = 3 /\ 1 \in 0..Len(s) BY <1>1
  <2> HIDE DEF call
  <2>5. Documented(s, call) BY <1>2, <2>1, <2>3, <2>4 DEF Documented, Ok, Fail
  <2> QED BY <2>5 DEF call
<1>18. Documented(s, Call("sq_bindenv", 1, 1, sq_bindenv(s, i)))
  <2>1. Succeeds(s, 1, 1, Pushed(Pop(s, 1), Get(s, i))) BY <1>1, GetIs, SucceedsPoppedPushed
  <2> QED BY <1>7, <2>1 DEF sq_bindenv
<1>19. Documented(s, Call("sq_getmemberhandle", 1, 0, sq_getmemberhandle(s, i)))
  BY <1>2, <1>3, <1>6, <1>8 DEF sq_getmemberhandle
<1>20. Documented(s, Call("sq_setbyhandle", 1, 0, sq_setbyhandle(s, i)))
  BY <1>2, <1>3, <1>6, <1>8 DEF sq_setbyhandle
<1>21. Documented(s, Call("sq_setfreevariable", 1, 0, sq_setfreevariable(s, i)))
  BY <1>2, <1>3, <1>6, <1>8 DEF sq_setfreevariable
<1>22. ASSUME NEW r \in BOOLEAN
       PROVE  Documented(s, Call("sq_call", 1, IF r THEN 1 ELSE 0, sq_call(s, 1, r)))
  <2> DEFINE call == Call("sq_call", 1, IF r THEN 1 ELSE 0, sq_call(s, 1, r))
  <2>1. Succeeds(s, 1, 1, Pushed(Pop(s, 1), "result"))
    BY <1>1, SucceedsPoppedPushed DEF Kinds
  <2>2. Waiting(s, call, Entered(s, 1))
    <3>1. Succeeds(s, 1, 1, Replaced(s, -1, "instance")) BY <1>1, SucceedsReplaced DEF Kinds
    <3>2. Leaves(s, s, Len(s) - 1) BY <1>1, SameTypeIs DEF Leaves
    <3> QED BY <1>1, <3>1, <3>2 DEF Waiting, Entered, Succeeds
  <2>3. \A o \in call.out : \/ o = Fail(Pop(s, 1)) \/ o = Suspends(Entered(s, 1))
                        \/ o = Ok(IF r THEN Pushed(Pop(s, 1), "result") ELSE Pop(s, 1))
    BY DEF sq_call
  <2>4. call.pops = 1 /\ call.pushes = (IF r THEN 1 ELSE 0) /\ 1 \in 0..Len(s) BY <1>1
  <2> HIDE DEF call
  <2>5. Documented(s, call)
    BY <1>2, <1>3, <2>1, <2>2, <2>3, <2>4 DEF Documented, Ok, Fail, Suspends
  <2> QED BY <2>5 DEF call
<1> QED
  BY <1>9, <1>10, <1>11, <1>12, <1>13, <1>14, <1>15, <1>16, <1>17, <1>18, <1>19, <1>20,
     <1>21, <1>22
  DEF OneValueCalls

\* Calls on the object at an index with two values on top.
LEMMA TwoValueDocumented ==
  ASSUME NEW s \in Stacks, NEW i, Index(s, i, 2), NEW c \in TwoValueCalls(s, i)
  PROVE  Documented(s, c)
<1> USE DEF Call
<1>1. Len(s) \in Nat /\ 2 \in 0..Len(s)
  <2>1. Len(s) \in Nat BY DEF Stacks
  <2> QED BY <2>1 DEF Index
<1>2. Fails(s, 2, s) /\ Fails(s, 2, Pop(s, 2)) BY <1>1, FailsAlone, FailsPopped
<1>3. Succeeds(s, 2, 0, Pop(s, 2)) BY <1>1, SucceedsPopped
<1>4. \A f, a, b : Succeeds(s, 2, 0, a) /\ Fails(s, 2, b)
                     => Documented(s, Call(f, 2, 0, Either(a, b)))
  BY EitherIs
<1>5. \A f : Documented(s, Call(f, 2, 0, {Fail(s)}))
  BY <1>2 DEF Fail, Documented, Fails
<1>6. Documented(s, Call("sq_rawset", 2, 0, sq_rawset(s, i)))
  <2>1. CASE Get(s, i) \in Slotted BY <1>2, <1>3, <1>4, <2>1 DEF sq_rawset
  <2>2. CASE Get(s, i) \notin Slotted
    BY <1>2, <2>2 DEF sq_rawset, Documented, Fail, Fails
  <2> QED BY <2>1, <2>2
<1> QED
  BY <1>2, <1>3, <1>4, <1>5, <1>6
  DEF TwoValueCalls, sq_newslot, sq_set, sq_newmember

\* Every call leaves what the documentation says.
LEMMA CallsDocumented ==
  ASSUME NEW s \in Stacks, NEW c \in CallsOn(s)
  PROVE  Documented(s, c)
<1>1. CASE c \in PlainCalls(s) BY <1>1, PlainDocumented
<1>2. CASE c \in CallsOnTop(s)
  <2>1. s # <<>> /\ c \in TopCalls(s) BY <1>2 DEF CallsOnTop
  <2> QED BY <2>1, TopDocumented
<1>3. CASE c \in CallsAtIndex(s)
  <2>1. PICK i \in Indices(s, 0) : c \in IndexCalls(s, i) BY <1>3 DEF CallsAtIndex
  <2> QED BY <2>1, IndicesAre, IndexDocumented
<1>4. CASE c \in CallsWithValue(s)
  <2>1. PICK i \in Indices(s, 1) : c \in OneValueCalls(s, i) BY <1>4 DEF CallsWithValue
  <2> QED BY <2>1, IndicesAre, OneValueDocumented
<1>5. CASE c \in CallsWithValues(s)
  <2>1. PICK i \in Indices(s, 2) : c \in TwoValueCalls(s, i) BY <1>5 DEF CallsWithValues
  <2> QED BY <2>1, IndicesAre, TwoValueDocumented
<1> QED BY <1>1, <1>2, <1>3, <1>4, <1>5 DEF CallsOn

\* So does the call that wakes the VM up.
LEMMA WaitingDocumented ==
  ASSUME NEW s \in Stacks, NEW c \in CallsWaiting(s)
  PROVE  Documented(s, c)
<1>1. PICK r \in BOOLEAN :
        c = Call("sq_wakeupvm", 0, IF r THEN 1 ELSE 0, sq_wakeupvm(s, TRUE, r))
  BY DEF CallsWaiting
<1>2. Len(s) \in Nat /\ Fails(s, 0, s) BY FailsAlone DEF Stacks
<1>3. Succeeds(s, 0, 1, Pushed(s, "result")) /\ Succeeds(s, 0, 0, s)
  BY SucceedsPushed, SucceedsAlone DEF Kinds
<1>4. \A o \in c.out : \/ o = Fail(s) \/ o = Suspends(s)
                      \/ o = Ok(IF r THEN Pushed(s, "result") ELSE s)
  BY <1>1 DEF Call, sq_wakeupvm
<1>5. c.pops = 0 /\ c.pushes = (IF r THEN 1 ELSE 0) /\ c.f = "sq_wakeupvm"
  BY <1>1 DEF Call
<1>6. Waiting(s, c, s) BY <1>2, <1>5, SameTypeIs DEF Waiting, Leaves
<1> QED BY <1>2, <1>3, <1>4, <1>5, <1>6 DEF Documented, Ok, Fail, Suspends

LEMMA HostCallsDocumented ==
  ASSUME stack \in Stacks, NEW c \in HostCalls
  PROVE  Documented(stack, c)
BY CallsDocumented, WaitingDocumented DEF HostCalls

----------------------------------------------------------------------------
(* Every stack the host makes is a stack of values *)

LEMMA HostStacks == HostSpec => [](stack \in Stacks)
<1>1. HostInit => stack \in Stacks BY DEF HostInit, Stacks
<1>2. stack \in Stacks /\ [HostNext]_hostVars => (stack \in Stacks)'
  <2> SUFFICES ASSUME stack \in Stacks, [HostNext]_hostVars PROVE stack' \in Stacks OBVIOUS
  <2>1. Len(stack) \in Nat BY DEF Stacks
  <2>2. CASE HostCall
    <3>0. PICK c \in HostCalls : \E o \in c.out : \E t \in Types :
            stack' = [k \in DOMAIN o.st |-> IF o.st[k] = "result" THEN t ELSE o.st[k]]
      BY <2>2 DEF HostCall
    <3>1. PICK o \in c.out : \E t \in Types :
            stack' = [k \in DOMAIN o.st |-> IF o.st[k] = "result" THEN t ELSE o.st[k]]
      BY <3>0
    <3>2. o.st \in Seq(Kinds)
      BY HostCallsDocumented DEF Documented, Succeeds, Fails, Waiting, LeavesBehind, Stacks
    <3>3. Len(o.st) \in Nat /\ DOMAIN o.st = 1..Len(o.st) /\ \A k \in 1..Len(o.st) : o.st[k] \in Kinds
      BY <3>2
    <3>4. PICK t \in Types :
            stack' = [k \in 1..Len(o.st) |-> IF o.st[k] = "result" THEN t ELSE o.st[k]]
      BY <3>1, <3>3
    <3>5. \A k \in 1..Len(o.st) : (IF o.st[k] = "result" THEN t ELSE o.st[k]) \in Kinds
      BY <3>3 DEF Kinds
    <3> QED BY <3>3, <3>4, <3>5 DEF Stacks
  <2>3. CASE Shrink
    <3>1. PICK n \in 0..(Len(stack) - 1) : \E o \in sq_settop(stack, n) : stack' = o.st
      BY <2>3 DEF Shrink
    <3>2. stack' = SubSeq(stack, 1, n) BY <2>1, <3>1 DEF sq_settop, Ok
    <3> QED BY <2>1, <3>2, SubSeqProperties DEF Stacks
  <2>4. CASE RemoveOne
    <3>1. PICK i \in DOMAIN stack : stack' = Removed(stack, i)
      <4>1. PICK i \in DOMAIN stack : \E o \in sq_remove(stack, i) : stack' = o.st
        BY <2>4 DEF RemoveOne
      <4>2. Pos(stack, i) = i BY DEF Pos, Stacks
      <4> QED BY <4>1, <4>2 DEF sq_remove, Ok
    <3>2. i \in 1..Len(stack) BY DEF Stacks
    <3>3. SubSeq(stack, 1, i - 1) \in Seq(Kinds) /\ SubSeq(stack, i + 1, Len(stack)) \in Seq(Kinds)
      BY <2>1, <3>2, SubSeqProperties DEF Stacks
    <3> QED BY <3>1, <3>3, ConcatProperties DEF Removed, Stacks
  <2>5. CASE UNCHANGED hostVars BY <2>5 DEF hostVars
  <2> QED BY <2>2, <2>3, <2>4, <2>5 DEF HostNext
<1> QED BY <1>1, <1>2, PTL DEF HostSpec

\* Whatever the host has on its stack, however much that is, each call of the
\* interface that succeeds takes and leaves as many values as its manual says,
\* one that suspends the VM takes nothing, and one that fails takes all of its
\* arguments or none and pushes nothing, but for the slots of sq_resume and of
\* sq_new_closure_slot_from_decl_string.
THEOREM HostStackAsDocumented == HostSpec => []StackAsDocumented
<1>1. stack \in Stacks => StackAsDocumented
  <2> SUFFICES ASSUME stack \in Stacks, NEW c \in HostCalls, NEW o \in c.out
               PROVE  /\ o.ok => /\ Len(o.st) = CASE ~o.waits -> Len(stack) - c.pops + c.pushes
                                                   [] o.waits /\ c.f = "sq_resume" -> Len(stack) + 1
                                                   [] OTHER -> Len(stack)
                                 /\ Keeps(Len(stack) - c.pops, o.st)
                      /\ ~o.ok => /\ Len(o.st) \in {Len(stack), Len(stack) - c.pops,
                                                    Len(stack) - c.pops + LeftBehind(c.f)}
                                  /\ Keeps(Len(stack) - c.pops, o.st)
                                  /\ Len(o.st) = Len(stack) /\ c.f # "sq_next"
                                       => Keeps(Len(stack), o.st)
    BY DEF StackAsDocumented, EffectAsDocumented, FailureTakesAllOrNothing
  <2>1. Documented(stack, c) BY HostCallsDocumented
  <2>2. Len(stack) \in Nat /\ c.pops \in Nat BY <2>1 DEF Documented, Stacks
  <2>3. \A m : Leaves(stack, o.st, m) => Keeps(m, o.st) BY DEF Leaves, Keeps
  <2>4. CASE o.ok /\ ~o.waits
    BY <2>1, <2>3, <2>4 DEF Documented, Succeeds
  <2>5. CASE o.ok /\ o.waits
    BY <2>1, <2>2, <2>3, <2>5 DEF Documented, Waiting
  <2>6. CASE ~o.ok /\ Fails(stack, c.pops, o.st)
    <3>1. Len(o.st) \in {Len(stack), Len(stack) - c.pops} /\ Leaves(stack, o.st, Len(o.st))
      BY <2>6 DEF Fails
    <3>2. \A k \in 1..Len(o.st) : SameType(o.st[k], stack[k]) BY <3>1 DEF Leaves
    <3>3. Keeps(Len(stack) - c.pops, o.st) BY <2>2, <3>1, <3>2 DEF Keeps
    <3>4. Len(o.st) = Len(stack) => Keeps(Len(stack), o.st) BY <3>2 DEF Keeps
    <3> QED BY <2>6, <3>1, <3>3, <3>4
  <2>7. CASE ~o.ok /\ LeavesBehind(stack, c, o.st)
    <3>1. Keeps(Len(stack) - c.pops, o.st) BY <2>3, <2>7 DEF LeavesBehind
    <3>2. \/ c.f = "sq_next" /\ Len(o.st) = Len(stack)
          \/ Len(o.st) = Len(stack) - c.pops + LeftBehind(c.f) /\ Len(o.st) # Len(stack)
      BY <2>2, <2>7 DEF LeavesBehind, Stacks
    <3> QED BY <2>7, <3>1, <3>2
  <2> QED BY <2>1, <2>4, <2>5, <2>6, <2>7 DEF Documented
<1> QED BY <1>1, HostStacks, PTL

=============================================================================
