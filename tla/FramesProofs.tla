---------------------------- MODULE FramesProofs ----------------------------
(***************************************************************************)
(* Theorems about Frames, for any bounds.  Every action keeps the lowest n *)
(* frames for some n and puts at most one frame on them; the invariant is  *)
(* a conjunction of parts, and a lemma for each part says what such a step *)
(* has to establish about the new frame.                                   *)
(***************************************************************************)
EXTENDS Frames, LinksProofs, SequenceTheorems

----------------------------------------------------------------------------
(* The invariant *)

ScopeRec == [kind : {"block", "switch", "loop", "try"}, size : Nat, body : Nat]

Trap == [base : Int, scope : Nat \ {0}, size : Nat]

FrameRec == [kind : {"script", "generator", "native"}, base : Nat,
             vars : Seq(Vars), scopes : Seq(ScopeRec), etraps : Nat,
             gen : Gens \union {None}, root : BOOLEAN]

GenRec == [state : {"dead", "suspended", "running"}, vars : Seq(Vars),
           scopes : Seq(ScopeRec), traps : Seq(Trap), root : BOOLEAN]

Outer == [pos : Nat, var : Vars]

States == {s \in [frames : Seq(FrameRec), execs : Seq(Int), etraps : Seq(Trap),
                  open : SUBSET Outer, stray : SUBSET Outer, gens : [Gens -> GenRec]] :
             s.stray \subseteq s.open}

\* The scopes are nested, begin within the locals, each in the body of the one
\* around it, and a try block leaves room for the exception of its catch.
Blocks(vars, scopes) ==
  /\ Len(vars) <= FrameSize
  /\ \A j \in 1 .. Len(scopes) :
       /\ scopes[j].size <= scopes[j].body /\ scopes[j].body <= Len(vars)
       /\ scopes[j].kind = "try" => scopes[j].size < FrameSize
  /\ \A i, j \in 1 .. Len(scopes) : i < j => scopes[i].body <= scopes[j].size

\* The traps q are those of the try blocks, from the outermost.
TrapsFit(q, scopes, base) ==
  /\ TrapsOf(q, scopes, base)
  /\ \A i, j \in 1 .. Len(q) : i < j => q[i].scope < q[j].scope

FrameOK(f) ==
  /\ Blocks(f.vars, f.scopes)
  /\ f.kind = "native" =>
       ~ f.root /\ f.etraps = 0 /\ f.gen = None /\ f.vars = <<>> /\ f.scopes = <<>>
  /\ f.kind = "generator" => f.gen \in Gens

GenOK(g) ==
  /\ Blocks(g.vars, g.scopes) /\ TrapsFit(g.traps, g.scopes, 0)
  /\ g.state # "suspended" => g.vars = <<>> /\ g.scopes = <<>> /\ g.traps = <<>>

Shapes(s) ==
  /\ Depth(s) <= MaxFrames
  /\ \A k \in 1 .. Depth(s) : FrameOK(s.frames[k])
  /\ \A g \in Gens : GenOK(s.gens[g])

\* No two frames share a slot.
Slots(s) ==
  \A j, k \in 1 .. Depth(s) :
    j < k => s.frames[j].base + Len(s.frames[j].vars) <= s.frames[k].base

\* Each Execute has one root frame.
Rooted(s) ==
  /\ Depth(s) > 0 => s.frames[1].root
  /\ Len(s.execs) = ExecOf(s, Depth(s))

\* A running generator has one frame.
Runs(s, g, k) == k \in 1 .. Depth(s) /\ s.frames[k].gen = g

Owners(s) ==
  \A g \in Gens :
    /\ s.gens[g].state = "running" => \E k \in Nat : Runs(s, g, k)
    /\ \A j, k \in Nat : Runs(s, g, j) /\ Runs(s, g, k) => j = k
    /\ \A k \in Nat : Runs(s, g, k) => s.gens[g].state = "running"

Fits(s) ==
  /\ Len(s.etraps) = SumTo(Traps(s), Depth(s))
  /\ \A k \in 1 .. Depth(s) :
       TrapsFit(OwnTraps(s, k), s.frames[k].scopes, s.frames[k].base)

\* The lists of variables a and b have none in common; a has none twice.
Apart(a, b) == \A x \in 1 .. Len(a), y \in 1 .. Len(b) : a[x] # b[y]
Once(a) == \A x, y \in 1 .. Len(a) : a[x] = a[y] => x = y

\* A variable has one place.
Distinct(s) ==
  /\ \A k \in 1 .. Depth(s) : Once(s.frames[k].vars)
  /\ \A j, k \in 1 .. Depth(s) : j # k => Apart(s.frames[j].vars, s.frames[k].vars)
  /\ \A g \in Gens : Once(s.gens[g].vars)
  /\ \A g, h \in Gens : g # h => Apart(s.gens[g].vars, s.gens[h].vars)
  /\ \A k \in 1 .. Depth(s), g \in Gens : Apart(s.frames[k].vars, s.gens[g].vars)

\* The open outer o is that of local i of the frame f.
OuterIn(f, o, i) ==
  i \in 1 .. Len(f.vars) /\ f.base + i - 1 = o.pos /\ f.vars[i] = o.var

\* The outers that the code did not forget to close are those of locals, and
\* the variables of the others are out of scope.
Outers(s) ==
  /\ \A o \in s.open \ s.stray : \E k \in 1 .. Depth(s), i \in Nat : OuterIn(s.frames[k], o, i)
  /\ \A o \in s.stray : o.var \notin InScope(s)

\* What holds for all scripts (that do not share generators with the host).
Core(s) ==
  /\ s \in States /\ Shapes(s) /\ Slots(s) /\ Rooted(s)
  /\ Owners(s) /\ Fits(s) /\ Distinct(s)

Good(s) ==
  /\ Core(s) /\ Outers(s)
  /\ ~ TryInForeach => TrapsCounted(s)

\* From s to t no variable is detached from its closures: an outer of a variable
\* in scope stays open, and no variable that has one comes into scope.
Shares(s, t) ==
  \A o \in s.open : o.var \in InScope(t) => o.var \in InScope(s) /\ o \in t.open
----------------------------------------------------------------------------
(* Sums *)

\* t holds the sums of f up to n.
IsSum(f, n, t) == t = [k \in 0 .. n |-> IF k = 0 THEN 0 ELSE t[k - 1] + f[k]]

LEMMA SumExists ==
  ASSUME NEW f, NEW m \in Nat
  PROVE  \E t : IsSum(f, m, t)
<1> DEFINE S == {l \in 0 .. m : \E t : IsSum(f, l, t)}
<1>1. 0 \in S
  <2>1. IsSum(f, 0, [k \in 0 .. 0 |-> 0])
    BY DEF IsSum
  <2>2. QED
    BY <2>1
<1>2. ASSUME NEW l \in 1 .. m, l - 1 \in S
      PROVE  l \in S
  <2>1. PICK t : IsSum(f, l - 1, t)
    BY <1>2
  <2> DEFINE g == [k \in 0 .. l |-> IF k = l THEN t[l - 1] + f[l] ELSE t[k]]
             h == [k \in 0 .. l |-> IF k = 0 THEN 0 ELSE g[k - 1] + f[k]]
  <2>2. t = [k \in 0 .. l - 1 |-> IF k = 0 THEN 0 ELSE t[k - 1] + f[k]]
    BY <2>1 DEF IsSum
  <2>3. ASSUME NEW k \in 0 .. l
        PROVE  g[k] = h[k]
    <3>1. CASE k = 0
      BY <2>2, <3>1
    <3>2. CASE k # 0
      <4>1. k - 1 \in 0 .. l - 1 /\ g[k - 1] = t[k - 1]
        BY <3>2
      <4>2. CASE k = l
        BY <3>2, <4>1, <4>2
      <4>3. CASE k # l
        BY <2>2, <3>2, <4>1, <4>3
      <4>4. QED
        BY <4>2, <4>3
    <3>3. QED
      BY <3>1, <3>2
  <2>4. g = h
    BY <2>3
  <2>5. IsSum(f, l, g)
    BY <2>4 DEF IsSum
  <2>6. QED
    BY <2>5
<1>3. \A l \in 0 .. m : l \in S
  <2> HIDE DEF S
  <2>1. QED
    BY <1>1, <1>2, InductionUpTo
<1>4. QED
  BY <1>3

LEMMA SumSteps ==
  ASSUME NEW f, NEW m \in Nat, NEW t, IsSum(f, m, t)
  PROVE  t[0] = 0 /\ \A k \in 1 .. m : t[k] = t[k - 1] + f[k]
BY DEF IsSum

\* Two functions with the same steps have the same values.
LEMMA SumUnique ==
  ASSUME NEW m \in Nat, NEW f, NEW g, \A k \in 1 .. m : f[k] = g[k],
         NEW t, NEW u, t[0] = u[0],
         \A k \in 1 .. m : t[k] = t[k - 1] + f[k],
         \A k \in 1 .. m : u[k] = u[k - 1] + g[k]
  PROVE  \A k \in 0 .. m : t[k] = u[k]
<1> DEFINE S == {k \in 0 .. m : t[k] = u[k]}
<1>1. 0 \in S
  OBVIOUS
<1>2. ASSUME NEW i \in 1 .. m, i - 1 \in S PROVE i \in S
  BY <1>2
<1>3. \A k \in 0 .. m : k \in S
  <2> HIDE DEF S
  <2>1. QED
    BY <1>1, <1>2, InductionUpTo
<1>4. QED
  BY <1>3

LEMMA SumIs ==
  ASSUME NEW f, NEW n \in Nat
  PROVE  \E t : IsSum(f, n, t) /\ SumTo(f, n) = t[n]
<1> DEFINE Run(t) == t = [k \in 0 .. n |-> IF k = 0 THEN 0 ELSE t[k - 1] + f[k]]
           run == CHOOSE t : Run(t)
<1>1. SumTo(f, n) = run[n]
  BY DEF SumTo
<1>2. \A t : IsSum(f, n, t) <=> Run(t)
  BY DEF IsSum
<1> HIDE DEF Run
<1>3. Run(run)
  BY <1>2, SumExists
<1>4. QED
  BY <1>1, <1>2, <1>3

LEMMA SumZero ==
  ASSUME NEW f
  PROVE  SumTo(f, 0) = 0
<1>1. PICK t : IsSum(f, 0, t) /\ SumTo(f, 0) = t[0]
  BY SumIs
<1>2. QED
  BY <1>1, SumSteps

\* The sums of functions that agree
LEMMA SumAgree ==
  ASSUME NEW f, NEW g, NEW n \in Nat, \A k \in 1 .. n : f[k] = g[k]
  PROVE  SumTo(f, n) = SumTo(g, n)
<1>1. PICK t : IsSum(f, n, t) /\ SumTo(f, n) = t[n]
  BY SumIs
<1>2. PICK u : IsSum(g, n, u) /\ SumTo(g, n) = u[n]
  BY SumIs
<1>3. t[0] = 0 /\ \A k \in 1 .. n : t[k] = t[k - 1] + f[k]
  BY <1>1, SumSteps
<1>4. u[0] = 0 /\ \A k \in 1 .. n : u[k] = u[k - 1] + g[k]
  BY <1>2, SumSteps
<1>5. t[n] = u[n]
  <2>1. \A k \in 0 .. n : t[k] = u[k]
    BY <1>3, <1>4, SumUnique
  <2>2. QED
    BY <2>1
<1>6. QED
  BY <1>1, <1>2, <1>5

LEMMA SumNext ==
  ASSUME NEW f, NEW n \in Nat \ {0}
  PROVE  SumTo(f, n) = SumTo(f, n - 1) + f[n]
<1> PICK m \in Nat : m = n - 1
  OBVIOUS
<1>1. PICK t : IsSum(f, n, t) /\ SumTo(f, n) = t[n]
  BY SumIs
<1>2. PICK u : IsSum(f, m, u) /\ SumTo(f, m) = u[m]
  BY SumIs
<1>3. t[0] = 0 /\ \A k \in 1 .. n : t[k] = t[k - 1] + f[k]
  BY <1>1, SumSteps
<1>4. u[0] = 0 /\ \A k \in 1 .. m : u[k] = u[k - 1] + f[k]
  BY <1>2, SumSteps
<1>5. t[m] = u[m]
  <2>1. \A k \in 1 .. m : t[k] = t[k - 1] + f[k]
    BY <1>3
  <2>2. \A k \in 0 .. m : t[k] = u[k]
    BY <1>3, <1>4, <2>1, SumUnique
  <2>3. QED
    BY <2>2
<1>6. t[n] = t[m] + f[n]
  BY <1>3
<1>7. QED
  BY <1>1, <1>2, <1>5, <1>6

LEMMA SumInNat ==
  ASSUME NEW f, NEW n \in Nat, \A k \in 1 .. n : f[k] \in Nat
  PROVE  SumTo(f, n) \in Nat
<1> DEFINE S == {k \in 0 .. n : SumTo(f, k) \in Nat}
<1>1. 0 \in S
  BY SumZero
<1>2. ASSUME NEW i \in 1 .. n, i - 1 \in S PROVE i \in S
  <2>1. SumTo(f, i) = SumTo(f, i - 1) + f[i]
    BY SumNext
  <2>2. QED
    BY <1>2, <2>1
<1>3. \A k \in 0 .. n : k \in S
  <2> HIDE DEF S
  <2>1. QED
    BY <1>1, <1>2, InductionUpTo
<1>4. QED
  BY <1>3

\* Zeros at the end do not count.
LEMMA SumZeros ==
  ASSUME NEW f, NEW m \in Nat, NEW n \in Nat, m <= n,
         \A k \in 1 .. n : f[k] \in Nat,
         \A k \in m + 1 .. n : f[k] = 0
  PROVE  SumTo(f, n) = SumTo(f, m)
<1> DEFINE S == {k \in 0 .. n - m : SumTo(f, m + k) = SumTo(f, m)}
<1>0. n - m \in Nat
  OBVIOUS
<1>1. 0 \in S
  BY <1>0
<1>2. ASSUME NEW i \in 1 .. n - m, i - 1 \in S PROVE i \in S
  <2> PICK j \in Nat \ {0} : j = m + i
    BY <1>0
  <2>1. SumTo(f, j) = SumTo(f, j - 1) + f[j]
    BY SumNext
  <2>2. j - 1 = m + (i - 1) /\ f[j] = 0
    BY <1>0
  <2>3. SumTo(f, m) \in Nat
    BY SumInNat
  <2>4. SumTo(f, j - 1) = SumTo(f, m)
    BY <1>2, <2>2
  <2>5. SumTo(f, j) = SumTo(f, m)
    BY <2>1, <2>2, <2>3, <2>4
  <2>6. QED
    BY <2>5
<1>3. \A k \in 0 .. n - m : k \in S
  <2> HIDE DEF S
  <2>1. QED
    BY <1>0, <1>1, <1>2, InductionUpTo
<1>4. n - m \in 0 .. n - m /\ m + (n - m) = n
  BY <1>0
<1>5. QED
  BY <1>3, <1>4

\* A longer sum is not less.
LEMMA SumGrows ==
  ASSUME NEW f, NEW m \in Nat, NEW n \in Nat, m <= n,
         \A k \in 1 .. n : f[k] \in Nat
  PROVE  SumTo(f, m) <= SumTo(f, n)
<1> DEFINE S == {k \in 0 .. n - m : SumTo(f, m) <= SumTo(f, m + k)}
<1>0. n - m \in Nat /\ \A k \in 0 .. n : SumTo(f, k) \in Nat
  <2>1. ASSUME NEW k \in 0 .. n PROVE SumTo(f, k) \in Nat
    BY SumInNat
  <2>2. QED
    BY <2>1
<1>1. 0 \in S
  BY <1>0
<1>2. ASSUME NEW i \in 1 .. n - m, i - 1 \in S PROVE i \in S
  <2> PICK j \in 1 .. n : j = m + i
    BY <1>0
  <2>1. SumTo(f, j) = SumTo(f, j - 1) + f[j]
    BY SumNext
  <2>2. j - 1 = m + (i - 1) /\ j - 1 \in 0 .. n /\ j \in 0 .. n /\ m \in 0 .. n
    BY <1>0
  <2>3. SumTo(f, m) <= SumTo(f, j - 1)
    BY <1>2, <2>2
  <2>4. SumTo(f, m) <= SumTo(f, j)
    BY <1>0, <2>1, <2>2, <2>3
  <2>5. QED
    BY <2>4
<1>3. \A k \in 0 .. n - m : k \in S
  <2> HIDE DEF S
  <2>1. QED
    BY <1>0, <1>1, <1>2, InductionUpTo
<1>4. n - m \in 0 .. n - m /\ m + (n - m) = n
  BY <1>0
<1>5. QED
  BY <1>3, <1>4
----------------------------------------------------------------------------
(* The activations of Execute *)

LEMMA DepthIs ==
  ASSUME NEW s \in States
  PROVE  /\ Depth(s) = Len(s.frames) /\ Depth(s) \in Nat
         /\ \A k \in 1 .. Depth(s) : s.frames[k] \in FrameRec
BY DEF States, Depth

LEMMA FrameIs ==
  ASSUME NEW f \in FrameRec
  PROVE  /\ f.kind \in {"script", "generator", "native"} /\ f.base \in Nat
         /\ f.vars \in Seq(Vars) /\ Len(f.vars) \in Nat
         /\ f.scopes \in Seq(ScopeRec) /\ Len(f.scopes) \in Nat
         /\ f.etraps \in Nat /\ f.gen \in Gens \union {None} /\ f.root \in BOOLEAN
BY DEF FrameRec

LEMMA StateIs ==
  ASSUME NEW s \in States
  PROVE  /\ s.frames \in Seq(FrameRec) /\ s.execs \in Seq(Int) /\ s.etraps \in Seq(Trap)
         /\ s.open \subseteq Outer /\ s.stray \subseteq s.open
         /\ \A o \in s.open : o.pos \in Nat /\ o.var \in Vars
         /\ s.gens \in [Gens -> GenRec]
         /\ Len(s.frames) \in Nat /\ Len(s.execs) \in Nat /\ Len(s.etraps) \in Nat
BY DEF States, Outer

LEMMA ExecZero ==
  ASSUME NEW s
  PROVE  ExecOf(s, 0) = 0
<1>1. {r \in 1 .. 0 : s.frames[r].root} = {}
  OBVIOUS
<1>2. QED
  BY <1>1, FS_EmptySet DEF ExecOf

LEMMA RootsFinite ==
  ASSUME NEW s, NEW k \in Nat
  PROVE  IsFiniteSet({r \in 1 .. k : s.frames[r].root})
<1>1. IsFiniteSet(1 .. k)
  BY FS_Interval
<1>2. QED
  BY <1>1, FS_Subset

LEMMA ExecNext ==
  ASSUME NEW s, NEW k \in Nat \ {0}
  PROVE  /\ ExecOf(s, k) \in Nat
         /\ ExecOf(s, k) = ExecOf(s, k - 1) + (IF s.frames[k].root THEN 1 ELSE 0)
<1> DEFINE R == {r \in 1 .. k - 1 : s.frames[r].root}
           Q == {r \in 1 .. k : s.frames[r].root}
<1>1. IsFiniteSet(R) /\ IsFiniteSet(Q)
  <2>1. k - 1 \in Nat
    OBVIOUS
  <2>2. QED
    BY <2>1, RootsFinite
<1>2. k \notin R
  OBVIOUS
<1>3. Cardinality(R) \in Nat /\ Cardinality(Q) \in Nat
  BY <1>1, FS_CardinalityType
<1>4. CASE s.frames[k].root
  <2>1. Q = R \union {k}
    BY <1>4
  <2>2. Cardinality(R \union {k}) = Cardinality(R) + 1
    BY <1>1, <1>2, FS_AddElement
  <2>3. QED
    BY <1>3, <1>4, <2>1, <2>2 DEF ExecOf
<1>5. CASE ~ s.frames[k].root
  <2>1. Q = R
    BY <1>5
  <2>2. QED
    BY <1>3, <1>5, <2>1 DEF ExecOf
<1>6. QED
  BY <1>4, <1>5

LEMMA ExecAgree ==
  ASSUME NEW s, NEW t, NEW n \in Nat,
         \A k \in 1 .. n : t.frames[k] = s.frames[k]
  PROVE  \A k \in 0 .. n : ExecOf(t, k) = ExecOf(s, k)
<1> SUFFICES ASSUME NEW k \in 0 .. n
             PROVE  ExecOf(t, k) = ExecOf(s, k)
  OBVIOUS
<1>1. {r \in 1 .. k : t.frames[r].root} = {r \in 1 .. k : s.frames[r].root}
  OBVIOUS
<1>2. QED
  BY <1>1 DEF ExecOf

LEMMA ExecGrows ==
  ASSUME NEW s, NEW j \in Nat, NEW k \in Nat, j <= k
  PROVE  ExecOf(s, j) <= ExecOf(s, k) /\ ExecOf(s, j) \in Nat /\ ExecOf(s, k) \in Nat
<1> DEFINE R == {r \in 1 .. j : s.frames[r].root}
           Q == {r \in 1 .. k : s.frames[r].root}
<1>1. R \subseteq Q
  OBVIOUS
<1>2. IsFiniteSet(R) /\ IsFiniteSet(Q)
  BY RootsFinite
<1>3. Cardinality(R) <= Cardinality(Q)
  BY <1>1, <1>2, FS_Subset
<1>4. QED
  BY <1>2, <1>3, FS_CardinalityType DEF ExecOf

\* Every frame is of one of the activations; that of the top frame is the last.
LEMMA ExecsAre ==
  ASSUME NEW s \in States, Rooted(s), NEW k \in 1 .. Depth(s)
  PROVE  /\ ExecOf(s, k) \in 1 .. Len(s.execs)
         /\ Len(s.execs) \in Nat \ {0}
         /\ ExecOf(s, Depth(s)) = Len(s.execs)
<1> PICK d \in Nat : d = Depth(s)
  BY DepthIs
<1>1. ExecOf(s, 1) = 1
  BY ExecZero, ExecNext DEF Rooted
<1>2. ExecOf(s, 1) <= ExecOf(s, k) /\ ExecOf(s, k) <= ExecOf(s, d)
      /\ ExecOf(s, k) \in Nat /\ ExecOf(s, d) \in Nat
  BY ExecGrows
<1>3. QED
  BY <1>1, <1>2 DEF Rooted

----------------------------------------------------------------------------
(* Steps: the lowest n frames of s, and at most one more *)

Over(s, t, n) ==
  /\ s \in States /\ t \in States
  /\ n \in 0 .. Depth(s) /\ Depth(t) \in {n, n + 1}
  /\ \A k \in 1 .. n : t.frames[k] = s.frames[k]

\* What holds of the new frame if there is one
Extra(t, n) == Depth(t) = n + 1
NewFrame(t, n) == t.frames[n + 1]

LEMMA OverIs ==
  ASSUME NEW s, NEW t, NEW n, Over(s, t, n)
  PROVE  /\ n \in Nat /\ Depth(s) \in Nat /\ n <= Depth(s) /\ Depth(t) \in Nat
         /\ Depth(t) \in {n, n + 1}
         /\ s \in States /\ t \in States
         /\ \A k \in 1 .. n : k \in 1 .. Depth(s) /\ t.frames[k] = s.frames[k]
         /\ \A k \in 1 .. Depth(t) : k \in 1 .. n \/ (k = n + 1 /\ Extra(t, n))
<1>1. n \in 0 .. Depth(s) /\ Depth(s) \in Nat /\ Depth(t) \in Nat
      /\ Depth(t) \in {n, n + 1}
  BY DepthIs DEF Over
<1>2. QED
  BY <1>1 DEF Over, Extra

LEMMA OverShapes ==
  ASSUME NEW s, NEW t, NEW n, Over(s, t, n), Shapes(s),
         Depth(t) <= MaxFrames,
         Extra(t, n) => FrameOK(NewFrame(t, n)),
         \A g \in Gens : GenOK(t.gens[g])
  PROVE  Shapes(t)
<1>1. ASSUME NEW k \in 1 .. Depth(t) PROVE FrameOK(t.frames[k])
  BY OverIs DEF Shapes, NewFrame
<1>2. QED
  BY <1>1 DEF Shapes

LEMMA OverSlots ==
  ASSUME NEW s, NEW t, NEW n, Over(s, t, n), Slots(s),
         Extra(t, n) =>
           \A j \in 1 .. n :
             s.frames[j].base + Len(s.frames[j].vars) <= NewFrame(t, n).base
  PROVE  Slots(t)
<1> SUFFICES ASSUME NEW j \in 1 .. Depth(t), NEW k \in 1 .. Depth(t), j < k
             PROVE  t.frames[j].base + Len(t.frames[j].vars) <= t.frames[k].base
  BY DEF Slots
<1>1. /\ n \in Nat /\ Depth(t) \in Nat /\ j \in 1 .. n
      /\ k \in 1 .. n \/ (k = n + 1 /\ Extra(t, n))
  BY OverIs
<1>2. CASE k \in 1 .. n
  BY <1>1, <1>2, OverIs DEF Slots
<1>3. CASE k = n + 1 /\ Extra(t, n)
  BY <1>1, <1>3, OverIs DEF NewFrame
<1>4. QED
  BY <1>1, <1>2, <1>3

LEMMA OverRooted ==
  ASSUME NEW s, NEW t, NEW n, Over(s, t, n), Rooted(s),
         n = 0 /\ Extra(t, n) => NewFrame(t, n).root,
         Len(t.execs) = ExecOf(s, n) +
                          (IF Extra(t, n) /\ NewFrame(t, n).root THEN 1 ELSE 0)
  PROVE  Rooted(t)
<1>1. n \in Nat /\ Depth(t) \in Nat /\ Depth(t) \in {n, n + 1}
  BY OverIs DEF Over
<1>2. Depth(t) > 0 => t.frames[1].root
  <2>1. CASE n = 0
    BY <2>1, <1>1 DEF Extra, NewFrame
  <2>2. CASE n # 0
    BY <2>2, <1>1, OverIs DEF Rooted
  <2>3. QED
    BY <2>1, <2>2
<1>3. ExecOf(t, n) = ExecOf(s, n)
  <2>1. \A k \in 1 .. n : t.frames[k] = s.frames[k]
    BY OverIs
  <2>2. \A k \in 0 .. n : ExecOf(t, k) = ExecOf(s, k)
    BY <1>1, <2>1, ExecAgree
  <2>3. QED
    BY <1>1, <2>2
<1>4. CASE Depth(t) = n
  <2>1. ExecOf(s, n) \in Nat /\ ~ Extra(t, n)
    BY <1>1, <1>4, ExecGrows DEF Extra
  <2>2. Len(t.execs) = ExecOf(t, n)
    BY <1>3, <2>1
  <2>3. QED
    BY <1>2, <1>4, <2>2 DEF Rooted
<1>5. CASE Depth(t) = n + 1
  <2>1. ExecOf(t, n + 1) = ExecOf(t, n) + (IF t.frames[n + 1].root THEN 1 ELSE 0)
    <3>1. n + 1 \in Nat \ {0} /\ (n + 1) - 1 = n
      BY <1>1
    <3>2. QED
      BY <3>1, ExecNext
  <2>2. QED
    BY <1>2, <1>3, <1>5, <2>1 DEF Rooted, Extra, NewFrame
<1>6. QED
  BY <1>1, <1>4, <1>5
----------------------------------------------------------------------------
(* Traps *)

LEMMA TrapsAre ==
  ASSUME NEW s \in States
  PROVE  /\ \A k \in 1 .. Depth(s) : Traps(s)[k] = s.frames[k].etraps
                                    /\ Traps(s)[k] \in Nat
         /\ \A n \in 0 .. Depth(s) : SumTo(Traps(s), n) \in Nat
         /\ \A k \in 1 .. Depth(s) :
              SumTo(Traps(s), k) = SumTo(Traps(s), k - 1) + s.frames[k].etraps
<1>1. \A k \in 1 .. Depth(s) : Traps(s)[k] = s.frames[k].etraps
                               /\ Traps(s)[k] \in Nat
  BY DepthIs DEF Traps, FrameRec
<1>2. ASSUME NEW n \in 0 .. Depth(s) PROVE SumTo(Traps(s), n) \in Nat
  <2>1. n \in Nat /\ \A k \in 1 .. n : Traps(s)[k] \in Nat
    BY <1>1, DepthIs
  <2>2. QED
    BY <2>1, SumInNat
<1>3. ASSUME NEW k \in 1 .. Depth(s)
      PROVE  SumTo(Traps(s), k) = SumTo(Traps(s), k - 1) + s.frames[k].etraps
  <2>1. k \in Nat \ {0}
    BY DepthIs
  <2>2. QED
    BY <1>1, <2>1, SumNext
<1>4. QED
  BY <1>1, <1>2, <1>3

\* The traps of the lowest n frames of s, n + 1 and more of which may be gone.
Below(s, n) == SumTo(Traps(s), n)

LEMMA OverBelow ==
  ASSUME NEW s, NEW t, NEW n, Over(s, t, n)
  PROVE  \A k \in 0 .. n : Below(t, k) = Below(s, k)
<1>1. /\ n \in Nat /\ s \in States /\ t \in States
      /\ \A k \in 1 .. n : k \in 1 .. Depth(s) /\ k \in 1 .. Depth(t)
                           /\ t.frames[k] = s.frames[k]
  <2>1. \A k \in 1 .. n : k \in 1 .. Depth(t)
    BY OverIs DEF Over
  <2>2. QED
    BY <2>1, OverIs
<1> SUFFICES ASSUME NEW k \in 0 .. n PROVE Below(t, k) = Below(s, k)
  OBVIOUS
<1>2. \A j \in 1 .. k : Traps(t)[j] = Traps(s)[j]
  BY <1>1, TrapsAre
<1>3. k \in Nat
  BY <1>1
<1>4. QED
  BY <1>2, <1>3, SumAgree DEF Below

NewTraps(s, t, n) ==
  [j \in 1 .. NewFrame(t, n).etraps |-> t.etraps[Below(s, n) + j]]

LEMMA OverFits ==
  ASSUME NEW s, NEW t, NEW n, Over(s, t, n), Fits(s),
         \A j \in 1 .. Below(s, n) : t.etraps[j] = s.etraps[j],
         Len(t.etraps) = Below(s, n) +
                           (IF Extra(t, n) THEN NewFrame(t, n).etraps ELSE 0),
         Extra(t, n) =>
           TrapsFit(NewTraps(s, t, n), NewFrame(t, n).scopes, NewFrame(t, n).base)
  PROVE  Fits(t)
<1>1. /\ n \in Nat /\ s \in States /\ t \in States /\ n <= Depth(s)
      /\ Depth(t) \in {n, n + 1} /\ Depth(s) \in Nat
  BY OverIs DEF Over
<1>2. Below(t, n) = Below(s, n) /\ Below(s, n) \in Nat
  BY <1>1, OverBelow, TrapsAre DEF Below
<1>3. Len(t.etraps) = SumTo(Traps(t), Depth(t))
  <2>1. CASE Depth(t) = n
    <3>1. ~ Extra(t, n)
      BY <1>1, <2>1 DEF Extra
    <3>2. QED
      BY <1>2, <2>1, <3>1 DEF Below
  <2>2. CASE Depth(t) = n + 1
    <3>1. Below(t, n + 1) = Below(t, n) + NewFrame(t, n).etraps
      <4>1. n + 1 \in 1 .. Depth(t) /\ (n + 1) - 1 = n
        BY <1>1, <2>2
      <4>2. QED
        BY <1>1, <4>1, TrapsAre DEF Below, NewFrame
    <3>2. QED
      BY <1>2, <2>2, <3>1 DEF Below, Extra
  <2>3. QED
    BY <1>1, <2>1, <2>2
<1>4. ASSUME NEW k \in 1 .. Depth(t)
      PROVE  TrapsFit(OwnTraps(t, k), t.frames[k].scopes, t.frames[k].base)
  <2>1. CASE k \in 1 .. n
    <3>1. k \in 1 .. Depth(s) /\ t.frames[k] = s.frames[k]
      BY <2>1, OverIs
    <3>2. Below(t, k - 1) = Below(s, k - 1) /\ Below(s, k - 1) \in Nat
      <4>1. k - 1 \in 0 .. n /\ k - 1 \in 0 .. Depth(s)
        BY <1>1, <2>1
      <4>2. QED
        BY <1>1, <4>1, OverBelow, TrapsAre DEF Below
    <3>3. /\ Below(s, k) = Below(s, k - 1) + s.frames[k].etraps
          /\ Below(s, k) \in Nat /\ s.frames[k].etraps \in Nat
      <4>1. k \in 0 .. Depth(s)
        BY <3>1
      <4>2. QED
        BY <1>1, <3>1, <4>1, TrapsAre DEF Below
    <3>4. Below(s, k) <= Below(s, n)
      <4>1. k \in Nat /\ k <= n /\ \A j \in 1 .. n : Traps(s)[j] \in Nat
        BY <1>1, <2>1, TrapsAre
      <4>2. QED
        BY <1>1, <4>1, SumGrows DEF Below
    <3>5. ASSUME NEW j \in 1 .. s.frames[k].etraps
          PROVE  t.etraps[Below(s, k - 1) + j] = s.etraps[Below(s, k - 1) + j]
      <4>1. Below(s, k - 1) + j \in 1 .. Below(s, n)
        BY <1>2, <3>2, <3>3, <3>4
      <4>2. QED
        BY <4>1
    <3>6. OwnTraps(t, k) = OwnTraps(s, k)
      BY <3>1, <3>2, <3>5 DEF OwnTraps, Below
    <3>7. QED
      BY <3>1, <3>6 DEF Fits
  <2>2. CASE k = n + 1 /\ Extra(t, n)
    <3>1. k - 1 = n
      BY <1>1, <2>2
    <3>2. OwnTraps(t, k) = NewTraps(s, t, n)
      BY <1>2, <2>2, <3>1 DEF OwnTraps, NewTraps, NewFrame, Below
    <3>3. QED
      BY <2>2, <3>2 DEF NewFrame
  <2>3. QED
    BY <2>1, <2>2, OverIs
<1>5. QED
  BY <1>3, <1>4 DEF Fits

\* The traps that activation e has set in the lowest n frames
Counted(s, e, n) == SumTo(TrapsIn(s, e), n)

LEMMA CountIs ==
  ASSUME NEW s \in States, NEW e
  PROVE  /\ \A k \in 1 .. Depth(s) :
              TrapsIn(s, e)[k] = (IF ExecOf(s, k) = e THEN s.frames[k].etraps ELSE 0)
              /\ TrapsIn(s, e)[k] \in Nat
         /\ \A n \in 0 .. Depth(s) : Counted(s, e, n) \in Nat
         /\ \A k \in 1 .. Depth(s) :
              Counted(s, e, k) = Counted(s, e, k - 1) +
                                 (IF ExecOf(s, k) = e THEN s.frames[k].etraps ELSE 0)
<1>1. \A k \in 1 .. Depth(s) :
        /\ TrapsIn(s, e)[k] = (IF ExecOf(s, k) = e THEN s.frames[k].etraps ELSE 0)
        /\ TrapsIn(s, e)[k] \in Nat
  BY DepthIs DEF TrapsIn, FrameRec
<1>2. ASSUME NEW n \in 0 .. Depth(s) PROVE Counted(s, e, n) \in Nat
  <2>1. n \in Nat /\ \A k \in 1 .. n : TrapsIn(s, e)[k] \in Nat
    BY <1>1, DepthIs
  <2>2. QED
    BY <2>1, SumInNat DEF Counted
<1>3. ASSUME NEW k \in 1 .. Depth(s)
      PROVE  Counted(s, e, k) = Counted(s, e, k - 1) + TrapsIn(s, e)[k]
  <2>1. k \in Nat \ {0}
    BY DepthIs
  <2>2. QED
    BY <2>1, SumNext DEF Counted
<1>4. QED
  BY <1>1, <1>2, <1>3

LEMMA OverCounted ==
  ASSUME NEW s, NEW t, NEW n, Over(s, t, n),
         \A e \in 1 .. Len(t.execs) :
           t.execs[e] = Counted(s, e, n) +
                          (IF Extra(t, n) /\ ExecOf(t, n + 1) = e
                           THEN NewFrame(t, n).etraps ELSE 0)
  PROVE  TrapsCounted(t)
<1>1. /\ n \in Nat /\ s \in States /\ t \in States /\ n <= Depth(s)
      /\ Depth(t) \in {n, n + 1} /\ Depth(s) \in Nat
  BY OverIs
<1> SUFFICES ASSUME NEW e \in 1 .. Len(t.execs)
             PROVE  t.execs[e] = Counted(t, e, Depth(t))
  <2>1. DOMAIN t.execs = 1 .. Len(t.execs)
    BY <1>1 DEF States
  <2>2. QED
    BY <2>1 DEF TrapsCounted, Counted
<1>2. Counted(t, e, n) = Counted(s, e, n) /\ Counted(s, e, n) \in Nat
  <2>1. \A k \in 1 .. n : k \in 1 .. Depth(s) /\ k \in 1 .. Depth(t)
                          /\ t.frames[k] = s.frames[k]
    BY <1>1, OverIs
  <2>2. \A k \in 0 .. n : ExecOf(t, k) = ExecOf(s, k)
    BY <1>1, <2>1, ExecAgree
  <2>3. \A k \in 1 .. n : TrapsIn(t, e)[k] = TrapsIn(s, e)[k]
    <3>1. \A k \in 1 .. Depth(s) : TrapsIn(s, e)[k] =
                                      (IF ExecOf(s, k) = e THEN s.frames[k].etraps ELSE 0)
      BY <1>1, CountIs
    <3>2. \A k \in 1 .. Depth(t) : TrapsIn(t, e)[k] =
                                      (IF ExecOf(t, k) = e THEN t.frames[k].etraps ELSE 0)
      BY <1>1, CountIs
    <3>3. \A k \in 1 .. n : ExecOf(t, k) = ExecOf(s, k)
      BY <1>1, <2>2
    <3>4. QED
      BY ONLY <2>1, <3>1, <3>2, <3>3
  <2>4. QED
    BY <1>1, <2>3, SumAgree, CountIs DEF Counted
<1>3. CASE Depth(t) = n
  <2>1. ~ Extra(t, n)
    BY <1>1, <1>3 DEF Extra
  <2>2. QED
    BY <1>2, <1>3, <2>1
<1>4. CASE Depth(t) = n + 1
  <2>1. n + 1 \in 1 .. Depth(t) /\ (n + 1) - 1 = n
    BY <1>1, <1>4
  <2>2. Counted(t, e, n + 1) = Counted(t, e, n) +
          (IF ExecOf(t, n + 1) = e THEN t.frames[n + 1].etraps ELSE 0)
    <3>1. \A k \in 1 .. Depth(t) :
            Counted(t, e, k) = Counted(t, e, k - 1) +
              (IF ExecOf(t, k) = e THEN t.frames[k].etraps ELSE 0)
      BY <1>1, CountIs
    <3>2. QED
      BY ONLY <2>1, <3>1
  <2>3. QED
    BY <1>2, <1>4, <2>2 DEF Extra, NewFrame
<1>5. QED
  BY <1>1, <1>3, <1>4

\* What the count of activation e is without the frames from m on, if those
\* above m have no traps.
LEMMA CountBelow ==
  ASSUME NEW s \in States, TrapsCounted(s), NEW e \in 1 .. Len(s.execs),
         NEW m \in 1 .. Depth(s),
         \A k \in m + 1 .. Depth(s) : ExecOf(s, k) = e => s.frames[k].etraps = 0
  PROVE  /\ Counted(s, e, m) = s.execs[e]
         /\ Counted(s, e, m - 1) \in Nat
         /\ s.execs[e] = Counted(s, e, m - 1) +
                           (IF ExecOf(s, m) = e THEN s.frames[m].etraps ELSE 0)
<1>1. Depth(s) \in Nat /\ m \in Nat /\ m <= Depth(s)
  BY DepthIs
<1>2. s.execs[e] = Counted(s, e, Depth(s))
  <2>1. DOMAIN s.execs = 1 .. Len(s.execs)
    BY DEF States
  <2>2. QED
    BY <2>1 DEF TrapsCounted, Counted
<1>3. Counted(s, e, Depth(s)) = Counted(s, e, m)
  <2>1. \A k \in 1 .. Depth(s) : TrapsIn(s, e)[k] \in Nat
    BY CountIs
  <2>2. \A k \in m + 1 .. Depth(s) : TrapsIn(s, e)[k] = 0
    <3>1. \A k \in m + 1 .. Depth(s) : k \in 1 .. Depth(s)
      BY <1>1
    <3>2. QED
      BY <3>1, CountIs
  <2>3. QED
    BY <1>1, <2>1, <2>2, SumZeros DEF Counted
<1>4. m - 1 \in 0 .. Depth(s)
  BY <1>1
<1>5. \A k \in 0 .. Depth(s) : Counted(s, e, k) \in Nat
  BY CountIs
<1>6. Counted(s, e, m) = Counted(s, e, m - 1) +
                           (IF ExecOf(s, m) = e THEN s.frames[m].etraps ELSE 0)
  BY CountIs
<1>7. QED
  BY ONLY <1>2, <1>3, <1>4, <1>5, <1>6
----------------------------------------------------------------------------
(* Places of variables *)

\* The locals of a are some of b, or new.
Within(s, a, b) ==
  /\ Once(a)
  /\ \A x \in 1 .. Len(a) : a[x] \in Fresh(s) \/ \E y \in 1 .. Len(b) : a[x] = b[y]

LEMMA ApartSym ==
  ASSUME NEW a, NEW b, Apart(a, b)
  PROVE  Apart(b, a)
BY DEF Apart

LEMMA ApartEmpty ==
  ASSUME NEW a
  PROVE  Apart(a, <<>>) /\ Apart(<<>>, a) /\ Once(<<>>)
BY DEF Apart, Once

LEMMA FreshIs ==
  ASSUME NEW s \in States, NEW v \in Fresh(s)
  PROVE  /\ v \in Vars
         /\ \A k \in 1 .. Depth(s), x \in Nat :
              x \in 1 .. Len(s.frames[k].vars) => s.frames[k].vars[x] # v
         /\ \A g \in Gens, x \in Nat :
              x \in 1 .. Len(s.gens[g].vars) => s.gens[g].vars[x] # v
         /\ \A o \in s.open : o.var # v
<1>1. v \in Vars /\ v \notin InScope(s) /\ \A o \in s.open : o.var # v
  BY DEF Fresh
<1>2. ASSUME NEW k \in 1 .. Depth(s), NEW x \in 1 .. Len(s.frames[k].vars),
             s.frames[k].vars[x] = v
      PROVE  FALSE
  <2>1. s.frames[k].vars \in Seq(Vars)
    BY DepthIs DEF FrameRec
  <2>2. x \in DOMAIN s.frames[k].vars
    BY <2>1
  <2>3. QED
    BY <1>1, <1>2, <2>2 DEF InScope, Holds
<1>3. ASSUME NEW g \in Gens, NEW x \in 1 .. Len(s.gens[g].vars),
             s.gens[g].vars[x] = v
      PROVE  FALSE
  <2>1. s.gens[g].vars \in Seq(Vars)
    BY DEF States, GenRec
  <2>2. x \in DOMAIN s.gens[g].vars
    BY <2>1
  <2>3. QED
    BY <1>1, <1>3, <2>2 DEF InScope, Holds
<1>4. QED
  BY <1>1, <1>2, <1>3

LEMMA WithinApart ==
  ASSUME NEW s, NEW a, NEW b, Within(s, a, b), NEW c, Apart(c, b),
         \A v \in Fresh(s) : \A x \in 1 .. Len(c) : c[x] # v
  PROVE  Apart(c, a) /\ Apart(a, c)
BY DEF Within, Apart

LEMMA OverDistinct ==
  ASSUME NEW s, NEW t, NEW n, Over(s, t, n), Distinct(s),
         Extra(t, n) => Once(NewFrame(t, n).vars),
         Extra(t, n) =>
           \A j \in 1 .. n : Apart(s.frames[j].vars, NewFrame(t, n).vars),
         Extra(t, n) => \A g \in Gens : Apart(NewFrame(t, n).vars, t.gens[g].vars),
         \A g \in Gens : Once(t.gens[g].vars),
         \A g, h \in Gens : g # h => Apart(t.gens[g].vars, t.gens[h].vars),
         \A j \in 1 .. n, g \in Gens : Apart(s.frames[j].vars, t.gens[g].vars)
  PROVE  Distinct(t)
<1>0. /\ n \in Nat /\ \A k \in 1 .. n : k \in 1 .. Depth(s) /\ t.frames[k] = s.frames[k]
      /\ \A k \in 1 .. Depth(t) : k \in 1 .. n \/ (k = n + 1 /\ Extra(t, n))
  BY OverIs
<1>1. ASSUME NEW k \in 1 .. Depth(t) PROVE Once(t.frames[k].vars)
  BY <1>0 DEF Distinct, NewFrame
<1>2. ASSUME NEW j \in 1 .. Depth(t), NEW k \in 1 .. Depth(t), j # k
      PROVE  Apart(t.frames[j].vars, t.frames[k].vars)
  <2>1. CASE j \in 1 .. n /\ k \in 1 .. n
    BY <1>0, <1>2, <2>1 DEF Distinct
  <2>2. CASE j \in 1 .. n /\ k = n + 1 /\ Extra(t, n)
    BY <1>0, <2>2 DEF NewFrame
  <2>3. CASE k \in 1 .. n /\ j = n + 1 /\ Extra(t, n)
    BY <1>0, <2>3, ApartSym DEF NewFrame
  <2>4. QED
    BY <1>0, <1>2, <2>1, <2>2, <2>3
<1>3. ASSUME NEW k \in 1 .. Depth(t), NEW g \in Gens
      PROVE  Apart(t.frames[k].vars, t.gens[g].vars)
  BY <1>0 DEF NewFrame
<1>4. QED
  BY <1>1, <1>2, <1>3 DEF Distinct

\* The locals of the lowest n frames, and those of the generators.
LEMMA BelowDistinct ==
  ASSUME NEW s, Distinct(s)
  PROVE  /\ \A g \in Gens : Once(s.gens[g].vars)
         /\ \A g, h \in Gens : g # h => Apart(s.gens[g].vars, s.gens[h].vars)
         /\ \A k \in 1 .. Depth(s) : Once(s.frames[k].vars)
         /\ \A j, k \in 1 .. Depth(s) : j # k => Apart(s.frames[j].vars, s.frames[k].vars)
         /\ \A k \in 1 .. Depth(s), g \in Gens :
              Apart(s.frames[k].vars, s.gens[g].vars)
              /\ Apart(s.gens[g].vars, s.frames[k].vars)
BY ApartSym DEF Distinct

\* The running function goes on.
LEMMA TopDistinct ==
  ASSUME NEW s, NEW t, NEW n, Over(s, t, n), Distinct(s), n + 1 = Depth(s),
         Extra(t, n), Within(s, NewFrame(t, n).vars, s.frames[n + 1].vars),
         \A g \in Gens : t.gens[g] = s.gens[g]
  PROVE  Distinct(t)
<1> DEFINE a == NewFrame(t, n).vars
           b == s.frames[n + 1].vars
<1>0. /\ s \in States /\ n \in Nat /\ n + 1 \in 1 .. Depth(s)
      /\ \A k \in 1 .. n : k \in 1 .. Depth(s) /\ k # n + 1
  BY OverIs
<1>1. Once(a)
  BY DEF Within
<1>2. ASSUME NEW j \in 1 .. n PROVE Apart(s.frames[j].vars, a)
  <2>1. Apart(s.frames[j].vars, b)
    BY <1>0 DEF Distinct
  <2>2. \A v \in Fresh(s) : \A x \in 1 .. Len(s.frames[j].vars) : s.frames[j].vars[x] # v
    BY <1>0, FreshIs
  <2>3. QED
    BY <2>1, <2>2, WithinApart
<1>3. ASSUME NEW g \in Gens PROVE Apart(a, t.gens[g].vars)
  <2>1. Apart(s.gens[g].vars, b)
    BY <1>0, BelowDistinct
  <2>2. \A v \in Fresh(s) : \A x \in 1 .. Len(s.gens[g].vars) : s.gens[g].vars[x] # v
    BY <1>0, FreshIs
  <2>3. QED
    BY <2>1, <2>2, WithinApart
<1>4. /\ \A g \in Gens : Once(t.gens[g].vars)
      /\ \A g, h \in Gens : g # h => Apart(t.gens[g].vars, t.gens[h].vars)
      /\ \A j \in 1 .. n, g \in Gens : Apart(s.frames[j].vars, t.gens[g].vars)
  BY <1>0 DEF Distinct
<1> HIDE DEF a
<1>5. QED
  BY <1>1, <1>2, <1>3, <1>4, OverDistinct DEF a

\* Frames are left; generator h may take the locals of the top frame with it.
Taken(s, t, n, g, h) ==
  \/ t.gens[g].vars = s.gens[g].vars
  \/ t.gens[g].vars = <<>>
  \/ g = h /\ n < Depth(s) /\ t.gens[g].vars = s.frames[Depth(s)].vars

LEMMA CutDistinct ==
  ASSUME NEW s, NEW t, NEW n, Over(s, t, n), Distinct(s), ~ Extra(t, n),
         NEW h, \A g \in Gens : Taken(s, t, n, g, h)
  PROVE  Distinct(t)
<1>0. /\ n \in Nat /\ Depth(s) \in Nat /\ n <= Depth(s)
      /\ \A k \in 1 .. n : k \in 1 .. Depth(s)
      /\ n < Depth(s) => \A k \in 1 .. n : k # Depth(s)
      /\ n < Depth(s) => Depth(s) \in 1 .. Depth(s)
  BY OverIs
<1>1. ASSUME NEW g \in Gens PROVE Once(t.gens[g].vars)
  BY ONLY <1>0, <1>1, BelowDistinct, ApartEmpty, Distinct(s), Taken(s, t, n, g, h) DEF Taken
<1>2. ASSUME NEW g \in Gens, NEW i \in Gens, g # i
      PROVE  Apart(t.gens[g].vars, t.gens[i].vars)
  <2>1. Taken(s, t, n, g, h) /\ Taken(s, t, n, i, h)
    OBVIOUS
  <2>2. CASE t.gens[g].vars = <<>> \/ t.gens[i].vars = <<>>
    BY <2>2, ApartEmpty
  <2>3. CASE t.gens[g].vars = s.gens[g].vars /\ t.gens[i].vars = s.gens[i].vars
    BY <1>2, <2>3, BelowDistinct
  <2>4. CASE n < Depth(s) /\ t.gens[g].vars = s.gens[g].vars
              /\ t.gens[i].vars = s.frames[Depth(s)].vars
    BY <1>0, <2>4, BelowDistinct
  <2>5. CASE n < Depth(s) /\ t.gens[i].vars = s.gens[i].vars
              /\ t.gens[g].vars = s.frames[Depth(s)].vars
    BY <1>0, <2>5, BelowDistinct
  <2>6. QED
    BY ONLY <1>2, <2>1, <2>2, <2>3, <2>4, <2>5 DEF Taken
<1>3. ASSUME NEW j \in 1 .. n, NEW g \in Gens
      PROVE  Apart(s.frames[j].vars, t.gens[g].vars)
  <2>1. Taken(s, t, n, g, h) /\ j \in 1 .. Depth(s)
    BY <1>0
  <2>2. Apart(s.frames[j].vars, s.gens[g].vars) /\ Apart(s.frames[j].vars, <<>>)
    BY <2>1, BelowDistinct, ApartEmpty
  <2>3. n < Depth(s) => Apart(s.frames[j].vars, s.frames[Depth(s)].vars)
    BY <1>0, <2>1, BelowDistinct
  <2>4. QED
    BY ONLY <2>1, <2>2, <2>3 DEF Taken
<1>4. QED
  BY <1>1, <1>2, <1>3, OverDistinct

\* A frame is entered, with no locals or with those of a generator.
LEMMA PushDistinct ==
  ASSUME NEW s, NEW t, NEW n, Over(s, t, n), Distinct(s), Extra(t, n),
         NEW h, \/ NewFrame(t, n).vars = <<>>
                \/ h \in Gens /\ NewFrame(t, n).vars = s.gens[h].vars
                   /\ t.gens[h].vars = <<>>,
         \A g \in Gens : g # h => t.gens[g].vars = s.gens[g].vars,
         h \in Gens => t.gens[h].vars = <<>>
  PROVE  Distinct(t)
<1> DEFINE a == NewFrame(t, n).vars
<1>0. \A k \in 1 .. n : k \in 1 .. Depth(s)
  BY OverIs
<1>1. Once(a)
  BY BelowDistinct, ApartEmpty
<1>2. ASSUME NEW j \in 1 .. n PROVE Apart(s.frames[j].vars, a)
  BY <1>0, BelowDistinct, ApartEmpty
<1>3. ASSUME NEW g \in Gens PROVE Apart(a, t.gens[g].vars)
  BY BelowDistinct, ApartEmpty
<1>4. ASSUME NEW g \in Gens PROVE Once(t.gens[g].vars)
  BY BelowDistinct, ApartEmpty
<1>5. ASSUME NEW g \in Gens, NEW i \in Gens, g # i
      PROVE  Apart(t.gens[g].vars, t.gens[i].vars)
  BY <1>5, BelowDistinct, ApartEmpty
<1>6. ASSUME NEW j \in 1 .. n, NEW g \in Gens
      PROVE  Apart(s.frames[j].vars, t.gens[g].vars)
  BY <1>0, BelowDistinct, ApartEmpty
<1> HIDE DEF a
<1>7. QED
  BY <1>1, <1>2, <1>3, <1>4, <1>5, <1>6, OverDistinct DEF a
----------------------------------------------------------------------------
(* Running generators, and open outers *)

LEMMA OverOwners ==
  ASSUME NEW s, NEW t, NEW n, Over(s, t, n), Owners(s),
         \A g \in Gens : t.gens[g].state = "running" =>
           \/ \E k \in 1 .. n : s.frames[k].gen = g
           \/ Extra(t, n) /\ NewFrame(t, n).gen = g,
         \A g \in Gens, k \in 1 .. n : s.frames[k].gen = g =>
           t.gens[g].state = "running" /\ (Extra(t, n) => NewFrame(t, n).gen # g),
         Extra(t, n) => \A g \in Gens : NewFrame(t, n).gen = g =>
                          t.gens[g].state = "running"
  PROVE  Owners(t)
<1>0. /\ n \in Nat /\ \A k \in 1 .. n : k \in 1 .. Depth(s) /\ t.frames[k] = s.frames[k]
      /\ \A k \in 1 .. Depth(t) : k \in 1 .. n \/ (k = n + 1 /\ Extra(t, n))
      /\ Depth(t) \in {n, n + 1}
  BY OverIs
<1>1. ASSUME NEW g \in Gens, t.gens[g].state = "running"
      PROVE  \E k \in Nat : Runs(t, g, k)
  <2>1. CASE \E k \in 1 .. n : s.frames[k].gen = g
    <3>1. PICK k \in 1 .. n : s.frames[k].gen = g
      BY <2>1
    <3>2. k \in 1 .. Depth(t) /\ k \in Nat /\ t.frames[k].gen = g
      BY <1>0, <3>1
    <3>3. QED
      BY <3>2 DEF Runs
  <2>2. CASE Extra(t, n) /\ NewFrame(t, n).gen = g
    <3>1. n + 1 \in 1 .. Depth(t) /\ n + 1 \in Nat /\ t.frames[n + 1].gen = g
      BY <1>0, <2>2 DEF Extra, NewFrame
    <3>2. QED
      BY <3>1 DEF Runs
  <2>3. QED
    BY <1>1, <2>1, <2>2
<1>2. ASSUME NEW g \in Gens, NEW k \in Nat, Runs(t, g, k)
      PROVE  \/ k \in 1 .. n /\ Runs(s, g, k)
             \/ k = n + 1 /\ Extra(t, n) /\ NewFrame(t, n).gen = g
  BY <1>0, <1>2 DEF Runs, NewFrame
<1>3. ASSUME NEW g \in Gens, NEW j \in Nat, NEW k \in Nat, Runs(t, g, j), Runs(t, g, k)
      PROVE  j = k
  <2>1. CASE j \in 1 .. n /\ Runs(s, g, j) /\ k \in 1 .. n /\ Runs(s, g, k)
    BY <2>1 DEF Owners
  <2>2. CASE j = n + 1 /\ k = n + 1
    BY <2>2
  <2>3. CASE j \in 1 .. n /\ Runs(s, g, j) /\ Extra(t, n) /\ NewFrame(t, n).gen = g
    BY <2>3 DEF Runs
  <2>4. CASE k \in 1 .. n /\ Runs(s, g, k) /\ Extra(t, n) /\ NewFrame(t, n).gen = g
    BY <2>4 DEF Runs
  <2>5. QED
    BY <1>2, <1>3, <2>1, <2>2, <2>3, <2>4
<1>4. ASSUME NEW g \in Gens, NEW k \in Nat, Runs(t, g, k)
      PROVE  t.gens[g].state = "running"
  BY <1>2, <1>4 DEF Runs
<1>5. QED
  BY <1>1, <1>3, <1>4 DEF Owners

\* The frame of an open outer is found by its slot.
LEMMA OuterPlace ==
  ASSUME NEW s \in States, Slots(s), Outers(s), NEW o \in s.open \ s.stray,
         NEW m \in 1 .. Depth(s)
  PROVE  \E k \in 1 .. Depth(s), i \in Nat :
           /\ OuterIn(s.frames[k], o, i)
           /\ o.pos < s.frames[m].base => k < m
           /\ o.pos >= s.frames[m].base => k >= m
<1>1. PICK k \in 1 .. Depth(s), i \in Nat : OuterIn(s.frames[k], o, i)
  BY DEF Outers
<1>2. /\ k \in Nat /\ m \in Nat
      /\ s.frames[k].base \in Nat /\ s.frames[m].base \in Nat
      /\ Len(s.frames[k].vars) \in Nat /\ Len(s.frames[m].vars) \in Nat
  <2>1. s.frames[k] \in FrameRec /\ s.frames[m] \in FrameRec /\ Depth(s) \in Nat
    BY DepthIs
  <2>2. QED
    BY <2>1, FrameIs
<1>3. i \in 1 .. Len(s.frames[k].vars) /\ s.frames[k].base + i - 1 = o.pos
  BY <1>1 DEF OuterIn
<1>4. /\ k < m => s.frames[k].base + Len(s.frames[k].vars) <= s.frames[m].base
      /\ m < k => s.frames[m].base + Len(s.frames[m].vars) <= s.frames[k].base
  BY DEF Slots
<1>5. /\ o.pos < s.frames[m].base => k < m
      /\ o.pos >= s.frames[m].base => k >= m
  <2> PICK x \in Nat : x = s.frames[k].base
    BY <1>2
  <2> PICK y \in Nat : y = s.frames[m].base
    BY <1>2
  <2>1. /\ x + i - 1 = o.pos /\ i <= Len(s.frames[k].vars) /\ i >= 1
        /\ k < m => x + Len(s.frames[k].vars) <= y
        /\ m < k => y + Len(s.frames[m].vars) <= x
    BY <1>3, <1>4
  <2>2. CASE k < m
    BY ONLY <1>2, <2>1, <2>2, x \in Nat, y \in Nat, i \in Nat, y = s.frames[m].base
  <2>3. CASE k = m
    BY <1>2, <2>1, <2>3
  <2>4. CASE m < k
    <3>1. y <= x
      <4> PICK l \in Nat : l = Len(s.frames[m].vars)
        BY <1>2
      <4>1. y + l <= x
        BY <2>1, <2>4
      <4>2. QED
        BY ONLY <4>1
    <3>2. o.pos >= y /\ o.pos \in Int
      BY <2>1, <3>1
    <3>3. QED
      BY <1>2, <2>4, <3>2
  <2>5. QED
    BY <1>2, <2>2, <2>3, <2>4
<1>6. QED
  BY <1>1, <1>5

----------------------------------------------------------------------------
(* Frames are left *)

LEMMA ExecFlat ==
  ASSUME NEW s, NEW m \in Nat, NEW n \in Nat, m <= n,
         \A k \in m + 1 .. n : ~ s.frames[k].root
  PROVE  ExecOf(s, n) = ExecOf(s, m)
<1>1. {r \in 1 .. n : s.frames[r].root} = {r \in 1 .. m : s.frames[r].root}
  OBVIOUS
<1>2. QED
  BY <1>1 DEF ExecOf

\* The outers of lower slots
Lower(O, pos) == {o \in O : o.pos < pos}

\* All frames but the lowest n are left; of these, those above the first
\* have no traps and are no roots.
Cut(s, t, n) ==
  /\ n \in 0 .. Depth(s) - 1
  /\ t \in States /\ t.frames = SubSeq(s.frames, 1, n)
  /\ \A k \in n + 2 .. Depth(s) : s.frames[k].etraps = 0 /\ ~ s.frames[k].root
  /\ t.etraps = Without(s.etraps, s.frames[n + 1].etraps)
  /\ Len(t.execs) = Len(s.execs) - (IF s.frames[n + 1].root THEN 1 ELSE 0)
  /\ \A e \in 1 .. Len(t.execs) :
       t.execs[e] = s.execs[e] -
         (IF e = Len(s.execs) THEN s.frames[n + 1].etraps ELSE 0)
  /\ t.open = Lower(s.open, s.frames[n + 1].base)
  /\ t.stray = Lower(s.stray, s.frames[n + 1].base)

\* The generators of the frames that are left are dead, or suspended with the
\* locals of the top frame.
CutGens(s, t, n) ==
  \A g \in Gens :
    /\ GenOK(t.gens[g])
    /\ IF \E k \in n + 1 .. Depth(s) : s.frames[k].gen = g
       THEN /\ t.gens[g].state # "running"
            /\ \/ t.gens[g].vars = <<>>
               \/ /\ n + 1 = Depth(s) /\ s.frames[n + 1].gen = g
                  /\ s.frames[n + 1].kind = "generator"
                  /\ t.gens[g].vars = s.frames[n + 1].vars
       ELSE t.gens[g] = s.gens[g]

LEMMA CutOver ==
  ASSUME NEW s \in States, NEW t, NEW n, Cut(s, t, n)
  PROVE  /\ Over(s, t, n) /\ ~ Extra(t, n) /\ n \in Nat /\ Depth(s) \in Nat
         /\ n + 1 \in 1 .. Depth(s) /\ n < Depth(s) /\ Depth(t) = n
<1>1. /\ n \in Nat /\ Depth(s) \in Nat /\ n < Depth(s) /\ n + 1 \in 1 .. Depth(s)
  BY DepthIs DEF Cut
<1>2. Len(t.frames) = n /\ \A k \in 1 .. n : t.frames[k] = s.frames[k]
  BY <1>1, DepthIs DEF Cut, States
<1>3. QED
  BY <1>1, <1>2 DEF Cut, Over, Extra, Depth

LEMMA CutTraps ==
  ASSUME NEW s \in States, NEW t, NEW n, Cut(s, t, n), Fits(s)
  PROVE  /\ Fits(t)
         /\ Len(s.etraps) = Below(s, n) + s.frames[n + 1].etraps
<1>0. /\ Over(s, t, n) /\ ~ Extra(t, n) /\ n \in Nat /\ Depth(s) \in Nat
      /\ n + 1 \in 1 .. Depth(s) /\ n < Depth(s)
  BY CutOver
<1>1. Below(s, n + 1) = Below(s, n) + s.frames[n + 1].etraps
      /\ Below(s, n) \in Nat /\ s.frames[n + 1].etraps \in Nat
  <2>1. (n + 1) - 1 = n /\ n \in 0 .. Depth(s)
    BY <1>0
  <2>2. QED
    BY <1>0, <2>1, TrapsAre DEF Below
<1>2. Below(s, Depth(s)) = Below(s, n + 1)
  <2>1. \A k \in (n + 1) + 1 .. Depth(s) : Traps(s)[k] = 0
    <3>1. \A k \in (n + 1) + 1 .. Depth(s) : k \in n + 2 .. Depth(s) /\ k \in 1 .. Depth(s)
      BY <1>0
    <3>2. QED
      BY <3>1, TrapsAre DEF Cut
  <2>2. \A k \in 1 .. Depth(s) : Traps(s)[k] \in Nat
    BY TrapsAre
  <2>3. n + 1 \in Nat /\ n + 1 <= Depth(s)
    BY <1>0
  <2>4. QED
    BY <1>0, <2>1, <2>2, <2>3, SumZeros DEF Below
<1>3. Len(s.etraps) = Below(s, n) + s.frames[n + 1].etraps
  BY <1>1, <1>2 DEF Fits, Below
<1>4. Len(t.etraps) = Below(s, n)
      /\ \A j \in 1 .. Below(s, n) : t.etraps[j] = s.etraps[j]
  <2> PICK b \in Nat : b = Below(s, n)
    BY <1>1
  <2> PICK x \in Nat : x = s.frames[n + 1].etraps
    BY <1>1
  <2>1. s.etraps \in Seq(Trap) /\ Len(s.etraps) = b + x
    BY <1>3, StateIs
  <2>2. t.etraps = SubSeq(s.etraps, 1, Len(s.etraps) - x)
    BY DEF Cut, Without
  <2>3. Len(s.etraps) - x = b
    BY <2>1
  <2>4. t.etraps = SubSeq(s.etraps, 1, b)
    BY <2>2, <2>3
  <2>5. Len(t.etraps) = b /\ \A j \in 1 .. b : t.etraps[j] = s.etraps[j]
    BY ONLY <2>1, <2>4, b \in Nat, x \in Nat
  <2>6. QED
    BY <2>5
<1>5. Fits(t)
  <2>1. Len(t.etraps) = Below(s, n) +
                          (IF Extra(t, n) THEN NewFrame(t, n).etraps ELSE 0)
    BY <1>0, <1>1, <1>4
  <2>2. QED
    BY <1>0, <1>4, <2>1, OverFits
<1>6. QED
  BY <1>3, <1>5

LEMMA CutExecs ==
  ASSUME NEW s \in States, NEW t, NEW n, Cut(s, t, n), Rooted(s)
  PROVE  /\ Rooted(t)
         /\ TrapsCounted(s) => TrapsCounted(t)
<1>0. /\ Over(s, t, n) /\ ~ Extra(t, n) /\ n \in Nat /\ Depth(s) \in Nat
      /\ n + 1 \in 1 .. Depth(s) /\ n < Depth(s)
  BY CutOver
<1>1. ExecOf(s, n + 1) = ExecOf(s, n) + (IF s.frames[n + 1].root THEN 1 ELSE 0)
      /\ ExecOf(s, n + 1) \in Nat /\ ExecOf(s, n) \in Nat
  <2>1. n + 1 \in Nat \ {0} /\ (n + 1) - 1 = n
    BY <1>0
  <2>2. QED
    BY <1>0, <2>1, ExecNext, ExecGrows
<1>2. ExecOf(s, n + 1) = Len(s.execs)
  <2>1. n + 1 \in Nat /\ n + 1 <= Depth(s)
        /\ \A k \in (n + 1) + 1 .. Depth(s) : ~ s.frames[k].root
    BY <1>0 DEF Cut
  <2>2. QED
    BY <1>0, <2>1, ExecFlat DEF Rooted
<1>3. Len(t.execs) = ExecOf(s, n)
  <2>1. Len(t.execs) = Len(s.execs) - (IF s.frames[n + 1].root THEN 1 ELSE 0)
    BY DEF Cut
  <2>2. Len(s.execs) \in Nat
    BY StateIs
  <2>3. CASE s.frames[n + 1].root
    BY ONLY <1>1, <1>2, <2>1, <2>2, <2>3
  <2>4. CASE ~ s.frames[n + 1].root
    BY ONLY <1>1, <1>2, <2>1, <2>2, <2>4
  <2>5. QED
    BY <2>3, <2>4
<1>4. Rooted(t)
  BY <1>0, <1>1, <1>3, OverRooted
<1>5. ASSUME TrapsCounted(s), NEW e \in 1 .. Len(t.execs)
      PROVE  t.execs[e] = Counted(s, e, n)
  <2>1. e \in 1 .. Len(s.execs)
    BY <1>1, <1>2, <1>3
  <2>2. /\ Counted(s, e, n) \in Nat
        /\ s.execs[e] = Counted(s, e, n) +
             (IF ExecOf(s, n + 1) = e THEN s.frames[n + 1].etraps ELSE 0)
    <3>1. \A k \in (n + 1) + 1 .. Depth(s) : ExecOf(s, k) = e => s.frames[k].etraps = 0
      BY <1>0 DEF Cut
    <3>2. (n + 1) - 1 = n
      BY <1>0
    <3>3. /\ Counted(s, e, (n + 1) - 1) \in Nat
          /\ s.execs[e] = Counted(s, e, (n + 1) - 1) +
               (IF ExecOf(s, n + 1) = e THEN s.frames[n + 1].etraps ELSE 0)
      BY <1>0, <1>5, <2>1, <3>1, CountBelow
    <3>4. QED
      BY <3>2, <3>3
  <2>3. t.execs[e] = s.execs[e] -
          (IF e = Len(s.execs) THEN s.frames[n + 1].etraps ELSE 0)
    BY DEF Cut
  <2>4. s.frames[n + 1].etraps \in Nat
    BY <1>0, DepthIs DEF FrameRec
  <2>5. QED
    BY ONLY <1>2, <2>2, <2>3, <2>4
<1>6. TrapsCounted(s) => TrapsCounted(t)
  <2>1. SUFFICES ASSUME TrapsCounted(s) PROVE TrapsCounted(t)
    OBVIOUS
  <2>2. \A e \in 1 .. Len(t.execs) : t.execs[e] = Counted(s, e, n) + 0
    <3>1. SUFFICES ASSUME NEW e \in 1 .. Len(t.execs)
                   PROVE  t.execs[e] = Counted(s, e, n) + 0
      OBVIOUS
    <3>2. n \in 0 .. Depth(s)
      BY <1>0
    <3>3. t.execs[e] = Counted(s, e, n) /\ Counted(s, e, n) \in Nat
      BY <1>5, <2>1, <3>2, CountIs
    <3>4. QED
      BY <3>3
  <2>3. QED
    BY <1>0, <2>2, OverCounted
<1>7. QED
  BY <1>4, <1>6
LEMMA CutDistinctOwners ==
  ASSUME NEW s \in States, NEW t, NEW n, Cut(s, t, n), CutGens(s, t, n),
         Distinct(s), Owners(s)
  PROVE  Distinct(t) /\ Owners(t)
<1>0. /\ Over(s, t, n) /\ ~ Extra(t, n) /\ n \in Nat /\ Depth(s) \in Nat
      /\ n + 1 \in 1 .. Depth(s) /\ n < Depth(s)
  BY CutOver
<1>1. ASSUME NEW g \in Gens
      PROVE  Taken(s, t, n, g, s.frames[n + 1].gen)
  BY <1>0 DEF CutGens, Taken
<1>2. Distinct(t)
  BY <1>0, <1>1, CutDistinct
<1>3. ASSUME NEW g \in Gens, t.gens[g].state = "running"
      PROVE  \E k \in 1 .. n : s.frames[k].gen = g
  <2>1. t.gens[g] = s.gens[g] /\ ~ \E k \in n + 1 .. Depth(s) : s.frames[k].gen = g
    BY <1>3 DEF CutGens
  <2>2. PICK k \in Nat : Runs(s, g, k)
    BY <1>3, <2>1 DEF Owners
  <2>3. k \in 1 .. Depth(s) /\ s.frames[k].gen = g
    BY <2>2 DEF Runs
  <2>4. k \in 1 .. n
    BY <1>0, <2>1, <2>3
  <2>5. QED
    BY <2>3, <2>4
<1>4. ASSUME NEW g \in Gens, NEW k \in 1 .. n, s.frames[k].gen = g
      PROVE  t.gens[g].state = "running"
  <2>1. k \in Nat /\ Runs(s, g, k)
    BY <1>0, <1>4 DEF Runs
  <2>2. s.gens[g].state = "running"
    BY <2>1 DEF Owners
  <2>3. ASSUME NEW j \in n + 1 .. Depth(s), s.frames[j].gen = g PROVE FALSE
    <3>1. j \in Nat /\ Runs(s, g, j) /\ j # k
      BY <1>0, <2>3 DEF Runs
    <3>2. QED
      BY <2>1, <3>1 DEF Owners
  <2>4. t.gens[g] = s.gens[g]
    BY <2>3 DEF CutGens
  <2>5. QED
    BY <2>2, <2>4
<1>5. Owners(t)
  BY <1>0, <1>3, <1>4, OverOwners
<1>6. QED
  BY <1>2, <1>5

LEMMA CutCore ==
  ASSUME NEW s, Core(s), NEW t, NEW n, Cut(s, t, n), CutGens(s, t, n)
  PROVE  Core(t)
<1>0. s \in States /\ t \in States
  BY DEF Core, Cut
<1>1. /\ Over(s, t, n) /\ ~ Extra(t, n) /\ Depth(t) = n /\ n < Depth(s)
      /\ n \in Nat /\ Depth(s) \in Nat
  BY <1>0, CutOver
<1>2. Shapes(t)
  <2>1. Shapes(s) /\ Depth(s) <= MaxFrames
    BY DEF Core, Shapes
  <2>2. Depth(t) <= MaxFrames
    BY <1>1, <2>1, BoundsAssumption
  <2>3. QED
    BY <1>1, <2>1, <2>2, OverShapes DEF CutGens
<1>3. Slots(t)
  BY <1>1, OverSlots DEF Core
<1>4. Rooted(t) /\ Fits(t) /\ Distinct(t) /\ Owners(t)
  BY <1>0, CutExecs, CutTraps, CutDistinctOwners DEF Core
<1>5. QED
  BY <1>0, <1>2, <1>3, <1>4 DEF Core

LEMMA InScopeIs ==
  ASSUME NEW t \in States, NEW v \in InScope(t)
  PROVE  \/ \E k \in 1 .. Depth(t), x \in Nat :
              x \in 1 .. Len(t.frames[k].vars) /\ t.frames[k].vars[x] = v
         \/ \E g \in Gens, x \in Nat :
              x \in 1 .. Len(t.gens[g].vars) /\ t.gens[g].vars[x] = v
<1>1. CASE \E k \in 1 .. Depth(t) : Holds(t.frames[k].vars, v)
  <2>1. PICK k \in 1 .. Depth(t) : Holds(t.frames[k].vars, v)
    BY <1>1
  <2>2. t.frames[k].vars \in Seq(Vars)
    BY DepthIs DEF FrameRec
  <2>3. PICK x \in DOMAIN t.frames[k].vars : t.frames[k].vars[x] = v
    BY <2>1 DEF Holds
  <2>4. x \in Nat /\ x \in 1 .. Len(t.frames[k].vars)
    BY <2>2
  <2>5. QED
    BY <2>3, <2>4
<1>2. CASE \E g \in Gens : Holds(t.gens[g].vars, v)
  <2>1. PICK g \in Gens : Holds(t.gens[g].vars, v)
    BY <1>2
  <2>2. t.gens[g].vars \in Seq(Vars)
    BY DEF States, GenRec
  <2>3. PICK x \in DOMAIN t.gens[g].vars : t.gens[g].vars[x] = v
    BY <2>1 DEF Holds
  <2>4. x \in Nat /\ x \in 1 .. Len(t.gens[g].vars)
    BY <2>2
  <2>5. QED
    BY <2>3, <2>4
<1>3. QED
  BY <1>1, <1>2 DEF InScope

\* What is in scope is so by a place in a frame or in a generator.
LEMMA InScopeHas ==
  ASSUME NEW s \in States
  PROVE  /\ \A k \in 1 .. Depth(s) : \A x \in 1 .. Len(s.frames[k].vars) :
              s.frames[k].vars[x] \in InScope(s)
         /\ \A g \in Gens : \A x \in 1 .. Len(s.gens[g].vars) :
              s.gens[g].vars[x] \in InScope(s)
<1>1. ASSUME NEW k \in 1 .. Depth(s), NEW x \in 1 .. Len(s.frames[k].vars)
      PROVE  s.frames[k].vars[x] \in InScope(s)
  <2>1. s.frames[k].vars \in Seq(Vars) /\ x \in DOMAIN s.frames[k].vars
    BY DepthIs DEF FrameRec
  <2>2. QED
    BY <2>1 DEF InScope, Holds
<1>2. ASSUME NEW g \in Gens, NEW x \in 1 .. Len(s.gens[g].vars)
      PROVE  s.gens[g].vars[x] \in InScope(s)
  <2>1. s.gens[g].vars \in Seq(Vars) /\ x \in DOMAIN s.gens[g].vars
    BY DEF States, GenRec
  <2>2. QED
    BY <2>1 DEF InScope, Holds
<1>3. QED
  BY <1>1, <1>2

\* Frames that are left bring nothing into scope.
LEMMA CutScope ==
  ASSUME NEW s \in States, NEW t, NEW n, Cut(s, t, n), CutGens(s, t, n)
  PROVE  InScope(t) \subseteq InScope(s)
<1>0. t \in States
  BY DEF Cut
<1>1. /\ n + 1 \in 1 .. Depth(s) /\ Depth(t) = n
      /\ \A k \in 1 .. n : k \in 1 .. Depth(s) /\ t.frames[k] = s.frames[k]
  BY CutOver, OverIs
<1> SUFFICES ASSUME NEW v \in InScope(t) PROVE v \in InScope(s)
  OBVIOUS
<1>2. ASSUME NEW k \in 1 .. Depth(t), NEW x \in 1 .. Len(t.frames[k].vars)
      PROVE  t.frames[k].vars[x] \in InScope(s)
  BY <1>1, InScopeHas
<1>3. ASSUME NEW g \in Gens, NEW x \in 1 .. Len(t.gens[g].vars)
      PROVE  t.gens[g].vars[x] \in InScope(s)
  <2>1. CASE t.gens[g] = s.gens[g]
    BY <2>1, InScopeHas
  <2>2. CASE t.gens[g].vars = <<>>
    BY <2>2
  <2>3. CASE t.gens[g].vars = s.frames[n + 1].vars
    BY <1>1, <2>3, InScopeHas
  <2>4. QED
    BY <2>1, <2>2, <2>3 DEF CutGens
<1>4. QED
  BY <1>0, <1>2, <1>3, InScopeIs

\* A variable in scope keeps the outer that it has when frames are left, unless
\* a generator takes its locals along.
LEMMA CutShared ==
  ASSUME NEW s, Core(s), Outers(s), NEW t, NEW n, Cut(s, t, n), CutGens(s, t, n),
         NEW o \in s.open, o \notin t.open, o.var \in InScope(t)
  PROVE  /\ n + 1 = Depth(s)
         /\ \E g \in Gens, x \in Nat : /\ x \in 1 .. Len(s.frames[n + 1].vars)
                                       /\ s.frames[n + 1].vars[x] = o.var
                                       /\ t.gens[g].vars = s.frames[n + 1].vars
<1>0. s \in States /\ t \in States /\ Distinct(s) /\ Slots(s)
  BY DEF Core, Cut
<1>1. /\ n \in Nat /\ Depth(s) \in Nat /\ n + 1 \in 1 .. Depth(s) /\ Depth(t) = n
      /\ \A k \in 1 .. n : k \in 1 .. Depth(s) /\ t.frames[k] = s.frames[k]
  BY <1>0, CutOver, OverIs
<1>2. o.pos >= s.frames[n + 1].base
  <2>1. o.pos \in Nat /\ s.frames[n + 1].base \in Nat
    BY <1>0, <1>1, StateIs, DepthIs, FrameIs
  <2>2. ~ (o.pos < s.frames[n + 1].base)
    BY DEF Cut, Lower
  <2>3. QED
    BY <2>1, <2>2
<1>3. o \notin s.stray
  <2>1. o.var \in InScope(s)
    BY <1>0, CutScope
  <2>2. QED
    BY <2>1 DEF Outers
<1>4. PICK k \in 1 .. Depth(s), i \in Nat :
        OuterIn(s.frames[k], o, i) /\ k >= n + 1
  BY <1>0, <1>1, <1>2, <1>3, OuterPlace
<1>5. i \in 1 .. Len(s.frames[k].vars) /\ s.frames[k].vars[i] = o.var
  BY <1>4 DEF OuterIn
<1>6. ASSUME NEW j \in 1 .. Depth(t), NEW x \in Nat,
             x \in 1 .. Len(t.frames[j].vars), t.frames[j].vars[x] = o.var
      PROVE  FALSE
  <2>1. j \in 1 .. Depth(s) /\ t.frames[j] = s.frames[j] /\ j # k
    BY <1>1, <1>4
  <2>2. Apart(s.frames[j].vars, s.frames[k].vars)
    BY <1>0, <2>1, BelowDistinct
  <2>3. QED
    BY <1>5, <1>6, <2>1, <2>2 DEF Apart
<1>7. PICK g \in Gens, x \in Nat : x \in 1 .. Len(t.gens[g].vars) /\ t.gens[g].vars[x] = o.var
  <2>1. \/ \E k1 \in 1 .. Depth(t), x \in Nat :
              x \in 1 .. Len(t.frames[k1].vars) /\ t.frames[k1].vars[x] = o.var
        \/ \E g \in Gens, x \in Nat :
              x \in 1 .. Len(t.gens[g].vars) /\ t.gens[g].vars[x] = o.var
    BY <1>0, InScopeIs
  <2>2. QED
    BY ONLY <1>6, <2>1
<1>8. t.gens[g] # s.gens[g]
  <2>1. Apart(s.frames[k].vars, s.gens[g].vars)
    BY <1>0, BelowDistinct
  <2>2. QED
    BY <1>5, <1>7, <2>1 DEF Apart
<1>9. t.gens[g].vars # <<>>
  BY <1>7
<1>10. n + 1 = Depth(s) /\ t.gens[g].vars = s.frames[n + 1].vars
  BY <1>8, <1>9 DEF CutGens
<1>11. QED
  BY <1>7, <1>10

\* No generator takes locals along.
CutKills(s, t, n) ==
  \A g \in Gens : (\E k \in n + 1 .. Depth(s) : s.frames[k].gen = g) => t.gens[g].vars = <<>>

LEMMA CutShares ==
  ASSUME NEW s, Core(s), Outers(s), NEW t, NEW n, Cut(s, t, n), CutGens(s, t, n),
         CutKills(s, t, n)
  PROVE  Shares(s, t)
<1>0. s \in States /\ Distinct(s)
  BY DEF Core
<1> SUFFICES ASSUME NEW o \in s.open, o.var \in InScope(t)
             PROVE  o.var \in InScope(s) /\ o \in t.open
  BY DEF Shares
<1>1. o.var \in InScope(s)
  BY <1>0, CutScope
<1>2. ASSUME o \notin t.open PROVE FALSE
  <2>1. PICK g \in Gens, x \in Nat : /\ n + 1 = Depth(s)
                                     /\ x \in 1 .. Len(s.frames[n + 1].vars)
                                     /\ s.frames[n + 1].vars[x] = o.var
                                     /\ t.gens[g].vars = s.frames[n + 1].vars
    BY <1>2, CutShared
  <2>2. t.gens[g].vars # <<>>
    BY <2>1
  <2>3. t.gens[g] = s.gens[g]
    BY <2>2 DEF CutGens, CutKills
  <2>4. n + 1 \in 1 .. Depth(s)
    BY <1>0, CutOver
  <2>5. Apart(s.frames[n + 1].vars, s.gens[g].vars)
    BY <1>0, <2>4, BelowDistinct
  <2>6. QED
    BY <2>1, <2>3, <2>5 DEF Apart
<1>3. QED
  BY <1>1, <1>2

LEMMA CutGood ==
  ASSUME NEW s, Good(s), NEW t, NEW n, Cut(s, t, n), CutGens(s, t, n)
  PROVE  Good(t)
<1>0. Core(s) /\ Outers(s) /\ s \in States /\ Slots(s) /\ Rooted(s)
  BY DEF Good, Core
<1>1. Core(t)
  BY <1>0, CutCore
<1>2. ~ TryInForeach => TrapsCounted(t)
  BY <1>0, CutExecs DEF Good
<1>3. ASSUME NEW o \in t.open \ t.stray
      PROVE  \E k \in 1 .. Depth(t), i \in Nat : OuterIn(t.frames[k], o, i)
  <2>1. o \in s.open \ s.stray /\ o.pos < s.frames[n + 1].base
    BY <1>3 DEF Cut, Lower
  <2>2. /\ n \in Nat /\ n + 1 \in 1 .. Depth(s) /\ Depth(t) = n
        /\ \A k \in 1 .. n : t.frames[k] = s.frames[k]
    BY <1>0, CutOver, OverIs
  <2>3. PICK k \in 1 .. Depth(s), i \in Nat :
          OuterIn(s.frames[k], o, i) /\ k < n + 1
    BY <1>0, <2>1, <2>2, OuterPlace
  <2>4. k \in 1 .. Depth(t)
    BY <1>0, <2>2, <2>3, DepthIs
  <2>5. QED
    BY <2>2, <2>3, <2>4
<1>4. ASSUME NEW o \in t.stray PROVE o.var \notin InScope(t)
  <2>1. o \in s.stray
    BY DEF Cut, Lower
  <2>2. QED
    BY <1>0, <2>1, CutScope DEF Outers
<1>5. QED
  BY <1>1, <1>2, <1>3, <1>4 DEF Good, Outers
----------------------------------------------------------------------------
(* The running function goes on *)

\* The frame f takes the place of the top frame.
Changes(s, t, f) ==
  /\ Depth(s) > 0 /\ f \in FrameRec /\ t \in States
  /\ t.frames = [s.frames EXCEPT ![Depth(s)] = f]
  /\ t.gens = s.gens
  /\ f.base = ci(s).base /\ f.gen = ci(s).gen /\ f.root = ci(s).root
  /\ FrameOK(f) /\ Within(s, f.vars, ci(s).vars)

\* The traps below the top frame, and those of the frame f above them
LowerTraps(s) == Below(s, Depth(s) - 1)
TopTraps(s, t, f) == [j \in 1 .. f.etraps |-> t.etraps[LowerTraps(s) + j]]

ChangesTraps(s, t, f) ==
  /\ \A j \in 1 .. LowerTraps(s) : t.etraps[j] = s.etraps[j]
  /\ Len(t.etraps) = LowerTraps(s) + f.etraps
  /\ TrapsFit(TopTraps(s, t, f), f.scopes, f.base)
  /\ Len(t.execs) = Len(s.execs)
  /\ \A e \in 1 .. Len(s.execs) :
       t.execs[e] = s.execs[e] +
                      (IF e = Len(s.execs) THEN f.etraps - ci(s).etraps ELSE 0)

\* The outers of a frame that goes on belong to its locals; those that are left
\* open belong to locals that are not.
ChangesOpen(s, t, f) ==
  /\ \A o \in t.open \ t.stray :
       \/ \E i \in Nat : OuterIn(f, o, i)
       \/ /\ o \in s.open \ s.stray
          /\ \A i \in Nat : OuterIn(ci(s), o, i) => OuterIn(f, o, i)
  /\ \A o \in t.stray : o \in s.stray \/
       /\ o \in s.open \ s.stray
       /\ \E i \in Nat : OuterIn(ci(s), o, i)
       /\ \A x \in 1 .. Len(f.vars) : f.vars[x] # o.var

\* Those that are closed belong to locals that are not in scope any more.
ChangesClosed(s, t, f) ==
  \A o \in s.open : o \notin t.open =>
    /\ o.pos >= f.base
    /\ \A i \in Nat, x \in Nat : OuterIn(ci(s), o, i) /\ x \in 1 .. Len(f.vars) =>
         f.vars[x] # o.var

LEMMA ChangesOver ==
  ASSUME NEW s \in States, NEW t, NEW f, Changes(s, t, f)
  PROVE  \E n \in Nat :
           /\ n + 1 = Depth(s) /\ n = Depth(s) - 1 /\ n + 1 \in 1 .. Depth(s)
           /\ Depth(t) = n + 1
           /\ Over(s, t, n) /\ Extra(t, n) /\ NewFrame(t, n) = f
           /\ ci(s) = s.frames[n + 1] /\ s.frames[n + 1] \in FrameRec
<1>0. Depth(s) \in Nat /\ Depth(s) = Len(s.frames) /\ Depth(s) > 0
      /\ s.frames \in Seq(FrameRec)
  BY DepthIs, StateIs DEF Changes
<1> PICK n \in Nat : n + 1 = Depth(s) /\ n = Depth(s) - 1
  <2>1. Depth(s) - 1 \in Nat /\ (Depth(s) - 1) + 1 = Depth(s)
    BY ONLY <1>0
  <2>2. QED
    BY <2>1
<1>1. n + 1 \in 1 .. Depth(s) /\ n \in 0 .. Depth(s)
  BY <1>0
<1>2. /\ Len(t.frames) = n + 1 /\ t.frames[n + 1] = f
      /\ \A k \in 1 .. n : t.frames[k] = s.frames[k]
  BY <1>0, <1>1 DEF Changes
<1>3. t \in States /\ Depth(t) = n + 1
  BY <1>2 DEF Changes, Depth
<1>4. Over(s, t, n)
  BY <1>1, <1>2, <1>3 DEF Over
<1>5. ci(s) = s.frames[n + 1] /\ s.frames[n + 1] \in FrameRec
  BY <1>0, <1>1 DEF ci
<1>6. QED
  BY <1>1, <1>2, <1>3, <1>4, <1>5 DEF Extra, NewFrame

LEMMA ChangesCore ==
  ASSUME NEW s, Core(s), NEW t, NEW f, Changes(s, t, f), ChangesTraps(s, t, f)
  PROVE  Core(t) /\ (TrapsCounted(s) => TrapsCounted(t))
<1>0. s \in States /\ t \in States /\ Shapes(s) /\ Slots(s) /\ Rooted(s) /\ Owners(s)
      /\ Fits(s) /\ Distinct(s)
  BY DEF Core, Changes
<1>1. PICK n \in Nat :
        /\ n + 1 = Depth(s) /\ n = Depth(s) - 1 /\ n + 1 \in 1 .. Depth(s)
        /\ Depth(t) = n + 1
        /\ Over(s, t, n) /\ Extra(t, n) /\ NewFrame(t, n) = f
        /\ ci(s) = s.frames[n + 1] /\ s.frames[n + 1] \in FrameRec
  BY <1>0, ChangesOver
<1>2. /\ f.base = s.frames[n + 1].base /\ f.gen = s.frames[n + 1].gen
      /\ f.root = s.frames[n + 1].root /\ t.gens = s.gens
      /\ FrameOK(f) /\ Within(s, f.vars, s.frames[n + 1].vars)
  BY <1>1 DEF Changes
<1>3. Shapes(t)
  <2>1. Depth(t) <= MaxFrames /\ \A g \in Gens : GenOK(t.gens[g])
    BY <1>0, <1>1, <1>2 DEF Shapes
  <2>2. QED
    BY <1>0, <1>1, <1>2, <2>1, OverShapes
<1>4. Slots(t)
  <2>1. \A j \in 1 .. n : s.frames[j].base + Len(s.frames[j].vars) <= f.base
    <3>1. \A j \in 1 .. n : j \in 1 .. Depth(s) /\ j < n + 1
      BY <1>1
    <3>2. QED
      BY <1>0, <1>1, <1>2, <3>1 DEF Slots
  <2>2. QED
    BY <1>0, <1>1, <2>1, OverSlots
<1>5. Rooted(t) /\ ExecOf(t, n + 1) = Len(s.execs) /\ ExecOf(s, n + 1) = Len(s.execs)
  <2>1. ExecOf(s, n + 1) = ExecOf(s, n) + (IF f.root THEN 1 ELSE 0)
    <3>1. n + 1 \in Nat \ {0} /\ (n + 1) - 1 = n
      BY <1>1
    <3>2. QED
      BY <1>2, <3>1, ExecNext
  <2>2. Len(t.execs) = Len(s.execs) /\ ExecOf(s, n + 1) = Len(s.execs)
    BY <1>0, <1>1 DEF ChangesTraps, Rooted
  <2>3. ASSUME n = 0 PROVE f.root
    <3>1. n + 1 = 1 /\ Depth(s) > 0
      BY <1>1, <2>3
    <3>2. s.frames[1].root
      BY <1>0, <3>1 DEF Rooted
    <3>3. QED
      BY <1>2, <3>1, <3>2
  <2>4. Rooted(t)
    BY <1>0, <1>1, <2>1, <2>2, <2>3, OverRooted
  <2>5. QED
    BY <1>1, <2>2, <2>4 DEF Rooted
<1>6. Owners(t)
  <2>1. ASSUME NEW g \in Gens, t.gens[g].state = "running"
        PROVE  (\E k \in 1 .. n : s.frames[k].gen = g) \/ f.gen = g
    <3>1. PICK k \in Nat : Runs(s, g, k)
      BY <1>0, <1>2, <2>1 DEF Owners
    <3>2. k \in 1 .. n \/ k = n + 1
      BY <1>1, <3>1 DEF Runs
    <3>3. QED
      BY <1>2, <3>1, <3>2 DEF Runs
  <2>2. Runs(s, f.gen, n + 1) /\ n + 1 \in Nat
    BY <1>1, <1>2 DEF Runs
  <2>3. ASSUME NEW g \in Gens, NEW k \in 1 .. n, s.frames[k].gen = g
        PROVE  t.gens[g].state = "running" /\ f.gen # g
    <3>1. k \in Nat /\ k # n + 1 /\ Runs(s, g, k)
      BY <1>1, <2>3 DEF Runs
    <3>2. QED
      BY <1>0, <1>2, <2>2, <3>1 DEF Owners
  <2>4. \A g \in Gens : f.gen = g => t.gens[g].state = "running"
    BY <1>0, <1>2, <2>2 DEF Owners
  <2>5. QED
    BY <1>0, <1>1, <2>1, <2>3, <2>4, OverOwners
<1>7. LowerTraps(s) = Below(s, n)
  BY <1>1 DEF LowerTraps
<1>8. Fits(t)
  <2>1. NewTraps(s, t, n) = TopTraps(s, t, f)
    BY <1>1, <1>7 DEF NewTraps, TopTraps
  <2>2. /\ \A j \in 1 .. Below(s, n) : t.etraps[j] = s.etraps[j]
        /\ Len(t.etraps) = Below(s, n) + f.etraps
        /\ TrapsFit(TopTraps(s, t, f), f.scopes, f.base)
    BY <1>7 DEF ChangesTraps
  <2>3. QED
    BY ONLY <1>0, <1>1, <2>1, <2>2, OverFits
<1>9. Distinct(t)
  BY <1>0, <1>1, <1>2, TopDistinct
<1>10. TrapsCounted(s) => TrapsCounted(t)
  <2> SUFFICES ASSUME TrapsCounted(s) PROVE TrapsCounted(t)
    OBVIOUS
  <2>1. ASSUME NEW e \in 1 .. Len(t.execs)
        PROVE  t.execs[e] = Counted(s, e, n) +
                              (IF ExecOf(t, n + 1) = e THEN f.etraps ELSE 0)
    <3>1. e \in 1 .. Len(s.execs)
          /\ t.execs[e] = s.execs[e] +
               (IF e = Len(s.execs) THEN f.etraps - s.frames[n + 1].etraps ELSE 0)
      BY <1>1 DEF ChangesTraps
    <3>2. /\ Counted(s, e, n) \in Nat
          /\ s.execs[e] = Counted(s, e, n) +
               (IF ExecOf(s, n + 1) = e THEN s.frames[n + 1].etraps ELSE 0)
      <4>1. \A k \in (n + 1) + 1 .. Depth(s) : ExecOf(s, k) = e => s.frames[k].etraps = 0
        BY <1>1
      <4>2. (n + 1) - 1 = n
        BY <1>1
      <4>3. /\ Counted(s, e, (n + 1) - 1) \in Nat
            /\ s.execs[e] = Counted(s, e, (n + 1) - 1) +
                 (IF ExecOf(s, n + 1) = e THEN s.frames[n + 1].etraps ELSE 0)
        BY <1>0, <1>1, <3>1, <4>1, CountBelow
      <4>4. QED
        BY <4>2, <4>3
    <3>3. s.frames[n + 1].etraps \in Nat /\ f.etraps \in Nat
      BY <1>1, FrameIs DEF Changes
    <3>4. QED
      BY ONLY <1>5, <3>1, <3>2, <3>3
  <2>2. QED
    BY <1>1, <2>1, OverCounted
<1>11. QED
  BY <1>0, <1>3, <1>4, <1>5, <1>6, <1>8, <1>9, <1>10 DEF Core

\* A step of the running function brings only new variables into scope.
LEMMA ChangesScope ==
  ASSUME NEW s \in States, NEW t, NEW f, Changes(s, t, f), NEW v \in InScope(t)
  PROVE  v \in InScope(s) \/ v \in Fresh(s)
<1>1. PICK n \in Nat :
        /\ n + 1 = Depth(s) /\ n = Depth(s) - 1 /\ n + 1 \in 1 .. Depth(s)
        /\ Depth(t) = n + 1
        /\ Over(s, t, n) /\ Extra(t, n) /\ NewFrame(t, n) = f
        /\ ci(s) = s.frames[n + 1] /\ s.frames[n + 1] \in FrameRec
  BY ChangesOver
<1>2. /\ t.frames[n + 1] = f /\ t \in States
      /\ \A k \in 1 .. n : t.frames[k] = s.frames[k] /\ k \in 1 .. Depth(s)
      /\ \A k \in 1 .. Depth(t) : k \in 1 .. n \/ k = n + 1
  BY <1>1, OverIs DEF NewFrame
<1>3. ASSUME NEW x \in 1 .. Len(f.vars)
      PROVE  f.vars[x] \in InScope(s) \/ f.vars[x] \in Fresh(s)
  <2>1. f.vars[x] \in Fresh(s) \/ \E y \in 1 .. Len(ci(s).vars) : f.vars[x] = ci(s).vars[y]
    BY DEF Changes, Within
  <2>2. \A y \in 1 .. Len(ci(s).vars) : ci(s).vars[y] \in InScope(s)
    BY <1>1, InScopeHas
  <2>3. QED
    BY <2>1, <2>2
<1>4. \A k \in 1 .. n : \A x \in 1 .. Len(t.frames[k].vars) : t.frames[k].vars[x] \in InScope(s)
  BY <1>2, InScopeHas
<1>5. \A g \in Gens : \A x \in 1 .. Len(t.gens[g].vars) : t.gens[g].vars[x] \in InScope(s)
  BY InScopeHas DEF Changes
<1>6. \/ \E k \in 1 .. Depth(t), x \in Nat :
           x \in 1 .. Len(t.frames[k].vars) /\ t.frames[k].vars[x] = v
      \/ \E g \in Gens, x \in Nat :
           x \in 1 .. Len(t.gens[g].vars) /\ t.gens[g].vars[x] = v
  BY <1>2, InScopeIs
<1>7. QED
  BY <1>2, <1>3, <1>4, <1>5, <1>6

\* A local that the running function does not have any more is nowhere in scope.
LEMMA ChangesGone ==
  ASSUME NEW s, Core(s), NEW t, NEW f, Changes(s, t, f),
         NEW i \in 1 .. Len(ci(s).vars), NEW v, v = ci(s).vars[i],
         \A x \in 1 .. Len(f.vars) : f.vars[x] # v
  PROVE  v \notin InScope(t)
<1>0. s \in States /\ Distinct(s)
  BY DEF Core
<1>1. PICK n \in Nat :
        /\ n + 1 = Depth(s) /\ n = Depth(s) - 1 /\ n + 1 \in 1 .. Depth(s)
        /\ Depth(t) = n + 1
        /\ Over(s, t, n) /\ Extra(t, n) /\ NewFrame(t, n) = f
        /\ ci(s) = s.frames[n + 1] /\ s.frames[n + 1] \in FrameRec
  BY <1>0, ChangesOver
<1>2. /\ t.frames[n + 1] = f /\ t \in States
      /\ \A k \in 1 .. n : t.frames[k] = s.frames[k] /\ k \in 1 .. Depth(s) /\ k # n + 1
      /\ \A k \in 1 .. Depth(t) : k \in 1 .. n \/ k = n + 1
  BY <1>1, OverIs DEF NewFrame
<1>3. ASSUME NEW j \in 1 .. Depth(t), NEW x \in Nat,
             x \in 1 .. Len(t.frames[j].vars), t.frames[j].vars[x] = v
      PROVE  FALSE
  <2>1. CASE j \in 1 .. n
    <3>1. Apart(s.frames[j].vars, s.frames[n + 1].vars)
      BY <1>0, <1>1, <1>2, <2>1, BelowDistinct
    <3>2. s.frames[j].vars[x] = v /\ x \in 1 .. Len(s.frames[j].vars)
      BY ONLY <1>2, <1>3, <2>1
    <3>3. s.frames[n + 1].vars[i] = v /\ i \in 1 .. Len(s.frames[n + 1].vars)
      BY <1>1
    <3>4. QED
      BY ONLY <3>1, <3>2, <3>3 DEF Apart
  <2>2. CASE j = n + 1
    BY <1>2, <1>3, <2>2
  <2>3. QED
    BY <1>2, <2>1, <2>2
<1>4. ASSUME NEW g \in Gens, NEW x \in Nat,
             x \in 1 .. Len(t.gens[g].vars), t.gens[g].vars[x] = v
      PROVE  FALSE
  <2>1. t.gens[g] = s.gens[g]
    BY DEF Changes
  <2>2. Apart(s.frames[n + 1].vars, s.gens[g].vars)
    BY <1>0, <1>1, BelowDistinct
  <2>3. QED
    BY <1>1, <1>4, <2>1, <2>2 DEF Apart
<1>5. v \in InScope(t) =>
        \/ \E j \in 1 .. Depth(t), x \in Nat :
              x \in 1 .. Len(t.frames[j].vars) /\ t.frames[j].vars[x] = v
        \/ \E g \in Gens, x \in Nat :
              x \in 1 .. Len(t.gens[g].vars) /\ t.gens[g].vars[x] = v
  BY <1>2, InScopeIs
<1>6. QED
  BY ONLY <1>3, <1>4, <1>5

LEMMA ChangesGood ==
  ASSUME NEW s, Good(s), NEW t, NEW f, Changes(s, t, f), ChangesTraps(s, t, f),
         ChangesOpen(s, t, f)
  PROVE  Good(t)
<1>0. Core(s) /\ Outers(s) /\ s \in States /\ Slots(s) /\ Distinct(s)
  BY DEF Good, Core
<1>1. Core(t)
  BY <1>0, ChangesCore
<1>2. ~ TryInForeach => TrapsCounted(t)
  BY <1>0, ChangesCore DEF Good
<1>3. PICK n \in Nat :
        /\ n + 1 = Depth(s) /\ n = Depth(s) - 1 /\ n + 1 \in 1 .. Depth(s)
        /\ Depth(t) = n + 1
        /\ Over(s, t, n) /\ Extra(t, n) /\ NewFrame(t, n) = f
        /\ ci(s) = s.frames[n + 1] /\ s.frames[n + 1] \in FrameRec
  BY <1>0, ChangesOver
<1>4. /\ t.frames[n + 1] = f /\ n + 1 \in 1 .. Depth(t)
      /\ \A k \in 1 .. n : t.frames[k] = s.frames[k] /\ k \in 1 .. Depth(t)
                           /\ k \in 1 .. Depth(s)
      /\ \A k \in 1 .. Depth(s) : k \in 1 .. n \/ k = n + 1
      /\ \A k \in 1 .. Depth(t) : k \in 1 .. n \/ k = n + 1
  BY <1>3, OverIs DEF NewFrame
<1>5. ASSUME NEW o \in t.open \ t.stray
      PROVE  \E k \in 1 .. Depth(t), i \in Nat : OuterIn(t.frames[k], o, i)
  <2>1. CASE \E i \in Nat : OuterIn(f, o, i)
    BY <1>4, <2>1
  <2>2. CASE o \in s.open \ s.stray /\ \A i \in Nat : OuterIn(ci(s), o, i) => OuterIn(f, o, i)
    <3>1. PICK k \in 1 .. Depth(s), i \in Nat : OuterIn(s.frames[k], o, i)
      BY <1>0, <2>2 DEF Outers
    <3>2. CASE k \in 1 .. n
      BY <1>4, <3>1, <3>2
    <3>3. CASE k = n + 1
      BY <1>3, <1>4, <2>2, <3>1, <3>3
    <3>4. QED
      BY <1>4, <3>2, <3>3
  <2>3. QED
    BY <1>5, <2>1, <2>2 DEF ChangesOpen
<1>6. ASSUME NEW o \in t.stray PROVE o.var \notin InScope(t)
  <2>1. CASE o \in s.stray
    <3>1. o.var \notin InScope(s) /\ o \in s.open
      BY <1>0, <2>1, StateIs DEF Outers
    <3>2. o.var \notin Fresh(s)
      BY <1>0, <3>1, FreshIs
    <3>3. QED
      BY <1>0, <3>1, <3>2, ChangesScope
  <2>2. CASE /\ \E i \in Nat : OuterIn(ci(s), o, i)
             /\ \A x \in 1 .. Len(f.vars) : f.vars[x] # o.var
    <3>1. PICK i \in Nat : i \in 1 .. Len(ci(s).vars) /\ ci(s).vars[i] = o.var
      BY <2>2 DEF OuterIn
    <3>2. QED
      BY <1>0, <2>2, <3>1, ChangesGone
  <2>3. QED
    BY <2>1, <2>2 DEF ChangesOpen
<1>7. QED
  BY <1>1, <1>2, <1>5, <1>6 DEF Good, Outers

\* An outer that is closed, of a variable that stays in scope, is one of the
\* running function, and the variable is one of its locals.
LEMMA ChangesShared ==
  ASSUME NEW s, Core(s), Outers(s), NEW t, NEW f, Changes(s, t, f),
         NEW o \in s.open, o.pos >= f.base, o.var \in InScope(t)
  PROVE  /\ o.var \in InScope(s)
         /\ \E i, x \in Nat : OuterIn(ci(s), o, i) /\ x \in 1 .. Len(f.vars) /\ f.vars[x] = o.var
<1>0. s \in States /\ Slots(s)
  BY DEF Core
<1>1. o.var \in InScope(s)
  <2>1. o.var \notin Fresh(s)
    BY <1>0, FreshIs
  <2>2. QED
    BY <1>0, <2>1, ChangesScope
<1>2. o \in s.open \ s.stray
  BY <1>1 DEF Outers
<1>3. PICK n \in Nat : n + 1 = Depth(s) /\ n + 1 \in 1 .. Depth(s) /\ ci(s) = s.frames[n + 1]
  BY <1>0, ChangesOver
<1>4. PICK k \in 1 .. Depth(s), i \in Nat : OuterIn(s.frames[k], o, i) /\ k >= n + 1
  <2>1. o.pos >= s.frames[n + 1].base
    BY <1>3 DEF Changes
  <2>2. QED
    BY <1>0, <1>2, <1>3, <2>1, OuterPlace
<1>5. OuterIn(ci(s), o, i)
  BY <1>3, <1>4
<1>6. ASSUME \A x \in 1 .. Len(f.vars) : f.vars[x] # o.var PROVE FALSE
  <2>1. i \in 1 .. Len(ci(s).vars) /\ ci(s).vars[i] = o.var
    BY <1>5 DEF OuterIn
  <2>2. QED
    BY <1>6, <2>1, ChangesGone
<1>7. PICK x \in 1 .. Len(f.vars) : f.vars[x] = o.var
  BY <1>6
<1>8. QED
  BY <1>1, <1>5, <1>7

LEMMA ChangesShares ==
  ASSUME NEW s, Core(s), Outers(s), NEW t, NEW f, Changes(s, t, f), ChangesClosed(s, t, f)
  PROVE  Shares(s, t)
<1>0. s \in States
  BY DEF Core
<1> SUFFICES ASSUME NEW o \in s.open, o.var \in InScope(t)
             PROVE  o.var \in InScope(s) /\ o \in t.open
  BY DEF Shares
<1>1. o.var \in InScope(s)
  <2>1. o.var \notin Fresh(s)
    BY <1>0, FreshIs
  <2>2. QED
    BY <1>0, <2>1, ChangesScope
<1>2. ASSUME o \notin t.open PROVE FALSE
  <2>1. o.pos >= f.base
    BY <1>2 DEF ChangesClosed
  <2>2. PICK i, x \in Nat : OuterIn(ci(s), o, i) /\ x \in 1 .. Len(f.vars) /\ f.vars[x] = o.var
    BY <2>1, ChangesShared
  <2>3. QED
    BY <1>2, <2>2 DEF ChangesClosed
<1>3. QED
  BY <1>1, <1>2
----------------------------------------------------------------------------
(* A function is called *)

\* The frame f is entered; it runs generator h if that is one.
Pushes(s, t, f, h) ==
  /\ Depth(s) < MaxFrames /\ f \in FrameRec /\ t \in States
  /\ t.frames = Append(s.frames, f)
  /\ FrameOK(f)
  /\ Depth(s) > 0 => ci(s).base + Len(ci(s).vars) <= f.base
  /\ Depth(s) = 0 => f.root
  /\ \A g \in Gens : g # h => t.gens[g] = s.gens[g]
  /\ h \notin Gens => f.gen \notin Gens /\ f.vars = <<>>
  /\ h \in Gens =>
       /\ f.gen = h /\ s.gens[h].state # "running" /\ f.vars = s.gens[h].vars
       /\ t.gens[h].state = "running" /\ t.gens[h].vars = <<>> /\ GenOK(t.gens[h])
  /\ t.open = s.open /\ t.stray = s.stray

PushedTraps(s, t, f) == [j \in 1 .. f.etraps |-> t.etraps[Len(s.etraps) + j]]

PushesTraps(s, t, f) ==
  /\ \A j \in 1 .. Len(s.etraps) : t.etraps[j] = s.etraps[j]
  /\ Len(t.etraps) = Len(s.etraps) + f.etraps
  /\ TrapsFit(PushedTraps(s, t, f), f.scopes, f.base)
  /\ Len(t.execs) = Len(s.execs) + (IF f.root THEN 1 ELSE 0)
  /\ ~ TryInForeach =>
       \A e \in 1 .. Len(t.execs) :
         t.execs[e] = (IF e <= Len(s.execs) THEN s.execs[e] ELSE 0) +
                        (IF e = Len(t.execs) THEN f.etraps ELSE 0)

LEMMA PushesOver ==
  ASSUME NEW s \in States, NEW t, NEW f, NEW h, Pushes(s, t, f, h)
  PROVE  \E n \in Nat :
           /\ n = Depth(s) /\ Depth(t) = n + 1
           /\ Over(s, t, n) /\ Extra(t, n) /\ NewFrame(t, n) = f
<1> PICK n \in Nat : n = Depth(s)
  BY DepthIs
<1>0. n = Len(s.frames) /\ s.frames \in Seq(FrameRec)
  BY DepthIs, StateIs
<1>1. /\ Len(t.frames) = n + 1 /\ t.frames[n + 1] = f
      /\ \A k \in 1 .. n : t.frames[k] = s.frames[k]
  BY <1>0 DEF Pushes
<1>2. t \in States /\ Depth(t) = n + 1
  BY <1>1 DEF Pushes, Depth
<1>3. Over(s, t, n)
  BY <1>1, <1>2 DEF Over
<1>4. QED
  BY <1>1, <1>2, <1>3 DEF Extra, NewFrame

\* A call brings nothing into scope.
LEMMA PushesScope ==
  ASSUME NEW s \in States, NEW t, NEW f, NEW h, Pushes(s, t, f, h)
  PROVE  InScope(t) \subseteq InScope(s)
<1>1. PICK n \in Nat :
        /\ n = Depth(s) /\ Depth(t) = n + 1
        /\ Over(s, t, n) /\ Extra(t, n) /\ NewFrame(t, n) = f
  BY PushesOver
<1>2. /\ t.frames[n + 1] = f /\ t \in States
      /\ \A k \in 1 .. n : t.frames[k] = s.frames[k] /\ k \in 1 .. Depth(s)
      /\ \A k \in 1 .. Depth(t) : k \in 1 .. n \/ k = n + 1
  BY <1>1, OverIs DEF NewFrame
<1> SUFFICES ASSUME NEW v \in InScope(t) PROVE v \in InScope(s)
  OBVIOUS
<1>3. ASSUME NEW x \in 1 .. Len(f.vars) PROVE f.vars[x] \in InScope(s)
  <2>1. CASE h \in Gens
    BY <2>1, InScopeHas DEF Pushes
  <2>2. CASE h \notin Gens
    BY <2>2 DEF Pushes
  <2>3. QED
    BY <2>1, <2>2
<1>4. \A k \in 1 .. n : \A x \in 1 .. Len(t.frames[k].vars) : t.frames[k].vars[x] \in InScope(s)
  BY <1>2, InScopeHas
<1>5. ASSUME NEW g \in Gens, NEW x \in 1 .. Len(t.gens[g].vars)
      PROVE  t.gens[g].vars[x] \in InScope(s)
  <2>1. CASE g = h
    BY <2>1 DEF Pushes
  <2>2. CASE g # h
    BY <2>2, InScopeHas DEF Pushes
  <2>3. QED
    BY <2>1, <2>2
<1>6. \/ \E k \in 1 .. Depth(t), x \in Nat :
           x \in 1 .. Len(t.frames[k].vars) /\ t.frames[k].vars[x] = v
      \/ \E g \in Gens, x \in Nat :
           x \in 1 .. Len(t.gens[g].vars) /\ t.gens[g].vars[x] = v
  BY <1>2, InScopeIs
<1>7. QED
  BY <1>2, <1>3, <1>4, <1>5, <1>6

LEMMA PushesGood ==
  ASSUME NEW s, Good(s), NEW t, NEW f, NEW h, Pushes(s, t, f, h), PushesTraps(s, t, f)
  PROVE  Good(t) /\ Shares(s, t)
<1>0. s \in States /\ t \in States /\ Shapes(s) /\ Slots(s) /\ Rooted(s) /\ Owners(s)
      /\ Fits(s) /\ Distinct(s)
  BY DEF Good, Core, Pushes
<1>1. PICK n \in Nat :
        /\ n = Depth(s) /\ Depth(t) = n + 1
        /\ Over(s, t, n) /\ Extra(t, n) /\ NewFrame(t, n) = f
  BY <1>0, PushesOver
<1>2. Shapes(t)
  <2>1. Depth(t) <= MaxFrames
    BY <1>1, BoundsAssumption DEF Pushes
  <2>2. ASSUME NEW g \in Gens PROVE GenOK(t.gens[g])
    BY <1>0 DEF Shapes, Pushes
  <2>3. FrameOK(f)
    BY DEF Pushes
  <2>4. QED
    BY <1>0, <1>1, <2>1, <2>2, <2>3, OverShapes
<1>3. Slots(t)
  <2> SUFFICES ASSUME NEW j \in 1 .. n
               PROVE  s.frames[j].base + Len(s.frames[j].vars) <= f.base
    BY <1>0, <1>1, OverSlots
  <2>1. j \in 1 .. Depth(s) /\ n \in 1 .. Depth(s) /\ Depth(s) > 0 /\ ci(s) = s.frames[n]
    BY <1>1 DEF ci
  <2>2. s.frames[n].base + Len(s.frames[n].vars) <= f.base
    BY <2>1 DEF Pushes
  <2>3. CASE j = n
    BY <2>2, <2>3
  <2>4. CASE j < n
    <3>1. s.frames[j].base + Len(s.frames[j].vars) <= s.frames[n].base
      BY <1>0, <2>1, <2>4 DEF Slots
    <3>2. /\ s.frames[j].base \in Nat /\ Len(s.frames[j].vars) \in Nat
          /\ s.frames[n].base \in Nat /\ Len(s.frames[n].vars) \in Nat /\ f.base \in Nat
      BY <1>0, <2>1, DepthIs, FrameIs DEF Pushes
    <3> PICK x \in Nat : x = s.frames[n].base
      BY <3>2
    <3> PICK l \in Nat : l = Len(s.frames[n].vars)
      BY <3>2
    <3> PICK y \in Nat : y = s.frames[j].base + Len(s.frames[j].vars)
      BY <3>2
    <3> PICK z \in Nat : z = f.base
      BY <3>2
    <3>3. y <= x /\ x + l <= z
      BY <2>2, <3>1
    <3>4. y <= z
      BY ONLY <3>3, x \in Nat, y \in Nat, z \in Nat, l \in Nat
    <3>5. QED
      BY <3>4
  <2>5. QED
    BY <2>3, <2>4
<1>4. Rooted(t) /\ ExecOf(t, n + 1) = Len(t.execs)
  <2>1. n = 0 => f.root
    BY <1>1 DEF Pushes
  <2>2. Len(t.execs) = ExecOf(s, n) + (IF f.root THEN 1 ELSE 0)
    BY <1>0, <1>1 DEF PushesTraps, Rooted
  <2>3. Rooted(t)
    BY <1>0, <1>1, <2>1, <2>2, OverRooted
  <2>4. QED
    BY <1>1, <2>3 DEF Rooted
<1>5. Owners(t)
  <2>1. ASSUME NEW g \in Gens, t.gens[g].state = "running"
        PROVE  (\E k \in 1 .. n : s.frames[k].gen = g) \/ f.gen = g
    <3>1. CASE g = h
      BY <3>1 DEF Pushes
    <3>2. CASE g # h
      <4>1. s.gens[g].state = "running"
        BY <2>1, <3>2 DEF Pushes
      <4>2. PICK k \in Nat : Runs(s, g, k)
        BY <1>0, <4>1 DEF Owners
      <4>3. QED
        BY <1>1, <4>2 DEF Runs
    <3>3. QED
      BY <3>1, <3>2
  <2>2. ASSUME NEW g \in Gens, NEW k \in 1 .. n, s.frames[k].gen = g
        PROVE  t.gens[g].state = "running" /\ f.gen # g
    <3>1. k \in Nat /\ Runs(s, g, k)
      BY <1>1, <2>2 DEF Runs
    <3>2. s.gens[g].state = "running"
      BY <1>0, <3>1 DEF Owners
    <3>3. g # h
      BY <3>2 DEF Pushes
    <3>4. QED
      BY <3>2, <3>3 DEF Pushes
  <2>3. ASSUME NEW g \in Gens, f.gen = g PROVE t.gens[g].state = "running"
    BY <2>3 DEF Pushes
  <2>4. QED
    BY <1>0, <1>1, <2>1, <2>2, <2>3, OverOwners
<1>6. Below(s, n) = Len(s.etraps) /\ Below(s, n) \in Nat
  BY <1>0, <1>1, StateIs DEF Fits, Below
<1>7. Fits(t)
  <2>1. NewTraps(s, t, n) = PushedTraps(s, t, f)
    BY <1>1, <1>6 DEF NewTraps, PushedTraps
  <2>2. /\ \A j \in 1 .. Below(s, n) : t.etraps[j] = s.etraps[j]
        /\ Len(t.etraps) = Below(s, n) + f.etraps
        /\ TrapsFit(PushedTraps(s, t, f), f.scopes, f.base)
    BY <1>6 DEF PushesTraps
  <2>3. QED
    BY ONLY <1>0, <1>1, <2>1, <2>2, OverFits
<1>8. Distinct(t)
  <2>1. \/ f.vars = <<>>
        \/ h \in Gens /\ f.vars = s.gens[h].vars /\ t.gens[h].vars = <<>>
    BY DEF Pushes
  <2>2. \A g \in Gens : g # h => t.gens[g].vars = s.gens[g].vars
    BY DEF Pushes
  <2>3. h \in Gens => t.gens[h].vars = <<>>
    BY DEF Pushes
  <2>4. QED
    BY ONLY <1>0, <1>1, <2>1, <2>2, <2>3, PushDistinct
<1>9. ASSUME ~ TryInForeach PROVE TrapsCounted(t)
  <2>0. TrapsCounted(s)
    BY <1>9 DEF Good
  <2>1. ASSUME NEW e \in 1 .. Len(t.execs)
        PROVE  t.execs[e] = Counted(s, e, n) +
                              (IF ExecOf(t, n + 1) = e THEN f.etraps ELSE 0)
    <3>1. Len(s.execs) \in Nat /\ Len(t.execs) \in Nat /\ f.etraps \in Nat
      BY <1>0, StateIs, FrameIs DEF Pushes
    <3>2. Counted(s, e, n) = (IF e <= Len(s.execs) THEN s.execs[e] ELSE 0)
      <4>1. CASE e <= Len(s.execs)
        <5>1. e \in DOMAIN s.execs
          BY <1>0, <3>1, <4>1, StateIs
        <5>2. QED
          BY <1>1, <2>0, <4>1, <5>1 DEF TrapsCounted, Counted
      <4>2. CASE ~ (e <= Len(s.execs))
        <5>1. \A k \in 1 .. Depth(s) : ExecOf(s, k) # e
          BY <1>0, <3>1, <4>2, ExecsAre
        <5>2. \A k \in 0 + 1 .. n : TrapsIn(s, e)[k] = 0
          BY <1>0, <1>1, <5>1, CountIs
        <5>3. \A k \in 1 .. n : TrapsIn(s, e)[k] \in Nat
          BY <1>0, <1>1, CountIs
        <5>4. SumTo(TrapsIn(s, e), n) = SumTo(TrapsIn(s, e), 0)
          BY <1>1, <5>2, <5>3, SumZeros
        <5>5. QED
          BY <4>2, <5>4, SumZero DEF Counted
      <4>3. QED
        BY <4>1, <4>2
    <3>3. t.execs[e] = (IF e <= Len(s.execs) THEN s.execs[e] ELSE 0) +
                         (IF e = Len(t.execs) THEN f.etraps ELSE 0)
      BY <1>9 DEF PushesTraps
    <3>4. QED
      BY ONLY <1>4, <3>2, <3>3
  <2>2. QED
    BY <1>1, <2>1, OverCounted
<1>10. Outers(t)
  <2>1. Outers(s) /\ t.open = s.open /\ t.stray = s.stray
    BY DEF Good, Pushes
  <2>2. \A k \in 1 .. Depth(s) : k \in 1 .. Depth(t) /\ t.frames[k] = s.frames[k]
    BY <1>1, OverIs
  <2>3. QED
    BY <1>0, <2>1, <2>2, PushesScope DEF Outers
<1>11. Shares(s, t)
  BY <1>0, PushesScope DEF Shares, Pushes
<1>12. Core(t)
  BY <1>0, <1>2, <1>3, <1>4, <1>5, <1>7, <1>8 DEF Core
<1>13. QED
  BY <1>9, <1>10, <1>11, <1>12 DEF Good
----------------------------------------------------------------------------
(* What the operators change *)

Parts(t, frames, execs, etraps, open, stray, gens) ==
  /\ t \in States
  /\ t.frames = frames /\ t.execs = execs /\ t.etraps = etraps
  /\ t.open = open /\ t.stray = stray /\ t.gens = gens

LEMMA SetFrames ==
  ASSUME NEW s \in States, NEW q \in Seq(FrameRec)
  PROVE  Parts([s EXCEPT !.frames = q], q, s.execs, s.etraps, s.open, s.stray, s.gens)
BY DEF States, Parts

LEMMA SetExecs ==
  ASSUME NEW s \in States, NEW q \in Seq(Int)
  PROVE  Parts([s EXCEPT !.execs = q], s.frames, q, s.etraps, s.open, s.stray, s.gens)
BY DEF States, Parts

LEMMA SetEtraps ==
  ASSUME NEW s \in States, NEW q \in Seq(Trap)
  PROVE  Parts([s EXCEPT !.etraps = q], s.frames, s.execs, q, s.open, s.stray, s.gens)
BY DEF States, Parts

LEMMA SetGens ==
  ASSUME NEW s \in States, NEW q \in [Gens -> GenRec]
  PROVE  Parts([s EXCEPT !.gens = q], s.frames, s.execs, s.etraps, s.open, s.stray, q)
BY DEF States, Parts

LEMMA SetOpen ==
  ASSUME NEW s \in States, NEW op \in SUBSET Outer, NEW st \in SUBSET op
  PROVE  Parts([s EXCEPT !.open = op, !.stray = st],
               s.frames, s.execs, s.etraps, op, st, s.gens)
BY DEF States, Parts

LEMMA SetStray ==
  ASSUME NEW s \in States, NEW st \in SUBSET s.open
  PROVE  Parts([s EXCEPT !.stray = st], s.frames, s.execs, s.etraps, s.open, st, s.gens)
BY DEF States, Parts

LEMMA AddOpen ==
  ASSUME NEW s \in States, NEW op \in SUBSET Outer, s.open \subseteq op
  PROVE  Parts([s EXCEPT !.open = op], s.frames, s.execs, s.etraps, op, s.stray, s.gens)
BY DEF States, Parts

LEMMA TopIs ==
  ASSUME NEW s \in States, Depth(s) > 0
  PROVE  /\ Depth(s) \in 1 .. Depth(s) /\ Depth(s) \in 1 .. Len(s.frames)
         /\ Depth(s) \in Nat /\ s.frames \in Seq(FrameRec)
         /\ ci(s) = s.frames[Depth(s)] /\ ci(s) \in FrameRec
<1>1. Depth(s) \in Nat /\ Depth(s) = Len(s.frames) /\ s.frames \in Seq(FrameRec)
  BY DepthIs, StateIs
<1>2. Depth(s) \in 1 .. Depth(s)
  BY <1>1
<1>3. QED
  BY <1>1, <1>2 DEF ci

LEMMA SetCiIs ==
  ASSUME NEW s \in States, Depth(s) > 0, NEW f \in FrameRec
  PROVE  /\ Parts(SetCi(s, f), [s.frames EXCEPT ![Depth(s)] = f], s.execs, s.etraps,
                  s.open, s.stray, s.gens)
         /\ Depth(SetCi(s, f)) = Depth(s) /\ ci(SetCi(s, f)) = f
<1> DEFINE q == [s.frames EXCEPT ![Depth(s)] = f]
<1>1. q \in Seq(FrameRec) /\ Len(q) = Len(s.frames) /\ q[Depth(s)] = f
  BY TopIs
<1>2. SetCi(s, f) = [s EXCEPT !.frames = q]
  BY DEF SetCi, States
<1> HIDE DEF q
<1>3. Parts(SetCi(s, f), q, s.execs, s.etraps, s.open, s.stray, s.gens)
  BY <1>1, <1>2, SetFrames
<1>4. Depth(SetCi(s, f)) = Depth(s)
  BY <1>1, <1>3, DepthIs DEF Parts, Depth
<1>5. ci(SetCi(s, f)) = f
  BY <1>1, <1>3, <1>4 DEF Parts, ci
<1>6. QED
  BY <1>3, <1>4, <1>5 DEF q

LEMMA AddTrapsIs ==
  ASSUME NEW s \in States, Len(s.execs) > 0, NEW n \in Int
  PROVE  \E q \in Seq(Int) :
           /\ Parts(AddTraps(s, n), s.frames, q, s.etraps, s.open, s.stray, s.gens)
           /\ Len(q) = Len(s.execs)
           /\ \A e \in 1 .. Len(q) :
                q[e] = s.execs[e] + (IF e = Len(s.execs) THEN n ELSE 0)
<1> DEFINE m == Len(s.execs)
           q == [s.execs EXCEPT ![m] = s.execs[m] + n]
<1>0. s.execs \in Seq(Int) /\ m \in 1 .. m /\ s.execs[m] \in Int
  BY StateIs
<1>1. q \in Seq(Int) /\ Len(q) = m
      /\ \A e \in 1 .. m : q[e] = s.execs[e] + (IF e = m THEN n ELSE 0)
  BY <1>0
<1>2. AddTraps(s, n) = [s EXCEPT !.execs = q]
  BY DEF AddTraps, States
<1> HIDE DEF q
<1>3. Parts(AddTraps(s, n), s.frames, q, s.etraps, s.open, s.stray, s.gens)
  BY <1>1, <1>2, SetExecs
<1>4. QED
  BY <1>1, <1>3

LEMMA WithoutIs ==
  ASSUME NEW S, NEW q \in Seq(S), NEW n \in 0 .. Len(q)
  PROVE  /\ Without(q, n) \in Seq(S) /\ Len(Without(q, n)) = Len(q) - n
         /\ \A j \in 1 .. Len(q) - n : Without(q, n)[j] = q[j]
BY DEF Without

LEMMA CloseOutersIs ==
  ASSUME NEW s \in States, NEW pos \in Int
  PROVE  Parts(CloseOuters(s, pos), s.frames, s.execs, s.etraps,
               Lower(s.open, pos), Lower(s.stray, pos), s.gens)
<1> DEFINE C == {o \in s.open : o.pos >= pos}
           op == s.open \ C
           st == s.stray \ C
<1>0. /\ \A o \in s.open : o.pos \in Nat
      /\ s.stray \subseteq s.open /\ s.open \subseteq Outer
  BY StateIs
<1>1. op = Lower(s.open, pos) /\ st = Lower(s.stray, pos)
  BY <1>0 DEF Lower
<1>2. op \in SUBSET Outer /\ st \in SUBSET op
  BY <1>0
<1>3. CloseOuters(s, pos) = [s EXCEPT !.open = op, !.stray = st]
  BY DEF CloseOuters, States
<1> HIDE DEF op, st
<1>4. Parts([s EXCEPT !.open = op, !.stray = st],
            s.frames, s.execs, s.etraps, op, st, s.gens)
  BY <1>2, SetOpen
<1>5. QED
  BY ONLY <1>1, <1>3, <1>4

LEMMA LeaveFramesIs ==
  ASSUME NEW s \in States, NEW n \in 0 .. Depth(s) - 1
  PROVE  Parts(LeaveFrames(s, n), SubSeq(s.frames, 1, n), s.execs, s.etraps,
               Lower(s.open, s.frames[n + 1].base), Lower(s.stray, s.frames[n + 1].base),
               s.gens)
<1> DEFINE q == SubSeq(s.frames, 1, n)
           u == [s EXCEPT !.frames = q]
<1>0. /\ n \in Nat /\ n # Depth(s) /\ Depth(s) = Len(s.frames)
      /\ s.frames \in Seq(FrameRec) /\ n < Len(s.frames)
      /\ s.frames[n + 1].base \in Nat
  <2>1. Depth(s) \in Nat
    BY DepthIs
  <2>2. n + 1 \in 1 .. Depth(s)
    BY <2>1
  <2>3. QED
    BY <2>1, <2>2, DepthIs, StateIs, FrameIs
<1>1. q \in Seq(FrameRec)
  BY <1>0
<1>2. LeaveFrames(s, n) = CloseOuters(u, s.frames[n + 1].base)
  BY <1>0 DEF LeaveFrames
<1> HIDE DEF q
<1>3. Parts(u, q, s.execs, s.etraps, s.open, s.stray, s.gens)
  BY <1>1, SetFrames
<1> HIDE DEF u
<1>4. Parts(CloseOuters(u, s.frames[n + 1].base), u.frames, u.execs, u.etraps,
            Lower(u.open, s.frames[n + 1].base), Lower(u.stray, s.frames[n + 1].base), u.gens)
  <2>1. u \in States /\ s.frames[n + 1].base \in Int
    BY <1>0, <1>3 DEF Parts
  <2>2. QED
    BY ONLY <2>1, CloseOutersIs
<1>5. u.frames = q /\ u.execs = s.execs /\ u.etraps = s.etraps /\ u.open = s.open
      /\ u.stray = s.stray /\ u.gens = s.gens
  BY <1>3 DEF Parts
<1>6. QED
  BY ONLY <1>2, <1>4, <1>5 DEF q

LEMMA LeaveOpenIs ==
  ASSUME NEW s \in States, NEW from, NEW to
  PROVE  Parts(LeaveOpen(s, from, to), s.frames, s.execs, s.etraps, s.open,
               s.stray \union {o \in s.open : o.pos \in from .. to - 1}, s.gens)
<1> DEFINE st == s.stray \union {o \in s.open : o.pos \in from .. to - 1}
<1>1. st \in SUBSET s.open
  BY StateIs
<1>2. LeaveOpen(s, from, to) = [s EXCEPT !.stray = st]
  BY DEF LeaveOpen, States
<1> HIDE DEF st
<1>3. Parts(LeaveOpen(s, from, to), s.frames, s.execs, s.etraps, s.open, st, s.gens)
  BY <1>1, <1>2, SetStray
<1>4. QED
  BY <1>3 DEF st

LEMMA POPTRAPIs ==
  ASSUME NEW s \in States, Depth(s) > 0, Len(s.execs) > 0, NEW n \in 0 .. ci(s).etraps,
         ci(s).etraps <= Len(s.etraps)
  PROVE  \E f \in FrameRec, q \in Seq(Int) :
           /\ f = [ci(s) EXCEPT !.etraps = ci(s).etraps - n]
           /\ Parts(POPTRAP(s, n), [s.frames EXCEPT ![Depth(s)] = f], q,
                    Without(s.etraps, n), s.open, s.stray, s.gens)
           /\ Depth(POPTRAP(s, n)) = Depth(s) /\ ci(POPTRAP(s, n)) = f
           /\ Len(q) = Len(s.execs)
           /\ \A e \in 1 .. Len(q) :
                q[e] = s.execs[e] + (IF e = Len(s.execs) THEN -n ELSE 0)
<1> DEFINE f == [ci(s) EXCEPT !.etraps = ci(s).etraps - n]
           u == SetCi(s, f)
           w == Without(s.etraps, n)
           v == [u EXCEPT !.etraps = w]
<1>0. ci(s) \in FrameRec /\ ci(s).etraps \in Nat /\ n \in Nat
  BY TopIs, FrameIs
<1>1. f \in FrameRec
  BY <1>0 DEF FrameRec
<1> HIDE DEF f
<1>2. Parts(u, [s.frames EXCEPT ![Depth(s)] = f], s.execs, s.etraps, s.open, s.stray, s.gens)
      /\ Depth(u) = Depth(s) /\ ci(u) = f
  BY <1>1, SetCiIs
<1> HIDE DEF u
<1>3. w \in Seq(Trap)
  <2>1. n \in 0 .. Len(s.etraps) /\ s.etraps \in Seq(Trap)
    BY <1>0, StateIs
  <2>2. QED
    BY <2>1, WithoutIs
<1> HIDE DEF w
<1>4. Parts(v, u.frames, u.execs, w, u.open, u.stray, u.gens)
  BY <1>2, <1>3, SetEtraps DEF Parts
<1> HIDE DEF v
<1>5. PICK q \in Seq(Int) :
        /\ Parts(AddTraps(v, -n), v.frames, q, v.etraps, v.open, v.stray, v.gens)
        /\ Len(q) = Len(v.execs)
        /\ \A e \in 1 .. Len(q) : q[e] = v.execs[e] + (IF e = Len(v.execs) THEN -n ELSE 0)
  <2>1. v \in States /\ Len(v.execs) > 0 /\ -n \in Int
    BY <1>0, <1>2, <1>4 DEF Parts
  <2>2. QED
    BY <2>1, AddTrapsIs
<1>6. POPTRAP(s, n) = AddTraps(v, -n)
  <2>1. [SetCi(s, [ci(s) EXCEPT !.etraps = @ - n]) EXCEPT !.etraps = Without(@, n)] = v
    <3>1. [ci(s) EXCEPT !.etraps = @ - n] = f
      BY <1>0 DEF f, FrameRec
    <3>2. [u EXCEPT !.etraps = Without(@, n)] = v
      BY <1>2 DEF v, w, Parts, States
    <3>3. QED
      BY <3>1, <3>2 DEF u
  <2>2. QED
    BY <2>1 DEF POPTRAP
<1>7. /\ v.frames = [s.frames EXCEPT ![Depth(s)] = f] /\ v.execs = s.execs
      /\ v.etraps = w /\ v.open = s.open /\ v.stray = s.stray /\ v.gens = s.gens
  BY <1>2, <1>4 DEF Parts
<1>8. /\ Parts(POPTRAP(s, n), [s.frames EXCEPT ![Depth(s)] = f], q, w, s.open,
               s.stray, s.gens)
      /\ Len(q) = Len(s.execs)
      /\ \A e \in 1 .. Len(q) : q[e] = s.execs[e] + (IF e = Len(s.execs) THEN -n ELSE 0)
  BY <1>5, <1>6, <1>7
<1>9. Depth(POPTRAP(s, n)) = Depth(s) /\ ci(POPTRAP(s, n)) = f
  <2>1. POPTRAP(s, n).frames = u.frames
    BY <1>2, <1>8 DEF Parts
  <2>2. QED
    BY <1>2, <2>1 DEF Depth, ci
<1>10. QED
  BY <1>1, <1>8, <1>9 DEF f, w

LEMMA KillIs ==
  ASSUME NEW s \in States, NEW n \in Nat
  PROVE  \E q \in [Gens -> GenRec] :
           /\ Parts(Kill(s, n), s.frames, s.execs, s.etraps, s.open, s.stray, q)
           /\ \A g \in Gens :
                q[g] = (IF \E k \in n + 1 .. Depth(s) : s.frames[k].gen = g
                        THEN Dead ELSE s.gens[g])
<1> DEFINE killed == {s.frames[k].gen : k \in n + 1 .. Depth(s)}
           q == [g \in Gens |-> IF g \in killed THEN Dead ELSE s.gens[g]]
<1>1. Dead \in GenRec
  BY DEF Dead, GenRec
<1>2. q \in [Gens -> GenRec]
  BY <1>1, StateIs
<1>3. \A g \in Gens : q[g] = (IF \E k \in n + 1 .. Depth(s) : s.frames[k].gen = g
                              THEN Dead ELSE s.gens[g])
  OBVIOUS
<1>4. Kill(s, n) = [s EXCEPT !.gens = q]
  BY DEF Kill, States
<1> HIDE DEF q
<1>5. Parts(Kill(s, n), s.frames, s.execs, s.etraps, s.open, s.stray, q)
  BY <1>2, <1>4, SetGens
<1>6. QED
  BY <1>2, <1>3, <1>5

LEMMA LeaveExecuteIs ==
  ASSUME NEW s \in States, Len(s.execs) > 0, NEW root \in BOOLEAN
  PROVE  \E q \in Seq(Int) :
           /\ Parts(LeaveExecute(s, root), s.frames, q, s.etraps, s.open, s.stray, s.gens)
           /\ Len(q) = Len(s.execs) - (IF root THEN 1 ELSE 0)
           /\ \A e \in 1 .. Len(q) : q[e] = s.execs[e]
<1>0. s.execs \in Seq(Int) /\ 1 \in 0 .. Len(s.execs)
  BY StateIs
<1>1. CASE root
  <2> DEFINE q == Without(s.execs, 1)
  <2>1. /\ q \in Seq(Int) /\ Len(q) = Len(s.execs) - 1
        /\ \A e \in 1 .. Len(s.execs) - 1 : q[e] = s.execs[e]
    BY <1>0, WithoutIs
  <2>2. LeaveExecute(s, root) = [s EXCEPT !.execs = q]
    BY <1>1 DEF LeaveExecute, States
  <2> HIDE DEF q
  <2>3. Parts(LeaveExecute(s, root), s.frames, q, s.etraps, s.open, s.stray, s.gens)
    BY <2>1, <2>2, SetExecs
  <2>4. QED
    BY <1>1, <2>1, <2>3
<1>2. CASE ~ root
  <2>1. LeaveExecute(s, root) = s
    BY <1>2 DEF LeaveExecute
  <2>2. Parts(s, s.frames, s.execs, s.etraps, s.open, s.stray, s.gens)
    BY DEF Parts
  <2>3. Len(s.execs) = Len(s.execs) - 0
    BY <1>0
  <2>4. QED
    BY <1>0, <1>2, <2>1, <2>2, <2>3
<1>3. QED
  BY <1>1, <1>2

----------------------------------------------------------------------------
(* The traps of the running function *)

LEMMA OwnIs ==
  ASSUME NEW s, Core(s), NEW k \in 1 .. Depth(s)
  PROVE  /\ OwnTraps(s, k) \in Seq(Trap)
         /\ Len(OwnTraps(s, k)) = s.frames[k].etraps
         /\ Below(s, k - 1) \in Nat
         /\ Below(s, k - 1) + s.frames[k].etraps <= Len(s.etraps)
         /\ \A j \in 1 .. s.frames[k].etraps :
              OwnTraps(s, k)[j] = s.etraps[Below(s, k - 1) + j]
         /\ TrapsFit(OwnTraps(s, k), s.frames[k].scopes, s.frames[k].base)
         /\ k = Depth(s) => Below(s, k - 1) + s.frames[k].etraps = Len(s.etraps)
<1>0. s \in States /\ Fits(s) /\ Depth(s) \in Nat /\ k \in Nat /\ k <= Depth(s)
      /\ s.etraps \in Seq(Trap)
  BY DepthIs, StateIs DEF Core
<1> PICK b \in Nat : b = Below(s, k - 1)
  <2>1. k - 1 \in 0 .. Depth(s)
    BY <1>0
  <2>2. QED
    BY <1>0, <2>1, TrapsAre DEF Below
<1> PICK x \in Nat : x = s.frames[k].etraps
  BY <1>0, DepthIs, FrameIs
<1>1. Below(s, k) = b + x
  BY <1>0, TrapsAre DEF Below
<1>2. Below(s, k) <= Below(s, Depth(s)) /\ Below(s, Depth(s)) = Len(s.etraps)
  <2>1. \A j \in 1 .. Depth(s) : Traps(s)[j] \in Nat
    BY <1>0, TrapsAre
  <2>2. QED
    BY <1>0, <2>1, SumGrows DEF Below, Fits
<1>3. OwnTraps(s, k) = [j \in 1 .. x |-> s.etraps[b + j]]
  BY DEF OwnTraps, Below
<1> PICK l \in Nat : l = Len(s.etraps)
  BY <1>0
<1>7. b + x <= l
  BY <1>1, <1>2
<1>4. \A j \in 1 .. x : b + j \in 1 .. l
  BY ONLY <1>7, b \in Nat, x \in Nat, l \in Nat
<1>5. OwnTraps(s, k) \in Seq(Trap) /\ Len(OwnTraps(s, k)) = x
      /\ \A j \in 1 .. x : OwnTraps(s, k)[j] = s.etraps[b + j]
  <2>1. \A j \in 1 .. x : s.etraps[b + j] \in Trap
    BY <1>0, <1>4
  <2>2. [j \in 1 .. x |-> s.etraps[b + j]] \in Seq(Trap)
        /\ Len([j \in 1 .. x |-> s.etraps[b + j]]) = x
    BY ONLY <2>1, x \in Nat
  <2>3. QED
    BY <1>3, <2>2
<1>6. k = Depth(s) => b + x = Len(s.etraps)
  BY <1>1, <1>2
<1>8. TrapsFit(OwnTraps(s, k), s.frames[k].scopes, s.frames[k].base)
  BY <1>0 DEF Fits
<1>9. QED
  BY <1>5, <1>6, <1>7, <1>8

LEMMA TopOwnIs ==
  ASSUME NEW s, Core(s), Depth(s) > 0
  PROVE  /\ OwnTraps(s, Depth(s)) \in Seq(Trap)
         /\ Len(OwnTraps(s, Depth(s))) = ci(s).etraps
         /\ LowerTraps(s) \in Nat /\ ci(s).etraps \in Nat
         /\ LowerTraps(s) + ci(s).etraps = Len(s.etraps)
         /\ ci(s).etraps <= Len(s.etraps)
         /\ \A j \in 1 .. ci(s).etraps :
              OwnTraps(s, Depth(s))[j] = s.etraps[LowerTraps(s) + j]
         /\ TrapsFit(OwnTraps(s, Depth(s)), ci(s).scopes, ci(s).base)
         /\ Len(s.execs) > 0 /\ FrameOK(ci(s)) /\ s \in States
<1>0. s \in States
  BY DEF Core
<1>1. Depth(s) \in 1 .. Depth(s) /\ ci(s) = s.frames[Depth(s)] /\ ci(s).etraps \in Nat
  BY <1>0, TopIs, FrameIs
<1>2. Len(s.execs) > 0
  BY <1>0, <1>1, ExecsAre DEF Core
<1>3. FrameOK(ci(s))
  BY <1>1 DEF Core, Shapes
<1>4. LowerTraps(s) = Below(s, Depth(s) - 1)
  BY DEF LowerTraps
<1>5. /\ OwnTraps(s, Depth(s)) \in Seq(Trap)
      /\ Len(OwnTraps(s, Depth(s))) = ci(s).etraps
      /\ LowerTraps(s) \in Nat
      /\ LowerTraps(s) + ci(s).etraps = Len(s.etraps)
      /\ \A j \in 1 .. ci(s).etraps :
              OwnTraps(s, Depth(s))[j] = s.etraps[LowerTraps(s) + j]
      /\ TrapsFit(OwnTraps(s, Depth(s)), ci(s).scopes, ci(s).base)
  <2> PICK k \in 1 .. Depth(s) : k = Depth(s)
    BY <1>1
  <2>1. /\ OwnTraps(s, k) \in Seq(Trap)
        /\ Len(OwnTraps(s, k)) = s.frames[k].etraps
        /\ Below(s, k - 1) \in Nat
        /\ \A j \in 1 .. s.frames[k].etraps :
             OwnTraps(s, k)[j] = s.etraps[Below(s, k - 1) + j]
        /\ TrapsFit(OwnTraps(s, k), s.frames[k].scopes, s.frames[k].base)
        /\ k = Depth(s) => Below(s, k - 1) + s.frames[k].etraps = Len(s.etraps)
    BY ONLY Core(s), k \in 1 .. Depth(s), OwnIs
  <2>2. QED
    BY ONLY <1>1, <1>4, <2>1, k = Depth(s)
<1>6. ci(s).etraps <= Len(s.etraps)
  BY <1>0, <1>1, <1>5, StateIs
<1>7. QED
  BY <1>0, <1>1, <1>2, <1>3, <1>5, <1>6

\* The last n of them are popped.
LEMMA PopTraps ==
  ASSUME NEW s, Core(s), NEW t, NEW f, Changes(s, t, f), NEW n \in 0 .. ci(s).etraps,
         f.etraps = ci(s).etraps - n,
         t.etraps = Without(s.etraps, n),
         Len(t.execs) = Len(s.execs),
         \A e \in 1 .. Len(s.execs) :
           t.execs[e] = s.execs[e] + (IF e = Len(s.execs) THEN -n ELSE 0),
         TrapsFit(SubSeq(OwnTraps(s, Depth(s)), 1, ci(s).etraps - n), f.scopes, f.base)
  PROVE  ChangesTraps(s, t, f)
<1>0. Depth(s) > 0
  BY DEF Changes
<1> DEFINE q == OwnTraps(s, Depth(s))
<1> PICK b \in Nat : b = LowerTraps(s)
  BY <1>0, TopOwnIs
<1> PICK x \in Nat : x = ci(s).etraps
  BY <1>0, TopOwnIs
<1>1. q \in Seq(Trap) /\ Len(q) = x /\ b + x = Len(s.etraps) /\ s.etraps \in Seq(Trap)
      /\ \A j \in 1 .. x : q[j] = s.etraps[b + j]
  BY <1>0, TopOwnIs, StateIs
<1> HIDE DEF q
<1> PICK y \in Nat : y = x - n
  OBVIOUS
<1> PICK l \in Nat : l = Len(s.etraps)
  BY <1>1
<1>2. n \in 0 .. l /\ l - n = b + y /\ y <= x /\ n \in Nat
  <2>1. b + x = l /\ y = x - n /\ n \in 0 .. x
    BY <1>1
  <2>2. QED
    BY ONLY <2>1, b \in Nat, x \in Nat, y \in Nat, l \in Nat
<1>3. Len(t.etraps) = b + y /\ \A j \in 1 .. b + y : t.etraps[j] = s.etraps[j]
  <2>1. /\ Len(Without(s.etraps, n)) = l - n
        /\ \A j \in 1 .. l - n : Without(s.etraps, n)[j] = s.etraps[j]
    <3>1. n \in 0 .. Len(s.etraps)
      BY <1>2
    <3>2. QED
      BY <1>1, <3>1, WithoutIs
  <2>2. QED
    BY <1>2, <2>1
<1>4. SubSeq(q, 1, y) = TopTraps(s, t, f)
  <2>1. SubSeq(q, 1, y) = [j \in 1 .. y |-> q[j]]
    BY ONLY <1>1, <1>2
  <2>2. ASSUME NEW j \in 1 .. y PROVE q[j] = t.etraps[b + j]
    <3>1. j \in 1 .. x /\ b + j \in 1 .. b + y
      BY ONLY <1>2, j \in 1 .. y, b \in Nat, x \in Nat, y \in Nat
    <3>2. QED
      BY <1>1, <1>3, <3>1
  <2>3. [j \in 1 .. y |-> q[j]] = [j \in 1 .. y |-> t.etraps[b + j]]
    BY <2>2
  <2>4. QED
    BY <2>1, <2>3 DEF TopTraps
<1>5. TrapsFit(TopTraps(s, t, f), f.scopes, f.base)
  BY <1>4 DEF q
<1>6. \A j \in 1 .. b : t.etraps[j] = s.etraps[j]
  <2>1. \A j \in 1 .. b : j \in 1 .. b + y
    BY ONLY b \in Nat, y \in Nat
  <2>2. QED
    BY <1>3, <2>1
<1>7. f.etraps - ci(s).etraps = -n
  BY <1>2
<1>8. QED
  BY <1>3, <1>5, <1>6, <1>7 DEF ChangesTraps

LEMMA KeepTraps ==
  ASSUME NEW s, Core(s), NEW t, NEW f, Changes(s, t, f),
         f.etraps = ci(s).etraps, t.etraps = s.etraps, t.execs = s.execs,
         TrapsFit(OwnTraps(s, Depth(s)), f.scopes, f.base)
  PROVE  ChangesTraps(s, t, f)
<1>0. Depth(s) > 0 /\ s \in States
  BY DEF Changes, Core
<1> DEFINE q == OwnTraps(s, Depth(s))
<1>1. /\ q \in Seq(Trap) /\ Len(q) = ci(s).etraps /\ ci(s).etraps \in Nat
      /\ s.etraps \in Seq(Trap) /\ s.execs \in Seq(Int)
  BY <1>0, TopOwnIs, StateIs
<1> HIDE DEF q
<1>2. SubSeq(q, 1, ci(s).etraps - 0) = q /\ ci(s).etraps - 0 = ci(s).etraps
      /\ 0 \in 0 .. ci(s).etraps
  BY <1>1
<1>3. Without(s.etraps, 0) = s.etraps
  BY <1>1 DEF Without
<1>4. \A e \in 1 .. Len(s.execs) :
        t.execs[e] = s.execs[e] + (IF e = Len(s.execs) THEN -0 ELSE 0)
  BY <1>1
<1>5. TrapsFit(SubSeq(q, 1, ci(s).etraps - 0), f.scopes, f.base)
  BY <1>2 DEF q
<1>6. QED
  BY <1>2, <1>3, <1>4, <1>5, PopTraps DEF q
----------------------------------------------------------------------------
(* Locals and scopes *)

LEMMA NextVarIs ==
  ASSUME NEW s, Fresh(s) # {}
  PROVE  NextVar(s) \in Fresh(s) /\ NextVar(s) \in Vars
<1>1. Fresh(s) \in SUBSET Nat /\ Fresh(s) \subseteq Vars
  BY VarsAssumption DEF Fresh
<1>2. \E v \in Fresh(s) : \A w \in Fresh(s) : v <= w
  BY <1>1, LeastNat
<1>3. QED
  BY <1>1, <1>2 DEF NextVar

LEMMA WithinSelf ==
  ASSUME NEW s, NEW a, Once(a)
  PROVE  Within(s, a, a)
BY DEF Within

LEMMA WithinPart ==
  ASSUME NEW s, NEW a \in Seq(Vars), Once(a), NEW m \in 0 .. Len(a)
  PROVE  Within(s, SubSeq(a, 1, m), a)
<1>1. m \in Nat /\ Len(a) \in Nat /\ m <= Len(a)
  OBVIOUS
<1>2. Len(SubSeq(a, 1, m)) = m /\ \A x \in 1 .. m : SubSeq(a, 1, m)[x] = a[x]
  BY <1>1
<1>3. \A x \in 1 .. m : x \in 1 .. Len(a)
  BY <1>1
<1>4. QED
  BY <1>2, <1>3 DEF Within, Once

LEMMA WithinAppend ==
  ASSUME NEW s \in States, NEW b, NEW a \in Seq(Vars), Within(s, a, b), NEW v \in Fresh(s),
         \A y \in 1 .. Len(b) : b[y] # v, \A x \in 1 .. Len(a) : a[x] # v
  PROVE  Within(s, Append(a, v), b)
<1>1. v \in Vars
  BY FreshIs
<1> DEFINE c == Append(a, v)
<1> PICK m \in Nat : m = Len(a)
  OBVIOUS
<1> PICK last \in Nat : last = m + 1
  OBVIOUS
<1>2. Len(c) = last /\ c[last] = v /\ \A x \in 1 .. m : c[x] = a[x]
  BY <1>1
<1>3. \A x \in 1 .. last : x \in 1 .. m \/ x = last
  OBVIOUS
<1> HIDE DEF c
<1>4. ASSUME NEW x \in 1 .. Len(c)
      PROVE  c[x] \in Fresh(s) \/ \E y \in 1 .. Len(b) : c[x] = b[y]
  <2>1. CASE x \in 1 .. m
    BY <1>2, <2>1 DEF Within
  <2>2. CASE x = last
    BY <1>2, <2>2
  <2>3. QED
    BY <1>2, <1>3, <2>1, <2>2
<1>5. Once(c)
  BY <1>2, <1>3 DEF Within, Once
<1>6. QED
  BY <1>4, <1>5 DEF Within, c

\* A change of the top frame alone
LEMMA PartsChanges ==
  ASSUME NEW s, Core(s), Depth(s) > 0, NEW f \in FrameRec,
         f.base = ci(s).base, f.gen = ci(s).gen, f.root = ci(s).root,
         FrameOK(f), Within(s, f.vars, ci(s).vars),
         NEW t, NEW q, NEW r, NEW op, NEW st,
         Parts(t, [s.frames EXCEPT ![Depth(s)] = f], q, r, op, st, s.gens)
  PROVE  Changes(s, t, f)
BY DEF Parts, Changes

LEMMA SetCiChanges ==
  ASSUME NEW s, Core(s), Depth(s) > 0, NEW f \in FrameRec,
         f.base = ci(s).base, f.gen = ci(s).gen, f.root = ci(s).root,
         FrameOK(f), Within(s, f.vars, ci(s).vars),
         NEW t, t = SetCi(s, f)
  PROVE  /\ Changes(s, t, f)
         /\ t.execs = s.execs /\ t.etraps = s.etraps /\ t.open = s.open
         /\ t.stray = s.stray
<1>1. Parts(t, [s.frames EXCEPT ![Depth(s)] = f], s.execs, s.etraps,
            s.open, s.stray, s.gens)
  BY SetCiIs DEF Core
<1>2. QED
  BY <1>1, PartsChanges DEF Parts

LEMMA TopVars ==
  ASSUME NEW s, Core(s), Depth(s) > 0
  PROVE  /\ ci(s).vars \in Seq(Vars) /\ Len(ci(s).vars) \in Nat /\ Once(ci(s).vars)
         /\ ci(s).scopes \in Seq(ScopeRec) /\ Len(ci(s).scopes) \in Nat
         /\ ci(s) \in FrameRec /\ ci(s).base \in Nat
         /\ Blocks(ci(s).vars, ci(s).scopes)
         /\ \A v \in Fresh(s) : \A x \in 1 .. Len(ci(s).vars) : ci(s).vars[x] # v
<1>0. s \in States /\ Distinct(s) /\ Shapes(s)
  BY DEF Core
<1>1. ci(s) \in FrameRec /\ Depth(s) \in 1 .. Depth(s) /\ ci(s) = s.frames[Depth(s)]
  BY <1>0, TopIs
<1>2. Blocks(ci(s).vars, ci(s).scopes) /\ Once(ci(s).vars)
  BY <1>0, <1>1 DEF Shapes, FrameOK, Distinct
<1>3. \A v \in Fresh(s) : \A x \in 1 .. Len(ci(s).vars) : ci(s).vars[x] # v
  BY <1>0, <1>1, FreshIs
<1>4. /\ ci(s).vars \in Seq(Vars) /\ Len(ci(s).vars) \in Nat /\ ci(s).base \in Nat
      /\ ci(s).scopes \in Seq(ScopeRec) /\ Len(ci(s).scopes) \in Nat
  BY ONLY <1>1, FrameIs
<1>5. QED
  BY ONLY <1>1, <1>2, <1>3, <1>4

\* The outers stay as they are, and the locals that there are.
LEMMA KeepOpen ==
  ASSUME NEW s, NEW t, NEW f, t.open = s.open, t.stray = s.stray, f.base = ci(s).base,
         \A i \in 1 .. Len(ci(s).vars) : i \in 1 .. Len(f.vars) /\ f.vars[i] = ci(s).vars[i]
  PROVE  ChangesOpen(s, t, f) /\ ChangesClosed(s, t, f)
<1>1. \A o, i : i \in Nat /\ OuterIn(ci(s), o, i) => OuterIn(f, o, i)
  BY DEF OuterIn
<1>2. ChangesOpen(s, t, f)
  BY <1>1 DEF ChangesOpen
<1>3. ChangesClosed(s, t, f)
  BY DEF ChangesClosed
<1>4. QED
  BY <1>2, <1>3

\* A step of the running function
LEMMA ChangesDone ==
  ASSUME NEW s, Good(s), NEW t, NEW f, Changes(s, t, f), ChangesTraps(s, t, f),
         ChangesOpen(s, t, f), ChangesClosed(s, t, f)
  PROVE  Good(t) /\ Shares(s, t)
<1>1. Good(t)
  BY ChangesGood
<1>2. Shares(s, t)
  BY ChangesShares DEF Good
<1>3. QED
  BY <1>1, <1>2

\* A local more
LEMMA BlocksLocal ==
  ASSUME NEW a \in Seq(Vars), NEW scopes \in Seq(ScopeRec), Blocks(a, scopes),
         Len(a) < FrameSize, NEW v \in Vars
  PROVE  Blocks(Append(a, v), scopes)
<1> PICK m \in Nat : m = Len(a)
  OBVIOUS
<1>1. Len(Append(a, v)) = m + 1 /\ m + 1 <= FrameSize
  BY BoundsAssumption
<1>2. ASSUME NEW j \in 1 .. Len(scopes) PROVE scopes[j].body <= m + 1
  <2>1. scopes[j].body \in Nat
    <3>1. scopes[j] \in ScopeRec
      OBVIOUS
    <3>2. QED
      BY <3>1 DEF ScopeRec
  <2>2. scopes[j].body <= m
    BY DEF Blocks
  <2>3. QED
    BY <2>1, <2>2
<1>3. QED
  BY <1>1, <1>2 DEF Blocks

LEMMA DeclareLocalGood ==
  ASSUME NEW s, Good(s), s = vm, NEW t, t = vm', DeclareLocal
  PROVE  Good(t) /\ Shares(s, t)
<1>0. Core(s) /\ s \in States /\ Depth(s) > 0 /\ ci(s).kind # "native"
      /\ Len(ci(s).vars) < FrameSize /\ Fresh(s) # {}
  BY DEF Good, Core, DeclareLocal, Script, Room
<1> PICK v \in Fresh(s) : v = NextVar(s)
  BY <1>0, NextVarIs
<1> DEFINE a == ci(s).vars
           f == [ci(s) EXCEPT !.vars = Append(a, v)]
<1>1. v \in Vars /\ ci(s) \in FrameRec /\ a \in Seq(Vars) /\ Len(a) \in Nat
  BY <1>0, TopVars, FreshIs
<1>2. Append(a, v) \in Seq(Vars) /\ Len(Append(a, v)) = Len(a) + 1
      /\ \A x \in 1 .. Len(a) : Append(a, v)[x] = a[x]
  BY <1>1
<1> HIDE DEF a
<1>3. /\ f \in FrameRec /\ f.vars = Append(a, v) /\ f.base = ci(s).base
      /\ f.gen = ci(s).gen /\ f.root = ci(s).root /\ f.kind = ci(s).kind
      /\ f.scopes = ci(s).scopes /\ f.etraps = ci(s).etraps
  BY <1>1, <1>2 DEF FrameRec
<1>4. t = SetCi(s, f)
  BY DEF DeclareLocal, a
<1> HIDE DEF f
<1>5. FrameOK(f)
  <2>1. Blocks(a, ci(s).scopes) /\ FrameOK(ci(s)) /\ ci(s).scopes \in Seq(ScopeRec)
    BY <1>0, TopVars, TopOwnIs DEF a
  <2>2. Len(a) < FrameSize
    BY <1>0 DEF a
  <2>3. Blocks(Append(a, v), ci(s).scopes)
    BY <1>1, <2>1, <2>2, BlocksLocal
  <2>4. QED
    BY <1>0, <1>3, <2>1, <2>3 DEF FrameOK
<1>6. Within(s, f.vars, ci(s).vars)
  <2>1. Once(a) /\ \A x \in 1 .. Len(a) : a[x] # v
    BY <1>0, TopVars DEF a
  <2>2. QED
    BY <1>0, <1>1, <1>3, <2>1, WithinSelf, WithinAppend DEF a
<1>7. /\ Changes(s, t, f) /\ t.execs = s.execs /\ t.etraps = s.etraps
      /\ t.open = s.open /\ t.stray = s.stray
  BY ONLY <1>0, <1>3, <1>4, <1>5, <1>6, SetCiChanges
<1>8. ChangesTraps(s, t, f)
  <2>1. TrapsFit(OwnTraps(s, Depth(s)), ci(s).scopes, ci(s).base)
    BY ONLY <1>0, TopOwnIs
  <2>2. QED
    BY ONLY <1>0, <1>3, <1>7, <2>1, KeepTraps
<1>9. \A i \in 1 .. Len(ci(s).vars) : i \in 1 .. Len(f.vars) /\ f.vars[i] = ci(s).vars[i]
  BY <1>1, <1>2, <1>3 DEF a
<1>10. ChangesOpen(s, t, f) /\ ChangesClosed(s, t, f)
  BY <1>3, <1>7, <1>9, KeepOpen
<1>11. QED
  BY <1>7, <1>8, <1>10, ChangesDone

\* A scope begins, at the end of the locals but for those of a loop.
LEMMA AppendScope ==
  ASSUME NEW vars \in Seq(Vars), NEW scopes \in Seq(ScopeRec), Blocks(vars, scopes),
         NEW kind \in {"block", "switch", "loop", "try"}, NEW size \in Nat, size <= Len(vars),
         \A j \in 1 .. Len(scopes) : scopes[j].body <= size,
         kind = "try" => size < FrameSize
  PROVE  LET z == Append(scopes, Scope(kind, size, Len(vars)))
         IN /\ z \in Seq(ScopeRec) /\ Len(z) = Len(scopes) + 1
            /\ \A j \in 1 .. Len(scopes) : z[j] = scopes[j]
            /\ z[Len(scopes) + 1] = Scope(kind, size, Len(vars))
            /\ Blocks(vars, z)
            /\ Tries(z) = (IF kind = "try" THEN Tries(scopes) \union {Len(scopes) + 1}
                           ELSE Tries(scopes))
<1> PICK m \in Nat : m = Len(vars)
  OBVIOUS
<1> PICK l \in Nat : l = Len(scopes)
  OBVIOUS
<1> DEFINE b == Scope(kind, size, m)
           z == Append(scopes, b)
<1>1. b \in ScopeRec /\ b.kind = kind /\ b.size = size /\ b.body = m
  BY DEF Scope, ScopeRec
<1>2. z \in Seq(ScopeRec) /\ Len(z) = l + 1 /\ z[l + 1] = b
      /\ \A j \in 1 .. l : z[j] = scopes[j]
  BY <1>1
<1> HIDE DEF z, b
<1>3. /\ \A j \in 1 .. l + 1 : j \in 1 .. l \/ j = l + 1
      /\ \A j \in 1 .. l : j \in 1 .. l + 1 /\ ~ (l + 1 <= j)
      /\ l + 1 \in 1 .. l + 1
  OBVIOUS
<1>4. Blocks(vars, z)
  <2>1. \A j \in 1 .. l :
          /\ scopes[j].size <= scopes[j].body /\ scopes[j].body <= m
          /\ scopes[j].kind = "try" => scopes[j].size < FrameSize
    BY DEF Blocks
  <2>2. \A j \in 1 .. l + 1 :
          /\ z[j].size <= z[j].body /\ z[j].body <= m
          /\ z[j].kind = "try" => z[j].size < FrameSize
    BY <1>1, <1>2, <1>3, <2>1
  <2>3. ASSUME NEW i \in 1 .. l + 1, NEW j \in 1 .. l + 1, i < j
        PROVE  z[i].body <= z[j].size
    <3>0. i \in 1 .. l
      BY <2>3
    <3>1. CASE j \in 1 .. l
      BY <1>2, <2>3, <3>0, <3>1 DEF Blocks
    <3>2. CASE j = l + 1
      BY <1>1, <1>2, <3>0, <3>2
    <3>3. QED
      BY <1>3, <3>1, <3>2
  <2>4. QED
    BY <1>2, <2>2, <2>3 DEF Blocks
<1>5. Tries(z) = (IF kind = "try" THEN Tries(scopes) \union {l + 1} ELSE Tries(scopes))
  <2>1. DOMAIN z = 1 .. l + 1 /\ DOMAIN scopes = 1 .. l
    BY <1>2
  <2>2. QED
    BY <1>1, <1>2, <1>3, <2>1 DEF Tries
<1>6. QED
  BY <1>2, <1>4, <1>5 DEF z, b

LEMMA FitsAgree ==
  ASSUME NEW q, NEW scopes, NEW base, TrapsFit(q, scopes, base), NEW z,
         Tries(z) = Tries(scopes), \A k \in Tries(scopes) : z[k].size = scopes[k].size
  PROVE  TrapsFit(q, z, base)
<1>1. \A j \in DOMAIN q : q[j].scope \in Tries(scopes)
  BY DEF TrapsFit, TrapsOf
<1>2. QED
  BY <1>1 DEF TrapsFit, TrapsOf

\* A scope that is not a try block begins, after some locals more.
LEMMA EnterScopeGood ==
  ASSUME NEW s, Good(s), Depth(s) > 0, ci(s).kind # "native",
         NEW a \in Seq(Vars), Within(s, a, ci(s).vars), Blocks(a, ci(s).scopes),
         Len(ci(s).vars) <= Len(a), \A i \in 1 .. Len(ci(s).vars) : a[i] = ci(s).vars[i],
         NEW kind \in {"block", "switch", "loop"},
         NEW f \in FrameRec, f.vars = a, f.base = ci(s).base,
         f.gen = ci(s).gen, f.root = ci(s).root, f.kind = ci(s).kind, f.etraps = ci(s).etraps,
         f.scopes = Append(ci(s).scopes, Scope(kind, Len(ci(s).vars), Len(a))),
         NEW t, Parts(t, [s.frames EXCEPT ![Depth(s)] = f], s.execs, s.etraps,
                      s.open, s.stray, s.gens)
  PROVE  Good(t) /\ Shares(s, t)
<1>0. Core(s) /\ s \in States
  BY DEF Good, Core
<1> DEFINE z == Append(ci(s).scopes, Scope(kind, Len(ci(s).vars), Len(a)))
<1>1. /\ ci(s) \in FrameRec /\ ci(s).scopes \in Seq(ScopeRec)
      /\ Len(ci(s).vars) \in Nat /\ Blocks(ci(s).vars, ci(s).scopes)
  BY <1>0, TopVars
<1>2. /\ z \in Seq(ScopeRec) /\ Len(z) = Len(ci(s).scopes) + 1
      /\ \A j \in 1 .. Len(ci(s).scopes) : z[j] = ci(s).scopes[j]
      /\ Blocks(a, z) /\ Tries(z) = Tries(ci(s).scopes)
  <2>1. \A j \in 1 .. Len(ci(s).scopes) : ci(s).scopes[j].body <= Len(ci(s).vars)
    BY <1>1 DEF Blocks
  <2>2. QED
    BY <1>1, <2>1, AppendScope
<1> HIDE DEF z
<1>3. /\ f \in FrameRec /\ f.vars = a /\ f.base = ci(s).base
      /\ f.gen = ci(s).gen /\ f.root = ci(s).root /\ f.kind = ci(s).kind
      /\ f.scopes = z /\ f.etraps = ci(s).etraps
  BY DEF z
<1>4. FrameOK(f)
  BY <1>0, <1>2, <1>3, TopOwnIs DEF FrameOK
<1>5. Changes(s, t, f)
  <2>1. Within(s, f.vars, ci(s).vars)
    BY <1>3
  <2>2. QED
    BY ONLY <1>0, <1>3, <1>4, <2>1, Depth(s) > 0, PartsChanges,
            Parts(t, [s.frames EXCEPT ![Depth(s)] = f], s.execs, s.etraps,
                  s.open, s.stray, s.gens)
<1>6. ChangesTraps(s, t, f)
  <2>1. \A k \in Tries(ci(s).scopes) : k \in 1 .. Len(ci(s).scopes)
    BY <1>1 DEF Tries
  <2>2. TrapsFit(OwnTraps(s, Depth(s)), f.scopes, f.base)
    <3>1. TrapsFit(OwnTraps(s, Depth(s)), ci(s).scopes, ci(s).base)
      BY ONLY <1>0, Depth(s) > 0, TopOwnIs
    <3>2. \A k \in Tries(z) : z[k].size = ci(s).scopes[k].size
      BY ONLY <1>2, <2>1
    <3>3. TrapsFit(OwnTraps(s, Depth(s)), z, ci(s).base)
      BY ONLY <1>2, <3>1, <3>2, FitsAgree
    <3>4. QED
      BY ONLY <1>3, <3>3
  <2>3. t.etraps = s.etraps /\ t.execs = s.execs
    BY DEF Parts
  <2>4. QED
    BY <1>0, <1>3, <1>5, <2>2, <2>3, KeepTraps
<1>7. ChangesOpen(s, t, f) /\ ChangesClosed(s, t, f)
  <2>1. \A i \in 1 .. Len(ci(s).vars) : i \in 1 .. Len(f.vars) /\ f.vars[i] = ci(s).vars[i]
    BY <1>1, <1>3
  <2>2. t.open = s.open /\ t.stray = s.stray
    BY DEF Parts
  <2>3. QED
    BY <1>3, <2>1, <2>2, KeepOpen
<1>8. QED
  BY <1>5, <1>6, <1>7, ChangesDone

LEMMA OpenBlockGood ==
  ASSUME NEW s, Good(s), s = vm, NEW t, t = vm', NEW kind \in {"block", "switch"},
         OpenBlock(kind)
  PROVE  Good(t) /\ Shares(s, t)
<1>0. Core(s) /\ s \in States /\ Depth(s) > 0 /\ ci(s).kind # "native"
  BY DEF Good, Core, OpenBlock, Script
<1> DEFINE a == ci(s).vars
           z == Append(ci(s).scopes, Scope(kind, Len(a), Len(a)))
           f == [ci(s) EXCEPT !.scopes = z]
<1>1. /\ ci(s) \in FrameRec /\ a \in Seq(Vars) /\ ci(s).scopes \in Seq(ScopeRec)
      /\ Len(a) \in Nat /\ Blocks(a, ci(s).scopes) /\ Once(a)
  BY <1>0, TopVars
<1>2. z \in Seq(ScopeRec)
  <2>1. Scope(kind, Len(a), Len(a)) \in ScopeRec
    BY <1>1 DEF Scope, ScopeRec
  <2>2. QED
    BY <1>1, <2>1
<1>3. t = SetCi(s, f)
  BY DEF OpenBlock, EnterScope
<1> HIDE DEF z
<1>4. /\ f \in FrameRec /\ f.vars = a /\ f.base = ci(s).base
      /\ f.gen = ci(s).gen /\ f.root = ci(s).root /\ f.kind = ci(s).kind
      /\ f.scopes = z /\ f.etraps = ci(s).etraps
  BY <1>1, <1>2 DEF FrameRec
<1> HIDE DEF f
<1>5. Parts(t, [s.frames EXCEPT ![Depth(s)] = f], s.execs, s.etraps, s.open, s.stray, s.gens)
  BY <1>0, <1>3, <1>4, SetCiIs
<1>6. Within(s, a, ci(s).vars)
  BY <1>1, WithinSelf
<1>7. /\ a \in Seq(Vars) /\ Within(s, a, ci(s).vars) /\ Blocks(a, ci(s).scopes)
      /\ Len(ci(s).vars) <= Len(a) /\ \A i \in 1 .. Len(ci(s).vars) : a[i] = ci(s).vars[i]
      /\ kind \in {"block", "switch", "loop"}
      /\ f.scopes = Append(ci(s).scopes, Scope(kind, Len(ci(s).vars), Len(a)))
  BY <1>1, <1>4, <1>6 DEF z
<1> HIDE DEF a
<1>8. QED
  BY ONLY <1>0, <1>4, <1>5, <1>7, Good(s), EnterScopeGood

LEMMA OpenLoopGood ==
  ASSUME NEW s, Good(s), s = vm, NEW t, t = vm', NEW n \in {0, 1}, OpenLoop(n)
  PROVE  Good(t) /\ Shares(s, t)
<1>0. Core(s) /\ s \in States /\ Depth(s) > 0 /\ ci(s).kind # "native"
  BY DEF Good, Core, OpenLoop, Script
<1> PICK m \in Nat : m = Len(ci(s).vars)
  BY <1>0, TopVars
<1> DEFINE b == ci(s).vars
<1>1. /\ ci(s) \in FrameRec /\ b \in Seq(Vars) /\ ci(s).scopes \in Seq(ScopeRec)
      /\ Blocks(b, ci(s).scopes) /\ Once(b)
  BY <1>0, TopVars
<1>2. n = 1 => Len(b) < FrameSize /\ NextVar(s) \in Fresh(s) /\ NextVar(s) \in Vars
  BY NextVarIs DEF OpenLoop, Room
<1> HIDE DEF b
<1> DEFINE new == IF n = 1 THEN <<NextVar(s)>> ELSE <<>>
           a == b \o new
<1>3. /\ a \in Seq(Vars) /\ Len(a) = m + n /\ \A i \in 1 .. m : a[i] = b[i]
      /\ n = 0 => a = b
      /\ n = 1 => a = Append(b, NextVar(s))
  <2>1. CASE n = 1
    <3>1. a = Append(b, NextVar(s))
      BY <1>1, <1>2, <2>1
    <3>2. QED
      BY <1>1, <1>2, <2>1, <3>1 DEF b
  <2>2. CASE n = 0
    <3>1. a = b
      BY <1>1, <2>2
    <3>2. QED
      BY <1>1, <2>2, <3>1 DEF b
  <2>3. QED
    BY <2>1, <2>2
<1> HIDE DEF a, new
<1>4. Within(s, a, b) /\ Blocks(a, ci(s).scopes)
  <2>1. CASE n = 1
    <3>1. \A x \in 1 .. Len(b) : b[x] # NextVar(s)
      BY <1>0, <1>2, <2>1, TopVars DEF b
    <3>2. Within(s, a, b)
      BY <1>0, <1>1, <1>2, <1>3, <2>1, <3>1, WithinSelf, WithinAppend
    <3>3. Blocks(a, ci(s).scopes)
      BY <1>1, <1>2, <1>3, <2>1, BlocksLocal
    <3>4. QED
      BY <3>2, <3>3
  <2>2. CASE n = 0
    BY <1>1, <1>3, <2>2, WithinSelf
  <2>3. QED
    BY <2>1, <2>2
<1> DEFINE g == [ci(s) EXCEPT !.vars = a]
           z == Append(ci(s).scopes, Scope("loop", m, m + n))
           f == [g EXCEPT !.scopes = z]
           u == SetCi(s, g)
<1>5. z \in Seq(ScopeRec)
  <2>1. Scope("loop", m, m + n) \in ScopeRec
    BY DEF Scope, ScopeRec
  <2>2. QED
    BY <1>1, <2>1
<1> HIDE DEF z
<1>6. /\ g \in FrameRec /\ f \in FrameRec /\ g.scopes = ci(s).scopes
      /\ f.vars = a /\ f.base = ci(s).base /\ f.scopes = z
      /\ f.gen = ci(s).gen /\ f.root = ci(s).root /\ f.kind = ci(s).kind
      /\ f.etraps = ci(s).etraps
  BY <1>1, <1>3, <1>5 DEF FrameRec
<1>8. t = EnterScope(u, Scope("loop", m, m + n))
  <2>1. g = [ci(s) EXCEPT !.vars = @ \o new]
    BY <1>1 DEF a, b, FrameRec
  <2>2. QED
    BY <2>1 DEF OpenLoop, new
<1> HIDE DEF f, g
<1>9. /\ Parts(u, [s.frames EXCEPT ![Depth(s)] = g], s.execs, s.etraps,
               s.open, s.stray, s.gens)
      /\ Depth(u) = Depth(s) /\ ci(u) = g
  BY <1>0, <1>6, SetCiIs
<1> HIDE DEF u
<1>10. t = SetCi(u, f)
  BY <1>6, <1>8, <1>9 DEF EnterScope, f, z
<1>11. Parts(t, [u.frames EXCEPT ![Depth(s)] = f], s.execs, s.etraps, s.open, s.stray, s.gens)
  BY <1>0, <1>6, <1>9, <1>10, SetCiIs DEF Parts
<1>12. [u.frames EXCEPT ![Depth(s)] = f] = [s.frames EXCEPT ![Depth(s)] = f]
  BY <1>0, <1>9, StateIs DEF Parts
<1>13. /\ Parts(t, [s.frames EXCEPT ![Depth(s)] = f], s.execs, s.etraps, s.open, s.stray, s.gens)
       /\ f.scopes = Append(ci(s).scopes, Scope("loop", Len(ci(s).vars), Len(a)))
       /\ Len(ci(s).vars) <= Len(a) /\ \A i \in 1 .. Len(ci(s).vars) : a[i] = ci(s).vars[i]
       /\ Within(s, a, ci(s).vars) /\ "loop" \in {"block", "switch", "loop"}
  BY <1>3, <1>4, <1>6, <1>11, <1>12 DEF z, b
<1>14. QED
  BY ONLY <1>0, <1>3, <1>4, <1>6, <1>13, Good(s), EnterScopeGood

\* A trap more
LEMMA PushTraps ==
  ASSUME NEW s, Core(s), NEW t, NEW f, Changes(s, t, f), NEW trap \in Trap,
         f.etraps = ci(s).etraps + 1,
         t.etraps = Append(s.etraps, trap),
         Len(t.execs) = Len(s.execs),
         \A e \in 1 .. Len(s.execs) :
           t.execs[e] = s.execs[e] + (IF e = Len(s.execs) THEN 1 ELSE 0),
         TrapsFit(Append(OwnTraps(s, Depth(s)), trap), f.scopes, f.base)
  PROVE  ChangesTraps(s, t, f)
<1>0. Depth(s) > 0
  BY DEF Changes
<1> DEFINE q == OwnTraps(s, Depth(s))
<1> PICK b \in Nat : b = LowerTraps(s)
  BY <1>0, TopOwnIs
<1> PICK x \in Nat : x = ci(s).etraps
  BY <1>0, TopOwnIs
<1>1. q \in Seq(Trap) /\ Len(q) = x /\ b + x = Len(s.etraps) /\ s.etraps \in Seq(Trap)
      /\ \A j \in 1 .. x : q[j] = s.etraps[b + j]
  BY <1>0, TopOwnIs, StateIs
<1> HIDE DEF q
<1> PICK l \in Nat : l = b + x
  OBVIOUS
<1> PICK y \in Nat : y = x + 1
  OBVIOUS
<1>2. /\ Len(t.etraps) = l + 1 /\ t.etraps[l + 1] = trap
      /\ \A j \in 1 .. l : t.etraps[j] = s.etraps[j]
  BY ONLY <1>1, trap \in Trap, t.etraps = Append(s.etraps, trap), l = b + x,
          l \in Nat
<1>3. /\ l + 1 = b + y
      /\ \A j \in 1 .. y : j \in 1 .. x \/ j = y
      /\ \A j \in 1 .. x : b + j \in 1 .. l
      /\ \A j \in 1 .. b : j \in 1 .. l
  <2>1. l = b + x /\ y = x + 1 /\ b \in Nat /\ x \in Nat /\ l \in Nat /\ y \in Nat
    OBVIOUS
  <2>2. l + 1 = b + y
    BY ONLY <2>1
  <2>3. \A j \in 1 .. y : j \in 1 .. x \/ j = y
    BY ONLY <2>1
  <2>4. (\A j \in 1 .. x : b + j \in 1 .. l) /\ (\A j \in 1 .. b : j \in 1 .. l)
    BY ONLY <2>1
  <2>5. QED
    BY <2>2, <2>3, <2>4
<1>4. Append(q, trap) = TopTraps(s, t, f)
  <2> DEFINE w == Append(q, trap)
  <2>0. w \in Seq(Trap) /\ Len(w) = y /\ w[y] = trap /\ \A j \in 1 .. x : w[j] = q[j]
    BY ONLY <1>1, x \in Nat, y = x + 1, trap \in Trap
  <2> HIDE DEF w
  <2>1. w = [j \in 1 .. y |-> w[j]] /\ w[y] = trap /\ \A j \in 1 .. x : w[j] = q[j]
    BY <2>0
  <2>2. ASSUME NEW j \in 1 .. y PROVE w[j] = t.etraps[b + j]
    <3>1. CASE j \in 1 .. x
      BY <1>1, <1>2, <1>3, <2>1, <3>1
    <3>2. CASE j = y
      BY <1>2, <1>3, <2>1, <3>2
    <3>3. QED
      BY <1>3, <3>1, <3>2
  <2>3. [j \in 1 .. y |-> w[j]] = [j \in 1 .. y |-> t.etraps[b + j]]
    BY <2>2
  <2>4. w = TopTraps(s, t, f)
    BY <2>1, <2>3 DEF TopTraps
  <2>5. QED
    BY <2>4 DEF w
<1>5. TrapsFit(TopTraps(s, t, f), f.scopes, f.base)
  BY <1>4 DEF q
<1>6. f.etraps - ci(s).etraps = 1 /\ Len(t.etraps) = b + f.etraps
  BY <1>2, <1>3
<1>7. \A j \in 1 .. b : t.etraps[j] = s.etraps[j]
  BY <1>2, <1>3
<1>8. QED
  BY <1>5, <1>6, <1>7 DEF ChangesTraps

LEMMA FitsPush ==
  ASSUME NEW q \in Seq(Trap), NEW scopes \in Seq(ScopeRec), NEW base, TrapsFit(q, scopes, base),
         NEW z, NEW trap \in Trap,
         Tries(z) = Tries(scopes) \union {Len(scopes) + 1},
         \A k \in Tries(scopes) : z[k].size = scopes[k].size,
         trap.scope = Len(scopes) + 1, trap.base = base,
         trap.size = z[Len(scopes) + 1].size
  PROVE  TrapsFit(Append(q, trap), z, base)
<1> DEFINE w == Append(q, trap)
<1> PICK m \in Nat : m = Len(q)
  OBVIOUS
<1> PICK last \in Nat : last = m + 1
  OBVIOUS
<1> PICK sc \in Nat : sc = Len(scopes) + 1
  OBVIOUS
<1>1. DOMAIN w = 1 .. last /\ Len(w) = last /\ w[last] = trap
      /\ \A j \in 1 .. m : w[j] = q[j]
  OBVIOUS
<1>2. DOMAIN q = 1 .. m /\ \A j \in 1 .. m : q[j].scope \in Tries(scopes)
  BY DEF TrapsFit, TrapsOf
<1>3. \A j \in 1 .. last : j \in 1 .. m \/ j = last
  OBVIOUS
<1>4. \A k \in Tries(scopes) : k \in Nat /\ k < sc
  BY DEF Tries
<1>5. last \in 1 .. last /\ \A j \in 1 .. m : j \in 1 .. last
  OBVIOUS
<1> HIDE DEF w
<1>6. {w[j].scope : j \in DOMAIN w} = Tries(z)
  <2>1. {q[j].scope : j \in 1 .. m} = Tries(scopes)
    BY <1>2 DEF TrapsFit, TrapsOf
  <2>2. ASSUME NEW k \in Tries(z) PROVE \E j \in 1 .. last : w[j].scope = k
    <3>1. CASE k \in Tries(scopes)
      <4>1. PICK j \in 1 .. m : q[j].scope = k
        BY <2>1, <3>1
      <4>2. QED
        BY <1>1, <1>5, <4>1
    <3>2. CASE k = sc
      BY <1>1, <1>5, <3>2
    <3>3. QED
      BY <3>1, <3>2
  <2>3. ASSUME NEW j \in 1 .. last PROVE w[j].scope \in Tries(z)
    BY <1>1, <1>2, <1>3
  <2>4. QED
    BY <1>1, <2>2, <2>3
<1>7. ASSUME NEW j \in 1 .. last
      PROVE  w[j].base = base /\ w[j].size = z[w[j].scope].size
  <2>1. CASE j \in 1 .. m
    <3>1. q[j].base = base /\ q[j].size = scopes[q[j].scope].size
      BY <1>2, <2>1 DEF TrapsFit, TrapsOf
    <3>2. QED
      BY <1>1, <1>2, <2>1, <3>1
  <2>2. CASE j = last
    BY <1>1, <2>2
  <2>3. QED
    BY <1>3, <2>1, <2>2
<1>8. ASSUME NEW i \in 1 .. last, NEW j \in 1 .. last, i < j
      PROVE  w[i].scope < w[j].scope
  <2>1. i \in 1 .. m
    BY <1>3, <1>8
  <2>2. CASE j \in 1 .. m
    <3>1. q[i].scope < q[j].scope
      BY <1>8, <2>1, <2>2 DEF TrapsFit
    <3>2. QED
      BY <1>1, <2>1, <2>2, <3>1
  <2>3. CASE j = last
    <3>1. w[i].scope < sc
      BY <1>1, <1>2, <1>4, <2>1
    <3>2. w[j].scope = sc
      BY <1>1, <2>3
    <3>3. QED
      BY <3>1, <3>2
  <2>4. QED
    BY <1>3, <2>2, <2>3
<1>9. QED
  BY <1>1, <1>6, <1>7, <1>8 DEF TrapsFit, TrapsOf, w
LEMMA PUSHTRAPGood ==
  ASSUME NEW s, Good(s), s = vm, NEW t, t = vm', PUSHTRAP
  PROVE  Good(t) /\ Shares(s, t)
<1>0. Core(s) /\ s \in States /\ Depth(s) > 0 /\ ci(s).kind # "native"
      /\ Len(ci(s).vars) < FrameSize
  BY DEF Good, Core, PUSHTRAP, Script
<1> DEFINE a == ci(s).vars
           z == Append(ci(s).scopes, Scope("try", Len(a), Len(a)))
           f == [ci(s) EXCEPT !.etraps = ci(s).etraps + 1, !.scopes = z]
           trap == [base |-> ci(s).base, scope |-> Len(ci(s).scopes) + 1, size |-> Len(a)]
           u == SetCi(s, f)
           v == [u EXCEPT !.etraps = Append(s.etraps, trap)]
<1>1. /\ ci(s) \in FrameRec /\ a \in Seq(Vars) /\ ci(s).scopes \in Seq(ScopeRec)
      /\ Blocks(a, ci(s).scopes) /\ Once(a) /\ ci(s).base \in Nat
      /\ Len(a) \in Nat /\ Len(ci(s).scopes) \in Nat /\ ci(s).etraps \in Nat
      /\ s.etraps \in Seq(Trap) /\ s.execs \in Seq(Int) /\ Len(s.execs) > 0
  BY <1>0, TopVars, TopOwnIs, StateIs
<1>2. /\ z \in Seq(ScopeRec) /\ Len(z) = Len(ci(s).scopes) + 1
      /\ \A j \in 1 .. Len(ci(s).scopes) : z[j] = ci(s).scopes[j]
      /\ z[Len(ci(s).scopes) + 1] = Scope("try", Len(a), Len(a))
      /\ Blocks(a, z) /\ Tries(z) = Tries(ci(s).scopes) \union {Len(ci(s).scopes) + 1}
  <2>1. \A j \in 1 .. Len(ci(s).scopes) : ci(s).scopes[j].body <= Len(a)
    BY <1>1 DEF Blocks
  <2> DEFINE sc == ci(s).scopes
  <2> PICK kind \in {"block", "switch", "loop", "try"} : kind = "try"
    OBVIOUS
  <2>2. /\ a \in Seq(Vars) /\ sc \in Seq(ScopeRec) /\ Blocks(a, sc)
        /\ Len(a) \in Nat /\ Len(a) <= Len(a)
        /\ \A j \in 1 .. Len(sc) : sc[j].body <= Len(a)
        /\ kind = "try" => Len(a) < FrameSize
    BY <1>0, <1>1, <2>1
  <2> HIDE DEF a, sc
  <2>3. LET y == Append(sc, Scope(kind, Len(a), Len(a)))
        IN /\ y \in Seq(ScopeRec) /\ Len(y) = Len(sc) + 1
           /\ \A j \in 1 .. Len(sc) : y[j] = sc[j]
           /\ y[Len(sc) + 1] = Scope(kind, Len(a), Len(a))
           /\ Blocks(a, y)
           /\ Tries(y) = (IF kind = "try" THEN Tries(sc) \union {Len(sc) + 1} ELSE Tries(sc))
    BY ONLY <2>2, kind \in {"block", "switch", "loop", "try"}, AppendScope
  <2> HIDE DEF Scope
  <2>4. QED
    BY ONLY <2>3, kind = "try" DEF sc
<1>3. trap \in Trap /\ trap.base = ci(s).base /\ trap.size = Len(a)
      /\ trap.scope = Len(ci(s).scopes) + 1
  BY <1>1 DEF Trap
<1>4. t = AddTraps(v, 1)
  <2>1. [SetCi(s, f) EXCEPT !.etraps = Append(@, trap)] = v
    <3>1. u.etraps = s.etraps /\ u \in States
      <4>1. f \in FrameRec
        <5> HIDE DEF z
        <5>1. ci(s) \in FrameRec /\ z \in Seq(ScopeRec) /\ ci(s).etraps + 1 \in Nat
          BY <1>1, <1>2
        <5>2. QED
          BY ONLY <5>1 DEF FrameRec
      <4>2. QED
        BY <1>0, <4>1, SetCiIs DEF Parts
    <3>2. QED
      BY <3>1 DEF States
  <2>2. QED
    BY <2>1 DEF PUSHTRAP
<1> HIDE DEF z, trap
<1>5. /\ f \in FrameRec /\ f.vars = a /\ f.base = ci(s).base
      /\ f.gen = ci(s).gen /\ f.root = ci(s).root /\ f.kind = ci(s).kind
      /\ f.scopes = z /\ f.etraps = ci(s).etraps + 1
  <2>1. ci(s) \in FrameRec /\ z \in Seq(ScopeRec) /\ ci(s).etraps + 1 \in Nat
    BY <1>1, <1>2
  <2>2. QED
    BY ONLY <2>1 DEF FrameRec
<1> HIDE DEF f
<1>6. FrameOK(f)
  BY <1>0, <1>2, <1>5, TopOwnIs DEF FrameOK
<1>7. Within(s, f.vars, ci(s).vars)
  BY <1>1, <1>5, WithinSelf
<1>8. Parts(u, [s.frames EXCEPT ![Depth(s)] = f], s.execs, s.etraps, s.open, s.stray, s.gens)
  BY <1>0, <1>5, SetCiIs
<1> HIDE DEF u
<1>9. Parts(v, u.frames, u.execs, Append(s.etraps, trap), u.open, u.stray, u.gens)
  <2>1. Append(s.etraps, trap) \in Seq(Trap)
    BY <1>1, <1>3
  <2>2. QED
    BY <1>8, <2>1, SetEtraps DEF Parts
<1> HIDE DEF v
<1>10. PICK q \in Seq(Int) :
         /\ Parts(t, v.frames, q, v.etraps, v.open, v.stray, v.gens)
         /\ Len(q) = Len(v.execs)
         /\ \A e \in 1 .. Len(q) : q[e] = v.execs[e] + (IF e = Len(v.execs) THEN 1 ELSE 0)
  <2>1. v \in States /\ Len(v.execs) > 0 /\ 1 \in Int
    BY <1>1, <1>8, <1>9 DEF Parts
  <2>2. QED
    BY <1>4, <2>1, AddTrapsIs
<1>11. /\ t \in States /\ t.frames = [s.frames EXCEPT ![Depth(s)] = f]
       /\ t.etraps = Append(s.etraps, trap) /\ t.open = s.open /\ t.stray = s.stray
       /\ t.gens = s.gens /\ Len(t.execs) = Len(s.execs)
       /\ \A e \in 1 .. Len(s.execs) :
            t.execs[e] = s.execs[e] + (IF e = Len(s.execs) THEN 1 ELSE 0)
  BY ONLY <1>8, <1>9, <1>10 DEF Parts
<1>12. Changes(s, t, f)
  BY <1>0, <1>5, <1>6, <1>7, <1>11 DEF Changes
<1>13. ChangesTraps(s, t, f)
  <2> DEFINE own == OwnTraps(s, Depth(s))
  <2>1. own \in Seq(Trap) /\ TrapsFit(own, ci(s).scopes, ci(s).base)
    BY <1>0, TopOwnIs
  <2> HIDE DEF own
  <2>2. \A k \in Tries(ci(s).scopes) : z[k].size = ci(s).scopes[k].size
    <3>1. \A k \in Tries(ci(s).scopes) : k \in 1 .. Len(ci(s).scopes)
      BY <1>1 DEF Tries
    <3>2. QED
      BY <1>2, <3>1
  <2>3. trap.size = z[Len(ci(s).scopes) + 1].size
    BY <1>2, <1>3 DEF Scope
  <2>4. TrapsFit(Append(own, trap), f.scopes, f.base)
    BY <1>1, <1>2, <1>3, <1>5, <2>1, <2>2, <2>3, FitsPush
  <2>5. QED
    BY <1>0, <1>3, <1>5, <1>11, <1>12, <2>4, PushTraps DEF own
<1>14. ChangesOpen(s, t, f) /\ ChangesClosed(s, t, f)
  BY <1>5, <1>11, KeepOpen
<1>15. QED
  BY <1>12, <1>13, <1>14, ChangesDone

LEMMA NativeTailCallGood ==
  ASSUME NEW s, Good(s), s = vm, NEW t, t = vm', NativeTailCall
  PROVE  Good(t) /\ Shares(s, t)
<1>0. Core(s) /\ s \in States /\ Depth(s) > 0
  BY DEF Good, Core, NativeTailCall, Native
<1> DEFINE f == [ci(s) EXCEPT !.kind = "script"]
<1>1. /\ ci(s) \in FrameRec /\ Blocks(ci(s).vars, ci(s).scopes) /\ Once(ci(s).vars)
  BY <1>0, TopVars
<1>2. t = SetCi(s, f)
  BY DEF NativeTailCall
<1>3. /\ f \in FrameRec /\ f.vars = ci(s).vars /\ f.base = ci(s).base
      /\ f.gen = ci(s).gen /\ f.root = ci(s).root /\ f.kind = "script"
      /\ f.scopes = ci(s).scopes /\ f.etraps = ci(s).etraps
  BY <1>1 DEF FrameRec
<1> HIDE DEF f
<1>4. FrameOK(f)
  BY <1>1, <1>3 DEF FrameOK
<1>5. Within(s, f.vars, ci(s).vars)
  BY <1>1, <1>3, WithinSelf
<1>6. /\ Changes(s, t, f) /\ t.execs = s.execs /\ t.etraps = s.etraps
      /\ t.open = s.open /\ t.stray = s.stray
  BY <1>0, <1>2, <1>3, <1>4, <1>5, SetCiChanges
<1>7. ChangesTraps(s, t, f)
  BY <1>0, <1>3, <1>6, TopOwnIs, KeepTraps
<1>8. ChangesOpen(s, t, f) /\ ChangesClosed(s, t, f)
  BY <1>3, <1>6, KeepOpen
<1>9. QED
  BY <1>6, <1>7, <1>8, ChangesDone

LEMMA CLOSUREGood ==
  ASSUME NEW s, Good(s), s = vm, NEW t, t = vm', NEW i \in 1 .. FrameSize, CLOSURE(i)
  PROVE  Good(t) /\ Shares(s, t)
<1> DEFINE f == ci(s)
           new == [pos |-> f.base + i - 1, var |-> f.vars[i]]
<1>0. /\ Core(s) /\ s \in States /\ Depth(s) > 0 /\ i \in DOMAIN f.vars
      /\ t = FindOuter(s, f.base + i - 1, f.vars[i])
  BY DEF Good, Core, CLOSURE, Script
<1>1. /\ f \in FrameRec /\ f.vars \in Seq(Vars) /\ Len(f.vars) \in Nat /\ Once(f.vars)
      /\ f.scopes \in Seq(ScopeRec) /\ f.base \in Nat /\ FrameOK(f)
      /\ s.frames \in Seq(FrameRec) /\ Depth(s) \in 1 .. Len(s.frames)
      /\ s.frames[Depth(s)] = f
  BY <1>0, TopVars, TopOwnIs, TopIs
<1>2. i \in Nat /\ i \in 1 .. Len(f.vars) /\ f.vars[i] \in Vars
  BY <1>0, <1>1
<1>3. new \in Outer /\ new.pos = f.base + i - 1 /\ new.var = f.vars[i]
  BY <1>1, <1>2 DEF Outer
<1>4. OuterIn(f, new, i)
  BY <1>2, <1>3 DEF OuterIn
<1> HIDE DEF new
<1>5. /\ t \in States /\ t.frames = s.frames /\ t.execs = s.execs /\ t.etraps = s.etraps
      /\ t.stray = s.stray /\ t.gens = s.gens
      /\ t.open = s.open \/ t.open = s.open \union {new}
  <2>1. CASE t = s
    BY <1>0, <2>1
  <2>2. CASE t = [s EXCEPT !.open = s.open \union {new}]
    <3> DEFINE op == s.open \union {new}
    <3>1. op \in SUBSET Outer /\ s.open \subseteq op
      BY <1>0, <1>3, StateIs
    <3> HIDE DEF op
    <3>2. Parts([s EXCEPT !.open = op], s.frames, s.execs, s.etraps, op, s.stray, s.gens)
      BY <1>0, <3>1, AddOpen
    <3>3. t = [s EXCEPT !.open = op]
      BY <2>2 DEF op
    <3>4. QED
      BY <3>2, <3>3 DEF Parts, op
  <2>3. t = s \/ t = [s EXCEPT !.open = s.open \union {new}]
    BY <1>0 DEF FindOuter, new, States
  <2>4. QED
    BY <2>1, <2>2, <2>3
<1>6. t.frames = [s.frames EXCEPT ![Depth(s)] = f]
  BY <1>1, <1>5
<1>7. Changes(s, t, f)
  BY <1>0, <1>1, <1>5, <1>6, WithinSelf DEF Changes
<1>8. ChangesTraps(s, t, f)
  BY <1>0, <1>5, <1>7, TopOwnIs, KeepTraps
<1>9. ChangesOpen(s, t, f) /\ ChangesClosed(s, t, f)
  BY <1>2, <1>4, <1>5 DEF ChangesOpen, ChangesClosed
<1>10. QED
  BY <1>7, <1>8, <1>9, ChangesDone

\* The first keep scopes stay open, with m locals.
Inside(scopes, keep, m) == \A j \in 1 .. keep : scopes[j].body <= m
First(z, q, n) == z = SubSeq(q, 1, n)

LEMMA BlocksPart ==
  ASSUME NEW vars \in Seq(Vars), NEW scopes \in Seq(ScopeRec), Blocks(vars, scopes),
         NEW keep \in 0 .. Len(scopes), NEW m \in 0 .. Len(vars), Inside(scopes, keep, m),
         NEW z, First(z, scopes, keep), NEW w, First(w, vars, m)
  PROVE  /\ z \in Seq(ScopeRec) /\ Len(z) = keep /\ \A j \in 1 .. keep : z[j] = scopes[j]
         /\ Blocks(w, z)
<1> PICK l \in Nat : l = Len(scopes)
  OBVIOUS
<1> PICK n \in Nat : n = Len(vars)
  OBVIOUS
<1>1. keep \in Nat /\ keep <= l /\ m \in Nat /\ m <= n
      /\ \A j \in 1 .. keep : j \in 1 .. l
  OBVIOUS
<1>2. z \in Seq(ScopeRec) /\ Len(z) = keep /\ \A j \in 1 .. keep : z[j] = scopes[j]
  BY <1>1 DEF First
<1>3. Len(w) = m
  BY <1>1 DEF First
<1>4. n <= FrameSize /\ FrameSize \in Nat
  BY BoundsAssumption DEF Blocks
<1>5. m <= FrameSize
  BY <1>1, <1>4
<1>6. \A j \in 1 .. keep :
        /\ z[j].size <= z[j].body /\ z[j].body <= m
        /\ z[j].kind = "try" => z[j].size < FrameSize
  BY <1>1, <1>2 DEF Blocks, Inside
<1>7. \A i, j \in 1 .. keep : i < j => z[i].body <= z[j].size
  BY <1>1, <1>2 DEF Blocks
<1>8. QED
  BY <1>2, <1>3, <1>5, <1>6, <1>7 DEF Blocks

\* The last traps are those of the innermost try blocks.
LEMMA LastTraps ==
  ASSUME NEW q \in Seq(Trap), NEW scopes \in Seq(ScopeRec), NEW base,
         TrapsFit(q, scopes, base), NEW keep \in 0 .. Len(scopes)
  PROVE  \E m \in 0 .. Len(q) :
           /\ Cardinality({k \in keep + 1 .. Len(scopes) : scopes[k].kind = "try"})
                = Len(q) - m
           /\ \A j \in 1 .. m : q[j].scope <= keep
           /\ \A j \in m + 1 .. Len(q) : q[j].scope > keep
<1> PICK l \in Nat : l = Len(q)
  OBVIOUS
<1> DEFINE K == {k \in keep + 1 .. Len(scopes) : scopes[k].kind = "try"}
<1>0. DOMAIN q = 1 .. l /\ DOMAIN scopes = 1 .. Len(scopes) /\ Len(scopes) \in Nat
      /\ keep \in Nat
  OBVIOUS
<1>1. /\ \A j \in 1 .. l : q[j].scope \in Nat /\ q[j].scope \in Tries(scopes)
      /\ \A k \in Tries(scopes) : \E j \in 1 .. l : q[j].scope = k
      /\ \A i, j \in 1 .. l : i < j => q[i].scope < q[j].scope
  <2>1. \A j \in 1 .. l : q[j] \in Trap
    BY <1>0
  <2>2. QED
    BY <1>0, <2>1 DEF TrapsFit, TrapsOf, Trap
<1>2. PICK m \in 0 .. l :
        /\ \A j \in 1 .. m : q[j].scope <= keep
        /\ \A j \in m + 1 .. l : q[j].scope > keep
  <2> DEFINE T == {j \in 1 .. l + 1 : j = l + 1 \/ q[j].scope > keep}
  <2>1. T \in SUBSET Nat /\ T # {}
    <3>1. l + 1 \in T
      OBVIOUS
    <3>2. QED
      BY <3>1
  <2>2. PICK first \in T : \A y \in T : first <= y
    <3> HIDE DEF T
    <3>1. QED
      BY <2>1, LeastNat
  <2> PICK m \in 0 .. l : m = first - 1 /\ first = m + 1
    OBVIOUS
  <2>3. \A j \in 1 .. m : q[j].scope <= keep
    <3>1. SUFFICES ASSUME NEW j \in 1 .. m PROVE q[j].scope <= keep
      OBVIOUS
    <3>2. j \notin T
      BY <2>2
    <3>3. j \in 1 .. l /\ j \in 1 .. l + 1
      OBVIOUS
    <3>4. QED
      BY <1>0, <1>1, <3>2, <3>3
  <2>4. \A j \in m + 1 .. l : q[j].scope > keep
    <3>1. SUFFICES ASSUME NEW j \in m + 1 .. l PROVE q[j].scope > keep
      OBVIOUS
    <3>2. j \in 1 .. l /\ m + 1 \in 1 .. l /\ j \in Nat
      OBVIOUS
    <3>3. q[m + 1].scope > keep
      BY <2>2, <3>2
    <3>4. j = m + 1 \/ m + 1 < j
      OBVIOUS
    <3>5. QED
      BY <1>0, <1>1, <3>2, <3>3, <3>4
  <2>5. QED
    BY <2>3, <2>4
<1>3. Cardinality(K) = l - m
  <2> DEFINE f == [j \in m + 1 .. l |-> q[j].scope]
  <2>1. \A j \in m + 1 .. l : j \in 1 .. l /\ j \in Nat
    OBVIOUS
  <2>2. f \in [m + 1 .. l -> K]
    BY <1>0, <1>1, <1>2, <2>1 DEF Tries
  <2>3. \A i, j \in m + 1 .. l : f[i] = f[j] => i = j
    BY <1>1, <2>1
  <2>4. \A k \in K : \E j \in m + 1 .. l : f[j] = k
    <3>1. SUFFICES ASSUME NEW k \in K PROVE \E j \in m + 1 .. l : f[j] = k
      OBVIOUS
    <3>2. k \in Tries(scopes) /\ k > keep
      BY <1>0 DEF Tries
    <3>3. PICK j \in 1 .. l : q[j].scope = k
      BY <1>1, <3>2
    <3>4. j \in m + 1 .. l
      BY <1>0, <1>1, <1>2, <3>2, <3>3
    <3>5. QED
      BY <3>3, <3>4
  <2> HIDE DEF K, f
  <2>5. f \in Bijection(m + 1 .. l, K)
    BY <2>2, <2>3, <2>4 DEF Bijection, Injection, Surjection, IsInjective
  <2>6. IsFiniteSet(m + 1 .. l) /\ Cardinality(m + 1 .. l) = l - m
    <3>1. m + 1 \in Int /\ l \in Int
      OBVIOUS
    <3>2. IsFiniteSet(m + 1 .. l)
          /\ Cardinality(m + 1 .. l) = (IF m + 1 > l THEN 0 ELSE l - (m + 1) + 1)
      BY <3>1, FS_Interval
    <3>3. (IF m + 1 > l THEN 0 ELSE l - (m + 1) + 1) = l - m
      OBVIOUS
    <3>4. QED
      BY <3>2, <3>3
  <2>7. QED
    BY <2>5, <2>6, FS_Bijection DEF ExistsBijection
<1>4. QED
  BY <1>2, <1>3

\* The traps of the scopes that stay open
LEMMA FitsPart ==
  ASSUME NEW q \in Seq(Trap), NEW scopes \in Seq(ScopeRec), NEW base,
         TrapsFit(q, scopes, base), NEW keep \in 0 .. Len(scopes),
         NEW m \in 0 .. Len(q),
         \A j \in 1 .. m : q[j].scope <= keep,
         \A j \in m + 1 .. Len(q) : q[j].scope > keep,
         NEW z, Tries(z) = {k \in Tries(scopes) : k <= keep},
         \A k \in 1 .. keep : z[k].size = scopes[k].size
  PROVE  TrapsFit(SubSeq(q, 1, m), z, base)
<1> PICK l \in Nat : l = Len(q)
  OBVIOUS
<1> DEFINE w == SubSeq(q, 1, m)
<1>0. /\ DOMAIN q = 1 .. l /\ keep \in Nat /\ m \in Nat
      /\ \A j \in 1 .. m : j \in 1 .. l
      /\ \A j \in 1 .. l : j \in 1 .. m \/ j \in m + 1 .. l
      /\ \A k \in Tries(scopes) : k \in Nat /\ k >= 1
  BY DEF Tries
<1>1. DOMAIN w = 1 .. m /\ Len(w) = m /\ \A j \in 1 .. m : w[j] = q[j]
  OBVIOUS
<1> HIDE DEF w
<1>2. /\ \A j \in 1 .. l : q[j].scope \in Tries(scopes) /\ q[j].base = base
                           /\ q[j].size = scopes[q[j].scope].size
      /\ \A k \in Tries(scopes) : \E j \in 1 .. l : q[j].scope = k
      /\ \A i, j \in 1 .. l : i < j => q[i].scope < q[j].scope
  BY <1>0 DEF TrapsFit, TrapsOf
<1>3. {w[j].scope : j \in DOMAIN w} = Tries(z)
  <2>1. ASSUME NEW k \in Tries(z) PROVE \E j \in 1 .. m : w[j].scope = k
    <3>1. PICK j \in 1 .. l : q[j].scope = k
      BY <1>2
    <3>2. ~ (q[j].scope > keep)
      <4>1. k <= keep /\ k \in Nat
        BY <1>0
      <4>2. QED
        BY ONLY <1>0, <3>1, <4>1
    <3>3. j \in 1 .. m
      BY <1>0, <3>2
    <3>4. QED
      BY <1>1, <3>1, <3>3
  <2>2. ASSUME NEW j \in 1 .. m PROVE w[j].scope \in Tries(z)
    BY <1>0, <1>1, <1>2
  <2>3. QED
    BY ONLY <1>1, <2>1, <2>2
<1>4. ASSUME NEW j \in 1 .. m
      PROVE  w[j].base = base /\ w[j].size = z[w[j].scope].size
  <2>1. w[j] = q[j] /\ j \in 1 .. l /\ q[j].scope \in 1 .. keep
    BY <1>0, <1>1, <1>2
  <2>2. PICK k \in 1 .. keep : k = q[j].scope
    BY <2>1
  <2>3. z[k].size = scopes[k].size
    OBVIOUS
  <2>4. q[j].base = base /\ q[j].size = scopes[k].size
    BY <1>2, <2>1, <2>2
  <2>5. QED
    BY ONLY <2>1, <2>2, <2>3, <2>4
<1>5. \A i, j \in 1 .. m : i < j => w[i].scope < w[j].scope
  BY <1>0, <1>1, <1>2
<1>6. TrapsFit(w, z, base)
  BY ONLY <1>1, <1>3, <1>4, <1>5 DEF TrapsFit, TrapsOf
<1>7. QED
  BY <1>6 DEF w
LEMMA FitsEmpty ==
  ASSUME NEW q \in Seq(Trap), Len(q) = 0, NEW base
  PROVE  TrapsFit(q, <<>>, base)
<1>1. DOMAIN q = {}
  OBVIOUS
<1>2. {q[j].scope : j \in DOMAIN q} = {}
  BY <1>1
<1>3. Tries(<<>>) = {}
  BY DEF Tries
<1>4. QED
  BY <1>1, <1>2, <1>3 DEF TrapsFit, TrapsOf

LEMMA TAILCALLGood ==
  ASSUME NEW s, Good(s), s = vm, NEW t, t = vm', TAILCALL
  PROVE  Good(t) /\ Shares(s, t)
<1>1. Core(s) /\ Depth(s) > 0 /\ ci(s).etraps = 0
  BY DEF Good, TAILCALL, Script
<1>2. s \in States /\ ci(s) \in FrameRec
  BY <1>1, TopIs DEF Core
<1> PICK base \in Nat : base = ci(s).base
  BY <1>2, FrameIs
<1> DEFINE f == [ci(s) EXCEPT !.kind = "script", !.vars = <<>>, !.scopes = <<>>]
           c == CloseOuters(s, base)
<1>3. f \in FrameRec /\ f.base = base /\ f.gen = ci(s).gen /\ f.root = ci(s).root
      /\ f.vars = <<>> /\ f.scopes = <<>> /\ f.etraps = ci(s).etraps /\ f.kind = "script"
  <2>1. <<>> \in Seq(Vars) /\ <<>> \in Seq(ScopeRec)
    OBVIOUS
  <2>2. QED
    BY ONLY <1>2, <2>1, base = ci(s).base DEF FrameRec
<1>4. t = SetCi(c, f)
  BY DEF TAILCALL
<1> HIDE DEF f
<1>5. Parts(c, s.frames, s.execs, s.etraps, Lower(s.open, base), Lower(s.stray, base), s.gens)
  <2>1. base \in Int
    OBVIOUS
  <2>2. QED
    BY ONLY <1>2, <2>1, CloseOutersIs DEF c
<1> HIDE DEF c
<1>6. c \in States /\ Depth(c) = Depth(s)
  BY <1>5 DEF Parts, Depth
<1>7. Parts(t, [s.frames EXCEPT ![Depth(s)] = f], s.execs, s.etraps,
            Lower(s.open, base), Lower(s.stray, base), s.gens)
  BY <1>1, <1>3, <1>4, <1>5, <1>6, SetCiIs DEF Parts
<1>8. FrameOK(f)
  BY <1>3, BoundsAssumption DEF FrameOK, Blocks
<1>9. Changes(s, t, f)
  <2>1. Within(s, f.vars, ci(s).vars)
    BY <1>3, ApartEmpty DEF Within
  <2>2. QED
    BY <1>1, <1>3, <1>7, <1>8, <2>1 DEF Changes, Parts
<1>10. ChangesTraps(s, t, f)
  <2>1. OwnTraps(s, Depth(s)) \in Seq(Trap) /\ Len(OwnTraps(s, Depth(s))) = 0
    BY <1>1, TopOwnIs
  <2>2. TrapsFit(OwnTraps(s, Depth(s)), f.scopes, f.base)
    BY <1>3, <2>1, FitsEmpty
  <2>3. QED
    BY <1>1, <1>3, <1>7, <1>9, <2>2, KeepTraps DEF Parts
<1>11. ChangesOpen(s, t, f)
  <2>1. t.open = Lower(s.open, base) /\ t.stray = Lower(s.stray, base)
    BY <1>7 DEF Parts
  <2>2. ASSUME NEW o \in Lower(s.open, base), NEW i \in Nat, OuterIn(ci(s), o, i)
        PROVE  FALSE
    <3>1. o.pos < base /\ ci(s).base + i - 1 = o.pos /\ i \in 1 .. Len(ci(s).vars)
      BY <2>2 DEF Lower, OuterIn
    <3>2. QED
      BY <3>1
  <2>3. QED
    BY <2>1, <2>2 DEF ChangesOpen, Lower
<1>12. ChangesClosed(s, t, f)
  <2>1. \A o \in s.open : o.pos \in Nat
    BY <1>2, StateIs
  <2>2. t.open = Lower(s.open, base)
    BY <1>7 DEF Parts
  <2>3. \A o \in s.open : o \notin t.open => o.pos >= f.base
    BY <1>3, <2>1, <2>2 DEF Lower
  <2>4. Len(f.vars) = 0
    BY <1>3
  <2>5. QED
    BY <2>3, <2>4 DEF ChangesClosed
<1>13. QED
  BY <1>9, <1>10, <1>11, <1>12, ChangesDone

----------------------------------------------------------------------------
(* Scopes are left *)

\* The frame f has the first keep scopes and m locals, and n traps less.
Left(s, keep, m, n, u, f, q) ==
  /\ n \in 0 .. ci(s).etraps
  /\ f.scopes = SubSeq(ci(s).scopes, 1, keep)
  /\ f.vars = SubSeq(ci(s).vars, 1, m)
  /\ f.base = ci(s).base /\ f.gen = ci(s).gen /\ f.root = ci(s).root
  /\ f.kind = ci(s).kind /\ f.etraps = ci(s).etraps - n
  /\ Parts(u, [s.frames EXCEPT ![Depth(s)] = f], q, Without(s.etraps, n),
           s.open, s.stray, s.gens)
  /\ Len(q) = Len(s.execs)
  /\ \A e \in 1 .. Len(q) :
       q[e] = s.execs[e] + (IF e = Len(s.execs) THEN -n ELSE 0)
  /\ TrapsFit(SubSeq(OwnTraps(s, Depth(s)), 1, ci(s).etraps - n), f.scopes, f.base)
  /\ FrameOK(f) /\ Within(s, f.vars, ci(s).vars)

LEMMA LeaveIs ==
  ASSUME NEW s, Core(s), Depth(s) > 0, ci(s).kind # "native",
         NEW keep \in 0 .. Len(ci(s).scopes), NEW m \in 0 .. Len(ci(s).vars),
         \A j \in 1 .. keep : ci(s).scopes[j].body <= m,
         NEW u, u = Leave(s, keep, m)
  PROVE  \E n \in Nat, f \in FrameRec, q \in Seq(Int) : Left(s, keep, m, n, u, f, q)
<1> DEFINE own == OwnTraps(s, Depth(s))
           z == SubSeq(ci(s).scopes, 1, keep)
           a == SubSeq(ci(s).vars, 1, m)
           n == Cardinality({k \in keep + 1 .. Len(ci(s).scopes) :
                               ci(s).scopes[k].kind = "try"})
           b == POPTRAP(s, n)
<1>0. /\ s \in States /\ ci(s) \in FrameRec /\ ci(s).scopes \in Seq(ScopeRec)
      /\ ci(s).vars \in Seq(Vars) /\ Blocks(ci(s).vars, ci(s).scopes)
      /\ Once(ci(s).vars) /\ Len(ci(s).scopes) \in Nat
  BY TopVars DEF Core
<1>1. /\ own \in Seq(Trap) /\ Len(own) = ci(s).etraps /\ ci(s).etraps \in Nat
      /\ TrapsFit(own, ci(s).scopes, ci(s).base) /\ Len(s.execs) > 0
      /\ ci(s).etraps <= Len(s.etraps) /\ FrameOK(ci(s))
  BY TopOwnIs
<1> HIDE DEF own
<1>2. /\ z \in Seq(ScopeRec) /\ Len(z) = keep /\ \A j \in 1 .. keep : z[j] = ci(s).scopes[j]
      /\ Blocks(a, z)
  <2> DEFINE sc == ci(s).scopes
             va == ci(s).vars
  <2>1. /\ va \in Seq(Vars) /\ sc \in Seq(ScopeRec) /\ Blocks(va, sc)
        /\ keep \in 0 .. Len(sc) /\ m \in 0 .. Len(va)
        /\ Inside(sc, keep, m)
    BY <1>0 DEF Inside
  <2> HIDE DEF sc, va
  <2> PICK y, w : y = SubSeq(sc, 1, keep) /\ w = SubSeq(va, 1, m)
    OBVIOUS
  <2>2. /\ y \in Seq(ScopeRec) /\ Len(y) = keep /\ \A j \in 1 .. keep : y[j] = sc[j]
        /\ Blocks(w, y)
    <3>1. First(y, sc, keep) /\ First(w, va, m)
      BY DEF First
    <3>2. QED
      BY ONLY <2>1, <3>1, BlocksPart
  <2>3. QED
    BY <2>2 DEF sc, va
<1>3. a \in Seq(Vars) /\ Len(a) = m
  BY <1>0
<1>4. Within(s, a, ci(s).vars)
  BY <1>0, WithinPart
<1>5. u = SetCi(b, [ci(b) EXCEPT !.scopes = SubSeq(ci(b).scopes, 1, keep),
                                 !.vars = SubSeq(ci(b).vars, 1, m)])
  BY DEF Leave
<1> HIDE DEF z, a
<1>6. PICK x \in 0 .. Len(own) :
        /\ n = Len(own) - x
        /\ \A j \in 1 .. x : own[j].scope <= keep
        /\ \A j \in x + 1 .. Len(own) : own[j].scope > keep
  BY <1>0, <1>1, LastTraps
<1> HIDE DEF n
<1>7. n \in 0 .. ci(s).etraps /\ ci(s).etraps - n = x /\ n \in Nat
  BY <1>1, <1>6
<1>8. TrapsFit(SubSeq(own, 1, x), z, ci(s).base)
  <2>1. Tries(z) = {k \in Tries(ci(s).scopes) : k <= keep}
    <3>1. DOMAIN z = 1 .. keep /\ DOMAIN ci(s).scopes = 1 .. Len(ci(s).scopes)
      BY <1>0, <1>2
    <3>2. ASSUME NEW k PROVE k \in Tries(z) <=> k \in Tries(ci(s).scopes) /\ k <= keep
      BY <1>0, <1>2, <3>1 DEF Tries
    <3>3. QED
      BY <3>2
  <2>2. \A k \in 1 .. keep : z[k].size = ci(s).scopes[k].size
    BY <1>2
  <2>3. QED
    BY <1>0, <1>1, <1>6, <2>1, <2>2, FitsPart
<1>9. PICK p \in FrameRec, q \in Seq(Int) :
        /\ p = [ci(s) EXCEPT !.etraps = ci(s).etraps - n]
        /\ Parts(b, [s.frames EXCEPT ![Depth(s)] = p], q, Without(s.etraps, n),
                 s.open, s.stray, s.gens)
        /\ Depth(b) = Depth(s) /\ ci(b) = p
        /\ Len(q) = Len(s.execs)
        /\ \A e \in 1 .. Len(q) :
             q[e] = s.execs[e] + (IF e = Len(s.execs) THEN -n ELSE 0)
  BY ONLY <1>0, <1>1, <1>7, Depth(s) > 0, POPTRAPIs DEF b
<1> HIDE DEF b
<1>10. /\ p.base = ci(s).base /\ p.gen = ci(s).gen /\ p.root = ci(s).root
       /\ p.kind = ci(s).kind /\ p.etraps = ci(s).etraps - n
       /\ p.scopes = ci(s).scopes /\ p.vars = ci(s).vars
  BY ONLY <1>0, <1>9 DEF FrameRec
<1> DEFINE f == [p EXCEPT !.scopes = z, !.vars = a]
<1>11. /\ f \in FrameRec /\ f.scopes = z /\ f.vars = a
       /\ f.base = p.base /\ f.gen = p.gen /\ f.root = p.root
       /\ f.kind = p.kind /\ f.etraps = p.etraps
  BY ONLY <1>2, <1>3, p \in FrameRec DEF FrameRec
<1>12. u = SetCi(b, f)
  BY ONLY <1>5, <1>9, <1>10 DEF a, z
<1> HIDE DEF f
<1>13. Parts(u, [s.frames EXCEPT ![Depth(s)] = f], q, Without(s.etraps, n),
             s.open, s.stray, s.gens)
  <2>1. b \in States /\ Depth(b) > 0 /\ b.frames = [s.frames EXCEPT ![Depth(s)] = p]
    BY <1>9 DEF Parts
  <2>2. Parts(u, [b.frames EXCEPT ![Depth(b)] = f], b.execs, b.etraps, b.open, b.stray, b.gens)
    BY <1>11, <1>12, <2>1, SetCiIs
  <2>3. [b.frames EXCEPT ![Depth(b)] = f] = [s.frames EXCEPT ![Depth(s)] = f]
    BY <1>9, <2>1
  <2>4. QED
    BY ONLY <1>9, <2>2, <2>3 DEF Parts
<1>14. FrameOK(f)
  BY <1>1, <1>2, <1>10, <1>11 DEF FrameOK
<1>15. Left(s, keep, m, n, u, f, q)
  BY ONLY <1>4, <1>7, <1>8, <1>9, <1>10, <1>11, <1>13, <1>14 DEF a, z, own, Left
<1>16. QED
  BY <1>7, <1>11, <1>15

\* The function goes on after that, whatever is closed.
LEMMA LeftChanges ==
  ASSUME NEW s, Core(s), Depth(s) > 0, NEW keep, NEW m, NEW n, NEW u, NEW f \in FrameRec, NEW q,
         Left(s, keep, m, n, u, f, q),
         NEW t, NEW op, NEW st, Parts(t, u.frames, u.execs, u.etraps, op, st, u.gens)
  PROVE  Changes(s, t, f) /\ ChangesTraps(s, t, f)
<1> USE DEF Left
<1>1. Parts(t, [s.frames EXCEPT ![Depth(s)] = f], q, Without(s.etraps, n), op, st, s.gens)
  BY DEF Parts
<1>2. Changes(s, t, f)
  BY <1>1, PartsChanges
<1>3. t.etraps = Without(s.etraps, n) /\ t.execs = q
  BY <1>1 DEF Parts
<1>4. QED
  BY <1>2, <1>3, PopTraps

\* The outers of the locals that stay are those of the first m in frame f.
Stay(s, f, m) ==
  /\ \A o, i : i \in Nat /\ OuterIn(ci(s), o, i) /\ i <= m => OuterIn(f, o, i)
  /\ \A o, i : i \in Nat /\ OuterIn(ci(s), o, i) /\ i > m =>
       \A x \in 1 .. Len(f.vars) : f.vars[x] # o.var
  /\ \A o, i, x : i \in Nat /\ OuterIn(ci(s), o, i) /\ x \in 1 .. Len(f.vars)
                  /\ f.vars[x] = o.var => x = i /\ i <= m

LEMMA LeftOuters ==
  ASSUME NEW s, Core(s), Depth(s) > 0, NEW keep, NEW m \in 0 .. Len(ci(s).vars),
         NEW n, NEW u, NEW f \in FrameRec, NEW q, Left(s, keep, m, n, u, f, q)
  PROVE  /\ Stay(s, f, m)
         /\ m \in Nat /\ u \in States /\ Depth(u) = Depth(s) /\ ci(u) = f /\ f.base = ci(s).base
         /\ u.open = s.open /\ u.stray = s.stray
<1>1. ci(s).vars \in Seq(Vars) /\ Once(ci(s).vars) /\ Len(ci(s).vars) \in Nat /\ s \in States
  BY TopVars DEF Core
<1>2. /\ Len(f.vars) = m /\ m \in Nat /\ m <= Len(ci(s).vars)
      /\ \A x \in 1 .. m : f.vars[x] = ci(s).vars[x] /\ x \in 1 .. Len(ci(s).vars)
  BY <1>1 DEF Left
<1>3. f.base = ci(s).base
  BY DEF Left
<1>4. ASSUME NEW o, NEW i \in Nat, OuterIn(ci(s), o, i), i <= m
      PROVE  OuterIn(f, o, i)
  <2>1. i \in 1 .. Len(ci(s).vars) /\ ci(s).base + i - 1 = o.pos /\ ci(s).vars[i] = o.var
    BY <1>4 DEF OuterIn
  <2>2. i \in 1 .. m
    BY <1>1, <1>2, <1>4, <2>1
  <2>3. QED
    BY <1>2, <1>3, <2>1, <2>2 DEF OuterIn
<1>5. ASSUME NEW o, NEW i \in Nat, OuterIn(ci(s), o, i), NEW x \in 1 .. Len(f.vars),
             f.vars[x] = o.var
      PROVE  x = i /\ i <= m
  <2>1. i \in 1 .. Len(ci(s).vars) /\ ci(s).vars[i] = o.var
    BY <1>5 DEF OuterIn
  <2>2. x \in 1 .. m /\ x \in 1 .. Len(ci(s).vars) /\ ci(s).vars[x] = o.var
    BY <1>2, <1>5
  <2>3. x = i
    BY <1>1, <2>1, <2>2 DEF Once
  <2>4. QED
    BY <1>2, <2>2, <2>3
<1>6. \A o, i : i \in Nat /\ OuterIn(ci(s), o, i) /\ i > m =>
        \A x \in 1 .. Len(f.vars) : f.vars[x] # o.var
  BY <1>2, <1>5
<1>7. u \in States /\ u.frames = [s.frames EXCEPT ![Depth(s)] = f]
      /\ u.open = s.open /\ u.stray = s.stray
  BY DEF Left, Parts
<1>8. Depth(s) \in 1 .. Len(s.frames) /\ s.frames \in Seq(FrameRec) /\ Depth(s) = Len(s.frames)
  BY <1>1, TopIs, DepthIs
<1>9. Depth(u) = Depth(s) /\ ci(u) = f
  BY <1>7, <1>8 DEF Depth, ci
<1>10. Stay(s, f, m)
  BY <1>4, <1>5, <1>6 DEF Stay
<1>11. QED
  BY <1>2, <1>3, <1>7, <1>9, <1>10

\* The outers are closed from the slot pos on, or none is.
Closes(t, u, close, pos) ==
  \E op, st :
    /\ Parts(t, u.frames, u.execs, u.etraps, op, st, u.gens)
    /\ close => op = Lower(u.open, pos) /\ st = Lower(u.stray, pos)
    /\ ~ close => op = u.open /\ st = u.stray

LEMMA CloseLocalsIs ==
  ASSUME NEW u \in States, NEW base \in Nat, base = ci(u).base,
         NEW k \in Nat, NEW close \in BOOLEAN, NEW pos \in Nat, pos = base + k,
         NEW t, t = CloseLocals(close, u, k)
  PROVE  Closes(t, u, close, pos)
<1> USE DEF Closes
<1>1. CASE close
  <2>1. CloseLocals(close, u, k) = CloseOuters(u, pos)
    BY <1>1 DEF CloseLocals
  <2>2. Parts(CloseOuters(u, pos), u.frames, u.execs, u.etraps,
              Lower(u.open, pos), Lower(u.stray, pos), u.gens)
    BY CloseOutersIs
  <2>3. QED
    BY <1>1, <2>1, <2>2
<1>2. CASE ~ close
  <2>1. CloseLocals(close, u, k) = u
    BY <1>2 DEF CloseLocals
  <2>2. Parts(u, u.frames, u.execs, u.etraps, u.open, u.stray, u.gens)
    BY DEF Parts
  <2>3. QED
    BY <1>2, <2>1, <2>2
<1>3. QED
  BY <1>1, <1>2

\* What no closure captured has no outer.
LEMMA NotCaptured ==
  ASSUME NEW s, Core(s), Depth(s) > 0, NEW m \in Nat, ~ Captured(s, m),
         NEW o \in s.open, NEW i \in Nat, OuterIn(ci(s), o, i)
  PROVE  i <= m
<1>1. i \in 1 .. Len(ci(s).vars) /\ ci(s).vars[i] = o.var
  BY DEF OuterIn
<1>2. i \notin m + 1 .. Len(ci(s).vars)
  BY <1>1 DEF Captured
<1>3. Len(ci(s).vars) \in Nat
  BY TopVars
<1>4. QED
  BY <1>1, <1>2, <1>3

\* Locals are left, and closed from the first of them.
LEMMA LeaveCloseGood ==
  ASSUME NEW s, Good(s), Depth(s) > 0, ci(s).kind # "native",
         NEW keep \in 0 .. Len(ci(s).scopes), NEW m \in 0 .. Len(ci(s).vars),
         \A j \in 1 .. keep : ci(s).scopes[j].body <= m,
         NEW close \in BOOLEAN, Captured(s, m) => close,
         NEW t, t = CloseLocals(close, Leave(s, keep, m), m)
  PROVE  Good(t) /\ Shares(s, t)
<1>0. Core(s) /\ s \in States
  BY DEF Good, Core
<1> PICK u : u = Leave(s, keep, m)
  OBVIOUS
<1>1. PICK n \in Nat, f \in FrameRec, q \in Seq(Int) : Left(s, keep, m, n, u, f, q)
  BY <1>0, LeaveIs
<1>2. t = CloseLocals(close, u, m)
  OBVIOUS
<1>3. /\ Stay(s, f, m)
      /\ m \in Nat /\ u \in States /\ Depth(u) = Depth(s) /\ ci(u) = f /\ f.base = ci(s).base
      /\ u.open = s.open /\ u.stray = s.stray
  BY ONLY <1>0, <1>1, Depth(s) > 0, m \in 0 .. Len(ci(s).vars), f \in FrameRec, LeftOuters
<1> PICK base \in Nat : base = ci(u).base
  BY <1>3, FrameIs
<1> PICK pos \in Nat : pos = base + m
  BY <1>3
<1>a. Closes(t, u, close, pos)
  <2>1. /\ u \in States /\ base \in Nat /\ base = ci(u).base /\ m \in Nat
        /\ close \in BOOLEAN /\ pos \in Nat /\ pos = base + m
    BY <1>3
  <2>2. QED
    BY ONLY <1>2, <2>1, CloseLocalsIs
<1>4. PICK op, st :
        /\ Parts(t, u.frames, u.execs, u.etraps, op, st, u.gens)
        /\ close => op = Lower(u.open, pos) /\ st = Lower(u.stray, pos)
        /\ ~ close => op = u.open /\ st = u.stray
  BY <1>a DEF Closes
<1>5. Changes(s, t, f) /\ ChangesTraps(s, t, f)
  BY ONLY <1>0, <1>1, <1>4, Depth(s) > 0, LeftChanges
<1>6. t.open = op /\ t.stray = st
  BY <1>4 DEF Parts
<1>7. s.stray \subseteq s.open /\ \A o \in s.open : o.pos \in Nat
  BY <1>0, StateIs
<1>8. ASSUME NEW o \in t.open, NEW i \in Nat, OuterIn(ci(s), o, i) PROVE i <= m
  <2>1. CASE close
    <3>1. o.pos < pos /\ base + i - 1 = o.pos
      BY <1>3, <1>4, <1>6, <1>8, <2>1 DEF Lower, OuterIn
    <3>2. QED
      BY <1>3, <3>1
  <2>2. CASE ~ close
    <3>1. o \in s.open /\ ~ Captured(s, m)
      BY <1>3, <1>4, <1>6, <2>2
    <3>2. QED
      BY <1>0, <1>3, <1>8, <3>1, NotCaptured
  <2>3. QED
    BY <2>1, <2>2
<1>9. ChangesOpen(s, t, f)
  <2>1. t.stray \subseteq s.stray /\ t.open \subseteq s.open
        /\ \A o \in t.open : o \in s.stray => o \in t.stray
    BY <1>3, <1>4, <1>6, <1>7 DEF Lower
  <2>2. QED
    BY <1>3, <1>8, <2>1 DEF ChangesOpen, Stay
<1>10. ChangesClosed(s, t, f)
  <2> SUFFICES ASSUME NEW o \in s.open, o \notin t.open
               PROVE  /\ o.pos >= f.base
                      /\ \A i \in Nat, x \in Nat :
                           OuterIn(ci(s), o, i) /\ x \in 1 .. Len(f.vars) => f.vars[x] # o.var
    BY DEF ChangesClosed
  <2>1. o.pos \in Nat /\ o.pos >= pos
    BY <1>3, <1>4, <1>6, <1>7 DEF Lower
  <2>2. o.pos >= f.base
    BY <1>3, <2>1
  <2>3. ASSUME NEW i \in Nat, OuterIn(ci(s), o, i) PROVE i > m
    <3>1. base + i - 1 = o.pos
      BY <1>3, <2>3 DEF OuterIn
    <3>2. QED
      BY <1>3, <2>1, <3>1
  <2>4. QED
    BY <1>3, <2>2, <2>3 DEF Stay
<1>11. QED
  BY <1>5, <1>9, <1>10, ChangesDone

\* The sizes of scope k and of those around it
LEMMA ScopeIs ==
  ASSUME NEW s, Core(s), Depth(s) > 0, NEW k \in 1 .. Len(ci(s).scopes)
  PROVE  LET scope == ci(s).scopes[k]
         IN /\ scope.size \in 0 .. Len(ci(s).vars) /\ scope.body \in 0 .. Len(ci(s).vars)
            /\ scope.size <= scope.body
            /\ \A j \in 1 .. k - 1 : ci(s).scopes[j].body <= scope.size
            /\ \A j \in 1 .. k : ci(s).scopes[j].body <= scope.body
            /\ \A j \in k + 1 .. Len(ci(s).scopes) : scope.body <= ci(s).scopes[j].size
            /\ k - 1 \in 0 .. Len(ci(s).scopes) /\ k \in 0 .. Len(ci(s).scopes)
<1> DEFINE sc == ci(s).scopes
<1>1. sc \in Seq(ScopeRec) /\ Len(sc) \in Nat /\ Blocks(ci(s).vars, sc)
      /\ Len(ci(s).vars) \in Nat
  BY TopVars
<1> HIDE DEF sc
<1> PICK l \in Nat : l = Len(sc)
  BY <1>1
<1> PICK v \in Nat : v = Len(ci(s).vars)
  BY <1>1
<1>2. k \in 1 .. l
  BY DEF sc
<1>3. \A j \in 1 .. l : sc[j].size \in Nat /\ sc[j].body \in Nat
  <2>1. \A j \in 1 .. l : sc[j] \in ScopeRec
    BY <1>1
  <2>2. QED
    BY <2>1 DEF ScopeRec
<1>4. /\ \A j \in 1 .. l : sc[j].size <= sc[j].body /\ sc[j].body <= v
      /\ \A i, j \in 1 .. l : i < j => sc[i].body <= sc[j].size
  BY <1>1 DEF Blocks
<1>5. sc[k].size \in 0 .. v /\ sc[k].body \in 0 .. v /\ sc[k].size <= sc[k].body
  <2>1. sc[k].size \in Nat /\ sc[k].body \in Nat /\ sc[k].size <= sc[k].body /\ sc[k].body <= v
    BY <1>2, <1>3, <1>4
  <2>2. QED
    BY ONLY <2>1, v \in Nat
<1>6. \A j \in 1 .. k - 1 : sc[j].body <= sc[k].size
  BY <1>2, <1>4
<1>7. ASSUME NEW j \in 1 .. k PROVE sc[j].body <= sc[k].body
  <2>1. CASE j = k
    BY <1>5, <2>1
  <2>2. CASE j # k
    <3>1. j \in 1 .. k - 1 /\ j \in 1 .. l
      BY <1>2, <2>2
    <3>2. sc[j].body \in Nat /\ sc[k].body \in Nat /\ sc[k].size \in Nat
          /\ sc[j].body <= sc[k].size /\ sc[k].size <= sc[k].body
      BY <1>2, <1>3, <1>5, <1>6, <3>1
    <3>3. QED
      BY ONLY <3>2
  <2>3. QED
    BY <2>1, <2>2
<1>8. \A j \in k + 1 .. l : sc[k].body <= sc[j].size
  BY <1>2, <1>4
<1>9. k - 1 \in 0 .. l /\ k \in 0 .. l
  BY <1>2
<1>10. QED
  BY <1>5, <1>6, <1>7, <1>8, <1>9 DEF sc

\* What a step of a script in a scope has
LEMMA ScriptIs ==
  ASSUME NEW s, Good(s), s = vm, Script
  PROVE  Core(s) /\ Depth(s) > 0 /\ ci(s).kind # "native"
BY DEF Good, Script

LEMMA EndScopeGood ==
  ASSUME NEW s, Good(s), s = vm, NEW t, t = vm', EndScope
  PROVE  Good(t) /\ Shares(s, t)
<1>0. Core(s) /\ Depth(s) > 0 /\ ci(s).kind # "native" /\ ci(s).scopes # <<>>
  BY ScriptIs DEF EndScope
<1>1. ci(s).scopes \in Seq(ScopeRec) /\ Len(ci(s).scopes) \in Nat
  BY <1>0, TopVars
<1> PICK n \in 1 .. Len(ci(s).scopes) : n = Len(ci(s).scopes)
  BY <1>0, <1>1
<1> PICK size : size = ci(s).scopes[n].size
  OBVIOUS
<1>2. PICK close \in BOOLEAN :
        /\ Compiled(close, s, size, size)
        /\ t = CloseLocals(close, Leave(s, n - 1, size), size)
  BY DEF EndScope
<1>3. /\ size \in 0 .. Len(ci(s).vars) /\ n - 1 \in 0 .. Len(ci(s).scopes)
      /\ \A j \in 1 .. n - 1 : ci(s).scopes[j].body <= size
  BY <1>0, ScopeIs
<1>4. Captured(s, size) => close
  BY <1>2 DEF Compiled
<1>5. QED
  BY ONLY <1>0, <1>2, <1>3, <1>4, Good(s), LeaveCloseGood

LEMMA EndBodyGood ==
  ASSUME NEW s, Good(s), s = vm, NEW t, t = vm', EndBody
  PROVE  Good(t) /\ Shares(s, t)
<1>0. Core(s) /\ Depth(s) > 0 /\ ci(s).kind # "native" /\ ci(s).scopes # <<>>
  BY ScriptIs DEF EndBody
<1>1. ci(s).scopes \in Seq(ScopeRec) /\ Len(ci(s).scopes) \in Nat
  BY <1>0, TopVars
<1> PICK n \in 1 .. Len(ci(s).scopes) : n = Len(ci(s).scopes)
  BY <1>0, <1>1
<1> PICK body : body = ci(s).scopes[n].body
  OBVIOUS
<1>2. PICK close \in BOOLEAN :
        /\ Compiled(close, s, body, body)
        /\ t = CloseLocals(close, Leave(s, n, body), body)
  BY DEF EndBody
<1>3. /\ body \in 0 .. Len(ci(s).vars) /\ n \in 0 .. Len(ci(s).scopes)
      /\ \A j \in 1 .. n : ci(s).scopes[j].body <= body
  BY <1>0, ScopeIs
<1>4. Captured(s, body) => close
  BY <1>2 DEF Compiled
<1>5. QED
  BY ONLY <1>0, <1>2, <1>3, <1>4, Good(s), LeaveCloseGood

LEMMA HighestIs ==
  ASSUME NEW D \in Nat, NEW K \in SUBSET (0 .. D), K # {}
  PROVE  Highest(K) \in K /\ \A j \in K : j <= Highest(K)
<1> DEFINE T == {D - k : k \in K}
<1>1. T \in SUBSET Nat /\ T # {}
  <2>1. \A k \in K : D - k \in Nat
    OBVIOUS
  <2>2. T \in SUBSET Nat
    BY <2>1
  <2>3. PICK k \in K : TRUE
    OBVIOUS
  <2>4. D - k \in T
    OBVIOUS
  <2>5. QED
    BY <2>2, <2>4
<1> HIDE DEF T
<1>2. PICK x \in T : \A y \in T : x <= y
  BY <1>1, LeastNat
<1>3. PICK m \in K : x = D - m
  BY <1>2 DEF T
<1>4. ASSUME NEW j \in K PROVE j <= m
  <2>1. D - j \in T
    BY DEF T
  <2>2. D - m <= D - j /\ j \in Nat /\ m \in Nat
    BY <1>2, <1>3, <2>1
  <2>3. QED
    BY <2>2
<1>5. \E k \in K : \A j \in K : j <= k
  BY <1>4
<1>6. QED
  BY ONLY <1>5 DEF Highest

LEMMA InnermostIs ==
  ASSUME NEW f \in FrameRec, NEW kinds
  PROVE  LET k == Innermost(f, kinds)
         IN /\ k \in 0 .. Len(f.scopes)
            /\ k > 0 => k \in 1 .. Len(f.scopes) /\ f.scopes[k].kind \in kinds
            /\ \A j \in 1 .. Len(f.scopes) : f.scopes[j].kind \in kinds => j <= k
<1> DEFINE K == {0} \union {k \in DOMAIN f.scopes : f.scopes[k].kind \in kinds}
<1>1. f.scopes \in Seq(ScopeRec) /\ Len(f.scopes) \in Nat /\ DOMAIN f.scopes = 1 .. Len(f.scopes)
  BY FrameIs
<1>2. K \in SUBSET (0 .. Len(f.scopes)) /\ K # {}
  BY <1>1
<1>3. \A k \in K : k > 0 => k \in 1 .. Len(f.scopes) /\ f.scopes[k].kind \in kinds
  BY <1>1
<1>4. \A j \in 1 .. Len(f.scopes) : f.scopes[j].kind \in kinds => j \in K
  BY <1>1
<1>5. Innermost(f, kinds) = Highest(K)
  BY DEF Innermost
<1> HIDE DEF K
<1>6. Highest(K) \in K /\ \A j \in K : j <= Highest(K)
  BY <1>1, <1>2, HighestIs
<1>7. QED
  BY <1>2, <1>3, <1>4, <1>5, <1>6

LEMMA BreakGood ==
  ASSUME NEW s, Good(s), s = vm, NEW t, t = vm', Break
  PROVE  Good(t) /\ Shares(s, t)
<1>0. Core(s) /\ Depth(s) > 0 /\ ci(s).kind # "native"
  BY ScriptIs DEF Break
<1>1. ci(s) \in FrameRec
  BY <1>0, TopVars
<1> PICK k : k = Innermost(ci(s), {"loop", "switch"})
  OBVIOUS
<1> PICK size : size = ci(s).scopes[k].size
  OBVIOUS
<1>2. /\ k > 0
      /\ \E close \in BOOLEAN :
           /\ Compiled(close, s, size, size)
           /\ t = CloseLocals(close, Leave(s, k - 1, size), size)
  BY DEF Break
<1>3. PICK close \in BOOLEAN :
        /\ Compiled(close, s, size, size)
        /\ t = CloseLocals(close, Leave(s, k - 1, size), size)
  BY <1>2
<1>4. k \in 1 .. Len(ci(s).scopes)
  BY <1>1, <1>2, InnermostIs
<1>5. /\ size \in 0 .. Len(ci(s).vars) /\ k - 1 \in 0 .. Len(ci(s).scopes)
      /\ \A j \in 1 .. k - 1 : ci(s).scopes[j].body <= size
  BY <1>0, <1>4, ScopeIs
<1>6. Captured(s, size) => close
  BY <1>3 DEF Compiled
<1>7. QED
  BY ONLY <1>0, <1>3, <1>5, <1>6, Good(s), LeaveCloseGood

\* A continue leaves the locals above the first body ones, and closes from the
\* local after the first size ones: in a loop, size <= body, and the variable of
\* a "for" is between them; in a switch, body <= size, and the locals between
\* them are left open.
LEMMA ContinueGood ==
  ASSUME NEW s, Good(s), s = vm, NEW t, t = vm', Continue
  PROVE  /\ Good(t)
         /\ \A o \in s.open \ t.open : o.var \in InScope(t) => o.var \in LoopVars(ci(s))
<1>0. Core(s) /\ Depth(s) > 0 /\ ci(s).kind # "native" /\ s \in States /\ Outers(s) /\ Slots(s)
  BY ScriptIs DEF Continue, Good, Core
<1>1. ci(s) \in FrameRec /\ Depth(s) \in Nat
  BY <1>0, TopVars, DepthIs
<1> PICK k, j : k = Innermost(ci(s), {"loop"}) /\ j = Innermost(ci(s), {"loop", "switch"})
  OBVIOUS
<1> PICK body, size : body = ci(s).scopes[k].body /\ size = ci(s).scopes[j].size
  OBVIOUS
<1>2. /\ k > 0
      /\ \E close \in BOOLEAN :
           /\ Compiled(close, s, size, IF j = k THEN body ELSE size)
           /\ t = LeaveOpen(CloseLocals(close, Leave(s, k, body), size),
                            ci(s).base + body, ci(s).base + size)
  BY DEF Continue
<1>3. PICK close \in BOOLEAN :
        /\ Compiled(close, s, size, IF j = k THEN body ELSE size)
        /\ t = LeaveOpen(CloseLocals(close, Leave(s, k, body), size),
                         ci(s).base + body, ci(s).base + size)
  BY <1>2
<1>4. k \in 1 .. Len(ci(s).scopes) /\ ci(s).scopes[k].kind = "loop"
  BY <1>1, <1>2, InnermostIs
<1>5. k <= j /\ j \in 0 .. Len(ci(s).scopes)
  BY <1>1, <1>4, InnermostIs
<1>6. /\ body \in 0 .. Len(ci(s).vars) /\ k \in 0 .. Len(ci(s).scopes)
      /\ \A i \in 1 .. k : ci(s).scopes[i].body <= body
      /\ ci(s).scopes[k].size <= body
      /\ \A i \in k + 1 .. Len(ci(s).scopes) : body <= ci(s).scopes[i].size
  BY <1>0, <1>4, ScopeIs
<1>7. j \in 1 .. Len(ci(s).scopes) /\ Len(ci(s).vars) \in Nat
  <2>1. Len(ci(s).scopes) \in Nat /\ Len(ci(s).vars) \in Nat
    BY <1>0, TopVars
  <2>2. QED
    BY <1>2, <1>4, <1>5, <2>1
<1>8. size \in 0 .. Len(ci(s).vars)
  BY <1>0, <1>7, ScopeIs
<1>9. /\ size \in Nat /\ body \in Nat
      /\ (j = k => size <= body /\ (Captured(s, body) => close))
      /\ (j # k => body <= size /\ (Captured(s, size) => close))
  <2>1. size \in Nat /\ body \in Nat
    BY <1>6, <1>7, <1>8
  <2>2. j = k => size <= body /\ (Captured(s, body) => close)
    BY <1>3, <1>6 DEF Compiled
  <2>3. ASSUME j # k PROVE body <= size /\ (Captured(s, size) => close)
    <3>1. j \in k + 1 .. Len(ci(s).scopes)
      BY <1>4, <1>5, <1>7, <2>3
    <3>2. Captured(s, size) => close
      BY <1>3, <2>3 DEF Compiled
    <3>3. QED
      BY <1>6, <3>1, <3>2
  <2>4. QED
    BY <2>1, <2>2, <2>3
<1> PICK u, v : u = Leave(s, k, body) /\ v = CloseLocals(close, u, size)
  OBVIOUS
<1>10. t = LeaveOpen(v, ci(s).base + body, ci(s).base + size)
  BY <1>3
<1>11. PICK n \in Nat, f \in FrameRec, q \in Seq(Int) : Left(s, k, body, n, u, f, q)
  BY <1>0, <1>6, LeaveIs
<1>12. /\ Stay(s, f, body)
       /\ u \in States /\ ci(u) = f /\ f.base = ci(s).base
       /\ u.open = s.open /\ u.stray = s.stray
  BY ONLY <1>0, <1>6, <1>11, f \in FrameRec, LeftOuters
<1> PICK base \in Nat : base = ci(s).base
  BY <1>1, FrameIs
<1> PICK pos, low : pos = base + size /\ low = base + body
  OBVIOUS
<1>a. /\ base \in Nat /\ size \in Nat /\ body \in Nat /\ pos \in Nat /\ low \in Nat
      /\ pos = base + size /\ low = base + body /\ base = ci(s).base /\ base = f.base
  <2>1. pos \in Nat /\ low \in Nat
    BY ONLY <1>9, base \in Nat, pos = base + size, low = base + body
  <2>2. QED
    BY <1>9, <1>12, <2>1
<1>b. Closes(v, u, close, pos)
  <2>1. /\ u \in States /\ base \in Nat /\ base = ci(u).base /\ size \in Nat
        /\ close \in BOOLEAN /\ pos \in Nat /\ pos = base + size
    BY <1>a, <1>12
  <2>2. v = CloseLocals(close, u, size)
    OBVIOUS
  <2>3. QED
    BY ONLY <2>1, <2>2, CloseLocalsIs
<1>13. PICK op, st :
         /\ Parts(v, u.frames, u.execs, u.etraps, op, st, u.gens)
         /\ close => op = Lower(u.open, pos) /\ st = Lower(u.stray, pos)
         /\ ~ close => op = u.open /\ st = u.stray
  BY ONLY <1>b DEF Closes
<1>14. Parts(t, u.frames, u.execs, u.etraps, op,
             st \union {o \in op : o.pos \in low .. pos - 1}, u.gens)
  <2>1. v \in States /\ t = LeaveOpen(v, low, pos)
    <3>1. v \in States
      BY ONLY <1>13 DEF Parts
    <3>2. QED
      BY ONLY <1>10, <3>1, base = ci(s).base, low = base + body, pos = base + size
  <2>2. Parts(t, v.frames, v.execs, v.etraps, v.open,
              v.stray \union {o \in v.open : o.pos \in low .. pos - 1}, v.gens)
    BY ONLY <2>1, LeaveOpenIs
  <2>3. QED
    BY ONLY <1>13, <2>2 DEF Parts
<1>15. Changes(s, t, f) /\ ChangesTraps(s, t, f)
  BY ONLY <1>0, <1>11, <1>14, f \in FrameRec, LeftChanges
<1>16. /\ t.open = op /\ op \subseteq s.open
       /\ \A o : o \in t.stray <=> o \in st \/ (o \in op /\ o.pos \in low .. pos - 1)
       /\ \A o \in op : o \in s.stray => o \in st
       /\ st \subseteq s.stray
       /\ \A o \in s.open : o.pos \in Nat
  <2>1. t.open = op /\ t.stray = st \union {o \in op : o.pos \in low .. pos - 1}
    BY <1>14 DEF Parts
  <2>2. s.stray \subseteq s.open /\ \A o \in s.open : o.pos \in Nat
    BY <1>0, StateIs
  <2>3. op \subseteq s.open /\ st \subseteq s.stray /\ \A o \in op : o \in s.stray => o \in st
    BY ONLY <1>12, <1>13, <2>2, close \in BOOLEAN DEF Lower
  <2>4. QED
    BY ONLY <2>1, <2>2, <2>3
<1>17. ASSUME NEW o \in t.open \ t.stray, NEW i \in Nat, OuterIn(ci(s), o, i)
       PROVE  i <= body
  <2>1. o \in s.open /\ o \in op /\ o.pos \in Nat /\ o.pos \notin low .. pos - 1
        /\ base + i - 1 = o.pos
    BY <1>16, <1>17 DEF OuterIn
  <2>2. CASE j = k
    <3>1. CASE close
      <4>1. o.pos < pos
        BY <1>13, <2>1, <3>1 DEF Lower
      <4>2. QED
        <5>1. size <= body /\ base + i - 1 < base + size
          BY ONLY <1>9, <1>a, <2>1, <2>2, <4>1
        <5>2. QED
          BY ONLY <1>a, <5>1, i \in Nat
    <3>2. CASE ~ close
      <4>1. ~ Captured(s, body)
        BY <1>9, <2>2, <3>2
      <4>2. QED
        BY <1>0, <1>9, <1>17, <2>1, <4>1, NotCaptured
    <3>3. QED
      BY <3>1, <3>2
  <2>3. CASE j # k
    <3>1. i <= size
      <4>1. CASE close
        <5>1. o.pos < pos
          BY <1>13, <2>1, <4>1 DEF Lower
        <5>2. QED
          BY ONLY <1>a, <2>1, <5>1, i \in Nat
      <4>2. CASE ~ close
        <5>1. ~ Captured(s, size)
          BY <1>9, <2>3, <4>2
        <5>2. QED
          BY <1>0, <1>9, <1>17, <2>1, <5>1, NotCaptured
      <4>3. QED
        BY <4>1, <4>2
    <3>2. o.pos \in Nat /\ o.pos < pos
      BY ONLY <1>a, <2>1, <3>1, i \in Nat
    <3>3. o.pos < low
      <4>1. \A p \in Nat : p < pos /\ p \notin low .. pos - 1 => p < low
        BY ONLY <1>a
      <4>2. QED
        BY <2>1, <3>2, <4>1
    <3>4. base + i - 1 = o.pos
      BY <2>1
    <3>5. QED
      BY ONLY <1>a, <3>3, <3>4, i \in Nat
  <2>4. QED
    BY <2>2, <2>3
<1>18. ASSUME NEW o \in t.stray, o \notin s.stray
       PROVE  /\ o \in s.open
              /\ \E i \in Nat : OuterIn(ci(s), o, i)
              /\ \A x \in 1 .. Len(f.vars) : f.vars[x] # o.var
  <2>1. o \in s.open /\ o.pos \in Nat /\ o.pos >= low
    BY <1>16, <1>18
  <2>2. PICK d \in 1 .. Depth(s), i \in Nat : OuterIn(s.frames[d], o, i) /\ d >= Depth(s)
    <3>1. Depth(s) \in 1 .. Depth(s) /\ s.frames[Depth(s)] = ci(s)
      BY ONLY <1>0, <1>1 DEF ci
    <3>2. o.pos >= s.frames[Depth(s)].base
      <4>1. s.frames[Depth(s)].base = base
        BY ONLY <1>a, <3>1
      <4>2. o.pos >= base
        <5>1. \A p \in Nat : p >= low => p >= base
          BY ONLY <1>a
        <5>2. QED
          BY ONLY <2>1, <5>1, Zenon
      <4>3. QED
        BY ONLY <4>1, <4>2
    <3>3. QED
      BY <1>0, <1>18, <2>1, <3>1, <3>2, OuterPlace
  <2>3. d = Depth(s)
    BY <1>1, <2>2
  <2>4. OuterIn(ci(s), o, i)
    BY ONLY <2>2, <2>3 DEF ci
  <2>5. i > body
    <3>1. base + i - 1 = o.pos
      BY <2>4 DEF OuterIn
    <3>2. QED
      BY ONLY <1>a, <2>1, <3>1, i \in Nat
  <2>6. QED
    BY <1>12, <2>1, <2>4, <2>5 DEF Stay
<1>19. ChangesOpen(s, t, f)
  <2>1. ASSUME NEW o \in t.open \ t.stray
        PROVE  /\ o \in s.open \ s.stray
               /\ \A i \in Nat : OuterIn(ci(s), o, i) => OuterIn(f, o, i)
    <3>1. o \in s.open \ s.stray
      BY <1>16, <2>1
    <3>2. QED
      BY <1>12, <1>17, <3>1 DEF Stay
  <2>2. QED
    BY <1>18, <2>1 DEF ChangesOpen
<1>20. Good(t)
  BY <1>15, <1>19, ChangesGood
<1>21. ASSUME NEW o \in s.open \ t.open, o.var \in InScope(t)
       PROVE  o.var \in LoopVars(ci(s))
  <2>1. o.pos \in Nat /\ o.pos >= pos
    <3>1. o \in s.open /\ o \notin op
      BY <1>16, <1>21
    <3>2. o \notin Lower(s.open, pos)
      BY ONLY <1>12, <1>13, <3>1, close \in BOOLEAN
    <3>3. QED
      BY ONLY <1>16, <1>a, <3>1, <3>2 DEF Lower
  <2>2. o.pos >= f.base
    BY ONLY <1>a, <2>1
  <2>3. PICK i, x \in Nat : OuterIn(ci(s), o, i) /\ x \in 1 .. Len(f.vars) /\ f.vars[x] = o.var
    BY <1>0, <1>15, <1>21, <2>2, ChangesShared
  <2>4. x = i /\ i <= body
    BY ONLY <1>12, <2>3, i \in Nat DEF Stay
  <2>5. base + i - 1 = o.pos /\ ci(s).vars[i] = o.var
    BY <2>3 DEF OuterIn
  <2>6. size < i
    BY ONLY <1>a, <2>1, <2>5, i \in Nat
  <2>7. j = k
    BY <1>9, <2>4, <2>6
  <2>8. i \in size + 1 .. body
    BY <1>9, <2>4, <2>6
  <2>9. LoopVars(ci(s)) = {ci(s).vars[y] : y \in size + 1 .. body}
    <3>1. k # 0 /\ k = Innermost(ci(s), {"loop"})
      BY <1>2
    <3>2. body = ci(s).scopes[k].body /\ size = ci(s).scopes[k].size
      BY <2>7
    <3>3. QED
      BY ONLY <3>1, <3>2 DEF LoopVars
  <2>10. QED
    BY <2>5, <2>8, <2>9
<1>22. QED
  BY <1>20, <1>21

----------------------------------------------------------------------------
(* Functions are entered *)

\* A function is entered, by an Execute of its own if root.
LEMMA EnterGood ==
  ASSUME NEW s, Good(s), Depth(s) < MaxFrames, NEW kind \in {"script", "native"},
         NEW base \in Nat, NEW root \in BOOLEAN, kind = "native" => ~ root,
         Depth(s) > 0 => ci(s).base + Len(ci(s).vars) <= base,
         Depth(s) = 0 => root,
         NEW u, u = EnterFrame(s, Frame(kind, base, None, root)),
         NEW t, t = (IF root THEN [u EXCEPT !.execs = Append(u.execs, 0)] ELSE u)
  PROVE  Good(t) /\ Shares(s, t)
<1> DEFINE f == Frame(kind, base, None, root)
<1>0. Core(s) /\ s \in States
  BY DEF Good, Core
<1>1. /\ f \in FrameRec /\ f.kind = kind /\ f.base = base /\ f.vars = <<>>
      /\ f.scopes = <<>> /\ f.etraps = 0 /\ f.gen = None /\ f.root = root
  BY DEF Frame, FrameRec
<1> HIDE DEF f
<1>2. s.frames \in Seq(FrameRec) /\ s.execs \in Seq(Int) /\ s.etraps \in Seq(Trap)
  BY <1>0, StateIs
<1>3. Parts(u, Append(s.frames, f), s.execs, s.etraps, s.open, s.stray, s.gens)
  <2>1. Append(s.frames, f) \in Seq(FrameRec)
    BY <1>1, <1>2
  <2>2. u = [s EXCEPT !.frames = Append(s.frames, f)]
    BY <1>0 DEF EnterFrame, States, f
  <2>3. QED
    BY <1>0, <2>1, <2>2, SetFrames
<1>4. Append(s.execs, 0) \in Seq(Int) /\ u \in States
  BY <1>2, <1>3 DEF Parts
<1>5. Parts(t, Append(s.frames, f), (IF root THEN Append(s.execs, 0) ELSE s.execs), s.etraps,
            s.open, s.stray, s.gens)
  <2>1. CASE root
    <3>1. Parts(t, u.frames, Append(s.execs, 0), u.etraps, u.open, u.stray, u.gens)
      <4>1. t = [u EXCEPT !.execs = Append(s.execs, 0)]
        BY <1>3, <2>1 DEF Parts
      <4>2. QED
        BY ONLY <1>4, <4>1, SetExecs
    <3>2. QED
      BY <1>3, <2>1, <3>1 DEF Parts
  <2>2. CASE ~ root
    BY <1>3, <2>2 DEF Parts
  <2>3. QED
    BY <2>1, <2>2
<1>6. FrameOK(f)
  BY <1>1, BoundsAssumption DEF FrameOK, Blocks
<1>7. None \notin Gens
  BY VarsAssumption
<1>8. Pushes(s, t, f, None)
  <2>1. Depth(s) > 0 => ci(s).base + Len(ci(s).vars) <= f.base
    BY <1>1
  <2>2. Depth(s) = 0 => f.root
    BY <1>1
  <2>3. \A g \in Gens : g # None => t.gens[g] = s.gens[g]
    BY <1>5 DEF Parts
  <2>4. QED
    BY <1>1, <1>5, <1>6, <1>7, <2>1, <2>2, <2>3 DEF Pushes, Parts
<1>9. PushesTraps(s, t, f)
  <2>1. t.etraps = s.etraps /\ Len(s.etraps) \in Nat /\ f.etraps = 0
    BY <1>1, <1>2, <1>5 DEF Parts
  <2>2. TrapsFit(PushedTraps(s, t, f), f.scopes, f.base)
    <3>1. PushedTraps(s, t, f) \in Seq(Trap) /\ Len(PushedTraps(s, t, f)) = 0
      BY <2>1 DEF PushedTraps
    <3>2. QED
      BY <1>1, <3>1, FitsEmpty
  <2>3. PICK l \in Nat : l = Len(s.execs)
    BY <1>2
  <2>4. /\ Len(t.execs) = l + (IF root THEN 1 ELSE 0)
        /\ \A e \in 1 .. Len(t.execs) : t.execs[e] = (IF e <= l THEN s.execs[e] ELSE 0)
    <3>1. CASE root
      <4>1. t.execs = Append(s.execs, 0)
        BY <1>5, <3>1 DEF Parts
      <4> PICK q \in Seq(Int) : q = s.execs
        BY <1>2
      <4>2. Len(Append(q, 0)) = l + 1 /\ Append(q, 0)[l + 1] = 0
            /\ \A e \in 1 .. l : Append(q, 0)[e] = q[e]
        BY <2>3
      <4>3. \A e \in 1 .. l + 1 : IF e <= l THEN e \in 1 .. l ELSE e = l + 1
        OBVIOUS
      <4>4. QED
        BY <3>1, <4>1, <4>2, <4>3
    <3>2. CASE ~ root
      <4>1. t.execs = s.execs
        BY <1>5, <3>2 DEF Parts
      <4>2. QED
        BY <1>2, <2>3, <3>2, <4>1
    <3>3. QED
      BY <3>1, <3>2
  <2>5. \A e \in 1 .. l : s.execs[e] \in Int
    BY <1>2, <2>3
  <2>6. \A e \in 1 .. Len(t.execs) :
          t.execs[e] = (IF e <= l THEN s.execs[e] ELSE 0) +
                         (IF e = Len(t.execs) THEN f.etraps ELSE 0)
    <3>1. ASSUME NEW e \in 1 .. Len(t.execs)
          PROVE  (IF e = Len(t.execs) THEN f.etraps ELSE 0) = 0
      BY <2>1
    <3>2. \A e \in 1 .. Len(t.execs) : (IF e <= l THEN s.execs[e] ELSE 0) \in Int
      BY <2>5
    <3>3. QED
      BY <2>4, <3>1, <3>2
  <2>7. \A e \in 1 .. Len(t.execs) :
          t.execs[e] = (IF e <= Len(s.execs) THEN s.execs[e] ELSE 0) +
                         (IF e = Len(t.execs) THEN f.etraps ELSE 0)
    BY <2>3, <2>6
  <2>8. Len(t.etraps) = Len(s.etraps) + f.etraps
    BY <2>1
  <2>9. Len(t.execs) = Len(s.execs) + (IF f.root THEN 1 ELSE 0)
    BY <1>1, <2>3, <2>4
  <2>10. \A j \in 1 .. Len(s.etraps) : t.etraps[j] = s.etraps[j]
    BY <2>1
  <2>11. QED
    BY ONLY <2>2, <2>7, <2>8, <2>9, <2>10 DEF PushesTraps
<1>10. QED
  BY <1>8, <1>9, PushesGood

LEMMA CALLGood ==
  ASSUME NEW s, Good(s), s = vm, NEW t, t = vm', CALL \/ CallNative
  PROVE  Good(t) /\ Shares(s, t)
<1> DEFINE base == ci(s).base + Len(ci(s).vars)
<1>1. Core(s) /\ Depth(s) > 0 /\ Depth(s) < MaxFrames
  BY DEF Good, CALL, CallNative, Script, CanCall
<1>2. base \in Nat
  BY <1>1, TopVars
<1>3. PICK kind \in {"script", "native"} : t = EnterFrame(s, Frame(kind, base, None, FALSE))
  BY DEF CALL, CallNative
<1> DEFINE u == EnterFrame(s, Frame(kind, base, None, FALSE))
<1>4. t = u /\ ci(s).base + Len(ci(s).vars) = base
  BY <1>3
<1>5. base <= base
  BY <1>2
<1>6. u = EnterFrame(s, Frame(kind, base, None, FALSE))
  OBVIOUS
<1> HIDE DEF u, base
<1>7. t = (IF FALSE THEN [u EXCEPT !.execs = Append(u.execs, 0)] ELSE u)
  BY <1>4
<1>8. Depth(s) # 0 /\ ci(s).base + Len(ci(s).vars) <= base
  BY <1>1, <1>4, <1>5
<1>9. QED
  BY ONLY <1>1, <1>2, <1>6, <1>7, <1>8, Good(s), kind \in {"script", "native"}, EnterGood

LEMMA ExecuteGood ==
  ASSUME NEW s, Good(s), s = vm, NEW t, t = vm', Execute
  PROVE  Good(t) /\ Shares(s, t)
<1> DEFINE base == IF Native THEN ci(s).base ELSE 0
           u == EnterFrame(s, Frame("script", base, None, TRUE))
<1>1. Core(s) /\ s \in States /\ Depth(s) < MaxFrames /\ Depth(s) \in Nat
  BY DepthIs DEF Good, Core, Execute, CanCall
<1>2. base \in Nat /\ (Depth(s) > 0 => ci(s).base + Len(ci(s).vars) <= base)
  <2>1. CASE Native
    <3>1. Depth(s) > 0 /\ ci(s).kind = "native"
      BY <2>1 DEF Native
    <3>2. ci(s).vars = <<>> /\ ci(s).base \in Nat
      BY <1>1, <3>1, TopVars, TopOwnIs DEF FrameOK
    <3>3. QED
      BY <2>1, <3>2
  <2>2. CASE ~ Native
    BY <1>1, <2>2 DEF Execute
  <2>3. QED
    BY <2>1, <2>2
<1>3. t = [u EXCEPT !.execs = Append(u.execs, 0)]
  BY DEF Execute
<1>4. u = EnterFrame(s, Frame("script", base, None, TRUE))
  OBVIOUS
<1> HIDE DEF base, u
<1>5. t = (IF TRUE THEN [u EXCEPT !.execs = Append(u.execs, 0)] ELSE u)
  BY <1>3
<1>6. QED
  BY ONLY <1>1, <1>2, <1>4, <1>5, Good(s), EnterGood

LEMMA NewGeneratorGood ==
  ASSUME NEW s, Good(s), s = vm, NEW t, t = vm', NEW g \in Gens, NewGenerator(g)
  PROVE  Good(t) /\ Shares(s, t)
<1>0. /\ Core(s) /\ s \in States /\ s.gens[g] = Dead
      /\ \A k \in 1 .. Depth(s) : s.frames[k].gen # g
      /\ t = [s EXCEPT !.gens[g].state = "suspended"]
  BY DEF Good, Core, NewGenerator
<1>1. /\ Shapes(s) /\ Slots(s) /\ Rooted(s) /\ Owners(s) /\ Fits(s) /\ Distinct(s)
  BY <1>0 DEF Core
<1> DEFINE new == [Dead EXCEPT !.state = "suspended"]
           q == [s.gens EXCEPT ![g] = new]
<1>2. /\ new \in GenRec /\ new.state = "suspended" /\ new.vars = <<>> /\ new.scopes = <<>>
      /\ new.traps = <<>>
  <2>1. <<>> \in Seq(Vars) /\ <<>> \in Seq(ScopeRec) /\ <<>> \in Seq(Trap)
    OBVIOUS
  <2>2. QED
    BY ONLY <2>1 DEF Dead, GenRec, new
<1> HIDE DEF new
<1>3. s.gens \in [Gens -> GenRec]
  BY <1>0, StateIs
<1>4. q \in [Gens -> GenRec] /\ q[g] = new /\ \A h \in Gens : h # g => q[h] = s.gens[h]
  BY <1>2, <1>3
<1>5. t = [s EXCEPT !.gens = q]
  BY <1>0 DEF new, States
<1> HIDE DEF q
<1>6. Parts(t, s.frames, s.execs, s.etraps, s.open, s.stray, q)
  BY <1>0, <1>4, <1>5, SetGens
<1>7. t \in States /\ Depth(t) = Depth(s) /\ t.frames = s.frames /\ t.gens = q
      /\ t.execs = s.execs /\ t.etraps = s.etraps /\ t.open = s.open /\ t.stray = s.stray
  BY <1>6 DEF Parts, Depth
<1>8. \A h \in Gens : t.gens[h].vars = s.gens[h].vars
  BY <1>0, <1>2, <1>4, <1>7 DEF Dead
<1>9. Shapes(t)
  <2>1. GenOK(new)
    <3>1. Blocks(<<>>, <<>>)
      BY BoundsAssumption DEF Blocks
    <3>2. <<>> \in Seq(Trap) /\ Len(<<>>) = 0
      OBVIOUS
    <3>3. TrapsFit(<<>>, <<>>, 0)
      BY <3>2, FitsEmpty
    <3>4. QED
      BY <1>2, <3>1, <3>3 DEF GenOK
  <2>2. QED
    BY <1>1, <1>4, <1>7, <2>1 DEF Shapes
<1>10. Slots(t)
  BY <1>1, <1>7 DEF Slots
<1>11. Rooted(t)
  BY <1>1, <1>7 DEF Rooted, ExecOf
<1>12. Owners(t)
  <2>1. \A h, k : Runs(t, h, k) <=> Runs(s, h, k)
    BY <1>7 DEF Runs
  <2>2. \A k : ~ Runs(s, g, k)
    BY <1>0 DEF Runs
  <2>3. t.gens[g].state = "suspended" /\ \A h \in Gens : h # g => t.gens[h] = s.gens[h]
    BY <1>2, <1>4, <1>7
  <2>4. QED
    BY <1>1, <2>1, <2>2, <2>3 DEF Owners
<1>13. Fits(t)
  BY <1>1, <1>7 DEF Fits, Traps, OwnTraps
<1>14. Distinct(t)
  BY <1>1, <1>7, <1>8 DEF Distinct
<1>15. Core(t)
  BY <1>7, <1>9, <1>10, <1>11, <1>12, <1>13, <1>14 DEF Core
<1>16. TrapsCounted(s) => TrapsCounted(t)
  <2>1. \A k : ExecOf(t, k) = ExecOf(s, k)
    BY <1>7 DEF ExecOf
  <2>2. \A e : TrapsIn(t, e) = TrapsIn(s, e)
    BY <1>7, <2>1 DEF TrapsIn
  <2>3. QED
    BY <1>7, <2>2 DEF TrapsCounted
<1>17. InScope(t) = InScope(s)
  BY <1>7, <1>8 DEF InScope
<1>18. Outers(s) => Outers(t)
  BY <1>7, <1>17 DEF Outers
<1>19. Good(t)
  BY <1>7, <1>15, <1>16, <1>18 DEF Good
<1>20. Shares(s, t)
  BY <1>7, <1>17 DEF Shares
<1>21. QED
  BY <1>19, <1>20

----------------------------------------------------------------------------
(* A generator resumes *)

LEMMA MovedIs ==
  ASSUME NEW q \in Seq(Trap), NEW n \in Int
  PROVE  /\ Moved(q, n) \in Seq(Trap) /\ Len(Moved(q, n)) = Len(q)
         /\ \A j \in 1 .. Len(q) :
              /\ Moved(q, n)[j] \in Trap /\ q[j] \in Trap
              /\ Moved(q, n)[j].base = q[j].base + n
              /\ Moved(q, n)[j].scope = q[j].scope /\ Moved(q, n)[j].size = q[j].size
<1>1. DOMAIN q = 1 .. Len(q) /\ Len(q) \in Nat /\ \A j \in 1 .. Len(q) : q[j] \in Trap
  OBVIOUS
<1>2. Moved(q, n) = [j \in 1 .. Len(q) |-> [q[j] EXCEPT !.base = q[j].base + n]]
  BY <1>1 DEF Moved
<1>3. ASSUME NEW x \in Trap
      PROVE  LET y == [x EXCEPT !.base = x.base + n]
             IN y \in Trap /\ y.base = x.base + n /\ y.scope = x.scope /\ y.size = x.size
  BY DEF Trap
<1>4. \A j \in 1 .. Len(q) : [q[j] EXCEPT !.base = q[j].base + n] \in Trap
  BY <1>1, <1>3
<1>5. Moved(q, n) \in Seq(Trap) /\ Len(Moved(q, n)) = Len(q)
  BY <1>1, <1>2, <1>4
<1>6. \A j \in 1 .. Len(q) : Moved(q, n)[j] = [q[j] EXCEPT !.base = q[j].base + n]
  BY <1>2
<1>7. QED
  BY <1>1, <1>3, <1>5, <1>6

\* Traps that move with their frame fit it.
LEMMA MovedFit ==
  ASSUME NEW q \in Seq(Trap), NEW n \in Int, NEW scopes, NEW base \in Int,
         TrapsFit(q, scopes, base)
  PROVE  TrapsFit(Moved(q, n), scopes, base + n)
<1>1. /\ Moved(q, n) \in Seq(Trap) /\ Len(Moved(q, n)) = Len(q)
      /\ \A j \in 1 .. Len(q) :
           /\ Moved(q, n)[j].base = q[j].base + n
           /\ Moved(q, n)[j].scope = q[j].scope /\ Moved(q, n)[j].size = q[j].size
  BY MovedIs
<1>2. DOMAIN q = 1 .. Len(q) /\ DOMAIN Moved(q, n) = 1 .. Len(q)
  BY <1>1
<1>3. {Moved(q, n)[j].scope : j \in DOMAIN Moved(q, n)} = {q[j].scope : j \in DOMAIN q}
  BY ONLY <1>1, <1>2
<1>4. \A j \in 1 .. Len(q) : q[j].base = base /\ q[j].size = scopes[q[j].scope].size
  BY <1>2 DEF TrapsFit, TrapsOf
<1>5. \A j \in 1 .. Len(q) : Moved(q, n)[j].base = base + n
        /\ Moved(q, n)[j].size = scopes[Moved(q, n)[j].scope].size
  BY <1>1, <1>4
<1>6. TrapsOf(Moved(q, n), scopes, base + n)
  BY <1>2, <1>3, <1>5 DEF TrapsFit, TrapsOf
<1>7. \A i, j \in 1 .. Len(q) : i < j => Moved(q, n)[i].scope < Moved(q, n)[j].scope
  BY <1>1 DEF TrapsFit
<1>8. QED
  BY <1>1, <1>6, <1>7 DEF TrapsFit
Running == [Dead EXCEPT !.state = "running"]

\* A generator that is dead or runs
LEMMA EmptyGen ==
  /\ Dead \in GenRec /\ GenOK(Dead) /\ Dead.state = "dead" /\ Dead.vars = <<>>
  /\ Running \in GenRec /\ GenOK(Running) /\ Running.state = "running"
  /\ Running.vars = <<>>
<1>1. <<>> \in Seq(Vars) /\ <<>> \in Seq(ScopeRec) /\ <<>> \in Seq(Trap) /\ Len(<<>>) = 0
  OBVIOUS
<1>2. Dead \in GenRec /\ Running \in GenRec
  BY ONLY <1>1 DEF Dead, Running, GenRec
<1>3. /\ Dead.state = "dead" /\ Dead.vars = <<>> /\ Dead.scopes = <<>> /\ Dead.traps = <<>>
      /\ Running.state = "running" /\ Running.vars = <<>> /\ Running.scopes = <<>>
      /\ Running.traps = <<>>
  BY DEF Dead, Running
<1>4. Blocks(<<>>, <<>>)
  BY BoundsAssumption DEF Blocks
<1>5. TrapsFit(<<>>, <<>>, 0)
  BY <1>1, FitsEmpty
<1>6. GenOK(Dead) /\ GenOK(Running)
  BY <1>3, <1>4, <1>5 DEF GenOK
<1>7. QED
  BY <1>2, <1>3, <1>6

\* The generator, its frame
Resumed(s, g, base, root, f) ==
  /\ f \in FrameRec
  /\ f.kind = "generator" /\ f.base = base /\ f.vars = s.gens[g].vars
  /\ f.scopes = s.gens[g].scopes /\ f.etraps = Len(s.gens[g].traps)
  /\ f.gen = g /\ f.root = root

LEMMA ResumeIs ==
  ASSUME NEW s \in States, NEW g \in Gens, NEW base \in Nat
  PROVE  \E f :
           /\ Resumed(s, g, base, s.gens[g].root, f)
           /\ Parts(Resume(s, g, base), Append(s.frames, f), s.execs,
                    s.etraps \o Moved(s.gens[g].traps, base), s.open, s.stray,
                    [s.gens EXCEPT ![g] = Running])
<1>1. /\ s.gens \in [Gens -> GenRec] /\ s.frames \in Seq(FrameRec) /\ s.etraps \in Seq(Trap)
  BY StateIs
<1>2. /\ s.gens[g].vars \in Seq(Vars) /\ s.gens[g].scopes \in Seq(ScopeRec)
      /\ s.gens[g].traps \in Seq(Trap) /\ s.gens[g].root \in BOOLEAN
  BY <1>1 DEF GenRec
<1>3. Len(s.gens[g].traps) \in Nat
  BY <1>2
<1> DEFINE saved == s.gens[g]
           f0 == Frame("generator", base, g, saved.root)
           f == [f0 EXCEPT !.vars = saved.vars, !.scopes = saved.scopes,
                           !.etraps = Len(saved.traps)]
           m == Moved(saved.traps, base)
<1>4. /\ f0 \in FrameRec /\ f0.kind = "generator" /\ f0.base = base /\ f0.gen = g
      /\ f0.root = saved.root
  <2>1. <<>> \in Seq(Vars) /\ <<>> \in Seq(ScopeRec) /\ g \in Gens \union {None} /\ 0 \in Nat
    OBVIOUS
  <2>2. QED
    BY ONLY <1>2, <2>1, base \in Nat DEF Frame, FrameRec
<1> HIDE DEF f0
<1>5. Resumed(s, g, base, saved.root, f)
  <2>1. /\ f \in FrameRec /\ f.vars = saved.vars /\ f.scopes = saved.scopes
        /\ f.etraps = Len(saved.traps) /\ f.kind = f0.kind /\ f.base = f0.base
        /\ f.gen = f0.gen /\ f.root = f0.root
    BY ONLY <1>2, <1>3, <1>4 DEF FrameRec
  <2>2. QED
    BY <1>4, <2>1 DEF Resumed
<1>6. m \in Seq(Trap)
  <2>1. base \in Int
    OBVIOUS
  <2>2. QED
    BY <1>2, <2>1, MovedIs
<1> DEFINE a == [s EXCEPT !.frames = Append(s.frames, f)]
           b == [a EXCEPT !.gens = [s.gens EXCEPT ![g] = Running]]
           c == [b EXCEPT !.etraps = s.etraps \o m]
<1>7. Resume(s, g, base) = c
  <2>1. EnterFrame(s, f) = a
    BY DEF EnterFrame, States
  <2>2. a.gens = s.gens /\ a.etraps = s.etraps /\ b.etraps = s.etraps
    BY DEF States
  <2>3. Resume(s, g, base) =
          [EnterFrame(s, f) EXCEPT !.gens[g] = Running, !.etraps = @ \o m]
    BY DEF Resume, Running, f0
  <2>4. Resume(s, g, base) = [a EXCEPT !.gens[g] = Running, !.etraps = @ \o m]
    BY <2>1, <2>3
  <2> HIDE DEF f, m
  <2>5. QED
    BY <2>2, <2>4 DEF States
<1> HIDE DEF f, m
<1>8. Append(s.frames, f) \in Seq(FrameRec) /\ s.etraps \o m \in Seq(Trap)
  BY <1>1, <1>5, <1>6 DEF Resumed
<1>9. Parts(a, Append(s.frames, f), s.execs, s.etraps, s.open, s.stray, s.gens)
  BY <1>8, SetFrames
<1> HIDE DEF a
<1>10. Parts(b, Append(s.frames, f), s.execs, s.etraps, s.open, s.stray,
             [s.gens EXCEPT ![g] = Running])
  <2> DEFINE q == [s.gens EXCEPT ![g] = Running]
  <2>1. q \in [Gens -> GenRec] /\ a \in States
    BY <1>1, <1>9, EmptyGen DEF Parts
  <2>2. b = [a EXCEPT !.gens = q]
    OBVIOUS
  <2> HIDE DEF q, b
  <2>3. Parts(b, a.frames, a.execs, a.etraps, a.open, a.stray, q)
    BY <2>1, <2>2, SetGens
  <2>4. QED
    BY <1>9, <2>3 DEF Parts, q
<1> HIDE DEF b
<1>11. Parts(c, Append(s.frames, f), s.execs, s.etraps \o m, s.open, s.stray,
             [s.gens EXCEPT ![g] = Running])
  <2>1. b \in States
    BY <1>10 DEF Parts
  <2>2. Parts(c, b.frames, b.execs, s.etraps \o m, b.open, b.stray, b.gens)
    BY <1>8, <2>1, SetEtraps
  <2>3. QED
    BY <1>10, <2>2 DEF Parts
<1> HIDE DEF c
<1>12. QED
  BY <1>5, <1>7, <1>11 DEF m
\* The generator g resumes in frame f; q are the activations.
Resumes(s, t, g, base, root, f, q) ==
  /\ Depth(s) > 0 /\ Depth(s) < MaxFrames /\ s.gens[g].state = "suspended"
  /\ ci(s).base + Len(ci(s).vars) <= base
  /\ Resumed(s, g, base, root, f)
  /\ Parts(t, Append(s.frames, f), q, s.etraps \o Moved(s.gens[g].traps, base),
           s.open, s.stray, [s.gens EXCEPT ![g] = Running])
  /\ Len(q) = Len(s.execs) + (IF root THEN 1 ELSE 0)
  /\ ~ TryInForeach =>
       \A e \in 1 .. Len(q) :
         q[e] = (IF e <= Len(s.execs) THEN s.execs[e] ELSE 0) +
                  (IF e = Len(q) THEN Len(s.gens[g].traps) ELSE 0)

LEMMA ResumesGood ==
  ASSUME NEW s, Good(s), NEW t, NEW g \in Gens, NEW base \in Nat, NEW root \in BOOLEAN,
         NEW f, NEW q, Resumes(s, t, g, base, root, f, q)
  PROVE  Good(t) /\ Shares(s, t)
<1> USE DEF Resumes
<1>0. Core(s) /\ s \in States
  BY DEF Good, Core
<1>1. /\ s.gens \in [Gens -> GenRec] /\ s.frames \in Seq(FrameRec) /\ s.etraps \in Seq(Trap)
      /\ s.gens[g] \in GenRec /\ s.gens[g].traps \in Seq(Trap)
  <2>1. s.gens \in [Gens -> GenRec] /\ s.frames \in Seq(FrameRec) /\ s.etraps \in Seq(Trap)
    BY <1>0, StateIs
  <2>2. QED
    BY <2>1 DEF GenRec
<1>2. /\ Blocks(s.gens[g].vars, s.gens[g].scopes)
      /\ TrapsFit(s.gens[g].traps, s.gens[g].scopes, 0)
  BY <1>0 DEF Core, Shapes, GenOK
<1>3. /\ f \in FrameRec /\ f.kind = "generator" /\ f.base = base
      /\ f.vars = s.gens[g].vars /\ f.scopes = s.gens[g].scopes
      /\ f.etraps = Len(s.gens[g].traps) /\ f.gen = g /\ f.root = root
  BY DEF Resumed
<1>4. FrameOK(f)
  BY <1>2, <1>3 DEF FrameOK
<1>5. Pushes(s, t, f, g)
  <2>1. Depth(s) # 0 /\ s.gens[g].state # "running"
    OBVIOUS
  <2>2. t.gens[g] = Running /\ \A h \in Gens : h # g => t.gens[h] = s.gens[h]
    BY <1>1 DEF Parts
  <2>3. /\ t.gens[g].state = "running" /\ t.gens[g].vars = <<>> /\ GenOK(t.gens[g])
    BY <2>2, EmptyGen
  <2>4. ci(s).base + Len(ci(s).vars) <= f.base
    BY <1>3
  <2>5. /\ t \in States /\ t.frames = Append(s.frames, f) /\ t.open = s.open
        /\ t.stray = s.stray
    BY DEF Parts
  <2>6. QED
    BY ONLY <1>3, <1>4, <2>1, <2>2, <2>3, <2>4, <2>5, g \in Gens, Depth(s) < MaxFrames DEF Pushes
<1>6. PushesTraps(s, t, f)
  <2> DEFINE m == Moved(s.gens[g].traps, base)
             p == PushedTraps(s, t, f)
  <2>1. base \in Int /\ 0 \in Int /\ 0 + base = base
    OBVIOUS
  <2>2. m \in Seq(Trap) /\ Len(m) = Len(s.gens[g].traps)
    BY <1>1, <2>1, MovedIs
  <2>3. TrapsFit(m, f.scopes, f.base)
    BY <1>1, <1>2, <1>3, <2>1, MovedFit
  <2>4. t.etraps = s.etraps \o m /\ t.execs = q
    BY DEF Parts
  <2> HIDE DEF m
  <2> PICK l \in Nat : l = Len(s.etraps)
    BY <1>1
  <2>5. f.etraps \in Nat /\ f.etraps = Len(m)
    BY <1>3, <2>2
  <2>6. /\ \A j \in 1 .. l : t.etraps[j] = s.etraps[j]
        /\ Len(t.etraps) = l + f.etraps
        /\ \A j \in 1 .. f.etraps : t.etraps[l + j] = m[j]
    <3> PICK a \in Seq(Trap) : a = s.etraps
      BY <1>1
    <3> PICK n \in Nat : n = f.etraps
      BY <2>5
    <3>1. Len(a) = l /\ Len(m) = n /\ t.etraps = a \o m
      BY <2>4, <2>5
    <3>2. /\ Len(a \o m) = l + n /\ \A j \in 1 .. l : (a \o m)[j] = a[j]
          /\ \A j \in 1 .. n : (a \o m)[l + j] = m[j]
      <4> PICK c \in Seq(Trap) : c = m
        BY <2>2
      <4>1. Len(a) = l /\ Len(c) = n
        BY <3>1
      <4>2. Len(a \o c) = l + n
        BY ONLY <4>1, a \in Seq(Trap), c \in Seq(Trap)
      <4>3. ASSUME NEW j \in 1 .. l PROVE (a \o c)[j] = a[j]
        BY ONLY <4>1, a \in Seq(Trap), c \in Seq(Trap), l \in Nat, n \in Nat, j \in 1 .. l
      <4>4. ASSUME NEW j \in 1 .. n PROVE (a \o c)[l + j] = c[j]
        <5> PICK i \in Nat : i = l + j
          OBVIOUS
        <5>1. i \in 1 .. l + n /\ ~ (i <= l) /\ i - l = j
          OBVIOUS
        <5>2. (a \o c)[i] = c[i - l]
          BY ONLY <4>1, <5>1, a \in Seq(Trap), c \in Seq(Trap), l \in Nat, n \in Nat, i \in Nat
        <5>3. QED
          BY <5>1, <5>2
      <4>5. QED
        BY <4>2, <4>3, <4>4
    <3>3. QED
      BY <3>1, <3>2
  <2>7. p = m
    <3>1. p = [j \in 1 .. f.etraps |-> m[j]]
      BY <2>6 DEF PushedTraps
    <3>2. m = [j \in 1 .. f.etraps |-> m[j]]
      BY <2>2, <2>5
    <3>3. QED
      BY <3>1, <3>2
  <2>8. \A j \in 1 .. Len(s.etraps) : t.etraps[j] = s.etraps[j]
    BY <2>6
  <2>9. Len(t.etraps) = Len(s.etraps) + f.etraps
    BY <2>6
  <2>10. TrapsFit(PushedTraps(s, t, f), f.scopes, f.base)
    BY <2>3, <2>7
  <2>11. Len(t.execs) = Len(s.execs) + (IF f.root THEN 1 ELSE 0)
    BY <1>3, <2>4
  <2>12. ~ TryInForeach =>
           \A e \in 1 .. Len(t.execs) :
             t.execs[e] = (IF e <= Len(s.execs) THEN s.execs[e] ELSE 0) +
                            (IF e = Len(t.execs) THEN f.etraps ELSE 0)
    BY <1>3, <2>4
  <2>13. QED
    BY ONLY <2>8, <2>9, <2>10, <2>11, <2>12 DEF PushesTraps
<1>7. QED
  BY <1>5, <1>6, PushesGood

\* The top of the stack
LEMMA TopRoom ==
  ASSUME NEW s, Core(s), Depth(s) > 0
  PROVE  /\ Top(s) \in Nat /\ ci(s).base + Len(ci(s).vars) <= Top(s)
         /\ Len(s.execs) \in Nat /\ Len(s.execs) > 0 /\ s.execs \in Seq(Int)
<1>1. /\ ci(s).base \in Nat /\ Len(ci(s).vars) \in Nat
      /\ Blocks(ci(s).vars, ci(s).scopes)
  BY TopVars
<1>2. Len(ci(s).vars) <= FrameSize /\ FrameSize \in Nat
  BY <1>1, BoundsAssumption DEF Blocks
<1>3. Top(s) \in Nat /\ ci(s).base + Len(ci(s).vars) <= Top(s)
  BY <1>1, <1>2 DEF Top
<1>4. Len(s.execs) \in Nat /\ Len(s.execs) > 0 /\ s.execs \in Seq(Int)
  BY TopOwnIs, StateIs DEF Core
<1>5. QED
  BY <1>3, <1>4

LEMMA RESUMEGood ==
  ASSUME NEW s, Good(s), s = vm, NEW t, t = vm', NEW g \in Gens,
         ~ SharedGenerators, RESUME(g)
  PROVE  Good(t) /\ Shares(s, t)
<1>0. /\ Core(s) /\ s \in States /\ Depth(s) > 0 /\ Depth(s) < MaxFrames
      /\ s.gens[g].state = "suspended" /\ ~ s.gens[g].root
      /\ t = AddTraps(Resume(s, g, Top(s)), Len(s.gens[g].traps))
  BY DEF Good, Core, RESUME, Script, Suspended, OfScripts, CanCall
<1>1. /\ Top(s) \in Nat /\ ci(s).base + Len(ci(s).vars) <= Top(s)
      /\ Len(s.execs) \in Nat /\ Len(s.execs) > 0 /\ s.execs \in Seq(Int)
  BY <1>0, TopRoom
<1> DEFINE u == Resume(s, g, Top(s))
           n == Len(s.gens[g].traps)
<1>2. PICK f :
           /\ Resumed(s, g, Top(s), s.gens[g].root, f)
           /\ Parts(u, Append(s.frames, f), s.execs,
                    s.etraps \o Moved(s.gens[g].traps, Top(s)), s.open, s.stray,
                    [s.gens EXCEPT ![g] = Running])
  BY <1>0, <1>1, ResumeIs
<1>3. f.root = s.gens[g].root /\ f \in FrameRec /\ f.etraps = n
  BY <1>2 DEF Resumed
<1>4. f.root = FALSE /\ s.gens[g].root = FALSE /\ n \in Nat
  BY <1>0, <1>3 DEF FrameRec
<1> HIDE DEF u
<1>5. u \in States /\ Len(u.execs) > 0 /\ n \in Int
  BY <1>1, <1>2, <1>4 DEF Parts
<1>6. PICK q \in Seq(Int) :
        /\ Parts(AddTraps(u, n), u.frames, q, u.etraps, u.open, u.stray, u.gens)
        /\ Len(q) = Len(u.execs)
        /\ \A e \in 1 .. Len(q) :
             q[e] = u.execs[e] + (IF e = Len(u.execs) THEN n ELSE 0)
  BY <1>5, AddTrapsIs
<1>7. /\ Len(q) = Len(s.execs) + (IF FALSE THEN 1 ELSE 0)
      /\ \A e \in 1 .. Len(q) :
             q[e] = (IF e <= Len(s.execs) THEN s.execs[e] ELSE 0) +
                      (IF e = Len(q) THEN n ELSE 0)
  <2>1. u.execs = s.execs
    BY <1>2 DEF Parts
  <2>2. Len(q) = Len(s.execs)
    BY <1>6, <2>1
  <2>3. \A e \in 1 .. Len(q) : e <= Len(s.execs)
    BY ONLY <2>2, q \in Seq(Int)
  <2>4. QED
    <3> PICK l \in Nat : l = Len(s.execs)
      BY <1>1
    <3>1. \A e \in 1 .. l : q[e] = s.execs[e] + (IF e = l THEN n ELSE 0)
      BY ONLY <1>6, <2>1, <2>2, l = Len(s.execs)
    <3>2. Len(q) = l
      BY <2>2
    <3>3. l = l + (IF FALSE THEN 1 ELSE 0)
      BY ONLY l \in Nat
    <3>4. \A e \in 1 .. l : e <= l
      BY ONLY l \in Nat
    <3>5. QED
      BY ONLY <3>1, <3>2, <3>3, <3>4, l = Len(s.execs)
<1>8. Parts(t, Append(s.frames, f), q, s.etraps \o Moved(s.gens[g].traps, Top(s)),
            s.open, s.stray, [s.gens EXCEPT ![g] = Running])
  <2>1. t = AddTraps(u, n)
    BY <1>0 DEF u
  <2>2. QED
    <3>1. /\ u.frames = Append(s.frames, f) /\ u.open = s.open /\ u.stray = s.stray
          /\ u.etraps = s.etraps \o Moved(s.gens[g].traps, Top(s))
          /\ u.gens = [s.gens EXCEPT ![g] = Running]
      BY ONLY <1>2 DEF Parts
    <3>2. QED
      BY ONLY <1>6, <2>1, <3>1
<1>9. Resumed(s, g, Top(s), FALSE, f)
  BY <1>2, <1>4
<1>10. Resumes(s, t, g, Top(s), FALSE, f, q)
  BY ONLY <1>0, <1>1, <1>7, <1>8, <1>9 DEF Resumes
<1>11. QED
  BY ONLY <1>1, <1>10, Good(s), g \in Gens, FALSE \in BOOLEAN, ResumesGood

LEMMA FOREACHGood ==
  ASSUME NEW s, Good(s), s = vm, NEW t, t = vm', NEW g \in Gens,
         ~ SharedGenerators, FOREACH(g)
  PROVE  Good(t) /\ Shares(s, t)
<1>0. /\ Core(s) /\ s \in States /\ Depth(s) > 0 /\ Depth(s) < MaxFrames
      /\ s.gens[g].state = "suspended" /\ ~ s.gens[g].root
      /\ TryInForeach \/ s.gens[g].traps = <<>>
      /\ t = Resume(s, g, Top(s))
  BY DEF Good, Core, FOREACH, Script, Suspended, OfScripts, CanCall
<1>1. /\ Top(s) \in Nat /\ ci(s).base + Len(ci(s).vars) <= Top(s)
      /\ Len(s.execs) \in Nat /\ Len(s.execs) > 0 /\ s.execs \in Seq(Int)
  BY <1>0, TopRoom
<1>2. PICK f :
           /\ Resumed(s, g, Top(s), s.gens[g].root, f)
           /\ Parts(t, Append(s.frames, f), s.execs,
                    s.etraps \o Moved(s.gens[g].traps, Top(s)), s.open, s.stray,
                    [s.gens EXCEPT ![g] = Running])
  <2> DEFINE u == Resume(s, g, Top(s))
  <2>1. \E f :
           /\ Resumed(s, g, Top(s), s.gens[g].root, f)
           /\ Parts(u, Append(s.frames, f), s.execs,
                    s.etraps \o Moved(s.gens[g].traps, Top(s)), s.open, s.stray,
                    [s.gens EXCEPT ![g] = Running])
    BY <1>0, <1>1, ResumeIs
  <2>2. t = u
    BY <1>0
  <2> HIDE DEF u
  <2>3. QED
    BY <2>1, <2>2
<1>3. f.root = s.gens[g].root /\ f \in FrameRec
  BY <1>2 DEF Resumed
<1>4. f.root = FALSE /\ s.gens[g].root = FALSE
  BY <1>0, <1>3 DEF FrameRec
<1>5. /\ Len(s.execs) = Len(s.execs) + (IF FALSE THEN 1 ELSE 0)
      /\ ~ TryInForeach =>
           \A e \in 1 .. Len(s.execs) :
             s.execs[e] = (IF e <= Len(s.execs) THEN s.execs[e] ELSE 0) +
                            (IF e = Len(s.execs) THEN Len(s.gens[g].traps) ELSE 0)
  <2>1. ~ TryInForeach => Len(s.gens[g].traps) = 0
    BY <1>0
  <2> PICK l \in Nat : l = Len(s.execs)
    BY <1>1
  <2>2. \A e \in 1 .. l : s.execs[e] \in Int
    BY <1>1
  <2>3. QED
    BY <2>1, <2>2
<1>6. Resumed(s, g, Top(s), FALSE, f)
  BY <1>2, <1>4
<1>7. Resumes(s, t, g, Top(s), FALSE, f, s.execs)
  BY ONLY <1>0, <1>1, <1>2, <1>5, <1>6 DEF Resumes
<1>8. QED
  BY ONLY <1>1, <1>7, Good(s), g \in Gens, FALSE \in BOOLEAN, ResumesGood
LEMMA ExecuteGeneratorGood ==
  ASSUME NEW s, Good(s), s = vm, NEW t, t = vm', NEW g \in Gens, ExecuteGenerator(g)
  PROVE  Good(t) /\ Shares(s, t)
<1> DEFINE u == Resume(s, g, Top(s))
           n == Len(s.gens[g].traps)
           h == [ci(u) EXCEPT !.root = TRUE]
           w == SetCi(u, h)
<1>0. /\ Core(s) /\ s \in States /\ Depth(s) > 0 /\ Depth(s) < MaxFrames
      /\ s.gens[g].state = "suspended"
      /\ t = [w EXCEPT !.execs = Append(w.execs, n)]
  BY DEF Good, Core, ExecuteGenerator, Native, Suspended, CanCall
<1>1. /\ Top(s) \in Nat /\ ci(s).base + Len(ci(s).vars) <= Top(s)
      /\ Len(s.execs) \in Nat /\ Len(s.execs) > 0 /\ s.execs \in Seq(Int)
  BY <1>0, TopRoom
<1>2. s.frames \in Seq(FrameRec) /\ Depth(s) = Len(s.frames) /\ n \in Nat
  <2>1. s.frames \in Seq(FrameRec) /\ s.gens[g] \in GenRec
    BY <1>0, StateIs
  <2>2. s.gens[g].traps \in Seq(Trap)
    BY <2>1 DEF GenRec
  <2>3. QED
    BY <2>1, <2>2 DEF Depth
<1>3. PICK f :
           /\ Resumed(s, g, Top(s), s.gens[g].root, f)
           /\ Parts(u, Append(s.frames, f), s.execs,
                    s.etraps \o Moved(s.gens[g].traps, Top(s)), s.open, s.stray,
                    [s.gens EXCEPT ![g] = Running])
  BY <1>0, <1>1, ResumeIs
<1> HIDE DEF u, n
<1>4. f \in FrameRec
  BY <1>3 DEF Resumed
<1>5. u \in States /\ Depth(u) = Depth(s) + 1 /\ ci(u) = f /\ u.frames = Append(s.frames, f)
  <2>1. u \in States /\ u.frames = Append(s.frames, f)
    BY <1>3 DEF Parts
  <2> PICK l \in Nat : l = Len(s.frames)
    BY <1>2
  <2>2. Len(Append(s.frames, f)) = l + 1 /\ Append(s.frames, f)[l + 1] = f
    BY <1>2, <1>4
  <2>3. Depth(u) = l + 1
    BY <2>1, <2>2 DEF Depth
  <2>4. QED
    BY <1>2, <2>1, <2>2, <2>3 DEF ci
<1>6. Resumed(s, g, Top(s), TRUE, h)
  <2>1. /\ h \in FrameRec /\ h.kind = f.kind /\ h.base = f.base /\ h.vars = f.vars
        /\ h.scopes = f.scopes /\ h.etraps = f.etraps /\ h.gen = f.gen /\ h.root = TRUE
    BY ONLY <1>4, <1>5 DEF FrameRec
  <2>2. QED
    BY <1>3, <2>1 DEF Resumed
<1>7. h \in FrameRec
  BY <1>6 DEF Resumed
<1> HIDE DEF h
<1>8. Parts(w, Append(s.frames, h), s.execs,
            s.etraps \o Moved(s.gens[g].traps, Top(s)), s.open, s.stray,
            [s.gens EXCEPT ![g] = Running])
  <2>1. Parts(w, [u.frames EXCEPT ![Depth(u)] = h], u.execs, u.etraps, u.open, u.stray, u.gens)
    <3>1. Depth(s) + 1 > 0
      BY <1>0, <1>2
    <3>2. Depth(u) > 0
      BY <1>5, <3>1
    <3>3. QED
      BY <1>5, <1>7, <3>2, SetCiIs
  <2>2. [Append(s.frames, f) EXCEPT ![Depth(u)] = h] = Append(s.frames, h)
    <3> PICK a \in Seq(FrameRec) : a = s.frames
      BY <1>2
    <3> PICK l \in Nat : l = Len(a)
      OBVIOUS
    <3>1. [Append(a, f) EXCEPT ![Len(a) + 1] = h] = Append(a, h)
      <4> DEFINE x == Append(a, f)
                 y == Append(a, h)
      <4>1. /\ x \in Seq(FrameRec) /\ y \in Seq(FrameRec) /\ Len(x) = l + 1 /\ Len(y) = l + 1
            /\ y[l + 1] = h /\ \A k \in 1 .. l : x[k] = y[k]
        BY <1>4, <1>7
      <4> HIDE DEF x, y
      <4>2. [x EXCEPT ![l + 1] = h] = [k \in 1 .. l + 1 |-> IF k = l + 1 THEN h ELSE x[k]]
        BY <4>1
      <4>3. y = [k \in 1 .. l + 1 |-> y[k]]
        BY <4>1
      <4>4. \A k \in 1 .. l + 1 : (IF k = l + 1 THEN h ELSE x[k]) = y[k]
        BY <4>1
      <4>5. QED
        BY <4>2, <4>3, <4>4 DEF x, y
    <3>2. QED
      BY <1>2, <1>5, <3>1
  <2>3. QED
    BY <1>3, <1>5, <2>1, <2>2 DEF Parts
<1> HIDE DEF w
<1>9. Append(s.execs, n) \in Seq(Int)
  BY <1>1, <1>2
<1>10. Parts(t, Append(s.frames, h), Append(s.execs, n),
             s.etraps \o Moved(s.gens[g].traps, Top(s)), s.open, s.stray,
             [s.gens EXCEPT ![g] = Running])
  <2>1. w \in States /\ w.execs = s.execs
    BY <1>8 DEF Parts
  <2>2. t = [w EXCEPT !.execs = Append(s.execs, n)]
    BY <1>0, <2>1
  <2>3. Parts(t, w.frames, Append(s.execs, n), w.etraps, w.open, w.stray, w.gens)
    BY ONLY <1>9, <2>1, <2>2, SetExecs
  <2>4. QED
    BY <1>8, <2>3 DEF Parts
<1>11. /\ Len(Append(s.execs, n)) = Len(s.execs) + (IF TRUE THEN 1 ELSE 0)
       /\ \A e \in 1 .. Len(Append(s.execs, n)) :
             Append(s.execs, n)[e] =
               (IF e <= Len(s.execs) THEN s.execs[e] ELSE 0) +
                 (IF e = Len(Append(s.execs, n)) THEN n ELSE 0)
  <2> PICK q \in Seq(Int) : q = s.execs
    BY <1>1
  <2> PICK l \in Nat : l = Len(q)
    OBVIOUS
  <2>1. Len(Append(q, n)) = l + 1 /\ Append(q, n)[l + 1] = n
        /\ \A e \in 1 .. l : Append(q, n)[e] = q[e] /\ q[e] \in Int
    BY <1>2
  <2>2. ASSUME NEW e \in 1 .. l + 1
        PROVE  Append(q, n)[e] = (IF e <= l THEN q[e] ELSE 0) + (IF e = l + 1 THEN n ELSE 0)
    <3>1. CASE e <= l
      BY <2>1, <3>1
    <3>2. CASE ~ (e <= l)
      <4>1. e = l + 1
        BY <3>2
      <4>2. QED
        BY <1>2, <2>1, <3>2, <4>1
    <3>3. QED
      BY <3>1, <3>2
  <2>3. QED
    BY <2>1, <2>2
<1>12. Resumes(s, t, g, Top(s), TRUE, h, Append(s.execs, n))
  BY ONLY <1>0, <1>1, <1>6, <1>10, <1>11 DEF Resumes, n
<1>13. QED
  BY ONLY <1>1, <1>12, Good(s), g \in Gens, TRUE \in BOOLEAN, ResumesGood
----------------------------------------------------------------------------
(* Functions return *)

\* All frames of b but the lowest n are left, and so is an Execute if root.
Leaves(b, u, n, root, q, r) ==
  /\ Parts(u, SubSeq(b.frames, 1, n), q, b.etraps, Lower(b.open, b.frames[n + 1].base),
           Lower(b.stray, b.frames[n + 1].base), r)
  /\ Len(q) = Len(b.execs) - (IF root THEN 1 ELSE 0)
  /\ \A e \in 1 .. Len(q) : q[e] = b.execs[e]
  /\ \A g \in Gens : r[g] = (IF \E k \in n + 1 .. Depth(b) : b.frames[k].gen = g
                             THEN Dead ELSE b.gens[g])

LEMMA LeavesIs ==
  ASSUME NEW b \in States, NEW n \in 0 .. Depth(b) - 1, NEW root \in BOOLEAN,
         Len(b.execs) > 0, NEW u, u = LeaveExecute(LeaveFrames(Kill(b, n), n), root)
  PROVE  \E q \in Seq(Int), r \in [Gens -> GenRec] : Leaves(b, u, n, root, q, r)
<1> DEFINE c == Kill(b, n)
           d == LeaveFrames(c, n)
<1>0. n \in Nat
  BY DepthIs
<1>1. PICK r \in [Gens -> GenRec] :
        /\ Parts(c, b.frames, b.execs, b.etraps, b.open, b.stray, r)
        /\ \A g \in Gens : r[g] = (IF \E k \in n + 1 .. Depth(b) : b.frames[k].gen = g
                                   THEN Dead ELSE b.gens[g])
  BY <1>0, KillIs
<1> HIDE DEF c
<1>2. c \in States /\ Depth(c) = Depth(b) /\ c.frames = b.frames /\ c.open = b.open
      /\ c.stray = b.stray /\ c.execs = b.execs /\ c.etraps = b.etraps /\ c.gens = r
  BY <1>1 DEF Parts, Depth
<1>3. n \in 0 .. Depth(c) - 1
  BY <1>2
<1>4. Parts(d, SubSeq(c.frames, 1, n), c.execs, c.etraps,
            Lower(c.open, c.frames[n + 1].base), Lower(c.stray, c.frames[n + 1].base), c.gens)
  BY <1>2, <1>3, LeaveFramesIs
<1> HIDE DEF d
<1>5. d \in States /\ d.execs = b.execs
  BY <1>2, <1>4 DEF Parts
<1>6. u = LeaveExecute(d, root)
  BY DEF c, d
<1>7. PICK q \in Seq(Int) :
           /\ Parts(u, d.frames, q, d.etraps, d.open, d.stray, d.gens)
           /\ Len(q) = Len(d.execs) - (IF root THEN 1 ELSE 0)
           /\ \A e \in 1 .. Len(q) : q[e] = d.execs[e]
  BY ONLY <1>5, <1>6, root \in BOOLEAN, Len(b.execs) > 0, LeaveExecuteIs
<1>8. Leaves(b, u, n, root, q, r)
  BY <1>1, <1>2, <1>4, <1>5, <1>7 DEF Leaves, Parts
<1>9. QED
  BY <1>8

LEMMA RETURNGood ==
  ASSUME NEW s, Good(s), s = vm, NEW t, t = vm', RETURN
  PROVE  Good(t) /\ Shares(s, t)
<1>0. Core(s) /\ s \in States /\ Depth(s) > 0
  BY DEF Good, Core, RETURN, Script
<1>1. /\ ci(s) = s.frames[Depth(s)] /\ ci(s) \in FrameRec
      /\ s.frames \in Seq(FrameRec) /\ Depth(s) \in Nat /\ Depth(s) = Len(s.frames)
      /\ Len(s.execs) > 0 /\ ci(s).etraps \in Nat /\ ci(s).etraps <= Len(s.etraps)
      /\ s.execs \in Seq(Int) /\ Len(s.execs) \in Nat
  BY <1>0, TopIs, TopOwnIs, StateIs DEF Depth
<1> DEFINE x == ci(s).etraps
           b == POPTRAP(s, x)
<1> PICK n \in Nat : n = Depth(s) - 1
  <2>1. Depth(s) \in Nat /\ Depth(s) > 0
    BY <1>0, <1>1
  <2>2. QED
    BY ONLY <2>1
<1>2. n + 1 = Depth(s) /\ n \in 0 .. Depth(s) - 1
  BY <1>1
<1>3. x \in 0 .. ci(s).etraps
  BY <1>1
<1>4. PICK p \in FrameRec, q0 \in Seq(Int) :
           /\ p = [ci(s) EXCEPT !.etraps = ci(s).etraps - x]
           /\ Parts(b, [s.frames EXCEPT ![Depth(s)] = p], q0, Without(s.etraps, x),
                    s.open, s.stray, s.gens)
           /\ Depth(b) = Depth(s) /\ ci(b) = p
           /\ Len(q0) = Len(s.execs)
           /\ \A e \in 1 .. Len(q0) :
                q0[e] = s.execs[e] + (IF e = Len(s.execs) THEN -x ELSE 0)
  BY <1>0, <1>1, <1>3, POPTRAPIs
<1>5. p.base = ci(s).base /\ p.gen = ci(s).gen /\ p.root = ci(s).root /\ p.root \in BOOLEAN
  BY ONLY <1>1, <1>4 DEF FrameRec
<1> DEFINE u == LeaveExecute(LeaveFrames(Kill(b, n), n), p.root)
<1>6. t = u
  <2>1. ci(b).root = p.root
    BY <1>4
  <2>2. QED
    BY <2>1 DEF RETURN
<1> HIDE DEF b, u
<1>7. PICK q \in Seq(Int), r \in [Gens -> GenRec] : Leaves(b, u, n, p.root, q, r)
  <2>1. b \in States /\ Len(b.execs) > 0
    BY <1>1, <1>4 DEF Parts
  <2>2. n \in 0 .. Depth(b) - 1
    BY <1>2, <1>4
  <2>3. u = LeaveExecute(LeaveFrames(Kill(b, n), n), p.root)
    BY DEF u
  <2>4. QED
    BY ONLY <1>5, <2>1, <2>2, <2>3, LeavesIs
<1>8. /\ Depth(b) = Depth(s) /\ b.frames = [s.frames EXCEPT ![Depth(s)] = p]
      /\ b.open = s.open /\ b.stray = s.stray /\ b.gens = s.gens /\ b.execs = q0
      /\ b.etraps = Without(s.etraps, x)
  BY <1>4 DEF Parts
<1>9. b.frames[n + 1] = p /\ b.frames \in Seq(FrameRec) /\ Len(b.frames) = n + 1
      /\ \A k \in 1 .. n : b.frames[k] = s.frames[k]
  BY <1>1, <1>2, <1>8
<1>10. SubSeq(b.frames, 1, n) = SubSeq(s.frames, 1, n)
  BY <1>1, <1>2, <1>9
<1>11. Parts(t, SubSeq(s.frames, 1, n), q, Without(s.etraps, x),
             Lower(s.open, s.frames[n + 1].base), Lower(s.stray, s.frames[n + 1].base), r)
  <2>1. b.frames[n + 1].base = s.frames[n + 1].base
    BY <1>1, <1>2, <1>5, <1>9
  <2>2. QED
    BY <1>6, <1>7, <1>8, <1>10, <2>1 DEF Leaves, Parts
<1>12. Cut(s, t, n)
  <2>1. \A k \in n + 2 .. Depth(s) : s.frames[k].etraps = 0 /\ ~ s.frames[k].root
    BY <1>2
  <2>2. t.etraps = Without(s.etraps, s.frames[n + 1].etraps) /\ t.execs = q /\ t \in States
        /\ t.frames = SubSeq(s.frames, 1, n)
        /\ t.open = Lower(s.open, s.frames[n + 1].base)
        /\ t.stray = Lower(s.stray, s.frames[n + 1].base)
    BY <1>1, <1>2, <1>11 DEF Parts
  <2>3. Len(q) = Len(s.execs) - (IF s.frames[n + 1].root THEN 1 ELSE 0)
    <3>1. Len(q) = Len(b.execs) - (IF p.root THEN 1 ELSE 0)
      BY <1>7 DEF Leaves
    <3>2. Len(b.execs) = Len(s.execs) /\ p.root = s.frames[n + 1].root
      BY <1>1, <1>2, <1>4, <1>5, <1>8
    <3>3. QED
      BY <3>1, <3>2
  <2>4. \A e \in 1 .. Len(q) :
          q[e] = s.execs[e] - (IF e = Len(s.execs) THEN s.frames[n + 1].etraps ELSE 0)
    <3> PICK l \in Nat : l = Len(s.execs)
      BY <1>1
    <3>1. \A e \in 1 .. l : s.execs[e] \in Int
      BY <1>1
    <3>2. \A e \in 1 .. Len(q) : e \in 1 .. l /\ e \in 1 .. Len(q0)
      <4>1. Len(q) \in Nat
        OBVIOUS
      <4>2. Len(q) = l \/ Len(q) = l - 1
        <5>1. CASE s.frames[n + 1].root
          BY <2>3, <5>1
        <5>2. CASE ~ s.frames[n + 1].root
          <6>1. Len(q) = l - 0
            BY <2>3, <5>2
          <6>2. QED
            BY ONLY <6>1, l \in Nat
        <5>3. QED
          BY <5>1, <5>2
      <4>3. \A e \in 1 .. Len(q) : e \in 1 .. l
        BY <4>1, <4>2
      <4>4. QED
        BY <1>4, <4>3
    <3>3. \A e \in 1 .. Len(q) : q[e] = s.execs[e] + (IF e = l THEN -x ELSE 0)
      <4>1. \A e \in 1 .. Len(q) : q[e] = q0[e]
        BY <1>7, <1>8 DEF Leaves
      <4>2. QED
        BY <1>4, <3>2, <4>1
    <3>4. s.frames[n + 1].etraps = x /\ x \in Nat
      BY <1>1, <1>2
    <3>5. QED
      BY ONLY <3>1, <3>2, <3>3, <3>4, l = Len(s.execs), l \in Nat
  <2>5. QED
    BY <1>2, <2>1, <2>2, <2>3, <2>4 DEF Cut
<1>13. CutGens(s, t, n)
  <2>1. t.gens = r
    BY <1>11 DEF Parts
  <2>2. \A g \in Gens : (\E k \in n + 1 .. Depth(b) : b.frames[k].gen = g) <=>
                        (\E k \in n + 1 .. Depth(s) : s.frames[k].gen = g)
    <3>1. \A k \in n + 1 .. Depth(s) : k = Depth(s)
      BY <1>2
    <3>2. b.frames[Depth(s)].gen = s.frames[Depth(s)].gen
      BY <1>1, <1>2, <1>5, <1>9
    <3>3. QED
      BY <1>8, <3>1, <3>2
  <2>3. ASSUME NEW g \in Gens PROVE GenOK(s.gens[g])
    BY <1>0 DEF Core, Shapes
  <2>4. \A g \in Gens : t.gens[g] = (IF \E k \in n + 1 .. Depth(s) : s.frames[k].gen = g
                                   THEN Dead ELSE s.gens[g])
    <3>1. \A g \in Gens : r[g] = (IF \E k \in n + 1 .. Depth(b) : b.frames[k].gen = g
                                  THEN Dead ELSE b.gens[g])
      BY ONLY <1>7 DEF Leaves
    <3>2. b.gens = s.gens
      BY <1>8
    <3>3. QED
      BY ONLY <2>1, <2>2, <3>1, <3>2
  <2>5. QED
    BY ONLY <2>3, <2>4, EmptyGen DEF CutGens
<1>14. CutKills(s, t, n)
  <2>1. t.gens = r
    BY <1>11 DEF Parts
  <2>2. ASSUME NEW g \in Gens, NEW k \in n + 1 .. Depth(s), s.frames[k].gen = g
        PROVE  t.gens[g].vars = <<>>
    <3>1. k = Depth(s) /\ k \in n + 1 .. Depth(b)
      BY <1>2, <1>8
    <3>2. b.frames[k].gen = g
      BY <1>1, <1>2, <1>5, <1>9, <2>2, <3>1
    <3>3. r[g] = Dead
      BY <1>7, <3>1, <3>2 DEF Leaves
    <3>4. QED
      BY <2>1, <3>3 DEF Dead
  <2>3. QED
    BY <2>2 DEF CutKills
<1>15. Outers(s)
  BY DEF Good
<1>16. QED
  BY <1>0, <1>12, <1>13, <1>14, <1>15, CutGood, CutShares

LEMMA WithoutZero ==
  ASSUME NEW S, NEW q \in Seq(S)
  PROVE  Without(q, 0) = q
<1>1. Len(q) \in Nat /\ Len(q) - 0 = Len(q)
  OBVIOUS
<1>2. QED
  BY <1>1 DEF Without

\* A variable that was free stays so when frames are left.
LEMMA CutFresh ==
  ASSUME NEW s, Core(s), NEW t, NEW n, Cut(s, t, n), CutGens(s, t, n),
         NEW v \in Fresh(s)
  PROVE  v \in Fresh(t)
<1>0. s \in States /\ t \in States
  BY DEF Core, Cut
<1>1. /\ v \in Vars
      /\ \A k \in 1 .. Depth(s), x \in Nat :
           x \in 1 .. Len(s.frames[k].vars) => s.frames[k].vars[x] # v
      /\ \A g \in Gens, x \in Nat :
           x \in 1 .. Len(s.gens[g].vars) => s.gens[g].vars[x] # v
      /\ \A o \in s.open : o.var # v
  BY <1>0, FreshIs
<1>2. /\ n + 1 \in 1 .. Depth(s) /\ Depth(t) = n /\ n \in Nat
      /\ \A k \in 1 .. n : k \in 1 .. Depth(s) /\ t.frames[k] = s.frames[k]
  BY <1>0, CutOver, OverIs
<1>3. ASSUME v \in InScope(t) PROVE FALSE
  <2>1. CASE \E k \in 1 .. Depth(t), x \in Nat :
               x \in 1 .. Len(t.frames[k].vars) /\ t.frames[k].vars[x] = v
    BY <1>1, <1>2, <2>1
  <2>2. CASE \E g \in Gens, x \in Nat :
               x \in 1 .. Len(t.gens[g].vars) /\ t.gens[g].vars[x] = v
    <3>1. PICK g \in Gens, x \in Nat :
            x \in 1 .. Len(t.gens[g].vars) /\ t.gens[g].vars[x] = v
      BY <2>2
    <3>2. t.gens[g].vars # <<>>
      BY <3>1
    <3>3. t.gens[g].vars = s.frames[n + 1].vars \/ t.gens[g].vars = s.gens[g].vars
      BY <3>2 DEF CutGens
    <3>4. QED
      BY <1>1, <1>2, <3>1, <3>3
  <2>3. QED
    BY <1>0, <1>3, <2>1, <2>2, InScopeIs
<1>4. \A o \in t.open : o \in s.open
  BY DEF Cut, Lower
<1>5. QED
  BY <1>1, <1>3, <1>4 DEF Fresh

\* A native function leaves its frame.
LEMMA NativeLeft ==
  ASSUME NEW s, Good(s), Depth(s) > 0, ci(s).kind = "native",
         NEW t, t = LeaveFrames(s, Depth(s) - 1)
  PROVE  /\ Good(t) /\ Shares(s, t) /\ Depth(t) > 0
         /\ \A v \in Fresh(s) : v \in Fresh(t)
<1>0. Core(s) /\ s \in States
  BY DEF Good, Core
<1>1. /\ ci(s) = s.frames[Depth(s)] /\ ci(s) \in FrameRec
      /\ s.frames \in Seq(FrameRec) /\ Depth(s) \in Nat /\ Depth(s) = Len(s.frames)
      /\ s.execs \in Seq(Int) /\ Len(s.execs) \in Nat /\ s.etraps \in Seq(Trap)
  BY <1>0, TopIs, StateIs DEF Depth
<1>2. /\ ~ ci(s).root /\ ci(s).etraps = 0 /\ ci(s).gen = None /\ ci(s).vars = <<>>
  BY <1>0, TopOwnIs DEF FrameOK
<1> PICK n \in Nat : n = Depth(s) - 1
  <2>1. Depth(s) \in Nat /\ Depth(s) > 0
    BY <1>1
  <2>2. QED
    BY ONLY <2>1
<1>3. n + 1 = Depth(s) /\ n \in 0 .. Depth(s) - 1 /\ s.frames[n + 1] = ci(s)
  BY <1>1
<1>4. Parts(t, SubSeq(s.frames, 1, n), s.execs, s.etraps, Lower(s.open, s.frames[n + 1].base),
            Lower(s.stray, s.frames[n + 1].base), s.gens)
  <2> PICK u : u = LeaveFrames(s, n)
    OBVIOUS
  <2>1. Parts(u, SubSeq(s.frames, 1, n), s.execs, s.etraps, Lower(s.open, s.frames[n + 1].base),
              Lower(s.stray, s.frames[n + 1].base), s.gens)
    BY <1>0, <1>3, LeaveFramesIs
  <2>2. t = u
    OBVIOUS
  <2>3. QED
    BY ONLY <2>1, <2>2
<1>5. Cut(s, t, n)
  <2>1. \A k \in n + 2 .. Depth(s) : s.frames[k].etraps = 0 /\ ~ s.frames[k].root
    BY <1>3
  <2>2. /\ t \in States /\ t.frames = SubSeq(s.frames, 1, n) /\ t.execs = s.execs
        /\ t.etraps = s.etraps /\ t.open = Lower(s.open, s.frames[n + 1].base)
        /\ t.stray = Lower(s.stray, s.frames[n + 1].base)
    BY <1>4 DEF Parts
  <2>3. t.etraps = Without(s.etraps, s.frames[n + 1].etraps)
    BY <1>1, <1>2, <1>3, <2>2, WithoutZero
  <2>4. Len(t.execs) = Len(s.execs) - (IF s.frames[n + 1].root THEN 1 ELSE 0)
    <3>1. Len(s.execs) = Len(s.execs) - 0
      BY ONLY <1>1
    <3>2. QED
      BY <1>2, <1>3, <2>2, <3>1
  <2>5. \A e \in 1 .. Len(t.execs) :
          t.execs[e] = s.execs[e] - (IF e = Len(s.execs) THEN s.frames[n + 1].etraps ELSE 0)
    <3>1. \A e \in 1 .. Len(s.execs) : s.execs[e] \in Int
      BY <1>1
    <3>2. QED
      BY <1>2, <1>3, <2>2, <3>1
  <2>6. QED
    BY <1>3, <2>1, <2>2, <2>3, <2>4, <2>5 DEF Cut
<1>6. CutGens(s, t, n)
  <2>1. t.gens = s.gens
    BY <1>4 DEF Parts
  <2>2. \A g \in Gens : ~ \E k \in n + 1 .. Depth(s) : s.frames[k].gen = g
    BY <1>2, <1>3, VarsAssumption
  <2>3. ASSUME NEW g \in Gens PROVE GenOK(s.gens[g])
    BY <1>0 DEF Core, Shapes
  <2>4. QED
    BY <2>1, <2>2, <2>3 DEF CutGens
<1>7. CutKills(s, t, n)
  <2>1. \A g \in Gens : ~ \E k \in n + 1 .. Depth(s) : s.frames[k].gen = g
    BY <1>2, <1>3, VarsAssumption
  <2>2. QED
    BY <2>1 DEF CutKills
<1>8. Good(t) /\ Shares(s, t)
  BY <1>0, <1>5, <1>6, <1>7, CutGood, CutShares DEF Good
<1>9. Depth(t) > 0
  <2>1. Depth(t) = n
    BY <1>0, <1>5, CutOver
  <2>2. n # 0
    <3>1. s.frames[1].root
      BY <1>0 DEF Core, Rooted
    <3>2. ASSUME n = 0 PROVE FALSE
      <4>1. s.frames[1] = ci(s)
        BY <1>3, <3>2
      <4>2. QED
        BY <1>2, <3>1, <4>1
    <3>3. QED
      BY <3>2
  <2>3. QED
    BY ONLY <2>1, <2>2, n \in Nat
<1>10. QED
  BY <1>0, <1>5, <1>6, <1>8, <1>9, CutFresh

LEMMA NativeReturnGood ==
  ASSUME NEW s, Good(s), s = vm, NEW t, t = vm', NativeReturn
  PROVE  Good(t) /\ Shares(s, t)
<1>1. Depth(s) > 0 /\ ci(s).kind = "native" /\ t = LeaveFrames(s, Depth(s) - 1)
  BY DEF NativeReturn, Native
<1>2. QED
  BY ONLY <1>1, Good(s), NativeLeft

\* What a generator keeps: its traps relative to the base of its frame.
LEMMA SavedIs ==
  ASSUME NEW s, Core(s), Depth(s) > 0, ci(s).kind = "generator",
         NEW c, c.etraps = s.etraps, c.frames = s.frames,
         NEW saved, saved = [state |-> "suspended", vars |-> ci(s).vars,
                             scopes |-> ci(s).scopes,
                             traps |-> SavedTraps(c, ci(s).etraps), root |-> ci(s).root]
  PROVE  /\ saved \in GenRec /\ GenOK(saved) /\ saved.state = "suspended"
         /\ saved.vars = ci(s).vars
<1> DEFINE own == OwnTraps(s, Depth(s))
<1>0. s \in States
  BY DEF Core
<1>1. /\ ci(s) \in FrameRec /\ ci(s).vars \in Seq(Vars) /\ ci(s).scopes \in Seq(ScopeRec)
      /\ Blocks(ci(s).vars, ci(s).scopes) /\ ci(s).base \in Nat /\ ci(s).root \in BOOLEAN
  BY TopVars, FrameIs
<1>2. /\ own \in Seq(Trap) /\ Len(own) = ci(s).etraps
      /\ LowerTraps(s) \in Nat /\ ci(s).etraps \in Nat
      /\ LowerTraps(s) + ci(s).etraps = Len(s.etraps)
      /\ \A j \in 1 .. ci(s).etraps : own[j] = s.etraps[LowerTraps(s) + j]
      /\ TrapsFit(own, ci(s).scopes, ci(s).base)
  BY TopOwnIs
<1> HIDE DEF own
<1>3. SubSeq(c.etraps, Len(c.etraps) - ci(s).etraps + 1, Len(c.etraps)) = own
  <2> PICK a \in Seq(Trap) : a = s.etraps
    BY <1>0, StateIs
  <2> PICK l \in Nat, n \in Nat : l = LowerTraps(s) /\ n = ci(s).etraps
    BY <1>2
  <2> DEFINE x == SubSeq(a, l + 1, l + n)
  <2>1. Len(a) = l + n /\ Len(a) - n + 1 = l + 1
    BY <1>2
  <2>2. x \in Seq(Trap) /\ Len(x) = n /\ \A j \in 1 .. n : x[j] = a[l + j]
    <3>1. \A j \in l + 1 .. l + n : a[j] \in Trap
      BY <2>1
    <3>2. l + 1 \in Int /\ l + n \in Int
      OBVIOUS
    <3>3. /\ x \in Seq(Trap) /\ Len(x) = IF l + 1 <= l + n THEN (l + n) - (l + 1) + 1 ELSE 0
          /\ \A j \in 1 .. (l + n) - (l + 1) + 1 : x[j] = a[(l + 1) + j - 1]
      BY ONLY <3>1, <3>2, SubSeqProperties DEF x
    <3> HIDE DEF x
    <3>4. (l + n) - (l + 1) + 1 = n /\ \A j \in 1 .. n : (l + 1) + j - 1 = l + j
      OBVIOUS
    <3>5. l + 1 <= l + n \/ n = 0
      OBVIOUS
    <3>6. QED
      BY ONLY <3>3, <3>4, <3>5
  <2> HIDE DEF x
  <2>3. own = [j \in 1 .. n |-> own[j]] /\ x = [j \in 1 .. n |-> x[j]]
    BY <1>2, <2>2
  <2>4. \A j \in 1 .. n : own[j] = x[j]
    BY <1>2, <2>2
  <2>5. own = x
    BY <2>3, <2>4
  <2>6. QED
    BY <2>1, <2>5 DEF x
<1>4. ci(c) = ci(s)
  BY DEF ci, Depth
<1>5. SavedTraps(c, ci(s).etraps) = Moved(own, -ci(s).base)
  BY <1>3, <1>4 DEF SavedTraps
<1>6. -ci(s).base \in Int /\ ci(s).base \in Int /\ ci(s).base + (-ci(s).base) = 0
  BY <1>1
<1>7. Moved(own, -ci(s).base) \in Seq(Trap)
  BY <1>2, <1>6, MovedIs
<1>8. TrapsFit(Moved(own, -ci(s).base), ci(s).scopes, 0)
  BY ONLY <1>2, <1>6, MovedFit
<1>9. /\ saved \in GenRec /\ saved.state = "suspended" /\ saved.vars = ci(s).vars
      /\ saved.scopes = ci(s).scopes /\ saved.traps = Moved(own, -ci(s).base)
  BY <1>1, <1>5, <1>7 DEF GenRec
<1>10. QED
  BY <1>1, <1>8, <1>9 DEF GenOK

\* The parts of the state after a yield: n frames are left, and g is what the
\* generator keeps.
Yields(s, t, n, saved) ==
  \E q \in Seq(Int) :
    /\ Parts(t, SubSeq(s.frames, 1, n), q, Without(s.etraps, ci(s).etraps),
             Lower(s.open, ci(s).base), Lower(s.stray, ci(s).base),
             [s.gens EXCEPT ![ci(s).gen] = saved])
    /\ Len(q) = Len(s.execs) - (IF ci(s).root THEN 1 ELSE 0)
    /\ \A e \in 1 .. Len(q) :
         q[e] = s.execs[e] + (IF e = Len(s.execs) THEN - ci(s).etraps ELSE 0)

LEMMA YIELDIs ==
  ASSUME NEW s, Good(s), s = vm, NEW t, t = vm', YIELD, NEW n \in Nat, n + 1 = Depth(s)
  PROVE  \E saved \in GenRec :
           /\ Yields(s, t, n, saved) /\ GenOK(saved) /\ saved.state = "suspended"
           /\ saved.vars = ci(s).vars
<1>0. Core(s) /\ s \in States /\ Depth(s) > 0 /\ ci(s).kind = "generator"
  BY DEF Good, Core, YIELD, Script
<1>1. /\ ci(s) = s.frames[n + 1] /\ ci(s) \in FrameRec
      /\ s.frames \in Seq(FrameRec) /\ Depth(s) = Len(s.frames)
      /\ Len(s.execs) > 0 /\ ci(s).etraps \in Nat /\ ci(s).etraps <= Len(s.etraps)
      /\ s.execs \in Seq(Int) /\ Len(s.execs) \in Nat /\ s.etraps \in Seq(Trap)
      /\ s.gens \in [Gens -> GenRec] /\ Len(s.etraps) \in Nat
  BY <1>0, TopIs, TopOwnIs, StateIs DEF Depth
<1>2. ci(s).base \in Nat /\ ci(s).root \in BOOLEAN /\ ci(s).gen \in Gens
  <2>1. FrameOK(ci(s))
    BY <1>0, TopOwnIs
  <2>2. QED
    BY <1>0, <1>1, <2>1, FrameIs DEF FrameOK
<1> PICK base \in Nat, x \in Nat, g \in Gens, root \in BOOLEAN :
      base = ci(s).base /\ x = ci(s).etraps /\ g = ci(s).gen /\ root = ci(s).root
  BY <1>1, <1>2
<1> DEFINE c == CloseOuters(s, base)
           saved == [state |-> "suspended", vars |-> ci(s).vars, scopes |-> ci(s).scopes,
                     traps |-> SavedTraps(c, x), root |-> root]
           r == [s.gens EXCEPT ![g] = saved]
           y == Without(s.etraps, x)
           d == [c EXCEPT !.gens = r]
           b == [d EXCEPT !.etraps = y]
           a == AddTraps(b, -x)
           l == LeaveFrames(a, n)
           u == LeaveExecute(l, root)
<1> PICK op, st : op = Lower(s.open, base) /\ st = Lower(s.stray, base)
  OBVIOUS
<1>3. Parts(c, s.frames, s.execs, s.etraps, op, st, s.gens)
  <2>1. base \in Int
    OBVIOUS
  <2> HIDE DEF saved, r, y, d, b, a, l, u
  <2>2. QED
    <3>1. Parts(c, s.frames, s.execs, s.etraps, Lower(s.open, base), Lower(s.stray, base),
                s.gens)
      BY ONLY <1>0, <2>1, CloseOutersIs DEF c
    <3> HIDE DEF c
    <3>2. QED
      BY ONLY <3>1, op = Lower(s.open, base), st = Lower(s.stray, base)
<1>4. t = u
  <2> DEFINE z == [c EXCEPT !.gens[ci(s).gen] = [state |-> "suspended", vars |-> ci(s).vars,
                          scopes |-> ci(s).scopes, traps |-> SavedTraps(c, x),
                          root |-> ci(s).root],
                        !.etraps = Without(@, x)]
  <2>1. t = LeaveExecute(LeaveFrames(AddTraps(z, -x), Depth(s) - 1), ci(s).root)
    BY DEF YIELD
  <2>2. z = b
    <3>1. c \in States /\ c.gens = s.gens /\ c.etraps = s.etraps
      BY <1>3 DEF Parts
    <3> HIDE DEF c
    <3>2. QED
      BY <3>1 DEF States
  <2>3. Depth(s) - 1 = n
    OBVIOUS
  <2> HIDE DEF z
  <2>4. QED
    BY <2>1, <2>2, <2>3
<1>5. c \in States /\ c.gens = s.gens /\ c.etraps = s.etraps /\ c.frames = s.frames
      /\ c.execs = s.execs
  BY <1>3 DEF Parts
<1>6. /\ saved \in GenRec /\ GenOK(saved) /\ saved.state = "suspended"
      /\ saved.vars = ci(s).vars
  <2>1. saved = [state |-> "suspended", vars |-> ci(s).vars,
                 scopes |-> ci(s).scopes,
                 traps |-> SavedTraps(c, ci(s).etraps), root |-> ci(s).root]
    OBVIOUS
  <2> HIDE DEF saved, c
  <2>2. QED
    BY ONLY <1>0, <1>5, <2>1, SavedIs
<1> HIDE DEF c, saved
<1>7. r \in [Gens -> GenRec] /\ y \in Seq(Trap)
  <2>1. x \in 0 .. Len(s.etraps)
    BY <1>1
  <2>2. QED
    BY <1>1, <1>6, <2>1, WithoutIs
<1> HIDE DEF r, y
<1>8. Parts(d, s.frames, s.execs, s.etraps, op, st, r)
  <2>1. Parts(d, c.frames, c.execs, c.etraps, c.open, c.stray, r)
    BY <1>5, <1>7, SetGens
  <2>2. QED
    BY <1>3, <2>1 DEF Parts
<1> HIDE DEF d
<1>9. Parts(b, s.frames, s.execs, y, op, st, r)
  <2>1. d \in States
    BY <1>8 DEF Parts
  <2>2. Parts(b, d.frames, d.execs, y, d.open, d.stray, d.gens)
    BY <1>7, <2>1, SetEtraps
  <2>3. QED
    BY <1>8, <2>2 DEF Parts
<1> HIDE DEF b
<1>10. PICK q1 \in Seq(Int) :
         /\ Parts(a, s.frames, q1, y, op, st, r)
         /\ Len(q1) = Len(s.execs)
         /\ \A e \in 1 .. Len(q1) :
              q1[e] = s.execs[e] + (IF e = Len(s.execs) THEN -x ELSE 0)
  <2>1. b \in States /\ Len(b.execs) > 0 /\ -x \in Int
    BY <1>1, <1>9 DEF Parts
  <2>2. PICK q1 \in Seq(Int) :
         /\ Parts(a, b.frames, q1, b.etraps, b.open, b.stray, b.gens)
         /\ Len(q1) = Len(b.execs)
         /\ \A e \in 1 .. Len(q1) :
              q1[e] = b.execs[e] + (IF e = Len(b.execs) THEN -x ELSE 0)
    BY <2>1, AddTrapsIs
  <2>3. QED
    BY <1>9, <2>2 DEF Parts
<1> HIDE DEF a
<1>11. Parts(l, SubSeq(s.frames, 1, n), q1, y, op, st, r)
  <2>1. /\ a \in States /\ Depth(a) = Depth(s) /\ a.frames = s.frames /\ a.execs = q1
        /\ a.etraps = y /\ a.open = op /\ a.stray = st /\ a.gens = r
    BY <1>10 DEF Parts, Depth
  <2>2. n \in 0 .. Depth(a) - 1
    <3>1. n \in 0 .. (n + 1) - 1
      OBVIOUS
    <3>2. QED
      BY <2>1, <3>1
  <2>3. Parts(l, SubSeq(a.frames, 1, n), a.execs, a.etraps,
              Lower(a.open, a.frames[n + 1].base), Lower(a.stray, a.frames[n + 1].base), a.gens)
    BY <2>1, <2>2, LeaveFramesIs
  <2>4. a.frames[n + 1].base = base
    BY <1>1, <2>1
  <2>5. Lower(op, base) = op /\ Lower(st, base) = st
    BY DEF Lower
  <2>6. QED
    BY ONLY <2>1, <2>3, <2>4, <2>5
<1> HIDE DEF l
<1>12. PICK q \in Seq(Int) :
           /\ Parts(u, SubSeq(s.frames, 1, n), q, y, op, st, r)
           /\ Len(q) = Len(s.execs) - (IF root THEN 1 ELSE 0)
           /\ \A e \in 1 .. Len(q) : q[e] = q1[e]
  <2>1. l \in States /\ l.execs = q1 /\ Len(l.execs) > 0
    BY <1>1, <1>10, <1>11 DEF Parts
  <2>2. PICK q \in Seq(Int) :
           /\ Parts(u, l.frames, q, l.etraps, l.open, l.stray, l.gens)
           /\ Len(q) = Len(l.execs) - (IF root THEN 1 ELSE 0)
           /\ \A e \in 1 .. Len(q) : q[e] = l.execs[e]
    BY <2>1, LeaveExecuteIs
  <2>3. QED
    BY ONLY <1>10, <1>11, <2>1, <2>2 DEF Parts
<1> HIDE DEF u
<1>13. Parts(t, SubSeq(s.frames, 1, n), q, y, op, st, r)
  BY <1>4, <1>12
<1>14. \A e \in 1 .. Len(q) :
         q[e] = s.execs[e] + (IF e = Len(s.execs) THEN -x ELSE 0)
  <2>1. \A e \in 1 .. Len(q) : e \in 1 .. Len(q1)
    <3> PICK i \in Nat : i = Len(s.execs)
      BY <1>1
    <3>1. Len(q) \in Nat /\ (Len(q) = i \/ Len(q) = i - 1)
      <4>1. CASE root
        BY <1>12, <4>1
      <4>2. CASE ~ root
        <5>1. Len(q) = i - 0
          BY <1>12, <4>2
        <5>2. QED
          BY ONLY <5>1, i \in Nat
      <4>3. QED
        BY <4>1, <4>2
    <3>2. QED
      BY <1>10, <3>1
  <2>2. QED
    BY <1>10, <1>12, <2>1
<1>15. Yields(s, t, n, saved)
  <2>1. Parts(t, SubSeq(s.frames, 1, n), q, Without(s.etraps, ci(s).etraps),
             Lower(s.open, ci(s).base), Lower(s.stray, ci(s).base),
             [s.gens EXCEPT ![ci(s).gen] = saved])
    BY <1>13 DEF r, y
  <2>2. Len(q) = Len(s.execs) - (IF ci(s).root THEN 1 ELSE 0)
    BY <1>12
  <2>3. \A e \in 1 .. Len(q) :
          q[e] = s.execs[e] + (IF e = Len(s.execs) THEN - ci(s).etraps ELSE 0)
    BY <1>14
  <2>4. QED
    BY ONLY <2>1, <2>2, <2>3, q \in Seq(Int) DEF Yields
<1>16. QED
  BY <1>6, <1>15

\* The variables that are detached are the locals of the generator.
LEMMA YIELDGood ==
  ASSUME NEW s, Good(s), s = vm, NEW t, t = vm', YIELD
  PROVE  /\ Good(t)
         /\ \A o \in s.open \ t.open : o.var \in InScope(t) => Holds(ci(s).vars, o.var)
<1>0. Core(s) /\ s \in States /\ Depth(s) > 0 /\ ci(s).kind = "generator"
  BY DEF Good, Core, YIELD, Script
<1> PICK n \in Nat : n = Depth(s) - 1
  <2>1. Depth(s) \in Nat /\ Depth(s) > 0
    BY <1>0, TopIs
  <2>2. QED
    BY ONLY <2>1
<1>1. /\ n + 1 = Depth(s) /\ n \in 0 .. Depth(s) - 1
      /\ ci(s) = s.frames[n + 1] /\ s.execs \in Seq(Int) /\ ci(s).etraps \in Nat
      /\ s.gens \in [Gens -> GenRec] /\ Len(s.execs) \in Nat
  BY <1>0, TopIs, TopOwnIs, StateIs
<1>2. PICK saved \in GenRec :
        /\ Yields(s, t, n, saved) /\ GenOK(saved) /\ saved.state = "suspended"
        /\ saved.vars = ci(s).vars
  BY <1>1, YIELDIs
<1>3. PICK q \in Seq(Int) :
        /\ Parts(t, SubSeq(s.frames, 1, n), q, Without(s.etraps, ci(s).etraps),
                 Lower(s.open, ci(s).base), Lower(s.stray, ci(s).base),
                 [s.gens EXCEPT ![ci(s).gen] = saved])
        /\ Len(q) = Len(s.execs) - (IF ci(s).root THEN 1 ELSE 0)
        /\ \A e \in 1 .. Len(q) :
             q[e] = s.execs[e] + (IF e = Len(s.execs) THEN - ci(s).etraps ELSE 0)
  BY <1>2 DEF Yields
<1>4. Cut(s, t, n)
  <2>1. \A k \in n + 2 .. Depth(s) : s.frames[k].etraps = 0 /\ ~ s.frames[k].root
    BY <1>1
  <2>2. /\ t \in States /\ t.frames = SubSeq(s.frames, 1, n) /\ t.execs = q
        /\ t.etraps = Without(s.etraps, s.frames[n + 1].etraps)
        /\ t.open = Lower(s.open, s.frames[n + 1].base)
        /\ t.stray = Lower(s.stray, s.frames[n + 1].base)
    BY <1>1, <1>3 DEF Parts
  <2>3. Len(t.execs) = Len(s.execs) - (IF s.frames[n + 1].root THEN 1 ELSE 0)
    BY <1>1, <1>3, <2>2
  <2>4. \A e \in 1 .. Len(t.execs) :
          t.execs[e] = s.execs[e] - (IF e = Len(s.execs) THEN s.frames[n + 1].etraps ELSE 0)
    <3> PICK i \in Nat : i = Len(s.execs)
      BY <1>1
    <3>1. \A e \in 1 .. i : s.execs[e] \in Int
      BY <1>1
    <3>2. \A e \in 1 .. Len(q) : e \in 1 .. i
      <4>1. Len(q) \in Nat
        OBVIOUS
      <4>2. Len(q) = i \/ Len(q) = i - 1
        <5>1. CASE ci(s).root
          BY <1>3, <5>1
        <5>2. CASE ~ ci(s).root
          <6>1. Len(q) = i - 0
            BY <1>3, <5>2
          <6>2. QED
            BY ONLY <6>1, i \in Nat
        <5>3. QED
          BY <5>1, <5>2
      <4>3. QED
        BY <4>1, <4>2
    <3> PICK x \in Nat : x = ci(s).etraps
      BY <1>1
    <3>3. \A e \in 1 .. Len(q) : q[e] = s.execs[e] + (IF e = i THEN -x ELSE 0)
      BY <1>3
    <3>4. \A e \in 1 .. Len(q) : s.execs[e] + (IF e = i THEN -x ELSE 0)
            = s.execs[e] - (IF e = i THEN x ELSE 0)
      BY <3>1, <3>2
    <3>5. x = s.frames[n + 1].etraps
      BY <1>1
    <3>6. QED
      BY <2>2, <3>3, <3>4, <3>5
  <2>5. QED
    BY <1>1, <2>1, <2>2, <2>3, <2>4 DEF Cut
<1>5. CutGens(s, t, n)
  <2>1. t.gens = [s.gens EXCEPT ![ci(s).gen] = saved]
    BY <1>3 DEF Parts
  <2>2. ASSUME NEW g \in Gens PROVE GenOK(s.gens[g])
    BY <1>0 DEF Core, Shapes
  <2>3. \A g \in Gens : (\E k \in n + 1 .. Depth(s) : s.frames[k].gen = g) <=> ci(s).gen = g
    <3>1. \A k : k \in n + 1 .. Depth(s) <=> k = n + 1
      BY <1>1
    <3>2. QED
      BY <1>1, <3>1
  <2>4. ASSUME NEW g \in Gens
        PROVE  t.gens[g] = (IF ci(s).gen = g THEN saved ELSE s.gens[g])
    BY <1>1, <2>1
  <2>5. QED
    BY <1>0, <1>1, <1>2, <2>2, <2>3, <2>4 DEF CutGens
<1>6. ASSUME NEW o \in s.open \ t.open, o.var \in InScope(t)
      PROVE  Holds(ci(s).vars, o.var)
  <2>1. Outers(s)
    BY DEF Good
  <2>2. PICK x \in Nat : x \in 1 .. Len(s.frames[n + 1].vars) /\ s.frames[n + 1].vars[x] = o.var
    <3>1. o \in s.open /\ o \notin t.open /\ o.var \in InScope(t)
      BY <1>6
    <3>2. QED
      BY ONLY <1>0, <1>4, <1>5, <2>1, <3>1, CutShared
  <2>3. ci(s).vars \in Seq(Vars)
    BY <1>0, TopVars
  <2>4. x \in DOMAIN ci(s).vars /\ ci(s).vars[x] = o.var
    BY <1>1, <2>2, <2>3
  <2>5. QED
    BY <2>4 DEF Holds
<1>7. QED
  BY <1>4, <1>5, <1>6, CutGood

----------------------------------------------------------------------------
(* Exceptions *)

\* The frame after a catch: keep scopes stay open, in the block of the catch
\* are the locals that the try block began with, and the exception.
Caught(w, e, trap, keep, z, a) ==
  /\ trap \in Trap /\ trap.base = ci(w).base /\ keep \in Nat /\ keep = trap.scope - 1
  /\ keep + 1 \in 1 .. Len(ci(w).scopes)
  /\ ci(w).scopes[keep + 1].kind = "try" /\ ci(w).scopes[keep + 1].size = trap.size
  /\ trap.size \in 0 .. Len(ci(w).vars)
  /\ z = Append(SubSeq(ci(w).scopes, 1, keep), Scope("block", trap.size, trap.size))
  /\ z \in Seq(ScopeRec) /\ Len(z) = keep + 1
  /\ \A j \in 1 .. keep : z[j] = ci(w).scopes[j]
  /\ z[keep + 1] = Scope("block", trap.size, trap.size)
  /\ a = Append(SubSeq(ci(w).vars, 1, trap.size), e)
  /\ a \in Seq(Vars) /\ Len(a) = trap.size + 1
  /\ \A x \in 1 .. trap.size : a[x] = ci(w).vars[x]
  /\ a[trap.size + 1] = e
  /\ Blocks(a, z) /\ Within(w, a, ci(w).vars)
  /\ TrapsFit(SubSeq(OwnTraps(w, Depth(w)), 1, ci(w).etraps - 1), z, ci(w).base)

LEMMA CaughtIs ==
  ASSUME NEW w, Core(w), Depth(w) > 0, ci(w).etraps > 0, NEW e \in Fresh(w),
         NEW trap, trap = w.etraps[Len(w.etraps)]
  PROVE  \E keep, z, a : Caught(w, e, trap, keep, z, a)
<1> DEFINE own == OwnTraps(w, Depth(w))
           sc == ci(w).scopes
           va == ci(w).vars
<1>0. w \in States
  BY DEF Core
<1>1. /\ va \in Seq(Vars) /\ Once(va) /\ sc \in Seq(ScopeRec) /\ Blocks(va, sc)
      /\ \A v \in Fresh(w) : \A x \in 1 .. Len(va) : va[x] # v
  BY TopVars
<1>2. /\ own \in Seq(Trap) /\ Len(own) = ci(w).etraps
      /\ LowerTraps(w) \in Nat /\ ci(w).etraps \in Nat
      /\ LowerTraps(w) + ci(w).etraps = Len(w.etraps)
      /\ \A j \in 1 .. ci(w).etraps : own[j] = w.etraps[LowerTraps(w) + j]
      /\ TrapsFit(own, sc, ci(w).base)
  BY TopOwnIs
<1> HIDE DEF own, sc, va
<1> PICK n \in Nat \ {0} : n = Len(own)
  BY <1>2
<1>3. trap = own[n] /\ n \in 1 .. Len(own) /\ trap \in Trap /\ DOMAIN own = 1 .. Len(own)
  <2>1. n \in 1 .. ci(w).etraps /\ LowerTraps(w) + n = Len(w.etraps)
    BY <1>2
  <2>2. trap = own[n]
    BY <1>2, <2>1
  <2>3. QED
    BY <1>2, <2>2
<1>4. /\ trap.base = ci(w).base /\ trap.scope \in Tries(sc) /\ trap.size = sc[trap.scope].size
      /\ \A j \in 1 .. n - 1 : own[j].scope < trap.scope
  <2>1. n \in DOMAIN own /\ \A j \in 1 .. n - 1 : j \in 1 .. Len(own) /\ j < n
    BY <1>3
  <2>2. QED
    BY <1>2, <1>3, <2>1 DEF TrapsFit, TrapsOf
<1>5. trap.scope \in Nat \ {0} /\ trap.scope \in 1 .. Len(sc) /\ sc[trap.scope].kind = "try"
  <2>1. DOMAIN sc = 1 .. Len(sc)
    BY <1>1
  <2>2. QED
    BY <1>3, <1>4, <2>1 DEF Tries, Trap
<1> PICK keep \in Nat : keep = trap.scope - 1
  BY <1>5
<1>6. keep + 1 = trap.scope /\ keep + 1 \in 1 .. Len(sc) /\ Len(sc) \in Nat
  <2>1. Len(sc) \in Nat
    BY <1>1
  <2>2. keep + 1 = trap.scope
    BY ONLY <1>5, keep = trap.scope - 1
  <2>3. QED
    BY ONLY <1>5, <2>1, <2>2
<1> DEFINE z0 == SubSeq(sc, 1, keep)
           a0 == SubSeq(va, 1, trap.size)
           z == Append(z0, Scope("block", trap.size, trap.size))
           a == Append(a0, e)
<1>7. /\ z0 \in Seq(ScopeRec) /\ Len(z0) = keep /\ \A j \in 1 .. keep : z0[j] = sc[j]
      /\ trap.size \in 0 .. Len(va) /\ Blocks(a0, z0)
  <2>1. /\ sc[keep + 1].size \in Nat /\ sc[keep + 1].body \in Nat
        /\ sc[keep + 1].size <= sc[keep + 1].body /\ sc[keep + 1].body <= Len(va)
        /\ \A j \in 1 .. keep : sc[j].body <= sc[keep + 1].size
    <3>1. sc[keep + 1] \in ScopeRec
      BY <1>1, <1>6
    <3>2. \A j \in 1 .. keep : j \in 1 .. Len(sc) /\ j < keep + 1
      BY <1>6
    <3>3. QED
      BY <1>1, <1>6, <3>1, <3>2 DEF Blocks, ScopeRec
  <2> PICK l \in Nat : l = Len(va)
    BY <1>1
  <2>2. trap.size = sc[keep + 1].size
    BY <1>4, <1>6
  <2>3. trap.size \in 0 .. l
    BY ONLY <2>1, <2>2, l = Len(va), l \in Nat
  <2>4. keep \in 0 .. Len(sc) /\ Inside(sc, keep, trap.size)
    BY <1>6, <2>1, <2>2 DEF Inside
  <2>5. First(z0, sc, keep) /\ First(a0, va, trap.size)
    BY DEF First
  <2> PICK x, y : x = z0 /\ y = a0
    OBVIOUS
  <2>6. trap.size \in 0 .. Len(va) /\ First(x, sc, keep) /\ First(y, va, trap.size)
    BY <2>3, <2>5
  <2>7. /\ x \in Seq(ScopeRec) /\ Len(x) = keep /\ \A j \in 1 .. keep : x[j] = sc[j]
        /\ Blocks(y, x)
    BY ONLY <1>1, <2>4, <2>6, BlocksPart
  <2>8. x = z0 /\ y = a0
    OBVIOUS
  <2>9. QED
    BY <2>6, <2>7, <2>8
<1>8. a0 \in Seq(Vars) /\ Len(a0) = trap.size /\ \A x \in 1 .. trap.size : a0[x] = va[x]
  BY <1>1, <1>7
<1>9. Within(w, a0, va) /\ \A x \in 1 .. Len(a0) : a0[x] # e
  <2>1. Within(w, a0, va)
    BY <1>1, <1>7, WithinPart
  <2>2. \A x \in 1 .. trap.size : x \in 1 .. Len(va)
    BY <1>7
  <2>3. QED
    BY <1>1, <1>8, <2>1, <2>2
<1> HIDE DEF z0, a0
<1>10. /\ z \in Seq(ScopeRec) /\ Len(z) = Len(z0) + 1
       /\ \A j \in 1 .. Len(z0) : z[j] = z0[j]
       /\ z[Len(z0) + 1] = Scope("block", trap.size, trap.size)
       /\ Blocks(a0, z) /\ Tries(z) = Tries(z0)
  <2>1. Len(a0) \in Nat /\ Len(a0) <= Len(a0)
    BY <1>8
  <2>2. \A j \in 1 .. Len(z0) : z0[j].body <= Len(a0)
    BY <1>7 DEF Blocks
  <2> PICK y, n0 : y = Append(z0, Scope("block", n0, n0)) /\ n0 = Len(a0)
    OBVIOUS
  <2>3. /\ y \in Seq(ScopeRec) /\ Len(y) = Len(z0) + 1
        /\ \A j \in 1 .. Len(z0) : y[j] = z0[j]
        /\ y[Len(z0) + 1] = Scope("block", n0, n0)
        /\ Blocks(a0, y) /\ Tries(y) = Tries(z0)
    <3>1. y = Append(z0, Scope("block", n0, Len(a0))) /\ n0 = Len(a0)
      OBVIOUS
    <3>2. a0 \in Seq(Vars) /\ z0 \in Seq(ScopeRec) /\ Blocks(a0, z0)
      BY <1>7, <1>8
    <3>3. QED
      BY ONLY <2>1, <2>2, <3>1, <3>2, AppendScope
  <2>4. z = y /\ n0 = trap.size
    BY <1>8
  <2>5. QED
    BY ONLY <2>3, <2>4
<1> HIDE DEF z
<1>11. e \in Vars
  BY <1>0, FreshIs
<1>12. /\ a \in Seq(Vars) /\ Len(a) = trap.size + 1 /\ a[trap.size + 1] = e
       /\ \A x \in 1 .. trap.size : a[x] = a0[x]
       /\ Blocks(a, z)
  <2>1. Len(a0) < FrameSize
    BY <1>1, <1>4, <1>5, <1>8 DEF Blocks
  <2>2. /\ a \in Seq(Vars) /\ Len(a) = Len(a0) + 1 /\ a[Len(a0) + 1] = e
        /\ \A x \in 1 .. Len(a0) : a[x] = a0[x]
        /\ Blocks(a, z)
    BY ONLY <1>8, <1>10, <1>11, <2>1, BlocksLocal DEF a
  <2>3. QED
    BY <1>8, <2>2
<1>13. Within(w, a, va)
  BY <1>0, <1>1, <1>8, <1>9, WithinAppend
<1> HIDE DEF a
<1>14. TrapsFit(SubSeq(own, 1, n - 1), z, ci(w).base)
  <2>1. Tries(z) = {k \in Tries(sc) : k <= keep}
    <3>1. DOMAIN z0 = 1 .. keep /\ DOMAIN sc = 1 .. Len(sc)
      BY <1>1, <1>7
    <3>2. ASSUME NEW k PROVE k \in Tries(z0) <=> k \in Tries(sc) /\ k <= keep
      BY <1>6, <1>7, <3>1 DEF Tries
    <3>3. QED
      BY <1>10, <3>2
  <2>2. \A k \in 1 .. keep : z[k].size = sc[k].size
    BY <1>7, <1>10
  <2>3. n - 1 \in 0 .. Len(own) /\ keep \in 0 .. Len(sc)
    BY <1>6
  <2>4. \A j \in 1 .. n - 1 : own[j].scope <= keep
    <3>1. ASSUME NEW j \in 1 .. n - 1 PROVE own[j].scope <= keep
      <4>1. j \in 1 .. Len(own) /\ own[j] \in Trap
        BY <1>2
      <4>2. own[j].scope \in Nat
        BY <4>1 DEF Trap
      <4>3. own[j].scope < keep + 1
        BY <1>4, <1>6
      <4>4. QED
        BY <4>2, <4>3
    <3>2. QED
      BY <3>1
  <2>5. \A j \in n - 1 + 1 .. Len(own) : own[j].scope > keep
    <3>1. \A j \in n - 1 + 1 .. Len(own) : j = n
      BY ONLY n = Len(own), n \in Nat \ {0}
    <3>2. keep + 1 > keep
      BY ONLY keep \in Nat
    <3>3. own[n].scope = keep + 1
      BY <1>3, <1>6
    <3>4. QED
      BY ONLY <3>1, <3>2, <3>3
  <2>6. QED
    BY <1>1, <1>2, <2>1, <2>2, <2>3, <2>4, <2>5, FitsPart
<1>15. Caught(w, e, trap, keep, z, a)
  <2>1. \A j \in 1 .. keep : z[j] = sc[j]
    BY <1>7, <1>10
  <2>2. n = ci(w).etraps
    BY <1>2
  <2>3. \A x \in 1 .. trap.size : a[x] = va[x]
    BY <1>8, <1>12
  <2>4. Len(z) = keep + 1 /\ z[keep + 1] = Scope("block", trap.size, trap.size)
    BY <1>7, <1>10
  <2>5. sc[keep + 1].kind = "try" /\ sc[keep + 1].size = trap.size
    BY <1>4, <1>5, <1>6
  <2>6. z = Append(SubSeq(sc, 1, keep), Scope("block", trap.size, trap.size))
        /\ a = Append(SubSeq(va, 1, trap.size), e)
    BY DEF z, a, z0, a0
  <2>7. QED
    BY ONLY <1>3, <1>4, <1>6, <1>7, <1>10, <1>12, <1>13, <1>14, <2>1, <2>2, <2>3, <2>4, <2>5, <2>6,
      keep \in Nat, keep = trap.scope - 1
    DEF Caught, own, sc, va
<1>16. QED
  BY <1>15

\* The frame f after a catch in state w, and the state t: the outers of the
\* locals above those that the try block began with are left open.
CatchTo(w, t, trap, f, q, z, a) ==
  /\ f \in FrameRec /\ f.scopes = z /\ f.vars = a /\ f.base = ci(w).base
  /\ f.gen = ci(w).gen /\ f.root = ci(w).root /\ f.kind = ci(w).kind
  /\ f.etraps = ci(w).etraps - 1
  /\ Parts(t, [w.frames EXCEPT ![Depth(w)] = f], q, Without(w.etraps, 1), w.open,
           w.stray \union {o \in w.open : o.pos \in ci(w).base + trap.size ..
                                                   (ci(w).base + Len(ci(w).vars)) - 1},
           w.gens)
  /\ Len(q) = Len(w.execs)
  /\ \A x \in 1 .. Len(q) : q[x] = w.execs[x] + (IF x = Len(w.execs) THEN -1 ELSE 0)

LEMMA CatchIs ==
  ASSUME NEW w, Core(w), Depth(w) > 0, ci(w).etraps > 0, NEW e \in Fresh(w),
         NEW t, t = Catch(w, e), NEW trap, trap = w.etraps[Len(w.etraps)],
         NEW keep, NEW z, NEW a, Caught(w, e, trap, keep, z, a)
  PROVE  \E f \in FrameRec, q \in Seq(Int) : CatchTo(w, t, trap, f, q, z, a)
<1>0. /\ w \in States /\ ci(w) \in FrameRec /\ w.execs \in Seq(Int)
  BY TopIs, StateIs DEF Core
<1>1. ci(w).etraps \in Nat /\ ci(w).etraps <= Len(w.etraps) /\ Len(w.execs) > 0
  BY TopOwnIs
<1> PICK from, to : from = ci(w).base + trap.size /\ to = ci(w).base + Len(ci(w).vars)
  OBVIOUS
<1> PICK st : st = w.stray \union {o \in w.open : o.pos \in from .. to - 1}
  OBVIOUS
<1> PICK u : u = LeaveOpen(w, from, to)
  OBVIOUS
<1>2. Parts(u, w.frames, w.execs, w.etraps, w.open, st, w.gens)
  <2>1. Parts(LeaveOpen(w, from, to), w.frames, w.execs, w.etraps, w.open,
              w.stray \union {o \in w.open : o.pos \in from .. to - 1}, w.gens)
    BY ONLY <1>0, LeaveOpenIs
  <2>2. QED
    BY ONLY <2>1, u = LeaveOpen(w, from, to),
            st = w.stray \union {o \in w.open : o.pos \in from .. to - 1}
<1>3. u \in States /\ Depth(u) = Depth(w) /\ ci(u) = ci(w)
  BY ONLY <1>2 DEF Parts, Depth, ci
<1> PICK f0 : f0 = [ci(w) EXCEPT !.base = ci(w).base, !.scopes = z, !.vars = a]
  OBVIOUS
<1> PICK d : d = SetCi(u, f0)
  OBVIOUS
<1> PICK b : b = POPTRAP(d, 1)
  OBVIOUS
<1>4. t = b
  <2> PICK z1 : z1 = Append(SubSeq(ci(w).scopes, 1, trap.scope - 1),
                            Scope("block", trap.size, trap.size))
    BY Zenon
  <2> PICK a1 : a1 = Append(SubSeq(ci(w).vars, 1, trap.size), e)
    BY Zenon
  <2> PICK f1 : f1 = [ci(w) EXCEPT !.base = trap.base,
                        !.scopes = Append(SubSeq(@, 1, trap.scope - 1),
                                          Scope("block", trap.size, trap.size)),
                        !.vars = Append(SubSeq(@, 1, trap.size), e)]
    BY Zenon
  <2>1. t = POPTRAP(SetCi(LeaveOpen(w, trap.base + trap.size, trap.base + Len(ci(w).vars)), f1), 1)
    BY ONLY trap = w.etraps[Len(w.etraps)], t = Catch(w, e),
            f1 = [ci(w) EXCEPT !.base = trap.base,
                    !.scopes = Append(SubSeq(@, 1, trap.scope - 1),
                                      Scope("block", trap.size, trap.size)),
                    !.vars = Append(SubSeq(@, 1, trap.size), e)], Zenon DEF Catch
  <2>2. z = z1 /\ a = a1 /\ trap.base = ci(w).base
    <3>1. /\ z = Append(SubSeq(ci(w).scopes, 1, trap.scope - 1),
                        Scope("block", trap.size, trap.size))
          /\ a = Append(SubSeq(ci(w).vars, 1, trap.size), e) /\ trap.base = ci(w).base
      BY ONLY Caught(w, e, trap, keep, z, a) DEF Caught
    <3>2. QED
      BY <3>1, Zenon
  <2>3. f1 = [ci(w) EXCEPT !.base = trap.base, !.scopes = z1, !.vars = a1]
    <3>1. f1 = [ci(w) EXCEPT !.base = trap.base,
                  !.scopes = Append(SubSeq(ci(w).scopes, 1, trap.scope - 1),
                                    Scope("block", trap.size, trap.size)),
                  !.vars = Append(SubSeq(ci(w).vars, 1, trap.size), e)]
      BY ONLY <1>0, f1 = [ci(w) EXCEPT !.base = trap.base,
                        !.scopes = Append(SubSeq(@, 1, trap.scope - 1),
                                          Scope("block", trap.size, trap.size)),
                        !.vars = Append(SubSeq(@, 1, trap.size), e)] DEF FrameRec
    <3>2. QED
      BY ONLY <3>1, z1 = Append(SubSeq(ci(w).scopes, 1, trap.scope - 1),
                                Scope("block", trap.size, trap.size)),
              a1 = Append(SubSeq(ci(w).vars, 1, trap.size), e), Zenon
  <2>4. f1 = f0
    BY ONLY <2>2, <2>3, Zenon,
            f0 = [ci(w) EXCEPT !.base = ci(w).base, !.scopes = z, !.vars = a]
  <2>5. LeaveOpen(w, trap.base + trap.size, trap.base + Len(ci(w).vars)) = u
    BY ONLY <2>2, from = ci(w).base + trap.size, to = ci(w).base + Len(ci(w).vars),
            u = LeaveOpen(w, from, to), Zenon
  <2>6. b = POPTRAP(SetCi(u, f0), 1)
    BY ONLY b = POPTRAP(d, 1), d = SetCi(u, f0)
  <2>7. QED
    BY ONLY <2>1, <2>4, <2>5, <2>6
<1>5. z \in Seq(ScopeRec) /\ a \in Seq(Vars)
  BY ONLY Caught(w, e, trap, keep, z, a) DEF Caught
<1>6. /\ f0 \in FrameRec /\ f0.scopes = z /\ f0.vars = a /\ f0.base = ci(w).base
      /\ f0.gen = ci(w).gen /\ f0.root = ci(w).root /\ f0.kind = ci(w).kind
      /\ f0.etraps = ci(w).etraps
  BY ONLY <1>0, <1>5, f0 = [ci(w) EXCEPT !.base = ci(w).base, !.scopes = z, !.vars = a]
     DEF FrameRec
<1>7. /\ Parts(d, [u.frames EXCEPT ![Depth(u)] = f0], u.execs, u.etraps,
               u.open, u.stray, u.gens)
      /\ Depth(d) = Depth(u) /\ ci(d) = f0
  BY <1>3, <1>6, SetCiIs
<1>8. PICK f \in FrameRec, q \in Seq(Int) :
           /\ f = [f0 EXCEPT !.etraps = f0.etraps - 1]
           /\ Parts(b, [d.frames EXCEPT ![Depth(d)] = f], q,
                    Without(d.etraps, 1), d.open, d.stray, d.gens)
           /\ Len(q) = Len(d.execs)
           /\ \A x \in 1 .. Len(q) :
                q[x] = d.execs[x] + (IF x = Len(d.execs) THEN -1 ELSE 0)
  <2>1. /\ d \in States /\ Depth(d) > 0 /\ ci(d) = f0 /\ Len(d.execs) > 0
        /\ 1 \in 0 .. ci(d).etraps /\ ci(d).etraps <= Len(d.etraps)
    <3>1. d \in States /\ d.execs = w.execs /\ d.etraps = w.etraps
      BY ONLY <1>2, <1>7 DEF Parts
    <3>2. Depth(d) > 0 /\ ci(d) = f0
      BY ONLY <1>3, <1>7, Depth(w) > 0
    <3>3. f0.etraps = ci(w).etraps /\ 1 \in 0 .. ci(w).etraps
      BY ONLY <1>1, <1>6, ci(w).etraps > 0
    <3>4. QED
      BY ONLY <1>1, <3>1, <3>2, <3>3
  <2>2. \E f \in FrameRec, q \in Seq(Int) :
           /\ f = [ci(d) EXCEPT !.etraps = ci(d).etraps - 1]
           /\ Parts(POPTRAP(d, 1), [d.frames EXCEPT ![Depth(d)] = f], q,
                    Without(d.etraps, 1), d.open, d.stray, d.gens)
           /\ Depth(POPTRAP(d, 1)) = Depth(d) /\ ci(POPTRAP(d, 1)) = f
           /\ Len(q) = Len(d.execs)
           /\ \A x \in 1 .. Len(q) :
                q[x] = d.execs[x] + (IF x = Len(d.execs) THEN -1 ELSE 0)
    BY ONLY <2>1, POPTRAPIs
  <2>3. QED
    BY ONLY <2>1, <2>2, b = POPTRAP(d, 1)
<1>9. /\ f.scopes = z /\ f.vars = a /\ f.base = ci(w).base
      /\ f.gen = ci(w).gen /\ f.root = ci(w).root /\ f.kind = ci(w).kind
      /\ f.etraps = ci(w).etraps - 1
  BY ONLY <1>6, <1>8 DEF FrameRec
<1>10. /\ d.frames = [w.frames EXCEPT ![Depth(w)] = f0] /\ d.etraps = w.etraps
       /\ d.open = w.open /\ d.stray = st /\ d.gens = w.gens /\ Depth(d) = Depth(w)
       /\ d.execs = w.execs
  BY ONLY <1>2, <1>3, <1>7 DEF Parts
<1>11. Parts(t, [w.frames EXCEPT ![Depth(w)] = f], q, Without(w.etraps, 1), w.open, st, w.gens)
  <2>1. [[w.frames EXCEPT ![Depth(w)] = f0] EXCEPT ![Depth(w)] = f] =
          [w.frames EXCEPT ![Depth(w)] = f]
    OBVIOUS
  <2>2. QED
    BY ONLY <1>4, <1>8, <1>10, <2>1
<1>12. CatchTo(w, t, trap, f, q, z, a)
  <2>1. st = w.stray \union {o \in w.open : o.pos \in ci(w).base + trap.size ..
                                                      (ci(w).base + Len(ci(w).vars)) - 1}
    BY ONLY from = ci(w).base + trap.size, to = ci(w).base + Len(ci(w).vars),
            st = w.stray \union {o \in w.open : o.pos \in from .. to - 1}
  <2>2. /\ Len(q) = Len(w.execs)
        /\ \A x \in 1 .. Len(q) : q[x] = w.execs[x] + (IF x = Len(w.execs) THEN -1 ELSE 0)
    BY ONLY <1>8, <1>10
  <2>3. QED
    BY ONLY <1>9, <1>11, <2>1, <2>2, f \in FrameRec DEF CatchTo
<1>13. QED
  BY <1>12

\* Nothing but e comes into scope.
Adds(s, t, e) == \A v \in InScope(t) : v \in InScope(s) \/ v = e

LEMMA CatchGood ==
  ASSUME NEW w, Good(w), Depth(w) > 0, ci(w).etraps > 0, NEW e \in Fresh(w),
         NEW t, t = Catch(w, e)
  PROVE  Good(t) /\ Shares(w, t) /\ Adds(w, t, e)
<1> PICK trap : trap = w.etraps[Len(w.etraps)]
  OBVIOUS
<1>0. Core(w) /\ Outers(w) /\ w \in States /\ Slots(w)
  BY DEF Good, Core
<1>1. PICK keep, z, a : Caught(w, e, trap, keep, z, a)
  BY <1>0, CaughtIs
<1>2. PICK f \in FrameRec, q \in Seq(Int) : CatchTo(w, t, trap, f, q, z, a)
  BY <1>0, <1>1, CatchIs
<1>3. ci(w).etraps \in Nat /\ FrameOK(ci(w))
  BY <1>0, TopOwnIs
<1> PICK base, from, to : base = ci(w).base /\ from = base + trap.size
                          /\ to = base + Len(ci(w).vars)
  OBVIOUS
<1>4. /\ f.scopes = z /\ f.vars = a /\ f.base = ci(w).base
      /\ f.gen = ci(w).gen /\ f.root = ci(w).root /\ f.kind = ci(w).kind
      /\ f.etraps = ci(w).etraps - 1
      /\ t \in States /\ t.frames = [w.frames EXCEPT ![Depth(w)] = f] /\ t.gens = w.gens
      /\ t.etraps = Without(w.etraps, 1) /\ t.open = w.open /\ t.execs = q
      /\ t.stray = w.stray \union {o \in w.open : o.pos \in from .. to - 1}
      /\ Len(q) = Len(w.execs)
      /\ \A x \in 1 .. Len(q) : q[x] = w.execs[x] + (IF x = Len(w.execs) THEN -1 ELSE 0)
  <2>1. t.stray = w.stray \union {o \in w.open : o.pos \in ci(w).base + trap.size ..
                                                           (ci(w).base + Len(ci(w).vars)) - 1}
    BY ONLY <1>2 DEF CatchTo, Parts
  <2>2. t.stray = w.stray \union {o \in w.open : o.pos \in from .. to - 1}
    BY ONLY <2>1, base = ci(w).base, from = base + trap.size,
            to = base + Len(ci(w).vars)
  <2>3. QED
    BY ONLY <1>2, <2>2, base = ci(w).base DEF CatchTo, Parts
<1>5. /\ trap \in Trap /\ keep \in Nat /\ keep + 1 \in 1 .. Len(ci(w).scopes)
      /\ trap.size \in 0 .. Len(ci(w).vars)
      /\ Len(a) = trap.size + 1
      /\ \A x \in 1 .. trap.size : a[x] = ci(w).vars[x]
      /\ a[trap.size + 1] = e
      /\ Blocks(a, z) /\ Within(w, a, ci(w).vars)
      /\ TrapsFit(SubSeq(OwnTraps(w, Depth(w)), 1, ci(w).etraps - 1), z, ci(w).base)
  BY ONLY <1>1 DEF Caught
<1>6. FrameOK(f)
  <2>1. ci(w).kind # "native"
    BY <1>3 DEF FrameOK
  <2>2. QED
    BY <1>3, <1>4, <1>5, <2>1 DEF FrameOK
<1>7. Changes(w, t, f)
  BY <1>4, <1>5, <1>6 DEF Changes
<1>8. ChangesTraps(w, t, f)
  <2>1. 1 \in 0 .. ci(w).etraps
    BY <1>3
  <2>2. QED
    BY ONLY <1>0, <1>4, <1>5, <1>7, <2>1, PopTraps
<1> PICK n, m : n = trap.size /\ m = Len(ci(w).vars)
  OBVIOUS
<1>9. /\ n \in Nat /\ m \in Nat /\ n <= m /\ base \in Nat /\ from \in Nat /\ to \in Nat
      /\ from = base + n /\ to = base + m
  <2>1. ci(w).vars \in Seq(Vars) /\ base \in Nat
    BY <1>0, TopVars, FrameIs
  <2>2. n \in 0 .. m /\ m \in Nat
    BY <1>5, <2>1
  <2>3. from = base + n /\ to = base + m
    OBVIOUS
  <2>4. QED
    BY ONLY <2>1, <2>2, <2>3
<1>10. /\ Once(ci(w).vars) /\ \A o \in w.open : o.var # e /\ o.pos \in Nat
       /\ w.stray \subseteq w.open
  BY <1>0, TopVars, FreshIs, StateIs
<1>11. ASSUME NEW o \in t.open \ t.stray, NEW i \in Nat, OuterIn(ci(w), o, i)
       PROVE  OuterIn(f, o, i)
  <2>1. i \in 1 .. m /\ base + i - 1 = o.pos /\ ci(w).vars[i] = o.var
    BY <1>11 DEF OuterIn
  <2>2. o.pos \notin from .. to - 1
    BY <1>4, <1>11
  <2>3. i \in 1 .. n
    <3>1. \A p \in Nat : p \notin from .. to - 1 /\ base + i - 1 = p => i <= n
      BY ONLY <1>9, <2>1, i \in Nat
    <3>2. o.pos \in Nat
      BY <1>4, <1>10, <1>11
    <3>3. QED
      BY <2>1, <2>2, <3>1, <3>2, <1>9
  <2>4. i \in 1 .. Len(f.vars) /\ f.vars[i] = o.var
    <3>1. Len(f.vars) = n + 1
      BY <1>4, <1>5
    <3>2. i \in 1 .. n + 1
      BY ONLY <1>9, <2>3
    <3>3. a[i] = ci(w).vars[i]
      BY <1>5, <2>3
    <3>4. QED
      BY ONLY <1>4, <2>1, <3>1, <3>2, <3>3
  <2>5. QED
    BY <1>4, <2>1, <2>4 DEF OuterIn
<1>12. ASSUME NEW o \in t.stray, o \notin w.stray
       PROVE  /\ o \in w.open
              /\ \E i \in Nat : OuterIn(ci(w), o, i)
              /\ \A x \in 1 .. Len(f.vars) : f.vars[x] # o.var
  <2>1. o \in w.open /\ o.pos \in Nat /\ o.pos >= from
    BY <1>4, <1>9, <1>10, <1>12
  <2>2. PICK k \in 1 .. Depth(w), i \in Nat : OuterIn(w.frames[k], o, i) /\ k >= Depth(w)
    <3>1. Depth(w) \in Nat
      BY <1>0, DepthIs
    <3>2. Depth(w) \in 1 .. Depth(w) /\ w.frames[Depth(w)] = ci(w)
      BY ONLY <3>1, Depth(w) > 0 DEF ci
    <3>3. o.pos >= w.frames[Depth(w)].base
      <4>1. w.frames[Depth(w)].base = base
        BY <3>2
      <4>2. o.pos >= base
        BY ONLY <1>9, <2>1
      <4>3. QED
        BY ONLY <4>1, <4>2
    <3>4. QED
      BY <1>0, <1>12, <2>1, <3>2, <3>3, OuterPlace
  <2>3. OuterIn(ci(w), o, i)
    <3>1. k = Depth(w)
      BY <1>0, <2>2, DepthIs
    <3>2. QED
      BY <2>2, <3>1 DEF ci
  <2>4. i \in 1 .. m /\ base + i - 1 = o.pos /\ ci(w).vars[i] = o.var
    BY <2>3 DEF OuterIn
  <2>5. i > n
    BY ONLY <1>9, <2>1, <2>4, i \in Nat
  <2>6. ASSUME NEW x \in 1 .. Len(f.vars), f.vars[x] = o.var PROVE FALSE
    <3>1. x \in 1 .. n + 1
      BY <1>4, <1>5
    <3>2. CASE x = n + 1
      BY <1>4, <1>5, <1>10, <2>1, <2>6, <3>2
    <3>3. CASE x # n + 1
      <4>1. x \in 1 .. n /\ x \in 1 .. m
        BY ONLY <1>9, <3>1, <3>3
      <4>2. ci(w).vars[x] = ci(w).vars[i]
        BY <1>4, <1>5, <2>4, <2>6, <4>1
      <4>3. x = i
        BY <1>10, <2>4, <4>1, <4>2 DEF Once
      <4>4. QED
        BY ONLY <1>9, <2>5, <4>1, <4>3
    <3>4. QED
      BY <3>2, <3>3
  <2>7. QED
    BY <2>1, <2>3, <2>6
<1>13. ChangesOpen(w, t, f)
  <2>1. ASSUME NEW o \in t.open \ t.stray PROVE o \in w.open \ w.stray
    BY <1>4, <2>1
  <2>2. QED
    BY <1>11, <1>12, <2>1 DEF ChangesOpen
<1>14. ChangesClosed(w, t, f)
  BY <1>4 DEF ChangesClosed
<1>15. Good(t) /\ Shares(w, t)
  BY <1>7, <1>8, <1>13, <1>14, ChangesDone
<1>16. ASSUME NEW v \in InScope(t) PROVE v \in InScope(w) \/ v = e
  <2>1. /\ w.frames \in Seq(FrameRec) /\ Depth(w) = Len(w.frames) /\ Depth(w) \in 1 .. Depth(w)
        /\ ci(w) = w.frames[Depth(w)]
    BY <1>0, TopIs DEF Depth
  <2>2. Depth(t) = Depth(w) /\ t.frames[Depth(w)] = f
        /\ \A k \in 1 .. Depth(w) : k # Depth(w) => t.frames[k] = w.frames[k]
    BY <1>4, <2>1 DEF Depth
  <2>3. CASE \E k \in 1 .. Depth(t), x \in Nat :
               x \in 1 .. Len(t.frames[k].vars) /\ t.frames[k].vars[x] = v
    <3>1. PICK k \in 1 .. Depth(t), x \in Nat :
            x \in 1 .. Len(t.frames[k].vars) /\ t.frames[k].vars[x] = v
      BY <2>3
    <3>2. CASE k # Depth(w)
      BY <1>0, <2>2, <3>1, <3>2, InScopeHas
    <3>3. CASE k = Depth(w)
      <4>1. x \in 1 .. n + 1 /\ a[x] = v
        BY <1>4, <1>5, <2>2, <3>1, <3>3
      <4>2. CASE x = n + 1
        BY <1>5, <4>1, <4>2
      <4>3. CASE x # n + 1
        <5>1. x \in 1 .. n /\ x \in 1 .. m
          BY ONLY <1>9, <4>1, <4>3
        <5>2. ci(w).vars[x] \in InScope(w)
          BY <1>0, <2>1, <5>1, InScopeHas
        <5>3. QED
          BY <1>5, <4>1, <5>1, <5>2
      <4>4. QED
        BY <4>2, <4>3
    <3>4. QED
      BY <3>2, <3>3
  <2>4. CASE \E g \in Gens, x \in Nat :
               x \in 1 .. Len(t.gens[g].vars) /\ t.gens[g].vars[x] = v
    BY <1>0, <1>4, <2>4, InScopeHas
  <2>5. QED
    BY <1>4, <2>3, <2>4, InScopeIs
<1>17. QED
  BY <1>15, <1>16 DEF Adds

\* The frames n + 1 .. D have no trap and no Execute begins with them.
Quiet(s, n) ==
  \A k \in n + 1 .. Depth(s) : s.frames[k].etraps = 0 /\ ~ s.frames[k].root

\* Frames are left that have no traps.
LEMMA LeavesCut ==
  ASSUME NEW s, Core(s), NEW n \in 0 .. Depth(s) - 1, NEW root \in BOOLEAN,
         NEW q \in Seq(Int), NEW r, NEW u, Leaves(s, u, n, root, q, r),
         s.frames[n + 1].etraps = 0, s.frames[n + 1].root = root, Quiet(s, n + 1)
  PROVE  Cut(s, u, n) /\ CutGens(s, u, n) /\ CutKills(s, u, n)
<1>0. s \in States /\ s.execs \in Seq(Int) /\ Len(s.execs) \in Nat /\ s.etraps \in Seq(Trap)
      /\ n \in Nat /\ Depth(s) \in Nat
  BY StateIs, DepthIs DEF Core
<1>1. /\ u \in States /\ u.frames = SubSeq(s.frames, 1, n) /\ u.execs = q
      /\ u.etraps = s.etraps /\ u.gens = r
      /\ u.open = Lower(s.open, s.frames[n + 1].base)
      /\ u.stray = Lower(s.stray, s.frames[n + 1].base)
      /\ Len(q) = Len(s.execs) - (IF root THEN 1 ELSE 0)
      /\ \A e \in 1 .. Len(q) : q[e] = s.execs[e]
  BY DEF Leaves, Parts
<1>2. \A g \in Gens : u.gens[g] = (IF \E k \in n + 1 .. Depth(s) : s.frames[k].gen = g
                                   THEN Dead ELSE s.gens[g])
  <2>1. \A g \in Gens : r[g] = (IF \E k \in n + 1 .. Depth(s) : s.frames[k].gen = g
                                THEN Dead ELSE s.gens[g])
    BY ONLY Leaves(s, u, n, root, q, r) DEF Leaves
  <2>2. QED
    BY ONLY <1>1, <2>1
<1>3. Cut(s, u, n)
  <2>1. u.etraps = Without(s.etraps, s.frames[n + 1].etraps)
    BY <1>0, <1>1, WithoutZero
  <2>2. \A e \in 1 .. Len(u.execs) :
          u.execs[e] = s.execs[e] - (IF e = Len(s.execs) THEN s.frames[n + 1].etraps ELSE 0)
    <3>1. \A e \in 1 .. Len(q) : q[e] \in Int
      OBVIOUS
    <3>2. QED
      BY <1>1, <3>1
  <2>3. \A k \in n + 2 .. Depth(s) : s.frames[k].etraps = 0 /\ ~ s.frames[k].root
    <3>1. n + 2 = (n + 1) + 1
      BY <1>0
    <3>2. QED
      BY <3>1 DEF Quiet
  <2>4. QED
    BY <1>1, <2>1, <2>2, <2>3 DEF Cut
<1>4. CutGens(s, u, n)
  <2>1. ASSUME NEW g \in Gens PROVE GenOK(s.gens[g])
    BY DEF Core, Shapes
  <2>2. QED
    BY ONLY <1>2, <2>1, EmptyGen DEF CutGens
<1>5. CutKills(s, u, n)
  BY ONLY <1>2, EmptyGen DEF CutKills
<1>6. QED
  BY <1>3, <1>4, <1>5

\* Nothing that was captured comes back into scope after the step to u.
LEMMA ShareThen ==
  ASSUME NEW s \in States, NEW u, Shares(s, u), NEW t, Shares(u, t),
         NEW e \in Fresh(s), Adds(u, t, e)
  PROVE  Shares(s, t)
<1>1. \A o \in s.open : o.var # e
  BY FreshIs
<1>2. ASSUME NEW o \in s.open, o.var \in InScope(t)
      PROVE  o.var \in InScope(s) /\ o \in t.open
  <2>1. o.var \in InScope(u)
    BY <1>1, <1>2 DEF Adds
  <2>2. o.var \in InScope(s) /\ o \in u.open
    BY <2>1 DEF Shares
  <2>3. QED
    BY <1>2, <2>2 DEF Shares
<1>3. QED
  BY <1>2 DEF Shares

\* The exception is caught in the running frame.
LEMMA CatchHere ==
  ASSUME NEW s, Good(s), Depth(s) > 0, ci(s).etraps > 0, NEW e \in Fresh(s),
         NEW u, u = LeaveFrames(Kill(s, Depth(s)), Depth(s)), NEW t, t = Catch(u, e)
  PROVE  Good(t) /\ Shares(s, t) /\ Adds(s, t, e)
<1> PICK c : c = Kill(s, Depth(s))
  OBVIOUS
<1>0. s \in States /\ Depth(s) \in Nat
  BY DepthIs DEF Good, Core
<1>1. c = s
  <2> PICK r : r = [g \in Gens |-> IF g \in {s.frames[k].gen : k \in Depth(s) + 1 .. Depth(s)}
                                   THEN Dead ELSE s.gens[g]]
    OBVIOUS
  <2>1. {s.frames[k].gen : k \in Depth(s) + 1 .. Depth(s)} = {}
    BY <1>0
  <2>2. s.gens = [g \in Gens |-> s.gens[g]]
    BY <1>0, StateIs
  <2>3. r = s.gens
    BY ONLY <2>1, <2>2, r = [g \in Gens |->
              IF g \in {s.frames[k].gen : k \in Depth(s) + 1 .. Depth(s)} THEN Dead ELSE s.gens[g]]
  <2>4. c = [s EXCEPT !.gens = r]
    BY <1>0 DEF Kill, States
  <2>5. QED
    BY ONLY <1>0, <2>3, <2>4 DEF States
<1>2. u = s
  BY <1>1 DEF LeaveFrames
<1>3. QED
  BY ONLY <1>2, Good(s), Depth(s) > 0, ci(s).etraps > 0, e \in Fresh(s), t = Catch(u, e),
          CatchGood

\* The exception is caught in the frame n, below the running one.
LEMMA CatchBelow ==
  ASSUME NEW s, Good(s), NEW n \in 1 .. Depth(s) - 1, s.frames[n].etraps > 0,
         Quiet(s, n), NEW e \in Fresh(s),
         NEW u, u = LeaveFrames(Kill(s, n), n), NEW t, t = Catch(u, e)
  PROVE  Good(t) /\ Shares(s, t) /\ Adds(s, t, e)
<1>0. Core(s) /\ Outers(s) /\ s \in States /\ Depth(s) \in Nat /\ Rooted(s)
  BY DepthIs DEF Good, Core
<1>1. /\ n \in Nat /\ n > 0 /\ n \in 0 .. Depth(s) - 1 /\ n + 1 \in 1 .. Depth(s)
      /\ n + 1 \in n + 1 .. Depth(s) /\ n \in 1 .. Depth(s) /\ Depth(s) > 0
  BY <1>0
<1>2. s.frames[n + 1].etraps = 0 /\ s.frames[n + 1].root = FALSE
  <2>1. s.frames[n + 1] \in FrameRec
    BY <1>0, <1>1, DepthIs
  <2>2. s.frames[n + 1].root \in BOOLEAN
    BY <2>1 DEF FrameRec
  <2>3. QED
    BY <1>1, <2>2 DEF Quiet
<1>3. Quiet(s, n + 1)
  <2>1. \A k \in n + 1 + 1 .. Depth(s) : k \in n + 1 .. Depth(s)
    BY <1>0, <1>1
  <2>2. QED
    BY <2>1 DEF Quiet
<1>4. Len(s.execs) > 0
  BY <1>0, <1>1, TopOwnIs
<1>5. PICK q \in Seq(Int), r \in [Gens -> GenRec] : Leaves(s, u, n, FALSE, q, r)
  <2>1. u = LeaveExecute(LeaveFrames(Kill(s, n), n), FALSE)
    BY DEF LeaveExecute
  <2>2. QED
    BY ONLY <1>0, <1>1, <1>4, <2>1, FALSE \in BOOLEAN, LeavesIs
<1>6. Cut(s, u, n) /\ CutGens(s, u, n) /\ CutKills(s, u, n)
  BY ONLY <1>0, <1>1, <1>2, <1>3, <1>5, q \in Seq(Int), FALSE \in BOOLEAN, LeavesCut
<1>7. Good(u) /\ Shares(s, u) /\ InScope(u) \subseteq InScope(s) /\ e \in Fresh(u)
  <2>1. Good(u)
    BY ONLY <1>6, Good(s), CutGood
  <2>2. Shares(s, u)
    BY ONLY <1>0, <1>6, CutShares
  <2>3. InScope(u) \subseteq InScope(s)
    BY ONLY <1>0, <1>6, CutScope
  <2>4. e \in Fresh(u)
    BY ONLY <1>0, <1>6, e \in Fresh(s), CutFresh
  <2>5. QED
    BY <2>1, <2>2, <2>3, <2>4
<1>8. Depth(u) = n /\ ci(u) = s.frames[n]
  <2>1. Depth(u) = n /\ Over(s, u, n)
    BY ONLY <1>0, <1>6, CutOver
  <2>2. u \in States
    BY <1>6 DEF Cut
  <2>3. \A k \in 1 .. n : u.frames[k] = s.frames[k]
    BY ONLY <1>0, <2>1, <2>2, OverIs
  <2>4. QED
    BY <1>1, <2>1, <2>3 DEF ci
<1>9. Depth(u) > 0 /\ ci(u).etraps > 0
  BY <1>1, <1>8
<1>10. Good(t) /\ Shares(u, t) /\ Adds(u, t, e)
  BY ONLY <1>7, <1>9, t = Catch(u, e), CatchGood
<1>11. Shares(s, t)
  BY ONLY <1>0, <1>7, <1>10, e \in Fresh(s), ShareThen
<1>12. Adds(s, t, e)
  BY <1>7, <1>10 DEF Adds
<1>13. QED
  BY <1>10, <1>11, <1>12

\* No frame of the Execute has a trap: all of them are left.
LEMMA NoCatch ==
  ASSUME NEW s, Good(s), NEW n \in 0 .. Depth(s) - 1, s.frames[n + 1].etraps = 0,
         s.frames[n + 1].root, Quiet(s, n + 1),
         NEW t, t = LeaveExecute(LeaveFrames(Kill(s, n), n), TRUE)
  PROVE  Good(t) /\ Shares(s, t) /\ InScope(t) \subseteq InScope(s)
<1>0. Core(s) /\ Outers(s) /\ s \in States /\ Depth(s) \in Nat /\ Depth(s) > 0
  BY DepthIs DEF Good, Core
<1>1. Len(s.execs) > 0
  BY <1>0, TopOwnIs
<1>2. s.frames[n + 1].root = TRUE
  <2>1. n + 1 \in 1 .. Depth(s)
    BY <1>0
  <2>2. s.frames[n + 1] \in FrameRec
    BY <1>0, <2>1, DepthIs
  <2>3. QED
    BY <2>2 DEF FrameRec
<1>3. PICK q \in Seq(Int), r \in [Gens -> GenRec] : Leaves(s, t, n, TRUE, q, r)
  BY ONLY <1>0, <1>1, n \in 0 .. Depth(s) - 1, TRUE \in BOOLEAN,
          t = LeaveExecute(LeaveFrames(Kill(s, n), n), TRUE), LeavesIs
<1>4. Cut(s, t, n) /\ CutGens(s, t, n) /\ CutKills(s, t, n)
  BY ONLY <1>0, <1>2, <1>3, n \in 0 .. Depth(s) - 1, TRUE \in BOOLEAN, q \in Seq(Int),
          s.frames[n + 1].etraps = 0, Quiet(s, n + 1), LeavesCut
<1>5. Good(t)
  BY ONLY <1>4, Good(s), CutGood
<1>6. Shares(s, t)
  BY ONLY <1>0, <1>4, CutShares
<1>7. InScope(t) \subseteq InScope(s)
  BY ONLY <1>0, <1>4, CutScope
<1>8. QED
  BY <1>5, <1>6, <1>7

LEMMA UnwindGood ==
  ASSUME NEW s, Good(s), Depth(s) > 0, NEW e \in Fresh(s),
         NEW t, t = Unwind(s, e)
  PROVE  Good(t) /\ Shares(s, t) /\ Adds(s, t, e)
<1> DEFINE K == {k \in 1 .. Depth(s) : s.frames[k].etraps > 0 \/ s.frames[k].root}
<1>0. Core(s) /\ s \in States /\ Depth(s) \in Nat /\ ci(s) = s.frames[Depth(s)]
  BY DepthIs DEF Good, Core, ci
<1>1. K \in SUBSET (0 .. Depth(s)) /\ K # {}
  <2>1. s.frames[1].root /\ 1 \in 1 .. Depth(s)
    BY <1>0 DEF Core, Rooted
  <2>2. QED
    BY <2>1
<1>2. \A k \in 1 .. Depth(s) : s.frames[k].etraps \in Nat
  BY <1>0, DepthIs DEF FrameRec
<1> PICK n : n = Highest(K)
  OBVIOUS
<1>3. n \in K /\ \A k \in K : k <= n
  <2> HIDE DEF K
  <2>1. QED
    BY <1>0, <1>1, HighestIs
<1>4. n \in 1 .. Depth(s) /\ (s.frames[n].etraps > 0 \/ s.frames[n].root) /\ n \in Nat
  BY <1>0, <1>3
<1>5. Quiet(s, n)
  <2>1. ASSUME NEW k \in n + 1 .. Depth(s)
        PROVE  s.frames[k].etraps = 0 /\ ~ s.frames[k].root
    <3>1. k \in 1 .. Depth(s) /\ ~ (k <= n)
      BY <1>0, <1>4
    <3>2. k \notin K
      BY <1>3, <3>1
    <3>3. QED
      BY <1>2, <3>1, <3>2
  <2>2. QED
    BY <2>1 DEF Quiet
<1>6. t = IF s.frames[n].etraps > 0
          THEN Catch(LeaveFrames(Kill(s, n), n), e)
          ELSE LeaveExecute(LeaveFrames(Kill(s, n - 1), n - 1), TRUE)
  BY DEF Unwind
<1> HIDE DEF K
<1>7. CASE s.frames[n].etraps > 0
  <2> PICK u : u = LeaveFrames(Kill(s, n), n)
    OBVIOUS
  <2>1. t = Catch(u, e)
    BY <1>6, <1>7
  <2>2. CASE n = Depth(s)
    <3>1. ci(s).etraps > 0 /\ u = LeaveFrames(Kill(s, Depth(s)), Depth(s))
      BY <1>0, <1>7, <2>2
    <3>2. QED
      BY ONLY <2>1, <3>1, Good(s), Depth(s) > 0, e \in Fresh(s), CatchHere
  <2>3. CASE n # Depth(s)
    <3>1. n \in 1 .. Depth(s) - 1
      BY <1>0, <1>4, <2>3
    <3>2. QED
      BY ONLY <1>5, <1>7, <2>1, <3>1, Good(s), e \in Fresh(s),
              u = LeaveFrames(Kill(s, n), n), CatchBelow
  <2>4. QED
    BY <2>2, <2>3
<1>8. CASE ~ (s.frames[n].etraps > 0)
  <2> PICK m \in Nat : m = n - 1
    BY <1>4
  <2>1. m + 1 = n /\ m \in 0 .. Depth(s) - 1
    BY <1>0, <1>4
  <2>2. s.frames[m + 1].etraps = 0 /\ s.frames[m + 1].root /\ Quiet(s, m + 1)
    BY <1>2, <1>4, <1>5, <1>8, <2>1
  <2>3. t = LeaveExecute(LeaveFrames(Kill(s, m), m), TRUE)
    BY <1>6, <1>8
  <2>4. Good(t) /\ Shares(s, t) /\ InScope(t) \subseteq InScope(s)
    BY ONLY <2>1, <2>2, <2>3, Good(s), NoCatch
  <2>5. QED
    BY <2>4 DEF Adds
<1>9. QED
  BY <1>7, <1>8

LEMMA THROWGood ==
  ASSUME NEW s, Good(s), s = vm, NEW t, t = vm', THROW
  PROVE  Good(t) /\ Shares(s, t)
<1>1. Depth(s) > 0 /\ Fresh(s) # {} /\ t = Unwind(s, NextVar(s))
  BY DEF THROW, Script
<1>2. NextVar(s) \in Fresh(s)
  BY <1>1, NextVarIs
<1>3. QED
  BY ONLY <1>1, <1>2, Good(s), UnwindGood

LEMMA RESUME_ErrorGood ==
  ASSUME NEW s, Good(s), s = vm, NEW t, t = vm', NEW g \in Gens, RESUME_Error(g)
  PROVE  Good(t) /\ Shares(s, t)
<1>1. Depth(s) > 0 /\ Fresh(s) # {} /\ t = Unwind(s, NextVar(s))
  BY DEF RESUME_Error, Script
<1>2. NextVar(s) \in Fresh(s)
  BY <1>1, NextVarIs
<1>3. QED
  BY ONLY <1>1, <1>2, Good(s), UnwindGood

LEMMA NativeErrorGood ==
  ASSUME NEW s, Good(s), s = vm, NEW t, t = vm', NativeError
  PROVE  Good(t) /\ Shares(s, t)
<1> PICK u : u = LeaveFrames(s, Depth(s) - 1)
  OBVIOUS
<1> PICK e : e = NextVar(s)
  OBVIOUS
<1>1. /\ Depth(s) > 0 /\ ci(s).kind = "native" /\ Fresh(s) # {}
      /\ t = Unwind(u, e)
  BY DEF NativeError, Native
<1>2. e \in Fresh(s) /\ s \in States
  BY <1>1, NextVarIs DEF Good, Core
<1>3. Good(u) /\ Shares(s, u) /\ Depth(u) > 0 /\ e \in Fresh(u)
  BY ONLY <1>1, <1>2, Good(s), u = LeaveFrames(s, Depth(s) - 1), NativeLeft
<1>4. Good(t) /\ Shares(u, t) /\ Adds(u, t, e)
  BY ONLY <1>1, <1>3, UnwindGood
<1>5. QED
  BY ONLY <1>2, <1>3, <1>4, ShareThen
----------------------------------------------------------------------------
(* The theorems *)

LEMMA InitGood ==
  ASSUME Init
  PROVE  Good(vm)
<1> PICK s : s = vm
  OBVIOUS
<1>0. /\ s = [frames |-> <<>>, execs |-> <<>>, etraps |-> <<>>, open |-> {},
              stray |-> {}, gens |-> [g \in Gens |-> Dead]]
  BY DEF Init
<1>1. /\ s.frames = <<>> /\ s.execs = <<>> /\ s.etraps = <<>> /\ s.open = {}
      /\ s.stray = {} /\ s.gens = [g \in Gens |-> Dead]
  BY <1>0
<1>2. s \in States
  <2>1. /\ <<>> \in Seq(FrameRec) /\ <<>> \in Seq(Int) /\ <<>> \in Seq(Trap)
        /\ {} \in SUBSET Outer
        /\ [g \in Gens |-> Dead] \in [Gens -> GenRec]
    BY EmptyGen
  <2>2. QED
    BY <1>0, <2>1 DEF States
<1>3. Depth(s) = 0 /\ Len(s.frames) = 0 /\ Len(s.execs) = 0 /\ Len(s.etraps) = 0
  BY <1>1 DEF Depth
<1>4. \A k : k \in 1 .. Depth(s) => FALSE
  BY <1>3
<1>5. \A g \in Gens : s.gens[g] = Dead
  BY <1>1
<1>6. Shapes(s) /\ Slots(s)
  BY <1>3, <1>4, <1>5, EmptyGen, BoundsAssumption DEF Shapes, Slots
<1>7. Rooted(s)
  BY <1>3, ExecZero DEF Rooted
<1>8. Owners(s)
  BY <1>4, <1>5, EmptyGen DEF Owners, Runs
<1>9. Fits(s)
  <2>1. SumTo(Traps(s), 0) = 0
    BY SumZero
  <2>2. QED
    BY <1>3, <1>4, <2>1 DEF Fits
<1>10. Distinct(s)
  <2>1. ASSUME NEW g \in Gens, NEW h \in Gens
        PROVE  Once(s.gens[g].vars) /\ Apart(s.gens[g].vars, s.gens[h].vars)
    <3>1. s.gens[g].vars = <<>> /\ Len(<<>>) = 0
      BY <1>5, EmptyGen
    <3>2. \A x : x \in 1 .. 0 => FALSE
      OBVIOUS
    <3>3. QED
      BY <3>1, <3>2 DEF Once, Apart
  <2>2. QED
    BY <1>4, <2>1 DEF Distinct
<1>11. TrapsCounted(s)
  <2>1. \A e : e \in DOMAIN s.execs => FALSE
    BY <1>1
  <2>2. QED
    BY <2>1 DEF TrapsCounted
<1>12. Outers(s) /\ s.stray = {}
  BY <1>1 DEF Outers
<1>13. Good(s)
  BY <1>2, <1>6, <1>7, <1>8, <1>9, <1>10, <1>11, <1>12 DEF Good, Core
<1>14. QED
  BY <1>13

\* A step that takes no captured variable from its closures
LEMMA Step ==
  ASSUME Good(vm'), Shares(vm, vm')
  PROVE  Good(vm') /\ StaysShared
BY DEF Shares, StaysShared

LEMMA NextGood ==
  ASSUME ~ SharedGenerators, Good(vm), Next
  PROVE  Good(vm') /\ StaysShared
<1> PICK s : s = vm
  OBVIOUS
<1> PICK t : t = vm'
  OBVIOUS
<1>0. Good(s)
  OBVIOUS
<1> DEFINE Done == Good(t) /\ Shares(s, t)
<1>1. ASSUME DeclareLocal PROVE Done
  BY ONLY <1>0, <1>1, s = vm, t = vm', DeclareLocalGood
<1>2. ASSUME NEW kind \in {"block", "switch"}, OpenBlock(kind)
      PROVE  Done
  BY ONLY <1>0, <1>2, kind \in {"block", "switch"}, s = vm, t = vm', OpenBlockGood
<1>3. ASSUME NEW n \in {0, 1}, OpenLoop(n)
      PROVE  Done
  BY ONLY <1>0, <1>3, n \in {0, 1}, s = vm, t = vm', OpenLoopGood
<1>4. ASSUME PUSHTRAP PROVE Done
  BY ONLY <1>0, <1>4, s = vm, t = vm', PUSHTRAPGood
<1>5. ASSUME EndScope PROVE Done
  BY ONLY <1>0, <1>5, s = vm, t = vm', EndScopeGood
<1>6. ASSUME EndBody PROVE Done
  BY ONLY <1>0, <1>6, s = vm, t = vm', EndBodyGood
<1>7. ASSUME Break PROVE Done
  BY ONLY <1>0, <1>7, s = vm, t = vm', BreakGood
<1>8. CASE Continue
  <2>1. /\ Good(t)
        /\ \A o \in s.open \ t.open : o.var \in InScope(t) => o.var \in LoopVars(ci(s))
    BY ONLY <1>0, <1>8, s = vm, t = vm', ContinueGood
  <2>2. QED
    BY <1>8, <2>1 DEF StaysShared
<1>9. ASSUME NEW i \in 1 .. FrameSize, CLOSURE(i)
      PROVE  Done
  BY ONLY <1>0, <1>9, i \in 1 .. FrameSize, s = vm, t = vm', CLOSUREGood
<1>10. ASSUME CALL \/ CallNative PROVE Done
  BY ONLY <1>0, <1>10, s = vm, t = vm', CALLGood
<1>11. ASSUME TAILCALL PROVE Done
  BY ONLY <1>0, <1>11, s = vm, t = vm', TAILCALLGood
<1>12. ASSUME RETURN PROVE Done
  BY ONLY <1>0, <1>12, s = vm, t = vm', RETURNGood
<1>13. ASSUME THROW PROVE Done
  BY ONLY <1>0, <1>13, s = vm, t = vm', THROWGood
<1>14. CASE YIELD
  <2>1. /\ Good(t)
        /\ \A o \in s.open \ t.open : o.var \in InScope(t) => Holds(ci(s).vars, o.var)
    BY ONLY <1>0, <1>14, s = vm, t = vm', YIELDGood
  <2>2. QED
    BY <1>14, <2>1 DEF StaysShared
<1>15. ASSUME NEW g \in Gens, NewGenerator(g) PROVE Done
  BY ONLY <1>0, <1>15, g \in Gens, s = vm, t = vm', NewGeneratorGood
<1>16. ASSUME NEW g \in Gens, RESUME(g) PROVE Done
  BY ONLY <1>0, <1>16, g \in Gens, s = vm, t = vm', ~ SharedGenerators, RESUMEGood
<1>17. ASSUME NEW g \in Gens, FOREACH(g) PROVE Done
  BY ONLY <1>0, <1>17, g \in Gens, s = vm, t = vm', ~ SharedGenerators, FOREACHGood
<1>18. ASSUME NEW g \in Gens, RESUME_Error(g) PROVE Done
  BY ONLY <1>0, <1>18, g \in Gens, s = vm, t = vm', RESUME_ErrorGood
<1>19. ASSUME NEW g \in Gens, ExecuteGenerator(g) PROVE Done
  BY ONLY <1>0, <1>19, g \in Gens, s = vm, t = vm', ExecuteGeneratorGood
<1>20. ASSUME Execute PROVE Done
  BY ONLY <1>0, <1>20, s = vm, t = vm', ExecuteGood
<1>21. ASSUME NativeTailCall PROVE Done
  BY ONLY <1>0, <1>21, s = vm, t = vm', NativeTailCallGood
<1>22. ASSUME NativeReturn PROVE Done
  BY ONLY <1>0, <1>22, s = vm, t = vm', NativeReturnGood
<1>23. ASSUME NativeError PROVE Done
  BY ONLY <1>0, <1>23, s = vm, t = vm', NativeErrorGood
<1>24. Done => Good(vm') /\ StaysShared
  BY Step
<1> HIDE DEF Done
<1>25. QED
  BY <1>1, <1>2, <1>3, <1>4, <1>5, <1>6, <1>7, <1>8, <1>9, <1>10, <1>11, <1>12, <1>13,
     <1>14, <1>15, <1>16, <1>17, <1>18, <1>19, <1>20, <1>21, <1>22, <1>23, <1>24 DEF Next

LEMMA AlwaysGood ==
  ASSUME ~ SharedGenerators
  PROVE  Spec => []Good(vm)
<1>1. Init => Good(vm)
  BY InitGood
<1>2. Good(vm) /\ [Next]_vm => Good(vm)'
  <2>1. ASSUME Good(vm), vm' = vm PROVE Good(vm')
    BY <2>1
  <2>2. QED
    BY <2>1, NextGood
<1>3. QED
  BY <1>1, <1>2, PTL DEF Spec

\* The frames, the activations of Execute and the open outers are what the
\* code takes them for: each Execute has one root frame, which decides when it
\* returns (sqvm.cpp:1641, 1825), the locals of a frame fit its part of the
\* stack, and no more frames are entered than there is room for.
THEOREM FramesTypeOK ==
  ASSUME ~ SharedGenerators
  PROVE  Spec => []TypeOK
<1>1. ASSUME Good(vm) PROVE TypeOK
  <2> PICK s : s = vm
    OBVIOUS
  <2>1. s \in States /\ Shapes(s) /\ Rooted(s)
    BY <1>1 DEF Good, Core
  <2>2. ASSUME NEW k \in 1 .. Depth(s)
        PROVE  /\ s.frames[k].kind \in {"script", "generator", "native"}
               /\ s.frames[k].base \in Nat /\ s.frames[k].etraps \in Nat
               /\ Len(s.frames[k].vars) <= FrameSize
    <3>1. s.frames[k] \in FrameRec
      BY <2>1, DepthIs
    <3>2. QED
      BY <2>1, <3>1, FrameIs DEF Shapes, FrameOK, Blocks
  <2>3. \A o \in s.open : o.pos \in Nat /\ o.var \in Vars
    BY <2>1, StateIs
  <2>4. Depth(s) <= MaxFrames /\ Len(s.execs) = ExecOf(s, Depth(s))
    BY <2>1 DEF Shapes, Rooted
  <2>5. QED
    BY <2>2, <2>3, <2>4 DEF TypeOK
<1>2. Good(vm) => TypeOK
  BY <1>1
<1>3. QED
  BY <1>2, AlwaysGood, PTL

\* Whatever is called, thrown, caught, yielded and resumed, each trap of the
\* VM belongs to a try block that its frame is in, at the base that the frame
\* has now, and each Execute has counted the traps of its frames, unless
\* foreach iterates a generator that has set a trap (sqvm.cpp:792).
THEOREM FramesTraps ==
  ASSUME ~ SharedGenerators, ~ TryInForeach
  PROVE  Spec => []TrapsSound
<1>1. ASSUME Good(vm) PROVE TrapsSound
  <2> PICK s : s = vm
    OBVIOUS
  <2>1. TrapsCounted(s) /\ Fits(s)
    BY <1>1 DEF Good, Core
  <2>2. TrapsOfTheirFrames(s)
    BY <2>1 DEF Fits, TrapsFit, TrapsOfTheirFrames
  <2>3. QED
    BY <2>1, <2>2 DEF TrapsSound
<1>2. Good(vm) => TrapsSound
  BY <1>1
<1>3. QED
  BY <1>2, AlwaysGood, PTL

\* A closure never reads or writes another variable than the one it captured,
\* but through the outers that the code leaves open: those of the scopes that
\* an exception leaves (sqvm.cpp:1810), and those of a loop's body left by a
\* continue inside a switch (codegen.cpp:703).
THEOREM FramesOuters ==
  ASSUME ~ SharedGenerators
  PROVE  Spec => []OuterOfItsVariable
<1>1. ASSUME Good(vm) PROVE OuterOfItsVariable
  <2> PICK s : s = vm
    OBVIOUS
  <2>1. s \in States /\ Outers(s)
    BY <1>1 DEF Good, Core
  <2>2. ASSUME NEW o \in s.open \ s.stray PROVE o.var \in VarAt(s, o.pos)
    <3>1. PICK k \in 1 .. Depth(s), i \in Nat : OuterIn(s.frames[k], o, i)
      BY <2>1 DEF Outers
    <3>2. /\ i \in 1 .. Len(s.frames[k].vars) /\ s.frames[k].base + i - 1 = o.pos
          /\ s.frames[k].vars[i] = o.var
      BY <3>1 DEF OuterIn
    <3>3. s.frames[k].vars \in Seq(Vars)
      BY <2>1, DepthIs, FrameIs
    <3>4. i \in DOMAIN s.frames[k].vars /\ o.var \in Vars
      BY <3>2, <3>3
    <3>5. QED
      BY <3>2, <3>4 DEF VarAt
  <2>3. QED
    BY <2>2 DEF OuterOfItsVariable
<1>2. Good(vm) => OuterOfItsVariable
  BY <1>1
<1>3. QED
  BY <1>2, AlwaysGood, PTL

\* While a variable is in scope, its closures share it with the function,
\* whatever is called, thrown, caught and resumed; but a yield detaches the
\* locals of its generator (sqvm.cpp:1641) and a continue the variable of its
\* "for" loop (codegen.cpp:703).
THEOREM FramesShared ==
  ASSUME ~ SharedGenerators
  PROVE  Spec => CapturedShared
<1>1. Good(vm) /\ [Next]_vm => [StaysShared]_vm
  BY NextGood
<1>2. QED
  BY <1>1, AlwaysGood, PTL DEF Spec, CapturedShared

\* A generator that runs has exactly one frame, and one that does not run has
\* none: no return, exception or error leaves one behind that can be resumed.
THEOREM FramesGenerators ==
  ASSUME ~ SharedGenerators
  PROVE  Spec => []GeneratorFrames
<1>1. ASSUME Good(vm) PROVE GeneratorFrames
  <2> PICK s : s = vm
    OBVIOUS
  <2>1. s \in States /\ Owners(s)
    BY <1>1 DEF Good, Core
  <2>2. ASSUME NEW g \in Gens
        PROVE  Cardinality({k \in 1 .. Depth(s) : s.frames[k].gen = g})
                 = (IF s.gens[g].state = "running" THEN 1 ELSE 0)
    <3> PICK K : K = {k \in 1 .. Depth(s) : s.frames[k].gen = g}
      OBVIOUS
    <3>1. \A k : k \in K <=> Runs(s, g, k)
      BY DEF Runs
    <3>2. \A k \in K : k \in Nat
      BY <2>1, DepthIs
    <3>3. CASE s.gens[g].state = "running"
      <4>1. PICK k \in Nat : Runs(s, g, k)
        BY <2>1, <3>3 DEF Owners
      <4>2. \A j \in K : j = k
        BY <2>1, <3>1, <3>2, <4>1 DEF Owners
      <4>3. K = {k}
        BY <3>1, <4>1, <4>2
      <4>4. Cardinality(K) = 1
        BY <4>3, FS_Singleton
      <4>5. QED
        BY <3>3, <4>4
    <3>4. CASE s.gens[g].state # "running"
      <4>1. \A k \in K : FALSE
        BY <2>1, <3>1, <3>2, <3>4 DEF Owners
      <4>2. K = {}
        BY <4>1
      <4>3. Cardinality(K) = 0
        BY <4>2, FS_EmptySet
      <4>4. QED
        BY <3>4, <4>3
    <3>5. QED
      BY <3>3, <3>4
  <2>3. QED
    BY <2>2 DEF GeneratorFrames
<1>2. Good(vm) => GeneratorFrames
  BY <1>1
<1>3. QED
  BY <1>2, AlwaysGood, PTL
=============================================================================
