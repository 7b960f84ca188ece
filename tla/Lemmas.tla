------------------------------ MODULE Lemmas ------------------------------
(***************************************************************************)
(* Lemmas that the proofs of several modules rest on: induction, functions *)
(* defined by recursion, least elements, what the operations make of an    *)
(* alignment, sums and sorting.                                            *)
(***************************************************************************)
EXTENDS Alignments, SequencesExt, FiniteSetTheorems, WellFoundedInduction,
        SequenceTheorems, TLAPS

-----------------------------------------------------------------------------
(* Induction over the natural numbers and over intervals, and the existence *)
(* of functions defined by recursion over an interval, stated of sets and   *)
(* functions.  The induction theorems of the library are stated of an       *)
(* operator, which an SMT prover cannot instantiate; a set can be           *)
(* instantiated like every other constant.                                  *)

NatLess == {p \in Nat \X Nat : p[1] < p[2]}

\* The order of the natural numbers has no infinite descent.
LEMMA NatLessIsWellFounded == IsWellFoundedOn(NatLess, Nat)
BY NatLessThanWellFounded DEF OpToRel, NatLess

\* A set that holds 0 and the successor of each of its numbers holds them all.
LEMMA NatsByInduction ==
  ASSUME NEW S, 0 \in S, \A n \in Nat : n \in S => n + 1 \in S
  PROVE  \A n \in Nat : n \in S
<1> DEFINE T == Nat \ S
<1> SUFFICES ASSUME T # {} PROVE FALSE
  OBVIOUS
<1>1. PICK x \in T : \A y \in T : ~ (<<y, x>> \in NatLess)
  BY NatLessIsWellFounded, WFMin
<1>2. x \in Nat /\ x # 0 /\ x - 1 \in Nat /\ x - 1 < x
  BY <1>1
<1>3. x - 1 \notin T
  BY <1>1, <1>2 DEF NatLess
<1> QED
  BY <1>1, <1>2, <1>3

\* A set of natural numbers that is not empty has a least element.
LEMMA LeastExists ==
  ASSUME NEW T \in SUBSET Nat, T # {}
  PROVE  \E x \in T : \A y \in T : x <= y
<1>1. T \subseteq Nat
  OBVIOUS
<1>2. PICK x \in T : \A y \in T : ~ (<<y, x>> \in NatLess)
  BY <1>1, NatLessIsWellFounded, WFMin
<1>3. ASSUME NEW y \in T PROVE x <= y
  <2>1. x \in Nat /\ y \in Nat /\ ~ (<<y, x>> \in NatLess)
    BY <1>1, <1>2
  <2> QED
    BY <2>1 DEF NatLess
<1> QED
  BY <1>3

\* Induction upwards from a to b.
LEMMA UpFrom ==
  ASSUME NEW a \in Int, NEW b \in Int, NEW S,
         a \in S, \A n \in a .. b - 1 : n \in S => n + 1 \in S
  PROVE  \A n \in a .. b : n \in S
<1> DEFINE T == {k \in Nat : a + k <= b => a + k \in S}
<1>1. 0 \in T
  OBVIOUS
<1>2. ASSUME NEW k \in Nat, k \in T PROVE k + 1 \in T
  <2>1. CASE a + k + 1 <= b
    <3>1. a + k \in a .. b - 1 /\ a + k \in S
      BY <1>2, <2>1
    <3>2. (a + k) + 1 \in S
      BY <3>1
    <3> QED
      BY <3>2
  <2> QED
    BY <2>1
<1>3. \A k \in Nat : k \in T
  <2> HIDE DEF T
  <2> QED
    BY <1>1, <1>2, NatsByInduction
<1> SUFFICES ASSUME NEW n \in a .. b PROVE n \in S
  OBVIOUS
<1>4. n - a \in Nat /\ a + (n - a) = n /\ n <= b
  OBVIOUS
<1> QED
  BY <1>3, <1>4

\* The same from 0.
LEMMA UpFromZero ==
  ASSUME NEW b \in Int, NEW S, 0 \in S, \A n \in 0 .. b - 1 : n \in S => n + 1 \in S
  PROVE  \A n \in 0 .. b : n \in S
<1>1. ASSUME NEW z \in Int, z = 0 PROVE \A n \in z .. b : n \in S
  <2>1. z \in S /\ \A n \in z .. b - 1 : n \in S => n + 1 \in S
    BY <1>1
  <2> QED
    BY <2>1, UpFrom
<1> QED
  BY <1>1

\* The same from 1.
LEMMA UpFromOne ==
  ASSUME NEW b \in Int, NEW S, 1 \in S, \A n \in 1 .. b - 1 : n \in S => n + 1 \in S
  PROVE  \A n \in 1 .. b : n \in S
<1>1. ASSUME NEW z \in Int, z = 1 PROVE \A n \in z .. b : n \in S
  <2>1. z \in S /\ \A n \in z .. b - 1 : n \in S => n + 1 \in S
    BY <1>1
  <2> QED
    BY <2>1, UpFrom
<1> QED
  BY <1>1

\* h gives each number behind a a value from the value before it ...
IsStep(h, V, a, b) == h \in [V \X (a + 1 .. b) -> V]

\* ... and f is the function it makes up from its value for a.
IsRecursion(f, h, V, a, b, c) ==
  /\ f \in [a .. b -> V]
  /\ f[a] = c /\ \A i \in a + 1 .. b : f[i] = h[<<f[i-1], i>>]

\* There is such a function.
LEMMA RecursionExists ==
  ASSUME NEW a \in Int, NEW b \in Int, a <= b, NEW V, NEW c \in V,
         NEW h, IsStep(h, V, a, b)
  PROVE  \E f : IsRecursion(f, h, V, a, b, c)
<1> USE DEF IsStep
<1> DEFINE Good(n, f) ==
             f[a] = c /\ \A i \in a + 1 .. n : f[i] = h[<<f[i-1], i>>]
           S == {n \in a .. b : \E f \in [a .. n -> V] : Good(n, f)}
<1>1. a \in S
  <2> DEFINE f == [i \in a .. a |-> c]
  <2> f \in [a .. a -> V] /\ Good(a, f) /\ a \in a .. b
    OBVIOUS
  <2> QED
    OBVIOUS
<1>2. ASSUME NEW n \in a .. b - 1, n \in S PROVE n + 1 \in S
  <2>1. PICK f \in [a .. n -> V] : Good(n, f)
    BY <1>2
  <2> DEFINE d == h[<<f[n], n + 1>>]
             g == [i \in a .. n + 1 |-> IF i = n + 1 THEN d ELSE f[i]]
  <2>2. f[n] \in V /\ n + 1 \in a + 1 .. b /\ n + 1 \in a .. b
    OBVIOUS
  <2>3. d \in V
    BY <2>2
  <2> HIDE DEF d
  <2>4. g \in [a .. n + 1 -> V] /\ g[a] = c /\ g[n + 1] = d /\ g[n] = f[n]
    BY <2>1, <2>3
  <2>5. ASSUME NEW i \in a + 1 .. n + 1 PROVE g[i] = h[<<g[i-1], i>>]
    <3>1. CASE i = n + 1
      <4>1. i - 1 = n
        BY <3>1
      <4>2. g[i] = d /\ g[i-1] = f[n] /\ <<f[n], n + 1>> = <<g[i-1], i>>
        <5> HIDE DEF g
        <5> QED
          BY <2>4, <3>1, <4>1
      <4> HIDE DEF g
      <4> QED
        BY <4>2 DEF d
    <3>2. CASE i # n + 1
      <4>1. i \in a + 1 .. n /\ i - 1 \in a .. n /\ i - 1 # n + 1
        BY <3>2
      <4>2. g[i] = f[i] /\ g[i-1] = f[i-1]
        BY <3>2, <4>1
      <4> QED
        BY <2>1, <4>1, <4>2
    <3> QED
      BY <3>1, <3>2
  <2> HIDE DEF g
  <2> QED
    BY <2>2, <2>4, <2>5
<1>3. b \in a .. b
  OBVIOUS
<1>4. b \in S
  <2> HIDE DEF S
  <2> QED
    BY <1>1, <1>2, <1>3, UpFrom
<1> QED
  BY <1>4 DEF IsRecursion

\* Two functions that begin alike and whose values follow alike agree.
LEMMA RecursionAgrees ==
  ASSUME NEW a \in Int, NEW b \in Int, NEW f, NEW g, f[a] = g[a],
         \A i \in a .. b : i # a /\ f[i-1] = g[i-1] => f[i] = g[i]
  PROVE  \A i \in a .. b : f[i] = g[i]
<1> DEFINE S == {i \in a .. b : f[i] = g[i]}
<1> SUFFICES ASSUME a <= b PROVE \A i \in a .. b : i \in S
  OBVIOUS
<1>1. a \in S
  OBVIOUS
<1>2. ASSUME NEW n \in a .. b - 1, n \in S PROVE n + 1 \in S
  <2>1. n + 1 \in a .. b /\ n + 1 # a /\ (n + 1) - 1 = n
    OBVIOUS
  <2> QED
    BY <1>2, <2>1
<1> HIDE DEF S
<1> QED
  BY <1>1, <1>2, UpFrom

\* A function that begins in a set and whose values follow in it stays in it.
LEMMA RecursionTyped ==
  ASSUME NEW a \in Int, NEW b \in Int, NEW f, NEW V, f[a] \in V,
         \A i \in a .. b : i # a /\ f[i-1] \in V => f[i] \in V
  PROVE  \A i \in a .. b : f[i] \in V
<1> DEFINE S == {i \in a .. b : f[i] \in V}
<1> SUFFICES ASSUME a <= b PROVE \A i \in a .. b : i \in S
  OBVIOUS
<1>1. a \in S
  OBVIOUS
<1>2. ASSUME NEW n \in a .. b - 1, n \in S PROVE n + 1 \in S
  <2>1. n + 1 \in a .. b /\ n + 1 # a /\ (n + 1) - 1 = n
    OBVIOUS
  <2> QED
    BY <1>2, <2>1
<1> HIDE DEF S
<1> QED
  BY <1>1, <1>2, UpFrom

\* The same for functions that begin at 0.
FollowAlike(f, g, b) ==
  f[0] = g[0] /\ \A i \in 1 .. b : f[i-1] = g[i-1] => f[i] = g[i]

\* Two functions that follow alike from the same value at 0 agree.
LEMMA AgreesFromZero ==
  ASSUME NEW b \in Int, NEW f, NEW g, FollowAlike(f, g, b)
  PROVE  \A i \in 0 .. b : f[i] = g[i]
<1> USE DEF FollowAlike
<1>1. ASSUME NEW a \in Int, a = 0 PROVE \A i \in a .. b : f[i] = g[i]
  <2>1. f[a] = g[a]
    BY <1>1
  <2>2. \A i \in a .. b : i # a => i \in 1 .. b
    BY <1>1
  <2>3. \A i \in a .. b : i # a /\ f[i-1] = g[i-1] => f[i] = g[i]
    BY <2>2, Zenon
  <2> QED
    BY <2>1, <2>3, RecursionAgrees
<1> QED
  BY <1>1

\* Values that follow from values of a type stay of that type.
LEMMA TypedFromZero ==
  ASSUME NEW b \in Int, NEW f, NEW V, f[0] \in V,
         \A i \in 1 .. b : f[i-1] \in V => f[i] \in V
  PROVE  \A i \in 0 .. b : f[i] \in V
<1>1. ASSUME NEW a \in Int, a = 0 PROVE \A i \in a .. b : f[i] \in V
  <2>1. f[a] \in V
    BY <1>1
  <2>2. \A i \in a .. b : i # a => i \in 1 .. b
    BY <1>1
  <2>3. \A i \in a .. b : i # a /\ f[i-1] \in V => f[i] \in V
    BY <2>2, Zenon
  <2> QED
    BY <2>1, <2>3, RecursionTyped
<1> QED
  BY <1>1

-----------------------------------------------------------------------------
(* Least elements and beginnings *)

\* The library's Min is the least element, where there is one.
LEMMA MinIsLeast ==
  ASSUME NEW T \in SUBSET Nat, T # {}
  PROVE  Min(T) \in T /\ \A y \in T : Min(T) <= y
BY LeastExists, Zenon DEF Min

\* An element that is no greater than any other is the Min.
LEMMA MinIs ==
  ASSUME NEW T \in SUBSET Nat, NEW x \in T, \A y \in T : x <= y
  PROVE  Min(T) = x
<1> DEFINE y == Min(T)
<1>1. y \in T /\ y <= x
  BY MinIsLeast
<1> HIDE DEF y
<1>2. x \in Nat /\ y \in Nat /\ x <= y
  BY <1>1
<1>3. x = y
  BY <1>1, <1>2
<1> QED
  BY <1>3 DEF y

\* The Min of two integers.
LEMMA MinOfTwo ==
  ASSUME NEW x \in Nat, NEW y \in Nat
  PROVE  Min({x, y}) = IF x <= y THEN x ELSE y
<1>1. {x, y} \in SUBSET Nat
  OBVIOUS
<1>2. x <= y => Min({x, y}) = x
  BY <1>1, MinIs
<1>3. ~ (x <= y) => Min({x, y}) = y
  BY <1>1, MinIs
<1> QED
  BY <1>2, <1>3

\* A sequence that begins with the elements of another has it as a prefix.
LEMMA PrefixIs ==
  ASSUME NEW s \in Seq(Nat), NEW b \in Seq(Nat), Len(b) <= Len(s),
         \A i \in 1 .. Len(b) : s[i] = b[i]
  PROVE  SubSeq(s, 1, Len(b)) = b
<1> DEFINE t == SubSeq(s, 1, Len(b))
<1>1. t \in Seq(Nat) /\ Len(t) = Len(b) /\ \A i \in 1 .. Len(b) : t[i] = s[i]
  OBVIOUS
<1> HIDE DEF t
<1>2. t = b
  BY <1>1, SeqEqual
<1> QED
  BY <1>2 DEF t

-----------------------------------------------------------------------------
(* Alignments: offsets never run backwards and never cross *)

AlignmentSet == [back : Seq(Nat), fwd : Seq(Nat), op : Ops, run : Nat]

\* Offsets never run backwards in either direction, and none lies beyond the end
\* of the other text.
Runs(al) ==
  /\ \A i, j \in 1 .. MaxAprime(al) : i <= j => al.back[i] <= al.back[j]
  /\ \A i, j \in 1 .. MaxA(al) : i <= j => al.fwd[i] <= al.fwd[j]
  /\ \A i \in 1 .. MaxAprime(al) : al.back[i] <= MaxA(al)
  /\ \A i \in 1 .. MaxA(al) : al.fwd[i] <= MaxAprime(al)

Crosses(al) ==
  \E i \in 1 .. MaxAprime(al), j \in 1 .. MaxA(al) :
    j - 1 < al.back[i] /\ i - 1 < al.fwd[j]

Foldable(al) ==
  /\ al.op = "delete" /\ al.run = 1 =>
       MaxA(al) > 0 /\ \A i \in 1 .. MaxAprime(al) : al.back[i] < MaxA(al)
  /\ al.op = "insert" /\ al.run = 1 =>
       MaxAprime(al) > 0 /\ \A i \in 1 .. MaxA(al) : al.fwd[i] < MaxAprime(al)

Tidy(al) == Runs(al) /\ ~ Crosses(al) /\ Foldable(al)

\* The alignments whose offsets never run backwards and never cross.
TidyAlignments == {al \in AlignmentSet : Tidy(al)}

\* What the operations make of an alignment, byte by byte.
LEMMA CopyBytesAt ==
  ASSUME NEW al \in AlignmentSet, NEW n \in Nat
  PROVE  LET c == CopyBytes(al, n) IN
         /\ c \in AlignmentSet /\ c.op = "copy" /\ c.run = RunAfter(al, "copy", n)
         /\ MaxA(c) = MaxA(al) + n /\ MaxAprime(c) = MaxAprime(al) + n
         /\ \A i \in 1 .. MaxAprime(c) : c.back[i] =
              IF i <= MaxAprime(al) THEN al.back[i] ELSE MaxA(al) + i - MaxAprime(al) - 1
         /\ \A i \in 1 .. MaxA(c) : c.fwd[i] =
              IF i <= MaxA(al) THEN al.fwd[i] ELSE MaxAprime(al) + i - MaxA(al) - 1
BY DEF CopyBytes, AlignmentSet, MaxA, MaxAprime, RunAfter, Ops

\* Bytes inserted that are not folded are one byte of A, the next.
LEMMA InsertBytesAt ==
  ASSUME NEW al \in AlignmentSet, NEW n \in Nat \ {0}, ~ Replaces(al, n, "delete")
  PROVE  LET c == InsertBytes(al, n) IN
         /\ c \in AlignmentSet /\ c.op = "insert" /\ c.run = RunAfter(al, "insert", n)
         /\ c.fwd = al.fwd /\ MaxAprime(c) = MaxAprime(al) + n
         /\ \A i \in 1 .. MaxAprime(c) : c.back[i] =
              IF i <= MaxAprime(al) THEN al.back[i] ELSE MaxA(al)
<1> DEFINE c == InsertBytes(al, n)
           s == al.back \o [i \in 1 .. n |-> MaxA(al)]
<1>1. /\ al.back \in Seq(Nat) /\ al.fwd \in Seq(Nat)
      /\ RunAfter(al, "insert", n) \in Nat
  BY DEF AlignmentSet, RunAfter
<1>2. /\ s \in Seq(Nat) /\ Len(s) = Len(al.back) + n
      /\ \A i \in 1 .. Len(s) :
           s[i] = IF i <= Len(al.back) THEN al.back[i] ELSE MaxA(al)
  BY <1>1 DEF MaxA
<1>3. c = [al EXCEPT !.back = s, !.op = "insert", !.run = RunAfter(al, "insert", n)]
  BY DEF InsertBytes
<1> HIDE DEF c, s
<1>4. /\ c \in AlignmentSet /\ c.back = s /\ c.fwd = al.fwd
      /\ c.op = "insert" /\ c.run = RunAfter(al, "insert", n)
  BY <1>1, <1>2, <1>3 DEF AlignmentSet, Ops
<1> QED
  BY <1>2, <1>4 DEF MaxA, MaxAprime, c

\* A byte inserted for one deleted maps back to it.
LEMMA FoldInsertAt ==
  ASSUME NEW al \in AlignmentSet, Replaces(al, 1, "delete"), MaxA(al) > 0
  PROVE  LET c == InsertBytes(al, 1) IN
         /\ c \in AlignmentSet /\ c.op = "copy" /\ c.run = 1
         /\ c.fwd = al.fwd /\ MaxAprime(c) = MaxAprime(al) + 1
         /\ \A i \in 1 .. MaxAprime(c) : c.back[i] =
              IF i <= MaxAprime(al) THEN al.back[i] ELSE MaxA(al) - 1
<1> DEFINE c == InsertBytes(al, 1)
           s == Append(al.back, MaxA(al) - 1)
<1>1. /\ al.back \in Seq(Nat) /\ al.fwd \in Seq(Nat) /\ MaxA(al) - 1 \in Nat
      /\ al.run = 1
  BY DEF AlignmentSet, Replaces, MaxA, MaxAprime
<1>2. /\ s \in Seq(Nat) /\ Len(s) = Len(al.back) + 1
      /\ \A i \in 1 .. Len(s) :
           s[i] = IF i <= Len(al.back) THEN al.back[i] ELSE MaxA(al) - 1
  BY <1>1
<1>3. c = [al EXCEPT !.back = s, !.op = "copy"]
  BY DEF InsertBytes
<1> HIDE DEF c, s
<1>4. /\ c \in AlignmentSet /\ c.back = s /\ c.fwd = al.fwd
      /\ c.op = "copy" /\ c.run = 1
  BY <1>1, <1>2, <1>3 DEF AlignmentSet, Ops
<1> QED
  BY <1>2, <1>4 DEF MaxA, MaxAprime, c

\* Bytes deleted that are not folded are one byte of A', the next.
LEMMA DeleteBytesAt ==
  ASSUME NEW al \in AlignmentSet, NEW n \in Nat \ {0}, ~ Replaces(al, n, "insert")
  PROVE  LET c == DeleteBytes(al, n) IN
         /\ c \in AlignmentSet /\ c.op = "delete" /\ c.run = RunAfter(al, "delete", n)
         /\ c.back = al.back /\ MaxA(c) = MaxA(al) + n
         /\ \A i \in 1 .. MaxA(c) : c.fwd[i] =
              IF i <= MaxA(al) THEN al.fwd[i] ELSE MaxAprime(al)
<1> DEFINE c == DeleteBytes(al, n)
           s == al.fwd \o [i \in 1 .. n |-> MaxAprime(al)]
<1>1. /\ al.back \in Seq(Nat) /\ al.fwd \in Seq(Nat)
      /\ RunAfter(al, "delete", n) \in Nat
  BY DEF AlignmentSet, RunAfter
<1>2. /\ s \in Seq(Nat) /\ Len(s) = Len(al.fwd) + n
      /\ \A i \in 1 .. Len(s) :
           s[i] = IF i <= Len(al.fwd) THEN al.fwd[i] ELSE MaxAprime(al)
  BY <1>1 DEF MaxAprime
<1>3. c = [al EXCEPT !.fwd = s, !.op = "delete", !.run = RunAfter(al, "delete", n)]
  BY DEF DeleteBytes
<1> HIDE DEF c, s
<1>4. /\ c \in AlignmentSet /\ c.fwd = s /\ c.back = al.back
      /\ c.op = "delete" /\ c.run = RunAfter(al, "delete", n)
  BY <1>1, <1>2, <1>3 DEF AlignmentSet, Ops
<1> QED
  BY <1>2, <1>4 DEF MaxA, MaxAprime, c

\* A byte deleted behind one inserted maps forward to it.
LEMMA FoldDeleteAt ==
  ASSUME NEW al \in AlignmentSet, Replaces(al, 1, "insert"), MaxAprime(al) > 0
  PROVE  LET c == DeleteBytes(al, 1) IN
         /\ c \in AlignmentSet /\ c.op = "copy" /\ c.run = 1
         /\ c.back = al.back /\ MaxA(c) = MaxA(al) + 1
         /\ \A i \in 1 .. MaxA(c) : c.fwd[i] =
              IF i <= MaxA(al) THEN al.fwd[i] ELSE MaxAprime(al) - 1
<1> DEFINE c == DeleteBytes(al, 1)
           s == Append(al.fwd, MaxAprime(al) - 1)
<1>1. /\ al.back \in Seq(Nat) /\ al.fwd \in Seq(Nat) /\ MaxAprime(al) - 1 \in Nat
      /\ al.run = 1
  BY DEF AlignmentSet, Replaces, MaxA, MaxAprime
<1>2. /\ s \in Seq(Nat) /\ Len(s) = Len(al.fwd) + 1
      /\ \A i \in 1 .. Len(s) :
           s[i] = IF i <= Len(al.fwd) THEN al.fwd[i] ELSE MaxAprime(al) - 1
  BY <1>1
<1>3. c = [al EXCEPT !.fwd = s, !.op = "copy"]
  BY DEF DeleteBytes
<1> HIDE DEF c, s
<1>4. /\ c \in AlignmentSet /\ c.fwd = s /\ c.back = al.back
      /\ c.op = "copy" /\ c.run = 1
  BY <1>1, <1>2, <1>3 DEF AlignmentSet, Ops
<1> QED
  BY <1>2, <1>4 DEF MaxA, MaxAprime, c

\* Copied bytes lie behind all others in both texts.
LEMMA CopyKeepsTidy ==
  ASSUME NEW al \in AlignmentSet, Tidy(al), NEW n \in Nat
  PROVE  Tidy(CopyBytes(al, n))
<1> DEFINE c == CopyBytes(al, n)
<1>1. /\ MaxA(al) \in Nat /\ MaxAprime(al) \in Nat
      /\ \A i \in 1 .. MaxAprime(al) : al.back[i] \in Nat
      /\ \A i \in 1 .. MaxA(al) : al.fwd[i] \in Nat
  BY DEF AlignmentSet, MaxA, MaxAprime
<1>2. /\ c.op = "copy"
      /\ MaxA(c) = MaxA(al) + n /\ MaxAprime(c) = MaxAprime(al) + n
      /\ \A i \in 1 .. MaxAprime(c) : c.back[i] =
           IF i <= MaxAprime(al) THEN al.back[i] ELSE MaxA(al) + i - MaxAprime(al) - 1
      /\ \A i \in 1 .. MaxA(c) : c.fwd[i] =
           IF i <= MaxA(al) THEN al.fwd[i] ELSE MaxAprime(al) + i - MaxA(al) - 1
  BY CopyBytesAt
<1> HIDE DEF c
<1>3. Runs(c)
  BY <1>1, <1>2 DEF Tidy, Runs
<1>4. ~ Crosses(c)
  BY <1>1, <1>2 DEF Tidy, Runs, Crosses
<1> QED
  BY <1>2, <1>3, <1>4 DEF Tidy, Foldable, c

\* Inserted bytes map back to the end of A, or to its last byte, which was
\* deleted and which no other byte of A' maps back to or beyond.
LEMMA InsertKeepsTidy ==
  ASSUME NEW al \in AlignmentSet, Tidy(al), NEW n \in Nat \ {0}
  PROVE  InsertBytes(al, n) \in AlignmentSet /\ Tidy(InsertBytes(al, n))
<1> DEFINE c == InsertBytes(al, n)
           to == IF Replaces(al, n, "delete") THEN MaxA(al) - 1 ELSE MaxA(al)
<1>1. /\ MaxA(al) \in Nat /\ MaxAprime(al) \in Nat /\ al.run \in Nat
      /\ \A i \in 1 .. MaxAprime(al) : al.back[i] \in Nat
      /\ \A i \in 1 .. MaxA(al) : al.fwd[i] \in Nat
  BY DEF AlignmentSet, MaxA, MaxAprime
<1>2. Replaces(al, n, "delete") => n = 1 /\ MaxA(al) > 0
  BY DEF Replaces, Tidy, Foldable
<1>3. /\ c \in AlignmentSet /\ c.fwd = al.fwd /\ MaxAprime(c) = MaxAprime(al) + n
      /\ \A i \in 1 .. MaxAprime(c) : c.back[i] =
           IF i <= MaxAprime(al) THEN al.back[i] ELSE to
  BY <1>2, InsertBytesAt, FoldInsertAt
<1>4. MaxA(c) = MaxA(al)
  BY <1>3 DEF MaxA
<1>5. c.op # "delete" /\ (c.op = "insert" /\ c.run = 1 => n = 1)
  BY <1>1, <1>2, InsertBytesAt, FoldInsertAt DEF RunAfter
<1>6. \A i \in 1 .. MaxAprime(al) : al.back[i] <= to
  BY <1>1, <1>2 DEF Tidy, Runs, Foldable, Replaces
<1>7. to <= MaxA(al) /\ to \in Nat
  BY <1>1, <1>2
<1> HIDE DEF c, to
<1>8. Runs(c)
  BY <1>1, <1>3, <1>4, <1>6, <1>7 DEF Tidy, Runs
<1>9. ~ Crosses(c)
  BY <1>1, <1>3, <1>4, <1>7 DEF Tidy, Runs, Crosses
<1>10. Foldable(c)
  BY <1>1, <1>3, <1>4, <1>5 DEF Tidy, Runs, Foldable
<1> QED
  BY <1>3, <1>8, <1>9, <1>10 DEF Tidy, c

\* The same for deleted bytes, with the texts exchanged.
LEMMA DeleteKeepsTidy ==
  ASSUME NEW al \in AlignmentSet, Tidy(al), NEW n \in Nat \ {0}
  PROVE  DeleteBytes(al, n) \in AlignmentSet /\ Tidy(DeleteBytes(al, n))
<1> DEFINE c == DeleteBytes(al, n)
           to == IF Replaces(al, n, "insert") THEN MaxAprime(al) - 1 ELSE MaxAprime(al)
<1>1. /\ MaxA(al) \in Nat /\ MaxAprime(al) \in Nat /\ al.run \in Nat
      /\ \A i \in 1 .. MaxAprime(al) : al.back[i] \in Nat
      /\ \A i \in 1 .. MaxA(al) : al.fwd[i] \in Nat
  BY DEF AlignmentSet, MaxA, MaxAprime
<1>2. Replaces(al, n, "insert") => n = 1 /\ MaxAprime(al) > 0
  BY DEF Replaces, Tidy, Foldable
<1>3. /\ c \in AlignmentSet /\ c.back = al.back /\ MaxA(c) = MaxA(al) + n
      /\ \A i \in 1 .. MaxA(c) : c.fwd[i] =
           IF i <= MaxA(al) THEN al.fwd[i] ELSE to
  BY <1>2, DeleteBytesAt, FoldDeleteAt
<1>4. MaxAprime(c) = MaxAprime(al)
  BY <1>3 DEF MaxAprime
<1>5. c.op # "insert" /\ (c.op = "delete" /\ c.run = 1 => n = 1)
  BY <1>1, <1>2, DeleteBytesAt, FoldDeleteAt DEF RunAfter
<1>6. \A i \in 1 .. MaxA(al) : al.fwd[i] <= to
  BY <1>1, <1>2 DEF Tidy, Runs, Foldable, Replaces
<1>7. to <= MaxAprime(al) /\ to \in Nat
  BY <1>1, <1>2
<1> HIDE DEF c, to
<1>8. Runs(c)
  BY <1>1, <1>3, <1>4, <1>6, <1>7 DEF Tidy, Runs
<1>9. ~ Crosses(c)
  BY <1>1, <1>3, <1>4, <1>7 DEF Tidy, Runs, Crosses
<1>10. Foldable(c)
  BY <1>1, <1>3, <1>4, <1>5 DEF Tidy, Runs, Foldable
<1> QED
  BY <1>3, <1>8, <1>9, <1>10 DEF Tidy, c

\* An empty alignment is tidy.
LEMMA EmptyIsTidy == EmptyAlignment \in AlignmentSet /\ Tidy(EmptyAlignment)
BY DEF EmptyAlignment, AlignmentSet, Ops, Tidy, Runs, Crosses, Foldable, MaxA, MaxAprime

\* Ending the last run does not change what is aligned.
LEMMA ClosedIsTidy ==
  ASSUME NEW al \in AlignmentSet, Tidy(al)
  PROVE  Closed(al) \in AlignmentSet /\ Tidy(Closed(al))
<1>1. /\ Closed(al) \in AlignmentSet
      /\ Closed(al).back = al.back /\ Closed(al).fwd = al.fwd /\ Closed(al).op = "copy"
  BY DEF Closed, AlignmentSet, Ops
<1> QED
  BY <1>1 DEF Tidy, Runs, Crosses, Foldable, MaxA, MaxAprime

\* The parts of a tidy alignment have their types.
LEMMA AlignmentTyped ==
  ASSUME NEW al \in TidyAlignments
  PROVE  /\ al \in AlignmentSet /\ Tidy(al) /\ al.op \in Ops
         /\ MaxA(al) \in Nat /\ MaxAprime(al) \in Nat
         /\ al.back \in Seq(Nat) /\ al.fwd \in Seq(Nat)
BY DEF TidyAlignments, AlignmentSet, MaxA, MaxAprime

\* The operations keep an alignment tidy.
LEMMA OperationsKeepTidy ==
  ASSUME NEW al \in TidyAlignments, NEW n \in Nat
  PROVE  /\ AlignCopy(al, n) \in TidyAlignments
         /\ AlignInsert(al, n) \in TidyAlignments
         /\ AlignDelete(al, n) \in TidyAlignments
<1>1. al \in AlignmentSet /\ Tidy(al)
  BY DEF TidyAlignments
<1>2. CopyBytes(al, n) \in TidyAlignments
  BY <1>1, CopyBytesAt, CopyKeepsTidy DEF TidyAlignments
<1>3. n # 0 => /\ InsertBytes(al, n) \in TidyAlignments
               /\ DeleteBytes(al, n) \in TidyAlignments
  BY <1>1, InsertKeepsTidy, DeleteKeepsTidy DEF TidyAlignments
<1> QED
  BY <1>2, <1>3 DEF AlignCopy, AlignInsert, AlignDelete

\* Two copies, one behind the other, are one.
LEMMA CopyTwice ==
  ASSUME NEW al \in TidyAlignments, NEW n \in Nat, NEW k \in Nat
  PROVE  AlignCopy(AlignCopy(al, n), k) = AlignCopy(al, n + k)
<1>1. CASE n = 0 \/ k = 0
  BY <1>1 DEF AlignCopy
<1>2. CASE n # 0 /\ k # 0
  <2> DEFINE one == CopyBytes(al, n)
             two == CopyBytes(one, k)
             all == CopyBytes(al, n + k)
  <2>1. al \in AlignmentSet /\ n + k \in Nat /\ n + k # 0
    BY <1>2 DEF TidyAlignments
  <2>2. /\ one \in AlignmentSet /\ one.op = "copy" /\ one.run = RunAfter(al, "copy", n)
        /\ MaxA(one) = MaxA(al) + n /\ MaxAprime(one) = MaxAprime(al) + n
        /\ \A i \in 1 .. MaxAprime(one) : one.back[i] =
             IF i <= MaxAprime(al) THEN al.back[i] ELSE MaxA(al) + i - MaxAprime(al) - 1
        /\ \A i \in 1 .. MaxA(one) : one.fwd[i] =
             IF i <= MaxA(al) THEN al.fwd[i] ELSE MaxAprime(al) + i - MaxA(al) - 1
    BY <2>1, CopyBytesAt
  <2>3. /\ all \in AlignmentSet /\ all.op = "copy" /\ all.run = RunAfter(al, "copy", n + k)
        /\ MaxA(all) = MaxA(al) + (n + k) /\ MaxAprime(all) = MaxAprime(al) + (n + k)
        /\ \A i \in 1 .. MaxAprime(all) : all.back[i] =
             IF i <= MaxAprime(al) THEN al.back[i] ELSE MaxA(al) + i - MaxAprime(al) - 1
        /\ \A i \in 1 .. MaxA(all) : all.fwd[i] =
             IF i <= MaxA(al) THEN al.fwd[i] ELSE MaxAprime(al) + i - MaxA(al) - 1
    BY <2>1, CopyBytesAt
  <2> HIDE DEF one, all
  <2>4. /\ two \in AlignmentSet /\ two.op = "copy" /\ two.run = RunAfter(one, "copy", k)
        /\ MaxA(two) = MaxA(one) + k /\ MaxAprime(two) = MaxAprime(one) + k
        /\ \A i \in 1 .. MaxAprime(two) : two.back[i] =
             IF i <= MaxAprime(one) THEN one.back[i] ELSE MaxA(one) + i - MaxAprime(one) - 1
        /\ \A i \in 1 .. MaxA(two) : two.fwd[i] =
             IF i <= MaxA(one) THEN one.fwd[i] ELSE MaxAprime(one) + i - MaxA(one) - 1
    BY <2>2, CopyBytesAt
  <2> HIDE DEF two
  <2>5. MaxA(al) \in Nat /\ MaxAprime(al) \in Nat /\ al.run \in Nat
    BY <2>1 DEF AlignmentSet, MaxA, MaxAprime
  <2>6. two.run = all.run
    BY <2>2, <2>3, <2>4, <2>5 DEF RunAfter
  <2>7. MaxA(two) = MaxA(all) /\ MaxAprime(two) = MaxAprime(all)
    BY <2>2, <2>3, <2>4, <2>5
  <2>8. \A i \in 1 .. MaxAprime(two) : two.back[i] = all.back[i]
    BY <2>2, <2>3, <2>4, <2>5
  <2>9. \A i \in 1 .. MaxA(two) : two.fwd[i] = all.fwd[i]
    BY <2>2, <2>3, <2>4, <2>5
  <2>10. two.back = all.back /\ two.fwd = all.fwd
    <3>1. /\ two.back \in Seq(Nat) /\ all.back \in Seq(Nat)
          /\ two.fwd \in Seq(Nat) /\ all.fwd \in Seq(Nat)
      BY <2>3, <2>4 DEF AlignmentSet
    <3> QED
      BY <2>7, <2>8, <2>9, <3>1, SeqEqual DEF MaxA, MaxAprime
  <2>11. two = all
    <3>1. /\ two \in AlignmentSet /\ all \in AlignmentSet
          /\ two.back = all.back /\ two.fwd = all.fwd
          /\ two.op = all.op /\ two.run = all.run
      BY <2>3, <2>4, <2>6, <2>10
    <3> QED
      BY <3>1 DEF AlignmentSet
  <2> QED
    BY <1>2, <2>1, <2>11 DEF AlignCopy, one, two, all
<1> QED
  BY <1>1, <1>2

-----------------------------------------------------------------------------
(* Sums: the order in which the library adds up makes no difference *)

AnyOf(s) == CHOOSE x \in s : TRUE

\* The sums of a function over the parts of a set, as they are added up.
AddsUp(g, f, S) ==
  \A s \in SUBSET S : g[s] = IF s = {} THEN 0 ELSE f[AnyOf(s)] + g[s \ {AnyOf(s)}]

\* What is left of a finite set when one element is taken out.
LEMMA OneLess ==
  ASSUME NEW s, IsFiniteSet(s), NEW x \in s
  PROVE  /\ IsFiniteSet(s \ {x}) /\ Cardinality(s) \in Nat /\ Cardinality(s \ {x}) \in Nat
         /\ Cardinality(s) = Cardinality(s \ {x}) + 1
<1> DEFINE c == Cardinality(s)
           d == Cardinality(s \ {x})
<1>1. IsFiniteSet(s \ {x}) /\ d = c - 1
  BY FS_RemoveElement
<1>2. c \in Nat /\ d \in Nat
  BY <1>1, FS_CardinalityType
<1> HIDE DEF c, d
<1>3. c = d + 1
  BY <1>1, <1>2
<1> QED
  BY <1>1, <1>2, <1>3 DEF c, d

\* The same, with the number that is left.
LEMMA OneLessIs ==
  ASSUME NEW s, IsFiniteSet(s), NEW x \in s, NEW n \in Nat, Cardinality(s) = n + 1
  PROVE  Cardinality(s \ {x}) = n
<1> DEFINE c == Cardinality(s)
           d == Cardinality(s \ {x})
<1>1. c \in Nat /\ d \in Nat /\ c = d + 1 /\ c = n + 1
  BY OneLess
<1> HIDE DEF c, d
<1>2. d = n
  BY <1>1
<1> QED
  BY <1>2 DEF d

\* An element chosen is one of the set.
LEMMA AnyOfIsElement ==
  ASSUME NEW s, s # {}
  PROVE  AnyOf(s) \in s
BY DEF AnyOf

\* The sums over all parts exist.
LEMMA SumsExist ==
  ASSUME NEW f, NEW S, IsFiniteSet(S), \A x \in S : f[x] \in Nat
  PROVE  \E g : AddsUp(g, f, S) /\ g \in [SUBSET S -> Nat]
<1> DEFINE P(n) == {s \in SUBSET S : Cardinality(s) <= n}
           Good(g, n) ==
             /\ g \in [P(n) -> Nat]
             /\ \A s \in P(n) :
                  g[s] = IF s = {} THEN 0 ELSE f[AnyOf(s)] + g[s \ {AnyOf(s)}]
           I == {n \in Nat : \E g : Good(g, n)}
<1>1. \A s \in SUBSET S : IsFiniteSet(s) /\ Cardinality(s) \in Nat
  BY FS_Subset, FS_CardinalityType
<1>2. \A s \in SUBSET S : s # {} => /\ AnyOf(s) \in s /\ f[AnyOf(s)] \in Nat
                                    /\ s \ {AnyOf(s)} \in SUBSET S
                                    /\ Cardinality(s) = Cardinality(s \ {AnyOf(s)}) + 1
  BY <1>1, AnyOfIsElement, OneLess
<1>3. 0 \in I
  <2>1. \A s \in P(0) : s = {}
    BY <1>1, FS_EmptySet
  <2>2. Good([s \in P(0) |-> 0], 0)
    BY <2>1
  <2> QED
    BY <2>2
<1>4. ASSUME NEW n \in Nat, n \in I PROVE n + 1 \in I
  <2>1. PICK g : Good(g, n)
    BY <1>4
  <2> DEFINE d == [s \in P(n + 1) |-> IF s = {} THEN 0 ELSE f[AnyOf(s)] + g[s \ {AnyOf(s)}]]
  <2>2. ASSUME NEW s \in P(n + 1), s # {}
        PROVE  s \ {AnyOf(s)} \in P(n) /\ s \ {AnyOf(s)} \in P(n + 1) /\ f[AnyOf(s)] \in Nat
    <3> DEFINE c == Cardinality(s)
               e == Cardinality(s \ {AnyOf(s)})
    <3>1. c \in Nat /\ e \in Nat /\ c = e + 1 /\ c <= n + 1
          /\ s \ {AnyOf(s)} \in SUBSET S /\ f[AnyOf(s)] \in Nat
      BY <1>1, <1>2, <2>2
    <3> HIDE DEF c, e
    <3>2. e <= n /\ e <= n + 1
      BY <3>1
    <3> QED
      BY <3>1, <3>2 DEF e
  <2>3. \A s \in P(n) : s \in P(n + 1)
    BY <1>1
  <2>4. \A s \in P(n) : d[s] = g[s]
    BY <2>1, <2>3
  <2>5. \A s \in P(n + 1) : s # {} => g[s \ {AnyOf(s)}] \in Nat
    BY <2>1, <2>2
  <2>6. d \in [P(n + 1) -> Nat]
    <3>1. \A s \in P(n + 1) : d[s] \in Nat
      BY <2>2, <2>5
    <3> QED
      BY <3>1
  <2>7. \A s \in P(n + 1) :
          d[s] = IF s = {} THEN 0 ELSE f[AnyOf(s)] + d[s \ {AnyOf(s)}]
    BY <2>2, <2>4
  <2>8. Good(d, n + 1)
    BY <2>6, <2>7
  <2> HIDE DEF Good
  <2> QED
    BY <2>8
<1>5. Cardinality(S) \in I
  <2> HIDE DEF I
  <2>1. \A n \in Nat : n \in I
    BY <1>3, <1>4, NatsByInduction
  <2> QED
    BY <1>1, <2>1
<1>6. PICK g : Good(g, Cardinality(S))
  BY <1>5
<1>7. P(Cardinality(S)) = SUBSET S
  <2>1. \A s \in SUBSET S : Cardinality(s) <= Cardinality(S)
    BY FS_Subset
  <2> QED
    BY <2>1
<1> QED
  BY <1>6, <1>7 DEF AddsUp

\* A sum is what such a function gives for the whole set.
LEMMA SumUnfolds ==
  ASSUME NEW f, NEW S, IsFiniteSet(S), \A x \in S : f[x] \in Nat
  PROVE  \E g : /\ AddsUp(g, f, S) /\ \A s \in SUBSET S : g[s] \in Nat
                /\ SumFunctionOnSet(f, S) = g[S]
<1> DEFINE h[s \in SUBSET S] == IF s = {} THEN 0 ELSE f[AnyOf(s)] + h[s \ {AnyOf(s)}]
           Rec(g) == g = [s \in SUBSET S |-> IF s = {} THEN 0 ELSE f[AnyOf(s)] + g[s \ {AnyOf(s)}]]
<1>1. SumFunctionOnSet(f, S) = h[S]
  BY DEF SumFunctionOnSet, FoldFunctionOnSet, MapThenFoldSet, AnyOf
<1>2. PICK g : AddsUp(g, f, S) /\ g \in [SUBSET S -> Nat]
  BY SumsExist
<1>3. Rec(g)
  BY <1>2 DEF AddsUp
<1>4. Rec(h)
  BY <1>3
<1> HIDE DEF h
<1>5. AddsUp(h, f, S)
  BY <1>4 DEF AddsUp
<1>6. h = g
  <2> DEFINE I == {n \in Nat : \A s \in SUBSET S : Cardinality(s) = n => h[s] = g[s]}
  <2>1. 0 \in I
    <3>1. \A s \in SUBSET S : Cardinality(s) = 0 => s = {}
      BY FS_Subset, FS_EmptySet
    <3> QED
      BY <1>2, <1>5, <3>1 DEF AddsUp
  <2>2. ASSUME NEW n \in Nat, n \in I PROVE n + 1 \in I
    <3>1. ASSUME NEW s \in SUBSET S, Cardinality(s) = n + 1 PROVE h[s] = g[s]
      <4>1. s # {} /\ IsFiniteSet(s)
        BY <3>1, FS_Subset, FS_EmptySet
      <4>2. AnyOf(s) \in s
        BY <4>1, AnyOfIsElement
      <4>3. s \ {AnyOf(s)} \in SUBSET S /\ Cardinality(s \ {AnyOf(s)}) = n
        BY <3>1, <4>1, <4>2, OneLessIs
      <4>4. h[s \ {AnyOf(s)}] = g[s \ {AnyOf(s)}]
        BY <2>2, <4>3
      <4>5. /\ h[s] = f[AnyOf(s)] + h[s \ {AnyOf(s)}]
            /\ g[s] = f[AnyOf(s)] + g[s \ {AnyOf(s)}]
        BY <1>2, <1>5, <4>1 DEF AddsUp
      <4> QED
        BY <4>4, <4>5
    <3> QED
      BY <3>1
  <2>3. \A n \in Nat : n \in I
    <3> HIDE DEF I
    <3> QED
      BY <2>1, <2>2, NatsByInduction
  <2>4. \A s \in SUBSET S : h[s] = g[s]
    BY <2>3, FS_Subset, FS_CardinalityType
  <2>5. h = [s \in SUBSET S |-> h[s]]
    BY <1>4
  <2> QED
    BY <1>2, <2>4, <2>5
<1> QED
  BY <1>1, <1>2, <1>6

\* Two ways of adding up come to the same.
LEMMA SumsAgree ==
  ASSUME NEW f, NEW S, NEW g, NEW k, NEW T, NEW h, AddsUp(g, f, S), AddsUp(h, k, T),
         NEW U, IsFiniteSet(U), U \subseteq S, U \subseteq T, \A x \in U : f[x] = k[x]
  PROVE  g[U] = h[U]
<1> DEFINE I == {n \in Nat : \A s \in SUBSET U : Cardinality(s) = n => g[s] = h[s]}
<1>1. \A s \in SUBSET U : IsFiniteSet(s) /\ Cardinality(s) \in Nat
  BY FS_Subset, FS_CardinalityType
<1>2. 0 \in I
  <2>1. \A s \in SUBSET U : Cardinality(s) = 0 => s = {}
    BY <1>1, FS_EmptySet
  <2> QED
    BY <2>1 DEF AddsUp
<1>3. ASSUME NEW n \in Nat, n \in I PROVE n + 1 \in I
  <2>1. ASSUME NEW s \in SUBSET U, Cardinality(s) = n + 1 PROVE g[s] = h[s]
    <3>1. s # {} /\ IsFiniteSet(s)
      BY <1>1, <2>1, FS_EmptySet
    <3>2. AnyOf(s) \in s
      BY <3>1, AnyOfIsElement
    <3>3. s \ {AnyOf(s)} \in SUBSET U /\ Cardinality(s \ {AnyOf(s)}) = n
      BY <2>1, <3>1, <3>2, OneLessIs
    <3>4. g[s \ {AnyOf(s)}] = h[s \ {AnyOf(s)}] /\ f[AnyOf(s)] = k[AnyOf(s)]
      BY <1>3, <3>2, <3>3
    <3> QED
      BY <3>1, <3>4 DEF AddsUp
  <2> QED
    BY <2>1
<1>4. Cardinality(U) \in I
  <2>1. \A n \in Nat : n \in I
    <3> HIDE DEF I
    <3> QED
      BY <1>2, <1>3, NatsByInduction
  <2> QED
    BY <1>1, <2>1
<1> QED
  BY <1>4

\* Any element may be added last.
LEMMA AnyIsLast ==
  ASSUME NEW f, NEW S, IsFiniteSet(S), NEW g, AddsUp(g, f, S),
         \A x \in S : f[x] \in Nat, \A s \in SUBSET S : g[s] \in Nat, NEW y \in S
  PROVE  g[S] = g[S \ {y}] + f[y]
<1> DEFINE I == {n \in Nat : \A s \in SUBSET S : Cardinality(s) = n =>
                    \A x \in s : g[s] = g[s \ {x}] + f[x]}
<1>1. \A s \in SUBSET S : IsFiniteSet(s) /\ Cardinality(s) \in Nat
  BY FS_Subset, FS_CardinalityType
<1>2. 0 \in I
  <2>1. \A s \in SUBSET S : Cardinality(s) = 0 => s = {}
    BY <1>1, FS_EmptySet
  <2> QED
    BY <2>1
<1>3. ASSUME NEW n \in Nat, n \in I PROVE n + 1 \in I
  <2>1. ASSUME NEW s \in SUBSET S, Cardinality(s) = n + 1, NEW x \in s
        PROVE  g[s] = g[s \ {x}] + f[x]
    <3> DEFINE z == AnyOf(s)
               r == s \ {x, z}
    <3>1. z \in s /\ s # {} /\ IsFiniteSet(s)
      BY <1>1, <2>1, AnyOfIsElement
    <3>2. g[s] = f[z] + g[s \ {z}]
      BY <3>1 DEF AddsUp
    <3> HIDE DEF z
    <3>3. CASE z = x
      BY <3>1, <3>2, <3>3
    <3>4. CASE z # x
      <4>1. s \ {z} \in SUBSET S /\ Cardinality(s \ {z}) = n /\ x \in s \ {z}
        BY <2>1, <3>1, <3>4, OneLessIs
      <4>2. s \ {x} \in SUBSET S /\ Cardinality(s \ {x}) = n /\ z \in s \ {x}
        BY <2>1, <3>1, <3>4, OneLessIs
      <4>3. (s \ {z}) \ {x} = r /\ (s \ {x}) \ {z} = r /\ r \in SUBSET S
        OBVIOUS
      <4> DEFINE sz == s \ {z}
                 sx == s \ {x}
      <4>4. g[sz] = g[r] + f[x]
        <5>1. sz \in SUBSET S /\ Cardinality(sz) = n /\ x \in sz /\ sz \ {x} = r
          BY <4>1, <4>3
        <5> HIDE DEF sz, r
        <5> QED
          BY <1>3, <5>1
      <4>5. g[sx] = g[r] + f[z]
        <5>1. sx \in SUBSET S /\ Cardinality(sx) = n /\ z \in sx /\ sx \ {z} = r
          BY <4>2, <4>3
        <5> HIDE DEF sx, r
        <5> QED
          BY <1>3, <5>1
      <4> DEFINE p == g[r]
                 a == f[x]
                 b == f[z]
      <4>6. p \in Nat /\ a \in Nat /\ b \in Nat
        BY <3>1, <4>3
      <4>7. g[s] = b + (p + a) /\ g[s \ {x}] = p + b
        BY <3>2, <4>4, <4>5
      <4> HIDE DEF p, a, b
      <4>8. g[s] = (p + b) + a
        BY <4>6, <4>7
      <4> QED
        BY <4>7, <4>8 DEF a
    <3> QED
      BY <3>3, <3>4
  <2> QED
    BY <2>1
<1>4. Cardinality(S) \in I
  <2>1. \A n \in Nat : n \in I
    <3> HIDE DEF I
    <3> QED
      BY <1>2, <1>3, NatsByInduction
  <2> QED
    BY <1>1, <2>1
<1> QED
  BY <1>4

\* The sum over a set with one more element.
LEMMA SumWithOneMore ==
  ASSUME NEW f, NEW S, IsFiniteSet(S), NEW y, y \notin S,
         \A x \in S \cup {y} : f[x] \in Nat
  PROVE  /\ SumFunctionOnSet(f, S \cup {y}) = SumFunctionOnSet(f, S) + f[y]
         /\ SumFunctionOnSet(f, S) \in Nat
<1> DEFINE T == S \cup {y}
<1>1. IsFiniteSet(T) /\ T \ {y} = S /\ y \in T /\ S \subseteq T
  BY FS_AddElement
<1>2. \A x \in T : f[x] \in Nat
  OBVIOUS
<1> HIDE DEF T
<1>3. PICK g : /\ AddsUp(g, f, T) /\ \A s \in SUBSET T : g[s] \in Nat
               /\ SumFunctionOnSet(f, T) = g[T]
  BY <1>1, <1>2, SumUnfolds
<1>4. PICK h : /\ AddsUp(h, f, S) /\ \A s \in SUBSET S : h[s] \in Nat
               /\ SumFunctionOnSet(f, S) = h[S]
  BY <1>1, <1>2, SumUnfolds
<1>5. g[T] = g[S] + f[y]
  <2>1. g[T] = g[T \ {y}] + f[y]
    BY <1>1, <1>2, <1>3, AnyIsLast
  <2> QED
    BY <1>1, <2>1
<1>6. g[S] = h[S]
  BY <1>1, <1>3, <1>4, SumsAgree
<1> QED
  BY <1>3, <1>4, <1>5, <1>6 DEF T

\* Sums of values that agree are the same.
LEMMA SumsOfSame ==
  ASSUME NEW f, NEW k, NEW S, IsFiniteSet(S), \A x \in S : f[x] \in Nat /\ k[x] = f[x]
  PROVE  /\ SumFunctionOnSet(f, S) = SumFunctionOnSet(k, S)
         /\ SumFunctionOnSet(f, S) \in Nat
<1>1. PICK g : /\ AddsUp(g, f, S) /\ \A s \in SUBSET S : g[s] \in Nat
               /\ SumFunctionOnSet(f, S) = g[S]
  BY SumUnfolds
<1>2. PICK h : AddsUp(h, k, S) /\ SumFunctionOnSet(k, S) = h[S]
  <2>1. \A x \in S : k[x] \in Nat
    OBVIOUS
  <2> QED
    BY <2>1, SumUnfolds
<1>3. g[S] = h[S]
  BY <1>1, <1>2, SumsAgree
<1> QED
  BY <1>1, <1>2, <1>3

\* The sum over nothing is zero.
LEMMA SumOfNothing == ASSUME NEW f PROVE SumFunctionOnSet(f, {}) = 0
<1>1. PICK g : AddsUp(g, f, {}) /\ SumFunctionOnSet(f, {}) = g[{}]
  BY FS_EmptySet, SumUnfolds
<1> QED
  BY <1>1 DEF AddsUp
-----------------------------------------------------------------------------
(* Sorting *)

\* A strict order on a set in which any two elements can be compared.
Orders(R, S) ==
  /\ \A x, y, z \in S : <<x, y>> \in R /\ <<y, z>> \in R => <<x, z>> \in R
  /\ \A x, y \in S : x = y \/ <<x, y>> \in R \/ <<y, x>> \in R

\* All elements of a set in their order.
SortedBy(r, R, S) ==
  /\ \A x \in S : \E i \in 1 .. Cardinality(S) : r[i] = x
  /\ \A i, j \in 1 .. Cardinality(S) : i < j => <<r[i], r[j]>> \in R

\* A finite set that is not empty has a last element.
LEMMA LastExists ==
  ASSUME NEW S, IsFiniteSet(S), NEW R, Orders(R, S), S # {}
  PROVE  \E m \in S : \A y \in S : y = m \/ <<y, m>> \in R
<1> DEFINE HasLast(s) == \E m \in s : \A y \in s : y = m \/ <<y, m>> \in R
           I == {n \in Nat : \A s \in SUBSET S : s # {} /\ Cardinality(s) = n => HasLast(s)}
<1>1. \A s \in SUBSET S : IsFiniteSet(s) /\ Cardinality(s) \in Nat
  BY FS_Subset, FS_CardinalityType
<1>2. 0 \in I
  <2>1. \A s \in SUBSET S : Cardinality(s) = 0 => s = {}
    BY <1>1, FS_EmptySet
  <2> QED
    BY <2>1
<1>3. ASSUME NEW n \in Nat, n \in I PROVE n + 1 \in I
  <2>1. ASSUME NEW s \in SUBSET S, s # {}, Cardinality(s) = n + 1 PROVE HasLast(s)
    <3>1. PICK x : x \in s
      BY <2>1
    <3> DEFINE t == s \ {x}
    <3>2. t \in SUBSET S /\ Cardinality(t) = n
      BY <1>1, <2>1, <3>1, OneLessIs
    <3>3. CASE t = {}
      BY <3>1, <3>3
    <3>4. CASE t # {}
      <4>1. PICK m \in t : \A y \in t : y = m \/ <<y, m>> \in R
        <5>1. HasLast(t)
          <6> HIDE DEF t, HasLast
          <6> QED
            BY <1>3, <3>2, <3>4
        <5> QED
          BY <5>1
      <4>2. m \in S /\ x \in S /\ m # x
        BY <3>1, <4>1
      <4>3. CASE <<x, m>> \in R
        BY <4>1, <4>3
      <4>4. CASE <<m, x>> \in R
        <5>1. \A y \in s : y = x \/ <<y, x>> \in R
          BY <4>1, <4>2, <4>4 DEF Orders
        <5> QED
          BY <3>1, <5>1
      <4> QED
        BY <4>2, <4>3, <4>4 DEF Orders
    <3> QED
      BY <3>3, <3>4
  <2> HIDE DEF HasLast
  <2> QED
    BY <2>1
<1>4. \A n \in Nat : n \in I
  <2> HIDE DEF I
  <2> QED
    BY <1>2, <1>3, NatsByInduction
<1>5. HasLast(S)
  BY <1>1, <1>4
<1> QED
  BY <1>5

\* A finite set can be sorted.
LEMMA SortedExists ==
  ASSUME NEW S, IsFiniteSet(S), NEW R, Orders(R, S)
  PROVE  \E r \in [1 .. Cardinality(S) -> S] : SortedBy(r, R, S)
<1> DEFINE Sorted(s) == \E r \in [1 .. Cardinality(s) -> s] : SortedBy(r, R, s)
           I == {n \in Nat : \A s \in SUBSET S : Cardinality(s) = n => Sorted(s)}
<1>1. \A s \in SUBSET S : IsFiniteSet(s) /\ Cardinality(s) \in Nat
  BY FS_Subset, FS_CardinalityType
<1>2. 0 \in I
  <2>1. ASSUME NEW s \in SUBSET S, Cardinality(s) = 0 PROVE Sorted(s)
    <3>1. s = {}
      BY <1>1, <2>1, FS_EmptySet
    <3> DEFINE r == [i \in 1 .. Cardinality(s) |-> i]
    <3>2. r \in [1 .. Cardinality(s) -> s] /\ SortedBy(r, R, s)
      BY <2>1, <3>1 DEF SortedBy
    <3> QED
      BY <3>2
  <2> HIDE DEF Sorted
  <2> QED
    BY <2>1
<1>3. ASSUME NEW n \in Nat, n \in I PROVE n + 1 \in I
  <2>1. ASSUME NEW s \in SUBSET S, Cardinality(s) = n + 1 PROVE Sorted(s)
    <3>1. s # {} /\ IsFiniteSet(s) /\ Orders(R, s)
      BY <1>1, <2>1, FS_EmptySet DEF Orders
    <3>2. PICK m \in s : \A y \in s : y = m \/ <<y, m>> \in R
      BY <3>1, LastExists
    <3> DEFINE t == s \ {m}
    <3>3. t \in SUBSET S /\ Cardinality(t) = n
      BY <2>1, <3>1, OneLessIs
    <3>4. Sorted(t)
      <4> HIDE DEF t, Sorted
      <4> QED
        BY <1>3, <3>3
    <3>5. PICK r \in [1 .. n -> t] :
            /\ \A x \in t : \E i \in 1 .. n : r[i] = x
            /\ \A i, j \in 1 .. n : i < j => <<r[i], r[j]>> \in R
      BY <3>3, <3>4 DEF SortedBy
    <3> DEFINE q == [i \in 1 .. n + 1 |-> IF i = n + 1 THEN m ELSE r[i]]
    <3>6. /\ q \in [1 .. n + 1 -> s] /\ q[n + 1] = m
          /\ \A i \in 1 .. n : q[i] = r[i] /\ r[i] \in t
      BY <3>5
    <3> HIDE DEF q
    <3>7. ASSUME NEW x \in s PROVE \E i \in 1 .. n + 1 : q[i] = x
      <4>1. CASE x = m
        BY <3>6, <4>1
      <4>2. CASE x # m
        <5>1. PICK i \in 1 .. n : r[i] = x
          BY <3>5, <4>2
        <5> QED
          BY <3>6, <5>1
      <4> QED
        BY <4>1, <4>2
    <3>8. ASSUME NEW i \in 1 .. n + 1, NEW j \in 1 .. n + 1, i < j
          PROVE  <<q[i], q[j]>> \in R
      <4>1. i \in 1 .. n
        BY <3>8
      <4>2. CASE j = n + 1
        <5>1. q[i] \in s /\ q[i] # m
          BY <3>6, <4>1
        <5> QED
          BY <3>2, <3>6, <4>2, <5>1
      <4>3. CASE j # n + 1
        <5>1. j \in 1 .. n
          BY <4>3
        <5> QED
          BY <3>5, <3>6, <3>8, <4>1, <5>1
      <4> QED
        BY <4>2, <4>3
    <3>9. SortedBy(q, R, s)
      BY <2>1, <3>7, <3>8 DEF SortedBy
    <3> QED
      BY <2>1, <3>6, <3>9
  <2> HIDE DEF Sorted
  <2> QED
    BY <2>1
<1>4. \A n \in Nat : n \in I
  <2> HIDE DEF I
  <2> QED
    BY <1>2, <1>3, NatsByInduction
<1>5. Sorted(S)
  BY <1>1, <1>4
<1> QED
  BY <1>5

-----------------------------------------------------------------------------
(* Sequences put together *)

\* Two functions that begin alike at 1 and whose values follow alike agree.
FollowFromOne(f, g, b) ==
  f[1] = g[1] /\ \A i \in 2 .. b : f[i-1] = g[i-1] => f[i] = g[i]

\* By induction, since the first values agree.
LEMMA AgreesFromOne ==
  ASSUME NEW b \in Int, NEW f, NEW g, FollowFromOne(f, g, b)
  PROVE  \A i \in 1 .. b : f[i] = g[i]
<1> USE DEF FollowFromOne
<1>1. ASSUME NEW a \in Int, a = 1 PROVE \A i \in a .. b : f[i] = g[i]
  <2>1. f[a] = g[a]
    BY <1>1
  <2>2. \A i \in a .. b : i # a => i \in 2 .. b
    BY <1>1
  <2>3. \A i \in a .. b : i # a /\ f[i-1] = g[i-1] => f[i] = g[i]
    BY <2>2, Zenon
  <2> HIDE DEF FollowFromOne
  <2> QED
    BY <1>1, <2>1, <2>3, RecursionAgrees, SMTT(30)
<1> QED
  BY <1>1

\* What FlattenSeq computes on its way.
LEMMA Flattened ==
  ASSUME NEW S, NEW s \in Seq(Seq(S)), s # <<>>
  PROVE  \E F : /\ FlattenSeq(s) = F[Len(s)] /\ F[1] = s[1]
                /\ \A i \in 1 .. Len(s) : F[i] \in Seq(S)
                /\ \A i \in 2 .. Len(s) : F[i] = F[i-1] \o s[i]
<1> DEFINE n == Len(s)
           V == Seq(S)
           h == [p \in V \X (1 + 1 .. n) |-> p[1] \o s[p[2]]]
           F[i \in 1 .. n] == IF i = 1 THEN s[i] ELSE F[i-1] \o s[i]
           Rec(g) == g = [i \in 1 .. n |-> IF i = 1 THEN s[i] ELSE g[i-1] \o s[i]]
<1>1. n \in Nat /\ n # 0 /\ \A i \in 1 .. n : s[i] \in V
  OBVIOUS
<1>2. FlattenSeq(s) = F[n]
  BY <1>1 DEF FlattenSeq
<1>3. h \in [V \X (1 + 1 .. n) -> V]
  <2>1. \A v \in V, i \in 1 + 1 .. n : v \o s[i] \in V
    BY <1>1
  <2> QED
    BY <2>1
<1>4. PICK g : IsRecursion(g, h, V, 1, n, s[1])
  <2> DEFINE one == 1
             c   == s[1]
  <2>1. one \in Int /\ n \in Int /\ one <= n /\ c \in V /\ IsStep(h, V, one, n)
    BY <1>1, <1>3 DEF IsStep
  <2> HIDE DEF h, one, V, n, c
  <2>2. \E g : IsRecursion(g, h, V, one, n, c)
    BY <2>1, RecursionExists
  <2> QED
    BY <2>2 DEF one, c
<1>5. g \in [1 .. n -> V] /\ g[1] = s[1] /\ \A i \in 1 + 1 .. n : g[i] = h[<<g[i-1], i>>]
  <2> HIDE DEF h, V, n
  <2> QED
    BY <1>4 DEF IsRecursion
<1>6. ASSUME NEW i \in 2 .. n PROVE g[i] = g[i-1] \o s[i]
  <2>1. i \in 1 + 1 .. n /\ i - 1 \in 1 .. n
    BY <1>1
  <2>2. g[i-1] \in V
    <3> HIDE DEF V, n, h
    <3> QED
      BY <1>5, <2>1
  <2>3. h[<<g[i-1], i>>] = g[i-1] \o s[i]
    <3> HIDE DEF V, n
    <3> QED
      BY <2>1, <2>2
  <2> HIDE DEF V, n, h
  <2> QED
    BY <1>5, <2>1, <2>3
<1>7. Rec(g)
  <2>1. ASSUME NEW i \in 1 .. n PROVE g[i] = IF i = 1 THEN s[i] ELSE g[i-1] \o s[i]
    <3>1. i # 1 => i \in 2 .. n
      BY <1>1
    <3> HIDE DEF V, n, h
    <3> QED
      BY <1>5, <1>6, <3>1
  <2>2. g = [i \in 1 .. n |-> g[i]]
    BY <1>5
  <2> QED
    BY <2>1, <2>2
<1>8. Rec(F)
  BY <1>7
<1> HIDE DEF F
<1>9. F[1] = s[1] /\ \A i \in 2 .. n : F[i] = F[i-1] \o s[i]
  <2>1. 1 \in 1 .. n /\ \A i \in 2 .. n : i \in 1 .. n /\ i # 1
    BY <1>1
  <2> QED
    BY <1>8, <2>1
<1>10. \A i \in 1 .. n : F[i] \in V
  <2>1. ASSUME NEW i \in 1 .. n, i # 1, F[i-1] \in V PROVE F[i] \in V
    <3>1. i \in 2 .. n /\ s[i] \in V
      BY <1>1, <2>1
    <3>2. F[i] = F[i-1] \o s[i]
      BY <1>9, <3>1
    <3> QED
      BY <2>1, <3>1, <3>2
  <2>2. ASSUME NEW a \in Int, a = 1 PROVE \A i \in a .. n : F[i] \in V
    <3>1. F[a] \in V /\ n \in Int
      BY <1>1, <1>9, <2>2
    <3>2. \A i \in a .. n : i # a /\ F[i-1] \in V => F[i] \in V
      BY <2>1, <2>2
    <3> HIDE DEF V, n
    <3> QED
      BY <3>1, <3>2, RecursionTyped
  <2> QED
    BY <2>2
<1> QED
  BY <1>2, <1>9, <1>10

\* One more sequence is put to the end.
LEMMA FlattenWithOneMore ==
  ASSUME NEW S, NEW s \in Seq(Seq(S)), NEW c \in Seq(S)
  PROVE  /\ FlattenSeq(s) \in Seq(S)
         /\ FlattenSeq(Append(s, c)) = FlattenSeq(s) \o c
<1> DEFINE n == Len(s)
           t == Append(s, c)
<1>1. /\ t \in Seq(Seq(S)) /\ t # <<>> /\ Len(t) = n + 1 /\ t[n + 1] = c
      /\ \A i \in 1 .. n : t[i] = s[i]
      /\ n \in Nat
  <2> DEFINE V == Seq(S)
  <2>1. s \in Seq(V) /\ c \in V
    OBVIOUS
  <2> HIDE DEF V
  <2>2. t \in Seq(V) /\ t # <<>> /\ Len(t) = n + 1 /\ n \in Nat
    BY <2>1, SMTT(30)
  <2>3. t[n + 1] = c /\ \A i \in 1 .. n : t[i] = s[i]
    BY <2>1
  <2> QED
    BY <2>2, <2>3 DEF V
<1>2. PICK G : /\ FlattenSeq(t) = G[n + 1] /\ G[1] = t[1]
               /\ \A i \in 2 .. n + 1 : G[i] = G[i-1] \o t[i]
  <2> HIDE DEF t, n
  <2>1. \E G : /\ FlattenSeq(t) = G[Len(t)] /\ G[1] = t[1]
               /\ \A i \in 1 .. Len(t) : G[i] \in Seq(S)
               /\ \A i \in 2 .. Len(t) : G[i] = G[i-1] \o t[i]
    BY <1>1, Flattened, ZenonT(30)
  <2> QED
    BY <1>1, <2>1
<1>3. CASE s = <<>>
  <2>1. FlattenSeq(s) = <<>>
    BY <1>3 DEF FlattenSeq
  <2>2. n = 0 /\ G[1] = c
    BY <1>1, <1>2, <1>3
  <2> QED
    BY <1>2, <2>1, <2>2
<1>4. CASE s # <<>>
  <2>1. PICK F : /\ FlattenSeq(s) = F[n] /\ F[1] = s[1]
                 /\ \A i \in 1 .. n : F[i] \in Seq(S)
                 /\ \A i \in 2 .. n : F[i] = F[i-1] \o s[i]
    BY <1>4, Flattened
  <2>2. n # 0
    BY <1>4
  <2> HIDE DEF t, n
  <2>3. \A i \in 1 .. n : F[i] = G[i]
    <3>1. F[1] = G[1] /\ n \in Int
      BY <1>1, <1>2, <2>1, <2>2
    <3>2. ASSUME NEW i \in 2 .. n, F[i-1] = G[i-1] PROVE F[i] = G[i]
      <4>1. i \in 2 .. n + 1 /\ i \in 1 .. n
        BY <1>1
      <4>2. F[i] = F[i-1] \o s[i] /\ G[i] = G[i-1] \o t[i] /\ t[i] = s[i]
        BY <1>1, <1>2, <2>1, <4>1
      <4> QED
        BY <3>2, <4>2
    <3>3. \A i \in 2 .. n : F[i-1] = G[i-1] => F[i] = G[i]
      BY <3>2
    <3>4. FollowFromOne(F, G, n)
      BY <3>1, <3>3 DEF FollowFromOne
    <3> QED
      BY <3>1, <3>4, AgreesFromOne
  <2>4. n \in 1 .. n /\ n + 1 \in 2 .. n + 1 /\ (n + 1) - 1 = n
    BY <1>1, <2>2
  <2>5. F[n] = G[n]
    BY <2>3, <2>4
  <2>6. G[n + 1] = G[n] \o c
    BY <1>1, <1>2, <2>4
  <2> QED
    BY <1>2, <2>1, <2>4, <2>5, <2>6 DEF t
<1> QED
  BY <1>3, <1>4

\* Nothing put together is nothing.
LEMMA FlattenNothing == FlattenSeq(<<>>) = <<>>
BY DEF FlattenSeq

-----------------------------------------------------------------------------
(* Functions defined by what comes behind *)

\* Induction downwards, from all that is behind.
LEMMA FromBehind ==
  ASSUME NEW n \in Nat, NEW S,
         \A i \in 0 .. n : (\A j \in i + 1 .. n : j \in S) => i \in S
  PROVE  \A i \in 0 .. n : i \in S
<1> DEFINE T == {k \in 0 .. n : n - k \notin S}
<1> SUFFICES ASSUME NEW x \in 0 .. n, x \notin S PROVE FALSE
  OBVIOUS
<1>1. n - x \in T /\ T \in SUBSET Nat
  OBVIOUS
<1>2. PICK k \in T : \A m \in T : k <= m
  <2> HIDE DEF T
  <2> QED
    BY <1>1, LeastExists
<1>3. k \in 0 .. n /\ n - k \in 0 .. n /\ n - k \notin S
  OBVIOUS
<1>4. ASSUME NEW j \in (n - k) + 1 .. n PROVE j \in S
  <2>1. n - j \in 0 .. n /\ n - j < k /\ n - (n - j) = j
    BY <1>3
  <2>2. n - j \notin T
    BY <1>2, <1>3, <2>1
  <2> QED
    BY <2>1, <2>2
<1> QED
  BY <1>3, <1>4

=============================================================================
