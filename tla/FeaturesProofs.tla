--------------------------- MODULE FeaturesProofs ---------------------------
(***************************************************************************)
(* Proofs about Features, for every setup of specifications, texts and     *)
(* networks that the assumption of Features allows: a specification is     *)
(* parsed into the tree that it was written from, the rows that a text's   *)
(* values add go to their own segments of the vector and are within their  *)
(* matrices, and the values of a text are weighed by their shares of it.   *)
(* The first part writes out where everything of a written specification   *)
(* stands, and holds the parser to that plan; the second holds the         *)
(* evaluation of the functions to what is counted of a text; the third     *)
(* takes the counts for shares of the text, by a bijection of the tokens   *)
(* and windows that are counted to the places in the text that they are    *)
(* read from.                                                              *)
(***************************************************************************)
EXTENDS Features, Lemmas, FunctionTheorems

-----------------------------------------------------------------------------
(* Where the parts of a sequence are that is put together *)

\* o says for each part of s how much is in front of it.
Offsets(o, s) ==
  /\ o \in [1 .. Len(s) + 1 -> Nat]
  /\ o[1] = 0 /\ \A k \in 1 .. Len(s) : o[k + 1] = o[k] + Len(s[k])

\* t holds the parts of s at these places, and nothing else.
HoldsParts(t, o, s) ==
  /\ Len(t) = o[Len(s) + 1]
  /\ \A k \in 1 .. Len(s) : \A i \in 1 .. Len(s[k]) : t[o[k] + i] = s[k][i]

\* What is in two sequences put together.
LEMMA CatIs ==
  ASSUME NEW S, NEW s \in Seq(S), NEW t \in Seq(S)
  PROVE  /\ s \o t \in Seq(S) /\ Len(s \o t) = Len(s) + Len(t)
         /\ Len(s) \in Nat /\ Len(t) \in Nat
         /\ \A j \in 1 .. Len(s) : (s \o t)[j] = s[j]
         /\ \A j \in 1 .. Len(t) : (s \o t)[Len(s) + j] = t[j]
OBVIOUS

\* A part of a sequence of sequences.
LEMMA PartIs ==
  ASSUME NEW S, NEW s \in Seq(Seq(S)), NEW k \in 1 .. Len(s)
  PROVE  s[k] \in Seq(S) /\ Len(s[k]) \in Nat
<1> DEFINE V == Seq(S)
<1>1. s \in Seq(V)
  OBVIOUS
<1> HIDE DEF V
<1>2. s[k] \in V
  BY <1>1
<1> QED
  BY <1>2 DEF V

\* G holds what is put together of the parts of s, up to each of them.
PutTogether(G, s, S) ==
  /\ \A i \in 1 .. Len(s) : G[i] \in Seq(S)
  /\ \A i \in 2 .. Len(s) : G[i] = G[i-1] \o s[i]

\* A sequence that is put together part by part keeps what it has.
LEMMA PartsStay ==
  ASSUME NEW S, NEW s \in Seq(Seq(S)), NEW G, PutTogether(G, s, S),
         NEW k \in 1 .. Len(s), NEW m \in k .. Len(s)
  PROVE  /\ Len(G[k]) <= Len(G[m])
         /\ \A j \in 1 .. Len(G[k]) : G[m][j] = G[k][j]
<1> DEFINE n == Len(s)
           A == {x \in k .. n : /\ Len(G[k]) <= Len(G[x])
                                /\ \A j \in 1 .. Len(G[k]) : G[x][j] = G[k][j]}
<1>1. k \in Int /\ n \in Int /\ k \in A
  OBVIOUS
<1>2. ASSUME NEW x \in k .. n - 1, x \in A PROVE x + 1 \in A
  <2>1. x + 1 \in 2 .. n /\ (x + 1) - 1 = x /\ x \in 1 .. n /\ x + 1 \in k .. n
    BY <1>1
  <2>2. G[x] \in Seq(S) /\ s[x + 1] \in Seq(S) /\ G[x + 1] = G[x] \o s[x + 1]
    <3>1. x + 1 \in 1 .. n
      BY <2>1
    <3>2. s[x + 1] \in Seq(S)
      BY <3>1, PartIs
    <3>3. G[x] \in Seq(S) /\ G[x + 1] = G[(x + 1) - 1] \o s[x + 1]
      BY <2>1 DEF PutTogether
    <3> QED
      BY <2>1, <3>2, <3>3
  <2>3. /\ Len(G[x + 1]) = Len(G[x]) + Len(s[x + 1]) /\ Len(G[x]) \in Nat /\ Len(s[x + 1]) \in Nat
        /\ \A j \in 1 .. Len(G[x]) : G[x + 1][j] = G[x][j]
    <3> DEFINE a == G[x]
               b == s[x + 1]
    <3>1. a \in Seq(S) /\ b \in Seq(S) /\ G[x + 1] = a \o b
      BY <2>2
    <3> HIDE DEF a, b
    <3>2. /\ Len(G[x + 1]) = Len(a) + Len(b) /\ Len(a) \in Nat /\ Len(b) \in Nat
          /\ \A j \in 1 .. Len(a) : G[x + 1][j] = a[j]
      BY <3>1, CatIs
    <3> QED
      BY <3>2 DEF a, b
  <2>4. Len(G[k]) \in Nat
    BY DEF PutTogether
  <2>5. Len(G[k]) <= Len(G[x]) /\ \A j \in 1 .. Len(G[k]) : G[x][j] = G[k][j]
    BY <1>2
  <2> HIDE DEF n
  <2>6. ASSUME NEW j \in 1 .. Len(G[k]) PROVE G[x + 1][j] = G[k][j]
    <3>1. j \in 1 .. Len(G[x])
      BY <2>3, <2>4, <2>5
    <3> QED
      BY <2>3, <2>5, <3>1
  <2>7. Len(G[k]) <= Len(G[x + 1])
    <3> DEFINE a == Len(G[k])
               b == Len(G[x])
               c == Len(s[x + 1])
               d == Len(G[x + 1])
    <3>1. a \in Nat /\ b \in Nat /\ c \in Nat /\ d = b + c /\ a <= b
      BY <2>3, <2>4, <2>5, Zenon
    <3> HIDE DEF a, b, c, d
    <3>2. a <= d
      BY <3>1
    <3> QED
      BY <3>2 DEF a, d
  <2> QED
    BY <2>1, <2>6, <2>7
<1> HIDE DEF A, n
<1>3. \A x \in k .. n : x \in A
  BY <1>1, <1>2, UpFrom
<1>4. m \in A
  BY <1>3 DEF n
<1> QED
  BY <1>4 DEF A

\* Where the parts of FlattenSeq(s) are.
LEMMA FlattenPlaces ==
  ASSUME NEW S, NEW s \in Seq(Seq(S))
  PROVE  /\ FlattenSeq(s) \in Seq(S)
         /\ \E o : Offsets(o, s) /\ HoldsParts(FlattenSeq(s), o, s)
<1>1. CASE s = <<>>
  <2>1. FlattenSeq(s) = <<>>
    BY <1>1 DEF FlattenSeq
  <2> DEFINE o == [k \in 1 .. Len(s) + 1 |-> 0]
  <2>2. Offsets(o, s) /\ HoldsParts(<<>>, o, s)
    BY <1>1 DEF Offsets, HoldsParts
  <2> QED
    BY <2>1, <2>2
<1>2. CASE s # <<>>
  <2> DEFINE n == Len(s)
  <2>1. PICK G : /\ FlattenSeq(s) = G[Len(s)] /\ G[1] = s[1]
                 /\ \A i \in 1 .. Len(s) : G[i] \in Seq(S)
                 /\ \A i \in 2 .. Len(s) : G[i] = G[i-1] \o s[i]
    BY <1>2, Flattened
  <2> DEFINE o == [k \in 1 .. n + 1 |-> IF k = 1 THEN 0 ELSE Len(G[k - 1])]
  <2>2. n \in Nat \ {0} /\ \A k \in 1 .. n : s[k] \in Seq(S) /\ Len(s[k]) \in Nat
    BY <1>2
  <2>3. \A k \in 1 .. n : Len(G[k]) \in Nat
    BY <2>1
  <2>4. \A k \in 1 .. n : o[k + 1] = Len(G[k])
    BY <2>2
  <2>5. ASSUME NEW k \in 1 .. n
        PROVE  /\ Len(G[k]) = o[k] + Len(s[k])
               /\ \A i \in 1 .. Len(s[k]) : G[k][o[k] + i] = s[k][i]
    <3>1. CASE k = 1
      BY <2>1, <2>2, <3>1
    <3>2. CASE k # 1
      <4>1. k \in 2 .. n /\ k - 1 \in 1 .. n
        BY <2>2, <3>2
      <4>2. G[k] = G[k-1] \o s[k] /\ G[k-1] \in Seq(S) /\ s[k] \in Seq(S) /\ o[k] = Len(G[k-1])
        <5>1. G[k] = G[k-1] \o s[k] /\ G[k-1] \in Seq(S)
          BY <2>1, <4>1
        <5>2. s[k] \in Seq(S)
          BY <2>2
        <5>3. o[k] = Len(G[k-1])
          BY <2>2, <3>2
        <5> QED
          BY <5>1, <5>2, <5>3
      <4> HIDE DEF o, n
      <4> QED
        <5> DEFINE a == G[k-1]
                   b == s[k]
        <5>1. a \in Seq(S) /\ b \in Seq(S) /\ G[k] = a \o b /\ o[k] = Len(a)
          BY <4>2
        <5> HIDE DEF a, b
        <5>2. /\ Len(G[k]) = Len(a) + Len(b)
              /\ \A j \in 1 .. Len(b) : G[k][Len(a) + j] = b[j]
          BY <5>1, CatIs
        <5> QED
          BY <5>1, <5>2 DEF b
    <3> QED
      BY <3>1, <3>2
  <2>6. Offsets(o, s)
    <3>1. o \in [1 .. n + 1 -> Nat]
      BY <2>2, <2>3
    <3>2. o[1] = 0
      BY <2>2
    <3> HIDE DEF o
    <3> QED
      BY <2>4, <2>5, <3>1, <3>2 DEF Offsets
  <2>7. HoldsParts(FlattenSeq(s), o, s)
    <3>1. Len(G[n]) = o[n + 1]
      BY <2>2, <2>4
    <3>2. ASSUME NEW k \in 1 .. n, NEW i \in 1 .. Len(s[k]) PROVE G[n][o[k] + i] = s[k][i]
      <4>1. n \in k .. n
        BY <2>2
      <4>2. \A j \in 1 .. Len(G[k]) : G[n][j] = G[k][j]
        <5>1. PutTogether(G, s, S)
          BY <2>1 DEF PutTogether
        <5> HIDE DEF o
        <5>2. k \in 1 .. Len(s) /\ Len(s) \in k .. Len(s)
          BY <4>1
        <5>3. s \in Seq(Seq(S))
          OBVIOUS
        <5>5. \A x \in 1 .. Len(s) : \A y \in x .. Len(s) : \A j \in 1 .. Len(G[x]) : G[y][j] = G[x][j]
          BY <5>1, <5>3, PartsStay, SMTT(30)
        <5>4. \A j \in 1 .. Len(G[k]) : G[Len(s)][j] = G[k][j]
          BY <5>2, <5>5, Zenon
        <5> QED
          BY <5>4
      <4>3. o[k] \in Nat
        BY <2>6 DEF Offsets
      <4>4. o[k] + i \in 1 .. Len(G[k])
        <5> DEFINE a == Len(s[k])
                   b == Len(G[k])
                   c == o[k]
        <5>1. a \in Nat /\ c \in Nat /\ b = c + a /\ i \in 1 .. a
          BY <2>2, <2>5, <4>3, Zenon
        <5> HIDE DEF a, b, c
        <5>2. c + i \in 1 .. b
          BY <5>1
        <5> QED
          BY <5>2 DEF b, c
      <4> QED
        BY <2>5, <4>2, <4>4
    <3> HIDE DEF o
    <3> QED
      BY <2>1, <3>1, <3>2 DEF HoldsParts
  <2>8. FlattenSeq(s) \in Seq(S)
    BY <2>1, <2>2
  <2> QED
    BY <2>6, <2>7, <2>8
<1> QED
  BY <1>1, <1>2

-----------------------------------------------------------------------------
(* Functions on 1 .. n defined by their values behind *)

\* g on i .. n is made up by h from what comes behind.
FromBehindOn(f, h, i, n) ==
  \A k \in i .. n : f[k] = h[<<k, [j \in k + 1 .. n |-> f[j]]>>]

\* h gives every number a value from values for all numbers behind.
IsStepBack(h, V, n) ==
  \A i \in 1 .. n : \A g \in [i + 1 .. n -> V] : h[<<i, g>>] \in V

\* There is a function that h makes up from its values behind.
LEMMA BehindExists ==
  ASSUME NEW n \in Nat, NEW V, NEW h, IsStepBack(h, V, n)
  PROVE  \E f \in [1 .. n -> V] : FromBehindOn(f, h, 1, n)
<1> DEFINE A == {k \in 0 .. n : \E f \in [n + 1 - k .. n -> V] : FromBehindOn(f, h, n + 1 - k, n)}
<1>1. 0 \in A
  <2> DEFINE f == [j \in n + 1 - 0 .. n |-> j]
  <2>1. n + 1 - 0 .. n = {}
    OBVIOUS
  <2>2. f \in [n + 1 - 0 .. n -> V] /\ FromBehindOn(f, h, n + 1 - 0, n)
    BY <2>1 DEF FromBehindOn
  <2> QED
    BY <2>2
<1>2. ASSUME NEW k \in 0 .. n - 1, k \in A PROVE k + 1 \in A
  <2> DEFINE b == n + 1 - k
             i == n - k
  <2>1. PICK f \in [b .. n -> V] : FromBehindOn(f, h, b, n)
    BY <1>2
  <2> DEFINE v == h[<<i, f>>]
             g == [j \in i .. n |-> IF j = i THEN v ELSE f[j]]
  <2>2. i \in 1 .. n /\ b = i + 1 /\ i .. n = {i} \cup b .. n /\ i \notin b .. n
    OBVIOUS
  <2>3. v \in V
    BY <2>2 DEF IsStepBack
  <2> HIDE DEF v, i, b
  <2>4. g \in [i .. n -> V] /\ g[i] = v /\ \A j \in b .. n : g[j] = f[j]
    BY <2>2, <2>3
  <2> HIDE DEF g
  <2>5. ASSUME NEW j \in b .. n PROVE [m \in j + 1 .. n |-> g[m]] = [m \in j + 1 .. n |-> f[m]]
    <3>1. \A m \in j + 1 .. n : m \in b .. n
      BY <2>2
    <3> QED
      BY <2>4, <3>1
  <2>6. \A j \in b .. n : g[j] = h[<<j, [m \in j + 1 .. n |-> g[m]]>>]
    BY <2>1, <2>4, <2>5 DEF FromBehindOn
  <2>7. [m \in b .. n |-> g[m]] = f
    BY <2>1, <2>4
  <2>8. g[i] = h[<<i, [m \in i + 1 .. n |-> g[m]]>>]
    BY <2>2, <2>4, <2>7 DEF v
  <2>9. FromBehindOn(g, h, i, n)
    BY <2>2, <2>6, <2>8 DEF FromBehindOn
  <2>10. i = n + 1 - (k + 1) /\ k + 1 \in 0 .. n
    BY DEF i
  <2>11. \E x \in [n + 1 - (k + 1) .. n -> V] : FromBehindOn(x, h, n + 1 - (k + 1), n)
    BY <2>4, <2>9, <2>10
  <2> QED
    BY <2>10, <2>11
<1>3. 0 \in Int /\ n \in Int
  OBVIOUS
<1>4. \A k \in 0 .. n : k \in A
  <2> HIDE DEF A
  <2>1. ASSUME NEW z \in Int, z = 0 PROVE \A k \in z .. n : k \in A
    <3>1. z \in A /\ \A k \in z .. n - 1 : k \in A => k + 1 \in A
      BY <1>1, <1>2, <2>1
    <3> QED
      BY <1>3, <3>1, UpFrom
  <2> QED
    BY <2>1
<1>5. n \in A /\ n + 1 - n = 1
  BY <1>4
<1> QED
  BY <1>5

-----------------------------------------------------------------------------
(* Forests *)

\* The functions nested in function i are numbers behind it.
LEMMA NestedBehind ==
  ASSUME NEW d, IsForest(d), NEW i \in Nat
  PROVE  /\ Nested(d, i) \subseteq i + 1 .. Len(d) /\ Nested(d, i) \subseteq DOMAIN d
         /\ IsFiniteSet(Nested(d, i))
         /\ Len(d) \in Nat /\ DOMAIN d = 1 .. Len(d)
<1>1. DOMAIN d = 1 .. Len(d) /\ Len(d) \in Nat
  BY DEF IsForest
<1>2. Nested(d, i) \subseteq i + 1 .. Len(d)
  <2>1. ASSUME NEW j \in Nested(d, i) PROVE j \in i + 1 .. Len(d)
    <3>1. j \in DOMAIN d /\ d[j].parent = i
      BY DEF Nested
    <3>2. i \in 0 .. j - 1
      BY <3>1 DEF IsForest
    <3> QED
      BY <1>1, <3>1, <3>2
  <2> QED
    BY <2>1
<1>3. ASSUME NEW a \in Int, NEW b \in Int, NEW T \in SUBSET (a .. b) PROVE IsFiniteSet(T)
  <2>1. IsFiniteSet(a .. b)
    BY FS_Interval
  <2> QED
    BY <2>1, FS_Subset
<1>4. IsFiniteSet(Nested(d, i))
  <2> DEFINE a == i + 1
             b == Len(d)
             T == Nested(d, i)
  <2>1. a \in Int /\ b \in Int /\ T \in SUBSET (a .. b)
    BY <1>1, <1>2
  <2> HIDE DEF a, b, T
  <2>2. IsFiniteSet(T)
    BY <1>3, <2>1
  <2> QED
    BY <2>2 DEF T
<1>5. Nested(d, i) \subseteq DOMAIN d
  BY DEF Nested
<1> QED
  BY <1>1, <1>2, <1>4, <1>5

\* A sequence that has the numbers of S in ascending order.
Ascending(c, S) ==
  /\ c \in Seq(S) /\ Len(c) = Cardinality(S) /\ DOMAIN c = 1 .. Len(c) /\ Len(c) \in Nat
  /\ \A k, m \in 1 .. Len(c) : k < m => c[k] < c[m]
  /\ \A x \in S : \E k \in 1 .. Len(c) : c[k] = x

\* The functions nested in another one, or in none, in their order.
LEMMA ChildrenAscend ==
  ASSUME NEW d, IsForest(d), NEW i \in Nat
  PROVE  Ascending(Children(d, i), Nested(d, i))
<1> DEFINE S == Nested(d, i)
           n == Cardinality(S)
           R == {p \in S \X S : p[1] < p[2]}
           Good(c) == \A k, m \in DOMAIN c : k < m => c[k] < c[m]
           Ch == CHOOSE c \in [1 .. n -> S] : Good(c)
<1>1. IsFiniteSet(S) /\ S \subseteq Nat
  BY NestedBehind
<1>2. n \in Nat
  <2> HIDE DEF S
  <2> QED
    BY <1>1, FS_CardinalityType
<1>3. Orders(R, S)
  <2> HIDE DEF S
  <2> QED
    BY <1>1 DEF Orders
<1>4. PICK r \in [1 .. n -> S] : SortedBy(r, R, S)
  <2> HIDE DEF R
  <2> QED
    BY <1>1, <1>3, SortedExists
<1>5. Good(r)
  <2>1. ASSUME NEW k \in DOMAIN r, NEW m \in DOMAIN r, k < m PROVE r[k] < r[m]
    <3>1. <<r[k], r[m]>> \in R
      BY <1>4, <2>1 DEF SortedBy
    <3> QED
      BY <3>1
  <2> QED
    BY <2>1
<1>6. Children(d, i) = Ch
  BY Zenon DEF Children
<1>7. Ch \in [1 .. n -> S] /\ Good(Ch)
  BY <1>4, <1>5
<1> HIDE DEF Ch
<1>8. \A k, m \in 1 .. n : k < m => Ch[k] < Ch[m]
  BY <1>7
<1>9. Ch \in Seq(S) /\ Len(Ch) = n
  BY <1>2, <1>7
<1>10. \A x \in S : \E k \in 1 .. n : Ch[k] = x
  <2> HIDE DEF S
  <2>1. \A k, m \in 1 .. n : Ch[k] = Ch[m] => k = m
    <3>1. ASSUME NEW k \in 1 .. n, NEW m \in 1 .. n, k # m PROVE Ch[k] # Ch[m]
      <4>1. k < m \/ m < k
        BY <1>2, <3>1
      <4>2. Ch[k] \in Nat /\ Ch[m] \in Nat
        BY <1>1, <1>7
      <4> QED
        BY <1>8, <4>1, <4>2
    <3> QED
      BY <3>1
  <2>2. IsFiniteSet(1 .. n) /\ Cardinality(1 .. n) = n
    <3>1. ASSUME NEW one \in Int, one = 1, NEW b \in Nat
          PROVE  IsFiniteSet(one .. b) /\ Cardinality(one .. b) = b
      <4>1. Cardinality(one .. b) = IF one > b THEN 0 ELSE b - one + 1
        BY <3>1, FS_Interval
      <4>2. IsFiniteSet(one .. b)
        BY <3>1, FS_Interval
      <4> QED
        BY <3>1, <4>1, <4>2
    <3> HIDE DEF n
    <3> QED
      BY <1>2, <3>1
  <2>3. Ch \in Injection(1 .. n, S)
    BY <1>7, <2>1 DEF Injection, IsInjective
  <2>4. Ch \in Surjection(1 .. n, S)
    <3>1. ASSUME NEW T, IsFiniteSet(T), Cardinality(T) = Cardinality(S), NEW g \in Injection(T, S)
          PROVE  g \in Surjection(T, S)
      BY <1>1, <3>1, FS_Injection
    <3> DEFINE T == 1 .. n
    <3>2. IsFiniteSet(T) /\ Cardinality(T) = Cardinality(S) /\ Ch \in Injection(T, S)
      BY <2>2, <2>3
    <3> HIDE DEF T, n
    <3>3. Ch \in Surjection(T, S)
      BY <3>1, <3>2
    <3> QED
      BY <3>3 DEF T
  <2> QED
    BY <2>4 DEF Surjection
<1> QED
  BY <1>2, <1>6, <1>7, <1>8, <1>9, <1>10 DEF Ascending


-----------------------------------------------------------------------------
(* What is written for one function *)

ItemTypes == Texted \cup {"(", ")", ",", "=", ":", ".", "{", "}"}

\* The items with texts from T.
ItemsOf(T) == [type : ItemTypes, text : T]

\* T has the texts of what is written for function f.
HasTexts(T, f) ==
  /\ "" \in T /\ f.type \in T /\ f.name \in T /\ f.argument \in T
  /\ \A j \in 1 .. Len(f.parameters) : f.parameters[j][1] \in T /\ f.parameters[j][2] \in T

\* f has parameters, with values of these types.
IsTyped(f, types) ==
  /\ f.parameters \in Seq(ToSet(f.parameters))
  /\ types \in Seq(Texted) /\ Len(types) = Len(f.parameters)

\* 1 if f has an argument.
Arg(f) == IF f.argument = 0 THEN 0 ELSE 1

\* The item of a list of parameters that comes behind r of them.
Behind(f, r) == 4 * r + 2 * Arg(f) + 1

\* What a list of parameters has where.
ListShape(w, f, types) ==
  IF Len(f.parameters) = 0 /\ Arg(f) = 0 THEN w = <<>>
  ELSE /\ Len(w) = Behind(f, Len(f.parameters))
       /\ w[1] = Sign("(") /\ w[Len(w)] = Sign(")")
       /\ Arg(f) = 1 => w[2] = Item("NUMBER", f.argument)
       /\ \A j \in 1 .. Len(f.parameters) :
            /\ w[Behind(f, j) - 3] = Item("NAME", f.parameters[j][1])
            /\ w[Behind(f, j) - 2] = Sign("=")
            /\ w[Behind(f, j) - 1] = Item(types[j], f.parameters[j][2])
            /\ j > 1 \/ Arg(f) = 1 => w[Behind(f, j) - 4] = Sign(",")

\* Short sequences.
LEMMA ShortOnes ==
  ASSUME NEW S, NEW a \in S, NEW b \in S, NEW c \in S, NEW x \in S
  PROVE  /\ <<a>> \in Seq(S) /\ Len(<<a>>) = 1 /\ <<a>>[1] = a
         /\ <<a, b>> \in Seq(S) /\ Len(<<a, b>>) = 2 /\ <<a, b>>[1] = a /\ <<a, b>>[2] = b
         /\ <<a, b, c>> \in Seq(S) /\ Len(<<a, b, c>>) = 3
         /\ <<a, b, c>>[1] = a /\ <<a, b, c>>[2] = b /\ <<a, b, c>>[3] = c
         /\ <<x>> \o <<a, b, c>> \in Seq(S) /\ Len(<<x>> \o <<a, b, c>>) = 4
         /\ (<<x>> \o <<a, b, c>>)[1] = x /\ (<<x>> \o <<a, b, c>>)[2] = a
         /\ (<<x>> \o <<a, b, c>>)[3] = b /\ (<<x>> \o <<a, b, c>>)[4] = c
OBVIOUS

\* A sequence of sequences, by its parts.
LEMMA PartsMake ==
  ASSUME NEW S, NEW n \in Nat, NEW s, s = [k \in 1 .. n |-> s[k]],
         \A k \in 1 .. n : s[k] \in Seq(S)
  PROVE  s \in Seq(Seq(S)) /\ Len(s) = n
<1> DEFINE V == Seq(S)
<1>1. \A k \in 1 .. n : s[k] \in V
  OBVIOUS
<1> HIDE DEF V
<1>2. s \in Seq(V) /\ Len(s) = n
  BY <1>1
<1> QED
  BY <1>2 DEF V

\* The items of a parameter.
ParameterItems(f, types, j) ==
  <<Item("NAME", f.parameters[j][1]), Sign("="), Item(types[j], f.parameters[j][2])>>

\* Part k of a list of parameters.
ListPart(f, types, k) ==
  IF k = 1 THEN IF Arg(f) = 1 THEN <<Item("NUMBER", f.argument)>>
                ELSE ParameterItems(f, types, 1)
  ELSE <<Sign(",")>> \o ParameterItems(f, types, k - Arg(f))

\* The items of the parts.
LEMMA PartItems ==
  ASSUME NEW f, NEW types, NEW T, IsTyped(f, types), HasTexts(T, f)
  PROVE  /\ Len(f.parameters) \in Nat /\ Arg(f) \in {0, 1}
         /\ Arg(f) = 0 <=> f.argument = 0
         /\ DOMAIN f.parameters = 1 .. Len(f.parameters)
         /\ Item("NUMBER", f.argument) \in ItemsOf(T)
         /\ Sign(",") \in ItemsOf(T) /\ Sign("(") \in ItemsOf(T) /\ Sign(")") \in ItemsOf(T)
         /\ Sign("=") \in ItemsOf(T)
         /\ \A j \in 1 .. Len(f.parameters) :
              /\ Item("NAME", f.parameters[j][1]) \in ItemsOf(T)
              /\ Item(types[j], f.parameters[j][2]) \in ItemsOf(T)
<1>1. /\ Len(f.parameters) \in Nat /\ DOMAIN f.parameters = 1 .. Len(f.parameters)
      /\ \A j \in 1 .. Len(f.parameters) : types[j] \in Texted
  BY DEF IsTyped
<1>2. Arg(f) \in {0, 1} /\ (Arg(f) = 0 <=> f.argument = 0)
  BY DEF Arg
<1>3. /\ Item("NUMBER", f.argument) \in ItemsOf(T)
      /\ Sign(",") \in ItemsOf(T) /\ Sign("(") \in ItemsOf(T) /\ Sign(")") \in ItemsOf(T)
      /\ Sign("=") \in ItemsOf(T)
  BY DEF ItemsOf, Item, Sign, ItemTypes, Texted, HasTexts
<1>4. ASSUME NEW j \in 1 .. Len(f.parameters)
      PROVE  /\ Item("NAME", f.parameters[j][1]) \in ItemsOf(T)
             /\ Item(types[j], f.parameters[j][2]) \in ItemsOf(T)
  <2>1. f.parameters[j][1] \in T /\ f.parameters[j][2] \in T /\ types[j] \in Texted
    BY <1>1 DEF HasTexts
  <2> QED
    BY <2>1 DEF ItemsOf, Item, ItemTypes, Texted
<1> QED
  BY <1>1, <1>2, <1>3, <1>4

\* Every part of a written list is made of items of the texts.
LEMMA PartTyped ==
  ASSUME NEW f, NEW types, NEW T, IsTyped(f, types), HasTexts(T, f),
         NEW k \in 1 .. Len(f.parameters) + Arg(f)
  PROVE  ListPart(f, types, k) \in Seq(ItemsOf(T))
<1> DEFINE S == ItemsOf(T)
           P == Len(f.parameters)
           g == Arg(f)
<1>1. P \in Nat /\ g \in {0, 1}
  BY PartItems
<1>2. ASSUME NEW j \in 1 .. P
      PROVE  /\ ParameterItems(f, types, j) \in Seq(S)
             /\ <<Sign(",")>> \o ParameterItems(f, types, j) \in Seq(S)
  <2> DEFINE a == Item("NAME", f.parameters[j][1])
             b == Sign("=")
             c == Item(types[j], f.parameters[j][2])
             x == Sign(",")
  <2>1. a \in S /\ b \in S /\ c \in S /\ x \in S
    BY PartItems
  <2> HIDE DEF a, b, c, x, S
  <2>2. <<a, b, c>> \in Seq(S) /\ <<x>> \o <<a, b, c>> \in Seq(S)
    BY <2>1, ShortOnes
  <2> QED
    BY <2>2 DEF a, b, c, x, ParameterItems
<1>3. <<Item("NUMBER", f.argument)>> \in Seq(S)
  <2> DEFINE a == Item("NUMBER", f.argument)
  <2>1. a \in S
    BY PartItems
  <2> HIDE DEF a, S
  <2>2. <<a>> \in Seq(S)
    BY <2>1
  <2> QED
    BY <2>2 DEF a
<1>4. CASE k = 1 /\ g = 1
  BY <1>3, <1>4 DEF ListPart
<1>5. CASE k = 1 /\ g # 1
  <2>1. 1 \in 1 .. P
    BY <1>1, <1>5
  <2> QED
    BY <1>2, <1>5, <2>1 DEF ListPart
<1>6. CASE k # 1
  <2>1. k - g \in 1 .. P
    BY <1>1, <1>6
  <2>2. <<Sign(",")>> \o ParameterItems(f, types, k - g) \in Seq(S)
    BY <1>2, <2>1
  <2> HIDE DEF S
  <2> QED
    BY <1>6, <2>2 DEF ListPart, S
<1> QED
  BY <1>4, <1>5, <1>6

\* A list of parameters is made of its parts.
LEMMA ListOfParts ==
  ASSUME NEW f, NEW types, NEW T, IsTyped(f, types), HasTexts(T, f)
  PROVE  LET n == Len(f.parameters) + Arg(f)
             s == [k \in 1 .. n |-> ListPart(f, types, k)]
         IN ParameterList(f, types) =
              IF n = 0 THEN <<>> ELSE <<Sign("(")>> \o FlattenSeq(s) \o <<Sign(")")>>
<1> DEFINE g == Arg(f)
           P == Len(f.parameters)
           n == P + g
           s == [k \in 1 .. n |-> ListPart(f, types, k)]
           number == <<Item("NUMBER", f.argument)>>
           comma == <<Sign(",")>>
           these(j) == ParameterItems(f, types, j)
           argument == IF f.argument = 0 THEN <<>> ELSE <<number>>
           parameters == [j \in DOMAIN f.parameters |-> these(j)]
           parts == argument \o parameters
           t == [i \in DOMAIN parts |-> IF i = 1 THEN parts[i] ELSE comma \o parts[i]]
<1>1. P \in Nat /\ g \in {0, 1} /\ DOMAIN f.parameters = 1 .. P /\ (g = 0 <=> f.argument = 0)
  BY PartItems
<1>2. ParameterList(f, types) =
        IF parts = <<>> THEN <<>> ELSE <<Sign("(")>> \o FlattenSeq(t) \o <<Sign(")")>>
  BY Zenon DEF ParameterList, Separated, ParameterItems
<1>3. \A k \in 1 .. n : ListPart(f, types, k) =
                          IF k = 1 THEN IF g = 1 THEN number ELSE these(1) ELSE comma \o these(k - g)
  BY DEF ListPart
<1> HIDE DEF number, comma, these, P, g
<1> DEFINE V == {number} \cup {these(j) : j \in 1 .. P}
<1>4. parameters \in Seq(V) /\ Len(parameters) = P /\ \A j \in 1 .. P : parameters[j] = these(j)
  BY <1>1
<1>5. argument \in Seq(V) /\ Len(argument) = g /\ (g = 1 => argument[1] = number)
  <2>1. CASE g = 0
    BY <1>1, <2>1
  <2>2. CASE g = 1
    <3>1. argument = <<number>> /\ number \in V
      BY <1>1, <2>2
    <3> HIDE DEF argument, V
    <3> QED
      BY <2>2, <3>1
  <2> QED
    BY <1>1, <2>1, <2>2
<1> HIDE DEF V, argument, parameters
<1>6. /\ parts \in Seq(V) /\ Len(parts) = g + P
      /\ \A j \in 1 .. g : parts[j] = argument[j]
      /\ \A j \in 1 .. P : parts[g + j] = parameters[j]
  <2>1. /\ parts \in Seq(V) /\ Len(parts) = Len(argument) + Len(parameters)
        /\ \A j \in 1 .. Len(argument) : parts[j] = argument[j]
        /\ \A j \in 1 .. Len(parameters) : parts[Len(argument) + j] = parameters[j]
    <3>1. \A a, b \in Seq(V) :
            /\ a \o b \in Seq(V) /\ Len(a \o b) = Len(a) + Len(b)
            /\ \A j \in 1 .. Len(a) : (a \o b)[j] = a[j]
            /\ \A j \in 1 .. Len(b) : (a \o b)[Len(a) + j] = b[j]
      BY CatIs
    <3>2. argument \in Seq(V) /\ parameters \in Seq(V)
      BY <1>4, <1>5
    <3> QED
      BY <3>1, <3>2, Zenon
  <2> HIDE DEF parts
  <2> QED
    BY <1>4, <1>5, <2>1
<1>7. DOMAIN parts = 1 .. n /\ (parts = <<>> <=> n = 0)
  <2> HIDE DEF parts
  <2> QED
    BY <1>1, <1>6
<1> HIDE DEF parts
<1>8. ASSUME NEW k \in 1 .. n
      PROVE  ListPart(f, types, k) = IF k = 1 THEN parts[k] ELSE comma \o parts[k]
  <2>1. CASE k = 1 /\ g = 1
    BY <1>3, <1>5, <1>6, <2>1
  <2>2. CASE k = 1 /\ g = 0
    <3>1. parts[0 + 1] = parameters[1] /\ parameters[1] = these(1)
      BY <1>1, <1>4, <1>6, <2>2
    <3> QED
      BY <1>3, <2>2, <3>1
  <2>3. CASE k # 1
    <3>1. k - g \in 1 .. P /\ g + (k - g) = k
      BY <1>1, <2>3
    <3>2. parts[k] = these(k - g)
      BY <1>4, <1>6, <3>1
    <3> QED
      BY <1>3, <2>3, <3>2
  <2> QED
    BY <1>1, <2>1, <2>2, <2>3
<1>9. s = t
  BY <1>7, <1>8
<1> QED
  BY <1>2, <1>7, <1>9 DEF P, g

PartLengths(s, P, g) ==
  /\ Len(s[1]) = IF g = 1 THEN 1 ELSE 3
  /\ \A k \in 2 .. P + g : Len(s[k]) = 4

\* Where the parts are.
ListPlaced(t, o, P, g) ==
  /\ Len(t) = 4 * P + 2 * g - 1
  /\ o[1] = 0 /\ \A k \in 2 .. P + g : o[k] = 4 * k - 2 * g - 5

\* Parts of the lengths that a list has are found where a list's items go.
LEMMA ListPlaces ==
  ASSUME NEW P \in Nat, NEW g \in {0, 1}, P + g # 0, NEW s, NEW t, NEW o,
         Len(s) = P + g, Offsets(o, s), HoldsParts(t, o, s),
         PartLengths(s, P, g)
  PROVE  ListPlaced(t, o, P, g)
<1> DEFINE M == P + g
           A == {k \in 1 .. M : o[k + 1] = 4 * k - 1 - 2 * g}
<1>1. /\ o[1] = 0 /\ \A k \in 1 .. M : o[k + 1] = o[k] + Len(s[k])
      /\ Len(t) = o[M + 1]
  BY DEF Offsets, HoldsParts
<1>2. M \in Nat \ {0} /\ M \in Int /\ 1 \in 1 .. M
  OBVIOUS
<1>3. 1 \in A
  <2>1. o[1 + 1] = o[1] + Len(s[1])
    BY <1>1, <1>2
  <2> QED
    BY <1>1, <1>2, <2>1 DEF PartLengths
<1>4. ASSUME NEW k \in 1 .. M - 1, k \in A PROVE k + 1 \in A
  <2>1. k + 1 \in 2 .. M /\ k + 1 \in 1 .. M
    BY <1>2
  <2>2. o[(k + 1) + 1] = o[k + 1] + 4
    BY <1>1, <2>1 DEF PartLengths
  <2> QED
    BY <1>4, <2>1, <2>2
<1> HIDE DEF A
<1>5. \A k \in 1 .. M : k \in A
  <2> HIDE DEF M
  <2>1. ASSUME NEW one \in Int, one = 1 PROVE \A k \in one .. M : k \in A
    <3>1. one \in A /\ \A k \in one .. M - 1 : k \in A => k + 1 \in A
      BY <1>3, <1>4, <2>1
    <3> QED
      BY <1>2, <3>1, UpFrom
  <2> QED
    BY <2>1
<1>6. Len(t) = 4 * P + 2 * g - 1
  <2>1. M \in A
    BY <1>2, <1>5
  <2>2. Len(t) = 4 * M - 1 - 2 * g
    BY <1>1, <2>1 DEF A
  <2> QED
    BY <2>2
<1>7. ASSUME NEW k \in 2 .. M PROVE o[k] = 4 * k - 2 * g - 5
  <2>1. k - 1 \in A /\ (k - 1) + 1 = k
    BY <1>2, <1>5
  <2> QED
    BY <2>1 DEF A
<1> QED
  BY <1>1, <1>6, <1>7 DEF ListPlaced

\* The list of parameters of f has its shape.
LEMMA ListShaped ==
  ASSUME NEW f, NEW types, NEW T, IsTyped(f, types), HasTexts(T, f)
  PROVE  /\ ParameterList(f, types) \in Seq(ItemsOf(T))
         /\ ListShape(ParameterList(f, types), f, types)
<1> DEFINE g == Arg(f)
           P == Len(f.parameters)
           n == P + g
           S == ItemsOf(T)
           w == ParameterList(f, types)
           s == [k \in 1 .. n |-> ListPart(f, types, k)]
           open == Sign("(")
           close == Sign(")")
           comma == Sign(",")
           number == Item("NUMBER", f.argument)
           name(j) == Item("NAME", f.parameters[j][1])
           equals == Sign("=")
           value(j) == Item(types[j], f.parameters[j][2])
<1>1. P \in Nat /\ g \in {0, 1}
  BY PartItems
<1>2. /\ open \in S /\ close \in S /\ comma \in S /\ number \in S /\ equals \in S
      /\ \A j \in 1 .. P : name(j) \in S /\ value(j) \in S
  BY PartItems
<1>3. ASSUME NEW j \in 1 .. P
      PROVE  LET a == ParameterItems(f, types, j)
                 b == <<comma>> \o ParameterItems(f, types, j)
             IN /\ Len(a) = 3 /\ a[1] = name(j) /\ a[2] = equals /\ a[3] = value(j)
                /\ Len(b) = 4 /\ b[1] = comma /\ b[2] = name(j) /\ b[3] = equals /\ b[4] = value(j)
  <2> DEFINE c == name(j)
             d == value(j)
  <2>1. ParameterItems(f, types, j) = <<c, equals, d>>
    BY DEF ParameterItems
  <2>2. c \in S /\ d \in S
    BY <1>2
  <2>3. comma \in S /\ equals \in S
    BY <1>2
  <2> HIDE DEF c, d, comma, equals, S
  <2>4. LET a == <<c, equals, d>>
            b == <<comma>> \o <<c, equals, d>>
        IN /\ Len(a) = 3 /\ a[1] = c /\ a[2] = equals /\ a[3] = d
           /\ Len(b) = 4 /\ b[1] = comma /\ b[2] = c /\ b[3] = equals /\ b[4] = d
    BY <2>2, <2>3, ShortOnes
  <2> QED
    BY <2>1, <2>4, Zenon DEF c, d
<1>4. Len(<<number>>) = 1 /\ <<number>>[1] = number
  <2> HIDE DEF number
  <2> QED
    OBVIOUS
<1>5. /\ n \in Nat
      /\ \A k \in 1 .. n : s[k] = ListPart(f, types, k)
      /\ s = [k \in 1 .. n |-> s[k]]
  BY <1>1
<1>6. \A k \in 1 .. n : s[k] \in Seq(S)
  BY <1>5, PartTyped
<1>7. s \in Seq(Seq(S)) /\ Len(s) = n
  <2> HIDE DEF s, n, S
  <2> QED
    BY <1>5, <1>6, PartsMake
<1>8. w = IF n = 0 THEN <<>> ELSE <<open>> \o FlattenSeq(s) \o <<close>>
  BY ListOfParts
<1>9. PICK o : Offsets(o, s) /\ HoldsParts(FlattenSeq(s), o, s)
  <2> HIDE DEF s, S
  <2> QED
    BY <1>7, FlattenPlaces
<1>10. FlattenSeq(s) \in Seq(S)
  <2> HIDE DEF s, S
  <2> QED
    BY <1>7, FlattenPlaces
<1> DEFINE t == FlattenSeq(s)
<1>11. HoldsParts(t, o, s) /\ t \in Seq(S)
  BY <1>9, <1>10
<1> HIDE DEF t, s
<1>12. CASE n = 0
  <2>1. P = 0 /\ g = 0
    BY <1>1, <1>12
  <2>2. w = <<>>
    BY <1>8, <1>12
  <2>3. <<>> \in Seq(S)
    OBVIOUS
  <2> QED
    BY <2>1, <2>2, <2>3 DEF ListShape
<1>13. CASE n # 0
  <2>1. g = 1 => s[1] = <<number>>
    <3>1. 1 \in 1 .. n
      BY <1>1, <1>13
    <3>2. s[1] = ListPart(f, types, 1)
      BY <1>5, <3>1
    <3> QED
      BY <3>2, Zenon DEF ListPart
  <2>2. \A j \in 1 .. P : s[j + g] = IF j + g = 1 THEN ParameterItems(f, types, j)
                                      ELSE <<comma>> \o ParameterItems(f, types, j)
    <3>1. ASSUME NEW j \in 1 .. P
          PROVE  s[j + g] = IF j + g = 1 THEN ParameterItems(f, types, j)
                            ELSE <<comma>> \o ParameterItems(f, types, j)
      <4>1. /\ j + g \in 1 .. n /\ (j + g) - g = j
            /\ j + g = 1 => j = 1 /\ g # 1
        BY <1>1
      <4>2. s[j + g] = ListPart(f, types, j + g)
        BY <1>5, <4>1
      <4>3. CASE j + g = 1
        BY <4>1, <4>2, <4>3 DEF ListPart
      <4>4. CASE j + g # 1
        BY <4>1, <4>2, <4>4 DEF ListPart
      <4> QED
        BY <4>3, <4>4
    <3> QED
      BY <3>1
  <2> HIDE DEF g, P
  <2>3. g = 1 => Len(s[1]) = 1 /\ s[1][1] = number
    BY <1>4, <2>1
  <2>4. \A j \in 1 .. P :
          IF j + g = 1
            THEN /\ Len(s[j + g]) = 3 /\ s[j + g][1] = name(j)
                 /\ s[j + g][2] = equals /\ s[j + g][3] = value(j)
            ELSE /\ Len(s[j + g]) = 4 /\ s[j + g][1] = comma /\ s[j + g][2] = name(j)
                 /\ s[j + g][3] = equals /\ s[j + g][4] = value(j)
    BY <1>3, <2>2
  <2> HIDE DEF number, comma, equals, name, value, open, close
  <2>5. Len(s[1]) = IF g = 1 THEN 1 ELSE 3
    <3>1. CASE g = 0
      <4>1. 1 \in 1 .. P /\ 1 + g = 1
        BY <1>1, <1>13, <3>1
      <4> QED
        BY <2>4, <3>1, <4>1
    <3>2. CASE g = 1
      BY <2>3, <3>2
    <3> QED
      BY <1>1, <3>1, <3>2
  <2>6. \A k \in 2 .. P + g : Len(s[k]) = 4
    <3>1. ASSUME NEW k \in 2 .. P + g PROVE Len(s[k]) = 4
      <4>1. k - g \in 1 .. P /\ (k - g) + g = k /\ k # 1
        BY <1>1
      <4> QED
        BY <2>4, <4>1
    <3> QED
      BY <3>1
  <2>7. /\ Len(t) = 4 * P + 2 * g - 1
        /\ o[1] = 0 /\ \A k \in 2 .. P + g : o[k] = 4 * k - 2 * g - 5
    <3>1. Len(s) = P + g /\ P + g # 0
      BY <1>7, <1>13
    <3>2. PartLengths(s, P, g)
      BY <2>5, <2>6 DEF PartLengths
    <3>3. Offsets(o, s) /\ HoldsParts(t, o, s)
      BY <1>9, <1>11
    <3>4. ListPlaced(t, o, P, g)
      BY <1>1, <3>1, <3>2, <3>3, ListPlaces
    <3> QED
      BY <3>4 DEF ListPlaced
  <2>8. \A k \in 1 .. P + g : \A i \in 1 .. Len(s[k]) : t[o[k] + i] = s[k][i]
    BY <1>7, <1>11 DEF HoldsParts
  <2>9. /\ w \in Seq(S) /\ Len(w) = Len(t) + 2 /\ w[1] = open /\ w[Len(w)] = close
        /\ \A i \in 1 .. Len(t) : w[i + 1] = t[i]
    <3>1. w = <<open>> \o t \o <<close>> /\ <<open>> \in Seq(S) /\ <<close>> \in Seq(S)
      BY <1>2, <1>8, <1>13 DEF t
    <3> HIDE DEF w, S
    <3> QED
      BY <1>11, <3>1
  <2> HIDE DEF w, S, n
  <2>10. ASSUME NEW j \in 1 .. P
         PROVE  /\ w[4 * j + 2 * g - 2] = name(j) /\ w[4 * j + 2 * g - 1] = equals
                /\ w[4 * j + 2 * g] = value(j)
                /\ j > 1 \/ g = 1 => w[4 * j + 2 * g - 3] = comma
    <3>1. j \in Nat \ {0} /\ j <= P
      BY <1>1
    <3>2. CASE j + g = 1
      <4>1. j = 1 /\ g = 0 /\ 1 \in 1 .. P + g /\ j + g = 1
        BY <1>1, <3>1, <3>2
      <4>2. Len(s[1]) = 3 /\ s[1][1] = name(j) /\ s[1][2] = equals /\ s[1][3] = value(j)
        BY <2>4, <4>1
      <4>3. t[0 + 1] = name(j) /\ t[0 + 2] = equals /\ t[0 + 3] = value(j)
        BY <2>7, <2>8, <4>1, <4>2, SMTT(30)
      <4>4. Len(t) >= 3 /\ Len(t) \in Int
        BY <1>1, <2>7, <4>1
      <4>5. w[1 + 1] = t[1] /\ w[2 + 1] = t[2] /\ w[3 + 1] = t[3]
        BY <2>9, <4>4
      <4> QED
        BY <4>1, <4>3, <4>5
    <3>3. CASE j + g # 1
      <4>1. j + g \in 2 .. P + g /\ j + g \in 1 .. P + g /\ g \in {0, 1}
        BY <1>1, <3>1, <3>3
      <4> DEFINE p == o[j + g]
      <4>2. p = 4 * j + 2 * g - 5
        BY <2>7, <3>1, <4>1
      <4>3. /\ Len(s[j + g]) = 4 /\ s[j + g][1] = comma /\ s[j + g][2] = name(j)
            /\ s[j + g][3] = equals /\ s[j + g][4] = value(j)
        BY <2>4, <3>3
      <4>4. t[p + 1] = comma /\ t[p + 2] = name(j) /\ t[p + 3] = equals /\ t[p + 4] = value(j)
        BY <2>8, <4>1, <4>3, SMTT(30)
      <4> HIDE DEF p
      <4>5. p >= 0 /\ p \in Int /\ p + 4 <= Len(t) /\ Len(t) \in Int /\ P \in Int
        BY <1>1, <2>7, <3>1, <3>3, <4>1, <4>2
      <4>6. /\ w[(p + 1) + 1] = comma /\ w[(p + 2) + 1] = name(j) /\ w[(p + 3) + 1] = equals
            /\ w[(p + 4) + 1] = value(j)
        <5>1. p + 1 \in 1 .. Len(t) /\ p + 2 \in 1 .. Len(t) /\ p + 3 \in 1 .. Len(t) /\ p + 4 \in 1 .. Len(t)
          BY <4>5
        <5>2. w[(p + 1) + 1] = t[p + 1] /\ w[(p + 2) + 1] = t[p + 2]
          BY <2>9, <5>1
        <5>3. w[(p + 3) + 1] = t[p + 3] /\ w[(p + 4) + 1] = t[p + 4]
          BY <2>9, <5>1
        <5> QED
          BY <4>4, <5>2, <5>3
      <4>7. /\ (p + 1) + 1 = 4 * j + 2 * g - 3 /\ (p + 2) + 1 = 4 * j + 2 * g - 2
            /\ (p + 3) + 1 = 4 * j + 2 * g - 1 /\ (p + 4) + 1 = 4 * j + 2 * g
        BY <3>1, <4>1, <4>2
      <4> QED
        BY <4>6, <4>7
    <3> QED
      BY <3>2, <3>3
  <2>11. g = 1 => w[2] = number
    <3>1. ASSUME g = 1 PROVE w[2] = number
      <4>1. 1 \in 1 .. P + g /\ Len(s[1]) = 1 /\ s[1][1] = number
        BY <1>1, <2>3, <3>1
      <4>2. t[0 + 1] = number
        BY <2>7, <2>8, <4>1
      <4>3. w[1 + 1] = t[1]
        BY <1>1, <2>7, <2>9, <3>1
      <4> QED
        BY <4>2, <4>3
    <3> QED
      BY <3>1
  <2>12. /\ \A j \in 1 .. P :
              /\ 4 * j + 2 * g - 2 = Behind(f, j) - 3 /\ 4 * j + 2 * g - 1 = Behind(f, j) - 2
              /\ 4 * j + 2 * g = Behind(f, j) - 1 /\ 4 * j + 2 * g - 3 = Behind(f, j) - 4
         /\ 4 * P + 2 * g + 1 = Behind(f, P)
    BY <1>1 DEF Behind, g
  <2>13. Len(w) = Behind(f, P)
    BY <1>1, <2>7, <2>9, <2>12
  <2>14. ~ (P = 0 /\ g = 0)
    BY <1>1, <1>13 DEF n
  <2>15. \A j \in 1 .. P :
            /\ w[Behind(f, j) - 3] = name(j) /\ w[Behind(f, j) - 2] = equals
            /\ w[Behind(f, j) - 1] = value(j)
            /\ j > 1 \/ g = 1 => w[Behind(f, j) - 4] = comma
    BY <2>10, <2>12
  <2>16. ListShape(w, f, types)
    <3>1. /\ Len(w) = Behind(f, P) /\ w[1] = open /\ w[Len(w)] = close
          /\ g = 1 => w[2] = number
          /\ \A j \in 1 .. P :
               /\ w[Behind(f, j) - 3] = name(j) /\ w[Behind(f, j) - 2] = equals
               /\ w[Behind(f, j) - 1] = value(j)
               /\ j > 1 \/ g = 1 => w[Behind(f, j) - 4] = comma
      BY <2>9, <2>11, <2>13, <2>15, Zenon
    <3> QED
      BY <2>14, <3>1, Zenon DEF ListShape, g, P, open, close, number, name, equals, value, comma
  <2> QED
    BY <2>9, <2>16 DEF w, S
<1> QED
  BY <1>12, <1>13

-----------------------------------------------------------------------------
(* Sequences that stand in another one *)

\* x stands in t from place b on.
StandsIn(t, b, x) ==
  /\ b \in Nat \ {0} /\ Len(x) \in Nat /\ b + Len(x) - 1 <= Len(t)
  /\ \A j \in 1 .. Len(x) : t[b + j - 1] = x[j]

\* Two sequences that stand together stand one behind the other.
LEMMA StandApart ==
  ASSUME NEW S, NEW x \in Seq(S), NEW y \in Seq(S), NEW t, Len(t) \in Nat, NEW b, StandsIn(t, b, x \o y)
  PROVE  StandsIn(t, b, x) /\ StandsIn(t, b + Len(x), y)
<1> DEFINE z == x \o y
           m == Len(x)
           n == Len(y)
<1>1. /\ Len(z) = m + n /\ m \in Nat /\ n \in Nat
      /\ \A j \in 1 .. m : z[j] = x[j]
      /\ \A j \in 1 .. n : z[m + j] = y[j]
  BY CatIs
<1>2. /\ b \in Nat \ {0} /\ b + Len(z) - 1 <= Len(t)
      /\ \A j \in 1 .. Len(z) : t[b + j - 1] = z[j]
  BY DEF StandsIn
<1> HIDE DEF z, m, n
<1>3. b + m - 1 <= Len(t) /\ b + m \in Nat \ {0} /\ (b + m) + n - 1 <= Len(t)
  <2> DEFINE l == Len(t)
             k == Len(z)
  <2>1. l \in Nat /\ k = m + n /\ b + k - 1 <= l /\ b \in Nat \ {0}
    BY <1>1, <1>2
  <2> HIDE DEF l, k
  <2>2. b + m - 1 <= l /\ b + m \in Nat \ {0} /\ (b + m) + n - 1 <= l
    BY <1>1, <2>1
  <2> QED
    BY <2>2 DEF l
<1>4. \A j \in 1 .. m : t[b + j - 1] = x[j]
  <2>1. \A j \in 1 .. m : j \in 1 .. Len(z)
    BY <1>1
  <2> QED
    BY <1>1, <1>2, <2>1
<1>5. \A j \in 1 .. n : t[(b + m) + j - 1] = y[j]
  <2>1. \A j \in 1 .. n : m + j \in 1 .. Len(z) /\ b + (m + j) - 1 = (b + m) + j - 1
    BY <1>1, <1>2
  <2>2. ASSUME NEW j \in 1 .. n PROVE t[(b + m) + j - 1] = y[j]
    <3>1. t[b + (m + j) - 1] = z[m + j]
      BY <1>2, <2>1
    <3> QED
      BY <1>1, <2>1, <3>1
  <2> QED
    BY <2>2
<1> QED
  BY <1>1, <1>2, <1>3, <1>4, <1>5 DEF StandsIn, m, n

\* The offsets of the parts grow.
LEMMA OffsetsGrow ==
  ASSUME NEW s, NEW o, Len(s) \in Nat, Offsets(o, s), \A k \in 1 .. Len(s) : Len(s[k]) \in Nat
  PROVE  \A k \in 1 .. Len(s) + 1 : o[k] \in Nat /\ o[k] <= o[Len(s) + 1]
<1> DEFINE n == Len(s)
           A == {k \in 0 .. n : o[n + 1 - k] <= o[n + 1]}
<1>1. /\ n \in Nat /\ \A k \in 1 .. n + 1 : o[k] \in Nat
      /\ \A k \in 1 .. n : o[k + 1] = o[k] + Len(s[k]) /\ Len(s[k]) \in Nat
  BY DEF Offsets
<1> HIDE DEF n
<1>2. 0 \in A
  <2>1. o[n + 1 - 0] = o[n + 1] /\ o[n + 1] \in Nat /\ 0 \in 0 .. n
    BY <1>1
  <2> QED
    BY <2>1
<1>3. ASSUME NEW k \in 0 .. n - 1, k \in A PROVE k + 1 \in A
  <2> DEFINE j == n - k
             l == Len(s[j])
  <2>1. /\ j \in 1 .. n /\ j + 1 = n + 1 - k /\ j = n + 1 - (k + 1)
        /\ k + 1 \in 0 .. n /\ j + 1 \in 1 .. n + 1 /\ j \in 1 .. n + 1 /\ n + 1 \in 1 .. n + 1
    BY <1>1
  <2> HIDE DEF j
  <2>2. o[j + 1] = o[j] + l /\ l \in Nat /\ o[j] \in Nat /\ o[n + 1] \in Nat /\ o[j + 1] <= o[n + 1]
    BY <1>1, <1>3, <2>1
  <2> HIDE DEF l
  <2>3. o[j] <= o[n + 1]
    BY <2>2
  <2> QED
    BY <2>1, <2>3
<1>4. \A k \in 0 .. n : k \in A
  <2> HIDE DEF A
  <2>1. n \in Int /\ \A k \in 0 .. n - 1 : k \in A => k + 1 \in A
    BY <1>1, <1>3
  <2> QED
    BY <1>2, <2>1, UpFromZero
<1>5. ASSUME NEW k \in 1 .. n + 1 PROVE o[k] <= o[n + 1]
  <2> DEFINE m == n + 1 - k
  <2>1. m \in 0 .. n /\ n + 1 - m = k
    BY <1>1
  <2> HIDE DEF m
  <2>2. o[n + 1 - m] <= o[n + 1]
    BY <1>4, <2>1
  <2> QED
    BY <2>1, <2>2
<1> QED
  BY <1>1, <1>5 DEF n

\* The parts of a sequence that stands in another one stand in it.
LEMMA PartsStand ==
  ASSUME NEW s, NEW o, NEW t, NEW x, NEW b, Len(s) \in Nat, Len(x) \in Nat,
         Offsets(o, s), HoldsParts(t, o, s), \A k \in 1 .. Len(s) : Len(s[k]) \in Nat,
         StandsIn(x, b, t)
  PROVE  \A k \in 1 .. Len(s) : StandsIn(x, b + o[k], s[k])
<1> SUFFICES ASSUME NEW k \in 1 .. Len(s) PROVE StandsIn(x, b + o[k], s[k])
  OBVIOUS
<1> DEFINE n == Len(s)
           l == Len(s[k])
           lt == Len(t)
           lx == Len(x)
           p == o[k]
<1>1. n \in Nat /\ l \in Nat /\ lx \in Nat /\ k \in 1 .. n /\ k \in 1 .. n + 1 /\ k + 1 \in 1 .. n + 1
  OBVIOUS
<1>2. p \in Nat /\ o[k + 1] <= o[n + 1] /\ o[k + 1] = p + l /\ lt = o[n + 1] /\ lt \in Nat
  <2>1. \A i \in 1 .. n + 1 : o[i] \in Nat /\ o[i] <= o[n + 1]
    BY OffsetsGrow
  <2>2. o[k + 1] = p + l /\ lt = o[n + 1]
    BY DEF Offsets, HoldsParts
  <2>3. n + 1 \in 1 .. n + 1
    BY <1>1
  <2> HIDE DEF n
  <2> QED
    BY <1>1, <2>1, <2>2, <2>3
<1>3. /\ b \in Nat \ {0} /\ b + lt - 1 <= lx
      /\ \A j \in 1 .. lt : x[b + j - 1] = t[j]
  BY DEF StandsIn
<1>4. \A i \in 1 .. l : t[p + i] = s[k][i]
  BY DEF HoldsParts
<1> HIDE DEF n, l, lt, lx, p
<1>5. b + p \in Nat \ {0} /\ (b + p) + l - 1 <= lx
  BY <1>1, <1>2, <1>3, SMTT(30)
<1>6. ASSUME NEW j \in 1 .. l PROVE x[(b + p) + j - 1] = s[k][j]
  <2>1. p + j \in 1 .. lt /\ b + (p + j) - 1 = (b + p) + j - 1
    BY <1>1, <1>2, <1>3
  <2>2. x[b + (p + j) - 1] = t[p + j]
    BY <1>3, <2>1
  <2> QED
    BY <1>4, <2>1, <2>2
<1> QED
  BY <1>1, <1>5, <1>6 DEF StandsIn, l, lx, p

-----------------------------------------------------------------------------
(* What is written for a function, in front of its sub-features *)

\* The length of the list of parameters, and of all.
ListLen(f) ==
  IF Len(f.parameters) = 0 /\ Arg(f) = 0 THEN 0 ELSE Behind(f, Len(f.parameters))

NameLen(f) == IF f.name = "" THEN 0 ELSE 2

SpecLen(f) == 1 + ListLen(f) + NameLen(f)

\* What is written for f stands in t from place b on.
SpecAt(t, b, f, how) ==
  /\ b \in Nat \ {0} /\ b + SpecLen(f) - 1 <= Len(t)
  /\ t[b] = Item("NAME", f.type)
  /\ ListLen(f) # 0 =>
       /\ t[b + 1] = Sign("(") /\ t[b + ListLen(f)] = Sign(")")
       /\ Arg(f) = 1 => t[b + 2] = Item("NUMBER", f.argument)
       /\ \A j \in 1 .. Len(f.parameters) :
            /\ t[b + Behind(f, j) - 3] = Item("NAME", f.parameters[j][1])
            /\ t[b + Behind(f, j) - 1] = Item(how.values[j], f.parameters[j][2])
            /\ j > 1 \/ Arg(f) = 1 => t[b + Behind(f, j) - 4] = Sign(",")
  /\ f.name # "" =>
       t[b + ListLen(f) + 1] = Sign(":") /\ t[b + ListLen(f) + 2] = Item(how.name, f.name)

\* The lengths are numbers.
LEMMA LengthsTyped ==
  ASSUME NEW f, NEW types, IsTyped(f, types)
  PROVE  /\ Len(f.parameters) \in Nat /\ Arg(f) \in {0, 1}
         /\ ListLen(f) \in Nat /\ SpecLen(f) \in Nat \ {0}
         /\ \A j \in 1 .. Len(f.parameters) :
              /\ ListLen(f) # 0 /\ Behind(f, j) \in Nat /\ Behind(f, j) <= ListLen(f)
              /\ Behind(f, j) >= 5 /\ (j > 1 \/ Arg(f) = 1 => Behind(f, j) >= 7)
         /\ Arg(f) = 1 => ListLen(f) >= 3
<1> DEFINE P == Len(f.parameters)
           g == Arg(f)
<1>1. P \in Nat /\ g \in {0, 1}
  BY DEF IsTyped, Arg
<1> HIDE DEF P, g
<1>2. ListLen(f) = IF P = 0 /\ g = 0 THEN 0 ELSE 4 * P + 2 * g + 1
  BY DEF ListLen, Behind, P, g
<1>3. \A j \in 1 .. P : Behind(f, j) = 4 * j + 2 * g + 1
  BY DEF Behind, g
<1>4. ListLen(f) \in Nat /\ SpecLen(f) \in Nat \ {0} /\ (g = 1 => ListLen(f) >= 3)
  <2>1. NameLen(f) \in {0, 2}
    BY DEF NameLen
  <2>2. ListLen(f) \in Nat /\ (g = 1 => ListLen(f) >= 3)
    BY <1>1, <1>2
  <2> QED
    BY <2>1, <2>2 DEF SpecLen
<1>5. ASSUME NEW j \in 1 .. P
      PROVE  /\ ListLen(f) # 0 /\ Behind(f, j) \in Nat /\ Behind(f, j) <= ListLen(f)
             /\ Behind(f, j) >= 5 /\ (j > 1 \/ g = 1 => Behind(f, j) >= 7)
  BY <1>1, <1>2, <1>3
<1> QED
  BY <1>1, <1>4, <1>5 DEF P, g

\* What is written for f, and where it is.
LEMMA SpecShaped ==
  ASSUME NEW f, NEW how, NEW T, IsTyped(f, how.values), HasTexts(T, f), how.name \in Texted
  PROVE  /\ ExtractorSpec(f, how) \in Seq(ItemsOf(T))
         /\ Len(ExtractorSpec(f, how)) = SpecLen(f)
         /\ \A t, b : Len(t) \in Nat /\ StandsIn(t, b, ExtractorSpec(f, how)) => SpecAt(t, b, f, how)
<1> DEFINE S == ItemsOf(T)
           w == ParameterList(f, how.values)
           type == Item("NAME", f.type)
           colon == Sign(":")
           name == Item(how.name, f.name)
           named == IF f.name = "" THEN <<>> ELSE <<colon, name>>
           x == ExtractorSpec(f, how)
<1>1. w \in Seq(S) /\ ListShape(w, f, how.values)
  BY ListShaped
<1>2. type \in S /\ colon \in S /\ name \in S
  BY DEF ItemsOf, Item, Sign, ItemTypes, Texted, HasTexts
<1>3. x = (<<type>> \o w) \o named
  BY DEF ExtractorSpec
<1>4. Len(w) = ListLen(f)
  <2>1. CASE ListLen(f) = 0
    <3>1. Len(f.parameters) = 0 /\ Arg(f) = 0
      <4>1. Len(f.parameters) \in Nat /\ Arg(f) \in {0, 1}
        BY LengthsTyped
      <4> QED
        BY <2>1, <4>1 DEF ListLen, Behind
    <3>2. w = <<>>
      BY <1>1, <3>1 DEF ListShape
    <3> HIDE DEF w
    <3> QED
      BY <2>1, <3>2
  <2>2. CASE ListLen(f) # 0
    BY <1>1, <2>2 DEF ListShape, ListLen
  <2> QED
    BY <2>1, <2>2
<1>7. named \in Seq(S) /\ Len(named) = NameLen(f)
  <2>1. CASE f.name = ""
    <3>1. named = <<>> /\ NameLen(f) = 0
      BY <2>1 DEF NameLen
    <3> HIDE DEF named
    <3> QED
      BY <3>1
  <2>2. CASE f.name # ""
    <3>1. named = <<colon, name>> /\ NameLen(f) = 2
      BY <2>2 DEF NameLen
    <3> HIDE DEF named, colon, name, S
    <3> QED
      BY <1>2, <3>1, ShortOnes
  <2> QED
    BY <2>1, <2>2
<1>5. f.name # "" => Len(named) = 2 /\ named[1] = colon /\ named[2] = name
  <2>1. ASSUME f.name # "" PROVE Len(named) = 2 /\ named[1] = colon /\ named[2] = name
    <3>1. named = <<colon, name>>
      BY <2>1
    <3> HIDE DEF named, colon, name, S
    <3> QED
      BY <3>1
  <2> QED
    BY <2>1
<1> HIDE DEF w, type, named, S, x
<1>8. <<type>> \in Seq(S) /\ Len(<<type>>) = 1 /\ <<type>>[1] = type
  BY <1>2
<1>9. <<type>> \o w \in Seq(S) /\ Len(<<type>> \o w) = 1 + Len(w)
  BY <1>1, <1>8, CatIs
<1>10. x \in Seq(S) /\ Len(x) = SpecLen(f)
  <2>1. x \in Seq(S) /\ Len(x) = 1 + Len(w) + Len(named)
    <3> DEFINE y == <<type>> \o w
    <3>1. x = y \o named /\ y \in Seq(S) /\ named \in Seq(S) /\ Len(y) = 1 + Len(w)
      BY <1>3, <1>7, <1>9
    <3> HIDE DEF y
    <3>2. y \o named \in Seq(S) /\ Len(y \o named) = Len(y) + Len(named)
      BY <3>1, CatIs, ZenonT(30)
    <3> QED
      BY <3>1, <3>2, Zenon
  <2> QED
    BY <1>4, <1>7, <2>1 DEF SpecLen
<1>11. ASSUME NEW t, NEW b, Len(t) \in Nat, StandsIn(t, b, x)
       PROVE  SpecAt(t, b, f, how)
  <2> DEFINE n == ListLen(f)
             P == Len(f.parameters)
  <2>1. StandsIn(t, b, <<type>> \o w) /\ StandsIn(t, b + (1 + Len(w)), named)
    BY <1>3, <1>7, <1>9, <1>11, StandApart
  <2>2. StandsIn(t, b, <<type>>) /\ StandsIn(t, b + 1, w)
    BY <1>1, <1>8, <1>11, <2>1, StandApart
  <2>3. b \in Nat \ {0} /\ b + SpecLen(f) - 1 <= Len(t)
    BY <1>10, <1>11 DEF StandsIn
  <2>4. n \in Nat /\ P \in Nat /\ Arg(f) \in {0, 1} /\ (Arg(f) = 1 => n >= 3)
    BY LengthsTyped
  <2>5. \A j \in 1 .. P :
              /\ n # 0 /\ Behind(f, j) \in Nat /\ Behind(f, j) <= n
              /\ Behind(f, j) >= 5 /\ (j > 1 \/ Arg(f) = 1 => Behind(f, j) >= 7)
    BY LengthsTyped
  <2> HIDE DEF n
  <2>6. t[b] = type
    <3>1. t[b + 1 - 1] = <<type>>[1]
      BY <1>8, <2>2 DEF StandsIn
    <3> QED
      BY <1>8, <2>3, <3>1
  <2>7. \A j \in 1 .. n : t[b + j] = w[j]
    <3>1. \A j \in 1 .. n : t[(b + 1) + j - 1] = w[j]
      BY <1>4, <2>2 DEF StandsIn, n
    <3>2. \A j \in 1 .. n : (b + 1) + j - 1 = b + j
      BY <2>3, <2>4
    <3> QED
      BY <3>1, <3>2
  <2>8. f.name # "" => t[b + n + 1] = colon /\ t[b + n + 2] = name
    <3> HIDE DEF colon, name
    <3>1. ASSUME f.name # "" PROVE t[b + n + 1] = colon /\ t[b + n + 2] = name
      <4>1. Len(named) = 2 /\ named[1] = colon /\ named[2] = name
        BY <1>5, <3>1
      <4>2. t[(b + (1 + n)) + 1 - 1] = named[1] /\ t[(b + (1 + n)) + 2 - 1] = named[2]
        BY <1>4, <2>1, <4>1 DEF StandsIn, n
      <4>3. (b + (1 + n)) + 1 - 1 = b + n + 1 /\ (b + (1 + n)) + 2 - 1 = b + n + 2
        BY <2>3, <2>4
      <4> QED
        BY <4>1, <4>2, <4>3
    <3> QED
      BY <3>1
  <2>9. ASSUME n # 0
        PROVE  /\ t[b + 1] = Sign("(") /\ t[b + n] = Sign(")")
               /\ Arg(f) = 1 => t[b + 2] = Item("NUMBER", f.argument)
               /\ \A j \in 1 .. P :
                    /\ t[b + Behind(f, j) - 3] = Item("NAME", f.parameters[j][1])
                    /\ t[b + Behind(f, j) - 1] = Item(how.values[j], f.parameters[j][2])
                    /\ j > 1 \/ Arg(f) = 1 => t[b + Behind(f, j) - 4] = Sign(",")
    <3>1. /\ Len(w) = n /\ w[1] = Sign("(") /\ w[n] = Sign(")")
          /\ Arg(f) = 1 => w[2] = Item("NUMBER", f.argument)
          /\ \A j \in 1 .. P :
               /\ w[Behind(f, j) - 3] = Item("NAME", f.parameters[j][1])
               /\ w[Behind(f, j) - 1] = Item(how.values[j], f.parameters[j][2])
               /\ j > 1 \/ Arg(f) = 1 => w[Behind(f, j) - 4] = Sign(",")
      BY <1>1, <1>4, <2>9, Zenon DEF ListShape, ListLen, n
    <3>2. 1 \in 1 .. n /\ n \in 1 .. n /\ (Arg(f) = 1 => 2 \in 1 .. n)
      BY <2>4, <2>9
    <3>3. t[b + 1] = w[1] /\ t[b + n] = w[n] /\ (Arg(f) = 1 => t[b + 2] = w[2])
      BY <2>7, <3>2
    <3>4. ASSUME NEW j \in 1 .. P
          PROVE  /\ t[b + Behind(f, j) - 3] = w[Behind(f, j) - 3]
                 /\ t[b + Behind(f, j) - 1] = w[Behind(f, j) - 1]
                 /\ j > 1 \/ Arg(f) = 1 => t[b + Behind(f, j) - 4] = w[Behind(f, j) - 4]
      <4> DEFINE k == Behind(f, j)
      <4>1. k \in Nat /\ k <= n /\ k >= 5
        BY <2>5
      <4>2. k - 3 \in 1 .. n /\ k - 1 \in 1 .. n /\ k - 4 \in 1 .. n
        BY <2>4, <4>1
      <4>3. b + (k - 3) = b + k - 3 /\ b + (k - 1) = b + k - 1 /\ b + (k - 4) = b + k - 4
        BY <2>3, <4>1
      <4> HIDE DEF k
      <4>4. t[b + (k - 3)] = w[k - 3] /\ t[b + (k - 1)] = w[k - 1] /\ t[b + (k - 4)] = w[k - 4]
        BY <2>7, <4>2
      <4> QED
        BY <4>3, <4>4 DEF k
    <3> QED
      BY <3>1, <3>3, <3>4, ZenonT(30)
  <2> QED
    BY <2>3, <2>6, <2>8, <2>9 DEF SpecAt, n, type, colon, name
<1> QED
  BY <1>10, <1>11 DEF x, S

-----------------------------------------------------------------------------
(* What is written for a forest *)

\* There is a set of all texts of a forest.
LEMMA TextsExist ==
  ASSUME NEW d
  PROVE  \E T : \A i \in 1 .. Len(d) : HasTexts(T, d[i])
<1> DEFINE n == Len(d)
           types == {d[i].type : i \in 1 .. n}
           names == {d[i].name : i \in 1 .. n}
           arguments == {d[i].argument : i \in 1 .. n}
           first == {d[x[1]].parameters[x[2]][1] : x \in (1 .. n) \X Nat}
           second == {d[x[1]].parameters[x[2]][2] : x \in (1 .. n) \X Nat}
           none == {""}
           T == UNION {types, names, arguments, first, second, none}
<1>1. ASSUME NEW i \in 1 .. n
      PROVE  d[i].type \in types /\ d[i].name \in names /\ d[i].argument \in arguments
  BY ZenonT(30)
<1>2. ASSUME NEW i \in 1 .. n, NEW j \in Nat
      PROVE  d[i].parameters[j][1] \in first /\ d[i].parameters[j][2] \in second
  <2>1. <<i, j>> \in (1 .. n) \X Nat /\ <<i, j>>[1] = i /\ <<i, j>>[2] = j
    OBVIOUS
  <2> HIDE DEF n
  <2> QED
    BY <2>1
<1>3. "" \in none
  OBVIOUS
<1> HIDE DEF types, names, arguments, first, second, none
<1>4. /\ types \subseteq T /\ names \subseteq T /\ arguments \subseteq T /\ first \subseteq T
      /\ second \subseteq T /\ none \subseteq T
  OBVIOUS
<1> HIDE DEF T, n
<1>5. ASSUME NEW i \in 1 .. n PROVE HasTexts(T, d[i])
  <2>1. "" \in T /\ d[i].type \in T /\ d[i].name \in T /\ d[i].argument \in T
    BY <1>1, <1>3, <1>4, Zenon
  <2>2. \A j \in 1 .. Len(d[i].parameters) : d[i].parameters[j][1] \in T /\ d[i].parameters[j][2] \in T
    <3>1. \A j \in 1 .. Len(d[i].parameters) : j \in Nat
      OBVIOUS
    <3> QED
      BY <1>2, <1>4, <3>1, Zenon
  <2> QED
    BY <2>1, <2>2, Zenon DEF HasTexts
<1> QED
  BY <1>5 DEF n

\* The functions of a forest.
LEMMA FunctionTyped ==
  ASSUME NEW d, IsForest(d), NEW how \in Hows(d), NEW i \in 1 .. Len(d)
  PROVE  /\ IsTyped(d[i], how[i].values) /\ how[i].name \in Texted /\ how[i].dotted \in BOOLEAN
<1>1. i \in DOMAIN d /\ d[i].parameters \in Seq(ToSet(d[i].parameters))
  BY DEF IsForest
<1>2. how \in [DOMAIN d -> [name : {"NAME", "STRING"}, dotted : BOOLEAN, values : Seq(Texted)]]
      /\ Len(how[i].values) = Len(d[i].parameters)
  BY <1>1 DEF Hows
<1>3. how[i] \in [name : {"NAME", "STRING"}, dotted : BOOLEAN, values : Seq(Texted)]
  BY <1>1, <1>2
<1>4. how[i].name \in {"NAME", "STRING"} /\ how[i].dotted \in BOOLEAN /\ how[i].values \in Seq(Texted)
  BY <1>3
<1> QED
  BY <1>1, <1>2, <1>4 DEF IsTyped, Texted

\* The sequences of sequences.
Parts(S) == Seq(Seq(S))

\* The parts, and where they are when they are put together.
LEMMA PartsAre ==
  ASSUME NEW S, NEW s, s \in Parts(S)
  PROVE  /\ Len(s) \in Nat /\ DOMAIN s = 1 .. Len(s)
         /\ \A k \in 1 .. Len(s) : s[k] \in Seq(S) /\ Len(s[k]) \in Nat
         /\ FlattenSeq(s) \in Seq(S)
         /\ \E o : Offsets(o, s) /\ HoldsParts(FlattenSeq(s), o, s)
<1>1. s \in Seq(Seq(S))
  BY DEF Parts
<1>2. Len(s) \in Nat /\ DOMAIN s = 1 .. Len(s)
  BY <1>1
<1>3. \A k \in 1 .. Len(s) : s[k] \in Seq(S) /\ Len(s[k]) \in Nat
  BY <1>1, PartIs
<1>4. FlattenSeq(s) \in Seq(S) /\ \E o : Offsets(o, s) /\ HoldsParts(FlattenSeq(s), o, s)
  BY <1>1, FlattenPlaces
<1> QED
  BY <1>2, <1>3, <1>4

\* The signs in front of and behind sub-features are among S.
HasSigns(S) == Sign(".") \in S /\ Sign("{") \in S /\ Sign("}") \in S

\* Every set of items holds the signs of the grammar.
LEMMA SignsAre ==
  ASSUME NEW T, "" \in T
  PROVE  HasSigns(ItemsOf(T))
BY DEF HasSigns, ItemsOf, Item, Sign, ItemTypes

\* The form of a function with sub-features.
DotForm(how, subs) == Len(subs) = 1 /\ how.dotted

\* How a function is written, with its sub-features.
SubForm(x, spec, how, subs) ==
  /\ Len(subs) = 0 => x = spec
  /\ Len(subs) # 0 /\ DotForm(how, subs) => x = (spec \o <<Sign(".")>>) \o subs[1]
  /\ Len(subs) # 0 /\ ~ DotForm(how, subs) =>
       x = (spec \o (<<Sign("{")>> \o FlattenSeq(subs))) \o <<Sign("}")>>

\* Nothing put behind a sequence leaves it as it is.
LEMMA CatNothing == ASSUME NEW S, NEW a \in Seq(S) PROVE a \o <<>> = a
OBVIOUS

\* Two sequences together have the length of both.
LEMMA CatLen ==
  ASSUME NEW S, NEW a \in Seq(S), NEW b \in Seq(S)
  PROVE  a \o b \in Seq(S) /\ Len(a \o b) = Len(a) + Len(b) /\ Len(a) \in Nat /\ Len(b) \in Nat
OBVIOUS

\* Three sequences put together are the same from either side.
LEMMA CatThree ==
  ASSUME NEW S, NEW a \in Seq(S), NEW b \in Seq(S), NEW c \in Seq(S)
  PROVE  a \o (b \o c) = (a \o b) \o c
OBVIOUS

\* A function with the functions below it is written in one of three forms.
LEMMA SubFormed ==
  ASSUME NEW S, HasSigns(S), NEW f, NEW how, ExtractorSpec(f, how) \in Seq(S),
         NEW subs, subs \in Parts(S)
  PROVE  /\ SubForm(WithSubfeatures(f, how, subs), ExtractorSpec(f, how), how, subs)
         /\ WithSubfeatures(f, how, subs) \in Seq(S)
<1> DEFINE dot == <<Sign(".")>>
           open == <<Sign("{")>>
           close == <<Sign("}")>>
           spec == ExtractorSpec(f, how)
           x == WithSubfeatures(f, how, subs)
           D == DotForm(how, subs)
           n == Len(subs)
           one == subs[1]
           fl == FlattenSeq(subs)
<1>1. dot \in Seq(S) /\ open \in Seq(S) /\ close \in Seq(S)
  <2>1. \A y \in S : <<y>> \in Seq(S)
    OBVIOUS
  <2> QED
    BY <2>1, Zenon DEF HasSigns
<1>2. x = spec \o CASE n = 0 -> <<>>
                    [] n = 1 /\ how.dotted -> dot \o one
                    [] OTHER -> (open \o fl) \o close
  BY Zenon DEF WithSubfeatures
<1>3. n \in Nat /\ fl \in Seq(S) /\ (n = 1 => one \in Seq(S)) /\ spec \in Seq(S)
  BY PartsAre
<1>4. D <=> n = 1 /\ how.dotted
  BY DEF DotForm
<1> HIDE DEF dot, open, close, spec, x, n, one, fl, D
<1>5. CASE n = 0
  <2>1. x = spec \o <<>>
    BY <1>2, <1>5
  <2>2. x = spec
    BY <1>3, <2>1, CatNothing
  <2> QED
    BY <1>3, <1>5, <2>2 DEF SubForm, n, x, spec
<1>6. CASE n # 0 /\ D
  <2>1. x = spec \o (dot \o one) /\ one \in Seq(S)
    BY <1>2, <1>3, <1>4, <1>6
  <2>2. x = (spec \o dot) \o one /\ x \in Seq(S)
    <3>1. x = (spec \o dot) \o one
      <4>1. spec \o (dot \o one) = (spec \o dot) \o one
        <5>1. spec \in Seq(S)
          BY <1>3
        <5>2. dot \in Seq(S)
          BY <1>1
        <5>3. one \in Seq(S)
          BY <2>1
        <5> QED
          BY <5>1, <5>2, <5>3, CatThree, SMTT(30)
      <4> QED
        BY <2>1, <4>1, Zenon
    <3>2. spec \o dot \in Seq(S)
      BY <1>1, <1>3, CatLen
    <3> QED
      BY <2>1, <3>1, <3>2, CatLen
  <2> QED
    BY <1>6, <2>2, Zenon DEF SubForm, n, x, spec, D, dot, one
<1>7. CASE n # 0 /\ ~ D
  <2>1. x = spec \o ((open \o fl) \o close)
    BY <1>2, <1>4, <1>7
  <2>2. x = (spec \o (open \o fl)) \o close /\ x \in Seq(S)
    <3> DEFINE y == open \o fl
    <3>1. y \in Seq(S) /\ x = spec \o (y \o close)
      BY <1>1, <1>3, <2>1, CatLen
    <3> HIDE DEF y
    <3>2. x = (spec \o y) \o close /\ spec \o y \in Seq(S)
      <4>1. spec \o (y \o close) = (spec \o y) \o close
        <5>1. spec \in Seq(S)
          BY <1>3
        <5>2. y \in Seq(S)
          BY <3>1
        <5>3. close \in Seq(S)
          BY <1>1
        <5> QED
          BY <5>1, <5>2, <5>3, CatThree, SMTT(30)
      <4>2. spec \o y \in Seq(S)
        BY <1>3, <3>1, CatLen
      <4> QED
        BY <3>1, <4>1, <4>2, Zenon
    <3>3. x \in Seq(S)
      BY <1>1, <3>2, CatLen
    <3> QED
      BY <3>2, <3>3 DEF y
  <2> QED
    BY <1>7, <2>2, Zenon DEF SubForm, n, x, spec, D, open, close, fl
<1> QED
  BY <1>5, <1>6, <1>7

\* Where a function and its sub-features are, which have offsets o.
SubsAt(t, b, n, how, subs, o, l) ==
  /\ Len(subs) = 0 => l = n
  /\ Len(subs) # 0 =>
       /\ b + n <= Len(t)
       /\ \A k \in 1 .. Len(subs) : StandsIn(t, b + n + 1 + o[k], subs[k])
       /\ DotForm(how, subs) => t[b + n] = Sign(".") /\ l = n + 1 + o[2]
       /\ ~ DotForm(how, subs) =>
            /\ t[b + n] = Sign("{") /\ l = n + 2 + o[Len(subs) + 1]
            /\ t[b + l - 1] = Sign("}")

\* Where a written function stands, its own part stands in front and what
\* is below it at the places that its form gives.
LEMMA SubsStand ==
  ASSUME NEW S, HasSigns(S), NEW how, NEW spec \in Seq(S), NEW subs, subs \in Parts(S),
         NEW x \in Seq(S), SubForm(x, spec, how, subs),
         NEW o, Offsets(o, subs), HoldsParts(FlattenSeq(subs), o, subs),
         NEW t, Len(t) \in Nat, NEW b, StandsIn(t, b, x)
  PROVE  StandsIn(t, b, spec) /\ SubsAt(t, b, Len(spec), how, subs, o, Len(x))
<1> DEFINE dot == Sign(".")
           open == Sign("{")
           close == Sign("}")
           m == Len(spec)
           n == Len(subs)
           one == subs[1]
           fl == FlattenSeq(subs)
           D == DotForm(how, subs)
<1>1. dot \in S /\ open \in S /\ close \in S
  BY DEF HasSigns
<1>2. n \in Nat /\ \A k \in 1 .. n : subs[k] \in Seq(S) /\ Len(subs[k]) \in Nat
  BY PartsAre
<1>3. fl \in Seq(S)
  BY PartsAre
<1>4. /\ n = 0 => x = spec
      /\ n # 0 /\ D => x = (spec \o <<dot>>) \o one
      /\ n # 0 /\ ~ D => x = (spec \o (<<open>> \o fl)) \o <<close>>
  BY DEF SubForm
<1>5. /\ o[1] = 0 /\ o \in [1 .. n + 1 -> Nat]
      /\ (\A k \in 1 .. n : o[k + 1] = o[k] + Len(subs[k])) /\ Len(fl) = o[n + 1]
  BY DEF Offsets, HoldsParts
<1>6. D => n = 1
  BY DEF DotForm
<1>14. spec \in Seq(S) /\ x \in Seq(S) /\ m = Len(spec) /\ m \in Nat /\ b \in Nat \ {0}
  BY DEF StandsIn
<1> HIDE DEF dot, open, close, fl, D
<1>7. /\ <<dot>> \in Seq(S) /\ <<open>> \in Seq(S) /\ <<close>> \in Seq(S)
      /\ Len(<<dot>>) = 1 /\ Len(<<open>>) = 1 /\ Len(<<close>>) = 1
      /\ <<dot>>[1] = dot /\ <<open>>[1] = open /\ <<close>>[1] = close
  BY <1>1
<1>8. CASE n = 0
  BY <1>4, <1>8 DEF SubsAt
<1>9. CASE n # 0 /\ D
  <2>1. n = 1 /\ one \in Seq(S) /\ o[2] = Len(one) /\ Len(one) \in Nat /\ 1 \in 1 .. n
    <3>1. n = 1 /\ 1 \in 1 .. n
      BY <1>6, <1>9
    <3>2. o[1 + 1] = 0 + Len(one) /\ one \in Seq(S) /\ Len(one) \in Nat
      BY <1>2, <1>5, <3>1
    <3> QED
      BY <3>1, <3>2
  <2> DEFINE y == spec \o <<dot>>
  <2>2. y \in Seq(S) /\ Len(y) = m + 1 /\ x = y \o one
    <3>1. x = y \o one
      BY <1>4, <1>9
    <3>2. y \in Seq(S) /\ Len(y) = Len(spec) + Len(<<dot>>)
      BY <1>7, CatLen
    <3> HIDE DEF y
    <3> QED
      BY <1>7, <1>14, <3>1, <3>2
  <2> HIDE DEF y, one, n, m
  <2>3. StandsIn(t, b, y) /\ StandsIn(t, b + (m + 1), one) /\ Len(x) = m + 1 + Len(one)
    BY <2>1, <2>2, StandApart, CatIs
  <2>4. StandsIn(t, b, spec) /\ StandsIn(t, b + m, <<dot>>)
    BY <1>7, <1>14, <2>3, StandApart DEF y
  <2>5. t[b + m] = dot /\ b + m <= Len(t)
    <3>1. t[(b + m) + 1 - 1] = dot /\ (b + m) + 1 - 1 <= Len(t)
      BY <1>7, <2>4 DEF StandsIn
    <3> QED
      BY <1>14, <3>1
  <2>6. \A k \in 1 .. n : StandsIn(t, b + m + 1 + o[k], subs[k])
    <3>1. b + (m + 1) = b + m + 1 + 0
      BY <1>14
    <3>2. StandsIn(t, b + m + 1 + o[1], subs[1])
      BY <1>5, <2>3, <3>1 DEF one
    <3> QED
      BY <2>1, <3>2
  <2>7. Len(x) = m + 1 + o[2]
    BY <2>1, <2>3
  <2> QED
    BY <1>9, <2>4, <2>5, <2>6, <2>7 DEF SubsAt, n, m, D, dot
<1>10. CASE n # 0 /\ ~ D
  <2> DEFINE z == <<open>> \o fl
             y == spec \o z
             l == Len(fl)
  <2>1. z \in Seq(S) /\ Len(z) = 1 + l /\ l \in Nat
    BY <1>3, <1>7, CatIs
  <2> HIDE DEF z
  <2>2. y \in Seq(S) /\ Len(y) = m + (1 + l)
    <3>1. y \in Seq(S) /\ Len(y) = Len(spec) + Len(z)
      BY <2>1, CatLen
    <3> HIDE DEF y, l
    <3> QED
      BY <2>1, <3>1
  <2>3. x = y \o <<close>>
    BY <1>4, <1>10 DEF z
  <2> HIDE DEF y, n, m, l
  <2>4. /\ StandsIn(t, b, y) /\ StandsIn(t, b + (m + (1 + l)), <<close>>)
        /\ Len(x) = m + (1 + l) + 1
    <3>1. StandsIn(t, b, y) /\ StandsIn(t, b + Len(y), <<close>>)
      BY <1>7, <2>2, <2>3, StandApart
    <3>2. Len(x) = Len(y) + 1
      BY <1>7, <2>2, <2>3, CatLen
    <3> QED
      BY <2>2, <3>1, <3>2
  <2>5. StandsIn(t, b, spec) /\ StandsIn(t, b + m, z)
    BY <1>14, <2>1, <2>4, StandApart DEF y
  <2>6. StandsIn(t, b + m, <<open>>) /\ StandsIn(t, (b + m) + 1, fl)
    BY <1>3, <1>7, <2>5, StandApart DEF z
  <2>7. t[b + m] = open /\ b + m <= Len(t)
    <3>1. t[(b + m) + 1 - 1] = open /\ (b + m) + 1 - 1 <= Len(t)
      BY <1>7, <2>6 DEF StandsIn
    <3> QED
      BY <1>14, <3>1
  <2>8. t[b + Len(x) - 1] = close
    <3>1. t[(b + (m + (1 + l))) + 1 - 1] = close
      BY <1>7, <2>4 DEF StandsIn
    <3>2. (b + (m + (1 + l))) + 1 - 1 = b + Len(x) - 1
      BY <1>14, <2>1, <2>4
    <3> QED
      BY <3>1, <3>2
  <2>9. \A k \in 1 .. n : StandsIn(t, b + m + 1 + o[k], subs[k])
    <3>1. \A k \in 1 .. Len(subs) : StandsIn(t, ((b + m) + 1) + o[k], subs[k])
      <4>1. Len(subs) \in Nat /\ \A k \in 1 .. Len(subs) : Len(subs[k]) \in Nat
        BY <1>2 DEF n
      <4>2. HoldsParts(fl, o, subs)
        BY DEF fl
      <4> QED
        BY <2>6, <4>1, <4>2, PartsStand
    <3> QED
      BY <3>1 DEF n
  <2>10. Len(x) = m + 2 + o[n + 1]
    <3>1. l = o[n + 1]
      BY <1>5 DEF l, n
    <3>2. Len(x) = m + 2 + l
      <4>1. Len(x) = m + (1 + l) + 1
        BY <2>4
      <4> QED
        BY <1>14, <2>1, <4>1
    <3> QED
      BY <3>1, <3>2
  <2> QED
    BY <1>10, <2>5, <2>7, <2>8, <2>9, <2>10 DEF SubsAt, n, m, D, open, close
<1> QED
  BY <1>8, <1>9, <1>10

\* What is written for the functions nested in function i, by W.
Subs(d, W, i) == [k \in DOMAIN Children(d, i) |-> W[Children(d, i)[k]]]

\* The functions below a node are what is written of its children, which
\* come behind it.
LEMMA SubsAre ==
  ASSUME NEW d, IsForest(d), NEW i \in Nat, NEW S, NEW W, \A j \in i + 1 .. Len(d) : W[j] \in Seq(S)
  PROVE  /\ Subs(d, W, i) \in Parts(S) /\ Len(Subs(d, W, i)) = Len(Children(d, i))
         /\ Len(Children(d, i)) \in Nat
         /\ \A k \in 1 .. Len(Children(d, i)) :
              Children(d, i)[k] \in i + 1 .. Len(d) /\ Subs(d, W, i)[k] = W[Children(d, i)[k]]
<1> DEFINE c == Children(d, i)
           n == Len(c)
           s == Subs(d, W, i)
           m == Len(d)
<1>1. /\ n \in Nat /\ DOMAIN c = 1 .. n /\ c \in Seq(Nested(d, i))
  BY ChildrenAscend DEF Ascending
<1>2. Nested(d, i) \subseteq i + 1 .. m
  BY NestedBehind
<1>3. \A k \in 1 .. n : c[k] \in i + 1 .. m
  BY <1>1, <1>2
<1>4. s = [k \in 1 .. n |-> W[c[k]]]
  BY <1>1 DEF Subs
<1> HIDE DEF c, n, s
<1>5. \A k \in 1 .. n : s[k] = W[c[k]] /\ s[k] \in Seq(S)
  BY <1>3, <1>4
<1>6. s = [k \in 1 .. n |-> s[k]]
  BY <1>4
<1>7. s \in Seq(Seq(S)) /\ Len(s) = n
  BY <1>1, <1>5, <1>6, PartsMake
<1>8. s \in Parts(S)
  BY <1>7, Zenon DEF Parts
<1> QED
  BY <1>1, <1>3, <1>5, <1>7, <1>8 DEF c, n, s

\* What is below a node depends on what is written of later nodes only.
LEMMA SubsSame ==
  ASSUME NEW d, IsForest(d), NEW i \in Nat, NEW W, NEW Y, \A j \in i + 1 .. Len(d) : W[j] = Y[j]
  PROVE  Subs(d, W, i) = Subs(d, Y, i)
<1>1. Children(d, i) \in Seq(Nested(d, i)) /\ Nested(d, i) \subseteq i + 1 .. Len(d)
  BY ChildrenAscend, NestedBehind DEF Ascending
<1>2. \A k \in DOMAIN Children(d, i) : Children(d, i)[k] \in i + 1 .. Len(d)
  BY <1>1
<1> QED
  BY <1>2 DEF Subs

\* S has all that is written for the functions of d by themselves.
HasSpecs(S, d, how) ==
  HasSigns(S) /\ \A i \in 1 .. Len(d) : ExtractorSpec(d[i], how[i]) \in Seq(S)

\* What is written for a function is made of what is written for those in it.
LEMMA WrittenUnfolds ==
  ASSUME NEW d, IsForest(d), NEW how, NEW S, HasSpecs(S, d, how)
  PROVE  \A i \in 1 .. Len(d) :
           /\ FunctionsWritten(d, how)[i] =
                WithSubfeatures(d[i], how[i], Subs(d, FunctionsWritten(d, how), i))
           /\ FunctionsWritten(d, how)[i] \in Seq(S)
<1> DEFINE n == Len(d)
           V == Seq(S)
           X == UNION {{<<i, g>> : g \in [i + 1 .. n -> V]} : i \in 1 .. n}
           h == [x \in X |-> WithSubfeatures(d[x[1]], how[x[1]], Subs(d, x[2], x[1]))]
           Is(f) == f = [i \in DOMAIN d |-> WithSubfeatures(d[i], how[i], Subs(d, f, i))]
           W == FunctionsWritten(d, how)
<1>1. n \in Nat /\ DOMAIN d = 1 .. n
  BY DEF IsForest
<1>2. ASSUME NEW i \in 1 .. n, NEW f, \A j \in i + 1 .. n : f[j] \in V
      PROVE  WithSubfeatures(d[i], how[i], Subs(d, f, i)) \in V
  <2>1. i \in Nat
    BY <1>1
  <2>2. Subs(d, f, i) \in Parts(S)
    BY <1>2, <2>1, SubsAre
  <2>3. HasSigns(S) /\ ExtractorSpec(d[i], how[i]) \in Seq(S)
    BY DEF HasSpecs
  <2> QED
    BY <2>2, <2>3, SubFormed
<1>3. ASSUME NEW i \in 1 .. n, NEW g \in [i + 1 .. n -> V]
      PROVE  h[<<i, g>>] = WithSubfeatures(d[i], how[i], Subs(d, g, i))
  <2>1. <<i, g>> \in X /\ <<i, g>>[1] = i /\ <<i, g>>[2] = g
    OBVIOUS
  <2> HIDE DEF X
  <2>2. h[<<i, g>>] = WithSubfeatures(d[<<i, g>>[1]], how[<<i, g>>[1]], Subs(d, <<i, g>>[2], <<i, g>>[1]))
    BY <2>1, Zenon
  <2> QED
    BY <2>1, <2>2
<1> HIDE DEF h, X, V, n
<1>4. IsStepBack(h, V, n)
  <2>1. ASSUME NEW i \in 1 .. n, NEW g \in [i + 1 .. n -> V] PROVE h[<<i, g>>] \in V
    <3>1. \A j \in i + 1 .. n : g[j] \in V
      OBVIOUS
    <3> QED
      BY <1>2, <1>3, <3>1
  <2> QED
    BY <2>1 DEF IsStepBack
<1>5. PICK f \in [1 .. n -> V] : FromBehindOn(f, h, 1, n)
  BY <1>1, <1>4, BehindExists
<1>6. \A i \in 1 .. n : f[i] = WithSubfeatures(d[i], how[i], Subs(d, f, i))
  <2>1. ASSUME NEW i \in 1 .. n PROVE f[i] = WithSubfeatures(d[i], how[i], Subs(d, f, i))
    <3> DEFINE g == [j \in i + 1 .. n |-> f[j]]
    <3>1. \A j \in i + 1 .. n : j \in 1 .. n
      BY <1>1
    <3>2. g \in [i + 1 .. n -> V] /\ \A j \in i + 1 .. n : g[j] = f[j]
      BY <3>1
    <3>3. f[i] = h[<<i, g>>]
      <4>1. \A k \in 1 .. n : f[k] = h[<<k, [j \in k + 1 .. n |-> f[j]]>>]
        BY <1>5, Zenon DEF FromBehindOn
      <4> QED
        BY <4>1, Zenon
    <3> HIDE DEF g
    <3>4. i \in Nat
      BY <1>1
    <3>5. Subs(d, g, i) = Subs(d, f, i)
      BY <3>2, <3>4, SubsSame DEF n
    <3> QED
      BY <1>3, <3>2, <3>3, <3>5
  <2> QED
    BY <2>1
<1>7. Is(f)
  BY <1>1, <1>6
<1>8. W = CHOOSE x : Is(x)
  BY Zenon DEF FunctionsWritten, Subs
<1>9. Is(W)
  BY <1>7, <1>8, Zenon
<1>10. \A i \in 1 .. n : W[i] = WithSubfeatures(d[i], how[i], Subs(d, W, i))
  <2> HIDE DEF W
  <2>1. \A x : Is(x) => \A i \in DOMAIN d : x[i] = WithSubfeatures(d[i], how[i], Subs(d, x, i))
    OBVIOUS
  <2> QED
    BY <1>1, <1>9, <2>1, Zenon
<1> HIDE DEF W
<1>11. \A i \in 0 .. n : i \in {k \in 0 .. n : k = 0 \/ W[k] \in V}
  <2> DEFINE A == {k \in 0 .. n : k = 0 \/ W[k] \in V}
  <2>1. ASSUME NEW i \in 0 .. n, \A j \in i + 1 .. n : j \in A PROVE i \in A
    <3>1. CASE i = 0
      BY <3>1
    <3>2. CASE i # 0
      <4>1. i \in 1 .. n
        BY <1>1, <3>2
      <4>2. \A j \in i + 1 .. n : W[j] \in V
        BY <2>1, <4>1
      <4>3. W[i] \in V
        BY <1>2, <1>10, <4>1, <4>2
      <4> QED
        BY <4>3
    <3> QED
      BY <3>1, <3>2
  <2> HIDE DEF A
  <2>2. \A i \in 0 .. n : i \in A
    BY <1>1, <2>1, FromBehind
  <2> QED
    BY <2>2 DEF A
<1>12. \A i \in 1 .. n : W[i] \in V
  BY <1>1, <1>11
<1> QED
  BY <1>10, <1>12 DEF W, V, n

\* c2 is the next of S behind c1, and c1 is the last of S.
IsNext(S, c1, c2) == c2 \in S /\ c1 < c2 /\ \A x \in S : x <= c1 \/ x >= c2
IsLastOf(S, c1) == \A x \in S : x <= c1

\* Numbers in ascending order: which one is next, and last.
LEMMA AscendingOrder ==
  ASSUME NEW S, NEW c, Ascending(c, S), S \subseteq Nat, NEW k \in 1 .. Len(c)
  PROVE  /\ IsLastOf(S, c[k]) => k = Len(c)
         /\ \A y : IsNext(S, c[k], y) => k + 1 \in 1 .. Len(c) /\ y = c[k + 1]
         /\ c[k] \in S
<1> DEFINE n == Len(c)
<1>1. /\ n \in Nat /\ \A m \in 1 .. n : c[m] \in S /\ c[m] \in Nat
      /\ \A l, m \in 1 .. n : l < m => c[l] < c[m]
      /\ \A x \in S : \E m \in 1 .. n : c[m] = x
  <2>1. n \in Nat /\ c \in Seq(S) /\ (\A l, m \in 1 .. n : l < m => c[l] < c[m])
    BY DEF Ascending
  <2>2. \A x \in S : \E m \in 1 .. n : c[m] = x
    BY DEF Ascending
  <2>3. \A m \in 1 .. n : c[m] \in S
    BY <2>1
  <2>4. \A m \in 1 .. n : c[m] \in Nat
    BY <2>3
  <2> QED
    BY <2>1, <2>2, <2>3, <2>4
<1> HIDE DEF n
<1>0. k \in 1 .. n
  BY DEF n
<1>2. ASSUME IsLastOf(S, c[k]), k # n PROVE FALSE
  <2>1. k + 1 \in 1 .. n /\ k < k + 1
    BY <1>0, <1>1, <1>2
  <2>2. c[k] < c[k + 1] /\ c[k + 1] \in S /\ c[k] \in Nat /\ c[k + 1] \in Nat
    BY <1>0, <1>1, <2>1
  <2>3. c[k + 1] <= c[k]
    BY <1>2, <2>2 DEF IsLastOf
  <2> QED
    BY <2>2, <2>3
<1>3. ASSUME NEW y, IsNext(S, c[k], y) PROVE k + 1 \in 1 .. n /\ y = c[k + 1]
  <2>1. y \in S /\ c[k] < y /\ \A x \in S : x <= c[k] \/ x >= y
    BY <1>3 DEF IsNext
  <2>2. PICK m \in 1 .. n : c[m] = y
    BY <1>1, <2>1
  <2>3. k < m
    <3>1. CASE m < k
      <4>1. c[m] < c[k] /\ c[m] \in Nat /\ c[k] \in Nat
        BY <1>0, <1>1, <3>1
      <4> QED
        BY <2>1, <2>2, <4>1
    <3>2. CASE m = k
      <4>1. c[k] \in Nat
        BY <1>0, <1>1
      <4> QED
        BY <2>1, <2>2, <3>2, <4>1
    <3> QED
      BY <1>0, <3>1, <3>2
  <2>4. k + 1 \in 1 .. n /\ k < k + 1
    BY <1>0, <1>1, <2>3
  <2>5. c[k] < c[k + 1] /\ c[k + 1] \in S /\ c[k] \in Nat /\ c[k + 1] \in Nat /\ c[m] \in Nat
    BY <1>0, <1>1, <2>4
  <2>6. c[k + 1] >= y
    BY <2>1, <2>5
  <2>7. k + 1 < m => c[k + 1] < c[m]
    BY <1>1, <2>4
  <2>8. k + 1 = m
    BY <1>0, <2>2, <2>3, <2>5, <2>6, <2>7
  <2> QED
    BY <2>2, <2>4, <2>8
<1> QED
  BY <1>0, <1>1, <1>2, <1>3 DEF n

\* The first function nested in one is the one behind it.
LEMMA FirstChild ==
  ASSUME NEW d, IsForest(d), NEW i \in Nat, Nested(d, i) # {}
  PROVE  /\ i + 1 \in Nested(d, i) /\ Len(Children(d, i)) >= 1
         /\ 1 \in 1 .. Len(Children(d, i)) /\ Children(d, i)[1] = i + 1
<1> DEFINE S == Nested(d, i)
           c == Children(d, i)
           n == Len(c)
<1>1. S \subseteq i + 1 .. Len(d) /\ Len(d) \in Nat /\ DOMAIN d = 1 .. Len(d)
  BY NestedBehind
<1>2. Ascending(c, S)
  BY ChildrenAscend
<1>3. PICK x \in S : TRUE
  OBVIOUS
<1>4. x \in i + 1 .. Len(d) /\ d[x].parent = i /\ x \in DOMAIN d
  BY <1>1 DEF Nested
<1>5. i + 1 \in S
  <2>1. CASE x = i + 1
    BY <1>3, <2>1
  <2>2. CASE x # i + 1
    <3>1. i + 1 \in d[x].parent + 1 .. x - 1 /\ i + 1 \in DOMAIN d
      BY <1>1, <1>4, <2>2
    <3>2. d[i + 1].parent >= i
      BY <1>4, <3>1 DEF IsForest
    <3>3. d[i + 1].parent \in 0 .. (i + 1) - 1
      BY <3>1 DEF IsForest
    <3>4. d[i + 1].parent = i
      BY <3>2, <3>3
    <3> QED
      BY <3>1, <3>4 DEF Nested
  <2> QED
    BY <2>1, <2>2
<1>6. /\ n \in Nat /\ \A m \in 1 .. n : c[m] \in S
      /\ \A l, m \in 1 .. n : l < m => c[l] < c[m]
      /\ \A y \in S : \E k \in 1 .. n : c[k] = y
  BY <1>2 DEF Ascending
<1> HIDE DEF S, c, n
<1>7. PICK k \in 1 .. n : c[k] = i + 1
  BY <1>5, <1>6
<1>8. 1 \in 1 .. n /\ n >= 1
  BY <1>6, <1>7
<1>9. c[1] = i + 1
  <2>1. CASE k = 1
    BY <1>7, <2>1
  <2>2. CASE k # 1
    <3>1. 1 < k
      BY <1>7, <2>2
    <3>2. c[1] < i + 1
      BY <1>6, <1>7, <1>8, <3>1
    <3>3. c[1] \in i + 1 .. Len(d)
      BY <1>1, <1>6, <1>8
    <3> QED
      BY <1>1, <3>2, <3>3
  <2> QED
    BY <2>1, <2>2
<1> QED
  BY <1>5, <1>8, <1>9 DEF S, c, n

\* q refers every number up to m to one in front, and a is a distance.
RefersBack(q, a, m) == \A i \in 1 .. m : q[i] \in 0 .. i - 1 /\ a[i] \in Nat

\* b is the distance from 0.
IsDistance(b, q, a, m) ==
  b \in [0 .. m -> Nat] /\ b[0] = 0 /\ \A i \in 1 .. m : b[i] = b[q[i]] + a[i]

\* There are such distances.
LEMMA PlacesExist ==
  ASSUME NEW m \in Nat, NEW q, NEW a, RefersBack(q, a, m)
  PROVE  \E b : IsDistance(b, q, a, m)
<1>0. \A i \in 1 .. m : q[i] \in 0 .. i - 1 /\ a[i] \in Nat
  BY DEF RefersBack
<1> DEFINE Good(b, k) == b \in [0 .. k -> Nat] /\ b[0] = 0 /\ \A i \in 1 .. k : b[i] = b[q[i]] + a[i]
           A == {k \in 0 .. m : \E b : Good(b, k)}
<1>1. 0 \in A
  <2> DEFINE z == [k \in {0} |-> 0]
  <2>1. 0 .. 0 = {0} /\ 1 .. 0 = {}
    OBVIOUS
  <2>2. z \in [{0} -> Nat] /\ z[0] = 0
    OBVIOUS
  <2>3. Good(z, 0)
    BY <2>1, <2>2
  <2> HIDE DEF Good, z
  <2>4. 0 \in 0 .. m /\ \E b : Good(b, 0)
    BY <2>3
  <2> QED
    BY <2>4
<1>2. ASSUME NEW k \in 0 .. m - 1, k \in A PROVE k + 1 \in A
  <2>1. PICK b : Good(b, k)
    BY <1>2
  <2> DEFINE v == b[q[k + 1]] + a[k + 1]
             c == [j \in 0 .. k + 1 |-> IF j = k + 1 THEN v ELSE b[j]]
  <2>2. k + 1 \in 1 .. m /\ k + 1 \in 0 .. m /\ q[k + 1] \in 0 .. k /\ a[k + 1] \in Nat
    BY <1>0, <1>2
  <2>3. b \in [0 .. k -> Nat] /\ b[0] = 0 /\ \A i \in 1 .. k : b[i] = b[q[i]] + a[i]
    BY <2>1
  <2>4. v \in Nat
    BY <2>2, <2>3
  <2>5. c \in [0 .. k + 1 -> Nat] /\ (\A j \in 0 .. k : c[j] = b[j]) /\ c[k + 1] = v
    <3>1. \A j \in 0 .. k + 1 : j = k + 1 \/ j \in 0 .. k
      OBVIOUS
    <3>2. \A j \in 0 .. k : j \in 0 .. k + 1 /\ j # k + 1
      OBVIOUS
    <3>3. k + 1 \in 0 .. k + 1
      OBVIOUS
    <3> HIDE DEF v
    <3> QED
      BY <2>3, <2>4, <3>1, <3>2, <3>3
  <2>6. ASSUME NEW i \in 1 .. k + 1 PROVE c[i] = c[q[i]] + a[i]
    <3>1. CASE i = k + 1
      BY <2>2, <2>5, <3>1
    <3>2. CASE i # k + 1
      <4>1. i \in 1 .. k /\ i \in 0 .. k /\ i \in 1 .. m /\ q[i] \in 0 .. k
        <5>1. i \in 1 .. k /\ i \in 0 .. k /\ i \in 1 .. m
          BY <3>2
        <5>2. q[i] \in 0 .. i - 1
          BY <1>0, <5>1
        <5> QED
          BY <5>1, <5>2
      <4>2. b[i] = b[q[i]] + a[i] /\ c[i] = b[i] /\ c[q[i]] = b[q[i]]
        BY <2>3, <2>5, <4>1
      <4> QED
        BY <4>2
    <3> QED
      BY <3>1, <3>2
  <2>7. Good(c, k + 1)
    <3>1. c[0] = 0
      BY <2>3, <2>5
    <3> HIDE DEF c
    <3> QED
      BY <2>5, <2>6, <3>1
  <2> QED
    BY <2>2, <2>7
<1>3. m \in A
  <2> HIDE DEF A
  <2>1. \A k \in 0 .. m : k \in A
    BY <1>1, <1>2, UpFromZero
  <2> QED
    BY <2>1
<1>4. PICK b : Good(b, m)
  BY <1>3
<1>5. IsDistance(b, q, a, m)
  BY <1>4 DEF IsDistance
<1> QED
  BY <1>5

\* An only sub-feature is behind a dot, if the writer wants.
Dotted(d, how, i) == Len(Children(d, i)) = 1 /\ how[i].dotted

\* How far what is nested in function p, or in none, is behind the place of p.
HeadLen(d, p) == IF p = 0 THEN 1 ELSE SpecLen(d[p]) + 1

\* The functions that are nested in one are behind it, by these offsets.
PlacedBy(d, b, O) ==
  \A p \in 0 .. Len(d) : \A k \in 1 .. Len(Children(d, p)) :
    b[Children(d, p)[k]] = b[p] + HeadLen(d, p) + O[p][k]

\* O has the offsets of what is written for the nested functions.
OffsetsOf(d, W, O) ==
  \A p \in 0 .. Len(d) :
    Offsets(O[p], Subs(d, W, p)) /\ HoldsParts(FlattenSeq(Subs(d, W, p)), O[p], Subs(d, W, p))

\* Everything in the order of its children has one place among them.
LEMMA RankIs ==
  ASSUME NEW d, IsForest(d), NEW i \in 1 .. Len(d)
  PROVE  /\ d[i].parent \in 0 .. i - 1 /\ d[i].parent \in 0 .. Len(d) /\ i \in Nested(d, d[i].parent)
         /\ \E k \in 1 .. Len(Children(d, d[i].parent)) : Children(d, d[i].parent)[k] = i
<1>1. i \in DOMAIN d /\ Len(d) \in Nat
  BY DEF IsForest
<1>2. d[i].parent \in 0 .. i - 1
  BY <1>1 DEF IsForest
<1>3. i \in Nested(d, d[i].parent)
  BY <1>1 DEF Nested
<1>4. d[i].parent \in Nat /\ d[i].parent \in 0 .. Len(d)
  BY <1>1, <1>2
<1>5. Ascending(Children(d, d[i].parent), Nested(d, d[i].parent))
  BY <1>4, ChildrenAscend
<1>6. \E k \in 1 .. Len(Children(d, d[i].parent)) : Children(d, d[i].parent)[k] = i
  BY <1>3, <1>5 DEF Ascending
<1> QED
  BY <1>2, <1>3, <1>4, <1>6

\* A function is once among the functions nested in the same one.
LEMMA RankIsOne ==
  ASSUME NEW d, IsForest(d), NEW p \in 0 .. Len(d), NEW k \in 1 .. Len(Children(d, p))
  PROVE  /\ Children(d, p)[k] \in p + 1 .. Len(d) /\ Children(d, p)[k] \in 1 .. Len(d)
         /\ d[Children(d, p)[k]].parent = p
         /\ \A m \in 1 .. Len(Children(d, p)) : Children(d, p)[m] = Children(d, p)[k] => m = k
<1> DEFINE c == Children(d, p)
           n == Len(c)
<1>1. p \in Nat /\ Len(d) \in Nat
  BY DEF IsForest
<1>2. Ascending(c, Nested(d, p)) /\ Nested(d, p) \subseteq p + 1 .. Len(d)
  BY <1>1, ChildrenAscend, NestedBehind
<1>3. c \in Seq(Nested(d, p)) /\ n \in Nat /\ \A l, m \in 1 .. n : l < m => c[l] < c[m]
  BY <1>2 DEF Ascending
<1>4. \A m \in 1 .. n : c[m] \in Nested(d, p)
  BY <1>3
<1>5. \A m \in 1 .. n : c[m] \in p + 1 .. Len(d)
  BY <1>2, <1>4
<1>6. d[c[k]].parent = p
  BY <1>4 DEF Nested
<1> HIDE DEF c, n
<1>0. k \in 1 .. n
  BY DEF n, c
<1>7. ASSUME NEW m \in 1 .. n, c[m] = c[k], m # k PROVE FALSE
  <2>1. c[m] \in Nat /\ c[k] \in Nat
    BY <1>0, <1>1, <1>5
  <2>2. m < k \/ k < m
    BY <1>0, <1>7
  <2>3. c[m] < c[k] \/ c[k] < c[m]
    BY <1>0, <1>3, <2>2
  <2> QED
    BY <1>7, <2>1, <2>3
<1>8. c[k] \in p + 1 .. Len(d) /\ c[k] \in 1 .. Len(d)
  BY <1>0, <1>1, <1>5
<1> QED
  BY <1>6, <1>7, <1>8 DEF c, n

\* There are places for all functions.
LEMMA PlacesOfAll ==
  ASSUME NEW d, IsForest(d), NEW how \in Hows(d), NEW S, HasSpecs(S, d, how)
  PROVE  \E O : OffsetsOf(d, FunctionsWritten(d, how), O) /\
           \E b \in [0 .. Len(d) -> Nat] : b[0] = 0 /\ PlacedBy(d, b, O)
<1> DEFINE m == Len(d)
           W == FunctionsWritten(d, how)
           Is(p, o) == Offsets(o, Subs(d, W, p)) /\ HoldsParts(FlattenSeq(Subs(d, W, p)), o, Subs(d, W, p))
           O == [p \in 0 .. m |-> CHOOSE o : Is(p, o)]
<1>1. m \in Nat /\ \A i \in 1 .. m : W[i] \in Seq(S)
  <2>1. m \in Nat
    BY DEF IsForest
  <2>2. \A i \in 1 .. m : W[i] \in Seq(S)
    BY WrittenUnfolds, Zenon
  <2> QED
    BY <2>1, <2>2
<1> HIDE DEF W
<1>2. ASSUME NEW p \in 0 .. m
      PROVE  /\ Is(p, O[p]) /\ Len(Subs(d, W, p)) = Len(Children(d, p)) /\ Len(Children(d, p)) \in Nat
  <2>1. p \in Nat /\ \A j \in p + 1 .. m : j \in 1 .. m
    BY <1>1
  <2>2. \A j \in p + 1 .. m : W[j] \in Seq(S)
    BY <1>1, <2>1
  <2>3. Subs(d, W, p) \in Parts(S) /\ Len(Subs(d, W, p)) = Len(Children(d, p)) /\ Len(Children(d, p)) \in Nat
    BY <2>1, <2>2, SubsAre
  <2>4. \E o : Is(p, o)
    BY <2>3, PartsAre
  <2>5. O[p] = CHOOSE o : Is(p, o)
    OBVIOUS
  <2> HIDE DEF Is, O
  <2>6. Is(p, O[p])
    BY <2>4, <2>5, Zenon
  <2> QED
    BY <2>3, <2>6
<1>3. OffsetsOf(d, W, O)
  BY <1>2 DEF OffsetsOf
<1> HIDE DEF O
<1> DEFINE Rank(i) == CHOOSE k \in 1 .. Len(Children(d, d[i].parent)) : Children(d, d[i].parent)[k] = i
           q == [i \in 1 .. m |-> d[i].parent]
           a == [i \in 1 .. m |-> HeadLen(d, d[i].parent) + O[d[i].parent][Rank(i)]]
<1>4. ASSUME NEW i \in 1 .. m
      PROVE  /\ d[i].parent \in 0 .. i - 1 /\ d[i].parent \in 0 .. m
             /\ Rank(i) \in 1 .. Len(Children(d, d[i].parent)) /\ Children(d, d[i].parent)[Rank(i)] = i
  BY RankIs
<1> HIDE DEF Rank
<1>5. \A i \in 1 .. m : q[i] \in 0 .. i - 1 /\ a[i] \in Nat
  <2>1. ASSUME NEW i \in 1 .. m PROVE q[i] \in 0 .. i - 1 /\ a[i] \in Nat
    <3> DEFINE p == d[i].parent
    <3>1. p \in 0 .. i - 1 /\ p \in 0 .. m /\ Rank(i) \in 1 .. Len(Children(d, p))
      BY <1>4
    <3>2. O[p] \in [1 .. Len(Children(d, p)) + 1 -> Nat] /\ Len(Children(d, p)) \in Nat
      BY <1>2, <3>1 DEF Offsets
    <3>3. O[p][Rank(i)] \in Nat
      BY <3>1, <3>2, SMTT(30)
    <3>4. HeadLen(d, p) \in Nat
      <4>1. CASE p = 0
        BY <4>1 DEF HeadLen
      <4>2. CASE p # 0
        <5>1. p \in 1 .. m
          BY <1>1, <3>1, <4>2
        <5>2. SpecLen(d[p]) \in Nat
          BY <5>1, FunctionTyped, LengthsTyped
        <5> QED
          BY <4>2, <5>2 DEF HeadLen
      <4> QED
        BY <4>1, <4>2
    <3> HIDE DEF p
    <3>5. HeadLen(d, p) + O[p][Rank(i)] \in Nat
      BY <3>3, <3>4
    <3> QED
      BY <3>1, <3>5 DEF p
  <2> QED
    BY <2>1
<1>6. \A i \in 1 .. m : q[i] = d[i].parent /\ a[i] = HeadLen(d, d[i].parent) + O[d[i].parent][Rank(i)]
  OBVIOUS
<1> HIDE DEF q, a, m
<1>7. PICK b \in [0 .. m -> Nat] : b[0] = 0 /\ \A i \in 1 .. m : b[i] = b[q[i]] + a[i]
  <2>1. RefersBack(q, a, m)
    BY <1>5 DEF RefersBack
  <2>2. \E b : IsDistance(b, q, a, m)
    BY <1>1, <2>1, PlacesExist
  <2> QED
    BY <2>2 DEF IsDistance
<1>8. ASSUME NEW p \in 0 .. m, NEW k \in 1 .. Len(Children(d, p))
      PROVE  b[Children(d, p)[k]] = b[p] + HeadLen(d, p) + O[p][k]
  <2> DEFINE i == Children(d, p)[k]
  <2>1. i \in 1 .. m /\ d[i].parent = p /\ \A l \in 1 .. Len(Children(d, p)) : Children(d, p)[l] = i => l = k
    BY RankIsOne DEF m
  <2>2. Rank(i) = k
    BY <1>4, <2>1
  <2> HIDE DEF i
  <2>3. b[i] = b[p] + (HeadLen(d, p) + O[p][k])
    BY <1>6, <1>7, <2>1, <2>2
  <2>4. b[p] \in Nat /\ O[p][k] \in Nat /\ HeadLen(d, p) \in Nat
    <3>1. O[p] \in [1 .. Len(Children(d, p)) + 1 -> Nat] /\ Len(Children(d, p)) \in Nat
      BY <1>2 DEF Offsets
    <3>2. O[p][k] \in Nat
      BY <3>1
    <3>3. HeadLen(d, p) \in Nat
      <4>1. CASE p = 0
        BY <4>1 DEF HeadLen
      <4>2. CASE p # 0
        <5>1. p \in 1 .. Len(d)
          BY <1>1, <4>2 DEF m
        <5>2. SpecLen(d[p]) \in Nat
          BY <5>1, FunctionTyped, LengthsTyped
        <5> QED
          BY <4>2, <5>2 DEF HeadLen
      <4> QED
        BY <4>1, <4>2
    <3> QED
      BY <3>2, <3>3
  <2>5. b[i] = b[p] + HeadLen(d, p) + O[p][k]
    BY <2>3, <2>4
  <2> QED
    BY <2>5 DEF i
<1>9. PlacedBy(d, b, O)
  BY <1>8 DEF PlacedBy, m
<1> QED
  BY <1>3, <1>7, <1>9 DEF W, m

\* Every function stands where it is placed.
LEMMA AllStand ==
  ASSUME NEW d, IsForest(d), NEW how \in Hows(d), NEW T, \A i \in 1 .. Len(d) : HasTexts(T, d[i]),
         HasSpecs(ItemsOf(T), d, how), NEW t, t = Written(d, how),
         NEW O, OffsetsOf(d, FunctionsWritten(d, how), O),
         NEW b, b[0] = 0, PlacedBy(d, b, O)
  PROVE  /\ t \in Seq(ItemsOf(T))
         /\ \A i \in 1 .. Len(d) :
              StandsIn(t, b[i], ExtractorSpec(d[i], how[i])) /\
              StandsIn(t, b[i], FunctionsWritten(d, how)[i]) /\
              SubsAt(t, b[i], SpecLen(d[i]), how[i], Subs(d, FunctionsWritten(d, how), i), O[i],
                     Len(FunctionsWritten(d, how)[i]))
<1> DEFINE S == ItemsOf(T)
           m == Len(d)
           W == FunctionsWritten(d, how)
<1>1. m \in Nat
  BY DEF IsForest
<1>2. /\ \A i \in 1 .. m : W[i] \in Seq(S)
      /\ \A i \in 1 .. m : W[i] = WithSubfeatures(d[i], how[i], Subs(d, W, i))
  BY WrittenUnfolds, Zenon
<1>3. t = FlattenSeq(Subs(d, W, 0))
  BY DEF Written, Subs
<1> HIDE DEF W
<1>4. ASSUME NEW p \in 0 .. m
      PROVE  /\ Subs(d, W, p) \in Parts(S) /\ Len(Subs(d, W, p)) = Len(Children(d, p))
             /\ Len(Children(d, p)) \in Nat
             /\ \A k \in 1 .. Len(Children(d, p)) : Subs(d, W, p)[k] = W[Children(d, p)[k]]
             /\ Offsets(O[p], Subs(d, W, p))
             /\ HoldsParts(FlattenSeq(Subs(d, W, p)), O[p], Subs(d, W, p))
  <2>1. p \in Nat /\ \A j \in p + 1 .. m : j \in 1 .. m
    BY <1>1
  <2>2. \A j \in p + 1 .. m : W[j] \in Seq(S)
    BY <1>2, <2>1
  <2>3. /\ Subs(d, W, p) \in Parts(S) /\ Len(Subs(d, W, p)) = Len(Children(d, p))
        /\ Len(Children(d, p)) \in Nat
        /\ \A k \in 1 .. Len(Children(d, p)) : Subs(d, W, p)[k] = W[Children(d, p)[k]]
    <3> HIDE DEF S
    <3>1. \A k \in 1 .. Len(Children(d, p)) : Subs(d, W, p)[k] = W[Children(d, p)[k]]
      <4>1. DOMAIN Children(d, p) = 1 .. Len(Children(d, p))
        BY <2>1, ChildrenAscend DEF Ascending
      <4> QED
        BY <4>1 DEF Subs
    <3>2. /\ Subs(d, W, p) \in Parts(S) /\ Len(Subs(d, W, p)) = Len(Children(d, p))
          /\ Len(Children(d, p)) \in Nat
      BY <2>1, <2>2, SubsAre
    <3> QED
      BY <3>1, <3>2
  <2>4. Offsets(O[p], Subs(d, W, p)) /\ HoldsParts(FlattenSeq(Subs(d, W, p)), O[p], Subs(d, W, p))
    BY DEF OffsetsOf, W
  <2> QED
    BY <2>3, <2>4
<1>5. t \in Seq(S) /\ Len(t) \in Nat
  <2>1. Subs(d, W, 0) \in Parts(S)
    BY <1>1, <1>4
  <2>2. t \in Seq(S)
    BY <1>3, <2>1, PartsAre
  <2> QED
    BY <2>2
<1>6. ASSUME NEW i \in 1 .. m
      PROVE  /\ ExtractorSpec(d[i], how[i]) \in Seq(S)
             /\ Len(ExtractorSpec(d[i], how[i])) = SpecLen(d[i])
  <2>1. IsTyped(d[i], how[i].values) /\ how[i].name \in Texted /\ HasTexts(T, d[i])
    BY FunctionTyped
  <2> QED
    BY <2>1, SpecShaped
<1>7. ASSUME NEW i \in 1 .. m, StandsIn(t, b[i], W[i])
      PROVE  /\ StandsIn(t, b[i], ExtractorSpec(d[i], how[i]))
             /\ SubsAt(t, b[i], SpecLen(d[i]), how[i], Subs(d, W, i), O[i], Len(W[i]))
  <2> DEFINE spec == ExtractorSpec(d[i], how[i])
             subs == Subs(d, W, i)
             x == W[i]
             o == O[i]
             h == how[i]
             at_ == b[i]
  <2>1. i \in 0 .. m
    BY <1>1
  <2>2. subs \in Parts(S) /\ Offsets(o, subs) /\ HoldsParts(FlattenSeq(subs), o, subs)
    BY <1>4, <2>1
  <2>3. HasSigns(S) /\ spec \in Seq(S) /\ Len(spec) = SpecLen(d[i])
    BY <1>6 DEF HasSpecs
  <2>4. SubForm(x, spec, h, subs)
    <3>1. SubForm(WithSubfeatures(d[i], h, subs), spec, h, subs)
      BY <2>2, <2>3, SubFormed
    <3> QED
      BY <1>2, <3>1
  <2>5. x \in Seq(S) /\ StandsIn(t, at_, x)
    BY <1>2, <1>7
  <2> HIDE DEF spec, subs, x, o, h, at_, S
  <2>6. StandsIn(t, at_, spec) /\ SubsAt(t, at_, Len(spec), h, subs, o, Len(x))
    BY <1>5, <2>2, <2>3, <2>4, <2>5, SubsStand
  <2> QED
    BY <2>3, <2>6 DEF spec, subs, x, o, h, at_
<1>8. StandsIn(t, 1, t)
  BY <1>5 DEF StandsIn
<1>9. ASSUME NEW i \in 1 .. m, \A j \in 1 .. i - 1 : StandsIn(t, b[j], W[j])
      PROVE  StandsIn(t, b[i], W[i])
  <2> DEFINE p == d[i].parent
  <2>1. p \in 0 .. i - 1 /\ p \in 0 .. m
    BY RankIs
  <2>2. PICK k \in 1 .. Len(Children(d, p)) : Children(d, p)[k] = i
    BY RankIs
  <2> HIDE DEF p
  <2>3. b[i] = b[p] + HeadLen(d, p) + O[p][k]
    <3>1. b[Children(d, p)[k]] = b[p] + HeadLen(d, p) + O[p][k]
      BY <2>1 DEF PlacedBy
    <3> QED
      BY <2>2, <3>1
  <2> DEFINE subs == Subs(d, W, p)
             o == O[p]
  <2>4. /\ subs \in Parts(S) /\ Len(subs) = Len(Children(d, p)) /\ Len(Children(d, p)) \in Nat
        /\ subs[k] = W[i] /\ Offsets(o, subs) /\ HoldsParts(FlattenSeq(subs), o, subs)
    <3>1. subs[k] = W[Children(d, p)[k]]
      BY <1>4, <2>1
    <3>2. subs[k] = W[i]
      BY <2>2, <3>1
    <3> QED
      BY <1>4, <2>1, <3>2
  <2>5. k \in 1 .. Len(subs) /\ \A l \in 1 .. Len(subs) : Len(subs[l]) \in Nat
    BY <2>4, PartsAre
  <2>6. o[k] \in Nat
    BY <2>4, <2>5 DEF Offsets
  <2>7. CASE p = 0
    <3>1. b[i] = 1 + o[k]
      BY <2>3, <2>6, <2>7 DEF HeadLen
    <3>2. Len(subs) \in Nat /\ HoldsParts(t, o, subs)
      BY <1>3, <2>4, <2>7
    <3> HIDE DEF subs, o, S
    <3>3. StandsIn(t, 1 + o[k], subs[k])
      BY <1>5, <1>8, <2>4, <2>5, <3>2, PartsStand
    <3> QED
      BY <2>4, <3>1, <3>3
  <2>8. CASE p # 0
    <3>1. p \in 1 .. m /\ p \in 1 .. i - 1
      BY <1>1, <2>1, <2>8
    <3>2. StandsIn(t, b[p], W[p])
      BY <1>9, <3>1
    <3>3. SubsAt(t, b[p], SpecLen(d[p]), how[p], subs, o, Len(W[p]))
      BY <1>7, <3>1, <3>2
    <3>4. StandsIn(t, b[p] + SpecLen(d[p]) + 1 + o[k], subs[k])
      <4>1. Len(subs) # 0
        BY <2>5
      <4> QED
        BY <2>5, <3>3, <4>1 DEF SubsAt
    <3>5. b[i] = b[p] + SpecLen(d[p]) + 1 + o[k]
      <4>1. b[p] \in Nat
        BY <3>2 DEF StandsIn
      <4>2. SpecLen(d[p]) \in Nat
        BY <1>6, <3>1
      <4>3. HeadLen(d, p) = SpecLen(d[p]) + 1
        BY <2>8 DEF HeadLen
      <4>4. O[p][k] \in Nat
        BY <2>6
      <4>5. b[i] = b[p] + SpecLen(d[p]) + 1 + O[p][k]
        BY <2>3, <4>1, <4>2, <4>3, <4>4
      <4> QED
        BY <4>5
    <3> QED
      BY <2>4, <3>4, <3>5
  <2> QED
    BY <2>7, <2>8
<1>10. \A i \in 1 .. m : StandsIn(t, b[i], W[i])
  <2> DEFINE A == {k \in 0 .. m : \A j \in 1 .. k : StandsIn(t, b[j], W[j])}
  <2>1. 0 \in A
    BY <1>1
  <2>2. ASSUME NEW k \in 0 .. m - 1, k \in A PROVE k + 1 \in A
    <3>1. k + 1 \in 1 .. m /\ k + 1 \in 0 .. m /\ (k + 1) - 1 = k
      BY <1>1
    <3>2. \A j \in 1 .. k : StandsIn(t, b[j], W[j])
      BY <2>2
    <3>3. StandsIn(t, b[k + 1], W[k + 1])
      BY <1>9, <3>1, <3>2
    <3>4. \A j \in 1 .. k + 1 : j = k + 1 \/ j \in 1 .. k
      BY <3>1
    <3> QED
      BY <3>1, <3>2, <3>3, <3>4
  <2> HIDE DEF A, m, S
  <2>3. \A k \in 0 .. m : k \in A
    BY <1>1, <2>1, <2>2, UpFromZero
  <2>4. m \in A
    BY <1>1, <2>3
  <2> QED
    BY <2>4 DEF A
<1> QED
  BY <1>5, <1>7, <1>10 DEF W, m, S

\* Where the functions of d begin (b) and end (e) in t: each by itself, ...
FunctionLaid(t, d, how, b, e, i) ==
  /\ SpecAt(t, b[i], d[i], how[i])
  /\ b[i] \in Nat \ {0} /\ e[i] \in Nat /\ b[i] + SpecLen(d[i]) <= e[i] /\ e[i] <= Len(t) + 1
  /\ Nested(d, i) = {} => e[i] = b[i] + SpecLen(d[i])
  /\ Nested(d, i) # {} =>
       /\ b[i] + SpecLen(d[i]) <= Len(t) /\ i + 1 \in Nested(d, i)
       /\ b[i + 1] = b[i] + SpecLen(d[i]) + 1
  /\ Nested(d, i) # {} /\ Dotted(d, how, i) =>
       t[b[i] + SpecLen(d[i])] = Sign(".") /\ e[i] = e[i + 1] /\ Nested(d, i) = {i + 1}
  /\ Nested(d, i) # {} /\ ~ Dotted(d, how, i) =>
       t[b[i] + SpecLen(d[i])] = Sign("{") /\ t[e[i] - 1] = Sign("}")

\* ... and those that are nested in p, one behind the other, to the end of t or to the brace.
ChildLaid(t, d, how, b, e, p, c) ==
  /\ \A c2 : IsNext(Nested(d, p), c, c2) => b[c2] = e[c]
  /\ IsLastOf(Nested(d, p), c) /\ p = 0 => e[c] = Len(t) + 1
  /\ IsLastOf(Nested(d, p), c) /\ p # 0 /\ ~ Dotted(d, how, p) => e[c] = e[p] - 1

IsLayout(t, d, how, b, e) ==
  /\ \A i \in 1 .. Len(d) : FunctionLaid(t, d, how, b, e, i)
  /\ \A p \in 0 .. Len(d) : \A c \in Nested(d, p) : ChildLaid(t, d, how, b, e, p, c)
  /\ Len(d) # 0 => b[1] = 1

\* What is written for a forest has a layout.
LEMMA LayoutExists ==
  ASSUME NEW d, IsForest(d), NEW how \in Hows(d)
  PROVE  /\ \E T : Written(d, how) \in Seq(ItemsOf(T))
         /\ \E b, e : IsLayout(Written(d, how), d, how, b, e)
<1> DEFINE m == Len(d)
           W == FunctionsWritten(d, how)
           t == Written(d, how)
<1>1. PICK T : \A i \in 1 .. m : HasTexts(T, d[i])
  BY TextsExist
<1>2. m \in Nat
  BY DEF IsForest
<1>3. ASSUME NEW i \in 1 .. m
      PROVE  /\ ExtractorSpec(d[i], how[i]) \in Seq(ItemsOf(T))
             /\ Len(ExtractorSpec(d[i], how[i])) = SpecLen(d[i]) /\ SpecLen(d[i]) \in Nat \ {0}
             /\ \A u, a : Len(u) \in Nat /\ StandsIn(u, a, ExtractorSpec(d[i], how[i]))
                            => SpecAt(u, a, d[i], how[i])
  <2>1. IsTyped(d[i], how[i].values) /\ how[i].name \in Texted /\ HasTexts(T, d[i])
    BY <1>1, FunctionTyped
  <2>2. SpecLen(d[i]) \in Nat \ {0}
    BY <2>1, LengthsTyped
  <2> QED
    BY <2>1, <2>2, SpecShaped
<1>4. CASE m = 0
  <2> DEFINE z == [i \in {0} |-> 0]
  <2>1. \A p \in 0 .. Len(d) : Nested(d, p) = {}
    <3>1. DOMAIN d = {}
      BY <1>4 DEF IsForest
    <3> QED
      BY <3>1 DEF Nested
  <2>2. IsLayout(t, d, how, z, z)
    <3> HIDE DEF z, t
    <3>1. \A i \in 1 .. Len(d) : FunctionLaid(t, d, how, z, z, i)
      BY <1>4
    <3>2. \A p \in 0 .. Len(d) : \A c \in Nested(d, p) : ChildLaid(t, d, how, z, z, p, c)
      BY <2>1
    <3> QED
      BY <1>4, <3>1, <3>2 DEF IsLayout
  <2>3. t \in Seq(ItemsOf(T))
    <3> DEFINE s == [k \in DOMAIN Children(d, 0) |-> W[Children(d, 0)[k]]]
    <3>1. Ascending(Children(d, 0), Nested(d, 0)) /\ Nested(d, 0) = {}
      BY <1>4, <2>1, ChildrenAscend
    <3>2. DOMAIN Children(d, 0) = {}
      <4>1. Len(Children(d, 0)) = 0
        BY <3>1, FS_EmptySet DEF Ascending
      <4> QED
        BY <3>1, <4>1 DEF Ascending
    <3>3. s = <<>>
      BY <3>2
    <3>4. t = FlattenSeq(s)
      BY DEF Written
    <3>5. t = <<>>
      BY <3>3, <3>4, FlattenNothing
    <3> QED
      BY <3>5
  <2> QED
    BY <2>2, <2>3
<1>5. CASE m # 0
  <2>1. HasSpecs(ItemsOf(T), d, how)
    <3>1. 1 \in 1 .. m
      BY <1>2, <1>5
    <3>2. "" \in T
      BY <1>1, <3>1 DEF HasTexts
    <3>3. HasSigns(ItemsOf(T))
      BY <3>2, SignsAre
    <3> QED
      BY <1>3, <3>3 DEF HasSpecs
  <2>2. PICK O : OffsetsOf(d, W, O) /\ \E b \in [0 .. m -> Nat] : b[0] = 0 /\ PlacedBy(d, b, O)
    BY <2>1, PlacesOfAll
  <2>3. PICK b \in [0 .. m -> Nat] : b[0] = 0 /\ PlacedBy(d, b, O)
    BY <2>2
  <2>4. /\ t \in Seq(ItemsOf(T))
        /\ \A i \in 1 .. m :
             StandsIn(t, b[i], ExtractorSpec(d[i], how[i])) /\ StandsIn(t, b[i], W[i]) /\
             SubsAt(t, b[i], SpecLen(d[i]), how[i], Subs(d, W, i), O[i], Len(W[i]))
    BY <1>1, <2>1, <2>2, <2>3, AllStand
  <2>5. \A i \in 1 .. m : W[i] \in Seq(ItemsOf(T))
    BY <2>1, WrittenUnfolds
  <2> DEFINE e == [i \in 1 .. m |-> b[i] + Len(W[i])]
  <2>6. Len(t) \in Nat /\ \A i \in 1 .. m : e[i] = b[i] + Len(W[i])
    BY <2>4
  <2> HIDE DEF e, W, t
  <2>7. ASSUME NEW p \in 0 .. m
        PROVE  /\ Len(Subs(d, W, p)) = Len(Children(d, p)) /\ Len(Children(d, p)) \in Nat
               /\ Offsets(O[p], Subs(d, W, p))
               /\ \A k \in 1 .. Len(Children(d, p)) :
                    /\ Children(d, p)[k] \in 1 .. m
                    /\ b[Children(d, p)[k]] = b[p] + HeadLen(d, p) + O[p][k]
                    /\ O[p][k] \in Nat /\ O[p][k + 1] \in Nat
                    /\ O[p][k + 1] = O[p][k] + Len(W[Children(d, p)[k]])
                    /\ e[Children(d, p)[k]] = b[p] + HeadLen(d, p) + O[p][k + 1]
               /\ HeadLen(d, p) \in Nat /\ O[p][1] = 0
    <3> DEFINE n == Len(Children(d, p))
    <3>1. p \in Nat /\ \A j \in p + 1 .. m : W[j] \in Seq(ItemsOf(T))
      BY <1>2, <2>5
    <3>2. Len(Subs(d, W, p)) = n /\ n \in Nat /\ Subs(d, W, p) \in Parts(ItemsOf(T))
      BY <3>1, SubsAre
    <3>3. \A k \in 1 .. n : Subs(d, W, p)[k] = W[Children(d, p)[k]]
      <4>1. DOMAIN Children(d, p) = 1 .. Len(Children(d, p))
        BY <3>1, ChildrenAscend DEF Ascending
      <4> QED
        BY <4>1 DEF Subs
    <3>4. Offsets(O[p], Subs(d, W, p))
      BY <2>2 DEF OffsetsOf
    <3>5. /\ O[p] \in [1 .. n + 1 -> Nat] /\ O[p][1] = 0
          /\ \A k \in 1 .. n : O[p][k + 1] = O[p][k] + Len(Subs(d, W, p)[k])
      BY <3>2, <3>4 DEF Offsets
    <3>6. HeadLen(d, p) \in Nat
      <4>1. p # 0 => p \in 1 .. m
        BY <1>2
      <4>2. p # 0 => SpecLen(d[p]) \in Nat
        BY <1>3, <4>1
      <4> QED
        BY <4>2 DEF HeadLen
    <3>7. ASSUME NEW k \in 1 .. n
          PROVE  /\ Children(d, p)[k] \in 1 .. m
                 /\ b[Children(d, p)[k]] = b[p] + HeadLen(d, p) + O[p][k]
                 /\ O[p][k] \in Nat /\ O[p][k + 1] \in Nat
                 /\ O[p][k + 1] = O[p][k] + Len(W[Children(d, p)[k]])
                 /\ e[Children(d, p)[k]] = b[p] + HeadLen(d, p) + O[p][k + 1]
      <4> DEFINE c == Children(d, p)[k]
      <4>1. c \in 1 .. m
        BY RankIsOne
      <4>2. b[c] = b[p] + HeadLen(d, p) + O[p][k]
        BY <2>3 DEF PlacedBy
      <4>3. k \in 1 .. n + 1 /\ k + 1 \in 1 .. n + 1
        BY <3>2
      <4>4. O[p][k] \in Nat /\ O[p][k + 1] \in Nat
        BY <3>5, <4>3
      <4>5. O[p][k + 1] = O[p][k] + Len(W[c])
        BY <3>3, <3>5
      <4>6. e[c] = b[c] + Len(W[c]) /\ Len(W[c]) \in Nat
        <5>1. W[c] \in Seq(ItemsOf(T))
          BY <2>5, <4>1
        <5> QED
          BY <2>6, <4>1, <5>1
      <4>7. b[p] \in Nat
        BY <2>3
      <4> HIDE DEF c
      <4>8. e[c] = b[p] + HeadLen(d, p) + O[p][k + 1]
        BY <3>6, <4>2, <4>4, <4>5, <4>6, <4>7, SMTT(30)
      <4> QED
        BY <4>1, <4>2, <4>4, <4>5, <4>8 DEF c
    <3> QED
      BY <3>2, <3>4, <3>5, <3>6, <3>7
  <2>8. ASSUME NEW i \in 1 .. m PROVE FunctionLaid(t, d, how, b, e, i)
    <3> DEFINE n == Len(Children(d, i))
               l == Len(W[i])
               at_ == b[i]
               g == SpecLen(d[i])
               o == O[i]
               subs == Subs(d, W, i)
    <3>1. i \in 0 .. m /\ i \in Nat /\ i # 0
      BY <1>2
    <3>2. SpecAt(t, at_, d[i], how[i])
      BY <1>3, <2>4, <2>6
    <3>3. at_ \in Nat \ {0} /\ l \in Nat /\ at_ + l - 1 <= Len(t)
      BY <2>4 DEF StandsIn
    <3>4. SubsAt(t, at_, g, how[i], subs, o, l)
      BY <2>4
    <3>5. g \in Nat \ {0} /\ HeadLen(d, i) = g + 1
      BY <1>3, <3>1 DEF HeadLen
    <3>6. Len(subs) = n /\ n \in Nat
      BY <2>7, <3>1
    <3>7. e[i] = at_ + l
      BY <2>6
    <3>8. n = 0 <=> Nested(d, i) = {}
      <4>1. Ascending(Children(d, i), Nested(d, i))
        BY <3>1, ChildrenAscend
      <4>2. n = 0 => Nested(d, i) = {}
        BY <4>1 DEF Ascending
      <4>3. Nested(d, i) # {} => n >= 1
        BY <3>1, FirstChild
      <4>4. Nested(d, i) = {} => n = 0
        <5>1. Nested(d, i) = {} => Cardinality(Nested(d, i)) = 0
          BY FS_EmptySet
        <5> QED
          BY <4>1, <5>1 DEF Ascending
      <4> QED
        BY <4>2, <4>4
    <3>9. n # 0 => /\ i + 1 \in Nested(d, i) /\ 1 \in 1 .. n /\ Children(d, i)[1] = i + 1
      BY <3>1, <3>8, FirstChild
    <3>10. DotForm(how[i], subs) <=> Dotted(d, how, i)
      BY <3>6 DEF DotForm, Dotted
    <3>11. n # 0 => b[i + 1] = at_ + g + 1
      <4>1. n # 0 => b[i + 1] = b[i] + HeadLen(d, i) + O[i][1]
        BY <2>7, <3>1, <3>9
      <4>2. O[i][1] = 0
        BY <2>7, <3>1
      <4> HIDE DEF n, at_, g
      <4>3. ASSUME n # 0 PROVE b[i + 1] = at_ + g + 1
        <5>1. b[i + 1] = at_ + (g + 1) + 0
          BY <3>5, <4>1, <4>2, <4>3 DEF at_
        <5> QED
          BY <3>3, <3>5, <5>1
      <4> QED
        BY <4>3
    <3>12. ASSUME n # 0
           PROVE  /\ at_ + g <= Len(t) /\ o[2] \in Nat /\ o[n + 1] \in Nat
                  /\ Dotted(d, how, i) => t[at_ + g] = Sign(".") /\ l = g + 1 + o[2]
                  /\ ~ Dotted(d, how, i) =>
                       t[at_ + g] = Sign("{") /\ l = g + 2 + o[n + 1] /\ t[at_ + l - 1] = Sign("}")
      <4>1. 1 \in 1 .. n /\ n \in 1 .. n
        BY <3>6, <3>12
      <4>2. O[i][1 + 1] \in Nat /\ O[i][n + 1] \in Nat
        BY <2>7, <3>1, <4>1
      <4> HIDE DEF n, l, at_, g, subs
      <4>3. /\ at_ + g <= Len(t)
            /\ DotForm(how[i], subs) => t[at_ + g] = Sign(".") /\ l = g + 1 + o[2]
            /\ ~ DotForm(how[i], subs) =>
                 t[at_ + g] = Sign("{") /\ l = g + 2 + o[Len(subs) + 1] /\ t[at_ + l - 1] = Sign("}")
        BY <3>4, <3>6, <3>12 DEF SubsAt
      <4>4. o[2] \in Nat /\ o[n + 1] \in Nat
        BY <4>2
      <4>5. o[Len(subs) + 1] = o[n + 1]
        BY <3>6
      <4> QED
        BY <3>10, <4>3, <4>4, <4>5, Zenon
    <3>13. n = 0 => l = g
      BY <3>4, <3>6 DEF SubsAt
    <3>14. Dotted(d, how, i) => e[i + 1] = at_ + (g + 1) + o[2] /\ Nested(d, i) = {i + 1}
      <4>1. ASSUME Dotted(d, how, i) PROVE e[i + 1] = at_ + (g + 1) + o[2] /\ Nested(d, i) = {i + 1}
        <5>1. n = 1 /\ 1 \in 1 .. n /\ Children(d, i)[1] = i + 1
          BY <3>9, <4>1 DEF Dotted
        <5>2. e[i + 1] = b[i] + HeadLen(d, i) + O[i][1 + 1]
          BY <2>7, <3>1, <5>1, ZenonT(30)
        <5>3. Ascending(Children(d, i), Nested(d, i))
          BY <3>1, ChildrenAscend
        <5>4. \A x \in Nested(d, i) : \E k \in 1 .. n : Children(d, i)[k] = x
          BY <5>3 DEF Ascending
        <5>5. \A x \in Nested(d, i) : x = i + 1
          <6>1. \A k \in 1 .. n : k = 1
            BY <5>1
          <6> HIDE DEF n
          <6> QED
            BY <5>1, <5>4, <6>1
        <5>6. i + 1 \in Nested(d, i)
          BY <3>9, <5>1
        <5> QED
          BY <3>5, <5>2, <5>5, <5>6
      <4> QED
        BY <4>1
    <3> HIDE DEF n, l, at_, g, o, subs
    <3>20. n # 0 /\ Dotted(d, how, i) => l = g + 1 + o[2] /\ o[2] \in Nat
      BY <3>12, Zenon
    <3>21. n # 0 /\ ~ Dotted(d, how, i) => l = g + 2 + o[n + 1] /\ o[n + 1] \in Nat
      BY <3>12, Zenon
    <3>15. e[i] <= Len(t) + 1
      BY <2>6, <3>3, <3>7
    <3>16. e[i] \in Nat /\ at_ + g <= e[i]
      <4>1. CASE n = 0
        BY <3>3, <3>5, <3>7, <3>13, <4>1
      <4>2. CASE n # 0
        <5>1. g <= l
          <6>1. CASE Dotted(d, how, i)
            BY <3>3, <3>5, <3>20, <4>2, <6>1
          <6>2. CASE ~ Dotted(d, how, i)
            BY <3>3, <3>5, <3>21, <4>2, <6>2
          <6> QED
            BY <6>1, <6>2
        <5> QED
          BY <3>3, <3>5, <3>7, <5>1
      <4> QED
        BY <4>1, <4>2
    <3>17. n = 0 => e[i] = at_ + g
      BY <3>7, <3>13
    <3>18. n # 0 /\ Dotted(d, how, i) => t[at_ + g] = Sign(".") /\ e[i] = e[i + 1] /\ Nested(d, i) = {i + 1}
      <4>1. ASSUME n # 0, Dotted(d, how, i) PROVE e[i] = e[i + 1]
        <5>1. l = g + 1 + o[2] /\ e[i + 1] = at_ + (g + 1) + o[2] /\ o[2] \in Nat
          BY <3>14, <3>20, <4>1
        <5>2. e[i] = at_ + (g + 1 + o[2])
          BY <3>7, <5>1
        <5> DEFINE x == o[2]
        <5>3. x \in Nat /\ at_ \in Nat /\ g \in Nat
          BY <3>3, <3>5, <5>1
        <5> HIDE DEF x
        <5>4. at_ + (g + 1 + x) = at_ + (g + 1) + x
          BY <5>3
        <5> QED
          BY <5>1, <5>2, <5>4, Zenon DEF x
      <4> QED
        BY <3>12, <3>14, <4>1, Zenon
    <3>19. n # 0 /\ ~ Dotted(d, how, i) => t[at_ + g] = Sign("{") /\ t[e[i] - 1] = Sign("}")
      <4>1. e[i] - 1 = at_ + l - 1
        BY <3>7
      <4> QED
        BY <3>12, <4>1, Zenon
    <3> QED
      BY <3>2, <3>3, <3>5, <3>8, <3>9, <3>11, <3>12, <3>15, <3>16, <3>17, <3>18, <3>19
         DEF FunctionLaid, at_, g
  <2>9. ASSUME NEW p \in 0 .. m, NEW c \in Nested(d, p) PROVE ChildLaid(t, d, how, b, e, p, c)
    <3> DEFINE n == Len(Children(d, p))
               o == O[p]
    <3>1. p \in Nat /\ Nested(d, p) \subseteq Nat
      <4>1. p \in Nat
        OBVIOUS
      <4>2. Nested(d, p) \subseteq p + 1 .. m
        BY <4>1, NestedBehind
      <4> QED
        BY <4>1, <4>2
    <3>2. Ascending(Children(d, p), Nested(d, p))
      BY <3>1, ChildrenAscend
    <3>3. PICK k \in 1 .. n : Children(d, p)[k] = c
      BY <3>2 DEF Ascending
    <3>4. n \in Nat /\ HeadLen(d, p) \in Nat /\ b[p] \in Nat
      BY <2>3, <2>7
    <3>5. e[c] = b[p] + HeadLen(d, p) + o[k + 1]
      BY <2>7, <3>3
    <3>6. ASSUME NEW c2, IsNext(Nested(d, p), c, c2) PROVE b[c2] = e[c]
      <4>1. k + 1 \in 1 .. n /\ c2 = Children(d, p)[k + 1]
        BY <3>1, <3>2, <3>3, <3>6, AscendingOrder, ZenonT(30)
      <4>2. b[c2] = b[p] + HeadLen(d, p) + O[p][k + 1]
        BY <2>7, <4>1
      <4> QED
        BY <3>5, <4>2
    <3>7. ASSUME IsLastOf(Nested(d, p), c) PROVE k = n
      BY <3>1, <3>2, <3>3, <3>7, AscendingOrder
    <3>8. ASSUME IsLastOf(Nested(d, p), c), p = 0 PROVE e[c] = Len(t) + 1
      <4>1. HoldsParts(FlattenSeq(Subs(d, W, 0)), O[0], Subs(d, W, 0))
        BY <2>2, <3>8 DEF OffsetsOf
      <4>2. t = FlattenSeq(Subs(d, W, 0))
        BY DEF t, W, Written, Subs
      <4>3. Len(t) = O[0][Len(Subs(d, W, 0)) + 1]
        BY <4>1, <4>2 DEF HoldsParts
      <4>4. Len(Subs(d, W, p)) = n
        BY <2>7
      <4>5. Len(t) = o[n + 1]
        BY <3>8, <4>3, <4>4
      <4>6. HeadLen(d, p) = 1 /\ b[p] = 0
        BY <2>3, <3>8 DEF HeadLen
      <4> HIDE DEF n, o
      <4>7. e[c] = 0 + 1 + o[n + 1]
        BY <3>5, <3>7, <3>8, <4>6
      <4> QED
        BY <2>6, <4>5, <4>7
    <3>9. ASSUME IsLastOf(Nested(d, p), c), p # 0, ~ Dotted(d, how, p) PROVE e[c] = e[p] - 1
      <4>1. p \in 1 .. m
        BY <1>2, <3>9
      <4>2. SubsAt(t, b[p], SpecLen(d[p]), how[p], Subs(d, W, p), O[p], Len(W[p]))
        BY <2>4, <4>1
      <4>3. Len(Subs(d, W, p)) = n
        BY <2>7
      <4>4. ~ DotForm(how[p], Subs(d, W, p))
        BY <3>9, <4>3 DEF DotForm, Dotted
      <4>5. n # 0
        BY <3>3
      <4>6. Len(W[p]) = SpecLen(d[p]) + 2 + o[n + 1]
        BY <4>2, <4>3, <4>4, <4>5 DEF SubsAt
      <4>7. e[p] = b[p] + Len(W[p])
        BY <2>6, <4>1
      <4>8. HeadLen(d, p) = SpecLen(d[p]) + 1 /\ SpecLen(d[p]) \in Nat
        BY <1>3, <3>9, <4>1 DEF HeadLen
      <4>9. o[n + 1] \in Nat
        <5>1. n \in 1 .. n
          BY <3>4, <4>5
        <5> QED
          BY <2>7, <5>1
      <4> HIDE DEF n, o
      <4>10. e[c] = b[p] + (SpecLen(d[p]) + 1) + o[n + 1]
        BY <3>5, <3>7, <3>9, <4>8
      <4>11. e[p] = b[p] + (SpecLen(d[p]) + 2 + o[n + 1])
        BY <4>6, <4>7
      <4> QED
        BY <3>4, <4>8, <4>9, <4>10, <4>11, SMTT(30)
    <3> QED
      BY <3>6, <3>8, <3>9 DEF ChildLaid
  <2>10. b[1] = 1
    <3>1. Nested(d, 0) # {} 
      <4>1. 1 \in 1 .. m
        BY <1>2, <1>5
      <4>2. d[1].parent \in 0 .. 1 - 1 /\ 1 \in Nested(d, d[1].parent)
        BY <4>1, RankIs
      <4>3. d[1].parent = 0
        BY <4>2
      <4> QED
        BY <4>2, <4>3
    <3>2. 1 \in 1 .. Len(Children(d, 0)) /\ Children(d, 0)[1] = 0 + 1
      BY <3>1, FirstChild
    <3>3. 0 \in 0 .. m
      BY <1>2
    <3>4. b[Children(d, 0)[1]] = b[0] + HeadLen(d, 0) + O[0][1] /\ O[0][1] = 0
      BY <2>7, <3>2, <3>3
    <3>5. HeadLen(d, 0) = 1
      BY DEF HeadLen
    <3> QED
      BY <2>3, <3>2, <3>4, <3>5
  <2>11. IsLayout(t, d, how, b, e)
    BY <2>8, <2>9, <2>10 DEF IsLayout
  <2> QED
    BY <2>4, <2>11 DEF t
<1> QED
  BY <1>4, <1>5

-----------------------------------------------------------------------------
(* What the parser reads where *)

\* The type of item i of t.
TypeAt(t, i) == IF i > Len(t) THEN "END" ELSE t[i].type

\* What is read of function f by itself, which begins at b.
SpecReads(t, b, f) ==
  /\ t[b].type = "NAME" /\ t[b].text = f.type
  /\ ListLen(f) # 0 =>
       /\ t[b + 1].type = "(" /\ t[b + ListLen(f)].type = ")"
       /\ Arg(f) = 1 => t[b + 2].type = "NUMBER" /\ t[b + 2].text = f.argument
       /\ \A j \in 1 .. Len(f.parameters) :
            /\ t[b + Behind(f, j) - 3].type = "NAME"
            /\ t[b + Behind(f, j) - 3].text = f.parameters[j][1]
            /\ t[b + Behind(f, j) - 1].type \in Texted
            /\ t[b + Behind(f, j) - 1].text = f.parameters[j][2]
            /\ j > 1 \/ Arg(f) = 1 => t[b + Behind(f, j) - 4].type = ","
  /\ f.name # "" =>
       /\ t[b + ListLen(f) + 1].type = ":"
       /\ t[b + ListLen(f) + 2].type \in Texted /\ t[b + ListLen(f) + 2].text = f.name

\* The type and the text of an item.
LEMMA ItemIs == ASSUME NEW x, NEW y PROVE Item(x, y).type = x /\ Item(x, y).text = y
BY DEF Item

\* A sign has the type that it stands for.
LEMMA SignIs == ASSUME NEW x PROVE Sign(x).type = x
BY DEF Sign, Item

\* Where a function's own part stands, the parser's tests find its parts in
\* order.
LEMMA SpecRead ==
  ASSUME NEW t, NEW b, NEW f, NEW how, SpecAt(t, b, f, how), how.name \in Texted,
         IsTyped(f, how.values)
  PROVE  SpecReads(t, b, f)
<1>1. t[b].type = "NAME" /\ t[b].text = f.type
  <2>1. t[b] = Item("NAME", f.type)
    BY DEF SpecAt
  <2> QED
    BY <2>1, ItemIs
<1>2. ASSUME ListLen(f) # 0
      PROVE  /\ t[b + 1].type = "(" /\ t[b + ListLen(f)].type = ")"
             /\ Arg(f) = 1 => t[b + 2].type = "NUMBER" /\ t[b + 2].text = f.argument
  <2>1. t[b + 1] = Sign("(") /\ t[b + ListLen(f)] = Sign(")")
    BY <1>2 DEF SpecAt
  <2>2. ASSUME Arg(f) = 1 PROVE t[b + 2] = Item("NUMBER", f.argument)
    BY <1>2, <2>2 DEF SpecAt
  <2> QED
    BY <2>1, <2>2, ItemIs, SignIs
<1>3. ASSUME ListLen(f) # 0, NEW j \in 1 .. Len(f.parameters)
      PROVE  /\ t[b + Behind(f, j) - 3].type = "NAME"
             /\ t[b + Behind(f, j) - 3].text = f.parameters[j][1]
             /\ t[b + Behind(f, j) - 1].type \in Texted
             /\ t[b + Behind(f, j) - 1].text = f.parameters[j][2]
             /\ j > 1 \/ Arg(f) = 1 => t[b + Behind(f, j) - 4].type = ","
  <2>1. t[b + Behind(f, j) - 3] = Item("NAME", f.parameters[j][1])
    BY <1>3, Zenon DEF SpecAt
  <2>2. t[b + Behind(f, j) - 1] = Item(how.values[j], f.parameters[j][2])
    BY <1>3, Zenon DEF SpecAt
  <2>3. ASSUME j > 1 \/ Arg(f) = 1 PROVE t[b + Behind(f, j) - 4] = Sign(",")
    BY <1>3, <2>3, Zenon DEF SpecAt
  <2>4. how.values[j] \in Texted
    BY DEF IsTyped
  <2>5. t[b + Behind(f, j) - 3].type = "NAME" /\ t[b + Behind(f, j) - 3].text = f.parameters[j][1]
    BY <2>1, ItemIs
  <2>6. t[b + Behind(f, j) - 1].type \in Texted /\ t[b + Behind(f, j) - 1].text = f.parameters[j][2]
    BY <2>2, <2>4, ItemIs
  <2>7. ASSUME j > 1 \/ Arg(f) = 1 PROVE t[b + Behind(f, j) - 4].type = ","
    BY <2>3, <2>7, SignIs
  <2> QED
    BY <2>5, <2>6, <2>7
<1>4. ASSUME f.name # ""
      PROVE  /\ t[b + ListLen(f) + 1].type = ":"
             /\ t[b + ListLen(f) + 2].type \in Texted /\ t[b + ListLen(f) + 2].text = f.name
  <2>1. t[b + ListLen(f) + 1] = Sign(":") /\ t[b + ListLen(f) + 2] = Item(how.name, f.name)
    BY <1>4, Zenon DEF SpecAt
  <2> QED
    BY <2>1, ItemIs, SignIs
<1> QED
  BY <1>1, <1>2, <1>3, <1>4 DEF SpecReads

\* d is a forest, written in t with this layout.
IsPlan(t, d, how, b, e) ==
  IsForest(d) /\ how \in Hows(d) /\ Len(t) \in Nat /\ IsLayout(t, d, how, b, e)

\* What is read of function i and its sub-features.
ReadsAt(t, d, how, b, e, i) ==
  /\ b[i] \in Nat \ {0} /\ e[i] \in Nat /\ b[i] + SpecLen(d[i]) <= e[i] /\ e[i] <= Len(t) + 1
  /\ SpecLen(d[i]) \in Nat \ {0} /\ b[i] <= Len(t)
  /\ SpecReads(t, b[i], d[i]) /\ IsTyped(d[i], how[i].values) /\ how[i].dotted \in BOOLEAN
  /\ Nested(d, i) = {} => e[i] = b[i] + SpecLen(d[i])
  /\ Nested(d, i) # {} =>
       /\ b[i] + SpecLen(d[i]) <= Len(t) /\ i + 1 \in Nested(d, i)
       /\ b[i + 1] = b[i] + SpecLen(d[i]) + 1
  /\ Nested(d, i) # {} /\ Dotted(d, how, i) =>
       t[b[i] + SpecLen(d[i])].type = "." /\ e[i] = e[i + 1] /\ Nested(d, i) = {i + 1}
  /\ Nested(d, i) # {} /\ ~ Dotted(d, how, i) =>
       t[b[i] + SpecLen(d[i])].type = "{" /\ t[e[i] - 1].type = "}"

\* By the plan of a text every function is read where it begins.
LEMMA LaidReads ==
  ASSUME NEW t, NEW d, NEW how, NEW b, NEW e, IsPlan(t, d, how, b, e), NEW i \in 1 .. Len(d)
  PROVE  ReadsAt(t, d, how, b, e, i)
<1>0. IsForest(d) /\ how \in Hows(d) /\ Len(t) \in Nat /\ IsLayout(t, d, how, b, e)
  BY DEF IsPlan
<1>1. FunctionLaid(t, d, how, b, e, i)
  BY <1>0 DEF IsLayout
<1>2. IsTyped(d[i], how[i].values) /\ how[i].name \in Texted /\ how[i].dotted \in BOOLEAN
  BY <1>0, FunctionTyped
<1>3. SpecLen(d[i]) \in Nat \ {0}
  BY <1>2, LengthsTyped
<1>4. SpecAt(t, b[i], d[i], how[i])
  BY <1>1 DEF FunctionLaid
<1>5. SpecReads(t, b[i], d[i])
  BY <1>2, <1>4, SpecRead
<1>6. b[i] \in Nat \ {0} /\ e[i] \in Nat /\ b[i] + SpecLen(d[i]) <= e[i] /\ e[i] <= Len(t) + 1
  BY <1>1 DEF FunctionLaid
<1>7. b[i] <= Len(t)
  BY <1>0, <1>3, <1>6
<1>8. /\ Nested(d, i) = {} => e[i] = b[i] + SpecLen(d[i])
      /\ Nested(d, i) # {} =>
           /\ b[i] + SpecLen(d[i]) <= Len(t) /\ i + 1 \in Nested(d, i)
           /\ b[i + 1] = b[i] + SpecLen(d[i]) + 1
  BY <1>1, Zenon DEF FunctionLaid
<1>9. ASSUME Nested(d, i) # {}, Dotted(d, how, i)
      PROVE  t[b[i] + SpecLen(d[i])].type = "." /\ e[i] = e[i + 1] /\ Nested(d, i) = {i + 1}
  <2>1. t[b[i] + SpecLen(d[i])] = Sign(".") /\ e[i] = e[i + 1] /\ Nested(d, i) = {i + 1}
    BY <1>1, <1>9, Zenon DEF FunctionLaid
  <2> QED
    BY <2>1, SignIs, Zenon
<1>10. ASSUME Nested(d, i) # {}, ~ Dotted(d, how, i)
       PROVE  t[b[i] + SpecLen(d[i])].type = "{" /\ t[e[i] - 1].type = "}"
  <2>1. t[b[i] + SpecLen(d[i])] = Sign("{") /\ t[e[i] - 1] = Sign("}")
    BY <1>1, <1>10, Zenon DEF FunctionLaid
  <2> QED
    BY <2>1, SignIs, Zenon
<1> QED
  BY <1>2, <1>3, <1>5, <1>6, <1>7, <1>8, <1>9, <1>10, Zenon DEF ReadsAt

\* What may come behind a function: another one, a brace, or the end.
Ends(t, e, i) == TypeAt(t, e[i]) \in {"NAME", "}", "END"}

\* The type of an item of t, and behind t.
LEMMA TypeIs ==
  ASSUME NEW t, Len(t) \in Nat, NEW i \in Nat
  PROVE  /\ i <= Len(t) => TypeAt(t, i) = t[i].type
         /\ i > Len(t) => TypeAt(t, i) = "END"
BY DEF TypeAt

\* The function nested next, where there is one.
LEMMA NextExists ==
  ASSUME NEW d, IsForest(d), NEW p \in Nat, NEW i \in Nested(d, p), ~ IsLastOf(Nested(d, p), i)
  PROVE  \E y \in 1 .. Len(d) : IsNext(Nested(d, p), i, y)
<1> DEFINE S == Nested(d, p)
           R == {x \in S : x > i}
<1>1. S \subseteq p + 1 .. Len(d) /\ Len(d) \in Nat
  BY NestedBehind
<1> HIDE DEF S
<1>2. \A x \in S : x \in Nat /\ x \in 1 .. Len(d)
  BY <1>1
<1>3. i \in S /\ ~ IsLastOf(S, i)
  BY DEF S
<1>4. R # {} /\ R \in SUBSET Nat
  <2>1. PICK x \in S : ~ x <= i
    BY <1>3 DEF IsLastOf
  <2>2. x > i
    BY <1>2, <1>3, <2>1
  <2> QED
    BY <1>2, <2>1, <2>2
<1>5. PICK y \in R : \A x \in R : y <= x
  BY <1>4, LeastExists
<1>6. y \in S /\ i < y
  BY <1>2, <1>3, <1>5
<1>7. ASSUME NEW x \in S PROVE x <= i \/ x >= y
  <2>1. x \in Nat /\ y \in Nat /\ i \in Nat
    BY <1>2, <1>3, <1>6
  <2>2. x > i => y <= x
    BY <1>5
  <2> QED
    BY <2>1, <2>2
<1>8. IsNext(S, i, y) /\ y \in 1 .. Len(d)
  BY <1>2, <1>6, <1>7 DEF IsNext
<1> QED
  BY <1>8 DEF S

\* What is behind a function of the plan is what its place in the tree
\* calls for.
LEMMA AtEnd ==
  ASSUME NEW t, NEW d, NEW how, NEW b, NEW e, IsPlan(t, d, how, b, e)
  PROVE  \A i \in 1 .. Len(d) : Ends(t, e, i)
<1> DEFINE m == Len(d)
<1>1. m \in Nat /\ Len(t) \in Nat /\ IsForest(d) /\ IsLayout(t, d, how, b, e)
  BY DEF IsPlan, IsForest
<1>0. \A i \in 1 .. m : ReadsAt(t, d, how, b, e, i)
  BY LaidReads
<1>2. ASSUME NEW i \in 1 .. m, \A j \in 1 .. i - 1 : Ends(t, e, j) PROVE Ends(t, e, i)
  <2> DEFINE p == d[i].parent
             S == Nested(d, p)
  <2>1. p \in 0 .. i - 1 /\ p \in 0 .. m /\ i \in S /\ p \in Nat
    <3>1. p \in 0 .. i - 1 /\ p \in 0 .. m /\ i \in S
      BY <1>1, RankIs
    <3> QED
      BY <3>1
  <2>2. ChildLaid(t, d, how, b, e, p, i)
    BY <1>1, <2>1 DEF IsLayout
  <2>3. e[i] \in Nat
    BY <1>0 DEF ReadsAt
  <2> HIDE DEF p
  <2>4. CASE IsLastOf(S, i)
    <3>1. CASE p = 0
      <4>1. e[i] = Len(t) + 1
        BY <2>2, <2>4, <3>1 DEF ChildLaid
      <4>2. e[i] > Len(t)
        BY <1>1, <4>1
      <4>3. TypeAt(t, e[i]) = "END"
        BY <1>1, <2>3, <4>2, TypeIs
      <4> QED
        BY <4>3 DEF Ends
    <3>2. CASE p # 0 /\ ~ Dotted(d, how, p)
      <4>1. e[i] = e[p] - 1
        BY <2>2, <2>4, <3>2 DEF ChildLaid
      <4>2. p \in 1 .. m /\ S # {}
        BY <1>1, <2>1, <3>2
      <4>3. t[e[p] - 1].type = "}" /\ e[p] \in Nat /\ e[p] <= Len(t) + 1
        BY <1>0, <3>2, <4>2, Zenon DEF ReadsAt
      <4>6. e[p] \in Nat /\ e[p] <= Len(t) + 1 /\ Len(t) \in Nat
        BY <1>1, <4>3, Zenon
      <4>4. e[i] <= Len(t)
        BY <4>1, <4>6
      <4>5. TypeAt(t, e[i]) = "}"
        BY <1>1, <2>3, <4>1, <4>3, <4>4, TypeIs
      <4> QED
        BY <4>5 DEF Ends
    <3>3. CASE p # 0 /\ Dotted(d, how, p)
      <4>2. p \in 1 .. m /\ S # {} /\ p \in 1 .. i - 1
        BY <1>1, <2>1, <3>3
      <4>3. e[p] = e[p + 1] /\ S = {p + 1}
        BY <1>0, <3>3, <4>2, Zenon DEF ReadsAt
      <4>4. e[i] = e[p]
        BY <2>1, <4>3
      <4>5. Ends(t, e, p)
        BY <1>2, <4>2
      <4> QED
        BY <4>4, <4>5 DEF Ends
    <3> QED
      BY <3>1, <3>2, <3>3
  <2>5. CASE ~ IsLastOf(S, i)
    <3>1. PICK y \in 1 .. m : IsNext(S, i, y)
      BY <1>1, <2>1, <2>5, NextExists
    <3>2. b[y] = e[i]
      BY <2>2, <3>1 DEF ChildLaid
    <3>3. t[b[y]].type = "NAME" /\ b[y] <= Len(t)
      BY <1>0, Zenon DEF ReadsAt, SpecReads
    <3>4. TypeAt(t, e[i]) = "NAME"
      BY <1>1, <2>3, <3>2, <3>3, TypeIs
    <3> QED
      BY <3>4 DEF Ends
  <2> QED
    BY <2>4, <2>5
<1>3. \A i \in 1 .. m : Ends(t, e, i)
  <2> DEFINE A == {k \in 0 .. m : \A j \in 1 .. k : Ends(t, e, j)}
  <2>1. 0 \in A
    BY <1>1
  <2>2. ASSUME NEW k \in 0 .. m - 1, k \in A PROVE k + 1 \in A
    <3>1. k + 1 \in 1 .. m /\ k + 1 \in 0 .. m /\ (k + 1) - 1 = k
      BY <1>1
    <3>2. \A j \in 1 .. k : Ends(t, e, j)
      BY <2>2
    <3>3. Ends(t, e, k + 1)
      BY <1>2, <3>1, <3>2
    <3>4. \A j \in 1 .. k + 1 : j = k + 1 \/ j \in 1 .. k
      BY <3>1
    <3> QED
      BY <3>1, <3>2, <3>3, <3>4
  <2> HIDE DEF A, m
  <2>3. \A k \in 0 .. m : k \in A
    BY <1>1, <2>1, <2>2, UpFromZero
  <2>4. m \in A
    BY <1>1, <2>3
  <2> QED
    BY <2>4 DEF A
<1> QED
  BY <1>3

\* Behind a function by itself comes what opens its sub-features, or what comes
\* behind it.
Follows(t, d, how, b, i) ==
  LET type == TypeAt(t, b[i] + SpecLen(d[i]))
  IN /\ type \in {"NAME", "}", "END", ".", "{"}
     /\ type = "." => Nested(d, i) # {} /\ Dotted(d, how, i)
     /\ type = "{" => Nested(d, i) # {} /\ ~ Dotted(d, how, i)
     /\ type \notin {".", "{"} => Nested(d, i) = {}

\* What is behind a function's own part is a subfeature's sign or what ends
\* it.
LEMMA AtFollow ==
  ASSUME NEW t, NEW d, NEW how, NEW b, NEW e, IsPlan(t, d, how, b, e), NEW i \in 1 .. Len(d)
  PROVE  Follows(t, d, how, b, i)
<1> DEFINE a == b[i] + SpecLen(d[i])
<1>1. ReadsAt(t, d, how, b, e, i) /\ Len(t) \in Nat
  BY LaidReads DEF IsPlan
<1>2. a \in Nat
  <2>1. b[i] \in Nat \ {0} /\ SpecLen(d[i]) \in Nat \ {0}
    BY <1>1, Zenon DEF ReadsAt
  <2> QED
    BY <2>1
<1>3. CASE Nested(d, i) = {}
  <2>1. a = e[i]
    BY <1>1, <1>3, Zenon DEF ReadsAt
  <2>2. TypeAt(t, a) \in {"NAME", "}", "END"}
    BY <2>1, AtEnd DEF Ends
  <2> HIDE DEF a
  <2>3. TypeAt(t, a) \notin {".", "{"}
    BY <2>2
  <2> QED
    BY <1>3, <2>2, <2>3 DEF Follows, a
<1>4. CASE Nested(d, i) # {} /\ Dotted(d, how, i)
  <2>1. a <= Len(t) /\ t[a].type = "."
    BY <1>1, <1>4, Zenon DEF ReadsAt
  <2> HIDE DEF a
  <2>2. TypeAt(t, a) = "."
    BY <1>1, <1>2, <2>1, TypeIs
  <2> QED
    BY <1>4, <2>2 DEF Follows, a
<1>5. CASE Nested(d, i) # {} /\ ~ Dotted(d, how, i)
  <2>1. a <= Len(t) /\ t[a].type = "{"
    BY <1>1, <1>5, Zenon DEF ReadsAt
  <2> HIDE DEF a
  <2>2. TypeAt(t, a) = "{"
    BY <1>1, <1>2, <2>1, TypeIs
  <2> QED
    BY <1>5, <2>2 DEF Follows, a
<1> QED
  BY <1>3, <1>4, <1>5

-----------------------------------------------------------------------------
(* The parser *)

\* Function f as far as it is read: with its argument, if x = 1, and r parameters.
ReadSoFar(f, x, r) ==
  [type |-> f.type, name |-> "", argument |-> IF x = 1 THEN f.argument ELSE 0,
   parameters |-> [j \in 1 .. r |-> f.parameters[j]], parent |-> f.parent]

\* The first n functions of d, with f as the last.
Made(d, n, f) == [i \in 1 .. n |-> IF i = n THEN f ELSE d[i]]

\* Call k of c is one of ParseFeature for a function of which n is part.
CallStands(c, d, how, n, k) ==
  /\ c[k].function \in 1 .. n
  /\ d[c[k].function].parent = IF k = 1 THEN 0 ELSE c[k - 1].function
  /\ \A j \in c[k].function + 1 .. n : d[j].parent >= c[k].function
  /\ k < Len(c) => (c[k].block <=> ~ Dotted(d, how, c[k].function))

\* Function n + 1 is for one of the calls c, or for Parse.
Awaited(c, d, n) ==
  n < Len(d) => d[n + 1].parent = 0 \/ \E k \in 1 .. Len(c) : d[n + 1].parent = c[k].function

\* The calls c after n functions.
CallsStand(c, d, how, n) ==
  /\ c \in Seq([function : Nat, block : BOOLEAN])
  /\ \A k \in 1 .. Len(c) : CallStands(c, d, how, n, k)
  /\ \A k, m \in 1 .. Len(c) : k < m => c[k].function < c[m].function
  /\ Awaited(c, d, n)

\* The function that the innermost call is for.
TopOf(c) == c[Len(c)].function

\* Where it goes on after n functions, in function p or in none.
NextIn(t, d, b, e, n, p) ==
  IF n < Len(d) /\ d[n + 1].parent = p THEN b[n + 1]
  ELSE IF p = 0 THEN Len(t) + 1 ELSE e[p] - 1

\* ParseFeature is called for the next function.
LEMMA Called ==
  ASSUME NEW c, NEW d, IsForest(d), NEW how, NEW n \in 0 .. Len(d), CallsStand(c, d, how, n),
         n < Len(d),
         IF c = <<>> THEN d[n + 1].parent = 0
         ELSE /\ d[n + 1].parent = TopOf(c)
              /\ c[Len(c)].block <=> ~ Dotted(d, how, TopOf(c))
  PROVE  LET c2 == Append(c, [function |-> n + 1, block |-> FALSE])
         IN /\ CallsStand(c2, d, how, n + 1)
            /\ c2 # <<>> /\ TopOf(c2) = n + 1 /\ c2[Len(c2)].block = FALSE
<1> DEFINE C == [function : Nat, block : BOOLEAN]
           r == [function |-> n + 1, block |-> FALSE]
           c2 == Append(c, r)
           l == Len(c)
           q == d[n + 1].parent
<1>1. Len(d) \in Nat /\ DOMAIN d = 1 .. Len(d)
  BY DEF IsForest
<1>2. n \in Nat /\ n + 1 \in 1 .. Len(d)
  BY <1>1
<1>3. c \in Seq(C) /\ l \in Nat
  BY DEF CallsStand
<1>4. r \in C /\ r.function = n + 1 /\ r.block = FALSE
  BY <1>2
<1>5. c2 \in Seq(C) /\ Len(c2) = l + 1 /\ c2[l + 1] = r /\ \A k \in 1 .. l : c2[k] = c[k]
  <2> HIDE DEF C, r
  <2> QED
    BY <1>3, <1>4
<1> HIDE DEF C, r, c2
<1>6. \A k \in 1 .. l : CallStands(c, d, how, n, k)
  BY DEF CallsStand
<1>7. \A k, m \in 1 .. l : k < m => c[k].function < c[m].function
  BY DEF CallsStand
<1>8. c # <<>> <=> l # 0
  BY <1>3
<1>9. l # 0 => q = c[l].function /\ (c[l].block <=> ~ Dotted(d, how, c[l].function))
  BY <1>8 DEF TopOf
<1>10. l = 0 => q = 0
  BY <1>8
<1>11. \A k \in 1 .. l : c[k].function \in 1 .. n
  BY <1>6 DEF CallStands
<1>12. \A k \in 1 .. l : c[k].function <= q
  <2>1. ASSUME NEW k \in 1 .. l PROVE c[k].function <= q
    <3>1. l # 0 /\ l \in 1 .. l
      BY <1>3
    <3>2. k = l \/ k < l
      BY <1>3
    <3>3. c[k].function \in Nat /\ c[l].function \in Nat
      BY <1>2, <1>11, <3>1
    <3> QED
      BY <1>7, <1>9, <3>1, <3>2, <3>3
  <2> QED
    BY <2>1
<1>13. ASSUME NEW k \in 1 .. l PROVE CallStands(c2, d, how, n + 1, k)
  <2> DEFINE f == c[k].function
  <2>1. /\ f \in 1 .. n /\ d[f].parent = (IF k = 1 THEN 0 ELSE c[k - 1].function)
        /\ \A j \in f + 1 .. n : d[j].parent >= f
        /\ k < l => (c[k].block <=> ~ Dotted(d, how, f))
    BY <1>6 DEF CallStands
  <2>2. c2[k] = c[k] /\ k # l + 1
    BY <1>3, <1>5
  <2>3. k # 1 => c2[k - 1] = c[k - 1]
    <3>1. k # 1 => k - 1 \in 1 .. l
      BY <1>3
    <3> QED
      BY <1>5, <3>1
  <2>4. f \in 1 .. n + 1
    BY <1>2, <2>1
  <2>5. \A j \in f + 1 .. n + 1 : d[j].parent >= f
    <3>1. \A j \in f + 1 .. n + 1 : j \in f + 1 .. n \/ j = n + 1
      BY <1>2, <2>4
    <3>2. q >= f
      <4>1. f <= q /\ f \in Int
        BY <1>12, <2>4
      <4> QED
        BY <4>1
    <3> QED
      BY <2>1, <3>1, <3>2
  <2>6. c[k].block <=> ~ Dotted(d, how, f)
    <3>1. k = l \/ k < l
      BY <1>3
    <3>2. l # 0
      BY <1>3
    <3> QED
      BY <1>9, <2>1, <3>1, <3>2
  <2> QED
    BY <2>1, <2>2, <2>3, <2>4, <2>5, <2>6 DEF CallStands
<1>14. CallStands(c2, d, how, n + 1, l + 1)
  <2>1. c2[l + 1].function = n + 1
    BY <1>4, <1>5
  <2>2. d[n + 1].parent = IF l + 1 = 1 THEN 0 ELSE c2[l].function
    <3>1. CASE l = 0
      BY <1>10, <3>1
    <3>2. CASE l # 0
      <4>1. l \in 1 .. l /\ l + 1 # 1
        BY <1>3, <3>2
      <4> QED
        BY <1>5, <1>9, <3>2, <4>1
    <3> QED
      BY <3>1, <3>2
  <2>3. n + 1 \in 1 .. n + 1 /\ (n + 1) + 1 .. n + 1 = {} /\ (l + 1) - 1 = l /\ ~ (l + 1 < Len(c2))
    BY <1>2, <1>3, <1>5
  <2> QED
    BY <2>1, <2>2, <2>3 DEF CallStands
<1>15. \A k \in 1 .. l + 1 : k = l + 1 \/ k \in 1 .. l
  BY <1>3
<1>16. \A k \in 1 .. Len(c2) : CallStands(c2, d, how, n + 1, k)
  BY <1>5, <1>13, <1>14, <1>15
<1>17. \A k, m \in 1 .. Len(c2) : k < m => c2[k].function < c2[m].function
  <2>1. ASSUME NEW k \in 1 .. l + 1, NEW m \in 1 .. l + 1, k < m PROVE c2[k].function < c2[m].function
    <3>1. k \in 1 .. l
      BY <1>3, <2>1
    <3>2. CASE m \in 1 .. l
      BY <1>5, <1>7, <2>1, <3>1, <3>2
    <3>3. CASE m = l + 1
      <4>1. c2[m].function = n + 1
        BY <1>4, <1>5, <3>3
      <4>2. c2[k].function \in 1 .. n
        BY <1>5, <1>11, <3>1
      <4> QED
        BY <1>2, <4>1, <4>2
    <3> QED
      BY <1>15, <3>2, <3>3
  <2> QED
    BY <1>5, <2>1
<1>18. Awaited(c2, d, n + 1)
  <2>1. ASSUME n + 1 < Len(d)
        PROVE  d[(n + 1) + 1].parent = 0 \/ \E k \in 1 .. Len(c2) : d[(n + 1) + 1].parent = c2[k].function
    <3> DEFINE i == (n + 1) + 1
               p == d[i].parent
    <3>1. i \in DOMAIN d /\ i \in Nat /\ i - 1 = n + 1
      BY <1>1, <1>2, <2>1
    <3>2. p \in 0 .. i - 1 /\ \A j \in p + 1 .. i - 1 : d[j].parent >= p
      BY <3>1 DEF IsForest
    <3> HIDE DEF p, i
    <3> DEFINE R == {k \in 1 .. l + 1 : c2[k].function >= p}
    <3>3. l + 1 \in R
      <4>1. c2[l + 1].function = n + 1
        BY <1>4, <1>5
      <4>2. l + 1 \in 1 .. l + 1 /\ n + 1 >= p
        BY <1>2, <1>3, <3>1, <3>2
      <4> QED
        BY <4>1, <4>2
    <3>4. R \in SUBSET Nat
      BY <1>3
    <3>5. PICK k \in R : \A y \in R : k <= y
      BY <3>3, <3>4, LeastExists
    <3>6. k \in 1 .. l + 1 /\ c2[k].function >= p /\ \A y \in 1 .. l + 1 : c2[y].function >= p => k <= y
      BY <3>5
    <3> HIDE DEF R
    <3>7. ASSUME c2[k].function # p PROVE p = 0
      <4> DEFINE f == c2[k].function
      <4>1. f \in 1 .. n + 1 /\ d[f].parent = (IF k = 1 THEN 0 ELSE c2[k - 1].function)
        BY <1>5, <1>16, <3>6 DEF CallStands
      <4> HIDE DEF f
      <4>2. f >= p /\ f # p
        BY <3>6, <3>7 DEF f
      <4>3. f \in p + 1 .. i - 1
        BY <1>2, <3>1, <3>2, <4>1, <4>2
      <4>4. d[f].parent >= p
        BY <3>2, <4>3
      <4>5. CASE k = 1
        BY <3>2, <4>1, <4>4, <4>5
      <4>6. CASE k # 1
        <5>1. k - 1 \in 1 .. l + 1 /\ ~ (k <= k - 1)
          BY <1>3, <3>6, <4>6
        <5>2. c2[k - 1].function >= p
          BY <4>1, <4>4, <4>6
        <5> QED
          BY <3>6, <5>1, <5>2
      <4> QED
        BY <4>5, <4>6
    <3>9. p = 0 \/ \E m \in 1 .. Len(c2) : p = c2[m].function
      BY <1>5, <3>6, <3>7
    <3> QED
      BY <3>9 DEF p, i
  <2> QED
    BY <2>1 DEF Awaited
<1>19. CallsStand(c2, d, how, n + 1)
  BY <1>5, <1>16, <1>17, <1>18 DEF CallsStand, C
<1>20. c2 # <<>> /\ TopOf(c2) = n + 1 /\ c2[Len(c2)].block = FALSE
  BY <1>3, <1>4, <1>5 DEF TopOf
<1> QED
  BY <1>19, <1>20 DEF c2, r

\* ParseFeature returns.
LEMMA Returned ==
  ASSUME NEW c, NEW d, IsForest(d), NEW how, NEW n \in 0 .. Len(d), CallsStand(c, d, how, n),
         c # <<>>, n < Len(d) => d[n + 1].parent # TopOf(c)
  PROVE  LET c2 == Front(c)
         IN /\ CallsStand(c2, d, how, n)
            /\ Len(c2) = Len(c) - 1 /\ \A k \in 1 .. Len(c) - 1 : c2[k] = c[k]
            /\ Len(c) \in Nat \ {0}
            /\ n < Len(d) => d[n + 1].parent <= d[TopOf(c)].parent
            /\ TopOf(c) \in 1 .. n /\ \A j \in TopOf(c) + 1 .. n : d[j].parent >= TopOf(c)
            /\ d[TopOf(c)].parent = IF Len(c) = 1 THEN 0 ELSE TopOf(c2)
<1> DEFINE C == [function : Nat, block : BOOLEAN]
           l == Len(c)
           c2 == Front(c)
<1>1. c \in Seq(C) /\ l \in Nat \ {0}
  <2>1. c \in Seq(C)
    BY DEF CallsStand
  <2> HIDE DEF C
  <2> QED
    BY <2>1
<1>2. c2 \in Seq(C) /\ Len(c2) = l - 1 /\ \A k \in 1 .. l - 1 : c2[k] = c[k]
  <2> HIDE DEF C
  <2>1. c2 = [k \in 1 .. l - 1 |-> c[k]]
    BY <1>1 DEF Front
  <2> QED
    BY <1>1, <2>1
<1> HIDE DEF C, c2, l
<1>3. \A k \in 1 .. l : CallStands(c, d, how, n, k)
  BY DEF CallsStand, l
<1>4. \A k, m \in 1 .. l : k < m => c[k].function < c[m].function
  BY DEF CallsStand, l
<1>5. l \in 1 .. l /\ TopOf(c) = c[l].function
  BY <1>1 DEF TopOf, l
<1>6. /\ TopOf(c) \in 1 .. n /\ \A j \in TopOf(c) + 1 .. n : d[j].parent >= TopOf(c)
      /\ d[TopOf(c)].parent = IF l = 1 THEN 0 ELSE c[l - 1].function
  BY <1>3, <1>5 DEF CallStands
<1>7. ASSUME NEW k \in 1 .. l - 1 PROVE CallStands(c2, d, how, n, k)
  <2>1. k \in 1 .. l /\ k < l /\ (k # 1 => k - 1 \in 1 .. l - 1)
    BY <1>1
  <2>2. CallStands(c, d, how, n, k)
    BY <1>3, <2>1
  <2>3. c2[k] = c[k] /\ (k # 1 => c2[k - 1] = c[k - 1])
    BY <1>2, <2>1
  <2> QED
    BY <2>1, <2>2, <2>3 DEF CallStands, l
<1>8. \A k, m \in 1 .. l - 1 : k < m => c2[k].function < c2[m].function
  <2>1. \A k \in 1 .. l - 1 : k \in 1 .. l
    BY <1>1
  <2> QED
    BY <1>2, <1>4, <2>1
<1>9. ASSUME n < Len(d)
      PROVE  /\ d[n + 1].parent = 0 \/ \E k \in 1 .. l - 1 : d[n + 1].parent = c2[k].function
             /\ d[n + 1].parent <= d[TopOf(c)].parent
  <2>1. d[n + 1].parent = 0 \/ \E k \in 1 .. l : d[n + 1].parent = c[k].function
    BY <1>9 DEF CallsStand, Awaited, l
  <2>2. CASE d[n + 1].parent = 0
    <3>1. d[TopOf(c)].parent \in Nat
      <4>1. TopOf(c) \in DOMAIN d
        <5>1. DOMAIN d = 1 .. Len(d) /\ Len(d) \in Nat
          BY DEF IsForest
        <5> QED
          BY <1>6, <5>1
      <4>2. d[TopOf(c)].parent \in 0 .. TopOf(c) - 1
        BY <4>1 DEF IsForest
      <4> QED
        BY <4>2
    <3> QED
      BY <2>2, <3>1
  <2>3. CASE d[n + 1].parent # 0
    <3>1. PICK k \in 1 .. l : d[n + 1].parent = c[k].function
      BY <2>1, <2>3
    <3>2. k # l
      BY <1>5, <1>9, <3>1
    <3>3. k \in 1 .. l - 1 /\ l # 1 /\ l - 1 \in 1 .. l /\ (k = l - 1 \/ k < l - 1)
      BY <1>1, <3>2
    <3>4. c[k].function \in 1 .. n /\ c[l - 1].function \in 1 .. n
      BY <1>3, <3>3 DEF CallStands
    <3>5. c[k].function <= c[l - 1].function
      BY <1>4, <3>3, <3>4
    <3> QED
      BY <1>2, <1>6, <3>1, <3>3, <3>5
  <2> QED
    BY <2>2, <2>3
<1>10. CallsStand(c2, d, how, n)
  <2>1. Awaited(c2, d, n)
    BY <1>2, <1>9 DEF Awaited
  <2> QED
    BY <1>2, <1>7, <1>8, <2>1 DEF CallsStand, C
<1>11. l # 1 => TopOf(c2) = c[l - 1].function
  <2>1. l # 1 => l - 1 \in 1 .. l - 1
    BY <1>1
  <2> QED
    BY <1>2, <2>1 DEF TopOf
<1> QED
  BY <1>1, <1>2, <1>6, <1>9, <1>10, <1>11 DEF c2, l

\* Of function f, which is nested in p, all is read after n functions.
IsRead(d, n, f, p) ==
  /\ p = d[f].parent
  /\ \A j \in f + 1 .. n : d[j].parent >= f
  /\ n < Len(d) => d[n + 1].parent <= p

\* Behind function f, it goes on in the one that f is nested in.
LEMMA NextPlace ==
  ASSUME NEW t, NEW d, NEW how, NEW b, NEW e, IsPlan(t, d, how, b, e),
         NEW n \in 1 .. Len(d), NEW f \in 1 .. n, NEW p, IsRead(d, n, f, p)
  PROVE  /\ p = 0 \/ ~ Dotted(d, how, p) => e[f] = NextIn(t, d, b, e, n, p)
         /\ p # 0 /\ Dotted(d, how, p) => e[f] = e[p] /\ (n < Len(d) => d[n + 1].parent # p)
<1> DEFINE S == Nested(d, p)
<1>0. /\ p = d[f].parent
      /\ \A j \in f + 1 .. n : d[j].parent >= f
      /\ n < Len(d) => d[n + 1].parent <= p
  BY DEF IsRead
<1>1. IsForest(d) /\ IsLayout(t, d, how, b, e)
  BY DEF IsPlan
<1>2. Len(d) \in Nat /\ DOMAIN d = 1 .. Len(d)
  BY <1>1 DEF IsForest
<1>3. f \in 1 .. Len(d) /\ f \in Nat /\ n \in Nat
  BY <1>2
<1>4. p \in 0 .. f - 1 /\ p \in 0 .. Len(d) /\ f \in S /\ p \in Nat
  <2>1. p \in 0 .. f - 1 /\ p \in 0 .. Len(d) /\ f \in S
    BY <1>0, <1>1, <1>3, RankIs
  <2> QED
    BY <2>1
<1>5. ChildLaid(t, d, how, b, e, p, f)
  BY <1>1, <1>4 DEF IsLayout
<1>6. \A x \in S : x \in 1 .. Len(d) /\ d[x].parent = p
  BY <1>2 DEF Nested
<1>7. ASSUME NEW x \in S PROVE x <= f \/ x >= n + 1
  <2>1. x \in 1 .. Len(d) /\ d[x].parent = p
    BY <1>6
  <2>2. ~ (x \in f + 1 .. n)
    <3>1. x \in f + 1 .. n => d[x].parent >= f
      BY <1>0
    <3>2. ~ (p >= f)
      BY <1>3, <1>4
    <3> QED
      BY <2>1, <3>1, <3>2
  <2> QED
    BY <1>3, <2>1, <2>2
<1>8. n < Len(d) /\ d[n + 1].parent = p => IsNext(S, f, n + 1)
  <2>1. ASSUME n < Len(d), d[n + 1].parent = p PROVE IsNext(S, f, n + 1)
    <3>1. n + 1 \in S
      <4>1. n + 1 \in DOMAIN d
        BY <1>2, <1>3, <2>1
      <4> QED
        BY <2>1, <4>1 DEF Nested
    <3>2. f < n + 1
      BY <1>3
    <3> QED
      BY <1>7, <3>1, <3>2 DEF IsNext
  <2> QED
    BY <2>1
<1>9. ~ (n < Len(d) /\ d[n + 1].parent = p) => IsLastOf(S, f)
  <2>1. ASSUME ~ (n < Len(d) /\ d[n + 1].parent = p), NEW x \in S, ~ (x <= f) PROVE FALSE
    <3>1. x \in 1 .. Len(d) /\ d[x].parent = p /\ x >= n + 1
      BY <1>6, <1>7, <2>1
    <3>2. n < Len(d)
      BY <1>2, <1>3, <3>1
    <3>3. x # n + 1
      BY <2>1, <3>1, <3>2
    <3>4. n + 1 \in p + 1 .. x - 1 /\ x \in DOMAIN d /\ n + 1 \in DOMAIN d
      BY <1>2, <1>3, <1>4, <3>1, <3>2, <3>3
    <3>5. d[n + 1].parent >= d[x].parent
      BY <1>1, <3>1, <3>4 DEF IsForest
    <3>6. d[n + 1].parent \in 0 .. (n + 1) - 1
      BY <1>1, <3>4 DEF IsForest
    <3>7. d[n + 1].parent <= p /\ d[n + 1].parent >= p
      BY <1>0, <3>1, <3>2, <3>5
    <3>8. d[n + 1].parent = p
      BY <1>4, <3>6, <3>7
    <3> QED
      BY <2>1, <3>2, <3>8
  <2> QED
    BY <2>1 DEF IsLastOf
<1>10. p = 0 \/ ~ Dotted(d, how, p) => e[f] = NextIn(t, d, b, e, n, p)
  <2>1. CASE n < Len(d) /\ d[n + 1].parent = p
    BY <1>5, <1>8, <2>1 DEF ChildLaid, NextIn
  <2>2. CASE ~ (n < Len(d) /\ d[n + 1].parent = p)
    BY <1>5, <1>9, <2>2 DEF ChildLaid, NextIn
  <2> QED
    BY <2>1, <2>2
<1>11. ASSUME p # 0, Dotted(d, how, p) PROVE e[f] = e[p] /\ (n < Len(d) => d[n + 1].parent # p)
  <2>1. p \in 1 .. Len(d) /\ S # {}
    BY <1>2, <1>4, <1>11
  <2>2. ReadsAt(t, d, how, b, e, p)
    BY <2>1, LaidReads
  <2>3. e[p] = e[p + 1] /\ S = {p + 1}
    BY <1>11, <2>1, <2>2, Zenon DEF ReadsAt
  <2>4. f = p + 1
    BY <1>4, <2>3
  <2>5. ASSUME n < Len(d), d[n + 1].parent = p PROVE FALSE
    <3>1. n + 1 \in DOMAIN d
      BY <1>2, <1>3, <2>5
    <3>2. n + 1 \in S
      BY <2>5, <3>1 DEF Nested
    <3> QED
      BY <1>3, <2>3, <2>4, <3>2
  <2> QED
    BY <2>3, <2>4, <2>5
<1> QED
  BY <1>10, <1>11

\* One function more is made.
LEMMA MadeMore ==
  ASSUME NEW d, NEW n \in Nat, NEW g
  PROVE  Append(Made(d, n, d[n]), g) = Made(d, n + 1, g)
<1> DEFINE s == Made(d, n, d[n])
           V == {s[i] : i \in 1 .. n} \cup {g}
<1>0. s = [i \in 1 .. n |-> d[i]]
  BY DEF Made
<1>1. s = [i \in 1 .. n |-> s[i]] /\ \A i \in 1 .. n : s[i] = d[i] /\ s[i] \in V
  BY <1>0
<1>2. g \in V
  OBVIOUS
<1> HIDE DEF s, V
<1>3. s \in Seq(V) /\ Len(s) = n
  BY <1>1
<1>4. /\ Append(s, g) \in Seq(V) /\ Len(Append(s, g)) = n + 1
      /\ \A i \in 1 .. n + 1 : Append(s, g)[i] = IF i = n + 1 THEN g ELSE s[i]
  BY <1>2, <1>3
<1> DEFINE u == Append(s, g)
<1>5. u \in Seq(V) /\ Len(u) = n + 1 /\ \A i \in 1 .. n + 1 : u[i] = IF i = n + 1 THEN g ELSE s[i]
  BY <1>4
<1> HIDE DEF u
<1>6. u = [i \in 1 .. n + 1 |-> u[i]]
  BY <1>5
<1>7. u = [i \in 1 .. n + 1 |-> IF i = n + 1 THEN g ELSE d[i]]
  <2>1. \A i \in 1 .. n + 1 : i # n + 1 => i \in 1 .. n
    OBVIOUS
  <2>2. \A i \in 1 .. n + 1 : u[i] = IF i = n + 1 THEN g ELSE d[i]
    BY <1>1, <1>5, <2>1
  <2> QED
    BY <1>6, <2>2
<1> QED
  BY <1>7 DEF Made, u

\* The functions that are made one by one.
LEMMA MadeIs ==
  ASSUME NEW d, NEW n \in Nat, NEW f, NEW g
  PROVE  /\ Len(Made(d, n, f)) = n
         /\ Append(Made(d, n, d[n]), g) = Made(d, n + 1, g)
         /\ n # 0 => Made(d, n, f)[n] = f
         /\ n # 0 => [Made(d, n, f) EXCEPT ![n] = g] = Made(d, n, g)
<1>1. \A h : Len(Made(d, n, h)) = n
  BY DEF Made
<1>2. Append(Made(d, n, d[n]), g) = Made(d, n + 1, g)
  BY MadeMore, Zenon
<1>3. n # 0 => Made(d, n, f)[n] = f
  BY DEF Made
<1>4. n # 0 => [Made(d, n, f) EXCEPT ![n] = g] = Made(d, n, g)
  BY DEF Made
<1> QED
  BY <1>1, <1>2, <1>3, <1>4

\* The functions of a forest are records.
LEMMA FunctionIs ==
  ASSUME NEW d, IsForest(d), NEW i \in 1 .. Len(d)
  PROVE  /\ d[i] = [type |-> d[i].type, name |-> d[i].name, argument |-> d[i].argument,
                    parameters |-> d[i].parameters, parent |-> d[i].parent]
         /\ d[i].parameters = [j \in 1 .. Len(d[i].parameters) |-> d[i].parameters[j]]
         /\ Len(d[i].parameters) \in Nat
         /\ \A j \in 1 .. Len(d[i].parameters) :
              d[i].parameters[j] = <<d[i].parameters[j][1], d[i].parameters[j][2]>>
<1>1. i \in DOMAIN d
  BY DEF IsForest
<1>2. /\ d[i] = [type |-> d[i].type, name |-> d[i].name, argument |-> d[i].argument,
                 parameters |-> [j \in DOMAIN d[i].parameters |->
                                   <<d[i].parameters[j][1], d[i].parameters[j][2]>>],
                 parent |-> d[i].parent]
      /\ d[i].parameters \in Seq(ToSet(d[i].parameters))
  BY <1>1, Zenon DEF IsForest
<1> DEFINE f == d[i]
           p == f.parameters
           q == [j \in DOMAIN p |-> <<p[j][1], p[j][2]>>]
<1>3. f = [type |-> f.type, name |-> f.name, argument |-> f.argument,
           parameters |-> q, parent |-> f.parent]
  BY <1>2
<1>4. p = q
  <2> HIDE DEF f, q
  <2>1. f.parameters = q
    BY <1>3
  <2> QED
    BY <2>1
<1>5. DOMAIN p = 1 .. Len(p) /\ Len(p) \in Nat /\ p = [j \in 1 .. Len(p) |-> p[j]]
  <2>1. p \in Seq(ToSet(p))
    BY <1>2
  <2> HIDE DEF p
  <2> QED
    BY <2>1
<1>6. f = [type |-> f.type, name |-> f.name, argument |-> f.argument,
           parameters |-> p, parent |-> f.parent]
  <2> HIDE DEF f, q
  <2> QED
    BY <1>3, <1>4
<1>7. \A j \in DOMAIN p : p[j] = <<p[j][1], p[j][2]>>
  <2>1. \A j \in DOMAIN p : q[j] = <<p[j][1], p[j][2]>>
    OBVIOUS
  <2> HIDE DEF p, q
  <2> QED
    BY <1>4, <2>1
<1> QED
  BY <1>5, <1>6, <1>7

\* Function f with an argument, another parameter, a name.
WithArgument(f, v) == [f EXCEPT !.argument = v]
WithParameter(f, v) == [f EXCEPT !.parameters = Append(@, v)]
WithName(f, v) == [f EXCEPT !.name = v]

\* How a function is filled in.
LEMMA FilledIn ==
  ASSUME NEW d, IsForest(d), NEW i \in 1 .. Len(d)
  PROVE  LET f == d[i]
             P == Len(f.parameters)
         IN /\ NewFunction(f.type, f.parent) = ReadSoFar(f, 0, 0)
            /\ \A r \in 0 .. P :
                 WithArgument(ReadSoFar(f, 0, r), f.argument) = ReadSoFar(f, 1, r)
            /\ \A x : \A r \in 0 .. P - 1 :
                 WithParameter(ReadSoFar(f, x, r), <<f.parameters[r + 1][1], f.parameters[r + 1][2]>>)
                   = ReadSoFar(f, x, r + 1)
            /\ WithName(ReadSoFar(f, Arg(f), P), f.name) = f
            /\ f.name = "" => ReadSoFar(f, Arg(f), P) = f
<1> DEFINE f == d[i]
           p == f.parameters
           P == Len(p)
<1>1. /\ f = [type |-> f.type, name |-> f.name, argument |-> f.argument,
              parameters |-> p, parent |-> f.parent]
      /\ p = [j \in 1 .. P |-> p[j]] /\ P \in Nat
      /\ \A j \in 1 .. P : p[j] = <<p[j][1], p[j][2]>>
  BY FunctionIs
<1> DEFINE first(r) == [j \in 1 .. r |-> p[j]]
           arg(x) == IF x = 1 THEN f.argument ELSE 0
<1>2. \A x, r : ReadSoFar(f, x, r) = [type |-> f.type, name |-> "", argument |-> arg(x),
                                      parameters |-> first(r), parent |-> f.parent]
  BY DEF ReadSoFar
<1>3. first(0) = <<>> /\ arg(0) = 0 /\ arg(1) = f.argument /\ first(P) = p
  <2>1. first(0) = <<>>
    OBVIOUS
  <2>2. first(P) = p
    BY <1>1
  <2> QED
    BY <2>1, <2>2
<1>4. \A r \in 0 .. P - 1 : first(r + 1) = Append(first(r), p[r + 1])
  <2>1. ASSUME NEW r \in 0 .. P - 1 PROVE first(r + 1) = Append(first(r), p[r + 1])
    <3>1. r \in Nat
      BY <1>1
    <3>2. Made(p, r, p[r]) = first(r) /\ Made(p, r + 1, p[r + 1]) = first(r + 1)
      BY DEF Made
    <3>3. Append(Made(p, r, p[r]), p[r + 1]) = Made(p, r + 1, p[r + 1])
      <4> DEFINE g == p[r + 1]
      <4> HIDE DEF f, p, P, first, arg, g
      <4>1. Append(Made(p, r, p[r]), g) = Made(p, r + 1, g)
        BY <3>1, MadeMore, Zenon
      <4> QED
        BY <4>1, Zenon DEF g
    <3> QED
      BY <3>2, <3>3, Zenon
  <2> QED
    BY <2>1
<1>5. arg(Arg(f)) = f.argument
  BY DEF Arg
<1> HIDE DEF first, arg, p, P, f
<1>6. NewFunction(f.type, f.parent) = ReadSoFar(f, 0, 0)
  BY <1>2, <1>3 DEF NewFunction
<1>7. ASSUME NEW r \in 0 .. P
      PROVE  WithArgument(ReadSoFar(f, 0, r), f.argument) = ReadSoFar(f, 1, r)
  <2> DEFINE s == ReadSoFar(f, 0, r)
             y == first(r)
  <2>1. s = [type |-> f.type, name |-> "", argument |-> 0, parameters |-> y, parent |-> f.parent]
    BY <1>2, <1>3
  <2>2. ReadSoFar(f, 1, r) = [type |-> f.type, name |-> "", argument |-> f.argument,
                              parameters |-> y, parent |-> f.parent]
    BY <1>2, <1>3
  <2> HIDE DEF s, y
  <2>3. [s EXCEPT !.argument = f.argument] =
          [type |-> f.type, name |-> "", argument |-> f.argument, parameters |-> y, parent |-> f.parent]
    <3> DEFINE ty == f.type
               ar == f.argument
               up == f.parent
               na == ""
               no == 0
    <3> HIDE DEF ty, ar, up, na, no
    <3>1. s = [type |-> ty, name |-> na, argument |-> no, parameters |-> y, parent |-> up]
      BY <2>1 DEF ty, up, na, no
    <3>2. [s EXCEPT !.argument = ar] = [type |-> ty, name |-> na, argument |-> ar,
                                        parameters |-> y, parent |-> up]
      BY <3>1
    <3> QED
      BY <3>2 DEF ty, ar, up, na
  <2> QED
    BY <2>2, <2>3 DEF s, WithArgument
<1>8. ASSUME NEW x, NEW r \in 0 .. P - 1
      PROVE  WithParameter(ReadSoFar(f, x, r), <<p[r + 1][1], p[r + 1][2]>>)
               = ReadSoFar(f, x, r + 1)
  <2>1. r + 1 \in 1 .. P
    BY <1>1
  <2>2. <<p[r + 1][1], p[r + 1][2]>> = p[r + 1]
    BY <1>1, <2>1
  <2> DEFINE s == ReadSoFar(f, x, r)
             y == first(r)
             v == arg(x)
             z == first(r + 1)
             w == <<p[r + 1][1], p[r + 1][2]>>
  <2>3. z = Append(y, w)
    BY <1>4, <2>2
  <2>4. s = [type |-> f.type, name |-> "", argument |-> v, parameters |-> y, parent |-> f.parent]
    BY <1>2
  <2>5. ReadSoFar(f, x, r + 1) = [type |-> f.type, name |-> "", argument |-> v,
                                  parameters |-> z, parent |-> f.parent]
    BY <1>2
  <2> HIDE DEF s, y, z, w, v
  <2>6. s.parameters = y
    BY <2>4
  <2>7. [s EXCEPT !.parameters = Append(@, w)] = [s EXCEPT !.parameters = z]
    BY <2>3, <2>6
  <2>8. [s EXCEPT !.parameters = z] =
          [type |-> f.type, name |-> "", argument |-> v, parameters |-> z, parent |-> f.parent]
    <3> DEFINE ty == f.type
               up == f.parent
               na == ""
    <3> HIDE DEF ty, up, na
    <3>1. s = [type |-> ty, name |-> na, argument |-> v, parameters |-> y, parent |-> up]
      BY <2>4 DEF ty, up, na
    <3>2. [s EXCEPT !.parameters = z] = [type |-> ty, name |-> na, argument |-> v,
                                         parameters |-> z, parent |-> up]
      BY <3>1
    <3> QED
      BY <3>2 DEF ty, up, na
  <2> QED
    BY <2>5, <2>7, <2>8 DEF s, w, WithParameter
<1>9. WithName(ReadSoFar(f, Arg(f), P), f.name) = f
  <2> DEFINE s == ReadSoFar(f, Arg(f), P)
  <2>1. s = [type |-> f.type, name |-> "", argument |-> f.argument, parameters |-> p, parent |-> f.parent]
    BY <1>2, <1>3, <1>5
  <2> HIDE DEF s
  <2>2. [s EXCEPT !.name = f.name] =
          [type |-> f.type, name |-> f.name, argument |-> f.argument, parameters |-> p, parent |-> f.parent]
    <3> DEFINE ty == f.type
               ar == f.argument
               up == f.parent
               no == ""
               na == f.name
    <3> HIDE DEF ty, ar, up, na, no
    <3>1. s = [type |-> ty, name |-> no, argument |-> ar, parameters |-> p, parent |-> up]
      BY <2>1 DEF ty, ar, up, no
    <3>2. [s EXCEPT !.name = na] = [type |-> ty, name |-> na, argument |-> ar,
                                    parameters |-> p, parent |-> up]
      BY <3>1
    <3> QED
      BY <3>2 DEF ty, ar, up, na
  <2> QED
    BY <1>1, <2>2 DEF s, WithName
<1>10. f.name = "" => ReadSoFar(f, Arg(f), P) = f
  <2>1. ReadSoFar(f, Arg(f), P) = [type |-> f.type, name |-> "", argument |-> f.argument,
                                   parameters |-> p, parent |-> f.parent]
    BY <1>2, <1>3, <1>5
  <2> QED
    BY <1>1, <2>1
<1> QED
  BY <1>6, <1>7, <1>8, <1>9, <1>10 DEF f, p, P

\* The text of an item that has one.
LEMMA TextIs ==
  ASSUME NEW i \in Nat \ {0}, Len(source) \in Nat, i <= Len(source), source[i].type \in Texted
  PROVE  ItemText(i) = source[i].text
<1> DEFINE texted == {j \in 1 .. i : ItemType(j) \in Texted}
<1>1. i \in texted
  BY DEF ItemType
<1>2. Max(texted) = i
  <2>1. \A j \in texted : i >= j /\ j \in Nat
    OBVIOUS
  <2> HIDE DEF texted
  <2> DEFINE m == Max(texted)
  <2>2. m \in texted /\ \A j \in texted : m >= j
    BY <1>1, <2>1 DEF Max
  <2> HIDE DEF m
  <2>3. m = i
    BY <1>1, <2>1, <2>2
  <2> QED
    BY <2>3 DEF m
<1> QED
  BY <1>1, <1>2 DEF ItemText

-----------------------------------------------------------------------------
(* What holds while a specification is parsed *)

\* The innermost of the calls c fills in function n.
Fills(c, n) == c # <<>> /\ TopOf(c) = n /\ c[Len(c)].block = FALSE

AtParse(t, d, b, e, n, cur, desc, c) ==
  c = <<>> /\ desc = Made(d, n, d[n]) /\ cur = NextIn(t, d, b, e, n, 0)

AtFeature(d, b, n, cur, desc, c) ==
  Fills(c, n) /\ desc = Made(d, n, ReadSoFar(d[n], 0, 0)) /\ cur = b[n] + 1

AtParameter(d, b, n, cur, desc, c) ==
  /\ Fills(c, n)
  /\ \E x \in {0, 1} : \E r \in 0 .. Len(d[n].parameters) :
       /\ \/ x = Arg(d[n]) /\ r < Len(d[n].parameters)
          \/ x = 0 /\ Arg(d[n]) = 1 /\ r = 0
       /\ desc = Made(d, n, ReadSoFar(d[n], x, r))
       /\ cur = b[n] + (4 * r + 2 * x + 2)

AtParameters(d, b, n, cur, desc, c) ==
  /\ Fills(c, n)
  /\ \E r \in 0 .. Len(d[n].parameters) :
       /\ r + Arg(d[n]) > 0
       /\ desc = Made(d, n, ReadSoFar(d[n], Arg(d[n]), r))
       /\ cur = b[n] + Behind(d[n], r)

AtName(d, b, n, cur, desc, c) ==
  /\ Fills(c, n)
  /\ desc = Made(d, n, ReadSoFar(d[n], Arg(d[n]), Len(d[n].parameters)))
  /\ cur = b[n] + 1 + ListLen(d[n])

AtSubfeatures(d, b, n, cur, desc, c) ==
  Fills(c, n) /\ desc = Made(d, n, d[n]) /\ cur = b[n] + SpecLen(d[n])

AtBlock(t, d, how, b, e, n, cur, desc, c) ==
  /\ c # <<>> /\ c[Len(c)].block = TRUE /\ ~ Dotted(d, how, TopOf(c)) /\ Nested(d, TopOf(c)) # {}
  /\ desc = Made(d, n, d[n]) /\ cur = NextIn(t, d, b, e, n, TopOf(c))

AtReturn(d, e, n, cur, desc, c) ==
  /\ c # <<>> /\ desc = Made(d, n, d[n]) /\ cur = e[TopOf(c)]
  /\ n < Len(d) => d[n + 1].parent # TopOf(c)

ParserStages ==
  {"parse", "parsed", "feature", "parameter", "parameters", "name", "subfeatures", "block", "return"}

\* After n functions, the parser is at its place in all that it reads and builds.
ParserAt(t, d, how, b, e, n, cur, desc, c, p) ==
  /\ n \in 0 .. Len(d) /\ CallsStand(c, d, how, n) /\ p \in ParserStages
  /\ p = "parse" => AtParse(t, d, b, e, n, cur, desc, c)
  /\ p = "parsed" => c = <<>> /\ desc = d
  /\ p = "feature" => AtFeature(d, b, n, cur, desc, c)
  /\ p = "parameter" => AtParameter(d, b, n, cur, desc, c)
  /\ p = "parameters" => AtParameters(d, b, n, cur, desc, c)
  /\ p = "name" => AtName(d, b, n, cur, desc, c)
  /\ p = "subfeatures" => AtSubfeatures(d, b, n, cur, desc, c)
  /\ p = "block" => AtBlock(t, d, how, b, e, n, cur, desc, c)
  /\ p = "return" => AtReturn(d, e, n, cur, desc, c)

\* The parser is somewhere in t.
Parsing(t, d, how, b, e) ==
  source = t /\ \E n : ParserAt(t, d, how, b, e, n, current, descriptor, calls, pc)

\* What is read at the place of a function.
LEMMA ReadHere ==
  ASSUME NEW t, NEW d, NEW how, NEW b, NEW e, IsPlan(t, d, how, b, e), source = t,
         NEW i \in 1 .. Len(d)
  PROVE  /\ ItemType(b[i]) = "NAME" /\ ItemText(b[i]) = d[i].type
         /\ b[i] \in Nat \ {0} /\ b[i] <= Len(source) /\ Len(source) \in Nat
<1>1. ReadsAt(t, d, how, b, e, i) /\ Len(t) \in Nat
  BY LaidReads DEF IsPlan
<1>2. b[i] \in Nat \ {0} /\ b[i] <= Len(source) /\ Len(source) \in Nat
  BY <1>1, Zenon DEF ReadsAt
<1>3. source[b[i]].type = "NAME" /\ source[b[i]].text = d[i].type
  BY <1>1, Zenon DEF ReadsAt, SpecReads
<1>4. ItemType(b[i]) = "NAME"
  BY <1>2, <1>3 DEF ItemType
<1>5. ItemText(b[i]) = d[i].type
  <2>1. source[b[i]].type \in Texted
    BY <1>3 DEF Texted
  <2> QED
    BY <1>2, <1>3, <2>1, TextIs
<1> QED
  BY <1>2, <1>4, <1>5

\* The types of function and block in the calls.
LEMMA TopIs ==
  ASSUME NEW c, c \in Seq([function : Nat, block : BOOLEAN]), c # <<>>
  PROVE  Len(c) \in Nat \ {0} /\ c[Len(c)].function = TopOf(c) /\ TopOf(c) \in Nat
         /\ c[Len(c)].block \in BOOLEAN
<1> DEFINE C == [function : Nat, block : BOOLEAN]
<1>1. c \in Seq(C)
  OBVIOUS
<1> HIDE DEF C
<1>2. Len(c) \in Nat \ {0} /\ c[Len(c)] \in C
  BY <1>1
<1> QED
  BY <1>2 DEF C, TopOf

\* A function is added, and ParseFeature called for it.
LEMMA FunctionAdded ==
  ASSUME NEW t, NEW d, NEW how, NEW b, NEW e, IsPlan(t, d, how, b, e), source = t,
         NEW n \in 0 .. Len(d), CallsStand(calls, d, how, n), n < Len(d),
         descriptor = Made(d, n, d[n]),
         IF calls = <<>> THEN d[n + 1].parent = 0
         ELSE /\ d[n + 1].parent = TopOf(calls)
              /\ calls[Len(calls)].block <=> ~ Dotted(d, how, TopOf(calls)),
         NEW type, type = d[n + 1].type, NEW parent, parent = d[n + 1].parent,
         AddFeature(type, parent), current' = b[n + 1] + 1
  PROVE  ParserAt(t, d, how, b, e, n + 1, current', descriptor', calls', pc')
<1>1. IsForest(d)
  BY DEF IsPlan
<1>2. Len(d) \in Nat /\ n \in Nat /\ n + 1 \in 1 .. Len(d) /\ n + 1 \in 0 .. Len(d)
  BY <1>1 DEF IsForest
<1>3. Len(descriptor) = n /\ descriptor' = Made(d, n + 1, ReadSoFar(d[n + 1], 0, 0))
  <2>1. NewFunction(type, parent) = ReadSoFar(d[n + 1], 0, 0)
    BY <1>1, <1>2, FilledIn
  <2>2. descriptor' = Append(descriptor, NewFunction(type, parent))
    BY DEF AddFeature
  <2> DEFINE g == ReadSoFar(d[n + 1], 0, 0)
  <2> HIDE DEF g
  <2>3. Len(Made(d, n, d[n])) = n /\ Append(Made(d, n, d[n]), g) = Made(d, n + 1, g)
    BY <1>2, MadeIs, SMTT(30)
  <2> QED
    BY <2>1, <2>2, <2>3 DEF g
<1>4. calls' = Append(calls, [function |-> n + 1, block |-> FALSE])
  BY <1>3 DEF AddFeature
<1>5. CallsStand(calls', d, how, n + 1) /\ Fills(calls', n + 1)
  BY <1>1, <1>4, Called DEF Fills
<1>6. AtFeature(d, b, n + 1, current', descriptor', calls')
  BY <1>3, <1>5 DEF AtFeature
<1>7. pc' = "feature"
  BY DEF AddFeature
<1> QED
  BY <1>2, <1>5, <1>6, <1>7 DEF ParserAt, ParserStages

\* Going on to the next feature keeps to the plan.
LEMMA StepParseNext ==
  ASSUME NEW t, NEW d, NEW how, NEW b, NEW e, IsPlan(t, d, how, b, e),
         Parsing(t, d, how, b, e), ParseNext
  PROVE  Parsing(t, d, how, b, e)'
<1>1. source = t /\ pc = "parse" /\ source' = source
  BY DEF Parsing, ParseNext
<1>2. PICK n \in 0 .. Len(d) : /\ CallsStand(calls, d, how, n)
                               /\ AtParse(t, d, b, e, n, current, descriptor, calls)
  BY <1>1 DEF Parsing, ParserAt
<1>3. calls = <<>> /\ descriptor = Made(d, n, d[n]) /\ current = NextIn(t, d, b, e, n, 0)
  BY <1>2 DEF AtParse
<1>4. Len(t) \in Nat /\ IsForest(d) /\ Len(d) \in Nat
  BY DEF IsPlan, IsForest
<1>5. n < Len(d) => d[n + 1].parent = 0
  BY <1>2, <1>3 DEF CallsStand, Awaited
<1>6. n < Len(d)
  <2>1. CASE ~ (n < Len(d))
    <3>1. current = Len(t) + 1
      BY <1>3, <2>1 DEF NextIn
    <3>2. ItemType(current) = "END"
      BY <1>1, <1>4, <3>1 DEF ItemType
    <3> QED
      BY <3>2 DEF ParseNext
  <2> QED
    BY <2>1
<1>7. current = b[n + 1]
  BY <1>3, <1>5, <1>6 DEF NextIn
<1>8. n + 1 \in 1 .. Len(d)
  BY <1>4, <1>6
<1>9. /\ ItemText(current) = d[n + 1].type /\ b[n + 1] \in Nat \ {0}
      /\ b[n + 1] <= Len(source) /\ Len(source) \in Nat
  BY <1>1, <1>7, <1>8, ReadHere
<1>10. current' = b[n + 1] + 1
  <2>1. current' = After(1)
    BY DEF ParseNext
  <2> QED
    BY <1>7, <1>9, <2>1 DEF After
<1>11. AddFeature(ItemText(current), 0)
  BY DEF ParseNext
<1>12. ParserAt(t, d, how, b, e, n + 1, current', descriptor', calls', pc')
  <2> DEFINE type == ItemText(current)
             parent == 0
  <2>1. type = d[n + 1].type /\ parent = d[n + 1].parent /\ AddFeature(type, parent)
    BY <1>5, <1>6, <1>9, <1>11
  <2> HIDE DEF type, parent
  <2> QED
    BY <1>1, <1>2, <1>3, <1>5, <1>6, <1>10, <2>1, FunctionAdded
<1> QED
  BY <1>1, <1>12 DEF Parsing

\* Coming to the end of the text keeps to the plan.
LEMMA StepParseEnd ==
  ASSUME NEW t, NEW d, NEW how, NEW b, NEW e, IsPlan(t, d, how, b, e),
         Parsing(t, d, how, b, e), ParseEnd
  PROVE  Parsing(t, d, how, b, e)'
<1>1. /\ source = t /\ pc = "parse" /\ source' = source /\ pc' = "parsed"
      /\ descriptor' = descriptor /\ calls' = calls
  BY DEF Parsing, ParseEnd
<1>2. PICK n \in 0 .. Len(d) : /\ CallsStand(calls, d, how, n)
                               /\ AtParse(t, d, b, e, n, current, descriptor, calls)
  BY <1>1 DEF Parsing, ParserAt
<1>3. calls = <<>> /\ descriptor = Made(d, n, d[n]) /\ current = NextIn(t, d, b, e, n, 0)
  BY <1>2 DEF AtParse
<1>4. Len(t) \in Nat /\ IsForest(d) /\ Len(d) \in Nat
  BY DEF IsPlan, IsForest
<1>5. n < Len(d) => d[n + 1].parent = 0
  BY <1>2, <1>3 DEF CallsStand, Awaited
<1>6. n = Len(d)
  <2>1. CASE n < Len(d)
    <3>1. current = b[n + 1] /\ n + 1 \in 1 .. Len(d)
      BY <1>3, <1>4, <1>5, <2>1 DEF NextIn
    <3>2. ItemType(current) = "NAME"
      BY <1>1, <3>1, ReadHere
    <3> QED
      BY <3>2 DEF ParseEnd
  <2> QED
    BY <1>4, <2>1
<1>7. descriptor = d
  <2>1. descriptor = [i \in 1 .. n |-> d[i]]
    BY <1>3 DEF Made
  <2>2. d = [i \in 1 .. Len(d) |-> d[i]]
    <3>1. d \in Seq(ToSet(d))
      BY <1>4 DEF IsForest
    <3> QED
      BY <3>1
  <2> QED
    BY <1>6, <2>1, <2>2
<1>8. ParserAt(t, d, how, b, e, n, current', descriptor', calls', pc')
  BY <1>1, <1>2, <1>3, <1>7 DEF ParserAt, ParserStages
<1> QED
  BY <1>1, <1>8 DEF Parsing

\* The function that is filled in.
LEMMA FilledFunction ==
  ASSUME NEW t, NEW d, NEW how, NEW b, NEW e, IsPlan(t, d, how, b, e), source = t,
         NEW n \in 0 .. Len(d), CallsStand(calls, d, how, n), Fills(calls, n)
  PROVE  /\ n \in 1 .. Len(d) /\ n \in Nat \ {0} /\ Top.function = n /\ IsForest(d)
         /\ b[n] \in Nat \ {0} /\ Len(source) \in Nat /\ Len(d[n].parameters) \in Nat
         /\ ListLen(d[n]) \in Nat /\ SpecLen(d[n]) \in Nat \ {0}
         /\ SpecLen(d[n]) = 1 + ListLen(d[n]) + NameLen(d[n])
         /\ b[n] + SpecLen(d[n]) <= Len(source) + 1
         /\ Arg(d[n]) \in {0, 1}
         /\ SpecReads(t, b[n], d[n]) /\ IsTyped(d[n], how[n].values) /\ Follows(t, d, how, b, n)
<1>1. IsForest(d) /\ Len(d) \in Nat /\ Len(t) \in Nat
  BY DEF IsPlan, IsForest
<1>2. calls \in Seq([function : Nat, block : BOOLEAN]) /\ calls # <<>>
  BY DEF CallsStand, Fills
<1>3. Len(calls) \in Nat \ {0} /\ calls[Len(calls)].function = TopOf(calls)
  BY <1>2, TopIs
<1>4. Top.function = n
  BY <1>3 DEF Top, Fills
<1>5. n \in 1 .. Len(d) /\ n \in Nat \ {0}
  <2>1. CallStands(calls, d, how, n, Len(calls))
    BY <1>3 DEF CallsStand
  <2>2. n \in 1 .. n
    BY <1>3, <2>1 DEF CallStands, Fills
  <2> QED
    BY <1>1, <2>2
<1>6. ReadsAt(t, d, how, b, e, n) /\ Follows(t, d, how, b, n)
  BY <1>5, LaidReads, AtFollow
<1>7. /\ b[n] \in Nat \ {0} /\ SpecLen(d[n]) \in Nat \ {0} /\ e[n] \in Nat
      /\ b[n] + SpecLen(d[n]) <= e[n] /\ e[n] <= Len(t) + 1
      /\ SpecReads(t, b[n], d[n]) /\ IsTyped(d[n], how[n].values)
  BY <1>6, Zenon DEF ReadsAt
<1>8. /\ Len(d[n].parameters) \in Nat /\ Arg(d[n]) \in {0, 1} /\ ListLen(d[n]) \in Nat
  BY <1>7, LengthsTyped
<1>9. b[n] + SpecLen(d[n]) <= Len(t) + 1
  <2> DEFINE x == b[n]
             y == SpecLen(d[n])
             z == e[n]
             l == Len(t)
  <2>1. x \in Nat /\ y \in Nat /\ z \in Nat /\ l \in Nat /\ x + y <= z /\ z <= l + 1
    BY <1>1, <1>7, Zenon
  <2> HIDE DEF x, y, z, l
  <2>2. x + y <= l + 1
    BY <2>1
  <2> QED
    BY <2>2 DEF x, y, l
<1>10. SpecLen(d[n]) = 1 + ListLen(d[n]) + NameLen(d[n])
  BY DEF SpecLen
<1> QED
  BY <1>1, <1>4, <1>5, <1>6, <1>7, <1>8, <1>9, <1>10

\* The numbers of function f, which begins at x in a text of length l.
SpecFits(f, x, l) ==
  /\ x \in Nat \ {0} /\ l \in Nat
  /\ Len(f.parameters) \in Nat /\ Arg(f) \in {0, 1} /\ NameLen(f) \in {0, 2}
  /\ f.name = "" => NameLen(f) = 0
  /\ f.name # "" => NameLen(f) = 2
  /\ ListLen(f) = IF Len(f.parameters) = 0 /\ Arg(f) = 0 THEN 0
                  ELSE 4 * Len(f.parameters) + 2 * Arg(f) + 1
  /\ x + 1 + ListLen(f) + NameLen(f) <= l + 1

\* They are the ones of the function that is filled in.
LEMMA FilledFits ==
  ASSUME NEW t, NEW d, NEW how, NEW b, NEW e, IsPlan(t, d, how, b, e), source = t,
         NEW n \in 0 .. Len(d), CallsStand(calls, d, how, n), Fills(calls, n)
  PROVE  SpecFits(d[n], b[n], Len(source))
<1> DEFINE f == d[n]
           x == b[n]
           l == Len(source)
           P == Len(f.parameters)
           g == Arg(f)
           L == ListLen(f)
           N == NameLen(f)
           s == SpecLen(f)
<1>1. x \in Nat \ {0} /\ l \in Nat /\ P \in Nat /\ L \in Nat /\ s = 1 + L + N
      /\ x + s <= l + 1 /\ g \in {0, 1}
  BY FilledFunction
<1>2. N \in {0, 2} /\ (f.name = "" => N = 0) /\ (f.name # "" => N = 2)
  BY DEF NameLen
<1>3. L = IF P = 0 /\ g = 0 THEN 0 ELSE 4 * P + 2 * g + 1
  BY DEF ListLen, Behind
<1> HIDE DEF f, x, l, P, g, L, N, s
<1>4. x + 1 + L + N <= l + 1
  <2>1. N \in {0, 2}
    BY <1>2, Zenon
  <2> QED
    BY <1>1, <2>1
<1> QED
  BY <1>1, <1>2, <1>3, <1>4, Zenon DEF SpecFits, f, x, l, P, g, L, N

\* The item that is k items further.
LEMMA AfterIs ==
  ASSUME NEW k \in Nat, current \in Nat, Len(source) \in Nat, current + k <= Len(source) + 1
  PROVE  After(k) = current + k
BY DEF After

\* The type of an item of the source.
LEMMA ItemTypeIs ==
  ASSUME NEW t, source = t, Len(t) \in Nat, NEW i \in Nat
  PROVE  /\ ItemType(i) = TypeAt(t, i)
         /\ i <= Len(t) => ItemType(i) = t[i].type
BY DEF ItemType, TypeAt

\* Reading a feature's name keeps to the plan.
LEMMA StepParseFeature ==
  ASSUME NEW t, NEW d, NEW how, NEW b, NEW e, IsPlan(t, d, how, b, e),
         Parsing(t, d, how, b, e), ParseFeature
  PROVE  Parsing(t, d, how, b, e)'
<1>1. source = t /\ pc = "feature" /\ source' = source /\ descriptor' = descriptor /\ calls' = calls
  BY DEF Parsing, ParseFeature
<1>2. PICK n \in 0 .. Len(d) : /\ CallsStand(calls, d, how, n)
                               /\ AtFeature(d, b, n, current, descriptor, calls)
  BY <1>1 DEF Parsing, ParserAt
<1>3. /\ Fills(calls, n) /\ descriptor = Made(d, n, ReadSoFar(d[n], 0, 0)) /\ current = b[n] + 1
  BY <1>2 DEF AtFeature
<1> DEFINE f == d[n]
           x == b[n]
           l == Len(source)
           P == Len(f.parameters)
           g == Arg(f)
           L == ListLen(f)
           N == NameLen(f)
<1>4. SpecReads(t, x, f) /\ Follows(t, d, how, b, n) /\ SpecLen(f) = 1 + L + N
  BY <1>1, <1>2, <1>3, FilledFunction
<1>5. SpecFits(f, x, l)
  BY <1>1, <1>2, <1>3, FilledFits
<1>6. /\ x \in Nat \ {0} /\ l \in Nat /\ P \in Nat /\ g \in {0, 1} /\ N \in {0, 2}
      /\ L = IF P = 0 /\ g = 0 THEN 0 ELSE 4 * P + 2 * g + 1
      /\ x + 1 + L + N <= l + 1
  BY <1>5, Zenon DEF SpecFits
<1>7. (f.name = "" => N = 0) /\ (f.name # "" => N = 2)
  BY <1>5, Zenon DEF SpecFits
<1>8. current \in Nat /\ ItemType(current) = TypeAt(t, current)
      /\ (current <= l => ItemType(current) = t[current].type)
  <2>1. current \in Nat
    BY <1>3, <1>6
  <2> QED
    BY <1>1, <1>6, <2>1, ItemTypeIs
<1>9. ASSUME L # 0
      PROVE  /\ ItemType(current) = "(" /\ After(1) = x + 2
             /\ (0 = g /\ 0 < P) \/ g = 1
  <2>1. t[x + 1].type = "("
    BY <1>4, <1>9, Zenon DEF SpecReads
  <2>2. (0 = g /\ 0 < P) \/ g = 1
    <3> HIDE DEF P, g, L
    <3> QED
      BY <1>6, <1>9
  <2>3. x + 1 <= l /\ current = x + 1
    <3> HIDE DEF P, g, L, x, l, N
    <3>1. L \in Nat \ {0}
      BY <1>6, <1>9
    <3>2. x + 1 <= l
      BY <1>6, <3>1
    <3> QED
      BY <1>3, <3>2 DEF x
  <2>4. After(1) = x + 2
    <3>1. After(1) = current + 1
      <4> HIDE DEF x, l
      <4>1. current + 1 <= l + 1
        BY <1>6, <2>3
      <4> QED
        BY <1>6, <1>8, <4>1, AfterIs DEF l
    <3> HIDE DEF x
    <3> QED
      BY <1>6, <2>3, <3>1
  <2> QED
    BY <1>8, <2>1, <2>2, <2>3, <2>4
<1>10. ASSUME L = 0
       PROVE  ItemType(current) # "(" /\ g = 0 /\ P = 0
  <2>1. g = 0 /\ P = 0
    <3> HIDE DEF P, g, L
    <3> QED
      BY <1>6, <1>10
  <2>2. CASE f.name # ""
    <3>1. t[x + L + 1].type = ":"
      BY <1>4, <2>2, Zenon DEF SpecReads
    <3>2. x + L + 1 = current /\ current <= l
      <4> HIDE DEF x, L, l, N
      <4>1. N = 2
        BY <1>7, <2>2
      <4>2. x + L + 1 = x + 1 /\ x + 1 <= l
        BY <1>6, <1>10, <4>1
      <4> QED
        BY <1>3, <4>2 DEF x
    <3>3. ItemType(current) = ":"
      BY <1>8, <3>1, <3>2
    <3> QED
      BY <2>1, <3>3
  <2>3. CASE f.name = ""
    <3>1. x + SpecLen(f) = current
      <4>1. N = 0
        BY <1>7, <2>3
      <4>2. x + SpecLen(f) = x + (1 + L + N)
        BY <1>4
      <4> HIDE DEF x, L, N
      <4>3. x + (1 + L + N) = x + 1
        BY <1>6, <1>10, <4>1
      <4> QED
        BY <1>3, <4>2, <4>3 DEF x
    <3>2. TypeAt(t, current) \in {"NAME", "}", "END", ".", "{"}
      BY <1>4, <3>1 DEF Follows
    <3> QED
      BY <1>8, <2>1, <3>2
  <2> QED
    BY <2>2, <2>3
<1>11. CASE L # 0
  <2>1. current' = x + 2 /\ pc' = "parameter"
    BY <1>9, <1>11 DEF ParseFeature
  <2>2. AtParameter(d, b, n, current', descriptor', calls')
    <3>1. 0 \in {0, 1} /\ 0 \in 0 .. P /\ x + (4 * 0 + 2 * 0 + 2) = x + 2
      <4> HIDE DEF x, P
      <4> QED
        BY <1>6
    <3>2. (0 = g /\ 0 < P) \/ (0 = 0 /\ g = 1 /\ 0 = 0)
      BY <1>9, <1>11
    <3> QED
      BY <1>1, <1>3, <2>1, <3>1, <3>2 DEF AtParameter
  <2>3. ParserAt(t, d, how, b, e, n, current', descriptor', calls', pc')
    BY <1>1, <1>2, <2>1, <2>2 DEF ParserAt, ParserStages
  <2> QED
    BY <1>1, <2>3 DEF Parsing
<1>12. CASE L = 0
  <2>1. current' = x + 1 /\ pc' = "name"
    BY <1>3, <1>10, <1>12 DEF ParseFeature
  <2>2. AtName(d, b, n, current', descriptor', calls')
    <3>1. x + 1 + L = x + 1
      <4> HIDE DEF x, L
      <4> QED
        BY <1>6, <1>12
    <3>2. Arg(d[n]) = 0 /\ Len(d[n].parameters) = 0
      BY <1>10, <1>12
    <3> QED
      BY <1>1, <1>3, <2>1, <3>1, <3>2 DEF AtName
  <2>3. ParserAt(t, d, how, b, e, n, current', descriptor', calls', pc')
    BY <1>1, <1>2, <2>1, <2>2 DEF ParserAt, ParserStages
  <2> QED
    BY <1>1, <2>3 DEF Parsing
<1> QED
  BY <1>11, <1>12

\* Function n of s is set in s2: its argument, another parameter, its name.
ArgumentSet(s2, s, n, v) == s2 = [s EXCEPT ![n].argument = v]
ParameterSet(s2, s, n, v) == s2 = [s EXCEPT ![n].parameters = Append(@, v)]
NameSet(s2, s, n, v) == s2 = [s EXCEPT ![n].name = v]

\* The last function is filled in.
LEMMA MadeSet ==
  ASSUME NEW d, NEW n \in Nat \ {0}, NEW f, NEW v, NEW s, NEW s2, s = Made(d, n, f)
  PROVE  /\ ArgumentSet(s2, s, n, v) => s2 = Made(d, n, WithArgument(f, v))
         /\ ParameterSet(s2, s, n, v) => s2 = Made(d, n, WithParameter(f, v))
         /\ NameSet(s2, s, n, v) => s2 = Made(d, n, WithName(f, v))
<1>1. s = [i \in 1 .. n |-> IF i = n THEN f ELSE d[i]] /\ n \in 1 .. n
  BY DEF Made
<1>2. s[n] = f
  BY <1>1
<1>3. ASSUME NEW g, s2 = [s EXCEPT ![n] = g] PROVE s2 = Made(d, n, g)
  BY <1>1, <1>3 DEF Made
<1>4. ASSUME ArgumentSet(s2, s, n, v) PROVE s2 = Made(d, n, WithArgument(f, v))
  <2> DEFINE g == WithArgument(f, v)
  <2>1. s2 = [s EXCEPT ![n] = [s[n] EXCEPT !.argument = v]]
    BY <1>4 DEF ArgumentSet
  <2>2. s2 = [s EXCEPT ![n] = g]
    BY <1>2, <2>1 DEF WithArgument
  <2> HIDE DEF g
  <2> QED
    BY <1>3, <2>2 DEF g
<1>5. ASSUME ParameterSet(s2, s, n, v) PROVE s2 = Made(d, n, WithParameter(f, v))
  <2> DEFINE g == WithParameter(f, v)
  <2>1. s2 = [s EXCEPT ![n] = [s[n] EXCEPT !.parameters = Append(@, v)]]
    BY <1>5 DEF ParameterSet
  <2>2. s2 = [s EXCEPT ![n] = g]
    BY <1>2, <2>1 DEF WithParameter
  <2> HIDE DEF g
  <2> QED
    BY <1>3, <2>2 DEF g
<1>6. ASSUME NameSet(s2, s, n, v) PROVE s2 = Made(d, n, WithName(f, v))
  <2> DEFINE g == WithName(f, v)
  <2>1. s2 = [s EXCEPT ![n] = [s[n] EXCEPT !.name = v]]
    BY <1>6 DEF NameSet
  <2>2. s2 = [s EXCEPT ![n] = g]
    BY <1>2, <2>1 DEF WithName
  <2> HIDE DEF g
  <2> QED
    BY <1>3, <2>2 DEF g
<1> QED
  BY <1>4, <1>5, <1>6

\* Reading one parameter keeps to the plan.
LEMMA StepParseParameter ==
  ASSUME NEW t, NEW d, NEW how, NEW b, NEW e, IsPlan(t, d, how, b, e),
         Parsing(t, d, how, b, e), ParseParameter
  PROVE  Parsing(t, d, how, b, e)'
<1>1. source = t /\ pc = "parameter" /\ pc' = "parameters" /\ source' = source /\ calls' = calls
  BY DEF Parsing, ParseParameter
<1>2. PICK n \in 0 .. Len(d) : /\ CallsStand(calls, d, how, n)
                               /\ AtParameter(d, b, n, current, descriptor, calls)
  BY <1>1 DEF Parsing, ParserAt
<1> DEFINE f == d[n]
           x == b[n]
           l == Len(source)
           P == Len(f.parameters)
           g == Arg(f)
           L == ListLen(f)
           N == NameLen(f)
<1>3. PICK z \in {0, 1}, r \in 0 .. P :
        /\ (z = g /\ r < P) \/ (z = 0 /\ g = 1 /\ r = 0)
        /\ descriptor = Made(d, n, ReadSoFar(f, z, r))
        /\ current = x + (4 * r + 2 * z + 2)
  BY <1>2 DEF AtParameter
<1>4. Fills(calls, n)
  BY <1>2 DEF AtParameter
<1>5. /\ SpecReads(t, x, f) /\ Top.function = n /\ n \in Nat \ {0} /\ IsForest(d) /\ n \in 1 .. Len(d)
      /\ IsTyped(f, how[n].values)
  BY <1>1, <1>2, <1>4, FilledFunction
<1>6. SpecFits(f, x, l)
  BY <1>1, <1>2, <1>4, FilledFits
<1>7. /\ x \in Nat \ {0} /\ l \in Nat /\ P \in Nat /\ g \in {0, 1} /\ N \in Nat
      /\ L = IF P = 0 /\ g = 0 THEN 0 ELSE 4 * P + 2 * g + 1
      /\ x + 1 + L + N <= l + 1
  <2>1. N \in {0, 2}
    BY <1>6, Zenon DEF SpecFits
  <2>2. N \in Nat
    BY <2>1
  <2> QED
    BY <1>6, <2>2, Zenon DEF SpecFits
<1>8. current \in Nat /\ r \in Nat /\ z \in Nat
  <2> HIDE DEF x, P
  <2> QED
    BY <1>3, <1>7, SMTT(30)
<1>9. CASE z = g /\ r < P
  <2>1. /\ r + 1 \in 1 .. P /\ L # 0 /\ current + 3 <= l /\ current = x + (4 * r + 2 * g + 2)
        /\ current = x + (4 * (r + 1) + 2 * g + 1) - 3
        /\ current + 2 = x + (4 * (r + 1) + 2 * g + 1) - 1
        /\ current + 3 = x + (4 * (r + 1) + 2 * g + 1)
        /\ r + 1 + g > 0 /\ r + 1 \in 0 .. P
    <3> HIDE DEF x, l, P, g, L, N
    <3>1. L = 4 * P + 2 * g + 1
      BY <1>7, <1>8, <1>9
    <3> QED
      BY <1>3, <1>7, <1>8, <1>9, <3>1
  <2>2. Behind(f, r + 1) = 4 * (r + 1) + 2 * g + 1
    BY DEF Behind
  <2>3. current = x + Behind(f, r + 1) - 3 /\ current + 2 = x + Behind(f, r + 1) - 1
        /\ current + 3 = x + Behind(f, r + 1)
    BY <2>1, <2>2
  <2>4. /\ t[current].type = "NAME" /\ t[current].text = f.parameters[r + 1][1]
        /\ t[current + 2].type \in Texted /\ t[current + 2].text = f.parameters[r + 1][2]
    <3>1. /\ t[x + Behind(f, r + 1) - 3].type = "NAME"
          /\ t[x + Behind(f, r + 1) - 3].text = f.parameters[r + 1][1]
          /\ t[x + Behind(f, r + 1) - 1].type \in Texted
          /\ t[x + Behind(f, r + 1) - 1].text = f.parameters[r + 1][2]
      BY <1>5, <2>1, ZenonT(30) DEF SpecReads
    <3> QED
      BY <2>3, <3>1
  <2>5. /\ After(2) = current + 2 /\ After(3) = current + 3
        /\ current \in Nat \ {0} /\ current + 2 \in Nat \ {0} /\ current <= l /\ current + 2 <= l
    <3> DEFINE y == current
    <3>1. y + 2 <= l + 1 /\ y + 3 <= l + 1 /\ l \in Nat /\ y \in Nat \ {0}
          /\ y <= l /\ y + 2 <= l /\ y + 2 \in Nat \ {0}
      <4>1. y + 3 <= l /\ y = x + (4 * r + 2 * g + 2) /\ y \in Nat /\ r \in Nat /\ x \in Nat \ {0}
            /\ g \in {0, 1} /\ l \in Nat
        BY <1>7, <1>8, <2>1, Zenon
      <4> HIDE DEF x, l, y, g
      <4>2. 4 * r + 2 * g + 2 \in Nat
        BY <4>1
      <4>3. y # 0
        BY <4>1, <4>2
      <4> QED
        BY <4>1, <4>3
    <3> QED
      BY <3>1, AfterIs
  <2>6. ItemType(current) = "NAME"
    BY <1>1, <1>7, <2>4, <2>5, ItemTypeIs
  <2>7. ItemText(current) = f.parameters[r + 1][1] /\ ItemText(After(2)) = f.parameters[r + 1][2]
    <3>1. source[current].type \in Texted /\ source[current + 2].type \in Texted
      BY <1>1, <2>4 DEF Texted
    <3>2. ItemText(current) = source[current].text /\ ItemText(current + 2) = source[current + 2].text
      BY <1>7, <2>5, <3>1, TextIs
    <3> QED
      BY <1>1, <2>4, <2>5, <3>2
  <2> DEFINE w == <<f.parameters[r + 1][1], f.parameters[r + 1][2]>>
  <2>8. ParameterSet(descriptor', descriptor, n, w) /\ current' = After(3)
    <3>1. /\ descriptor' = [descriptor EXCEPT ![n].parameters = Append(@, w)]
          /\ current' = After(3)
      BY <1>5, <2>6, <2>7 DEF ParseParameter
    <3> QED
      BY <3>1 DEF ParameterSet
  <2>9. WithParameter(ReadSoFar(f, z, r), w) = ReadSoFar(f, z, r + 1)
    <3>1. r \in 0 .. P - 1
      BY <1>7, <1>8, <1>9
    <3>2. \A y : \A k \in 0 .. P - 1 :
            WithParameter(ReadSoFar(f, y, k), <<f.parameters[k + 1][1], f.parameters[k + 1][2]>>)
              = ReadSoFar(f, y, k + 1)
      BY <1>5, FilledIn, Zenon
    <3> QED
      BY <3>1, <3>2, Zenon
  <2>10. descriptor' = Made(d, n, ReadSoFar(f, g, r + 1))
    <3> HIDE DEF w
    <3>1. descriptor' = Made(d, n, WithParameter(ReadSoFar(f, z, r), w))
      BY <1>3, <1>5, <2>8, MadeSet
    <3> QED
      BY <1>9, <2>9, <3>1
  <2>11. current' = x + Behind(f, r + 1)
    BY <2>3, <2>5, <2>8
  <2>12. AtParameters(d, b, n, current', descriptor', calls')
    BY <1>1, <1>4, <2>1, <2>10, <2>11 DEF AtParameters
  <2>13. ParserAt(t, d, how, b, e, n, current', descriptor', calls', pc')
    BY <1>1, <1>2, <2>12 DEF ParserAt, ParserStages
  <2> QED
    BY <1>1, <2>13 DEF Parsing
<1>10. CASE z = 0 /\ g = 1 /\ r = 0
  <2>1. L # 0 /\ current + 1 <= l /\ current = x + 2 /\ current + 1 = x + (4 * 0 + 2 * g + 1)
        /\ 0 + g > 0 /\ 0 \in 0 .. P
    <3> HIDE DEF x, l, P, g, L, N
    <3>1. L = 4 * P + 2 * g + 1
      BY <1>7, <1>10
    <3> QED
      BY <1>3, <1>7, <1>10, <3>1
  <2>2. Behind(f, 0) = 4 * 0 + 2 * g + 1
    BY DEF Behind
  <2>3. t[current].type = "NUMBER" /\ t[current].text = f.argument
    <3>1. t[x + 2].type = "NUMBER" /\ t[x + 2].text = f.argument
      BY <1>5, <1>10, <2>1, Zenon DEF SpecReads
    <3> QED
      BY <2>1, <3>1
  <2>4. After(1) = current + 1 /\ current \in Nat \ {0} /\ current <= l
    <3>1. current + 1 <= l + 1 /\ l \in Nat /\ current \in Nat \ {0} /\ current <= l
      <4> HIDE DEF x, l
      <4> QED
        BY <1>7, <1>8, <2>1
    <3> QED
      BY <3>1, AfterIs
  <2>5. ItemType(current) = "NUMBER" /\ ItemText(current) = f.argument
    <3>1. ItemType(current) = "NUMBER"
      BY <1>1, <1>7, <2>3, <2>4, ItemTypeIs
    <3>2. source[current].type \in Texted
      BY <1>1, <2>3 DEF Texted
    <3> QED
      BY <1>1, <1>7, <2>3, <2>4, <3>1, <3>2, TextIs
  <2>6. ArgumentSet(descriptor', descriptor, n, f.argument) /\ current' = After(1)
    <3>1. descriptor' = [descriptor EXCEPT ![n].argument = f.argument] /\ current' = After(1)
      BY <1>5, <2>5 DEF ParseParameter
    <3> QED
      BY <3>1 DEF ArgumentSet
  <2>7. descriptor' = Made(d, n, ReadSoFar(f, g, 0))
    <3>1. WithArgument(ReadSoFar(f, 0, 0), f.argument) = ReadSoFar(f, 1, 0)
      BY <1>5, <2>1, FilledIn
    <3>2. descriptor' = Made(d, n, WithArgument(ReadSoFar(f, 0, 0), f.argument))
      BY <1>3, <1>5, <1>10, <2>6, MadeSet
    <3> QED
      BY <1>10, <3>1, <3>2
  <2>8. current' = x + Behind(f, 0)
    BY <2>1, <2>2, <2>4, <2>6
  <2>9. AtParameters(d, b, n, current', descriptor', calls')
    BY <1>1, <1>4, <2>1, <2>7, <2>8 DEF AtParameters
  <2>10. ParserAt(t, d, how, b, e, n, current', descriptor', calls', pc')
    BY <1>1, <1>2, <2>9 DEF ParserAt, ParserStages
  <2> QED
    BY <1>1, <2>10 DEF Parsing
<1> QED
  BY <1>3, <1>9, <1>10

\* Opening the list of parameters, or passing it by, keeps to the plan.
LEMMA StepParseParameters ==
  ASSUME NEW t, NEW d, NEW how, NEW b, NEW e, IsPlan(t, d, how, b, e),
         Parsing(t, d, how, b, e), ParseParameters
  PROVE  Parsing(t, d, how, b, e)'
<1>1. /\ source = t /\ pc = "parameters" /\ source' = source /\ descriptor' = descriptor /\ calls' = calls
      /\ current' = After(1)
  BY DEF Parsing, ParseParameters
<1>2. PICK n \in 0 .. Len(d) : /\ CallsStand(calls, d, how, n)
                               /\ AtParameters(d, b, n, current, descriptor, calls)
  BY <1>1 DEF Parsing, ParserAt
<1> DEFINE f == d[n]
           x == b[n]
           l == Len(source)
           P == Len(f.parameters)
           g == Arg(f)
           L == ListLen(f)
           N == NameLen(f)
<1>3. PICK r \in 0 .. P : /\ r + g > 0 /\ descriptor = Made(d, n, ReadSoFar(f, g, r))
                          /\ current = x + Behind(f, r)
  BY <1>2 DEF AtParameters
<1>4. Fills(calls, n)
  BY <1>2 DEF AtParameters
<1>5. SpecReads(t, x, f)
  BY <1>1, <1>2, <1>4, FilledFunction
<1>6. SpecFits(f, x, l)
  BY <1>1, <1>2, <1>4, FilledFits
<1>7. /\ x \in Nat \ {0} /\ l \in Nat /\ P \in Nat /\ g \in {0, 1} /\ N \in Nat
      /\ L = IF P = 0 /\ g = 0 THEN 0 ELSE 4 * P + 2 * g + 1
      /\ x + 1 + L + N <= l + 1
  <2>1. N \in {0, 2}
    BY <1>6, Zenon DEF SpecFits
  <2>2. N \in Nat
    BY <2>1
  <2> QED
    BY <1>6, <2>2, Zenon DEF SpecFits
<1>8. /\ r \in Nat /\ Behind(f, r) = 4 * r + 2 * g + 1 /\ Behind(f, r + 1) = 4 * (r + 1) + 2 * g + 1
      /\ current = x + (4 * r + 2 * g + 1)
  <2>1. Behind(f, r) = 4 * r + 2 * g + 1 /\ Behind(f, r + 1) = 4 * (r + 1) + 2 * g + 1
    BY DEF Behind
  <2> QED
    BY <1>3, <1>7, <2>1
<1>9. L = 4 * P + 2 * g + 1 /\ L # 0 /\ current \in Nat /\ current <= l /\ After(1) = current + 1
  <2> HIDE DEF x, l, P, g, L, N
  <2>1. L = 4 * P + 2 * g + 1
    BY <1>3, <1>7, <1>8
  <2>2. L # 0 /\ current \in Nat /\ current <= l /\ current + 1 <= l + 1
    BY <1>3, <1>7, <1>8, <2>1
  <2>3. After(1) = current + 1
    BY <1>7, <2>2, AfterIs DEF l
  <2> QED
    BY <2>1, <2>2, <2>3
<1>10. ItemType(current) = t[current].type
  BY <1>1, <1>7, <1>9, ItemTypeIs
<1>11. CASE r < P
  <2>1. r + 1 \in 1 .. P /\ (r + 1 > 1 \/ g = 1)
    <3> HIDE DEF P, g
    <3> QED
      BY <1>3, <1>7, <1>8, <1>11
  <2>2. t[x + Behind(f, r + 1) - 4].type = ","
    BY <1>5, <1>9, <2>1, Zenon DEF SpecReads
  <2>3. x + Behind(f, r + 1) - 4 = current
    BY <1>7, <1>8, SMTT(30)
  <2>4. current' = x + (4 * r + 2 * g + 2) /\ pc' = "parameter"
    <3>1. ItemType(current) = ","
      BY <1>10, <2>2, <2>3
    <3>2. current + 1 = x + (4 * r + 2 * g + 2)
      <4> HIDE DEF x, g
      <4> QED
        BY <1>7, <1>8
    <3> QED
      BY <1>1, <1>9, <3>1, <3>2 DEF ParseParameters
  <2>5. AtParameter(d, b, n, current', descriptor', calls')
    BY <1>1, <1>3, <1>4, <1>7, <1>11, <2>4 DEF AtParameter
  <2>6. ParserAt(t, d, how, b, e, n, current', descriptor', calls', pc')
    BY <1>1, <1>2, <2>4, <2>5 DEF ParserAt, ParserStages
  <2> QED
    BY <1>1, <2>6 DEF Parsing
<1>12. CASE ~ (r < P)
  <2>1. r = P /\ x + L = current /\ current + 1 = x + 1 + L
    <3> HIDE DEF x, P, g, L
    <3>1. r = P
      BY <1>7, <1>8, <1>12
    <3> QED
      BY <1>7, <1>8, <1>9, <3>1
  <2>2. t[x + L].type = ")"
    BY <1>5, <1>9, Zenon DEF SpecReads
  <2>3. pc' = "name"
    BY <1>10, <2>1, <2>2 DEF ParseParameters
  <2>4. AtName(d, b, n, current', descriptor', calls')
    BY <1>1, <1>3, <1>4, <1>9, <2>1 DEF AtName
  <2>5. ParserAt(t, d, how, b, e, n, current', descriptor', calls', pc')
    BY <1>1, <1>2, <2>3, <2>4 DEF ParserAt, ParserStages
  <2> QED
    BY <1>1, <2>5 DEF Parsing
<1> QED
  BY <1>11, <1>12

\* Reading the name that a feature is given keeps to the plan.
LEMMA StepParseName ==
  ASSUME NEW t, NEW d, NEW how, NEW b, NEW e, IsPlan(t, d, how, b, e),
         Parsing(t, d, how, b, e), ParseName
  PROVE  Parsing(t, d, how, b, e)'
<1>1. source = t /\ pc = "name" /\ pc' = "subfeatures" /\ source' = source /\ calls' = calls
  BY DEF Parsing, ParseName
<1>2. PICK n \in 0 .. Len(d) : /\ CallsStand(calls, d, how, n)
                               /\ AtName(d, b, n, current, descriptor, calls)
  BY <1>1 DEF Parsing, ParserAt
<1> DEFINE f == d[n]
           x == b[n]
           l == Len(source)
           P == Len(f.parameters)
           g == Arg(f)
           L == ListLen(f)
           N == NameLen(f)
           s == SpecLen(f)
<1>3. Fills(calls, n) /\ descriptor = Made(d, n, ReadSoFar(f, g, P)) /\ current = x + 1 + L
  BY <1>2 DEF AtName
<1>4. /\ SpecReads(t, x, f) /\ Top.function = n /\ n \in Nat \ {0} /\ IsForest(d) /\ n \in 1 .. Len(d)
      /\ Follows(t, d, how, b, n) /\ s = 1 + L + N /\ L \in Nat
  BY <1>1, <1>2, <1>3, FilledFunction
<1>5. SpecFits(f, x, l)
  BY <1>1, <1>2, <1>3, FilledFits
<1>6. x \in Nat \ {0} /\ l \in Nat /\ N \in {0, 2} /\ x + 1 + L + N <= l + 1
  BY <1>5, Zenon DEF SpecFits
<1>7. (f.name = "" => N = 0) /\ (f.name # "" => N = 2)
  BY <1>5, Zenon DEF SpecFits
<1>8. /\ WithName(ReadSoFar(f, g, P), f.name) = f
      /\ f.name = "" => ReadSoFar(f, g, P) = f
  BY <1>4, FilledIn
<1> DEFINE y == current
<1>13. /\ s = 1 + L + N /\ L \in Nat /\ y = x + 1 + L
       /\ x \in Nat \ {0} /\ l \in Nat /\ N \in {0, 2} /\ x + 1 + L + N <= l + 1
  BY <1>3, <1>4, <1>6, Zenon
<1>9. y \in Nat \ {0} /\ x + s = y + N /\ y + N <= l + 1
  <2> HIDE DEF x, l, L, N, s, y
  <2> QED
    BY <1>13
<1>10. ASSUME descriptor' = Made(d, n, f), current' = x + s PROVE Parsing(t, d, how, b, e)'
  <2>1. AtSubfeatures(d, b, n, current', descriptor', calls')
    BY <1>1, <1>3, <1>10 DEF AtSubfeatures
  <2>2. ParserAt(t, d, how, b, e, n, current', descriptor', calls', pc')
    BY <1>1, <1>2, <2>1 DEF ParserAt, ParserStages
  <2> QED
    BY <1>1, <2>2 DEF Parsing
<1>11. CASE f.name # ""
  <2>1. /\ t[x + L + 1].type = ":" /\ t[x + L + 2].type \in Texted /\ t[x + L + 2].text = f.name
    BY <1>4, <1>11, Zenon DEF SpecReads
  <2>2. N = 2
    BY <1>7, <1>11
  <2>3. /\ x + L + 1 = y /\ x + L + 2 = y + 1 /\ y <= l /\ y + 1 <= l /\ y + 1 <= l + 1 /\ y + 2 <= l + 1
        /\ y + 1 \in Nat \ {0} /\ y + 2 = x + s
    <3> HIDE DEF x, l, L, N, s, y
    <3> QED
      BY <1>9, <1>13, <2>2
  <2>4. After(1) = y + 1 /\ After(2) = y + 2
    BY <1>6, <1>9, <2>3, AfterIs
  <2>5. ItemType(current) = ":"
    BY <1>1, <1>6, <1>9, <2>1, <2>3, ItemTypeIs
  <2>6. ItemText(After(1)) = f.name
    <3>1. source[y + 1].type \in Texted
      BY <1>1, <2>1, <2>3
    <3>2. ItemText(y + 1) = source[y + 1].text
      BY <1>6, <2>3, <3>1, TextIs
    <3> QED
      BY <1>1, <2>1, <2>3, <2>4, <3>2
  <2>7. NameSet(descriptor', descriptor, n, f.name) /\ current' = After(2)
    <3>1. descriptor' = [descriptor EXCEPT ![n].name = f.name] /\ current' = After(2)
      BY <1>4, <2>5, <2>6 DEF ParseName
    <3> QED
      BY <3>1 DEF NameSet
  <2>8. descriptor' = Made(d, n, WithName(ReadSoFar(f, g, P), f.name))
    BY <1>3, <1>4, <2>7, MadeSet
  <2> QED
    BY <1>8, <1>10, <2>3, <2>4, <2>7, <2>8
<1>12. CASE f.name = ""
  <2>1. N = 0 /\ y = x + s
    <3>1. N = 0
      BY <1>7, <1>12
    <3> HIDE DEF N, x, s, y
    <3> QED
      BY <1>9, <3>1
  <2>2. TypeAt(t, y) \in {"NAME", "}", "END", ".", "{"}
    BY <1>4, <2>1 DEF Follows
  <2>3. ItemType(y) = TypeAt(t, y)
    BY <1>1, <1>6, <1>9, ItemTypeIs
  <2>4. ItemType(current) # ":"
    BY <2>2, <2>3
  <2>5. descriptor' = descriptor /\ current' = current
    BY <2>4 DEF ParseName
  <2> QED
    BY <1>3, <1>8, <1>10, <1>12, <2>1, <2>5
<1> QED
  BY <1>11, <1>12

\* The innermost call goes on in a block.
Opened(c2, c) == c2 = [c EXCEPT ![Len(c)].block = TRUE]

\* Opening a block leaves the calls standing as they stood.
LEMMA BlockOpened ==
  ASSUME NEW c, NEW d, NEW how, NEW n, CallsStand(c, d, how, n), c # <<>>,
         NEW c2, Opened(c2, c)
  PROVE  /\ CallsStand(c2, d, how, n)
         /\ c2 # <<>> /\ TopOf(c2) = TopOf(c) /\ c2[Len(c2)].block = TRUE
<1> DEFINE C == [function : Nat, block : BOOLEAN]
           l == Len(c)
           r == [c[l] EXCEPT !.block = TRUE]
<1>1. c \in Seq(C) /\ l \in Nat \ {0}
  <2>1. c \in Seq(C)
    BY DEF CallsStand
  <2> HIDE DEF C
  <2> QED
    BY <2>1
<1>2. c[l] \in C
  <2> HIDE DEF C
  <2> QED
    BY <1>1
<1>3. r \in C /\ r.block = TRUE /\ r.function = c[l].function
  BY <1>2
<1>4. c2 \in Seq(C) /\ Len(c2) = l /\ c2[l] = r /\ \A k \in 1 .. l : k # l => c2[k] = c[k]
  <2>1. c2 = [c EXCEPT ![l] = r]
    BY DEF Opened
  <2>2. l = Len(c)
    OBVIOUS
  <2> HIDE DEF C, r, l
  <2> QED
    BY <1>1, <1>3, <2>1, <2>2
<1>5. \A k \in 1 .. l : c2[k].function = c[k].function /\ (k < l => c2[k] = c[k])
  BY <1>1, <1>3, <1>4
<1> HIDE DEF C, r
<1>6. ASSUME NEW k \in 1 .. l PROVE CallStands(c2, d, how, n, k)
  <2>1. CallStands(c, d, how, n, k)
    BY DEF CallsStand
  <2>2. k # 1 => k - 1 \in 1 .. l
    BY <1>1
  <2> QED
    BY <1>4, <1>5, <2>1, <2>2 DEF CallStands
<1>7. \A k, m \in 1 .. l : k < m => c2[k].function < c2[m].function
  BY <1>5 DEF CallsStand
<1>8. Awaited(c2, d, n)
  BY <1>4, <1>5 DEF CallsStand, Awaited
<1>9. CallsStand(c2, d, how, n)
  BY <1>4, <1>6, <1>7, <1>8 DEF CallsStand, C
<1>10. c2 # <<>> /\ TopOf(c2) = TopOf(c) /\ c2[Len(c2)].block = TRUE
  <2>1. l \in 1 .. l
    BY <1>1
  <2> QED
    BY <1>1, <1>3, <1>4, <1>5, <2>1 DEF TopOf
<1> QED
  BY <1>9, <1>10

\* Going down to a subfeature keeps to the plan.
LEMMA StepParseSubfeatures ==
  ASSUME NEW t, NEW d, NEW how, NEW b, NEW e, IsPlan(t, d, how, b, e),
         Parsing(t, d, how, b, e), ParseSubfeatures
  PROVE  Parsing(t, d, how, b, e)'
<1>1. source = t /\ pc = "subfeatures" /\ source' = source
  BY DEF Parsing, ParseSubfeatures
<1>2. PICK n \in 0 .. Len(d) : /\ CallsStand(calls, d, how, n)
                               /\ AtSubfeatures(d, b, n, current, descriptor, calls)
  BY <1>1 DEF Parsing, ParserAt
<1>3. Fills(calls, n) /\ descriptor = Made(d, n, d[n]) /\ current = b[n] + SpecLen(d[n])
  BY <1>2 DEF AtSubfeatures
<1>4. /\ Top.function = n /\ n \in 1 .. Len(d) /\ IsForest(d) /\ Follows(t, d, how, b, n)
      /\ b[n] \in Nat \ {0} /\ SpecLen(d[n]) \in Nat \ {0} /\ Len(t) \in Nat
  BY <1>1, <1>2, <1>3, FilledFunction
<1>5. ReadsAt(t, d, how, b, e, n)
  BY <1>4, LaidReads
<1> DEFINE y == current
<1>6. y \in Nat \ {0}
  BY <1>3, <1>4
<1>7. ItemType(y) = TypeAt(t, y)
  BY <1>1, <1>4, <1>6, ItemTypeIs
<1>8. /\ TypeAt(t, y) = "." => Nested(d, n) # {} /\ Dotted(d, how, n)
      /\ TypeAt(t, y) = "{" => Nested(d, n) # {} /\ ~ Dotted(d, how, n)
      /\ TypeAt(t, y) \notin {".", "{"} => Nested(d, n) = {}
  BY <1>3, <1>4 DEF Follows
<1>9. calls # <<>> /\ TopOf(calls) = n /\ calls[Len(calls)].block = FALSE /\ n \in Nat
  BY <1>3, <1>4 DEF Fills
<1>10. ASSUME Nested(d, n) # {}
       PROVE  /\ n < Len(d) /\ d[n + 1].parent = n /\ b[n + 1] = y + 1 /\ y <= Len(t)
              /\ After(1) = b[n + 1] /\ After(2) = b[n + 1] + 1
              /\ ItemText(b[n + 1]) = d[n + 1].type
  <2>1. n + 1 \in Nested(d, n) /\ b[n + 1] = b[n] + SpecLen(d[n]) + 1 /\ b[n] + SpecLen(d[n]) <= Len(t)
    BY <1>5, <1>10, Zenon DEF ReadsAt
  <2>2. n + 1 \in DOMAIN d /\ d[n + 1].parent = n
    BY <2>1 DEF Nested
  <2>3. DOMAIN d = 1 .. Len(d) /\ Len(d) \in Nat
    BY <1>4 DEF IsForest
  <2>4. n + 1 \in 1 .. Len(d) /\ n < Len(d)
    BY <1>9, <2>2, <2>3
  <2>5. ItemText(b[n + 1]) = d[n + 1].type /\ b[n + 1] \in Nat \ {0} /\ b[n + 1] <= Len(source)
    BY <1>1, <2>4, ReadHere
  <2>6. b[n + 1] = y + 1 /\ y <= Len(t)
    BY <1>3, <2>1
  <2>7. After(1) = y + 1 /\ After(2) = y + 2 /\ b[n + 1] + 1 = y + 2
    <3>1. y + 1 <= Len(source) /\ Len(source) \in Nat
      BY <1>1, <1>4, <2>5, <2>6
    <3>2. y + 1 <= Len(source) + 1 /\ y + 2 <= Len(source) + 1
      BY <1>6, <3>1
    <3>3. b[n + 1] + 1 = y + 2
      BY <1>6, <2>6
    <3> QED
      BY <1>6, <3>1, <3>2, <3>3, AfterIs
  <2> QED
    BY <2>2, <2>4, <2>5, <2>6, <2>7
<1>11. CASE ItemType(y) = "."
  <2>1. Nested(d, n) # {} /\ Dotted(d, how, n)
    BY <1>7, <1>8, <1>11
  <2>2. AddFeature(ItemText(After(1)), Top.function) /\ current' = After(2)
    BY <1>11 DEF ParseSubfeatures
  <2> DEFINE type == ItemText(After(1))
             parent == Top.function
  <2>3. /\ type = d[n + 1].type /\ parent = d[n + 1].parent /\ AddFeature(type, parent)
        /\ current' = b[n + 1] + 1 /\ n < Len(d)
    BY <1>4, <1>10, <2>1, <2>2
  <2>4. d[n + 1].parent = TopOf(calls) /\ (calls[Len(calls)].block <=> ~ Dotted(d, how, TopOf(calls)))
    BY <1>9, <1>10, <2>1
  <2> HIDE DEF type, parent
  <2>5. ParserAt(t, d, how, b, e, n + 1, current', descriptor', calls', pc')
    BY <1>1, <1>2, <1>3, <1>9, <2>3, <2>4, FunctionAdded
  <2> QED
    BY <1>1, <2>5 DEF Parsing
<1>12. CASE ItemType(y) = "{"
  <2>1. Nested(d, n) # {} /\ ~ Dotted(d, how, n)
    BY <1>7, <1>8, <1>12
  <2>2. /\ calls' = [calls EXCEPT ![Len(calls)].block = TRUE]
        /\ current' = After(1) /\ pc' = "block" /\ descriptor' = descriptor
    BY <1>12 DEF ParseSubfeatures
  <2>3. /\ CallsStand(calls', d, how, n)
        /\ calls' # <<>> /\ TopOf(calls') = n /\ calls'[Len(calls')].block = TRUE
    <3>1. Opened(calls', calls)
      BY <2>2 DEF Opened
    <3> QED
      BY <1>2, <1>9, <3>1, BlockOpened
  <2>4. current' = NextIn(t, d, b, e, n, n)
    BY <1>10, <2>1, <2>2 DEF NextIn
  <2>5. AtBlock(t, d, how, b, e, n, current', descriptor', calls')
    BY <1>3, <2>1, <2>2, <2>3, <2>4 DEF AtBlock
  <2>6. ParserAt(t, d, how, b, e, n, current', descriptor', calls', pc')
    BY <2>2, <2>3, <2>5 DEF ParserAt, ParserStages
  <2> QED
    BY <1>1, <2>6 DEF Parsing
<1>13. CASE ItemType(y) \notin {".", "{"}
  <2>1. Nested(d, n) = {}
    BY <1>7, <1>8, <1>13
  <2>2. pc' = "return" /\ current' = current /\ descriptor' = descriptor /\ calls' = calls
    BY <1>13 DEF ParseSubfeatures
  <2>3. current' = e[TopOf(calls')]
    <3>1. e[n] = b[n] + SpecLen(d[n])
      BY <1>5, <2>1, Zenon DEF ReadsAt
    <3> QED
      BY <1>3, <1>9, <2>2, <3>1
  <2>4. n < Len(d) => d[n + 1].parent # TopOf(calls')
    <3>1. ASSUME n < Len(d), d[n + 1].parent = n PROVE FALSE
      <4>1. n + 1 \in DOMAIN d
        <5>1. DOMAIN d = 1 .. Len(d) /\ Len(d) \in Nat
          BY <1>4 DEF IsForest
        <5> QED
          BY <1>9, <3>1, <5>1
      <4> QED
        BY <2>1, <3>1, <4>1 DEF Nested
    <3> QED
      BY <1>9, <2>2, <3>1
  <2>5. AtReturn(d, e, n, current', descriptor', calls')
    BY <1>3, <1>9, <2>2, <2>3, <2>4 DEF AtReturn
  <2>6. ParserAt(t, d, how, b, e, n, current', descriptor', calls', pc')
    BY <1>2, <2>2, <2>5 DEF ParserAt, ParserStages
  <2> QED
    BY <1>1, <2>6 DEF Parsing
<1> QED
  BY <1>11, <1>12, <1>13

\* Going on, or ending, inside a block keeps to the plan.
LEMMA StepParseBlock ==
  ASSUME NEW t, NEW d, NEW how, NEW b, NEW e, IsPlan(t, d, how, b, e),
         Parsing(t, d, how, b, e), ParseBlock
  PROVE  Parsing(t, d, how, b, e)'
<1>1. source = t /\ pc = "block" /\ source' = source
  BY DEF Parsing, ParseBlock
<1>2. PICK n \in 0 .. Len(d) : /\ CallsStand(calls, d, how, n)
                               /\ AtBlock(t, d, how, b, e, n, current, descriptor, calls)
  BY <1>1 DEF Parsing, ParserAt
<1> DEFINE p == TopOf(calls)
           y == current
<1>3. /\ calls # <<>> /\ calls[Len(calls)].block = TRUE /\ ~ Dotted(d, how, p) /\ Nested(d, p) # {}
      /\ descriptor = Made(d, n, d[n]) /\ y = NextIn(t, d, b, e, n, p)
  BY <1>2 DEF AtBlock
<1>4. IsForest(d) /\ Len(t) \in Nat /\ DOMAIN d = 1 .. Len(d) /\ Len(d) \in Nat
  BY DEF IsPlan, IsForest
<1>5. p \in 1 .. n /\ Top.function = p /\ p \in 1 .. Len(d) /\ p # 0 /\ n \in Nat
  <2>1. calls \in Seq([function : Nat, block : BOOLEAN])
    BY <1>2 DEF CallsStand
  <2>2. Len(calls) \in Nat \ {0} /\ calls[Len(calls)].function = p
    BY <1>3, <2>1, TopIs
  <2>3. CallStands(calls, d, how, n, Len(calls))
    BY <1>2, <2>2 DEF CallsStand
  <2>4. p \in 1 .. n /\ Top.function = p
    BY <2>2, <2>3 DEF CallStands, Top
  <2> HIDE DEF p
  <2> QED
    BY <1>4, <2>4
<1>6. CASE n < Len(d) /\ d[n + 1].parent = p
  <2>1. y = b[n + 1] /\ n + 1 \in 1 .. Len(d)
    BY <1>3, <1>4, <1>5, <1>6 DEF NextIn
  <2>2. /\ ItemType(y) = "NAME" /\ ItemText(y) = d[n + 1].type
        /\ y \in Nat \ {0} /\ y <= Len(source) /\ Len(source) \in Nat
    BY <1>1, <2>1, ReadHere
  <2>3. AddFeature(ItemText(y), Top.function) /\ current' = After(1)
    BY <2>2 DEF ParseBlock
  <2>4. current' = b[n + 1] + 1
    BY <2>1, <2>2, <2>3, AfterIs
  <2> DEFINE type == ItemText(y)
             parent == Top.function
  <2>5. type = d[n + 1].type /\ parent = d[n + 1].parent /\ AddFeature(type, parent)
    BY <1>5, <1>6, <2>2, <2>3
  <2> HIDE DEF type, parent
  <2>6. ParserAt(t, d, how, b, e, n + 1, current', descriptor', calls', pc')
    BY <1>1, <1>2, <1>3, <1>6, <2>4, <2>5, FunctionAdded
  <2> QED
    BY <1>1, <2>6 DEF Parsing
<1>7. CASE ~ (n < Len(d) /\ d[n + 1].parent = p)
  <2>1. y = e[p] - 1
    BY <1>3, <1>5, <1>7 DEF NextIn
  <2>2. ReadsAt(t, d, how, b, e, p)
    BY <1>5, LaidReads
  <2>3. t[e[p] - 1].type = "}"
    BY <1>3, <2>2, Zenon DEF ReadsAt
  <2>4. /\ b[p] \in Nat \ {0} /\ e[p] \in Nat /\ b[p] + SpecLen(d[p]) <= e[p] /\ e[p] <= Len(t) + 1
        /\ SpecLen(d[p]) \in Nat \ {0}
    BY <2>2, Zenon DEF ReadsAt
  <2>5. y \in Nat \ {0} /\ y <= Len(t) /\ y + 1 = e[p]
    <3> DEFINE i == b[p]
               j == SpecLen(d[p])
               k == e[p]
               l == Len(t)
    <3>1. /\ i \in Nat \ {0} /\ k \in Nat /\ i + j <= k /\ k <= l + 1
          /\ j \in Nat \ {0} /\ l \in Nat /\ y = k - 1
      BY <1>4, <2>1, <2>4
    <3> HIDE DEF i, j, k, l, y
    <3>2. y \in Nat \ {0} /\ y <= l /\ y + 1 = k
      BY <3>1
    <3> QED
      BY <3>2 DEF k, l
  <2>6. ItemType(y) = "}"
    BY <1>1, <1>4, <2>1, <2>3, <2>5, ItemTypeIs
  <2>7. /\ current' = After(1) /\ pc' = "return" /\ descriptor' = descriptor /\ calls' = calls
    BY <2>6 DEF ParseBlock
  <2>8. current' = e[p]
    <3>1. After(1) = y + 1
      BY <1>1, <1>4, <2>5, AfterIs
    <3> QED
      BY <2>5, <2>7, <3>1
  <2>9. AtReturn(d, e, n, current', descriptor', calls')
    BY <1>3, <1>7, <2>7, <2>8 DEF AtReturn
  <2>10. ParserAt(t, d, how, b, e, n, current', descriptor', calls', pc')
    BY <1>2, <2>7, <2>9 DEF ParserAt, ParserStages
  <2> QED
    BY <1>1, <2>10 DEF Parsing
<1> QED
  BY <1>6, <1>7

\* Returning to the caller keeps to the plan.
LEMMA StepReturn ==
  ASSUME NEW t, NEW d, NEW how, NEW b, NEW e, IsPlan(t, d, how, b, e),
         Parsing(t, d, how, b, e), Return
  PROVE  Parsing(t, d, how, b, e)'
<1>1. /\ source = t /\ pc = "return" /\ source' = source /\ descriptor' = descriptor
      /\ current' = current /\ calls' = Front(calls)
      /\ pc' = (IF Len(calls) = 1 THEN "parse"
                ELSE IF calls[Len(calls) - 1].block THEN "block" ELSE "return")
  BY DEF Parsing, Return
<1>2. PICK n \in 0 .. Len(d) : /\ CallsStand(calls, d, how, n)
                               /\ AtReturn(d, e, n, current, descriptor, calls)
  BY <1>1 DEF Parsing, ParserAt
<1> DEFINE f == TopOf(calls)
           c == calls'
           l == Len(calls)
           p == d[f].parent
<1>3. /\ calls # <<>> /\ descriptor = Made(d, n, d[n]) /\ current = e[f]
      /\ n < Len(d) => d[n + 1].parent # f
  BY <1>2 DEF AtReturn
<1>4. IsForest(d) /\ DOMAIN d = 1 .. Len(d) /\ Len(d) \in Nat
  BY DEF IsPlan, IsForest
<1>5. /\ CallsStand(c, d, how, n)
      /\ Len(c) = l - 1 /\ \A k \in 1 .. l - 1 : c[k] = calls[k]
      /\ l \in Nat \ {0}
      /\ n < Len(d) => d[n + 1].parent <= p
      /\ f \in 1 .. n /\ \A j \in f + 1 .. n : d[j].parent >= f
      /\ p = IF l = 1 THEN 0 ELSE TopOf(c)
  BY <1>1, <1>2, <1>3, <1>4, Returned
<1>6. n \in 1 .. Len(d) /\ f \in DOMAIN d /\ n \in Nat
  BY <1>4, <1>5
<1>7. /\ p = 0 \/ ~ Dotted(d, how, p) => e[f] = NextIn(t, d, b, e, n, p)
      /\ p # 0 /\ Dotted(d, how, p) => e[f] = e[p] /\ (n < Len(d) => d[n + 1].parent # p)
  <2>1. IsRead(d, n, f, p)
    BY <1>5 DEF IsRead
  <2>2. n \in 1 .. Len(d) /\ f \in 1 .. n
    BY <1>5, <1>6
  <2> QED
    BY <2>1, <2>2, NextPlace
<1>8. CASE l = 1
  <2>1. p = 0 /\ pc' = "parse" /\ c = <<>>
    <3>1. c \in Seq([function : Nat, block : BOOLEAN]) /\ Len(c) = 0
      BY <1>5, <1>8 DEF CallsStand
    <3>2. c = <<>>
      BY <3>1
    <3> QED
      BY <1>1, <1>5, <1>8, <3>2
  <2>2. AtParse(t, d, b, e, n, current', descriptor', c)
    BY <1>1, <1>3, <1>7, <2>1 DEF AtParse
  <2>3. ParserAt(t, d, how, b, e, n, current', descriptor', calls', pc')
    BY <1>5, <2>1, <2>2 DEF ParserAt, ParserStages
  <2> QED
    BY <1>1, <2>3 DEF Parsing
<1>9. CASE l # 1
  <2>1. l - 1 \in 1 .. l /\ l - 1 \in 1 .. l - 1 /\ l - 1 < l
    BY <1>5, <1>9
  <2>2. p = TopOf(c) /\ TopOf(c) = calls[l - 1].function /\ c[Len(c)].block = calls[l - 1].block /\ c # <<>>
    <3>1. c[Len(c)] = calls[l - 1]
      BY <1>5, <2>1
    <3>2. c # <<>>
      BY <1>5, <2>1
    <3> QED
      BY <1>5, <1>9, <3>1, <3>2 DEF TopOf
  <2>3. CallStands(calls, d, how, n, l - 1)
    BY <1>2, <2>1 DEF CallsStand
  <2>4. p \in 1 .. n /\ (c[Len(c)].block <=> ~ Dotted(d, how, p))
    BY <2>1, <2>2, <2>3 DEF CallStands
  <2>5. c[Len(c)].block \in BOOLEAN
    <3>1. c \in Seq([function : Nat, block : BOOLEAN])
      BY <1>5 DEF CallsStand
    <3> QED
      BY <2>2, <3>1, TopIs
  <2>6. p # 0 /\ Nested(d, p) # {}
    <3>1. f \in Nested(d, p)
      BY <1>6 DEF Nested
    <3> QED
      BY <2>4, <3>1
  <2>7. CASE calls[l - 1].block
    <3>1. pc' = "block" /\ ~ Dotted(d, how, p) /\ c[Len(c)].block = TRUE
      BY <1>1, <1>9, <2>2, <2>4, <2>5, <2>7
    <3>2. AtBlock(t, d, how, b, e, n, current', descriptor', c)
      BY <1>1, <1>3, <1>7, <2>2, <2>6, <3>1 DEF AtBlock
    <3>3. ParserAt(t, d, how, b, e, n, current', descriptor', calls', pc')
      BY <1>5, <3>1, <3>2 DEF ParserAt, ParserStages
    <3> QED
      BY <1>1, <3>3 DEF Parsing
  <2>8. CASE ~ calls[l - 1].block
    <3>1. pc' = "return" /\ Dotted(d, how, p)
      BY <1>1, <1>9, <2>2, <2>4, <2>8
    <3>2. AtReturn(d, e, n, current', descriptor', c)
      BY <1>1, <1>3, <1>7, <2>2, <2>6, <3>1 DEF AtReturn
    <3>3. ParserAt(t, d, how, b, e, n, current', descriptor', calls', pc')
      BY <1>5, <3>1, <3>2 DEF ParserAt, ParserStages
    <3> QED
      BY <1>1, <3>3 DEF Parsing
  <2> QED
    BY <2>7, <2>8
<1> QED
  BY <1>8, <1>9

\* Every step of the parser leaves it at its place.
LEMMA ParserStep ==
  ASSUME NEW t, NEW d, NEW how, NEW b, NEW e, IsPlan(t, d, how, b, e),
         Parsing(t, d, how, b, e), Parse
  PROVE  Parsing(t, d, how, b, e)'
BY StepParseNext, StepParseEnd, StepParseFeature, StepParseParameter, StepParseParameters,
   StepParseName, StepParseSubfeatures, StepParseBlock, StepReturn DEF Parse

\* It starts at its place, for every space of a setup.
LEMMA ParserStart ==
  ASSUME NEW s \in Setups, NEW k \in 1 .. Len(s.spaces),
         NEW t, t = s.spaces[k].source, NEW d, d = s.spaces[k].tree, NEW how, how = s.spaces[k].how
  PROVE  \E b, e : IsPlan(t, d, how, b, e) /\ ParserAt(t, d, how, b, e, 0, 1, <<>>, <<>>, "parse")
<1>1. IsSetup(s)
  BY FeaturesAssumption
<1>2. k \in DOMAIN s.spaces
  <2>1. s.spaces \in Seq(ToSet(s.spaces))
    BY <1>1 DEF IsSetup
  <2> QED
    BY <2>1
<1>3. IsForest(d) /\ d # <<>> /\ how \in Hows(d) /\ t = Written(d, how)
  BY <1>1, <1>2, Zenon DEF IsSetup
<1>4. PICK T : t \in Seq(ItemsOf(T))
  BY <1>3, LayoutExists
<1>5. PICK b, e : IsLayout(t, d, how, b, e)
  BY <1>3, LayoutExists
<1>6. IsPlan(t, d, how, b, e)
  BY <1>3, <1>4, <1>5 DEF IsPlan
<1>7. Len(d) \in Nat \ {0} /\ DOMAIN d = 1 .. Len(d)
  <2>1. d \in Seq(ToSet(d))
    BY <1>3 DEF IsForest
  <2>2. d # <<>>
    BY <1>3
  <2> DEFINE S == ToSet(d)
  <2>3. d \in Seq(S)
    BY <2>1
  <2> HIDE DEF S
  <2>4. Len(d) \in Nat /\ DOMAIN d = 1 .. Len(d) /\ (Len(d) = 0 => d = <<>>)
    BY <2>3
  <2> QED
    BY <2>2, <2>4
<1>8. b[1] = 1
  BY <1>5, <1>7 DEF IsLayout
<1>9. d[1].parent = 0
  <2>1. 1 \in DOMAIN d
    BY <1>7
  <2>2. d[1].parent \in 0 .. 1 - 1
    BY <1>3, <2>1, Zenon DEF IsForest
  <2> DEFINE y == d[1].parent
  <2> HIDE DEF y
  <2>3. y \in 0 .. 1 - 1
    BY <2>2 DEF y
  <2>4. y = 0
    BY <2>3
  <2> QED
    BY <2>4 DEF y
<1>10. CallsStand(<<>>, d, how, 0)
  BY <1>9 DEF CallsStand, Awaited
<1>11. AtParse(t, d, b, e, 0, 1, <<>>, <<>>)
  <2>1. Made(d, 0, d[0]) = <<>>
    BY DEF Made
  <2>2. NextIn(t, d, b, e, 0, 0) = 1
    BY <1>7, <1>8, <1>9 DEF NextIn
  <2> QED
    BY <2>1, <2>2 DEF AtParse
<1>12. ParserAt(t, d, how, b, e, 0, 1, <<>>, <<>>, "parse")
  BY <1>7, <1>10, <1>11 DEF ParserAt, ParserStages
<1> QED
  BY <1>6, <1>12

-----------------------------------------------------------------------------
(* The specifications of a setup are parsed *)

\* The specification of a space is parsed.
SpaceParsing(space) ==
  \E b, e : /\ IsPlan(space.source, space.tree, space.how, b, e)
            /\ Parsing(space.source, space.tree, space.how, b, e)

\* The extractors so far are those of the setup, in its order.
SetupsParsed ==
  /\ setup \in Setups /\ Len(extractors) \in Nat
  /\ extractors = [k \in 1 .. Len(extractors) |-> Functions(setup.spaces[k].tree)]
  /\ stage = "parse" => /\ Len(extractors) < Len(setup.spaces)
                        /\ SpaceParsing(setup.spaces[Len(extractors) + 1])
  /\ stage # "parse" => Len(extractors) = Len(setup.spaces)

\* The function at hand has evaluated: the parser and the extractors stay.
LEMMA AddsKeeps ==
  ASSUME NEW values, Adds(values)
  PROVE  /\ UNCHANGED <<pvars, setup, extractors, sentence, at, chars, counts, concat>>
         /\ stage' \in {"function", "concat"}
BY DEF Adds

\* From the first text on, no step touches the parser or the extractors.
LEMMA LaterStep ==
  ASSUME Next, ~ ParseSpecification, ~ SetupExtractor
  PROVE  UNCHANGED <<pvars, setup, extractors>> /\ stage # "parse" /\ stage' # "parse"
<1>1. ASSUME NEW values, Adds(values)
      PROVE  UNCHANGED <<pvars, setup, extractors>> /\ stage' # "parse"
  BY <1>1, AddsKeeps
<1>2. CASE GetFeatures
  BY <1>2 DEF GetFeatures
<1>3. CASE Evaluate
  BY <1>3 DEF Evaluate
<1>4. CASE GetUTF8Char
  BY <1>4 DEF GetUTF8Char
<1>5. CASE IncludeTerminators
  BY <1>5 DEF IncludeTerminators
<1>6. CASE CountNgram
  BY <1>6 DEF CountNgram
<1>7. CASE CountScript
  BY <1>7 DEF CountScript
<1>8. CASE NgramValues
  <2>1. stage = "ngrams" /\ \E values : Adds(values)
    BY <1>8 DEF NgramValues
  <2> QED
    BY <1>1, <2>1
<1>9. CASE ScriptValues
  <2>1. stage = "scripts" /\ \E values : Adds(values)
    BY <1>9 DEF ScriptValues
  <2> QED
    BY <1>1, <2>1
<1>10. CASE ScriptFeature
  <2>1. stage = "function" /\ \E values : Adds(values)
    BY <1>10 DEF ScriptFeature
  <2> QED
    BY <1>1, <2>1
<1>11. CASE ConcatEmbeddings
  BY <1>11 DEF ConcatEmbeddings
<1> QED
  BY <1>2, <1>3, <1>4, <1>5, <1>6, <1>7, <1>8, <1>9, <1>10, <1>11 DEF Next

\* The spaces of a setup.
LEMMA SpacesAre ==
  ASSUME NEW s \in Setups
  PROVE  Len(s.spaces) \in Nat \ {0} /\ DOMAIN s.spaces = 1 .. Len(s.spaces)
<1>1. s.spaces \in Seq(ToSet(s.spaces)) /\ s.spaces # <<>>
  BY FeaturesAssumption DEF IsSetup
<1> QED
  BY <1>1

\* At the start nothing of the first specification is read.
LEMMA SetupsParsedInit == Init => SetupsParsed
<1> SUFFICES ASSUME Init PROVE SetupsParsed
  OBVIOUS
<1>1. /\ setup \in Setups /\ extractors = <<>> /\ stage = "parse"
      /\ source = setup.spaces[1].source /\ current = 1
      /\ descriptor = <<>> /\ calls = <<>> /\ pc = "parse"
  BY DEF Init, Initialize
<1>2. Len(setup.spaces) \in Nat \ {0}
  BY <1>1, SpacesAre
<1>3. SpaceParsing(setup.spaces[1])
  <2>1. PICK s \in Setups : s = setup
    BY <1>1
  <2> DEFINE space == s.spaces[1]
  <2>2. PICK t, d, how : t = space.source /\ d = space.tree /\ how = space.how
    OBVIOUS
  <2>3. 1 \in 1 .. Len(s.spaces)
    BY <1>2, <2>1
  <2>4. PICK b, e : IsPlan(t, d, how, b, e) /\ ParserAt(t, d, how, b, e, 0, 1, <<>>, <<>>, "parse")
    BY <2>2, <2>3, ParserStart
  <2>5. Parsing(t, d, how, b, e)
    BY <1>1, <2>1, <2>2, <2>4 DEF Parsing
  <2> QED
    BY <2>1, <2>2, <2>4, <2>5 DEF SpaceParsing
<1>4. Len(extractors) = 0 /\ extractors = [k \in 1 .. 0 |-> Functions(setup.spaces[k].tree)]
  BY <1>1
<1> QED
  BY <1>1, <1>2, <1>3, <1>4 DEF SetupsParsed

\* No step leaves the plan of a specification that is being read or has
\* been.
LEMMA SetupsParsedStep == SetupsParsed /\ [Next]_vars => SetupsParsed'
<1> SUFFICES ASSUME SetupsParsed, [Next]_vars PROVE SetupsParsed'
  OBVIOUS
<1> DEFINE n == Len(extractors)
           space == setup.spaces[n + 1]
<1>1. /\ setup \in Setups /\ n \in Nat
      /\ extractors = [k \in 1 .. n |-> Functions(setup.spaces[k].tree)]
      /\ stage = "parse" => n < Len(setup.spaces) /\ SpaceParsing(space)
      /\ stage # "parse" => n = Len(setup.spaces)
  BY DEF SetupsParsed
<1>2. Len(setup.spaces) \in Nat \ {0}
  BY <1>1, SpacesAre
<1>3. CASE ParseSpecification
  <2>1. stage = "parse" /\ Parse /\ setup' = setup /\ extractors' = extractors /\ stage' = stage
    BY <1>3 DEF ParseSpecification, fvars
  <2>2. PICK t, d, how : t = space.source /\ d = space.tree /\ how = space.how
    OBVIOUS
  <2>3. PICK b, e : IsPlan(t, d, how, b, e) /\ Parsing(t, d, how, b, e)
    BY <1>1, <2>1, <2>2 DEF SpaceParsing
  <2>4. Parsing(t, d, how, b, e)'
    BY <2>1, <2>3, ParserStep
  <2>5. SpaceParsing(space)'
    BY <2>1, <2>2, <2>3, <2>4 DEF SpaceParsing
  <2> QED
    BY <1>1, <2>1, <2>5 DEF SetupsParsed
<1>4. CASE SetupExtractor
  <2>1. /\ stage = "parse" /\ pc = "parsed" /\ setup' = setup
        /\ extractors' = Append(extractors, Functions(descriptor))
    BY <1>4 DEF SetupExtractor
  <2>2. PICK t, d, how : t = space.source /\ d = space.tree /\ how = space.how
    OBVIOUS
  <2>3. PICK b, e : IsPlan(t, d, how, b, e) /\ Parsing(t, d, how, b, e)
    BY <1>1, <2>1, <2>2 DEF SpaceParsing
  <2>4. descriptor = d /\ calls = <<>>
    BY <2>1, <2>3 DEF Parsing, ParserAt
  <2>5. Len(extractors') = n + 1 /\ extractors' = [k \in 1 .. n + 1 |-> Functions(setup.spaces[k].tree)]
    <3> DEFINE G(k) == Functions(setup.spaces[k].tree)
               W == [k \in 0 .. n + 1 |-> G(k)]
    <3>1. extractors = Made(W, n, W[n])
      <4>1. \A k \in 1 .. n : k \in 0 .. n + 1
        BY <1>1
      <4> QED
        BY <1>1, <4>1 DEF Made
    <3>2. Functions(descriptor) = W[n + 1] /\ \A k \in 1 .. n + 1 : W[k] = G(k)
      <4>1. Functions(descriptor) = G(n + 1)
        BY <2>2, <2>4
      <4>2. n + 1 \in 0 .. n + 1 /\ \A k \in 1 .. n + 1 : k \in 0 .. n + 1
        BY <1>1
      <4> HIDE DEF G
      <4> QED
        BY <4>1, <4>2
    <3> HIDE DEF W, n
    <3>3. extractors' = Made(W, n + 1, W[n + 1])
      BY <1>1, <2>1, <3>1, <3>2, MadeIs, SMTT(30)
    <3>4. Len(Made(W, n + 1, W[n + 1])) = n + 1
      <4>1. n + 1 \in Nat
        BY <1>1
      <4> QED
        BY <4>1, MadeIs
    <3>5. Made(W, n + 1, W[n + 1]) = [k \in 1 .. n + 1 |-> G(k)]
      BY <3>2 DEF Made
    <3> QED
      BY <3>3, <3>4, <3>5, SMTT(30)
  <2>6. n + 1 <= Len(setup.spaces) /\ n + 1 \in Nat
    BY <1>1, <1>2, <2>1
  <2>7. CASE Len(extractors') < Len(setup.spaces)
    <3>1. /\ source' = setup.spaces[n + 1 + 1].source
          /\ current' = 1 /\ descriptor' = <<>> /\ pc' = "parse" /\ calls' = <<>> /\ stage' = "parse"
      BY <1>4, <2>1, <2>4, <2>5, <2>7 DEF SetupExtractor
    <3>2. PICK s \in Setups : s = setup
      BY <1>1
    <3> DEFINE next == s.spaces[n + 1 + 1]
    <3>3. PICK t2, d2, how2 : t2 = next.source /\ d2 = next.tree /\ how2 = next.how
      OBVIOUS
    <3>4. n + 1 + 1 \in 1 .. Len(s.spaces)
      BY <1>1, <1>2, <2>5, <2>7, <3>2
    <3>5. PICK b2, e2 : /\ IsPlan(t2, d2, how2, b2, e2)
                        /\ ParserAt(t2, d2, how2, b2, e2, 0, 1, <<>>, <<>>, "parse")
      <4> DEFINE k == n + 1 + 1
      <4>1. PICK i \in 1 .. Len(s.spaces) : i = k
        BY <3>4
      <4> QED
        BY <3>3, <4>1, ParserStart
    <3>6. Parsing(t2, d2, how2, b2, e2)'
      BY <3>1, <3>2, <3>3, <3>5 DEF Parsing
    <3>7. SpaceParsing(setup.spaces[Len(extractors) + 1])'
      BY <2>1, <2>5, <3>2, <3>3, <3>5, <3>6 DEF SpaceParsing
    <3> QED
      BY <1>1, <2>1, <2>5, <2>6, <2>7, <3>1, <3>7 DEF SetupsParsed
  <2>8. CASE ~ (Len(extractors') < Len(setup.spaces))
    <3>1. stage' = "ready" /\ Len(extractors') = Len(setup.spaces)
      BY <1>4, <2>8 DEF SetupExtractor
    <3> QED
      BY <1>1, <2>1, <2>5, <2>6, <3>1 DEF SetupsParsed
  <2> QED
    BY <2>7, <2>8
<1>5. CASE Next /\ ~ ParseSpecification /\ ~ SetupExtractor
  <2>1. UNCHANGED <<pvars, setup, extractors>> /\ stage # "parse" /\ stage' # "parse"
    BY <1>5, LaterStep
  <2> QED
    BY <1>1, <2>1 DEF SetupsParsed
<1>6. CASE UNCHANGED vars
  <2>1. UNCHANGED <<pvars, setup, extractors, stage>>
    BY <1>6 DEF vars, fvars
  <2> QED
    BY <2>1 DEF SetupsParsed, SpaceParsing, Parsing, pvars
<1> QED
  BY <1>3, <1>4, <1>5, <1>6

\* A specification comes back as the descriptor that it was written for,
\* whatever the forest and however the grammar lets it be written.
THEOREM ParsesEveryTree == Spec => []ParsesTree
<1>1. SetupsParsed => ParsesTree
  <2> SUFFICES ASSUME SetupsParsed, stage = "parse", pc = "parsed"
               PROVE  descriptor = setup.spaces[Len(extractors) + 1].tree
    BY DEF ParsesTree
  <2> DEFINE space == setup.spaces[Len(extractors) + 1]
  <2>1. PICK b, e : Parsing(space.source, space.tree, space.how, b, e)
    BY DEF SetupsParsed, SpaceParsing
  <2> QED
    BY <2>1 DEF Parsing, ParserAt
<1> QED
  BY <1>1, SetupsParsedInit, SetupsParsedStep, PTL DEF Spec

-----------------------------------------------------------------------------
(* Bags that count *)

\* The bag of the values of v at the places in S.
KeysOf(v, S) == {v[i] : i \in S}
CountOf(v, S, x) == Cardinality({i \in S : v[i] = x})
BagOf(v, S) == [x \in KeysOf(v, S) |-> CountOf(v, S, x)]

\* Nothing counted makes an empty bag.
LEMMA BagOfNothing == ASSUME NEW v PROVE BagOf(v, {}) = EmptyBag
<1>1. KeysOf(v, {}) = {}
  BY DEF KeysOf
<1> QED
  BY <1>1 DEF BagOf, EmptyBag, SetToBag

\* How often x is the value, with one more place.
LEMMA OneMorePlace ==
  ASSUME NEW v, NEW S, IsFiniteSet(S), NEW n, n \notin S, NEW x
  PROVE  /\ CountOf(v, S, x) \in Nat
         /\ v[n] = x => CountOf(v, S \cup {n}, x) = CountOf(v, S, x) + 1
         /\ v[n] # x => CountOf(v, S \cup {n}, x) = CountOf(v, S, x)
         /\ x \notin KeysOf(v, S) => CountOf(v, S, x) = 0
<1> DEFINE C == {i \in S : v[i] = x}
           D == {i \in S \cup {n} : v[i] = x}
<1>1. IsFiniteSet(C) /\ Cardinality(C) \in Nat
  <2>1. C \in SUBSET S
    OBVIOUS
  <2> HIDE DEF C
  <2>2. IsFiniteSet(C)
    BY <2>1, FS_Subset
  <2> QED
    BY <2>2, FS_CardinalityType
<1>2. ASSUME v[n] = x PROVE Cardinality(D) = Cardinality(C) + 1
  <2>1. D = C \cup {n} /\ n \notin C
    BY <1>2
  <2> HIDE DEF C, D
  <2> QED
    BY <1>1, <2>1, FS_AddElement
<1>3. ASSUME v[n] # x PROVE Cardinality(D) = Cardinality(C)
  <2>1. D = C
    BY <1>3
  <2> QED
    BY <2>1
<1>4. x \notin KeysOf(v, S) => C = {}
  BY DEF KeysOf
<1> HIDE DEF C, D
<1>6. Cardinality(C) = 0 <=> C = {}
  BY <1>1, FS_EmptySet
<1> QED
  BY <1>1, <1>2, <1>3, <1>4, <1>6 DEF C, D, CountOf

\* One value more is counted.
LEMMA BagOfOneMore ==
  ASSUME NEW v, NEW S, IsFiniteSet(S), NEW n, n \notin S
  PROVE  BagOf(v, S) (+) SetToBag({v[n]}) = BagOf(v, S \cup {n})
<1> DEFINE y == v[n]
           K == KeysOf(v, S)
           c(x) == CountOf(v, S, x)
           d(x) == CountOf(v, S \cup {n}, x)
<1>1. KeysOf(v, S \cup {n}) = K \cup {y}
  BY DEF KeysOf
<1>2. \A x : /\ c(x) \in Nat /\ (y = x => d(x) = c(x) + 1) /\ (y # x => d(x) = c(x))
             /\ (x \notin K => c(x) = 0)
  <2>1. ASSUME NEW x
        PROVE  /\ c(x) \in Nat /\ (y = x => d(x) = c(x) + 1) /\ (y # x => d(x) = c(x))
               /\ (x \notin K => c(x) = 0)
    <3>1. /\ CountOf(v, S, x) \in Nat
          /\ v[n] = x => CountOf(v, S \cup {n}, x) = CountOf(v, S, x) + 1
          /\ v[n] # x => CountOf(v, S \cup {n}, x) = CountOf(v, S, x)
          /\ x \notin KeysOf(v, S) => CountOf(v, S, x) = 0
      BY OneMorePlace, ZenonT(30)
    <3> QED
      BY <3>1
  <2> QED
    BY <2>1
<1>3. BagOf(v, S) = [x \in K |-> c(x)] /\ BagOf(v, S \cup {n}) = [x \in K \cup {y} |-> d(x)]
  BY <1>1 DEF BagOf
<1> HIDE DEF c, d, K
<1>4. BagOf(v, S) (+) SetToBag({y}) =
        [x \in K \cup {y} |-> (IF x \in K THEN c(x) ELSE 0) + (IF x \in {y} THEN 1 ELSE 0)]
  <2> DEFINE B == BagOf(v, S)
             A == SetToBag({y})
  <2>1. DOMAIN B = K /\ (\A x \in K : B[x] = c(x)) /\ DOMAIN A = {y} /\ A[y] = 1
    BY <1>3 DEF SetToBag
  <2>2. B (+) A = [x \in DOMAIN B \cup DOMAIN A |->
                     (IF x \in DOMAIN B THEN B[x] ELSE 0) + (IF x \in DOMAIN A THEN A[x] ELSE 0)]
    BY DEF (+)
  <2> HIDE DEF A, B, y
  <2>3. B (+) A = [x \in K \cup {y} |-> (IF x \in K THEN c(x) ELSE 0) + (IF x \in {y} THEN 1 ELSE 0)]
    BY <2>1, <2>2
  <2> QED
    BY <2>3 DEF A, B
<1>5. \A x \in K \cup {y} : (IF x \in K THEN c(x) ELSE 0) + (IF x \in {y} THEN 1 ELSE 0) = d(x)
  <2> HIDE DEF y
  <2> QED
    BY <1>2
<1> QED
  BY <1>3, <1>4, <1>5

\* The counts add up to the number of places.
AddsToSize(v, S) ==
  /\ IsFiniteSet(KeysOf(v, S))
  /\ CountSum(BagOf(v, S)) = Cardinality(S)

\* One place more adds one to the sum of the counts.
LEMMA OneMoreAdds ==
  ASSUME NEW v, NEW S, IsFiniteSet(S), NEW n, n \notin S, AddsToSize(v, S)
  PROVE  AddsToSize(v, S \cup {n})
<1> DEFINE T == S \cup {n}
           y == v[n]
           K == KeysOf(v, S)
           L == KeysOf(v, T)
           f == BagOf(v, S)
           g == BagOf(v, T)
           R == K \ {y}
<1>1. L = K \cup {y} /\ L = R \cup {y} /\ y \notin R
  BY DEF KeysOf
<1>2. IsFiniteSet(K) /\ IsFiniteSet(L) /\ IsFiniteSet(R)
  <2>1. IsFiniteSet(K)
    BY DEF AddsToSize
  <2> HIDE DEF K, L
  <2> QED
    BY <1>1, <2>1, FS_AddElement, FS_RemoveElement, SMTT(30)
<1>3. /\ DOMAIN f = K /\ DOMAIN g = L
      /\ \A x \in K : f[x] \in Nat
      /\ \A x \in L : g[x] \in Nat
      /\ \A x \in R : g[x] = f[x]
      /\ y \in K => g[y] = f[y] + 1
      /\ y \notin K => g[y] = 1
  <2> DEFINE c(x) == CountOf(v, S, x)
             d(x) == CountOf(v, T, x)
  <2>1. \A x : /\ c(x) \in Nat /\ (y = x => d(x) = c(x) + 1) /\ (y # x => d(x) = c(x))
               /\ (x \notin K => c(x) = 0)
    <3>1. ASSUME NEW x
          PROVE  /\ c(x) \in Nat /\ (y = x => d(x) = c(x) + 1) /\ (y # x => d(x) = c(x))
                 /\ (x \notin K => c(x) = 0)
      <4>1. /\ CountOf(v, S, x) \in Nat
            /\ v[n] = x => CountOf(v, S \cup {n}, x) = CountOf(v, S, x) + 1
            /\ v[n] # x => CountOf(v, S \cup {n}, x) = CountOf(v, S, x)
            /\ x \notin KeysOf(v, S) => CountOf(v, S, x) = 0
        BY OneMorePlace, ZenonT(30)
      <4> QED
        BY <4>1
    <3> QED
      BY <3>1
  <2>2. f = [x \in K |-> c(x)] /\ g = [x \in L |-> d(x)]
    BY DEF BagOf
  <2> HIDE DEF c, d, f, g, K, L, y
  <2> QED
    BY <1>1, <2>1, <2>2
<1>4. Cardinality(T) = Cardinality(S) + 1 /\ Cardinality(S) \in Nat
  BY FS_AddElement, FS_CardinalityType
<1>5. SumFunctionOnSet(f, K) = Cardinality(S)
  BY <1>3 DEF AddsToSize, CountSum, SumFunction
<1> HIDE DEF f, g, K, L, T, y
<1>6. SumFunctionOnSet(g, R) = SumFunctionOnSet(f, R) /\ SumFunctionOnSet(f, R) \in Nat
  <2>1. \A x \in R : f[x] \in Nat /\ g[x] = f[x]
    BY <1>3
  <2> HIDE DEF R
  <2> QED
    BY <1>2, <2>1, SumsOfSame
<1>7. SumFunctionOnSet(g, L) = SumFunctionOnSet(g, R) + g[y]
  <2>1. \A x \in R \cup {y} : g[x] \in Nat
    BY <1>1, <1>3
  <2> HIDE DEF R
  <2>2. SumFunctionOnSet(g, R \cup {y}) = SumFunctionOnSet(g, R) + g[y]
    BY <1>1, <1>2, <2>1, SumWithOneMore
  <2> QED
    BY <1>1, <2>2
<1>8. SumFunctionOnSet(g, L) = Cardinality(T)
  <2>1. CASE y \in K
    <3>1. K = R \cup {y} /\ \A x \in R \cup {y} : f[x] \in Nat
      BY <1>3, <2>1
    <3>2. SumFunctionOnSet(f, K) = SumFunctionOnSet(f, R) + f[y]
      <4> HIDE DEF R
      <4>1. SumFunctionOnSet(f, R \cup {y}) = SumFunctionOnSet(f, R) + f[y]
        BY <1>1, <1>2, <3>1, SumWithOneMore
      <4> QED
        BY <3>1, <4>1
    <3>3. f[y] \in Nat /\ g[y] = f[y] + 1
      BY <1>3, <2>1
    <3> QED
      BY <1>4, <1>5, <1>6, <1>7, <3>2, <3>3
  <2>2. CASE y \notin K
    <3>1. K = R /\ g[y] = 1
      BY <1>3, <2>2
    <3> QED
      BY <1>4, <1>5, <1>6, <1>7, <3>1
  <2> QED
    BY <2>1, <2>2
<1>9. SumFunctionOnSet(g, DOMAIN g) = Cardinality(T)
  BY <1>3, <1>8
<1> QED
  BY <1>2, <1>9 DEF AddsToSize, CountSum, SumFunction, T, L, g

\* The counts over a set of places add up to its size.
LEMMA CountsAddUp ==
  ASSUME NEW m \in Nat, NEW v, NEW S \in SUBSET (1 .. m)
  PROVE  AddsToSize(v, S) /\ IsFiniteSet(S) /\ Cardinality(S) \in Nat
<1> DEFINE U(k) == S \cap (1 .. k)
           A == {k \in 0 .. m : AddsToSize(v, U(k))}
<1>0. \A k \in 0 .. m : IsFiniteSet(U(k))
  <2>1. ASSUME NEW k \in 0 .. m PROVE IsFiniteSet(U(k))
    <3>1. IsFiniteSet(1 .. k)
      BY FS_Interval
    <3>2. U(k) \in SUBSET (1 .. k)
      OBVIOUS
    <3> HIDE DEF U
    <3> QED
      BY <3>1, <3>2, FS_Subset
  <2> QED
    BY <2>1
<1>1. 0 \in A
  <2>1. U(0) = {}
    OBVIOUS
  <2>2. KeysOf(v, {}) = {} /\ BagOf(v, {}) = EmptyBag
    BY BagOfNothing DEF KeysOf
  <2>3. DOMAIN EmptyBag = {}
    BY DEF EmptyBag, SetToBag
  <2>4. CountSum(EmptyBag) = 0
    BY <2>3, SumOfNothing DEF CountSum, SumFunction
  <2>5. AddsToSize(v, {})
    BY <2>2, <2>4, FS_EmptySet DEF AddsToSize
  <2> QED
    BY <2>1, <2>5
<1>2. ASSUME NEW k \in 0 .. m - 1, k \in A PROVE k + 1 \in A
  <2>1. k \in 0 .. m /\ k + 1 \in 0 .. m
    BY <1>2
  <2>2. IsFiniteSet(U(k)) /\ AddsToSize(v, U(k))
    BY <1>0, <1>2, <2>1
  <2>3. CASE k + 1 \in S
    <3>1. U(k + 1) = U(k) \cup {k + 1} /\ k + 1 \notin U(k)
      BY <1>2, <2>3
    <3> HIDE DEF U
    <3>2. AddsToSize(v, U(k) \cup {k + 1})
      BY <2>2, <3>1, OneMoreAdds
    <3> QED
      BY <2>1, <3>1, <3>2
  <2>4. CASE k + 1 \notin S
    <3>1. U(k + 1) = U(k)
      BY <1>2, <2>4
    <3> QED
      BY <2>1, <2>2, <3>1
  <2> QED
    BY <2>3, <2>4
<1> HIDE DEF A
<1>3. \A k \in 0 .. m : k \in A
  BY <1>1, <1>2, UpFromZero
<1>4. m \in A /\ m \in 0 .. m
  BY <1>3
<1>5. U(m) = S
  OBVIOUS
<1>6. AddsToSize(v, S) /\ IsFiniteSet(S)
  BY <1>0, <1>4, <1>5 DEF A
<1> QED
  BY <1>6, FS_CardinalityType

-----------------------------------------------------------------------------
(* The functions that are set up *)

\* Function i or one in it is of a continuous type, as g knows those in it.
ShownIn(d, g, i) == d[i].type \in {Cbog, Rsf} \/ \E k \in DOMAIN d : d[k].parent = i /\ g[k]

\* f says of every function whether it or one in it is of a continuous type.
ShownBy(d, f) ==
  f = [j \in DOMAIN d |-> d[j].type \in {Cbog, Rsf} \/ \E k \in DOMAIN d : d[k].parent = j /\ f[k]]

Shown(d) == CHOOSE f : ShownBy(d, f)

\* What the turns of Shown see, and what they answer, from the last function on.
ShownTurns(n) == UNION {{<<j, g>> : g \in [j + 1 .. n -> BOOLEAN]} : j \in 1 .. n}

ShownTurn(d, n) == [x \in ShownTurns(n) |-> ShownIn(d, x[2], x[1])]

\* Functions nested in j are behind it.
LEMMA ParentBefore ==
  ASSUME NEW d, IsForest(d), NEW j \in 1 .. Len(d), NEW k \in DOMAIN d, d[k].parent = j
  PROVE  k \in j + 1 .. Len(d)
<1>1. d[k].parent \in 0 .. k - 1
  BY Zenon DEF IsForest
<1>2. Len(d) \in Nat /\ DOMAIN d = 1 .. Len(d)
  BY DEF IsForest
<1> DEFINE n == Len(d)
           p == d[k].parent
<1>3. p \in 0 .. k - 1 /\ p = j /\ n \in Nat /\ k \in 1 .. n /\ j \in 1 .. n
  BY <1>1, <1>2, Zenon
<1> HIDE DEF n, p
<1>4. k \in j + 1 .. n
  BY <1>3, SMT
<1> QED
  BY <1>4 DEF n

\* A turn of Shown.
LEMMA ShownTurnIs ==
  ASSUME NEW d, NEW n \in Nat, NEW j \in 1 .. n, NEW g \in [j + 1 .. n -> BOOLEAN]
  PROVE  ShownTurn(d, n)[<<j, g>>] = ShownIn(d, g, j)
<1>1. <<j, g>> \in ShownTurns(n)
  <2> DEFINE X == {<<j, f>> : f \in [j + 1 .. n -> BOOLEAN]}
  <2>1. <<j, g>> \in X
    OBVIOUS
  <2>2. X \in {{<<i, f>> : f \in [i + 1 .. n -> BOOLEAN]} : i \in 1 .. n}
    BY Zenon
  <2> HIDE DEF X
  <2> QED
    BY <2>1, <2>2, Zenon DEF ShownTurns
<1>2. <<j, g>>[1] = j /\ <<j, g>>[2] = g
  OBVIOUS
<1>3. ShownTurn(d, n)[<<j, g>>] = ShownIn(d, <<j, g>>[2], <<j, g>>[1])
  BY <1>1, Zenon DEF ShownTurn
<1> QED
  BY <1>2, <1>3

\* The recursion of FeatureType is well defined.
LEMMA ShownUnfolds ==
  ASSUME NEW d, IsForest(d)
  PROVE  \A j \in 1 .. Len(d) : Shown(d)[j] = ShownIn(d, Shown(d), j)
<1> DEFINE n == Len(d)
           V == BOOLEAN
           h == ShownTurn(d, n)
<1>1. n \in Nat /\ DOMAIN d = 1 .. n
  BY DEF IsForest
<1>2. ASSUME NEW j \in 1 .. n, NEW g \in [j + 1 .. n -> V]
      PROVE  h[<<j, g>>] = ShownIn(d, g, j)
  BY <1>1, <1>2, ShownTurnIs, Zenon
<1>3. ASSUME NEW j, NEW g PROVE ShownIn(d, g, j) \in V
  BY Zenon DEF ShownIn
<1> HIDE DEF h, V
<1>4. IsStepBack(h, V, n)
  <2>1. ASSUME NEW j \in 1 .. n, NEW g \in [j + 1 .. n -> V] PROVE h[<<j, g>>] \in V
    BY <1>2, <1>3
  <2> QED
    BY <2>1 DEF IsStepBack
<1>5. PICK f \in [1 .. n -> V] : FromBehindOn(f, h, 1, n)
  BY <1>1, <1>4, BehindExists
<1>6. \A j \in 1 .. n : f[j] = ShownIn(d, f, j)
  <2>1. ASSUME NEW j \in 1 .. n PROVE f[j] = ShownIn(d, f, j)
    <3> DEFINE g == [k \in j + 1 .. n |-> f[k]]
    <3>1. \A k \in j + 1 .. n : k \in 1 .. n
      <4> HIDE DEF n
      <4> QED
        BY <1>1
    <3>2. g \in [j + 1 .. n -> V] /\ \A k \in j + 1 .. n : g[k] = f[k]
      BY <3>1
    <3>3. f[j] = h[<<j, g>>]
      <4>1. \A k \in 1 .. n : f[k] = h[<<k, [m \in k + 1 .. n |-> f[m]]>>]
        BY <1>5, Zenon DEF FromBehindOn
      <4> QED
        BY <4>1, Zenon
    <3> HIDE DEF g
    <3>4. \A k \in DOMAIN d : d[k].parent = j => k \in j + 1 .. n
      BY ParentBefore, Zenon
    <3>5. ShownIn(d, g, j) = ShownIn(d, f, j)
      <4>1. \A k \in DOMAIN d : d[k].parent = j => g[k] = f[k]
        BY <3>2, <3>4, Zenon
      <4>2. (\E k \in DOMAIN d : d[k].parent = j /\ g[k]) <=> (\E k \in DOMAIN d : d[k].parent = j /\ f[k])
        BY <4>1, Zenon
      <4> QED
        BY <4>2, Zenon DEF ShownIn
    <3>6. h[<<j, g>>] = ShownIn(d, g, j)
      BY <1>2, <3>2, Zenon
    <3> QED
      BY <3>3, <3>5, <3>6, Zenon
  <2> QED
    BY <2>1
<1>7. ShownBy(d, f)
  <2>1. f = [j \in 1 .. n |-> f[j]]
    OBVIOUS
  <2>2. f = [j \in 1 .. n |-> ShownIn(d, f, j)]
    BY <1>6, <2>1, Zenon
  <2> QED
    BY <1>1, <2>2, Zenon DEF ShownBy, ShownIn
<1>8. ShownBy(d, Shown(d))
  BY <1>7, Zenon DEF Shown
<1> DEFINE W == Shown(d)
<1>9. ASSUME NEW j \in 1 .. n PROVE W[j] = ShownIn(d, W, j)
  <2> HIDE DEF W
  <2>1. ShownBy(d, W)
    BY <1>8 DEF W
  <2>2. W = [i \in DOMAIN d |-> ShownIn(d, W, i)]
    BY <2>1, Zenon DEF ShownBy, ShownIn
  <2> QED
    BY <1>1, <2>2, Zenon
<1> QED
  BY <1>9

\* FeatureType's answer for a function without a name and without sub-features.
LEMMA ContinuousIs ==
  ASSUME NEW d, IsForest(d), NEW i \in 1 .. Len(d), d[i].name = "", Nested(d, i) = {}
  PROVE  IsContinuous(d, i) <=> d[i].type \in {Cbog, Rsf}
<1>1. IsContinuous(d, i) = Shown(d)[i]
  BY Zenon DEF IsContinuous, Shown, ShownBy
<1>2. Shown(d)[i] = ShownIn(d, Shown(d), i)
  BY ShownUnfolds, Zenon
<1>3. ~ \E k \in DOMAIN d : d[k].parent = i /\ Shown(d)[k]
  BY Zenon DEF Nested
<1>4. ShownIn(d, Shown(d), i) <=> d[i].type \in {Cbog, Rsf}
  BY <1>3, Zenon DEF ShownIn
<1> QED
  BY <1>1, <1>2, <1>4, Zenon

\* What is known of a function that is set up.
FunctionSound(f, rows) ==
  /\ f.size \in Nat \ {0} /\ f.domain \in Nat \ {0} /\ f.domain <= rows
  /\ f.type = Rsf => f.domain = kNumRelevantScripts
  /\ f.type \notin {Cbog, Rsf} => f.domain = NUM_ULSCRIPTS + 1
  /\ f.plain => (f.continuous <=> f.type \in {Cbog, Rsf})

\* The functions that a setup writes have sizes and domains that the
\* network's rows allow for.
LEMMA FunctionsSound ==
  ASSUME NEW s \in Setups, NEW k \in 1 .. Len(s.spaces)
  PROVE  /\ Len(Functions(s.spaces[k].tree)) \in Nat \ {0}
         /\ DOMAIN Functions(s.spaces[k].tree) = 1 .. Len(Functions(s.spaces[k].tree))
         /\ \A i \in 1 .. Len(Functions(s.spaces[k].tree)) :
              FunctionSound(Functions(s.spaces[k].tree)[i], s.network[k].rows)
<1> DEFINE d == s.spaces[k].tree
           c == Children(d, 0)
           G == Functions(d)
           l == Len(c)
<1>1. IsSetup(s) /\ k \in DOMAIN s.spaces
  BY FeaturesAssumption, SpacesAre
<1>2. /\ IsForest(d) /\ d # <<>>
      /\ \A i \in DOMAIN G : G[i].size \in Nat \ {0} /\ G[i].domain \in Nat \ {0}
  BY <1>1, Zenon DEF IsSetup
<1>3. \A i \in DOMAIN G : G[i].domain <= s.network[k].rows
  <2>1. NetworkFits(s)
    BY <1>1, Zenon DEF IsSetup
  <2> QED
    BY <1>1, <2>1, Zenon DEF NetworkFits
<1> HIDE DEF d
<1>4. Len(d) \in Nat \ {0} /\ DOMAIN d = 1 .. Len(d)
  <2>1. d \in Seq(ToSet(d)) /\ d # <<>>
    BY <1>2 DEF IsForest
  <2> QED
    BY <2>1
<1>5. 1 \in Nested(d, 0)
  <2>1. 1 \in DOMAIN d
    BY <1>4
  <2>2. d[1].parent \in 0 .. 1 - 1
    BY <1>2, <2>1 DEF IsForest
  <2> QED
    BY <2>1, <2>2 DEF Nested
<1>6. Ascending(c, Nested(d, 0)) /\ Nested(d, 0) \subseteq DOMAIN d
  BY <1>2, ChildrenAscend, NestedBehind
<1>7. l \in Nat \ {0} /\ DOMAIN c = 1 .. l /\ \A m \in 1 .. l : c[m] \in 1 .. Len(d)
  <2>1. l \in Nat /\ DOMAIN c = 1 .. l /\ c \in Seq(Nested(d, 0)) /\ \E m \in 1 .. l : c[m] = 1
    BY <1>5, <1>6 DEF Ascending
  <2>2. \A m \in 1 .. l : c[m] \in Nested(d, 0)
    <3> HIDE DEF c
    <3> QED
      BY <2>1
  <2> HIDE DEF c, l
  <2> QED
    BY <1>4, <1>6, <2>1, <2>2
<1>8. G = [m \in 1 .. l |-> Function(d, c[m])]
  BY <1>7 DEF Functions
<1>9. Len(G) = l /\ DOMAIN G = 1 .. l /\ \A m \in 1 .. l : G[m] = Function(d, c[m])
  <2> HIDE DEF G, l
  <2> QED
    BY <1>7, <1>8
<1>10. ASSUME NEW m \in 1 .. l PROVE FunctionSound(G[m], s.network[k].rows)
  <2> DEFINE j == c[m]
             g == Function(d, j)
  <2>1. G[m] = g /\ m \in DOMAIN G
    BY <1>9
  <2>2. g.size \in Nat \ {0} /\ g.domain \in Nat \ {0} /\ g.domain <= s.network[k].rows
    BY <1>2, <1>3, <2>1, Zenon
  <2>3. j \in 1 .. Len(d)
    BY <1>7
  <2> HIDE DEF j
  <2>4. /\ g.type = d[j].type /\ g.continuous = IsContinuous(d, j)
        /\ g.plain = (d[j].name = "" /\ Children(d, j) = <<>>)
    BY DEF Function
  <2>5. g.type = Rsf => g.domain = kNumRelevantScripts
    BY DEF Function, Rsf, Cbog
  <2>6. g.type \notin {Cbog, Rsf} => g.domain = NUM_ULSCRIPTS + 1
    BY DEF Function, Rsf, Cbog
  <2>7. g.plain => (g.continuous <=> g.type \in {Cbog, Rsf})
    <3>1. ASSUME d[j].name = "", Children(d, j) = <<>> PROVE IsContinuous(d, j) <=> d[j].type \in {Cbog, Rsf}
      <4>1. j \in Nat
        BY <1>4, <2>3
      <4>2. Ascending(<<>>, Nested(d, j))
        BY <1>2, <3>1, <4>1, ChildrenAscend
      <4>3. Nested(d, j) = {}
        BY <4>2 DEF Ascending
      <4> QED
        BY <1>2, <2>3, <3>1, <4>3, ContinuousIs
    <3> HIDE DEF g
    <3> QED
      BY <2>4, <3>1, Zenon
  <2> HIDE DEF g
  <2> QED
    BY <2>1, <2>2, <2>5, <2>6, <2>7, Zenon DEF FunctionSound
<1> QED
  BY <1>7, <1>9, <1>10 DEF d, G

-----------------------------------------------------------------------------
(* What the functions read of a text *)

\* The characters that are read for a function, with terminators.
CharsOf(f, text) == IF f.include_terminators THEN Terminators(text) ELSE text

\* The n-gram at p, and those that are counted up to place n.
GramAt(f, cs, p) == SubSeq(cs, p, p + f.size - 1)
GramsOf(f, cs) == [p \in 1 .. Len(cs) - f.size + 1 |-> GramAt(f, cs, p)]
IsKept(f, gram) == f.include_spaces \/ \A i \in DOMAIN gram : gram[i] # Space
KeptOf(f, cs, n) == {p \in 1 .. n : IsKept(f, GramAt(f, cs, p))}
NgramBag(f, cs) == BagOf(GramsOf(f, cs), KeptOf(f, cs, Len(cs) - f.size + 1))

\* The script of every character, and the characters that are counted up to
\* place n.
ScriptsOf(text) == [p \in DOMAIN text |-> GetScript(text[p])]
IsLetter(c) == ~ (CharLen(c) = 1 /\ ~ isalpha(c))
LettersOf(text, n) == {p \in 1 .. n : IsLetter(text[p])}
ScriptBag(text) == BagOf(ScriptsOf(text), LettersOf(text, Len(text)))

\* Texts are of characters other than NUL, of which the scanner knows the script.
IsText(text) == text \in Seq(Nat \ {0}) /\ \A i \in DOMAIN text : ULScript(text[i]) \in 0 .. NUM_ULSCRIPTS - 1

\* What a text is put together of when it gets terminators.
TextParts(cs) ==
  [i \in DOMAIN cs |-> IF cs[i] = Space THEN <<Dollar, Space, Caret>> ELSE <<cs[i]>>]

\* Texts are sequences of numbers.
LEMMA TextTyped ==
  ASSUME NEW text, IsText(text)
  PROVE  /\ text \in Seq(Nat) /\ Len(text) \in Nat /\ DOMAIN text = 1 .. Len(text)
         /\ \A i \in 1 .. Len(text) : text[i] \in Nat \ {0}
BY DEF IsText

\* The letters of a text are written as as many parts as it has letters.
LEMMA TextPartsTyped ==
  ASSUME NEW text, text \in Seq(Nat)
  PROVE  TextParts(text) \in Parts(Nat) /\ Len(TextParts(text)) = Len(text)
<1> DEFINE n == Len(text)
           P == TextParts(text)
<1>1. n \in Nat /\ DOMAIN text = 1 .. n
  OBVIOUS
<1>2. ASSUME NEW i \in 1 .. n PROVE P[i] \in Seq(Nat)
  <2>1. text[i] \in Nat
    BY <1>1
  <2>2. <<Dollar, Space, Caret>> \in Seq(Nat) /\ <<text[i]>> \in Seq(Nat)
    BY <2>1 DEF Dollar, Space, Caret
  <2>3. P[i] = IF text[i] = Space THEN <<Dollar, Space, Caret>> ELSE <<text[i]>>
    BY <1>1 DEF TextParts
  <2> QED
    BY <2>2, <2>3
<1> DEFINE V == Seq(Nat)
<1>3. P = [i \in 1 .. n |-> P[i]]
  BY <1>1 DEF TextParts
<1> HIDE DEF P, V, n
<1>4. P \in Seq(V) /\ Len(P) = n
  <2>1. \A i \in 1 .. n : P[i] \in V
    BY <1>2 DEF V
  <2> QED
    BY <1>1, <1>3, <2>1, SMTT(30)
<1> QED
  BY <1>4 DEF P, V, n, Parts

\* The characters with terminators are numbers.
LEMMA CharsTyped ==
  ASSUME NEW text, text \in Seq(Nat), NEW f
  PROVE  CharsOf(f, text) \in Seq(Nat)
<1> DEFINE Q == FlattenSeq(TextParts(text))
<1>1. Terminators(text) = <<Caret>> \o Q \o <<Dollar>>
  BY Zenon DEF Terminators, TextParts
<1>2. Q \in Seq(Nat)
  BY TextPartsTyped, PartsAre, Zenon
<1> HIDE DEF Q
<1>3. Terminators(text) \in Seq(Nat)
  BY <1>1, <1>2 DEF Caret, Dollar
<1> QED
  BY <1>3 DEF CharsOf

-----------------------------------------------------------------------------
(* The loops of the functions *)

\* A function is in one of its loops, with this to show for it.
AtChars(f, text, p, cs) ==
  f.type = Cbog /\ p \in 1 .. Len(text) + 1 /\ cs = [i \in 1 .. p - 1 |-> text[i]]

AtNgrams(f, text, p, cs, bag) ==
  /\ f.type = Cbog /\ cs = CharsOf(f, text) /\ p \in Nat \ {0}
  /\ p = 1 \/ p <= Len(cs) - f.size + 2
  /\ bag = BagOf(GramsOf(f, cs), KeptOf(f, cs, p - 1))

AtScripts(f, text, p, bag) ==
  /\ f.type = Rsf /\ p \in 1 .. Len(text) + 1
  /\ bag = BagOf(ScriptsOf(text), LettersOf(text, p - 1))

LoopAt(f, text, st, p, cs, bag) ==
  /\ st = "chars" => AtChars(f, text, p, cs) /\ bag = EmptyBag
  /\ st = "ngrams" => AtNgrams(f, text, p, cs, bag)
  /\ st = "scripts" => AtScripts(f, text, p, bag)

\* The loops begin.
LEMMA LoopsBegin ==
  ASSUME NEW text, IsText(text), NEW f
  PROVE  /\ f.type = Cbog => AtChars(f, text, 1, <<>>)
         /\ f.type = Rsf => AtScripts(f, text, 1, EmptyBag)
         /\ f.type = Cbog => AtNgrams(f, text, 1, CharsOf(f, text), EmptyBag)
<1>1. Len(text) \in Nat
  BY TextTyped
<1>2. 1 \in 1 .. Len(text) + 1 /\ 1 \in Nat \ {0} /\ 1 .. 1 - 1 = {}
  BY <1>1
<1>3. <<>> = [i \in 1 .. 1 - 1 |-> text[i]]
  BY <1>2
<1>4. LettersOf(text, 1 - 1) = {} /\ \A cs : KeptOf(f, cs, 1 - 1) = {}
  BY <1>2, Zenon DEF LettersOf, KeptOf
<1>5. \A v : BagOf(v, {}) = EmptyBag
  BY BagOfNothing
<1> QED
  BY <1>2, <1>3, <1>4, <1>5, Zenon DEF AtChars, AtScripts, AtNgrams

\* A character is read.
LEMMA CharRead ==
  ASSUME NEW text, IsText(text), NEW f, NEW p, NEW cs, AtChars(f, text, p, cs), p <= Len(text)
  PROVE  AtChars(f, text, IF text[p] = 0 THEN p ELSE p + 1, Append(cs, text[p]))
<1> DEFINE n == Len(text)
<1>1. /\ n \in Nat /\ text \in Seq(Nat) /\ f.type = Cbog /\ p \in 1 .. n
      /\ cs = [i \in 1 .. p - 1 |-> text[i]]
  BY TextTyped DEF AtChars
<1>2. text[p] \in Nat \ {0}
  BY <1>1, TextTyped
<1>3. Append(cs, text[p]) = [i \in 1 .. p |-> text[i]]
  <2>1. cs \in Seq(Nat) /\ Len(cs) = p - 1
    <3>1. \A i \in 1 .. p - 1 : text[i] \in Nat
      BY <1>1
    <3> QED
      BY <1>1, <3>1
  <2>2. \A i \in 1 .. p : Append(cs, text[p])[i] = text[i]
    BY <1>1, <1>2, <2>1
  <2>3. Append(cs, text[p]) = [i \in 1 .. p |-> Append(cs, text[p])[i]]
    BY <1>1, <1>2, <2>1
  <2> QED
    BY <2>2, <2>3
<1>4. p + 1 \in 1 .. n + 1 /\ (p + 1) - 1 = p /\ text[p] # 0
  BY <1>1, <1>2
<1> QED
  BY <1>1, <1>3, <1>4 DEF AtChars

\* All characters are read.
LEMMA CharsRead ==
  ASSUME NEW text, IsText(text), NEW f, NEW p, NEW cs, AtChars(f, text, p, cs), p > Len(text)
  PROVE  cs = text
<1>1. /\ Len(text) \in Nat /\ text \in Seq(Nat) /\ p \in 1 .. Len(text) + 1
      /\ cs = [i \in 1 .. p - 1 |-> text[i]]
  BY TextTyped DEF AtChars
<1>2. p - 1 = Len(text)
  BY <1>1
<1> QED
  BY <1>1, <1>2

\* One place more is kept, or it is not.
LEMMA KeptWithOneMore ==
  ASSUME NEW f, NEW cs, NEW p \in Nat \ {0}
  PROVE  /\ p \notin KeptOf(f, cs, p - 1) /\ IsFiniteSet(KeptOf(f, cs, p - 1))
         /\ IsKept(f, GramAt(f, cs, p)) => KeptOf(f, cs, p) = KeptOf(f, cs, p - 1) \cup {p}
         /\ ~ IsKept(f, GramAt(f, cs, p)) => KeptOf(f, cs, p) = KeptOf(f, cs, p - 1)
<1>1. p \notin 1 .. p - 1 /\ 1 .. p = (1 .. p - 1) \cup {p} /\ p - 1 \in Nat
  OBVIOUS
<1>2. IsFiniteSet(KeptOf(f, cs, p - 1))
  <2>1. IsFiniteSet(1 .. p - 1)
    BY <1>1, FS_Interval
  <2>2. KeptOf(f, cs, p - 1) \in SUBSET (1 .. p - 1)
    BY Zenon DEF KeptOf
  <2> QED
    BY <2>1, <2>2, FS_Subset
<1> QED
  BY <1>1, <1>2, Zenon DEF KeptOf

\* One place more is one letter more where there is a letter.
LEMMA LettersWithOneMore ==
  ASSUME NEW text, NEW p \in Nat \ {0}
  PROVE  /\ p \notin LettersOf(text, p - 1) /\ IsFiniteSet(LettersOf(text, p - 1))
         /\ IsLetter(text[p]) => LettersOf(text, p) = LettersOf(text, p - 1) \cup {p}
         /\ ~ IsLetter(text[p]) => LettersOf(text, p) = LettersOf(text, p - 1)
<1>1. p \notin 1 .. p - 1 /\ 1 .. p = (1 .. p - 1) \cup {p} /\ p - 1 \in Nat
  OBVIOUS
<1>2. IsFiniteSet(LettersOf(text, p - 1))
  <2>1. IsFiniteSet(1 .. p - 1)
    BY <1>1, FS_Interval
  <2>2. LettersOf(text, p - 1) \in SUBSET (1 .. p - 1)
    BY Zenon DEF LettersOf
  <2> QED
    BY <2>1, <2>2, FS_Subset
<1> QED
  BY <1>1, <1>2, Zenon DEF LettersOf

\* An n-gram is counted, or not.
LEMMA NgramCounted ==
  ASSUME NEW text, IsText(text), NEW f, f.size \in Nat \ {0}, NEW p, NEW cs, NEW bag,
         AtNgrams(f, text, p, cs, bag), p <= Len(cs) - f.size + 1
  PROVE  AtNgrams(f, text, p + 1, cs,
                  IF IsKept(f, GramAt(f, cs, p)) THEN bag (+) SetToBag({GramAt(f, cs, p)}) ELSE bag)
<1> DEFINE gram == GramAt(f, cs, p)
           v == GramsOf(f, cs)
           S == KeptOf(f, cs, p - 1)
           l == f.size
           n == Len(cs)
           new == IF IsKept(f, gram) THEN bag (+) SetToBag({gram}) ELSE bag
<1>1. /\ f.type = Cbog /\ cs = CharsOf(f, text) /\ p \in Nat \ {0} /\ bag = BagOf(v, S)
      /\ l \in Nat \ {0}
  BY DEF AtNgrams
<1>2. n \in Nat
  <2>1. cs \in Seq(Nat)
    BY <1>1, TextTyped, CharsTyped
  <2> QED
    BY <2>1
<1>3. p <= n - l + 1
  OBVIOUS
<1>4. p \in 1 .. n - l + 1 /\ p + 1 \in Nat \ {0} /\ p + 1 <= n - l + 2 /\ (p + 1) - 1 = p
  <2> HIDE DEF n, l
  <2> QED
    BY <1>1, <1>2, <1>3
<1>5. v[p] = gram
  <2>1. v = [q \in 1 .. n - l + 1 |-> GramAt(f, cs, q)]
    BY Zenon DEF GramsOf
  <2> QED
    BY <1>4, <2>1, Zenon
<1>6. /\ p \notin S /\ IsFiniteSet(S)
      /\ IsKept(f, gram) => KeptOf(f, cs, p) = S \cup {p}
      /\ ~ IsKept(f, gram) => KeptOf(f, cs, p) = S
  BY <1>1, KeptWithOneMore
<1>7. new = BagOf(v, KeptOf(f, cs, p))
  <2> HIDE DEF gram, v, S
  <2>1. BagOf(v, S) (+) SetToBag({v[p]}) = BagOf(v, S \cup {p})
    BY <1>6, BagOfOneMore
  <2> QED
    BY <1>1, <1>5, <1>6, <2>1
<1> HIDE DEF new
<1>8. AtNgrams(f, text, p + 1, cs, new)
  BY <1>1, <1>4, <1>7, Zenon DEF AtNgrams
<1> QED
  BY <1>8 DEF new

\* All n-grams are counted.
LEMMA NgramsCounted ==
  ASSUME NEW text, IsText(text), NEW f, f.size \in Nat \ {0}, NEW p, NEW cs, NEW bag,
         AtNgrams(f, text, p, cs, bag), p > Len(cs) - f.size + 1
  PROVE  cs = CharsOf(f, text) /\ bag = NgramBag(f, cs)
<1> DEFINE l == f.size
           n == Len(cs)
<1>1. /\ cs = CharsOf(f, text) /\ p \in Nat \ {0} /\ bag = BagOf(GramsOf(f, cs), KeptOf(f, cs, p - 1))
      /\ l \in Nat \ {0} /\ (p = 1 \/ p <= n - l + 2) /\ p > n - l + 1
  BY DEF AtNgrams
<1>2. n \in Nat
  <2>1. cs \in Seq(Nat)
    BY <1>1, TextTyped, CharsTyped
  <2> QED
    BY <2>1
<1>3. 1 .. p - 1 = 1 .. n - l + 1
  <2> HIDE DEF n, l
  <2>1. CASE p = n - l + 2
    BY <1>1, <1>2, <2>1
  <2>2. CASE p # n - l + 2
    <3>1. p = 1 /\ n - l + 1 < 1
      BY <1>1, <1>2, <2>2
    <3> QED
      BY <1>1, <1>2, <3>1
  <2> QED
    BY <2>1, <2>2
<1>4. KeptOf(f, cs, p - 1) = KeptOf(f, cs, n - l + 1)
  BY <1>3, Zenon DEF KeptOf
<1> QED
  BY <1>1, <1>4, Zenon DEF NgramBag

\* A character of the text is counted for its script, or not.
LEMMA ScriptCounted ==
  ASSUME NEW text, IsText(text), NEW f, NEW p, NEW bag, AtScripts(f, text, p, bag), p <= Len(text)
  PROVE  AtScripts(f, text, p + 1,
                   IF IsLetter(text[p]) THEN bag (+) SetToBag({GetScript(text[p])}) ELSE bag)
<1> DEFINE v == ScriptsOf(text)
           S == LettersOf(text, p - 1)
           n == Len(text)
           new == IF IsLetter(text[p]) THEN bag (+) SetToBag({GetScript(text[p])}) ELSE bag
<1>1. /\ f.type = Rsf /\ p \in Nat \ {0} /\ p \in 1 .. n /\ bag = BagOf(v, S) /\ n \in Nat
      /\ DOMAIN text = 1 .. n
  BY TextTyped DEF AtScripts
<1>2. p + 1 \in 1 .. n + 1 /\ (p + 1) - 1 = p
  BY <1>1
<1>3. v[p] = GetScript(text[p])
  BY <1>1, Zenon DEF ScriptsOf
<1>4. /\ p \notin S /\ IsFiniteSet(S)
      /\ IsLetter(text[p]) => LettersOf(text, p) = S \cup {p}
      /\ ~ IsLetter(text[p]) => LettersOf(text, p) = S
  BY <1>1, LettersWithOneMore
<1>5. new = BagOf(v, LettersOf(text, p))
  <2> HIDE DEF v, S
  <2>1. BagOf(v, S) (+) SetToBag({v[p]}) = BagOf(v, S \cup {p})
    BY <1>4, BagOfOneMore
  <2> QED
    BY <1>1, <1>3, <1>4, <2>1
<1> HIDE DEF new
<1>6. AtScripts(f, text, p + 1, new)
  BY <1>1, <1>2, <1>5, Zenon DEF AtScripts
<1> QED
  BY <1>6 DEF new

\* All characters are counted for their scripts.
LEMMA ScriptsCounted ==
  ASSUME NEW text, IsText(text), NEW f, NEW p, NEW bag, AtScripts(f, text, p, bag), p > Len(text)
  PROVE  bag = ScriptBag(text)
<1>1. /\ Len(text) \in Nat /\ p \in 1 .. Len(text) + 1
      /\ bag = BagOf(ScriptsOf(text), LettersOf(text, p - 1))
  BY TextTyped DEF AtScripts
<1>2. p - 1 = Len(text)
  BY <1>1
<1> QED
  BY <1>1, <1>2 DEF ScriptBag

-----------------------------------------------------------------------------
(* The values of the functions *)

\* The n-grams that are counted are windows of the characters.
LEMMA GramIs ==
  ASSUME NEW f, f.size \in Nat \ {0}, NEW cs, cs \in Seq(Nat),
         NEW p \in 1 .. Len(cs) - f.size + 1
  PROVE  /\ GramAt(f, cs, p) \in Seq(Nat) /\ Len(GramAt(f, cs, p)) = f.size
         /\ \A i \in 1 .. f.size : GramAt(f, cs, p)[i] = cs[p + i - 1]
         /\ GramsOf(f, cs)[p] = GramAt(f, cs, p)
<1> DEFINE l == f.size
           n == Len(cs)
           g == GramAt(f, cs, p)
<1>1. l \in Nat \ {0} /\ n \in Nat /\ p \in 1 .. n - l + 1 /\ DOMAIN cs = 1 .. n
  OBVIOUS
<1>2. g = SubSeq(cs, p, p + l - 1)
  BY DEF GramAt
<1>3. GramsOf(f, cs)[p] = g
  BY Zenon DEF GramsOf
<1> HIDE DEF l, n, g
<1>4. p \in 1 .. n /\ p + l - 1 \in 1 .. n /\ p <= p + l - 1 /\ (p + l - 1) - p + 1 = l
  BY <1>1
<1> DEFINE e == p + l - 1
<1>5. e \in Int /\ p \in Int /\ (p <= e) /\ e - p + 1 = l /\ \A i \in p .. e : i \in 1 .. n
  BY <1>1
<1> HIDE DEF e
<1>6. \A i \in p .. e : cs[i] \in Nat
  BY <1>1, <1>5
<1>7. /\ SubSeq(cs, p, e) \in Seq(Nat)
      /\ Len(SubSeq(cs, p, e)) = IF p <= e THEN e - p + 1 ELSE 0
      /\ \A i \in 1 .. e - p + 1 : SubSeq(cs, p, e)[i] = cs[p + i - 1]
  BY <1>5, <1>6, SubSeqProperties
<1>8. g = SubSeq(cs, p, e)
  BY <1>2 DEF e
<1>9. g \in Seq(Nat) /\ Len(g) = l /\ \A i \in 1 .. l : g[i] = cs[p + i - 1]
  BY <1>5, <1>7, <1>8
<1> QED
  BY <1>3, <1>9 DEF g, l

\* The length of a character.
LEMMA CharLenIs ==
  ASSUME NEW c \in Nat
  PROVE  /\ c < 128 => CharLen(c) = 1
         /\ (c >= 128 /\ c < 2048) => CharLen(c) = 2
         /\ (c >= 2048 /\ c < 65536) => CharLen(c) = 3
         /\ c >= 65536 => CharLen(c) = 4
<1>1. ASSUME c < 128 PROVE CharLen(c) = 1
  BY <1>1, SMT DEF CharLen
<1>2. ASSUME c >= 128 /\ c < 2048 PROVE CharLen(c) = 2
  BY <1>2, SMT DEF CharLen
<1>3. ASSUME c >= 2048 /\ c < 65536 PROVE CharLen(c) = 3
  BY <1>3, SMT DEF CharLen
<1>4. ASSUME c >= 65536 PROVE CharLen(c) = 4
  BY <1>4, SMT DEF CharLen
<1> QED
  BY <1>1, <1>2, <1>3, <1>4

\* The scripts that GetScript tells.
LEMMA ScriptIs == ASSUME NEW c \in Nat PROVE GetScript(c) \in 1 .. kNumRelevantScripts - 1
<1>1. CharLen(c) \in 1 .. 4
  <2>1. c < 128 \/ (c >= 128 /\ c < 2048) \/ (c >= 2048 /\ c < 65536) \/ c >= 65536
    OBVIOUS
  <2> QED
    BY <2>1, CharLenIs
<1> QED
  BY <1>1 DEF GetScript, kScriptOther, kScriptGreek, kScriptCyrillic, kScriptHebrew, kScriptArabic,
              kScriptHangulJamo, kScriptHiragana, kScriptKatakana, kNumRelevantScripts

\* A value of function i, and the values that each kind of function comes to.
ValueOf(i, f, of, id, weight, float) ==
  [base |-> i - 1, of |-> of, id |-> id, weight |-> weight, float |-> float,
   continuous |-> f.continuous]

NgramWeight(f, bag, gram) ==
  IF f.use_equal_weight THEN <<1, Cardinality(DOMAIN bag)>> ELSE <<bag[gram], CountSum(bag)>>

NgramValuesOf(i, f, bag) ==
  {ValueOf(i, f, gram, Hash(gram) % f.domain, NgramWeight(f, bag, gram), TRUE) : gram \in DOMAIN bag}

ScriptValuesOf(i, f, bag) ==
  {ValueOf(i, f, script, script, <<bag[script], CountSum(bag)>>, TRUE) : script \in DOMAIN bag}

NumberValuesOf(i, f, n) == {ValueOf(i, f, n, n, <<1, 1>>, FALSE)}

\* V is what function i, f, comes to on a text.
HasValues(i, f, text, V) ==
  /\ f.type = Cbog => V = NgramValuesOf(i, f, NgramBag(f, CharsOf(f, text)))
  /\ f.type = Rsf => V = ScriptValuesOf(i, f, ScriptBag(text))
  /\ f.type \notin {Cbog, Rsf} => \E n \in 0 .. NUM_ULSCRIPTS : V = NumberValuesOf(i, f, n)

\* What every value of a function has.
ValueFits(i, f, v) ==
  /\ v.base = i - 1 /\ v.id \in 0 .. f.domain - 1
  /\ f.plain => Multiplier(v) = v.weight

\* The hash of an n-gram is a number.
HashIsNumber == \A gram \in Seq(Nat) : Hash(gram) \in Nat

\* The fields of a value.
LEMMA ValueIs ==
  ASSUME NEW i, NEW f, NEW of, NEW id, NEW weight, NEW float,
         NEW v, v = ValueOf(i, f, of, id, weight, float)
  PROVE  /\ v.base = i - 1 /\ v.of = of /\ v.id = id /\ v.weight = weight
         /\ v.float = float /\ v.continuous = f.continuous
<1> DEFINE b == i - 1
<1> HIDE DEF b
<1>1. v = [base |-> b, of |-> of, id |-> id, weight |-> weight, float |-> float,
           continuous |-> f.continuous]
  BY DEF ValueOf, b
<1>2. v.base = b
  BY <1>1
<1> QED
  BY <1>1, <1>2 DEF b

\* The keys of a bag that counts.
LEMMA CountedKeys ==
  ASSUME NEW v, NEW S, NEW x \in DOMAIN BagOf(v, S)
  PROVE  \E p \in S : x = v[p]
BY DEF BagOf, KeysOf

\* The weight of a value, as its kind of function writes it.
WeightFits(f, weight, float) ==
  \/ f.type \in {Cbog, Rsf} /\ float = TRUE
  \/ f.type \notin {Cbog, Rsf} /\ float = FALSE /\ weight = <<1, 1>>

\* A value fits its function when its number is within the function's
\* domain.
LEMMA ValueFitsIf ==
  ASSUME NEW rows, NEW f, FunctionSound(f, rows), NEW i, NEW of, NEW id \in 0 .. f.domain - 1,
         NEW weight, NEW float, WeightFits(f, weight, float)
  PROVE  ValueFits(i, f, ValueOf(i, f, of, id, weight, float))
<1> DEFINE v == ValueOf(i, f, of, id, weight, float)
           b == i - 1
<1> HIDE DEF b, v
<1>1. /\ v.base = b /\ v.id = id /\ v.weight = weight /\ v.float = float
      /\ v.continuous = f.continuous
  BY ValueIs DEF b, v
<1>2. f.plain => (f.continuous <=> f.type \in {Cbog, Rsf})
  BY Zenon DEF FunctionSound
<1>3. f.plain => Multiplier(v) = v.weight
  <2>1. CASE f.type \in {Cbog, Rsf} /\ float = TRUE
    BY <1>1, <1>2, <2>1, Zenon DEF Multiplier
  <2>2. CASE f.type \notin {Cbog, Rsf} /\ float = FALSE /\ weight = <<1, 1>>
    BY <1>1, <1>2, <2>2, Zenon DEF Multiplier
  <2> QED
    BY <2>1, <2>2, Zenon DEF WeightFits
<1>4. ValueFits(i, f, v)
  BY <1>1, <1>3, Zenon DEF ValueFits, b
<1> QED
  BY <1>4 DEF v

\* The values of every function fit.
LEMMA ValuesFit ==
  ASSUME HashIsNumber, NEW text, IsText(text), NEW rows, NEW f, FunctionSound(f, rows),
         NEW i, NEW V, HasValues(i, f, text, V), NEW v \in V
  PROVE  ValueFits(i, f, v)
<1> DEFINE m == f.domain
           cs == CharsOf(f, text)
<1>1. /\ m \in Nat \ {0} /\ f.size \in Nat \ {0}
      /\ f.type = Rsf => m = kNumRelevantScripts
      /\ f.type \notin {Cbog, Rsf} => m = NUM_ULSCRIPTS + 1
      /\ f.plain => (f.continuous <=> f.type \in {Cbog, Rsf})
  BY Zenon DEF FunctionSound
<1>3. CASE f.type = Cbog
  <2> DEFINE bag == NgramBag(f, cs)
  <2>1. V = NgramValuesOf(i, f, bag)
    BY <1>3, Zenon DEF HasValues
  <2>2. PICK gram \in DOMAIN bag :
          v = ValueOf(i, f, gram, Hash(gram) % m, NgramWeight(f, bag, gram), TRUE)
    BY <2>1, Zenon DEF NgramValuesOf
  <2>3. PICK p \in KeptOf(f, cs, Len(cs) - f.size + 1) : gram = GramsOf(f, cs)[p]
    BY CountedKeys, Zenon DEF NgramBag
  <2>4. cs \in Seq(Nat) /\ p \in 1 .. Len(cs) - f.size + 1
    <3>1. cs \in Seq(Nat)
      BY TextTyped, CharsTyped, Zenon
    <3>2. p \in 1 .. Len(cs) - f.size + 1
      BY Zenon DEF KeptOf
    <3> QED
      BY <3>1, <3>2
  <2> HIDE DEF cs
  <2>5. gram \in Seq(Nat)
    <3>1. GramAt(f, cs, p) \in Seq(Nat) /\ GramsOf(f, cs)[p] = GramAt(f, cs, p)
      BY <1>1, <2>4, GramIs
    <3> QED
      BY <2>3, <3>1, Zenon
  <2>6. Hash(gram) % m \in 0 .. m - 1
    <3>1. Hash(gram) \in Nat
      BY <2>5, Zenon DEF HashIsNumber
    <3> DEFINE hash == Hash(gram)
    <3> HIDE DEF hash, m
    <3>2. hash % m \in 0 .. m - 1
      BY <1>1, <3>1 DEF hash
    <3> QED
      BY <3>2 DEF hash
  <2>7. WeightFits(f, NgramWeight(f, bag, gram), TRUE)
    BY <1>3, Zenon DEF WeightFits
  <2> HIDE DEF bag
  <2> QED
    BY <2>2, <2>6, <2>7, ValueFitsIf, Zenon
<1>4. CASE f.type = Rsf
  <2> DEFINE bag == ScriptBag(text)
  <2>1. V = ScriptValuesOf(i, f, bag)
    BY <1>4, Zenon DEF HasValues
  <2>2. PICK script \in DOMAIN bag :
          v = ValueOf(i, f, script, script, <<bag[script], CountSum(bag)>>, TRUE)
    BY <2>1, Zenon DEF ScriptValuesOf
  <2>3. PICK p \in LettersOf(text, Len(text)) : script = ScriptsOf(text)[p]
    BY CountedKeys, Zenon DEF ScriptBag
  <2>4. p \in DOMAIN text
    BY TextTyped, Zenon DEF LettersOf
  <2>5. script = GetScript(text[p]) /\ text[p] \in Nat
    <3>1. script = GetScript(text[p])
      BY <2>3, <2>4, Zenon DEF ScriptsOf
    <3>2. text[p] \in Nat
      BY <2>4, TextTyped, SMT
    <3> QED
      BY <3>1, <3>2
  <2>6. script \in 0 .. m - 1
    <3>1. script \in 1 .. kNumRelevantScripts - 1 /\ m = kNumRelevantScripts
      BY <1>1, <1>4, <2>5, ScriptIs, Zenon
    <3> HIDE DEF m
    <3> QED
      BY <3>1 DEF kNumRelevantScripts
  <2>7. WeightFits(f, <<bag[script], CountSum(bag)>>, TRUE)
    BY <1>4, Zenon DEF WeightFits
  <2> HIDE DEF bag
  <2> QED
    BY <2>2, <2>6, <2>7, ValueFitsIf, Zenon
<1>5. CASE f.type \notin {Cbog, Rsf}
  <2>1. PICK n \in 0 .. NUM_ULSCRIPTS : V = NumberValuesOf(i, f, n)
    BY <1>5, Zenon DEF HasValues
  <2>2. v = ValueOf(i, f, n, n, <<1, 1>>, FALSE)
    BY <2>1, Zenon DEF NumberValuesOf
  <2>3. n \in 0 .. m - 1
    <3>1. m = NUM_ULSCRIPTS + 1 /\ NUM_ULSCRIPTS \in Nat
      BY <1>1, <1>5, FeaturesAssumption, Zenon
    <3> HIDE DEF m
    <3> QED
      BY <3>1
  <2>4. WeightFits(f, <<1, 1>>, FALSE)
    BY <1>5, Zenon DEF WeightFits
  <2> QED
    BY <2>2, <2>3, <2>4, ValueFitsIf, Zenon
<1> QED
  BY <1>3, <1>4, <1>5

-----------------------------------------------------------------------------
(* The feature vectors *)

\* The values of function i in a feature vector.
OwnOf(V, i) == {v \in V : v.base = i - 1}

\* Function i of space k has evaluated, when function m of space l is next.
IsEvaluated(st, l, m, k, i) == st \in {"concat", "done"} \/ k < l \/ (k = l /\ i < m)

\* The feature vectors hold the values of the functions that have evaluated.
VectorStands(X, text, V, st, l, m, k) ==
  /\ \A v \in V : \E i \in 1 .. Len(X) : v.base = i - 1
  /\ \A i \in 1 .. Len(X) :
       /\ IsEvaluated(st, l, m, k, i) => HasValues(i, X[i], text, OwnOf(V, i))
       /\ ~ IsEvaluated(st, l, m, k, i) => OwnOf(V, i) = {}

\* A value is one of its function's.
LEMMA ValueOwned ==
  ASSUME NEW i, NEW f, NEW text, NEW V, HasValues(i, f, text, V), NEW v \in V
  PROVE  v.base = i - 1
<1>1. \E of, id, weight, float : v = ValueOf(i, f, of, id, weight, float)
  <2>1. CASE f.type = Cbog
    <3>1. V = NgramValuesOf(i, f, NgramBag(f, CharsOf(f, text)))
      BY <2>1, Zenon DEF HasValues
    <3> QED
      BY <3>1, Zenon DEF NgramValuesOf
  <2>2. CASE f.type = Rsf
    <3>1. V = ScriptValuesOf(i, f, ScriptBag(text))
      BY <2>2, Zenon DEF HasValues
    <3> QED
      BY <3>1, Zenon DEF ScriptValuesOf
  <2>3. CASE f.type \notin {Cbog, Rsf}
    <3>1. PICK n \in 0 .. NUM_ULSCRIPTS : V = NumberValuesOf(i, f, n)
      BY <2>3, Zenon DEF HasValues
    <3> QED
      BY <3>1, Zenon DEF NumberValuesOf
  <2> QED
    BY <2>1, <2>2, <2>3
<1>2. PICK of, id, weight, float : v = ValueOf(i, f, of, id, weight, float)
  BY <1>1
<1> QED
  BY <1>2, ValueIs

\* W are values of function m, and V has got them too.
IsOwn(W, m) == \A v \in W : v.base = m - 1
OwnsMore(V, W, m) ==
  /\ OwnOf(V \cup W, m) = W
  /\ \A i \in Nat : i # m => OwnOf(V \cup W, i) = OwnOf(V, i)

\* The values of the function at hand come to the vector of its space.
LEMMA OwnAdded ==
  ASSUME NEW V, NEW W, NEW m \in Nat, IsOwn(W, m), OwnOf(V, m) = {}
  PROVE  OwnsMore(V, W, m)
<1>1. OwnOf(V \cup W, m) = W
  BY Zenon DEF OwnOf, IsOwn
<1>2. ASSUME NEW i \in Nat, i # m PROVE OwnOf(V \cup W, i) = OwnOf(V, i)
  <2>1. i - 1 # m - 1
    BY <1>2
  <2> QED
    BY <2>1, Zenon DEF OwnOf, IsOwn
<1> QED
  BY <1>1, <1>2, Zenon DEF OwnsMore

\* A vector with the values of one function more.
LEMMA VectorGrows ==
  ASSUME NEW X, Len(X) \in Nat, NEW text, NEW V, NEW k \in Nat, NEW m \in 1 .. Len(X),
         NEW st, st \notin {"concat", "done"}, VectorStands(X, text, V, st, k, m, k),
         NEW W, HasValues(m, X[m], text, W),
         NEW st2, NEW l2, NEW m2,
         \A i \in 1 .. Len(X) : IsEvaluated(st2, l2, m2, k, i) <=> i = m \/ IsEvaluated(st, k, m, k, i)
  PROVE  VectorStands(X, text, V \cup W, st2, l2, m2, k)
<1> DEFINE n == Len(X)
           E(i) == IsEvaluated(st, k, m, k, i)
           D(i) == IsEvaluated(st2, l2, m2, k, i)
<1>1. \A v \in W : v.base = m - 1
  BY ValueOwned, Zenon
<1>2. ~ E(m)
  BY DEF IsEvaluated
<1>3. OwnOf(V, m) = {}
  BY <1>2, Zenon DEF VectorStands
<1>4. m \in Nat /\ \A i \in 1 .. n : i \in Nat
  OBVIOUS
<1>5. OwnOf(V \cup W, m) = W /\ \A i \in Nat : i # m => OwnOf(V \cup W, i) = OwnOf(V, i)
  <2>1. IsOwn(W, m)
    BY <1>1, Zenon DEF IsOwn
  <2>2. OwnsMore(V, W, m)
    BY <1>3, <1>4, <2>1, OwnAdded, Zenon
  <2> QED
    BY <2>2, Zenon DEF OwnsMore
<1>6. \A v \in V \cup W : \E i \in 1 .. n : v.base = i - 1
  BY <1>1, Zenon DEF VectorStands
<1>7. ASSUME NEW i \in 1 .. n
      PROVE  /\ D(i) => HasValues(i, X[i], text, OwnOf(V \cup W, i))
             /\ ~ D(i) => OwnOf(V \cup W, i) = {}
  <2>0. D(i) <=> i = m \/ E(i)
    OBVIOUS
  <2>1. CASE i = m
    BY <1>5, <2>0, <2>1, Zenon
  <2>2. CASE i # m
    <3>1. OwnOf(V \cup W, i) = OwnOf(V, i)
      BY <1>4, <1>5, <2>2, Zenon
    <3>2. (E(i) => HasValues(i, X[i], text, OwnOf(V, i))) /\ (~ E(i) => OwnOf(V, i) = {})
      BY Zenon DEF VectorStands
    <3>3. D(i) <=> E(i)
      BY <2>0, <2>2, Zenon
    <3> HIDE DEF D, E
    <3> QED
      BY <3>1, <3>2, <3>3, Zenon
  <2> QED
    BY <2>1, <2>2
<1> QED
  BY <1>6, <1>7, Zenon DEF VectorStands

\* All other vectors stay.
LEMMA VectorStays ==
  ASSUME NEW X, NEW text, NEW V, NEW k, NEW st, NEW l, NEW m, VectorStands(X, text, V, st, l, m, k),
         NEW st2, NEW l2, NEW m2,
         \A i \in 1 .. Len(X) : IsEvaluated(st2, l2, m2, k, i) <=> IsEvaluated(st, l, m, k, i)
  PROVE  VectorStands(X, text, V, st2, l2, m2, k)
BY Zenon DEF VectorStands

\* All vectors stand, at a place of the evaluation.
VectorsStand(X, text, V, st, l, m) ==
  /\ V = [k \in 1 .. Len(X) |-> V[k]]
  /\ \A k \in 1 .. Len(X) : VectorStands(X[k], text, V[k], st, l, m, k)

\* Function i of space k is in front of function m of space l.
IsBefore(l, m, k, i) == k < l \/ (k = l /\ i < m)

\* The functions that have evaluated are those so far and function m of space l.
NextEvaluated(X, l, m, st2, l2, m2) ==
  \A k \in 1 .. Len(X) : \A i \in 1 .. Len(X[k]) :
    IsEvaluated(st2, l2, m2, k, i) <=> (k = l /\ i = m) \/ IsBefore(l, m, k, i)

\* The extractors, with the functions that they have.
IsExtractors(X) == Len(X) \in Nat \ {0} /\ \A k \in 1 .. Len(X) : Len(X[k]) \in Nat \ {0}

\* Which functions count as evaluated, by the stage of the extraction.
LEMMA EvaluatedIs ==
  ASSUME NEW st, NEW l, NEW m, NEW k, NEW i
  PROVE  /\ st \in {"concat", "done"} => IsEvaluated(st, l, m, k, i)
         /\ st \notin {"concat", "done"} => (IsEvaluated(st, l, m, k, i) <=> IsBefore(l, m, k, i))
BY DEF IsEvaluated, IsBefore

\* What comes next to function m of space l.
LEMMA NextBefore ==
  ASSUME NEW n \in Nat, NEW e \in Nat \ {0}, NEW l \in 1 .. n, NEW m \in 1 .. e,
         NEW k \in 1 .. n, NEW i \in Nat \ {0}, k = l => i <= e
  PROVE  /\ IsBefore(l, m + 1, k, i) <=> (k = l /\ i = m) \/ IsBefore(l, m, k, i)
         /\ m = e => (IsBefore(l + 1, 1, k, i) <=> (k = l /\ i = m) \/ IsBefore(l, m, k, i))
         /\ m = e /\ l = n => (k = l /\ i = m) \/ IsBefore(l, m, k, i)
BY DEF IsBefore

\* The function behind the last one of an extractor is the first one of the
\* next.
LEMMA NextIs ==
  ASSUME NEW X, IsExtractors(X), NEW l \in 1 .. Len(X), NEW m \in 1 .. Len(X[l])
  PROVE  /\ NextEvaluated(X, l, m, "function", l, m + 1)
         /\ m = Len(X[l]) => NextEvaluated(X, l, m, "function", l + 1, 1)
         /\ m = Len(X[l]) /\ l = Len(X) => NextEvaluated(X, l, m, "concat", 1, 1)
<1>1. ASSUME NEW k \in 1 .. Len(X), NEW i \in 1 .. Len(X[k])
      PROVE  /\ IsBefore(l, m + 1, k, i) <=> (k = l /\ i = m) \/ IsBefore(l, m, k, i)
             /\ m = Len(X[l]) => (IsBefore(l + 1, 1, k, i) <=> (k = l /\ i = m) \/ IsBefore(l, m, k, i))
             /\ m = Len(X[l]) /\ l = Len(X) => (k = l /\ i = m) \/ IsBefore(l, m, k, i)
  <2> DEFINE n == Len(X)
             e == Len(X[l])
             d == Len(X[k])
  <2>1. n \in Nat /\ e \in Nat \ {0} /\ d \in Nat \ {0} /\ (k = l => d = e)
    BY Zenon DEF IsExtractors
  <2> HIDE DEF n, e, d
  <2>2. l \in 1 .. n /\ m \in 1 .. e /\ k \in 1 .. n /\ i \in 1 .. d
    BY Zenon DEF n, e, d
  <2>3. i \in Nat \ {0} /\ (k = l => i <= e)
    BY <2>1, <2>2
  <2>4. /\ IsBefore(l, m + 1, k, i) <=> (k = l /\ i = m) \/ IsBefore(l, m, k, i)
        /\ m = e => (IsBefore(l + 1, 1, k, i) <=> (k = l /\ i = m) \/ IsBefore(l, m, k, i))
        /\ m = e /\ l = n => (k = l /\ i = m) \/ IsBefore(l, m, k, i)
    BY <2>1, <2>2, <2>3, NextBefore
  <2> QED
    BY <2>4 DEF n, e
<1>2. \A l2, m2, k, i : /\ IsEvaluated("function", l2, m2, k, i) <=> IsBefore(l2, m2, k, i)
                        /\ IsEvaluated("concat", l2, m2, k, i)
  BY EvaluatedIs
<1> QED
  BY <1>1, <1>2, Zenon DEF NextEvaluated

\* The values of one function more come to their vector.
LEMMA VectorsGrow ==
  ASSUME NEW X, IsExtractors(X), NEW text, NEW V, NEW st, st \notin {"concat", "done"},
         NEW l \in 1 .. Len(X), NEW m \in 1 .. Len(X[l]), VectorsStand(X, text, V, st, l, m),
         NEW W, HasValues(m, X[l][m], text, W),
         NEW st2, NEW l2, NEW m2, NextEvaluated(X, l, m, st2, l2, m2)
  PROVE  VectorsStand(X, text, [V EXCEPT ![l] = @ \cup W], st2, l2, m2)
<1> DEFINE n == Len(X)
           U == [V EXCEPT ![l] = @ \cup W]
<1>1. V = [k \in 1 .. n |-> V[k]]
  BY Zenon DEF VectorsStand
<1>2. U = [k \in 1 .. n |-> U[k]] /\ U[l] = V[l] \cup W /\ \A k \in 1 .. n : k # l => U[k] = V[k]
  <2> HIDE DEF n
  <2>1. l \in 1 .. n
    BY DEF n
  <2>2. DOMAIN V = 1 .. n
    BY <1>1
  <2>3. U = [k \in 1 .. n |-> IF k = l THEN V[l] \cup W ELSE V[k]]
    BY <2>1, <2>2, Zenon
  <2> HIDE DEF U
  <2> QED
    BY <2>1, <2>3, Zenon
<1> HIDE DEF U
<1>3. ASSUME NEW k \in 1 .. n PROVE VectorStands(X[k], text, U[k], st2, l2, m2, k)
  <2>1. VectorStands(X[k], text, V[k], st, l, m, k)
    BY Zenon DEF VectorsStand
  <2>2. \A i \in 1 .. Len(X[k]) :
          IsEvaluated(st2, l2, m2, k, i) <=> (k = l /\ i = m) \/ IsEvaluated(st, l, m, k, i)
    <3>1. \A i : IsEvaluated(st, l, m, k, i) <=> IsBefore(l, m, k, i)
      BY EvaluatedIs
    <3> QED
      BY <3>1, Zenon DEF NextEvaluated
  <2>3. CASE k = l
    <3>1. \A i \in 1 .. Len(X[l]) :
            IsEvaluated(st2, l2, m2, l, i) <=> i = m \/ IsEvaluated(st, l, m, l, i)
      BY <2>2, <2>3, Zenon
    <3>2. Len(X[l]) \in Nat /\ l \in Nat
      BY DEF IsExtractors
    <3>3. VectorStands(X[l], text, V[l], st, l, m, l)
      BY <2>1, <2>3, Zenon
    <3>4. VectorStands(X[l], text, V[l] \cup W, st2, l2, m2, l)
      <4> DEFINE Y == X[l]
                 B == V[l]
      <4>1. Len(Y) \in Nat /\ VectorStands(Y, text, B, st, l, m, l) /\ HasValues(m, Y[m], text, W)
        BY <3>2, <3>3, Zenon
      <4>2. \A i \in 1 .. Len(Y) :
              IsEvaluated(st2, l2, m2, l, i) <=> i = m \/ IsEvaluated(st, l, m, l, i)
        BY <3>1, Zenon
      <4>3. m \in 1 .. Len(Y)
        OBVIOUS
      <4> HIDE DEF Y, B
      <4>4. VectorStands(Y, text, B \cup W, st2, l2, m2, l)
        BY <3>2, <4>1, <4>2, <4>3, VectorGrows, Zenon
      <4> QED
        BY <4>4 DEF Y, B
    <3> QED
      BY <1>2, <2>3, <3>4, Zenon
  <2>4. CASE k # l
    <3>1. \A i \in 1 .. Len(X[k]) : IsEvaluated(st2, l2, m2, k, i) <=> IsEvaluated(st, l, m, k, i)
      BY <2>2, <2>4, Zenon
    <3>2. VectorStands(X[k], text, V[k], st2, l2, m2, k)
      BY <2>1, <3>1, VectorStays, Zenon
    <3> QED
      BY <1>2, <2>4, <3>2, Zenon
  <2> QED
    BY <2>3, <2>4
<1>4. VectorsStand(X, text, U, st2, l2, m2)
  BY <1>2, <1>3, Zenon DEF VectorsStand
<1> QED
  BY <1>4 DEF U

\* At the beginning, all vectors are empty.
LEMMA VectorsBegin ==
  ASSUME NEW X, IsExtractors(X), NEW text
  PROVE  VectorsStand(X, text, [k \in 1 .. Len(X) |-> {}], "function", 1, 1)
<1> DEFINE V == [k \in 1 .. Len(X) |-> {}]
<1>1. ASSUME NEW k \in 1 .. Len(X), NEW i \in 1 .. Len(X[k])
      PROVE  ~ IsEvaluated("function", 1, 1, k, i)
  <2>1. ~ IsBefore(1, 1, k, i)
    <3> DEFINE n == Len(X)
               d == Len(X[k])
    <3>1. k \in 1 .. n /\ i \in 1 .. d
      OBVIOUS
    <3> HIDE DEF n, d
    <3> QED
      BY <3>1 DEF IsBefore
  <2> QED
    BY <2>1, EvaluatedIs
<1>2. \A k \in 1 .. Len(X) : V[k] = {}
  OBVIOUS
<1>3. V = [k \in 1 .. Len(X) |-> V[k]]
  OBVIOUS
<1>4. \A i : OwnOf({}, i) = {}
  BY Zenon DEF OwnOf
<1> HIDE DEF V
<1>5. \A k \in 1 .. Len(X) : VectorStands(X[k], text, V[k], "function", 1, 1, k)
  BY <1>1, <1>2, <1>4, Zenon DEF VectorStands
<1>6. VectorsStand(X, text, V, "function", 1, 1)
  BY <1>3, <1>5, Zenon DEF VectorsStand
<1> QED
  BY <1>6 DEF V

\* The vectors stay as long as the same functions have evaluated.
LEMMA VectorsStay ==
  ASSUME NEW X, NEW text, NEW V, NEW st, NEW l, NEW m, VectorsStand(X, text, V, st, l, m),
         NEW st2, NEW l2, NEW m2,
         \/ st \in {"concat", "done"} /\ st2 \in {"concat", "done"}
         \/ st \notin {"concat", "done"} /\ st2 \notin {"concat", "done"} /\ l2 = l /\ m2 = m
  PROVE  VectorsStand(X, text, V, st2, l2, m2)
<1>1. \A k, i : IsEvaluated(st, l, m, k, i) <=> IsEvaluated(st2, l2, m2, k, i)
  BY DEF IsEvaluated
<1>2. \A k \in 1 .. Len(X) : VectorStands(X[k], text, V[k], st2, l2, m2, k)
  BY <1>1, VectorStays, Zenon DEF VectorsStand
<1> QED
  BY <1>2, Zenon DEF VectorsStand

-----------------------------------------------------------------------------
(* The evaluation stands *)

Evaluating == {"function", "chars", "ngrams", "scripts"}
Concatenating == {"concat", "done"}

\* What a value of space k adds to the layer.
AdditionIn(s, k, v) ==
  LET begin == s.network[k].offset + v.base * s.network[k].dim
  IN [space |-> k, base |-> v.base, of |-> v.of, row |-> v.id,
      from |-> begin, to |-> begin + s.network[k].dim - 1, weight |-> Multiplier(v)]

AddedFrom(s, V, A, n) == \A a \in A : \E k \in 1 .. n : \E v \in V[k] : a = AdditionIn(s, k, v)

\* The vectors hold what their functions have come to so far, and the loop of
\* the function at hand has counted what it has seen.
EvaluationStands ==
  /\ stage \in {"parse", "ready"} => es = 1 /\ fi = 1 /\ concat = {}
  /\ stage \notin {"parse", "ready"} =>
       /\ stage \in Evaluating \cup Concatenating
       /\ sentence \in setup.texts /\ es \in 1 .. Len(extractors)
       /\ VectorsStand(extractors, sentence, features, stage, es, fi)
       /\ AddedFrom(setup, features, concat, Len(extractors))
  /\ stage \in Evaluating =>
       /\ fi \in 1 .. Len(extractors[es]) /\ concat = {}
       /\ LoopAt(extractors[es][fi], sentence, stage, at, chars, counts)

\* What is known of the extractors and the network, and of every text.
IsSound(s, X) ==
  /\ IsExtractors(X) /\ Len(X) = Len(s.spaces)
  /\ X = [k \in 1 .. Len(X) |-> Functions(s.spaces[k].tree)]
  /\ \A k \in 1 .. Len(X) :
       /\ DOMAIN X[k] = 1 .. Len(X[k])
       /\ \A i \in 1 .. Len(X[k]) : FunctionSound(X[k][i], s.network[k].rows)

\* The extractors of a setup are sound.
LEMMA ExtractorsSound ==
  ASSUME NEW s \in Setups, NEW X, Len(X) = Len(s.spaces),
         X = [k \in 1 .. Len(X) |-> Functions(s.spaces[k].tree)]
  PROVE  IsSound(s, X)
<1> DEFINE n == Len(s.spaces)
<1>1. n \in Nat \ {0}
  BY SpacesAre
<1>2. ASSUME NEW k \in 1 .. n
      PROVE  /\ Len(X[k]) \in Nat \ {0} /\ DOMAIN X[k] = 1 .. Len(X[k])
             /\ \A i \in 1 .. Len(X[k]) : FunctionSound(X[k][i], s.network[k].rows)
  <2> DEFINE G == Functions(s.spaces[k].tree)
  <2>1. X[k] = G
    BY Zenon
  <2>2. /\ Len(G) \in Nat \ {0} /\ DOMAIN G = 1 .. Len(G)
        /\ \A i \in 1 .. Len(G) : FunctionSound(G[i], s.network[k].rows)
    BY FunctionsSound
  <2> HIDE DEF G
  <2> QED
    BY <2>1, <2>2, Zenon
<1>3. IsExtractors(X)
  BY <1>1, <1>2, Zenon DEF IsExtractors
<1> QED
  BY <1>2, <1>3, Zenon DEF IsSound

\* The texts of a setup are texts of characters.
LEMMA TextsAre == ASSUME NEW s \in Setups, NEW text \in s.texts PROVE IsText(text)
<1>1. IsSetup(s)
  BY FeaturesAssumption, Zenon
<1> QED
  BY <1>1, Zenon DEF IsSetup, IsText

\* The same, of the state at hand.
LEMMA SetupSound ==
  ASSUME SetupsParsed, stage # "parse"
  PROVE  IsSound(setup, extractors)
<1>1. /\ setup \in Setups /\ Len(extractors) = Len(setup.spaces)
      /\ extractors = [k \in 1 .. Len(extractors) |-> Functions(setup.spaces[k].tree)]
  BY Zenon DEF SetupsParsed
<1> QED
  BY <1>1, ExtractorsSound, Zenon

\* While a function is evaluated its text and its network are sound.
LEMMA FunctionAtHand ==
  ASSUME SetupsParsed, EvaluationStands, stage \in Evaluating
  PROVE  /\ IsText(sentence) /\ FunctionSound(F, setup.network[es].rows)
         /\ F.size \in Nat \ {0} /\ F.domain \in Nat \ {0}
<1>1. stage # "parse" /\ stage \notin {"parse", "ready"}
  BY DEF Evaluating
<1>2. IsSound(setup, extractors)
  BY <1>1, SetupSound
<1>3. es \in 1 .. Len(extractors) /\ fi \in 1 .. Len(extractors[es]) /\ sentence \in setup.texts
  BY <1>1, Zenon DEF EvaluationStands
<1>4. FunctionSound(extractors[es][fi], setup.network[es].rows)
  BY <1>2, <1>3, Zenon DEF IsSound
<1>5. IsText(sentence)
  <2>1. setup \in Setups
    BY DEF SetupsParsed
  <2> QED
    BY <1>3, <2>1, TextsAre, Zenon
<1> QED
  BY <1>4, <1>5, Zenon DEF F, FunctionSound

\* A turn of a loop.
LEMMA LoopStep ==
  ASSUME EvaluationStands, stage \in Evaluating, stage' \in Evaluating,
         UNCHANGED <<setup, extractors, sentence, es, fi, features, concat>>,
         LoopAt(extractors[es][fi], sentence, stage', at', chars', counts')
  PROVE  EvaluationStands'
<1>1. /\ stage \notin {"parse", "ready"} /\ stage' \notin {"parse", "ready"}
      /\ stage \notin {"concat", "done"} /\ stage' \notin {"concat", "done"}
  BY DEF Evaluating
<1>2. VectorsStand(extractors, sentence, features, stage, es, fi)
  BY <1>1, Zenon DEF EvaluationStands
<1>3. VectorsStand(extractors, sentence, features, stage', es, fi)
  <2>1. PICK X, text, V, st, l, m, st2 : /\ X = extractors /\ text = sentence /\ V = features
                                         /\ st = stage /\ l = es /\ m = fi /\ st2 = stage'
    OBVIOUS
  <2> QED
    BY <1>1, <1>2, <2>1, VectorsStay, Zenon
<1>4. VectorsStand(extractors', sentence', features', stage', es', fi')
  BY <1>3, Zenon
<1>5. LoopAt(extractors'[es'][fi'], sentence', stage', at', chars', counts')
  BY Zenon
<1> QED
  BY <1>1, <1>4, <1>5, Zenon DEF EvaluationStands

\* Starting a function's evaluation begins it with nothing counted.
LEMMA EvaluateStep ==
  ASSUME SetupsParsed, EvaluationStands, Evaluate
  PROVE  EvaluationStands'
<1>1. /\ stage = "function" /\ F.type \in {Cbog, Rsf} /\ at' = 1 /\ chars' = <<>> /\ counts' = EmptyBag
      /\ stage' = IF F.type = Cbog THEN "chars" ELSE "scripts"
      /\ UNCHANGED <<setup, extractors, sentence, es, fi, features, concat>>
  BY DEF Evaluate
<1>2. stage \in Evaluating /\ stage' \in Evaluating
  BY <1>1 DEF Evaluating
<1>3. IsText(sentence)
  BY <1>2, FunctionAtHand
<1>4. /\ F.type = Cbog => AtChars(F, sentence, 1, <<>>)
      /\ F.type = Rsf => AtScripts(F, sentence, 1, EmptyBag)
  BY <1>3, LoopsBegin
<1>5. LoopAt(F, sentence, stage', at', chars', counts')
  BY <1>1, <1>4 DEF LoopAt
<1> QED
  BY <1>1, <1>2, <1>5, LoopStep DEF F

\* One character more keeps the tokens as far as they are read.
LEMMA GetUTF8CharStep ==
  ASSUME SetupsParsed, EvaluationStands, GetUTF8Char
  PROVE  EvaluationStands'
<1>1. /\ stage = "chars" /\ at <= Len(sentence) /\ chars' = Append(chars, sentence[at])
      /\ at' = (IF sentence[at] = 0 THEN at ELSE at + 1) /\ counts' = counts /\ stage' = stage
      /\ UNCHANGED <<setup, extractors, sentence, es, fi, features, concat>>
  BY DEF GetUTF8Char
<1>2. stage \in Evaluating /\ stage' \in Evaluating
  BY <1>1 DEF Evaluating
<1>3. IsText(sentence)
  BY <1>2, FunctionAtHand
<1>4. AtChars(F, sentence, at, chars) /\ counts = EmptyBag
  BY <1>1, <1>2, Zenon DEF EvaluationStands, LoopAt, F
<1>5. AtChars(F, sentence, IF sentence[at] = 0 THEN at ELSE at + 1, Append(chars, sentence[at]))
  BY <1>1, <1>3, <1>4, CharRead
<1>6. LoopAt(F, sentence, stage', at', chars', counts')
  BY <1>1, <1>4, <1>5 DEF LoopAt
<1> QED
  BY <1>1, <1>2, <1>6, LoopStep DEF F

\* Terminators in the list of tokens are there where the function calls for
\* them.
LEMMA IncludeTerminatorsStep ==
  ASSUME SetupsParsed, EvaluationStands, IncludeTerminators
  PROVE  EvaluationStands'
<1>1. /\ stage = "chars" /\ at > Len(sentence) /\ at' = 1 /\ counts' = counts /\ stage' = "ngrams"
      /\ chars' = IF F.include_terminators THEN Terminators(chars) ELSE chars
      /\ UNCHANGED <<setup, extractors, sentence, es, fi, features, concat>>
  BY DEF IncludeTerminators
<1>2. stage \in Evaluating /\ stage' \in Evaluating
  BY <1>1 DEF Evaluating
<1>3. IsText(sentence)
  BY <1>2, FunctionAtHand
<1>4. AtChars(F, sentence, at, chars) /\ counts = EmptyBag
  BY <1>1, <1>2, Zenon DEF EvaluationStands, LoopAt, F
<1>5. chars = sentence
  BY <1>1, <1>3, <1>4, CharsRead
<1>6. chars' = CharsOf(F, sentence)
  BY <1>1, <1>5, Zenon DEF CharsOf
<1>7. F.type = Cbog
  BY <1>4 DEF AtChars
<1>8. AtNgrams(F, sentence, 1, CharsOf(F, sentence), EmptyBag)
  BY <1>3, <1>7, LoopsBegin
<1>9. LoopAt(F, sentence, stage', at', chars', counts')
  BY <1>1, <1>4, <1>6, <1>8 DEF LoopAt
<1> QED
  BY <1>1, <1>2, <1>9, LoopStep DEF F

\* One window more is counted with the tokens that it holds.
LEMMA CountNgramStep ==
  ASSUME SetupsParsed, EvaluationStands, CountNgram
  PROVE  EvaluationStands'
<1> DEFINE gram == GramAt(F, chars, at)
<1>1. /\ stage = "ngrams" /\ at <= Len(chars) - F.size + 1 /\ at' = at + 1 /\ chars' = chars
      /\ stage' = stage
      /\ counts' = IF IsKept(F, gram) THEN counts (+) SetToBag({gram}) ELSE counts
      /\ UNCHANGED <<setup, extractors, sentence, es, fi, features, concat>>
  BY Zenon DEF CountNgram, IsKept, GramAt
<1>2. stage \in Evaluating /\ stage' \in Evaluating
  BY <1>1 DEF Evaluating
<1>3. IsText(sentence) /\ F.size \in Nat \ {0}
  BY <1>2, FunctionAtHand
<1>4. AtNgrams(F, sentence, at, chars, counts)
  BY <1>1, <1>2, Zenon DEF EvaluationStands, LoopAt, F
<1>5. AtNgrams(F, sentence, at + 1, chars, IF IsKept(F, gram) THEN counts (+) SetToBag({gram}) ELSE counts)
  BY <1>1, <1>3, <1>4, NgramCounted
<1>6. AtNgrams(F, sentence, at', chars', counts')
  BY <1>1, <1>5, Zenon
<1>7. LoopAt(F, sentence, stage', at', chars', counts')
  <2>1. stage' = "ngrams"
    BY <1>1
  <2> QED
    BY <1>6, <2>1 DEF LoopAt
<1> QED
  BY <1>1, <1>2, <1>7, LoopStep DEF F

\* One character more is counted with its script.
LEMMA CountScriptStep ==
  ASSUME SetupsParsed, EvaluationStands, CountScript
  PROVE  EvaluationStands'
<1>1. /\ stage = "scripts" /\ at <= Len(sentence) /\ at' = at + 1 /\ stage' = stage
      /\ counts' = IF CharLen(sentence[at]) = 1 /\ ~isalpha(sentence[at]) THEN counts
                   ELSE counts (+) SetToBag({GetScript(sentence[at])})
      /\ UNCHANGED <<setup, extractors, sentence, es, fi, features, concat>>
  BY DEF CountScript
<1>2. stage \in Evaluating /\ stage' \in Evaluating
  BY <1>1 DEF Evaluating
<1>3. IsText(sentence)
  BY <1>2, FunctionAtHand
<1>4. AtScripts(F, sentence, at, counts)
  BY <1>1, <1>2, Zenon DEF EvaluationStands, LoopAt, F
<1>5. AtScripts(F, sentence, at + 1,
                IF IsLetter(sentence[at]) THEN counts (+) SetToBag({GetScript(sentence[at])}) ELSE counts)
  BY <1>1, <1>3, <1>4, ScriptCounted
<1>6. AtScripts(F, sentence, at', counts')
  BY <1>1, <1>5, Zenon DEF IsLetter
<1>7. LoopAt(F, sentence, stage', at', chars', counts')
  <2>1. stage' = "scripts"
    BY <1>1
  <2> QED
    BY <1>6, <2>1 DEF LoopAt
<1> QED
  BY <1>1, <1>2, <1>7, LoopStep DEF F

\* A function has evaluated.
LEMMA AddsStep ==
  ASSUME SetupsParsed, EvaluationStands, stage \in Evaluating,
         NEW W, HasValues(fi, F, sentence, W), Adds(W)
  PROVE  EvaluationStands'
<1>1. /\ stage # "parse" /\ stage \notin {"parse", "ready"} /\ stage \notin {"concat", "done"}
  BY DEF Evaluating
<1>2. IsSound(setup, extractors)
  BY <1>1, SetupSound
<1>3. /\ sentence \in setup.texts /\ es \in 1 .. Len(extractors) /\ fi \in 1 .. Len(extractors[es])
      /\ VectorsStand(extractors, sentence, features, stage, es, fi) /\ concat = {}
  BY <1>1, Zenon DEF EvaluationStands
<1>4. PICK X, text, V, st, l, m : /\ X = extractors /\ text = sentence /\ V = features
                                  /\ st = stage /\ l = es /\ m = fi
  OBVIOUS
<1>5. /\ IsExtractors(X) /\ l \in 1 .. Len(X) /\ m \in 1 .. Len(X[l])
      /\ st \notin {"concat", "done"} /\ VectorsStand(X, text, V, st, l, m)
      /\ HasValues(m, X[l][m], text, W)
  BY <1>1, <1>2, <1>3, <1>4, Zenon DEF IsSound, F
<1> DEFINE U == [V EXCEPT ![l] = @ \cup W]
<1>6. /\ features' = U
      /\ UNCHANGED <<setup, extractors, sentence, concat>>
  BY <1>4 DEF Adds
<1>7. \A st2, l2, m2 : NextEvaluated(X, l, m, st2, l2, m2) => VectorsStand(X, text, U, st2, l2, m2)
  BY <1>5, VectorsGrow, Zenon
<1> HIDE DEF U
<1>8. /\ NextEvaluated(X, l, m, "function", l, m + 1)
      /\ m = Len(X[l]) => NextEvaluated(X, l, m, "function", l + 1, 1)
      /\ m = Len(X[l]) /\ l = Len(X) => NextEvaluated(X, l, m, "concat", 1, 1)
  BY <1>5, NextIs, Zenon
<1>9. Len(X) \in Nat \ {0} /\ \A k \in 1 .. Len(X) : Len(X[k]) \in Nat \ {0}
  BY <1>5, Zenon DEF IsExtractors
<1>10. CASE fi < Len(extractors[es]) /\ fi' = fi + 1 /\ stage' = "function" /\ UNCHANGED es
  <2>1. m + 1 \in 1 .. Len(X[l])
    <3> DEFINE e == Len(X[l])
    <3>1. e \in Nat \ {0} /\ m \in 1 .. e /\ m < e
      BY <1>4, <1>5, <1>9, <1>10, Zenon
    <3> HIDE DEF e
    <3>2. m + 1 \in 1 .. e
      BY <3>1, SMT
    <3> QED
      BY <3>2 DEF e
  <2>2. VectorsStand(X, text, U, "function", l, m + 1)
    BY <1>7, <1>8, Zenon
  <2>3. /\ extractors' = X /\ sentence' = text /\ features' = U /\ stage' = "function" /\ es' = l
        /\ fi' = m + 1 /\ setup' = setup /\ concat' = {}
    BY <1>3, <1>4, <1>6, <1>10, Zenon
  <2> QED
    BY <1>3, <1>4, <1>5, <2>1, <2>2, <2>3 DEF EvaluationStands, Evaluating, Concatenating, LoopAt, AddedFrom
<1>11. CASE /\ fi = Len(extractors[es]) /\ es < Len(extractors)
            /\ fi' = 1 /\ es' = es + 1 /\ stage' = "function"
  <2>1. l + 1 \in 1 .. Len(X)
    <3> DEFINE e == Len(X)
    <3>1. e \in Nat \ {0} /\ l \in 1 .. e /\ l < e
      BY <1>4, <1>5, <1>9, <1>11, Zenon
    <3> HIDE DEF e
    <3>2. l + 1 \in 1 .. e
      BY <3>1, SMT
    <3> QED
      BY <3>2 DEF e
  <2>2. 1 \in 1 .. Len(X[l + 1])
    <3> DEFINE e == Len(X[l + 1])
    <3>1. e \in Nat \ {0}
      BY <1>9, <2>1, Zenon
    <3> HIDE DEF e
    <3>2. 1 \in 1 .. e
      BY <3>1, SMT
    <3> QED
      BY <3>2 DEF e
  <2>3. VectorsStand(X, text, U, "function", l + 1, 1)
    BY <1>4, <1>7, <1>8, <1>11, Zenon
  <2>4. /\ extractors' = X /\ sentence' = text /\ features' = U /\ stage' = "function" /\ es' = l + 1
        /\ fi' = 1 /\ setup' = setup /\ concat' = {}
    BY <1>3, <1>4, <1>6, <1>11, Zenon
  <2> QED
    BY <1>3, <1>4, <1>5, <2>1, <2>2, <2>3, <2>4
       DEF EvaluationStands, Evaluating, Concatenating, LoopAt, AddedFrom
<1>12. CASE /\ fi = Len(extractors[es]) /\ es = Len(extractors)
            /\ fi' = 1 /\ es' = 1 /\ stage' = "concat"
  <2>1. 1 \in 1 .. Len(X)
    BY <1>9
  <2>2. VectorsStand(X, text, U, "concat", 1, 1)
    BY <1>4, <1>7, <1>8, <1>12, Zenon
  <2>3. /\ extractors' = X /\ sentence' = text /\ features' = U /\ stage' = "concat" /\ es' = 1
        /\ fi' = 1 /\ setup' = setup /\ concat' = {}
    BY <1>3, <1>4, <1>6, <1>12, Zenon
  <2> QED
    BY <1>3, <1>4, <1>5, <2>1, <2>2, <2>3 DEF EvaluationStands, Evaluating, Concatenating, AddedFrom
<1> QED
  BY <1>10, <1>11, <1>12, Zenon DEF Adds

\* The values of all n-grams are those of the windows counted.
LEMMA NgramValuesStep ==
  ASSUME SetupsParsed, EvaluationStands, NgramValues
  PROVE  EvaluationStands'
<1> DEFINE W == NgramValuesOf(fi, F, counts)
<1>1. stage = "ngrams" /\ at > Len(chars) - F.size + 1 /\ Adds(W)
  BY Zenon DEF NgramValues, NgramValuesOf, NgramWeight, Value, ValueOf, BagToSet
<1>2. stage \in Evaluating
  BY <1>1 DEF Evaluating
<1>3. IsText(sentence) /\ F.size \in Nat \ {0}
  BY <1>2, FunctionAtHand
<1>4. AtNgrams(F, sentence, at, chars, counts)
  BY <1>1, <1>2, Zenon DEF EvaluationStands, LoopAt, F
<1>5. chars = CharsOf(F, sentence) /\ counts = NgramBag(F, chars)
  BY <1>1, <1>3, <1>4, NgramsCounted
<1>6. F.type = Cbog
  BY <1>4 DEF AtNgrams
<1>7. HasValues(fi, F, sentence, W)
  BY <1>5, <1>6 DEF HasValues, Cbog, Rsf
<1> QED
  BY <1>1, <1>2, <1>7, AddsStep

\* The values of all scripts are those of the letters counted.
LEMMA ScriptValuesStep ==
  ASSUME SetupsParsed, EvaluationStands, ScriptValues
  PROVE  EvaluationStands'
<1> DEFINE W == ScriptValuesOf(fi, F, counts)
<1>1. stage = "scripts" /\ at > Len(sentence) /\ Adds(W)
  BY Zenon DEF ScriptValues, ScriptValuesOf, Value, ValueOf, BagToSet
<1>2. stage \in Evaluating
  BY <1>1 DEF Evaluating
<1>3. IsText(sentence)
  BY <1>2, FunctionAtHand
<1>4. AtScripts(F, sentence, at, counts)
  BY <1>1, <1>2, Zenon DEF EvaluationStands, LoopAt, F
<1>5. counts = ScriptBag(sentence)
  BY <1>1, <1>3, <1>4, ScriptsCounted
<1>6. F.type = Rsf
  BY <1>4 DEF AtScripts
<1>7. HasValues(fi, F, sentence, W)
  BY <1>5, <1>6 DEF HasValues, Cbog, Rsf
<1> QED
  BY <1>1, <1>2, <1>7, AddsStep

\* The one value of a script feature is that of the text.
LEMMA ScriptFeatureStep ==
  ASSUME SetupsParsed, EvaluationStands, ScriptFeature
  PROVE  EvaluationStands'
<1> DEFINE letters == {i \in DOMAIN sentence : ULScript(sentence[i]) # 0}
           Number(n) == Adds({Value(n, n, <<1, 1>>, FALSE)})
<1>1. stage = "function" /\ F.type \notin {Cbog, Rsf}
  BY DEF ScriptFeature
<1>2. stage \in Evaluating
  BY <1>1 DEF Evaluating
<1>3. IsText(sentence)
  BY <1>2, FunctionAtHand
<1>4. \E n \in 0 .. NUM_ULSCRIPTS : Number(n)
  <2>1. /\ NUM_ULSCRIPTS \in Nat /\ ULScript_Hani \in 0 .. NUM_ULSCRIPTS - 1
    BY FeaturesAssumption, Zenon
  <2>2. letters # {} => ULScript(sentence[Min(letters)]) \in 0 .. NUM_ULSCRIPTS - 1
    <3>1. ASSUME letters # {} PROVE Min(letters) \in letters
      <4>1. letters \in SUBSET Nat
        BY <1>3, TextTyped
      <4> HIDE DEF letters
      <4> QED
        BY <3>1, <4>1, MinIsLeast
    <3> QED
      BY <1>3, <3>1, Zenon DEF IsText
  <2>3. \/ Number(0)
        \/ letters # {} /\ Number(ULScript(sentence[Min(letters)]))
        \/ Number(NUM_ULSCRIPTS) \/ Number(ULScript_Hani)
    <3> DEFINE Hangul(i, j) == {k \in letters \cap i .. j : IsHangul(sentence[k])}
               Others(i, j) == (letters \cap i .. j) \ Hangul(i, j)
               More(end) == Cardinality(Hangul(Min(letters), end)) > Cardinality(Others(Min(letters), end))
    <3>1. \/ Number(0)
          \/ letters # {} /\ Number(ULScript(sentence[Min(letters)]))
          \/ \E end \in Min(letters) .. Len(sentence) :
               Number(IF More(end) THEN NUM_ULSCRIPTS ELSE ULScript_Hani)
      BY Zenon DEF ScriptFeature
    <3> HIDE DEF More, Number
    <3>2. \A end : (IF More(end) THEN NUM_ULSCRIPTS ELSE ULScript_Hani) \in {NUM_ULSCRIPTS, ULScript_Hani}
      BY Zenon
    <3> QED
      BY <3>1, <3>2, Zenon
  <2>4. /\ 0 \in 0 .. NUM_ULSCRIPTS /\ NUM_ULSCRIPTS \in 0 .. NUM_ULSCRIPTS
        /\ ULScript_Hani \in 0 .. NUM_ULSCRIPTS
    BY <2>1
  <2>5. letters # {} => ULScript(sentence[Min(letters)]) \in 0 .. NUM_ULSCRIPTS
    <3> DEFINE x == ULScript(sentence[Min(letters)])
               none == letters = {}
    <3>1. ~ none => x \in 0 .. NUM_ULSCRIPTS - 1
      BY <2>2
    <3> HIDE DEF x, none
    <3>2. ~ none => x \in 0 .. NUM_ULSCRIPTS
      BY <2>1, <3>1
    <3> QED
      BY <3>2 DEF x, none
  <2> HIDE DEF Number
  <2> QED
    BY <2>3, <2>4, <2>5, Zenon
<1>5. PICK n \in 0 .. NUM_ULSCRIPTS : Number(n)
  BY <1>4
<1> DEFINE W == NumberValuesOf(fi, F, n)
<1>6. Adds(W)
  BY <1>5, Zenon DEF NumberValuesOf, Value, ValueOf
<1>7. HasValues(fi, F, sentence, W)
  BY <1>1, Zenon DEF HasValues
<1> QED
  BY <1>2, <1>6, <1>7, AddsStep

\* Going on to the next function adds the values of the last one to its
\* segment.
LEMMA GetFeaturesStep ==
  ASSUME SetupsParsed, EvaluationStands, GetFeatures
  PROVE  EvaluationStands'
<1>1. /\ stage = "ready" /\ stage' = "function" /\ sentence' \in setup.texts
      /\ features' = [k \in DOMAIN extractors |-> {}]
      /\ UNCHANGED <<setup, extractors, es, fi, concat>>
  BY DEF GetFeatures
<1>2. es = 1 /\ fi = 1 /\ concat = {}
  BY <1>1, Zenon DEF EvaluationStands
<1>3. IsSound(setup, extractors)
  BY <1>1, SetupSound
<1>4. PICK X, text : X = extractors /\ text = sentence'
  OBVIOUS
<1>5. /\ IsExtractors(X) /\ DOMAIN X = 1 .. Len(X)
  <2>1. X = [k \in 1 .. Len(X) |-> Functions(setup.spaces[k].tree)]
    BY <1>3, <1>4, Zenon DEF IsSound
  <2>2. DOMAIN X = 1 .. Len(X)
    BY <2>1, Zenon
  <2> QED
    BY <1>3, <1>4, <2>2, Zenon DEF IsSound
<1>6. VectorsStand(X, text, [k \in 1 .. Len(X) |-> {}], "function", 1, 1)
  BY <1>5, VectorsBegin, Zenon
<1>7. features' = [k \in 1 .. Len(X) |-> {}]
  BY <1>1, <1>4, <1>5, Zenon
<1>8. 1 \in 1 .. Len(X) /\ 1 \in 1 .. Len(X[1])
  BY <1>5 DEF IsExtractors
<1>9. /\ extractors' = X /\ es' = 1 /\ fi' = 1 /\ concat' = {} /\ setup' = setup
      /\ VectorsStand(X, text, features', "function", 1, 1)
  BY <1>1, <1>2, <1>4, <1>6, <1>7, Zenon
<1> QED
  BY <1>1, <1>4, <1>8, <1>9 DEF EvaluationStands, Evaluating, Concatenating, LoopAt, AddedFrom

-----------------------------------------------------------------------------
(* The additions to the layer *)

\* A value of a vector, when all functions have evaluated.
LEMMA ValueSound ==
  ASSUME HashIsNumber, NEW s, NEW X, IsSound(s, X), NEW text, IsText(text),
         NEW V, NEW st \in {"concat", "done"}, NEW l, NEW m, VectorsStand(X, text, V, st, l, m),
         NEW k \in 1 .. Len(X), NEW v \in V[k]
  PROVE  \E i \in 1 .. Len(X[k]) : ValueFits(i, X[k][i], v) /\ FunctionSound(X[k][i], s.network[k].rows)
<1>1. VectorStands(X[k], text, V[k], st, l, m, k)
  BY Zenon DEF VectorsStand
<1>2. PICK i \in 1 .. Len(X[k]) : v.base = i - 1
  BY <1>1, Zenon DEF VectorStands
<1>3. IsEvaluated(st, l, m, k, i)
  BY EvaluatedIs
<1>4. HasValues(i, X[k][i], text, OwnOf(V[k], i))
  BY <1>1, <1>3, Zenon DEF VectorStands
<1>5. v \in OwnOf(V[k], i)
  BY <1>2, Zenon DEF OwnOf
<1>6. FunctionSound(X[k][i], s.network[k].rows)
  BY Zenon DEF IsSound
<1>7. ValueFits(i, X[k][i], v)
  BY <1>4, <1>5, <1>6, ValuesFit, Zenon
<1> QED
  BY <1>6, <1>7

\* Every value has its row.
LEMMA RowFound ==
  ASSUME HashIsNumber, NEW s, NEW X, IsSound(s, X), NEW text, IsText(text),
         NEW V, NEW st \in {"concat", "done"}, NEW l, NEW m, VectorsStand(X, text, V, st, l, m),
         NEW k \in 1 .. Len(X), NEW v \in V[k], s.network[k].rows \in Nat
  PROVE  v.id \in 0 .. s.network[k].rows - 1
<1>1. PICK i \in 1 .. Len(X[k]) : ValueFits(i, X[k][i], v) /\ FunctionSound(X[k][i], s.network[k].rows)
  BY ValueSound, Zenon
<1> DEFINE id == v.id
           d == X[k][i].domain
           r == s.network[k].rows
<1>2. id \in 0 .. d - 1 /\ d \in Nat \ {0} /\ d <= r /\ r \in Nat
  BY <1>1, Zenon DEF ValueFits, FunctionSound
<1> HIDE DEF id, d, r
<1>3. id \in 0 .. r - 1
  BY <1>2
<1> QED
  BY <1>3 DEF id, r

\* The sizes of a network for a setup.
LEMMA NetworkIs ==
  ASSUME NEW s \in Setups, NEW k \in 1 .. Len(s.spaces)
  PROVE  /\ s.size \in Nat /\ s.network[k].dim \in Nat \ {0}
         /\ s.network[k].offset \in Nat /\ s.network[k].rows \in Nat
         /\ SegmentsEnd(s, k) <= s.size
         /\ \A m \in k + 1 .. Len(s.spaces) : SegmentsEnd(s, k) <= s.network[m].offset
<1>1. IsSetup(s) /\ k \in DOMAIN s.spaces
  BY FeaturesAssumption, SpacesAre
<1>2. NetworkFits(s)
  BY <1>1, Zenon DEF IsSetup
<1> QED
  BY <1>1, <1>2, Zenon DEF NetworkFits

\* Adding one value's row keeps every earlier one, and each to its own
\* segment.
LEMMA ConcatEmbeddingsStep ==
  ASSUME HashIsNumber, SetupsParsed, EvaluationStands, ConcatEmbeddings
  PROVE  EvaluationStands'
<1>1. /\ stage = "concat" /\ UNCHANGED <<setup, extractors, sentence, features>>
      /\ concat' = concat \cup {Addition(value) : value \in features[es]}
      /\ stage' = IF \E value \in features[es] : value.id \notin 0 .. setup.network[es].rows - 1
                    THEN "crashed"
                  ELSE IF es = Len(features) THEN "done" ELSE "concat"
      /\ es' = IF es = Len(features) THEN es ELSE es + 1
  BY DEF ConcatEmbeddings
<1>2. /\ sentence \in setup.texts /\ es \in 1 .. Len(extractors)
      /\ VectorsStand(extractors, sentence, features, stage, es, fi)
      /\ AddedFrom(setup, features, concat, Len(extractors))
  BY <1>1, Zenon DEF EvaluationStands
<1>3. IsSound(setup, extractors) /\ setup \in Setups
  BY <1>1, SetupSound, Zenon DEF SetupsParsed
<1>4. PICK s, X, text, V, l : s = setup /\ X = extractors /\ text = sentence /\ V = features /\ l = es
  OBVIOUS
<1>5. /\ s \in Setups /\ IsSound(s, X) /\ IsText(text) /\ l \in 1 .. Len(X) /\ Len(X) \in Nat \ {0}
      /\ Len(X) = Len(s.spaces)
  <2>1. IsText(sentence)
    BY <1>2, <1>3, TextsAre, Zenon
  <2>2. IsExtractors(X)
    BY <1>3, <1>4, Zenon DEF IsSound
  <2> QED
    BY <1>2, <1>3, <1>4, <2>1, <2>2, Zenon DEF IsSound, IsExtractors
<1>6. VectorsStand(X, text, V, "concat", l, fi)
  BY <1>1, <1>2, <1>4, Zenon
<1>7. \A v \in V[l] : v.id \in 0 .. s.network[l].rows - 1
  <2>1. s.network[l].rows \in Nat
    BY <1>5, NetworkIs, Zenon
  <2>2. "concat" \in {"concat", "done"}
    OBVIOUS
  <2>3. PICK m : m = fi
    OBVIOUS
  <2> QED
    BY <1>5, <1>6, <2>1, <2>2, <2>3, RowFound, Zenon
<1>8. Len(features) = Len(X)
  <2> DEFINE n == Len(X)
  <2>1. V = [k \in 1 .. n |-> V[k]] /\ n \in Nat
    BY <1>5, <1>6, Zenon DEF VectorsStand
  <2> HIDE DEF n
  <2>2. Len(V) = n
    BY <2>1
  <2> QED
    BY <1>4, <2>2 DEF n
<1>9. stage' \in {"concat", "done"} /\ es' \in 1 .. Len(X)
  <2>1. stage' = IF es = Len(features) THEN "done" ELSE "concat"
    BY <1>1, <1>4, <1>7, Zenon
  <2>2. es' \in 1 .. Len(X)
    <3> DEFINE n == Len(X)
    <3>1. es' = IF l = n THEN l ELSE l + 1
      BY <1>1, <1>4, <1>8, Zenon
    <3>2. l \in 1 .. n /\ n \in Nat \ {0}
      BY <1>5
    <3> HIDE DEF n
    <3>3. (IF l = n THEN l ELSE l + 1) \in 1 .. n
      BY <3>2, SMT
    <3> QED
      BY <3>1, <3>3 DEF n
  <2> QED
    BY <2>1, <2>2
<1>10. VectorsStand(X, text, V, stage', es', fi')
  <2>1. PICK st2, l2, m2, m : st2 = stage' /\ l2 = es' /\ m2 = fi' /\ m = fi
    OBVIOUS
  <2>2. VectorsStand(X, text, V, "concat", l, m)
    BY <1>6, <2>1, Zenon
  <2>3. "concat" \in {"concat", "done"} /\ st2 \in {"concat", "done"}
    BY <1>9, <2>1
  <2>4. VectorsStand(X, text, V, st2, l2, m2)
    BY <2>2, <2>3, VectorsStay, Zenon
  <2> QED
    BY <2>1, <2>4, Zenon
<1>11. AddedFrom(s, V, concat', Len(X))
  <2>1. AddedFrom(s, V, concat, Len(X))
    BY <1>2, <1>4, Zenon
  <2>2. \A v : Addition(v) = AdditionIn(s, l, v)
    BY <1>4, Zenon DEF Addition, AdditionIn
  <2>3. \A a \in concat' : a \in concat \/ \E v \in V[l] : a = AdditionIn(s, l, v)
    BY <1>1, <1>4, <2>2, Zenon
  <2> QED
    BY <1>5, <2>1, <2>3, Zenon DEF AddedFrom
<1>12. /\ extractors' = X /\ sentence' = text /\ features' = V /\ setup' = s
       /\ sentence' \in setup'.texts
  BY <1>1, <1>2, <1>4, Zenon
<1>13. stage' \notin {"parse", "ready"} /\ stage' \notin Evaluating /\ stage' \in Concatenating
  BY <1>9 DEF Evaluating, Concatenating
<1>14. /\ sentence' \in setup'.texts /\ es' \in 1 .. Len(extractors')
       /\ VectorsStand(extractors', sentence', features', stage', es', fi')
       /\ AddedFrom(setup', features', concat', Len(extractors'))
  BY <1>9, <1>10, <1>11, <1>12, Zenon
<1> QED
  BY <1>13, <1>14, Zenon DEF EvaluationStands

\* At the start nothing is evaluated.
LEMMA EvaluationInit == Init => EvaluationStands
<1> SUFFICES ASSUME Init PROVE EvaluationStands
  OBVIOUS
<1>1. stage = "parse" /\ es = 1 /\ fi = 1 /\ concat = {}
  BY DEF Init
<1> QED
  BY <1>1 DEF EvaluationStands, Evaluating

\* No step leaves the order of the evaluation.
LEMMA EvaluationStep ==
  ASSUME HashIsNumber, SetupsParsed, EvaluationStands, [Next]_vars
  PROVE  EvaluationStands'
<1>1. CASE ParseSpecification \/ SetupExtractor
  <2>1. stage = "parse" /\ stage' \in {"parse", "ready"} /\ UNCHANGED <<es, fi, concat>>
    BY <1>1 DEF ParseSpecification, SetupExtractor, fvars
  <2>2. es = 1 /\ fi = 1 /\ concat = {}
    BY <2>1, Zenon DEF EvaluationStands
  <2> QED
    BY <2>1, <2>2 DEF EvaluationStands, Evaluating
<1>2. CASE UNCHANGED vars
  <2>1. UNCHANGED <<setup, extractors, stage, sentence, es, fi, at, chars, counts, features, concat>>
    BY <1>2 DEF vars, fvars
  <2> QED
    BY <2>1, Zenon DEF EvaluationStands
<1> QED
  BY <1>1, <1>2, GetFeaturesStep, EvaluateStep, GetUTF8CharStep, IncludeTerminatorsStep, CountNgramStep,
     CountScriptStep, NgramValuesStep, ScriptValuesStep, ScriptFeatureStep, ConcatEmbeddingsStep
     DEF Next

\* The places of segment i of a space.
SegmentFrom(s, k, i) == s.network[k].offset + (i - 1) * s.network[k].dim
SegmentTo(s, k, i) == SegmentFrom(s, k, i) + s.network[k].dim - 1

\* Segments follow each other, and end where all of them do.
LEMMA SegmentsFollow ==
  ASSUME NEW offset \in Nat, NEW dim \in Nat \ {0}, NEW n \in Nat, NEW i \in 1 .. n, NEW j \in i + 1 .. n + 1
  PROVE  /\ offset + (i - 1) * dim \in Nat
         /\ offset + (i - 1) * dim + dim - 1 < offset + (j - 1) * dim
<1>1. PICK r \in Nat : j = i + 1 + r
  <2>1. j - i - 1 \in Nat /\ j = i + 1 + (j - i - 1)
    OBVIOUS
  <2> QED
    BY <2>1
<1>2. \A x, y, d \in Nat : (x + y) * d = x * d + y * d /\ x * d \in Nat
  OBVIOUS
<1>3. (j - 1) * dim = ((i - 1) + 1 + r) * dim
  <2>1. j - 1 = (i - 1) + 1 + r
    BY <1>1
  <2> QED
    BY <2>1
<1>4. i - 1 \in Nat /\ (i - 1) + 1 \in Nat /\ 1 * dim = dim
  OBVIOUS
<1>5. ((i - 1) + 1 + r) * dim = ((i - 1) * dim + dim) + r * dim
  BY <1>2, <1>4
<1> DEFINE a == (i - 1) * dim
           b == (j - 1) * dim
           c == r * dim
<1>6. a \in Nat /\ c \in Nat
  BY <1>2, <1>4
<1>7. b = a + dim + c
  BY <1>3, <1>5
<1> HIDE DEF a, b, c
<1>8. offset + a \in Nat /\ offset + a + dim - 1 < offset + b
  BY <1>6, <1>7
<1> QED
  BY <1>8 DEF a, b

\* The segments of a setup lie in the layer, and none overlaps another.
LEMMA SegmentsApart ==
  ASSUME NEW s \in Setups, NEW X, IsSound(s, X), NEW k \in 1 .. Len(X), NEW i \in 1 .. Len(X[k]),
         NEW m \in 1 .. Len(X), NEW j \in 1 .. Len(X[m])
  PROVE  /\ SegmentTo(s, k, i) < s.size
         /\ SegmentFrom(s, k, i) <= SegmentTo(s, m, j) => k <= m /\ (k = m => i <= j)
<1> DEFINE n == Len(X)
           d == s.network[k].dim
           o == s.network[k].offset
           e == Len(X[k])
           z == s.size
           d2 == s.network[m].dim
           o2 == s.network[m].offset
           e2 == Len(X[m])
<1>1. /\ n \in Nat \ {0} /\ e \in Nat \ {0} /\ e2 \in Nat \ {0} /\ n = Len(s.spaces)
      /\ X[k] = Functions(s.spaces[k].tree) /\ X[m] = Functions(s.spaces[m].tree)
  <2>1. X = [p \in 1 .. n |-> Functions(s.spaces[p].tree)]
    BY Zenon DEF IsSound
  <2> QED
    BY <2>1, Zenon DEF IsSound, IsExtractors
<1>2. /\ z \in Nat /\ d \in Nat \ {0} /\ o \in Nat /\ d2 \in Nat \ {0} /\ o2 \in Nat
      /\ SegmentsEnd(s, k) <= z /\ SegmentsEnd(s, m) <= z
      /\ \A p \in m + 1 .. n : SegmentsEnd(s, m) <= s.network[p].offset
  <2>1. k \in 1 .. Len(s.spaces) /\ m \in 1 .. Len(s.spaces)
    BY <1>1, Zenon
  <2> QED
    BY <1>1, <2>1, NetworkIs, Zenon
<1>3. SegmentsEnd(s, k) = o + e * d /\ SegmentsEnd(s, m) = o2 + e2 * d2
  BY <1>1, Zenon DEF SegmentsEnd
<1>4. /\ SegmentTo(s, k, i) = o + (i - 1) * d + d - 1 /\ SegmentFrom(s, k, i) = o + (i - 1) * d
      /\ SegmentTo(s, m, j) = o2 + (j - 1) * d2 + d2 - 1 /\ SegmentFrom(s, m, j) = o2 + (j - 1) * d2
  BY Zenon DEF SegmentTo, SegmentFrom
<1> DEFINE from == o + (i - 1) * d
           from2 == o2 + (j - 1) * d2
           end == o + e * d
           end2 == o2 + e2 * d2
<1>5. from \in Nat /\ from + d - 1 < end
  <2> HIDE DEF d, o, e
  <2>1. e + 1 \in i + 1 .. e + 1 /\ (e + 1) - 1 = e /\ i \in 1 .. e
    BY <1>1 DEF e
  <2>2. /\ o + (i - 1) * d \in Nat
        /\ o + (i - 1) * d + d - 1 < o + ((e + 1) - 1) * d
    BY <1>1, <1>2, <2>1, SegmentsFollow
  <2> QED
    BY <2>1, <2>2
<1>6. from2 \in Nat /\ from2 + d2 - 1 < end2
  <2> HIDE DEF d2, o2, e2
  <2>1. e2 + 1 \in j + 1 .. e2 + 1 /\ (e2 + 1) - 1 = e2 /\ j \in 1 .. e2
    BY <1>1 DEF e2
  <2>2. /\ o2 + (j - 1) * d2 \in Nat
        /\ o2 + (j - 1) * d2 + d2 - 1 < o2 + ((e2 + 1) - 1) * d2
    BY <1>1, <1>2, <2>1, SegmentsFollow
  <2> QED
    BY <2>1, <2>2
<1>7. SegmentTo(s, k, i) = from + d - 1 /\ SegmentFrom(s, k, i) = from /\ SegmentTo(s, m, j) = from2 + d2 - 1
  BY <1>4
<1>8. end <= z /\ end2 <= z /\ \A p \in m + 1 .. n : end2 <= s.network[p].offset
  BY <1>2, <1>3, Zenon
<1>9. end \in Int /\ end2 \in Int
  <2> HIDE DEF d, o, e, d2, o2, e2
  <2> QED
    BY <1>1, <1>2
<1>10. k = m => o = o2 /\ d = d2 /\ e = e2
  OBVIOUS
<1>11. ASSUME k = m, i > j PROVE from2 + d2 - 1 < from
  <2>1. o = o2 /\ d = d2 /\ e = e2
    BY <1>11
  <2>2. j \in 1 .. e /\ i \in 1 .. e
    BY <1>11
  <2> HIDE DEF d, o, e, d2, o2, e2
  <2>3. i \in j + 1 .. e + 1
    BY <1>1, <1>11, <2>2
  <2>4. o + (j - 1) * d + d - 1 < o + (i - 1) * d
    BY <1>1, <1>2, <2>2, <2>3, SegmentsFollow
  <2> QED
    BY <2>1, <2>4
<1>12. k > m => end2 <= o
  <2>1. k > m => k \in m + 1 .. n
    <3> HIDE DEF n
    <3> QED
      BY <1>1 DEF n
  <2> QED
    BY <1>8, <2>1
<1>13. o <= from
  <2>1. (i - 1) * d \in Nat
    <3>1. i - 1 \in Nat
      BY <1>1
    <3> HIDE DEF d
    <3> QED
      BY <1>2, <3>1
  <2> DEFINE x == (i - 1) * d
  <2> HIDE DEF d, o, x
  <2>2. o <= o + x
    BY <1>2, <2>1 DEF x
  <2> QED
    BY <2>2 DEF x
<1> HIDE DEF from, from2, end, end2, o, o2, d, d2, e, e2, z, n
<1>14. from + d - 1 < z
  BY <1>2, <1>5, <1>8, <1>9
<1>15. from <= from2 + d2 - 1 => k <= m /\ (k = m => i <= j)
  <2>1. k \in Nat /\ m \in Nat /\ i \in Nat /\ j \in Nat
    OBVIOUS
  <2>2. ASSUME from <= from2 + d2 - 1, k > m PROVE FALSE
    BY <1>2, <1>5, <1>6, <1>9, <1>12, <1>13, <2>2
  <2>3. ASSUME from <= from2 + d2 - 1, k = m, i > j PROVE FALSE
    BY <1>2, <1>5, <1>6, <1>11, <2>3
  <2> QED
    BY <2>1, <2>2, <2>3
<1> QED
  BY <1>7, <1>14, <1>15 DEF z

\* a is an addition of function i of space k.
IsAdditionOf(s, X, V, a, k, i) ==
  /\ a.space = k /\ a.base = i - 1 /\ a.base + 1 = i
  /\ a.from = SegmentFrom(s, k, i) /\ a.to = SegmentTo(s, k, i)
  /\ X[k][i].plain => \E v \in V[k] : v.base = a.base /\ v.of = a.of /\ v.weight = a.weight

\* An addition to the layer goes to the segment of its function, with the weight
\* of its value.
LEMMA AdditionFits ==
  ASSUME HashIsNumber, NEW s, NEW X, IsSound(s, X), NEW text, IsText(text),
         NEW V, NEW st \in {"concat", "done"}, NEW l, NEW m, VectorsStand(X, text, V, st, l, m),
         NEW A, AddedFrom(s, V, A, Len(X)), NEW a \in A
  PROVE  \E k \in 1 .. Len(X) : \E i \in 1 .. Len(X[k]) : IsAdditionOf(s, X, V, a, k, i)
<1>1. PICK k \in 1 .. Len(X) : \E v \in V[k] : a = AdditionIn(s, k, v)
  BY Zenon DEF AddedFrom
<1>2. PICK v \in V[k] : a = AdditionIn(s, k, v)
  BY <1>1
<1>3. PICK i \in 1 .. Len(X[k]) : ValueFits(i, X[k][i], v) /\ FunctionSound(X[k][i], s.network[k].rows)
  BY ValueSound, Zenon
<1>4. /\ v.base = i - 1 /\ (X[k][i].plain => Multiplier(v) = v.weight)
  BY <1>3, Zenon DEF ValueFits
<1> DEFINE b == v.base
           begin == s.network[k].offset + b * s.network[k].dim
           end == begin + s.network[k].dim - 1
           mult == Multiplier(v)
<1>5. begin = SegmentFrom(s, k, i) /\ end = SegmentTo(s, k, i)
  BY <1>4, Zenon DEF SegmentFrom, SegmentTo
<1>6. a = [space |-> k, base |-> b, of |-> v.of, row |-> v.id, from |-> begin, to |-> end, weight |-> mult]
  BY <1>2, Zenon DEF AdditionIn
<1> HIDE DEF b, begin, end, mult
<1>7. a.space = k /\ a.base = b /\ a.of = v.of /\ a.from = begin /\ a.to = end /\ a.weight = mult
  BY <1>6
<1>8. b = i - 1 /\ b + 1 = i
  <2>1. b = i - 1
    BY <1>4 DEF b
  <2>2. i \in Int
    OBVIOUS
  <2> QED
    BY <2>1, <2>2
<1>9. X[k][i].plain => v.weight = a.weight
  BY <1>4, <1>7, Zenon DEF mult
<1> QED
  BY <1>5, <1>7, <1>8, <1>9, Zenon DEF b, IsAdditionOf

\* Where the evaluation stands as it should, every row is added to its own
\* segment.
LEMMA StandingAddsOwnRows ==
  ASSUME HashIsNumber, SetupsParsed, EvaluationStands
  PROVE  AddsOwnRows
<1>1. stage # "crashed"
  BY DEF EvaluationStands, Evaluating, Concatenating
<1>2. CASE concat = {}
  BY <1>1, <1>2, Zenon DEF AddsOwnRows
<1>3. CASE concat # {}
  <2>1. stage \in {"concat", "done"}
    BY <1>3 DEF EvaluationStands, Evaluating, Concatenating
  <2>2. stage \notin {"parse", "ready"} /\ stage # "parse"
    BY <2>1
  <2>3. IsSound(setup, extractors) /\ setup \in Setups
    BY <2>2, SetupSound, Zenon DEF SetupsParsed
  <2>4. /\ sentence \in setup.texts
        /\ VectorsStand(extractors, sentence, features, stage, es, fi)
        /\ AddedFrom(setup, features, concat, Len(extractors))
    BY <2>2, Zenon DEF EvaluationStands
  <2>5. PICK s, X, text, V, st, l, m, A :
          /\ s = setup /\ X = extractors /\ text = sentence /\ V = features /\ st = stage
          /\ l = es /\ m = fi /\ A = concat
    OBVIOUS
  <2>6. IsText(text)
    BY <2>3, <2>4, <2>5, TextsAre, Zenon
  <2>7. \A a \in A : \E k \in 1 .. Len(X) : \E i \in 1 .. Len(X[k]) : IsAdditionOf(s, X, V, a, k, i)
    <3>1. /\ IsSound(s, X) /\ st \in {"concat", "done"} /\ VectorsStand(X, text, V, st, l, m)
          /\ AddedFrom(s, V, A, Len(X))
      BY <2>1, <2>3, <2>4, <2>5, Zenon
    <3> QED
      BY <2>6, <3>1, AdditionFits, Zenon
  <2>8. ASSUME NEW a \in A
        PROVE  /\ a.to < s.size
               /\ X[a.space][a.base + 1].plain =>
                    \E v \in V[a.space] : v.base = a.base /\ v.of = a.of /\ v.weight = a.weight
               /\ \A b \in A : a.from <= b.to /\ b.from <= a.to => a.space = b.space /\ a.base = b.base
    <3>0. PICK k \in 1 .. Len(X) : \E i \in 1 .. Len(X[k]) : IsAdditionOf(s, X, V, a, k, i)
      BY <2>7
    <3>1. PICK i \in 1 .. Len(X[k]) : IsAdditionOf(s, X, V, a, k, i)
      BY <3>0
    <3>2. s \in Setups /\ IsSound(s, X)
      BY <2>3, <2>5, Zenon
    <3>3. SegmentTo(s, k, i) < s.size
      BY <3>2, SegmentsApart, Zenon
    <3>4. ASSUME NEW b \in A, a.from <= b.to, b.from <= a.to PROVE a.space = b.space /\ a.base = b.base
      <4>0. PICK p \in 1 .. Len(X) : \E j \in 1 .. Len(X[p]) : IsAdditionOf(s, X, V, b, p, j)
        BY <2>7
      <4>1. PICK j \in 1 .. Len(X[p]) : IsAdditionOf(s, X, V, b, p, j)
        BY <4>0
      <4>2. k <= p /\ (k = p => i <= j)
        <5>1. SegmentFrom(s, k, i) <= SegmentTo(s, p, j) => k <= p /\ (k = p => i <= j)
          BY <3>2, SegmentsApart
        <5> QED
          BY <3>1, <3>4, <4>1, <5>1, Zenon DEF IsAdditionOf
      <4>3. p <= k /\ (p = k => j <= i)
        <5>1. SegmentFrom(s, p, j) <= SegmentTo(s, k, i) => p <= k /\ (p = k => j <= i)
          BY <3>2, SegmentsApart
        <5> QED
          BY <3>1, <3>4, <4>1, <5>1, Zenon DEF IsAdditionOf
      <4>4. k = p
        <5>1. k \in Int /\ p \in Int
          OBVIOUS
        <5> QED
          BY <4>2, <4>3, <5>1
      <4>5. i = j
        <5>1. i \in Int /\ j \in Int
          OBVIOUS
        <5> QED
          BY <4>2, <4>3, <4>4, <5>1
      <4> QED
        BY <3>1, <4>1, <4>4, <4>5, Zenon DEF IsAdditionOf
    <3> QED
      BY <3>1, <3>3, <3>4, Zenon DEF IsAdditionOf
  <2> QED
    BY <1>1, <2>5, <2>8, Zenon DEF AddsOwnRows
<1> QED
  BY <1>2, <1>3

\* Every value finds its row, and adds it to a segment that no other function
\* writes, with the weight that its function gave it as long as nobody named the
\* function or nested others in it, for every setup, if the hash of every n-gram
\* is a number.
THEOREM AddsRowsToOwnSegments ==
  ASSUME \A gram \in Seq(Nat) : Hash(gram) \in Nat
  PROVE  Spec => []AddsOwnRows
<1> DEFINE Inv == SetupsParsed /\ EvaluationStands
<1>0. HashIsNumber
  BY DEF HashIsNumber
<1>1. Init => Inv
  BY SetupsParsedInit, EvaluationInit
<1>2. Inv /\ [Next]_vars => Inv'
  BY <1>0, SetupsParsedStep, EvaluationStep
<1>3. Inv => AddsOwnRows
  BY <1>0, StandingAddsOwnRows
<1> QED
  BY <1>1, <1>2, <1>3, PTL DEF Spec

-----------------------------------------------------------------------------
(* Tokens *)

\* Characters a to b of the n characters of c are a token.
IsToken(c, n, a, b) ==
  /\ a \in 1 .. n + 1 /\ b \in 0 .. n /\ a <= b + 1
  /\ a = 1 \/ c[a - 1] = Space
  /\ b = n \/ c[b + 1] = Space
  /\ \A k \in a .. b : c[k] # Space

\* A token begins and ends here.
BeginsAt(c, n, a) == a \in 1 .. n + 1 /\ (a = 1 \/ c[a - 1] = Space)
EndsAt(c, n, b) == b \in 0 .. n /\ (b = n \/ c[b + 1] = Space)

\* There is a first end behind every place.
LEMMA FirstEnd ==
  ASSUME NEW c, NEW n \in Nat, NEW a \in 1 .. n + 1
  PROVE  \E b \in a - 1 .. n : EndsAt(c, n, b) /\ \A k \in a .. b : c[k] # Space
<1> DEFINE T == {b \in a - 1 .. n : b = n \/ c[b + 1] = Space}
<1>1. T \in SUBSET Nat /\ n \in T
  OBVIOUS
<1>2. PICK b \in T : \A y \in T : b <= y
  <2> HIDE DEF T
  <2>1. T # {}
    BY <1>1
  <2> QED
    BY <1>1, <2>1, LeastExists
<1>3. ASSUME NEW k \in a .. b, c[k] = Space PROVE FALSE
  <2>1. k - 1 \in a - 1 .. n /\ (k - 1) + 1 = k /\ k - 1 < b
    BY <1>2
  <2>2. k - 1 \in T
    BY <1>3, <2>1
  <2> HIDE DEF T
  <2>3. b <= k - 1 /\ b \in Nat
    BY <1>1, <1>2, <2>2
  <2> QED
    BY <2>1, <2>3
<1>4. b \in a - 1 .. n /\ EndsAt(c, n, b)
  BY <1>2 DEF EndsAt
<1> QED
  BY <1>3, <1>4

\* There is a last begin in front of every end.
LEMMA LastBegin ==
  ASSUME NEW c, NEW n \in Nat, NEW b, EndsAt(c, n, b)
  PROVE  \E a : IsToken(c, n, a, b)
<1> DEFINE T == {a \in 1 .. b + 1 : \A k \in a .. b : c[k] # Space}
<1>1. b \in 0 .. n /\ (b = n \/ c[b + 1] = Space)
  BY DEF EndsAt
<1>2. T \in SUBSET Nat /\ b + 1 \in T
  BY <1>1
<1>3. PICK a \in T : \A y \in T : a <= y
  <2> HIDE DEF T
  <2>1. T # {}
    BY <1>2
  <2> QED
    BY <1>2, <2>1, LeastExists
<1>4. ASSUME a # 1 PROVE c[a - 1] = Space
  <2>1. a \in 1 .. b + 1 /\ \A k \in a .. b : c[k] # Space
    BY <1>3
  <2>2. a - 1 \in 1 .. b + 1 /\ \A k \in a - 1 .. b : k = a - 1 \/ k \in a .. b
    BY <1>1, <1>4, <2>1
  <2>3. a - 1 \notin T
    <3>1. ~ (a <= a - 1)
      BY <2>1
    <3> HIDE DEF T
    <3> QED
      BY <1>3, <3>1
  <2> QED
    BY <2>1, <2>2, <2>3
<1>5. a \in 1 .. n + 1 /\ a <= b + 1 /\ \A k \in a .. b : c[k] # Space
  BY <1>1, <1>3
<1> QED
  BY <1>1, <1>4, <1>5 DEF IsToken

\* A token begins, and one ends, wherever one may, and every character that is
\* not a space is in one.
LEMMA TokensExist ==
  ASSUME NEW c, NEW n \in Nat
  PROVE  /\ \A a : BeginsAt(c, n, a) => \E b : IsToken(c, n, a, b)
         /\ \A b : EndsAt(c, n, b) => \E a : IsToken(c, n, a, b)
         /\ \A k \in 1 .. n : c[k] # Space => \E a, b : IsToken(c, n, a, b) /\ k \in a .. b
<1>1. ASSUME NEW a, BeginsAt(c, n, a) PROVE \E b : IsToken(c, n, a, b)
  <2>1. a \in 1 .. n + 1 /\ (a = 1 \/ c[a - 1] = Space)
    BY <1>1 DEF BeginsAt
  <2>2. PICK b \in a - 1 .. n : EndsAt(c, n, b) /\ \A k \in a .. b : c[k] # Space
    BY <2>1, FirstEnd
  <2>3. b \in 0 .. n /\ (b = n \/ c[b + 1] = Space) /\ a <= b + 1
    BY <2>1, <2>2 DEF EndsAt
  <2> QED
    BY <2>1, <2>2, <2>3 DEF IsToken
<1>2. ASSUME NEW b, EndsAt(c, n, b) PROVE \E a : IsToken(c, n, a, b)
  BY <1>2, LastBegin
<1>3. ASSUME NEW k \in 1 .. n, c[k] # Space PROVE \E a, b : IsToken(c, n, a, b) /\ k \in a .. b
  <2>1. k \in 1 .. n + 1
    OBVIOUS
  <2>2. PICK b \in k - 1 .. n : EndsAt(c, n, b) /\ \A i \in k .. b : c[i] # Space
    BY <2>1, FirstEnd
  <2>3. b # k - 1
    <3>1. k - 1 # n /\ (k - 1) + 1 = k
      OBVIOUS
    <3> QED
      BY <1>3, <2>2, <3>1 DEF EndsAt
  <2>4. PICK a : IsToken(c, n, a, b)
    BY <2>2, LastBegin
  <2>5. a \in 1 .. n + 1 /\ (a = 1 \/ c[a - 1] = Space)
    BY <2>4 DEF IsToken
  <2>6. a <= k
    <3>1. ASSUME a > k PROVE FALSE
      <4>1. a # 1 /\ a - 1 \in k .. b
        <5>1. a <= b + 1
          BY <2>4 DEF IsToken
        <5> QED
          BY <2>2, <2>5, <3>1, <5>1
      <4> QED
        BY <2>2, <2>5, <4>1
    <3> QED
      BY <2>5, <3>1
  <2>7. k \in a .. b
    BY <2>2, <2>3, <2>5, <2>6
  <2> QED
    BY <2>4, <2>7
<1> QED
  BY <1>1, <1>2, <1>3

\* Two tokens are the same, or a space is between them.
LEMMA TokensApart ==
  ASSUME NEW c, NEW n \in Nat, NEW a, NEW b, IsToken(c, n, a, b), NEW a2, NEW b2, IsToken(c, n, a2, b2)
  PROVE  \/ a = a2 /\ b = b2
         \/ b + 1 < a2 /\ c[a2 - 1] = Space
         \/ b2 + 1 < a /\ c[a - 1] = Space
<1>1. /\ a \in 1 .. n + 1 /\ b \in 0 .. n /\ a <= b + 1
      /\ a2 \in 1 .. n + 1 /\ b2 \in 0 .. n /\ a2 <= b2 + 1
      /\ a # 1 => c[a - 1] = Space
      /\ a2 # 1 => c[a2 - 1] = Space
      /\ b # n => c[b + 1] = Space
      /\ b2 # n => c[b2 + 1] = Space
      /\ \A k \in a .. b : c[k] # Space
      /\ \A k \in a2 .. b2 : c[k] # Space
  BY DEF IsToken
<1>2. CASE a < a2
  <2>1. a2 # 1 /\ a2 - 1 >= a
    BY <1>1, <1>2
  <2>2. a2 - 1 \notin a .. b
    BY <1>1, <2>1
  <2> QED
    BY <1>1, <2>1, <2>2
<1>3. CASE a2 < a
  <2>1. a # 1 /\ a - 1 >= a2
    BY <1>1, <1>3
  <2>2. a - 1 \notin a2 .. b2
    BY <1>1, <2>1
  <2> QED
    BY <1>1, <2>1, <2>2
<1>4. CASE a = a2
  <2>1. ASSUME b < b2 PROVE FALSE
    <3>1. b # n /\ b + 1 \in a2 .. b2
      BY <1>1, <1>4, <2>1
    <3> QED
      BY <1>1, <3>1
  <2>2. ASSUME b2 < b PROVE FALSE
    <3>1. b2 # n /\ b2 + 1 \in a .. b
      BY <1>1, <1>4, <2>2
    <3> QED
      BY <1>1, <3>1
  <2>3. b = b2
    BY <1>1, <2>1, <2>2
  <2> QED
    BY <1>4, <2>3
<1> QED
  BY <1>1, <1>2, <1>3, <1>4

-----------------------------------------------------------------------------
(* Windows *)

\* The words of cs: w[t] stands behind the first z[t] characters, words lie
\* apart, a space is behind each, and what is in none is a space.
IsWord(cs, w, z, t) ==
  /\ w[t] \in Seq(Nat) /\ z[t] \in Nat /\ z[t] + Len(w[t]) <= Len(cs)
  /\ \A q \in 1 .. Len(w[t]) : w[t][q] = cs[z[t] + q] /\ w[t][q] # Space
  /\ z[t] + Len(w[t]) < Len(cs) => cs[z[t] + Len(w[t]) + 1] = Space

AreApart(w, z, t, u) == t = u \/ z[t] + Len(w[t]) <= z[u] \/ z[u] + Len(w[u]) <= z[t]

IsInWord(w, z, t, p) == \E q \in 1 .. Len(w[t]) : p = z[t] + q

AreWords(cs, T, w, z) ==
  /\ cs \in Seq(Nat)
  /\ \A t \in T : IsWord(cs, w, z, t)
  /\ \A t, u \in T : AreApart(w, z, t, u)
  /\ \A p \in 1 .. Len(cs) : cs[p] # Space => \E t \in T : IsInWord(w, z, t, p)

\* The windows of n characters in words, and those without a space.
Windows(T, w, n) ==
  UNION {{<<t, q, SubSeq(w[t], q, q + n - 1)>> : q \in 1 .. Len(w[t]) - n + 1} : t \in T}

WindowAt(cs, n, p) == SubSeq(cs, p, p + n - 1)
Unspaced(cs, n) ==
  {p \in 1 .. Len(cs) - n + 1 : \A i \in DOMAIN WindowAt(cs, n, p) : WindowAt(cs, n, p)[i] # Space}

\* A window of a sequence.
LEMMA WindowIs ==
  ASSUME NEW n \in Nat \ {0}, NEW cs \in Seq(Nat), NEW p \in 1 .. Len(cs) - n + 1
  PROVE  /\ WindowAt(cs, n, p) \in Seq(Nat) /\ Len(WindowAt(cs, n, p)) = n
         /\ DOMAIN WindowAt(cs, n, p) = 1 .. n
         /\ \A i \in 1 .. n : WindowAt(cs, n, p)[i] = cs[p + i - 1]
<1> DEFINE l == Len(cs)
           e == p + n - 1
<1>1. l \in Nat /\ DOMAIN cs = 1 .. l
  OBVIOUS
<1>2. e \in Int /\ p \in Int /\ (p <= e) /\ e - p + 1 = n /\ \A i \in p .. e : i \in 1 .. l
  <2> HIDE DEF l
  <2>1. p \in 1 .. l - n + 1
    BY DEF l
  <2> QED
    BY <1>1, <2>1
<1> HIDE DEF e, l
<1>3. \A i \in p .. e : cs[i] \in Nat
  BY <1>1, <1>2
<1>4. /\ SubSeq(cs, p, e) \in Seq(Nat)
      /\ Len(SubSeq(cs, p, e)) = IF p <= e THEN e - p + 1 ELSE 0
      /\ \A i \in 1 .. e - p + 1 : SubSeq(cs, p, e)[i] = cs[p + i - 1]
  BY <1>2, <1>3, SubSeqProperties
<1> DEFINE g == SubSeq(cs, p, e)
<1>5. WindowAt(cs, n, p) = g
  BY DEF WindowAt, e
<1>6. g \in Seq(Nat) /\ Len(g) = n /\ \A i \in 1 .. n : g[i] = cs[p + i - 1]
  BY <1>2, <1>4
<1> HIDE DEF g
<1>7. DOMAIN g = 1 .. n
  BY <1>6
<1> QED
  BY <1>5, <1>6, <1>7

-----------------------------------------------------------------------------
(* As many windows as places *)

\* The places of B, with what is there by k, go with the places of U.
GoWith(B, k, U, v) ==
  /\ Cardinality(B) = Cardinality(U)
  /\ \A x : Cardinality({b \in B : k[b] = x}) = CountOf(v, U, x)
  /\ {k[b] : b \in B} = KeysOf(v, U)

IsMatch(m, B, k, U, v) ==
  /\ m \in [B -> U]
  /\ \A b, c \in B : m[b] = m[c] => b = c
  /\ \A p \in U : \E b \in B : m[b] = p
  /\ \A b \in B : k[b] = v[m[b]]

\* Sets that match are of one size.
LEMMA MatchOfSize ==
  ASSUME NEW B, NEW U, IsFiniteSet(U), NEW m \in [B -> U],
         \A b, c \in B : m[b] = m[c] => b = c,
         \A p \in U : \E b \in B : m[b] = p
  PROVE  Cardinality(B) = Cardinality(U)
<1>1. m \in Bijection(B, U)
  BY DEF Bijection, Injection, Surjection, IsInjective
<1>2. ExistsBijection(U, B)
  BY <1>1, Fun_ExistsBijSymmetric DEF ExistsBijection
<1> QED
  BY <1>2, FS_Bijection

\* Places that match hold the same.
LEMMA MatchGoes ==
  ASSUME NEW m, NEW B, NEW k, NEW U, NEW v, IsFiniteSet(U), IsMatch(m, B, k, U, v)
  PROVE  GoWith(B, k, U, v)
<1>1. /\ m \in [B -> U]
      /\ \A b, c \in B : m[b] = m[c] => b = c
      /\ \A p \in U : \E b \in B : m[b] = p
      /\ \A b \in B : k[b] = v[m[b]]
  BY DEF IsMatch
<1>2. Cardinality(B) = Cardinality(U)
  BY <1>1, MatchOfSize
<1>3. ASSUME NEW x PROVE Cardinality({b \in B : k[b] = x}) = CountOf(v, U, x)
  <2> DEFINE C == {b \in B : k[b] = x}
             D == {p \in U : v[p] = x}
             g == [b \in C |-> m[b]]
  <2>1. IsFiniteSet(D)
    <3>1. D \in SUBSET U
      OBVIOUS
    <3> QED
      BY <3>1, FS_Subset
  <2>2. \A b \in C : g[b] = m[b] /\ b \in B /\ m[b] \in D
    BY <1>1
  <2>3. g \in [C -> D]
    BY <2>2
  <2>4. \A b, c \in C : g[b] = g[c] => b = c
    BY <1>1, <2>2, Zenon
  <2>5. \A p \in D : \E b \in C : g[b] = p
    <3>1. ASSUME NEW p \in D PROVE \E b \in C : g[b] = p
      <4>1. p \in U /\ v[p] = x
        OBVIOUS
      <4>2. PICK b \in B : m[b] = p
        BY <1>1, <4>1
      <4>3. b \in C
        BY <1>1, <4>1, <4>2
      <4> QED
        BY <2>2, <4>2, <4>3
    <3> QED
      BY <3>1
  <2> HIDE DEF C, D, g
  <2>6. Cardinality(C) = Cardinality(D)
    BY <2>1, <2>3, <2>4, <2>5, MatchOfSize
  <2> QED
    BY <2>6 DEF C, D, CountOf
<1>4. {k[b] : b \in B} = KeysOf(v, U)
  <2>1. \A b \in B : k[b] \in KeysOf(v, U)
    BY <1>1 DEF KeysOf
  <2>2. ASSUME NEW p \in U PROVE \E b \in B : v[p] = k[b]
    <3>1. PICK b \in B : m[b] = p
      BY <1>1
    <3> QED
      BY <1>1, <3>1
  <2>3. \A x \in KeysOf(v, U) : \E p \in U : x = v[p]
    BY DEF KeysOf
  <2> QED
    BY <2>1, <2>2, <2>3
<1> QED
  BY <1>2, <1>3, <1>4 DEF GoWith

\* A window in a word is one without a space.
LEMMA WindowInWord ==
  ASSUME NEW n \in Nat \ {0}, NEW cs, NEW T, NEW w, NEW z, AreWords(cs, T, w, z),
         NEW t \in T, NEW q \in 1 .. Len(w[t]) - n + 1
  PROVE  /\ z[t] + q \in Unspaced(cs, n)
         /\ SubSeq(w[t], q, q + n - 1) = WindowAt(cs, n, z[t] + q)
<1> DEFINE d == w[t]
           l == Len(w[t])
           y == z[t]
           L == Len(cs)
           p == y + q
<1>1. /\ cs \in Seq(Nat) /\ d \in Seq(Nat) /\ y \in Nat /\ (y + l <= L)
      /\ \A r \in 1 .. l : d[r] = cs[y + r] /\ d[r] # Space
  BY DEF AreWords, IsWord
<1>2. l \in Nat /\ L \in Nat /\ q \in 1 .. l - n + 1
  BY <1>1
<1>3. /\ p \in 1 .. L - n + 1
      /\ \A i \in 1 .. n : q + i - 1 \in 1 .. l /\ p + i - 1 = y + (q + i - 1)
  <2> HIDE DEF l, L, y
  <2> QED
    BY <1>1, <1>2
<1>4. /\ WindowAt(d, n, q) \in Seq(Nat) /\ Len(WindowAt(d, n, q)) = n
      /\ DOMAIN WindowAt(d, n, q) = 1 .. n
      /\ \A i \in 1 .. n : WindowAt(d, n, q)[i] = d[q + i - 1]
  BY <1>1, WindowIs
<1>5. /\ WindowAt(cs, n, p) \in Seq(Nat) /\ Len(WindowAt(cs, n, p)) = n
      /\ DOMAIN WindowAt(cs, n, p) = 1 .. n
      /\ \A i \in 1 .. n : WindowAt(cs, n, p)[i] = cs[p + i - 1]
  <2> HIDE DEF p
  <2> QED
    BY <1>1, <1>3, WindowIs
<1> DEFINE g == WindowAt(d, n, q)
           h == WindowAt(cs, n, p)
<1>6. \A i \in 1 .. n : g[i] = h[i] /\ h[i] # Space
  <2> HIDE DEF g, h, p, y, l, d
  <2>1. ASSUME NEW i \in 1 .. n PROVE g[i] = h[i] /\ h[i] # Space
    <3>1. q + i - 1 \in 1 .. l /\ p + i - 1 = y + (q + i - 1)
      BY <1>3
    <3>2. d[q + i - 1] = cs[y + (q + i - 1)] /\ d[q + i - 1] # Space
      BY <1>1, <3>1
    <3>3. g[i] = d[q + i - 1] /\ h[i] = cs[p + i - 1]
      BY <1>4, <1>5 DEF g, h
    <3> QED
      BY <3>1, <3>2, <3>3, Zenon
  <2> QED
    BY <2>1
<1>7. g = h
  <2>1. g \in Seq(Nat) /\ h \in Seq(Nat) /\ Len(g) = n /\ Len(h) = n
    BY <1>4, <1>5
  <2> HIDE DEF g, h
  <2> QED
    BY <1>6, <2>1
<1>8. p \in Unspaced(cs, n)
  BY <1>3, <1>5, <1>6, Zenon DEF Unspaced
<1> QED
  BY <1>7, <1>8 DEF WindowAt

\* No two windows begin at one place.
FitsAt(w, n, t, q) == q \in 1 .. Len(w[t]) - n + 1

WindowsDiffer(T, w, z, n) ==
  \A t, u \in T : \A q, r :
    FitsAt(w, n, t, q) /\ FitsAt(w, n, u, r) /\ z[t] + q = z[u] + r => t = u /\ q = r

\* Windows in words do.
LEMMA WindowsApart ==
  ASSUME NEW n \in Nat \ {0}, NEW cs, NEW T, NEW w, NEW z, AreWords(cs, T, w, z)
  PROVE  WindowsDiffer(T, w, z, n)
<1> SUFFICES ASSUME NEW t \in T, NEW u \in T, NEW q, FitsAt(w, n, t, q),
                    NEW r, FitsAt(w, n, u, r), z[t] + q = z[u] + r
             PROVE  t = u /\ q = r
  BY DEF WindowsDiffer
<1>0. q \in 1 .. Len(w[t]) - n + 1 /\ r \in 1 .. Len(w[u]) - n + 1
  BY DEF FitsAt
<1> DEFINE l == Len(w[t])
           m == Len(w[u])
           y == z[t]
           x == z[u]
<1>1. y \in Nat /\ x \in Nat /\ w[t] \in Seq(Nat) /\ w[u] \in Seq(Nat)
  BY Zenon DEF AreWords, IsWord
<1>2. l \in Nat /\ m \in Nat /\ q \in 1 .. l - n + 1 /\ r \in 1 .. m - n + 1 /\ y + q = x + r
  <2>1. l \in Nat /\ m \in Nat
    BY <1>1
  <2> HIDE DEF l, m
  <2>2. q \in 1 .. l - n + 1 /\ r \in 1 .. m - n + 1
    BY <1>0, Zenon DEF l, m
  <2> QED
    BY <2>1, <2>2, Zenon
<1>3. t = u \/ y + l <= x \/ x + m <= y
  BY Zenon DEF AreWords, AreApart
<1>4. t = u
  <2> HIDE DEF l, m, x, y
  <2>1. ~ (y + l <= x)
    BY <1>1, <1>2
  <2>2. ~ (x + m <= y)
    BY <1>1, <1>2
  <2> QED
    BY <1>3, <2>1, <2>2
<1>5. y = x
  BY <1>4
<1> HIDE DEF l, m, x, y
<1>6. q = r
  BY <1>1, <1>2, <1>5
<1> QED
  BY <1>4, <1>6

\* A window without a space is in a word.
LEMMA UnspacedInWord ==
  ASSUME NEW n \in Nat \ {0}, NEW cs, NEW T, NEW w, NEW z, AreWords(cs, T, w, z),
         NEW p \in Unspaced(cs, n)
  PROVE  \E t \in T : \E q \in 1 .. Len(w[t]) - n + 1 : p = z[t] + q
<1> DEFINE L == Len(cs)
<1>1. cs \in Seq(Nat) /\ p \in 1 .. L - n + 1
  BY Zenon DEF AreWords, Unspaced
<1>2. L \in Nat
  BY <1>1
<1>3. \A i \in 1 .. n : cs[p + i - 1] # Space
  <2>1. /\ DOMAIN WindowAt(cs, n, p) = 1 .. n
        /\ \A i \in 1 .. n : WindowAt(cs, n, p)[i] = cs[p + i - 1]
    BY <1>1, WindowIs
  <2>2. \A i \in DOMAIN WindowAt(cs, n, p) : WindowAt(cs, n, p)[i] # Space
    BY Zenon DEF Unspaced
  <2> QED
    BY <2>1, <2>2, Zenon
<1>4. cs[p] # Space /\ p \in 1 .. L
  <2> HIDE DEF L
  <2>1. 1 \in 1 .. n /\ p + 1 - 1 = p /\ p \in 1 .. L
    BY <1>1, <1>2
  <2> QED
    BY <1>3, <2>1, Zenon
<1>5. PICK t \in T : IsInWord(w, z, t, p)
  BY <1>4, Zenon DEF AreWords
<1>6. PICK q \in 1 .. Len(w[t]) : p = z[t] + q
  BY <1>5, Zenon DEF IsInWord
<1> DEFINE l == Len(w[t])
           y == z[t]
<1>7. /\ w[t] \in Seq(Nat) /\ y \in Nat
      /\ y + l < L => cs[y + l + 1] = Space
  BY Zenon DEF AreWords, IsWord
<1>8. l \in Nat /\ q \in 1 .. l /\ p = y + q
  BY <1>6, <1>7
<1>9. q <= l - n + 1
  <2> HIDE DEF l, y, L
  <2>1. ASSUME q > l - n + 1 PROVE FALSE
    <3> DEFINE i == y + l + 2 - p
    <3>1. i \in 1 .. n /\ p + i - 1 = y + l + 1 /\ y + l < L
      BY <1>1, <1>2, <1>7, <1>8, <2>1
    <3> HIDE DEF i
    <3>2. cs[p + i - 1] # Space /\ cs[y + l + 1] = Space
      BY <1>3, <1>7, <3>1
    <3> QED
      BY <3>1, <3>2, Zenon
  <2> QED
    BY <1>8, <2>1
<1>10. q \in 1 .. l - n + 1
  <2> HIDE DEF l, y, L
  <2> QED
    BY <1>8, <1>9
<1> QED
  BY <1>6, <1>10

\* Windows in words go with the windows without a space.
LEMMA WindowsGo ==
  ASSUME NEW n \in Nat \ {0}, NEW cs, NEW T, NEW w, NEW z, AreWords(cs, T, w, z),
         NEW v, \A p \in 1 .. Len(cs) - n + 1 : v[p] = WindowAt(cs, n, p)
  PROVE  GoWith(Windows(T, w, n), [b \in Windows(T, w, n) |-> b[3]], Unspaced(cs, n), v)
<1> DEFINE B == Windows(T, w, n)
           U == Unspaced(cs, n)
           m == [b \in B |-> z[b[1]] + b[2]]
           k == [b \in B |-> b[3]]
<1>0. WindowsDiffer(T, w, z, n)
  BY WindowsApart, Zenon
<1>1. ASSUME NEW b \in B
      PROVE  \E t \in T : \E q \in 1 .. Len(w[t]) - n + 1 : b = <<t, q, SubSeq(w[t], q, q + n - 1)>>
  BY Zenon DEF Windows
<1>2. ASSUME NEW b \in B
      PROVE  m[b] \in U /\ k[b] = v[m[b]]
  <2>0. PICK t \in T : \E q \in 1 .. Len(w[t]) - n + 1 : b = <<t, q, SubSeq(w[t], q, q + n - 1)>>
    BY <1>1
  <2>1. PICK q \in 1 .. Len(w[t]) - n + 1 : b = <<t, q, SubSeq(w[t], q, q + n - 1)>>
    BY <2>0
  <2>2. m[b] = z[t] + q /\ k[b] = SubSeq(w[t], q, q + n - 1)
    <3> DEFINE g == SubSeq(w[t], q, q + n - 1)
    <3> HIDE DEF g
    <3>1. b = <<t, q, g>>
      BY <2>1 DEF g
    <3>2. b[1] = t /\ b[2] = q /\ b[3] = g
      BY <3>1
    <3>3. m[b] = z[b[1]] + b[2] /\ k[b] = b[3]
      BY Zenon
    <3> QED
      BY <3>2, <3>3, Zenon DEF g
  <2>3. /\ z[t] + q \in U
        /\ SubSeq(w[t], q, q + n - 1) = WindowAt(cs, n, z[t] + q)
    BY WindowInWord
  <2>4. z[t] + q \in 1 .. Len(cs) - n + 1
    BY <2>3, Zenon DEF Unspaced
  <2> QED
    BY <2>2, <2>3, <2>4, Zenon
<1>3. ASSUME NEW b \in B, NEW c \in B, m[b] = m[c] PROVE b = c
  <2>0. PICK t \in T : \E q \in 1 .. Len(w[t]) - n + 1 : b = <<t, q, SubSeq(w[t], q, q + n - 1)>>
    BY <1>1
  <2>1. PICK q \in 1 .. Len(w[t]) - n + 1 : b = <<t, q, SubSeq(w[t], q, q + n - 1)>>
    BY <2>0
  <2>2. PICK u \in T : \E r \in 1 .. Len(w[u]) - n + 1 : c = <<u, r, SubSeq(w[u], r, r + n - 1)>>
    BY <1>1
  <2>3. PICK r \in 1 .. Len(w[u]) - n + 1 : c = <<u, r, SubSeq(w[u], r, r + n - 1)>>
    BY <2>2
  <2>4. m[b] = z[t] + q /\ m[c] = z[u] + r
    <3> DEFINE g == SubSeq(w[t], q, q + n - 1)
               h == SubSeq(w[u], r, r + n - 1)
    <3> HIDE DEF g, h
    <3>1. b = <<t, q, g>> /\ c = <<u, r, h>>
      BY <2>1, <2>3 DEF g, h
    <3>2. b[1] = t /\ b[2] = q /\ c[1] = u /\ c[2] = r
      BY <3>1
    <3>3. m[b] = z[b[1]] + b[2] /\ m[c] = z[c[1]] + c[2]
      BY Zenon
    <3> QED
      BY <3>2, <3>3, Zenon
  <2>5. z[t] + q = z[u] + r
    BY <1>3, <2>4, Zenon
  <2>6. t = u /\ q = r
    <3>1. FitsAt(w, n, t, q) /\ FitsAt(w, n, u, r)
      BY Zenon DEF FitsAt
    <3> QED
      BY <1>0, <2>5, <3>1, Zenon DEF WindowsDiffer
  <2> QED
    BY <2>1, <2>3, <2>6, Zenon
<1>4. ASSUME NEW p \in U PROVE \E b \in B : m[b] = p
  <2>0. PICK t \in T : \E q \in 1 .. Len(w[t]) - n + 1 : p = z[t] + q
    BY UnspacedInWord
  <2>1. PICK q \in 1 .. Len(w[t]) - n + 1 : p = z[t] + q
    BY <2>0
  <2> DEFINE g == SubSeq(w[t], q, q + n - 1)
             b == <<t, q, g>>
  <2>2. b \in B
    <3>1. b \in {<<t, r, SubSeq(w[t], r, r + n - 1)>> : r \in 1 .. Len(w[t]) - n + 1}
      OBVIOUS
    <3> HIDE DEF b
    <3> QED
      BY <3>1, Zenon DEF Windows
  <2>3. b[1] = t /\ b[2] = q
    <3> HIDE DEF g
    <3> QED
      OBVIOUS
  <2>4. m[b] = z[b[1]] + b[2]
    <3> HIDE DEF b
    <3> QED
      BY <2>2, Zenon
  <2> HIDE DEF b
  <2> QED
    BY <2>1, <2>2, <2>3, <2>4, Zenon
<1>5. IsFiniteSet(U)
  <2>1. IsFiniteSet(1 .. Len(cs) - n + 1)
    <3>1. Len(cs) - n + 1 \in Int
      <4>1. cs \in Seq(Nat)
        BY Zenon DEF AreWords
      <4> QED
        BY <4>1
    <3> QED
      BY <3>1, FS_Interval
  <2>2. U \in SUBSET (1 .. Len(cs) - n + 1)
    BY Zenon DEF Unspaced
  <2> QED
    BY <2>1, <2>2, FS_Subset
<1> HIDE DEF B, U, k
<1>6. m \in [B -> U]
  BY <1>2
<1> HIDE DEF m
<1>7. IsMatch(m, B, k, U, v)
  BY <1>2, <1>3, <1>4, <1>6, Zenon DEF IsMatch
<1>8. GoWith(B, k, U, v)
  BY <1>5, <1>7, MatchGoes, Zenon
<1> QED
  BY <1>8 DEF B, k, U

-----------------------------------------------------------------------------
(* The tokens of a text *)

\* The tokens are intervals between spaces.
LEMMA TokensAre ==
  ASSUME NEW text, Len(text) \in Nat
  PROVE  /\ \A t \in Tokens(text) : t = <<t[1], t[2]>> /\ IsToken(text, Len(text), t[1], t[2])
         /\ \A a, b : IsToken(text, Len(text), a, b) => <<a, b>> \in Tokens(text)
<1> DEFINE n == Len(text)
<1>1. ASSUME NEW t \in Tokens(text)
      PROVE  t = <<t[1], t[2]>> /\ IsToken(text, Len(text), t[1], t[2])
  <2>1. /\ t \in (1 .. n + 1) \X (0 .. n)
        /\ t[1] <= t[2] + 1
        /\ t[1] = 1 \/ text[t[1] - 1] = Space
        /\ t[2] = n \/ text[t[2] + 1] = Space
        /\ \A k \in t[1] .. t[2] : text[k] # Space
    BY Zenon DEF Tokens
  <2> HIDE DEF n
  <2>2. t = <<t[1], t[2]>> /\ t[1] \in 1 .. n + 1 /\ t[2] \in 0 .. n
    BY <2>1
  <2> QED
    BY <2>1, <2>2, Zenon DEF IsToken, n
<1>2. ASSUME NEW a, NEW b, IsToken(text, n, a, b) PROVE <<a, b>> \in Tokens(text)
  <2> DEFINE t == <<a, b>>
  <2>1. /\ a \in 1 .. n + 1 /\ b \in 0 .. n /\ a <= b + 1
        /\ a = 1 \/ text[a - 1] = Space
        /\ b = n \/ text[b + 1] = Space
        /\ \A k \in a .. b : text[k] # Space
    BY <1>2, Zenon DEF IsToken
  <2>2. t[1] = a /\ t[2] = b
    OBVIOUS
  <2>3. t \in (1 .. n + 1) \X (0 .. n)
    <3> HIDE DEF n
    <3> QED
      BY <2>1
  <2> HIDE DEF t
  <2>4. t \in Tokens(text)
    BY <2>1, <2>2, <2>3, Zenon DEF Tokens
  <2> QED
    BY <2>4 DEF t
<1> QED
  BY <1>1, <1>2

\* What a function makes of a token, and the n-grams it may see there.
TokenOf(f, text, t) ==
  IF f.include_terminators THEN <<Caret>> \o SubSeq(text, t[1], t[2]) \o <<Dollar>>
  ELSE SubSeq(text, t[1], t[2])

WordsOf(f, text) == [t \in Tokens(text) |-> TokenOf(f, text, t)]

\* The places of n-grams are windows in these words.
LEMMA PlacesAre ==
  ASSUME NEW f, NEW text
  PROVE  Places(text, f) = Windows(Tokens(text), WordsOf(f, text), f.size)
<1> DEFINE W == WordsOf(f, text)
<1>1. \A t \in Tokens(text) : W[t] = TokenOf(f, text, t)
  BY DEF WordsOf
<1>2. Windows(Tokens(text), W, f.size) =
        UNION {{<<t, q, SubSeq(TokenOf(f, text, t), q, q + f.size - 1)>>
                 : q \in 1 .. Len(TokenOf(f, text, t)) - f.size + 1} : t \in Tokens(text)}
  <2> DEFINE A(t) == {<<t, q, SubSeq(W[t], q, q + f.size - 1)>> : q \in 1 .. Len(W[t]) - f.size + 1}
             B(t) == {<<t, q, SubSeq(TokenOf(f, text, t), q, q + f.size - 1)>>
                        : q \in 1 .. Len(TokenOf(f, text, t)) - f.size + 1}
             T == Tokens(text)
  <2>1. \A t \in T : A(t) = B(t)
    <3> HIDE DEF W
    <3> QED
      BY <1>1, Zenon
  <2>2. UNION {A(t) : t \in T} = UNION {B(t) : t \in T}
    <3> HIDE DEF A, B, T, W
    <3> QED
      BY <2>1
  <2>3. Windows(T, W, f.size) = UNION {A(t) : t \in T}
    BY Zenon DEF Windows
  <2> QED
    BY <2>2, <2>3, Zenon
<1> QED
  BY <1>2, Zenon DEF Places, TokenOf

\* A token of a text.
LEMMA TokenIs ==
  ASSUME NEW text, text \in Seq(Nat), NEW a, NEW b, IsToken(text, Len(text), a, b)
  PROVE  /\ SubSeq(text, a, b) \in Seq(Nat) /\ Len(SubSeq(text, a, b)) = b - a + 1
         /\ \A q \in 1 .. b - a + 1 :
              SubSeq(text, a, b)[q] = text[a + q - 1] /\ text[a + q - 1] # Space
<1> DEFINE n == Len(text)
           g == SubSeq(text, a, b)
<1>1. /\ a \in 1 .. n + 1 /\ b \in 0 .. n /\ a <= b + 1
      /\ \A k \in a .. b : text[k] # Space
  BY Zenon DEF IsToken
<1>2. n \in Nat /\ DOMAIN text = 1 .. n
  OBVIOUS
<1>3. /\ a \in Int /\ b \in Int
      /\ \A k \in a .. b : k \in 1 .. n
      /\ \A q \in 1 .. b - a + 1 : a + q - 1 \in a .. b
      /\ (IF a <= b THEN b - a + 1 ELSE 0) = b - a + 1
  <2> HIDE DEF n
  <2> QED
    BY <1>1, <1>2
<1>4. \A k \in a .. b : text[k] \in Nat
  <2>1. \A k \in 1 .. n : text[k] \in Nat
    OBVIOUS
  <2> HIDE DEF n
  <2> QED
    BY <1>3, <2>1, Zenon
<1>5. /\ g \in Seq(Nat)
      /\ Len(g) = IF a <= b THEN b - a + 1 ELSE 0
      /\ \A q \in 1 .. b - a + 1 : g[q] = text[a + q - 1]
  BY <1>3, <1>4, SubSeqProperties
<1> HIDE DEF g
<1>6. Len(g) = b - a + 1
  BY <1>3, <1>5, Zenon
<1> QED
  BY <1>1, <1>3, <1>5, <1>6, Zenon DEF g

\* Without terminators the tokens of a text are its words.
LEMMA TokensAreWords ==
  ASSUME NEW text, text \in Seq(Nat), NEW f, ~ f.include_terminators
  PROVE  AreWords(text, Tokens(text), WordsOf(f, text), [t \in Tokens(text) |-> t[1] - 1])
<1> DEFINE n == Len(text)
           T == Tokens(text)
           w == WordsOf(f, text)
           z == [t \in T |-> t[1] - 1]
<1>1. n \in Nat
  OBVIOUS
<1>2. /\ \A t \in T : t = <<t[1], t[2]>> /\ IsToken(text, n, t[1], t[2])
      /\ \A a, b : IsToken(text, n, a, b) => <<a, b>> \in T
  BY <1>1, TokensAre
<1>3. \A t \in T : w[t] = SubSeq(text, t[1], t[2]) /\ z[t] = t[1] - 1
  BY Zenon DEF WordsOf, TokenOf
<1>4. ASSUME NEW t \in T
      PROVE  /\ t[1] \in 1 .. n + 1 /\ t[2] \in 0 .. n
             /\ w[t] \in Seq(Nat) /\ z[t] = t[1] - 1 /\ z[t] \in Nat
             /\ z[t] + Len(w[t]) = t[2] /\ Len(w[t]) = t[2] - t[1] + 1
             /\ \A q \in 1 .. Len(w[t]) : w[t][q] = text[z[t] + q] /\ w[t][q] # Space
             /\ t[2] = n \/ text[t[2] + 1] = Space
  <2> DEFINE a == t[1]
             b == t[2]
             g == w[t]
             y == z[t]
  <2>1. IsToken(text, n, a, b)
    BY <1>2, Zenon
  <2>2. g = SubSeq(text, a, b) /\ y = a - 1
    BY <1>3, Zenon
  <2>3. /\ SubSeq(text, a, b) \in Seq(Nat) /\ Len(SubSeq(text, a, b)) = b - a + 1
        /\ \A q \in 1 .. b - a + 1 :
             SubSeq(text, a, b)[q] = text[a + q - 1] /\ text[a + q - 1] # Space
    BY <2>1, TokenIs, SMTT(30)
  <2>4. /\ a \in 1 .. n + 1 /\ b \in 0 .. n
        /\ b = n \/ text[b + 1] = Space
    BY <2>1, Zenon DEF IsToken
  <2> HIDE DEF a, b, g, y, n, z
  <2>5. /\ g \in Seq(Nat) /\ Len(g) = b - a + 1
        /\ \A q \in 1 .. b - a + 1 : g[q] = text[a + q - 1] /\ text[a + q - 1] # Space
    BY <2>2, <2>3, Zenon
  <2> DEFINE l == Len(g)
  <2>6. l = b - a + 1
    BY <2>5
  <2> HIDE DEF l
  <2>7. /\ y \in Nat /\ y + l = b /\ \A q \in 1 .. l : q \in 1 .. b - a + 1 /\ a + q - 1 = y + q
    BY <1>1, <2>2, <2>4, <2>6
  <2>8. \A q \in 1 .. l : g[q] = text[y + q] /\ g[q] # Space
    <3>1. ASSUME NEW q \in 1 .. l PROVE g[q] = text[y + q] /\ g[q] # Space
      <4>1. q \in 1 .. b - a + 1 /\ a + q - 1 = y + q
        BY <2>7
      <4>2. g[q] = text[a + q - 1] /\ text[a + q - 1] # Space
        BY <2>5, <4>1
      <4> QED
        BY <4>1, <4>2, Zenon
    <3> QED
      BY <3>1
  <2> QED
    BY <2>2, <2>4, <2>5, <2>6, <2>7, <2>8, Zenon DEF a, b, g, y, n, l
<1>5. ASSUME NEW t \in T PROVE IsWord(text, w, z, t)
  <2> DEFINE l == Len(w[t])
             y == z[t]
             b == t[2]
  <2>1. /\ b \in 0 .. n /\ w[t] \in Seq(Nat) /\ y \in Nat /\ y + l = b
        /\ \A q \in 1 .. l : w[t][q] = text[y + q] /\ w[t][q] # Space
        /\ b = n \/ text[b + 1] = Space
    BY <1>4, Zenon
  <2> HIDE DEF l, y, b, n, w, z
  <2>2. /\ y + l <= n
        /\ (y + l < n) => text[y + l + 1] = Space
    BY <1>1, <2>1
  <2> QED
    BY <2>1, <2>2, Zenon DEF IsWord, n, l, y
<1>6. ASSUME NEW t \in T, NEW u \in T PROVE AreApart(w, z, t, u)
  <2> DEFINE a == t[1]
             b == t[2]
             a2 == u[1]
             b2 == u[2]
             e1 == z[t] + Len(w[t])
             e2 == z[u] + Len(w[u])
             y1 == z[t]
             y2 == z[u]
  <2>1. /\ t = <<a, b>> /\ IsToken(text, n, a, b) /\ u = <<a2, b2>> /\ IsToken(text, n, a2, b2)
    BY <1>2, Zenon
  <2>2. \/ a = a2 /\ b = b2
        \/ b + 1 < a2 /\ text[a2 - 1] = Space
        \/ b2 + 1 < a /\ text[a - 1] = Space
    <3>1. IsToken(text, n, a, b) /\ IsToken(text, n, a2, b2)
      BY <2>1, Zenon
    <3> HIDE DEF n, T, w, z, a, b, a2, b2, e1, e2, y1, y2
    <3> QED
      BY <1>1, <3>1, TokensApart
  <2>3. /\ a \in 1 .. n + 1 /\ b \in 0 .. n /\ y1 = a - 1 /\ e1 = b
        /\ a2 \in 1 .. n + 1 /\ b2 \in 0 .. n /\ y2 = a2 - 1 /\ e2 = b2
    BY <1>4, Zenon
  <2> HIDE DEF a, b, a2, b2, e1, e2, y1, y2, n, z, w
  <2>4. t = u \/ e1 <= y2 \/ e2 <= y1
    <3>1. CASE a = a2 /\ b = b2
      BY <2>1, <3>1
    <3>2. CASE b + 1 < a2
      BY <1>1, <2>3, <3>2
    <3>3. CASE b2 + 1 < a
      BY <1>1, <2>3, <3>3
    <3> QED
      BY <2>2, <3>1, <3>2, <3>3, Zenon
  <2> QED
    BY <2>4, Zenon DEF AreApart, e1, e2, y1, y2
<1>7. ASSUME NEW p \in 1 .. n, text[p] # Space PROVE \E t \in T : IsInWord(w, z, t, p)
  <2>1. \A k \in 1 .. n : text[k] # Space => \E a, b : IsToken(text, n, a, b) /\ k \in a .. b
    BY <1>1, TokensExist
  <2>2. PICK a, b : IsToken(text, n, a, b) /\ p \in a .. b
    BY <1>7, <2>1, Zenon
  <2> DEFINE t == <<a, b>>
  <2>3. t \in T /\ t[1] = a /\ t[2] = b
    BY <1>2, <2>2
  <2> HIDE DEF t, T, w, z
  <2>4. /\ a \in 1 .. n + 1 /\ b \in 0 .. n /\ z[t] = a - 1 /\ Len(w[t]) = b - a + 1
    BY <1>4, <2>3, Zenon
  <2> HIDE DEF n
  <2> DEFINE q == p - a + 1
  <2>5. q \in 1 .. b - a + 1 /\ p = (a - 1) + q
    BY <1>1, <2>2, <2>4
  <2> HIDE DEF q
  <2>6. q \in 1 .. Len(w[t]) /\ p = z[t] + q
    BY <2>4, <2>5, Zenon
  <2> QED
    BY <2>3, <2>6, Zenon DEF IsInWord
<1> QED
  BY <1>5, <1>6, <1>7, Zenon DEF AreWords

-----------------------------------------------------------------------------
(* Tokens between terminators *)

\* cs is text with terminators: o says how much is in front of every character.
HasMarks(cs, text, o, n) ==
  /\ o \in [1 .. n + 1 -> Nat] /\ o[1] = 0 /\ Len(cs) = o[n + 1] + 2
  /\ cs[1] = Caret /\ cs[o[n + 1] + 2] = Dollar

HasCharacters(cs, text, o, n) ==
  /\ \A k \in 1 .. n : text[k] # Space => o[k + 1] = o[k] + 1 /\ cs[o[k] + 2] = text[k]
  /\ \A k \in 1 .. n : text[k] = Space =>
       /\ o[k + 1] = o[k] + 3
       /\ cs[o[k] + 2] = Dollar /\ cs[o[k] + 3] = Space /\ cs[o[k] + 4] = Caret

IsMarked(cs, text, o) ==
  /\ cs \in Seq(Nat) /\ HasMarks(cs, text, o, Len(text)) /\ HasCharacters(cs, text, o, Len(text))

\* A sequence between two elements.
LEMMA BetweenTwo ==
  ASSUME NEW S, NEW x \in S, NEW y \in S, NEW s \in Seq(S)
  PROVE  /\ <<x>> \o s \o <<y>> \in Seq(S) /\ Len(s) \in Nat
         /\ Len(<<x>> \o s \o <<y>>) = Len(s) + 2
         /\ (<<x>> \o s \o <<y>>)[1] = x /\ (<<x>> \o s \o <<y>>)[Len(s) + 2] = y
         /\ \A i \in 1 .. Len(s) : (<<x>> \o s \o <<y>>)[i + 1] = s[i]
OBVIOUS

\* Terminators puts them there.
LEMMA TerminatorsMark ==
  ASSUME NEW text, text \in Seq(Nat)
  PROVE  \E o : IsMarked(Terminators(text), text, o)
<1> DEFINE n == Len(text)
           P == TextParts(text)
           Q == FlattenSeq(P)
           cs == Terminators(text)
<1>1. n \in Nat /\ DOMAIN text = 1 .. n
  OBVIOUS
<1>2. P \in Parts(Nat) /\ Len(P) = n
  BY TextPartsTyped
<1>3. Q \in Seq(Nat) /\ \E o : Offsets(o, P) /\ HoldsParts(Q, o, P)
  BY <1>2, PartsAre, Zenon
<1>4. PICK o : Offsets(o, P) /\ HoldsParts(Q, o, P)
  BY <1>3
<1>5. cs = <<Caret>> \o Q \o <<Dollar>>
  BY Zenon DEF Terminators, TextParts
<1>6. Caret \in Nat /\ Dollar \in Nat
  BY DEF Caret, Dollar
<1>7. \A k \in 1 .. n : P[k] = IF text[k] = Space THEN <<Dollar, Space, Caret>> ELSE <<text[k]>>
  BY <1>1, Zenon DEF TextParts
<1> HIDE DEF P, Q, cs, n
<1>8. /\ cs \in Seq(Nat) /\ Len(Q) \in Nat /\ Len(cs) = Len(Q) + 2
      /\ cs[1] = Caret /\ cs[Len(Q) + 2] = Dollar
      /\ \A i \in 1 .. Len(Q) : cs[i + 1] = Q[i]
  <2> DEFINE D == <<Caret>> \o Q \o <<Dollar>>
  <2>1. /\ D \in Seq(Nat) /\ Len(Q) \in Nat /\ Len(D) = Len(Q) + 2
        /\ D[1] = Caret /\ D[Len(Q) + 2] = Dollar
        /\ \A i \in 1 .. Len(Q) : D[i + 1] = Q[i]
    BY <1>3, <1>6, BetweenTwo
  <2> HIDE DEF D
  <2>2. cs = D
    BY <1>5 DEF D
  <2> QED
    BY <2>1, <2>2, Zenon
<1>9. /\ o \in [1 .. n + 1 -> Nat] /\ o[1] = 0
      /\ \A k \in 1 .. n : o[k + 1] = o[k] + Len(P[k])
      /\ Len(Q) = o[n + 1]
      /\ \A k \in 1 .. n : \A i \in 1 .. Len(P[k]) : Q[o[k] + i] = P[k][i]
  BY <1>2, <1>4, Zenon DEF Offsets, HoldsParts
<1>10. HasMarks(cs, text, o, n)
  BY <1>8, <1>9, Zenon DEF HasMarks
<1>11. \A k \in 1 .. n : o[k] \in Nat /\ o[k + 1] \in Nat /\ o[k + 1] <= Len(Q)
  <2>1. Offsets(o, P) /\ Len(P) \in Nat /\ \A k \in 1 .. Len(P) : Len(P[k]) \in Nat
    BY <1>1, <1>2, <1>4, PartsAre, Zenon
  <2>2. \A k \in 1 .. Len(P) + 1 : o[k] \in Nat /\ o[k] <= o[Len(P) + 1]
    BY <2>1, OffsetsGrow
  <2>3. \A k \in 1 .. n + 1 : o[k] \in Nat /\ o[k] <= Len(Q)
    BY <1>2, <1>9, <2>2, Zenon
  <2>4. \A k \in 1 .. n : k \in 1 .. n + 1 /\ k + 1 \in 1 .. n + 1
    BY <1>1
  <2> QED
    BY <2>3, <2>4, Zenon
<1>12. ASSUME NEW k \in 1 .. n, text[k] # Space PROVE o[k + 1] = o[k] + 1 /\ cs[o[k] + 2] = text[k]
  <2> DEFINE x == text[k]
             y == o[k]
             e == o[k + 1]
             L == Len(Q)
  <2>1. P[k] = <<x>>
    BY <1>7, <1>12, Zenon
  <2>2. Len(<<x>>) = 1 /\ <<x>>[1] = x
    OBVIOUS
  <2>3. e = y + 1 /\ (1 \in 1 .. 1 => Q[y + 1] = x)
    BY <1>9, <2>1, <2>2, Zenon
  <2>4. y \in Nat /\ e \in Nat /\ L \in Nat /\ (e <= L)
    BY <1>8, <1>11, Zenon
  <2> HIDE DEF x, y, e, L
  <2>5. y + 1 \in 1 .. L /\ y + 2 = (y + 1) + 1 /\ 1 \in 1 .. 1
    BY <2>3, <2>4
  <2>6. cs[(y + 1) + 1] = Q[y + 1]
    BY <1>8, <2>5, Zenon DEF L
  <2> QED
    BY <2>3, <2>5, <2>6, Zenon DEF x, y, e
<1>13. ASSUME NEW k \in 1 .. n, text[k] = Space
       PROVE  /\ o[k + 1] = o[k] + 3
              /\ cs[o[k] + 2] = Dollar /\ cs[o[k] + 3] = Space /\ cs[o[k] + 4] = Caret
  <2> DEFINE y == o[k]
             e == o[k + 1]
             L == Len(Q)
             x == <<Dollar, Space, Caret>>
  <2>1. P[k] = x
    BY <1>7, <1>13, Zenon
  <2>2. Len(x) = 3 /\ x[1] = Dollar /\ x[2] = Space /\ x[3] = Caret
    OBVIOUS
  <2>3. /\ 1 \in 1 .. 3 /\ 2 \in 1 .. 3 /\ 3 \in 1 .. 3
    OBVIOUS
  <2> HIDE DEF x
  <2>4. e = y + 3 /\ Q[y + 1] = Dollar /\ Q[y + 2] = Space /\ Q[y + 3] = Caret
    BY <1>9, <2>1, <2>2, <2>3, Zenon
  <2>5. y \in Nat /\ e \in Nat /\ L \in Nat /\ (e <= L)
    BY <1>8, <1>11, Zenon
  <2> HIDE DEF y, e, L
  <2>6. /\ y + 1 \in 1 .. L /\ y + 2 = (y + 1) + 1
        /\ y + 2 \in 1 .. L /\ y + 3 = (y + 2) + 1
        /\ y + 3 \in 1 .. L /\ y + 4 = (y + 3) + 1
    BY <2>4, <2>5
  <2>7. cs[(y + 1) + 1] = Q[y + 1] /\ cs[(y + 2) + 1] = Q[y + 2] /\ cs[(y + 3) + 1] = Q[y + 3]
    BY <1>8, <2>6, Zenon DEF L
  <2> QED
    BY <2>4, <2>6, <2>7, Zenon DEF y, e
<1>14. HasCharacters(cs, text, o, n)
  BY <1>12, <1>13, Zenon DEF HasCharacters
<1> QED
  BY <1>8, <1>10, <1>14, Zenon DEF IsMarked, n, cs

\* Later characters have more in front of them.
MarksAscend(o, n) == \A i, j \in 1 .. n + 1 : i <= j => o[i] <= o[j]

\* The marks of a text's characters ascend.
LEMMA MarksGrow ==
  ASSUME NEW cs, NEW text, text \in Seq(Nat), NEW o, IsMarked(cs, text, o)
  PROVE  MarksAscend(o, Len(text))
<1> DEFINE n == Len(text)
<1>1. n \in Nat /\ o \in [1 .. n + 1 -> Nat]
  <2>1. n \in Nat
    OBVIOUS
  <2> QED
    BY <2>1, Zenon DEF IsMarked, HasMarks
<1>2. \A k \in 1 .. n : o[k + 1] = o[k] + 1 \/ o[k + 1] = o[k] + 3
  BY Zenon DEF IsMarked, HasCharacters
<1> HIDE DEF n
<1>3. ASSUME NEW i \in 1 .. n + 1 PROVE \A j \in i .. n + 1 : o[i] <= o[j]
  <2> DEFINE A == {j \in 1 .. n + 1 : o[i] <= o[j]}
  <2>1. i \in A
    <3>1. o[i] \in Nat
      BY <1>1
    <3> QED
      BY <3>1
  <2>2. ASSUME NEW j \in i .. (n + 1) - 1, j \in A PROVE j + 1 \in A
    <3>1. j \in 1 .. n /\ j \in 1 .. n + 1 /\ j + 1 \in 1 .. n + 1
      BY <1>1
    <3>2. o[i] \in Nat /\ o[j] \in Nat /\ (o[i] <= o[j])
      BY <1>1, <2>2, <3>1
    <3>3. o[j + 1] = o[j] + 1 \/ o[j + 1] = o[j] + 3
      BY <1>2, <3>1
    <3>4. o[i] <= o[j + 1]
      BY <3>2, <3>3
    <3> QED
      BY <3>1, <3>4
  <2>3. i \in Int /\ n + 1 \in Int
    BY <1>1
  <2> HIDE DEF A
  <2>4. \A j \in i .. n + 1 : j \in A
    BY <2>1, <2>2, <2>3, UpFrom
  <2> QED
    BY <2>4 DEF A
<1>4. \A i, j \in 1 .. n + 1 : i <= j => j \in i .. n + 1
  BY <1>1
<1>5. MarksAscend(o, n)
  BY <1>3, <1>4, Zenon DEF MarksAscend
<1> QED
  BY <1>5 DEF n

\* Every character is the first mark, the last, or one of those that stand for a
\* character of the text.
LEMMA MarksCover ==
  ASSUME NEW cs, NEW text, text \in Seq(Nat), NEW o, IsMarked(cs, text, o), NEW p \in 1 .. Len(cs)
  PROVE  p = 1 \/ p = Len(cs) \/ \E k \in 1 .. Len(text) : o[k] + 1 < p /\ p <= o[k + 1] + 1
<1> DEFINE n == Len(text)
           L == Len(cs)
           A == {k \in 1 .. n + 1 : p <= o[k] + 1}
<1>1. n \in Nat /\ o \in [1 .. n + 1 -> Nat] /\ o[1] = 0 /\ L = o[n + 1] + 2 /\ p \in 1 .. L
  <2>1. n \in Nat
    OBVIOUS
  <2> QED
    BY <2>1, Zenon DEF IsMarked, HasMarks
<1> HIDE DEF n, L
<1> SUFFICES ASSUME p # 1, p # L PROVE \E k \in 1 .. n : o[k] + 1 < p /\ p <= o[k + 1] + 1
  BY Zenon DEF n, L
<1>2. n + 1 \in A /\ A \in SUBSET Nat
  <2>1. o[n + 1] \in Nat
    BY <1>1
  <2> QED
    BY <1>1, <2>1
<1>3. PICK m \in A : \A y \in A : m <= y
  <2> HIDE DEF A
  <2>1. A # {}
    BY <1>2
  <2> QED
    BY <1>2, <2>1, LeastExists
<1>4. m \in 1 .. n + 1 /\ p <= o[m] + 1
  BY <1>3
<1>5. m # 1
  BY <1>1, <1>4
<1> DEFINE k == m - 1
<1>6. k \in 1 .. n /\ k \in 1 .. n + 1 /\ k + 1 = m /\ ~ (m <= k)
  BY <1>1, <1>4, <1>5
<1>7. k \notin A
  <2> HIDE DEF A, k
  <2> QED
    BY <1>3, <1>6, Zenon
<1> HIDE DEF k
<1>8. o[k] \in Nat
  BY <1>1, <1>6
<1>9. o[k] + 1 < p
  <2>1. ~ (p <= o[k] + 1)
    BY <1>6, <1>7
  <2> QED
    BY <1>1, <1>8, <2>1, SMTT(30)
<1> QED
  BY <1>4, <1>6, <1>9, Zenon

\* A token stands between its marks.
StandsMarked(cs, text, o, n, a, b) ==
  /\ o[a] \in Nat /\ o[b + 1] = o[a] + (b + 1) - a /\ o[b + 1] + 2 <= Len(cs)
  /\ cs[o[a] + 1] = Caret /\ cs[o[b + 1] + 2] = Dollar
  /\ \A k \in a .. b : o[k] = o[a] + k - a /\ cs[o[k] + 2] = text[k]
  /\ b = n => Len(cs) = o[b + 1] + 2
  /\ b # n => cs[o[b + 1] + 3] = Space

\* A token of the text stands between the marks of its characters.
LEMMA TokenMarked ==
  ASSUME NEW cs, NEW text, text \in Seq(Nat), NEW o, IsMarked(cs, text, o),
         NEW a, NEW b, IsToken(text, Len(text), a, b)
  PROVE  StandsMarked(cs, text, o, Len(text), a, b)
<1> DEFINE n == Len(text)
           L == Len(cs)
<1>1. /\ n \in Nat /\ o \in [1 .. n + 1 -> Nat] /\ o[1] = 0 /\ L = o[n + 1] + 2
      /\ cs[1] = Caret /\ cs[o[n + 1] + 2] = Dollar
      /\ \A k \in 1 .. n : text[k] # Space => o[k + 1] = o[k] + 1 /\ cs[o[k] + 2] = text[k]
      /\ \A k \in 1 .. n : text[k] = Space =>
           /\ o[k + 1] = o[k] + 3
           /\ cs[o[k] + 2] = Dollar /\ cs[o[k] + 3] = Space /\ cs[o[k] + 4] = Caret
  <2>1. n \in Nat
    OBVIOUS
  <2> QED
    BY <2>1, Zenon DEF IsMarked, HasMarks, HasCharacters
<1>2. /\ a \in 1 .. n + 1 /\ b \in 0 .. n /\ a <= b + 1
      /\ a = 1 \/ text[a - 1] = Space
      /\ b = n \/ text[b + 1] = Space
      /\ \A k \in a .. b : text[k] # Space
  BY Zenon DEF IsToken
<1>0. MarksAscend(o, n)
  BY MarksGrow
<1> HIDE DEF n, L
<1>3. \A k \in 1 .. n + 1 : o[k] \in Nat
  BY <1>1
<1>4. \A k \in a .. b + 1 : o[k] = o[a] + k - a
  <2> DEFINE A == {k \in a .. b + 1 : o[k] = o[a] + k - a}
  <2>1. a \in A
    <3>1. o[a] \in Nat /\ a \in a .. b + 1
      BY <1>2, <1>3
    <3>2. o[a] = o[a] + a - a
      BY <1>2, <3>1
    <3> QED
      BY <3>1, <3>2, Zenon
  <2>2. ASSUME NEW k \in a .. (b + 1) - 1, k \in A PROVE k + 1 \in A
    <3>1. k \in 1 .. n /\ k \in a .. b /\ k + 1 \in a .. b + 1
      BY <1>1, <1>2
    <3>2. o[k] = o[a] + k - a /\ o[k + 1] = o[k] + 1
      BY <1>1, <1>2, <2>2, <3>1
    <3>3. o[a] \in Nat
      BY <1>2, <1>3
    <3>4. o[k + 1] = o[a] + (k + 1) - a
      <4>1. k \in Int /\ a \in Int
        BY <1>2
      <4> QED
        BY <3>2, <3>3, <4>1
    <3> QED
      BY <3>1, <3>4
  <2>3. a \in Int /\ b + 1 \in Int
    BY <1>2
  <2> HIDE DEF A
  <2>4. \A k \in a .. b + 1 : k \in A
    BY <2>1, <2>2, <2>3, UpFrom
  <2> QED
    BY <2>4 DEF A
<1>5. o[a] \in Nat /\ o[b + 1] \in Nat /\ o[b + 1] = o[a] + (b + 1) - a
  <2>1. b + 1 \in a .. b + 1 /\ b + 1 \in 1 .. n + 1
    BY <1>1, <1>2
  <2> QED
    BY <1>2, <1>3, <1>4, <2>1, Zenon
<1>6. cs[o[a] + 1] = Caret
  <2>1. CASE a = 1
    BY <1>1, <2>1
  <2>2. CASE a # 1
    <3> DEFINE k == a - 1
    <3>1. k \in 1 .. n /\ k + 1 = a /\ k \in 1 .. n + 1
      BY <1>1, <1>2, <2>2
    <3>2. text[k] = Space
      BY <1>2, <2>2
    <3> HIDE DEF k
    <3>3. o[a] = o[k] + 3 /\ cs[o[k] + 4] = Caret
      BY <1>1, <3>1, <3>2, Zenon
    <3>4. o[a] + 1 = o[k] + 4
      BY <1>3, <3>1, <3>3
    <3> QED
      BY <3>3, <3>4, Zenon
  <2> QED
    BY <2>1, <2>2
<1>7. /\ cs[o[b + 1] + 2] = Dollar
      /\ b = n => L = o[b + 1] + 2
      /\ b # n => cs[o[b + 1] + 3] = Space
  <2>1. CASE b = n
    BY <1>1, <2>1, Zenon
  <2>2. CASE b # n
    <3> DEFINE k == b + 1
    <3>1. k \in 1 .. n
      BY <1>1, <1>2, <2>2
    <3>2. text[k] = Space
      BY <1>2, <2>2, Zenon
    <3> HIDE DEF k
    <3>3. cs[o[k] + 2] = Dollar /\ cs[o[k] + 3] = Space
      BY <1>1, <3>1, <3>2, Zenon
    <3> QED
      BY <2>2, <3>3, Zenon DEF k
  <2> QED
    BY <2>1, <2>2, Zenon
<1>8. o[b + 1] + 2 <= L
  <2>1. b + 1 \in 1 .. n + 1 /\ n + 1 \in 1 .. n + 1 /\ b + 1 <= n + 1
    BY <1>1, <1>2
  <2>2. o[b + 1] <= o[n + 1]
    BY <1>0, <2>1, Zenon DEF MarksAscend
  <2>3. o[b + 1] \in Nat /\ o[n + 1] \in Nat
    BY <1>3, <2>1
  <2> QED
    BY <1>1, <2>2, <2>3
<1>9. \A k \in a .. b : o[k] = o[a] + k - a /\ cs[o[k] + 2] = text[k]
  <2>1. \A k \in a .. b : k \in a .. b + 1 /\ k \in 1 .. n
    BY <1>1, <1>2
  <2> QED
    BY <1>1, <1>2, <1>4, <2>1, Zenon
<1> QED
  BY <1>5, <1>6, <1>7, <1>8, <1>9, Zenon DEF StandsMarked, n, L

\* What a token is with its marks.
WordMarked(cs, o, a, b, w) ==
  /\ w \in Seq(Nat) /\ Len(w) = b - a + 3
  /\ \A q \in 1 .. b - a + 3 : w[q] = cs[o[a] + q] /\ w[q] # Space

\* A token with its marks is a word.
LEMMA MarkedWord ==
  ASSUME NEW cs, NEW text, text \in Seq(Nat), NEW o, IsMarked(cs, text, o),
         NEW a, NEW b, IsToken(text, Len(text), a, b),
         NEW w, w = <<Caret>> \o SubSeq(text, a, b) \o <<Dollar>>
  PROVE  WordMarked(cs, o, a, b, w)
<1> DEFINE n == Len(text)
           g == SubSeq(text, a, b)
           l == Len(g)
           y == o[a]
<1>0. n \in Nat
  OBVIOUS
<1>1. /\ g \in Seq(Nat) /\ l = b - a + 1
      /\ \A q \in 1 .. b - a + 1 : g[q] = text[a + q - 1] /\ text[a + q - 1] # Space
  BY TokenIs
<1>2. StandsMarked(cs, text, o, n, a, b)
  BY TokenMarked
<1>3. /\ y \in Nat /\ o[b + 1] = y + (b + 1) - a
      /\ cs[y + 1] = Caret /\ cs[o[b + 1] + 2] = Dollar
      /\ \A k \in a .. b : o[k] = y + k - a /\ cs[o[k] + 2] = text[k]
  BY <1>2, Zenon DEF StandsMarked
<1>4. a \in 1 .. n + 1 /\ b \in 0 .. n /\ a <= b + 1
  BY Zenon DEF IsToken
<1>5. Caret \in Nat /\ Dollar \in Nat /\ Caret # Space /\ Dollar # Space
  BY DEF Caret, Dollar, Space
<1> HIDE DEF n, g, y
<1>6. /\ w \in Seq(Nat) /\ l \in Nat /\ Len(w) = l + 2
      /\ w[1] = Caret /\ w[l + 2] = Dollar
      /\ \A i \in 1 .. l : w[i + 1] = g[i]
  <2> DEFINE D == <<Caret>> \o g \o <<Dollar>>
  <2>1. /\ D \in Seq(Nat) /\ l \in Nat /\ Len(D) = l + 2
        /\ D[1] = Caret /\ D[l + 2] = Dollar
        /\ \A i \in 1 .. l : D[i + 1] = g[i]
    BY <1>1, <1>5, BetweenTwo
  <2> HIDE DEF D, l
  <2>2. w = D
    BY DEF D, g
  <2> QED
    BY <2>1, <2>2, Zenon
<1> DEFINE e == o[b + 1]
<1> HIDE DEF l, e
<1>7. a \in Int /\ b \in Int /\ l + 2 = b - a + 3 /\ e = y + (b + 1) - a
  BY <1>1, <1>3, <1>4, <1>6 DEF e
<1>8. ASSUME NEW q \in 1 .. b - a + 3 PROVE w[q] = cs[y + q] /\ w[q] # Space
  <2>1. CASE q = 1
    BY <1>3, <1>5, <1>6, <2>1, Zenon
  <2>2. CASE q = b - a + 3
    <3>1. q = l + 2 /\ e + 2 = y + q
      BY <1>3, <1>7, <2>2
    <3> QED
      BY <1>3, <1>5, <1>6, <3>1, Zenon DEF e
  <2>3. CASE q # 1 /\ q # b - a + 3
    <3> DEFINE i == q - 1
               k == a + i - 1
    <3>1. i \in 1 .. b - a + 1 /\ i \in 1 .. l /\ i + 1 = q /\ k \in a .. b /\ y + q = (y + k - a) + 2
      <4>1. y \in Nat /\ l \in Nat
        BY <1>3, <1>6, Zenon
      <4> QED
        BY <1>7, <2>3, <4>1
    <3> HIDE DEF i
    <3>2. w[q] = g[i] /\ g[i] = text[k] /\ text[k] # Space
      BY <1>1, <1>6, <3>1, Zenon
    <3> HIDE DEF k
    <3>3. cs[(y + k - a) + 2] = text[k]
      BY <1>3, <3>1, Zenon
    <3> QED
      BY <3>1, <3>2, <3>3, Zenon
  <2> QED
    BY <2>1, <2>2, <2>3, Zenon
<1>9. Len(w) = b - a + 3
  BY <1>6, <1>7, Zenon
<1> QED
  BY <1>6, <1>8, <1>9, Zenon DEF y, WordMarked

\* With terminators the words of a text are its tokens with their marks.
LEMMA MarkedTokensAreWords ==
  ASSUME NEW cs, NEW text, text \in Seq(Nat), NEW o, IsMarked(cs, text, o), NEW f, f.include_terminators
  PROVE  AreWords(cs, Tokens(text), WordsOf(f, text), [t \in Tokens(text) |-> o[t[1]]])
<1> DEFINE n == Len(text)
           L == Len(cs)
           T == Tokens(text)
           w == WordsOf(f, text)
           z == [t \in T |-> o[t[1]]]
<1>1. n \in Nat
  OBVIOUS
<1>2. /\ \A t \in T : t = <<t[1], t[2]>> /\ IsToken(text, n, t[1], t[2])
      /\ \A a, b : IsToken(text, n, a, b) => <<a, b>> \in T
  BY <1>1, TokensAre
<1>3. \A t \in T : w[t] = <<Caret>> \o SubSeq(text, t[1], t[2]) \o <<Dollar>> /\ z[t] = o[t[1]]
  BY Zenon DEF WordsOf, TokenOf
<1>4. ASSUME NEW t \in T
      PROVE  /\ t[1] \in 1 .. n + 1 /\ t[2] \in 0 .. n /\ t[1] <= t[2] + 1
             /\ w[t] \in Seq(Nat) /\ z[t] = o[t[1]]
             /\ Len(w[t]) = t[2] - t[1] + 3
             /\ \A q \in 1 .. t[2] - t[1] + 3 : w[t][q] = cs[z[t] + q] /\ w[t][q] # Space
             /\ StandsMarked(cs, text, o, n, t[1], t[2])
  <2> DEFINE a == t[1]
             b == t[2]
             g == w[t]
  <2>1. IsToken(text, n, a, b)
    BY <1>2, Zenon
  <2>2. g = <<Caret>> \o SubSeq(text, a, b) \o <<Dollar>> /\ z[t] = o[a]
    BY <1>3, Zenon
  <2> HIDE DEF a, b, g, z
  <2>0. WordMarked(cs, o, a, b, g)
    BY <2>1, <2>2, MarkedWord, Zenon
  <2>3. /\ g \in Seq(Nat) /\ Len(g) = b - a + 3
        /\ \A q \in 1 .. b - a + 3 : g[q] = cs[o[a] + q] /\ g[q] # Space
    BY <2>0, Zenon DEF WordMarked
  <2>4. a \in 1 .. n + 1 /\ b \in 0 .. n /\ a <= b + 1
    BY <2>1, Zenon DEF IsToken
  <2>5. StandsMarked(cs, text, o, n, a, b)
    BY <2>1, TokenMarked
  <2> QED
    BY <2>2, <2>3, <2>4, <2>5, Zenon DEF a, b, g
<1>5. ASSUME NEW t \in T
      PROVE  /\ z[t] \in Nat /\ z[t] + Len(w[t]) = o[t[2] + 1] + 2 /\ z[t] + Len(w[t]) <= L
             /\ z[t] + Len(w[t]) < L => cs[z[t] + Len(w[t]) + 1] = Space
  <2> DEFINE a == t[1]
             b == t[2]
             l == Len(w[t])
             y == z[t]
             e == o[b + 1]
  <2>1. a \in 1 .. n + 1 /\ b \in 0 .. n /\ y = o[a] /\ l = b - a + 3 /\ StandsMarked(cs, text, o, n, a, b)
    BY <1>4, Zenon
  <2>2. /\ o[a] \in Nat /\ e = o[a] + (b + 1) - a /\ e + 2 <= L
        /\ b = n => L = e + 2
        /\ b # n => cs[e + 3] = Space
    BY <2>1, Zenon DEF StandsMarked
  <2>3. L \in Nat
    <3>1. cs \in Seq(Nat)
      BY Zenon DEF IsMarked
    <3> QED
      BY <3>1
  <2> HIDE DEF a, b, l, y, e, L, n, z, w
  <2>4. y \in Nat /\ e = y + (b + 1) - a
    BY <2>1, <2>2, Zenon
  <2>5. a \in Int /\ b \in Int
    BY <1>1, <2>1
  <2>6. y + l = e + 2 /\ e \in Int
    BY <2>1, <2>4, <2>5
  <2>7. y + l < L => b # n
    BY <2>2, <2>3, <2>6
  <2>8. y + l + 1 = e + 3
    BY <2>6
  <2>9. y + l <= L
    BY <2>2, <2>6
  <2> QED
    BY <2>2, <2>4, <2>6, <2>7, <2>8, <2>9, Zenon DEF l, y, b, e
<1>6. ASSUME NEW t \in T PROVE IsWord(cs, w, z, t)
  <2>1. \A q \in 1 .. Len(w[t]) : w[t][q] = cs[z[t] + q] /\ w[t][q] # Space
    BY <1>4, ZenonT(30)
  <2> HIDE DEF w, z
  <2> QED
    BY <1>4, <1>5, <2>1, Zenon DEF IsWord
<1>7. MarksAscend(o, n)
  BY MarksGrow
<1>8. /\ \A k \in 1 .. n : text[k] # Space => o[k + 1] = o[k] + 1
      /\ \A k \in 1 .. n : text[k] = Space => o[k + 1] = o[k] + 3
      /\ \A k \in 1 .. n : text[k] = Space => cs[o[k] + 3] = Space
      /\ \A k \in 1 .. n + 1 : o[k] \in Nat
      /\ o[1] = 0 /\ L = o[n + 1] + 2
  <2>1. o \in [1 .. n + 1 -> Nat]
    BY Zenon DEF IsMarked, HasMarks
  <2>2. \A k \in 1 .. n + 1 : o[k] \in Nat
    <3> HIDE DEF n
    <3> QED
      BY <2>1
  <2> QED
    BY <2>2, Zenon DEF IsMarked, HasMarks, HasCharacters
<1>9. ASSUME NEW t \in T, NEW u \in T, t[2] + 1 < u[1], text[u[1] - 1] = Space
      PROVE  z[t] + Len(w[t]) <= z[u]
  <2> DEFINE b == t[2]
             k == u[1] - 1
  <2>1. b \in 0 .. n /\ u[1] \in 1 .. n + 1
    BY <1>4, Zenon
  <2>2. b + 1 \in 1 .. n + 1 /\ k \in 1 .. n + 1 /\ k \in 1 .. n /\ b + 1 <= k /\ k + 1 = u[1]
    <3> DEFINE a2 == u[1]
    <3>1. b \in 0 .. n /\ a2 \in 1 .. n + 1 /\ b + 1 < a2
      BY <1>9, <2>1, Zenon
    <3> HIDE DEF n, a2, b
    <3>2. /\ b + 1 \in 1 .. n + 1 /\ a2 - 1 \in 1 .. n + 1 /\ a2 - 1 \in 1 .. n
          /\ b + 1 <= a2 - 1 /\ (a2 - 1) + 1 = a2
      BY <1>1, <3>1
    <3> QED
      BY <3>2, Zenon DEF a2
  <2> HIDE DEF n, z, w, b, k
  <2>3. o[b + 1] <= o[k] /\ o[b + 1] \in Nat /\ o[k] \in Nat
    BY <1>7, <1>8, <2>2, Zenon DEF MarksAscend
  <2>4. text[k] = Space
    BY <1>9, Zenon DEF k
  <2>5. o[k + 1] = o[k] + 3
    BY <1>8, <2>2, <2>4, Zenon
  <2>6. z[t] + Len(w[t]) = o[b + 1] + 2 /\ z[u] = o[k + 1]
    BY <1>4, <1>5, <2>2, Zenon DEF b
  <2>7. o[b + 1] + 2 <= o[k + 1]
    BY <2>3, <2>5
  <2> QED
    BY <2>6, <2>7, Zenon
<1>10. ASSUME NEW t \in T, NEW u \in T PROVE AreApart(w, z, t, u)
  <2> DEFINE a == t[1]
             b == t[2]
             a2 == u[1]
             b2 == u[2]
  <2>1. /\ t = <<a, b>> /\ IsToken(text, n, a, b) /\ u = <<a2, b2>> /\ IsToken(text, n, a2, b2)
    BY <1>2, Zenon
  <2>2. \/ a = a2 /\ b = b2
        \/ b + 1 < a2 /\ text[a2 - 1] = Space
        \/ b2 + 1 < a /\ text[a - 1] = Space
    <3>1. IsToken(text, n, a, b) /\ IsToken(text, n, a2, b2)
      BY <2>1, Zenon
    <3> HIDE DEF n, T, w, z, a, b, a2, b2
    <3> QED
      BY <1>1, <3>1, TokensApart
  <2>3. CASE a = a2 /\ b = b2
    <3>1. t = u
      BY <2>1, <2>3, Zenon
    <3> QED
      BY <3>1, Zenon DEF AreApart
  <2>4. CASE b + 1 < a2 /\ text[a2 - 1] = Space
    BY <1>9, <2>4, Zenon DEF AreApart
  <2>5. CASE b2 + 1 < a /\ text[a - 1] = Space
    BY <1>9, <2>5, Zenon DEF AreApart
  <2> QED
    BY <2>2, <2>3, <2>4, <2>5, Zenon
<1> HIDE DEF w, z, T
<1>11. /\ \A a : BeginsAt(text, n, a) => \E b : IsToken(text, n, a, b)
       /\ \A b : EndsAt(text, n, b) => \E a : IsToken(text, n, a, b)
       /\ \A k \in 1 .. n : text[k] # Space => \E a, b : IsToken(text, n, a, b) /\ k \in a .. b
  BY <1>1, TokensExist
<1>12. ASSUME NEW a, BeginsAt(text, n, a) PROVE \E t \in T : IsInWord(w, z, t, o[a] + 1)
  <2>1. PICK b : IsToken(text, n, a, b)
    BY <1>11, <1>12
  <2> DEFINE t == <<a, b>>
  <2>2. t \in T /\ t[1] = a /\ t[2] = b
    BY <1>2, <2>1
  <2> HIDE DEF t
  <2>3. a \in 1 .. n + 1 /\ b \in 0 .. n /\ a <= b + 1 /\ z[t] = o[a] /\ Len(w[t]) = b - a + 3
    BY <1>4, <2>2, Zenon
  <2>4. 1 \in 1 .. b - a + 3
    <3> HIDE DEF n
    <3> QED
      BY <1>1, <2>3
  <2> QED
    BY <2>2, <2>3, <2>4, Zenon DEF IsInWord
<1>13. ASSUME NEW b, EndsAt(text, n, b) PROVE \E t \in T : IsInWord(w, z, t, o[b + 1] + 2)
  <2>1. PICK a : IsToken(text, n, a, b)
    BY <1>11, <1>13
  <2> DEFINE t == <<a, b>>
             l == Len(w[t])
  <2>2. t \in T /\ t[1] = a /\ t[2] = b
    BY <1>2, <2>1
  <2> HIDE DEF t
  <2>3. a \in 1 .. n + 1 /\ b \in 0 .. n /\ a <= b + 1 /\ l = b - a + 3
    BY <1>4, <2>2, Zenon
  <2>4. z[t] + l = o[b + 1] + 2
    BY <1>5, <2>2, Zenon
  <2>5. l \in 1 .. l
    <3> HIDE DEF n, l
    <3> QED
      BY <1>1, <2>3
  <2> HIDE DEF l
  <2> QED
    BY <2>2, <2>4, <2>5, Zenon DEF IsInWord, l
<1>14. ASSUME NEW k \in 1 .. n, text[k] # Space PROVE \E t \in T : IsInWord(w, z, t, o[k] + 2)
  <2>1. PICK a, b : IsToken(text, n, a, b) /\ k \in a .. b
    BY <1>11, <1>14, Zenon
  <2> DEFINE t == <<a, b>>
             q == k - a + 2
  <2>2. t \in T /\ t[1] = a /\ t[2] = b
    BY <1>2, <2>1
  <2> HIDE DEF t
  <2>3. /\ a \in 1 .. n + 1 /\ b \in 0 .. n /\ a <= b + 1 /\ Len(w[t]) = b - a + 3
        /\ z[t] = o[a] /\ StandsMarked(cs, text, o, n, a, b)
    BY <1>4, <2>2, Zenon
  <2>4. o[k] = o[a] + k - a /\ o[a] \in Nat
    BY <2>1, <2>3, Zenon DEF StandsMarked
  <2> HIDE DEF n
  <2>5. a \in Int /\ b \in Int
    BY <1>1, <2>3
  <2>6. q \in 1 .. b - a + 3 /\ o[k] + 2 = o[a] + q
    BY <2>1, <2>4, <2>5
  <2> HIDE DEF q
  <2>7. q \in 1 .. Len(w[t]) /\ o[k] + 2 = z[t] + q
    BY <2>3, <2>6, Zenon
  <2> QED
    BY <2>2, <2>7, Zenon DEF IsInWord
<1>15. ASSUME NEW p \in 1 .. L, cs[p] # Space PROVE \E t \in T : IsInWord(w, z, t, p)
  <2>1. p = 1 \/ p = L \/ \E k \in 1 .. n : o[k] + 1 < p /\ p <= o[k + 1] + 1
    BY MarksCover
  <2>0. p \in Nat
    OBVIOUS
  <2> HIDE DEF n, L
  <2>2. CASE p = 1
    <3>1. BeginsAt(text, n, 1) /\ o[1] + 1 = 1
      BY <1>1, <1>8 DEF BeginsAt
    <3> QED
      BY <1>12, <2>2, <3>1, Zenon
  <2>3. CASE p = L
    <3>1. EndsAt(text, n, n)
      BY <1>1 DEF EndsAt
    <3> QED
      BY <1>8, <1>13, <2>3, <3>1, Zenon
  <2>4. ASSUME NEW k \in 1 .. n, o[k] + 1 < p, p <= o[k + 1] + 1
        PROVE  \E t \in T : IsInWord(w, z, t, p)
    <3>0. k \in 1 .. n + 1 /\ k + 1 \in 1 .. n + 1
      BY <1>1
    <3>1. o[k] \in Nat /\ o[k + 1] \in Nat
      BY <1>8, <3>0, Zenon
    <3>2. CASE text[k] # Space
      <4>1. o[k + 1] = o[k] + 1
        BY <1>8, <3>2, Zenon
      <4>2. p = o[k] + 2
        BY <2>0, <2>4, <3>1, <4>1
      <4> QED
        BY <1>14, <3>2, <4>2, Zenon
    <3>3. CASE text[k] = Space
      <4>1. o[k + 1] = o[k] + 3 /\ cs[o[k] + 3] = Space
        BY <1>8, <3>3, Zenon
      <4>2. p = o[k] + 2 \/ p = o[k] + 3 \/ p = o[k] + 4
        <5> DEFINE x == o[k]
                   e == o[k + 1]
        <5>1. x \in Nat /\ e = x + 3 /\ x + 1 < p /\ p <= e + 1
          BY <2>4, <3>1, <4>1, Zenon
        <5> HIDE DEF x, e
        <5>2. p = x + 2 \/ p = x + 3 \/ p = x + 4
          BY <2>0, <5>1
        <5> QED
          BY <5>2, Zenon DEF x
      <4>3. p # o[k] + 3
        BY <1>15, <4>1, Zenon
      <4>4. CASE p = o[k] + 2
        <5> DEFINE b == k - 1
        <5>1. b + 1 = k /\ b \in 0 .. n
          BY <1>1
        <5> HIDE DEF b
        <5>2. EndsAt(text, n, b)
          BY <3>3, <5>1, Zenon DEF EndsAt
        <5> QED
          BY <1>13, <4>4, <5>1, <5>2, Zenon
      <4>5. CASE p = o[k] + 4
        <5>1. p = o[k + 1] + 1 /\ (k + 1) - 1 = k
          BY <3>1, <4>1, <4>5
        <5>2. BeginsAt(text, n, k + 1)
          BY <3>0, <3>3, <5>1, Zenon DEF BeginsAt
        <5> QED
          BY <1>12, <5>1, <5>2, Zenon
      <4> QED
        BY <4>2, <4>3, <4>4, <4>5, Zenon
    <3> QED
      BY <3>2, <3>3, Zenon
  <2> QED
    BY <2>1, <2>2, <2>3, <2>4
<1>16. cs \in Seq(Nat)
  BY Zenon DEF IsMarked
<1>17. AreWords(cs, T, w, z)
  BY <1>6, <1>10, <1>15, <1>16, Zenon DEF AreWords
<1> QED
  BY <1>17 DEF T, w, z

-----------------------------------------------------------------------------
(* The shares of n-grams and scripts *)

\* What is read of a text has its tokens for words.
LEMMA CharsHaveWords ==
  ASSUME NEW f, NEW text, IsText(text)
  PROVE  \E z : AreWords(CharsOf(f, text), Tokens(text), WordsOf(f, text), z)
<1>1. text \in Seq(Nat)
  BY TextTyped
<1>2. CASE ~ f.include_terminators
  <2>1. CharsOf(f, text) = text
    BY <1>2, Zenon DEF CharsOf
  <2>2. AreWords(text, Tokens(text), WordsOf(f, text), [t \in Tokens(text) |-> t[1] - 1])
    BY <1>1, <1>2, TokensAreWords
  <2> QED
    BY <2>1, <2>2, Zenon
<1>3. CASE f.include_terminators
  <2> DEFINE cs == Terminators(text)
  <2>1. CharsOf(f, text) = cs
    BY <1>3, Zenon DEF CharsOf
  <2> HIDE DEF cs
  <2>2. PICK o : IsMarked(cs, text, o)
    BY <1>1, TerminatorsMark, Zenon DEF cs
  <2>3. AreWords(cs, Tokens(text), WordsOf(f, text), [t \in Tokens(text) |-> o[t[1]]])
    BY <1>1, <1>3, <2>2, MarkedTokensAreWords
  <2> QED
    BY <2>1, <2>3, Zenon
<1> QED
  BY <1>2, <1>3

\* The places that are counted are the places in the tokens of the text.
LEMMA PlacesCounted ==
  ASSUME NEW f, f.size \in Nat \ {0}, ~ f.include_spaces, NEW text, IsText(text),
         NEW cs, cs = CharsOf(f, text)
  PROVE  GoWith(Places(text, f), [b \in Places(text, f) |-> b[3]],
                KeptOf(f, cs, Len(cs) - f.size + 1), GramsOf(f, cs))
<1> DEFINE n == f.size
           T == Tokens(text)
           w == WordsOf(f, text)
           v == GramsOf(f, cs)
<1>1. PICK z : AreWords(cs, T, w, z)
  BY CharsHaveWords, Zenon
<1>2. \A p \in 1 .. Len(cs) - n + 1 : v[p] = WindowAt(cs, n, p)
  BY Zenon DEF GramsOf, GramAt, WindowAt
<1>3. Unspaced(cs, n) = KeptOf(f, cs, Len(cs) - n + 1)
  BY Zenon DEF Unspaced, KeptOf, IsKept, GramAt, WindowAt
<1>4. Places(text, f) = Windows(T, w, n)
  BY PlacesAre, Zenon
<1> HIDE DEF n, T, w, v
<1>5. n \in Nat \ {0}
  BY DEF n
<1>6. GoWith(Windows(T, w, n), [b \in Windows(T, w, n) |-> b[3]], Unspaced(cs, n), v)
  BY <1>1, <1>2, <1>5, WindowsGo
<1> QED
  BY <1>3, <1>4, <1>6, Zenon DEF v, n

\* The values of n-grams are their shares.
LEMMA NgramShares ==
  ASSUME NEW f, f.size \in Nat \ {0}, ~ f.include_spaces, NEW text, IsText(text),
         NEW i, NEW V, V = NgramValuesOf(i, f, NgramBag(f, CharsOf(f, text)))
  PROVE  {<<v.of, v.weight>> : v \in V} = Shares(text, f)
<1> DEFINE cs == CharsOf(f, text)
           n == f.size
           m == Len(cs) - n + 1
           v == GramsOf(f, cs)
           K == KeptOf(f, cs, m)
           bag == NgramBag(f, cs)
           B == Places(text, f)
           grams == {b[3] : b \in B}
           Count(x) == Cardinality({b \in B : b[3] = x})
           k == [b \in B |-> b[3]]
           W(x) == IF f.use_equal_weight THEN <<1, Cardinality(grams)>> ELSE <<Count(x), Cardinality(B)>>
<1>1. GoWith(B, k, K, v)
  BY PlacesCounted
<1>2. \A b \in B : k[b] = b[3]
  BY Zenon
<1>3. bag = BagOf(v, K)
  BY Zenon DEF NgramBag
<1>4. Shares(text, f) = {<<x, W(x)>> : x \in grams}
  BY Zenon DEF Shares
<1>5. CountSum(bag) = Cardinality(K)
  <2>1. m \in Int
    <3>1. cs \in Seq(Nat)
      BY TextTyped, CharsTyped
    <3> QED
      BY <3>1
  <2> HIDE DEF cs, n, m, v
  <2>2. PICK l \in Nat : K \in SUBSET (1 .. l)
    <3>1. K \in SUBSET (1 .. m)
      BY Zenon DEF KeptOf
    <3>2. PICK l \in Nat : 1 .. m \subseteq 1 .. l
      <4>1. CASE m \in Nat
        BY <4>1
      <4>2. CASE m \notin Nat
        <5>1. 1 .. m \subseteq 1 .. 0
          BY <2>1, <4>2
        <5> QED
          BY <5>1
      <4> QED
        BY <4>1, <4>2
    <3> HIDE DEF K
    <3> QED
      BY <3>1, <3>2
  <2> HIDE DEF K
  <2>3. AddsToSize(v, K)
    BY <2>2, CountsAddUp
  <2> QED
    BY <1>3, <2>3, Zenon DEF AddsToSize
<1> HIDE DEF cs, n, m, v, K, bag, B, k
<1>6. /\ Cardinality(B) = Cardinality(K)
      /\ \A x : Cardinality({b \in B : k[b] = x}) = CountOf(v, K, x)
      /\ {k[b] : b \in B} = KeysOf(v, K)
  BY <1>1, Zenon DEF GoWith
<1>7. grams = KeysOf(v, K)
  <2>1. grams = {k[b] : b \in B}
    BY <1>2, ZenonT(30)
  <2> QED
    BY <1>6, <2>1, Zenon
<1>8. ASSUME NEW x PROVE Count(x) = CountOf(v, K, x)
  <2>1. {b \in B : k[b] = x} = {b \in B : b[3] = x}
    BY <1>2, Zenon
  <2> QED
    BY <1>6, <2>1, Zenon
<1>9. DOMAIN bag = grams /\ \A x \in grams : bag[x] = Count(x)
  <2>1. bag = [x \in grams |-> CountOf(v, K, x)]
    BY <1>3, <1>7, Zenon DEF BagOf
  <2> HIDE DEF grams
  <2> QED
    BY <1>8, <2>1, Zenon
<1> HIDE DEF grams, Count
<1>10. \A x \in grams : NgramWeight(f, bag, x) = W(x)
  <2>1. CountSum(bag) = Cardinality(B)
    BY <1>5, <1>6, Zenon
  <2>2. ASSUME NEW x \in grams PROVE NgramWeight(f, bag, x) = W(x)
    <3>1. bag[x] = Count(x) /\ DOMAIN bag = grams
      BY <1>9, Zenon
    <3>2. NgramWeight(f, bag, x) =
            IF f.use_equal_weight THEN <<1, Cardinality(DOMAIN bag)>> ELSE <<bag[x], CountSum(bag)>>
      BY Zenon DEF NgramWeight
    <3> QED
      BY <2>1, <3>1, <3>2, Zenon
  <2> QED
    BY <2>2
<1> DEFINE H(x) == Hash(x) % f.domain
           val(x) == ValueOf(i, f, x, H(x), NgramWeight(f, bag, x), TRUE)
<1>11. V = {val(x) : x \in grams}
  <2>1. V = {val(x) : x \in DOMAIN bag}
    BY Zenon DEF NgramValuesOf, bag, cs
  <2> QED
    BY <1>9, <2>1, Zenon
<1>12. \A x \in grams : val(x).of = x /\ val(x).weight = W(x)
  <2> HIDE DEF H, W
  <2>1. ASSUME NEW x \in grams PROVE val(x).of = x /\ val(x).weight = NgramWeight(f, bag, x)
    <3> DEFINE u == val(x)
    <3>1. u = ValueOf(i, f, x, H(x), NgramWeight(f, bag, x), TRUE)
      OBVIOUS
    <3> HIDE DEF u
    <3> DEFINE h == H(x)
               y == NgramWeight(f, bag, x)
               float == TRUE
    <3>2. u = ValueOf(i, f, x, h, y, float)
      BY <3>1
    <3> HIDE DEF h, y, float, val
    <3>3. u.of = x /\ u.weight = y
      BY <3>2, ValueIs
    <3> QED
      BY <3>3, Zenon DEF u, y
  <2> QED
    BY <1>10, <2>1, ZenonT(30) DEF W
<1> HIDE DEF val, W
<1>13. {<<u.of, u.weight>> : u \in V} = {<<x, W(x)>> : x \in grams}
  <2>1. \A u \in V : \E x \in grams : u = val(x)
    BY <1>11, Zenon
  <2>2. \A x \in grams : val(x) \in V
    BY <1>11, Zenon
  <2> DEFINE A == {<<u.of, u.weight>> : u \in V}
             C == {<<x, W(x)>> : x \in grams}
  <2>3. ASSUME NEW y \in A PROVE y \in C
    <3>1. PICK u \in V : y = <<u.of, u.weight>>
      OBVIOUS
    <3>2. PICK x \in grams : u = val(x)
      BY <2>1
    <3>3. y = <<x, W(x)>>
      BY <1>12, <3>1, <3>2, Zenon
    <3> QED
      BY <3>3, Zenon
  <2>4. ASSUME NEW y \in C PROVE y \in A
    <3>1. PICK x \in grams : y = <<x, W(x)>>
      OBVIOUS
    <3>2. val(x) \in V /\ val(x).of = x /\ val(x).weight = W(x)
      BY <1>12, <2>2, Zenon
    <3> QED
      BY <3>1, <3>2, Zenon
  <2> HIDE DEF A, C
  <2>5. A = C
    BY <2>3, <2>4
  <2> QED
    BY <2>5, Zenon DEF A, C
<1> QED
  BY <1>4, <1>13, Zenon

\* The letters are what the property says.
LEMMA LetterIs == ASSUME NEW c \in Nat PROVE IsLetter(c) <=> c >= 128 \/ isalpha(c)
<1>1. CharLen(c) = 1 <=> c < 128
  <2>1. c < 128 \/ (c >= 128 /\ c < 2048) \/ (c >= 2048 /\ c < 65536) \/ c >= 65536
    OBVIOUS
  <2> QED
    BY <2>1, CharLenIs
<1>2. (c < 128) <=> ~ (c >= 128)
  OBVIOUS
<1> QED
  BY <1>1, <1>2, Zenon DEF IsLetter

\* A character is of a script if it is in its block.
LEMMA BlockIs ==
  ASSUME NEW block \in Blocks, NEW c \in Nat
  PROVE  GetScript(c) = block[1] <=> c \in block[2]
<1> DEFINE g == GetScript(c)
<1>1. /\ g = kScriptGreek <=> c \in 880 .. 1023
      /\ g = kScriptCyrillic <=> c \in 1024 .. 1279
      /\ g = kScriptHebrew <=> c \in 1424 .. 1535
      /\ g = kScriptArabic <=> c \in 1536 .. 1791
      /\ g = kScriptHangulJamo <=> c \in 4352 .. 4607
      /\ g = kScriptHiragana <=> c \in 12353 .. 12447
      /\ g = kScriptKatakana <=> c \in 12448 .. 12543
  <2>0. /\ c < 128 => CharLen(c) = 1
        /\ (c >= 128 /\ c < 2048) => CharLen(c) = 2
        /\ (c >= 2048 /\ c < 65536) => CharLen(c) = 3
        /\ c >= 65536 => CharLen(c) = 4
    BY CharLenIs
  <2>1. CASE c < 128
    <3>1. CharLen(c) = 1
      BY <2>0, <2>1
    <3> QED
      BY <2>1, <3>1 DEF GetScript, kScriptOther, kScriptGreek, kScriptCyrillic, kScriptHebrew,
                  kScriptArabic, kScriptHangulJamo, kScriptHiragana, kScriptKatakana
  <2>2. CASE c >= 128 /\ c < 2048
    <3>1. CharLen(c) = 2
      BY <2>0, <2>2
    <3> QED
      BY <2>2, <3>1, SMTT(30) DEF GetScript, kScriptOther, kScriptGreek, kScriptCyrillic, kScriptHebrew,
                  kScriptArabic, kScriptHangulJamo, kScriptHiragana, kScriptKatakana
  <2>3. CASE c >= 2048 /\ c < 65536
    <3>1. CharLen(c) = 3
      BY <2>0, <2>3
    <3> QED
      BY <2>3, <3>1 DEF GetScript, kScriptOther, kScriptGreek, kScriptCyrillic, kScriptHebrew,
                  kScriptArabic, kScriptHangulJamo, kScriptHiragana, kScriptKatakana
  <2>4. CASE c >= 65536
    <3>1. CharLen(c) = 4
      BY <2>0, <2>4
    <3> QED
      BY <2>4, <3>1 DEF GetScript, kScriptOther, kScriptGreek, kScriptCyrillic, kScriptHebrew,
                  kScriptArabic, kScriptHangulJamo, kScriptHiragana, kScriptKatakana
  <2> QED
    BY <2>1, <2>2, <2>3, <2>4
<1> HIDE DEF g
<1>2. \/ block[1] = kScriptGreek /\ block[2] = 880 .. 1023
      \/ block[1] = kScriptCyrillic /\ block[2] = 1024 .. 1279
      \/ block[1] = kScriptHebrew /\ block[2] = 1424 .. 1535
      \/ block[1] = kScriptArabic /\ block[2] = 1536 .. 1791
      \/ block[1] = kScriptHangulJamo /\ block[2] = 4352 .. 4607
      \/ block[1] = kScriptHiragana /\ block[2] = 12353 .. 12447
      \/ block[1] = kScriptKatakana /\ block[2] = 12448 .. 12543
  BY DEF Blocks
<1> QED
  BY <1>1, <1>2, SMTT(30) DEF g

\* What the property says of the scripts, for one block.
LettersIn(text) == {k \in DOMAIN text : text[k] >= 128 \/ isalpha(text[k])}
OfBlock(text, block) == {k \in LettersIn(text) : text[k] \in block[2]}
ShareOfBlock(text, block) ==
  IF OfBlock(text, block) = {} THEN {}
  ELSE {<<Cardinality(OfBlock(text, block)), Cardinality(LettersIn(text))>>}

\* The values of scripts are the shares of their blocks.
LEMMA ScriptShares ==
  ASSUME NEW f, NEW text, IsText(text), NEW i, NEW V, V = ScriptValuesOf(i, f, ScriptBag(text)),
         NEW block \in Blocks
  PROVE  {v.weight : v \in {u \in V : u.of = block[1]}} = ShareOfBlock(text, block)
<1> DEFINE n == Len(text)
           v == ScriptsOf(text)
           S == LettersOf(text, n)
           bag == ScriptBag(text)
           b == block[1]
           D == OfBlock(text, block)
           val(x) == ValueOf(i, f, x, x, <<bag[x], CountSum(bag)>>, TRUE)
           share == <<Cardinality(D), Cardinality(S)>>
<1>1. n \in Nat /\ DOMAIN text = 1 .. n /\ \A k \in 1 .. n : text[k] \in Nat
  <2>1. /\ n \in Nat /\ DOMAIN text = 1 .. n
        /\ \A k \in 1 .. n : text[k] \in Nat \ {0}
    BY TextTyped
  <2> QED
    BY <2>1
<1>2. S = LettersIn(text)
  <2>1. \A k \in 1 .. n : IsLetter(text[k]) <=> text[k] >= 128 \/ isalpha(text[k])
    BY <1>1, LetterIs
  <2> QED
    BY <1>1, <2>1, Zenon DEF LettersOf, LettersIn
<1>3. bag = BagOf(v, S)
  BY Zenon DEF ScriptBag
<1>4. D = {k \in S : v[k] = b}
  <2>1. \A k \in 1 .. n : v[k] = b <=> text[k] \in block[2]
    <3>1. ASSUME NEW k \in 1 .. n PROVE v[k] = b <=> text[k] \in block[2]
      <4>1. v[k] = GetScript(text[k])
        BY <1>1, Zenon DEF ScriptsOf
      <4>2. GetScript(text[k]) = b <=> text[k] \in block[2]
        BY <1>1, BlockIs
      <4> QED
        BY <4>1, <4>2, Zenon
    <3> QED
      BY <3>1
  <2>2. \A k \in S : k \in 1 .. n
    BY Zenon DEF LettersOf
  <2>3. D = {k \in S : text[k] \in block[2]}
    BY <1>2, Zenon DEF OfBlock
  <2> HIDE DEF S, v, b, D, n
  <2> QED
    BY <2>1, <2>2, <2>3
<1>5. CountSum(bag) = Cardinality(S)
  <2>1. S \in SUBSET (1 .. n)
    BY Zenon DEF LettersOf
  <2> HIDE DEF S, v, n, bag
  <2>2. AddsToSize(v, S)
    BY <1>1, <2>1, CountsAddUp
  <2> QED
    BY <1>3, <2>2, Zenon DEF AddsToSize
<1>6. DOMAIN bag = KeysOf(v, S) /\ \A x \in DOMAIN bag : bag[x] = CountOf(v, S, x)
  <2> HIDE DEF v, S, bag
  <2> QED
    BY <1>3, Zenon DEF BagOf
<1>7. V = {val(x) : x \in DOMAIN bag}
  BY Zenon DEF ScriptValuesOf
<1>8. ShareOfBlock(text, block) = IF D = {} THEN {} ELSE {share}
  BY <1>2, Zenon DEF ShareOfBlock
<1>9. b \in DOMAIN bag <=> D # {}
  <2> HIDE DEF v, S, bag, D, b
  <2> QED
    BY <1>4, <1>6, Zenon DEF KeysOf
<1>10. b \in DOMAIN bag => <<bag[b], CountSum(bag)>> = share
  <2>1. CountOf(v, S, b) = Cardinality(D)
    BY <1>4, Zenon DEF CountOf
  <2> QED
    BY <1>5, <1>6, <2>1, Zenon
<1>11. \A x \in DOMAIN bag : val(x).of = x /\ val(x).weight = <<bag[x], CountSum(bag)>>
  <2>1. ASSUME NEW x \in DOMAIN bag PROVE val(x).of = x /\ val(x).weight = <<bag[x], CountSum(bag)>>
    <3> DEFINE u == val(x)
               y == <<bag[x], CountSum(bag)>>
               float == TRUE
    <3>1. u = ValueOf(i, f, x, x, y, float)
      OBVIOUS
    <3> HIDE DEF u, y, float, val
    <3>2. u.of = x /\ u.weight = y
      BY <3>1, ValueIs
    <3> QED
      BY <3>2, Zenon DEF u, y
  <2> QED
    BY <2>1
<1> HIDE DEF n, v, S, bag, b, D, val, share
<1>12. ASSUME NEW w PROVE w \in {u.weight : u \in {u \in V : u.of = b}} <=> D # {} /\ w = share
  <2>1. ASSUME NEW u \in V, u.of = b, w = u.weight PROVE D # {} /\ w = share
    <3>1. PICK x \in DOMAIN bag : u = val(x)
      BY <1>7, Zenon
    <3>2. x = b
      BY <1>11, <2>1, <3>1, Zenon
    <3> QED
      BY <1>9, <1>10, <1>11, <2>1, <3>1, <3>2, Zenon
  <2>2. ASSUME D # {}, w = share PROVE \E u \in V : u.of = b /\ w = u.weight
    <3>1. b \in DOMAIN bag
      BY <1>9, <2>2, Zenon
    <3>2. val(b) \in V /\ val(b).of = b /\ val(b).weight = share
      BY <1>7, <1>10, <1>11, <3>1, Zenon
    <3> QED
      BY <2>2, <3>2, Zenon
  <2> QED
    BY <2>1, <2>2, Zenon
<1>13. {u.weight : u \in {u \in V : u.of = b}} = IF D = {} THEN {} ELSE {share}
  <2> DEFINE A == {u.weight : u \in {u \in V : u.of = b}}
  <2>1. \A w : w \in A <=> D # {} /\ w = share
    BY <1>12
  <2> HIDE DEF A
  <2>2. A = IF D = {} THEN {} ELSE {share}
    BY <2>1
  <2> QED
    BY <2>2, Zenon DEF A
<1> QED
  BY <1>8, <1>13, Zenon DEF b

-----------------------------------------------------------------------------
(* What the functions come to *)

\* What a function has come to is what the comments on it promise.
IsShared(i, f, text, V) ==
  /\ f.type = Cbog /\ ~ f.include_spaces => {<<v.of, v.weight>> : v \in V} = Shares(text, f)
  /\ f.type = Rsf =>
       \A block \in Blocks :
         {v.weight : v \in {u \in V : u.of = block[1]}} = ShareOfBlock(text, block)

\* The values of a text's function have the shares that the text gives
\* them.
LEMMA ValuesShared ==
  ASSUME NEW text, IsText(text), NEW i, NEW f, f.size \in Nat \ {0}, NEW V, HasValues(i, f, text, V)
  PROVE  IsShared(i, f, text, V)
<1>1. ASSUME f.type = Cbog, ~ f.include_spaces
      PROVE  {<<v.of, v.weight>> : v \in V} = Shares(text, f)
  <2>1. V = NgramValuesOf(i, f, NgramBag(f, CharsOf(f, text)))
    BY <1>1, Zenon DEF HasValues
  <2> QED
    BY <1>1, <2>1, NgramShares, Zenon
<1>2. ASSUME f.type = Rsf, NEW block \in Blocks
      PROVE  {v.weight : v \in {u \in V : u.of = block[1]}} = ShareOfBlock(text, block)
  <2>1. V = ScriptValuesOf(i, f, ScriptBag(text))
    BY <1>2, Zenon DEF HasValues
  <2> QED
    BY <2>1, ScriptShares
<1> QED
  BY <1>1, <1>2, Zenon DEF IsShared

\* What the property says of function i of space k.
SharedAt(X, text, V, k, i) ==
  LET f == X[k][i]
      values == {v \in V[k] : v.base = i - 1}
      letters == {j \in DOMAIN text : text[j] >= 128 \/ isalpha(text[j])}
  IN /\ f.type = Cbog /\ ~f.include_spaces =>
          {<<v.of, v.weight>> : v \in values} = Shares(text, f)
     /\ f.type = Rsf => \A block \in Blocks :
          LET these == {j \in letters : text[j] \in block[2]}
          IN {v.weight : v \in {w \in values : w.of = block[1]}} =
             (IF these = {} THEN {} ELSE {<<Cardinality(these), Cardinality(letters)>>})

\* When the layer is put together, the values are the shares.
LEMMA StandingShares ==
  ASSUME SetupsParsed, EvaluationStands
  PROVE  SharesAsDefined
<1> SUFFICES ASSUME stage = "concat" PROVE SharesAsDefined
  BY Zenon DEF SharesAsDefined
<1>1. PICK X, text, V : X = extractors /\ text = sentence /\ V = features
  OBVIOUS
<1>2. stage # "parse" /\ stage \notin {"parse", "ready"} /\ stage \in {"concat", "done"}
  OBVIOUS
<1>3. /\ sentence \in setup.texts
      /\ VectorsStand(extractors, sentence, features, stage, es, fi)
  BY <1>2, Zenon DEF EvaluationStands
<1>4. setup \in Setups /\ IsSound(setup, X)
  BY <1>1, <1>2, SetupSound, Zenon DEF SetupsParsed
<1>5. IsText(text)
  BY <1>1, <1>3, <1>4, TextsAre, Zenon
<1>6. DOMAIN X = 1 .. Len(X)
  <2>1. X = [k \in 1 .. Len(X) |-> Functions(setup.spaces[k].tree)]
    BY <1>4, Zenon DEF IsSound
  <2> QED
    BY <2>1, Zenon
<1>7. ASSUME NEW k \in 1 .. Len(X), NEW i \in 1 .. Len(X[k]) PROVE IsShared(i, X[k][i], text, OwnOf(V[k], i))
  <2>1. VectorStands(X[k], text, V[k], stage, es, fi, k)
    BY <1>1, <1>3, Zenon DEF VectorsStand
  <2>2. IsEvaluated(stage, es, fi, k, i)
    BY <1>2, Zenon DEF IsEvaluated
  <2>3. HasValues(i, X[k][i], text, OwnOf(V[k], i))
    BY <2>1, <2>2, Zenon DEF VectorStands
  <2>4. X[k][i].size \in Nat \ {0}
    BY <1>4, Zenon DEF IsSound, FunctionSound
  <2> QED
    BY <1>5, <2>3, <2>4, ValuesShared, Zenon
<1>8. ASSUME NEW k \in DOMAIN X, NEW i \in DOMAIN X[k]
      PROVE  SharedAt(X, text, V, k, i)
  <2>1. k \in 1 .. Len(X) /\ i \in 1 .. Len(X[k])
    BY <1>4, <1>6, Zenon DEF IsSound
  <2>2. IsShared(i, X[k][i], text, OwnOf(V[k], i))
    BY <1>7, <2>1
  <2> QED
    BY <2>2, Zenon DEF IsShared, OwnOf, ShareOfBlock, OfBlock, LettersIn, SharedAt
<1>9. \A k \in DOMAIN extractors : \A i \in DOMAIN extractors[k] :
        SharedAt(extractors, sentence, features, k, i)
  BY <1>1, <1>8, Zenon
<1> QED
  BY <1>9, Zenon DEF SharesAsDefined, SharedAt

\* The features of a text are what the comments on the functions promise, for
\* every setup, if the hash of every n-gram is a number.
THEOREM WeighsByShares ==
  ASSUME \A gram \in Seq(Nat) : Hash(gram) \in Nat
  PROVE  Spec => []SharesAsDefined
<1> DEFINE Inv == SetupsParsed /\ EvaluationStands
<1>0. HashIsNumber
  BY DEF HashIsNumber
<1>1. Init => Inv
  BY SetupsParsedInit, EvaluationInit
<1>2. Inv /\ [Next]_vars => Inv'
  BY <1>0, SetupsParsedStep, EvaluationStep
<1>3. Inv => SharesAsDefined
  BY StandingShares
<1> QED
  BY <1>1, <1>2, <1>3, PTL DEF Spec
=============================================================================
