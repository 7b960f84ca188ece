-------------------------- MODULE IdentifierProofs --------------------------
(***************************************************************************)
(* Proofs about ScriptScanner, for every set of texts and every size of    *)
(* the buffer: the spans hold every letter once and in order, keep to one  *)
(* script, fit in the buffer, end within a word only when it is full, and  *)
(* are mapped back to the letters that they hold.  Behind them those about *)
(* LanguageIdentifier, for every set of texts, every network and every     *)
(* minimum of bytes: a call drives the scanner as the scanner's            *)
(* specification allows, its statistics account for every span, it returns *)
(* the languages in their order, and the ranges it reports are disjoint.   *)
(***************************************************************************)
EXTENDS LanguageIdentifier, Lemmas

-----------------------------------------------------------------------------
(* The inductive invariant *)

\* The offsets at which a character of a text begins, or the text ends, and
\* those at which a letter begins.
Starts(t)  == DOMAIN t.chars \cup {t.length}
Letters(t) == {at \in DOMAIN t.chars : t.chars[at].script # Common}

Char(t, at) ==
  [at |-> at, bytes |-> t.chars[at].bytes, lower |-> t.chars[at].lower]

Entries(t) == {PutSpace} \cup {Char(t, at) : at \in Letters(t)}

Spans(t) ==
  [offset : Nat, text_bytes : Nat, truncated : BOOLEAN,
   ulscript : {Unknown} \cup {t.chars[at].script : at \in Letters(t)}]

Reached == next_byte_ + take

\* Where the call is in the text.
PlaceInv ==
  /\ text \in Texts
  /\ pc \in {"new", "letters", "gap", "finish", "lower", "span", "end"}
  /\ call \in Calls \cup {"none"}
  /\ next_byte_ \in Starts(text) /\ byte_length_ = text.length - next_byte_
  /\ take \in Nat /\ Reached \in Starts(text)
  /\ InCall \/ take = 0

\* What it has put.
BufferInv ==
  /\ script_buffer \in Seq(Entries(text)) /\ given \in Seq(Entries(text))
  /\ InCall => put = PutBytes(script_buffer, Len(script_buffer))
  /\ InCall \/ put = 0
  /\ InCall \/ pc \in {"lower", "span"} => script_buffer # <<>>
  /\ put_soft_limit \in Nat /\ span \in Spans(text)

\* Entries hold the letters before an offset, in their order.
InOrder(t, entries, reach) ==
  /\ \A k \in 1 .. Len(entries) : IsLetter(entries[k]) => entries[k].at < reach
  /\ \A at \in Letters(t) : at < reach => \E k \in 1 .. Len(entries) : entries[k].at = at
  /\ \A j, k \in 1 .. Len(entries) :
       IsLetter(entries[j]) /\ IsLetter(entries[k]) /\ j < k =>
         entries[j].at < entries[k].at

PutSoFar == given \o (IF InCall THEN script_buffer ELSE <<>>)

OrderInv == InOrder(text, PutSoFar, Reached)

\* The script at an offset, and whether an entry is of another script than u.
Script(t, at)    == IF at < t.length THEN t.chars[at].script ELSE t.beyond
Foreign(t, u, e) == IsLetter(e) /\ Script(t, e.at) \notin {u, Inherited}

EndOf(e) == e.at + e.bytes

\* A foreign letter stands directly behind a letter that is not.
Alone(t, u, entries) ==
  \A k \in 1 .. Len(entries) : Foreign(t, u, entries[k]) =>
    /\ k - 1 >= 1 /\ IsLetter(entries[k-1]) /\ ~ Foreign(t, u, entries[k-1])
    /\ EndOf(entries[k-1]) = entries[k].at

\* Behind a foreign letter there is none, and behind a space there is a letter
\* that is not.
MayFollow(t, u, entries, reach) ==
  LET last == entries[Len(entries)]
  IN  /\ IsLetter(last) => EndOf(last) = reach
      /\ Foreign(t, u, last) => Script(t, reach) \in {Common, u}
      /\ ~ IsLetter(last) => reach < t.length /\ Script(t, reach) \in {u, Inherited}

\* Why letters have ended behind the last one.
Ended(t, u, entries, reach) ==
  LET last == entries[Len(entries)]
  IN  /\ IsLetter(last) /\ EndOf(last) = reach
      /\ \/ PutBytes(entries, Len(entries)) >= kMaxScriptBytes
         \/ reach = t.length
         \/ Script(t, reach) \notin {u, Inherited}

\* A span that is complete has cut a word only if it was full.
CutsFull(t, u, entries, reach) ==
  LET n == Len(entries) - 1
  IN  /\ n >= 1
      /\ EndOf(entries[n]) = reach /\ reach < t.length /\ Script(t, reach) \in {u, Inherited}
           => PutBytes(entries, n) >= kMaxScriptBytes

ScriptInv ==
  /\ Alone(text, span.ulscript, script_buffer)
  /\ pc = "letters" => MayFollow(text, span.ulscript, script_buffer, Reached)
  /\ pc = "gap" => Ended(text, span.ulscript, script_buffer, Reached)
  /\ pc \in {"finish", "lower", "span"} =>
       CutsFull(text, span.ulscript, script_buffer, Reached)

\* How full the buffer may be.
LimitInv ==
  LET size == PutBytes(script_buffer, Len(script_buffer))
  IN  /\ pc = "letters" => size < kMaxScriptBytes
      /\ InCall => put_soft_limit <= kMaxScriptBytes
      /\ pc = "gap" => size <= kMaxScriptBytes + 3
      /\ pc \in {"finish", "lower", "span"} => size <= kMaxScriptBytes + 4
      /\ pc = "lower" => span.text_bytes = size
      /\ pc = "span" => span.text_bytes =
           IF call = "lower" THEN LowerBytes(script_buffer, Len(script_buffer)) ELSE size

\* The map of a span being put: its letters are where they were.
MapsPut(al, entries, reach) ==
  /\ MaxA(al) = reach /\ MaxAprime(al) = PutBytes(entries, Len(entries))
  /\ \A k \in 1 .. Len(entries) : IsLetter(entries[k]) =>
       al.back[PutBytes(entries, k - 1) + 1] = entries[k].at

\* The map of a span that is complete.
MapsSpan(al, entries, reach) ==
  /\ \A k \in 1 .. Len(entries) : IsLetter(entries[k]) =>
       BackOf(al, PutBytes(entries, k - 1)) = entries[k].at
  /\ BackOf(al, PutBytes(entries, Len(entries))) = reach

\* The map of n entries put in lower case.
MapsLowered(al, entries, n) ==
  /\ MaxA(al) = PutBytes(entries, n) /\ MaxAprime(al) = LowerBytes(entries, n)
  /\ \A k \in 1 .. n : al.back[LowerBytes(entries, k - 1) + 1] = PutBytes(entries, k - 1)

MapInv ==
  /\ map2original \in TidyAlignments /\ map2uplow \in TidyAlignments
  /\ lowered \in Nat
  /\ pc = "lower" => lowered <= Len(ToLower)
  /\ pc = "lower" \/ lowered = 0
  /\ InCall => MapsPut(map2original, script_buffer, Reached)
  /\ pc \in {"lower", "span"} => MapsSpan(map2original, script_buffer, Reached)
  /\ pc = "lower" /\ lowered > 0 => MapsLowered(map2uplow, ToLower, lowered)
  /\ pc = "lower" => call = "lower"
  /\ pc = "span" /\ call = "lower" => MapsLowered(map2uplow, ToLower, Len(ToLower))

IInv == PlaceInv /\ BufferInv /\ OrderInv /\ ScriptInv /\ LimitInv /\ MapInv

\* A scanner that is only ever asked for one kind of span.
OneKindOfCall == Calls \in {{"plain"}, {"lower"}}

\* Where no span is put in lower case there is nothing to map back from it.
CallInv ==
  /\ pc = "new" \/ call \in Calls
  /\ Calls = {"plain"} => map2uplow = EmptyAlignment

-----------------------------------------------------------------------------
(* Texts *)

\* Characters do not overlap, and behind each begins another or ends the text.
LEMMA TextCharacters ==
  ASSUME NEW t \in Texts
  PROVE  /\ t.length \in Nat /\ Starts(t) \subseteq 0 .. t.length /\ 0 \in Starts(t)
         /\ \A at \in DOMAIN t.chars :
              /\ at \in Nat /\ at < t.length /\ at \in Starts(t)
              /\ t.chars[at].bytes \in 1 .. 4 /\ t.chars[at].lower \in Nat \ {0}
              /\ 2 * t.chars[at].lower <= 3 * t.chars[at].bytes
              /\ at + t.chars[at].bytes \in Starts(t)
              /\ \A o \in DOMAIN t.chars : o <= at \/ at + t.chars[at].bytes <= o
<1>1. IsText(t)
  BY ScannerAssumption
<1>2. t.length \in Nat /\ DOMAIN t.chars \subseteq 0 .. t.length - 1
  BY <1>1 DEF IsText
<1>3. Starts(t) \subseteq 0 .. t.length /\ 0 \in Starts(t)
  BY <1>1, <1>2 DEF IsText, Starts
<1>4. ASSUME NEW at \in DOMAIN t.chars
      PROVE  /\ at \in Nat /\ at < t.length /\ at \in Starts(t)
             /\ t.chars[at].bytes \in 1 .. 4 /\ t.chars[at].lower \in Nat \ {0}
             /\ 2 * t.chars[at].lower <= 3 * t.chars[at].bytes
             /\ at + t.chars[at].bytes \in Starts(t)
             /\ \A o \in DOMAIN t.chars : o <= at \/ at + t.chars[at].bytes <= o
  <2>1. /\ t.chars[at].bytes \in 1 .. 4 /\ t.chars[at].lower \in Nat \ {0}
        /\ 2 * t.chars[at].lower <= 3 * t.chars[at].bytes
        /\ at + t.chars[at].bytes \in Starts(t)
        /\ \A o \in at + 1 .. at + t.chars[at].bytes - 1 : o \notin DOMAIN t.chars
    BY <1>1 DEF IsText, Starts
  <2>2. at \in Nat /\ at < t.length /\ at \in Starts(t)
    BY <1>2 DEF Starts
  <2>3. ASSUME NEW o \in DOMAIN t.chars, ~ (o <= at)
        PROVE  at + t.chars[at].bytes <= o
    <3> DEFINE b == t.chars[at].bytes
    <3>1. b \in Nat /\ o \in Nat /\ o \notin at + 1 .. at + b - 1
      BY <1>2, <2>1
    <3> HIDE DEF b
    <3>2. at + b <= o
      BY <2>2, <2>3, <3>1
    <3> QED
      BY <3>2 DEF b
  <2> QED
    BY <2>1, <2>2, <2>3
<1> QED
  BY <1>2, <1>3, <1>4

\* A scan for a letter passes only non-letters.
LEMMA NextLetter ==
  ASSUME text \in Texts, NEW at \in Starts(text)
  PROVE  LET next == LetterFrom(at) IN
         /\ next \in Starts(text) /\ at <= next /\ next <= text.length
         /\ next = text.length \/ next \in Letters(text)
         /\ \A o \in Letters(text) : o < at \/ next <= o
         /\ at \in Letters(text) => next = at
<1> DEFINE T == {o \in DOMAIN text.chars : o >= at /\ text.chars[o].script # Common}
                  \cup {text.length}
           next == Min(T)
<1>1. /\ Starts(text) \subseteq 0 .. text.length /\ text.length \in Nat
      /\ Starts(text) \subseteq Nat /\ text.length \notin DOMAIN text.chars
  BY TextCharacters
<1>2. T \in SUBSET Starts(text) /\ T \in SUBSET Nat /\ T # {} /\ \A o \in T : at <= o
  BY <1>1 DEF Starts
<1>3. next \in T /\ \A o \in T : next <= o
  <2> HIDE DEF T
  <2> QED
    BY <1>2, MinIsLeast
<1>4. LetterFrom(at) = next
  BY DEF LetterFrom
<1> HIDE DEF next
<1>5. next = text.length \/ next \in Letters(text)
  BY <1>3 DEF Letters
<1>6. \A o \in Letters(text) : o < at \/ o \in T
  BY <1>1, <1>2 DEF Letters, Starts
<1> HIDE DEF T
<1>7. next \in Starts(text) /\ at <= next /\ next <= text.length
  BY <1>1, <1>2, <1>3
<1>8. at \in Letters(text) => next = at
  BY <1>1, <1>3, <1>6, <1>7
<1> QED
  BY <1>3, <1>4, <1>5, <1>6, <1>7, <1>8

-----------------------------------------------------------------------------
(* Lengths *)

\* Total is the sum of its first values.
LEMMA TotalFunction ==
  ASSUME NEW n \in Nat, NEW f, \A i \in 1 .. n : f[i] \in Nat
  PROVE  \E g : /\ Total(f, n) = g[n] /\ g[0] = 0
                /\ \A i \in 0 .. n : g[i] \in Nat
                /\ \A i \in 1 .. n : g[i] = g[i-1] + f[i]
<1> DEFINE T[k \in 0 .. n] == IF k = 0 THEN 0 ELSE T[k-1] + f[k]
           Rec(g) == g = [k \in 0 .. n |-> IF k = 0 THEN 0 ELSE g[k-1] + f[k]]
           h == [p \in Nat \X (0 + 1 .. n) |-> p[1] + f[p[2]]]
<1>1. Total(f, n) = T[n]
  BY DEF Total
<1>2. IsStep(h, Nat, 0, n)
  <2>1. \A v \in Nat, i \in 0 + 1 .. n : v + f[i] \in Nat
    OBVIOUS
  <2> QED
    BY <2>1 DEF IsStep
<1>3. PICK g : IsRecursion(g, h, Nat, 0, n, 0)
  <2> DEFINE z == 0
  <2> z \in Int /\ z \in Nat /\ n \in Int /\ z <= n
    OBVIOUS
  <2> IsStep(h, Nat, z, n)
    BY <1>2
  <2> HIDE DEF h, z
  <2>1. \E g : IsRecursion(g, h, Nat, z, n, z)
    BY RecursionExists
  <2> QED
    BY <2>1 DEF z
<1>4. /\ g \in [0 .. n -> Nat] /\ g[0] = 0
      /\ \A i \in 0 + 1 .. n : g[i] = h[<<g[i-1], i>>]
  <2> HIDE DEF h
  <2> QED
    BY <1>3 DEF IsRecursion
<1>5. ASSUME NEW i \in 1 .. n PROVE g[i] = g[i-1] + f[i]
  <2>1. i \in 0 + 1 .. n /\ i - 1 \in 0 .. n /\ g[i-1] \in Nat
    BY <1>4
  <2>2. h[<<g[i-1], i>>] = g[i-1] + f[i]
    BY <2>1
  <2> QED
    BY <1>4, <2>1, <2>2
<1>6. Rec(g)
  <2>1. \A i \in 0 .. n : g[i] = IF i = 0 THEN 0 ELSE g[i-1] + f[i]
    BY <1>4, <1>5
  <2>2. g = [i \in 0 .. n |-> g[i]]
    BY <1>4
  <2> QED
    BY <2>1, <2>2
<1>7. Rec(T)
  BY <1>6
<1> HIDE DEF T, h
<1>8. T[0] = 0 /\ \A i \in 1 .. n : T[i] = T[i-1] + f[i]
  BY <1>7
<1>9. \A i \in 1 .. n : T[i-1] \in Nat => T[i] \in Nat
  BY <1>8
<1>10. \A i \in 0 .. n : T[i] \in Nat
  <2>1. n \in Int /\ T[0] \in Nat
    BY <1>8
  <2> QED
    BY <1>9, <2>1, TypedFromZero, Zenon
<1> QED
  BY <1>1, <1>8, <1>10, Zenon

\* Totals of values that agree are the same.
LEMMA TotalAgrees ==
  ASSUME NEW n \in Nat, NEW f, NEW g,
         \A i \in 1 .. n : f[i] \in Nat /\ g[i] = f[i]
  PROVE  Total(f, n) = Total(g, n)
<1>1. PICK F : /\ Total(f, n) = F[n] /\ F[0] = 0
               /\ \A i \in 1 .. n : F[i] = F[i-1] + f[i]
  BY TotalFunction
<1>2. PICK G : /\ Total(g, n) = G[n] /\ G[0] = 0
               /\ \A i \in 1 .. n : G[i] = G[i-1] + g[i]
  <2>1. \A i \in 1 .. n : g[i] \in Nat
    OBVIOUS
  <2> QED
    BY <2>1, TotalFunction
<1>3. FollowAlike(F, G, n)
  BY <1>1, <1>2 DEF FollowAlike
<1>4. n \in Int /\ n \in 0 .. n
  OBVIOUS
<1>5. F[n] = G[n]
  BY <1>3, <1>4, AgreesFromZero
<1> QED
  BY <1>1, <1>2, <1>5

\* The last value is added to the total of those before it.
LEMMA TotalAdds ==
  ASSUME NEW n \in Nat \ {0}, NEW f, \A i \in 1 .. n : f[i] \in Nat
  PROVE  /\ Total(f, n) = Total(f, n - 1) + f[n]
         /\ Total(f, n) \in Nat /\ Total(f, n - 1) \in Nat
<1> n - 1 \in Nat /\ n - 1 \in 0 .. n /\ n \in 1 .. n /\ n \in 0 .. n
  OBVIOUS
<1>1. PICK F : /\ Total(f, n) = F[n] /\ F[0] = 0
               /\ \A i \in 0 .. n : F[i] \in Nat
               /\ \A i \in 1 .. n : F[i] = F[i-1] + f[i]
  BY TotalFunction
<1>2. PICK G : /\ Total(f, n - 1) = G[n - 1] /\ G[0] = 0
               /\ \A i \in 1 .. n - 1 : G[i] = G[i-1] + f[i]
  <2> DEFINE m == n - 1
  <2>1. m \in Nat /\ \A i \in 1 .. m : f[i] \in Nat
    OBVIOUS
  <2> HIDE DEF m
  <2>2. \E G : /\ Total(f, m) = G[m] /\ G[0] = 0
               /\ \A i \in 1 .. m : G[i] = G[i-1] + f[i]
    BY <2>1, TotalFunction
  <2> QED
    BY <2>2 DEF m
<1>3. FollowAlike(F, G, n - 1)
  BY <1>1, <1>2 DEF FollowAlike
<1>4. F[n - 1] = G[n - 1]
  <2> DEFINE m == n - 1
  <2>1. m \in Int /\ m \in 0 .. m /\ FollowAlike(F, G, m)
    BY <1>3
  <2> HIDE DEF m
  <2>2. F[m] = G[m]
    BY <2>1, AgreesFromZero
  <2> QED
    BY <2>2 DEF m
<1> QED
  BY <1>1, <1>2, <1>4

\* An entry is a space or a letter of the text.
LEMMA EntryTyped ==
  ASSUME NEW t \in Texts, NEW e \in Entries(t)
  PROVE  /\ e.at \in Int /\ e.bytes \in 1 .. 4 /\ e.lower \in Nat \ {0}
         /\ 2 * e.lower <= 3 * e.bytes
         /\ IsLetter(e) => /\ e.at \in Letters(t) /\ EndOf(e) \in Starts(t)
                           /\ e.bytes = t.chars[e.at].bytes
         /\ ~ IsLetter(e) => e = PutSpace
<1>1. CASE e = PutSpace
  BY <1>1 DEF PutSpace, IsLetter
<1>2. CASE e # PutSpace
  <2>1. PICK at \in Letters(t) : e = Char(t, at)
    BY <1>2 DEF Entries
  <2>2. at \in DOMAIN t.chars
    BY DEF Letters
  <2>3. e.at = at /\ e.bytes = t.chars[at].bytes /\ e.lower = t.chars[at].lower
    BY <2>1 DEF Char
  <2>4. /\ at \in Nat /\ t.chars[at].bytes \in 1 .. 4 /\ t.chars[at].lower \in Nat \ {0}
        /\ 2 * t.chars[at].lower <= 3 * t.chars[at].bytes
        /\ at + t.chars[at].bytes \in Starts(t)
    BY <2>2, TextCharacters
  <2> QED
    BY <2>3, <2>4 DEF IsLetter, EndOf
<1> QED
  BY <1>1, <1>2

\* Every entry of a span has lengths in range.
LEMMA EntryAt ==
  ASSUME NEW t \in Texts, NEW entries \in Seq(Entries(t)), NEW n \in 1 .. Len(entries)
  PROVE  /\ entries[n] \in Entries(t)
         /\ entries[n].bytes \in Nat /\ 1 <= entries[n].bytes /\ entries[n].bytes <= 4
         /\ entries[n].lower \in Nat /\ 1 <= entries[n].lower
         /\ 2 * entries[n].lower <= 3 * entries[n].bytes
<1> DEFINE e == entries[n]
<1>1. e \in Entries(t)
  OBVIOUS
<1> HIDE DEF e
<1>2. /\ e.bytes \in Nat /\ 1 <= e.bytes /\ e.bytes <= 4 /\ e.lower \in Nat
      /\ 1 <= e.lower /\ 2 * e.lower <= 3 * e.bytes
  <2>1. e.bytes \in 1 .. 4 /\ e.lower \in Nat \ {0} /\ 2 * e.lower <= 3 * e.bytes
    BY <1>1, EntryTyped
  <2> QED
    BY <2>1
<1> QED
  BY <1>1, <1>2 DEF e

\* The length of n entries is that of n - 1 and one more.
LEMMA BytesAdd ==
  ASSUME NEW t \in Texts, NEW entries \in Seq(Entries(t)), NEW n \in 1 .. Len(entries)
  PROVE  /\ PutBytes(entries, n) = PutBytes(entries, n - 1) + entries[n].bytes
         /\ PutBytes(entries, n) \in Nat /\ PutBytes(entries, n - 1) \in Nat
         /\ LowerBytes(entries, n) = LowerBytes(entries, n - 1) + entries[n].lower
         /\ LowerBytes(entries, n) \in Nat /\ LowerBytes(entries, n - 1) \in Nat
<1> DEFINE m == n - 1
           b == [i \in 1 .. n |-> entries[i].bytes]
           bm == [i \in 1 .. m |-> entries[i].bytes]
           l == [i \in 1 .. n |-> entries[i].lower]
           lm == [i \in 1 .. m |-> entries[i].lower]
<1>1. \A i \in 1 .. n : i \in 1 .. Len(entries)
  OBVIOUS
<1>2. \A i \in 1 .. n : entries[i].bytes \in Nat /\ entries[i].lower \in Nat
  BY <1>1, EntryAt, Zenon
<1>3. /\ n \in Nat \ {0} /\ m \in Nat /\ n \in 1 .. n
      /\ \A i \in 1 .. n : b[i] \in Nat /\ l[i] \in Nat
      /\ \A i \in 1 .. m : bm[i] \in Nat /\ b[i] = bm[i] /\ lm[i] \in Nat /\ l[i] = lm[i]
      /\ b[n] = entries[n].bytes /\ l[n] = entries[n].lower
  BY <1>2
<1>4. /\ PutBytes(entries, n) = Total(b, n) /\ PutBytes(entries, m) = Total(bm, m)
      /\ LowerBytes(entries, n) = Total(l, n) /\ LowerBytes(entries, m) = Total(lm, m)
  BY DEF PutBytes, LowerBytes
<1> HIDE DEF b, bm, l, lm
<1>5. Total(bm, m) = Total(b, m) /\ Total(lm, m) = Total(l, m)
  <2> HIDE DEF m
  <2> QED
    BY <1>3, TotalAgrees
<1>6. /\ Total(b, n) = Total(b, m) + b[n] /\ Total(b, n) \in Nat /\ Total(b, m) \in Nat
      /\ Total(l, n) = Total(l, m) + l[n] /\ Total(l, n) \in Nat /\ Total(l, m) \in Nat
  BY <1>3, TotalAdds
<1> QED
  BY <1>3, <1>4, <1>5, <1>6

\* No entries have no length, and every length is a number.
LEMMA BytesTyped ==
  ASSUME NEW t \in Texts, NEW entries \in Seq(Entries(t))
  PROVE  /\ PutBytes(entries, 0) = 0 /\ LowerBytes(entries, 0) = 0
         /\ \A k \in 0 .. Len(entries) :
              PutBytes(entries, k) \in Nat /\ LowerBytes(entries, k) \in Nat
<1>1. ASSUME NEW f PROVE Total(f, 0) = 0
  <2> DEFINE z == 0
  <2>1. z \in Nat /\ \A i \in 1 .. z : f[i] \in Nat
    OBVIOUS
  <2> HIDE DEF z
  <2>2. \E g : Total(f, z) = g[z] /\ g[0] = 0
    BY <2>1, TotalFunction
  <2> QED
    BY <2>2 DEF z
<1>2. PutBytes(entries, 0) = 0 /\ LowerBytes(entries, 0) = 0
  BY <1>1 DEF PutBytes, LowerBytes
<1>3. ASSUME NEW k \in 0 .. Len(entries), k # 0
      PROVE  PutBytes(entries, k) \in Nat /\ LowerBytes(entries, k) \in Nat
  <2>1. k \in 1 .. Len(entries)
    BY <1>3
  <2> QED
    BY <2>1, BytesAdd
<1> QED
  BY <1>2, <1>3

\* Entries that begin alike have the same length so far.
LEMMA BytesAlike ==
  ASSUME NEW t \in Texts, NEW entries \in Seq(Entries(t)), NEW other,
         NEW n \in 0 .. Len(entries), \A i \in 1 .. n : other[i] = entries[i]
  PROVE  PutBytes(other, n) = PutBytes(entries, n)
         /\ LowerBytes(other, n) = LowerBytes(entries, n)
<1> DEFINE b == [i \in 1 .. n |-> entries[i].bytes]
           c == [i \in 1 .. n |-> other[i].bytes]
           l == [i \in 1 .. n |-> entries[i].lower]
           k == [i \in 1 .. n |-> other[i].lower]
<1>1. b = c /\ l = k
  OBVIOUS
<1> QED
  BY <1>1 DEF PutBytes, LowerBytes

\* Lengths rise, by one byte at least for every entry.
LEMMA BytesRise ==
  ASSUME NEW t \in Texts, NEW entries \in Seq(Entries(t)), NEW k \in 1 .. Len(entries)
  PROVE  \A n \in k .. Len(entries) : /\ PutBytes(entries, k - 1) < PutBytes(entries, n)
                                      /\ LowerBytes(entries, k - 1) < LowerBytes(entries, n)
<1> DEFINE S == {n \in k .. Len(entries) : /\ PutBytes(entries, k - 1) < PutBytes(entries, n)
                                           /\ LowerBytes(entries, k - 1) < LowerBytes(entries, n)}
<1>1. ASSUME NEW n \in 1 .. Len(entries)
      PROVE  /\ PutBytes(entries, n - 1) \in Nat /\ PutBytes(entries, n) \in Nat
             /\ PutBytes(entries, n - 1) < PutBytes(entries, n)
             /\ LowerBytes(entries, n - 1) \in Nat /\ LowerBytes(entries, n) \in Nat
             /\ LowerBytes(entries, n - 1) < LowerBytes(entries, n)
  <2> DEFINE b == entries[n].bytes
             l == entries[n].lower
  <2>1. b \in Nat /\ 1 <= b /\ l \in Nat /\ 1 <= l
    BY EntryAt
  <2>2. /\ PutBytes(entries, n) = PutBytes(entries, n - 1) + b
        /\ PutBytes(entries, n) \in Nat /\ PutBytes(entries, n - 1) \in Nat
        /\ LowerBytes(entries, n) = LowerBytes(entries, n - 1) + l
        /\ LowerBytes(entries, n) \in Nat /\ LowerBytes(entries, n - 1) \in Nat
    BY BytesAdd
  <2> HIDE DEF b, l
  <2> QED
    BY <2>1, <2>2
<1>2. k \in S
  BY <1>1
<1>3. ASSUME NEW n \in k .. Len(entries) - 1, n \in S PROVE n + 1 \in S
  <2>1. n + 1 \in 1 .. Len(entries) /\ (n + 1) - 1 = n /\ n + 1 \in k .. Len(entries)
    OBVIOUS
  <2>2. /\ PutBytes(entries, n) \in Nat /\ PutBytes(entries, n + 1) \in Nat
        /\ PutBytes(entries, n) < PutBytes(entries, n + 1)
        /\ LowerBytes(entries, n) \in Nat /\ LowerBytes(entries, n + 1) \in Nat
        /\ LowerBytes(entries, n) < LowerBytes(entries, n + 1)
    BY <1>1, <2>1
  <2>3. PutBytes(entries, k - 1) \in Nat /\ LowerBytes(entries, k - 1) \in Nat
    BY <1>1
  <2>4. /\ PutBytes(entries, k - 1) < PutBytes(entries, n)
        /\ LowerBytes(entries, k - 1) < LowerBytes(entries, n)
    BY <1>3
  <2>5. /\ PutBytes(entries, k - 1) < PutBytes(entries, n + 1)
        /\ LowerBytes(entries, k - 1) < LowerBytes(entries, n + 1)
    BY <2>2, <2>3, <2>4
  <2> QED
    BY <2>1, <2>5
<1>4. \A n \in k .. Len(entries) : n \in S
  <2>1. k \in Int /\ Len(entries) \in Int
    OBVIOUS
  <2> HIDE DEF S
  <2> QED
    BY <1>2, <1>3, <2>1, UpFrom
<1> QED
  BY <1>4

\* Lower case grows a text by half at most.
LEMMA LowerWithin ==
  ASSUME NEW t \in Texts, NEW entries \in Seq(Entries(t))
  PROVE  \A n \in 0 .. Len(entries) : 2 * LowerBytes(entries, n) <= 3 * PutBytes(entries, n)
<1> DEFINE S == {n \in 0 .. Len(entries) :
                   2 * LowerBytes(entries, n) <= 3 * PutBytes(entries, n)}
           z == 0
<1>1. z \in S
  BY BytesTyped
<1>2. ASSUME NEW n \in z .. Len(entries) - 1, n \in S PROVE n + 1 \in S
  <2>1. n + 1 \in 1 .. Len(entries) /\ (n + 1) - 1 = n /\ n + 1 \in 0 .. Len(entries)
    OBVIOUS
  <2> DEFINE e == entries[n + 1]
  <2>2. e.bytes \in Nat /\ e.lower \in Nat /\ 2 * e.lower <= 3 * e.bytes
    BY <2>1, EntryAt
  <2>3. /\ PutBytes(entries, n + 1) = PutBytes(entries, n) + e.bytes
        /\ LowerBytes(entries, n + 1) = LowerBytes(entries, n) + e.lower
        /\ PutBytes(entries, n) \in Nat /\ LowerBytes(entries, n) \in Nat
    <3> DEFINE k == n + 1
    <3>1. k \in 1 .. Len(entries) /\ k - 1 = n
      BY <2>1
    <3> HIDE DEF k
    <3>2. /\ PutBytes(entries, k) = PutBytes(entries, k - 1) + entries[k].bytes
          /\ LowerBytes(entries, k) = LowerBytes(entries, k - 1) + entries[k].lower
          /\ PutBytes(entries, k - 1) \in Nat /\ LowerBytes(entries, k - 1) \in Nat
      BY <3>1, BytesAdd
    <3> QED
      BY <3>1, <3>2 DEF k
  <2> HIDE DEF e
  <2>4. 2 * LowerBytes(entries, n) <= 3 * PutBytes(entries, n)
    BY <1>2
  <2>5. 2 * LowerBytes(entries, n + 1) <= 3 * PutBytes(entries, n + 1)
    <3>1. ASSUME NEW p \in Nat, NEW q \in Nat, NEW b \in Nat, NEW c \in Nat,
                 2 * q <= 3 * p, 2 * c <= 3 * b
          PROVE  2 * (q + c) <= 3 * (p + b)
      BY <3>1
    <3>2. 2 * (LowerBytes(entries, n) + e.lower) <= 3 * (PutBytes(entries, n) + e.bytes)
      BY <2>2, <2>3, <2>4, <3>1
    <3> QED
      BY <2>3, <3>2
  <2> QED
    BY <2>1, <2>5
<1>3. \A n \in z .. Len(entries) : n \in S
  <2>1. z \in Int /\ Len(entries) \in Int
    OBVIOUS
  <2> HIDE DEF S, z
  <2> QED
    BY <1>1, <1>2, <2>1, UpFrom
<1> QED
  BY <1>3

-----------------------------------------------------------------------------
(* Maps *)

\* An alignment with n more bytes of A and m more of A'.
Extended(al, c, n, m) ==
  /\ c \in TidyAlignments
  /\ MaxA(c) = MaxA(al) + n /\ MaxAprime(c) = MaxAprime(al) + m
  /\ \A i \in 1 .. MaxAprime(al) : c.back[i] = al.back[i]

\* What extends an extension extends the first.
LEMMA ExtendedTwice ==
  ASSUME NEW al \in TidyAlignments, NEW c, NEW d,
         NEW n1 \in Nat, NEW m1 \in Nat, NEW n2 \in Nat, NEW m2 \in Nat,
         Extended(al, c, n1, m1), Extended(c, d, n2, m2)
  PROVE  Extended(al, d, n1 + n2, m1 + m2)
<1>1. MaxA(al) \in Nat /\ MaxAprime(al) \in Nat
  BY AlignmentTyped
<1> QED
  BY <1>1 DEF Extended

\* Copied bytes map back to those that they are copied from.
LEMMA CopyExtends ==
  ASSUME NEW al \in TidyAlignments, NEW n \in Nat
  PROVE  /\ Extended(al, AlignCopy(al, n), n, n)
         /\ n > 0 => AlignCopy(al, n).back[MaxAprime(al) + 1] = MaxA(al)
<1> DEFINE c == CopyBytes(al, n)
<1>1. /\ al \in AlignmentSet /\ Tidy(al) /\ MaxA(al) \in Nat /\ MaxAprime(al) \in Nat
  BY AlignmentTyped
<1>2. Tidy(c)
  BY <1>1, CopyKeepsTidy
<1>3. /\ c \in AlignmentSet /\ MaxA(c) = MaxA(al) + n /\ MaxAprime(c) = MaxAprime(al) + n
      /\ \A i \in 1 .. MaxAprime(c) : c.back[i] =
           IF i <= MaxAprime(al) THEN al.back[i] ELSE MaxA(al) + i - MaxAprime(al) - 1
  BY <1>1, CopyBytesAt
<1>4. AlignCopy(al, n) = IF n = 0 THEN al ELSE c
  BY DEF AlignCopy
<1> HIDE DEF c
<1>5. Extended(al, c, n, n)
  BY <1>1, <1>2, <1>3 DEF Extended, TidyAlignments
<1>6. n > 0 => c.back[MaxAprime(al) + 1] = MaxA(al)
  BY <1>1, <1>3
<1>7. n = 0 => Extended(al, al, n, n)
  BY <1>1 DEF Extended, TidyAlignments
<1> QED
  BY <1>4, <1>5, <1>6, <1>7

\* Inserted bytes map back to where the next byte will come from.
LEMMA InsertExtends ==
  ASSUME NEW al \in TidyAlignments, NEW n \in Nat
  PROVE  /\ Extended(al, AlignInsert(al, n), 0, n)
         /\ n > 1 => AlignInsert(al, n).back[MaxAprime(al) + 1] = MaxA(al)
<1> DEFINE c == InsertBytes(al, n)
<1>1. /\ al \in AlignmentSet /\ Tidy(al) /\ MaxA(al) \in Nat /\ MaxAprime(al) \in Nat
  BY AlignmentTyped
<1>2. AlignInsert(al, n) = IF n = 0 THEN al ELSE c
  BY DEF AlignInsert
<1>3. CASE n = 0
  BY <1>1, <1>2, <1>3 DEF Extended, TidyAlignments
<1>4. CASE n # 0 /\ ~ Replaces(al, n, "delete")
  <2>1. n \in Nat \ {0}
    BY <1>4
  <2>2. Tidy(c)
    BY <1>1, <2>1, InsertKeepsTidy
  <2>3. /\ c \in AlignmentSet /\ c.fwd = al.fwd /\ MaxAprime(c) = MaxAprime(al) + n
        /\ \A i \in 1 .. MaxAprime(c) : c.back[i] =
             IF i <= MaxAprime(al) THEN al.back[i] ELSE MaxA(al)
    BY <1>1, <1>4, <2>1, InsertBytesAt
  <2> HIDE DEF c
  <2>4. MaxA(c) = MaxA(al)
    BY <2>3 DEF MaxA
  <2> QED
    BY <1>1, <1>2, <1>4, <2>2, <2>3, <2>4 DEF Extended, TidyAlignments
<1>5. CASE n # 0 /\ Replaces(al, n, "delete")
  <2>1. n = 1 /\ Replaces(al, 1, "delete") /\ MaxA(al) > 0
    BY <1>1, <1>5 DEF Replaces, Tidy, Foldable
  <2>2. Tidy(c)
    <3>1. n \in Nat \ {0}
      BY <1>5
    <3> QED
      BY <1>1, <3>1, InsertKeepsTidy
  <2>3. /\ c \in AlignmentSet /\ c.fwd = al.fwd /\ MaxAprime(c) = MaxAprime(al) + 1
        /\ \A i \in 1 .. MaxAprime(c) : c.back[i] =
             IF i <= MaxAprime(al) THEN al.back[i] ELSE MaxA(al) - 1
    <3> DEFINE d == InsertBytes(al, 1)
    <3>1. c = d
      BY <2>1
    <3>2. /\ d \in AlignmentSet /\ d.fwd = al.fwd /\ MaxAprime(d) = MaxAprime(al) + 1
          /\ \A i \in 1 .. MaxAprime(d) : d.back[i] =
               IF i <= MaxAprime(al) THEN al.back[i] ELSE MaxA(al) - 1
      BY <1>1, <2>1, FoldInsertAt
    <3> QED
      BY <3>1, <3>2
  <2> HIDE DEF c
  <2>4. MaxA(c) = MaxA(al)
    BY <2>3 DEF MaxA
  <2> QED
    BY <1>1, <1>2, <1>5, <2>1, <2>2, <2>3, <2>4 DEF Extended, TidyAlignments
<1> QED
  BY <1>3, <1>4, <1>5

\* Deleted bytes change no byte of A'.
LEMMA DeleteExtends ==
  ASSUME NEW al \in TidyAlignments, NEW n \in Nat
  PROVE  Extended(al, AlignDelete(al, n), n, 0)
<1> DEFINE c == DeleteBytes(al, n)
<1>1. /\ al \in AlignmentSet /\ Tidy(al) /\ MaxA(al) \in Nat /\ MaxAprime(al) \in Nat
  BY AlignmentTyped
<1>2. AlignDelete(al, n) = IF n = 0 THEN al ELSE c
  BY DEF AlignDelete
<1>3. CASE n = 0
  BY <1>1, <1>2, <1>3 DEF Extended, TidyAlignments
<1>4. CASE n # 0
  <2>1. n \in Nat \ {0}
    BY <1>4
  <2>2. Tidy(c)
    BY <1>1, <2>1, DeleteKeepsTidy
  <2>3. c \in AlignmentSet /\ c.back = al.back /\ MaxA(c) = MaxA(al) + n
    <3>1. CASE Replaces(al, n, "insert")
      <4> DEFINE d == DeleteBytes(al, 1)
      <4>1. n = 1 /\ Replaces(al, 1, "insert") /\ MaxAprime(al) > 0
        BY <1>1, <3>1 DEF Replaces, Tidy, Foldable
      <4>2. d \in AlignmentSet /\ d.back = al.back /\ MaxA(d) = MaxA(al) + 1
        BY <1>1, <4>1, FoldDeleteAt
      <4>3. c = d
        BY <4>1
      <4> QED
        BY <4>1, <4>2, <4>3
    <3>2. CASE ~ Replaces(al, n, "insert")
      BY <1>1, <2>1, <3>2, DeleteBytesAt
    <3> QED
      BY <3>1, <3>2
  <2> HIDE DEF c
  <2> QED
    BY <1>1, <1>2, <1>4, <2>2, <2>3 DEF Extended, TidyAlignments, MaxAprime
<1> QED
  BY <1>3, <1>4

\* What is extended keeps where its bytes map back to.
LEMMA LowerOneExtends ==
  ASSUME NEW t \in Texts, NEW e \in Entries(t), NEW al \in TidyAlignments
  PROVE  /\ Extended(al, LowerOne(al, e), e.bytes, e.lower)
         /\ LowerOne(al, e).back[MaxAprime(al) + 1] = MaxA(al)
<1> DEFINE b == e.bytes
           l == e.lower
<1>1. b \in Nat /\ l \in Nat /\ b > 0 /\ l > 0
  BY EntryTyped
<1>2. LowerOne(al, e) = AlignReplace(al, b, l)
  BY DEF LowerOne
<1>3. MaxAprime(al) \in Nat
  BY AlignmentTyped
<1> HIDE DEF b, l
<1>4. CASE l >= b
  <2> DEFINE c == AlignCopy(al, b)
             d == AlignInsert(c, l - b)
  <2>1. Extended(al, c, b, b) /\ c.back[MaxAprime(al) + 1] = MaxA(al)
    BY <1>1, CopyExtends
  <2> HIDE DEF c
  <2>2. c \in TidyAlignments /\ l - b \in Nat
    BY <1>1, <1>4, <2>1 DEF Extended
  <2>3. Extended(c, d, 0, l - b)
    BY <2>2, InsertExtends
  <2> HIDE DEF d
  <2>4. Extended(al, d, b + 0, b + (l - b))
    BY <1>1, <2>1, <2>2, <2>3, ExtendedTwice
  <2>5. d.back[MaxAprime(al) + 1] = c.back[MaxAprime(al) + 1]
    BY <1>1, <1>3, <2>1, <2>3 DEF Extended
  <2>6. LowerOne(al, e) = d
    BY <1>2, <1>4 DEF AlignReplace, c, d
  <2>7. b + 0 = b /\ b + (l - b) = l
    BY <1>1
  <2> QED
    BY <2>1, <2>4, <2>5, <2>6, <2>7 DEF b, l
<1>5. CASE ~ (l >= b)
  <2> DEFINE c == AlignCopy(al, l)
             d == AlignDelete(c, b - l)
  <2>1. Extended(al, c, l, l) /\ c.back[MaxAprime(al) + 1] = MaxA(al)
    BY <1>1, CopyExtends
  <2> HIDE DEF c
  <2>2. c \in TidyAlignments /\ b - l \in Nat
    BY <1>1, <1>5, <2>1 DEF Extended
  <2>3. Extended(c, d, b - l, 0)
    BY <2>2, DeleteExtends
  <2> HIDE DEF d
  <2>4. Extended(al, d, l + (b - l), l + 0)
    BY <1>1, <2>1, <2>2, <2>3, ExtendedTwice
  <2>5. d.back[MaxAprime(al) + 1] = c.back[MaxAprime(al) + 1]
    BY <1>1, <1>3, <2>1, <2>3 DEF Extended
  <2>6. LowerOne(al, e) = d
    BY <1>2, <1>5 DEF AlignReplace, c, d
  <2>7. l + 0 = l /\ l + (b - l) = b
    BY <1>1
  <2> QED
    BY <2>1, <2>4, <2>5, <2>6, <2>7 DEF b, l
<1> QED
  BY <1>4, <1>5

\* The map is empty, or closed, without a byte being moved.
LEMMA EmptyTyped ==
  EmptyAlignment \in TidyAlignments /\ MaxA(EmptyAlignment) = 0
  /\ MaxAprime(EmptyAlignment) = 0
BY EmptyIsTidy DEF TidyAlignments, EmptyAlignment, MaxA, MaxAprime

\* Closing a map changes no answer.
LEMMA ClosedKeeps ==
  ASSUME NEW al \in TidyAlignments
  PROVE  /\ Closed(al) \in TidyAlignments /\ Closed(al).back = al.back
         /\ MaxA(Closed(al)) = MaxA(al) /\ MaxAprime(Closed(al)) = MaxAprime(al)
         /\ \A x : BackOf(Closed(al), x) = BackOf(al, x)
<1>1. Closed(al) \in TidyAlignments
  BY AlignmentTyped, ClosedIsTidy DEF TidyAlignments
<1>2. Closed(al).back = al.back /\ Closed(al).fwd = al.fwd
  BY AlignmentTyped DEF Closed, AlignmentSet
<1> QED
  BY <1>1, <1>2 DEF MaxA, MaxAprime, BackOf

\* The front of a span: everything up to its first letter, for one space.
LEMMA FrontTyped ==
  ASSUME NEW offset \in Nat, NEW skip \in Nat
  PROVE  LET front == FrontOfSpan(offset, skip) IN
         /\ front \in TidyAlignments
         /\ MaxA(front) = offset + skip /\ MaxAprime(front) = 1
<1> DEFINE before == AlignDelete(EmptyAlignment, offset)
           one == 1
<1>1. before \in TidyAlignments /\ MaxA(before) = offset /\ MaxAprime(before) = 0
  BY EmptyTyped, DeleteExtends DEF Extended
<1>2. FrontOfSpan(offset, skip) = IF skip # 1 THEN AlignInsert(AlignDelete(before, skip), one)
                                  ELSE AlignCopy(before, one)
  BY DEF FrontOfSpan
<1> HIDE DEF before
<1>3. one \in Nat
  OBVIOUS
<1>4. CASE skip # 1
  <2> DEFINE c == AlignDelete(before, skip)
  <2>1. c \in TidyAlignments /\ MaxA(c) = offset + skip /\ MaxAprime(c) = 0 + 0
    BY <1>1, DeleteExtends DEF Extended
  <2> HIDE DEF c, one
  <2>2. Extended(c, AlignInsert(c, one), 0, one)
    BY <1>3, <2>1, InsertExtends
  <2> QED
    BY <1>2, <1>4, <2>1, <2>2 DEF Extended, c, one
<1>5. CASE skip = 1
  <2> HIDE DEF one
  <2>1. Extended(before, AlignCopy(before, one), one, one)
    BY <1>1, <1>3, CopyExtends
  <2> QED
    BY <1>1, <1>2, <1>5, <2>1 DEF Extended, one
<1> QED
  BY <1>4, <1>5

\* What is put is put behind all that was.
LEMMA AppendedBehind ==
  ASSUME NEW S, NEW s \in Seq(S), NEW b \in Seq(S), NEW e \in S
  PROVE  s \o b \in Seq(S) /\ s \o Append(b, e) = Append(s \o b, e)
OBVIOUS

\* One more entry leaves what was put where it is.
LEMMA EntryAppended ==
  ASSUME NEW t \in Texts, NEW entries \in Seq(Entries(t)), NEW e \in Entries(t)
  PROVE  LET longer == Append(entries, e) IN
         /\ longer \in Seq(Entries(t)) /\ Len(longer) = Len(entries) + 1
         /\ \A k \in 1 .. Len(entries) : longer[k] = entries[k]
         /\ longer[Len(entries) + 1] = e
         /\ \A k \in 0 .. Len(entries) : /\ PutBytes(longer, k) = PutBytes(entries, k)
                                         /\ LowerBytes(longer, k) = LowerBytes(entries, k)
         /\ PutBytes(longer, Len(longer)) = PutBytes(entries, Len(entries)) + e.bytes
<1> DEFINE longer == Append(entries, e)
           n == Len(entries)
<1>1. /\ longer \in Seq(Entries(t)) /\ Len(longer) = n + 1 /\ n \in Nat
      /\ \A k \in 1 .. n : longer[k] = entries[k]
      /\ longer[n + 1] = e
  OBVIOUS
<1> HIDE DEF longer
<1>2. ASSUME NEW k \in 0 .. n
      PROVE  /\ PutBytes(longer, k) = PutBytes(entries, k)
             /\ LowerBytes(longer, k) = LowerBytes(entries, k)
  <2>1. \A i \in 1 .. k : longer[i] = entries[i]
    BY <1>1
  <2> QED
    BY <2>1, BytesAlike
<1>3. PutBytes(longer, Len(longer)) = PutBytes(longer, n) + e.bytes
  <2> DEFINE l == Len(longer)
  <2>1. l \in 1 .. Len(longer) /\ l - 1 = n /\ longer[l] = e
    BY <1>1
  <2> HIDE DEF l
  <2>2. PutBytes(longer, l) = PutBytes(longer, l - 1) + longer[l].bytes
    BY <1>1, <2>1, BytesAdd
  <2> QED
    BY <2>1, <2>2 DEF l
<1>4. n \in 0 .. n
  BY <1>1
<1> QED
  BY <1>1, <1>2, <1>3, <1>4 DEF longer

\* A map that is extended by what is put maps it as well.
LEMMA MappedMore ==
  ASSUME NEW t \in Texts, NEW entries \in Seq(Entries(t)), NEW e \in Entries(t),
         NEW al \in TidyAlignments, NEW c, NEW reach \in Nat, NEW n \in Nat,
         MapsPut(al, entries, reach), Extended(al, c, n, e.bytes),
         IsLetter(e) => c.back[MaxAprime(al) + 1] = e.at
  PROVE  MapsPut(c, Append(entries, e), reach + n)
<1> DEFINE longer == Append(entries, e)
           size == Len(entries)
<1>1. /\ longer \in Seq(Entries(t)) /\ Len(longer) = size + 1 /\ size \in Nat
      /\ \A k \in 1 .. size : longer[k] = entries[k]
      /\ longer[size + 1] = e
      /\ \A k \in 0 .. size : PutBytes(longer, k) = PutBytes(entries, k)
      /\ PutBytes(longer, Len(longer)) = PutBytes(entries, size) + e.bytes
  BY EntryAppended
<1> HIDE DEF longer
<1>2. /\ MaxA(al) = reach /\ MaxAprime(al) = PutBytes(entries, size)
      /\ \A k \in 1 .. size : IsLetter(entries[k]) =>
           al.back[PutBytes(entries, k - 1) + 1] = entries[k].at
  BY DEF MapsPut
<1>3. /\ MaxA(c) = MaxA(al) + n /\ MaxAprime(c) = MaxAprime(al) + e.bytes
      /\ \A i \in 1 .. MaxAprime(al) : c.back[i] = al.back[i]
  BY DEF Extended
<1>4. ASSUME NEW k \in 1 .. Len(longer), IsLetter(longer[k])
      PROVE  c.back[PutBytes(longer, k - 1) + 1] = longer[k].at
  <2>1. CASE k = size + 1
    <3>1. longer[k] = e /\ PutBytes(longer, k - 1) = PutBytes(entries, size)
      BY <1>1, <2>1
    <3> QED
      BY <1>2, <1>4, <3>1
  <2>2. CASE k # size + 1
    <3>1. k \in 1 .. size /\ k - 1 \in 0 .. size
      BY <1>1, <2>2
    <3>2. longer[k] = entries[k] /\ PutBytes(longer, k - 1) = PutBytes(entries, k - 1)
      BY <1>1, <3>1
    <3>3. PutBytes(entries, k - 1) + 1 \in 1 .. MaxAprime(al)
      <4> DEFINE before == PutBytes(entries, k - 1)
                 all == PutBytes(entries, size)
      <4>1. size \in k .. Len(entries)
        BY <1>1, <3>1
      <4>2. before < all
        BY <3>1, <4>1, BytesRise
      <4>3. before \in Nat /\ all \in Nat
        BY <1>1, <3>1, BytesTyped
      <4> HIDE DEF before, all
      <4>4. before + 1 \in 1 .. all
        BY <4>2, <4>3
      <4> QED
        BY <1>2, <4>4 DEF before, all
    <3>4. al.back[PutBytes(entries, k - 1) + 1] = entries[k].at
      BY <1>2, <1>4, <3>1, <3>2
    <3> QED
      BY <1>3, <3>2, <3>3, <3>4
  <2> QED
    BY <2>1, <2>2
<1>5. MaxA(c) = reach + n /\ MaxAprime(c) = PutBytes(longer, Len(longer))
  BY <1>1, <1>2, <1>3
<1> QED
  BY <1>4, <1>5 DEF MapsPut, longer

\* Four bytes behind a span are mapped to where the next one begins.
LEMMA SpanMapped ==
  ASSUME NEW t \in Texts, NEW entries \in Seq(Entries(t)), NEW al \in TidyAlignments,
         NEW reach, MapsPut(al, entries, reach)
  PROVE  /\ Closed(AlignInsert(al, 4)) \in TidyAlignments
         /\ MapsSpan(Closed(AlignInsert(al, 4)), entries, reach)
<1> DEFINE n == 4
           c == AlignInsert(al, n)
           d == Closed(c)
           size == Len(entries)
<1>1. n \in Nat /\ n > 1
  OBVIOUS
<1> HIDE DEF n
<1>2. Extended(al, c, 0, n) /\ c.back[MaxAprime(al) + 1] = MaxA(al)
  BY <1>1, InsertExtends
<1> HIDE DEF c
<1>3. c \in TidyAlignments
  BY <1>2 DEF Extended
<1>4. d \in TidyAlignments /\ \A x : BackOf(d, x) = BackOf(c, x)
  BY <1>3, ClosedKeeps
<1> HIDE DEF d
<1>5. /\ MaxA(al) = reach /\ MaxAprime(al) = PutBytes(entries, size)
      /\ \A k \in 1 .. size : IsLetter(entries[k]) =>
           al.back[PutBytes(entries, k - 1) + 1] = entries[k].at
  BY DEF MapsPut
<1>6. /\ MaxAprime(c) = MaxAprime(al) + n /\ MaxAprime(al) \in Nat
      /\ \A i \in 1 .. MaxAprime(al) : c.back[i] = al.back[i]
  BY <1>2, AlignmentTyped DEF Extended
<1>7. \A x \in Nat : x <= MaxAprime(al) => BackOf(c, x) = c.back[x + 1]
  BY <1>1, <1>6 DEF BackOf
<1>8. ASSUME NEW k \in 1 .. size, IsLetter(entries[k])
      PROVE  BackOf(d, PutBytes(entries, k - 1)) = entries[k].at
  <2> DEFINE x == PutBytes(entries, k - 1)
             all == PutBytes(entries, size)
  <2>1. x \in Nat /\ all \in Nat
    <3>1. k - 1 \in 0 .. Len(entries) /\ size \in 0 .. Len(entries)
      OBVIOUS
    <3> QED
      BY <3>1, BytesTyped
  <2>2. x < all
    <3>1. size \in k .. Len(entries)
      OBVIOUS
    <3> QED
      BY <3>1, BytesRise
  <2>3. al.back[x + 1] = entries[k].at /\ MaxAprime(al) = all
    BY <1>5, <1>8
  <2> HIDE DEF x, all
  <2>4. BackOf(c, x) = c.back[x + 1] /\ x + 1 \in 1 .. MaxAprime(al)
    BY <1>7, <2>1, <2>2, <2>3
  <2>5. BackOf(d, x) = entries[k].at
    BY <1>4, <1>6, <2>3, <2>4
  <2> QED
    BY <2>5 DEF x
<1>9. BackOf(d, PutBytes(entries, size)) = reach
  <2>1. BackOf(c, MaxAprime(al)) = c.back[MaxAprime(al) + 1]
    BY <1>6, <1>7
  <2> QED
    BY <1>2, <1>4, <1>5, <2>1
<1> QED
  BY <1>4, <1>8, <1>9 DEF MapsSpan, c, d, n

\* One more character in lower case is mapped, too.
LEMMA LoweredMore ==
  ASSUME NEW t \in Texts, NEW entries \in Seq(Entries(t)), NEW n \in 1 .. Len(entries),
         NEW al \in TidyAlignments, MapsLowered(al, entries, n - 1)
  PROVE  /\ LowerOne(al, entries[n]) \in TidyAlignments
         /\ MapsLowered(LowerOne(al, entries[n]), entries, n)
<1> DEFINE e == entries[n]
           c == LowerOne(al, e)
           m == n - 1
<1>1. e \in Entries(t)
  BY EntryAt
<1>2. /\ PutBytes(entries, n) = PutBytes(entries, m) + e.bytes
      /\ LowerBytes(entries, n) = LowerBytes(entries, m) + e.lower
      /\ m \in 0 .. n
  BY BytesAdd
<1> HIDE DEF e
<1>3. Extended(al, c, e.bytes, e.lower) /\ c.back[MaxAprime(al) + 1] = MaxA(al)
  BY <1>1, LowerOneExtends
<1> HIDE DEF c
<1>4. /\ MaxA(al) = PutBytes(entries, m) /\ MaxAprime(al) = LowerBytes(entries, m)
      /\ \A k \in 1 .. m : al.back[LowerBytes(entries, k - 1) + 1] = PutBytes(entries, k - 1)
  BY DEF MapsLowered
<1>5. /\ c \in TidyAlignments
      /\ MaxA(c) = MaxA(al) + e.bytes /\ MaxAprime(c) = MaxAprime(al) + e.lower
      /\ \A i \in 1 .. MaxAprime(al) : c.back[i] = al.back[i]
  BY <1>3 DEF Extended
<1>6. MaxA(c) = PutBytes(entries, n) /\ MaxAprime(c) = LowerBytes(entries, n)
  BY <1>2, <1>4, <1>5
<1>7. ASSUME NEW k \in 1 .. n
      PROVE  c.back[LowerBytes(entries, k - 1) + 1] = PutBytes(entries, k - 1)
  <2>1. CASE k = n
    BY <1>3, <1>4, <2>1
  <2>2. CASE k # n
    <3>1. k \in 1 .. m /\ k \in 1 .. Len(entries) /\ m \in k .. Len(entries)
      BY <2>2
    <3> DEFINE x == LowerBytes(entries, k - 1)
               all == LowerBytes(entries, m)
    <3>2. x < all
      BY <3>1, BytesRise
    <3>3. x \in Nat /\ all \in Nat
      <4>1. k - 1 \in 0 .. Len(entries) /\ m \in 0 .. Len(entries)
        BY <3>1
      <4> QED
        BY <4>1, BytesTyped
    <3>4. al.back[x + 1] = PutBytes(entries, k - 1) /\ MaxAprime(al) = all
      BY <1>4, <3>1
    <3> HIDE DEF x, all
    <3>5. x + 1 \in 1 .. MaxAprime(al)
      BY <3>2, <3>3, <3>4
    <3>6. c.back[x + 1] = PutBytes(entries, k - 1)
      BY <1>5, <3>4, <3>5
    <3> QED
      BY <3>6 DEF x
  <2> QED
    BY <2>1, <2>2
<1> QED
  BY <1>5, <1>6, <1>7 DEF MapsLowered, c, e

-----------------------------------------------------------------------------
(* Letters in order *)

\* Where only non-letters are passed, no letter is missing.
LEMMA NoneMissed ==
  ASSUME NEW t \in Texts, NEW entries \in Seq(Entries(t)),
         NEW from \in Nat, NEW to \in Nat, from <= to, InOrder(t, entries, from),
         \A o \in Letters(t) : o < from \/ to <= o
  PROVE  InOrder(t, entries, to)
<1>1. \A o \in Letters(t) : o \in Nat
  BY TextCharacters DEF Letters
<1>2. \A k \in 1 .. Len(entries) : entries[k].at \in Int
  <2>1. \A k \in 1 .. Len(entries) : entries[k] \in Entries(t)
    OBVIOUS
  <2> QED
    BY <2>1, EntryTyped, Zenon
<1>3. \A k \in 1 .. Len(entries) : IsLetter(entries[k]) => entries[k].at < to
  BY <1>2 DEF InOrder
<1>4. \A at \in Letters(t) : at < to => at < from
  BY <1>1
<1> QED
  BY <1>3, <1>4 DEF InOrder

\* A space is not a letter.
LEMMA SpaceInOrder ==
  ASSUME NEW t \in Texts, NEW entries \in Seq(Entries(t)), NEW reach \in Nat,
         InOrder(t, entries, reach)
  PROVE  InOrder(t, Append(entries, PutSpace), reach)
<1> DEFINE longer == Append(entries, PutSpace)
           size == Len(entries)
<1>1. PutSpace \in Entries(t) /\ ~ IsLetter(PutSpace)
  BY DEF Entries, IsLetter, PutSpace
<1>2. /\ Len(longer) = size + 1 /\ size \in Nat /\ longer[size + 1] = PutSpace
      /\ \A k \in 1 .. size : longer[k] = entries[k]
  BY <1>1, EntryAppended
<1> HIDE DEF longer
<1>3. \A k \in 1 .. Len(longer) : IsLetter(longer[k]) => k \in 1 .. size
  BY <1>1, <1>2
<1>4. \A k \in 1 .. size : k \in 1 .. Len(longer)
  BY <1>2
<1>5. \A k \in 1 .. Len(longer) : IsLetter(longer[k]) => longer[k].at < reach
  BY <1>2, <1>3 DEF InOrder
<1>6. ASSUME NEW at \in Letters(t), at < reach
      PROVE  \E k \in 1 .. Len(longer) : longer[k].at = at
  <2>1. PICK k \in 1 .. size : entries[k].at = at
    BY <1>6 DEF InOrder
  <2> QED
    BY <1>2, <1>4, <2>1
<1>7. \A j, k \in 1 .. Len(longer) :
        IsLetter(longer[j]) /\ IsLetter(longer[k]) /\ j < k => longer[j].at < longer[k].at
  BY <1>2, <1>3 DEF InOrder
<1> QED
  BY <1>5, <1>6, <1>7 DEF InOrder, longer

\* The letter at the place reached is the next.
LEMMA LetterInOrder ==
  ASSUME NEW t \in Texts, NEW entries \in Seq(Entries(t)), NEW reach \in Letters(t),
         InOrder(t, entries, reach)
  PROVE  InOrder(t, Append(entries, Char(t, reach)), reach + t.chars[reach].bytes)
<1> DEFINE e == Char(t, reach)
           longer == Append(entries, e)
           size == Len(entries)
           b == t.chars[reach].bytes
<1>1. e \in Entries(t) /\ e.at = reach
  BY DEF Entries, Char
<1>2. /\ reach \in Nat /\ b \in Nat /\ b > 0
      /\ \A o \in Letters(t) : o \in Nat /\ (o <= reach \/ reach + b <= o)
  BY TextCharacters DEF Letters
<1> HIDE DEF e, b
<1>3. /\ Len(longer) = size + 1 /\ size \in Nat /\ longer[size + 1] = e
      /\ \A k \in 1 .. size : longer[k] = entries[k]
  BY <1>1, EntryAppended
<1> HIDE DEF longer
<1>4. \A k \in 1 .. size : entries[k].at \in Int
  <2>1. \A k \in 1 .. size : entries[k] \in Entries(t)
    OBVIOUS
  <2> QED
    BY <2>1, EntryTyped, Zenon
<1>5. \A k \in 1 .. Len(longer) : k \in 1 .. size \/ k = size + 1
  BY <1>3
<1>6. \A k \in 1 .. size : k \in 1 .. Len(longer) /\ size + 1 \in 1 .. Len(longer)
  BY <1>3
<1>7. ASSUME NEW k \in 1 .. Len(longer), IsLetter(longer[k])
      PROVE  longer[k].at < reach + b
  BY <1>1, <1>2, <1>3, <1>4, <1>5, <1>7 DEF InOrder
<1>8. ASSUME NEW at \in Letters(t), at < reach + b
      PROVE  \E k \in 1 .. Len(longer) : longer[k].at = at
  <2>1. at \in Nat /\ (at < reach \/ at = reach)
    BY <1>2, <1>8
  <2>2. CASE at = reach
    <3>1. size + 1 \in 1 .. Len(longer)
      BY <1>3
    <3> QED
      BY <1>1, <1>3, <2>2, <3>1
  <2>3. CASE at < reach
    <3>1. PICK k \in 1 .. size : entries[k].at = at
      BY <2>3 DEF InOrder
    <3> QED
      BY <1>3, <1>6, <3>1
  <2> QED
    BY <2>1, <2>2, <2>3
<1>9. ASSUME NEW j \in 1 .. Len(longer), NEW k \in 1 .. Len(longer),
             IsLetter(longer[j]), IsLetter(longer[k]), j < k
      PROVE  longer[j].at < longer[k].at
  <2>1. j \in 1 .. size
    BY <1>3, <1>9
  <2>2. CASE k = size + 1
    BY <1>1, <1>3, <1>9, <2>1, <2>2 DEF InOrder
  <2>3. CASE k \in 1 .. size
    BY <1>3, <1>9, <2>1, <2>3 DEF InOrder
  <2> QED
    BY <1>5, <2>2, <2>3
<1> QED
  BY <1>7, <1>8, <1>9 DEF InOrder, longer, e, b

-----------------------------------------------------------------------------
(* Letters of one script *)

\* A letter that needs no break.
LEMMA LetterFollows ==
  ASSUME NEW t \in Texts, NEW u, NEW entries \in Seq(Entries(t)), entries # <<>>,
         NEW reach \in Letters(t), Alone(t, u, entries), MayFollow(t, u, entries, reach),
         \/ Script(t, reach) \in {u, Inherited}
         \/ Script(t, reach + t.chars[reach].bytes) \in {Common, u}
  PROVE  LET longer == Append(entries, Char(t, reach)) IN
         /\ Alone(t, u, longer)
         /\ MayFollow(t, u, longer, reach + t.chars[reach].bytes)
         /\ IsLetter(longer[Len(longer)])
         /\ EndOf(longer[Len(longer)]) = reach + t.chars[reach].bytes
<1> DEFINE e == Char(t, reach)
           longer == Append(entries, e)
           size == Len(entries)
<1>1. e \in Entries(t) /\ e.at = reach /\ e.bytes = t.chars[reach].bytes
  BY DEF Entries, Char
<1>2. reach \in Nat /\ IsLetter(e) /\ EndOf(e) = reach + t.chars[reach].bytes
  BY <1>1, TextCharacters DEF Letters, IsLetter, EndOf
<1>3. reach < t.length /\ Script(t, reach) # Common
  BY TextCharacters DEF Letters, Script
<1> HIDE DEF e
<1>4. /\ Len(longer) = size + 1 /\ size \in Nat /\ size # 0 /\ longer[size + 1] = e
      /\ \A k \in 1 .. size : longer[k] = entries[k]
  BY <1>1, EntryAppended
<1> HIDE DEF longer
<1>5. Foreign(t, u, e) => Script(t, EndOf(e)) \in {Common, u}
  BY <1>1, <1>2 DEF Foreign
<1>6. MayFollow(t, u, longer, EndOf(e))
  BY <1>2, <1>4, <1>5 DEF MayFollow
<1>7. Foreign(t, u, e) =>
        IsLetter(entries[size]) /\ ~ Foreign(t, u, entries[size])
        /\ EndOf(entries[size]) = reach
  BY <1>1, <1>2, <1>3 DEF MayFollow, Foreign
<1>8. ASSUME NEW k \in 1 .. Len(longer), Foreign(t, u, longer[k])
      PROVE  /\ k - 1 >= 1 /\ IsLetter(longer[k-1]) /\ ~ Foreign(t, u, longer[k-1])
             /\ EndOf(longer[k-1]) = longer[k].at
  <2>1. CASE k = size + 1
    <3>1. k - 1 = size /\ longer[k] = e /\ longer[k-1] = entries[size] /\ k - 1 >= 1
      BY <1>4, <2>1
    <3> QED
      BY <1>1, <1>7, <1>8, <3>1
  <2>2. CASE k # size + 1
    <3>1. k \in 1 .. size /\ longer[k] = entries[k]
      BY <1>4, <2>2
    <3>2. /\ k - 1 >= 1 /\ IsLetter(entries[k-1]) /\ ~ Foreign(t, u, entries[k-1])
          /\ EndOf(entries[k-1]) = entries[k].at
      BY <1>8, <3>1 DEF Alone
    <3>3. longer[k-1] = entries[k-1]
      BY <1>4, <3>1, <3>2
    <3> QED
      BY <3>1, <3>2, <3>3
  <2> QED
    BY <2>1, <2>2
<1> QED
  BY <1>2, <1>4, <1>6, <1>8 DEF Alone, longer, e

\* A space behind the letters, and where it leaves the span.
LEMMA SpaceFollows ==
  ASSUME NEW t \in Texts, NEW u, NEW entries \in Seq(Entries(t)), entries # <<>>,
         NEW reach \in Starts(t), Alone(t, u, entries), Ended(t, u, entries, reach),
         NEW next \in Starts(t), reach <= next
  PROVE  LET longer == Append(entries, PutSpace) IN
         /\ Alone(t, u, longer) /\ CutsFull(t, u, longer, next)
         /\ next < t.length /\ Script(t, next) \in {u, Inherited} => MayFollow(t, u, longer, next)
<1> DEFINE longer == Append(entries, PutSpace)
           size == Len(entries)
<1>1. PutSpace \in Entries(t) /\ ~ IsLetter(PutSpace)
  BY DEF Entries, IsLetter, PutSpace
<1>2. /\ Len(longer) = size + 1 /\ size \in Nat /\ size # 0 /\ longer[size + 1] = PutSpace
      /\ \A k \in 1 .. size : longer[k] = entries[k]
      /\ PutBytes(longer, size) = PutBytes(entries, size)
  BY <1>1, EntryAppended
<1> HIDE DEF longer
<1>3. ~ Foreign(t, u, PutSpace)
  BY <1>1 DEF Foreign
<1>4. ASSUME NEW k \in 1 .. Len(longer), Foreign(t, u, longer[k])
      PROVE  /\ k - 1 >= 1 /\ IsLetter(longer[k-1]) /\ ~ Foreign(t, u, longer[k-1])
             /\ EndOf(longer[k-1]) = longer[k].at
  <2>1. k \in 1 .. size /\ longer[k] = entries[k]
    BY <1>2, <1>3, <1>4
  <2>2. /\ k - 1 >= 1 /\ IsLetter(entries[k-1]) /\ ~ Foreign(t, u, entries[k-1])
        /\ EndOf(entries[k-1]) = entries[k].at
    BY <1>4, <2>1 DEF Alone
  <2>3. longer[k-1] = entries[k-1]
    BY <1>2, <2>1, <2>2
  <2> QED
    BY <2>1, <2>2, <2>3
<1>5. CutsFull(t, u, longer, next)
  <2>1. Len(longer) - 1 = size /\ longer[size] = entries[size] /\ size >= 1
    BY <1>2
  <2>2. reach \in Nat /\ next \in Nat
    BY TextCharacters
  <2>3. /\ EndOf(entries[size]) = reach
        /\ \/ PutBytes(entries, size) >= kMaxScriptBytes
           \/ reach = t.length
           \/ Script(t, reach) \notin {u, Inherited}
    BY DEF Ended
  <2>4. EndOf(entries[size]) = next /\ next < t.length /\ Script(t, next) \in {u, Inherited}
          => PutBytes(entries, size) >= kMaxScriptBytes
    BY <2>2, <2>3
  <2> QED
    BY <1>2, <2>1, <2>4 DEF CutsFull
<1>6. next < t.length /\ Script(t, next) \in {u, Inherited} => MayFollow(t, u, longer, next)
  BY <1>1, <1>2, <1>3 DEF MayFollow
<1> QED
  BY <1>4, <1>5, <1>6 DEF Alone, longer

-----------------------------------------------------------------------------
(* The actions *)

\* Where the scanner is.
LEMMA PlaceTyped ==
  ASSUME PlaceInv
  PROVE  /\ text \in Texts /\ text.length \in Nat /\ next_byte_ \in Nat /\ take \in Nat
         /\ Reached \in Nat /\ Reached <= text.length /\ byte_length_ \in Nat
         /\ take <= byte_length_ /\ byte_length_ = text.length - next_byte_
         /\ take < byte_length_ <=> Reached < text.length
         /\ \A at : ScriptAt(at) = Script(text, at)
         /\ \A at : CharPut(at) = Char(text, at)
<1>1. /\ text \in Texts /\ next_byte_ \in Starts(text) /\ Reached \in Starts(text)
      /\ take \in Nat /\ byte_length_ = text.length - next_byte_
  BY DEF PlaceInv
<1>2. Starts(text) \subseteq 0 .. text.length /\ text.length \in Nat
  BY <1>1, TextCharacters
<1>3. /\ next_byte_ \in Nat /\ next_byte_ <= text.length
      /\ Reached \in Nat /\ Reached <= text.length
  BY <1>1, <1>2
<1>4. /\ byte_length_ \in Nat /\ take <= byte_length_
      /\ take < byte_length_ <=> Reached < text.length
  BY <1>1, <1>2, <1>3 DEF Reached
<1>5. /\ \A at : ScriptAt(at) = Script(text, at)
      /\ \A at : CharPut(at) = Char(text, at)
  BY DEF ScriptAt, Script, CharPut, Char
<1> QED
  BY <1>1, <1>2, <1>3, <1>4, <1>5

\* The sizes are numbers, and in their order.
LEMMA SizesTyped ==
  /\ kMaxScriptBytes \in Nat /\ kMaxScriptBuffer \in Nat /\ kWithinScriptTail \in Nat
  /\ 0 < kWithinScriptTail /\ kWithinScriptTail < kMaxScriptBytes
  /\ kMaxScriptBytes + 8 <= kMaxScriptBuffer
BY ScannerAssumption

\* The soft limit is within the buffer.
LEMMA SoftLimitTyped ==
  ASSUME NEW left \in Nat
  PROVE  SoftLimit(left) \in Nat /\ SoftLimit(left) <= kMaxScriptBytes
<1> DEFINE half == left \div 2
<1>1. half \in Nat /\ 2 * half <= left
  OBVIOUS
<1> HIDE DEF half
<1>2. left < 2 * kMaxScriptBytes => half <= kMaxScriptBytes
  BY <1>1, SizesTyped
<1>3. /\ kMaxScriptBytes - kWithinScriptTail \in Nat
      /\ kMaxScriptBytes - kWithinScriptTail <= kMaxScriptBytes
  BY SizesTyped
<1> QED
  BY <1>1, <1>2, <1>3 DEF SoftLimit, half

\* At the start of a character no byte is given back.
LEMMA NoOvershoot ==
  ASSUME PlaceInv
  PROVE  Overshoot(next_byte_) = 0
<1> DEFINE S == {t \in 0 .. take : t = 0 \/ next_byte_ + t >= text.length
                                         \/ next_byte_ + t \in DOMAIN text.chars}
<1>1. take \in Nat /\ next_byte_ \in Nat /\ Reached \in Starts(text)
      /\ text.length \in Nat /\ Reached = next_byte_ + take
  BY PlaceTyped DEF PlaceInv, Reached
<1>2. take \in S
  <2>1. next_byte_ + take >= text.length \/ next_byte_ + take \in DOMAIN text.chars
    BY <1>1 DEF Starts
  <2> QED
    BY <1>1, <2>1
<1>3. \A x \in S : x \in Nat /\ x <= take
  BY <1>1
<1>4. Overshoot(next_byte_) = take - Max(S)
  BY DEF Overshoot
<1> HIDE DEF S
<1>5. Max(S) = take
  <2>1. \E x \in S : \A y \in S : x >= y
    BY <1>1, <1>2, <1>3
  <2>2. Max(S) \in S /\ \A y \in S : Max(S) >= y
    BY <2>1, Zenon DEF Max
  <2> DEFINE max == Max(S)
  <2>3. max \in Nat /\ max <= take /\ max >= take
    BY <1>2, <1>3, <2>2
  <2> HIDE DEF max
  <2>4. max = take
    BY <1>1, <2>3
  <2> QED
    BY <2>4 DEF max
<1> QED
  BY <1>1, <1>4, <1>5

\* Nothing is put.
LEMMA NoEntries ==
  ASSUME NEW t \in Texts
  PROVE  /\ <<>> \in Seq(Entries(t)) /\ Len(<<>>) = 0 /\ PutSpace \in Entries(t)
         /\ ~ IsLetter(PutSpace) /\ PutSpace.bytes = 1
         /\ \A u : Alone(t, u, <<>>)
BY DEF Entries, Alone, IsLetter, PutSpace

\* A span begins with the space before its first letter.
LEMMA SpaceTyped ==
  ASSUME NEW t \in Texts
  PROVE  /\ <<PutSpace>> \in Seq(Entries(t)) /\ Len(<<PutSpace>>) = 1
         /\ <<PutSpace>>[1] = PutSpace /\ <<PutSpace>> # <<>>
         /\ PutBytes(<<PutSpace>>, Len(<<PutSpace>>)) = 1
<1> DEFINE s == <<PutSpace>>
           n == 1
<1>1. /\ s \in Seq(Entries(t)) /\ Len(s) = n /\ s[n] = PutSpace /\ s # <<>>
      /\ n \in 1 .. Len(s) /\ n \in Nat /\ PutSpace.bytes = n
  BY NoEntries DEF PutSpace
<1> HIDE DEF s
<1>2. PutBytes(s, n) = PutBytes(s, n - 1) + s[n].bytes
  BY <1>1, BytesAdd
<1>3. PutBytes(s, 0) = 0 /\ n - 1 = 0
  BY <1>1, BytesTyped
<1> QED
  BY <1>1, <1>2, <1>3 DEF s, n

\* What a call finds, and where it leaves the scanner.
LEMMA CallFinds ==
  ASSUME IInv, GetOneScriptSpan
  PROVE  LET front == LetterFrom(next_byte_) IN
         /\ ~ InCall /\ take = 0 /\ Reached = next_byte_ /\ lowered = 0
         /\ next_byte_ \in Nat /\ front \in Starts(text) /\ front \in Nat
         /\ next_byte_ <= front /\ front <= text.length
         /\ front = text.length \/ front \in Letters(text)
         /\ InOrder(text, given, front) /\ given \in Seq(Entries(text))
         /\ text' = text /\ given' = given /\ lowered' = lowered /\ map2uplow' = map2uplow
         /\ next_byte_' = front /\ byte_length_' = text.length - front /\ call' \in Calls
<1> DEFINE front == LetterFrom(next_byte_)
<1>1. pc \in {"new", "span", "end"} /\ PlaceInv /\ BufferInv /\ OrderInv /\ MapInv
  BY DEF GetOneScriptSpan, IInv
<1>2. ~ InCall /\ take = 0 /\ lowered = 0
  BY <1>1 DEF InCall, PlaceInv, MapInv
<1>3. /\ text \in Texts /\ text.length \in Nat /\ next_byte_ \in Nat
      /\ next_byte_ \in Starts(text) /\ byte_length_ = text.length - next_byte_
      /\ Reached = next_byte_
  BY <1>1, <1>2, PlaceTyped DEF PlaceInv, Reached
<1>4. /\ front \in Starts(text) /\ next_byte_ <= front /\ front <= text.length
      /\ front = text.length \/ front \in Letters(text)
      /\ \A o \in Letters(text) : o < next_byte_ \/ front <= o
  BY <1>3, NextLetter
<1>5. front \in Nat
  BY <1>3, <1>4, TextCharacters
<1>6. /\ text' = text /\ given' = given /\ lowered' = lowered /\ map2uplow' = map2uplow
      /\ next_byte_' = next_byte_ + (front - next_byte_) /\ call' \in Calls
      /\ byte_length_' = byte_length_ - (front - next_byte_)
  BY DEF GetOneScriptSpan
<1> HIDE DEF front
<1>7. next_byte_' = front /\ byte_length_' = text.length - front
  BY <1>3, <1>5, <1>6
<1>8. given \in Seq(Entries(text)) /\ PutSoFar = given
  <2>1. given \in Seq(Entries(text)) /\ PutSoFar = given \o <<>>
    BY <1>1, <1>2 DEF BufferInv, PutSoFar
  <2> QED
    BY <2>1
<1>9. InOrder(text, given, next_byte_)
  BY <1>1, <1>3, <1>8 DEF OrderInv
<1>10. InOrder(text, given, front)
  BY <1>3, <1>4, <1>5, <1>8, <1>9, NoneMissed
<1> QED
  BY <1>2, <1>3, <1>4, <1>5, <1>6, <1>7, <1>8, <1>10 DEF front

\* No letter is left, and there is no span.
LEMMA NoSpanKeeps ==
  ASSUME IInv, GetOneScriptSpan, byte_length_' <= 0
  PROVE  IInv'
<1> DEFINE front == LetterFrom(next_byte_)
           skip == front - next_byte_
           al == FrontOfSpan(next_byte_, skip)
<1>1. /\ next_byte_ \in Nat /\ front \in Starts(text) /\ front \in Nat
      /\ next_byte_ <= front /\ front <= text.length
      /\ InOrder(text, given, front) /\ given \in Seq(Entries(text))
      /\ text' = text /\ given' = given /\ lowered' = 0 /\ map2uplow' = map2uplow
      /\ next_byte_' = front /\ byte_length_' = text.length - front /\ call' \in Calls
  BY CallFinds
<1>2. /\ pc' = "end" /\ map2original' = Closed(al)
      /\ span' = [NoSpan EXCEPT !.offset = next_byte_]
      /\ put_soft_limit' = 0 /\ take' = 0 /\ put' = 0 /\ script_buffer' = <<>>
  BY DEF GetOneScriptSpan, ClearLocals
<1> HIDE DEF al
<1>3. text \in Texts /\ text.length \in Nat /\ map2uplow \in TidyAlignments
  BY PlaceTyped DEF IInv, MapInv
<1>4. ~ InCall'
  BY <1>2 DEF InCall
<1>5. Reached' = front
  BY <1>1, <1>2 DEF Reached
<1>6. PlaceInv'
  BY <1>1, <1>2, <1>3, <1>4, <1>5 DEF PlaceInv
<1>7. BufferInv'
  <2>1. span' \in Spans(text)
    BY <1>1, <1>2 DEF Spans, NoSpan
  <2> QED
    BY <1>1, <1>2, <1>3, <1>4, <2>1, NoEntries DEF BufferInv
<1>8. OrderInv'
  <2>1. PutSoFar' = given \o <<>>
    BY <1>1, <1>4 DEF PutSoFar
  <2>2. PutSoFar' = given
    BY <1>1, <2>1
  <2> QED
    BY <1>1, <1>5, <2>2 DEF OrderInv
<1>9. ScriptInv'
  BY <1>1, <1>2, <1>3, NoEntries DEF ScriptInv
<1>10. LimitInv'
  BY <1>2, <1>4 DEF LimitInv
<1>11. MapInv'
  <2>1. skip \in Nat
    BY <1>1
  <2>2. al \in TidyAlignments
    <3> HIDE DEF skip
    <3> QED
      BY <1>1, <2>1, FrontTyped DEF al
  <2>3. map2original' \in TidyAlignments
    BY <1>2, <2>2, ClosedKeeps
  <2> QED
    BY <1>1, <1>2, <1>3, <1>4, <2>3 DEF MapInv
<1> QED
  BY <1>6, <1>7, <1>8, <1>9, <1>10, <1>11 DEF IInv

\* The front of a span is put.
LEMMA FrontKeeps ==
  ASSUME IInv, GetOneScriptSpan, ~ (byte_length_' <= 0)
  PROVE  IInv'
<1> DEFINE front == LetterFrom(next_byte_)
           skip == front - next_byte_
           al == FrontOfSpan(next_byte_, skip)
           left == text.length - front
           limit == SoftLimit(byte_length_)
           one == <<PutSpace>>
<1>1. /\ ~ InCall /\ Reached = next_byte_
      /\ next_byte_ \in Nat /\ front \in Starts(text) /\ front \in Nat
      /\ next_byte_ <= front /\ front <= text.length
      /\ front = text.length \/ front \in Letters(text)
      /\ InOrder(text, given, front) /\ given \in Seq(Entries(text))
      /\ text' = text /\ given' = given /\ lowered' = 0 /\ map2uplow' = map2uplow
      /\ next_byte_' = front /\ byte_length_' = left /\ call' \in Calls
  BY CallFinds
<1>2. text \in Texts /\ text.length \in Nat /\ map2uplow \in TidyAlignments
  BY PlaceTyped DEF IInv, MapInv
<1>3. left \in Nat /\ front < text.length /\ front \in Letters(text)
  BY <1>1, <1>2
<1>4. /\ pc' = "letters" /\ map2original' = al
      /\ span' = [NoSpan EXCEPT !.offset = next_byte_, !.ulscript = ScriptAt(front)]
      /\ put_soft_limit' = limit /\ take' = 0 /\ put' = 1 /\ script_buffer' = one
  BY DEF GetOneScriptSpan
<1>5. ScriptAt(front) = text.chars[front].script
      /\ Script(text, front) = text.chars[front].script
  BY <1>3 DEF ScriptAt, Script
<1>6. limit \in Nat /\ limit <= kMaxScriptBytes
  BY PlaceTyped, SoftLimitTyped DEF IInv
<1>7. /\ one \in Seq(Entries(text)) /\ Len(one) = 1 /\ one[1] = PutSpace /\ one # <<>>
      /\ PutBytes(one, Len(one)) = 1
  BY <1>2, SpaceTyped
<1> HIDE DEF al, limit, one
<1>8. InCall'
  BY <1>4 DEF InCall
<1>9. Reached' = front
  BY <1>1, <1>4 DEF Reached
<1>10. PlaceInv'
  BY <1>1, <1>2, <1>4, <1>8, <1>9 DEF PlaceInv
<1>11. BufferInv'
  <2>1. span' \in Spans(text)
    BY <1>1, <1>3, <1>4, <1>5 DEF Spans, NoSpan
  <2> QED
    BY <1>1, <1>4, <1>6, <1>7, <1>8, <2>1 DEF BufferInv
<1>12. OrderInv'
  <2>1. PutSoFar' = Append(given, PutSpace)
    BY <1>1, <1>4, <1>8 DEF PutSoFar, one
  <2> QED
    BY <1>1, <1>2, <1>9, <2>1, SpaceInOrder DEF OrderInv
<1>13. ScriptInv'
  <2>1. span'.ulscript = Script(text, front)
    BY <1>4, <1>5 DEF NoSpan
  <2>2. ~ IsLetter(one[1])
    BY <1>2, <1>7, NoEntries
  <2>3. Alone(text, span'.ulscript, one)
    BY <1>7, <2>2 DEF Alone, Foreign
  <2>4. MayFollow(text, span'.ulscript, one, front)
    BY <1>3, <1>7, <2>1, <2>2 DEF MayFollow, Foreign
  <2> QED
    BY <1>1, <1>4, <1>9, <2>3, <2>4 DEF ScriptInv
<1>14. LimitInv'
  <2>1. 1 < kMaxScriptBytes
    BY SizesTyped
  <2>2. PutBytes(script_buffer', Len(script_buffer')) = 1
    BY <1>4, <1>7
  <2> QED
    BY <1>4, <1>6, <2>1, <2>2 DEF LimitInv
<1>15. MapInv'
  <2>1. skip \in Nat /\ next_byte_ + skip = front
    BY <1>1
  <2>2. al \in TidyAlignments /\ MaxA(al) = front /\ MaxAprime(al) = 1
    <3> HIDE DEF skip
    <3> QED
      BY <1>1, <2>1, FrontTyped DEF al
  <2>3. ~ IsLetter(one[1])
    BY <1>2, <1>7, NoEntries
  <2>4. MapsPut(al, one, front)
    BY <1>7, <2>2, <2>3 DEF MapsPut
  <2> QED
    BY <1>1, <1>2, <1>4, <1>8, <1>9, <2>2, <2>4 DEF MapInv
<1> QED
  BY <1>10, <1>11, <1>12, <1>13, <1>14, <1>15 DEF IInv

\* What is copied is a letter that may follow.
LEMMA CopyFinds ==
  ASSUME IInv, CopyLetter
  PROVE  /\ InCall /\ Reached \in Letters(text) /\ Reached < text.length
         /\ next_byte_ + take = Reached
         /\ \/ Script(text, Reached) \in {span.ulscript, Inherited}
            \/ Script(text, Reached + text.chars[Reached].bytes) \in {Common, span.ulscript}
         /\ CharPut(Reached) = Char(text, Reached)
<1>1. pc = "letters" /\ take < byte_length_ /\ ~ NeedBreak(next_byte_ + take)
  BY DEF CopyLetter
<1>2. InCall /\ next_byte_ + take = Reached
  BY <1>1 DEF InCall, Reached
<1>3. /\ text \in Texts /\ Reached < text.length /\ Reached \in DOMAIN text.chars
      /\ ScriptAt(Reached) = Script(text, Reached) /\ CharPut(Reached) = Char(text, Reached)
      /\ ScriptAt(Reached + text.chars[Reached].bytes)
           = Script(text, Reached + text.chars[Reached].bytes)
  <2>1. PlaceInv
    BY DEF IInv
  <2>2. text \in Texts /\ Reached < text.length /\ text.length \in Nat /\ Reached \in Nat
    BY <1>1, <2>1, PlaceTyped
  <2>3. Reached \in DOMAIN text.chars
    BY <2>1, <2>2 DEF PlaceInv, Starts
  <2> QED
    BY <2>1, <2>2, <2>3, PlaceTyped
<1>4. span.ulscript # Common
  <2>1. span \in Spans(text)
    BY DEF IInv, BufferInv
  <2> QED
    BY <2>1 DEF Spans, Letters, Unknown, Common
<1>5. ~ NeedBreak(Reached)
  BY <1>1, <1>2
<1>6. /\ Script(text, Reached) # Common
      /\ \/ Script(text, Reached) \in {span.ulscript, Inherited}
         \/ Script(text, Reached + text.chars[Reached].bytes) \in {Common, span.ulscript}
  BY <1>3, <1>4, <1>5 DEF NeedBreak, Inherited, Common
<1>7. Reached \in Letters(text)
  BY <1>3, <1>6 DEF Letters, Script
<1> QED
  BY <1>2, <1>3, <1>6, <1>7

\* A letter is put.
LEMMA CopyKeeps ==
  ASSUME IInv, CopyLetter
  PROVE  IInv'
<1> DEFINE e == Char(text, Reached)
           b == text.chars[Reached].bytes
           longer == Append(script_buffer, e)
           al == AlignCopy(map2original, b)
           end == Reached + b
<1>1. /\ PlaceInv /\ BufferInv /\ OrderInv /\ ScriptInv /\ LimitInv /\ MapInv
  BY DEF IInv
<1>2. /\ InCall /\ Reached \in Letters(text) /\ Reached < text.length
      /\ next_byte_ + take = Reached
      /\ \/ Script(text, Reached) \in {span.ulscript, Inherited}
         \/ Script(text, Reached + text.chars[Reached].bytes) \in {Common, span.ulscript}
      /\ CharPut(Reached) = e
  BY CopyFinds
<1>3. /\ text \in Texts /\ text.length \in Nat /\ next_byte_ \in Nat /\ take \in Nat
      /\ Reached \in Nat
  BY <1>1, PlaceTyped
<1>4. e.bytes = b /\ e.at = Reached /\ e \in Entries(text)
  BY <1>2 DEF Char, Entries
<1>5. b \in Nat /\ 1 <= b /\ b <= 4 /\ end \in Starts(text) /\ IsLetter(e)
  BY <1>2, <1>3, <1>4, TextCharacters DEF Letters, IsLetter
<1>6. /\ take' = take + b /\ put' = put + b /\ script_buffer' = longer /\ map2original' = al
      /\ text' = text /\ next_byte_' = next_byte_ /\ byte_length_' = byte_length_
      /\ call' = call /\ put_soft_limit' = put_soft_limit
      /\ map2uplow' = map2uplow /\ lowered' = lowered /\ given' = given
      /\ IF put' >= kMaxScriptBytes
           THEN pc' = "gap" /\ span' = [span EXCEPT !.truncated = TRUE]
           ELSE pc' = "letters" /\ span' = span
  <2> DEFINE at == next_byte_ + take
             c == CharPut(at)
  <2>1. /\ take' = take + c.bytes /\ put' = put + c.bytes
        /\ script_buffer' = Append(script_buffer, c)
        /\ map2original' = AlignCopy(map2original, c.bytes)
        /\ text' = text /\ next_byte_' = next_byte_ /\ byte_length_' = byte_length_
        /\ call' = call /\ put_soft_limit' = put_soft_limit
        /\ map2uplow' = map2uplow /\ lowered' = lowered /\ given' = given
        /\ IF put' >= kMaxScriptBytes
             THEN pc' = "gap" /\ span' = [span EXCEPT !.truncated = TRUE]
             ELSE pc' = "letters" /\ span' = span
    BY DEF CopyLetter
  <2>2. c = e
    BY <1>2
  <2> HIDE DEF c, e
  <2> QED
    BY <1>4, <2>1, <2>2
<1> HIDE DEF e, b, al
<1>7. /\ longer \in Seq(Entries(text)) /\ Len(longer) = Len(script_buffer) + 1
      /\ PutBytes(longer, Len(longer)) = PutBytes(script_buffer, Len(script_buffer)) + b
      /\ script_buffer \in Seq(Entries(text)) /\ script_buffer # <<>> /\ longer # <<>>
      /\ given \in Seq(Entries(text)) /\ span \in Spans(text)
      /\ put = PutBytes(script_buffer, Len(script_buffer))
      /\ put_soft_limit \in Nat
  <2>1. /\ script_buffer \in Seq(Entries(text)) /\ script_buffer # <<>>
        /\ given \in Seq(Entries(text)) /\ span \in Spans(text)
        /\ put = PutBytes(script_buffer, Len(script_buffer))
        /\ put_soft_limit \in Nat
    BY <1>1, <1>2 DEF BufferInv
  <2>2. /\ longer \in Seq(Entries(text)) /\ Len(longer) = Len(script_buffer) + 1
        /\ PutBytes(longer, Len(longer)) = PutBytes(script_buffer, Len(script_buffer)) + b
    BY <1>3, <1>4, <2>1, EntryAppended
  <2>3. longer # <<>>
    BY <2>1
  <2> QED
    BY <2>1, <2>2, <2>3
<1>8. pc = "letters" /\ pc' \in {"letters", "gap"}
  BY <1>6 DEF CopyLetter
<1>9. InCall' /\ Reached' = end
  BY <1>2, <1>3, <1>5, <1>6, <1>8 DEF InCall, Reached
<1>10. span' \in Spans(text) /\ span'.ulscript = span.ulscript
  BY <1>6, <1>7 DEF Spans
<1> HIDE DEF longer, end
<1>11. PlaceInv'
  BY <1>1, <1>3, <1>5, <1>6, <1>8, <1>9 DEF PlaceInv
<1>12. BufferInv'
  <2>1. put' = PutBytes(longer, Len(longer))
    BY <1>6, <1>7
  <2> QED
    BY <1>6, <1>7, <1>9, <1>10, <2>1 DEF BufferInv
<1>13. OrderInv'
  <2>1. PutSoFar = given \o script_buffer /\ PutSoFar' = given \o longer
    BY <1>2, <1>6, <1>9 DEF PutSoFar
  <2>2. PutSoFar \in Seq(Entries(text)) /\ PutSoFar' = Append(PutSoFar, e)
    BY <1>4, <1>7, <2>1, AppendedBehind DEF longer
  <2> DEFINE so_far == PutSoFar
  <2>3. InOrder(text, so_far, Reached)
    BY <1>1 DEF OrderInv
  <2> HIDE DEF so_far
  <2>4. InOrder(text, Append(so_far, Char(text, Reached)), Reached + text.chars[Reached].bytes)
    BY <1>2, <1>3, <2>2, <2>3, LetterInOrder DEF so_far
  <2>5. InOrder(text, Append(so_far, e), end)
    BY <2>4 DEF e, end, b
  <2> QED
    BY <1>6, <1>9, <2>2, <2>5 DEF OrderInv, so_far
<1>14. ScriptInv'
  <2>1. Alone(text, span.ulscript, script_buffer)
        /\ MayFollow(text, span.ulscript, script_buffer, Reached)
    BY <1>1, <1>8 DEF ScriptInv
  <2>2. /\ Alone(text, span.ulscript, longer)
        /\ MayFollow(text, span.ulscript, longer, end)
        /\ IsLetter(longer[Len(longer)])
        /\ EndOf(longer[Len(longer)]) = end
    BY <1>2, <1>3, <1>7, <2>1, LetterFollows DEF longer, e, end, b
  <2>3. pc' = "gap" => PutBytes(longer, Len(longer)) >= kMaxScriptBytes
    BY <1>6, <1>7
  <2>4. pc' = "gap" => Ended(text, span.ulscript, longer, end)
    BY <2>2, <2>3 DEF Ended
  <2> QED
    BY <1>6, <1>8, <1>9, <1>10, <2>2, <2>4 DEF ScriptInv
<1>15. LimitInv'
  <2>1. put < kMaxScriptBytes /\ put_soft_limit <= kMaxScriptBytes
    BY <1>1, <1>2, <1>7, <1>8 DEF LimitInv
  <2>2. put \in Nat
    <3>1. Len(script_buffer) \in 0 .. Len(script_buffer)
      BY <1>7
    <3> QED
      BY <1>3, <1>7, <3>1, BytesTyped
  <2>3. put' <= kMaxScriptBytes + 3 /\ (pc' = "letters" => put' < kMaxScriptBytes)
    BY <1>5, <1>6, <2>1, <2>2, SizesTyped
  <2>4. put' = PutBytes(script_buffer', Len(script_buffer'))
    BY <1>6, <1>7
  <2> QED
    BY <1>6, <1>8, <2>1, <2>3, <2>4 DEF LimitInv
<1>16. MapInv'
  <2>1. map2original \in TidyAlignments /\ MapsPut(map2original, script_buffer, Reached)
    BY <1>1, <1>2 DEF MapInv
  <2>2. Extended(map2original, al, b, b)
        /\ al.back[MaxAprime(map2original) + 1] = MaxA(map2original)
    BY <1>5, <2>1, CopyExtends DEF al
  <2>3. al \in TidyAlignments
    BY <2>2 DEF Extended
  <2>4. MaxA(map2original) = Reached
    BY <2>1 DEF MapsPut
  <2>5. MapsPut(al, Append(script_buffer, e), Reached + b)
    BY <1>3, <1>4, <1>5, <1>7, <2>1, <2>2, <2>4, MappedMore
  <2>6. MapsPut(al, longer, end)
    BY <2>5 DEF longer, end
  <2>7. map2uplow' \in TidyAlignments /\ lowered' \in Nat /\ lowered' = 0
    BY <1>1, <1>6, <1>8 DEF MapInv
  <2> QED
    BY <1>6, <1>8, <1>9, <2>3, <2>6, <2>7 DEF MapInv
<1> QED
  BY <1>11, <1>12, <1>13, <1>14, <1>15, <1>16 DEF IInv

\* The letters have ended behind a letter, not behind a space.
LEMMA StopKeeps ==
  ASSUME IInv, LettersStop
  PROVE  IInv'
<1>1. /\ PlaceInv /\ BufferInv /\ OrderInv /\ ScriptInv /\ LimitInv /\ MapInv
  BY DEF IInv
<1>2. /\ pc = "letters" /\ pc' = "gap"
      /\ take >= byte_length_ \/ (take < byte_length_ /\ NeedBreak(next_byte_ + take))
      /\ text' = text /\ next_byte_' = next_byte_ /\ byte_length_' = byte_length_
      /\ span' = span /\ call' = call /\ put_soft_limit' = put_soft_limit
      /\ take' = take /\ put' = put /\ script_buffer' = script_buffer
      /\ map2original' = map2original /\ map2uplow' = map2uplow /\ lowered' = lowered
      /\ given' = given
  BY DEF LettersStop
<1>3. InCall /\ InCall' /\ Reached' = Reached
  BY <1>2 DEF InCall, Reached
<1>4. PlaceInv'
  BY <1>1, <1>2, <1>3 DEF PlaceInv
<1>5. BufferInv'
  BY <1>1, <1>2, <1>3 DEF BufferInv
<1>6. OrderInv'
  <2>1. PutSoFar' = PutSoFar
    BY <1>2, <1>3 DEF PutSoFar
  <2> QED
    BY <1>1, <1>2, <1>3, <2>1 DEF OrderInv
<1>7. ScriptInv'
  <2>1. /\ Alone(text, span.ulscript, script_buffer)
        /\ MayFollow(text, span.ulscript, script_buffer, Reached)
    BY <1>1, <1>2 DEF ScriptInv
  <2>2. Reached = text.length \/ Script(text, Reached) \notin {span.ulscript, Inherited}
    <3>1. /\ Reached <= text.length /\ Reached \in Nat /\ text.length \in Nat
          /\ take \in Nat /\ byte_length_ \in Nat
          /\ take < byte_length_ <=> Reached < text.length
          /\ ScriptAt(Reached) = Script(text, Reached)
      BY <1>1, PlaceTyped
    <3>2. CASE take >= byte_length_
      BY <3>1, <3>2
    <3>3. CASE NeedBreak(next_byte_ + take)
      BY <3>1, <3>3 DEF NeedBreak, Reached
    <3> QED
      BY <1>2, <3>2, <3>3
  <2>3. Ended(text, span.ulscript, script_buffer, Reached)
    <3>1. Reached \in Nat /\ text.length \in Nat
      BY <1>1, PlaceTyped
    <3> QED
      BY <2>1, <2>2, <3>1 DEF MayFollow, Ended
  <2> QED
    BY <1>2, <1>3, <2>1, <2>3 DEF ScriptInv
<1>8. LimitInv'
  <2>1. PutBytes(script_buffer, Len(script_buffer)) < kMaxScriptBytes
    BY <1>1, <1>2 DEF LimitInv
  <2>2. PutBytes(script_buffer, Len(script_buffer)) \in Nat
    <3>1. text \in Texts /\ script_buffer \in Seq(Entries(text))
      BY <1>1, PlaceTyped DEF BufferInv
    <3>2. Len(script_buffer) \in 0 .. Len(script_buffer)
      BY <3>1
    <3> QED
      BY <3>1, <3>2, BytesTyped
  <2>3. PutBytes(script_buffer, Len(script_buffer)) <= kMaxScriptBytes + 3
    BY <2>1, <2>2, SizesTyped
  <2> QED
    BY <1>1, <1>2, <1>3, <2>3 DEF LimitInv
<1>9. MapInv'
  BY <1>1, <1>2, <1>3 DEF MapInv
<1> QED
  BY <1>4, <1>5, <1>6, <1>7, <1>8, <1>9 DEF IInv

\* A space is put for the non-letters behind the letters.
LEMMA SkipKeeps ==
  ASSUME IInv, SkipNonLetters
  PROVE  IInv'
<1> DEFINE next == LetterFrom(Reached)
           longer == Append(script_buffer, PutSpace)
           al == AlignInsert(AlignDelete(map2original, next - Reached), 1)
           wrong == sc' \notin {span.ulscript, Inherited}
           full == put' >= put_soft_limit
<1>1. /\ PlaceInv /\ BufferInv /\ OrderInv /\ ScriptInv /\ LimitInv /\ MapInv
  BY DEF IInv
<1>2. /\ pc = "gap" /\ InCall /\ next_byte_ + take = Reached
  BY DEF SkipNonLetters, InCall, Reached
<1>3. /\ text \in Texts /\ text.length \in Nat /\ next_byte_ \in Nat /\ take \in Nat
      /\ Reached \in Nat /\ Reached \in Starts(text) /\ byte_length_ = text.length - next_byte_
      /\ \A at : ScriptAt(at) = Script(text, at)
  BY <1>1, PlaceTyped DEF PlaceInv
<1>4. /\ next \in Starts(text) /\ Reached <= next /\ next <= text.length
      /\ next = text.length \/ next \in Letters(text)
      /\ \A o \in Letters(text) : o < Reached \/ next <= o
  BY <1>3, NextLetter
<1>5. next \in Nat
  BY <1>3, <1>4, TextCharacters
<1>6. /\ sc' = IF next < text.length THEN ScriptAt(next) ELSE sc
      /\ take' = take + (next - Reached) /\ put' = put + 1
      /\ script_buffer' = longer /\ map2original' = al
      /\ span' = (IF ~ wrong /\ full THEN [span EXCEPT !.truncated = TRUE] ELSE span)
      /\ pc' = (IF wrong \/ full \/ take' >= byte_length_ THEN "finish" ELSE "letters")
      /\ text' = text /\ next_byte_' = next_byte_ /\ byte_length_' = byte_length_
      /\ call' = call /\ put_soft_limit' = put_soft_limit
      /\ map2uplow' = map2uplow /\ lowered' = lowered /\ given' = given
  <2> DEFINE at == next_byte_ + take
             n == LetterFrom(at)
  <2>1. /\ sc' = IF n < text.length THEN ScriptAt(n) ELSE sc
        /\ take' = take + (n - at) /\ put' = put + 1
        /\ script_buffer' = longer
        /\ map2original' = AlignInsert(AlignDelete(map2original, n - at), 1)
        /\ span' = (IF ~ wrong /\ full THEN [span EXCEPT !.truncated = TRUE] ELSE span)
        /\ pc' = (IF wrong \/ full \/ take' >= byte_length_ THEN "finish" ELSE "letters")
        /\ text' = text /\ next_byte_' = next_byte_ /\ byte_length_' = byte_length_
        /\ call' = call /\ put_soft_limit' = put_soft_limit
        /\ map2uplow' = map2uplow /\ lowered' = lowered /\ given' = given
    BY DEF SkipNonLetters
  <2>2. at = Reached
    BY <1>2
  <2> HIDE DEF at, wrong, full, longer
  <2> QED
    BY <2>1, <2>2
<1> HIDE DEF next, al
<1>7. /\ longer \in Seq(Entries(text)) /\ Len(longer) = Len(script_buffer) + 1
      /\ PutBytes(longer, Len(longer)) = PutBytes(script_buffer, Len(script_buffer)) + 1
      /\ script_buffer \in Seq(Entries(text)) /\ script_buffer # <<>> /\ longer # <<>>
      /\ given \in Seq(Entries(text)) /\ span \in Spans(text)
      /\ put = PutBytes(script_buffer, Len(script_buffer))
      /\ put_soft_limit \in Nat /\ put \in Nat
  <2>1. /\ script_buffer \in Seq(Entries(text)) /\ script_buffer # <<>>
        /\ given \in Seq(Entries(text)) /\ span \in Spans(text)
        /\ put = PutBytes(script_buffer, Len(script_buffer))
        /\ put_soft_limit \in Nat
    BY <1>1, <1>2 DEF BufferInv
  <2>2. PutSpace \in Entries(text) /\ PutSpace.bytes = 1
    BY <1>3, NoEntries
  <2>3. /\ longer \in Seq(Entries(text)) /\ Len(longer) = Len(script_buffer) + 1
        /\ PutBytes(longer, Len(longer)) = PutBytes(script_buffer, Len(script_buffer)) + 1
    BY <1>3, <2>1, <2>2, EntryAppended
  <2>4. longer # <<>>
    BY <2>1
  <2>5. Len(script_buffer) \in 0 .. Len(script_buffer)
    BY <2>1
  <2>6. put \in Nat
    BY <1>3, <2>1, <2>5, BytesTyped
  <2> QED
    BY <2>1, <2>3, <2>4, <2>6
<1>8. InCall' /\ Reached' = next /\ pc' \in {"finish", "letters"}
  <2>1. next_byte_ + (take + (next - Reached)) = next
    BY <1>2, <1>3, <1>5
  <2> QED
    BY <1>6, <2>1 DEF InCall, Reached
<1>9. span' \in Spans(text) /\ span'.ulscript = span.ulscript
  BY <1>6, <1>7 DEF Spans
<1>10. pc' = "letters" => /\ next < text.length /\ put' < put_soft_limit
                          /\ Script(text, next) \in {span.ulscript, Inherited}
  <2> SUFFICES ASSUME pc' = "letters"
               PROVE  /\ next < text.length /\ put' < put_soft_limit
                      /\ Script(text, next) \in {span.ulscript, Inherited}
    OBVIOUS
  <2>1. ~ wrong /\ ~ full /\ ~ (take' >= byte_length_)
    BY <1>6
  <2>2. put' < put_soft_limit
    BY <1>6, <1>7, <2>1
  <2>3. next < text.length
    BY <1>2, <1>3, <1>5, <1>6, <2>1
  <2> QED
    BY <1>3, <1>6, <2>1, <2>2, <2>3
<1> HIDE DEF longer, wrong, full
<1>11. PlaceInv'
  <2>1. take' \in Nat
    BY <1>3, <1>4, <1>5, <1>6
  <2> QED
    BY <1>1, <1>3, <1>4, <1>6, <1>8, <2>1 DEF PlaceInv
<1>12. BufferInv'
  <2>1. put' = PutBytes(longer, Len(longer))
    BY <1>6, <1>7
  <2> QED
    BY <1>6, <1>7, <1>8, <1>9, <2>1 DEF BufferInv
<1>13. OrderInv'
  <2>1. PutSoFar = given \o script_buffer /\ PutSoFar' = given \o longer
    BY <1>2, <1>6, <1>8 DEF PutSoFar
  <2>2. PutSoFar \in Seq(Entries(text)) /\ PutSoFar' = Append(PutSoFar, PutSpace)
    <3> DEFINE S == Entries(text)
    <3>1. PutSpace \in S /\ given \in Seq(S) /\ script_buffer \in Seq(S)
      BY <1>3, <1>7, NoEntries
    <3> HIDE DEF S
    <3>2. /\ given \o script_buffer \in Seq(S)
          /\ given \o longer = Append(given \o script_buffer, PutSpace)
      BY <3>1, AppendedBehind DEF longer
    <3> QED
      BY <2>1, <3>2 DEF S
  <2> DEFINE so_far == PutSoFar
  <2>3. InOrder(text, so_far, Reached)
    BY <1>1 DEF OrderInv
  <2> HIDE DEF so_far
  <2>4. InOrder(text, so_far, next)
    BY <1>3, <1>4, <1>5, <2>2, <2>3, NoneMissed DEF so_far
  <2>5. InOrder(text, Append(so_far, PutSpace), next)
    BY <1>3, <1>5, <2>2, <2>4, SpaceInOrder DEF so_far
  <2> QED
    BY <1>6, <1>8, <2>2, <2>5 DEF OrderInv, so_far
<1>14. ScriptInv'
  <2>1. /\ Alone(text, span.ulscript, script_buffer)
        /\ Ended(text, span.ulscript, script_buffer, Reached)
    BY <1>1, <1>2 DEF ScriptInv
  <2>2. /\ Alone(text, span.ulscript, longer) /\ CutsFull(text, span.ulscript, longer, next)
        /\ next < text.length /\ Script(text, next) \in {span.ulscript, Inherited}
             => MayFollow(text, span.ulscript, longer, next)
    <3> DEFINE u == span.ulscript
               b == script_buffer
    <3>1. /\ text \in Texts /\ b \in Seq(Entries(text)) /\ b # <<>>
          /\ Reached \in Starts(text) /\ next \in Starts(text) /\ Reached <= next
          /\ Alone(text, u, b) /\ Ended(text, u, b, Reached)
      BY <1>3, <1>4, <1>7, <2>1
    <3>2. longer = Append(b, PutSpace)
      BY DEF longer
    <3> HIDE DEF u, b
    <3>3. /\ Alone(text, u, longer) /\ CutsFull(text, u, longer, next)
          /\ next < text.length /\ Script(text, next) \in {u, Inherited}
               => MayFollow(text, u, longer, next)
      BY <3>1, <3>2, SpaceFollows
    <3> QED
      BY <3>3 DEF u
  <2> QED
    BY <1>6, <1>8, <1>9, <1>10, <2>2 DEF ScriptInv
<1>15. LimitInv'
  <2>1. put <= kMaxScriptBytes + 3 /\ put_soft_limit <= kMaxScriptBytes
    BY <1>1, <1>2, <1>7 DEF LimitInv
  <2>2. put' = put + 1 /\ put \in Nat /\ put_soft_limit \in Nat
    BY <1>6, <1>7
  <2>3. pc' = "letters" => put' < put_soft_limit
    BY <1>10
  <2>4. put' <= kMaxScriptBytes + 4 /\ (pc' = "letters" => put' < kMaxScriptBytes)
    BY <2>1, <2>2, <2>3, SizesTyped
  <2>5. put' = PutBytes(script_buffer', Len(script_buffer'))
    BY <1>6, <1>7
  <2> QED
    BY <1>6, <1>8, <2>1, <2>4, <2>5 DEF LimitInv
<1>16. MapInv'
  <2> DEFINE n == next - Reached
             one == 1
             c == AlignDelete(map2original, n)
  <2>1. map2original \in TidyAlignments /\ MapsPut(map2original, script_buffer, Reached)
    BY <1>1, <1>2 DEF MapInv
  <2>2. n \in Nat /\ one \in Nat /\ Reached + n = next
    BY <1>3, <1>4, <1>5
  <2> HIDE DEF n, one
  <2>3. Extended(map2original, c, n, 0)
    BY <2>1, <2>2, DeleteExtends
  <2> HIDE DEF c
  <2>4. c \in TidyAlignments
    BY <2>3 DEF Extended
  <2>5. Extended(c, AlignInsert(c, one), 0, one)
    BY <2>2, <2>4, InsertExtends
  <2>6. Extended(map2original, AlignInsert(c, one), n + 0, 0 + one)
    BY <2>1, <2>2, <2>3, <2>5, ExtendedTwice
  <2>7. Extended(map2original, al, n, one)
    <3>1. n + 0 = n /\ 0 + one = one
      BY <2>2
    <3> QED
      BY <2>6, <3>1 DEF al, c, n, one
  <2>8. PutSpace \in Entries(text) /\ PutSpace.bytes = one /\ ~ IsLetter(PutSpace)
    BY <1>3, NoEntries DEF one
  <2>9. MapsPut(al, Append(script_buffer, PutSpace), Reached + n)
    BY <1>3, <1>7, <2>1, <2>2, <2>7, <2>8, MappedMore
  <2>10. MapsPut(al, longer, next) /\ al \in TidyAlignments
    BY <2>2, <2>7, <2>9 DEF longer, Extended
  <2>11. map2uplow' \in TidyAlignments /\ lowered' \in Nat /\ lowered' = 0
    BY <1>1, <1>2, <1>6 DEF MapInv
  <2> QED
    BY <1>6, <1>8, <2>10, <2>11 DEF MapInv
<1> QED
  BY <1>11, <1>12, <1>13, <1>14, <1>15, <1>16 DEF IInv

\* A span is handed out, or is put in lower case before it is.
LEMMA FinishKeeps ==
  ASSUME IInv, Finish
  PROVE  IInv'
<1> DEFINE al == Closed(AlignInsert(map2original, 4))
<1>1. /\ PlaceInv /\ BufferInv /\ OrderInv /\ ScriptInv /\ LimitInv /\ MapInv
  BY DEF IInv
<1>2. pc = "finish" /\ InCall
  BY DEF Finish, InCall
<1>3. /\ text \in Texts /\ next_byte_ \in Nat /\ take \in Nat /\ Reached \in Nat
      /\ Reached \in Starts(text) /\ byte_length_ = text.length - next_byte_
      /\ text.length \in Nat /\ Reached = next_byte_ + take
  BY <1>1, PlaceTyped DEF PlaceInv, Reached
<1>4. /\ next_byte_' = next_byte_ + take - Overshoot(next_byte_)
      /\ byte_length_' = byte_length_ - (take - Overshoot(next_byte_))
      /\ span' = [span EXCEPT !.text_bytes = put - Overshoot(next_byte_)]
      /\ map2original' = al /\ given' = given \o script_buffer
      /\ pc' = (IF call = "lower" THEN "lower" ELSE "span")
      /\ put_soft_limit' = 0 /\ take' = 0 /\ put' = 0
      /\ text' = text /\ call' = call /\ script_buffer' = script_buffer
      /\ lowered' = lowered /\ map2uplow' = map2uplow
  BY DEF Finish
<1> HIDE DEF al
<1>5. Overshoot(next_byte_) = 0
  BY <1>1, NoOvershoot
<1>6. /\ script_buffer \in Seq(Entries(text)) /\ script_buffer # <<>>
      /\ given \in Seq(Entries(text)) /\ span \in Spans(text)
      /\ put = PutBytes(script_buffer, Len(script_buffer)) /\ put \in Nat
  <2>1. /\ script_buffer \in Seq(Entries(text)) /\ script_buffer # <<>>
        /\ given \in Seq(Entries(text)) /\ span \in Spans(text)
        /\ put = PutBytes(script_buffer, Len(script_buffer))
    BY <1>1, <1>2 DEF BufferInv
  <2>2. Len(script_buffer) \in 0 .. Len(script_buffer)
    BY <2>1
  <2>3. put \in Nat
    BY <1>3, <2>1, <2>2, BytesTyped
  <2> QED
    BY <2>1, <2>3
<1>7. /\ next_byte_' = Reached /\ byte_length_' = text.length - Reached
      /\ span' = [span EXCEPT !.text_bytes = put]
  <2> DEFINE over == Overshoot(next_byte_)
  <2>1. over = 0 /\ put - over = put
    BY <1>5, <1>6
  <2>2. next_byte_ + take - over = Reached
    BY <1>3, <2>1
  <2>3. byte_length_ - (take - over) = text.length - Reached
    BY <1>3, <2>1
  <2> QED
    BY <1>4, <2>1, <2>2, <2>3
<1>8. /\ pc' \in {"lower", "span"} /\ ~ InCall' /\ Reached' = Reached
      /\ pc' = "lower" <=> call = "lower"
  <2>1. Reached + 0 = Reached
    BY <1>3
  <2> QED
    BY <1>4, <1>7, <2>1 DEF InCall, Reached
<1>9. /\ span' \in Spans(text) /\ span'.ulscript = span.ulscript
      /\ span'.text_bytes = put
  BY <1>6, <1>7 DEF Spans
<1>10. PlaceInv'
  <2>1. 0 \in Nat /\ call \in Calls \cup {"none"}
    BY <1>1 DEF PlaceInv
  <2> QED
    BY <1>3, <1>4, <1>7, <1>8, <2>1 DEF PlaceInv
<1>11. BufferInv'
  <2>1. given \o script_buffer \in Seq(Entries(text)) /\ 0 \in Nat
    BY <1>6
  <2> QED
    BY <1>4, <1>6, <1>8, <1>9, <2>1 DEF BufferInv
<1>12. OrderInv'
  <2>1. given \o script_buffer = (given \o script_buffer) \o <<>>
    BY <1>6
  <2>2. PutSoFar' = PutSoFar
    BY <1>2, <1>4, <1>8, <2>1 DEF PutSoFar
  <2> QED
    BY <1>1, <1>4, <1>8, <2>2 DEF OrderInv
<1>13. ScriptInv'
  BY <1>1, <1>2, <1>4, <1>8, <1>9 DEF ScriptInv
<1>14. LimitInv'
  BY <1>1, <1>2, <1>4, <1>6, <1>8, <1>9 DEF LimitInv
<1>15. MapInv'
  <2>1. map2original \in TidyAlignments /\ MapsPut(map2original, script_buffer, Reached)
    BY <1>1, <1>2 DEF MapInv
  <2>2. al \in TidyAlignments /\ MapsSpan(al, script_buffer, Reached)
    BY <1>3, <1>6, <2>1, SpanMapped DEF al
  <2>3. map2uplow' \in TidyAlignments /\ lowered' = 0
    BY <1>1, <1>2, <1>4 DEF MapInv
  <2>4. ToLower' = ToLower /\ Len(ToLower) \in Nat /\ 0 <= Len(ToLower)
    <3>1. ToLower \in Seq(Entries(text))
      BY <1>3, <1>6, NoEntries DEF ToLower
    <3> QED
      BY <1>4, <3>1 DEF ToLower
  <2>5. pc' = "span" => call' # "lower"
    BY <1>4, <1>8
  <2> QED
    BY <1>4, <1>8, <2>2, <2>3, <2>4, <2>5 DEF MapInv
<1> QED
  BY <1>10, <1>11, <1>12, <1>13, <1>14, <1>15 DEF IInv

\* What is put in lower case: the span and three spaces behind it.
LEMMA ToLowerTyped ==
  ASSUME NEW t \in Texts, script_buffer \in Seq(Entries(t))
  PROVE  LET n == Len(script_buffer) IN
         /\ ToLower \in Seq(Entries(t)) /\ Len(ToLower) = n + 3
         /\ \A k \in 1 .. n : ToLower[k] = script_buffer[k]
         /\ \A k \in 0 .. n : /\ PutBytes(ToLower, k) = PutBytes(script_buffer, k)
                              /\ LowerBytes(ToLower, k) = LowerBytes(script_buffer, k)
         /\ LowerBytes(ToLower, n + 3) = LowerBytes(script_buffer, n) + 3
<1> DEFINE n == Len(script_buffer)
           l == ToLower
<1>1. /\ l \in Seq(Entries(t)) /\ Len(l) = n + 3 /\ n \in Nat
      /\ \A k \in 1 .. n : l[k] = script_buffer[k]
      /\ l[n + 1] = PutSpace /\ l[n + 2] = PutSpace /\ l[n + 3] = PutSpace
  BY NoEntries DEF ToLower
<1> HIDE DEF l
<1>2. ASSUME NEW k \in 0 .. n
      PROVE  /\ PutBytes(l, k) = PutBytes(script_buffer, k)
             /\ LowerBytes(l, k) = LowerBytes(script_buffer, k)
  <2>1. \A i \in 1 .. k : l[i] = script_buffer[i]
    BY <1>1
  <2> QED
    BY <2>1, BytesAlike
<1>3. ASSUME NEW k \in {n + 1, n + 2, n + 3}
      PROVE  LowerBytes(l, k) = LowerBytes(l, k - 1) + 1 /\ LowerBytes(l, k - 1) \in Nat
  <2>1. k \in 1 .. Len(l) /\ l[k] = PutSpace /\ l[k].lower = 1
    BY <1>1 DEF PutSpace
  <2> QED
    BY <1>1, <2>1, BytesAdd
<1>4. /\ LowerBytes(l, n + 1) = LowerBytes(l, n) + 1 /\ LowerBytes(l, n) \in Nat
      /\ LowerBytes(l, n + 2) = LowerBytes(l, n + 1) + 1
      /\ LowerBytes(l, n + 3) = LowerBytes(l, n + 2) + 1
  <2>1. (n + 1) - 1 = n /\ (n + 2) - 1 = n + 1 /\ (n + 3) - 1 = n + 2
    BY <1>1
  <2> QED
    BY <1>3, <2>1
<1>5. LowerBytes(l, n + 3) = LowerBytes(l, n) + 3
  <2> DEFINE p == LowerBytes(l, n)
             q == LowerBytes(l, n + 1)
             r == LowerBytes(l, n + 2)
  <2>1. p \in Nat /\ q = p + 1 /\ r = q + 1
    BY <1>4
  <2> HIDE DEF p, q, r
  <2>2. r + 1 = p + 3
    BY <2>1
  <2> QED
    BY <1>4, <2>2 DEF p, r
<1>6. n \in 0 .. n
  BY <1>1
<1> QED
  BY <1>1, <1>2, <1>5, <1>6 DEF l

\* One more character is put in lower case.
LEMMA LowerCharacterKeeps ==
  ASSUME IInv, LowerCharacter
  PROVE  IInv'
<1> DEFINE n == lowered + 1
           before == IF lowered = 0 THEN EmptyAlignment ELSE map2uplow
<1>1. /\ PlaceInv /\ BufferInv /\ OrderInv /\ ScriptInv /\ LimitInv /\ MapInv
  BY DEF IInv
<1>2. /\ pc = "lower" /\ lowered < Len(ToLower) /\ lowered' = n
      /\ map2uplow' = LowerOne(before, ToLower[n])
      /\ pc' = pc /\ text' = text /\ next_byte_' = next_byte_ /\ byte_length_' = byte_length_
      /\ span' = span /\ call' = call /\ put_soft_limit' = put_soft_limit
      /\ take' = take /\ put' = put /\ script_buffer' = script_buffer
      /\ map2original' = map2original /\ given' = given
  BY DEF LowerCharacter
<1>3. /\ InCall' = InCall /\ ~ InCall /\ Reached' = Reached /\ PutSoFar' = PutSoFar
      /\ ToLower' = ToLower
  BY <1>2 DEF InCall, Reached, PutSoFar, ToLower
<1>4. PlaceInv'
  BY <1>1, <1>2, <1>3 DEF PlaceInv
<1>5. BufferInv'
  BY <1>1, <1>2, <1>3 DEF BufferInv
<1>6. OrderInv'
  BY <1>1, <1>2, <1>3 DEF OrderInv
<1>7. ScriptInv'
  BY <1>1, <1>2, <1>3 DEF ScriptInv
<1>8. LimitInv'
  BY <1>1, <1>2, <1>3 DEF LimitInv
<1>9. MapInv'
  <2>1. text \in Texts /\ script_buffer \in Seq(Entries(text))
    BY <1>1 DEF PlaceInv, BufferInv
  <2>2. ToLower \in Seq(Entries(text))
    BY <2>1, ToLowerTyped
  <2>3. /\ lowered \in Nat /\ map2uplow \in TidyAlignments
        /\ lowered > 0 => MapsLowered(map2uplow, ToLower, lowered)
    BY <1>1, <1>2 DEF MapInv
  <2>4. n \in 1 .. Len(ToLower) /\ n \in Nat /\ n - 1 = lowered /\ n > 0
    BY <1>2, <2>2, <2>3
  <2>5. before \in TidyAlignments /\ MapsLowered(before, ToLower, lowered)
    <3>1. CASE lowered = 0
      <4>1. before = EmptyAlignment
        BY <3>1
      <4>2. MapsLowered(EmptyAlignment, ToLower, 0)
        BY <2>1, <2>2, EmptyTyped, BytesTyped DEF MapsLowered
      <4> QED
        BY <3>1, <4>1, <4>2, EmptyTyped
    <3>2. CASE lowered # 0
      BY <2>3, <3>2
    <3> QED
      BY <3>1, <3>2
  <2> HIDE DEF n, before
  <2>6. /\ LowerOne(before, ToLower[n]) \in TidyAlignments
        /\ MapsLowered(LowerOne(before, ToLower[n]), ToLower, n)
    BY <2>1, <2>2, <2>4, <2>5, LoweredMore
  <2>7. n <= Len(ToLower)
    BY <2>2, <2>4
  <2> QED
    BY <1>1, <1>2, <1>3, <2>4, <2>6, <2>7 DEF MapInv
<1> QED
  BY <1>4, <1>5, <1>6, <1>7, <1>8, <1>9 DEF IInv

\* A span in lower case is handed out.
LEMMA LowerSpanKeeps ==
  ASSUME IInv, LowerScriptSpan
  PROVE  IInv'
<1> DEFINE filled == LowerBytes(ToLower, Len(ToLower))
           n == Len(script_buffer)
<1>1. /\ PlaceInv /\ BufferInv /\ OrderInv /\ ScriptInv /\ LimitInv /\ MapInv
  BY DEF IInv
<1>2. /\ pc = "lower" /\ lowered = Len(ToLower) /\ lowered' = 0 /\ pc' = "span"
      /\ span' = [span EXCEPT !.text_bytes = filled - 3]
      /\ map2uplow' = Closed(map2uplow)
      /\ text' = text /\ next_byte_' = next_byte_ /\ byte_length_' = byte_length_
      /\ call' = call /\ put_soft_limit' = put_soft_limit
      /\ take' = take /\ put' = put /\ script_buffer' = script_buffer
      /\ map2original' = map2original /\ given' = given
  BY DEF LowerScriptSpan
<1>3. /\ ~ InCall' /\ ~ InCall /\ Reached' = Reached /\ PutSoFar' = PutSoFar
      /\ ToLower' = ToLower
  BY <1>2 DEF InCall, Reached, PutSoFar, ToLower
<1>4. text \in Texts /\ script_buffer \in Seq(Entries(text)) /\ span \in Spans(text)
  BY <1>1 DEF PlaceInv, BufferInv
<1>5. filled - 3 = LowerBytes(script_buffer, n) /\ LowerBytes(script_buffer, n) \in Nat
  <2>1. filled = LowerBytes(script_buffer, n) + 3
    BY <1>4, ToLowerTyped
  <2>2. n \in 0 .. n
    BY <1>4
  <2>3. LowerBytes(script_buffer, n) \in Nat
    BY <1>4, <2>2, BytesTyped
  <2> QED
    BY <2>1, <2>3
<1> HIDE DEF filled
<1>6. /\ span' \in Spans(text) /\ span'.ulscript = span.ulscript
      /\ span'.text_bytes = LowerBytes(script_buffer, n)
  BY <1>2, <1>4, <1>5 DEF Spans
<1>7. PlaceInv'
  BY <1>1, <1>2, <1>3 DEF PlaceInv
<1>8. BufferInv'
  BY <1>1, <1>2, <1>3, <1>6 DEF BufferInv
<1>9. OrderInv'
  BY <1>1, <1>2, <1>3 DEF OrderInv
<1>10. ScriptInv'
  BY <1>1, <1>2, <1>3, <1>6 DEF ScriptInv
<1>11. LimitInv'
  <2>1. call = "lower"
    BY <1>1, <1>2 DEF MapInv
  <2> QED
    BY <1>1, <1>2, <1>3, <1>6, <2>1 DEF LimitInv
<1>12. MapInv'
  <2>1. ToLower \in Seq(Entries(text)) /\ Len(ToLower) = n + 3 /\ n \in Nat
    BY <1>4, ToLowerTyped
  <2>2. lowered > 0 /\ 0 \in Nat
    BY <1>2, <2>1
  <2>3. map2uplow \in TidyAlignments /\ MapsLowered(map2uplow, ToLower, Len(ToLower))
    BY <1>1, <1>2, <2>2 DEF MapInv
  <2>4. Closed(map2uplow) \in TidyAlignments
        /\ MapsLowered(Closed(map2uplow), ToLower, Len(ToLower))
    BY <2>3, ClosedKeeps DEF MapsLowered
  <2> QED
    BY <1>1, <1>2, <1>3, <2>2, <2>4 DEF MapInv
<1> QED
  BY <1>7, <1>8, <1>9, <1>10, <1>11, <1>12 DEF IInv

\* A new scanner has put nothing.
LEMMA InitHolds == Init => IInv
<1> SUFFICES ASSUME Init PROVE IInv
  OBVIOUS
<1>1. /\ text \in Texts /\ pc = "new" /\ ~ InCall /\ call = "none"
      /\ next_byte_ = 0 /\ byte_length_ = text.length /\ take = 0 /\ put = 0
      /\ put_soft_limit = 0 /\ span = NoSpan /\ script_buffer = <<>> /\ given = <<>>
      /\ lowered = 0 /\ map2original = EmptyAlignment /\ map2uplow = EmptyAlignment
  BY DEF Init, InCall
<1>2. Reached = 0 /\ PutSoFar = <<>>
  BY <1>1 DEF Reached, PutSoFar
<1>3. /\ text.length \in Nat /\ 0 \in Starts(text) /\ \A at \in Letters(text) : at >= 0
  BY <1>1, TextCharacters DEF Letters
<1>4. /\ <<>> \in Seq(Entries(text)) /\ Len(<<>>) = 0 /\ \A u : Alone(text, u, <<>>)
  BY <1>1, NoEntries
<1>5. PlaceInv
  BY <1>1, <1>2, <1>3 DEF PlaceInv
<1>6. BufferInv
  <2>1. NoSpan \in Spans(text)
    BY DEF NoSpan, Spans
  <2> QED
    BY <1>1, <1>4, <2>1 DEF BufferInv
<1>7. OrderInv
  <2>1. InOrder(text, <<>>, 0)
    <3>1. Letters(text) \subseteq Nat
      BY <1>1, TextCharacters DEF Letters
    <3> QED
      BY <1>3, <1>4, <3>1 DEF InOrder
  <2> QED
    BY <1>2, <2>1 DEF OrderInv
<1>8. ScriptInv
  BY <1>1, <1>4 DEF ScriptInv
<1>9. LimitInv
  BY <1>1 DEF LimitInv
<1>10. MapInv
  BY <1>1, EmptyTyped DEF MapInv
<1> QED
  BY <1>5, <1>6, <1>7, <1>8, <1>9, <1>10 DEF IInv

\* Every step keeps the invariant.
LEMMA StepHolds == IInv /\ [Next]_vars => IInv'
<1> SUFFICES ASSUME IInv, [Next]_vars PROVE IInv'
  OBVIOUS
<1>1. CASE GetOneScriptSpan
  BY <1>1, NoSpanKeeps, FrontKeeps
<1>2. CASE CopyLetter
  BY <1>2, CopyKeeps
<1>3. CASE LettersStop
  BY <1>3, StopKeeps
<1>4. CASE SkipNonLetters
  BY <1>4, SkipKeeps
<1>5. CASE Finish
  BY <1>5, FinishKeeps
<1>6. CASE LowerCharacter
  BY <1>6, LowerCharacterKeeps
<1>7. CASE LowerScriptSpan
  BY <1>7, LowerSpanKeeps
<1>8. CASE UNCHANGED vars
  <2>1. /\ pc' = pc /\ text' = text /\ next_byte_' = next_byte_
        /\ byte_length_' = byte_length_ /\ span' = span /\ call' = call
        /\ put_soft_limit' = put_soft_limit /\ take' = take /\ put' = put
        /\ script_buffer' = script_buffer /\ lowered' = lowered
        /\ map2original' = map2original /\ map2uplow' = map2uplow /\ given' = given
    BY <1>8 DEF vars
  <2>2. Reached' = Reached /\ PutSoFar' = PutSoFar /\ ToLower' = ToLower /\ InCall' = InCall
    BY <2>1 DEF Reached, PutSoFar, ToLower, InCall
  <2>3. PlaceInv' /\ BufferInv' /\ OrderInv'
    BY <2>1, <2>2 DEF IInv, PlaceInv, BufferInv, OrderInv
  <2>4. ScriptInv' /\ LimitInv' /\ MapInv'
    BY <2>1, <2>2 DEF IInv, ScriptInv, LimitInv, MapInv
  <2> QED
    BY <2>3, <2>4 DEF IInv
<1> QED
  BY <1>1, <1>2, <1>3, <1>4, <1>5, <1>6, <1>7, <1>8 DEF Next

\* The invariant holds throughout.
THEOREM InvariantHolds == Spec => []IInv
<1>1. Init => IInv
  BY InitHolds
<1>2. IInv /\ [Next]_vars => IInv'
  BY StepHolds
<1> QED
  BY <1>1, <1>2, PTL DEF Spec

-----------------------------------------------------------------------------
(* The properties *)

\* Every variable keeps its type, and next_byte_ and byte_length_ agree.
THEOREM ScannerTypeCorrect == Spec => []TypeOK
<1>1. IInv => TypeOK
  <2> SUFFICES ASSUME IInv PROVE TypeOK
    OBVIOUS
  <2>1. PlaceInv /\ BufferInv /\ MapInv
    BY DEF IInv
  <2>2. /\ take \in 0 .. byte_length_ /\ next_byte_ \in DOMAIN text.chars \cup {text.length}
    BY <2>1, PlaceTyped DEF PlaceInv, Starts
  <2>3. put \in Nat
    <3>1. text \in Texts /\ script_buffer \in Seq(Entries(text))
      BY <2>1 DEF PlaceInv, BufferInv
    <3>2. Len(script_buffer) \in 0 .. Len(script_buffer)
      BY <3>1
    <3>3. PutBytes(script_buffer, Len(script_buffer)) \in Nat
      BY <3>1, <3>2, BytesTyped
    <3> QED
      BY <2>1, <3>3 DEF BufferInv
  <2>4. {span.offset, span.text_bytes} \subseteq Nat /\ span.truncated \in BOOLEAN
    BY <2>1 DEF BufferInv, Spans
  <2>5. {map2original.op, map2uplow.op} \subseteq Ops
    BY <2>1, AlignmentTyped DEF MapInv
  <2> QED
    BY <2>1, <2>2, <2>3, <2>4, <2>5 DEF TypeOK, PlaceInv, BufferInv
<1> QED
  BY <1>1, InvariantHolds, PTL

\* The spans of a text, in their order, hold all the letters that have been
\* passed, each once.
THEOREM NoLetterIsLost == Spec => []EveryLetterOnce
<1>1. IInv => EveryLetterOnce
  <2> SUFFICES ASSUME IInv PROVE EveryLetterOnce
    OBVIOUS
  <2> DEFINE p == PutSoFar
             letters == {k \in DOMAIN p : IsLetter(p[k])}
  <2>1. /\ PlaceInv /\ BufferInv /\ text \in Texts /\ Reached \in Nat
        /\ InOrder(text, p, Reached)
    BY PlaceTyped DEF IInv, OrderInv
  <2>2. p \in Seq(Entries(text)) /\ DOMAIN p = 1 .. Len(p)
    BY <2>1 DEF PutSoFar, BufferInv
  <2>3. p = given \o (IF InCall THEN script_buffer ELSE <<>>)
    BY DEF PutSoFar
  <2> HIDE DEF p
  <2>4. \A k \in letters : p[k].at \in Letters(text) /\ p[k].at < Reached
    <3> TAKE k \in letters
    <3>1. k \in 1 .. Len(p) /\ IsLetter(p[k])
      BY <2>2
    <3>2. p[k] \in Entries(text)
      BY <2>1, <2>2, <3>1, EntryAt
    <3>3. p[k].at \in Letters(text)
      BY <2>1, <3>1, <3>2, EntryTyped
    <3> QED
      BY <2>1, <3>1, <3>3 DEF InOrder
  <2>5. \A at \in Letters(text) : at < Reached => \E k \in letters : p[k].at = at
    <3> SUFFICES ASSUME NEW at \in Letters(text), at < Reached
                 PROVE  \E k \in letters : p[k].at = at
      OBVIOUS
    <3>1. PICK k \in 1 .. Len(p) : p[k].at = at
      BY <2>1 DEF InOrder
    <3>2. at \in Nat
      BY <2>1, TextCharacters DEF Letters
    <3> QED
      BY <2>2, <3>1, <3>2 DEF IsLetter
  <2>6. \A j, k \in letters : j < k => p[j].at < p[k].at
    BY <2>1, <2>2 DEF InOrder
  <2>7. {p[k].at : k \in letters} =
          {at \in DOMAIN text.chars :
             at < next_byte_ + take /\ text.chars[at].script # Common}
    <3>1. Letters(text) = {at \in DOMAIN text.chars : text.chars[at].script # Common}
      BY DEF Letters
    <3> HIDE DEF letters
    <3> QED
      BY <2>4, <2>5, <3>1 DEF Reached
  <2> QED
    BY <2>3, <2>6, <2>7 DEF EveryLetterOnce
<1> QED
  BY <1>1, InvariantHolds, PTL

\* A letter of another script has letters of the span's own before and none
\* of another behind it.
THEOREM SpansKeepToAScript == Spec => []OneScript
<1>1. IInv => OneScript
  <2> SUFFICES ASSUME IInv PROVE OneScript
    OBVIOUS
  <2> DEFINE b == script_buffer
             Other(k) == /\ IsLetter(b[k])
                         /\ ScriptAt(b[k].at) \notin {span.ulscript, Inherited}
  <2>1. /\ Alone(text, span.ulscript, b) /\ \A at : ScriptAt(at) = Script(text, at)
        /\ b \in Seq(Entries(text))
    BY PlaceTyped DEF IInv, ScriptInv, BufferInv
  <2>2. \A k : Other(k) <=> Foreign(text, span.ulscript, b[k])
    BY <2>1 DEF Foreign
  <2>3. \A k \in 1 .. Len(b) : Other(k) =>
          /\ IsLetter(b[k-1]) /\ ~ Other(k-1) /\ b[k-1].at + b[k-1].bytes = b[k].at
    <3> HIDE DEF Other
    <3> QED
      BY <2>1, <2>2 DEF Alone, EndOf
  <2>4. DOMAIN b = 1 .. Len(b)
    BY <2>1
  <2> QED
    BY <2>3, <2>4 DEF OneScript
<1> QED
  BY <1>1, InvariantHolds, PTL

\* The buffers hold every span, with what is put behind it; the span in lower
\* case fits because no letter grows by more than half.
THEOREM SpansFitBuffers == Spec => []FitsBuffer
<1>1. IInv => FitsBuffer
  <2> SUFFICES ASSUME IInv PROVE FitsBuffer
    OBVIOUS
  <2> DEFINE b == script_buffer
             size == PutBytes(b, Len(b))
             low == LowerBytes(b, Len(b))
             limit == (kMaxScriptBuffer * 3) \div 2
  <2>1. /\ text \in Texts /\ b \in Seq(Entries(text))
        /\ InCall => put = size
    BY DEF IInv, PlaceInv, BufferInv
  <2>2. size \in Nat /\ low \in Nat /\ 2 * low <= 3 * size
    <3>1. Len(b) \in 0 .. Len(b)
      BY <2>1
    <3> QED
      BY <2>1, <3>1, BytesTyped, LowerWithin
  <2>3. /\ pc = "letters" => size < kMaxScriptBytes
        /\ pc \in {"finish", "span"} => size <= kMaxScriptBytes + 4
        /\ pc = "span" => span.text_bytes \in {low, size}
    BY DEF IInv, LimitInv
  <2>4. InCall <=> pc \in {"letters", "gap", "finish"}
    BY DEF InCall
  <2> HIDE DEF size, low
  <2>5. pc = "letters" => put + 4 <= kMaxScriptBuffer
    BY <2>1, <2>2, <2>3, <2>4, SizesTyped
  <2>6. pc = "finish" => put + 4 <= kMaxScriptBuffer
    BY <2>1, <2>2, <2>3, <2>4, SizesTyped
  <2>7. pc = "span" => span.text_bytes + 4 <= limit
    <3> SUFFICES ASSUME pc = "span" PROVE span.text_bytes + 4 <= limit
      OBVIOUS
    <3>1. /\ limit \in Int /\ 2 * limit + 1 >= kMaxScriptBuffer * 3
      BY SizesTyped
    <3> HIDE DEF limit
    <3>2. size <= kMaxScriptBytes + 4
      BY <2>3
    <3>3. low + 4 <= limit /\ size + 4 <= limit
      BY <2>2, <3>1, <3>2, SizesTyped
    <3> QED
      BY <2>3, <3>3
  <2> QED
    BY <2>1, <2>5, <2>6, <2>7 DEF FitsBuffer, size
<1> QED
  BY <1>1, InvariantHolds, PTL

\* A word is only cut where kMaxScriptBytes have been put.
THEOREM WordsAreCutWhenFull == Spec => []CutsWordsWhenFull
<1>1. IInv => CutsWordsWhenFull
  <2> SUFFICES ASSUME IInv, EndsInWord
               PROVE  PutBytes(script_buffer, Len(script_buffer) - 1) >= kMaxScriptBytes
    BY DEF CutsWordsWhenFull
  <2> DEFINE n == Len(script_buffer) - 1
  <2>1. PlaceInv /\ pc = "span" /\ take = 0
    BY DEF IInv, EndsInWord, PlaceInv, InCall
  <2>2. /\ Reached = next_byte_ /\ byte_length_ = text.length - next_byte_
        /\ next_byte_ \in Nat /\ text.length \in Nat
        /\ ScriptAt(next_byte_) = Script(text, next_byte_)
    BY <2>1, PlaceTyped DEF Reached
  <2>3. CutsFull(text, span.ulscript, script_buffer, next_byte_)
    BY <2>1, <2>2 DEF IInv, ScriptInv
  <2>4. /\ EndOf(script_buffer[n]) = next_byte_ /\ byte_length_ > 0
        /\ Script(text, next_byte_) \in {span.ulscript, Inherited}
    BY <2>2 DEF EndsInWord, EndOf
  <2>5. next_byte_ < text.length
    BY <2>2, <2>4
  <2> QED
    BY <2>3, <2>4, <2>5 DEF CutsFull
<1> QED
  BY <1>1, InvariantHolds, PTL

\* Only a call for lower case changes its map.
LEMMA CallInvHolds == Spec => []CallInv
<1>1. Init => CallInv
  BY DEF Init, CallInv
<1>2. IInv /\ CallInv /\ [Next]_vars => CallInv'
  <2> SUFFICES ASSUME IInv, CallInv, [Next]_vars PROVE CallInv'
    OBVIOUS
  <2>1. CASE GetOneScriptSpan
    BY <2>1 DEF GetOneScriptSpan, CallInv
  <2>2. CASE CopyLetter \/ LettersStop \/ SkipNonLetters \/ Finish
    <3>1. call' = call /\ map2uplow' = map2uplow /\ pc # "new"
      BY <2>2 DEF CopyLetter, LettersStop, SkipNonLetters, Finish
    <3> QED
      BY <3>1 DEF CallInv
  <2>3. CASE LowerCharacter \/ LowerScriptSpan
    <3>1. call' = call /\ pc = "lower" /\ call = "lower"
      BY <2>3 DEF LowerCharacter, LowerScriptSpan, IInv, MapInv
    <3> QED
      BY <3>1 DEF CallInv
  <2>4. CASE UNCHANGED vars
    BY <2>4 DEF vars, CallInv
  <2> QED
    BY <2>1, <2>2, <2>3, <2>4 DEF Next
<1> QED
  BY <1>1, <1>2, InvariantHolds, PTL DEF Spec

\* Where an entry begins in the lower case of a span, and where it ends.
LEMMA LoweredMapsBack ==
  ASSUME NEW t \in Texts, script_buffer \in Seq(Entries(t)),
         map2uplow \in TidyAlignments, MapsLowered(map2uplow, ToLower, Len(ToLower)),
         NEW k \in 0 .. Len(script_buffer)
  PROVE  BackOf(map2uplow, LowerBytes(script_buffer, k)) = PutBytes(script_buffer, k)
<1> DEFINE at == LowerBytes(script_buffer, k)
           i == k + 1
<1>1. /\ ToLower \in Seq(Entries(t)) /\ Len(ToLower) = Len(script_buffer) + 3
      /\ LowerBytes(ToLower, k) = at /\ PutBytes(ToLower, k) = PutBytes(script_buffer, k)
  BY ToLowerTyped
<1>2. at \in Nat
  BY BytesTyped
<1>3. /\ i \in 1 .. Len(ToLower) /\ i - 1 = k /\ Len(ToLower) \in i .. Len(ToLower)
  BY <1>1
<1> HIDE DEF at, i
<1>4. LowerBytes(ToLower, i - 1) < LowerBytes(ToLower, Len(ToLower))
  BY <1>1, <1>3, BytesRise
<1>5. /\ MaxAprime(map2uplow) = LowerBytes(ToLower, Len(ToLower))
      /\ map2uplow.back[LowerBytes(ToLower, i - 1) + 1] = PutBytes(ToLower, i - 1)
  BY <1>3 DEF MapsLowered
<1>6. at < MaxAprime(map2uplow) /\ map2uplow.back[at + 1] = PutBytes(script_buffer, k)
  BY <1>1, <1>3, <1>4, <1>5
<1> QED
  BY <1>2, <1>6 DEF BackOf, at

\* For one kind of call the two maps agree on what they map.
LEMMA LettersGoBack ==
  ASSUME OneKindOfCall, IInv, CallInv
  PROVE  MapsLettersBack
<1> SUFFICES ASSUME pc = "span" PROVE MapsLettersBack
  BY DEF MapsLettersBack
<1> DEFINE b == script_buffer
<1>1. /\ PlaceInv /\ text \in Texts /\ b \in Seq(Entries(text)) /\ take = 0
      /\ map2uplow \in TidyAlignments
      /\ MapsSpan(map2original, b, Reached)
      /\ call = "lower" => /\ span.text_bytes = LowerBytes(b, Len(b))
                           /\ MapsLowered(map2uplow, ToLower, Len(ToLower))
      /\ call # "lower" => span.text_bytes = PutBytes(b, Len(b))
  BY DEF IInv, PlaceInv, BufferInv, MapInv, LimitInv, InCall
<1>2. Reached = next_byte_
  BY <1>1, PlaceTyped DEF Reached
<1>3. \A k \in 0 .. Len(b) : PutBytes(b, k) \in Nat
  BY <1>1, BytesTyped
<1>4. \A k \in 0 .. Len(b) :
        BackOf(map2uplow, IF call = "lower" THEN LowerBytes(b, k) ELSE PutBytes(b, k))
          = PutBytes(b, k)
  <2> TAKE k \in 0 .. Len(b)
  <2>1. CASE Calls = {"lower"}
    <3>1. call = "lower"
      BY <2>1 DEF CallInv
    <3>2. BackOf(map2uplow, LowerBytes(b, k)) = PutBytes(b, k)
      BY <1>1, <3>1, LoweredMapsBack
    <3> QED
      BY <3>1, <3>2
  <2>2. CASE Calls = {"plain"}
    <3>1. call # "lower" /\ map2uplow = EmptyAlignment
      BY <2>2 DEF CallInv
    <3> DEFINE at == PutBytes(b, k)
    <3>2. at \in Nat /\ MaxA(map2uplow) = 0 /\ MaxAprime(map2uplow) = 0
      BY <1>3, <3>1, EmptyTyped
    <3> HIDE DEF at
    <3>3. BackOf(map2uplow, at) = at
      BY <3>2 DEF BackOf
    <3> QED
      BY <3>1, <3>3 DEF at
  <2> QED
    BY <2>1, <2>2 DEF OneKindOfCall
<1>5. ASSUME NEW k \in DOMAIN b, IsLetter(b[k])
      PROVE  MapBack(PositionOf(k)) = b[k].at
  <2> DEFINE j == k - 1
  <2>1. j \in 0 .. Len(b) /\ k \in 1 .. Len(b)
    BY <1>1
  <2>2. PositionOf(k) = IF call = "lower" THEN LowerBytes(b, j) ELSE PutBytes(b, j)
    BY DEF PositionOf
  <2>3. BackOf(map2original, PutBytes(b, j)) = b[k].at
    BY <1>1, <1>5, <2>1 DEF MapsSpan
  <2> HIDE DEF j
  <2>4. BackOf(map2uplow, PositionOf(k)) = PutBytes(b, j)
    BY <1>4, <2>1, <2>2
  <2> QED
    BY <2>3, <2>4 DEF MapBack
<1>6. MapBack(span.text_bytes) = next_byte_
  <2> DEFINE n == Len(b)
  <2>1. n \in 0 .. Len(b)
    BY <1>1
  <2>2. BackOf(map2uplow, span.text_bytes) = PutBytes(b, n)
    BY <1>1, <1>4, <2>1
  <2>3. BackOf(map2original, PutBytes(b, n)) = next_byte_
    BY <1>1, <1>2 DEF MapsSpan
  <2> QED
    BY <2>2, <2>3 DEF MapBack
<1> QED
  BY <1>5, <1>6 DEF MapsLettersBack

\* Every letter of a span, and its end, is mapped back to where it is in the
\* text, if the scanner is asked for one kind of span only.  (The run
\* ScannerMixedCalls shows that this is needed.)
THEOREM LettersMapBack ==
  ASSUME OneKindOfCall
  PROVE  Spec => []MapsLettersBack
<1>1. IInv /\ CallInv => MapsLettersBack
  BY LettersGoBack
<1> QED
  BY <1>1, InvariantHolds, CallInvHolds, PTL

-----------------------------------------------------------------------------
(* The scanner within a call *)

\* A step of a call is a step of the scanner or leaves it alone.
LEMMA StepScans == [INext]_allvars => [Next]_vars
<1> SUFFICES ASSUME [INext]_allvars PROVE [Next]_vars
  OBVIOUS
<1>1. CASE Begin \/ AppendSpan \/ FindLanguageEnds \/ CountSpan \/ SkipSpan \/ FindTopNEnds
  BY <1>1 DEF Begin, AppendSpan, FindLanguageEnds, CountSpan, SkipSpan, FindTopNEnds
<1>2. CASE Ask
  BY <1>2 DEF Ask, Next
<1>3. CASE Scan
  BY <1>3 DEF Scan, Next
<1>4. CASE UNCHANGED allvars
  BY <1>4 DEF allvars
<1> QED
  BY <1>1, <1>2, <1>3, <1>4 DEF INext

\* Whatever is called, the scanner behaves as its own specification says: a
\* call asks for a span only when the one before has been handed out.
THEOREM CallScans == ISpec => Spec
<1>1. IInit => Init
  BY DEF IInit
<1> QED
  BY <1>1, StepScans, PTL DEF ISpec, Spec

-----------------------------------------------------------------------------
(* The statistics *)

Stats == [byte_sum : Nat, num_chunks : Nat,
          byte_ranges : Seq([start_index : Nat, end_index : Nat])]

ByteSums   == [l \in DOMAIN lang_stats |-> lang_stats[l].byte_sum]
Lengths    == [i \in DOMAIN counted |-> counted[i].bytes]
SpansOf(l) == {i \in DOMAIN counted : counted[i].language = l}

\* What a call has counted.
StatsInv ==
  /\ IsFiniteSet(DOMAIN lang_stats) /\ DOMAIN lang_stats \subseteq Languages
  /\ lang_stats \in [DOMAIN lang_stats -> Stats]
  /\ \E S : counted \in Seq(S)
  /\ \A i \in DOMAIN counted :
       counted[i].bytes \in Nat /\ counted[i].language \in DOMAIN lang_stats
  /\ total_num_bytes \in Nat
  /\ SumFunctionOnSet(ByteSums, DOMAIN lang_stats) = total_num_bytes
  /\ \A l \in DOMAIN lang_stats :
       /\ lang_stats[l].byte_sum = SumFunctionOnSet(Lengths, SpansOf(l))
       /\ lang_stats[l].num_chunks = Cardinality(SpansOf(l))
       /\ Len(lang_stats[l].byte_ranges) = lang_stats[l].num_chunks

\* The invariant is what it should be.
LEMMA StatsAddUp == StatsInv => BytesAddUp
<1> SUFFICES ASSUME StatsInv PROVE BytesAddUp
  OBVIOUS
<1>1. DOMAIN ByteSums = DOMAIN lang_stats
  BY DEF ByteSums
<1>2. SumFunction(ByteSums) = total_num_bytes
  BY <1>1 DEF StatsInv, SumFunction
<1> QED
  BY <1>2 DEF StatsInv, BytesAddUp, ByteSums, Lengths, SpansOf

\* Offsets are mapped back to offsets, and never run backwards.
LEMMA BackRises ==
  ASSUME NEW al \in TidyAlignments, NEW x \in Nat, NEW y \in Nat, x <= y
  PROVE  BackOf(al, x) \in Nat /\ BackOf(al, y) \in Nat /\ BackOf(al, x) <= BackOf(al, y)
<1>1. /\ MaxA(al) \in Nat /\ MaxAprime(al) \in Nat /\ MaxAprime(al) = Len(al.back)
      /\ al.back \in Seq(Nat) /\ Tidy(al)
  BY AlignmentTyped DEF MaxAprime
<1>2. /\ \A i \in 1 .. MaxAprime(al) : al.back[i] \in Nat /\ al.back[i] <= MaxA(al)
      /\ \A i, j \in 1 .. MaxAprime(al) : i <= j => al.back[i] <= al.back[j]
  <2>1. Runs(al)
    BY <1>1 DEF Tidy
  <2>2. \A i \in 1 .. MaxAprime(al) : al.back[i] \in Nat
    BY <1>1
  <2> QED
    BY <2>1, <2>2 DEF Runs
<1>3. \A z \in Nat : z < MaxAprime(al) => BackOf(al, z) = al.back[z + 1]
  BY DEF BackOf
<1>4. \A z \in Nat : ~ (z < MaxAprime(al)) => BackOf(al, z) = z - MaxAprime(al) + MaxA(al)
  BY DEF BackOf
<1>5. CASE y < MaxAprime(al)
  <2>1. x + 1 \in 1 .. MaxAprime(al) /\ y + 1 \in 1 .. MaxAprime(al) /\ x + 1 <= y + 1
    BY <1>1, <1>5
  <2>2. x < MaxAprime(al)
    BY <1>1, <1>5
  <2> QED
    BY <1>2, <1>3, <1>5, <2>1, <2>2
<1>6. CASE ~ (y < MaxAprime(al)) /\ x < MaxAprime(al)
  <2>1. x + 1 \in 1 .. MaxAprime(al)
    BY <1>1, <1>6
  <2>2. BackOf(al, x) = al.back[x + 1] /\ BackOf(al, y) = y - MaxAprime(al) + MaxA(al)
    BY <1>3, <1>4, <1>6
  <2>3. al.back[x + 1] \in Nat /\ al.back[x + 1] <= MaxA(al)
    BY <1>2, <2>1
  <2> DEFINE u == al.back[x + 1]
             p == MaxAprime(al)
             q == MaxA(al)
  <2>4. u \in Nat /\ u <= q /\ p \in Nat /\ q \in Nat /\ ~ (y < p)
    BY <1>1, <1>6, <2>3
  <2> HIDE DEF u, p, q
  <2>5. u <= y - p + q /\ y - p + q \in Nat /\ u \in Nat
    BY <2>4
  <2> QED
    BY <2>2, <2>5 DEF u, p, q
<1>7. CASE ~ (y < MaxAprime(al)) /\ ~ (x < MaxAprime(al))
  BY <1>1, <1>4, <1>7
<1> QED
  BY <1>5, <1>6, <1>7

\* So does MapBack.
LEMMA MapBackRises ==
  ASSUME IInv, NEW x \in Nat, NEW y \in Nat, x <= y
  PROVE  MapBack(x) \in Nat /\ MapBack(y) \in Nat /\ MapBack(x) <= MapBack(y)
<1>1. map2original \in TidyAlignments /\ map2uplow \in TidyAlignments
  BY DEF IInv, MapInv
<1>2. /\ BackOf(map2uplow, x) \in Nat /\ BackOf(map2uplow, y) \in Nat
      /\ BackOf(map2uplow, x) <= BackOf(map2uplow, y)
  BY <1>1, BackRises
<1> QED
  BY <1>1, <1>2, BackRises DEF MapBack

\* A span that is counted: what is left of it, and the range that is noted.
LEMMA CountFinds ==
  ASSUME IInv, CountSpan
  PROVE  \E new_length \in Nat, l \in Languages :
           /\ pc = "span" /\ new_length >= min_num_bytes
           /\ new_length <= span.text_bytes /\ span.text_bytes \in Nat
           /\ SpanRange(new_length) \in [start_index : Nat, end_index : Nat]
           /\ lang_stats' = WithSpan(l, span.text_bytes, new_length)
           /\ counted' = Append(counted, SpanInInput(l))
           /\ total_num_bytes' = total_num_bytes + span.text_bytes
<1>1. PICK new_length \in SqueezedLengths(span.text_bytes), l \in Languages :
        /\ new_length >= min_num_bytes
        /\ lang_stats' = WithSpan(l, span.text_bytes, new_length)
        /\ counted' = Append(counted, SpanInInput(l))
  BY DEF CountSpan
<1>2. span.text_bytes \in Nat
  BY DEF IInv, BufferInv, Spans
<1>3. new_length \in Nat /\ new_length <= span.text_bytes
  BY <1>2 DEF SqueezedLengths
<1>4. SpanRange(new_length) \in [start_index : Nat, end_index : Nat]
  <2> DEFINE z == 0
  <2>1. z \in Nat /\ z <= new_length
    BY <1>3
  <2> HIDE DEF z
  <2>2. MapBack(z) \in Nat /\ MapBack(new_length) \in Nat
    BY <1>3, <2>1, MapBackRises
  <2> QED
    BY <2>2 DEF SpanRange, z
<1> QED
  BY <1>1, <1>2, <1>3, <1>4 DEF CountSpan, HaveSpan

\* What counting a span makes of the statistics.
LEMMA SpanCounted ==
  ASSUME StatsInv, NEW l, NEW b \in Nat, NEW n,
         SpanRange(n) \in [start_index : Nat, end_index : Nat],
         lang_stats' = WithSpan(l, b, n)
  PROVE  LET old == StatsOf(l) IN
         /\ DOMAIN lang_stats' = DOMAIN lang_stats \cup {l}
         /\ old \in Stats /\ lang_stats'[l] \in Stats
         /\ lang_stats'[l].byte_sum = old.byte_sum + b
         /\ lang_stats'[l].num_chunks = old.num_chunks + 1
         /\ lang_stats'[l].byte_ranges = Append(old.byte_ranges, SpanRange(n))
         /\ Len(lang_stats'[l].byte_ranges) = Len(old.byte_ranges) + 1
         /\ \A k \in DOMAIN lang_stats \ {l} : lang_stats'[k] = lang_stats[k]
         /\ lang_stats' \in [DOMAIN lang_stats' -> Stats]
<1> DEFINE old == StatsOf(l)
           r == SpanRange(n)
           new == [old EXCEPT !.byte_sum = @ + b, !.num_chunks = @ + 1,
                              !.byte_ranges = Append(@, r)]
<1>1. lang_stats \in [DOMAIN lang_stats -> Stats]
  BY DEF StatsInv
<1>2. old \in Stats
  <2>1. NoStats \in Stats
    BY DEF NoStats, Stats
  <2> QED
    BY <1>1, <2>1 DEF StatsOf
<1>3. lang_stats' = [k \in DOMAIN lang_stats \cup {l} |-> IF k = l THEN new ELSE lang_stats[k]]
  BY DEF WithSpan, WithStats
<1> HIDE DEF old, r
<1>4. /\ new \in Stats /\ new.byte_sum = old.byte_sum + b
      /\ new.num_chunks = old.num_chunks + 1
      /\ new.byte_ranges = Append(old.byte_ranges, r)
      /\ Len(new.byte_ranges) = Len(old.byte_ranges) + 1
  <2> DEFINE R == [start_index : Nat, end_index : Nat]
             more == Append(old.byte_ranges, r)
  <2>1. old \in [byte_sum : Nat, num_chunks : Nat, byte_ranges : Seq(R)]
    BY <1>2 DEF Stats
  <2>2. r \in R
    BY DEF r
  <2> HIDE DEF R
  <2>3. more \in Seq(R) /\ Len(more) = Len(old.byte_ranges) + 1
    BY <2>1, <2>2
  <2>4. new \in [byte_sum : Nat, num_chunks : Nat, byte_ranges : Seq(R)]
    <3> DEFINE x == old.byte_sum + b
               y == old.num_chunks + 1
    <3>1. x \in Nat /\ y \in Nat
      BY <2>1
    <3>2. new = [old EXCEPT !.byte_sum = x, !.num_chunks = y, !.byte_ranges = more]
      OBVIOUS
    <3> HIDE DEF x, y, more, new
    <3> QED
      BY <2>1, <2>3, <3>1, <3>2
  <2>5. /\ new.byte_sum = old.byte_sum + b /\ new.num_chunks = old.num_chunks + 1
        /\ new.byte_ranges = more
    BY <2>1
  <2> QED
    BY <2>3, <2>4, <2>5 DEF Stats, R
<1> HIDE DEF new
<1> QED
  BY <1>1, <1>2, <1>3, <1>4 DEF old, r

\* One more element of a sequence is behind all others.
LEMMA OneMoreCounted ==
  ASSUME NEW S, NEW s \in Seq(S), NEW e
  PROVE  /\ \E T : Append(s, e) \in Seq(T)
         /\ DOMAIN Append(s, e) = DOMAIN s \cup {Len(s) + 1}
         /\ Len(s) + 1 \notin DOMAIN s /\ Append(s, e)[Len(s) + 1] = e
         /\ \A i \in DOMAIN s : Append(s, e)[i] = s[i]
         /\ IsFiniteSet(DOMAIN s)
<1> DEFINE T == S \cup {e}
<1>1. s \in Seq(T) /\ e \in T
  BY SeqMonotonic
<1> HIDE DEF T
<1>2. /\ Append(s, e) \in Seq(T) /\ Len(Append(s, e)) = Len(s) + 1
      /\ \A i \in 1 .. Len(s) : Append(s, e)[i] = s[i]
      /\ Append(s, e)[Len(s) + 1] = e
  BY <1>1
<1>3. DOMAIN s = 1 .. Len(s) /\ Len(s) \in Nat
  BY <1>1
<1>4. IsFiniteSet(DOMAIN s)
  <2> DEFINE one == 1
             n == Len(s)
  <2>1. one \in Int /\ n \in Int /\ DOMAIN s = one .. n
    BY <1>3
  <2> HIDE DEF one, n
  <2> QED
    BY <2>1, FS_Interval
<1>5. DOMAIN Append(s, e) = 1 .. Len(s) + 1
  BY <1>2
<1> QED
  BY <1>2, <1>3, <1>4, <1>5

\* The bytes of all languages grow by those of the span.
LEMMA SumGrows ==
  ASSUME StatsInv, NEW l, NEW b \in Nat,
         DOMAIN lang_stats' = DOMAIN lang_stats \cup {l},
         \A k \in DOMAIN lang_stats \ {l} : lang_stats'[k] = lang_stats[k],
         lang_stats'[l].byte_sum = StatsOf(l).byte_sum + b
  PROVE  SumFunctionOnSet(ByteSums', DOMAIN lang_stats')
           = SumFunctionOnSet(ByteSums, DOMAIN lang_stats) + b
<1> DEFINE D == DOMAIN lang_stats
           S == D \ {l}
           f == ByteSums
           g == ByteSums'
           old == StatsOf(l).byte_sum
<1>1. /\ IsFiniteSet(D) /\ \A k \in D : f[k] \in Nat /\ f[k] = lang_stats[k].byte_sum
  BY DEF StatsInv, Stats, ByteSums
<1>2. \A k \in D \cup {l} : g[k] = lang_stats'[k].byte_sum
  BY DEF ByteSums
<1>3. old \in Nat /\ (l \in D => old = f[l]) /\ (l \notin D => old = 0)
  BY <1>1 DEF StatsOf, NoStats
<1>4. /\ DOMAIN lang_stats' = S \cup {l} /\ l \notin S
      /\ g[l] = old + b /\ \A k \in S : g[k] = f[k] /\ f[k] \in Nat
  BY <1>1, <1>2
<1>5. IsFiniteSet(S)
  BY <1>1, FS_RemoveElement
<1> HIDE DEF f, g, old, S, D
<1>6. /\ \A k \in S \cup {l} : g[k] \in Nat
      /\ \A k \in S : f[k] \in Nat /\ g[k] = f[k]
      /\ \A k \in S : g[k] \in Nat /\ f[k] = g[k]
  BY <1>3, <1>4
<1>7. /\ SumFunctionOnSet(g, S \cup {l}) = SumFunctionOnSet(g, S) + g[l]
      /\ SumFunctionOnSet(g, S) \in Nat
  BY <1>4, <1>5, <1>6, SumWithOneMore
<1>8. SumFunctionOnSet(f, S) = SumFunctionOnSet(g, S)
  BY <1>5, <1>6, SumsOfSame
<1>9. SumFunctionOnSet(f, D) = SumFunctionOnSet(f, S) + old
  <2>1. CASE l \in D
    <3>1. D = S \cup {l}
      BY <2>1 DEF S
    <3>2. \A k \in S \cup {l} : f[k] \in Nat
      BY <1>1, <3>1
    <3>3. SumFunctionOnSet(f, S \cup {l}) = SumFunctionOnSet(f, S) + f[l]
      BY <1>4, <1>5, <3>2, SumWithOneMore
    <3> QED
      BY <1>3, <2>1, <3>1, <3>3
  <2>2. CASE l \notin D
    <3>1. D = S
      BY <2>2 DEF S
    <3> QED
      BY <1>3, <1>7, <1>8, <2>2, <3>1
  <2> QED
    BY <2>1, <2>2
<1>10. SumFunctionOnSet(g, S \cup {l}) = SumFunctionOnSet(f, D) + b
  BY <1>3, <1>4, <1>7, <1>8, <1>9
<1> QED
  BY <1>4, <1>10 DEF g, f, D

\* The spans of the language grow by this one, those of others stay.
LEMMA SpansGrow ==
  ASSUME StatsInv, NEW l, NEW b \in Nat, NEW e, e.language = l, e.bytes = b,
         counted' = Append(counted, e), NEW k
  PROVE  /\ SumFunctionOnSet(Lengths', SpansOf(k)')
              = SumFunctionOnSet(Lengths, SpansOf(k)) + (IF k = l THEN b ELSE 0)
         /\ SumFunctionOnSet(Lengths, SpansOf(k)) \in Nat
         /\ Cardinality(SpansOf(k)') = Cardinality(SpansOf(k)) + (IF k = l THEN 1 ELSE 0)
         /\ Cardinality(SpansOf(k)) \in Nat
<1> DEFINE f == Lengths
           g == Lengths'
           S == SpansOf(k)
           T == SpansOf(k)'
           n == Len(counted) + 1
<1>1. PICK V : counted \in Seq(V)
  BY DEF StatsInv
<1>2. /\ DOMAIN counted' = DOMAIN counted \cup {n} /\ n \notin DOMAIN counted
      /\ counted'[n] = e /\ \A i \in DOMAIN counted : counted'[i] = counted[i]
      /\ IsFiniteSet(DOMAIN counted)
  BY <1>1, OneMoreCounted
<1>3. \A i \in DOMAIN counted : f[i] \in Nat /\ f[i] = counted[i].bytes
  BY DEF StatsInv, Lengths
<1>4. g[n] = b /\ \A i \in DOMAIN counted : g[i] = f[i]
  BY <1>2, <1>3 DEF Lengths
<1>5. /\ S \subseteq DOMAIN counted /\ n \notin S
      /\ T = IF k = l THEN S \cup {n} ELSE S
  BY <1>2 DEF SpansOf
<1>6. IsFiniteSet(S) /\ Cardinality(S) \in Nat
  BY <1>2, <1>5, FS_Subset, FS_CardinalityType
<1> HIDE DEF f, g, S, T, n
<1>7. /\ \A i \in S : f[i] \in Nat /\ g[i] = f[i]
      /\ \A i \in S \cup {n} : g[i] \in Nat
  BY <1>3, <1>4, <1>5
<1>8. SumFunctionOnSet(f, S) = SumFunctionOnSet(g, S) /\ SumFunctionOnSet(f, S) \in Nat
  BY <1>6, <1>7, SumsOfSame
<1>9. CASE k = l
  <2>1. SumFunctionOnSet(g, S \cup {n}) = SumFunctionOnSet(g, S) + g[n]
    BY <1>5, <1>6, <1>7, SumWithOneMore
  <2>2. Cardinality(S \cup {n}) = Cardinality(S) + 1
    BY <1>5, <1>6, FS_AddElement
  <2>3. T = S \cup {n}
    BY <1>5, <1>9
  <2> QED
    BY <1>4, <1>6, <1>8, <1>9, <2>1, <2>2, <2>3 DEF f, g, S, T
<1>10. CASE k # l
  <2>1. T = S
    BY <1>5, <1>10
  <2> QED
    BY <1>6, <1>8, <1>10, <2>1 DEF f, g, S, T
<1> QED
  BY <1>9, <1>10

\* A span of a language adds to its statistics and to the total.
LEMMA CountKeepsStats ==
  ASSUME IInv, StatsInv, CountSpan
  PROVE  StatsInv'
<1>1. PICK n \in Nat, l \in Languages :
        /\ span.text_bytes \in Nat
        /\ SpanRange(n) \in [start_index : Nat, end_index : Nat]
        /\ lang_stats' = WithSpan(l, span.text_bytes, n)
        /\ counted' = Append(counted, SpanInInput(l))
        /\ total_num_bytes' = total_num_bytes + span.text_bytes
  BY CountFinds
<1> DEFINE b == span.text_bytes
           e == SpanInInput(l)
           old == StatsOf(l)
           D == DOMAIN lang_stats
<1>2. b \in Nat /\ e.language = l /\ e.bytes = b /\ counted' = Append(counted, e)
  BY <1>1 DEF SpanInInput
<1>3. /\ DOMAIN lang_stats' = D \cup {l}
      /\ old \in Stats /\ lang_stats'[l] \in Stats
      /\ lang_stats'[l].byte_sum = old.byte_sum + b
      /\ lang_stats'[l].num_chunks = old.num_chunks + 1
      /\ Len(lang_stats'[l].byte_ranges) = Len(old.byte_ranges) + 1
      /\ \A k \in D \ {l} : lang_stats'[k] = lang_stats[k]
      /\ lang_stats' \in [DOMAIN lang_stats' -> Stats]
  BY <1>1, SpanCounted
<1>4. \A k : /\ SumFunctionOnSet(Lengths', SpansOf(k)')
                  = SumFunctionOnSet(Lengths, SpansOf(k)) + (IF k = l THEN b ELSE 0)
             /\ SumFunctionOnSet(Lengths, SpansOf(k)) \in Nat
             /\ Cardinality(SpansOf(k)') = Cardinality(SpansOf(k)) + (IF k = l THEN 1 ELSE 0)
             /\ Cardinality(SpansOf(k)) \in Nat
  <2> TAKE k
  <2> HIDE DEF b, e
  <2> QED
    BY <1>2, SpansGrow
<1>5. SumFunctionOnSet(ByteSums', DOMAIN lang_stats') = total_num_bytes'
  <2>1. SumFunctionOnSet(ByteSums', DOMAIN lang_stats') = SumFunctionOnSet(ByteSums, D) + b
    BY <1>2, <1>3, SumGrows
  <2> QED
    BY <1>1, <2>1 DEF StatsInv
<1>6. /\ IsFiniteSet(DOMAIN lang_stats') /\ DOMAIN lang_stats' \subseteq Languages
      /\ total_num_bytes' \in Nat
  <2>1. IsFiniteSet(D) /\ D \subseteq Languages /\ total_num_bytes \in Nat
    BY DEF StatsInv
  <2>2. IsFiniteSet(D \cup {l})
    BY <2>1, FS_AddElement
  <2> QED
    BY <1>1, <1>3, <2>1, <2>2
<1>7. /\ \E S : counted' \in Seq(S)
      /\ \A i \in DOMAIN counted' :
           counted'[i].bytes \in Nat /\ counted'[i].language \in DOMAIN lang_stats'
  <2>1. PICK V : counted \in Seq(V)
    BY DEF StatsInv
  <2> DEFINE m == Len(counted) + 1
  <2> DEFINE c == Append(counted, e)
  <2> HIDE DEF e, b, D
  <2>2. /\ DOMAIN c = DOMAIN counted \cup {m} /\ c[m] = e
        /\ \A i \in DOMAIN counted : c[i] = counted[i]
        /\ \E S : c \in Seq(S)
    BY <2>1, OneMoreCounted
  <2> HIDE DEF c, m
  <2>3. \A i \in DOMAIN counted : counted[i].bytes \in Nat /\ counted[i].language \in D
    BY DEF StatsInv, D
  <2>4. counted' = c
    BY <1>2 DEF c
  <2> QED
    BY <1>2, <1>3, <2>2, <2>3, <2>4
<1>8. ASSUME NEW k \in DOMAIN lang_stats'
      PROVE  /\ lang_stats'[k].byte_sum = SumFunctionOnSet(Lengths', SpansOf(k)')
             /\ lang_stats'[k].num_chunks = Cardinality(SpansOf(k)')
             /\ Len(lang_stats'[k].byte_ranges) = lang_stats'[k].num_chunks
  <2> DEFINE sum == SumFunctionOnSet(Lengths, SpansOf(k))
             size == Cardinality(SpansOf(k))
  <2>1. /\ SumFunctionOnSet(Lengths', SpansOf(k)') = sum + (IF k = l THEN b ELSE 0)
        /\ Cardinality(SpansOf(k)') = size + (IF k = l THEN 1 ELSE 0)
        /\ sum \in Nat /\ size \in Nat
    BY <1>4
  <2>2. k \in D => /\ lang_stats[k].byte_sum = sum /\ lang_stats[k].num_chunks = size
                   /\ Len(lang_stats[k].byte_ranges) = lang_stats[k].num_chunks
    BY DEF StatsInv
  <2>3. CASE k # l
    <3>1. k \in D /\ lang_stats'[k] = lang_stats[k]
      BY <1>3, <1>8, <2>3
    <3> HIDE DEF sum, size
    <3> QED
      BY <2>1, <2>2, <2>3, <3>1
  <2>4. CASE k = l
    <3>1. /\ old.byte_sum = sum /\ old.num_chunks = size
          /\ Len(old.byte_ranges) = old.num_chunks
      <4>1. CASE l \in D
        BY <2>2, <2>4, <4>1 DEF StatsOf
      <4>2. CASE l \notin D
        <5>1. SpansOf(k) = {}
          BY <2>4, <4>2 DEF StatsInv, SpansOf
        <5>2. sum = 0 /\ size = 0
          BY <5>1, SumOfNothing, FS_EmptySet
        <5>3. old = NoStats
          BY <4>2 DEF StatsOf
        <5> QED
          BY <5>2, <5>3 DEF NoStats
      <4> QED
        BY <4>1, <4>2
    <3> HIDE DEF sum, size, old
    <3> QED
      BY <1>2, <1>3, <2>1, <2>4, <3>1
  <2> QED
    BY <2>3, <2>4
<1> QED
  BY <1>3, <1>5, <1>6, <1>7, <1>8 DEF StatsInv

-----------------------------------------------------------------------------
(* The answer *)

\* A sequence of all the languages that were predicted, in their order.
IsRanked(r) ==
  LET D == DOMAIN lang_stats
  IN  /\ r \in [1 .. Cardinality(D) -> D]
      /\ \A l \in D : \E i \in 1 .. Cardinality(D) : r[i] = l
      /\ \A i, j \in 1 .. Cardinality(D) : i < j => Precedes(r[i], r[j])

\* The best n of them, and kUnknown for each that is missing.
AreTop(answer, n) ==
  \E r : /\ IsRanked(r)
         /\ DOMAIN answer = 1 .. n /\ Len(answer) = n
         /\ \A i \in 1 .. n :
              answer[i] = IF i <= Cardinality(DOMAIN lang_stats) THEN r[i] ELSE kUnknown

\* No language, and nothing unless the size of the padding comes round for n.
NoneIsTop(answer, n) ==
  /\ DOMAIN answer = 1 .. Len(answer)
  /\ \A i \in DOMAIN answer : answer[i] = kUnknown
  /\ answer # <<>> => n - Cardinality(DOMAIN lang_stats) < -IntLimit

\* What is answered to an n of either sign.
AnswersTo(answer, n) ==
  /\ n >= 0 => AreTop(answer, n)
  /\ n < 0 => NoneIsTop(answer, n)

AnswerInv ==
  /\ num_langs \in Int
  /\ stage = "begin" => lang_stats = <<>>
  /\ stage = "done" /\ function = "FindTopNMostFreqLangs" => AnswersTo(results, num_langs)

\* Precedes is a strict order of the languages, so that they can be sorted.
LEMMA PrecedesOrders ==
  ASSUME StatsInv
  PROVE  /\ \A x, y, z \in DOMAIN lang_stats :
              Precedes(x, y) /\ Precedes(y, z) => Precedes(x, z)
         /\ \A x, y \in DOMAIN lang_stats : x = y \/ Precedes(x, y) \/ Precedes(y, x)
         /\ \A x, y \in DOMAIN lang_stats : Precedes(x, y) =>
              /\ x # y /\ lang_stats[x].byte_sum >= lang_stats[y].byte_sum
<1> DEFINE D == DOMAIN lang_stats
           bytes == [x \in D |-> lang_stats[x].byte_sum]
<1>1. \A x \in D : x \in Nat /\ bytes[x] \in Nat /\ lang_stats[x].byte_sum = bytes[x]
  BY IdentifierAssumption DEF StatsInv, Stats
<1>2. \A x, y \in D : Precedes(x, y) <=>
        bytes[x] > bytes[y] \/ (bytes[x] = bytes[y] /\ x < y)
  BY <1>1 DEF Precedes
<1> HIDE DEF D, bytes
<1>3. \A x, y, z \in D : Precedes(x, y) /\ Precedes(y, z) => Precedes(x, z)
  BY <1>1, <1>2
<1>4. \A x, y \in D : x = y \/ Precedes(x, y) \/ Precedes(y, x)
  BY <1>1, <1>2
<1>5. \A x, y \in D : Precedes(x, y) => x # y /\ bytes[x] >= bytes[y]
  BY <1>1, <1>2
<1> QED
  BY <1>1, <1>3, <1>4, <1>5 DEF D

\* The languages can be sorted, and Ranked is what sorting leaves.
LEMMA RankedIsRanked ==
  ASSUME StatsInv
  PROVE  IsRanked(Ranked)
<1> DEFINE D == DOMAIN lang_stats
           n == Cardinality(D)
           R == {p \in D \X D : Precedes(p[1], p[2])}
           Good(r) == /\ ToSet(r) = D
                      /\ \A i, j \in DOMAIN r : i < j => Precedes(r[i], r[j])
<1>1. IsFiniteSet(D)
  BY DEF StatsInv
<1>2. \A x, y \in D : <<x, y>> \in R <=> Precedes(x, y)
  OBVIOUS
<1>3. Orders(R, D)
  <2> HIDE DEF R
  <2> QED
    BY <1>2, PrecedesOrders DEF Orders
<1>4. PICK r \in [1 .. n -> D] : SortedBy(r, R, D)
  BY <1>1, <1>3, SortedExists
<1>5. ASSUME NEW q \in [1 .. n -> D]
      PROVE  ToSet(q) = D <=> \A x \in D : \E i \in 1 .. n : q[i] = x
  BY DEF ToSet
<1>6. Good(r)
  <2>1. \A x \in D : \E i \in 1 .. n : r[i] = x
    BY <1>4 DEF SortedBy
  <2>2. \A i, j \in 1 .. n : i < j => <<r[i], r[j]>> \in R
    BY <1>4 DEF SortedBy
  <2>3. \A i \in 1 .. n : r[i] \in D
    OBVIOUS
  <2>4. \A i, j \in 1 .. n : i < j => Precedes(r[i], r[j])
    <3> HIDE DEF R, n, D
    <3> QED
      BY <1>2, <2>2, <2>3
  <2>5. DOMAIN r = 1 .. n
    OBVIOUS
  <2> QED
    BY <1>5, <2>1, <2>4, <2>5
<1>7. Ranked = CHOOSE q \in [1 .. n -> D] : Good(q)
  BY DEF Ranked
<1>8. Ranked \in [1 .. n -> D] /\ Good(Ranked)
  <2> HIDE DEF Good, n, D
  <2> QED
    BY <1>6, <1>7
<1> QED
  BY <1>5, <1>8 DEF IsRanked

\* Padding is as long as it is asked to be, and empty when that is negative.
LEMMA PaddingHolds ==
  ASSUME NEW p \in Int
  PROVE  /\ Padding(p) \in Seq({kUnknown})
         /\ Len(Padding(p)) = IF p < 0 THEN 0 ELSE p
         /\ DOMAIN Padding(p) = 1 .. p
         /\ \A i \in 1 .. p : Padding(p)[i] = kUnknown
         /\ p <= 0 => Padding(p) = <<>>
<1>1. DOMAIN Padding(p) = 1 .. p /\ \A i \in 1 .. p : Padding(p)[i] = kUnknown
  BY DEF Padding
<1>2. CASE 0 < p
  <2>1. Padding(p) \in Seq({kUnknown}) /\ Len(Padding(p)) = p
    BY <1>2 DEF Padding
  <2> QED
    BY <1>1, <1>2, <2>1
<1>3. CASE ~ (0 < p)
  <2>1. 1 .. p = {}
    BY <1>3
  <2>2. Padding(p) = <<>>
    BY <2>1 DEF Padding
  <2>3. Padding(p) \in Seq({kUnknown}) /\ Len(Padding(p)) = 0
    BY <2>2
  <2>4. 0 = IF p < 0 THEN 0 ELSE p
    BY <1>3
  <2> QED
    BY <1>1, <2>2, <2>3, <2>4
<1> QED
  BY <1>2, <1>3

\* There are fewer languages than ints.
LEMMA LanguagesAreFew ==
  ASSUME StatsInv
  PROVE  /\ Cardinality(DOMAIN lang_stats) \in Nat
         /\ Cardinality(DOMAIN lang_stats) < IntLimit
         /\ IntLimit \in Nat \ {0}
<1>1. DOMAIN lang_stats \subseteq Languages
  BY DEF StatsInv
<1>2. IsFiniteSet(Languages) /\ Cardinality(Languages) < IntLimit /\ IntLimit \in Nat \ {0}
  BY IdentifierAssumption
<1>3. Cardinality(DOMAIN lang_stats) <= Cardinality(Languages)
  BY <1>1, <1>2, FS_Subset
<1>4. Cardinality(Languages) \in Nat /\ Cardinality(DOMAIN lang_stats) \in Nat
  BY <1>1, <1>2, FS_Subset, FS_CardinalityType
<1> QED
  BY <1>2, <1>3, <1>4

\* The best n of Ranked, padded, are an answer.
LEMMA TopNIsTop ==
  ASSUME StatsInv, NEW n \in Int
  PROVE  AnswersTo(TopN(n), n)
<1> DEFINE m == Cardinality(DOMAIN lang_stats)
           S == DOMAIN lang_stats \cup {kUnknown}
           r == Ranked
           k == minint(n, m)
           p == PaddingSize(n)
           front == SubSeq(r, 1, k)
           back == Padding(p)
<1>1. IsRanked(r) /\ m \in Nat /\ m < IntLimit /\ IntLimit \in Nat \ {0}
  BY RankedIsRanked, LanguagesAreFew
<1>2. r \in Seq(S) /\ Len(r) = m
  BY <1>1 DEF IsRanked
<1>3. TopN(n) = front \o back
  BY <1>2 DEF TopN
<1>4. k \in Int /\ k = (IF n < m THEN n ELSE m)
  BY <1>1 DEF minint
<1>5. p = IF n - m < -IntLimit THEN n - m + 2 * IntLimit ELSE n - m
  BY <1>2 DEF PaddingSize
<1> HIDE DEF m, S, r, k, p
<1>6. /\ p \in Int
      /\ n >= 0 => p = n - m
      /\ n < 0 /\ p > 0 => n - m < -IntLimit
  BY <1>1, <1>5
<1>7. /\ front \in Seq(S) /\ Len(front) = (IF 1 <= k THEN k ELSE 0)
      /\ \A i \in 1 .. k : front[i] = r[i]
  <2> DEFINE one == 1
  <2>1. \A i \in one .. k : r[i] \in S
    BY <1>1, <1>2, <1>4
  <2>2. one \in Int /\ one = 1
    OBVIOUS
  <2> HIDE DEF one
  <2>3. /\ SubSeq(r, one, k) \in Seq(S)
        /\ Len(SubSeq(r, one, k)) = IF one <= k THEN k - one + 1 ELSE 0
        /\ \A i \in 1 .. k - one + 1 : SubSeq(r, one, k)[i] = r[one + i - 1]
    BY <1>4, <2>1, <2>2, SubSeqProperties
  <2>4. k - one + 1 = k /\ \A i \in 1 .. k : one + i - 1 = i
    BY <1>4, <2>2
  <2> QED
    BY <2>2, <2>3, <2>4
<1>8. /\ back \in Seq(S) /\ Len(back) = (IF p < 0 THEN 0 ELSE p)
      /\ \A i \in 1 .. p : back[i] = kUnknown
      /\ p <= 0 => back = <<>>
  <2>1. kUnknown \in S
    BY DEF S
  <2>2. back \in Seq({kUnknown})
    BY <1>6, PaddingHolds
  <2>3. back \in Seq(S)
    <3> HIDE DEF back
    <3> QED
      BY <2>1, <2>2
  <2> QED
    BY <1>6, <2>3, PaddingHolds
<1> HIDE DEF front, back
<1>9. /\ front \o back \in Seq(S) /\ Len(front \o back) = Len(front) + Len(back)
      /\ \A i \in 1 .. Len(front) + Len(back) : (front \o back)[i] =
           IF i <= Len(front) THEN front[i] ELSE back[i - Len(front)]
  BY <1>7, <1>8, ConcatProperties
<1>10. DOMAIN TopN(n) = 1 .. Len(TopN(n)) /\ Len(TopN(n)) = Len(front) + Len(back)
  BY <1>3, <1>9
<1>11. CASE n >= 0
  <2>1. Len(front) + Len(back) = n
    BY <1>1, <1>4, <1>6, <1>7, <1>8, <1>11
  <2>2. ASSUME NEW i \in 1 .. n
        PROVE  TopN(n)[i] = IF i <= m THEN r[i] ELSE kUnknown
    <3>1. i \in 1 .. Len(front) + Len(back)
      BY <2>1
    <3>2. TopN(n)[i] = IF i <= Len(front) THEN front[i] ELSE back[i - Len(front)]
      BY <1>3, <1>9, <3>1
    <3>3. CASE i <= m
      BY <1>1, <1>4, <1>7, <3>2, <3>3
    <3>4. CASE ~ (i <= m)
      <4>1. Len(front) = m /\ i - m \in 1 .. p
        BY <1>1, <1>4, <1>6, <1>7, <1>11, <3>4
      <4>2. ~ (i <= Len(front))
        BY <3>4, <4>1
      <4>3. TopN(n)[i] = back[i - m]
        BY <3>2, <4>1, <4>2
      <4> QED
        BY <1>8, <3>4, <4>1, <4>3
    <3> QED
      BY <3>3, <3>4
  <2>3. DOMAIN TopN(n) = 1 .. n /\ Len(TopN(n)) = n
    BY <1>10, <2>1
  <2>4. AreTop(TopN(n), n)
    BY <1>1, <2>2, <2>3 DEF AreTop, m
  <2> QED
    BY <1>11, <2>4 DEF AnswersTo
<1>12. CASE n < 0
  <2>1. Len(front) = 0 /\ Len(TopN(n)) = Len(back)
    BY <1>1, <1>4, <1>7, <1>8, <1>10, <1>12
  <2>2. ASSUME NEW i \in DOMAIN TopN(n)
        PROVE  TopN(n)[i] = kUnknown
    <3>1. i \in 1 .. Len(back) /\ i \in 1 .. Len(front) + Len(back)
      BY <1>8, <1>10, <2>1
    <3>2. TopN(n)[i] = IF i <= 0 THEN front[i] ELSE back[i - 0]
      BY <1>3, <1>9, <2>1, <3>1
    <3>3. ~ (i <= 0) /\ i - 0 = i /\ i \in 1 .. p
      BY <1>6, <1>8, <3>1
    <3> QED
      BY <1>8, <3>2, <3>3
  <2>3. ASSUME TopN(n) # <<>> PROVE n - m < -IntLimit
    <3> SUFFICES ASSUME ~ (p > 0) PROVE FALSE
      BY <1>6, <1>12
    <3>1. back = <<>>
      BY <1>6, <1>8
    <3>2. Len(front \o back) = 0 /\ front \o back \in Seq(S)
      BY <1>9, <2>1, <3>1
    <3>3. front \o back = <<>>
      BY <3>2
    <3> QED
      BY <1>3, <2>3, <3>3
  <2>4. NoneIsTop(TopN(n), n)
    BY <1>10, <2>2, <2>3 DEF NoneIsTop, m
  <2> QED
    BY <1>12, <2>4 DEF AnswersTo
<1> QED
  BY <1>11, <1>12

\* An answer is what the property says of it.
LEMMA TopReturned ==
  ASSUME StatsInv, AnswerInv
  PROVE  ReturnsTopN
<1> SUFFICES ASSUME stage = "done", function = "FindTopNMostFreqLangs" PROVE ReturnsTopN
  BY DEF ReturnsTopN
<1> DEFINE D == DOMAIN lang_stats
           m == Cardinality(D)
           n == num_langs
           a == results
<1>0. CASE n < 0
  <2>1. NoneIsTop(a, n) /\ n \in Int
    BY <1>0 DEF AnswerInv, AnswersTo
  <2>2. \A i \in DOMAIN a : a[i] = kUnknown
    BY <2>1 DEF NoneIsTop
  <2>3. ToSet(a) \subseteq {kUnknown}
    BY <2>2 DEF ToSet
  <2>4. a # <<>> => PaddingComesRound
    BY <2>1 DEF NoneIsTop, PaddingComesRound
  <2>5. ~ (n >= 0)
    BY <1>0, <2>1
  <2> QED
    BY <2>2, <2>3, <2>4, <2>5 DEF ReturnsTopN
<1> SUFFICES ASSUME ~ (n < 0) PROVE ReturnsTopN
  BY <1>0
<1>1. n \in Int /\ n >= 0 /\ AreTop(a, n)
  BY DEF AnswerInv, AnswersTo
<1>2. PICK r : /\ IsRanked(r)
               /\ DOMAIN a = 1 .. n /\ Len(a) = n
               /\ \A i \in 1 .. n : a[i] = IF i <= m THEN r[i] ELSE kUnknown
  BY <1>1 DEF AreTop
<1>3. m \in Nat /\ D \subseteq Nat \ {0}
  BY FS_CardinalityType, IdentifierAssumption DEF StatsInv
<1>4. /\ \A i \in 1 .. m : r[i] \in D
      /\ \A l \in D : \E i \in 1 .. m : r[i] = l
      /\ \A i, j \in 1 .. m : i < j => Precedes(r[i], r[j])
  BY <1>2 DEF IsRanked
<1>5. \A i, j \in 1 .. m : i < j =>
        r[i] # r[j] /\ lang_stats[r[i]].byte_sum >= lang_stats[r[j]].byte_sum
  BY <1>4, PrecedesOrders
<1>6. kUnknown = 0
  BY DEF kUnknown
<1> HIDE DEF D, m, a, n
<1>7. ASSUME NEW i \in 1 .. n, NEW j \in 1 .. n, i < j, a[j] # kUnknown
      PROVE  /\ a[i] # kUnknown /\ a[i] # a[j]
             /\ lang_stats[a[i]].byte_sum >= lang_stats[a[j]].byte_sum
  <2>1. j <= m
    BY <1>2, <1>7
  <2>2. i \in 1 .. m /\ j \in 1 .. m
    BY <1>1, <1>3, <1>7, <2>1
  <2>3. a[i] = r[i] /\ a[j] = r[j] /\ r[i] \in D
    BY <1>2, <1>4, <2>2
  <2>4. r[i] # r[j] /\ lang_stats[r[i]].byte_sum >= lang_stats[r[j]].byte_sum
    BY <1>5, <1>7, <2>2
  <2> QED
    BY <1>3, <1>6, <2>3, <2>4
<1>8. ASSUME NEW l \in D \ ToSet(a), NEW i \in 1 .. n
      PROVE  /\ a[i] # kUnknown
             /\ lang_stats[a[i]].byte_sum >= lang_stats[l].byte_sum
  <2>1. PICK j \in 1 .. m : r[j] = l
    BY <1>4
  <2>2. ~ (j \in 1 .. n)
    <3> SUFFICES ASSUME j \in 1 .. n PROVE FALSE
      OBVIOUS
    <3>1. a[j] = l
      BY <1>2, <2>1
    <3>2. l \in ToSet(a)
      BY <1>2, <3>1 DEF ToSet
    <3> QED
      BY <3>2
  <2>3. i < j /\ i \in 1 .. m
    BY <1>1, <1>3, <2>2
  <2>4. a[i] = r[i] /\ r[i] \in D
    BY <1>2, <1>4, <2>3
  <2>5. lang_stats[r[i]].byte_sum >= lang_stats[r[j]].byte_sum
    BY <1>5, <2>3
  <2> QED
    BY <1>3, <1>6, <2>1, <2>4, <2>5
<1>9. Len(a) = n
  BY <1>2
<1>10. \A i, j \in DOMAIN a : i < j =>
         \/ a[j] = kUnknown
         \/ /\ a[i] # kUnknown /\ a[i] # a[j]
            /\ lang_stats[a[i]].byte_sum >= lang_stats[a[j]].byte_sum
  BY <1>2, <1>7
<1>11. \A l \in D \ ToSet(a) : \A i \in DOMAIN a :
         a[i] # kUnknown /\ lang_stats[a[i]].byte_sum >= lang_stats[l].byte_sum
  BY <1>2, <1>8
<1> QED
  BY <1>9, <1>10, <1>11 DEF ReturnsTopN, D, a, n

\* Where nothing was counted, every answer is kUnknown.
LEMMA NothingIsTop ==
  ASSUME StatsInv, lang_stats = <<>>, NEW n \in Int
  PROVE  AnswersTo(Padding(n), n)
<1>1. DOMAIN lang_stats = {} /\ Cardinality(DOMAIN lang_stats) = 0
  BY FS_EmptySet
<1>2. /\ DOMAIN Padding(n) = 1 .. n /\ Len(Padding(n)) = IF n < 0 THEN 0 ELSE n
      /\ \A i \in 1 .. n : Padding(n)[i] = kUnknown
      /\ n <= 0 => Padding(n) = <<>>
  BY PaddingHolds
<1>3. IsRanked(Ranked)
  BY RankedIsRanked
<1>4. CASE n >= 0
  <2>1. \A i \in 1 .. n : ~ (i <= 0)
    OBVIOUS
  <2>2. Len(Padding(n)) = n
    BY <1>2, <1>4
  <2>3. AreTop(Padding(n), n)
    BY <1>1, <1>2, <1>3, <2>1, <2>2 DEF AreTop
  <2> QED
    BY <1>4, <2>3 DEF AnswersTo
<1>5. CASE n < 0
  <2>1. Padding(n) = <<>> /\ DOMAIN Padding(n) = 1 .. Len(Padding(n))
    BY <1>2, <1>5
  <2>2. NoneIsTop(Padding(n), n)
    BY <1>2, <2>1 DEF NoneIsTop
  <2> QED
    BY <1>5, <2>2 DEF AnswersTo
<1> QED
  BY <1>4, <1>5

\* Every step of a call keeps both.
LEMMA StatsStep ==
  ASSUME IInv, StatsInv, AnswerInv, [INext]_allvars
  PROVE  StatsInv' /\ AnswerInv'
<1>1. CASE CountSpan
  <2>1. StatsInv'
    BY <1>1, CountKeepsStats
  <2>2. num_langs' = num_langs /\ stage' = "ask"
    BY <1>1 DEF CountSpan
  <2> QED
    BY <2>1, <2>2 DEF AnswerInv
<1>2. CASE ~ CountSpan
  <2>1. /\ lang_stats' = lang_stats /\ counted' = counted
        /\ total_num_bytes' = total_num_bytes
        /\ num_langs' = num_langs /\ function' = function
    BY <1>2 DEF INext, Begin, Ask, Scan, AppendSpan, FindLanguageEnds, SkipSpan,
                FindTopNEnds, ivars, allvars
  <2>2. StatsInv'
    <3>1. ByteSums' = ByteSums /\ Lengths' = Lengths
      BY <2>1 DEF ByteSums, Lengths
    <3>2. \A l : SpansOf(l)' = SpansOf(l)
      BY <2>1 DEF SpansOf
    <3> QED
      BY <2>1, <3>1, <3>2 DEF StatsInv
  <2>3. \A a, n : AnswersTo(a, n) => AnswersTo(a, n)'
    <3>1. \A x, y : Precedes(x, y)' <=> Precedes(x, y)
      BY <2>1 DEF Precedes
    <3>2. \A r : IsRanked(r) => IsRanked(r)'
      BY <2>1, <3>1 DEF IsRanked
    <3> QED
      BY <2>1, <3>2 DEF AreTop, NoneIsTop, AnswersTo
  <2>4. AnswerInv'
    <3>1. CASE Begin
      <4>1. AnswersTo(Padding(num_langs), num_langs)
        BY <3>1, NothingIsTop DEF AnswerInv, Begin
      <4>2. stage' # "begin" /\ (stage' = "done" => results' = Padding(num_langs))
        BY <3>1 DEF Begin, Returns
      <4> QED
        BY <2>1, <2>3, <4>1, <4>2 DEF AnswerInv
    <3>2. CASE Ask \/ Scan \/ AppendSpan \/ SkipSpan
      <4>1. stage' \in {"ask", "scan"}
        BY <3>2 DEF Ask, Scan, AppendSpan, SkipSpan, ivars
      <4> QED
        BY <2>1, <4>1 DEF AnswerInv
    <3>3. CASE FindLanguageEnds
      <4>1. function = "FindLanguage" /\ stage' = "done"
        BY <3>3 DEF FindLanguageEnds, SpansEnd, Returns
      <4> QED
        BY <2>1, <4>1 DEF AnswerInv
    <3>4. CASE FindTopNEnds
      <4>1. stage' = "done" /\ results' = TopN(num_langs)
        BY <3>4 DEF FindTopNEnds, Returns
      <4>2. AnswersTo(results', num_langs)
        BY <4>1, TopNIsTop DEF AnswerInv
      <4> QED
        BY <2>1, <2>3, <4>1, <4>2 DEF AnswerInv
    <3>5. CASE UNCHANGED allvars
      <4>1. stage' = stage /\ results' = results
        BY <3>5 DEF allvars, ivars
      <4> QED
        BY <2>1, <2>3, <4>1 DEF AnswerInv
    <3> QED
      BY <1>2, <3>1, <3>2, <3>3, <3>4, <3>5 DEF INext
  <2> QED
    BY <2>2, <2>4
<1> QED
  BY <1>1, <1>2

\* A call begins with nothing counted.
LEMMA StatsInit == IInit => StatsInv /\ AnswerInv
<1> SUFFICES ASSUME IInit PROVE StatsInv /\ AnswerInv
  OBVIOUS
<1>1. /\ lang_stats = <<>> /\ counted = <<>> /\ total_num_bytes = 0 /\ stage = "begin"
      /\ num_langs \in {1} \cup NumLangs
  BY DEF IInit
<1>2. DOMAIN lang_stats = {} /\ DOMAIN counted = {}
  BY <1>1
<1>3. IsFiniteSet({}) /\ SumFunctionOnSet(ByteSums, {}) = 0
  BY SumOfNothing, FS_EmptySet
<1>4. lang_stats \in [DOMAIN lang_stats -> Stats] /\ counted \in Seq({})
  BY <1>1
<1> QED
  BY <1>1, <1>2, <1>3, <1>4, IdentifierAssumption DEF StatsInv, AnswerInv

\* The statistics and what is answered from them are right in every state.
LEMMA StatsHold == ISpec => [](StatsInv /\ AnswerInv)
<1>1. IInit => StatsInv /\ AnswerInv
  BY StatsInit
<1>2. IInv /\ StatsInv /\ AnswerInv /\ [INext]_allvars => (StatsInv /\ AnswerInv)'
  BY StatsStep
<1> QED
  BY <1>1, <1>2, CallScans, InvariantHolds, PTL DEF ISpec

\* However many spans there are and whatever is predicted of them, the bytes
\* of the languages add up to those of the spans that were counted, which is
\* the total that their proportions are taken of.
THEOREM StatisticsAddUp == ISpec => []BytesAddUp
BY StatsHold, StatsAddUp, PTL

\* Whatever was counted, as many languages as were asked for are returned, those
\* with the most bytes, each once and in order, and kUnknown only when there are
\* no more.  To a negative num_langs no language is returned, and nothing at all
\* unless it is so low that the size of the padding comes round.
THEOREM TopLanguagesReturned == ISpec => []ReturnsTopN
BY StatsHold, TopReturned, PTL

-----------------------------------------------------------------------------
(* The front of a span.  Its first byte may be mapped back before the span  *)
(* only where the span begins one byte into the text (StartsInSpan): what   *)
(* lies before such a span is too short to have been counted, if at least   *)
(* four bytes are asked for.                                                *)

\* The bytes of a span in lower case, by how much of the text they stand for.
Small(entries, reach) ==
  LET size == LowerBytes(entries, Len(entries))
  IN  /\ size <= 1 + 2 * reach
      /\ IsLetter(entries[Len(entries)]) => size <= 2 * reach

\* The first byte of a span is mapped back into the span.
Starting(al, offset) ==
  MaxAprime(al) >= 1 /\ (offset <= al.back[1] \/ offset = 1)

FrontInv ==
  /\ span.offset <= Reached
  /\ InCall \/ pc \in {"lower", "span"} =>
       Small(script_buffer, Reached) /\ Starting(map2original, span.offset)

\* The alignment that a span begins with.
LEMMA FrontStarts ==
  ASSUME NEW offset \in Nat, NEW skip \in Nat
  PROVE  Starting(FrontOfSpan(offset, skip), offset)
<1> DEFINE before == AlignDelete(EmptyAlignment, offset)
           front == FrontOfSpan(offset, skip)
           one == 1
<1>1. /\ EmptyAlignment \in TidyAlignments
      /\ MaxA(EmptyAlignment) = 0 /\ MaxAprime(EmptyAlignment) = 0
      /\ EmptyAlignment.op = "copy" /\ EmptyAlignment.run = 0
  BY EmptyTyped DEF EmptyAlignment
<1>2. Extended(EmptyAlignment, before, offset, 0)
  BY <1>1, DeleteExtends
<1>3. before \in TidyAlignments /\ MaxA(before) = offset /\ MaxAprime(before) = 0
  BY <1>1, <1>2 DEF Extended
<1>4. MaxAprime(front) = 1
  BY FrontTyped
<1>5. before.op = IF offset = 0 THEN "copy" ELSE "delete"
  BY <1>1 DEF AlignDelete, DeleteBytes, Replaces
<1>6. before.run = offset
  BY <1>1 DEF AlignDelete, DeleteBytes, Replaces, RunAfter
<1> HIDE DEF before
<1>7. CASE skip = 1
  <2>1. front = AlignCopy(before, one)
    BY <1>7 DEF FrontOfSpan, before
  <2>2. one \in Nat /\ one > 0 /\ one = 1
    OBVIOUS
  <2> HIDE DEF one
  <2>3. AlignCopy(before, one).back[MaxAprime(before) + 1] = MaxA(before)
    BY <1>3, <2>2, CopyExtends
  <2>4. front.back[1] = offset
    BY <1>3, <2>1, <2>3
  <2> QED
    BY <1>4, <2>4 DEF Starting
<1>8. CASE skip # 1
  <2> DEFINE c == AlignDelete(before, skip)
  <2>1. front = AlignInsert(c, one)
    BY <1>8 DEF FrontOfSpan, before
  <2>2. Extended(before, c, skip, 0)
    BY <1>3, DeleteExtends
  <2>3. c \in TidyAlignments /\ MaxA(c) = offset + skip /\ MaxAprime(c) = 0
    BY <1>3, <2>2 DEF Extended
  <2>4. c.op = "delete" => c.run = offset + skip
    BY <1>5, <1>6 DEF AlignDelete, DeleteBytes, Replaces, RunAfter
  <2>5. front = InsertBytes(c, one) /\ one = 1 /\ one \in Nat \ {0} /\ c \in AlignmentSet
    BY <2>1, <2>3, AlignmentTyped DEF AlignInsert
  <2> HIDE DEF c, one, front
  <2>6. CASE ~ Replaces(c, one, "delete")
    <3>1. front.back[1] = MaxA(c)
      BY <1>4, <2>3, <2>5, <2>6, InsertBytesAt
    <3> QED
      BY <1>4, <2>3, <3>1 DEF Starting, front
  <2>7. CASE Replaces(c, one, "delete")
    <3>1. offset + skip = 1
      BY <2>4, <2>7 DEF Replaces
    <3>2. offset = 1
      BY <1>8, <3>1
    <3> QED
      BY <1>4, <3>2 DEF Starting, front
  <2> QED
    BY <2>6, <2>7
<1> QED
  BY <1>7, <1>8

\* What extends a map leaves its front where it is.
LEMMA FrontStays ==
  ASSUME NEW al \in TidyAlignments, NEW c, NEW n \in Nat, NEW m \in Nat, NEW offset,
         Extended(al, c, n, m), Starting(al, offset)
  PROVE  Starting(c, offset)
<1>1. MaxAprime(al) \in Nat /\ MaxAprime(al) >= 1
  BY AlignmentTyped DEF Starting
<1>2. MaxAprime(c) >= 1 /\ c.back[1] = al.back[1]
  BY <1>1 DEF Extended
<1> QED
  BY <1>2 DEF Starting

\* A step that puts an entry: a letter with the bytes it is read from, or a
\* space behind a letter.
LEMMA EntryPut ==
  ASSUME NEW t \in Texts, NEW entries \in Seq(Entries(t)), entries # <<>>,
         NEW e \in Entries(t), NEW reach \in Nat, NEW n \in Nat, Small(entries, reach),
         IsLetter(e) => n = e.bytes,
         ~ IsLetter(e) => IsLetter(entries[Len(entries)])
  PROVE  Small(Append(entries, e), reach + n)
<1> DEFINE longer == Append(entries, e)
           k == Len(entries)
           m == Len(longer)
<1>1. /\ longer \in Seq(Entries(t)) /\ m = k + 1 /\ longer[m] = e
      /\ LowerBytes(longer, k) = LowerBytes(entries, k) /\ k \in Nat
  <2>1. /\ longer \in Seq(Entries(t)) /\ Len(longer) = Len(entries) + 1
        /\ longer[Len(entries) + 1] = e
        /\ \A i \in 0 .. Len(entries) : LowerBytes(longer, i) = LowerBytes(entries, i)
    BY EntryAppended
  <2>2. k \in 0 .. Len(entries) /\ k \in Nat
    OBVIOUS
  <2> HIDE DEF longer
  <2> QED
    BY <2>1, <2>2
<1> HIDE DEF longer
<1>2. m \in 1 .. Len(longer) /\ m - 1 = k
  BY <1>1
<1> HIDE DEF m, k
<1>3. /\ LowerBytes(longer, m) = LowerBytes(longer, m - 1) + longer[m].lower
      /\ LowerBytes(longer, m - 1) \in Nat
  BY <1>1, <1>2, BytesAdd
<1>4. /\ e.lower \in Nat /\ e.bytes \in Nat /\ 1 <= e.bytes /\ 2 * e.lower <= 3 * e.bytes
      /\ ~ IsLetter(e) => e.lower = 1
  <2>1. /\ e.bytes \in 1 .. 4 /\ e.lower \in Nat \ {0} /\ 2 * e.lower <= 3 * e.bytes
        /\ ~ IsLetter(e) => e = PutSpace
    BY EntryTyped
  <2> QED
    BY <2>1 DEF PutSpace
<1> DEFINE s == LowerBytes(entries, k)
           l == e.lower
           b == e.bytes
<1>5. /\ s \in Nat /\ LowerBytes(longer, m) = s + l
  BY <1>1, <1>2, <1>3
<1>6. /\ s <= 1 + 2 * reach
      /\ IsLetter(entries[Len(entries)]) => s <= 2 * reach
  BY DEF Small, k
<1>7. IsLetter(e) => s + l <= 2 * (reach + n)
  <2> HIDE DEF s, l, b
  <2>1. l \in Nat /\ b \in Nat /\ 1 <= b /\ 2 * l <= 3 * b
    BY <1>4 DEF l, b
  <2>2. l + 1 <= 2 * b
    BY <2>1
  <2>3. IsLetter(e) => n = b
    BY DEF b
  <2> QED
    BY <1>5, <1>6, <2>1, <2>2, <2>3
<1>8. ~ IsLetter(e) => s + l <= 1 + 2 * (reach + n)
  <2> HIDE DEF s
  <2> QED
    BY <1>4, <1>5, <1>6
<1> HIDE DEF s, l
<1>9. /\ LowerBytes(longer, m) <= 1 + 2 * (reach + n)
      /\ IsLetter(e) => LowerBytes(longer, m) <= 2 * (reach + n)
  <2>1. l \in Nat
    BY <1>4 DEF l
  <2> QED
    BY <1>5, <1>7, <1>8, <2>1
<1> QED
  BY <1>1, <1>9 DEF Small, longer, m

\* A letter is put, or the space behind letters: the map is extended by it.
LEMMA EntryKeepsFront ==
  ASSUME IInv, FrontInv, InCall, NEW e \in Entries(text), NEW n \in Nat,
         IsLetter(e) => n = e.bytes,
         ~ IsLetter(e) => IsLetter(script_buffer[Len(script_buffer)]),
         script_buffer' = Append(script_buffer, e), Reached' = Reached + n,
         Extended(map2original, map2original', n, e.bytes), span'.offset = span.offset
  PROVE  FrontInv'
<1>1. /\ text \in Texts /\ Reached \in Nat
      /\ script_buffer \in Seq(Entries(text)) /\ script_buffer # <<>>
      /\ span.offset \in Nat /\ map2original \in TidyAlignments
  BY PlaceTyped DEF IInv, BufferInv, MapInv, Spans
<1>2. /\ Small(script_buffer, Reached) /\ Starting(map2original, span.offset)
      /\ span.offset <= Reached
  BY DEF FrontInv
<1>3. Small(Append(script_buffer, e), Reached + n)
  BY <1>1, <1>2, EntryPut
<1>4. e.bytes \in Nat
  <2>1. e.bytes \in 1 .. 4
    BY <1>1, EntryTyped
  <2> QED
    BY <2>1
<1>5. Starting(map2original', span.offset)
  BY <1>1, <1>2, <1>4, FrontStays
<1>6. span.offset <= Reached + n
  BY <1>1, <1>2
<1> QED
  BY <1>3, <1>5, <1>6 DEF FrontInv

\* Every step of the scanner keeps the front of its span.
LEMMA FrontStep ==
  ASSUME IInv, FrontInv, [Next]_vars
  PROVE  FrontInv'
<1>1. /\ text \in Texts /\ Reached \in Nat /\ next_byte_ \in Nat
      /\ next_byte_ + take = Reached /\ take \in Nat
  BY PlaceTyped DEF IInv, Reached
<1>2. CASE GetOneScriptSpan
  <2> DEFINE front == LetterFrom(next_byte_)
             skip == front - next_byte_
  <2>1. /\ front \in Nat /\ next_byte_ <= front /\ next_byte_' = front
    BY <1>2, CallFinds
  <2>2. /\ span'.offset = next_byte_ /\ take' = 0
        /\ InCall' \/ pc' \in {"lower", "span"} =>
             /\ map2original' = FrontOfSpan(next_byte_, skip)
             /\ script_buffer' = <<PutSpace>>
    BY <1>2 DEF GetOneScriptSpan, ClearLocals, NoSpan, InCall
  <2>3. skip \in Nat
    BY <1>1, <2>1
  <2> HIDE DEF front, skip
  <2>4. Reached' = front
    BY <2>1, <2>2 DEF Reached
  <2>5. Starting(FrontOfSpan(next_byte_, skip), next_byte_)
    BY <1>1, <2>3, FrontStarts
  <2>6. Small(<<PutSpace>>, front)
    <3> DEFINE s == <<PutSpace>>
               n == 1
               z == n - 1
    <3>1. s \in Seq(Entries(text)) /\ Len(s) = n /\ s[n] = PutSpace /\ ~ IsLetter(PutSpace)
      BY <1>1, SpaceTyped, NoEntries
    <3>2. n \in 1 .. Len(s) /\ n = 1 /\ z = 0
      BY <3>1
    <3> HIDE DEF s, n
    <3>3. LowerBytes(s, n) = LowerBytes(s, z) + s[n].lower
      BY <1>1, <3>1, <3>2, BytesAdd
    <3>4. LowerBytes(s, 0) = 0
      BY <1>1, <3>1, BytesTyped
    <3>5. LowerBytes(s, n) = 1
      BY <3>1, <3>2, <3>3, <3>4 DEF PutSpace
    <3> QED
      BY <2>1, <3>1, <3>5 DEF Small, s
  <2> QED
    BY <2>1, <2>2, <2>4, <2>5, <2>6 DEF FrontInv
<1>3. CASE CopyLetter
  <2> DEFINE e == Char(text, Reached)
             b == text.chars[Reached].bytes
  <2>1. /\ InCall /\ Reached \in Letters(text) /\ CharPut(Reached) = e
    BY <1>3, CopyFinds
  <2>2. /\ take' = take + CharPut(Reached).bytes /\ next_byte_' = next_byte_
        /\ script_buffer' = Append(script_buffer, CharPut(Reached))
        /\ map2original' = AlignCopy(map2original, CharPut(Reached).bytes)
    BY <1>1, <1>3 DEF CopyLetter
  <2>3. span'.offset = span.offset
    BY <1>3 DEF CopyLetter, IInv, BufferInv, Spans
  <2>4. e.bytes = b /\ e.at = Reached /\ e \in Entries(text) /\ b \in Nat /\ IsLetter(e)
    BY <1>1, <2>1, TextCharacters DEF Char, Entries, Letters, IsLetter
  <2> HIDE DEF e, b
  <2>5. Reached' = Reached + b
    <3>1. next_byte_ + (take + b) = next_byte_ + take + b
      BY <1>1, <2>4
    <3> QED
      BY <1>1, <2>1, <2>2, <2>4, <3>1 DEF Reached
  <2>6. Extended(map2original, map2original', b, e.bytes)
    <3>1. map2original \in TidyAlignments
      BY DEF IInv, MapInv
    <3>2. Extended(map2original, AlignCopy(map2original, b), b, b)
      BY <2>4, <3>1, CopyExtends
    <3> QED
      BY <2>1, <2>2, <2>4, <3>2
  <2> QED
    BY <2>1, <2>2, <2>3, <2>4, <2>5, <2>6, EntryKeepsFront
<1>4. CASE SkipNonLetters
  <2> DEFINE next == LetterFrom(Reached)
             n == next - Reached
             one == 1
  <2>1. /\ take' = take + n /\ next_byte_' = next_byte_
        /\ script_buffer' = Append(script_buffer, PutSpace)
        /\ map2original' = AlignInsert(AlignDelete(map2original, n), one)
    BY <1>1, <1>4 DEF SkipNonLetters
  <2>2. span'.offset = span.offset
    BY <1>4 DEF SkipNonLetters, IInv, BufferInv, Spans
  <2>3. InCall /\ IsLetter(script_buffer[Len(script_buffer)])
    BY <1>4 DEF SkipNonLetters, InCall, IInv, ScriptInv, Ended
  <2>4. n \in Nat
    <3>1. Reached \in Starts(text)
      BY DEF IInv, PlaceInv
    <3>2. next \in Starts(text) /\ Reached <= next
      BY <1>1, <3>1, NextLetter
    <3>3. next \in Nat
      BY <1>1, <3>2, TextCharacters
    <3> HIDE DEF next
    <3> QED
      BY <1>1, <3>2, <3>3
  <2>5. /\ PutSpace \in Entries(text) /\ PutSpace.bytes = one /\ ~ IsLetter(PutSpace)
        /\ one \in Nat
    BY <1>1, NoEntries
  <2> HIDE DEF n, one
  <2>6. Reached' = Reached + n
    <3>1. next_byte_ + (take + n) = next_byte_ + take + n
      BY <1>1, <2>4
    <3> QED
      BY <1>1, <2>1, <3>1 DEF Reached
  <2>7. Extended(map2original, map2original', n, PutSpace.bytes)
    <3> DEFINE c == AlignDelete(map2original, n)
    <3>1. map2original \in TidyAlignments
      BY DEF IInv, MapInv
    <3>2. Extended(map2original, c, n, 0)
      BY <2>4, <3>1, DeleteExtends
    <3> HIDE DEF c
    <3>3. c \in TidyAlignments
      BY <3>2 DEF Extended
    <3>4. Extended(c, AlignInsert(c, one), 0, one)
      BY <2>5, <3>3, InsertExtends
    <3>5. Extended(map2original, AlignInsert(c, one), n + 0, 0 + one)
      BY <2>4, <2>5, <3>1, <3>2, <3>4, ExtendedTwice
    <3>6. n + 0 = n /\ 0 + one = one
      BY <2>4, <2>5
    <3> QED
      BY <2>1, <2>5, <3>5, <3>6 DEF c
  <2> QED
    BY <2>1, <2>2, <2>3, <2>4, <2>5, <2>6, <2>7, EntryKeepsFront
<1>5. CASE LettersStop
  <2>1. /\ next_byte_' = next_byte_ /\ take' = take /\ span' = span
        /\ script_buffer' = script_buffer /\ map2original' = map2original
        /\ InCall
    BY <1>5 DEF LettersStop, InCall
  <2>2. Reached' = Reached
    BY <2>1 DEF Reached
  <2> QED
    BY <2>1, <2>2 DEF FrontInv
<1>6. CASE Finish
  <2>1. /\ next_byte_' = next_byte_ + take - Overshoot(next_byte_) /\ take' = 0
        /\ script_buffer' = script_buffer /\ InCall
        /\ map2original' = Closed(AlignInsert(map2original, 4))
    BY <1>6 DEF Finish, InCall
  <2>2. span'.offset = span.offset
    BY <1>6 DEF Finish, IInv, BufferInv, Spans
  <2>3. Overshoot(next_byte_) = 0
    BY NoOvershoot DEF IInv
  <2>4. Reached' = Reached
    BY <1>1, <2>1, <2>3 DEF Reached
  <2>5. Starting(map2original', span.offset)
    <3> DEFINE four == 4
               c == AlignInsert(map2original, four)
    <3>1. map2original \in TidyAlignments /\ four \in Nat
      BY DEF IInv, MapInv
    <3> HIDE DEF four
    <3>2. Extended(map2original, c, 0, four)
      BY <3>1, InsertExtends
    <3> HIDE DEF c
    <3>3. c \in TidyAlignments
      BY <3>2 DEF Extended
    <3>4. Starting(map2original, span.offset)
      BY <2>1 DEF FrontInv
    <3> DEFINE z == 0
    <3>5. Extended(map2original, c, z, four) /\ z \in Nat
      BY <3>2
    <3> HIDE DEF z
    <3>6. Starting(c, span.offset)
      BY <3>1, <3>4, <3>5, FrontStays
    <3>7. Closed(c).back = c.back /\ MaxAprime(Closed(c)) = MaxAprime(c)
      BY <3>3, ClosedKeeps
    <3> QED
      BY <2>1, <3>6, <3>7 DEF Starting, c, four
  <2> QED
    BY <2>1, <2>2, <2>4, <2>5 DEF FrontInv
<1>7. CASE LowerCharacter \/ LowerScriptSpan
  <2>1. /\ next_byte_' = next_byte_ /\ take' = take /\ pc = "lower"
        /\ script_buffer' = script_buffer /\ map2original' = map2original
    BY <1>7 DEF LowerCharacter, LowerScriptSpan
  <2>2. span'.offset = span.offset
    BY <1>7 DEF LowerCharacter, LowerScriptSpan, IInv, BufferInv, Spans
  <2>3. Reached' = Reached
    BY <2>1 DEF Reached
  <2> QED
    BY <2>1, <2>2, <2>3 DEF FrontInv
<1>8. CASE UNCHANGED vars
  <2>1. /\ next_byte_' = next_byte_ /\ take' = take /\ span' = span /\ pc' = pc
        /\ script_buffer' = script_buffer /\ map2original' = map2original
    BY <1>8 DEF vars
  <2>2. Reached' = Reached /\ InCall' = InCall
    BY <2>1 DEF Reached, InCall
  <2> QED
    BY <2>1, <2>2 DEF FrontInv
<1> QED
  BY <1>2, <1>3, <1>4, <1>5, <1>6, <1>7, <1>8 DEF Next

\* A new scanner has no span.
LEMMA FrontInit == Init => FrontInv
<1> SUFFICES ASSUME Init PROVE FrontInv
  OBVIOUS
<1>1. Reached = 0 /\ span.offset = 0 /\ ~ InCall /\ pc \notin {"lower", "span"}
  BY DEF Init, Reached, NoSpan, InCall
<1> QED
  BY <1>1 DEF FrontInv

\* What is known of the front of a span holds in every state.
LEMMA FrontHolds == Spec => []FrontInv
<1>1. IInv /\ FrontInv /\ [Next]_vars => FrontInv'
  BY FrontStep
<1> QED
  BY <1>1, FrontInit, InvariantHolds, PTL DEF Spec

-----------------------------------------------------------------------------
(* The ranges *)

\* The program asks for spans in lower case only.
AsksForLower == Calls = {"lower"}

Ranges == UNION {ToSet(lang_stats[l].byte_ranges) : l \in DOMAIN lang_stats}

Apart(r, q) == r = q \/ r.end_index <= q.start_index \/ q.end_index <= r.start_index

\* Where spans of fewer than four bytes are counted, ranges may share the first
\* byte of the text.
MeetAtFront(r, q) == Apart(r, q) \/ r.end_index <= 1 \/ q.end_index <= 1

Clear(r, q) == MeetAtFront(r, q) /\ (min_num_bytes >= 4 => Apart(r, q))

\* Up to where in the text spans have been counted.
Bound == IF stage = "scan" THEN span.offset ELSE next_byte_

RangeInv ==
  /\ \A r \in Ranges : r.start_index <= r.end_index /\ r.end_index <= Bound
  /\ \A r, q \in Ranges : Clear(r, q)
  /\ min_num_bytes >= 4 /\ Ranges # {} => Bound >= 2

\* The ranges are ranges of the text.
LEMMA RangesTyped ==
  ASSUME StatsInv, NEW r \in Ranges
  PROVE  r.start_index \in Nat /\ r.end_index \in Nat
<1>1. PICK l \in DOMAIN lang_stats : r \in ToSet(lang_stats[l].byte_ranges)
  BY DEF Ranges
<1>2. lang_stats[l] \in Stats
  BY DEF StatsInv
<1>3. lang_stats[l].byte_ranges \in Seq([start_index : Nat, end_index : Nat])
  BY <1>2 DEF Stats
<1>4. PICK i \in DOMAIN lang_stats[l].byte_ranges : r = lang_stats[l].byte_ranges[i]
  BY <1>1 DEF ToSet
<1>5. r \in [start_index : Nat, end_index : Nat]
  <2> DEFINE R == [start_index : Nat, end_index : Nat]
             s == lang_stats[l].byte_ranges
  <2>1. s \in Seq(R) /\ i \in DOMAIN s /\ r = s[i]
    BY <1>3, <1>4
  <2> HIDE DEF R, s
  <2>2. r \in R
    BY <2>1
  <2> QED
    BY <2>2 DEF R
<1> QED
  BY <1>5

\* The span that a call has found: where it is mapped back to.
LEMMA SpanPlaced ==
  ASSUME AsksForLower, IInv, CallInv, FrontInv, pc = "span",
         NEW n \in Nat, n <= span.text_bytes
  PROVE  /\ span.offset \in Nat /\ next_byte_ \in Nat /\ span.offset <= next_byte_
         /\ MapBack(0) \in Nat /\ MapBack(n) \in Nat
         /\ MapBack(0) <= MapBack(n) /\ MapBack(n) <= next_byte_
         /\ span.offset <= MapBack(0) \/ span.offset = 1
         /\ n <= 1 + 2 * next_byte_
<1> DEFINE b == script_buffer
           z == 0
<1>1. /\ text \in Texts /\ next_byte_ \in Nat /\ b \in Seq(Entries(text))
      /\ span.offset \in Nat /\ span.text_bytes \in Nat
      /\ map2original \in TidyAlignments /\ map2uplow \in TidyAlignments
  BY PlaceTyped DEF IInv, BufferInv, MapInv, Spans
<1>2. Reached = next_byte_
  <2>1. take = 0
    BY DEF IInv, PlaceInv, InCall
  <2> QED
    BY <1>1, <2>1 DEF Reached
<1>3. call = "lower" /\ OneKindOfCall
  BY DEF AsksForLower, CallInv, OneKindOfCall
<1>4. /\ span.offset <= next_byte_ /\ Small(b, next_byte_)
      /\ Starting(map2original, span.offset)
  BY <1>2 DEF FrontInv
<1>5. /\ span.text_bytes = LowerBytes(b, Len(b))
      /\ MapsLowered(map2uplow, ToLower, Len(ToLower))
  BY <1>3 DEF IInv, LimitInv, MapInv
<1>6. span.text_bytes <= 1 + 2 * next_byte_
  BY <1>4, <1>5 DEF Small
<1>7. MapBack(span.text_bytes) = next_byte_
  BY <1>3, LettersGoBack DEF MapsLettersBack
<1>8. z \in Nat /\ z <= n
  OBVIOUS
<1> HIDE DEF z
<1>9. /\ MapBack(z) \in Nat /\ MapBack(n) \in Nat /\ MapBack(z) <= MapBack(n)
      /\ MapBack(n) <= MapBack(span.text_bytes)
  BY <1>1, <1>8, MapBackRises
<1>10. MapBack(z) = map2original.back[1]
  <2>1. z \in 0 .. Len(b) /\ z = 0
    BY <1>1 DEF z
  <2>2. LowerBytes(b, z) = 0 /\ PutBytes(b, z) = 0
    BY <1>1, <2>1, BytesTyped
  <2>3. BackOf(map2uplow, LowerBytes(b, z)) = PutBytes(b, z)
    BY <1>1, <1>5, <2>1, LoweredMapsBack
  <2>4. MapBack(z) = BackOf(map2original, 0)
    BY <2>1, <2>2, <2>3 DEF MapBack
  <2>5. MaxAprime(map2original) \in Nat /\ MaxAprime(map2original) >= 1
    BY <1>1, <1>4, AlignmentTyped DEF Starting
  <2>6. BackOf(map2original, 0) = map2original.back[1]
    BY <2>5 DEF BackOf
  <2> QED
    BY <2>4, <2>6
<1>11. span.offset <= MapBack(z) \/ span.offset = 1
  BY <1>4, <1>10 DEF Starting
<1>12. n <= 1 + 2 * next_byte_
  BY <1>1, <1>6
<1> QED
  BY <1>1, <1>4, <1>7, <1>9, <1>11, <1>12 DEF z

\* Counting a span adds no range but its own.
LEMMA OneRangeMore ==
  ASSUME StatsInv, NEW l, NEW b \in Nat, NEW n,
         SpanRange(n) \in [start_index : Nat, end_index : Nat],
         lang_stats' = WithSpan(l, b, n)
  PROVE  Ranges' \subseteq Ranges \cup {SpanRange(n)}
<1> DEFINE old == StatsOf(l).byte_ranges
           r == SpanRange(n)
<1>1. /\ DOMAIN lang_stats' = DOMAIN lang_stats \cup {l}
      /\ StatsOf(l) \in Stats
      /\ lang_stats'[l].byte_ranges = Append(old, r)
      /\ \A k \in DOMAIN lang_stats \ {l} : lang_stats'[k] = lang_stats[k]
  BY SpanCounted, ZenonT(40)
<1>2. ToSet(old) \subseteq Ranges
  <2>1. CASE l \in DOMAIN lang_stats
    BY <2>1 DEF StatsOf, Ranges
  <2>2. CASE l \notin DOMAIN lang_stats
    <3>1. old = <<>>
      BY <2>2 DEF StatsOf, NoStats
    <3> QED
      BY <3>1 DEF ToSet
  <2> QED
    BY <2>1, <2>2
<1>3. ToSet(Append(old, r)) = ToSet(old) \cup {r}
  <2> DEFINE S == [start_index : Nat, end_index : Nat]
             c == Append(old, r)
  <2>1. old \in Seq(S)
    BY <1>1 DEF Stats
  <2> HIDE DEF S, r, old
  <2>2. /\ DOMAIN c = DOMAIN old \cup {Len(old) + 1} /\ c[Len(old) + 1] = r
        /\ \A i \in DOMAIN old : c[i] = old[i]
        /\ Len(old) + 1 \notin DOMAIN old
    BY <2>1, OneMoreCounted
  <2> DEFINE m == Len(old) + 1
  <2>3. /\ DOMAIN c = DOMAIN old \cup {m} /\ c[m] = r
        /\ \A i \in DOMAIN old : c[i] = old[i]
    BY <2>2
  <2> HIDE DEF c, m
  <2>4. ToSet(c) = ToSet(old) \cup {r}
    BY <2>3 DEF ToSet
  <2> QED
    BY <2>4 DEF c
<1> SUFFICES ASSUME NEW q \in Ranges' PROVE q \in Ranges \cup {r}
  OBVIOUS
<1>4. PICK k \in DOMAIN lang_stats' : q \in ToSet(lang_stats'[k].byte_ranges)
  BY DEF Ranges
<1>5. CASE k = l
  <2> HIDE DEF r, old
  <2> QED
    BY <1>1, <1>2, <1>3, <1>4, <1>5
<1>6. CASE k # l
  <2>1. k \in DOMAIN lang_stats /\ lang_stats'[k] = lang_stats[k]
    BY <1>1, <1>4, <1>6
  <2> QED
    BY <1>4, <2>1 DEF Ranges
<1> QED
  BY <1>5, <1>6

\* The range of a span lies behind all others.
LEMMA CountKeepsRanges ==
  ASSUME AsksForLower, IInv, CallInv, FrontInv, StatsInv, RangeInv, CountSpan
  PROVE  RangeInv'
<1>1. PICK n \in Nat, l \in Languages :
        /\ pc = "span" /\ n >= min_num_bytes
        /\ n <= span.text_bytes /\ span.text_bytes \in Nat
        /\ SpanRange(n) \in [start_index : Nat, end_index : Nat]
        /\ lang_stats' = WithSpan(l, span.text_bytes, n)
  BY CountFinds
<1> DEFINE r == SpanRange(n)
           from == MapBack(0)
           to == MapBack(n)
<1>2. /\ span.offset \in Nat /\ next_byte_ \in Nat /\ span.offset <= next_byte_
      /\ from \in Nat /\ to \in Nat /\ from <= to /\ to <= next_byte_
      /\ span.offset <= from \/ span.offset = 1
      /\ n <= 1 + 2 * next_byte_
  BY <1>1, SpanPlaced
<1>3. r.start_index = from /\ r.end_index = to
  BY DEF SpanRange
<1>4. Bound = span.offset /\ Bound' = next_byte_
  BY DEF CountSpan, HaveSpan, Bound, vars
<1>5. Ranges' \subseteq Ranges \cup {r}
  BY <1>1, StatsInv, OneRangeMore
<1> HIDE DEF r, from, to
<1>6. min_num_bytes >= 4 => next_byte_ >= 2
  <2> SUFFICES ASSUME min_num_bytes >= 4 PROVE next_byte_ >= 2
    OBVIOUS
  <2>1. n >= 4
    BY <1>1, IdentifierAssumption
  <2> QED
    BY <1>2, <2>1
<1>7. ASSUME NEW q \in Ranges
      PROVE  /\ q.start_index \in Nat /\ q.end_index \in Nat
             /\ q.start_index <= q.end_index /\ q.end_index <= span.offset
             /\ q.end_index <= from \/ q.end_index <= 1
             /\ min_num_bytes >= 4 => q.end_index <= from
  <2>1. /\ q.start_index \in Nat /\ q.end_index \in Nat
        /\ q.start_index <= q.end_index /\ q.end_index <= span.offset
    BY <1>4, RangesTyped DEF RangeInv
  <2>2. min_num_bytes >= 4 => span.offset >= 2
    BY <1>4 DEF RangeInv
  <2> QED
    BY <1>2, <2>1, <2>2
<1>8. ASSUME NEW q \in Ranges'
      PROVE  q.start_index <= q.end_index /\ q.end_index <= next_byte_
  BY <1>2, <1>3, <1>5, <1>7
<1>9. ASSUME NEW p \in Ranges', NEW q \in Ranges'
      PROVE  Clear(p, q)
  <2>1. CASE p \in Ranges /\ q \in Ranges
    BY <2>1 DEF RangeInv
  <2>2. CASE p \in Ranges /\ q = r
    BY <1>3, <1>7, <2>2 DEF Clear, MeetAtFront, Apart
  <2>3. CASE p = r /\ q \in Ranges
    BY <1>3, <1>7, <2>3 DEF Clear, MeetAtFront, Apart
  <2>4. CASE p = r /\ q = r
    BY <2>4 DEF Clear, MeetAtFront, Apart
  <2> QED
    BY <1>5, <2>1, <2>2, <2>3, <2>4
<1>10. \A p, q : Clear(p, q)' <=> Clear(p, q)
  BY DEF Clear, MeetAtFront, Apart
<1> QED
  BY <1>4, <1>6, <1>8, <1>9, <1>10 DEF RangeInv

\* Every step of a call keeps the ranges apart.
LEMMA RangeStep ==
  ASSUME AsksForLower, IInv, CallInv, FrontInv, StatsInv, RangeInv, [INext]_allvars
  PROVE  RangeInv'
<1>1. CASE CountSpan
  BY <1>1, CountKeepsRanges
<1>2. CASE ~ CountSpan
  <2>1. lang_stats' = lang_stats
    BY <1>2 DEF INext, Begin, Ask, Scan, AppendSpan, FindLanguageEnds, SkipSpan,
                FindTopNEnds, ivars, allvars
  <2>2. Ranges' = Ranges
    BY <2>1 DEF Ranges
  <2>3. next_byte_ \in Nat /\ span.offset \in Nat
    BY PlaceTyped DEF IInv, BufferInv, Spans
  <2>4. Bound \in Nat /\ Bound' \in Nat /\ Bound <= Bound'
    <3>1. CASE Begin
      BY <2>3, <3>1 DEF Begin, Bound, Returns, vars
    <3>2. CASE Ask
      <4>1. stage = "ask" /\ stage' = "scan" /\ span'.offset = next_byte_
        BY <3>2 DEF Ask, GetOneScriptSpan, NoSpan
      <4> QED
        BY <2>3, <4>1 DEF Bound
    <3>3. CASE Scan
      <4>1. span \in Spans(text)
        BY DEF IInv, BufferInv
      <4>2. span'.offset = span.offset
        BY <3>3, <4>1 DEF Scan, CopyLetter, LettersStop, SkipNonLetters, Finish,
                          LowerCharacter, LowerScriptSpan, Spans
      <4>3. stage = "scan" /\ stage' = stage
        BY <3>3 DEF Scan, ivars
      <4> QED
        BY <2>3, <4>2, <4>3 DEF Bound
    <3>4. CASE AppendSpan \/ SkipSpan \/ FindLanguageEnds \/ FindTopNEnds
      <4>1. /\ stage = "scan" /\ stage' \in {"ask", "done"} /\ next_byte_' = next_byte_
            /\ pc \in {"span", "end"}
        BY <3>4 DEF AppendSpan, SkipSpan, FindLanguageEnds, FindTopNEnds, HaveSpan,
                    SpansEnd, Returns, vars
      <4>2. take = 0 /\ Reached = next_byte_
        BY <2>3, <4>1 DEF IInv, PlaceInv, InCall, Reached
      <4>3. span.offset <= next_byte_
        BY <4>2 DEF FrontInv
      <4> QED
        BY <2>3, <4>1, <4>3 DEF Bound
    <3>5. CASE UNCHANGED allvars
      <4>1. stage' = stage /\ next_byte_' = next_byte_ /\ span' = span
        BY <3>5 DEF allvars, vars, ivars
      <4> QED
        BY <2>3, <4>1 DEF Bound
    <3> QED
      BY <1>2, <3>1, <3>2, <3>3, <3>4, <3>5 DEF INext
  <2>5. ASSUME NEW r \in Ranges
        PROVE  r.start_index <= r.end_index /\ r.end_index <= Bound'
    <3>1. r.end_index \in Nat /\ r.start_index <= r.end_index /\ r.end_index <= Bound
      BY RangesTyped DEF RangeInv
    <3> HIDE DEF Bound
    <3> QED
      BY <2>4, <3>1
  <2>6. min_num_bytes >= 4 /\ Ranges # {} => Bound' >= 2
    <3>1. min_num_bytes >= 4 /\ Ranges # {} => Bound >= 2
      BY DEF RangeInv
    <3> QED
      BY <2>4, <3>1
  <2>7. \A r, q \in Ranges : Clear(r, q)
    BY DEF RangeInv
  <2>8. \A p, q : Clear(p, q)' <=> Clear(p, q)
    BY DEF Clear, MeetAtFront, Apart
  <2> QED
    BY <2>2, <2>5, <2>6, <2>7, <2>8 DEF RangeInv
<1> QED
  BY <1>1, <1>2

\* The ranges recorded so far are right in every state, for spans in lower case.
LEMMA RangesHold ==
  ASSUME AsksForLower
  PROVE  ISpec => []RangeInv
<1>1. IInit => RangeInv
  <2> SUFFICES ASSUME IInit PROVE RangeInv
    OBVIOUS
  <2>1. DOMAIN lang_stats = {}
    BY DEF IInit
  <2>2. Ranges = {}
    BY <2>1 DEF Ranges
  <2> QED
    BY <2>2 DEF RangeInv
<1>2. IInv /\ CallInv /\ FrontInv /\ StatsInv /\ RangeInv /\ [INext]_allvars => RangeInv'
  BY RangeStep
<1> QED
  BY <1>1, <1>2, CallScans, InvariantHolds, CallInvHolds, FrontHolds, StatsHold, PTL DEF ISpec

\* Every range begins no earlier than the one before it ends, if spans of
\* fewer than four bytes are not counted: the front of a span that begins one
\* byte into the text is mapped back before it.  (kMinNumBytesToConsider is
\* 140; for a smaller minimum see the next theorem.)
THEOREM RangesAreDisjoint ==
  ASSUME AsksForLower, min_num_bytes >= 4
  PROVE  ISpec => []RangesDisjoint
<1>1. RangeInv => RangesDisjoint
  BY DEF RangeInv, RangesDisjoint, Ranges, Clear, Apart
<1> QED
  BY <1>1, RangesHold, PTL

\* What two ranges may share at most is the first byte of the text, whatever
\* the minimum is.  (It is 0 unless a caller of the binding passes another.)
THEOREM RangesMeetAtFront ==
  ASSUME AsksForLower
  PROVE  ISpec => [](\A r, q \in Ranges : MeetAtFront(r, q))
<1>1. RangeInv => \A r, q \in Ranges : MeetAtFront(r, q)
  BY DEF RangeInv, Clear
<1> QED
  BY <1>1, RangesHold, PTL

=============================================================================
