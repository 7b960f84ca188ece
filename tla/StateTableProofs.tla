-------------------------- MODULE StateTableProofs --------------------------
(***************************************************************************)
(* What StateTable guarantees for all well-formed tables, all texts and    *)
(* all sizes of the output buffer: first that replacing keeps within the   *)
(* buffer, then, from a second invariant, where the interpreters end, what *)
(* they write and what they enter in the map.                              *)
(***************************************************************************)
EXTENDS StateTable, Lemmas

\* What an entry of a table that replaces may say: it never sends back, and
\* the state it leads to holds no more than the bytes read of a character.
LEMMA EntryOfReplace ==
  ASSUME table \in Tables, DOMAIN table.lower # {},
         NEW b \in Bytes, state.seen \in Seq(Bytes)
  PROVE  LET entry == Entry(state, b)
         IN  /\ entry.to.seen \in Seq(Bytes)
             /\ Len(entry.to.seen) <= Len(state.seen) + 1
             /\ entry.kind # "again"
             /\ entry.kind = "replace" => Append(state.seen, b) \in DOMAIN table.lower
<1>1. table.repeats = 0
  BY TablesAssumption DEF WellFormed
<1>2. ~ SendsBack(state)
  BY <1>1 DEF SendsBack
<1>3. /\ Append(state.seen, b) \in Seq(Bytes)
      /\ Len(Append(state.seen, b)) = Len(state.seen) + 1
  OBVIOUS
<1>4. <<>> \in Seq(Bytes) /\ Len(<<>>) = 0 /\ Len(state.seen) \in Nat
  OBVIOUS
<1>5. Entry(state, b).to.seen \in {<<>>, Append(state.seen, b)}
  BY DEF Entry
<1>6. Entry(state, b).kind # "again"
  BY <1>2 DEF Entry
<1>7. Entry(state, b).kind = "replace" => Append(state.seen, b) \in DOMAIN table.lower
  BY DEF Entry
<1> DEFINE entry == Entry(state, b)
           seen  == entry.to.seen
<1>8. seen \in Seq(Bytes)
  BY <1>3, <1>4, <1>5
<1>9. Len(seen) <= Len(state.seen) + 1
  <2>1. CASE seen = <<>>
    BY <1>4, <2>1
  <2>2. CASE seen = Append(state.seen, b)
    BY <1>3, <1>4, <2>2
  <2> QED
    BY <1>5, <2>1, <2>2
<1> HIDE DEF entry
<1> QED
  BY <1>6, <1>7, <1>8, <1>9 DEF entry

\* The output with the last n bytes replaced.
LEMMA ReplacedEnd ==
  ASSUME NEW s \in Seq(Bytes), NEW new \in Seq(Bytes),
         NEW n \in Nat, n <= Len(s)
  PROVE  /\ SubSeq(s, 1, Len(s) - n) \o new \in Seq(Bytes)
         /\ Len(SubSeq(s, 1, Len(s) - n) \o new) = Len(s) - n + Len(new)
<1> DEFINE kept == SubSeq(s, 1, Len(s) - n)
<1>1. kept \in Seq(Bytes) /\ Len(kept) = Len(s) - n
  OBVIOUS
<1> HIDE DEF kept
<1>2. kept \o new \in Seq(Bytes) /\ Len(kept \o new) = Len(kept) + Len(new)
  BY <1>1
<1> QED
  BY <1>1, <1>2 DEF kept

-----------------------------------------------------------------------------
(***************************************************************************)
(* The inductive invariant.  While a text is copied, the bytes seen of a   *)
(* character are at the end of the output, from where they are taken away  *)
(* again when the character is replaced.                                   *)
(***************************************************************************)
Copying ==
  /\ table \in Tables /\ DOMAIN table.lower # {}
  /\ text \in Seq(Bytes) /\ src \in 0 .. Len(text)
  /\ out \in Seq(Bytes) /\ olen \in Int
  /\ state.seen \in Seq(Bytes)
  /\ olen - Len(out) >= Len(text) - src
  /\ pc = "bytes" => Len(state.seen) <= Len(out)
  /\ pc = "exit" => src > 0 /\ Len(state.seen) < Len(out) /\ e # "again"
  /\ pc = "exit" /\ e = "replace" => Append(state.seen, text[src]) \in DOMAIN table.lower

IInv ==
  /\ pc \in {"idle", "fast", "bytes", "exit", "done"}
  /\ call \in {"scan", "replace"}
  /\ pc = "idle" => src = 0 /\ out = <<>> /\ state = Zero
  /\ pc = "fast" => call = "scan"
  /\ (pc \in {"bytes", "exit"} /\ call = "replace") => Copying

\* There is room before the first call.
LEMMA InitOK == Init => IInv
  BY DEF Init, IInv

\* A replacement begins with room for the whole text.
LEMMA CallReplaceOK == IInv /\ CallReplace => IInv'
<1> SUFFICES ASSUME IInv, CallReplace
             PROVE  IInv'
  OBVIOUS
<1>1. src' = 0 /\ out' = <<>> /\ state' = Zero /\ pc' \in {"bytes", "done"}
  BY DEF IInv, CallReplace
<1>2. /\ table' \in Tables /\ DOMAIN table'.lower # {}
      /\ text' \in Seq(Bytes)
  BY StateTableAssumption DEF CallReplace
<1>3. Len(text') \in Nat /\ olen' \in Int
  BY <1>2, StateTableAssumption DEF CallReplace
<1>4. pc' = "bytes" => olen' >= Len(text')
  BY <1>3 DEF CallReplace
<1>5. <<>> \in Seq(Bytes) /\ Len(<<>>) = 0
  OBVIOUS
<1>6. pc' = "bytes" => Copying'
  BY <1>1, <1>2, <1>3, <1>4, <1>5 DEF Copying, Zero
<1>7. call' = "replace"
  BY DEF CallReplace
<1> QED
  BY <1>1, <1>6, <1>7 DEF IInv

\* A byte that is copied takes as much room as it leaves text.
LEMMA ScanByteOK == IInv /\ ScanByte => IInv'
<1> SUFFICES ASSUME IInv, ScanByte
             PROVE  IInv'
  OBVIOUS
<1>1. pc' \in {"bytes", "exit"} /\ pc = "bytes" /\ call' = call
  BY DEF ScanByte
<1>2. CASE call # "replace"
  BY <1>1, <1>2 DEF IInv
<1>3. CASE call = "replace"
  <2> DEFINE b     == text[src + 1]
             entry == Entry(state, b)
  <2>1. Copying /\ Len(state.seen) <= Len(out)
    BY <1>1, <1>3 DEF IInv, Copying
  <2>2. src < Len(text) /\ src \in Nat /\ Len(text) \in Nat /\ b \in Bytes
    BY <2>1 DEF Copying, ScanByte
  <2>3. /\ entry.to.seen \in Seq(Bytes)
        /\ Len(entry.to.seen) <= Len(state.seen) + 1
        /\ entry.kind # "again"
        /\ entry.kind = "replace" => Append(state.seen, b) \in DOMAIN table.lower
    BY <2>1, <2>2, EntryOfReplace DEF Copying
  <2>4. /\ src' = src + 1 /\ out' = Append(out, b) /\ e' = entry.kind
        /\ UNCHANGED <<table, text, olen>>
        /\ pc' = "bytes" => state' = entry.to
        /\ pc' = "exit" => state' = state
    BY <1>3 DEF ScanByte
  <2> HIDE DEF entry, b
  <2>5. out' \in Seq(Bytes) /\ Len(out') = Len(out) + 1 /\ Len(out) \in Nat
    BY <2>1, <2>2, <2>4 DEF Copying
  <2>6. state'.seen \in Seq(Bytes) /\ Len(state.seen) \in Nat
    BY <1>1, <2>1, <2>3, <2>4 DEF Copying
  <2>7. pc' = "bytes" => Len(state'.seen) <= Len(out')
    BY <2>1, <2>3, <2>4, <2>5, <2>6
  <2>8. pc' = "exit" => Len(state'.seen) < Len(out')
    BY <2>1, <2>4, <2>5, <2>6
  <2>9. text'[src'] = b
    BY <2>4 DEF b
  <2>10. olen' - Len(out') >= Len(text') - src'
    BY <2>1, <2>2, <2>4, <2>5 DEF Copying
  <2>11. src' \in 0 .. Len(text') /\ src' > 0
    BY <2>2, <2>4
  <2>12. Copying'
    BY <2>1, <2>3, <2>4, <2>5, <2>6, <2>7, <2>8, <2>9, <2>10, <2>11 DEF Copying
  <2> QED
    BY <1>1, <2>12 DEF IInv
<1> QED
  BY <1>2, <1>3

\* A character that is replaced leaves room for the rest of the text.
LEMMA ReplaceCharacterOK == IInv /\ ReplaceCharacter => IInv'
<1> SUFFICES ASSUME IInv, ReplaceCharacter
             PROVE  IInv'
  OBVIOUS
<1> DEFINE char == Append(state.seen, text[src])
           new  == table.lower[char]
<1>1. pc = "exit" /\ e = "replace" /\ call' = call /\ pc' \in {"bytes", "exit"}
  BY DEF ReplaceCharacter
<1>2. CASE call # "replace"
  BY <1>1, <1>2 DEF IInv
<1>3. CASE call = "replace"
  <2>1. Copying /\ src > 0 /\ Len(state.seen) < Len(out) /\ char \in DOMAIN table.lower
    BY <1>1, <1>3 DEF IInv, Copying
  <2>2. /\ UNCHANGED <<call, table, text, src, olen>>
    BY DEF ReplaceCharacter
  <2>3. CASE ~ Fits(char, new)
    <3>1. pc' = pc /\ e' = "full" /\ state' = state /\ out' = out
      BY <2>3 DEF ReplaceCharacter
    <3>2. Copying'
      BY <1>1, <2>1, <2>2, <3>1 DEF Copying
    <3> QED
      BY <1>1, <3>2, <3>1 DEF IInv
  <2>4. CASE Fits(char, new)
    <3>1. /\ out' = SubSeq(out, 1, Len(out) - Len(char)) \o new
          /\ state' = Zero /\ pc' = "bytes"
      BY <2>4 DEF ReplaceCharacter
    <3>2. text[src] \in Bytes
      BY <2>1 DEF Copying
    <3>3. Len(char) = Len(state.seen) + 1 /\ Len(state.seen) \in Nat
      BY <2>1, <3>2 DEF Copying
    <3>4. new \in Seq(Bytes) /\ (char \notin table.checked => Len(new) <= Len(char))
      BY <2>1, TablesAssumption DEF Copying, WellFormed
    <3> DEFINE n == Len(char)
               m == Len(new)
    <3>5. n \in Nat /\ n <= Len(out) /\ m \in Nat /\ out \in Seq(Bytes)
          /\ Len(out) \in Nat
      BY <2>1, <3>3, <3>4 DEF Copying
    <3>6. char \in table.checked => olen - (Len(out) - n + m) >= Len(text) - src
      BY <2>4 DEF Fits
    <3>7. char \notin table.checked => m <= n
      BY <3>4
    <3>8. out' \in Seq(Bytes) /\ Len(out') = Len(out) - n + m
      BY <3>1, <3>4, <3>5, ReplacedEnd
    <3> HIDE DEF n, m, char, new
    <3>9. olen \in Int /\ Len(text) \in Nat /\ src \in Nat
          /\ olen - Len(out) >= Len(text) - src
      BY <2>1 DEF Copying
    <3>10. olen - (Len(out) - n + m) >= Len(text) - src
      BY <3>5, <3>6, <3>7, <3>9
    <3>11. olen' - Len(out') >= Len(text') - src'
      BY <2>2, <3>8, <3>10
    <3>12. <<>> \in Seq(Bytes) /\ Len(<<>>) = 0 /\ Len(out') \in Nat
      BY <3>8
    <3>13. Copying'
      BY <2>1, <2>2, <3>1, <3>8, <3>11, <3>12 DEF Copying, Zero
    <3> QED
      BY <1>1, <3>1, <3>13 DEF IInv
  <2> QED
    BY <2>3, <2>4
<1> QED
  BY <1>2, <1>3

\* Every step keeps the room.
LEMMA NextOK == IInv /\ [Next]_vars => IInv'
<1> SUFFICES ASSUME IInv, [Next]_vars
             PROVE  IInv'
  OBVIOUS
<1>1. CASE CallScan
  BY <1>1 DEF IInv, CallScan
<1>2. CASE CallReplace
  BY <1>2, CallReplaceOK
<1>3. CASE FastScan
  BY <1>3 DEF IInv, FastScan
<1>4. CASE FastScanEnds
  BY <1>4 DEF IInv, FastScanEnds
<1>5. CASE ScanByte
  BY <1>5, ScanByteOK
<1>6. CASE DoAgain
  <2>1. call # "replace"
    BY <1>6 DEF DoAgain, IInv, Copying
  <2>2. call \in {"scan", "replace"} /\ call' = call /\ pc' = "fast"
    BY <1>6 DEF DoAgain, IInv
  <2> QED
    BY <2>1, <2>2 DEF IInv
<1>7. CASE ReplaceCharacter
  BY <1>7, ReplaceCharacterOK
<1>8. CASE Leave
  BY <1>8 DEF IInv, Leave
<1>9. CASE Return
  BY <1>9 DEF IInv, Return
<1>10. CASE UNCHANGED vars
  BY <1>10 DEF vars, IInv, Copying
<1> QED
  BY <1>1, <1>2, <1>3, <1>4, <1>5, <1>6, <1>7, <1>8, <1>9, <1>10 DEF Next, Interpret

\* Replacing never writes behind the end of the output buffer, and always
\* leaves room for the rest of the text: whatever the table replaces, the
\* only check that UTF8GenericReplace makes is enough.
THEOREM ReplaceKeepsRoom == Spec => []RoomKept
<1>1. IInv => RoomKept
  BY DEF IInv, Copying, RoomKept
<1> QED
  BY <1>1, InitOK, NextOK, PTL DEF Spec
-----------------------------------------------------------------------------
(* Functions defined by what comes behind *)

\* f goes on from the places of D, to the next place, and stops at the others.
GoesOn(f, D, next, h, c, T) ==
  \A i \in T : f[i] = IF i \in D THEN h[<<i, f[next[i]]>>] ELSE c

\* There is such a function.
LEMMA GoingOnExists ==
  ASSUME NEW n \in Nat, NEW V, NEW c \in V, NEW D \in SUBSET (0 .. n),
         NEW next, \A i \in D : next[i] \in i + 1 .. n,
         NEW h, \A i \in D, v \in V : h[<<i, v>>] \in V
  PROVE  \E f \in [0 .. n -> V] : GoesOn(f, D, next, h, c, 0 .. n)
<1> DEFINE I == {k \in Nat : k <= n =>
                   \E f \in [n - k .. n -> V] : GoesOn(f, D, next, h, c, n - k .. n)}
<1>1. 0 \in I
  <2> DEFINE f == [i \in n .. n |-> c]
  <2>1. n \notin D
    OBVIOUS
  <2>2. f \in [n .. n -> V] /\ GoesOn(f, D, next, h, c, n .. n)
    BY <2>1 DEF GoesOn
  <2>3. n - 0 = n
    OBVIOUS
  <2> QED
    BY <2>2, <2>3
<1>2. ASSUME NEW k \in Nat, k \in I PROVE k + 1 \in I
  <2> SUFFICES ASSUME k + 1 <= n
               PROVE  \E f \in [n - (k + 1) .. n -> V] :
                        GoesOn(f, D, next, h, c, n - (k + 1) .. n)
    OBVIOUS
  <2> DEFINE b == n - k
             a == n - (k + 1)
  <2>1. a \in 0 .. n /\ a + 1 = b /\ b \in Int /\ a \in Int
        /\ a .. n = {a} \cup (b .. n) /\ a \notin b .. n
    OBVIOUS
  <2>2. PICK f \in [b .. n -> V] : GoesOn(f, D, next, h, c, b .. n)
    BY <1>2
  <2> HIDE DEF a, b
  <2> DEFINE d == IF a \in D THEN h[<<a, f[next[a]]>>] ELSE c
             g == [i \in a .. n |-> IF i = a THEN d ELSE f[i]]
  <2>3. a \in D => next[a] \in b .. n
    BY <2>1
  <2>4. \A i \in D : i \in b .. n => next[i] \in b .. n
    BY <2>1
  <2>5. d \in V
    BY <2>2, <2>3
  <2> HIDE DEF d
  <2>6. g \in [a .. n -> V] /\ g[a] = d /\ \A i \in b .. n : g[i] = f[i]
    BY <2>1, <2>2, <2>5
  <2> HIDE DEF g
  <2>7. g[a] = IF a \in D THEN h[<<a, g[next[a]]>>] ELSE c
    BY <2>3, <2>6 DEF d
  <2>8. ASSUME NEW i \in b .. n
        PROVE  g[i] = IF i \in D THEN h[<<i, g[next[i]]>>] ELSE c
    BY <2>2, <2>4, <2>6 DEF GoesOn
  <2>9. GoesOn(g, D, next, h, c, a .. n)
    BY <2>1, <2>7, <2>8 DEF GoesOn
  <2> QED
    BY <2>6, <2>9 DEF a
<1>3. n \in I
  <2> HIDE DEF I
  <2> QED
    BY <1>1, <1>2, NatsByInduction
<1>4. n - n = 0
  OBVIOUS
<1> QED
  BY <1>3, <1>4

-----------------------------------------------------------------------------
(* Characters of a text *)

\* What is said of the characters of a table.
LEMMA CharacterIs ==
  ASSUME NEW tbl \in Tables, NEW c \in Characters(tbl)
  PROVE  /\ c \in Seq(Bytes) /\ Len(c) \in Nat \ {0} /\ c[1] \notin Cont
         /\ \A i \in 2 .. Len(c) : c[i] \in Cont
         /\ \A d \in Characters(tbl), n \in 1 .. Len(c) - 1 : SubSeq(c, 1, n) # d
<1>1. WellFormed(tbl) /\ c \in Seq(Bytes)
  BY TablesAssumption
<1>2. c # <<>>
  BY <1>1 DEF WellFormed
<1>3. Len(c) \in Nat \ {0}
  BY <1>1, <1>2
<1> QED
  BY <1>1, <1>3, Zenon DEF WellFormed

\* Where a character or a beginning of one stands, so does each beginning of it.
LEMMA BeginningStands ==
  ASSUME NEW txt \in Seq(Bytes), NEW p \in Seq(Bytes), NEW i \in Nat, StandsAt(txt, p, i),
         NEW n \in 0 .. Len(p)
  PROVE  SubSeq(txt, i + 1, i + n) = SubSeq(p, 1, n)
<1> DEFINE m == Len(p)
           w == SubSeq(txt, i + 1, i + m)
<1>1. m \in Nat /\ i + m <= Len(txt) /\ w = p /\ n \in 0 .. m
  BY DEF StandsAt
<1>2. SubSeq(w, 1, n) = SubSeq(txt, i + 1, i + n)
  <2> HIDE DEF m
  <2> QED
    BY <1>1
<1> QED
  BY <1>1, <1>2

\* No character stands within the beginning of another one.
LEMMA NoneWithinBeginning ==
  ASSUME NEW tbl \in Tables, NEW txt \in Seq(Bytes),
         NEW c \in Characters(tbl), NEW d \in Characters(tbl),
         NEW p \in Seq(Bytes), Len(p) < Len(d), SubSeq(d, 1, Len(p)) = p,
         NEW i \in Nat, StandsAt(txt, p, i), StandsAt(txt, c, i)
  PROVE  Len(p) < Len(c)
<1> SUFFICES ASSUME ~ (Len(p) < Len(c)) PROVE FALSE
  OBVIOUS
<1>1. /\ c \in Seq(Bytes) /\ d \in Seq(Bytes) /\ Len(c) \in Nat \ {0} /\ Len(d) \in Nat
      /\ Len(p) \in Nat
  BY CharacterIs
<1>2. Len(c) \in 0 .. Len(p) /\ Len(c) \in 1 .. Len(d) - 1
  BY <1>1
<1>3. SubSeq(txt, i + 1, i + Len(c)) = SubSeq(p, 1, Len(c))
  BY <1>2, BeginningStands
<1>4. SubSeq(p, 1, Len(c)) = SubSeq(d, 1, Len(c))
  <2> DEFINE n == Len(c)
             m == Len(p)
  <2>1. n \in Nat /\ m \in Nat /\ n <= m /\ m <= Len(d)
    BY <1>1, <1>2
  <2>2. SubSeq(SubSeq(d, 1, m), 1, n) = SubSeq(d, 1, n)
    <3> HIDE DEF n, m
    <3> QED
      BY <1>1, <2>1
  <2> QED
    BY <2>2
<1>5. SubSeq(d, 1, Len(c)) = c
  BY <1>3, <1>4 DEF StandsAt
<1>6. SubSeq(d, 1, Len(c)) # c
  BY <1>2, CharacterIs
<1> QED
  BY <1>5, <1>6

\* Only one character stands at a place.
LEMMA OneStands ==
  ASSUME NEW tbl \in Tables, NEW txt \in Seq(Bytes),
         NEW c \in Characters(tbl), NEW d \in Characters(tbl),
         NEW i \in Nat, StandsAt(txt, c, i), StandsAt(txt, d, i)
  PROVE  c = d
<1>1. /\ c \in Seq(Bytes) /\ d \in Seq(Bytes)
      /\ Len(c) \in Nat \ {0} /\ Len(d) \in Nat \ {0}
  BY CharacterIs
<1>2. ASSUME NEW a \in Characters(tbl), NEW b \in Characters(tbl),
             StandsAt(txt, a, i), StandsAt(txt, b, i)
      PROVE  ~ (Len(a) < Len(b))
  <2> SUFFICES ASSUME Len(a) < Len(b) PROVE FALSE
    OBVIOUS
  <2>1. a \in Seq(Bytes) /\ b \in Seq(Bytes) /\ Len(a) \in Nat \ {0} /\ Len(b) \in Nat
    BY CharacterIs
  <2>2. Len(a) \in 0 .. Len(b) /\ Len(a) \in 1 .. Len(b) - 1
    BY <2>1
  <2>3. SubSeq(b, 1, Len(a)) = a
    BY <1>2, <2>1, <2>2, BeginningStands DEF StandsAt
  <2> QED
    BY <2>2, <2>3, CharacterIs
<1>3. Len(c) = Len(d)
  BY <1>1, <1>2
<1> QED
  BY <1>3 DEF StandsAt

\* The character that is taken at a place where one is accepted.
Taken(tbl, txt, i) == CHOOSE c \in CharAt(tbl, txt, i) : TRUE

\* The character chosen is the only one that stands there: none begins another.
LEMMA TakenIs ==
  ASSUME NEW tbl \in Tables, NEW txt \in Seq(Bytes), NEW i \in 0 .. Len(txt),
         NEW c \in CharAt(tbl, txt, i)
  PROVE  /\ Taken(tbl, txt, i) = c /\ c \in Accepted(tbl) /\ c \in Seq(Bytes)
         /\ Len(c) \in Nat \ {0} /\ i + Len(c) \in i + 1 .. Len(txt)
         /\ SubSeq(txt, i + 1, i + Len(c)) = c
<1>1. Taken(tbl, txt, i) \in CharAt(tbl, txt, i)
  BY DEF Taken
<1>2. /\ c \in Accepted(tbl) /\ Taken(tbl, txt, i) \in Accepted(tbl)
      /\ StandsAt(txt, c, i) /\ StandsAt(txt, Taken(tbl, txt, i), i)
  BY <1>1 DEF CharAt
<1>3. c \in Characters(tbl) /\ Taken(tbl, txt, i) \in Characters(tbl)
  BY <1>2 DEF Characters
<1>4. Taken(tbl, txt, i) = c
  BY <1>2, <1>3, OneStands
<1>5. c \in Seq(Bytes) /\ Len(c) \in Nat \ {0}
  BY <1>3, CharacterIs
<1>6. i + Len(c) <= Len(txt) /\ SubSeq(txt, i + 1, i + Len(c)) = c
  BY <1>2 DEF StandsAt
<1> DEFINE n == Len(c)
<1> HIDE DEF n
<1>7. i + n \in i + 1 .. Len(txt)
  BY <1>5, <1>6 DEF n
<1> QED
  BY <1>2, <1>4, <1>5, <1>6, <1>7 DEF n

\* The characters of a text are those from the first place on.
LEMMA CharsUnfold ==
  ASSUME NEW tbl \in Tables, NEW txt \in Seq(Bytes)
  PROVE  \E f : /\ f[0] = CharsOf(tbl, txt)
                /\ \A i \in 0 .. Len(txt) :
                     /\ f[i] \in Seq(Accepted(tbl))
                     /\ CharAt(tbl, txt, i) = {} => f[i] = <<>>
                     /\ \A c \in CharAt(tbl, txt, i) : f[i] = <<c>> \o f[i + Len(c)]
<1> DEFINE L == Len(txt)
           V == Seq(Accepted(tbl))
           D == {i \in 0 .. L : CharAt(tbl, txt, i) # {}}
           next == [i \in D |-> i + Len(Taken(tbl, txt, i))]
           h == [p \in D \X V |-> <<Taken(tbl, txt, p[1])>> \o p[2]]
           from[i \in 0 .. L] ==
             IF CharAt(tbl, txt, i) = {} THEN <<>>
             ELSE LET c == CHOOSE c \in CharAt(tbl, txt, i) : TRUE
                  IN  <<c>> \o from[i + Len(c)]
           Rec(g) == g = [i \in 0 .. L |->
             IF CharAt(tbl, txt, i) = {} THEN <<>>
             ELSE LET c == CHOOSE c \in CharAt(tbl, txt, i) : TRUE
                  IN  <<c>> \o g[i + Len(c)]]
<1>1. L \in Nat
  OBVIOUS
<1>2. ASSUME NEW i \in D
      PROVE  /\ Taken(tbl, txt, i) \in CharAt(tbl, txt, i)
             /\ Taken(tbl, txt, i) \in Accepted(tbl)
             /\ next[i] = i + Len(Taken(tbl, txt, i)) /\ next[i] \in i + 1 .. L
             /\ \A c \in CharAt(tbl, txt, i) : c = Taken(tbl, txt, i)
  <2>1. Taken(tbl, txt, i) \in CharAt(tbl, txt, i)
    BY DEF Taken
  <2> QED
    BY <2>1, TakenIs
<1>3. ASSUME NEW i \in D, NEW v \in V
      PROVE  h[<<i, v>>] = <<Taken(tbl, txt, i)>> \o v /\ h[<<i, v>>] \in V
  <2>1. Taken(tbl, txt, i) \in Accepted(tbl)
    BY <1>2
  <2> QED
    BY <2>1
<1>4. PICK g \in [0 .. L -> V] : GoesOn(g, D, next, h, <<>>, 0 .. L)
  <2> DEFINE none == <<>>
  <2>1. none \in V /\ D \in SUBSET (0 .. L)
    OBVIOUS
  <2> HIDE DEF D, next, h, V, L, none
  <2>2. \E g \in [0 .. L -> V] : GoesOn(g, D, next, h, none, 0 .. L)
    BY <1>1, <1>2, <1>3, <2>1, GoingOnExists
  <2> QED
    BY <2>2 DEF none
<1>5. \A i \in 0 .. L : g[i] = IF i \in D THEN h[<<i, g[next[i]]>>] ELSE <<>>
  BY <1>4 DEF GoesOn
<1>6. ASSUME NEW i \in 0 .. L, CharAt(tbl, txt, i) # {}
      PROVE  g[i] = <<Taken(tbl, txt, i)>> \o g[i + Len(Taken(tbl, txt, i))]
  <2>1. i \in D
    BY <1>6
  <2>2. next[i] = i + Len(Taken(tbl, txt, i)) /\ next[i] \in 0 .. L
    <3>1. next[i] = i + Len(Taken(tbl, txt, i)) /\ next[i] \in i + 1 .. L
      BY <1>2, <2>1
    <3> HIDE DEF next, D, L
    <3> QED
      BY <1>1, <3>1
  <2>3. g[next[i]] \in V
    BY <1>4, <2>2
  <2> HIDE DEF D, next, h, V, L
  <2>4. h[<<i, g[next[i]]>>] = <<Taken(tbl, txt, i)>> \o g[next[i]]
    BY <1>3, <2>1, <2>3
  <2>5. g[i] = h[<<i, g[next[i]]>>]
    BY <1>5, <2>1
  <2> QED
    BY <2>2, <2>4, <2>5
<1>7. \A i \in 0 .. L : CharAt(tbl, txt, i) = {} => g[i] = <<>>
  BY <1>5
<1>8. Rec(g)
  <2>1. g = [i \in 0 .. L |-> g[i]]
    BY <1>4
  <2> HIDE DEF L, V
  <2> QED
    BY <1>6, <1>7, <2>1 DEF Taken
<1>9. Rec(from)
  BY <1>8
<1> HIDE DEF from
<1>10. ASSUME NEW i \in 0 .. L, CharAt(tbl, txt, i) # {}
       PROVE  from[i] = <<Taken(tbl, txt, i)>> \o from[i + Len(Taken(tbl, txt, i))]
  <2> HIDE DEF L
  <2> QED
    BY <1>9, <1>10 DEF Taken
<1>11. \A i \in 0 .. L : CharAt(tbl, txt, i) = {} => from[i] = <<>>
  <2> HIDE DEF L
  <2> QED
    BY <1>9
<1> DEFINE S == {i \in 0 .. L : from[i] \in V}
<1>12. ASSUME NEW i \in 0 .. L, \A j \in i + 1 .. L : j \in S PROVE i \in S
  <2>1. CASE CharAt(tbl, txt, i) = {}
    <3>1. from[i] = <<>>
      BY <1>11, <2>1
    <3>2. <<>> \in V
      OBVIOUS
    <3> HIDE DEF V
    <3> QED
      BY <3>1, <3>2
  <2>2. CASE CharAt(tbl, txt, i) # {}
    <3>1. i \in D
      BY <2>2
    <3>2. /\ Taken(tbl, txt, i) \in Accepted(tbl)
          /\ next[i] = i + Len(Taken(tbl, txt, i)) /\ next[i] \in i + 1 .. L
      BY <1>2, <3>1
    <3>3. i + Len(Taken(tbl, txt, i)) \in S
      <4> HIDE DEF D, next, S, L
      <4> QED
        BY <1>12, <3>2
    <3>4. from[i] = <<Taken(tbl, txt, i)>> \o from[i + Len(Taken(tbl, txt, i))]
      BY <1>10, <2>2
    <3> DEFINE rest == from[i + Len(Taken(tbl, txt, i))]
    <3>5. rest \in Seq(Accepted(tbl))
      BY <3>3
    <3> HIDE DEF rest
    <3>6. <<Taken(tbl, txt, i)>> \o rest \in Seq(Accepted(tbl))
      BY <3>2, <3>5
    <3> QED
      BY <3>4, <3>6 DEF rest
  <2> QED
    BY <2>1, <2>2
<1>13. \A i \in 0 .. L : i \in S
  <2> HIDE DEF S, L
  <2> QED
    BY <1>1, <1>12, FromBehind
<1>14. ASSUME NEW i \in 0 .. L, NEW c \in CharAt(tbl, txt, i)
       PROVE  from[i] = <<c>> \o from[i + Len(c)]
  <2>1. i \in D
    BY <1>14
  <2>2. c = Taken(tbl, txt, i)
    BY <1>2, <2>1
  <2> HIDE DEF L, D
  <2> QED
    BY <1>10, <1>14, <2>2
<1>15. from[0] = CharsOf(tbl, txt)
  BY DEF CharsOf, from
<1> QED
  BY <1>11, <1>13, <1>14, <1>15

\* The first k characters of a text, put together.
Passed(tbl, txt, k) == FlattenSeq(SubSeq(CharsOf(tbl, txt), 1, k))

\* A beginning of a sequence with the element behind it.
LEMMA BeginningGrows ==
  ASSUME NEW S, NEW s \in Seq(S), NEW k \in 0 .. Len(s) - 1
  PROVE  /\ SubSeq(s, 1, k) \in Seq(S) /\ SubSeq(s, 1, k + 1) \in Seq(S)
         /\ SubSeq(s, 1, k + 1) = Append(SubSeq(s, 1, k), s[k + 1])
         /\ Len(SubSeq(s, 1, k)) = k /\ s[k + 1] \in S
OBVIOUS

\* The characters follow one another: behind the first k of them stands the
\* next, and behind the last one none that the table accepts.
LEMMA Borders ==
  ASSUME NEW tbl \in Tables, NEW txt \in Seq(Bytes)
  PROVE  LET chars == CharsOf(tbl, txt) IN
         /\ chars \in Seq(Accepted(tbl)) /\ Accepted(tbl) \subseteq Seq(Bytes)
         /\ Len(Passed(tbl, txt, 0)) = 0
         /\ \A k \in 0 .. Len(chars) :
              LET at == Len(Passed(tbl, txt, k)) IN
              /\ Passed(tbl, txt, k) \in Seq(Bytes) /\ at \in 0 .. Len(txt)
              /\ k = Len(chars) => CharAt(tbl, txt, at) = {}
              /\ k < Len(chars) =>
                   /\ chars[k + 1] \in CharAt(tbl, txt, at)
                   /\ Passed(tbl, txt, k + 1) = Passed(tbl, txt, k) \o chars[k + 1]
<1> DEFINE L == Len(txt)
           A == Accepted(tbl)
           n == Len(CharsOf(tbl, txt))
<1>1. PICK f : /\ f[0] = CharsOf(tbl, txt)
               /\ \A i \in 0 .. L :
                    /\ f[i] \in Seq(A)
                    /\ CharAt(tbl, txt, i) = {} => f[i] = <<>>
                    /\ \A c \in CharAt(tbl, txt, i) : f[i] = <<c>> \o f[i + Len(c)]
  BY CharsUnfold
<1>2. L \in Nat /\ CharsOf(tbl, txt) \in Seq(A)
  BY <1>1
<1>3. A \subseteq Seq(Bytes)
  BY TablesAssumption DEF Characters
<1>4. n \in Nat
  BY <1>2
<1> DEFINE
     Rest(k) == SubSeq(CharsOf(tbl, txt), k + 1, n)
     \* What holds behind the first k characters ...
     Behind(k) == /\ Passed(tbl, txt, k) \in Seq(Bytes) /\ Len(Passed(tbl, txt, k)) \in 0 .. L
                  /\ f[Len(Passed(tbl, txt, k))] = Rest(k)
     \* ... and of the next.
     Goes(k) == /\ CharsOf(tbl, txt)[k + 1] \in CharAt(tbl, txt, Len(Passed(tbl, txt, k)))
                /\ Passed(tbl, txt, k + 1) = Passed(tbl, txt, k) \o CharsOf(tbl, txt)[k + 1]
     S == {k \in 0 .. n : Behind(k)}
<1>5. 0 \in S /\ Len(Passed(tbl, txt, 0)) = 0
  <2>1. Passed(tbl, txt, 0) = <<>>
    <3>1. SubSeq(CharsOf(tbl, txt), 1, 0) = <<>>
      BY <1>2
    <3> QED
      BY <3>1, FlattenNothing DEF Passed
  <2>2. Len(Passed(tbl, txt, 0)) = 0 /\ Passed(tbl, txt, 0) \in Seq(Bytes)
    <3>1. Len(<<>>) = 0 /\ <<>> \in Seq(Bytes)
      OBVIOUS
    <3> QED
      BY <2>1, <3>1
  <2>3. Rest(0) = CharsOf(tbl, txt)
    BY <1>2
  <2> QED
    BY <1>1, <1>2, <1>4, <2>2, <2>3
<1>6. ASSUME NEW k \in 0 .. n - 1, Behind(k)
      PROVE  Goes(k) /\ Behind(k + 1)
  <2> DEFINE i == Len(Passed(tbl, txt, k))
             c == CharsOf(tbl, txt)[k + 1]
  <2>1. i \in 0 .. L /\ Passed(tbl, txt, k) \in Seq(Bytes) /\ f[i] = Rest(k)
    BY <1>6
  <2>2. k \in Nat /\ k < n /\ Rest(k) # <<>> /\ Rest(k)[1] = c
        /\ Tail(Rest(k)) = Rest(k + 1)
    <3> HIDE DEF A
    <3>1. k \in Nat /\ k < n /\ k + 1 \in 1 .. n /\ n \in Nat
      BY <1>4
    <3>2. Rest(k) \in Seq(A) /\ Len(Rest(k)) = n - k
      BY <1>2, <3>1
    <3>3. Rest(k)[1] = c
      BY <1>2, <3>1, <3>2
    <3>4. Tail(Rest(k)) = Rest(k + 1)
      BY <1>2, <3>1
    <3>5. Rest(k) # <<>>
      <4>1. Len(<<>>) = 0 /\ n - k # 0
        BY <3>1
      <4> QED
        BY <3>2, <4>1
    <3> QED
      BY <3>1, <3>3, <3>4, <3>5
  <2>3. CharAt(tbl, txt, i) # {}
    BY <1>1, <2>1, <2>2
  <2>4. PICK d : d \in CharAt(tbl, txt, i)
    BY <2>3
  <2>5. /\ d \in A /\ d \in Seq(Bytes) /\ Len(d) \in Nat \ {0}
        /\ i + Len(d) \in i + 1 .. L
    BY <1>2, <2>1, <2>4, TakenIs
  <2>6. i + Len(d) \in 0 .. L
    BY <2>1, <2>5
  <2>7. Rest(k) = <<d>> \o f[i + Len(d)] /\ f[i + Len(d)] \in Seq(A)
    BY <1>1, <2>1, <2>4, <2>6
  <2> DEFINE rest == f[i + Len(d)]
  <2>8. d = c
    <3> HIDE DEF rest, A
    <3>1. (<<d>> \o rest)[1] = d
      BY <2>5, <2>7
    <3> QED
      BY <2>2, <2>7, <3>1 DEF rest
  <2>9. rest = Rest(k + 1)
    <3>1. rest = Tail(Rest(k))
      <4> HIDE DEF rest, A, Rest
      <4>1. rest \in Seq(A)
        BY <2>7 DEF rest
      <4>2. Tail(<<d>> \o rest) = rest
        BY <2>5, <4>1
      <4> QED
        BY <2>7, <4>2 DEF rest
    <3> QED
      BY <2>2, <3>1
  <2>10. /\ Passed(tbl, txt, k + 1) = Passed(tbl, txt, k) \o c
         /\ Passed(tbl, txt, k) \o c \in Seq(Bytes)
    <3> DEFINE T == Seq(Bytes)
    <3>1. CharsOf(tbl, txt) \in Seq(T)
      <4> HIDE DEF A, T
      <4> QED
        BY <1>2, <1>3 DEF T
    <3>2. /\ SubSeq(CharsOf(tbl, txt), 1, k) \in Seq(T)
          /\ SubSeq(CharsOf(tbl, txt), 1, k + 1)
               = Append(SubSeq(CharsOf(tbl, txt), 1, k), c)
      <4> HIDE DEF T
      <4> QED
        BY <3>1, BeginningGrows
    <3>3. c \in Seq(Bytes)
      BY <2>5, <2>8
    <3> HIDE DEF c
    <3>4. Passed(tbl, txt, k + 1) = Passed(tbl, txt, k) \o c
      BY <3>2, <3>3, FlattenWithOneMore DEF Passed
    <3> QED
      BY <2>1, <3>3, <3>4
  <2>11. Len(Passed(tbl, txt, k + 1)) = i + Len(d)
    <3> HIDE DEF c
    <3> QED
      BY <2>1, <2>5, <2>8, <2>10
  <2>12. Behind(k + 1)
    BY <2>6, <2>9, <2>10, <2>11
  <2> QED
    BY <2>4, <2>8, <2>10, <2>12
<1> HIDE DEF Behind, Goes
<1>7. \A k \in 0 .. n : k \in S
  <2> DEFINE z == 0
  <2>1. z \in Int /\ n \in Int /\ z \in S
    BY <1>4, <1>5
  <2>2. \A k \in z .. n - 1 : k \in S => k + 1 \in S
    BY <1>4, <1>6
  <2> HIDE DEF S, z, n
  <2>3. \A k \in z .. n : k \in S
    BY <2>1, <2>2, UpFrom
  <2> QED
    BY <2>3 DEF z
<1>8. ASSUME NEW k \in 0 .. n, k < n PROVE Goes(k)
  BY <1>4, <1>6, <1>7, <1>8
<1>9. CharAt(tbl, txt, Len(Passed(tbl, txt, n))) = {}
  <2> SUFFICES ASSUME NEW c \in CharAt(tbl, txt, Len(Passed(tbl, txt, n))) PROVE FALSE
    OBVIOUS
  <2> DEFINE i == Len(Passed(tbl, txt, n))
  <2>1. i \in 0 .. L /\ f[i] = Rest(n)
    BY <1>4, <1>7 DEF Behind
  <2>2. Rest(n) = <<>>
    BY <1>2
  <2>3. i + Len(c) \in 0 .. L
    BY <1>2, <2>1, TakenIs
  <2>4. f[i] = <<c>> \o f[i + Len(c)] /\ f[i + Len(c)] \in Seq(A)
    BY <1>1, <2>1, <2>3
  <2>5. <<c>> \o f[i + Len(c)] # <<>>
    BY <2>4
  <2> QED
    BY <2>1, <2>2, <2>4, <2>5
<1>10. ASSUME NEW k \in 0 .. n
       PROVE  Passed(tbl, txt, k) \in Seq(Bytes) /\ Len(Passed(tbl, txt, k)) \in 0 .. L
  BY <1>7 DEF Behind
<1> QED
  BY <1>2, <1>3, <1>5, <1>8, <1>9, <1>10 DEF Goes

-----------------------------------------------------------------------------
(* What becomes of characters: their replacements, and the map of them *)

\* The replacements of one character more.
LEMMA LoweredWithOneMore ==
  ASSUME NEW tbl \in Tables, NEW s \in Seq(Accepted(tbl)), NEW c \in Accepted(tbl)
  PROVE  /\ LowerOf(tbl, c) \in Seq(Bytes) /\ Lowered(tbl, s) \in Seq(Bytes)
         /\ Lowered(tbl, Append(s, c)) = Lowered(tbl, s) \o LowerOf(tbl, c)
<1> DEFINE A == Accepted(tbl)
           T == Seq(Bytes)
           n == Len(s)
           t == Append(s, c)
           low(r) == [i \in DOMAIN r |-> LowerOf(tbl, r[i])]
<1>1. \A d \in A : LowerOf(tbl, d) \in T
  <2>1. A \subseteq T
    BY TablesAssumption DEF Characters
  <2> QED
    BY <2>1, TablesAssumption DEF LowerOf
<1> HIDE DEF T, A
<1>2. s \in Seq(A) /\ c \in A
  BY DEF A
<1>3. /\ t \in Seq(A) /\ Len(t) = n + 1 /\ t[n + 1] = c /\ n \in Nat
      /\ \A i \in 1 .. n : t[i] = s[i]
  BY <1>2
<1>4. low(s) \in Seq(T) /\ Len(low(s)) = n /\ \A i \in 1 .. n : low(s)[i] = LowerOf(tbl, s[i])
  BY <1>1, <1>2
<1>5. /\ low(t) \in Seq(T) /\ Len(low(t)) = n + 1
      /\ \A i \in 1 .. n + 1 : low(t)[i] = LowerOf(tbl, t[i])
  <2> HIDE DEF t
  <2> QED
    BY <1>1, <1>3
<1>6. LowerOf(tbl, c) \in T
  BY <1>1, <1>2
<1> HIDE DEF low, t
<1>7. low(t) = Append(low(s), LowerOf(tbl, c))
  <2> DEFINE u == low(s)
             v == low(t)
             d == LowerOf(tbl, c)
  <2>1. /\ u \in Seq(T) /\ v \in Seq(T) /\ d \in T /\ Len(u) = n /\ Len(v) = n + 1
        /\ n \in Nat
    BY <1>3, <1>4, <1>5, <1>6
  <2>2. \A i \in 1 .. n : v[i] = u[i]
    <3> HIDE DEF u, v
    <3>1. ASSUME NEW i \in 1 .. n PROVE v[i] = u[i]
      <4>1. i \in 1 .. n + 1
        BY <1>3
      <4> QED
        BY <1>3, <1>4, <1>5, <4>1 DEF u, v
    <3> QED
      BY <3>1
  <2>3. v[n + 1] = d
    BY <1>3, <1>5
  <2> HIDE DEF u, v, d
  <2>4. Append(u, d) \in Seq(T) /\ Len(Append(u, d)) = n + 1
    BY <2>1
  <2>5. \A i \in 1 .. n + 1 : v[i] = Append(u, d)[i]
    BY <2>1, <2>2, <2>3
  <2>6. v = Append(u, d)
    BY <2>1, <2>4, <2>5, SeqEqual
  <2> QED
    BY <2>6 DEF u, v, d
<1>8. FlattenSeq(low(s)) \in T /\ FlattenSeq(low(t)) = FlattenSeq(low(s)) \o LowerOf(tbl, c)
  BY <1>4, <1>6, <1>7, FlattenWithOneMore DEF T
<1> QED
  BY <1>6, <1>8 DEF Lowered, low, t, T

\* A set of places in a sequence has a last one.
LEMMA MaxIsLast ==
  ASSUME NEW n \in Nat, NEW t \in SUBSET (1 .. n), t # {}
  PROVE  Max(t) \in t /\ \A y \in t : y <= Max(t)
<1> DEFINE T == {k \in 0 .. n : n - k \in t}
<1>1. PICK x : x \in t
  OBVIOUS
<1>2. n - x \in T /\ T \in SUBSET Nat
  BY <1>1
<1>3. PICK k \in T : \A m \in T : k <= m
  <2> HIDE DEF T
  <2> QED
    BY <1>2, LeastExists
<1>4. ASSUME NEW y \in t PROVE n - k >= y
  <2>1. n - y \in T
    OBVIOUS
  <2> QED
    BY <1>3, <2>1
<1>5. n - k \in t
  OBVIOUS
<1>6. \E z \in t : \A y \in t : z >= y
  BY <1>4, <1>5
<1>7. Max(t) \in t /\ \A y \in t : Max(t) >= y
  BY <1>6 DEF Max
<1> DEFINE m == Max(t)
<1> HIDE DEF m
<1>8. m \in 1 .. n /\ \A y \in t : m >= y /\ y \in 1 .. n
  BY <1>7 DEF m
<1>9. \A y \in t : y <= m
  BY <1>8
<1> QED
  BY <1>7, <1>9 DEF m

\* g puts the parts of a sequence in the map, the last element last.
Folded(tbl, g, s, P) ==
  \A t \in P : g[t] = IF t = {} THEN EmptyAlignment
                      ELSE LowerOne(tbl, g[t \ {Max(t)}], s[Max(t)])

\* There is a function on sets of places that does what the fold does.
LEMMA FoldExists ==
  ASSUME NEW tbl, NEW n \in Nat, NEW s
  PROVE  \E g : g = [t \in SUBSET (1 .. n) |-> g[t]] /\ Folded(tbl, g, s, SUBSET (1 .. n))
<1> DEFINE S == 1 .. n
           P(m) == {t \in SUBSET S : Cardinality(t) <= m}
           Good(g, m) == g = [t \in P(m) |-> g[t]] /\ Folded(tbl, g, s, P(m))
           I == {m \in Nat : \E g : Good(g, m)}
<1>1. \A t \in SUBSET S : IsFiniteSet(t) /\ Cardinality(t) \in Nat
      /\ Cardinality(t) <= Cardinality(S)
  <2>1. IsFiniteSet(S)
    BY FS_Interval
  <2> QED
    BY <2>1, FS_Subset, FS_CardinalityType
<1>2. \A t \in SUBSET S : t # {} => /\ Max(t) \in t /\ t \ {Max(t)} \in SUBSET S
                                    /\ Cardinality(t) = Cardinality(t \ {Max(t)}) + 1
  BY <1>1, MaxIsLast, OneLess
<1>3. 0 \in I
  <2>1. \A t \in P(0) : t = {}
    BY <1>1, FS_EmptySet
  <2> DEFINE g == [t \in P(0) |-> EmptyAlignment]
  <2>2. g = [t \in P(0) |-> g[t]] /\ Folded(tbl, g, s, P(0))
    BY <2>1 DEF Folded
  <2> QED
    BY <2>2
<1>4. ASSUME NEW m \in Nat, m \in I PROVE m + 1 \in I
  <2>1. PICK g : Good(g, m)
    BY <1>4
  <2> DEFINE d == [t \in P(m + 1) |-> IF t = {} THEN EmptyAlignment
                                      ELSE LowerOne(tbl, g[t \ {Max(t)}], s[Max(t)])]
  <2>2. ASSUME NEW t \in P(m + 1), t # {}
        PROVE  t \ {Max(t)} \in P(m) /\ t \ {Max(t)} \in P(m + 1)
    <3> DEFINE a == Cardinality(t)
               b == Cardinality(t \ {Max(t)})
    <3>1. a \in Nat /\ b \in Nat /\ a = b + 1 /\ a <= m + 1 /\ t \ {Max(t)} \in SUBSET S
      BY <1>1, <1>2, <2>2
    <3> HIDE DEF a, b
    <3>2. b <= m /\ b <= m + 1
      BY <3>1
    <3> QED
      BY <3>1, <3>2 DEF b
  <2>3. \A t \in P(m) : t \in P(m + 1)
    BY <1>1
  <2>4. \A t \in P(m) : d[t] = g[t]
    BY <2>1, <2>3 DEF Folded
  <2>5. Folded(tbl, d, s, P(m + 1))
    BY <2>2, <2>4 DEF Folded
  <2>6. d = [t \in P(m + 1) |-> d[t]]
    OBVIOUS
  <2>7. Good(d, m + 1)
    BY <2>5, <2>6
  <2> HIDE DEF Good, d
  <2> QED
    BY <2>7
<1>5. Cardinality(S) \in I
  <2> HIDE DEF I
  <2>1. \A m \in Nat : m \in I
    BY <1>3, <1>4, NatsByInduction
  <2> QED
    BY <1>1, <2>1
<1>6. PICK g : Good(g, Cardinality(S))
  BY <1>5
<1>7. P(Cardinality(S)) = SUBSET S
  BY <1>1
<1> QED
  BY <1>6, <1>7

\* What FoldLeft computes on its way to the map of n characters.
OnTheWay(tbl, s, n, g) ==
  /\ MapOf(tbl, s) = g[n] /\ g[0] = EmptyAlignment
  /\ \A i \in 1 .. n : g[i] = LowerOne(tbl, g[i-1], s[i])

\* And one on places, which is the fold of the first elements.
LEMMA FoldUnfolds ==
  ASSUME NEW tbl, NEW n \in Nat, NEW s, DOMAIN s = 1 .. n
  PROVE  \E g : OnTheWay(tbl, s, n, g)
<1> DEFINE S == 1 .. n
           iter[t \in SUBSET S] == IF t = {} THEN EmptyAlignment
                                   ELSE LowerOne(tbl, iter[t \ {Max(t)}], s[Max(t)])
           Rec(g) == g = [t \in SUBSET S |-> IF t = {} THEN EmptyAlignment
                                             ELSE LowerOne(tbl, g[t \ {Max(t)}], s[Max(t)])]
<1>1. MapOf(tbl, s) = iter[S]
  BY DEF MapOf, FoldLeft, MapThenFoldSet
<1>2. PICK h : h = [t \in SUBSET S |-> h[t]] /\ Folded(tbl, h, s, SUBSET S)
  BY FoldExists
<1>3. Rec(h)
  BY <1>2 DEF Folded
<1>4. Rec(iter)
  BY <1>3
<1> HIDE DEF iter
<1> DEFINE g == [i \in 0 .. n |-> iter[1 .. i]]
<1>5. ASSUME NEW i \in 1 .. n PROVE g[i] = LowerOne(tbl, g[i-1], s[i])
  <2>1. 1 .. i \in SUBSET S /\ 1 .. i # {} /\ i \in 1 .. i
    OBVIOUS
  <2>2. Max(1 .. i) = i
    <3>1. Max(1 .. i) \in 1 .. i /\ \A y \in 1 .. i : y <= Max(1 .. i)
      BY <2>1, MaxIsLast
    <3> DEFINE m == Max(1 .. i)
    <3> HIDE DEF m
    <3>2. m \in 1 .. i /\ i <= m
      BY <2>1, <3>1 DEF m
    <3> QED
      BY <3>2 DEF m
  <2>3. (1 .. i) \ {i} = 1 .. i - 1
    OBVIOUS
  <2>4. iter[1 .. i] = LowerOne(tbl, iter[1 .. i - 1], s[i])
    BY <1>4, <2>1, <2>2, <2>3
  <2>5. i \in 0 .. n /\ i - 1 \in 0 .. n
    OBVIOUS
  <2> QED
    BY <2>4, <2>5
<1>6. g[0] = EmptyAlignment
  <2>1. 1 .. 0 = {} /\ {} \in SUBSET S /\ 0 \in 0 .. n
    OBVIOUS
  <2>2. iter[{}] = EmptyAlignment
    BY <1>4, <2>1
  <2> QED
    BY <2>1, <2>2
<1>7. g[n] = iter[S]
  OBVIOUS
<1> HIDE DEF g
<1> QED
  BY <1>1, <1>5, <1>6, <1>7 DEF OnTheWay

\* The map of one character more.
LEMMA FoldWithOneMore ==
  ASSUME NEW tbl, NEW A, NEW s \in Seq(A), NEW c \in A
  PROVE  /\ MapOf(tbl, <<>>) = EmptyAlignment
         /\ MapOf(tbl, Append(s, c))
              = LowerOne(tbl, MapOf(tbl, s), c)
<1> DEFINE n == Len(s)
           t == Append(s, c)
           none == <<>>
<1>1. MapOf(tbl, none) = EmptyAlignment
  <2> DEFINE z == 0
  <2>1. z \in Nat /\ DOMAIN none = 1 .. z
    OBVIOUS
  <2> HIDE DEF z, none
  <2>2. PICK g : OnTheWay(tbl, none, z, g)
    BY <2>1, FoldUnfolds, Zenon
  <2> QED
    BY <2>2 DEF z, OnTheWay
<1>2. /\ n \in Nat /\ DOMAIN s = 1 .. n /\ n + 1 \in Nat /\ DOMAIN t = 1 .. n + 1
      /\ t[n + 1] = c /\ \A i \in 1 .. n : t[i] = s[i]
  OBVIOUS
<1> HIDE DEF t, n
<1>3. PICK f : OnTheWay(tbl, s, n, f)
  BY <1>2, FoldUnfolds, Zenon
<1>4. PICK g : OnTheWay(tbl, t, n + 1, g)
  BY <1>2, FoldUnfolds, Zenon
<1>5. FollowAlike(f, g, n)
  <2>1. ASSUME NEW i \in 1 .. n, f[i-1] = g[i-1] PROVE f[i] = g[i]
    <3>1. i \in 1 .. n + 1
      BY <1>2
    <3>2. f[i] = LowerOne(tbl, f[i-1], s[i]) /\ g[i] = LowerOne(tbl, g[i-1], t[i])
          /\ t[i] = s[i]
      BY <1>2, <1>3, <1>4, <3>1 DEF OnTheWay
    <3> QED
      BY <2>1, <3>2
  <2> QED
    BY <1>3, <1>4, <2>1 DEF FollowAlike, OnTheWay
<1>6. n \in Int /\ n \in 0 .. n /\ n + 1 \in 1 .. n + 1 /\ (n + 1) - 1 = n
  BY <1>2
<1>7. f[n] = g[n]
  BY <1>5, <1>6, AgreesFromZero
<1>8. g[n + 1] = LowerOne(tbl, g[n], c)
  BY <1>2, <1>4, <1>6 DEF OnTheWay
<1> QED
  BY <1>1, <1>3, <1>4, <1>7, <1>8 DEF t, OnTheWay

-----------------------------------------------------------------------------
(* One character more, or none *)

\* The first k characters of a text.
First(tbl, txt, k) == SubSeq(CharsOf(tbl, txt), 1, k)

\* Before the first character there is nothing.
LEMMA NothingTaken ==
  ASSUME NEW tbl \in Tables, NEW txt \in Seq(Bytes)
  PROVE  /\ Len(CharsOf(tbl, txt)) \in Nat /\ Len(Passed(tbl, txt, 0)) = 0
         /\ Lowered(tbl, First(tbl, txt, 0)) = <<>>
         /\ MapOf(tbl, First(tbl, txt, 0)) = EmptyAlignment
<1>1. CharsOf(tbl, txt) \in Seq(Accepted(tbl)) /\ Len(Passed(tbl, txt, 0)) = 0
  BY Borders
<1>2. Len(CharsOf(tbl, txt)) \in Nat /\ First(tbl, txt, 0) = <<>>
  BY <1>1 DEF First
<1>3. Lowered(tbl, <<>>) = <<>>
  <2>1. [i \in DOMAIN <<>> |-> LowerOf(tbl, <<>>[i])] = <<>>
    OBVIOUS
  <2> QED
    BY <2>1, FlattenNothing DEF Lowered
<1>4. MapOf(tbl, <<>>) = EmptyAlignment
  <2>1. <<>> \in Seq({0}) /\ 0 \in {0}
    OBVIOUS
  <2> QED
    BY <2>1, FoldWithOneMore
<1> QED
  BY <1>1, <1>2, <1>3, <1>4

\* A character that is accepted behind the first k is the next one.
LEMMA CharTaken ==
  ASSUME NEW tbl \in Tables, NEW txt \in Seq(Bytes),
         NEW k \in 0 .. Len(CharsOf(tbl, txt)),
         NEW c \in Accepted(tbl), StandsAt(txt, c, Len(Passed(tbl, txt, k)))
  PROVE  /\ k + 1 \in 0 .. Len(CharsOf(tbl, txt))
         /\ Len(Passed(tbl, txt, k + 1)) = Len(Passed(tbl, txt, k)) + Len(c)
         /\ Lowered(tbl, First(tbl, txt, k)) \in Seq(Bytes)
         /\ LowerOf(tbl, c) \in Seq(Bytes)
         /\ Lowered(tbl, First(tbl, txt, k + 1))
              = Lowered(tbl, First(tbl, txt, k)) \o LowerOf(tbl, c)
         /\ MapOf(tbl, First(tbl, txt, k + 1)) = LowerOne(tbl, MapOf(tbl, First(tbl, txt, k)), c)
<1> DEFINE chars == CharsOf(tbl, txt)
           at    == Len(Passed(tbl, txt, k))
           p     == Passed(tbl, txt, k)
<1>1. /\ chars \in Seq(Accepted(tbl)) /\ Accepted(tbl) \subseteq Seq(Bytes)
      /\ p \in Seq(Bytes) /\ at \in 0 .. Len(txt)
      /\ k = Len(chars) => CharAt(tbl, txt, at) = {}
      /\ k < Len(chars) => /\ chars[k + 1] \in CharAt(tbl, txt, at)
                           /\ Passed(tbl, txt, k + 1) = p \o chars[k + 1]
  BY Borders
<1>2. c \in CharAt(tbl, txt, at)
  BY DEF CharAt
<1>3. k < Len(chars) /\ k \in 0 .. Len(chars) - 1
  <2>1. Len(chars) \in Nat
    BY <1>1
  <2> QED
    BY <1>1, <1>2, <2>1
<1>4. chars[k + 1] = c
  <2>1. Taken(tbl, txt, at) = c
    BY <1>1, <1>2, TakenIs
  <2>2. Taken(tbl, txt, at) = chars[k + 1]
    BY <1>1, <1>3, TakenIs
  <2> QED
    BY <2>1, <2>2
<1>5. k + 1 \in 0 .. Len(chars)
  BY <1>3
<1>6. Len(Passed(tbl, txt, k + 1)) = at + Len(c)
  <2>1. Passed(tbl, txt, k + 1) = p \o c /\ c \in Seq(Bytes)
    BY <1>1, <1>3, <1>4
  <2> HIDE DEF p
  <2>2. Len(p \o c) = Len(p) + Len(c)
    BY <1>1, <2>1
  <2> QED
    BY <2>1, <2>2 DEF p
<1>7. /\ First(tbl, txt, k) \in Seq(Accepted(tbl))
      /\ First(tbl, txt, k + 1) = Append(First(tbl, txt, k), c)
  <2> DEFINE A == Accepted(tbl)
  <2>1. chars \in Seq(A) /\ k \in 0 .. Len(chars) - 1
    BY <1>1, <1>3
  <2> HIDE DEF A, chars
  <2>2. SubSeq(chars, 1, k) \in Seq(A)
        /\ SubSeq(chars, 1, k + 1) = Append(SubSeq(chars, 1, k), chars[k + 1])
    BY <2>1, BeginningGrows
  <2> QED
    BY <1>4, <2>2 DEF A, chars, First
<1> HIDE DEF chars, p
<1>8. /\ LowerOf(tbl, c) \in Seq(Bytes) /\ Lowered(tbl, First(tbl, txt, k)) \in Seq(Bytes)
      /\ Lowered(tbl, First(tbl, txt, k + 1))
           = Lowered(tbl, First(tbl, txt, k)) \o LowerOf(tbl, c)
  BY <1>7, LoweredWithOneMore
<1>9. MapOf(tbl, First(tbl, txt, k + 1)) = LowerOne(tbl, MapOf(tbl, First(tbl, txt, k)), c)
  <2> DEFINE A == Accepted(tbl)
             s == First(tbl, txt, k)
  <2>1. s \in Seq(A) /\ c \in A
    BY <1>7
  <2> HIDE DEF A, s
  <2>2. MapOf(tbl, Append(s, c)) = LowerOne(tbl, MapOf(tbl, s), c)
    BY <2>1, FoldWithOneMore, Zenon
  <2> QED
    BY <1>7, <2>2 DEF s
<1> QED
  BY <1>5, <1>6, <1>8, <1>9 DEF chars

\* Where none is accepted, all were taken.
LEMMA NoneTaken ==
  ASSUME NEW tbl \in Tables, NEW txt \in Seq(Bytes),
         NEW k \in 0 .. Len(CharsOf(tbl, txt)),
         \A c \in Accepted(tbl) : ~ StandsAt(txt, c, Len(Passed(tbl, txt, k)))
  PROVE  k = Len(CharsOf(tbl, txt)) /\ First(tbl, txt, k) = CharsOf(tbl, txt)
<1>1. CharAt(tbl, txt, Len(Passed(tbl, txt, k))) = {}
  BY DEF CharAt
<1>2. /\ CharsOf(tbl, txt) \in Seq(Accepted(tbl))
      /\ ~ (k < Len(CharsOf(tbl, txt)))
  BY <1>1, Borders
<1>3. Len(CharsOf(tbl, txt)) \in Nat
  BY <1>2
<1>4. k = Len(CharsOf(tbl, txt))
  BY <1>2, <1>3
<1>5. SubSeq(CharsOf(tbl, txt), 1, Len(CharsOf(tbl, txt))) = CharsOf(tbl, txt)
  BY <1>2
<1> QED
  BY <1>4, <1>5 DEF First

\* The characters that stand in front of a place.
LEMMA FirstTyped ==
  ASSUME NEW tbl \in Tables, NEW txt \in Seq(Bytes),
         NEW k \in 0 .. Len(CharsOf(tbl, txt))
  PROVE  /\ Lowered(tbl, First(tbl, txt, k)) \in Seq(Bytes)
         /\ Len(Passed(tbl, txt, k)) \in 0 .. Len(txt)
<1> DEFINE A == Accepted(tbl)
           chars == CharsOf(tbl, txt)
<1>1. chars \in Seq(A) /\ Len(Passed(tbl, txt, k)) \in 0 .. Len(txt)
  BY Borders
<1>2. First(tbl, txt, k) \in Seq(A)
  <2>1. k \in 0 .. Len(chars)
    OBVIOUS
  <2> HIDE DEF A, chars
  <2>2. SubSeq(chars, 1, k) \in Seq(A)
    BY <1>1, <2>1
  <2> QED
    BY <2>2 DEF chars, First
<1>3. CASE First(tbl, txt, k) = <<>>
  <2>1. [i \in DOMAIN <<>> |-> LowerOf(tbl, <<>>[i])] = <<>> /\ <<>> \in Seq(Bytes)
    OBVIOUS
  <2> QED
    BY <1>1, <1>3, <2>1, FlattenNothing DEF Lowered
<1>4. CASE First(tbl, txt, k) # <<>>
  <2>1. First(tbl, txt, k)[1] \in A
    <3> HIDE DEF A
    <3> QED
      BY <1>2, <1>4
  <2> QED
    BY <1>1, <1>2, <2>1, LoweredWithOneMore
<1> QED
  BY <1>3, <1>4

\* What begins a character.
BeginsOne(tbl, p) ==
  \E c \in Characters(tbl) : Len(p) < Len(c) /\ SubSeq(c, 1, Len(p)) = p

\* No character stands where what was read neither is one nor begins one, ...
LEMMA NoneStands ==
  ASSUME NEW tbl \in Tables, NEW txt \in Seq(Bytes), NEW i \in Nat,
         NEW p \in Seq(Bytes), NEW b \in Bytes, p = <<>> \/ BeginsOne(tbl, p),
         StandsAt(txt, p, i), StandsAt(txt, Append(p, b), i),
         Append(p, b) \notin Characters(tbl), ~ BeginsOne(tbl, Append(p, b)),
         NEW c \in Characters(tbl)
  PROVE  ~ StandsAt(txt, c, i)
<1> SUFFICES ASSUME StandsAt(txt, c, i) PROVE FALSE
  OBVIOUS
<1> DEFINE q == Append(p, b)
           n == Len(c)
           m == Len(p)
<1>1. q \in Seq(Bytes) /\ Len(q) = m + 1 /\ m \in Nat
  OBVIOUS
<1>2. c \in Seq(Bytes) /\ n \in Nat \ {0}
  BY CharacterIs
<1>3. m < n
  <2>1. CASE p = <<>>
    BY <1>2, <2>1
  <2>2. CASE BeginsOne(tbl, p)
    BY <2>2, NoneWithinBeginning DEF BeginsOne
  <2> QED
    BY <2>1, <2>2
<1> HIDE DEF q, n, m
<1>4. Len(q) \in 0 .. n
  BY <1>1, <1>2, <1>3
<1>5. SubSeq(c, 1, Len(q)) = q
  <2>1. SubSeq(txt, i + 1, i + Len(q)) = SubSeq(c, 1, Len(q))
    BY <1>2, <1>4, BeginningStands DEF n
  <2> QED
    BY <2>1 DEF q, StandsAt
<1>6. CASE Len(q) < n
  BY <1>5, <1>6 DEF BeginsOne, q, n
<1>7. CASE Len(q) = n
  <2>1. SubSeq(c, 1, Len(c)) = c
    BY <1>2
  <2> QED
    BY <1>5, <1>7, <2>1 DEF n, q
<1> QED
  BY <1>1, <1>2, <1>4, <1>6, <1>7

\* ... nor where the text ends within one, ...
LEMMA NoneStandsAtEnd ==
  ASSUME NEW tbl \in Tables, NEW txt \in Seq(Bytes), NEW i \in Nat,
         NEW p \in Seq(Bytes), p = <<>> \/ BeginsOne(tbl, p),
         StandsAt(txt, p, i), i + Len(p) = Len(txt), NEW c \in Characters(tbl)
  PROVE  ~ StandsAt(txt, c, i)
<1> SUFFICES ASSUME StandsAt(txt, c, i) PROVE FALSE
  OBVIOUS
<1> DEFINE n == Len(c)
           m == Len(p)
<1>1. m \in Nat /\ n \in Nat \ {0} /\ i + m = Len(txt) /\ i + n <= Len(txt)
  BY CharacterIs DEF StandsAt
<1>2. m < n
  <2>1. CASE p = <<>>
    BY <1>1, <2>1
  <2>2. CASE BeginsOne(tbl, p)
    BY <2>2, NoneWithinBeginning DEF BeginsOne
  <2> QED
    BY <2>1, <2>2
<1> HIDE DEF n, m
<1> QED
  BY <1>1, <1>2

\* ... and none that is accepted where one is rejected.
LEMMA NoneWhereRejected ==
  ASSUME NEW tbl \in Tables, NEW txt \in Seq(Bytes), NEW i \in Nat,
         NEW c \in tbl.rejects, StandsAt(txt, c, i), NEW d \in Accepted(tbl)
  PROVE  ~ StandsAt(txt, d, i)
<1>1. c \in Characters(tbl) /\ d \in Characters(tbl)
  BY DEF Characters
<1>2. c # d
  BY TablesAssumption DEF WellFormed
<1> QED
  BY <1>1, <1>2, OneStands

\* What stands at a place, with the byte behind it.
LEMMA OneByteMore ==
  ASSUME NEW txt \in Seq(Bytes), NEW p \in Seq(Bytes), NEW i \in Nat,
         StandsAt(txt, p, i), NEW n \in Nat, n = i + Len(p), n < Len(txt)
  PROVE  /\ StandsAt(txt, Append(p, txt[n + 1]), i) /\ txt[n + 1] \in Bytes
         /\ Append(p, txt[n + 1]) \in Seq(Bytes)
         /\ Len(Append(p, txt[n + 1])) = Len(p) + 1
<1> DEFINE b == txt[n + 1]
           q == Append(p, b)
           m == Len(p)
           w == SubSeq(txt, i + 1, i + (m + 1))
<1>1. b \in Bytes /\ m \in Nat /\ Len(txt) \in Nat
  OBVIOUS
<1>2. q \in Seq(Bytes) /\ Len(q) = m + 1 /\ q[m + 1] = b /\ \A j \in 1 .. m : q[j] = p[j]
  BY <1>1
<1>3. p = SubSeq(txt, i + 1, i + m) /\ i + (m + 1) <= Len(txt)
  BY <1>1 DEF StandsAt
<1>4. \A j \in 1 .. m : p[j] = txt[i + j]
  <2> HIDE DEF m
  <2> QED
    BY <1>1, <1>3
<1>5. w \in Seq(Bytes) /\ Len(w) = m + 1 /\ \A j \in 1 .. m + 1 : w[j] = txt[i + j]
  <2> HIDE DEF m
  <2> QED
    BY <1>1, <1>3
<1>6. i + (m + 1) = n + 1
  BY <1>1
<1> HIDE DEF q, w, m
<1>7. \A j \in 1 .. m + 1 : w[j] = q[j]
  <2>1. ASSUME NEW j \in 1 .. m + 1 PROVE w[j] = q[j]
    <3>1. CASE j = m + 1
      BY <1>1, <1>2, <1>5, <1>6, <3>1
    <3>2. CASE j # m + 1
      <4>1. j \in 1 .. m
        BY <1>1, <3>2
      <4> QED
        BY <1>2, <1>4, <1>5, <4>1
    <3> QED
      BY <3>1, <3>2
  <2> QED
    BY <2>1
<1>8. w = q
  BY <1>2, <1>5, <1>7, SeqEqual
<1>9. StandsAt(txt, q, i)
  BY <1>2, <1>3, <1>8 DEF StandsAt, w
<1> QED
  BY <1>1, <1>2, <1>9 DEF q, m

\* Bytes that the fast scan may skip are characters.
LEMMA FastBytes ==
  ASSUME NEW tbl \in Tables, DOMAIN tbl.lower = {}, NEW txt \in Seq(Bytes),
         NEW k \in 0 .. Len(CharsOf(tbl, txt)), NEW n \in Nat,
         Len(Passed(tbl, txt, k)) + n <= Len(txt),
         \A j \in 1 .. n : txt[Len(Passed(tbl, txt, k)) + j] \notin tbl.slow
  PROVE  \E l \in 0 .. Len(CharsOf(tbl, txt)) :
           Len(Passed(tbl, txt, l)) = Len(Passed(tbl, txt, k)) + n
<1> DEFINE i == Len(Passed(tbl, txt, k))
           K == 0 .. Len(CharsOf(tbl, txt))
           S == {m \in 0 .. n : \E l \in K : Len(Passed(tbl, txt, l)) = i + m}
<1>1. i \in 0 .. Len(txt) /\ Len(txt) \in Nat
  BY FirstTyped
<1>2. 0 \in S
  BY <1>1
<1>3. ASSUME NEW m \in 0 .. n - 1, m \in S PROVE m + 1 \in S
  <2>1. PICK l \in K : Len(Passed(tbl, txt, l)) = i + m
    BY <1>3
  <2> DEFINE b == txt[i + (m + 1)]
  <2>2. /\ m + 1 \in 1 .. n /\ i + m \in Nat /\ i + (m + 1) \in 1 .. Len(txt)
        /\ (i + m) + 1 = i + (m + 1)
    BY <1>1
  <2>3. b \in Bytes /\ b \notin tbl.slow
    <3>1. b \in Bytes
      <4> HIDE DEF i
      <4> QED
        BY <2>2
    <3> QED
      BY <2>2, <3>1
  <2>4. <<b>> \in tbl.keeps
    BY <2>3, TablesAssumption DEF WellFormed
  <2>5. <<b>> \in Accepted(tbl)
    BY <2>4 DEF Accepted
  <2> HIDE DEF b
  <2>6. Len(<<b>>) = 1
    OBVIOUS
  <2>7. StandsAt(txt, <<b>>, i + m)
    <3> DEFINE r == i + m
    <3>1. r \in Nat /\ r + 1 <= Len(txt) /\ txt[r + 1] = b
      BY <2>2 DEF b
    <3> HIDE DEF r
    <3> DEFINE w == SubSeq(txt, r + 1, r + 1)
    <3>2. w \in Seq(Bytes) /\ Len(w) = 1 /\ w[1] = txt[r + 1]
      BY <3>1
    <3> HIDE DEF w
    <3>3. w = <<w[1]>>
      BY <3>2
    <3> QED
      BY <2>6, <3>1, <3>2, <3>3 DEF StandsAt, r, w
  <2>8. l + 1 \in K /\ Len(Passed(tbl, txt, l + 1)) = (i + m) + 1
    <3> DEFINE c == <<b>>
    <3>1. c \in Accepted(tbl) /\ StandsAt(txt, c, Len(Passed(tbl, txt, l)))
      BY <2>1, <2>5, <2>7
    <3> HIDE DEF c
    <3>2. /\ l + 1 \in 0 .. Len(CharsOf(tbl, txt))
          /\ Len(Passed(tbl, txt, l + 1)) = Len(Passed(tbl, txt, l)) + Len(c)
      BY <3>1, CharTaken, Zenon
    <3> QED
      BY <2>1, <2>6, <3>2 DEF c
  <2> HIDE DEF i, K
  <2>9. (i + m) + 1 = i + (m + 1) /\ m + 1 \in 0 .. n
    BY <2>2
  <2> QED
    BY <2>8, <2>9
<1>4. \A m \in 0 .. n : m \in S
  <2> DEFINE z == 0
  <2>1. z \in Int /\ n \in Int /\ z \in S /\ \A m \in z .. n - 1 : m \in S => m + 1 \in S
    BY <1>2, <1>3
  <2> HIDE DEF S, z
  <2>2. \A m \in z .. n : m \in S
    BY <2>1, UpFrom
  <2> QED
    BY <2>2 DEF z
<1> QED
  BY <1>4

-----------------------------------------------------------------------------
(***************************************************************************)
(* The second inductive invariant.  What the table has seen of a character *)
(* begins at the border between two characters, stands in front of the     *)
(* place in the text, and is the beginning of a character; what was        *)
(* written and entered in the map, or is still to be entered, is what      *)
(* becomes of the characters in front of that border.                      *)
(***************************************************************************)
Running == pc \in {"fast", "bytes", "exit"}

\* Behind an exit, the byte that led there is not among those seen.
From == IF pc = "exit" THEN src - 1 ELSE src

Char == Append(state.seen, text[src])

\* The border.
Start == From - Len(state.seen)

SeenInv ==
  /\ table \in Tables /\ text \in Seq(Bytes) /\ src \in 0 .. Len(text)
  /\ state.seen \in Seq(Bytes) /\ Len(state.seen) <= From
  /\ StandsAt(text, state.seen, Start)
  /\ state.seen = <<>> \/ BeginsOne(table, state.seen)
  /\ pc = "fast" => state.seen = <<>> /\ call = "scan" /\ e \in {"ok", "next", "again"}
  /\ pc = "bytes" => e = "next"
  /\ IF call = "scan" THEN DOMAIN table.lower = {} /\ out = <<>> /\ olen = 0 /\ copystart = 0
                      ELSE DOMAIN table.lower # {} /\ copystart \in 0 .. Start

\* Why the loop was left.
ExitInv ==
  /\ src > 0 /\ e \in {"again", "reject", "replace", "full", "illegal"}
  /\ e = "again" => call = "scan" /\ state.seen = <<>>
  /\ e = "reject" => Char \in table.rejects
  /\ e = "replace" => Char \in DOMAIN table.lower
  /\ e = "full" => Char \in DOMAIN table.lower /\ ~ Fits(Char, table.lower[Char])
  /\ e = "illegal" => Char \notin Characters(table) /\ ~ BeginsOne(table, Char)

Pending == IF pc = "exit" THEN Char ELSE state.seen

Written(k) == out = Lowered(table, First(table, text, k)) \o Pending

Entered(k) ==
  /\ map \in TidyAlignments
  /\ AlignCopy(map, Start - copystart) = MapOf(table, First(table, text, k))

AtBorder(k) ==
  /\ Len(Passed(table, text, k)) = Start
  /\ call = "replace" => Written(k) /\ Entered(k)

DoneInv ==
  /\ table \in Tables /\ src \in 0 .. Len(text) /\ copystart \in 0 .. src
  /\ e \in {"ok", "reject", "illegal", "full"} /\ Len(out) <= olen
  /\ ScansLongest /\ ReplacesCharacters /\ MapDescribes

PlaceInv ==
  /\ pc \in {"idle", "fast", "bytes", "exit", "done"} /\ call \in {"scan", "replace"}
  /\ pc = "idle" => Init
  /\ Running => SeenInv /\ \E k \in 0 .. Len(Chars) : AtBorder(k)
  /\ pc = "exit" => ExitInv
  /\ pc = "done" => DoneInv

-----------------------------------------------------------------------------
(* What the interpreter reads and where it goes back to *)

\* What a table says of the bytes seen of a character and the next byte.
LEMMA EntryIs ==
  ASSUME NEW b
  PROVE  LET entry == Entry(state, b)
             q     == Append(state.seen, b)
         IN  /\ entry.kind \in {"reject", "replace", "again", "next", "illegal"}
             /\ entry.kind = "reject" => q \in table.rejects
             /\ entry.kind = "replace" => q \in DOMAIN table.lower
             /\ entry.kind = "again" =>
                  q \in table.keeps /\ state.seen = <<>> /\ table.repeats > 0
             /\ entry.kind = "next" =>
                  \/ q \in table.keeps /\ entry.to.seen = <<>>
                  \/ BeginsOne(table, q) /\ entry.to.seen = q
             /\ entry.kind = "illegal" =>
                  q \notin Characters(table) /\ ~ BeginsOne(table, q)
<1> DEFINE q == Append(state.seen, b)
           entry == Entry(state, b)
<1>1. CASE q \in table.rejects
  <2>1. entry.kind = "reject"
    BY <1>1 DEF Entry
  <2> HIDE DEF entry
  <2> QED
    BY <1>1, <2>1 DEF entry
<1>2. CASE q \notin table.rejects /\ q \in DOMAIN table.lower
  <2>1. entry.kind = "replace"
    BY <1>2 DEF Entry
  <2> HIDE DEF entry
  <2> QED
    BY <1>2, <2>1 DEF entry
<1>3. CASE q \notin table.rejects /\ q \notin DOMAIN table.lower /\ q \in table.keeps
  <2>1. /\ entry.kind \in {"again", "next"} /\ entry.to.seen = <<>>
        /\ entry.kind = "again" => state.seen = <<>> /\ table.repeats > 0
    BY <1>3 DEF Entry, SendsBack
  <2> HIDE DEF entry
  <2> QED
    BY <1>3, <2>1 DEF entry
<1>4. CASE q \notin table.rejects /\ q \notin DOMAIN table.lower /\ q \notin table.keeps
  <2>1. entry.kind = IF BeginsOne(table, q) THEN "next" ELSE "illegal"
    BY <1>4 DEF Entry, BeginsOne
  <2>2. entry.to.seen = q
    BY <1>4 DEF Entry
  <2>3. q \notin Characters(table)
    BY <1>4 DEF Characters, Accepted
  <2> HIDE DEF entry
  <2> QED
    BY <2>1, <2>2, <2>3 DEF entry
<1> QED
  BY <1>1, <1>2, <1>3, <1>4

\* Going back leads to the border in front of what was read of a character.
LEMMA BackUpIs ==
  ASSUME SeenInv, pc \in {"bytes", "exit"}, pc = "exit" => src > 0 /\ e # "next"
  PROVE  BackUp = Start /\ Start \in 0 .. src /\ From \in 0 .. src
         /\ (pc = "exit" => From < src)
<1> DEFINE n == Len(state.seen)
           s == Start
<1>1. /\ text \in Seq(Bytes) /\ table \in Tables /\ src \in 0 .. Len(text)
      /\ state.seen \in Seq(Bytes) /\ n \in Nat /\ n <= From
      /\ StandsAt(text, state.seen, s)
  BY DEF SeenInv
<1>2. From = IF e = "next" THEN src ELSE src - 1
  BY DEF SeenInv, From
<1>3. From \in 0 .. src /\ s \in 0 .. From /\ s + n = From /\ src \in Nat
      /\ Len(text) \in Nat
  <2>1. From \in 0 .. src
    BY <1>1 DEF From
  <2> HIDE DEF n
  <2> QED
    BY <1>1, <2>1 DEF Start, n
<1>4. s \in 0 .. src
  BY <1>3
<1>5. CASE state.seen = <<>>
  <2>1. n = 0
    BY <1>5
  <2>2. s = From
    BY <1>3, <2>1
  <2>3. BackUp = From
    BY <1>2, <1>5 DEF BackUp, InStateZero
  <2> QED
    BY <1>3, <1>4, <2>2, <2>3 DEF From
<1>6. CASE state.seen # <<>>
  <2> DEFINE Back(i) == /\ i = 0 \/ text[i + 1] \notin Cont
                        /\ \A j \in i + 1 .. From - 1 : text[j + 1] \in Cont
  <2>1. BackUp = CHOOSE i \in 0 .. From - 1 : Back(i)
    BY <1>2, <1>6 DEF BackUp, InStateZero
  <2>2. PICK c \in Characters(table) : n < Len(c) /\ SubSeq(c, 1, n) = state.seen
    BY <1>6 DEF SeenInv, BeginsOne
  <2>3. c \in Seq(Bytes) /\ Len(c) \in Nat /\ c[1] \notin Cont
        /\ \A i \in 2 .. Len(c) : c[i] \in Cont
    BY <1>1, CharacterIs
  <2>4. n > 0
    BY <1>1, <1>6
  <2>5. \A i \in 1 .. n : state.seen[i] = c[i]
    <3> DEFINE seen == state.seen
    <3>1. SubSeq(c, 1, n) = seen /\ n < Len(c)
      BY <2>2
    <3> HIDE DEF seen, n
    <3> QED
      BY <1>1, <2>3, <3>1 DEF seen
  <2>6. \A i \in 1 .. n : text[s + i] = state.seen[i]
    <3> DEFINE seen == state.seen
    <3>1. SubSeq(text, s + 1, s + n) = seen /\ s + n <= Len(text)
      BY <1>1 DEF StandsAt
    <3> HIDE DEF seen, n, s
    <3> QED
      BY <1>1, <1>3, <3>1 DEF seen
  <2> HIDE DEF n, s
  <2>7. s \in 0 .. From - 1
    BY <1>1, <1>3, <2>4
  <2>8. text[s + 1] \notin Cont
    BY <1>1, <2>3, <2>4, <2>5, <2>6
  <2>9. ASSUME NEW j \in s + 1 .. From - 1 PROVE text[j + 1] \in Cont
    <3> DEFINE i == j + 1 - s
    <3>1. i \in 2 .. n /\ s + i = j + 1
      BY <1>1, <1>3
    <3>2. i \in 1 .. n /\ i \in 2 .. Len(c)
      BY <1>1, <2>2, <2>3, <3>1 DEF n
    <3> HIDE DEF i
    <3> QED
      BY <2>3, <2>5, <2>6, <3>1, <3>2
  <2>10. Back(s)
    BY <2>8, <2>9
  <2>11. ASSUME NEW i \in 0 .. From - 1, Back(i) PROVE i = s
    <3>1. CASE i < s
      <4>1. s \in i + 1 .. From - 1
        BY <1>3, <2>7, <3>1
      <4> QED
        BY <2>8, <2>11, <4>1
    <3>2. CASE s < i
      <4>1. i \in s + 1 .. From - 1 /\ i # 0
        BY <1>3, <2>7, <3>2
      <4> QED
        BY <2>9, <2>11, <4>1
    <3> QED
      BY <1>3, <3>1, <3>2
  <2> HIDE DEF Back
  <2>12. BackUp = s
    BY <2>1, <2>7, <2>10, <2>11
  <2> QED
    BY <1>3, <1>4, <2>12 DEF s, From
<1> QED
  BY <1>5, <1>6

\* The byte read at an exit stands behind those seen.
LEMMA CharIs ==
  ASSUME SeenInv, pc = "exit", src > 0
  PROVE  /\ Char \in Seq(Bytes) /\ Len(Char) = Len(state.seen) + 1
         /\ Len(state.seen) \in Nat /\ text[src] \in Bytes
         /\ StandsAt(text, Char, Start) /\ Start \in Nat /\ src = Start + Len(Char)
<1>1. /\ text \in Seq(Bytes) /\ src \in 0 .. Len(text) /\ Len(text) \in Nat
      /\ state.seen \in Seq(Bytes) /\ Len(state.seen) \in Nat
      /\ Len(state.seen) <= src - 1 /\ StandsAt(text, state.seen, Start)
      /\ Start = src - 1 - Len(state.seen)
  <2>1. From = src - 1 /\ Start = From - Len(state.seen)
    BY DEF From, Start
  <2>2. /\ text \in Seq(Bytes) /\ src \in 0 .. Len(text) /\ state.seen \in Seq(Bytes)
        /\ Len(state.seen) <= From /\ StandsAt(text, state.seen, Start)
    BY DEF SeenInv
  <2>3. Len(state.seen) <= src - 1 /\ Start = src - 1 - Len(state.seen)
    BY <2>1, <2>2, Zenon
  <2>4. Len(text) \in Nat /\ Len(state.seen) \in Nat
    BY <2>2
  <2> QED
    BY <2>2, <2>3, <2>4, Zenon
<1>2. Start \in Nat /\ src - 1 \in Nat /\ src - 1 = Start + Len(state.seen)
      /\ src - 1 < Len(text) /\ (src - 1) + 1 = src
  BY <1>1
<1>3. /\ StandsAt(text, Append(state.seen, text[(src - 1) + 1]), Start)
      /\ text[(src - 1) + 1] \in Bytes
      /\ Append(state.seen, text[(src - 1) + 1]) \in Seq(Bytes)
      /\ Len(Append(state.seen, text[(src - 1) + 1])) = Len(state.seen) + 1
  BY <1>1, <1>2, OneByteMore, ZenonT(30)
<1>4. /\ StandsAt(text, Char, Start) /\ text[src] \in Bytes /\ Char \in Seq(Bytes)
      /\ Len(Char) = Len(state.seen) + 1
  BY <1>2, <1>3 DEF Char
<1>5. src = Start + Len(Char)
  BY <1>1, <1>2, <1>4
<1> QED
  BY <1>1, <1>2, <1>4, <1>5

\* What was copied of a character is at the end of the output: without it,
\* the output is what becomes of the characters before.
LEMMA GivesBack ==
  ASSUME NEW s \in Seq(Bytes), NEW p \in Seq(Bytes)
  PROVE  /\ SubSeq(s \o p, 1, Len(s \o p) - Len(p)) = s
         /\ Len(s \o p) = Len(s) + Len(p) /\ s \o p \in Seq(Bytes)
<1> DEFINE t == s \o p
           n == Len(s)
           u == SubSeq(t, 1, n)
<1>1. t \in Seq(Bytes) /\ Len(t) = n + Len(p) /\ n \in Nat /\ Len(p) \in Nat
      /\ \A i \in 1 .. n : t[i] = s[i]
  OBVIOUS
<1> HIDE DEF t
<1>2. u \in Seq(Bytes) /\ Len(u) = n /\ \A i \in 1 .. n : u[i] = t[i]
  BY <1>1
<1> HIDE DEF u
<1>3. u = s
  BY <1>1, <1>2, SeqEqual
<1>4. Len(t) - Len(p) = n
  BY <1>1
<1> QED
  BY <1>1, <1>3, <1>4 DEF t, u

\* Nothing stands everywhere.
LEMMA NothingStands ==
  ASSUME NEW txt \in Seq(Bytes), NEW i \in 0 .. Len(txt)
  PROVE  StandsAt(txt, <<>>, i) /\ Len(<<>>) = 0 /\ <<>> \in Seq(Bytes)
<1>1. Len(<<>>) = 0 /\ <<>> \in Seq(Bytes)
  OBVIOUS
<1>2. SubSeq(txt, i + 1, i) = <<>>
  OBVIOUS
<1>3. i + 0 = i /\ i <= Len(txt)
  OBVIOUS
<1> QED
  BY <1>1, <1>2, <1>3 DEF StandsAt

\* An alignment is left alone by a copy of nothing.
LEMMA CopyNothing == ASSUME NEW al PROVE AlignCopy(al, 0) = al
BY DEF AlignCopy

-----------------------------------------------------------------------------
(* The second invariant is inductive: the steps *)

\* Where nothing was seen of a character, the border is where the text was read to.
StartsAt == state.seen = <<>> /\ From \in Int => Start = From

\* With nothing seen of a character the border is where the text was read to.
LEMMA NothingSeen == StartsAt
<1> USE DEF StartsAt
<1> SUFFICES ASSUME state.seen = <<>>, From \in Int PROVE Start = From
  OBVIOUS
<1>1. Len(state.seen) = 0
  OBVIOUS
<1> QED
  BY <1>1 DEF Start

\* A scan begins at the border in front of the first character.
LEMMA CallScanKeepsPlace == PlaceInv /\ CallScan => PlaceInv'
<1> SUFFICES ASSUME PlaceInv, CallScan
             PROVE  PlaceInv'
  OBVIOUS
<1>1. /\ src' = 0 /\ state' = Zero /\ e' = "ok" /\ out' = <<>> /\ copystart' = 0
      /\ call' = "scan" /\ olen' = 0
  BY DEF PlaceInv, CallScan, Init
<1>2. /\ table' \in Tables /\ DOMAIN table'.lower = {} /\ text' \in Seq(Bytes)
      /\ pc' = IF text' = <<>> THEN "done" ELSE "fast"
  BY StateTableAssumption DEF CallScan
<1> DEFINE n == Len(CharsOf(table', text'))
<1>3. n \in Nat /\ Len(Passed(table', text', 0)) = 0 /\ Len(text') \in Nat
  BY <1>2, NothingTaken
<1>4. Len(<<>>) = 0
  OBVIOUS
<1>5. CASE text' = <<>>
  <2>1. Len(Passed(table', text', n)) \in 0 .. Len(text') /\ Len(text') = 0
    <3>1. n \in 0 .. Len(CharsOf(table', text'))
      BY <1>3
    <3> HIDE DEF n
    <3>2. Len(Passed(table', text', n)) \in 0 .. Len(text')
      BY <1>2, <3>1, FirstTyped
    <3> QED
      BY <1>4, <1>5, <3>2
  <2>2. SubSeq(CharsOf(table', text'), 1, n) = CharsOf(table', text')
    <3>1. CharsOf(table', text') \in Seq(Accepted(table'))
      BY <1>2, Borders
    <3> QED
      BY <3>1
  <2>3. Len(FlattenSeq(CharsOf(table', text'))) = 0
    <3>1. Passed(table', text', n) = FlattenSeq(CharsOf(table', text'))
      BY <2>2 DEF Passed
    <3> QED
      BY <2>1, <3>1
  <2>4. DoneInv'
    BY <1>1, <1>2, <1>4, <2>1, <2>3
    DEF DoneInv, ScansLongest, ReplacesCharacters, MapDescribes, Chars
  <2> QED
    BY <1>1, <1>2, <1>5, <2>4 DEF PlaceInv, Running
<1>6. CASE text' # <<>>
  <2>1. pc' = "fast"
    BY <1>2, <1>6
  <2>2. From' = 0 /\ Start' = 0
    <3>1. state'.seen = <<>> /\ From' = 0 /\ From' \in Int
      BY <1>1, <2>1 DEF From, Zero
    <3>2. StartsAt'
      BY NothingSeen, PTL
    <3> QED
      BY <3>1, <3>2 DEF StartsAt
  <2>3. StandsAt(text', <<>>, 0) /\ <<>> \in Seq(Bytes)
    BY <1>2, <1>3, NothingStands
  <2>4. SeenInv'
    BY <1>1, <1>2, <1>3, <1>4, <2>1, <2>2, <2>3 DEF SeenInv, Zero
  <2>5. AtBorder(0)'
    BY <1>1, <1>3, <2>2 DEF AtBorder
  <2>6. (\E k \in 0 .. Len(Chars) : AtBorder(k))'
    BY <1>3, <2>5 DEF Chars
  <2> QED
    BY <1>1, <2>1, <2>4, <2>6 DEF PlaceInv, Running
<1> QED
  BY <1>5, <1>6

\* So does a replacement, unless it returns at once for want of room.
LEMMA CallReplaceKeepsPlace == PlaceInv /\ CallReplace => PlaceInv'
<1> SUFFICES ASSUME PlaceInv, CallReplace
             PROVE  PlaceInv'
  OBVIOUS
<1>1. /\ src' = 0 /\ state' = Zero /\ out' = <<>> /\ copystart' = 0
      /\ call' = "replace" /\ map' = EmptyAlignment
  BY DEF PlaceInv, CallReplace, Init
<1>2. /\ table' \in Tables /\ DOMAIN table'.lower # {} /\ text' \in Seq(Bytes)
      /\ olen' \in Int /\ olen' >= 0
      /\ IF olen' < Len(text') THEN pc' = "done" /\ e' = "full"
                               ELSE pc' = "bytes" /\ e' = "next"
  <2>1. table' \in Tables /\ DOMAIN table'.lower # {} /\ text' \in Seq(Bytes)
    BY StateTableAssumption DEF CallReplace
  <2>2. Len(text') \in Nat
    BY <2>1
  <2>3. olen' \in Int /\ olen' >= 0
    BY <2>2, StateTableAssumption DEF CallReplace
  <2> QED
    BY <2>1, <2>3 DEF CallReplace
<1>3. /\ Len(Chars') \in Nat /\ Len(Passed(table', text', 0)) = 0 /\ Len(text') \in Nat
      /\ Lowered(table', First(table', text', 0)) = <<>>
      /\ MapOf(table', First(table', text', 0)) = EmptyAlignment
  BY <1>2, NothingTaken DEF Chars
<1>4. Len(<<>>) = 0 /\ <<>> \in Seq(Bytes) /\ <<>> \o <<>> = <<>>
  OBVIOUS
<1>5. CASE olen' < Len(text')
  <2>1. pc' = "done" /\ e' = "full"
    BY <1>2, <1>5
  <2>2. NoRoomFor(0)'
    BY <1>2, <1>3, <1>4, <1>5 DEF NoRoomFor, First, Passed, Chars
  <2>3. 0 \in 0 .. Len(Chars') /\ src' # Len(text')
    BY <1>1, <1>2, <1>3, <1>5
  <2>4. ReplacesCharacters'
    BY <1>1, <1>3, <2>1, <2>2, <2>3 DEF ReplacesCharacters, First, Passed, Chars
  <2>5. MapDescribes'
    BY <1>1, <1>3, <2>3 DEF MapDescribes, First, Passed, Chars
  <2>6. DoneInv'
    BY <1>1, <1>2, <1>3, <1>4, <2>1, <2>4, <2>5 DEF DoneInv, ScansLongest
  <2> QED
    BY <1>1, <2>1, <2>6 DEF PlaceInv, Running
<1>6. CASE ~ (olen' < Len(text'))
  <2>1. pc' = "bytes" /\ e' = "next"
    BY <1>2, <1>6
  <2>2. From' = 0 /\ Start' = 0 /\ Start' - copystart' = 0 /\ Pending' = <<>>
    <3>1. state'.seen = <<>> /\ From' = 0 /\ From' \in Int /\ Pending' = <<>>
      BY <1>1, <2>1 DEF From, Zero, Pending
    <3>2. StartsAt'
      BY NothingSeen, PTL
    <3> QED
      BY <1>1, <3>1, <3>2 DEF StartsAt
  <2>3. StandsAt(text', <<>>, 0)
    BY <1>2, <1>3, NothingStands
  <2>4. SeenInv'
    BY <1>1, <1>2, <1>3, <1>4, <2>1, <2>2, <2>3 DEF SeenInv, Zero
  <2>5. map' \in TidyAlignments /\ AlignCopy(map', 0) = EmptyAlignment
    BY <1>1, EmptyIsTidy, CopyNothing DEF TidyAlignments
  <2>6. AtBorder(0)'
    BY <1>1, <1>3, <1>4, <2>2, <2>5 DEF AtBorder, Written, Entered
  <2>7. (\E k \in 0 .. Len(Chars) : AtBorder(k))'
    BY <1>3, <2>6
  <2> QED
    BY <1>1, <2>1, <2>4, <2>7 DEF PlaceInv, Running
<1> QED
  BY <1>5, <1>6

\* What the fast scan skips are whole characters.
LEMMA FastScanKeepsPlace == PlaceInv /\ FastScan => PlaceInv'
<1> SUFFICES ASSUME PlaceInv, FastScan
             PROVE  PlaceInv'
  OBVIOUS
<1>1. /\ pc = "fast" /\ SeenInv /\ call = "scan" /\ state.seen = <<>>
      /\ table \in Tables /\ DOMAIN table.lower = {} /\ text \in Seq(Bytes)
      /\ src \in 0 .. Len(text) /\ Len(text) \in Nat
  BY DEF FastScan, PlaceInv, Running, SeenInv
<1>2. /\ UNCHANGED <<call, table, text, state, olen, out, copystart, map>>
      /\ e' = "next" /\ pc' \in {"fast", "bytes"} /\ src + 2 * kWord <= Len(text)
  BY DEF FastScan
<1>3. kWord \in Nat /\ 2 * kWord \in Nat
  BY StateTableAssumption
<1>4. Len(<<>>) = 0
  OBVIOUS
<1>5. Start = src
  BY <1>1, <1>4 DEF Start, From
<1>6. PICK k \in 0 .. Len(CharsOf(table, text)) : Len(Passed(table, text, k)) = src
  BY <1>1, <1>5 DEF PlaceInv, Running, AtBorder, Chars
\* What was skipped are bytes that are not slow.
<1>7. PICK n \in {0, kWord, 2 * kWord} :
        src' = src + n /\ \A j \in 1 .. n : text[src + j] \notin table.slow
  <2> DEFINE slow(at) == BytesAt(at, kWord) \cap table.slow # {}
  <2>1. CASE BytesAt(src, 2 * kWord) \subseteq table.fast
    <3>1. table.fast \cap table.slow = {}
      BY <1>1, TablesAssumption DEF WellFormed
    <3>2. \A j \in 1 .. 2 * kWord : text[src + j] \notin table.slow
      BY <2>1, <3>1 DEF BytesAt
    <3> QED
      BY <2>1, <3>2 DEF FastScan
  <2>2. CASE ~ (BytesAt(src, 2 * kWord) \subseteq table.fast) /\ slow(src)
    <3>1. src' = src
      BY <2>2 DEF FastScan
    <3>2. src' = src + 0 /\ \A j \in 1 .. 0 : text[src + j] \notin table.slow
      BY <1>1, <3>1
    <3> QED
      BY <3>2
  <2>3. ASSUME ~ slow(src) PROVE \A j \in 1 .. kWord : text[src + j] \notin table.slow
    BY <2>3 DEF BytesAt
  <2>4. ASSUME ~ slow(src + kWord), NEW j \in kWord + 1 .. 2 * kWord
        PROVE  text[src + j] \notin table.slow
    <3>1. j - kWord \in 1 .. kWord /\ (src + kWord) + (j - kWord) = src + j
      BY <1>1, <1>3
    <3>2. text[(src + kWord) + (j - kWord)] \in BytesAt(src + kWord, kWord)
      BY <3>1 DEF BytesAt
    <3> QED
      BY <2>4, <3>1, <3>2
  <2>5. CASE ~ (BytesAt(src, 2 * kWord) \subseteq table.fast) /\ ~ slow(src)
             /\ slow(src + kWord)
    <3>1. src' = src + kWord
      BY <2>5 DEF FastScan
    <3> QED
      BY <2>3, <2>5, <3>1
  <2>6. CASE ~ (BytesAt(src, 2 * kWord) \subseteq table.fast) /\ ~ slow(src)
             /\ ~ slow(src + kWord)
    <3>1. src' = src + 2 * kWord
      BY <2>6 DEF FastScan
    <3>2. ASSUME NEW j \in 1 .. 2 * kWord PROVE text[src + j] \notin table.slow
      <4>1. j \in 1 .. kWord \/ j \in kWord + 1 .. 2 * kWord
        BY <1>3
      <4> QED
        BY <2>3, <2>4, <2>6, <4>1
    <3> QED
      BY <3>1, <3>2
  <2> QED
    BY <2>1, <2>2, <2>5, <2>6
<1>8. n \in Nat /\ src + n <= Len(text) /\ src + n \in 0 .. Len(text)
  BY <1>1, <1>2, <1>3, <1>7
<1>9. PICK l \in 0 .. Len(CharsOf(table, text)) : Len(Passed(table, text, l)) = src'
  <2>1. /\ Len(Passed(table, text, k)) + n <= Len(text)
        /\ \A j \in 1 .. n : text[Len(Passed(table, text, k)) + j] \notin table.slow
    BY <1>6, <1>7, <1>8
  <2>2. \E l \in 0 .. Len(CharsOf(table, text)) :
          Len(Passed(table, text, l)) = Len(Passed(table, text, k)) + n
    BY <1>1, <1>8, <2>1, FastBytes
  <2> QED
    BY <1>6, <1>7, <2>2
<1>10. From' = src' /\ Start' = src' /\ src' \in 0 .. Len(text) /\ state'.seen = <<>>
  <2>1. state'.seen = <<>> /\ From' = src' /\ src' \in 0 .. Len(text)
    BY <1>1, <1>2, <1>7, <1>8 DEF From
  <2>2. StartsAt'
    BY NothingSeen, PTL
  <2> QED
    BY <2>1, <2>2 DEF StartsAt
<1>11. StandsAt(text, <<>>, src') /\ <<>> \in Seq(Bytes)
  BY <1>1, <1>10, NothingStands
<1>12. out = <<>> /\ olen = 0 /\ copystart = 0
  BY <1>1 DEF SeenInv
<1>13. SeenInv'
  <2>1. Len(state'.seen) <= From' /\ state'.seen \in Seq(Bytes)
    BY <1>4, <1>10, <1>11
  <2> QED
    BY <1>1, <1>2, <1>10, <1>11, <1>12, <2>1 DEF SeenInv
<1>14. AtBorder(l)'
  BY <1>1, <1>2, <1>9, <1>10 DEF AtBorder
<1>15. (\E i \in 0 .. Len(Chars) : AtBorder(i))'
  BY <1>2, <1>14 DEF Chars
<1> QED
  BY <1>1, <1>2, <1>13, <1>15 DEF PlaceInv, Running

\* The fast scan gives way to the other at the same border.
LEMMA FastScanEndsKeepsPlace == PlaceInv /\ FastScanEnds => PlaceInv'
<1> SUFFICES ASSUME PlaceInv, FastScanEnds
             PROVE  PlaceInv'
  OBVIOUS
<1>1. /\ pc = "fast" /\ SeenInv /\ call = "scan" /\ pc' = "bytes" /\ e' = "next"
      /\ UNCHANGED <<call, table, text, src, state, olen, out, copystart, map>>
  BY DEF FastScanEnds, PlaceInv, Running, SeenInv
<1>2. PICK k \in 0 .. Len(Chars) : AtBorder(k)
  BY <1>1 DEF PlaceInv, Running
<1>3. From' = From /\ Start' = Start
  BY <1>1 DEF From, Start
<1>4. SeenInv'
  BY <1>1, <1>3 DEF SeenInv
<1>5. AtBorder(k)' /\ Chars' = Chars
  BY <1>1, <1>2, <1>3 DEF AtBorder, Chars
<1>6. (\E i \in 0 .. Len(Chars) : AtBorder(i))'
  BY <1>5
<1> QED
  BY <1>1, <1>4, <1>6 DEF PlaceInv, Running

\* What a character makes of a map when its length is the same, ...
SameLength(tbl, c) == Len(c) \in Nat /\ Len(LowerOf(tbl, c)) = Len(c)

\* A character whose length stays is a longer copy.
LEMMA SameLengthCopied ==
  ASSUME NEW tbl, NEW al \in TidyAlignments, NEW c, NEW n \in Nat,
         SameLength(tbl, c)
  PROVE  LowerOne(tbl, AlignCopy(al, n), c) = AlignCopy(al, n + Len(c))
<1> DEFINE m == Len(c)
<1>0. m \in Nat /\ Len(LowerOf(tbl, c)) = m
  BY DEF SameLength
<1> HIDE DEF m
<1>1. m >= m /\ m - m = 0
  BY <1>0
<1>2. LowerOne(tbl, AlignCopy(al, n), c) = AlignCopy(AlignCopy(al, n), m)
  BY <1>0, <1>1 DEF LowerOne, AlignReplace, AlignInsert, m
<1> QED
  BY <1>0, <1>2, CopyTwice DEF m

\* ... and when it is not: the copies in front of it may be put together.
BehindCopies(al, n, old, new) ==
  LET more == new - old
  IN  IF more > 0 THEN AlignInsert(AlignCopy(al, n + old), more)
                  ELSE AlignDelete(AlignCopy(al, n + old + more), -more)

HaveLengths(tbl, c) == Len(c) \in Nat /\ Len(LowerOf(tbl, c)) \in Nat

\* One whose length changes is entered behind the copy that is due.
LEMMA ReplacedBehindCopies ==
  ASSUME NEW tbl, NEW al \in TidyAlignments, NEW c, NEW n \in Nat,
         HaveLengths(tbl, c)
  PROVE  /\ LowerOne(tbl, AlignCopy(al, n), c)
              = BehindCopies(al, n, Len(c), Len(LowerOf(tbl, c)))
         /\ BehindCopies(al, n, Len(c), Len(LowerOf(tbl, c))) \in TidyAlignments
<1> DEFINE old  == Len(c)
           new  == Len(LowerOf(tbl, c))
           more == new - old
           to   == BehindCopies(al, n, old, new)
<1>a. old \in Nat /\ new \in Nat
  BY DEF HaveLengths
<1>b. /\ more > 0 => to = AlignInsert(AlignCopy(al, n + old), more)
      /\ ~ (more > 0) => to = AlignDelete(AlignCopy(al, n + old + more), -more)
  BY DEF BehindCopies
<1>c. LowerOne(tbl, AlignCopy(al, n), c) = AlignReplace(AlignCopy(al, n), old, new)
  BY DEF LowerOne
<1> HIDE DEF old, new, to
<1>1. al \in AlignmentSet
  BY DEF TidyAlignments
<1>2. /\ AlignCopy(AlignCopy(al, n), old) = AlignCopy(al, n + old)
      /\ AlignCopy(AlignCopy(al, n), new) = AlignCopy(al, n + new)
  BY <1>1, <1>a, CopyTwice
<1>3. CASE more > 0
  <2>1. new >= old /\ more \in Nat /\ n + old \in Nat
    BY <1>3, <1>a
  <2>2. LowerOne(tbl, AlignCopy(al, n), c) = AlignInsert(AlignCopy(al, n + old), more)
    BY <1>2, <1>c, <2>1 DEF AlignReplace
  <2>3. AlignCopy(al, n + old) \in TidyAlignments
    BY <2>1, OperationsKeepTidy
  <2>4. AlignInsert(AlignCopy(al, n + old), more) \in TidyAlignments
    BY <2>1, <2>3, OperationsKeepTidy
  <2> QED
    BY <1>3, <1>b, <2>2, <2>4 DEF old, new, to
<1>4. CASE ~ (more > 0)
  <2> DEFINE less == -more
  <2>1. less = old - new /\ less \in Nat /\ n + new \in Nat /\ n + old + more = n + new
    BY <1>4, <1>a
  <2>2. LowerOne(tbl, AlignCopy(al, n), c) = AlignDelete(AlignCopy(al, n + new), less)
    <3>1. CASE new >= old
      <4>1. new = old /\ less = 0 /\ new - old = 0
        BY <1>4, <1>a, <3>1
      <4> HIDE DEF less
      <4> QED
        BY <1>2, <1>c, <3>1, <4>1 DEF AlignReplace, AlignInsert, AlignDelete
    <3>2. CASE ~ (new >= old)
      <4> HIDE DEF less
      <4> QED
        BY <1>2, <1>c, <2>1, <3>2 DEF AlignReplace
    <3> QED
      BY <3>1, <3>2
  <2> HIDE DEF less
  <2>3. AlignCopy(al, n + new) \in TidyAlignments
    BY <2>1, OperationsKeepTidy
  <2>4. AlignDelete(AlignCopy(al, n + new), less) \in TidyAlignments
    BY <2>1, <2>3, OperationsKeepTidy
  <2> QED
    BY <1>4, <1>b, <2>1, <2>2, <2>4 DEF less, old, new, to
<1> QED
  BY <1>3, <1>4

\* One byte more of the output.
LEMMA AppendBehind ==
  ASSUME NEW s \in Seq(Bytes), NEW p \in Seq(Bytes), NEW b \in Bytes
  PROVE  Append(s \o p, b) = s \o Append(p, b)
OBVIOUS

\* A character that is kept was read to its end: the border is behind it.
LEMMA KeepsWhatWasKept ==
  ASSUME SeenInv, pc = "bytes", src < Len(text), NEW q, q = Append(state.seen, text[src + 1]),
         q \in table.keeps, NEW k \in 0 .. Len(Chars), AtBorder(k)
  PROVE  /\ k + 1 \in 0 .. Len(Chars) /\ Len(Passed(table, text, k + 1)) = src + 1
         /\ call = "replace" =>
              /\ Append(out, text[src + 1]) = Lowered(table, First(table, text, k + 1)) \o <<>>
              /\ AlignCopy(map, (src + 1) - copystart) = MapOf(table, First(table, text, k + 1))
<1> DEFINE b == text[src + 1]
<1>1. /\ table \in Tables /\ text \in Seq(Bytes) /\ src \in Nat /\ Len(text) \in Nat
      /\ state.seen \in Seq(Bytes) /\ Len(state.seen) \in Nat /\ Len(state.seen) <= src
      /\ StandsAt(text, state.seen, Start) /\ Start = src - Len(state.seen)
  <2>1. From = src /\ Start = From - Len(state.seen)
    BY DEF From, Start
  <2>2. /\ table \in Tables /\ text \in Seq(Bytes) /\ src \in 0 .. Len(text)
        /\ state.seen \in Seq(Bytes) /\ Len(state.seen) <= From
        /\ StandsAt(text, state.seen, Start)
    BY DEF SeenInv
  <2>3. src \in Nat /\ Len(text) \in Nat /\ Len(state.seen) \in Nat
    BY <2>2
  <2> QED
    BY <2>1, <2>2, <2>3, Zenon
<1>2. Start \in Nat /\ src = Start + Len(state.seen)
  BY <1>1
<1>3. StandsAt(text, q, Start) /\ b \in Bytes /\ q \in Seq(Bytes)
      /\ Len(q) = Len(state.seen) + 1
  BY <1>1, <1>2, OneByteMore
<1>4. Len(Passed(table, text, k)) = Start
  BY DEF AtBorder
<1>5. q \in Accepted(table) /\ LowerOf(table, q) = q
  BY <1>1, TablesAssumption DEF Accepted, LowerOf, WellFormed
<1>6. /\ k + 1 \in 0 .. Len(Chars)
      /\ Len(Passed(table, text, k + 1)) = Start + Len(q)
      /\ Lowered(table, First(table, text, k)) \in Seq(Bytes)
      /\ Lowered(table, First(table, text, k + 1))
           = Lowered(table, First(table, text, k)) \o q
      /\ MapOf(table, First(table, text, k + 1))
           = LowerOne(table, MapOf(table, First(table, text, k)), q)
  <2>1. k \in 0 .. Len(CharsOf(table, text)) /\ StandsAt(text, q, Len(Passed(table, text, k)))
    BY <1>3, <1>4 DEF Chars
  <2> QED
    <3>1. /\ k + 1 \in 0 .. Len(CharsOf(table, text))
          /\ Len(Passed(table, text, k + 1)) = Len(Passed(table, text, k)) + Len(q)
          /\ Lowered(table, First(table, text, k)) \in Seq(Bytes)
          /\ LowerOf(table, q) \in Seq(Bytes)
          /\ Lowered(table, First(table, text, k + 1))
               = Lowered(table, First(table, text, k)) \o LowerOf(table, q)
          /\ MapOf(table, First(table, text, k + 1))
               = LowerOne(table, MapOf(table, First(table, text, k)), q)
      BY <1>1, <1>5, <2>1, CharTaken
    <3> QED
      BY <1>4, <1>5, <3>1, Zenon DEF Chars
<1>7. Start + Len(q) = src + 1 /\ Len(q) \in Nat
  <2> DEFINE m == Len(q)
             n == Len(state.seen)
             s == Start
  <2>1. s \in Nat /\ n \in Nat /\ src = s + n /\ m = n + 1
    BY <1>1, <1>2, <1>3
  <2> HIDE DEF m, n, s
  <2>2. s + m = src + 1 /\ m \in Nat
    BY <2>1
  <2> QED
    BY <2>2 DEF m, s
<1>8. ASSUME call = "replace"
      PROVE  /\ Append(out, b) = Lowered(table, First(table, text, k + 1)) \o <<>>
             /\ AlignCopy(map, (src + 1) - copystart) = MapOf(table, First(table, text, k + 1))
  <2> DEFINE low == Lowered(table, First(table, text, k))
             al  == MapOf(table, First(table, text, k))
  <2>1. /\ out = low \o state.seen /\ map \in TidyAlignments
        /\ AlignCopy(map, Start - copystart) = al /\ copystart \in 0 .. Start
    BY <1>8 DEF AtBorder, Written, Entered, Pending, SeenInv
  <2>2. Append(out, b) = low \o q
    BY <1>1, <1>3, <1>6, <2>1, AppendBehind
  <2>3. low \o q \in Seq(Bytes)
    <3> HIDE DEF low
    <3> QED
      BY <1>3, <1>6 DEF low
  <2>4. Append(out, b) = Lowered(table, First(table, text, k + 1)) \o <<>>
    <3> DEFINE s == low \o q
    <3>1. s \in Seq(Bytes) /\ Lowered(table, First(table, text, k + 1)) = s
      BY <1>6, <2>3
    <3> HIDE DEF s
    <3>2. s \o <<>> = s
      BY <3>1
    <3> QED
      BY <2>2, <3>1, <3>2 DEF s
  <2> DEFINE n == Start - copystart
             m == Len(q)
  <2>5. n \in Nat /\ m \in Nat /\ (src + 1) - copystart = n + m
    <3> DEFINE s == Start
    <3>1. s \in Nat /\ m \in Nat /\ copystart \in 0 .. s /\ s + m = src + 1
      BY <1>2, <1>7, <2>1
    <3> HIDE DEF m, s
    <3>2. s - copystart \in Nat /\ (s + m) - copystart = (s - copystart) + m
      BY <3>1
    <3> QED
      BY <3>1, <3>2 DEF s
  <2>6. map \in TidyAlignments
    BY <2>1
  <2>7. Len(q) = m /\ Len(LowerOf(table, q)) = m
    BY <1>5
  <2>8. AlignCopy(map, n) = al
    BY <2>1
  <2> HIDE DEF n, m, al
  <2>9. LowerOne(table, AlignCopy(map, n), q) = AlignCopy(map, n + m)
    <3>1. SameLength(table, q)
      BY <2>5, <2>7 DEF SameLength
    <3>2. LowerOne(table, AlignCopy(map, n), q) = AlignCopy(map, n + Len(q))
      BY <2>5, <2>6, <3>1, SameLengthCopied
    <3> QED
      BY <2>7, <3>2
  <2>10. AlignCopy(map, (src + 1) - copystart) = MapOf(table, First(table, text, k + 1))
    BY <1>6, <2>5, <2>8, <2>9 DEF al
  <2> QED
    BY <2>4, <2>10
<1> QED
  BY <1>6, <1>7, <1>8

\* A byte read completes a character, is one more of it, or is an exit.
LEMMA ScanByteKeepsPlace == PlaceInv /\ ScanByte => PlaceInv'
<1> SUFFICES ASSUME PlaceInv, ScanByte
             PROVE  PlaceInv'
  OBVIOUS
<1> DEFINE b     == text[src + 1]
           entry == Entry(state, b)
           q     == Append(state.seen, b)
<1>1. /\ pc = "bytes" /\ src < Len(text) /\ SeenInv /\ call \in {"scan", "replace"}
      /\ src' = src + 1 /\ e' = entry.kind
      /\ IF entry.kind = "next" THEN state' = entry.to /\ pc' = "bytes"
                                ELSE UNCHANGED state /\ pc' = "exit"
      /\ out' = IF call = "replace" THEN Append(out, b) ELSE out
      /\ UNCHANGED <<call, table, text, olen, copystart, map>>
  BY DEF ScanByte, PlaceInv, Running
<1>2. PICK k \in 0 .. Len(Chars) : AtBorder(k)
  BY <1>1 DEF PlaceInv, Running
<1>3. /\ table \in Tables /\ text \in Seq(Bytes) /\ src \in Nat /\ Len(text) \in Nat
      /\ state.seen \in Seq(Bytes) /\ Len(state.seen) \in Nat /\ Len(state.seen) <= src
      /\ StandsAt(text, state.seen, Start) /\ Start = src - Len(state.seen)
  <2>1. From = src /\ Start = From - Len(state.seen)
    BY <1>1 DEF From, Start
  <2>2. /\ table \in Tables /\ text \in Seq(Bytes) /\ src \in 0 .. Len(text)
        /\ state.seen \in Seq(Bytes) /\ Len(state.seen) <= From
        /\ StandsAt(text, state.seen, Start)
    BY <1>1 DEF SeenInv
  <2>3. src \in Nat /\ Len(text) \in Nat /\ Len(state.seen) \in Nat
    BY <2>2
  <2> QED
    BY <2>1, <2>2, <2>3, Zenon
<1>4. Start \in Nat /\ src = Start + Len(state.seen) /\ Start <= src
  BY <1>3
<1>5. StandsAt(text, q, Start) /\ b \in Bytes /\ q \in Seq(Bytes)
      /\ Len(q) = Len(state.seen) + 1
  BY <1>1, <1>3, <1>4, OneByteMore, SMTT(30)
<1>6. /\ entry.kind \in {"reject", "replace", "again", "next", "illegal"}
      /\ entry.kind = "reject" => q \in table.rejects
      /\ entry.kind = "replace" => q \in DOMAIN table.lower
      /\ entry.kind = "again" => q \in table.keeps /\ state.seen = <<>> /\ table.repeats > 0
      /\ entry.kind = "next" => \/ q \in table.keeps /\ entry.to.seen = <<>>
                                \/ BeginsOne(table, q) /\ entry.to.seen = q
      /\ entry.kind = "illegal" => q \notin Characters(table) /\ ~ BeginsOne(table, q)
  BY EntryIs
<1>7. /\ IF call = "scan"
           THEN DOMAIN table.lower = {} /\ out = <<>> /\ olen = 0 /\ copystart = 0
           ELSE DOMAIN table.lower # {} /\ copystart \in 0 .. Start
      /\ e = "next" /\ (state.seen = <<>> \/ BeginsOne(table, state.seen))
  BY <1>1 DEF SeenInv
<1>8. src' \in 0 .. Len(text') /\ src' > 0 /\ src' \in Nat
  BY <1>1, <1>3
<1>9. Chars' = Chars
  BY <1>1 DEF Chars
<1> HIDE DEF entry
<1>10. CASE entry.kind = "next" /\ q \in table.keeps /\ entry.to.seen = <<>>
  <2>1. pc' = "bytes" /\ state'.seen = <<>> /\ e' = "next"
    BY <1>1, <1>10
  <2>2. From' = src' /\ Start' = src' /\ Pending' = <<>>
    <3>1. state'.seen = <<>> /\ From' = src' /\ src' \in 0 .. Len(text') /\ Pending' = <<>>
      BY <1>8, <2>1 DEF From, Pending
    <3>2. StartsAt'
      BY NothingSeen, PTL
    <3> QED
      BY <3>1, <3>2 DEF StartsAt
  <2>3. /\ k + 1 \in 0 .. Len(Chars) /\ Len(Passed(table, text, k + 1)) = src + 1
        /\ call = "replace" =>
             /\ Append(out, b) = Lowered(table, First(table, text, k + 1)) \o <<>>
             /\ AlignCopy(map, (src + 1) - copystart) = MapOf(table, First(table, text, k + 1))
    BY <1>1, <1>2, <1>10, KeepsWhatWasKept
  <2>4. StandsAt(text', <<>>, src') /\ Len(<<>>) = 0 /\ <<>> \in Seq(Bytes)
    BY <1>1, <1>3, <1>8, NothingStands
  <2>5. Len(state'.seen) <= From'
    BY <1>8, <2>1, <2>2, <2>4
  <2>6. call # "scan" => copystart \in 0 .. src'
    BY <1>1, <1>3, <1>4, <1>7, <1>8
  <2>7. call = "scan" => out' = out
    BY <1>1
  <2>8. SeenInv'
    BY <1>1, <1>3, <1>7, <1>8, <2>1, <2>2, <2>4, <2>5, <2>6, <2>7 DEF SeenInv
  <2>9. call = "replace" => map \in TidyAlignments
    BY <1>2 DEF AtBorder, Entered
  <2>10. AtBorder(k + 1)'
    BY <1>1, <2>2, <2>3, <2>9 DEF AtBorder, Written, Entered
  <2>11. (\E i \in 0 .. Len(Chars) : AtBorder(i))'
    BY <1>9, <2>3, <2>10
  <2> QED
    BY <1>1, <2>1, <2>8, <2>11 DEF PlaceInv, Running
\* In the two other cases the border is where it was.
<1>11. call = "replace" => /\ out' = Lowered(table, First(table, text, k)) \o q
                           /\ map \in TidyAlignments
                           /\ AlignCopy(map, Start - copystart) = MapOf(table, First(table, text, k))
  <2> SUFFICES ASSUME call = "replace"
               PROVE  /\ out' = Lowered(table, First(table, text, k)) \o q
                      /\ map \in TidyAlignments
                      /\ AlignCopy(map, Start - copystart) = MapOf(table, First(table, text, k))
    OBVIOUS
  <2>1. /\ out = Lowered(table, First(table, text, k)) \o state.seen
        /\ map \in TidyAlignments
        /\ AlignCopy(map, Start - copystart) = MapOf(table, First(table, text, k))
    BY <1>1, <1>2 DEF AtBorder, Written, Entered, Pending
  <2>2. Lowered(table, First(table, text, k)) \in Seq(Bytes)
    BY <1>2, <1>3, FirstTyped DEF Chars
  <2>3. Append(out, b) = Lowered(table, First(table, text, k)) \o q
    BY <1>3, <1>5, <2>1, <2>2, AppendBehind
  <2> QED
    BY <1>1, <2>1, <2>3
<1>12. Len(Passed(table, text, k)) = Start
  BY <1>2 DEF AtBorder
<1>13. CASE entry.kind = "next" /\ BeginsOne(table, q) /\ entry.to.seen = q
  <2>1. pc' = "bytes" /\ state'.seen = q /\ e' = "next"
    BY <1>1, <1>13
  <2>2. From' = src' /\ Start' = Start /\ Pending' = q
    <3>1. From' = src' /\ Start' = From' - Len(state'.seen) /\ Pending' = q
      BY <2>1 DEF From, Start, Pending
    <3> QED
      BY <1>1, <1>3, <1>5, <2>1, <3>1
  <2>3. Len(state'.seen) <= From'
    BY <1>1, <1>3, <1>5, <2>1, <2>2
  <2>4. call = "scan" => out' = out
    BY <1>1
  <2>5. SeenInv'
    BY <1>1, <1>3, <1>5, <1>7, <1>8, <1>13, <2>1, <2>2, <2>3, <2>4 DEF SeenInv
  <2>6. AtBorder(k)'
    BY <1>1, <1>11, <1>12, <2>2 DEF AtBorder, Written, Entered
  <2>7. (\E i \in 0 .. Len(Chars) : AtBorder(i))'
    BY <1>9, <2>6
  <2> QED
    BY <1>1, <2>1, <2>5, <2>7 DEF PlaceInv, Running
<1>14. CASE entry.kind # "next"
  <2>1. pc' = "exit" /\ state' = state /\ e' = entry.kind
    BY <1>1, <1>14
  <2>2. text'[src'] = b /\ src' - 1 = src
    BY <1>1, <1>3
  <2>3. Char' = q
    BY <2>1, <2>2 DEF Char
  <2>4. From' = src /\ Start' = Start /\ Pending' = q
    <3>1. From' = src' - 1 /\ Start' = From' - Len(state'.seen) /\ Pending' = Char'
      BY <2>1 DEF From, Start, Pending
    <3> QED
      BY <1>3, <2>1, <2>2, <2>3, <3>1
  <2>5. call = "scan" => out' = out
    BY <1>1
  <2>6. SeenInv'
    BY <1>1, <1>3, <1>7, <1>8, <2>1, <2>4, <2>5 DEF SeenInv
  <2>7. AtBorder(k)'
    BY <1>1, <1>11, <1>12, <2>4 DEF AtBorder, Written, Entered
  <2>8. (\E i \in 0 .. Len(Chars) : AtBorder(i))'
    BY <1>9, <2>7
  <2>9. entry.kind = "again" => call = "scan"
    <3>1. DOMAIN table.lower # {} => table.repeats = 0
      BY <1>3, TablesAssumption DEF WellFormed
    <3> QED
      BY <1>1, <1>6, <1>7, <3>1
  <2>10. ExitInv'
    BY <1>1, <1>6, <1>8, <1>14, <2>1, <2>3, <2>9 DEF ExitInv
  <2> QED
    BY <1>1, <2>1, <2>6, <2>8, <2>10 DEF PlaceInv, Running
<1> QED
  BY <1>6, <1>10, <1>13, <1>14

\* A scan that is sent back goes over the last character again, which is complete.
LEMMA DoAgainKeepsPlace == PlaceInv /\ DoAgain => PlaceInv'
<1> SUFFICES ASSUME PlaceInv, DoAgain
             PROVE  PlaceInv'
  OBVIOUS
<1>1. /\ pc = "exit" /\ e = "again" /\ src' = BackUp /\ state' = Zero /\ pc' = "fast"
      /\ UNCHANGED <<call, table, text, e, olen, out, copystart, map>>
  BY DEF DoAgain
<1>2. SeenInv /\ src > 0 /\ call = "scan" /\ state.seen = <<>>
  BY <1>1 DEF PlaceInv, Running, ExitInv
<1>3. PICK k \in 0 .. Len(Chars) : AtBorder(k)
  BY <1>1 DEF PlaceInv, Running
<1>4. src' = Start /\ Start \in 0 .. src
  BY <1>1, <1>2, BackUpIs
<1>5. /\ table \in Tables /\ DOMAIN table.lower = {} /\ text \in Seq(Bytes)
      /\ src \in 0 .. Len(text) /\ Len(text) \in Nat
      /\ out = <<>> /\ olen = 0 /\ copystart = 0
  BY <1>2 DEF SeenInv
<1>6. src' \in 0 .. Len(text)
  BY <1>4, <1>5
<1>7. From' = src' /\ Start' = src' /\ state'.seen = <<>>
  <2>1. state'.seen = <<>> /\ From' = src' /\ From' \in Int
    BY <1>1, <1>6 DEF From, Zero
  <2>2. StartsAt'
    BY NothingSeen, PTL
  <2> QED
    BY <2>1, <2>2 DEF StartsAt
<1>8. StandsAt(text, <<>>, src') /\ Len(<<>>) = 0 /\ <<>> \in Seq(Bytes)
  BY <1>5, <1>6, NothingStands
<1>9. Len(state'.seen) <= From'
  BY <1>6, <1>7, <1>8
<1>10. SeenInv'
  BY <1>1, <1>2, <1>5, <1>6, <1>7, <1>8, <1>9 DEF SeenInv
<1>11. AtBorder(k)' /\ Chars' = Chars
  BY <1>1, <1>2, <1>3, <1>4, <1>7 DEF AtBorder, Chars
<1>12. (\E i \in 0 .. Len(Chars) : AtBorder(i))'
  BY <1>11
<1> QED
  BY <1>1, <1>2, <1>10, <1>12 DEF PlaceInv, Running

\* What a replaced character makes of the border, the output and the map.
LEMMA KeepsWhatIsReplaced ==
  ASSUME SeenInv, pc = "exit", src > 0, Char \in DOMAIN table.lower,
         call \in {"scan", "replace"}, NEW k \in 0 .. Len(Chars), AtBorder(k)
  PROVE  LET new == table.lower[Char] IN
         /\ call = "replace" /\ out \in Seq(Bytes) /\ new \in Seq(Bytes)
         /\ k + 1 \in 0 .. Len(Chars) /\ Len(Passed(table, text, k + 1)) = src
         /\ SubSeq(out, 1, Len(out) - Len(Char)) \o new
              = Lowered(table, First(table, text, k + 1)) \o <<>>
         /\ Len(Lowered(table, First(table, text, k + 1))) = Len(out) - Len(Char) + Len(new)
         /\ Lowered(table, First(table, text, k + 1)) \in Seq(Bytes)
         /\ Len(new) = Len(Char) =>
              AlignCopy(map, src - copystart) = MapOf(table, First(table, text, k + 1))
         /\ Mapped(Char, new) = MapOf(table, First(table, text, k + 1))
         /\ Mapped(Char, new) \in TidyAlignments
<1> DEFINE c   == Char
           new == table.lower[c]
           low == Lowered(table, First(table, text, k))
           al  == MapOf(table, First(table, text, k))
<1>1. /\ c \in Seq(Bytes) /\ StandsAt(text, c, Start) /\ Start \in Nat
      /\ src = Start + Len(c)
  BY CharIs
<1>2. /\ table \in Tables /\ text \in Seq(Bytes) /\ call = "replace"
      /\ copystart \in 0 .. Start
  BY DEF SeenInv
<1>3. /\ Len(Passed(table, text, k)) = Start /\ out = low \o c
      /\ map \in TidyAlignments /\ AlignCopy(map, Start - copystart) = al
  BY <1>2 DEF AtBorder, Written, Entered, Pending
<1>4. c \in Accepted(table) /\ LowerOf(table, c) = new /\ new \in Seq(Bytes)
  BY <1>2, TablesAssumption DEF Accepted, LowerOf
<1>5. /\ k + 1 \in 0 .. Len(Chars)
      /\ Len(Passed(table, text, k + 1)) = src
      /\ low \in Seq(Bytes)
      /\ Lowered(table, First(table, text, k + 1)) = low \o new
      /\ MapOf(table, First(table, text, k + 1)) = LowerOne(table, al, c)
  <2>1. k \in 0 .. Len(CharsOf(table, text)) /\ StandsAt(text, c, Len(Passed(table, text, k)))
    BY <1>1, <1>3 DEF Chars
  <2> HIDE DEF c
  <2>2. /\ k + 1 \in 0 .. Len(CharsOf(table, text))
        /\ Len(Passed(table, text, k + 1)) = Len(Passed(table, text, k)) + Len(c)
        /\ Lowered(table, First(table, text, k)) \in Seq(Bytes)
        /\ LowerOf(table, c) \in Seq(Bytes)
        /\ Lowered(table, First(table, text, k + 1))
             = Lowered(table, First(table, text, k)) \o LowerOf(table, c)
        /\ MapOf(table, First(table, text, k + 1))
             = LowerOne(table, MapOf(table, First(table, text, k)), c)
    BY <1>2, <1>4, <2>1, CharTaken
  <2> QED
    BY <1>1, <1>3, <1>4, <2>2, Zenon DEF Chars
<1>6. /\ SubSeq(out, 1, Len(out) - Len(c)) = low
      /\ Len(out) = Len(low) + Len(c) /\ out \in Seq(Bytes)
  <2> HIDE DEF c, low
  <2> QED
    BY <1>1, <1>3, <1>5, GivesBack
<1> DEFINE s == low \o new
<1>7. s \in Seq(Bytes) /\ Len(s) = Len(out) - Len(c) + Len(new) /\ s = s \o <<>>
  <2> HIDE DEF low, new, c
  <2>1. s \in Seq(Bytes) /\ Len(s) = Len(low) + Len(new)
    BY <1>4, <1>5
  <2>2. s = s \o <<>>
    <3> HIDE DEF s
    <3> QED
      BY <2>1
  <2> DEFINE i == Len(low)
             j == Len(c)
             l == Len(new)
  <2>3. i \in Nat /\ j \in Nat /\ l \in Nat /\ Len(out) = i + j
    BY <1>1, <1>4, <1>5, <1>6
  <2> HIDE DEF i, j, l
  <2>4. i + l = Len(out) - j + l
    BY <2>3
  <2> QED
    BY <2>1, <2>2, <2>4 DEF i, j, l
<1> DEFINE n == Start - copystart
           m == Len(c)
           l == Len(new)
           more == l - m
<1>8. n \in Nat /\ m \in Nat /\ l \in Nat /\ more \in Int /\ src - copystart = n + m
      /\ Len(c) = m /\ Len(LowerOf(table, c)) = l /\ more = l - m
  <2>1. m \in Nat /\ l \in Nat
    BY <1>1, <1>4
  <2>2. Len(c) = m /\ Len(LowerOf(table, c)) = l
    BY <1>4
  <2> HIDE DEF m, l
  <2>3. n \in Nat /\ src - copystart = n + m
    <3> DEFINE t == Start
    <3>1. t \in Nat /\ copystart \in 0 .. t /\ src = t + m
      BY <1>1, <1>2 DEF m
    <3> HIDE DEF t
    <3>2. t - copystart \in Nat /\ (t + m) - copystart = (t - copystart) + m
      BY <2>1, <3>1
    <3> QED
      BY <3>1, <3>2 DEF t
  <2> QED
    BY <2>1, <2>2, <2>3
<1>9. AlignCopy(map, n) = al
  BY <1>3
<1>10. Mapped(c, new) = IF more > 0 THEN AlignInsert(AlignCopy(map, src - copystart), more)
                        ELSE AlignDelete(AlignCopy(map, src - copystart + more), -more)
  BY DEF Mapped
<1> HIDE DEF n, m, l, more, al, c, new, low, s
<1>11. Mapped(c, new) = LowerOne(table, al, c) /\ Mapped(c, new) \in TidyAlignments
  <2> DEFINE to == BehindCopies(map, n, Len(c), Len(LowerOf(table, c)))
  <2>1. LowerOne(table, AlignCopy(map, n), c) = to /\ to \in TidyAlignments
    <3>1. HaveLengths(table, c)
      BY <1>8 DEF HaveLengths
    <3> QED
      BY <1>3, <1>8, <3>1, ReplacedBehindCopies
  <2>2. Mapped(c, new) = to
    BY <1>8, <1>10 DEF BehindCopies
  <2> HIDE DEF to
  <2> QED
    BY <1>9, <2>1, <2>2
<1>12. l = m => AlignCopy(map, src - copystart) = LowerOne(table, al, c)
  <2> SUFFICES ASSUME l = m PROVE AlignCopy(map, src - copystart) = LowerOne(table, al, c)
    OBVIOUS
  <2>1. Len(c) \in Nat /\ Len(LowerOf(table, c)) = Len(c)
    BY <1>8
  <2>2. LowerOne(table, AlignCopy(map, n), c) = AlignCopy(map, n + m)
    <3>1. SameLength(table, c)
      BY <1>8, <2>1 DEF SameLength
    <3>2. LowerOne(table, AlignCopy(map, n), c) = AlignCopy(map, n + Len(c))
      BY <1>3, <1>8, <3>1, SameLengthCopied, ZenonT(30)
    <3> QED
      BY <1>8, <3>2
  <2> QED
    BY <1>8, <1>9, <2>2
<1>13. Len(new) = Len(c) => AlignCopy(map, src - copystart) = LowerOne(table, al, c)
  BY <1>12 DEF l, m
<1>14. SubSeq(out, 1, Len(out) - Len(c)) \o new = s
       /\ Lowered(table, First(table, text, k + 1)) = s
  BY <1>5, <1>6 DEF s
<1> QED
  BY <1>2, <1>4, <1>5, <1>6, <1>7, <1>11, <1>13, <1>14, Zenon DEF c, new

\* A character is replaced: the border moves behind it; or there is no room.
LEMMA ReplaceCharacterKeepsPlace == PlaceInv /\ ReplaceCharacter => PlaceInv'
<1> SUFFICES ASSUME PlaceInv, ReplaceCharacter
             PROVE  PlaceInv'
  OBVIOUS
<1> DEFINE new == table.lower[Char]
<1>1. /\ pc = "exit" /\ e = "replace" /\ SeenInv /\ src > 0 /\ Char \in DOMAIN table.lower
      /\ call \in {"scan", "replace"}
      /\ UNCHANGED <<call, table, text, src, olen>>
  BY DEF ReplaceCharacter, PlaceInv, Running, ExitInv
<1>2. PICK k \in 0 .. Len(Chars) : AtBorder(k)
  BY <1>1 DEF PlaceInv, Running
<1>3. Chars' = Chars
  BY <1>1 DEF Chars
<1>4. CASE ~ Fits(Char, new)
  <2>1. e' = "full" /\ UNCHANGED <<pc, state, out, copystart, map>>
    BY <1>4 DEF ReplaceCharacter, Char
  <2>2. /\ From' = From /\ Start' = Start /\ Char' = Char /\ Pending' = Pending
        /\ (Fits(Char, table.lower[Char]))' = Fits(Char, table.lower[Char])
    BY <1>1, <2>1 DEF From, Start, Char, Pending, Fits
  <2>3. SeenInv'
    BY <1>1, <2>1, <2>2 DEF SeenInv
  <2>4. ExitInv'
    BY <1>1, <1>4, <2>1, <2>2 DEF ExitInv
  <2>5. AtBorder(k)'
    BY <1>1, <1>2, <2>1, <2>2 DEF AtBorder, Written, Entered
  <2>6. (\E i \in 0 .. Len(Chars) : AtBorder(i))'
    BY <1>3, <2>5
  <2> QED
    BY <1>1, <2>1, <2>3, <2>4, <2>6 DEF PlaceInv, Running
<1>5. CASE Fits(Char, new)
  <2>1. /\ out' = SubSeq(out, 1, Len(out) - Len(Char)) \o new
        /\ IF Len(new) # Len(Char) THEN map' = Mapped(Char, new) /\ copystart' = src
                                   ELSE UNCHANGED <<map, copystart>>
        /\ state' = Zero /\ e' = "next" /\ pc' = "bytes"
    BY <1>5 DEF ReplaceCharacter, Char
  <2>2. /\ call = "replace" /\ k + 1 \in 0 .. Len(Chars)
        /\ Len(Passed(table, text, k + 1)) = src
        /\ out' = Lowered(table, First(table, text, k + 1)) \o <<>>
        /\ Len(new) = Len(Char) =>
              AlignCopy(map, src - copystart) = MapOf(table, First(table, text, k + 1))
        /\ Mapped(Char, new) = MapOf(table, First(table, text, k + 1))
        /\ Mapped(Char, new) \in TidyAlignments
    BY <1>1, <1>2, <2>1, KeepsWhatIsReplaced
  <2>3. /\ table \in Tables /\ text \in Seq(Bytes) /\ src \in 0 .. Len(text)
        /\ DOMAIN table.lower # {} /\ copystart \in 0 .. Start /\ Len(text) \in Nat
    BY <1>1, <2>2 DEF SeenInv
  <2>4. Start \in Nat /\ src = Start + Len(Char) /\ Len(Char) \in Nat
    BY <1>1, CharIs
  <2>5. state'.seen = <<>> /\ From' = src /\ Start' = src /\ Pending' = <<>>
    <3>1. state'.seen = <<>> /\ From' = src /\ From' \in Int /\ Pending' = <<>>
      BY <1>1, <2>1, <2>3 DEF From, Zero, Pending
    <3>2. StartsAt'
      BY NothingSeen, PTL
    <3> QED
      BY <3>1, <3>2 DEF StartsAt
  <2>6. StandsAt(text, <<>>, src) /\ Len(<<>>) = 0 /\ <<>> \in Seq(Bytes)
    BY <2>3, NothingStands
  <2>7. Len(state'.seen) <= From'
    BY <2>3, <2>5, <2>6
  <2>8. copystart' \in 0 .. src
    <3> DEFINE i == Start
               n == Len(Char)
    <3>1. i \in Nat /\ n \in Nat /\ src = i + n /\ copystart \in 0 .. i
          /\ copystart' \in {copystart, src}
      BY <2>1, <2>3, <2>4
    <3> HIDE DEF i, n
    <3> QED
      BY <3>1
  <2>9. SeenInv'
    BY <1>1, <2>1, <2>2, <2>3, <2>5, <2>6, <2>7, <2>8 DEF SeenInv
  <2>10. /\ map' \in TidyAlignments
         /\ AlignCopy(map', src - copystart') = MapOf(table, First(table, text, k + 1))
    <3>1. CASE Len(new) # Len(Char)
      <4>1. src - copystart' = 0 /\ map' = Mapped(Char, new)
        BY <2>1, <2>3, <3>1
      <4> QED
        BY <2>2, <4>1, CopyNothing
    <3>2. CASE Len(new) = Len(Char)
      <4>1. map' = map /\ copystart' = copystart
        BY <2>1, <3>2
      <4>2. map \in TidyAlignments
        BY <1>2, <2>2 DEF AtBorder, Entered
      <4> QED
        BY <2>2, <3>2, <4>1, <4>2
    <3> QED
      BY <3>1, <3>2
  <2>11. AtBorder(k + 1)'
    BY <1>1, <2>2, <2>5, <2>10 DEF AtBorder, Written, Entered
  <2>12. (\E i \in 0 .. Len(Chars) : AtBorder(i))'
    BY <1>3, <2>2, <2>11
  <2> QED
    BY <1>1, <2>1, <2>9, <2>12 DEF PlaceInv, Running
<1> QED
  BY <1>4, <1>5

\* What was read of a character ends where the text was read to.
LEMMA PendingIs ==
  ASSUME SeenInv, pc \in {"bytes", "exit"}, pc = "exit" => src > 0
  PROVE  /\ Pending \in Seq(Bytes) /\ Start \in Nat /\ src = Start + Len(Pending)
         /\ StandsAt(text, Pending, Start)
         /\ pc = "exit" => Start < src
<1>1. CASE pc = "exit"
  <2>1. /\ Char \in Seq(Bytes) /\ Len(Char) = Len(state.seen) + 1 /\ Len(state.seen) \in Nat
        /\ StandsAt(text, Char, Start) /\ Start \in Nat /\ src = Start + Len(Char)
    BY <1>1, CharIs
  <2>2. Pending = Char
    BY <1>1 DEF Pending
  <2> DEFINE n == Len(Char)
             s == Start
  <2>3. s \in Nat /\ n \in Nat \ {0} /\ src = s + n
    BY <2>1
  <2> HIDE DEF n, s
  <2>4. s < src
    BY <2>3
  <2> QED
    BY <2>1, <2>2, <2>4 DEF s
<1>2. CASE pc = "bytes"
  <2>1. From = src /\ Start = From - Len(state.seen) /\ Pending = state.seen
    BY <1>2 DEF From, Start, Pending
  <2>2. /\ src \in 0 .. Len(text) /\ text \in Seq(Bytes) /\ state.seen \in Seq(Bytes)
        /\ Len(state.seen) <= From /\ StandsAt(text, state.seen, Start)
    BY DEF SeenInv
  <2> DEFINE n == Len(state.seen)
             s == Start
  <2>3. n \in Nat /\ n <= src /\ s = src - n /\ src \in Nat
    BY <2>1, <2>2
  <2> HIDE DEF n, s
  <2>4. s \in Nat /\ src = s + n
    BY <2>3
  <2> QED
    BY <1>2, <2>1, <2>2, <2>4 DEF n, s
<1> QED
  BY <1>1, <1>2

\* Why a call ends, and that no character stands behind those that were taken
\* unless the room ended.
LEMMA WhyItLeaves ==
  ASSUME PlaceInv, Leave
  PROVE  /\ SeenInv /\ pc \in {"bytes", "exit"}
         /\ pc = "exit" => src > 0 /\ ExitInv
         /\ e' \in {"ok", "reject", "illegal", "full"}
         /\ src' = Start
         /\ e' = "ok" <=> src' = Len(text)
         /\ e' \in {"ok", "illegal"} => \A c \in Characters(table) : ~ StandsAt(text, c, Start)
         /\ e' = "reject" => \E c \in table.rejects : StandsAt(text, c, Start)
         /\ e' = "full" => pc = "exit" /\ e = "full"
<1>1. /\ \/ pc = "bytes" /\ src = Len(text)
         \/ pc = "exit" /\ e \notin {"again", "replace"}
      /\ src' = BackUp
      /\ e' = IF e # "next" THEN e ELSE IF InStateZero THEN "ok" ELSE "illegal"
  BY DEF Leave
<1>2. /\ SeenInv /\ pc \in {"bytes", "exit"}
      /\ pc = "exit" => src > 0 /\ ExitInv
  BY <1>1 DEF PlaceInv, Running, ExitInv
<1>3. pc = "exit" => src > 0 /\ e # "next"
  BY <1>2 DEF ExitInv
<1>4. src' = Start
  BY <1>1, <1>2, <1>3, BackUpIs
<1>5. /\ table \in Tables /\ text \in Seq(Bytes) /\ src \in 0 .. Len(text) /\ Len(text) \in Nat
      /\ state.seen \in Seq(Bytes) /\ (state.seen = <<>> \/ BeginsOne(table, state.seen))
      /\ StandsAt(text, state.seen, Start)
  BY <1>2 DEF SeenInv
<1>6. /\ Pending \in Seq(Bytes) /\ Start \in Nat /\ src = Start + Len(Pending)
      /\ StandsAt(text, Pending, Start)
      /\ pc = "exit" => Start < src
  BY <1>2, PendingIs
<1>7. CASE pc = "bytes"
  <2>1. e = "next" /\ src = Len(text) /\ Pending = state.seen
    BY <1>1, <1>2, <1>7 DEF SeenInv, Pending
  <2>2. e' = IF state.seen = <<>> THEN "ok" ELSE "illegal"
    BY <1>1, <2>1 DEF InStateZero
  <2>3. \A c \in Characters(table) : ~ StandsAt(text, c, Start)
    BY <1>5, <1>6, <2>1, NoneStandsAtEnd
  <2>4. state.seen = <<>> <=> Start = Len(text)
    <3>1. Len(state.seen) = 0 <=> state.seen = <<>>
      BY <1>5
    <3> DEFINE n == Len(state.seen)
               s == Start
    <3>2. n \in Nat /\ s \in Nat /\ Len(text) = s + n
      BY <1>5, <1>6, <2>1
    <3> HIDE DEF n, s
    <3>3. n = 0 <=> s = Len(text)
      BY <3>2
    <3> QED
      BY <3>1, <3>3 DEF n, s
  <2> QED
    BY <1>2, <1>4, <1>7, <2>2, <2>3, <2>4
<1>8. CASE pc = "exit"
  <2>1. ExitInv /\ e' = e /\ e \in {"reject", "full", "illegal"} /\ Pending = Char
    BY <1>1, <1>2, <1>8 DEF ExitInv, Pending
  <2>2. src' # Len(text)
    BY <1>4, <1>5, <1>6, <1>8
  <2>3. e = "reject" => \E c \in table.rejects : StandsAt(text, c, Start)
    BY <1>6, <2>1 DEF ExitInv
  <2>4. ASSUME e = "illegal", NEW c \in Characters(table) PROVE ~ StandsAt(text, c, Start)
    <3>1. text[src] \in Bytes
      BY <1>2, <1>8, CharIs
    <3>2. Append(state.seen, text[src]) = Char /\ Char \notin Characters(table)
          /\ ~ BeginsOne(table, Char)
      BY <2>1, <2>4 DEF ExitInv, Char
    <3> DEFINE p == state.seen
               b == text[src]
    <3>3. /\ p \in Seq(Bytes) /\ b \in Bytes /\ (p = <<>> \/ BeginsOne(table, p))
          /\ StandsAt(text, p, Start) /\ StandsAt(text, Append(p, b), Start)
          /\ Append(p, b) \notin Characters(table) /\ ~ BeginsOne(table, Append(p, b))
      BY <1>5, <1>6, <2>1, <3>1, <3>2
    <3> HIDE DEF p, b
    <3> QED
      BY <1>5, <1>6, <3>3, NoneStands
  <2> QED
    BY <1>2, <1>4, <1>8, <2>1, <2>2, <2>3, <2>4
<1> QED
  BY <1>2, <1>7, <1>8

\* A call that leaves goes back to the border, where its result is right.
LEMMA LeaveKeepsPlace == PlaceInv /\ IInv /\ Leave => PlaceInv'
<1> SUFFICES ASSUME PlaceInv, IInv, Leave
             PROVE  PlaceInv'
  OBVIOUS
<1>1. /\ pc' = "done" /\ UNCHANGED <<call, table, text, state, olen, copystart>>
      /\ out' = IF call = "replace" THEN SubSeq(out, 1, Len(out) - (src - BackUp)) ELSE out
      /\ map' = IF call = "replace" /\ BackUp > copystart
                  THEN AlignCopy(map, BackUp - copystart) ELSE map
      /\ src' = BackUp
  BY DEF Leave
<1>2. /\ SeenInv /\ pc \in {"bytes", "exit"}
      /\ pc = "exit" => src > 0 /\ ExitInv
      /\ e' \in {"ok", "reject", "illegal", "full"}
      /\ src' = Start
      /\ e' = "ok" <=> src' = Len(text)
      /\ e' \in {"ok", "illegal"} => \A c \in Characters(table) : ~ StandsAt(text, c, Start)
      /\ e' = "reject" => \E c \in table.rejects : StandsAt(text, c, Start)
      /\ e' = "full" => pc = "exit" /\ e = "full"
  BY WhyItLeaves
<1>3. PICK k \in 0 .. Len(Chars) : AtBorder(k)
  BY <1>2 DEF PlaceInv, Running
<1>4. /\ table \in Tables /\ text \in Seq(Bytes) /\ src \in 0 .. Len(text) /\ Len(text) \in Nat
      /\ IF call = "scan"
           THEN DOMAIN table.lower = {} /\ out = <<>> /\ olen = 0 /\ copystart = 0
           ELSE DOMAIN table.lower # {} /\ copystart \in 0 .. Start
      /\ call \in {"scan", "replace"}
  BY <1>2 DEF SeenInv, PlaceInv
<1>5. /\ Pending \in Seq(Bytes) /\ Start \in Nat /\ src = Start + Len(Pending)
      /\ pc = "exit" => Start < src
  BY <1>2, PendingIs
<1>6. src' \in 0 .. Len(text) /\ Start \in 0 .. src
  <2> DEFINE s == Start
             n == Len(Pending)
  <2>1. s \in Nat /\ n \in Nat /\ src = s + n /\ src' = s
    BY <1>2, <1>5
  <2> HIDE DEF s, n
  <2>2. s \in 0 .. src /\ src' \in 0 .. Len(text)
    BY <1>4, <2>1
  <2> QED
    BY <2>2 DEF s
<1>7. Len(Passed(table, text, k)) = Start /\ k \in 0 .. Len(CharsOf(table, text))
  BY <1>3 DEF AtBorder, Chars
<1>8. e' # "full" => k = Len(CharsOf(table, text))
      /\ First(table, text, k) = CharsOf(table, text)
  <2> SUFFICES ASSUME e' # "full"
               PROVE  k = Len(CharsOf(table, text))
                      /\ First(table, text, k) = CharsOf(table, text)
    OBVIOUS
  <2>1. ASSUME NEW d \in Accepted(table) PROVE ~ StandsAt(text, d, Start)
    <3>1. CASE e' \in {"ok", "illegal"}
      BY <1>2, <3>1 DEF Characters
    <3>2. CASE e' = "reject"
      BY <1>2, <1>4, <1>5, <3>2, NoneWhereRejected
    <3> QED
      BY <1>2, <3>1, <3>2
  <2> QED
    BY <1>4, <1>7, <2>1, NoneTaken
<1>9. CASE call = "scan"
  <2>1. e' # "full"
    BY <1>2, <1>4, <1>9 DEF ExitInv
  <2>2. src' = Len(FlattenSeq(Chars'))
    BY <1>1, <1>2, <1>7, <1>8, <2>1 DEF Passed, First, Chars
  <2>3. e' = IF src' = Len(text') THEN "ok"
             ELSE IF \E c \in table'.rejects : StandsAt(text', c, src')
               THEN "reject" ELSE "illegal"
    <3>1. e' = "illegal" => \A c \in table.rejects : ~ StandsAt(text, c, src')
      BY <1>2 DEF Characters
    <3> QED
      BY <1>1, <1>2, <2>1, <3>1
  <2>4. Len(out') <= olen'
    <3>1. out' = <<>> /\ olen' = 0 /\ Len(<<>>) = 0
      BY <1>1, <1>4, <1>9
    <3> QED
      BY <3>1
  <2>5. copystart' \in 0 .. src'
    BY <1>1, <1>4, <1>6, <1>9
  <2>6. DoneInv'
    BY <1>1, <1>2, <1>4, <1>6, <1>9, <2>2, <2>3, <2>4, <2>5
    DEF DoneInv, ScansLongest, ReplacesCharacters, MapDescribes
  <2> QED
    BY <1>1, <1>9, <2>6 DEF PlaceInv, Running
<1>10. CASE call = "replace"
  <2> DEFINE low == Lowered(table, First(table, text, k))
  <2>1. /\ out = low \o Pending /\ map \in TidyAlignments
        /\ AlignCopy(map, Start - copystart) = MapOf(table, First(table, text, k))
        /\ copystart \in 0 .. Start
    BY <1>3, <1>4, <1>10 DEF AtBorder, Written, Entered
  <2>2. low \in Seq(Bytes)
    BY <1>4, <1>7, FirstTyped
  <2>3. out' = low /\ Len(out) = Len(low) + Len(Pending)
    <3> DEFINE n == Len(Pending)
               s == Start
    <3>1. s \in Nat /\ n \in Nat /\ src = s + n /\ BackUp = s
      BY <1>1, <1>2, <1>5
    <3> HIDE DEF n, s
    <3>2. src - BackUp = n
      BY <3>1
    <3> HIDE DEF low
    <3>3. /\ SubSeq(out, 1, Len(out) - Len(Pending)) = low
          /\ Len(out) = Len(low) + Len(Pending)
      BY <1>5, <2>1, <2>2, GivesBack
    <3> QED
      BY <1>1, <1>10, <3>2, <3>3 DEF n
  <2>4. map' = MapOf(table, First(table, text, k))
    <3>1. BackUp = Start
      BY <1>1, <1>2
    <3>2. CASE Start > copystart
      BY <1>1, <1>10, <2>1, <3>1, <3>2
    <3>3. CASE ~ (Start > copystart)
      <4>1. Start - copystart = 0
        BY <1>5, <2>1, <3>3
      <4> QED
        BY <1>1, <2>1, <3>1, <3>3, <4>1, CopyNothing
    <3> QED
      BY <3>2, <3>3
  <2>5. Len(out') <= olen'
    <3>1. out \in Seq(Bytes) /\ olen \in Int /\ olen - Len(out) >= Len(text) - src
      BY <1>2, <1>10 DEF IInv, Copying
    <3> DEFINE a == Len(low)
               b == Len(Pending)
    <3>2. a \in Nat /\ b \in Nat /\ Len(out) = a + b /\ Len(out) \in Nat
      BY <1>5, <2>2, <2>3, <3>1
    <3> HIDE DEF a, b
    <3>3. a <= olen
      BY <1>4, <3>1, <3>2
    <3> QED
      BY <1>1, <2>3, <3>3 DEF a
  <2>6. ASSUME e' = "full" PROVE NoRoomFor(k + 1)'
    <3>1. /\ pc = "exit" /\ e = "full" /\ src > 0 /\ Char \in DOMAIN table.lower
          /\ ~ Fits(Char, table.lower[Char])
      BY <1>2, <2>6 DEF ExitInv
    <3> DEFINE new == table.lower[Char]
               more == Lowered(table, First(table, text, k + 1))
    <3>2. /\ k + 1 \in 0 .. Len(Chars) /\ Len(Passed(table, text, k + 1)) = src
          /\ Len(more) = Len(out) - Len(Char) + Len(new)
      BY <1>2, <1>3, <1>4, <3>1, KeepsWhatIsReplaced
    <3>3. ~ (olen - (Len(out) - Len(Char) + Len(new)) >= Len(text) - src)
      BY <3>1 DEF Fits
    <3>4. /\ out \in Seq(Bytes) /\ olen \in Int /\ new \in Seq(Bytes) /\ Char \in Seq(Bytes)
      BY <1>2, <1>3, <1>4, <1>10, <3>1, KeepsWhatIsReplaced, CharIs DEF IInv, Copying
    <3>5. olen - Len(more) < Len(text) - src
      <4> DEFINE i == Len(out)
                 m == Len(Char)
                 l == Len(new)
                 j == Len(more)
      <4>1. /\ i \in Nat /\ m \in Nat /\ l \in Nat /\ j = i - m + l /\ src \in Nat
            /\ ~ (olen - (i - m + l) >= Len(text) - src)
        BY <1>4, <3>2, <3>3, <3>4, SMTT(30)
      <4> HIDE DEF i, m, l, j
      <4>2. olen - j < Len(text) - src
        BY <1>4, <3>4, <4>1
      <4> QED
        BY <4>2 DEF j
    <3>6. k + 1 <= Len(Chars)
      BY <3>2
    <3> QED
      BY <1>1, <3>2, <3>5, <3>6 DEF NoRoomFor, First, Passed, Chars
  <2>7. e' = "illegal" => k = Len(Chars)
    BY <1>8 DEF Chars
  <2>8. ReplacesCharacters'
    BY <1>1, <1>2, <1>3, <1>7, <2>3, <2>6, <2>7
    DEF ReplacesCharacters, First, Passed, Chars
  <2>9. MapDescribes'
    BY <1>1, <1>2, <1>3, <1>7, <2>4 DEF MapDescribes, First, Passed, Chars
  <2>10. copystart' \in 0 .. src'
    BY <1>1, <1>2, <2>1
  <2>11. DoneInv'
    BY <1>1, <1>2, <1>4, <1>6, <1>10, <2>5, <2>8, <2>9, <2>10
    DEF DoneInv, ScansLongest
  <2> QED
    BY <1>1, <1>10, <2>11 DEF PlaceInv, Running
<1> QED
  BY <1>4, <1>9, <1>10

\* Every step keeps the second invariant.
LEMMA PlaceOK == PlaceInv /\ IInv /\ [Next]_vars => PlaceInv'
<1> SUFFICES ASSUME PlaceInv, IInv, [Next]_vars
             PROVE  PlaceInv'
  OBVIOUS
<1>1. CASE CallScan
  BY <1>1, CallScanKeepsPlace
<1>2. CASE CallReplace
  BY <1>2, CallReplaceKeepsPlace
<1>3. CASE FastScan
  BY <1>3, FastScanKeepsPlace
<1>4. CASE FastScanEnds
  BY <1>4, FastScanEndsKeepsPlace
<1>5. CASE ScanByte
  BY <1>5, ScanByteKeepsPlace
<1>6. CASE DoAgain
  BY <1>6, DoAgainKeepsPlace
<1>7. CASE ReplaceCharacter
  BY <1>7, ReplaceCharacterKeepsPlace
<1>8. CASE Leave
  BY <1>8, LeaveKeepsPlace
<1>9. CASE Return
  BY <1>9 DEF Return, PlaceInv, Running, Init
<1>10. CASE UNCHANGED vars
  <2>1. UNCHANGED <<pc, call, table, text, src, state, e, olen, out, copystart, map>>
    BY <1>10 DEF vars
  <2>2. UNCHANGED <<Chars, From, Char, Running>>
    BY <2>1 DEF Chars, From, Char, Running
  <2>3. UNCHANGED <<Start, Pending>>
    BY <2>1, <2>2 DEF Start, Pending
  <2>4. Init => Init'
    BY <2>1 DEF Init
  <2>5. SeenInv => SeenInv'
    BY <2>1, <2>2, <2>3 DEF SeenInv
  <2>6. ExitInv => ExitInv'
    BY <2>1, <2>2 DEF ExitInv, Fits
  <2>7. \A k : AtBorder(k)' <=> AtBorder(k)
    BY <2>1, <2>3 DEF AtBorder, Written, Entered
  <2>8. \A k : NoRoomFor(k)' <=> NoRoomFor(k)
    BY <2>1, <2>2 DEF NoRoomFor
  <2>9. ScansLongest => ScansLongest'
    BY <2>1, <2>2 DEF ScansLongest
  <2>10. ReplacesCharacters => ReplacesCharacters'
    BY <2>1, <2>2, <2>8 DEF ReplacesCharacters
  <2>11. MapDescribes => MapDescribes'
    BY <2>1, <2>2 DEF MapDescribes
  <2>12. DoneInv => DoneInv'
    BY <2>1, <2>9, <2>10, <2>11 DEF DoneInv
  <2>13. (\E k \in 0 .. Len(Chars) : AtBorder(k)) => (\E k \in 0 .. Len(Chars) : AtBorder(k))'
    BY <2>2, <2>7
  <2> QED
    BY <2>1, <2>2, <2>4, <2>5, <2>6, <2>12, <2>13 DEF PlaceInv
<1> QED
  BY <1>1, <1>2, <1>3, <1>4, <1>5, <1>6, <1>7, <1>8, <1>9, <1>10 DEF Next, Interpret

\* Hence both invariants hold in every state.
LEMMA PlaceHolds == Spec => [](PlaceInv /\ IInv)
<1>1. Init => PlaceInv /\ IInv
  BY InitOK DEF Init, PlaceInv, Running
<1>2. PlaceInv /\ IInv /\ [Next]_vars => (PlaceInv /\ IInv)'
  BY PlaceOK, NextOK
<1> QED
  BY <1>1, <1>2, PTL DEF Spec

-----------------------------------------------------------------------------
(* What the second invariant says *)

\* Every variable keeps its type, and neither going back over continuation
\* bytes nor giving back what was copied leads out of the text or the buffer.
THEOREM TableTypesHold == Spec => []TypeOK
<1>1. PlaceInv /\ IInv => TypeOK
  <2> SUFFICES ASSUME PlaceInv, IInv PROVE TypeOK
    OBVIOUS
  <2>1. /\ pc \in {"idle", "fast", "bytes", "exit", "done"}
        /\ call \in {"scan", "replace"}
    BY DEF PlaceInv
  <2>2. Len(<<>>) = 0
    OBVIOUS
  <2>3. CASE pc = "idle"
    BY <2>2, <2>3 DEF PlaceInv, Init, TypeOK
  <2>4. CASE pc = "done"
    BY <2>1, <2>4 DEF PlaceInv, DoneInv, TypeOK
  <2>5. CASE Running
    <3>1. SeenInv /\ pc \in {"fast", "bytes", "exit"}
      BY <2>5 DEF PlaceInv, Running
    <3>2. /\ table \in Tables /\ src \in 0 .. Len(text) /\ text \in Seq(Bytes)
          /\ IF call = "scan" THEN out = <<>> /\ olen = 0 /\ copystart = 0
                              ELSE copystart \in 0 .. Start
      BY <3>1 DEF SeenInv
    <3>3. Start <= src /\ Start \in Nat
      <4>1. CASE pc = "fast"
        <5>1. From = src /\ state.seen = <<>>
          BY <3>1, <4>1 DEF From, SeenInv
        <5>2. Start = src
          BY <3>2, <5>1, NothingSeen DEF StartsAt
        <5> QED
          BY <3>2, <5>2
      <4>2. CASE pc \in {"bytes", "exit"}
        <5>1. Start \in 0 .. src
          BY <3>1, <4>2, BackUpIs DEF PlaceInv, ExitInv
        <5> QED
          BY <3>2, <5>1
      <4> QED
        BY <3>1, <4>1, <4>2
    <3>4. copystart \in 0 .. src
      BY <3>2, <3>3
    <3>5. e \in {"next", "again", "replace", "reject", "illegal", "ok", "full"}
      BY <3>1 DEF PlaceInv, SeenInv, ExitInv
    <3>6. Len(out) <= olen
      BY <2>1, <2>2, <3>1, <3>2 DEF IInv, Copying
    <3> QED
      BY <2>1, <3>2, <3>4, <3>5, <3>6 DEF TypeOK
  <2> QED
    BY <2>1, <2>3, <2>4, <2>5 DEF Running
<1> QED
  BY <1>1, PlaceHolds, PTL

\* A scan ends behind the longest run of accepted characters and says why,
\* whatever its two loops read and however often it was sent back.
THEOREM ScansAreLongest == Spec => []ScansLongest
<1>1. PlaceInv => ScansLongest
  BY DEF PlaceInv, DoneInv, ScansLongest
<1> QED
  BY <1>1, PlaceHolds, PTL

\* What was consumed are whole characters and what was written are just their
\* replacements, and a call gives up for room only when there is none.
THEOREM ReplacementsAreWhole == Spec => []ReplacesCharacters
<1>1. PlaceInv => ReplacesCharacters
  BY DEF PlaceInv, DoneInv, ReplacesCharacters
<1> QED
  BY <1>1, PlaceHolds, PTL

\* The map made of copies and replacements put together is that of the
\* characters one by one.
THEOREM MapIsOfCharacters == Spec => []MapDescribes
<1>1. PlaceInv => MapDescribes
  BY DEF PlaceInv, DoneInv, MapDescribes
<1> QED
  BY <1>1, PlaceHolds, PTL

=============================================================================
