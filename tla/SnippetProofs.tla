---------------------------- MODULE SnippetProofs ----------------------------
(***************************************************************************)
(* The invariants of SnippetSelect, proved for all texts, for every        *)
(* max_num_bytes and for every number of snippets.                         *)
(***************************************************************************)
EXTENDS SnippetSelect, TLAPS

\* A quotient rounds down.
LEMMA Quotient ==
  ASSUME NEW a \in Nat, NEW b \in Nat \ {0}
  PROVE  a \div b \in Nat /\ b * (a \div b) <= a
  OBVIOUS

\* What the constructor makes of the parameters: the shares fit in the maximum.
LEMMA Constructed ==
  /\ num_snippets \in Nat \ {0}
  /\ snippet_size \in Nat
  /\ num_snippets * snippet_size <= max_num_bytes
<1>1. num_snippets \in Nat \ {0}
  BY SnippetAssumption DEF num_snippets
<1> QED
  BY <1>1, Quotient, SnippetAssumption DEF snippet_size

\* The shares of a text of s bytes fit in it, one and all.
LEMMA Shares ==
  ASSUME NEW s \in Nat, s > max_num_bytes,
         NEW q, q = (s - max_num_bytes) \div (num_snippets + 1)
  PROVE  /\ q \in Nat
         /\ num_snippets * (q + snippet_size) <= s
<1> DEFINE n == num_snippets
           p == snippet_size
           r == s - max_num_bytes
<1>1. /\ n \in Nat \ {0} /\ p \in Nat /\ n * p <= max_num_bytes
      /\ max_num_bytes \in Nat
  BY Constructed, SnippetAssumption
<1>2. r \in Nat /\ n + 1 \in Nat \ {0} /\ s = r + max_num_bytes
  BY <1>1
<1>3. q \in Nat /\ (n + 1) * q <= r
  BY <1>2, Quotient
<1>4. n * (q + p) = n * q + n * p /\ (n + 1) * q = n * q + q
  BY <1>1, <1>3
<1>5. n * q \in Nat /\ n * p \in Nat
  BY <1>1, <1>3
<1> HIDE DEF n, p, r
<1>6. n * (q + p) <= s
  BY <1>1, <1>2, <1>3, <1>4, <1>5
<1> QED
  BY <1>3, <1>6 DEF n, p

-----------------------------------------------------------------------------
(***************************************************************************)
(* The inductive invariant.  While snippets are taken there is one for     *)
(* every turn, the last one ends at snippet_end, where a character begins, *)
(* and i shares of the text have been used at most.                        *)
(***************************************************************************)
Taken ==
  text.size > max_num_bytes =>
    /\ Len(snippets) = i
    /\ snippet_end \in text.starts
    /\ snippet_end <= i * (num_skip_bytes + snippet_size)
    /\ \A j \in 1 .. Len(snippets) : snippets[j].end <= snippet_end

ShortTaken ==
  text.size <= max_num_bytes => Len(snippets) <= 1

Fresh == pc = "select" => text.size > max_num_bytes \/ snippets = <<>>

IInv == TypeOK /\ Taken /\ ShortTaken /\ Fresh /\ SnippetsApart /\ WithinShare

\* The invariant holds where nothing was taken yet.
LEMMA Start ==
  ASSUME IsText(text), pc \in {"idle", "select", "done"},
         i = 0, snippet_end = 0, snippets = <<>>
  PROVE  IInv
<1>1. TypeOK
  BY Constructed DEF TypeOK
<1>2. 0 * (num_skip_bytes + snippet_size) = 0 \/ text.size <= max_num_bytes
  <2>1. CASE text.size > max_num_bytes
    <3>1. num_skip_bytes \in Nat
      BY <2>1, Shares DEF num_skip_bytes, IsText
    <3> QED
      BY <3>1, Constructed
  <2> QED
    BY <2>1, SnippetAssumption DEF IsText
<1>3. Taken
  BY <1>2, SnippetAssumption DEF Taken, IsText
<1>4. ShortTaken /\ Fresh /\ SnippetsApart
  BY DEF ShortTaken, Fresh, SnippetsApart
<1>5. WithinShare
  BY Constructed, SnippetAssumption DEF WithinShare
<1> QED
  BY <1>1, <1>3, <1>4, <1>5 DEF IInv


\* The same of a state that follows one: a call begins, or is over.
LEMMA StartNext ==
  ASSUME IsText(text'), pc' \in {"idle", "select", "done"},
         i' = 0, snippet_end' = 0, snippets' = <<>>
  PROVE  IInv'
<1>1. TypeOK'
  BY Constructed DEF TypeOK, num_snippets
<1>2. text.size' > max_num_bytes => num_skip_bytes' \in Nat
  BY Shares DEF num_skip_bytes, num_snippets, IsText
<1>3. Taken'
  BY <1>2, Constructed, SnippetAssumption
  DEF Taken, IsText, snippet_size, num_snippets
<1>4. ShortTaken' /\ Fresh' /\ SnippetsApart'
  BY DEF ShortTaken, Fresh, SnippetsApart
<1>5. WithinShare'
  BY Constructed, SnippetAssumption DEF WithinShare, snippet_size, num_snippets
<1> QED
  BY <1>1, <1>3, <1>4, <1>5 DEF IInv

\* No text is a text.
LEMMA NoTextOK == IsText(NoText)
  BY DEF IsText, NoText

\* The invariant holds before the first call.
LEMMA InitInv == Init => IInv
  BY Start, NoTextOK DEF Init

\* A text that is short enough is taken as a whole.
LEMMA TakeAllInv == IInv /\ TakeAll => IInv'
<1> SUFFICES ASSUME IInv, TakeAll
             PROVE  IInv'
  OBVIOUS
<1>1. IsText(text) /\ text.size \in Nat /\ {0, text.size} \subseteq text.starts
  BY DEF IInv, TypeOK, IsText
<1>2. /\ text' = text /\ i' = i /\ snippet_end' = snippet_end /\ pc' = "done"
      /\ snippets' = <<[begin |-> 0, end |-> text.size]>>
      /\ text.size <= max_num_bytes
  BY DEF TakeAll
<1>3. /\ Len(snippets') = 1 /\ snippets'[1] = [begin |-> 0, end |-> text.size]
      /\ snippets' \in Seq([begin : Nat, end : Nat])
  BY <1>1, <1>2
<1>4. TypeOK'
  BY <1>1, <1>2, <1>3 DEF IInv, TypeOK, num_snippets
<1>5. ~ (text'.size > max_num_bytes)
  BY <1>1, <1>2, SnippetAssumption
<1>6. Taken' /\ WithinShare' /\ ShortTaken' /\ Fresh'
  BY <1>2, <1>3, <1>5 DEF Taken, WithinShare, ShortTaken, Fresh
<1>7. SnippetsApart'
  BY <1>1, <1>2, <1>3 DEF SnippetsApart
<1> QED
  BY <1>4, <1>6, <1>7 DEF IInv

\* A snippet more: it begins and ends where a character does, behind the one
\* before, and uses no more than one share of the text.
LEMMA TakeSnippetInv == IInv /\ TakeSnippet => IInv'
<1> SUFFICES ASSUME IInv, TakeSnippet
             PROVE  IInv'
  OBVIOUS
<1> DEFINE n == num_snippets
           p == snippet_size
           q == num_skip_bytes
<1>1. PICK skip \in 0 .. num_skip_bytes, size \in 0 .. snippet_size :
        /\ IsSpanValid(snippet_end, num_skip_bytes, skip)
        /\ IsSpanValid(snippet_end + skip, snippet_size, size)
        /\ snippet_end' = snippet_end + skip + size
        /\ snippets' = Append(snippets, [begin |-> snippet_end + skip,
                                         end   |-> snippet_end + skip + size])
  BY DEF TakeSnippet
<1> DEFINE b == snippet_end + skip
           e == snippet_end + skip + size
           s == [begin |-> b, end |-> e]
<1>2. /\ text' = text /\ i' = i + 1 /\ pc' = pc /\ pc = "select"
      /\ text.size > max_num_bytes /\ i < n /\ snippet_end' = e
      /\ snippets' = Append(snippets, s)
  BY <1>1 DEF TakeSnippet, MoreSnippets
<1>3. /\ IsText(text) /\ text.size \in Nat /\ i \in 0 .. n /\ snippet_end \in Nat
      /\ snippets \in Seq([begin : Nat, end : Nat])
      /\ Len(snippets) = i /\ snippet_end <= i * (q + p)
      /\ snippet_end \in text.starts
      /\ \A j \in 1 .. Len(snippets) : snippets[j].end <= snippet_end
  BY <1>2 DEF IInv, TypeOK, Taken, IsText
<1>4. /\ n \in Nat \ {0} /\ p \in Nat /\ q \in Nat /\ n * p <= max_num_bytes
      /\ max_num_bytes \in Nat
  BY <1>2, <1>3, Constructed, Shares, SnippetAssumption DEF num_skip_bytes
<1>5. /\ skip \in Nat /\ size \in Nat /\ skip <= q /\ size <= p
      /\ b \in Nat /\ e \in Nat /\ snippet_end <= b /\ b <= e
      /\ b \in text.starts /\ e \in text.starts
      /\ e - b <= p /\ e <= snippet_end + (q + p)
  BY <1>1, <1>3, <1>4 DEF IsSpanValid
<1>6. /\ n' = n /\ p' = p /\ q' = q
  BY <1>2 DEF num_snippets, snippet_size, num_skip_bytes
<1> DEFINE t == Append(snippets, s)
<1>7. /\ Len(t) = i + 1
      /\ t \in Seq([begin : Nat, end : Nat])
      /\ \A j \in 1 .. i : t[j] = snippets[j] /\ snippets[j] \in [begin : Nat, end : Nat]
      /\ t[i + 1] = s
  <2>1. s \in [begin : Nat, end : Nat]
    BY <1>5
  <2> DEFINE Snippet == [begin : Nat, end : Nat]
  <2>2. snippets \in Seq(Snippet) /\ s \in Snippet /\ i = Len(snippets)
    BY <2>1, <1>3
  <2> HIDE DEF Snippet, s
  <2>3. /\ Len(t) = i + 1 /\ t \in Seq(Snippet) /\ t[i + 1] = s
        /\ \A j \in 1 .. i : t[j] = snippets[j]
    BY <2>2
  <2>4. \A j \in 1 .. i : snippets[j] \in Snippet
    BY <2>2
  <2> QED
    BY <2>3, <2>4 DEF Snippet
<1>8. s.begin = b /\ s.end = e /\ i \in Nat
  BY <1>3, <1>4
<1>9. i + 1 \in 0 .. n /\ (i + 1) * p <= max_num_bytes
      /\ (i + 1) * (q + p) = i * (q + p) + (q + p)
  <2>1. i \in Nat /\ i + 1 <= n
    BY <1>2, <1>3, <1>4
  <2>2. (i + 1) * p <= n * p
    BY <2>1, <1>4
  <2>3. (i + 1) * (q + p) = i * (q + p) + (q + p)
    BY <2>1, <1>4
  <2>4. (i + 1) * p \in Nat /\ n * p \in Nat
    BY <2>1, <1>4
  <2>5. (i + 1) * p <= max_num_bytes
    BY <2>2, <2>4, <1>4
  <2> QED
    BY <2>1, <2>3, <2>5, <1>4
<1>10. e <= (i + 1) * (q + p)
  <2>1. i * (q + p) \in Nat
    BY <1>3, <1>4
  <2> DEFINE w == i * (q + p)
             w1 == (i + 1) * (q + p)
  <2>2. w \in Nat /\ w1 = w + (q + p) /\ snippet_end <= w
    BY <2>1, <1>9, <1>3
  <2> HIDE DEF w, w1, b, e, n, p, q
  <2>3. e <= w1
    BY <2>2, <1>3, <1>4, <1>5
  <2> QED
    BY <2>3 DEF w1
<1> HIDE DEF n, p, q, b, e, s, t
<1>11. snippets' = t
  BY <1>2 DEF t
<1>12. \A j \in 1 .. i :
         /\ t[j] = snippets[j]
         /\ snippets[j].begin \in Nat /\ snippets[j].end \in Nat
         /\ snippets[j].end <= snippet_end
  BY <1>3, <1>7
<1>13. \A j \in 1 .. i + 1 : j \in 1 .. i \/ j = i + 1
  BY <1>8
<1>14. t[i + 1].begin = b /\ t[i + 1].end = e
  BY <1>7, <1>8
<1>15. TypeOK'
  BY <1>2, <1>3, <1>5, <1>6, <1>7, <1>9, <1>11 DEF TypeOK, IInv, n
<1>16. Taken'
  <2>1. \A j \in 1 .. i + 1 : t[j].end <= e
    <3>1. \A j \in 1 .. i : t[j].end <= e
      BY <1>3, <1>5, <1>12
    <3> QED
      BY <3>1, <1>5, <1>13, <1>14
  <2> QED
    BY <2>1, <1>2, <1>5, <1>6, <1>7, <1>10, <1>11 DEF Taken, q, p
<1>17. ShortTaken' /\ Fresh'
  BY <1>2, <1>3, <1>4 DEF ShortTaken, Fresh
<1>18. SnippetsApart'
  <2>1. \A j \in 1 .. i + 1 :
          /\ t[j].begin <= t[j].end
          /\ {t[j].begin, t[j].end} \subseteq text.starts
    <3>1. \A j \in 1 .. i :
            /\ t[j].begin <= t[j].end
            /\ {t[j].begin, t[j].end} \subseteq text.starts
      BY <1>3, <1>12 DEF IInv, SnippetsApart
    <3> QED
      BY <3>1, <1>5, <1>13, <1>14
  <2>2. \A j, k \in 1 .. i + 1 : j < k => t[j].end <= t[k].begin
    <3>1. \A j \in 1 .. i : t[j].end <= t[i + 1].begin
      <4>1. snippet_end \in Nat /\ b \in Nat /\ snippet_end <= b
        BY <1>3, <1>5
      <4>2. \A j \in 1 .. i : t[j].end \in Nat /\ t[j].end <= snippet_end
        BY <1>12
      <4> QED
        BY <4>1, <4>2, <1>14
    <3>2. \A j, k \in 1 .. i : j < k => t[j].end <= t[k].begin
      BY <1>3, <1>12 DEF IInv, SnippetsApart
    <3> QED
      BY <3>1, <3>2, <1>8, <1>13
  <2> QED
    BY <2>1, <2>2, <1>2, <1>7, <1>11 DEF SnippetsApart
<1>19. WithinShare'
  <2>1. \A j \in 1 .. i + 1 :
          /\ t[j].end - t[j].begin <= p
          /\ t[j].end <= j * (q + p)
    <3>1. \A j \in 1 .. i :
            /\ t[j].end - t[j].begin <= p
            /\ t[j].end <= j * (q + p)
      BY <1>2, <1>3, <1>12 DEF IInv, WithinShare, p, q
    <3>2. t[i + 1].end - t[i + 1].begin <= p
      BY <1>5, <1>14
    <3>3. t[i + 1].end <= (i + 1) * (q + p)
      BY <1>10, <1>14
    <3> HIDE DEF q, p
    <3> QED
      BY <3>1, <3>2, <3>3, <1>13
  <2> QED
    BY <2>1, <1>2, <1>6, <1>7, <1>9, <1>11 DEF WithinShare, p, q
<1> QED
  BY <1>15, <1>16, <1>17, <1>18, <1>19 DEF IInv

\* The end of the loop changes no snippet.
LEMMA LoopEndsInv == IInv /\ LoopEnds => IInv'
  BY DEF IInv, LoopEnds, TypeOK, Taken, ShortTaken, Fresh, SnippetsApart,
         WithinShare, num_snippets, snippet_size, num_skip_bytes, IsText

\* Every step keeps the invariant.
LEMMA NextInv == IInv /\ [Next]_vars => IInv'
<1> SUFFICES ASSUME IInv, [Next]_vars
             PROVE  IInv'
  OBVIOUS
<1>1. CASE Call
  BY <1>1, StartNext, SnippetAssumption DEF Call
<1>2. CASE TakeAll
  BY <1>2, TakeAllInv
<1>3. CASE TakeSnippet
  BY <1>3, TakeSnippetInv
<1>4. CASE LoopEnds
  BY <1>4, LoopEndsInv
<1>5. CASE Return
  BY <1>5, StartNext, NoTextOK DEF Return
<1>6. CASE UNCHANGED vars
  BY <1>6 DEF vars, IInv, TypeOK, Taken, ShortTaken, Fresh, SnippetsApart,
              WithinShare, num_snippets, snippet_size, num_skip_bytes, IsText
<1> QED
  BY <1>1, <1>2, <1>3, <1>4, <1>5, <1>6 DEF Next

\* Hence it holds in every state.
LEMMA Invariance == Spec => []IInv
  BY InitInv, NextInv, PTL DEF Spec

\* What ReadsInText says follows from the shares used so far.
LEMMA InvReadsInText == IInv => ReadsInText
<1> SUFFICES ASSUME IInv, pc = "select", text.size > max_num_bytes
             PROVE  /\ snippet_end <= text.size
                    /\ i < num_snippets =>
                         snippet_end + num_skip_bytes + snippet_size <= text.size
  BY DEF ReadsInText
<1> DEFINE n == num_snippets
           w == num_skip_bytes + snippet_size
<1>1. /\ text.size \in Nat /\ i \in 0 .. n /\ snippet_end \in Nat
      /\ snippet_end <= i * w
  BY DEF IInv, TypeOK, Taken, IsText
<1>2. n \in Nat \ {0} /\ snippet_size \in Nat
  BY Constructed
<1>3. num_skip_bytes \in Nat /\ n * w <= text.size
  BY <1>1, Shares DEF num_skip_bytes
<1>4. w \in Nat /\ w = num_skip_bytes + snippet_size
  BY <1>2, <1>3
<1> HIDE DEF n, w
<1>5. i \in Nat /\ i <= n
  BY <1>1, <1>2
<1>6. i * w <= n * w /\ i * w \in Nat /\ n * w \in Nat
  BY <1>2, <1>4, <1>5
<1>7. i < n => (i + 1) * w <= n * w /\ (i + 1) * w = i * w + w
  BY <1>2, <1>4, <1>5
<1>8. snippet_end <= text.size
  BY <1>1, <1>3, <1>6
<1>9. i < n => snippet_end + w <= text.size
  BY <1>1, <1>3, <1>4, <1>6, <1>7
<1> QED
  BY <1>1, <1>2, <1>3, <1>4, <1>8, <1>9 DEF n

\* Every variable keeps its type, in particular the snippets stay pairs of
\* offsets and the loop makes no more turns than there are snippets.
THEOREM SnippetsTypeCorrect == Spec => []TypeOK
  BY Invariance, PTL DEF IInv

\* The loop that takes snippets reads only inside the text.
THEOREM SnippetsReadInText == Spec => []ReadsInText
  BY Invariance, InvReadsInText, PTL

\* Snippets are disjoint, ordered and made of whole characters.
THEOREM SnippetsDisjoint == Spec => []SnippetsApart
  BY Invariance, PTL DEF IInv

\* Snippets stay within their shares, and in all within max_num_bytes.
THEOREM SnippetsWithinShare == Spec => []WithinShare
  BY Invariance, PTL DEF IInv

=============================================================================
