---------------------------- MODULE MCStateTable ----------------------------
(***************************************************************************)
(* Three small tables of the kinds of the program: one that accepts what   *)
(* is interchange valid (exit optimized, and given any bytes), one that    *)
(* stops at letters, and one that puts into lower case.  "u" is a capital, *)
(* "l" a small letter, "o" another one-byte character, "t" a tab; "2" and  *)
(* "3" begin characters of so many bytes, "c" and "d" continue them.       *)
(***************************************************************************)
EXTENDS StateTable

CONSTANTS
  MaxPieces,   \* pieces in a text that is to be checked
  MaxChars     \* characters in a text that is valid

MCBytes == {"u", "l", "o", "t", "2", "3", "c", "d"}
MCCont == {"c", "d"}

One == {<<"o">>, <<"t">>}
Three == {<<"3", x, y>> : x, y \in MCCont}

Interchange ==
  [keeps |-> One \cup (Three \ {<<"3", "d", "d">>}), rejects |-> {<<"3", "d", "d">>},
   lower |-> <<>>, checked |-> {}, repeats |-> 2,
   fast |-> {"o"}, slow |-> {"u", "l", "2", "3", "c", "d"}]

Letters ==
  [keeps |-> One \cup {<<"2", "c">>}, rejects |-> {<<"u">>, <<"2", "d">>} \cup Three,
   lower |-> <<>>, checked |-> {}, repeats |-> 0,
   fast |-> {"o"}, slow |-> {"u", "l", "2", "3", "c", "d"}]

\* Shorter by one and by two, equal, and longer; the last two by remap_base.
Lower ==
  [keeps |-> One \cup {<<"2", "c">>, <<"3", "c", "c">>}, rejects |-> {},
   lower |-> (<<"u">> :> <<"l">>) @@ (<<"3", "c", "d">> :> <<"2", "c">>)
             @@ (<<"3", "d", "c">> :> <<"l">>)
             @@ (<<"3", "d", "d">> :> <<"3", "c", "c">>)
             @@ (<<"2", "d">> :> <<"3", "c", "c">>),
   checked |-> {<<"3", "d", "d">>, <<"2", "d">>},
   repeats |-> 0, fast |-> {}, slow |-> {}]

MCTables == {Interchange, Letters, Lower}

TextsOf(pieces, n) == {FlattenSeq(seq) : seq \in UNION {[1 .. k -> pieces] : k \in 0 .. n}}

\* Characters, and bytes that are none: any of them may be the last.
AnyPieces == One \cup {<<"3", "c", "d">>, <<"3", "d", "d">>, <<"3">>, <<"c">>}

\* The other tables assume structurally valid text; the last of its characters
\* may be cut off.
CutOff(texts) == UNION {{SubSeq(t, 1, k) : k \in {Len(t) - 1, Len(t)} \cap Nat} : t \in texts}

MCTexts ==
  [t \in MCTables |-> IF t = Interchange THEN TextsOf(AnyPieces, MaxPieces)
                                         ELSE CutOff(TextsOf(Characters(t), MaxChars))]

MCRooms == {-1, 0, 1, 3}
=============================================================================
