------------------------ MODULE MCLanguageIdentifier ------------------------
(***************************************************************************)
(* LanguageIdentifier on texts of a few letters of two scripts, with a     *)
(* letter that grows in lower case, and non-letters.                       *)
(***************************************************************************)
EXTENDS LanguageIdentifier

CONSTANT MaxChars   \* characters in a text

Kind(script, bytes, lower) == [script |-> script, bytes |-> bytes, lower |-> lower]

Kinds == { Kind("A", 1, 1), Kind("B", 2, 3), Kind(Common, 1, 1) }

OffsetIn(kinds, i) ==
  LET Bytes(k) == kinds[k].bytes IN MapThenSumSet(Bytes, 1 .. i - 1)

TextOf(kinds) ==
  LET n == Len(kinds)
      at == [i \in 1..n |-> OffsetIn(kinds, i)]
  IN  [length |-> OffsetIn(kinds, n + 1),
       beyond |-> Common,
       chars |-> [o \in {at[i] : i \in 1..n} |->
                    kinds[CHOOSE i \in 1..n : at[i] = o]]]

MCTexts == { TextOf(s) : s \in UNION {[1..n -> Kinds] : n \in 0..MaxChars} }

LowerOnly     == {"lower"}
TwoLanguages  == {1, 2}
MCNumLangs    == {-4, -3, 0, 1, 3}
TopNOnly      == {"FindTopNMostFreqLangs"}
FindOnly      == {"FindLanguage"}
BothFunctions == {"FindLanguage", "FindTopNMostFreqLangs"}
=============================================================================
