--------------------------- MODULE MCScriptScanner ---------------------------
(***************************************************************************)
(* ScriptScanner on all texts of a few characters of the kinds below.      *)
(***************************************************************************)
EXTENDS ScriptScanner

CONSTANT MaxChars   \* characters in a text

Kind(script, bytes, lower) == [script |-> script, bytes |-> bytes, lower |-> lower]

\* a, a letter of two bytes whose lower case has three, a letter of four
\* bytes of another script, one of three bytes whose lower case has one, a
\* mark and a non-letter.
Kinds ==
  { Kind("A", 1, 1), Kind("A", 2, 3), Kind("B", 4, 4), Kind("B", 3, 1),
    Kind(Inherited, 2, 2), Kind(Common, 1, 1) }

OffsetIn(kinds, i) ==
  LET Bytes(k) == kinds[k].bytes IN MapThenSumSet(Bytes, 1 .. i - 1)

TextOf(kinds, beyond) ==
  LET n == Len(kinds)
      at == [i \in 1..n |-> OffsetIn(kinds, i)]
  IN  [length |-> OffsetIn(kinds, n + 1),
       beyond |-> beyond,
       chars |-> [o \in {at[i] : i \in 1..n} |->
                    kinds[CHOOSE i \in 1..n : at[i] = o]]]

Strings(kinds) == UNION {[1..n -> kinds] : n \in 0..MaxChars}

MCTexts == { TextOf(s, beyond) : s \in Strings(Kinds), beyond \in {Common, "B"} }

LowerOnly == {"lower"}
BothCalls == {"plain", "lower"}
=============================================================================
