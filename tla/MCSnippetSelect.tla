--------------------------- MODULE MCSnippetSelect ---------------------------
(***************************************************************************)
(* SnippetSelect on texts of characters of one to three bytes in all       *)
(* orders.                                                                 *)
(***************************************************************************)
EXTENDS SnippetSelect

CONSTANTS MaxSize, MaxWidth   \* bytes of a text and of a character

Boundaries(size) == {s \in SUBSET (0 .. size) : {0, size} \subseteq s}

\* No character is wider than MaxWidth bytes.
NoWideChar(starts, size) ==
  \A o \in 0 .. size - MaxWidth : \E k \in 1 .. MaxWidth : o + k \in starts

MCTexts ==
  UNION { {[size |-> n, starts |-> s] : s \in {b \in Boundaries(n) : NoWideChar(b, n)}}
          : n \in 0 .. MaxSize }

=============================================================================
