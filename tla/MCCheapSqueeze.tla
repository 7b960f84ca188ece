--------------------------- MODULE MCCheapSqueeze ---------------------------
(***************************************************************************)
(* CheapSqueeze on texts made of words: an empty one (which gives runs of  *)
(* spaces), one- and two-byte characters, a word as long as a scan may go, *)
(* and one that is longer than a scan for a space and ends in a three-byte *)
(* character.                                                              *)
(***************************************************************************)
EXTENDS CheapSqueeze, Sequences, SequencesExt

CONSTANT MaxWords   \* words in a text

Words ==
  { <<>>, <<"ascii">>, <<"lead", "cont">>,
    <<"ascii", "ascii", "lead", "cont", "ascii">>,
    <<"ascii", "ascii", "ascii", "ascii", "lead", "cont", "cont">> }

WordWithSpace(word) == word \o <<"space">>

\* The classes of a text's bytes: a space, and each word with its space.
Bytes(words) ==
  <<"space">> \o FlattenSeq([i \in DOMAIN words |-> WordWithSpace(words[i])])

\* A text as CheapSqueezeInplace gets it, with pad spaces and a NUL behind it.
TextOf(words, pad) ==
  LET classes == Bytes(words)
      n       == Len(classes)
      padded  == classes \o [i \in 1 .. pad |-> "space"] \o <<"nul">>
  IN  [n |-> n, pad |-> pad,
       bytes |-> [i \in 0 .. n + pad |-> [c |-> padded[i+1], at |-> i]]]

MCTexts ==
  { TextOf(words, pad) : words \in UNION {[1..k -> Words] : k \in 1..MaxWords},
                         pad \in {0, 3} }

DefaultOnly == {0}
=============================================================================
