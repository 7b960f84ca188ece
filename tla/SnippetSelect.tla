---------------------------- MODULE SnippetSelect ----------------------------
(***************************************************************************)
(* SelectTextGivenBeginAndSize of the class NNetLanguageIdentifier         *)
(* (src/src/nnet_language_identifier.cc): a text that is longer than the   *)
(* network is to be shown is replaced by snippets taken from all over it.  *)
(*                                                                         *)
(* A text is its length and where its characters begin.  An action is one  *)
(* turn of the loop over the snippets.                                     *)
(***************************************************************************)
EXTENDS Integers, Sequences, FiniteSetsExt

CONSTANTS
  Texts,          \* the texts that may be handed in
  max_num_bytes,  \* what the object was constructed with
  kNumSnippets    \* snippets taken from a text: 5

\* Characters begin at the offsets in starts; the end of the text counts.
IsText(t) ==
  /\ t.size \in Nat
  /\ t.starts \subseteq 0 .. t.size
  /\ {0, t.size} \subseteq t.starts

ASSUME SnippetAssumption ==
  /\ \A t \in Texts : IsText(t)
  /\ max_num_bytes \in Nat \ {0} /\ kNumSnippets \in Nat \ {0}

VARIABLES
  pc,           \* "idle", "select", "done"
  text,
  i,
  snippet_end,
  snippets      \* what has been appended to the output, a space behind each

vars == <<pc, text, i, snippet_end, snippets>>

-----------------------------------------------------------------------------
\* num_snippets_ and snippet_size_ are set once, by the constructor.
num_snippets == IF max_num_bytes <= kNumSnippets THEN 1 ELSE kNumSnippets
\* Mutant: rounds up.
snippet_size_up == (max_num_bytes + num_snippets - 1) \div num_snippets

snippet_size == max_num_bytes \div num_snippets

\* Mutant: spreads the snippets as if they took no bytes.
num_skip_bytes_all == text.size \div (num_snippets + 1)

\* Number of bytes between the snippets.
num_skip_bytes == (text.size - max_num_bytes) \div (num_snippets + 1)

\* Mutant: may split a character.
IsSpan(from, len, n) == n = len

\* Is n what SpanInterchangeValid returns for len bytes of the text, which is
\* valid: the longest prefix that does not split a character?
IsSpanValid(from, len, n) ==
  /\ n \in 0 .. len
  /\ from + n \in text.starts
  /\ \A k \in n + 1 .. len : from + k \notin text.starts

NoText == [size |-> 0, starts |-> {0}]

Init ==
  /\ pc = "idle"
  /\ text = NoText
  /\ i = 0 /\ snippet_end = 0 /\ snippets = <<>>

Call ==
  /\ pc = "idle"
  /\ text' \in Texts
  /\ pc' = "select"
  /\ i' = 0 /\ snippet_end' = 0 /\ snippets' = <<>>

\* A text that is short enough is taken as it is.
TakeAll ==
  /\ pc = "select" /\ text.size <= max_num_bytes
  /\ snippets' = <<[begin |-> 0, end |-> text.size]>>
  /\ pc' = "done"
  /\ UNCHANGED <<text, i, snippet_end>>

MoreSnippets == i < num_snippets

TakeSnippet ==
  /\ pc = "select" /\ text.size > max_num_bytes /\ MoreSnippets
  /\ \E skip \in 0 .. num_skip_bytes, size \in 0 .. snippet_size :
       /\ IsSpanValid(snippet_end, num_skip_bytes, skip)
       /\ IsSpanValid(snippet_end + skip, snippet_size, size)
       /\ snippet_end' = snippet_end + skip + size
       /\ snippets' = Append(snippets, [begin |-> snippet_end + skip,
                                        end   |-> snippet_end + skip + size])
  /\ i' = i + 1
  /\ UNCHANGED <<pc, text>>

LoopEnds ==
  /\ pc = "select" /\ text.size > max_num_bytes /\ i = num_snippets
  /\ pc' = "done"
  /\ UNCHANGED <<text, i, snippet_end, snippets>>

\* The caller has used the result.
Return ==
  /\ pc = "done"
  /\ pc' = "idle" /\ text' = NoText
  /\ i' = 0 /\ snippet_end' = 0 /\ snippets' = <<>>

Next == Call \/ TakeAll \/ TakeSnippet \/ LoopEnds \/ Return

Spec == Init /\ [][Next]_vars

-----------------------------------------------------------------------------
(* Properties. *)

TypeOK ==
  /\ pc \in {"idle", "select", "done"}
  /\ IsText(text)
  /\ i \in 0 .. num_snippets
  /\ snippet_end \in Nat
  /\ snippets \in Seq([begin : Nat, end : Nat])

\* The loop has no check against the end of the text.  It needs none: before
\* every turn the bytes that the two scans may look at lie in the text, for
\* all the roundings of the divisions by the number of snippets.
ReadsInText ==
  (pc = "select" /\ text.size > max_num_bytes) =>
    /\ snippet_end <= text.size
    /\ i < num_snippets =>
         snippet_end + num_skip_bytes + snippet_size <= text.size

\* Snippets are disjoint, in the order of the text, and cut no character.
SnippetsApart ==
  /\ \A j \in 1 .. Len(snippets) :
       /\ snippets[j].begin <= snippets[j].end
       /\ {snippets[j].begin, snippets[j].end} \subseteq text.starts
  /\ \A j, k \in 1 .. Len(snippets) :
       j < k => snippets[j].end <= snippets[k].begin

\* Each snippet ends within its share of the text, and no more than
\* max_num_bytes_ bytes are taken in all: the output is at most that long,
\* but for the space behind each snippet.
WithinShare ==
  text.size > max_num_bytes =>
    /\ Len(snippets) * snippet_size <= max_num_bytes
    /\ \A j \in 1 .. Len(snippets) :
         /\ snippets[j].end - snippets[j].begin <= snippet_size
         /\ snippets[j].end <= j * (num_skip_bytes + snippet_size)

=============================================================================
