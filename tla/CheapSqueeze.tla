---------------------------- MODULE CheapSqueeze ----------------------------
(***************************************************************************)
(* CheapSqueezeInplace of src/src/script_span/text_processing.cc: remove,  *)
(* in place, the chunks of a text that are mostly spaces or repetitive.    *)
(*                                                                         *)
(* One buffer is read at src and written at dst.  An action is one turn of *)
(* the loop over chunks, and one more is the padding after the loop.       *)
(*                                                                         *)
(* A byte of the buffer is a record: c is what the code tells apart (a     *)
(* space, another one-byte character, the first byte of a longer one, a    *)
(* continuation byte, NUL) and "at" is the position the byte had in the    *)
(* text handed in, or Filled for a byte the squeezer wrote by itself.      *)
(***************************************************************************)
EXTENDS Integers, FiniteSets, FiniteSetsExt

CONSTANTS
  Texts,                \* the texts a caller may hand in
  Chunksizes,           \* the values a caller may pass as ichunksize
  kMaxSpaceScan,        \* how far a scan for a space may go: 32 bytes
  kChunksizeDefault,    \* the chunk used for ichunksize 0: 48 bytes
  kSpacesThreshPercent, \* a chunk with this share of spaces is dropped: 30
  kPredictThreshPercent \* a chunk with this share predicted is dropped: 40

Class == {"space", "ascii", "lead", "cont", "nul"}
Filled == -1
Byte == [c : Class, at : Int]

Space == [c |-> "space", at |-> Filled]
Nul   == [c |-> "nul", at |-> Filled]

IsSpace(byte) == byte.c = "space"
IsCont(byte)  == byte.c = "cont"

(***************************************************************************)
(* A text of n bytes of valid UTF-8 that begins with a space, and behind   *)
(* it pad spaces and a NUL: three from ScriptScanner, whose span FindTopN  *)
(* squeezes, none from FindLanguage, which squeezes a vector of its own.   *)
(***************************************************************************)
WellFormed(bytes, n, pad) ==
  /\ bytes \in [0 .. n + pad -> Byte]
  /\ \A i \in 0 .. n + pad : bytes[i].at = i
  /\ IsSpace(bytes[0])
  /\ \A i \in 1 .. n + pad : IsCont(bytes[i]) => bytes[i-1].c \in {"lead", "cont"}
  /\ \A i \in n .. n + pad - 1 : IsSpace(bytes[i])
  /\ bytes[n + pad].c = "nul"

ASSUME TextsAssumption ==
  \A t \in Texts :
    t.n \in Nat \ {0} /\ t.pad \in Nat /\ WellFormed(t.bytes, t.n, t.pad)

ASSUME ParametersAssumption ==
  /\ kMaxSpaceScan \in Nat \ {0}
  /\ kChunksizeDefault \in Nat \ {0}
  /\ kSpacesThreshPercent \in Nat
  /\ kPredictThreshPercent \in Nat
  /\ Chunksizes \subseteq Int

VARIABLES
  pc,        \* "idle", "scan" (in the loop), "pad" (behind it), "done"
  text,      \* the buffer as it was handed in
  src_len,
  chunksize,
  padding,   \* the spaces between the text and its NUL
  buf,       \* the buffer isrc
  src, dst,  \* the two pointers, as offsets from isrc
  skipping

vars == <<pc, text, src_len, chunksize, padding, buf, src, dst, skipping>>

-----------------------------------------------------------------------------
(* The helpers. *)

minint(a, b) == IF a < b THEN a ELSE b

\* Mutant: no default for a chunk size of 0.
ChunksizeAsGiven(ichunksize) == ichunksize

ChunksizeOf(ichunksize) ==
  IF ichunksize = 0 THEN kChunksizeDefault ELSE ichunksize

space_thresh   == (chunksize * kSpacesThreshPercent) \div 100
predict_thresh == (chunksize * kPredictThreshPercent) \div 100

\* The odd bytes at the end of the chunk are not counted.
CountSpaces4(b, s, len) ==
  Cardinality({i \in s .. s + 4 * (len \div 4) - 1 : IsSpace(b[i])})

(***************************************************************************)
(* What CountPredictedBytes may return for a chunk of len bytes.  Its hash *)
(* table is left out: only the comparison with predict_thresh matters, and *)
(* the two ends of the range give both its outcomes.                       *)
(***************************************************************************)
PredictedBytes(len) == {0, len}

\* Mutant: a chunk may end within a character.
IsByteLen(b, s, len) == len = minint(chunksize, src_len - s)

\* Is len the length of the chunk at s: the chunk size or what remains,
\* lengthened past continuation bytes?
IsChunkLen(b, s, len) ==
  LET least == minint(chunksize, src_len - s)
  IN  /\ len >= least
      /\ ~ IsCont(b[s + len])
      /\ \A k \in least .. len - 1 : IsCont(b[s + k])

Droppable(b, s, len, predb_n) ==
  \/ CountSpaces4(b, s, len) >= space_thresh
  \/ predb_n >= predict_thresh

\* The least n of the set S, or the given value when there is none.
LeastOr(S, default) == IF S = {} THEN default ELSE Min(S)

\* How far to step back from d to stand behind a space, or at the start of
\* a character when no space is near.
BackscanToSpace(b, d, lim) ==
  LET limit  == minint(lim, kMaxSpaceScan)
      spaces == {n \in 0 .. limit - 1 : IsSpace(b[d - n - 1])}
      starts == {n \in 0 .. limit - 1 : ~ IsCont(b[d - n])}
  IN  IF spaces # {} THEN Min(spaces) ELSE LeastOr(starts, 0)

\* Mutant: steps to the space instead of behind it.
ForwardscanUpToSpace(b, s, lim) ==
  LET limit  == minint(lim, kMaxSpaceScan)
      spaces == {n \in 0 .. limit - 1 : IsSpace(b[s + n])}
  IN  LeastOr(spaces, 0)

\* How far to step forward from s to stand behind a space, or likewise.
ForwardscanToSpace(b, s, lim) ==
  LET limit  == minint(lim, kMaxSpaceScan)
      spaces == {n \in 0 .. limit - 1 : IsSpace(b[s + n])}
      starts == {n \in 0 .. limit - 1 : ~ IsCont(b[s + n])}
  IN  IF spaces # {} THEN Min(spaces) + 1 ELSE LeastOr(starts, 0)

\* The buffer after memmove of len bytes from position s to position d.
Moved(b, d, s, len) ==
  [i \in DOMAIN b |-> IF i \in d .. d + len - 1 THEN b[i - d + s] ELSE b[i]]

\* Mutants: one byte too far back; and forward instead of back.
DropPointBefore(b, d)  == d - BackscanToSpace(b, d, d) - 1
DropPointForward(b, d) == d + BackscanToSpace(b, d, d)

\* Where the text kept so far ends once a run of dropped chunks begins.
DropPoint(b, d) == d - BackscanToSpace(b, d, d)

\* How much of the chunk at s is dropped before text is kept again.
ResumeSkip(b, s, len) == IF skipping THEN ForwardscanToSpace(b, s, len) ELSE 0

-----------------------------------------------------------------------------
\* No text: only the padding.
NoText == [i \in 0..3 |-> [c |-> IF i = 3 THEN "nul" ELSE "space", at |-> i]]

Init ==
  /\ pc = "idle"
  /\ text = NoText /\ buf = NoText /\ src_len = 0
  /\ padding = 3
  /\ chunksize = kChunksizeDefault
  /\ src = 0 /\ dst = 0
  /\ skipping = FALSE

\* A call: the caller passes a buffer, its length and a chunk size.
Call ==
  /\ pc = "idle"
  /\ \E t \in Texts : text' = t.bytes /\ src_len' = t.n /\ padding' = t.pad
  /\ \E ichunksize \in Chunksizes : chunksize' = ChunksizeOf(ichunksize)
  /\ buf' = text'
  /\ src' = 0 /\ dst' = 0
  /\ skipping' = FALSE
  /\ pc' = "scan"

\* The chunk is dropped.  The first one dropped after kept text moves the
\* end of that text back to a space, and leaves a space at the very front.
DropChunk ==
  /\ pc = "scan" /\ src < src_len
  /\ \E len \in minint(chunksize, src_len - src) .. src_len - src :
       /\ IsChunkLen(buf, src, len)
       /\ \E predb_n \in PredictedBytes(len) : Droppable(buf, src, len, predb_n)
       /\ src' = src + len
  /\ IF skipping
       THEN UNCHANGED <<buf, dst>>
       ELSE LET d == DropPoint(buf, dst)
            IN  IF d = 0
                  THEN buf' = [buf EXCEPT ![0] = Space] /\ dst' = 1
                  ELSE UNCHANGED buf /\ dst' = d
  /\ skipping' = TRUE
  /\ UNCHANGED <<pc, text, src_len, chunksize, padding>>

\* The chunk is kept: after dropped text, from behind its first space on.
KeepChunk ==
  /\ pc = "scan" /\ src < src_len
  /\ \E len \in minint(chunksize, src_len - src) .. src_len - src :
       /\ IsChunkLen(buf, src, len)
       /\ \E predb_n \in PredictedBytes(len) : ~ Droppable(buf, src, len, predb_n)
       /\ LET n == ResumeSkip(buf, src, len)
          IN  /\ buf' = Moved(buf, dst, src + n, len - n)
              /\ dst' = dst + (len - n)
       /\ src' = src + len
  /\ skipping' = FALSE
  /\ UNCHANGED <<pc, text, src_len, chunksize, padding>>

LoopEnds ==
  /\ pc = "scan" /\ src >= src_len
  /\ pc' = "pad"
  /\ UNCHANGED <<text, src_len, chunksize, padding, buf, src, dst, skipping>>

\* Mutant: one space written behind a text that was not shortened.
PaddedBeyond(b, d, n) ==
  IF d < n - 3
    THEN [b EXCEPT ![d] = Space, ![d+1] = Space, ![d+2] = Space, ![d+3] = Nul]
    ELSE IF d <= n THEN [b EXCEPT ![d] = Space] ELSE b

\* The bytes written behind a result that is shorter than the text.
Padded(b, d, n) ==
  IF d < n - 3
    THEN [b EXCEPT ![d] = Space, ![d+1] = Space, ![d+2] = Space, ![d+3] = Nul]
    ELSE IF d < n THEN [b EXCEPT ![d] = Space] ELSE b

Pad ==
  /\ pc = "pad"
  /\ buf' = Padded(buf, dst, src_len)
  /\ pc' = "done"
  /\ UNCHANGED <<text, src_len, chunksize, padding, src, dst, skipping>>

\* The caller has used the result and let go of the buffer.
Return ==
  /\ pc = "done"
  /\ pc' = "idle"
  /\ text' = NoText /\ buf' = NoText /\ src_len' = 0
  /\ padding' = 3
  /\ chunksize' = kChunksizeDefault
  /\ src' = 0 /\ dst' = 0
  /\ skipping' = FALSE

Squeeze == DropChunk \/ KeepChunk \/ LoopEnds \/ Pad

Next == Call \/ Squeeze \/ Return

Spec == Init /\ [][Next]_vars

\* A call runs on its caller's thread until it returns.
Fairness == WF_vars(Squeeze)

FairSpec == Spec /\ Fairness

-----------------------------------------------------------------------------
(* Properties. *)

\* Every variable has its type, and the two pointers stay in the text.
TypeOK ==
  /\ pc \in {"idle", "scan", "pad", "done"}
  /\ src_len \in Nat
  /\ text \in [0 .. src_len + padding -> Byte]
  /\ buf \in [0 .. src_len + padding -> Byte]
  /\ chunksize \in Int /\ padding \in Nat
  /\ src \in 0 .. src_len /\ dst \in 0 .. src_len
  /\ skipping \in BOOLEAN

\* Squeezing in place never destroys what it has still to read: the bytes
\* from src on, and the caller's bytes behind the text, are those handed in.
\* memmove, the forced leading space and the padding all write below them.
NoClobber == \A i \in src .. src_len + padding : buf[i] = text[i]

\* The result is the text with pieces taken out: its bytes come from the part
\* already read, in their order, none of them twice; a byte written by the
\* squeezer itself can only be the first.
InOrder ==
  /\ \A i, j \in 0 .. dst - 1 : i < j => buf[i].at < buf[j].at
  /\ \A i \in 0 .. dst - 1 : buf[i].at < src
  /\ dst > 0 => IsSpace(buf[0])

\* Every character in the result is whole.  A continuation byte follows the
\* byte it followed in the text, and no kept byte lost a continuation byte
\* that stood behind it, although chunks are counted in bytes, the scans for
\* a space give up in the middle of a word, and the fallback of the backward
\* scan looks at the byte *dst left there by an earlier move.
WholeChars ==
  \A i \in 0 .. dst - 1 :
    /\ IsCont(buf[i]) => i > 0 /\ buf[i].at = buf[i-1].at + 1
    /\ (i = dst - 1 \/ buf[i+1].at # buf[i].at + 1)
          => ~ IsCont(text[buf[i].at + 1])

ShortWords(limit) ==
  /\ IsSpace(text[src_len - 1])
  /\ \A i \in 0 .. src_len - limit :
       \E k \in i .. i + limit - 1 : IsSpace(text[k])

\* "Keeping-to-skipping transition; do it at a space", and back: when every
\* word fits in a chunk and in a scan for a space, text is only ever cut out
\* from behind a space to behind a space, so that no two words are glued.
CutsAtSpaces ==
  (pc # "idle" /\ ShortWords(minint(chunksize, kMaxSpaceScan))) =>
    \A i \in 1 .. dst - 1 :
      (buf[i].at # buf[i-1].at + 1) =>
        IsSpace(buf[i-1]) /\ IsSpace(text[buf[i].at - 1])

\* Every call returns: each turn of the loop reads at least one byte.
CallReturns == pc = "scan" ~> pc = "done"

=============================================================================
