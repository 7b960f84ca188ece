---------------------------- MODULE ScriptScanner ----------------------------
(***************************************************************************)
(* The class ScriptScanner of src/src/script_span/getonescriptspan.{h,cc}: *)
(* a text is handed out in spans of letters of one script, with one space  *)
(* for every run of non-letters.  Plain text only, letters and marks only: *)
(* the program never asks for anything else.                               *)
(*                                                                         *)
(* A character is what the code tells apart: its script, its length and    *)
(* the length of its lower case.  The text is a function from the offsets  *)
(* at which its characters begin, and an action is one turn of a loop.     *)
(*                                                                         *)
(* The two OffsetMaps are the alignments they implement (module OffsetMap  *)
(* shows that they do).                                                    *)
(***************************************************************************)
EXTENDS Alignments, FiniteSets, FiniteSetsExt, SequencesExt

CONSTANTS
  Texts,             \* the texts a scanner may be constructed for
  Calls,             \* which of GetOneScriptSpan ("plain") and
                     \* GetOneScriptSpanLower ("lower") the caller uses
  kMaxScriptBytes,   \* letters are copied up to here: kMaxScriptBuffer - 32
  kMaxScriptBuffer,  \* the size of script_buffer_: 40960
  kWithinScriptTail  \* a span may end at a space this far from there: 32

\* A text: the characters by the offset they begin at, the length in bytes,
\* and the script of the character behind it, which is 0 (common) when the
\* string ends there.  A character of UTF-8 has at most four bytes, and none
\* of utf8repl_lettermarklower grows by more than half in lower case.
IsText(t) ==
  /\ t.length \in Nat
  /\ DOMAIN t.chars \subseteq 0 .. t.length - 1
  /\ \A at \in DOMAIN t.chars :
       LET char == t.chars[at]
           next == at + char.bytes
       IN  /\ char.bytes \in 1 .. 4
           /\ char.lower \in Nat \ {0} /\ 2 * char.lower <= 3 * char.bytes
           /\ next = t.length \/ next \in DOMAIN t.chars
           /\ \A within \in at + 1 .. next - 1 : within \notin DOMAIN t.chars
  /\ t.length > 0 => 0 \in DOMAIN t.chars

ASSUME ScannerAssumption ==
  /\ \A t \in Texts : IsText(t)
  /\ Calls \subseteq {"plain", "lower"}
  /\ {kMaxScriptBytes, kMaxScriptBuffer, kWithinScriptTail} \subseteq Nat
  /\ 0 < kWithinScriptTail /\ kWithinScriptTail < kMaxScriptBytes
  /\ kMaxScriptBytes + 8 <= kMaxScriptBuffer

VARIABLES
  pc,             \* where the call is; "span" (true) or "end" (false) once
                  \* it has returned
  text,           \* the buffer behind start_byte_
  next_byte_,     \* as an offset from start_byte_
  byte_length_,   \* the bytes left
  span,           \* the caller's LangSpan
  call,           \* which call it is
  put_soft_limit,
  sc, take, put,  \* local variables of GetOneScriptSpan
  script_buffer,  \* what has been put, as the characters and spaces it is
  lowered,        \* how many of them are in lower case
  map2original,
  map2uplow,
  given           \* history: what was put in the spans so far

vars == <<pc, text, next_byte_, byte_length_, span, call, put_soft_limit,
          sc, take, put, script_buffer, lowered, map2original, map2uplow,
          given>>

-----------------------------------------------------------------------------
Common    == "Common"       \* the script of every non-letter
Inherited == "Inherited"    \* the script of combining marks
Unknown   == "Unknown"

minint(a, b) == IF a < b THEN a ELSE b

\* GetUTF8LetterScriptNum at an offset, which may be behind the text.
ScriptAt(at) == IF at < text.length THEN text.chars[at].script ELSE text.beyond

\* Mutant: without a letter, runs onto the byte behind the text.
LetterFromBeyond(at) ==
  Min({o \in DOMAIN text.chars : o >= at /\ text.chars[o].script # Common}
        \cup {text.length + 1})

\* The offset of the first letter from at on, or the end of the text.
LetterFrom(at) ==
  Min({o \in DOMAIN text.chars : o >= at /\ text.chars[o].script # Common}
        \cup {text.length})

\* Mutant: the last two fragments are not split in half.
SoftLimitWhole(bytes_left) ==
  IF kMaxScriptBytes <= bytes_left /\ bytes_left < 2 * kMaxScriptBytes
    THEN bytes_left
    ELSE kMaxScriptBytes - kWithinScriptTail

SoftLimit(bytes_left) ==
  IF kMaxScriptBytes <= bytes_left /\ bytes_left < 2 * kMaxScriptBytes
    THEN bytes_left \div 2
    ELSE kMaxScriptBytes - kWithinScriptTail

\* Mutants: no look at the character behind; a mark is a change of script.
NeedBreakNoLook(at) == ScriptAt(at) = Common
NeedBreakAtMark(at) ==
  /\ ScriptAt(at) # span.ulscript
  /\ \/ ScriptAt(at) \in {Common, Inherited}
     \/ ScriptAt(at + text.chars[at].bytes) \notin {Common, span.ulscript}

\* Must the letters of a span stop before the character at this offset?  A
\* single letter of another script does not stop them.
NeedBreak(at) ==
  LET script == ScriptAt(at)
  IN  /\ script \notin {span.ulscript, Inherited}
      /\ \/ script = Common
         \/ ScriptAt(at + text.chars[at].bytes) \notin {Common, span.ulscript}

\* What lies in script_buffer_: a character of the text, or a space.
PutSpace == [at |-> -1, bytes |-> 1, lower |-> 1]
IsLetter(entry) == entry.at >= 0

CharPut(at) ==
  [at |-> at, bytes |-> text.chars[at].bytes, lower |-> text.chars[at].lower]

\* Mutant: the offset of the span is forgotten.
FrontOfSkip(offset, skip) == AlignInsert(AlignDelete(EmptyAlignment, skip), 1)

\* The alignment of the front of a span: offset bytes lie before it, and for
\* the skip bytes of non-letters there is one space.
FrontOfSpan(offset, skip) ==
  LET before == AlignDelete(EmptyAlignment, offset)
  IN  IF skip # 1 THEN AlignInsert(AlignDelete(before, skip), 1)
                  ELSE AlignCopy(before, 1)

\* Mutant: a character that shrinks is mapped as one that does not.
LowerOneLonger(map, entry) ==
  AlignInsert(AlignCopy(map, minint(entry.lower, entry.bytes)),
              IF entry.lower > entry.bytes THEN entry.lower - entry.bytes ELSE 0)

\* UTF8GenericReplace: one character more in lower case.
LowerOne(map, entry) == AlignReplace(map, entry.bytes, entry.lower)

\* The length of the first n entries, as they were put or in lower case.
Total(f, n) == LET T[k \in 0 .. n] == IF k = 0 THEN 0 ELSE T[k-1] + f[k] IN T[n]

PutBytes(entries, n)   == Total([i \in 1 .. n |-> entries[i].bytes], n)
LowerBytes(entries, n) == Total([i \in 1 .. n |-> entries[i].lower], n)

\* Mutant: the end of the text is not where a character begins.
OvershootAtEnd(at) ==
  take - Max({t \in 0 .. take : t = 0 \/ at + t \in DOMAIN text.chars})

\* Bytes to step back to the start of the character that take points into.
Overshoot(at) ==
  LET starts == {t \in 0 .. take : t = 0 \/ at + t >= text.length
                                         \/ at + t \in DOMAIN text.chars}
  IN  take - Max(starts)

-----------------------------------------------------------------------------
NoSpan == [offset |-> 0, text_bytes |-> 0, ulscript |-> Unknown, truncated |-> FALSE]

ClearLocals ==
  /\ put_soft_limit' = 0
  /\ sc' = Unknown /\ take' = 0 /\ put' = 0
  /\ script_buffer' = <<>>

\* The constructor.
Init ==
  /\ pc = "new"
  /\ text \in Texts
  /\ next_byte_ = 0 /\ byte_length_ = text.length
  /\ span = NoSpan /\ call = "none"
  /\ put_soft_limit = 0
  /\ sc = Unknown /\ take = 0 /\ put = 0
  /\ script_buffer = <<>> /\ lowered = 0
  /\ map2original = EmptyAlignment /\ map2uplow = EmptyAlignment
  /\ given = <<>>

\* A call up to the first letter of the next span; it returns when there is
\* none.
GetOneScriptSpan ==
  LET front == LetterFrom(next_byte_)
      skip  == front - next_byte_
  IN  /\ pc \in {"new", "span", "end"}
      /\ call' \in Calls
      /\ next_byte_' = next_byte_ + skip
      /\ byte_length_' = byte_length_ - skip
      /\ IF byte_length_' <= 0
           THEN /\ pc' = "end"
                /\ map2original' = Closed(FrontOfSpan(next_byte_, skip))
                /\ span' = [NoSpan EXCEPT !.offset = next_byte_]
                /\ ClearLocals
           ELSE /\ pc' = "letters"
                /\ map2original' = FrontOfSpan(next_byte_, skip)
                /\ span' = [NoSpan EXCEPT !.offset = next_byte_,
                                          !.ulscript = ScriptAt(front)]
                /\ put_soft_limit' = SoftLimit(byte_length_)
                /\ sc' = Unknown /\ take' = 0 /\ put' = 1
                /\ script_buffer' = <<PutSpace>>
      /\ UNCHANGED <<text, map2uplow, lowered, given>>

\* The letter at take is copied; the letters stop when the buffer is full.
CopyLetter ==
  LET at == next_byte_ + take
      entry == CharPut(at)
  IN  /\ pc = "letters" /\ take < byte_length_
      /\ ~ NeedBreak(at)
      /\ sc' = ScriptAt(at)
      /\ take' = take + entry.bytes
      /\ put' = put + entry.bytes
      /\ script_buffer' = Append(script_buffer, entry)
      /\ map2original' = AlignCopy(map2original, entry.bytes)
      /\ IF put' >= kMaxScriptBytes
           THEN pc' = "gap" /\ span' = [span EXCEPT !.truncated = TRUE]
           ELSE UNCHANGED <<pc, span>>
      /\ UNCHANGED <<text, next_byte_, byte_length_, call, put_soft_limit,
                     map2uplow, lowered, given>>

\* The letters stop at a non-letter, at another script or at the end.
LettersStop ==
  LET at == next_byte_ + take
  IN  /\ pc = "letters"
      /\ \/ take >= byte_length_ /\ UNCHANGED sc
         \/ take < byte_length_ /\ NeedBreak(at) /\ sc' = ScriptAt(at)
      /\ pc' = "gap"
      /\ UNCHANGED <<text, next_byte_, byte_length_, span, call, put_soft_limit,
                     take, put, script_buffer, map2original, map2uplow, lowered, given>>

\* Non-letters are skipped and a space is put for them; then the span goes
\* on with letters, or ends at another script, near the end of the buffer or
\* at the end of the text.
SkipNonLetters ==
  LET at   == next_byte_ + take
      next == LetterFrom(at)
      wrong_script == sc' \notin {span.ulscript, Inherited}
      almost_full  == put' >= put_soft_limit
  IN  /\ pc = "gap"
      /\ sc' = IF next < text.length THEN ScriptAt(next) ELSE sc
      /\ take' = take + (next - at)
      /\ put' = put + 1
      /\ script_buffer' = Append(script_buffer, PutSpace)
      /\ map2original' = AlignInsert(AlignDelete(map2original, next - at), 1)
      /\ span' = IF ~ wrong_script /\ almost_full
                   THEN [span EXCEPT !.truncated = TRUE] ELSE span
      /\ pc' = IF wrong_script \/ almost_full \/ take' >= byte_length_
                 THEN "finish" ELSE "letters"
      /\ UNCHANGED <<text, next_byte_, byte_length_, call, put_soft_limit,
                     map2uplow, lowered, given>>

\* The span is complete; GetOneScriptSpan returns here.
Finish ==
  LET over == Overshoot(next_byte_)
  IN  /\ pc = "finish"
      /\ next_byte_' = next_byte_ + take - over
      /\ byte_length_' = byte_length_ - (take - over)
      /\ span' = [span EXCEPT !.text_bytes = put - over]
      /\ map2original' = Closed(AlignInsert(map2original, 4))
      /\ given' = given \o script_buffer
      /\ pc' = IF call = "lower" THEN "lower" ELSE "span"
      /\ put_soft_limit' = 0 /\ sc' = Unknown /\ take' = 0 /\ put' = 0
      /\ UNCHANGED <<text, call, script_buffer, lowered, map2uplow>>

\* The span and three of the bytes behind it are put in lower case.
ToLower == script_buffer \o <<PutSpace, PutSpace, PutSpace>>

LowerCharacter ==
  /\ pc = "lower" /\ lowered < Len(ToLower)
  /\ lowered' = lowered + 1
  /\ map2uplow' = LowerOne(IF lowered = 0 THEN EmptyAlignment ELSE map2uplow,
                           ToLower[lowered + 1])
  /\ UNCHANGED <<pc, text, next_byte_, byte_length_, span, call, put_soft_limit,
                 sc, take, put, script_buffer, map2original, given>>

\* Mutant: a span that has become longer is put in lower case again.
LowerScriptSpanAgain ==
  LET filled == LowerBytes(ToLower, Len(ToLower))
      again  == filled - 3 > span.text_bytes
  IN  /\ pc = "lower" /\ lowered = Len(ToLower)
      /\ span' = IF again THEN span ELSE [span EXCEPT !.text_bytes = filled - 3]
      /\ map2uplow' = IF again THEN map2uplow ELSE Closed(map2uplow)
      /\ pc' = IF again THEN "lower" ELSE "span"
      /\ lowered' = 0
      /\ UNCHANGED <<text, next_byte_, byte_length_, call, put_soft_limit,
                     sc, take, put, script_buffer, map2original, given>>

\* LowerScriptSpan returns; the three bytes behind the span are not counted.
LowerScriptSpan ==
  LET filled == LowerBytes(ToLower, Len(ToLower))
  IN  /\ pc = "lower" /\ lowered = Len(ToLower)
      /\ span' = [span EXCEPT !.text_bytes = filled - 3]
      /\ map2uplow' = Closed(map2uplow)
      /\ pc' = "span" /\ lowered' = 0
      /\ UNCHANGED <<text, next_byte_, byte_length_, call, put_soft_limit,
                     sc, take, put, script_buffer, map2original, given>>

Next ==
  \/ GetOneScriptSpan
  \/ CopyLetter \/ LettersStop \/ SkipNonLetters \/ Finish
  \/ LowerCharacter \/ LowerScriptSpan

Spec == Init /\ [][Next]_vars

\* Every caller that scans a text asks for spans until there are none.
FairSpec == Spec /\ WF_vars(Next)

\* MapBack: from an offset in the span's text to one in the buffer.
MapBack(text_offset) == BackOf(map2original, BackOf(map2uplow, text_offset))

\* Where the k-th entry of script_buffer begins in the text of the span.
PositionOf(k) ==
  IF call = "lower" THEN LowerBytes(script_buffer, k - 1)
                    ELSE PutBytes(script_buffer, k - 1)

InCall == pc \in {"letters", "gap", "finish"}

-----------------------------------------------------------------------------
(* Properties. *)

\* Every variable has its type, and the two ways the code keeps its place in
\* the buffer agree.
TypeOK ==
  /\ pc \in {"new", "letters", "gap", "finish", "lower", "span", "end"}
  /\ call \in Calls \cup {"none"}
  /\ next_byte_ \in DOMAIN text.chars \cup {text.length}
  /\ byte_length_ = text.length - next_byte_
  /\ take \in 0 .. byte_length_ /\ put \in Nat /\ put_soft_limit \in Nat
  /\ {span.offset, span.text_bytes} \subseteq Nat /\ span.truncated \in BOOLEAN
  /\ {map2original.op, map2uplow.op} \subseteq Ops

\* The spans together hold every letter of the text once and in its order:
\* whatever ends a span, a full buffer or a letter looked at from the span
\* before, its first character is the next span's.
EveryLetterOnce ==
  LET put_so_far == given \o (IF InCall THEN script_buffer ELSE <<>>)
      letters == {k \in DOMAIN put_so_far : IsLetter(put_so_far[k])}
  IN  /\ {put_so_far[k].at : k \in letters} =
           {at \in DOMAIN text.chars :
              at < next_byte_ + take /\ text.chars[at].script # Common}
      /\ \A j, k \in letters : j < k => put_so_far[j].at < put_so_far[k].at

\* A letter of another script is alone in a span: it stands directly behind
\* a letter that belongs to the span, and no foreign letter follows it.
OneScript ==
  LET Foreign(k) ==
        /\ IsLetter(script_buffer[k])
        /\ ScriptAt(script_buffer[k].at) \notin {span.ulscript, Inherited}
  IN  pc # "end" => \A k \in DOMAIN script_buffer : Foreign(k) =>
        LET before == script_buffer[k-1]
        IN  /\ IsLetter(before) /\ ~ Foreign(k-1)
            /\ before.at + before.bytes = script_buffer[k].at

\* "Worst case is abcd _ _ _ \0": the letters, the space behind a word and
\* the four bytes behind the span fit in script_buffer_, as does the store of
\* four bytes with which a letter is copied; and the span in lower case, which
\* may be longer, fits in script_buffer_lower_ with its NUL.
FitsBuffer ==
  /\ InCall => put = PutBytes(script_buffer, Len(script_buffer))
  /\ pc = "letters" => put + 4 <= kMaxScriptBuffer
  /\ pc = "finish"  => put + 4 <= kMaxScriptBuffer
  /\ pc = "span"    => span.text_bytes + 4 <= (kMaxScriptBuffer * 3) \div 2

\* MapBack gets "back to corresponding text in the original input buffer":
\* from the first byte of every letter of a span to that letter, and from
\* just beyond the last to where the next span is scanned from, although
\* bytes were skipped, spaces put and letters changed their length.
MapsLettersBack ==
  pc = "span" =>
    /\ \A k \in DOMAIN script_buffer :
         IsLetter(script_buffer[k]) => MapBack(PositionOf(k)) = script_buffer[k].at
    /\ MapBack(span.text_bytes) = next_byte_

\* A span ends within a word only when the buffer is full.
EndsInWord ==
  /\ pc = "span"
  /\ script_buffer[Len(script_buffer) - 1].at
       + script_buffer[Len(script_buffer) - 1].bytes = next_byte_
  /\ byte_length_ > 0
  /\ ScriptAt(next_byte_) \in {span.ulscript, Inherited}

CutsWordsWhenFull ==
  EndsInWord => PutBytes(script_buffer, Len(script_buffer) - 1) >= kMaxScriptBytes

\* The caller's loop over the spans of a text ends.
ScanEnds == <>(pc = "end")

\* "So that MapBack(0) gives offset": the start of a span's range is not
\* before the span.
StartsInSpan == pc = "span" => span.offset <= MapBack(0)

=============================================================================
