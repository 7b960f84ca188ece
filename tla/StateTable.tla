----------------------------- MODULE StateTable -----------------------------
(***************************************************************************)
(* The interpreters of state tables in src/src/script_span/utf8statetable.cc: *)
(* UTF8GenericScan, which finds how far a text is accepted, and            *)
(* UTF8GenericReplace, which copies a text, replaces some characters, and  *)
(* enters what it did in an OffsetMap (an alignment, here).                *)
(*                                                                         *)
(* A byte is a model value; a character is a sequence of bytes.  src is    *)
(* the number of bytes read, so that text[src + 1] is the next byte.  One  *)
(* action is one turn of a loop, one replacement or one way out.           *)
(***************************************************************************)
EXTENDS Alignments, SequencesExt

CONSTANTS
  Bytes,
  Tables,   \* the tables that may be interpreted
  Texts,    \* the texts of a call, by table
  Rooms,    \* how much longer than the text the output buffer may be
  Cont,     \* the continuation bytes
  kWord     \* bytes in a word: 4.  The fast scan reads two words at a time.

ASSUME StateTableAssumption ==
  /\ kWord \in Nat \ {0}
  /\ Rooms \subseteq Int
  /\ \A table \in Tables : \A t \in Texts[table] : t \in Seq(Bytes)

(***************************************************************************)
(* What a generated table says (utf8acceptinterchange.h and its like):     *)
(*   keeps    the characters accepted as they are                          *)
(*   rejects  the characters that stop a scan                              *)
(*   lower    the characters replaced, and by what                         *)
(*   checked  those replaced by way of remap_base, where room is checked   *)
(*   repeats  after so many one-byte characters a scan is to do again what *)
(*            it does fast; 0 in a table that is not exit optimized        *)
(*   fast     the bytes between losub and hiadd                            *)
(*   slow     the bytes that fast_state marks                              *)
(***************************************************************************)
Accepted(table) == table.keeps \cup DOMAIN table.lower
Characters(table) == Accepted(table) \cup table.rejects

\* The table is what its comment says.  No character begins another, and one
\* entry is all there is for each; what the fast scan skips is accepted (a byte
\* has 0 in fast_state only if it is kept); only remap_base makes a text longer;
\* and no table that replaces is exit optimized.
WellFormed(table) ==
  /\ \A c \in Characters(table) :
       /\ c # <<>> /\ c[1] \notin Cont
       /\ \A i \in 2 .. Len(c) : c[i] \in Cont
       /\ \A d \in Characters(table), i \in 1 .. Len(c) - 1 : SubSeq(c, 1, i) # d
  /\ table.rejects \cap Accepted(table) = {} /\ table.keeps \cap DOMAIN table.lower = {}
  /\ table.repeats \in Nat \ {1}
  /\ IF DOMAIN table.lower # {}
       THEN table.repeats = 0 /\ table.rejects = {}
       ELSE \A b \in Bytes \ table.slow : <<b>> \in table.keeps
  /\ table.fast \subseteq Bytes \ table.slow
  /\ \A c \in DOMAIN table.lower \ table.checked : Len(table.lower[c]) <= Len(c)

ASSUME TablesAssumption ==
  \A table \in Tables :
    /\ WellFormed(table)
    /\ \A c \in Characters(table) : c \in Seq(Bytes)
    /\ \A c \in DOMAIN table.lower : table.lower[c] \in Seq(Bytes)

VARIABLES
  pc,         \* "idle", "fast", "bytes" (the two loops), "exit", "done"
  call,       \* "scan" or "replace"
  table, text,
  src,
  state,      \* where in the table: the bytes seen of a character, and how
              \* many one-byte characters came before it
  e,          \* the entry read last, and then the reason for exiting
  olen,       \* the size of the output buffer
  out,        \* what was written to it: dst is its length
  copystart,  \* from where on a copy is not yet in the map
  map         \* offsetmap

vars == <<pc, call, table, text, src, state, e, olen, out, copystart, map>>

-----------------------------------------------------------------------------
Zero == [seen |-> <<>>, run |-> 0]

InStateZero == state.seen = <<>>

\* Mutant: not only after some one-byte characters, but after any number.
SendsBackSooner(st) == table.repeats > 0 /\ st.run < table.repeats

\* Were there so many one-byte characters that the fast scan is due?
SendsBack(st) == table.repeats > 0 /\ st.run = table.repeats - 1

\* The table's entry for a byte: the next state, or an exit.
Entry(st, b) ==
  LET char == Append(st.seen, b)
      one  == st.seen = <<>>
      kind ==
        IF char \in table.rejects THEN "reject"
        ELSE IF char \in DOMAIN table.lower THEN "replace"
        ELSE IF char \in table.keeps
          THEN IF one /\ SendsBack(st) THEN "again" ELSE "next"
        ELSE IF \E c \in Characters(table) :
                  Len(char) < Len(c) /\ SubSeq(c, 1, Len(char)) = char
          THEN "next"
        ELSE "illegal"
      to   == IF char \in table.keeps
                THEN [seen |-> <<>>, run |-> IF one /\ table.repeats > 0 THEN st.run + 1 ELSE 0]
                ELSE [seen |-> char, run |-> 0]
  IN  [kind |-> kind, to |-> to]

\* Mutants: over one byte instead of a character; and over the character
\* before, when a character was just completed.
BackOneByte  == IF InStateZero /\ e = "next" THEN src ELSE src - 1
BackPrevious ==
  IF src = 0 THEN 0
  ELSE CHOOSE i \in 0 .. src - 1 : /\ i = 0 \/ text[i + 1] \notin Cont
                                   /\ \A j \in i + 1 .. src - 1 : text[j + 1] \in Cont

\* Where the character begins of which a byte was read last: the loop goes
\* back over continuation bytes, but not to before the text.
BackUp ==
  LET from == IF e = "next" THEN src ELSE src - 1   \* at the end, or an exit
  IN  IF InStateZero
        THEN from
        ELSE CHOOSE i \in 0 .. from - 1 :
               /\ i = 0 \/ text[i + 1] \notin Cont
               /\ \A j \in i + 1 .. from - 1 : text[j + 1] \in Cont

\* Mutant: without the last of them.
BytesAtShort(at, n) == {text[at + i] : i \in 1 .. n - 1}

\* The bytes at offset at, n of them.
BytesAt(at, n) == {text[at + i] : i \in 1 .. n}

-----------------------------------------------------------------------------
Nothing == [keeps |-> {}, rejects |-> {}, lower |-> <<>>, checked |-> {},
            repeats |-> 0, fast |-> {}, slow |-> {}]

Init ==
  /\ pc = "idle" /\ call = "scan"
  /\ table = Nothing /\ text = <<>> /\ olen = 0
  /\ src = 0 /\ state = Zero /\ e = "ok" /\ out = <<>>
  /\ copystart = 0 /\ map = EmptyAlignment

CallScan ==
  /\ pc = "idle"
  /\ call' = "scan" /\ olen' = 0
  /\ table' \in {t \in Tables : DOMAIN t.lower = {}} /\ text' \in Texts[table']
  /\ pc' = IF text' = <<>> THEN "done" ELSE "fast"
  /\ UNCHANGED <<src, state, e, out, copystart, map>>

\* "Invariant condition during replacements: remaining dst size >= remaining
\* src size": otherwise the call returns at once.
CallReplace ==
  /\ pc = "idle"
  /\ call' = "replace"
  /\ table' \in {t \in Tables : DOMAIN t.lower # {}} /\ text' \in Texts[table']
  /\ \E room \in Rooms : olen' = Len(text') + room /\ olen' >= 0
  /\ IF olen' < Len(text') THEN pc' = "done" /\ e' = "full"
                           ELSE pc' = "bytes" /\ e' = "next"
  /\ UNCHANGED <<src, state, out, copystart, map>>

\* Two words are skipped, or the first of them, or none.
FastScan ==
  /\ pc = "fast" /\ src + 2 * kWord <= Len(text)
  /\ LET slow(at) == BytesAt(at, kWord) \cap table.slow # {}
     IN  IF BytesAt(src, 2 * kWord) \subseteq table.fast
           THEN src' = src + 2 * kWord /\ pc' = "fast"
         ELSE IF slow(src)
           THEN src' = src /\ pc' = "bytes"
         ELSE IF slow(src + kWord)
           THEN src' = src + kWord /\ pc' = "bytes"
         ELSE src' = src + 2 * kWord /\ pc' = "fast"
  /\ e' = "next"
  /\ UNCHANGED <<call, table, text, state, olen, out, copystart, map>>

FastScanEnds ==
  /\ pc = "fast" /\ src + 2 * kWord > Len(text)
  /\ pc' = "bytes" /\ e' = "next"
  /\ UNCHANGED <<call, table, text, src, state, olen, out, copystart, map>>

\* One byte through the table; a replacement copies it as well.
ScanByte ==
  /\ pc = "bytes" /\ src < Len(text)
  /\ LET entry == Entry(state, text[src + 1])
     IN  /\ e' = entry.kind
         /\ IF entry.kind = "next" THEN state' = entry.to /\ pc' = "bytes"
                                   ELSE UNCHANGED state /\ pc' = "exit"
  /\ src' = src + 1
  /\ out' = IF call = "replace" THEN Append(out, text[src + 1]) ELSE out
  /\ UNCHANGED <<call, table, text, olen, copystart, map>>

\* Back to the fast scan, with the character that was read last.
DoAgain ==
  /\ pc = "exit" /\ e = "again"
  /\ src' = BackUp /\ state' = Zero
  /\ pc' = "fast"
  /\ UNCHANGED <<call, table, text, e, olen, out, copystart, map>>

\* Mutant: the room is measured before the replacement.
FitsBefore(char, new) == olen - Len(out) >= Len(text) - src

Fits(char, new) ==
  char \in table.checked =>
    olen - (Len(out) - Len(char) + Len(new)) >= Len(text) - src

\* Mutant: what was copied in front of the replacement is not entered.
MappedAlone(char, new) ==
  IF Len(new) > Len(char) THEN AlignInsert(map, Len(new) - Len(char))
                          ELSE AlignDelete(map, Len(char) - Len(new))

\* The map with a replacement that changes the length, and the text copied
\* before it.
Mapped(char, new) ==
  LET more == Len(new) - Len(char)
  IN  IF more > 0 THEN AlignInsert(AlignCopy(map, src - copystart), more)
                  ELSE AlignDelete(AlignCopy(map, src - copystart + more), -more)

\* A character was copied that is to be replaced.
ReplaceCharacter ==
  /\ pc = "exit" /\ e = "replace"
  /\ LET char == Append(state.seen, text[src])
         new  == table.lower[char]
     IN  IF Fits(char, new)
           THEN /\ out' = SubSeq(out, 1, Len(out) - Len(char)) \o new
                /\ IF Len(new) # Len(char)
                     THEN map' = Mapped(char, new) /\ copystart' = src
                     ELSE UNCHANGED <<map, copystart>>
                /\ state' = Zero /\ e' = "next" /\ pc' = "bytes"
           ELSE /\ e' = "full"
                /\ UNCHANGED <<pc, state, out, copystart, map>>
  /\ UNCHANGED <<call, table, text, src, olen>>

\* The end of the text, perhaps within a character, or an exit: what was
\* read of a character is given back.
Leave ==
  /\ \/ pc = "bytes" /\ src = Len(text)
     \/ pc = "exit" /\ e \notin {"again", "replace"}
  /\ src' = BackUp
  /\ e' = IF e # "next" THEN e ELSE IF InStateZero THEN "ok" ELSE "illegal"
  /\ out' = IF call = "replace" THEN SubSeq(out, 1, Len(out) - (src - BackUp)) ELSE out
  /\ map' = IF call = "replace" /\ BackUp > copystart
              THEN AlignCopy(map, BackUp - copystart) ELSE map
  /\ pc' = "done"
  /\ UNCHANGED <<call, table, text, state, olen, copystart>>

\* The caller has used the result.
Return ==
  /\ pc = "done"
  /\ pc' = "idle" /\ call' = "scan"
  /\ table' = Nothing /\ text' = <<>> /\ olen' = 0
  /\ src' = 0 /\ state' = Zero /\ e' = "ok" /\ out' = <<>>
  /\ copystart' = 0 /\ map' = EmptyAlignment

Interpret ==
  FastScan \/ FastScanEnds \/ ScanByte \/ DoAgain \/ ReplaceCharacter \/ Leave

Next == CallScan \/ CallReplace \/ Interpret \/ Return

Spec == Init /\ [][Next]_vars

\* A call runs on its caller's thread until it returns.
FairSpec == Spec /\ WF_vars(Interpret)

-----------------------------------------------------------------------------
(* Properties. *)

\* Every variable has its type, and no way back leads out of the text.
TypeOK ==
  /\ pc \in {"idle", "fast", "bytes", "exit", "done"}
  /\ call \in {"scan", "replace"}
  /\ table \in Tables \cup {Nothing}
  /\ src \in 0 .. Len(text)
  /\ copystart \in 0 .. src
  /\ e \in {"next", "again", "replace", "reject", "illegal", "ok", "full"}
  /\ Len(out) <= olen

\* The characters that a table accepts from the start of a text on.
StandsAt(txt, c, i) == i + Len(c) <= Len(txt) /\ SubSeq(txt, i + 1, i + Len(c)) = c

CharAt(tbl, txt, i) == {c \in Accepted(tbl) : StandsAt(txt, c, i)}

CharsOf(tbl, txt) ==
  LET from[i \in 0 .. Len(txt)] ==
        IF CharAt(tbl, txt, i) = {} THEN <<>>
        ELSE LET c == CHOOSE c \in CharAt(tbl, txt, i) : TRUE
             IN  <<c>> \o from[i + Len(c)]
  IN  from[0]

Chars == CharsOf(table, text)

\* What becomes of them, and the alignment of both, one character at a time.
LowerOf(tbl, c) == IF c \in DOMAIN tbl.lower THEN tbl.lower[c] ELSE c

Lowered(tbl, chars) == FlattenSeq([i \in DOMAIN chars |-> LowerOf(tbl, chars[i])])

LowerOne(tbl, al, c) == AlignReplace(al, Len(c), Len(LowerOf(tbl, c)))

MapOf(tbl, chars) ==
  FoldLeft(LAMBDA al, c : LowerOne(tbl, al, c), EmptyAlignment, chars)

\* "Always scan complete UTF-8 characters": a scan ends behind the longest run
\* of accepted characters and says why, whichever of its loops read them and
\* however often it was sent back to the fast one.
ScansLongest ==
  (pc = "done" /\ call = "scan") =>
    /\ src = Len(FlattenSeq(Chars))
    /\ e = IF src = Len(text) THEN "ok"
           ELSE IF \E c \in table.rejects : StandsAt(text, c, src)
             THEN "reject" ELSE "illegal"

\* The k-th character is the first whose replacement leaves too little room.
NoRoomFor(k) ==
  LET taken == SubSeq(Chars, 1, k)
  IN  /\ k <= Len(Chars)
      /\ olen - Len(Lowered(table, taken)) < Len(text) - Len(FlattenSeq(taken))

\* What was consumed are whole characters, and what was written are just their
\* replacements, although bytes are copied before it is known whether they
\* are wanted; a call gives up for room only when there is none.
ReplacesCharacters ==
  (pc = "done" /\ call = "replace") =>
    \E k \in 0 .. Len(Chars) :
      LET taken == SubSeq(Chars, 1, k)
      IN  /\ src = Len(FlattenSeq(taken))
          /\ out = Lowered(table, taken)
          /\ e = "ok" <=> src = Len(text)
          /\ e = "illegal" => k = Len(Chars)
          /\ e = "full" => NoRoomFor(k) \/ NoRoomFor(k + 1)

\* The map is that of the characters one by one, however they were put
\* together into copies: what LowerOne of ScriptScanner takes it to be.
MapDescribes ==
  (pc = "done" /\ call = "replace") =>
    \E k \in 0 .. Len(Chars) :
      LET taken == SubSeq(Chars, 1, k)
      IN  /\ src = Len(FlattenSeq(taken))
          /\ map = MapOf(table, taken)

\* "remaining dst size >= remaining src size", after every replacement too.
RoomKept ==
  (pc \in {"bytes", "exit"} /\ call = "replace") =>
    olen - Len(out) >= Len(text) - src

\* Every call returns: being sent back to the fast scan is progress.
CallReturns == pc \in {"fast", "bytes", "exit"} ~> pc = "done"

=============================================================================
