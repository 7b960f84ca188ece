------------------------------ MODULE OffsetMap ------------------------------
(***************************************************************************)
(* The class OffsetMap of src/src/script_span/offsetmap.{h,cc}.            *)
(*                                                                         *)
(* The map is a string of bytes, each an operation and a digit; a run that *)
(* is too long for one digit has prefix bytes before it.  One more run is  *)
(* held back (pending) so that the next operation can extend it.  A map is *)
(* asked through a cursor: the windows of A and A' that one run covers,    *)
(* moved run by run to where the offset asked for lies and left there for  *)
(* the next question.                                                      *)
(*                                                                         *)
(* The cursor walks one run per step, so that the model has the states in  *)
(* which a walk has stopped half way.  Subscripts into diffs count from 0  *)
(* as in the code; the byte at subscript i is diffs[i+1].                  *)
(***************************************************************************)
EXTENDS Alignments, FiniteSetsExt

CONSTANTS
  Radix,     \* values of the length part of a byte: 64
  MaxDigits, \* bytes of the longest run: 6
  MaxBytes,  \* bound: bytes of A and of A' in one map
  Lengths,   \* the lengths an operation may be given
  Offsets    \* the offsets that may be asked for

\* What a digit is worth that has k digits behind it: 1 << 6 * k.
Power[k \in 0 .. MaxDigits] == IF k = 0 THEN 1 ELSE Power[k-1] * Radix

ASSUME OffsetMapAssumption ==
  /\ Radix \in Nat \ {0, 1} /\ MaxDigits \in Nat \ {0}
  /\ MaxBytes \in Nat /\ MaxBytes + 1 < Power[MaxDigits]
  /\ Lengths \subseteq Nat /\ Offsets \subseteq Int

VARIABLES
  m,       \* the fields of the object
  phase,   \* "build", "ready", or inside a query: "left", "right", "answered"
  query,   \* the question being answered
  ok,      \* the local variable ok of MapBack and MapForward
  answer,  \* what the query returns
  built    \* auxiliary: the alignment the operations so far describe

vars == <<m, phase, query, ok, answer, built>>

\* What the object promises; built is its state.
Abstract == INSTANCE Alignment WITH al <- built

Cleared ==
  [diffs |-> <<>>, pending_op |-> "copy", pending_length |-> 0,
   next_diff_sub |-> 0,
   lo_a |-> 0, hi_a |-> 0, lo_aprime |-> 0, hi_aprime |-> 0, diff |-> 0,
   max_a |-> 0, max_aprime |-> 0]

-----------------------------------------------------------------------------
(* Building the map. *)

NumDigits(length) == Min({k \in 1 .. MaxDigits : Power[k] > length})

\* The bytes Flush emits for a run: its digits, all but the last as prefixes.
Encoded(op, length) ==
  LET n == NumDigits(length)
  IN  [i \in 1..n |-> [op  |-> IF i < n THEN "prefix" ELSE op,
                       len |-> (length \div Power[n-i]) % Radix]]

\* Mutant: merges a run that does not fit in the byte.
MergesAnyLength(map) ==
  /\ map.pending_op = "copy" /\ map.diffs # <<>>
  /\ map.diffs[Len(map.diffs)].op = "copy"

\* Can the pending copy be added to the last byte of the map?
MergesIntoLast(map) ==
  /\ map.pending_op = "copy" /\ map.diffs # <<>>
  /\ LET last == map.diffs[Len(map.diffs)]
     IN  last.op = "copy" /\ last.len + map.pending_length < Radix

Flush(map) ==
  IF map.pending_length = 0 THEN map
  ELSE IF MergesIntoLast(map)
    THEN [map EXCEPT !.diffs[Len(map.diffs)].len = @ + map.pending_length,
                     !.pending_length = 0]
    ELSE [map EXCEPT !.diffs = @ \o Encoded(map.pending_op, map.pending_length),
                     !.pending_length = 0]

\* Extend the pending run, or flush it and begin a new one.
Pend(map, op, bytes) ==
  IF map.pending_op = op
    THEN [map EXCEPT !.pending_length = @ + bytes]
    ELSE [Flush(map) EXCEPT !.pending_op = op, !.pending_length = bytes]

\* Mutant: folds one byte with the last of many.
FoldsLastByte(map, bytes, other) == bytes = 1 /\ map.pending_op = other

\* "Special-case exactly delete(1) insert(1) => copy(1)", and the reverse.
FoldsIntoCopy(map, bytes, other) ==
  bytes = 1 /\ map.pending_op = other /\ map.pending_length = 1

PendOrFold(map, op, bytes, other) ==
  IF FoldsIntoCopy(map, bytes, other)
    THEN [map EXCEPT !.pending_op = "copy"]
    ELSE Pend(map, op, bytes)

DoCopy(map, bytes) ==
  IF bytes = 0 THEN map
  ELSE Pend([map EXCEPT !.max_a = @ + bytes, !.max_aprime = @ + bytes],
            "copy", bytes)

DoInsert(map, bytes) ==
  IF bytes = 0 THEN map
  ELSE PendOrFold([map EXCEPT !.max_aprime = @ + bytes], "insert", bytes, "delete")

DoDelete(map, bytes) ==
  IF bytes = 0 THEN map
  ELSE PendOrFold([map EXCEPT !.max_a = @ + bytes], "delete", bytes, "insert")

FlushAll(map) == Flush(DoCopy(map, 1))

MaybeFlushAll(map) ==
  IF map.pending_length > 0 \/ map.diffs = <<>> THEN FlushAll(map) ELSE map

-----------------------------------------------------------------------------
(* The cursor. *)

\* Mutant: the windows are set but not the subscript.
SetLeftWindows(map) ==
  [map EXCEPT !.lo_a = 0, !.hi_a = 0, !.lo_aprime = 0, !.hi_aprime = 0, !.diff = 0]

SetLeft(map) ==
  [map EXCEPT !.lo_a = 0, !.hi_a = 0, !.lo_aprime = 0, !.hi_aprime = 0,
              !.diff = 0, !.next_diff_sub = 0]

SetRight(map) ==
  [map EXCEPT !.lo_a = map.max_a, !.hi_a = map.max_a,
              !.lo_aprime = map.max_aprime, !.hi_aprime = map.max_aprime,
              !.diff = map.max_aprime - map.max_a, !.next_diff_sub = 0]

DoReset(map) == SetLeft(MaybeFlushAll(map))

\* The subscript where the run that ends before sub begins.
Backup(diffs, sub) ==
  IF sub <= 0 THEN 0
  ELSE Min({k \in 0 .. sub - 1 : \A j \in k + 1 .. sub - 1 : diffs[j].op = "prefix"})

\* The number that the digits in the bytes from sub to end make up.
LengthOf(diffs, sub, end) ==
  LET L[i \in sub .. end] == IF i = sub THEN 0 ELSE L[i-1] * Radix + diffs[i].len
  IN  L[end]

\* The run that begins at sub: where it ends, its operation and its length.
ParseNext(diffs, sub) ==
  LET ends == {e \in sub + 1 .. Len(diffs) : diffs[e].op # "prefix"}
      end  == IF ends = {} THEN Len(diffs) ELSE Min(ends)
  IN  [sub |-> end,
       op |-> IF end > sub THEN diffs[end].op ELSE "prefix",
       length |-> LengthOf(diffs, sub, end)]

\* How far a run reaches in A and in A'.
SpanA(run)      == IF run.op = "insert" THEN 0 ELSE run.length
SpanAprime(run) == IF run.op = "delete" THEN 0 ELSE run.length

\* Both moves end by computing current_diff_ from the windows.
WithDiff(map) == [map EXCEPT !.diff = map.lo_aprime - map.lo_a]

CanMoveRight(map) ==
  /\ map.next_diff_sub < Len(map.diffs)
  /\ ParseNext(map.diffs, map.next_diff_sub).op # "prefix"

MoveRight(map) ==
  IF map.next_diff_sub >= Len(map.diffs) THEN SetRight(map)
  ELSE LET run == ParseNext(map.diffs, map.next_diff_sub)
       IN  IF run.op = "prefix" THEN SetRight(map)
           ELSE WithDiff([map EXCEPT
                  !.next_diff_sub = run.sub,
                  !.lo_a = map.hi_a, !.hi_a = map.hi_a + SpanA(run),
                  !.lo_aprime = map.hi_aprime,
                  !.hi_aprime = map.hi_aprime + SpanAprime(run)])

\* Is there a run to the left of the one the cursor is on?
CanMoveLeft(map) == Backup(map.diffs, map.next_diff_sub) > 0

\* Mutant: backs up over one run instead of two, then parses it again.
MoveLeftHere(map) ==
  IF ~ CanMoveLeft(map) THEN SetLeft(map)
  ELSE LET run == ParseNext(map.diffs, Backup(map.diffs, map.next_diff_sub))
       IN  WithDiff([map EXCEPT
             !.next_diff_sub = run.sub,
             !.hi_a = map.lo_a, !.lo_a = map.lo_a - SpanA(run),
             !.hi_aprime = map.lo_aprime,
             !.lo_aprime = map.lo_aprime - SpanAprime(run)])

MoveLeft(map) ==
  IF ~ CanMoveLeft(map) THEN SetLeft(map)
  ELSE LET here == Backup(map.diffs, map.next_diff_sub)
           run  == ParseNext(map.diffs, Backup(map.diffs, here))
       IN  IF run.op = "prefix" THEN SetLeft(map)
           ELSE WithDiff([map EXCEPT
                  !.next_diff_sub = run.sub,
                  !.hi_a = map.lo_a, !.lo_a = map.lo_a - SpanA(run),
                  !.hi_aprime = map.lo_aprime,
                  !.lo_aprime = map.lo_aprime - SpanAprime(run)])

-----------------------------------------------------------------------------
(* A question is asked of one side and answered with an offset of the other. *)

Lo(map, dir)  == IF dir = "back" THEN map.lo_aprime ELSE map.lo_a
Hi(map, dir)  == IF dir = "back" THEN map.hi_aprime ELSE map.hi_a
MaxFrom(map, dir) == IF dir = "back" THEN map.max_aprime ELSE map.max_a
MaxTo(map, dir)   == IF dir = "back" THEN map.max_a ELSE map.max_aprime

\* Mutant: an offset in an inserted run is not held to the other window.
FromWindowUnheld(map, dir, at) ==
  IF dir = "back" THEN at - map.diff ELSE at + map.diff

\* The answer from the window the cursor is on: an offset in an inserted (or
\* deleted) run goes to the end of the other window.
FromWindow(map, dir, at) ==
  IF dir = "back" THEN Min({at - map.diff, map.hi_a})
                  ELSE Min({at + map.diff, map.hi_aprime})

\* The answer for an offset the windows need not be moved to.
Outside(map, dir, at) == at < 0 \/ MaxFrom(map, dir) <= at

FromOutside(map, dir, at) ==
  IF at < 0 THEN 0 ELSE at - MaxFrom(map, dir) + MaxTo(map, dir)

-----------------------------------------------------------------------------
NoQuery  == [dir |-> "back", at |-> 0]
NoAnswer == [dir |-> "none", at |-> 0, to |-> 0]

Init ==
  /\ m = Cleared /\ phase = "build"
  /\ query = NoQuery /\ ok = TRUE /\ answer = NoAnswer
  /\ built = EmptyAlignment

Clear ==
  /\ phase \in {"build", "ready"}
  /\ m' = Cleared /\ phase' = "build"
  /\ built' = EmptyAlignment
  /\ UNCHANGED <<query, ok, answer>>

\* Bound: A and A' stay within MaxBytes bytes.
Fits(map) == map.max_a <= MaxBytes /\ map.max_aprime <= MaxBytes

Build(map) ==
  /\ phase = "build" /\ Fits(map)
  /\ m' = map
  /\ UNCHANGED <<phase, query, ok, answer>>

Copy == \E bytes \in Lengths :
  Build(DoCopy(m, bytes)) /\ built' = AlignCopy(built, bytes)

Insert == \E bytes \in Lengths :
  Build(DoInsert(m, bytes)) /\ built' = AlignInsert(built, bytes)

Delete == \E bytes \in Lengths :
  Build(DoDelete(m, bytes)) /\ built' = AlignDelete(built, bytes)

Reset ==
  /\ phase \in {"build", "ready"}
  /\ m' = DoReset(m) /\ phase' = "ready"
  /\ built' = Closed(built)
  /\ UNCHANGED <<query, ok, answer>>

\* MapBack or MapForward of an offset that lies outside the map.
MapOutside(dir, at) ==
  /\ phase \in {"build", "ready"}
  /\ Outside(MaybeFlushAll(m), dir, at)
  /\ m' = MaybeFlushAll(m) /\ phase' = "answered"
  /\ answer' = [dir |-> dir, at |-> at, to |-> FromOutside(m', dir, at)]
  /\ built' = Closed(built)
  /\ UNCHANGED <<query, ok>>

\* MapBack or MapForward of an offset the cursor has to be moved to.
MapInside(dir, at) ==
  /\ phase \in {"build", "ready"}
  /\ ~ Outside(MaybeFlushAll(m), dir, at)
  /\ m' = MaybeFlushAll(m) /\ phase' = "left"
  /\ query' = [dir |-> dir, at |-> at] /\ ok' = TRUE
  /\ built' = Closed(built)
  /\ UNCHANGED answer

WantsLeft  == ok /\ query.at < Lo(m, query.dir)
WantsRight == ok /\ Hi(m, query.dir) <= query.at

StepLeft ==
  /\ phase = "left" /\ WantsLeft
  /\ m' = MoveLeft(m) /\ ok' = CanMoveLeft(m)
  /\ UNCHANGED <<phase, query, answer, built>>

EndOfLeft ==
  /\ phase = "left" /\ ~ WantsLeft
  /\ phase' = "right"
  /\ UNCHANGED <<m, query, ok, answer, built>>

StepRight ==
  /\ phase = "right" /\ WantsRight
  /\ m' = MoveRight(m) /\ ok' = CanMoveRight(m)
  /\ UNCHANGED <<phase, query, answer, built>>

Answer ==
  /\ phase = "right" /\ ~ WantsRight
  /\ phase' = "answered"
  /\ answer' = [dir |-> query.dir, at |-> query.at,
                to |-> FromWindow(m, query.dir, query.at)]
  /\ query' = NoQuery /\ ok' = TRUE
  /\ UNCHANGED <<m, built>>

\* The caller has taken the answer.
Return ==
  /\ phase = "answered"
  /\ phase' = "ready" /\ answer' = NoAnswer
  /\ UNCHANGED <<m, query, ok, built>>

MapBack    == \E x \in Offsets : MapOutside("back", x) \/ MapInside("back", x)
MapForward == \E a \in Offsets : MapOutside("forward", a) \/ MapInside("forward", a)

Walk == StepLeft \/ EndOfLeft \/ StepRight \/ Answer \/ Return

Next ==
  \/ Clear \/ Copy \/ Insert \/ Delete \/ Reset
  \/ MapBack \/ MapForward \/ Walk

Spec == Init /\ [][Next]_vars

-----------------------------------------------------------------------------
(* What the bytes of the map stand for. *)

NothingRead == [back |-> <<>>, fwd |-> <<>>, length |-> 0]

\* A run has ended that is length bytes long: the partners of copied bytes
\* move along with them, those of inserted or deleted bytes are one offset.
ReadRun(read, op, length) ==
  LET Partners(from) ==
        [i \in 1 .. length |-> from + IF op = "copy" THEN i - 1 ELSE 0]
  IN  [back |-> IF op = "delete" THEN read.back
                ELSE read.back \o Partners(Len(read.fwd)),
       fwd  |-> IF op = "insert" THEN read.fwd
                ELSE read.fwd \o Partners(Len(read.back)),
       length |-> 0]

\* One more byte of the map read: a prefix adds a digit to the length, and
\* any other byte ends a run.
ReadByte(read, byte) ==
  LET length == read.length * Radix + byte.len
  IN  IF byte.op = "prefix" THEN [read EXCEPT !.length = length]
      ELSE ReadRun(read, byte.op, length)

\* What the first sub bytes of the map stand for.
Read(diffs, sub) ==
  LET R[i \in 0 .. sub] == IF i = 0 THEN NothingRead ELSE ReadByte(R[i-1], diffs[i])
  IN  R[sub]

\* The map with its cursor on the run that ends before sub, wherever it was.
OnRun(map, sub) ==
  LET here   == Read(map.diffs, sub)
      before == Read(map.diffs, Backup(map.diffs, sub))
  IN  WithDiff([map EXCEPT !.next_diff_sub = sub,
                           !.lo_a = Len(before.fwd), !.hi_a = Len(here.fwd),
                           !.lo_aprime = Len(before.back),
                           !.hi_aprime = Len(here.back)])

\* The windows that the cursor goes by.
Windows(map) ==
  {OnRun(map, sub) : sub \in {k \in 1 .. Len(map.diffs) : map.diffs[k].op # "prefix"}}

\* Every offset with what MapBack or MapForward of a flushed map returns for it,
\* from outside the map or from the window that it lies in.
Answers(map, dir) ==
       {[at |-> x, to |-> FromOutside(map, dir, x)]
         : x \in {x \in Offsets : Outside(map, dir, x)}}
  \cup UNION {{[at |-> x, to |-> FromWindow(window, dir, x)]
                : x \in {x \in Offsets : /\ ~ Outside(map, dir, x)
                                         /\ Lo(window, dir) <= x
                                         /\ x < Hi(window, dir)}}
              : window \in Windows(map)}

\* The byte that FlushAll copies off the end is not part of either text.
Extra == IF phase = "build" THEN 0 ELSE 1

-----------------------------------------------------------------------------
(* Properties. *)

\* Every field has its type, and a length always fits in its digits.
TypeOK ==
  /\ phase \in {"build", "ready", "left", "right", "answered"}
  /\ m.diffs \in Seq([op : {"prefix", "copy", "insert", "delete"},
                      len : 0 .. Radix - 1])
  /\ m.pending_op \in {"copy", "insert", "delete"}
  /\ m.pending_length \in Nat
  /\ m.next_diff_sub \in 0 .. Len(m.diffs)
  /\ {m.lo_a, m.hi_a, m.lo_aprime, m.hi_aprime, m.max_a, m.max_aprime} \subseteq Nat
  /\ m.diff \in Int

\* Whatever was folded, merged into the last byte or split into digits, the
\* bytes of the map (and the pending run) stand for the alignment that the
\* operations described, and add up to the two texts.
MapsAsBuilt ==
  LET read == Read(Flush(m).diffs, Len(Flush(m).diffs))
  IN  /\ Len(read.fwd) = m.max_a /\ Len(read.back) = m.max_aprime
      /\ built.fwd  = SubSeq(read.fwd, 1, m.max_a - Extra)
      /\ built.back = SubSeq(read.back, 1, m.max_aprime - Extra)
      /\ built.op = m.pending_op /\ built.run = m.pending_length

\* "If range i is active, next_diff_sub_ is at the first byte of range i+1":
\* the windows the cursor keeps by adding and subtracting, walk after walk,
\* are those the runs to its left define.
CursorCoherent ==
  LET here   == Read(m.diffs, m.next_diff_sub)
      before == Read(m.diffs, Backup(m.diffs, m.next_diff_sub))
  IN  /\ m.hi_a = Len(here.fwd) /\ m.hi_aprime = Len(here.back)
      /\ m.lo_a = Len(before.fwd) /\ m.lo_aprime = Len(before.back)
      /\ m.diff = m.lo_aprime - m.lo_a

\* The map answers every question, in whatever order they come and wherever
\* the one before left the cursor, as the alignment that was built does.
Implements == Abstract!ASpec

\* Each turn of a walk moves the cursor strictly towards the end it walks to,
\* or gives up: so no question is ever walked for without end.
WalkAdvances ==
  [][ /\ StepLeft  => ~ ok' \/ m'.next_diff_sub < m.next_diff_sub
      /\ StepRight => ~ ok' \/ m'.next_diff_sub > m.next_diff_sub ]_vars

\* Every offset has an answer, and the answers of the map never run backwards in
\* either direction, from below its texts to beyond their ends; the directions
\* never cross: a byte of A before the answer for x maps forward to x or before
\* it, and a byte of A' before the answer for a maps back to a or before it.  So
\* it is between questions, whatever was folded, merged, split into digits or not
\* flushed yet.
Monotone ==
  LET back == Answers(MaybeFlushAll(m), "back")
      fwd  == Answers(MaybeFlushAll(m), "forward")
  IN  phase \in {"build", "ready"} =>
      /\ \A x \in Offsets : (\E r \in back : r.at = x) /\ (\E r \in fwd : r.at = x)
      /\ \A r, s \in back : r.at <= s.at => r.to <= s.to
      /\ \A r, s \in fwd : r.at <= s.at => r.to <= s.to
      /\ \A r \in back, s \in fwd : r.at >= 0 /\ s.at >= 0 =>
           /\ s.at < r.to => s.to <= r.at
           /\ r.at < s.to => r.to <= s.at

=============================================================================
