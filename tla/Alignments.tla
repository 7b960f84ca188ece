----------------------------- MODULE Alignments -----------------------------
(***************************************************************************)
(* Alignments of two texts, the data that an OffsetMap stands for (see the *)
(* class comment in src/src/script_span/offsetmap.h): A' is built from A   *)
(* by copying, inserting and deleting ranges of bytes.                     *)
(*                                                                         *)
(* An alignment holds, byte by byte, the answer to every question that may *)
(* be asked: back[i] is the offset in A of the i-th byte of A', fwd[i] the *)
(* offset in A' of the i-th byte of A.  Beyond their ends the two texts    *)
(* correspond, as if a Copy(infinity) ended the map.  The last run of one  *)
(* operation is kept because a deletion and an insertion of one byte each  *)
(* are made into a copy of one byte.                                       *)
(***************************************************************************)
EXTENDS Integers, Sequences

Ops == {"copy", "insert", "delete"}

EmptyAlignment == [back |-> <<>>, fwd |-> <<>>, op |-> "copy", run |-> 0]

MaxA(al)      == Len(al.fwd)
MaxAprime(al) == Len(al.back)

\* The run of equal operations that the next one extends or begins.
RunAfter(al, op, n) == IF al.op = op THEN al.run + n ELSE n

\* Is an operation of n bytes the second half of a one-byte replacement?
Replaces(al, n, other) == n = 1 /\ al.op = other /\ al.run = 1

CopyBytes(al, n) ==
  [back |-> al.back \o [i \in 1..n |-> MaxA(al) + i - 1],
   fwd  |-> al.fwd \o [i \in 1..n |-> MaxAprime(al) + i - 1],
   op |-> "copy", run |-> RunAfter(al, "copy", n)]

\* Inserted bytes map back to the byte of A that follows them, except that
\* one byte inserted for one deleted byte maps back to that byte.
InsertBytes(al, n) ==
  IF Replaces(al, n, "delete")
    THEN [al EXCEPT !.back = Append(@, MaxA(al) - 1), !.op = "copy"]
    ELSE [al EXCEPT !.back = @ \o [i \in 1..n |-> MaxA(al)],
                    !.op = "insert", !.run = RunAfter(al, "insert", n)]

\* Deleted bytes map forward to the byte of A' that follows them, except
\* that one byte deleted behind one inserted byte maps forward to that byte.
DeleteBytes(al, n) ==
  IF Replaces(al, n, "insert")
    THEN [al EXCEPT !.fwd = Append(@, MaxAprime(al) - 1), !.op = "copy"]
    ELSE [al EXCEPT !.fwd = @ \o [i \in 1..n |-> MaxAprime(al)],
                    !.op = "delete", !.run = RunAfter(al, "delete", n)]

\* The operations do nothing for a length of zero.
AlignCopy(al, n)   == IF n = 0 THEN al ELSE CopyBytes(al, n)
AlignInsert(al, n) == IF n = 0 THEN al ELSE InsertBytes(al, n)
AlignDelete(al, n) == IF n = 0 THEN al ELSE DeleteBytes(al, n)

\* A character of old bytes replaced by one of new bytes.
AlignReplace(al, old, new) ==
  IF new >= old THEN AlignInsert(AlignCopy(al, old), new - old)
                ELSE AlignDelete(AlignCopy(al, new), old - new)

BackOf(al, x) ==
  IF x < 0 THEN 0
  ELSE IF x < MaxAprime(al) THEN al.back[x + 1]
  ELSE x - MaxAprime(al) + MaxA(al)

ForwardOf(al, a) ==
  IF a < 0 THEN 0
  ELSE IF a < MaxA(al) THEN al.fwd[a + 1]
  ELSE a - MaxA(al) + MaxAprime(al)

\* Building is finished, explicitly or by the first question: what comes
\* later does not extend the last run.
Closed(alignment) == [alignment EXCEPT !.op = "copy", !.run = 0]

=============================================================================
