------------------------------ MODULE Alignment ------------------------------
(***************************************************************************)
(* What an OffsetMap promises its user (the class comment and the comments *)
(* on the public operations in src/src/script_span/offsetmap.h): it keeps  *)
(* the alignment that the operations described, and answers from it.       *)
(*                                                                         *)
(* OffsetMap implements this module.                                       *)
(***************************************************************************)
EXTENDS Alignments

CONSTANTS
  Lengths,   \* the lengths an operation may be given
  Offsets,   \* the offsets that may be asked for
  MaxBytes   \* bound: bytes of A and of A' in one alignment

-----------------------------------------------------------------------------
VARIABLES
  al,      \* the alignment built so far
  answer   \* a question and its answer, until the caller has taken it

avars == <<al, answer>>

NoAnswer == [dir |-> "none", at |-> 0, to |-> 0]

AInit == al = EmptyAlignment /\ answer = NoAnswer

AClear == al' = EmptyAlignment /\ answer' = NoAnswer

Extend(alignment) ==
  /\ MaxA(alignment) <= MaxBytes /\ MaxAprime(alignment) <= MaxBytes
  /\ al' = alignment
  /\ UNCHANGED answer

ACopy   == \E n \in Lengths : Extend(AlignCopy(al, n))
AInsert == \E n \in Lengths : Extend(AlignInsert(al, n))
ADelete == \E n \in Lengths : Extend(AlignDelete(al, n))

AReset == al' = Closed(al) /\ UNCHANGED answer

AMapBack == \E x \in Offsets :
  /\ answer = NoAnswer
  /\ answer' = [dir |-> "back", at |-> x, to |-> BackOf(al, x)]
  /\ al' = Closed(al)

AMapForward == \E a \in Offsets :
  /\ answer = NoAnswer
  /\ answer' = [dir |-> "forward", at |-> a, to |-> ForwardOf(al, a)]
  /\ al' = Closed(al)

\* The caller has taken the answer.
AReturn == answer' = NoAnswer /\ UNCHANGED al

ANext ==
  \/ AClear \/ AReset \/ AReturn
  \/ ACopy \/ AInsert \/ ADelete
  \/ AMapBack \/ AMapForward

ASpec == AInit /\ [][ANext]_avars

=============================================================================
