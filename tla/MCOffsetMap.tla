---------------------------- MODULE MCOffsetMap ----------------------------
(***************************************************************************)
(* OffsetMap with digits of a small base, so that texts of a few bytes     *)
(* need prefix bytes, and with every offset from below 0 to beyond both    *)
(* ends.                                                                   *)
(***************************************************************************)
EXTENDS OffsetMap

MCOffsets == -1 .. MaxBytes + 2
MCLengths == 0 .. 4
=============================================================================
