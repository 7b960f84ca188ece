-------------------------- MODULE OffsetMapProofs --------------------------
(***************************************************************************)
(* Proofs about OffsetMap, for every base, every bound and every set of    *)
(* lengths and offsets: the map stands for the alignment that was built,   *)
(* its cursor is where its windows say, and it answers as Alignment does.  *)
(***************************************************************************)
EXTENDS OffsetMap, Lemmas

-----------------------------------------------------------------------------
(* The inductive invariant *)

Bytes == [op : {"prefix", "copy", "insert", "delete"}, len : 0 .. Radix - 1]

Reading == [back : Seq(Nat), fwd : Seq(Nat), length : Nat]

\* Does a run of the map end with its byte k?
Ends(diffs, k) == k = 0 \/ diffs[k].op # "prefix"

RunOps == {"copy", "insert", "delete"}

Maps ==
  [diffs : Seq(Bytes), pending_op : RunOps, pending_length : Nat,
   next_diff_sub : Nat, lo_a : Nat, hi_a : Nat, lo_aprime : Nat, hi_aprime : Nat,
   diff : Int, max_a : Nat, max_aprime : Nat]

\* What the bytes of the map stand for, and what they do with its pending run.
ReadBytes(map) == Read(map.diffs, Len(map.diffs))
ReadAll(map)   == ReadRun(ReadBytes(map), map.pending_op, map.pending_length)

ReadingOf(al) == [back |-> al.back, fwd |-> al.fwd, length |-> 0]

\* A map that is being built stands for the alignment built so far.
Building(map, al) ==
  /\ map \in Maps /\ Ends(map.diffs, Len(map.diffs))
  /\ map.pending_op = al.op /\ map.pending_length = al.run
  /\ map.max_a = MaxA(al) /\ map.max_aprime = MaxAprime(al)
  /\ ReadAll(map) = ReadingOf(al)
  /\ map.pending_length > 0 \/ map.diffs = <<>>

\* A map that has been asked, or reset, has copied one byte off the end.
Asked(map, al) ==
  /\ map \in Maps /\ Ends(map.diffs, Len(map.diffs)) /\ map.diffs # <<>>
  /\ map.pending_op = "copy" /\ map.pending_length = 0
  /\ al.op = "copy" /\ al.run = 0
  /\ map.max_a = MaxA(al) + 1 /\ map.max_aprime = MaxAprime(al) + 1
  /\ ReadBytes(map) = ReadingOf(CopyBytes(al, 1))

\* The windows are those of the run that ends before next_diff_sub.
CursorAt(map) ==
  LET here   == Read(map.diffs, map.next_diff_sub)
      before == Read(map.diffs, Backup(map.diffs, map.next_diff_sub))
  IN  /\ map.next_diff_sub \in 0 .. Len(map.diffs)
      /\ Ends(map.diffs, map.next_diff_sub)
      /\ map.hi_a = Len(here.fwd) /\ map.hi_aprime = Len(here.back)
      /\ map.lo_a = Len(before.fwd) /\ map.lo_aprime = Len(before.back)
      /\ map.diff = map.lo_aprime - map.lo_a

AtLeft(map) ==
  /\ map.next_diff_sub = 0 /\ map.diff = 0
  /\ map.lo_a = 0 /\ map.hi_a = 0 /\ map.lo_aprime = 0 /\ map.hi_aprime = 0

BuildInv ==
  /\ MaxA(built) <= MaxBytes /\ MaxAprime(built) <= MaxBytes
  /\ IF phase = "build" THEN Building(m, built) /\ AtLeft(m) ELSE Asked(m, built)
  /\ CursorAt(m)

QueryInv ==
  /\ phase \in {"build", "ready", "left", "right", "answered"}
  /\ ok = TRUE
  /\ phase # "answered" => answer = NoAnswer
  /\ phase \in {"left", "right"} =>
       /\ query.dir \in {"back", "forward"} /\ query.at \in Offsets
       /\ 0 <= query.at /\ query.at < MaxFrom(m, query.dir)
  /\ phase = "right" => Lo(m, query.dir) <= query.at

\* The alignment's offsets never run backwards and never cross.
TidyInv == built \in AlignmentSet /\ Tidy(built)

IInv == TidyInv /\ BuildInv /\ QueryInv

-----------------------------------------------------------------------------
(* The alignment: offsets never run backwards and never cross *)

\* What a step does to the alignment.
LEMMA BuiltMoves ==
  ASSUME [Next]_vars
  PROVE  \/ built' = built \/ built' = EmptyAlignment \/ built' = Closed(built)
         \/ \E n \in Lengths : \/ built' = AlignCopy(built, n)
                               \/ built' = AlignInsert(built, n)
                               \/ built' = AlignDelete(built, n)
BY DEF Next, vars, Clear, Copy, Insert, Delete, Reset, MapBack, MapForward,
       MapOutside, MapInside, Walk, StepLeft, EndOfLeft, StepRight, Answer, Return

\* Each of these keeps an alignment tidy.
LEMMA TidyKept ==
  ASSUME TidyInv, [Next]_vars
  PROVE  TidyInv'
<1>1. ASSUME NEW n \in Lengths, n # 0
      PROVE  /\ CopyBytes(built, n) \in AlignmentSet /\ Tidy(CopyBytes(built, n))
             /\ InsertBytes(built, n) \in AlignmentSet /\ Tidy(InsertBytes(built, n))
             /\ DeleteBytes(built, n) \in AlignmentSet /\ Tidy(DeleteBytes(built, n))
  <2>1. n \in Nat /\ n \in Nat \ {0}
    BY <1>1, OffsetMapAssumption
  <2> QED
    BY <2>1, CopyBytesAt, CopyKeepsTidy, InsertKeepsTidy, DeleteKeepsTidy DEF TidyInv
<1>2. \A n \in Lengths :
        /\ AlignCopy(built, n) \in AlignmentSet /\ Tidy(AlignCopy(built, n))
        /\ AlignInsert(built, n) \in AlignmentSet /\ Tidy(AlignInsert(built, n))
        /\ AlignDelete(built, n) \in AlignmentSet /\ Tidy(AlignDelete(built, n))
  BY <1>1 DEF AlignCopy, AlignInsert, AlignDelete, TidyInv
<1>3. Closed(built) \in AlignmentSet /\ Tidy(Closed(built))
  BY ClosedIsTidy DEF TidyInv
<1>4. built' \in AlignmentSet /\ Tidy(built')
  BY <1>2, <1>3, BuiltMoves, EmptyIsTidy DEF TidyInv
<1>5. Tidy(built') <=> Tidy(built)'
  BY DEF Tidy, Runs, Crosses, Foldable, MaxA, MaxAprime
<1> QED
  BY <1>4, <1>5 DEF TidyInv

-----------------------------------------------------------------------------
(* The bytes: what the recursive functions compute *)

\* Powers are positive, and each is Radix times the one below.
LEMMA PowerValues ==
  /\ Power[0] = 1
  /\ \A k \in 1 .. MaxDigits : Power[k] = Power[k-1] * Radix
  /\ \A k \in 0 .. MaxDigits : Power[k] \in Nat \ {0}
<1> DEFINE V == Nat \ {0}
           h == [p \in V \X (0 + 1 .. MaxDigits) |-> p[1] * Radix]
           Rec(f) == f = [k \in 0 .. MaxDigits |-> IF k = 0 THEN 1 ELSE f[k-1] * Radix]
<1>1. /\ MaxDigits \in Nat /\ MaxDigits \in Int /\ 0 <= MaxDigits
      /\ Radix \in Nat \ {0} /\ 1 \in V /\ 0 \in Int
  BY OffsetMapAssumption
<1>2. IsStep(h, V, 0, MaxDigits)
  BY <1>1 DEF IsStep
<1>3. PICK f : IsRecursion(f, h, V, 0, MaxDigits, 1)
  <2> HIDE DEF h, V
  <2> QED
    BY <1>1, <1>2, RecursionExists
<1>4. Rec(f)
  <2>1. /\ f \in [0 .. MaxDigits -> V] /\ f[0] = 1
        /\ \A k \in 1 .. MaxDigits : f[k] = h[<<f[k-1], k>>]
    <3> HIDE DEF h, V
    <3> QED
      BY <1>3 DEF IsRecursion
  <2>2. ASSUME NEW v \in V, NEW k \in 1 .. MaxDigits
        PROVE  h[<<v, k>>] = v * Radix
    <3>1. <<v, k>> \in V \X (0 + 1 .. MaxDigits)
      OBVIOUS
    <3> QED
      BY <3>1
  <2>3. \A k \in 1 .. MaxDigits : f[k-1] \in V
    BY <1>1, <2>1
  <2>4. \A k \in 1 .. MaxDigits : f[k] = f[k-1] * Radix
    <3> HIDE DEF h, V
    <3> QED
      BY <2>1, <2>2, <2>3
  <2>5. \A k \in 0 .. MaxDigits : f[k] = IF k = 0 THEN 1 ELSE f[k-1] * Radix
    BY <2>1, <2>4
  <2>6. f = [k \in 0 .. MaxDigits |-> f[k]]
    BY <2>1
  <2> QED
    BY <2>5, <2>6
<1>5. Rec(Power)
  BY <1>4 DEF Power
<1>6. /\ Power[0] = 1
      /\ \A k \in 1 .. MaxDigits : Power[k] = Power[k-1] * Radix
  BY <1>1, <1>5
<1>7. \A k \in 1 .. MaxDigits : Power[k-1] \in V => Power[k] \in V
  BY <1>1, <1>6
<1>8. \A k \in 0 .. MaxDigits : Power[k] \in V
  <2> HIDE DEF V
  <2> QED
    BY <1>1, <1>6, <1>7, TypedFromZero
<1> QED
  BY <1>6, <1>8

\* A number with one more digit behind it is a number.
LEMMA DigitAppended ==
  /\ Radix \in Nat /\ Radix > 1
  /\ \A v \in Nat, byte \in Bytes : byte.len \in Nat /\ v * Radix + byte.len \in Nat
<1>1. Radix \in Nat /\ Radix > 1
  BY OffsetMapAssumption
<1>2. \A v \in Nat : v * Radix \in Nat
  BY <1>1
<1>3. \A byte \in Bytes : byte.len \in Nat
  BY <1>1 DEF Bytes
<1> QED
  BY <1>1, <1>2, <1>3

\* LengthOf is the last value of a function that reads digit by digit.
LEMMA LengthOfFunction ==
  ASSUME NEW diffs \in Seq(Bytes), NEW sub \in Nat, NEW end \in sub .. Len(diffs)
  PROVE  \E f : /\ LengthOf(diffs, sub, end) = f[end] /\ f[sub] = 0
                /\ \A i \in sub .. end : f[i] \in Nat
                /\ \A i \in sub + 1 .. end : f[i] = f[i-1] * Radix + diffs[i].len
<1> DEFINE L[i \in sub .. end] ==
             IF i = sub THEN 0 ELSE L[i-1] * Radix + diffs[i].len
           Rec(f) == f = [i \in sub .. end |->
                            IF i = sub THEN 0 ELSE f[i-1] * Radix + diffs[i].len]
           h == [p \in Nat \X (sub + 1 .. end) |-> p[1] * Radix + diffs[p[2]].len]
<1>1. LengthOf(diffs, sub, end) = L[end]
  BY DEF LengthOf
<1>2. /\ sub \in Int /\ end \in Int /\ sub <= end /\ 0 \in Nat /\ Radix \in Nat
      /\ \A v \in Nat, i \in sub + 1 .. end : v * Radix + diffs[i].len \in Nat
  <2>1. \A i \in sub + 1 .. end : diffs[i] \in Bytes
    OBVIOUS
  <2>2. \A v \in Nat, i \in sub + 1 .. end : v * Radix + diffs[i].len \in Nat
    BY <2>1, DigitAppended, Zenon
  <2> QED
    BY <2>2, DigitAppended
<1>3. IsStep(h, Nat, sub, end)
  BY <1>2 DEF IsStep
<1>4. PICK f : IsRecursion(f, h, Nat, sub, end, 0)
  <2> HIDE DEF h
  <2> QED
    BY <1>2, <1>3, RecursionExists
<1>5. /\ f \in [sub .. end -> Nat] /\ f[sub] = 0
      /\ \A i \in sub + 1 .. end : f[i] = h[<<f[i-1], i>>]
  <2> HIDE DEF h
  <2> QED
    BY <1>4 DEF IsRecursion
<1>6. \A v \in Nat, i \in sub + 1 .. end : h[<<v, i>>] = v * Radix + diffs[i].len
  <2> SUFFICES ASSUME NEW v \in Nat, NEW i \in sub + 1 .. end
               PROVE  h[<<v, i>>] = v * Radix + diffs[i].len
    OBVIOUS
  <2>1. <<v, i>> \in Nat \X (sub + 1 .. end)
    OBVIOUS
  <2> QED
    BY <2>1
<1>7. \A i \in sub + 1 .. end : f[i-1] \in Nat
  BY <1>2, <1>5
<1>8. \A i \in sub + 1 .. end : f[i] = f[i-1] * Radix + diffs[i].len
  <2> HIDE DEF h
  <2> QED
    BY <1>5, <1>6, <1>7
<1>9. Rec(f)
  <2>1. \A i \in sub .. end :
          f[i] = IF i = sub THEN 0 ELSE f[i-1] * Radix + diffs[i].len
    BY <1>5, <1>8
  <2>2. f = [i \in sub .. end |-> f[i]]
    BY <1>5
  <2> QED
    BY <2>1, <2>2
<1>10. Rec(L)
  BY <1>9
<1> HIDE DEF L, h
<1>11. /\ L[sub] = 0
       /\ \A i \in sub + 1 .. end : L[i] = L[i-1] * Radix + diffs[i].len
  BY <1>2, <1>10
<1>12. \A i \in sub .. end : i # sub /\ L[i-1] \in Nat => L[i] \in Nat
  <2>1. \A i \in sub .. end : i # sub => i \in sub + 1 .. end
    BY <1>2
  <2> QED
    BY <2>1, <1>2, <1>11, Zenon
<1>13. \A i \in sub .. end : L[i] \in Nat
  BY <1>2, <1>11, <1>12, RecursionTyped
<1> QED
  BY <1>1, <1>11, <1>13

\* A run that ends adds as many partners on each side as it is long there.
LEMMA ReadRunTyped ==
  ASSUME NEW read \in Reading, NEW op \in RunOps, NEW n \in Nat
  PROVE  LET r == ReadRun(read, op, n) IN
         /\ r \in Reading /\ r.length = 0
         /\ Len(r.fwd) = Len(read.fwd) + IF op = "insert" THEN 0 ELSE n
         /\ Len(r.back) = Len(read.back) + IF op = "delete" THEN 0 ELSE n
         /\ \A i \in 1 .. Len(r.fwd) : r.fwd[i] =
              IF i <= Len(read.fwd) THEN read.fwd[i]
              ELSE Len(read.back) + IF op = "copy" THEN i - Len(read.fwd) - 1 ELSE 0
         /\ \A i \in 1 .. Len(r.back) : r.back[i] =
              IF i <= Len(read.back) THEN read.back[i]
              ELSE Len(read.fwd) + IF op = "copy" THEN i - Len(read.back) - 1 ELSE 0
<1> DEFINE a == Len(read.fwd)
           aprime == Len(read.back)
           Partners(from) == [i \in 1 .. n |-> from + IF op = "copy" THEN i - 1 ELSE 0]
           r == ReadRun(read, op, n)
           b == IF op = "delete" THEN read.back ELSE read.back \o Partners(a)
           f == IF op = "insert" THEN read.fwd ELSE read.fwd \o Partners(aprime)
<1>1. /\ read.back \in Seq(Nat) /\ read.fwd \in Seq(Nat)
      /\ a \in Nat /\ aprime \in Nat
  BY DEF Reading
<1>2. ASSUME NEW s \in Seq(Nat), NEW x \in Nat
      PROVE  /\ s \o Partners(x) \in Seq(Nat) /\ Len(s \o Partners(x)) = Len(s) + n
             /\ \A i \in 1 .. Len(s) + n : (s \o Partners(x))[i] =
                  IF i <= Len(s) THEN s[i]
                  ELSE x + IF op = "copy" THEN i - Len(s) - 1 ELSE 0
  OBVIOUS
<1>3. /\ b \in Seq(Nat) /\ Len(b) = aprime + IF op = "delete" THEN 0 ELSE n
      /\ \A i \in 1 .. Len(b) : b[i] =
           IF i <= aprime THEN read.back[i]
           ELSE a + IF op = "copy" THEN i - aprime - 1 ELSE 0
  <2>1. CASE op = "delete"
    BY <1>1, <2>1
  <2>2. CASE op # "delete"
    <3>1. b = read.back \o Partners(a)
      BY <2>2
    <3> HIDE DEF Partners
    <3> DEFINE c == read.back \o Partners(a)
    <3>2. /\ c \in Seq(Nat) /\ Len(c) = Len(read.back) + n
          /\ \A i \in 1 .. Len(read.back) + n : c[i] =
               IF i <= Len(read.back) THEN read.back[i]
               ELSE a + IF op = "copy" THEN i - Len(read.back) - 1 ELSE 0
      BY <1>1, <1>2, Zenon
    <3> HIDE DEF c
    <3>3. b = c
      BY <3>1 DEF c
    <3> HIDE DEF b
    <3> QED
      BY <1>1, <2>2, <3>2, <3>3
  <2> QED
    BY <2>1, <2>2
<1>4. /\ f \in Seq(Nat) /\ Len(f) = a + IF op = "insert" THEN 0 ELSE n
      /\ \A i \in 1 .. Len(f) : f[i] =
           IF i <= a THEN read.fwd[i]
           ELSE aprime + IF op = "copy" THEN i - a - 1 ELSE 0
  <2>1. CASE op = "insert"
    BY <1>1, <2>1
  <2>2. CASE op # "insert"
    <3>1. f = read.fwd \o Partners(aprime)
      BY <2>2
    <3> HIDE DEF Partners
    <3> DEFINE c == read.fwd \o Partners(aprime)
    <3>2. /\ c \in Seq(Nat) /\ Len(c) = Len(read.fwd) + n
          /\ \A i \in 1 .. Len(read.fwd) + n : c[i] =
               IF i <= Len(read.fwd) THEN read.fwd[i]
               ELSE aprime + IF op = "copy" THEN i - Len(read.fwd) - 1 ELSE 0
      BY <1>1, <1>2, Zenon
    <3> HIDE DEF c
    <3>3. f = c
      BY <3>1 DEF c
    <3> HIDE DEF f
    <3> QED
      BY <1>1, <2>2, <3>2, <3>3
  <2> QED
    BY <2>1, <2>2
<1>5. r = [back |-> b, fwd |-> f, length |-> 0]
  BY DEF ReadRun
<1> HIDE DEF b, f, r
<1>6. r \in Reading /\ r.back = b /\ r.fwd = f /\ r.length = 0
  BY <1>3, <1>4, <1>5 DEF Reading
<1> QED
  BY <1>3, <1>4, <1>6 DEF r

\* What a run of each operation adds to the texts read.
LEMMA CopyRead ==
  ASSUME NEW r \in Reading, NEW n \in Nat
  PROVE  LET s == ReadRun(r, "copy", n) IN
         /\ s \in Reading /\ s.length = 0
         /\ Len(s.fwd) = Len(r.fwd) + n /\ Len(s.back) = Len(r.back) + n
         /\ \A i \in 1 .. Len(s.fwd) : s.fwd[i] =
              IF i <= Len(r.fwd) THEN r.fwd[i] ELSE Len(r.back) + i - Len(r.fwd) - 1
         /\ \A i \in 1 .. Len(s.back) : s.back[i] =
              IF i <= Len(r.back) THEN r.back[i] ELSE Len(r.fwd) + i - Len(r.back) - 1
<1> DEFINE a == Len(r.fwd)
           b == Len(r.back)
           op == "copy"
           s == ReadRun(r, op, n)
<1>1. a \in Nat /\ b \in Nat /\ op \in RunOps /\ op = "copy"
  BY DEF Reading, RunOps
<1> HIDE DEF op
<1>2. /\ s \in Reading /\ s.length = 0
      /\ Len(s.fwd) = a + IF op = "insert" THEN 0 ELSE n
      /\ Len(s.back) = b + IF op = "delete" THEN 0 ELSE n
      /\ \A i \in 1 .. Len(s.fwd) : s.fwd[i] =
           IF i <= a THEN r.fwd[i] ELSE b + IF op = "copy" THEN i - a - 1 ELSE 0
      /\ \A i \in 1 .. Len(s.back) : s.back[i] =
           IF i <= b THEN r.back[i] ELSE a + IF op = "copy" THEN i - b - 1 ELSE 0
  BY <1>1, ReadRunTyped
<1> HIDE DEF s, a, b
<1>3. /\ s \in Reading /\ s.length = 0 /\ Len(s.fwd) = a + n /\ Len(s.back) = b + n
      /\ \A i \in 1 .. Len(s.fwd) :
           s.fwd[i] = IF i <= a THEN r.fwd[i] ELSE b + i - a - 1
      /\ \A i \in 1 .. Len(s.back) :
           s.back[i] = IF i <= b THEN r.back[i] ELSE a + i - b - 1
  BY <1>1, <1>2
<1> QED
  BY <1>3 DEF s, a, b, op

\* Bytes inserted: their partners are all the end of A.
LEMMA InsertRead ==
  ASSUME NEW r \in Reading, NEW n \in Nat
  PROVE  LET s == ReadRun(r, "insert", n) IN
         /\ s \in Reading /\ s.length = 0
         /\ Len(s.fwd) = Len(r.fwd) /\ Len(s.back) = Len(r.back) + n
         /\ \A i \in 1 .. Len(s.fwd) : s.fwd[i] = r.fwd[i]
         /\ \A i \in 1 .. Len(s.back) : s.back[i] =
              IF i <= Len(r.back) THEN r.back[i] ELSE Len(r.fwd)
<1> DEFINE a == Len(r.fwd)
           b == Len(r.back)
           op == "insert"
           s == ReadRun(r, op, n)
<1>1. a \in Nat /\ b \in Nat /\ op \in RunOps /\ op = "insert"
  BY DEF Reading, RunOps
<1> HIDE DEF op
<1>2. /\ s \in Reading /\ s.length = 0
      /\ Len(s.fwd) = a + IF op = "insert" THEN 0 ELSE n
      /\ Len(s.back) = b + IF op = "delete" THEN 0 ELSE n
      /\ \A i \in 1 .. Len(s.fwd) : s.fwd[i] =
           IF i <= a THEN r.fwd[i] ELSE b + IF op = "copy" THEN i - a - 1 ELSE 0
      /\ \A i \in 1 .. Len(s.back) : s.back[i] =
           IF i <= b THEN r.back[i] ELSE a + IF op = "copy" THEN i - b - 1 ELSE 0
  BY <1>1, ReadRunTyped
<1> HIDE DEF s, a, b
<1>3. /\ s \in Reading /\ s.length = 0 /\ Len(s.fwd) = a /\ Len(s.back) = b + n
      /\ \A i \in 1 .. Len(s.fwd) : s.fwd[i] = r.fwd[i]
      /\ \A i \in 1 .. Len(s.back) : s.back[i] = IF i <= b THEN r.back[i] ELSE a
  BY <1>1, <1>2
<1> QED
  BY <1>3 DEF s, a, b, op

\* Bytes deleted: their partners are all the end of A'.
LEMMA DeleteRead ==
  ASSUME NEW r \in Reading, NEW n \in Nat
  PROVE  LET s == ReadRun(r, "delete", n) IN
         /\ s \in Reading /\ s.length = 0
         /\ Len(s.fwd) = Len(r.fwd) + n /\ Len(s.back) = Len(r.back)
         /\ \A i \in 1 .. Len(s.fwd) : s.fwd[i] =
              IF i <= Len(r.fwd) THEN r.fwd[i] ELSE Len(r.back)
         /\ \A i \in 1 .. Len(s.back) : s.back[i] = r.back[i]
<1> DEFINE a == Len(r.fwd)
           b == Len(r.back)
           op == "delete"
           s == ReadRun(r, op, n)
<1>1. a \in Nat /\ b \in Nat /\ op \in RunOps /\ op = "delete"
  BY DEF Reading, RunOps
<1> HIDE DEF op
<1>2. /\ s \in Reading /\ s.length = 0
      /\ Len(s.fwd) = a + IF op = "insert" THEN 0 ELSE n
      /\ Len(s.back) = b + IF op = "delete" THEN 0 ELSE n
      /\ \A i \in 1 .. Len(s.fwd) : s.fwd[i] =
           IF i <= a THEN r.fwd[i] ELSE b + IF op = "copy" THEN i - a - 1 ELSE 0
      /\ \A i \in 1 .. Len(s.back) : s.back[i] =
           IF i <= b THEN r.back[i] ELSE a + IF op = "copy" THEN i - b - 1 ELSE 0
  BY <1>1, ReadRunTyped
<1> HIDE DEF s, a, b
<1>3. /\ s \in Reading /\ s.length = 0 /\ Len(s.fwd) = a + n /\ Len(s.back) = b
      /\ \A i \in 1 .. Len(s.fwd) : s.fwd[i] = IF i <= a THEN r.fwd[i] ELSE b
      /\ \A i \in 1 .. Len(s.back) : s.back[i] = r.back[i]
  BY <1>1, <1>2
<1> QED
  BY <1>3 DEF s, a, b, op

\* A byte read makes a reading of a reading.
LEMMA ReadByteTyped ==
  ASSUME NEW read \in Reading, NEW byte \in Bytes
  PROVE  ReadByte(read, byte) \in Reading
<1>1. read.length \in Nat /\ byte.op \in {"prefix"} \cup RunOps
  BY DEF Reading, Bytes, RunOps
<1> DEFINE length == read.length * Radix + byte.len
<1>2. length \in Nat
  BY <1>1, DigitAppended
<1>3. ReadByte(read, byte) =
        IF byte.op = "prefix" THEN [read EXCEPT !.length = length]
        ELSE ReadRun(read, byte.op, length)
  BY DEF ReadByte
<1> HIDE DEF length
<1>4. [read EXCEPT !.length = length] \in Reading
  BY <1>2 DEF Reading
<1>5. byte.op # "prefix" => ReadRun(read, byte.op, length) \in Reading
  BY <1>1, <1>2, ReadRunTyped
<1> QED
  BY <1>3, <1>4, <1>5

\* Nothing read is a reading.
LEMMA NothingReadTyped == NothingRead \in Reading
BY DEF NothingRead, Reading

\* f reads the first n bytes one by one.
Reads(f, diffs, n) ==
  /\ f[0] = NothingRead
  /\ \A i \in 1 .. n : f[i] = ReadByte(f[i-1], diffs[i])

\* Read is the last value of a function that reads byte by byte.
LEMMA ReadFunction ==
  ASSUME NEW diffs \in Seq(Bytes), NEW n \in 0 .. Len(diffs)
  PROVE  \E f : /\ Read(diffs, n) = f[n] /\ Reads(f, diffs, n)
                /\ \A i \in 0 .. n : f[i] \in Reading
<1> DEFINE R[i \in 0 .. n] ==
             IF i = 0 THEN NothingRead ELSE ReadByte(R[i-1], diffs[i])
           Rec(f) == f = [i \in 0 .. n |->
                            IF i = 0 THEN NothingRead ELSE ReadByte(f[i-1], diffs[i])]
           h == [p \in Reading \X (0 + 1 .. n) |-> ReadByte(p[1], diffs[p[2]])]
<1>1. Read(diffs, n) = R[n]
  BY DEF Read
<1>2. /\ 0 \in Int /\ n \in Int /\ 0 <= n /\ n \in Nat
      /\ \A i \in 1 .. n : diffs[i] \in Bytes
      /\ \A i \in 0 + 1 .. n : diffs[i] \in Bytes
  OBVIOUS
<1>3. IsStep(h, Reading, 0, n)
  <2>1. \A p \in Reading \X (0 + 1 .. n) : ReadByte(p[1], diffs[p[2]]) \in Reading
    BY <1>2, ReadByteTyped
  <2> QED
    BY <2>1 DEF IsStep
<1>4. PICK f : IsRecursion(f, h, Reading, 0, n, NothingRead)
  <2> HIDE DEF h
  <2> QED
    BY <1>2, <1>3, NothingReadTyped, RecursionExists
<1>5. /\ f \in [0 .. n -> Reading] /\ f[0] = NothingRead
      /\ \A i \in 1 .. n : f[i] = h[<<f[i-1], i>>]
  <2> HIDE DEF h
  <2> QED
    BY <1>4 DEF IsRecursion
<1>6. \A v \in Reading, i \in 1 .. n : h[<<v, i>>] = ReadByte(v, diffs[i])
  <2> SUFFICES ASSUME NEW v \in Reading, NEW i \in 1 .. n
               PROVE  h[<<v, i>>] = ReadByte(v, diffs[i])
    OBVIOUS
  <2>1. <<v, i>> \in Reading \X (0 + 1 .. n)
    OBVIOUS
  <2> QED
    BY <2>1
<1>7. \A i \in 1 .. n : f[i-1] \in Reading
  BY <1>2, <1>5
<1>8. \A i \in 1 .. n : f[i] = ReadByte(f[i-1], diffs[i])
  <2> HIDE DEF h
  <2> QED
    BY <1>5, <1>6, <1>7
<1>9. Rec(f)
  <2>1. \A i \in 0 .. n :
          f[i] = IF i = 0 THEN NothingRead ELSE ReadByte(f[i-1], diffs[i])
    BY <1>5, <1>8
  <2>2. f = [i \in 0 .. n |-> f[i]]
    BY <1>5
  <2> QED
    BY <2>1, <2>2
<1>10. Rec(R)
  BY <1>9
<1> HIDE DEF R, h
<1>11. R[0] = NothingRead /\ \A i \in 1 .. n : R[i] = ReadByte(R[i-1], diffs[i])
  BY <1>2, <1>10
<1>12. \A i \in 1 .. n : R[i-1] \in Reading => R[i] \in Reading
  BY <1>2, <1>11, ReadByteTyped
<1>13. \A i \in 0 .. n : R[i] \in Reading
  BY <1>2, <1>11, <1>12, NothingReadTyped, TypedFromZero
<1> QED
  BY <1>1, <1>11, <1>13 DEF Reads

\* Whatever reads the first bytes of a map reads what Read does.
LEMMA ReadsIsRead ==
  ASSUME NEW diffs \in Seq(Bytes), NEW n \in 0 .. Len(diffs),
         NEW f, Reads(f, diffs, n)
  PROVE  \A k \in 0 .. n : f[k] = Read(diffs, k)
<1> SUFFICES ASSUME NEW k \in 0 .. n PROVE f[k] = Read(diffs, k)
  OBVIOUS
<1>1. k \in 0 .. Len(diffs) /\ k \in Int /\ 0 \in Int /\ k \in 0 .. k
  OBVIOUS
<1>2. PICK g : Read(diffs, k) = g[k] /\ Reads(g, diffs, k)
  BY <1>1, ReadFunction
<1>3. FollowAlike(f, g, k)
  BY <1>2 DEF Reads, FollowAlike
<1>4. \A i \in 0 .. k : f[i] = g[i]
  BY <1>1, <1>3, AgreesFromZero
<1> QED
  BY <1>1, <1>2, <1>4

\* Read adds byte by byte to what it has read, and tells bytes apart only by
\* what they are.
LEMMA ReadSteps ==
  ASSUME NEW diffs \in Seq(Bytes)
  PROVE  /\ Read(diffs, 0) = NothingRead
         /\ \A n \in 0 .. Len(diffs) : Read(diffs, n) \in Reading
         /\ \A n \in 1 .. Len(diffs) :
              Read(diffs, n) = ReadByte(Read(diffs, n - 1), diffs[n])
<1>1. Len(diffs) \in Nat /\ Len(diffs) \in 0 .. Len(diffs)
  OBVIOUS
<1>2. PICK f : /\ Reads(f, diffs, Len(diffs))
               /\ \A i \in 0 .. Len(diffs) : f[i] \in Reading
  BY <1>1, ReadFunction
<1>3. \A k \in 0 .. Len(diffs) : f[k] = Read(diffs, k)
  BY <1>1, <1>2, ReadsIsRead
<1>4. \A n \in 1 .. Len(diffs) : n \in 0 .. Len(diffs) /\ n - 1 \in 0 .. Len(diffs)
  BY <1>1
<1> QED
  BY <1>1, <1>2, <1>3, <1>4 DEF Reads

\* What the first bytes stand for does not depend on those behind them.
LEMMA ReadOfPrefix ==
  ASSUME NEW diffs \in Seq(Bytes), NEW other \in Seq(Bytes),
         NEW n \in 0 .. Len(diffs), n <= Len(other),
         \A i \in 1 .. n : other[i] = diffs[i]
  PROVE  Read(other, n) = Read(diffs, n)
<1>1. n \in 0 .. Len(other) /\ n \in 0 .. n
  OBVIOUS
<1>2. PICK f : Read(diffs, n) = f[n] /\ Reads(f, diffs, n)
  BY ReadFunction
<1>3. Reads(f, other, n)
  BY <1>2 DEF Reads
<1> QED
  BY <1>1, <1>2, <1>3, ReadsIsRead

-----------------------------------------------------------------------------
(* The runs: where they begin and end, and what they stand for *)

\* Where a run ends, no digit is left over.
LEMMA EndsReadNoDigits ==
  ASSUME NEW diffs \in Seq(Bytes), NEW n \in 0 .. Len(diffs), Ends(diffs, n)
  PROVE  Read(diffs, n).length = 0
<1>1. CASE n = 0
  BY <1>1, ReadSteps DEF NothingRead
<1>2. CASE n # 0
  <2>1. n \in 1 .. Len(diffs) /\ n - 1 \in 0 .. Len(diffs)
    BY <1>2
  <2>2. diffs[n] \in Bytes /\ Read(diffs, n - 1) \in Reading
    BY <2>1, ReadSteps
  <2>3. Read(diffs, n) = ReadByte(Read(diffs, n - 1), diffs[n])
    BY <2>1, ReadSteps
  <2> DEFINE read == Read(diffs, n - 1)
             byte == diffs[n]
  <2> HIDE DEF read, byte
  <2>4. /\ read \in Reading /\ byte \in Bytes
        /\ byte.op # "prefix" /\ Read(diffs, n) = ReadByte(read, byte)
    BY <1>2, <2>2, <2>3 DEF Ends, read, byte
  <2>5. byte.op \in RunOps /\ read.length * Radix + byte.len \in Nat
    BY <2>4, DigitAppended DEF Bytes, RunOps, Reading
  <2> QED
    BY <2>4, <2>5, ReadRunTyped DEF ReadByte
<1> QED
  BY <1>1, <1>2

\* The bytes of one run lie between sub and end.
Run(diffs, sub, end) ==
  /\ sub \in 0 .. end - 1 /\ end \in 1 .. Len(diffs)
  /\ Ends(diffs, sub) /\ Ends(diffs, end)
  /\ \A j \in sub + 1 .. end - 1 : diffs[j].op = "prefix"

\* At the end of a run another one begins, unless the map ends there.
LEMMA RunFollows ==
  ASSUME NEW diffs \in Seq(Bytes), NEW sub \in 0 .. Len(diffs) - 1,
         Ends(diffs, sub), Ends(diffs, Len(diffs))
  PROVE  LET run == ParseNext(diffs, sub) IN
         /\ Run(diffs, sub, run.sub) /\ run.op = diffs[run.sub].op
         /\ run.length = LengthOf(diffs, sub, run.sub)
<1> DEFINE ends == {e \in sub + 1 .. Len(diffs) : diffs[e].op # "prefix"}
           end == Min(ends)
           run == ParseNext(diffs, sub)
<1>1. ends \in SUBSET Nat /\ Len(diffs) \in ends
  BY DEF Ends
<1>2. end \in ends /\ \A e \in ends : end <= e
  <2> HIDE DEF ends
  <2> QED
    BY <1>1, MinIsLeast
<1> HIDE DEF end
<1>3. /\ end \in sub + 1 .. Len(diffs) /\ diffs[end].op # "prefix"
      /\ \A j \in sub + 1 .. end - 1 : diffs[j].op = "prefix"
  BY <1>2
<1>4. Run(diffs, sub, end)
  BY <1>3 DEF Run, Ends
<1>5. /\ run.sub = end /\ run.op = diffs[end].op
      /\ run.length = LengthOf(diffs, sub, end)
  BY <1>1, <1>3 DEF ParseNext, end
<1> QED
  BY <1>4, <1>5

\* Before the end of a run, Backup finds where that run begins.
LEMMA RunPrecedes ==
  ASSUME NEW diffs \in Seq(Bytes), NEW end \in 1 .. Len(diffs), Ends(diffs, end)
  PROVE  Run(diffs, Backup(diffs, end), end)
<1> DEFINE subs == {k \in 0 .. end - 1 :
                      \A j \in k + 1 .. end - 1 : diffs[j].op = "prefix"}
           sub == Min(subs)
<1>1. subs \in SUBSET Nat /\ end - 1 \in subs
  OBVIOUS
<1>2. sub \in subs /\ \A k \in subs : sub <= k
  <2> HIDE DEF subs
  <2> QED
    BY <1>1, MinIsLeast
<1>3. Backup(diffs, end) = sub
  BY DEF Backup
<1> HIDE DEF sub
<1>4. Ends(diffs, sub)
  <2> SUFFICES ASSUME sub # 0, diffs[sub].op = "prefix" PROVE FALSE
    BY DEF Ends
  <2>1. sub - 1 \in subs
    BY <1>2
  <2> QED
    BY <1>2, <2>1
<1> QED
  BY <1>2, <1>3, <1>4 DEF Run

\* A run has one beginning and one end.
LEMMA RunIsUnique ==
  ASSUME NEW diffs, NEW sub \in Nat, NEW other \in Nat, NEW end, NEW end2,
         Run(diffs, sub, end), Run(diffs, other, end2)
  PROVE  (sub = other) <=> (end = end2)
<1>1. /\ sub < end /\ other < end2 /\ end \in Int /\ end2 \in Int
      /\ end > 0 /\ end2 > 0
      /\ diffs[end].op # "prefix" /\ diffs[end2].op # "prefix"
      /\ sub # 0 => diffs[sub].op # "prefix"
      /\ other # 0 => diffs[other].op # "prefix"
  BY DEF Run, Ends
<1>2. /\ \A j \in sub + 1 .. end - 1 : diffs[j].op = "prefix"
      /\ \A j \in other + 1 .. end2 - 1 : diffs[j].op = "prefix"
  BY DEF Run
<1> QED
  BY <1>1, <1>2

\* What a run adds to what is read before it.
LEMMA RunReads ==
  ASSUME NEW diffs \in Seq(Bytes), NEW sub, NEW end, Run(diffs, sub, end)
  PROVE  /\ diffs[end].op \in RunOps /\ LengthOf(diffs, sub, end) \in Nat
         /\ Read(diffs, end) =
              ReadRun(Read(diffs, sub), diffs[end].op, LengthOf(diffs, sub, end))
<1>1. /\ sub \in Nat /\ end \in sub .. Len(diffs) /\ sub < end /\ end \in Int
      /\ sub \in 0 .. Len(diffs) /\ end \in 1 .. Len(diffs)
      /\ end - 1 \in sub .. end - 1 /\ end - 1 \in Int /\ sub \in Int
  BY DEF Run
<1>2. diffs[end] \in Bytes /\ diffs[end].op # "prefix"
  BY <1>1 DEF Run, Ends
<1>3. diffs[end].op \in RunOps
  BY <1>2 DEF Bytes, RunOps
<1>4. PICK f : /\ LengthOf(diffs, sub, end) = f[end] /\ f[sub] = 0
               /\ \A i \in sub .. end : f[i] \in Nat
               /\ \A i \in sub + 1 .. end : f[i] = f[i-1] * Radix + diffs[i].len
  BY <1>1, LengthOfFunction
<1> DEFINE r == Read(diffs, sub)
           S == {k \in sub .. end - 1 : Read(diffs, k) = [r EXCEPT !.length = f[k]]}
<1>5. r \in Reading /\ r.length = 0
  BY <1>1, ReadSteps, EndsReadNoDigits DEF Run
<1>6. sub \in S
  <2>1. r = [r EXCEPT !.length = 0]
    <3> HIDE DEF r
    <3> QED
      BY <1>5 DEF Reading
  <2> QED
    BY <1>1, <1>4, <2>1
<1> HIDE DEF r
<1>7. ASSUME NEW k \in sub .. (end - 1) - 1, k \in S PROVE k + 1 \in S
  <2>1. /\ k + 1 \in sub + 1 .. end - 1 /\ k + 1 \in 1 .. Len(diffs)
        /\ (k + 1) - 1 = k /\ k + 1 \in sub + 1 .. end
        /\ k + 1 \in sub .. end - 1
    BY <1>1
  <2>2. diffs[k+1].op = "prefix"
    BY <2>1 DEF Run
  <2>3. Read(diffs, k + 1) = ReadByte(Read(diffs, k), diffs[k+1])
    BY <2>1, ReadSteps
  <2>4. Read(diffs, k) = [r EXCEPT !.length = f[k]]
    BY <1>7
  <2>5. f[k+1] = f[k] * Radix + diffs[k+1].len
    BY <1>4, <2>1
  <2>6. Read(diffs, k + 1) = [r EXCEPT !.length = f[k+1]]
    BY <1>5, <2>2, <2>3, <2>4, <2>5 DEF ReadByte, Reading
  <2> QED
    BY <2>1, <2>6
<1>8. end - 1 \in S
  <2> HIDE DEF S
  <2> QED
    BY <1>1, <1>6, <1>7, UpFrom
<1>9. Read(diffs, end) = ReadByte([r EXCEPT !.length = f[end-1]], diffs[end])
  BY <1>1, <1>8, ReadSteps
<1>10. f[end] = f[end-1] * Radix + diffs[end].len /\ f[end] \in Nat
  BY <1>1, <1>4
<1>11. Read(diffs, end) = ReadRun([r EXCEPT !.length = f[end-1]], diffs[end].op, f[end])
  BY <1>2, <1>5, <1>9, <1>10 DEF ReadByte, Reading
<1>12. \A op, n : ReadRun([r EXCEPT !.length = f[end-1]], op, n) = ReadRun(r, op, n)
  BY <1>5 DEF ReadRun, Reading
<1> QED
  BY <1>3, <1>4, <1>10, <1>11, <1>12 DEF r

-----------------------------------------------------------------------------
(* Flushing: the bytes emitted for a run stand for it *)

\* Dividing by p and then by r is dividing by p * r.
LEMMA QuotientOfQuotient ==
  ASSUME NEW x \in Nat, NEW p \in Nat \ {0}, NEW r \in Nat \ {0}
  PROVE  (x \div (p * r)) * r + ((x \div p) % r) = x \div p
<1> DEFINE q == x \div p
           t == x % p
           k == q \div r
           s == q % r
           d == p * r
           u == p * s + t
<1>1. q \in Nat /\ t \in Nat /\ t < p /\ x = (p * q) + t
  OBVIOUS
<1> HIDE DEF q, t
<1>2. k \in Nat /\ s \in Nat /\ s + 1 <= r /\ q = (r * k) + s
  BY <1>1
<1> HIDE DEF k, s
<1>3. d \in Nat \ {0}
  OBVIOUS
<1>4. u \in Nat /\ u < d
  <2>1. p * (s + 1) <= p * r
    BY <1>2
  <2>2. p * (s + 1) = (p * s) + p
    BY <1>2
  <2>3. p * s \in Nat
    BY <1>2
  <2> QED
    BY <1>1, <2>1, <2>2, <2>3
<1>5. x = (d * k) + u
  <2>1. p * q = (p * (r * k)) + (p * s)
    BY <1>1, <1>2
  <2>2. p * (r * k) = (p * r) * k
    BY <1>2
  <2> QED
    BY <1>1, <1>2, <2>1, <2>2
<1> HIDE DEF d, u
<1>6. k = x \div d
  BY <1>2, <1>3, <1>4, <1>5
<1>7. k * r + s = q
  BY <1>2
<1> QED
  BY <1>6, <1>7 DEF q, s, k, d

\* The length of a run that Flush can emit.
Emittable == {n \in Nat : n > 0 /\ n < Power[MaxDigits]}

\* NumDigits finds a number of digits for every run that may be pending.
LEMMA DigitsSuffice ==
  ASSUME NEW length \in Emittable
  PROVE  NumDigits(length) \in 1 .. MaxDigits /\ length < Power[NumDigits(length)]
<1> DEFINE T == {k \in 1 .. MaxDigits : Power[k] > length}
<1>1. MaxDigits \in T /\ T \in SUBSET Nat
  BY OffsetMapAssumption DEF Emittable
<1>2. Min(T) \in T
  <2> HIDE DEF T
  <2> QED
    BY <1>1, MinIsLeast
<1> HIDE DEF Min
<1>3. /\ NumDigits(length) = Min(T) /\ Power[Min(T)] \in Nat
      /\ length \in Nat
  BY <1>2, PowerValues DEF NumDigits, Emittable
<1> QED
  BY <1>2, <1>3

\* The bytes of a run: prefixes with its digits, and its operation last.
LEMMA EncodedBytes ==
  ASSUME NEW op \in RunOps, NEW length \in Emittable
  PROVE  LET n == NumDigits(length)
             e == Encoded(op, length)
         IN  /\ n \in 1 .. MaxDigits /\ e \in Seq(Bytes) /\ Len(e) = n
             /\ e[n].op = op /\ \A i \in 1 .. n - 1 : e[i].op = "prefix"
             /\ \A i \in 1 .. n : e[i].len = (length \div Power[n-i]) % Radix
<1> DEFINE n == NumDigits(length)
           e == Encoded(op, length)
<1>1. n \in 1 .. MaxDigits /\ n \in Nat /\ Radix \in Nat \ {0} /\ length \in Nat
  BY DigitsSuffice, OffsetMapAssumption DEF Emittable
<1>2. e = [i \in 1 .. n |-> [op |-> IF i < n THEN "prefix" ELSE op,
                             len |-> (length \div Power[n-i]) % Radix]]
  BY DEF Encoded
<1> HIDE DEF n, e
<1>3. ASSUME NEW i \in 1 .. n
      PROVE  (length \div Power[n-i]) % Radix \in 0 .. Radix - 1
  <2>1. n - i \in 0 .. MaxDigits
    BY <1>1, OffsetMapAssumption
  <2>2. Power[n-i] \in Nat \ {0}
    BY <2>1, PowerValues
  <2>3. length \div Power[n-i] \in Nat
    BY <1>1, <2>2
  <2> QED
    BY <1>1, <2>3
<1>4. ASSUME NEW i \in 1 .. n PROVE e[i] \in Bytes
  <2> DEFINE l == (length \div Power[n-i]) % Radix
  <2>1. l \in 0 .. Radix - 1 /\ e[i] = [op |-> IF i < n THEN "prefix" ELSE op, len |-> l]
    BY <1>2, <1>3
  <2> HIDE DEF l
  <2> QED
    BY <2>1 DEF Bytes, RunOps
<1>5. e \in Seq(Bytes) /\ Len(e) = n
  <2>1. e \in [1 .. n -> Bytes]
    <3>1. DOMAIN e = 1 .. n /\ e = [i \in 1 .. n |-> e[i]]
      BY <1>2, Zenon
    <3> QED
      BY <1>4, <3>1
  <2> QED
    BY <1>1, <2>1
<1>6. \A i \in 1 .. n : /\ e[i].op = (IF i < n THEN "prefix" ELSE op)
                         /\ e[i].len = (length \div Power[n-i]) % Radix
  BY <1>2
<1>7. n \in 1 .. n /\ \A i \in 1 .. n - 1 : i \in 1 .. n /\ i < n
  BY <1>1
<1> QED
  BY <1>1, <1>5, <1>6, <1>7 DEF n, e

\* Readings with equal fields are equal.
LEMMA ReadingsEqual ==
  ASSUME NEW r \in Reading, NEW s \in Reading, r.length = s.length,
         Len(r.fwd) = Len(s.fwd), Len(r.back) = Len(s.back),
         \A i \in 1 .. Len(r.fwd) : r.fwd[i] = s.fwd[i],
         \A i \in 1 .. Len(r.back) : r.back[i] = s.back[i]
  PROVE  r = s
<1>1. /\ r.fwd \in Seq(Nat) /\ s.fwd \in Seq(Nat)
      /\ r.back \in Seq(Nat) /\ s.back \in Seq(Nat)
  BY DEF Reading
<1>2. r.fwd = s.fwd /\ r.back = s.back
  BY <1>1, SeqEqual
<1> QED
  BY <1>2 DEF Reading

\* s is r with a run of op that is n bytes long behind it.
RunAdded(r, op, n, s) ==
  /\ s \in Reading /\ s.length = 0
  /\ Len(s.fwd) = Len(r.fwd) + IF op = "insert" THEN 0 ELSE n
  /\ Len(s.back) = Len(r.back) + IF op = "delete" THEN 0 ELSE n
  /\ \A i \in 1 .. Len(s.fwd) : s.fwd[i] =
       IF i <= Len(r.fwd) THEN r.fwd[i]
       ELSE Len(r.back) + IF op = "copy" THEN i - Len(r.fwd) - 1 ELSE 0
  /\ \A i \in 1 .. Len(s.back) : s.back[i] =
       IF i <= Len(r.back) THEN r.back[i]
       ELSE Len(r.fwd) + IF op = "copy" THEN i - Len(r.back) - 1 ELSE 0

\* That is what ReadRun makes of it.
LEMMA ReadRunAdds ==
  ASSUME NEW r \in Reading, NEW op \in RunOps, NEW n \in Nat
  PROVE  RunAdded(r, op, n, ReadRun(r, op, n))
<1> DEFINE s == ReadRun(r, op, n)
<1>1. /\ s \in Reading /\ s.length = 0
      /\ Len(s.fwd) = Len(r.fwd) + IF op = "insert" THEN 0 ELSE n
      /\ Len(s.back) = Len(r.back) + IF op = "delete" THEN 0 ELSE n
      /\ \A i \in 1 .. Len(s.fwd) : s.fwd[i] =
           IF i <= Len(r.fwd) THEN r.fwd[i]
           ELSE Len(r.back) + IF op = "copy" THEN i - Len(r.fwd) - 1 ELSE 0
      /\ \A i \in 1 .. Len(s.back) : s.back[i] =
           IF i <= Len(r.back) THEN r.back[i]
           ELSE Len(r.fwd) + IF op = "copy" THEN i - Len(r.back) - 1 ELSE 0
  BY ReadRunTyped
<1> HIDE DEF s
<1> QED
  BY <1>1 DEF RunAdded, s

\* Two runs of one operation read like one.
LEMMA ReadRunTwice ==
  ASSUME NEW r \in Reading, NEW op \in RunOps, NEW j \in Nat, NEW k \in Nat
  PROVE  ReadRun(ReadRun(r, op, j), op, k) = ReadRun(r, op, j + k)
<1> DEFINE s == ReadRun(r, op, j)
           t == ReadRun(s, op, k)
           u == ReadRun(r, op, j + k)
           a == Len(r.fwd)
           b == Len(r.back)
           da(n) == IF op = "insert" THEN 0 ELSE n
           db(n) == IF op = "delete" THEN 0 ELSE n
           step(n) == IF op = "copy" THEN n ELSE 0
<1>1. /\ s \in Reading
      /\ Len(s.fwd) = a + da(j) /\ Len(s.back) = b + db(j)
      /\ \A i \in 1 .. Len(s.fwd) :
           s.fwd[i] = IF i <= a THEN r.fwd[i] ELSE b + step(i - a - 1)
      /\ \A i \in 1 .. Len(s.back) :
           s.back[i] = IF i <= b THEN r.back[i] ELSE a + step(i - b - 1)
  <2>1. RunAdded(r, op, j, s)
    BY ReadRunAdds, Zenon
  <2> HIDE DEF s
  <2> QED
    BY <2>1 DEF RunAdded
<1>2. /\ u \in Reading /\ u.length = 0
      /\ Len(u.fwd) = a + da(j + k) /\ Len(u.back) = b + db(j + k)
      /\ \A i \in 1 .. Len(u.fwd) :
           u.fwd[i] = IF i <= a THEN r.fwd[i] ELSE b + step(i - a - 1)
      /\ \A i \in 1 .. Len(u.back) :
           u.back[i] = IF i <= b THEN r.back[i] ELSE a + step(i - b - 1)
  <2>1. j + k \in Nat
    OBVIOUS
  <2>2. RunAdded(r, op, j + k, u)
    BY <2>1, ReadRunAdds, Zenon
  <2> HIDE DEF u
  <2> QED
    BY <2>2 DEF RunAdded
<1> HIDE DEF s
<1>3. /\ t \in Reading /\ t.length = 0
      /\ Len(t.fwd) = Len(s.fwd) + da(k) /\ Len(t.back) = Len(s.back) + db(k)
      /\ \A i \in 1 .. Len(t.fwd) :
           t.fwd[i] = IF i <= Len(s.fwd) THEN s.fwd[i]
                      ELSE Len(s.back) + step(i - Len(s.fwd) - 1)
      /\ \A i \in 1 .. Len(t.back) :
           t.back[i] = IF i <= Len(s.back) THEN s.back[i]
                       ELSE Len(s.fwd) + step(i - Len(s.back) - 1)
  <2>1. RunAdded(s, op, k, t)
    BY <1>1, ReadRunAdds, Zenon
  <2> HIDE DEF t
  <2> QED
    BY <2>1 DEF RunAdded
<1>4. a \in Nat /\ b \in Nat
  BY DEF Reading
<1> HIDE DEF t, u, a, b
<1>5. Len(t.fwd) = Len(u.fwd) /\ Len(t.back) = Len(u.back)
  BY <1>1, <1>2, <1>3, <1>4
<1>6. \A i \in 1 .. Len(t.fwd) : t.fwd[i] = u.fwd[i]
  <2> SUFFICES ASSUME NEW i \in 1 .. Len(t.fwd) PROVE t.fwd[i] = u.fwd[i]
    OBVIOUS
  <2>1. /\ i \in Nat /\ Len(s.fwd) \in Nat /\ i \in 1 .. Len(u.fwd)
        /\ u.fwd[i] = IF i <= a THEN r.fwd[i] ELSE b + step(i - a - 1)
        /\ t.fwd[i] = IF i <= Len(s.fwd) THEN s.fwd[i]
                      ELSE Len(s.back) + step(i - Len(s.fwd) - 1)
    BY <1>1, <1>2, <1>3, <1>4, <1>5
  <2>2. CASE i <= Len(s.fwd)
    <3>1. s.fwd[i] = IF i <= a THEN r.fwd[i] ELSE b + step(i - a - 1)
      BY <1>1, <2>1, <2>2
    <3> QED
      BY <2>1, <2>2, <3>1
  <2>3. CASE i > Len(s.fwd)
    <3>1. Len(s.fwd) = a + j /\ Len(s.back) = b + step(j) /\ op # "insert"
      BY <1>1, <1>3, <1>4, <2>1, <2>3 DEF RunOps
    <3>2. ~ (i <= a) /\ ~ (i <= Len(s.fwd))
      BY <1>4, <2>1, <2>3, <3>1
    <3>3. t.fwd[i] = (b + step(j)) + step(i - (a + j) - 1)
      BY <2>1, <3>1, <3>2
    <3>4. u.fwd[i] = b + step(i - a - 1)
      BY <2>1, <3>2
    <3> QED
      BY <1>4, <2>1, <3>3, <3>4
  <2>4. i <= Len(s.fwd) \/ i > Len(s.fwd)
    BY <2>1
  <2> QED
    BY <2>2, <2>3, <2>4
<1>7. \A i \in 1 .. Len(t.back) : t.back[i] = u.back[i]
  <2> SUFFICES ASSUME NEW i \in 1 .. Len(t.back) PROVE t.back[i] = u.back[i]
    OBVIOUS
  <2>1. /\ i \in Nat /\ Len(s.back) \in Nat /\ i \in 1 .. Len(u.back)
        /\ u.back[i] = IF i <= b THEN r.back[i] ELSE a + step(i - b - 1)
        /\ t.back[i] = IF i <= Len(s.back) THEN s.back[i]
                      ELSE Len(s.fwd) + step(i - Len(s.back) - 1)
    BY <1>1, <1>2, <1>3, <1>4, <1>5
  <2>2. CASE i <= Len(s.back)
    <3>1. s.back[i] = IF i <= b THEN r.back[i] ELSE a + step(i - b - 1)
      BY <1>1, <2>1, <2>2
    <3> QED
      BY <2>1, <2>2, <3>1
  <2>3. CASE i > Len(s.back)
    <3>1. Len(s.back) = b + j /\ Len(s.fwd) = a + step(j) /\ op # "delete"
      BY <1>1, <1>3, <1>4, <2>1, <2>3 DEF RunOps
    <3>2. ~ (i <= b) /\ ~ (i <= Len(s.back))
      BY <1>4, <2>1, <2>3, <3>1
    <3>3. t.back[i] = (a + step(j)) + step(i - (b + j) - 1)
      BY <2>1, <3>1, <3>2
    <3>4. u.back[i] = a + step(i - b - 1)
      BY <2>1, <3>2
    <3> QED
      BY <1>4, <2>1, <3>3, <3>4
  <2>4. i <= Len(s.back) \/ i > Len(s.back)
    BY <2>1
  <2> QED
    BY <2>2, <2>3, <2>4
<1>8. t = u
  <2>1. t \in Reading /\ u \in Reading /\ t.length = u.length
    BY <1>2, <1>3
  <2> QED
    BY <1>5, <1>6, <1>7, <2>1, ReadingsEqual, Zenon
<1> QED
  BY <1>8 DEF t, u, s

\* A run of no bytes stands for nothing.
LEMMA ReadNoRun ==
  ASSUME NEW r \in Reading, NEW op \in RunOps, r.length = 0
  PROVE  ReadRun(r, op, 0) = r
<1> DEFINE n == 0
           s == ReadRun(r, op, n)
<1>1. n \in Nat /\ n = 0
  OBVIOUS
<1> HIDE DEF n
<1>2. /\ s \in Reading /\ s.length = 0
      /\ Len(s.fwd) = Len(r.fwd) /\ Len(s.back) = Len(r.back)
      /\ \A i \in 1 .. Len(s.fwd) : s.fwd[i] = r.fwd[i]
      /\ \A i \in 1 .. Len(s.back) : s.back[i] = r.back[i]
  <2>1. Len(r.fwd) \in Nat /\ Len(r.back) \in Nat
    BY DEF Reading
  <2>2. /\ s \in Reading /\ s.length = 0
        /\ Len(s.fwd) = Len(r.fwd) + IF op = "insert" THEN 0 ELSE n
        /\ Len(s.back) = Len(r.back) + IF op = "delete" THEN 0 ELSE n
        /\ \A i \in 1 .. Len(s.fwd) : s.fwd[i] =
             IF i <= Len(r.fwd) THEN r.fwd[i]
             ELSE Len(r.back) + IF op = "copy" THEN i - Len(r.fwd) - 1 ELSE 0
        /\ \A i \in 1 .. Len(s.back) : s.back[i] =
             IF i <= Len(r.back) THEN r.back[i]
             ELSE Len(r.fwd) + IF op = "copy" THEN i - Len(r.back) - 1 ELSE 0
    BY <1>1, ReadRunTyped
  <2> HIDE DEF s
  <2>3. Len(s.fwd) = Len(r.fwd) /\ Len(s.back) = Len(r.back)
    BY <1>1, <2>1, <2>2
  <2>4. /\ \A i \in 1 .. Len(s.fwd) : i <= Len(r.fwd)
        /\ \A i \in 1 .. Len(s.back) : i <= Len(r.back)
    BY <2>1, <2>3
  <2> QED
    BY <2>2, <2>3, <2>4
<1> HIDE DEF s
<1>3. s = r
  BY <1>2, ReadingsEqual
<1> QED
  BY <1>3 DEF s, n

\* A run written behind a map is read behind it.
LEMMA EncodedReads ==
  ASSUME NEW diffs \in Seq(Bytes), Ends(diffs, Len(diffs)),
         NEW op \in RunOps, NEW length \in Emittable
  PROVE  LET all == diffs \o Encoded(op, length) IN
         /\ all \in Seq(Bytes) /\ all # <<>> /\ Ends(all, Len(all))
         /\ Read(all, Len(all)) = ReadRun(Read(diffs, Len(diffs)), op, length)
<1> DEFINE n == NumDigits(length)
           e == Encoded(op, length)
           k == Len(diffs)
           all == diffs \o e
<1>1. /\ n \in 1 .. MaxDigits /\ e \in Seq(Bytes) /\ Len(e) = n
      /\ e[n].op = op /\ \A i \in 1 .. n - 1 : e[i].op = "prefix"
      /\ \A i \in 1 .. n : e[i].len = (length \div Power[n-i]) % Radix
  BY EncodedBytes
<1>2. /\ n \in Nat \ {0} /\ k \in Nat /\ length \in Nat /\ length < Power[n]
      /\ MaxDigits \in Nat
  BY <1>1, DigitsSuffice, OffsetMapAssumption DEF Emittable
<1> HIDE DEF n, e
<1>3. /\ all \in Seq(Bytes) /\ Len(all) = k + n
      /\ \A i \in 1 .. k : all[i] = diffs[i]
      /\ \A i \in 1 .. n : all[k+i] = e[i]
  BY <1>1, <1>2
<1> HIDE DEF all, k
<1>4. Run(all, k, k + n)
  <2>1. \A j \in k + 1 .. (k + n) - 1 : all[j].op = "prefix"
    <3> SUFFICES ASSUME NEW j \in k + 1 .. (k + n) - 1 PROVE all[j].op = "prefix"
      OBVIOUS
    <3>1. j - k \in 1 .. n - 1 /\ j - k \in 1 .. n /\ k + (j - k) = j
      BY <1>2
    <3> QED
      BY SMTT(30), <1>1, <1>3, <3>1
  <2>2. all[k+n].op # "prefix"
    BY <1>1, <1>2, <1>3 DEF RunOps
  <2>3. Ends(all, k)
    BY SMTT(30), <1>2, <1>3 DEF Ends, k
  <2> QED
    BY <1>2, <1>3, <2>1, <2>2, <2>3 DEF Run, Ends
<1>5. LengthOf(all, k, k + n) = length
  <2>1. k + n \in k .. Len(all)
    BY <1>2, <1>3
  <2>2. PICK f : /\ LengthOf(all, k, k + n) = f[k+n] /\ f[k] = 0
                 /\ \A i \in k .. k + n : f[i] \in Nat
                 /\ \A i \in k + 1 .. k + n : f[i] = f[i-1] * Radix + all[i].len
    BY <1>2, <1>3, <2>1, LengthOfFunction
  <2> DEFINE S == {i \in k .. k + n : f[i] = length \div Power[n-(i-k)]}
  <2>3. k \in S
    <3>1. n - (k - k) = n /\ k \in k .. k + n
      BY <1>2
    <3>2. length \div Power[n] = 0
      <4>1. Power[n] \in Nat \ {0}
        BY <1>1, <1>2, PowerValues
      <4> QED
        BY <1>2, <4>1
    <3> QED
      BY <2>2, <3>1, <3>2
  <2>4. ASSUME NEW i \in k .. (k + n) - 1, i \in S PROVE i + 1 \in S
    <3> DEFINE q == n - (i - k)
    <3>1. /\ i \in Int /\ i + 1 \in k + 1 .. k + n /\ (i + 1) - 1 = i
          /\ (i + 1) - k \in 1 .. n /\ k + ((i + 1) - k) = i + 1
          /\ q \in 1 .. MaxDigits /\ n - ((i + 1) - k) = q - 1
          /\ q - 1 \in 0 .. MaxDigits
      BY <1>1, <1>2
    <3>2. f[i] = length \div Power[q]
      BY <2>4
    <3> HIDE DEF q
    <3>3. Power[q] = Power[q-1] * Radix /\ Power[q-1] \in Nat \ {0}
      BY <3>1, PowerValues
    <3>4. all[i+1].len = (length \div Power[q-1]) % Radix
      BY SMTT(30), <1>1, <1>3, <3>1
    <3>5. f[i+1] = (length \div Power[q]) * Radix + ((length \div Power[q-1]) % Radix)
      BY <2>2, <3>1, <3>2, <3>4
    <3>6. Radix \in Nat \ {0}
      BY OffsetMapAssumption
    <3>7. f[i+1] = length \div Power[q-1]
      <4>1. (length \div (Power[q-1] * Radix)) * Radix + ((length \div Power[q-1]) % Radix)
              = length \div Power[q-1]
        BY <1>2, <3>3, <3>6, QuotientOfQuotient, Zenon
      <4> QED
        BY <3>3, <3>5, <4>1, Zenon
    <3>8. /\ n - ((i + 1) - k) = q - 1
          /\ i + 1 \in k .. k + n
      BY <1>2, <3>1
    <3>9. f[i+1] = length \div Power[n-((i+1)-k)]
      BY <3>7, <3>8, Zenon
    <3> QED
      BY <3>8, <3>9
  <2>5. k + n \in k .. k + n /\ k + n \in Int /\ k \in Int
    BY <1>2
  <2>6. k + n \in S
    <3> HIDE DEF S
    <3> QED
      BY <2>3, <2>4, <2>5, UpFrom
  <2>7. n - ((k + n) - k) = 0
    BY <1>2
  <2>8. length \div Power[0] = length
    BY <1>2, PowerValues
  <2> QED
    BY <2>2, <2>6, <2>7, <2>8
<1>6. all[k+n].op = op
  BY <1>1, <1>2, <1>3
<1>7. Read(all, k + n) = ReadRun(Read(all, k), op, length)
  BY <1>3, <1>4, <1>5, <1>6, RunReads
<1>8. Read(all, k) = Read(diffs, k)
  <2>1. k \in 0 .. Len(diffs) /\ k <= Len(all)
    BY <1>2, <1>3 DEF k
  <2> QED
    BY <1>3, <2>1, ReadOfPrefix
<1>9. Ends(all, Len(all)) /\ all # <<>>
  BY <1>2, <1>3, <1>4 DEF Run
<1> QED
  BY <1>3, <1>7, <1>8, <1>9 DEF all, e, k

\* A copy added to the last byte of a map is read as added to its last run.
LEMMA MergedReads ==
  ASSUME NEW diffs \in Seq(Bytes), diffs # <<>>, NEW n \in Nat,
         diffs[Len(diffs)].op = "copy", diffs[Len(diffs)].len + n < Radix
  PROVE  LET all == [diffs EXCEPT ![Len(diffs)].len = @ + n] IN
         /\ all \in Seq(Bytes) /\ all # <<>> /\ Ends(all, Len(all))
         /\ Read(all, Len(all)) = ReadRun(Read(diffs, Len(diffs)), "copy", n)
<1> DEFINE k == Len(diffs)
           last == diffs[k]
           new == [last EXCEPT !.len = @ + n]
           all == [diffs EXCEPT ![k] = new]
           read == Read(diffs, k - 1)
           l == read.length * Radix + last.len
<1>1. /\ k \in Nat \ {0} /\ k \in 1 .. Len(diffs) /\ k - 1 \in 0 .. Len(diffs)
      /\ last \in Bytes /\ last.op = "copy" /\ last.len + n < Radix
      /\ \A i \in 1 .. k - 1 : i \in 1 .. Len(diffs)
  OBVIOUS
<1> HIDE DEF last
<1>2. new \in Bytes /\ new.op = "copy" /\ new.len = last.len + n /\ last.len \in Nat
  BY SMTT(30), <1>1, OffsetMapAssumption DEF Bytes
<1> HIDE DEF new
<1>3. /\ all \in Seq(Bytes) /\ Len(all) = k /\ all[k] = new
      /\ \A i \in 1 .. k - 1 : all[i] = diffs[i]
  BY <1>1, <1>2
<1>4. all = [diffs EXCEPT ![Len(diffs)].len = @ + n]
  BY DEF new, last
<1> HIDE DEF all, k
<1>5. Read(all, k - 1) = read
  BY <1>1, <1>3, ReadOfPrefix
<1>6. read \in Reading
  BY <1>1, ReadSteps
<1>7. Read(all, k) = ReadByte(read, new)
  <2>1. k \in 1 .. Len(all)
    BY <1>1, <1>3
  <2> QED
    BY <1>3, <1>5, <2>1, ReadSteps
<1>8. Read(diffs, k) = ReadByte(read, last)
  BY <1>1, ReadSteps DEF last
<1> HIDE DEF read
<1>9. l \in Nat /\ read.length * Radix \in Nat
  <2>1. read.length \in Nat /\ Radix \in Nat
    BY <1>6, DigitAppended DEF Reading
  <2>2. read.length * Radix \in Nat
    BY <2>1
  <2> QED
    BY <1>1, <2>1, <2>2, DigitAppended
<1>10. Read(diffs, k) = ReadRun(read, "copy", l)
  BY <1>1, <1>8 DEF ReadByte
<1>11. Read(all, k) = ReadRun(read, "copy", l + n)
  <2>1. read.length * Radix + new.len = l + n
    BY <1>2, <1>9
  <2> HIDE DEF l
  <2> QED
    BY <1>2, <1>7, <2>1 DEF ReadByte
<1> HIDE DEF l
<1>12. Read(all, k) = ReadRun(Read(diffs, k), "copy", n)
  BY <1>6, <1>9, <1>10, <1>11, ReadRunTwice DEF RunOps
<1>13. all # <<>> /\ Ends(all, k)
  BY <1>1, <1>2, <1>3 DEF Ends
<1> QED
  BY <1>3, <1>4, <1>12, <1>13 DEF k

\* d is what the bytes of the map become when its pending run is flushed.
Flushed(map, d) ==
  /\ d \in Seq(Bytes) /\ Ends(d, Len(d))
  /\ Read(d, Len(d)) = ReadAll(map)
  /\ d = <<>> => map.diffs = <<>> /\ map.pending_length = 0

\* Flush writes what was pending, and changes nothing else.
LEMMA FlushReads ==
  ASSUME NEW map \in Maps, Ends(map.diffs, Len(map.diffs)),
         map.pending_length < Power[MaxDigits]
  PROVE  \E d : /\ Flushed(map, d)
                /\ Flush(map) = [map EXCEPT !.diffs = d, !.pending_length = 0]
<1> DEFINE diffs == map.diffs
           op == map.pending_op
           n == map.pending_length
<1>1. diffs \in Seq(Bytes) /\ op \in RunOps /\ n \in Nat /\ Len(diffs) \in 0 .. Len(diffs)
  BY DEF Maps
<1>2. CASE n = 0
  <2>1. Flush(map) = [map EXCEPT !.diffs = diffs, !.pending_length = 0]
    BY <1>2 DEF Flush, Maps
  <2>2. ReadAll(map) = Read(diffs, Len(diffs))
    BY <1>1, <1>2, ReadSteps, EndsReadNoDigits, ReadNoRun DEF ReadAll, ReadBytes
  <2> QED
    BY <1>1, <1>2, <2>1, <2>2 DEF Flushed
<1>3. CASE n # 0 /\ MergesIntoLast(map)
  <2> DEFINE d == [diffs EXCEPT ![Len(diffs)].len = @ + n]
  <2>1. /\ diffs # <<>> /\ op = "copy"
        /\ diffs[Len(diffs)].op = "copy" /\ diffs[Len(diffs)].len + n < Radix
    BY <1>3 DEF MergesIntoLast
  <2>2. Flush(map) = [map EXCEPT !.diffs = d, !.pending_length = 0]
    BY <1>3 DEF Flush, Maps
  <2> HIDE DEF d
  <2>3. /\ d \in Seq(Bytes) /\ d # <<>> /\ Ends(d, Len(d))
        /\ Read(d, Len(d)) = ReadRun(Read(diffs, Len(diffs)), "copy", n)
    BY <1>1, <2>1, MergedReads DEF d
  <2> QED
    BY <2>1, <2>2, <2>3 DEF Flushed, ReadAll, ReadBytes
<1>4. CASE n # 0 /\ ~ MergesIntoLast(map)
  <2> DEFINE d == diffs \o Encoded(op, n)
  <2>1. Flush(map) = [map EXCEPT !.diffs = d, !.pending_length = 0]
    BY <1>4 DEF Flush
  <2>2. n \in Emittable
    BY <1>1, <1>4 DEF Emittable
  <2> HIDE DEF d
  <2>3. /\ d \in Seq(Bytes) /\ d # <<>> /\ Ends(d, Len(d))
        /\ Read(d, Len(d)) = ReadRun(Read(diffs, Len(diffs)), op, n)
    BY <1>1, <2>2, EncodedReads DEF d
  <2> QED
    BY <2>1, <2>3 DEF Flushed, ReadAll, ReadBytes
<1> QED
  BY <1>2, <1>3, <1>4

\* d is what the bytes of the map become when a run of n bytes is added.
Pended(map, op, n, d) ==
  LET k == IF map.pending_op = op THEN map.pending_length + n ELSE n
  IN  /\ d \in Seq(Bytes) /\ Ends(d, Len(d))
      /\ Pend(map, op, n) =
           [map EXCEPT !.diffs = d, !.pending_op = op, !.pending_length = k]
      /\ ReadRun(Read(d, Len(d)), op, k) = ReadRun(ReadAll(map), op, n)

\* Extending the pending run, or flushing it and beginning another, adds a
\* run to what the map stands for.
LEMMA PendReads ==
  ASSUME NEW map \in Maps, Ends(map.diffs, Len(map.diffs)),
         map.pending_length < Power[MaxDigits],
         NEW op \in RunOps, NEW n \in Nat \ {0}
  PROVE  \E d : Pended(map, op, n, d)
<1> DEFINE diffs == map.diffs
           read == ReadBytes(map)
<1>1. /\ diffs \in Seq(Bytes) /\ map.pending_op \in RunOps /\ map.pending_length \in Nat
      /\ Len(diffs) \in 0 .. Len(diffs)
  BY DEF Maps
<1>2. read \in Reading
  BY <1>1, ReadSteps DEF ReadBytes
<1>3. CASE map.pending_op = op
  <2>1. Pend(map, op, n) =
          [map EXCEPT !.diffs = diffs, !.pending_op = op,
                      !.pending_length = map.pending_length + n]
    BY <1>3 DEF Pend, Maps
  <2>2. ReadRun(read, op, map.pending_length + n) = ReadRun(ReadAll(map), op, n)
    BY <1>1, <1>2, <1>3, ReadRunTwice DEF ReadAll
  <2> QED
    BY <1>1, <1>3, <2>1, <2>2 DEF Pended, ReadBytes
<1>4. CASE map.pending_op # op
  <2>1. PICK d : /\ Flushed(map, d)
                 /\ Flush(map) = [map EXCEPT !.diffs = d, !.pending_length = 0]
    BY FlushReads
  <2>2. Pend(map, op, n) =
          [map EXCEPT !.diffs = d, !.pending_op = op, !.pending_length = n]
    BY <1>4, <2>1 DEF Pend, Maps
  <2> QED
    BY <1>4, <2>1, <2>2 DEF Flushed, Pended
<1> QED
  BY <1>3, <1>4

-----------------------------------------------------------------------------
(* Building: the map stands for the alignment *)

\* The reading of an alignment.
LEMMA ReadingOfTyped ==
  ASSUME NEW al \in AlignmentSet
  PROVE  /\ ReadingOf(al) \in Reading /\ ReadingOf(al).length = 0
         /\ ReadingOf(al).back = al.back /\ ReadingOf(al).fwd = al.fwd
BY DEF ReadingOf, Reading, AlignmentSet

\* An operation that is not folded adds a run to the alignment.
LEMMA AlignReads ==
  ASSUME NEW al \in AlignmentSet, NEW n \in Nat \ {0}
  PROVE  /\ ReadRun(ReadingOf(al), "copy", n) = ReadingOf(CopyBytes(al, n))
         /\ ~ Replaces(al, n, "delete") =>
              ReadRun(ReadingOf(al), "insert", n) = ReadingOf(InsertBytes(al, n))
         /\ ~ Replaces(al, n, "insert") =>
              ReadRun(ReadingOf(al), "delete", n) = ReadingOf(DeleteBytes(al, n))
<1> DEFINE r == ReadingOf(al)
<1>1. /\ r \in Reading /\ r.back = al.back /\ r.fwd = al.fwd /\ n \in Nat
      /\ MaxA(al) \in Nat /\ MaxAprime(al) \in Nat
      /\ Len(r.fwd) = MaxA(al) /\ Len(r.back) = MaxAprime(al)
  BY ReadingOfTyped DEF MaxA, MaxAprime, AlignmentSet
<1> HIDE DEF r
<1>2. ReadRun(r, "copy", n) = ReadingOf(CopyBytes(al, n))
  <2> DEFINE c == CopyBytes(al, n)
             s == ReadRun(r, "copy", n)
  <2>1. /\ c \in AlignmentSet
        /\ MaxA(c) = MaxA(al) + n /\ MaxAprime(c) = MaxAprime(al) + n
        /\ \A i \in 1 .. MaxAprime(c) : c.back[i] =
             IF i <= MaxAprime(al) THEN al.back[i] ELSE MaxA(al) + i - MaxAprime(al) - 1
        /\ \A i \in 1 .. MaxA(c) : c.fwd[i] =
             IF i <= MaxA(al) THEN al.fwd[i] ELSE MaxAprime(al) + i - MaxA(al) - 1
    BY <1>1, CopyBytesAt
  <2>2. /\ s \in Reading /\ s.length = 0
        /\ Len(s.fwd) = MaxA(al) + n /\ Len(s.back) = MaxAprime(al) + n
        /\ \A i \in 1 .. Len(s.fwd) : s.fwd[i] =
             IF i <= MaxA(al) THEN al.fwd[i] ELSE MaxAprime(al) + i - MaxA(al) - 1
        /\ \A i \in 1 .. Len(s.back) : s.back[i] =
             IF i <= MaxAprime(al) THEN al.back[i] ELSE MaxA(al) + i - MaxAprime(al) - 1
    <3>1. /\ s \in Reading /\ s.length = 0
          /\ Len(s.fwd) = Len(r.fwd) + n /\ Len(s.back) = Len(r.back) + n
          /\ \A i \in 1 .. Len(s.fwd) : s.fwd[i] =
               IF i <= Len(r.fwd) THEN r.fwd[i] ELSE Len(r.back) + i - Len(r.fwd) - 1
          /\ \A i \in 1 .. Len(s.back) : s.back[i] =
               IF i <= Len(r.back) THEN r.back[i] ELSE Len(r.fwd) + i - Len(r.back) - 1
      BY <1>1, CopyRead
    <3> HIDE DEF s
    <3> QED
      BY <1>1, <3>1
  <2> HIDE DEF c, s
  <2> DEFINE t == ReadingOf(c)
  <2>3. /\ t \in Reading /\ t.length = 0 /\ t.back = c.back /\ t.fwd = c.fwd
        /\ Len(t.fwd) = MaxA(c) /\ Len(t.back) = MaxAprime(c)
    BY <2>1, ReadingOfTyped DEF MaxA, MaxAprime
  <2> HIDE DEF t
  <2>4. /\ \A i \in 1 .. Len(s.fwd) : s.fwd[i] = t.fwd[i]
        /\ \A i \in 1 .. Len(s.back) : s.back[i] = t.back[i]
    BY <1>1, <2>1, <2>2, <2>3
  <2>5. s = t
    BY <2>1, <2>2, <2>3, <2>4, ReadingsEqual
  <2> QED
    BY <2>5 DEF s, t, c
<1>3. ASSUME ~ Replaces(al, n, "delete")
      PROVE  ReadRun(r, "insert", n) = ReadingOf(InsertBytes(al, n))
  <2> DEFINE c == InsertBytes(al, n)
             s == ReadRun(r, "insert", n)
  <2>1. /\ c \in AlignmentSet /\ c.fwd = al.fwd
        /\ MaxA(c) = MaxA(al) /\ MaxAprime(c) = MaxAprime(al) + n
        /\ \A i \in 1 .. MaxAprime(c) : c.back[i] =
             IF i <= MaxAprime(al) THEN al.back[i] ELSE MaxA(al)
    BY <1>1, <1>3, InsertBytesAt DEF MaxA
  <2>2. /\ s \in Reading /\ s.length = 0
        /\ Len(s.fwd) = MaxA(al) /\ Len(s.back) = MaxAprime(al) + n
        /\ \A i \in 1 .. Len(s.fwd) : s.fwd[i] = al.fwd[i]
        /\ \A i \in 1 .. Len(s.back) : s.back[i] =
             IF i <= MaxAprime(al) THEN al.back[i] ELSE MaxA(al)
    <3>1. /\ s \in Reading /\ s.length = 0
          /\ Len(s.fwd) = Len(r.fwd) /\ Len(s.back) = Len(r.back) + n
          /\ \A i \in 1 .. Len(s.fwd) : s.fwd[i] = r.fwd[i]
          /\ \A i \in 1 .. Len(s.back) : s.back[i] =
               IF i <= Len(r.back) THEN r.back[i] ELSE Len(r.fwd)
      BY <1>1, InsertRead
    <3> HIDE DEF s
    <3> QED
      BY <1>1, <3>1
  <2> HIDE DEF c, s
  <2> DEFINE t == ReadingOf(c)
  <2>3. /\ t \in Reading /\ t.length = 0 /\ t.back = c.back /\ t.fwd = c.fwd
        /\ Len(t.fwd) = MaxA(c) /\ Len(t.back) = MaxAprime(c)
    BY <2>1, ReadingOfTyped DEF MaxA, MaxAprime
  <2> HIDE DEF t
  <2>4. /\ \A i \in 1 .. Len(s.fwd) : s.fwd[i] = t.fwd[i]
        /\ \A i \in 1 .. Len(s.back) : s.back[i] = t.back[i]
    BY <1>1, <2>1, <2>2, <2>3
  <2>5. s = t
    BY <2>1, <2>2, <2>3, <2>4, ReadingsEqual
  <2> QED
    BY <2>5 DEF s, t, c
<1>4. ASSUME ~ Replaces(al, n, "insert")
      PROVE  ReadRun(r, "delete", n) = ReadingOf(DeleteBytes(al, n))
  <2> DEFINE c == DeleteBytes(al, n)
             s == ReadRun(r, "delete", n)
  <2>1. /\ c \in AlignmentSet /\ c.back = al.back
        /\ MaxA(c) = MaxA(al) + n /\ MaxAprime(c) = MaxAprime(al)
        /\ \A i \in 1 .. MaxA(c) : c.fwd[i] =
             IF i <= MaxA(al) THEN al.fwd[i] ELSE MaxAprime(al)
    BY <1>1, <1>4, DeleteBytesAt DEF MaxAprime
  <2>2. /\ s \in Reading /\ s.length = 0
        /\ Len(s.fwd) = MaxA(al) + n /\ Len(s.back) = MaxAprime(al)
        /\ \A i \in 1 .. Len(s.fwd) : s.fwd[i] =
             IF i <= MaxA(al) THEN al.fwd[i] ELSE MaxAprime(al)
        /\ \A i \in 1 .. Len(s.back) : s.back[i] = al.back[i]
    <3>1. /\ s \in Reading /\ s.length = 0
          /\ Len(s.fwd) = Len(r.fwd) + n /\ Len(s.back) = Len(r.back)
          /\ \A i \in 1 .. Len(s.fwd) : s.fwd[i] =
               IF i <= Len(r.fwd) THEN r.fwd[i] ELSE Len(r.back)
          /\ \A i \in 1 .. Len(s.back) : s.back[i] = r.back[i]
      BY <1>1, DeleteRead
    <3> HIDE DEF s
    <3> QED
      BY <1>1, <3>1
  <2> HIDE DEF c, s
  <2> DEFINE t == ReadingOf(c)
  <2>3. /\ t \in Reading /\ t.length = 0 /\ t.back = c.back /\ t.fwd = c.fwd
        /\ Len(t.fwd) = MaxA(c) /\ Len(t.back) = MaxAprime(c)
    BY <2>1, ReadingOfTyped DEF MaxA, MaxAprime
  <2> HIDE DEF t
  <2>4. /\ \A i \in 1 .. Len(s.fwd) : s.fwd[i] = t.fwd[i]
        /\ \A i \in 1 .. Len(s.back) : s.back[i] = t.back[i]
    BY <1>1, <2>1, <2>2, <2>3
  <2>5. s = t
    BY <2>1, <2>2, <2>3, <2>4, ReadingsEqual
  <2> QED
    BY <2>5 DEF s, t, c
<1> QED
  BY <1>2, <1>3, <1>4 DEF r

\* "Special-case exactly delete(1) insert(1) => copy(1)": the last byte was
\* deleted, so that the byte inserted for it is its copy; and the reverse.
LEMMA FoldReads ==
  ASSUME NEW r \in Reading, NEW al \in AlignmentSet, NEW n \in Nat, n = 1
  PROVE  /\ Replaces(al, n, "delete") /\ ReadRun(r, "delete", n) = ReadingOf(al) =>
              MaxA(al) > 0 /\ ReadRun(r, "copy", n) = ReadingOf(InsertBytes(al, n))
         /\ Replaces(al, n, "insert") /\ ReadRun(r, "insert", n) = ReadingOf(al) =>
              MaxAprime(al) > 0 /\ ReadRun(r, "copy", n) = ReadingOf(DeleteBytes(al, n))
<1> DEFINE a == Len(r.fwd)
           b == Len(r.back)
           s == ReadRun(r, "copy", n)
           d == ReadingOf(al)
<1>1. /\ a \in Nat /\ b \in Nat
      /\ "copy" \in RunOps /\ "insert" \in RunOps /\ "delete" \in RunOps
  BY DEF Reading, RunOps
<1>2. /\ s \in Reading /\ s.length = 0 /\ Len(s.fwd) = a + n /\ Len(s.back) = b + n
      /\ \A i \in 1 .. Len(s.fwd) : s.fwd[i] =
           IF i <= a THEN r.fwd[i] ELSE b + i - a - 1
      /\ \A i \in 1 .. Len(s.back) : s.back[i] =
           IF i <= b THEN r.back[i] ELSE a + i - b - 1
  BY CopyRead
<1>3. /\ d.back = al.back /\ d.fwd = al.fwd
      /\ Len(d.fwd) = MaxA(al) /\ Len(d.back) = MaxAprime(al)
  BY ReadingOfTyped DEF MaxA, MaxAprime
<1> HIDE DEF s, d, a, b
<1>4. ASSUME Replaces(al, n, "delete"), ReadRun(r, "delete", n) = d
      PROVE  MaxA(al) > 0 /\ s = ReadingOf(InsertBytes(al, n))
  <2> DEFINE c == InsertBytes(al, n)
             t == ReadingOf(c)
  <2>1. /\ MaxA(al) = a + n /\ MaxAprime(al) = b
        /\ \A i \in 1 .. a + n : al.fwd[i] = IF i <= a THEN r.fwd[i] ELSE b
        /\ \A i \in 1 .. b : al.back[i] = r.back[i]
    BY <1>3, <1>4, DeleteRead DEF a, b
  <2>2. MaxA(al) > 0
    BY <1>1, <2>1
  <2>3. /\ c \in AlignmentSet /\ c.fwd = al.fwd /\ MaxAprime(c) = b + 1
        /\ MaxA(c) = MaxA(al)
        /\ \A i \in 1 .. MaxAprime(c) : c.back[i] =
             IF i <= MaxAprime(al) THEN al.back[i] ELSE MaxA(al) - 1
    BY <1>4, <2>1, <2>2, FoldInsertAt DEF MaxA
  <2> HIDE DEF c
  <2>4. /\ t \in Reading /\ t.length = 0 /\ t.back = c.back /\ t.fwd = c.fwd
        /\ Len(t.fwd) = MaxA(c) /\ Len(t.back) = MaxAprime(c)
    BY <2>3, ReadingOfTyped DEF MaxA, MaxAprime
  <2> HIDE DEF t
  <2>5. Len(s.fwd) = Len(t.fwd) /\ Len(s.back) = Len(t.back)
    BY <1>1, <1>2, <2>1, <2>3, <2>4
  <2>6. \A i \in 1 .. Len(s.fwd) : s.fwd[i] = t.fwd[i]
    BY <1>1, <1>2, <2>1, <2>3, <2>4, <2>5
  <2>7. \A i \in 1 .. Len(s.back) : s.back[i] = t.back[i]
    BY <1>1, <1>2, <2>1, <2>3, <2>4, <2>5
  <2>8. s = t
    BY <1>2, <2>4, <2>5, <2>6, <2>7, ReadingsEqual
  <2> QED
    BY <2>2, <2>8 DEF t, c
<1>5. ASSUME Replaces(al, n, "insert"), ReadRun(r, "insert", n) = d
      PROVE  MaxAprime(al) > 0 /\ s = ReadingOf(DeleteBytes(al, n))
  <2> DEFINE c == DeleteBytes(al, n)
             t == ReadingOf(c)
  <2>1. /\ MaxA(al) = a /\ MaxAprime(al) = b + n
        /\ \A i \in 1 .. b + n : al.back[i] = IF i <= b THEN r.back[i] ELSE a
        /\ \A i \in 1 .. a : al.fwd[i] = r.fwd[i]
    BY <1>3, <1>5, InsertRead DEF a, b
  <2>2. MaxAprime(al) > 0
    BY <1>1, <2>1
  <2>3. /\ c \in AlignmentSet /\ c.back = al.back /\ MaxA(c) = a + 1
        /\ MaxAprime(c) = MaxAprime(al)
        /\ \A i \in 1 .. MaxA(c) : c.fwd[i] =
             IF i <= MaxA(al) THEN al.fwd[i] ELSE MaxAprime(al) - 1
    BY <1>5, <2>1, <2>2, FoldDeleteAt DEF MaxAprime
  <2> HIDE DEF c
  <2>4. /\ t \in Reading /\ t.length = 0 /\ t.back = c.back /\ t.fwd = c.fwd
        /\ Len(t.fwd) = MaxA(c) /\ Len(t.back) = MaxAprime(c)
    BY <2>3, ReadingOfTyped DEF MaxA, MaxAprime
  <2> HIDE DEF t
  <2>5. Len(s.fwd) = Len(t.fwd) /\ Len(s.back) = Len(t.back)
    BY <1>1, <1>2, <2>1, <2>3, <2>4
  <2>6. \A i \in 1 .. Len(s.fwd) : s.fwd[i] = t.fwd[i]
    BY <1>1, <1>2, <2>1, <2>3, <2>4, <2>5
  <2>7. \A i \in 1 .. Len(s.back) : s.back[i] = t.back[i]
    BY <1>1, <1>2, <2>1, <2>3, <2>4, <2>5
  <2>8. s = t
    BY <1>2, <2>4, <2>5, <2>6, <2>7, ReadingsEqual
  <2> QED
    BY <2>2, <2>8 DEF t, c
<1> QED
  BY <1>4, <1>5 DEF s, d

\* The pending run is no longer than the text that it is a run of.
LEMMA PendingFits ==
  ASSUME NEW map, NEW al \in AlignmentSet, Building(map, al)
  PROVE  map.pending_length <= MaxA(al) \/ map.pending_length <= MaxAprime(al)
<1> DEFINE r == ReadBytes(map)
           op == map.pending_op
           n == map.pending_length
<1>1. r \in Reading /\ op \in RunOps /\ n \in Nat /\ ReadRun(r, op, n) = ReadingOf(al)
  <2>1. map.diffs \in Seq(Bytes) /\ Len(map.diffs) \in 0 .. Len(map.diffs)
    BY DEF Building, Maps
  <2> QED
    BY <2>1, ReadSteps DEF Building, Maps, ReadAll, ReadBytes
<1> HIDE DEF r, op, n
<1>2. /\ Len(ReadingOf(al).fwd) = Len(r.fwd) + IF op = "insert" THEN 0 ELSE n
      /\ Len(ReadingOf(al).back) = Len(r.back) + IF op = "delete" THEN 0 ELSE n
  <2>1. /\ Len(ReadRun(r, op, n).fwd) = Len(r.fwd) + IF op = "insert" THEN 0 ELSE n
        /\ Len(ReadRun(r, op, n).back) = Len(r.back) + IF op = "delete" THEN 0 ELSE n
    BY <1>1, ReadRunTyped
  <2> QED
    BY <1>1, <2>1
<1>3. /\ Len(ReadingOf(al).fwd) = MaxA(al) /\ Len(ReadingOf(al).back) = MaxAprime(al)
      /\ Len(r.fwd) \in Nat /\ Len(r.back) \in Nat
  BY <1>1, ReadingOfTyped DEF MaxA, MaxAprime, Reading
<1>4. n <= MaxA(al) \/ n <= MaxAprime(al)
  <2>1. CASE op = "insert"
    BY <1>1, <1>2, <1>3, <2>1
  <2>2. CASE op # "insert"
    BY <1>1, <1>2, <1>3, <2>2
  <2> QED
    BY <2>1, <2>2
<1> QED
  BY <1>4 DEF n

\* Extending or flushing the pending run, when the texts have been extended.
LEMMA PendBuilds ==
  ASSUME NEW map \in Maps, Ends(map.diffs, Len(map.diffs)), AtLeft(map),
         map.pending_length < Power[MaxDigits],
         NEW al \in AlignmentSet, NEW new \in AlignmentSet,
         NEW op \in RunOps, NEW n \in Nat \ {0},
         map.pending_op = al.op, map.pending_length = al.run,
         new.op = op, new.run = RunAfter(al, op, n),
         map.max_a = MaxA(new), map.max_aprime = MaxAprime(new),
         ReadAll(map) = ReadingOf(al), ReadRun(ReadingOf(al), op, n) = ReadingOf(new)
  PROVE  Building(Pend(map, op, n), new) /\ AtLeft(Pend(map, op, n))
<1> DEFINE k == IF map.pending_op = op THEN map.pending_length + n ELSE n
           p == Pend(map, op, n)
<1> PICK d : Pended(map, op, n, d)
  BY PendReads
<1>1. /\ d \in Seq(Bytes) /\ Ends(d, Len(d))
      /\ p = [map EXCEPT !.diffs = d, !.pending_op = op, !.pending_length = k]
      /\ ReadRun(Read(d, Len(d)), op, k) = ReadRun(ReadAll(map), op, n)
  BY DEF Pended
<1>2. k \in Nat \ {0} /\ k = new.run
  BY DEF Maps, RunAfter
<1> HIDE DEF p, k
<1>3. /\ p \in Maps /\ p.diffs = d /\ p.pending_op = op /\ p.pending_length = k
      /\ p.max_a = map.max_a /\ p.max_aprime = map.max_aprime
      /\ p.next_diff_sub = map.next_diff_sub /\ p.diff = map.diff
      /\ p.lo_a = map.lo_a /\ p.hi_a = map.hi_a
      /\ p.lo_aprime = map.lo_aprime /\ p.hi_aprime = map.hi_aprime
  BY <1>1, <1>2 DEF Maps
<1>4. ReadAll(p) = ReadingOf(new)
  BY <1>1, <1>3 DEF ReadAll, ReadBytes
<1>5. AtLeft(p)
  BY <1>3 DEF AtLeft
<1>6. Building(p, new)
  BY <1>1, <1>2, <1>3, <1>4 DEF Building
<1> QED
  BY <1>5, <1>6 DEF p

\* Copy, Insert and Delete do to the map what they do to the alignment.
LEMMA CopyBuilds ==
  ASSUME NEW map, NEW al \in AlignmentSet, Building(map, al), AtLeft(map),
         map.pending_length < Power[MaxDigits], NEW n \in Nat
  PROVE  Building(DoCopy(map, n), AlignCopy(al, n)) /\ AtLeft(DoCopy(map, n))
<1>1. CASE n = 0
  BY <1>1 DEF DoCopy, AlignCopy
<1>2. CASE n # 0
  <2> DEFINE grown == [map EXCEPT !.max_a = @ + n, !.max_aprime = @ + n]
             new == CopyBytes(al, n)
  <2>1. /\ map \in Maps /\ n \in Nat \ {0} /\ "copy" \in RunOps
        /\ map.max_a \in Nat /\ map.max_aprime \in Nat
    BY <1>2 DEF Building, Maps, RunOps
  <2>2. /\ grown \in Maps /\ grown.diffs = map.diffs
        /\ grown.pending_op = map.pending_op /\ grown.pending_length = map.pending_length
        /\ grown.max_a = map.max_a + n /\ grown.max_aprime = map.max_aprime + n
        /\ AtLeft(grown)
    <3> DEFINE a == map.max_a + n
               b == map.max_aprime + n
    <3>1. a \in Nat /\ b \in Nat /\ grown = [map EXCEPT !.max_a = a, !.max_aprime = b]
      BY <2>1
    <3> HIDE DEF grown
    <3>2. grown.max_a = a /\ grown.max_aprime = b
      BY <2>1, <3>1 DEF Maps
    <3> HIDE DEF a, b
    <3>3. /\ grown \in Maps /\ grown.diffs = map.diffs
          /\ grown.pending_op = map.pending_op
          /\ grown.pending_length = map.pending_length
      BY <2>1, <3>1 DEF Maps
    <3>4. AtLeft(grown)
      BY <2>1, <3>1 DEF Maps, AtLeft
    <3> QED
      BY <3>2, <3>3, <3>4 DEF a, b
  <2>3. DoCopy(map, n) = Pend(grown, "copy", n) /\ AlignCopy(al, n) = new
    BY <1>2 DEF DoCopy, AlignCopy
  <2> HIDE DEF grown
  <2>4. /\ new \in AlignmentSet /\ new.op = "copy" /\ new.run = RunAfter(al, "copy", n)
        /\ MaxA(new) = MaxA(al) + n /\ MaxAprime(new) = MaxAprime(al) + n
    BY CopyBytesAt
  <2>5. ReadRun(ReadingOf(al), "copy", n) = ReadingOf(new)
    BY <2>1, AlignReads
  <2> HIDE DEF new
  <2>6. ReadAll(grown) = ReadingOf(al)
    BY <2>2 DEF Building, ReadAll, ReadBytes
  <2>7. Building(Pend(grown, "copy", n), new) /\ AtLeft(Pend(grown, "copy", n))
    BY <2>1, <2>2, <2>4, <2>5, <2>6, PendBuilds DEF Building
  <2> QED
    BY <2>3, <2>7
<1> QED
  BY <1>1, <1>2

\* The same of Insert, whether it is folded or not.
LEMMA InsertBuilds ==
  ASSUME NEW map, NEW al \in AlignmentSet, Building(map, al), AtLeft(map),
         map.pending_length < Power[MaxDigits], NEW n \in Nat
  PROVE  Building(DoInsert(map, n), AlignInsert(al, n)) /\ AtLeft(DoInsert(map, n))
<1>1. CASE n = 0
  BY <1>1 DEF DoInsert, AlignInsert
<1>2. CASE n # 0
  <2> DEFINE grown == [map EXCEPT !.max_aprime = @ + n]
             new == InsertBytes(al, n)
  <2>1. /\ map \in Maps /\ n \in Nat \ {0} /\ "insert" \in RunOps
        /\ map.max_a \in Nat /\ map.max_aprime \in Nat
        /\ map.pending_op = al.op /\ map.pending_length = al.run
    BY <1>2 DEF Building, Maps, RunOps
  <2>2. /\ grown \in Maps /\ grown.diffs = map.diffs
        /\ grown.pending_op = map.pending_op /\ grown.pending_length = map.pending_length
        /\ grown.max_a = map.max_a /\ grown.max_aprime = map.max_aprime + n
        /\ AtLeft(grown)
    BY SMTT(30), <2>1 DEF Maps, AtLeft
  <2>3. /\ AlignInsert(al, n) = new
        /\ DoInsert(map, n) = IF Replaces(al, n, "delete")
                              THEN [grown EXCEPT !.pending_op = "copy"]
                              ELSE Pend(grown, "insert", n)
    <3>1. FoldsIntoCopy(grown, n, "delete") <=> Replaces(al, n, "delete")
      BY <2>1, <2>2 DEF FoldsIntoCopy, Replaces
    <3>2. DoInsert(map, n) = PendOrFold(grown, "insert", n, "delete")
      BY <1>2 DEF DoInsert
    <3> HIDE DEF grown
    <3> QED
      BY <1>2, <3>1, <3>2 DEF PendOrFold, AlignInsert
  <2> HIDE DEF grown
  <2>4. ReadAll(grown) = ReadingOf(al)
    BY <2>2 DEF Building, ReadAll, ReadBytes
  <2>5. CASE ~ Replaces(al, n, "delete")
    <3>1. /\ new \in AlignmentSet /\ new.op = "insert"
          /\ new.run = RunAfter(al, "insert", n)
          /\ MaxA(new) = MaxA(al) /\ MaxAprime(new) = MaxAprime(al) + n
      BY <2>1, <2>5, InsertBytesAt DEF MaxA
    <3>2. ReadRun(ReadingOf(al), "insert", n) = ReadingOf(new)
      BY <2>1, <2>5, AlignReads
    <3> HIDE DEF new
    <3>3. Building(Pend(grown, "insert", n), new) /\ AtLeft(Pend(grown, "insert", n))
      BY <2>1, <2>2, <2>4, <3>1, <3>2, PendBuilds DEF Building
    <3> QED
      BY <2>3, <2>5, <3>3
  <2>6. CASE Replaces(al, n, "delete")
    <3> DEFINE r == ReadBytes(map)
               folded == [grown EXCEPT !.pending_op = "copy"]
    <3>1. n = 1 /\ al.run = n /\ al.op = "delete"
      BY <2>6 DEF Replaces
    <3>2. r \in Reading /\ ReadRun(r, "delete", n) = ReadingOf(al)
      <4>1. map.diffs \in Seq(Bytes) /\ Len(map.diffs) \in 0 .. Len(map.diffs)
        BY <2>1 DEF Maps
      <4>2. ReadAll(map) = ReadingOf(al)
        BY DEF Building
      <4> QED
        BY <2>1, <3>1, <4>1, <4>2, ReadSteps DEF ReadAll, ReadBytes
    <3> HIDE DEF r
    <3>3. MaxA(al) > 0 /\ ReadRun(r, "copy", n) = ReadingOf(new)
      BY <2>6, <3>1, <3>2, FoldReads
    <3>4. /\ new \in AlignmentSet /\ new.op = "copy" /\ new.run = 1
          /\ MaxA(new) = MaxA(al) /\ MaxAprime(new) = MaxAprime(al) + 1
      BY <2>6, <3>1, <3>3, FoldInsertAt DEF MaxA
    <3> HIDE DEF new
    <3>5. /\ folded \in Maps /\ folded.diffs = map.diffs
          /\ folded.pending_op = "copy" /\ folded.pending_length = 1
          /\ folded.max_a = grown.max_a /\ folded.max_aprime = grown.max_aprime
          /\ AtLeft(folded)
      BY <2>1, <2>2, <3>1 DEF Maps, AtLeft, RunOps
    <3> HIDE DEF folded
    <3>6. ReadAll(folded) = ReadingOf(new)
      BY <3>1, <3>3, <3>5 DEF ReadAll, ReadBytes, r
    <3>7. Building(folded, new)
      BY <2>1, <2>2, <3>1, <3>4, <3>5, <3>6 DEF Building
    <3> QED
      BY <2>3, <2>6, <3>5, <3>7 DEF folded
  <2> QED
    BY <2>5, <2>6
<1> QED
  BY <1>1, <1>2

\* The same of Delete.
LEMMA DeleteBuilds ==
  ASSUME NEW map, NEW al \in AlignmentSet, Building(map, al), AtLeft(map),
         map.pending_length < Power[MaxDigits], NEW n \in Nat
  PROVE  Building(DoDelete(map, n), AlignDelete(al, n)) /\ AtLeft(DoDelete(map, n))
<1>1. CASE n = 0
  BY <1>1 DEF DoDelete, AlignDelete
<1>2. CASE n # 0
  <2> DEFINE grown == [map EXCEPT !.max_a = @ + n]
             new == DeleteBytes(al, n)
  <2>1. /\ map \in Maps /\ n \in Nat \ {0} /\ "delete" \in RunOps
        /\ map.max_aprime \in Nat /\ map.max_a \in Nat
        /\ map.pending_op = al.op /\ map.pending_length = al.run
    BY <1>2 DEF Building, Maps, RunOps
  <2>2. /\ grown \in Maps /\ grown.diffs = map.diffs
        /\ grown.pending_op = map.pending_op /\ grown.pending_length = map.pending_length
        /\ grown.max_aprime = map.max_aprime /\ grown.max_a = map.max_a + n
        /\ AtLeft(grown)
    BY <2>1 DEF Maps, AtLeft
  <2>3. /\ AlignDelete(al, n) = new
        /\ DoDelete(map, n) = IF Replaces(al, n, "insert")
                              THEN [grown EXCEPT !.pending_op = "copy"]
                              ELSE Pend(grown, "delete", n)
    <3>1. FoldsIntoCopy(grown, n, "insert") <=> Replaces(al, n, "insert")
      BY <2>1, <2>2 DEF FoldsIntoCopy, Replaces
    <3>2. DoDelete(map, n) = PendOrFold(grown, "delete", n, "insert")
      BY <1>2 DEF DoDelete
    <3> HIDE DEF grown
    <3> QED
      BY <1>2, <3>1, <3>2 DEF PendOrFold, AlignDelete
  <2> HIDE DEF grown
  <2>4. ReadAll(grown) = ReadingOf(al)
    BY <2>2 DEF Building, ReadAll, ReadBytes
  <2>5. CASE ~ Replaces(al, n, "insert")
    <3>1. /\ new \in AlignmentSet /\ new.op = "delete"
          /\ new.run = RunAfter(al, "delete", n)
          /\ MaxAprime(new) = MaxAprime(al) /\ MaxA(new) = MaxA(al) + n
      BY <2>1, <2>5, DeleteBytesAt DEF MaxAprime
    <3>2. ReadRun(ReadingOf(al), "delete", n) = ReadingOf(new)
      BY <2>1, <2>5, AlignReads
    <3> HIDE DEF new
    <3>3. Building(Pend(grown, "delete", n), new) /\ AtLeft(Pend(grown, "delete", n))
      BY <2>1, <2>2, <2>4, <3>1, <3>2, PendBuilds DEF Building
    <3> QED
      BY <2>3, <2>5, <3>3
  <2>6. CASE Replaces(al, n, "insert")
    <3> DEFINE r == ReadBytes(map)
               folded == [grown EXCEPT !.pending_op = "copy"]
    <3>1. n = 1 /\ al.run = n /\ al.op = "insert"
      BY <2>6 DEF Replaces
    <3>2. r \in Reading /\ ReadRun(r, "insert", n) = ReadingOf(al)
      <4>1. map.diffs \in Seq(Bytes) /\ Len(map.diffs) \in 0 .. Len(map.diffs)
        BY <2>1 DEF Maps
      <4>2. ReadAll(map) = ReadingOf(al)
        BY DEF Building
      <4> QED
        BY <2>1, <3>1, <4>1, <4>2, ReadSteps DEF ReadAll, ReadBytes
    <3> HIDE DEF r
    <3>3. MaxAprime(al) > 0 /\ ReadRun(r, "copy", n) = ReadingOf(new)
      BY <2>6, <3>1, <3>2, FoldReads
    <3>4. /\ new \in AlignmentSet /\ new.op = "copy" /\ new.run = 1
          /\ MaxAprime(new) = MaxAprime(al) /\ MaxA(new) = MaxA(al) + 1
      BY <2>6, <3>1, <3>3, FoldDeleteAt DEF MaxAprime
    <3> HIDE DEF new
    <3>5. /\ folded \in Maps /\ folded.diffs = map.diffs
          /\ folded.pending_op = "copy" /\ folded.pending_length = 1
          /\ folded.max_aprime = grown.max_aprime /\ folded.max_a = grown.max_a
          /\ AtLeft(folded)
      BY <2>1, <2>2, <3>1 DEF Maps, AtLeft, RunOps
    <3> HIDE DEF folded
    <3>6. ReadAll(folded) = ReadingOf(new)
      BY <3>1, <3>3, <3>5 DEF ReadAll, ReadBytes, r
    <3>7. Building(folded, new)
      BY <2>1, <2>2, <3>1, <3>4, <3>5, <3>6 DEF Building
    <3> QED
      BY <2>3, <2>6, <3>5, <3>7 DEF folded
  <2> QED
    BY <2>5, <2>6
<1> QED
  BY <1>1, <1>2


\* Closing the alignment changes none of its offsets.
LEMMA ClosedCopies ==
  ASSUME NEW al \in AlignmentSet
  PROVE  /\ Closed(al) \in AlignmentSet /\ Closed(al).op = "copy" /\ Closed(al).run = 0
         /\ MaxA(Closed(al)) = MaxA(al) /\ MaxAprime(Closed(al)) = MaxAprime(al)
         /\ ReadingOf(CopyBytes(Closed(al), 1)) = ReadingOf(CopyBytes(al, 1))
         /\ \A x : BackOf(Closed(al), x) = BackOf(al, x)
         /\ \A a : ForwardOf(Closed(al), a) = ForwardOf(al, a)
<1>1. /\ Closed(al) \in AlignmentSet /\ Closed(al).op = "copy" /\ Closed(al).run = 0
      /\ Closed(al).back = al.back /\ Closed(al).fwd = al.fwd
  BY DEF Closed, AlignmentSet, Ops
<1> QED
  BY <1>1 DEF MaxA, MaxAprime, ReadingOf, CopyBytes, BackOf, ForwardOf

\* The first question, or Reset, copies a byte off the end and flushes.
LEMMA FlushAllAsks ==
  ASSUME NEW map, NEW al \in AlignmentSet, Building(map, al), AtLeft(map),
         MaxA(al) <= MaxBytes, MaxAprime(al) <= MaxBytes
  PROVE  Asked(MaybeFlushAll(map), Closed(al)) /\ AtLeft(MaybeFlushAll(map))
<1> DEFINE n == 1
           copied == DoCopy(map, n)
           new == CopyBytes(al, n)
           c == MaybeFlushAll(map)
<1>1. /\ MaxBytes \in Nat /\ MaxBytes + 1 < Power[MaxDigits]
      /\ Power[MaxDigits] \in Nat /\ map.pending_length \in Nat
      /\ MaxA(al) \in Nat /\ MaxAprime(al) \in Nat /\ n \in Nat \ {0} /\ n \in Nat
  <2>1. MaxDigits \in 0 .. MaxDigits
    BY OffsetMapAssumption
  <2> QED
    BY SMTT(30), <2>1, OffsetMapAssumption, PowerValues
       DEF Building, Maps, AlignmentSet, MaxA, MaxAprime
<1>2. c = Flush(copied)
  BY DEF MaybeFlushAll, FlushAll, Building
<1>3. n + MaxBytes < Power[MaxDigits] /\ new = AlignCopy(al, n)
  BY <1>1 DEF AlignCopy
<1> HIDE DEF n, new, c
<1>4. map.pending_length < Power[MaxDigits]
  BY <1>1, PendingFits
<1>5. Building(copied, new) /\ AtLeft(copied)
  BY <1>1, <1>3, <1>4, CopyBuilds
<1>6. /\ new \in AlignmentSet /\ new.op = "copy"
      /\ MaxA(new) = MaxA(al) + n /\ MaxAprime(new) = MaxAprime(al) + n
      /\ new.run \in Nat \ {0}
  <2>1. /\ new \in AlignmentSet /\ new.op = "copy"
        /\ new.run = RunAfter(al, "copy", n)
        /\ MaxA(new) = MaxA(al) + n /\ MaxAprime(new) = MaxAprime(al) + n
    BY <1>1, CopyBytesAt DEF new
  <2>2. al.run \in Nat
    BY DEF AlignmentSet
  <2> QED
    BY <1>1, <2>1, <2>2 DEF RunAfter
<1> HIDE DEF copied
<1>7. copied.pending_length < Power[MaxDigits] /\ copied.pending_length > 0
  <2>1. copied.pending_length = new.run
    BY <1>5 DEF Building
  <2> QED
    BY <1>1, <1>3, <1>5, <1>6, <2>1, PendingFits
<1>8. PICK d : /\ Flushed(copied, d)
               /\ c = [copied EXCEPT !.diffs = d, !.pending_length = 0]
  BY <1>2, <1>5, <1>7, FlushReads DEF Building
<1>9. d \in Seq(Bytes) /\ d # <<>> /\ Ends(d, Len(d)) /\ Read(d, Len(d)) = ReadingOf(new)
  BY <1>5, <1>7, <1>8 DEF Flushed, Building
<1>10. /\ copied \in Maps /\ copied.pending_op = "copy"
       /\ copied.max_a = MaxA(al) + n /\ copied.max_aprime = MaxAprime(al) + n
  BY <1>5, <1>6 DEF Building
<1>11. /\ c \in Maps /\ c.diffs = d /\ c.pending_op = "copy" /\ c.pending_length = 0
       /\ c.max_a = MaxA(al) + n /\ c.max_aprime = MaxAprime(al) + n
  BY <1>8, <1>9, <1>10 DEF Maps
<1>12. AtLeft(c)
  BY <1>5, <1>8, <1>10 DEF Maps, AtLeft
<1>13. ReadBytes(c) = ReadingOf(CopyBytes(Closed(al), 1))
  BY <1>9, <1>11, ClosedCopies DEF ReadBytes, n, new
<1>14. Asked(c, Closed(al))
  BY <1>9, <1>11, <1>13, ClosedCopies DEF Asked, n
<1> QED
  BY <1>12, <1>14 DEF c

\* A map that has been asked is not changed by the next question.
LEMMA AskedStays ==
  ASSUME NEW map, NEW al \in AlignmentSet, Asked(map, al)
  PROVE  MaybeFlushAll(map) = map /\ Closed(al) = al
<1>1. MaybeFlushAll(map) = map
  BY DEF MaybeFlushAll, Asked
<1>2. Closed(al) = al
  BY DEF Closed, Asked, AlignmentSet
<1> QED
  BY <1>1, <1>2

-----------------------------------------------------------------------------
(* The cursor: its windows are those of the run it is on *)

\* To the left of all runs the cursor has empty windows.
LEMMA LeftIsCoherent ==
  ASSUME NEW map, map.diffs \in Seq(Bytes), AtLeft(map)
  PROVE  CursorAt(map)
<1>1. Read(map.diffs, 0) = NothingRead /\ Len(map.diffs) \in Nat
  BY ReadSteps
<1>2. Backup(map.diffs, map.next_diff_sub) = 0 /\ map.next_diff_sub = 0
  BY DEF Backup, AtLeft
<1>3. Len(NothingRead.fwd) = 0 /\ Len(NothingRead.back) = 0
  BY DEF NothingRead
<1> QED
  BY <1>1, <1>2, <1>3 DEF CursorAt, AtLeft, Ends

\* The cursor is on the run of the map that lies between sub and end.
LEMMA CursorOnRun ==
  ASSUME NEW map, map.diffs \in Seq(Bytes), NEW sub, NEW end, Run(map.diffs, sub, end),
         map.next_diff_sub = end
  PROVE  CursorAt(map) <=>
           /\ map.hi_a = Len(Read(map.diffs, end).fwd)
           /\ map.hi_aprime = Len(Read(map.diffs, end).back)
           /\ map.lo_a = Len(Read(map.diffs, sub).fwd)
           /\ map.lo_aprime = Len(Read(map.diffs, sub).back)
           /\ map.diff = map.lo_aprime - map.lo_a
<1>1. end \in 1 .. Len(map.diffs) /\ end \in 0 .. Len(map.diffs) /\ Ends(map.diffs, end)
  BY DEF Run
<1>2. Run(map.diffs, Backup(map.diffs, end), end)
  BY <1>1, RunPrecedes
<1>3. Backup(map.diffs, end) = sub
  <2>1. sub \in Nat /\ Backup(map.diffs, end) \in Nat
    BY <1>2 DEF Run
  <2> QED
    BY <1>2, <2>1, RunIsUnique
<1> QED
  BY <1>1, <1>3 DEF CursorAt

\* A run's windows: those before it, and its spans added.
LEMMA RunSpans ==
  ASSUME NEW diffs \in Seq(Bytes), NEW sub, NEW end, Run(diffs, sub, end),
         Ends(diffs, Len(diffs))
  PROVE  LET run == ParseNext(diffs, sub) IN
         /\ run.sub = end /\ run.op \in RunOps /\ run.op = diffs[end].op
         /\ run.length \in Nat
         /\ Read(diffs, end) = ReadRun(Read(diffs, sub), run.op, run.length)
         /\ SpanA(run) \in Nat /\ SpanAprime(run) \in Nat
         /\ Len(Read(diffs, end).fwd) = Len(Read(diffs, sub).fwd) + SpanA(run)
         /\ Len(Read(diffs, end).back) = Len(Read(diffs, sub).back) + SpanAprime(run)
<1> DEFINE run == ParseNext(diffs, sub)
           before == Read(diffs, sub)
           here == Read(diffs, end)
<1>1. /\ sub \in Nat /\ end \in Nat /\ sub \in 0 .. Len(diffs) - 1
      /\ sub \in 0 .. Len(diffs) /\ Ends(diffs, sub)
  BY DEF Run
<1>2. /\ Run(diffs, sub, run.sub) /\ run.op = diffs[run.sub].op
      /\ run.length = LengthOf(diffs, sub, run.sub)
  BY <1>1, RunFollows
<1> HIDE DEF run
<1>3. run.sub = end
  BY <1>1, <1>2, RunIsUnique, Zenon
<1>4. /\ run.op \in RunOps /\ run.length \in Nat
      /\ here = ReadRun(before, run.op, run.length)
  BY <1>2, <1>3, RunReads
<1>5. before \in Reading
  BY <1>1, ReadSteps
<1> HIDE DEF here, before
<1>6. /\ Len(here.fwd) = Len(before.fwd) + IF run.op = "insert" THEN 0 ELSE run.length
      /\ Len(here.back) = Len(before.back) + IF run.op = "delete" THEN 0 ELSE run.length
  BY <1>4, <1>5, ReadRunTyped
<1>7. SpanA(run) \in Nat /\ SpanAprime(run) \in Nat
  BY <1>4 DEF SpanA, SpanAprime
<1> QED
  BY <1>2, <1>3, <1>4, <1>6, <1>7 DEF SpanA, SpanAprime, here, before, run

\* The cursor may differ, the rest of the maps is the same.
SameBytes(map, other) ==
  /\ other.diffs = map.diffs
  /\ other.pending_op = map.pending_op /\ other.pending_length = map.pending_length
  /\ other.max_a = map.max_a /\ other.max_aprime = map.max_aprime

\* Setting the windows and the subscript, as both moves do.
Moved(map, sub, lo, hi, loprime, hiprime) ==
  WithDiff([map EXCEPT !.next_diff_sub = sub, !.lo_a = lo, !.hi_a = hi,
                       !.lo_aprime = loprime, !.hi_aprime = hiprime])

IsMoved(map, c, sub, lo, hi, loprime, hiprime) ==
  /\ c \in Maps /\ SameBytes(map, c) /\ c.next_diff_sub = sub
  /\ c.lo_a = lo /\ c.hi_a = hi /\ c.lo_aprime = loprime /\ c.hi_aprime = hiprime
  /\ c.diff = loprime - lo

\* The fields of a map whose cursor was moved.
LEMMA MovedFields ==
  ASSUME NEW map \in Maps, NEW sub \in Nat, NEW lo \in Nat, NEW hi \in Nat,
         NEW loprime \in Nat, NEW hiprime \in Nat
  PROVE  IsMoved(map, Moved(map, sub, lo, hi, loprime, hiprime),
                 sub, lo, hi, loprime, hiprime)
<1> DEFINE b == [map EXCEPT !.next_diff_sub = sub, !.lo_a = lo, !.hi_a = hi,
                            !.lo_aprime = loprime, !.hi_aprime = hiprime]
           d == loprime - lo
           c == [b EXCEPT !.diff = d]
<1>1. /\ b \in Maps /\ SameBytes(map, b) /\ b.next_diff_sub = sub
      /\ b.lo_a = lo /\ b.hi_a = hi /\ b.lo_aprime = loprime /\ b.hi_aprime = hiprime
  BY DEF Maps, SameBytes
<1>2. d \in Int
  OBVIOUS
<1>3. Moved(map, sub, lo, hi, loprime, hiprime) = c
  BY <1>1 DEF Moved, WithDiff
<1> HIDE DEF b, d
<1>4. /\ c \in Maps /\ SameBytes(map, c) /\ c.next_diff_sub = sub
      /\ c.lo_a = lo /\ c.hi_a = hi /\ c.lo_aprime = loprime /\ c.hi_aprime = hiprime
      /\ c.diff = d
  BY <1>1, <1>2 DEF Maps, SameBytes
<1> QED
  BY <1>3, <1>4 DEF IsMoved, d

\* Moving right from a run that is not the last goes to the next.
LEMMA MoveRightMoves ==
  ASSUME NEW map \in Maps, Ends(map.diffs, Len(map.diffs)), CursorAt(map),
         map.next_diff_sub < Len(map.diffs)
  PROVE  LET right == MoveRight(map) IN
         /\ CanMoveRight(map) /\ right \in Maps /\ CursorAt(right)
         /\ SameBytes(map, right) /\ right.next_diff_sub > map.next_diff_sub
         /\ right.lo_a = map.hi_a /\ right.lo_aprime = map.hi_aprime
<1> DEFINE diffs == map.diffs
           sub == map.next_diff_sub
           run == ParseNext(diffs, sub)
           end == run.sub
           hi == map.hi_a + SpanA(run)
           hiprime == map.hi_aprime + SpanAprime(run)
           right == MoveRight(map)
<1>1. /\ diffs \in Seq(Bytes) /\ sub \in 0 .. Len(diffs) - 1 /\ Ends(diffs, sub)
      /\ sub \in Nat /\ Len(diffs) \in Nat
      /\ map.hi_a = Len(Read(diffs, sub).fwd) /\ map.hi_aprime = Len(Read(diffs, sub).back)
      /\ map.hi_a \in Nat /\ map.hi_aprime \in Nat
  BY DEF CursorAt, Maps
<1>2. Run(diffs, sub, end)
  BY <1>1, RunFollows
<1>3. /\ run.op \in RunOps /\ SpanA(run) \in Nat /\ SpanAprime(run) \in Nat
      /\ Len(Read(diffs, end).fwd) = hi /\ Len(Read(diffs, end).back) = hiprime
  <2> HIDE DEF run
  <2> QED
    BY <1>1, <1>2, RunSpans DEF run
<1>4. run.op # "prefix" /\ hi \in Nat /\ hiprime \in Nat
  <2> HIDE DEF run
  <2>1. run.op # "prefix"
    BY <1>3 DEF RunOps
  <2>2. hi \in Nat /\ hiprime \in Nat
    <3>1. map.hi_a \in Nat /\ map.hi_aprime \in Nat
      BY <1>1
    <3> QED
      BY <1>3, <3>1
  <2> QED
    BY <2>1, <2>2
<1>5. CanMoveRight(map)
  BY <1>4 DEF CanMoveRight
<1>6. right = Moved(map, end, map.hi_a, hi, map.hi_aprime, hiprime)
  BY <1>1, <1>4 DEF MoveRight, Moved
<1>7. end \in Nat /\ end > sub
  BY <1>2 DEF Run
<1> HIDE DEF hi, hiprime, run, right
<1>8. /\ right \in Maps /\ SameBytes(map, right) /\ right.next_diff_sub = end
      /\ right.lo_a = map.hi_a /\ right.hi_a = hi
      /\ right.lo_aprime = map.hi_aprime /\ right.hi_aprime = hiprime
      /\ right.diff = map.hi_aprime - map.hi_a
  <2>1. IsMoved(map, right, end, map.hi_a, hi, map.hi_aprime, hiprime)
    BY <1>1, <1>4, <1>6, <1>7, MovedFields
  <2> QED
    BY <2>1 DEF IsMoved
<1>9. CursorAt(right)
  <2>1. right.diffs = diffs
    BY <1>8 DEF SameBytes
  <2>2. /\ right.hi_a = Len(Read(right.diffs, end).fwd)
        /\ right.hi_aprime = Len(Read(right.diffs, end).back)
        /\ right.lo_a = Len(Read(right.diffs, sub).fwd)
        /\ right.lo_aprime = Len(Read(right.diffs, sub).back)
        /\ right.diff = right.lo_aprime - right.lo_a
    BY <1>1, <1>3, <1>8, <2>1, Zenon
  <2>3. right.diffs \in Seq(Bytes) /\ Run(right.diffs, sub, end)
    BY <1>1, <1>2, <2>1, Zenon
  <2> QED
    BY <1>8, <2>2, <2>3, CursorOnRun, Zenon
<1> QED
  BY <1>5, <1>7, <1>8, <1>9 DEF right

\* Moving left from a run that is not the first goes to the one before it.
LEMMA MoveLeftMoves ==
  ASSUME NEW map \in Maps, Ends(map.diffs, Len(map.diffs)), CursorAt(map),
         map.lo_a > 0 \/ map.lo_aprime > 0
  PROVE  LET left == MoveLeft(map) IN
         /\ CanMoveLeft(map) /\ left \in Maps /\ CursorAt(left)
         /\ SameBytes(map, left) /\ left.next_diff_sub < map.next_diff_sub
<1> DEFINE diffs == map.diffs
           sub == map.next_diff_sub
           here == Backup(diffs, sub)
           prev == Backup(diffs, here)
           run == ParseNext(diffs, prev)
           lo == map.lo_a - SpanA(run)
           loprime == map.lo_aprime - SpanAprime(run)
           left == MoveLeft(map)
<1>1. /\ diffs \in Seq(Bytes) /\ sub \in 0 .. Len(diffs) /\ Ends(diffs, sub)
      /\ map.lo_a = Len(Read(diffs, here).fwd)
      /\ map.lo_aprime = Len(Read(diffs, here).back)
      /\ map.lo_a \in Nat /\ map.lo_aprime \in Nat /\ Len(diffs) \in Nat
  BY DEF CursorAt, Maps
<1>2. here # 0
  BY <1>1, ReadSteps DEF NothingRead
<1>3. sub # 0
  BY <1>2 DEF Backup
<1>4. Run(diffs, here, sub)
  BY <1>1, <1>3, RunPrecedes
<1>5. here \in 1 .. Len(diffs) /\ Ends(diffs, here) /\ here < sub
  BY <1>1, <1>2, <1>4 DEF Run
<1> HIDE DEF here
<1>6. Run(diffs, prev, here)
  BY <1>1, <1>5, RunPrecedes
<1> HIDE DEF prev
<1>7. /\ run.sub = here /\ run.op \in RunOps
      /\ SpanA(run) \in Nat /\ SpanAprime(run) \in Nat
      /\ Len(Read(diffs, here).fwd) = Len(Read(diffs, prev).fwd) + SpanA(run)
      /\ Len(Read(diffs, here).back) = Len(Read(diffs, prev).back) + SpanAprime(run)
  BY <1>1, <1>6, RunSpans
<1>8. Len(Read(diffs, prev).fwd) \in Nat /\ Len(Read(diffs, prev).back) \in Nat
  <2>1. prev \in 0 .. Len(diffs)
    BY <1>6 DEF Run
  <2> QED
    BY SMTT(30), <1>1, <2>1, ReadSteps DEF Reading
<1>9. CanMoveLeft(map)
  BY <1>5 DEF CanMoveLeft, here
<1>10. left = Moved(map, run.sub, lo, map.lo_a, loprime, map.lo_aprime)
  <2>1. run.op # "prefix"
    BY <1>7 DEF RunOps
  <2> QED
    BY <1>9, <2>1 DEF MoveLeft, Moved, here, prev
<1> HIDE DEF run, left
<1>11. /\ lo = Len(Read(diffs, prev).fwd) /\ loprime = Len(Read(diffs, prev).back)
       /\ lo \in Nat /\ loprime \in Nat
  <2> DEFINE x == SpanA(run)
             xprime == SpanAprime(run)
             y == Len(Read(diffs, prev).fwd)
             yprime == Len(Read(diffs, prev).back)
  <2>1. /\ x \in Nat /\ xprime \in Nat /\ y \in Nat /\ yprime \in Nat
        /\ map.lo_a = y + x /\ map.lo_aprime = yprime + xprime
    BY <1>1, <1>7, <1>8
  <2> HIDE DEF x, xprime, y, yprime
  <2>2. map.lo_a - x = y /\ map.lo_aprime - xprime = yprime
    BY <2>1
  <2> QED
    BY <2>1, <2>2 DEF x, xprime, y, yprime
<1> HIDE DEF lo, loprime
<1>12. /\ left \in Maps /\ SameBytes(map, left) /\ left.next_diff_sub = here
       /\ left.lo_a = lo /\ left.hi_a = map.lo_a
       /\ left.lo_aprime = loprime /\ left.hi_aprime = map.lo_aprime
       /\ left.diff = loprime - lo
  <2>1. here \in Nat
    BY <1>5
  <2>2. IsMoved(map, left, here, lo, map.lo_a, loprime, map.lo_aprime)
    BY <1>1, <1>7, <1>10, <1>11, <2>1, MovedFields
  <2> QED
    BY <2>2 DEF IsMoved
<1>13. CursorAt(left)
  <2>1. left.diffs = diffs
    BY <1>12 DEF SameBytes
  <2>2. left.diffs \in Seq(Bytes) /\ Run(left.diffs, prev, here)
    BY <1>1, <1>6, <2>1
  <2>3. /\ left.hi_a = Len(Read(left.diffs, here).fwd)
        /\ left.hi_aprime = Len(Read(left.diffs, here).back)
        /\ left.lo_a = Len(Read(left.diffs, prev).fwd)
        /\ left.lo_aprime = Len(Read(left.diffs, prev).back)
        /\ left.diff = left.lo_aprime - left.lo_a
    BY <1>1, <1>11, <1>12, <2>1
  <2> QED
    BY <1>12, <2>2, <2>3, CursorOnRun
<1> QED
  BY <1>5, <1>9, <1>12, <1>13 DEF left

-----------------------------------------------------------------------------
(* The answers *)

\* What is read later leaves what was read before as it is.
Extends(r, s) ==
  /\ Len(r.fwd) <= Len(s.fwd) /\ \A i \in 1 .. Len(r.fwd) : s.fwd[i] = r.fwd[i]
  /\ Len(r.back) <= Len(s.back) /\ \A i \in 1 .. Len(r.back) : s.back[i] = r.back[i]

\* A run that ends only extends what was read before it.
LEMMA RunExtends ==
  ASSUME NEW r \in Reading, NEW op \in RunOps, NEW n \in Nat
  PROVE  Extends(r, ReadRun(r, op, n))
<1> DEFINE s == ReadRun(r, op, n)
           a == Len(r.fwd)
           b == Len(r.back)
<1>1. /\ Len(s.fwd) = a + IF op = "insert" THEN 0 ELSE n
      /\ Len(s.back) = b + IF op = "delete" THEN 0 ELSE n
      /\ \A i \in 1 .. Len(s.fwd) : s.fwd[i] =
           IF i <= a THEN r.fwd[i] ELSE b + IF op = "copy" THEN i - a - 1 ELSE 0
      /\ \A i \in 1 .. Len(s.back) : s.back[i] =
           IF i <= b THEN r.back[i] ELSE a + IF op = "copy" THEN i - b - 1 ELSE 0
  BY ReadRunTyped
<1>2. a \in Nat /\ b \in Nat
  BY DEF Reading
<1> HIDE DEF s, a, b
<1>3. /\ a <= Len(s.fwd) /\ \A i \in 1 .. a : i \in 1 .. Len(s.fwd) /\ i <= a
      /\ b <= Len(s.back) /\ \A i \in 1 .. b : i \in 1 .. Len(s.back) /\ i <= b
  BY <1>1, <1>2
<1>4. /\ \A i \in 1 .. a : s.fwd[i] = r.fwd[i]
      /\ \A i \in 1 .. b : s.back[i] = r.back[i]
  BY <1>1, <1>3
<1> QED
  BY <1>3, <1>4 DEF Extends, s, a, b

\* So does any byte.
LEMMA ByteExtends ==
  ASSUME NEW r \in Reading, NEW byte \in Bytes
  PROVE  Extends(r, ReadByte(r, byte))
<1> DEFINE n == r.length * Radix + byte.len
<1>1. n \in Nat
  BY DigitAppended DEF Reading
<1>2. ReadByte(r, byte) = IF byte.op = "prefix" THEN [r EXCEPT !.length = n]
                          ELSE ReadRun(r, byte.op, n)
  BY DEF ReadByte
<1> HIDE DEF n
<1>3. CASE byte.op = "prefix"
  <2>1. ReadByte(r, byte).fwd = r.fwd /\ ReadByte(r, byte).back = r.back
    BY <1>2, <1>3 DEF Reading
  <2>2. Len(r.fwd) \in Nat /\ Len(r.back) \in Nat
    BY DEF Reading
  <2> QED
    BY <2>1, <2>2 DEF Extends
<1>4. CASE byte.op # "prefix"
  <2>1. byte.op \in RunOps
    BY <1>4 DEF Bytes, RunOps
  <2> QED
    BY <1>1, <1>2, <1>4, <2>1, RunExtends
<1> QED
  BY <1>3, <1>4

\* So do all bytes up to the end: what is read early stays.
LEMMA ReadExtends ==
  ASSUME NEW diffs \in Seq(Bytes), NEW j \in 0 .. Len(diffs)
  PROVE  Extends(Read(diffs, j), Read(diffs, Len(diffs)))
<1> DEFINE r == Read(diffs, j)
           S == {k \in j .. Len(diffs) : Extends(r, Read(diffs, k))}
<1>1. r \in Reading /\ Len(diffs) \in Nat /\ j \in Int
  BY ReadSteps
<1>2. j \in S
  <2>1. Extends(r, r)
    <3>1. Len(r.fwd) \in Nat /\ Len(r.back) \in Nat
      BY <1>1 DEF Reading
    <3> QED
      BY <3>1 DEF Extends
  <2> QED
    BY <1>1, <2>1
<1> HIDE DEF r
<1>3. ASSUME NEW k \in j .. Len(diffs) - 1, k \in S PROVE k + 1 \in S
  <2>1. /\ k + 1 \in 1 .. Len(diffs) /\ (k + 1) - 1 = k /\ k \in 0 .. Len(diffs)
        /\ k + 1 \in j .. Len(diffs)
    BY <1>1
  <2> DEFINE s == Read(diffs, k)
             t == Read(diffs, k + 1)
  <2>2. s \in Reading /\ diffs[k+1] \in Bytes /\ t = ReadByte(s, diffs[k+1])
    BY <2>1, ReadSteps
  <2>3. t \in Reading
    BY <2>1, ReadSteps
  <2>4. Extends(s, t)
    BY <2>2, ByteExtends
  <2>5. Extends(r, s)
    BY <1>3
  <2> HIDE DEF s, t
  <2>6. /\ Len(r.fwd) \in Nat /\ Len(s.fwd) \in Nat /\ Len(t.fwd) \in Nat
        /\ Len(r.back) \in Nat /\ Len(s.back) \in Nat /\ Len(t.back) \in Nat
    BY <1>1, <2>2, <2>3 DEF Reading
  <2>7. Extends(r, t)
    <3>1. /\ Len(r.fwd) <= Len(s.fwd) /\ Len(s.fwd) <= Len(t.fwd)
          /\ Len(r.back) <= Len(s.back) /\ Len(s.back) <= Len(t.back)
      BY <2>4, <2>5 DEF Extends
    <3>2. ASSUME NEW i \in 1 .. Len(r.fwd) PROVE t.fwd[i] = r.fwd[i]
      <4>1. i \in 1 .. Len(s.fwd)
        BY <2>6, <3>1
      <4> QED
        BY <2>4, <2>5, <4>1 DEF Extends
    <3>3. ASSUME NEW i \in 1 .. Len(r.back) PROVE t.back[i] = r.back[i]
      <4>1. i \in 1 .. Len(s.back)
        BY <2>6, <3>1
      <4> QED
        BY <2>4, <2>5, <4>1 DEF Extends
    <3> QED
      BY SMTT(30), <2>6, <3>1, <3>2, <3>3 DEF Extends
  <2> QED
    BY <2>1, <2>7 DEF t
<1>4. Len(diffs) \in S
  <2>1. Len(diffs) \in j .. Len(diffs) /\ Len(diffs) \in Int
    BY <1>1
  <2> HIDE DEF S
  <2> QED
    BY <1>1, <1>2, <1>3, <2>1, UpFrom
<1> QED
  BY <1>4 DEF r

\* The answers of an alignment are in the offsets of one that goes on by a byte.
LEMMA CopiedAnswers ==
  ASSUME NEW al \in AlignmentSet
  PROVE  LET r == ReadingOf(CopyBytes(al, 1)) IN
         /\ \A x \in 0 .. MaxAprime(al) : BackOf(al, x) = r.back[x+1]
         /\ \A a \in 0 .. MaxA(al) : ForwardOf(al, a) = r.fwd[a+1]
<1> DEFINE n == 1
           c == CopyBytes(al, n)
           r == ReadingOf(c)
<1>1. n = 1 /\ n \in Nat /\ MaxA(al) \in Nat /\ MaxAprime(al) \in Nat
  BY DEF MaxA, MaxAprime, AlignmentSet
<1> HIDE DEF n
<1>2. /\ c \in AlignmentSet
      /\ MaxA(c) = MaxA(al) + n /\ MaxAprime(c) = MaxAprime(al) + n
      /\ \A i \in 1 .. MaxAprime(c) : c.back[i] =
           IF i <= MaxAprime(al) THEN al.back[i] ELSE MaxA(al) + i - MaxAprime(al) - 1
      /\ \A i \in 1 .. MaxA(c) : c.fwd[i] =
           IF i <= MaxA(al) THEN al.fwd[i] ELSE MaxAprime(al) + i - MaxA(al) - 1
  BY <1>1, CopyBytesAt
<1> HIDE DEF c
<1>3. r.back = c.back /\ r.fwd = c.fwd
  BY <1>2, ReadingOfTyped
<1> HIDE DEF r
<1>4. ASSUME NEW x \in 0 .. MaxAprime(al) PROVE BackOf(al, x) = r.back[x+1]
  <2>1. x \in Nat /\ x + 1 \in 1 .. MaxAprime(c)
    BY <1>1, <1>2
  <2>2. r.back[x+1] = IF x < MaxAprime(al) THEN al.back[x+1] ELSE MaxA(al)
    BY <1>1, <1>2, <1>3, <2>1
  <2> QED
    BY <1>1, <2>1, <2>2 DEF BackOf
<1>5. ASSUME NEW a \in 0 .. MaxA(al) PROVE ForwardOf(al, a) = r.fwd[a+1]
  <2>1. a \in Nat /\ a + 1 \in 1 .. MaxA(c)
    BY <1>1, <1>2
  <2>2. r.fwd[a+1] = IF a < MaxA(al) THEN al.fwd[a+1] ELSE MaxAprime(al)
    BY <1>1, <1>2, <1>3, <2>1
  <2> QED
    BY <1>1, <2>1, <2>2 DEF ForwardOf
<1> QED
  BY <1>4, <1>5 DEF r, c, n

\* What the map answers, and what the alignment answers.
AnswerOf(al, dir, at) == IF dir = "back" THEN BackOf(al, at) ELSE ForwardOf(al, at)

\* An offset that lies outside the map is answered as the alignment does.
LEMMA OutsideAnswers ==
  ASSUME NEW map, NEW al \in AlignmentSet, Asked(map, al),
         NEW dir \in {"back", "forward"}, NEW at \in Int, Outside(map, dir, at)
  PROVE  FromOutside(map, dir, at) = AnswerOf(al, dir, at)
<1>1. /\ MaxA(al) \in Nat /\ MaxAprime(al) \in Nat
      /\ map.max_a = MaxA(al) + 1 /\ map.max_aprime = MaxAprime(al) + 1
  BY DEF Asked, AlignmentSet, MaxA, MaxAprime
<1> QED
  BY <1>1 DEF Outside, FromOutside, MaxFrom, MaxTo, AnswerOf, BackOf, ForwardOf

\* An offset in the window of the cursor is answered as the alignment does.
LEMMA WindowAnswers ==
  ASSUME NEW map, NEW al \in AlignmentSet, Asked(map, al), CursorAt(map),
         NEW dir \in {"back", "forward"}, NEW at \in Int,
         Lo(map, dir) <= at, at < Hi(map, dir)
  PROVE  FromWindow(map, dir, at) = AnswerOf(al, dir, at)
<1> DEFINE diffs == map.diffs
           end == map.next_diff_sub
           sub == Backup(diffs, end)
           run == ParseNext(diffs, sub)
           before == Read(diffs, sub)
           here == Read(diffs, end)
           all == ReadBytes(map)
           a == Len(before.fwd)
           b == Len(before.back)
           n == run.length
<1>1. /\ map \in Maps /\ diffs \in Seq(Bytes) /\ end \in 0 .. Len(diffs)
      /\ Ends(diffs, end) /\ Ends(diffs, Len(diffs))
      /\ map.hi_a = Len(here.fwd) /\ map.hi_aprime = Len(here.back)
      /\ map.lo_a = a /\ map.lo_aprime = b /\ map.diff = b - a
      /\ map.lo_a \in Nat /\ map.lo_aprime \in Nat
  BY DEF Asked, CursorAt, Maps
<1>2. end # 0
  <2>1. here = NothingRead => Hi(map, dir) = 0
    BY <1>1 DEF Hi, NothingRead
  <2>2. Lo(map, dir) >= 0 /\ Lo(map, dir) \in Nat /\ Hi(map, dir) \in Nat
    BY <1>1 DEF Lo, Hi, Maps
  <2> QED
    BY <1>1, <2>1, <2>2, ReadSteps
<1>3. Run(diffs, sub, end)
  BY <1>1, <1>2, RunPrecedes
<1>4. sub \in 0 .. Len(diffs)
  BY <1>3 DEF Run
<1> HIDE DEF sub
<1>5. run.op \in RunOps /\ n \in Nat /\ here = ReadRun(before, run.op, n)
  BY <1>1, <1>3, RunSpans
<1>6. before \in Reading /\ here \in Reading /\ all \in Reading /\ Extends(here, all)
  <2>1. Len(diffs) \in 0 .. Len(diffs)
    BY <1>1
  <2> QED
    BY <1>1, <1>4, <2>1, ReadSteps, ReadExtends DEF ReadBytes
<1>7. all = ReadingOf(CopyBytes(al, 1))
  BY DEF Asked
<1>8. /\ MaxA(al) \in Nat /\ MaxAprime(al) \in Nat /\ a \in Nat /\ b \in Nat
      /\ Len(all.fwd) = MaxA(al) + 1 /\ Len(all.back) = MaxAprime(al) + 1
  <2> DEFINE c == CopyBytes(al, 1)
  <2>1. c \in AlignmentSet /\ MaxA(c) = MaxA(al) + 1 /\ MaxAprime(c) = MaxAprime(al) + 1
    BY CopyBytesAt
  <2> HIDE DEF c
  <2>2. all.fwd = c.fwd /\ all.back = c.back
    BY <1>7, <2>1, ReadingOfTyped DEF c
  <2> HIDE DEF all, before
  <2>3. MaxA(al) \in Nat /\ MaxAprime(al) \in Nat
    BY DEF MaxA, MaxAprime, AlignmentSet
  <2>4. a \in Nat /\ b \in Nat
    BY <1>6 DEF Reading
  <2> QED
    BY <2>1, <2>2, <2>3, <2>4 DEF MaxA, MaxAprime
<1> HIDE DEF run, before, here, all, a, b, n
<1>9. /\ Len(here.fwd) = a + IF run.op = "insert" THEN 0 ELSE n
      /\ Len(here.back) = b + IF run.op = "delete" THEN 0 ELSE n
      /\ \A i \in 1 .. Len(here.fwd) : here.fwd[i] =
           IF i <= a THEN before.fwd[i] ELSE b + IF run.op = "copy" THEN i - a - 1 ELSE 0
      /\ \A i \in 1 .. Len(here.back) : here.back[i] =
           IF i <= b THEN before.back[i] ELSE a + IF run.op = "copy" THEN i - b - 1 ELSE 0
  <2> DEFINE op == run.op
             q == ReadRun(before, op, n)
  <2> before \in Reading /\ op \in RunOps /\ n \in Nat
    BY <1>5, <1>6
  <2> HIDE DEF op
  <2>1. /\ Len(q.fwd) = a + IF op = "insert" THEN 0 ELSE n
        /\ Len(q.back) = b + IF op = "delete" THEN 0 ELSE n
        /\ \A i \in 1 .. Len(q.fwd) : q.fwd[i] =
             IF i <= a THEN before.fwd[i]
             ELSE b + IF op = "copy" THEN i - a - 1 ELSE 0
        /\ \A i \in 1 .. Len(q.back) : q.back[i] =
             IF i <= b THEN before.back[i]
             ELSE a + IF op = "copy" THEN i - b - 1 ELSE 0
    BY ReadRunTyped DEF a, b
  <2> HIDE DEF q
  <2>2. here = q
    BY <1>5 DEF q, op
  <2> QED
    BY <2>1, <2>2 DEF op
<1>10. CASE dir = "back"
  <2>1. b <= at /\ at < Len(here.back)
    BY <1>1, <1>10 DEF Lo, Hi
  <2>2. at \in Nat /\ at + 1 \in 1 .. Len(here.back) /\ ~ (at + 1 <= b)
    BY <1>5, <1>6, <1>8, <1>9, <2>1 DEF Reading
  <2>3. here.back[at+1] = a + IF run.op = "copy" THEN (at + 1) - b - 1 ELSE 0
    BY <1>9, <2>2
  <2>4. all.back[at+1] = here.back[at+1] /\ at + 1 <= Len(all.back)
    BY <1>6, <2>2 DEF Extends, Reading
  <2>5. BackOf(al, at) = all.back[at+1]
    <3>1. at \in 0 .. MaxAprime(al)
      BY <1>8, <2>2, <2>4
    <3> QED
      BY <1>7, <3>1, CopiedAnswers
  <2>6. at - map.diff \in Nat /\ at - map.diff = a + (at - b) /\ map.hi_a \in Nat
    <3>1. map.hi_a \in Nat
      BY <1>1 DEF Maps
    <3>2. at - (b - a) \in Nat /\ at - (b - a) = a + (at - b)
      BY <1>8, <2>1, <2>2
    <3> QED
      BY <1>1, <3>1, <3>2
  <2>7. FromWindow(map, dir, at) =
          IF a + (at - b) <= map.hi_a THEN a + (at - b) ELSE map.hi_a
    BY <1>10, <2>6, MinOfTwo DEF FromWindow
  <2>8. CASE run.op = "copy"
    <3>1. map.hi_a = a + n /\ at - b < n
      BY <1>1, <1>5, <1>8, <1>9, <2>1, <2>2, <2>8
    <3> QED
      BY <1>5, <1>8, <1>10, <2>2, <2>3, <2>4, <2>5, <2>7, <2>8, <3>1 DEF AnswerOf
  <2>9. CASE run.op = "insert"
    <3>1. map.hi_a = a
      BY <1>1, <1>8, <1>9, <2>9
    <3> QED
      BY <1>8, <1>10, <2>1, <2>2, <2>3, <2>4, <2>5, <2>7, <2>9, <3>1 DEF AnswerOf
  <2>10. run.op # "delete"
    BY <1>8, <1>9, <2>1
  <2> QED
    BY <1>5, <2>8, <2>9, <2>10 DEF RunOps
<1>11. CASE dir = "forward"
  <2>1. a <= at /\ at < Len(here.fwd)
    BY <1>1, <1>11 DEF Lo, Hi
  <2>2. at \in Nat /\ at + 1 \in 1 .. Len(here.fwd) /\ ~ (at + 1 <= a)
    BY <1>5, <1>6, <1>8, <1>9, <2>1 DEF Reading
  <2>3. here.fwd[at+1] = b + IF run.op = "copy" THEN (at + 1) - a - 1 ELSE 0
    BY <1>9, <2>2
  <2>4. all.fwd[at+1] = here.fwd[at+1] /\ at + 1 <= Len(all.fwd)
    BY <1>6, <2>2 DEF Extends, Reading
  <2>5. ForwardOf(al, at) = all.fwd[at+1]
    <3>1. at \in 0 .. MaxA(al)
      BY <1>8, <2>2, <2>4
    <3> QED
      BY <1>7, <3>1, CopiedAnswers
  <2>6. at + map.diff \in Nat /\ at + map.diff = b + (at - a) /\ map.hi_aprime \in Nat
    BY SMTT(30), <1>1, <1>8, <2>1, <2>2 DEF Maps
  <2>7. FromWindow(map, dir, at) =
          IF b + (at - a) <= map.hi_aprime THEN b + (at - a) ELSE map.hi_aprime
    BY <1>11, <2>6, MinOfTwo DEF FromWindow
  <2>8. CASE run.op = "copy"
    <3>1. map.hi_aprime = b + n /\ at - a < n
      BY <1>1, <1>5, <1>8, <1>9, <2>1, <2>2, <2>8
    <3> QED
      <4>1. AnswerOf(al, dir, at) = all.fwd[at+1]
        BY <1>11, <2>5 DEF AnswerOf
      <4>2. all.fwd[at+1] = b + (at - a)
        BY <1>5, <1>8, <2>2, <2>3, <2>4, <2>8
      <4>3. FromWindow(map, dir, at) = b + (at - a)
        BY <1>5, <1>8, <2>2, <2>7, <3>1
      <4> QED
        BY <4>1, <4>2, <4>3
  <2>9. CASE run.op = "delete"
    <3>1. map.hi_aprime = b
      BY <1>1, <1>8, <1>9, <2>9
    <3> QED
      BY <1>8, <1>11, <2>1, <2>2, <2>3, <2>4, <2>5, <2>7, <2>9, <3>1 DEF AnswerOf
  <2>10. run.op # "insert"
    BY <1>8, <1>9, <2>1
  <2> QED
    BY <1>5, <2>8, <2>9, <2>10 DEF RunOps
<1> QED
  BY <1>10, <1>11

-----------------------------------------------------------------------------
(* The inductive invariant holds *)

\* An empty map stands for an empty alignment.
LEMMA ClearedBuilds ==
  /\ Building(Cleared, EmptyAlignment) /\ AtLeft(Cleared)
  /\ MaxA(EmptyAlignment) = 0 /\ MaxAprime(EmptyAlignment) = 0
<1> DEFINE d == Cleared.diffs
           n == Cleared.pending_length
<1>1. /\ d \in Seq(Bytes) /\ d = <<>> /\ Len(d) = 0
      /\ Cleared \in Maps /\ Cleared.pending_op = "copy" /\ n = 0
      /\ Cleared.max_a = 0 /\ Cleared.max_aprime = 0 /\ AtLeft(Cleared)
  BY DEF Cleared, Maps, AtLeft, RunOps
<1>2. Read(d, Len(d)) = NothingRead
  <2> HIDE DEF d
  <2> QED
    BY <1>1, ReadSteps
<1> HIDE DEF d, n
<1>3. ReadRun(NothingRead, "copy", 0) = NothingRead
  BY NothingReadTyped, ReadNoRun DEF NothingRead, RunOps
<1>4. ReadAll(Cleared) = NothingRead
  BY <1>1, <1>2, <1>3 DEF ReadAll, ReadBytes, d, n
<1>5. ReadingOf(EmptyAlignment) = NothingRead
  BY DEF ReadingOf, EmptyAlignment, NothingRead
<1>6. MaxA(EmptyAlignment) = 0 /\ MaxAprime(EmptyAlignment) = 0
  BY DEF EmptyAlignment, MaxA, MaxAprime
<1>7. Building(Cleared, EmptyAlignment)
  BY <1>1, <1>4, <1>5, <1>6 DEF Building, EmptyAlignment, Ends, d, n
<1> QED
  BY <1>1, <1>6, <1>7

\* The constructor establishes the invariant.
LEMMA InitHolds == Init => IInv
<1> SUFFICES ASSUME Init PROVE IInv
  OBVIOUS
<1>1. TidyInv
  BY EmptyIsTidy DEF Init, TidyInv
<1>2. CursorAt(Cleared)
  BY ClearedBuilds, LeftIsCoherent DEF Building, Maps
<1>3. BuildInv
  BY <1>2, ClearedBuilds, OffsetMapAssumption DEF Init, BuildInv
<1>4. QueryInv
  BY DEF Init, QueryInv
<1> QED
  BY <1>1, <1>3, <1>4 DEF IInv

\* Clear begins again.
LEMMA ClearKeeps ==
  ASSUME IInv, Clear
  PROVE  BuildInv' /\ QueryInv'
<1>1. CursorAt(Cleared)
  BY ClearedBuilds, LeftIsCoherent DEF Building, Maps
<1>2. m' = Cleared /\ built' = EmptyAlignment /\ phase' = "build"
  BY DEF Clear
<1>3. BuildInv'
  BY <1>1, <1>2, ClearedBuilds, OffsetMapAssumption
     DEF BuildInv, Building, AtLeft, CursorAt, ReadAll, ReadBytes
<1>4. QueryInv'
  BY <1>2 DEF Clear, QueryInv, IInv
<1> QED
  BY <1>3, <1>4

\* A map that is being built is written back with the same alignment.
LEMMA BuildKeeps ==
  ASSUME IInv, NEW map, NEW al, Build(map), built' = al,
         Building(map, al), AtLeft(map)
  PROVE  BuildInv' /\ QueryInv'
<1>1. /\ m' = map /\ phase = "build" /\ phase' = "build"
      /\ query' = query /\ ok' = ok /\ answer' = answer
      /\ map.max_a <= MaxBytes /\ map.max_aprime <= MaxBytes
  BY DEF Build, Fits
<1>2. CursorAt(map) /\ map.max_a = MaxA(al) /\ map.max_aprime = MaxAprime(al)
  BY LeftIsCoherent DEF Building, Maps
<1>3. BuildInv'
  BY <1>1, <1>2 DEF BuildInv, Building, AtLeft, CursorAt, ReadAll, ReadBytes
<1>4. QueryInv'
  BY <1>1 DEF QueryInv, IInv
<1> QED
  BY <1>3, <1>4

\* A run that is pending fits in its digits.
LEMMA PendingEmittable ==
  ASSUME IInv, phase = "build"
  PROVE  /\ Building(m, built) /\ AtLeft(m) /\ built \in AlignmentSet
         /\ m.pending_length < Power[MaxDigits]
<1>1. /\ Building(m, built) /\ AtLeft(m) /\ built \in AlignmentSet
      /\ MaxA(built) <= MaxBytes /\ MaxAprime(built) <= MaxBytes
  BY DEF IInv, BuildInv, TidyInv
<1>2. /\ MaxBytes \in Nat /\ MaxBytes + 1 < Power[MaxDigits]
      /\ Power[MaxDigits] \in Nat /\ m.pending_length \in Nat
      /\ MaxA(built) \in Nat /\ MaxAprime(built) \in Nat
  <2>1. MaxDigits \in 0 .. MaxDigits
    BY OffsetMapAssumption
  <2> QED
    BY <1>1, <2>1, OffsetMapAssumption, PowerValues
       DEF Building, Maps, AlignmentSet, MaxA, MaxAprime
<1>3. m.pending_length <= MaxA(built) \/ m.pending_length <= MaxAprime(built)
  BY <1>1, PendingFits
<1> QED
  BY <1>1, <1>2, <1>3

\* Copy, Insert and Delete keep it.
LEMMA OperationsKeep ==
  ASSUME IInv, Copy \/ Insert \/ Delete
  PROVE  BuildInv' /\ QueryInv'
<1>1. phase = "build"
  BY DEF Copy, Insert, Delete, Build
<1>2. /\ Building(m, built) /\ AtLeft(m) /\ built \in AlignmentSet
      /\ m.pending_length < Power[MaxDigits]
  BY <1>1, PendingEmittable
<1>3. Lengths \subseteq Nat
  BY OffsetMapAssumption
<1>4. CASE Copy
  <2>1. PICK n \in Lengths : Build(DoCopy(m, n)) /\ built' = AlignCopy(built, n)
    BY <1>4 DEF Copy
  <2>2. Building(DoCopy(m, n), AlignCopy(built, n)) /\ AtLeft(DoCopy(m, n))
    BY <1>2, <1>3, CopyBuilds
  <2> QED
    BY <2>1, <2>2, BuildKeeps
<1>5. CASE Insert
  <2>1. PICK n \in Lengths : Build(DoInsert(m, n)) /\ built' = AlignInsert(built, n)
    BY <1>5 DEF Insert
  <2>2. Building(DoInsert(m, n), AlignInsert(built, n)) /\ AtLeft(DoInsert(m, n))
    BY <1>2, <1>3, InsertBuilds
  <2> QED
    BY <2>1, <2>2, BuildKeeps
<1>6. CASE Delete
  <2>1. PICK n \in Lengths : Build(DoDelete(m, n)) /\ built' = AlignDelete(built, n)
    BY <1>6 DEF Delete
  <2>2. Building(DoDelete(m, n), AlignDelete(built, n)) /\ AtLeft(DoDelete(m, n))
    BY <1>2, <1>3, DeleteBuilds
  <2> QED
    BY <2>1, <2>2, BuildKeeps
<1> QED
  BY <1>4, <1>5, <1>6

\* What the first question, or the next, finds.
LEMMA FlushedAsked ==
  ASSUME IInv
  PROVE  LET map == MaybeFlushAll(m) IN
         /\ Asked(map, Closed(built)) /\ CursorAt(map)
         /\ MaxA(Closed(built)) = MaxA(built) /\ MaxAprime(Closed(built)) = MaxAprime(built)
<1> DEFINE map == MaybeFlushAll(m)
<1>1. /\ MaxA(built) <= MaxBytes /\ MaxAprime(built) <= MaxBytes
      /\ built \in AlignmentSet /\ CursorAt(m)
  BY DEF IInv, BuildInv, TidyInv
<1>2. CASE phase = "build"
  <2>1. Asked(map, Closed(built)) /\ AtLeft(map)
    BY <1>1, <1>2, PendingEmittable, FlushAllAsks
  <2> HIDE DEF map
  <2>2. CursorAt(map)
    BY <2>1, LeftIsCoherent DEF Asked, Maps
  <2> QED
    BY <1>1, <2>1, <2>2, ClosedCopies DEF map
<1>3. CASE phase # "build"
  BY <1>1, <1>3, AskedStays DEF IInv, BuildInv
<1> QED
  BY <1>2, <1>3

\* SetLeft moves the cursor to the left of all runs.
LEMMA SetLeftMoves ==
  ASSUME NEW map \in Maps
  PROVE  SetLeft(map) \in Maps /\ AtLeft(SetLeft(map)) /\ SameBytes(map, SetLeft(map))
<1> DEFINE z == 0
           c == [map EXCEPT !.lo_a = z, !.hi_a = z, !.lo_aprime = z, !.hi_aprime = z,
                            !.diff = z, !.next_diff_sub = z]
<1>1. SetLeft(map) = c /\ z \in Nat /\ z \in Int /\ z = 0
  BY DEF SetLeft
<1> HIDE DEF z
<1>2. /\ c.lo_a = z /\ c.hi_a = z /\ c.lo_aprime = z /\ c.hi_aprime = z
      /\ c.diff = z /\ c.next_diff_sub = z
  BY DEF Maps
<1>3. c \in Maps /\ SameBytes(map, c)
  BY <1>1 DEF Maps, SameBytes
<1> QED
  BY <1>1, <1>2, <1>3 DEF AtLeft

\* Moving the cursor does not change what a map stands for.
LEMMA SameBytesAsked ==
  ASSUME NEW map, NEW other \in Maps, NEW al, Asked(map, al), SameBytes(map, other)
  PROVE  Asked(other, al)
BY DEF Asked, SameBytes, ReadBytes

\* Reset flushes the map and moves the cursor to the left.
LEMMA ResetKeeps ==
  ASSUME IInv, Reset
  PROVE  BuildInv' /\ QueryInv'
<1> DEFINE map == MaybeFlushAll(m)
           new == SetLeft(map)
           al == Closed(built)
<1>1. /\ Asked(map, al) /\ MaxA(al) <= MaxBytes /\ MaxAprime(al) <= MaxBytes
  BY FlushedAsked DEF IInv, BuildInv
<1>2. m' = new /\ built' = al /\ phase' = "ready"
  BY DEF Reset, DoReset
<1> HIDE DEF map, al
<1>3. /\ new \in Maps /\ AtLeft(new) /\ Asked(new, al)
  BY <1>1, SetLeftMoves, SameBytesAsked DEF Asked
<1> HIDE DEF new
<1>4. CursorAt(new)
  BY <1>3, LeftIsCoherent DEF Maps
<1>5. BuildInv'
  BY <1>1, <1>2, <1>3, <1>4 DEF BuildInv, Asked, CursorAt, ReadBytes
<1>6. QueryInv'
  BY <1>2 DEF Reset, QueryInv, IInv
<1> QED
  BY <1>5, <1>6

\* A question that begins flushes the map and leaves the cursor where it is.
LEMMA QuestionKeeps ==
  ASSUME IInv, MapBack \/ MapForward
  PROVE  BuildInv' /\ QueryInv'
<1> DEFINE map == MaybeFlushAll(m)
           al == Closed(built)
<1>1. /\ Asked(map, al) /\ MaxA(al) <= MaxBytes /\ MaxAprime(al) <= MaxBytes
      /\ CursorAt(map)
  BY FlushedAsked DEF IInv, BuildInv
<1>2. PICK dir \in {"back", "forward"}, at \in Offsets :
        MapOutside(dir, at) \/ MapInside(dir, at)
  BY DEF MapBack, MapForward
<1>3. m' = map /\ built' = al /\ phase' \in {"left", "answered"}
  BY <1>2 DEF MapOutside, MapInside
<1> HIDE DEF al
<1>4. ASSUME MapOutside(dir, at) PROVE QueryInv'
  BY <1>4 DEF MapOutside, QueryInv, IInv
<1>5. ASSUME MapInside(dir, at) PROVE QueryInv'
  <2>1. /\ phase' = "left" /\ ok' = TRUE /\ answer' = NoAnswer
        /\ query' = [dir |-> dir, at |-> at] /\ ~ Outside(map, dir, at)
    BY <1>5 DEF MapInside, QueryInv, IInv
  <2> HIDE DEF map
  <2>2. /\ query'.dir = dir /\ query'.at = at /\ at \in Int
        /\ 0 <= at /\ at < MaxFrom(map, dir)
    <3>1. at \in Int
      BY OffsetMapAssumption
    <3>2. MaxFrom(map, dir) \in Nat
      BY <1>1 DEF Asked, Maps, MaxFrom
    <3> QED
      BY <2>1, <3>1, <3>2 DEF Outside
  <2> QED
    BY <1>3, <2>1, <2>2 DEF QueryInv, MaxFrom, NoAnswer
<1> HIDE DEF map
<1>6. BuildInv'
  BY <1>1, <1>3 DEF BuildInv, Asked, CursorAt, ReadBytes
<1> QED
  BY <1>2, <1>4, <1>5, <1>6

\* The bytes of a map that is asked add up to its two texts.
LEMMA AskedAddsUp ==
  ASSUME NEW map, NEW al \in AlignmentSet, Asked(map, al)
  PROVE  Len(ReadBytes(map).fwd) = map.max_a /\ Len(ReadBytes(map).back) = map.max_aprime
<1> DEFINE n == 1
           c == CopyBytes(al, n)
<1>1. n \in Nat /\ map.max_a = MaxA(al) + n /\ map.max_aprime = MaxAprime(al) + n
      /\ ReadBytes(map) = ReadingOf(c)
  BY DEF Asked
<1> HIDE DEF n
<1>2. c \in AlignmentSet /\ MaxA(c) = MaxA(al) + n /\ MaxAprime(c) = MaxAprime(al) + n
  BY <1>1, CopyBytesAt
<1> HIDE DEF c
<1> QED
  BY <1>1, <1>2, ReadingOfTyped DEF MaxA, MaxAprime

\* A walk finds the map that the question was asked of, and its cursor.
LEMMA WalkBegins ==
  ASSUME IInv, phase \in {"left", "right"}
  PROVE  /\ Asked(m, built) /\ CursorAt(m) /\ built \in AlignmentSet
         /\ m \in Maps /\ Ends(m.diffs, Len(m.diffs)) /\ ok = TRUE
         /\ query.dir \in {"back", "forward"}
         /\ query.at \in Offsets /\ query.at \in Int
         /\ 0 <= query.at /\ query.at < MaxFrom(m, query.dir)
         /\ m.lo_a \in Nat /\ m.lo_aprime \in Nat /\ m.hi_a \in Nat /\ m.hi_aprime \in Nat
<1>1. /\ Asked(m, built) /\ CursorAt(m) /\ built \in AlignmentSet /\ ok = TRUE
      /\ query.dir \in {"back", "forward"} /\ query.at \in Offsets
      /\ 0 <= query.at /\ query.at < MaxFrom(m, query.dir)
  BY DEF IInv, BuildInv, QueryInv, TidyInv
<1>2. m \in Maps /\ Ends(m.diffs, Len(m.diffs))
  BY <1>1 DEF Asked
<1> QED
  BY <1>1, <1>2, OffsetMapAssumption DEF Maps

\* Whatever moves the cursor of a map that is asked keeps what is built.
LEMMA CursorKeeps ==
  ASSUME IInv, phase \in {"left", "right"}, NEW map \in Maps,
         SameBytes(m, map), CursorAt(map),
         m' = map, built' = built, phase' = phase
  PROVE  BuildInv'
<1>1. Asked(map, built)
  BY WalkBegins, SameBytesAsked
<1>2. MaxA(built) <= MaxBytes /\ MaxAprime(built) <= MaxBytes /\ phase' # "build"
  BY DEF IInv, BuildInv
<1> QED
  BY <1>1, <1>2 DEF BuildInv, Asked, CursorAt, ReadBytes

\* Left of the offset asked for there is a run whenever the window is beyond.
LEMMA StepLeftMoves ==
  ASSUME IInv, StepLeft
  PROVE  /\ BuildInv' /\ QueryInv' /\ m'.next_diff_sub < m.next_diff_sub
<1> DEFINE map == MoveLeft(m)
<1>1. /\ phase = "left" /\ ok = TRUE /\ query.at < Lo(m, query.dir)
      /\ m' = map /\ ok' = CanMoveLeft(m) /\ phase' = phase
      /\ query' = query /\ answer' = answer /\ built' = built
  BY DEF StepLeft, WantsLeft
<1>2. m.lo_a > 0 \/ m.lo_aprime > 0
  BY <1>1, WalkBegins DEF Lo
<1>3. /\ CanMoveLeft(m) /\ map \in Maps /\ CursorAt(map)
      /\ SameBytes(m, map) /\ map.next_diff_sub < m.next_diff_sub
  BY <1>1, <1>2, WalkBegins, MoveLeftMoves
<1> HIDE DEF map
<1>4. BuildInv'
  BY <1>1, <1>3, CursorKeeps
<1>5. ok' = TRUE
  BY <1>1, <1>3, Zenon
<1>6. MaxFrom(map, query.dir) = MaxFrom(m, query.dir)
  BY <1>3 DEF SameBytes, MaxFrom
<1>7. QueryInv'
  BY <1>1, <1>5, <1>6 DEF QueryInv, IInv, MaxFrom
<1> QED
  BY <1>1, <1>3, <1>4, <1>7

\* Right of the window there is a run whenever the offset is beyond it.
LEMMA StepRightMoves ==
  ASSUME IInv, StepRight
  PROVE  /\ BuildInv' /\ QueryInv' /\ m'.next_diff_sub > m.next_diff_sub
<1> DEFINE map == MoveRight(m)
<1>1. /\ phase = "right" /\ ok = TRUE /\ Hi(m, query.dir) <= query.at
      /\ m' = map /\ ok' = CanMoveRight(m) /\ phase' = phase
      /\ query' = query /\ answer' = answer /\ built' = built
  BY DEF StepRight, WantsRight
<1>2. m.next_diff_sub < Len(m.diffs)
  <2>1. /\ m.next_diff_sub \in 0 .. Len(m.diffs) /\ Len(m.diffs) \in Nat
        /\ m.hi_a = Len(Read(m.diffs, m.next_diff_sub).fwd)
        /\ m.hi_aprime = Len(Read(m.diffs, m.next_diff_sub).back)
    BY <1>1, WalkBegins DEF CursorAt, Maps
  <2>2. /\ Len(ReadBytes(m).fwd) = m.max_a /\ Len(ReadBytes(m).back) = m.max_aprime
    BY <1>1, WalkBegins, AskedAddsUp
  <2>3. m.next_diff_sub # Len(m.diffs)
    <3> SUFFICES ASSUME m.next_diff_sub = Len(m.diffs) PROVE FALSE
      OBVIOUS
    <3>1. m.hi_a = m.max_a /\ m.hi_aprime = m.max_aprime
      BY <2>1, <2>2 DEF ReadBytes
    <3>2. Hi(m, query.dir) = MaxFrom(m, query.dir) /\ Hi(m, query.dir) \in Nat
      BY <1>1, <3>1, WalkBegins DEF Hi, MaxFrom
    <3> QED
      BY <1>1, <3>2, WalkBegins
  <2> QED
    BY <2>1, <2>3
<1>3. /\ CanMoveRight(m) /\ map \in Maps /\ CursorAt(map)
      /\ SameBytes(m, map) /\ map.next_diff_sub > m.next_diff_sub
      /\ map.lo_a = m.hi_a /\ map.lo_aprime = m.hi_aprime
  BY <1>1, <1>2, WalkBegins, MoveRightMoves
<1> HIDE DEF map
<1>4. BuildInv'
  BY <1>1, <1>3, CursorKeeps
<1>5. ok' = TRUE
  BY <1>1, <1>3, Zenon
<1>6. /\ MaxFrom(map, query.dir) = MaxFrom(m, query.dir)
      /\ Lo(map, query.dir) = Hi(m, query.dir)
  BY <1>3 DEF SameBytes, MaxFrom, Lo, Hi
<1>7. QueryInv'
  BY <1>1, <1>5, <1>6 DEF QueryInv, IInv, MaxFrom, Lo
<1> QED
  BY <1>1, <1>3, <1>4, <1>7

\* The other steps leave the map as it is.
LEMMA RestKeeps ==
  ASSUME IInv, EndOfLeft \/ Answer \/ Return \/ UNCHANGED vars
  PROVE  BuildInv' /\ QueryInv'
<1>1. m' = m /\ built' = built /\ (phase' = "build" <=> phase = "build")
  BY DEF EndOfLeft, Answer, Return, vars, IInv, QueryInv
<1>2. BuildInv'
  BY <1>1 DEF IInv, BuildInv, Building, Asked, CursorAt, AtLeft, ReadAll, ReadBytes
<1>3. CASE EndOfLeft
  <2>1. /\ phase = "left" /\ ok = TRUE /\ ~ (query.at < Lo(m, query.dir))
        /\ query' = query /\ ok' = ok /\ answer' = answer /\ phase' = "right"
    BY <1>3 DEF EndOfLeft, WantsLeft, IInv, QueryInv
  <2>2. Lo(m, query.dir) <= query.at
    <3>1. Lo(m, query.dir) \in Nat /\ query.at \in Int
      BY <2>1, WalkBegins DEF Lo
    <3> QED
      BY <2>1, <3>1
  <2> QED
    BY <1>1, <1>2, <2>1, <2>2 DEF QueryInv, IInv, MaxFrom, Lo
<1>4. CASE Answer
  BY <1>2, <1>4 DEF Answer, QueryInv, IInv
<1>5. CASE Return
  BY <1>2, <1>5 DEF Return, QueryInv, IInv
<1>6. CASE UNCHANGED vars
  <2>1. phase' = phase /\ query' = query /\ ok' = ok /\ answer' = answer
    BY <1>6 DEF vars
  <2> QED
    BY <1>1, <1>2, <2>1 DEF QueryInv, IInv, MaxFrom, Lo
<1> QED
  BY <1>3, <1>4, <1>5, <1>6

\* Every step keeps the invariant.
LEMMA StepHolds == IInv /\ [Next]_vars => IInv'
<1> SUFFICES ASSUME IInv, [Next]_vars PROVE IInv'
  OBVIOUS
<1>1. TidyInv'
  BY TidyKept DEF IInv
<1>2. BuildInv' /\ QueryInv'
  <2>1. CASE Clear
    BY <2>1, ClearKeeps
  <2>2. CASE Copy \/ Insert \/ Delete
    BY <2>2, OperationsKeep
  <2>3. CASE Reset
    BY <2>3, ResetKeeps
  <2>4. CASE MapBack \/ MapForward
    BY <2>4, QuestionKeeps
  <2>5. CASE StepLeft
    BY <2>5, StepLeftMoves
  <2>6. CASE StepRight
    BY <2>6, StepRightMoves
  <2>7. CASE EndOfLeft \/ Answer \/ Return \/ UNCHANGED vars
    BY <2>7, RestKeeps
  <2> QED
    BY <2>1, <2>2, <2>3, <2>4, <2>5, <2>6, <2>7 DEF Next, Walk
<1> QED
  BY <1>1, <1>2 DEF IInv

\* The invariant holds.
LEMMA InvariantHolds == Spec => []IInv
BY InitHolds, StepHolds, PTL DEF Spec

-----------------------------------------------------------------------------
(* Theorems *)

\* It implies the types,
LEMMA InvariantTyped == IInv => TypeOK
<1> SUFFICES ASSUME IInv PROVE TypeOK
  OBVIOUS
<1>1. m \in Maps /\ CursorAt(m) /\ QueryInv
  BY DEF IInv, BuildInv, Building, Asked
<1>2. /\ m.diffs \in Seq(Bytes) /\ m.pending_op \in RunOps /\ m.pending_length \in Nat
      /\ {m.lo_a, m.hi_a, m.lo_aprime, m.hi_aprime, m.max_a, m.max_aprime} \subseteq Nat
      /\ m.diff \in Int
  BY <1>1 DEF Maps
<1>3. m.next_diff_sub \in 0 .. Len(m.diffs)
  BY <1>1 DEF CursorAt
<1>4. phase \in {"build", "ready", "left", "right", "answered"}
  BY <1>1 DEF QueryInv
<1> QED
  BY <1>2, <1>3, <1>4 DEF TypeOK, Bytes, RunOps

\* Every field of the map keeps its type, whatever is built and asked: the
\* windows of the cursor never become negative, its subscript never leaves the
\* bytes, and every length fits in its digit.
THEOREM TypesHold == Spec => []TypeOK
BY InvariantHolds, InvariantTyped, PTL

\* The windows that the moves of the cursor keep by adding and subtracting are
\* those of the run before next_diff_sub_, after every walk and inside each.
THEOREM CursorIsCoherent == Spec => []CursorCoherent
<1>1. IInv => CursorCoherent
  BY DEF IInv, BuildInv, CursorAt, CursorCoherent
<1> QED
  BY <1>1, InvariantHolds, PTL

\* and that the bytes, with the pending run, stand for the alignment.
LEMMA InvariantMaps == IInv => MapsAsBuilt
<1> SUFFICES ASSUME IInv PROVE MapsAsBuilt
  OBVIOUS
<1> DEFINE flushed == Flush(m).diffs
           read == Read(flushed, Len(flushed))
<1>1. /\ built \in AlignmentSet /\ built.fwd \in Seq(Nat) /\ built.back \in Seq(Nat)
      /\ MaxA(built) = Len(built.fwd) /\ MaxAprime(built) = Len(built.back)
      /\ Len(built.fwd) \in Nat /\ Len(built.back) \in Nat
  BY DEF IInv, TidyInv, AlignmentSet, MaxA, MaxAprime
<1>2. CASE phase = "build"
  <2>1. PICK d : /\ Flushed(m, d)
                 /\ Flush(m) = [m EXCEPT !.diffs = d, !.pending_length = 0]
    BY <1>2, PendingEmittable, FlushReads DEF Building
  <2>2. flushed = d
    BY <1>2, <2>1, PendingEmittable DEF Building, Maps
  <2> HIDE DEF flushed
  <2>3. read = ReadingOf(built)
    BY <1>2, <2>1, <2>2, PendingEmittable DEF Flushed, Building
  <2> HIDE DEF read
  <2>4. read.fwd = built.fwd /\ read.back = built.back
    BY <1>1, <2>3, ReadingOfTyped
  <2>5. /\ m.max_a = Len(built.fwd) /\ m.max_aprime = Len(built.back)
        /\ built.op = m.pending_op /\ built.run = m.pending_length
    BY <1>1, <1>2, PendingEmittable DEF Building
  <2>6. m.max_a - Extra = Len(built.fwd) /\ m.max_aprime - Extra = Len(built.back)
    BY <1>1, <1>2, <2>5 DEF Extra
  <2>7. /\ SubSeq(built.fwd, 1, Len(built.fwd)) = built.fwd
        /\ SubSeq(built.back, 1, Len(built.back)) = built.back
    BY <1>1, PrefixIs
  <2> QED
    BY <2>4, <2>5, <2>6, <2>7 DEF MapsAsBuilt, read, flushed
<1>3. CASE phase # "build"
  <2> DEFINE n == 1
             c == CopyBytes(built, n)
  <2>1. /\ Asked(m, built) /\ Flush(m) = m /\ n = 1 /\ n \in Nat
        /\ built.op = m.pending_op /\ built.run = m.pending_length
    BY <1>3 DEF IInv, BuildInv, Asked, Flush
  <2>2. read = ReadingOf(c)
    BY <2>1 DEF Asked, ReadBytes
  <2> HIDE DEF flushed, read, n
  <2>3. /\ c \in AlignmentSet
        /\ MaxA(c) = MaxA(built) + n /\ MaxAprime(c) = MaxAprime(built) + n
        /\ \A i \in 1 .. MaxAprime(c) : c.back[i] =
             IF i <= MaxAprime(built) THEN built.back[i]
             ELSE MaxA(built) + i - MaxAprime(built) - 1
        /\ \A i \in 1 .. MaxA(c) : c.fwd[i] =
             IF i <= MaxA(built) THEN built.fwd[i]
             ELSE MaxAprime(built) + i - MaxA(built) - 1
    BY <1>1, <2>1, CopyBytesAt
  <2> HIDE DEF c
  <2>4. /\ read.fwd = c.fwd /\ read.back = c.back
        /\ read.fwd \in Seq(Nat) /\ read.back \in Seq(Nat)
    BY <2>2, <2>3, ReadingOfTyped DEF AlignmentSet
  <2>5. /\ Len(read.fwd) = Len(built.fwd) + 1 /\ Len(read.back) = Len(built.back) + 1
        /\ \A i \in 1 .. Len(built.fwd) : read.fwd[i] = built.fwd[i]
        /\ \A i \in 1 .. Len(built.back) : read.back[i] = built.back[i]
    <3>1. MaxA(c) = Len(built.fwd) + 1 /\ MaxAprime(c) = Len(built.back) + 1
      BY <1>1, <2>1, <2>3
    <3>2. MaxA(c) = Len(read.fwd) /\ MaxAprime(c) = Len(read.back)
      BY <2>4 DEF MaxA, MaxAprime
    <3>3. ASSUME NEW i \in 1 .. Len(built.fwd) PROVE c.fwd[i] = built.fwd[i]
      <4>1. i \in 1 .. MaxA(c) /\ i <= MaxA(built)
        BY <1>1, <3>1
      <4> QED
        BY <2>3, <4>1, Zenon
    <3>4. ASSUME NEW i \in 1 .. Len(built.back) PROVE c.back[i] = built.back[i]
      <4>1. i \in 1 .. MaxAprime(c) /\ i <= MaxAprime(built)
        BY <1>1, <3>1
      <4> QED
        BY <2>3, <4>1, Zenon
    <3> QED
      BY <2>4, <3>1, <3>2, <3>3, <3>4
  <2>6. /\ SubSeq(read.fwd, 1, Len(built.fwd)) = built.fwd
        /\ SubSeq(read.back, 1, Len(built.back)) = built.back
    BY <1>1, <2>4, <2>5, PrefixIs
  <2>7. m.max_a = Len(built.fwd) + 1 /\ m.max_aprime = Len(built.back) + 1
    BY <1>1, <2>1 DEF Asked
  <2>8. m.max_a - Extra = Len(built.fwd) /\ m.max_aprime - Extra = Len(built.back)
    BY <1>1, <1>3, <2>7 DEF Extra
  <2> QED
    BY <2>1, <2>5, <2>6, <2>7, <2>8 DEF MapsAsBuilt, read, flushed
<1> QED
  BY <1>2, <1>3

\* The bytes of the map and its pending run stand for the alignment that the
\* operations described, however often a run was extended, folded, merged into
\* the last byte or written out in several digits.
THEOREM BytesStandForAlignment == Spec => []MapsAsBuilt
BY InvariantHolds, InvariantMaps, PTL

\* Putting the cursor on a run moves it there.
LEMMA OnRunIsThere ==
  ASSUME NEW map \in Maps, NEW sub \in 0 .. Len(map.diffs), Ends(map.diffs, sub)
  PROVE  LET c == OnRun(map, sub) IN
         /\ c \in Maps /\ SameBytes(map, c) /\ CursorAt(c)
         /\ c.hi_a = Len(Read(map.diffs, sub).fwd)
         /\ c.hi_aprime = Len(Read(map.diffs, sub).back)
         /\ c.lo_a = Len(Read(map.diffs, Backup(map.diffs, sub)).fwd)
         /\ c.lo_aprime = Len(Read(map.diffs, Backup(map.diffs, sub)).back)
<1> DEFINE diffs == map.diffs
           before == Backup(diffs, sub)
           c == OnRun(map, sub)
           lo == Len(Read(diffs, before).fwd)
           hi == Len(Read(diffs, sub).fwd)
           loprime == Len(Read(diffs, before).back)
           hiprime == Len(Read(diffs, sub).back)
<1>1. diffs \in Seq(Bytes) /\ Len(diffs) \in Nat /\ sub \in Nat
  BY DEF Maps
<1>2. before \in 0 .. Len(diffs)
  <2>1. CASE sub = 0
    BY <1>1, <2>1 DEF Backup
  <2>2. CASE sub # 0
    <3>1. sub \in 1 .. Len(diffs)
      BY <1>1, <2>2
    <3>2. Run(diffs, before, sub)
      BY <1>1, <3>1, RunPrecedes
    <3> HIDE DEF before
    <3> QED
      BY <1>1, <3>2 DEF Run
  <2> QED
    BY <2>1, <2>2
<1> HIDE DEF before
<1>3. Read(diffs, before) \in Reading /\ Read(diffs, sub) \in Reading
  BY <1>1, <1>2, ReadSteps
<1>4. lo \in Nat /\ hi \in Nat /\ loprime \in Nat /\ hiprime \in Nat
  BY <1>3 DEF Reading
<1>5. c = Moved(map, sub, lo, hi, loprime, hiprime)
  BY DEF OnRun, Moved, before
<1> HIDE DEF c, lo, hi, loprime, hiprime
<1>6. IsMoved(map, c, sub, lo, hi, loprime, hiprime)
  BY <1>1, <1>4, <1>5, MovedFields
<1>7. /\ c \in Maps /\ SameBytes(map, c) /\ c.next_diff_sub = sub /\ c.diffs = diffs
      /\ c.lo_a = lo /\ c.hi_a = hi /\ c.lo_aprime = loprime /\ c.hi_aprime = hiprime
      /\ c.diff = c.lo_aprime - c.lo_a
  BY <1>6 DEF IsMoved, SameBytes
<1>8. CursorAt(c)
  BY <1>7, Zenon DEF CursorAt, lo, hi, loprime, hiprime, before
<1> QED
  BY <1>7, <1>8 DEF c, lo, hi, loprime, hiprime, before

\* Every offset within a map that is asked lies in the window of one of its runs.
LEMMA WindowHolds ==
  ASSUME NEW map, NEW al \in AlignmentSet, Asked(map, al),
         NEW dir \in {"back", "forward"}, NEW x \in Int, ~ Outside(map, dir, x)
  PROVE  \E window \in Windows(map) : Lo(window, dir) <= x /\ x < Hi(window, dir)
<1> DEFINE diffs == map.diffs
           n == Len(diffs)
           S == {k \in 0 .. n : Ends(diffs, k) /\ x < Hi(OnRun(map, k), dir)}
           sub == Min(S)
<1>1. map \in Maps /\ diffs \in Seq(Bytes) /\ n \in Nat /\ Ends(diffs, n)
  BY DEF Asked, Maps
<1>2. 0 <= x /\ x < MaxFrom(map, dir)
  <2>1. MaxFrom(map, dir) \in Nat
    BY <1>1 DEF MaxFrom, Maps
  <2> QED
    BY <2>1 DEF Outside
<1>3. n \in S
  <2>1. Hi(OnRun(map, n), dir) = MaxFrom(map, dir)
    BY <1>1, OnRunIsThere, AskedAddsUp DEF Hi, MaxFrom, ReadBytes
  <2> QED
    BY <1>1, <1>2, <2>1
<1>4. sub \in S /\ \A k \in S : sub <= k
  <2>1. S \in SUBSET Nat
    OBVIOUS
  <2> HIDE DEF S
  <2> QED
    BY <1>3, <2>1, MinIsLeast
<1> HIDE DEF sub
<1>5. sub \in 0 .. n /\ Ends(diffs, sub) /\ x < Hi(OnRun(map, sub), dir)
  BY <1>4
<1>6. sub # 0
  <2> SUFFICES ASSUME sub = 0 PROVE FALSE
    OBVIOUS
  <2>1. Hi(OnRun(map, 0), dir) = 0
    <3>1. 0 \in 0 .. n /\ Ends(diffs, 0)
      BY <1>1 DEF Ends
    <3>2. Len(NothingRead.fwd) = 0 /\ Len(NothingRead.back) = 0
      BY DEF NothingRead
    <3> QED
      BY <1>1, <3>1, <3>2, OnRunIsThere, ReadSteps DEF Hi
  <2> QED
    BY <1>2, <1>5, <2>1
<1> DEFINE before == Backup(diffs, sub)
<1>7. before \in 0 .. n /\ before < sub /\ Ends(diffs, before)
  <2>1. sub \in 1 .. n
    BY <1>1, <1>5, <1>6
  <2>2. Run(diffs, before, sub)
    BY <1>1, <1>5, <2>1, RunPrecedes
  <2> HIDE DEF before
  <2> QED
    BY <1>1, <2>1, <2>2 DEF Run
<1>8. ~ (x < Hi(OnRun(map, before), dir))
  <2> HIDE DEF before
  <2> QED
    BY <1>1, <1>4, <1>5, <1>7
<1>9. Lo(OnRun(map, sub), dir) = Hi(OnRun(map, before), dir)
  BY <1>1, <1>5, <1>7, OnRunIsThere DEF Lo, Hi
<1>10. Hi(OnRun(map, before), dir) \in Nat
  <2>1. OnRun(map, before) \in Maps
    BY <1>1, <1>7, OnRunIsThere
  <2> QED
    BY <2>1 DEF Hi, Maps
<1>11. Lo(OnRun(map, sub), dir) <= x
  BY <1>8, <1>9, <1>10
<1>12. OnRun(map, sub) \in Windows(map)
  BY <1>1, <1>5, <1>6 DEF Windows, Ends
<1> QED
  BY <1>5, <1>11, <1>12

\* A map answers every offset, and as the alignment that was built does.
LEMMA AnswersAreBuilt ==
  ASSUME IInv, NEW dir \in {"back", "forward"}
  PROVE  LET answers == Answers(MaybeFlushAll(m), dir) IN
         /\ \A r \in answers : r.at \in Int /\ r.to = AnswerOf(built, dir, r.at)
         /\ \A x \in Offsets : \E r \in answers : r.at = x
<1> DEFINE map == MaybeFlushAll(m)
           al == Closed(built)
           From(x) == [at |-> x, to |-> FromOutside(map, dir, x)]
           In(window, x) == [at |-> x, to |-> FromWindow(window, dir, x)]
           Held(window, x) == /\ ~ Outside(map, dir, x)
                              /\ Lo(window, dir) <= x /\ x < Hi(window, dir)
<1>1. /\ Asked(map, al) /\ al \in AlignmentSet /\ built \in AlignmentSet
  BY FlushedAsked, ClosedCopies DEF IInv, TidyInv
<1>2. \A x : AnswerOf(al, dir, x) = AnswerOf(built, dir, x)
  BY <1>1, ClosedCopies DEF AnswerOf
<1>3. Offsets \subseteq Int
  BY OffsetMapAssumption
<1> HIDE DEF map, al
<1>4. Answers(map, dir) =
        {From(x) : x \in {x \in Offsets : Outside(map, dir, x)}}
        \cup UNION {{In(window, x) : x \in {x \in Offsets : Held(window, x)}}
                    : window \in Windows(map)}
  BY DEF Answers
<1>5. ASSUME NEW x \in Offsets, Outside(map, dir, x)
      PROVE  From(x).at = x /\ From(x).to = AnswerOf(built, dir, x)
  BY <1>1, <1>2, <1>3, <1>5, OutsideAnswers
<1>6. ASSUME NEW window \in Windows(map), NEW x \in Offsets, Held(window, x)
      PROVE  In(window, x).at = x /\ In(window, x).to = AnswerOf(built, dir, x)
  <2>1. PICK sub \in 1 .. Len(map.diffs) :
          window = OnRun(map, sub) /\ map.diffs[sub].op # "prefix"
    BY DEF Windows
  <2>2. /\ map \in Maps /\ Len(map.diffs) \in Nat
        /\ sub \in 0 .. Len(map.diffs) /\ Ends(map.diffs, sub)
    BY <1>1, <2>1 DEF Asked, Maps, Ends
  <2>3. window \in Maps /\ SameBytes(map, window) /\ CursorAt(window)
    BY <2>1, <2>2, OnRunIsThere
  <2>4. Asked(window, al)
    BY <1>1, <2>3, SameBytesAsked
  <2>5. FromWindow(window, dir, x) = AnswerOf(al, dir, x)
    BY <1>1, <1>3, <1>6, <2>3, <2>4, WindowAnswers
  <2> QED
    BY <1>2, <2>5
<1>7. ASSUME NEW r \in Answers(map, dir)
      PROVE  r.at \in Int /\ r.to = AnswerOf(built, dir, r.at)
  <2>1. CASE \E x \in Offsets : Outside(map, dir, x) /\ r = From(x)
    BY <1>3, <1>5, <2>1
  <2>2. CASE \E window \in Windows(map) : \E x \in Offsets : Held(window, x) /\ r = In(window, x)
    BY <1>3, <1>6, <2>2
  <2> HIDE DEF From, In, Held
  <2> QED
    BY <1>4, <1>7, <2>1, <2>2
<1>8. ASSUME NEW x \in Offsets PROVE \E r \in Answers(map, dir) : r.at = x
  <2>1. CASE Outside(map, dir, x)
    <3>1. From(x).at = x
      OBVIOUS
    <3> HIDE DEF From, In, Held
    <3>2. From(x) \in Answers(map, dir)
      BY <1>4, <2>1
    <3> QED
      BY <3>1, <3>2
  <2>2. CASE ~ Outside(map, dir, x)
    <3>1. PICK window \in Windows(map) : Held(window, x)
      BY <1>1, <1>3, <2>2, WindowHolds
    <3>2. In(window, x).at = x
      OBVIOUS
    <3> HIDE DEF From, In, Held
    <3>3. In(window, x) \in Answers(map, dir)
      BY <1>4, <3>1
    <3> QED
      BY <3>2, <3>3
  <2> QED
    BY <2>1, <2>2
<1> QED
  BY <1>7, <1>8 DEF map

\* The answers of a tidy alignment never run backwards and never cross.
LEMMA TidyAnswers ==
  ASSUME NEW al \in AlignmentSet, Tidy(al)
  PROVE  /\ \A x, y \in Int : x <= y =>
              BackOf(al, x) <= BackOf(al, y) /\ ForwardOf(al, x) <= ForwardOf(al, y)
         /\ \A x, a \in Nat :
              /\ a < BackOf(al, x)    => ForwardOf(al, a) <= x
              /\ x < ForwardOf(al, a) => BackOf(al, x) <= a
<1> DEFINE ma == MaxA(al)
           mp == MaxAprime(al)
           b == al.back
           f == al.fwd
<1>1. /\ ma \in Nat /\ mp \in Nat
      /\ \A i \in 1 .. mp : b[i] \in Nat
      /\ \A i \in 1 .. ma : f[i] \in Nat
  BY DEF AlignmentSet, MaxA, MaxAprime
<1>2. /\ \A i, j \in 1 .. mp : i <= j => b[i] <= b[j]
      /\ \A i, j \in 1 .. ma : i <= j => f[i] <= f[j]
      /\ \A i \in 1 .. mp : b[i] <= ma
      /\ \A i \in 1 .. ma : f[i] <= mp
  BY DEF Tidy, Runs
<1>3. \A i \in 1 .. mp, j \in 1 .. ma : ~ (j - 1 < b[i] /\ i - 1 < f[j])
  BY DEF Tidy, Crosses
<1>4. \A x \in Int : /\ BackOf(al, x) = IF x < 0 THEN 0 ELSE IF x < mp THEN b[x+1] ELSE x - mp + ma
                     /\ ForwardOf(al, x) = IF x < 0 THEN 0 ELSE IF x < ma THEN f[x+1] ELSE x - ma + mp
  BY DEF BackOf, ForwardOf
<1> HIDE DEF ma, mp, b, f
<1>5. ASSUME NEW x \in Int, NEW y \in Int, x <= y
      PROVE  BackOf(al, x) <= BackOf(al, y)
  <2>1. /\ 0 <= x /\ x < mp => x + 1 \in 1 .. mp
        /\ 0 <= y /\ y < mp => y + 1 \in 1 .. mp
    BY <1>1
  <2> QED
    BY <1>1, <1>2, <1>4, <1>5, <2>1
<1>6. ASSUME NEW x \in Int, NEW y \in Int, x <= y
      PROVE  ForwardOf(al, x) <= ForwardOf(al, y)
  <2>1. /\ 0 <= x /\ x < ma => x + 1 \in 1 .. ma
        /\ 0 <= y /\ y < ma => y + 1 \in 1 .. ma
    BY <1>1
  <2> QED
    BY <1>1, <1>2, <1>4, <1>6, <2>1
<1>7. ASSUME NEW x \in Nat, NEW a \in Nat
      PROVE  /\ a < BackOf(al, x)    => ForwardOf(al, a) <= x
             /\ x < ForwardOf(al, a) => BackOf(al, x) <= a
  <2>1. /\ x < mp => x + 1 \in 1 .. mp /\ BackOf(al, x) = b[x+1] /\ b[x+1] <= ma /\ b[x+1] \in Nat
        /\ ~ (x < mp) => BackOf(al, x) = x - mp + ma
        /\ a < ma => a + 1 \in 1 .. ma /\ ForwardOf(al, a) = f[a+1] /\ f[a+1] <= mp /\ f[a+1] \in Nat
        /\ ~ (a < ma) => ForwardOf(al, a) = a - ma + mp
    BY <1>1, <1>2, <1>4
  <2>2. x < mp /\ a < ma => ~ ((a + 1) - 1 < b[x+1] /\ (x + 1) - 1 < f[a+1])
    BY <1>3, <2>1
  <2>3. CASE x < mp /\ a < ma
    BY <1>1, <2>1, <2>2, <2>3
  <2>4. CASE ~ (x < mp /\ a < ma)
    BY <1>1, <2>1, <2>4
  <2> QED
    BY <2>3, <2>4
<1> QED
  BY <1>5, <1>6, <1>7

\* So the map answers every offset, its answers never run backwards in either
\* direction and the two directions never cross, whatever was built and asked: the
\* bytes that folds, merges and digits leave behind, the windows they define and
\* the ends of the texts agree.
THEOREM OffsetsAreMonotone == Spec => []Monotone
<1>1. ASSUME IInv PROVE Monotone
  <2> DEFINE map == MaybeFlushAll(m)
             back == Answers(map, "back")
             fwd == Answers(map, "forward")
  <2>1. /\ \A r \in back : r.at \in Int /\ r.to = BackOf(built, r.at)
        /\ \A x \in Offsets : \E r \in back : r.at = x
    BY <1>1, AnswersAreBuilt DEF AnswerOf
  <2>2. /\ \A r \in fwd : r.at \in Int /\ r.to = ForwardOf(built, r.at)
        /\ \A x \in Offsets : \E r \in fwd : r.at = x
    BY <1>1, AnswersAreBuilt DEF AnswerOf
  <2>3. /\ \A x, y \in Int : x <= y =>
             BackOf(built, x) <= BackOf(built, y) /\ ForwardOf(built, x) <= ForwardOf(built, y)
        /\ \A x, a \in Nat :
             /\ a < BackOf(built, x)    => ForwardOf(built, a) <= x
             /\ x < ForwardOf(built, a) => BackOf(built, x) <= a
    BY <1>1, TidyAnswers DEF IInv, TidyInv
  <2> HIDE DEF map, back, fwd
  <2>4. \A r, s \in back : r.at <= s.at => r.to <= s.to
    BY <2>1, <2>3
  <2>5. \A r, s \in fwd : r.at <= s.at => r.to <= s.to
    BY <2>2, <2>3
  <2>6. ASSUME NEW r \in back, NEW s \in fwd, r.at >= 0, s.at >= 0
        PROVE  /\ s.at < r.to => s.to <= r.at
               /\ r.at < s.to => r.to <= s.at
    <3>1. r.at \in Nat /\ s.at \in Nat
      BY <2>1, <2>2, <2>6
    <3> QED
      BY <2>1, <2>2, <2>3, <3>1
  <2> QED
    BY <2>1, <2>2, <2>4, <2>5, <2>6 DEF Monotone, map, back, fwd
<1> QED
  BY <1>1, InvariantHolds, PTL

\* No turn of a walk leaves the cursor where it was, or goes on walking from
\* an end of the map, whatever was built and wherever the last question ended.
THEOREM WalksAdvance == Spec => WalkAdvances
<1> DEFINE A == /\ StepLeft  => ~ ok' \/ m'.next_diff_sub < m.next_diff_sub
                /\ StepRight => ~ ok' \/ m'.next_diff_sub > m.next_diff_sub
<1>1. IInv /\ [Next]_vars => [A]_vars
  BY StepLeftMoves, StepRightMoves
<1>2. Spec => [][A]_vars
  BY <1>1, InvariantHolds, PTL DEF Spec
<1> QED
  BY <1>2 DEF WalkAdvances

\* The operators of the abstract map are those of Alignments.
LEMMA SameAlignments ==
  ASSUME NEW al, NEW n
  PROVE  /\ Abstract!MaxA(al) = MaxA(al) /\ Abstract!MaxAprime(al) = MaxAprime(al)
         /\ Abstract!AlignCopy(al, n) = AlignCopy(al, n)
         /\ Abstract!AlignInsert(al, n) = AlignInsert(al, n)
         /\ Abstract!AlignDelete(al, n) = AlignDelete(al, n)
         /\ Abstract!BackOf(al, n) = BackOf(al, n)
         /\ Abstract!ForwardOf(al, n) = ForwardOf(al, n)
         /\ Abstract!Closed(al) = Closed(al)
<1>1. Abstract!MaxA(al) = MaxA(al) /\ Abstract!MaxAprime(al) = MaxAprime(al)
  BY DEF Abstract!MaxA, MaxA, Abstract!MaxAprime, MaxAprime
<1>2. Abstract!AlignCopy(al, n) = AlignCopy(al, n)
  BY <1>1 DEF Abstract!AlignCopy, AlignCopy, Abstract!CopyBytes, CopyBytes,
       Abstract!RunAfter, RunAfter
<1>3. Abstract!AlignInsert(al, n) = AlignInsert(al, n)
  BY <1>1 DEF Abstract!AlignInsert, AlignInsert, Abstract!InsertBytes, InsertBytes,
       Abstract!Replaces, Replaces, Abstract!RunAfter, RunAfter
<1>4. Abstract!AlignDelete(al, n) = AlignDelete(al, n)
  BY <1>1 DEF Abstract!AlignDelete, AlignDelete, Abstract!DeleteBytes, DeleteBytes,
       Abstract!Replaces, Replaces, Abstract!RunAfter, RunAfter
<1>5. Abstract!BackOf(al, n) = BackOf(al, n) /\ Abstract!ForwardOf(al, n) = ForwardOf(al, n)
  BY <1>1 DEF Abstract!BackOf, BackOf, Abstract!ForwardOf, ForwardOf
<1>6. Abstract!Closed(al) = Closed(al)
  BY DEF Abstract!Closed, Closed
<1> QED
  BY <1>1, <1>2, <1>3, <1>4, <1>5, <1>6

\* A question that is answered is a step of the abstract map.
LEMMA AnswersAbstractly ==
  ASSUME NEW dir \in {"back", "forward"}, NEW at \in Offsets,
         answer = NoAnswer, built' = Closed(built),
         answer' = [dir |-> dir, at |-> at, to |-> AnswerOf(built, dir, at)]
  PROVE  Abstract!AMapBack \/ Abstract!AMapForward
<1>1. answer = Abstract!NoAnswer /\ built' = Abstract!Closed(built)
  BY SameAlignments DEF NoAnswer, Abstract!NoAnswer
<1>2. CASE dir = "back"
  BY <1>1, <1>2, SameAlignments DEF AnswerOf, Abstract!AMapBack
<1>3. CASE dir = "forward"
  BY <1>1, <1>3, SameAlignments DEF AnswerOf, Abstract!AMapForward
<1> QED
  BY <1>2, <1>3

\* A question of an offset outside the map is answered at once.
LEMMA QuestionImplements ==
  ASSUME IInv, MapBack \/ MapForward
  PROVE  Abstract!ANext
<1> DEFINE map == MaybeFlushAll(m)
           al == Closed(built)
<1>1. /\ Asked(map, al) /\ built \in AlignmentSet /\ al \in AlignmentSet
  BY FlushedAsked, ClosedCopies DEF IInv, TidyInv
<1>2. PICK dir \in {"back", "forward"}, at \in Offsets :
        MapOutside(dir, at) \/ MapInside(dir, at)
  BY DEF MapBack, MapForward
<1>3. CASE MapInside(dir, at)
  <2>1. built' = al /\ answer' = answer
    BY <1>3 DEF MapInside
  <2> QED
    BY <2>1, SameAlignments DEF Abstract!ANext, Abstract!AReset
<1>4. CASE MapOutside(dir, at)
  <2>1. /\ phase # "answered" /\ built' = al /\ m' = map /\ Outside(map, dir, at)
        /\ answer' = [dir |-> dir, at |-> at, to |-> FromOutside(map, dir, at)]
    BY <1>4 DEF MapOutside
  <2>2. answer = NoAnswer
    BY <2>1 DEF IInv, QueryInv
  <2>3. at \in Int
    BY OffsetMapAssumption
  <2> HIDE DEF map
  <2>4. FromOutside(map, dir, at) = AnswerOf(al, dir, at)
    BY <1>1, <2>1, <2>3, OutsideAnswers
  <2>5. AnswerOf(al, dir, at) = AnswerOf(built, dir, at)
    BY <1>1, ClosedCopies DEF AnswerOf
  <2> QED
    BY <2>1, <2>2, <2>4, <2>5, AnswersAbstractly DEF Abstract!ANext
<1> QED
  BY <1>2, <1>3, <1>4

\* A walk that has ended answers from the window it ended on.
LEMMA AnswerImplements ==
  ASSUME IInv, Answer
  PROVE  Abstract!ANext
<1> DEFINE dir == query.dir
           at == query.at
<1>1. /\ phase = "right" /\ built' = built
      /\ answer' = [dir |-> dir, at |-> at, to |-> FromWindow(m, dir, at)]
      /\ ~ (ok /\ Hi(m, dir) <= at)
  BY DEF Answer, WantsRight
<1>2. /\ Asked(m, built) /\ CursorAt(m) /\ built \in AlignmentSet /\ ok = TRUE
      /\ dir \in {"back", "forward"} /\ at \in Offsets /\ at \in Int
      /\ Hi(m, dir) \in Nat
  BY <1>1, WalkBegins DEF Hi
<1>3. Lo(m, dir) <= at /\ answer = NoAnswer
  BY <1>1 DEF IInv, QueryInv
<1> HIDE DEF dir, at
<1>4. at < Hi(m, dir)
  BY <1>1, <1>2
<1>5. FromWindow(m, dir, at) = AnswerOf(built, dir, at)
  BY <1>2, <1>3, <1>4, WindowAnswers
<1>6. Closed(built) = built
  BY <1>2, AskedStays
<1> QED
  BY <1>1, <1>2, <1>3, <1>5, <1>6, AnswersAbstractly DEF Abstract!ANext

\* Each operation of the map is the operation of the alignment, and a turn of
\* a walk is no step of it at all.
LEMMA StepImplements ==
  ASSUME IInv, IInv', [Next]_vars
  PROVE  Abstract!ANext \/ UNCHANGED Abstract!avars
<1>1. NoAnswer = Abstract!NoAnswer /\ EmptyAlignment = Abstract!EmptyAlignment
  BY DEF NoAnswer, Abstract!NoAnswer, EmptyAlignment, Abstract!EmptyAlignment
<1>2. MaxA(built') <= MaxBytes /\ MaxAprime(built') <= MaxBytes
  BY DEF IInv, BuildInv, MaxA, MaxAprime
<1>3. CASE Clear
  <2>1. phase # "answered" /\ built' = EmptyAlignment /\ answer' = answer
    BY <1>3 DEF Clear
  <2>2. answer = NoAnswer
    BY <2>1 DEF IInv, QueryInv
  <2> QED
    BY <1>1, <2>1, <2>2 DEF Abstract!ANext, Abstract!AClear
<1>4. CASE Copy
  <2>1. PICK n \in Lengths : built' = AlignCopy(built, n) /\ answer' = answer
    BY <1>4 DEF Copy, Build
  <2> QED
    BY <1>2, <2>1, SameAlignments DEF Abstract!ANext, Abstract!ACopy, Abstract!Extend
<1>5. CASE Insert
  <2>1. PICK n \in Lengths : built' = AlignInsert(built, n) /\ answer' = answer
    BY <1>5 DEF Insert, Build
  <2> QED
    BY <1>2, <2>1, SameAlignments DEF Abstract!ANext, Abstract!AInsert, Abstract!Extend
<1>6. CASE Delete
  <2>1. PICK n \in Lengths : built' = AlignDelete(built, n) /\ answer' = answer
    BY <1>6 DEF Delete, Build
  <2> QED
    BY <1>2, <2>1, SameAlignments DEF Abstract!ANext, Abstract!ADelete, Abstract!Extend
<1>7. CASE Reset
  BY <1>7, SameAlignments DEF Reset, Abstract!ANext, Abstract!AReset
<1>8. CASE MapBack \/ MapForward
  BY <1>8, QuestionImplements
<1>9. CASE Answer
  BY <1>9, AnswerImplements
<1>10. CASE Return
  BY <1>1, <1>10 DEF Return, Abstract!ANext, Abstract!AReturn
<1>11. CASE StepLeft \/ EndOfLeft \/ StepRight \/ UNCHANGED vars
  BY <1>11 DEF StepLeft, EndOfLeft, StepRight, vars, Abstract!avars
<1> QED
  BY <1>3, <1>4, <1>5, <1>6, <1>7, <1>8, <1>9, <1>10, <1>11 DEF Next, Walk

\* The map implements the alignment: every operation extends the alignment as
\* it says, every question is answered from it, in whatever order they come,
\* and no turn of a walk can be seen.
THEOREM MapImplementsAlignment == Spec => Implements
<1>1. Init => Abstract!AInit
  BY DEF Init, Abstract!AInit, NoAnswer, Abstract!NoAnswer,
         EmptyAlignment, Abstract!EmptyAlignment
<1>2. IInv /\ IInv' /\ [Next]_vars => [Abstract!ANext]_(Abstract!avars)
  BY StepImplements
<1> QED
  BY <1>1, <1>2, InvariantHolds, PTL DEF Spec, Implements, Abstract!ASpec

=============================================================================
