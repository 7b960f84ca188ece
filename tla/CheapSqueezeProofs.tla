------------------------- MODULE CheapSqueezeProofs -------------------------
(***************************************************************************)
(* What CheapSqueeze guarantees for every set of texts, every scan length, *)
(* every pair of thresholds and every chunk size the callers pass that is  *)
(* not negative.                                                           *)
(***************************************************************************)
EXTENDS CheapSqueeze, Lemmas

\* The chunk sizes for which the loop moves forward; the code has no test.
ForwardChunks == Chunksizes \subseteq Nat

\* A kept byte is a byte of the text, or the leading space that was forced.
Origin ==
  \A i \in 0 .. dst - 1 :
    \/ buf[i].at \in 0 .. src_len - 1 /\ buf[i] = text[buf[i].at]
    \/ i = 0 /\ buf[i] = Space

Positions ==
  /\ dst <= src
  /\ dst = 0 => src = 0 /\ ~ skipping
  /\ pc \in {"pad", "done"} => src = src_len
  /\ ~ IsCont(text[src])

\* The inductive invariant: the properties to be proved and what they rest on.
IInv ==
  /\ TypeOK
  /\ chunksize \in Nat \ {0}
  /\ WellFormed(text, src_len, padding)
  /\ Positions
  /\ NoClobber
  /\ Origin
  /\ InOrder
  /\ WholeChars

-----------------------------------------------------------------------------
(* A nonempty set of natural numbers has a least element, and Min is it. *)
LEMMA MinNat ==
  ASSUME NEW S, S \subseteq Nat, S # {}
  PROVE  Min(S) \in S /\ \A y \in S : Min(S) <= y
<1>1. \E x \in S : \A y \in S : ~ (<<y, x>> \in OpToRel(<, Nat))
  BY WFMin, NatLessThanWellFounded
<1>2. PICK x \in S : \A y \in S : ~ (<<y, x>> \in OpToRel(<, Nat))
  BY <1>1
<1>3. \A y \in S : x <= y
  <2>1. SUFFICES ASSUME NEW y \in S PROVE x <= y
    OBVIOUS
  <2>2. ~ (y < x)
    BY <1>2, <2>1 DEF OpToRel
  <2>3. QED BY <2>2
<1>4. QED BY <1>3 DEF Min

(* The backward scan stays inside the kept text, and stops at its end,     *)
(* behind a space, or in front of the first byte of a character.           *)
LEMMA Backscan ==
  ASSUME NEW b, NEW d \in Nat, NEW m \in Nat, d <= m, b \in [0..m -> Byte]
  PROVE  LET n == BackscanToSpace(b, d, d)
         IN  /\ n \in Nat
             /\ n = 0 \/ n < d
             /\ \/ n = 0
                \/ IsSpace(b[d - n - 1])
                \/ ~ IsCont(b[d - n])
<1> DEFINE limit  == minint(d, kMaxSpaceScan)
           spaces == {n \in 0 .. limit - 1 : IsSpace(b[d - n - 1])}
           starts == {n \in 0 .. limit - 1 : ~ IsCont(b[d - n])}
<1>1. limit \in Nat /\ limit <= d
  BY ParametersAssumption DEF minint
<1>2. spaces \subseteq Nat /\ starts \subseteq Nat
  BY <1>1
<1> HIDE DEF limit
<1>3. CASE spaces # {}
  <2>1. Min(spaces) \in spaces
    BY <1>2, <1>3, MinNat
  <2>2. BackscanToSpace(b, d, d) = Min(spaces)
    BY <1>3 DEF BackscanToSpace, limit
  <2>3. QED BY <1>1, <2>1, <2>2
<1>4. CASE spaces = {} /\ starts # {}
  <2>1. Min(starts) \in starts
    BY <1>2, <1>4, MinNat
  <2>2. BackscanToSpace(b, d, d) = Min(starts)
    BY <1>4 DEF BackscanToSpace, LeastOr, limit
  <2>3. QED BY <1>1, <2>1, <2>2
<1>5. CASE spaces = {} /\ starts = {}
  <2>1. BackscanToSpace(b, d, d) = 0
    BY <1>5 DEF BackscanToSpace, LeastOr, limit
  <2>2. QED BY <2>1
<1>6. QED BY <1>3, <1>4, <1>5

(* The forward scan from the start of a character stays inside its chunk,  *)
(* and moves only to stand behind a space.                                 *)
LEMMA Forwardscan ==
  ASSUME NEW b, NEW s \in Nat, NEW len \in Nat \ {0}, ~ IsCont(b[s])
  PROVE  LET n == ForwardscanToSpace(b, s, len)
         IN  /\ n \in 0 .. len
             /\ n = 0 \/ IsSpace(b[s + n - 1])
<1> DEFINE limit  == minint(len, kMaxSpaceScan)
           spaces == {n \in 0 .. limit - 1 : IsSpace(b[s + n])}
           starts == {n \in 0 .. limit - 1 : ~ IsCont(b[s + n])}
<1>1. limit \in Nat \ {0} /\ limit <= len
  BY ParametersAssumption DEF minint
<1>2. spaces \subseteq Nat /\ starts \subseteq Nat
  BY <1>1
<1> HIDE DEF limit
<1>3. CASE spaces # {}
  <2>1. Min(spaces) \in spaces
    BY <1>2, <1>3, MinNat
  <2>2. ForwardscanToSpace(b, s, len) = Min(spaces) + 1
    BY <1>3 DEF ForwardscanToSpace, limit
  <2>3. QED BY <1>1, <2>1, <2>2
<1>4. CASE spaces = {}
  <2>1. s + 0 = s /\ 0 \in starts
    BY <1>1
  <2>2. Min(starts) = 0
    <3>1. starts # {}
      BY <2>1
    <3>2. Min(starts) \in starts /\ \A y \in starts : Min(starts) <= y
      BY <1>2, <3>1, MinNat
    <3>3. Min(starts) \in Nat /\ Min(starts) <= 0
      BY <1>2, <2>1, <3>2
    <3>4. QED BY <3>3
  <2>3. ForwardscanToSpace(b, s, len) = 0
    BY <1>4, <2>1, <2>2 DEF ForwardscanToSpace, LeastOr, limit
  <2>4. QED BY <1>1, <2>3
<1>5. QED BY <1>3, <1>4

-----------------------------------------------------------------------------
(* The one chunk a turn of the loop reads lies in the text, is not empty   *)
(* and ends in front of the first byte of a character.                     *)
LEMMA ChunkLen ==
  ASSUME IInv, src < src_len,
         NEW len \in minint(chunksize, src_len - src) .. src_len - src,
         IsChunkLen(buf, src, len)
  PROVE  /\ len \in Nat \ {0}
         /\ src + len <= src_len
         /\ ~ IsCont(text[src + len])
<1>1. minint(chunksize, src_len - src) \in Nat \ {0}
  BY DEF IInv, TypeOK, minint
<1>2. len \in Nat \ {0} /\ src + len \in src .. src_len
  BY <1>1 DEF IInv, TypeOK
<1>3. buf[src + len] = text[src + len]
  BY <1>2 DEF IInv, NoClobber, TypeOK
<1>4. QED BY <1>2, <1>3 DEF IsChunkLen, IInv, TypeOK

(* A byte behind a space never continues a character. *)
LEMMA BehindSpace ==
  ASSUME IInv, NEW i \in 0 .. src_len + padding - 1, IsSpace(text[i])
  PROVE  ~ IsCont(text[i + 1])
<1>1. i + 1 \in 1 .. src_len + padding /\ (i + 1) - 1 = i
  BY DEF IInv, TypeOK
<1>2. IsCont(text[i + 1]) => text[i].c \in {"lead", "cont"}
  BY <1>1 DEF IInv, WellFormed
<1>3. QED BY <1>2 DEF IsSpace

(* Cutting the kept text at the place DropPoint names leaves whole         *)
(* characters, whichever of its three answers the backward scan gave.      *)
LEMMA DropPointWhole ==
  ASSUME IInv
  PROVE  LET d == DropPoint(buf, dst)
         IN  /\ d \in 0 .. dst
             /\ d = 0 <=> dst = 0
             /\ d > 0 => ~ IsCont(text[buf[d - 1].at + 1])
<1> DEFINE n == BackscanToSpace(buf, dst, dst)
           d == DropPoint(buf, dst)
<1>1. /\ n \in Nat
      /\ n = 0 \/ n < dst
      /\ n = 0 \/ IsSpace(buf[dst - n - 1]) \/ ~ IsCont(buf[dst - n])
  <2>1. dst \in Nat /\ src_len + padding \in Nat /\ dst <= src_len + padding
    BY DEF IInv, TypeOK
  <2>2. buf \in [0 .. src_len + padding -> Byte]
    BY DEF IInv, TypeOK
  <2>3. QED BY <2>1, <2>2, Backscan
<1>2. d = dst - n
  BY DEF DropPoint
<1> HIDE DEF n, d
<1>3. d \in 0 .. dst /\ (d = 0 <=> dst = 0)
  BY <1>1, <1>2 DEF IInv, TypeOK
<1>4. ASSUME d > 0 PROVE ~ IsCont(text[buf[d - 1].at + 1])
  <2>1. d - 1 \in 0 .. dst - 1
    BY <1>3, <1>4 DEF IInv, TypeOK
  <2>2. CASE n = 0
    BY <1>2, <1>3, <2>1, <2>2 DEF IInv, WholeChars, TypeOK
  <2>3. CASE n # 0 /\ IsSpace(buf[dst - n - 1])
    <3>1. IsSpace(buf[d - 1])
      BY <1>1, <1>2, <2>3 DEF IInv, TypeOK
    <3>2. CASE buf[d - 1].at \in 0 .. src_len - 1 /\ buf[d - 1] = text[buf[d - 1].at]
      <4>1. buf[d - 1].at \in 0 .. src_len + padding - 1
        BY <3>2 DEF IInv, TypeOK
      <4>2. QED BY <3>1, <3>2, <4>1, BehindSpace
    <3>3. CASE d - 1 = 0 /\ buf[d - 1] = Space
      <4>1. buf[d - 1].at + 1 = 0
        BY <3>3 DEF Space, Filled
      <4>2. QED BY <4>1 DEF IInv, WellFormed, IsSpace, IsCont
    <3>4. QED BY <2>1, <3>2, <3>3 DEF IInv, Origin
  <2>4. CASE n # 0 /\ ~ IsCont(buf[dst - n])
    <3>1. ~ IsCont(buf[d]) /\ d \in 1 .. dst - 1
      BY <1>1, <1>2, <1>3, <1>4, <2>4 DEF IInv, TypeOK
    <3>2. (d - 1) + 1 = d
      BY <3>1
    <3>3. CASE buf[d].at # buf[d - 1].at + 1
      BY <2>1, <3>2, <3>3 DEF IInv, WholeChars
    <3>4. CASE buf[d].at = buf[d - 1].at + 1
      <4>1. buf[d] = text[buf[d].at]
        BY <3>1 DEF IInv, Origin
      <4>2. QED BY <3>1, <3>4, <4>1
    <3>5. QED BY <3>3, <3>4
  <2>5. QED BY <1>1, <2>2, <2>3, <2>4
<1>5. QED BY <1>3, <1>4 DEF d

-----------------------------------------------------------------------------
\* The buffer between two calls is well formed.
LEMMA NoTextOK == WellFormed(NoText, 0, 3) /\ NoText \in [0 .. 3 -> Byte]
<1>1. NoText \in [0 .. 3 -> Byte]
  BY DEF NoText, Byte, Class
<1>2. QED BY <1>1 DEF NoText, WellFormed, IsSpace, IsCont

(* The state between two calls, and the one a call begins in. *)
LEMMA FreshBuffer ==
  ASSUME buf = text, src = 0, dst = 0, skipping = FALSE,
         chunksize \in Nat \ {0}, padding \in Nat, src_len \in Nat,
         pc = "scan" \/ pc = "idle", WellFormed(text, src_len, padding)
  PROVE  IInv
<1>1. ~ IsCont(text[0])
  BY DEF WellFormed, IsSpace, IsCont
<1>2. TypeOK
  <2>1. skipping \in BOOLEAN
    OBVIOUS
  <2>2. pc \in {"idle", "scan", "pad", "done"}
    OBVIOUS
  <2>3. text \in [0 .. src_len + padding -> Byte]
    BY DEF WellFormed
  <2>4. src \in 0 .. src_len /\ dst \in 0 .. src_len /\ chunksize \in Int
    OBVIOUS
  <2>5. QED BY <2>1, <2>2, <2>3, <2>4 DEF TypeOK
<1>3. Positions
  BY <1>1 DEF Positions
<1>4. NoClobber /\ Origin /\ InOrder /\ WholeChars
  BY DEF NoClobber, Origin, InOrder, WholeChars
<1>5. QED BY <1>2, <1>3, <1>4 DEF IInv

\* The same of the state that a step leads to.
LEMMA FreshBufferNext ==
  ASSUME buf' = text', src' = 0, dst' = 0, skipping' = FALSE,
         chunksize' \in Nat \ {0}, padding' \in Nat, src_len' \in Nat,
         pc' = "scan" \/ pc' = "idle", WellFormed(text', src_len', padding')
  PROVE  IInv'
<1>1. ~ IsCont(text'[0])
  BY DEF WellFormed, IsSpace, IsCont
<1>2. TypeOK'
  <2>1. skipping' \in BOOLEAN
    OBVIOUS
  <2>2. pc' \in {"idle", "scan", "pad", "done"}
    OBVIOUS
  <2>3. text' \in [0 .. src_len' + padding' -> Byte]
    BY DEF WellFormed
  <2>4. src' \in 0 .. src_len' /\ dst' \in 0 .. src_len' /\ chunksize' \in Int
    OBVIOUS
  <2>5. QED BY <2>1, <2>2, <2>3, <2>4 DEF TypeOK
<1>3. Positions'
  BY <1>1 DEF Positions
<1>4. NoClobber' /\ Origin' /\ InOrder' /\ WholeChars'
  BY DEF NoClobber, Origin, InOrder, WholeChars
<1>5. QED BY <1>2, <1>3, <1>4 DEF IInv

\* The invariant holds before the first call.
LEMMA InitInv == Init => IInv
<1> SUFFICES ASSUME Init PROVE IInv
  OBVIOUS
<1>1. WellFormed(text, src_len, padding)
  BY NoTextOK DEF Init
<1>2. chunksize \in Nat \ {0} /\ padding \in Nat /\ src_len \in Nat
  BY ParametersAssumption DEF Init
<1>3. buf = text /\ src = 0 /\ dst = 0 /\ skipping = FALSE /\ pc = "idle"
  BY DEF Init
<1>4. QED BY <1>1, <1>2, <1>3, FreshBuffer

\* Dropping a chunk keeps the invariant: the result ends behind a whole character.
LEMMA DropInv ==
  ASSUME IInv, DropChunk
  PROVE  IInv'
<1>0. src \in Nat /\ dst \in Nat /\ src_len \in Nat /\ dst <= src /\ src <= src_len
  BY DEF IInv, TypeOK, Positions
<1> DEFINE d == DropPoint(buf, dst)
<1>1. PICK len \in minint(chunksize, src_len - src) .. src_len - src :
        IsChunkLen(buf, src, len) /\ src' = src + len
  BY DEF DropChunk
<1>2. /\ len \in Nat \ {0}
      /\ src' \in src + 1 .. src_len
      /\ ~ IsCont(text[src'])
  <2>1. src < src_len
    BY DEF DropChunk
  <2>2. /\ len \in Nat \ {0}
        /\ src + len <= src_len
        /\ ~ IsCont(text[src + len])
    BY <1>1, <2>1, ChunkLen
  <2>3. QED BY <1>1, <2>2 DEF IInv, TypeOK
<1>3. /\ d \in 0 .. dst
      /\ d = 0 <=> dst = 0
      /\ d > 0 => ~ IsCont(text[buf[d - 1].at + 1])
  BY DropPointWhole
<1> HIDE DEF d
<1>4. UNCHANGED <<pc, text, src_len, chunksize, padding>> /\ skipping' = TRUE
      /\ pc = "scan"
  BY DEF DropChunk
<1>5. CASE dst = 0
  <2>1. ~ skipping /\ src = 0
    BY <1>5 DEF IInv, Positions
  <2>2. buf' = [buf EXCEPT ![0] = Space] /\ dst' = 1
    BY <1>3, <1>5, <2>1 DEF DropChunk, d
  <2>3. buf' \in [0 .. src_len + padding -> Byte]
    BY <2>2, SMTT(30) DEF IInv, TypeOK, Byte, Class, Space, Filled
  <2>4. TypeOK'
    BY <1>2, <1>4, <2>2, <2>3 DEF IInv, TypeOK
  <2>5. Positions'
    BY <1>2, <1>4, <2>2 DEF IInv, Positions, TypeOK
  <2>6. NoClobber'
    BY <1>2, <1>4, <2>1, <2>2 DEF IInv, NoClobber, TypeOK
  <2>7. buf'[0] = Space /\ Space.at = -1 /\ IsSpace(Space) /\ ~ IsCont(Space)
    BY <2>2 DEF IInv, TypeOK, Space, Filled, IsSpace, IsCont
  <2>8. Origin' /\ InOrder'
    BY <1>2, <2>2, <2>7 DEF Origin, InOrder, IInv, TypeOK
  <2>9. ~ IsCont(text[0])
    BY DEF IInv, WellFormed, IsSpace, IsCont
  <2>10. WholeChars'
    BY <1>4, <2>2, <2>7, <2>9 DEF WholeChars
  <2>11. QED BY <1>4, <2>4, <2>5, <2>6, <2>8, <2>10 DEF IInv
<1>6. CASE dst > 0
  <2> DEFINE end == IF skipping THEN dst ELSE d
  <2>0. buf' = buf /\ dst' = end
    BY <1>3, <1>6 DEF DropChunk, d
  <2>1. end \in 1 .. dst /\ (end = d \/ end = dst)
    BY <1>0, <1>3, <1>6
  <2> HIDE DEF end
  <2>2. ~ IsCont(text[buf[end - 1].at + 1])
    <3>1. CASE end = d
      BY <1>3, <2>1, <3>1
    <3>2. CASE end = dst
      BY <1>0, <1>6, <3>2 DEF IInv, WholeChars
    <3>3. QED BY <2>1, <3>1, <3>2
  <2>3. TypeOK'
    BY <1>2, <1>4, <2>0, <2>1 DEF IInv, TypeOK
  <2>4. Positions'
    BY <1>2, <1>4, <2>0, <2>1 DEF IInv, Positions, TypeOK
  <2>5. NoClobber' /\ Origin' /\ InOrder'
    <3>0. \A i \in 0 .. end - 1 : i \in 0 .. dst - 1
      BY <1>0, <2>0, <2>1
    <3>1. NoClobber'
      BY <1>2, <1>4, <2>0, <2>1 DEF IInv, NoClobber, TypeOK
    <3>2. Origin'
      BY <1>4, <2>0, <2>1, <3>0 DEF IInv, Origin
    <3>4. \A i \in 0 .. dst - 1 : buf[i].at \in Int
      BY DEF IInv, TypeOK, Byte
    <3>5. InOrder'
      <4>1. \A i, j \in 0 .. end - 1 : i < j => buf'[i].at < buf'[j].at
        BY <2>0, <2>1, <3>0 DEF IInv, InOrder
      <4>2. \A i \in 0 .. end - 1 : buf'[i].at < src'
        BY <1>0, <1>2, <2>0, <2>1, <3>0, <3>4 DEF IInv, InOrder
      <4>3. QED BY <1>6, <2>0, <2>1, <4>1, <4>2 DEF IInv, InOrder
    <3>6. QED BY <3>1, <3>2, <3>5
  <2>6. WholeChars'
    <3>1. SUFFICES
            ASSUME NEW i \in 0 .. end - 1
            PROVE  /\ IsCont(buf[i]) => i > 0 /\ buf[i].at = buf[i-1].at + 1
                   /\ (i = end - 1 \/ buf[i+1].at # buf[i].at + 1)
                         => ~ IsCont(text[buf[i].at + 1])
      BY <1>4, <2>0, <2>1 DEF WholeChars
    <3>2. i \in 0 .. dst - 1
      BY <1>0, <2>0, <2>1
    <3>3. CASE i = end - 1
      BY <2>2, <3>2, <3>3 DEF IInv, WholeChars
    <3>4. CASE i # end - 1
      BY <3>2, <3>4 DEF IInv, WholeChars
    <3>5. QED BY <3>3, <3>4
  <2>7. QED BY <1>4, <2>3, <2>4, <2>5, <2>6 DEF IInv
<1>7. QED BY <1>5, <1>6 DEF IInv, TypeOK

\* What keeping a chunk of len bytes but not the first n of them does to the
\* buffer: from dst on it holds the bytes of the text from src + n on.
Keeps(len, n) ==
  LET from == src + n
      next == src + len
      end  == dst + (len - n)
  IN  /\ len \in Nat \ {0} /\ next \in src + 1 .. src_len /\ ~ IsCont(text[next])
      /\ n \in 0 .. len /\ (dst = 0 => n = 0) /\ ~ IsCont(text[from])
      /\ dst' = end /\ src' = next
      /\ from \in Nat /\ dst <= from /\ src <= from /\ next \in Nat
      /\ end \in Nat /\ end <= next /\ dst <= end
      /\ \A i \in 0 .. dst - 1 : buf'[i] = buf[i]
      /\ \A i \in dst .. end - 1 : /\ i - dst + from \in src .. next - 1
                                    /\ buf'[i] = text[i - dst + from]
                                    /\ buf'[i].at = i - dst + from
      /\ \A i \in next .. src_len + padding : buf'[i] = buf[i]
      /\ buf' \in [0 .. src_len + padding -> Byte]

\* Every chunk that is kept is moved like that.
LEMMA KeepMoves ==
  ASSUME IInv, KeepChunk
  PROVE  \E len \in minint(chunksize, src_len - src) .. src_len - src :
           Keeps(len, ResumeSkip(buf, src, len))
<1>0. src \in Nat /\ dst \in Nat /\ src_len \in Nat /\ dst <= src /\ src <= src_len
  BY DEF IInv, TypeOK, Positions
<1>a. padding \in Nat
  BY DEF IInv, TypeOK
<1>1. PICK len \in minint(chunksize, src_len - src) .. src_len - src :
        /\ IsChunkLen(buf, src, len)
        /\ src' = src + len
        /\ LET n == ResumeSkip(buf, src, len)
           IN  /\ buf' = Moved(buf, dst, src + n, len - n)
               /\ dst' = dst + (len - n)
  BY DEF KeepChunk
<1> DEFINE n == ResumeSkip(buf, src, len)
           from == src + n
           more == len - n
           next == src + len
           end  == dst + more
<1>2. /\ len \in Nat \ {0}
      /\ next \in src + 1 .. src_len
      /\ ~ IsCont(text[next])
  <2>1. src < src_len
    BY DEF KeepChunk
  <2>2. /\ len \in Nat \ {0}
        /\ src + len <= src_len
        /\ ~ IsCont(text[src + len])
    BY <1>1, <2>1, ChunkLen
  <2>3. QED BY <1>1, <2>2 DEF IInv, TypeOK
<1>3. n \in 0 .. len /\ (dst = 0 => n = 0) /\ ~ IsCont(text[from])
  <2>1. buf[src] = text[src] /\ ~ IsCont(text[src]) /\ src \in Nat
    BY DEF IInv, NoClobber, Positions, TypeOK
  <2>2. CASE ~ skipping
    <3>1. n = 0 /\ from = src
      BY <2>1, <2>2 DEF ResumeSkip
    <3>2. QED BY <1>2, <2>1, <3>1
  <2>3. CASE skipping
    <3>1. n \in 0 .. len /\ (n = 0 \/ IsSpace(buf[src + n - 1]))
      BY <1>2, <2>1, <2>3, Forwardscan DEF ResumeSkip
    <3>2. dst # 0
      BY <2>3 DEF IInv, Positions
    <3>3. CASE n = 0
      BY <2>1, <3>1, <3>2, <3>3
    <3>4. CASE n # 0
      <4>1. src + n - 1 \in src .. src_len - 1 /\ (src + n - 1) + 1 = from
        BY <1>0, <1>2, <1>1, <3>1, <3>4
      <4>2. IsSpace(text[src + n - 1])
        BY <3>1, <3>4, <4>1 DEF IInv, NoClobber, TypeOK
      <4>3. src + n - 1 \in 0 .. src_len + padding - 1
        BY <1>0, <1>a, <2>1, <4>1
      <4>4. ~ IsCont(text[from])
        BY <4>1, <4>2, <4>3, BehindSpace
      <4>5. QED BY <3>1, <3>2, <4>4
    <3>5. QED BY <3>3, <3>4
  <2>4. QED BY <2>2, <2>3 DEF IInv, TypeOK
<1>4. buf' = Moved(buf, dst, from, more) /\ dst' = end /\ src' = next
  BY <1>1
<1> HIDE DEF n
<1>5. /\ from \in Nat /\ more \in Nat /\ from + more = next /\ dst <= from
      /\ src <= from /\ end <= next /\ end \in Nat /\ dst <= end
      /\ next \in Nat /\ end = dst + more
  BY <1>0, <1>1, <1>2, <1>3
<1> HIDE DEF from, more, next, end
\* What the move did to the buffer.
<1>7. /\ \A i \in 0 .. dst - 1 : buf'[i] = buf[i]
      /\ \A i \in dst .. end - 1 : /\ i - dst + from \in src .. next - 1
                                    /\ buf'[i] = text[i - dst + from]
      /\ \A i \in next .. src_len + padding : buf'[i] = buf[i]
      /\ buf' \in [0 .. src_len + padding -> Byte]
  <2>1. DOMAIN buf = 0 .. src_len + padding
    BY DEF IInv, TypeOK
  <2>2. buf' = [i \in 0 .. src_len + padding |->
                  IF i \in dst .. dst + more - 1 THEN buf[i - dst + from] ELSE buf[i]]
    BY <1>4, <2>1 DEF Moved
  <2>3. \A i \in dst .. end - 1 : i - dst + from \in src .. next - 1
    BY <1>4, <1>5 DEF IInv, TypeOK
  <2>4. \A i \in dst .. end - 1 : i \in 0 .. src_len + padding
    BY <1>0, <1>a, <1>2, <1>5
  <2>5. \A i \in dst .. end - 1 : buf'[i] = buf[i - dst + from]
    BY <1>0, <1>4, <1>5, <2>2, <2>4
  <2>6. \A i \in dst .. end - 1 : buf[i - dst + from] = text[i - dst + from]
    <3>1. \A i \in dst .. end - 1 : i - dst + from \in src .. src_len + padding
      BY <1>0, <1>a, <1>2, <1>5, <2>3
    <3>2. QED BY <3>1 DEF IInv, NoClobber
  <2>7. \A i \in 0 .. dst - 1 : buf'[i] = buf[i]
    BY <2>2 DEF IInv, TypeOK
  <2>8. \A i \in next .. src_len + padding : buf'[i] = buf[i]
    BY <1>2, <1>4, <1>5, <2>2 DEF IInv, TypeOK
  <2>9. buf' \in [0 .. src_len + padding -> Byte]
    <3>1. SUFFICES ASSUME NEW i \in 0 .. src_len + padding
                   PROVE  (IF i \in dst .. dst + more - 1
                             THEN buf[i - dst + from] ELSE buf[i]) \in Byte
      BY <2>2
    <3>2. CASE i \in dst .. dst + more - 1
      <4>1. i - dst + from \in 0 .. src_len + padding
        BY <1>0, <1>a, <1>2, <1>5, <3>2
      <4>2. QED BY <3>2, <4>1 DEF IInv, TypeOK
    <3>3. CASE i \notin dst .. dst + more - 1
      BY <3>3 DEF IInv, TypeOK
    <3>4. QED BY <3>2, <3>3
  <2>10. QED BY <2>3, <2>5, <2>6, <2>7, <2>8, <2>9
\* A new byte is the byte of the text at its place.
<1>8. \A i \in dst .. end - 1 : buf'[i].at = i - dst + from
  BY <1>2, <1>7 DEF IInv, WellFormed, TypeOK
<1> QED
  BY <1>2, <1>3, <1>4, <1>5, <1>7, <1>8 DEF Keeps, n, from, more, next, end

\* Keeping a chunk keeps the invariant.
LEMMA KeepInv ==
  ASSUME IInv, KeepChunk
  PROVE  IInv'
<1>0. src \in Nat /\ dst \in Nat /\ src_len \in Nat /\ dst <= src /\ src <= src_len
  BY DEF IInv, TypeOK, Positions
<1>a. padding \in Nat
  BY DEF IInv, TypeOK
<1>1. PICK len \in minint(chunksize, src_len - src) .. src_len - src :
        Keeps(len, ResumeSkip(buf, src, len))
  BY KeepMoves
<1> DEFINE n    == ResumeSkip(buf, src, len)
           from == src + n
           more == len - n
           next == src + len
           end  == dst + more
<1> HIDE DEF n
<1>2. /\ len \in Nat \ {0}
      /\ next \in src + 1 .. src_len
      /\ ~ IsCont(text[next])
  BY <1>1 DEF Keeps
<1>3. n \in 0 .. len /\ (dst = 0 => n = 0) /\ ~ IsCont(text[from])
  BY <1>1 DEF Keeps, n
<1>4. dst' = end /\ src' = next
  BY <1>1 DEF Keeps, n
<1>5. /\ from \in Nat /\ more \in Nat /\ from + more = next /\ dst <= from
      /\ src <= from /\ end <= next /\ end \in Nat /\ dst <= end
      /\ next \in Nat /\ end = dst + more
  <2>1. /\ from \in Nat /\ dst <= from /\ src <= from /\ end <= next
        /\ end \in Nat /\ dst <= end /\ next \in Nat
    BY <1>1 DEF Keeps, n
  <2> QED
    BY <1>0, <1>2, <1>3, <2>1
<1>7. /\ \A i \in 0 .. dst - 1 : buf'[i] = buf[i]
      /\ \A i \in dst .. end - 1 : /\ i - dst + from \in src .. next - 1
                                    /\ buf'[i] = text[i - dst + from]
      /\ \A i \in next .. src_len + padding : buf'[i] = buf[i]
      /\ buf' \in [0 .. src_len + padding -> Byte]
  BY <1>1 DEF Keeps, n
<1>8. \A i \in dst .. end - 1 : buf'[i].at = i - dst + from
  BY <1>1 DEF Keeps, n
<1> HIDE DEF from, more, next, end
<1>6. UNCHANGED <<pc, text, src_len, chunksize, padding>> /\ skipping' = FALSE
      /\ pc = "scan"
  BY DEF KeepChunk
<1>9. TypeOK'
  <2>1. skipping' \in BOOLEAN
    BY <1>6
  <2>2. src' \in 0 .. src_len' /\ dst' \in 0 .. src_len'
    BY <1>0, <1>2, <1>4, <1>5, <1>6
  <2>3. QED BY <1>6, <1>7, <2>1, <2>2 DEF IInv, TypeOK
<1>10. Positions'
  <2>1. end # 0
    <3>1. CASE dst # 0
      BY <1>5, <3>1 DEF IInv, TypeOK
    <3>2. CASE dst = 0
      BY <1>2, <1>3, <1>5, <3>2 DEF more
    <3>3. QED BY <3>1, <3>2
  <2>2. QED BY <1>2, <1>4, <1>5, <1>6, <2>1 DEF Positions
<1>11. NoClobber'
  <2>1. \A i \in next .. src_len + padding : buf'[i] = text[i]
    BY <1>0, <1>2, <1>7 DEF IInv, NoClobber
  <2>2. QED BY <1>4, <1>6, <2>1 DEF NoClobber
<1>12. Origin'
  <2>1. SUFFICES ASSUME NEW i \in 0 .. end - 1
                 PROVE  \/ buf'[i].at \in 0 .. src_len - 1 /\ buf'[i] = text[buf'[i].at]
                        \/ i = 0 /\ buf'[i] = Space
    BY <1>4, <1>6 DEF Origin
  <2>2. CASE i < dst
    BY <1>7, <2>2 DEF IInv, Origin, TypeOK
  <2>3. CASE i >= dst
    <3>1. i \in dst .. end - 1
      BY <1>0, <1>5, <2>3
    <3>2. i - dst + from \in 0 .. src_len - 1
      <4>1. i \in Int /\ dst <= i /\ i < dst + more
        BY <1>0, <1>5, <3>1
      <4>2. next <= src_len /\ src_len \in Nat /\ dst \in Nat
        BY <1>0, <1>2
      <4>3. QED BY <1>5, <4>1, <4>2
    <3>3. QED BY <1>7, <1>8, <3>1, <3>2
  <2>4. QED BY <1>0, <1>5, <2>2, <2>3
<1>13. InOrder'
  <2>1. \A i \in 0 .. dst - 1 : buf[i].at \in Int /\ buf[i].at < src
    BY DEF IInv, InOrder, TypeOK, Byte
  <2>2. \A i \in 0 .. end - 1 : i \in 0 .. dst - 1 \/ i \in dst .. end - 1
    BY <1>0, <1>5
  <2>3. \A i, j \in 0 .. end - 1 : i < j => buf'[i].at < buf'[j].at
    <3>1. SUFFICES ASSUME NEW i \in 0 .. end - 1, NEW j \in 0 .. end - 1, i < j
                   PROVE  buf'[i].at < buf'[j].at
      OBVIOUS
    <3>2. CASE i < dst /\ j < dst
      BY <1>7, <3>1, <3>2 DEF IInv, InOrder, TypeOK
    <3>3. CASE i < dst /\ j >= dst
      <4>1. i \in 0 .. dst - 1 /\ j \in dst .. end - 1
        BY <1>0, <1>5, <3>3
      <4>2. buf[i].at \in Int /\ buf[i].at < src /\ buf'[i] = buf[i]
        BY <1>7, <2>1, <4>1
      <4>3. buf'[j].at = j - dst + from
        BY <1>8, <4>1
      <4>4. j - dst + from \in Int /\ src <= j - dst + from
        BY <1>0, <1>5, <4>1
      <4>5. QED BY <1>0, <4>2, <4>3, <4>4
    <3>4. CASE i >= dst
      <4>1. i \in dst .. end - 1 /\ j \in dst .. end - 1
        BY <1>0, <1>5, <3>1, <3>4
      <4>2. QED BY <1>0, <1>5, <1>8, <3>1, <4>1
    <3>5. QED BY <1>0, <1>5, <3>1, <3>2, <3>3, <3>4
  <2>4. \A i \in 0 .. end - 1 : buf'[i].at < next
    <3>1. SUFFICES ASSUME NEW i \in 0 .. end - 1 PROVE buf'[i].at < next
      OBVIOUS
    <3>2. CASE i \in 0 .. dst - 1
      BY <1>0, <1>5, <1>2, <1>7, <2>1, <3>2
    <3>3. CASE i \in dst .. end - 1
      BY <1>0, <1>5, <1>2, <1>7, <1>8, <3>3
    <3>4. QED BY <2>2, <3>2, <3>3
  <2>5. end > 0 => IsSpace(buf'[0])
    <3>1. CASE dst > 0
      BY <1>7, <3>1 DEF IInv, InOrder, TypeOK
    <3>2. CASE dst = 0 /\ end > 0
      <4>1. src = 0 /\ from = 0
        BY <1>3, <3>2 DEF IInv, Positions, from
      <4>2. 0 \in dst .. end - 1 /\ 0 - dst + from = 0
        BY <1>0, <1>5, <3>2, <4>1
      <4>3. buf'[0] = text[0]
        BY <1>7, <4>2
      <4>4. QED BY <4>3 DEF IInv, WellFormed
    <3>3. QED BY <1>0, <1>5, <3>1, <3>2
  <2>6. QED BY <1>4, <2>3, <2>4, <2>5 DEF InOrder
<1>14. WholeChars'
  <2>1. SUFFICES
          ASSUME NEW i \in 0 .. end - 1
          PROVE  /\ IsCont(buf'[i]) => i > 0 /\ buf'[i].at = buf'[i-1].at + 1
                 /\ (i = end - 1 \/ buf'[i+1].at # buf'[i].at + 1)
                       => ~ IsCont(text[buf'[i].at + 1])
    BY <1>4, <1>6 DEF WholeChars
  <2>2. CASE i \in 0 .. dst - 1
    <3>1. buf'[i] = buf[i] /\ (i > 0 => buf'[i-1] = buf[i-1])
      <4>1. i > 0 => i - 1 \in 0 .. dst - 1
        BY <1>0, <2>2
      <4>2. QED BY <1>7, <2>2, <4>1
    <3>2. IsCont(buf'[i]) => i > 0 /\ buf'[i].at = buf'[i-1].at + 1
      BY <2>2, <3>1 DEF IInv, WholeChars
    <3>3. CASE i = dst - 1
      BY <2>2, <3>1, <3>2, <3>3 DEF IInv, WholeChars
    <3>4. CASE i # dst - 1
      <4>1. i + 1 \in 0 .. dst - 1
        BY <1>0, <1>5, <2>2, <3>4
      <4>2. buf'[i+1] = buf[i+1]
        BY <1>7, <4>1
      <4>3. i # end - 1
        BY <1>0, <1>5, <4>1
      <4>4. QED BY <2>2, <3>1, <3>2, <4>2, <4>3 DEF IInv, WholeChars
    <3>5. QED BY <3>3, <3>4
  <2>3. CASE i \in dst .. end - 1
    <3>1. /\ buf'[i] = text[i - dst + from]
          /\ buf'[i].at = i - dst + from
      BY <1>7, <1>8, <2>3
    <3>2. CASE i = dst
      <4>1. i - dst + from = from
        BY <1>0, <1>5, <3>2
      <4>2. ~ IsCont(buf'[i])
        BY <1>3, <3>1, <4>1
      <4>3. CASE i = end - 1
        BY <1>0, <1>2, <1>4, <1>5, <3>1, <3>2, <4>2, <4>3
      <4>4. CASE i # end - 1
        <5>1. i + 1 \in dst .. end - 1
          BY <1>0, <1>5, <2>3, <4>4
        <5>2. buf'[i+1].at = buf'[i].at + 1
          BY <1>0, <1>5, <1>8, <3>1, <5>1
        <5>3. QED BY <4>2, <4>4, <5>2
      <4>5. QED BY <4>3, <4>4
    <3>3. CASE i # dst
      <4>1. i - 1 \in dst .. end - 1
        BY <1>0, <1>5, <2>3, <3>3
      <4>2. i > 0 /\ buf'[i].at = buf'[i-1].at + 1
        BY <1>0, <1>5, <1>8, <2>3, <3>1, <4>1
      <4>3. CASE i = end - 1
        BY <1>0, <1>2, <1>4, <1>5, <2>3, <3>1, <4>2, <4>3
      <4>4. CASE i # end - 1
        <5>1. i + 1 \in dst .. end - 1
          BY <1>0, <1>5, <2>3, <4>4
        <5>2. buf'[i+1].at = buf'[i].at + 1
          BY <1>0, <1>5, <1>8, <3>1, <5>1
        <5>3. QED BY <4>2, <4>4, <5>2
      <4>5. QED BY <4>3, <4>4
    <3>4. QED BY <3>2, <3>3
  <2>4. QED BY <1>0, <1>5, <2>2, <2>3
<1>15. QED
  BY <1>6, <1>9, <1>10, <1>11, <1>12, <1>13, <1>14 DEF IInv

\* The padding is written behind the result and inside the text.
LEMMA PadWrites ==
  ASSUME IInv, Pad
  PROVE  /\ \A i \in 0 .. dst - 1 : buf'[i] = buf[i]
         /\ \A i \in src_len .. src_len + padding : buf'[i] = buf[i]
         /\ buf' \in [0 .. src_len + padding -> Byte]
<1>0. buf' = Padded(buf, dst, src_len)
  BY DEF Pad
<1>1. Space \in Byte /\ Nul \in Byte
  BY DEF Space, Nul, Byte, Class, Filled
<1>2. CASE dst < src_len - 3
  <2>1. buf' = [buf EXCEPT ![dst] = Space, ![dst+1] = Space, ![dst+2] = Space,
                           ![dst+3] = Nul]
    BY <1>0, <1>2 DEF Padded
  <2>2. QED BY <1>1, <1>2, <2>1 DEF IInv, TypeOK
<1>3. CASE ~ (dst < src_len - 3) /\ dst < src_len
  <2>1. buf' = [buf EXCEPT ![dst] = Space]
    BY <1>0, <1>3 DEF Padded
  <2>2. QED BY <1>1, <1>3, <2>1 DEF IInv, TypeOK
<1>4. CASE ~ (dst < src_len - 3) /\ ~ (dst < src_len)
  <2>1. buf' = buf
    BY <1>0, <1>4 DEF Padded
  <2>2. QED BY <2>1 DEF IInv, TypeOK
<1>5. QED BY <1>2, <1>3, <1>4

\* The padding keeps the invariant.
LEMMA PadInv ==
  ASSUME IInv, Pad
  PROVE  IInv' /\ pc' = "done"
<1>1. /\ UNCHANGED <<text, src_len, chunksize, padding, src, dst, skipping>>
      /\ pc' = "done" /\ buf' = Padded(buf, dst, src_len) /\ src = src_len
  BY DEF Pad, IInv, Positions
<1>2. /\ \A i \in 0 .. dst - 1 : buf'[i] = buf[i]
      /\ \A i \in src_len .. src_len + padding : buf'[i] = buf[i]
      /\ buf' \in [0 .. src_len + padding -> Byte]
  BY PadWrites
<1>3. TypeOK'
  BY <1>1, <1>2 DEF IInv, TypeOK
<1>4. Positions'
  BY <1>1 DEF IInv, Positions
<1>5. NoClobber'
  BY <1>1, <1>2 DEF IInv, NoClobber, TypeOK
<1>6. Origin'
  BY <1>1, <1>2 DEF IInv, Origin
<1>7. InOrder'
  BY <1>1, <1>2 DEF IInv, InOrder, TypeOK
<1>8. WholeChars'
  <2>1. SUFFICES
          ASSUME NEW i \in 0 .. dst - 1
          PROVE  /\ IsCont(buf'[i]) => i > 0 /\ buf'[i].at = buf'[i-1].at + 1
                 /\ (i = dst - 1 \/ buf'[i+1].at # buf'[i].at + 1)
                       => ~ IsCont(text[buf'[i].at + 1])
    BY <1>1 DEF WholeChars
  <2>2. /\ buf'[i] = buf[i]
        /\ i > 0 => buf'[i-1] = buf[i-1]
        /\ i # dst - 1 => buf'[i+1] = buf[i+1]
    BY <1>2 DEF IInv, TypeOK
  <2>3. QED BY <2>2 DEF IInv, WholeChars
<1>9. QED BY <1>1, <1>3, <1>4, <1>5, <1>6, <1>7, <1>8 DEF IInv

\* Every step keeps the invariant, if chunks go forward.
LEMMA NextInv ==
  ASSUME ForwardChunks, IInv, [Next]_vars
  PROVE  IInv'
<1>1. CASE Call
  <2>1. PICK t \in Texts : text' = t.bytes /\ src_len' = t.n /\ padding' = t.pad
    BY <1>1 DEF Call
  <2>2. WellFormed(text', src_len', padding') /\ src_len' \in Nat
    BY <2>1, TextsAssumption
  <2>3. chunksize' \in Nat \ {0} /\ padding' \in Nat
    BY <1>1, <2>1, TextsAssumption, ParametersAssumption DEF Call, ForwardChunks, ChunksizeOf
  <2>4. buf' = text' /\ src' = 0 /\ dst' = 0 /\ skipping' = FALSE /\ pc' = "scan"
    BY <1>1 DEF Call
  <2>5. QED BY <2>2, <2>3, <2>4, FreshBufferNext
<1>2. CASE DropChunk
  BY <1>2, DropInv
<1>3. CASE KeepChunk
  BY <1>3, KeepInv
<1>4. CASE LoopEnds
  <2>1. src' = src_len'
    BY <1>4 DEF LoopEnds, IInv, TypeOK
  <2>2. Positions'
    BY <1>4, <2>1 DEF LoopEnds, IInv, Positions
  <2>3. TypeOK'
    BY <1>4 DEF LoopEnds, IInv, TypeOK
  <2>4. NoClobber' /\ Origin' /\ InOrder' /\ WholeChars'
    BY <1>4 DEF LoopEnds, IInv, NoClobber, Origin, InOrder, WholeChars
  <2>5. QED BY <1>4, <2>2, <2>3, <2>4 DEF LoopEnds, IInv
<1>5. CASE Pad
  BY <1>5, PadInv
<1>6. CASE Return
  <2>1. WellFormed(text', src_len', padding')
    BY <1>6, NoTextOK DEF Return
  <2>2. chunksize' \in Nat \ {0} /\ padding' \in Nat /\ src_len' \in Nat
    BY <1>6, ParametersAssumption DEF Return
  <2>3. buf' = text' /\ src' = 0 /\ dst' = 0 /\ skipping' = FALSE /\ pc' = "idle"
    BY <1>6 DEF Return
  <2>4. QED BY <2>1, <2>2, <2>3, FreshBufferNext
<1>7. CASE UNCHANGED vars
  BY <1>7 DEF vars, IInv, TypeOK, Positions, NoClobber, Origin, InOrder, WholeChars
<1>8. QED
  BY <1>1, <1>2, <1>3, <1>4, <1>5, <1>6, <1>7 DEF Next, Squeeze

-----------------------------------------------------------------------------
\* Hence it holds in every state.
LEMMA Invariance == ForwardChunks => (Spec => []IInv)
<1> SUFFICES ASSUME ForwardChunks PROVE Spec => []IInv
  OBVIOUS
<1>1. Init => IInv
  BY InitInv
<1>2. IInv /\ [Next]_vars => IInv'
  BY NextInv
<1>3. QED BY <1>1, <1>2, PTL DEF Spec

\* Every variable keeps its type: neither pointer leaves the text, and no
\* byte is written outside the caller's buffer.
THEOREM SqueezeTypeCorrect == ForwardChunks => (Spec => []TypeOK)
<1>1. IInv => TypeOK
  BY DEF IInv
<1>2. QED BY <1>1, Invariance, PTL

\* Squeezing in place never overwrites what it has still to read.
THEOREM SqueezeNoClobber == ForwardChunks => (Spec => []NoClobber)
<1>1. IInv => NoClobber
  BY DEF IInv
<1>2. QED BY <1>1, Invariance, PTL

\* The result is an ordered selection of the bytes of the text.
THEOREM SqueezeInOrder == ForwardChunks => (Spec => []InOrder)
<1>1. IInv => InOrder
  BY DEF IInv
<1>2. QED BY <1>1, Invariance, PTL

\* The result never holds a part of a character.
THEOREM SqueezeWholeChars == ForwardChunks => (Spec => []WholeChars)
<1>1. IInv => WholeChars
  BY DEF IInv
<1>2. QED BY <1>1, Invariance, PTL

-----------------------------------------------------------------------------
(***************************************************************************)
(* Where text is cut out.  When every word fits in a chunk and in a scan,  *)
(* both scans find a space: the one forward in the text, and the one       *)
(* backward in the result, because the bytes that it passes are neighbours *)
(* in the text too, or else a space is among them.                         *)
(***************************************************************************)
Longest == minint(chunksize, kMaxSpaceScan)

\* The invariant: besides what CutsAtSpaces says, the result ends with a space
\* while text is skipped, and otherwise goes on where it is read next, unless
\* nothing was kept of the chunk behind a cut.
Seams ==
  /\ \A i \in 1 .. dst - 1 :
       buf[i].at # buf[i-1].at + 1 => IsSpace(buf[i-1]) /\ IsSpace(text[buf[i].at - 1])
  /\ skipping => IsSpace(buf[dst-1])
  /\ (~ skipping /\ dst > 0) =>
       \/ buf[dst-1].at = src - 1
       \/ IsSpace(buf[dst-1]) /\ IsSpace(text[src-1])

SeamsInv == (pc # "idle" /\ ShortWords(Longest)) => Seams

\* Words that are no longer fit in a chunk and in a scan.
LEMMA LongestIs ==
  ASSUME IInv
  PROVE  Longest \in Nat \ {0} /\ Longest <= chunksize /\ Longest <= kMaxSpaceScan
BY ParametersAssumption DEF IInv, Longest, minint

\* Bytes of the result that follow each other without a cut stand in the text
\* as they do in the result.
LEMMA UncutAt ==
  ASSUME NEW b, NEW from \in Nat, NEW n \in Nat \ {0}, b[from].at \in Int,
         \A i \in from + 1 .. from + n - 1 : b[i].at = b[i-1].at + 1
  PROVE  \A m \in 0 .. n - 1 : b[from + m].at = b[from].at + m
<1> DEFINE at == b[from].at
           S  == {m \in 0 .. n - 1 : b[from + m].at = at + m}
           z  == 0
<1>1. z \in Int /\ n - 1 \in Int /\ z \in S
  BY DEF z
<1>2. ASSUME NEW m \in z .. (n - 1) - 1, m \in S PROVE m + 1 \in S
  <2>1. m + 1 \in 0 .. n - 1 /\ from + (m + 1) \in from + 1 .. from + n - 1
        /\ (from + (m + 1)) - 1 = from + m
    BY <1>2
  <2>2. b[from + (m + 1)].at = b[from + m].at + 1
    BY <2>1
  <2>3. b[from + m].at = at + m
    BY <1>2
  <2> HIDE DEF at
  <2>4. at \in Int
    BY DEF at
  <2> QED
    BY <1>2, <2>1, <2>2, <2>3, <2>4
<1> HIDE DEF S, z
<1>3. \A m \in z .. n - 1 : m \in S
  BY <1>1, <1>2, UpFrom
<1> QED
  BY <1>3 DEF S, z

\* The backward scan finds a space, and the kept text ends behind it.
LEMMA DropsAtSpace ==
  ASSUME IInv, Seams, ShortWords(Longest), dst > 0
  PROVE  LET d == DropPoint(buf, dst)
         IN  d \in 1 .. dst /\ IsSpace(buf[d-1])
<1> DEFINE limit  == minint(dst, kMaxSpaceScan)
           spaces == {n \in 0 .. limit - 1 : IsSpace(buf[dst - n - 1])}
           K      == kMaxSpaceScan
<1>1. dst \in Nat \ {0} /\ src_len \in Nat /\ K \in Nat \ {0}
  BY ParametersAssumption DEF IInv, TypeOK
<1>2. limit \in Nat \ {0} /\ limit <= dst /\ limit = IF dst < K THEN dst ELSE K
  BY <1>1 DEF minint
<1> HIDE DEF limit
<1>3. ASSUME spaces = {} PROVE FALSE
  <2>1. \A i \in dst - limit .. dst - 1 : ~ IsSpace(buf[i])
    <3>1. ASSUME NEW i \in dst - limit .. dst - 1, IsSpace(buf[i]) PROVE FALSE
      <4>1. dst - 1 - i \in 0 .. limit - 1 /\ dst - (dst - 1 - i) - 1 = i
        BY <1>1, <1>2
      <4>2. dst - 1 - i \in spaces
        BY <3>1, <4>1
      <4> QED
        BY <1>3, <4>2
    <3> QED
      BY <3>1
  <2>2. IsSpace(buf[0])
    BY <1>1 DEF IInv, InOrder
  <2>3. ~ (0 \in dst - limit .. dst - 1)
    BY <2>1, <2>2
  <2>4. dst > K /\ limit = K
    BY <1>1, <1>2, <2>3
  <2> DEFINE from == dst - K
             a    == buf[from].at
  <2>5. from \in 1 .. dst - 1 /\ from \in Nat /\ from + K - 1 = dst - 1
    BY <1>1, <2>4
  <2> HIDE DEF from
  <2>6. \A i \in from .. dst - 1 : ~ IsSpace(buf[i])
    BY <2>1, <2>4 DEF from
  <2>7. \A i \in from .. dst - 1 :
          buf[i].at \in 0 .. src_len - 1 /\ buf[i] = text[buf[i].at]
    BY <2>5 DEF IInv, Origin
  <2>8. \A i \in from + 1 .. from + K - 1 : buf[i].at = buf[i-1].at + 1
    <3>1. ASSUME NEW i \in from + 1 .. from + K - 1 PROVE buf[i].at = buf[i-1].at + 1
      <4>1. i \in 1 .. dst - 1 /\ i - 1 \in from .. dst - 1
        BY <1>1, <2>5
      <4> QED
        BY <2>6, <4>1 DEF Seams
    <3> QED
      BY <3>1
  <2>9. a \in 0 .. src_len - 1 /\ from \in from .. dst - 1
    BY <1>1, <2>5, <2>7
  <2>10. \A m \in 0 .. K - 1 : buf[from + m].at = a + m
    <3>1. K \in Nat \ {0} /\ from \in Nat /\ buf[from].at \in Int
      BY <1>1, <2>5, <2>9
    <3> HIDE DEF a
    <3>2. \A m \in 0 .. K - 1 : buf[from + m].at = buf[from].at + m
      BY <2>8, <3>1, UncutAt
    <3> QED
      BY <3>2 DEF a
  <2> HIDE DEF a
  <2>11. \A m \in 0 .. K - 1 : from + m \in from .. dst - 1
    BY <1>1, <2>5
  <2>12. \A m \in 0 .. K - 1 : a + m \in 0 .. src_len - 1 /\ ~ IsSpace(text[a + m])
    BY <2>6, <2>7, <2>10, <2>11
  <2>13. Longest \in Nat \ {0} /\ Longest <= K
    BY LongestIs
  <2> DEFINE L == Longest
  <2> HIDE DEF L
  <2>14. K - 1 \in 0 .. K - 1 /\ a + (K - 1) <= src_len - 1
    BY <1>1, <2>9, <2>12
  <2>15. a \in 0 .. src_len - L
    BY <1>1, <2>9, <2>13, <2>14 DEF L
  <2>16. PICK k \in a .. a + L - 1 : IsSpace(text[k])
    BY <2>15 DEF ShortWords, L
  <2>17. k - a \in 0 .. K - 1 /\ a + (k - a) = k
    BY <1>1, <2>9, <2>13, <2>16 DEF L
  <2> QED
    BY <2>12, <2>16, <2>17
<1>4. Min(spaces) \in spaces
  <2>1. spaces \subseteq Nat /\ spaces # {}
    BY <1>2, <1>3
  <2> HIDE DEF spaces
  <2> QED
    BY <2>1, MinNat
<1>5. DropPoint(buf, dst) = dst - Min(spaces)
  BY <1>3 DEF DropPoint, BackscanToSpace, limit
<1> DEFINE n == Min(spaces)
<1>6. n \in 0 .. limit - 1 /\ IsSpace(buf[dst - n - 1])
  BY <1>4
<1> HIDE DEF n
<1>7. dst - n \in 1 .. dst /\ (dst - n) - 1 = dst - n - 1
  BY <1>1, <1>2, <1>6
<1> QED
  BY <1>5, <1>6, <1>7 DEF n

\* The forward scan finds a space in the chunk, and text is kept from behind it.
LEMMA ResumesAtSpace ==
  ASSUME IInv, ShortWords(Longest),
         NEW len \in minint(chunksize, src_len - src) .. src_len - src, len > 0
  PROVE  LET n == ForwardscanToSpace(buf, src, len)
         IN  n \in 1 .. len /\ IsSpace(text[src + n - 1])
<1> DEFINE limit  == minint(len, kMaxSpaceScan)
           spaces == {n \in 0 .. limit - 1 : IsSpace(buf[src + n])}
           K      == kMaxSpaceScan
           L      == Longest
<1>1. /\ src \in Nat /\ src_len \in Nat /\ padding \in Nat /\ chunksize \in Nat \ {0}
      /\ src <= src_len /\ K \in Nat \ {0}
  BY ParametersAssumption DEF IInv, TypeOK
<1>2. len \in Nat \ {0} /\ src + len <= src_len /\ (len >= chunksize \/ src + len = src_len)
  BY <1>1 DEF minint
<1>3. limit \in Nat \ {0} /\ limit <= len /\ limit = IF len < K THEN len ELSE K
  BY <1>1, <1>2 DEF minint
<1>4. L \in Nat \ {0} /\ L <= chunksize /\ L <= K
  BY LongestIs
<1> HIDE DEF limit, L
<1>5. \A i \in src .. src_len - 1 : buf[i] = text[i]
  BY <1>1 DEF IInv, NoClobber
<1>6. \E k \in src .. src + limit - 1 : IsSpace(text[k])
  <2>1. CASE limit >= L
    <3>1. src \in 0 .. src_len - L
      BY <1>1, <1>2, <1>3, <1>4, <2>1
    <3>2. PICK k \in src .. src + L - 1 : IsSpace(text[k])
      BY <3>1 DEF ShortWords, L
    <3>3. k \in src .. src + limit - 1
      BY <1>1, <1>3, <1>4, <2>1, <3>2
    <3> QED
      BY <3>2, <3>3
  <2>2. CASE limit < L
    <3>1. src_len - 1 = src + limit - 1
      BY <1>1, <1>2, <1>3, <1>4, <2>2
    <3>2. src_len - 1 \in src .. src + limit - 1 /\ IsSpace(text[src_len - 1])
      BY <1>1, <1>3, <3>1 DEF ShortWords
    <3> QED
      BY <3>2
  <2> QED
    BY <1>3, <1>4, <2>1, <2>2
<1>7. PICK k \in src .. src + limit - 1 : IsSpace(text[k])
  BY <1>6
<1>8. k - src \in 0 .. limit - 1 /\ src + (k - src) = k /\ k \in src .. src_len - 1
  BY <1>1, <1>2, <1>3, <1>7
<1>9. k - src \in spaces
  BY <1>5, <1>7, <1>8
<1>10. Min(spaces) \in spaces
  BY <1>3, <1>9, MinNat
<1>11. ForwardscanToSpace(buf, src, len) = Min(spaces) + 1
  BY <1>9 DEF ForwardscanToSpace, limit
<1> DEFINE n == Min(spaces)
<1>12. n \in 0 .. limit - 1 /\ IsSpace(buf[src + n])
  BY <1>10
<1> HIDE DEF n
<1>13. /\ n + 1 \in 1 .. len /\ src + (n + 1) - 1 = src + n /\ src + n \in src .. src_len - 1
  BY <1>1, <1>2, <1>3, <1>12
<1> QED
  BY <1>5, <1>11, <1>12, <1>13 DEF n

\* Each step of the squeezer keeps it so.
LEMMA DropKeepsSeams ==
  ASSUME IInv, Seams, ShortWords(Longest), DropChunk
  PROVE  Seams'
<1>1. dst \in Nat /\ src_len \in Nat /\ padding \in Nat /\ (skipping => dst > 0)
  BY DEF IInv, TypeOK, Positions
<1>2. skipping' = TRUE /\ text' = text
  BY DEF DropChunk
<1>3. CASE skipping
  <2>1. buf' = buf /\ dst' = dst
    BY <1>3 DEF DropChunk
  <2> QED
    BY <1>2, <1>3, <2>1 DEF Seams
<1>4. CASE ~ skipping /\ dst = 0
  <2>1. DropPoint(buf, dst) = 0
    BY <1>4, DropPointWhole
  <2>2. buf' = [buf EXCEPT ![0] = Space] /\ dst' = 1
    BY <1>4, <2>1 DEF DropChunk
  <2>3. 0 \in DOMAIN buf
    BY <1>1 DEF IInv, TypeOK
  <2>4. IsSpace(buf'[0])
    BY <2>2, <2>3 DEF IsSpace, Space
  <2> QED
    BY <1>2, <2>2, <2>4 DEF Seams
<1>5. CASE ~ skipping /\ dst # 0
  <2> DEFINE d == DropPoint(buf, dst)
  <2>1. d \in 1 .. dst /\ IsSpace(buf[d-1])
    BY <1>1, <1>5, DropsAtSpace
  <2>2. buf' = buf /\ dst' = d
    BY <1>5, <2>1 DEF DropChunk
  <2> HIDE DEF d
  <2>3. \A i \in 1 .. d - 1 : i \in 1 .. dst - 1
    BY <1>1, <2>1
  <2> QED
    BY <1>2, <2>1, <2>2, <2>3 DEF Seams
<1> QED
  BY <1>3, <1>4, <1>5

\* Text that is kept goes on where it was kept last, or from behind a space.
LEMMA KeepKeepsSeams ==
  ASSUME IInv, Seams, ShortWords(Longest), KeepChunk
  PROVE  Seams'
<1>1. src \in Nat /\ dst \in Nat /\ src_len \in Nat /\ (skipping => dst > 0)
      /\ (dst = 0 => src = 0)
  BY DEF IInv, TypeOK, Positions
<1>2. PICK len \in minint(chunksize, src_len - src) .. src_len - src :
        Keeps(len, ResumeSkip(buf, src, len))
  BY KeepMoves
<1> DEFINE n    == ResumeSkip(buf, src, len)
           from == src + n
           next == src + len
           end  == dst + (len - n)
\* Text is kept from behind a space on, or from where it was kept last.
<1>3. len \in Nat \ {0}
  BY <1>2 DEF Keeps
<1>4. IF skipping THEN n \in 1 .. len /\ IsSpace(text[src + n - 1]) ELSE n = 0
  BY <1>2, <1>3, ResumesAtSpace DEF ResumeSkip
<1> HIDE DEF n
<1>5. /\ next \in Nat /\ from \in Nat /\ n \in 0 .. len /\ end \in Nat /\ dst <= end
      /\ dst' = end /\ src' = next
      /\ \A i \in 0 .. dst - 1 : buf'[i] = buf[i]
      /\ \A i \in dst .. end - 1 : buf'[i].at = i - dst + from
  BY <1>2 DEF Keeps, n
<1>6. skipping' = FALSE /\ text' = text
  BY DEF KeepChunk
<1>7. dst > 0 => \/ buf[dst-1].at = from - 1
                 \/ IsSpace(buf[dst-1]) /\ IsSpace(text[from - 1])
  <2>1. CASE skipping
    BY <1>1, <1>4, <2>1 DEF Seams
  <2>2. CASE ~ skipping
    <3>1. from = src
      BY <1>1, <1>4, <2>2
    <3> QED
      BY <2>2, <3>1 DEF Seams
  <2> QED
    BY <2>1, <2>2
<1> HIDE DEF from
<1>8. ASSUME NEW i \in 1 .. end - 1, buf'[i].at # buf'[i-1].at + 1
      PROVE  IsSpace(buf'[i-1]) /\ IsSpace(text[buf'[i].at - 1])
  <2>1. CASE i < dst
    <3>1. i \in 1 .. dst - 1 /\ i \in 0 .. dst - 1 /\ i - 1 \in 0 .. dst - 1
      BY <1>1, <2>1
    <3>2. buf'[i] = buf[i] /\ buf'[i-1] = buf[i-1]
      BY <1>5, <3>1
    <3> QED
      BY <1>8, <3>1, <3>2 DEF Seams
  <2>2. CASE i = dst
    <3>1. dst > 0 /\ dst - 1 \in 0 .. dst - 1 /\ dst \in dst .. end - 1
          /\ dst - dst + from = from
      BY <1>1, <1>5, <2>2
    <3>2. buf'[i-1] = buf[dst-1] /\ buf'[i].at = from
      BY <1>5, <2>2, <3>1
    <3>3. from = (from - 1) + 1
      BY <1>5
    <3> QED
      BY <1>7, <1>8, <3>1, <3>2, <3>3
  <2>3. CASE i > dst
    <3>1. /\ i \in dst .. end - 1 /\ i - 1 \in dst .. end - 1
          /\ i - dst + from = ((i - 1) - dst + from) + 1
      BY <1>1, <1>5, <2>3
    <3>2. buf'[i].at = i - dst + from /\ buf'[i-1].at = (i - 1) - dst + from
      BY <1>5, <3>1
    <3> QED
      BY <1>8, <3>1, <3>2
  <2> QED
    BY <1>1, <1>5, <2>1, <2>2, <2>3
<1>9. end > 0 => \/ buf'[end-1].at = next - 1
                 \/ IsSpace(buf'[end-1]) /\ IsSpace(text[next-1])
  <2>1. CASE n = len
    <3>1. end = dst /\ from = next
      BY <1>1, <1>3, <2>1 DEF from
    <3>2. dst > 0 => buf'[dst-1] = buf[dst-1]
      BY <1>1, <1>5
    <3> QED
      BY <1>7, <3>1, <3>2
  <2>2. CASE n # len
    <3>1. end - 1 \in dst .. end - 1 /\ (end - 1) - dst + from = next - 1
      BY <1>1, <1>3, <1>5, <2>2 DEF from
    <3> QED
      BY <1>5, <3>1
  <2> QED
    BY <2>1, <2>2
<1> HIDE DEF end, next
<1> QED
  BY <1>5, <1>6, <1>8, <1>9 DEF Seams

\* Every step keeps the seams, if the words are short.
LEMMA NextSeams ==
  ASSUME ForwardChunks, IInv, SeamsInv, [Next]_vars
  PROVE  SeamsInv'
<1>1. CASE Call
  <2>1. dst' = 0 /\ skipping' = FALSE
    BY <1>1 DEF Call
  <2>2. Seams'
    BY <2>1 DEF Seams
  <2> QED
    BY <2>2 DEF SeamsInv
<1>2. ASSUME Squeeze PROVE /\ pc # "idle" /\ UNCHANGED <<text, src_len, chunksize, padding>>
                           /\ (ShortWords(Longest)' <=> ShortWords(Longest))
  <2>1. pc # "idle" /\ UNCHANGED <<text, src_len, chunksize, padding>>
    BY <1>2 DEF Squeeze, DropChunk, KeepChunk, LoopEnds, Pad
  <2> QED
    BY <2>1 DEF ShortWords, Longest
<1>3. CASE DropChunk
  BY <1>2, <1>3, DropKeepsSeams DEF SeamsInv, Squeeze
<1>4. CASE KeepChunk
  BY <1>2, <1>4, KeepKeepsSeams DEF SeamsInv, Squeeze
<1>5. CASE LoopEnds
  <2>1. UNCHANGED <<text, buf, src, dst, skipping>>
    BY <1>5 DEF LoopEnds
  <2>2. Seams => Seams'
    BY <2>1 DEF Seams
  <2> QED
    BY <1>2, <1>5, <2>2 DEF SeamsInv, Squeeze
<1>6. CASE Pad
  <2>1. UNCHANGED <<text, src, dst, skipping>> /\ buf' = Padded(buf, dst, src_len)
    BY <1>6 DEF Pad
  <2>2. \A i \in 0 .. dst - 1 : buf'[i] = buf[i]
    BY <1>6, PadWrites
  <2>3. dst \in Nat /\ (skipping => dst > 0)
    BY DEF IInv, TypeOK, Positions
  <2>4. dst > 0 => buf'[dst-1] = buf[dst-1]
    BY <2>2, <2>3
  <2>5. \A i \in 1 .. dst - 1 : buf'[i] = buf[i] /\ buf'[i-1] = buf[i-1]
    BY <2>2, <2>3
  <2>6. Seams => Seams'
    BY <2>1, <2>3, <2>4, <2>5 DEF Seams
  <2> QED
    BY <1>2, <1>6, <2>6 DEF SeamsInv, Squeeze
<1>7. CASE Return
  BY <1>7 DEF Return, SeamsInv
<1>8. CASE UNCHANGED vars
  <2>1. UNCHANGED <<pc, text, src_len, chunksize, buf, src, dst, skipping>>
    BY <1>8 DEF vars
  <2>2. (Seams => Seams') /\ (ShortWords(Longest)' <=> ShortWords(Longest))
    BY <2>1 DEF Seams, ShortWords, Longest
  <2> QED
    BY <2>1, <2>2 DEF SeamsInv
<1> QED
  BY <1>1, <1>3, <1>4, <1>5, <1>6, <1>7, <1>8 DEF Next, Squeeze

\* When every word fits in a chunk and in a scan, text is cut out only from
\* behind a space to behind a space, however kept and dropped chunks alternate.
THEOREM SqueezeCutsAtSpaces == ForwardChunks => (Spec => []CutsAtSpaces)
<1> SUFFICES ASSUME ForwardChunks PROVE Spec => []CutsAtSpaces
  OBVIOUS
<1>1. Init => SeamsInv
  BY DEF Init, SeamsInv
<1>2. IInv /\ SeamsInv /\ [Next]_vars => SeamsInv'
  BY NextSeams
<1>3. SeamsInv => CutsAtSpaces
  BY DEF SeamsInv, Seams, CutsAtSpaces, Longest
<1> QED
  BY <1>1, <1>2, <1>3, Invariance, PTL DEF Spec

=============================================================================
