------------------------- MODULE RecordBytes_proofs -------------------------
(***************************************************************************)
(* For every set of seeks: the position bytes denote the record meant, and *)
(* the conversions of functions 33 and 36 are exact.                       *)
(***************************************************************************)
EXTENDS RecordBytes, TLAPS

\* A 16-bit number is its low byte and 256 times its high byte.
LEMMA ByteSplit ==
    ASSUME NEW n \in 0 .. LastRandom
    PROVE  /\ n % 256 \in Byte /\ n \div 256 \in Byte
           /\ (n % 256) + 256 * (n \div 256) = n
  <1>1. n \in Nat /\ n < 256 * 256
    BY SMT DEF LastRandom
  <1> QED BY <1>1, SMT DEF Byte

(* UB_RDECODE is exact: the shifted, masked and rotated bytes are the      *)
(* extent, module and record of the number R0 + 256 * R1.                  *)
LEMMA DecodeExact ==
    ASSUME NEW r0 \in Byte, NEW r1 \in Byte
    PROVE  /\ DecodeBytes(r0, r1) \in [ex : EXs, s2 : S2s, cr : CRs]
           /\ P!ExtRec(DecodeBytes(r0, r1).s2, DecodeBytes(r0, r1).ex,
                       DecodeBytes(r0, r1).cr) = r0 + 256 * r1
  <1> DEFINE x == r0 \div 128
             y == r1 \div 16
             z == r1 % 16
  <1>1. x \in 0 .. 1 /\ r0 % 128 \in 0 .. 127 /\ r0 = 128 * x + (r0 % 128)
    BY SMT DEF Byte
  <1>2. y \in 0 .. 15 /\ z \in 0 .. 15 /\ r1 = 16 * y + z
    BY SMT DEF Byte
  <1>3. (((2 * r1) + x) % 256) % 32 = 2 * z + x
    <2> HIDE DEF x, y, z
    <2>1. (2 * r1) + x = 32 * y + 2 * z + x
      BY <1>1, <1>2 DEF Byte
    <2>2. (2 * z + x) \in 0 .. 31
      BY <1>1, <1>2
    <2> QED BY <1>1, <1>2, <2>1, <2>2, SMT DEF Byte
  <1> HIDE DEF x, y, z
  <1>4. DecodeBytes(r0, r1) = [ex |-> 2 * z + x, s2 |-> y, cr |-> r0 % 128]
    BY <1>3 DEF DecodeBytes, x, y
  <1>5. P!ExtRec(y, 2 * z + x, r0 % 128) = r0 + 256 * r1
    BY <1>1, <1>2, SMT DEF P!ExtRec
  <1>6. 2 * z + x \in EXs /\ y \in S2s /\ r0 % 128 \in CRs
    BY <1>1, <1>2, SMT DEF EXs, S2s, CRs
  <1> QED BY <1>4, <1>5, <1>6

(* UB_EXTREC is exact: the carries out of R0 and R1 are all propagated.    *)
LEMMA ExtRecExact ==
    ASSUME NEW s \in S2s, NEW e \in EXs, NEW c \in CRs
    PROVE  /\ ExtRecBytes(s, e, c) \in [r0 : Byte, r1 : Byte, r2 : Byte]
           /\ Number(ExtRecBytes(s, e, c)) = P!ExtRec(s, e, c)
  <1> DEFINE hl  == s * 32 + e
             lo  == c + ((hl % 2) * 128)
             mid == ((hl \div 2) % 256) + (lo \div 256)
             top == (hl \div 512) + (mid \div 256)
  <1>1. s % 64 = s /\ e % 32 = e
    BY SMT DEF S2s, EXs
  <1>2. hl \in 0 .. 2047 /\ c \in 0 .. 128
    BY SMT DEF S2s, EXs, CRs
  <1>3. hl = 512 * (hl \div 512) + 2 * ((hl \div 2) % 256) + (hl % 2)
        /\ hl \div 512 \in 0 .. 3 /\ (hl \div 2) % 256 \in 0 .. 255 /\ hl % 2 \in 0 .. 1
    <2> HIDE DEF hl
    <2> QED BY <1>2, SMT
  <1>4. lo \in 0 .. 383 /\ lo = 256 * (lo \div 256) + (lo % 256)
        /\ lo \div 256 \in 0 .. 1 /\ lo % 256 \in 0 .. 255
    <2>1. lo \in 0 .. 383
      <3> HIDE DEF hl
      <3> QED BY <1>2, <1>3, SMT
    <2> HIDE DEF lo
    <2> QED BY <2>1, SMT
  <1>5. mid \in 0 .. 256 /\ mid = 256 * (mid \div 256) + (mid % 256)
        /\ mid \div 256 \in 0 .. 1 /\ mid % 256 \in 0 .. 255
    <2> HIDE DEF hl, lo
    <2> QED BY <1>3, <1>4, SMT
  <1>6. top \in 0 .. 4 /\ top % 256 = top
    <2> HIDE DEF hl, mid
    <2> QED BY <1>3, <1>5, SMT
  <1>7. ExtRecBytes(s, e, c) = [r0 |-> lo % 256, r1 |-> mid % 256, r2 |-> top]
    BY <1>1, <1>6 DEF ExtRecBytes
  <1>8. (lo % 256) + 256 * (mid % 256) + 65536 * top = 128 * hl + c
    <2>1. lo = c + (hl % 2) * 128 /\ mid = ((hl \div 2) % 256) + (lo \div 256)
          /\ top = (hl \div 512) + (mid \div 256)
      OBVIOUS
    <2> HIDE DEF hl, lo, mid, top
    <2> QED BY <1>2, <1>3, <1>4, <1>5, <1>6, <2>1, SMT
  <1>9. P!ExtRec(s, e, c) = 128 * hl + c
    BY SMT DEF P!ExtRec, S2s, EXs, CRs
  <1> HIDE DEF hl, lo, mid, top
  <1> QED BY <1>4, <1>5, <1>6, <1>7, <1>8, <1>9 DEF Number, Byte

-----------------------------------------------------------------------------
(* The inductive invariant.                                                *)

Position == /\ ex \in EXs /\ s2 \in S2s /\ cr \in CRs
            /\ seqno = P!ExtRec(s2, ex, cr)

Reported == rnd # NoRandom => rnd = ExtRecBytes(s2, ex, cr)

IInv == Position /\ Reported

\* The first position and the first random record denote record 0.
LEMMA InvariantInit == Init => IInv
  BY DEF Init, IInv, Position, Reported, P!ExtRec, EXs, S2s, CRs

\* Stepping, seeking and function 36 keep position and record together.
LEMMA InvariantNext == IInv /\ [Next]_vars => IInv'
  <1> SUFFICES ASSUME IInv, [Next]_vars PROVE IInv'
    OBVIOUS
  <1>0. /\ ex \in 0 .. 31 /\ s2 \in 0 .. 63 /\ cr \in 0 .. 128
        /\ seqno = (s2 * 32 + ex) * 128 + cr
        /\ Reported
    BY DEF IInv, Position, P!ExtRec, EXs, S2s, CRs
  <1>1. CASE Advance
    <2>1. Reported' /\ seqno' = seqno + 1
      BY <1>1 DEF Advance, Reported
    <2>2. CASE cr < 128 /\ cr' = cr + 1 /\ UNCHANGED <<ex, s2>>
      BY <1>0, <2>1, <2>2, SMT DEF IInv, Position, P!ExtRec, EXs, S2s, CRs
    <2>3. CASE Roll
      <3>1. /\ cr = 128 /\ cr' = 1 /\ ex' = (ex + 1) % 32
            /\ s2' = IF ex' = 0 THEN (s2 % 64) + 1 ELSE s2
            /\ s2' < 64
        BY <2>3 DEF Roll
      <3>2. CASE ex < 31
        <4>1. ex' = ex + 1 /\ s2' = s2
          BY <1>0, <3>1, <3>2, SMT
        <4> QED BY <1>0, <2>1, <3>1, <3>2, <4>1, SMT DEF IInv, Position, P!ExtRec, EXs, S2s, CRs
      <3>3. CASE ex = 31
        <4>1. ex' = 0 /\ s2' = s2 + 1
          BY <1>0, <3>1, <3>3, SMT
        <4> QED BY <1>0, <2>1, <3>1, <3>3, <4>1, SMT DEF IInv, Position, P!ExtRec, EXs, S2s, CRs
      <3> QED BY <1>0, <3>2, <3>3, SMT
    <2> QED BY <1>1, <2>2, <2>3 DEF Advance
  <1>2. CASE AtEnd \/ UNCHANGED vars
    BY <1>2 DEF AtEnd, vars, IInv, Position, Reported
  <1>3. CASE SetRandom
    BY <1>3 DEF SetRandom, IInv, Position, Reported
  <1>4. ASSUME NEW r \in Seeks, Seek(r) PROVE IInv'
    <2>1. r \in 0 .. LastRandom
      BY SeeksAssumption
    <2>2. r % 256 \in Byte /\ r \div 256 \in Byte /\ (r % 256) + 256 * (r \div 256) = r
      BY <2>1, ByteSplit
    <2>3. Position'
      <3> DEFINE at == DecodeBytes(r % 256, r \div 256)
      <3>1. /\ at \in [ex : EXs, s2 : S2s, cr : CRs]
            /\ P!ExtRec(at.s2, at.ex, at.cr) = r
        BY <2>2, DecodeExact
      <3>2. ex' = at.ex /\ s2' = at.s2 /\ cr' = at.cr /\ seqno' = r
        BY <1>4 DEF Seek
      <3> HIDE DEF at
      <3> QED BY <3>1, <3>2 DEF Position, P!ExtRec
    <2>4. Reported'
      BY <1>4 DEF Seek, Reported
    <2> QED BY <2>3, <2>4 DEF IInv
  <1> QED BY <1>1, <1>2, <1>3, <1>4 DEF Next

(* The bytes have their ranges, and the position its bound, for whatever   *)
(* records a program seeks to.                                             *)
THEOREM TypeCorrect == Spec => []TypeOK
  <1>1. ASSUME IInv PROVE TypeOK
    <2>1. /\ ex \in 0 .. 31 /\ s2 \in 0 .. 63 /\ cr \in 0 .. 128
          /\ seqno = (s2 * 32 + ex) * 128 + cr
      BY <1>1 DEF IInv, Position, P!ExtRec, EXs, S2s, CRs
    <2>2. seqno \in 0 .. LastRecord + 1
      <3>1. seqno \in Nat /\ seqno <= 64 * 32 * 128
        BY <2>1, SMT
      <3>2. LastRecord \in Nat /\ LastRecord + 1 = 64 * 32 * 128
        BY SMT DEF LastRecord
      <3> QED BY <3>1, <3>2, SMT
    <2>3. NoRandom \in [r0 : Byte, r1 : Byte, r2 : Byte]
      BY SMT DEF NoRandom, Byte
    <2>4. ExtRecBytes(s2, ex, cr) \in [r0 : Byte, r1 : Byte, r2 : Byte]
      BY <1>1, ExtRecExact DEF IInv, Position
    <2>5. rnd \in [r0 : Byte, r1 : Byte, r2 : Byte]
      BY <1>1, <2>3, <2>4 DEF IInv, Reported
    <2> QED BY <1>1, <2>2, <2>5 DEF TypeOK, IInv, Position
  <1> QED BY <1>1, InvariantInit, InvariantNext, PTL DEF Spec

(* Sequential steps and random seeks, in any order, leave EX, S2 and CR at *)
(* the record the program means to be at.                                  *)
THEOREM PositionExact == Spec => []PositionIsRecord
  <1>1. IInv => PositionIsRecord
    BY DEF IInv, Position, PositionIsRecord
  <1> QED BY <1>1, InvariantInit, InvariantNext, PTL DEF Spec

(* Function 36 reports the sequential position without loss, and a random  *)
(* call on the record it reports goes to the same place.                   *)
THEOREM RandomExact == Spec => []RandomIsPosition
  <1>1. ASSUME IInv, rnd # NoRandom PROVE RandomIsPosition
    <2>1. ex \in EXs /\ s2 \in S2s /\ cr \in CRs /\ seqno = P!ExtRec(s2, ex, cr)
      BY <1>1 DEF IInv, Position
    <2>2. rnd = ExtRecBytes(s2, ex, cr)
      BY <1>1 DEF IInv, Reported
    <2>3. rnd \in [r0 : Byte, r1 : Byte, r2 : Byte] /\ Number(rnd) = seqno
      BY <2>1, <2>2, ExtRecExact
    <2>4. ASSUME rnd.r2 = 0
          PROVE  LET at == DecodeBytes(rnd.r0, rnd.r1)
                 IN  P!ExtRec(at.s2, at.ex, at.cr) = seqno
      <3>1. rnd.r0 \in Byte /\ rnd.r1 \in Byte
        BY <2>3
      <3>2. seqno = rnd.r0 + 256 * rnd.r1 + 65536 * 0
        BY <2>3, <2>4 DEF Number
      <3>3. \A i, j \in Byte : i + 256 * j + 65536 * 0 = i + 256 * j
        BY SMT DEF Byte
      <3>4. seqno = rnd.r0 + 256 * rnd.r1
        BY <3>1, <3>2, <3>3
      <3> QED BY <3>1, <3>4, DecodeExact
    <2> QED BY <2>3, <2>4 DEF RandomIsPosition
  <1> QED BY <1>1, InvariantInit, InvariantNext, PTL DEF Spec, RandomIsPosition
=============================================================================
