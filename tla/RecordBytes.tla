---------------------------- MODULE RecordBytes -----------------------------
(***************************************************************************)
(* The position of an open file as the unified BDOS computes it, byte by   *)
(* byte: the FCB's EX, S2 and CR on one side, the random record R0, R1, R2 *)
(* on the other.  Sequential transfers advance EX, S2 and CR; function 36  *)
(* converts them to R0..R2; functions 33, 34 and 40 convert R0..R2 back.   *)
(* The three must agree on every record of the largest file, across the    *)
(* carries between the bytes.                                              *)
(***************************************************************************)
EXTENDS Integers

CONSTANT Seeks      \* random records the program seeks to (R2 = 0)

LastRandom == 65535     \* the largest number in R0 and R1
LastRecord == 262143    \* of 64 modules of 32 extents of 128 records
ASSUME SeeksAssumption == Seeks \subseteq 0 .. LastRandom

VARIABLES ex, s2, cr,   \* position fields of the FCB
          rnd,          \* R0..R2 as function 36 left them, or NoRandom
          seqno         \* the record the program means to be at
vars == <<ex, s2, cr, rnd, seqno>>

Byte == 0 .. 255
EXs  == 0 .. 31
S2s  == 0 .. 63
CRs  == 0 .. 128
NoRandom == [r0 |-> 0, r1 |-> 0, r2 |-> 255]

P == INSTANCE FilePosition WITH RPE <- 128, NEX <- 32, NS2 <- 64, EXM <- 0, BLK <- 8

-----------------------------------------------------------------------------
(* UB_EXTREC.  HL is S2*32+EX; the carry out of the low byte and the carry *)
(* out of the middle byte are the two places a position can go wrong.      *)
\* Mistake: the carry out of R0 is lost.
ExtRecNoCarry(s, e, rec) ==
    LET hl == (s % 64) * 32 + (e % 32)
    IN  [r0 |-> (rec + ((hl % 2) * 128)) % 256,
         r1 |-> (hl \div 2) % 256,
         r2 |-> (hl \div 512) % 256]

ExtRecBytes(s, e, rec) ==
    LET hl    == (s % 64) * 32 + (e % 32)
        lo    == rec + ((hl % 2) * 128)
        mid   == ((hl \div 2) % 256) + (lo \div 256)
    IN  [r0 |-> lo % 256,
         r1 |-> mid % 256,
         r2 |-> ((hl \div 512) + (mid \div 256)) % 256]

(* UB_RDECODE: RLA shifts the top bit of R0 into R1, four RRCAs leave the  *)
(* high nibble of R1, RES 7 clears the bit that went to EX.                *)
\* Mistake: the top bit of R0 does not reach EX.
DecodeNoShift(r0, r1) ==
    [ex |-> (2 * r1) % 32, s2 |-> r1 \div 16, cr |-> r0 % 128]

DecodeBytes(r0, r1) ==
    [ex |-> (((2 * r1) + (r0 \div 128)) % 256) % 32,
     s2 |-> r1 \div 16,
     cr |-> r0 % 128]

Number(b) == b.r0 + 256 * b.r1 + 65536 * b.r2

-----------------------------------------------------------------------------
Init == ex = 0 /\ s2 = 0 /\ cr = 0 /\ seqno = 0 /\ rnd = NoRandom

\* Mistake: UB_NXCALC does not look for the end of the last module.
RollEndless ==
    /\ cr = 128 /\ cr' = 1 /\ ex' = (ex + 1) % 32
    /\ s2' = IF ex' = 0 THEN (s2 % 64) + 1 ELSE s2

(* UB_NXCALC and UB_NXCHK: at CR=128 the next extent, if there is one.     *)
Roll ==
    /\ cr = 128 /\ cr' = 1 /\ ex' = (ex + 1) % 32
    /\ s2' = IF ex' = 0 THEN (s2 % 64) + 1 ELSE s2
    /\ s2' < 64

(* A successful sequential transfer: UB_NEXTEX moves to the next extent    *)
(* first if it has to, then CR is incremented.                             *)
Advance ==
    /\ \/ cr < 128 /\ cr' = cr + 1 /\ UNCHANGED <<ex, s2>>
       \/ Roll
    /\ seqno' = seqno + 1
    /\ rnd' = NoRandom

(* UB_NXBAD: after the last extent of all nothing moves.                   *)
AtEnd == cr = 128 /\ ex = 31 /\ s2 = 63 /\ UNCHANGED vars

(* A random transfer: UB_RDECODE positions, UB_RRETURN sets CR again.      *)
Seek(r) ==
    LET at == DecodeBytes(r % 256, r \div 256)
    IN  ex' = at.ex /\ s2' = at.s2 /\ cr' = at.cr /\ seqno' = r /\ rnd' = NoRandom

(* Function 36.                                                            *)
SetRandom ==
    /\ rnd = NoRandom
    /\ rnd' = ExtRecBytes(s2, ex, cr)
    /\ UNCHANGED <<ex, s2, cr, seqno>>

Next == Advance \/ AtEnd \/ SetRandom \/ \E r \in Seeks : Seek(r)
Spec == Init /\ [][Next]_vars
-----------------------------------------------------------------------------
TypeOK == /\ ex \in EXs /\ s2 \in S2s /\ cr \in CRs
          /\ rnd \in [r0 : Byte, r1 : Byte, r2 : Byte]
          /\ seqno \in 0 .. LastRecord + 1

(* The position fields always denote the record the program is at, however *)
(* it got there: by sequential steps across extent and module boundaries,  *)
(* or by a random seek.                                                    *)
PositionIsRecord == P!ExtRec(s2, ex, cr) = seqno

(* Function 36 reports the sequential position exactly, carries included,  *)
(* and for the 65536 records that random access reaches a seek to the      *)
(* reported record comes back to the same place of the file.               *)
RandomIsPosition ==
    rnd # NoRandom =>
        /\ Number(rnd) = seqno
        /\ rnd.r2 = 0 => LET at == DecodeBytes(rnd.r0, rnd.r1)
                         IN  P!ExtRec(at.s2, at.ex, at.cr) = seqno
=============================================================================
