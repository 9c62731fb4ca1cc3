---------------------------- MODULE FilePosition ----------------------------
(***************************************************************************)
(* Where a record of a file lives: the arithmetic the file services of the *)
(* unified BDOS share.  A record number is split into an extent (EX and    *)
(* S2) and a record within the extent (CR); extents are grouped EXM+1 to a *)
(* directory entry; the entry's allocation map has one element per block.  *)
(*                                                                         *)
(* The sizes are parameters, so that the file services can be checked with *)
(* small ones; RecordBytes instantiates them with the widths of the Z80    *)
(* code.                                                                   *)
(***************************************************************************)
EXTENDS Integers

CONSTANTS
    RPE,    \* records in a logical extent (128)
    NEX,    \* values of the EX field (32)
    NS2,    \* values of the S2 field (64)
    EXM,    \* extent mask of the DPB: EXM+1 extents share an entry
    BLK     \* records in an allocation block (BLM+1)

\* The geometries that the BIOS accepts: whole blocks per extent, whole
\* groups per EX cycle.  UB_RECMAP and the iterator rely on both.
ASSUME GeometryAssumption ==
    /\ RPE \in Nat \ {0}
    /\ NEX \in Nat \ {0}
    /\ NS2 \in Nat \ {0}
    /\ EXM \in Nat
    /\ BLK \in Nat \ {0}
    /\ NEX % (EXM + 1) = 0
    /\ ((EXM + 1) * RPE) % BLK = 0

\* Elements of an entry's allocation map in use.
MapLen == ((EXM + 1) * RPE) \div BLK

Indexes == 0 .. MapLen - 1
Extents == 0 .. NEX - 1
Modules == 0 .. NS2 - 1
Records == 0 .. NS2 * NEX * RPE - 1

-----------------------------------------------------------------------------
(* UB_EXTREC: (S2, EX) and a record field into a record number.            *)
ExtRec(s, e, rec) == (s * NEX + e) * RPE + rec

(* UB_RDECODE: a random record number into EX, S2 and CR.                  *)
Decode(r) == [ex |-> (r \div RPE) % NEX,
              s2 |-> r \div (RPE * NEX),
              cr |-> r % RPE]

(* UB_NXCALC: the extent after (S2, EX).  The S2 it yields is out of range *)
(* after the last extent of all.                                           *)
NextExtent(s2, ex) == IF ex + 1 < NEX THEN [ex |-> ex + 1, s2 |-> s2]
                                      ELSE [ex |-> 0, s2 |-> s2 + 1]

(* The group of logical extents an EX belongs to: UB_ITLIT compares EX     *)
(* fields with the bits of EXM cleared.                                    *)
Group(ex) == ex \div (EXM + 1)

(* UB_ACTIVATE: the RC of logical extent ex, when the directory entry of   *)
(* its group records count rc for extent last.                             *)
ActiveRC(last, rc, ex) == IF last > ex THEN RPE ELSE IF last = ex THEN rc ELSE 0

(* UB_RECMAP: element of the allocation map, and record within the block.  *)
GroupRecord(ex, cr) == (ex % (EXM + 1)) * RPE + cr
MapIndex(ex, cr) == GroupRecord(ex, cr) \div BLK
BlockOffset(ex, cr) == GroupRecord(ex, cr) % BLK
=============================================================================
