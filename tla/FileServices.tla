---------------------------- MODULE FileServices ----------------------------
(***************************************************************************)
(* The file services of the unified BDOS: Open, Make, Close, Delete and    *)
(* Rename, sequential and random record transfer, extent rollover and      *)
(* block allocation, over the directories of several drives that share one *)
(* allocation vector.                                                      *)
(*                                                                         *)
(* A public call is atomic here: the BDOS is single-threaded and every     *)
(* directory change it makes is flushed before it returns.  What the BDOS  *)
(* does not control is the order of the calls: programs hold several open  *)
(* FCBs, change drives between two calls, run out of blocks or of          *)
(* directory entries in the middle of a call, and may stop without closing.*)
(*                                                                         *)
(* A call is a composition of the routines of the source.  Each of them is *)
(* an operator on a record m, the part of the state one call works on:     *)
(*   dir, data  directory and data area of the drive of the FCB            *)
(*   alv        blocks marked in the shared allocation vector              *)
(*   name, fcb  the caller's FCB                                           *)
(*   val        record a read delivered to the DMA address                 *)
(*   code       0, or the carry result of the routine that failed          *)
(*   quit       the routine left through UB_RETA, not to its caller        *)
(***************************************************************************)
EXTENDS FilePosition, FiniteSetsExt

CONSTANTS
    Drives,         \* logical drives
    Names,          \* file names
    Files,          \* the files in use: pairs of a drive and a name
    NSlots,         \* entries of a directory (DRM+1)
    DirBlocks,      \* blocks AL0/AL1 reserve for the directory
    DSM,            \* last block of a drive
    Values,         \* contents of a record
    Zero,           \* the record function 40 fills blocks with
    Blank,          \* the record formatting leaves everywhere
    RandomEnd,      \* random calls refuse this number and all above (65536)
    RandomRecs,     \* random record numbers that programs use
    Cautious        \* do programs avoid the two uses of an FCB that the
                    \* file services get wrong (see Read and Working)?

ASSUME FilesAssumption ==
    /\ 0 \in Drives /\ Drives \subseteq Nat
    /\ "none" \notin Names
    /\ Files \subseteq Drives \X Names
    /\ NSlots \in Nat \ {0}
    /\ DirBlocks \in Nat \ {0}
    /\ DSM \in Nat
    /\ DirBlocks <= DSM
    /\ {Zero, Blank} \subseteq Values
    /\ RandomEnd \in Nat /\ RandomEnd <= NS2 * NEX * RPE
    /\ RandomRecs \subseteq Nat
    /\ Cautious \in BOOLEAN

VARIABLES
    dir,        \* dir[d]: the directory of drive d, one entry per slot
    data,       \* data[d]: the records in the blocks of drive d
    ctx,        \* drive of the active context (UB_CTXDRV), or NoDrive
    alv,        \* blocks marked in the allocation vector of that context
    fcb,        \* fcb[f]: the FCB a program uses for file f
    open,       \* files whose FCB is in use
    out         \* what the last call returned to its program

vars == <<dir, data, ctx, alv, fcb, open, out>>

Slots      == 0 .. NSlots - 1
Reserved   == 0 .. DirBlocks - 1
DataBlocks == DirBlocks .. DSM
NoBlock    == 0
NoDrive    == -1
NoEntry    == [name |-> "none"]
NoMap      == [i \in Indexes |-> NoBlock]
Maps       == [Indexes -> {NoBlock} \cup DataBlocks]
Blocks     == [0 .. BLK - 1 -> Values]

Entries == [name : Names, ex : Extents, s2 : Modules, rc : 0 .. RPE, map : Maps]
FCBs    == [ex : Extents, s2 : Modules, clean : BOOLEAN, rc : 0 .. RPE,
            cr : 0 .. RPE, map : Maps]

\* The FCB a program prepares for Open and Make: all zero after the name.
FreshFCB == [ex |-> 0, s2 |-> 0, clean |-> FALSE, rc |-> 0, cr |-> 0, map |-> NoMap]

Codes == {0, 1, 2, 5, 6, 255}
NoCall == [op |-> "none", file |-> <<NoDrive, "none">>, rec |-> 0, code |-> 0, val |-> Zero]

-----------------------------------------------------------------------------
(* Directories and the allocation vector.                                  *)

Used(e) == {e.map[i] : i \in Indexes} \ {NoBlock}
Live(dd) == {i \in Slots : dd[i] # NoEntry}

\* UB_ALLOGIN: the vector is rebuilt from the directory of the drive.
Rebuilt(dd) == Reserved \cup UNION {Used(dd[i]) : i \in Live(dd)}

\* Mistake: the vector is not rebuilt when the drive changes.
StaleVector(d) == alv

\* UB_CONTEXT: a drive other than the active one is logged in again.
Vector(d) == IF ctx = d THEN alv ELSE Rebuilt(dir[d])

FreeBlocks(m) == (0 .. DSM) \ m.alv
FreeSlots(m)  == Slots \ Live(m.dir)

\* UB_OPENCORE: entries of the FCB's name, extent group and S2; the
\* iterator delivers the first.
Hits(dd, name, ex, s2) ==
    {i \in Slots : /\ dd[i].name = name
                   /\ dd[i].s2 = s2
                   /\ Group(dd[i].ex) = Group(ex)}
Found(m) == Hits(m.dir, m.name, m.fcb.ex, m.fcb.s2)
At(m)    == Min(Found(m))

-----------------------------------------------------------------------------
(* Routines shared by the calls.                                           *)

Carry(m, c) == [m EXCEPT !.code = c]
Quit(m, c)  == [m EXCEPT !.code = c, !.quit = TRUE]

\* UB_ACTIVATE: the entry becomes the FCB; EX stays the one asked for.
Activate(m) ==
    IF Found(m) = {} THEN Carry(m, 255)
    ELSE LET e == m.dir[At(m)] IN
         [m EXCEPT !.fcb = [@ EXCEPT !.rc = ActiveRC(e.ex, e.rc, m.fcb.ex),
                                     !.map = e.map, !.clean = TRUE]]

\* Mistake: a new block is published only by Close.
PublishMapLater(m) == m

\* UB_PUBLISH of FCB bytes 16..31: the map alone.
PublishMap(m) ==
    IF Found(m) = {} THEN Quit(m, 255)
    ELSE [m EXCEPT !.dir[At(m)].map = m.fcb.map]

\* UB_CCORE: bytes 12..31 of a changed FCB; a clean one is left alone.
CCore(m) ==
    IF m.fcb.clean THEN m
    ELSE IF Found(m) = {} THEN Quit(m, 255)
    ELSE [m EXCEPT !.dir[At(m)] = [@ EXCEPT !.ex = m.fcb.ex, !.s2 = m.fcb.s2,
                                            !.rc = m.fcb.rc, !.map = m.fcb.map],
                   !.fcb.clean = TRUE]

\* Mistake: the new entry starts with the map of the extent before it.
MkFreeOldMap(m) ==
    IF FreeSlots(m) = {} THEN Carry(m, 5)
    ELSE [m EXCEPT
            !.dir[Min(FreeSlots(m))] = [name |-> m.name, ex |-> m.fcb.ex,
                                        s2 |-> m.fcb.s2, rc |-> 0, map |-> m.fcb.map],
            !.fcb = [@ EXCEPT !.rc = 0, !.clean = TRUE]]

\* UB_MKFREE: the first free entry, with no records and no blocks.
MkFree(m) ==
    IF FreeSlots(m) = {} THEN Carry(m, 5)
    ELSE [m EXCEPT
            !.dir[Min(FreeSlots(m))] = [name |-> m.name, ex |-> m.fcb.ex,
                                        s2 |-> m.fcb.s2, rc |-> 0, map |-> NoMap],
            !.fcb = [@ EXCEPT !.rc = 0, !.map = NoMap, !.clean = TRUE]]

\* Mistake: an extent is made without a look at the free blocks.
ExtentUnchecked(m, writing) ==
    IF Found(m) # {} THEN Activate(m)
    ELSE IF ~writing THEN Carry(m, 255)
    ELSE MkFree(m)

\* UB_EXTENT: a missing extent is made only to write, and only while a
\* block is left for its data (UB_EXTMAKE).
Extent(m, writing) ==
    IF Found(m) # {} THEN Activate(m)
    ELSE IF ~writing THEN Carry(m, 255)
    ELSE IF FreeBlocks(m) = {} THEN Carry(m, 2)
    ELSE MkFree(m)

\* UB_NXOPEN: to the start of another extent, and UB_NXRETURN: back to the
\* end of the extent of FCB c, which includes its clean bit.
MoveTo(m, to) == [m EXCEPT !.fcb = [@ EXCEPT !.ex = to.ex, !.s2 = to.s2, !.cr = 0]]
GoBack(m, c)  == [m EXCEPT !.fcb = [@ EXCEPT !.ex = c.ex, !.s2 = c.s2,
                                             !.clean = c.clean, !.cr = RPE]]

\* Mistake: no end of the last extent of all.
NextExEndless(m, writing) ==
    LET closed == IF writing THEN CCore(m) ELSE m
    IN  Extent(MoveTo(closed, NextExtent(m.fcb.s2, m.fcb.ex)), writing)

\* UB_NEXTEX: close the extent being written, go to the next one.
NextEx(m, writing) ==
    LET closed == IF writing THEN CCore(m) ELSE m
        to     == NextExtent(m.fcb.s2, m.fcb.ex)
        next   == IF to.s2 = NS2 THEN Carry(closed, 5)
                                 ELSE Extent(MoveTo(closed, to), writing)
    IN  IF closed.quit THEN closed
        ELSE IF next.code = 0 THEN next ELSE GoBack(next, m.fcb)

\* UB_READCORE and UB_WCORE begin with the next extent if CR=128.
Rolled(m, writing) == IF m.fcb.cr = RPE THEN NextEx(m, writing) ELSE m

\* UB_RECMAP: the block of the record the FCB is at.
Index(m)  == MapIndex(m.fcb.ex, m.fcb.cr)
Block(m)  == m.fcb.map[Index(m)]
Offset(m) == BlockOffset(m.fcb.ex, m.fcb.cr)

\* UB_READCORE.
ReadCore(m) ==
    LET p == Rolled(m, FALSE)
    IN  IF p.code # 0 \/ p.fcb.cr >= p.fcb.rc THEN Carry(p, 1)
        ELSE IF Block(p) = NoBlock THEN Quit(p, 255)
        ELSE [p EXCEPT !.val = p.data[Block(p)][Offset(p)], !.fcb.cr = @ + 1]

\* UB_WALLOC .. UB_WZERO: the first free block goes to the vector, to the
\* FCB and to the directory; function 40 clears it before it is used.
Allocate(m, zero) ==
    IF FreeBlocks(m) = {} THEN Quit(m, 2)
    ELSE LET b == Min(FreeBlocks(m))
             p == PublishMap([m EXCEPT !.alv = @ \cup {b}, !.fcb.map[Index(m)] = b])
         IN  IF zero /\ ~p.quit
             THEN [p EXCEPT !.data[b] = [i \in 0 .. BLK - 1 |-> Zero]] ELSE p

\* Mistake: the record written becomes the last of the extent.
TransferLast(m, v) ==
    [m EXCEPT !.data[Block(m)][Offset(m)] = v,
              !.fcb = [m.fcb EXCEPT !.cr = @ + 1, !.rc = m.fcb.cr + 1, !.clean = FALSE]]

\* UB_WXFER, UB_WDONE: transfer the record and advance CR and RC.
Transfer(m, v) ==
    [m EXCEPT !.data[Block(m)][Offset(m)] = v,
              !.fcb = [m.fcb EXCEPT !.cr = @ + 1, !.rc = Max({@, m.fcb.cr + 1}),
                                    !.clean = FALSE]]

\* Mistake: function 40 writes the zeros once more instead of the record.
WCoreZeros(m, v, zero) ==
    LET p == Rolled(m, TRUE)
        a == IF Block(p) = NoBlock THEN Allocate(p, zero) ELSE p
    IN  IF p.quit THEN p
        ELSE IF p.code # 0 THEN Carry(p, p.code % 4)
        ELSE IF a.quit THEN a
        ELSE Transfer(a, IF zero /\ a # p THEN Zero ELSE v)

\* UB_WCORE.  The codes of a failed rollover are masked: 5 becomes 1.
WCore(m, v, zero) ==
    LET p == Rolled(m, TRUE)
        a == IF Block(p) = NoBlock THEN Allocate(p, zero) ELSE p
    IN  IF p.quit THEN p
        ELSE IF p.code # 0 THEN Carry(p, p.code % 4)
        ELSE IF a.quit THEN a
        ELSE Transfer(a, v)

\* UB_WRITE: a write that fills the extent prepares the next one, and
\* succeeds even if that cannot be done.
SequentialWrite(m, v) ==
    LET w == WCore(m, v, FALSE)
        n == NextEx(w, TRUE)
    IN  IF w.code = 0 /\ w.fcb.cr = RPE THEN IF n.quit THEN n ELSE Carry(n, 0)
        ELSE w

\* Mistake: any FCB with records counts as being at the target extent.
PositionAnywhere(m, r, writing) ==
    IF r >= RandomEnd THEN Quit(m, 6)
    ELSE IF m.fcb.rc # 0 THEN [m EXCEPT !.fcb.cr = Decode(r).cr]
    ELSE Extent([m EXCEPT !.fcb = [@ EXCEPT !.ex = Decode(r).ex, !.s2 = Decode(r).s2,
                                            !.cr = Decode(r).cr, !.clean = FALSE]], writing)

\* UB_RDECODE and the UB_EXTENT call of its callers.  A number with R2 # 0 is
\* refused, although sequential calls take a file further than that.  An FCB
\* with records that is at the target extent already is kept; any other is
\* closed, sent to the target extent and activated there.
Position(m, r, writing) ==
    LET to     == Decode(r)
        here   == m.fcb.rc # 0 /\ m.fcb.s2 = to.s2 /\ m.fcb.ex = to.ex
        closed == IF m.fcb.rc = 0 THEN m ELSE CCore(m)
    IN  IF r >= RandomEnd THEN Quit(m, 6)
        ELSE IF here THEN [m EXCEPT !.fcb.cr = to.cr]
        ELSE IF closed.quit THEN closed
        ELSE Extent([closed EXCEPT !.fcb = [@ EXCEPT !.ex = to.ex, !.s2 = to.s2,
                                                     !.cr = to.cr, !.clean = FALSE]],
                    writing)

\* UB_RRETURN: random transfers do not advance CR.
Return(m, r) == IF m.quit THEN m ELSE [m EXCEPT !.fcb.cr = r % RPE]

RandomRead(m, r) ==
    LET p == Position(m, r, FALSE)
    IN  IF p.quit THEN p ELSE IF p.code # 0 THEN Quit(p, 255)
        ELSE Return(ReadCore(p), r)

RandomWrite(m, r, v, zero) ==
    LET p == Position(m, r, TRUE)
    IN  IF p.code # 0 THEN p ELSE Return(WCore(p, v, zero), r)

-----------------------------------------------------------------------------
(* The public calls.                                                       *)

Drive(f) == f[1]
Name(f)  == f[2]

\* What a call on file f starts from: UB_FCTX has selected the drive.
Start(f, c) == [dir |-> dir[Drive(f)], data |-> data[Drive(f)], alv |-> Vector(Drive(f)),
                name |-> Name(f), fcb |-> c, val |-> Zero, code |-> 0, quit |-> FALSE]

\* The record a sequential call addresses.
Here(f) == ExtRec(fcb[f].s2, fcb[f].ex, fcb[f].cr)

\* The state after the call m, and what its program knows of it: the record
\* number r, the result, and x, the record a read delivered or the program
\* gave to a write.
Finish(f, op, r, m, x) ==
    /\ dir'  = [dir EXCEPT ![Drive(f)] = m.dir]
    /\ data' = [data EXCEPT ![Drive(f)] = m.data]
    /\ ctx'  = Drive(f)
    /\ alv'  = m.alv
    /\ out'  = [op |-> op, file |-> f, rec |-> r, code |-> m.code, val |-> x]

\* A call that gives the program an FCB, if it succeeds.
Opening(f, op, m) ==
    /\ Finish(f, op, 0, m, Zero)
    /\ IF m.code = 0 THEN fcb' = [fcb EXCEPT ![f] = m.fcb] /\ open' = open \cup {f}
                     ELSE UNCHANGED <<fcb, open>>

Open(f) == f \notin open /\ Opening(f, "open", Activate(Start(f, FreshFCB)))

\* Mistake: Make does not look for an entry that exists already.
MakeAnyway(f) == f \notin open /\ Opening(f, "make", MkFree(Start(f, FreshFCB)))

Make(f) ==
    /\ f \notin open
    /\ LET m    == Start(f, FreshFCB)
           made == MkFree(m)
       IN  Opening(f, "make",
                   IF Found(m) # {} \/ made.code # 0 THEN Quit(m, 255) ELSE made)

\* A call on an FCB in use.  A cautious program drops the FCB of a random
\* call that may have failed to activate its extent, and opens the file anew.
Working(f, op, r, m, x) ==
    LET kept == ~Cautious \/ op \notin {"rread", "rwrite"} \/ m.code \in {0, 1, 6}
    IN  /\ Finish(f, op, r, m, x)
        /\ fcb'  = [fcb EXCEPT ![f] = IF kept THEN m.fcb ELSE FreshFCB]
        /\ open' = IF kept THEN open ELSE open \ {f}

Close(f) == f \in open /\ Working(f, "close", 0, CCore(Start(f, fcb[f])), Zero)

\* A cautious program closes a changed FCB before it reads on into the next
\* extent: UB_NEXTEX closes the old one only when it is called to write.
Read(f) ==
    LET m == ReadCore(Start(f, fcb[f]))
    IN  /\ f \in open
        /\ Cautious => fcb[f].clean \/ fcb[f].cr < RPE
        /\ Working(f, "read", Here(f), m, m.val)
Write(f, v) ==
    f \in open /\ Working(f, "write", Here(f), SequentialWrite(Start(f, fcb[f]), v), v)
ReadAt(f, r) ==
    LET m == RandomRead(Start(f, fcb[f]), r)
    IN  f \in open /\ Working(f, "rread", r, m, m.val)
WriteAt(f, r, v, zero) ==
    f \in open /\ Working(f, "rwrite", r, RandomWrite(Start(f, fcb[f]), r, v, zero), v)

\* UB_DELETE: every extent of the name goes, then the vector is rebuilt.
Delete(f) ==
    LET m    == Start(f, FreshFCB)
        gone == {i \in Live(m.dir) : m.dir[i].name = m.name}
        rest == [i \in Slots |-> IF i \in gone THEN NoEntry ELSE m.dir[i]]
    IN  /\ f \notin open
        /\ Finish(f, "delete", 0, IF gone = {} THEN Quit(m, 255)
                                  ELSE [m EXCEPT !.dir = rest, !.alv = Rebuilt(rest)], Zero)
        /\ UNCHANGED <<fcb, open>>

\* UB_RENAME: every extent of the name gets the new name, if it is unused.
Rename(f, g) ==
    LET m     == Start(f, FreshFCB)
        hits  == {i \in Live(m.dir) : m.dir[i].name = m.name}
        taken == \E i \in Live(m.dir) : m.dir[i].name = Name(g)
    IN  /\ f \notin open /\ g \notin open /\ Drive(f) = Drive(g)
        /\ Finish(f, "rename", 0,
                  IF taken \/ hits = {} THEN Quit(m, 255)
                  ELSE [m EXCEPT !.dir = [i \in Slots |->
                                    IF i \in hits THEN [m.dir[i] EXCEPT !.name = Name(g)]
                                    ELSE m.dir[i]]], Zero)
        /\ UNCHANGED <<fcb, open>>

\* UB_SIZE: the end of the last extent, from the directory alone.
Size(f) ==
    LET m    == Start(f, FreshFCB)
        ends == {ExtRec(m.dir[i].s2, m.dir[i].ex, m.dir[i].rc) :
                   i \in {j \in Live(m.dir) : m.dir[j].name = m.name}}
    IN  /\ Finish(f, "size", IF ends = {} THEN 0 ELSE Max(ends),
                  IF ends = {} THEN Quit(m, 255) ELSE m, Zero)
        /\ UNCHANGED <<fcb, open>>

\* A program stops using an FCB without closing it.
Drop(f) ==
    /\ f \in open
    /\ fcb' = [fcb EXCEPT ![f] = FreshFCB] /\ open' = open \ {f} /\ out' = NoCall
    /\ UNCHANGED <<dir, data, ctx, alv>>

\* UB_SELECT and every other call that only needs the drive's context.
Select(d) ==
    /\ ctx' = d /\ alv' = Vector(d) /\ out' = NoCall
    /\ UNCHANGED <<dir, data, fcb, open>>

\* UB_RSTDRV: the next call on any drive logs it in again.
ResetDrive ==
    /\ ctx' = NoDrive /\ out' = NoCall
    /\ UNCHANGED <<dir, data, alv, fcb, open>>

\* UB_RESET, and the warm boot that ends every program: function 13, then
\* the drive that was selected before.
ResetDisks ==
    /\ ctx' = 0 /\ alv' = Rebuilt(dir[0]) /\ out' = NoCall
    /\ UNCHANGED <<dir, data, fcb, open>>

WarmBoot(d) ==
    /\ ctx' = d /\ alv' = Rebuilt(dir[d])
    /\ open' = {} /\ fcb' = [f \in Files |-> FreshFCB] /\ out' = NoCall
    /\ UNCHANGED <<dir, data>>

Init ==
    /\ dir  = [d \in Drives |-> [i \in Slots |-> NoEntry]]
    /\ data = [d \in Drives |-> [b \in DataBlocks |-> [i \in 0 .. BLK - 1 |-> Blank]]]
    /\ ctx  = 0
    /\ alv  = Reserved
    /\ fcb  = [f \in Files |-> FreshFCB]
    /\ open = {}
    /\ out  = NoCall

Call(f) ==
    \/ Open(f) \/ Make(f) \/ Close(f) \/ Delete(f) \/ Size(f) \/ Drop(f) \/ Read(f)
    \/ \E v \in Values : Write(f, v)
    \/ \E r \in RandomRecs : ReadAt(f, r)
    \/ \E r \in RandomRecs, v \in Values, zero \in BOOLEAN : WriteAt(f, r, v, zero)
    \/ \E g \in Files : Rename(f, g)

Next ==
    \/ \E f \in Files : Call(f)
    \/ \E d \in Drives : Select(d) \/ WarmBoot(d)
    \/ ResetDrive \/ ResetDisks

Spec == Init /\ [][Next]_vars

-----------------------------------------------------------------------------
(* Properties.                                                             *)

TypeOK ==
    /\ dir \in [Drives -> [Slots -> Entries \cup {NoEntry}]]
    /\ data \in [Drives -> [DataBlocks -> Blocks]]
    /\ ctx \in Drives \cup {NoDrive}
    /\ alv \in SUBSET (0 .. DSM)
    /\ fcb \in [Files -> FCBs]
    /\ open \in SUBSET Files

\* No block of a drive belongs to two places: to two entries of its
\* directory or to two elements of one map.
NoCrossLinks ==
    \A d \in Drives : \A i, j \in Live(dir[d]) : \A p, q \in Indexes :
        dir[d][i].map[p] = dir[d][j].map[q] /\ dir[d][i].map[p] # NoBlock
            => i = j /\ p = q

\* The shared vector never shows as free a block that the directory of the
\* active drive owns: the next allocation cannot take it.
VectorCoversDirectory ==
    ctx # NoDrive => Rebuilt(dir[ctx]) \subseteq alv

\* The map in the FCB of a program is the map of the directory entry the
\* FCB is at.  The vector may therefore be rebuilt, for another drive and
\* back, while the file is open and unclosed.
OpenMapsPublished ==
    \A f \in open :
        \E i \in Hits(dir[Drive(f)], Name(f), fcb[f].ex, fcb[f].s2) :
            dir[Drive(f)][i].map = fcb[f].map

\* Two entries of a name never describe the same group of extents: which
\* one Open finds does not depend on their order in the directory.
ExtentsDistinct ==
    \A d \in Drives : \A i \in Live(dir[d]) :
        Hits(dir[d], dir[d][i].name, dir[d][i].ex, dir[d][i].s2) = {i}
=============================================================================
