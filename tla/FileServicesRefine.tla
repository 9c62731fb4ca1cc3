------------------------- MODULE FileServicesRefine -------------------------
(***************************************************************************)
(* FileServices implements RecordFiles.  The contents of a file are read   *)
(* off the directory, the FCBs in use and the data area; the allocation    *)
(* vector, the active drive and the slots of the directory are hidden.     *)
(***************************************************************************)
EXTENDS FileServices

\* The records of one extent: below its record count, in a block of the map.
Shown(d, ex, s2, rc, map) ==
    {<<ExtRec(s2, ex, c), data[d][map[MapIndex(ex, c)]][BlockOffset(ex, c)]>> :
        c \in {k \in 0 .. rc - 1 : map[MapIndex(ex, k)] # NoBlock}}

EntriesOf(f) == {i \in Slots : dir[Drive(f)][i].name = Name(f)}

Kept(f) ==
    UNION {LET e == dir[Drive(f)][i]
           IN  UNION {Shown(Drive(f), x, e.s2, ActiveRC(e.ex, e.rc, x), e.map) :
                        x \in {y \in Extents : Group(y) = Group(e.ex)}} :
             i \in EntriesOf(f)}

\* A program sees the extent its FCB is at through the FCB.
Text(f) ==
    LET c    == fcb[f]
        here == ExtRec(c.s2, c.ex, 0) .. ExtRec(c.s2, c.ex, RPE - 1)
    IN  IF f \in open THEN {p \in Kept(f) : p[1] \notin here}
                             \cup Shown(Drive(f), c.ex, c.s2, c.rc, c.map)
        ELSE Kept(f)

Abstract == INSTANCE RecordFiles WITH
    Recs    <- Records,
    present <- {f \in Files : EntriesOf(f) # {}},
    text    <- [f \in Files |-> Text(f)],
    kept    <- [f \in Files |-> Kept(f)]

\* Every call does to the records of the files what RecordFiles says and
\* nothing else, whatever blocks, extents and drives it goes through.
ImplementsRecordFiles == Abstract!Spec

\* No call but Delete and Rename makes a record that a fresh Open could
\* read disappear.
PublishedRecordsStay ==
    [][out'.op \notin {"delete", "rename"} =>
         \A f \in Files :
             Abstract!Numbers(Kept(f)) \subseteq Abstract!Numbers(Kept(f)')]_vars

\* A random call succeeds only on the record it names: in the extent of
\* that record, at a block which that extent owns.
RandomTransfersAddressed ==
    [][\A f \in open : \A r \in RandomRecs :
         out' = [out' EXCEPT !.file = f, !.rec = r, !.code = 0] /\ out'.op \in {"rread", "rwrite"} =>
           LET at == Decode(r)
               i  == MapIndex(at.ex, at.cr)
           IN  \E e \in Hits(dir[Drive(f)], Name(f), at.ex, at.s2)' :
                   dir'[Drive(f)][e].map[i] = fcb'[f].map[i]]_vars

\* A failed write does not lengthen the file: function 35 reports no more
\* than the records that were there, published or in the FCB.
DirEnd(f) == Max({0} \cup {ExtRec(dir[Drive(f)][i].s2, dir[Drive(f)][i].ex,
                                  dir[Drive(f)][i].rc) : i \in EntriesOf(f)})
FailedWriteKeepsSize ==
    [][\A f \in open :
         out'.file = f /\ out'.op \in {"write", "rwrite"} /\ out'.code # 0 =>
           DirEnd(f)' <= Max({DirEnd(f), ExtRec(fcb[f].s2, fcb[f].ex, fcb[f].rc)})]_vars
=============================================================================
