----------------------------- MODULE CarrierCache -----------------------------
(***************************************************************************)
(* R3CACHE, the worker that keeps on drive A, user 0 a copy of the carrier *)
(* of every resident module, in files with a few fixed names.  Which of    *)
(* these files are in use is recorded only in memory: the last word of a   *)
(* module's allocation, its footer, holds the number of its file and the   *)
(* checksum of the carrier.  The worker finds the footers by walking the   *)
(* chain of the resident modules.                                          *)
(***************************************************************************)
EXTENDS ResidentCommit

CONSTANTS
    Slots,      \* numbers of the cache files
    Versions,   \* different carriers of one name; stands for the checksum
    MaxLive     \* most modules of a profile

ASSUME CacheAssumption ==
    /\ MaxLive \in 0 .. 15 /\ Slots = 0 .. MaxLive
    /\ Versions \subseteq 0 .. 15 /\ Versions # {}

VARIABLES
    files,      \* A0: the cache files
    source      \* the carrier that the user's disc holds for each name

cacheVars == <<files, source>>

\* What a cache file may be: missing; someone else's; empty, which is what a
\* new file is until it has been closed; or written by the worker, with the
\* carrier's name and version in its wrapper, whole or cut short.
Absent == [kind |-> "absent"]
Foreign == [kind |-> "foreign"]
Empty == [kind |-> "empty"]
Carrier(n, v) == [kind |-> "carrier", name |-> n, ver |-> v, whole |-> TRUE]
CutShort(n, v) == [kind |-> "carrier", name |-> n, ver |-> v, whole |-> FALSE]
FileKinds == {Absent, Foreign, Empty} \cup
             {Carrier(n, v) : n \in Names, v \in Versions} \cup
             {CutShort(n, v) : n \in Names, v \in Versions}

\* The header words of a live image behind the two chain words: the offset
\* of the service descriptors, which end the allocation here, and then
\* normally the entry.
DescOffset == 2
EntryOffset == 3

\* A footer: file number and checksum.
Footer(slot, v) == slot + 16 * v
SlotOf(w) == w % 16
VersionOf(w) == w \div 16

\* FOOTLOC and ADVANCE: the walk reads whatever lies where it expects the
\* chain; memory outside the model reads as 0.
Word(a) == IF a \in Addr THEN mem[a] ELSE 0
FootOf(base) == Word(base + Word(base + DescOffset) - 1)
Walk == LET base[k \in 1 .. Len(pub.names)] ==
              IF k = 1 THEN pub.head ELSE Word(base[k - 1]) - EntryOffset
        IN base

\* Mistake: only the first module is looked at.
IsLiveHead(s) == Walk # <<>> /\ SlotOf(FootOf(Walk[1])) = s

\* ISLIVE
IsLive(s) == \E k \in DOMAIN Walk : SlotOf(FootOf(Walk[k])) = s

\* OPEN, with the checks that NEXT and VERIFY make on the way to the end.
Matches(f, k) ==
    /\ f.kind = "carrier"
    /\ f.name = pub.names[k]
    /\ f.ver = VersionOf(FootOf(Walk[k]))
CachedFile(k) == LET s == SlotOf(FootOf(Walk[k])) IN IF s \in Slots THEN files[s] ELSE Absent

\* Mistake: files that were cut short are not recognized.
ReclaimableWhole(s) == ~IsLive(s) /\ files[s].kind = "carrier" /\ files[s].whole

\* CLEAN, for file s: only the worker's own files that no footer names.
Reclaimable(s) == ~IsLive(s) /\ files[s].kind = "carrier"
Clean(s) == files' = IF Reclaimable(s) THEN [files EXCEPT ![s] = Absent] ELSE files
\* It stops at an error of a read, a close or a Delete.
CleanError(s) == ~IsLive(s) /\ files[s] # Absent /\ UNCHANGED files

\* Mistake: RESERVE does not try whether the file exists.
UsableAnyway(s) == ~IsLive(s)

\* RESERVE: a file that exists is never written.
Usable(s) == ~IsLive(s) /\ files[s] = Absent
Reserve(s, n, v) == Usable(s) /\ files' = [files EXCEPT ![s] = Carrier(n, v)]
\* Make, a write or the close fails; WRITEFAIL deletes the file again or,
\* when that fails too, leaves what has been written.
ReserveError(s, n, v) ==
    /\ ~IsLive(s)
    /\ \/ UNCHANGED files
       \/ Usable(s) /\ \E f \in {Empty, CutShort(n, v), Carrier(n, v)} :
            files' = [files EXCEPT ![s] = f]
=============================================================================
