---------------------------- MODULE ResidentChange ----------------------------
(***************************************************************************)
(* A change of the resident profile (function 177): the request goes       *)
(* through R3ENTRY, which reclaims cache files; R3COORD, which reads and   *)
(* caches the carrier to be loaded; R3PROF or R3DROP, which read the       *)
(* headers of the resident modules' cached carriers and plan the new       *)
(* layout; R3KEEP and R3KPRE, which read these carriers in full and        *)
(* prepare their modules; R3FINAL and the commit; and, after it, a second  *)
(* reclaiming of cache files.  A disk error refuses the change, and ^C at  *)
(* a disk error abandons it in a warm boot.                                *)
(***************************************************************************)
EXTENDS CarrierCache, SequencesExt

CONSTANTS
    Class,          \* name -> reconstruction class
    Size,           \* name -> version -> allocation, with the footer's page
    EntryAt,        \* name -> offset of the module's entry
    ScratchLow,     \* the caller's workspace: snapshots lie in
    ScratchHigh,    \*   ScratchLow .. ScratchHigh - 1,
    Bound,          \*   and every image must lie at Bound or above
    Rebuilt,        \* names of the carriers that the user replaces
    Foreigners,     \* cache file names that the user has taken
    MaxFaults       \* bound: disk calls that fail or are interrupted

ASSUME ChangeAssumption ==
    /\ {ScratchLow, ScratchHigh, Bound, MaxFaults} \subseteq Nat
    /\ 10 <= Room      \* RF_MAXUNION: there is room for the longest slot list
    /\ 0 < ScratchLow /\ ScratchLow <= ScratchHigh /\ ScratchHigh <= Bound
    /\ Bound <= Ceiling /\ Ceiling < EmptyTop /\ EmptyTop < Space
    /\ Rebuilt \subseteq Names /\ Foreigners \subseteq Slots

\* An image has the header words, at least one datum and the footer.
ASSUME ModuleAssumption ==
    /\ Class \in [Names -> {Stateless, Stateful, ColdOnly}]
    /\ Size \in [Names -> [Versions -> Nat \ 0 .. EntryOffset + 2]]
    /\ EntryAt \in [Names -> Nat]

VARIABLES
    op,     \* the request
    sizes,  \* the allocations that the cached headers give
    free,   \* first free cell of the scratch memory
    faults  \* disk calls that have failed

changeVars == <<op, sizes, free, faults>>
vars == <<commitVars, cacheVars, changeVars>>

NoOp == [kind |-> "none"]
Len0 == Len(pub.names)

\* A module's image for base b, as R3SNAP builds it: no chain words yet, a
\* word at EntryOffset that points to the last data word, the data, the footer.
DataAt(n, v) == Size[n][v] - 2
Image(n, v, slot, b) ==
    [o \in 0 .. Size[n][v] - 1 |->
        IF o < LoaderWords THEN 0
        ELSE IF o = DescOffset THEN Size[n][v]
        ELSE IF o = EntryOffset THEN b + DataAt(n, v)
        ELSE IF o = Size[n][v] - 1 THEN Footer(slot, v)
        ELSE v]
Put(m, at, img) == [a \in Addr |-> IF a - at \in DOMAIN img THEN img[a - at] ELSE m[a]]

-----------------------------------------------------------------------------
(* A change from its request to the place of the carrier in the cache *)

Fault == faults < MaxFaults /\ faults' = faults + 1

\* RV_LOAD, RV_UNLOAD, RV_RETIRE: requests that change nothing end here.
Start ==
    /\ stage = "idle"
    /\ \/ \E n \in Names \ Range(pub.names) :
            Len0 < MaxLive /\ op' = [kind |-> "load", name |-> n]
       \/ \E i \in 1 .. Len0, k \in {"unload", "retire"} : op' = [kind |-> k, at |-> i]
    /\ stage' = "clean" /\ idx' = 0
    /\ UNCHANGED <<mem, plan, names, moved, cursor, pub, mem0, cacheVars, sizes, free, faults>>

\* CLEAN before the preparation and after the publication.
CleanFile ==
    /\ stage \in {"clean", "sweep"} /\ idx \in Slots
    /\ Clean(idx)
    /\ idx' = idx + 1
    /\ UNCHANGED <<mem, plan, names, stage, moved, cursor, pub, mem0, source, changeVars>>

\* Before, an error refuses the change; afterwards it only ends the cleaning.
CleanFails ==
    /\ Fault /\ stage \in {"clean", "sweep"} /\ idx \in Slots
    /\ CleanError(idx)
    /\ stage' = "idle"
    /\ UNCHANGED <<mem, plan, names, idx, moved, cursor, pub, mem0, source, op, sizes, free>>

\* FINISH copies the prefetched resolver and returns.
Finish ==
    /\ stage = "sweep" /\ idx \notin Slots
    /\ stage' = "idle"
    /\ UNCHANGED <<mem, plan, names, idx, moved, cursor, pub, mem0, cacheVars, changeVars>>

\* R3COORD reads the carrier to be loaded; a removal goes on with R3DROP.
Cleaned ==
    /\ stage = "clean" /\ idx \notin Slots
    /\ IF op.kind = "load"
         THEN stage' = "reserve" /\ idx' = 0
         ELSE stage' = "scan" /\ idx' = 1
    /\ sizes' = <<>>
    /\ UNCHANGED <<mem, plan, names, moved, cursor, pub, mem0, cacheVars, op, free, faults>>

\* RESERVE tries the files one after the other.
NextSlot ==
    /\ stage = "reserve" /\ idx \in Slots /\ ~Usable(idx)
    /\ idx' = idx + 1
    /\ UNCHANGED <<mem, plan, names, stage, moved, cursor, pub, mem0, cacheVars, changeVars>>

TakeSlot ==
    /\ stage = "reserve" /\ idx \in Slots
    /\ Reserve(idx, op.name, source[op.name])
    /\ op' = [kind |-> "load", name |-> op.name, ver |-> source[op.name], slot |-> idx]
    /\ stage' = "scan" /\ idx' = 1
    /\ UNCHANGED <<mem, plan, names, moved, cursor, pub, mem0, source, sizes, free, faults>>

SlotFails ==
    /\ stage = "reserve"
    /\ \/ Fault /\ idx \in Slots /\ ReserveError(idx, op.name, source[op.name])
       \/ idx \notin Slots /\ UNCHANGED <<files, faults>>
    /\ stage' = "idle"
    /\ UNCHANGED <<mem, plan, names, idx, moved, cursor, pub, mem0, source, op, sizes, free>>

-----------------------------------------------------------------------------
(* The plan *)

\* PF_SCAN and RD_SCAN: one resident module's allocation, from the header of
\* its cached carrier.
ScanHeader ==
    /\ stage = "scan" /\ idx <= Len0
    /\ LET f == CachedFile(idx) IN
        IF Matches(f, idx)
          THEN sizes' = Append(sizes, Size[f.name][f.ver]) /\ idx' = idx + 1 /\ stage' = stage
          ELSE stage' = "idle" /\ UNCHANGED <<sizes, idx>>
    /\ UNCHANGED <<mem, plan, names, moved, cursor, pub, mem0, cacheVars, op, free, faults>>

\* The profile asked for: for each module its index in the old one, or 0.
Kept == IF op.kind = "load" THEN [i \in 1 .. Len0 + 1 |-> IF i <= Len0 THEN i ELSE 0]
        ELSE [i \in 1 .. Len0 - 1 |-> IF i < op.at THEN i ELSE i + 1]
NewName(i) == IF Kept[i] = 0 THEN op.name ELSE pub.names[Kept[i]]
NewSize(i) == IF Kept[i] = 0 THEN Size[op.name][op.ver] ELSE sizes[Kept[i]]

\* RPL_WALK: the bases of these allocations, counted from the top.
Bases(alloc, n) == LET b[i \in 0 .. n] == IF i = 0 THEN Ceiling ELSE b[i - 1] - alloc[i] IN b
NewBases == Bases([i \in DOMAIN Kept |-> NewSize(i)], Len(Kept))

\* Mistake: the old base is noted before the allocation is subtracted.
OldBasesBefore == [k \in 1 .. Len0 |-> Bases(sizes, Len0)[k - 1]]

OldBases == Bases(sizes, Len0)

\* RPL_CLASSIFY: a STATELESS module is always loaded afresh; a COLD_ONLY one
\* may only stay where it is.
PlanRecord(i) ==
    LET n == NewName(i)
        retained == Kept[i] # 0 /\ Class[n] # Stateless
    IN [old |-> IF retained THEN OldBases[Kept[i]] ELSE 0, new |-> NewBases[i],
        size |-> NewSize(i), class |-> Class[n], src |-> 0, disp |-> 0, slots |-> <<>>]
Layout == [i \in DOMAIN Kept |-> PlanRecord(i)]
Plannable ==
    /\ \A i \in DOMAIN NewBases : NewBases[i] >= ScratchHigh
    /\ \A i \in DOMAIN Layout : Layout[i].class = ColdOnly /\ Layout[i].old # 0
                                    => Layout[i].old = Layout[i].new

\* RPL_ENTRY, and for a load the candidate's snapshot (PF_PREP), which must
\* fit the scratch memory.
Candidate(i) == [Layout[i] EXCEPT !.src = ScratchLow, !.disp = EntryAt[op.name]]
\* Mistake: only the beginning of the snapshot is compared with the limit.
FitsBegin(at, size) == at <= ScratchHigh

Fits(at, size) == at + size <= ScratchHigh
Plan ==
    /\ stage = "scan" /\ idx = Len0 + 1
    /\ LET last == Len(Kept)
           ok == Plannable /\ (op.kind = "load" => Fits(ScratchLow, NewSize(last)))
       IN IF ~ok THEN stage' = "idle" /\ UNCHANGED <<mem, plan, names, idx, free, faults>>
          ELSE /\ stage' = "keep" /\ idx' = 1
               /\ names' = [i \in DOMAIN Kept |-> NewName(i)]
               /\ IF op.kind = "load"
                    THEN /\ plan' = [Layout EXCEPT ![last] = Candidate(last)]
                         /\ mem' = Put(mem, ScratchLow,
                                       Image(op.name, op.ver, op.slot, NewBases[last]))
                         /\ free' = ScratchLow + NewSize(last)
                    ELSE plan' = Layout /\ mem' = mem /\ free' = ScratchLow
    /\ UNCHANGED <<moved, cursor, pub, mem0, cacheVars, op, sizes, faults>>

-----------------------------------------------------------------------------
(* The retained modules *)

\* Mistake: a STATEFUL module's entry is not noted.
PreparedNoEntry(r, f) ==
    CASE r.class = Stateful  -> [r EXCEPT !.slots = <<EntryOffset>>]
      [] r.class = Stateless -> [r EXCEPT !.src = free, !.disp = EntryAt[f.name]]
      [] OTHER               -> r

\* KP_ENTRY: the whole carrier is read again, with its checksum; it must
\* still give what the plan was made from.  R3KPRE notes a STATEFUL module's
\* pointer slots and builds a STATELESS module's snapshot, with the footer
\* words that PACK copies from the live one.
Prepared(r, f) ==
    CASE r.class = Stateful  -> [r EXCEPT !.slots = <<EntryOffset>>, !.disp = EntryAt[f.name]]
      [] r.class = Stateless -> [r EXCEPT !.src = free, !.disp = EntryAt[f.name]]
      [] OTHER               -> r
Keepable(r, f, k) ==
    /\ Matches(f, k) /\ f.whole
    /\ r.size = Size[f.name][f.ver] /\ r.class = Class[f.name]
    /\ r.class = Stateless => Fits(free, r.size)

Remaining == idx \in DOMAIN Kept /\ Kept[idx] # 0
Keep ==
    /\ stage = "keep" /\ Remaining
    /\ LET r == plan[idx]
           k == Kept[idx]
           f == CachedFile(k)
       IN IF ~Keepable(r, f, k) THEN stage' = "idle" /\ UNCHANGED <<mem, plan, idx, free, faults>>
          ELSE /\ plan' = [plan EXCEPT ![idx] = Prepared(r, f)]
               /\ IF r.class = Stateless
                    THEN /\ mem' = Put(mem, free, Image(f.name, f.ver,
                                                        SlotOf(FootOf(Walk[k])), r.new))
                         /\ free' = free + r.size
                    ELSE UNCHANGED <<mem, free, faults>>
               /\ idx' = idx + 1 /\ stage' = stage
    /\ UNCHANGED <<names, moved, cursor, pub, mem0, cacheVars, op, sizes, faults>>

\* RF_BOUND and the handoff to the commit.
Finalize ==
    /\ stage = "keep" /\ ~Remaining
    /\ IF \A i \in Recs : plan[i].new >= Bound
         THEN stage' = "check" /\ cursor' = Top
         ELSE stage' = "idle" /\ UNCHANGED cursor
    /\ mem0' = mem /\ idx' = 1
    /\ UNCHANGED <<mem, plan, names, moved, pub, cacheVars, changeVars>>

-----------------------------------------------------------------------------
(* The commit, and what may happen at any time *)

Commit == CommitNext /\ UNCHANGED <<cacheVars, changeVars>>

\* RC_GENOK and RT_CONT: a module that retires itself cannot get a return and
\* ends in a warm boot; otherwise the files are cleaned once more.  A refused
\* request ends at once.
Return ==
    /\ stage \in {"published", "refused"}
    /\ stage' = IF stage = "published" /\ op.kind # "retire" THEN "sweep" ELSE "idle"
    /\ idx' = 0
    /\ UNCHANGED <<mem, plan, names, moved, cursor, pub, mem0, cacheVars, changeVars>>

\* A read fails, or the operator answers a disk error with ^C.
Preparing == stage \in {"clean", "reserve", "scan", "keep", "sweep"}
Interrupted ==
    /\ Fault /\ Preparing
    /\ stage' = "idle"
    /\ \/ UNCHANGED files
       \/ stage = "reserve" /\ idx \in Slots /\ Usable(idx)
            /\ files' = [files EXCEPT ![idx] = Empty]
    /\ UNCHANGED <<mem, plan, names, idx, moved, cursor, pub, mem0, source, op, sizes, free>>

\* A module works: a datum changes, and the pointer word is set to something
\* outside the module.
RunModule ==
    /\ stage = "idle"
    /\ \E k \in 1 .. Len0 :
        LET b == Walk[k]
            n == pub.names[k]
            v == VersionOf(FootOf(b))
        IN mem' = [mem EXCEPT ![b + DataAt(n, v)] = 0, ![b + EntryOffset] = 0]
    /\ UNCHANGED <<plan, names, stage, idx, moved, cursor, pub, mem0, cacheVars, changeVars>>

\* The user builds another version of a carrier.
Rebuild ==
    /\ stage = "idle"
    /\ \E n \in Rebuilt, v \in Versions : source' = [source EXCEPT ![n] = v]
    /\ UNCHANGED <<commitVars, files, changeVars>>

Init ==
    /\ mem = [a \in Addr |-> 0] /\ mem0 = mem
    /\ plan = <<>> /\ names = <<>> /\ stage = "idle" /\ idx = 0 /\ moved = 0
    /\ cursor = EmptyTop
    /\ pub = [head |-> 0, low |-> EmptyTop, names |-> <<>>]
    /\ files = [s \in Slots |-> IF s \in Foreigners THEN Foreign ELSE Absent]
    /\ source = [n \in Names |-> Min(Versions)]
    /\ op = NoOp /\ sizes = <<>> /\ free = ScratchLow /\ faults = 0

Next ==
    \/ Start \/ CleanFile \/ CleanFails \/ Cleaned
    \/ NextSlot \/ TakeSlot \/ SlotFails
    \/ ScanHeader \/ Plan \/ Keep \/ Finalize
    \/ Commit \/ Return \/ Finish
    \/ Interrupted \/ RunModule \/ Rebuild

Spec == Init /\ [][Next]_vars

-----------------------------------------------------------------------------
(* Properties *)

Stages == CommitStages \cup {"idle", "clean", "reserve", "scan", "keep", "sweep"}
\* A move has begun and the profile is not published yet.
Changing == stage \in {"move", "copy", "link"}

\* One type invariant for the whole change.
TypeOK ==
    /\ mem \in [Addr -> Int] /\ mem0 \in [Addr -> Int]
    /\ plan \in Seq(Record) /\ names \in Seq(Names)
    /\ stage \in Stages /\ idx \in Nat /\ moved \in Nat /\ cursor \in Nat
    /\ pub.head \in Nat /\ pub.low \in Nat /\ Len0 <= MaxLive
    /\ IsInjective(pub.names) /\ Range(pub.names) \subseteq Names
    /\ files \in [Slots -> FileKinds] /\ source \in [Names -> Versions]
    /\ sizes \in Seq(Nat) /\ free \in ScratchLow .. ScratchHigh

\* The true places of the resident modules in memory m, from the chain and
\* the offsets of the entries, and what their footers say.
BaseIn(m, k) ==
    LET base[j \in 1 .. k] ==
            IF j = 1 THEN pub.head ELSE m[base[j - 1]] - EntryAt[pub.names[j]]
    IN base[k]
FooterIn(m, k) == LET b == BaseIn(m, k) IN m[b + m[b + DescOffset] - 1]

\* While modules are resident, the file of each of them is in place and is
\* the carrier it was loaded from: no change, no cleaning and no disk error
\* takes it away, so every later change can still be prepared.
LiveCarriersKept ==
    ~Changing => \A k \in 1 .. Len0 :
        LET w == FooterIn(mem, k)
        IN SlotOf(w) \in Slots /\ files[SlotOf(w)] = Carrier(pub.names[k], VersionOf(w))

\* A file that is not the worker's own, or that a module uses, is neither
\* deleted nor written.
OnlyOrphansReclaimed ==
    [][\A s \in Slots : files'[s] # files[s] /\ files[s] # Absent =>
            /\ files[s].kind = "carrier"
            /\ \A k \in 1 .. Len0 : SlotOf(FooterIn(mem, k)) # s]_vars

\* A load finds no file only when every file is in use, someone else's, or
\* was left empty by a change that broke off: the cleaning has reclaimed
\* whatever else failures, refusals and removed modules have left behind.
OnlyUsedSlotsTaken ==
    stage = "reserve" /\ idx \notin Slots =>
        \A s \in Slots :
            \/ files[s].kind \in {"foreign", "empty"}
            \/ \E k \in 1 .. Len0 : SlotOf(FooterIn(mem, k)) = s

\* The requests that reach the commit are those that its proofs assume.
PlansAreSound == stage = "check" => RequestSound /\ SlotsSound

\* The commit accepts every request that has been prepared.
PreparedCommits == stage # "refused"

\* The contents of module n, version v, with its pointer word made relative.
Relative(w, b, size) == IF b <= w /\ w < b + size THEN w - b ELSE -1
Contents(m, b, n, v) ==
    [o \in DescOffset .. DataAt(n, v) |->
        IF o = EntryOffset THEN Relative(m[b + o], b, Size[n][v]) ELSE m[b + o]]
Template(n, v) == [o \in DescOffset .. DataAt(n, v) |-> Image(n, v, 0, 0)[o]]
PossibleContents(n, v) ==
    {[Template(n, v) EXCEPT ![EntryOffset] = p, ![DataAt(n, v)] = d] :
        p \in {DataAt(n, v), -1}, d \in {0, v}}
IsStateful(n) == Class[n] # Stateless

\* The profile as its users see it: a change takes effect when it is published.
Seen == IF Changing \/ stage = "check" THEN mem0 ELSE mem
ProfileSeen ==
    [k \in 1 .. Len0 |->
        LET n == pub.names[k]
            v == VersionOf(FooterIn(Seen, k))
        IN [name |-> n, ver |-> v, holds |-> Contents(Seen, BaseIn(Seen, k), n, v)]]

Profile == INSTANCE ResidentProfile WITH
    profile <- ProfileSeen, Keeps <- IsStateful, Initial <- Template, Contents <- PossibleContents

\* The change of a profile is one step of the abstract one, whatever fails.
ImplementsProfile == Profile!Spec
=============================================================================
