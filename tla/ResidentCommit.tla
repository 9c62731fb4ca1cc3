---------------------------- MODULE ResidentCommit ---------------------------
(***************************************************************************)
(* The disk-free half of a change of the resident profile: R3COMIT, the    *)
(* move scheduler RSXSCHED, the mover RSXMOVER and the publisher R3PST.    *)
(*                                                                         *)
(* The resident modules lie packed below the resolver.  A prepared request *)
(* says for every module of the new profile where its image is now (or     *)
(* where a ready snapshot of it lies in scratch memory) and where it has   *)
(* to be.  The commit validates the request, moves the live images, copies *)
(* the snapshots, rebuilds the chain words and publishes the profile.      *)
(*                                                                         *)
(* Memory is a function from addresses to words; a module's cells 0 and 1  *)
(* hold the entry of the next module and its own entry, which the loader   *)
(* owns.  One address stands for one word of the real memory.              *)
(***************************************************************************)
EXTENDS Integers, Sequences

CONSTANTS
    Space,      \* size of the address space
    Ceiling,    \* where the resident modules end: the resolver's slot
    EmptyTop,   \* low limit of an empty profile: the resolver's slot is freed
    Core,       \* the BDOS entry that ends the chain
    Room,       \* RS_CAP: bytes of scratch memory for a request to the mover
    Names       \* names of resident modules

Addr == 0 .. Space - 1

ASSUME SpaceAssumption ==
    /\ Space \in Nat
    /\ Ceiling \in Addr
    /\ EmptyTop \in Addr
    /\ Core \in Int
    /\ Room \in Nat

\* Reconstruction classes of a carrier; STATE_PRESERVING (2) is refused.
Stateless == 0
Stateful == 1
ColdOnly == 3

\* The words at the beginning of an image that the loader owns.
LoaderWords == 2

\* One record of a request: the movement record of the plan (old, new, size,
\* class), its snapshot descriptor (src, disp) and its pointer slots.  An old
\* base or a snapshot address 0 means that there is none.
Record == [old : Nat, new : Nat, size : Nat, class : Nat,
           src : Nat, disp : Nat, slots : Seq(Nat)]

VARIABLES
    mem,    \* memory
    plan,   \* the request: a sequence of records, from the top downward
    names,  \* the profile that the request prepares: a name per record
    stage,  \* what the commit does next
    idx,    \* RC_INDEX, RS_INDEX: the record at hand
    moved,  \* cells of the record at hand that the mover has copied
    cursor, \* RC_CURSOR: new base of the last validated record
    pub,    \* the published profile: chain head, low limit, names
    mem0    \* history: memory when the request was made

commitVars == <<mem, plan, names, stage, idx, moved, cursor, pub, mem0>>

N == Len(plan)
Recs == 1 .. N
Region(base, size) == base .. base + size - 1
Disjoint(b, m, c, n) == b + m <= c \/ c + n <= b

\* RC_MAYLIVE: a retained STATEFUL or COLD_ONLY image is used where it is.
Live(r) == r.class \in {Stateful, ColdOnly} /\ r.old # 0
\* RS_EXEC: only retained STATEFUL images are moved.
Moves(r) == r.class = Stateful /\ r.old # 0 /\ r.old # r.new

\* RC_NODST: the snapshot lies outside every destination and every retained
\* image.
Apart(r) ==
    \A j \in Recs :
        /\ plan[j].new + plan[j].size < Space
        /\ Disjoint(r.src, r.size, plan[j].new, plan[j].size)
        /\ plan[j].old # 0 =>
            /\ plan[j].old + plan[j].size < Space
            /\ Disjoint(r.src, r.size, plan[j].old, plan[j].size)

\* RC_VLOOP for one record.
RecordOK(r) ==
    /\ r.size # 0
    /\ r.class \in {Stateless, Stateful, ColdOnly}
    /\ r.new + r.size = cursor
    /\ r.disp >= LoaderWords /\ r.disp < r.size
    /\ IF Live(r)
         THEN r.src = 0
         ELSE r.src # 0 /\ r.src + r.size < Space /\ Apart(r)

\* RS_VSLOTS: the request for the mover has eight bytes and two for each slot.
HasRoom(r) == 2 * Len(r.slots) + 8 <= Room

\* RS_VLOOP: the moves stay in memory, their slots fit the scratch memory, and
\* all go the same way.
Upward(r) == r.old < r.new
Schedulable ==
    /\ \A i \in Recs : Moves(plan[i]) =>
            /\ plan[i].old + plan[i].size < Space
            /\ plan[i].new + plan[i].size < Space
            /\ HasRoom(plan[i])
    /\ \A i, j \in Recs : Moves(plan[i]) /\ Moves(plan[j]) =>
            (Upward(plan[i]) <=> Upward(plan[j]))

\* RS_DIRECTION = 2: images move down, the last record first.
Down == \E i \in Recs : Moves(plan[i]) /\ ~Upward(plan[i])
FirstMove == IF Down THEN N ELSE 1
LastMove == IF Down THEN 1 ELSE N

\* Mistake: the image is moved without its pointers.
RepairedNever(r, o, w) == w

\* RM_REPAIR: a slot word is adjusted when it points into the old allocation.
Pointers(r) == {r.slots[k] : k \in DOMAIN r.slots}
Repaired(r, o, w) ==
    IF o \in Pointers(r) /\ r.old <= w /\ w < r.old + r.size
      THEN w - r.old + r.new ELSE w

-----------------------------------------------------------------------------
(* The actions, in the order of the code *)

Check ==
    /\ stage = "check" /\ idx <= N
    /\ IF RecordOK(plan[idx])
         THEN idx' = idx + 1 /\ cursor' = plan[idx].new /\ stage' = stage
         ELSE stage' = "refused" /\ UNCHANGED <<idx, cursor>>
    /\ UNCHANGED <<mem, plan, names, moved, pub, mem0>>

\* The scheduler validates every move before the first one.
Schedule ==
    /\ stage = "check" /\ idx = N + 1
    /\ IF Schedulable
         THEN /\ stage' = IF N = 0 THEN "copy" ELSE "move"
              /\ idx' = IF N = 0 THEN 1 ELSE FirstMove
              /\ moved' = 0
         ELSE stage' = "refused" /\ UNCHANGED <<idx, moved>>
    /\ UNCHANGED <<mem, plan, names, cursor, pub, mem0>>

\* RS_NEXT: from record i to the next one, or to the snapshots.
NextMove(i) ==
    /\ moved' = 0
    /\ IF i = LastMove THEN stage' = "copy" /\ idx' = 1
       ELSE stage' = stage /\ idx' = IF Down THEN i - 1 ELSE i + 1

\* Mistake: every image is copied from its low end.
OffsetUp(r) == moved

\* Mistake: the backward copy begins behind the image.
OffsetPast(r) == IF Upward(r) THEN r.size - moved ELSE moved

\* RM_COPY and RM_BACK: from the low end when the image goes down, from the
\* high end when it goes up.
Offset(r) == IF Upward(r) THEN r.size - 1 - moved ELSE moved

\* RM_VLOOP: the slots are words of the image, each behind the one before.
SlotsOK(r) ==
    \A k \in DOMAIN r.slots :
        r.slots[k] < r.size /\ (k > 1 => r.slots[k - 1] < r.slots[k])

\* The mover looks at an image's slots when its turn comes: a refusal here
\* (RM_BAD, RS_BAD, RC_BAD) leaves the earlier images at their new places.
MoveCell ==
    /\ stage = "move" /\ Moves(plan[idx]) /\ moved < plan[idx].size
    /\ LET r == plan[idx] IN
        IF moved = 0 /\ ~SlotsOK(r)
          THEN stage' = "refused" /\ UNCHANGED <<mem, moved>>
          ELSE /\ mem' = [mem EXCEPT ![r.new + Offset(r)] = mem[r.old + Offset(r)]]
               /\ moved' = moved + 1 /\ stage' = stage
    /\ UNCHANGED <<plan, names, idx, cursor, pub, mem0>>

Repair ==
    /\ stage = "move" /\ Moves(plan[idx]) /\ moved = plan[idx].size
    /\ LET r == plan[idx] IN
        mem' = [a \in Addr |-> IF a \in Region(r.new, r.size)
                                 THEN Repaired(r, a - r.new, mem[a]) ELSE mem[a]]
    /\ NextMove(idx)
    /\ UNCHANGED <<plan, names, cursor, pub, mem0>>

SkipMove ==
    /\ stage = "move" /\ ~Moves(plan[idx])
    /\ NextMove(idx)
    /\ UNCHANGED <<mem, plan, names, cursor, pub, mem0>>

CopySnapshot ==
    /\ stage = "copy" /\ idx <= N
    /\ LET r == plan[idx] IN
        mem' = IF r.src = 0 THEN mem
               ELSE [a \in Addr |-> IF a \in Region(r.new, r.size)
                                      THEN mem[r.src + (a - r.new)] ELSE mem[a]]
    /\ idx' = idx + 1
    /\ UNCHANGED <<plan, names, stage, moved, cursor, pub, mem0>>

\* Mistake: the first link is skipped.
CopiedLate ==
    /\ stage = "copy" /\ idx = N + 1
    /\ stage' = "link" /\ idx' = 2
    /\ UNCHANGED <<mem, plan, names, moved, cursor, pub, mem0>>

Copied ==
    /\ stage = "copy" /\ idx = N + 1
    /\ stage' = "link" /\ idx' = 1
    /\ UNCHANGED <<mem, plan, names, moved, cursor, pub, mem0>>

\* RC_LINKS: the module's own entry, and the entry of the next one.
Entry(i) == IF i > N THEN Core ELSE plan[i].new + plan[i].disp
Link ==
    /\ stage = "link" /\ idx <= N
    /\ mem' = [mem EXCEPT ![plan[idx].new] = Entry(idx + 1),
                          ![plan[idx].new + 1] = Entry(idx)]
    /\ idx' = idx + 1
    /\ UNCHANGED <<plan, names, stage, moved, cursor, pub, mem0>>

\* RC_PUBLISH and RT_ENTRY: nothing runs between these stores and the one of
\* the generation count that ends them.
Publish ==
    /\ stage = "link" /\ idx = N + 1
    /\ pub' = [head |-> IF N = 0 THEN 0 ELSE plan[1].new,
               low |-> IF N = 0 THEN EmptyTop ELSE cursor,
               names |-> names]
    /\ stage' = "published"
    /\ UNCHANGED <<mem, plan, names, idx, moved, cursor, mem0>>

CommitNext ==
    \/ Check \/ Schedule
    \/ MoveCell \/ Repair \/ SkipMove
    \/ CopySnapshot \/ Copied
    \/ Link \/ Publish

-----------------------------------------------------------------------------
(* The commit by itself: any request whose retained images lie packed below *)
(* the ceiling, in the order of the records.                                *)

\* What the planner guarantees of a request (rsxplan.mac, rsxslots.mac).
RequestSound ==
    /\ \A i \in Recs : plan[i].old # 0 => plan[i].old + plan[i].size < Space
    /\ \A i, j \in Recs : i < j /\ plan[i].old # 0 /\ plan[j].old # 0
                            => plan[j].old + plan[j].size <= plan[i].old
    /\ \A i \in Recs : plan[i].class = ColdOnly /\ plan[i].old # 0
                            => plan[i].old = plan[i].new

Top == IF N = 0 THEN EmptyTop ELSE Ceiling

CommitInit ==
    /\ mem \in [Addr -> Int] /\ mem0 = mem
    /\ plan \in Seq(Record) /\ RequestSound
    /\ names \in Seq(Names)
    /\ stage = "check" /\ idx = 1 /\ moved = 0 /\ cursor = Top
    /\ pub \in [head : Int, low : Int, names : Seq(Names)]

CommitSpec == CommitInit /\ [][CommitNext]_commitVars

-----------------------------------------------------------------------------
(* Properties *)

CommitStages == {"check", "move", "copy", "link", "published", "refused"}

CommitTypeOK ==
    /\ mem \in [Addr -> Int] /\ mem0 \in [Addr -> Int]
    /\ plan \in Seq(Record)
    /\ names \in Seq(Names)
    /\ stage \in CommitStages
    /\ idx \in Nat /\ moved \in Nat /\ cursor \in Nat
    /\ pub \in [head : Int, low : Int, names : Seq(Names)]

\* What a module's image must be after the commit: the old one with the
\* pointers into itself adjusted, or the prepared snapshot.
Expected(r, o) ==
    IF Live(r) THEN IF Moves(r) THEN Repaired(r, o, mem0[r.old + o]) ELSE mem0[r.old + o]
    ELSE mem0[r.src + o]

\* When the profile is published, every image is complete at its new place,
\* although images overlap their own destination and each other's.
ImagesIntact ==
    stage = "published" =>
        \A i \in Recs : \A o \in LoaderWords .. plan[i].size - 1 :
            mem[plan[i].new + o] = Expected(plan[i], o)

\* The published chain leads from the head through the modules' entries, in
\* order, to the core.
ChainIntact ==
    stage = "published" =>
        /\ N # 0 => pub.head = plan[1].new /\ pub.low = plan[N].new
        /\ \A i \in Recs : mem[plan[i].new + 1] = Entry(i) /\ mem[plan[i].new] = Entry(i + 1)

\* What RSXSLOTS makes (SU_VALID, SU_MERGE): the mover's own check passes.
SlotsSound == \A i \in Recs : Moves(plan[i]) => SlotsOK(plan[i])

\* A refused request has changed nothing: the commit and the scheduler find
\* every fault before the first cell moves, but for a slot list that RSXSLOTS
\* does not make, which the mover finds when other images may have moved.
RefusedUntouched ==
    /\ stage = "check" => mem = mem0
    /\ stage = "refused" /\ SlotsSound => mem = mem0

\* A commit changes only the places of the new profile's images.
OnlyImagesChange ==
    stage \in CommitStages =>
        \A a \in Addr : (\A i \in Recs : a \notin Region(plan[i].new, plan[i].size))
                            => mem[a] = mem0[a]
=============================================================================
