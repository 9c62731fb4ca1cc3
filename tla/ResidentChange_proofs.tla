------------------------ MODULE ResidentChange_proofs ------------------------
(***************************************************************************)
(* Proofs about whole changes of the resident profile, for any names,      *)
(* sizes, numbers of modules, faults and orders of requests: the carriers  *)
(* of resident modules stay, the requests handed to the commit are sound   *)
(* and are accepted, and a change is one step of the profile.              *)
(***************************************************************************)
EXTENDS ResidentChange, ResidentCommit_proofs, WellFoundedInduction, SequenceTheorems

\* The code takes every module's entry to follow the two chain words and the
\* descriptor offset (r3cache.mac, ADVANCE).
Regular == \A n \in Names : EntryAt[n] = EntryOffset

-----------------------------------------------------------------------------
(* The invariant.  A layout says for each resident module where it is,     *)
(* from which carrier it was loaded, and which file holds that.            *)

Layouts == [1 .. Len0 -> [base : Nat, ver : Versions, slot : Slots]]
SizeIn(L, k) == Size[pub.names[k]][L[k].ver]
LowIn(L) == IF Len0 = 0 THEN Ceiling ELSE L[Len0].base

\* The words of a resident image of module n: its pointer is as loaded or
\* leads out of the module, its first datum as loaded or changed.
Looks(m, b, n, v, s) ==
    /\ m[b + DescOffset] = Size[n][v]
    /\ m[b + EntryOffset] \in {0, b + DataAt(n, v)}
    /\ m[b + DataAt(n, v)] \in {0, v}
    /\ m[b + Size[n][v] - 1] = Footer(s, v)
    /\ \A o \in EntryOffset + 1 .. DataAt(n, v) - 1 : m[b + o] = v

\* The modules lie packed below the ceiling in memory m, each names the next,
\* and the file of each is in place.
Resident(m, L) ==
    /\ pub.head = IF Len0 = 0 THEN 0 ELSE L[1].base
    /\ \A k \in 1 .. Len0 :
        /\ Looks(m, L[k].base, pub.names[k], L[k].ver, L[k].slot)
        /\ files[L[k].slot] = Carrier(pub.names[k], L[k].ver)
        /\ Bound <= L[k].base
        /\ L[k].base + SizeIn(L, k) = IF k = 1 THEN Ceiling ELSE L[k - 1].base
        /\ k < Len0 => m[L[k].base] = L[k + 1].base + EntryOffset

Working == {"scan", "keep", "check", "move", "copy", "link"}
Planning == Working \ {"scan"}

\* The request.
Requested ==
    /\ stage \in Working \cup {"clean", "reserve"} =>
        \/ op.kind = "load" /\ op.name \in Names \ Range(pub.names) /\ Len0 < MaxLive
        \/ op.kind \in {"unload", "retire"} /\ op.at \in 1 .. Len0
    /\ stage = "reserve" => op.kind = "load"
    /\ stage \in Working /\ op.kind = "load" =>
        op.ver \in Versions /\ op.slot \in Slots /\ files[op.slot] = Carrier(op.name, op.ver)

\* The allocations read so far are those of the layout.
Scanned(L) ==
    /\ stage = "reserve" => sizes = <<>>
    /\ stage = "scan" => idx = Len(sizes) + 1 /\ Len(sizes) <= Len0
    /\ stage \in Planning => Len(sizes) = Len0
    /\ stage \in Working => \A k \in 1 .. Len(sizes) : sizes[k] = SizeIn(L, k)

\* Module i of the profile asked for: its carrier, its file and its place.
VerIn(L, i) == IF Kept[i] = 0 THEN op.ver ELSE L[Kept[i]].ver
SlotIn(L, i) == IF Kept[i] = 0 THEN op.slot ELSE L[Kept[i]].slot
PlaceIn(L, i) ==
    IF op.kind = "load"
      THEN IF i <= Len0 THEN L[i].base ELSE LowIn(L) - Size[op.name][op.ver]
      ELSE IF i < op.at THEN L[i].base ELSE L[i + 1].base + SizeIn(L, op.at)

\* A record of the plan, and what its preparation has added.
PlannedRecord(L, i) ==
    LET r == plan[i]
        n == NewName(i)
    IN /\ r.new = PlaceIn(L, i) /\ r.size = Size[n][VerIn(L, i)] /\ r.class = Class[n]
       /\ r.old = IF Kept[i] # 0 /\ Class[n] # Stateless THEN L[Kept[i]].base ELSE 0
       /\ Kept[i] # 0 /\ Class[n] # Stateless => r.src = 0
       /\ Kept[i] # 0 /\ Class[n] = ColdOnly => r.disp = 0 /\ r.new = r.old
PreparedRecord(L, i) ==
    LET r == plan[i]
        n == NewName(i)
    IN IF Kept[i] # 0 /\ Class[n] # Stateless
         THEN Class[n] = Stateful => r.disp = EntryOffset /\ r.slots = <<EntryOffset>>
         ELSE /\ r.disp = EntryOffset
              /\ ScratchLow <= r.src /\ r.src + r.size <= ScratchHigh
              /\ stage = "keep" => r.src + r.size <= free
              /\ \A o \in 0 .. r.size - 1 :
                    Seen[r.src + o] = Image(n, VerIn(L, i), SlotIn(L, i), r.new)[o]

IsPrepared(i) == stage = "keep" => Kept[i] = 0 \/ i < idx
Planned(L) ==
    stage \in Planning =>
        /\ Len(plan) = Len(Kept) /\ names = [i \in DOMAIN Kept |-> NewName(i)]
        /\ \A i \in DOMAIN Kept :
            /\ PlannedRecord(L, i)
            /\ IsPrepared(i) => PreparedRecord(L, i)
            /\ IF stage = "keep" THEN ScratchHigh <= plan[i].new ELSE Bound <= plan[i].new
        /\ stage = "keep" => idx \in 1 .. Len(Kept) + 1

\* What the cleaning has reclaimed, and what RESERVE has passed.
Cleaned1(L, s) == files[s].kind = "carrier" => \E k \in 1 .. Len0 : L[k].slot = s
Passed(L) ==
    /\ stage \in {"clean", "sweep"} => idx \in 0 .. MaxLive + 1
    /\ stage = "clean" => \A s \in Slots : s < idx => Cleaned1(L, s)
    /\ stage = "reserve" =>
        /\ idx \in 0 .. MaxLive + 1
        /\ \A s \in Slots : Cleaned1(L, s)
        /\ \A s \in Slots : s < idx => files[s] # Absent

LayoutInv(L) == Resident(Seen, L) /\ Scanned(L) /\ Planned(L) /\ Passed(L)

ChangeInv ==
    /\ TypeOK
    /\ pub \in [head : Int, low : Int, names : Seq(Names)]
    /\ stage # "move" => moved = 0
    /\ stage \in CommitStages => IInv
    /\ Requested
    /\ \E L \in Layouts : LayoutInv(L)

-----------------------------------------------------------------------------
(* Induction over data: a set of natural numbers has a least element.       *)

LEMMA LeastNat ==
    ASSUME NEW T, T \subseteq Nat, T # {}
    PROVE  \E x \in T : \A y \in T : x <= y
<1>1. IsWellFoundedOn(OpToRel(<, Nat), Nat)
  BY NatLessThanWellFounded
<1>2. \E x \in T : \A y \in T : ~(<<y, x>> \in OpToRel(<, Nat))
  BY <1>1, WFMin
<1>3. \A x, y \in T : ~(<<y, x>> \in OpToRel(<, Nat)) => x <= y
  BY DEF OpToRel
<1> QED
  BY <1>2, <1>3

\* A set of numbers that has 1 and with each number below n the next one.
LEMMA UpTo ==
    ASSUME NEW n \in Nat, NEW T,
           n > 0 => 1 \in T,
           \A k \in 1 .. n : k < n /\ k \in T => k + 1 \in T
    PROVE  1 .. n \subseteq T
<1> SUFFICES ASSUME NEW x \in 1 .. n, x \notin T PROVE FALSE
  OBVIOUS
<1> DEFINE M == {k \in 1 .. n : k \notin T}
<1>1. PICK y \in M : \A z \in M : y <= z
  <2>1. M \subseteq Nat /\ M # {}
    OBVIOUS
  <2> QED
    BY <2>1, LeastNat
<1>2. y \in 1 .. n /\ y \notin T /\ y # 1
  BY <1>1
<1>3. y - 1 \in 1 .. n /\ y - 1 < n /\ y - 1 \notin M
  BY <1>1, <1>2
<1>4. y - 1 \in T
  BY <1>3
<1>5. y - 1 + 1 \in T
  BY <1>3, <1>4
<1> QED
  BY <1>2, <1>5

\* The same for sets that begin with 0.
LEMMA From0 ==
    ASSUME NEW n \in Nat, NEW T, 0 \in T,
           \A k \in 1 .. n : k - 1 \in T => k \in T
    PROVE  0 .. n \subseteq T
<1>1. n > 0 => 1 \in T
  <2> SUFFICES ASSUME n > 0 PROVE 1 \in T
    OBVIOUS
  <2>1. 1 \in 1 .. n /\ 1 - 1 = 0
    OBVIOUS
  <2> QED
    BY <2>1
<1>2. \A k \in 1 .. n : k < n /\ k \in T => k + 1 \in T
  <2> SUFFICES ASSUME NEW k \in 1 .. n, k < n, k \in T PROVE k + 1 \in T
    OBVIOUS
  <2>1. k + 1 \in 1 .. n /\ (k + 1) - 1 = k
    OBVIOUS
  <2> QED
    BY <2>1
<1>3. 1 .. n \subseteq T
  BY <1>1, <1>2, UpTo
<1> QED
  BY <1>3

-----------------------------------------------------------------------------
(* Layouts.                                                                 *)

LEMMA FooterParts ==
    ASSUME NEW s \in 0 .. 15, NEW v \in Nat
    PROVE  SlotOf(Footer(s, v)) = s /\ VersionOf(Footer(s, v)) = v
  BY DEF SlotOf, VersionOf, Footer

LEMMA Numbers ==
    /\ Space \in Nat /\ Ceiling \in Nat /\ EmptyTop \in Nat /\ Bound \in Nat
    /\ ScratchLow \in Nat /\ ScratchHigh \in Nat
    /\ 0 < ScratchLow /\ ScratchLow <= ScratchHigh /\ ScratchHigh <= Bound
    /\ Bound <= Ceiling /\ Ceiling < EmptyTop /\ EmptyTop < Space
    /\ Versions \subseteq Nat /\ Slots \subseteq 0 .. 15 /\ MaxLive \in Nat /\ Slots = 0 .. MaxLive
  BY SpaceAssumption, ChangeAssumption, CacheAssumption DEF Addr

LEMMA Sizes ==
    ASSUME NEW n \in Names, NEW v \in Versions
    PROVE  /\ Size[n][v] \in Nat /\ Size[n][v] >= 6
           /\ DataAt(n, v) = Size[n][v] - 2
           /\ Class[n] \in {Stateless, Stateful, ColdOnly}
<1>1. Size[n] \in [Versions -> Nat \ 0 .. EntryOffset + 2] /\ Class[n] \in {Stateless, Stateful, ColdOnly}
  BY ModuleAssumption
<1>2. Size[n][v] \in Nat \ 0 .. 5
  BY <1>1 DEF EntryOffset
<1> QED
  BY <1>1, <1>2 DEF DataAt

\* The published profile's parts.
PubType == pub \in [head : Int, low : Int, names : Seq(Names)] /\ Len0 <= MaxLive

LEMMA LayoutParts ==
    ASSUME PubType, NEW L \in Layouts, NEW k \in 1 .. Len0
    PROVE  /\ Len0 \in Nat /\ k \in Nat /\ pub.names[k] \in Names
           /\ L[k].base \in Nat /\ L[k].ver \in Versions /\ L[k].slot \in Slots
           /\ SizeIn(L, k) = Size[pub.names[k]][L[k].ver]
           /\ SizeIn(L, k) \in Nat /\ SizeIn(L, k) >= 6
           /\ DataAt(pub.names[k], L[k].ver) = SizeIn(L, k) - 2
<1>1. Len0 \in Nat /\ pub.names[k] \in Names
  BY DEF PubType, Len0
<1>2. L[k] \in [base : Nat, ver : Versions, slot : Slots]
  BY DEF Layouts
<1> QED
  BY <1>1, <1>2, Sizes DEF SizeIn

\* Packed from the ceiling, the modules lie in order and in memory.
LEMMA Stacked ==
    ASSUME PubType, NEW m, NEW L \in Layouts, Resident(m, L)
    PROVE  /\ \A k \in 1 .. Len0 : L[k].base + SizeIn(L, k) <= Ceiling
           /\ \A i, j \in 1 .. Len0 : i < j => L[j].base + SizeIn(L, j) <= L[i].base
           /\ \A k \in 1 .. Len0 : LowIn(L) <= L[k].base
           /\ LowIn(L) \in Nat /\ Bound <= LowIn(L) /\ LowIn(L) <= Ceiling
<1>1. Len0 \in Nat
  BY DEF PubType, Len0
<1>2. \A k \in 1 .. Len0 :
        /\ L[k].base \in Nat /\ SizeIn(L, k) \in Nat /\ SizeIn(L, k) >= 6
        /\ L[k].base + SizeIn(L, k) = IF k = 1 THEN Ceiling ELSE L[k - 1].base
        /\ Bound <= L[k].base
  BY LayoutParts DEF Resident
<1>3. \A k \in 1 .. Len0 : k < Len0 => L[k + 1].base + SizeIn(L, k + 1) = L[k].base
  <2> SUFFICES ASSUME NEW k \in 1 .. Len0, k < Len0
               PROVE  L[k + 1].base + SizeIn(L, k + 1) = L[k].base
    OBVIOUS
  <2>1. k + 1 \in 1 .. Len0 /\ k + 1 # 1 /\ k + 1 - 1 = k
    BY <1>1
  <2> QED
    BY <1>2, <2>1
<1>4. \A k \in 1 .. Len0 : L[k].base + SizeIn(L, k) <= Ceiling
  <2> DEFINE T == {k \in 1 .. Len0 : L[k].base + SizeIn(L, k) <= Ceiling}
  <2>1. Len0 > 0 => 1 \in T
    BY <1>1, <1>2, Numbers
  <2>2. \A k \in 1 .. Len0 : k < Len0 /\ k \in T => k + 1 \in T
    <3> SUFFICES ASSUME NEW k \in 1 .. Len0, k < Len0, k \in T PROVE k + 1 \in T
      OBVIOUS
    <3>1. k + 1 \in 1 .. Len0
      BY <1>1
    <3> QED
      BY <1>2, <1>3, <3>1, Numbers
  <2>3. 1 .. Len0 \subseteq T
    <3> HIDE DEF T
    <3> QED
      BY <1>1, <2>1, <2>2, UpTo
  <2> QED
    BY <2>3
<1>5. \A i, j \in 1 .. Len0 : i < j => L[j].base + SizeIn(L, j) <= L[i].base
  <2> SUFFICES ASSUME NEW i \in 1 .. Len0
               PROVE  \A j \in 1 .. Len0 : i < j => L[j].base + SizeIn(L, j) <= L[i].base
    OBVIOUS
  <2> DEFINE T == {j \in 1 .. Len0 : i < j => L[j].base + SizeIn(L, j) <= L[i].base}
  <2>1. Len0 > 0 => 1 \in T
    BY <1>1
  <2>2. \A k \in 1 .. Len0 : k < Len0 /\ k \in T => k + 1 \in T
    <3> SUFFICES ASSUME NEW k \in 1 .. Len0, k < Len0, k \in T PROVE k + 1 \in T
      OBVIOUS
    <3>1. k + 1 \in 1 .. Len0
      BY <1>1
    <3>2. CASE i = k
      BY <1>2, <1>3, <3>1, <3>2
    <3>3. CASE i < k
      BY <1>2, <1>3, <3>1, <3>3
    <3>4. CASE k < i
      BY <3>1, <3>4
    <3> QED
      BY <3>2, <3>3, <3>4
  <2>3. 1 .. Len0 \subseteq T
    <3> HIDE DEF T
    <3> QED
      BY <1>1, <2>1, <2>2, UpTo
  <2> QED
    BY <2>3
<1>6. LowIn(L) \in Nat /\ Bound <= LowIn(L) /\ LowIn(L) <= Ceiling
  <2>1. CASE Len0 = 0
    BY <2>1, Numbers DEF LowIn
  <2>2. CASE Len0 # 0
    <3>1. Len0 \in 1 .. Len0
      BY <1>1, <2>2
    <3> QED
      BY <1>2, <1>4, <2>2, <3>1, Numbers DEF LowIn
  <2> QED
    BY <2>1, <2>2
<1>7. \A k \in 1 .. Len0 : LowIn(L) <= L[k].base
  <2> SUFFICES ASSUME NEW k \in 1 .. Len0 PROVE LowIn(L) <= L[k].base
    OBVIOUS
  <2>1. Len0 # 0 /\ Len0 \in 1 .. Len0 /\ LowIn(L) = L[Len0].base
    BY <1>1 DEF LowIn
  <2>2. k # Len0 => L[Len0].base + SizeIn(L, Len0) <= L[k].base
    BY <1>1, <1>5, <2>1
  <2> QED
    BY <1>2, <2>1, <2>2
<1> QED
  BY <1>4, <1>5, <1>6, <1>7

-----------------------------------------------------------------------------
(* The walks over the chain find the modules of the layout.                 *)

\* The footer of a module tells its file and its carrier.
LEMMA FooterRead ==
    ASSUME PubType, NEW m, NEW L \in Layouts, Resident(m, L), NEW k \in 1 .. Len0
    PROVE  /\ m[L[k].base + DescOffset] = SizeIn(L, k)
           /\ m[L[k].base + SizeIn(L, k) - 1] = Footer(L[k].slot, L[k].ver)
           /\ SlotOf(Footer(L[k].slot, L[k].ver)) = L[k].slot
           /\ VersionOf(Footer(L[k].slot, L[k].ver)) = L[k].ver
<1>1. Looks(m, L[k].base, pub.names[k], L[k].ver, L[k].slot)
  BY DEF Resident
<1>2. L[k].slot \in 0 .. 15 /\ L[k].ver \in Nat
  BY LayoutParts, Numbers
<1> QED
  BY <1>1, <1>2, FooterParts DEF Looks, SizeIn

\* Every cell of a resident module is a cell of memory.
LEMMA ResidentCells ==
    ASSUME PubType, NEW m, NEW L \in Layouts, Resident(m, L), NEW k \in 1 .. Len0,
           NEW o \in 0 .. SizeIn(L, k) - 1
    PROVE  /\ L[k].base + o \in Addr /\ Bound <= L[k].base + o
           /\ L[k].base + o < Ceiling
<1>1. L[k].base + SizeIn(L, k) <= Ceiling /\ Bound <= L[k].base
  BY Stacked DEF Resident
<1>2. L[k].base \in Nat /\ SizeIn(L, k) \in Nat
  BY LayoutParts
<1> QED
  BY <1>1, <1>2, Numbers DEF Addr

\* The walk of the cache worker (ADVANCE, ISLIVE).
LEMMA WalkFinds ==
    ASSUME PubType, NEW L \in Layouts, Resident(mem, L)
    PROVE  /\ Walk = [k \in 1 .. Len0 |-> L[k].base]
           /\ \A k \in 1 .. Len0 : FootOf(Walk[k]) = Footer(L[k].slot, L[k].ver)
<1> DEFINE F == [k \in 1 .. Len0 |-> L[k].base]
           Next1(f) == [k \in 1 .. Len0 |-> IF k = 1 THEN pub.head ELSE Word(f[k - 1]) - EntryOffset]
<1>1. Len0 \in Nat /\ Len0 = Len(pub.names)
  BY DEF PubType, Len0
<1>2. \A k \in 1 .. Len0 : k # 1 => Word(F[k - 1]) - EntryOffset = F[k]
  <2> SUFFICES ASSUME NEW k \in 1 .. Len0, k # 1 PROVE Word(F[k - 1]) - EntryOffset = F[k]
    OBVIOUS
  <2>1. k - 1 \in 1 .. Len0 /\ k - 1 < Len0 /\ k - 1 + 1 = k
    BY <1>1
  <2>2. mem[L[k - 1].base] = L[k].base + EntryOffset
    BY <2>1 DEF Resident
  <2>3. L[k - 1].base \in Addr
    BY <2>1, ResidentCells, LayoutParts
  <2>4. L[k].base \in Nat
    BY LayoutParts
  <2> QED
    BY <2>1, <2>2, <2>3, <2>4 DEF Word, EntryOffset
<1>3. Len0 > 0 => pub.head = F[1]
  BY <1>1 DEF Resident
<1>4. F = Next1(F)
  <2>1. \A k \in 1 .. Len0 : F[k] = Next1(F)[k]
    <3> SUFFICES ASSUME NEW k \in 1 .. Len0
                 PROVE  F[k] = IF k = 1 THEN pub.head ELSE Word(F[k - 1]) - EntryOffset
      OBVIOUS
    <3>1. CASE k = 1
      BY <1>1, <1>3, <3>1
    <3>2. CASE k # 1
      BY <1>2, <3>2
    <3> QED
      BY <3>1, <3>2
  <2> QED
    BY <2>1
<1>5. Walk = Next1(Walk)
  BY <1>1, <1>4 DEF Walk
<1>6. 1 .. Len0 \subseteq {k \in 1 .. Len0 : Walk[k] = F[k]}
  <2> DEFINE T == {k \in 1 .. Len0 : Walk[k] = F[k]}
  <2>1. Len0 > 0 => 1 \in T
    BY <1>1, <1>3, <1>5
  <2>2. \A k \in 1 .. Len0 : k < Len0 /\ k \in T => k + 1 \in T
    <3> SUFFICES ASSUME NEW k \in 1 .. Len0, k < Len0, k \in T PROVE k + 1 \in T
      OBVIOUS
    <3>1. k + 1 \in 1 .. Len0 /\ k + 1 # 1 /\ k + 1 - 1 = k
      BY <1>1
    <3>2. Walk[k + 1] = Word(Walk[k]) - EntryOffset
      BY <1>5, <3>1
    <3>3. Walk[k] = F[k]
      OBVIOUS
    <3>4. Word(F[k]) - EntryOffset = F[k + 1]
      <4> HIDE DEF F
      <4> QED
        BY <1>2, <3>1
    <3> QED
      BY <3>1, <3>2, <3>3, <3>4
  <2>3. 1 .. Len0 \subseteq T
    <3> HIDE DEF T
    <3> QED
      BY <1>1, <2>1, <2>2, UpTo
  <2> QED
    BY <2>3
<1>7. Walk = F
  <2>1. DOMAIN Walk = 1 .. Len0 /\ Walk = [k \in DOMAIN Walk |-> Walk[k]]
    BY <1>5
  <2> QED
    BY <1>6, <2>1
<1>8. \A k \in 1 .. Len0 : FootOf(L[k].base) = Footer(L[k].slot, L[k].ver)
  <2> SUFFICES ASSUME NEW k \in 1 .. Len0 PROVE FootOf(L[k].base) = Footer(L[k].slot, L[k].ver)
    OBVIOUS
  <2>1. SizeIn(L, k) \in Nat /\ SizeIn(L, k) >= 6 /\ L[k].base \in Nat
    BY LayoutParts
  <2>2. L[k].base + DescOffset \in Addr
    BY <2>1, ResidentCells DEF DescOffset
  <2>3. L[k].base + (SizeIn(L, k) - 1) \in Addr
    BY <2>1, ResidentCells
  <2>4. L[k].base + SizeIn(L, k) - 1 = L[k].base + (SizeIn(L, k) - 1)
    BY <2>1
  <2> QED
    BY <2>2, <2>3, <2>4, FooterRead DEF FootOf, Word
<1> QED
  BY <1>7, <1>8

\* Which files are in use.
LEMMA LiveFiles ==
    ASSUME PubType, NEW L \in Layouts, Resident(mem, L), NEW s
    PROVE  /\ DOMAIN Walk = 1 .. Len0
           /\ \A k \in 1 .. Len0 : SlotOf(FootOf(Walk[k])) = L[k].slot /\ VersionOf(FootOf(Walk[k])) = L[k].ver
           /\ IsLive(s) <=> \E k \in 1 .. Len0 : L[k].slot = s
<1>1. DOMAIN Walk = 1 .. Len0
  BY WalkFinds
<1>2. \A k \in 1 .. Len0 : SlotOf(FootOf(Walk[k])) = L[k].slot /\ VersionOf(FootOf(Walk[k])) = L[k].ver
  BY WalkFinds, FooterRead
<1> QED
  BY <1>1, <1>2 DEF IsLive

\* The chain as the properties follow it, by the modules' true entries.
LEMMA BasesIn ==
    ASSUME Regular, PubType, NEW m, NEW L \in Layouts, Resident(m, L), NEW k \in 1 .. Len0
    PROVE  BaseIn(m, k) = L[k].base /\ FooterIn(m, k) = Footer(L[k].slot, L[k].ver)
<1> DEFINE F == [j \in 1 .. k |-> L[j].base]
           Step1(f) == [j \in 1 .. k |-> IF j = 1 THEN pub.head ELSE m[f[j - 1]] - EntryAt[pub.names[j]]]
           G == CHOOSE f : f = Step1(f)
<1>1. Len0 \in Nat /\ k \in Nat /\ k >= 1 /\ \A j \in 1 .. k : j \in 1 .. Len0
  BY DEF PubType, Len0
<1>2. \A j \in 1 .. k : j # 1 => m[F[j - 1]] - EntryAt[pub.names[j]] = F[j]
  <2> SUFFICES ASSUME NEW j \in 1 .. k, j # 1 PROVE m[F[j - 1]] - EntryAt[pub.names[j]] = F[j]
    OBVIOUS
  <2>1. j \in 1 .. Len0 /\ j - 1 \in 1 .. k /\ j - 1 \in 1 .. Len0 /\ j - 1 < Len0 /\ j - 1 + 1 = j
    BY <1>1
  <2>2. m[L[j - 1].base] = L[j].base + EntryOffset
    BY <2>1 DEF Resident
  <2>3. L[j].base \in Nat /\ EntryAt[pub.names[j]] = EntryOffset
    BY <2>1, LayoutParts DEF Regular
  <2> QED
    BY <2>1, <2>2, <2>3 DEF EntryOffset
<1>3. pub.head = F[1]
  BY <1>1 DEF Resident
<1>4. F = Step1(F)
  BY <1>1, <1>2, <1>3
<1>5. G = Step1(G)
  <2> HIDE DEF F
  <2> QED
    BY <1>4
<1>6. BaseIn(m, k) = G[k]
  BY DEF BaseIn
<1>7. 1 .. k \subseteq {j \in 1 .. k : G[j] = F[j]}
  <2> HIDE DEF G
  <2> DEFINE T == {j \in 1 .. k : G[j] = F[j]}
  <2>1. k > 0 => 1 \in T
    BY <1>1, <1>3, <1>5
  <2>2. \A j \in 1 .. k : j < k /\ j \in T => j + 1 \in T
    <3> SUFFICES ASSUME NEW j \in 1 .. k, j < k, j \in T PROVE j + 1 \in T
      OBVIOUS
    <3>1. j + 1 \in 1 .. k /\ j + 1 # 1 /\ j + 1 - 1 = j
      BY <1>1
    <3>2. G[j + 1] = m[G[j]] - EntryAt[pub.names[j + 1]]
      BY <1>5, <3>1
    <3>3. G[j] = F[j]
      OBVIOUS
    <3>4. m[F[j]] - EntryAt[pub.names[j + 1]] = F[j + 1]
      <4> HIDE DEF F
      <4> QED
        BY <1>2, <3>1
    <3> QED
      BY <3>1, <3>2, <3>3, <3>4
  <2>3. 1 .. k \subseteq T
    <3> HIDE DEF T
    <3> QED
      BY <1>1, <2>1, <2>2, UpTo
  <2> QED
    BY <2>3
<1>8. BaseIn(m, k) = L[k].base
  <2>1. k \in 1 .. k
    BY <1>1
  <2> QED
    BY <1>6, <1>7, <2>1
<1> QED
  BY <1>8, FooterRead DEF FooterIn

-----------------------------------------------------------------------------
(* The plan: the profile asked for, and its places.                         *)

\* A request whose carrier, if it needs one, has been cached.
Asked ==
    \/ /\ op.kind = "load" /\ op.name \in Names \ Range(pub.names) /\ Len0 < MaxLive
       /\ op.ver \in Versions /\ op.slot \in Slots
    \/ op.kind \in {"unload", "retire"} /\ op.at \in 1 .. Len0
AllScanned(L) == Len(sizes) = Len0 /\ \A k \in 1 .. Len0 : sizes[k] = SizeIn(L, k)

LEMMA KeptParts ==
    ASSUME PubType, Asked
    PROVE  /\ Len0 \in Nat /\ Len(Kept) \in Nat /\ DOMAIN Kept = 1 .. Len(Kept)
           /\ Kept \in Seq(Nat)
           /\ op.kind = "load" => /\ Len(Kept) = Len0 + 1 /\ Kept[Len0 + 1] = 0
                                  /\ \A i \in 1 .. Len0 : Kept[i] = i
           /\ op.kind # "load" => /\ op.at \in 1 .. Len0 /\ Len(Kept) = Len0 - 1
                                  /\ \A i \in DOMAIN Kept : Kept[i] = IF i < op.at THEN i ELSE i + 1
           /\ Len(Kept) <= MaxLive
<1>1. Len0 \in Nat
  BY DEF PubType, Len0
<1>2. CASE op.kind = "load"
  <2>1. Kept = [i \in 1 .. Len0 + 1 |-> IF i <= Len0 THEN i ELSE 0]
    BY <1>2 DEF Kept
  <2>2. Kept \in Seq(Nat) /\ Len(Kept) = Len0 + 1 /\ DOMAIN Kept = 1 .. Len0 + 1
    BY <1>1, <2>1
  <2>3. Len0 < MaxLive /\ MaxLive \in Nat
    BY <1>2, Numbers DEF Asked
  <2> QED
    BY <1>1, <1>2, <2>1, <2>2, <2>3
<1>3. CASE op.kind # "load"
  <2>1. Kept = [i \in 1 .. Len0 - 1 |-> IF i < op.at THEN i ELSE i + 1]
    BY <1>3 DEF Kept
  <2>2. op.at \in 1 .. Len0
    BY <1>3 DEF Asked
  <2>3. Kept \in Seq(Nat) /\ Len(Kept) = Len0 - 1 /\ DOMAIN Kept = 1 .. Len0 - 1
    BY <1>1, <2>1, <2>2
  <2>4. Len0 <= MaxLive /\ MaxLive \in Nat
    BY Numbers DEF PubType
  <2> QED
    BY <1>1, <1>3, <2>1, <2>2, <2>3, <2>4
<1> QED
  BY <1>2, <1>3

\* Of each module of the profile asked for.
LEMMA KeptModule ==
    ASSUME PubType, Asked, NEW L \in Layouts, NEW i \in DOMAIN Kept
    PROVE  /\ i \in Nat /\ i >= 1 /\ Kept[i] \in 0 .. Len0
           /\ Kept[i] = 0 <=> op.kind = "load" /\ i = Len0 + 1
           /\ NewName(i) \in Names /\ VerIn(L, i) \in Versions /\ SlotIn(L, i) \in Slots
           /\ NewName(i) = IF Kept[i] = 0 THEN op.name ELSE pub.names[Kept[i]]
           /\ \A j \in DOMAIN Kept : i < j /\ Kept[j] # 0 => Kept[i] # 0 /\ Kept[i] < Kept[j]
<1>1. i \in Nat /\ i >= 1 /\ Kept[i] \in 0 .. Len0 /\ (Kept[i] = 0 <=> op.kind = "load" /\ i = Len0 + 1)
  BY KeptParts
<1>2. \A j \in DOMAIN Kept : i < j /\ Kept[j] # 0 => Kept[i] # 0 /\ Kept[i] < Kept[j]
  <2> SUFFICES ASSUME NEW j \in DOMAIN Kept, i < j, Kept[j] # 0 PROVE Kept[i] # 0 /\ Kept[i] < Kept[j]
    OBVIOUS
  <2>1. j \in Nat /\ j <= Len(Kept)
    BY KeptParts
  <2>2. CASE op.kind = "load"
    <3>1. i \in 1 .. Len0 /\ j \in 1 .. Len0
      BY <1>1, <2>1, <2>2, KeptParts
    <3> QED
      BY <2>2, <3>1, KeptParts
  <2>3. CASE op.kind # "load"
    BY <1>1, <2>1, <2>3, KeptParts
  <2> QED
    BY <2>2, <2>3
<1>3. CASE Kept[i] = 0
  <2>1. op.kind = "load" /\ op.name \in Names /\ op.ver \in Versions /\ op.slot \in Slots
    BY <1>1, <1>3 DEF Asked
  <2> QED
    BY <1>1, <1>2, <1>3, <2>1 DEF NewName, VerIn, SlotIn
<1>4. CASE Kept[i] # 0
  <2>1. Kept[i] \in 1 .. Len0
    BY <1>1, <1>4, KeptParts
  <2> QED
    BY <1>1, <1>2, <1>4, <2>1, LayoutParts DEF NewName, VerIn, SlotIn
<1> QED
  BY <1>3, <1>4

\* RPL_WALK is a sum from the top.
LEMMA BasesFind ==
    ASSUME NEW n \in Nat, NEW alloc, NEW F \in [0 .. n -> Int], F[0] = Ceiling,
           \A i \in 1 .. n : F[i] = F[i - 1] - alloc[i]
    PROVE  DOMAIN Bases(alloc, n) = 0 .. n /\ \A i \in 0 .. n : Bases(alloc, n)[i] = F[i]
<1> DEFINE Step1(f) == [i \in 0 .. n |-> IF i = 0 THEN Ceiling ELSE f[i - 1] - alloc[i]]
           B == Bases(alloc, n)
<1>1. F = Step1(F)
  <2>1. \A i \in 0 .. n : F[i] = IF i = 0 THEN Ceiling ELSE F[i - 1] - alloc[i]
    <3> SUFFICES ASSUME NEW i \in 0 .. n PROVE F[i] = IF i = 0 THEN Ceiling ELSE F[i - 1] - alloc[i]
      OBVIOUS
    <3>1. i # 0 => i \in 1 .. n
      OBVIOUS
    <3> QED
      BY <3>1
  <2>2. F = [i \in 0 .. n |-> F[i]]
    OBVIOUS
  <2> QED
    BY <2>1, <2>2
<1>2. B = Step1(B)
  BY <1>1 DEF Bases
<1>3. 0 .. n \subseteq {i \in 0 .. n : B[i] = F[i]}
  <2> HIDE DEF B
  <2> DEFINE T == {i \in 0 .. n : B[i] = F[i]}
  <2>1. 0 \in T
    BY <1>2
  <2>2. \A k \in 1 .. n : k - 1 \in T => k \in T
    <3> SUFFICES ASSUME NEW k \in 1 .. n, k - 1 \in T PROVE k \in T
      OBVIOUS
    <3>1. k \in 0 .. n /\ k # 0
      OBVIOUS
    <3>2. B[k] = B[k - 1] - alloc[k]
      BY <1>2, <3>1
    <3>3. B[k - 1] = F[k - 1]
      OBVIOUS
    <3>4. F[k] = F[k - 1] - alloc[k]
      OBVIOUS
    <3> QED
      BY <3>1, <3>2, <3>3, <3>4
  <2>3. 0 .. n \subseteq T
    <3> HIDE DEF T
    <3> QED
      BY <2>1, <2>2, From0
  <2> QED
    BY <2>3
<1> QED
  BY <1>2, <1>3

\* The bases that the headers' allocations give are where the modules are.
LEMMA OldBasesFind ==
    ASSUME PubType, NEW m, NEW L \in Layouts, Resident(m, L), AllScanned(L), NEW k \in 1 .. Len0
    PROVE  OldBases[k] = L[k].base
<1> DEFINE F == [i \in 0 .. Len0 |-> IF i = 0 THEN Ceiling ELSE L[i].base]
<1>1. Len0 \in Nat
  BY DEF PubType, Len0
<1>2. F \in [0 .. Len0 -> Int] /\ F[0] = Ceiling
  BY <1>1, LayoutParts, Numbers
<1>3. \A i \in 1 .. Len0 : F[i] = F[i - 1] - sizes[i]
  <2> SUFFICES ASSUME NEW i \in 1 .. Len0 PROVE F[i] = F[i - 1] - sizes[i]
    OBVIOUS
  <2>1. sizes[i] = SizeIn(L, i) /\ SizeIn(L, i) \in Nat /\ L[i].base \in Nat
    BY LayoutParts DEF AllScanned
  <2>2. L[i].base + SizeIn(L, i) = IF i = 1 THEN Ceiling ELSE L[i - 1].base
    BY DEF Resident
  <2>3. F[i] = L[i].base /\ F[i - 1] = IF i = 1 THEN Ceiling ELSE L[i - 1].base
    BY <1>1
  <2>4. F[i - 1] \in Int
    BY <1>1, <1>2
  <2> QED
    BY <2>1, <2>2, <2>3, <2>4
<1>4. \A i \in 0 .. Len0 : Bases(sizes, Len0)[i] = F[i]
  <2> HIDE DEF F
  <2> QED
    BY <1>1, <1>2, <1>3, BasesFind
<1> QED
  BY <1>1, <1>4 DEF OldBases

\* The sizes of the new profile.
LEMMA NewSizes ==
    ASSUME PubType, Asked, NEW L \in Layouts, AllScanned(L), NEW i \in DOMAIN Kept
    PROVE  /\ NewSize(i) = Size[NewName(i)][VerIn(L, i)]
           /\ NewSize(i) \in Nat /\ NewSize(i) >= 6
<1>1. CASE Kept[i] = 0
  BY <1>1, KeptModule, Sizes DEF NewSize, VerIn, NewName
<1>2. CASE Kept[i] # 0
  <2>1. Kept[i] \in 1 .. Len0
    BY <1>2, KeptModule, KeptParts
  <2> QED
    BY <1>2, <2>1, KeptModule, LayoutParts, Sizes DEF NewSize, VerIn, NewName, AllScanned, SizeIn
<1> QED
  BY <1>1, <1>2

\* The new places: they are packed as well, and no retained module moves down.
LEMMA NewPlaces ==
    ASSUME PubType, Asked, NEW m, NEW L \in Layouts, Resident(m, L), AllScanned(L),
           NEW i \in DOMAIN Kept
    PROVE  /\ PlaceIn(L, i) \in Int
           /\ PlaceIn(L, i) + NewSize(i) = IF i = 1 THEN Ceiling ELSE PlaceIn(L, i - 1)
           /\ Kept[i] # 0 => PlaceIn(L, i) >= L[Kept[i]].base /\ PlaceIn(L, i) + NewSize(i) <= Ceiling
           /\ op.kind = "load" /\ Kept[i] # 0 => PlaceIn(L, i) = L[Kept[i]].base
<1>1. /\ Len0 \in Nat /\ i \in Nat /\ i >= 1 /\ NewSize(i) \in Nat /\ Ceiling \in Nat
      /\ Kept[i] \in 0 .. Len0
  BY KeptParts, KeptModule, NewSizes, Numbers
<1>2. \A k \in 1 .. Len0 :
        /\ L[k].base \in Nat /\ SizeIn(L, k) \in Nat
        /\ L[k].base + SizeIn(L, k) = IF k = 1 THEN Ceiling ELSE L[k - 1].base
        /\ L[k].base + SizeIn(L, k) <= Ceiling
  BY LayoutParts, Stacked DEF Resident
<1>3. CASE op.kind = "load" /\ i <= Len0
  <2>1. Kept[i] = i /\ i \in 1 .. Len0
    BY <1>1, <1>3, KeptParts
  <2>2. NewSize(i) = SizeIn(L, i)
    BY <1>1, <1>3, <2>1 DEF NewSize, AllScanned
  <2>3. PlaceIn(L, i) = L[i].base
    BY <1>3 DEF PlaceIn
  <2>4. i # 1 => PlaceIn(L, i - 1) = L[i - 1].base
    BY <1>1, <1>3 DEF PlaceIn
  <2> QED
    BY <1>2, <2>1, <2>2, <2>3, <2>4
<1>4. CASE op.kind = "load" /\ ~(i <= Len0)
  <2>1. i = Len0 + 1 /\ Kept[i] = 0
    BY <1>1, <1>4, KeptParts
  <2>2. PlaceIn(L, i) = LowIn(L) - Size[op.name][op.ver] /\ NewSize(i) = Size[op.name][op.ver]
    BY <1>4, <2>1 DEF PlaceIn, NewSize
  <2>3. i # 1 => PlaceIn(L, i - 1) = LowIn(L)
    BY <1>1, <1>4, <2>1 DEF PlaceIn, LowIn
  <2>4. i = 1 => LowIn(L) = Ceiling
    BY <1>1, <2>1 DEF LowIn
  <2>5. LowIn(L) \in Nat
    BY Stacked
  <2> QED
    BY <1>1, <2>1, <2>2, <2>3, <2>4, <2>5
<1>5. CASE op.kind # "load"
  <2>1. /\ op.at \in 1 .. Len0 /\ i <= Len0 - 1
        /\ Kept[i] = IF i < op.at THEN i ELSE i + 1
    <3>1. DOMAIN Kept = 1 .. Len0 - 1
      BY <1>5, KeptParts
    <3>2. i \in 1 .. Len0 - 1
      BY <3>1
    <3>3. \A j \in DOMAIN Kept : Kept[j] = IF j < op.at THEN j ELSE j + 1
      BY <1>5, KeptParts
    <3>4. Kept[i] = IF i < op.at THEN i ELSE i + 1
      BY <3>3
    <3>5. op.at \in 1 .. Len0
      BY <1>5, KeptParts
    <3> QED
      BY <1>1, <3>2, <3>4, <3>5
  <2>2. Kept[i] \in 1 .. Len0 /\ NewSize(i) = SizeIn(L, Kept[i])
    BY <1>1, <2>1 DEF NewSize, AllScanned
  <2>3. CASE i < op.at
    <3>1. PlaceIn(L, i) = L[i].base /\ Kept[i] = i
      BY <1>5, <2>1, <2>3 DEF PlaceIn
    <3>2. i # 1 => PlaceIn(L, i - 1) = L[i - 1].base
      BY <1>1, <1>5, <2>1, <2>3 DEF PlaceIn
    <3> QED
      BY <1>2, <1>5, <2>2, <3>1, <3>2
  <2>4. CASE ~(i < op.at)
    <3>1. PlaceIn(L, i) = L[i + 1].base + SizeIn(L, op.at) /\ Kept[i] = i + 1
      BY <1>5, <2>1, <2>4 DEF PlaceIn
    <3>2. /\ i + 1 \in 1 .. Len0 /\ i \in 1 .. Len0 /\ i + 1 # 1 /\ i + 1 - 1 = i
          /\ L[i + 1].base + SizeIn(L, i + 1) = L[i].base
      BY <1>1, <1>2, <2>1, <2>2, <3>1
    <3>3. PlaceIn(L, i) + NewSize(i) = L[i].base + SizeIn(L, op.at)
      BY <1>2, <2>1, <2>2, <3>1, <3>2
    <3>4. CASE i = op.at
      <4>1. PlaceIn(L, i) + NewSize(i) = IF i = 1 THEN Ceiling ELSE L[i - 1].base
        BY <1>2, <3>2, <3>3, <3>4
      <4>2. i # 1 => PlaceIn(L, i - 1) = L[i - 1].base
        BY <1>1, <1>5, <2>1, <3>4 DEF PlaceIn
      <4>3. i # 1 => i - 1 \in 1 .. Len0 /\ L[i - 1].base + SizeIn(L, i - 1) <= Ceiling
        BY <1>1, <1>2, <2>1
      <4> QED
        BY <1>2, <1>5, <2>1, <2>2, <3>1, <3>2, <4>1, <4>2, <4>3
    <3>5. CASE i # op.at
      <4>1. i # 1 /\ PlaceIn(L, i - 1) = L[i].base + SizeIn(L, op.at)
        BY <1>1, <1>5, <2>1, <2>4, <3>5 DEF PlaceIn
      <4>2. L[i].base + SizeIn(L, op.at) <= Ceiling
        <5>1. op.at < i
          BY <1>1, <2>1, <2>4, <3>5
        <5>2. L[i].base + SizeIn(L, i) <= L[op.at].base
          BY <2>1, <3>2, <5>1, Stacked
        <5>3. /\ L[i].base \in Nat /\ SizeIn(L, i) \in Nat
              /\ L[op.at].base \in Nat /\ SizeIn(L, op.at) \in Nat
              /\ L[op.at].base + SizeIn(L, op.at) <= Ceiling
          BY <1>2, <2>1, <3>2
        <5> QED
          BY <1>1, <5>2, <5>3
      <4> QED
        BY <1>2, <1>5, <2>1, <2>2, <3>1, <3>2, <3>3, <4>1, <4>2
    <3> QED
      BY <3>4, <3>5
  <2> QED
    BY <2>3, <2>4
<1> QED
  BY <1>3, <1>4, <1>5

LEMMA NewBasesFind ==
    ASSUME PubType, Asked, NEW m, NEW L \in Layouts, Resident(m, L), AllScanned(L)
    PROVE  /\ DOMAIN NewBases = 0 .. Len(Kept)
           /\ NewBases[0] = Ceiling
           /\ \A i \in DOMAIN Kept : NewBases[i] = PlaceIn(L, i)
<1> DEFINE F == [i \in 0 .. Len(Kept) |-> IF i = 0 THEN Ceiling ELSE PlaceIn(L, i)]
           alloc == [i \in DOMAIN Kept |-> NewSize(i)]
<1>1. Len(Kept) \in Nat /\ DOMAIN Kept = 1 .. Len(Kept) /\ Ceiling \in Nat
  BY KeptParts, Numbers
<1>2. F \in [0 .. Len(Kept) -> Int] /\ F[0] = Ceiling
  <2>1. \A i \in 1 .. Len(Kept) : PlaceIn(L, i) \in Int
    BY <1>1, NewPlaces
  <2> QED
    BY <1>1, <2>1
<1>3. \A i \in 1 .. Len(Kept) : F[i] = F[i - 1] - alloc[i]
  <2> SUFFICES ASSUME NEW i \in 1 .. Len(Kept) PROVE F[i] = F[i - 1] - alloc[i]
    OBVIOUS
  <2>1. alloc[i] = NewSize(i) /\ NewSize(i) \in Nat
    BY <1>1, NewSizes
  <2>2. /\ PlaceIn(L, i) \in Int
        /\ PlaceIn(L, i) + NewSize(i) = IF i = 1 THEN Ceiling ELSE PlaceIn(L, i - 1)
    BY <1>1, NewPlaces
  <2>3. F[i] = PlaceIn(L, i) /\ F[i - 1] = IF i = 1 THEN Ceiling ELSE PlaceIn(L, i - 1)
    BY <1>1
  <2>4. F[i - 1] \in Int
    BY <1>1, <1>2
  <2> QED
    BY <2>1, <2>2, <2>3, <2>4
<1>4. /\ DOMAIN Bases(alloc, Len(Kept)) = 0 .. Len(Kept)
      /\ \A i \in 0 .. Len(Kept) : Bases(alloc, Len(Kept))[i] = F[i]
  <2> HIDE DEF F, alloc
  <2> QED
    <3> DEFINE n == Len(Kept)
    <3>1. n \in Nat /\ F \in [0 .. n -> Int] /\ F[0] = Ceiling /\ \A i \in 1 .. n : F[i] = F[i - 1] - alloc[i]
      BY <1>1, <1>2, <1>3
    <3> HIDE DEF n
    <3>2. DOMAIN Bases(alloc, n) = 0 .. n /\ \A i \in 0 .. n : Bases(alloc, n)[i] = F[i]
      BY <3>1, BasesFind
    <3> QED
      BY <3>2 DEF n
<1> QED
  BY <1>1, <1>4 DEF NewBases


-----------------------------------------------------------------------------
(* What keeps a layout.                                                     *)

LEMMA ResidentStays ==
    ASSUME PubType, NEW L \in Layouts, Resident(Seen, L), pub' = pub,
           \A k \in 1 .. Len0 : files'[L[k].slot] = files[L[k].slot],
           \A a \in Addr : Bound <= a => Seen'[a] = Seen[a]
    PROVE  /\ PubType' /\ Len0' = Len0 /\ L \in Layouts' /\ Resident(Seen, L)'
           /\ \A k \in 1 .. Len0 : SizeIn(L, k)' = SizeIn(L, k)
<1>1. PubType' /\ Len0' = Len0 /\ L \in Layouts'
  BY DEF PubType, Len0, Layouts
<1>2. \A k \in 1 .. Len0 : SizeIn(L, k)' = SizeIn(L, k)
  BY DEF SizeIn
<1>3. \A k \in 1 .. Len0 : \A o \in 0 .. SizeIn(L, k) - 1 : Seen'[L[k].base + o] = Seen[L[k].base + o]
  BY ResidentCells
<1>4. ASSUME NEW k \in 1 .. Len0
      PROVE  /\ Looks(Seen, L[k].base, pub.names[k], L[k].ver, L[k].slot)'
             /\ Seen'[L[k].base] = Seen[L[k].base]
  <2>1. /\ SizeIn(L, k) \in Nat /\ SizeIn(L, k) >= 6 /\ L[k].base \in Nat
        /\ SizeIn(L, k) = Size[pub.names[k]][L[k].ver]
        /\ DataAt(pub.names[k], L[k].ver) = SizeIn(L, k) - 2
    BY LayoutParts
  <2>2. Looks(Seen, L[k].base, pub.names[k], L[k].ver, L[k].slot)
    BY DEF Resident
  <2>3. Seen'[L[k].base + 0] = Seen[L[k].base + 0] /\ L[k].base + 0 = L[k].base
    BY <1>3, <2>1
  <2>4. /\ Seen'[L[k].base + DescOffset] = Seen[L[k].base + DescOffset]
        /\ Seen'[L[k].base + EntryOffset] = Seen[L[k].base + EntryOffset]
        /\ Seen'[L[k].base + (SizeIn(L, k) - 2)] = Seen[L[k].base + (SizeIn(L, k) - 2)]
        /\ Seen'[L[k].base + (SizeIn(L, k) - 1)] = Seen[L[k].base + (SizeIn(L, k) - 1)]
        /\ \A o \in EntryOffset + 1 .. SizeIn(L, k) - 2 - 1 : Seen'[L[k].base + o] = Seen[L[k].base + o]
    BY <1>3, <2>1 DEF DescOffset, EntryOffset
  <2>5. L[k].base + SizeIn(L, k) - 1 = L[k].base + (SizeIn(L, k) - 1)
    BY <2>1
  <2> QED
    BY <2>1, <2>2, <2>3, <2>4, <2>5 DEF Looks
<1>5. Resident(Seen, L)'
  <2>1. pub'.head = IF Len0 = 0 THEN 0 ELSE L[1].base
    BY DEF Resident
  <2>2. \A k \in 1 .. Len0 :
        /\ (files[L[k].slot] = Carrier(pub.names[k], L[k].ver))'
        /\ Bound <= L[k].base
        /\ L[k].base + SizeIn(L, k)' = IF k = 1 THEN Ceiling ELSE L[k - 1].base
        /\ k < Len0 => Seen'[L[k].base] = L[k + 1].base + EntryOffset
    BY <1>2, <1>4 DEF Resident, Carrier
  <2> QED
    BY <1>1, <1>4, <2>1, <2>2 DEF Resident
<1> QED
  BY <1>1, <1>2, <1>5

\* The usual parts of the invariant.
LEMMA InvParts ==
    ASSUME ChangeInv
    PROVE  /\ TypeOK /\ PubType /\ Requested
           /\ pub \in [head : Int, low : Int, names : Seq(Names)]
           /\ stage # "move" => moved = 0
           /\ stage \in CommitStages => IInv
           /\ Len0 \in Nat /\ Len0 <= MaxLive
           /\ stage \notin {"check", "move", "copy", "link"} => Seen = mem
           /\ stage \in {"check", "move", "copy", "link"} => Seen = mem0
<1>1. TypeOK /\ Requested /\ pub \in [head : Int, low : Int, names : Seq(Names)]
  BY DEF ChangeInv
<1>2. PubType /\ Len0 \in Nat
  BY <1>1 DEF TypeOK, PubType, Len0
<1> QED
  BY <1>1, <1>2 DEF ChangeInv, Seen, Changing, PubType

\* Stages in which only the modules matter: a change that ends here, for
\* whatever reason, has left them and their files as they were.
LEMMA EndsIdle ==
    ASSUME ChangeInv, stage' = "idle", TypeOK', UNCHANGED <<pub, moved>>, moved = 0,
           \A L \in Layouts : Resident(Seen, L) =>
                /\ \A k \in 1 .. Len0 : files'[L[k].slot] = files[L[k].slot]
                /\ \A a \in Addr : Bound <= a => mem'[a] = Seen[a]
    PROVE  ChangeInv'
<1>1. PICK L \in Layouts : LayoutInv(L)
  BY DEF ChangeInv
<1>2. Resident(Seen, L)
  BY <1>1 DEF LayoutInv
<1>3. Seen' = mem'
  BY DEF Seen, Changing
<1>4. L \in Layouts' /\ Resident(Seen, L)'
  BY <1>2, <1>3, InvParts, ResidentStays
<1>5. Scanned(L)' /\ Planned(L)' /\ Passed(L)'
  BY DEF Scanned, Planned, Passed, Working, Planning
<1>6. (\E K \in Layouts : LayoutInv(K))'
  BY <1>4, <1>5 DEF LayoutInv
<1>7. Requested' /\ (stage # "move" => moved = 0)' /\ (stage \in CommitStages => IInv)'
  BY DEF Requested, Working, CommitStages
<1>8. (pub \in [head : Int, low : Int, names : Seq(Names)])'
  BY InvParts
<1> QED
  BY <1>6, <1>7, <1>8 DEF ChangeInv

-----------------------------------------------------------------------------
(* The cleaning and the file for a carrier.                                 *)

\* What the cache files of resident modules are.
LEMMA LiveKept ==
    ASSUME ChangeInv, Seen = mem, NEW L \in Layouts, Resident(Seen, L), NEW s \in Slots,
           ~IsLive(s), NEW f
    PROVE  \A k \in 1 .. Len0 : [files EXCEPT ![s] = f][L[k].slot] = files[L[k].slot]
<1> SUFFICES ASSUME NEW k \in 1 .. Len0
             PROVE  [files EXCEPT ![s] = f][L[k].slot] = files[L[k].slot]
  OBVIOUS
<1>1. L[k].slot # s
  BY InvParts, LiveFiles
<1>2. L[k].slot \in Slots /\ files \in [Slots -> FileKinds]
  BY InvParts, LayoutParts DEF TypeOK
<1> QED
  BY <1>1, <1>2

LEMMA FileTypes ==
    ASSUME TypeOK, NEW s \in Slots, NEW f \in FileKinds
    PROVE  [files EXCEPT ![s] = f] \in [Slots -> FileKinds]
  BY DEF TypeOK

LEMMA CarrierTypes ==
    ASSUME NEW n \in Names, NEW v \in Versions
    PROVE  Carrier(n, v) \in FileKinds /\ CutShort(n, v) \in FileKinds
           /\ Empty \in FileKinds /\ Absent \in FileKinds
  BY DEF FileKinds

LEMMA StartStep == ChangeInv /\ Start => ChangeInv'
<1> SUFFICES ASSUME ChangeInv, Start PROVE ChangeInv'
  OBVIOUS
<1>1. /\ stage = "idle" /\ stage' = "clean" /\ idx' = 0
      /\ UNCHANGED <<mem, plan, names, moved, cursor, pub, mem0, files, source, sizes, free, faults>>
  BY DEF Start, cacheVars
<1>2. PICK L \in Layouts : LayoutInv(L)
  BY DEF ChangeInv
<1>3. Seen = mem /\ Seen' = mem' /\ Resident(Seen, L)
  BY <1>1, <1>2 DEF LayoutInv, Seen, Changing
<1>4. L \in Layouts' /\ Resident(Seen, L)' /\ Len0' = Len0
  BY <1>1, <1>3, InvParts, ResidentStays
<1>5. TypeOK'
  BY <1>1, <1>4, InvParts DEF TypeOK, Stages
<1>6. Requested'
  <2>1. \/ op'.kind = "load" /\ op'.name \in Names \ Range(pub.names) /\ Len0 < MaxLive
        \/ op'.kind \in {"unload", "retire"} /\ op'.at \in 1 .. Len0
    BY DEF Start
  <2> QED
    BY <1>1, <1>4, <2>1 DEF Requested, Working
<1>7. Scanned(L)' /\ Planned(L)'
  BY <1>1 DEF Scanned, Planned, Working, Planning
<1>8. Passed(L)'
  <2>1. \A s \in Slots : ~(s < 0)
    BY Numbers
  <2>2. MaxLive \in Nat
    BY Numbers
  <2> QED
    BY <1>1, <2>1, <2>2 DEF Passed
<1>9. (stage # "move" => moved = 0)' /\ (stage \in CommitStages => IInv)'
      /\ (pub \in [head : Int, low : Int, names : Seq(Names)])'
  BY <1>1, InvParts DEF CommitStages
<1> QED
  BY <1>4, <1>5, <1>6, <1>7, <1>8, <1>9 DEF ChangeInv, LayoutInv

LEMMA CleanFileStep == ChangeInv /\ CleanFile => ChangeInv'
<1> SUFFICES ASSUME ChangeInv, CleanFile PROVE ChangeInv'
  OBVIOUS
<1>1. /\ stage \in {"clean", "sweep"} /\ stage' = stage /\ idx \in Slots /\ idx' = idx + 1
      /\ Clean(idx)
      /\ UNCHANGED <<mem, plan, names, moved, cursor, pub, mem0, source, op, sizes, free, faults>>
  BY DEF CleanFile, changeVars
<1>2. PICK L \in Layouts : LayoutInv(L)
  BY DEF ChangeInv
<1>3. Seen = mem /\ Seen' = mem' /\ Resident(Seen, L)
  BY <1>1, <1>2 DEF LayoutInv, Seen, Changing
<1>4. files' \in [Slots -> FileKinds] /\ \A k \in 1 .. Len0 : files'[L[k].slot] = files[L[k].slot]
  <2>1. CASE Reclaimable(idx)
    <3>1. files' = [files EXCEPT ![idx] = Absent]
      BY <1>1, <2>1 DEF Clean
    <3>2. Absent \in FileKinds
      BY DEF FileKinds
    <3>3. files' \in [Slots -> FileKinds]
      BY <1>1, <3>1, <3>2, InvParts, FileTypes
    <3>4. \A k \in 1 .. Len0 : [files EXCEPT ![idx] = Absent][L[k].slot] = files[L[k].slot]
      BY <1>1, <1>3, <2>1, LiveKept DEF Reclaimable
    <3> QED
      BY <3>1, <3>3, <3>4
  <2>2. CASE ~Reclaimable(idx)
    BY <1>1, <2>2, InvParts DEF Clean, TypeOK
  <2> QED
    BY <2>1, <2>2
<1>5. L \in Layouts' /\ Resident(Seen, L)' /\ Len0' = Len0
  BY <1>1, <1>3, <1>4, InvParts, ResidentStays
<1>6. idx \in Nat /\ idx <= MaxLive /\ MaxLive \in Nat
  BY <1>1, Numbers
<1>7. TypeOK'
  <2>1. stage' \in Stages /\ idx' \in Nat
    BY <1>1, <1>6, InvParts DEF TypeOK
  <2> QED
    BY <1>1, <1>4, <1>5, <2>1, InvParts DEF TypeOK, Stages
<1>8. Requested' /\ Scanned(L)' /\ Planned(L)'
  BY <1>1, <1>5, InvParts DEF Requested, Scanned, Planned, Working, Planning
<1>9. ASSUME NEW s \in Slots, s < idx', stage = "clean" PROVE Cleaned1(L, s)'
  <2>1. CASE s = idx
    <3>1. IsLive(s) <=> \E k \in 1 .. Len0 : L[k].slot = s
      BY <1>3, InvParts, LiveFiles
    <3>2. CASE Reclaimable(s)
      <4>1. files'[s] = Absent
        BY <1>1, <2>1, <3>2, InvParts DEF Clean, TypeOK
      <4> QED
        BY <4>1 DEF Cleaned1, Absent
    <3>3. CASE ~Reclaimable(s)
      BY <1>1, <1>5, <2>1, <3>1, <3>3 DEF Clean, Reclaimable, Cleaned1
    <3> QED
      BY <3>2, <3>3
  <2>2. CASE s # idx
    <3>1. s < idx
      BY <1>1, <1>6, <1>9, <2>2, Numbers
    <3>2. Cleaned1(L, s)
      BY <1>2, <1>9, <3>1 DEF LayoutInv, Passed
    <3>3. files'[s] = files[s]
      BY <1>1, <2>2, InvParts DEF Clean, TypeOK
    <3> QED
      BY <1>5, <3>2, <3>3 DEF Cleaned1
  <2> QED
    BY <2>1, <2>2
<1>10. Passed(L)'
  BY <1>1, <1>6, <1>9 DEF Passed
<1>11. (stage # "move" => moved = 0)' /\ (stage \in CommitStages => IInv)'
      /\ (pub \in [head : Int, low : Int, names : Seq(Names)])'
  BY <1>1, InvParts DEF CommitStages
<1> QED
  BY <1>5, <1>7, <1>8, <1>10, <1>11 DEF ChangeInv, LayoutInv

LEMMA CleanedStep == ChangeInv /\ Cleaned => ChangeInv'
<1> SUFFICES ASSUME ChangeInv, Cleaned PROVE ChangeInv'
  OBVIOUS
<1>1. /\ stage = "clean" /\ idx \notin Slots /\ sizes' = <<>>
      /\ IF op.kind = "load" THEN stage' = "reserve" /\ idx' = 0 ELSE stage' = "scan" /\ idx' = 1
      /\ UNCHANGED <<mem, plan, names, moved, cursor, pub, mem0, files, source, op, free, faults>>
  BY DEF Cleaned, cacheVars
<1>2. PICK L \in Layouts : LayoutInv(L)
  BY DEF ChangeInv
<1>3. Seen = mem /\ Seen' = mem' /\ Resident(Seen, L)
  BY <1>1, <1>2 DEF LayoutInv, Seen, Changing
<1>4. L \in Layouts' /\ Resident(Seen, L)' /\ Len0' = Len0
  BY <1>1, <1>3, InvParts, ResidentStays
<1>5. TypeOK'
  BY <1>1, <1>4, InvParts DEF TypeOK, Stages
<1>6. Requested'
  BY <1>1, <1>4, InvParts DEF Requested, Working
<1>7. Scanned(L)' /\ Planned(L)'
  BY <1>1, <1>4, InvParts DEF Scanned, Planned, Working, Planning
<1>8. Passed(L)'
  <2>1. \A s \in Slots : Cleaned1(L, s)
    <3>1. idx = MaxLive + 1 /\ \A s \in Slots : s < idx
      BY <1>1, <1>2, Numbers DEF LayoutInv, Passed
    <3> QED
      BY <1>1, <1>2, <3>1 DEF LayoutInv, Passed
  <2>2. \A s \in Slots : Cleaned1(L, s)' /\ ~(s < 0)
    BY <1>1, <1>4, <2>1, Numbers DEF Cleaned1
  <2> QED
    BY <1>1, <2>2, Numbers DEF Passed
<1>9. (stage # "move" => moved = 0)' /\ (stage \in CommitStages => IInv)'
      /\ (pub \in [head : Int, low : Int, names : Seq(Names)])'
  BY <1>1, InvParts DEF CommitStages
<1> QED
  BY <1>4, <1>5, <1>6, <1>7, <1>8, <1>9 DEF ChangeInv, LayoutInv

LEMMA NextSlotStep == ChangeInv /\ NextSlot => ChangeInv'
<1> SUFFICES ASSUME ChangeInv, NextSlot PROVE ChangeInv'
  OBVIOUS
<1>1. /\ stage = "reserve" /\ stage' = stage /\ idx \in Slots /\ idx' = idx + 1 /\ ~Usable(idx)
      /\ UNCHANGED <<mem, plan, names, moved, cursor, pub, mem0, files, source, op, sizes, free, faults>>
  BY DEF NextSlot, changeVars, cacheVars
<1>2. PICK L \in Layouts : LayoutInv(L)
  BY DEF ChangeInv
<1>3. Seen = mem /\ Seen' = mem' /\ Resident(Seen, L)
  BY <1>1, <1>2 DEF LayoutInv, Seen, Changing
<1>4. L \in Layouts' /\ Resident(Seen, L)' /\ Len0' = Len0
  BY <1>1, <1>3, InvParts, ResidentStays
<1>5. idx \in Nat /\ idx <= MaxLive /\ MaxLive \in Nat
  BY <1>1, Numbers
<1>6. TypeOK' /\ Requested'
  BY <1>1, <1>4, <1>5, InvParts DEF TypeOK, Stages, Requested, Working
<1>7. Scanned(L)' /\ Planned(L)'
  BY <1>1, <1>2 DEF LayoutInv, Scanned, Planned, Working, Planning
<1>8. files[idx] # Absent
  <2>1. CASE IsLive(idx)
    <3>1. PICK k \in 1 .. Len0 : L[k].slot = idx
      BY <1>3, <2>1, InvParts, LiveFiles
    <3>2. files[idx] = Carrier(pub.names[k], L[k].ver)
      BY <1>3, <3>1 DEF Resident
    <3> QED
      BY <3>2 DEF Carrier, Absent
  <2>2. CASE ~IsLive(idx)
    BY <1>1, <2>2 DEF Usable
  <2> QED
    BY <2>1, <2>2
<1>9. Passed(L)'
  <2>1. \A s \in Slots : Cleaned1(L, s)'
    BY <1>1, <1>2, <1>4 DEF LayoutInv, Passed, Cleaned1
  <2>2. \A s \in Slots : s < idx + 1 => files[s] # Absent
    <3> SUFFICES ASSUME NEW s \in Slots, s < idx + 1 PROVE files[s] # Absent
      OBVIOUS
    <3>1. s = idx \/ s < idx
      BY <1>5, Numbers
    <3> QED
      BY <1>1, <1>2, <1>8, <3>1 DEF LayoutInv, Passed
  <2> QED
    BY <1>1, <1>5, <2>1, <2>2 DEF Passed
<1>10. (stage # "move" => moved = 0)' /\ (stage \in CommitStages => IInv)'
      /\ (pub \in [head : Int, low : Int, names : Seq(Names)])'
  BY <1>1, InvParts DEF CommitStages
<1> QED
  BY <1>4, <1>6, <1>7, <1>9, <1>10 DEF ChangeInv, LayoutInv

LEMMA TakeSlotStep == ChangeInv /\ TakeSlot => ChangeInv'
<1> SUFFICES ASSUME ChangeInv, TakeSlot PROVE ChangeInv'
  OBVIOUS
<1>1. /\ stage = "reserve" /\ stage' = "scan" /\ idx \in Slots /\ idx' = 1
      /\ ~IsLive(idx) /\ files' = [files EXCEPT ![idx] = Carrier(op.name, source[op.name])]
      /\ op' = [kind |-> "load", name |-> op.name, ver |-> source[op.name], slot |-> idx]
      /\ UNCHANGED <<mem, plan, names, moved, cursor, pub, mem0, source, sizes, free, faults>>
  BY DEF TakeSlot, Reserve, Usable
<1>2. PICK L \in Layouts : LayoutInv(L)
  BY DEF ChangeInv
<1>3. Seen = mem /\ Seen' = mem' /\ Resident(Seen, L)
  BY <1>1, <1>2 DEF LayoutInv, Seen, Changing
<1>4. op.kind = "load" /\ op.name \in Names \ Range(pub.names) /\ Len0 < MaxLive
      /\ source[op.name] \in Versions
  BY <1>1, InvParts DEF Requested, TypeOK
<1>5. files' \in [Slots -> FileKinds] /\ \A k \in 1 .. Len0 : files'[L[k].slot] = files[L[k].slot]
  <2>1. Carrier(op.name, source[op.name]) \in FileKinds
    BY <1>4, CarrierTypes
  <2>2. files' \in [Slots -> FileKinds]
    BY <1>1, <2>1, InvParts, FileTypes
  <2>3. \A k \in 1 .. Len0 :
            [files EXCEPT ![idx] = Carrier(op.name, source[op.name])][L[k].slot] = files[L[k].slot]
    BY <1>1, <1>3, LiveKept
  <2> QED
    BY <1>1, <2>2, <2>3
<1>6. L \in Layouts' /\ Resident(Seen, L)' /\ Len0' = Len0
  BY <1>1, <1>3, <1>5, InvParts, ResidentStays
<1>7. TypeOK'
  BY <1>1, <1>5, <1>6, InvParts DEF TypeOK, Stages
<1>8. Requested'
  <2>1. files'[idx] = Carrier(op.name, source[op.name])
    BY <1>1, InvParts DEF TypeOK
  <2> QED
    BY <1>1, <1>4, <1>6, <2>1 DEF Requested, Working
<1>9. Scanned(L)' /\ Planned(L)' /\ Passed(L)'
  BY <1>1, <1>2, <1>6, InvParts DEF LayoutInv, Scanned, Planned, Working, Planning, Passed
<1>10. (stage # "move" => moved = 0)' /\ (stage \in CommitStages => IInv)'
      /\ (pub \in [head : Int, low : Int, names : Seq(Names)])'
  BY <1>1, InvParts DEF CommitStages
<1> QED
  BY <1>6, <1>7, <1>8, <1>9, <1>10 DEF ChangeInv, LayoutInv

-----------------------------------------------------------------------------
(* The ends of a change, and what happens between changes.                  *)

LEMMA CleanFailsStep == ChangeInv /\ CleanFails => ChangeInv'
<1> SUFFICES ASSUME ChangeInv, CleanFails PROVE ChangeInv'
  OBVIOUS
<1>1. /\ stage \in {"clean", "sweep"} /\ stage' = "idle"
      /\ UNCHANGED <<mem, plan, names, idx, moved, cursor, pub, mem0, files, source, op, sizes, free>>
  BY DEF CleanFails, CleanError
<1>2. TypeOK'
  BY <1>1, InvParts DEF TypeOK, Stages, Len0
<1>3. Seen = mem /\ moved = 0
  BY <1>1, InvParts
<1> QED
  BY <1>1, <1>2, <1>3, EndsIdle

LEMMA SlotFailsStep == ChangeInv /\ SlotFails => ChangeInv'
<1> SUFFICES ASSUME ChangeInv, SlotFails PROVE ChangeInv'
  OBVIOUS
<1>1. /\ stage = "reserve" /\ stage' = "idle"
      /\ UNCHANGED <<mem, plan, names, idx, moved, cursor, pub, mem0, source, op, sizes, free>>
      /\ \/ idx \in Slots /\ ReserveError(idx, op.name, source[op.name])
         \/ UNCHANGED files
  BY DEF SlotFails
<1>2. Seen = mem /\ moved = 0
  BY <1>1, InvParts
<1>3. op.name \in Names /\ source[op.name] \in Versions
  BY <1>1, InvParts DEF Requested, TypeOK
<1>4. \/ UNCHANGED files
      \/ /\ idx \in Slots /\ ~IsLive(idx)
         /\ \E f \in FileKinds : files' = [files EXCEPT ![idx] = f]
  BY <1>1, <1>3, CarrierTypes DEF ReserveError
<1>5. CASE UNCHANGED files
  <2>1. TypeOK'
    BY <1>1, <1>5, InvParts DEF TypeOK, Stages, Len0
  <2> QED
    BY <1>1, <1>2, <1>5, <2>1, EndsIdle
<1>6. CASE ~UNCHANGED files
  <2>1. PICK f \in FileKinds : files' = [files EXCEPT ![idx] = f]
    BY <1>4, <1>6
  <2>2. files' \in [Slots -> FileKinds]
    BY <1>4, <1>6, <2>1, InvParts, FileTypes
  <2>3. TypeOK'
    BY <1>1, <2>2, InvParts DEF TypeOK, Stages, Len0
  <2>4. \A L \in Layouts : Resident(Seen, L) =>
            \A k \in 1 .. Len0 : [files EXCEPT ![idx] = f][L[k].slot] = files[L[k].slot]
    BY <1>2, <1>4, <1>6, LiveKept
  <2> QED
    BY <1>1, <1>2, <2>1, <2>3, <2>4, EndsIdle
<1> QED
  BY <1>5, <1>6

LEMMA InterruptedStep == ChangeInv /\ Interrupted => ChangeInv'
<1> SUFFICES ASSUME ChangeInv, Interrupted PROVE ChangeInv'
  OBVIOUS
<1>1. /\ stage \in {"clean", "reserve", "scan", "keep", "sweep"} /\ stage' = "idle"
      /\ UNCHANGED <<mem, plan, names, idx, moved, cursor, pub, mem0, source, op, sizes, free>>
      /\ \/ UNCHANGED files
         \/ idx \in Slots /\ ~IsLive(idx) /\ files' = [files EXCEPT ![idx] = Empty]
  BY DEF Interrupted, Preparing, Usable
<1>2. Seen = mem /\ moved = 0
  BY <1>1, InvParts
<1>3. CASE UNCHANGED files
  <2>1. TypeOK'
    BY <1>1, <1>3, InvParts DEF TypeOK, Stages, Len0
  <2> QED
    BY <1>1, <1>2, <1>3, <2>1, EndsIdle
<1>4. CASE ~UNCHANGED files
  <2>1. Empty \in FileKinds
    BY DEF FileKinds
  <2>2. files' \in [Slots -> FileKinds]
    BY <1>1, <1>4, <2>1, InvParts, FileTypes
  <2>3. TypeOK'
    BY <1>1, <2>2, InvParts DEF TypeOK, Stages, Len0
  <2>4. \A L \in Layouts : Resident(Seen, L) =>
            \A k \in 1 .. Len0 : [files EXCEPT ![idx] = Empty][L[k].slot] = files[L[k].slot]
    BY <1>1, <1>2, <1>4, LiveKept
  <2> QED
    BY <1>1, <1>2, <1>4, <2>3, <2>4, EndsIdle
<1> QED
  BY <1>3, <1>4

LEMMA FinishStep == ChangeInv /\ Finish => ChangeInv'
<1> SUFFICES ASSUME ChangeInv, Finish PROVE ChangeInv'
  OBVIOUS
<1>1. /\ stage = "sweep" /\ stage' = "idle"
      /\ UNCHANGED <<mem, plan, names, idx, moved, cursor, pub, mem0, files, source, op, sizes, free>>
  BY DEF Finish, cacheVars, changeVars
<1>2. TypeOK'
  BY <1>1, InvParts DEF TypeOK, Stages, Len0
<1>3. Seen = mem /\ moved = 0
  BY <1>1, InvParts
<1> QED
  BY <1>1, <1>2, <1>3, EndsIdle

LEMMA RebuildStep == ChangeInv /\ Rebuild => ChangeInv'
<1> SUFFICES ASSUME ChangeInv, Rebuild PROVE ChangeInv'
  OBVIOUS
<1>1. /\ stage = "idle" /\ stage' = "idle"
      /\ UNCHANGED <<mem, plan, names, idx, moved, cursor, pub, mem0, files, op, sizes, free>>
  BY DEF Rebuild, commitVars, changeVars
<1>2. PICK n \in Rebuilt, v \in Versions : source' = [source EXCEPT ![n] = v]
  BY DEF Rebuild
<1>3. TypeOK'
  BY <1>1, <1>2, InvParts DEF TypeOK, Stages, Len0
<1>4. Seen = mem /\ moved = 0
  BY <1>1, InvParts
<1> QED
  BY <1>1, <1>3, <1>4, EndsIdle

LEMMA ReturnStep == ChangeInv /\ Return => ChangeInv'
<1> SUFFICES ASSUME ChangeInv, Return PROVE ChangeInv'
  OBVIOUS
<1>1. /\ stage \in {"published", "refused"} /\ stage' \in {"sweep", "idle"} /\ idx' = 0
      /\ UNCHANGED <<mem, plan, names, moved, cursor, pub, mem0, files, source, op, sizes, free>>
  BY DEF Return, cacheVars, changeVars
<1>2. TypeOK'
  BY <1>1, InvParts DEF TypeOK, Stages, Len0
<1>3. Seen = mem /\ moved = 0 /\ Seen' = mem'
  BY <1>1, InvParts DEF Seen, Changing
<1>4. PICK L \in Layouts : LayoutInv(L)
  BY DEF ChangeInv
<1>5. L \in Layouts' /\ Resident(Seen, L)' /\ Len0' = Len0
  BY <1>1, <1>3, <1>4, InvParts, ResidentStays DEF LayoutInv
<1>6. Requested' /\ Scanned(L)' /\ Planned(L)'
  BY <1>1 DEF Requested, Scanned, Planned, Working, Planning
<1>7. Passed(L)'
  BY <1>1, Numbers DEF Passed
<1>8. (stage # "move" => moved = 0)' /\ (stage \in CommitStages => IInv)'
      /\ (pub \in [head : Int, low : Int, names : Seq(Names)])'
  BY <1>1, <1>3, InvParts DEF CommitStages
<1> QED
  BY <1>2, <1>5, <1>6, <1>7, <1>8 DEF ChangeInv, LayoutInv

LEMMA ScanHeaderStep == ChangeInv /\ ScanHeader => ChangeInv'
<1> SUFFICES ASSUME ChangeInv, ScanHeader PROVE ChangeInv'
  OBVIOUS
<1> DEFINE f == CachedFile(idx)
<1>1. /\ stage = "scan" /\ idx <= Len0
      /\ IF Matches(f, idx)
           THEN sizes' = Append(sizes, Size[f.name][f.ver]) /\ idx' = idx + 1 /\ stage' = stage
           ELSE stage' = "idle" /\ UNCHANGED <<sizes, idx>>
      /\ UNCHANGED <<mem, plan, names, moved, cursor, pub, mem0, files, source, op, free, faults>>
  BY DEF ScanHeader, cacheVars
<1> HIDE DEF f
<1>2. PICK L \in Layouts : LayoutInv(L)
  BY DEF ChangeInv
<1>3. Seen = mem /\ Resident(Seen, L) /\ moved = 0
  BY <1>1, <1>2, InvParts DEF LayoutInv
<1>4. idx = Len(sizes) + 1 /\ sizes \in Seq(Nat) /\ idx \in 1 .. Len0
      /\ \A k \in 1 .. Len(sizes) : sizes[k] = SizeIn(L, k)
  BY <1>1, <1>2, InvParts DEF LayoutInv, Scanned, Working, TypeOK
<1>5. CASE ~Matches(f, idx)
  <2>1. TypeOK'
    BY <1>1, <1>5, InvParts DEF TypeOK, Stages, Len0
  <2> QED
    BY <1>1, <1>3, <1>5, <2>1, EndsIdle
<1>6. CASE Matches(f, idx)
  <2>1. stage' = "scan" /\ idx' = idx + 1 /\ sizes' = Append(sizes, Size[f.name][f.ver])
    BY <1>1, <1>6
  <2>2. Seen' = mem'
    BY <2>1 DEF Seen, Changing
  <2>3. /\ L \in Layouts' /\ Resident(Seen, L)' /\ Len0' = Len0
        /\ \A k \in 1 .. Len0 : SizeIn(L, k)' = SizeIn(L, k)
    BY <1>1, <1>3, <2>2, InvParts, ResidentStays
  <2>4. Size[f.name][f.ver] = SizeIn(L, idx) /\ SizeIn(L, idx) \in Nat
    <3>1. f = files[L[idx].slot]
      <4>1. SlotOf(FootOf(Walk[idx])) = L[idx].slot /\ L[idx].slot \in Slots
        BY <1>3, <1>4, InvParts, LiveFiles, LayoutParts
      <4> QED
        BY <4>1 DEF f, CachedFile
    <3>2. f = Carrier(pub.names[idx], L[idx].ver)
      BY <1>3, <1>4, <3>1 DEF Resident
    <3> QED
      BY <1>4, <3>2, InvParts, LayoutParts DEF Carrier
  <2>5. sizes' \in Seq(Nat) /\ Len(sizes') = idx /\ \A k \in 1 .. Len(sizes') : sizes'[k] = SizeIn(L, k)
    BY <1>4, <2>1, <2>4
  <2>6. TypeOK'
    BY <1>1, <2>1, <2>3, <2>5, InvParts DEF TypeOK, Stages
  <2>7. Requested'
    BY <1>1, <2>1, <2>3, InvParts DEF Requested, Working
  <2>8. Scanned(L)'
    <3>1. ASSUME NEW k \in 1 .. Len(sizes') PROVE sizes'[k] = SizeIn(L, k)'
      <4>1. k \in 1 .. Len0
        BY <1>4, <2>5, InvParts
      <4>2. SizeIn(L, k)' = SizeIn(L, k)
        BY <2>3, <4>1
      <4> QED
        BY <2>5, <4>2
    <3> QED
      BY <1>4, <2>1, <2>3, <2>5, <3>1 DEF Scanned, Planning
  <2>9. Planned(L)' /\ Passed(L)'
    BY <2>1 DEF Planned, Planning, Working, Passed
  <2>10. (stage # "move" => moved = 0)' /\ (stage \in CommitStages => IInv)'
      /\ (pub \in [head : Int, low : Int, names : Seq(Names)])'
    BY <1>1, <1>3, <2>1, InvParts DEF CommitStages
  <2> QED
    BY <2>3, <2>6, <2>7, <2>8, <2>9, <2>10 DEF ChangeInv, LayoutInv
<1> QED
  BY <1>5, <1>6

\* Modules share no cell.
LEMMA CellsApart ==
    ASSUME PubType, NEW m, NEW L \in Layouts, Resident(m, L),
           NEW j \in 1 .. Len0, NEW k \in 1 .. Len0, j # k,
           NEW o \in 0 .. SizeIn(L, j) - 1, NEW p \in 0 .. SizeIn(L, k) - 1
    PROVE  L[j].base + o # L[k].base + p
<1>1. /\ L[j].base \in Nat /\ L[k].base \in Nat /\ SizeIn(L, j) \in Nat /\ SizeIn(L, k) \in Nat
      /\ j \in Nat /\ k \in Nat
  BY LayoutParts
<1>2. CASE j < k
  <2>1. L[k].base + SizeIn(L, k) <= L[j].base
    BY <1>2, Stacked
  <2> QED
    BY <1>1, <2>1
<1>3. CASE k < j
  <2>1. L[j].base + SizeIn(L, j) <= L[k].base
    BY <1>3, Stacked
  <2> QED
    BY <1>1, <2>1
<1> QED
  BY <1>1, <1>2, <1>3

\* What a module's own work changes.
LEMMA WorkCells ==
    ASSUME ChangeInv, stage = "idle", NEW L \in Layouts, Resident(mem, L), NEW k \in 1 .. Len0,
           mem' = [mem EXCEPT ![Walk[k] + DataAt(pub.names[k], VersionOf(FootOf(Walk[k])))] = 0,
                              ![Walk[k] + EntryOffset] = 0]
    PROVE  /\ mem' \in [Addr -> Int]
           /\ \A j \in 1 .. Len0 : \A o \in 0 .. SizeIn(L, j) - 1 :
                mem'[L[j].base + o] = IF j = k /\ o \in {EntryOffset, SizeIn(L, k) - 2} THEN 0
                                      ELSE mem[L[j].base + o]
<1>1. Walk[k] = L[k].base /\ VersionOf(FootOf(Walk[k])) = L[k].ver
  BY InvParts, WalkFinds, LiveFiles
<1>2. /\ SizeIn(L, k) \in Nat /\ SizeIn(L, k) >= 6 /\ L[k].base \in Nat
      /\ DataAt(pub.names[k], L[k].ver) = SizeIn(L, k) - 2
  BY InvParts, LayoutParts
<1>3. EntryOffset \in 0 .. SizeIn(L, k) - 1 /\ SizeIn(L, k) - 2 \in 0 .. SizeIn(L, k) - 1
  BY <1>2 DEF EntryOffset
<1> DEFINE a == L[k].base + EntryOffset
           d == L[k].base + (SizeIn(L, k) - 2)
<1>4. mem' = [mem EXCEPT ![d] = 0, ![a] = 0]
  BY <1>1, <1>2
<1>5. a \in Addr /\ d \in Addr
  BY <1>3, InvParts, ResidentCells
<1>6. mem \in [Addr -> Int]
  BY InvParts DEF TypeOK
<1>7. ASSUME NEW j \in 1 .. Len0, NEW o \in 0 .. SizeIn(L, j) - 1
      PROVE  mem'[L[j].base + o] = IF j = k /\ o \in {EntryOffset, SizeIn(L, k) - 2} THEN 0
                                   ELSE mem[L[j].base + o]
  <2>1. L[j].base + o \in Addr
    BY InvParts, ResidentCells
  <2>2. L[j].base + o \in {a, d} <=> j = k /\ o \in {EntryOffset, SizeIn(L, k) - 2}
    <3>1. CASE j = k
      <4>1. o \in Int
        BY <1>2, <3>1
      <4> QED
        BY <1>2, <3>1, <4>1 DEF EntryOffset
    <3>2. CASE j # k
      BY <1>3, <3>2, InvParts, CellsApart
    <3> QED
      BY <3>1, <3>2
  <2> HIDE DEF a, d
  <2> QED
    BY <1>4, <1>5, <1>6, <2>1, <2>2
<1>8. mem' \in [Addr -> Int]
  <2> HIDE DEF a, d
  <2>1. [mem EXCEPT ![d] = 0] \in [Addr -> Int]
    BY <1>5, <1>6
  <2>2. mem' = [[mem EXCEPT ![d] = 0] EXCEPT ![a] = 0]
    BY <1>4
  <2> QED
    BY <1>5, <2>1, <2>2
<1> QED
  BY <1>7, <1>8

LEMMA WorkStays ==
    ASSUME ChangeInv, RunModule, NEW L \in Layouts, LayoutInv(L)
    PROVE  ChangeInv' /\ L \in Layouts' /\ Resident(Seen, L)'
<1>1. /\ stage = "idle" /\ stage' = "idle"
      /\ UNCHANGED <<plan, names, idx, moved, cursor, pub, mem0, files, source, op, sizes, free>>
  BY DEF RunModule, changeVars, cacheVars
<1>2. PICK k \in 1 .. Len0 :
        mem' = [mem EXCEPT ![Walk[k] + DataAt(pub.names[k], VersionOf(FootOf(Walk[k])))] = 0,
                           ![Walk[k] + EntryOffset] = 0]
  BY DEF RunModule
<1>4. Resident(mem, L) /\ Seen' = mem'
  BY <1>1, InvParts DEF LayoutInv, Seen, Changing
<1>5. /\ mem' \in [Addr -> Int]
      /\ \A j \in 1 .. Len0 : \A o \in 0 .. SizeIn(L, j) - 1 :
                mem'[L[j].base + o] = IF j = k /\ o \in {EntryOffset, SizeIn(L, k) - 2} THEN 0
                                      ELSE mem[L[j].base + o]
  BY <1>1, <1>2, <1>4, WorkCells
<1>6. ASSUME NEW j \in 1 .. Len0
      PROVE  /\ Looks(mem', L[j].base, pub.names[j], L[j].ver, L[j].slot)
             /\ mem'[L[j].base] = mem[L[j].base]
  <2>1. /\ SizeIn(L, j) \in Nat /\ SizeIn(L, j) >= 6 /\ L[j].base \in Nat
        /\ SizeIn(L, j) = Size[pub.names[j]][L[j].ver]
        /\ DataAt(pub.names[j], L[j].ver) = SizeIn(L, j) - 2
    BY InvParts, LayoutParts
  <2>2. Looks(mem, L[j].base, pub.names[j], L[j].ver, L[j].slot)
    BY <1>4 DEF Resident
  <2>3. \A o \in 0 .. SizeIn(L, j) - 1 :
            mem'[L[j].base + o] = IF j = k /\ o \in {EntryOffset, SizeIn(L, j) - 2} THEN 0
                                  ELSE mem[L[j].base + o]
    BY <1>5
  <2>4. mem'[L[j].base + 0] = mem[L[j].base + 0] /\ L[j].base + 0 = L[j].base
    BY <2>1, <2>3 DEF EntryOffset
  <2>5. mem'[L[j].base + DescOffset] = mem[L[j].base + DescOffset]
    BY <2>1, <2>3 DEF EntryOffset, DescOffset
  <2>6. mem'[L[j].base + EntryOffset] \in {0, mem[L[j].base + EntryOffset]}
    BY <2>1, <2>3 DEF EntryOffset
  <2>7. mem'[L[j].base + (SizeIn(L, j) - 2)] \in {0, mem[L[j].base + (SizeIn(L, j) - 2)]}
    BY <2>1, <2>3
  <2>8. mem'[L[j].base + (SizeIn(L, j) - 1)] = mem[L[j].base + (SizeIn(L, j) - 1)]
    BY <2>1, <2>3 DEF EntryOffset
  <2>9. \A o \in EntryOffset + 1 .. SizeIn(L, j) - 2 - 1 : mem'[L[j].base + o] = mem[L[j].base + o]
    BY <2>1, <2>3 DEF EntryOffset
  <2>10. L[j].base + SizeIn(L, j) - 1 = L[j].base + (SizeIn(L, j) - 1)
    BY <2>1
  <2> QED
    BY <2>1, <2>2, <2>4, <2>5, <2>6, <2>7, <2>8, <2>9, <2>10 DEF Looks
<1>7. L \in Layouts' /\ Resident(Seen, L)'
  <2>1. Len0' = Len0 /\ L \in Layouts' /\ \A j \in 1 .. Len0 : SizeIn(L, j)' = SizeIn(L, j)
    BY <1>1 DEF Len0, Layouts, SizeIn
  <2>2. ASSUME NEW j \in 1 .. Len0
        PROVE  /\ Looks(Seen, L[j].base, pub.names[j], L[j].ver, L[j].slot)'
               /\ j < Len0 => Seen'[L[j].base] = L[j + 1].base + EntryOffset
    BY <1>1, <1>4, <1>6 DEF Resident, Looks
  <2>3. \A j \in 1 .. Len0 :
        /\ (files[L[j].slot] = Carrier(pub.names[j], L[j].ver))'
        /\ Bound <= L[j].base
        /\ L[j].base + SizeIn(L, j)' = IF j = 1 THEN Ceiling ELSE L[j - 1].base
    BY <1>1, <1>4, <2>1 DEF Resident, Carrier
  <2>4. pub'.head = IF Len0 = 0 THEN 0 ELSE L[1].base
    BY <1>1, <1>4 DEF Resident
  <2> QED
    BY <2>1, <2>2, <2>3, <2>4 DEF Resident
<1>8. TypeOK'
  BY <1>1, <1>5, InvParts DEF TypeOK, Stages, Len0
<1>9. Requested' /\ Scanned(L)' /\ Planned(L)' /\ Passed(L)'
  BY <1>1 DEF Requested, Scanned, Planned, Passed, Working, Planning
<1>10. (stage # "move" => moved = 0)' /\ (stage \in CommitStages => IInv)'
      /\ (pub \in [head : Int, low : Int, names : Seq(Names)])'
  BY <1>1, InvParts DEF CommitStages
<1> QED
  BY <1>7, <1>8, <1>9, <1>10 DEF ChangeInv, LayoutInv

LEMMA RunModuleStep == ChangeInv /\ RunModule => ChangeInv'
  BY WorkStays DEF ChangeInv

-----------------------------------------------------------------------------
(* The initial states: no module is resident.                               *)

LEMMA LeastVersion == Min(Versions) \in Versions
<1>1. \E v \in Versions : \A w \in Versions : v <= w
  <2>1. Versions \subseteq Nat /\ Versions # {}
    BY Numbers, CacheAssumption
  <2> QED
    BY <2>1, LeastNat
<1> QED
  BY <1>1 DEF Min

LEMMA ChangeInit == Init => ChangeInv
<1> SUFFICES ASSUME Init PROVE ChangeInv
  OBVIOUS
<1>1. /\ pub = [head |-> 0, low |-> EmptyTop, names |-> <<>>] /\ stage = "idle" /\ moved = 0
      /\ idx = 0 /\ plan = <<>> /\ names = <<>> /\ cursor = EmptyTop /\ sizes = <<>>
      /\ mem = [a \in Addr |-> 0] /\ mem0 = mem /\ free = ScratchLow
      /\ source = [n \in Names |-> Min(Versions)]
      /\ files = [s \in Slots |-> IF s \in Foreigners THEN Foreign ELSE Absent]
  BY DEF Init
<1>2. Len0 = 0 /\ pub \in [head : Int, low : Int, names : Seq(Names)]
  BY <1>1, Numbers DEF Len0
<1>3. TypeOK
  <2>1. mem \in [Addr -> Int] /\ mem0 \in [Addr -> Int]
    BY <1>1
  <2>2. plan \in Seq(Record) /\ names \in Seq(Names) /\ sizes \in Seq(Nat)
    BY <1>1
  <2>3. IsInjective(pub.names) /\ Range(pub.names) \subseteq Names
    <3>1. DOMAIN pub.names = {}
      BY <1>1
    <3> QED
      BY <3>1 DEF IsInjective, Range
  <2>4. files \in [Slots -> FileKinds] /\ source \in [Names -> Versions]
    BY <1>1, LeastVersion DEF FileKinds
  <2>5. /\ stage \in Stages /\ idx \in Nat /\ moved \in Nat /\ cursor \in Nat
        /\ pub.head \in Nat /\ pub.low \in Nat /\ Len0 <= MaxLive /\ free \in ScratchLow .. ScratchHigh
    BY <1>1, <1>2, Numbers DEF Stages
  <2> QED
    BY <2>1, <2>2, <2>3, <2>4, <2>5 DEF TypeOK
<1> DEFINE L == [k \in 1 .. 0 |-> [base |-> 0, ver |-> Min(Versions), slot |-> 0]]
<1>4. L \in Layouts
  BY <1>2 DEF Layouts
<1>5. Resident(Seen, L)
  BY <1>1, <1>2 DEF Resident
<1>6. Requested /\ Scanned(L) /\ Planned(L) /\ Passed(L)
  BY <1>1 DEF Requested, Scanned, Planned, Passed, Working, Planning
<1>7. stage # "move" => moved = 0
  BY <1>1
<1>8. stage \in CommitStages => IInv
  BY <1>1 DEF CommitStages
<1> HIDE DEF L
<1> QED
  BY <1>2, <1>3, <1>4, <1>5, <1>6, <1>7, <1>8 DEF ChangeInv, LayoutInv

-----------------------------------------------------------------------------
(* The plan.                                                                *)

LEMMA RequestStays ==
    ASSUME UNCHANGED <<pub, op>>, NEW L, NEW i
    PROVE  /\ Len0' = Len0 /\ Kept' = Kept /\ NewName(i)' = NewName(i)
           /\ VerIn(L, i)' = VerIn(L, i) /\ SlotIn(L, i)' = SlotIn(L, i)
           /\ PlaceIn(L, i)' = PlaceIn(L, i)
<1>1. Len0' = Len0
  BY DEF Len0
<1>2. Kept' = Kept
  BY <1>1 DEF Kept
<1>3. NewName(i)' = NewName(i)
  BY <1>2 DEF NewName
<1>4. LowIn(L)' = LowIn(L) /\ SizeIn(L, op.at)' = SizeIn(L, op.at)
  BY <1>1 DEF LowIn, SizeIn
<1>5. PlaceIn(L, i)' = PlaceIn(L, i)
  BY <1>1, <1>4 DEF PlaceIn
<1> QED
  BY <1>1, <1>2, <1>3, <1>5 DEF VerIn, SlotIn

\* An image in scratch memory.
LEMMA PutImage ==
    ASSUME NEW m \in [Addr -> Int], NEW at \in Nat, NEW n \in Names, NEW v \in Versions,
           NEW s \in Slots, NEW b \in Int, at + Size[n][v] < Space
    PROVE  /\ Put(m, at, Image(n, v, s, b)) \in [Addr -> Int]
           /\ \A o \in 0 .. Size[n][v] - 1 : Put(m, at, Image(n, v, s, b))[at + o] = Image(n, v, s, b)[o]
           /\ \A a \in Addr : a < at \/ at + Size[n][v] <= a => Put(m, at, Image(n, v, s, b))[a] = m[a]
<1> DEFINE img == Image(n, v, s, b)
<1>1. Size[n][v] \in Nat /\ DataAt(n, v) \in Int /\ Footer(s, v) \in Int /\ v \in Int
  <2>1. Size[n][v] \in Nat /\ DataAt(n, v) = Size[n][v] - 2
    BY Sizes
  <2>2. s \in Nat /\ v \in Nat
    BY Numbers
  <2> QED
    BY <2>1, <2>2 DEF Footer
<1>2. DOMAIN img = 0 .. Size[n][v] - 1 /\ \A o \in DOMAIN img : img[o] \in Int
  <2>1. LoaderWords \in Int /\ 0 \in Int /\ b + DataAt(n, v) \in Int
    BY <1>1 DEF LoaderWords
  <2> QED
    BY <1>1, <2>1 DEF Image
<1> HIDE DEF img
<1>3. Put(m, at, img) = [a \in Addr |-> IF a - at \in DOMAIN img THEN img[a - at] ELSE m[a]]
  BY DEF Put
<1>4. Put(m, at, img) \in [Addr -> Int]
  BY <1>2, <1>3
<1>5. \A o \in 0 .. Size[n][v] - 1 : Put(m, at, img)[at + o] = img[o]
  <2> SUFFICES ASSUME NEW o \in 0 .. Size[n][v] - 1 PROVE Put(m, at, img)[at + o] = img[o]
    OBVIOUS
  <2>1. at + o \in Addr /\ at + o - at = o
    BY <1>1, Numbers DEF Addr
  <2> QED
    BY <1>2, <1>3, <2>1
<1>6. \A a \in Addr : a < at \/ at + Size[n][v] <= a => Put(m, at, img)[a] = m[a]
  <2> SUFFICES ASSUME NEW a \in Addr, a < at \/ at + Size[n][v] <= a PROVE Put(m, at, img)[a] = m[a]
    OBVIOUS
  <2>1. a \in Int /\ a - at \notin 0 .. Size[n][v] - 1
    BY <1>1 DEF Addr
  <2>2. a - at \notin DOMAIN img
    BY <1>2, <2>1
  <2> QED
    BY <1>3, <2>2
<1> QED
  BY <1>4, <1>5, <1>6 DEF img

\* The records of the plan before the candidate's snapshot is noted.
LEMMA LayoutRecord ==
    ASSUME PubType, Asked, NEW m, NEW L \in Layouts, Resident(m, L), AllScanned(L), Plannable,
           NEW i \in DOMAIN Kept
    PROVE  /\ Layout[i] = [old |-> IF Kept[i] # 0 /\ Class[NewName(i)] # Stateless
                                     THEN L[Kept[i]].base ELSE 0,
                           new |-> PlaceIn(L, i), size |-> Size[NewName(i)][VerIn(L, i)],
                           class |-> Class[NewName(i)], src |-> 0, disp |-> 0, slots |-> <<>>]
           /\ Layout[i] \in Record
           /\ PlaceIn(L, i) \in Nat /\ ScratchHigh <= PlaceIn(L, i)
           /\ Kept[i] # 0 /\ Class[NewName(i)] = ColdOnly => PlaceIn(L, i) = L[Kept[i]].base
<1>1. NewBases[i] = PlaceIn(L, i) /\ i \in DOMAIN NewBases
  <2>1. i \in 0 .. Len(Kept)
    BY KeptParts
  <2> QED
    BY <2>1, NewBasesFind
<1>2. ScratchHigh <= PlaceIn(L, i) /\ PlaceIn(L, i) \in Int
  BY <1>1, NewPlaces DEF Plannable
<1>3. PlaceIn(L, i) \in Nat
  BY <1>2, Numbers
<1>4. Kept[i] # 0 => /\ Kept[i] \in 1 .. Len0 /\ OldBases[Kept[i]] = L[Kept[i]].base
                     /\ L[Kept[i]].base \in Nat /\ L[Kept[i]].base # 0
  <2> SUFFICES ASSUME Kept[i] # 0
               PROVE  /\ Kept[i] \in 1 .. Len0 /\ OldBases[Kept[i]] = L[Kept[i]].base
                      /\ L[Kept[i]].base \in Nat /\ L[Kept[i]].base # 0
    OBVIOUS
  <2>1. Kept[i] \in 1 .. Len0
    BY KeptModule, KeptParts
  <2>2. L[Kept[i]].base \in Nat /\ Bound <= L[Kept[i]].base
    BY <2>1, LayoutParts DEF Resident
  <2> QED
    BY <2>1, <2>2, OldBasesFind, Numbers
<1>5. NewSize(i) = Size[NewName(i)][VerIn(L, i)] /\ NewSize(i) \in Nat
  BY NewSizes
<1>6. NewName(i) \in Names /\ VerIn(L, i) \in Versions
  BY KeptModule
<1>7. Class[NewName(i)] \in Nat
  BY <1>6, Sizes DEF Stateless, Stateful, ColdOnly
<1>8. Layout[i] = [old |-> IF Kept[i] # 0 /\ Class[NewName(i)] # Stateless
                                     THEN L[Kept[i]].base ELSE 0,
                   new |-> PlaceIn(L, i), size |-> Size[NewName(i)][VerIn(L, i)],
                   class |-> Class[NewName(i)], src |-> 0, disp |-> 0, slots |-> <<>>]
  BY <1>1, <1>4, <1>5 DEF Layout, PlanRecord
<1>9. Layout[i] \in Record
  BY <1>3, <1>4, <1>5, <1>7, <1>8 DEF Record
<1>10. Kept[i] # 0 /\ Class[NewName(i)] = ColdOnly => PlaceIn(L, i) = L[Kept[i]].base
  <2> SUFFICES ASSUME Kept[i] # 0, Class[NewName(i)] = ColdOnly PROVE PlaceIn(L, i) = L[Kept[i]].base
    OBVIOUS
  <2>1. /\ Layout[i].class = ColdOnly /\ Layout[i].old = L[Kept[i]].base
        /\ Layout[i].new = PlaceIn(L, i)
    BY <1>8 DEF ColdOnly, Stateless
  <2>2. i \in DOMAIN Layout
    BY DEF Layout
  <2> QED
    BY <1>4, <2>1, <2>2 DEF Plannable
<1> QED
  BY <1>2, <1>3, <1>8, <1>9, <1>10

LEMMA PlanStep == Regular /\ ChangeInv /\ Plan => ChangeInv'
<1> SUFFICES ASSUME Regular, ChangeInv, Plan PROVE ChangeInv'
  OBVIOUS
<1> DEFINE last == Len(Kept)
           ok == Plannable /\ (op.kind = "load" => Fits(ScratchLow, NewSize(last)))
<1>1. /\ stage = "scan" /\ idx = Len0 + 1
      /\ UNCHANGED <<moved, cursor, pub, mem0, files, source, op, sizes, faults>>
  BY DEF Plan, cacheVars
<1>2. PICK L \in Layouts : LayoutInv(L)
  BY DEF ChangeInv
<1>3. Seen = mem /\ Resident(Seen, L) /\ moved = 0
  BY <1>1, <1>2, InvParts DEF LayoutInv
<1>4. Asked /\ AllScanned(L)
  <2>1. Asked
    BY <1>1, InvParts DEF Requested, Working, Asked
  <2>2. idx = Len(sizes) + 1 /\ sizes \in Seq(Nat) /\ Len0 \in Nat
        /\ \A k \in 1 .. Len(sizes) : sizes[k] = SizeIn(L, k)
    BY <1>1, <1>2, InvParts DEF LayoutInv, Scanned, Working, TypeOK
  <2>3. Len(sizes) = Len0
    BY <1>1, <2>2
  <2> QED
    BY <2>1, <2>2, <2>3 DEF AllScanned
<1>5. CASE ~ok
  <2>1. stage' = "idle" /\ UNCHANGED <<mem, plan, names, idx, free, faults>>
    BY <1>5 DEF Plan
  <2>2. TypeOK'
    BY <1>1, <2>1, InvParts DEF TypeOK, Stages, Len0
  <2> QED
    BY <1>1, <1>3, <2>1, <2>2, EndsIdle
<1>6. CASE ok
  <2>1. /\ stage' = "keep" /\ idx' = 1
        /\ names' = [i \in DOMAIN Kept |-> NewName(i)]
        /\ IF op.kind = "load"
             THEN /\ plan' = [Layout EXCEPT ![last] = Candidate(last)]
                  /\ mem' = Put(mem, ScratchLow, Image(op.name, op.ver, op.slot, NewBases[last]))
                  /\ free' = ScratchLow + NewSize(last)
             ELSE plan' = Layout /\ mem' = mem /\ free' = ScratchLow
    BY <1>6 DEF Plan
  <2>2. /\ last \in Nat /\ DOMAIN Kept = 1 .. last
        /\ op.kind = "load" => /\ last = Len0 + 1 /\ last \in DOMAIN Kept /\ Kept[last] = 0
    BY <1>4, InvParts, KeptParts
  <2>3. op.kind = "load" =>
            /\ op.name \in Names /\ op.ver \in Versions /\ op.slot \in Slots
            /\ NewSize(last) = Size[op.name][op.ver] /\ NewSize(last) \in Nat
            /\ NewName(last) = op.name /\ VerIn(L, last) = op.ver /\ SlotIn(L, last) = op.slot
            /\ NewBases[last] = PlaceIn(L, last)
            /\ ScratchLow + NewSize(last) <= ScratchHigh
    <3> SUFFICES ASSUME op.kind = "load"
                 PROVE  /\ op.name \in Names /\ op.ver \in Versions /\ op.slot \in Slots
                        /\ NewSize(last) = Size[op.name][op.ver] /\ NewSize(last) \in Nat
                        /\ NewName(last) = op.name /\ VerIn(L, last) = op.ver
                        /\ SlotIn(L, last) = op.slot
                        /\ NewBases[last] = PlaceIn(L, last)
                        /\ ScratchLow + NewSize(last) <= ScratchHigh
      OBVIOUS
    <3>1. op.name \in Names /\ op.ver \in Versions /\ op.slot \in Slots
      BY <1>4 DEF Asked
    <3>2. last \in DOMAIN Kept /\ Kept[last] = 0
      BY <2>2
    <3>3. NewName(last) = op.name /\ VerIn(L, last) = op.ver /\ SlotIn(L, last) = op.slot
          /\ NewSize(last) = Size[op.name][op.ver]
      BY <3>2 DEF NewName, VerIn, SlotIn, NewSize
    <3>4. NewBases[last] = PlaceIn(L, last)
      BY <1>3, <1>4, <3>2, InvParts, NewBasesFind
    <3>5. Size[op.name][op.ver] \in Nat
      BY <3>1, Sizes
    <3> HIDE DEF last
    <3> QED
      BY <1>6, <3>1, <3>3, <3>4, <3>5 DEF Fits
  <2>4. \A i \in DOMAIN Kept :
            /\ Layout[i] = [old |-> IF Kept[i] # 0 /\ Class[NewName(i)] # Stateless
                                     THEN L[Kept[i]].base ELSE 0,
                            new |-> PlaceIn(L, i), size |-> Size[NewName(i)][VerIn(L, i)],
                            class |-> Class[NewName(i)], src |-> 0, disp |-> 0, slots |-> <<>>]
            /\ Layout[i] \in Record
            /\ PlaceIn(L, i) \in Nat /\ ScratchHigh <= PlaceIn(L, i)
            /\ Kept[i] # 0 /\ Class[NewName(i)] = ColdOnly => PlaceIn(L, i) = L[Kept[i]].base
    BY <1>3, <1>4, <1>6, InvParts, LayoutRecord
  <2>5. /\ plan' \in Seq(Record) /\ Len(plan') = last
        /\ \A i \in DOMAIN Kept : plan'[i] =
              IF Kept[i] = 0 THEN [Layout[i] EXCEPT !.src = ScratchLow, !.disp = EntryAt[op.name]]
              ELSE Layout[i]
    <3>1. DOMAIN Layout = 1 .. last
      BY <2>2 DEF Layout
    <3>2. \A i \in DOMAIN Kept : Kept[i] = 0 <=> op.kind = "load" /\ i = last
      BY <1>4, <2>2, InvParts, KeptModule
    <3>3. CASE op.kind = "load"
      <4>1. plan' = [Layout EXCEPT ![last] = Candidate(last)]
        BY <2>1, <3>3
      <4>2. Candidate(last) = [Layout[last] EXCEPT !.src = ScratchLow, !.disp = EntryAt[op.name]]
        BY DEF Candidate
      <4>3. Candidate(last) \in Record
        <5>1. EntryAt[op.name] \in Nat
          BY <2>3, <3>3, ModuleAssumption
        <5> QED
          BY <2>2, <2>4, <3>3, <4>2, <5>1, Numbers DEF Record
      <4>4. \A i \in DOMAIN Kept : plan'[i] = IF Kept[i] = 0 THEN Candidate(last) ELSE Layout[i]
        <5> HIDE DEF last
        <5> QED
          BY <2>2, <3>1, <3>2, <3>3, <4>1
      <4>5. DOMAIN plan' = 1 .. last /\ \A i \in 1 .. last : plan'[i] \in Record
        <5> HIDE DEF last
        <5> QED
          BY <2>2, <2>4, <3>1, <4>1, <4>3, <4>4
      <4>6. plan' \in Seq(Record) /\ Len(plan') = last
        <5> HIDE DEF last
        <5>1. plan' = [i \in 1 .. last |-> plan'[i]]
          BY <3>1, <4>1
        <5> QED
          BY <2>2, <4>5, <5>1
      <4> QED
        BY <3>2, <3>3, <4>2, <4>4, <4>6
    <3>4. CASE op.kind # "load"
      <4>1. plan' = Layout
        BY <2>1, <3>4
      <4>2. Layout \in Seq(Record) /\ Len(Layout) = last
        <5> HIDE DEF last
        <5>1. Layout = [i \in 1 .. last |-> Layout[i]]
          BY <2>2 DEF Layout
        <5> QED
          BY <2>2, <2>4, <3>1, <5>1
      <4> QED
        BY <3>2, <3>4, <4>1, <4>2
    <3> QED
      BY <3>3, <3>4
  <2>6. /\ mem' \in [Addr -> Int] /\ free' \in ScratchLow .. ScratchHigh
        /\ \A a \in Addr : ScratchHigh <= a => mem'[a] = mem[a]
        /\ op.kind = "load" =>
            /\ free' = ScratchLow + NewSize(last)
            /\ \A o \in 0 .. Size[op.name][op.ver] - 1 :
                mem'[ScratchLow + o] = Image(op.name, op.ver, op.slot, PlaceIn(L, last))[o]
    <3>1. mem \in [Addr -> Int]
      BY InvParts DEF TypeOK
    <3>2. CASE op.kind = "load"
      <4>1. mem' = Put(mem, ScratchLow, Image(op.name, op.ver, op.slot, PlaceIn(L, last)))
        BY <2>1, <2>3, <3>2
      <4>2. PlaceIn(L, last) \in Int /\ ScratchLow + Size[op.name][op.ver] < Space
            /\ ScratchLow + Size[op.name][op.ver] <= ScratchHigh /\ Size[op.name][op.ver] \in Nat
        <5>1. PlaceIn(L, last) \in Nat
          BY <2>2, <2>4, <3>2
        <5>2. Size[op.name][op.ver] \in Nat /\ ScratchLow + Size[op.name][op.ver] <= ScratchHigh
          BY <2>3, <3>2
        <5> QED
          BY <5>1, <5>2, Numbers
      <4>3. /\ mem' \in [Addr -> Int]
            /\ \A o \in 0 .. Size[op.name][op.ver] - 1 :
                 mem'[ScratchLow + o] = Image(op.name, op.ver, op.slot, PlaceIn(L, last))[o]
            /\ \A a \in Addr : a < ScratchLow \/ ScratchLow + Size[op.name][op.ver] <= a
                                 => mem'[a] = mem[a]
        <5>1. op.name \in Names /\ op.ver \in Versions /\ op.slot \in Slots /\ ScratchLow \in Nat
          BY <2>3, <3>2, Numbers
        <5> DEFINE at == PlaceIn(L, last)
        <5>2. at \in Int /\ mem' = Put(mem, ScratchLow, Image(op.name, op.ver, op.slot, at))
          BY <4>1, <4>2
        <5> HIDE DEF at
        <5>3. /\ mem' \in [Addr -> Int]
              /\ \A o \in 0 .. Size[op.name][op.ver] - 1 :
                   mem'[ScratchLow + o] = Image(op.name, op.ver, op.slot, at)[o]
              /\ \A a \in Addr : a < ScratchLow \/ ScratchLow + Size[op.name][op.ver] <= a
                                   => mem'[a] = mem[a]
          <6> DEFINE put == Put(mem, ScratchLow, Image(op.name, op.ver, op.slot, at))
          <6>1. /\ put \in [Addr -> Int]
                /\ \A o \in 0 .. Size[op.name][op.ver] - 1 :
                     put[ScratchLow + o] = Image(op.name, op.ver, op.slot, at)[o]
                /\ \A a \in Addr : a < ScratchLow \/ ScratchLow + Size[op.name][op.ver] <= a
                                     => put[a] = mem[a]
            <7>1. ScratchLow + Size[op.name][op.ver] < Space /\ at \in Int
              BY <4>2, <5>2
            <7> QED
              BY <3>1, <5>1, <7>1, PutImage, SMTT(30)
          <6>2. mem' = put
            BY <5>2
          <6> HIDE DEF put
          <6> QED
            BY <6>1, <6>2
        <5> QED
          BY <5>3 DEF at
      <4>4. \A a \in Addr : ScratchHigh <= a => mem'[a] = mem[a]
        <5> SUFFICES ASSUME NEW a \in Addr, ScratchHigh <= a PROVE mem'[a] = mem[a]
          OBVIOUS
        <5>1. ScratchLow + Size[op.name][op.ver] <= a
          BY <4>2, Numbers DEF Addr
        <5> QED
          BY <4>3, <5>1
      <4>5. free' = ScratchLow + NewSize(last) /\ free' \in ScratchLow .. ScratchHigh
        BY <2>1, <2>3, <3>2, <4>2, Numbers
      <4> QED
        BY <4>3, <4>4, <4>5
    <3>3. CASE op.kind # "load"
      BY <2>1, <3>1, <3>3, Numbers
    <3> QED
      BY <3>2, <3>3
  <2>7. Seen' = mem'
    BY <2>1 DEF Seen, Changing
  <2>8. L \in Layouts' /\ Resident(Seen, L)' /\ Len0' = Len0
        /\ \A k \in 1 .. Len0 : SizeIn(L, k)' = SizeIn(L, k)
    <3>1. \A a \in Addr : Bound <= a => Seen'[a] = Seen[a]
      BY <1>3, <2>6, <2>7, Numbers DEF Addr
    <3> QED
      BY <1>1, <1>3, <3>1, InvParts, ResidentStays
  <2>9. TypeOK'
    <3>1. names' \in Seq(Names)
      <4>1. \A i \in 1 .. last : NewName(i) \in Names
        BY <1>4, <2>2, InvParts, KeptModule
      <4> HIDE DEF last
      <4> QED
        BY <2>1, <2>2, <4>1
    <3> QED
      BY <1>1, <2>1, <2>5, <2>6, <2>8, <3>1, InvParts DEF TypeOK, Stages
  <2>10. Requested'
    BY <1>1, <2>1, <2>8, InvParts DEF Requested, Working
  <2>11. Scanned(L)'
    BY <1>1, <1>4, <2>1, <2>8 DEF Scanned, Planning, Working, AllScanned
  <2>12. ASSUME NEW i \in DOMAIN Kept
         PROVE  /\ PlannedRecord(L, i)'
                /\ Kept[i] = 0 => PreparedRecord(L, i)'
                /\ ScratchHigh <= plan'[i].new
    <3>1. /\ Kept' = Kept /\ NewName(i)' = NewName(i) /\ VerIn(L, i)' = VerIn(L, i)
          /\ SlotIn(L, i)' = SlotIn(L, i) /\ PlaceIn(L, i)' = PlaceIn(L, i)
      BY <1>1, RequestStays
    <3>2. /\ plan'[i].new = PlaceIn(L, i) /\ plan'[i].size = Size[NewName(i)][VerIn(L, i)]
          /\ plan'[i].class = Class[NewName(i)]
          /\ plan'[i].old = IF Kept[i] # 0 /\ Class[NewName(i)] # Stateless THEN L[Kept[i]].base ELSE 0
          /\ Kept[i] # 0 => plan'[i].src = 0 /\ plan'[i].disp = 0
          /\ Kept[i] = 0 => plan'[i].src = ScratchLow /\ plan'[i].disp = EntryAt[op.name]
      <4>1. /\ plan'[i].new = Layout[i].new /\ plan'[i].size = Layout[i].size
            /\ plan'[i].class = Layout[i].class /\ plan'[i].old = Layout[i].old
            /\ Kept[i] # 0 => plan'[i].src = Layout[i].src /\ plan'[i].disp = Layout[i].disp
            /\ Kept[i] = 0 => plan'[i].src = ScratchLow /\ plan'[i].disp = EntryAt[op.name]
        <5>1. Layout[i] \in Record
          BY <2>4
        <5>2. CASE Kept[i] = 0
          <6>1. plan'[i] = [Layout[i] EXCEPT !.src = ScratchLow, !.disp = EntryAt[op.name]]
            BY <2>5, <5>2
          <6> QED
            BY <5>1, <5>2, <6>1 DEF Record
        <5>3. CASE Kept[i] # 0
          <6>1. plan'[i] = Layout[i]
            BY <2>5, <5>3
          <6> QED
            BY <5>3, <6>1
        <5> QED
          BY <5>2, <5>3
      <4>2. Layout[i] = [old |-> IF Kept[i] # 0 /\ Class[NewName(i)] # Stateless
                                   THEN L[Kept[i]].base ELSE 0,
                         new |-> PlaceIn(L, i), size |-> Size[NewName(i)][VerIn(L, i)],
                         class |-> Class[NewName(i)], src |-> 0, disp |-> 0, slots |-> <<>>]
        BY <2>4
      <4> QED
        BY <4>1, <4>2
    <3>3. PlannedRecord(L, i)'
      <4>1. Kept[i] # 0 /\ Class[NewName(i)] = ColdOnly =>
                plan'[i].disp = 0 /\ plan'[i].new = plan'[i].old
        <5>1. Kept[i] # 0 /\ Class[NewName(i)] = ColdOnly => PlaceIn(L, i) = L[Kept[i]].base
          BY <2>4
        <5>2. Class[NewName(i)] = ColdOnly => Class[NewName(i)] # Stateless
          BY DEF ColdOnly, Stateless
        <5> QED
          BY <3>2, <5>1, <5>2
      <4> QED
        BY <3>1, <3>2, <4>1 DEF PlannedRecord
    <3>4. Kept[i] = 0 => PreparedRecord(L, i)'
      <4> SUFFICES ASSUME Kept[i] = 0 PROVE PreparedRecord(L, i)'
        OBVIOUS
      <4>1. op.kind = "load" /\ i = last
        BY <1>4, <2>2, InvParts, KeptModule
      <4>2. NewName(i) = op.name /\ VerIn(L, i) = op.ver /\ SlotIn(L, i) = op.slot
            /\ op.name \in Names
        BY <2>3, <4>1
      <4>3. plan'[i].disp = EntryOffset
        <5>1. plan'[i].disp = EntryAt[op.name] /\ op.name \in Names
          BY <3>2, <4>2
        <5> QED
          BY <5>1 DEF Regular
      <4>4. /\ plan'[i].src = ScratchLow /\ plan'[i].src + plan'[i].size <= ScratchHigh
            /\ plan'[i].src + plan'[i].size <= free'
        <5>1. plan'[i].src = ScratchLow /\ plan'[i].size = NewSize(last)
          BY <2>3, <3>2, <4>1, <4>2
        <5>2. NewSize(last) \in Nat /\ ScratchLow + NewSize(last) <= ScratchHigh
              /\ free' = ScratchLow + NewSize(last)
          BY <2>3, <2>6, <4>1
        <5> QED
          BY <5>1, <5>2, Numbers
      <4>5. \A o \in 0 .. plan'[i].size - 1 :
                Seen'[plan'[i].src + o] = Image(op.name, op.ver, op.slot, plan'[i].new)[o]
        <5>1. /\ plan'[i].src = ScratchLow /\ plan'[i].size = Size[op.name][op.ver]
              /\ plan'[i].new = PlaceIn(L, last)
          BY <3>2, <4>1, <4>2
        <5>2. \A o \in 0 .. Size[op.name][op.ver] - 1 :
                  Seen'[ScratchLow + o] = Image(op.name, op.ver, op.slot, PlaceIn(L, last))[o]
          BY <2>6, <2>7, <4>1
        <5> QED
          BY <5>1, <5>2
      <4> QED
        BY <3>1, <4>2, <4>3, <4>4, <4>5, Numbers DEF PreparedRecord
    <3> QED
      BY <2>4, <3>2, <3>3, <3>4
  <2>13. Planned(L)'
    <3>1. Kept' = Kept /\ DOMAIN Kept' = DOMAIN Kept /\ \A i : NewName(i)' = NewName(i)
      BY <1>1, RequestStays
    <3>2. names' = [i \in DOMAIN Kept' |-> NewName(i)']
      BY <2>1, <3>1
    <3>3. \A i \in DOMAIN Kept' : (IsPrepared(i))' => Kept[i] = 0
      <4> SUFFICES ASSUME NEW i \in DOMAIN Kept, (IsPrepared(i))' PROVE Kept[i] = 0
        BY <3>1
      <4>1. Kept[i] = 0 \/ i < 1
        BY <2>1, <3>1 DEF IsPrepared
      <4> QED
        BY <2>2, <4>1
    <3>4. idx' \in 1 .. Len(Kept') + 1
      BY <2>1, <2>2, <3>1
    <3> QED
      BY <2>1, <2>2, <2>5, <2>12, <3>1, <3>2, <3>3, <3>4 DEF Planned
  <2>14. Passed(L)'
    BY <2>1 DEF Passed
  <2>15. (stage # "move" => moved = 0)' /\ (stage \in CommitStages => IInv)'
      /\ (pub \in [head : Int, low : Int, names : Seq(Names)])'
    BY <1>1, <1>3, <2>1, InvParts DEF CommitStages
  <2> QED
    BY <2>8, <2>9, <2>10, <2>11, <2>13, <2>14, <2>15 DEF ChangeInv, LayoutInv
<1> QED
  BY <1>5, <1>6

-----------------------------------------------------------------------------
(* The retained modules, and the handoff to the commit.                     *)

\* What the invariant says of the plan.
LEMMA PlanParts ==
    ASSUME ChangeInv, stage \in Planning, NEW L \in Layouts, LayoutInv(L)
    PROVE  /\ Asked /\ AllScanned(L) /\ Resident(Seen, L)
           /\ plan \in Seq(Record) /\ N = Len(Kept) /\ N \in Nat /\ Recs = DOMAIN Kept
           /\ Recs = 1 .. N
           /\ \A i \in Recs : plan[i] \in Record /\ PlannedRecord(L, i)
                              /\ (IsPrepared(i) => PreparedRecord(L, i))
<1>1. Asked
  BY InvParts DEF Requested, Planning, Working, Asked
<1>2. AllScanned(L)
  <2>1. Len(sizes) = Len0 /\ \A k \in 1 .. Len(sizes) : sizes[k] = SizeIn(L, k)
    BY DEF LayoutInv, Scanned, Planning
  <2> QED
    BY <2>1 DEF AllScanned
<1>3. plan \in Seq(Record) /\ N = Len(Kept)
  BY InvParts DEF LayoutInv, Planned, TypeOK, N
<1>4. N \in Nat /\ Recs = DOMAIN Kept /\ Recs = 1 .. N
  BY <1>1, <1>3, InvParts, KeptParts DEF Recs
<1>5. \A i \in Recs : plan[i] \in Record
  BY <1>3, <1>4 DEF N
<1>6. \A i \in Recs : PlannedRecord(L, i) /\ (IsPrepared(i) => PreparedRecord(L, i))
  BY <1>4 DEF LayoutInv, Planned
<1> QED
  BY <1>1, <1>2, <1>3, <1>4, <1>5, <1>6 DEF LayoutInv

\* The fields of a record.
LEMMA RecordTypes2 ==
    ASSUME NEW r \in Record
    PROVE  r.old \in Nat /\ r.new \in Nat /\ r.size \in Nat /\ r.class \in Nat
           /\ r.src \in Nat /\ r.disp \in Nat /\ r.slots \in Seq(Nat)
  BY DEF Record

\* A module that is kept.
LEMMA KeptFile ==
    ASSUME ChangeInv, Seen = mem, Asked, NEW L \in Layouts, Resident(mem, L),
           NEW i \in DOMAIN Kept, Kept[i] # 0
    PROVE  /\ Kept[i] \in 1 .. Len0
           /\ NewName(i) = pub.names[Kept[i]] /\ VerIn(L, i) = L[Kept[i]].ver
           /\ SlotIn(L, i) = L[Kept[i]].slot
           /\ CachedFile(Kept[i]) = Carrier(NewName(i), VerIn(L, i))
           /\ SlotOf(FootOf(Walk[Kept[i]])) = SlotIn(L, i)
<1>1. Kept[i] \in 1 .. Len0
  BY InvParts, KeptModule, KeptParts
<1>2. NewName(i) = pub.names[Kept[i]] /\ VerIn(L, i) = L[Kept[i]].ver /\ SlotIn(L, i) = L[Kept[i]].slot
  BY DEF NewName, VerIn, SlotIn
<1>3. SlotOf(FootOf(Walk[Kept[i]])) = L[Kept[i]].slot /\ L[Kept[i]].slot \in Slots
  BY <1>1, InvParts, LiveFiles, LayoutParts
<1>4. CachedFile(Kept[i]) = files[L[Kept[i]].slot]
  BY <1>3 DEF CachedFile
<1>5. files[L[Kept[i]].slot] = Carrier(pub.names[Kept[i]], L[Kept[i]].ver)
  BY <1>1 DEF Resident
<1> QED
  BY <1>1, <1>2, <1>3, <1>4, <1>5

LEMMA KeepStep == Regular /\ ChangeInv /\ Keep => ChangeInv'
<1> SUFFICES ASSUME Regular, ChangeInv, Keep PROVE ChangeInv'
  OBVIOUS
<1> DEFINE r == plan[idx]
           k == Kept[idx]
           f == CachedFile(k)
<1>1. /\ stage = "keep" /\ idx \in DOMAIN Kept /\ k # 0
      /\ UNCHANGED <<names, moved, cursor, pub, mem0, files, source, op, sizes, faults>>
  BY DEF Keep, Remaining, cacheVars
<1>2. PICK L \in Layouts : LayoutInv(L)
  BY DEF ChangeInv
<1>3. Seen = mem /\ Resident(mem, L) /\ moved = 0
  BY <1>1, <1>2, InvParts DEF LayoutInv
<1>4. /\ Asked /\ AllScanned(L)
      /\ plan \in Seq(Record) /\ N = Len(Kept) /\ N \in Nat /\ Recs = DOMAIN Kept /\ Recs = 1 .. N
      /\ \A i \in Recs : plan[i] \in Record /\ PlannedRecord(L, i)
                         /\ (IsPrepared(i) => PreparedRecord(L, i))
  BY <1>1, <1>2, PlanParts DEF Planning, Working
<1>5. CASE ~Keepable(r, f, k)
  <2>1. stage' = "idle" /\ UNCHANGED <<mem, plan, idx, free, faults>>
    BY <1>5 DEF Keep
  <2>2. TypeOK'
    BY <1>1, <2>1, InvParts DEF TypeOK, Stages, Len0
  <2> QED
    BY <1>1, <1>3, <2>1, <2>2, EndsIdle
<1>6. CASE Keepable(r, f, k)
  <2>1. /\ plan' = [plan EXCEPT ![idx] = Prepared(r, f)]
        /\ IF r.class = Stateless
             THEN /\ mem' = Put(mem, free, Image(f.name, f.ver, SlotOf(FootOf(Walk[k])), r.new))
                  /\ free' = free + r.size
             ELSE UNCHANGED <<mem, free>>
        /\ idx' = idx + 1 /\ stage' = "keep"
    BY <1>1, <1>6 DEF Keep
  <2> DEFINE n == NewName(idx)
             v == VerIn(L, idx)
             s == SlotIn(L, idx)
  <2>2. /\ f = Carrier(n, v) /\ SlotOf(FootOf(Walk[k])) = s
        /\ n \in Names /\ v \in Versions /\ s \in Slots
    BY <1>1, <1>3, <1>4, InvParts, KeptFile, KeptModule
  <2>3. f.name = n /\ f.ver = v
    BY <2>2 DEF Carrier
  <2>4. /\ r \in Record /\ r.new \in Nat /\ r.size = Size[n][v] /\ r.class = Class[n] /\ r.size \in Nat
        /\ Class[n] \in {Stateless, Stateful, ColdOnly}
    <3>1. PlannedRecord(L, idx) /\ r \in Record
      BY <1>1, <1>4
    <3> QED
      BY <2>2, <3>1, Sizes, RecordTypes2 DEF PlannedRecord
  <2>5. free \in Nat /\ free <= ScratchHigh /\ ScratchLow <= free /\ mem \in [Addr -> Int]
    BY InvParts, Numbers DEF TypeOK
  <2>6. r.class = Stateless => free + r.size <= ScratchHigh
    BY <1>6 DEF Keepable, Fits
  <2> HIDE DEF r, f, k, n, v, s
  <2>7. EntryAt[f.name] = EntryOffset /\ EntryOffset \in Nat
    BY <2>2, <2>3 DEF Regular, EntryOffset
  <2>8. /\ Prepared(r, f) \in Record
        /\ Prepared(r, f).old = r.old /\ Prepared(r, f).new = r.new
        /\ Prepared(r, f).size = r.size /\ Prepared(r, f).class = r.class
        /\ r.class = Stateless => Prepared(r, f).src = free /\ Prepared(r, f).disp = EntryOffset
        /\ r.class = Stateful => /\ Prepared(r, f).src = r.src /\ Prepared(r, f).disp = EntryOffset
                                 /\ Prepared(r, f).slots = <<EntryOffset>>
        /\ r.class = ColdOnly => Prepared(r, f) = r
    <3>1. CASE r.class = Stateless
      <4>1. Prepared(r, f) = [r EXCEPT !.src = free, !.disp = EntryOffset]
        BY <2>7, <3>1 DEF Prepared, Stateless, Stateful
      <4> QED
        <5> DEFINE q == Prepared(r, f)
        <5> HIDE DEF q
        <5>1. q = [r EXCEPT !.src = free, !.disp = EntryOffset]
          BY <4>1 DEF q
        <5>2. /\ q \in Record /\ q.src = free /\ q.disp = EntryOffset /\ q.old = r.old
              /\ q.new = r.new /\ q.size = r.size /\ q.class = r.class
          <6>1. r \in Record /\ free \in Nat /\ EntryOffset \in Nat
            BY <2>4, <2>5, <2>7
          <6> QED
            BY <5>1, <6>1 DEF Record
        <5> QED
          BY <3>1, <5>2 DEF q, Stateless, Stateful, ColdOnly
    <3>2. CASE r.class = Stateful
      <4>1. Prepared(r, f) = [r EXCEPT !.slots = <<EntryOffset>>, !.disp = EntryOffset]
        BY <2>7, <3>2 DEF Prepared, Stateless, Stateful
      <4>2. <<EntryOffset>> \in Seq(Nat)
        BY <2>7
      <4> QED
        <5> DEFINE q == Prepared(r, f)
                   w == <<EntryOffset>>
        <5> HIDE DEF q, w
        <5>1. q = [r EXCEPT !.slots = w, !.disp = EntryOffset] /\ w \in Seq(Nat)
          BY <4>1, <4>2 DEF q, w
        <5>2. /\ q \in Record /\ q.src = r.src /\ q.disp = EntryOffset /\ q.slots = w
              /\ q.old = r.old /\ q.new = r.new /\ q.size = r.size /\ q.class = r.class
          <6>1. r \in Record /\ EntryOffset \in Nat
            BY <2>4, <2>7
          <6> QED
            BY <5>1, <6>1, <4>2 DEF Record, w
        <5> QED
          BY <3>2, <5>2 DEF q, w, Stateless, Stateful, ColdOnly
    <3>3. CASE r.class = ColdOnly
      <4>1. Prepared(r, f) = r
        BY <3>3 DEF Prepared, Stateless, Stateful, ColdOnly
      <4> QED
        BY <2>4, <3>3, <4>1 DEF Stateless, Stateful, ColdOnly
    <3> QED
      BY <2>4, <3>1, <3>2, <3>3
  <2>9. /\ plan' \in Seq(Record) /\ Len(plan') = Len(plan)
        /\ \A i \in Recs : plan'[i] = IF i = idx THEN Prepared(r, f) ELSE plan[i]
    <3>1. idx \in DOMAIN plan /\ DOMAIN plan = Recs
      BY <1>1, <1>4 DEF N, Recs
    <3> QED
      BY <1>4, <2>1, <2>8, <3>1
  <2>10. /\ mem' \in [Addr -> Int] /\ free' \in Nat /\ free <= free' /\ free' <= ScratchHigh
         /\ \A a \in Addr : a < free \/ ScratchHigh <= a => mem'[a] = mem[a]
         /\ r.class = Stateless =>
                /\ free' = free + r.size
                /\ \A o \in 0 .. r.size - 1 : mem'[free + o] = Image(n, v, s, r.new)[o]
    <3>1. CASE r.class = Stateless
      <4>1. mem' = Put(mem, free, Image(n, v, s, r.new)) /\ free' = free + r.size
        BY <2>1, <2>2, <2>3, <3>1
      <4>2. free + Size[n][v] <= ScratchHigh /\ free + Size[n][v] < Space /\ r.new \in Int
            /\ free + Size[n][v] \in Nat
        BY <2>4, <2>5, <2>6, <3>1, Numbers
      <4>3. /\ mem' \in [Addr -> Int]
            /\ \A o \in 0 .. Size[n][v] - 1 : mem'[free + o] = Image(n, v, s, r.new)[o]
            /\ \A a \in Addr : a < free \/ free + Size[n][v] <= a => mem'[a] = mem[a]
        BY <2>2, <2>5, <4>1, <4>2, PutImage
      <4>4. \A a \in Addr : a < free \/ ScratchHigh <= a => mem'[a] = mem[a]
        BY <4>2, <4>3, Numbers DEF Addr
      <4> QED
        BY <2>4, <2>5, <4>1, <4>2, <4>3, <4>4
    <3>2. CASE r.class # Stateless
      BY <2>1, <2>5, <3>2
    <3> QED
      BY <3>1, <3>2
  <2>11. Seen' = mem'
    BY <2>1 DEF Seen, Changing
  <2>12. L \in Layouts' /\ Resident(Seen, L)' /\ Len0' = Len0
         /\ \A j \in 1 .. Len0 : SizeIn(L, j)' = SizeIn(L, j)
    <3>1. \A a \in Addr : Bound <= a => Seen'[a] = Seen[a]
      BY <1>3, <2>10, <2>11, Numbers DEF Addr
    <3> QED
      BY <1>1, <1>3, <3>1, InvParts, ResidentStays
  <2>13. idx \in Nat /\ idx >= 1 /\ idx <= N
    BY <1>1, <1>4
  <2>14. TypeOK'
    <3>1. free' \in ScratchLow .. ScratchHigh
      BY <2>5, <2>10, Numbers
    <3> QED
      BY <1>1, <2>1, <2>9, <2>10, <2>12, <2>13, <3>1, InvParts DEF TypeOK, Stages
  <2>15. Requested' /\ Scanned(L)' /\ Passed(L)'
    <3>1. Requested'
      BY <1>1, <2>1, <2>12, InvParts DEF Requested, Working
    <3>2. Scanned(L)'
      BY <1>1, <1>4, <2>1, <2>12 DEF Scanned, Planning, Working, AllScanned
    <3> QED
      BY <2>1, <3>1, <3>2 DEF Passed
  <2>16. Kept' = Kept /\ \A i : /\ NewName(i)' = NewName(i) /\ VerIn(L, i)' = VerIn(L, i)
                                /\ SlotIn(L, i)' = SlotIn(L, i) /\ PlaceIn(L, i)' = PlaceIn(L, i)
    BY <1>1, RequestStays
  <2>17. ASSUME NEW i \in Recs
         PROVE  /\ PlannedRecord(L, i)' /\ plan'[i].new = plan[i].new
                /\ Kept[i] = 0 \/ i < idx + 1 => PreparedRecord(L, i)'
    <3>1. PlannedRecord(L, i) /\ plan[i] \in Record
      BY <1>4
    <3>2. CASE i = idx
      <4>1. plan'[i] = Prepared(r, f) /\ NewName(i) = n /\ VerIn(L, i) = v /\ SlotIn(L, i) = s /\ Kept[i] # 0
        BY <1>1, <2>9, <3>2 DEF n, v, s, k
      <4>2. /\ plan'[i].old = r.old /\ plan'[i].new = r.new /\ plan'[i].size = r.size
            /\ plan'[i].class = r.class
        BY <2>8, <4>1
      <4>3. PlannedRecord(L, i)'
        <5>1. /\ r.new = PlaceIn(L, i) /\ r.size = Size[n][v] /\ r.class = Class[n]
              /\ r.old = (IF Class[n] # Stateless THEN L[Kept[i]].base ELSE 0)
              /\ Class[n] # Stateless => r.src = 0
              /\ Class[n] = ColdOnly => r.disp = 0 /\ r.new = r.old
          BY <3>1, <3>2, <4>1 DEF PlannedRecord, r
        <5>2. Class[n] # Stateless => plan'[i].src = 0
          BY <2>4, <2>8, <4>1, <5>1
        <5>3. Class[n] = ColdOnly => plan'[i].disp = 0 /\ plan'[i].new = plan'[i].old
          BY <2>4, <2>8, <4>1, <5>1
        <5> QED
          BY <2>16, <4>1, <4>2, <5>1, <5>2, <5>3 DEF PlannedRecord
      <4>4. PreparedRecord(L, i)'
        <5>1. Class[n] = Stateful => plan'[i].disp = EntryOffset /\ plan'[i].slots = <<EntryOffset>>
          BY <2>4, <2>8, <4>1
        <5>2. Class[n] = Stateless =>
                /\ plan'[i].disp = EntryOffset /\ plan'[i].src = free
                /\ free + r.size <= ScratchHigh /\ free + r.size <= free'
                /\ \A o \in 0 .. r.size - 1 : Seen'[free + o] = Image(n, v, s, r.new)[o]
          <6> SUFFICES ASSUME Class[n] = Stateless
                       PROVE  /\ plan'[i].disp = EntryOffset /\ plan'[i].src = free
                              /\ free + r.size <= ScratchHigh /\ free + r.size <= free'
                              /\ \A o \in 0 .. r.size - 1 : Seen'[free + o] = Image(n, v, s, r.new)[o]
            OBVIOUS
          <6>1. r.class = Stateless
            BY <2>4
          <6>2. plan'[i].disp = EntryOffset /\ plan'[i].src = free
            BY <2>8, <4>1, <6>1
          <6>3. /\ free' = free + r.size /\ free' \in Nat
                /\ \A o \in 0 .. r.size - 1 : Seen'[free + o] = Image(n, v, s, r.new)[o]
            BY <2>10, <2>11, <6>1
          <6> QED
            BY <2>6, <6>1, <6>2, <6>3
        <5> QED
          BY <2>5, <2>16, <4>1, <4>2, <5>1, <5>2 DEF PreparedRecord
      <4> QED
        BY <3>2, <4>2, <4>3, <4>4 DEF r
    <3>3. CASE i # idx
      <4>1. plan'[i] = plan[i]
        BY <2>9, <3>3
      <4>2. PlannedRecord(L, i)'
        BY <2>16, <3>1, <4>1 DEF PlannedRecord
      <4>3. ASSUME Kept[i] = 0 \/ i < idx + 1 PROVE PreparedRecord(L, i)'
        <5>1. PreparedRecord(L, i)
          <6>1. IsPrepared(i)
            BY <1>4, <2>13, <3>3, <4>3 DEF IsPrepared
          <6> QED
            BY <1>4, <6>1
        <5>2. CASE Kept[i] # 0 /\ Class[NewName(i)] # Stateless
          BY <2>16, <4>1, <5>1, <5>2 DEF PreparedRecord
        <5>3. CASE ~(Kept[i] # 0 /\ Class[NewName(i)] # Stateless)
          <6>1. /\ plan[i].disp = EntryOffset
                /\ ScratchLow <= plan[i].src /\ plan[i].src + plan[i].size <= ScratchHigh
                /\ plan[i].src + plan[i].size <= free
                /\ \A o \in 0 .. plan[i].size - 1 :
                     Seen[plan[i].src + o] = Image(NewName(i), VerIn(L, i), SlotIn(L, i), plan[i].new)[o]
            BY <1>1, <5>1, <5>3 DEF PreparedRecord
          <6>2. plan[i].src \in Nat /\ plan[i].size \in Nat
            BY <3>1, RecordTypes2
          <6>3. \A o \in 0 .. plan[i].size - 1 : Seen'[plan[i].src + o] = Seen[plan[i].src + o]
            <7> SUFFICES ASSUME NEW o \in 0 .. plan[i].size - 1
                         PROVE  Seen'[plan[i].src + o] = Seen[plan[i].src + o]
              OBVIOUS
            <7>1. plan[i].src + o \in Addr /\ plan[i].src + o < free
              <8>1. plan[i].src + plan[i].size <= free
                BY <6>1
              <8>2. plan[i].src + o \in Nat /\ plan[i].src + o < free
                BY <2>5, <6>2, <8>1
              <8> QED
                BY <2>5, <8>2, Numbers DEF Addr
            <7> QED
              BY <1>3, <2>10, <2>11, <7>1
          <6>4. plan[i].src + plan[i].size <= free'
            BY <2>5, <2>10, <6>1, <6>2
          <6> QED
            BY <2>16, <4>1, <5>3, <6>1, <6>3, <6>4 DEF PreparedRecord
        <5> QED
          BY <5>2, <5>3
      <4> QED
        BY <4>1, <4>2, <4>3
    <3> QED
      BY <3>2, <3>3
  <2>18. Planned(L)'
    <3>1. Len(plan') = Len(Kept') /\ DOMAIN Kept' = Recs
      BY <1>4, <2>9, <2>16 DEF N
    <3>2. names' = [i \in DOMAIN Kept' |-> NewName(i)']
      <4>1. names = [i \in DOMAIN Kept |-> NewName(i)]
        BY <1>1, <1>2 DEF LayoutInv, Planned, Planning, Working
      <4> QED
        BY <1>1, <2>16, <4>1
    <3>3. \A i \in Recs : (IsPrepared(i))' => PreparedRecord(L, i)'
      <4>1. \A i \in Recs : (IsPrepared(i))' => Kept[i] = 0 \/ i < idx + 1
        BY <2>1, <2>16 DEF IsPrepared
      <4> QED
        BY <2>17, <4>1
    <3>4. \A i \in Recs : ScratchHigh <= plan'[i].new
      <4>1. \A i \in Recs : ScratchHigh <= plan[i].new
        BY <1>1, <1>2, <1>4 DEF LayoutInv, Planned, Planning, Working
      <4> QED
        BY <2>17, <4>1
    <3>5. idx' \in 1 .. Len(Kept') + 1
      BY <1>4, <2>1, <2>13, <2>16
    <3> QED
      BY <2>1, <2>17, <3>1, <3>2, <3>3, <3>4, <3>5 DEF Planned
  <2>19. (stage # "move" => moved = 0)' /\ (stage \in CommitStages => IInv)'
      /\ (pub \in [head : Int, low : Int, names : Seq(Names)])'
    BY <1>1, <1>3, <2>1, InvParts DEF CommitStages
  <2> QED
    BY <2>12, <2>14, <2>15, <2>18, <2>19 DEF ChangeInv, LayoutInv
<1> QED
  BY <1>5, <1>6

\* What the records ask for: no retained image moves down, and all lie below
\* the ceiling.
LEMMA RecordPlaces ==
    ASSUME PubType, Asked, NEW m, NEW L \in Layouts, Resident(m, L), AllScanned(L),
           NEW i \in DOMAIN Kept, PlannedRecord(L, i), plan[i] \in Record
    PROVE  /\ plan[i].old \in Nat /\ plan[i].new \in Nat /\ plan[i].size \in Nat
           /\ plan[i].size = NewSize(i) /\ plan[i].size >= 6
           /\ plan[i].new + plan[i].size = IF i = 1 THEN Ceiling ELSE PlaceIn(L, i - 1)
           /\ plan[i].new = PlaceIn(L, i)
           /\ plan[i].old # 0 <=> Kept[i] # 0 /\ Class[NewName(i)] # Stateless
           /\ plan[i].old # 0 =>
                /\ Kept[i] \in 1 .. Len0 /\ plan[i].old = L[Kept[i]].base
                /\ plan[i].size = SizeIn(L, Kept[i])
                /\ Bound <= plan[i].old /\ plan[i].old + plan[i].size <= Ceiling
                /\ plan[i].old <= plan[i].new
<1>1. /\ plan[i].old \in Nat /\ plan[i].new \in Nat /\ plan[i].size \in Nat
  BY RecordTypes2
<1>2. plan[i].size = NewSize(i) /\ plan[i].size >= 6
  BY NewSizes DEF PlannedRecord
<1>3. /\ plan[i].new = PlaceIn(L, i)
      /\ plan[i].new + plan[i].size = IF i = 1 THEN Ceiling ELSE PlaceIn(L, i - 1)
  BY <1>2, NewPlaces DEF PlannedRecord
<1>4. plan[i].old = (IF Kept[i] # 0 /\ Class[NewName(i)] # Stateless THEN L[Kept[i]].base ELSE 0)
  BY DEF PlannedRecord
<1>5. ASSUME Kept[i] # 0, Class[NewName(i)] # Stateless
      PROVE  /\ plan[i].old # 0
             /\ Kept[i] \in 1 .. Len0 /\ plan[i].old = L[Kept[i]].base
             /\ plan[i].size = SizeIn(L, Kept[i])
             /\ Bound <= plan[i].old /\ plan[i].old + plan[i].size <= Ceiling
             /\ plan[i].old <= plan[i].new
  <2>1. Kept[i] \in 1 .. Len0
    BY <1>5, KeptModule, KeptParts
  <2>2. plan[i].old = L[Kept[i]].base
    BY <1>4, <1>5
  <2>3. Bound <= L[Kept[i]].base
    BY <2>1 DEF Resident
  <2>4. plan[i].size = SizeIn(L, Kept[i])
    BY <1>2, <1>5, <2>1 DEF NewSize, AllScanned
  <2>5. L[Kept[i]].base + SizeIn(L, Kept[i]) <= Ceiling
    BY <2>1, Stacked
  <2>6. L[Kept[i]].base <= PlaceIn(L, i)
    BY <1>5, NewPlaces
  <2>7. plan[i].old # 0
    BY <1>1, <2>2, <2>3, Numbers
  <2> QED
    BY <1>3, <2>1, <2>2, <2>3, <2>4, <2>5, <2>6, <2>7
<1> QED
  BY <1>1, <1>2, <1>3, <1>4, <1>5

\* The plan is the request that the commit assumes.
LEMMA PlanIsSound ==
    ASSUME ChangeInv, stage \in Planning
    PROVE  RequestSound
<1>1. PICK L \in Layouts : LayoutInv(L)
  BY DEF ChangeInv
<1>2. /\ Asked /\ AllScanned(L) /\ Resident(Seen, L) /\ Recs = DOMAIN Kept /\ PubType
      /\ \A i \in Recs : plan[i] \in Record /\ PlannedRecord(L, i)
  BY <1>1, PlanParts, InvParts
<1>3. \A i \in Recs : plan[i].old # 0 =>
            /\ Kept[i] \in 1 .. Len0 /\ plan[i].old = L[Kept[i]].base /\ plan[i].size = SizeIn(L, Kept[i])
            /\ plan[i].old + plan[i].size <= Ceiling
            /\ plan[i].old \in Nat /\ plan[i].size \in Nat /\ Kept[i] # 0
            /\ Class[NewName(i)] # Stateless
  BY <1>2, RecordPlaces
<1>4. \A i \in Recs : plan[i].old # 0 => plan[i].old + plan[i].size < Space
  BY <1>3, Numbers
<1>5. ASSUME NEW i \in Recs, NEW j \in Recs, i < j, plan[i].old # 0, plan[j].old # 0
      PROVE  plan[j].old + plan[j].size <= plan[i].old
  <2>1. Kept[i] \in 1 .. Len0 /\ Kept[j] \in 1 .. Len0 /\ Kept[j] # 0
    BY <1>3, <1>5
  <2>2. Kept[i] < Kept[j]
    BY <1>2, <1>5, <2>1, KeptModule
  <2>3. L[Kept[j]].base + SizeIn(L, Kept[j]) <= L[Kept[i]].base
    BY <1>2, <2>1, <2>2, Stacked
  <2> QED
    BY <1>3, <1>5, <2>3
<1>6. ASSUME NEW i \in Recs, plan[i].class = ColdOnly, plan[i].old # 0
      PROVE  plan[i].old = plan[i].new
  <2>1. Kept[i] # 0
    BY <1>3, <1>6
  <2>2. Class[NewName(i)] = ColdOnly
    BY <1>2, <1>6 DEF PlannedRecord
  <2> QED
    BY <1>2, <2>1, <2>2 DEF PlannedRecord
<1> QED
  BY <1>4, <1>5, <1>6 DEF RequestSound

\* An image that is to be moved has one slot, and the mover accepts it.
LEMMA MovedSlots ==
    ASSUME ChangeInv, stage \in Planning \ {"keep"}, NEW i \in Recs, Moves(plan[i])
    PROVE  SlotsOK(plan[i]) /\ HasRoom(plan[i])
<1>1. PICK L \in Layouts : LayoutInv(L)
  BY DEF ChangeInv
<1>2. /\ Asked /\ AllScanned(L) /\ Resident(Seen, L) /\ Recs = DOMAIN Kept /\ PubType
      /\ \A j \in Recs : PlannedRecord(L, j) /\ PreparedRecord(L, j)
  BY <1>1, PlanParts, InvParts DEF IsPrepared
<1>3. plan[i].class = Stateful /\ plan[i].old # 0
  BY DEF Moves
<1>4. Kept[i] # 0 /\ Class[NewName(i)] # Stateless /\ Class[NewName(i)] = Stateful
  BY <1>2, <1>3 DEF PlannedRecord
<1>5. plan[i].slots = <<EntryOffset>>
  BY <1>2, <1>4 DEF PreparedRecord
<1>6. NewName(i) \in Names /\ VerIn(L, i) \in Versions
  BY <1>2, KeptModule
<1>7. plan[i].size \in Nat /\ EntryOffset < plan[i].size
  <2>1. plan[i].size = Size[NewName(i)][VerIn(L, i)]
    BY <1>2 DEF PlannedRecord
  <2> QED
    BY <1>6, <2>1, Sizes DEF EntryOffset
<1>8. SlotsOK(plan[i])
  BY <1>5, <1>7 DEF SlotsOK
<1>9. HasRoom(plan[i])
  <2>1. Len(plan[i].slots) = 1
    BY <1>5
  <2> QED
    BY <2>1, SpaceAssumption, ChangeAssumption DEF HasRoom
<1> QED
  BY <1>8, <1>9

\* The mover accepts the slots of every prepared request.
LEMMA PlannedSlots ==
    ASSUME ChangeInv, stage \in Planning \ {"keep"}
    PROVE  SlotsSound
  BY MovedSlots DEF SlotsSound

LEMMA FinalizeStep == ChangeInv /\ Finalize => ChangeInv'
<1> SUFFICES ASSUME ChangeInv, Finalize PROVE ChangeInv'
  OBVIOUS
<1>1. /\ stage = "keep" /\ ~Remaining /\ mem0' = mem /\ idx' = 1
      /\ IF \A i \in Recs : plan[i].new >= Bound
           THEN stage' = "check" /\ cursor' = Top
           ELSE stage' = "idle" /\ UNCHANGED cursor
      /\ UNCHANGED <<mem, plan, names, moved, pub, files, source, op, sizes, free, faults>>
  BY DEF Finalize, cacheVars, changeVars
<1>2. PICK L \in Layouts : LayoutInv(L)
  BY DEF ChangeInv
<1>3. Seen = mem /\ Resident(mem, L) /\ moved = 0 /\ mem \in [Addr -> Int]
  BY <1>1, <1>2, InvParts DEF LayoutInv, TypeOK
<1>4. CASE ~\A i \in Recs : plan[i].new >= Bound
  <2>1. stage' = "idle" /\ UNCHANGED cursor
    BY <1>1, <1>4
  <2>2. TypeOK'
    BY <1>1, <1>3, <2>1, InvParts DEF TypeOK, Stages, Len0
  <2> QED
    BY <1>1, <1>3, <2>1, <2>2, EndsIdle
<1>5. CASE \A i \in Recs : plan[i].new >= Bound
  <2>1. stage' = "check" /\ cursor' = Top
    BY <1>1, <1>5
  <2>2. /\ Asked /\ AllScanned(L)
        /\ plan \in Seq(Record) /\ N = Len(Kept) /\ N \in Nat /\ Recs = DOMAIN Kept /\ Recs = 1 .. N
        /\ \A i \in Recs : plan[i] \in Record /\ PlannedRecord(L, i)
                           /\ (IsPrepared(i) => PreparedRecord(L, i))
    BY <1>1, <1>2, PlanParts DEF Planning, Working
  <2>3. idx \in 1 .. N + 1 /\ (idx \in Recs => Kept[idx] = 0)
    BY <1>1, <1>2, <2>2 DEF LayoutInv, Planned, Planning, Working, Remaining
  <2>4. \A i \in Recs : Kept[i] = 0 \/ i < idx
    <3> SUFFICES ASSUME NEW i \in Recs, Kept[i] # 0 PROVE i < idx
      OBVIOUS
    <3>1. i # idx
      BY <2>3
    <3>2. CASE idx = N + 1
      BY <2>2, <3>2
    <3>3. CASE idx \in Recs
      <4>1. op.kind = "load" /\ idx = Len0 + 1
        BY <2>2, <2>3, <3>3, InvParts, KeptModule
      <4>2. N = Len0 + 1
        BY <2>2, <4>1, InvParts, KeptParts
      <4> QED
        BY <2>2, <3>1, <4>1, <4>2
    <3> QED
      BY <2>2, <2>3, <3>2, <3>3
  <2>5. \A i \in Recs : PreparedRecord(L, i)
    BY <1>1, <2>2, <2>4 DEF IsPrepared
  <2>6. RequestSound
    BY <1>1, PlanIsSound DEF Planning, Working
  <2>7. N' = N /\ Recs' = Recs /\ Top' = Top /\ RequestSound'
    <3>1. N' = N /\ Recs' = Recs
      BY <1>1 DEF N, Recs
    <3> QED
      BY <1>1, <2>6, <3>1 DEF Top, RequestSound
  <2>8. names \in Seq(Names) /\ pub \in [head : Int, low : Int, names : Seq(Names)]
    BY InvParts DEF TypeOK
  <2>9. CommitInit'
    BY <1>1, <1>3, <2>1, <2>2, <2>7, <2>8 DEF CommitInit
  <2>10. IInv'
    <3>1. CommitInit' => IInv'
      BY InitInv, PTL
    <3> QED
      BY <2>9, <3>1
  <2>11. Seen' = mem
    BY <1>1, <2>1 DEF Seen
  <2>12. /\ L \in Layouts' /\ Resident(Seen, L)' /\ Len0' = Len0
         /\ \A k \in 1 .. Len0 : SizeIn(L, k)' = SizeIn(L, k)
    BY <1>1, <1>3, <2>11, InvParts, ResidentStays
  <2>13. TypeOK'
    <3>1. Top \in Nat
      BY Numbers DEF Top
    <3> QED
      BY <1>1, <1>3, <2>1, <2>12, <3>1, InvParts DEF TypeOK, Stages, CommitStages
  <2>14. Requested' /\ Scanned(L)' /\ Passed(L)'
    <3>1. Requested'
      BY <1>1, <2>1, <2>12, InvParts DEF Requested, Working
    <3>2. Scanned(L)'
      BY <1>1, <2>1, <2>2, <2>12 DEF Scanned, Planning, Working, AllScanned
    <3> QED
      BY <2>1, <3>1, <3>2 DEF Passed
  <2>15. Planned(L)'
    <3>1. Kept' = Kept /\ \A i : /\ NewName(i)' = NewName(i) /\ VerIn(L, i)' = VerIn(L, i)
                                 /\ SlotIn(L, i)' = SlotIn(L, i) /\ PlaceIn(L, i)' = PlaceIn(L, i)
      BY <1>1, RequestStays
    <3>2. \A i \in Recs : PlannedRecord(L, i)'
      BY <1>1, <2>2, <3>1 DEF PlannedRecord
    <3>3. \A i \in Recs : PreparedRecord(L, i)'
      BY <1>1, <1>3, <2>1, <2>5, <2>11, <3>1 DEF PreparedRecord
    <3>4. \A i \in Recs : Bound <= plan'[i].new
      <4>1. \A i \in Recs : plan[i].new \in Nat
        BY <2>2, RecordTypes2
      <4> QED
        BY <1>1, <1>5, <4>1, Numbers
    <3>5. Len(plan') = Len(Kept') /\ names' = [i \in DOMAIN Kept' |-> NewName(i)'] /\ DOMAIN Kept' = Recs
      <4>1. names = [i \in DOMAIN Kept |-> NewName(i)]
        BY <1>1, <1>2 DEF LayoutInv, Planned, Planning, Working
      <4> QED
        BY <1>1, <2>2, <3>1, <4>1 DEF N
    <3> QED
      BY <2>1, <3>2, <3>3, <3>4, <3>5 DEF Planned
  <2>16. (stage # "move" => moved = 0)' /\ (pub \in [head : Int, low : Int, names : Seq(Names)])'
    BY <1>1, <1>3, InvParts
  <2> QED
    BY <2>10, <2>12, <2>13, <2>14, <2>15, <2>16 DEF ChangeInv, LayoutInv
<1> QED
  BY <1>4, <1>5

-----------------------------------------------------------------------------
(* The commit.                                                              *)

\* All steps of the commit but the last leave the published profile alone.
LEMMA CommitFrame ==
    ASSUME ChangeInv, CommitNext, ~Publish
    PROVE  /\ stage \in {"check", "move", "copy", "link"} /\ UNCHANGED <<plan, names, pub, mem0>>
           /\ stage' \in {"check", "move", "copy", "link", "refused"}
           /\ stage' # "move" => moved' = 0
           /\ stage' = "refused" => mem' = mem /\ stage = "check"
<1>1. stage # "move" => moved = 0
  BY InvParts
<1>2. CASE Check
  BY <1>1, <1>2 DEF Check
<1>3. CASE Schedule
  BY <1>1, <1>3 DEF Schedule
<1>4. CASE MoveCell
  <2>1. stage = "move" /\ idx \in Recs /\ Moves(plan[idx])
    BY <1>4, InvParts DEF MoveCell, CommitStages, IInv, Moving
  <2>2. SlotsOK(plan[idx])
    BY <2>1, MovedSlots DEF Planning, Working
  <2> QED
    BY <1>4, <2>2 DEF MoveCell
<1>5. CASE Repair
  BY <1>5 DEF Repair, NextMove
<1>6. CASE SkipMove
  BY <1>6 DEF SkipMove, NextMove
<1>7. CASE CopySnapshot
  BY <1>1, <1>7 DEF CopySnapshot
<1>8. CASE Copied
  BY <1>1, <1>8 DEF Copied
<1>9. CASE Link
  BY <1>1, <1>9 DEF Link
<1> QED
  BY <1>2, <1>3, <1>4, <1>5, <1>6, <1>7, <1>8, <1>9 DEF CommitNext

LEMMA CommitQuietStep ==
    ASSUME ChangeInv, CommitNext, ~Publish, UNCHANGED <<cacheVars, changeVars>>
    PROVE  ChangeInv' /\ UNCHANGED pub /\ Seen' = Seen
<1>1. /\ stage \in {"check", "move", "copy", "link"} /\ UNCHANGED <<plan, names, pub, mem0>>
      /\ stage' \in {"check", "move", "copy", "link", "refused"}
      /\ stage' # "move" => moved' = 0
      /\ stage' = "refused" => mem' = mem /\ stage = "check"
  BY CommitFrame
<1>2. UNCHANGED <<files, source, op, sizes, free, faults>>
  BY DEF cacheVars, changeVars
<1>3. IInv /\ IInv'
  <2>1. IInv
    BY <1>1, InvParts DEF CommitStages
  <2> QED
    BY <2>1, InvStep
<1>4. Seen = mem0 /\ Seen' = mem0
  <2>1. stage = "check" => mem = mem0
    BY <1>3 DEF IInv, RefusedUntouched
  <2> QED
    BY <1>1, <2>1 DEF Seen, Changing
<1>5. PICK L \in Layouts : LayoutInv(L)
  BY DEF ChangeInv
<1>6. Resident(Seen, L)
  BY <1>5 DEF LayoutInv
<1>7. /\ L \in Layouts' /\ Resident(Seen, L)' /\ Len0' = Len0
      /\ \A k \in 1 .. Len0 : SizeIn(L, k)' = SizeIn(L, k)
  BY <1>1, <1>2, <1>4, <1>6, InvParts, ResidentStays
<1>8. TypeOK'
  <2>1. CommitTypeOK'
    BY <1>3 DEF IInv
  <2> QED
    BY <1>1, <1>2, <1>7, <2>1, InvParts DEF TypeOK, Stages, CommitTypeOK
<1>9. (stage # "move" => moved = 0)' /\ (stage \in CommitStages => IInv)'
      /\ (pub \in [head : Int, low : Int, names : Seq(Names)])'
  BY <1>1, <1>3, InvParts
<1>10. Passed(L)'
  BY <1>1 DEF Passed
<1>11. Requested' /\ Scanned(L)' /\ Planned(L)'
  <2>1. CASE stage' = "refused"
    BY <2>1 DEF Requested, Scanned, Planned, Working, Planning
  <2>2. CASE stage' # "refused"
    <3>1. stage' \in {"check", "move", "copy", "link"}
      BY <1>1, <2>2
    <3>2. Asked /\ AllScanned(L)
      BY <1>1, <1>5, PlanParts DEF Planning, Working
    <3>3. Requested'
      BY <1>1, <1>2, <1>7, <3>1, InvParts DEF Requested, Working
    <3>4. Scanned(L)'
      BY <1>1, <1>2, <1>7, <3>1, <3>2 DEF Scanned, Planning, Working, AllScanned
    <3>5. Planned(L)'
      <4>1. Kept' = Kept /\ \A i : /\ NewName(i)' = NewName(i) /\ VerIn(L, i)' = VerIn(L, i)
                                   /\ SlotIn(L, i)' = SlotIn(L, i) /\ PlaceIn(L, i)' = PlaceIn(L, i)
        BY <1>1, <1>2, RequestStays
      <4>2. /\ Len(plan) = Len(Kept) /\ names = [i \in DOMAIN Kept |-> NewName(i)]
            /\ \A i \in DOMAIN Kept :
                PlannedRecord(L, i) /\ PreparedRecord(L, i) /\ Bound <= plan[i].new
        BY <1>1, <1>5 DEF LayoutInv, Planned, Planning, Working, IsPrepared
      <4>3. \A i \in DOMAIN Kept : PlannedRecord(L, i)'
        BY <1>1, <4>1, <4>2 DEF PlannedRecord
      <4>4. \A i \in DOMAIN Kept : PreparedRecord(L, i)'
        BY <1>1, <1>4, <3>1, <4>1, <4>2 DEF PreparedRecord
      <4> QED
        BY <1>1, <3>1, <4>1, <4>2, <4>3, <4>4 DEF Planned
    <3> QED
      BY <3>3, <3>4, <3>5
  <2> QED
    BY <2>1, <2>2
<1> QED
  BY <1>1, <1>4, <1>7, <1>8, <1>9, <1>10, <1>11 DEF ChangeInv, LayoutInv

-----------------------------------------------------------------------------
(* The publication.                                                         *)

\* The layout that a change makes.
NewLayout(L) == [i \in Recs |-> [base |-> plan[i].new, ver |-> VerIn(L, i), slot |-> SlotIn(L, i)]]

\* What has arrived at the new places before the publication.
Arrived(L) ==
    /\ \A i \in Recs :
        /\ Looks(mem, plan[i].new, NewName(i), VerIn(L, i), SlotIn(L, i))
        /\ files[SlotIn(L, i)] = Carrier(NewName(i), VerIn(L, i))
        /\ Bound <= plan[i].new /\ plan[i].size = Size[NewName(i)][VerIn(L, i)]
        /\ plan[i].new + plan[i].size = IF i = 1 THEN Ceiling ELSE plan[i - 1].new
        /\ i < N => mem[plan[i].new] = plan[i + 1].new + EntryOffset

\* At the end, no record is of a retained COLD_ONLY module.
LEMMA ReadyRecord ==
    ASSUME ChangeInv, stage = "link", idx = N + 1, NEW L \in Layouts, LayoutInv(L), NEW i \in Recs
    PROVE  /\ plan[i] \in Record /\ plan[i].old \in Nat /\ plan[i].new \in Nat /\ plan[i].size \in Nat
           /\ plan[i].src \in Nat
           /\ plan[i].disp = EntryOffset
           /\ Live(plan[i]) <=> Kept[i] # 0 /\ Class[NewName(i)] # Stateless
           /\ Live(plan[i]) => /\ Class[NewName(i)] = Stateful /\ plan[i].class = Stateful
                               /\ plan[i].slots = <<EntryOffset>>
                               /\ plan[i].old = L[Kept[i]].base /\ Kept[i] \in 1 .. Len0
           /\ ~Live(plan[i]) => \A o \in 0 .. plan[i].size - 1 :
                mem0[plan[i].src + o] = Image(NewName(i), VerIn(L, i), SlotIn(L, i), plan[i].new)[o]
<1>1. /\ Asked /\ AllScanned(L) /\ Resident(Seen, L) /\ PubType /\ Recs = DOMAIN Kept /\ Recs = 1 .. N
      /\ plan[i] \in Record /\ PlannedRecord(L, i) /\ PreparedRecord(L, i) /\ N \in Nat
  BY PlanParts, InvParts DEF Planning, Working, IsPrepared
<1>2. IInv /\ Seen = mem0
  BY InvParts DEF CommitStages
<1>3. Fact(plan[i])
  BY <1>1, <1>2 DEF IInv, Validated, Packed
<1>4. /\ plan[i].old \in Nat /\ plan[i].new \in Nat /\ plan[i].size \in Nat /\ plan[i].src \in Nat
      /\ plan[i].disp \in Nat
  BY <1>1, RecordTypes2
<1>5. plan[i].class = Class[NewName(i)] /\ Class[NewName(i)] \in {Stateless, Stateful, ColdOnly}
  BY <1>1, KeptModule, Sizes DEF PlannedRecord
<1>6. plan[i].old # 0 <=> Kept[i] # 0 /\ Class[NewName(i)] # Stateless
  BY <1>1, RecordPlaces
<1>7. Live(plan[i]) <=> Kept[i] # 0 /\ Class[NewName(i)] # Stateless
  BY <1>5, <1>6 DEF Live, Stateless, Stateful, ColdOnly
<1>8. CASE Kept[i] # 0 /\ Class[NewName(i)] # Stateless
  <2>1. plan[i].disp >= 2
    BY <1>3 DEF Fact, LoaderWords
  <2>2. Class[NewName(i)] # ColdOnly
    BY <1>1, <1>8, <2>1 DEF PlannedRecord
  <2>3. Class[NewName(i)] = Stateful
    BY <1>5, <1>8, <2>2
  <2>4. plan[i].disp = EntryOffset /\ plan[i].slots = <<EntryOffset>>
    BY <1>1, <1>8, <2>3 DEF PreparedRecord
  <2>5. plan[i].old = L[Kept[i]].base /\ Kept[i] \in 1 .. Len0
    BY <1>1, <1>6, <1>8, RecordPlaces
  <2> QED
    BY <1>1, <1>4, <1>5, <1>7, <1>8, <2>3, <2>4, <2>5
<1>9. CASE ~(Kept[i] # 0 /\ Class[NewName(i)] # Stateless)
  <2>1. /\ plan[i].disp = EntryOffset
        /\ \A o \in 0 .. plan[i].size - 1 :
                Seen[plan[i].src + o] = Image(NewName(i), VerIn(L, i), SlotIn(L, i), plan[i].new)[o]
    BY <1>1, <1>9 DEF PreparedRecord
  <2> QED
    BY <1>1, <1>2, <1>4, <1>7, <1>9, <2>1
<1> QED
  BY <1>8, <1>9

\* A fresh image is as it should look.
LEMMA FreshLooks ==
    ASSUME NEW n \in Names, NEW v \in Versions, NEW s \in Slots, NEW b \in Nat
    PROVE  /\ Image(n, v, s, b)[DescOffset] = Size[n][v]
           /\ Image(n, v, s, b)[EntryOffset] = b + DataAt(n, v)
           /\ Image(n, v, s, b)[DataAt(n, v)] = v
           /\ Image(n, v, s, b)[Size[n][v] - 1] = Footer(s, v)
           /\ \A o \in EntryOffset + 1 .. DataAt(n, v) - 1 : Image(n, v, s, b)[o] = v
<1>1. Size[n][v] \in Nat /\ Size[n][v] >= 6 /\ DataAt(n, v) = Size[n][v] - 2
  BY Sizes
<1>2. \A o \in 0 .. Size[n][v] - 1 : Image(n, v, s, b)[o] =
            IF o < LoaderWords THEN 0
            ELSE IF o = DescOffset THEN Size[n][v]
            ELSE IF o = EntryOffset THEN b + DataAt(n, v)
            ELSE IF o = Size[n][v] - 1 THEN Footer(s, v)
            ELSE v
  BY DEF Image
<1>3. LoaderWords = 2 /\ DescOffset = 2 /\ EntryOffset = 3
  BY DEF LoaderWords, DescOffset, EntryOffset
<1>4. Image(n, v, s, b)[2] = Size[n][v]
  BY <1>1, <1>2, <1>3
<1>5. Image(n, v, s, b)[3] = b + DataAt(n, v)
  BY <1>1, <1>2, <1>3
<1>6. Image(n, v, s, b)[Size[n][v] - 2] = v
  BY <1>1, <1>2, <1>3
<1>7. Image(n, v, s, b)[Size[n][v] - 1] = Footer(s, v)
  BY <1>1, <1>2, <1>3
<1>8. \A o \in 4 .. Size[n][v] - 2 - 1 : Image(n, v, s, b)[o] = v
  BY <1>1, <1>2, <1>3
<1>9. EntryOffset + 1 = 4
  BY <1>3
<1> QED
  BY <1>1, <1>3, <1>4, <1>5, <1>6, <1>7, <1>8, <1>9

\* A moved image looks as before, with its pointer adjusted.
LEMMA MovedLooks ==
    ASSUME NEW r \in Record, NEW n \in Names, NEW v \in Versions, NEW s \in Slots, NEW m, NEW h,
           r.class = Stateful, r.old # 0, r.slots = <<EntryOffset>>, r.size = Size[n][v],
           Looks(h, r.old, n, v, s),
           \A o \in LoaderWords .. r.size - 1 : m[r.new + o] =
                IF Moves(r) THEN Repaired(r, o, h[r.old + o]) ELSE h[r.old + o]
    PROVE  Looks(m, r.new, n, v, s)
<1>1. /\ Size[n][v] \in Nat /\ Size[n][v] >= 6 /\ DataAt(n, v) = Size[n][v] - 2
      /\ r.old \in Nat /\ r.new \in Nat /\ r.size \in Nat
  BY Sizes, RecordTypes2
<1>2. LoaderWords = 2 /\ DescOffset = 2 /\ EntryOffset = 3 /\ EntryOffset + 1 = 4
  BY DEF LoaderWords, DescOffset, EntryOffset
<1>3. /\ h[r.old + 2] = r.size /\ h[r.old + 3] \in {0, r.old + (r.size - 2)}
      /\ h[r.old + (r.size - 2)] \in {0, v} /\ h[r.old + (r.size - 1)] = Footer(s, v)
      /\ \A o \in 4 .. r.size - 2 - 1 : h[r.old + o] = v
  <2>1. r.old + r.size - 1 = r.old + (r.size - 1)
    BY <1>1
  <2> QED
    BY <1>1, <1>2, <2>1 DEF Looks
<1>4. ~Moves(r) => r.old = r.new
  BY DEF Moves
<1>5. \A o \in 2 .. r.size - 1 : o # 3 => m[r.new + o] = h[r.old + o]
  <2> SUFFICES ASSUME NEW o \in 2 .. r.size - 1, o # 3 PROVE m[r.new + o] = h[r.old + o]
    OBVIOUS
  <2>1. Repaired(r, o, h[r.old + o]) = h[r.old + o]
    BY <1>2 DEF Repaired, Pointers
  <2> QED
    BY <1>2, <2>1
<1>6. m[r.new + 3] \in {0, r.new + (r.size - 2)}
  <2>1. 3 \in 2 .. r.size - 1
    BY <1>1
  <2>2. m[r.new + 3] = IF Moves(r) THEN Repaired(r, 3, h[r.old + 3]) ELSE h[r.old + 3]
    BY <1>2, <2>1
  <2>3. CASE h[r.old + 3] = 0
    <3>1. Repaired(r, 3, 0) = 0
      BY <1>1 DEF Repaired, Pointers
    <3> QED
      BY <2>2, <2>3, <3>1
  <2>4. CASE h[r.old + 3] = r.old + (r.size - 2)
    <3>1. Repaired(r, 3, r.old + (r.size - 2)) = r.new + (r.size - 2)
      BY <1>1, <1>2 DEF Repaired, Pointers
    <3> QED
      BY <1>4, <2>2, <2>4, <3>1
  <2> QED
    BY <1>3, <2>3, <2>4
<1>7. m[r.new + 2] = r.size
  BY <1>1, <1>3, <1>5
<1>8. m[r.new + (r.size - 2)] \in {0, v} /\ m[r.new + (r.size - 1)] = Footer(s, v)
  BY <1>1, <1>3, <1>5
<1>9. \A o \in 4 .. r.size - 2 - 1 : m[r.new + o] = v
  BY <1>1, <1>3, <1>5
<1>10. r.new + r.size - 1 = r.new + (r.size - 1)
  BY <1>1
<1> QED
  BY <1>1, <1>2, <1>6, <1>7, <1>8, <1>9, <1>10 DEF Looks

\* A new image looks as its snapshot.
LEMMA LoadedLooks ==
    ASSUME NEW n \in Names, NEW v \in Versions, NEW s \in Slots, NEW b \in Nat, NEW m,
           \A o \in LoaderWords .. Size[n][v] - 1 : m[b + o] = Image(n, v, s, b)[o]
    PROVE  Looks(m, b, n, v, s)
<1>1. Size[n][v] \in Nat /\ Size[n][v] >= 6 /\ DataAt(n, v) = Size[n][v] - 2
  BY Sizes
<1>2. LoaderWords = 2 /\ DescOffset = 2 /\ EntryOffset = 3
  BY DEF LoaderWords, DescOffset, EntryOffset
<1> DEFINE img == Image(n, v, s, b)
<1>3. /\ img[DescOffset] = Size[n][v] /\ img[EntryOffset] = b + DataAt(n, v)
      /\ img[DataAt(n, v)] = v /\ img[Size[n][v] - 1] = Footer(s, v)
      /\ \A o \in EntryOffset + 1 .. DataAt(n, v) - 1 : img[o] = v
  BY FreshLooks
<1> HIDE DEF img
<1>4. \A o \in 2 .. Size[n][v] - 1 : m[b + o] = img[o]
  BY <1>2 DEF img
<1>5. /\ m[b + DescOffset] = img[DescOffset] /\ m[b + EntryOffset] = img[EntryOffset]
      /\ m[b + DataAt(n, v)] = img[DataAt(n, v)] /\ m[b + (Size[n][v] - 1)] = img[Size[n][v] - 1]
      /\ \A o \in EntryOffset + 1 .. DataAt(n, v) - 1 : m[b + o] = img[o]
  BY <1>1, <1>2, <1>4
<1>6. b + Size[n][v] - 1 = b + (Size[n][v] - 1)
  BY <1>1
<1> QED
  BY <1>3, <1>5, <1>6 DEF Looks

LEMMA AllArrived ==
    ASSUME ChangeInv, stage = "link", idx = N + 1, NEW L \in Layouts, LayoutInv(L)
    PROVE  Arrived(L)
<1>1. /\ Asked /\ AllScanned(L) /\ Resident(Seen, L) /\ PubType /\ Recs = DOMAIN Kept /\ Recs = 1 .. N
      /\ N \in Nat /\ \A i \in Recs : plan[i] \in Record /\ PlannedRecord(L, i)
  BY PlanParts, InvParts DEF Planning, Working
<1>2. IInv /\ Seen = mem0
  BY InvParts DEF CommitStages
<1>3. ASSUME NEW i \in Recs
      PROVE  Looks(mem, plan[i].new, NewName(i), VerIn(L, i), SlotIn(L, i))
  <2>1. NewName(i) \in Names /\ VerIn(L, i) \in Versions /\ SlotIn(L, i) \in Slots
    BY <1>1, KeptModule
  <2>2. plan[i].size = Size[NewName(i)][VerIn(L, i)] /\ plan[i] \in Record /\ plan[i].new \in Nat
    BY <1>1, RecordTypes2 DEF PlannedRecord
  <2>3. \A o \in LoaderWords .. plan[i].size - 1 : mem[plan[i].new + o] = Expected(plan[i], o)
    BY <1>2 DEF IInv, Linking
  <2>4. CASE Live(plan[i])
    <3>1. /\ plan[i].class = Stateful /\ plan[i].slots = <<EntryOffset>> /\ plan[i].old # 0
          /\ plan[i].old = L[Kept[i]].base /\ Kept[i] \in 1 .. Len0 /\ Kept[i] # 0
      BY <2>4, ReadyRecord DEF Live
    <3>2. Looks(mem0, plan[i].old, NewName(i), VerIn(L, i), SlotIn(L, i))
      <4>1. Looks(mem0, L[Kept[i]].base, pub.names[Kept[i]], L[Kept[i]].ver, L[Kept[i]].slot)
        BY <1>1, <1>2, <3>1 DEF Resident
      <4> QED
        BY <3>1, <4>1 DEF NewName, VerIn, SlotIn
    <3>3. \A o \in LoaderWords .. plan[i].size - 1 : mem[plan[i].new + o] =
              IF Moves(plan[i]) THEN Repaired(plan[i], o, mem0[plan[i].old + o])
              ELSE mem0[plan[i].old + o]
      BY <2>3, <2>4 DEF Expected
    <3> DEFINE r == plan[i]
               n == NewName(i)
               v == VerIn(L, i)
               s == SlotIn(L, i)
    <3>4. /\ r \in Record /\ n \in Names /\ v \in Versions /\ s \in Slots
          /\ r.class = Stateful /\ r.old # 0 /\ r.slots = <<EntryOffset>> /\ r.size = Size[n][v]
          /\ Looks(mem0, r.old, n, v, s)
          /\ \A o \in LoaderWords .. r.size - 1 : mem[r.new + o] =
                IF Moves(r) THEN Repaired(r, o, mem0[r.old + o]) ELSE mem0[r.old + o]
      BY <2>1, <2>2, <3>1, <3>2, <3>3
    <3> HIDE DEF r, n, v, s
    <3>5. Looks(mem, r.new, n, v, s)
      BY <3>4, MovedLooks
    <3> QED
      BY <3>5 DEF r, n, v, s
  <2>5. CASE ~Live(plan[i])
    <3> DEFINE n == NewName(i)
               v == VerIn(L, i)
               s == SlotIn(L, i)
               b == plan[i].new
    <3>1. \A o \in 0 .. plan[i].size - 1 : mem0[plan[i].src + o] = Image(n, v, s, b)[o]
      BY <2>5, ReadyRecord
    <3>2. \A o \in LoaderWords .. plan[i].size - 1 : mem[b + o] = mem0[plan[i].src + o]
      BY <2>3, <2>5 DEF Expected
    <3>3. /\ n \in Names /\ v \in Versions /\ s \in Slots /\ b \in Nat /\ plan[i].size = Size[n][v]
      BY <2>1, <2>2
    <3> HIDE DEF n, v, s, b
    <3>4. \A o \in LoaderWords .. Size[n][v] - 1 : mem[b + o] = Image(n, v, s, b)[o]
      BY <3>1, <3>2, <3>3 DEF LoaderWords
    <3>5. Looks(mem, b, n, v, s)
      BY <3>3, <3>4, LoadedLooks
    <3> QED
      BY <3>5 DEF n, v, s, b
  <2> QED
    BY <2>4, <2>5
<1>4. ASSUME NEW i \in Recs
      PROVE  files[SlotIn(L, i)] = Carrier(NewName(i), VerIn(L, i))
  <2>1. CASE Kept[i] = 0
    <3>1. op.kind = "load"
      BY <1>1, <2>1, KeptModule
    <3>2. files[op.slot] = Carrier(op.name, op.ver)
      BY <3>1, InvParts DEF Requested, Working
    <3> QED
      BY <2>1, <3>2 DEF NewName, VerIn, SlotIn
  <2>2. CASE Kept[i] # 0
    <3>1. Kept[i] \in 1 .. Len0
      BY <1>1, <2>2, KeptModule, KeptParts
    <3>2. files[L[Kept[i]].slot] = Carrier(pub.names[Kept[i]], L[Kept[i]].ver)
      BY <1>1, <3>1 DEF Resident
    <3> QED
      BY <2>2, <3>2 DEF NewName, VerIn, SlotIn
  <2> QED
    BY <2>1, <2>2
<1>5. ASSUME NEW i \in Recs
      PROVE  /\ Bound <= plan[i].new /\ plan[i].size = Size[NewName(i)][VerIn(L, i)]
             /\ plan[i].new + plan[i].size = IF i = 1 THEN Ceiling ELSE plan[i - 1].new
  <2>1. Bound <= plan[i].new
    BY <1>1 DEF LayoutInv, Planned, Planning, Working
  <2>2. plan[i].new + plan[i].size = IF i = 1 THEN Ceiling ELSE PlaceIn(L, i - 1)
    BY <1>1, RecordPlaces
  <2>3. i # 1 => plan[i - 1].new = PlaceIn(L, i - 1)
    <3>1. i # 1 => i - 1 \in Recs
      BY <1>1
    <3> QED
      BY <1>1, <3>1 DEF PlannedRecord
  <2> QED
    BY <1>1, <2>1, <2>2, <2>3 DEF PlannedRecord
<1>6. ASSUME NEW i \in Recs, i < N
      PROVE  mem[plan[i].new] = plan[i + 1].new + EntryOffset
  <2>1. i + 1 \in Recs /\ ~(i + 1 > N) /\ i < idx
    BY <1>1, <1>6
  <2>2. mem[plan[i].new] = Entry(i + 1)
    BY <1>2, <2>1 DEF IInv, Linking
  <2>3. plan[i + 1].disp = EntryOffset
    BY <2>1, ReadyRecord
  <2> QED
    BY <2>1, <2>2, <2>3 DEF Entry
<1> QED
  BY <1>3, <1>4, <1>5, <1>6 DEF Arrived

LEMMA PublishChange ==
    ASSUME ChangeInv, Publish, UNCHANGED <<cacheVars, changeVars>>, NEW L \in Layouts, LayoutInv(L)
    PROVE  /\ ChangeInv' /\ \E K : K = NewLayout(L) /\ K \in Layouts' /\ LayoutInv(K)'
           /\ Len0' = N /\ pub'.names = names /\ Seen' = mem /\ Seen = mem0
<1>1. /\ stage = "link" /\ idx = N + 1 /\ stage' = "published" /\ mem' = mem
      /\ pub' = [head |-> IF N = 0 THEN 0 ELSE plan[1].new,
                 low |-> IF N = 0 THEN EmptyTop ELSE cursor, names |-> names]
      /\ UNCHANGED <<plan, names, idx, moved, cursor, mem0>>
  BY DEF Publish
<1>2. UNCHANGED <<files, source, op, sizes, free, faults>>
  BY DEF cacheVars, changeVars
<1>3. /\ Asked /\ AllScanned(L) /\ Resident(Seen, L) /\ PubType /\ Recs = DOMAIN Kept /\ Recs = 1 .. N
      /\ N = Len(Kept) /\ N \in Nat /\ \A i \in Recs : plan[i] \in Record /\ PlannedRecord(L, i)
  BY <1>1, PlanParts, InvParts DEF Planning, Working
<1>4. /\ names = [i \in Recs |-> NewName(i)] /\ Len(names) = N /\ names \in Seq(Names)
      /\ DOMAIN names = Recs
  <2>1. names = [i \in DOMAIN Kept |-> NewName(i)] /\ names \in Seq(Names)
    BY <1>1, InvParts DEF LayoutInv, Planned, Planning, Working, TypeOK
  <2>2. DOMAIN names = 1 .. N
    BY <1>3, <2>1
  <2>3. Len(names) = N
    BY <1>3, <2>1, <2>2
  <2> QED
    BY <1>3, <2>1, <2>2, <2>3
<1>5. pub'.names = names /\ pub'.head = (IF N = 0 THEN 0 ELSE plan[1].new) /\ Len0' = N
  BY <1>1, <1>4 DEF Len0
<1>6. Seen = mem0 /\ Seen' = mem
  BY <1>1 DEF Seen, Changing
<1>7. Arrived(L)
  BY <1>1, AllArrived
<1>8. ASSUME NEW i \in Recs
      PROVE  /\ plan[i].new \in Nat /\ VerIn(L, i) \in Versions /\ SlotIn(L, i) \in Slots
             /\ NewName(i) \in Names
  BY <1>3, KeptModule, RecordTypes2
<1>0. PICK K : K = NewLayout(L)
  OBVIOUS
<1>9. /\ \A i \in Recs : K[i].base = plan[i].new /\ K[i].ver = VerIn(L, i) /\ K[i].slot = SlotIn(L, i)
      /\ K \in [1 .. N -> [base : Nat, ver : Versions, slot : Slots]]
  BY <1>3, <1>8, <1>0 DEF NewLayout
<1>10. K \in Layouts'
  BY <1>5, <1>9 DEF Layouts
<1>11. \A i \in Recs : SizeIn(K, i)' = plan[i].size /\ pub'.names[i] = NewName(i)
  <2> SUFFICES ASSUME NEW i \in Recs PROVE SizeIn(K, i)' = plan[i].size /\ pub'.names[i] = NewName(i)
    OBVIOUS
  <2>1. pub'.names[i] = NewName(i)
    BY <1>4, <1>5
  <2> QED
    BY <1>7, <1>9, <2>1 DEF Arrived, SizeIn
<1>12. Resident(Seen, K)'
  <2>1. pub'.head = IF Len0' = 0 THEN 0 ELSE K[1].base
    <3>1. N # 0 => 1 \in Recs
      BY <1>3
    <3> QED
      BY <1>5, <1>9, <3>1
  <2>2. ASSUME NEW i \in 1 .. Len0'
        PROVE  /\ Looks(Seen, K[i].base, pub.names[i], K[i].ver, K[i].slot)'
               /\ files'[K[i].slot] = Carrier(pub'.names[i], K[i].ver)
               /\ Bound <= K[i].base
               /\ K[i].base + SizeIn(K, i)' = IF i = 1 THEN Ceiling ELSE K[i - 1].base
               /\ i < Len0' => Seen'[K[i].base] = K[i + 1].base + EntryOffset
    <3>1. i \in Recs
      BY <1>3, <1>5
    <3>2. Looks(Seen, K[i].base, pub.names[i], K[i].ver, K[i].slot)'
      BY <1>1, <1>6, <1>7, <1>9, <1>11, <3>1 DEF Arrived, Looks
    <3>3. files'[K[i].slot] = Carrier(pub'.names[i], K[i].ver) /\ Bound <= K[i].base
      BY <1>2, <1>7, <1>9, <1>11, <3>1 DEF Arrived
    <3>4. K[i].base + SizeIn(K, i)' = IF i = 1 THEN Ceiling ELSE K[i - 1].base
      <4>1. i # 1 => i - 1 \in Recs
        BY <1>3, <3>1
      <4> QED
        BY <1>7, <1>9, <1>11, <3>1, <4>1 DEF Arrived
    <3>5. i < Len0' => Seen'[K[i].base] = K[i + 1].base + EntryOffset
      <4>1. i < Len0' => i + 1 \in Recs /\ i < N
        BY <1>3, <1>5, <3>1
      <4> QED
        BY <1>6, <1>7, <1>9, <3>1, <4>1 DEF Arrived
    <3> QED
      BY <3>2, <3>3, <3>4, <3>5
  <2>3. \A i \in 1 .. Len0' : (files[K[i].slot] = Carrier(pub.names[i], K[i].ver))'
    BY <2>2 DEF Carrier
  <2> QED
    BY <2>1, <2>2, <2>3 DEF Resident
<1>13. Requested' /\ Scanned(K)' /\ Planned(K)' /\ Passed(K)'
  BY <1>1 DEF Requested, Scanned, Planned, Passed, Working, Planning
<1>14. IInv'
  <2>1. IInv
    BY <1>1, InvParts DEF CommitStages
  <2>2. CommitNext
    BY DEF CommitNext
  <2> QED
    BY <2>1, <2>2, InvStep
<1>15. (pub \in [head : Int, low : Int, names : Seq(Names)])'
  BY <1>14 DEF IInv, CommitTypeOK
<1>16. TypeOK'
  <2>1. IsInjective(pub'.names)
    <3>1. \A i, j \in Recs : NewName(i) = NewName(j) => i = j
      <4> SUFFICES ASSUME NEW i \in Recs, NEW j \in Recs, NewName(i) = NewName(j), i # j PROVE FALSE
        OBVIOUS
      <4>1. \A p \in 1 .. Len0 : pub.names[p] \in Range(pub.names)
        BY <1>3 DEF PubType, Len0, Range
      <4>2. \A p, q \in 1 .. Len0 : pub.names[p] = pub.names[q] => p = q
        <5>1. IsInjective(pub.names) /\ DOMAIN pub.names = 1 .. Len0
          BY InvParts DEF TypeOK, PubType, Len0
        <5> QED
          BY <5>1 DEF IsInjective
      <4>3. /\ Kept[i] # 0 => Kept[i] \in 1 .. Len0 /\ NewName(i) = pub.names[Kept[i]]
            /\ Kept[j] # 0 => Kept[j] \in 1 .. Len0 /\ NewName(j) = pub.names[Kept[j]]
        BY <1>3, KeptModule, KeptParts
      <4>4. Kept[i] # 0 /\ Kept[j] # 0 => Kept[i] # Kept[j]
        <5>1. i < j \/ j < i
          BY <1>3
        <5> QED
          BY <1>3, <4>3, <5>1, KeptModule
      <4>5. Kept[i] = 0 /\ Kept[j] = 0 => i = j
        BY <1>3, KeptModule
      <4>6. /\ Kept[i] = 0 => NewName(i) = op.name /\ op.name \notin Range(pub.names)
            /\ Kept[j] = 0 => NewName(j) = op.name /\ op.name \notin Range(pub.names)
        BY <1>3, KeptModule DEF Asked
      <4> QED
        BY <4>1, <4>2, <4>3, <4>4, <4>5, <4>6
    <3>2. DOMAIN names = Recs /\ \A i \in Recs : names[i] = NewName(i)
      BY <1>4
    <3> QED
      BY <1>5, <3>1, <3>2 DEF IsInjective
  <2>2. Range(pub'.names) \subseteq Names
    BY <1>4, <1>5, <1>8 DEF Range
  <2>3. N <= MaxLive
    BY <1>3, KeptParts
  <2>4. pub'.head \in Nat /\ pub'.low \in Nat
    <3>1. N # 0 => 1 \in Recs
      BY <1>3
    <3>2. cursor \in Nat
      BY InvParts DEF TypeOK
    <3> QED
      BY <1>1, <1>8, <3>1, <3>2, Numbers
  <2> QED
    BY <1>1, <1>2, <1>5, <2>1, <2>2, <2>3, <2>4, InvParts DEF TypeOK, Stages, CommitStages
<1>17. (stage # "move" => moved = 0)' /\ (stage \in CommitStages => IInv)'
  BY <1>1, <1>14, InvParts
<1>18. ChangeInv'
  BY <1>10, <1>12, <1>13, <1>15, <1>16, <1>17 DEF ChangeInv, LayoutInv
<1> QED
  BY <1>5, <1>6, <1>0, <1>10, <1>12, <1>13, <1>18 DEF LayoutInv

-----------------------------------------------------------------------------
(* Every step keeps the invariant.                                          *)

LEMMA CommitChange == ChangeInv /\ Commit => ChangeInv'
<1> SUFFICES ASSUME ChangeInv, Commit PROVE ChangeInv'
  OBVIOUS
<1>1. CommitNext /\ UNCHANGED <<cacheVars, changeVars>>
  BY DEF Commit
<1>2. CASE Publish
  <2>1. PICK L \in Layouts : LayoutInv(L)
    BY DEF ChangeInv
  <2> QED
    BY <1>1, <1>2, <2>1, PublishChange
<1>3. CASE ~Publish
  BY <1>1, <1>3, CommitQuietStep
<1> QED
  BY <1>2, <1>3

LEMMA IdleChange == ChangeInv /\ UNCHANGED vars => ChangeInv'
<1> SUFFICES ASSUME ChangeInv, UNCHANGED vars PROVE ChangeInv'
  OBVIOUS
<1>1. UNCHANGED <<mem, plan, names, stage, idx, moved, cursor, pub, mem0, files, source, op, sizes,
                  free, faults>> /\ UNCHANGED commitVars
  BY DEF vars, commitVars, cacheVars, changeVars
<1>2. PICK L \in Layouts : LayoutInv(L)
  BY DEF ChangeInv
<1>3. Seen' = Seen
  BY <1>1 DEF Seen, Changing
<1>4. /\ L \in Layouts' /\ Resident(Seen, L)' /\ Len0' = Len0
      /\ \A k \in 1 .. Len0 : SizeIn(L, k)' = SizeIn(L, k)
  BY <1>1, <1>2, <1>3, InvParts, ResidentStays DEF LayoutInv
<1>5. Kept' = Kept /\ \A i : /\ NewName(i)' = NewName(i) /\ VerIn(L, i)' = VerIn(L, i)
                             /\ SlotIn(L, i)' = SlotIn(L, i) /\ PlaceIn(L, i)' = PlaceIn(L, i)
  BY <1>1, RequestStays
<1>6. Scanned(L)'
  <2>1. \A k \in 1 .. Len(sizes) : k \in 1 .. Len0 \/ stage \notin Working
    <3>1. stage \in Working => Len(sizes) <= Len0 /\ Len(sizes) \in Nat /\ Len0 \in Nat
      BY <1>2, InvParts DEF LayoutInv, Scanned, Working, Planning, TypeOK
    <3> QED
      BY <3>1
  <2> QED
    BY <1>1, <1>2, <1>4, <2>1 DEF LayoutInv, Scanned
<1>7. Planned(L)'
  <2>1. \A i : PlannedRecord(L, i)' = PlannedRecord(L, i)
    BY <1>1, <1>5 DEF PlannedRecord
  <2>2. \A i : PreparedRecord(L, i) => PreparedRecord(L, i)'
    <3> SUFFICES ASSUME NEW i, PreparedRecord(L, i) PROVE PreparedRecord(L, i)'
      OBVIOUS
    <3>1. /\ Kept'[i] = Kept[i] /\ NewName(i)' = NewName(i)
          /\ Image(NewName(i), VerIn(L, i), SlotIn(L, i), plan[i].new)'
               = Image(NewName(i), VerIn(L, i), SlotIn(L, i), plan[i].new)
      BY <1>1, <1>5 DEF Image, DataAt, Footer
    <3> QED
      BY <1>1, <1>3, <3>1 DEF PreparedRecord
  <2>3. \A i : (IsPrepared(i))' = IsPrepared(i)
    BY <1>1, <1>5 DEF IsPrepared
  <2>4. Planned(L)
    BY <1>2 DEF LayoutInv
  <2> QED
    BY <1>1, <1>5, <2>1, <2>2, <2>3, <2>4 DEF Planned
<1>8. Passed(L)'
  BY <1>1, <1>2, <1>4 DEF LayoutInv, Passed, Cleaned1
<1>9. TypeOK' /\ Requested'
  BY <1>1, <1>4, InvParts DEF TypeOK, Requested
<1>10. (stage \in CommitStages => IInv)'
  <2>1. stage \in CommitStages => IInv
    BY InvParts
  <2> QED
    BY <1>1, <2>1, StutterStep
<1>11. (stage # "move" => moved = 0)' /\ (pub \in [head : Int, low : Int, names : Seq(Names)])'
  BY <1>1, InvParts
<1> QED
  BY <1>4, <1>6, <1>7, <1>8, <1>9, <1>10, <1>11 DEF ChangeInv, LayoutInv

LEMMA ChangeStep == Regular /\ ChangeInv /\ [Next]_vars => ChangeInv'
  BY StartStep, CleanFileStep, CleanFailsStep, CleanedStep, NextSlotStep, TakeSlotStep, SlotFailsStep,
     ScanHeaderStep, PlanStep, KeepStep, FinalizeStep, CommitChange, ReturnStep, FinishStep,
     InterruptedStep, RunModuleStep, RebuildStep, IdleChange DEF Next

LEMMA Always ==
    ASSUME Regular PROVE Spec => []ChangeInv
<1>1. Init => ChangeInv
  BY ChangeInit
<1>2. ChangeInv /\ [Next]_vars => ChangeInv'
  BY ChangeStep
<1> QED
  BY <1>1, <1>2, PTL DEF Spec

-----------------------------------------------------------------------------
(* What follows of the states of a change.                                  *)

\* The state of a change keeps its types.
THEOREM ChangeTypes ==
    ASSUME Regular PROVE Spec => []TypeOK
<1>1. ChangeInv => TypeOK
  BY DEF ChangeInv
<1> QED
  BY <1>1, Always, PTL

\* Every request that reaches the commit is one that its proofs assume: the
\* retained images lie packed in the order of the records, COLD_ONLY ones stay
\* (r3prof.mac, r3drop.mac, rsxplan.mac), and the mover accepts the slots
\* (r3kpre.mac, rsxslots.mac).
THEOREM PlanFeedsCommit ==
    ASSUME Regular PROVE Spec => []PlansAreSound
<1>1. ChangeInv => PlansAreSound
  BY PlanIsSound, PlannedSlots DEF PlansAreSound, Planning, Working
<1> QED
  BY <1>1, Always, PTL

\* Through whole changes, with their faults and refusals, a published profile's
\* images are complete.
THEOREM ImagesStayWhole ==
    ASSUME Regular PROVE Spec => []ImagesIntact
<1>1. ChangeInv => ImagesIntact
  <2> SUFFICES ASSUME ChangeInv, stage = "published" PROVE ImagesIntact
    BY DEF ImagesIntact
  <2>1. IInv
    BY InvParts DEF CommitStages
  <2> QED
    BY <2>1 DEF IInv, Linking, ImagesIntact
<1> QED
  BY <1>1, Always, PTL

\* Whatever was planned, a commit writes only the new places of the images.
THEOREM ChangesStayInPlace ==
    ASSUME Regular PROVE Spec => []OnlyImagesChange
<1>1. ChangeInv => OnlyImagesChange
  <2> SUFFICES ASSUME ChangeInv, stage \in CommitStages PROVE OnlyImagesChange
    BY DEF OnlyImagesChange
  <2> QED
    BY InvParts DEF IInv
<1> QED
  BY <1>1, Always, PTL

\* The chain of a profile that a change publishes leads to the core.
THEOREM ChangesLinkToCore ==
    ASSUME Regular PROVE Spec => []ChainIntact
<1>1. ChangeInv => ChainIntact
  <2> SUFFICES ASSUME ChangeInv, stage = "published" PROVE ChainIntact
    BY DEF ChainIntact
  <2>1. IInv
    BY InvParts DEF CommitStages
  <2>2. N # 0 => pub.head = plan[1].new /\ pub.low = plan[N].new
    BY <2>1 DEF IInv, Heads, LowEnd
  <2>3. N \in Nat /\ idx = N + 1
    BY <2>1, AfterCheck DEF IInv, Linking
  <2>4. \A i \in Recs : i < idx
    BY <2>3 DEF Recs
  <2> QED
    BY <2>1, <2>2, <2>4 DEF IInv, Linking, ChainIntact
<1> QED
  BY <1>1, Always, PTL

\* As long as modules are resident, the file of each is in place and holds the
\* carrier that the module was loaded from, whatever failed on the way
\* (r3cache.mac, CLEAN and RESERVE: no file that a footer names is touched).
LEMMA CarriersLive ==
    ASSUME Regular, ChangeInv PROVE LiveCarriersKept
<1> SUFFICES ASSUME ~Changing, NEW k \in 1 .. Len0
             PROVE  LET w == FooterIn(mem, k)
                    IN SlotOf(w) \in Slots /\ files[SlotOf(w)] = Carrier(pub.names[k], VersionOf(w))
  BY DEF LiveCarriersKept
<1>1. PICK L \in Layouts : LayoutInv(L)
  BY DEF ChangeInv
<1>2. Seen = mem
  <2>1. CASE stage = "check"
    <3>1. mem = mem0
      BY <2>1, InvParts DEF CommitStages, IInv, RefusedUntouched
    <3> QED
      BY <2>1, <3>1 DEF Seen
  <2>2. CASE stage # "check"
    BY <2>2 DEF Seen
  <2> QED
    BY <2>1, <2>2
<1>3. Resident(mem, L) /\ PubType
  BY <1>1, <1>2, InvParts DEF LayoutInv
<1>4. FooterIn(mem, k) = Footer(L[k].slot, L[k].ver)
  BY <1>3, BasesIn
<1>5. SlotOf(FooterIn(mem, k)) = L[k].slot /\ VersionOf(FooterIn(mem, k)) = L[k].ver
  BY <1>3, <1>4, FooterRead
<1> QED
  BY <1>3, <1>5, LayoutParts DEF Resident

THEOREM CarriersStay ==
    ASSUME Regular PROVE Spec => []LiveCarriersKept
<1>1. ChangeInv => LiveCarriersKept
  BY CarriersLive
<1> QED
  BY <1>1, Always, PTL

\* A load that finds no file finds none that could be reclaimed: the cleaning
\* before it has taken back whatever refusals, failures and removed modules
\* have left behind.
THEOREM NoSlotLost ==
    ASSUME Regular PROVE Spec => []OnlyUsedSlotsTaken
<1>1. ChangeInv => OnlyUsedSlotsTaken
  <2> SUFFICES ASSUME ChangeInv, stage = "reserve", idx \notin Slots, NEW s \in Slots
               PROVE  \/ files[s].kind \in {"foreign", "empty"}
                      \/ \E k \in 1 .. Len0 : SlotOf(FooterIn(mem, k)) = s
    BY DEF OnlyUsedSlotsTaken
  <2>1. PICK L \in Layouts : LayoutInv(L)
    BY DEF ChangeInv
  <2>2. Seen = mem /\ Resident(mem, L) /\ PubType
    BY <2>1, InvParts DEF LayoutInv
  <2>3. idx \in 0 .. MaxLive + 1 /\ Cleaned1(L, s) /\ (s < idx => files[s] # Absent)
    BY <2>1 DEF LayoutInv, Passed
  <2>4. s < idx
    BY <2>3, Numbers
  <2>5. files[s] \in FileKinds
    BY InvParts DEF TypeOK
  <2>6. files[s].kind \in {"foreign", "empty", "carrier"}
    BY <2>3, <2>4, <2>5 DEF FileKinds, Absent, Foreign, Empty, Carrier, CutShort
  <2>7. \A k \in 1 .. Len0 : SlotOf(FooterIn(mem, k)) = L[k].slot
    BY <2>2, BasesIn, FooterRead
  <2> QED
    BY <2>3, <2>6, <2>7 DEF Cleaned1
<1> QED
  BY <1>1, Always, PTL

\* No step deletes or writes a file that is not the worker's own or that a
\* resident module uses.
LEMMA OrphansStep ==
    ASSUME Regular, ChangeInv, [Next]_vars, NEW s \in Slots, files'[s] # files[s], files[s] # Absent
    PROVE  /\ files[s].kind = "carrier"
           /\ \A k \in 1 .. Len0 : SlotOf(FooterIn(mem, k)) # s
<1>1. files \in [Slots -> FileKinds]
  BY InvParts DEF TypeOK
<1>2. CASE CleanFile
  <2>1. s = idx /\ Reclaimable(idx) /\ stage \in {"clean", "sweep"}
    BY <1>1, <1>2 DEF CleanFile, Clean
  <2>2. PICK L \in Layouts : LayoutInv(L)
    BY DEF ChangeInv
  <2>3. Seen = mem /\ Resident(mem, L) /\ PubType
    BY <2>1, <2>2, InvParts DEF LayoutInv
  <2>4. \A k \in 1 .. Len0 : SlotOf(FooterIn(mem, k)) = L[k].slot
    BY <2>3, BasesIn, FooterRead
  <2>5. \A k \in 1 .. Len0 : L[k].slot # s
    BY <2>1, <2>3, LiveFiles DEF Reclaimable
  <2> QED
    BY <2>1, <2>4, <2>5 DEF Reclaimable
<1>3. CASE TakeSlot
  BY <1>1, <1>3 DEF TakeSlot, Reserve, Usable
<1>4. CASE SlotFails
  BY <1>1, <1>4 DEF SlotFails, ReserveError, Usable
<1>5. CASE Interrupted
  BY <1>1, <1>5 DEF Interrupted, Usable
<1>6. UNCHANGED files \/ CleanFile \/ TakeSlot \/ SlotFails \/ Interrupted
  BY DEF Next, Start, CleanFails, CleanError, Cleaned, NextSlot, ScanHeader, Plan, Keep, Finalize, Commit,
         Return, Finish, RunModule, Rebuild, vars, cacheVars
<1> QED
  BY <1>2, <1>3, <1>4, <1>5, <1>6

THEOREM OrphansOnly ==
    ASSUME Regular PROVE Spec => OnlyOrphansReclaimed
<1> DEFINE A == \A s \in Slots : files'[s] # files[s] /\ files[s] # Absent =>
                    /\ files[s].kind = "carrier"
                    /\ \A k \in 1 .. Len0 : SlotOf(FooterIn(mem, k)) # s
<1>1. ChangeInv /\ [Next]_vars => [A]_vars
  BY OrphansStep
<1> QED
  BY <1>1, Always, PTL DEF Spec, OnlyOrphansReclaimed

-----------------------------------------------------------------------------
(* Every request that has been prepared is accepted.                        *)

\* There are no COLD_ONLY carriers.  With one resident, the commit refuses
\* every change, since the planner leaves its entry offset 0.
Movable == \A n \in Names : Class[n] # ColdOnly

LEMMA AcceptedStep ==
    ASSUME Movable, ChangeInv, [Next]_vars, stage # "refused"
    PROVE  stage' # "refused"
<1> SUFFICES ASSUME stage' = "refused" PROVE FALSE
  OBVIOUS
<1>0. ~Commit \/ Publish \/ Check \/ Schedule
  <2> SUFFICES ASSUME Commit, ~Publish PROVE Check \/ Schedule
    OBVIOUS
  <2>1. stage = "check"
    BY CommitFrame DEF Commit
  <2> QED
    BY <2>1 DEF Commit, CommitNext, MoveCell, Repair, SkipMove, CopySnapshot, Copied, Link
<1>1. Check \/ Schedule
  BY <1>0 DEF Next, Start, CleanFile, CleanFails, Cleaned, NextSlot, TakeSlot, SlotFails, ScanHeader, Plan, Keep,
         Finalize, Commit, CommitNext, MoveCell, Repair, SkipMove, NextMove, CopySnapshot, Copied, Link,
         Publish, Return, Finish, Interrupted, RunModule, Rebuild, vars, commitVars
<1>2. stage = "check"
  BY <1>1 DEF Check, Schedule
<1>3. PICK L \in Layouts : LayoutInv(L)
  BY DEF ChangeInv
<1>4. /\ Asked /\ AllScanned(L) /\ Resident(Seen, L) /\ PubType /\ Recs = DOMAIN Kept /\ Recs = 1 .. N
      /\ N \in Nat
      /\ \A i \in Recs : plan[i] \in Record /\ PlannedRecord(L, i) /\ PreparedRecord(L, i)
                         /\ Bound <= plan[i].new
  BY <1>2, <1>3, PlanParts, InvParts DEF Planning, Working, IsPrepared, LayoutInv, Planned
<1>5. IInv
  BY <1>2, InvParts DEF CommitStages
<1>6. \A i \in Recs :
        /\ plan[i].old \in Nat /\ plan[i].new \in Nat /\ plan[i].size \in Nat /\ plan[i].src \in Nat
        /\ plan[i].size >= 6
        /\ plan[i].new + plan[i].size = IF i = 1 THEN Ceiling ELSE plan[i - 1].new
        /\ plan[i].old # 0 => /\ Bound <= plan[i].old /\ plan[i].old + plan[i].size <= Ceiling
                              /\ plan[i].old <= plan[i].new
        /\ plan[i].old # 0 <=> Kept[i] # 0 /\ Class[NewName(i)] # Stateless
        /\ Class[NewName(i)] \in {Stateless, Stateful}
        /\ plan[i].class = Class[NewName(i)]
  <2> SUFFICES ASSUME NEW i \in Recs
               PROVE  /\ plan[i].old \in Nat /\ plan[i].new \in Nat /\ plan[i].size \in Nat
                      /\ plan[i].src \in Nat /\ plan[i].size >= 6
                      /\ plan[i].new + plan[i].size = IF i = 1 THEN Ceiling ELSE plan[i - 1].new
                      /\ plan[i].old # 0 =>
                            /\ Bound <= plan[i].old /\ plan[i].old + plan[i].size <= Ceiling
                            /\ plan[i].old <= plan[i].new
                      /\ plan[i].old # 0 <=> Kept[i] # 0 /\ Class[NewName(i)] # Stateless
                      /\ Class[NewName(i)] \in {Stateless, Stateful}
                      /\ plan[i].class = Class[NewName(i)]
    OBVIOUS
  <2>1. /\ plan[i].old \in Nat /\ plan[i].new \in Nat /\ plan[i].size \in Nat
        /\ plan[i].size >= 6
        /\ plan[i].new + plan[i].size = IF i = 1 THEN Ceiling ELSE PlaceIn(L, i - 1)
        /\ plan[i].old # 0 <=> Kept[i] # 0 /\ Class[NewName(i)] # Stateless
        /\ plan[i].old # 0 => /\ Bound <= plan[i].old /\ plan[i].old + plan[i].size <= Ceiling
                              /\ plan[i].old <= plan[i].new
    BY <1>4, RecordPlaces
  <2>2. i # 1 => plan[i - 1].new = PlaceIn(L, i - 1)
    <3>1. i # 1 => i - 1 \in Recs
      BY <1>4
    <3> QED
      BY <1>4, <3>1 DEF PlannedRecord
  <2>3. NewName(i) \in Names /\ VerIn(L, i) \in Versions
    BY <1>4, KeptModule
  <2>4. Class[NewName(i)] \in {Stateless, Stateful}
    BY <2>3, Sizes DEF Movable
  <2>5. plan[i].src \in Nat /\ plan[i].class = Class[NewName(i)]
    BY <1>4, RecordTypes2 DEF PlannedRecord
  <2> QED
    BY <2>1, <2>2, <2>4, <2>5
<1>7. \A i \in Recs : plan[i].new + plan[i].size <= Ceiling
  <2> DEFINE T == {i \in Recs : plan[i].new + plan[i].size <= Ceiling}
  <2>1. N > 0 => 1 \in T
    <3>1. N > 0 => 1 \in Recs
      BY <1>4
    <3> QED
      BY <1>6, <3>1, Numbers
  <2>2. \A k \in 1 .. N : k < N /\ k \in T => k + 1 \in T
    <3> SUFFICES ASSUME NEW k \in 1 .. N, k < N, k \in T PROVE k + 1 \in T
      OBVIOUS
    <3>1. k + 1 \in Recs /\ k \in Recs /\ k + 1 # 1 /\ k + 1 - 1 = k
      BY <1>4
    <3>2. plan[k + 1].new + plan[k + 1].size = plan[k].new
      BY <1>6, <3>1
    <3>3. plan[k].new + plan[k].size <= Ceiling /\ plan[k].new \in Nat /\ plan[k].size \in Nat
      BY <1>6, <3>1
    <3> QED
      BY <3>1, <3>2, <3>3, Numbers
  <2>3. 1 .. N \subseteq T
    <3> HIDE DEF T
    <3> QED
      BY <1>4, <2>1, <2>2, UpTo
  <2> QED
    BY <1>4, <2>3
<1>8. \A i \in Recs : Live(plan[i]) <=> plan[i].old # 0
  BY <1>6 DEF Live, Stateless, Stateful, ColdOnly
<1>9. ASSUME NEW i \in Recs
      PROVE  /\ plan[i].disp = EntryOffset
             /\ Live(plan[i]) => plan[i].src = 0
             /\ ~Live(plan[i]) => ScratchLow <= plan[i].src /\ plan[i].src + plan[i].size <= ScratchHigh
  <2>1. CASE Kept[i] # 0 /\ Class[NewName(i)] # Stateless
    <3>1. Class[NewName(i)] = Stateful /\ Live(plan[i])
      BY <1>6, <1>8, <2>1
    <3> QED
      BY <1>4, <2>1, <3>1 DEF PlannedRecord, PreparedRecord
  <2>2. CASE ~(Kept[i] # 0 /\ Class[NewName(i)] # Stateless)
    <3>1. ~Live(plan[i])
      BY <1>6, <1>8, <2>2
    <3>2. /\ plan[i].disp = EntryOffset
          /\ ScratchLow <= plan[i].src /\ plan[i].src + plan[i].size <= ScratchHigh
      BY <1>4, <2>2 DEF PreparedRecord
    <3> QED
      BY <3>1, <3>2
  <2> QED
    BY <2>1, <2>2
<1>10. CASE Check
  <2>1. idx \in Recs /\ ~RecordOK(plan[idx])
    <3>1. idx <= N /\ ~RecordOK(plan[idx])
      BY <1>10 DEF Check
    <3>2. idx \in 1 .. N + 1
      BY <1>2, <1>5 DEF IInv, Checking
    <3> QED
      BY <1>4, <3>1, <3>2
  <2>2. plan[idx].new + plan[idx].size = cursor
    <3>1. CASE idx = 1
      <4>1. cursor = Ceiling
        BY <1>2, <1>4, <1>5, <2>1, <3>1 DEF IInv, Checking, Top
      <4> QED
        BY <1>6, <2>1, <3>1, <4>1
    <3>2. CASE idx # 1
      <4>1. cursor = plan[idx - 1].new
        BY <1>2, <1>4, <1>5, <2>1, <3>2 DEF IInv, LowEnd
      <4> QED
        BY <1>6, <2>1, <3>2, <4>1
    <3> QED
      BY <3>1, <3>2
  <2>3. /\ plan[idx].size # 0 /\ plan[idx].class \in {Stateless, Stateful, ColdOnly}
        /\ plan[idx].disp >= LoaderWords /\ plan[idx].disp < plan[idx].size
    BY <1>6, <1>9, <2>1 DEF LoaderWords, EntryOffset
  <2>4. ~Live(plan[idx]) => plan[idx].src # 0 /\ plan[idx].src + plan[idx].size < Space /\ Apart(plan[idx])
    <3> SUFFICES ASSUME ~Live(plan[idx])
                 PROVE  plan[idx].src # 0 /\ plan[idx].src + plan[idx].size < Space /\ Apart(plan[idx])
      OBVIOUS
    <3>1. /\ ScratchLow <= plan[idx].src /\ plan[idx].src + plan[idx].size <= ScratchHigh
          /\ plan[idx].src \in Nat /\ plan[idx].size \in Nat
      BY <1>6, <1>9, <2>1
    <3>2. \A j \in Recs :
            /\ plan[j].new \in Nat /\ plan[j].size \in Nat /\ plan[j].old \in Nat
            /\ Bound <= plan[j].new /\ plan[j].new + plan[j].size <= Ceiling
            /\ plan[j].old # 0 => Bound <= plan[j].old /\ plan[j].old + plan[j].size <= Ceiling
      BY <1>4, <1>6, <1>7
    <3>3. /\ plan[idx].src + plan[idx].size \in Nat
          /\ plan[idx].src + plan[idx].size <= Bound
      BY <3>1, Numbers
    <3>4. Apart(plan[idx])
      <4> SUFFICES ASSUME NEW j \in Recs
                   PROVE  /\ plan[j].new + plan[j].size < Space
                          /\ plan[j].old # 0 =>
                                /\ plan[j].old + plan[j].size < Space
                                /\ Disjoint(plan[idx].src, plan[idx].size, plan[j].old, plan[j].size)
                          /\ Disjoint(plan[idx].src, plan[idx].size, plan[j].new, plan[j].size)
        BY DEF Apart
      <4>1. /\ plan[idx].src + plan[idx].size <= plan[j].new
            /\ plan[j].new + plan[j].size < Space
        BY <3>2, <3>3, Numbers
      <4>2. plan[j].old # 0 => /\ plan[idx].src + plan[idx].size <= plan[j].old
                               /\ plan[j].old + plan[j].size < Space
        BY <3>2, <3>3, Numbers
      <4> QED
        BY <4>1, <4>2 DEF Disjoint
    <3> QED
      BY <3>1, <3>3, <3>4, Numbers
  <2> QED
    BY <1>9, <2>1, <2>2, <2>3, <2>4 DEF RecordOK
<1>11. CASE Schedule
  <2>1. ~Schedulable
    BY <1>11 DEF Schedule
  <2>2. \A i \in Recs : Moves(plan[i]) => /\ plan[i].old # 0 /\ plan[i].old # plan[i].new
    BY DEF Moves
  <2>3. \A i \in Recs : Moves(plan[i]) => Upward(plan[i])
    BY <1>6, <2>2 DEF Upward
  <2>4. \A i \in Recs : Moves(plan[i]) =>
            plan[i].old + plan[i].size < Space /\ plan[i].new + plan[i].size < Space
    BY <1>6, <1>7, <2>2, Numbers
  <2>5. \A i \in Recs : Moves(plan[i]) => HasRoom(plan[i])
    BY <1>2, MovedSlots DEF Planning, Working
  <2> QED
    BY <2>1, <2>3, <2>4, <2>5 DEF Schedulable
<1> QED
  BY <1>1, <1>10, <1>11

\* Without COLD_ONLY modules the commit accepts whatever has been prepared: a
\* prepared change can no longer fail (r3comit.mac against r3prof.mac, r3keep.mac).
THEOREM PreparedIsAccepted ==
    ASSUME Regular, Movable PROVE Spec => []PreparedCommits
<1>1. Init => PreparedCommits
  BY DEF Init, PreparedCommits
<1>2. ChangeInv /\ PreparedCommits /\ [Next]_vars => PreparedCommits'
  BY AcceptedStep DEF PreparedCommits
<1> QED
  BY <1>1, <1>2, Always, PTL DEF Spec

-----------------------------------------------------------------------------
(* The profile as its users see it.                                         *)

\* A module of a layout, and the profile of a layout, as users see them.
ModuleSeen(m, n, l) == [name |-> n, ver |-> l.ver, holds |-> Contents(m, l.base, n, l.ver)]
View(L) == [k \in 1 .. Len0 |-> ModuleSeen(Seen, pub.names[k], L[k])]

\* What a layout says of the profile.
LayoutsShow == PubType => \A L \in Layouts : Resident(Seen, L) => ProfileSeen = View(L)

LEMMA ViewFound == Regular => LayoutsShow
<1> SUFFICES ASSUME Regular, PubType, NEW L \in Layouts, Resident(Seen, L) PROVE ProfileSeen = View(L)
  BY DEF LayoutsShow
<1>1. ASSUME NEW k \in 1 .. Len0
      PROVE  BaseIn(Seen, k) = L[k].base /\ VersionOf(FooterIn(Seen, k)) = L[k].ver
  BY BasesIn, FooterRead
<1> QED
  BY <1>1 DEF ProfileSeen, View, ModuleSeen

\* Contents depend on the words of the module alone.
LEMMA SameContents ==
    ASSUME NEW n \in Names, NEW v \in Versions, NEW m, NEW h, NEW b \in Nat,
           \A o \in DescOffset .. DataAt(n, v) : m[b + o] = h[b + o]
    PROVE  Contents(m, b, n, v) = Contents(h, b, n, v)
<1>1. EntryOffset \in DescOffset .. DataAt(n, v)
  BY Sizes DEF EntryOffset, DescOffset
<1> QED
  BY <1>1 DEF Contents

\* A step that leaves the memory above the scratch area and the published
\* profile alone is not seen.
LEMMA Unseen ==
    ASSUME Regular, ChangeInv, [Next]_vars, pub' = pub,
           \A a \in Addr : Bound <= a => Seen'[a] = Seen[a]
    PROVE  ProfileSeen' = ProfileSeen
<1>1. PICK L \in Layouts : LayoutInv(L)
  BY DEF ChangeInv
<1>2. Resident(Seen, L) /\ PubType
  BY <1>1, InvParts DEF LayoutInv
<1>3. \A k \in 1 .. Len0 : files'[L[k].slot] = files[L[k].slot]
  <2> SUFFICES ASSUME NEW k \in 1 .. Len0, files'[L[k].slot] # files[L[k].slot] PROVE FALSE
    OBVIOUS
  <2>1. L[k].slot \in Slots /\ files[L[k].slot] = Carrier(pub.names[k], L[k].ver)
    BY <1>2, LayoutParts DEF Resident
  <2>2. files[L[k].slot] # Absent
    BY <2>1 DEF Carrier, Absent
  <2>3. SlotOf(FooterIn(mem, k)) # L[k].slot
    BY <2>1, <2>2, OrphansStep
  <2>4. stage \notin CommitStages
    BY <1>1 DEF Next, Start, CleanFile, CleanFails, Cleaned, NextSlot, TakeSlot, SlotFails, ScanHeader, Plan,
           Keep, Finalize, Commit, Return, Finish, Interrupted, Preparing, RunModule, Rebuild, vars,
           cacheVars, CommitStages
  <2>5. Seen = mem
    BY <2>4, InvParts DEF CommitStages
  <2> QED
    BY <1>2, <2>3, <2>5, BasesIn, FooterRead
<1>4. /\ PubType' /\ Len0' = Len0 /\ L \in Layouts' /\ Resident(Seen, L)'
  BY <1>2, <1>3, ResidentStays
<1>5. (Regular => LayoutsShow)'
  BY ViewFound, PTL
<1>6. ProfileSeen' = View(L)' /\ ProfileSeen = View(L)
  BY <1>2, <1>4, <1>5, ViewFound DEF Regular, LayoutsShow
<1>7. ASSUME NEW k \in 1 .. Len0
      PROVE  ModuleSeen(Seen', pub.names[k], L[k]) = ModuleSeen(Seen, pub.names[k], L[k])
  <2>1. \A o \in DescOffset .. DataAt(pub.names[k], L[k].ver) : o \in 0 .. SizeIn(L, k) - 1
    BY <1>2, LayoutParts DEF DescOffset
  <2>2. \A o \in DescOffset .. DataAt(pub.names[k], L[k].ver) : Seen'[L[k].base + o] = Seen[L[k].base + o]
    BY <1>2, <2>1, ResidentCells
  <2>3. pub.names[k] \in Names /\ L[k].ver \in Versions /\ L[k].base \in Nat
    BY <1>2, LayoutParts
  <2>4. Contents(Seen', L[k].base, pub.names[k], L[k].ver) = Contents(Seen, L[k].base, pub.names[k], L[k].ver)
    BY <2>2, <2>3, SameContents
  <2> QED
    BY <2>4 DEF ModuleSeen
<1> QED
  BY <1>4, <1>6, <1>7 DEF View

\* What is put below the images leaves them alone.
LEMMA PutBelow ==
    ASSUME NEW m, NEW at \in Nat, NEW size \in Nat, NEW img, DOMAIN img = 0 .. size - 1,
           at + size <= Bound, NEW a \in Addr, Bound <= a
    PROVE  Put(m, at, img)[a] = m[a]
<1>1. ~(a - at \in 0 .. size - 1)
  BY Numbers DEF Addr
<1> QED
  BY <1>1 DEF Put

\* Only the modules' own work and the publication change what users see.
LEMMA OnlyTwoSeen ==
    ASSUME Regular, ChangeInv, [Next]_vars, ~RunModule, ~Publish
    PROVE  pub' = pub /\ \A a \in Addr : Bound <= a => Seen'[a] = Seen[a]
<1>1. CASE Plan
  <2> DEFINE last == Len(Kept)
             img == Image(op.name, op.ver, op.slot, NewBases[last])
  <2>1. /\ stage = "scan" /\ idx = Len0 + 1 /\ pub' = pub /\ stage' \in {"idle", "keep"}
        /\ \/ mem' = mem
           \/ op.kind = "load" /\ Fits(ScratchLow, NewSize(last)) /\ mem' = Put(mem, ScratchLow, img)
    BY <1>1 DEF Plan
  <2>2. Seen = mem /\ Seen' = mem'
    BY <2>1, InvParts DEF Seen, Changing
  <2>3. ASSUME op.kind = "load", Fits(ScratchLow, NewSize(last)), mem' = Put(mem, ScratchLow, img),
               NEW a \in Addr, Bound <= a
        PROVE  mem'[a] = mem[a]
    <3>1. /\ op.name \in Names /\ op.ver \in Versions /\ PubType
          /\ Asked
      BY <2>1, <2>3, InvParts DEF Requested, Working, Asked
    <3>2. NewSize(last) = Size[op.name][op.ver]
      BY <2>3, <3>1, KeptParts DEF NewSize
    <3>3. Size[op.name][op.ver] \in Nat
      BY <3>1, Sizes
    <3>4. DOMAIN img = 0 .. Size[op.name][op.ver] - 1
      BY DEF Image
    <3>5. ScratchLow + Size[op.name][op.ver] <= Bound
      BY <2>3, <3>2, <3>3, Numbers DEF Fits
    <3> HIDE DEF img
    <3> QED
      BY <2>3, <3>3, <3>4, <3>5, Numbers, PutBelow
  <2> QED
    BY <2>1, <2>2, <2>3
<1>2. CASE Keep
  <2> DEFINE r == plan[idx]
             f == CachedFile(Kept[idx])
             img == Image(f.name, f.ver, SlotOf(FootOf(Walk[Kept[idx]])), r.new)
  <2>1. /\ stage = "keep" /\ idx \in DOMAIN Kept /\ Kept[idx] # 0
        /\ pub' = pub /\ stage' \in {"idle", "keep"}
        /\ \/ mem' = mem
           \/ Keepable(r, f, Kept[idx]) /\ r.class = Stateless /\ mem' = Put(mem, free, img)
    BY <1>2 DEF Keep, Remaining
  <2>2. Seen = mem /\ Seen' = mem'
    BY <2>1, InvParts DEF Seen, Changing
  <2>3. ASSUME Keepable(r, f, Kept[idx]), r.class = Stateless, mem' = Put(mem, free, img),
               NEW a \in Addr, Bound <= a
        PROVE  mem'[a] = mem[a]
    <3>1. r.size = Size[f.name][f.ver] /\ free + r.size <= ScratchHigh
      BY <2>3 DEF Keepable, Fits
    <3>2. PICK L \in Layouts : LayoutInv(L)
      BY DEF ChangeInv
    <3>3. r \in Record
      BY <2>1, <3>2, PlanParts DEF Planning, Working
    <3>4. r.size \in Nat /\ free \in Nat
      <4>1. r.size \in Nat
        BY <3>3, RecordTypes2
      <4>2. free \in ScratchLow .. ScratchHigh
        BY InvParts DEF TypeOK
      <4> QED
        BY <4>1, <4>2, Numbers
    <3>5. DOMAIN img = 0 .. r.size - 1
      BY <3>1 DEF Image
    <3>6. free + r.size <= Bound
      BY <3>1, <3>4, Numbers
    <3> HIDE DEF img, r
    <3> QED
      BY <2>3, <3>4, <3>5, <3>6, PutBelow
  <2> QED
    BY <2>1, <2>2, <2>3
<1>3. CASE Finalize
  <2>1. stage = "keep" /\ stage' \in {"check", "idle"} /\ mem0' = mem /\ mem' = mem /\ pub' = pub
    BY <1>3 DEF Finalize
  <2>2. Seen = mem /\ Seen' = mem
    BY <2>1, InvParts DEF Seen, Changing
  <2> QED
    BY <2>1, <2>2
<1>4. CASE Commit
  <2>1. CommitNext /\ UNCHANGED <<cacheVars, changeVars>>
    BY <1>4 DEF Commit
  <2> QED
    BY <2>1, CommitQuietStep
<1>5. CASE UNCHANGED vars
  BY <1>5 DEF vars, commitVars, Seen, Changing
<1>6. CASE Start \/ CleanFile \/ CleanFails \/ Cleaned \/ NextSlot \/ TakeSlot \/ SlotFails
           \/ ScanHeader \/ Return \/ Finish \/ Interrupted \/ Rebuild
  <2>1. /\ mem' = mem /\ pub' = pub
        /\ stage \notin {"check", "move", "copy", "link"}
        /\ stage' \notin {"check", "move", "copy", "link"}
    BY <1>6 DEF Start, CleanFile, CleanFails, Cleaned, NextSlot, TakeSlot, SlotFails, ScanHeader, Return,
           Finish, Interrupted, Preparing, Rebuild, commitVars
  <2> QED
    BY <2>1 DEF Seen, Changing
<1> QED
  BY <1>1, <1>2, <1>3, <1>4, <1>5, <1>6 DEF Next

\* What a fresh image contains.
LEMMA FreshContents ==
    ASSUME NEW n \in Names, NEW v \in Versions, NEW s \in Slots, NEW b \in Nat, NEW m,
           \A o \in LoaderWords .. Size[n][v] - 1 : m[b + o] = Image(n, v, s, b)[o]
    PROVE  Contents(m, b, n, v) = Template(n, v)
<1>1. Size[n][v] \in Nat /\ Size[n][v] >= 6 /\ DataAt(n, v) = Size[n][v] - 2
  BY Sizes
<1>2. LoaderWords = 2 /\ DescOffset = 2 /\ EntryOffset = 3
  BY DEF LoaderWords, DescOffset, EntryOffset
<1>3. ASSUME NEW o \in DescOffset .. DataAt(n, v)
      PROVE  (IF o = EntryOffset THEN Relative(m[b + o], b, Size[n][v]) ELSE m[b + o]) = Image(n, v, 0, 0)[o]
  <2>1. o \in LoaderWords .. Size[n][v] - 1 /\ o \in 0 .. Size[n][v] - 1 /\ o # Size[n][v] - 1
        /\ ~(o < LoaderWords)
    BY <1>1, <1>2
  <2>2. m[b + o] = IF o = DescOffset THEN Size[n][v]
                   ELSE IF o = EntryOffset THEN b + DataAt(n, v) ELSE v
    BY <2>1 DEF Image
  <2>3. Image(n, v, 0, 0)[o] = IF o = DescOffset THEN Size[n][v]
                               ELSE IF o = EntryOffset THEN 0 + DataAt(n, v) ELSE v
    BY <2>1 DEF Image
  <2>4. Relative(b + DataAt(n, v), b, Size[n][v]) = DataAt(n, v)
    BY <1>1 DEF Relative
  <2> QED
    BY <1>1, <1>2, <2>2, <2>3, <2>4
<1> QED
  BY <1>3 DEF Contents, Template

\* A module that has worked contains what its carrier allows.
LEMMA WorkedContents ==
    ASSUME NEW n \in Names, NEW v \in Versions, NEW s, NEW b \in Nat, NEW m, NEW h, 0 < b,
           Looks(m, b, n, v, s),
           \A o \in 0 .. Size[n][v] - 1 : h[b + o] =
                IF o \in {EntryOffset, Size[n][v] - 2} THEN 0 ELSE m[b + o]
    PROVE  Contents(h, b, n, v) \in PossibleContents(n, v)
<1>1. Size[n][v] \in Nat /\ Size[n][v] >= 6 /\ DataAt(n, v) = Size[n][v] - 2
  BY Sizes
<1>2. DescOffset = 2 /\ EntryOffset = 3 /\ LoaderWords = 2
  BY DEF LoaderWords, DescOffset, EntryOffset
<1> DEFINE c == [[Template(n, v) EXCEPT ![EntryOffset] = -1] EXCEPT ![DataAt(n, v)] = 0]
<1>3. ASSUME NEW o \in DescOffset .. DataAt(n, v)
      PROVE  (IF o = EntryOffset THEN Relative(h[b + o], b, Size[n][v]) ELSE h[b + o]) =
                IF o = DataAt(n, v) THEN 0 ELSE IF o = EntryOffset THEN -1 ELSE Image(n, v, 0, 0)[o]
  <2>1. o \in 0 .. Size[n][v] - 1 /\ o # Size[n][v] - 1 /\ ~(o < LoaderWords)
    BY <1>1, <1>2
  <2>2. Image(n, v, 0, 0)[o] = IF o = DescOffset THEN Size[n][v]
                               ELSE IF o = EntryOffset THEN 0 + DataAt(n, v) ELSE v
    BY <2>1 DEF Image
  <2>3. h[b + o] = IF o \in {EntryOffset, DataAt(n, v)} THEN 0 ELSE m[b + o]
    BY <1>1, <2>1
  <2>4. /\ o = DescOffset => m[b + o] = Size[n][v]
        /\ o \in EntryOffset + 1 .. DataAt(n, v) - 1 => m[b + o] = v
    BY DEF Looks
  <2>5. o = DescOffset \/ o = EntryOffset \/ o = DataAt(n, v) \/ o \in EntryOffset + 1 .. DataAt(n, v) - 1
    BY <1>1, <1>2
  <2>6. Relative(0, b, Size[n][v]) = -1
    BY DEF Relative
  <2>7. DescOffset # DataAt(n, v) /\ EntryOffset # DataAt(n, v) /\ DescOffset # EntryOffset
        /\ DescOffset \notin EntryOffset + 1 .. DataAt(n, v) - 1
        /\ EntryOffset \notin EntryOffset + 1 .. DataAt(n, v) - 1
        /\ DataAt(n, v) \notin EntryOffset + 1 .. DataAt(n, v) - 1
    BY <1>1, <1>2
  <2> QED
    BY <2>2, <2>3, <2>4, <2>5, <2>6, <2>7
<1>4. Contents(h, b, n, v) = c
  <2>1. EntryOffset \in DescOffset .. DataAt(n, v) /\ DataAt(n, v) \in DescOffset .. DataAt(n, v)
    BY <1>1, <1>2
  <2>2. c = [o \in DescOffset .. DataAt(n, v) |->
                IF o = DataAt(n, v) THEN 0 ELSE IF o = EntryOffset THEN -1 ELSE Image(n, v, 0, 0)[o]]
    BY <2>1 DEF Template
  <2> QED
    BY <1>3, <2>2 DEF Contents
<1> QED
  BY <1>4 DEF PossibleContents

\* A module that moves keeps its contents.
LEMMA MovedContents ==
    ASSUME NEW r \in Record, NEW n \in Names, NEW v \in Versions, NEW m, NEW h,
           r.class = Stateful, r.old # 0, r.slots = <<EntryOffset>>, r.size = Size[n][v],
           h[r.old + EntryOffset] \in Int,
           \A o \in LoaderWords .. r.size - 1 : m[r.new + o] =
                IF Moves(r) THEN Repaired(r, o, h[r.old + o]) ELSE h[r.old + o],
           h[r.old + EntryOffset] \in {0, r.old + DataAt(n, v)}, 0 < r.new
    PROVE  Contents(m, r.new, n, v) = Contents(h, r.old, n, v)
<1>1. /\ Size[n][v] \in Nat /\ Size[n][v] >= 6 /\ DataAt(n, v) = Size[n][v] - 2
      /\ r.old \in Nat /\ r.new \in Nat /\ r.size \in Nat
  BY Sizes, RecordTypes2
<1>2. LoaderWords = 2 /\ DescOffset = 2 /\ EntryOffset = 3
  BY DEF LoaderWords, DescOffset, EntryOffset
<1>3. ~Moves(r) => r.old = r.new
  BY DEF Moves
<1>4. ASSUME NEW o \in DescOffset .. DataAt(n, v), o # EntryOffset
      PROVE  m[r.new + o] = h[r.old + o]
  <2>1. o \in LoaderWords .. r.size - 1
    BY <1>1, <1>2
  <2>2. Repaired(r, o, h[r.old + o]) = h[r.old + o]
    BY <1>4 DEF Repaired, Pointers
  <2> QED
    BY <2>1, <2>2
<1>5. Relative(m[r.new + EntryOffset], r.new, Size[n][v]) = Relative(h[r.old + EntryOffset], r.old, Size[n][v])
  <2>1. EntryOffset \in LoaderWords .. r.size - 1
    BY <1>1, <1>2
  <2>2. CASE h[r.old + EntryOffset] = 0
    <3>1. Repaired(r, EntryOffset, 0) = 0
      BY <1>1 DEF Repaired, Pointers
    <3>2. m[r.new + EntryOffset] = 0
      BY <2>1, <2>2, <3>1
    <3> QED
      BY <1>1, <2>2, <3>2 DEF Relative
  <2>3. CASE h[r.old + EntryOffset] = r.old + DataAt(n, v)
    <3>1. Repaired(r, EntryOffset, r.old + DataAt(n, v)) = r.new + DataAt(n, v)
      BY <1>1 DEF Repaired, Pointers
    <3>2. m[r.new + EntryOffset] = r.new + DataAt(n, v)
      BY <1>3, <2>1, <2>3, <3>1
    <3> QED
      BY <1>1, <2>3, <3>2 DEF Relative
  <2> QED
    BY <2>2, <2>3
<1> QED
  BY <1>4, <1>5 DEF Contents

LEMMA ProfileInit == Init => Profile!Init
  BY DEF Init, ProfileSeen, Len0, Profile!Init

\* A module's work is one of the abstract profile.
LEMMA RunModuleWorks ==
    ASSUME Regular, ChangeInv, RunModule
    PROVE  Profile!Work
<1>1. /\ stage = "idle" /\ stage' = "idle" /\ pub' = pub
  BY DEF RunModule
<1>2. PICK k \in 1 .. Len0 :
        mem' = [mem EXCEPT ![Walk[k] + DataAt(pub.names[k], VersionOf(FootOf(Walk[k])))] = 0,
                           ![Walk[k] + EntryOffset] = 0]
  BY DEF RunModule
<1>3. PICK L \in Layouts : LayoutInv(L)
  BY DEF ChangeInv
<1>4. Resident(mem, L) /\ Seen = mem /\ Seen' = mem' /\ PubType
  BY <1>1, <1>3, InvParts DEF LayoutInv, Seen, Changing
<1>5. ChangeInv' /\ L \in Layouts' /\ Resident(Seen, L)'
  BY <1>3, WorkStays
<1>6. \A j \in 1 .. Len0 : \A o \in 0 .. SizeIn(L, j) - 1 :
                mem'[L[j].base + o] = IF j = k /\ o \in {EntryOffset, SizeIn(L, k) - 2} THEN 0
                                      ELSE mem[L[j].base + o]
  BY <1>1, <1>2, <1>4, WorkCells
<1>7. PubType' /\ Len0' = Len0
  BY <1>1, <1>4 DEF PubType, Len0
<1>8. (Regular => LayoutsShow)'
  BY ViewFound, PTL
<1>9. ProfileSeen = View(L) /\ ProfileSeen' = View(L)'
  BY <1>4, <1>5, <1>7, <1>8, ViewFound DEF LayoutsShow, Regular
<1>10. ASSUME NEW j \in 1 .. Len0
       PROVE  /\ pub.names[j] \in Names /\ L[j].ver \in Versions /\ L[j].base \in Nat /\ 0 < L[j].base
              /\ SizeIn(L, j) = Size[pub.names[j]][L[j].ver]
              /\ DataAt(pub.names[j], L[j].ver) = SizeIn(L, j) - 2 /\ SizeIn(L, j) \in Nat
              /\ SizeIn(L, j) >= 6
  <2>1. Bound <= L[j].base
    BY <1>4 DEF Resident
  <2> QED
    BY <1>4, <2>1, LayoutParts, Numbers
<1>11. ASSUME NEW j \in 1 .. Len0, j # k
       PROVE  Contents(Seen', L[j].base, pub.names[j], L[j].ver)
                = Contents(Seen, L[j].base, pub.names[j], L[j].ver)
  <2>1. \A o \in DescOffset .. DataAt(pub.names[j], L[j].ver) : mem'[L[j].base + o] = mem[L[j].base + o]
    BY <1>6, <1>10, <1>11 DEF DescOffset
  <2> QED
    BY <1>4, <1>10, <2>1, SameContents
<1> DEFINE c == Contents(mem', L[k].base, pub.names[k], L[k].ver)
<1>12. c \in PossibleContents(pub.names[k], L[k].ver)
  <2>1. Looks(mem, L[k].base, pub.names[k], L[k].ver, L[k].slot)
    BY <1>4 DEF Resident
  <2>2. \A o \in 0 .. Size[pub.names[k]][L[k].ver] - 1 : mem'[L[k].base + o] =
            IF o \in {EntryOffset, Size[pub.names[k]][L[k].ver] - 2} THEN 0 ELSE mem[L[k].base + o]
    BY <1>6, <1>10
  <2> QED
    BY <1>10, <2>1, <2>2, WorkedContents
<1>13. /\ k \in DOMAIN ProfileSeen
       /\ ProfileSeen[k].name = pub.names[k] /\ ProfileSeen[k].ver = L[k].ver
  BY <1>9 DEF View, ModuleSeen
<1>14. ProfileSeen' = [ProfileSeen EXCEPT ![k].holds = c]
  <2>1. ProfileSeen' = [j \in 1 .. Len0 |-> [name |-> pub.names[j], ver |-> L[j].ver,
                            holds |-> Contents(Seen', L[j].base, pub.names[j], L[j].ver)]]
    BY <1>1, <1>7, <1>9 DEF View, ModuleSeen
  <2>2. ProfileSeen = [j \in 1 .. Len0 |-> [name |-> pub.names[j], ver |-> L[j].ver,
                            holds |-> Contents(Seen, L[j].base, pub.names[j], L[j].ver)]]
    BY <1>9 DEF View, ModuleSeen
  <2> QED
    BY <1>4, <1>11, <2>1, <2>2
<1> HIDE DEF c
<1> QED
  BY <1>12, <1>13, <1>14 DEF Profile!Work

\* The profile that is published: each module that is kept goes on, or is
\* loaded afresh if it is STATELESS, and a new one is fresh.
LEMMA PublishSeen ==
    ASSUME Regular, ChangeInv, Publish, UNCHANGED <<cacheVars, changeVars>>,
           NEW L \in Layouts, LayoutInv(L)
    PROVE  /\ ProfileSeen = View(L)
           /\ ProfileSeen' = [i \in DOMAIN Kept |->
                IF Kept[i] = 0 THEN Profile!Fresh(op.name, op.ver)
                ELSE Profile!Carried(ProfileSeen[Kept[i]])]
<1>1. stage = "link" /\ idx = N + 1
  BY DEF Publish
<1>2. /\ Asked /\ Resident(Seen, L) /\ PubType /\ Recs = DOMAIN Kept /\ Recs = 1 .. N /\ N \in Nat
      /\ names = [i \in Recs |-> NewName(i)]
      /\ \A i \in Recs : plan[i] \in Record /\ PlannedRecord(L, i)
  <2>1. names = [i \in DOMAIN Kept |-> NewName(i)]
    BY <1>1 DEF LayoutInv, Planned, Planning, Working
  <2> QED
    BY <1>1, <2>1, PlanParts, InvParts DEF Planning, Working
<1>3. PICK K : K = NewLayout(L) /\ K \in Layouts' /\ LayoutInv(K)'
  BY PublishChange
<1>4. ChangeInv' /\ Len0' = N /\ pub'.names = names /\ Seen' = mem /\ Seen = mem0
  BY PublishChange
<1>5. PubType' /\ Resident(Seen, K)'
  <2>1. ChangeInv' => PubType'
    BY InvParts, PTL
  <2> QED
    BY <1>3, <1>4, <2>1 DEF LayoutInv
<1>6. (Regular => LayoutsShow)'
  BY ViewFound, PTL
<1>7. ProfileSeen = View(L) /\ ProfileSeen' = View(K)'
  BY <1>2, <1>3, <1>5, <1>6, ViewFound DEF LayoutsShow, Regular
<1>8. \A i \in Recs : K[i].base = plan[i].new /\ K[i].ver = VerIn(L, i)
  BY <1>3 DEF NewLayout
<1>9. ProfileSeen' = [i \in Recs |-> [name |-> NewName(i), ver |-> VerIn(L, i),
                        holds |-> Contents(mem, plan[i].new, NewName(i), VerIn(L, i))]]
  BY <1>2, <1>4, <1>7, <1>8 DEF View, ModuleSeen
<1>10. ASSUME NEW i \in Recs
       PROVE  [name |-> NewName(i), ver |-> VerIn(L, i),
                        holds |-> Contents(mem, plan[i].new, NewName(i), VerIn(L, i))]
                = IF Kept[i] = 0 THEN Profile!Fresh(op.name, op.ver)
                  ELSE Profile!Carried(ProfileSeen[Kept[i]])
  <2> DEFINE n == NewName(i)
             v == VerIn(L, i)
             s == SlotIn(L, i)
             r == plan[i]
  <2>1. n \in Names /\ v \in Versions /\ s \in Slots /\ Kept[i] \in 0 .. Len0
    BY <1>2, KeptModule
  <2>2. r.size = Size[n][v] /\ r \in Record /\ r.new \in Nat /\ 0 < r.new
    <3>1. Bound <= r.new
      BY <1>1, <1>2 DEF LayoutInv, Planned, Planning, Working
    <3> QED
      BY <1>2, <3>1, RecordTypes2, Numbers DEF PlannedRecord
  <2>3. \A o \in LoaderWords .. r.size - 1 : mem[r.new + o] = Expected(r, o)
    <3>1. IInv
      BY <1>1, InvParts DEF CommitStages
    <3> QED
      BY <1>1, <3>1 DEF IInv, Linking
  <2>4. Kept[i] # 0 => /\ Kept[i] \in 1 .. Len0 /\ n = pub.names[Kept[i]] /\ v = L[Kept[i]].ver
                       /\ s = L[Kept[i]].slot
    BY <2>1, InvParts DEF NewName, VerIn, SlotIn
  <2>5. CASE Live(r)
    <3>1. /\ Kept[i] # 0 /\ Kept[i] \in 1 .. Len0 /\ Class[n] # Stateless
          /\ r.class = Stateful /\ r.slots = <<EntryOffset>> /\ r.old = L[Kept[i]].base
      BY <1>1, <2>5, ReadyRecord
    <3>2. Looks(mem0, r.old, n, v, s)
      <4>1. Looks(mem0, L[Kept[i]].base, pub.names[Kept[i]], L[Kept[i]].ver, L[Kept[i]].slot)
        BY <1>2, <1>4, <3>1 DEF Resident
      <4> QED
        BY <2>4, <3>1, <4>1
    <3>3. mem0[r.old + EntryOffset] \in {0, r.old + DataAt(n, v)} /\ mem0[r.old + EntryOffset] \in Int
          /\ r.old # 0
      <4>1. DataAt(n, v) \in Int /\ r.old \in Nat
        BY <2>1, <2>2, Sizes, RecordTypes2
      <4> QED
        BY <2>5, <3>2, <4>1 DEF Looks, Live
    <3>4. \A o \in LoaderWords .. r.size - 1 : mem[r.new + o] =
              IF Moves(r) THEN Repaired(r, o, mem0[r.old + o]) ELSE mem0[r.old + o]
      BY <2>3, <2>5 DEF Expected
    <3>5. Contents(mem, r.new, n, v) = Contents(mem0, r.old, n, v)
      <4> HIDE DEF n, v, s, r
      <4> QED
        BY <2>1, <2>2, <3>1, <3>3, <3>4, MovedContents
    <3>6. ProfileSeen[Kept[i]] = [name |-> n, ver |-> v, holds |-> Contents(mem0, r.old, n, v)]
      <4> HIDE DEF n, v, s, r
      <4> QED
        BY <1>4, <1>7, <2>4, <3>1 DEF View, ModuleSeen
    <3> HIDE DEF n, v, s, r
    <3>7. Profile!Carried(ProfileSeen[Kept[i]]) = ProfileSeen[Kept[i]]
      BY <3>1, <3>6 DEF Profile!Carried, IsStateful
    <3> QED
      BY <3>1, <3>5, <3>6, <3>7 DEF n, v, r
  <2>6. CASE ~Live(r)
    <3>1. Kept[i] = 0 \/ Class[n] = Stateless
      BY <1>1, <2>6, ReadyRecord
    <3>2. \A o \in 0 .. r.size - 1 : mem0[r.src + o] = Image(n, v, s, r.new)[o]
      BY <1>1, <2>6, ReadyRecord
    <3>3. \A o \in LoaderWords .. Size[n][v] - 1 : mem[r.new + o] = Image(n, v, s, r.new)[o]
      BY <2>2, <2>3, <2>6, <3>2 DEF Expected, LoaderWords
    <3>4. Contents(mem, r.new, n, v) = Template(n, v)
      <4> HIDE DEF n, v, s, r
      <4> QED
        BY <2>1, <2>2, <3>3, FreshContents
    <3>5. Kept[i] = 0 => n = op.name /\ v = op.ver
      BY DEF NewName, VerIn
    <3>6. Kept[i] # 0 => ProfileSeen[Kept[i]].name = n /\ ProfileSeen[Kept[i]].ver = v
      <4> HIDE DEF n, v, s, r
      <4> QED
        BY <1>7, <2>4 DEF View, ModuleSeen
    <3> HIDE DEF n, v, s, r
    <3>7. Kept[i] # 0 => Profile!Carried(ProfileSeen[Kept[i]]) = Profile!Fresh(n, v)
      BY <3>1, <3>6 DEF Profile!Carried, IsStateful
    <3>8. Profile!Fresh(n, v) = [name |-> n, ver |-> v, holds |-> Template(n, v)]
      BY DEF Profile!Fresh
    <3> QED
      BY <3>4, <3>5, <3>7, <3>8 DEF n, v, r
  <2> QED
    BY <2>5, <2>6
<1> QED
  BY <1>2, <1>7, <1>9, <1>10

\* Sequences as functions.
LEMMA AppendAt ==
    ASSUME NEW T, NEW s \in Seq(T), NEW e \in T
    PROVE  Append(s, e) = [i \in 1 .. Len(s) + 1 |-> IF i = Len(s) + 1 THEN e ELSE s[i]]
<1>1. Len(s) \in Nat /\ Append(s, e) \in Seq(T) /\ Len(Append(s, e)) = Len(s) + 1
  OBVIOUS
<1>2. ASSUME NEW i \in 1 .. Len(s) + 1
      PROVE  Append(s, e)[i] = IF i = Len(s) + 1 THEN e ELSE s[i]
  <2>1. CASE i = Len(s) + 1
    BY <2>1
  <2>2. CASE i # Len(s) + 1
    <3>1. i \in 1 .. Len(s)
      BY <1>1, <2>2
    <3> QED
      BY <2>2, <3>1
  <2> QED
    BY <2>1, <2>2
<1>3. Append(s, e) \in [1 .. Len(s) + 1 -> T]
  BY <1>1, LenProperties
<1> QED
  BY <1>2, <1>3

LEMMA ConcatAt ==
    ASSUME NEW T, NEW p \in Seq(T), NEW t \in Seq(T)
    PROVE  p \o t = [i \in 1 .. Len(p) + Len(t) |-> IF i <= Len(p) THEN p[i] ELSE t[i - Len(p)]]
<1>1. Len(p) \in Nat /\ Len(t) \in Nat /\ p \o t \in Seq(T) /\ Len(p \o t) = Len(p) + Len(t)
  OBVIOUS
<1>2. ASSUME NEW i \in 1 .. Len(p) + Len(t)
      PROVE  (p \o t)[i] = IF i <= Len(p) THEN p[i] ELSE t[i - Len(p)]
  <2>1. CASE i <= Len(p)
    <3>1. i \in 1 .. Len(p)
      BY <1>1, <2>1
    <3> QED
      BY <2>1, <3>1
  <2>2. CASE ~(i <= Len(p))
    <3>1. i \in Len(p) + 1 .. Len(p) + Len(t) /\ i - Len(p) \in 1 .. Len(t)
      BY <1>1, <2>2
    <3> QED
      BY <1>1, <2>2, <3>1
  <2> QED
    BY <2>1, <2>2
<1>3. p \o t \in [1 .. Len(p) + Len(t) -> T]
  BY <1>1, LenProperties
<1> QED
  BY <1>2, <1>3

\* The publication of a load appends a module, that of a removal takes one out.
LEMMA PublishProfile ==
    ASSUME Regular, ChangeInv, Publish, UNCHANGED <<cacheVars, changeVars>>
    PROVE  Profile!Load \/ Profile!Unload
<1>1. stage = "link"
  BY DEF Publish
<1>2. PICK L \in Layouts : LayoutInv(L)
  BY DEF ChangeInv
<1>3. Asked /\ PubType /\ Len0 \in Nat
  BY <1>1, <1>2, PlanParts, InvParts DEF Planning, Working
<1> DEFINE old == ProfileSeen
           q == [i \in 1 .. Len0 |-> Profile!Carried(old[i])]
           fresh == Profile!Fresh(op.name, op.ver)
<1>4. old = View(L)
  BY <1>2, PublishSeen
<1>5. DOMAIN old = 1 .. Len0 /\ \A k \in 1 .. Len0 : old[k].name = pub.names[k]
  BY <1>4 DEF View, ModuleSeen
<1>6. Profile!All(old) = q
  <2> HIDE DEF old
  <2> QED
    BY <1>5 DEF Profile!All
<1>7. ProfileSeen' = [i \in DOMAIN Kept |-> IF Kept[i] = 0 THEN fresh ELSE Profile!Carried(old[Kept[i]])]
  BY <1>2, PublishSeen
<1>8. Len(old) = Len0 /\ old \in Seq({old[i] : i \in 1 .. Len0})
  <2>1. old = [i \in 1 .. Len0 |-> old[i]]
    BY <1>4 DEF View
  <2> HIDE DEF old
  <2> QED
    BY <1>3, <1>5, <2>1
<1>9. q \in Seq({q[i] : i \in 1 .. Len0}) /\ Len(q) = Len0
  BY <1>3
<1> HIDE DEF old, fresh
<1>10. CASE op.kind = "load"
  <2>1. /\ op.name \in Names \ Range(pub.names) /\ Len0 < MaxLive /\ op.ver \in Versions
    BY <1>3, <1>10 DEF Asked
  <2>2. op.name \notin {old[i].name : i \in DOMAIN old}
    <3>1. \A k \in 1 .. Len0 : pub.names[k] \in Range(pub.names)
      BY <1>3 DEF PubType, Len0, Range
    <3> QED
      BY <1>5, <2>1, <3>1
  <2>3. /\ Len(Kept) = Len0 + 1 /\ DOMAIN Kept = 1 .. Len0 + 1 /\ Kept[Len0 + 1] = 0
        /\ \A i \in 1 .. Len0 : Kept[i] = i
    BY <1>3, <1>10, KeptParts
  <2>4. ProfileSeen' = [i \in 1 .. Len0 + 1 |-> IF i = Len0 + 1 THEN fresh ELSE q[i]]
    <3>1. \A i \in 1 .. Len0 + 1 : (IF Kept[i] = 0 THEN fresh ELSE Profile!Carried(old[Kept[i]]))
                = IF i = Len0 + 1 THEN fresh ELSE q[i]
      <4> SUFFICES ASSUME NEW i \in 1 .. Len0 + 1
                   PROVE  (IF Kept[i] = 0 THEN fresh ELSE Profile!Carried(old[Kept[i]]))
                            = IF i = Len0 + 1 THEN fresh ELSE q[i]
        OBVIOUS
      <4>1. CASE i = Len0 + 1
        BY <2>3, <4>1
      <4>2. CASE i # Len0 + 1
        <5>1. i \in 1 .. Len0 /\ i # 0
          BY <1>3, <4>2
        <5> QED
          BY <2>3, <4>2, <5>1
      <4> QED
        BY <4>1, <4>2
    <3> QED
      BY <1>7, <2>3, <3>1
  <2>5. Append(q, fresh) = [i \in 1 .. Len0 + 1 |-> IF i = Len0 + 1 THEN fresh ELSE q[i]]
    <3> HIDE DEF q
    <3> DEFINE T == {q[i] : i \in 1 .. Len0} \cup {fresh}
    <3>1. \A i \in 1 .. Len0 : q[i] \in T
      OBVIOUS
    <3>2. q \in Seq(T) /\ fresh \in T
      <4>1. q = [i \in 1 .. Len0 |-> q[i]]
        BY DEF q
      <4> HIDE DEF T
      <4>2. q \in [1 .. Len0 -> T]
        BY <3>1, <4>1
      <4>3. fresh \in T
        BY DEF T
      <4> QED
        BY <1>3, <4>2, <4>3
    <3> HIDE DEF T
    <3>3. Append(q, fresh) = [i \in 1 .. Len(q) + 1 |-> IF i = Len(q) + 1 THEN fresh ELSE q[i]]
      BY <3>2, AppendAt
    <3> QED
      BY <1>9, <3>3
  <2>6. ProfileSeen' = Append(Profile!All(ProfileSeen), Profile!Fresh(op.name, op.ver))
    BY <1>6, <2>4, <2>5 DEF old, fresh
  <2> QED
    BY <1>8, <2>1, <2>2, <2>6 DEF Profile!Load, Profile!Loaded, old
<1>11. CASE op.kind # "load"
  <2>1. /\ op.at \in 1 .. Len0 /\ Len(Kept) = Len0 - 1 /\ DOMAIN Kept = 1 .. Len0 - 1
        /\ \A i \in 1 .. Len0 - 1 : Kept[i] = IF i < op.at THEN i ELSE i + 1
    BY <1>3, <1>11, KeptParts
  <2>2. ProfileSeen' = [i \in 1 .. Len0 - 1 |-> IF i < op.at THEN q[i] ELSE q[i + 1]]
    <3>1. \A i \in 1 .. Len0 - 1 : (IF Kept[i] = 0 THEN fresh ELSE Profile!Carried(old[Kept[i]]))
                = IF i < op.at THEN q[i] ELSE q[i + 1]
      <4> SUFFICES ASSUME NEW i \in 1 .. Len0 - 1
                   PROVE  (IF Kept[i] = 0 THEN fresh ELSE Profile!Carried(old[Kept[i]]))
                            = IF i < op.at THEN q[i] ELSE q[i + 1]
        OBVIOUS
      <4>1. i \in 1 .. Len0 /\ i + 1 \in 1 .. Len0 /\ i # 0 /\ i + 1 # 0
        BY <1>3
      <4> QED
        BY <2>1, <4>1
    <3> QED
      BY <1>7, <2>1, <3>1
  <2>3. RemoveAt(q, op.at) = [i \in 1 .. Len0 - 1 |-> IF i < op.at THEN q[i] ELSE q[i + 1]]
    <3> HIDE DEF q
    <3> DEFINE p == SubSeq(q, 1, op.at - 1)
               t == SubSeq(q, op.at + 1, Len(q))
               T == {q[i] : i \in 1 .. Len0}
    <3> HIDE DEF T
    <3>1. q \in Seq(T) /\ Len(q) = Len0
      BY <1>9 DEF T
    <3>2. /\ Len(p) = op.at - 1 /\ p \in Seq(T)
          /\ \A i \in 1 .. op.at - 1 : p[i] = q[i]
      BY <1>3, <2>1, <3>1
    <3>3. /\ Len(t) = Len0 - op.at /\ t \in Seq(T)
          /\ \A i \in 1 .. Len0 - op.at : t[i] = q[i + op.at]
      BY <1>3, <2>1, <3>1
    <3>4. RemoveAt(q, op.at) = p \o t
      BY DEF RemoveAt
    <3> HIDE DEF p, t
    <3>5. p \o t = [i \in 1 .. Len(p) + Len(t) |-> IF i <= Len(p) THEN p[i] ELSE t[i - Len(p)]]
      BY <3>2, <3>3, ConcatAt
    <3>6. Len(p) + Len(t) = Len0 - 1
      BY <1>3, <2>1, <3>2, <3>3
    <3>7. ASSUME NEW i \in 1 .. Len0 - 1
          PROVE  (IF i <= Len(p) THEN p[i] ELSE t[i - Len(p)]) = IF i < op.at THEN q[i] ELSE q[i + 1]
      <4>1. CASE i < op.at
        <5>1. i \in 1 .. op.at - 1 /\ i <= op.at - 1
          BY <2>1, <4>1
        <5> QED
          BY <3>2, <4>1, <5>1
      <4>2. CASE ~(i < op.at)
        <5>1. /\ i - (op.at - 1) \in 1 .. Len0 - op.at /\ i - (op.at - 1) + op.at = i + 1
              /\ ~(i <= op.at - 1)
          BY <1>3, <2>1, <4>2
        <5>2. t[i - (op.at - 1)] = q[i + 1]
          BY <3>3, <5>1
        <5> QED
          BY <3>2, <4>2, <5>1, <5>2
      <4> QED
        BY <4>1, <4>2
    <3> QED
      BY <3>4, <3>5, <3>6, <3>7
  <2>4. ProfileSeen' = RemoveAt(Profile!All(ProfileSeen), op.at)
    BY <1>6, <2>2, <2>3 DEF old
  <2>5. op.at \in DOMAIN ProfileSeen
    BY <1>5, <2>1 DEF old
  <2> QED
    BY <2>4, <2>5 DEF Profile!Unload, Profile!RemoveAt, RemoveAt
<1> QED
  BY <1>10, <1>11

LEMMA ProfileStep ==
    ASSUME Regular, ChangeInv, [Next]_vars
    PROVE  [Profile!Next]_ProfileSeen
<1>1. CASE RunModule
  BY <1>1, RunModuleWorks DEF Profile!Next
<1>2. CASE ~RunModule /\ Publish
  <2>1. stage = "link"
    BY <1>2 DEF Publish
  <2>2. CASE UNCHANGED vars
    BY <1>2, <2>2 DEF Publish, vars, commitVars
  <2>3. CASE Next
    <3>1. Commit
      BY <2>1, <2>3 DEF Next, Start, CleanFile, CleanFails, Cleaned, NextSlot, TakeSlot, SlotFails, ScanHeader,
            Plan, Keep, Finalize, Return, Finish, Interrupted, Preparing, RunModule, Rebuild
    <3>2. UNCHANGED <<cacheVars, changeVars>>
      BY <3>1 DEF Commit
    <3> QED
      BY <1>2, <3>2, PublishProfile DEF Profile!Next
  <2> QED
    BY <2>2, <2>3
<1>3. CASE ~RunModule /\ ~Publish
  BY <1>3, OnlyTwoSeen, Unseen
<1> QED
  BY <1>1, <1>2, <1>3

\* A change of the profile is one step of the abstract profile, and whatever
\* is refused, fails or is interrupted on the way is none: with the
\* publication the STATEFUL modules go on with their contents where they now
\* are, the STATELESS ones start afresh (r3comit.mac, rsxsched.mac).
THEOREM ProfileImplemented ==
    ASSUME Regular PROVE Spec => ImplementsProfile
<1>1. Init => Profile!Init
  BY ProfileInit
<1>2. ChangeInv /\ [Next]_vars => [Profile!Next]_ProfileSeen
  BY ProfileStep
<1> QED
  BY <1>1, <1>2, Always, PTL DEF Spec, ImplementsProfile, Profile!Spec
=============================================================================
