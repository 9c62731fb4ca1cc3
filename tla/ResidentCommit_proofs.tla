------------------------- MODULE ResidentCommit_proofs -------------------------
(***************************************************************************)
(* Proofs about the commit of a resident profile, for every request that   *)
(* the planner can make, every size of memory and every content of it.     *)
(***************************************************************************)
EXTENDS ResidentCommit, TLAPS

\* What the validation has established of record i.
Fact(r) ==
    /\ r.size # 0
    /\ r.class \in {Stateless, Stateful, ColdOnly}
    /\ r.disp >= LoaderWords /\ r.disp < r.size
    /\ r.new + r.size < Space
    /\ IF Live(r) THEN r.src = 0 ELSE r.src # 0 /\ r.src + r.size < Space /\ Apart(r)

Packed(n) ==
    /\ \A i \in 1 .. n : Fact(plan[i]) /\ cursor <= plan[i].new
    /\ \A i, j \in 1 .. n : i < j => plan[j].new + plan[j].size <= plan[i].new

Validated == IF stage = "check" THEN idx - 1 ELSE N

Settled(i) == ~Moves(plan[i]) \/ (IF Down THEN idx < i ELSE i < idx)
Holds(i) == \A o \in 0 .. plan[i].size - 1 : mem[plan[i].new + o] = Expected(plan[i], o)
Source(i) == \A o \in 0 .. plan[i].size - 1 : mem[plan[i].old + o] = mem0[plan[i].old + o]
Snapshot(i) == \A o \in 0 .. plan[i].size - 1 : mem[plan[i].src + o] = mem0[plan[i].src + o]
Copied1(r, o) == IF Upward(r) THEN r.size - moved <= o ELSE o < moved
Half(i) == \A o \in 0 .. plan[i].size - 1 :
    IF Copied1(plan[i], o) THEN mem[plan[i].new + o] = mem0[plan[i].old + o]
                           ELSE mem[plan[i].old + o] = mem0[plan[i].old + o]

Checking ==
    stage = "check" => idx \in 1 .. N + 1 /\ moved = 0 /\ (idx = 1 => cursor = Top)

Moving ==
    stage = "move" =>
        /\ idx \in Recs /\ Schedulable
        /\ Moves(plan[idx]) => moved <= plan[idx].size
        /\ ~Moves(plan[idx]) => moved = 0
        /\ \A i \in Recs :
            IF Live(plan[i])
              THEN IF Settled(i) THEN Holds(i)
                   ELSE IF i = idx THEN Half(i) ELSE Source(i)
              ELSE Snapshot(i)

Copying ==
    stage = "copy" =>
        /\ idx \in 1 .. N + 1
        /\ \A i \in Recs : IF Live(plan[i]) \/ i < idx THEN Holds(i) ELSE Snapshot(i)

Linking ==
    stage \in {"link", "published"} =>
        /\ idx \in 1 .. N + 1
        /\ stage = "published" => idx = N + 1
        /\ \A i \in Recs : \A o \in LoaderWords .. plan[i].size - 1 :
                mem[plan[i].new + o] = Expected(plan[i], o)
        /\ \A i \in Recs : i < idx =>
                mem[plan[i].new + 1] = Entry(i) /\ mem[plan[i].new] = Entry(i + 1)

LowEnd == (stage # "check" /\ stage # "refused" /\ N # 0) \/ (stage = "check" /\ idx > 1)
    => cursor = plan[IF stage = "check" THEN idx - 1 ELSE N].new
Heads == stage = "published" => pub.head = (IF N = 0 THEN 0 ELSE plan[1].new)
                             /\ pub.low = (IF N = 0 THEN EmptyTop ELSE cursor)

IInv ==
    /\ CommitTypeOK /\ RequestSound
    /\ stage # "refused" => Packed(Validated)
    /\ Checking /\ Moving /\ Copying /\ Linking
    /\ LowEnd /\ Heads
    /\ RefusedUntouched /\ OnlyImagesChange

-----------------------------------------------------------------------------
(* Geometry: what the validation and the planner's guarantees say about the *)
(* places of cells.                                                         *)

Sane == plan \in Seq(Record) /\ RequestSound /\ Packed(N)

\* Every record has its fields, and its places lie in memory.
LEMMA RecordFields ==
    ASSUME Sane, NEW i \in Recs
    PROVE  /\ N \in Nat
           /\ plan[i] \in Record
           /\ plan[i].old \in Nat /\ plan[i].new \in Nat /\ plan[i].size \in Nat
           /\ plan[i].src \in Nat /\ plan[i].disp \in Nat /\ plan[i].class \in Nat
           /\ plan[i].size >= 3
           /\ plan[i].disp >= 2 /\ plan[i].disp < plan[i].size
           /\ plan[i].new + plan[i].size < Space
           /\ Live(plan[i]) => plan[i].old + plan[i].size < Space /\ plan[i].src = 0
           /\ ~Live(plan[i]) => plan[i].src + plan[i].size < Space /\ plan[i].src # 0
<1>1. N \in Nat /\ plan[i] \in Record
  BY DEF Sane, N, Recs
<1>2. /\ plan[i].old \in Nat /\ plan[i].new \in Nat /\ plan[i].size \in Nat
      /\ plan[i].src \in Nat /\ plan[i].disp \in Nat /\ plan[i].class \in Nat
  BY <1>1 DEF Record
<1>3. Fact(plan[i])
  BY DEF Sane, Packed, Recs
<1>4. /\ plan[i].disp >= 2 /\ plan[i].disp < plan[i].size
      /\ plan[i].new + plan[i].size < Space
  BY <1>3 DEF Fact, LoaderWords
<1>5. Live(plan[i]) => plan[i].src = 0 /\ plan[i].old # 0
  BY <1>3 DEF Fact, Live
<1>6. ~Live(plan[i]) => plan[i].src + plan[i].size < Space /\ plan[i].src # 0
  BY <1>3 DEF Fact
<1>7. plan[i].old # 0 => plan[i].old + plan[i].size < Space
  BY DEF Sane, RequestSound
<1>8. plan[i].size >= 3
  BY <1>2, <1>4
<1> QED
  BY <1>1, <1>2, <1>4, <1>5, <1>6, <1>7, <1>8

\* The new places of two images have no cell in common.
LEMMA NewApart ==
    ASSUME Sane, NEW i \in Recs, NEW j \in Recs, i # j,
           NEW o \in 0 .. plan[i].size - 1, NEW p \in 0 .. plan[j].size - 1
    PROVE  plan[i].new + o # plan[j].new + p
<1>1. i < j => plan[j].new + plan[j].size <= plan[i].new
  BY DEF Sane, Packed, Recs
<1>2. j < i => plan[i].new + plan[i].size <= plan[j].new
  BY DEF Sane, Packed, Recs
<1>3. i \in Int /\ j \in Int
  BY RecordFields DEF Recs
<1> QED
  BY <1>1, <1>2, <1>3, RecordFields

\* A snapshot shares no cell with the new place of any image.
LEMMA SnapshotApart ==
    ASSUME Sane, NEW i \in Recs, NEW j \in Recs, ~Live(plan[j]),
           NEW o \in 0 .. plan[i].size - 1, NEW p \in 0 .. plan[j].size - 1
    PROVE  plan[i].new + o # plan[j].src + p
<1>1. Apart(plan[j])
  BY DEF Sane, Packed, Recs, Fact
<1>2. Disjoint(plan[j].src, plan[j].size, plan[i].new, plan[i].size)
  BY <1>1 DEF Apart
<1> QED
  BY <1>2, RecordFields DEF Disjoint

\* Moves go one way, so the new place of the image that is moved now shares no
\* cell with the old place of one that is moved later.
LEMMA LaterApart ==
    ASSUME Sane, Schedulable, NEW i \in Recs, NEW j \in Recs,
           Moves(plan[i]), Moves(plan[j]), IF Down THEN j < i ELSE i < j,
           NEW o \in 0 .. plan[i].size - 1, NEW p \in 0 .. plan[j].size - 1
    PROVE  plan[i].new + o # plan[j].old + p
<1>1. plan[i].old # 0 /\ plan[j].old # 0 /\ plan[i].old # plan[i].new
  BY DEF Moves
<1>2. CASE Down
  <2>1. plan[i].old + plan[i].size <= plan[j].old
    BY <1>1, <1>2 DEF Sane, RequestSound
  <2>2. ~Upward(plan[i])
    BY <1>2 DEF Down, Schedulable
  <2> QED
    BY <2>1, <2>2, RecordFields DEF Upward
<1>3. CASE ~Down
  <2>1. plan[j].old + plan[j].size <= plan[i].old
    BY <1>1, <1>3 DEF Sane, RequestSound
  <2>2. Upward(plan[i])
    BY <1>3 DEF Down
  <2> QED
    BY <2>1, <2>2, RecordFields DEF Upward
<1> QED
  BY <1>2, <1>3

\* The copy goes in the direction in which it never overwrites a cell of the
\* image that it has still to read.
LEMMA OwnApart ==
    ASSUME Sane, NEW i \in Recs, Moves(plan[i]), moved \in Nat, moved < plan[i].size,
           NEW p \in 0 .. plan[i].size - 1, ~Copied1(plan[i], p)
    PROVE  /\ Offset(plan[i]) \in 0 .. plan[i].size - 1
           /\ plan[i].new + Offset(plan[i]) # plan[i].old + p
<1>1. plan[i].old # plan[i].new
  BY DEF Moves
<1> QED
  BY <1>1, RecordFields DEF Copied1, Offset, Upward

\* Places of cells are addresses.
LEMMA Places ==
    ASSUME Sane, NEW i \in Recs, NEW o \in 0 .. plan[i].size - 1
    PROVE  /\ o \in Nat
           /\ plan[i].new + o \in Addr
           /\ Live(plan[i]) => plan[i].old + o \in Addr
           /\ ~Live(plan[i]) => plan[i].src + o \in Addr
  BY RecordFields, SpaceAssumption DEF Addr

-----------------------------------------------------------------------------
(* The initial states *)

LEMMA InitInv == CommitInit => IInv
<1> SUFFICES ASSUME CommitInit PROVE IInv
  OBVIOUS
<1>1. N \in Nat
  BY DEF CommitInit, N
<1>2. Top \in Nat
  BY SpaceAssumption DEF Top, Addr
<1>3. CommitTypeOK /\ RequestSound
  BY <1>2 DEF CommitInit, CommitTypeOK, CommitStages
<1>4. Packed(Validated)
  BY <1>1 DEF CommitInit, Packed, Validated
<1>5. Checking /\ Moving /\ Copying /\ Linking
  BY <1>1 DEF CommitInit, Checking, Moving, Copying, Linking
<1>6. LowEnd /\ Heads
  BY DEF CommitInit, LowEnd, Heads
<1>7. RefusedUntouched /\ OnlyImagesChange
  BY DEF CommitInit, RefusedUntouched, OnlyImagesChange
<1> QED
  BY <1>3, <1>4, <1>5, <1>6, <1>7 DEF IInv

-----------------------------------------------------------------------------
(* The validation *)

LEMMA RecordTypes ==
    ASSUME plan \in Seq(Record), NEW i \in 1 .. N
    PROVE  /\ N \in Nat /\ plan[i] \in Record
           /\ plan[i].old \in Nat /\ plan[i].new \in Nat /\ plan[i].size \in Nat
           /\ plan[i].src \in Nat /\ plan[i].disp \in Nat /\ plan[i].class \in Nat
<1>1. N \in Nat /\ plan[i] \in Record
  BY DEF N
<1> QED
  BY <1>1 DEF Record

LEMMA CheckStep == IInv /\ Check => IInv'
<1> SUFFICES ASSUME IInv, Check PROVE IInv'
  OBVIOUS
<1>1. /\ stage = "check" /\ idx \in 1 .. N /\ N \in Nat /\ N' = N
      /\ UNCHANGED <<mem, plan, names, moved, pub, mem0>>
  BY DEF IInv, Check, Checking, CommitTypeOK, N
<1>2. plan[idx] \in Record /\ plan[idx].new \in Nat /\ plan[idx].size \in Nat
  BY <1>1, RecordTypes DEF IInv, CommitTypeOK
<1>3. RequestSound' /\ RefusedUntouched'
  BY <1>1 DEF IInv, RequestSound, RefusedUntouched, Recs
<1>4. CASE RecordOK(plan[idx])
  <2>1. idx' = idx + 1 /\ cursor' = plan[idx].new /\ stage' = "check"
    BY <1>1, <1>4 DEF Check
  <2>2. CommitTypeOK'
    BY <1>1, <1>2, <2>1 DEF IInv, CommitTypeOK, CommitStages
  <2>3. cursor \in Nat /\ plan[idx].new + plan[idx].size = cursor
    BY <1>4 DEF IInv, CommitTypeOK, RecordOK
  <2>4. cursor < Space
    <3>1. CASE idx = 1
      BY <1>1, <3>1, SpaceAssumption DEF IInv, Checking, Top, Addr
    <3>2. CASE idx > 1
      <4>1. cursor = plan[idx - 1].new
        BY <1>1, <3>2 DEF IInv, LowEnd
      <4>2. Fact(plan[idx - 1])
        BY <1>1, <3>2 DEF IInv, Packed, Validated
      <4>3. plan[idx - 1] \in Record
        BY <1>1, <3>2 DEF IInv, CommitTypeOK, N
      <4> QED
        BY <4>1, <4>2, <4>3, SpaceAssumption DEF Fact, Record, Addr
    <3> QED
      BY <1>1, <3>1, <3>2
  <2>5. Fact(plan[idx])
    BY <1>4, <2>3, <2>4 DEF RecordOK, Fact
  <2>6. Packed(idx - 1)
    BY <1>1 DEF IInv, Validated
  <2>7. /\ \A i \in 1 .. idx : (Fact(plan[i]))' /\ cursor' <= plan[i].new
        /\ \A i, j \in 1 .. idx : i < j => plan[j].new + plan[j].size <= plan[i].new
    <3>1. ASSUME NEW i \in 1 .. idx PROVE Fact(plan[i]) /\ plan[idx].new <= plan[i].new
      <4>1. CASE i = idx
        BY <1>2, <2>5, <4>1
      <4>2. CASE i # idx
        <5>1. i \in 1 .. idx - 1 /\ i \in 1 .. N
          BY <1>1, <4>2
        <5>2. Fact(plan[i]) /\ cursor <= plan[i].new
          BY <2>6, <5>1 DEF Packed
        <5>3. plan[i].new \in Nat
          BY <1>1, <5>1, RecordTypes DEF IInv, CommitTypeOK
        <5> QED
          BY <1>2, <2>3, <5>2, <5>3
      <4> QED
        BY <4>1, <4>2
    <3>2. ASSUME NEW i \in 1 .. idx, NEW j \in 1 .. idx, i < j
          PROVE  plan[j].new + plan[j].size <= plan[i].new
      <4>1. CASE j = idx
        <5>1. i \in 1 .. idx - 1
          BY <1>1, <3>2, <4>1
        <5> QED
          BY <2>3, <2>6, <4>1, <5>1 DEF Packed
      <4>2. CASE j # idx
        BY <1>1, <2>6, <3>2, <4>2 DEF Packed
      <4> QED
        BY <4>1, <4>2
    <3>3. ASSUME NEW i \in 1 .. idx PROVE (Fact(plan[i]))'
      BY <1>1, <3>1 DEF Fact, Apart, Recs
    <3> QED
      BY <2>1, <3>1, <3>2, <3>3
  <2>8. Packed(Validated)'
    <3>1. Validated' = idx
      BY <1>1, <2>1 DEF Validated
    <3> QED
      BY <1>1, <2>7, <3>1 DEF Packed
  <2>9. Checking' /\ Moving' /\ Copying' /\ Linking'
    BY <1>1, <2>1 DEF IInv, Checking, Moving, Copying, Linking
  <2>10. LowEnd' /\ Heads'
    BY <1>1, <2>1 DEF LowEnd, Heads
  <2>11. OnlyImagesChange'
    BY <1>1, <2>1 DEF IInv, OnlyImagesChange, CommitStages, Recs, RefusedUntouched
  <2> QED
    BY <1>3, <2>1, <2>2, <2>8, <2>9, <2>10, <2>11 DEF IInv
<1>5. CASE ~RecordOK(plan[idx])
  <2>1. stage' = "refused" /\ UNCHANGED <<idx, cursor>>
    BY <1>1, <1>5 DEF Check
  <2>2. CommitTypeOK'
    BY <1>1, <2>1 DEF IInv, CommitTypeOK, CommitStages
  <2>3. Checking' /\ Moving' /\ Copying' /\ Linking' /\ LowEnd' /\ Heads'
    BY <2>1 DEF Checking, Moving, Copying, Linking, LowEnd, Heads
  <2>4. OnlyImagesChange'
    BY <1>1, <2>1 DEF IInv, OnlyImagesChange, RefusedUntouched
  <2> QED
    BY <1>3, <2>1, <2>2, <2>3, <2>4 DEF IInv
<1> QED
  BY <1>4, <1>5

-----------------------------------------------------------------------------
(* From the validation to the moves *)

\* The facts about the request stay when the request does.
LEMMA SaneStays ==
    ASSUME Sane, UNCHANGED <<plan, cursor>>
    PROVE  /\ Sane' /\ RequestSound' /\ N' = N /\ Recs' = Recs
           /\ Schedulable' = Schedulable /\ Down' = Down
           /\ Packed(N)'
<1>1. N' = N /\ Recs' = Recs
  BY DEF N, Recs
<1>2. RequestSound'
  BY <1>1 DEF Sane, RequestSound
<1>3. Schedulable' = Schedulable /\ Down' = Down
  BY <1>1 DEF Schedulable, HasRoom, Down
<1>4. Packed(N)'
  <2>1. \A i \in 1 .. N : (Fact(plan[i]))' /\ cursor' <= plan'[i].new
    BY <1>1 DEF Sane, Packed, Fact, Apart
  <2>2. \A i, j \in 1 .. N : i < j => plan'[j].new + plan'[j].size <= plan'[i].new
    BY DEF Sane, Packed
  <2> QED
    BY <1>1, <2>1, <2>2 DEF Packed
<1> QED
  BY <1>1, <1>2, <1>3, <1>4 DEF Sane

\* What the invariant says once the validation is over.
LEMMA AfterCheck ==
    ASSUME IInv, stage \in {"move", "copy", "link", "published"}
    PROVE  /\ Sane /\ CommitTypeOK /\ N \in Nat
           /\ N # 0 => cursor = plan[N].new
           /\ OnlyImagesChange
  BY DEF IInv, Sane, Validated, LowEnd, CommitTypeOK, N

LEMMA ScheduleStep == IInv /\ Schedule => IInv'
<1> SUFFICES ASSUME IInv, Schedule PROVE IInv'
  OBVIOUS
<1>1. /\ stage = "check" /\ idx = N + 1 /\ N \in Nat
      /\ UNCHANGED <<mem, plan, names, cursor, pub, mem0>>
  BY DEF IInv, Schedule, CommitTypeOK, N
<1>2. Sane /\ mem = mem0 /\ CommitTypeOK
  BY <1>1 DEF IInv, Sane, Validated, CommitTypeOK, RefusedUntouched
<1>3. OnlyImagesChange'
  BY <1>1, <1>2 DEF OnlyImagesChange
<1>4. /\ Sane' /\ RequestSound' /\ N' = N /\ Recs' = Recs
      /\ Schedulable' = Schedulable /\ Down' = Down /\ Packed(N)'
  BY <1>1, <1>2, SaneStays
<1>5. CASE ~Schedulable
  <2>1. stage' = "refused" /\ UNCHANGED <<idx, moved>>
    BY <1>1, <1>5 DEF Schedule
  <2>2. CommitTypeOK' /\ RefusedUntouched'
    BY <1>1, <1>2, <2>1 DEF CommitTypeOK, CommitStages, RefusedUntouched
  <2>3. Checking' /\ Moving' /\ Copying' /\ Linking' /\ LowEnd' /\ Heads'
    BY <2>1 DEF Checking, Moving, Copying, Linking, LowEnd, Heads
  <2> QED
    BY <1>3, <1>4, <2>1, <2>2, <2>3 DEF IInv
<1>6. CASE Schedulable
  <2>1. /\ stage' = IF N = 0 THEN "copy" ELSE "move"
        /\ idx' = IF N = 0 THEN 1 ELSE FirstMove
        /\ moved' = 0
    BY <1>1, <1>6 DEF Schedule
  <2>2. FirstMove \in Nat /\ (N # 0 => FirstMove \in Recs)
    BY <1>1 DEF FirstMove, Recs
  <2>3. CommitTypeOK'
    BY <1>1, <1>2, <2>1, <2>2 DEF CommitTypeOK, CommitStages
  <2>4. N # 0 => cursor = plan[N].new
    BY <1>1 DEF IInv, LowEnd
  <2>5. LowEnd' /\ Heads' /\ RefusedUntouched' /\ Checking' /\ Linking'
    BY <1>1, <1>4, <2>1, <2>4 DEF LowEnd, Heads, RefusedUntouched, Checking, Linking
  <2>6. Copying'
    <3>1. CASE N = 0
      <4>1. N' = 0 /\ Recs' = {} /\ idx' = 1
        BY <1>1, <1>4, <2>1, <3>1 DEF Recs
      <4> QED
        BY <4>1 DEF Copying
    <3>2. CASE N # 0
      BY <2>1, <3>2 DEF Copying
    <3> QED
      BY <3>1, <3>2
  <2>7. ASSUME NEW i \in Recs
        PROVE  /\ Live(plan[i]) /\ ~Moves(plan[i]) => Holds(i)
               /\ Live(plan[i]) => Source(i)
               /\ ~Live(plan[i]) => Snapshot(i)
    <3>1. Live(plan[i]) /\ ~Moves(plan[i]) => plan[i].old = plan[i].new
      BY <1>2 DEF Sane, RequestSound, Live, Moves
    <3> QED
      BY <1>2, <3>1 DEF Holds, Source, Snapshot, Expected
  <2>8. Moving'
    <3>1. CASE N = 0
      BY <2>1, <3>1 DEF Moving
    <3>2. CASE N # 0
      <4>1. idx' \in Recs /\ moved' = 0 /\ stage' = "move"
        BY <2>1, <2>2, <3>2
      <4>2. ASSUME NEW i \in Recs, Live(plan[i])
            PROVE  IF Settled(i)' THEN Holds(i)'
                   ELSE IF i = idx' THEN Half(i)' ELSE Source(i)'
        <5>1. Settled(i)' = ~Moves(plan[i])
          BY <1>1, <1>4, <2>1, <3>2 DEF Settled, FirstMove, Recs
        <5>2. Source(i)' = Source(i) /\ Holds(i)' = Holds(i)
          BY <1>1 DEF Source, Holds, Expected
        <5>3. Source(i) => Half(i)'
          <6>1. plan[i].size \in Nat
            BY <1>2, RecordFields
          <6> QED
            BY <1>1, <2>1, <6>1 DEF Source, Half, Copied1
        <5> QED
          BY <2>7, <4>2, <5>1, <5>2, <5>3
      <4>3. ASSUME NEW i \in Recs, ~Live(plan[i]) PROVE Snapshot(i)'
        BY <1>1, <2>7, <4>3 DEF Snapshot
      <4>4. Moves(plan[idx']) => 0 <= plan[idx'].size
        BY <1>2, <4>1, RecordFields
      <4> QED
        BY <1>1, <1>4, <1>6, <4>1, <4>2, <4>3, <4>4 DEF Moving
    <3> QED
      BY <3>1, <3>2
  <2> QED
    BY <1>3, <1>4, <2>1, <2>3, <2>5, <2>6, <2>8 DEF IInv, Validated
<1> QED
  BY <1>5, <1>6

-----------------------------------------------------------------------------
(* The moves *)

\* What the steps from one record to the next leave alone.
Quiet == UNCHANGED <<plan, names, cursor, pub, mem0>>

LEMMA QuietStays ==
    ASSUME Sane, CommitTypeOK, Quiet, NEW i \in Recs
    PROVE  /\ Sane' /\ N' = N /\ Recs' = Recs /\ Schedulable' = Schedulable /\ Down' = Down
           /\ Live(plan[i])' = Live(plan[i]) /\ Moves(plan[i])' = Moves(plan[i])
           /\ \A o \in 0 .. plan[i].size - 1 : Expected(plan[i], o)' = Expected(plan[i], o)
<1>1. UNCHANGED <<plan, cursor, mem0>>
  BY DEF Quiet
<1>2. Sane' /\ N' = N /\ Recs' = Recs /\ Schedulable' = Schedulable /\ Down' = Down
  BY <1>1, SaneStays
<1>3. Live(plan[i])' = Live(plan[i]) /\ Moves(plan[i])' = Moves(plan[i])
  BY <1>1 DEF Live, Moves
<1>4. \A o \in 0 .. plan[i].size - 1 : Expected(plan[i], o)' = Expected(plan[i], o)
  BY <1>1 DEF Expected, Live, Moves, Repaired, Pointers
<1> QED
  BY <1>2, <1>3, <1>4

\* The mover refuses a slot list: memory may have changed, but only in the
\* places of images, and the lists are not those that RSXSLOTS makes.
LEMMA MoverRefuses == IInv /\ MoveCell /\ stage' = "refused" => IInv'
<1> SUFFICES ASSUME IInv, MoveCell, stage' = "refused" PROVE IInv'
  OBVIOUS
<1>1. /\ stage = "move" /\ Moves(plan[idx]) /\ ~SlotsOK(plan[idx])
      /\ UNCHANGED <<mem, plan, names, idx, moved, cursor, pub, mem0>>
  BY DEF MoveCell
<1>2. Sane /\ CommitTypeOK /\ OnlyImagesChange
  BY <1>1, AfterCheck
<1>3. /\ RequestSound' /\ Recs' = Recs
  BY <1>1, <1>2, SaneStays
<1>4. idx \in Recs
  BY <1>1 DEF IInv, Moving
<1>5. ~SlotsSound'
  BY <1>1, <1>3, <1>4 DEF SlotsSound, SlotsOK, Moves
<1>6. CommitTypeOK' /\ OnlyImagesChange' /\ RefusedUntouched'
  BY <1>1, <1>2, <1>3, <1>5 DEF CommitTypeOK, CommitStages, OnlyImagesChange, Region, RefusedUntouched
<1>7. Checking' /\ Moving' /\ Copying' /\ Linking' /\ LowEnd' /\ Heads'
  BY DEF Checking, Moving, Copying, Linking, LowEnd, Heads
<1> QED
  BY <1>3, <1>6, <1>7 DEF IInv

LEMMA MoverCopies == IInv /\ MoveCell /\ stage' # "refused" => IInv'
<1> SUFFICES ASSUME IInv, MoveCell, stage' # "refused" PROVE IInv'
  OBVIOUS
<1>1. /\ stage = "move" /\ stage' = "move" /\ idx' = idx /\ moved' = moved + 1
      /\ Moves(plan[idx]) /\ moved < plan[idx].size
      /\ Quiet /\ UNCHANGED <<plan, names, cursor, pub, mem0>>
  BY DEF MoveCell, Quiet
<1>2. Sane /\ CommitTypeOK /\ N \in Nat /\ OnlyImagesChange /\ (N # 0 => cursor = plan[N].new)
  BY <1>1, AfterCheck
<1>3. /\ idx \in Recs /\ Schedulable /\ moved \in Nat
      /\ \A i \in Recs :
            IF Live(plan[i])
              THEN IF Settled(i) THEN Holds(i)
                   ELSE IF i = idx THEN Half(i) ELSE Source(i)
              ELSE Snapshot(i)
  BY <1>1, <1>2 DEF IInv, Moving, CommitTypeOK
<1>4. Live(plan[idx]) /\ ~Settled(idx)
  <2>1. idx \in Int
    BY <1>3, <1>2 DEF Recs
  <2> QED
    BY <1>1, <2>1 DEF Moves, Live, Settled
<1> DEFINE f == Offset(plan[idx])
<1> DEFINE c == plan[idx].new + f
<1>5. /\ f \in 0 .. plan[idx].size - 1
      /\ c \in Addr /\ plan[idx].old + f \in Addr
      /\ ~Copied1(plan[idx], f)
  <2>1. f \in 0 .. plan[idx].size - 1 /\ ~Copied1(plan[idx], f)
    BY <1>1, <1>2, <1>3, RecordFields DEF Offset, Copied1
  <2> QED
    BY <2>1, <1>2, <1>3, <1>4, Places
<1>6. mem' = [mem EXCEPT ![c] = mem[plan[idx].old + f]]
  BY DEF MoveCell
<1>7. /\ mem \in [Addr -> Int] /\ mem' \in [Addr -> Int]
      /\ mem'[c] = mem[plan[idx].old + f]
      /\ \A a \in Addr : a # c => mem'[a] = mem[a]
  <2>1. mem \in [Addr -> Int]
    BY <1>2 DEF CommitTypeOK
  <2> HIDE DEF c, f
  <2> QED
    BY <2>1, <1>5, <1>6
<1> HIDE DEF c
<1>8. CommitTypeOK'
  BY <1>1, <1>2, <1>7 DEF CommitTypeOK
<1>9. mem'[c] = mem0[plan[idx].old + f]
  <2>1. Half(idx)
    BY <1>3, <1>4
  <2> QED
    BY <2>1, <1>5, <1>7 DEF Half
<1>10. OnlyImagesChange'
  <2>1. c \in Region(plan[idx].new, plan[idx].size)
    BY <1>2, <1>3, <1>5, RecordFields DEF Region, c
  <2>2. ASSUME NEW a \in Addr, \A i \in Recs : a \notin Region(plan[i].new, plan[i].size)
        PROVE  mem'[a] = mem0[a]
    <3>1. a # c
      BY <1>3, <2>1, <2>2
    <3>2. mem[a] = mem0[a]
      BY <1>1, <1>2, <2>2 DEF OnlyImagesChange, CommitStages
    <3> QED
      BY <3>1, <3>2, <1>7
  <2>3. Recs' = Recs
    BY <1>2, <1>1, <1>3, QuietStays
  <2> QED
    BY <2>2, <2>3, <1>1 DEF OnlyImagesChange, Region
<1>11. ASSUME NEW i \in Recs, Live(plan[i]), Settled(i) PROVE Holds(i)'
  <2>1. i # idx
    BY <1>4, <1>11
  <2>2. ASSUME NEW o \in 0 .. plan[i].size - 1 PROVE mem'[plan[i].new + o] = Expected(plan[i], o)
    <3>1. plan[i].new + o # c
      BY <1>2, <1>3, <1>5, <2>1, NewApart DEF c
    <3>2. plan[i].new + o \in Addr
      BY <1>2, Places
    <3>3. mem[plan[i].new + o] = Expected(plan[i], o)
      BY <1>3, <1>11 DEF Holds
    <3> QED
      BY <3>1, <3>2, <3>3, <1>7
  <2> QED
    BY <2>2, <1>1, <1>2, QuietStays DEF Holds
<1>12. Half(idx)'
  <2>1. ASSUME NEW o \in 0 .. plan[idx].size - 1
        PROVE  IF Copied1(plan[idx], o)' THEN mem'[plan[idx].new + o] = mem0[plan[idx].old + o]
                                        ELSE mem'[plan[idx].old + o] = mem0[plan[idx].old + o]
    <3>1. plan[idx].new + o \in Addr /\ plan[idx].old + o \in Addr /\ o \in Nat
      BY <1>2, <1>3, <1>4, Places
    <3>2. IF Copied1(plan[idx], o) THEN mem[plan[idx].new + o] = mem0[plan[idx].old + o]
                                  ELSE mem[plan[idx].old + o] = mem0[plan[idx].old + o]
      BY <1>3, <1>4 DEF Half
    <3>3. Copied1(plan[idx], o)' <=> (Copied1(plan[idx], o) \/ o = f)
      BY <1>1, <1>2, <1>3, <3>1, RecordFields DEF Copied1, Offset, Upward
    <3>4. CASE o = f
      BY <3>3, <3>4, <1>9 DEF c
    <3>5. CASE o # f /\ Copied1(plan[idx], o)
      <4>1. plan[idx].new + o # c
        BY <3>1, <3>5, <1>2, <1>3, <1>5, RecordFields DEF c
      <4> QED
        BY <3>1, <3>2, <3>3, <3>5, <4>1, <1>7
    <3>6. CASE o # f /\ ~Copied1(plan[idx], o)
      <4>1. c # plan[idx].old + o
        BY <3>6, <1>1, <1>2, <1>3, OwnApart DEF c
      <4> QED
        BY <3>1, <3>2, <3>3, <3>6, <4>1, <1>7
    <3> QED
      BY <3>4, <3>5, <3>6
  <2> QED
    BY <2>1, <1>1 DEF Half
<1>13. ASSUME NEW i \in Recs, Live(plan[i]), ~Settled(i), i # idx PROVE Source(i)'
  <2>1. Moves(plan[i]) /\ (IF Down THEN i < idx ELSE idx < i)
    BY <1>2, <1>3, <1>13 DEF Settled, Recs
  <2>2. ASSUME NEW o \in 0 .. plan[i].size - 1 PROVE mem'[plan[i].old + o] = mem0[plan[i].old + o]
    <3>1. c # plan[i].old + o
      BY <1>1, <1>2, <1>3, <1>5, <2>1, LaterApart DEF c
    <3>2. plan[i].old + o \in Addr
      BY <1>2, <1>13, Places
    <3>3. mem[plan[i].old + o] = mem0[plan[i].old + o]
      BY <1>3, <1>13 DEF Source
    <3> QED
      BY <3>1, <3>2, <3>3, <1>7
  <2> QED
    BY <2>2, <1>1 DEF Source
<1>14. ASSUME NEW i \in Recs, ~Live(plan[i]) PROVE Snapshot(i)'
  <2>1. ASSUME NEW o \in 0 .. plan[i].size - 1 PROVE mem'[plan[i].src + o] = mem0[plan[i].src + o]
    <3>1. c # plan[i].src + o
      BY <1>2, <1>3, <1>5, <1>14, SnapshotApart DEF c
    <3>2. plan[i].src + o \in Addr
      BY <1>2, <1>14, Places
    <3>3. mem[plan[i].src + o] = mem0[plan[i].src + o]
      BY <1>3, <1>14 DEF Snapshot
    <3> QED
      BY <3>1, <3>2, <3>3, <1>7
  <2> QED
    BY <2>1, <1>1 DEF Snapshot
<1>15. /\ Sane' /\ N' = N /\ Recs' = Recs /\ Schedulable' = Schedulable /\ Down' = Down
  BY <1>1, <1>2, <1>3, QuietStays
<1>16. \A i \in Recs : Settled(i)' = Settled(i) /\ Live(plan[i])' = Live(plan[i])
  BY <1>1, <1>15 DEF Settled, Moves, Live
<1>17. Moving'
  <2>1. moved + 1 <= plan[idx].size
    BY <1>1, <1>2, <1>3, RecordFields
  <2>2. \A i \in Recs :
            IF Live(plan[i])'
              THEN IF Settled(i)' THEN Holds(i)'
                   ELSE IF i = idx' THEN Half(i)' ELSE Source(i)'
              ELSE Snapshot(i)'
    BY <1>1, <1>11, <1>12, <1>13, <1>14, <1>16
  <2> QED
    BY <1>1, <1>3, <1>15, <2>1, <2>2 DEF Moving
<1>18. Checking' /\ Copying' /\ Linking' /\ LowEnd' /\ Heads' /\ RefusedUntouched'
  BY <1>1, <1>2, <1>15 DEF Checking, Copying, Linking, LowEnd, Heads, RefusedUntouched
<1>19. RequestSound' /\ Packed(Validated)'
  BY <1>1, <1>15 DEF Sane, Validated
<1> QED
  BY <1>8, <1>10, <1>17, <1>18, <1>19 DEF IInv

LEMMA MoveCellStep == IInv /\ MoveCell => IInv'
  BY MoverRefuses, MoverCopies

\* A step that changes memory only at the new place of the record at hand
\* keeps every image, source and snapshot that the invariant speaks of.
LEMMA OthersKept ==
    ASSUME Sane, NEW k \in Recs,
           \A a \in Addr : a \notin Region(plan[k].new, plan[k].size) => mem'[a] = mem[a],
           NEW i \in Recs, NEW o \in 0 .. plan[i].size - 1
    PROVE  /\ i # k => mem'[plan[i].new + o] = mem[plan[i].new + o]
           /\ ~Live(plan[i]) => mem'[plan[i].src + o] = mem[plan[i].src + o]
           /\ Schedulable /\ Moves(plan[k]) /\ Moves(plan[i]) /\ (IF Down THEN i < k ELSE k < i)
                => mem'[plan[i].old + o] = mem[plan[i].old + o]
<1>1. ASSUME NEW a \in Addr, \A p \in 0 .. plan[k].size - 1 : plan[k].new + p # a
      PROVE  mem'[a] = mem[a]
  <2>1. SUFFICES a \notin Region(plan[k].new, plan[k].size)
    OBVIOUS
  <2>2. SUFFICES ASSUME a \in Region(plan[k].new, plan[k].size) PROVE FALSE
    OBVIOUS
  <2>3. a - plan[k].new \in 0 .. plan[k].size - 1 /\ plan[k].new + (a - plan[k].new) = a
    BY <2>2, RecordFields DEF Region
  <2> QED
    BY <1>1, <2>3
<1>2. plan[i].new + o \in Addr /\ (~Live(plan[i]) => plan[i].src + o \in Addr)
      /\ (Live(plan[i]) => plan[i].old + o \in Addr)
  BY Places
<1>3. ASSUME i # k PROVE mem'[plan[i].new + o] = mem[plan[i].new + o]
  <2>1. \A p \in 0 .. plan[k].size - 1 : plan[k].new + p # plan[i].new + o
    BY <1>3, NewApart
  <2> QED
    BY <1>1, <1>2, <2>1
<1>4. ASSUME ~Live(plan[i]) PROVE mem'[plan[i].src + o] = mem[plan[i].src + o]
  <2>1. \A p \in 0 .. plan[k].size - 1 : plan[k].new + p # plan[i].src + o
    BY <1>4, SnapshotApart
  <2> QED
    BY <1>1, <1>2, <1>4, <2>1
<1>5. ASSUME Schedulable, Moves(plan[k]), Moves(plan[i]), IF Down THEN i < k ELSE k < i
      PROVE  mem'[plan[i].old + o] = mem[plan[i].old + o]
  <2>1. \A p \in 0 .. plan[k].size - 1 : plan[k].new + p # plan[i].old + o
    BY <1>5, LaterApart
  <2>2. Live(plan[i])
    BY <1>5 DEF Moves, Live
  <2> QED
    BY <1>1, <1>2, <2>1, <2>2
<1> QED
  BY <1>3, <1>4, <1>5

\* From one record of the schedule to the next, or to the snapshots.
LEMMA NextRecord ==
    ASSUME Sane, N \in Nat, stage = "move", idx \in Recs, NextMove(idx), Quiet
    PROVE  /\ moved' = 0 /\ idx' \in Nat /\ stage' \in {"move", "copy"}
           /\ stage' = "move" =>
                /\ idx' \in Recs
                /\ \A i \in Recs : Settled(i)' <=> (Settled(i) \/ i = idx)
           /\ stage' = "copy" =>
                /\ idx' = 1
                /\ \A i \in Recs : Settled(i) \/ i = idx
<1>1. Down' = Down /\ idx \in 1 .. N /\ UNCHANGED plan
  BY SaneStays DEF Quiet, Recs
<1>2. CASE idx = LastMove
  <2>1. moved' = 0 /\ stage' = "copy" /\ idx' = 1
    BY <1>2 DEF NextMove
  <2>2. \A i \in Recs : Settled(i) \/ i = idx
    BY <1>1, <1>2 DEF LastMove, Settled, Recs
  <2> QED
    BY <2>1, <2>2
<1>3. CASE idx # LastMove
  <2>1. moved' = 0 /\ stage' = "move" /\ idx' = IF Down THEN idx - 1 ELSE idx + 1
    BY <1>3 DEF NextMove
  <2>2. idx' \in Recs
    BY <1>1, <1>3, <2>1 DEF LastMove, Recs
  <2>3. ASSUME NEW i \in Recs PROVE Settled(i)' <=> (Settled(i) \/ i = idx)
    <3>1. Moves(plan[i])' = Moves(plan[i])
      BY <1>1 DEF Moves
    <3>2. (IF Down THEN idx' < i ELSE i < idx') <=> ((IF Down THEN idx < i ELSE i < idx) \/ i = idx)
      BY <1>1, <2>1 DEF Recs
    <3>3. i = idx \/ i # idx
      OBVIOUS
    <3>4. (Settled(i))' <=> (~Moves(plan[i]) \/ (IF Down THEN idx' < i ELSE i < idx'))
      BY <1>1, <3>1 DEF Settled
    <3> QED
      BY <3>2, <3>4 DEF Settled
  <2>4. idx' \in Nat
    BY <1>1, <2>2 DEF Recs
  <2> QED
    BY <2>1, <2>2, <2>3, <2>4
<1> QED
  BY <1>2, <1>3

\* What the end of a record has to establish for the invariant.
LEMMA Advance ==
    ASSUME IInv, stage = "move", NextMove(idx), Quiet,
           mem' \in [Addr -> Int],
           OnlyImagesChange',
           \A i \in Recs : Live(plan[i]) /\ (Settled(i) \/ i = idx) => (Holds(i))',
           \A i \in Recs : Live(plan[i]) /\ ~Settled(i) /\ i # idx => (Source(i))',
           \A i \in Recs : ~Live(plan[i]) => (Snapshot(i))'
    PROVE  IInv'
<1>1. Sane /\ CommitTypeOK /\ N \in Nat /\ (N # 0 => cursor = plan[N].new)
  BY AfterCheck
<1>2. idx \in Recs /\ Schedulable
  BY DEF IInv, Moving
<1>3. /\ moved' = 0 /\ idx' \in Nat /\ stage' \in {"move", "copy"}
      /\ stage' = "move" =>
           /\ idx' \in Recs
           /\ \A i \in Recs : Settled(i)' <=> (Settled(i) \/ i = idx)
      /\ stage' = "copy" =>
           /\ idx' = 1
           /\ \A i \in Recs : Settled(i) \/ i = idx
  BY <1>1, <1>2, NextRecord
<1>4. /\ Sane' /\ N' = N /\ Recs' = Recs /\ Schedulable' = Schedulable
  BY <1>1, <1>2, QuietStays
<1>5. \A i \in Recs : Live(plan[i])' = Live(plan[i])
  BY <1>1, QuietStays
<1>6. CommitTypeOK'
  BY <1>1, <1>3 DEF CommitTypeOK, CommitStages, Quiet
<1>7. Moving'
  <2> SUFFICES ASSUME stage' = "move" PROVE Moving'
    BY DEF Moving
  <2>1. idx' \in Recs /\ idx' \in Recs'
    BY <1>3, <1>4
  <2>2. \A i \in Recs :
            IF Live(plan[i])'
              THEN IF Settled(i)' THEN Holds(i)'
                   ELSE IF i = idx' THEN Half(i)' ELSE Source(i)'
              ELSE Snapshot(i)'
    <3>1. ASSUME NEW i \in Recs, (Source(i))' PROVE (Half(i))'
      <4>1. plan'[i].size \in Nat
        BY <1>1, RecordFields DEF Quiet
      <4> QED
        BY <1>3, <3>1, <4>1 DEF Source, Half, Copied1
    <3> QED
      BY <1>3, <1>5, <3>1
  <2>3. 0 <= plan'[idx'].size
    BY <2>1, <1>1, RecordFields DEF Quiet
  <2> QED
    BY <1>2, <1>3, <1>4, <2>1, <2>2, <2>3 DEF Moving
<1>8. Copying'
  <2> SUFFICES ASSUME stage' = "copy" PROVE Copying'
    BY DEF Copying
  <2>1. idx' = 1 /\ idx' \in 1 .. N' + 1
    BY <1>1, <1>3, <1>4
  <2>2. ASSUME NEW i \in Recs
        PROVE  IF Live(plan[i])' \/ i < idx' THEN (Holds(i))' ELSE (Snapshot(i))'
    <3>1. ~(i < idx')
      BY <2>1 DEF Recs
    <3> QED
      BY <1>3, <1>5, <3>1
  <2> QED
    BY <1>4, <2>1, <2>2 DEF Copying
<1>9. Checking' /\ Linking' /\ LowEnd' /\ Heads' /\ RefusedUntouched'
  BY <1>1, <1>3, <1>4 DEF Checking, Linking, LowEnd, Heads, RefusedUntouched, Quiet
<1>10. RequestSound' /\ Packed(Validated)'
  BY <1>3, <1>4 DEF Sane, Validated
<1> QED
  BY <1>6, <1>7, <1>8, <1>9, <1>10 DEF IInv

LEMMA SkipMoveStep == IInv /\ SkipMove => IInv'
<1> SUFFICES ASSUME IInv, SkipMove PROVE IInv'
  OBVIOUS
<1>1. /\ stage = "move" /\ ~Moves(plan[idx]) /\ NextMove(idx) /\ Quiet
      /\ UNCHANGED <<mem, plan, mem0>>
  BY DEF SkipMove, Quiet
<1>2. Sane /\ CommitTypeOK /\ OnlyImagesChange
  BY <1>1, AfterCheck
<1>3. /\ idx \in Recs
      /\ \A i \in Recs :
            IF Live(plan[i])
              THEN IF Settled(i) THEN Holds(i)
                   ELSE IF i = idx THEN Half(i) ELSE Source(i)
              ELSE Snapshot(i)
  BY <1>1 DEF IInv, Moving
<1>4. Settled(idx)
  BY <1>1 DEF Settled
<1>5. \A i \in Recs : (Holds(i)' <=> Holds(i)) /\ (Source(i)' <=> Source(i))
                      /\ (Snapshot(i)' <=> Snapshot(i))
  BY <1>1 DEF Holds, Source, Snapshot, Expected
<1>6. mem' \in [Addr -> Int]
  BY <1>1, <1>2 DEF CommitTypeOK
<1>7. OnlyImagesChange'
  <2>1. Recs' = Recs
    BY <1>1, <1>2, SaneStays DEF Quiet
  <2> QED
    BY <1>1, <1>2, <2>1 DEF OnlyImagesChange, CommitStages
<1> QED
  BY <1>1, <1>3, <1>4, <1>5, <1>6, <1>7, Advance

LEMMA RepairStep == IInv /\ Repair => IInv'
<1> SUFFICES ASSUME IInv, Repair PROVE IInv'
  OBVIOUS
<1>1. /\ stage = "move" /\ Moves(plan[idx]) /\ moved = plan[idx].size
      /\ NextMove(idx) /\ Quiet /\ UNCHANGED <<plan, mem0>>
  BY DEF Repair, Quiet
<1>2. Sane /\ CommitTypeOK /\ OnlyImagesChange /\ mem \in [Addr -> Int]
  BY <1>1, AfterCheck DEF CommitTypeOK
<1>3. /\ idx \in Recs /\ Schedulable
      /\ \A i \in Recs :
            IF Live(plan[i])
              THEN IF Settled(i) THEN Holds(i)
                   ELSE IF i = idx THEN Half(i) ELSE Source(i)
              ELSE Snapshot(i)
  BY <1>1 DEF IInv, Moving
<1>4. Live(plan[idx]) /\ ~Settled(idx) /\ idx \in Int
  BY <1>1, <1>3, RecordFields, <1>2 DEF Moves, Live, Settled, Recs
<1>5. mem' = [a \in Addr |-> IF a \in Region(plan[idx].new, plan[idx].size)
                              THEN Repaired(plan[idx], a - plan[idx].new, mem[a]) ELSE mem[a]]
  BY DEF Repair
<1>6. \A a \in Addr : a \notin Region(plan[idx].new, plan[idx].size) => mem'[a] = mem[a]
  BY <1>5
<1>7. mem' \in [Addr -> Int]
  <2>1. \A a \in Addr : Repaired(plan[idx], a - plan[idx].new, mem[a]) \in Int
    BY <1>2, <1>3, RecordFields DEF Repaired
  <2> QED
    BY <1>2, <1>5, <2>1
<1>8. ASSUME NEW o \in 0 .. plan[idx].size - 1
      PROVE  mem'[plan[idx].new + o] = Expected(plan[idx], o)
  <2>1. plan[idx].new + o \in Addr /\ plan[idx].new + o \in Region(plan[idx].new, plan[idx].size)
          /\ (plan[idx].new + o) - plan[idx].new = o
    BY <1>2, <1>3, RecordFields, Places DEF Region
  <2>2. mem'[plan[idx].new + o] = Repaired(plan[idx], o, mem[plan[idx].new + o])
    BY <1>5, <2>1
  <2>3. Copied1(plan[idx], o)
    BY <1>1, <1>2, <1>3, RecordFields DEF Copied1
  <2>4. mem[plan[idx].new + o] = mem0[plan[idx].old + o]
    BY <1>3, <1>4, <2>3 DEF Half
  <2> QED
    BY <1>1, <1>4, <2>2, <2>4 DEF Expected
<1>9. ASSUME NEW i \in Recs, Live(plan[i]), Settled(i) PROVE (Holds(i))'
  <2>1. i # idx /\ Holds(i)
    BY <1>3, <1>4, <1>9
  <2>2. \A o \in 0 .. plan[i].size - 1 : mem'[plan[i].new + o] = mem[plan[i].new + o]
    BY <1>2, <1>3, <1>6, <2>1, OthersKept
  <2> QED
    BY <1>1, <2>1, <2>2 DEF Holds, Expected
<1>10. ASSUME NEW i \in Recs, Live(plan[i]), ~Settled(i), i # idx PROVE (Source(i))'
  <2>1. Source(i) /\ Moves(plan[i]) /\ (IF Down THEN i < idx ELSE idx < i)
    BY <1>2, <1>3, <1>10, RecordFields DEF Settled, Recs
  <2>2. \A o \in 0 .. plan[i].size - 1 : mem'[plan[i].old + o] = mem[plan[i].old + o]
    BY <1>1, <1>2, <1>3, <1>6, <2>1, OthersKept
  <2> QED
    BY <1>1, <2>1, <2>2 DEF Source
<1>11. ASSUME NEW i \in Recs, ~Live(plan[i]) PROVE (Snapshot(i))'
  <2>1. Snapshot(i)
    BY <1>3, <1>11
  <2>2. \A o \in 0 .. plan[i].size - 1 : mem'[plan[i].src + o] = mem[plan[i].src + o]
    BY <1>2, <1>3, <1>6, <1>11, OthersKept
  <2> QED
    BY <1>1, <2>1, <2>2 DEF Snapshot
<1>12. OnlyImagesChange'
  <2>1. Recs' = Recs
    BY <1>1, <1>2, SaneStays DEF Quiet
  <2>2. ASSUME NEW a \in Addr, \A i \in Recs : a \notin Region(plan[i].new, plan[i].size)
        PROVE  mem'[a] = mem0[a]
    BY <1>1, <1>2, <1>3, <1>6, <2>2 DEF OnlyImagesChange, CommitStages
  <2> QED
    BY <1>1, <2>1, <2>2 DEF OnlyImagesChange, Region
<1>13. \A i \in Recs : Live(plan[i]) /\ (Settled(i) \/ i = idx) => (Holds(i))'
  <2>1. ASSUME NEW i \in Recs, i = idx PROVE (Holds(i))'
    <3>1. \A o \in 0 .. plan[i].size - 1 : mem'[plan[i].new + o] = Expected(plan[i], o)
      BY <1>8, <2>1
    <3> QED
      BY <3>1, <1>1 DEF Holds, Expected
  <2> QED
    BY <1>9, <2>1
<1> QED
  BY <1>1, <1>7, <1>10, <1>11, <1>12, <1>13, Advance

-----------------------------------------------------------------------------
(* The snapshots *)

LEMMA CopySnapshotStep == IInv /\ CopySnapshot => IInv'
<1> SUFFICES ASSUME IInv, CopySnapshot PROVE IInv'
  OBVIOUS
<1>1. /\ stage = "copy" /\ stage' = "copy" /\ idx <= N /\ idx' = idx + 1 /\ Quiet
      /\ UNCHANGED <<plan, mem0, moved>>
  BY DEF CopySnapshot, Quiet
<1>2. Sane /\ CommitTypeOK /\ OnlyImagesChange /\ mem \in [Addr -> Int] /\ N \in Nat
      /\ (N # 0 => cursor = plan[N].new)
  BY <1>1, AfterCheck DEF CommitTypeOK
<1>3. /\ idx \in Recs /\ idx \in Nat
      /\ \A i \in Recs : IF Live(plan[i]) \/ i < idx THEN Holds(i) ELSE Snapshot(i)
  BY <1>1, <1>2 DEF IInv, Copying, Recs
<1>4. /\ N' = N /\ Recs' = Recs /\ Sane' /\ \A i \in Recs : Live(plan[i])' = Live(plan[i])
  BY <1>1, <1>2, <1>3, QuietStays
<1>5. Live(plan[idx]) <=> plan[idx].src = 0
  BY <1>2, <1>3, RecordFields
<1>6. ~Live(plan[idx]) =>
        mem' = [a \in Addr |-> IF a \in Region(plan[idx].new, plan[idx].size)
                                THEN mem[plan[idx].src + (a - plan[idx].new)] ELSE mem[a]]
  BY <1>5 DEF CopySnapshot
<1>7. Live(plan[idx]) => mem' = mem
  BY <1>5 DEF CopySnapshot
<1>8. \A a \in Addr : a \notin Region(plan[idx].new, plan[idx].size) => mem'[a] = mem[a]
  BY <1>6, <1>7
<1>9. mem' \in [Addr -> Int]
  <2>1. CASE ~Live(plan[idx])
    <3>1. ASSUME NEW a \in Addr, a \in Region(plan[idx].new, plan[idx].size)
          PROVE  mem[plan[idx].src + (a - plan[idx].new)] \in Int
      <4>1. a - plan[idx].new \in 0 .. plan[idx].size - 1
        BY <1>2, <1>3, <3>1, RecordFields DEF Region
      <4>2. plan[idx].src + (a - plan[idx].new) \in Addr
        BY <1>2, <1>3, <2>1, <4>1, Places
      <4> QED
        BY <1>2, <4>2
    <3> QED
      BY <1>2, <1>6, <2>1, <3>1
  <2> QED
    BY <1>2, <1>7, <2>1
<1>10. ASSUME NEW o \in 0 .. plan[idx].size - 1
       PROVE  mem'[plan[idx].new + o] = Expected(plan[idx], o)
  <2>1. CASE Live(plan[idx])
    BY <1>3, <1>7, <2>1 DEF Holds
  <2>2. CASE ~Live(plan[idx])
    <3>1. plan[idx].new + o \in Addr /\ plan[idx].new + o \in Region(plan[idx].new, plan[idx].size)
          /\ (plan[idx].new + o) - plan[idx].new = o
      BY <1>2, <1>3, RecordFields, Places DEF Region
    <3>2. mem'[plan[idx].new + o] = mem[plan[idx].src + o]
      BY <1>6, <2>2, <3>1
    <3>3. Snapshot(idx)
      BY <1>3, <2>2
    <3> QED
      BY <2>2, <3>2, <3>3 DEF Snapshot, Expected
  <2> QED
    BY <2>1, <2>2
<1>11. ASSUME NEW i \in Recs, Live(plan[i]) \/ i < idx + 1 PROVE (Holds(i))'
  <2>1. CASE i = idx
    <3>1. \A o \in 0 .. plan[i].size - 1 : mem'[plan[i].new + o] = Expected(plan[i], o)
      BY <1>10, <2>1
    <3> QED
      BY <1>1, <3>1 DEF Holds, Expected
  <2>2. CASE i # idx
    <3>1. Holds(i)
      BY <1>3, <1>11, <2>2 DEF Recs
    <3>2. \A o \in 0 .. plan[i].size - 1 : mem'[plan[i].new + o] = mem[plan[i].new + o]
      BY <1>2, <1>3, <1>8, <2>2, OthersKept
    <3> QED
      BY <1>1, <3>1, <3>2 DEF Holds, Expected
  <2> QED
    BY <2>1, <2>2
<1>12. ASSUME NEW i \in Recs, ~Live(plan[i]), ~(i < idx + 1) PROVE (Snapshot(i))'
  <2>1. Snapshot(i)
    BY <1>3, <1>12 DEF Recs
  <2>2. \A o \in 0 .. plan[i].size - 1 : mem'[plan[i].src + o] = mem[plan[i].src + o]
    BY <1>2, <1>3, <1>8, <1>12, OthersKept
  <2> QED
    BY <1>1, <2>1, <2>2 DEF Snapshot
<1>13. Copying'
  <2>1. idx' \in 1 .. N' + 1
    BY <1>1, <1>2, <1>3, <1>4
  <2>2. \A i \in Recs' : IF Live(plan[i])' \/ i < idx' THEN (Holds(i))' ELSE (Snapshot(i))'
    BY <1>1, <1>4, <1>11, <1>12
  <2> QED
    BY <2>1, <2>2 DEF Copying
<1>14. OnlyImagesChange'
  <2>1. ASSUME NEW a \in Addr, \A i \in Recs : a \notin Region(plan[i].new, plan[i].size)
        PROVE  mem'[a] = mem0[a]
    BY <1>1, <1>2, <1>3, <1>8, <2>1 DEF OnlyImagesChange, CommitStages
  <2> QED
    BY <1>1, <1>4, <2>1 DEF OnlyImagesChange, Region
<1>15. CommitTypeOK'
  BY <1>1, <1>2, <1>3, <1>9 DEF CommitTypeOK, Quiet
<1>16. Checking' /\ Moving' /\ Linking' /\ LowEnd' /\ Heads' /\ RefusedUntouched'
  BY <1>1, <1>2, <1>4 DEF Checking, Moving, Linking, LowEnd, Heads, RefusedUntouched, Quiet
<1>17. RequestSound' /\ Packed(Validated)'
  BY <1>1, <1>4 DEF Sane, Validated
<1> QED
  BY <1>13, <1>14, <1>15, <1>16, <1>17 DEF IInv

-----------------------------------------------------------------------------
(* The chain and the publication *)

LEMMA CopiedStep == IInv /\ Copied => IInv'
<1> SUFFICES ASSUME IInv, Copied PROVE IInv'
  OBVIOUS
<1>1. /\ stage = "copy" /\ stage' = "link" /\ idx = N + 1 /\ idx' = 1 /\ Quiet
      /\ UNCHANGED <<plan, mem, mem0, moved>>
  BY DEF Copied, Quiet
<1>2. Sane /\ CommitTypeOK /\ OnlyImagesChange /\ N \in Nat /\ (N # 0 => cursor = plan[N].new)
  BY <1>1, AfterCheck
<1>3. /\ N' = N /\ Recs' = Recs /\ Sane'
  BY <1>1, <1>2, SaneStays DEF Quiet
<1>4. Linking'
  <2>1. ASSUME NEW i \in Recs, NEW o \in LoaderWords .. plan[i].size - 1
        PROVE  mem[plan[i].new + o] = Expected(plan[i], o)
    <3>1. Holds(i)
      BY <1>1, <1>2 DEF IInv, Copying, Recs
    <3>2. o \in 0 .. plan[i].size - 1
      BY DEF LoaderWords
    <3> QED
      BY <3>1, <3>2 DEF Holds
  <2>2. \A i \in Recs : ~(i < 1)
    BY DEF Recs
  <2>3. \A i \in Recs : \A o \in LoaderWords .. plan[i].size - 1 :
            mem'[plan'[i].new + o] = (Expected(plan[i], o))'
    BY <1>1, <2>1 DEF Expected, Live, Moves, Repaired, Pointers, Upward
  <2>4. 1 \in 1 .. N + 1
    BY <1>2
  <2> QED
    BY <1>1, <1>3, <2>2, <2>3, <2>4 DEF Linking
<1>5. OnlyImagesChange' /\ CommitTypeOK'
  BY <1>1, <1>2, <1>3 DEF OnlyImagesChange, CommitTypeOK, CommitStages, Quiet
<1>6. Checking' /\ Moving' /\ Copying' /\ LowEnd' /\ Heads' /\ RefusedUntouched'
  BY <1>1, <1>2, <1>3 DEF Checking, Moving, Copying, LowEnd, Heads, RefusedUntouched, Quiet
<1>7. RequestSound' /\ Packed(Validated)'
  BY <1>1, <1>3 DEF Sane, Validated
<1> QED
  BY <1>4, <1>5, <1>6, <1>7 DEF IInv

LEMMA LinkStep == IInv /\ Link => IInv'
<1> SUFFICES ASSUME IInv, Link PROVE IInv'
  OBVIOUS
<1>1. /\ stage = "link" /\ stage' = "link" /\ idx <= N /\ idx' = idx + 1 /\ Quiet
      /\ UNCHANGED <<plan, mem0, moved>>
      /\ mem' = [mem EXCEPT ![plan[idx].new] = Entry(idx + 1), ![plan[idx].new + 1] = Entry(idx)]
  BY DEF Link, Quiet
<1>2. Sane /\ CommitTypeOK /\ OnlyImagesChange /\ mem \in [Addr -> Int] /\ N \in Nat
      /\ (N # 0 => cursor = plan[N].new)
  BY <1>1, AfterCheck DEF CommitTypeOK
<1>3. /\ idx \in Recs /\ idx \in Nat
      /\ \A i \in Recs : \A o \in LoaderWords .. plan[i].size - 1 :
            mem[plan[i].new + o] = Expected(plan[i], o)
      /\ \A i \in Recs : i < idx =>
            mem[plan[i].new + 1] = Entry(i) /\ mem[plan[i].new] = Entry(i + 1)
  BY <1>1, <1>2 DEF IInv, Linking, Recs
<1>4. /\ N' = N /\ Recs' = Recs /\ Sane'
  BY <1>1, <1>2, SaneStays DEF Quiet
<1>5. /\ plan[idx].new \in Addr /\ plan[idx].new + 1 \in Addr
      /\ 0 \in 0 .. plan[idx].size - 1 /\ 1 \in 0 .. plan[idx].size - 1 /\ plan[idx].new \in Nat
  <2>1. plan[idx].new \in Nat /\ plan[idx].size \in Nat /\ plan[idx].size >= 3
        /\ plan[idx].new + plan[idx].size < Space
    BY <1>2, <1>3, RecordFields
  <2> QED
    BY <2>1, SpaceAssumption DEF Addr
<1>6. Entry(idx) \in Int /\ Entry(idx + 1) \in Int
  <2>1. ASSUME NEW i \in 1 .. N + 1 PROVE Entry(i) \in Int
    <3>1. i > N \/ i \in Recs
      BY <1>2 DEF Recs
    <3> QED
      BY <1>2, <3>1, RecordFields, SpaceAssumption DEF Entry
  <2> QED
    BY <1>1, <1>2, <1>3, <2>1 DEF Recs
<1>7. /\ mem' \in [Addr -> Int]
      /\ mem'[plan[idx].new] = Entry(idx + 1) /\ mem'[plan[idx].new + 1] = Entry(idx)
      /\ \A a \in Addr : a # plan[idx].new /\ a # plan[idx].new + 1 => mem'[a] = mem[a]
  BY <1>1, <1>2, <1>5, <1>6
<1>8. ASSUME NEW i \in Recs, NEW o \in 0 .. plan[i].size - 1, i # idx \/ o >= LoaderWords
      PROVE  mem'[plan[i].new + o] = mem[plan[i].new + o]
  <2>1. plan[i].new + o \in Addr
    BY <1>2, Places
  <2>2. CASE i # idx
    <3>1. plan[i].new + o # plan[idx].new + 0 /\ plan[i].new + o # plan[idx].new + 1
      BY <1>2, <1>3, <1>5, <2>2, NewApart
    <3> QED
      BY <1>5, <1>7, <2>1, <3>1
  <2>3. CASE i = idx /\ o >= LoaderWords
    BY <1>5, <1>7, <2>1, <2>3 DEF LoaderWords
  <2> QED
    BY <1>8, <2>2, <2>3
<1>9. Linking'
  <2>1. idx' \in 1 .. N' + 1
    BY <1>1, <1>2, <1>3, <1>4
  <2>2. ASSUME NEW i \in Recs, NEW o \in LoaderWords .. plan[i].size - 1
        PROVE  mem'[plan'[i].new + o] = (Expected(plan[i], o))'
    <3>1. o \in 0 .. plan[i].size - 1 /\ o >= LoaderWords
      BY DEF LoaderWords
    <3>2. (Expected(plan[i], o))' = Expected(plan[i], o)
      BY <1>1 DEF Expected, Live, Moves, Repaired, Pointers, Upward
    <3> QED
      BY <1>1, <1>3, <1>8, <3>1, <3>2
  <2>3. ASSUME NEW i \in Recs, i < idx + 1
        PROVE  mem'[plan'[i].new + 1] = (Entry(i))' /\ mem'[plan'[i].new] = (Entry(i + 1))'
    <3>1. (Entry(i))' = Entry(i) /\ (Entry(i + 1))' = Entry(i + 1)
      BY <1>1, <1>4 DEF Entry
    <3>2. CASE i = idx
      BY <1>1, <1>7, <3>1, <3>2
    <3>3. CASE i # idx
      <4>1. i < idx
        BY <1>3, <2>3, <3>3 DEF Recs
      <4>2. 0 \in 0 .. plan[i].size - 1 /\ 1 \in 0 .. plan[i].size - 1 /\ plan[i].new \in Nat
        BY <1>2, RecordFields
      <4>3. mem'[plan[i].new + 0] = mem[plan[i].new + 0] /\ mem'[plan[i].new + 1] = mem[plan[i].new + 1]
        BY <1>8, <3>3, <4>2
      <4>4. plan[i].new + 0 = plan[i].new
        BY <4>2
      <4> QED
        BY <1>1, <1>3, <3>1, <4>1, <4>3, <4>4
    <3> QED
      BY <3>2, <3>3
  <2> QED
    BY <1>1, <1>4, <2>1, <2>2, <2>3 DEF Linking
<1>10. OnlyImagesChange'
  <2>1. plan[idx].new \in Region(plan[idx].new, plan[idx].size)
        /\ plan[idx].new + 1 \in Region(plan[idx].new, plan[idx].size)
    BY <1>2, <1>3, RecordFields DEF Region
  <2>2. ASSUME NEW a \in Addr, \A i \in Recs : a \notin Region(plan[i].new, plan[i].size)
        PROVE  mem'[a] = mem0[a]
    BY <1>1, <1>2, <1>3, <1>7, <2>1, <2>2 DEF OnlyImagesChange, CommitStages
  <2> QED
    BY <1>1, <1>4, <2>2 DEF OnlyImagesChange, Region
<1>11. CommitTypeOK'
  BY <1>1, <1>2, <1>3, <1>7 DEF CommitTypeOK, Quiet
<1>12. Checking' /\ Moving' /\ Copying' /\ LowEnd' /\ Heads' /\ RefusedUntouched'
  BY <1>1, <1>2, <1>4 DEF Checking, Moving, Copying, LowEnd, Heads, RefusedUntouched, Quiet
<1>13. RequestSound' /\ Packed(Validated)'
  BY <1>1, <1>4 DEF Sane, Validated
<1> QED
  BY <1>9, <1>10, <1>11, <1>12, <1>13 DEF IInv

LEMMA PublishStep == IInv /\ Publish => IInv'
<1> SUFFICES ASSUME IInv, Publish PROVE IInv'
  OBVIOUS
<1>1. /\ stage = "link" /\ stage' = "published" /\ idx = N + 1
      /\ UNCHANGED <<mem, plan, names, idx, moved, cursor, mem0>>
      /\ pub' = [head |-> IF N = 0 THEN 0 ELSE plan[1].new,
                 low |-> IF N = 0 THEN EmptyTop ELSE cursor, names |-> names]
  BY DEF Publish
<1>2. Sane /\ CommitTypeOK /\ OnlyImagesChange /\ N \in Nat /\ (N # 0 => cursor = plan[N].new)
  BY <1>1, AfterCheck
<1>3. /\ N' = N /\ Recs' = Recs /\ Sane'
  BY <1>1, <1>2, SaneStays
<1>4. CommitTypeOK'
  <2>1. N # 0 => plan[1].new \in Int
    <3> SUFFICES ASSUME N # 0 PROVE plan[1].new \in Int
      OBVIOUS
    <3>1. 1 \in Recs
      BY <1>2 DEF Recs
    <3> QED
      BY <1>2, <3>1, RecordFields
  <2>2. EmptyTop \in Int /\ cursor \in Int /\ names \in Seq(Names)
    BY <1>2, SpaceAssumption DEF Addr, CommitTypeOK
  <2>3. pub' \in [head : Int, low : Int, names : Seq(Names)]
    BY <1>1, <2>1, <2>2
  <2> QED
    BY <1>1, <1>2, <2>3 DEF CommitTypeOK, CommitStages
<1>5. Linking'
  BY <1>1, <1>3 DEF IInv, Linking, Expected, Live, Moves, Repaired, Pointers, Entry
<1>6. Heads' /\ LowEnd'
  BY <1>1, <1>2, <1>3 DEF Heads, LowEnd
<1>7. OnlyImagesChange'
  BY <1>1, <1>2, <1>3 DEF OnlyImagesChange, CommitStages
<1>8. Checking' /\ Moving' /\ Copying' /\ RefusedUntouched'
  BY <1>1 DEF Checking, Moving, Copying, RefusedUntouched
<1>9. RequestSound' /\ Packed(Validated)'
  BY <1>1, <1>3 DEF Sane, Validated
<1> QED
  BY <1>4, <1>5, <1>6, <1>7, <1>8, <1>9 DEF IInv

-----------------------------------------------------------------------------
(* The theorems *)

LEMMA StutterStep == IInv /\ UNCHANGED commitVars => IInv'
<1> SUFFICES ASSUME IInv, UNCHANGED commitVars PROVE IInv'
  OBVIOUS
<1>1. UNCHANGED <<mem, plan, names, stage, idx, moved, cursor, pub, mem0>>
  BY DEF commitVars
<1>2. /\ N' = N /\ Recs' = Recs /\ Schedulable' = Schedulable /\ Down' = Down
      /\ Validated' = Validated /\ SlotsSound' = SlotsSound
  BY <1>1 DEF N, Recs, Schedulable, HasRoom, Down, Validated, SlotsSound, SlotsOK
<1>3. CommitTypeOK' /\ RequestSound' /\ RefusedUntouched' /\ OnlyImagesChange'
  BY <1>1, <1>2 DEF IInv, CommitTypeOK, RequestSound, RefusedUntouched, OnlyImagesChange
<1>4. stage' # "refused" => Packed(Validated)'
  BY <1>1, <1>2 DEF IInv, Packed, Fact, Apart
<1>5. \A i \in Recs : /\ Holds(i)' = Holds(i) /\ Source(i)' = Source(i) /\ Half(i)' = Half(i)
                      /\ Snapshot(i)' = Snapshot(i) /\ Settled(i)' = Settled(i)
                      /\ Live(plan[i])' = Live(plan[i]) /\ Moves(plan[i])' = Moves(plan[i])
  BY <1>1, <1>2 DEF Holds, Source, Half, Snapshot, Settled, Live, Moves, Expected, Repaired, Pointers, Copied1
<1>6. Checking' /\ LowEnd' /\ Heads'
  BY <1>1, <1>2 DEF IInv, Checking, LowEnd, Heads, Top
<1>7. Moving'
  BY <1>1, <1>2, <1>5 DEF IInv, Moving
<1>8. Copying'
  BY <1>1, <1>2, <1>5 DEF IInv, Copying
<1>9. Linking'
  BY <1>1, <1>2 DEF IInv, Linking, Entry, Expected, Live, Moves, Repaired, Pointers
<1> QED
  BY <1>3, <1>4, <1>6, <1>7, <1>8, <1>9 DEF IInv

LEMMA InvStep == IInv /\ [CommitNext]_commitVars => IInv'
  BY CheckStep, ScheduleStep, MoveCellStep, RepairStep, SkipMoveStep, CopySnapshotStep,
     CopiedStep, LinkStep, PublishStep, StutterStep DEF CommitNext

\* The state of a commit keeps its types.
THEOREM CommitTypes == CommitSpec => []CommitTypeOK
<1>1. IInv => CommitTypeOK
  BY DEF IInv
<1> QED
  BY <1>1, InitInv, InvStep, PTL DEF CommitSpec

\* A refused request whose slot lists are as RSXSLOTS makes them has changed no
\* cell of memory: r3comit.mac and rsxsched.mac make their checks before the
\* first move, and only the mover's check of a list may come after one.
THEOREM NothingBeforeAllChecks == CommitSpec => []RefusedUntouched
<1>1. IInv => RefusedUntouched
  BY DEF IInv
<1> QED
  BY <1>1, InitInv, InvStep, PTL DEF CommitSpec

\* Every image that the planner may ask to move or to copy is complete at its
\* new place, however the old and the new places overlap.
THEOREM ImagesArrive == CommitSpec => []ImagesIntact
<1>1. IInv => ImagesIntact
  BY DEF IInv, Linking, ImagesIntact
<1> QED
  BY <1>1, InitInv, InvStep, PTL DEF CommitSpec

\* The chain that the commit publishes leads from its head to the core.
THEOREM ChainLeadsToCore == CommitSpec => []ChainIntact
<1>1. IInv => ChainIntact
  <2> SUFFICES ASSUME IInv, stage = "published"
               PROVE  /\ N # 0 => pub.head = plan[1].new /\ pub.low = plan[N].new
                      /\ \A i \in Recs : mem[plan[i].new + 1] = Entry(i) /\ mem[plan[i].new] = Entry(i + 1)
    BY DEF ChainIntact
  <2>1. N # 0 => pub.head = plan[1].new /\ pub.low = plan[N].new
    BY DEF IInv, Heads, LowEnd
  <2>2. N \in Nat /\ idx = N + 1
    BY AfterCheck DEF IInv, Linking
  <2>3. \A i \in Recs : i < idx
    BY <2>2 DEF Recs
  <2> QED
    BY <2>1, <2>3 DEF IInv, Linking
<1> QED
  BY <1>1, InitInv, InvStep, PTL DEF CommitSpec

\* A commit writes nothing but the new places of the profile's images.
THEOREM NothingElseChanges == CommitSpec => []OnlyImagesChange
<1>1. IInv => OnlyImagesChange
  BY DEF IInv
<1> QED
  BY <1>1, InitInv, InvStep, PTL DEF CommitSpec
=============================================================================
