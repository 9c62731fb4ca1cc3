------------------------ MODULE FileServices_proofs -------------------------
(***************************************************************************)
(* The invariants of the file services, for every geometry, number of      *)
(* drives, files, blocks and directory entries, and for cautious programs. *)
(*                                                                         *)
(* A call is a composition of routines on a record m.  Each routine gets a *)
(* lemma that says what it needs of m and what it leaves: Sound(m), the    *)
(* part of the invariant about one drive; Bound(m), the FCB shows the map  *)
(* of its directory entry; and Keeps(m, n), the entries of other files are *)
(* those of m.                                                             *)
(***************************************************************************)
EXTENDS FileServicesRefine, FilePosition_proofs

\* What a call works on.
Calls == [dir : [Slots -> Entries \cup {NoEntry}], data : [DataBlocks -> Blocks],
          alv : SUBSET (0 .. DSM), name : Names, fcb : FCBs, val : Values,
          code : Nat, quit : BOOLEAN]

\* NoCrossLinks and ExtentsDistinct for one directory.
Unlinked(dd) ==
    \A i, j \in Live(dd) : \A p, q \in Indexes :
        dd[i].map[p] = dd[j].map[q] /\ dd[i].map[p] # NoBlock => i = j /\ p = q

Distinct(dd) ==
    \A i \in Live(dd) : Hits(dd, dd[i].name, dd[i].ex, dd[i].s2) = {i}

Sound(m) == m \in Calls /\ Unlinked(m.dir) /\ Distinct(m.dir) /\ Rebuilt(m.dir) \subseteq m.alv

Bound(m) == \E i \in Found(m) : m.dir[i].map = m.fcb.map

Keeps(m, n) ==
    /\ n.name = m.name
    /\ \A i \in Slots : m.dir[i].name \notin {m.name, "none"} => n.dir[i] = m.dir[i]

\* The FCB is at the same position.
Stays(m, n) == n.fcb.ex = m.fcb.ex /\ n.fcb.s2 = m.fcb.s2 /\ n.fcb.cr = m.fcb.cr

\* The two records differ in the result and the FCB only.
SameDrive(m, n) == n.dir = m.dir /\ n.data = m.data /\ n.alv = m.alv /\ n.name = m.name

-----------------------------------------------------------------------------
(* Directories.                                                            *)

\* An entry is in use exactly if it has the name of a file.
LEMMA LiveIffNamed ==
    ASSUME NEW dd \in [Slots -> Entries \cup {NoEntry}], NEW i \in Slots
    PROVE  /\ i \in Live(dd) <=> dd[i].name # "none"
           /\ i \in Live(dd) <=> dd[i] \in Entries
  <1>1. \A e \in Entries : e.name \in Names
    BY DEF Entries
  <1>2. NoEntry.name = "none"
    BY DEF NoEntry
  <1> QED BY <1>1, <1>2, FilesAssumption DEF Live

\* The iterator of UB_OPENCORE delivers entries in use only.
LEMMA FoundIsLive ==
    ASSUME NEW m \in Calls
    PROVE  Found(m) \subseteq Live(m.dir)
  BY LiveIffNamed, FilesAssumption DEF Calls, Found, Hits

(* The entry the iterator delivers is the only one there is.               *)
LEMMA OnlyHit ==
    ASSUME NEW m, Sound(m), NEW i \in Found(m)
    PROVE  Found(m) = {i} /\ At(m) = i /\ i \in Slots /\ m.dir[i] \in Entries
  <1>1. m \in Calls /\ i \in Live(m.dir)
    BY FoundIsLive DEF Sound
  <1>2. Found(m) = {i}
    BY <1>1 DEF Sound, Distinct, Found, Hits
  <1>3. i \in Slots /\ i \in Nat /\ m.dir[i] \in Entries
    BY <1>1, LiveIffNamed, FilesAssumption, SMT DEF Calls, Live, Slots
  <1>4. Min({i}) \in {i}
    BY <1>3, MinIn
  <1> QED BY <1>2, <1>3, <1>4 DEF At

(* The same the other way round: what is found is at At(m).                *)
LEMMA AtHit ==
    ASSUME NEW m, Sound(m), Found(m) # {}
    PROVE  At(m) \in Slots /\ Found(m) = {At(m)} /\ m.dir[At(m)] \in Entries
  BY OnlyHit

\* Bound(m) in terms of the entry that At(m) picks.
LEMMA BoundAt ==
    ASSUME NEW m, Sound(m)
    PROVE  Bound(m) <=> Found(m) # {} /\ m.dir[At(m)].map = m.fcb.map
  BY OnlyHit DEF Bound

-----------------------------------------------------------------------------
(* Changes of the result and the FCB.                                      *)

\* A new result or FCB leaves a sound drive sound.
LEMMA SameDriveSound ==
    ASSUME NEW m, Sound(m), NEW n \in Calls, SameDrive(m, n)
    PROVE  Sound(n) /\ Keeps(m, n)
  BY DEF Sound, Keeps, SameDrive

\* Leaving with a code, to the caller or through UB_RETA, changes only the
\* code.
LEMMA CarrySound ==
    ASSUME NEW m, Sound(m), NEW c \in Nat, NEW n, n = Carry(m, c) \/ n = Quit(m, c)
    PROVE  /\ Sound(n) /\ Keeps(m, n) /\ n.fcb = m.fcb /\ n.code = c
           /\ SameDrive(m, n) /\ Found(n) = Found(m)
           /\ n = Carry(m, c) => n.quit = m.quit
  <1>1. m \in Calls
    BY DEF Sound
  <1>2. n \in Calls /\ SameDrive(m, n) /\ n.fcb = m.fcb /\ n.code = c
    BY <1>1 DEF Carry, Quit, Calls, SameDrive
  <1>3. n = Carry(m, c) => n.quit = m.quit
    BY <1>1 DEF Carry, Calls
  <1>4. Found(n) = Found(m)
    BY <1>2 DEF Found, SameDrive
  <1> QED BY <1>2, <1>3, <1>4, SameDriveSound

(* A new FCB in place of the one in m.                                     *)
LEMMA NewFCB ==
    ASSUME NEW m, Sound(m), NEW c \in FCBs, NEW n, n = [m EXCEPT !.fcb = c]
    PROVE  /\ Sound(n) /\ Keeps(m, n) /\ SameDrive(m, n) /\ n.fcb = c
           /\ n.code = m.code /\ n.quit = m.quit
           /\ c.ex = m.fcb.ex /\ c.s2 = m.fcb.s2 => Found(n) = Found(m)
           /\ c.ex = m.fcb.ex /\ c.s2 = m.fcb.s2 /\ c.map = m.fcb.map /\ Bound(m) => Bound(n)
  <1>1. m \in Calls
    BY DEF Sound
  <1>2. n \in Calls /\ SameDrive(m, n) /\ n.fcb = c /\ n.code = m.code /\ n.quit = m.quit
    BY <1>1 DEF Calls, SameDrive
  <1>3. c.ex = m.fcb.ex /\ c.s2 = m.fcb.s2 => Found(n) = Found(m)
    BY <1>2 DEF Found, SameDrive
  <1>4. c.ex = m.fcb.ex /\ c.s2 = m.fcb.s2 /\ c.map = m.fcb.map /\ Bound(m) => Bound(n)
    BY <1>2, <1>3 DEF Bound, SameDrive
  <1> QED BY <1>2, <1>3, <1>4, SameDriveSound

\* The fields of the FCB of a sound call are in their ranges.
LEMMA FCBType ==
    ASSUME NEW m, Sound(m)
    PROVE  m.fcb \in FCBs /\ m.fcb.ex \in Extents /\ m.fcb.s2 \in Modules
           /\ m.fcb.rc \in 0 .. RPE /\ m.fcb.cr \in 0 .. RPE /\ m.fcb.map \in Maps
           /\ m.fcb.clean \in BOOLEAN
  BY DEF Sound, Calls, FCBs

(* UB_ACTIVATE: on success the FCB shows its entry.                        *)
LEMMA ActivateSound ==
    ASSUME NEW m, Sound(m), NEW n, n = Activate(m)
    PROVE  /\ Sound(n) /\ Keeps(m, n) /\ Stays(m, n) /\ SameDrive(m, n) /\ n.quit = m.quit
           /\ Found(m) # {} => Bound(n) /\ n.code = m.code
           /\ Found(m) = {} => n.code = 255 /\ n.fcb = m.fcb
  <1>1. CASE Found(m) = {}
    <2>1. n = Carry(m, 255)
      BY <1>1 DEF Activate
    <2> QED BY <1>1, <2>1, CarrySound DEF Stays
  <1>2. CASE Found(m) # {}
    <2> DEFINE e == m.dir[At(m)]
               c == [m.fcb EXCEPT !.rc = ActiveRC(e.ex, e.rc, m.fcb.ex),
                                  !.map = e.map, !.clean = TRUE]
    <2>1. n = [m EXCEPT !.fcb = c]
      BY <1>2 DEF Activate
    <2>2. e \in Entries /\ m.fcb \in FCBs /\ At(m) \in Found(m)
      BY <1>2, AtHit, FCBType
    <2>3. c \in FCBs /\ c.map = e.map /\ c.ex = m.fcb.ex /\ c.s2 = m.fcb.s2 /\ c.cr = m.fcb.cr
      <3>1. ActiveRC(e.ex, e.rc, m.fcb.ex) \in 0 .. RPE
        BY <2>2, ActiveRCInRange DEF Entries, FCBs
      <3> QED BY <2>2, <3>1 DEF Entries, FCBs
    <2> HIDE DEF c
    <2>4. /\ Sound(n) /\ Keeps(m, n) /\ SameDrive(m, n) /\ n.fcb = c
          /\ n.code = m.code /\ n.quit = m.quit /\ Found(n) = Found(m)
      BY <2>1, <2>3, NewFCB
    <2>5. Bound(n)
      BY <2>2, <2>3, <2>4 DEF Bound, SameDrive
    <2> QED BY <1>2, <2>3, <2>4, <2>5 DEF Stays
  <1> QED BY <1>1, <1>2

-----------------------------------------------------------------------------
(* Changes of one directory entry.                                         *)

\* Entry i of m is the one the FCB is at, and dd has e in its place.
Replaces(m, i, e, dd) ==
    /\ i \in Found(m) /\ dd = [m.dir EXCEPT ![i] = e]
    /\ e \in Entries /\ e.name = m.name /\ e.s2 = m.fcb.s2
    /\ Group(e.ex) = Group(m.fcb.ex)

\* Replacing the entry of the FCB within its extent group changes no search.
LEMMA ReplacedHits ==
    ASSUME NEW m, Sound(m), NEW i, NEW e, NEW dd, Replaces(m, i, e, dd)
    PROVE  /\ dd \in [Slots -> Entries \cup {NoEntry}] /\ dd[i] = e
           /\ \A j \in Slots \ {i} : dd[j] = m.dir[j]
           /\ Live(dd) = Live(m.dir) /\ Distinct(dd)
           /\ \A nm, ex, s : Hits(dd, nm, ex, s) = Hits(m.dir, nm, ex, s)
  <1>1. m.dir \in [Slots -> Entries \cup {NoEntry}]
    BY DEF Sound, Calls
  <1>2. i \in Slots /\ m.dir[i] \in Entries /\ m.dir[i].name = m.name
        /\ m.dir[i].s2 = m.fcb.s2 /\ Group(m.dir[i].ex) = Group(m.fcb.ex)
    BY OnlyHit DEF Replaces, Found, Hits
  <1>3. dd \in [Slots -> Entries \cup {NoEntry}] /\ dd[i] = e
        /\ \A j \in Slots \ {i} : dd[j] = m.dir[j]
    BY <1>1, <1>2 DEF Replaces
  <1>4. Live(dd) = Live(m.dir)
    <2>1. i \in Live(dd) /\ i \in Live(m.dir)
      BY <1>1, <1>2, <1>3, LiveIffNamed DEF Replaces
    <2> QED BY <1>3, <2>1 DEF Live
  <1>5. \A nm, ex, s : Hits(dd, nm, ex, s) = Hits(m.dir, nm, ex, s)
    BY <1>2, <1>3 DEF Hits, Replaces
  <1>6. Distinct(dd)
    <2> SUFFICES ASSUME NEW j \in Live(dd)
                 PROVE  Hits(dd, dd[j].name, dd[j].ex, dd[j].s2) = {j}
      BY DEF Distinct
    <2>1. Hits(m.dir, m.dir[j].name, m.dir[j].ex, m.dir[j].s2) = {j}
      BY <1>4 DEF Sound, Distinct
    <2>2. CASE j = i
      BY <1>2, <1>3, <1>5, <2>1, <2>2 DEF Hits, Replaces
    <2>3. CASE j # i
      BY <1>3, <1>5, <2>1, <2>3 DEF Live
    <2> QED BY <2>2, <2>3
  <1> QED BY <1>3, <1>4, <1>5, <1>6

\* The vector depends on the maps of the entries alone.
LEMMA SameMaps ==
    ASSUME NEW dd, NEW ee, Live(dd) = Live(ee), \A j \in Live(dd) : dd[j].map = ee[j].map
    PROVE  Rebuilt(dd) = Rebuilt(ee) /\ (Unlinked(ee) => Unlinked(dd))
  <1>1. {Used(dd[j]) : j \in Live(dd)} = {Used(ee[j]) : j \in Live(ee)}
    BY DEF Used
  <1>2. Unlinked(ee) => Unlinked(dd)
    BY DEF Unlinked
  <1> QED BY <1>1, <1>2 DEF Rebuilt

\* Replacing an entry without its map leaves all blocks where they are.
LEMMA SameMapReplaced ==
    ASSUME NEW m, Sound(m), NEW i, NEW e, NEW dd, Replaces(m, i, e, dd),
           e.map = m.dir[i].map
    PROVE  Unlinked(dd) /\ Rebuilt(dd) = Rebuilt(m.dir)
  <1>1. i \in Slots
    BY OnlyHit DEF Replaces
  <1>2. \A j \in Live(dd) : dd[j].map = m.dir[j].map
    BY ReplacedHits DEF Live
  <1>3. Live(dd) = Live(m.dir)
    BY ReplacedHits
  <1> QED BY <1>2, <1>3, SameMaps DEF Sound

\* Blocks of the entries of a directory.
LEMMA InRebuilt ==
    ASSUME NEW dd, NEW b
    PROVE  b \in Rebuilt(dd) <=>
             b \in Reserved \/ \E j \in Live(dd) : \E p \in Indexes : b = dd[j].map[p] /\ b # NoBlock
  BY DEF Rebuilt, Used

\* A block that no entry has may be put into the map of one entry.
LEMMA NewBlockReplaced ==
    ASSUME NEW m, Sound(m), NEW i, NEW e, NEW dd, Replaces(m, i, e, dd),
           NEW q \in Indexes, NEW b \in DataBlocks, b \notin Rebuilt(m.dir),
           e.map = [m.dir[i].map EXCEPT ![q] = b]
    PROVE  Unlinked(dd) /\ Rebuilt(dd) \subseteq Rebuilt(m.dir) \cup {b}
  <1>1. i \in Slots /\ m.dir[i] \in Entries /\ i \in Live(m.dir)
    BY OnlyHit, FoundIsLive DEF Replaces, Sound
  <1>2. \A p \in Indexes : e.map[p] = IF p = q THEN b ELSE m.dir[i].map[p]
    BY <1>1 DEF Entries, Maps
  <1>3. \A j \in Live(m.dir) : \A p \in Indexes : m.dir[j].map[p] # b
    <2>1. b # NoBlock
      BY FilesAssumption, SMT DEF DataBlocks, NoBlock
    <2> QED BY <2>1, InRebuilt
  <1>4. /\ Live(dd) = Live(m.dir) /\ dd[i] = e
        /\ \A j \in Live(dd) : j # i => dd[j] = m.dir[j]
    BY ReplacedHits DEF Live
  <1>5. Unlinked(dd)
    <2> SUFFICES ASSUME NEW j \in Live(dd), NEW k \in Live(dd), NEW p \in Indexes, NEW r \in Indexes,
                        dd[j].map[p] = dd[k].map[r], dd[j].map[p] # NoBlock
                 PROVE  j = k /\ p = r
      BY DEF Unlinked
    <2>1. CASE dd[j].map[p] = b
      <3>1. ASSUME NEW l \in Live(dd), NEW t \in Indexes, dd[l].map[t] = b
            PROVE  l = i /\ t = q
        BY <1>2, <1>3, <1>4, <3>1
      <3> QED BY <2>1, <3>1
    <2>2. CASE dd[j].map[p] # b
      <3>1. m.dir[j].map[p] = dd[j].map[p] /\ m.dir[k].map[r] = dd[k].map[r]
        BY <1>2, <1>4, <2>2
      <3> QED BY <1>4, <3>1 DEF Sound, Unlinked
    <2> QED BY <2>1, <2>2
  <1>6. Rebuilt(dd) \subseteq Rebuilt(m.dir) \cup {b}
    <2> SUFFICES ASSUME NEW x \in Rebuilt(dd), x # b PROVE x \in Rebuilt(m.dir)
      OBVIOUS
    <2>1. CASE x \in Reserved
      BY <2>1, InRebuilt
    <2>2. ASSUME NEW j \in Live(dd), NEW p \in Indexes, x = dd[j].map[p], x # NoBlock
          PROVE  x \in Rebuilt(m.dir)
      <3>1. x = m.dir[j].map[p]
        BY <1>2, <1>4, <2>2
      <3> QED BY <1>4, <2>2, <3>1, InRebuilt
    <2> QED BY <2>1, <2>2, InRebuilt
  <1> QED BY <1>5, <1>6

-----------------------------------------------------------------------------
(* UB_CCORE, UB_MKFREE and UB_EXTENT.                                      *)

\* Replacing the entry of the FCB leaves the entries of other files alone.
LEMMA OthersKept ==
    ASSUME NEW m, Sound(m), NEW i, NEW e, NEW dd, Replaces(m, i, e, dd)
    PROVE  \A j \in Slots : m.dir[j].name \notin {m.name, "none"} => dd[j] = m.dir[j]
  BY ReplacedHits DEF Replaces, Found, Hits

(* Closing an FCB publishes its extent and disturbs nothing else.          *)
LEMMA CCoreSound ==
    ASSUME NEW m, Sound(m), Bound(m), NEW n, n = CCore(m)
    PROVE  /\ Sound(n) /\ Bound(n) /\ Keeps(m, n) /\ Stays(m, n)
           /\ n.code = m.code /\ n.quit = m.quit /\ n.fcb.rc = m.fcb.rc /\ n.fcb.map = m.fcb.map
  <1>1. CASE m.fcb.clean
    BY <1>1 DEF CCore, Keeps, Stays
  <1>2. CASE ~m.fcb.clean
    <2> DEFINE i == At(m)
               e == [m.dir[i] EXCEPT !.ex = m.fcb.ex, !.s2 = m.fcb.s2,
                                     !.rc = m.fcb.rc, !.map = m.fcb.map]
               dd == [m.dir EXCEPT ![i] = e]
               c == [m.fcb EXCEPT !.clean = TRUE]
    <2>1. Found(m) # {} /\ m.dir[i].map = m.fcb.map /\ m.dir[i] \in Entries /\ i \in Found(m)
      BY BoundAt, AtHit
    <2>2. e \in Entries /\ e.name = m.dir[i].name /\ e.ex = m.fcb.ex /\ e.s2 = m.fcb.s2
          /\ e.map = m.fcb.map
      BY <2>1, FCBType DEF Entries
    <2>3. c \in FCBs /\ c.map = m.fcb.map /\ c.ex = m.fcb.ex /\ c.s2 = m.fcb.s2
          /\ c.cr = m.fcb.cr /\ c.rc = m.fcb.rc
      BY FCBType DEF FCBs
    <2>4. n = [m EXCEPT !.dir = dd, !.fcb = c]
      BY <1>2, <2>1 DEF CCore
    <2>5. Replaces(m, i, e, dd)
      BY <2>1, <2>2 DEF Replaces, Found, Hits
    <2> HIDE DEF i, e, dd, c
    <2>6. dd \in [Slots -> Entries \cup {NoEntry}] /\ Distinct(dd) /\ Unlinked(dd)
          /\ Rebuilt(dd) = Rebuilt(m.dir) /\ dd[i] = e
      BY <2>1, <2>2, <2>5, ReplacedHits, SameMapReplaced
    <2>7. n \in Calls /\ n.dir = dd /\ n.fcb = c /\ n.alv = m.alv /\ n.name = m.name
          /\ n.code = m.code /\ n.quit = m.quit
      BY <2>3, <2>4, <2>6 DEF Sound, Calls
    <2>8. Sound(n) /\ Keeps(m, n) /\ Stays(m, n)
      BY <2>3, <2>5, <2>6, <2>7, OthersKept DEF Sound, Keeps, Stays
    <2>9. Bound(n)
      <3>1. Found(n) = Found(m)
        BY <2>3, <2>5, <2>7, ReplacedHits DEF Found
      <3> QED BY <2>1, <2>2, <2>3, <2>6, <2>7, <3>1 DEF Bound
    <2> QED BY <2>3, <2>7, <2>8, <2>9
  <1> QED BY <1>1, <1>2, FCBType

(* A new entry is the only one of its extent group.                        *)
LEMMA MkFreeSound ==
    ASSUME NEW m, Sound(m), Found(m) = {}, NEW n, n = MkFree(m)
    PROVE  /\ Sound(n) /\ Keeps(m, n) /\ Stays(m, n) /\ n.quit = m.quit
           /\ FreeSlots(m) # {} => Bound(n) /\ n.code = m.code
           /\ FreeSlots(m) = {} => n.code = 5 /\ n.fcb = m.fcb /\ SameDrive(m, n)
  <1>1. CASE FreeSlots(m) = {}
    <2>1. n = Carry(m, 5)
      BY <1>1 DEF MkFree
    <2> QED BY <1>1, <2>1, CarrySound DEF Stays
  <1>2. CASE FreeSlots(m) # {}
    <2> DEFINE i == Min(FreeSlots(m))
               e == [name |-> m.name, ex |-> m.fcb.ex, s2 |-> m.fcb.s2, rc |-> 0, map |-> NoMap]
               dd == [m.dir EXCEPT ![i] = e]
               c == [m.fcb EXCEPT !.rc = 0, !.map = NoMap, !.clean = TRUE]
    <2>0. m \in Calls /\ m.name \in Names /\ m.dir \in [Slots -> Entries \cup {NoEntry}]
      BY DEF Sound, Calls
    <2>1. i \in Slots /\ i \notin Live(m.dir) /\ m.dir[i] = NoEntry
      <3>1. FreeSlots(m) \subseteq Nat
        BY FilesAssumption, SMT DEF FreeSlots, Slots
      <3>2. i \in FreeSlots(m)
        BY <1>2, <3>1, MinIn
      <3> QED BY <3>2 DEF FreeSlots, Live
    <2>2. NoMap \in Maps /\ \A p \in Indexes : NoMap[p] = NoBlock
      BY DEF NoMap, Maps
    <2>3. 0 \in 0 .. RPE
      BY GeometryAssumption, SMT
    <2>4. e \in Entries
      BY <2>0, <2>2, <2>3, FCBType DEF Entries
    <2>5. c \in FCBs /\ c.map = NoMap /\ c.ex = m.fcb.ex /\ c.s2 = m.fcb.s2 /\ c.cr = m.fcb.cr
      BY <2>2, <2>3, FCBType DEF FCBs
    <2>6. n = [m EXCEPT !.dir = dd, !.fcb = c]
      BY <1>2 DEF MkFree
    <2>7. dd \in [Slots -> Entries \cup {NoEntry}] /\ dd[i] = e
          /\ \A j \in Slots \ {i} : dd[j] = m.dir[j]
      BY <2>0, <2>1, <2>4
    <2>8. e.name = m.name /\ e.ex = m.fcb.ex /\ e.s2 = m.fcb.s2 /\ e.map = NoMap
      OBVIOUS
    <2> HIDE DEF i, e, dd, c
    <2>9. Live(dd) = Live(m.dir) \cup {i}
      <3>1. i \in Live(dd)
        BY <2>1, <2>4, <2>7, LiveIffNamed
      <3> QED BY <2>1, <2>7, <3>1 DEF Live
    <2>10. Distinct(dd)
      <3>1. Hits(dd, e.name, e.ex, e.s2) = {i}
        <4>1. \A j \in Slots \ {i} : j \notin Found(m)
          OBVIOUS
        <4> QED BY <2>1, <2>7, <2>8, <4>1 DEF Hits, Found
      <3>2. ASSUME NEW j \in Live(m.dir)
            PROVE  Hits(dd, dd[j].name, dd[j].ex, dd[j].s2) = {j}
        <4>1. dd[j] = m.dir[j] /\ j \in Slots /\ j # i
          BY <2>1, <2>7 DEF Live
        <4>2. Hits(m.dir, m.dir[j].name, m.dir[j].ex, m.dir[j].s2) = {j}
          BY DEF Sound, Distinct
        <4>3. i \notin Hits(dd, dd[j].name, dd[j].ex, dd[j].s2)
          <5>1. j \notin Found(m)
            OBVIOUS
          <5> QED BY <2>7, <2>8, <4>1, <5>1 DEF Hits, Found
        <4> QED BY <2>7, <4>1, <4>2, <4>3 DEF Hits
      <3> QED BY <2>7, <2>9, <3>1, <3>2 DEF Distinct
    <2>11. Unlinked(dd)
      <3>1. \A p \in Indexes : dd[i].map[p] = NoBlock
        BY <2>2, <2>7, <2>8
      <3>2. \A j \in Live(m.dir) : dd[j] = m.dir[j]
        BY <2>1, <2>7 DEF Live
      <3> QED BY <2>9, <3>1, <3>2 DEF Sound, Unlinked
    <2>12. Rebuilt(dd) \subseteq Rebuilt(m.dir)
      <3> SUFFICES ASSUME NEW b \in Rebuilt(dd) PROVE b \in Rebuilt(m.dir)
        OBVIOUS
      <3>1. CASE b \in Reserved
        BY <3>1, InRebuilt
      <3>2. ASSUME NEW j \in Live(dd), NEW p \in Indexes, b = dd[j].map[p], b # NoBlock
            PROVE  b \in Rebuilt(m.dir)
        <4>1. j # i
          BY <2>2, <2>7, <2>8, <3>2
        <4>2. j \in Live(m.dir) /\ dd[j] = m.dir[j]
          BY <2>7, <2>9, <4>1 DEF Live
        <4> QED BY <3>2, <4>2, InRebuilt
      <3> QED BY <3>1, <3>2, InRebuilt
    <2>13. n \in Calls /\ n.dir = dd /\ n.fcb = c /\ n.alv = m.alv /\ n.name = m.name
           /\ n.code = m.code /\ n.quit = m.quit
      BY <2>0, <2>5, <2>6, <2>7 DEF Calls
    <2>14. Sound(n) /\ Stays(m, n)
      BY <2>5, <2>10, <2>11, <2>12, <2>13 DEF Sound, Stays
    <2>15. Keeps(m, n)
      BY <2>1, <2>7, <2>13 DEF Keeps, NoEntry
    <2>16. Bound(n)
      <3>1. i \in Found(n)
        BY <2>1, <2>5, <2>7, <2>8, <2>13 DEF Found, Hits
      <3> QED BY <2>5, <2>7, <2>8, <2>13, <3>1 DEF Bound
    <2> QED BY <1>2, <2>13, <2>14, <2>15, <2>16
  <1> QED BY <1>1, <1>2

(* UB_EXTENT finds the extent, makes it, or leaves the FCB and the disk.   *)
LEMMA ExtentSound ==
    ASSUME NEW m, Sound(m), NEW n, n = Extent(m, TRUE) \/ n = Extent(m, FALSE)
    PROVE  /\ Sound(n) /\ Keeps(m, n) /\ Stays(m, n) /\ n.quit = m.quit
           /\ \/ Bound(n) /\ n.code = m.code
              \/ n.code \notin {0, 1, 6} /\ n.fcb = m.fcb /\ SameDrive(m, n)
  <1>0. \/ Found(m) # {} /\ n = Activate(m)
        \/ n = Carry(m, 255) \/ n = Carry(m, 2)
        \/ Found(m) = {} /\ n = MkFree(m)
    BY DEF Extent
  <1>1. CASE Found(m) # {} /\ n = Activate(m)
    BY <1>1, ActivateSound
  <1>2. CASE n = Carry(m, 255) \/ n = Carry(m, 2)
    <2>1. PICK c \in Nat : c \notin {0, 1, 6} /\ n = Carry(m, c)
      BY <1>2, SMT
    <2> QED BY <2>1, CarrySound DEF Stays
  <1>3. CASE Found(m) = {} /\ n = MkFree(m)
    <2>1. \/ FreeSlots(m) # {} /\ Bound(n) /\ n.code = m.code
          \/ n.code \notin {0, 1, 6} /\ n.fcb = m.fcb /\ SameDrive(m, n)
      <3>1. FreeSlots(m) # {} => Bound(n) /\ n.code = m.code
        BY <1>3, MkFreeSound
      <3>2. FreeSlots(m) = {} => n.code = 5 /\ n.fcb = m.fcb /\ SameDrive(m, n)
        BY <1>3, MkFreeSound
      <3> QED BY <3>1, <3>2, SMT
    <2>2. Sound(n) /\ Keeps(m, n) /\ Stays(m, n) /\ n.quit = m.quit
      BY <1>3, MkFreeSound
    <2> QED BY <2>1, <2>2
  <1> QED BY <1>0, <1>1, <1>2, <1>3

-----------------------------------------------------------------------------
(* UB_NEXTEX and UB_READCORE.                                              *)

\* What two routines in a row both leave alone, their sequence does.
LEMMA KeepsTransitive ==
    ASSUME NEW k, NEW m, NEW n, Keeps(k, m), Keeps(m, n)
    PROVE  Keeps(k, n)
  BY DEF Keeps

\* A routine that does nothing leaves the other files alone.
LEMMA KeepsItself ==
    ASSUME NEW m
    PROVE  Keeps(m, m)
  BY DEF Keeps

\* What a sequential call works on.
AtWork(m) == Sound(m) /\ Bound(m) /\ m.code = 0 /\ ~m.quit

\* UB_NXOPEN: the FCB goes to a legal extent and keeps its map.
LEMMA MoveToSound ==
    ASSUME NEW m, Sound(m), NEW to, to.ex \in Extents, to.s2 \in Modules,
           NEW n, n = MoveTo(m, to)
    PROVE  /\ Sound(n) /\ Keeps(m, n) /\ SameDrive(m, n)
           /\ n.fcb.map = m.fcb.map /\ n.fcb.cr = 0
           /\ n.code = m.code /\ n.quit = m.quit
  <1> DEFINE c == [m.fcb EXCEPT !.ex = to.ex, !.s2 = to.s2, !.cr = 0]
  <1>1. m.fcb \in FCBs /\ 0 \in 0 .. RPE
    BY FCBType, GeometryAssumption, SMT
  <1>2. c \in FCBs /\ c.map = m.fcb.map /\ c.cr = 0
    BY <1>1 DEF FCBs
  <1>3. n = [m EXCEPT !.fcb = c]
    BY DEF MoveTo
  <1> HIDE DEF c
  <1> QED BY <1>2, <1>3, NewFCB

\* UB_NXRETURN: the FCB is back where it came from, with its map.
LEMMA GoBackSound ==
    ASSUME NEW m, Sound(m), NEW b \in FCBs, NEW n, n = GoBack(m, b)
    PROVE  /\ Sound(n) /\ Keeps(m, n) /\ SameDrive(m, n)
           /\ n.fcb.map = m.fcb.map /\ n.fcb.ex = b.ex /\ n.fcb.s2 = b.s2
           /\ n.code = m.code /\ n.quit = m.quit
  <1> DEFINE c == [m.fcb EXCEPT !.ex = b.ex, !.s2 = b.s2, !.clean = b.clean, !.cr = RPE]
  <1>1. m.fcb \in FCBs /\ RPE \in 0 .. RPE
    BY FCBType, GeometryAssumption, SMT
  <1>2. c \in FCBs /\ c.map = m.fcb.map /\ c.ex = b.ex /\ c.s2 = b.s2
    BY <1>1 DEF FCBs
  <1>3. n = [m EXCEPT !.fcb = c]
    BY DEF GoBack
  <1> HIDE DEF c
  <1> QED BY <1>2, <1>3, NewFCB

(* The FCB shows its entry after the step to the next extent, and also     *)
(* when the step fails and the FCB goes back.                              *)
LEMMA StepSound ==
    ASSUME NEW m, AtWork(m),
           NEW k, Sound(k), Bound(k), Keeps(m, k), Stays(m, k), k.code = 0, ~k.quit,
           NEW to, to = NextExtent(m.fcb.s2, m.fcb.ex),
           NEW next, \/ to.s2 = NS2 /\ next = Carry(k, 5)
                     \/ /\ to.s2 # NS2
                        /\ next = Extent(MoveTo(k, to), TRUE) \/ next = Extent(MoveTo(k, to), FALSE),
           NEW n, n = IF next.code = 0 THEN next ELSE GoBack(next, m.fcb)
    PROVE  /\ Sound(n) /\ Bound(n) /\ Keeps(m, n) /\ ~n.quit
           /\ (n.code = 0 => n.fcb.cr = 0)
  <1>1. to.ex \in Extents /\ (to.s2 # NS2 => to.s2 \in Modules)
    BY NextInRange, FCBType DEF AtWork
  <1>2. /\ Sound(next) /\ Keeps(k, next) /\ ~next.quit
        /\ \/ next.code = 0 /\ Bound(next) /\ next.fcb.cr = 0
           \/ next.code # 0 /\ SameDrive(k, next) /\ next.fcb.map = k.fcb.map
    <2>1. CASE to.s2 = NS2
      <3>1. Sound(next) /\ Keeps(k, next) /\ next.fcb = k.fcb /\ next.code = 5
            /\ SameDrive(k, next) /\ next.quit = k.quit
        BY <2>1, CarrySound
      <3> QED BY <3>1, SMT
    <2>2. CASE to.s2 # NS2
      <3> DEFINE there == MoveTo(k, to)
      <3>1. /\ Sound(there) /\ Keeps(k, there) /\ SameDrive(k, there)
            /\ there.fcb.map = k.fcb.map /\ there.fcb.cr = 0
            /\ there.code = k.code /\ there.quit = k.quit
        BY <1>1, <2>2, MoveToSound
      <3>2. next = Extent(there, TRUE) \/ next = Extent(there, FALSE)
        BY <2>2
      <3> HIDE DEF there
      <3>3. /\ Sound(next) /\ Keeps(there, next) /\ Stays(there, next) /\ next.quit = there.quit
            /\ \/ Bound(next) /\ next.code = there.code
               \/ next.code \notin {0, 1, 6} /\ next.fcb = there.fcb /\ SameDrive(there, next)
        BY <3>1, <3>2, ExtentSound
      <3>4. Keeps(k, next)
        BY <3>1, <3>3, KeepsTransitive
      <3> QED BY <3>1, <3>3, <3>4 DEF Stays, SameDrive
    <2> QED BY <2>1, <2>2
  <1>3. CASE next.code = 0
    BY <1>2, <1>3, KeepsTransitive
  <1>4. CASE next.code # 0
    <2>1. n = GoBack(next, m.fcb) /\ m.fcb \in FCBs
      BY <1>4, FCBType DEF AtWork
    <2>2. /\ Sound(n) /\ Keeps(next, n) /\ SameDrive(next, n)
          /\ n.fcb.map = next.fcb.map /\ n.fcb.ex = m.fcb.ex /\ n.fcb.s2 = m.fcb.s2
          /\ n.code = next.code /\ n.quit = next.quit
      BY <1>2, <2>1, GoBackSound
    <2>3. Found(n) = Found(k) /\ n.dir = k.dir
      BY <1>2, <1>4, <2>2 DEF Found, Stays, SameDrive
    <2>4. Bound(n)
      BY <1>2, <1>4, <2>2, <2>3 DEF Bound
    <2>5. Keeps(m, n)
      BY <1>2, <2>2, KeepsTransitive
    <2> QED BY <1>2, <1>4, <2>2, <2>4, <2>5
  <1> QED BY <1>3, <1>4

\* UB_NEXTEX, called to write or to read, leaves the FCB at its entry.
LEMMA NextExSound ==
    ASSUME NEW m, AtWork(m), NEW n, n = NextEx(m, TRUE) \/ n = NextEx(m, FALSE)
    PROVE  /\ Sound(n) /\ Bound(n) /\ Keeps(m, n) /\ ~n.quit
           /\ (n.code = 0 => n.fcb.cr = 0)
  <1> DEFINE to == NextExtent(m.fcb.s2, m.fcb.ex)
  <1>1. CASE n = NextEx(m, TRUE)
    <2> DEFINE k == CCore(m)
               next == IF to.s2 = NS2 THEN Carry(k, 5) ELSE Extent(MoveTo(k, to), TRUE)
    <2>1. Sound(k) /\ Bound(k) /\ Keeps(m, k) /\ Stays(m, k) /\ k.code = 0 /\ ~k.quit
      BY CCoreSound DEF AtWork
    <2>2. n = IF next.code = 0 THEN next ELSE GoBack(next, m.fcb)
      BY <1>1, <2>1 DEF NextEx
    <2>3. \/ to.s2 = NS2 /\ next = Carry(k, 5)
          \/ to.s2 # NS2 /\ next = Extent(MoveTo(k, to), TRUE)
      OBVIOUS
    <2> HIDE DEF k, next, to
    <2> QED BY ZenonT(40), <2>1, <2>2, <2>3, StepSound DEF to
  <1>2. CASE n = NextEx(m, FALSE)
    <2> DEFINE next == IF to.s2 = NS2 THEN Carry(m, 5) ELSE Extent(MoveTo(m, to), FALSE)
    <2>1. Keeps(m, m) /\ Stays(m, m)
      BY KeepsItself DEF Stays
    <2>2. n = IF next.code = 0 THEN next ELSE GoBack(next, m.fcb)
      BY <1>2 DEF NextEx, AtWork
    <2>3. \/ to.s2 = NS2 /\ next = Carry(m, 5)
          \/ to.s2 # NS2 /\ next = Extent(MoveTo(m, to), FALSE)
      OBVIOUS
    <2> HIDE DEF next, to
    <2> QED BY ZenonT(40), <2>1, <2>2, <2>3, StepSound DEF AtWork, to
  <1> QED BY <1>1, <1>2

(* The place of a record, when its block is there.                         *)
LEMMA BlockType ==
    ASSUME NEW m, Sound(m), m.fcb.cr < RPE
    PROVE  /\ Index(m) \in Indexes /\ Offset(m) \in 0 .. BLK - 1
           /\ Block(m) # NoBlock => Block(m) \in DataBlocks
  <1>1. m.fcb.cr \in 0 .. RPE - 1
    BY FCBType, GeometryAssumption, SMT
  <1>2. Index(m) \in Indexes /\ Offset(m) \in 0 .. BLK - 1
    BY <1>1, FCBType, IndexInRange DEF Index, Offset
  <1> QED BY <1>2, FCBType DEF Block, Maps

\* A step to another extent first, if the FCB is at the end of its extent.
LEMMA RolledSound ==
    ASSUME NEW m, AtWork(m), NEW p, p = Rolled(m, TRUE) \/ p = Rolled(m, FALSE)
    PROVE  /\ Sound(p) /\ Bound(p) /\ Keeps(m, p) /\ ~p.quit
           /\ (p.code = 0 => p.fcb.cr < RPE)
  <1>1. CASE m.fcb.cr = RPE
    <2>1. p = NextEx(m, TRUE) \/ p = NextEx(m, FALSE)
      BY <1>1 DEF Rolled
    <2>2. 0 < RPE
      BY GeometryAssumption, SMT
    <2> QED BY <2>1, <2>2, NextExSound
  <1>2. CASE m.fcb.cr # RPE
    <2>1. m.fcb.cr < RPE
      BY <1>2, FCBType, GeometryAssumption, SMT DEF AtWork
    <2> QED BY <1>2, <2>1, KeepsItself DEF AtWork, Rolled
  <1> QED BY <1>1, <1>2

\* UB_READCORE leaves the FCB at its entry, whatever it returns.
LEMMA ReadCoreSound ==
    ASSUME NEW m, AtWork(m), NEW n, n = ReadCore(m)
    PROVE  Sound(n) /\ Bound(n) /\ Keeps(m, n)
  <1> DEFINE p == Rolled(m, FALSE)
  <1>1. /\ Sound(p) /\ Bound(p) /\ Keeps(m, p)
        /\ (p.code = 0 => p.fcb.cr < RPE)
    BY RolledSound
  <1>2. n = IF p.code # 0 \/ p.fcb.cr >= p.fcb.rc THEN Carry(p, 1)
            ELSE IF Block(p) = NoBlock THEN Quit(p, 255)
            ELSE [p EXCEPT !.val = p.data[Block(p)][Offset(p)], !.fcb.cr = @ + 1]
    BY DEF ReadCore
  <1> HIDE DEF p
  <1>3. ASSUME NEW c \in Nat, n = Carry(p, c) \/ n = Quit(p, c)
        PROVE  Sound(n) /\ Bound(n) /\ Keeps(m, n)
    <2>1. Sound(n) /\ Keeps(p, n) /\ n.fcb = p.fcb /\ SameDrive(p, n) /\ Found(n) = Found(p)
      BY <1>1, <1>3, CarrySound
    <2> QED BY <1>1, <2>1, KeepsTransitive DEF Bound, SameDrive
  <1>4. CASE p.code # 0 \/ p.fcb.cr >= p.fcb.rc
    BY <1>2, <1>3, <1>4
  <1>5. CASE ~(p.code # 0 \/ p.fcb.cr >= p.fcb.rc) /\ Block(p) = NoBlock
    BY <1>2, <1>3, <1>5
  <1>6. CASE ~(p.code # 0 \/ p.fcb.cr >= p.fcb.rc) /\ Block(p) # NoBlock
    <2> DEFINE v == p.data[Block(p)][Offset(p)]
               c == [p.fcb EXCEPT !.cr = @ + 1]
    <2>1. Block(p) \in DataBlocks /\ Offset(p) \in 0 .. BLK - 1
      BY <1>1, <1>6, BlockType
    <2>2. v \in Values
      BY <1>1, <2>1 DEF Sound, Calls, Blocks
    <2>3. c \in FCBs /\ c.map = p.fcb.map /\ c.ex = p.fcb.ex /\ c.s2 = p.fcb.s2
      <3>1. p.fcb.cr + 1 \in 0 .. RPE
        BY <1>1, <1>6, FCBType, GeometryAssumption, SMT
      <3> QED BY <1>1, <3>1, FCBType DEF FCBs
    <2>4. n = [p EXCEPT !.val = v, !.fcb = c]
      BY <1>2, <1>6
    <2> HIDE DEF v, c
    <2>5. n \in Calls /\ SameDrive(p, n) /\ n.fcb = c
      BY <1>1, <2>2, <2>3, <2>4 DEF Sound, Calls, SameDrive
    <2>6. Sound(n) /\ Keeps(p, n)
      BY <1>1, <2>5, SameDriveSound
    <2>7. Found(n) = Found(p)
      BY <2>3, <2>5 DEF Found, SameDrive
    <2> QED BY <1>1, <2>3, <2>5, <2>6, <2>7, KeepsTransitive DEF Bound, SameDrive
  <1> QED BY <1>4, <1>5, <1>6

-----------------------------------------------------------------------------
(* UB_WCORE and UB_WRITE.                                                  *)

\* UB_WALLOC: the block goes to the FCB and to the entry, and nobody has it.
LEMMA AllocateSound ==
    ASSUME NEW m, AtWork(m), m.fcb.cr < RPE, NEW n,
           n = Allocate(m, TRUE) \/ n = Allocate(m, FALSE)
    PROVE  /\ Sound(n) /\ Bound(n) /\ Keeps(m, n)
           /\ n.fcb.cr = m.fcb.cr /\ n.fcb.rc = m.fcb.rc
           /\ \/ n.quit /\ n.code = 2
              \/ ~n.quit /\ n.code = 0 /\ Block(n) \in DataBlocks
  <1>0. Sound(m) /\ m \in Calls /\ Bound(m) /\ m.code = 0 /\ ~m.quit
    BY DEF AtWork, Sound
  <1>1. CASE FreeBlocks(m) = {}
    <2>1. n = Quit(m, 2)
      BY <1>1 DEF Allocate
    <2>2. /\ Sound(n) /\ Keeps(m, n) /\ n.fcb = m.fcb /\ n.code = 2
          /\ SameDrive(m, n) /\ Found(n) = Found(m)
      BY <1>0, <2>1, CarrySound
    <2>3. n.quit
      BY <1>0, <2>1 DEF Quit, Calls
    <2> QED BY <1>0, <2>2, <2>3 DEF Bound, SameDrive
  <1>2. CASE FreeBlocks(m) # {}
    <2> DEFINE b == Min(FreeBlocks(m))
               q == Index(m)
               i == At(m)
               c == [m.fcb EXCEPT !.map = [@ EXCEPT ![q] = b]]
               e == [m.dir[i] EXCEPT !.map = c.map]
               dd == [m.dir EXCEPT ![i] = e]
               zeroed == [m.data EXCEPT ![b] = [k \in 0 .. BLK - 1 |-> Zero]]
    <2>1. b \in DataBlocks /\ b \notin m.alv
      <3>1. FreeBlocks(m) \subseteq Nat
        BY FilesAssumption, SMT DEF FreeBlocks
      <3>2. b \in 0 .. DSM /\ b \notin m.alv
        BY <1>2, <3>1, MinIn DEF FreeBlocks
      <3>3. b \notin Reserved
        BY <1>0, <3>2, InRebuilt DEF Sound
      <3> QED BY <3>2, <3>3, FilesAssumption, SMT DEF Reserved, DataBlocks
    <2>2. b \notin Rebuilt(m.dir)
      BY <1>0, <2>1 DEF Sound
    <2>3. q \in Indexes
      BY <1>0, BlockType
    <2>4. Found(m) # {} /\ m.dir[i].map = m.fcb.map /\ i \in Found(m) /\ i \in Slots
          /\ m.dir[i] \in Entries
      BY <1>0, BoundAt, AtHit
    <2>5. c \in FCBs /\ c.ex = m.fcb.ex /\ c.s2 = m.fcb.s2 /\ c.cr = m.fcb.cr
          /\ c.rc = m.fcb.rc /\ c.map = [m.fcb.map EXCEPT ![q] = b] /\ c.map \in Maps
      BY <1>0, <2>1, <2>3, FCBType DEF FCBs, Maps
    <2>6. e \in Entries /\ e.name = m.dir[i].name /\ e.ex = m.dir[i].ex /\ e.s2 = m.dir[i].s2
          /\ e.map = c.map
      BY <2>4, <2>5 DEF Entries
    <2>7. n \in Calls /\ n.fcb = c /\ n.dir = dd /\ n.alv = m.alv \cup {b}
          /\ n.name = m.name /\ n.code = m.code /\ n.quit = m.quit
      <3> DEFINE w == [m EXCEPT !.alv = @ \cup {b}, !.fcb = c]
                 p == [w EXCEPT !.dir = dd]
      <3>1. /\ w \in Calls /\ w.dir = m.dir /\ w.fcb = c /\ w.name = m.name /\ w.data = m.data
            /\ w.quit = m.quit /\ w.alv = m.alv \cup {b} /\ w.code = m.code
        <4>1. b \in 0 .. DSM
          BY <2>1, FilesAssumption, SMT DEF DataBlocks
        <4> HIDE DEF b, c
        <4> QED BY <1>0, <2>5, <4>1 DEF Calls
      <3>2. Found(w) = Found(m) /\ At(w) = i
        BY <2>5, <3>1 DEF Found, At
      <3>3. w = [m EXCEPT !.alv = @ \cup {b}, !.fcb.map[Index(m)] = b]
        BY <1>0 DEF Calls, FCBs
      <3>4. PublishMap(w) = p
        <4>1. PublishMap(w) = [w EXCEPT !.dir[i].map = w.fcb.map]
          BY <2>4, <3>2 DEF PublishMap
        <4> HIDE DEF w, c
        <4> QED BY <3>1, <4>1
      <3>5. dd \in [Slots -> Entries \cup {NoEntry}]
        <4> HIDE DEF e
        <4> QED BY <1>0, <2>6 DEF Calls
      <3>6. zeroed \in [DataBlocks -> Blocks]
        <4>1. [k \in 0 .. BLK - 1 |-> Zero] \in Blocks
          BY FilesAssumption DEF Blocks
        <4> HIDE DEF b
        <4> QED BY <1>0, <4>1 DEF Calls
      <3>7. p.quit = m.quit /\ p.data = m.data
        BY <3>1
      <3>8. n = p \/ n = [p EXCEPT !.data = zeroed]
        <4>1. n = [PublishMap(w) EXCEPT !.data[b] = [k \in 0 .. BLK - 1 |-> Zero]]
              \/ n = PublishMap(w)
          BY <1>2, <3>3 DEF Allocate
        <4> HIDE DEF w, b, p
        <4> QED BY <3>4, <3>7, <4>1
      <3> HIDE DEF w, dd, zeroed, b, c
      <3> QED BY <3>1, <3>5, <3>6, <3>8 DEF Calls
    <2>8. Replaces(m, i, e, dd)
      BY <2>4, <2>6 DEF Replaces, Found, Hits
    <2> HIDE DEF b, q, i, c, e, dd
    <2>9. /\ dd \in [Slots -> Entries \cup {NoEntry}] /\ Distinct(dd) /\ dd[i] = e
          /\ Unlinked(dd) /\ Rebuilt(dd) \subseteq Rebuilt(m.dir) \cup {b}
      BY <1>0, <2>1, <2>2, <2>3, <2>4, <2>5, <2>6, <2>8, ReplacedHits, NewBlockReplaced
    <2>10. Sound(n) /\ Keeps(m, n)
      BY <1>0, <2>7, <2>8, <2>9, OthersKept DEF Sound, Keeps
    <2>11. Bound(n)
      <3>1. Found(n) = Found(m)
        BY <1>0, <2>5, <2>7, <2>8, ReplacedHits DEF Found
      <3> QED BY <2>4, <2>6, <2>7, <2>9, <3>1 DEF Bound
    <2>12. Block(n) = b
      BY <1>0, <2>3, <2>5, <2>7, FCBType DEF Block, Index, Maps, q
    <2> QED BY <1>0, <2>1, <2>5, <2>7, <2>10, <2>11, <2>12
  <1> QED BY <1>1, <1>2

\* UB_WXFER and UB_WDONE.
LEMMA TransferSound ==
    ASSUME NEW m, Sound(m), Bound(m), m.fcb.cr < RPE, Block(m) \in DataBlocks,
           NEW v \in Values, NEW n, n = Transfer(m, v)
    PROVE  /\ Sound(n) /\ Bound(n) /\ Keeps(m, n)
           /\ n.code = m.code /\ n.quit = m.quit
  <1> DEFINE b == Block(m)
             o == Offset(m)
             new == [m.data EXCEPT ![b] = [@ EXCEPT ![o] = v]]
             c == [m.fcb EXCEPT !.cr = @ + 1, !.rc = Max({@, m.fcb.cr + 1}), !.clean = FALSE]
  <1>1. m \in Calls /\ m.fcb \in FCBs /\ m.data \in [DataBlocks -> Blocks]
    BY DEF Sound, Calls
  <1>2. new \in [DataBlocks -> Blocks]
    <2>1. m.data[b] \in Blocks
      BY <1>1
    <2>2. [m.data[b] EXCEPT ![o] = v] \in Blocks
      BY <2>1 DEF Blocks
    <2> HIDE DEF b, o
    <2> QED BY <1>1, <2>2
  <1>3. c \in FCBs /\ c.ex = m.fcb.ex /\ c.s2 = m.fcb.s2 /\ c.map = m.fcb.map
    <2>1. m.fcb.cr + 1 \in 0 .. RPE /\ m.fcb.cr + 1 \in Nat /\ m.fcb.rc \in Nat
          /\ m.fcb.rc \in 0 .. RPE
      BY FCBType, GeometryAssumption, SMT
    <2>2. Max({m.fcb.rc, m.fcb.cr + 1}) \in 0 .. RPE
      BY <2>1, MaxOfTwo
    <2> QED BY <1>1, <2>1, <2>2 DEF FCBs
  <1>4. n = [m EXCEPT !.data = new, !.fcb = c]
    BY DEF Transfer
  <1> HIDE DEF new, c, b, o
  <1>5. /\ n \in Calls /\ n.dir = m.dir /\ n.alv = m.alv /\ n.name = m.name /\ n.fcb = c
        /\ n.code = m.code /\ n.quit = m.quit
    BY <1>1, <1>2, <1>3, <1>4 DEF Calls
  <1>6. Found(n) = Found(m)
    BY <1>3, <1>5 DEF Found
  <1> QED BY <1>3, <1>5, <1>6 DEF Sound, Bound, Keeps

\* UB_WCORE leaves the FCB at its entry, also when the disk is full.
LEMMA WCoreSound ==
    ASSUME NEW m, AtWork(m), NEW v \in Values,
           NEW n, n = WCore(m, v, TRUE) \/ n = WCore(m, v, FALSE)
    PROVE  /\ Sound(n) /\ Bound(n) /\ Keeps(m, n)
           /\ n.code = 0 => ~n.quit
  <1> DEFINE p == Rolled(m, TRUE)
  <1>1. /\ Sound(p) /\ Bound(p) /\ Keeps(m, p) /\ ~p.quit
        /\ (p.code = 0 => p.fcb.cr < RPE)
    BY RolledSound
  <1>2. PICK a : /\ \/ Block(p) # NoBlock /\ a = p
                    \/ Block(p) = NoBlock /\ (a = Allocate(p, TRUE) \/ a = Allocate(p, FALSE))
                 /\ n = IF p.code # 0 THEN Carry(p, p.code % 4)
                        ELSE IF a.quit THEN a ELSE Transfer(a, v)
    <2>1. CASE Block(p) # NoBlock
      <3>1. n = IF p.code # 0 THEN Carry(p, p.code % 4)
                ELSE IF p.quit THEN p ELSE Transfer(p, v)
        BY <1>1, <2>1 DEF WCore
      <3> QED BY <2>1, <3>1
    <2>2. CASE Block(p) = NoBlock
      <3>1. \/ n = IF p.code # 0 THEN Carry(p, p.code % 4)
                ELSE IF Allocate(p, TRUE).quit THEN Allocate(p, TRUE) ELSE Transfer(Allocate(p, TRUE), v)
            \/ n = IF p.code # 0 THEN Carry(p, p.code % 4)
                ELSE IF Allocate(p, FALSE).quit THEN Allocate(p, FALSE) ELSE Transfer(Allocate(p, FALSE), v)
        BY <1>1, <2>2 DEF WCore
      <3> QED BY <2>2, <3>1
    <2> QED BY <2>1, <2>2
  <1> HIDE DEF p
  <1>3. CASE p.code # 0
    <2>1. p.code % 4 \in Nat /\ n = Carry(p, p.code % 4)
      <3>1. p.code \in Nat
        BY <1>1 DEF Sound, Calls
      <3>2. p.code % 4 \in Nat
        BY <3>1, SMT
      <3> QED BY <1>2, <1>3, <3>2
    <2>2. /\ Sound(n) /\ Keeps(p, n) /\ n.fcb = p.fcb /\ SameDrive(p, n)
          /\ Found(n) = Found(p) /\ n.quit = p.quit
      BY <1>1, <2>1, CarrySound
    <2> QED BY <1>1, <2>2, KeepsTransitive DEF Bound, SameDrive
  <1>4. CASE p.code = 0
    <2>1. p.fcb.cr < RPE /\ AtWork(p)
      BY <1>1, <1>4 DEF AtWork
    <2>2. /\ Sound(a) /\ Bound(a) /\ Keeps(p, a) /\ a.fcb.cr < RPE
          /\ \/ a.quit /\ a.code = 2
             \/ ~a.quit /\ a.code = 0 /\ Block(a) \in DataBlocks
      <3>1. CASE Block(p) # NoBlock
        BY <1>1, <1>2, <1>4, <2>1, <3>1, BlockType, KeepsItself
      <3>2. CASE Block(p) = NoBlock
        BY <1>2, <2>1, <3>2, AllocateSound
      <3> QED BY <3>1, <3>2
    <2>3. CASE a.quit
      BY <1>1, <1>2, <1>4, <2>2, <2>3, KeepsTransitive
    <2>4. CASE ~a.quit
      <3>1. n = Transfer(a, v)
        BY <1>2, <1>4, <2>4
      <3>2. /\ Sound(n) /\ Bound(n) /\ Keeps(a, n) /\ n.code = a.code /\ n.quit = a.quit
        BY <2>2, <2>4, <3>1, TransferSound
      <3> QED BY <1>1, <2>2, <2>4, <3>2, KeepsTransitive
    <2> QED BY <2>3, <2>4
  <1> QED BY <1>3, <1>4

\* UB_WRITE: whatever comes of the extent after the record.
LEMMA SequentialWriteSound ==
    ASSUME NEW m, AtWork(m), NEW v \in Values, NEW n, n = SequentialWrite(m, v)
    PROVE  Sound(n) /\ Bound(n) /\ Keeps(m, n)
  <1> DEFINE w == WCore(m, v, FALSE)
             k == NextEx(w, TRUE)
  <1>1. Sound(w) /\ Bound(w) /\ Keeps(m, w) /\ (w.code = 0 => ~w.quit)
    BY WCoreSound
  <1>2. n = IF w.code = 0 /\ w.fcb.cr = RPE THEN IF k.quit THEN k ELSE Carry(k, 0) ELSE w
    BY DEF SequentialWrite
  <1>3. CASE w.code = 0 /\ w.fcb.cr = RPE
    <2>1. Sound(k) /\ Bound(k) /\ Keeps(w, k) /\ ~k.quit
      BY <1>1, <1>3, NextExSound DEF AtWork
    <2>2. n = Carry(k, 0)
      BY <1>2, <1>3, <2>1
    <2> HIDE DEF w, k
    <2>3. /\ Sound(n) /\ Keeps(k, n) /\ n.fcb = k.fcb /\ SameDrive(k, n) /\ Found(n) = Found(k)
      BY <2>1, <2>2, CarrySound
    <2> QED BY <1>1, <2>1, <2>3, KeepsTransitive DEF Bound, SameDrive
  <1>4. CASE ~ (w.code = 0 /\ w.fcb.cr = RPE)
    <2> HIDE DEF w, k
    <2> QED BY <1>1, <1>2, <1>4
  <1> QED BY <1>3, <1>4

-----------------------------------------------------------------------------
(* The random calls.                                                       *)

\* The numbers random calls accept are those of records.
LEMMA AcceptedIsRecord ==
    ASSUME NEW r \in Nat, ~(r >= RandomEnd)
    PROVE  r \in Records /\ r < RandomEnd
  <1>1. PICK t : t = NS2 * NEX * RPE
    OBVIOUS
  <1>2. RandomEnd \in Nat /\ RandomEnd <= t /\ Records = 0 .. t - 1 /\ t \in Nat
    <2>1. t \in Nat
      <3>1. NS2 \in Nat /\ NEX \in Nat /\ RPE \in Nat
        BY GeometryAssumption, SMT
      <3>2. NS2 * NEX \in Nat
        BY <3>1, MulNat
      <3> QED BY <1>1, <3>1, <3>2, MulNat
    <2> QED BY <1>1, <2>1, FilesAssumption DEF Records
  <1> QED BY <1>2, SMT

\* UB_RDECODE and UB_EXTENT: only an FCB that could not be activated at the
\* target extent is left without its entry.
LEMMA PositionSound ==
    ASSUME NEW m, AtWork(m), NEW r \in Nat,
           NEW n, n = Position(m, r, TRUE) \/ n = Position(m, r, FALSE)
    PROVE  /\ Sound(n) /\ Keeps(m, n)
           /\ \/ Bound(n) /\ n.code = 0 /\ ~n.quit
              \/ Bound(n) /\ n.code = 6 /\ n.quit
              \/ n.code \notin {0, 1, 6} /\ ~n.quit
  <1>0. Sound(m) /\ Bound(m) /\ m.code = 0 /\ ~m.quit
    BY DEF AtWork
  <1>1. CASE r >= RandomEnd
    <2>1. n = Quit(m, 6)
      BY <1>1 DEF Position
    <2>2. /\ Sound(n) /\ Keeps(m, n) /\ n.fcb = m.fcb /\ n.code = 6
          /\ SameDrive(m, n) /\ Found(n) = Found(m)
      BY <1>0, <2>1, CarrySound
    <2>3. n.quit
      BY <1>0, <2>1 DEF Sound, Quit, Calls
    <2> QED BY <1>0, <2>2, <2>3 DEF Bound, SameDrive
  <1>2. CASE ~(r >= RandomEnd)
    <2> DEFINE to == Decode(r)
               here == m.fcb.rc # 0 /\ m.fcb.s2 = to.s2 /\ m.fcb.ex = to.ex
               k == IF m.fcb.rc = 0 THEN m ELSE CCore(m)
               c == [k.fcb EXCEPT !.ex = to.ex, !.s2 = to.s2, !.cr = to.cr, !.clean = FALSE]
               h == [m.fcb EXCEPT !.cr = to.cr]
    <2>1. to.ex \in Extents /\ to.s2 \in Modules /\ to.cr \in 0 .. RPE
      <3>1. to \in [ex : Extents, s2 : Modules, cr : 0 .. RPE - 1]
        BY <1>2, AcceptedIsRecord, DecodeExact
      <3>2. to.cr \in 0 .. RPE - 1
        BY <3>1
      <3>3. to.cr \in 0 .. RPE
        <4> HIDE DEF to
        <4> QED BY <3>2, GeometryAssumption, SMT
      <3> QED BY <3>1, <3>3
    <2>2. Sound(k) /\ Bound(k) /\ Keeps(m, k) /\ k.code = 0 /\ ~k.quit
      BY <1>0, CCoreSound, KeepsItself
    <2>3. \/ here /\ n = [m EXCEPT !.fcb = h]
          \/ ~here /\ n = Extent([k EXCEPT !.fcb = c], TRUE)
          \/ ~here /\ n = Extent([k EXCEPT !.fcb = c], FALSE)
      <3>1. here => n = [m EXCEPT !.fcb = h]
        BY <1>2 DEF Position
      <3>2. ~here => \/ n = IF k.quit THEN k ELSE Extent([k EXCEPT !.fcb = c], TRUE)
                     \/ n = IF k.quit THEN k ELSE Extent([k EXCEPT !.fcb = c], FALSE)
        BY <1>2 DEF Position
      <3> HIDE DEF here, k, c, h
      <3> QED BY <2>2, <3>1, <3>2
    <2>4. c \in FCBs
      <3>1. k.fcb \in FCBs
        BY <2>2, FCBType
      <3> HIDE DEF to, k
      <3> QED BY <2>1, <3>1 DEF FCBs
    <2>5. h \in FCBs /\ h.ex = m.fcb.ex /\ h.s2 = m.fcb.s2 /\ h.map = m.fcb.map
      <3>1. m.fcb \in FCBs
        BY <1>0, FCBType
      <3> HIDE DEF to
      <3> QED BY <2>1, <3>1 DEF FCBs
    <2> HIDE DEF here, k, c, h, to
    <2>6. CASE n = [m EXCEPT !.fcb = h]
      BY <1>0, <2>5, <2>6, NewFCB
    <2>7. CASE \/ n = Extent([k EXCEPT !.fcb = c], TRUE)
               \/ n = Extent([k EXCEPT !.fcb = c], FALSE)
      <3> DEFINE l == [k EXCEPT !.fcb = c]
      <3>1. Sound(l) /\ Keeps(k, l) /\ l.code = k.code /\ l.quit = k.quit
        BY <2>2, <2>4, NewFCB
      <3>2. n = Extent(l, TRUE) \/ n = Extent(l, FALSE)
        BY <2>7
      <3> HIDE DEF l
      <3>3. /\ Sound(n) /\ Keeps(l, n) /\ n.quit = l.quit
            /\ \/ Bound(n) /\ n.code = l.code
               \/ n.code \notin {0, 1, 6}
        BY <3>1, <3>2, ExtentSound
      <3> QED BY <2>2, <3>1, <3>3, KeepsTransitive
    <2> QED BY <2>3, <2>6, <2>7
  <1> QED BY <1>1, <1>2

\* UB_RRETURN sets CR and nothing else.
LEMMA ReturnSound ==
    ASSUME NEW m, Sound(m), Bound(m), NEW r \in Nat, NEW n, n = Return(m, r)
    PROVE  Sound(n) /\ Bound(n) /\ Keeps(m, n)
  <1>1. CASE m.quit
    BY <1>1, KeepsItself DEF Return
  <1>2. CASE ~m.quit
    <2> DEFINE c == [m.fcb EXCEPT !.cr = r % RPE]
    <2>1. r % RPE \in 0 .. RPE
      BY GeometryAssumption, SMT
    <2>2. c \in FCBs /\ c.ex = m.fcb.ex /\ c.s2 = m.fcb.s2 /\ c.map = m.fcb.map
      BY <2>1, FCBType DEF FCBs
    <2>3. n = [m EXCEPT !.fcb = c]
      BY <1>2 DEF Return
    <2> HIDE DEF c
    <2> QED BY <2>2, <2>3, NewFCB
  <1> QED BY <1>1, <1>2

\* Function 33 loses the entry of the FCB only if it could not activate the
\* extent.
LEMMA RandomReadSound ==
    ASSUME NEW m, AtWork(m), NEW r \in Nat, NEW n, n = RandomRead(m, r)
    PROVE  Sound(n) /\ Keeps(m, n) /\ (n.code \in {0, 1, 6} => Bound(n))
  <1> DEFINE p == Position(m, r, FALSE)
             k == ReadCore(p)
  <1>1. /\ Sound(p) /\ Keeps(m, p)
        /\ \/ Bound(p) /\ p.code = 0 /\ ~p.quit
           \/ Bound(p) /\ p.code = 6 /\ p.quit
           \/ p.code \notin {0, 1, 6} /\ ~p.quit
    BY PositionSound
  <1>2. n = IF p.quit THEN p ELSE IF p.code # 0 THEN Quit(p, 255) ELSE Return(k, r)
    BY DEF RandomRead
  <1>3. CASE Bound(p) /\ p.code = 0 /\ ~p.quit
    <2>1. Sound(k) /\ Bound(k) /\ Keeps(p, k)
      BY <1>1, <1>3, ReadCoreSound DEF AtWork
    <2>2. n = Return(k, r)
      BY <1>2, <1>3
    <2> HIDE DEF p, k
    <2>3. Sound(n) /\ Bound(n) /\ Keeps(k, n)
      BY <2>1, <2>2, ReturnSound
    <2> QED BY <1>1, <2>1, <2>3, KeepsTransitive
  <1> HIDE DEF p, k
  <1>4. CASE Bound(p) /\ p.code = 6 /\ p.quit
    BY <1>1, <1>2, <1>4
  <1>5. CASE p.code \notin {0, 1, 6} /\ ~p.quit
    <2>1. n = Quit(p, 255)
      BY <1>2, <1>5
    <2>2. Sound(n) /\ Keeps(p, n) /\ n.code = 255
      BY <1>1, <2>1, CarrySound
    <2> QED BY <1>1, <2>2, KeepsTransitive
  <1> QED BY <1>1, <1>3, <1>4, <1>5

\* Functions 34 and 40 lose the entry only if they could not activate the
\* extent.
LEMMA RandomWriteSound ==
    ASSUME NEW m, AtWork(m), NEW r \in Nat, NEW v \in Values,
           NEW n, n = RandomWrite(m, r, v, TRUE) \/ n = RandomWrite(m, r, v, FALSE)
    PROVE  Sound(n) /\ Keeps(m, n) /\ (n.code \in {0, 1, 6} => Bound(n))
  <1> DEFINE p == Position(m, r, TRUE)
  <1>1. /\ Sound(p) /\ Keeps(m, p)
        /\ \/ Bound(p) /\ p.code = 0 /\ ~p.quit
           \/ Bound(p) /\ p.code = 6 /\ p.quit
           \/ p.code \notin {0, 1, 6} /\ ~p.quit
    BY PositionSound
  <1>2. PICK w : /\ w = WCore(p, v, TRUE) \/ w = WCore(p, v, FALSE)
                 /\ n = IF p.code # 0 THEN p ELSE Return(w, r)
    BY DEF RandomWrite
  <1> HIDE DEF p
  <1>3. CASE p.code = 0
    <2>0. AtWork(p)
      BY <1>1, <1>3 DEF AtWork
    <2>1. Sound(w) /\ Bound(w) /\ Keeps(p, w)
      BY <1>2, <2>0, WCoreSound
    <2>2. Sound(n) /\ Bound(n) /\ Keeps(w, n)
      BY <1>2, <1>3, <2>1, ReturnSound
    <2> QED BY <1>1, <2>1, <2>2, KeepsTransitive
  <1>4. CASE p.code # 0
    BY <1>1, <1>2, <1>4
  <1> QED BY <1>3, <1>4

-----------------------------------------------------------------------------
(* Delete and Rename change a directory as a whole.                        *)

\* UB_ALLOGIN marks blocks of the drive only.
LEMMA RebuiltType ==
    ASSUME NEW dd \in [Slots -> Entries \cup {NoEntry}]
    PROVE  Rebuilt(dd) \in SUBSET (0 .. DSM)
  <1> SUFFICES ASSUME NEW b \in Rebuilt(dd) PROVE b \in 0 .. DSM
    OBVIOUS
  <1>1. CASE b \in Reserved
    BY <1>1, FilesAssumption, SMT DEF Reserved
  <1>2. ASSUME NEW j \in Live(dd), NEW p \in Indexes, b = dd[j].map[p], b # NoBlock
        PROVE  b \in 0 .. DSM
    <2>1. dd[j] \in Entries
      BY LiveIffNamed DEF Live
    <2>2. b \in DataBlocks
      BY <1>2, <2>1 DEF Entries, Maps
    <2> QED BY <2>2, FilesAssumption, SMT DEF DataBlocks
  <1> QED BY <1>1, <1>2, InRebuilt

\* UB_DELETE: without the entries of one name a directory is sound.
LEMMA DeletedSound ==
    ASSUME NEW m, Sound(m),
           NEW gone, gone = {i \in Live(m.dir) : m.dir[i].name = m.name},
           NEW rest \in [Slots -> Entries \cup {NoEntry}],
           \A i \in gone : rest[i] = NoEntry, \A i \in Slots \ gone : rest[i] = m.dir[i],
           NEW n \in Calls, n.dir = rest, n.name = m.name, Rebuilt(rest) \subseteq n.alv
    PROVE  Sound(n) /\ Keeps(m, n)
  <1>1. m \in Calls /\ m.dir \in [Slots -> Entries \cup {NoEntry}] /\ m.name \in Names
    BY DEF Sound, Calls
  <1>5. Live(rest) = Live(m.dir) \ gone /\ \A j \in Live(rest) : rest[j] = m.dir[j]
    BY DEF Live
  <1>6. Unlinked(rest)
    BY <1>5 DEF Sound, Unlinked
  <1>7. Distinct(rest)
    <2> SUFFICES ASSUME NEW j \in Live(rest)
                 PROVE  Hits(rest, rest[j].name, rest[j].ex, rest[j].s2) = {j}
      BY DEF Distinct
    <2>1. j \in Live(m.dir) /\ rest[j] = m.dir[j] /\ m.dir[j].name # m.name
          /\ m.dir[j].name # "none" /\ j \in Slots
      BY <1>1, <1>5, LiveIffNamed DEF Live
    <2>2. Hits(m.dir, m.dir[j].name, m.dir[j].ex, m.dir[j].s2) = {j}
      BY <2>1 DEF Sound, Distinct
    <2>3. \A i \in Slots : rest[i].name = m.dir[j].name => rest[i] = m.dir[i]
      BY <2>1 DEF NoEntry
    <2> QED BY <2>1, <2>2, <2>3 DEF Hits
  <1>8. Keeps(m, n)
    BY DEF Keeps
  <1> QED BY <1>6, <1>7, <1>8 DEF Sound

\* An entry with another name is an entry.
LEMMA NewName ==
    ASSUME NEW e \in Entries, NEW to \in Names, NEW k, k = [e EXCEPT !.name = to]
    PROVE  k \in Entries /\ k.name = to /\ k.ex = e.ex /\ k.s2 = e.s2 /\ k.map = e.map
  BY DEF Entries

\* Directory dd is that of m, with the entries of its file named anew.
NamedAnew(m, to, dd) ==
    LET hits == {i \in Live(m.dir) : m.dir[i].name = m.name}
    IN  /\ \A i \in hits : /\ dd[i] \in Entries /\ dd[i].name = to /\ dd[i].ex = m.dir[i].ex
                            /\ dd[i].s2 = m.dir[i].s2 /\ dd[i].map = m.dir[i].map
        /\ \A i \in Slots \ hits : dd[i] = m.dir[i]

\* UB_RENAME: entries under an unused name are as sound as under the old
\* one.
LEMMA RenamedSound ==
    ASSUME NEW m, Sound(m), NEW to \in Names, ~ \E i \in Live(m.dir) : m.dir[i].name = to,
           NEW new \in [Slots -> Entries \cup {NoEntry}], NamedAnew(m, to, new),
           NEW n \in Calls, n.dir = new, n.name = m.name, n.alv = m.alv
    PROVE  Sound(n) /\ Keeps(m, n)
  <1> DEFINE hits == {i \in Live(m.dir) : m.dir[i].name = m.name}
  <1>1. m \in Calls /\ m.dir \in [Slots -> Entries \cup {NoEntry}] /\ m.name \in Names
    BY DEF Sound, Calls
  <1>2. \A i \in Live(m.dir) : m.dir[i] \in Entries /\ i \in Slots
    BY <1>1, LiveIffNamed DEF Live
  <1>3. \A i \in hits : /\ new[i] \in Entries /\ new[i].name = to /\ new[i].ex = m.dir[i].ex
                        /\ new[i].s2 = m.dir[i].s2 /\ new[i].map = m.dir[i].map
    BY DEF NamedAnew
  <1>4. \A i \in Slots \ hits : new[i] = m.dir[i]
    BY DEF NamedAnew
  <1>6. Live(new) = Live(m.dir)
    <2>1. \A i \in hits : i \in Live(new)
      BY <1>2, <1>3, LiveIffNamed
    <2> QED BY <1>4, <2>1 DEF Live
  <1>7. \A j \in Live(new) : new[j].map = m.dir[j].map
    BY <1>3, <1>4 DEF Live
  <1>8. Unlinked(new) /\ Rebuilt(new) = Rebuilt(m.dir)
    BY <1>6, <1>7, SameMaps DEF Sound
  <1>10. Distinct(new)
    <2> SUFFICES ASSUME NEW j \in Live(new)
                 PROVE  Hits(new, new[j].name, new[j].ex, new[j].s2) = {j}
      BY DEF Distinct
    <2>1. j \in Live(m.dir) /\ j \in Slots /\ m.dir[j].name # to
      BY <1>2, <1>6
    <2>2. Hits(m.dir, m.dir[j].name, m.dir[j].ex, m.dir[j].s2) = {j}
      BY <2>1 DEF Sound, Distinct
    <2>3. to # "none"
      BY FilesAssumption
    <2>4. \A i \in Slots : m.dir[i].name # to
      BY <1>1, <2>3, LiveIffNamed
    <2>5. CASE j \in hits
      <3>1. \A i \in Slots : new[i].name = to => i \in hits
        BY <1>4, <2>4
      <3>2. \A i \in hits : m.dir[i].name = m.name /\ i \in Slots
        BY <1>2
      <3> QED BY <1>3, <2>2, <2>5, <3>1, <3>2 DEF Hits
    <2>6. CASE j \notin hits
      <3>1. new[j] = m.dir[j] /\ m.dir[j].name # m.name
        BY <1>4, <2>1, <2>6
      <3>2. \A i \in hits : new[i].name # m.dir[j].name /\ m.dir[i].name # m.dir[j].name
        BY <1>3, <2>1, <3>1
      <3> QED BY <1>4, <2>1, <2>2, <3>1, <3>2 DEF Hits
    <2> QED BY <2>5, <2>6
  <1>12. Keeps(m, n)
    BY <1>4 DEF Keeps
  <1> QED BY <1>8, <1>10, <1>12 DEF Sound

-----------------------------------------------------------------------------
(* The invariant.  VectorCoversDirectory is what lets a block be taken     *)
(* from the vector; OpenMapsPublished is what makes a rebuilt vector as    *)
(* good as the old one.                                                    *)

IInv == /\ TypeOK /\ NoCrossLinks /\ VectorCoversDirectory
        /\ OpenMapsPublished /\ ExtentsDistinct

\* NoCrossLinks and ExtentsDistinct, drive by drive.
LEMMA PerDrive ==
    /\ NoCrossLinks <=> \A d \in Drives : Unlinked(dir[d])
    /\ ExtentsDistinct <=> \A d \in Drives : Distinct(dir[d])
  BY DEF NoCrossLinks, ExtentsDistinct, Unlinked, Distinct

\* The FCB that a program prepares is an FCB.
LEMMA FreshType ==
    FreshFCB \in FCBs
  <1>1. 0 \in 0 .. RPE /\ 0 \in Extents /\ 0 \in Modules
    BY GeometryAssumption, SMT DEF Extents, Modules
  <1>2. NoMap \in Maps
    BY DEF NoMap, Maps
  <1> QED BY <1>1, <1>2 DEF FreshFCB, FCBs

\* A file is a drive and a name.
LEMMA FileType ==
    ASSUME NEW f \in Files
    PROVE  Drive(f) \in Drives /\ Name(f) \in Names /\ f = <<Drive(f), Name(f)>>
  BY FilesAssumption DEF Drive, Name

\* Every call starts from a sound drive.
LEMMA StartSound ==
    ASSUME IInv, NEW f \in Files, NEW c \in FCBs, NEW m, m = Start(f, c)
    PROVE  /\ Sound(m) /\ m.dir = dir[Drive(f)] /\ m.name = Name(f) /\ m.fcb = c
           /\ m.code = 0 /\ ~m.quit
  <1> DEFINE d == Drive(f)
             av == Vector(d)
  <1>1. d \in Drives /\ Name(f) \in Names
    BY FileType
  <1>2. dir[d] \in [Slots -> Entries \cup {NoEntry}] /\ data[d] \in [DataBlocks -> Blocks]
        /\ Unlinked(dir[d]) /\ Distinct(dir[d])
    BY <1>1, PerDrive DEF IInv, TypeOK
  <1>3. av \in SUBSET (0 .. DSM) /\ Rebuilt(dir[d]) \subseteq av
    <2>1. CASE ctx = d
      <3>1. d # NoDrive
        BY <1>1, FilesAssumption, SMT DEF NoDrive
      <3> QED BY <2>1, <3>1 DEF IInv, TypeOK, VectorCoversDirectory, Vector
    <2>2. CASE ctx # d
      BY <1>2, <2>2, RebuiltType DEF Vector
    <2> QED BY <2>1, <2>2
  <1>4. m = [dir |-> dir[d], data |-> data[d], alv |-> av, name |-> Name(f), fcb |-> c,
             val |-> Zero, code |-> 0, quit |-> FALSE]
    BY DEF Start
  <1>5. Zero \in Values /\ 0 \in Nat
    BY FilesAssumption, SMT
  <1> HIDE DEF av, d
  <1>6. m \in Calls
    BY <1>1, <1>2, <1>3, <1>4, <1>5 DEF Calls
  <1> QED BY <1>2, <1>3, <1>4, <1>6 DEF Sound, d

\* The FCB of file g is at an entry of directory dd that has its map.
Shows(dd, g, c) == \E i \in Hits(dd, Name(g), c.ex, c.s2) : dd[i].map = c.map

\* What a call must leave for the invariant to hold again.
LEMMA FinishSafe ==
    ASSUME IInv, NEW f \in Files, NEW m, m.dir = dir[Drive(f)], m.name = Name(f),
           NEW n, Sound(n), Keeps(m, n), NEW op, NEW r, NEW x, Finish(f, op, r, n, x),
           fcb' \in [Files -> FCBs], open' \in SUBSET Files,
           \A g \in open' : g # f => g \in open /\ fcb'[g] = fcb[g],
           f \in open' => Shows(n.dir, f, fcb'[f])
    PROVE  IInv'
  <1> DEFINE d == Drive(f)
  <1>1. d \in Drives /\ Name(f) \in Names
    BY FileType
  <1>2. /\ dir' = [dir EXCEPT ![d] = n.dir] /\ data' = [data EXCEPT ![d] = n.data]
        /\ ctx' = d /\ alv' = n.alv
    BY DEF Finish
  <1>3. /\ n.dir \in [Slots -> Entries \cup {NoEntry}] /\ n.data \in [DataBlocks -> Blocks]
        /\ n.alv \in SUBSET (0 .. DSM) /\ Unlinked(n.dir) /\ Distinct(n.dir)
        /\ Rebuilt(n.dir) \subseteq n.alv
    BY DEF Sound, Calls
  <1>4. /\ dir \in [Drives -> [Slots -> Entries \cup {NoEntry}]]
        /\ data \in [Drives -> [DataBlocks -> Blocks]]
        /\ \A e \in Drives : Unlinked(dir[e]) /\ Distinct(dir[e])
    BY PerDrive DEF IInv, TypeOK
  <1> HIDE DEF d
  <1>5. dir'[d] = n.dir /\ \A e \in Drives : e # d => dir'[e] = dir[e]
    BY <1>1, <1>2, <1>4
  <1>6. TypeOK'
    BY <1>1, <1>2, <1>3, <1>4 DEF TypeOK
  <1>7. NoCrossLinks' /\ ExtentsDistinct'
    <2>1. \A e \in Drives : Unlinked(dir'[e]) /\ Distinct(dir'[e])
      BY <1>3, <1>4, <1>5
    <2> QED BY <2>1 DEF NoCrossLinks, ExtentsDistinct, Unlinked, Distinct
  <1>8. VectorCoversDirectory'
    BY <1>2, <1>3, <1>5 DEF VectorCoversDirectory
  <1>9. ASSUME NEW g \in open' PROVE Shows(dir'[Drive(g)], g, fcb'[g])
    <2>1. CASE g = f
      BY <1>5, <2>1 DEF d
    <2>2. CASE g # f
      <3>1. g \in open /\ fcb'[g] = fcb[g] /\ g \in Files
        BY <2>2 DEF IInv, TypeOK
      <3>2. Shows(dir[Drive(g)], g, fcb[g])
        BY <3>1 DEF IInv, OpenMapsPublished, Shows
      <3>3. Drive(g) \in Drives /\ Name(g) \in Names
        BY <3>1, FileType
      <3>4. CASE Drive(g) # d
        BY <1>5, <3>1, <3>2, <3>3, <3>4
      <3>5. CASE Drive(g) = d
        <4>1. Name(g) # Name(f)
          BY <2>2, <3>1, <3>5, FileType DEF d
        <4>2. Name(g) # "none"
          BY <3>3, FilesAssumption
        <4>3. PICK i \in Slots : /\ dir[d][i].name = Name(g) /\ dir[d][i].s2 = fcb[g].s2
                                 /\ Group(dir[d][i].ex) = Group(fcb[g].ex)
                                 /\ dir[d][i].map = fcb[g].map
          BY <3>2, <3>5 DEF Shows, Hits
        <4>4. n.dir[i] = dir[d][i]
          BY <4>1, <4>2, <4>3 DEF Keeps, d
        <4> QED BY <1>5, <3>1, <3>5, <4>3, <4>4 DEF Shows, Hits
      <3> QED BY <3>4, <3>5
    <2> QED BY <2>1, <2>2
  <1>10. OpenMapsPublished'
    BY <1>9 DEF OpenMapsPublished, Shows
  <1> QED BY <1>6, <1>7, <1>8, <1>10 DEF IInv

\* Bound(n) in terms of the file.
LEMMA BoundShows ==
    ASSUME NEW n, NEW f, n.name = Name(f), Bound(n)
    PROVE  Shows(n.dir, f, n.fcb)
  BY DEF Bound, Found, Shows

\* A call that may give the program an FCB keeps the invariant.
LEMMA OpeningSafe ==
    ASSUME IInv, NEW f \in Files, f \notin open, NEW m, m = Start(f, FreshFCB),
           NEW n, Sound(n), Keeps(m, n), n.code = 0 => Bound(n),
           NEW op, Opening(f, op, n)
    PROVE  IInv'
  <1>1. m.dir = dir[Drive(f)] /\ m.name = Name(f)
    BY DEF Start
  <1>2. Finish(f, op, 0, n, Zero) /\ n.name = Name(f) /\ n.fcb \in FCBs
    BY <1>1, FCBType DEF Opening, Keeps
  <1>3. fcb \in [Files -> FCBs] /\ open \in SUBSET Files
    BY DEF IInv, TypeOK
  <1>4. CASE n.code = 0
    <2>1. fcb' = [fcb EXCEPT ![f] = n.fcb] /\ open' = open \cup {f}
      BY <1>4 DEF Opening
    <2>2. fcb' \in [Files -> FCBs] /\ fcb'[f] = n.fcb /\ open' \in SUBSET Files
      BY <1>2, <1>3, <2>1
    <2>3. Shows(n.dir, f, fcb'[f])
      BY <1>2, <1>4, <2>2, BoundShows
    <2>4. \A g \in open' : g # f => g \in open /\ fcb'[g] = fcb[g]
      BY <1>3, <2>1
    <2> QED BY <1>1, <1>2, <2>2, <2>3, <2>4, FinishSafe
  <1>5. CASE n.code # 0
    <2>1. UNCHANGED <<fcb, open>>
      BY <1>5 DEF Opening
    <2> QED BY <1>1, <1>2, <1>3, <2>1, FinishSafe
  <1> QED BY <1>4, <1>5

\* A call on an FCB in use finds the FCB at its entry.
LEMMA WorkStart ==
    ASSUME IInv, NEW f \in open, NEW m, m = Start(f, fcb[f])
    PROVE  AtWork(m) /\ f \in Files /\ m.dir = dir[Drive(f)] /\ m.name = Name(f)
  <1>1. f \in Files /\ fcb[f] \in FCBs
    BY DEF IInv, TypeOK
  <1>2. /\ Sound(m) /\ m.dir = dir[Drive(f)] /\ m.name = Name(f) /\ m.fcb = fcb[f]
        /\ m.code = 0 /\ ~m.quit
    BY <1>1, StartSound
  <1>3. Bound(m)
    BY <1>2 DEF IInv, OpenMapsPublished, Bound, Found
  <1> QED BY <1>1, <1>2, <1>3 DEF AtWork

\* A call on an FCB in use keeps the invariant if it leaves the FCB at its
\* entry, or if a cautious program gives the FCB up.
LEMMA WorkingSafe ==
    ASSUME Cautious, IInv, NEW f \in open, NEW m, m = Start(f, fcb[f]),
           NEW n, Sound(n), Keeps(m, n), NEW op, NEW r, NEW x, Working(f, op, r, n, x),
           op \notin {"rread", "rwrite"} \/ n.code \in {0, 1, 6} => Bound(n)
    PROVE  IInv'
  <1>1. f \in Files /\ m.dir = dir[Drive(f)] /\ m.name = Name(f)
    BY WorkStart
  <1>2. Finish(f, op, r, n, x) /\ n.name = Name(f) /\ n.fcb \in FCBs
    BY <1>1, FCBType DEF Working, Keeps
  <1>3. fcb \in [Files -> FCBs] /\ open \in SUBSET Files
    BY DEF IInv, TypeOK
  <1>4. CASE op \notin {"rread", "rwrite"} \/ n.code \in {0, 1, 6}
    <2>1. fcb' = [fcb EXCEPT ![f] = n.fcb] /\ open' = open
      BY <1>4 DEF Working
    <2>2. fcb' \in [Files -> FCBs] /\ fcb'[f] = n.fcb
      BY <1>1, <1>2, <1>3, <2>1
    <2>3. Shows(n.dir, f, fcb'[f])
      BY <1>2, <1>4, <2>2, BoundShows
    <2>4. \A g \in open' : g # f => g \in open /\ fcb'[g] = fcb[g]
      BY <1>3, <2>1
    <2> QED BY <1>1, <1>2, <1>3, <2>1, <2>2, <2>3, <2>4, FinishSafe
  <1>5. CASE ~ (op \notin {"rread", "rwrite"} \/ n.code \in {0, 1, 6})
    <2>1. fcb' = [fcb EXCEPT ![f] = FreshFCB] /\ open' = open \ {f}
      BY <1>5 DEF Working
    <2>2. fcb' \in [Files -> FCBs] /\ open' \in SUBSET Files
      BY <1>1, <1>3, <2>1, FreshType
    <2>3. \A g \in open' : g # f => g \in open /\ fcb'[g] = fcb[g]
      BY <1>3, <2>1
    <2>4. f \notin open'
      BY <2>1
    <2> QED BY <1>1, <1>2, <2>2, <2>3, <2>4, FinishSafe
  <1> QED BY <1>4, <1>5

-----------------------------------------------------------------------------
(* One lemma for each call.                                                *)

\* Open keeps the invariant.
LEMMA OpenSafe ==
    ASSUME IInv, NEW f \in Files, Open(f)
    PROVE  IInv'
  <1> DEFINE m == Start(f, FreshFCB)
             n == Activate(m)
  <1>1. Sound(m) /\ m.code = 0
    BY StartSound, FreshType
  <1>2. Sound(n) /\ Keeps(m, n) /\ (n.code = 0 => Bound(n))
    BY <1>1, ActivateSound
  <1>3. f \notin open /\ Opening(f, "open", n)
    BY DEF Open
  <1> QED BY <1>2, <1>3, OpeningSafe

\* Make keeps it: the new entry is the only one.
LEMMA MakeSafe ==
    ASSUME IInv, NEW f \in Files, Make(f)
    PROVE  IInv'
  <1> DEFINE m == Start(f, FreshFCB)
             made == MkFree(m)
             n == IF Found(m) # {} \/ made.code # 0 THEN Quit(m, 255) ELSE made
  <1>1. Sound(m) /\ m.code = 0
    BY StartSound, FreshType
  <1>2. CASE Found(m) # {} \/ made.code # 0
    <2>1. n = Quit(m, 255) /\ 255 \in Nat
      BY <1>2, SMT
    <2>2. Sound(n) /\ Keeps(m, n) /\ n.code = 255
      <3> HIDE DEF m, made, n
      <3> QED BY <1>1, <2>1, CarrySound
    <2> QED BY <2>2, OpeningSafe DEF Make
  <1>3. CASE Found(m) = {} /\ made.code = 0
    <2>1. n = made
      BY <1>3
    <2>2. Sound(made) /\ Keeps(m, made) /\ (made.code = 0 => Bound(made))
      <3>1. /\ Sound(made) /\ Keeps(m, made)
            /\ FreeSlots(m) # {} => Bound(made)
            /\ FreeSlots(m) = {} => made.code = 5
        BY <1>1, <1>3, MkFreeSound
      <3> HIDE DEF m, made
      <3> QED BY <3>1
    <2>3. Opening(f, "make", made) /\ f \notin open
      BY <2>1 DEF Make
    <2> QED BY <2>2, <2>3, OpeningSafe
  <1> QED BY <1>2, <1>3

\* Close keeps it.
LEMMA CloseSafe ==
    ASSUME Cautious, IInv, NEW f \in Files, Close(f)
    PROVE  IInv'
  <1> DEFINE m == Start(f, fcb[f])
             n == CCore(m)
  <1>1. f \in open /\ Working(f, "close", 0, n, Zero)
    BY DEF Close
  <1>2. Sound(n) /\ Bound(n) /\ Keeps(m, n)
    BY <1>1, WorkStart, CCoreSound DEF AtWork
  <1> QED BY <1>1, <1>2, WorkingSafe

\* Sequential reads keep it.
LEMMA ReadSafe ==
    ASSUME Cautious, IInv, NEW f \in Files, Read(f)
    PROVE  IInv'
  <1> DEFINE m == Start(f, fcb[f])
             n == ReadCore(m)
  <1>1. f \in open /\ Working(f, "read", Here(f), n, n.val)
    BY DEF Read
  <1>2. Sound(n) /\ Bound(n) /\ Keeps(m, n)
    BY <1>1, WorkStart, ReadCoreSound
  <1> QED BY <1>1, <1>2, WorkingSafe

\* Sequential writes keep it.
LEMMA WriteSafe ==
    ASSUME Cautious, IInv, NEW f \in Files, NEW v \in Values, Write(f, v)
    PROVE  IInv'
  <1> DEFINE m == Start(f, fcb[f])
             n == SequentialWrite(m, v)
  <1>1. f \in open /\ Working(f, "write", Here(f), n, v)
    BY DEF Write
  <1>2. Sound(n) /\ Bound(n) /\ Keeps(m, n)
    BY <1>1, WorkStart, SequentialWriteSound
  <1> QED BY <1>1, <1>2, WorkingSafe

\* Random reads keep it.
LEMMA ReadAtSafe ==
    ASSUME Cautious, IInv, NEW f \in Files, NEW r \in RandomRecs, ReadAt(f, r)
    PROVE  IInv'
  <1> DEFINE m == Start(f, fcb[f])
             n == RandomRead(m, r)
  <1>1. f \in open /\ Working(f, "rread", r, n, n.val) /\ r \in Nat
    BY FilesAssumption DEF ReadAt
  <1>2. Sound(n) /\ Keeps(m, n) /\ (n.code \in {0, 1, 6} => Bound(n))
    BY <1>1, WorkStart, RandomReadSound
  <1> QED BY <1>1, <1>2, WorkingSafe

\* Random writes keep it.
LEMMA WriteAtSafe ==
    ASSUME Cautious, IInv, NEW f \in Files, NEW r \in RandomRecs, NEW v \in Values,
           NEW zero \in BOOLEAN, WriteAt(f, r, v, zero)
    PROVE  IInv'
  <1> DEFINE m == Start(f, fcb[f])
  <1>1. PICK n : /\ n = RandomWrite(m, r, v, TRUE) \/ n = RandomWrite(m, r, v, FALSE)
                 /\ Working(f, "rwrite", r, n, v)
    <2>1. CASE zero = TRUE
      BY <2>1 DEF WriteAt
    <2>2. CASE zero = FALSE
      BY <2>2 DEF WriteAt
    <2> QED BY <2>1, <2>2
  <1>2. f \in open /\ r \in Nat
    BY FilesAssumption DEF WriteAt
  <1>3. AtWork(m)
    BY <1>2, WorkStart
  <1>4. Sound(n) /\ Keeps(m, n) /\ (n.code \in {0, 1, 6} => Bound(n))
    <2> HIDE DEF m
    <2> QED BY <1>1, <1>2, <1>3, RandomWriteSound
  <1> QED BY <1>1, <1>2, <1>4, WorkingSafe

\* A call that fails before it has changed anything, on whatever file.
LEMMA RefusedSafe ==
    ASSUME IInv, NEW f \in Files, NEW m, m = Start(f, FreshFCB),
           NEW n, n = Quit(m, 255) \/ n = m, NEW op, NEW r, NEW x, Finish(f, op, r, n, x),
           UNCHANGED <<fcb, open>>
    PROVE  IInv'
  <1>1. Sound(m) /\ m.dir = dir[Drive(f)] /\ m.name = Name(f)
    BY StartSound, FreshType
  <1>2. Sound(n) /\ Keeps(m, n) /\ n.dir = m.dir
    <2>1. CASE n = m
      BY <1>1, <2>1, KeepsItself
    <2>2. CASE n = Quit(m, 255)
      <3>1. 255 \in Nat
        BY SMT
      <3> QED BY <1>1, <2>2, <3>1, CarrySound DEF SameDrive
    <2> QED BY <2>1, <2>2
  <1>3. fcb' \in [Files -> FCBs] /\ open' \in SUBSET Files
    BY DEF IInv, TypeOK
  <1>4. f \in open' => Shows(n.dir, f, fcb'[f])
    BY <1>1, <1>2 DEF IInv, OpenMapsPublished, Shows
  <1> QED BY <1>1, <1>2, <1>3, <1>4, FinishSafe

\* Delete keeps it.
LEMMA DeleteSafe ==
    ASSUME IInv, NEW f \in Files, Delete(f)
    PROVE  IInv'
  <1> DEFINE m == Start(f, FreshFCB)
             gone == {i \in Live(m.dir) : m.dir[i].name = m.name}
             rest == [i \in Slots |-> IF i \in gone THEN NoEntry ELSE m.dir[i]]
             k == [m EXCEPT !.dir = rest, !.alv = Rebuilt(rest)]
             n == IF gone = {} THEN Quit(m, 255) ELSE k
  <1>1. f \notin open /\ Finish(f, "delete", 0, n, Zero) /\ UNCHANGED <<fcb, open>>
    BY DEF Delete
  <1>2. CASE gone = {}
    BY <1>1, <1>2, RefusedSafe
  <1>3. CASE gone # {}
    <2>1. Sound(m) /\ m \in Calls /\ m.dir = dir[Drive(f)] /\ m.name = Name(f)
      BY StartSound, FreshType DEF Sound
    <2>2. /\ rest \in [Slots -> Entries \cup {NoEntry}]
          /\ \A i \in gone : rest[i] = NoEntry
          /\ \A i \in Slots \ gone : rest[i] = m.dir[i]
      <3>1. m.dir \in [Slots -> Entries \cup {NoEntry}]
        BY <2>1 DEF Calls
      <3>2. gone \subseteq Slots
        BY DEF Live
      <3> HIDE DEF m, gone
      <3> QED BY <3>1, <3>2
    <2>3. Rebuilt(rest) \in SUBSET (0 .. DSM)
      BY <2>2, RebuiltType
    <2>4. n = k
      BY <1>3
    <2>5. gone = {i \in Live(m.dir) : m.dir[i].name = m.name}
      OBVIOUS
    <2> HIDE DEF m, rest, gone
    <2>6. k \in Calls /\ k.dir = rest /\ k.alv = Rebuilt(rest) /\ k.name = m.name
      <3> DEFINE av == Rebuilt(rest)
      <3>1. k = [m EXCEPT !.dir = rest, !.alv = av] /\ av \in SUBSET (0 .. DSM)
        BY <2>3
      <3>2. m \in Calls /\ rest \in [Slots -> Entries \cup {NoEntry}]
        BY <2>1, <2>2
      <3> HIDE DEF k, av
      <3>3. k \in Calls /\ k.dir = rest /\ k.alv = av /\ k.name = m.name
        BY <3>1, <3>2 DEF Calls
      <3> QED BY <3>3 DEF av
    <2> HIDE DEF k, n
    <2>7. Sound(k) /\ Keeps(m, k)
      BY <2>1, <2>2, <2>5, <2>6, DeletedSound
    <2>8. fcb' \in [Files -> FCBs] /\ open' \in SUBSET Files
      BY <1>1 DEF IInv, TypeOK
    <2>9. f \notin open' /\ \A g \in open' : g \in open /\ fcb'[g] = fcb[g]
      BY <1>1
    <2>10. Finish(f, "delete", 0, k, Zero)
      BY <1>1, <2>4
    <2> QED BY <2>1, <2>7, <2>8, <2>9, <2>10, FinishSafe
  <1> QED BY <1>2, <1>3

\* Rename keeps it.
LEMMA RenameSafe ==
    ASSUME IInv, NEW f \in Files, NEW g \in Files, Rename(f, g)
    PROVE  IInv'
  <1> DEFINE m == Start(f, FreshFCB)
             to == Name(g)
             hits == {i \in Live(m.dir) : m.dir[i].name = m.name}
             taken == \E i \in Live(m.dir) : m.dir[i].name = to
             new == [i \in Slots |-> IF i \in hits THEN [m.dir[i] EXCEPT !.name = to]
                                     ELSE m.dir[i]]
             k == [m EXCEPT !.dir = new]
             n == IF taken \/ hits = {} THEN Quit(m, 255) ELSE k
  <1>1. f \notin open /\ Finish(f, "rename", 0, n, Zero) /\ UNCHANGED <<fcb, open>>
    BY DEF Rename
  <1>2. CASE taken \/ hits = {}
    BY <1>1, <1>2, RefusedSafe
  <1>3. CASE ~ (taken \/ hits = {})
    <2>1. Sound(m) /\ m \in Calls /\ m.dir = dir[Drive(f)] /\ m.name = Name(f)
      BY StartSound, FreshType DEF Sound
    <2>2. to \in Names
      BY FileType
    <2>3. m.dir \in [Slots -> Entries \cup {NoEntry}]
      BY <2>1 DEF Calls
    <2>4. n = k
      BY <1>3
    <2>5. hits = {i \in Live(m.dir) : m.dir[i].name = m.name} /\ hits \subseteq Slots
      BY DEF Live
    <2>6. ~ \E i \in Live(m.dir) : m.dir[i].name = to
      BY <1>3
    <2>7. \A i \in hits : m.dir[i] \in Entries
      BY <2>3, LiveIffNamed DEF Live
    <2> HIDE DEF m, hits, taken, to
    <2>8. \A i \in hits : new[i] = [m.dir[i] EXCEPT !.name = to]
      BY <2>5
    <2>9. \A i \in Slots \ hits : new[i] = m.dir[i]
      OBVIOUS
    <2>10. \A i \in hits :
                 /\ new[i] \in Entries /\ new[i].name = to /\ new[i].ex = m.dir[i].ex
                 /\ new[i].s2 = m.dir[i].s2 /\ new[i].map = m.dir[i].map
      <3> TAKE i \in hits
      <3> DEFINE e == new[i]
      <3>1. e = [m.dir[i] EXCEPT !.name = to] /\ m.dir[i] \in Entries
        BY <2>7, <2>8
      <3> HIDE DEF e
      <3>2. /\ e \in Entries /\ e.name = to /\ e.ex = m.dir[i].ex
            /\ e.s2 = m.dir[i].s2 /\ e.map = m.dir[i].map
        BY <2>2, <3>1, NewName
      <3> QED BY <3>2 DEF e
    <2>11. new \in [Slots -> Entries \cup {NoEntry}]
      <3>1. \A i \in Slots : new[i] \in Entries \cup {NoEntry}
        BY <2>3, <2>9, <2>10
      <3>2. new = [i \in Slots |-> new[i]]
        OBVIOUS
      <3> HIDE DEF new
      <3> QED BY <3>1, <3>2
    <2>17. NamedAnew(m, to, new)
      <3> HIDE DEF new
      <3> QED BY <2>5, <2>9, <2>10 DEF NamedAnew
    <2> HIDE DEF new
    <2>12. k \in Calls /\ k.dir = new /\ k.alv = m.alv /\ k.name = m.name
      BY <2>1, <2>11 DEF Calls
    <2> HIDE DEF k, n
    <2>13. Sound(k) /\ Keeps(m, k)
      BY <2>1, <2>2, <2>6, <2>11, <2>12, <2>17, RenamedSound
    <2>14. fcb' \in [Files -> FCBs] /\ open' \in SUBSET Files
      BY <1>1 DEF IInv, TypeOK
    <2>15. f \notin open' /\ \A h \in open' : h \in open /\ fcb'[h] = fcb[h]
      BY <1>1
    <2>16. Finish(f, "rename", 0, k, Zero)
      BY <1>1, <2>4
    <2> QED BY <2>1, <2>13, <2>14, <2>15, <2>16, FinishSafe
  <1> QED BY <1>2, <1>3

\* Size keeps it, also for a file in use.
LEMMA SizeSafe ==
    ASSUME IInv, NEW f \in Files, Size(f)
    PROVE  IInv'
  <1> DEFINE m == Start(f, FreshFCB)
  <1>1. PICK r, n : /\ n = Quit(m, 255) \/ n = m
                    /\ Finish(f, "size", r, n, Zero)
                    /\ UNCHANGED <<fcb, open>>
    BY DEF Size
  <1> QED BY <1>1, RefusedSafe

\* What leaves the directories alone may change the active drive, if the
\* vector goes with it, and may close files.
LEMMA ContextSafe ==
    ASSUME IInv, UNCHANGED <<dir, data>>, ctx' \in Drives \cup {NoDrive},
           alv' \in SUBSET (0 .. DSM), ctx' # NoDrive => Rebuilt(dir[ctx']) \subseteq alv',
           fcb' \in [Files -> FCBs], open' \in SUBSET open,
           \A g \in open' : fcb'[g] = fcb[g]
    PROVE  IInv'
  <1>1. TypeOK'
    BY DEF IInv, TypeOK
  <1>2. NoCrossLinks' /\ ExtentsDistinct'
    BY DEF IInv, NoCrossLinks, ExtentsDistinct
  <1>3. VectorCoversDirectory'
    BY DEF VectorCoversDirectory
  <1>4. OpenMapsPublished'
    BY DEF IInv, OpenMapsPublished
  <1> QED BY <1>1, <1>2, <1>3, <1>4 DEF IInv

\* A vector rebuilt for drive d, or the one that is there for it already.
LEMMA VectorType ==
    ASSUME IInv, NEW d \in Drives
    PROVE  /\ d # NoDrive
           /\ Rebuilt(dir[d]) \in SUBSET (0 .. DSM)
           /\ Vector(d) \in SUBSET (0 .. DSM) /\ Rebuilt(dir[d]) \subseteq Vector(d)
  <1>1. d # NoDrive
    BY FilesAssumption, SMT DEF NoDrive
  <1>2. dir[d] \in [Slots -> Entries \cup {NoEntry}]
    BY DEF IInv, TypeOK
  <1>3. Rebuilt(dir[d]) \in SUBSET (0 .. DSM)
    BY <1>2, RebuiltType
  <1>4. CASE ctx = d
    BY <1>1, <1>3, <1>4 DEF Vector, IInv, TypeOK, VectorCoversDirectory
  <1>5. CASE ctx # d
    BY <1>1, <1>3, <1>5 DEF Vector
  <1> QED BY <1>4, <1>5

\* A program that forgets an FCB keeps it.
LEMMA DropSafe ==
    ASSUME IInv, NEW f \in Files, Drop(f)
    PROVE  IInv'
  <1>1. /\ UNCHANGED <<dir, data, ctx, alv>> /\ open' = open \ {f}
        /\ fcb' = [fcb EXCEPT ![f] = FreshFCB]
    BY DEF Drop
  <1>2. fcb \in [Files -> FCBs] /\ open \in SUBSET Files /\ ctx \in Drives \cup {NoDrive}
        /\ alv \in SUBSET (0 .. DSM) /\ (ctx # NoDrive => Rebuilt(dir[ctx]) \subseteq alv)
    BY DEF IInv, TypeOK, VectorCoversDirectory
  <1>3. fcb' \in [Files -> FCBs] /\ \A g \in open' : fcb'[g] = fcb[g]
    BY <1>1, <1>2, FreshType
  <1> QED BY <1>1, <1>2, <1>3, ContextSafe

\* Changes of drive and warm boots keep it, although they rebuild the
\* vector.
LEMMA DriveChangesSafe ==
    ASSUME IInv, NEW d \in Drives, Select(d) \/ WarmBoot(d) \/ ResetDrive \/ ResetDisks
    PROVE  IInv'
  <1>1. /\ fcb \in [Files -> FCBs] /\ open \in SUBSET Files
        /\ alv \in SUBSET (0 .. DSM) /\ 0 \in Drives
    BY FilesAssumption DEF IInv, TypeOK
  <1>2. CASE Select(d)
    BY <1>1, <1>2, VectorType, ContextSafe DEF Select
  <1>3. CASE WarmBoot(d)
    <2>1. /\ UNCHANGED <<dir, data>> /\ ctx' = d /\ alv' = Rebuilt(dir[d])
          /\ open' = {} /\ fcb' = [f \in Files |-> FreshFCB]
      BY <1>3 DEF WarmBoot
    <2>2. fcb' \in [Files -> FCBs]
      BY <2>1, FreshType
    <2> QED BY <2>1, <2>2, VectorType, ContextSafe
  <1>4. CASE ResetDrive
    BY <1>1, <1>4, ContextSafe DEF ResetDrive
  <1>5. CASE ResetDisks
    BY <1>1, <1>5, VectorType, ContextSafe DEF ResetDisks
  <1> QED BY <1>2, <1>3, <1>4, <1>5

\* The invariant holds on freshly formatted discs.
LEMMA InvariantInit ==
    ASSUME Init
    PROVE  IInv
  <1> DEFINE none == [i \in Slots |-> NoEntry]
  <1>1. /\ dir = [d \in Drives |-> none] /\ ctx = 0 /\ alv = Reserved /\ open = {}
        /\ fcb = [f \in Files |-> FreshFCB]
        /\ data = [d \in Drives |-> [b \in DataBlocks |-> [i \in 0 .. BLK - 1 |-> Blank]]]
    BY DEF Init
  <1>2. 0 \in Drives /\ Blank \in Values
    BY FilesAssumption
  <1>3. none \in [Slots -> Entries \cup {NoEntry}] /\ Live(none) = {}
    BY DEF Live
  <1>4. Rebuilt(none) = Reserved
    BY <1>3 DEF Rebuilt
  <1> HIDE DEF none
  <1>5. \A d \in Drives : dir[d] = none
    BY <1>1
  <1>6. TypeOK
    <2>1. dir \in [Drives -> [Slots -> Entries \cup {NoEntry}]]
      BY <1>1, <1>3
    <2>2. data \in [Drives -> [DataBlocks -> Blocks]]
      BY <1>1, <1>2 DEF Blocks
    <2>3. alv \in SUBSET (0 .. DSM)
      BY <1>1, <1>3, <1>4, RebuiltType
    <2>4. fcb \in [Files -> FCBs]
      BY <1>1, FreshType
    <2> QED BY <1>1, <1>2, <2>1, <2>2, <2>3, <2>4 DEF TypeOK
  <1>7. NoCrossLinks /\ ExtentsDistinct
    BY <1>3, <1>5 DEF NoCrossLinks, ExtentsDistinct
  <1>8. VectorCoversDirectory
    BY <1>1, <1>2, <1>4, <1>5 DEF VectorCoversDirectory
  <1>9. OpenMapsPublished
    BY <1>1 DEF OpenMapsPublished
  <1> QED BY <1>6, <1>7, <1>8, <1>9 DEF IInv

\* Every call of a cautious program keeps the invariant.
LEMMA InvariantNext ==
    ASSUME Cautious, IInv, [Next]_vars
    PROVE  IInv'
  <1>1. ASSUME NEW f \in Files, Call(f) PROVE IInv'
    <2>1. CASE Open(f)
      BY <2>1, OpenSafe
    <2>2. CASE Make(f)
      BY <2>2, MakeSafe
    <2>3. CASE Close(f)
      BY <2>3, CloseSafe
    <2>4. CASE Delete(f)
      BY <2>4, DeleteSafe
    <2>5. CASE Size(f)
      BY <2>5, SizeSafe
    <2>6. CASE Drop(f)
      BY <2>6, DropSafe
    <2>7. CASE Read(f)
      BY <2>7, ReadSafe
    <2>8. CASE \E v \in Values : Write(f, v)
      BY <2>8, WriteSafe
    <2>9. CASE \E r \in RandomRecs : ReadAt(f, r)
      BY <2>9, ReadAtSafe
    <2>10. CASE \E r \in RandomRecs, v \in Values, zero \in BOOLEAN : WriteAt(f, r, v, zero)
      BY <2>10, WriteAtSafe
    <2>11. CASE \E g \in Files : Rename(f, g)
      BY <2>11, RenameSafe
    <2> QED BY <1>1, <2>1, <2>2, <2>3, <2>4, <2>5, <2>6, <2>7, <2>8, <2>9, <2>10, <2>11 DEF Call
  <1>2. ASSUME NEW d \in Drives, Select(d) \/ WarmBoot(d) PROVE IInv'
    BY <1>2, DriveChangesSafe
  <1>3. CASE ResetDrive \/ ResetDisks
    <2>1. 0 \in Drives
      BY FilesAssumption
    <2> QED BY <1>3, <2>1, DriveChangesSafe
  <1>4. CASE UNCHANGED vars
    <2>1. UNCHANGED <<dir, data, ctx, alv, fcb, open>>
      BY <1>4 DEF vars
    <2>2. /\ fcb \in [Files -> FCBs] /\ ctx \in Drives \cup {NoDrive}
          /\ alv \in SUBSET (0 .. DSM) /\ (ctx # NoDrive => Rebuilt(dir[ctx]) \subseteq alv)
      BY DEF IInv, TypeOK, VectorCoversDirectory
    <2> QED BY <2>1, <2>2, ContextSafe
  <1> QED BY <1>1, <1>2, <1>3, <1>4 DEF Next

-----------------------------------------------------------------------------
(* The theorems: what holds for cautious programs, whatever the sizes of   *)
(* the drives, the number of files and the order of the calls.             *)

\* The invariant always holds.
LEMMA InvariantAlways ==
    ASSUME Cautious
    PROVE  Spec => []IInv
  <1>1. Init => IInv
    BY InvariantInit
  <1>2. IInv /\ [Next]_vars => IInv'
    BY InvariantNext
  <1> QED BY <1>1, <1>2, PTL DEF Spec

\* The position fields, maps and vectors stay in their ranges.
THEOREM TypeCorrect ==
    ASSUME Cautious
    PROVE  Spec => []TypeOK
  <1>1. IInv => TypeOK
    BY DEF IInv
  <1> QED BY <1>1, InvariantAlways, PTL

\* No block of a drive has two owners, although one vector serves all drives
\* (UB_CONTEXT, UB_ALFREE).
THEOREM BlocksHaveOneOwner ==
    ASSUME Cautious
    PROVE  Spec => []NoCrossLinks
  <1>1. IInv => NoCrossLinks
    BY DEF IInv
  <1> QED BY <1>1, InvariantAlways, PTL

\* The vector of the active drive never shows an owned block as free.
THEOREM VectorIsSafe ==
    ASSUME Cautious
    PROVE  Spec => []VectorCoversDirectory
  <1>1. IInv => VectorCoversDirectory
    BY DEF IInv
  <1> QED BY <1>1, InvariantAlways, PTL

\* Every block an open file has is in the directory (UB_WALLOC publishes it
\* before the transfer), whatever drives are logged in meanwhile.
THEOREM OpenFilesKeepTheirBlocks ==
    ASSUME Cautious
    PROVE  Spec => []OpenMapsPublished
  <1>1. IInv => OpenMapsPublished
    BY DEF IInv
  <1> QED BY <1>1, InvariantAlways, PTL

\* No extent group of a file has two entries (UB_MAKE, UB_EXTENT).
THEOREM ExtentsAreUnique ==
    ASSUME Cautious
    PROVE  Spec => []ExtentsDistinct
  <1>1. IInv => ExtentsDistinct
    BY DEF IInv
  <1> QED BY <1>1, InvariantAlways, PTL

-----------------------------------------------------------------------------
(* The refinement of RecordFiles, for EXM = 0 (one extent in an entry).    *)
(* First the numbers of records.                                           *)

\* The two directions of UB_RDECODE and UB_EXTREC.
LEMMA NumberExact ==
    ASSUME NEW s \in Modules, NEW x \in Extents, NEW c \in 0 .. RPE - 1
    PROVE  /\ ExtRec(s, x, c) \in Records
           /\ Decode(ExtRec(s, x, c)) = [ex |-> x, s2 |-> s, cr |-> c]
  <1> DEFINE r == ExtRec(s, x, c)
             q == Decode(r)
  <1>1. /\ s \in Nat /\ x \in Nat /\ c \in Nat /\ s <= NS2 - 1 /\ x < NEX /\ c < RPE
        /\ NS2 \in Nat /\ NEX \in Nat /\ RPE \in Nat /\ NS2 - 1 \in Nat
    BY GeometryAssumption, SMT DEF Modules, Extents
  <1>2. s * NEX \in Nat /\ s * NEX <= (NS2 - 1) * NEX /\ (NS2 - 1) * NEX = NS2 * NEX - NEX
        /\ NS2 * NEX \in Nat
    <2>1. s * NEX <= (NS2 - 1) * NEX
      BY <1>1, Monotone
    <2>2. (NS2 - 1) * NEX = NS2 * NEX - NEX
      BY <1>1, SMT
    <2> QED BY <1>1, <2>1, <2>2, MulNat
  <1>3. s * NEX + x \in Nat /\ s * NEX + x + 1 <= NS2 * NEX /\ s * NEX + x + 1 \in Nat
    BY <1>1, <1>2, SMT
  <1>4. (s * NEX + x + 1) * RPE <= NS2 * NEX * RPE
    BY <1>1, <1>2, <1>3, Monotone
  <1>5. (s * NEX + x + 1) * RPE = (s * NEX + x) * RPE + RPE
    BY <1>1, <1>3, SMT
  <1>6. (s * NEX + x) * RPE \in Nat /\ NS2 * NEX * RPE \in Nat
    BY <1>1, <1>2, <1>3, MulNat
  <1>7. r \in Records
    BY <1>1, <1>4, <1>5, <1>6, SMT DEF ExtRec, Records
  <1>8. /\ q = [ex |-> q.ex, s2 |-> q.s2, cr |-> q.cr]
        /\ q.ex \in Extents /\ q.s2 \in Modules /\ q.cr \in 0 .. RPE - 1
        /\ ExtRec(q.s2, q.ex, q.cr) = r
    <2> HIDE DEF r
    <2>1. q \in [ex : Extents, s2 : Modules, cr : 0 .. RPE - 1]
          /\ ExtRec(q.s2, q.ex, q.cr) = r
      BY <1>7, DecodeExact
    <2> HIDE DEF q
    <2> QED BY <2>1
  <1> HIDE DEF q
  <1>9. q.ex \in Nat /\ q.s2 \in Nat /\ q.cr \in Nat /\ q.ex < NEX /\ q.cr < RPE
    BY <1>1, <1>8, SMT DEF Extents, Modules
  <1>10. q.s2 * NEX + q.ex \in Nat
    <2>1. q.s2 * NEX \in Nat
      BY <1>1, <1>9, MulNat
    <2> QED BY <1>9, <2>1, SMT
  <1>11. s * NEX + x = q.s2 * NEX + q.ex /\ c = q.cr
    <2>1. (s * NEX + x) * RPE + c = (q.s2 * NEX + q.ex) * RPE + q.cr
      BY <1>8 DEF ExtRec
    <2> DEFINE k == s * NEX + x
               l == q.s2 * NEX + q.ex
    <2>2. k \in Nat /\ l \in Nat /\ k * RPE + c = l * RPE + q.cr
      BY <1>3, <1>10, <2>1
    <2> HIDE DEF k, l
    <2>3. k = l /\ c = q.cr
      BY <1>1, <1>9, <2>2, SameQuotient
    <2> QED BY <2>3 DEF k, l
  <1>12. s = q.s2 /\ x = q.ex
    BY <1>1, <1>9, <1>11, SameQuotient
  <1> QED BY <1>7, <1>8, <1>11, <1>12 DEF q

\* The record at the end of an extent is the first of the next one; after
\* the last extent of all it is beyond the largest file.
LEMMA NumberAfter ==
    ASSUME NEW s \in Modules, NEW x \in Extents
    PROVE  LET to == NextExtent(s, x)
           IN  IF to.s2 = NS2 THEN ExtRec(s, x, RPE) \notin Records
                              ELSE ExtRec(s, x, RPE) = ExtRec(to.s2, to.ex, 0)
  <1> DEFINE to == NextExtent(s, x)
             k == s * NEX + x
  <1>1. /\ s \in Nat /\ x \in Nat /\ s <= NS2 - 1 /\ x < NEX
        /\ NS2 \in Nat /\ NEX \in Nat /\ RPE \in Nat
    BY GeometryAssumption, SMT DEF Modules, Extents
  <1>2. s * NEX \in Nat /\ (s + 1) * NEX = s * NEX + NEX /\ k \in Nat
    <2>1. s * NEX \in Nat
      BY <1>1, MulNat
    <2>2. (s + 1) * NEX = s * NEX + NEX
      BY <1>1, SMT
    <2> QED BY <1>1, <2>1, <2>2, SMT
  <1>3. to.s2 * NEX + to.ex = k + 1
    <2>1. CASE x + 1 < NEX
      <3>1. to.s2 = s /\ to.ex = x + 1
        BY <2>1 DEF NextExtent
      <3> HIDE DEF to
      <3> QED BY <1>1, <1>2, <3>1, SMT
    <2>2. CASE ~ (x + 1 < NEX)
      <3>1. to.s2 = s + 1 /\ to.ex = 0 /\ x + 1 = NEX
        BY <1>1, <2>2, SMT DEF NextExtent
      <3> HIDE DEF to
      <3> QED BY <1>1, <1>2, <3>1, SMT
    <2> QED BY <2>1, <2>2
  <1>4. ExtRec(s, x, RPE) = (k + 1) * RPE
    <2> HIDE DEF k
    <2>1. k * RPE + RPE = (k + 1) * RPE
      BY <1>1, <1>2, SMT
    <2> QED BY <2>1 DEF ExtRec, k
  <1>5. CASE to.s2 = NS2
    <2>1. to.ex \in Nat
      BY NextInRange, SMT DEF Extents
    <2>2. NS2 * NEX \in Nat /\ NS2 * NEX <= k + 1
      <3>1. NS2 * NEX \in Nat
        BY <1>1, MulNat
      <3> HIDE DEF to, k
      <3> QED BY <1>2, <1>3, <1>5, <2>1, <3>1, SMT
    <2>3. NS2 * NEX * RPE <= (k + 1) * RPE /\ NS2 * NEX * RPE \in Nat
      <3>1. k + 1 \in Nat
        BY <1>2, SMT
      <3> QED BY <1>1, <2>2, <3>1, Monotone, MulNat
    <2>4. (k + 1) * RPE \in Nat
      <3>1. k + 1 \in Nat
        BY <1>2, SMT
      <3> QED BY <1>1, <3>1, MulNat
    <2>5. ExtRec(s, x, RPE) \notin Records
      <3> HIDE DEF k
      <3> QED BY <1>4, <2>3, <2>4, SMT DEF Records
    <2> QED BY <1>5, <2>5
  <1>6. CASE to.s2 # NS2
    <2>1. ExtRec(to.s2, to.ex, 0) = (k + 1) * RPE
      <3>1. (k + 1) * RPE \in Nat
        <4>1. k + 1 \in Nat
          BY <1>2, SMT
        <4> QED BY <1>1, <4>1, MulNat
      <3> HIDE DEF to, k
      <3> QED BY <1>3, <3>1, SMT DEF ExtRec
    <2> QED BY <1>4, <1>6, <2>1
  <1> QED BY <1>5, <1>6

\* The element of the map and the place in the block of a record, and
\* whether FCB or entry e has a record.
Spot(r) == MapIndex(Decode(r).ex, Decode(r).cr)
Place(r) == BlockOffset(Decode(r).ex, Decode(r).cr)
OfExtent(e, r) == e.ex = Decode(r).ex /\ e.s2 = Decode(r).s2
Has(e, r) == OfExtent(e, r) /\ Decode(r).cr < e.rc /\ e.map[Spot(r)] # NoBlock
Content(e, dat, r) == dat[e.map[Spot(r)]][Place(r)]

SavedIn(dd, dat, nm, r, v) ==
    \E i \in Slots : dd[i].name = nm /\ Has(dd[i], r) /\ v = Content(dd[i], dat, r)
SeenIn(dd, dat, nm, c, r, v) ==
    IF OfExtent(c, r) THEN Has(c, r) /\ v = Content(c, dat, r) ELSE SavedIn(dd, dat, nm, r, v)

\* FCB or entry e shows pair p of a record and its contents.
Exhibits(d, e, p) == \E r \in Records : Has(e, r) /\ p = <<r, Content(e, data[d], r)>>

\* The position of a record is in range.
LEMMA DecodeType ==
    ASSUME NEW r \in Records
    PROVE  /\ Decode(r).ex \in Extents /\ Decode(r).s2 \in Modules
           /\ Decode(r).cr \in 0 .. RPE - 1 /\ Decode(r).cr \in Nat /\ Decode(r).cr < RPE
           /\ Spot(r) \in Indexes /\ Place(r) \in 0 .. BLK - 1
           /\ ExtRec(Decode(r).s2, Decode(r).ex, Decode(r).cr) = r
  <1> DEFINE q == Decode(r)
  <1>1. q \in [ex : Extents, s2 : Modules, cr : 0 .. RPE - 1]
    BY DecodeExact
  <1>2. q.ex \in Extents /\ q.s2 \in Modules /\ q.cr \in 0 .. RPE - 1
    <2> HIDE DEF q
    <2> QED BY <1>1
  <1>3. q.cr \in Nat /\ q.cr < RPE
    <2> HIDE DEF q
    <2> QED BY <1>2, GeometryAssumption, SMT
  <1>4. Spot(r) \in Indexes /\ Place(r) \in 0 .. BLK - 1
    BY <1>2, IndexInRange DEF Spot, Place
  <1> QED BY <1>2, <1>3, <1>4, DecodeExact

\* The records that one extent shows.
LEMMA ShownRecords ==
    ASSUME NEW d, NEW e, e.ex \in Extents, e.s2 \in Modules, e.rc \in 0 .. RPE, NEW p
    PROVE  p \in Shown(d, e.ex, e.s2, e.rc, e.map) <=> Exhibits(d, e, p)
  <1>1. PICK map : e.map = map
    OBVIOUS
  <1>2. PICK ex \in Extents, s2 \in Modules, rc \in 0 .. RPE : e.ex = ex /\ e.s2 = s2 /\ e.rc = rc
    OBVIOUS
  <1>3. ASSUME NEW c \in 0 .. rc - 1
        PROVE  /\ ExtRec(s2, ex, c) \in Records
               /\ Decode(ExtRec(s2, ex, c)) = [ex |-> ex, s2 |-> s2, cr |-> c] /\ c < rc
    <2>1. c \in 0 .. RPE - 1 /\ c < rc
      BY GeometryAssumption, SMT
    <2> QED BY <2>1, NumberExact
  <1>4. ASSUME p \in Shown(d, ex, s2, rc, map)
        PROVE  \E r \in Records : Has(e, r) /\ p = <<r, Content(e, data[d], r)>>
    <2>1. PICK c \in 0 .. rc - 1 : map[MapIndex(ex, c)] # NoBlock
                 /\ p = <<ExtRec(s2, ex, c), data[d][map[MapIndex(ex, c)]][BlockOffset(ex, c)]>>
      BY <1>4 DEF Shown
    <2>2. PICK r \in Records : r = ExtRec(s2, ex, c)
      BY <1>3
    <2>3. Decode(r).ex = ex /\ Decode(r).s2 = s2 /\ Decode(r).cr = c /\ c < rc
      BY <1>3, <2>2
    <2> QED BY <1>1, <1>2, <2>1, <2>2, <2>3 DEF Has, OfExtent, Content, Spot, Place
  <1>5. ASSUME NEW r \in Records, Has(e, r), p = <<r, Content(e, data[d], r)>>
        PROVE  p \in Shown(d, ex, s2, rc, map)
    <2> DEFINE c == Decode(r).cr
    <2>1. Decode(r).ex = ex /\ Decode(r).s2 = s2 /\ c < rc /\ c \in Nat
          /\ map[MapIndex(ex, c)] # NoBlock
      BY <1>1, <1>2, <1>5, DecodeType DEF Has, OfExtent, Spot
    <2>2. c \in 0 .. rc - 1
      <3> HIDE DEF c
      <3> QED BY <2>1, GeometryAssumption, SMT
    <2>3. ExtRec(s2, ex, c) = r
      BY <2>1, DecodeType
    <2>4. Content(e, data[d], r) = data[d][map[MapIndex(ex, c)]][BlockOffset(ex, c)]
      BY <1>1, <1>2, <2>1 DEF Content, Spot, Place
    <2> HIDE DEF c
    <2>5. c \in {k \in 0 .. rc - 1 : map[MapIndex(ex, k)] # NoBlock}
      BY <2>1, <2>2
    <2>6. p = <<ExtRec(s2, ex, c), data[d][map[MapIndex(ex, c)]][BlockOffset(ex, c)]>>
      BY <1>5, <2>3, <2>4
    <2> QED BY <2>5, <2>6 DEF Shown
  <1> QED BY <1>1, <1>2, <1>4, <1>5 DEF Exhibits

-----------------------------------------------------------------------------
(* What is saved of a file, for a fresh Open, and what its program sees.   *)
(* Current(m): the FCB shows all that is saved; Settled(m): and nothing    *)
(* else.  The lemmas of the routines follow a record through them.         *)

\* What a fresh Open would show of record r of the file of a call, and what
\* its program sees.
Saved(m, r, v) == SavedIn(m.dir, m.data, m.name, r, v)
Seen(m, r, v)  == SeenIn(m.dir, m.data, m.name, m.fcb, r, v)

SavedSame(m, n) == \A r \in Records : \A v : Saved(n, r, v) <=> Saved(m, r, v)
SeenSame(m, n)  == \A r \in Records : \A v : Seen(n, r, v) <=> Seen(m, r, v)
Published(m, n) == \A r \in Records : \A v : Saved(n, r, v) <=> Seen(m, r, v)

\* The FCB counts no fewer records than its entry, and as many if it is
\* clean.
Current(m) ==
    \A i \in Found(m) : /\ m.dir[i].rc <= m.fcb.rc
                        /\ m.fcb.clean => m.dir[i].rc = m.fcb.rc

\* Nothing in the FCB is missing in its entry.
Settled(m) == m.fcb.clean \/ m.fcb.rc = 0

\* A call changes no entry and no block of another file, and adds entries to
\* its own file only.
Apart(m, n) ==
    /\ n.name = m.name
    /\ \A i \in Slots :
        /\ m.dir[i].name \notin {m.name, "none"} =>
             /\ n.dir[i] = m.dir[i]
             /\ \A q \in Indexes : m.dir[i].map[q] # NoBlock =>
                    n.data[m.dir[i].map[q]] = m.data[m.dir[i].map[q]]
        /\ m.dir[i].name = m.name =>
             n.dir[i].name = m.name /\ n.dir[i].ex = m.dir[i].ex /\ n.dir[i].s2 = m.dir[i].s2
        /\ m.dir[i].name = "none" => n.dir[i].name \in {m.name, "none"}

\* Two calls that leave other files alone do so together.
LEMMA ApartTransitive ==
    ASSUME NEW k, NEW m, NEW n, Apart(k, m), Apart(m, n)
    PROVE  Apart(k, n)
  <1>1. n.name = k.name /\ m.name = k.name
    BY DEF Apart
  <1> QED BY <1>1 DEF Apart

\* Without a change of directory and data, other files are left alone.
LEMMA ApartSame ==
    ASSUME NEW m, NEW n, n.dir = m.dir, n.data = m.data, n.name = m.name
    PROVE  Apart(m, n) /\ SavedSame(m, n)
           /\ (n.fcb.ex = m.fcb.ex /\ n.fcb.s2 = m.fcb.s2 /\ n.fcb.rc = m.fcb.rc
               /\ n.fcb.map = m.fcb.map => SeenSame(m, n))
  BY DEF Apart, SavedSame, SeenSame, Saved, Seen, SavedIn, SeenIn, Has, OfExtent, Content

\* With one extent in an entry, an extent is its own group.
LEMMA GroupOfOne ==
    ASSUME EXM = 0, NEW x \in Extents
    PROVE  Group(x) = x
  BY SMT DEF Group, Extents

\* The entry that the iterator finds has the FCB's extent.
LEMMA FoundExtent ==
    ASSUME EXM = 0, NEW m, Sound(m), NEW i \in Slots
    PROVE  i \in Found(m) <=> m.dir[i].name = m.name /\ m.dir[i].ex = m.fcb.ex /\ m.dir[i].s2 = m.fcb.s2
  <1>1. m.fcb.ex \in Extents /\ m.dir \in [Slots -> Entries \cup {NoEntry}] /\ m.name \in Names
    BY FCBType DEF Sound, Calls
  <1>2. CASE m.dir[i].name = m.name
    <2>1. m.dir[i] \in Entries
      BY <1>1, <1>2, LiveIffNamed, FilesAssumption
    <2>2. m.dir[i].ex \in Extents
      BY <2>1 DEF Entries
    <2>3. Group(m.dir[i].ex) = m.dir[i].ex /\ Group(m.fcb.ex) = m.fcb.ex
      BY <1>1, <2>2, GroupOfOne
    <2> QED BY <1>2, <2>3 DEF Found, Hits
  <1>3. CASE m.dir[i].name # m.name
    BY <1>3 DEF Found, Hits
  <1> QED BY <1>2, <1>3

\* At most one entry of a file is of the extent of a record.
LEMMA OneEntry ==
    ASSUME NEW m, Sound(m), NEW r, NEW i \in Slots, NEW j \in Slots,
           m.dir[i].name = m.name, m.dir[j].name = m.name,
           OfExtent(m.dir[i], r), OfExtent(m.dir[j], r)
    PROVE  i = j
  <1>1. m.dir \in [Slots -> Entries \cup {NoEntry}] /\ m.name \in Names
    BY DEF Sound, Calls
  <1>2. i \in Live(m.dir)
    BY <1>1, LiveIffNamed, FilesAssumption
  <1>3. Hits(m.dir, m.dir[i].name, m.dir[i].ex, m.dir[i].s2) = {i}
    BY <1>2 DEF Sound, Distinct
  <1>4. j \in Hits(m.dir, m.dir[i].name, m.dir[i].ex, m.dir[i].s2)
    BY DEF Hits, OfExtent
  <1> QED BY <1>3, <1>4

\* The entry the FCB is at.
LEMMA AtEntry ==
    ASSUME EXM = 0, NEW m, Sound(m), Bound(m)
    PROVE  /\ At(m) \in Slots /\ At(m) \in Found(m) /\ Found(m) = {At(m)}
           /\ m.dir[At(m)] \in Entries /\ m.dir[At(m)].name = m.name
           /\ m.dir[At(m)].ex = m.fcb.ex /\ m.dir[At(m)].s2 = m.fcb.s2
           /\ m.dir[At(m)].map = m.fcb.map
           /\ m.dir[At(m)].rc \in Nat /\ m.fcb.rc \in Nat
           /\ Current(m) => /\ m.dir[At(m)].rc <= m.fcb.rc
                            /\ m.fcb.clean => m.dir[At(m)].rc = m.fcb.rc
  <1>1. /\ Found(m) # {} /\ m.dir[At(m)].map = m.fcb.map /\ At(m) \in Slots
        /\ Found(m) = {At(m)} /\ m.dir[At(m)] \in Entries
    BY BoundAt, AtHit
  <1>2. m.dir[At(m)].rc \in 0 .. RPE
    BY <1>1 DEF Entries
  <1>3. m.fcb.rc \in 0 .. RPE
    BY FCBType
  <1>4. m.dir[At(m)].rc \in Nat /\ m.fcb.rc \in Nat
    BY <1>2, <1>3, GeometryAssumption, SMT
  <1>5. At(m) \in Found(m)
    BY <1>1
  <1> QED BY <1>1, <1>4, <1>5, FoundExtent DEF Current

\* Whatever a fresh Open would show the program sees too; if the FCB is
\* clean or empty, it sees nothing else.
LEMMA SavedIsSeen ==
    ASSUME EXM = 0, NEW m, Sound(m), Bound(m), Current(m)
    PROVE  /\ \A r \in Records : \A v : Saved(m, r, v) => Seen(m, r, v)
           /\ Settled(m) => \A r \in Records : \A v : Seen(m, r, v) <=> Saved(m, r, v)
  <1> DEFINE i == At(m)
  <1>1. /\ i \in Slots /\ m.dir[i].name = m.name /\ m.dir[i].ex = m.fcb.ex /\ m.dir[i].s2 = m.fcb.s2
        /\ m.dir[i].map = m.fcb.map /\ m.dir[i].rc \in Nat /\ m.fcb.rc \in Nat
        /\ m.dir[i].rc <= m.fcb.rc /\ (m.fcb.clean => m.dir[i].rc = m.fcb.rc)
    BY AtEntry
  <1> HIDE DEF i
  <1>2. ASSUME NEW r \in Records, NEW v, OfExtent(m.fcb, r)
        PROVE  /\ Saved(m, r, v) <=> Has(m.dir[i], r) /\ v = Content(m.dir[i], m.data, r)
               /\ Seen(m, r, v) <=> Has(m.fcb, r) /\ v = Content(m.fcb, m.data, r)
               /\ Content(m.dir[i], m.data, r) = Content(m.fcb, m.data, r)
               /\ Has(m.dir[i], r) => Has(m.fcb, r)
               /\ Settled(m) => (Has(m.dir[i], r) <=> Has(m.fcb, r))
    <2>1. OfExtent(m.dir[i], r)
      BY <1>1, <1>2 DEF OfExtent
    <2>2. Saved(m, r, v) <=> Has(m.dir[i], r) /\ v = Content(m.dir[i], m.data, r)
      BY <1>1, <2>1, OneEntry DEF Saved, SavedIn, Has
    <2>3. Seen(m, r, v) <=> Has(m.fcb, r) /\ v = Content(m.fcb, m.data, r)
      BY <1>2 DEF Seen, SeenIn
    <2>4. Decode(r).cr \in Nat
      BY DecodeType
    <2>5. /\ Decode(r).cr < m.dir[i].rc => Decode(r).cr < m.fcb.rc
          /\ Settled(m) => (Decode(r).cr < m.dir[i].rc <=> Decode(r).cr < m.fcb.rc)
      <3> DEFINE c == Decode(r).cr
      <3>1. c \in Nat
        BY <2>4
      <3> HIDE DEF c
      <3>2. c < m.dir[i].rc => c < m.fcb.rc
        BY <1>1, <3>1, SMT
      <3>3. ASSUME Settled(m) PROVE c < m.dir[i].rc <=> c < m.fcb.rc
        <4>1. CASE m.fcb.clean
          BY <1>1, <4>1
        <4>2. CASE m.fcb.rc = 0
          BY <1>1, <3>1, <4>2, SMT
        <4> QED BY <3>3, <4>1, <4>2 DEF Settled
      <3> QED BY <3>2, <3>3 DEF c
    <2> QED BY <1>1, <1>2, <2>1, <2>2, <2>3, <2>5 DEF Has, Content
  <1>3. ASSUME NEW r \in Records, NEW v, ~OfExtent(m.fcb, r)
        PROVE  Seen(m, r, v) <=> Saved(m, r, v)
    BY <1>3 DEF Seen, SeenIn, Saved
  <1> QED BY <1>2, <1>3

-----------------------------------------------------------------------------
(* UB_CCORE, UB_ACTIVATE, UB_MKFREE and UB_EXTENT publish, or add nothing. *)

\* UB_CCORE makes everything the program sees permanent.
LEMMA CCoreText ==
    ASSUME EXM = 0, NEW m, Sound(m), Bound(m), Current(m), NEW n, n = CCore(m)
    PROVE  /\ Current(n) /\ Settled(n) /\ Apart(m, n) /\ Published(m, n) /\ SeenSame(m, n)
           /\ n.data = m.data /\ n.alv = m.alv
  <1>1. CASE m.fcb.clean
    <2>1. n = m
      BY <1>1 DEF CCore
    <2>2. Settled(m)
      BY <1>1 DEF Settled
    <2> QED BY <2>1, <2>2, SavedIsSeen, ApartSame DEF Published, SeenSame
  <1>2. CASE ~m.fcb.clean
    <2> DEFINE i == At(m)
               e == [m.dir[i] EXCEPT !.ex = m.fcb.ex, !.s2 = m.fcb.s2,
                                     !.rc = m.fcb.rc, !.map = m.fcb.map]
               dd == [m.dir EXCEPT ![i] = e]
               c == [m.fcb EXCEPT !.clean = TRUE]
    <2>1. /\ i \in Slots /\ i \in Found(m) /\ Found(m) = {i} /\ m.dir[i] \in Entries
          /\ m.dir[i].name = m.name /\ m.dir[i].ex = m.fcb.ex /\ m.dir[i].s2 = m.fcb.s2
      BY AtEntry
    <2>2. m \in Calls /\ m.fcb \in FCBs /\ m.dir \in [Slots -> Entries \cup {NoEntry}]
      BY FCBType DEF Sound, Calls
    <2>3. n = [m EXCEPT !.dir = dd, !.fcb = c]
      BY <1>2, <2>1 DEF CCore
    <2>4. /\ e.name = m.dir[i].name /\ e.ex = m.fcb.ex /\ e.s2 = m.fcb.s2 /\ e.rc = m.fcb.rc
          /\ e.map = m.fcb.map
      BY <2>1 DEF Entries
    <2>5. /\ c.ex = m.fcb.ex /\ c.s2 = m.fcb.s2 /\ c.rc = m.fcb.rc /\ c.map = m.fcb.map
          /\ c.clean
      BY <2>2 DEF FCBs
    <2>6. dd[i] = e /\ \A j \in Slots \ {i} : dd[j] = m.dir[j]
      BY <2>1, <2>2
    <2>7. n.dir = dd /\ n.fcb = c /\ n.data = m.data /\ n.alv = m.alv /\ n.name = m.name
      BY <2>2, <2>3 DEF Calls
    <2> HIDE DEF i, e, dd, c
    <2>8. Sound(n) /\ Bound(n)
      BY CCoreSound
    <2>9. Apart(m, n)
      BY <2>1, <2>4, <2>6, <2>7 DEF Apart
    <2>10. Current(n)
      <3>1. i \in Found(n)
        BY <2>1, <2>4, <2>5, <2>6, <2>7, <2>8, FoundExtent
      <3>2. Found(n) = {i}
        BY <2>8, <3>1, OnlyHit
      <3>3. m.fcb.rc <= m.fcb.rc
        BY AtEntry, SMT
      <3> QED BY <2>4, <2>5, <2>6, <2>7, <3>2, <3>3 DEF Current
    <2>11. SeenSame(m, n)
      <3> SUFFICES ASSUME NEW r \in Records, NEW v PROVE Seen(n, r, v) <=> Seen(m, r, v)
        BY DEF SeenSame
      <3>1. CASE OfExtent(m.fcb, r)
        BY <2>5, <2>7, <3>1 DEF Seen, SeenIn, OfExtent, Has, Content
      <3>2. CASE ~OfExtent(m.fcb, r)
        <4>1. ~OfExtent(e, r) /\ ~OfExtent(m.dir[i], r) /\ ~OfExtent(n.fcb, r)
          BY <2>1, <2>4, <2>5, <2>7, <3>2 DEF OfExtent
        <4>2. \A j \in Slots : OfExtent(n.dir[j], r) => j # i /\ n.dir[j] = m.dir[j]
          BY <2>6, <2>7, <4>1
        <4>3. \A j \in Slots : OfExtent(m.dir[j], r) => j # i /\ n.dir[j] = m.dir[j]
          BY <2>6, <2>7, <4>1
        <4>4. SavedIn(n.dir, n.data, n.name, r, v) <=> SavedIn(m.dir, m.data, m.name, r, v)
          BY <2>7, <4>2, <4>3 DEF SavedIn, Has
        <4> QED BY <3>2, <4>1, <4>4 DEF Seen, SeenIn
      <3> QED BY <3>1, <3>2
    <2>12. Settled(n)
      BY <2>5, <2>7 DEF Settled
    <2>13. Published(m, n)
      BY <2>8, <2>10, <2>11, <2>12, SavedIsSeen DEF Published, SeenSame
    <2> QED BY <2>7, <2>9, <2>10, <2>11, <2>12, <2>13
  <1> QED BY <1>1, <1>2

\* UB_ACTIVATE takes the entry's count.
LEMMA ActivateText ==
    ASSUME EXM = 0, NEW m, Sound(m), Found(m) # {}, NEW n, n = Activate(m)
    PROVE  n.dir = m.dir /\ n.data = m.data /\ n.name = m.name /\ Current(n) /\ n.fcb.clean
  <1> DEFINE e == m.dir[At(m)]
             c == [m.fcb EXCEPT !.rc = ActiveRC(e.ex, e.rc, m.fcb.ex),
                                !.map = e.map, !.clean = TRUE]
  <1>1. n = [m EXCEPT !.fcb = c]
    BY DEF Activate
  <1>2. m \in Calls /\ m.fcb \in FCBs
    BY FCBType DEF Sound
  <1>3. At(m) \in Slots /\ Found(m) = {At(m)} /\ e \in Entries /\ e.ex = m.fcb.ex
    BY AtHit, FoundExtent
  <1>4. e.ex \in Nat /\ e.rc \in Nat /\ e.rc <= e.rc
    <2>1. e.ex \in Extents /\ e.rc \in 0 .. RPE
      BY <1>3 DEF Entries
    <2> HIDE DEF e
    <2> QED BY <2>1, GeometryAssumption, SMT DEF Extents
  <1>5. ActiveRC(e.ex, e.rc, m.fcb.ex) = e.rc
    <2> HIDE DEF e
    <2> QED BY <1>3, <1>4, SMT DEF ActiveRC
  <1>6. c.rc = e.rc /\ c.clean /\ c.ex = m.fcb.ex /\ c.s2 = m.fcb.s2
    BY <1>2, <1>5 DEF FCBs
  <1>7. n.dir = m.dir /\ n.data = m.data /\ n.name = m.name /\ n.fcb = c
    BY <1>1, <1>2 DEF Calls
  <1> HIDE DEF c
  <1>8. Found(n) = {At(m)}
    BY <1>3, <1>6, <1>7 DEF Found
  <1> QED BY <1>4, <1>6, <1>7, <1>8 DEF Current

\* UB_MKFREE adds an entry without records.
LEMMA MkFreeText ==
    ASSUME EXM = 0, NEW m, Sound(m), Found(m) = {}, FreeSlots(m) # {}, NEW n, n = MkFree(m)
    PROVE  /\ Apart(m, n) /\ SavedSame(m, n) /\ n.data = m.data
           /\ Current(n) /\ n.fcb.clean /\ n.fcb.rc = 0
  <1> DEFINE i == Min(FreeSlots(m))
             e == [name |-> m.name, ex |-> m.fcb.ex, s2 |-> m.fcb.s2, rc |-> 0, map |-> NoMap]
             dd == [m.dir EXCEPT ![i] = e]
             c == [m.fcb EXCEPT !.rc = 0, !.map = NoMap, !.clean = TRUE]
  <1>1. m \in Calls /\ m.name \in Names /\ m.dir \in [Slots -> Entries \cup {NoEntry}]
        /\ m.fcb \in FCBs
    BY FCBType DEF Sound, Calls
  <1>2. i \in Slots /\ m.dir[i] = NoEntry
    <2>1. FreeSlots(m) \subseteq Nat
      BY FilesAssumption, SMT DEF FreeSlots, Slots
    <2>2. i \in FreeSlots(m)
      BY <2>1, MinIn
    <2> QED BY <2>2 DEF FreeSlots, Live
  <1>3. n = [m EXCEPT !.dir = dd, !.fcb = c]
    BY DEF MkFree
  <1>4. e.name = m.name /\ e.ex = m.fcb.ex /\ e.s2 = m.fcb.s2 /\ e.rc = 0
    OBVIOUS
  <1>5. c.ex = m.fcb.ex /\ c.s2 = m.fcb.s2 /\ c.rc = 0 /\ c.clean
    BY <1>1 DEF FCBs
  <1>6. dd[i] = e /\ \A j \in Slots \ {i} : dd[j] = m.dir[j]
    BY <1>1, <1>2
  <1>7. n.dir = dd /\ n.fcb = c /\ n.data = m.data /\ n.name = m.name
    BY <1>1, <1>3 DEF Calls
  <1>8. m.dir[i].name = "none" /\ m.name # "none"
    BY <1>1, <1>2, FilesAssumption DEF NoEntry
  <1> HIDE DEF i, e, dd, c
  <1>9. Sound(n)
    BY MkFreeSound
  <1>10. Apart(m, n)
    BY <1>2, <1>4, <1>6, <1>7, <1>8 DEF Apart
  <1>11. SavedSame(m, n)
    <2> SUFFICES ASSUME NEW r \in Records, NEW v PROVE Saved(n, r, v) <=> Saved(m, r, v)
      BY DEF SavedSame
    <2>1. ~Has(n.dir[i], r)
      <3>1. Decode(r).cr \in Nat
        BY DecodeType
      <3>2. ~ (Decode(r).cr < 0)
        BY <3>1, SMT
      <3> QED BY <1>4, <1>6, <1>7, <3>2 DEF Has
    <2>2. \A j \in Slots : j # i => n.dir[j] = m.dir[j]
      BY <1>6, <1>7
    <2> QED BY <1>7, <1>8, <2>1, <2>2 DEF Saved, SavedIn
  <1>12. Current(n)
    <2>1. i \in Found(n)
      BY <1>2, <1>4, <1>5, <1>6, <1>7, <1>9, FoundExtent
    <2>2. Found(n) = {i}
      BY <1>9, <2>1, OnlyHit
    <2>3. 0 <= 0
      BY SMT
    <2> QED BY <1>4, <1>5, <1>6, <1>7, <2>2, <2>3 DEF Current
  <1> QED BY <1>5, <1>7, <1>10, <1>11, <1>12

\* UB_EXTENT changes no record of any file; where it succeeds the FCB shows
\* what is in the directory.
LEMMA ExtentText ==
    ASSUME EXM = 0, NEW m, Sound(m), m.code = 0, NEW w \in BOOLEAN, NEW n, n = Extent(m, w)
    PROVE  /\ Apart(m, n) /\ SavedSame(m, n) /\ n.data = m.data
           /\ n.code = 0 => Current(n) /\ n.fcb.clean
           /\ n.code # 0 => n.dir = m.dir
           /\ n.code # 0 /\ w => n.code \in {2, 5}
           /\ n.code # 0 /\ ~w => n.code = 255 /\ Found(m) = {}
  <1>1. CASE Found(m) # {}
    <2>1. n = Activate(m)
      BY <1>1 DEF Extent
    <2>2. n.code = 0
      BY <1>1, <2>1, ActivateSound
    <2> QED BY <1>1, <2>1, <2>2, ActivateText, ApartSame
  <1>2. ASSUME Found(m) = {}, ~(w /\ FreeBlocks(m) # {} /\ FreeSlots(m) # {})
        PROVE  /\ Apart(m, n) /\ SavedSame(m, n) /\ n.data = m.data /\ n.dir = m.dir /\ n.code # 0
               /\ w => n.code \in {2, 5}
               /\ ~w => n.code = 255
    <2>1. PICK c \in {2, 5, 255} : n = Carry(m, c) /\ (w => c \in {2, 5}) /\ (~w => c = 255)
      BY <1>2 DEF Extent, MkFree
    <2>2. c \in Nat /\ c # 0
      BY SMT
    <2>3. n.dir = m.dir /\ n.data = m.data /\ n.name = m.name /\ n.code = c
      BY <2>1, <2>2, CarrySound DEF SameDrive
    <2> QED BY <2>1, <2>2, <2>3, ApartSame
  <1>3. ASSUME Found(m) = {}, w, FreeBlocks(m) # {}, FreeSlots(m) # {}
        PROVE  Apart(m, n) /\ SavedSame(m, n) /\ n.data = m.data /\ Current(n) /\ n.fcb.clean
               /\ n.code = 0
    <2>1. n = MkFree(m)
      BY <1>3 DEF Extent
    <2>2. n.code = 0
      BY <1>3, <2>1, MkFreeSound
    <2> QED BY <1>3, <2>1, <2>2, MkFreeText
  <1> QED BY <1>1, <1>2, <1>3

-----------------------------------------------------------------------------
(* UB_NEXTEX and UB_READCORE.                                              *)

\* The record a sequential call addresses.
Target(m) == ExtRec(m.fcb.s2, m.fcb.ex, m.fcb.cr)

\* A file has no records in an extent that the iterator does not find.
LEMMA NoExtentNoRecord ==
    ASSUME EXM = 0, NEW m, Sound(m), Found(m) = {}, NEW r \in Records, OfExtent(m.fcb, r), NEW v
    PROVE  ~Saved(m, r, v)
  <1>1. \A i \in Slots : ~ (m.dir[i].name = m.name /\ OfExtent(m.dir[i], r))
    BY FoundExtent DEF OfExtent
  <1> QED BY <1>1 DEF Saved, SavedIn, Has

\* The address of a record within its extent.
LEMMA TargetRecord ==
    ASSUME NEW m, Sound(m), m.fcb.cr < RPE
    PROVE  /\ Target(m) \in Records /\ OfExtent(m.fcb, Target(m))
           /\ Decode(Target(m)).cr = m.fcb.cr
           /\ Spot(Target(m)) = Index(m) /\ Place(Target(m)) = Offset(m)
  <1>1. m.fcb.cr \in 0 .. RPE - 1 /\ m.fcb.ex \in Extents /\ m.fcb.s2 \in Modules
    BY FCBType, GeometryAssumption, SMT
  <1>2. /\ Target(m) \in Records
        /\ Decode(Target(m)) = [ex |-> m.fcb.ex, s2 |-> m.fcb.s2, cr |-> m.fcb.cr]
    BY <1>1, NumberExact DEF Target
  <1> QED BY <1>2 DEF OfExtent, Spot, Place, Index, Offset

\* UB_NXRETURN after UB_NEXTEX has closed the extent: everything is
\* permanent, and the FCB is as current as before.
LEMMA GoBackText ==
    ASSUME EXM = 0, NEW k, Sound(k), Bound(k), Current(k), Settled(k),
           NEW next, Sound(next), SameDrive(k, next),
           next.fcb.rc = k.fcb.rc, next.fcb.map = k.fcb.map,
           NEW c \in FCBs, c.ex = k.fcb.ex, c.s2 = k.fcb.s2, NEW n, n = GoBack(next, c)
    PROVE  /\ Apart(k, n) /\ Current(n) /\ SeenSame(k, n) /\ SavedSame(k, n)
           /\ n.code = next.code
  <1> DEFINE b == [next.fcb EXCEPT !.ex = c.ex, !.s2 = c.s2, !.clean = c.clean, !.cr = RPE]
  <1>1. next.fcb \in FCBs /\ next \in Calls
    BY FCBType DEF Sound
  <1>2. b.ex = k.fcb.ex /\ b.s2 = k.fcb.s2 /\ b.rc = k.fcb.rc /\ b.map = k.fcb.map
    BY <1>1 DEF FCBs
  <1>3. n = [next EXCEPT !.fcb = b]
    BY DEF GoBack
  <1> HIDE DEF b
  <1>4. n.dir = k.dir /\ n.data = k.data /\ n.name = k.name /\ n.fcb = b /\ n.code = next.code
    BY <1>1, <1>3 DEF Calls, SameDrive
  <1>5. Apart(k, n) /\ SeenSame(k, n) /\ SavedSame(k, n)
    BY <1>2, <1>4, ApartSame
  <1>6. Current(n)
    <2>1. Found(n) = {At(k)} /\ Found(k) = {At(k)}
      BY <1>2, <1>4, AtEntry DEF Found
    <2>2. k.dir[At(k)].rc = k.fcb.rc /\ k.fcb.rc <= k.fcb.rc
      <3>1. /\ k.dir[At(k)].rc \in Nat /\ k.fcb.rc \in Nat /\ k.dir[At(k)].rc <= k.fcb.rc
            /\ k.fcb.clean => k.dir[At(k)].rc = k.fcb.rc
        BY AtEntry
      <3>2. k.fcb.rc <= k.fcb.rc
        BY <3>1, SMT
      <3>3. CASE k.fcb.clean
        BY <3>1, <3>2, <3>3
      <3>4. CASE k.fcb.rc = 0
        BY <3>1, <3>4, SMT
      <3> QED BY <3>2, <3>3, <3>4 DEF Settled
    <2> QED BY <1>2, <1>4, <2>1, <2>2 DEF Current
  <1> QED BY <1>4, <1>5, <1>6

\* UB_NEXTEX: what the program sees stays and becomes permanent, and where
\* no next extent is found nothing was written there.
LEMMA NextExText ==
    ASSUME EXM = 0, NEW m, AtWork(m), Current(m), m.fcb.cr = RPE,
           NEW w \in BOOLEAN, w \/ Settled(m), NEW n, n = NextEx(m, w)
    PROVE  /\ Apart(m, n) /\ Current(n) /\ SeenSame(m, n) /\ Published(m, n)
           /\ n.code = 0 => Settled(n) /\ Target(n) = Target(m)
           /\ n.code # 0 /\ w => n.code \in {2, 5}
           /\ n.code # 0 /\ ~w /\ Target(m) \in Records => \A v : ~Seen(m, Target(m), v)
  <1> DEFINE k == IF w THEN CCore(m) ELSE m
             to == NextExtent(m.fcb.s2, m.fcb.ex)
             next == IF to.s2 = NS2 THEN Carry(k, 5) ELSE Extent(MoveTo(k, to), w)
  <1>1. Sound(m) /\ Bound(m) /\ m.code = 0 /\ ~m.quit
    BY DEF AtWork
  <1>2. /\ Sound(k) /\ Bound(k) /\ Stays(m, k) /\ k.code = 0 /\ ~k.quit
        /\ k.fcb.rc = m.fcb.rc /\ k.fcb.map = m.fcb.map
        /\ Current(k) /\ Settled(k) /\ Apart(m, k) /\ Published(m, k) /\ SeenSame(m, k)
        /\ ~w => k = m
    <2>1. CASE w
      BY <1>1, <2>1, CCoreSound, CCoreText
    <2>2. CASE ~w
      BY <1>1, <2>2, SavedIsSeen, ApartSame DEF Stays, Published, SeenSame
    <2> QED BY <2>1, <2>2
  <1>3. n = IF next.code = 0 THEN next ELSE GoBack(next, m.fcb)
    BY <1>2 DEF NextEx
  <1>4. to.ex \in Extents /\ (to.s2 # NS2 => to.s2 \in Modules)
    BY <1>1, NextInRange, FCBType
  <1>5. IF to.s2 = NS2 THEN Target(m) \notin Records ELSE Target(m) = ExtRec(to.s2, to.ex, 0)
    BY <1>1, NumberAfter, FCBType DEF Target
  <1>6. next = IF to.s2 = NS2 THEN Carry(k, 5) ELSE Extent(MoveTo(k, to), w)
    OBVIOUS
  <1>7. m.fcb \in FCBs /\ m.fcb.ex = k.fcb.ex /\ m.fcb.s2 = k.fcb.s2
    BY <1>1, <1>2, FCBType DEF Stays
  <1>8. Bound(n) /\ Sound(n)
    <2>1. n = NextEx(m, TRUE) \/ n = NextEx(m, FALSE)
      <3>1. CASE w = TRUE
        BY <3>1
      <3>2. CASE w = FALSE
        BY <3>2
      <3> QED BY <3>1, <3>2
    <2> QED BY <2>1, NextExSound
  <1> HIDE DEF k, to, next
  <1>9. ASSUME next.code # 0, Sound(next), SameDrive(k, next),
               next.fcb.rc = k.fcb.rc, next.fcb.map = k.fcb.map
        PROVE  Apart(m, n) /\ Current(n) /\ SeenSame(m, n) /\ Published(m, n)
               /\ n.code = next.code
    <2>1. n = GoBack(next, m.fcb)
      BY <1>3, <1>9
    <2>2. Apart(k, n) /\ Current(n) /\ SeenSame(k, n) /\ SavedSame(k, n) /\ n.code = next.code
      BY <1>2, <1>7, <1>9, <2>1, GoBackText
    <2> QED BY <1>2, <2>2, ApartTransitive DEF SeenSame, SavedSame, Published
  <1>10. CASE to.s2 = NS2
    <2>1. next = Carry(k, 5) /\ 5 \in Nat /\ 5 # 0
      BY <1>6, <1>10, SMT
    <2>2. Sound(next) /\ SameDrive(k, next) /\ next.fcb = k.fcb /\ next.code = 5
      BY <1>2, <2>1, CarrySound
    <2>3. /\ Apart(m, n) /\ Current(n) /\ SeenSame(m, n) /\ Published(m, n) /\ n.code = 5
      BY <1>9, <2>1, <2>2
    <2> QED BY <1>5, <1>10, <2>1, <2>3
  <1>11. CASE to.s2 # NS2
    <2> DEFINE there == MoveTo(k, to)
    <2>1. /\ Sound(there) /\ SameDrive(k, there) /\ there.fcb.map = k.fcb.map /\ there.fcb.cr = 0
          /\ there.code = 0 /\ there.quit = k.quit
      BY <1>2, <1>4, <1>11, MoveToSound
    <2>2. there.fcb.rc = k.fcb.rc /\ there.fcb.ex = to.ex /\ there.fcb.s2 = to.s2
      <3>1. k \in Calls /\ k.fcb \in FCBs
        BY <1>2, FCBType DEF Sound
      <3> QED BY <3>1 DEF MoveTo, Calls, FCBs
    <2>3. next = Extent(there, w)
      BY <1>6, <1>11
    <2> HIDE DEF there
    <2>4. Apart(k, there) /\ SavedSame(k, there)
      BY <2>1, ApartSame DEF SameDrive
    <2>5. /\ Apart(there, next) /\ SavedSame(there, next)
          /\ next.code = 0 => Current(next) /\ next.fcb.clean
          /\ next.code # 0 /\ w => next.code \in {2, 5}
          /\ next.code # 0 /\ ~w => next.code = 255 /\ Found(there) = {}
      BY <2>1, <2>3, ExtentText
    <2>6. /\ Sound(next) /\ Stays(there, next)
          /\ next.code # 0 => next.fcb = there.fcb /\ SameDrive(there, next)
      <3>1. next = Extent(there, TRUE) \/ next = Extent(there, FALSE)
        <4>1. CASE w = TRUE
          BY <2>3, <4>1
        <4>2. CASE w = FALSE
          BY <2>3, <4>2
        <4> QED BY <4>1, <4>2
      <3> QED BY <2>1, <3>1, ExtentSound
    <2>7. CASE next.code = 0
      <3>1. n = next
        BY <1>3, <2>7
      <3>2. Apart(m, n) /\ Published(m, n) /\ Current(n) /\ Settled(n)
        BY <1>2, <2>4, <2>5, <2>7, <3>1, ApartTransitive DEF SavedSame, Published, Settled
      <3>3. SeenSame(m, n)
        BY <1>8, <3>2, SavedIsSeen DEF Published, SeenSame
      <3>4. Target(n) = Target(m)
        BY <1>5, <1>11, <2>1, <2>2, <2>6, <3>1 DEF Stays, Target
      <3> QED BY <2>7, <3>1, <3>2, <3>3, <3>4
    <2>8. CASE next.code # 0
      <3>1. /\ Apart(m, n) /\ Current(n) /\ SeenSame(m, n) /\ Published(m, n) /\ n.code = next.code
        BY <1>9, <2>1, <2>2, <2>6, <2>8 DEF SameDrive
      <3>2. ASSUME ~w, NEW v PROVE ~Seen(m, Target(m), v)
        <4>1. Target(there) = Target(m) /\ there.fcb.cr < RPE
          <5>1. 0 < RPE
            BY GeometryAssumption, SMT
          <5> QED BY <1>5, <1>11, <2>1, <2>2, <5>1 DEF Target
        <4>2. Target(m) \in Records /\ OfExtent(there.fcb, Target(m))
          BY <2>1, <4>1, TargetRecord
        <4>3. ~Saved(there, Target(m), v)
          BY <2>1, <2>5, <2>8, <3>2, <4>2, NoExtentNoRecord
        <4> QED BY <1>2, <2>4, <4>2, <4>3 DEF SavedSame, Published
      <3> QED BY <2>5, <2>8, <3>1, <3>2
    <2> QED BY <2>7, <2>8
  <1> QED BY <1>10, <1>11

SavedGrows(m, n) == \A r \in Records : \A v : Saved(m, r, v) => Saved(n, r, v)

\* A new result or CR leaves all that the FCB says of its extent.
LEMMA SameText ==
    ASSUME NEW m, NEW n, n.dir = m.dir, n.data = m.data, n.name = m.name,
           n.fcb.ex = m.fcb.ex, n.fcb.s2 = m.fcb.s2, n.fcb.rc = m.fcb.rc, n.fcb.map = m.fcb.map,
           n.fcb.clean = m.fcb.clean
    PROVE  Apart(m, n) /\ SavedSame(m, n) /\ SeenSame(m, n) /\ (Current(m) <=> Current(n))
           /\ SavedGrows(m, n)
  <1>1. Apart(m, n) /\ SavedSame(m, n) /\ SeenSame(m, n)
    BY ApartSame
  <1>2. Found(n) = Found(m)
    BY DEF Found
  <1> QED BY <1>1, <1>2 DEF Current, SavedGrows, SavedSame

\* The next extent, if the FCB is at the end of one, is another way to
\* address the same record.
LEMMA RolledText ==
    ASSUME EXM = 0, NEW m, AtWork(m), Current(m), NEW w \in BOOLEAN,
           m.fcb.cr = RPE => w \/ Settled(m), NEW p, p = Rolled(m, w)
    PROVE  /\ Apart(m, p) /\ Current(p) /\ SeenSame(m, p) /\ SavedGrows(m, p)
           /\ p.code = 0 => Target(p) = Target(m)
           /\ p.code # 0 /\ w => p.code \in {2, 5} /\ Published(m, p)
           /\ p.code # 0 /\ ~w /\ Target(m) \in Records => \A v : ~Seen(m, Target(m), v)
  <1>1. CASE m.fcb.cr = RPE
    <2>1. p = NextEx(m, w)
      BY <1>1 DEF Rolled
    <2>2. /\ Apart(m, p) /\ Current(p) /\ SeenSame(m, p) /\ Published(m, p)
          /\ p.code = 0 => Target(p) = Target(m)
          /\ p.code # 0 /\ w => p.code \in {2, 5}
          /\ p.code # 0 /\ ~w /\ Target(m) \in Records => \A v : ~Seen(m, Target(m), v)
      BY <1>1, <2>1, NextExText
    <2>3. SavedGrows(m, p)
      BY <2>2, SavedIsSeen DEF AtWork, SavedGrows, Published
    <2> QED BY <2>2, <2>3
  <1>2. CASE m.fcb.cr # RPE
    <2>1. p = m /\ m.code = 0
      BY <1>2 DEF Rolled, AtWork
    <2> QED BY <2>1, SameText
  <1> QED BY <1>1, <1>2

\* The same as RolledSound, with the direction as a parameter.
LEMMA RolledAtWork ==
    ASSUME NEW m, AtWork(m), NEW w \in BOOLEAN, NEW p, p = Rolled(m, w)
    PROVE  /\ Sound(p) /\ Bound(p) /\ Keeps(m, p) /\ ~p.quit
           /\ (p.code = 0 => p.fcb.cr < RPE /\ AtWork(p))
  <1>1. p = Rolled(m, TRUE) \/ p = Rolled(m, FALSE)
    <2>1. CASE w = TRUE
      BY <2>1
    <2>2. CASE w = FALSE
      BY <2>2
    <2> QED BY <2>1, <2>2
  <1> QED BY <1>1, RolledSound DEF AtWork

\* UB_READCORE delivers the record addressed, or there is none.
LEMMA ReadCoreText ==
    ASSUME EXM = 0, NEW m, AtWork(m), Current(m), m.fcb.cr = RPE => Settled(m),
           NEW n, n = ReadCore(m)
    PROVE  /\ Apart(m, n) /\ Current(n) /\ SeenSame(m, n) /\ SavedGrows(m, n)
           /\ n.code = 0 => Target(m) \in Records /\ Seen(m, Target(m), n.val)
           /\ n.code # 0 /\ Target(m) \in Records => \A v : ~Seen(m, Target(m), v)
  <1> DEFINE p == Rolled(m, FALSE)
             t == Target(m)
  <1>1. /\ Sound(p) /\ Bound(p) /\ ~p.quit /\ (p.code = 0 => p.fcb.cr < RPE)
    BY RolledAtWork
  <1>2. /\ Apart(m, p) /\ Current(p) /\ SeenSame(m, p) /\ SavedGrows(m, p)
        /\ p.code = 0 => Target(p) = t
        /\ p.code # 0 /\ t \in Records => \A v : ~Seen(m, t, v)
    BY RolledText
  <1>3. n = IF p.code # 0 \/ p.fcb.cr >= p.fcb.rc THEN Carry(p, 1)
            ELSE IF Block(p) = NoBlock THEN Quit(p, 255)
            ELSE [p EXCEPT !.val = p.data[Block(p)][Offset(p)], !.fcb.cr = @ + 1]
    BY DEF ReadCore
  <1>4. p \in Calls /\ p.fcb \in FCBs
    BY <1>1, FCBType DEF Sound
  <1> HIDE DEF p, t
  <1>5. ASSUME p.code = 0
        PROVE  /\ t \in Records /\ OfExtent(p.fcb, t) /\ Decode(t).cr = p.fcb.cr
               /\ \A v : Seen(m, t, v) <=>
                     p.fcb.cr < p.fcb.rc /\ Block(p) # NoBlock /\ v = p.data[Block(p)][Offset(p)]
    <2>1. /\ t \in Records /\ OfExtent(p.fcb, t) /\ Decode(t).cr = p.fcb.cr
          /\ Spot(t) = Index(p) /\ Place(t) = Offset(p)
      BY <1>1, <1>2, <1>5, TargetRecord
    <2>2. \A v : Seen(p, t, v) <=> Has(p.fcb, t) /\ v = Content(p.fcb, p.data, t)
      BY <2>1 DEF Seen, SeenIn
    <2>3. \A v : Seen(p, t, v) <=>
                     p.fcb.cr < p.fcb.rc /\ Block(p) # NoBlock /\ v = p.data[Block(p)][Offset(p)]
      BY <2>1, <2>2 DEF Has, Content, Block
    <2> QED BY <1>2, <2>1, <2>3 DEF SeenSame
  <1>6. ASSUME NEW c \in {1, 255}, n = Carry(p, c) \/ n = Quit(p, c),
               t \in Records => \A v : ~Seen(m, t, v)
        PROVE  /\ Apart(m, n) /\ Current(n) /\ SeenSame(m, n) /\ SavedGrows(m, n) /\ n.code # 0
    <2>1. c \in Nat /\ c # 0
      BY SMT
    <2>2. n.dir = p.dir /\ n.data = p.data /\ n.name = p.name /\ n.fcb = p.fcb /\ n.code = c
      BY <1>1, <1>6, <2>1, CarrySound DEF SameDrive
    <2>3. Apart(p, n) /\ SeenSame(p, n) /\ Current(n) /\ SavedGrows(p, n)
      BY <1>2, <2>2, SameText
    <2> QED BY <1>2, <2>1, <2>2, <2>3, ApartTransitive DEF SeenSame, SavedGrows
  <1>7. CASE p.code # 0 \/ p.fcb.cr >= p.fcb.rc
    <2>1. t \in Records => \A v : ~Seen(m, t, v)
      <3>1. p.fcb.cr \in 0 .. RPE /\ p.fcb.rc \in 0 .. RPE
        BY <1>1, FCBType
      <3>2. p.fcb.cr >= p.fcb.rc => ~ (p.fcb.cr < p.fcb.rc)
        BY <3>1, GeometryAssumption, SMT
      <3> QED BY <1>2, <1>5, <1>7, <3>2
    <2>2. n = Carry(p, 1)
      BY <1>3, <1>7
    <2> QED BY <1>6, <2>1, <2>2 DEF t
  <1>8. CASE ~(p.code # 0 \/ p.fcb.cr >= p.fcb.rc) /\ Block(p) = NoBlock
    <2>1. n = Quit(p, 255)
      BY <1>3, <1>8
    <2> QED BY <1>5, <1>6, <1>8, <2>1 DEF t
  <1>9. CASE ~(p.code # 0 \/ p.fcb.cr >= p.fcb.rc) /\ Block(p) # NoBlock
    <2> DEFINE x == p.data[Block(p)][Offset(p)]
               c == [p.fcb EXCEPT !.cr = @ + 1]
    <2>1. n = [p EXCEPT !.val = x, !.fcb = c]
      BY <1>3, <1>9
    <2>2. c.ex = p.fcb.ex /\ c.s2 = p.fcb.s2 /\ c.rc = p.fcb.rc /\ c.map = p.fcb.map
          /\ c.clean = p.fcb.clean
      BY <1>4 DEF FCBs
    <2> HIDE DEF c
    <2>3. /\ n.dir = p.dir /\ n.data = p.data /\ n.name = p.name /\ n.fcb = c
          /\ n.code = p.code /\ n.val = x
      BY <1>4, <2>1 DEF Calls
    <2>4. Apart(p, n) /\ SeenSame(p, n) /\ Current(n) /\ SavedGrows(p, n)
      BY <1>2, <2>2, <2>3, SameText
    <2>5. p.fcb.cr < p.fcb.rc /\ p.code = 0
      <3>1. p.fcb.cr \in 0 .. RPE /\ p.fcb.rc \in 0 .. RPE
        BY <1>1, FCBType
      <3>2. ~ (p.fcb.cr >= p.fcb.rc) => p.fcb.cr < p.fcb.rc
        BY <3>1, GeometryAssumption, SMT
      <3> QED BY <1>9, <3>2
    <2>6. t \in Records /\ Seen(m, t, n.val)
      BY <1>5, <1>9, <2>3, <2>5
    <2> QED BY <1>2, <2>3, <2>4, <2>5, <2>6, ApartTransitive DEF SeenSame, SavedGrows, t
  <1> QED BY <1>7, <1>8, <1>9 DEF t

-----------------------------------------------------------------------------
(* UB_WALLOC, UB_WXFER and UB_WRITE.                                       *)

\* A call takes block b, of no entry and not marked, for its entry, which
\* becomes e.
Takes(m, n, b, e) ==
    /\ b \notin m.alv /\ b \notin Rebuilt(m.dir)
    /\ Replaces(m, At(m), e, n.dir)
    /\ e.ex = m.dir[At(m)].ex /\ e.rc = m.dir[At(m)].rc
    /\ e.map = [m.fcb.map EXCEPT ![Index(m)] = b]
    /\ n \in Calls /\ n.alv = m.alv \cup {b} /\ n.name = m.name
    /\ n.code = 0 /\ ~n.quit
    /\ n.fcb = [m.fcb EXCEPT !.map = e.map]
    /\ \A x \in DataBlocks \ {b} : n.data[x] = m.data[x]

\* What UB_WALLOC leaves, part by part.
LEMMA AllocateParts ==
    ASSUME NEW m, AtWork(m), m.fcb.cr < RPE, NEW n,
           n = Allocate(m, TRUE) \/ n = Allocate(m, FALSE)
    PROVE  \/ n = Quit(m, 2) /\ FreeBlocks(m) = {}
           \/ \E b \in DataBlocks : \E e \in Entries : Takes(m, n, b, e)
  <1>0. Sound(m) /\ m \in Calls /\ Bound(m) /\ m.code = 0 /\ ~m.quit
    BY DEF AtWork, Sound
  <1>1. CASE FreeBlocks(m) = {}
    BY <1>1 DEF Allocate
  <1>2. CASE FreeBlocks(m) # {}
    <2> DEFINE b == Min(FreeBlocks(m))
               q == Index(m)
               i == At(m)
               c == [m.fcb EXCEPT !.map = [@ EXCEPT ![q] = b]]
               e == [m.dir[i] EXCEPT !.map = c.map]
               dd == [m.dir EXCEPT ![i] = e]
               zeroed == [m.data EXCEPT ![b] = [k \in 0 .. BLK - 1 |-> Zero]]
    <2>1. b \in DataBlocks /\ b \notin m.alv
      <3>1. FreeBlocks(m) \subseteq Nat
        BY FilesAssumption, SMT DEF FreeBlocks
      <3>2. b \in 0 .. DSM /\ b \notin m.alv
        BY <1>2, <3>1, MinIn DEF FreeBlocks
      <3>3. b \notin Reserved
        BY <1>0, <3>2, InRebuilt DEF Sound
      <3> QED BY <3>2, <3>3, FilesAssumption, SMT DEF Reserved, DataBlocks
    <2>2. b \notin Rebuilt(m.dir)
      BY <1>0, <2>1 DEF Sound
    <2>3. q \in Indexes
      BY <1>0, BlockType
    <2>4. Found(m) # {} /\ m.dir[i].map = m.fcb.map /\ i \in Found(m) /\ i \in Slots
          /\ m.dir[i] \in Entries
      BY <1>0, BoundAt, AtHit
    <2>5. c \in FCBs /\ c.ex = m.fcb.ex /\ c.s2 = m.fcb.s2
          /\ c.map = [m.fcb.map EXCEPT ![q] = b] /\ c.map \in Maps
      BY <1>0, <2>1, <2>3, FCBType DEF FCBs, Maps
    <2>6. e \in Entries /\ e.name = m.dir[i].name /\ e.ex = m.dir[i].ex /\ e.s2 = m.dir[i].s2
          /\ e.rc = m.dir[i].rc /\ e.map = c.map
      BY <2>4, <2>5 DEF Entries
    <2>7. n \in Calls /\ n.fcb = c /\ n.dir = dd /\ n.alv = m.alv \cup {b}
          /\ n.name = m.name /\ n.code = m.code /\ n.quit = m.quit
          /\ (n.data = m.data \/ n.data = zeroed)
      <3> DEFINE w == [m EXCEPT !.alv = @ \cup {b}, !.fcb = c]
                 p == [w EXCEPT !.dir = dd]
      <3>1. /\ w \in Calls /\ w.dir = m.dir /\ w.fcb = c /\ w.name = m.name /\ w.data = m.data
            /\ w.quit = m.quit /\ w.alv = m.alv \cup {b} /\ w.code = m.code
        <4>1. b \in 0 .. DSM
          BY <2>1, FilesAssumption, SMT DEF DataBlocks
        <4> HIDE DEF b, c
        <4> QED BY <1>0, <2>5, <4>1 DEF Calls
      <3>2. Found(w) = Found(m) /\ At(w) = i
        BY <2>5, <3>1 DEF Found, At
      <3>3. w = [m EXCEPT !.alv = @ \cup {b}, !.fcb.map[Index(m)] = b]
        BY <1>0 DEF Calls, FCBs
      <3>4. PublishMap(w) = p
        <4>1. PublishMap(w) = [w EXCEPT !.dir[i].map = w.fcb.map]
          BY <2>4, <3>2 DEF PublishMap
        <4> HIDE DEF w, c
        <4> QED BY <3>1, <4>1
      <3>5. dd \in [Slots -> Entries \cup {NoEntry}]
        <4> HIDE DEF e
        <4> QED BY <1>0, <2>6 DEF Calls
      <3>6. zeroed \in [DataBlocks -> Blocks]
        <4>1. [k \in 0 .. BLK - 1 |-> Zero] \in Blocks
          BY FilesAssumption DEF Blocks
        <4> HIDE DEF b
        <4> QED BY <1>0, <4>1 DEF Calls
      <3>7. p.quit = m.quit /\ p.data = m.data
        BY <3>1
      <3>8. n = p \/ n = [p EXCEPT !.data = zeroed]
        <4>1. n = [PublishMap(w) EXCEPT !.data[b] = [k \in 0 .. BLK - 1 |-> Zero]]
              \/ n = PublishMap(w)
          BY <1>2, <3>3 DEF Allocate
        <4> HIDE DEF w, b, p
        <4> QED BY <3>4, <3>7, <4>1
      <3> HIDE DEF w, dd, zeroed, b, c
      <3> QED BY <3>1, <3>5, <3>6, <3>8 DEF Calls
    <2>8. Replaces(m, i, e, dd)
      BY <2>4, <2>6 DEF Replaces, Found, Hits
    <2>9. c = [m.fcb EXCEPT !.map = c.map]
      BY <1>0 DEF Calls, FCBs
    <2>10. \A x \in DataBlocks \ {b} : zeroed[x] = m.data[x]
      BY <1>0 DEF Calls
    <2> HIDE DEF b, q, i, c, e, dd, zeroed
    <2>11. \A x \in DataBlocks \ {b} : n.data[x] = m.data[x]
      BY <2>7, <2>10
    <2>12. Takes(m, n, b, e)
      BY <1>0, <2>1, <2>2, <2>5, <2>6, <2>7, <2>8, <2>9, <2>11 DEF i, q, Takes
    <2> QED BY <2>1, <2>6, <2>12
  <1> QED BY <1>1, <1>2

\* The blocks of the entries of a directory are marked blocks of the drive.
LEMMA OwnedBlock ==
    ASSUME NEW m, Sound(m), NEW j \in Slots, m.dir[j].name # "none", NEW q \in Indexes,
           m.dir[j].map[q] # NoBlock
    PROVE  m.dir[j].map[q] \in Rebuilt(m.dir) /\ m.dir[j].map[q] \in DataBlocks
           /\ j \in Live(m.dir)
  <1>1. j \in Live(m.dir) /\ m.dir[j] \in Entries
    BY LiveIffNamed DEF Sound, Calls
  <1>2. m.dir[j].map[q] \in DataBlocks
    BY <1>1 DEF Entries, Maps
  <1> QED BY <1>1, <1>2, InRebuilt

SeenGrows(m, n) == \A r \in Records : \A v : Seen(m, r, v) => Seen(n, r, v)

\* UB_WALLOC takes no record from anybody: the block was nobody's.
LEMMA AllocateText ==
    ASSUME EXM = 0, NEW m, AtWork(m), Current(m), m.fcb.cr < RPE, Block(m) = NoBlock,
           NEW z \in BOOLEAN, NEW n, n = Allocate(m, z)
    PROVE  /\ Sound(n) /\ Bound(n) /\ Apart(m, n) /\ Current(n)
           /\ SavedGrows(m, n) /\ SeenGrows(m, n)
           /\ n.fcb.cr = m.fcb.cr /\ Target(n) = Target(m)
           /\ n.quit => n.code = 2 /\ SeenSame(m, n)
           /\ ~n.quit => n.code = 0 /\ Block(n) \in DataBlocks
  <1>0. Sound(m) /\ Bound(m) /\ m.code = 0 /\ ~m.quit /\ m \in Calls /\ m.fcb \in FCBs
    BY FCBType DEF AtWork, Sound
  <1>1. n = Allocate(m, TRUE) \/ n = Allocate(m, FALSE)
    <2>1. CASE z = TRUE
      BY <2>1
    <2>2. CASE z = FALSE
      BY <2>2
    <2> QED BY <2>1, <2>2
  <1>2. /\ Sound(n) /\ Bound(n) /\ n.fcb.cr = m.fcb.cr /\ n.fcb.rc = m.fcb.rc
        /\ \/ n.quit /\ n.code = 2
           \/ ~n.quit /\ n.code = 0 /\ Block(n) \in DataBlocks
    BY <1>1, AllocateSound
  <1>3. CASE n = Quit(m, 2)
    <2>1. n.dir = m.dir /\ n.data = m.data /\ n.name = m.name /\ n.fcb = m.fcb /\ n.quit
      BY <1>0, <1>3 DEF Calls, Quit
    <2>2. Apart(m, n) /\ SeenSame(m, n) /\ Current(n) /\ SavedGrows(m, n)
      BY <2>1, SameText
    <2> QED BY <1>2, <2>1, <2>2 DEF SeenSame, SeenGrows, Target
  <1>4. CASE n # Quit(m, 2)
    <2>1. PICK b \in DataBlocks, e \in Entries : Takes(m, n, b, e)
      BY <1>1, <1>4, AllocateParts
    <2>2. /\ b \notin m.alv /\ b \notin Rebuilt(m.dir)
          /\ Replaces(m, At(m), e, n.dir)
          /\ e.ex = m.dir[At(m)].ex /\ e.rc = m.dir[At(m)].rc
          /\ e.map = [m.fcb.map EXCEPT ![Index(m)] = b]
          /\ n \in Calls /\ n.alv = m.alv \cup {b} /\ n.name = m.name
          /\ n.code = 0 /\ ~n.quit
          /\ n.fcb = [m.fcb EXCEPT !.map = e.map]
          /\ \A x \in DataBlocks \ {b} : n.data[x] = m.data[x]
      BY <2>1 DEF Takes
    <2>17. PICK i \in Slots : i = At(m)
      BY <1>0, AtEntry
    <2> DEFINE q == Index(m)
    <2>3. /\ n.fcb.ex = m.fcb.ex /\ n.fcb.s2 = m.fcb.s2 /\ n.fcb.rc = m.fcb.rc
          /\ n.fcb.clean = m.fcb.clean /\ n.fcb.map = e.map
      BY <1>0, <2>2 DEF FCBs
    <2>4. /\ i \in Slots /\ Found(m) = {i} /\ m.dir[i].name = m.name /\ m.dir[i].map = m.fcb.map
          /\ m.dir[i].ex = m.fcb.ex /\ m.dir[i].s2 = m.fcb.s2
          /\ m.dir[i].rc <= m.fcb.rc /\ (m.fcb.clean => m.dir[i].rc = m.fcb.rc)
      BY <1>0, <2>17, AtEntry
    <2>5. /\ n.dir[i] = e /\ \A j \in Slots \ {i} : n.dir[j] = m.dir[j]
          /\ e.name = m.name /\ e.s2 = m.fcb.s2
          /\ \A nm, ex, s : Hits(n.dir, nm, ex, s) = Hits(m.dir, nm, ex, s)
      <3>1. Replaces(m, i, e, n.dir) /\ e.name = m.name /\ e.s2 = m.fcb.s2
        BY <2>2, <2>17 DEF Replaces
      <3>2. /\ n.dir[i] = e /\ \A j \in Slots \ {i} : n.dir[j] = m.dir[j]
            /\ \A nm, ex, s : Hits(n.dir, nm, ex, s) = Hits(m.dir, nm, ex, s)
        BY <1>0, <3>1, ReplacedHits
      <3> QED BY <3>1, <3>2
    <2>6. q \in Indexes /\ m.fcb.map \in Maps /\ m.fcb.map[q] = NoBlock
      BY <1>0, FCBType, BlockType DEF Block
    <2> HIDE DEF q
    <2>7. \A s \in Indexes : m.fcb.map[s] # NoBlock => e.map[s] = m.fcb.map[s]
      BY <2>2, <2>6 DEF Maps, q
    <2>8. ASSUME NEW j \in Slots, m.dir[j].name # "none", NEW s \in Indexes,
                 m.dir[j].map[s] # NoBlock
          PROVE  n.data[m.dir[j].map[s]] = m.data[m.dir[j].map[s]]
      BY <1>0, <2>2, <2>8, OwnedBlock
    <2>9. m.name # "none"
      BY <1>0, FilesAssumption DEF Calls
    <2>10. Apart(m, n)
      BY <2>2, <2>4, <2>5, <2>8, <2>17 DEF Apart
    <2>11. Found(n) = {i}
      BY <2>2, <2>3, <2>4, <2>5 DEF Found
    <2>12. Current(n)
      BY <2>2, <2>3, <2>4, <2>5, <2>11, <2>17 DEF Current
    <2>13. ASSUME NEW r \in Records, NEW v, Saved(m, r, v) PROVE Saved(n, r, v)
      <3>1. PICK j \in Slots : m.dir[j].name = m.name /\ Has(m.dir[j], r)
                               /\ v = Content(m.dir[j], m.data, r)
        BY <2>13 DEF Saved, SavedIn
      <3>2. Spot(r) \in Indexes /\ m.dir[j].map[Spot(r)] # NoBlock
        BY <3>1, DecodeType DEF Has
      <3>3. n.data[m.dir[j].map[Spot(r)]] = m.data[m.dir[j].map[Spot(r)]]
        BY <2>8, <2>9, <3>1, <3>2
      <3>4. n.dir[j].name = n.name /\ n.dir[j].ex = m.dir[j].ex /\ n.dir[j].s2 = m.dir[j].s2
            /\ n.dir[j].rc = m.dir[j].rc /\ n.dir[j].map[Spot(r)] = m.dir[j].map[Spot(r)]
        <4>1. CASE j = i
          <5>1. e.ex = m.dir[i].ex /\ e.rc = m.dir[i].rc /\ n.name = m.name
            BY <2>2, <2>17
          <5>2. e.map[Spot(r)] = m.dir[i].map[Spot(r)]
            BY <2>4, <2>7, <3>2, <4>1
          <5> QED BY <2>4, <2>5, <4>1, <5>1, <5>2
        <4>2. CASE j # i
          BY <2>2, <2>5, <3>1, <4>2
        <4> QED BY <4>1, <4>2
      <3> QED BY <3>1, <3>3, <3>4 DEF Saved, SavedIn, Has, OfExtent, Content
    <2>14. ASSUME NEW r \in Records, NEW v, Seen(m, r, v) PROVE Seen(n, r, v)
      <3>1. CASE OfExtent(m.fcb, r)
        <4>1. Has(m.fcb, r) /\ v = Content(m.fcb, m.data, r)
          BY <2>14, <3>1 DEF Seen, SeenIn
        <4>2. Spot(r) \in Indexes /\ m.fcb.map[Spot(r)] # NoBlock
          BY <4>1, DecodeType DEF Has
        <4>3. n.data[m.fcb.map[Spot(r)]] = m.data[m.fcb.map[Spot(r)]]
          BY <2>4, <2>8, <2>9, <4>2
        <4> QED BY <2>3, <2>7, <3>1, <4>1, <4>2, <4>3 DEF Seen, SeenIn, Has, OfExtent, Content
      <3>2. CASE ~OfExtent(m.fcb, r)
        <4>1. Saved(m, r, v) /\ ~OfExtent(n.fcb, r)
          BY <2>3, <2>14, <3>2 DEF Seen, SeenIn, Saved, OfExtent
        <4>2. Saved(n, r, v)
          BY <2>13, <4>1
        <4> QED BY <4>1, <4>2 DEF Seen, SeenIn, Saved
      <3> QED BY <3>1, <3>2
    <2> QED BY <1>2, <2>2, <2>3, <2>10, <2>12, <2>13, <2>14 DEF SavedGrows, SeenGrows, Target
  <1> QED BY <1>3, <1>4

\* Two records of an extent never share a place, so a transfer at the place
\* of one leaves the other alone.
LEMMA OtherPlace ==
    ASSUME NEW m, Sound(m), m.fcb.cr < RPE, NEW r \in Records, OfExtent(m.fcb, r), r # Target(m)
    PROVE  ~ (Spot(r) = Index(m) /\ Place(r) = Offset(m))
  <1> SUFFICES ASSUME Spot(r) = Index(m), Place(r) = Offset(m) PROVE FALSE
    OBVIOUS
  <1>1. m.fcb.ex \in Extents /\ m.fcb.s2 \in Modules /\ m.fcb.cr \in 0 .. RPE - 1
    BY FCBType, GeometryAssumption, SMT
  <1>2. PICK c \in 0 .. RPE - 1 : c = Decode(r).cr
    BY DecodeType
  <1>3. Decode(r).ex = m.fcb.ex /\ Decode(r).s2 = m.fcb.s2
    BY DEF OfExtent
  <1>4. MapIndex(m.fcb.ex, c) = MapIndex(m.fcb.ex, m.fcb.cr)
        /\ BlockOffset(m.fcb.ex, c) = BlockOffset(m.fcb.ex, m.fcb.cr)
    BY <1>2, <1>3 DEF Spot, Place, Index, Offset
  <1>5. c = m.fcb.cr
    BY <1>1, <1>4, OneRecordPerPlace
  <1>6. ExtRec(Decode(r).s2, Decode(r).ex, Decode(r).cr) = r
    BY DecodeType
  <1> QED BY <1>2, <1>3, <1>5, <1>6 DEF Target

\* A write of v at record t touches no other record, and none ceases to be
\* permanent.
WriteEffect(m, n, t, v) ==
    /\ Seen(n, t, v)
    /\ \A r \in Records \ {t} : \A x : /\ Seen(m, r, x) => Seen(n, r, x)
                                       /\ Saved(m, r, x) => Saved(n, r, x)
    /\ (\E x : Saved(m, t, x)) => \E x : Saved(n, t, x)

\* What comes before and after the transfer takes no record away.
LEMMA WriteEffectWithin ==
    ASSUME NEW k, NEW m, NEW n, NEW l, NEW t \in Records, NEW v,
           SeenGrows(k, m), SavedGrows(k, m), WriteEffect(m, n, t, v),
           SeenGrows(n, l), SavedGrows(n, l)
    PROVE  WriteEffect(k, l, t, v)
  <1>1. Seen(l, t, v)
    BY DEF WriteEffect, SeenGrows
  <1>2. ASSUME NEW r \in Records \ {t}, NEW x
        PROVE  (Seen(k, r, x) => Seen(l, r, x)) /\ (Saved(k, r, x) => Saved(l, r, x))
    BY DEF WriteEffect, SeenGrows, SavedGrows
  <1>3. ASSUME NEW x, Saved(k, t, x) PROVE \E y : Saved(l, t, y)
    <2>1. Saved(m, t, x)
      BY <1>3 DEF SavedGrows
    <2>2. PICK y : Saved(n, t, y)
      BY <2>1 DEF WriteEffect
    <2>3. Saved(l, t, y)
      BY <2>2 DEF SavedGrows
    <2> QED BY <2>3
  <1> QED BY <1>1, <1>2, <1>3 DEF WriteEffect

\* UB_WXFER and UB_WDONE: the record the FCB is at, and no other.
LEMMA TransferText ==
    ASSUME EXM = 0, NEW m, Sound(m), Bound(m), Current(m), m.fcb.cr < RPE, Block(m) \in DataBlocks,
           NEW v \in Values, NEW n, n = Transfer(m, v)
    PROVE  Apart(m, n) /\ Current(n) /\ WriteEffect(m, n, Target(m), v)
  <1>1. m \in Calls /\ m.fcb \in FCBs /\ m.data \in [DataBlocks -> Blocks]
        /\ Unlinked(m.dir) /\ m.fcb.cr \in Nat /\ m.fcb.rc \in Nat
    <2>1. m \in Calls /\ m.fcb \in FCBs /\ m.data \in [DataBlocks -> Blocks] /\ Unlinked(m.dir)
      BY DEF Sound, Calls
    <2>2. m.fcb.cr \in 0 .. RPE /\ m.fcb.rc \in 0 .. RPE
      BY FCBType
    <2> QED BY <2>1, <2>2, GeometryAssumption, SMT
  <1>2. PICK b \in DataBlocks : b = Block(m)
    OBVIOUS
  <1>3. PICK q \in Indexes, o \in 0 .. BLK - 1 : q = Index(m) /\ o = Offset(m)
    BY BlockType
  <1>4. PICK i \in Slots : i = At(m)
    BY AtEntry
  <1>5. /\ m.dir[i].name = m.name /\ m.dir[i].ex = m.fcb.ex /\ m.dir[i].s2 = m.fcb.s2
        /\ m.dir[i].map = m.fcb.map /\ m.dir[i].rc \in Nat /\ m.dir[i].rc <= m.fcb.rc
        /\ Found(m) = {i} /\ m.dir[i].name # "none"
    BY <1>1, <1>4, AtEntry, FilesAssumption DEF Calls
  <1>6. m.fcb.map[q] = b /\ m.dir[i].map[q] = b /\ b # NoBlock
    <2>1. b # NoBlock
      BY FilesAssumption, SMT DEF DataBlocks, NoBlock
    <2> QED BY <1>2, <1>3, <1>5, <2>1 DEF Block
  <1> DEFINE new == [m.data EXCEPT ![b] = [@ EXCEPT ![o] = v]]
             c == [m.fcb EXCEPT !.cr = @ + 1, !.rc = Max({@, m.fcb.cr + 1}), !.clean = FALSE]
             t == Target(m)
  <1>7. /\ new[b][o] = v
        /\ \A x \in DataBlocks : \A k \in 0 .. BLK - 1 :
              x # b \/ k # o => new[x][k] = m.data[x][k]
        /\ \A x \in DataBlocks \ {b} : new[x] = m.data[x]
    BY <1>1 DEF Blocks
  <1>8. /\ c.ex = m.fcb.ex /\ c.s2 = m.fcb.s2 /\ c.map = m.fcb.map /\ c.clean = FALSE
        /\ c.rc = Max({m.fcb.rc, m.fcb.cr + 1})
    BY <1>1 DEF FCBs
  <1>9. m.fcb.rc <= c.rc /\ m.fcb.cr < c.rc /\ c.rc \in Nat
    <2>1. m.fcb.cr + 1 \in Nat
      BY <1>1, SMT
    <2> HIDE DEF c
    <2>2. c.rc \in {m.fcb.rc, m.fcb.cr + 1} /\ m.fcb.rc <= c.rc /\ m.fcb.cr + 1 <= c.rc
      BY <1>1, <1>8, <2>1, MaxOfTwo
    <2> QED BY <1>1, <2>1, <2>2, SMT
  <1>10. n = [m EXCEPT !.data = new, !.fcb = c]
    BY <1>2, <1>3 DEF Transfer
  <1> HIDE DEF new, c
  <1>11. n.dir = m.dir /\ n.data = new /\ n.fcb = c /\ n.name = m.name
    BY <1>1, <1>10 DEF Calls
  <1>12. /\ t \in Records /\ OfExtent(m.fcb, t) /\ Decode(t).cr = m.fcb.cr
         /\ Spot(t) = q /\ Place(t) = o
    BY <1>3, TargetRecord
  <1>13. ASSUME NEW j \in Slots, m.dir[j].name # "none", NEW s \in Indexes, m.dir[j].map[s] = b
         PROVE  j = i /\ s = q
    <2>1. j \in Live(m.dir) /\ i \in Live(m.dir)
      BY <1>1, <1>5, <1>13, LiveIffNamed DEF Calls
    <2> QED BY <1>1, <1>6, <1>13, <2>1 DEF Unlinked
  <1>14. ASSUME NEW j \in Slots, j # i, m.dir[j].name # "none", NEW s \in Indexes,
                m.dir[j].map[s] # NoBlock
         PROVE  new[m.dir[j].map[s]] = m.data[m.dir[j].map[s]]
    BY <1>7, <1>13, <1>14, OwnedBlock
  <1>15. Apart(m, n)
    BY <1>5, <1>11, <1>14 DEF Apart
  <1>16. Current(n)
    <2>1. Found(n) = {i}
      BY <1>5, <1>8, <1>11 DEF Found
    <2>2. m.dir[i].rc <= c.rc
      BY <1>1, <1>5, <1>9, SMT
    <2> QED BY <1>8, <1>11, <2>1, <2>2 DEF Current
  <1>17. ASSUME NEW j \in Slots, m.dir[j].name = m.name, NEW r \in Records, r # t, Has(m.dir[j], r)
         PROVE  Content(m.dir[j], new, r) = Content(m.dir[j], m.data, r)
    <2>1. Spot(r) \in Indexes /\ Place(r) \in 0 .. BLK - 1 /\ m.dir[j].map[Spot(r)] # NoBlock
          /\ OfExtent(m.dir[j], r)
      BY <1>17, DecodeType DEF Has
    <2>2. m.dir[j].name # "none"
      BY <1>5, <1>17
    <2>3. m.dir[j].map[Spot(r)] \in DataBlocks
      BY <2>1, <2>2, OwnedBlock
    <2>4. CASE m.dir[j].map[Spot(r)] = b
      <3>1. j = i /\ Spot(r) = q
        BY <1>13, <2>1, <2>2, <2>4
      <3>2. OfExtent(m.fcb, r)
        BY <1>5, <2>1, <3>1 DEF OfExtent
      <3>3. Place(r) # o
        BY <1>3, <1>17, <3>1, <3>2, OtherPlace
      <3> QED BY <1>7, <2>1, <2>3, <3>3 DEF Content
    <2>5. CASE m.dir[j].map[Spot(r)] # b
      BY <1>7, <2>3, <2>5 DEF Content
    <2> QED BY <2>4, <2>5
  <1>18. ASSUME NEW r \in Records, r # t, NEW x, Saved(m, r, x) PROVE Saved(n, r, x)
    <2>1. PICK j \in Slots : m.dir[j].name = m.name /\ Has(m.dir[j], r)
                             /\ x = Content(m.dir[j], m.data, r)
      BY <1>18 DEF Saved, SavedIn
    <2>2. x = Content(m.dir[j], new, r)
      BY <1>17, <1>18, <2>1
    <2> QED BY <1>11, <2>1, <2>2 DEF Saved, SavedIn
  <1>19. ASSUME NEW r \in Records, r # t, NEW x, Seen(m, r, x) PROVE Seen(n, r, x)
    <2>1. CASE OfExtent(m.fcb, r)
      <3>1. Has(m.fcb, r) /\ x = Content(m.fcb, m.data, r) /\ OfExtent(c, r)
        BY <1>8, <1>19, <2>1 DEF Seen, SeenIn, OfExtent
      <3>2. Decode(r).cr < c.rc
        <4>1. Decode(r).cr \in Nat /\ Decode(r).cr < m.fcb.rc
          BY <3>1, DecodeType DEF Has
        <4> QED BY <1>1, <1>9, <4>1, SMT
      <3>3. Has(c, r)
        BY <1>8, <3>1, <3>2 DEF Has
      <3>4. Spot(r) \in Indexes /\ Place(r) \in 0 .. BLK - 1 /\ m.dir[i].map[Spot(r)] # NoBlock
            /\ m.fcb.map[Spot(r)] = m.dir[i].map[Spot(r)]
        BY <1>5, <3>1, DecodeType DEF Has
      <3>5. new[m.dir[i].map[Spot(r)]][Place(r)] = m.data[m.dir[i].map[Spot(r)]][Place(r)]
        <4>1. m.dir[i].map[Spot(r)] \in DataBlocks
          BY <1>5, <3>4, OwnedBlock
        <4>2. CASE Spot(r) = q
          <5>1. Place(r) # o
            BY <1>3, <1>19, <2>1, <4>2, OtherPlace
          <5> QED BY <1>7, <3>4, <4>1, <5>1
        <4>3. CASE Spot(r) # q
          <5>1. m.dir[i].map[Spot(r)] # b
            BY <1>5, <1>13, <3>4, <4>3
          <5> QED BY <1>7, <4>1, <5>1
        <4> QED BY <4>2, <4>3
      <3> QED BY <1>8, <1>11, <3>1, <3>3, <3>4, <3>5 DEF Seen, SeenIn, Content
    <2>2. CASE ~OfExtent(m.fcb, r)
      <3>1. Saved(m, r, x) /\ ~OfExtent(c, r)
        BY <1>8, <1>19, <2>2 DEF Seen, SeenIn, Saved, OfExtent
      <3>2. Saved(n, r, x)
        BY <1>18, <1>19, <3>1
      <3> QED BY <1>11, <3>1, <3>2 DEF Seen, SeenIn, Saved
    <2> QED BY <2>1, <2>2
  <1>20. Seen(n, t, v)
    <2>1. OfExtent(c, t) /\ Decode(t).cr < c.rc /\ c.map[Spot(t)] = b /\ Place(t) = o
      BY <1>6, <1>8, <1>9, <1>12 DEF OfExtent
    <2>2. Has(c, t) /\ Content(c, new, t) = v
      BY <1>6, <1>7, <2>1 DEF Has, Content
    <2> QED BY <1>11, <2>1, <2>2 DEF Seen, SeenIn
  <1>21. ASSUME NEW x, Saved(m, t, x) PROVE \E y : Saved(n, t, y)
    <2>1. PICK j \in Slots : m.dir[j].name = m.name /\ Has(m.dir[j], t)
      BY <1>21 DEF Saved, SavedIn
    <2>2. Saved(n, t, Content(m.dir[j], new, t))
      BY <1>11, <2>1 DEF Saved, SavedIn
    <2> QED BY <2>2
  <1> HIDE DEF t
  <1>22. WriteEffect(m, n, t, v)
    BY <1>18, <1>19, <1>20, <1>21 DEF WriteEffect
  <1> QED BY <1>15, <1>16, <1>22 DEF t

\* What SeenSame and SavedGrows are short of.
LEMMA SameGrows ==
    ASSUME NEW m, NEW n
    PROVE  /\ SeenSame(m, n) => SeenGrows(m, n) /\ SeenSame(n, m)
           /\ SavedSame(m, n) => SavedGrows(m, n)
           /\ SeenSame(m, m) /\ SavedSame(m, m) /\ Apart(m, m)
  BY DEF SeenSame, SeenGrows, SavedSame, SavedGrows, Apart

\* The same, of two routines in a row.
LEMMA SameTransitive ==
    ASSUME NEW k, NEW m, NEW n
    PROVE  /\ SeenSame(k, m) /\ SeenSame(m, n) => SeenSame(k, n)
           /\ SavedGrows(k, m) /\ SavedGrows(m, n) => SavedGrows(k, n)
  BY DEF SeenSame, SavedGrows

\* A result leaves the files alone.
LEMMA CarryText ==
    ASSUME NEW m, Sound(m), NEW c \in Nat, NEW n, n = Carry(m, c) \/ n = Quit(m, c)
    PROVE  /\ Sound(n) /\ Apart(m, n) /\ SavedSame(m, n) /\ SeenSame(m, n)
           /\ (Current(m) => Current(n)) /\ SavedGrows(m, n) /\ n.code = c /\ n.fcb = m.fcb
           /\ Bound(m) => Bound(n)
  <1>1. /\ Sound(n) /\ n.fcb = m.fcb /\ n.code = c /\ SameDrive(m, n) /\ Found(n) = Found(m)
    BY CarrySound
  <1>2. Apart(m, n) /\ SavedSame(m, n) /\ SeenSame(m, n) /\ (Current(m) <=> Current(n))
        /\ SavedGrows(m, n)
    BY <1>1, SameText DEF SameDrive
  <1> QED BY <1>1, <1>2 DEF Bound, SameDrive

\* UB_WCORE writes the record addressed, or takes nothing away.
LEMMA WCoreText ==
    ASSUME EXM = 0, NEW m, AtWork(m), Current(m), NEW v \in Values, NEW z \in BOOLEAN,
           NEW n, n = WCore(m, v, z)
    PROVE  /\ Apart(m, n) /\ Current(n)
           /\ n.code = 0 => Target(m) \in Records /\ WriteEffect(m, n, Target(m), v)
           /\ n.code # 0 => SeenSame(m, n) /\ SavedGrows(m, n)
  <1> DEFINE p == Rolled(m, TRUE)
             a == IF Block(p) = NoBlock THEN Allocate(p, z) ELSE p
  <1>1. /\ Sound(p) /\ Bound(p) /\ ~p.quit /\ (p.code = 0 => p.fcb.cr < RPE /\ AtWork(p))
    BY RolledAtWork
  <1>2. /\ Apart(m, p) /\ Current(p) /\ SeenSame(m, p) /\ SavedGrows(m, p)
        /\ p.code = 0 => Target(p) = Target(m)
        /\ p.code # 0 => p.code \in {2, 5}
    BY RolledText
  <1>3. n = IF p.code # 0 THEN Carry(p, p.code % 4) ELSE IF a.quit THEN a ELSE Transfer(a, v)
    <2>1. n = IF p.quit THEN p ELSE IF p.code # 0 THEN Carry(p, p.code % 4)
              ELSE IF a.quit THEN a ELSE Transfer(a, v)
      BY DEF WCore
    <2> HIDE DEF p, a
    <2> QED BY <1>1, <2>1
  <1>4. a = IF Block(p) = NoBlock THEN Allocate(p, z) ELSE p
    OBVIOUS
  <1> HIDE DEF p, a
  <1>5. CASE p.code # 0
    <2>1. p.code % 4 \in Nat \ {0}
      <3>1. 2 % 4 = 2 /\ 5 % 4 = 1
        BY SMT
      <3> QED BY <1>2, <1>5, <3>1
    <2>2. n = Carry(p, p.code % 4)
      BY <1>3, <1>5
    <2>3. Apart(p, n) /\ SeenSame(p, n) /\ Current(n) /\ SavedGrows(p, n) /\ n.code = p.code % 4
      BY <1>1, <1>2, <2>1, <2>2, CarryText
    <2> QED BY <1>2, <2>1, <2>3, ApartTransitive, SameTransitive
  <1>6. CASE p.code = 0
    <2>1. AtWork(p) /\ p.fcb.cr < RPE /\ Target(p) = Target(m)
      BY <1>1, <1>2, <1>6
    <2>2. PICK t \in Records : t = Target(m) /\ t = Target(p)
      BY <1>1, <2>1, TargetRecord
    <2>3. /\ Sound(a) /\ Bound(a) /\ Apart(p, a) /\ Current(a) /\ SavedGrows(p, a) /\ SeenGrows(p, a)
          /\ a.fcb.cr < RPE /\ Target(a) = t
          /\ a.quit => a.code = 2 /\ SeenSame(p, a)
          /\ ~a.quit => a.code = 0 /\ Block(a) \in DataBlocks
      <3>1. CASE Block(p) # NoBlock
        <4>1. a = p
          BY <1>4, <3>1
        <4>2. Block(p) \in DataBlocks
          BY <1>1, <2>1, <3>1, BlockType
        <4> QED BY <1>1, <1>2, <1>6, <2>1, <2>2, <4>1, <4>2, SameGrows
      <3>2. CASE Block(p) = NoBlock
        <4>1. a = Allocate(p, z)
          BY <1>4, <3>2
        <4> QED BY <1>2, <2>1, <2>2, <3>2, <4>1, AllocateText
      <3> QED BY <3>1, <3>2
    <2>4. CASE a.quit
      <3>1. n = a /\ n.code # 0
        BY <1>3, <1>6, <2>3, <2>4
      <3> QED BY <1>2, <2>3, <2>4, <3>1, ApartTransitive, SameTransitive
    <2>5. CASE ~a.quit
      <3>1. n = Transfer(a, v)
        BY <1>3, <1>6, <2>5
      <3>2. Apart(a, n) /\ Current(n) /\ WriteEffect(a, n, t, v)
        BY <2>3, <2>5, <3>1, TransferText
      <3>3. n.code = 0
        BY <2>3, <2>5, <3>1, TransferSound
      <3>4. SeenGrows(m, a) /\ SavedGrows(m, a)
        BY <1>2, <2>3, SameGrows, SameTransitive DEF SeenGrows, SeenSame
      <3>5. SeenGrows(n, n) /\ SavedGrows(n, n)
        BY SameGrows
      <3>6. WriteEffect(m, n, t, v)
        BY <3>2, <3>4, <3>5, WriteEffectWithin
      <3> QED BY <1>2, <2>2, <2>3, <3>2, <3>3, <3>6, ApartTransitive
    <2> QED BY <2>4, <2>5
  <1> QED BY <1>5, <1>6

\* UB_WRITE: the extent prepared after a full one shows nothing of its own.
LEMMA SequentialWriteText ==
    ASSUME EXM = 0, NEW m, AtWork(m), Current(m), NEW v \in Values, NEW n, n = SequentialWrite(m, v)
    PROVE  /\ Apart(m, n) /\ Current(n)
           /\ n.code = 0 => Target(m) \in Records /\ WriteEffect(m, n, Target(m), v)
           /\ n.code # 0 => SeenSame(m, n) /\ SavedGrows(m, n)
  <1> DEFINE w == WCore(m, v, FALSE)
             k == NextEx(w, TRUE)
  <1>1. Sound(w) /\ Bound(w) /\ (w.code = 0 => ~w.quit)
    BY WCoreSound
  <1>2. /\ Apart(m, w) /\ Current(w)
        /\ w.code = 0 => Target(m) \in Records /\ WriteEffect(m, w, Target(m), v)
        /\ w.code # 0 => SeenSame(m, w) /\ SavedGrows(m, w)
    BY WCoreText
  <1>3. n = IF w.code = 0 /\ w.fcb.cr = RPE THEN IF k.quit THEN k ELSE Carry(k, 0) ELSE w
    BY DEF SequentialWrite
  <1>4. CASE w.code = 0 /\ w.fcb.cr = RPE
    <2>1. AtWork(w)
      BY <1>1, <1>4 DEF AtWork
    <2>2. Sound(k) /\ Bound(k) /\ ~k.quit
      BY <1>4, <2>1, NextExSound
    <2>3. Apart(w, k) /\ Current(k) /\ SeenSame(w, k) /\ Published(w, k)
      <3> HIDE DEF w
      <3> QED BY <1>2, <1>4, <2>1, NextExText
    <2>4. n = Carry(k, 0)
      BY <1>3, <1>4, <2>2
    <2> HIDE DEF w, k
    <2>5. Apart(k, n) /\ SeenSame(k, n) /\ SavedGrows(k, n) /\ Current(n) /\ n.code = 0
      BY <2>2, <2>3, <2>4, CarryText
    <2>6. SavedGrows(w, k)
      BY <1>1, <1>2, <2>3, SavedIsSeen DEF Published, SavedGrows
    <2>7. SeenGrows(w, n) /\ SavedGrows(w, n)
      BY <2>3, <2>5, <2>6, SameTransitive, SameGrows
    <2>8. SeenGrows(m, m) /\ SavedGrows(m, m)
      BY SameGrows
    <2>9. WriteEffect(m, n, Target(m), v)
      BY <1>2, <1>4, <2>7, <2>8, WriteEffectWithin
    <2> QED BY <1>2, <1>4, <2>3, <2>5, <2>9, ApartTransitive
  <1>5. CASE ~ (w.code = 0 /\ w.fcb.cr = RPE)
    <2>1. n = w
      BY <1>3, <1>5
    <2> HIDE DEF w, k
    <2> QED BY <1>2, <2>1
  <1> QED BY <1>4, <1>5

-----------------------------------------------------------------------------
(* The random calls.                                                       *)

\* UB_EXTENT is called for the extent of record r, with FCB c and all else
\* as in k, where nothing that the program sees is left unpublished.
Goes(m, r, w, k, c, n) ==
    /\ k = CCore(m) \/ (m.fcb.rc = 0 /\ k = m)
    /\ Sound(k) /\ Bound(k) /\ k.code = 0 /\ ~k.quit
    /\ c \in FCBs /\ OfExtent(c, r) /\ c.cr = Decode(r).cr
    /\ n = Extent([k EXCEPT !.fcb = c], w)

\* A random call either stays at its extent or goes there with its FCB
\* closed: what UB_RDECODE hands to UB_EXTENT.
LEMMA PositionParts ==
    ASSUME NEW m, AtWork(m), NEW r \in Nat, ~(r >= RandomEnd), NEW w \in BOOLEAN,
           NEW n, n = Position(m, r, w)
    PROVE  \/ /\ m.fcb.rc # 0 /\ OfExtent(m.fcb, r)
              /\ n = [m EXCEPT !.fcb = [m.fcb EXCEPT !.cr = Decode(r).cr]]
           \/ \E k, c : Goes(m, r, w, k, c, n)
  <1>0. Sound(m) /\ Bound(m) /\ m.code = 0 /\ ~m.quit
    BY DEF AtWork
  <1> DEFINE to == Decode(r)
             here == m.fcb.rc # 0 /\ m.fcb.s2 = to.s2 /\ m.fcb.ex = to.ex
             k == IF m.fcb.rc = 0 THEN m ELSE CCore(m)
             c == [k.fcb EXCEPT !.ex = to.ex, !.s2 = to.s2, !.cr = to.cr, !.clean = FALSE]
  <1>1. to.ex \in Extents /\ to.s2 \in Modules /\ to.cr \in 0 .. RPE
    <2>1. to.ex \in Extents /\ to.s2 \in Modules /\ to.cr \in Nat /\ to.cr < RPE
      BY AcceptedIsRecord, DecodeType
    <2> HIDE DEF to
    <2> QED BY <2>1, GeometryAssumption, SMT
  <1>2. Sound(k) /\ Bound(k) /\ k.code = 0 /\ ~k.quit
    BY <1>0, CCoreSound
  <1>3. k = CCore(m) \/ (m.fcb.rc = 0 /\ k = m)
    OBVIOUS
  <1>4. CASE here
    <2>1. n = [m EXCEPT !.fcb.cr = Decode(r).cr]
      BY <1>4 DEF Position
    <2>2. n = [m EXCEPT !.fcb = [m.fcb EXCEPT !.cr = Decode(r).cr]]
      BY <2>1
    <2> QED BY <1>4, <2>2 DEF OfExtent
  <1>5. CASE ~here
    <2>1. n = IF k.quit THEN k ELSE Extent([k EXCEPT !.fcb = c], w)
      BY <1>5 DEF Position
    <2>2. k.fcb \in FCBs
      BY <1>2, FCBType
    <2> HIDE DEF k, here, to
    <2>3. c \in FCBs /\ c.ex = to.ex /\ c.s2 = to.s2 /\ c.cr = to.cr
      BY <1>1, <2>2 DEF FCBs
    <2> HIDE DEF c
    <2>4. n = Extent([k EXCEPT !.fcb = c], w)
      BY <1>2, <2>1
    <2>5. OfExtent(c, r) /\ c.cr = Decode(r).cr
      BY <2>3 DEF OfExtent, to
    <2>6. Goes(m, r, w, k, c, n)
      BY <1>2, <1>3, <2>3, <2>4, <2>5 DEF Goes, k
    <2> QED BY <2>6
  <1> QED BY <1>4, <1>5

\* A random call that finds or makes its extent is at its record.
LEMMA PositionThere ==
    ASSUME NEW m, AtWork(m), NEW r \in Nat, NEW w \in BOOLEAN, NEW n, n = Position(m, r, w), n.code = 0
    PROVE  /\ r \in Records /\ r < RandomEnd /\ AtWork(n) /\ OfExtent(n.fcb, r)
           /\ n.fcb.cr = Decode(r).cr /\ n.fcb.cr < RPE /\ n.fcb.cr # RPE /\ Target(n) = r
  <1>1. Sound(n) /\ Bound(n) /\ ~n.quit
    <2>1. n = Position(m, r, TRUE) \/ n = Position(m, r, FALSE)
      <3>1. CASE w = TRUE
        BY <3>1
      <3>2. CASE w = FALSE
        BY <3>2
      <3> QED BY <3>1, <3>2
    <2>2. /\ Sound(n)
          /\ \/ Bound(n) /\ n.code = 0 /\ ~n.quit
             \/ Bound(n) /\ n.code = 6 /\ n.quit
             \/ n.code \notin {0, 1, 6} /\ ~n.quit
      BY <2>1, PositionSound
    <2> QED BY <2>2
  <1>2. ~(r >= RandomEnd) /\ r \in Records /\ r < RandomEnd
    <2>1. ASSUME r >= RandomEnd PROVE FALSE
      <3>1. n = Quit(m, 6)
        BY <2>1 DEF Position
      <3>2. n.code = 6
        BY <3>1, CarrySound DEF AtWork
      <3> QED BY <3>2
    <2> QED BY <2>1, AcceptedIsRecord
  <1>3. OfExtent(n.fcb, r) /\ n.fcb.cr = Decode(r).cr
    <2>1. CASE /\ m.fcb.rc # 0 /\ OfExtent(m.fcb, r)
               /\ n = [m EXCEPT !.fcb = [m.fcb EXCEPT !.cr = Decode(r).cr]]
      <3>1. m \in Calls /\ m.fcb \in FCBs
        BY FCBType DEF AtWork, Sound
      <3>2. n.fcb = [m.fcb EXCEPT !.cr = Decode(r).cr]
        BY <2>1, <3>1 DEF Calls
      <3> QED BY <2>1, <3>1, <3>2 DEF FCBs, OfExtent
    <2>2. CASE ~ (/\ m.fcb.rc # 0 /\ OfExtent(m.fcb, r)
                  /\ n = [m EXCEPT !.fcb = [m.fcb EXCEPT !.cr = Decode(r).cr]])
      <3>0. PICK k, c : Goes(m, r, w, k, c, n)
        BY <1>2, <2>2, PositionParts
      <3>1. /\ Sound(k) /\ c \in FCBs /\ OfExtent(c, r) /\ c.cr = Decode(r).cr
            /\ n = Extent([k EXCEPT !.fcb = c], w)
        BY <3>0 DEF Goes
      <3>2. PICK l : l = [k EXCEPT !.fcb = c]
        OBVIOUS
      <3>3. Sound(l) /\ l.fcb = c
        BY <3>1, <3>2, NewFCB
      <3>4. Stays(l, n)
        <4>1. CASE w = TRUE
          BY <3>1, <3>2, <3>3, <4>1, ExtentSound
        <4>2. CASE w = FALSE
          BY <3>1, <3>2, <3>3, <4>2, ExtentSound
        <4> QED BY <4>1, <4>2
      <3> QED BY <3>1, <3>3, <3>4 DEF Stays, OfExtent
    <2> QED BY <2>1, <2>2
  <1>4. Decode(r).cr < RPE /\ Decode(r).cr # RPE /\ ExtRec(Decode(r).s2, Decode(r).ex, Decode(r).cr) = r
    <2>1. Decode(r).cr < RPE /\ Decode(r).cr \in Nat
          /\ ExtRec(Decode(r).s2, Decode(r).ex, Decode(r).cr) = r
      BY <1>2, DecodeType
    <2> QED BY <2>1, GeometryAssumption, SMT
  <1>5. Target(n) = r
    BY <1>3, <1>4 DEF Target, OfExtent
  <1> QED BY <1>1, <1>2, <1>3, <1>4, <1>5 DEF AtWork

\* The way to the record takes nothing away, and there was no record where
\* a read finds no extent.
LEMMA PositionText ==
    ASSUME EXM = 0, NEW m, AtWork(m), Current(m), NEW r \in Nat, NEW w \in BOOLEAN,
           NEW n, n = Position(m, r, w)
    PROVE  /\ Apart(m, n) /\ SavedGrows(m, n)
           /\ n.code = 0 => Current(n) /\ SeenSame(m, n)
           /\ n.code = 6 => r >= RandomEnd /\ Current(n) /\ SeenSame(m, n)
           /\ n.code # 0 /\ ~w /\ ~(r >= RandomEnd) => \A v : ~Seen(m, r, v)
  <1>0. Sound(m) /\ Bound(m) /\ m.code = 0 /\ ~m.quit
    BY DEF AtWork
  <1>1. CASE r >= RandomEnd
    <2>1. n = Quit(m, 6)
      BY <1>1 DEF Position
    <2>2. Apart(m, n) /\ SavedGrows(m, n) /\ SeenSame(m, n) /\ Current(n) /\ n.code = 6
      BY <1>0, <2>1, CarryText
    <2> QED BY <1>1, <2>2
  <1>2. CASE /\ ~(r >= RandomEnd) /\ m.fcb.rc # 0 /\ OfExtent(m.fcb, r)
             /\ n = [m EXCEPT !.fcb = [m.fcb EXCEPT !.cr = Decode(r).cr]]
    <2>1. m \in Calls /\ m.fcb \in FCBs
      BY <1>0, FCBType DEF Sound
    <2>2. n.fcb = [m.fcb EXCEPT !.cr = Decode(r).cr] /\ n.dir = m.dir /\ n.data = m.data
          /\ n.name = m.name /\ n.code = m.code
      BY <1>2, <2>1 DEF Calls
    <2>3. n.fcb.ex = m.fcb.ex /\ n.fcb.s2 = m.fcb.s2 /\ n.fcb.rc = m.fcb.rc /\ n.fcb.map = m.fcb.map
          /\ n.fcb.clean = m.fcb.clean
      BY <2>1, <2>2 DEF FCBs
    <2>4. Apart(m, n) /\ SeenSame(m, n) /\ Current(n) /\ SavedGrows(m, n)
      BY <2>2, <2>3, SameText
    <2> QED BY <1>0, <2>2, <2>4
  <1>3. CASE /\ ~(r >= RandomEnd)
             /\ ~ (/\ m.fcb.rc # 0 /\ OfExtent(m.fcb, r)
                   /\ n = [m EXCEPT !.fcb = [m.fcb EXCEPT !.cr = Decode(r).cr]])
    <2>0. PICK k, c : Goes(m, r, w, k, c, n)
      BY <1>3, PositionParts
    <2>1. /\ k = CCore(m) \/ (m.fcb.rc = 0 /\ k = m)
          /\ Sound(k) /\ Bound(k) /\ k.code = 0 /\ ~k.quit
          /\ c \in FCBs /\ OfExtent(c, r) /\ c.cr = Decode(r).cr
          /\ n = Extent([k EXCEPT !.fcb = c], w)
      BY <2>0 DEF Goes
    <2>2. Current(k) /\ Settled(k) /\ Apart(m, k) /\ SeenSame(m, k)
      <3>1. CASE k = CCore(m)
        BY <1>0, <3>1, CCoreText
      <3>2. CASE m.fcb.rc = 0 /\ k = m
        BY <3>2, SameGrows DEF Settled
      <3> QED BY <2>1, <3>1, <3>2
    <2>3. PICK l : l = [k EXCEPT !.fcb = c]
      OBVIOUS
    <2>4. Sound(l) /\ SameDrive(k, l) /\ l.fcb = c /\ l.code = 0
      BY <2>1, <2>3, NewFCB
    <2>5. Apart(k, l) /\ SavedSame(k, l)
      BY <2>4, ApartSame DEF SameDrive
    <2>6. n = Extent(l, w)
      BY <2>1, <2>3
    <2>7. /\ Apart(l, n) /\ SavedSame(l, n)
          /\ n.code = 0 => Current(n) /\ n.fcb.clean
          /\ n.code # 0 /\ w => n.code \in {2, 5}
          /\ n.code # 0 /\ ~w => n.code = 255 /\ Found(l) = {}
      BY <2>4, <2>6, ExtentText
    <2>8. \A s \in Records : \A v : Seen(m, s, v) <=> Saved(k, s, v)
      BY <2>1, <2>2, SavedIsSeen DEF SeenSame
    <2>9. \A s \in Records : \A v : Saved(n, s, v) <=> Seen(m, s, v)
      BY <2>5, <2>7, <2>8 DEF SavedSame
    <2>10. SavedGrows(m, n)
      <3>1. \A s \in Records : \A v : Saved(m, s, v) => Seen(m, s, v)
        BY <1>0, SavedIsSeen
      <3> QED BY <2>9, <3>1 DEF SavedGrows
    <2>11. n.code = 0 => Current(n) /\ SeenSame(m, n)
      <3>1. ASSUME n.code = 0 PROVE Sound(n) /\ Bound(n) /\ Settled(n) /\ Current(n)
        <4>1. AtWork(n)
          BY <3>1, PositionThere
        <4> QED BY <2>7, <3>1, <4>1 DEF AtWork, Settled
      <3>2. ASSUME n.code = 0 PROVE SeenSame(m, n)
        <4>1. \A s \in Records : \A v : Seen(n, s, v) <=> Saved(n, s, v)
          BY <3>1, <3>2, SavedIsSeen
        <4> QED BY <2>9, <4>1 DEF SeenSame
      <3> QED BY <3>1, <3>2
    <2>12. ASSUME n.code # 0, ~w PROVE \A v : ~Seen(m, r, v)
      <3>1. Found(l) = {} /\ OfExtent(l.fcb, r)
        BY <2>1, <2>4, <2>7, <2>12
      <3>2. r \in Records
        BY <1>3, AcceptedIsRecord
      <3>3. \A v : ~Saved(l, r, v)
        BY <2>4, <3>1, <3>2, NoExtentNoRecord
      <3> QED BY <2>5, <2>8, <3>2, <3>3 DEF SavedSame
    <2>13. n.code # 6
      BY <2>7
    <2>14. Apart(m, n)
      BY <2>2, <2>5, <2>7, ApartTransitive
    <2> QED BY <2>10, <2>11, <2>12, <2>13, <2>14
  <1> QED BY <1>1, <1>2, <1>3

\* UB_RRETURN leaves what the FCB says of its extent.
LEMMA ReturnText ==
    ASSUME NEW m, Sound(m), NEW r, NEW n, n = Return(m, r)
    PROVE  /\ Apart(m, n) /\ SeenSame(m, n) /\ (Current(m) => Current(n)) /\ SavedGrows(m, n)
           /\ n.code = m.code /\ n.val = m.val
           /\ n.fcb.ex = m.fcb.ex /\ n.fcb.s2 = m.fcb.s2 /\ n.fcb.map = m.fcb.map
           /\ n.dir = m.dir
  <1>1. m \in Calls /\ m.fcb \in FCBs
    BY FCBType DEF Sound
  <1>2. CASE m.quit
    <2>1. n = m
      BY <1>2 DEF Return
    <2> QED BY <2>1, SameText
  <1>3. CASE ~m.quit
    <2>1. n = [m EXCEPT !.fcb.cr = r % RPE]
      BY <1>3 DEF Return
    <2>2. n.fcb = [m.fcb EXCEPT !.cr = r % RPE] /\ n.dir = m.dir /\ n.data = m.data
          /\ n.name = m.name /\ n.code = m.code /\ n.val = m.val
      BY <1>1, <2>1 DEF Calls
    <2>3. n.fcb.ex = m.fcb.ex /\ n.fcb.s2 = m.fcb.s2 /\ n.fcb.rc = m.fcb.rc /\ n.fcb.map = m.fcb.map
          /\ n.fcb.clean = m.fcb.clean
      BY <1>1, <2>2 DEF FCBs
    <2> QED BY <2>2, <2>3, SameText
  <1> QED BY <1>2, <1>3

\* Function 33 delivers the record it names, or there is none.
LEMMA RandomReadText ==
    ASSUME EXM = 0, NEW m, AtWork(m), Current(m), NEW r \in Nat, NEW n, n = RandomRead(m, r)
    PROVE  /\ Apart(m, n) /\ SavedGrows(m, n)
           /\ n.code \in {0, 1, 6} => Current(n) /\ SeenSame(m, n)
           /\ n.code = 0 => r \in Records /\ r < RandomEnd /\ Seen(m, r, n.val)
           /\ n.code # 0 /\ ~(r >= RandomEnd) => \A v : ~Seen(m, r, v)
  <1> DEFINE p == Position(m, r, FALSE)
             k == ReadCore(p)
  <1>1. /\ Sound(p)
        /\ \/ Bound(p) /\ p.code = 0 /\ ~p.quit
           \/ Bound(p) /\ p.code = 6 /\ p.quit
           \/ p.code \notin {0, 1, 6} /\ ~p.quit
    BY PositionSound
  <1>2. /\ Apart(m, p) /\ SavedGrows(m, p)
        /\ p.code = 0 => Current(p) /\ SeenSame(m, p)
        /\ p.code = 6 => r >= RandomEnd /\ Current(p) /\ SeenSame(m, p)
        /\ p.code # 0 /\ ~(r >= RandomEnd) => \A v : ~Seen(m, r, v)
    <2> DEFINE w == FALSE
    <2>1. p = Position(m, r, w) /\ w \in BOOLEAN /\ ~w
      OBVIOUS
    <2> HIDE DEF w, p
    <2> QED BY <2>1, PositionText
  <1>3. p.code = 0 => /\ r \in Records /\ r < RandomEnd /\ AtWork(p) /\ p.fcb.cr # RPE
                      /\ Target(p) = r
    BY PositionThere
  <1>4. n = IF p.quit THEN p ELSE IF p.code # 0 THEN Quit(p, 255) ELSE Return(k, r)
    BY DEF RandomRead
  <1>5. CASE p.code = 0
    <2>1. Sound(k)
      <3> HIDE DEF p
      <3> QED BY <1>3, <1>5, ReadCoreSound
    <2>2. /\ Apart(p, k) /\ Current(k) /\ SeenSame(p, k) /\ SavedGrows(p, k)
          /\ k.code = 0 => Seen(p, r, k.val)
          /\ k.code # 0 => \A v : ~Seen(p, r, v)
      <3> HIDE DEF p
      <3> QED BY <1>2, <1>3, <1>5, ReadCoreText
    <2> HIDE DEF p, k
    <2>3. n = Return(k, r)
      BY <1>1, <1>4, <1>5
    <2>4. /\ Apart(k, n) /\ SeenSame(k, n) /\ Current(n) /\ SavedGrows(k, n)
          /\ n.code = k.code /\ n.val = k.val
      BY <2>1, <2>2, <2>3, ReturnText
    <2>5. Apart(m, n) /\ SavedGrows(m, n) /\ SeenSame(m, n)
      BY <1>2, <1>5, <2>2, <2>4, ApartTransitive, SameTransitive
    <2>6. \A v : Seen(p, r, v) <=> Seen(m, r, v)
      BY <1>2, <1>3, <1>5 DEF SeenSame
    <2> QED BY <1>3, <1>5, <2>2, <2>4, <2>5, <2>6
  <1> HIDE DEF p, k
  <1>6. CASE p.code = 6
    <2>1. n = p
      BY <1>1, <1>4, <1>6
    <2> QED BY <1>2, <1>6, <2>1
  <1>7. CASE p.code \notin {0, 6}
    <2>1. n = Quit(p, 255)
      BY <1>1, <1>4, <1>7
    <2>2. Apart(p, n) /\ SavedGrows(p, n) /\ n.code = 255
      BY <1>1, <2>1, CarryText
    <2> QED BY <1>2, <1>7, <2>2, ApartTransitive, SameTransitive
  <1> QED BY <1>5, <1>6, <1>7

\* Functions 34 and 40 write the record they name, or take nothing away.
LEMMA RandomWriteText ==
    ASSUME EXM = 0, NEW m, AtWork(m), Current(m), NEW r \in Nat, NEW v \in Values,
           NEW z \in BOOLEAN, NEW n, n = RandomWrite(m, r, v, z)
    PROVE  /\ Apart(m, n)
           /\ n.code \in {0, 1, 6} => Current(n)
           /\ n.code = 0 => r \in Records /\ r < RandomEnd /\ WriteEffect(m, n, r, v)
           /\ n.code # 0 => SavedGrows(m, n)
           /\ n.code \in {1, 6} => SeenSame(m, n)
  <1> DEFINE p == Position(m, r, TRUE)
             k == WCore(p, v, z)
  <1>1. /\ Sound(p)
        /\ \/ Bound(p) /\ p.code = 0 /\ ~p.quit
           \/ Bound(p) /\ p.code = 6 /\ p.quit
           \/ p.code \notin {0, 1, 6} /\ ~p.quit
    BY PositionSound
  <1>2. /\ Apart(m, p) /\ SavedGrows(m, p)
        /\ p.code = 0 => Current(p) /\ SeenSame(m, p)
        /\ p.code = 6 => r >= RandomEnd /\ Current(p) /\ SeenSame(m, p)
    BY PositionText
  <1>3. p.code = 0 => r \in Records /\ r < RandomEnd /\ AtWork(p) /\ Target(p) = r
    BY PositionThere
  <1>4. n = IF p.code # 0 THEN p ELSE Return(k, r)
    BY DEF RandomWrite
  <1>5. CASE p.code = 0
    <2>1. Sound(k)
      <3> HIDE DEF p
      <3>1. CASE z = TRUE
        BY <1>3, <1>5, <3>1, WCoreSound
      <3>2. CASE z = FALSE
        BY <1>3, <1>5, <3>2, WCoreSound
      <3> QED BY <3>1, <3>2
    <2>2. /\ Apart(p, k) /\ Current(k)
          /\ k.code = 0 => WriteEffect(p, k, r, v)
          /\ k.code # 0 => SeenSame(p, k) /\ SavedGrows(p, k)
      <3> HIDE DEF p
      <3> QED BY <1>2, <1>3, <1>5, WCoreText
    <2>3. n = Return(k, r)
      BY <1>4, <1>5
    <2> HIDE DEF p, k
    <2>4. /\ Apart(k, n) /\ SeenSame(k, n) /\ Current(n) /\ SavedGrows(k, n)
          /\ n.code = k.code
      BY <2>1, <2>2, <2>3, ReturnText
    <2>5. Apart(m, n)
      BY <1>2, <2>2, <2>4, ApartTransitive
    <2>6. CASE k.code = 0
      <3>1. SeenGrows(m, p) /\ SavedGrows(m, p) /\ SeenGrows(k, n) /\ SavedGrows(k, n)
        BY <1>2, <1>5, <2>4, SameGrows
      <3>2. WriteEffect(m, n, r, v)
        BY <1>3, <1>5, <2>2, <2>6, <3>1, WriteEffectWithin
      <3> QED BY <1>3, <1>5, <2>4, <2>5, <2>6, <3>2
    <2>7. CASE k.code # 0
      BY <1>2, <1>5, <2>2, <2>4, <2>5, <2>7, SameTransitive
    <2> QED BY <2>6, <2>7
  <1> HIDE DEF p, k
  <1>6. CASE p.code # 0
    <2>1. n = p
      BY <1>4, <1>6
    <2> QED BY <1>1, <1>2, <1>6, <2>1
  <1> QED BY <1>5, <1>6

-----------------------------------------------------------------------------
(* The records of a file as a set: the abstract state.                     *)

\* The records of a file for a program that opens it anew, and for one with
\* FCB c.
SavedSet(dd, dat, nm) == {p \in Records \X Values : SavedIn(dd, dat, nm, p[1], p[2])}
SeenSet(dd, dat, nm, c) == {p \in Records \X Values : SeenIn(dd, dat, nm, c, p[1], p[2])}

\* Every record has contents.
LEMMA ContentType ==
    ASSUME NEW e, e.map \in Maps, NEW r \in Records, Has(e, r),
           NEW dat \in [DataBlocks -> Blocks]
    PROVE  Content(e, dat, r) \in Values
  <1>1. Spot(r) \in Indexes /\ Place(r) \in 0 .. BLK - 1
    BY DecodeType
  <1>2. e.map[Spot(r)] \in DataBlocks
    BY <1>1 DEF Has, Maps
  <1>3. dat[e.map[Spot(r)]] \in Blocks
    BY <1>2
  <1> QED BY <1>1, <1>3 DEF Content, Blocks

\* The numbers of an extent.
LEMMA HereIsExtent ==
    ASSUME NEW s \in Modules, NEW x \in Extents, NEW r \in Records
    PROVE  r \in ExtRec(s, x, 0) .. ExtRec(s, x, RPE - 1) <=>
             x = Decode(r).ex /\ s = Decode(r).s2
  <1> DEFINE b == (s * NEX + x) * RPE
  <1>1. s \in Nat /\ x \in Nat /\ RPE \in Nat \ {0} /\ NEX \in Nat \ {0} /\ NS2 \in Nat \ {0}
    BY GeometryAssumption, SMT DEF Modules, Extents
  <1>2. b \in Nat
    <2>1. s * NEX \in Nat
      BY <1>1, MulNat
    <2>2. s * NEX + x \in Nat
      BY <1>1, <2>1, SMT
    <2> QED BY <1>1, <2>2, MulNat
  <1>3. r \in Nat
    BY DEF Records
  <1>4. \A c : ExtRec(s, x, c) = b + c
    BY DEF ExtRec
  <1> HIDE DEF b
  <1>5. ASSUME r \in ExtRec(s, x, 0) .. ExtRec(s, x, RPE - 1)
        PROVE  x = Decode(r).ex /\ s = Decode(r).s2
    <2>1. PICK c \in 0 .. RPE - 1 : r = b + c
      <3>1. r \in b + 0 .. b + (RPE - 1)
        BY <1>4, <1>5
      <3>2. r - b \in 0 .. RPE - 1 /\ r = b + (r - b)
        BY <1>1, <1>2, <1>3, <3>1, SMT
      <3> QED BY <3>2
    <2>2. Decode(ExtRec(s, x, c)) = [ex |-> x, s2 |-> s, cr |-> c]
      BY NumberExact
    <2> QED BY <1>4, <2>1, <2>2
  <1>6. ASSUME x = Decode(r).ex, s = Decode(r).s2
        PROVE  r \in ExtRec(s, x, 0) .. ExtRec(s, x, RPE - 1)
    <2>1. PICK c \in Nat : c = Decode(r).cr /\ c < RPE
      BY DecodeType
    <2>2. r = b + c
      BY <1>4, <1>6, <2>1, DecodeType
    <2>3. r \in b + 0 .. b + (RPE - 1)
      BY <1>1, <1>2, <2>1, <2>2, SMT
    <2> QED BY <1>4, <2>3
  <1> QED BY <1>5, <1>6

\* What a fresh Open of a file shows.
KeptIsSaved == \A f \in Files : Kept(f) = SavedSet(dir[Drive(f)], data[Drive(f)], Name(f))

\* It is what is saved of it.
LEMMA KeptSets == EXM = 0 /\ TypeOK => KeptIsSaved
  <1> SUFFICES ASSUME EXM = 0, TypeOK, NEW f \in Files
               PROVE  Kept(f) = SavedSet(dir[Drive(f)], data[Drive(f)], Name(f))
    BY DEF KeptIsSaved
  <1>1. PICK d \in Drives, nm \in Names : d = Drive(f) /\ nm = Name(f) /\ nm # "none"
    BY FileType, FilesAssumption
  <1>2. dir[d] \in [Slots -> Entries \cup {NoEntry}] /\ data[d] \in [DataBlocks -> Blocks]
    BY DEF TypeOK
  <1>3. ASSUME NEW i \in Slots, dir[d][i].name = nm
        PROVE  /\ dir[d][i] \in Entries /\ dir[d][i].ex \in Extents /\ dir[d][i].s2 \in Modules
               /\ dir[d][i].rc \in 0 .. RPE /\ dir[d][i].map \in Maps
               /\ ActiveRC(dir[d][i].ex, dir[d][i].rc, dir[d][i].ex) = dir[d][i].rc
    <2>1. dir[d][i] \in Entries
      BY <1>1, <1>2, <1>3, LiveIffNamed
    <2>2. dir[d][i].ex \in Nat
      BY <2>1, GeometryAssumption, SMT DEF Entries, Extents
    <2>3. ~ (dir[d][i].ex > dir[d][i].ex)
      BY <2>2, SMT
    <2> QED BY <2>1, <2>3 DEF Entries, ActiveRC
  <1>4. ASSUME NEW p \in Kept(f)
        PROVE  p \in SavedSet(dir[d], data[d], nm)
    <2>1. PICK i \in Slots : /\ dir[d][i].name = nm
                 /\ p \in UNION {Shown(d, x, dir[d][i].s2, ActiveRC(dir[d][i].ex, dir[d][i].rc, x),
                                       dir[d][i].map) :
                                   x \in {y \in Extents : Group(y) = Group(dir[d][i].ex)}}
      BY <1>1 DEF Kept, EntriesOf
    <2>2. PICK x \in Extents : /\ Group(x) = Group(dir[d][i].ex)
                 /\ p \in Shown(d, x, dir[d][i].s2, ActiveRC(dir[d][i].ex, dir[d][i].rc, x),
                                       dir[d][i].map)
      BY <2>1
    <2>3. x = dir[d][i].ex
      BY <1>3, <2>1, <2>2, GroupOfOne
    <2>4. p \in Shown(d, dir[d][i].ex, dir[d][i].s2, dir[d][i].rc, dir[d][i].map)
      BY <1>3, <2>1, <2>2, <2>3
    <2>9. Exhibits(d, dir[d][i], p)
      BY <1>3, <2>1, <2>4, ShownRecords
    <2>5. PICK r \in Records : Has(dir[d][i], r) /\ p = <<r, Content(dir[d][i], data[d], r)>>
      BY <2>9 DEF Exhibits
    <2>6. Content(dir[d][i], data[d], r) \in Values
      BY <1>2, <1>3, <2>1, <2>5, ContentType
    <2> QED BY <2>1, <2>5, <2>6 DEF SavedSet, SavedIn
  <1>5. ASSUME NEW p \in SavedSet(dir[d], data[d], nm)
        PROVE  p \in Kept(f)
    <2>1. PICK r \in Records, v \in Values : p = <<r, v>> /\ SavedIn(dir[d], data[d], nm, r, v)
      BY DEF SavedSet
    <2>2. PICK i \in Slots : dir[d][i].name = nm /\ Has(dir[d][i], r)
                             /\ v = Content(dir[d][i], data[d], r)
      BY <2>1 DEF SavedIn
    <2>10. Exhibits(d, dir[d][i], p)
      BY <2>1, <2>2 DEF Exhibits
    <2>3. p \in Shown(d, dir[d][i].ex, dir[d][i].s2, dir[d][i].rc, dir[d][i].map)
      BY <1>3, <2>2, <2>10, ShownRecords
    <2>4. PICK x \in Extents : x = dir[d][i].ex
      BY <1>3, <2>2
    <2>5. p \in Shown(d, x, dir[d][i].s2, ActiveRC(dir[d][i].ex, dir[d][i].rc, x), dir[d][i].map)
      BY <1>3, <2>2, <2>3, <2>4
    <2>6. x \in {y \in Extents : Group(y) = Group(dir[d][i].ex)}
      BY <2>4
    <2>7. i \in EntriesOf(f)
      BY <1>1, <2>2 DEF EntriesOf
    <2>8. p \in UNION {Shown(d, y, dir[d][i].s2, ActiveRC(dir[d][i].ex, dir[d][i].rc, y),
                             dir[d][i].map) :
                         y \in {y \in Extents : Group(y) = Group(dir[d][i].ex)}}
      BY <2>5, <2>6
    <2> QED BY <1>1, <2>7, <2>8 DEF Kept
  <1> QED BY <1>1, <1>4, <1>5

\* What the program of a file sees of it.
TextIsSeen ==
    \A f \in Files : Text(f) = IF f \in open
                               THEN SeenSet(dir[Drive(f)], data[Drive(f)], Name(f), fcb[f])
                               ELSE Kept(f)

\* It is what its FCB and the directory show together.
LEMMA TextSets == EXM = 0 /\ TypeOK => TextIsSeen
  <1> SUFFICES ASSUME EXM = 0, TypeOK, NEW f \in Files, f \in open
               PROVE  Text(f) = SeenSet(dir[Drive(f)], data[Drive(f)], Name(f), fcb[f])
    BY DEF Text, TextIsSeen
  <1>1. PICK d \in Drives, nm \in Names : d = Drive(f) /\ nm = Name(f)
    BY FileType
  <1>2. data[d] \in [DataBlocks -> Blocks]
    BY DEF TypeOK
  <1>3. PICK c \in FCBs : c = fcb[f]
    BY DEF TypeOK
  <1>4. c.ex \in Extents /\ c.s2 \in Modules /\ c.rc \in 0 .. RPE /\ c.map \in Maps
    BY DEF FCBs
  <1>5. Kept(f) = SavedSet(dir[d], data[d], nm)
    BY <1>1, KeptSets DEF KeptIsSaved
  <1>6. Text(f) = {p \in Kept(f) : p[1] \notin ExtRec(c.s2, c.ex, 0) .. ExtRec(c.s2, c.ex, RPE - 1)}
                    \cup Shown(d, c.ex, c.s2, c.rc, c.map)
    BY <1>1, <1>3 DEF Text
  <1>7. \A r \in Records :
          r \in ExtRec(c.s2, c.ex, 0) .. ExtRec(c.s2, c.ex, RPE - 1) <=> OfExtent(c, r)
    BY <1>4, HereIsExtent DEF OfExtent
  <1>8. ASSUME NEW p \in Text(f) PROVE p \in SeenSet(dir[d], data[d], nm, c)
    <2>1. CASE p \in Kept(f) /\ p[1] \notin ExtRec(c.s2, c.ex, 0) .. ExtRec(c.s2, c.ex, RPE - 1)
      <3>1. p \in Records \X Values /\ SavedIn(dir[d], data[d], nm, p[1], p[2])
        BY <1>5, <2>1 DEF SavedSet
      <3>2. ~OfExtent(c, p[1])
        BY <1>7, <2>1, <3>1
      <3> QED BY <3>1, <3>2 DEF SeenSet, SeenIn
    <2>2. CASE p \in Shown(d, c.ex, c.s2, c.rc, c.map)
      <3>1. PICK r \in Records : Has(c, r) /\ p = <<r, Content(c, data[d], r)>>
        <4>1. Exhibits(d, c, p)
          BY <1>4, <2>2, ShownRecords
        <4> QED BY <4>1 DEF Exhibits
      <3>2. Content(c, data[d], r) \in Values
        BY <1>2, <1>4, <3>1, ContentType
      <3>3. OfExtent(c, r)
        BY <3>1 DEF Has
      <3>4. SeenIn(dir[d], data[d], nm, c, r, Content(c, data[d], r))
        BY <3>1, <3>3 DEF SeenIn
      <3> QED BY <3>1, <3>2, <3>4 DEF SeenSet
    <2> QED BY <1>6, <2>1, <2>2
  <1>9. ASSUME NEW p \in SeenSet(dir[d], data[d], nm, c) PROVE p \in Text(f)
    <2>1. PICK r \in Records, v \in Values : p = <<r, v>> /\ SeenIn(dir[d], data[d], nm, c, r, v)
      BY DEF SeenSet
    <2>2. CASE OfExtent(c, r)
      <3>1. Has(c, r) /\ v = Content(c, data[d], r)
        BY <2>1, <2>2 DEF SeenIn
      <3>3. Exhibits(d, c, p)
        BY <2>1, <3>1 DEF Exhibits
      <3>2. p \in Shown(d, c.ex, c.s2, c.rc, c.map)
        BY <1>4, <3>3, ShownRecords
      <3> QED BY <1>6, <3>2
    <2>3. CASE ~OfExtent(c, r)
      <3>1. SavedIn(dir[d], data[d], nm, r, v)
        BY <2>1, <2>3 DEF SeenIn
      <3>2. p \in Kept(f)
        BY <1>5, <2>1, <3>1 DEF SavedSet
      <3>3. p[1] = r
        BY <2>1
      <3> QED BY <1>6, <1>7, <2>3, <3>2, <3>3
    <2> QED BY <2>2, <2>3
  <1> QED BY <1>1, <1>3, <1>8, <1>9

\* A call that leaves other files alone changes none of their records.
LEMMA ApartOthers ==
    ASSUME NEW m, m.dir \in [Slots -> Entries \cup {NoEntry}], NEW n, Apart(m, n),
           NEW nm \in Names, nm # m.name
    PROVE  /\ \A i \in Slots : (m.dir[i].name = nm \/ n.dir[i].name = nm) => n.dir[i] = m.dir[i]
           /\ SavedSet(n.dir, n.data, nm) = SavedSet(m.dir, m.data, nm)
           /\ \A c : (\E i \in Slots : m.dir[i].name = nm /\ m.dir[i].map = c.map) =>
                SeenSet(n.dir, n.data, nm, c) = SeenSet(m.dir, m.data, nm, c)
  <1>1. nm # "none"
    BY FilesAssumption
  <1>2. ASSUME NEW i \in Slots, m.dir[i].name = nm
        PROVE  /\ n.dir[i] = m.dir[i]
               /\ \A q \in Indexes : m.dir[i].map[q] # NoBlock =>
                     n.data[m.dir[i].map[q]] = m.data[m.dir[i].map[q]]
    BY <1>1, <1>2 DEF Apart
  <1>3. ASSUME NEW i \in Slots, n.dir[i].name = nm PROVE m.dir[i].name = nm
    <2>1. m.dir[i].name # m.name
      BY <1>3 DEF Apart
    <2>2. m.dir[i].name # "none"
      BY <1>1, <1>3 DEF Apart
    <2>3. n.dir[i] = m.dir[i]
      BY <2>1, <2>2 DEF Apart
    <2> QED BY <1>3, <2>3
  <1>4. ASSUME NEW i \in Slots, m.dir[i].name = nm, NEW c, c.map = m.dir[i].map,
               NEW r \in Records, Has(c, r)
        PROVE  Content(c, n.data, r) = Content(c, m.data, r)
    <2>1. Spot(r) \in Indexes /\ c.map[Spot(r)] # NoBlock
      BY <1>4, DecodeType DEF Has
    <2> QED BY <1>2, <1>4, <2>1 DEF Content
  <1>5. ASSUME NEW r \in Records, NEW v
        PROVE  SavedIn(n.dir, n.data, nm, r, v) <=> SavedIn(m.dir, m.data, nm, r, v)
    BY <1>2, <1>3, <1>4 DEF SavedIn
  <1>6. SavedSet(n.dir, n.data, nm) = SavedSet(m.dir, m.data, nm)
    BY <1>5 DEF SavedSet
  <1>7. ASSUME NEW c, NEW i \in Slots, m.dir[i].name = nm, m.dir[i].map = c.map
        PROVE  SeenSet(n.dir, n.data, nm, c) = SeenSet(m.dir, m.data, nm, c)
    <2>1. ASSUME NEW r \in Records, NEW v
          PROVE  SeenIn(n.dir, n.data, nm, c, r, v) <=> SeenIn(m.dir, m.data, nm, c, r, v)
      BY <1>4, <1>5, <1>7 DEF SeenIn
    <2> QED BY <2>1 DEF SeenSet
  <1> QED BY <1>2, <1>3, <1>6, <1>7

-----------------------------------------------------------------------------
(* The invariant of the refinement.                                        *)

\* The FCB of an open file counts no fewer records than the entry it is at,
\* and as many if it is clean.
Counts(dd, g, c) ==
    \A i \in Hits(dd, Name(g), c.ex, c.s2) :
        dd[i].rc <= c.rc /\ (c.clean => dd[i].rc = c.rc)
CountsCurrent == \A f \in open : Counts(dir[Drive(f)], f, fcb[f])

\* A file that has an extent has its first one, which is what Make looks for.
Begun(dd) == \A i \in Slots : dd[i].name # "none" => Hits(dd, dd[i].name, 0, 0) # {}
FilesBegin == \A d \in Drives : Begun(dir[d])

RInv == IInv /\ CountsCurrent /\ FilesBegin

\* A call with result n changes nothing of the file called nm.
Spared(m, n, nm) ==
    /\ \A i \in Slots : (m.dir[i].name = nm \/ n.dir[i].name = nm) => n.dir[i] = m.dir[i]
    /\ SavedSet(n.dir, n.data, nm) = SavedSet(m.dir, m.data, nm)
    /\ \A c : (\E i \in Slots : m.dir[i].name = nm /\ m.dir[i].map = c.map) =>
          SeenSet(n.dir, n.data, nm, c) = SeenSet(m.dir, m.data, nm, c)

\* What a call leaves of the files that are not in S.
Others(S) ==
    \A g \in Files \ S : /\ Kept(g)' = Kept(g) /\ Text(g)' = Text(g)
                         /\ EntriesOf(g)' = {} <=> EntriesOf(g) = {}

\* A call that leaves the data and the entries of a file alone spares it.
LEMMA PlainSpared ==
    ASSUME NEW m, NEW n, n.data = m.data, NEW nm,
           \A i \in Slots : (m.dir[i].name = nm \/ n.dir[i].name = nm) => n.dir[i] = m.dir[i]
    PROVE  Spared(m, n, nm)
  <1>1. \A r \in Records : \A v :
          SavedIn(n.dir, n.data, nm, r, v) <=> SavedIn(m.dir, m.data, nm, r, v)
    BY DEF SavedIn
  <1>2. \A c : \A r \in Records : \A v :
          SeenIn(n.dir, n.data, nm, c, r, v) <=> SeenIn(m.dir, m.data, nm, c, r, v)
    BY <1>1 DEF SeenIn
  <1> QED BY <1>1, <1>2 DEF Spared, SavedSet, SeenSet

\* The records of the files, before and after a step.
LEMMA FileSets ==
    ASSUME EXM = 0, TypeOK, TypeOK', NEW g \in Files
    PROVE  /\ Kept(g) = SavedSet(dir[Drive(g)], data[Drive(g)], Name(g))
           /\ Text(g) = IF g \in open
                        THEN SeenSet(dir[Drive(g)], data[Drive(g)], Name(g), fcb[g]) ELSE Kept(g)
           /\ Kept(g)' = SavedSet(dir'[Drive(g)], data'[Drive(g)], Name(g))
           /\ Text(g)' = IF g \in open'
                         THEN SeenSet(dir'[Drive(g)], data'[Drive(g)], Name(g), fcb'[g])
                         ELSE Kept(g)'
  <1>1. KeptIsSaved /\ TextIsSeen
    BY KeptSets, TextSets
  <1>2. (EXM = 0 /\ TypeOK => KeptIsSaved)'
    BY KeptSets, PTL
  <1>3. (EXM = 0 /\ TypeOK => TextIsSeen)'
    BY TextSets, PTL
  <1>4. KeptIsSaved' /\ TextIsSeen'
    BY <1>2, <1>3
  <1> QED BY <1>1, <1>4 DEF KeptIsSaved, TextIsSeen

\* The files that a call spares are as before.
LEMMA OthersEffect ==
    ASSUME EXM = 0, RInv, IInv', NEW S, NEW d \in Drives,
           NEW m, m.dir = dir[d], m.data = data[d], NEW n,
           dir' = [dir EXCEPT ![d] = n.dir], data' = [data EXCEPT ![d] = n.data],
           \A g \in Files \ S : /\ (g \in open' <=> g \in open) /\ fcb'[g] = fcb[g]
                                /\ Drive(g) = d => Spared(m, n, Name(g))
    PROVE  /\ Others(S)
           /\ dir'[d] = n.dir /\ data'[d] = n.data
           /\ \A e \in Drives : e # d => dir'[e] = dir[e]
           /\ (\A f \in S : f \in open' => Counts(dir'[Drive(f)], f, fcb'[f])) => CountsCurrent'
  <1>2. TypeOK /\ TypeOK'
    BY DEF RInv, IInv
  <1>3. /\ dir \in [Drives -> [Slots -> Entries \cup {NoEntry}]]
        /\ data \in [Drives -> [DataBlocks -> Blocks]]
    BY <1>2 DEF TypeOK
  <1>4. /\ dir'[d] = n.dir /\ data'[d] = n.data
        /\ \A e \in Drives : e # d => dir'[e] = dir[e] /\ data'[e] = data[e]
    BY <1>3
  <1>8. ASSUME NEW g \in Files \ S
        PROVE  /\ Kept(g)' = Kept(g) /\ Text(g)' = Text(g)
               /\ EntriesOf(g)' = {} <=> EntriesOf(g) = {}
               /\ g \in open' => Counts(dir'[Drive(g)], g, fcb'[g])
    <2>1. Drive(g) \in Drives
      BY FileType
    <2>2. g \in open => Counts(dir[Drive(g)], g, fcb[g])
      BY DEF RInv, CountsCurrent
    <2>5. /\ Kept(g) = SavedSet(dir[Drive(g)], data[Drive(g)], Name(g))
          /\ Text(g) = IF g \in open
                       THEN SeenSet(dir[Drive(g)], data[Drive(g)], Name(g), fcb[g]) ELSE Kept(g)
          /\ Kept(g)' = SavedSet(dir'[Drive(g)], data'[Drive(g)], Name(g))
          /\ Text(g)' = IF g \in open'
                        THEN SeenSet(dir'[Drive(g)], data'[Drive(g)], Name(g), fcb'[g])
                        ELSE Kept(g)'
      BY <1>2, FileSets
    <2>3. CASE Drive(g) # d
      BY <1>4, <2>1, <2>2, <2>3, <2>5 DEF EntriesOf
    <2>4. CASE Drive(g) = d
      <3>7. Spared(m, n, Name(g))
        BY <2>4
      <3>1. Kept(g)' = Kept(g)
        BY <1>4, <2>4, <2>5, <3>7 DEF Spared
      <3>2. ASSUME g \in open PROVE Text(g)' = Text(g)
        <4>1. \E i \in Slots : m.dir[i].name = Name(g) /\ m.dir[i].map = fcb[g].map
          BY <2>4, <3>2 DEF RInv, IInv, OpenMapsPublished, Hits
        <4>2. SeenSet(n.dir, n.data, Name(g), fcb[g]) = SeenSet(m.dir, m.data, Name(g), fcb[g])
          BY <3>7, <4>1 DEF Spared
        <4>3. g \in open' /\ fcb'[g] = fcb[g]
          BY <3>2
        <4> QED BY <1>4, <2>4, <2>5, <3>2, <4>2, <4>3
      <3>3. g \notin open => Text(g)' = Text(g)
        BY <2>5, <3>1
      <3>4. \A i \in Slots : /\ n.dir[i].name = Name(g) <=> m.dir[i].name = Name(g)
                             /\ n.dir[i].name = Name(g) => n.dir[i] = m.dir[i]
        BY <3>7 DEF Spared
      <3>5. EntriesOf(g)' = EntriesOf(g)
        BY <1>4, <2>4, <3>4 DEF EntriesOf
      <3>6. g \in open => Counts(n.dir, g, fcb[g])
        BY <2>2, <2>4, <3>4 DEF Counts, Hits
      <3> QED BY <1>4, <2>4, <3>1, <3>2, <3>3, <3>5, <3>6
    <2> QED BY <2>3, <2>4
  <1>9. Others(S)
    BY <1>8 DEF Others
  <1>10. ASSUME \A f \in S : f \in open' => Counts(dir'[Drive(f)], f, fcb'[f])
         PROVE  CountsCurrent'
    <2>1. \A g \in open' : g \in Files
      BY <1>2 DEF TypeOK
    <2> QED BY <1>8, <1>10, <2>1 DEF CountsCurrent
  <1> QED BY <1>4, <1>9, <1>10

\* A call on file f with result n, which leaves the others alone ...
CallMade(f, m, n) ==
    /\ f \in Files /\ m.dir = dir[Drive(f)] /\ m.data = data[Drive(f)] /\ m.name = Name(f)
    /\ Apart(m, n)
    /\ dir' = [dir EXCEPT ![Drive(f)] = n.dir] /\ data' = [data EXCEPT ![Drive(f)] = n.data]
    /\ \A g \in Files \ {f} : (g \in open' <=> g \in open) /\ fcb'[g] = fcb[g]

\* ... and its effect on the state.
CallDone(f, m, n) ==
    /\ Others({f})
    /\ Kept(f) = SavedSet(m.dir, m.data, m.name)
    /\ Kept(f)' = SavedSet(n.dir, n.data, n.name)
    /\ Text(f)' = IF f \in open' THEN SeenSet(n.dir, n.data, n.name, fcb'[f]) ELSE Kept(f)'
    /\ EntriesOf(f) # {} => EntriesOf(f)' # {} /\ FilesBegin'
    /\ Hits(n.dir, n.name, 0, 0) # {} => FilesBegin'
    /\ n.dir = m.dir => FilesBegin' /\ (EntriesOf(f)' = {} <=> EntriesOf(f) = {})
    /\ EntriesOf(f)' = {i \in Slots : n.dir[i].name = n.name}
    /\ (f \in open' => Counts(n.dir, f, fcb'[f])) => CountsCurrent'

\* The one leads to the other.
LEMMA CallEffect ==
    ASSUME EXM = 0, RInv, IInv', NEW f, NEW m, NEW n, CallMade(f, m, n)
    PROVE  CallDone(f, m, n)
  <1> DEFINE d == Drive(f)
  <1>0. /\ f \in Files /\ m.dir = dir[Drive(f)] /\ m.data = data[Drive(f)] /\ m.name = Name(f)
        /\ Apart(m, n)
        /\ dir' = [dir EXCEPT ![Drive(f)] = n.dir] /\ data' = [data EXCEPT ![Drive(f)] = n.data]
        /\ \A g \in Files \ {f} : (g \in open' <=> g \in open) /\ fcb'[g] = fcb[g]
    BY DEF CallMade
  <1>1. d \in Drives /\ m.name \in Names /\ n.name = m.name /\ m.name # "none"
    BY <1>0, FileType, FilesAssumption DEF Apart
  <1>2. TypeOK /\ TypeOK'
    BY <1>0 DEF RInv, IInv
  <1>3. m.dir \in [Slots -> Entries \cup {NoEntry}]
    BY <1>0, <1>1, <1>2 DEF TypeOK
  <1> HIDE DEF d
  <1>7. ASSUME NEW g \in Files \ {f}, Drive(g) = d
        PROVE  Spared(m, n, Name(g))
    <2>1. Name(g) \in Names /\ Name(g) # m.name
      BY <1>0, <1>7, FileType DEF d
    <2> QED BY <1>0, <1>3, <2>1, ApartOthers DEF Spared
  <1>8. /\ Others({f})
        /\ dir'[d] = n.dir /\ data'[d] = n.data
        /\ \A e \in Drives : e # d => dir'[e] = dir[e]
        /\ (f \in open' => Counts(dir'[d], f, fcb'[f])) => CountsCurrent'
    <2> DEFINE S == {f}
    <2>1. \A g \in Files \ S : /\ (g \in open' <=> g \in open) /\ fcb'[g] = fcb[g]
                               /\ Drive(g) = d => Spared(m, n, Name(g))
      BY <1>0, <1>7
    <2>2. /\ m.dir = dir[d] /\ m.data = data[d]
          /\ dir' = [dir EXCEPT ![d] = n.dir] /\ data' = [data EXCEPT ![d] = n.data]
      BY <1>0 DEF d
    <2>3. \A g \in S : g = f
      OBVIOUS
    <2> HIDE DEF S
    <2>4. /\ Others(S)
          /\ dir'[d] = n.dir /\ data'[d] = n.data
          /\ \A e \in Drives : e # d => dir'[e] = dir[e]
          /\ (\A g \in S : g \in open' => Counts(dir'[Drive(g)], g, fcb'[g])) => CountsCurrent'
      BY <1>0, <1>1, <2>1, <2>2, OthersEffect
    <2> QED BY <1>0, <2>3, <2>4 DEF S, d
  <1>9. /\ Kept(f) = SavedSet(m.dir, m.data, m.name)
        /\ Kept(f)' = SavedSet(n.dir, n.data, n.name)
        /\ Text(f)' = IF f \in open' THEN SeenSet(n.dir, n.data, n.name, fcb'[f]) ELSE Kept(f)'
    BY <1>0, <1>1, <1>2, <1>8, FileSets DEF d
  <1>10. (f \in open' => Counts(n.dir, f, fcb'[f])) => CountsCurrent'
    BY <1>0, <1>8 DEF d
  <1>11. \A i \in Slots : m.dir[i].name = m.name =>
           n.dir[i].name = m.name /\ n.dir[i].ex = m.dir[i].ex /\ n.dir[i].s2 = m.dir[i].s2
    BY <1>0 DEF Apart
  <1>12. ASSUME Hits(n.dir, n.name, 0, 0) # {} PROVE FilesBegin'
    <2>1. ASSUME NEW i \in Slots, n.dir[i].name # "none" PROVE Hits(n.dir, n.dir[i].name, 0, 0) # {}
      <3>1. CASE n.dir[i].name = n.name
        BY <1>0, <1>12, <3>1
      <3>2. CASE n.dir[i].name # n.name
        <4>1. m.dir[i].name \notin {m.name, "none"} /\ n.dir[i] = m.dir[i]
          BY <1>0, <1>1, <2>1, <3>2 DEF Apart
        <4>2. PICK j \in Slots : /\ m.dir[j].name = m.dir[i].name /\ m.dir[j].s2 = 0
                                 /\ Group(m.dir[j].ex) = Group(0)
          BY <1>0, <1>1, <4>1 DEF RInv, FilesBegin, Begun, Hits, d
        <4>3. n.dir[j] = m.dir[j]
          BY <1>0, <4>1, <4>2 DEF Apart
        <4> QED BY <1>0, <4>1, <4>2, <4>3 DEF Hits
      <3> QED BY <1>0, <3>1, <3>2
    <2>2. Begun(n.dir)
      BY <1>0, <2>1 DEF Begun
    <2>3. \A e \in Drives : Begun(dir'[e])
      BY <1>0, <1>8, <2>2 DEF RInv, FilesBegin
    <2> QED BY <1>0, <2>3 DEF FilesBegin
  <1>14. EntriesOf(f)' = {i \in Slots : n.dir[i].name = n.name}
    BY <1>0, <1>1, <1>8 DEF EntriesOf, d
  <1>15. EntriesOf(f) = {i \in Slots : m.dir[i].name = m.name}
    BY <1>0 DEF EntriesOf
  <1>13. ASSUME EntriesOf(f) # {} PROVE EntriesOf(f)' # {} /\ Hits(n.dir, n.name, 0, 0) # {}
    <2>1. PICK i \in Slots : m.dir[i].name = m.name
      BY <1>0, <1>13, <1>15
    <2>2. PICK j \in Slots : /\ m.dir[j].name = m.name /\ m.dir[j].s2 = 0
                             /\ Group(m.dir[j].ex) = Group(0)
      BY <1>0, <1>1, <2>1 DEF RInv, FilesBegin, Begun, Hits, d
    <2>3. j \in EntriesOf(f)'
      BY <1>0, <1>1, <1>11, <1>14, <2>2
    <2> QED BY <1>0, <1>1, <1>11, <2>2, <2>3 DEF Hits
  <1>16. ASSUME n.dir = m.dir PROVE FilesBegin'
    <2>1. \A e \in Drives : dir'[e] = dir[e]
      BY <1>0, <1>8, <1>16 DEF d
    <2> QED BY <1>0, <2>1 DEF RInv, FilesBegin
  <1> QED BY <1>0, <1>1, <1>8, <1>9, <1>10, <1>12, <1>13, <1>14, <1>15, <1>16 DEF CallDone

-----------------------------------------------------------------------------
(* The calls on the set of the file called.                                *)

\* The records of the file of a call, as sets.
KeptBy(m) == SavedSet(m.dir, m.data, m.name)
TextOf(m) == SeenSet(m.dir, m.data, m.name, m.fcb)

\* What is saved or seen is the contents of a record.
LEMMA SavedTyped ==
    ASSUME NEW m, Sound(m), NEW r \in Records, NEW v
    PROVE  /\ Saved(m, r, v) <=> <<r, v>> \in KeptBy(m)
           /\ Seen(m, r, v) <=> <<r, v>> \in TextOf(m)
  <1>1. /\ m.data \in [DataBlocks -> Blocks] /\ m.dir \in [Slots -> Entries \cup {NoEntry}]
        /\ m.fcb \in FCBs /\ m.name \in Names /\ m.name # "none"
    BY FilesAssumption DEF Sound, Calls
  <1>2. ASSUME Saved(m, r, v) PROVE v \in Values
    <2>1. PICK i \in Slots : m.dir[i].name = m.name /\ Has(m.dir[i], r) /\ v = Content(m.dir[i], m.data, r)
      BY <1>2 DEF Saved, SavedIn
    <2>2. PICK e \in Entries : e = m.dir[i]
      BY <1>1, <2>1, LiveIffNamed
    <2>3. e.map \in Maps /\ Has(e, r)
      BY <2>1, <2>2 DEF Entries
    <2>4. Content(e, m.data, r) \in Values
      BY <1>1, <2>3, ContentType
    <2> QED BY <2>1, <2>2, <2>4
  <1>3. ASSUME Seen(m, r, v) PROVE v \in Values
    <2>1. CASE OfExtent(m.fcb, r)
      <3>1. Has(m.fcb, r) /\ v = Content(m.fcb, m.data, r)
        BY <1>3, <2>1 DEF Seen, SeenIn
      <3>2. PICK e \in FCBs : e = m.fcb
        BY <1>1
      <3>3. e.map \in Maps /\ Has(e, r)
        BY <3>1, <3>2 DEF FCBs
      <3>4. Content(e, m.data, r) \in Values
        BY <1>1, <3>3, ContentType
      <3> QED BY <3>1, <3>2, <3>4
    <2>2. CASE ~OfExtent(m.fcb, r)
      BY <1>2, <1>3, <2>2 DEF Seen, SeenIn, Saved
    <2> QED BY <2>1, <2>2
  <1> QED BY <1>2, <1>3 DEF KeptBy, TextOf, SavedSet, SeenSet, Saved, Seen

\* The members of both sets are pairs.
LEMMA PairsOnly ==
    ASSUME NEW m, NEW p, p \in KeptBy(m) \/ p \in TextOf(m)
    PROVE  \E r \in Records : \E v \in Values : p = <<r, v>>
  BY DEF KeptBy, TextOf, SavedSet, SeenSet

\* A record number has one contents.
Single(g) == \A p, q \in g : p[1] = q[1] => p = q

LEMMA TextSingle ==
    ASSUME NEW m, Sound(m)
    PROVE  Single(TextOf(m))
  <1>1. ASSUME NEW r \in Records, NEW v, NEW w, Saved(m, r, v), Saved(m, r, w) PROVE v = w
    <2>1. PICK i \in Slots : m.dir[i].name = m.name /\ Has(m.dir[i], r) /\ v = Content(m.dir[i], m.data, r)
      BY <1>1 DEF Saved, SavedIn
    <2>2. PICK j \in Slots : m.dir[j].name = m.name /\ Has(m.dir[j], r) /\ w = Content(m.dir[j], m.data, r)
      BY <1>1 DEF Saved, SavedIn
    <2>3. i = j
      BY <2>1, <2>2, OneEntry DEF Has
    <2> QED BY <2>1, <2>2, <2>3
  <1>2. ASSUME NEW r \in Records, NEW v, NEW w, Seen(m, r, v), Seen(m, r, w) PROVE v = w
    BY <1>1, <1>2 DEF Seen, SeenIn, Saved
  <1>3. ASSUME NEW p \in TextOf(m), NEW q \in TextOf(m), p[1] = q[1] PROVE p = q
    <2>1. PICK r \in Records, v \in Values : p = <<r, v>>
      BY PairsOnly
    <2>2. PICK s \in Records, w \in Values : q = <<s, w>>
      BY PairsOnly
    <2>3. r = s
      BY <1>3, <2>1, <2>2
    <2>4. Seen(m, r, v) /\ Seen(m, r, w)
      BY <2>1, <2>2, <2>3, SavedTyped
    <2> QED BY <1>2, <2>1, <2>2, <2>3, <2>4
  <1> QED BY <1>3 DEF Single

\* From one record to all of them.
LEMMA SetsSame ==
    ASSUME NEW m, Sound(m), NEW n, Sound(n)
    PROVE  /\ SavedGrows(m, n) => KeptBy(m) \subseteq KeptBy(n)
           /\ SavedSame(m, n) => KeptBy(n) = KeptBy(m)
           /\ SeenSame(m, n) => TextOf(n) = TextOf(m)
           /\ Published(m, n) => KeptBy(n) = TextOf(m)
  <1>1. ASSUME SavedGrows(m, n), NEW p \in KeptBy(m) PROVE p \in KeptBy(n)
    <2>1. PICK r \in Records, v \in Values : p = <<r, v>>
      BY <1>1, PairsOnly
    <2> QED BY <1>1, <2>1, SavedTyped DEF SavedGrows
  <1>2. ASSUME SavedSame(m, n), NEW p, p \in KeptBy(m) \/ p \in KeptBy(n)
        PROVE  p \in KeptBy(n) /\ p \in KeptBy(m)
    <2>1. PICK r \in Records, v \in Values : p = <<r, v>>
      BY <1>2, PairsOnly
    <2> QED BY <1>2, <2>1, SavedTyped DEF SavedSame
  <1>3. ASSUME SeenSame(m, n), NEW p, p \in TextOf(m) \/ p \in TextOf(n)
        PROVE  p \in TextOf(n) /\ p \in TextOf(m)
    <2>1. PICK r \in Records, v \in Values : p = <<r, v>>
      BY <1>3, PairsOnly
    <2> QED BY <1>3, <2>1, SavedTyped DEF SeenSame
  <1>4. ASSUME Published(m, n), NEW p, p \in TextOf(m) \/ p \in KeptBy(n)
        PROVE  p \in KeptBy(n) /\ p \in TextOf(m)
    <2>1. PICK r \in Records, v \in Values : p = <<r, v>>
      BY <1>4, PairsOnly
    <2> QED BY <1>4, <2>1, SavedTyped DEF Published
  <1> QED BY <1>1, <1>2, <1>3, <1>4

\* A current FCB shows all that is saved; a settled one nothing else.
LEMMA KeptInText ==
    ASSUME EXM = 0, NEW m, Sound(m), Bound(m), Current(m)
    PROVE  /\ KeptBy(m) \subseteq TextOf(m)
           /\ Settled(m) => TextOf(m) = KeptBy(m)
  <1>1. ASSUME NEW p \in KeptBy(m) PROVE p \in TextOf(m)
    <2>1. PICK r \in Records, v \in Values : p = <<r, v>>
      BY <1>1, PairsOnly
    <2> QED BY <1>1, <2>1, SavedTyped, SavedIsSeen
  <1>2. ASSUME Settled(m), NEW p \in TextOf(m) PROVE p \in KeptBy(m)
    <2>1. PICK r \in Records, v \in Values : p = <<r, v>>
      BY <1>2, PairsOnly
    <2> QED BY <1>2, <2>1, SavedTyped, SavedIsSeen
  <1> QED BY <1>1, <1>2

\* A write of record t, on the sets.
LEMMA WriteSets ==
    ASSUME EXM = 0, NEW m, Sound(m), NEW n, Sound(n), NEW t \in Records, NEW v,
           WriteEffect(m, n, t, v)
    PROVE  /\ Abstract!Without(TextOf(m), t) \cup {<<t, v>>} \subseteq TextOf(n)
           /\ Abstract!Without(KeptBy(m), t) \subseteq KeptBy(n)
           /\ Abstract!Numbers(KeptBy(m)) \subseteq Abstract!Numbers(KeptBy(n))
  <1>1. <<t, v>> \in TextOf(n)
    BY SavedTyped DEF WriteEffect
  <1>2. ASSUME NEW p, p \in TextOf(m), p[1] # t PROVE p \in TextOf(n)
    <2>1. PICK r \in Records, x \in Values : p = <<r, x>>
      BY <1>2, PairsOnly
    <2>2. r \in Records \ {t}
      BY <1>2, <2>1
    <2>3. Seen(m, r, x)
      BY <1>2, <2>1, SavedTyped
    <2>4. Seen(n, r, x)
      BY <2>2, <2>3 DEF WriteEffect
    <2> QED BY <2>1, <2>4, SavedTyped
  <1>3. ASSUME NEW p, p \in KeptBy(m), p[1] # t PROVE p \in KeptBy(n)
    <2>1. PICK r \in Records, x \in Values : p = <<r, x>>
      BY <1>3, PairsOnly
    <2>2. r \in Records \ {t}
      BY <1>3, <2>1
    <2>3. Saved(m, r, x)
      BY <1>3, <2>1, SavedTyped
    <2>4. Saved(n, r, x)
      BY <2>2, <2>3 DEF WriteEffect
    <2> QED BY <2>1, <2>4, SavedTyped
  <1>4. ASSUME NEW p, p \in KeptBy(m) PROVE \E q \in KeptBy(n) : q[1] = p[1]
    <2>1. PICK r \in Records, x \in Values : p = <<r, x>>
      BY <1>4, PairsOnly
    <2>2. CASE r # t
      BY <1>3, <1>4, <2>1, <2>2
    <2>3. CASE r = t
      <3>1. Saved(m, t, x)
        BY <1>4, <2>1, <2>3, SavedTyped
      <3>2. PICK y : Saved(n, t, y)
        BY <3>1 DEF WriteEffect
      <3>3. <<t, y>> \in KeptBy(n)
        BY <3>2, SavedTyped
      <3> QED BY <2>1, <2>3, <3>3
    <2> QED BY <2>2, <2>3
  <1> QED BY <1>1, <1>2, <1>3, <1>4 DEF Abstract!Without, Abstract!Numbers

\* More records have more numbers.
LEMMA NumbersGrow ==
    ASSUME NEW g, NEW h, g \subseteq h
    PROVE  Abstract!Numbers(g) \subseteq Abstract!Numbers(h)
  BY DEF Abstract!Numbers

\* A record nobody sees has a number that is not there.
LEMMA NumberAbsent ==
    ASSUME NEW m, Sound(m), NEW r, r \in Records => \A v : ~Seen(m, r, v)
    PROVE  r \notin Abstract!Numbers(TextOf(m))
  <1>1. ASSUME NEW p \in TextOf(m), p[1] = r PROVE FALSE
    <2>1. PICK s \in Records, v \in Values : p = <<s, v>>
      BY <1>1, PairsOnly
    <2> QED BY <1>1, <2>1, SavedTyped
  <1> QED BY <1>1 DEF Abstract!Numbers

-----------------------------------------------------------------------------
(* Every call is a step of RecordFiles.                                    *)

\* PublishedRecordsStay, of one step.
Stay == out'.op \notin {"delete", "rename"} =>
          \A f \in Files : Abstract!Numbers(Kept(f)) \subseteq Abstract!Numbers(Kept(f)')

\* What each call has to do.
Refined == Abstract!Next /\ CountsCurrent' /\ FilesBegin' /\ Stay

\* The other files of the abstract state.
LEMMA OnlyHolds ==
    ASSUME NEW f \in Files, Others({f}), EntriesOf(f)' = {} <=> EntriesOf(f) = {}
    PROVE  Abstract!Only(f)
  <1>1. \A g \in Files : EntriesOf(g)' = {} <=> EntriesOf(g) = {}
    BY DEF Others
  <1>2. {g \in Files : EntriesOf(g) # {}}' = {g \in Files : EntriesOf(g) # {}}
    BY <1>1
  <1>3. \A g \in Files \ {f} : Text(g)' = Text(g) /\ Kept(g)' = Kept(g)
    BY DEF Others
  <1> QED BY <1>2, <1>3 DEF Abstract!Only

\* The published numbers stay if those of the file called do.
LEMMA StayHolds ==
    ASSUME NEW f \in Files, Others({f}),
           Abstract!Numbers(Kept(f)) \subseteq Abstract!Numbers(Kept(f)')
    PROVE  Stay
  BY DEF Others, Stay

\* What the result of a call is.
LEMMA FinishResult ==
    ASSUME NEW f, NEW op, NEW r, NEW n, NEW x, Finish(f, op, r, n, x)
    PROVE  /\ out'.op = op /\ out'.file = f /\ out'.rec = r /\ out'.code = n.code /\ out'.val = x
           /\ dir' = [dir EXCEPT ![Drive(f)] = n.dir] /\ data' = [data EXCEPT ![Drive(f)] = n.data]
  BY DEF Finish

\* A call with result n that finds its file and leaves the others alone ...
Works(f, m, op, r, n, x) ==
    /\ f \in open /\ m = Start(f, fcb[f]) /\ Working(f, op, r, n, x) /\ Sound(n) /\ Apart(m, n)
    /\ op \notin {"rread", "rwrite"} \/ n.code \in {0, 1, 6} => Bound(n) /\ Current(n)

\* ... and its effect, in the terms of RecordFiles.
Worked(f, m, op, r, n, x) ==
    /\ f \in Files /\ AtWork(m) /\ Current(m) /\ Sound(m) /\ m.fcb = fcb[f]
    /\ Others({f}) /\ Abstract!Only(f) /\ CountsCurrent' /\ FilesBegin'
    /\ Kept(f) = KeptBy(m) /\ Text(f) = TextOf(m) /\ Kept(f)' = KeptBy(n)
    /\ Text(f)' = IF op \notin {"rread", "rwrite"} \/ n.code \in {0, 1, 6}
                  THEN TextOf(n) ELSE KeptBy(n)
    /\ out'.op = op /\ out'.file = f /\ out'.rec = r /\ out'.code = n.code
    /\ out'.val = x

\* The one leads to the other.
LEMMA WorkEffect ==
    ASSUME EXM = 0, Cautious, RInv, IInv', NEW f, NEW m, NEW op, NEW r, NEW n, NEW x,
           Works(f, m, op, r, n, x)
    PROVE  Worked(f, m, op, r, n, x)
  <1>0. /\ f \in open /\ m = Start(f, fcb[f]) /\ Working(f, op, r, n, x) /\ Sound(n) /\ Apart(m, n)
        /\ op \notin {"rread", "rwrite"} \/ n.code \in {0, 1, 6} => Bound(n) /\ Current(n)
    BY DEF Works
  <1>1. f \in Files /\ AtWork(m) /\ m.dir = dir[Drive(f)] /\ m.name = Name(f)
        /\ m.data = data[Drive(f)] /\ m.fcb = fcb[f] /\ n.name = m.name
    BY <1>0, WorkStart DEF RInv, Start, Apart
  <1>2. Current(m)
    BY <1>0, <1>1 DEF RInv, CountsCurrent, Counts, Current, Found
  <1>3. /\ out'.op = op /\ out'.file = f /\ out'.rec = r /\ out'.code = n.code /\ out'.val = x
        /\ dir' = [dir EXCEPT ![Drive(f)] = n.dir] /\ data' = [data EXCEPT ![Drive(f)] = n.data]
    BY <1>0, FinishResult DEF Working
  <1>4. fcb \in [Files -> FCBs] /\ open \in SUBSET Files /\ TypeOK /\ TypeOK'
    BY DEF RInv, IInv, TypeOK
  <1>5. /\ \A g \in Files \ {f} : (g \in open' <=> g \in open) /\ fcb'[g] = fcb[g]
        /\ IF op \notin {"rread", "rwrite"} \/ n.code \in {0, 1, 6}
           THEN f \in open' /\ fcb'[f] = n.fcb ELSE f \notin open'
    <2>1. CASE op \notin {"rread", "rwrite"} \/ n.code \in {0, 1, 6}
      <3>1. fcb' = [fcb EXCEPT ![f] = n.fcb] /\ open' = open
        BY <1>0, <2>1 DEF Working
      <3> QED BY <1>0, <1>1, <1>4, <2>1, <3>1
    <2>2. CASE ~ (op \notin {"rread", "rwrite"} \/ n.code \in {0, 1, 6})
      <3>1. fcb' = [fcb EXCEPT ![f] = FreshFCB] /\ open' = open \ {f}
        BY <1>0, <2>2 DEF Working
      <3> QED BY <1>0, <1>1, <1>4, <2>2, <3>1
    <2> QED BY <2>1, <2>2
  <1>6. f \in open' => Counts(n.dir, f, fcb'[f])
    <2>1. ASSUME Current(n) PROVE Counts(n.dir, f, n.fcb)
      BY <1>1, <2>1 DEF Current, Found, Counts
    <2> QED BY <1>0, <1>5, <2>1
  <1>7. /\ Others({f})
        /\ Kept(f) = SavedSet(m.dir, m.data, m.name)
        /\ Kept(f)' = SavedSet(n.dir, n.data, n.name)
        /\ Text(f)' = IF f \in open' THEN SeenSet(n.dir, n.data, n.name, fcb'[f]) ELSE Kept(f)'
        /\ EntriesOf(f) # {} => EntriesOf(f)' # {} /\ FilesBegin'
        /\ CountsCurrent'
    <2>1. \A g \in Files \ {f} : (g \in open' <=> g \in open) /\ fcb'[g] = fcb[g]
      BY <1>5
    <2>2. /\ m.dir = dir[Drive(f)] /\ m.data = data[Drive(f)] /\ m.name = Name(f)
          /\ dir' = [dir EXCEPT ![Drive(f)] = n.dir] /\ data' = [data EXCEPT ![Drive(f)] = n.data]
      BY <1>1, <1>3
    <2>3. f \in Files
      BY <1>1
    <2>4. CallMade(f, m, n)
      BY <1>0, <2>1, <2>2, <2>3 DEF CallMade
    <2>5. CallDone(f, m, n)
      BY <2>4, CallEffect
    <2> QED BY <1>6, <2>5 DEF CallDone
  <1>8. EntriesOf(f) # {}
    <2>1. PICK i \in Hits(dir[Drive(f)], Name(f), fcb[f].ex, fcb[f].s2) : TRUE
      BY <1>0 DEF RInv, IInv, OpenMapsPublished
    <2>2. i \in EntriesOf(f)
      BY <2>1 DEF Hits, EntriesOf
    <2> QED BY <2>2
  <1>9. Text(f) = TextOf(m)
    BY <1>0, <1>1, <1>4, FileSets DEF TextOf
  <1>10. Text(f)' = IF op \notin {"rread", "rwrite"} \/ n.code \in {0, 1, 6}
                    THEN TextOf(n) ELSE KeptBy(n)
    BY <1>5, <1>7 DEF TextOf, KeptBy
  <1>11. Abstract!Only(f)
    BY <1>1, <1>7, <1>8, OnlyHolds
  <1> QED BY <1>1, <1>2, <1>3, <1>7, <1>8, <1>9, <1>10, <1>11 DEF AtWork, KeptBy, Worked

\* A call that fails on an open file.
LEMMA FailRefined ==
    ASSUME NEW f \in Files, Others({f}), Abstract!Only(f), CountsCurrent', FilesBegin',
           Kept(f) \subseteq Kept(f)', Text(f)' = Text(f) \/ Text(f)' = Kept(f)',
           out'.file = f, out'.code # 0,
           out'.op \in {"read", "rread"} /\ Abstract!Reached =>
             out'.rec \notin Abstract!Numbers(Text(f))
    PROVE  Refined
  <1>1. Abstract!Fail(f)
    BY DEF Abstract!Fail
  <1>2. Stay
    BY NumbersGrow, StayHolds
  <1> QED BY <1>1, <1>2 DEF Refined, Abstract!Next

\* A read that succeeds.
LEMMA ReadRefined ==
    ASSUME NEW f \in Files, Others({f}), Abstract!Only(f), CountsCurrent', FilesBegin',
           Kept(f) \subseteq Kept(f)', Kept(f)' \subseteq Text(f), Text(f)' = Text(f),
           out'.file = f, out'.code = 0, out'.op \in {"read", "rread"}, Abstract!Reached,
           <<out'.rec, out'.val>> \in Text(f)
    PROVE  Refined
  <1>1. Abstract!Read(f)
    BY DEF Abstract!Read, Abstract!Result
  <1>2. Stay
    BY NumbersGrow, StayHolds
  <1> QED BY <1>1, <1>2 DEF Refined, Abstract!Next

\* A write that succeeds.
LEMMA WriteRefined ==
    ASSUME NEW f \in Files, Others({f}), Abstract!Only(f), CountsCurrent', FilesBegin',
           out'.rec \in Records, Single(Text(f)'),
           Abstract!Without(Text(f), out'.rec) \cup {<<out'.rec, out'.val>>} \subseteq Text(f)',
           Abstract!Without(Kept(f), out'.rec) \subseteq Kept(f)', Kept(f)' \subseteq Text(f)',
           Abstract!Numbers(Kept(f)) \subseteq Abstract!Numbers(Kept(f)'),
           out'.file = f, out'.code = 0, out'.op \in {"write", "rwrite"}, Abstract!Reached
    PROVE  Refined
  <1>1. Abstract!Write(f)
    BY DEF Abstract!Write, Abstract!Result, Single
  <1>2. Stay
    BY StayHolds
  <1> QED BY <1>1, <1>2 DEF Refined, Abstract!Next

\* The record a sequential call is asked for.
LEMMA HereTarget ==
    ASSUME NEW f, NEW m, m.fcb = fcb[f]
    PROVE  Here(f) = Target(m)
  BY DEF Here, Target

\* Close.
LEMMA CloseRefined ==
    ASSUME EXM = 0, Cautious, RInv, IInv', NEW f \in Files, Close(f)
    PROVE  Refined
  <1>1. PICK m, n : m = Start(f, fcb[f]) /\ n = CCore(m) /\ Working(f, "close", 0, n, Zero) /\ f \in open
    BY DEF Close
  <1>2. AtWork(m) /\ Sound(m) /\ Bound(m) /\ Current(m) /\ m.code = 0
    <2>1. AtWork(m) /\ m.dir = dir[Drive(f)] /\ m.name = Name(f) /\ m.fcb = fcb[f]
      BY <1>1, WorkStart DEF RInv, Start
    <2>2. Current(m)
      BY <1>1, <2>1 DEF RInv, CountsCurrent, Counts, Current, Found
    <2> QED BY <2>1, <2>2 DEF AtWork
  <1>3. Sound(n) /\ Bound(n) /\ n.code = 0
    BY <1>1, <1>2, CCoreSound
  <1>4. Current(n) /\ Apart(m, n) /\ Published(m, n) /\ SeenSame(m, n)
    BY <1>1, <1>2, CCoreText
  <1>5. /\ Others({f}) /\ Abstract!Only(f) /\ CountsCurrent' /\ FilesBegin'
        /\ Kept(f) = KeptBy(m) /\ Text(f) = TextOf(m) /\ Kept(f)' = KeptBy(n)
        /\ Text(f)' = TextOf(n)
        /\ out'.op = "close" /\ out'.file = f /\ out'.code = 0
    <2>1. Works(f, m, "close", 0, n, Zero)
      BY <1>1, <1>3, <1>4 DEF Works
    <2>2. Worked(f, m, "close", 0, n, Zero)
      BY <2>1, WorkEffect
    <2> QED BY <1>3, <2>2 DEF Worked
  <1>6. KeptBy(n) = TextOf(m) /\ TextOf(n) = TextOf(m) /\ KeptBy(m) \subseteq TextOf(m)
    BY <1>2, <1>3, <1>4, SetsSame, KeptInText
  <1>7. Abstract!Close(f)
    BY <1>5, <1>6 DEF Abstract!Close, Abstract!Result
  <1>8. Stay
    BY <1>5, <1>6, NumbersGrow, StayHolds
  <1> QED BY <1>5, <1>7, <1>8 DEF Refined, Abstract!Next

\* A sequential read: a cautious program has closed a changed FCB at the
\* end of its extent.
LEMMA ReadCallRefined ==
    ASSUME EXM = 0, Cautious, RInv, IInv', NEW f \in Files, Read(f)
    PROVE  Refined
  <1>1. PICK m, n : m = Start(f, fcb[f]) /\ n = ReadCore(m) /\ Working(f, "read", Here(f), n, n.val) /\ f \in open
    BY DEF Read
  <1>2. AtWork(m) /\ Sound(m) /\ Bound(m) /\ Current(m) /\ m.fcb = fcb[f] /\ m.fcb \in FCBs
    <2>1. AtWork(m) /\ m.dir = dir[Drive(f)] /\ m.name = Name(f) /\ m.fcb = fcb[f]
      BY <1>1, WorkStart DEF RInv, Start
    <2>2. Current(m)
      BY <1>1, <2>1 DEF RInv, CountsCurrent, Counts, Current, Found
    <2> QED BY <2>1, <2>2 DEF AtWork, Sound, Calls
  <1>3. m.fcb.cr = RPE => Settled(m)
    <2>1. ~ (RPE < RPE)
      BY GeometryAssumption, SMT
    <2> QED BY <1>2, <2>1 DEF Read, Settled
  <1>4. Sound(n) /\ Bound(n)
    BY <1>1, <1>2, ReadCoreSound
  <1>5. /\ Apart(m, n) /\ Current(n) /\ SeenSame(m, n) /\ SavedGrows(m, n)
        /\ n.code = 0 => Target(m) \in Records /\ Seen(m, Target(m), n.val)
        /\ n.code # 0 /\ Target(m) \in Records => \A v : ~Seen(m, Target(m), v)
    BY <1>1, <1>2, <1>3, ReadCoreText
  <1>6. /\ Others({f}) /\ Abstract!Only(f) /\ CountsCurrent' /\ FilesBegin'
        /\ Kept(f) = KeptBy(m) /\ Text(f) = TextOf(m) /\ Kept(f)' = KeptBy(n)
        /\ Text(f)' = TextOf(n)
        /\ out'.op = "read" /\ out'.file = f /\ out'.code = n.code /\ out'.val = n.val
        /\ out'.rec = Target(m)
    <2>1. Works(f, m, "read", Here(f), n, n.val)
      BY <1>1, <1>4, <1>5 DEF Works
    <2>2. Worked(f, m, "read", Here(f), n, n.val)
      BY <2>1, WorkEffect
    <2> QED BY <1>2, <2>2, HereTarget DEF Worked
  <1>7. KeptBy(m) \subseteq KeptBy(n) /\ TextOf(n) = TextOf(m) /\ KeptBy(n) \subseteq TextOf(n)
    BY <1>2, <1>4, <1>5, SetsSame, KeptInText
  <1>8. CASE n.code = 0
    <2>1. <<Target(m), n.val>> \in TextOf(m)
      BY <1>2, <1>5, <1>8, SavedTyped
    <2>2. Abstract!Reached
      BY <1>6 DEF Abstract!Reached
    <2> QED BY <1>6, <1>7, <1>8, <2>1, <2>2, ReadRefined
  <1>9. CASE n.code # 0
    <2>1. Target(m) \notin Abstract!Numbers(TextOf(m))
      BY <1>2, <1>5, <1>9, NumberAbsent
    <2> QED BY <1>6, <1>7, <1>9, <2>1, FailRefined
  <1> QED BY <1>8, <1>9

\* A sequential write.
LEMMA WriteCallRefined ==
    ASSUME EXM = 0, Cautious, RInv, IInv', NEW f \in Files, NEW v \in Values, Write(f, v)
    PROVE  Refined
  <1>1. PICK m, n : /\ m = Start(f, fcb[f]) /\ n = SequentialWrite(m, v)
                    /\ Working(f, "write", Here(f), n, v) /\ f \in open
    BY DEF Write
  <1>2. AtWork(m) /\ Sound(m) /\ Bound(m) /\ Current(m) /\ m.fcb = fcb[f]
    <2>1. AtWork(m) /\ m.dir = dir[Drive(f)] /\ m.name = Name(f) /\ m.fcb = fcb[f]
      BY <1>1, WorkStart DEF RInv, Start
    <2>2. Current(m)
      BY <1>1, <2>1 DEF RInv, CountsCurrent, Counts, Current, Found
    <2> QED BY <2>1, <2>2 DEF AtWork
  <1>4. Sound(n) /\ Bound(n)
    BY <1>1, <1>2, SequentialWriteSound
  <1>5. /\ Apart(m, n) /\ Current(n)
        /\ n.code = 0 => Target(m) \in Records /\ WriteEffect(m, n, Target(m), v)
        /\ n.code # 0 => SeenSame(m, n) /\ SavedGrows(m, n)
    BY <1>1, <1>2, SequentialWriteText
  <1>6. /\ Others({f}) /\ Abstract!Only(f) /\ CountsCurrent' /\ FilesBegin'
        /\ Kept(f) = KeptBy(m) /\ Text(f) = TextOf(m) /\ Kept(f)' = KeptBy(n)
        /\ Text(f)' = TextOf(n)
        /\ out'.op = "write" /\ out'.file = f /\ out'.code = n.code /\ out'.rec = Target(m)
        /\ out'.val = v
    <2>1. Works(f, m, "write", Here(f), n, v)
      BY <1>1, <1>4, <1>5 DEF Works
    <2>2. Worked(f, m, "write", Here(f), n, v)
      BY <2>1, WorkEffect
    <2> QED BY <1>2, <2>2, HereTarget DEF Worked
  <1>7. KeptBy(n) \subseteq TextOf(n)
    BY <1>4, <1>5, KeptInText
  <1>8. CASE n.code = 0
    <2>1. /\ Abstract!Without(TextOf(m), Target(m)) \cup {<<Target(m), v>>} \subseteq TextOf(n)
          /\ Abstract!Without(KeptBy(m), Target(m)) \subseteq KeptBy(n)
          /\ Abstract!Numbers(KeptBy(m)) \subseteq Abstract!Numbers(KeptBy(n))
      BY <1>2, <1>4, <1>5, <1>8, WriteSets
    <2>2. Target(m) \in Records /\ Single(TextOf(n))
      BY <1>4, <1>5, <1>8, TextSingle
    <2>3. Abstract!Reached
      BY <1>6 DEF Abstract!Reached
    <2> QED BY <1>6, <1>7, <1>8, <2>1, <2>2, <2>3, WriteRefined
  <1>9. CASE n.code # 0
    <2>1. KeptBy(m) \subseteq KeptBy(n) /\ TextOf(n) = TextOf(m)
      BY <1>2, <1>4, <1>5, <1>9, SetsSame
    <2> QED BY <1>6, <1>9, <2>1, FailRefined
  <1> QED BY <1>8, <1>9

\* A random read.
LEMMA ReadAtRefined ==
    ASSUME EXM = 0, Cautious, RInv, IInv', NEW f \in Files, NEW r \in RandomRecs, ReadAt(f, r)
    PROVE  Refined
  <1>1. PICK m, n : /\ m = Start(f, fcb[f]) /\ n = RandomRead(m, r)
                    /\ Working(f, "rread", r, n, n.val) /\ f \in open
    BY DEF ReadAt
  <1>2. AtWork(m) /\ Sound(m) /\ Bound(m) /\ Current(m) /\ m.fcb = fcb[f] /\ r \in Nat
    <2>1. AtWork(m) /\ m.dir = dir[Drive(f)] /\ m.name = Name(f) /\ m.fcb = fcb[f]
      BY <1>1, WorkStart DEF RInv, Start
    <2>2. Current(m)
      BY <1>1, <2>1 DEF RInv, CountsCurrent, Counts, Current, Found
    <2> QED BY <2>1, <2>2, FilesAssumption DEF AtWork
  <1>4. Sound(n) /\ (n.code \in {0, 1, 6} => Bound(n))
    BY <1>1, <1>2, RandomReadSound
  <1>5. /\ Apart(m, n) /\ SavedGrows(m, n)
        /\ n.code \in {0, 1, 6} => Current(n) /\ SeenSame(m, n)
        /\ n.code = 0 => r \in Records /\ r < RandomEnd /\ Seen(m, r, n.val)
        /\ n.code # 0 /\ ~(r >= RandomEnd) => \A v : ~Seen(m, r, v)
    BY <1>1, <1>2, RandomReadText
  <1>6. /\ Others({f}) /\ Abstract!Only(f) /\ CountsCurrent' /\ FilesBegin'
        /\ Kept(f) = KeptBy(m) /\ Text(f) = TextOf(m) /\ Kept(f)' = KeptBy(n)
        /\ Text(f)' = IF n.code \in {0, 1, 6} THEN TextOf(n) ELSE KeptBy(n)
        /\ out'.op = "rread" /\ out'.file = f /\ out'.code = n.code /\ out'.val = n.val
        /\ out'.rec = r
    <2>1. Works(f, m, "rread", r, n, n.val)
      BY <1>1, <1>4, <1>5 DEF Works
    <2>2. Worked(f, m, "rread", r, n, n.val)
      BY <2>1, WorkEffect
    <2> QED BY <2>2 DEF Worked
  <1>7. /\ KeptBy(m) \subseteq KeptBy(n)
        /\ n.code \in {0, 1, 6} => TextOf(n) = TextOf(m) /\ KeptBy(n) \subseteq TextOf(n)
    BY <1>2, <1>4, <1>5, SetsSame, KeptInText
  <1>8. CASE n.code = 0
    <2>1. <<r, n.val>> \in TextOf(m)
      BY <1>2, <1>5, <1>8, SavedTyped
    <2>2. Abstract!Reached
      BY <1>5, <1>6, <1>8 DEF Abstract!Reached
    <2> QED BY <1>6, <1>7, <1>8, <2>1, <2>2, ReadRefined
  <1>9. CASE n.code # 0
    <2>1. Abstract!Reached => r \notin Abstract!Numbers(TextOf(m))
      <3>1. ASSUME Abstract!Reached PROVE ~(r >= RandomEnd)
        <4>1. r < RandomEnd
          BY <1>6, <3>1 DEF Abstract!Reached
        <4> QED BY <1>2, <4>1, FilesAssumption, SMT
      <3> QED BY <1>2, <1>5, <1>9, <3>1, NumberAbsent
    <2>2. Text(f)' = Text(f) \/ Text(f)' = Kept(f)'
      BY <1>6, <1>7
    <2> QED BY <1>6, <1>7, <1>9, <2>1, <2>2, FailRefined
  <1> QED BY <1>8, <1>9

\* A random write.
LEMMA WriteAtRefined ==
    ASSUME EXM = 0, Cautious, RInv, IInv', NEW f \in Files, NEW r \in RandomRecs,
           NEW v \in Values, NEW z \in BOOLEAN, WriteAt(f, r, v, z)
    PROVE  Refined
  <1>1. PICK m, n : /\ m = Start(f, fcb[f]) /\ n = RandomWrite(m, r, v, z)
                    /\ Working(f, "rwrite", r, n, v) /\ f \in open
    BY DEF WriteAt
  <1>2. AtWork(m) /\ Sound(m) /\ Bound(m) /\ Current(m) /\ m.fcb = fcb[f] /\ r \in Nat
    <2>1. AtWork(m) /\ m.dir = dir[Drive(f)] /\ m.name = Name(f) /\ m.fcb = fcb[f]
      BY <1>1, WorkStart DEF RInv, Start
    <2>2. Current(m)
      BY <1>1, <2>1 DEF RInv, CountsCurrent, Counts, Current, Found
    <2> QED BY <2>1, <2>2, FilesAssumption DEF AtWork
  <1>4. Sound(n) /\ (n.code \in {0, 1, 6} => Bound(n))
    <2>1. n = RandomWrite(m, r, v, TRUE) \/ n = RandomWrite(m, r, v, FALSE)
      <3>1. CASE z = TRUE
        BY <1>1, <3>1
      <3>2. CASE z = FALSE
        BY <1>1, <3>2
      <3> QED BY <3>1, <3>2
    <2> QED BY <1>2, <2>1, RandomWriteSound
  <1>5. /\ Apart(m, n)
        /\ n.code \in {0, 1, 6} => Current(n)
        /\ n.code = 0 => r \in Records /\ r < RandomEnd /\ WriteEffect(m, n, r, v)
        /\ n.code # 0 => SavedGrows(m, n)
        /\ n.code \in {1, 6} => SeenSame(m, n)
    BY <1>1, <1>2, RandomWriteText
  <1>6. /\ Others({f}) /\ Abstract!Only(f) /\ CountsCurrent' /\ FilesBegin'
        /\ Kept(f) = KeptBy(m) /\ Text(f) = TextOf(m) /\ Kept(f)' = KeptBy(n)
        /\ Text(f)' = IF n.code \in {0, 1, 6} THEN TextOf(n) ELSE KeptBy(n)
        /\ out'.op = "rwrite" /\ out'.file = f /\ out'.code = n.code /\ out'.rec = r
        /\ out'.val = v
    <2>1. Works(f, m, "rwrite", r, n, v)
      BY <1>1, <1>4, <1>5 DEF Works
    <2>2. Worked(f, m, "rwrite", r, n, v)
      BY <2>1, WorkEffect
    <2> QED BY <2>2 DEF Worked
  <1>8. CASE n.code = 0
    <2>1. /\ Abstract!Without(TextOf(m), r) \cup {<<r, v>>} \subseteq TextOf(n)
          /\ Abstract!Without(KeptBy(m), r) \subseteq KeptBy(n)
          /\ Abstract!Numbers(KeptBy(m)) \subseteq Abstract!Numbers(KeptBy(n))
      BY <1>2, <1>4, <1>5, <1>8, WriteSets
    <2>2. /\ r \in Records /\ KeptBy(n) \subseteq TextOf(n) /\ Text(f)' = TextOf(n)
          /\ Single(TextOf(n))
      BY <1>4, <1>5, <1>6, <1>8, KeptInText, TextSingle
    <2>3. Abstract!Reached
      BY <1>5, <1>6, <1>8 DEF Abstract!Reached
    <2> QED BY <1>6, <1>8, <2>1, <2>2, <2>3, WriteRefined
  <1>9. CASE n.code # 0
    <2>1. KeptBy(m) \subseteq KeptBy(n) /\ (n.code \in {1, 6} => TextOf(n) = TextOf(m))
      BY <1>2, <1>4, <1>5, <1>9, SetsSame
    <2>2. Text(f)' = Text(f) \/ Text(f)' = Kept(f)'
      BY <1>6, <1>9, <2>1
    <2> QED BY <1>6, <1>9, <2>1, <2>2, FailRefined
  <1> QED BY <1>8, <1>9

\* A non-empty set of naturals with a bound has a greatest element.
LEMMA MaxIn ==
    ASSUME NEW K \in Nat, NEW S, S \subseteq 0 .. K, S # {}
    PROVE  Max(S) \in S /\ \A y \in S : y <= Max(S)
  <1> DEFINE T == {K - x : x \in S}
  <1>1. T \subseteq Nat /\ T # {}
    <2>1. \A x \in S : K - x \in Nat
      BY SMT
    <2> QED BY <2>1
  <1>2. PICK t \in T : \A u \in T : t <= u
    BY <1>1, Least
  <1>3. PICK x \in S : t = K - x
    BY <1>2
  <1>4. ASSUME NEW y \in S PROVE x >= y
    <2>1. K - y \in T
      OBVIOUS
    <2>2. t <= K - y
      BY <1>2, <2>1
    <2>3. x \in Nat /\ y \in Nat
      BY SMT
    <2> HIDE DEF T
    <2> QED BY <1>3, <2>2, <2>3, SMT
  <1>5. \E z \in S : \A y \in S : z >= y
    BY <1>4
  <1>6. Max(S) \in S /\ \A y \in S : Max(S) >= y
    BY <1>5 DEF Max
  <1>7. \A y \in S : y \in Nat
    BY SMT
  <1> QED BY <1>6, <1>7, SMT

\* The end of an entry or FCB: its records lie before it.
LEMMA EntryEnd ==
    ASSUME NEW e \in Entries \cup FCBs
    PROVE  /\ NS2 * NEX * RPE \in Nat
           /\ ExtRec(e.s2, e.ex, e.rc) \in 0 .. NS2 * NEX * RPE
           /\ \A r \in Records : Has(e, r) => r < ExtRec(e.s2, e.ex, e.rc)
  <1>1. e.s2 \in Modules /\ e.ex \in Extents /\ e.rc \in 0 .. RPE
    BY DEF Entries, FCBs
  <1>2. PICK b : b = (e.s2 * NEX + e.ex) * RPE
    OBVIOUS
  <1>3. RPE \in Nat \ {0} /\ e.rc \in Nat /\ e.rc <= RPE /\ NS2 \in Nat /\ NEX \in Nat
    BY <1>1, GeometryAssumption, SMT
  <1>4. PICK t : t = NS2 * NEX * RPE
    OBVIOUS
  <1>5. t \in Nat
    <2>1. NS2 * NEX \in Nat
      BY <1>3, MulNat
    <2> QED BY <1>3, <1>4, <2>1, MulNat
  <1>6. b \in Nat
    <2>1. e.s2 \in Nat /\ e.ex \in Nat
      BY <1>1, GeometryAssumption, SMT DEF Modules, Extents
    <2>2. e.s2 * NEX \in Nat
      BY <1>3, <2>1, MulNat
    <2>3. e.s2 * NEX + e.ex \in Nat
      BY <2>1, <2>2, SMT
    <2> QED BY <1>2, <1>3, <2>3, MulNat
  <1>7. \A c : ExtRec(e.s2, e.ex, c) = b + c
    BY <1>2 DEF ExtRec
  <1>8. b + (RPE - 1) \in 0 .. t - 1
    <2>1. RPE - 1 \in 0 .. RPE - 1
      BY <1>3, SMT
    <2>2. ExtRec(e.s2, e.ex, RPE - 1) \in Records
      BY <1>1, <2>1, NumberExact
    <2> QED BY <1>4, <1>7, <2>2 DEF Records
  <1>9. b + e.rc \in 0 .. t
    BY <1>3, <1>5, <1>6, <1>8, SMT
  <1>10. ASSUME NEW r \in Records, Has(e, r) PROVE r < b + e.rc
    <2>1. PICK c \in Nat : c = Decode(r).cr /\ r = ExtRec(Decode(r).s2, Decode(r).ex, c)
      BY DecodeType
    <2>2. r = b + c /\ c < e.rc
      BY <1>7, <1>10, <2>1 DEF Has, OfExtent
    <2> QED BY <1>3, <1>6, <2>1, <2>2, SMT
  <1> QED BY <1>4, <1>5, <1>7, <1>9, <1>10

\* A call on file f, open or not, that leaves the drive alone ...
Quiet(f, c, m, op, r, n) ==
    /\ f \in Files /\ m = Start(f, c)
    /\ n.dir = m.dir /\ n.data = m.data /\ n.name = m.name /\ Finish(f, op, r, n, Zero)
    /\ \A g \in Files \ {f} : (g \in open' <=> g \in open) /\ fcb'[g] = fcb[g]
    /\ f \in open' => Counts(n.dir, f, fcb'[f])

\* ... and what it leaves.
Quieted(f, m, op, r, n) ==
    /\ Others({f}) /\ Abstract!Only(f) /\ CountsCurrent' /\ FilesBegin'
    /\ EntriesOf(f)' = {} <=> EntriesOf(f) = {}
    /\ EntriesOf(f) = {i \in Slots : m.dir[i].name = m.name}
    /\ Kept(f) = KeptBy(m) /\ Kept(f)' = Kept(f) /\ KeptBy(n) = KeptBy(m)
    /\ Text(f)' = IF f \in open' THEN SeenSet(n.dir, n.data, n.name, fcb'[f]) ELSE Kept(f)
    /\ Text(f) = IF f \in open THEN SeenSet(n.dir, n.data, n.name, fcb[f]) ELSE Kept(f)
    /\ out'.op = op /\ out'.file = f /\ out'.rec = r /\ out'.code = n.code

\* Such a call has no effect but its result.
LEMMA QuietEffect ==
    ASSUME EXM = 0, RInv, IInv', NEW f, NEW c, NEW m, NEW op, NEW r, NEW n,
           Quiet(f, c, m, op, r, n)
    PROVE  Quieted(f, m, op, r, n)
  <1>0. /\ f \in Files /\ m = Start(f, c)
        /\ n.dir = m.dir /\ n.data = m.data /\ n.name = m.name /\ Finish(f, op, r, n, Zero)
        /\ \A g \in Files \ {f} : (g \in open' <=> g \in open) /\ fcb'[g] = fcb[g]
        /\ f \in open' => Counts(n.dir, f, fcb'[f])
    BY DEF Quiet
  <1>1. m.dir = dir[Drive(f)] /\ m.name = Name(f) /\ m.data = data[Drive(f)]
    BY <1>0 DEF Start
  <1>2. /\ out'.op = op /\ out'.file = f /\ out'.rec = r /\ out'.code = n.code /\ out'.val = Zero
        /\ dir' = [dir EXCEPT ![Drive(f)] = n.dir] /\ data' = [data EXCEPT ![Drive(f)] = n.data]
    BY <1>0, FinishResult
  <1>3. Apart(m, n)
    BY <1>0, ApartSame
  <1>4. /\ Others({f})
        /\ Kept(f) = SavedSet(m.dir, m.data, m.name)
        /\ Kept(f)' = SavedSet(n.dir, n.data, n.name)
        /\ Text(f)' = IF f \in open' THEN SeenSet(n.dir, n.data, n.name, fcb'[f]) ELSE Kept(f)'
        /\ n.dir = m.dir => FilesBegin' /\ (EntriesOf(f)' = {} <=> EntriesOf(f) = {})
        /\ CountsCurrent'
    <2>1. \A g \in Files \ {f} : (g \in open' <=> g \in open) /\ fcb'[g] = fcb[g]
      BY <1>0
    <2>2. /\ m.dir = dir[Drive(f)] /\ m.data = data[Drive(f)] /\ m.name = Name(f)
          /\ dir' = [dir EXCEPT ![Drive(f)] = n.dir] /\ data' = [data EXCEPT ![Drive(f)] = n.data]
      BY <1>1, <1>2
    <2>3. (f \in open' => Counts(n.dir, f, fcb'[f])) /\ n.dir = m.dir
      BY <1>0
    <2>4. CallMade(f, m, n)
      BY <1>0, <1>3, <2>1, <2>2 DEF CallMade
    <2>5. CallDone(f, m, n)
      BY <2>4, CallEffect
    <2> QED BY <2>3, <2>5 DEF CallDone
  <1>5. TypeOK /\ TypeOK'
    BY DEF RInv, IInv
  <1>6. Text(f) = IF f \in open THEN SeenSet(m.dir, m.data, m.name, fcb[f]) ELSE Kept(f)
    BY <1>0, <1>1, <1>5, FileSets
  <1>7. Abstract!Only(f)
    BY <1>0, <1>4, OnlyHolds
  <1> QED BY <1>0, <1>1, <1>2, <1>4, <1>6, <1>7 DEF EntriesOf, KeptBy, Quieted

\* A call that is refused.
LEMMA RefusedRefined ==
    ASSUME EXM = 0, RInv, IInv', NEW f \in Files, f \notin open, NEW c, NEW m, m = Start(f, c),
           NEW n, n.dir = m.dir, n.data = m.data, n.name = m.name, n.code # 0,
           NEW op \in {"open", "make", "delete", "rename"}, NEW r, Finish(f, op, r, n, Zero),
           UNCHANGED <<fcb, open>>
    PROVE  Refined
  <1>1. /\ \A g \in Files \ {f} : (g \in open' <=> g \in open) /\ fcb'[g] = fcb[g]
        /\ f \notin open'
    OBVIOUS
  <1>2. Quiet(f, c, m, op, r, n)
    BY <1>1 DEF Quiet
  <1>3. Quieted(f, m, op, r, n)
    BY <1>2, QuietEffect
  <1>4. /\ Others({f}) /\ Abstract!Only(f) /\ CountsCurrent' /\ FilesBegin'
        /\ Kept(f)' = Kept(f) /\ Text(f)' = Kept(f) /\ Text(f) = Kept(f)
        /\ out'.op = op /\ out'.file = f /\ out'.code = n.code
    BY <1>1, <1>3 DEF Quieted
  <1> QED BY <1>4, FailRefined

\* Open shows a file of the directory as a fresh Open would.
LEMMA OpenRefined ==
    ASSUME EXM = 0, RInv, IInv', NEW f \in Files, Open(f)
    PROVE  Refined
  <1>1. PICK m, n : m = Start(f, FreshFCB) /\ n = Activate(m) /\ Opening(f, "open", n) /\ f \notin open
    BY DEF Open
  <1>2. Finish(f, "open", 0, n, Zero)
    BY <1>1 DEF Opening
  <1>3. /\ Sound(m) /\ m.dir = dir[Drive(f)] /\ m.name = Name(f) /\ m.code = 0
        /\ fcb \in [Files -> FCBs]
    BY <1>1, StartSound, FreshType DEF RInv, IInv, TypeOK
  <1>4. /\ Sound(n) /\ SameDrive(m, n)
        /\ Found(m) # {} => Bound(n) /\ n.code = m.code
        /\ Found(m) = {} => n.code = 255 /\ n.fcb = m.fcb
    BY <1>1, <1>3, ActivateSound
  <1>5. n.dir = m.dir /\ n.data = m.data /\ n.name = m.name
    BY <1>4 DEF SameDrive
  <1>6. CASE Found(m) = {}
    <2>1. n.code # 0
      BY <1>4, <1>6, SMT
    <2>2. UNCHANGED <<fcb, open>>
      BY <1>1, <2>1 DEF Opening
    <2> QED BY <1>1, <1>2, <1>5, <2>1, <2>2, RefusedRefined
  <1>7. CASE Found(m) # {}
    <2>1. n.code = 0 /\ Bound(n) /\ fcb' = [fcb EXCEPT ![f] = n.fcb] /\ open' = open \cup {f}
      BY <1>1, <1>3, <1>4, <1>7 DEF Opening
    <2>2. Current(n) /\ n.fcb.clean
      BY <1>1, <1>3, <1>7, ActivateText
    <2>3. fcb'[f] = n.fcb /\ f \in open'
          /\ \A g \in Files \ {f} : (g \in open' <=> g \in open) /\ fcb'[g] = fcb[g]
      BY <1>3, <2>1
    <2>4. Counts(n.dir, f, fcb'[f])
      BY <1>3, <1>5, <2>2, <2>3 DEF Current, Found, Counts
    <2>5. /\ Others({f}) /\ Abstract!Only(f) /\ CountsCurrent' /\ FilesBegin'
          /\ EntriesOf(f) = {i \in Slots : m.dir[i].name = m.name}
          /\ Kept(f) = KeptBy(m) /\ Kept(f)' = Kept(f) /\ KeptBy(n) = KeptBy(m)
          /\ Text(f)' = IF f \in open' THEN SeenSet(n.dir, n.data, n.name, fcb'[f]) ELSE Kept(f)
          /\ Text(f) = IF f \in open THEN SeenSet(n.dir, n.data, n.name, fcb[f]) ELSE Kept(f)
          /\ out'.op = "open" /\ out'.file = f /\ out'.code = n.code
      <3>1. Quiet(f, FreshFCB, m, "open", 0, n)
        BY <1>1, <1>2, <1>5, <2>3, <2>4 DEF Quiet
      <3>2. Quieted(f, m, "open", 0, n)
        BY <3>1, QuietEffect
      <3> QED BY <3>2 DEF Quieted
    <2>6. TextOf(n) = KeptBy(n)
      BY <1>4, <2>1, <2>2, KeptInText DEF Settled
    <2>7. Text(f)' = Text(f) /\ Kept(f)' = Kept(f)
      BY <1>1, <2>3, <2>5, <2>6 DEF TextOf
    <2>8. EntriesOf(f) # {}
      BY <1>7, <2>5 DEF Found, Hits
    <2>9. \A g \in Files : Text(g)' = Text(g) /\ Kept(g)' = Kept(g)
      BY <2>5, <2>7 DEF Others
    <2>10. {g \in Files : EntriesOf(g) # {}}' = {g \in Files : EntriesOf(g) # {}}
      BY <2>5 DEF Abstract!Only
    <2>11. Abstract!Open(f)
      BY <2>1, <2>5, <2>8, <2>9, <2>10 DEF Abstract!Open, Abstract!Result
    <2>12. Stay
      BY <2>5, <2>7, StayHolds
    <2> QED BY <2>5, <2>11, <2>12 DEF Refined, Abstract!Next
  <1> QED BY <1>6, <1>7

\* Size reports an end behind every record.
LEMMA SizeRefined ==
    ASSUME EXM = 0, RInv, IInv', NEW f \in Files, Size(f)
    PROVE  Refined
  <1> DEFINE hits(m) == {j \in Live(m.dir) : m.dir[j].name = m.name}
             ends(m) == {ExtRec(m.dir[i].s2, m.dir[i].ex, m.dir[i].rc) : i \in hits(m)}
  <1>1. PICK m : m = Start(f, FreshFCB)
    OBVIOUS
  <1>2. PICK n, r : /\ n = IF ends(m) = {} THEN Quit(m, 255) ELSE m
                    /\ r = IF ends(m) = {} THEN 0 ELSE Max(ends(m))
                    /\ Finish(f, "size", r, n, Zero) /\ UNCHANGED <<fcb, open>>
    BY <1>1 DEF Size
  <1>3. /\ Sound(m) /\ m.dir = dir[Drive(f)] /\ m.name = Name(f) /\ m.code = 0
        /\ m.dir \in [Slots -> Entries \cup {NoEntry}] /\ m.name \in Names /\ m.name # "none"
    BY <1>1, StartSound, FreshType, FilesAssumption DEF RInv, Sound, Calls
  <1>4. PICK h : h = hits(m)
    OBVIOUS
  <1>5. PICK e : e = ends(m)
    OBVIOUS
  <1>6. h = {i \in Slots : m.dir[i].name = m.name}
    BY <1>3, <1>4, LiveIffNamed DEF Live
  <1>7. e = {ExtRec(m.dir[i].s2, m.dir[i].ex, m.dir[i].rc) : i \in h}
    BY <1>4, <1>5
  <1>8. /\ n = IF e = {} THEN Quit(m, 255) ELSE m
        /\ r = IF e = {} THEN 0 ELSE Max(e)
    BY <1>2, <1>5
  <1> HIDE DEF hits, ends
  <1>9. n.dir = m.dir /\ n.data = m.data /\ n.name = m.name /\ n.fcb = m.fcb
        /\ n.code = IF e = {} THEN 255 ELSE 0
    <2>1. CASE e = {}
      <3>1. n = Quit(m, 255) /\ 255 \in Nat
        BY <1>8, <2>1, SMT
      <3>2. n.code = 255 /\ SameDrive(m, n) /\ n.fcb = m.fcb
        BY <1>3, <3>1, CarrySound
      <3> QED BY <2>1, <3>2 DEF SameDrive
    <2>2. CASE e # {}
      BY <1>3, <1>8, <2>2
    <2> QED BY <2>1, <2>2
  <1>10. f \in open' => Counts(n.dir, f, fcb'[f])
    BY <1>2, <1>3, <1>9 DEF RInv, CountsCurrent
  <1>11. \A g \in Files \ {f} : (g \in open' <=> g \in open) /\ fcb'[g] = fcb[g]
    BY <1>2
  <1>12. /\ Others({f}) /\ Abstract!Only(f) /\ CountsCurrent' /\ FilesBegin'
         /\ EntriesOf(f) = {i \in Slots : m.dir[i].name = m.name}
         /\ Kept(f) = KeptBy(m) /\ Kept(f)' = Kept(f)
         /\ Text(f)' = IF f \in open' THEN SeenSet(n.dir, n.data, n.name, fcb'[f]) ELSE Kept(f)
         /\ Text(f) = IF f \in open THEN SeenSet(n.dir, n.data, n.name, fcb[f]) ELSE Kept(f)
         /\ out'.op = "size" /\ out'.file = f /\ out'.code = n.code /\ out'.rec = r
    <2>1. Quiet(f, FreshFCB, m, "size", r, n)
      BY <1>1, <1>2, <1>9, <1>10, <1>11 DEF Quiet
    <2>2. Quieted(f, m, "size", r, n)
      BY <2>1, QuietEffect
    <2> QED BY <2>2 DEF Quieted
  <1>13. Text(f)' = Text(f)
    BY <1>2, <1>12
  <1>14. Stay
    BY <1>12, StayHolds
  <1>15. CASE e = {}
    <2>1. out'.code # 0
      BY <1>9, <1>12, <1>15, SMT
    <2> QED BY <1>12, <1>13, <2>1, FailRefined
  <1>16. CASE e # {}
    <2>1. \A i \in h : m.dir[i] \in Entries
      BY <1>3, <1>6, LiveIffNamed
    <2>2. PICK K \in Nat : K = NS2 * NEX * RPE
      BY <1>7, <1>16, <2>1, EntryEnd
    <2>3. e \subseteq 0 .. K
      BY <1>7, <2>1, <2>2, EntryEnd
    <2>4. r \in e /\ \A y \in e : y <= r
      BY <1>8, <1>16, <2>2, <2>3, MaxIn
    <2>5. ASSUME NEW q \in Abstract!Numbers(Kept(f)) PROVE q < r
      <3>1. PICK p \in KeptBy(m) : p[1] = q
        BY <1>12 DEF Abstract!Numbers
      <3>2. PICK x \in Records, v \in Values : p = <<x, v>>
        BY <3>1, PairsOnly
      <3>3. Saved(m, q, v) /\ q \in Records
        BY <1>3, <3>1, <3>2, SavedTyped
      <3>4. PICK i \in Slots : m.dir[i].name = m.name /\ Has(m.dir[i], q)
        BY <3>3 DEF Saved, SavedIn
      <3>5. i \in h /\ m.dir[i] \in Entries
        BY <1>6, <2>1, <3>4
      <3>6. PICK z : z = ExtRec(m.dir[i].s2, m.dir[i].ex, m.dir[i].rc)
        OBVIOUS
      <3>7. q < z /\ z \in e
        BY <1>7, <3>3, <3>4, <3>5, <3>6, EntryEnd
      <3>8. q \in Nat /\ z \in Nat /\ r \in Nat /\ z <= r
        BY <2>2, <2>3, <2>4, <3>3, <3>7, SMT DEF Records
      <3> QED BY <3>7, <3>8, SMT
    <2>6. EntriesOf(f) # {}
      BY <1>6, <1>7, <1>12, <1>16
    <2>7. \A g \in Files : Text(g)' = Text(g) /\ Kept(g)' = Kept(g)
      BY <1>12, <1>13 DEF Others
    <2>8. {g \in Files : EntriesOf(g) # {}}' = {g \in Files : EntriesOf(g) # {}}
      BY <1>12 DEF Abstract!Only
    <2>9. Abstract!Size(f)
      BY <1>9, <1>12, <1>16, <2>5, <2>6, <2>7, <2>8 DEF Abstract!Size, Abstract!Result
    <2> QED BY <1>12, <1>14, <2>9 DEF Refined, Abstract!Next
  <1> QED BY <1>15, <1>16

\* A program that stops using files, and calls that only change the active
\* drive.
LEMMA ForgetRefined ==
    ASSUME EXM = 0, RInv, IInv', UNCHANGED <<dir, data>>, open' \subseteq open,
           \A g \in open' : fcb'[g] = fcb[g]
    PROVE  /\ \A f \in Files : /\ Kept(f)' = Kept(f) /\ Text(f)' \in {Text(f), Kept(f)}
                               /\ open' = open => Text(f)' = Text(f)
           /\ {g \in Files : EntriesOf(g) # {}}' = {g \in Files : EntriesOf(g) # {}}
           /\ CountsCurrent' /\ FilesBegin'
           /\ out'.op = "none" => Refined
  <1>1. TypeOK /\ TypeOK'
    BY DEF RInv, IInv
  <1>2. ASSUME NEW f \in Files
        PROVE  /\ Kept(f)' = Kept(f) /\ Text(f)' \in {Text(f), Kept(f)}
               /\ open' = open => Text(f)' = Text(f)
               /\ EntriesOf(f)' = EntriesOf(f)
    <2>1. /\ Kept(f) = SavedSet(dir[Drive(f)], data[Drive(f)], Name(f))
          /\ Text(f) = IF f \in open
                       THEN SeenSet(dir[Drive(f)], data[Drive(f)], Name(f), fcb[f]) ELSE Kept(f)
          /\ Kept(f)' = SavedSet(dir'[Drive(f)], data'[Drive(f)], Name(f))
          /\ Text(f)' = IF f \in open'
                        THEN SeenSet(dir'[Drive(f)], data'[Drive(f)], Name(f), fcb'[f])
                        ELSE Kept(f)'
      BY <1>1, FileSets
    <2>2. EntriesOf(f)' = EntriesOf(f)
      BY DEF EntriesOf
    <2>3. Kept(f)' = Kept(f)
      BY <2>1
    <2>4. CASE f \in open'
      BY <2>1, <2>2, <2>3, <2>4
    <2>5. CASE f \notin open'
      BY <2>1, <2>2, <2>3, <2>5
    <2> QED BY <2>4, <2>5
  <1>3. CountsCurrent' /\ FilesBegin'
    BY DEF RInv, CountsCurrent, FilesBegin
  <1>4. {g \in Files : EntriesOf(g) # {}}' = {g \in Files : EntriesOf(g) # {}}
    BY <1>2
  <1>5. ASSUME out'.op = "none" PROVE Refined
    <2>1. Abstract!Forget
      BY <1>2, <1>4, <1>5 DEF Abstract!Forget
    <2>2. Stay
      BY <1>2 DEF Stay
    <2> QED BY <1>3, <2>1, <2>2 DEF Refined, Abstract!Next
  <1> QED BY <1>2, <1>3, <1>4, <1>5

\* A file without entries has no records.
LEMMA NoEntryNoRecord ==
    ASSUME NEW dd, NEW dat, NEW nm, ~ \E i \in Slots : dd[i].name = nm
    PROVE  SavedSet(dd, dat, nm) = {}
  BY DEF SavedSet, SavedIn

\* Make: the file has no entry, for it would have its first extent.
LEMMA MakeRefined ==
    ASSUME EXM = 0, RInv, IInv', NEW f \in Files, Make(f)
    PROVE  Refined
  <1>1. PICK m, made : m = Start(f, FreshFCB) /\ made = MkFree(m)
    OBVIOUS
  <1>2. PICK n : /\ n = IF Found(m) # {} \/ made.code # 0 THEN Quit(m, 255) ELSE made
                 /\ Opening(f, "make", n) /\ Finish(f, "make", 0, n, Zero) /\ f \notin open
    BY <1>1 DEF Make, Opening
  <1>3. /\ Sound(m) /\ m.dir = dir[Drive(f)] /\ m.name = Name(f) /\ m.code = 0
        /\ m.data = data[Drive(f)] /\ m.fcb = FreshFCB
        /\ fcb \in [Files -> FCBs] /\ TypeOK /\ TypeOK'
    BY <1>1, StartSound, FreshType DEF RInv, IInv, TypeOK, Start
  <1>4. CASE Found(m) # {} \/ made.code # 0
    <2>1. n = Quit(m, 255) /\ 255 \in Nat /\ 255 # 0
      BY <1>2, <1>4, SMT
    <2>2. n.code = 255 /\ SameDrive(m, n)
      BY <1>3, <2>1, CarrySound
    <2>3. n.dir = m.dir /\ n.data = m.data /\ n.name = m.name /\ n.code # 0
      BY <2>1, <2>2 DEF SameDrive
    <2>4. UNCHANGED <<fcb, open>>
      BY <1>2, <2>3 DEF Opening
    <2> QED BY <1>1, <1>2, <2>3, <2>4, RefusedRefined
  <1>5. CASE Found(m) = {} /\ made.code = 0
    <2>1. n = made /\ n.code = 0
      BY <1>2, <1>5
    <2>2. FreeSlots(m) # {}
      <3>1. 5 # 0
        BY SMT
      <3> QED BY <1>1, <1>3, <1>5, <3>1, MkFreeSound
    <2>3. Sound(n) /\ Bound(n) /\ Stays(m, n)
      BY <1>1, <1>3, <1>5, <2>1, <2>2, MkFreeSound
    <2>4. /\ Apart(m, n) /\ SavedSame(m, n) /\ n.data = m.data
          /\ Current(n) /\ n.fcb.clean /\ n.fcb.rc = 0
      BY <1>1, <1>3, <1>5, <2>1, <2>2, MkFreeText
    <2>5. fcb' = [fcb EXCEPT ![f] = n.fcb] /\ open' = open \cup {f}
      BY <1>2, <2>1 DEF Opening
    <2>6. fcb'[f] = n.fcb /\ f \in open' /\ n.name = m.name
          /\ \A g \in Files \ {f} : (g \in open' <=> g \in open) /\ fcb'[g] = fcb[g]
      BY <1>3, <2>4, <2>5 DEF Apart
    <2>7. f \in open' => Counts(n.dir, f, fcb'[f])
      BY <1>3, <2>4, <2>6 DEF Current, Found, Counts
    <2>8. /\ out'.op = "make" /\ out'.file = f /\ out'.code = 0
          /\ dir' = [dir EXCEPT ![Drive(f)] = n.dir] /\ data' = [data EXCEPT ![Drive(f)] = n.data]
      BY <1>2, <2>1, FinishResult
    <2>9. /\ Others({f})
          /\ Kept(f) = SavedSet(m.dir, m.data, m.name)
          /\ Kept(f)' = SavedSet(n.dir, n.data, n.name)
          /\ Text(f)' = IF f \in open' THEN SeenSet(n.dir, n.data, n.name, fcb'[f]) ELSE Kept(f)'
          /\ Hits(n.dir, n.name, 0, 0) # {} => FilesBegin'
          /\ EntriesOf(f)' = {i \in Slots : n.dir[i].name = n.name}
          /\ CountsCurrent'
      <3>1. \A g \in Files \ {f} : (g \in open' <=> g \in open) /\ fcb'[g] = fcb[g]
        BY <2>6
      <3>2. /\ m.dir = dir[Drive(f)] /\ m.data = data[Drive(f)] /\ m.name = Name(f)
            /\ dir' = [dir EXCEPT ![Drive(f)] = n.dir] /\ data' = [data EXCEPT ![Drive(f)] = n.data]
        BY <1>3, <2>8
      <3>3. CallMade(f, m, n)
        BY <2>4, <3>1, <3>2 DEF CallMade
      <3>4. CallDone(f, m, n)
        BY <3>3, CallEffect
      <3> QED BY <2>7, <3>4 DEF CallDone
    <2>10. Hits(m.dir, m.name, 0, 0) = {} /\ Hits(n.dir, n.name, 0, 0) # {}
      <3>1. m.fcb.ex = 0 /\ m.fcb.s2 = 0 /\ n.fcb.ex = 0 /\ n.fcb.s2 = 0
        BY <1>3, <2>3 DEF FreshFCB, Stays
      <3>2. Found(n) # {}
        BY <2>3 DEF Bound
      <3> QED BY <1>5, <3>1, <3>2 DEF Found
    <2>11. ~ \E i \in Slots : m.dir[i].name = m.name
      <3>1. Begun(m.dir) /\ m.name # "none"
        BY <1>3, FileType, FilesAssumption DEF RInv, FilesBegin
      <3> QED BY <2>10, <3>1 DEF Begun
    <2>12. Kept(f) = {} /\ Text(f) = {} /\ EntriesOf(f) = {}
      BY <1>2, <1>3, <2>9, <2>11, NoEntryNoRecord DEF EntriesOf, Text
    <2>13. KeptBy(n) = KeptBy(m) /\ TextOf(n) = KeptBy(n)
      BY <1>3, <2>3, <2>4, SetsSame, KeptInText DEF Settled
    <2>14. Kept(f)' = {} /\ Text(f)' = {}
      BY <2>6, <2>9, <2>12, <2>13 DEF KeptBy, TextOf
    <2>15. EntriesOf(f)' # {}
      BY <2>9, <2>10 DEF Hits
    <2>16. \A g \in Files \ {f} : /\ Text(g)' = Text(g) /\ Kept(g)' = Kept(g)
                                  /\ EntriesOf(g)' = {} <=> EntriesOf(g) = {}
      BY <2>9 DEF Others
    <2>17. {g \in Files : EntriesOf(g) # {}}' = {g \in Files : EntriesOf(g) # {}} \cup {f}
      BY <2>15, <2>16
    <2>18. Abstract!Create(f)
      BY <2>8, <2>12, <2>14, <2>16, <2>17 DEF Abstract!Create, Abstract!Result
    <2>19. Stay
      BY <2>9, <2>12, <2>14, StayHolds
    <2> QED BY <2>9, <2>10, <2>18, <2>19 DEF Refined, Abstract!Next
  <1> QED BY <1>4, <1>5

\* Delete takes the file with all its extents.
LEMMA DeleteRefined ==
    ASSUME EXM = 0, RInv, IInv', NEW f \in Files, Delete(f)
    PROVE  Refined
  <1>1. PICK m : m = Start(f, FreshFCB)
    OBVIOUS
  <1>2. PICK gone : gone = {i \in Live(m.dir) : m.dir[i].name = m.name}
    OBVIOUS
  <1>3. PICK rest : rest = [i \in Slots |-> IF i \in gone THEN NoEntry ELSE m.dir[i]]
    OBVIOUS
  <1>4. /\ f \notin open /\ UNCHANGED <<fcb, open>>
        /\ Finish(f, "delete", 0, IF gone = {} THEN Quit(m, 255)
                                  ELSE [m EXCEPT !.dir = rest, !.alv = Rebuilt(rest)], Zero)
    BY <1>1, <1>2, <1>3 DEF Delete
  <1>5. /\ Sound(m) /\ m.dir = dir[Drive(f)] /\ m.name = Name(f) /\ m.code = 0
        /\ m.data = data[Drive(f)] /\ Drive(f) \in Drives
        /\ m.dir \in [Slots -> Entries \cup {NoEntry}] /\ m.name \in Names /\ m.name # "none"
        /\ TypeOK /\ TypeOK' /\ m \in Calls
    BY <1>1, StartSound, FreshType, FilesAssumption, FileType DEF RInv, IInv, Start, Sound, Calls
  <1>6. gone = {i \in Slots : m.dir[i].name = m.name}
    BY <1>2, <1>5, LiveIffNamed DEF Live
  <1>7. CASE gone = {}
    <2>1. PICK n : n = Quit(m, 255) /\ 255 \in Nat /\ 255 # 0
      BY SMT
    <2>2. n.code = 255 /\ SameDrive(m, n)
      BY <1>5, <2>1, CarrySound
    <2>3. n.dir = m.dir /\ n.data = m.data /\ n.name = m.name /\ n.code # 0
      BY <2>1, <2>2 DEF SameDrive
    <2>4. Finish(f, "delete", 0, n, Zero) /\ UNCHANGED <<fcb, open>>
      BY <1>4, <1>7, <2>1
    <2> QED BY <1>1, <1>4, <2>3, <2>4, RefusedRefined
  <1>8. CASE gone # {}
    <2>1. PICK n : n = [m EXCEPT !.dir = rest, !.alv = Rebuilt(rest)]
      OBVIOUS
    <2>2. n.dir = rest /\ n.data = m.data /\ n.name = m.name /\ n.code = 0
      <3>1. PICK av : av = Rebuilt(rest)
        OBVIOUS
      <3>2. n = [m EXCEPT !.dir = rest, !.alv = av]
        BY <2>1, <3>1
      <3> QED BY <1>5, <3>2 DEF Calls
    <2>3. Finish(f, "delete", 0, n, Zero)
      BY <1>4, <1>8, <2>1
    <2>4. /\ out'.op = "delete" /\ out'.file = f /\ out'.code = 0
          /\ dir' = [dir EXCEPT ![Drive(f)] = n.dir] /\ data' = [data EXCEPT ![Drive(f)] = n.data]
      BY <2>2, <2>3, FinishResult
    <2>5. \A i \in Slots : IF m.dir[i].name = m.name THEN n.dir[i].name = "none"
                                                    ELSE n.dir[i] = m.dir[i]
      BY <1>3, <1>6, <2>2 DEF NoEntry
    <2>6. ~ \E i \in Slots : n.dir[i].name = m.name
      BY <1>5, <2>5
    <2>7. PICK d \in Drives : d = Drive(f)
      BY <1>5
    <2>8. ASSUME NEW g \in Files \ {f}, Drive(g) = d
          PROVE  Spared(m, n, Name(g))
      <3>1. Name(g) # m.name /\ Name(g) # "none"
        BY <1>5, <2>7, <2>8, FileType, FilesAssumption
      <3>2. \A i \in Slots : (m.dir[i].name = Name(g) \/ n.dir[i].name = Name(g))
                                => n.dir[i] = m.dir[i]
        BY <2>5, <3>1
      <3> QED BY <2>2, <3>2, PlainSpared
    <2>9. /\ Others({f})
          /\ dir'[d] = n.dir /\ data'[d] = n.data
          /\ \A e \in Drives : e # d => dir'[e] = dir[e]
          /\ CountsCurrent'
      <3>1. PICK S : S = {f}
        OBVIOUS
      <3>2. \A g \in Files \ S : /\ (g \in open' <=> g \in open) /\ fcb'[g] = fcb[g]
                                 /\ Drive(g) = d => Spared(m, n, Name(g))
        BY <1>4, <2>8, <3>1
      <3>3. /\ m.dir = dir[d] /\ m.data = data[d]
            /\ dir' = [dir EXCEPT ![d] = n.dir] /\ data' = [data EXCEPT ![d] = n.data]
        BY <1>5, <2>4, <2>7
      <3>4. \A h \in S : h \in open' => Counts(dir'[Drive(h)], h, fcb'[h])
        BY <1>4, <3>1
      <3>5. /\ Others(S)
            /\ dir'[d] = n.dir /\ data'[d] = n.data
            /\ \A e \in Drives : e # d => dir'[e] = dir[e]
            /\ (\A h \in S : h \in open' => Counts(dir'[Drive(h)], h, fcb'[h])) => CountsCurrent'
        BY <3>2, <3>3, OthersEffect
      <3> QED BY <3>1, <3>4, <3>5
    <2>10. /\ EntriesOf(f)' = {} /\ EntriesOf(f) # {}
      BY <1>5, <1>6, <1>8, <2>6, <2>7, <2>9 DEF EntriesOf
    <2>11. Kept(f)' = {} /\ Text(f)' = {}
      BY <1>4, <1>5, <2>6, <2>7, <2>9, FileSets, NoEntryNoRecord
    <2>12. \A g \in Files \ {f} : /\ Text(g)' = Text(g) /\ Kept(g)' = Kept(g)
                                  /\ EntriesOf(g)' = {} <=> EntriesOf(g) = {}
      BY <2>9 DEF Others
    <2>13. {g \in Files : EntriesOf(g) # {}}' = {g \in Files : EntriesOf(g) # {}} \ {f}
      BY <2>10, <2>12
    <2>14. Abstract!Remove(f)
      BY <2>4, <2>10, <2>11, <2>12, <2>13 DEF Abstract!Remove, Abstract!Result
    <2>15. FilesBegin'
      <3>1. Begun(m.dir)
        BY <1>5 DEF RInv, FilesBegin
      <3>2. ASSUME NEW i \in Slots, n.dir[i].name # "none" PROVE Hits(n.dir, n.dir[i].name, 0, 0) # {}
        <4>1. m.dir[i].name # m.name /\ n.dir[i] = m.dir[i]
          BY <2>5, <3>2
        <4>2. PICK j \in Slots : /\ m.dir[j].name = m.dir[i].name /\ m.dir[j].s2 = 0
                                 /\ Group(m.dir[j].ex) = Group(0)
          BY <3>1, <3>2, <4>1 DEF Begun, Hits
        <4>3. n.dir[j] = m.dir[j]
          BY <2>5, <4>1, <4>2
        <4> QED BY <4>1, <4>2, <4>3 DEF Hits
      <3>3. Begun(n.dir)
        BY <3>2 DEF Begun
      <3>4. \A e \in Drives : Begun(dir'[e])
        BY <2>9, <3>3 DEF RInv, FilesBegin
      <3> QED BY <3>4 DEF FilesBegin
    <2>16. Stay
      BY <2>4 DEF Stay
    <2> QED BY <2>9, <2>14, <2>15, <2>16 DEF Refined, Abstract!Next
  <1> QED BY <1>7, <1>8

\* An entry under another name.
LEMMA Relabelled ==
    ASSUME NEW e \in Entries, NEW to \in Names, NEW k, k = [e EXCEPT !.name = to]
    PROVE  k.name = to /\ k.ex = e.ex /\ k.s2 = e.s2 /\ k.rc = e.rc /\ k.map = e.map
  BY DEF Entries

\* Entries under another name hold the same records.
LEMMA RelabelledRecords ==
    ASSUME NEW dd, NEW dat, NEW nm, NEW ee, NEW to,
           \A i \in Slots : ee[i].name = to <=> dd[i].name = nm,
           \A i \in Slots : dd[i].name = nm =>
               ee[i].ex = dd[i].ex /\ ee[i].s2 = dd[i].s2 /\ ee[i].rc = dd[i].rc
               /\ ee[i].map = dd[i].map
    PROVE  SavedSet(ee, dat, to) = SavedSet(dd, dat, nm)
  <1>1. ASSUME NEW i \in Slots, dd[i].name = nm, NEW r \in Records
        PROVE  /\ Has(ee[i], r) <=> Has(dd[i], r)
               /\ Content(ee[i], dat, r) = Content(dd[i], dat, r)
    BY <1>1 DEF Has, OfExtent, Content
  <1>2. \A r \in Records : \A v : SavedIn(ee, dat, to, r, v) <=> SavedIn(dd, dat, nm, r, v)
    BY <1>1 DEF SavedIn
  <1> QED BY <1>2 DEF SavedSet

\* Rename hands all records to an unused name.
LEMMA RenameRefined ==
    ASSUME EXM = 0, RInv, IInv', NEW f \in Files, NEW g \in Files, Rename(f, g)
    PROVE  Refined
  <1>1. PICK m, to : m = Start(f, FreshFCB) /\ to = Name(g)
    OBVIOUS
  <1>2. PICK hits : hits = {i \in Live(m.dir) : m.dir[i].name = m.name}
    OBVIOUS
  <1>3. PICK new : new = [i \in Slots |-> IF i \in hits THEN [m.dir[i] EXCEPT !.name = to]
                                         ELSE m.dir[i]]
    OBVIOUS
  <1>4. /\ f \notin open /\ g \notin open /\ Drive(f) = Drive(g) /\ UNCHANGED <<fcb, open>>
        /\ Finish(f, "rename", 0,
                  IF (\E i \in Live(m.dir) : m.dir[i].name = to) \/ hits = {} THEN Quit(m, 255)
                  ELSE [m EXCEPT !.dir = new], Zero)
    BY <1>1, <1>2, <1>3 DEF Rename
  <1>5. /\ Sound(m) /\ m.dir = dir[Drive(f)] /\ m.name = Name(f) /\ m.code = 0
        /\ m.data = data[Drive(f)] /\ Drive(f) \in Drives
        /\ m.dir \in [Slots -> Entries \cup {NoEntry}] /\ m.name \in Names /\ m.name # "none"
        /\ TypeOK /\ TypeOK' /\ m \in Calls /\ to \in Names /\ to # "none"
    BY <1>1, StartSound, FreshType, FilesAssumption, FileType DEF RInv, IInv, Start, Sound, Calls
  <1>6. /\ hits = {i \in Slots : m.dir[i].name = m.name}
        /\ (\E i \in Live(m.dir) : m.dir[i].name = to) <=> \E i \in Slots : m.dir[i].name = to
        /\ \A i \in hits : m.dir[i] \in Entries
    BY <1>2, <1>5, LiveIffNamed DEF Live
  <1>7. CASE (\E i \in Live(m.dir) : m.dir[i].name = to) \/ hits = {}
    <2>1. PICK n : n = Quit(m, 255) /\ 255 \in Nat /\ 255 # 0
      BY SMT
    <2>2. n.code = 255 /\ SameDrive(m, n)
      BY <1>5, <2>1, CarrySound
    <2>3. n.dir = m.dir /\ n.data = m.data /\ n.name = m.name /\ n.code # 0
      BY <2>1, <2>2 DEF SameDrive
    <2>4. Finish(f, "rename", 0, n, Zero) /\ UNCHANGED <<fcb, open>>
      BY <1>4, <1>7, <2>1
    <2> QED BY <1>1, <1>4, <2>3, <2>4, RefusedRefined
  <1>8. CASE ~ ((\E i \in Live(m.dir) : m.dir[i].name = to) \/ hits = {})
    <2>1. PICK n : n = [m EXCEPT !.dir = new]
      OBVIOUS
    <2>2. n.dir = new /\ n.data = m.data /\ n.name = m.name /\ n.code = 0
      BY <1>5, <2>1 DEF Calls
    <2>3. Finish(f, "rename", 0, n, Zero)
      BY <1>4, <1>8, <2>1
    <2>4. /\ out'.op = "rename" /\ out'.file = f /\ out'.code = 0
          /\ dir' = [dir EXCEPT ![Drive(f)] = n.dir] /\ data' = [data EXCEPT ![Drive(f)] = n.data]
      BY <2>2, <2>3, FinishResult
    <2>5. \A i \in Slots : m.dir[i].name # to
      BY <1>6, <1>8
    <2>6. to # m.name /\ f # g
      BY <1>1, <1>5, <1>6, <1>8, <2>5
    <2>7. ASSUME NEW i \in Slots
          PROVE  IF m.dir[i].name = m.name
                 THEN /\ n.dir[i].name = to /\ n.dir[i].ex = m.dir[i].ex
                      /\ n.dir[i].s2 = m.dir[i].s2 /\ n.dir[i].rc = m.dir[i].rc
                      /\ n.dir[i].map = m.dir[i].map
                 ELSE n.dir[i] = m.dir[i]
      <3>1. CASE m.dir[i].name = m.name
        <4>1. PICK e, k : e = m.dir[i] /\ k = n.dir[i]
          OBVIOUS
        <4>2. e \in Entries /\ k = [e EXCEPT !.name = to]
          BY <1>3, <1>6, <2>2, <3>1, <4>1
        <4>3. k.name = to /\ k.ex = e.ex /\ k.s2 = e.s2 /\ k.rc = e.rc /\ k.map = e.map
          BY <1>5, <4>2, Relabelled
        <4> QED BY <3>1, <4>1, <4>3
      <3>2. CASE m.dir[i].name # m.name
        BY <1>3, <1>6, <2>2, <3>2
      <3> QED BY <3>1, <3>2
    <2>8. \A i \in Slots : /\ n.dir[i].name = to <=> m.dir[i].name = m.name
                           /\ n.dir[i].name # m.name
      BY <2>5, <2>6, <2>7
    <2>9. PICK d \in Drives : d = Drive(f) /\ d = Drive(g)
      BY <1>4, <1>5
    <2>10. ASSUME NEW h \in Files \ {f, g}, Drive(h) = d
           PROVE  Spared(m, n, Name(h))
      <3>1. Name(h) # m.name /\ Name(h) # to /\ Name(h) # "none"
        BY <1>1, <1>5, <2>9, <2>10, FileType, FilesAssumption
      <3>2. \A i \in Slots : (m.dir[i].name = Name(h) \/ n.dir[i].name = Name(h))
                                => n.dir[i] = m.dir[i]
        BY <2>7, <3>1
      <3> QED BY <2>2, <3>2, PlainSpared
    <2>11. /\ Others({f, g})
           /\ dir'[d] = n.dir /\ data'[d] = n.data
           /\ \A e \in Drives : e # d => dir'[e] = dir[e]
           /\ CountsCurrent'
      <3>1. PICK S : S = {f, g}
        OBVIOUS
      <3>2. \A h \in Files \ S : /\ (h \in open' <=> h \in open) /\ fcb'[h] = fcb[h]
                                 /\ Drive(h) = d => Spared(m, n, Name(h))
        BY <1>4, <2>10, <3>1
      <3>3. /\ m.dir = dir[d] /\ m.data = data[d]
            /\ dir' = [dir EXCEPT ![d] = n.dir] /\ data' = [data EXCEPT ![d] = n.data]
        BY <1>5, <2>4, <2>9
      <3>4. \A h \in S : h \in open' => Counts(dir'[Drive(h)], h, fcb'[h])
        BY <1>4, <3>1
      <3>5. /\ Others(S)
            /\ dir'[d] = n.dir /\ data'[d] = n.data
            /\ \A e \in Drives : e # d => dir'[e] = dir[e]
            /\ (\A h \in S : h \in open' => Counts(dir'[Drive(h)], h, fcb'[h])) => CountsCurrent'
        BY <3>2, <3>3, OthersEffect
      <3> QED BY <3>1, <3>4, <3>5
    <2>12. /\ EntriesOf(f)' = {} /\ EntriesOf(f) # {} /\ EntriesOf(g) = {} /\ EntriesOf(g)' # {}
      BY <1>1, <1>5, <1>6, <1>8, <2>5, <2>8, <2>9, <2>11 DEF EntriesOf
    <2>13. SavedSet(n.dir, n.data, to) = SavedSet(m.dir, m.data, m.name)
      BY <2>2, <2>7, <2>8, RelabelledRecords
    <2>14. Kept(f)' = {} /\ Text(f)' = {} /\ Kept(g)' = Kept(f) /\ Text(g)' = Kept(g)' /\ Text(f) = Kept(f)
      <3>1. /\ Kept(f) = SavedSet(m.dir, m.data, m.name)
            /\ Kept(f)' = SavedSet(n.dir, n.data, m.name)
            /\ Text(f)' = Kept(f)' /\ Text(f) = Kept(f)
        BY <1>4, <1>5, <2>9, <2>11, FileSets
      <3>2. Kept(g)' = SavedSet(n.dir, n.data, to) /\ Text(g)' = Kept(g)'
        BY <1>1, <1>4, <1>5, <2>9, <2>11, FileSets
      <3>3. SavedSet(n.dir, n.data, m.name) = {}
        BY <2>8, NoEntryNoRecord
      <3> QED BY <2>13, <3>1, <3>2, <3>3
    <2>15. \A h \in Files \ {f, g} : /\ Text(h)' = Text(h) /\ Kept(h)' = Kept(h)
                                     /\ EntriesOf(h)' = {} <=> EntriesOf(h) = {}
      BY <2>11 DEF Others
    <2>16. {h \in Files : EntriesOf(h) # {}}'
             = ({h \in Files : EntriesOf(h) # {}} \ {f}) \cup {g}
      BY <2>6, <2>12, <2>15
    <2>17. Abstract!Rename(f, g)
      BY <2>4, <2>6, <2>12, <2>14, <2>15, <2>16 DEF Abstract!Rename, Abstract!Result
    <2>18. FilesBegin'
      <3>1. Begun(m.dir)
        BY <1>5 DEF RInv, FilesBegin
      <3>2. ASSUME NEW i \in Slots, n.dir[i].name # "none" PROVE Hits(n.dir, n.dir[i].name, 0, 0) # {}
        <4>1. m.dir[i].name # "none"
          BY <1>5, <2>7, <3>2
        <4>2. PICK j \in Slots : /\ m.dir[j].name = m.dir[i].name /\ m.dir[j].s2 = 0
                                 /\ Group(m.dir[j].ex) = Group(0)
          BY <3>1, <4>1 DEF Begun, Hits
        <4>3. n.dir[j].name = n.dir[i].name /\ n.dir[j].s2 = 0 /\ n.dir[j].ex = m.dir[j].ex
          BY <2>7, <4>2
        <4> QED BY <4>2, <4>3 DEF Hits
      <3>3. Begun(n.dir)
        BY <3>2 DEF Begun
      <3>4. \A e \in Drives : Begun(dir'[e])
        BY <2>11, <3>3 DEF RInv, FilesBegin
      <3> QED BY <3>4 DEF FilesBegin
    <2>19. Stay
      BY <2>4 DEF Stay
    <2> QED BY <2>11, <2>17, <2>18, <2>19 DEF Refined, Abstract!Next
  <1> QED BY <1>7, <1>8

-----------------------------------------------------------------------------
(* The specification implements RecordFiles.                               *)

\* Every call of a cautious program does what RecordFiles says.
LEMMA CallRefined ==
    ASSUME EXM = 0, Cautious, RInv, IInv', NEW f \in Files, Call(f)
    PROVE  Refined
  <1>1. CASE Open(f)
    BY <1>1, OpenRefined
  <1>2. CASE Make(f)
    BY <1>2, MakeRefined
  <1>3. CASE Close(f)
    BY <1>3, CloseRefined
  <1>4. CASE Delete(f)
    BY <1>4, DeleteRefined
  <1>5. CASE Size(f)
    BY <1>5, SizeRefined
  <1>6. CASE Drop(f)
    <2>1. /\ UNCHANGED <<dir, data>> /\ open' \subseteq open /\ out'.op = "none"
          /\ \A g \in open' : fcb'[g] = fcb[g]
      <3>1. fcb \in [Files -> FCBs] /\ open \in SUBSET Files
        BY DEF RInv, IInv, TypeOK
      <3> QED BY <1>6, <3>1 DEF Drop, NoCall
    <2> QED BY <2>1, ForgetRefined
  <1>7. CASE Read(f)
    BY <1>7, ReadCallRefined
  <1>8. CASE \E v \in Values : Write(f, v)
    BY <1>8, WriteCallRefined
  <1>9. CASE \E r \in RandomRecs : ReadAt(f, r)
    BY <1>9, ReadAtRefined
  <1>10. CASE \E r \in RandomRecs, v \in Values, zero \in BOOLEAN : WriteAt(f, r, v, zero)
    BY <1>10, WriteAtRefined
  <1>11. CASE \E g \in Files : Rename(f, g)
    BY <1>11, RenameRefined
  <1> QED BY <1>1, <1>2, <1>3, <1>4, <1>5, <1>6, <1>7, <1>8, <1>9, <1>10, <1>11 DEF Call

\* Every step does, and so keeps the invariant.
LEMMA StepRefined ==
    ASSUME EXM = 0, Cautious, RInv, [Next]_vars
    PROVE  /\ RInv' /\ [Abstract!Next]_(Abstract!vars)
           /\ [Stay]_vars
  <1>1. IInv'
    BY InvariantNext DEF RInv
  <1>2. CASE \E f \in Files : Call(f)
    <2>1. Refined
      BY <1>1, <1>2, CallRefined
    <2> QED BY <1>1, <2>1 DEF Refined, RInv
  <1>3. CASE \/ \E d \in Drives : Select(d) \/ WarmBoot(d)
             \/ ResetDrive \/ ResetDisks
    <2>1. /\ UNCHANGED <<dir, data>> /\ open' \subseteq open /\ out'.op = "none"
          /\ \A g \in open' : fcb'[g] = fcb[g]
      BY <1>3 DEF Select, WarmBoot, ResetDrive, ResetDisks, NoCall
    <2>2. Refined
      BY <1>1, <2>1, ForgetRefined
    <2> QED BY <1>1, <2>2 DEF Refined, RInv
  <1>4. CASE UNCHANGED vars
    <2>1. /\ UNCHANGED <<dir, data, out>> /\ open' \subseteq open /\ open' = open
          /\ \A g \in open' : fcb'[g] = fcb[g]
      BY <1>4 DEF vars
    <2>2. /\ \A f \in Files : Kept(f)' = Kept(f) /\ Text(f)' = Text(f)
          /\ {g \in Files : EntriesOf(g) # {}}' = {g \in Files : EntriesOf(g) # {}}
          /\ CountsCurrent' /\ FilesBegin'
      BY <1>1, <2>1, ForgetRefined
    <2>3. UNCHANGED Abstract!vars
      BY <2>1, <2>2 DEF Abstract!vars
    <2> QED BY <1>1, <1>4, <2>2, <2>3 DEF RInv
  <1> QED BY <1>2, <1>3, <1>4 DEF Next

\* On freshly formatted discs there are no files.
LEMMA InitRefined ==
    ASSUME EXM = 0, Init
    PROVE  RInv /\ Abstract!Init
  <1>1. IInv /\ TypeOK
    BY InvariantInit DEF IInv
  <1>2. /\ \A d \in Drives : \A i \in Slots : dir[d][i].name = "none"
        /\ open = {} /\ out.op = "none"
    BY DEF Init, NoEntry, NoCall
  <1>3. CountsCurrent /\ FilesBegin
    BY <1>2 DEF CountsCurrent, FilesBegin, Begun
  <1>4. ASSUME NEW f \in Files PROVE EntriesOf(f) = {} /\ Kept(f) = {} /\ Text(f) = {}
    <2>1. EntriesOf(f) = {}
      BY <1>2, FileType, FilesAssumption DEF EntriesOf
    <2>2. Kept(f) = {}
      BY <2>1 DEF Kept
    <2> QED BY <1>2, <2>1, <2>2 DEF Text
  <1>5. Abstract!Init
    BY <1>2, <1>4 DEF Abstract!Init
  <1> QED BY <1>1, <1>3, <1>5 DEF RInv

\* The invariant of the refinement holds always.
LEMMA RefinementInvariant ==
    ASSUME Cautious, EXM = 0
    PROVE  Spec => []RInv
  <1>1. Init => RInv
    BY InitRefined
  <1>2. RInv /\ [Next]_vars => RInv'
    BY StepRefined
  <1> QED BY <1>1, <1>2, PTL DEF Spec

\* Every call does to the records of the files what RecordFiles says and
\* nothing else, whatever blocks, extents and drives it goes through.  With
\* more extents in an entry (EXM > 0) the close of an earlier extent of an
\* entry ends the file there, and this does not hold.
THEOREM RecordFilesImplemented ==
    ASSUME Cautious, EXM = 0
    PROVE  Spec => ImplementsRecordFiles
  <1>1. Init => Abstract!Init
    BY InitRefined
  <1>2. RInv /\ [Next]_vars => [Abstract!Next]_(Abstract!vars)
    BY StepRefined
  <1> QED BY <1>1, <1>2, RefinementInvariant, PTL DEF Spec, ImplementsRecordFiles, Abstract!Spec

\* No call but Delete and Rename makes a record that a fresh Open could
\* read disappear.
THEOREM PublishedStay ==
    ASSUME Cautious, EXM = 0
    PROVE  Spec => PublishedRecordsStay
  <1>1. RInv /\ [Next]_vars => [Stay]_vars
    BY StepRefined
  <1> QED BY <1>1, RefinementInvariant, PTL DEF Spec, PublishedRecordsStay, Stay

-----------------------------------------------------------------------------
(* Random calls are at their record, and failed writes leave the size: for *)
(* any number of extents in an entry.                                      *)

\* A transfer of UB_READCORE or UB_WCORE that needs no next extent leaves the
\* FCB at its extent.
LEMMA TransferStays ==
    ASSUME NEW m, AtWork(m), m.fcb.cr < RPE, m.fcb.cr # RPE, NEW v \in Values, NEW z \in BOOLEAN,
           NEW n, n = ReadCore(m) \/ n = WCore(m, v, z)
    PROVE  n.fcb.ex = m.fcb.ex /\ n.fcb.s2 = m.fcb.s2
  <1>1. m \in Calls /\ m.fcb \in FCBs /\ m.code = 0 /\ ~m.quit
    BY FCBType DEF AtWork, Sound
  <1>2. Rolled(m, TRUE) = m /\ Rolled(m, FALSE) = m
    BY DEF Rolled
  <1>3. CASE n = ReadCore(m)
    <2>1. \/ n = Carry(m, 1)
          \/ n = Quit(m, 255)
          \/ n = [m EXCEPT !.val = m.data[Block(m)][Offset(m)], !.fcb.cr = @ + 1]
      BY <1>1, <1>2, <1>3 DEF ReadCore
    <2>2. CASE n = Carry(m, 1) \/ n = Quit(m, 255)
      BY <2>2, CarrySound DEF AtWork
    <2>3. CASE n = [m EXCEPT !.val = m.data[Block(m)][Offset(m)], !.fcb.cr = @ + 1]
      <3>1. n.fcb = [m.fcb EXCEPT !.cr = @ + 1]
        BY <1>1, <2>3 DEF Calls
      <3> QED BY <1>1, <3>1 DEF FCBs
    <2> QED BY <2>1, <2>2, <2>3
  <1>4. CASE n = WCore(m, v, z)
    <2> DEFINE a == IF Block(m) = NoBlock THEN Allocate(m, z) ELSE m
    <2>1. n = IF a.quit THEN a ELSE Transfer(a, v)
      BY <1>1, <1>2, <1>4 DEF WCore
    <2>2. a \in Calls /\ a.fcb \in FCBs /\ a.fcb.ex = m.fcb.ex /\ a.fcb.s2 = m.fcb.s2
      <3>1. CASE Block(m) = NoBlock
        <4>1. a = Allocate(m, TRUE) \/ a = Allocate(m, FALSE)
          BY <3>1
        <4> HIDE DEF a
        <4>2. \/ a = Quit(m, 2)
              \/ \E b \in DataBlocks : \E e \in Entries : Takes(m, a, b, e)
          BY <4>1, AllocateParts
        <4>3. CASE a = Quit(m, 2)
          BY <1>1, <4>3 DEF Quit, Calls, FCBs
        <4>4. CASE \E b \in DataBlocks : \E e \in Entries : Takes(m, a, b, e)
          <5>1. PICK b \in DataBlocks, e \in Entries : Takes(m, a, b, e)
            BY <4>4
          <5>2. a \in Calls /\ a.fcb = [m.fcb EXCEPT !.map = e.map]
            BY <5>1 DEF Takes
          <5>3. a.fcb \in FCBs
            BY <5>2 DEF Calls
          <5> QED BY <1>1, <5>2, <5>3 DEF FCBs
        <4> QED BY <4>2, <4>3, <4>4
      <3>2. CASE Block(m) # NoBlock
        BY <1>1, <3>2
      <3> QED BY <3>1, <3>2
    <2> HIDE DEF a
    <2>3. Transfer(a, v).fcb.ex = a.fcb.ex /\ Transfer(a, v).fcb.s2 = a.fcb.s2
      BY <2>2 DEF Transfer, Calls, FCBs
    <2> QED BY <2>1, <2>2, <2>3
  <1> QED BY <1>3, <1>4

\* A random call that succeeds has its FCB at the extent of its record, with
\* the map of the entry there.
LEMMA RandomStaysThere ==
    ASSUME NEW m, AtWork(m), NEW r \in Nat, NEW v \in Values, NEW z \in BOOLEAN,
           NEW n, n = RandomRead(m, r) \/ n = RandomWrite(m, r, v, z), n.code = 0
    PROVE  /\ OfExtent(n.fcb, r) /\ n.name = m.name
           /\ \E e \in Hits(n.dir, m.name, Decode(r).ex, Decode(r).s2) :
                  n.dir[e].map = n.fcb.map
  <1>1. Keeps(m, n) /\ Bound(n)
    <2>1. CASE n = RandomRead(m, r)
      BY <2>1, RandomReadSound
    <2>2. CASE n = RandomWrite(m, r, v, z)
      <3>1. n = RandomWrite(m, r, v, TRUE) \/ n = RandomWrite(m, r, v, FALSE)
        <4>1. CASE z = TRUE
          BY <2>2, <4>1
        <4>2. CASE z = FALSE
          BY <2>2, <4>2
        <4> QED BY <4>1, <4>2
      <3> QED BY <3>1, RandomWriteSound
    <2> QED BY <2>1, <2>2
  <1>2. OfExtent(n.fcb, r)
    <2>1. CASE n = RandomRead(m, r)
      <3> DEFINE p == Position(m, r, FALSE)
                 k == ReadCore(p)
      <3>1. n = IF p.quit THEN p ELSE IF p.code # 0 THEN Quit(p, 255) ELSE Return(k, r)
        BY <2>1 DEF RandomRead
      <3>2. /\ Sound(p)
            /\ \/ Bound(p) /\ p.code = 0 /\ ~p.quit
               \/ Bound(p) /\ p.code = 6 /\ p.quit
               \/ p.code \notin {0, 1, 6} /\ ~p.quit
        BY PositionSound
      <3>3. p.code = 0 => AtWork(p) /\ OfExtent(p.fcb, r) /\ p.fcb.cr < RPE /\ p.fcb.cr # RPE
        BY PositionThere
      <3> HIDE DEF p
      <3>4. p.code = 0
        <4>1. p.code # 0 /\ ~p.quit => n.code = 255
          BY <3>1, <3>2, CarrySound
        <4> QED BY <3>1, <3>2, <4>1
      <3>5. n = Return(k, r)
        BY <3>1, <3>2, <3>4
      <3>6. Sound(k)
        BY <3>3, <3>4, ReadCoreSound
      <3>7. k.fcb.ex = p.fcb.ex /\ k.fcb.s2 = p.fcb.s2
        BY <3>3, <3>4, TransferStays
      <3> HIDE DEF k
      <3>8. n.fcb.ex = k.fcb.ex /\ n.fcb.s2 = k.fcb.s2
        BY <3>5, <3>6, ReturnText
      <3> QED BY <3>3, <3>4, <3>7, <3>8 DEF OfExtent
    <2>2. CASE n = RandomWrite(m, r, v, z)
      <3> DEFINE p == Position(m, r, TRUE)
                 k == WCore(p, v, z)
      <3>1. n = IF p.code # 0 THEN p ELSE Return(k, r)
        BY <2>2 DEF RandomWrite
      <3>2. p.code = 0 => AtWork(p) /\ OfExtent(p.fcb, r) /\ p.fcb.cr < RPE /\ p.fcb.cr # RPE
        BY PositionThere
      <3> HIDE DEF p
      <3>3. p.code = 0
        BY <3>1
      <3>4. n = Return(k, r)
        BY <3>1, <3>3
      <3>5. Sound(k)
        <4>1. CASE z = TRUE
          BY <3>2, <3>3, <4>1, WCoreSound
        <4>2. CASE z = FALSE
          BY <3>2, <3>3, <4>2, WCoreSound
        <4> QED BY <4>1, <4>2
      <3>6. k.fcb.ex = p.fcb.ex /\ k.fcb.s2 = p.fcb.s2
        BY <3>2, <3>3, TransferStays
      <3> HIDE DEF k
      <3>7. n.fcb.ex = k.fcb.ex /\ n.fcb.s2 = k.fcb.s2
        BY <3>4, <3>5, ReturnText
      <3> QED BY <3>2, <3>3, <3>6, <3>7 DEF OfExtent
    <2> QED BY <2>1, <2>2
  <1>3. n.name = m.name
    BY <1>1 DEF Keeps
  <1>4. \E e \in Hits(n.dir, n.name, n.fcb.ex, n.fcb.s2) : n.dir[e].map = n.fcb.map
    BY <1>1 DEF Bound, Found
  <1> QED BY <1>2, <1>3, <1>4 DEF OfExtent

\* What a failed write may do to the directory: close the FCB.
Closes(m, n) == n.dir = m.dir \/ n.dir = CCore(m).dir

\* UB_EXTENT makes an extent only while there is a free block, and only if it
\* succeeds.
LEMMA ExtentMakes ==
    ASSUME NEW k, k \in Calls, k.code = 0, NEW n, n = Extent(k, TRUE)
    PROVE  /\ n.code # 0 => n.dir = k.dir
           /\ n.dir = k.dir \/ FreeBlocks(n) # {}
  <1>1. CASE Found(k) # {}
    <2>1. n = Activate(k)
      BY <1>1 DEF Extent
    <2>2. PICK c : n = [k EXCEPT !.fcb = c]
      BY <1>1, <2>1 DEF Activate
    <2> QED BY <2>2 DEF Calls
  <1>2. CASE Found(k) = {} /\ (FreeBlocks(k) = {} \/ FreeSlots(k) = {})
    <2>1. \E c : n = Carry(k, c)
      BY <1>2 DEF Extent, MkFree
    <2> QED BY <2>1 DEF Carry, Calls
  <1>3. CASE Found(k) = {} /\ FreeBlocks(k) # {} /\ FreeSlots(k) # {}
    <2>1. n = MkFree(k)
      BY <1>3 DEF Extent
    <2>2. PICK dd, c : n = [k EXCEPT !.dir = dd, !.fcb = c]
      BY <1>3, <2>1 DEF MkFree
    <2>3. n.alv = k.alv /\ n.code = k.code
      BY <2>2 DEF Calls
    <2> QED BY <1>3, <2>3 DEF FreeBlocks
  <1> QED BY <1>1, <1>2, <1>3

\* What Closes asks of the way to the place of a write: an extent that was
\* made has a block for the record.
Reaches(m, p) ==
    /\ p.code # 0 => Closes(m, p)
    /\ Closes(m, p) \/ FreeBlocks(p) # {}

\* UB_NEXTEX before a write.
LEMMA RolledReaches ==
    ASSUME NEW m, AtWork(m), NEW p, p = Rolled(m, TRUE)
    PROVE  Reaches(m, p)
  <1>1. CASE m.fcb.cr # RPE
    BY <1>1 DEF Rolled, Reaches, Closes
  <1>2. CASE m.fcb.cr = RPE
    <2> DEFINE k    == CCore(m)
               to   == NextExtent(m.fcb.s2, m.fcb.ex)
               next == IF to.s2 = NS2 THEN Carry(k, 5) ELSE Extent(MoveTo(k, to), TRUE)
    <2>1. Sound(k) /\ k.code = 0 /\ ~k.quit
      BY CCoreSound DEF AtWork
    <2>2. p = IF next.code = 0 THEN next ELSE GoBack(next, m.fcb)
      BY <1>2, <2>1 DEF Rolled, NextEx
    <2> HIDE DEF k
    <2>3. next \in Calls /\ (next.code # 0 => next.dir = k.dir)
          /\ (next.dir = k.dir \/ FreeBlocks(next) # {})
      <3>1. CASE to.s2 = NS2
        <4>1. next = Carry(k, 5)
          BY <3>1
        <4> HIDE DEF next
        <4> QED BY <2>1, <4>1, CarrySound DEF SameDrive, Sound
      <3>2. CASE to.s2 # NS2
        <4> DEFINE j == MoveTo(k, to)
        <4>1. to.ex \in Extents /\ to.s2 \in Modules
          BY <2>1, <3>2, NextInRange, FCBType DEF AtWork
        <4> HIDE DEF to
        <4>2. Sound(j) /\ j.code = 0 /\ j.dir = k.dir
          BY <2>1, <4>1, MoveToSound DEF SameDrive
        <4>3. next = Extent(j, TRUE)
          BY <3>2
        <4> HIDE DEF j, next
        <4>4. Sound(next)
          BY <4>2, <4>3, ExtentSound
        <4> QED BY <4>2, <4>3, <4>4, ExtentMakes DEF Sound
      <3> QED BY <3>1, <3>2
    <2> HIDE DEF next
    <2>4. CASE next.code = 0
      BY <2>2, <2>3, <2>4 DEF Reaches, Closes, k
    <2>5. CASE next.code # 0
      <3>1. p = GoBack(next, m.fcb)
        BY <2>2, <2>5
      <3>2. p.dir = next.dir
        BY <2>3, <3>1 DEF GoBack, Calls
      <3> QED BY <2>3, <2>5, <3>2 DEF Reaches, Closes, k
    <2> QED BY <2>4, <2>5
  <1> QED BY <1>1, <1>2

\* UB_WCORE fails before the transfer: it did not get to the extent, or there
\* is no free block.
LEMMA WCoreFails ==
    ASSUME NEW m, AtWork(m), NEW v \in Values, NEW z \in BOOLEAN, NEW n, n = WCore(m, v, z),
           n.code # 0
    PROVE  n.dir = Rolled(m, TRUE).dir
           /\ (Rolled(m, TRUE).code # 0 \/ FreeBlocks(Rolled(m, TRUE)) = {})
  <1> DEFINE p == Rolled(m, TRUE)
             a == IF Block(p) = NoBlock THEN Allocate(p, z) ELSE p
  <1>1. /\ Sound(p) /\ Bound(p) /\ ~p.quit /\ p.code \in Nat
        /\ (p.code = 0 => p.fcb.cr < RPE /\ AtWork(p))
    <2>1. /\ Sound(p) /\ Bound(p) /\ ~p.quit
          /\ (p.code = 0 => p.fcb.cr < RPE /\ AtWork(p))
      BY RolledAtWork
    <2> HIDE DEF p
    <2> QED BY <2>1 DEF Sound, Calls
  <1>2. n = IF p.code # 0 THEN Carry(p, p.code % 4) ELSE IF a.quit THEN a ELSE Transfer(a, v)
    BY <1>1 DEF WCore
  <1> SUFFICES n.dir = p.dir /\ (p.code # 0 \/ FreeBlocks(p) = {})
    OBVIOUS
  <1> HIDE DEF p
  <1>3. CASE p.code # 0
    <2>1. n.dir = p.dir
      BY <1>1, <1>2, <1>3 DEF Carry, Sound, Calls
    <2> QED BY <1>3, <2>1
  <1>4. CASE p.code = 0
    <2>1. AtWork(p) /\ p.fcb.cr < RPE
      BY <1>1, <1>4
    <2>2. CASE Block(p) = NoBlock
      <3>1. a = Allocate(p, TRUE) \/ a = Allocate(p, FALSE)
        BY <2>2
      <3>2. n = IF a.quit THEN a ELSE Transfer(a, v)
        BY <1>2, <1>4
      <3> HIDE DEF a
      <3>3. \/ a = Quit(p, 2) /\ FreeBlocks(p) = {}
            \/ \E b \in DataBlocks : \E e \in Entries : Takes(p, a, b, e)
        BY <2>1, <3>1, AllocateParts
      <3>4. CASE a = Quit(p, 2) /\ FreeBlocks(p) = {}
        <4>1. a.quit /\ a.dir = p.dir
          BY <1>1, <3>4 DEF Quit, Sound, Calls
        <4> QED BY <3>2, <3>4, <4>1
      <3>5. CASE \E b \in DataBlocks : \E e \in Entries : Takes(p, a, b, e)
        <4>1. ~a.quit /\ a.code = 0 /\ a \in Calls
          BY <3>5 DEF Takes
        <4>2. n.code = a.code
          BY <3>2, <4>1 DEF Transfer, Calls
        <4> QED BY <4>1, <4>2
      <3> QED BY <3>3, <3>4, <3>5
    <2>3. CASE Block(p) # NoBlock
      <3>1. n = Transfer(p, v)
        BY <1>1, <1>2, <1>4, <2>3
      <3>2. n.code = p.code
        BY <1>1, <3>1 DEF Transfer, Sound, Calls
      <3> QED BY <1>4, <3>2
    <2> QED BY <2>2, <2>3
  <1> QED BY <1>3, <1>4

\* A sequential write that fails closes the FCB at most.
LEMMA SequentialWriteFails ==
    ASSUME NEW m, AtWork(m), NEW v \in Values, NEW n, n = SequentialWrite(m, v), n.code # 0
    PROVE  Closes(m, n)
  <1> DEFINE w == WCore(m, v, FALSE)
             x == NextEx(w, TRUE)
             p == Rolled(m, TRUE)
  <1>1. n = IF w.code = 0 /\ w.fcb.cr = RPE THEN IF x.quit THEN x ELSE Carry(x, 0) ELSE w
    BY DEF SequentialWrite
  <1>2. Sound(w) /\ Bound(w) /\ (w.code = 0 => ~w.quit)
    BY WCoreSound
  <1>3. w.code # 0 => w.dir = p.dir /\ (p.code # 0 \/ FreeBlocks(p) = {})
    BY WCoreFails
  <1>4. Reaches(m, p)
    BY RolledReaches
  <1> HIDE DEF w, p
  <1>5. CASE w.code # 0
    <2>1. n = w
      BY <1>1, <1>5
    <2> QED BY <1>3, <1>4, <1>5, <2>1 DEF Reaches, Closes
  <1>6. CASE w.code = 0
    <2>1. AtWork(w)
      BY <1>2, <1>6 DEF AtWork
    <2>2. Sound(x) /\ ~x.quit
      BY <2>1, NextExSound
    <2> HIDE DEF x
    <2>3. Carry(x, 0).code = 0
      BY <2>2, CarrySound
    <2> QED BY <1>1, <1>6, <2>2, <2>3
  <1> QED BY <1>5, <1>6

\* The way of a random write to its place.
LEMMA PositionReaches ==
    ASSUME NEW m, AtWork(m), NEW r \in Nat, NEW p, p = Position(m, r, TRUE)
    PROVE  Reaches(m, p)
  <1>0. m \in Calls
    BY DEF AtWork, Sound
  <1>1. CASE r >= RandomEnd
    <2>1. p = Quit(m, 6)
      BY <1>1 DEF Position
    <2>2. p.dir = m.dir
      BY <1>0, <2>1 DEF Quit, Calls
    <2> QED BY <2>2 DEF Reaches, Closes
  <1>2. CASE ~(r >= RandomEnd)
    <2>1. \/ p = [m EXCEPT !.fcb = [m.fcb EXCEPT !.cr = Decode(r).cr]]
          \/ \E k, c : Goes(m, r, TRUE, k, c, p)
      BY <1>2, PositionParts
    <2>2. CASE p = [m EXCEPT !.fcb = [m.fcb EXCEPT !.cr = Decode(r).cr]]
      <3>1. p.dir = m.dir
        BY <1>0, <2>2 DEF Calls
      <3> QED BY <3>1 DEF Reaches, Closes
    <2>3. CASE \E k, c : Goes(m, r, TRUE, k, c, p)
      <3>1. PICK k, c : Goes(m, r, TRUE, k, c, p)
        BY <2>3
      <3>2. PICK j : j = [k EXCEPT !.fcb = c]
        OBVIOUS
      <3>3. k = CCore(m) \/ k = m
        BY <3>1 DEF Goes
      <3>4. Sound(k) /\ k.code = 0 /\ c \in FCBs /\ p = Extent(j, TRUE)
        BY <3>1, <3>2 DEF Goes
      <3>5. Sound(j) /\ j.dir = k.dir /\ j.code = 0
        BY <3>2, <3>4, NewFCB DEF SameDrive
      <3>6. /\ p.code # 0 => p.dir = j.dir
            /\ p.dir = j.dir \/ FreeBlocks(p) # {}
        BY <3>4, <3>5, ExtentMakes DEF Sound
      <3>7. Closes(m, k)
        BY <3>3 DEF Closes
      <3> QED BY <3>5, <3>6, <3>7 DEF Reaches, Closes
    <2> QED BY <2>1, <2>2, <2>3
  <1> QED BY <1>1, <1>2

\* A random write that fails closes the FCB at most.
LEMMA RandomWriteFails ==
    ASSUME NEW m, AtWork(m), NEW r \in Nat, NEW v \in Values, NEW z \in BOOLEAN,
           NEW n, n = RandomWrite(m, r, v, z), n.code # 0
    PROVE  Closes(m, n)
  <1> DEFINE p == Position(m, r, TRUE)
             k == WCore(p, v, z)
  <1>1. n = IF p.code # 0 THEN p ELSE Return(k, r)
    BY DEF RandomWrite
  <1>2. Reaches(m, p)
    BY PositionReaches
  <1>3. p.code = 0 => AtWork(p) /\ p.fcb.cr # RPE
    BY PositionThere
  <1> HIDE DEF p
  <1>4. CASE p.code # 0
    <2>1. n = p
      BY <1>1, <1>4
    <2> QED BY <1>2, <1>4, <2>1 DEF Reaches
  <1>5. CASE p.code = 0
    <2>1. n = Return(k, r)
      BY <1>1, <1>5
    <2>2. AtWork(p) /\ Rolled(p, TRUE) = p
      BY <1>3, <1>5 DEF Rolled
    <2>3. Sound(k)
      <3>1. CASE z = TRUE
        BY <2>2, <3>1, WCoreSound
      <3>2. CASE z = FALSE
        BY <2>2, <3>2, WCoreSound
      <3> QED BY <3>1, <3>2
    <2>4. k.code # 0 => k.dir = p.dir /\ FreeBlocks(p) = {}
      BY <1>5, <2>2, WCoreFails
    <2> HIDE DEF k
    <2>5. n.dir = k.dir /\ n.code = k.code
      BY <2>1, <2>3, ReturnText
    <2> QED BY <1>2, <2>4, <2>5 DEF Reaches, Closes
  <1> QED BY <1>4, <1>5

\* Where the entries of a file end.
EndOf(e) == ExtRec(e.s2, e.ex, e.rc)
EndsIn(dd, nm) == {0} \cup {EndOf(dd[i]) : i \in {j \in Slots : dd[j].name = nm}}

\* All ends lie within the largest file.
LEMMA EndsInRange ==
    ASSUME NEW dd \in [Slots -> Entries \cup {NoEntry}], NEW nm \in Names
    PROVE  /\ EndsIn(dd, nm) \subseteq 0 .. NS2 * NEX * RPE /\ EndsIn(dd, nm) # {}
           /\ NS2 * NEX * RPE \in Nat
  <1>1. FreshFCB \in FCBs
    BY FreshType
  <1>2. PICK t \in Nat : t = NS2 * NEX * RPE
    BY <1>1, EntryEnd
  <1>3. ASSUME NEW i \in Slots, dd[i].name = nm PROVE EndOf(dd[i]) \in 0 .. t
    <2>1. dd[i] \in Entries
      BY <1>3, FilesAssumption DEF NoEntry
    <2> QED BY <1>2, <2>1, EntryEnd DEF EndOf
  <1>4. 0 \in 0 .. t
    BY SMT
  <1>5. \A x \in EndsIn(dd, nm) : x \in 0 .. t
    BY <1>3, <1>4 DEF EndsIn
  <1> QED BY <1>2, <1>5 DEF EndsIn

\* Closing an FCB moves the end of the file no further than the FCB's.
LEMMA ClosedEnds ==
    ASSUME NEW m, Sound(m), NEW n, Sound(n), Closes(m, n), NEW x \in EndsIn(n.dir, m.name)
    PROVE  x \in EndsIn(m.dir, m.name) \/ x = EndOf(m.fcb)
  <1>1. m \in Calls /\ m.fcb \in FCBs
    BY FCBType DEF Sound
  <1>2. CASE n.dir = m.dir
    BY <1>2
  <1>3. CASE n.dir # m.dir
    <2>1. ~m.fcb.clean /\ n.dir = CCore(m).dir
      BY <1>3 DEF Closes, CCore
    <2>2. Found(m) # {}
      BY <1>1, <1>3, <2>1 DEF CCore, Quit, Calls
    <2>3. PICK a \in Slots : a = At(m) /\ m.dir[a] \in Entries
      BY <2>2, AtHit
    <2>4. PICK e : e = [m.dir[a] EXCEPT !.ex = m.fcb.ex, !.s2 = m.fcb.s2,
                                        !.rc = m.fcb.rc, !.map = m.fcb.map]
      OBVIOUS
    <2>5. n.dir = [m.dir EXCEPT ![a] = e]
      BY <1>1, <2>1, <2>2, <2>3, <2>4 DEF CCore, Calls
    <2>6. EndOf(e) = EndOf(m.fcb)
      BY <2>3, <2>4 DEF EndOf, Entries
    <2>7. n.dir[a] = e /\ \A i \in Slots \ {a} : n.dir[i] = m.dir[i]
      BY <1>1, <2>3, <2>5 DEF Calls
    <2>8. x = 0 \/ \E i \in Slots : n.dir[i].name = m.name /\ x = EndOf(n.dir[i])
      BY DEF EndsIn
    <2> QED BY <2>6, <2>7, <2>8 DEF EndsIn
  <1> QED BY <1>2, <1>3

\* Which calls transfer a record or fail to.
LEMMA TransferCalls ==
    ASSUME Next, out'.op \in {"write", "rread", "rwrite"}
    PROVE  \E f \in Files :
             /\ out'.file = f
             /\ \/ out'.op = "write" /\ \E v \in Values : Write(f, v)
                \/ out'.op = "rread" /\ \E r \in RandomRecs : out'.rec = r /\ ReadAt(f, r)
                \/ out'.op = "rwrite" /\ \E r \in RandomRecs, v \in Values, z \in BOOLEAN :
                                            out'.rec = r /\ WriteAt(f, r, v, z)
  <1>1. out'.op # NoCall.op
    BY DEF NoCall
  <1>2. PICK f \in Files : Call(f)
    BY <1>1 DEF Next, Select, WarmBoot, ResetDrive, ResetDisks
  <1>3. CASE Open(f) \/ Make(f)
    BY <1>3 DEF Open, Make, Opening, Finish
  <1>4. CASE Close(f) \/ Delete(f)
    BY <1>4 DEF Close, Delete, Working, Finish
  <1>5. CASE Size(f) \/ Drop(f)
    BY <1>1, <1>5 DEF Size, Drop, Finish
  <1>6. CASE Read(f)
    BY <1>6 DEF Read, Working, Finish
  <1>7. CASE \E g \in Files : Rename(f, g)
    BY <1>7 DEF Rename, Finish
  <1>8. CASE \E v \in Values : Write(f, v)
    <2>1. PICK v \in Values : Write(f, v)
      BY <1>8
    <2>2. out'.op = "write" /\ out'.file = f
      BY <2>1 DEF Write, Working, Finish
    <2> QED BY <2>1, <2>2
  <1>9. CASE \E r \in RandomRecs : ReadAt(f, r)
    <2>1. PICK r \in RandomRecs : ReadAt(f, r)
      BY <1>9
    <2>2. out'.op = "rread" /\ out'.file = f /\ out'.rec = r
      BY <2>1 DEF ReadAt, Working, Finish
    <2> QED BY <2>1, <2>2
  <1>10. CASE \E r \in RandomRecs, v \in Values, z \in BOOLEAN : WriteAt(f, r, v, z)
    <2>1. PICK r \in RandomRecs, v \in Values, z \in BOOLEAN : WriteAt(f, r, v, z)
      BY <1>10
    <2>2. out'.op = "rwrite" /\ out'.file = f /\ out'.rec = r
      BY <2>1 DEF WriteAt, Working, Finish
    <2> QED BY <2>1, <2>2
  <1> QED BY <1>2, <1>3, <1>4, <1>5, <1>6, <1>7, <1>8, <1>9, <1>10 DEF Call

\* RandomTransfersAddressed and FailedWriteKeepsSize, of one step.
Addressed ==
    \A f \in open : \A r \in RandomRecs :
        out' = [out' EXCEPT !.file = f, !.rec = r, !.code = 0] /\ out'.op \in {"rread", "rwrite"} =>
          \E e \in Hits(dir[Drive(f)], Name(f), Decode(r).ex, Decode(r).s2)' :
              LET i == MapIndex(Decode(r).ex, Decode(r).cr)
              IN  dir'[Drive(f)][e].map[i] = fcb'[f].map[i]
SizeKept ==
    \A f \in open :
        out'.file = f /\ out'.op \in {"write", "rwrite"} /\ out'.code # 0 =>
          DirEnd(f)' <= Max({DirEnd(f), ExtRec(fcb[f].s2, fcb[f].ex, fcb[f].rc)})

\* Every successful random call is at its record.
LEMMA StepAddressed ==
    ASSUME Cautious, IInv, Next
    PROVE  Addressed
  <1> SUFFICES ASSUME NEW f \in open, NEW r \in RandomRecs, out'.op \in {"rread", "rwrite"},
                      out' = [out' EXCEPT !.file = f, !.rec = r, !.code = 0]
               PROVE  \E e \in Hits(dir'[Drive(f)], Name(f), Decode(r).ex, Decode(r).s2) :
                          dir'[Drive(f)][e].map = fcb'[f].map
    BY DEF Addressed
  <1>1. PICK m : m = Start(f, fcb[f])
    OBVIOUS
  <1>2. /\ AtWork(m) /\ f \in Files /\ m.name = Name(f) /\ Drive(f) \in Drives
        /\ dir \in [Drives -> [Slots -> Entries \cup {NoEntry}]] /\ fcb \in [Files -> FCBs]
    BY <1>1, WorkStart, FileType DEF IInv, TypeOK
  <1>3. PICK v \in Values, z \in BOOLEAN :
             \E n, x : /\ n = RandomRead(m, r) \/ n = RandomWrite(m, r, v, z)
                      /\ Working(f, out'.op, r, n, x)
    <2> DEFINE D(v, z) == \E n, x : /\ n = RandomRead(m, r) \/ n = RandomWrite(m, r, v, z)
                                   /\ Working(f, out'.op, r, n, x)
    <2>1. out'.op # "write"
      OBVIOUS
    <2>2. PICK g \in Files :
             /\ out'.file = g
             /\ \/ \E q \in RandomRecs : out'.op = "rread" /\ out'.rec = q /\ ReadAt(g, q)
                \/ \E q \in RandomRecs, v \in Values, z \in BOOLEAN :
                       out'.op = "rwrite" /\ out'.rec = q /\ WriteAt(g, q, v, z)
      BY <2>1, TransferCalls
    <2>3. \A q : ReadAt(g, q) => \E c, x : out' = [op |-> "rread", file |-> g, rec |-> q,
                                                   code |-> c, val |-> x]
      BY DEF ReadAt, Working, Finish
    <2>4. \A q, v, z : WriteAt(g, q, v, z) =>
             \E c, x : out' = [op |-> "rwrite", file |-> g, rec |-> q, code |-> c, val |-> x]
      BY DEF WriteAt, Working, Finish
    <2>5. g = f /\ out'.rec = r
      BY <2>2, <2>3, <2>4
    <2>6. Zero \in Values
      BY FilesAssumption
    <2>7. ASSUME out'.op = "rread", ReadAt(f, r) PROVE D(Zero, TRUE)
      <3>1. PICK n, x : n = RandomRead(m, r) /\ Working(f, "rread", r, n, x)
        BY <1>1, <2>7 DEF ReadAt
      <3>2. Working(f, out'.op, r, n, x)
        BY <2>7, <3>1
      <3>3. n = RandomRead(m, r) \/ n = RandomWrite(m, r, Zero, TRUE)
        BY <3>1
      <3> QED BY <3>2, <3>3, Zenon
    <2>8. ASSUME out'.op = "rwrite", NEW v \in Values, NEW z \in BOOLEAN, WriteAt(f, r, v, z)
          PROVE  D(v, z)
      BY <1>1, <2>8 DEF WriteAt
    <2> HIDE DEF D
    <2>9. \E v \in Values, z \in BOOLEAN : D(v, z)
      BY <2>2, <2>5, <2>6, <2>7, <2>8
    <2> QED BY <2>9 DEF D
  <1>4. PICK n, x : /\ n = RandomRead(m, r) \/ n = RandomWrite(m, r, v, z)
                    /\ Working(f, out'.op, r, n, x)
    BY <1>3
  <1>5. /\ out' = [op |-> out'.op, file |-> f, rec |-> r, code |-> n.code, val |-> x]
        /\ dir' = [dir EXCEPT ![Drive(f)] = n.dir]
    BY <1>4 DEF Working, Finish
  <1>6. n.code = 0
    <2>1. PICK o : o = out'
      OBVIOUS
    <2>2. o = [op |-> o.op, file |-> f, rec |-> r, code |-> n.code, val |-> x]
      BY <1>5, <2>1
    <2>3. o = [o EXCEPT !.file = f, !.rec = r, !.code = 0]
      BY <2>1
    <2>4. o.code = n.code
      BY <2>2
    <2>5. o.code = 0
      BY <2>2, <2>3
    <2> QED BY <2>4, <2>5
  <1>7. fcb' = [fcb EXCEPT ![f] = n.fcb]
    BY <1>4, <1>6 DEF Working
  <1>8. r \in Nat
    BY FilesAssumption
  <1>9. \E e \in Hits(n.dir, Name(f), Decode(r).ex, Decode(r).s2) : n.dir[e].map = n.fcb.map
    BY <1>2, <1>4, <1>6, <1>8, RandomStaysThere
  <1>10. dir'[Drive(f)] = n.dir /\ fcb'[f] = n.fcb
    BY <1>2, <1>5, <1>7
  <1> QED BY <1>9, <1>10

\* Every write that fails leaves the size.
LEMMA StepSize ==
    ASSUME Cautious, IInv, IInv', Next
    PROVE  SizeKept
  <1> SUFFICES ASSUME NEW f \in open, out'.file = f, out'.op \in {"write", "rwrite"}, out'.code # 0
               PROVE  DirEnd(f)' <= Max({DirEnd(f), EndOf(fcb[f])})
    BY DEF SizeKept, EndOf
  <1>1. PICK m : m = Start(f, fcb[f])
    OBVIOUS
  <1>2. /\ AtWork(m) /\ f \in Files /\ m.name = Name(f) /\ m.dir = dir[Drive(f)] /\ m.fcb = fcb[f]
        /\ Drive(f) \in Drives /\ Name(f) \in Names
        /\ dir \in [Drives -> [Slots -> Entries \cup {NoEntry}]]
        /\ dir' \in [Drives -> [Slots -> Entries \cup {NoEntry}]]
    BY <1>1, WorkStart, FileType DEF IInv, TypeOK, Start
  <1>3. PICK n : Sound(n) /\ Closes(m, n) /\ dir' = [dir EXCEPT ![Drive(f)] = n.dir]
    <2>1. CASE \E v \in Values : Write(f, v)
      <3>1. PICK v \in Values : Write(f, v)
        BY <2>1
      <3>2. PICK n : n = SequentialWrite(m, v) /\ Finish(f, "write", Here(f), n, v)
        BY <1>1, <3>1 DEF Write, Working
      <3>3. n.code # 0 /\ dir' = [dir EXCEPT ![Drive(f)] = n.dir]
        BY <3>2 DEF Finish
      <3>4. Sound(n)
        BY <1>2, <3>2, SequentialWriteSound
      <3>5. Closes(m, n)
        BY <1>2, <3>2, <3>3, SequentialWriteFails
      <3> QED BY <3>3, <3>4, <3>5
    <2>2. CASE \E r \in RandomRecs, v \in Values, z \in BOOLEAN : WriteAt(f, r, v, z)
      <3>1. PICK r \in RandomRecs, v \in Values, z \in BOOLEAN : WriteAt(f, r, v, z)
        BY <2>2
      <3>2. PICK n : n = RandomWrite(m, r, v, z) /\ Finish(f, "rwrite", r, n, v)
        BY <1>1, <3>1 DEF WriteAt, Working
      <3>3. n.code # 0 /\ dir' = [dir EXCEPT ![Drive(f)] = n.dir] /\ r \in Nat
        BY <3>2, FilesAssumption DEF Finish
      <3>4. Sound(n)
        <4>1. CASE z = TRUE
          BY <1>2, <3>2, <3>3, <4>1, RandomWriteSound
        <4>2. CASE z = FALSE
          BY <1>2, <3>2, <3>3, <4>2, RandomWriteSound
        <4> QED BY <4>1, <4>2
      <3>5. Closes(m, n)
        BY <1>2, <3>2, <3>3, RandomWriteFails
      <3> QED BY <3>3, <3>4, <3>5
    <2> QED BY <2>1, <2>2, TransferCalls
  <1>4. dir'[Drive(f)] = n.dir
    BY <1>2, <1>3
  <1>5. /\ DirEnd(f) = Max(EndsIn(m.dir, m.name))
        /\ DirEnd(f)' = Max(EndsIn(n.dir, m.name))
    BY <1>2, <1>4 DEF DirEnd, EntriesOf, EndsIn, EndOf
  <1>6. PICK t \in Nat : t = NS2 * NEX * RPE
    BY <1>2, EndsInRange
  <1>7. /\ EndsIn(m.dir, m.name) \subseteq 0 .. t /\ EndsIn(m.dir, m.name) # {}
        /\ EndsIn(n.dir, m.name) \subseteq 0 .. t /\ EndsIn(n.dir, m.name) # {}
    BY <1>2, <1>4, <1>6, EndsInRange
  <1>8. EndOf(m.fcb) \in 0 .. t
    BY <1>2, <1>6, FCBType, EntryEnd DEF EndOf, AtWork
  <1>9. PICK a : a = Max(EndsIn(m.dir, m.name))
    OBVIOUS
  <1>10. PICK b : b = Max(EndsIn(n.dir, m.name))
    OBVIOUS
  <1>11. a \in 0 .. t /\ \A y \in EndsIn(m.dir, m.name) : y <= a
    BY <1>7, <1>9, MaxIn
  <1>12. b \in EndsIn(n.dir, m.name)
    BY <1>7, <1>10, MaxIn
  <1>13. b <= a \/ b = EndOf(m.fcb)
    BY <1>2, <1>3, <1>11, <1>12, ClosedEnds DEF AtWork
  <1>14. PICK c \in Nat : c = EndOf(m.fcb)
    BY <1>8, SMT
  <1>15. a \in Nat /\ b \in Nat
    BY <1>7, <1>11, <1>12, SMT
  <1>16. a <= Max({a, c}) /\ c <= Max({a, c}) /\ Max({a, c}) \in {a, c}
    BY <1>14, <1>15, MaxOfTwo
  <1>17. b <= Max({a, c})
    BY <1>13, <1>14, <1>15, <1>16, SMT
  <1> QED BY <1>2, <1>5, <1>9, <1>10, <1>14, <1>17

\* A random call succeeds only on the record it names: in the extent of that
\* record, at a block which that extent owns.
THEOREM RandomAddressed ==
    ASSUME Cautious
    PROVE  Spec => RandomTransfersAddressed
  <1>1. IInv /\ [Next]_vars => [Addressed]_vars
    BY StepAddressed
  <1> QED BY <1>1, InvariantAlways, PTL DEF Spec, RandomTransfersAddressed, Addressed

\* A failed write does not lengthen the file: function 35 reports no more
\* than the records that were there, published or in the FCB.
THEOREM FailedWritesKeepSize ==
    ASSUME Cautious
    PROVE  Spec => FailedWriteKeepsSize
  <1>1. IInv /\ IInv' /\ [Next]_vars => [SizeKept]_vars
    BY StepSize
  <1> QED BY <1>1, InvariantAlways, PTL DEF Spec, FailedWriteKeepsSize, SizeKept
=============================================================================
