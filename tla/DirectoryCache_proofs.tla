--------------------------- MODULE DirectoryCache_proofs ---------------------------
(***************************************************************************)
(* Whatever discs the operator exchanges between two calls, and whichever  *)
(* transfers he aborts: no changed record outlives its call, and a write   *)
(* to a directory changes no entry but those that the call names, in a     *)
(* record that is on the disc as the BDOS has seen it last.                *)
(***************************************************************************)
EXTENDS SteadyDiscs, TLAPS

Calls == [op : {"none", "select", "reset"} \cup FileOps, drive : Drives,
          names : SUBSET Names, to : Names \cup {NoName}]

\* The stages of a scan belong to the calls that reach them.
CallInv ==
    /\ call \in Calls
    /\ call.op = "rename" => call.to \in Names
    /\ pc = "pass" => call.op \in Passes
    /\ pc = "target" => call.op = "rename"
    /\ pc = "free" => call.op = "make"
    /\ pc = "find" => call.op \in {"search", "publish", "make"}
    /\ pc = "flush" => call.op \in Changing
    /\ pc = "relogin" => call.op = "delete"

\* A changed record exists while it is collected or written - or after the
\* call that changed it was refused the write and ended in a warm boot, until
\* the login of drive A has replaced it.
SelectA == DriveCall("select", 0)
Refused ==
    \/ pc = "idle" /\ Len(todo) > 1 /\ todo[1].op = "rstdrv" /\ todo[2] = SelectA
    \/ pc = "idle" /\ Len(todo) > 0 /\ todo[1] = SelectA /\ ~valid
    \/ pc = "context" /\ call = SelectA /\ ~valid
    \/ pc = "login" /\ call.op = "select" /\ IF cok THEN crec = 0 /\ pos <= EPR ELSE pos = 0
CleanInv == dirty => Refused \/ (pc \in {"pass", "flush"} /\ cok /\ (pc = "pass" => found))

\* The cached record is that of the disc in the drive, but for the entries that
\* the call names.
InUse == pc \in Scanning \cup {"flush"} /\ cok
Near ==
    \A i \in 0 .. EPR - 1 :
        \/ buf[i] = Record(crec)[i]
        \/ {buf[i].name, Record(crec)[i].name} \subseteq Named \cup {NoName}
CacheInv ==
    /\ pc = "context" /\ cok => dirty
    /\ InUse => Near
    /\ InUse /\ crec < CKS /\ ctx \notin rdonly => csv[ctx][crec] = Sum(Record(crec))
-----------------------------------------------------------------------------
(* Records, slots and sequences *)

LEMMA DivMod ==
    ASSUME NEW n \in Nat, NEW d \in Nat \ {0}
    PROVE  /\ n \div d \in Nat /\ n % d \in 0 .. d - 1
           /\ n = d * (n \div d) + (n % d)
  BY SMT

LEMMA Monotone ==
    ASSUME NEW a \in Nat, NEW b \in Nat, NEW d \in Nat, a <= b
    PROVE  a * d <= b * d /\ d * a <= d * b
  BY SMT

LEMMA Sizes == NRecs \in Nat \ {0} /\ EPR \in Nat \ {0} /\ NRecs * EPR \in Nat
  BY CacheAssumption, SMT

\* Every slot lies in one record.
LEMMA SlotFacts ==
    ASSUME NEW s \in Slots
    PROVE  s \div EPR \in Recs /\ s % EPR \in 0 .. EPR - 1 /\ (s \div EPR) * EPR + (s % EPR) = s
  <1>1. s \in Nat /\ s < NRecs * EPR
    BY Sizes DEF Slots
  <1> DEFINE q == s \div EPR
             r == s % EPR
  <1>2. q \in Nat /\ r \in 0 .. EPR - 1 /\ s = EPR * q + r
    BY <1>1, Sizes, DivMod
  <1> HIDE DEF q, r
  <1>3. EPR * q = q * EPR /\ q * EPR \in Nat
    BY <1>2, Sizes, SMT
  <1>4. ~(NRecs <= q)
    <2> SUFFICES ASSUME NRecs <= q PROVE FALSE
      OBVIOUS
    <2>1. NRecs * EPR <= q * EPR
      BY <1>2, Sizes, Monotone
    <2> QED BY <1>1, <1>2, <1>3, <2>1, Sizes, SMT
  <1>5. q \in Recs
    BY <1>2, <1>4, Sizes DEF Recs
  <1> QED BY <1>2, <1>3, <1>5 DEF q, r

\* Every place in a record is a slot of it.
LEMMA PlaceFacts ==
    ASSUME NEW r \in Recs, NEW i \in 0 .. EPR - 1
    PROVE  r * EPR + i \in Slots /\ (r * EPR + i) \div EPR = r /\ (r * EPR + i) % EPR = i
  <1>1. r \in Nat /\ r + 1 <= NRecs /\ i \in Nat /\ i < EPR
    BY Sizes DEF Recs
  <1>2. (r + 1) * EPR <= NRecs * EPR /\ (r + 1) * EPR = r * EPR + EPR /\ r * EPR \in Nat
    <2>1. (r + 1) * EPR <= NRecs * EPR
      BY <1>1, Sizes, Monotone
    <2>2. (r + 1) * EPR = r * EPR + EPR /\ r * EPR \in Nat
      BY <1>1, Sizes, SMT
    <2> QED BY <2>1, <2>2
  <1>3. r * EPR + i \in Slots
    BY <1>1, <1>2, Sizes DEF Slots
  <1> DEFINE s == r * EPR + i
  <1>4. s = r * EPR + i /\ s \in Nat
    BY <1>1, <1>2
  <1> HIDE DEF s
  <1> DEFINE q == s \div EPR
             m == s % EPR
  <1>5. q \in Nat /\ m \in 0 .. EPR - 1 /\ s = EPR * q + m
    BY <1>4, Sizes, DivMod
  <1> HIDE DEF q, m
  <1>6. EPR * q = q * EPR /\ q * EPR \in Nat
    BY <1>5, Sizes, SMT
  <1>7. ~(q < r)
    <2> SUFFICES ASSUME q < r PROVE FALSE
      OBVIOUS
    <2>1. (q + 1) * EPR <= r * EPR /\ (q + 1) * EPR = q * EPR + EPR
      <3>1. (q + 1) * EPR <= r * EPR
        BY <1>1, <1>5, Sizes, Monotone
      <3> QED BY <3>1, <1>5, Sizes, SMT
    <2> QED BY <1>1, <1>2, <1>5, <1>4, <1>6, <2>1, Sizes, SMT
  <1>8. ~(r < q)
    <2> SUFFICES ASSUME r < q PROVE FALSE
      OBVIOUS
    <2>1. (r + 1) * EPR <= q * EPR
      BY <1>1, <1>5, Sizes, Monotone
    <2> QED BY <1>1, <1>2, <1>5, <1>4, <1>6, <2>1, Sizes, SMT
  <1>9. q = r /\ m = i
    <2>1. q = r
      BY <1>1, <1>5, <1>7, <1>8
    <2> QED BY <2>1, <1>1, <1>2, <1>5, <1>4, <1>6, Sizes
  <1> QED BY <1>3, <1>9 DEF q, m, s

-----------------------------------------------------------------------------
(* Types *)

BootCalls == {DriveCall(op, d) : op \in {"rstdrv", "select", "reset"}, d \in Drives}
Stages == {"idle", "context", "flush"} \cup Scanning

Control ==
    /\ pc \in Stages /\ pos \in 0 .. NRecs * EPR /\ found \in BOOLEAN
    /\ todo \in Seq(BootCalls)
    /\ CallInv

LEMMA CallFacts ==
    /\ NoCall \in Calls /\ NoCall.op = "none"
    /\ \A d \in Drives : /\ DriveCall("select", d) \in Calls /\ DriveCall("reset", d) \in Calls
                         /\ DriveCall("select", d).op = "select" /\ DriveCall("reset", d).op = "reset"
                         /\ DriveCall("select", d) \in BootCalls /\ DriveCall("reset", d) \in BootCalls
                         /\ DriveCall("rstdrv", d) \in BootCalls /\ DriveCall("rstdrv", d).op = "rstdrv"
    /\ \A c \in BootCalls : c.op # "rstdrv" => c \in Calls /\ c.op \in {"select", "reset"}
  <1>1. ASSUME NEW d \in Drives, NEW op \in {"none", "select", "reset"}
        PROVE  DriveCall(op, d) \in Calls /\ DriveCall(op, d).op = op
    BY DEF DriveCall, Call, Calls
  <1>2. ASSUME NEW d \in Drives, NEW op \in {"rstdrv", "select", "reset"}
        PROVE  DriveCall(op, d) \in BootCalls /\ DriveCall(op, d).op = op
    <2>1. DriveCall(op, d) \in BootCalls
      BY DEF BootCalls
    <2>2. DriveCall(op, d).op = op
      BY DEF DriveCall, Call
    <2> QED BY <2>1, <2>2
  <1>3. NoCall \in Calls /\ NoCall.op = "none"
    BY <1>1, CacheAssumption DEF NoCall
  <1>4. ASSUME NEW c \in BootCalls, c.op # "rstdrv"
        PROVE  c \in Calls /\ c.op \in {"select", "reset"}
    <2>1. PICK op \in {"rstdrv", "select", "reset"}, d \in Drives : c = DriveCall(op, d)
      BY DEF BootCalls
    <2> QED BY <1>1, <1>2, <1>4, <2>1
  <1> QED BY <1>1, <1>2, <1>3, <1>4

\* A warm boot begins with the reset of all drives and the login of drive A.
LEMMA BootFacts ==
    ASSUME default \in Drives, Boot
    PROVE  /\ pc' = "idle" /\ call' = NoCall /\ pos' = 0 /\ found' = FALSE
           /\ todo' \in Seq(BootCalls)
           /\ Len(todo') > 1 /\ todo'[1].op = "rstdrv" /\ todo'[2] = SelectA
  <1> DEFINE rest == IF default = 0 THEN <<>> ELSE <<DriveCall("select", default)>>
             a == DriveCall("rstdrv", 0)
             b == DriveCall("select", 0)
             c == DriveCall("reset", 0)
  <1>1. a \in BootCalls /\ b \in BootCalls /\ c \in BootCalls /\ a.op = "rstdrv"
    BY CallFacts, CacheAssumption
  <1>2. rest \in Seq(BootCalls)
    BY CallFacts
  <1>3. todo' = <<a, b, c>> \o rest
    BY DEF Boot
  <1>4. b = SelectA
    BY DEF SelectA
  <1> HIDE DEF rest, a, b, c
  <1>5. /\ todo' \in Seq(BootCalls) /\ Len(todo') > 1 /\ todo'[1] = a /\ todo'[2] = b
    BY <1>1, <1>2, <1>3
  <1> QED BY <1>1, <1>4, <1>5 DEF Boot, Leave

LEMMA IdleControl ==
    ASSUME pc' = "idle", call' = NoCall, pos' = 0, found' = FALSE, todo' \in Seq(BootCalls)
    PROVE  Control'
  <1>1. CallInv'
    BY CallFacts DEF CallInv
  <1>2. 0 \in 0 .. NRecs * EPR
    BY Sizes
  <1> QED BY <1>1, <1>2 DEF Control, Stages

LEMMA GoControl ==
    ASSUME Control, NEW to \in Scanning \cup {"flush"}, Go(to), todo' = todo,
           to = "pass" => call.op \in Passes,
           to = "target" => call.op = "rename",
           to = "free" => call.op = "make",
           to = "find" => call.op \in {"search", "publish", "make"},
           to = "flush" => call.op \in Changing,
           to = "relogin" => call.op = "delete"
    PROVE  Control'
  BY Sizes DEF Control, CallInv, Stages, Go, Scanning

LEMMA ProceedControl ==
    ASSUME Control, default \in Drives, Proceed
    PROVE  Control'
  <1>1. CASE Boot
    BY <1>1, BootFacts, IdleControl
  <1>2. CASE Leave /\ todo' = todo
    BY <1>2, IdleControl DEF Leave, Control
  <1>3. CASE Go("target") /\ todo' = todo /\ call.op = "rename"
    BY <1>3, GoControl DEF Scanning
  <1>4. CASE Go("pass") /\ todo' = todo /\ call.op \in Passes
    BY <1>4, GoControl DEF Scanning
  <1>5. CASE Go("find") /\ todo' = todo /\ call.op \in {"search", "publish", "make"}
    BY <1>5, GoControl DEF Scanning, Passes
  <1>6. call.op \in FileOps /\ call.op \notin Passes => call.op \in {"search", "publish", "make"}
    BY DEF FileOps, Changing, Passes
  <1> QED BY <1>1, <1>2, <1>3, <1>4, <1>5, <1>6 DEF Proceed

LEMMA BeginControl ==
    ASSUME Control, NEW c \in Calls, c.op = "rename" => c.to \in Names, Begin(c),
           todo' \in Seq(BootCalls)
    PROVE  Control'
  <1>1. pc' = "context" /\ call' = c /\ pos' = 0 /\ found' = FALSE
    BY DEF Begin
  <1>2. CallInv'
    BY <1>1 DEF CallInv
  <1>3. 0 \in 0 .. NRecs * EPR
    BY Sizes
  <1> QED BY <1>1, <1>2, <1>3 DEF Control, Stages

LEMMA RequestControl ==
    ASSUME Control, Request
    PROVE  Control'
  <1>1. todo' = todo /\ todo' \in Seq(BootCalls)
    BY DEF Request, Control
  <1>2. CASE \E ds \in SUBSET Drives : ResetDrives(ds)
    BY <1>1, <1>2 DEF ResetDrives, Control, CallInv
  <1>3. CASE \E c \in Calls : (c.op = "rename" => c.to \in Names) /\ Begin(c)
    BY <1>1, <1>3, BeginControl
  <1>4. \/ \E ds \in SUBSET Drives : ResetDrives(ds)
        \/ \E c \in Calls : (c.op = "rename" => c.to \in Names) /\ Begin(c)
    <2>1. CASE Begin(DriveCall("reset", 0))
      BY <2>1, CallFacts, CacheAssumption
    <2>2. CASE \E d \in Drives : Begin(DriveCall("select", d))
      BY <2>2, CallFacts
    <2>3. ASSUME NEW d \in Drives, NEW n \in Names, NEW op \in {"search", "publish", "make"},
                 Begin(Call(op, d, {n}, NoName))
          PROVE  \E c \in Calls : (c.op = "rename" => c.to \in Names) /\ Begin(c)
      <3>1. Call(op, d, {n}, NoName) \in Calls /\ Call(op, d, {n}, NoName).op = op
        BY DEF Call, Calls, FileOps, Changing
      <3> QED BY <2>3, <3>1
    <2>4. ASSUME NEW d \in Drives, NEW names \in SUBSET Names, NEW op \in {"delete", "attr"},
                 Begin(Call(op, d, names, NoName))
          PROVE  \E c \in Calls : (c.op = "rename" => c.to \in Names) /\ Begin(c)
      <3>1. Call(op, d, names, NoName) \in Calls /\ Call(op, d, names, NoName).op = op
        BY DEF Call, Calls, FileOps, Changing, Passes
      <3> QED BY <2>4, <3>1
    <2>5. ASSUME NEW d \in Drives, NEW n \in Names, NEW to \in Names,
                 Begin(Call("rename", d, {n}, to))
          PROVE  \E c \in Calls : (c.op = "rename" => c.to \in Names) /\ Begin(c)
      <3>1. Call("rename", d, {n}, to) \in Calls /\ Call("rename", d, {n}, to).to = to
        BY DEF Call, Calls, FileOps, Changing, Passes
      <3> QED BY <2>5, <3>1
    <2> QED BY <2>1, <2>2, <2>3, <2>4, <2>5 DEF Request
  <1> QED BY <1>2, <1>3, <1>4

LEMMA ControlStep ==
    ASSUME Control, default \in Drives, Next
    PROVE  Control'
  <1>1. CASE Request
    BY <1>1, RequestControl
  <1>2. CASE Protect \/ Swap
    BY <1>2 DEF Protect, Swap, Control, CallInv
  <1>3. CASE BootCall
    <2>1. todo # <<>> /\ todo' = Tail(todo) /\ todo \in Seq(BootCalls)
      BY <1>3 DEF BootCall, Control
    <2>2. todo' \in Seq(BootCalls) /\ Head(todo) \in BootCalls
      BY <2>1
    <2>3. CASE ResetDrives(Drives)
      BY <2>2, <2>3 DEF ResetDrives, Control, CallInv
    <2>4. CASE Head(todo).op # "rstdrv" /\ Begin(Head(todo))
      <3>1. Head(todo) \in Calls /\ Head(todo).op # "rename"
        BY <2>2, <2>4, CallFacts
      <3> QED BY <2>2, <2>4, <3>1, BeginControl
    <2> QED BY <1>3, <2>3, <2>4 DEF BootCall
  <1>4. CASE Active
    BY <1>4, ProceedControl DEF Active
  <1>5. CASE Activate
    <2>1. CASE Go("login") /\ todo' = todo
      BY <2>1, GoControl DEF Scanning
    <2>2. CASE Leave /\ todo' = todo
      BY <2>2, IdleControl DEF Leave, Control
    <2> QED BY <1>5, <2>1, <2>2 DEF Activate
  <1>6. CASE Fill \/ Flush
    <2>1. CASE UNCHANGED <<pc, call, pos, found, todo>>
      BY <2>1 DEF Control, CallInv
    <2>2. CASE Boot
      BY <2>2, BootFacts, IdleControl
    <2> QED BY <1>6, <2>1, <2>2 DEF Fill, Flush, WriteBack, Abandon
  <1>7. CASE Examine
    <2>1. todo' = todo /\ pos \in Slots
      BY <1>7 DEF Examine, Hit, Scan
    <2>2. CASE UNCHANGED <<pc, call>> /\ pos' = pos + 1 /\ found' \in {found, TRUE}
      <3>1. pos' \in 0 .. NRecs * EPR
        BY <2>1, <2>2, Sizes DEF Slots
      <3> QED BY <2>1, <2>2, <3>1 DEF Control, CallInv
    <2>3. CASE Leave
      BY <2>1, <2>3, IdleControl DEF Leave, Control
    <2>4. CASE Go("flush") /\ (pc = "free" \/ call.op = "publish")
      <3>1. call.op \in Changing
        BY <2>4 DEF Control, CallInv, Changing
      <3> QED BY <2>1, <2>4, <3>1, GoControl DEF Scanning
    <2> QED BY <1>7, <2>2, <2>3, <2>4 DEF Examine, Step
  <1>8. CASE Exhausted
    <2>1. CASE Proceed
      BY <2>1, ProceedControl
    <2>2. CASE pc = "target" /\ Go("pass") /\ todo' = todo
      BY <2>2, GoControl DEF Scanning, Control, CallInv, Passes
    <2>3. CASE Go("free") /\ call.op = "make" /\ todo' = todo
      BY <2>3, GoControl DEF Scanning
    <2>4. CASE pc = "pass" /\ Go("flush") /\ todo' = todo
      BY <2>4, GoControl DEF Control, CallInv, Changing, Scanning
    <2>5. CASE Leave /\ todo' = todo
      BY <2>5, IdleControl DEF Leave, Control
    <2> QED BY <1>8, <2>1, <2>2, <2>3, <2>4, <2>5 DEF Exhausted, PassedAll
  <1>9. CASE Done
    <2>1. CASE call.op = "delete" /\ Go("relogin") /\ todo' = todo
      BY <2>1, GoControl DEF Scanning
    <2>2. CASE Leave /\ todo' = todo
      BY <2>2, IdleControl DEF Leave, Control
    <2> QED BY <1>9, <2>1, <2>2 DEF Done
  <1> QED BY <1>1, <1>2, <1>3, <1>4, <1>5, <1>6, <1>7, <1>8, <1>9 DEF Next, Code

Data ==
    /\ media \in [Drives -> Discs] /\ disc \in [Discs -> [Slots -> Entries]]
    /\ buf \in Buffers /\ crec \in Recs /\ cok \in BOOLEAN /\ dirty \in BOOLEAN
    /\ valid \in BOOLEAN /\ ctx \in Drives /\ default \in Drives
    /\ login \subseteq Drives /\ rdonly \subseteq Drives
    /\ csv \in [Drives -> [Recs -> Buffers]]

\* A record of the disc in the active drive.
LEMMA RecordType ==
    ASSUME Data, NEW r \in Recs
    PROVE  Record(r) \in Buffers /\ \A i \in 0 .. EPR - 1 : Record(r)[i] = disc[media[ctx]][r * EPR + i]
  <1>1. disc[media[ctx]] \in [Slots -> Entries]
    BY DEF Data
  <1>2. \A i \in 0 .. EPR - 1 : r * EPR + i \in Slots
    BY PlaceFacts
  <1> QED BY <1>1, <1>2 DEF Record, Buffers

LEMMA ChecksumType ==
    ASSUME Data, NEW b \in Buffers, NEW r \in Recs, csv' = [csv EXCEPT ![ctx][r] = Sum(b)]
    PROVE  csv' \in [Drives -> [Recs -> Buffers]] /\ csv'[ctx][r] = Sum(b)
  BY DEF Data, Sum

LEMMA CompareType ==
    ASSUME Data, NEW b \in Buffers, NEW r \in Recs, Compare(b, r)
    PROVE  csv' \in [Drives -> [Recs -> Buffers]] /\ rdonly' \subseteq Drives
  <1>1. CASE UNCHANGED csv
    <2>1. rdonly' \subseteq Drives
      BY <1>1 DEF Compare, Data
    <2> QED BY <1>1, <2>1 DEF Data
  <1>2. CASE csv' = [csv EXCEPT ![ctx][r] = Sum(b)] /\ UNCHANGED rdonly
    BY <1>2, ChecksumType DEF Data
  <1> QED BY <1>1, <1>2 DEF Compare

LEMMA PutType ==
    ASSUME Data, NEW e \in Entries, pos \in Slots, Put(e)
    PROVE  /\ buf' \in Buffers /\ dirty' = TRUE
           /\ \A i \in 0 .. EPR - 1 : buf'[i] = IF i = pos % EPR THEN e ELSE buf[i]
  <1>1. pos % EPR \in 0 .. EPR - 1
    BY SlotFacts
  <1> QED BY <1>1 DEF Put, Data, Buffers

\* An entry of the buffer, and what becomes of one that the call names.
LEMMA EntryFacts ==
    ASSUME Data, Control, pos \in Slots
    PROVE  /\ Entry \in Entries /\ Entry = buf[pos % EPR] /\ pos % EPR \in 0 .. EPR - 1
           /\ pc \in {"find", "pass"} /\ Matches(Entry) =>
                /\ Entry.name \in call.names /\ Entry.name \in Names
                /\ Changed(Entry) \in Entries
                /\ Changed(Entry).name \in call.names \cup {call.to, NoName}
  <1>1. Entry \in Entries /\ Entry = buf[pos % EPR] /\ pos % EPR \in 0 .. EPR - 1
    BY SlotFacts DEF Data, Buffers, Entry
  <1>2. ASSUME pc \in {"find", "pass"}, Matches(Entry)
        PROVE  /\ Entry.name \in call.names /\ Entry.name \in Names
               /\ Changed(Entry) \in Entries
               /\ Changed(Entry).name \in call.names \cup {call.to, NoName}
    <2>1. Entry.name \in call.names /\ call.names \subseteq Names /\ call.to \in Names \cup {NoName}
      BY <1>2 DEF Matches, Control, CallInv, Calls
    <2>2. Entry.ver \in {0, 1} /\ Entry = [name |-> Entry.name, ver |-> Entry.ver]
      BY <1>1 DEF Entries, Free
    <2>3. CASE call.op = "delete"
      <3>1. Changed(Entry) = Free
        BY <2>3 DEF Changed
      <3> QED BY <2>1, <3>1 DEF Free, Entries
    <2>4. CASE call.op = "rename"
      <3>1. Changed(Entry) = [Entry EXCEPT !.name = call.to] /\ call.to \in Names
        BY <2>4 DEF Changed, Control, CallInv
      <3>2. Changed(Entry) = [name |-> call.to, ver |-> Entry.ver]
        BY <2>2, <3>1
      <3> QED BY <2>1, <2>2, <3>1, <3>2 DEF Entries
    <2>5. CASE call.op \notin {"delete", "rename"}
      <3>1. Changed(Entry) = [Entry EXCEPT !.ver = 1 - Entry.ver]
        BY <2>5 DEF Changed
      <3>2. Changed(Entry) = [name |-> Entry.name, ver |-> 1 - Entry.ver] /\ 1 - Entry.ver \in {0, 1}
        BY <2>2, <3>1
      <3> QED BY <2>1, <3>2 DEF Entries
    <2> QED BY <2>1, <2>3, <2>4, <2>5
  <1> QED BY <1>1, <1>2

\* What Examine writes into the buffer: nothing, or one entry.
LEMMA ExamineFacts ==
    ASSUME Data, Control, Examine
    PROVE  /\ pos \in Slots /\ crec = pos \div EPR /\ cok /\ pc \in Scanning
           /\ UNCHANGED <<media, disc, crec, cok, valid, ctx, login, rdonly, csv, default, todo>>
           /\ \/ UNCHANGED <<buf, dirty>> /\ Step
              \/ /\ UNCHANGED <<buf, dirty>> /\ Leave
                 /\ pc \in {"target", "find", "pass"} /\ (pc = "pass" => Entry.name \in ReadOnly)
              \/ \E e \in Entries :
                   /\ Put(e)
                   /\ \/ pc \in {"find", "free"} /\ Go("flush")
                      \/ pc = "pass" /\ pos' = pos + 1 /\ found' /\ UNCHANGED <<pc, call>>
                   /\ {Entry.name, e.name} \subseteq Named \cup {NoName}
  <1>1. /\ pos \in Slots /\ crec = pos \div EPR /\ cok /\ pc \in Scanning
        /\ UNCHANGED <<media, disc, crec, cok, valid, ctx, login, rdonly, csv, default, todo>>
    BY DEF Examine, Hit, Scan, Wanted
  <1>2. CASE UNCHANGED <<buf, dirty>> /\ Step
    BY <1>1, <1>2
  <1>8. CASE /\ UNCHANGED <<buf, dirty>> /\ Leave
             /\ pc \in {"target", "find", "pass"} /\ (pc = "pass" => Entry.name \in ReadOnly)
    BY <1>1, <1>8
  <1>3. CASE pc = "find" /\ ~Passed /\ call.op = "publish" /\ Put(Changed(Entry)) /\ Go("flush")
    <2>1. Matches(Entry) /\ call.op \in Changing
      BY <1>3 DEF Passed, Changing
    <2>2. Changed(Entry) \in Entries /\ {Entry.name, Changed(Entry).name} \subseteq Named \cup {NoName}
      BY <1>1, <1>3, <2>1, EntryFacts DEF Named
    <2> QED BY <1>1, <1>3, <2>2
  <1>4. ASSUME pc = "free", ~Passed, NEW n \in call.names, Put([name |-> n, ver |-> 0]), Go("flush")
        PROVE  \E e \in Entries : /\ Put(e) /\ pc \in {"find", "free"} /\ Go("flush")
                                  /\ {Entry.name, e.name} \subseteq Named \cup {NoName}
    <2> DEFINE e == [name |-> n, ver |-> 0]
    <2>1. Entry = Free
      BY <1>4 DEF Passed
    <2>2. call.op = "make" /\ call.names \subseteq Names
      BY <1>4 DEF Control, CallInv, Calls
    <2>3. e \in Entries /\ e.name = n
      BY <2>2 DEF Entries
    <2>4. Entry.name = NoName
      BY <2>1 DEF Free
    <2>5. n \in Named
      BY <2>2 DEF Named, Changing
    <2>6. {Entry.name, e.name} \subseteq Named \cup {NoName}
      BY <2>3, <2>4, <2>5
    <2> QED BY <1>4, <2>3, <2>6
  <1>5. CASE pc = "pass" /\ ~Passed /\ Put(Changed(Entry)) /\ pos' = pos + 1 /\ found' = TRUE /\ UNCHANGED <<pc, call>>
    <2>1. Matches(Entry) /\ call.op \in Changing
      BY <1>5 DEF Passed, Changing, Control, CallInv
    <2>2. Changed(Entry) \in Entries /\ {Entry.name, Changed(Entry).name} \subseteq Named \cup {NoName}
      BY <1>1, <1>5, <2>1, EntryFacts DEF Named
    <2> QED BY <1>1, <1>5, <2>2
  <1>6. \/ UNCHANGED <<buf, dirty>> /\ Step
        \/ /\ UNCHANGED <<buf, dirty>> /\ Leave
           /\ pc \in {"target", "find", "pass"} /\ (pc = "pass" => Entry.name \in ReadOnly)
        \/ pc = "find" /\ ~Passed /\ call.op = "publish" /\ Put(Changed(Entry)) /\ Go("flush")
        \/ pc = "free" /\ ~Passed /\ \E n \in call.names : Put([name |-> n, ver |-> 0]) /\ Go("flush")
        \/ pc = "pass" /\ ~Passed /\ Put(Changed(Entry)) /\ pos' = pos + 1 /\ found' = TRUE /\ UNCHANGED <<pc, call>>
    BY DEF Examine
  <1>7. CASE pc = "free" /\ ~Passed /\ \E n \in call.names : Put([name |-> n, ver |-> 0]) /\ Go("flush")
    BY <1>1, <1>4, <1>7
  <1> QED BY <1>2, <1>3, <1>5, <1>6, <1>7, <1>8

\* The record in the cache goes to the disc.
LEMMA TransferFacts ==
    ASSUME Data,
           disc' = [disc EXCEPT ![media[ctx]] = [s \in Slots |->
                       IF s \div EPR = crec THEN buf[s % EPR] ELSE disc[media[ctx]][s]]]
    PROVE  /\ disc' \in [Discs -> [Slots -> Entries]]
           /\ \A m \in Discs, s \in Slots :
                disc'[m][s] = IF m = media[ctx] /\ s \div EPR = crec THEN buf[s % EPR] ELSE disc[m][s]
  <1> DEFINE new == [s \in Slots |-> IF s \div EPR = crec THEN buf[s % EPR] ELSE disc[media[ctx]][s]]
  <1>1. media[ctx] \in Discs /\ disc[media[ctx]] \in [Slots -> Entries]
    BY DEF Data
  <1>2. \A s \in Slots : buf[s % EPR] \in Entries
    BY SlotFacts DEF Data, Buffers
  <1>3. new \in [Slots -> Entries]
    BY <1>1, <1>2
  <1>4. \A s \in Slots : new[s] = IF s \div EPR = crec THEN buf[s % EPR] ELSE disc[media[ctx]][s]
    OBVIOUS
  <1>5. disc' = [disc EXCEPT ![media[ctx]] = new]
    OBVIOUS
  <1> HIDE DEF new
  <1> QED BY <1>1, <1>3, <1>4, <1>5 DEF Data

LEMMA WantedType ==
    ASSUME pos \in Slots
    PROVE  Wanted \in Recs
  BY SlotFacts DEF Wanted

LEMMA DataStep ==
    ASSUME Data, Control, Next
    PROVE  Data'
  <1>1. ASSUME NEW ds \in SUBSET Drives, ResetDrives(ds)
        PROVE  Data'
    BY <1>1 DEF ResetDrives, Enter, Forget, Data
  <1>2. ASSUME NEW c, Begin(c)
        PROVE  Data'
    BY <1>2, CacheAssumption DEF Begin, Enter, Forget, Data
  <1>3. CASE Request
    BY <1>1, <1>2, <1>3 DEF Request
  <1>4. CASE BootCall
    BY <1>1, <1>2, <1>4 DEF BootCall
  <1>5. CASE Protect
    BY <1>5 DEF Protect, Enter, Data
  <1>6. CASE Swap
    BY <1>6 DEF Swap, Data
  <1>7. call.drive \in Drives
    BY DEF Control, CallInv, Calls
  <1>8. CASE Active
    BY <1>7, <1>8 DEF Active, Proceed, Data
  <1>9. CASE Activate
    BY <1>7, <1>9 DEF Activate, Data
  <1>10. CASE Fill
    <2>1. pos \in Slots /\ crec' = Wanted /\ Wanted \in Recs
      BY <1>10, WantedType DEF Fill, MustFill, Scan
    <2>2. UNCHANGED <<media, disc, valid, ctx, login, default>>
      BY <1>10 DEF Fill, Abandon
    <2>3. CASE Abandon /\ UNCHANGED buf
      BY <2>1, <2>2, <2>3 DEF Abandon, Data
    <2>4. CASE \E b \in {Record(Wanted), buf} : buf' = b /\ Compare(b, Wanted) /\ cok' = TRUE /\ dirty' = dirty
      <3>1. PICK b \in {Record(Wanted), buf} : buf' = b /\ Compare(b, Wanted) /\ cok' = TRUE /\ dirty' = dirty
        BY <2>4
      <3>2. b \in Buffers
        BY <2>1, RecordType DEF Data
      <3>3. csv' \in [Drives -> [Recs -> Buffers]] /\ rdonly' \subseteq Drives
        BY <2>1, <3>1, <3>2, CompareType
      <3> QED BY <2>1, <2>2, <3>1, <3>2, <3>3 DEF Data
    <2>5. \/ Abandon /\ UNCHANGED buf
          \/ \E b \in {Record(Wanted)} \cup IF "ignore" \in Answers THEN {buf} ELSE {} :
                buf' = b /\ Compare(b, Wanted) /\ cok' = TRUE /\ dirty' = dirty
      BY <1>10 DEF Fill
    <2>6. {Record(Wanted)} \cup (IF "ignore" \in Answers THEN {buf} ELSE {}) \subseteq {Record(Wanted), buf}
      OBVIOUS
    <2> QED BY <2>3, <2>4, <2>5, <2>6
  <1>11. CASE Flush
    <2>1. UNCHANGED <<media, buf, crec, valid, ctx, login, default>>
      BY <1>11 DEF Flush
    <2>2. CASE UNCHANGED <<disc, cok, dirty, csv, rdonly>>
      BY <2>1, <2>2 DEF Data
    <2>3. CASE Transferred /\ Settled /\ UNCHANGED <<cok, rdonly>>
      <3>1. disc' \in [Discs -> [Slots -> Entries]]
        BY <2>3, TransferFacts DEF Transferred, Data
      <3>2. csv' \in [Drives -> [Recs -> Buffers]]
        BY <2>3, ChecksumType DEF Settled, Baseline, Data
      <3> QED BY <2>1, <2>3, <3>1, <3>2 DEF Settled, Data
    <2>4. CASE Abandon
      BY <2>1, <2>4 DEF Abandon, Data
    <2> QED BY <1>11, <2>2, <2>3, <2>4 DEF Flush, WriteBack
  <1>12. CASE Examine
    <2>1. UNCHANGED <<media, disc, crec, cok, valid, ctx, login, rdonly, csv, default>> /\ pos \in Slots
      BY <1>12, ExamineFacts
    <2>2. CASE UNCHANGED <<buf, dirty>>
      BY <2>1, <2>2 DEF Data
    <2>3. CASE \E e \in Entries : Put(e)
      <3>1. buf' \in Buffers /\ dirty' = TRUE
        BY <2>1, <2>3, PutType
      <3> QED BY <2>1, <3>1 DEF Data
    <2> QED BY <1>12, <2>2, <2>3, ExamineFacts
  <1>13. CASE Exhausted
    <2>1. UNCHANGED <<media, disc, buf, crec, cok, dirty, valid, ctx, rdonly, csv>>
      BY <1>13 DEF Exhausted
    <2>2. login' \subseteq Drives
      BY <1>13 DEF Exhausted, Data
    <2>3. default' \in Drives
      BY <1>7, <1>13 DEF Exhausted, Proceed, Data
    <2> QED BY <2>1, <2>2, <2>3 DEF Data
  <1>14. CASE Done
    BY <1>14 DEF Done, Data
  <1> QED BY <1>3, <1>4, <1>5, <1>6, <1>8, <1>9, <1>10, <1>11, <1>12, <1>13, <1>14 DEF Next,
          Code

\* The parts of the type invariant.
LEMMA TypeParts == Data /\ Control => TypeOK
  BY DEF Data, Control, TypeOK, BootCalls, Stages, CallInv, Calls

LEMMA TypeInit == Init => Data /\ Control
  <1> SUFFICES ASSUME Init PROVE Data /\ Control
    OBVIOUS
  <1>1. 0 \in Drives /\ 0 \in Recs /\ Free \in Entries
    BY CacheAssumption, Sizes DEF Recs, Entries
  <1>2. buf \in Buffers
    BY <1>1 DEF Init, Buffers
  <1>3. csv \in [Drives -> [Recs -> Buffers]]
    BY <1>2 DEF Init, Sum
  <1>4. Data
    BY <1>1, <1>2, <1>3, FormatAssumption DEF Init, Data
  <1>5. CallInv
    BY CallFacts DEF Init, CallInv
  <1>6. Control
    <2>1. 0 \in 0 .. NRecs * EPR /\ <<>> \in Seq(BootCalls)
      BY Sizes
    <2> QED BY <1>5, <2>1 DEF Init, Control, Stages
  <1> QED BY <1>4, <1>6

LEMMA TypeStep == Data /\ Control /\ [Next]_vars => (Data /\ Control)'
  <1> SUFFICES ASSUME Data, Control, [Next]_vars PROVE Data' /\ Control'
    OBVIOUS
  <1>1. CASE Next
    BY <1>1, DataStep, ControlStep DEF Data
  <1>2. CASE UNCHANGED vars
    BY <1>2 DEF vars, Data, Control, CallInv
  <1> QED BY <1>1, <1>2

LEMMA Inductive == Spec => [](Data /\ Control)
  BY TypeStep, TypeInit, PTL DEF Spec

\* Every variable keeps its type: the cached record is a record of a directory,
\* the iterator does not pass its end (unified.mac, UB_DIRLOAD and UB_NEXTENT).
THEOREM TypeCorrect == Spec => []TypeOK
  BY Inductive, TypeParts, PTL

-----------------------------------------------------------------------------
(* No changed record outlives its call *)

LEMMA SelectFacts == SelectA.op = "select" /\ SelectA.drive = 0
  BY DEF SelectA, DriveCall, Call

\* A directory of more than one record does not end with the first.
LEMMA EndFacts ==
    ASSUME NRecs > 1, Control, pos \notin Slots
    PROVE  pos > EPR /\ pos # 0
  <1>1. 2 * EPR <= NRecs * EPR /\ 2 * EPR = EPR + EPR
    BY Sizes, Monotone
  <1>2. pos = NRecs * EPR
    BY Sizes DEF Control, Slots
  <1> QED BY <1>1, <1>2, Sizes

LEMMA CleanStep ==
    ASSUME ReadOnly = {}, NRecs > 1, Data, Control, CleanInv, Next
    PROVE  CleanInv'
  <1> SUFFICES ASSUME dirty' PROVE Refused' \/ (pc \in {"pass", "flush"} /\ cok /\ (pc = "pass" => found))'
    BY DEF CleanInv
  <1>0. ASSUME Boot PROVE Refused'
    BY <1>0, BootFacts DEF Refused, Data
  <1>1. CASE Request \/ Protect \/ Swap
    <2>1. pc = "idle" /\ todo = <<>> /\ dirty' = dirty
      BY <1>1 DEF Request, Protect, Swap, ResetDrives, Begin
    <2> QED BY <2>1 DEF CleanInv, Refused
  <1>2. CASE BootCall
    <2>1. pc = "idle" /\ dirty' = dirty /\ todo # <<>> /\ todo' = Tail(todo)
      BY <1>2 DEF BootCall, ResetDrives, Begin
    <2>2. todo \in Seq(BootCalls)
      BY DEF Control
    <2>3. Head(todo) = todo[1] /\ Len(todo) > 0
      BY <2>1, <2>2
    <2>4. CASE Len(todo) > 1 /\ todo[1].op = "rstdrv" /\ todo[2] = SelectA
      <3>1. Len(todo') > 0 /\ todo'[1] = SelectA
        BY <2>4, <2>1, <2>2
      <3>2. pc' = "idle" /\ valid' = FALSE
        BY <1>2, <2>3, <2>4 DEF BootCall, ResetDrives, Forget
      <3> QED BY <3>1, <3>2 DEF Refused
    <2>5. CASE todo[1] = SelectA /\ ~valid
      <3>1. Begin(SelectA)
        BY <1>2, <2>3, <2>5, SelectFacts DEF BootCall
      <3>2. pc' = "context" /\ call' = SelectA /\ valid' = valid
        BY <3>1, SelectFacts DEF Begin
      <3> QED BY <2>5, <3>2 DEF Refused
    <2> QED BY <2>4, <2>5, <2>1 DEF CleanInv, Refused
  <1>3. CASE Active
    BY <1>3 DEF Active, CleanInv, Refused
  <1>4. CASE Activate
    <2>1. call = SelectA /\ cok' = FALSE
      BY <1>4 DEF Activate, CleanInv, Refused
    <2>2. Go("login")
      BY <1>4, <2>1, SelectFacts DEF Activate
    <2> QED BY <2>1, <2>2, SelectFacts DEF Go, Refused
  <1>5. CASE Fill
    <2>1. dirty /\ UNCHANGED <<pc, call, pos, found, todo>> /\ crec' = Wanted /\ cok' = TRUE
      BY <1>5 DEF Fill, Abandon
    <2>2. ~cok /\ pc \in Scanning
      BY <1>5, <2>1 DEF Fill, MustFill, MustFlush, Hit, Scan
    <2>3. pc = "login" /\ call.op = "select" /\ pos = 0
      BY <2>1, <2>2 DEF CleanInv, Refused, Scanning
    <2>4. Wanted = 0
      BY <2>3, Sizes DEF Wanted
    <2> QED BY <2>1, <2>3, <2>4, Sizes DEF Refused
  <1>6. CASE Flush
    <2>1. Boot
      BY <1>6 DEF Flush, WriteBack, Settled, Abandon
    <2> QED BY <1>0, <2>1
  <1>7. CASE Examine
    <2>1. pos \in Slots /\ crec = pos \div EPR /\ UNCHANGED <<crec, cok, valid, todo>> /\ cok
      BY <1>7, ExamineFacts
    <2>2. CASE UNCHANGED <<buf, dirty>> /\ Step
      <3>1. UNCHANGED <<pc, call, found>> /\ pos' = pos + 1
        BY <2>2 DEF Step
      <3>2. CASE pc = "login" /\ call.op = "select" /\ crec = 0 /\ pos <= EPR
        <4>1. pos \in Nat /\ pos = EPR * (pos \div EPR) + (pos % EPR) /\ pos % EPR \in 0 .. EPR - 1
          BY <2>1, Sizes, DivMod DEF Slots
        <4>2. pos < EPR
          BY <2>1, <3>2, <4>1, Sizes
        <4> QED BY <2>1, <3>1, <3>2, <4>1, <4>2, Sizes DEF Refused
      <3>3. CASE pc \in {"pass", "flush"} /\ (pc = "pass" => found)
        BY <2>1, <3>1, <3>3
      <3> QED BY <1>7, <2>1, <2>2, <3>2, <3>3, ExamineFacts DEF CleanInv, Refused, Scanning
    <2>3. CASE /\ UNCHANGED <<buf, dirty>> /\ Leave
               /\ pc \in {"target", "find", "pass"} /\ (pc = "pass" => Entry.name \in ReadOnly)
      BY <2>3 DEF CleanInv, Refused
    <2>4. CASE \/ Go("flush")
               \/ pc = "pass" /\ found' /\ UNCHANGED <<pc, call>>
      BY <2>1, <2>4 DEF Go
    <2> QED BY <1>7, <2>2, <2>3, <2>4, ExamineFacts
  <1>8. CASE Exhausted
    <2>1. dirty /\ cok' = cok /\ pos \notin Slots /\ pc \in Scanning
      BY <1>8 DEF Exhausted
    <2>2. pc = "pass" /\ cok /\ found
      <3>1. ~(IF cok THEN crec = 0 /\ pos <= EPR ELSE pos = 0)
        BY <2>1, EndFacts, Sizes DEF Control
      <3> QED BY <2>1, <3>1 DEF CleanInv, Refused, Scanning
    <2>3. Go("flush")
      BY <1>8, <2>2 DEF Exhausted, PassedAll
    <2> QED BY <2>1, <2>2, <2>3 DEF Go
  <1>9. CASE Done
    BY <1>9 DEF Done
  <1> QED BY <1>1, <1>2, <1>3, <1>4, <1>5, <1>6, <1>7, <1>8, <1>9 DEF Next, Code

\* Between two calls no changed record is left behind: neither by a pass that
\* flushed in its middle, nor by an aborted transfer, nor - after the warm boot -
\* by a write that was refused because the drive is protected.  Without read-only
\* files, on directories of more than one record (unified.mac, UB_DIRFLUSH).
THEOREM NothingLeftBehind ==
    ASSUME ReadOnly = {}, NRecs > 1
    PROVE  Spec => []IdleIsClean
  <1>1. Init => CleanInv
    BY DEF Init, CleanInv
  <1>2. Data /\ Control /\ CleanInv /\ [Next]_vars => CleanInv'
    <2> SUFFICES ASSUME Data, Control, CleanInv, [Next]_vars PROVE CleanInv'
      OBVIOUS
    <2>1. CASE UNCHANGED vars
      BY <2>1 DEF vars, CleanInv, Refused
    <2> QED BY <2>1, CleanStep
  <1>3. CleanInv => IdleIsClean
    BY DEF CleanInv, Refused, IdleIsClean, Idle
  <1> QED BY <1>1, <1>2, <1>3, Inductive, PTL DEF Spec

-----------------------------------------------------------------------------
(* The cached record is that of the disc *)

\* Transfers that fail are aborted, not ignored.
NoneIgnored == "ignore" \notin Answers

\* What an action keeps of the cached record while it stays in use.
LEMMA SameRecord ==
    ASSUME CacheInv, UNCHANGED <<media, disc, buf, crec, ctx, rdonly, csv>>,
           ~InUse' \/ (InUse /\ call' = call), pc' # "context"
    PROVE  CacheInv'
  <1>1. Record(crec)' = Record(crec)
    BY DEF Record
  <1>2. call' = call => Named' = Named
    BY DEF Named
  <1>3. InUse' => Near'
    BY <1>1, <1>2 DEF CacheInv, Near
  <1>4. (InUse /\ crec < CKS /\ ctx \notin rdonly => csv[ctx][crec] = Sum(Record(crec)))'
    BY <1>1 DEF CacheInv, Sum
  <1> QED BY <1>3, <1>4 DEF CacheInv

LEMMA FillCache ==
    ASSUME NoneIgnored, Data, Control, CacheInv, Fill
    PROVE  CacheInv'
  <1>1. pos \in Slots /\ crec' = Wanted /\ Wanted \in Recs /\ UNCHANGED <<media, ctx>>
    BY WantedType DEF Fill, MustFill, Scan
  <1>2. CASE Boot
    BY <1>2, BootFacts DEF CacheInv, InUse, Scanning, Data
  <1>3. CASE /\ buf' = Record(Wanted) /\ Compare(Record(Wanted), Wanted)
             /\ UNCHANGED <<disc, pc>>
    <2>1. Record(crec)' = Record(Wanted)
      BY <1>1, <1>3 DEF Record
    <2>2. Near'
      BY <1>3, <2>1 DEF Near
    <2>3. Record(Wanted) \in Buffers
      BY <1>1, RecordType
    <2>4. CASE Wanted >= CKS
      <3>1. ~(Wanted < CKS)
        BY <1>1, <2>4, CacheAssumption, Sizes DEF Recs
      <3> QED BY <1>1, <1>3, <2>2, <3>1 DEF CacheInv, Fill, MustFill, Scan, Scanning
    <2>5. CASE ~(Wanted >= CKS) /\ ctx \in login
      <3>1. ctx \notin rdonly' => csv[ctx][Wanted] = Sum(Record(Wanted)) /\ csv' = csv
        BY <1>3, <2>5 DEF Compare
      <3>2. (InUse /\ crec < CKS /\ ctx \notin rdonly => csv[ctx][crec] = Sum(Record(crec)))'
        BY <1>1, <2>1, <3>1 DEF Sum
      <3> QED BY <1>3, <2>2, <3>2, <1>1 DEF CacheInv, Fill, MustFill, Scan, Scanning
    <2>6. CASE ~(Wanted >= CKS) /\ ctx \notin login
      <3>1. csv' = [csv EXCEPT ![ctx][Wanted] = Sum(Record(Wanted))]
        BY <1>3, <2>6 DEF Compare
      <3>2. csv'[ctx][Wanted] = Sum(Record(Wanted))
        BY <1>1, <2>3, <3>1, ChecksumType
      <3>3. (InUse /\ crec < CKS /\ ctx \notin rdonly => csv[ctx][crec] = Sum(Record(crec)))'
        BY <1>1, <2>1, <3>2 DEF Sum
      <3> QED BY <1>3, <2>2, <3>3, <1>1 DEF CacheInv, Fill, MustFill, Scan, Scanning
    <2> QED BY <2>4, <2>5, <2>6
  <1> QED BY <1>2, <1>3 DEF Fill, Abandon, NoneIgnored

\* The record that is written is the cached one, and it is in use.
LEMMA WriteFacts ==
    ASSUME Data, Control, CleanInv, CacheInv, Flush
    PROVE  InUse /\ Near /\ (crec < CKS /\ ctx \notin rdonly => csv[ctx][crec] = Sum(Record(crec)))
  <1>1. InUse
    BY DEF Flush, MustFlush, Scan, CleanInv, Refused, InUse
  <1> QED BY <1>1 DEF CacheInv

\* After a write the record on the disc is the cached one.
LEMMA WrittenRecord ==
    ASSUME NoneIgnored, Data, Transferred, UNCHANGED <<media, crec, ctx>>
    PROVE  Record(crec)' = buf
  <1>1. crec \in Recs /\ buf \in Buffers /\ media[ctx] \in Discs
    BY DEF Data
  <1>2. \A m \in Discs, s \in Slots :
          disc'[m][s] = IF m = media[ctx] /\ s \div EPR = crec THEN buf[s % EPR] ELSE disc[m][s]
    BY TransferFacts DEF Transferred, NoneIgnored
  <1>3. ASSUME NEW i \in 0 .. EPR - 1
        PROVE  disc'[media[ctx]][crec * EPR + i] = buf[i]
    <2>1. crec * EPR + i \in Slots /\ (crec * EPR + i) \div EPR = crec /\ (crec * EPR + i) % EPR = i
      BY <1>1, PlaceFacts
    <2> QED BY <1>1, <1>2, <2>1
  <1>4. Record(crec)' = [i \in 0 .. EPR - 1 |-> disc'[media[ctx]][crec * EPR + i]]
    BY DEF Record
  <1>5. Record(crec)' = [i \in 0 .. EPR - 1 |-> buf[i]]
    BY <1>3, <1>4
  <1> QED BY <1>1, <1>5 DEF Buffers

LEMMA FlushCache ==
    ASSUME NoneIgnored, Data, Control, CleanInv, CacheInv, Flush
    PROVE  CacheInv'
  <1>1. CASE Boot
    BY <1>1, BootFacts DEF CacheInv, InUse, Scanning, Data
  <1>2. CASE Transferred /\ Settled /\ UNCHANGED <<cok, rdonly, pc, call>>
    <2>1. UNCHANGED <<media, buf, crec, ctx>> /\ crec \in Recs /\ buf \in Buffers
      BY DEF Flush, Data
    <2>5. Record(crec)' = buf
      BY <1>2, <2>1, WrittenRecord
    <2>6. Near'
      BY <2>1, <2>5 DEF Near
    <2>7. crec < CKS => csv'[ctx][crec] = Sum(buf)
      <3>1. crec < CKS => ~(crec >= CKS)
        BY <2>1, CacheAssumption, Sizes DEF Recs
      <3> QED BY <1>2, <2>1, <3>1, ChecksumType DEF Settled, Baseline
    <2>8. (InUse /\ crec < CKS /\ ctx \notin rdonly => csv[ctx][crec] = Sum(Record(crec)))'
      BY <2>1, <2>5, <2>7 DEF Sum
    <2>9. pc' # "context"
      BY <1>2, WriteFacts DEF InUse, Scanning
    <2> QED BY <2>6, <2>8, <2>9 DEF CacheInv
  <1> QED BY <1>1, <1>2 DEF Flush, WriteBack, Abandon

LEMMA ExamineCache ==
    ASSUME Data, Control, CacheInv, Examine
    PROVE  CacheInv'
  <1>1. /\ pos \in Slots /\ crec = pos \div EPR /\ InUse
        /\ UNCHANGED <<media, disc, crec, ctx, rdonly, csv>>
    BY ExamineFacts DEF InUse
  <1>2. CASE UNCHANGED buf /\ (Step \/ Leave)
    <2>1. (pc' = pc /\ call' = call) \/ pc' = "idle"
      BY <1>2 DEF Step, Leave
    <2> QED BY <1>1, <1>2, <2>1, SameRecord DEF InUse, Scanning
  <1>3. ASSUME NEW e \in Entries, Put(e), {Entry.name, e.name} \subseteq Named \cup {NoName},
               pc' \in {"flush", "pass"}, call' = call
        PROVE  CacheInv'
    <2>1. \A i \in 0 .. EPR - 1 : buf'[i] = IF i = pos % EPR THEN e ELSE buf[i]
      BY <1>1, <1>3, PutType
    <2>2. Record(crec)' = Record(crec) /\ Named' = Named
      BY <1>1, <1>3 DEF Record, Named
    <2>3. Near /\ Entry = buf[pos % EPR]
      BY <1>1 DEF CacheInv, Entry
    <2>4. ASSUME NEW i \in 0 .. EPR - 1
          PROVE  \/ buf'[i] = Record(crec)[i]
                 \/ {buf'[i].name, Record(crec)[i].name} \subseteq Named \cup {NoName}
      BY <1>3, <2>1, <2>3 DEF Near
    <2>5. Near'
      BY <2>2, <2>4 DEF Near
    <2>6. (InUse /\ crec < CKS /\ ctx \notin rdonly => csv[ctx][crec] = Sum(Record(crec)))'
      BY <1>1, <2>2 DEF CacheInv, Sum
    <2> QED BY <1>3, <2>5, <2>6 DEF CacheInv
  <1> QED BY <1>1, <1>2, <1>3, ExamineFacts DEF Go

LEMMA CacheStep ==
    ASSUME NoneIgnored, Data, Control, CleanInv, CacheInv, Next
    PROVE  CacheInv'
  <1>1. ASSUME pc' = "idle" PROVE CacheInv'
    BY <1>1 DEF CacheInv, InUse, Scanning
  <1>2. ASSUME NEW c, Begin(c) PROVE CacheInv'
    <2>1. pc' = "context" /\ dirty' = dirty /\ (cok' => dirty)
      BY <1>2 DEF Begin, Enter, Data
    <2> QED BY <2>1 DEF CacheInv, InUse, Scanning
  <1>3. CASE Request
    BY <1>1, <1>2, <1>3 DEF Request, ResetDrives
  <1>4. CASE BootCall
    BY <1>1, <1>2, <1>4 DEF BootCall, ResetDrives
  <1>5. CASE Protect \/ Swap
    BY <1>1, <1>5 DEF Protect, Swap
  <1>6. ASSUME Proceed PROVE pc' # "context" /\ (pc' = "idle" \/ call' = call)
    BY <1>6 DEF Proceed, Boot, Leave, Go
  <1>7. CASE Active
    <2>1. cok' = FALSE
      BY <1>7 DEF Active, CacheInv, CleanInv, Refused, Data
    <2> QED BY <1>6, <1>7, <2>1 DEF Active, CacheInv, InUse
  <1>8. CASE Activate
    BY <1>8 DEF Activate, CacheInv, InUse, Go, Leave
  <1>9. CASE Exhausted
    <2>1. UNCHANGED <<media, disc, buf, crec, cok, ctx, rdonly, csv>> /\ pc \in Scanning
      BY <1>9 DEF Exhausted
    <2>2. pc' # "context" /\ (pc' = "idle" \/ call' = call)
      BY <1>6, <1>9 DEF Exhausted, Go, Leave, PassedAll
    <2> QED BY <2>1, <2>2, SameRecord DEF InUse, Scanning
  <1>10. CASE Done
    <2>1. UNCHANGED <<media, disc, buf, crec, cok, ctx, rdonly, csv>> /\ pc = "flush"
      BY <1>10 DEF Done
    <2>2. pc' # "context" /\ (pc' = "idle" \/ call' = call)
      BY <1>10 DEF Done, Go, Leave
    <2> QED BY <2>1, <2>2, SameRecord DEF InUse, Scanning
  <1> QED BY <1>3, <1>4, <1>5, <1>7, <1>8, <1>9, <1>10, FillCache, FlushCache, ExamineCache
          DEF Next, Code

LEMMA CacheInductive ==
    ASSUME ReadOnly = {}, NRecs > 1, NoneIgnored
    PROVE  Spec => [](Data /\ Control /\ CleanInv /\ CacheInv)
  <1>1. Init => CleanInv /\ CacheInv
    BY DEF Init, CleanInv, CacheInv, InUse, Scanning
  <1>2. Data /\ Control /\ CleanInv /\ CacheInv /\ [Next]_vars => (CleanInv /\ CacheInv)'
    <2> SUFFICES ASSUME Data, Control, CleanInv, CacheInv, [Next]_vars PROVE CleanInv' /\ CacheInv'
      OBVIOUS
    <2>1. CASE UNCHANGED vars
      <3>1. CleanInv'
        BY <2>1 DEF vars, CleanInv, Refused
      <3>2. Record(crec)' = Record(crec) /\ Named' = Named
        BY <2>1 DEF vars, Record, Named
      <3>3. CacheInv'
        BY <2>1, <3>2 DEF vars, CacheInv, InUse, Near, Sum
      <3> QED BY <3>1, <3>3
    <2> QED BY <2>1, CleanStep, CacheStep
  <1> QED BY <1>1, <1>2, Inductive, PTL DEF Spec

\* Who changes a directory.
LEMMA Writer ==
    ASSUME Next, disc' # disc
    PROVE  Flush /\ Transferred /\ ctx \notin rdonly
  <1>1. Flush
    BY DEF Next, Code, Request, Begin, ResetDrives, Protect, Swap, BootCall, Active,
       Activate, Fill,
       Abandon, Examine, Exhausted, Done
  <1> QED BY <1>1 DEF Flush, WriteBack, Abandon

\* Whatever discs the operator puts into the drives between two calls and
\* whatever transfers he aborts, a write to a directory changes no entry but
\* those that the call in progress names (unified.mac, UB_STANDARD drops a clean
\* cache, UB_DIRFLUSH writes a changed one before its call ends).
THEOREM OnlyNamedChange ==
    ASSUME ReadOnly = {}, NRecs > 1, NoneIgnored
    PROVE  Spec => OnlyNamedEntriesChange
  <1> DEFINE P == \A m \in Discs, s \in Slots :
                    disc'[m][s] # disc[m][s] =>
                      {disc[m][s].name, disc'[m][s].name} \subseteq Named \cup {NoName}
  <1>1. Data /\ Control /\ CleanInv /\ CacheInv /\ [Next]_vars => [P]_vars
    <2> SUFFICES ASSUME Data, Control, CleanInv, CacheInv, Next,
                        NEW m \in Discs, NEW s \in Slots, disc'[m][s] # disc[m][s]
                 PROVE  {disc[m][s].name, disc'[m][s].name} \subseteq Named \cup {NoName}
      OBVIOUS
    <2>1. Flush /\ Transferred
      BY Writer
    <2>2. disc'[m][s] = IF m = media[ctx] /\ s \div EPR = crec THEN buf[s % EPR] ELSE disc[m][s]
      BY <2>1, TransferFacts DEF Transferred, NoneIgnored
    <2>3. m = media[ctx] /\ s \div EPR = crec /\ disc'[m][s] = buf[s % EPR]
      BY <2>2
    <2>4. s % EPR \in 0 .. EPR - 1 /\ crec * EPR + (s % EPR) = s /\ crec \in Recs
      BY <2>3, SlotFacts
    <2>5. Record(crec)[s % EPR] = disc[m][s]
      BY <2>3, <2>4, RecordType
    <2> QED BY <2>1, <2>3, <2>4, <2>5, WriteFacts DEF Near
  <1>2. Spec => [](Data /\ Control /\ CleanInv /\ CacheInv)
    BY CacheInductive
  <1> QED BY <1>1, <1>2, PTL DEF Spec, OnlyNamedEntriesChange

\* A directory record is overwritten only if it is on the disc as the BDOS has
\* read or written it last: the checksums are true of what is overwritten
\* (unified.mac, UB_CSUM and UB_DIRFLUSH).
THEOREM OnlyKnownOverwritten ==
    ASSUME ReadOnly = {}, NRecs > 1, NoneIgnored, CKS = NRecs
    PROVE  Spec => OnlyKnownRecordsOverwritten
  <1>1. Data /\ Control /\ CleanInv /\ CacheInv /\ [Next]_vars
          => [disc' # disc => csv[ctx][crec] = Sum(Record(crec))]_vars
    <2> SUFFICES ASSUME Data, Control, CleanInv, CacheInv, Next, disc' # disc
                 PROVE  csv[ctx][crec] = Sum(Record(crec))
      OBVIOUS
    <2>1. crec < CKS
      BY Sizes DEF Data, Recs
    <2> QED BY <2>1, Writer, WriteFacts
  <1>2. Spec => [](Data /\ Control /\ CleanInv /\ CacheInv)
    BY CacheInductive
  <1> QED BY <1>1, <1>2, PTL DEF Spec, OnlyKnownRecordsOverwritten

-----------------------------------------------------------------------------
(* Passes reach every entry                                                *)

\* The entries of the active drive as a pass sees them, the cached record
\* before the disc; and those that it has no more to do with.
Seen(s) == IF cok /\ crec = s \div EPR THEN buf[s % EPR] ELSE disc[media[ctx]][s]
Gone(s) == Seen(s).name \notin call.names \ {call.to}

Renaming == call.op \in {"delete", "rename"}
PassInv ==
    /\ InUse /\ ~dirty => buf = Record(crec)
    /\ pc \in {"pass", "flush"} /\ Renaming =>
         \A s \in Slots : (pc = "pass" => s < pos) => Gone(s)

\* A clean record shows what is on the disc.
LEMMA SeenOnDisc ==
    ASSUME Data, cok => buf = Record(crec), NEW s \in Slots
    PROVE  Seen(s) = disc[media[ctx]][s]
  <1>1. CASE cok /\ crec = s \div EPR
    <2>1. crec \in Recs /\ s % EPR \in 0 .. EPR - 1 /\ crec * EPR + (s % EPR) = s
      BY <1>1, SlotFacts
    <2>2. Record(crec)[s % EPR] = disc[media[ctx]][s]
      BY <2>1, RecordType
    <2> QED BY <1>1, <2>2 DEF Seen
  <1> QED BY <1>1 DEF Seen

LEMMA FillSeen ==
    ASSUME NoneIgnored, Data, Control, PassInv, Fill, ~Boot
    PROVE  /\ buf' = Record(crec)' /\ cok' = TRUE /\ UNCHANGED <<pc, call, pos, dirty>>
           /\ \A s \in Slots : Seen(s)' = Seen(s)
  <1>1. /\ pos \in Slots /\ crec' = Wanted /\ Wanted \in Recs /\ UNCHANGED <<media, disc, ctx>>
        /\ buf' = Record(Wanted) /\ cok' = TRUE /\ UNCHANGED <<pc, call, pos, dirty>>
    BY WantedType DEF Fill, MustFill, Scan, Abandon, NoneIgnored
  <1>2. Record(crec)' = Record(Wanted)
    BY <1>1 DEF Record
  <1>3. cok => ~dirty /\ pc \in Scanning
    BY DEF Fill, MustFill, MustFlush, Hit, Scan
  <1>4. cok => buf = Record(crec)
    BY <1>3 DEF PassInv, InUse
  <1>5. ASSUME NEW s \in Slots PROVE Seen(s)' = Seen(s)
    <2>1. Seen(s) = disc[media[ctx]][s]
      BY <1>4, SeenOnDisc
    <2>2. CASE Wanted = s \div EPR
      <3>1. s % EPR \in 0 .. EPR - 1 /\ Wanted * EPR + (s % EPR) = s
        BY <2>2, SlotFacts
      <3>2. Record(Wanted)[s % EPR] = disc[media[ctx]][s]
        BY <1>1, <3>1, RecordType
      <3>3. Seen(s)' = buf'[s % EPR]
        BY <1>1, <2>2 DEF Seen
      <3> QED BY <1>1, <2>1, <3>2, <3>3
    <2>3. CASE Wanted # s \div EPR
      <3>1. Seen(s)' = disc[media[ctx]][s]
        BY <1>1, <2>3 DEF Seen
      <3> QED BY <2>1, <3>1
    <2> QED BY <2>2, <2>3
  <1> QED BY <1>1, <1>2, <1>5

LEMMA FlushSeen ==
    ASSUME NoneIgnored, Data, Control, CleanInv, Flush, ~Boot
    PROVE  /\ buf' = Record(crec)' /\ UNCHANGED <<pc, call, pos>>
           /\ \A s \in Slots : Seen(s)' = Seen(s)
  <1>1. /\ Transferred /\ cok /\ UNCHANGED <<media, buf, crec, cok, ctx, pc, call, pos>>
    BY DEF Flush, MustFlush, Scan, WriteBack, Abandon, CleanInv, Refused
  <1>2. Record(crec)' = buf
    BY <1>1, WrittenRecord
  <1>3. media[ctx] \in Discs
    BY DEF Data
  <1>4. \A s \in Slots : disc'[media[ctx]][s] = IF s \div EPR = crec THEN buf[s % EPR] ELSE disc[media[ctx]][s]
    BY <1>1, <1>3, TransferFacts DEF Transferred, NoneIgnored
  <1>5. ASSUME NEW s \in Slots PROVE Seen(s)' = Seen(s)
    BY <1>1, <1>4 DEF Seen
  <1> QED BY <1>1, <1>2, <1>5

\* What a pass makes of an entry that it looks at, it need not look at again.
LEMMA PassedGone ==
    ASSUME Data, Control, Examine, pc = "pass", Renaming
    PROVE  pc' = "idle" \/ (/\ UNCHANGED <<pc, call>> /\ pos' = pos + 1
                            /\ \A s \in Slots : IF s = pos THEN Gone(s)' ELSE Seen(s)' = Seen(s))
  <1>1. /\ pos \in Slots /\ crec = pos \div EPR /\ cok
        /\ UNCHANGED <<media, disc, crec, cok, ctx>>
    BY ExamineFacts
  <1>2. ASSUME NEW s \in Slots, s = pos
        PROVE  Seen(s) = Entry /\ Seen(s)' = buf'[s % EPR]
    BY <1>1, <1>2 DEF Seen, Entry
  <1>3. Matches(Entry) <=> Entry.name \in call.names
    BY DEF Matches
  <1>4. CASE Passed /\ Step /\ UNCHANGED buf
    <2>1. Entry.name \notin call.names
      BY <1>3, <1>4 DEF Passed
    <2>2. \A s \in Slots : Seen(s)' = Seen(s)
      BY <1>1, <1>4 DEF Seen
    <2>3. UNCHANGED <<pc, call>> /\ pos' = pos + 1
      BY <1>4 DEF Step
    <2>4. ASSUME NEW s \in Slots, s = pos PROVE Gone(s)'
      <3>1. Seen(s)' = Entry
        BY <1>2, <2>2, <2>4
      <3> QED BY <2>1, <2>3, <3>1 DEF Gone
    <2> QED BY <2>2, <2>3, <2>4
  <1>5. CASE ~Passed /\ Put(Changed(Entry)) /\ pos' = pos + 1 /\ UNCHANGED <<pc, call>>
    <2>1. Matches(Entry)
      BY <1>5 DEF Passed
    <2>2. Changed(Entry) \in Entries /\ call.names \subseteq Names
      BY <1>1, <2>1, EntryFacts DEF Control, CallInv, Calls
    <2>3. \A i \in 0 .. EPR - 1 : buf'[i] = IF i = pos % EPR THEN Changed(Entry) ELSE buf[i]
      BY <1>1, <1>5, <2>2, PutType
    <2>4. Changed(Entry).name \notin call.names \ {call.to}
      <3>1. CASE call.op = "delete"
        BY <2>2, <3>1, FormatAssumption DEF Changed, Free
      <3>2. CASE call.op = "rename"
        <4>1. Changed(Entry) = [Entry EXCEPT !.name = call.to]
          BY <3>2 DEF Changed
        <4>2. Entry \in Entries
          BY <1>1, EntryFacts
        <4>3. Changed(Entry).name = call.to
          BY <4>1, <4>2 DEF Entries, Free
        <4> QED BY <4>3
      <3> QED BY <3>1, <3>2 DEF Renaming
    <2>5. ASSUME NEW s \in Slots, s = pos PROVE Gone(s)'
      <3>1. s % EPR \in 0 .. EPR - 1
        BY SlotFacts
      <3>2. Seen(s)' = Changed(Entry)
        BY <1>2, <2>3, <2>5, <3>1
      <3> QED BY <1>5, <2>4, <3>2 DEF Gone
    <2>6. ASSUME NEW s \in Slots, s # pos PROVE Seen(s)' = Seen(s)
      <3>1. s % EPR \in 0 .. EPR - 1 /\ (s \div EPR) * EPR + (s % EPR) = s
        BY SlotFacts
      <3>2. (pos \div EPR) * EPR + (pos % EPR) = pos
        BY <1>1, SlotFacts
      <3>3. s \div EPR = crec => s % EPR # pos % EPR
        BY <1>1, <2>6, <3>1, <3>2
      <3> QED BY <1>1, <2>3, <3>1, <3>3 DEF Seen
    <2> QED BY <1>5, <2>5, <2>6
  <1>6. CASE Leave
    BY <1>6 DEF Leave
  <1> QED BY <1>4, <1>5, <1>6 DEF Examine

LEMMA PassStep ==
    ASSUME NoneIgnored, Data, Control, CleanInv, CacheInv, PassInv, Next
    PROVE  PassInv'
  <1>1. ASSUME pc' \in {"idle", "context"} PROVE PassInv'
    BY <1>1 DEF PassInv, InUse, Scanning
  <1>2. ASSUME NEW c, Begin(c) PROVE PassInv'
    BY <1>1, <1>2 DEF Begin
  <1>3. CASE Request \/ BootCall
    BY <1>1, <1>2, <1>3 DEF Request, BootCall, ResetDrives
  <1>4. CASE Protect \/ Swap
    BY <1>1, <1>4 DEF Protect, Swap
  <1>5. Control'
    BY ControlStep DEF Data
  <1>6. ASSUME pc' = "pass", pos' = 0 PROVE \A s \in Slots : (pc' = "pass" => s < pos') => Gone(s)'
    BY <1>6, Sizes DEF Slots
  <1>7. Proceed => pc' # "flush" /\ (pc' = "pass" => pos' = 0)
    BY DEF Proceed, Boot, Leave, Go
  <1>8. CASE Active
    <2>1. cok' = FALSE
      BY <1>8 DEF Active, CacheInv, CleanInv, Refused, Data
    <2> QED BY <1>6, <1>7, <1>8, <2>1 DEF Active, PassInv, InUse
  <1>9. CASE Activate
    BY <1>9 DEF Activate, PassInv, InUse, Go, Leave
  <1>10. ASSUME buf' = Record(crec)', UNCHANGED <<pc, call, pos>>, \A s \in Slots : Seen(s)' = Seen(s)
         PROVE  PassInv'
    <2>1. \A s \in Slots : Gone(s) => Gone(s)'
      BY <1>10 DEF Gone
    <2> QED BY <1>10, <2>1 DEF PassInv, Renaming
  <1>11. CASE Boot
    BY <1>1, <1>11 DEF Boot, Leave
  <1>12. CASE Fill /\ ~Boot
    BY <1>10, <1>12, FillSeen
  <1>13. CASE Flush /\ ~Boot
    BY <1>10, <1>13, FlushSeen
  <1>14. CASE Examine
    <2>1. /\ pos \in Slots /\ cok /\ pc \in Scanning /\ UNCHANGED <<media, disc, crec, cok, ctx>>
      BY <1>14, ExamineFacts
    <2>2. (InUse /\ ~dirty => buf = Record(crec))'
      <3>1. CASE UNCHANGED <<buf, dirty>>
        <4>1. Record(crec)' = Record(crec)
          BY <2>1 DEF Record
        <4> QED BY <2>1, <3>1, <4>1 DEF PassInv, InUse
      <3>2. CASE \E e \in Entries : Put(e)
        BY <3>2 DEF Put
      <3> QED BY <1>14, <3>1, <3>2, ExamineFacts
    <2>3. CASE pc = "pass" /\ Renaming /\ pc' # "idle"
      <3>1. /\ UNCHANGED <<pc, call>> /\ pos' = pos + 1
            /\ \A s \in Slots : IF s = pos THEN Gone(s)' ELSE Seen(s)' = Seen(s)
        BY <1>14, <2>3, PassedGone
      <3>2. ASSUME NEW s \in Slots, s < pos' PROVE Gone(s)'
        <4>1. CASE s = pos
          BY <3>1, <4>1
        <4>2. CASE s # pos
          <5>1. s < pos
            BY <2>1, <3>1, <3>2, <4>2, Sizes DEF Slots
          <5>2. Gone(s)
            BY <2>3, <5>1 DEF PassInv
          <5> QED BY <3>1, <4>2, <5>2 DEF Gone
        <4> QED BY <4>1, <4>2
      <3> QED BY <2>2, <2>3, <3>1, <3>2 DEF PassInv
    <2>4. CASE ~(pc = "pass" /\ Renaming /\ pc' # "idle")
      <3>1. ~((pc \in {"pass", "flush"} /\ Renaming)')
        <4>1. CASE Step
          BY <2>1, <2>4, <4>1 DEF Step, Renaming, Scanning
        <4>2. CASE Leave
          BY <4>2 DEF Leave
        <4>3. CASE pc \in {"find", "free"} /\ Go("flush")
          BY <4>3 DEF Go, Control, CallInv, Renaming
        <4>4. CASE pc = "pass" /\ UNCHANGED <<pc, call>>
          BY <2>4, <4>4 DEF Renaming
        <4> QED BY <1>14, <4>1, <4>2, <4>3, <4>4, ExamineFacts
      <3> QED BY <2>2, <3>1 DEF PassInv
    <2> QED BY <2>3, <2>4
  <1>15. CASE Exhausted
    <2>1. UNCHANGED <<media, disc, buf, crec, cok, dirty, ctx>> /\ pc \in Scanning /\ pos \notin Slots
      BY <1>15 DEF Exhausted
    <2>2. (InUse /\ ~dirty => buf = Record(crec))'
      <3>1. Record(crec)' = Record(crec)
        BY <2>1 DEF Record
      <3> QED BY <2>1, <3>1 DEF PassInv, InUse
    <2>3. CASE pc = "pass" /\ Go("flush")
      <3>1. \A s \in Slots : s < pos
        BY <2>1, Sizes DEF Control, Slots
      <3>2. call' = call /\ \A s \in Slots : Seen(s)' = Seen(s)
        BY <2>1, <2>3 DEF Seen, Go
      <3>3. Renaming' => \A s \in Slots : Gone(s)'
        BY <2>3, <3>1, <3>2 DEF PassInv, Renaming, Gone
      <3> QED BY <2>2, <3>3 DEF PassInv
    <2>4. CASE pc' # "flush" /\ (pc' = "pass" => pos' = 0)
      BY <1>6, <2>2, <2>4 DEF PassInv
    <2> QED BY <1>7, <1>15, <2>3, <2>4 DEF Exhausted, PassedAll, Go, Leave
  <1>16. CASE Done
    <2>1. UNCHANGED <<media, disc, buf, crec, cok, dirty, ctx>> /\ pc = "flush"
      BY <1>16 DEF Done
    <2>2. Record(crec)' = Record(crec)
      BY <2>1 DEF Record
    <2>3. pc' \in {"idle", "relogin"}
      BY <1>16 DEF Done, Go, Leave
    <2> QED BY <2>1, <2>2, <2>3 DEF PassInv, InUse
  <1> QED BY <1>3, <1>4, <1>8, <1>9, <1>11, <1>12, <1>13, <1>14, <1>15, <1>16 DEF Next, Code

\* When Delete or Rename has ended its pass, no entry of the name is left,
\* whatever discs were exchanged before and although only one record at a
\* time is in the cache (unified.mac, UB_DPASS and UB_NPASS).
THEOREM PassesComplete ==
    ASSUME ReadOnly = {}, NRecs > 1, NoneIgnored
    PROVE  Spec => PassesAreComplete
  <1> DEFINE I == Data /\ Control /\ CleanInv /\ CacheInv
             P == pc = "flush" /\ pc' # pc /\ todo' = <<>> /\ call.op \in {"delete", "rename"} =>
                    \A s \in Slots : disc[media[ctx]][s].name \notin call.names \ {call.to}
  <1>1. Spec => []I
    BY CacheInductive
  <1>2. Init => PassInv
    BY DEF Init, PassInv, InUse, Scanning
  <1>3. I /\ PassInv /\ [Next]_vars => PassInv'
    <2> SUFFICES ASSUME I, PassInv, [Next]_vars PROVE PassInv'
      OBVIOUS
    <2>1. CASE UNCHANGED vars
      <3>1. Record(crec)' = Record(crec) /\ \A s \in Slots : Gone(s)' = Gone(s)
        BY <2>1 DEF vars, Record, Gone, Seen
      <3> QED BY <2>1, <3>1 DEF vars, PassInv, InUse, Renaming
    <2> QED BY <2>1, PassStep
  <1>4. I /\ PassInv /\ [Next]_vars => [P]_vars
    <2> SUFFICES ASSUME I, PassInv, Next, pc = "flush", pc' # pc, todo' = <<>>, Renaming,
                        NEW s \in Slots
                 PROVE  disc[media[ctx]][s].name \notin call.names \ {call.to}
      BY DEF Renaming
    <2>1. ~dirty
      <3>1. ~Boot
        BY BootFacts DEF Data
      <3>2. Done
        BY <3>1 DEF Next, Code, Request, Begin, ResetDrives, Protect, Swap, BootCall, Active, Activate,
                    Fill, MustFill, Scan, Scanning, Abandon, Flush, WriteBack, Examine, Hit, Exhausted
      <3> QED BY <3>2 DEF Done
    <2>2. cok => buf = Record(crec)
      BY <2>1 DEF PassInv, InUse
    <2>3. Gone(s)
      BY DEF PassInv
    <2> QED BY <2>2, <2>3, SeenOnDisc DEF Gone
  <1> HIDE DEF I, P
  <1>5. Spec => [][P]_vars
    BY <1>1, <1>2, <1>3, <1>4, PTL DEF Spec
  <1> QED BY <1>5 DEF P, PassesAreComplete

-----------------------------------------------------------------------------
(* No drive is protected for nothing                                       *)

\* A record of the disc in a drive, and whether its checksum is true.
OnDisc(d, r) == [i \in 0 .. EPR - 1 |-> disc[media[d]][r * EPR + i]]
Known(d, r) == r < CKS => csv[d][r] = Sum(OnDisc(d, r))

\* While discs stay where they are, the checksums of a drive that is logged in
\* are true, and those of the drive being logged in as far as the scan has come.
SumsInv ==
    /\ \A d, e \in Drives : d # e => media[d] # media[e]
    /\ ~exchanged =>
         /\ \A d \in login, r \in Recs : Known(d, r)
         /\ pc = "login" => \A r \in Recs : r * EPR < pos \/ (cok /\ crec = r) => Known(ctx, r)

LEMMA RecordStart ==
    ASSUME NEW r \in Recs
    PROVE  r * EPR \in Slots /\ (r * EPR) \div EPR = r
  <1>1. r \in Nat /\ 0 \in 0 .. EPR - 1
    BY Sizes DEF Recs
  <1>2. r * EPR \in Nat
    BY <1>1, Sizes, SMT
  <1>3. r * EPR + 0 \in Slots /\ (r * EPR + 0) \div EPR = r
    BY <1>1, PlaceFacts
  <1>4. r * EPR + 0 = r * EPR
    BY <1>2
  <1> QED BY <1>3, <1>4

LEMMA SameSums ==
    ASSUME UNCHANGED <<media, disc, csv>>
    PROVE  \A d, r : Known(d, r)' = Known(d, r)
  BY DEF Known, OnDisc

\* A record that is read is compared with its checksum or sets it.
LEMMA FillSums ==
    ASSUME NoneIgnored, Data, Fill, ~Boot, ctx \in login => Known(ctx, Wanted)
    PROVE  /\ crec' = Wanted /\ rdonly' = rdonly /\ UNCHANGED <<media, ctx, login, pc, pos>>
           /\ \A d \in Drives, r \in Recs :
                Known(d, r) \/ (d = ctx /\ r = Wanted) => Known(d, r)'
  <1>1. /\ pos \in Slots /\ crec' = Wanted /\ Wanted \in Recs /\ Compare(Record(Wanted), Wanted)
        /\ UNCHANGED <<media, disc, ctx, login, pc, pos>>
    BY WantedType DEF Fill, MustFill, Scan, Abandon, NoneIgnored
  <1>2. Record(Wanted) \in Buffers /\ Record(Wanted) = OnDisc(ctx, Wanted)
    BY <1>1, RecordType DEF Record, OnDisc
  <1>3. \A d, r : OnDisc(d, r)' = OnDisc(d, r)
    BY <1>1 DEF OnDisc
  <1>4. CASE Wanted >= CKS
    <2>1. ~(Wanted < CKS)
      BY <1>1, <1>4, CacheAssumption, Sizes DEF Recs
    <2>2. UNCHANGED <<csv, rdonly>>
      BY <1>1, <1>4 DEF Compare
    <2>3. \A d, r : Known(d, r)' = Known(d, r)
      BY <1>3, <2>2 DEF Known
    <2> QED BY <1>1, <2>1, <2>2, <2>3 DEF Known
  <1>5. CASE ~(Wanted >= CKS) /\ ctx \in login
    <2>1. Wanted < CKS
      BY <1>1, <1>5, CacheAssumption, Sizes DEF Recs
    <2>2. UNCHANGED <<csv, rdonly>>
      BY <1>1, <1>2, <1>5, <2>1 DEF Compare, Known
    <2>3. \A d, r : Known(d, r)' = Known(d, r)
      BY <1>3, <2>2 DEF Known
    <2> QED BY <1>1, <1>5, <2>2, <2>3
  <1>6. CASE ~(Wanted >= CKS) /\ ctx \notin login
    <2>1. csv' = [csv EXCEPT ![ctx][Wanted] = Sum(Record(Wanted))] /\ UNCHANGED rdonly
      BY <1>1, <1>6 DEF Compare
    <2>2. \A d \in Drives, r \in Recs :
            csv'[d][r] = IF d = ctx /\ r = Wanted THEN OnDisc(ctx, Wanted) ELSE csv[d][r]
      BY <1>2, <2>1 DEF Data, Sum
    <2>3. ctx \in Drives
      BY DEF Data
    <2>4. ASSUME NEW d \in Drives, NEW r \in Recs, Known(d, r) \/ (d = ctx /\ r = Wanted)
          PROVE  Known(d, r)'
      BY <1>3, <2>2, <2>4 DEF Known, Sum
    <2> QED BY <1>1, <2>1, <2>4
  <1> QED BY <1>4, <1>5, <1>6

\* A record that is written sets its checksum.
LEMMA FlushSums ==
    ASSUME NoneIgnored, Data, Flush, ~Boot, \A d, e \in Drives : d # e => media[d] # media[e]
    PROVE  /\ UNCHANGED <<media, crec, cok, ctx, login, rdonly, pc, pos>>
           /\ \A d \in Drives, r \in Recs : Known(d, r) => Known(d, r)'
  <1>1. /\ Transferred /\ Baseline(buf, crec)
        /\ UNCHANGED <<media, buf, crec, cok, ctx, login, rdonly, pc, pos>>
    BY DEF Flush, WriteBack, Settled, Abandon
  <1>2. ctx \in Drives /\ crec \in Recs /\ buf \in Buffers
    BY DEF Data
  <1>3. Record(crec)' = buf
    BY <1>1, WrittenRecord
  <1>4. OnDisc(ctx, crec)' = buf
    BY <1>3 DEF Record, OnDisc
  <1>5. \A m \in Discs, s \in Slots :
          disc'[m][s] = IF m = media[ctx] /\ s \div EPR = crec THEN buf[s % EPR] ELSE disc[m][s]
    BY <1>1, TransferFacts DEF Transferred, NoneIgnored
  <1>6. ASSUME NEW d \in Drives, NEW r \in Recs, d # ctx \/ r # crec
        PROVE  OnDisc(d, r)' = OnDisc(d, r)
    <2>1. media[d] \in Discs /\ (d # ctx => media[d] # media[ctx])
      BY <1>2 DEF Data
    <2>2. \A i \in 0 .. EPR - 1 : r * EPR + i \in Slots /\ (r * EPR + i) \div EPR = r
      BY PlaceFacts
    <2>3. \A i \in 0 .. EPR - 1 : disc'[media[d]][r * EPR + i] = disc[media[d]][r * EPR + i]
      BY <1>5, <1>6, <2>1, <2>2
    <2> QED BY <1>1, <2>3 DEF OnDisc
  <1>7. \A d \in Drives, r \in Recs : d # ctx \/ r # crec => csv'[d][r] = csv[d][r]
    BY <1>1, <1>2 DEF Baseline, Data
  <1>8. crec < CKS => csv'[ctx][crec] = buf
    <2>1. crec < CKS => ~(crec >= CKS)
      BY <1>2, CacheAssumption, Sizes DEF Recs
    <2> QED BY <1>1, <1>2, <2>1 DEF Baseline, Data, Sum
  <1>10. ASSUME NEW d \in Drives, NEW r \in Recs, Known(d, r) PROVE Known(d, r)'
    <2>1. CASE d = ctx /\ r = crec
      <3>1. OnDisc(d, r)' = buf
        BY <1>1, <1>4, <2>1 DEF OnDisc
      <3> QED BY <1>8, <2>1, <3>1 DEF Known, Sum
    <2>2. CASE d # ctx \/ r # crec
      BY <1>6, <1>7, <1>10, <2>2 DEF Known
    <2> QED BY <2>1, <2>2
  <1> QED BY <1>1, <1>10

LEMMA SumsStep ==
    ASSUME NoneIgnored, Data, Control, SumsInv, SteadyNext
    PROVE  SumsInv'
  <1>1. (\A d, e \in Drives : d # e => media[d] # media[e])'
    <2>1. CASE Swap
      BY <2>1 DEF Swap
    <2>2. media' = media \/ Swap
      BY DEF SteadyNext, Next, Code, Request, Begin, ResetDrives, Protect, BootCall, Active, Activate,
             Fill, Flush, Examine, Exhausted, Done
    <2> QED BY <2>1, <2>2 DEF SumsInv
  <1> SUFFICES ASSUME ~exchanged'
               PROVE  /\ \A d \in login', r \in Recs : Known(d, r)'
                      /\ pc' = "login" => \A r \in Recs : r * EPR < pos' \/ (cok' /\ crec' = r) => Known(ctx, r)'
    BY <1>1 DEF SumsInv
  <1>2. /\ Next /\ UNCHANGED media
        /\ \A d \in login, r \in Recs : Known(d, r)
        /\ pc = "login" => \A r \in Recs : r * EPR < pos \/ (cok /\ crec = r) => Known(ctx, r)
        /\ \A d, e \in Drives : d # e => media[d] # media[e]
    BY DEF SteadyNext, SumsInv
  <1>3. ASSUME UNCHANGED <<disc, csv>>, login' \subseteq login, pc' # "login"
        PROVE  /\ \A d \in login', r \in Recs : Known(d, r)'
               /\ pc' # "login"
    BY <1>2, <1>3, SameSums
  <1>4. ASSUME NEW c, Begin(c) PROVE UNCHANGED <<disc, csv>> /\ login' \subseteq login /\ pc' # "login"
    BY <1>4 DEF Begin, Forget
  <1>5. CASE Request \/ BootCall
    BY <1>3, <1>4, <1>5 DEF Request, BootCall, ResetDrives, Forget
  <1>6. CASE Protect \/ Swap
    BY <1>3, <1>6 DEF Protect, Swap
  <1>7. Proceed => pc' # "login"
    BY DEF Proceed, Boot, Leave, Go
  <1>8. CASE Active
    BY <1>3, <1>7, <1>8 DEF Active
  <1>9. CASE Activate
    <2>1. pc' = "login" => pos' = 0 /\ cok' = FALSE
      BY <1>9 DEF Activate, Go, Leave
    <2>2. \A r \in Recs : ~(r * EPR < 0)
      BY Sizes, RecordStart DEF Slots
    <2>3. UNCHANGED <<disc, csv, login>>
      BY <1>9 DEF Activate
    <2> QED BY <1>2, <2>1, <2>2, <2>3, SameSums
  <1>10. CASE (Fill \/ Flush) /\ Boot
    <2>1. pc' = "idle" /\ pc # "idle"
      BY <1>10 DEF Fill, MustFill, Flush, MustFlush, Scan, Scanning, Boot, Leave
    <2>2. UNCHANGED <<disc, csv, login>>
      BY <1>10, <2>1 DEF Fill, Flush, WriteBack, Abandon
    <2> QED BY <1>3, <2>1, <2>2
  <1>11. CASE Fill /\ ~Boot
    <2>1. Wanted \in Recs /\ ctx \in Drives /\ login \subseteq Drives
      BY <1>11, WantedType DEF Fill, MustFill, Scan, Data
    <2>2. /\ crec' = Wanted /\ UNCHANGED <<ctx, login, pc, pos>>
          /\ \A d \in Drives, r \in Recs : Known(d, r) \/ (d = ctx /\ r = Wanted) => Known(d, r)'
      BY <1>2, <1>11, <2>1, FillSums
    <2>3. ASSUME pc = "login", NEW r \in Recs, r * EPR < pos \/ crec' = r PROVE Known(ctx, r)'
      <3>1. PICK d \in Drives : d = ctx
        BY <2>1
      <3>2. Known(d, r)'
        BY <1>2, <2>2, <2>3, <3>1
      <3>3. ctx' = d
        BY <2>2, <3>1
      <3> QED BY <3>2, <3>3 DEF Known, OnDisc
    <2> QED BY <1>2, <2>1, <2>2, <2>3
  <1>12. CASE Flush /\ ~Boot
    <2>1. ctx \in Drives /\ login \subseteq Drives
      BY DEF Data
    <2>2. /\ UNCHANGED <<crec, cok, ctx, login, pc, pos>>
          /\ \A d \in Drives, r \in Recs : Known(d, r) => Known(d, r)'
      BY <1>2, <1>12, FlushSums
    <2>3. ASSUME pc = "login", NEW r \in Recs, r * EPR < pos \/ (cok /\ crec = r) PROVE Known(ctx, r)'
      <3>1. PICK d \in Drives : d = ctx
        BY <2>1
      <3>2. Known(d, r)'
        BY <1>2, <2>2, <2>3, <3>1
      <3>3. ctx' = d
        BY <2>2, <3>1
      <3> QED BY <3>2, <3>3 DEF Known, OnDisc
    <2> QED BY <1>2, <2>1, <2>2, <2>3
  <1>13. CASE Examine
    <2>1. /\ pos \in Slots /\ cok /\ crec = pos \div EPR
          /\ UNCHANGED <<disc, csv, ctx, login, crec, cok>>
      BY <1>13, ExamineFacts
    <2>2. pc' = "login" => pc = "login" /\ pos' = pos + 1
      BY <1>13, ExamineFacts DEF Step, Leave, Go
    <2>3. ASSUME NEW r \in Recs, r * EPR < pos + 1 PROVE r * EPR < pos \/ crec = r
      <3>1. r * EPR \in Slots /\ (r * EPR) \div EPR = r
        BY RecordStart
      <3>2. r * EPR < pos \/ r * EPR = pos
        BY <2>1, <2>3, <3>1, Sizes DEF Slots
      <3> QED BY <2>1, <3>1, <3>2
    <2> QED BY <1>2, <2>1, <2>2, <2>3, SameSums
  <1>14. CASE Exhausted
    <2>1. UNCHANGED <<disc, csv, ctx>> /\ pos \notin Slots
      BY <1>14 DEF Exhausted
    <2>2. CASE pc = "login"
      <3>1. ASSUME NEW r \in Recs PROVE r * EPR < pos
        <4>1. r * EPR \in Slots
          BY RecordStart
        <4> QED BY <2>1, <4>1, Sizes DEF Slots, Control
      <3>2. pc' # "login" /\ login' = login \cup {ctx}
        BY <1>7, <1>14, <2>2 DEF Exhausted
      <3> QED BY <1>2, <2>1, <2>2, <3>1, <3>2, SameSums
    <2>3. CASE pc # "login"
      <3>1. login' = login /\ pc' # "login"
        BY <1>14, <2>3 DEF Exhausted, PassedAll, Go, Leave
      <3> QED BY <1>3, <2>1, <3>1
    <2> QED BY <2>2, <2>3
  <1>15. CASE Done
    BY <1>3, <1>15 DEF Done, Go, Leave
  <1> QED BY <1>2, <1>5, <1>6, <1>8, <1>9, <1>10, <1>11, <1>12, <1>13, <1>14, <1>15 DEF Next, Code

\* Without a change of disc no call ever finds a reason to protect a drive:
\* the checksums follow the BDOS's own writes and outlast the use of other
\* drives (unified.mac, UB_CSUM and UB_SETCSUM).
THEOREM NoneProtectedForNothing ==
    ASSUME NoneIgnored
    PROVE  SteadySpec => NoFalseProtection
  <1> DEFINE P == ~exchanged /\ pc # "idle" => rdonly' \subseteq rdonly
  <1>1. SteadyInit => Data /\ Control /\ SumsInv
    <2> SUFFICES ASSUME SteadyInit PROVE Data /\ Control /\ SumsInv
      OBVIOUS
    <2>1. Data /\ Control
      BY TypeInit DEF SteadyInit
    <2> QED BY <2>1 DEF SteadyInit, Init, SumsInv
  <1>2. Data /\ Control /\ SumsInv /\ [SteadyNext]_steadyVars => (Data /\ Control /\ SumsInv)'
    <2> SUFFICES ASSUME Data, Control, SumsInv, [SteadyNext]_steadyVars
                 PROVE  (Data /\ Control /\ SumsInv)'
      OBVIOUS
    <2>1. Data' /\ Control'
      BY TypeStep DEF SteadyNext, steadyVars
    <2>2. CASE UNCHANGED steadyVars
      <3>1. \A d, r : Known(d, r)' = Known(d, r)
        BY <2>2, SameSums DEF steadyVars, vars
      <3> QED BY <2>1, <2>2, <3>1 DEF steadyVars, vars, SumsInv
    <2> QED BY <2>1, <2>2, SumsStep
  <1>3. Data /\ Control /\ SumsInv /\ [SteadyNext]_steadyVars => [P]_steadyVars
    <2> SUFFICES ASSUME Data, Control, SumsInv, SteadyNext, ~exchanged, pc # "idle"
                 PROVE  rdonly' \subseteq rdonly
      BY DEF P
    <2>1. CASE Fill /\ ~Boot
      <3>1. Wanted \in Recs
        BY <2>1, WantedType DEF Fill, MustFill, Scan
      <3> QED BY <2>1, <3>1, FillSums DEF SumsInv
    <2>2. CASE Boot /\ (Fill \/ Flush)
      <3>1. pc' = "idle"
        BY <2>2 DEF Boot, Leave
      <3> QED BY <2>2, <3>1 DEF Fill, Flush, WriteBack, Abandon
    <2>3. CASE ~Fill
      BY <2>3 DEF SteadyNext, Next, Code, Request, Begin, ResetDrives, Forget, Protect, Swap, BootCall,
             Active, Activate, Flush, WriteBack, Settled, Abandon, Examine, Exhausted, Done
    <2> QED BY <2>1, <2>2, <2>3
  <1> HIDE DEF P
  <1>4. SteadySpec => [][P]_steadyVars
    BY <1>1, <1>2, <1>3, PTL DEF SteadySpec
  <1> QED BY <1>4 DEF P, NoFalseProtection
=============================================================================
