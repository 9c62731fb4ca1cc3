--------------------------- MODULE DiskEngine_proofs ---------------------------
(***************************************************************************)
(* For every set of drives, cylinders, slots, values and requests: the     *)
(* engine keeps the caller's buffer and the remembered position, fails     *)
(* only after three faults, and implements a disc of records.              *)
(***************************************************************************)
EXTENDS DiskEngine, TLAPS

\* The sector with the record that is to be written.
Stored == [before EXCEPT ![request.slot] = request.value]

\* Errors that more attempts do not help against.
Hopeless ==
    \/ command = "write" /\ Drive \in Protected
    \/ command = "read" /\ before = Damaged

\* The position before and during an attempt, and the faults that it took.
Seeking == {"select", "restore", "seek", "same", "transfer"}
PositionInv ==
    /\ pc = "idle" <=> request = NoRequest
    /\ pc \in {"restore", "seek", "same", "transfer", "moved"} => last = Drive
    /\ pc \in {"seek", "moved"} => head[Drive] = lastCyl
    /\ pc = "transfer" => lastCyl = Cyl /\ track = Id(Drive, Cyl)
    /\ pc \in {"same", "transfer"} =>
          \/ head[Drive] = lastCyl
          \/ lastCyl = Cyl /\ (Hopeless \/ faults > Tries - tries)
    /\ pc \in {"idle", "select", "failed", "done"} /\ last \in Drives => head[last] = lastCyl

CountInv ==
    /\ pc \in Seeking => Hopeless \/ faults >= Tries - tries
    /\ pc = "moved" => error = "none"
    /\ pc = "failed" => error # "none" /\ (Hopeless \/ faults > Tries - tries)
    /\ pc = "failed" /\ error = "protected" => Hopeless
    /\ pc = "done" /\ error # "none" => Hopeless \/ faults = Tries

\* The sector and the buffer while a request is worked on.
DataInv ==
    pc # "idle" =>
        /\ command = "read" => Logical(request.place) = before
        /\ command = "write" =>
              /\ request.op = "write" /\ before # Damaged
              /\ Logical(request.place) \in {before, Stored, Damaged}
              /\ buf = IF pc = "done" THEN Stored ELSE Inverted(Drive, Stored)
        /\ pc \in {"moved", "done"} /\ error = "none" =>
              IF command = "read" THEN before # Damaged /\ buf = before
                                  ELSE Logical(request.place) = Stored

-----------------------------------------------------------------------------
(* Sectors and their complements *)

LEMMA RequestFields ==
    ASSUME NEW r \in Requests
    PROVE  /\ r.op \in {"read", "write"} /\ r.place \in Places
           /\ r.place[1] \in Drives /\ r.place[2] \in Cylinders
           /\ r.place = <<r.place[1], r.place[2]>>
           /\ r.slot \in Slots /\ r.value \in Values /\ r # NoRequest
  BY EngineAssumption DEF Places, NoRequest

LEMMA InvertedSector ==
    ASSUME NEW d, NEW s \in Sector
    PROVE  /\ Inverted(d, s) \in Sector
           /\ Inverted(d, Inverted(d, s)) = s
           /\ Inverted(d, s) = Damaged <=> s = Damaged
  <1> DEFINE neg == [i \in Slots |-> -s[i]]
  <1>0. \A b \in Bytes : b \in Int /\ -b \in Bytes /\ -(-b) = b /\ (-b = 0 <=> b = 0)
    BY EngineAssumption DEF Bytes
  <1>1. s \in [Slots -> Bytes] BY DEF Sector
  <1>2. neg \in [Slots -> Bytes] BY <1>0, <1>1
  <1>3. [i \in Slots |-> -neg[i]] = s
    <2>1. \A i \in Slots : -neg[i] = s[i] BY <1>0, <1>1
    <2> QED BY <2>1, <1>1
  <1>4. neg = Damaged <=> s = Damaged
    <2>1. ASSUME neg = Damaged PROVE s = Damaged
      <3>1. \A i \in Slots : s[i] = 0
        <4> TAKE i \in Slots
        <4>1. neg[i] = 0 BY <2>1 DEF Damaged
        <4> QED BY <4>1, <1>0, <1>1
      <3> QED BY <3>1, <1>1 DEF Damaged
    <2>2. ASSUME s = Damaged PROVE neg = Damaged
      <3>1. \A i \in Slots : neg[i] = 0
        <4> TAKE i \in Slots
        <4>1. s[i] = 0 BY <2>2 DEF Damaged
        <4> QED BY <4>1
      <3> QED BY <3>1 DEF Damaged
    <2> QED BY <2>1, <2>2
  <1>5. CASE d \in Inverting
    <2>1. Inverted(d, s) = neg BY <1>5 DEF Inverted
    <2>2. Inverted(d, neg) = [i \in Slots |-> -neg[i]] BY <1>5 DEF Inverted
    <2> HIDE DEF neg
    <2> QED BY <2>1, <2>2, <1>2, <1>3, <1>4 DEF Sector
  <1>6. CASE d \notin Inverting
    BY <1>6 DEF Inverted
  <1> QED BY <1>5, <1>6

LEMMA DamagedSector == Damaged \in Sector
  BY DEF Damaged, Sector, Bytes

LEMMA SectorExcept ==
    ASSUME NEW s \in Sector, NEW i \in Slots, NEW v \in Values
    PROVE  [s EXCEPT ![i] = v] \in Sector
  BY DEF Sector, Bytes

-----------------------------------------------------------------------------
(* Types *)

LEMMA TypeInit == Init => TypeOK
  <1> SUFFICES ASSUME Init PROVE TypeOK
    OBVIOUS
  <1> DEFINE fresh == [s \in Slots |-> Formatted]
  <1>1. fresh \in Sector
    BY EngineAssumption DEF Sector, Bytes
  <1>2. \A p \in Places : Inverted(p[1], fresh) \in Sector
    BY <1>1, InvertedSector
  <1>3. disc \in [Places -> Sector]
    BY <1>2 DEF Init
  <1>4. track \in 0 .. LastCyl + 1 /\ lastCyl \in Cylinders
    BY EngineAssumption DEF Init, Cylinders
  <1> QED BY <1>3, <1>4, DamagedSector, EngineAssumption DEF Init, TypeOK, Tries, Done

LEMMA Faulty ==
    ASSUME faults \in 0 .. Tries, Fault
    PROVE  /\ faults' \in 0 .. Tries
           /\ faults' >= faults
           /\ \A n \in 1 .. Tries : faults >= Tries - n => faults' > Tries - n
  BY DEF Fault, Tries

\* What a request in progress gives.
LEMMA Working ==
    ASSUME TypeOK, PositionInv, pc # "idle"
    PROVE  /\ request \in Requests
           /\ request.place \in Places /\ request.place = <<Drive, Cyl>>
           /\ Drive \in Drives /\ Cyl \in Cylinders
           /\ request.op \in {"read", "write"}
           /\ request.slot \in Slots /\ request.value \in Values
  BY RequestFields DEF TypeOK, PositionInv, Drive, Cyl

\* The transfer meets the sector that was asked for.
LEMMA RightSector ==
    ASSUME TypeOK, PositionInv, pc = "transfer", Found
    PROVE  Here = request.place /\ head[Drive] = lastCyl
  <1>1. Drive \in Drives /\ Cyl \in Cylinders /\ request.place = <<Drive, Cyl>>
    BY Working
  <1>2. head[Drive] \in Cylinders
    BY <1>1 DEF TypeOK
  <1>3. head[Drive] = Cyl
    BY <1>1, <1>2, EngineAssumption DEF PositionInv, Found, Id, Cylinders
  <1> QED BY <1>1, <1>3 DEF Here, PositionInv

LEMMA TypeStep == TypeOK /\ PositionInv /\ [Next]_vars => TypeOK'
  <1> SUFFICES ASSUME TypeOK, PositionInv, [Next]_vars PROVE TypeOK'
    OBVIOUS
  <1>w. pc # "idle" => /\ request \in Requests /\ request.place \in Places
                      /\ Drive \in Drives /\ Cyl \in Cylinders
                      /\ request.op \in {"read", "write"}
                      /\ request.slot \in Slots /\ request.value \in Values
    BY Working
  <1>c. CASE Call
    <2>1. request' \in Requests /\ before' = Logical(request'.place)
      BY <1>c DEF Call
    <2>2. request'.place \in Places
      BY <2>1, RequestFields
    <2>3. before' \in Sector
      BY <2>1, <2>2, InvertedSector DEF Logical, TypeOK
    <2>4. calls' \in 0 .. MaxCalls
      BY <1>c, EngineAssumption DEF Call, TypeOK
    <2> QED BY <1>c, <2>1, <2>3, <2>4 DEF Call, TypeOK, position, Tries
  <1>d. CASE Deliver
    <2>1. Inverted(Drive, Filled) \in Sector
      <3>1. Filled \in Sector
        BY <1>d, <1>w, SectorExcept DEF Deliver, Filled, TypeOK
      <3> QED BY <3>1, InvertedSector
    <2>2. answer' \in Bytes \cup {Done, Failed}
      <3>1. \A i \in Slots : buf[i] \in Bytes
        BY DEF TypeOK, Sector
      <3> QED BY <3>1, <1>d, <1>w DEF Deliver, Return, TypeOK
    <2> QED BY <1>d, <2>1, <2>2 DEF Deliver, Return, TypeOK, position, Tries
  <1>r. CASE Retry
    BY <1>r DEF Retry, TypeOK, Tries
  <1>f. CASE Finish
    <2>1. Inverted(Drive, buf) \in Sector
      BY InvertedSector DEF TypeOK
    <2> QED BY <1>f, <2>1 DEF Finish, TypeOK, position
  <1>s. CASE Select
    <2>1. faults' \in 0 .. Tries
      BY <1>s, Faulty DEF Select, Lost, TypeOK
    <2> QED BY <1>s, <1>w, <2>1 DEF Select, Lost, TypeOK
  <1>o. CASE Restore
    <2>1. faults' \in 0 .. Tries
      BY <1>o, Faulty DEF Restore, Lost, TypeOK
    <2>2. head' \in [Drives -> Cylinders]
      <3>1. Drive \in Drives /\ head[Drive] \in Cylinders
        BY <1>o, <1>w DEF Restore, TypeOK
      <3>2. 0 \in Cylinders /\ \A c \in 0 .. head[Drive] : c \in Cylinders
        BY <3>1, EngineAssumption DEF Cylinders
      <3> QED BY <1>o, <3>1, <3>2 DEF Restore, TypeOK
    <2>3. 0 \in Cylinders
      BY EngineAssumption DEF Cylinders
    <2> QED BY <1>o, <2>1, <2>2, <2>3 DEF Restore, Lost, TypeOK
  <1>k. CASE SeekTo
    <2>1. faults' \in 0 .. Tries
      BY <1>k, Faulty DEF SeekTo, Lost, TypeOK
    <2>2. Drive \in Drives /\ Cyl \in Cylinders /\ head[Drive] \in Cylinders
      BY <1>k, <1>w DEF SeekTo, TypeOK
    <2>3. Stepped(head[Drive] + Cyl - lastCyl) \in Cylinders
      BY <2>2, EngineAssumption DEF Stepped, Cylinders, TypeOK
    <2>4. head' \in [Drives -> Cylinders]
      BY <1>k, <2>2, <2>3 DEF SeekTo, TypeOK
    <2>5. \A c \in Cylinders : c \in 0 .. LastCyl + 1
      BY EngineAssumption DEF Cylinders
    <2> QED BY <1>k, <2>1, <2>2, <2>4, <2>5 DEF SeekTo, Lost, TypeOK
  <1>i. CASE Same
    <2>1. Cyl \in Cylinders
      BY <1>i, <1>w DEF Same
    <2>2. Id(Drive, Cyl) \in 0 .. LastCyl + 1
      BY <2>1, EngineAssumption DEF Id, Cylinders
    <2> QED BY <1>i, <2>2 DEF Same, TypeOK
  <1>n. CASE NoData
    <2>1. faults' \in 0 .. Tries
      BY <1>n, Faulty DEF NoData, TypeOK
    <2>h. Found => Here \in Places /\ disc[Here] \in Sector
      BY <1>n, <1>w, RightSector DEF NoData, TypeOK
    <2>2. buf' \in Sector
      BY <1>n, <2>h DEF NoData, TypeOK, Sector
    <2>3. disc' \in [Places -> Sector]
      BY <1>n, <2>h, DamagedSector DEF NoData, TypeOK
    <2> QED BY <1>n, <2>1, <2>2, <2>3 DEF NoData, TypeOK
  <1>b. CASE BadStatus
    <2>1. faults' \in 0 .. Tries
      BY <1>b, Faulty DEF BadStatus, TypeOK
    <2>h. Here \in Places /\ disc[Here] \in Sector
      BY <1>b, <1>w, RightSector DEF BadStatus, TypeOK
    <2>2. buf' \in Sector
      <3>1. \A bytes \in [Slots -> {disc[Here][s] : s \in Slots} \cup {0}] : bytes \in Sector
        BY <2>h DEF Sector, Bytes
      <3> QED BY <1>b, <3>1 DEF BadStatus, TypeOK
    <2>3. disc' \in [Places -> Sector]
      BY <1>b, <2>h, DamagedSector DEF BadStatus, TypeOK
    <2> QED BY <1>b, <2>1, <2>2, <2>3 DEF BadStatus, TypeOK, position
  <1>m. CASE Move
    <2>h. Here \in Places /\ disc[Here] \in Sector
      BY <1>m, <1>w, RightSector DEF Move, TypeOK
    <2>1. Inverted(Drive, disc[Here]) \in Sector
      BY <2>h, InvertedSector
    <2>2. disc' \in [Places -> Sector] /\ buf' \in Sector
      BY <1>m, <2>1 DEF Move, TypeOK
    <2> QED BY <1>m, <2>2 DEF Move, TypeOK, position
  <1>u. CASE UNCHANGED vars
    BY <1>u DEF vars, position, TypeOK
  <1> QED BY <1>c, <1>d, <1>r, <1>f, <1>s, <1>o, <1>k, <1>i, <1>n, <1>b, <1>m, <1>u DEF Next, Engine

-----------------------------------------------------------------------------
(* Positions and faults *)

LEMMA PositionInit == Init => PositionInv /\ CountInv
  BY EngineAssumption DEF Init, PositionInv, CountInv, Seeking

LEMMA PositionStep == TypeOK /\ PositionInv /\ CountInv /\ [Next]_vars => PositionInv'
  <1> SUFFICES ASSUME TypeOK, PositionInv, CountInv, [Next]_vars PROVE PositionInv'
    OBVIOUS
  <1>w. pc # "idle" => request \in Requests /\ Drive \in Drives /\ Cyl \in Cylinders
    BY Working
  <1>q. request' = request => Drive' = Drive /\ Cyl' = Cyl
    BY DEF Drive, Cyl
  <1>t. tries \in 1 .. Tries /\ faults \in 0 .. Tries /\ head \in [Drives -> Cylinders]
        /\ lastCyl \in Cylinders /\ Untrusted \notin Drives
    BY EngineAssumption DEF TypeOK
  <1>h. UNCHANGED <<command, request, before>> => Hopeless' = Hopeless
    BY DEF Hopeless, Drive, Damaged
  <1>c. CASE Call
    <2>1. request' # NoRequest
      BY <1>c, RequestFields DEF Call
    <2> QED BY <1>c, <2>1 DEF Call, position, PositionInv
  <1>d. CASE Deliver
    <2>1. request \in Requests /\ request # NoRequest
      BY <1>d, <1>w, RequestFields DEF Deliver
    <2> QED BY <1>d, <2>1 DEF Deliver, Return, position, PositionInv
  <1>r. CASE Retry
    BY <1>r, <1>t DEF Retry, PositionInv
  <1>f. CASE Finish
    <2>1. pc = "moved" => last = Drive /\ head[Drive] = lastCyl
      BY DEF PositionInv
    <2>2. last \in Drives => head[last] = lastCyl
      BY <1>f, <2>1 DEF Finish, PositionInv
    <2> QED BY <1>f, <2>2 DEF Finish, position, PositionInv
  <1>s. CASE Select
    <2>1. last = Drive => head[Drive] = lastCyl
      BY <1>s, <1>w DEF Select, PositionInv
    <2> QED BY <1>s, <1>q, <1>t, <2>1 DEF Select, Lost, PositionInv
  <1>o. CASE Restore
    <2>1. pc' = "seek" => head'[Drive] = 0 /\ last' = Drive
      BY <1>o, <1>w, <1>t DEF Restore, Lost, PositionInv
    <2> QED BY <1>o, <1>q, <1>t, <2>1 DEF Restore, Lost, PositionInv
  <1>k. CASE SeekTo
    <2>1. Drive \in Drives /\ Cyl \in Cylinders /\ head[Drive] = lastCyl /\ last = Drive
      BY <1>k, <1>w DEF SeekTo, PositionInv
    <2>2. Stepped(head[Drive] + Cyl - lastCyl) = Cyl
      BY <2>1, <1>t, EngineAssumption DEF Stepped, Cylinders
    <2>3. CASE pc' = "failed"
      BY <1>k, <1>q, <1>t, <2>3 DEF SeekTo, Lost, PositionInv
    <2>4. CASE pc' = "same" /\ head' = [head EXCEPT ![Drive] = Stepped(@ + Cyl - lastCyl)]
      <3>1. head'[Drive] = Cyl /\ lastCyl' = Cyl
        BY <1>k, <1>t, <2>1, <2>2, <2>4 DEF SeekTo, Lost
      <3> QED BY <1>k, <1>q, <2>1, <2>4, <3>1 DEF SeekTo, Lost, PositionInv
    <2>5. CASE pc' = "same" /\ Fault
      <3>1. pc = "seek" /\ lastCyl' = Cyl /\ last' = last /\ tries' = tries
            /\ UNCHANGED <<command, request, before>>
        BY <1>k, <2>5 DEF SeekTo, Lost
      <3>2. Hopeless \/ faults' > Tries - tries
        BY <3>1, <2>5, <1>t, Faulty DEF CountInv, Seeking
      <3> QED BY <3>1, <3>2, <2>1, <2>5, <1>h, <1>q DEF PositionInv
    <2> QED BY <1>k, <2>3, <2>4, <2>5 DEF SeekTo, Lost
  <1>i. CASE Same
    <2>1. Cyl' = Cyl /\ Drive' = Drive
      BY <1>i, <1>q DEF Same
    <2>2. Id(Drive, Cyl)' = Id(Drive, Cyl)
      BY <2>1 DEF Id
    <2> QED BY <1>i, <1>h, <2>1, <2>2 DEF Same, PositionInv
  <1>n. CASE NoData
    BY <1>n, <1>t DEF NoData, PositionInv
  <1>b. CASE BadStatus
    <2>1. head[Drive] = lastCyl
      BY <1>b, RightSector DEF BadStatus
    <2> QED BY <1>b, <2>1 DEF BadStatus, position, PositionInv
  <1>m. CASE Move
    <2>1. head[Drive] = lastCyl
      BY <1>m, RightSector DEF Move
    <2> QED BY <1>m, <1>q, <2>1 DEF Move, position, PositionInv
  <1>u. CASE UNCHANGED vars
    <2>1. Id(Drive, Cyl)' = Id(Drive, Cyl) /\ Drive' = Drive /\ Cyl' = Cyl
      BY <1>u DEF vars, Id, Drive, Cyl
    <2> QED BY <1>u, <1>h, <2>1 DEF vars, position, PositionInv
  <1> QED BY <1>c, <1>d, <1>r, <1>f, <1>s, <1>o, <1>k, <1>i, <1>n, <1>b, <1>m, <1>u DEF Next, Engine

LEMMA CountStep ==
    TypeOK /\ PositionInv /\ CountInv /\ DataInv /\ [Next]_vars => CountInv'
  <1> SUFFICES ASSUME TypeOK, PositionInv, CountInv, DataInv, [Next]_vars PROVE CountInv'
    OBVIOUS
  <1>t. tries \in 1 .. Tries /\ faults \in 0 .. Tries
    BY DEF TypeOK
  <1>h. UNCHANGED <<command, request, before>> => Hopeless' = Hopeless
    BY DEF Hopeless, Drive, Damaged
  <1>f. Fault => /\ faults' \in 0 .. Tries /\ faults' >= faults
                /\ (faults >= Tries - tries => faults' > Tries - tries)
    BY Faulty, <1>t
  <1>1. CASE Call
    BY <1>1 DEF Call, CountInv, Seeking, Tries
  <1>2. CASE Deliver
    BY <1>2, <1>h DEF Deliver, Return, CountInv, Seeking, Tries
  <1>3. CASE Retry
    BY <1>3, <1>h, <1>t DEF Retry, CountInv, Seeking, Tries
  <1>4. CASE Finish
    <2>1. pc = "failed" /\ tries = 1 => Hopeless \/ faults = Tries
      BY <1>t DEF CountInv, Tries
    <2> QED BY <1>4, <1>h, <2>1 DEF Finish, CountInv, Seeking
  <1>5. CASE Select
    BY <1>5, <1>h, <1>f, <1>t DEF Select, Lost, CountInv, Seeking
  <1>6. CASE Restore
    BY <1>6, <1>h, <1>f, <1>t DEF Restore, Lost, CountInv, Seeking
  <1>7. CASE SeekTo
    <2>1. Hopeless \/ faults >= Tries - tries
      BY <1>7 DEF SeekTo, CountInv, Seeking
    <2>2. faults' = faults \/ Fault
      BY <1>7 DEF SeekTo, Lost
    <2>3. Hopeless \/ faults' >= Tries - tries
      BY <2>1, <2>2, <1>f, <1>t DEF Tries
    <2>4. UNCHANGED <<command, request, before, tries>>
      BY <1>7 DEF SeekTo
    <2>5. pc' = "same" \/ Lost
      BY <1>7 DEF SeekTo
    <2>6. pc' = "same" \/ (pc' = "failed" /\ error' = "lost" /\ Fault)
      BY <2>5 DEF Lost
    <2> QED BY <1>h, <1>f, <2>1, <2>6, <2>3, <2>4, <2>5 DEF CountInv, Seeking
  <1>8. CASE Same
    BY <1>8, <1>h DEF Same, CountInv, Seeking
  <1>9. CASE NoData
    <2>1. ~Found => Hopeless \/ faults > Tries - tries
      BY <1>9 DEF NoData, PositionInv, Found
    <2>2. command = "write" /\ Drive \in Protected => Hopeless
      BY DEF Hopeless
    <2>3. pc' = "failed" /\ error' = "lost" /\ tries' = tries
          /\ UNCHANGED <<command, request, before>>
      BY <1>9 DEF NoData
    <2>4. Hopeless \/ faults >= Tries - tries
      BY <1>9 DEF NoData, CountInv, Seeking
    <2>5. Hopeless \/ faults' > Tries - tries
      BY <1>9, <1>f, <2>1, <2>2, <2>4 DEF NoData
    <2> QED BY <1>h, <2>3, <2>5 DEF CountInv, Seeking
  <1>10. CASE BadStatus
    <2>1. command = "read" /\ disc[Here] = Damaged => before = Damaged
      <3>1. Here = request.place /\ request.place \in Places
        BY <1>10, RightSector, Working DEF BadStatus
      <3>2. disc[request.place] \in Sector
        BY <3>1 DEF TypeOK
      <3> QED BY <1>10, <3>1, <3>2, InvertedSector DEF BadStatus, DataInv, Logical
    <2>2. (command = "write" /\ Drive \in Protected) \/ (command = "read" /\ disc[Here] = Damaged)
            => Hopeless
      BY <2>1 DEF Hopeless
    <2>3. pc' = "failed" /\ error' # "none" /\ tries' = tries
          /\ UNCHANGED <<command, request, before>>
      BY <1>10 DEF BadStatus
    <2>4. Hopeless \/ faults >= Tries - tries
      BY <1>10 DEF BadStatus, CountInv, Seeking
    <2>5. Hopeless \/ faults' > Tries - tries
      BY <1>10, <1>f, <2>2, <2>4 DEF BadStatus
    <2>6. error' = "protected" => Hopeless
      BY <1>10, <2>2 DEF BadStatus
    <2> QED BY <1>h, <2>3, <2>5, <2>6 DEF CountInv, Seeking
  <1>11. CASE Move
    BY <1>11 DEF Move, CountInv, Seeking
  <1>12. CASE UNCHANGED vars
    BY <1>12, <1>h DEF vars, CountInv, Seeking
  <1> QED BY <1>1, <1>2, <1>3, <1>4, <1>5, <1>6, <1>7, <1>8, <1>9, <1>10, <1>11, <1>12 DEF Next, Engine

-----------------------------------------------------------------------------
(* Sectors and the buffer *)

LEMMA DataInit == Init => DataInv
  BY DEF Init, DataInv

\* The sectors after the one that was asked for has changed, or none has.
LEMMA Rewritten ==
    ASSUME TypeOK, NEW q \in Places, NEW s \in Sector, disc' = [disc EXCEPT ![q] = s]
    PROVE  \A p \in Places : Logical(p)' = IF p = q THEN Inverted(q[1], s) ELSE Logical(p)
  <1> TAKE p \in Places
  <1>1. disc'[p] = IF p = q THEN s ELSE disc[p]
    BY DEF TypeOK
  <1> QED BY <1>1 DEF Logical, Inverted

LEMMA DataStep ==
    TypeOK /\ PositionInv /\ CountInv /\ DataInv /\ [Next]_vars => DataInv'
  <1> SUFFICES ASSUME TypeOK, PositionInv, CountInv, DataInv, [Next]_vars PROVE DataInv'
    OBVIOUS
  <1>w. pc # "idle" => /\ request \in Requests /\ request.place \in Places
                      /\ request.place[1] = Drive /\ Drive \in Drives
                      /\ request.op \in {"read", "write"}
                      /\ request.slot \in Slots /\ request.value \in Values
    BY Working DEF Drive
  <1>q. UNCHANGED <<request, before>> => Drive' = Drive /\ Stored' = Stored
    BY DEF Drive, Stored
  <1>i. \A d, x : UNCHANGED <<request, before>> => Inverted(d, x)' = Inverted(d, x)
    BY DEF Inverted
  <1>l. UNCHANGED <<disc, request>> => Logical(request.place)' = Logical(request.place)
    BY DEF Logical, Inverted
  <1>s. pc # "idle" => Stored \in Sector
    BY <1>w, SectorExcept DEF Stored, TypeOK
  <1>1. CASE Call
    <2>1. Logical(request.place)' = Logical(request'.place)
      BY <1>1 DEF Call, Logical, Inverted
    <2> QED BY <1>1, <2>1 DEF Call, DataInv
  <1>2. CASE Deliver
    <2>1. CASE pc' = "idle"
      BY <2>1 DEF DataInv
    <2>2. CASE pc' # "idle"
      <3>1. /\ pc = "done" /\ error = "none" /\ request.op = "write" /\ command = "read"
            /\ command' = "write" /\ pc' = "select"
            /\ buf' = Inverted(Drive, Filled) /\ UNCHANGED <<request, before, disc>>
        BY <1>2, <2>2 DEF Deliver, Return
      <3>2. buf = before /\ before # Damaged /\ Logical(request.place) = before
        BY <3>1 DEF DataInv
      <3>3. Filled = Stored
        BY <3>2 DEF Filled, Stored
      <3>4. (Inverted(Drive, Stored))' = Inverted(Drive, Stored)
        BY <3>1, <1>q, <1>i DEF Inverted
      <3> QED BY <3>1, <3>2, <3>3, <3>4, <1>l DEF DataInv, Damaged
    <2> QED BY <2>1, <2>2
  <1>k. ASSUME /\ pc # "idle" /\ UNCHANGED <<disc, request, before, command>>
               /\ pc' \notin {"moved", "done"} /\ pc # "done"
               /\ command = "write" => buf' = buf
        PROVE  DataInv'
    <2>1. (Inverted(Drive, Stored))' = Inverted(Drive, Stored)
      BY <1>k, <1>q DEF Inverted
    <2>2. Damaged' = Damaged
      BY DEF Damaged
    <2> QED BY <1>k, <1>q, <1>l, <2>1, <2>2 DEF DataInv
  <1>3. CASE Retry
    BY <1>3, <1>k DEF Retry
  <1>4. CASE Finish
    <2>1. UNCHANGED <<disc, request, before, command, error>> /\ pc' = "done"
          /\ pc \in {"moved", "failed"}
      BY <1>4 DEF Finish, position
    <2>2. command = "write" => buf' = Stored
      <3>1. command = "write" => buf = Inverted(Drive, Stored)
        BY <2>1 DEF DataInv
      <3>2. Inverted(Drive, Inverted(Drive, Stored)) = Stored
        BY <1>s, <2>1, InvertedSector
      <3> QED BY <3>1, <3>2, <1>4 DEF Finish
    <2>3. command # "write" => buf' = buf
      BY <1>4 DEF Finish
    <2>4. error = "none" => pc = "moved"
      BY <2>1 DEF CountInv
    <2>5. Damaged' = Damaged
      BY DEF Damaged
    <2>6. command \in {"read", "write"}
      BY DEF TypeOK
    <2> QED BY <2>1, <2>2, <2>3, <2>4, <2>5, <2>6, <1>q, <1>l DEF DataInv
  <1>5. CASE Select
    BY <1>5, <1>k DEF Select, Lost
  <1>6. CASE Restore
    BY <1>6, <1>k DEF Restore, Lost
  <1>7. CASE SeekTo
    BY <1>7, <1>k DEF SeekTo, Lost
  <1>8. CASE Same
    BY <1>8, <1>k DEF Same
  <1>p. ASSUME pc = "transfer", pc' = "failed", command = "write",
               disc' = [disc EXCEPT ![request.place] = Damaged],
               UNCHANGED <<buf, request, before, command>>
        PROVE  DataInv'
    <2>1. request.place \in Places
      BY <1>p, <1>w
    <2>2. Logical(request.place)' = Inverted(request.place[1], Damaged)
      <3>1. Logical(request.place)' = Inverted(request.place[1], disc'[request.place])
        BY <1>p DEF Logical, Inverted
      <3>2. disc'[request.place] = Damaged
        BY <1>p, <2>1 DEF TypeOK
      <3> QED BY <3>1, <3>2
    <2>3. Inverted(request.place[1], Damaged) = Damaged
      BY InvertedSector, DamagedSector
    <2>4. (Inverted(Drive, Stored))' = Inverted(Drive, Stored)
      BY <1>p, <1>q DEF Inverted
    <2>5. Damaged' = Damaged
      BY DEF Damaged
    <2> QED BY <1>p, <1>q, <2>2, <2>3, <2>4, <2>5 DEF DataInv
  <1>9. CASE NoData
    <2>1. Found => Here = request.place
      BY <1>9, RightSector DEF NoData
    <2>2. CASE UNCHANGED disc
      BY <1>9, <2>2, <1>k DEF NoData
    <2>3. CASE disc' # disc
      BY <1>9, <2>1, <2>3, <1>p DEF NoData
    <2> QED BY <2>2, <2>3
  <1>10. CASE BadStatus
    <2>1. Here = request.place
      BY <1>10, RightSector DEF BadStatus
    <2>2. CASE UNCHANGED disc
      BY <1>10, <2>2, <1>k DEF BadStatus, position
    <2>3. CASE disc' # disc
      BY <1>10, <2>1, <2>3, <1>p DEF BadStatus, position
    <2> QED BY <2>2, <2>3
  <1>11. CASE Move
    <2>1. Here = request.place /\ request.place \in Places /\ pc = "transfer"
      BY <1>11, <1>w, RightSector DEF Move
    <2>2. /\ UNCHANGED <<request, before, command>> /\ pc' = "moved"
          /\ pc' \notin {"done", "idle"}
      BY <1>11 DEF Move
    <2>3. Damaged' = Damaged /\ (Inverted(Drive, Stored))' = Inverted(Drive, Stored)
      BY <2>2, <1>q DEF Damaged, Inverted
    <2>4. CASE command = "write"
      <3>1. disc' = [disc EXCEPT ![request.place] = buf] /\ buf' = buf
        BY <1>11, <2>1, <2>4 DEF Move
      <3>2. buf = Inverted(Drive, Stored) /\ buf \in Sector
        BY <2>1, <2>4 DEF DataInv, TypeOK
      <3>3. Logical(request.place)' = Inverted(request.place[1], buf)
        <4>1. Logical(request.place)' = Inverted(request.place[1], disc'[request.place])
          BY <2>2 DEF Logical, Inverted
        <4>2. disc'[request.place] = buf
          BY <3>1, <2>1 DEF TypeOK
        <4> QED BY <4>1, <4>2
      <3>4. Inverted(request.place[1], buf) = Stored
        BY <3>2, <1>w, <1>s, <2>1, InvertedSector
      <3> QED BY <2>1, <2>2, <2>3, <2>4, <3>1, <3>2, <3>3, <3>4, <1>q DEF DataInv
    <2>5. CASE command = "read"
      <3>1. buf' = Inverted(Drive, disc[request.place]) /\ UNCHANGED disc
            /\ disc[request.place] # Damaged
        BY <1>11, <2>1, <2>5 DEF Move
      <3>2. buf' = Logical(request.place)
        BY <2>1, <3>1, <1>w DEF Logical
      <3>3. Logical(request.place) = before
        BY <2>1, <2>5 DEF DataInv
      <3>4. before # Damaged
        <4>1. disc[request.place] \in Sector
          BY <2>1 DEF TypeOK
        <4>2. Inverted(Drive, disc[request.place]) # Damaged
          BY <3>1, <4>1, InvertedSector
        <4> QED BY <3>1, <3>2, <3>3, <4>2
      <3> QED BY <2>2, <2>3, <2>5, <3>1, <3>2, <3>3, <3>4, <1>l DEF DataInv
    <2> QED BY <2>4, <2>5 DEF TypeOK
  <1>12. CASE UNCHANGED vars
    <2>1. /\ UNCHANGED <<disc, request, before, command, buf, error, pc>>
      BY <1>12 DEF vars, position
    <2>2. Damaged' = Damaged /\ (Inverted(Drive, Stored))' = Inverted(Drive, Stored)
      BY <2>1, <1>q DEF Damaged, Inverted
    <2> QED BY <2>1, <2>2, <1>q, <1>l DEF DataInv
  <1> QED BY <1>1, <1>2, <1>3, <1>4, <1>5, <1>6, <1>7, <1>8, <1>9, <1>10, <1>11, <1>12 DEF Next, Engine

-----------------------------------------------------------------------------
(* Theorems *)

Inv == TypeOK /\ PositionInv /\ CountInv /\ DataInv

LEMMA Invariance == Spec => []Inv
  <1>1. Init => Inv
    BY TypeInit, PositionInit, DataInit DEF Inv
  <1>2. Inv /\ [Next]_vars => Inv'
    BY TypeStep, PositionStep, CountStep, DataStep DEF Inv
  <1> QED BY <1>1, <1>2, PTL DEF Spec

(* The types, for every set of drives, cylinders, records and requests;    *)
(* in particular the count of attempts never passes zero.                  *)
THEOREM TypeCorrect == Spec => []TypeOK
  <1>1. Inv => TypeOK BY DEF Inv
  <1> QED BY <1>1, Invariance, PTL

(* DC_IO inverts the buffer of a write once and DC_FINISH turns it back:   *)
(* the caller has its own bytes after every outcome.                       *)
THEOREM BufferComesBack == Spec => []CallerBufferKept
  <1>1. Inv => CallerBufferKept
    BY DEF Inv, DataInv, CallerBufferKept, Stored
  <1> QED BY <1>1, Invariance, PTL

(* DC_LAST and DC_LASTCYL are right between calls, for any number of       *)
(* drives with registers in common and any errors.                         *)
THEOREM PositionIsReal == Spec => []PositionTrusted
  <1>1. Inv => PositionTrusted
    BY DEF Inv, PositionInv, PositionTrusted
  <1> QED BY <1>1, Invariance, PTL

(* A call that fails has met three faults, a protected disc or a sector    *)
(* that was unreadable before: no error of an earlier call costs it one.   *)
THEOREM ThreeFaults == Spec => []FailureNeedsFaults
  <1>1. Inv => FailureNeedsFaults
    BY DEF Inv, CountInv, FailureNeedsFaults, Hopeless
  <1> QED BY <1>1, Invariance, PTL

-----------------------------------------------------------------------------
(* The disc of records *)

LEMMA MappedInit == Init => Disc!Init
  <1> SUFFICES ASSUME Init PROVE Disc!Init
    OBVIOUS
  <1> DEFINE fresh == [s \in Slots |-> Formatted]
  <1>1. fresh \in Sector
    BY EngineAssumption DEF Sector, Bytes
  <1>2. \A p \in Places : Logical(p) = fresh
    <2> TAKE p \in Places
    <2>1. disc[p] = Inverted(p[1], fresh)
      BY DEF Init
    <2> QED BY <2>1, <1>1, InvertedSector DEF Logical
  <1> HIDE DEF fresh
  <1>3. [p \in Places |-> Logical(p)] = [p \in Places |-> fresh]
    BY <1>2
  <1> QED BY <1>3 DEF Init, Disc!Init, Disc!NoRequest, Disc!Damaged, Disc!Done, NoRequest, Damaged,
                    Done, fresh

\* What a step means to the disc of records.
Recorded == [p \in Places |-> Logical(p)]

LEMMA MappedStep == Inv /\ Inv' /\ [Next]_vars => [Disc!Next]_(Disc!vars)
  <1> SUFFICES ASSUME Inv, Inv', [Next]_vars PROVE [Disc!Next]_(Disc!vars)
    OBVIOUS
  <1> USE DEF Inv
  <1>w. pc # "idle" => /\ request \in Requests /\ request.place \in Places
                      /\ request # NoRequest
                      /\ request.op \in {"read", "write"}
    BY Working, RequestFields
  <1>s. UNCHANGED disc => Recorded' = Recorded
    BY DEF Recorded, Logical, Inverted
  <1>u. UNCHANGED <<disc, request, before, answer>> => UNCHANGED Disc!vars
    BY <1>s DEF Disc!vars, Recorded
  <1>1. CASE Call
    <2>1. request = NoRequest
      BY <1>1 DEF Call, PositionInv
    <2>2. request' \in Requests /\ before' = Recorded[request'.place]
      BY <1>1, RequestFields DEF Call, Recorded
    <2>3. UNCHANGED <<disc, answer>>
      BY <1>1 DEF Call
    <2> QED BY <2>1, <2>2, <2>3, <1>s DEF Disc!Next, Disc!Ask, Disc!NoRequest, NoRequest, Recorded
  <1>2. CASE Deliver
    <2>1. UNCHANGED <<disc, before>> /\ pc = "done"
      BY <1>2 DEF Deliver
    <2>2. CASE pc' # "idle"
      BY <1>2, <2>1, <2>2, <1>u DEF Deliver, Return
    <2>3. CASE error # "none"
      <3>1. answer' = Failed /\ request' = NoRequest
        BY <1>2, <2>3 DEF Deliver, Return
      <3> QED BY <3>1, <2>1, <1>s, <1>w DEF Disc!Next, Disc!Answer, Disc!NoRequest, NoRequest,
                  Disc!Failed, Failed, Recorded
    <2>4. CASE error = "none" /\ command = "write" /\ pc' = "idle"
      <3>1. request.op = "write" /\ Logical(request.place) = Stored
        BY <2>1, <2>4 DEF DataInv
      <3>2. Recorded[request.place] = Disc!Stored
        BY <3>1, <2>1, <1>w DEF Recorded, Stored, Disc!Stored
      <3>3. answer' = Done /\ request' = NoRequest
        BY <1>2, <2>4, <3>1 DEF Deliver, Return
      <3> QED BY <3>1, <3>2, <3>3, <2>1, <1>s, <1>w DEF Disc!Next, Disc!Answer, Disc!NoRequest,
                  NoRequest, Disc!Done, Done, Recorded
    <2>5. CASE error = "none" /\ command = "read" /\ pc' = "idle"
      <3>1. request.op = "read" /\ answer' = buf[request.slot] /\ request' = NoRequest
        BY <1>2, <2>5 DEF Deliver, Return
      <3>2. buf = before /\ before # Damaged
        BY <2>1, <2>5 DEF DataInv
      <3> QED BY <3>1, <3>2, <2>1, <1>s, <1>w DEF Disc!Next, Disc!Answer, Disc!NoRequest,
                  NoRequest, Disc!Damaged, Damaged, Recorded
    <2> QED BY <2>2, <2>3, <2>4, <2>5 DEF TypeOK
  <1>3. CASE Retry
    BY <1>3, <1>u DEF Retry
  <1>4. CASE Finish
    BY <1>4, <1>u DEF Finish
  <1>5. CASE Select
    BY <1>5, <1>u DEF Select
  <1>6. CASE Restore
    BY <1>6, <1>u DEF Restore
  <1>7. CASE SeekTo
    BY <1>7, <1>u DEF SeekTo
  <1>8. CASE Same
    BY <1>8, <1>u DEF Same
  <1>c. ASSUME NEW s \in Sector, disc' = [disc EXCEPT ![request.place] = s],
               Inverted(request.place[1], s) \in {Stored, Damaged},
               pc = "transfer", command = "write", UNCHANGED <<request, before, answer>>
        PROVE  Disc!Next
    <2>1. request.place \in Places /\ request.op = "write" /\ before # Damaged
      BY <1>c, <1>w DEF DataInv
    <2> DEFINE new == Inverted(request.place[1], s)
    <2>2. \A p \in Places : Logical(p)' = IF p = request.place THEN new ELSE Logical(p)
      BY <1>c, <2>1, Rewritten
    <2>3. new \in {Disc!Stored, Disc!Damaged}
      BY <1>c DEF Stored, Damaged, Disc!Stored, Disc!Damaged
    <2> HIDE DEF new
    <2>4. Recorded' = [Recorded EXCEPT ![request.place] = new]
      BY <2>1, <2>2 DEF Recorded
    <2>5. before # Disc!Damaged
      BY <2>1 DEF Damaged, Disc!Damaged
    <2>6. \E n \in {Disc!Stored, Disc!Damaged} : Recorded' = [Recorded EXCEPT ![request.place] = n]
      BY <2>3, <2>4
    <2> QED BY <1>c, <2>1, <2>5, <2>6 DEF Disc!Next, Disc!Change, Recorded
  <1>9. CASE NoData
    <2>1. Found => Here = request.place
      BY <1>9, RightSector DEF NoData
    <2>2. CASE UNCHANGED disc
      BY <1>9, <2>2, <1>u DEF NoData
    <2>3. CASE disc' # disc
      <3>1. disc' = [disc EXCEPT ![request.place] = Damaged] /\ command = "write"
        BY <1>9, <2>1, <2>3 DEF NoData
      <3>2. Inverted(request.place[1], Damaged) = Damaged
        BY InvertedSector, DamagedSector
      <3> QED BY <1>9, <1>c, <3>1, <3>2, DamagedSector DEF NoData
    <2> QED BY <2>2, <2>3
  <1>10. CASE BadStatus
    <2>1. Here = request.place
      BY <1>10, RightSector DEF BadStatus
    <2>2. CASE UNCHANGED disc
      BY <1>10, <2>2, <1>u DEF BadStatus
    <2>3. CASE disc' # disc
      <3>1. disc' = [disc EXCEPT ![request.place] = Damaged] /\ command = "write"
        BY <1>10, <2>1, <2>3 DEF BadStatus
      <3>2. Inverted(request.place[1], Damaged) = Damaged
        BY InvertedSector, DamagedSector
      <3> QED BY <1>10, <1>c, <3>1, <3>2, DamagedSector DEF BadStatus
    <2> QED BY <2>2, <2>3
  <1>11. CASE Move
    <2>1. Here = request.place
      BY <1>11, RightSector DEF Move
    <2>2. CASE UNCHANGED disc
      BY <1>11, <2>2, <1>u DEF Move
    <2>3. CASE disc' # disc
      <3>1. disc' = [disc EXCEPT ![request.place] = buf] /\ command = "write" /\ buf \in Sector
        BY <1>11, <2>1, <2>3 DEF Move, TypeOK
      <3>2. buf = Inverted(Drive, Stored) /\ Stored \in Sector
        <4>1. request.slot \in Slots /\ request.value \in Values
          BY <1>11, Working DEF Move
        <4> QED BY <1>11, <3>1, <4>1, SectorExcept DEF Move, DataInv, Stored, TypeOK
      <3>3. Inverted(request.place[1], buf) = Stored
        BY <3>2, InvertedSector DEF Drive
      <3> QED BY <1>11, <1>c, <3>1, <3>3 DEF Move
    <2> QED BY <2>2, <2>3
  <1>12. CASE UNCHANGED vars
    BY <1>12, <1>u DEF vars
  <1> QED BY <1>1, <1>2, <1>3, <1>4, <1>5, <1>6, <1>7, <1>8, <1>9, <1>10, <1>11, <1>12 DEF Next, Engine

(* The engine implements a disc of records: for every set of drives,       *)
(* polarities, track numberings and protections, a call that succeeds has  *)
(* read or written its record, and no call touches another sector.         *)
THEOREM DiscImplemented == Spec => ImplementsDisc
  <1>1. Init => Disc!Init
    BY MappedInit
  <1>2. Inv /\ Inv' /\ [Next]_vars => [Disc!Next]_(Disc!vars)
    BY MappedStep
  <1> QED BY <1>1, <1>2, Invariance, PTL DEF Spec, ImplementsDisc, Disc!Spec

=============================================================================
