------------------------------ MODULE DiskEngine ------------------------------
(***************************************************************************)
(* The floppy disc engine of the BIOS (disk.mac, with BIOREAD and BIOWRITE *)
(* of bios.mac): records in a host buffer of one sector, three attempts    *)
(* for every sector, write data in the polarity of the controller, and one *)
(* remembered head position for all drives.                                *)
(*                                                                         *)
(* A byte is a number other than 0 and its complement the negative number. *)
(***************************************************************************)
EXTENDS Integers

CONSTANTS
    Drives,         \* physical drives
    LastCyl,        \* the last cylinder of each
    Slots,          \* records of a sector
    Values,         \* what a record contains
    Formatted,      \* and one of a formatted disc
    Inverting,      \* drives whose profile has inverted data (flag 10h)
    Renumbered,     \* drives whose track IDs are not the cylinder numbers
    Protected,      \* drives with a write-protected disc
    Requests,       \* what the BDOS may ask for
    MaxCalls        \* how often

Cylinders == 0 .. LastCyl
Places == Drives \X Cylinders
Untrusted == 209                                        \* 0D1h
Tries == 3

ASSUME EngineAssumption ==
    /\ Drives \subseteq Nat \ {255, Untrusted}
    /\ LastCyl \in Nat /\ MaxCalls \in Nat
    /\ Values \subseteq Nat \ {0} /\ Formatted \in Values
    /\ Inverting \subseteq Drives /\ Renumbered \subseteq Drives /\ Protected \subseteq Drives
    /\ Requests \subseteq [op : {"read", "write"}, place : Places, slot : Slots, value : Values]

VARIABLES
    disc,       \* the sectors as the controller reads them
    head,       \* where the heads really are
    track,      \* the track register of the controller
    last,       \* DC_LAST
    lastCyl,    \* DC_LASTCYL
    buf,        \* BIO_PHYBF
    pc, request,
    command,    \* DC_COMMAND
    tries,      \* attempts that are left
    error,      \* the result of the last one
    answer,     \* the result of the last call
    calls,      \* calls so far
    before,     \* history: the sector when the call began
    faults      \* history: what went wrong in this transfer

position == <<head, track, last, lastCyl>>
vars == <<disc, position, buf, pc, request, command, tries, error, answer, calls, before, faults>>

\* An unreadable sector is one of zeros, which are no bytes.
Damaged == [s \in Slots |-> 0]
NoRequest == [op |-> "none"]
Done == 0
Failed == -1

Drive == request.place[1]
Cyl == request.place[2]

\* DC_IDTRK: the number in the IDs of a cylinder.
Id(d, c) == IF d \in Renumbered THEN c + 1 ELSE c

\* DC_INVBUF.
Inverted(d, s) == IF d \in Inverting THEN [i \in Slots |-> -s[i]] ELSE s

\* The records of a sector.
Logical(p) == Inverted(p[1], disc[p])

Init ==
    /\ disc = [p \in Places |-> Inverted(p[1], [s \in Slots |-> Formatted])]
    /\ head \in [Drives -> Cylinders]
    /\ track \in Cylinders /\ last = 255 /\ lastCyl = 0
    /\ buf = Damaged
    /\ pc = "idle" /\ request = NoRequest /\ command = "read" /\ tries = Tries /\ error = "none"
    /\ answer = Done /\ calls = 0 /\ before = Damaged /\ faults = 0

Fault == faults' = IF faults < Tries THEN faults + 1 ELSE faults

-----------------------------------------------------------------------------
(* The calls *)

\* BIOREAD and BIOWRITE: both read the sector first.
Call ==
    /\ pc = "idle" /\ calls < MaxCalls
    /\ request' \in Requests /\ before' = Logical(request'.place)
    /\ command' = "read" /\ tries' = Tries /\ faults' = 0 /\ error' = "none"
    /\ pc' = "select" /\ calls' = calls + 1
    /\ UNCHANGED <<disc, position, buf, answer>>

\* The host buffer with the record in it.
Filled == [buf EXCEPT ![request.slot] = request.value]

Return(result) ==
    /\ answer' = result /\ pc' = "idle" /\ request' = NoRequest

Deliver ==
    /\ pc = "done"
    /\ \/ /\ error # "none" /\ Return(Failed)
          /\ UNCHANGED <<buf, command, tries, faults>>
       \/ /\ error = "none" /\ command = "write" /\ Return(Done)
          /\ UNCHANGED <<buf, command, tries, faults>>
       \/ /\ error = "none" /\ request.op = "read" /\ Return(buf[request.slot])
          /\ UNCHANGED <<buf, command, tries, faults>>
       \/ /\ error = "none" /\ request.op = "write" /\ command = "read"
          /\ command' = "write" /\ tries' = Tries /\ faults' = 0
          /\ buf' = Inverted(Drive, Filled) /\ pc' = "select"
          /\ UNCHANGED <<request, answer>>
    /\ UNCHANGED <<disc, position, error, calls, before>>

-----------------------------------------------------------------------------
(* Retries *)

\* Mistake: the buffer is inverted for every attempt.
RetryInverting ==
    /\ pc = "failed" /\ error # "protected" /\ tries > 1
    /\ tries' = tries - 1 /\ pc' = "select" /\ error' = "none"
    /\ last' = Untrusted
    /\ buf' = IF command = "write" THEN Inverted(Drive, buf) ELSE buf
    /\ UNCHANGED <<disc, head, track, lastCyl, request, command, answer, calls, before, faults>>

\* Mistake: one attempt too many.
RetryPast ==
    /\ pc = "failed" /\ error # "protected" /\ tries > 0
    /\ tries' = tries - 1 /\ pc' = "select" /\ error' = "none"
    /\ last' = Untrusted
    /\ UNCHANGED <<disc, head, track, lastCyl, buf, request, command, answer, calls, before, faults>>

\* Mistake: the count of attempts is lost.
RetryForever ==
    /\ pc = "failed" /\ error # "protected"
    /\ pc' = "select" /\ error' = "none"
    /\ last' = Untrusted
    /\ UNCHANGED <<disc, head, track, lastCyl, buf, request, command, tries, answer, calls, before, faults>>

\* DC_RETRY and DC_ERR: the position is not trusted for the next attempt.
Retry ==
    /\ pc = "failed" /\ error # "protected" /\ tries > 1
    /\ tries' = tries - 1 /\ pc' = "select" /\ error' = "none"
    /\ last' = Untrusted
    /\ UNCHANGED <<disc, head, track, lastCyl, buf, request, command, answer, calls, before, faults>>

\* Mistake: the buffer keeps the polarity of the controller on a protected disc.
FinishInverted ==
    /\ \/ pc = "moved"
       \/ pc = "failed" /\ (error = "protected" \/ tries = 1)
    /\ pc' = "done"
    /\ buf' = IF command = "write" /\ error = "none" THEN Inverted(Drive, buf) ELSE buf
    /\ UNCHANGED <<disc, position, request, command, tries, error, answer, calls, before, faults>>

\* DC_FINISH: the buffer is the caller's again.
Finish ==
    /\ \/ pc = "moved"
       \/ pc = "failed" /\ (error = "protected" \/ tries = 1)
    /\ pc' = "done"
    /\ buf' = IF command = "write" THEN Inverted(Drive, buf) ELSE buf
    /\ UNCHANGED <<disc, position, request, command, tries, error, answer, calls, before, faults>>

-----------------------------------------------------------------------------
(* Drive selection and head positioning *)

\* A command that does not end, or a position that is not reached: DC_ERR.
Lost == last' = Untrusted /\ error' = "lost" /\ pc' = "failed" /\ Fault

\* Mistake: another drive is selected with the position of the one before.
SelectOnly ==
    /\ pc = "select"
    /\ \/ last' = Drive /\ pc' = (IF last = Untrusted THEN "restore" ELSE "same")
          /\ UNCHANGED <<error, faults>>
       \/ Lost
    /\ UNCHANGED <<disc, head, track, lastCyl, buf, request, command, tries, answer, calls, before>>

\* DC_SEEK.
Select ==
    /\ pc = "select"
    /\ \/ last' = Drive /\ pc' = (IF last = Drive THEN "same" ELSE "restore")
          /\ UNCHANGED <<error, faults>>
       \/ Lost
    /\ UNCHANGED <<disc, head, track, lastCyl, buf, request, command, tries, answer, calls, before>>

\* DC_RESTORE.
Restore ==
    /\ pc = "restore" /\ lastCyl' = 0
    /\ \/ head' = [head EXCEPT ![Drive] = 0] /\ pc' = "seek" /\ UNCHANGED <<last, error, faults>>
       \/ head' \in {[head EXCEPT ![Drive] = c] : c \in 0 .. head[Drive]} /\ Lost
    /\ UNCHANGED <<disc, track, buf, request, command, tries, answer, calls, before>>

\* The controller steps by the difference of its registers, as far as it can.
Stepped(c) == IF c < 0 THEN 0 ELSE IF c > LastCyl THEN LastCyl ELSE c

\* DC_SEEKTO: the heads arrive, arrive elsewhere, or the controller gives up.
SeekTo ==
    /\ pc = "seek"
    /\ \/ head' = [head EXCEPT ![Drive] = Stepped(@ + Cyl - lastCyl)]
          /\ track' = Cyl /\ lastCyl' = Cyl /\ pc' = "same" /\ UNCHANGED <<last, error, faults>>
       \/ \E c \in Cylinders : head' = [head EXCEPT ![Drive] = c]
          /\ track' = Cyl /\ lastCyl' = Cyl /\ pc' = "same" /\ Fault /\ UNCHANGED <<last, error>>
       \/ \E c, t \in Cylinders : head' = [head EXCEPT ![Drive] = c] /\ track' = t
          /\ Lost /\ UNCHANGED lastCyl
    /\ UNCHANGED <<disc, buf, request, command, tries, answer, calls, before>>

\* DC_SAME and DC_IDONLY.
Same ==
    /\ pc = "same"
    /\ IF lastCyl = Cyl THEN pc' = "transfer" /\ track' = Id(Drive, Cyl)
                        ELSE pc' = "seek" /\ UNCHANGED track
    /\ UNCHANGED <<disc, head, last, lastCyl, buf, request, command, tries, error, answer, calls,
                   before, faults>>

-----------------------------------------------------------------------------
(* The transfer: no data come unless the IDs under the head have the number *)
(* in the track register, and DC_RBYTE and DC_WBYTE wait for data alone.    *)

Here == <<Drive, head[Drive]>>
Found == Id(Drive, head[Drive]) = track

\* Mistake: the position is trusted although no data came.
NoDataTrusting ==
    /\ pc = "transfer"
    /\ error' = "lost" /\ pc' = "failed"
    /\ IF Found /\ ~(command = "write" /\ Drive \in Protected) THEN Fault ELSE UNCHANGED faults
    /\ UNCHANGED <<position, buf, disc, request, command, tries, answer, calls, before>>

\* The bytes do not come, or not all: DC_IOFAIL.
NoData ==
    /\ pc = "transfer"
    /\ last' = Untrusted /\ error' = "lost" /\ pc' = "failed"
    /\ IF Found /\ ~(command = "write" /\ Drive \in Protected) THEN Fault ELSE UNCHANGED faults
    /\ \/ UNCHANGED <<buf, disc>>
       \/ Found /\ command = "read" /\ disc[Here] # Damaged /\ UNCHANGED disc
          /\ \E part \in SUBSET Slots :
                buf' = [s \in Slots |-> IF s \in part THEN disc[Here][s] ELSE buf[s]]
       \/ Found /\ command = "write" /\ Drive \notin Protected
          /\ disc' = [disc EXCEPT ![Here] = Damaged] /\ UNCHANGED buf
    /\ UNCHANGED <<head, track, lastCyl, request, command, tries, answer, calls, before>>

\* All bytes came, but the controller reports an error (DC_XDONE).
BadStatus ==
    /\ pc = "transfer" /\ Found
    /\ \/ /\ command = "write" /\ Drive \in Protected
          /\ error' = "protected" /\ UNCHANGED <<disc, buf, faults>>
       \/ /\ command = "write" /\ Drive \notin Protected
          /\ error' = "status" /\ Fault
          /\ disc' = [disc EXCEPT ![Here] = Damaged] /\ UNCHANGED buf
       \/ /\ command = "read" /\ error' = "status"
          /\ IF disc[Here] = Damaged THEN UNCHANGED faults ELSE Fault
          /\ \E bytes \in [Slots -> {disc[Here][s] : s \in Slots} \cup {0}] : buf' = bytes
          /\ UNCHANGED disc
    /\ pc' = "failed"
    /\ UNCHANGED <<position, request, command, tries, answer, calls, before>>

\* DC_TRY to its end: data that were read are inverted now (DC_INVBUF).
Move ==
    /\ pc = "transfer" /\ Found
    /\ \/ /\ command = "write" /\ Drive \notin Protected
          /\ disc' = [disc EXCEPT ![Here] = buf] /\ UNCHANGED buf
       \/ /\ command = "read" /\ disc[Here] # Damaged
          /\ buf' = Inverted(Drive, disc[Here]) /\ UNCHANGED disc
    /\ pc' = "moved" /\ error' = "none"
    /\ UNCHANGED <<position, request, command, tries, answer, calls, before, faults>>

Engine ==
    \/ Deliver \/ Retry \/ Finish
    \/ Select \/ Restore \/ SeekTo \/ Same
    \/ NoData \/ BadStatus \/ Move

Next == Call \/ Engine

Spec == Init /\ [][Next]_vars /\ WF_vars(Engine)

-----------------------------------------------------------------------------
(* Properties *)

Bytes == {0} \cup Values \cup {-v : v \in Values}
Sector == [Slots -> Bytes]

TypeOK ==
    /\ disc \in [Places -> Sector] /\ buf \in Sector
    /\ head \in [Drives -> Cylinders] /\ track \in 0 .. LastCyl + 1
    /\ last \in Drives \cup {255, Untrusted} /\ lastCyl \in Cylinders
    /\ pc \in {"idle", "select", "restore", "seek", "same", "transfer", "failed", "moved", "done"}
    /\ request \in Requests \cup {NoRequest}
    /\ command \in {"read", "write"} /\ tries \in 1 .. Tries
    /\ error \in {"none", "lost", "status", "protected"}
    /\ answer \in Bytes \cup {Done, Failed} /\ calls \in 0 .. MaxCalls
    /\ before \in Sector /\ faults \in 0 .. Tries

\* Whatever becomes of a write, all its attempts use the caller's bytes and the
\* caller has them back at the end: the record in the sector that was read.
CallerBufferKept ==
    pc = "done" /\ command = "write" => buf = [before EXCEPT ![request.slot] = request.value]

\* Between two calls the remembered position of a drive is the real one,
\* whatever drives, restores, seeks and errors came before.
PositionTrusted == pc = "idle" /\ last \in Drives => head[last] = lastCyl

\* A transfer fails only after three attempts went wrong, each for a reason of
\* its own, unless the disc is protected or the sector cannot be read.
FailureNeedsFaults ==
    pc = "done" /\ error # "none" =>
        \/ faults = Tries
        \/ command = "write" /\ Drive \in Protected
        \/ command = "read" /\ before = Damaged

\* Records are what the last successful write put there, on every drive and in
\* either polarity, and no call touches another sector or another record.
Disc == INSTANCE RecordDisc WITH sectors <- [p \in Places |-> Logical(p)]
ImplementsDisc == Disc!Spec

\* Every call ends.
CallsReturn == pc # "idle" ~> pc = "idle"
=============================================================================
