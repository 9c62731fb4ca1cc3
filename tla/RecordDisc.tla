------------------------------ MODULE RecordDisc ------------------------------
(***************************************************************************)
(* What the BIOS promises the BDOS about records: a call reads or writes   *)
(* one record.  A call that fails may leave the sector of a record that    *)
(* was to be written unreadable; no other sector is ever touched.          *)
(***************************************************************************)
EXTENDS Integers

CONSTANTS Places, Slots, Formatted, Requests

\* A sector is its records; no record of an unreadable one can be got at.
Damaged == [s \in Slots |-> 0]
NoRequest == [op |-> "none"]
Done == 0
Failed == -1

VARIABLES sectors, request, before, answer

vars == <<sectors, request, before, answer>>

Init ==
    /\ sectors = [p \in Places |-> [s \in Slots |-> Formatted]]
    /\ request = NoRequest /\ before = Damaged /\ answer = Done

Ask ==
    /\ request = NoRequest
    /\ request' \in Requests /\ before' = sectors[request'.place]
    /\ UNCHANGED <<sectors, answer>>

Stored == [before EXCEPT ![request.slot] = request.value]

\* The sector gets the record, or loses all.
Change ==
    /\ request.op = "write" /\ before # Damaged
    /\ \E new \in {Stored, Damaged} : sectors' = [sectors EXCEPT ![request.place] = new]
    /\ UNCHANGED <<request, before, answer>>

Answer ==
    /\ request # NoRequest /\ request' = NoRequest
    /\ \/ request.op = "read" /\ before # Damaged /\ answer' = before[request.slot]
       \/ request.op = "write" /\ sectors[request.place] = Stored /\ answer' = Done
       \/ answer' = Failed
    /\ UNCHANGED <<sectors, before>>

Next == Ask \/ Change \/ Answer
Spec == Init /\ [][Next]_vars
=============================================================================
