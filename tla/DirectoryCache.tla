--------------------------- MODULE DirectoryCache ---------------------------
(***************************************************************************)
(* The one-record directory cache of the unified BDOS and what surrounds   *)
(* it: the drive context and its login scan, directory checksums, software *)
(* write protection, the single-pass changes of Delete, Rename and         *)
(* Attributes, bad sectors, and the warm boot a call may end in.           *)
(*                                                                         *)
(* One step is the code between two transfers: a call is many steps, and a *)
(* transfer may fail.  The operator swaps discs only while a program runs, *)
(* between two calls.                                                      *)
(***************************************************************************)
EXTENDS Integers, Sequences, SequencesExt

CONSTANTS
    Drives,     \* logical drives; 0 is drive A
    Discs,      \* discs, one in each drive and perhaps more on the desk
    Names,      \* file names
    ReadOnly,   \* names whose entries carry the R/O attribute
    NRecs,      \* directory records of a disc
    EPR,        \* entries in a directory record (4)
    CKS,        \* directory records that are checksummed
    Formatted,  \* Formatted[m]: the directory of disc m at the start
    Swaps,      \* may the operator change discs?
    Answers     \* what the operator answers when a transfer failed, of
                \* "ignore" and "abort" (^C); transfers work if empty

ASSUME CacheAssumption ==
    /\ 0 \in Drives
    /\ ReadOnly \subseteq Names
    /\ NRecs \in Nat \ {0} /\ EPR \in Nat \ {0} /\ CKS \in 0 .. NRecs
    /\ Swaps \in BOOLEAN /\ Answers \subseteq {"ignore", "abort"}

VARIABLES
    media,      \* media[d]: the disc in drive d
    disc,       \* disc[m]: the entries of the directory of m
    buf,        \* the cached record (UB_DIRBUF)
    crec, cok, dirty,   \* its number, is it valid, is it changed
    valid, ctx, \* is there an active context, and for which drive
    login, rdonly,      \* login and read-only vectors
    csv,        \* csv[d]: checksums of the records of drive d
    default,    \* default drive (UB_DRIVE)
    pc, call, pos, found,   \* the call in progress and its iterator
    todo        \* calls of a warm boot still to come

vars == <<media, disc, buf, crec, cok, dirty, valid, ctx, login, rdonly, csv,
          default, pc, call, pos, found, todo>>

NoName  == "free"
Free    == [name |-> NoName, ver |-> 0]
Recs    == 0 .. NRecs - 1
Slots   == 0 .. NRecs * EPR - 1
Entries == {Free} \cup [name : Names, ver : {0, 1}]
Buffers == [0 .. EPR - 1 -> Entries]

\* No file is named like a free entry (E5).
ASSUME FormatAssumption ==
    NoName \notin Names /\ Formatted \in [Discs -> [Slots -> Entries]]

Scanning == {"login", "target", "find", "free", "pass", "relogin"}
Passes   == {"delete", "rename", "attr"}
Changing == Passes \cup {"make", "publish"}
FileOps  == Changing \cup {"search"}

Call(op, d, names, to) == [op |-> op, drive |-> d, names |-> names, to |-> to]
DriveCall(op, d) == Call(op, d, {}, NoName)
NoCall == DriveCall("none", 0)

\* The checksum of a record: different contents are told apart.
Sum(b) == b

Record(r)  == [i \in 0 .. EPR - 1 |-> disc[media[ctx]][r * EPR + i]]
Matches(e) == IF pc = "target" THEN e.name = call.to ELSE e.name \in call.names
-----------------------------------------------------------------------------
(* Entering and leaving a call.                                            *)

\* Mistake: a clean record stays valid while the program runs.
EnterKeeping == cok' = cok

\* UB_STANDARD: a clean cache does not survive into the next call.
Enter == cok' = (cok /\ dirty)

Leave ==
    /\ pc' = "idle" /\ call' = NoCall /\ pos' = 0 /\ found' = FALSE

Go(to) == pc' = to /\ pos' = 0 /\ UNCHANGED <<call, found>>

\* BIO_WBOOT: the command reloader resets every drive and logs in A; then
\* SYS_ENTER calls function 13 and, for a default drive other than A, 14.
Boot ==
    /\ Leave
    /\ todo' = <<DriveCall("rstdrv", 0), DriveCall("select", 0), DriveCall("reset", 0)>>
                 \o IF default = 0 THEN <<>> ELSE <<DriveCall("select", default)>>

\* UB_RSTDRV for a set of drives: the context goes whatever the set is.
Forget(ds) == login' = login \ ds /\ rdonly' = rdonly \ ds /\ valid' = FALSE

ResetDrives(ds) ==
    /\ pc = "idle" /\ Enter /\ Forget(ds)
    /\ UNCHANGED <<media, disc, buf, crec, dirty, ctx, csv, default, pc, call, pos, found>>

\* The calls of programs, or the next one of a warm boot.
Begin(c) ==
    /\ pc = "idle" /\ Enter
    /\ pc' = "context" /\ call' = c /\ pos' = 0 /\ found' = FALSE
    /\ IF c.op = "reset" THEN Forget(Drives) /\ default' = 0
                         ELSE UNCHANGED <<login, rdonly, valid, default>>
    /\ UNCHANGED <<media, disc, buf, crec, dirty, ctx, csv>>

Request ==
    /\ todo = <<>>
    /\ \/ Begin(DriveCall("reset", 0))
       \/ \E ds \in SUBSET Drives : ResetDrives(ds)
       \/ \E d \in Drives :
            \/ Begin(DriveCall("select", d))
            \/ \E n \in Names, op \in {"search", "publish", "make"} :
                    Begin(Call(op, d, {n}, NoName))
            \/ \E names \in SUBSET Names \ {{}}, op \in {"delete", "attr"} :
                    Begin(Call(op, d, names, NoName))
            \/ \E n, to \in Names : Begin(Call("rename", d, {n}, to))
    /\ UNCHANGED todo

\* Mistake: the sequence never gets to its end.
BootCallAgain ==
    /\ todo # <<>> /\ UNCHANGED todo
    /\ IF Head(todo).op = "rstdrv" THEN ResetDrives(Drives) ELSE Begin(Head(todo))

BootCall ==
    /\ todo # <<>> /\ todo' = Tail(todo)
    /\ IF Head(todo).op = "rstdrv" THEN ResetDrives(Drives) ELSE Begin(Head(todo))

\* UB_WRPROT.
Protect ==
    /\ pc = "idle" /\ todo = <<>> /\ Enter
    /\ rdonly' = rdonly \cup {default}
    /\ UNCHANGED <<media, disc, buf, crec, dirty, valid, ctx, login, csv, default,
                   pc, call, pos, found, todo>>

-----------------------------------------------------------------------------
(* UB_CONTEXT and the write-protection gate.                               *)

\* What a call does once its drive is active.  UB_CHECKRO ends in a warm
\* boot that leaves the cache as it is.
Proceed ==
    IF call.op \in Changing /\ call.drive \in rdonly THEN Boot /\ UNCHANGED default
    ELSE /\ IF call.op \in FileOps
            THEN /\ Go(IF call.op = "rename" THEN "target"
                       ELSE IF call.op \in Passes THEN "pass" ELSE "find")
                 /\ UNCHANGED default
            ELSE Leave /\ default' = call.drive
         /\ UNCHANGED todo

Active ==
    /\ pc = "context" /\ valid /\ ctx = call.drive
    /\ Proceed
    /\ UNCHANGED <<media, disc, buf, crec, cok, dirty, valid, ctx, login, rdonly, csv>>

\* BIO_SELDSK may find no drive; drive A is always there.
Activate ==
    /\ pc = "context" /\ ~(valid /\ ctx = call.drive)
    /\ cok' = FALSE
    /\ \/ ctx' = call.drive /\ valid' = TRUE /\ Go("login")
       \/ call.drive # 0 /\ valid' = FALSE /\ Leave /\ UNCHANGED ctx
    /\ UNCHANGED <<media, disc, buf, crec, dirty, login, rdonly, csv, default, todo>>

-----------------------------------------------------------------------------
(* UB_DIRLOAD and UB_DIRFLUSH.                                             *)

Wanted == pos \div EPR
Scan   == pc \in Scanning /\ pos \in Slots
Hit    == Scan /\ cok /\ crec = Wanted

\* Mistake: a changed record is replaced without being written.
NeverFlush == FALSE

MustFlush == Scan /\ cok /\ crec # Wanted /\ dirty

MustFill == Scan /\ ~Hit /\ ~MustFlush

\* UB_CSUM: a read of a logged drive is compared with the checksum of the
\* record, any other read and every write sets it.
Compare(b, r) ==
    IF r >= CKS THEN UNCHANGED <<csv, rdonly>>
    ELSE IF ctx \in login
    THEN /\ rdonly' = IF csv[ctx][r] = Sum(b) THEN rdonly ELSE rdonly \cup {ctx}
         /\ UNCHANGED csv
    ELSE csv' = [csv EXCEPT ![ctx][r] = Sum(b)] /\ UNCHANGED rdonly

\* Mistake: writes do not follow the checksums.
BaselineMissing(b, r) == UNCHANGED csv

Baseline(b, r) ==
    IF r >= CKS THEN UNCHANGED csv ELSE csv' = [csv EXCEPT ![ctx][r] = Sum(b)]

\* ^C at "Bad Sector": the change is forgotten.
Abandon ==
    /\ "abort" \in Answers /\ dirty' = FALSE /\ Boot
    /\ UNCHANGED <<cok, csv, rdonly, disc>>

\* A read that failed and was ignored leaves the buffer as it was.
Fill ==
    /\ MustFill /\ crec' = Wanted
    /\ \/ \E b \in {Record(Wanted)} \cup IF "ignore" \in Answers THEN {buf} ELSE {} :
            /\ buf' = b /\ Compare(b, Wanted) /\ cok' = TRUE
            /\ UNCHANGED <<disc, dirty, pc, call, pos, found, todo>>
       \/ Abandon /\ UNCHANGED buf
    /\ UNCHANGED <<media, valid, ctx, login, default>>

\* The cached record goes to the disc that is in the active drive now.
Transferred ==
    \/ disc' = [disc EXCEPT ![media[ctx]] = [s \in Slots |->
                    IF s \div EPR = crec THEN buf[s % EPR] ELSE @[s]]]
    \/ "ignore" \in Answers /\ UNCHANGED disc

Settled == Baseline(buf, crec) /\ dirty' = FALSE

\* Mistake: the write-protection is checked only when the call begins.
WriteBackUnchecked ==
    \/ /\ Transferred /\ Settled
       /\ UNCHANGED <<cok, rdonly, pc, call, pos, found, todo>>
    \/ Abandon

WriteBack ==
    IF ctx \in rdonly THEN Boot /\ UNCHANGED <<disc, cok, dirty, csv, rdonly>>
    ELSE \/ /\ Transferred /\ Settled
            /\ UNCHANGED <<cok, rdonly, pc, call, pos, found, todo>>
         \/ Abandon

Flush ==
    /\ MustFlush \/ (pc = "flush" /\ dirty)
    /\ WriteBack
    /\ UNCHANGED <<media, buf, crec, valid, ctx, login, default>>

-----------------------------------------------------------------------------
(* The clients of the iterator.                                            *)

Entry == buf[pos % EPR]

Put(e) == buf' = [buf EXCEPT ![pos % EPR] = e] /\ dirty' = TRUE

\* Mistake: the iterator and its client both advance.
StepTwice == pos' = pos + 2 /\ UNCHANGED <<pc, call, found>>

Step == pos' = pos + 1 /\ UNCHANGED <<pc, call, found>>

\* Delete frees the entry, Rename names it anew, the others set its contents.
Changed(e) == CASE call.op = "delete" -> Free
                [] call.op = "rename" -> [e EXCEPT !.name = call.to]
                [] OTHER -> [e EXCEPT !.ver = 1 - @]

Passed == CASE pc \in {"login", "relogin"} -> TRUE
            [] pc = "free" -> Entry # Free
            [] OTHER -> ~Matches(Entry)

\* One entry of the cached record.
Examine ==
    /\ Hit
    /\ \/ Passed /\ Step /\ UNCHANGED <<buf, dirty>>
       \/ /\ ~Passed /\ pc = "target"
          /\ Leave /\ UNCHANGED <<buf, dirty>>
       \/ /\ ~Passed /\ pc = "find"
          /\ IF call.op = "publish" THEN Put(Changed(Entry)) /\ Go("flush")
                                    ELSE Leave /\ UNCHANGED <<buf, dirty>>
       \/ /\ ~Passed /\ pc = "free"
          /\ \E n \in call.names : Put([name |-> n, ver |-> 0]) /\ Go("flush")
       \/ /\ ~Passed /\ pc = "pass"
          /\ IF call.op # "attr" /\ Entry.name \in ReadOnly
             THEN Leave /\ UNCHANGED <<buf, dirty>>
             ELSE /\ Put(Changed(Entry))
                  /\ pos' = pos + 1 /\ found' = TRUE /\ UNCHANGED <<pc, call>>
    /\ UNCHANGED <<media, disc, crec, cok, valid, ctx, login, rdonly, csv, default, todo>>

\* Mistake: the last record of a pass is left to the next call.
PassedAllUnflushed == Leave

\* A pass that changed nothing reports that there is no such file.
PassedAll == IF found THEN Go("flush") ELSE Leave

\* The iterator is at the end of the directory.
Exhausted ==
    /\ pc \in Scanning /\ pos \notin Slots
    /\ CASE pc = "login"  -> login' = login \cup {ctx} /\ Proceed
         [] pc = "target" -> Go("pass") /\ UNCHANGED <<login, default, todo>>
         [] pc = "find" /\ call.op = "make" -> Go("free") /\ UNCHANGED <<login, default, todo>>
         [] pc = "pass" -> PassedAll /\ UNCHANGED <<login, default, todo>>
         [] OTHER -> Leave /\ UNCHANGED <<login, default, todo>>
    /\ UNCHANGED <<media, disc, buf, crec, cok, dirty, valid, ctx, rdonly, csv>>

\* After the last flush Delete rebuilds the allocation vector.
Done ==
    /\ pc = "flush" /\ ~dirty
    /\ IF call.op = "delete" THEN Go("relogin") ELSE Leave
    /\ UNCHANGED <<media, disc, buf, crec, cok, dirty, valid, ctx, login, rdonly, csv,
                   default, todo>>

-----------------------------------------------------------------------------
\* The operator exchanges the discs of the drives, or takes another one.
Swap ==
    /\ Swaps /\ pc = "idle" /\ todo = <<>>
    /\ \E new \in [Drives -> Discs] :
         /\ \A d, e \in Drives : d # e => new[d] # new[e]
         /\ media' = new
    /\ UNCHANGED <<disc, buf, crec, cok, dirty, valid, ctx, login, rdonly, csv,
                   default, pc, call, pos, found, todo>>

Init ==
    /\ media \in [Drives -> Discs] /\ \A d, e \in Drives : d # e => media[d] # media[e]
    /\ disc = Formatted
    /\ buf = [i \in 0 .. EPR - 1 |-> Free] /\ crec = 0 /\ cok = FALSE /\ dirty = FALSE
    /\ valid = FALSE /\ ctx = 0 /\ login = {} /\ rdonly = {}
    /\ csv = [d \in Drives |-> [r \in Recs |-> Sum(buf)]]
    /\ default = 0 /\ pc = "idle" /\ call = NoCall /\ pos = 0 /\ found = FALSE
    /\ todo = <<>>

Code == BootCall \/ Active \/ Activate \/ Fill \/ Flush \/ Examine \/ Exhausted \/ Done

Next == Request \/ Protect \/ Swap \/ Code

Spec == Init /\ [][Next]_vars /\ WF_vars(Code)

-----------------------------------------------------------------------------
(* Properties.                                                             *)

Idle == pc = "idle" /\ todo = <<>>

TypeOK ==
    /\ media \in [Drives -> Discs] /\ disc \in [Discs -> [Slots -> Entries]]
    /\ buf \in Buffers /\ crec \in Recs /\ cok \in BOOLEAN /\ dirty \in BOOLEAN
    /\ valid \in BOOLEAN /\ ctx \in Drives /\ default \in Drives
    /\ login \subseteq Drives /\ rdonly \subseteq Drives
    /\ csv \in [Drives -> [Recs -> Buffers]]
    /\ pc \in {"idle", "context", "flush"} \cup Scanning
    /\ call.op \in {"none", "select", "reset"} \cup FileOps /\ call.drive \in Drives
    /\ pos \in 0 .. NRecs * EPR /\ found \in BOOLEAN
    /\ todo \in Seq({DriveCall(op, d) : op \in {"rstdrv", "select", "reset"}, d \in Drives})

\* Whatever discs the operator puts into the drives between two calls, and
\* whatever transfers fail, a write to a directory changes no entry but
\* those that the call in progress names.
Named == IF call.op \in Changing THEN call.names \cup {call.to} ELSE {}
OnlyNamedEntriesChange ==
    [][\A m \in Discs, s \in Slots :
         disc'[m][s] # disc[m][s] =>
           {disc[m][s].name, disc'[m][s].name} \subseteq Named \cup {NoName}]_vars

\* A directory record is overwritten only if what is there on the disc is
\* what the BDOS last read from it or wrote to it: a checksum mismatch is
\* never taken as permission to write (comment before UB_CSUM).
OnlyKnownRecordsOverwritten ==
    [][disc' # disc => csv[ctx][crec] = Sum(Record(crec))]_vars

\* Between two calls nothing is waiting to be written: the disc may go.
IdleIsClean == Idle => ~dirty

\* When Delete or Rename has ended its pass, no entry of the name is left, in
\* whatever records of the directory the entries are, also when the one-record
\* cache of UB_DPASS and UB_NPASS has to be written back in the middle.
PassesAreComplete ==
    [][pc = "flush" /\ pc' # pc /\ todo' = <<>> /\ call.op \in {"delete", "rename"} =>
         \A s \in Slots : disc[media[ctx]][s].name \notin call.names \ {call.to}]_vars

\* Every call comes to its end, through all flushes, rescans and prompts,
\* and so does a warm boot that it ends in, although the drives may still be
\* protected or become so again: a program runs in the end, unless the
\* operator answers "Bad Sector" with ^C over and over.
Aborted == (Fill \/ (Flush /\ ctx \notin rdonly)) /\ pc' = "idle"
ControlReturns == []<>Idle \/ []<><<Aborted>>_vars
=============================================================================
