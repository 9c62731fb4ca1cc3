----------------------------- MODULE CommandStream -----------------------------
(***************************************************************************)
(* Batches: SUBMIT writes the commands of a batch to A0:$$$.SUB, last      *)
(* command first; the command processor takes its next command from the    *)
(* end of that file whenever it is about to prompt, and the resident       *)
(* module BATCHIO takes the lines that a program asks for with function 10.*)
(* The file is all that survives between two commands: most commands end   *)
(* in a warm boot.                                                         *)
(*                                                                         *)
(* Record i of the file of a batch of n lines is line n + 1 - i, so a file *)
(* is described by its batch, the number of its records and the record     *)
(* count that its directory entry states.  That count is what is taken:    *)
(* a record at or above it is gone.                                        *)
(***************************************************************************)
EXTENDS Integers, Sequences

CONSTANTS
    Scripts,        \* the batches, in the order in which they are submitted
    Extent,         \* records that one directory entry counts (128)
    Failing,        \* calls on the file that can fail
    Keys,           \* keys that the operator presses unasked
    MaxEvents       \* failures, such keys and resets of the machine together

\* What a line of a batch is when it is taken for a command.
Kinds == {"run", "ask", "bad", "toobig", "submit", "xsub"}

ASSUME StreamAssumption ==
    /\ Scripts \in Seq(Seq(Kinds))
    /\ Extent \in Nat \ {0}
    /\ Failing \subseteq {"read", "close", "delete", "make", "write"}
    /\ Keys \subseteq {"key", "break"}
    /\ MaxEvents \in Nat

VARIABLES
    file,       \* A0:$$$.SUB
    pc,         \* what runs next
    cmd,        \* the command at hand
    line,       \* the line of the file at hand, if there is one
    active,     \* CCP_SUBACTIVE
    made,       \* batches that SUBMIT has begun
    con,        \* a key in the hardware, and one that BDOS has taken (UB_PENDING)
    bio,        \* BATCHIO: loaded, BI_IDLE, BI_UDMA
    dma,        \* UB_DMA
    events,     \* failures, keys and resets so far
    got,        \* history: the last line that was delivered
    lost,       \* history: lines of the batch that were lost since then
    cancelled,  \* history: batches that the code has given up
    wanted      \* history: the transfer address that the program has chosen
                \* since it last reset the disk system

vars == <<file, pc, cmd, line, active, made, con, bio, dma, events, got, lost,
          cancelled, wanted>>
history == <<got, lost, cancelled>>
memory == <<cmd, line, active, made, con, bio, dma, events, wanted>>

Batches == 1 .. Len(Scripts)
Size(b) == Len(Scripts[b])
NoFile == [batch |-> 0, records |-> 0, count |-> 0]
NoLine == [batch |-> 0, no |-> 0]
Exists == file # NoFile

\* The line that the published count leaves at the end of the file.
LastLine == [batch |-> file.batch, no |-> Size(file.batch) + 1 - file.count]
Kind(l) == Scripts[l.batch][l.no]

\* DMA addresses: the default buffer, a program's and BATCHIO's own.
Default == "default"
Own == "own"
Buffer == "buffer"
Any == "any"

NoBatchio == [loaded |-> FALSE, idle |-> FALSE, dma |-> Default]
NoKey == [uart |-> "none", pending |-> FALSE]

Init ==
    /\ file = NoFile /\ pc = "prompt" /\ cmd = "run" /\ line = NoLine
    /\ active \in BOOLEAN /\ made = 0 /\ con = NoKey
    /\ bio = NoBatchio
    /\ dma = Default /\ wanted = Default
    /\ events = 0
    /\ got = NoLine /\ lost = 0 /\ cancelled = {}

-----------------------------------------------------------------------------
(* Parts of the actions *)

\* Output looks at the keyboard while UB_PENDING is clear: an ordinary key is
\* kept for later, ^C ends what runs by a warm boot (UB_PUT).
Output(next) ==
    \/ (con.pending \/ con.uart = "none") /\ pc' = next /\ UNCHANGED con
    \/ ~con.pending /\ con.uart = "key" /\ pc' = next /\ con' = [uart |-> "none", pending |-> TRUE]
    \/ ~con.pending /\ con.uart = "break" /\ pc' = "boot" /\ con' = NoKey

\* UB_GETIN: the pending key goes first.
KeyTaken == IF con.pending THEN [con EXCEPT !.pending = FALSE] ELSE NoKey

Happens == events < MaxEvents /\ events' = events + 1

\* A call that fails reports it, or the operator aborts it.
Fails(call, refused) ==
    /\ call \in Failing /\ Happens
    /\ pc' \in {refused, "boot"}

\* Mistake: the stream's file stays when it is given up.
GiveUpKept == file' = file /\ cancelled' = cancelled \cup {file.batch}

\* Function 19 on the file, when the rest of the batch is not to run.
GiveUp == file' = NoFile /\ cancelled' = cancelled \cup {file.batch}

\* Mistake: the record below it goes with it.
TakeTwo == file' = IF file.count <= 2 THEN NoFile ELSE [file EXCEPT !.count = @ - 2]

\* Functions 16 and 19: the count is published, the empty file is deleted.
TakeLast == file' = IF file.count = 1 THEN NoFile ELSE [file EXCEPT !.count = @ - 1]

\* Mistake: BATCHIO leaves its own buffer selected.
RestoreNothing == dma' = Buffer

\* BI_FCALL: file calls of BATCHIO go through its buffer, and the address it
\* has seen last is put back.
Restore == dma' = bio.dma

\* Function 26 passes BATCHIO, function 13 does not concern it.
SetDMA(a) == dma' = a /\ bio' = IF bio.loaded THEN [bio EXCEPT !.dma = a] ELSE bio

\* Function 0: an idle BATCHIO unloads itself first (BI_RETIRE).
Exit ==
    /\ pc' = "boot"
    /\ bio' \in IF bio.loaded /\ bio.idle THEN {bio, NoBatchio} ELSE {bio}

-----------------------------------------------------------------------------
(* The command processor *)

\* The prompt, and CCP_READLN.
Prompt ==
    /\ pc = "prompt" /\ Output("read")
    /\ active' = IF pc' = "read" THEN FALSE ELSE active
    /\ line' = NoLine
    /\ UNCHANGED <<file, cmd, made, bio, dma, events, wanted, history>>

\* CS_READ, CS_OPEN: the last record of the file, if there is one.
ReadLast ==
    /\ pc = "read"
    /\ IF ~Exists THEN pc' = "type" /\ UNCHANGED <<line, events>>
       ELSE IF file.count = 0 THEN pc' = "drop" /\ UNCHANGED <<line, events>>
       ELSE \/ pc' = "take" /\ line' = LastLine /\ UNCHANGED events
            \/ Fails("read", "drop") /\ UNCHANGED line
    /\ SetDMA(Default)
    /\ UNCHANGED <<file, cmd, active, made, con, wanted, history>>

\* CS_DROP: a stream without records, or one that cannot be used.
Drop ==
    /\ pc = "drop"
    /\ \/ GiveUp /\ pc' = "prompt" /\ UNCHANGED events
       \/ Fails("delete", "prompt") /\ UNCHANGED <<file, cancelled>>
    /\ line' = NoLine
    /\ UNCHANGED <<cmd, active, made, con, bio, dma, wanted, got, lost>>

\* Mistake: the command processor forgets that the command is a submitted one.
TakeUnmarked ==
    /\ pc = "take"
    /\ \/ TakeLast /\ pc' = "echo" /\ UNCHANGED <<active, events>>
       \/ Fails("close", "drop") /\ UNCHANGED <<file, active>>
    /\ UNCHANGED <<cmd, line, made, con, bio, dma, wanted, history>>

\* CS_DATA, CS_FILE: the command is off the file before it is seen or run.
Take ==
    /\ pc = "take"
    /\ \/ TakeLast /\ pc' = "echo" /\ active' = TRUE /\ UNCHANGED events
       \/ Fails("close", "drop") /\ UNCHANGED <<file, active>>
    /\ UNCHANGED <<cmd, line, made, con, bio, dma, wanted, history>>

\* CS_ECHO, CS_CR.
Echo ==
    /\ pc = "echo" /\ Output("check")
    /\ lost' = IF pc' = "boot" THEN lost + 1 ELSE lost
    /\ UNCHANGED <<file, cmd, line, active, made, bio, dma, events, wanted, got, cancelled>>

\* CS_CR: a key that waits by now gives up the batch, with the command at hand.
Check ==
    /\ pc = "check"
    /\ IF con = NoKey
         THEN /\ pc' = "dispatch" /\ cmd' = Kind(line) /\ got' = line /\ lost' = 0
              /\ UNCHANGED <<file, active, cancelled, events>>
         ELSE /\ active' = FALSE
              /\ \/ /\ file' = NoFile /\ cancelled' = cancelled \cup {line.batch}
                    /\ pc' = "swallow" /\ UNCHANGED events
                 \/ Fails("delete", "swallow") /\ UNCHANGED <<file, cancelled>>
              /\ lost' = lost + 1
              /\ UNCHANGED <<cmd, got>>
    /\ UNCHANGED <<line, made, con, bio, dma, wanted>>

\* Function 6 takes the key.
Swallow ==
    /\ pc = "swallow"
    /\ con' = KeyTaken /\ pc' = "prompt" /\ line' = NoLine
    /\ UNCHANGED <<file, cmd, active, made, bio, dma, events, wanted, history>>

\* The line editor: the user types a command.
Type ==
    /\ pc = "type"
    /\ cmd' \in {"run", "ask", "bad", "toobig", "xsub"} \cup (IF made < Len(Scripts) THEN {"submit"} ELSE {})
    /\ pc' = "dispatch" /\ con' = NoKey
    /\ UNCHANGED <<file, line, active, made, bio, dma, events, wanted, history>>

\* A resident command, or a program, which may take the keys that wait and
\* may give up the batch on an error (PIP does).
Run ==
    /\ pc = "dispatch" /\ cmd = "run"
    /\ pc' \in {"prompt", "boot"} /\ con' \in {con, NoKey}
    /\ \/ UNCHANGED <<file, cancelled>>
       \/ Exists /\ GiveUp
    /\ UNCHANGED <<cmd, line, active, made, bio, dma, events, wanted, got, lost>>

\* CCP_BAD and CS_CANCEL: a submitted command that does not exist.
Bad ==
    /\ pc = "dispatch" /\ cmd = "bad"
    /\ IF ~active
         THEN /\ pc' = "prompt" /\ cancelled' = cancelled \cup {line.batch}
              /\ UNCHANGED <<file, active, events>>
         ELSE /\ active' = FALSE
              /\ \/ /\ file' = NoFile /\ cancelled' = cancelled \cup {line.batch}
                    /\ pc' = "prompt" /\ UNCHANGED events
                 \/ Fails("delete", "prompt") /\ UNCHANGED <<file, cancelled>>
    /\ UNCHANGED <<cmd, line, made, con, bio, dma, wanted, got, lost>>

\* A command file that does not fit overwrites the command processor before
\* that is known (extens.mac, CL_BIG): the warm boot reports it, and CS_CANCEL
\* is not called.
TooBig ==
    /\ pc = "dispatch" /\ cmd = "toobig"
    /\ pc' = "boot" /\ UNCHANGED <<file, memory, history>>

\* XSUB loads BATCHIO and returns through a warm boot.
Xsub ==
    /\ pc = "dispatch" /\ cmd = "xsub"
    /\ bio' \in IF bio.loaded THEN {bio} ELSE {bio, [NoBatchio EXCEPT !.loaded = TRUE]}
    /\ pc' = "boot"
    /\ UNCHANGED <<file, cmd, line, active, made, con, dma, events, wanted, history>>

\* Function 13 and the entry of the command processor (gateway.mac, SYS_ENTER).
\* CCP_SUBACTIVE lies in page zero and keeps its value.
WarmBoot ==
    /\ pc = "boot"
    /\ pc' = "prompt" /\ line' = NoLine /\ dma' = Default
    /\ UNCHANGED <<file, cmd, active, made, con, bio, events, wanted, history>>

-----------------------------------------------------------------------------
(* SUBMIT *)

\* The script is read and expanded before the file is touched.
Submit ==
    /\ pc = "dispatch" /\ cmd = "submit"
    /\ IF made < Len(Scripts)
         THEN \/ pc' = "erase" /\ made' = made + 1 /\ UNCHANGED bio
              \/ Exit /\ UNCHANGED made
         ELSE Exit /\ UNCHANGED made
    /\ line' = NoLine
    /\ UNCHANGED <<file, cmd, active, con, dma, events, wanted, history>>

\* SU_MAKEFILE: whatever batch is left gives way.
Erase ==
    /\ pc = "erase"
    /\ \/ GiveUp /\ pc' = "make" /\ UNCHANGED events
       \/ Exists /\ Fails("delete", "make") /\ UNCHANGED <<file, cancelled>>
    /\ UNCHANGED <<cmd, line, active, made, con, bio, dma, wanted, got, lost>>

\* Function 22 refuses a file that is still there.
Make ==
    /\ pc = "make"
    /\ \/ /\ ~Exists
          /\ file' = [batch |-> made, records |-> 0, count |-> 0] /\ lost' = 0
          /\ pc' = "write" /\ UNCHANGED events
       \/ Exists /\ pc' = "exit" /\ UNCHANGED <<file, lost, events>>
       \/ ~Exists /\ Fails("make", "exit") /\ UNCHANGED <<file, lost>>
    /\ UNCHANGED <<cmd, line, active, made, con, bio, dma, wanted, got, cancelled>>

\* SU_WRITELOOP.  Function 21 publishes the count of an extent it has filled.
Write ==
    /\ pc = "write"
    /\ IF file.records = Size(made) THEN pc' = "close" /\ UNCHANGED <<file, events>>
       ELSE \/ /\ file' = [file EXCEPT !.records = @ + 1,
                                       !.count = IF file.records + 1 = Extent THEN Extent ELSE @]
               /\ UNCHANGED <<pc, events>>
            \/ Fails("write", "remove") /\ UNCHANGED file
    /\ UNCHANGED <<cmd, line, active, made, con, bio, dma, wanted, history>>

\* Mistake: the count includes the record that was not written.
ClosePast ==
    /\ pc = "close"
    /\ \/ /\ file' = [file EXCEPT !.count = file.records + 1]
          /\ pc' = "exit" /\ UNCHANGED events
       \/ Fails("close", "remove") /\ UNCHANGED file
    /\ UNCHANGED <<cmd, line, active, made, con, bio, dma, wanted, history>>

\* SU_CLOSE.
Close ==
    /\ pc = "close"
    /\ \/ /\ file' = [file EXCEPT !.count = IF file.records < Extent THEN file.records ELSE Extent]
          /\ pc' = "exit" /\ UNCHANGED events
       \/ Fails("close", "remove") /\ UNCHANGED file
    /\ UNCHANGED <<cmd, line, active, made, con, bio, dma, wanted, history>>

\* SU_ERROR while the file is not complete.
Remove ==
    /\ pc = "remove"
    /\ \/ GiveUp /\ pc' = "exit" /\ UNCHANGED events
       \/ Fails("delete", "exit") /\ UNCHANGED <<file, cancelled>>
    /\ UNCHANGED <<cmd, line, active, made, con, bio, dma, wanted, got, lost>>

\* SU_SUCCESS and SU_ERRPRINT: SUBMIT ends by function 0.
Leave ==
    /\ pc = "exit" /\ Exit
    /\ UNCHANGED <<file, cmd, line, active, made, con, dma, events, wanted, history>>

-----------------------------------------------------------------------------
(* A program that asks for lines, and BATCHIO *)

Start ==
    /\ pc = "dispatch" /\ cmd = "ask"
    /\ pc' = "ask" /\ wanted' = Default /\ line' = NoLine
    /\ SetDMA(Default)
    /\ UNCHANGED <<file, cmd, active, made, con, events, history>>

\* Functions 26 and 13.
ChooseDMA ==
    /\ pc = "ask"
    /\ \/ SetDMA(Own) /\ wanted' = Own
       \/ dma' = Default /\ wanted' = Any /\ UNCHANGED bio
    /\ UNCHANGED <<file, pc, cmd, line, active, made, con, events, history>>

\* Function 10.
AskLine ==
    /\ pc = "ask"
    /\ pc' = IF bio.loaded THEN "b_read" ELSE "keyboard"
    /\ UNCHANGED <<file, memory, history>>

\* The line is typed; ^C as its first key is a warm boot.
Keyboard ==
    /\ pc = "keyboard"
    /\ pc' \in {"ask"} \cup (IF con.uart = "break" THEN {"boot"} ELSE {}) /\ con' = NoKey
    /\ UNCHANGED <<file, cmd, line, active, made, bio, dma, events, wanted, history>>

\* The program ends: function 0, or a jump to the warm boot.
EndProgram ==
    /\ pc = "ask"
    /\ \/ Exit
       \/ pc' = "boot" /\ UNCHANGED bio
    /\ UNCHANGED <<file, cmd, line, active, made, con, dma, events, wanted, history>>

\* BI_READLN: without a file the keyboard is asked; a file clears BI_IDLE.
BatchRead ==
    /\ pc = "b_read"
    /\ IF ~Exists
         THEN pc' = "keyboard" /\ bio' = [bio EXCEPT !.idle = TRUE] /\ UNCHANGED <<line, events>>
         ELSE /\ bio' = [bio EXCEPT !.idle = FALSE]
              /\ IF file.count = 0 THEN pc' = "b_drop" /\ UNCHANGED <<line, events>>
                 ELSE \/ pc' = "b_echo" /\ line' = LastLine /\ UNCHANGED events
                      \/ Fails("read", "b_drop") /\ UNCHANGED line
    /\ Restore
    /\ UNCHANGED <<file, cmd, active, made, con, wanted, history>>

BatchEcho ==
    /\ pc = "b_echo" /\ Output("b_take")
    /\ UNCHANGED <<file, cmd, line, active, made, bio, dma, events, wanted, history>>

\* BI_CONSUME: the line has been copied to the program already.
BatchTake ==
    /\ pc = "b_take"
    /\ \/ /\ TakeLast /\ pc' = "ask" /\ got' = line /\ lost' = 0 /\ line' = NoLine
          /\ UNCHANGED events
       \/ Fails("close", "b_drop") /\ UNCHANGED <<file, got, lost, line>>
    /\ Restore
    /\ UNCHANGED <<cmd, active, made, con, bio, wanted, cancelled>>

\* BI_BADSUB.
BatchDrop ==
    /\ pc = "b_drop"
    /\ \/ GiveUp /\ pc' = "keyboard" /\ UNCHANGED events
       \/ Fails("delete", "keyboard") /\ UNCHANGED <<file, cancelled>>
    /\ bio' = [bio EXCEPT !.idle = TRUE] /\ line' = NoLine
    /\ Restore
    /\ UNCHANGED <<cmd, active, made, con, wanted, got, lost>>

-----------------------------------------------------------------------------
(* The operator and the power supply *)

Press ==
    /\ con.uart = "none" /\ Happens
    /\ \E k \in Keys : con' = [con EXCEPT !.uart = k]
    /\ UNCHANGED <<file, pc, cmd, line, active, made, bio, dma, wanted, history>>

\* A cold boot begins with an empty profile and may begin with a command.
Reset ==
    /\ Happens
    /\ lost' = IF pc \in {"echo", "check"} THEN lost + 1 ELSE lost
    /\ con' = NoKey /\ dma' = Default /\ line' = NoLine
    /\ bio' = NoBatchio
    /\ active' \in BOOLEAN
    /\ \/ pc' = "prompt" /\ UNCHANGED cmd
       \/ pc' = "dispatch" /\ cmd' \in {"run", "bad", "submit"}
    /\ UNCHANGED <<file, made, wanted, got, cancelled>>

\* The code at work.
Code ==
    \/ Prompt \/ ReadLast \/ Drop \/ Take \/ Echo \/ Check \/ Swallow
    \/ Bad \/ TooBig \/ Xsub \/ WarmBoot
    \/ Submit \/ Erase \/ Make \/ Write \/ Close \/ Remove \/ Leave
    \/ Start \/ BatchRead \/ BatchEcho \/ BatchTake \/ BatchDrop

\* What programs and the operator do, when they like.
Users ==
    \/ Run \/ ChooseDMA \/ AskLine \/ EndProgram
    \/ Type \/ Keyboard \/ Press \/ Reset

Next == Code \/ Users

\* The processor runs; no program has to end and no operator to answer.
Spec == Init /\ [][Next]_vars /\ WF_vars(Code)

-----------------------------------------------------------------------------
(* Properties *)

Stages == {"prompt", "read", "drop", "take", "echo", "check", "swallow", "type", "dispatch",
           "boot", "erase", "make", "write", "close", "remove", "exit", "ask", "keyboard",
           "b_read", "b_echo", "b_take", "b_drop"}
Lines == {NoLine} \cup [batch : Batches, no : Nat \ {0}]

TypeOK ==
    /\ file = NoFile \/ file \in [batch : Batches, records : Nat, count : 0 .. Extent]
    /\ pc \in Stages /\ cmd \in Kinds
    /\ line \in Lines /\ got \in Lines
    /\ active \in BOOLEAN /\ made \in 0 .. Len(Scripts)
    /\ con \in [uart : {"none", "key", "break"}, pending : BOOLEAN]
    /\ bio \in [loaded : BOOLEAN, idle : BOOLEAN, dma : {Default, Own}]
    /\ dma \in {Default, Own, Buffer} /\ wanted \in {Default, Own, Any}
    /\ events \in 0 .. MaxEvents
    /\ lost \in Nat /\ cancelled \subseteq 0 .. Len(Scripts)

\* The lines of a batch are delivered one after the other from the first, as
\* commands or as input, none of them twice and none left out but a line that
\* an interruption met between the file and its execution.
Follows(l) == l.no = (IF l.batch = got.batch THEN got.no ELSE 0) + lost + 1
LinesInOrder ==
    [][got' # got => got'.batch >= got.batch /\ Follows(got')]_vars

\* Once the code has given up a batch - a command that does not exist, a key
\* that waits after the echo, a stream that cannot be used, another batch, a
\* program that deletes it - no line of it is delivered any more, whatever
\* boots come between, unless the very call that deletes its file failed.
\* Three more events should end a batch and are not among these, for the code
\* does nothing about them: CancelledBatches.
CancelledNeverRuns == [][got' # got => got'.batch \notin cancelled]_vars

\* A program that has asked for a line finds the transfer address that it has
\* chosen, although its line came through a record of a file.
AddressKept == pc = "ask" /\ wanted # Any => dma = wanted

\* The stream comes to an end, once calls no longer fail (MaxEvents), unless
\* a program runs on or a line is never typed.
Waiting == pc \in {"ask", "keyboard"} \/ (pc = "dispatch" /\ cmd = "run")
StreamEnds == []<>~Exists \/ <>[]Waiting
=============================================================================
