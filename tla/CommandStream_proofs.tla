------------------------- MODULE CommandStream_proofs -------------------------
(***************************************************************************)
(* For all batches and any number of failures, keys and resets: a program  *)
(* that is fed from a batch keeps its transfer address; the lines of       *)
(* batches that fit into one extent are delivered in order; no line is     *)
(* delivered after the code has given up its batch.                        *)
(***************************************************************************)
EXTENDS CommandStream, TLAPS

\* A batch fits into one directory entry.
Fit == \A b \in Batches : Size(b) <= Extent

IsLine(l) == l \in Lines /\ l.batch \in Batches /\ l.no \in 1 .. Size(l.batch)

\* What the file and its line are at the stages of a command.
FileControl ==
    /\ Exists => file.count <= file.records /\ file.records <= Size(file.batch)
                 /\ file.batch <= made
    /\ pc \in {"write", "close", "remove"} => Exists /\ file.batch = made
    /\ pc \in {"erase", "make"} => made > 0
LineControl ==
    /\ line # NoLine => IsLine(line) /\ line.batch <= made
    /\ pc \in {"take", "b_echo", "b_take"} => Exists /\ file.count > 0 /\ line = LastLine
    /\ pc \in {"echo", "check"} => line # NoLine /\ active
    /\ pc \in {"read", "type"} => line = NoLine
    /\ pc = "dispatch" /\ line # NoLine => active /\ cmd = Kind(line)
ControlInv == FileControl /\ LineControl

\* The transfer address while a program asks for lines.
Asking == {"ask", "keyboard", "b_read", "b_echo", "b_take", "b_drop"}
AddressInv ==
    /\ pc \in Asking /\ wanted # Any => dma = wanted /\ (bio.loaded => bio.dma = wanted)
    /\ pc \in {"b_read", "b_echo", "b_take", "b_drop"} => bio.loaded

\* The line of batch b that was delivered last, and what is to come.
Before(b) == IF b = got.batch THEN got.no ELSE 0
Making == {"erase", "make", "write", "close", "remove"}
QueueInv ==
    /\ got.batch <= made
    /\ Exists => got.batch <= file.batch
    /\ Exists /\ file.count > 0 /\ pc \notin {"echo", "check"} => LastLine.no = Before(file.batch) + lost + 1
    /\ pc \in {"echo", "check"} =>
          /\ got.batch <= line.batch /\ line.no = Before(line.batch) + lost + 1
          /\ Exists => file.batch = line.batch /\ file.count = Size(line.batch) - line.no
    /\ pc \in Making => got.batch < made
    /\ pc \in {"write", "close", "remove"} => lost = 0
    /\ pc = "close" => file.records = Size(made)

\* The batches that are not given up.
GoneInv ==
    /\ \A b \in cancelled : b <= made
    /\ Exists => file.batch \notin cancelled
    /\ pc \in {"echo", "check"} => line.batch \notin cancelled
    /\ pc \in {"erase", "make"} => made \notin cancelled /\ (Exists => file.batch < made)
-----------------------------------------------------------------------------
(* Types and control *)

LEMMA ScriptFacts ==
    /\ Len(Scripts) \in Nat
    /\ Batches \subseteq Nat \ {0}
    /\ \A b \in Batches : Size(b) \in Nat /\ \A n \in 1 .. Size(b) : Scripts[b][n] \in Kinds
  BY StreamAssumption DEF Batches, Size

\* The fields of the file and of the line at its end.
LEMMA FileFields ==
    ASSUME TypeOK
    PROVE  /\ file.batch \in 0 .. Len(Scripts) /\ file.records \in Nat /\ file.count \in 0 .. Extent
           /\ Exists => file.batch \in Batches /\ Size(file.batch) \in Nat
           /\ Exists => file \in [batch : Batches, records : Nat, count : 0 .. Extent]
           /\ ~Exists => file.batch = 0 /\ file.count = 0
  BY ScriptFacts, StreamAssumption DEF TypeOK, Exists, NoFile, Batches

LEMMA LastLineFacts ==
    ASSUME TypeOK, ControlInv, Exists
    PROVE  /\ LastLine.batch = file.batch /\ LastLine.no = Size(file.batch) + 1 - file.count
           /\ file.count > 0 => IsLine(LastLine) /\ LastLine # NoLine
  <1>1. file.count <= file.records /\ file.records <= Size(file.batch)
    BY DEF ControlInv, FileControl, LineControl
  <1>2. LastLine.batch = file.batch /\ LastLine.no = Size(file.batch) + 1 - file.count
    BY DEF LastLine
  <1>3. ASSUME file.count > 0 PROVE IsLine(LastLine) /\ LastLine # NoLine
    <2>1. LastLine.no \in 1 .. Size(file.batch)
      BY <1>1, <1>2, <1>3, FileFields
    <2>2. LastLine \in [batch : Batches, no : Nat \ {0}]
      BY <2>1, <1>2, FileFields DEF LastLine
    <2> QED BY <2>1, <2>2, <1>2, FileFields DEF IsLine, Lines, NoLine
  <1> QED BY <1>2, <1>3

LEMMA LineFields ==
    ASSUME TypeOK, ControlInv
    PROVE  /\ line.batch \in 0 .. Len(Scripts) /\ line.no \in Nat
           /\ line # NoLine => line.batch \in Batches /\ line.no \in 1 .. Size(line.batch) /\ Kind(line) \in Kinds
           /\ line = NoLine => line.batch = 0
           /\ got.batch \in 0 .. Len(Scripts) /\ got.no \in Nat
  BY ScriptFacts DEF TypeOK, ControlInv, FileControl, LineControl, IsLine, Lines, NoLine,
     Kind, Batches

LEMMA TypeInit == Init => TypeOK /\ ControlInv
  <1> SUFFICES ASSUME Init PROVE TypeOK /\ ControlInv
    OBVIOUS
  <1>1. TypeOK
    BY ScriptFacts, StreamAssumption DEF Init, TypeOK, NoFile, NoLine, NoKey, NoBatchio,
       Lines, Stages, Kinds, Default, Own, Buffer, Any
  <1>2. ControlInv
    BY DEF Init, ControlInv, FileControl, LineControl, Exists
  <1> QED BY <1>1, <1>2

FileOK == file = NoFile \/ file \in [batch : Batches, records : Nat, count : 0 .. Extent]
ConOK == con \in [uart : {"none", "key", "break"}, pending : BOOLEAN]
BioOK == bio \in [loaded : BOOLEAN, idle : BOOLEAN, dma : {Default, Own}]

KeyStates == [uart : {"none", "key", "break"}, pending : BOOLEAN]
BioStates == [loaded : BOOLEAN, idle : BOOLEAN, dma : {Default, Own}]

LEMMA Quiet ==
    /\ NoKey \in KeyStates /\ [uart |-> "none", pending |-> TRUE] \in KeyStates
    /\ NoBatchio \in BioStates
  BY DEF NoKey, KeyStates, NoBatchio, BioStates

LEMMA OutputType ==
    ASSUME TypeOK, NEW s \in Stages, Output(s)
    PROVE  pc' \in Stages /\ ConOK'
  <1>1. pc' \in Stages
    BY DEF Output, Stages
  <1>2. con \in KeyStates
    BY DEF TypeOK, KeyStates
  <1>3. con' = con \/ con' = [uart |-> "none", pending |-> TRUE] \/ con' = NoKey
    BY DEF Output
  <1>4. ConOK'
    BY <1>2, <1>3, Quiet DEF ConOK, KeyStates
  <1> QED BY <1>1, <1>4

LEMMA FailsType ==
    ASSUME TypeOK, NEW c, NEW s \in Stages, Fails(c, s)
    PROVE  pc' \in Stages /\ events' \in 0 .. MaxEvents
  <1>1. pc' \in Stages
    BY DEF Fails, Stages
  <1>2. events' = events + 1 /\ events < MaxEvents
    BY DEF Fails, Happens
  <1>3. events \in 0 .. MaxEvents
    BY DEF TypeOK
  <1> QED BY <1>1, <1>2, <1>3, StreamAssumption

LEMMA GiveUpType ==
    ASSUME TypeOK, GiveUp
    PROVE  FileOK' /\ cancelled' \subseteq 0 .. Len(Scripts)
  BY FileFields DEF GiveUp, TypeOK, FileOK

LEMMA TakeLastType ==
    ASSUME TypeOK, TakeLast, Exists, file.count > 0
    PROVE  FileOK'
  <1>1. CASE file.count = 1
    BY <1>1 DEF TakeLast, FileOK
  <1>2. CASE file.count # 1
    <2>1. file' = [file EXCEPT !.count = file.count - 1]
      BY <1>2 DEF TakeLast
    <2>2. file.count - 1 \in 0 .. Extent
      BY FileFields, StreamAssumption
    <2> QED BY <2>1, <2>2, FileFields DEF FileOK
  <1> QED BY <1>1, <1>2

LEMMA SetDMAType ==
    ASSUME TypeOK, NEW a \in {Default, Own}, SetDMA(a)
    PROVE  BioOK' /\ dma' \in {Default, Own, Buffer}
  BY DEF SetDMA, TypeOK, BioOK

LEMMA RestoreType ==
    ASSUME TypeOK, Restore
    PROVE  dma' \in {Default, Own, Buffer}
  BY DEF Restore, TypeOK

LEMMA ExitType ==
    ASSUME TypeOK, Exit
    PROVE  pc' = "boot" /\ BioOK'
  <1>1. pc' = "boot" /\ (bio' = bio \/ bio' = NoBatchio)
    BY DEF Exit
  <1>2. bio \in BioStates
    BY DEF TypeOK, BioStates
  <1> QED BY <1>1, <1>2, Quiet DEF BioOK, BioStates

LEMMA TypeStep ==
    ASSUME TypeOK, ControlInv, Next
    PROVE  TypeOK'
  <1>1. CASE Prompt
    <2>1. pc' \in Stages /\ ConOK'
      BY <1>1, OutputType DEF Prompt, Stages
    <2>2. line' \in Lines /\ active' \in BOOLEAN
      BY <1>1 DEF Prompt, TypeOK, Lines
    <2>3. UNCHANGED <<file, cmd, made, bio, dma, events, wanted, got, lost, cancelled>>
      BY <1>1 DEF Prompt, history
    <2> QED BY <2>1, <2>2, <2>3 DEF TypeOK, FileOK, ConOK, BioOK
  <1>2. CASE ReadLast
    <2>1. BioOK' /\ dma' \in {Default, Own, Buffer}
      BY <1>2, SetDMAType DEF ReadLast
    <2>2. line' \in Lines
      <3>1. line' = line \/ (Exists /\ file.count > 0 /\ line' = LastLine)
        BY <1>2, FileFields DEF ReadLast
      <3> QED BY <3>1, LastLineFacts DEF TypeOK, IsLine
    <2>3. pc' \in Stages /\ events' \in 0 .. MaxEvents
      BY <1>2, FailsType DEF ReadLast, Stages, TypeOK
    <2>4. UNCHANGED <<file, cmd, active, made, con, wanted, got, lost, cancelled>>
      BY <1>2 DEF ReadLast, history
    <2> QED BY <2>1, <2>2, <2>3, <2>4 DEF TypeOK, FileOK, ConOK, BioOK
  <1>3. CASE Drop
    <2>1. FileOK' /\ cancelled' \subseteq 0 .. Len(Scripts)
      BY <1>3, GiveUpType DEF Drop, TypeOK, FileOK
    <2>2. pc' \in Stages /\ events' \in 0 .. MaxEvents
      BY <1>3, FailsType DEF Drop, Stages, TypeOK
    <2>3. line' \in Lines
      BY <1>3 DEF Drop, Lines
    <2>4. UNCHANGED <<cmd, active, made, con, bio, dma, wanted, got, lost>>
      BY <1>3 DEF Drop, history
    <2> QED BY <2>1, <2>2, <2>3, <2>4 DEF TypeOK, FileOK, ConOK, BioOK
  <1>4. CASE Take
    <2>1. FileOK'
      BY <1>4, TakeLastType DEF Take, TypeOK, FileOK, ControlInv, FileControl, LineControl
    <2>2. pc' \in Stages /\ events' \in 0 .. MaxEvents
      BY <1>4, FailsType DEF Take, Stages, TypeOK
    <2>3. active' \in BOOLEAN
      BY <1>4 DEF Take, TypeOK
    <2>4. UNCHANGED <<cmd, line, made, con, bio, dma, wanted, got, lost, cancelled>>
      BY <1>4 DEF Take, history
    <2> QED BY <2>1, <2>2, <2>3, <2>4 DEF TypeOK, FileOK, ConOK, BioOK
  <1>5. CASE Echo
    <2>1. pc' \in Stages /\ ConOK'
      BY <1>5, OutputType DEF Echo, Stages
    <2>2. lost' \in Nat
      BY <1>5 DEF Echo, TypeOK
    <2>3. UNCHANGED <<file, cmd, line, active, made, bio, dma, events, wanted, got, cancelled>>
      BY <1>5 DEF Echo, history
    <2> QED BY <2>1, <2>2, <2>3 DEF TypeOK, FileOK, ConOK, BioOK
  <1>6. CASE Check
    <2>1. FileOK'
      BY <1>6 DEF Check, TypeOK, FileOK
    <2>2. cancelled' \subseteq 0 .. Len(Scripts)
      BY <1>6, LineFields DEF Check, TypeOK
    <2>3. pc' \in Stages /\ events' \in 0 .. MaxEvents
      BY <1>6, FailsType DEF Check, Stages, TypeOK
    <2>4. cmd' \in Kinds
      BY <1>6, LineFields DEF Check, TypeOK, ControlInv, FileControl, LineControl
    <2>5. active' \in BOOLEAN
      BY <1>6 DEF Check, TypeOK
    <2>6. lost' \in Nat
      BY <1>6 DEF Check, TypeOK
    <2>7. got' \in Lines
      BY <1>6 DEF Check, TypeOK
    <2>8. UNCHANGED <<line, made, con, bio, dma, wanted>>
      BY <1>6 DEF Check
    <2> QED BY <2>1, <2>2, <2>3, <2>4, <2>5, <2>6, <2>7, <2>8 DEF TypeOK, FileOK, ConOK,
            BioOK
  <1>7. CASE Swallow
    <2>1. ConOK'
      BY <1>7 DEF Swallow, KeyTaken, NoKey, TypeOK, ConOK
    <2>2. pc' \in Stages /\ line' \in Lines
      BY <1>7 DEF Swallow, Stages, Lines
    <2>3. UNCHANGED <<file, cmd, active, made, bio, dma, events, wanted, got, lost, cancelled>>
      BY <1>7 DEF Swallow, history
    <2> QED BY <2>1, <2>2, <2>3 DEF TypeOK, FileOK, ConOK, BioOK
  <1>8. CASE Run
    <2>1. FileOK' /\ cancelled' \subseteq 0 .. Len(Scripts)
      BY <1>8, GiveUpType DEF Run, TypeOK, FileOK
    <2>2. pc' \in Stages
      BY <1>8 DEF Run, Stages
    <2>3. ConOK'
      <3>1. con' = con \/ con' = NoKey
        BY <1>8 DEF Run
      <3> QED BY <3>1, Quiet DEF TypeOK, ConOK, KeyStates
    <2>4. UNCHANGED <<cmd, line, active, made, bio, dma, events, wanted, got, lost>>
      BY <1>8 DEF Run, history
    <2> QED BY <2>1, <2>2, <2>3, <2>4 DEF TypeOK, FileOK, ConOK, BioOK
  <1>9. CASE Bad
    <2>1. FileOK'
      BY <1>9 DEF Bad, TypeOK, FileOK
    <2>2. cancelled' \subseteq 0 .. Len(Scripts)
      BY <1>9, LineFields DEF Bad, TypeOK
    <2>3. pc' \in Stages /\ events' \in 0 .. MaxEvents
      BY <1>9, FailsType DEF Bad, Stages, TypeOK
    <2>4. active' \in BOOLEAN
      BY <1>9 DEF Bad, TypeOK
    <2>5. UNCHANGED <<cmd, line, made, con, bio, dma, wanted, got, lost>>
      BY <1>9 DEF Bad, history
    <2> QED BY <2>1, <2>2, <2>3, <2>4, <2>5 DEF TypeOK, FileOK, ConOK, BioOK
  <1>10. CASE TooBig
    <2>1. pc' \in Stages
      BY <1>10 DEF TooBig, Stages
    <2>2. UNCHANGED <<file, memory, got, lost, cancelled>>
      BY <1>10 DEF TooBig, history
    <2> QED BY <2>1, <2>2 DEF memory, TypeOK, FileOK, ConOK, BioOK
  <1>11. CASE Xsub
    <2>1. BioOK'
      BY <1>11 DEF Xsub, BioOK, TypeOK, NoBatchio
    <2>2. pc' \in Stages
      BY <1>11 DEF Xsub, Stages
    <2>3. UNCHANGED <<file, cmd, line, active, made, con, dma, events, wanted, got, lost, cancelled>>
      BY <1>11 DEF Xsub, history
    <2> QED BY <2>1, <2>2, <2>3 DEF TypeOK, FileOK, ConOK, BioOK
  <1>12. CASE WarmBoot
    <2>1. pc' \in Stages /\ line' \in Lines /\ dma' \in {Default, Own, Buffer}
      BY <1>12 DEF WarmBoot, Stages, Lines
    <2>2. UNCHANGED <<file, cmd, active, made, con, bio, events, wanted, got, lost, cancelled>>
      BY <1>12 DEF WarmBoot, history
    <2> QED BY <2>1, <2>2 DEF TypeOK, FileOK, ConOK, BioOK
  <1>13. CASE Submit
    <2>1. pc' \in Stages /\ BioOK'
      BY <1>13, ExitType DEF Submit, Stages, TypeOK, BioOK
    <2>2. made' \in 0 .. Len(Scripts)
      BY <1>13, ScriptFacts DEF Submit, TypeOK
    <2>3. line' \in Lines
      BY <1>13 DEF Submit, Lines
    <2>4. UNCHANGED <<file, cmd, active, con, dma, events, wanted, got, lost, cancelled>>
      BY <1>13 DEF Submit, history
    <2> QED BY <2>1, <2>2, <2>3, <2>4 DEF TypeOK, FileOK, ConOK, BioOK
  <1>14. CASE Erase
    <2>1. FileOK' /\ cancelled' \subseteq 0 .. Len(Scripts)
      BY <1>14, GiveUpType DEF Erase, TypeOK, FileOK
    <2>2. pc' \in Stages /\ events' \in 0 .. MaxEvents
      BY <1>14, FailsType DEF Erase, Stages, TypeOK
    <2>3. UNCHANGED <<cmd, line, active, made, con, bio, dma, wanted, got, lost>>
      BY <1>14 DEF Erase, history
    <2> QED BY <2>1, <2>2, <2>3 DEF TypeOK, FileOK, ConOK, BioOK
  <1>15. CASE Make
    <2>1. FileOK'
      BY <1>15, ScriptFacts, StreamAssumption DEF Make, TypeOK, FileOK, ControlInv,
         FileControl, LineControl, Batches
    <2>2. lost' \in Nat
      BY <1>15 DEF Make, TypeOK
    <2>3. pc' \in Stages /\ events' \in 0 .. MaxEvents
      BY <1>15, FailsType DEF Make, Stages, TypeOK
    <2>4. UNCHANGED <<cmd, line, active, made, con, bio, dma, wanted, got, cancelled>>
      BY <1>15 DEF Make, history
    <2> QED BY <2>1, <2>2, <2>3, <2>4 DEF TypeOK, FileOK, ConOK, BioOK
  <1>16. CASE Write
    <2>1. FileOK'
      <3>1. Exists
        BY <1>16 DEF Write, ControlInv, FileControl, LineControl
      <3>2. \/ file' = file
            \/ file' = [file EXCEPT !.records = file.records + 1,
                                    !.count = IF file.records + 1 = Extent THEN Extent ELSE file.count]
        BY <1>16 DEF Write
      <3>3. file.records + 1 \in Nat
            /\ (IF file.records + 1 = Extent THEN Extent ELSE file.count) \in 0 .. Extent
        BY FileFields, StreamAssumption
      <3> QED BY <3>1, <3>2, <3>3, FileFields DEF FileOK
    <2>2. pc' \in Stages /\ events' \in 0 .. MaxEvents
      BY <1>16, FailsType DEF Write, Stages, TypeOK
    <2>3. UNCHANGED <<cmd, line, active, made, con, bio, dma, wanted, got, lost, cancelled>>
      BY <1>16 DEF Write, history
    <2> QED BY <2>1, <2>2, <2>3 DEF TypeOK, FileOK, ConOK, BioOK
  <1>17. CASE Close
    <2>1. FileOK'
      <3>1. Exists
        BY <1>17 DEF Close, ControlInv, FileControl, LineControl
      <3>2. (IF file.records < Extent THEN file.records ELSE Extent) \in 0 .. Extent
        BY FileFields, StreamAssumption
      <3>3. file' = file \/ file' = [file EXCEPT !.count = IF file.records < Extent THEN file.records ELSE Extent]
        BY <1>17 DEF Close
      <3> QED BY <3>1, <3>2, <3>3, FileFields DEF FileOK
    <2>2. pc' \in Stages /\ events' \in 0 .. MaxEvents
      BY <1>17, FailsType DEF Close, Stages, TypeOK
    <2>3. UNCHANGED <<cmd, line, active, made, con, bio, dma, wanted, got, lost, cancelled>>
      BY <1>17 DEF Close, history
    <2> QED BY <2>1, <2>2, <2>3 DEF TypeOK, FileOK, ConOK, BioOK
  <1>18. CASE Remove
    <2>1. FileOK' /\ cancelled' \subseteq 0 .. Len(Scripts)
      BY <1>18, GiveUpType DEF Remove, TypeOK, FileOK
    <2>2. pc' \in Stages /\ events' \in 0 .. MaxEvents
      BY <1>18, FailsType DEF Remove, Stages, TypeOK
    <2>3. UNCHANGED <<cmd, line, active, made, con, bio, dma, wanted, got, lost>>
      BY <1>18 DEF Remove, history
    <2> QED BY <2>1, <2>2, <2>3 DEF TypeOK, FileOK, ConOK, BioOK
  <1>19. CASE Leave
    <2>1. pc' \in Stages /\ BioOK'
      BY <1>19, ExitType DEF Leave, Stages
    <2>2. UNCHANGED <<file, cmd, line, active, made, con, dma, events, wanted, got, lost, cancelled>>
      BY <1>19 DEF Leave, history
    <2> QED BY <2>1, <2>2 DEF TypeOK, FileOK, ConOK, BioOK
  <1>20. CASE Start
    <2>1. BioOK' /\ dma' \in {Default, Own, Buffer}
      BY <1>20, SetDMAType DEF Start
    <2>2. pc' \in Stages /\ line' \in Lines /\ wanted' \in {Default, Own, Any}
      BY <1>20 DEF Start, Stages, Lines
    <2>3. UNCHANGED <<file, cmd, active, made, con, events, got, lost, cancelled>>
      BY <1>20 DEF Start, history
    <2> QED BY <2>1, <2>2, <2>3 DEF TypeOK, FileOK, ConOK, BioOK
  <1>21. CASE Keyboard
    <2>1. pc' \in Stages
      BY <1>21 DEF Keyboard, Stages
    <2>2. ConOK'
      BY <1>21 DEF Keyboard, ConOK, NoKey
    <2>3. UNCHANGED <<file, cmd, line, active, made, bio, dma, events, wanted, got, lost, cancelled>>
      BY <1>21 DEF Keyboard, history
    <2> QED BY <2>1, <2>2, <2>3 DEF TypeOK, FileOK, ConOK, BioOK
  <1>22. CASE BatchRead
    <2>1. dma' \in {Default, Own, Buffer}
      BY <1>22, RestoreType DEF BatchRead
    <2>2. BioOK'
      BY <1>22 DEF BatchRead, TypeOK, BioOK
    <2>3. line' \in Lines
      <3>1. line' = line \/ (Exists /\ file.count > 0 /\ line' = LastLine)
        BY <1>22, FileFields DEF BatchRead
      <3> QED BY <3>1, LastLineFacts DEF TypeOK, IsLine
    <2>4. pc' \in Stages /\ events' \in 0 .. MaxEvents
      BY <1>22, FailsType DEF BatchRead, Stages, TypeOK
    <2>5. UNCHANGED <<file, cmd, active, made, con, wanted, got, lost, cancelled>>
      BY <1>22 DEF BatchRead, history
    <2> QED BY <2>1, <2>2, <2>3, <2>4, <2>5 DEF TypeOK, FileOK, ConOK, BioOK
  <1>23. CASE BatchEcho
    <2>1. pc' \in Stages /\ ConOK'
      BY <1>23, OutputType DEF BatchEcho, Stages
    <2>2. UNCHANGED <<file, cmd, line, active, made, bio, dma, events, wanted, got, lost, cancelled>>
      BY <1>23 DEF BatchEcho, history
    <2> QED BY <2>1, <2>2 DEF TypeOK, FileOK, ConOK, BioOK
  <1>24. CASE BatchTake
    <2>1. FileOK'
      BY <1>24, TakeLastType DEF BatchTake, TypeOK, FileOK, ControlInv, FileControl,
         LineControl
    <2>2. pc' \in Stages /\ events' \in 0 .. MaxEvents
      BY <1>24, FailsType DEF BatchTake, Stages, TypeOK
    <2>3. dma' \in {Default, Own, Buffer}
      BY <1>24, RestoreType DEF BatchTake
    <2>4. got' \in Lines /\ lost' \in Nat /\ line' \in Lines
      BY <1>24 DEF BatchTake, TypeOK, Lines
    <2>5. UNCHANGED <<cmd, active, made, con, bio, wanted, cancelled>>
      BY <1>24 DEF BatchTake, history
    <2> QED BY <2>1, <2>2, <2>3, <2>4, <2>5 DEF TypeOK, FileOK, ConOK, BioOK
  <1>25. CASE BatchDrop
    <2>1. FileOK' /\ cancelled' \subseteq 0 .. Len(Scripts)
      BY <1>25, GiveUpType DEF BatchDrop, TypeOK, FileOK
    <2>2. pc' \in Stages /\ events' \in 0 .. MaxEvents
      BY <1>25, FailsType DEF BatchDrop, Stages, TypeOK
    <2>3. dma' \in {Default, Own, Buffer}
      BY <1>25, RestoreType DEF BatchDrop
    <2>4. BioOK'
      BY <1>25 DEF BatchDrop, TypeOK, BioOK
    <2>5. line' \in Lines
      BY <1>25 DEF BatchDrop, Lines
    <2>6. UNCHANGED <<cmd, active, made, con, wanted, got, lost>>
      BY <1>25 DEF BatchDrop, history
    <2> QED BY <2>1, <2>2, <2>3, <2>4, <2>5, <2>6 DEF TypeOK, FileOK, ConOK, BioOK
  <1>26. CASE Type
    <2>1. cmd' \in Kinds
      BY <1>26 DEF Type, Kinds
    <2>2. pc' \in Stages
      BY <1>26 DEF Type, Stages
    <2>3. ConOK'
      BY <1>26 DEF Type, ConOK, NoKey
    <2>4. UNCHANGED <<file, line, active, made, bio, dma, events, wanted, got, lost, cancelled>>
      BY <1>26 DEF Type, history
    <2> QED BY <2>1, <2>2, <2>3, <2>4 DEF TypeOK, FileOK, ConOK, BioOK
  <1>27. CASE ChooseDMA
    <2>1. BioOK' /\ dma' \in {Default, Own, Buffer}
      BY <1>27, SetDMAType DEF ChooseDMA, TypeOK, BioOK
    <2>2. wanted' \in {Default, Own, Any}
      BY <1>27 DEF ChooseDMA
    <2>3. UNCHANGED <<file, pc, cmd, line, active, made, con, events, got, lost, cancelled>>
      BY <1>27 DEF ChooseDMA, history
    <2> QED BY <2>1, <2>2, <2>3 DEF TypeOK, FileOK, ConOK, BioOK
  <1>28. CASE AskLine
    <2>1. pc' \in Stages
      BY <1>28 DEF AskLine, Stages
    <2>2. UNCHANGED <<file, cmd, line, active, made, con, bio, dma, events, wanted, got, lost, cancelled>>
      BY <1>28 DEF AskLine, history, memory
    <2> QED BY <2>1, <2>2 DEF TypeOK, FileOK, ConOK, BioOK
  <1>29. CASE EndProgram
    <2>1. pc' \in Stages /\ BioOK'
      BY <1>29, ExitType DEF EndProgram, Stages, TypeOK, BioOK
    <2>2. UNCHANGED <<file, cmd, line, active, made, con, dma, events, wanted, got, lost, cancelled>>
      BY <1>29 DEF EndProgram, history
    <2> QED BY <2>1, <2>2 DEF TypeOK, FileOK, ConOK, BioOK
  <1>30. CASE Press
    <2>1. ConOK'
      BY <1>30, StreamAssumption DEF Press, TypeOK, ConOK
    <2>2. events' \in 0 .. MaxEvents
      BY <1>30, StreamAssumption DEF Press, TypeOK, Happens
    <2>3. UNCHANGED <<file, pc, cmd, line, active, made, bio, dma, wanted, got, lost, cancelled>>
      BY <1>30 DEF Press, history
    <2> QED BY <2>1, <2>2, <2>3 DEF TypeOK, FileOK, ConOK, BioOK
  <1>31. CASE Reset
    <2>1. pc' \in Stages
      BY <1>31 DEF Reset, Stages
    <2>2. cmd' \in Kinds
      BY <1>31 DEF Reset, TypeOK, Kinds
    <2>3. ConOK'
      BY <1>31 DEF Reset, ConOK, NoKey
    <2>4. dma' \in {Default, Own, Buffer} /\ line' \in Lines
      BY <1>31 DEF Reset, Lines
    <2>5. BioOK'
      BY <1>31 DEF Reset, BioOK, NoBatchio
    <2>6. active' \in BOOLEAN
      BY <1>31 DEF Reset
    <2>7. events' \in 0 .. MaxEvents
      BY <1>31, StreamAssumption DEF Reset, TypeOK, Happens
    <2>8. lost' \in Nat
      BY <1>31 DEF Reset, TypeOK
    <2>9. UNCHANGED <<file, made, wanted, got, cancelled>>
      BY <1>31 DEF Reset, history
    <2> QED BY <2>1, <2>2, <2>3, <2>4, <2>5, <2>6, <2>7, <2>8, <2>9 DEF TypeOK, FileOK,
            ConOK, BioOK
  <1> QED BY <1>1, <1>2, <1>3, <1>4, <1>5, <1>6, <1>7, <1>8, <1>9, <1>10, <1>11, <1>12,
          <1>13, <1>14, <1>15, <1>16, <1>17, <1>18, <1>19, <1>20, <1>21, <1>22, <1>23,
          <1>24, <1>25, <1>26, <1>27, <1>28, <1>29, <1>30, <1>31 DEF Next, Code, Users

LEMMA MadeFacts ==
    ASSUME TypeOK
    PROVE  made \in 0 .. Len(Scripts) /\ (made > 0 => made \in Batches /\ Size(made) \in Nat)
  BY ScriptFacts DEF TypeOK, Batches

\* What the actions that change the file make of its fields.
LEMMA TakeLastFields ==
    ASSUME TypeOK, Exists, file.count > 0, TakeLast
    PROVE  \/ file' = NoFile
           \/ /\ file'.batch = file.batch /\ file'.records = file.records
              /\ file'.count = file.count - 1 /\ file.count > 1
  <1>1. CASE file.count = 1
    BY <1>1 DEF TakeLast
  <1>2. CASE file.count # 1
    <2>1. file' = [file EXCEPT !.count = file.count - 1]
      BY <1>2 DEF TakeLast
    <2>2. file.count > 1
      BY <1>2, FileFields, StreamAssumption
    <2> QED BY <2>1, <2>2, FileFields
  <1> QED BY <1>1, <1>2

LEMMA MakeFields ==
    ASSUME TypeOK, ControlInv, Make
    PROVE  \/ file' = file /\ lost' = lost /\ pc' \in {"exit", "boot"}
           \/ /\ pc' = "write" /\ lost' = 0 /\ Exists'
              /\ file'.batch = made /\ file'.records = 0 /\ file'.count = 0
  <1>1. made \in Nat \ {0}
    BY MadeFacts DEF ControlInv, FileControl, Make
  <1>2. CASE file' = [batch |-> made, records |-> 0, count |-> 0] /\ lost' = 0 /\ pc' = "write"
    BY <1>1, <1>2 DEF Exists, NoFile
  <1>3. CASE UNCHANGED <<file, lost>> /\ pc' \in {"exit", "boot"}
    BY <1>3
  <1> QED BY <1>2, <1>3 DEF Make, Fails

LEMMA WriteFields ==
    ASSUME TypeOK, ControlInv, Write
    PROVE  /\ Exists /\ Exists' /\ file.batch = made /\ file'.batch = made /\ made \in Batches
           /\ \/ file' = file /\ pc' \in {"remove", "boot"}
              \/ file' = file /\ pc' = "close" /\ file.records = Size(made)
              \/ /\ file.records # Size(made) /\ file'.records = file.records + 1 /\ pc' = "write"
                 /\ file'.count = IF file.records + 1 = Extent THEN Extent ELSE file.count
  <1>1. Exists /\ file.batch = made /\ made \in Batches
    BY FileFields DEF Write, ControlInv, FileControl
  <1>2. CASE file' = file
    <2>1. Exists'
      BY <1>1, <1>2 DEF Exists, NoFile
    <2>2. \/ file.records # Size(made) /\ pc' \in {"remove", "boot"}
          \/ file.records = Size(made) /\ pc' = "close"
      <3>1. CASE file.records = Size(made)
        BY <3>1 DEF Write
      <3>2. CASE file.records # Size(made) /\ Fails("write", "remove")
        BY <3>2 DEF Fails
      <3>3. CASE file' = [file EXCEPT !.records = file.records + 1,
                             !.count = IF file.records + 1 = Extent THEN Extent ELSE file.count]
        <4>1. file'.records = file.records + 1
          BY <1>1, <3>3, FileFields
        <4> QED BY <1>2, <4>1, FileFields
      <3> QED BY <3>1, <3>2, <3>3 DEF Write
    <2> QED BY <1>1, <1>2, <2>1, <2>2
  <1>3. CASE file' # file
    <2>1. /\ file' = [file EXCEPT !.records = file.records + 1,
                          !.count = IF file.records + 1 = Extent THEN Extent ELSE file.count]
          /\ file.records # Size(made) /\ pc' = "write"
      BY <1>3 DEF Write
    <2>2. file'.records = file.records + 1 /\ file'.batch = made
          /\ file'.count = IF file.records + 1 = Extent THEN Extent ELSE file.count
      BY <1>1, <2>1, FileFields
    <2>3. Exists'
      BY <1>1, <2>2, ScriptFacts DEF Exists, NoFile
    <2> QED BY <1>1, <2>1, <2>2, <2>3
  <1> QED BY <1>2, <1>3

LEMMA CloseFields ==
    ASSUME TypeOK, ControlInv, Close
    PROVE  /\ Exists /\ Exists' /\ file.batch = made /\ file'.batch = made /\ made \in Batches
           /\ file'.records = file.records
           /\ \/ file' = file /\ pc' \in {"remove", "boot"}
              \/ /\ file'.count = IF file.records < Extent THEN file.records ELSE Extent
                 /\ pc' = "exit"
  <1>1. Exists /\ file.batch = made /\ made \in Batches
    BY FileFields DEF Close, ControlInv, FileControl
  <1>2. CASE file' = file /\ pc' \in {"remove", "boot"}
    BY <1>1, <1>2 DEF Exists, NoFile
  <1>3. CASE /\ file' = [file EXCEPT !.count = IF file.records < Extent THEN file.records ELSE Extent]
             /\ pc' = "exit"
    <2>1. file'.records = file.records /\ file'.batch = made
          /\ file'.count = IF file.records < Extent THEN file.records ELSE Extent
      BY <1>1, <1>3, FileFields
    <2>2. Exists'
      BY <1>1, <2>1, ScriptFacts DEF Exists, NoFile
    <2> QED BY <1>1, <1>3, <2>1, <2>2
  <1> QED BY <1>2, <1>3 DEF Close, Fails

LEMMA FileStep ==
    ASSUME TypeOK, ControlInv, Next
    PROVE  FileControl'
  <1>1. CASE Prompt
    BY <1>1, FileFields DEF Prompt, Output, NoKey, ControlInv, FileControl, history, Exists,
       NoFile
  <1>2. CASE ReadLast
    BY <1>2, FileFields DEF ReadLast, SetDMA, Fails, Happens, ControlInv, FileControl,
       history, Exists, NoFile
  <1>3. CASE Drop
    BY <1>3, FileFields DEF Drop, GiveUp, Fails, Happens, ControlInv, FileControl, history,
       Exists, NoFile
  <1>4. CASE Take
    <2>1. /\ Exists /\ file.count > 0 /\ (file' = file \/ TakeLast) /\ made' = made
          /\ pc' \in {"echo", "drop", "boot", "ask", "b_drop"}
      BY <1>4 DEF Take, Fails, ControlInv, LineControl
    <2> QED BY <2>1, TakeLastFields, FileFields DEF ControlInv, FileControl, Exists, NoFile
  <1>5. CASE Echo
    BY <1>5, FileFields DEF Echo, Output, NoKey, ControlInv, FileControl, history, Exists,
       NoFile
  <1>6. CASE Check
    BY <1>6, FileFields DEF Check, Fails, Happens, NoKey, ControlInv, FileControl, history,
       Exists, NoFile
  <1>7. CASE Swallow
    BY <1>7, FileFields DEF Swallow, KeyTaken, NoKey, ControlInv, FileControl, history,
       Exists, NoFile
  <1>8. CASE Run
    BY <1>8, FileFields DEF Run, GiveUp, NoKey, ControlInv, FileControl, history, Exists,
       NoFile
  <1>9. CASE Bad
    BY <1>9, FileFields DEF Bad, Fails, Happens, ControlInv, FileControl, history, Exists,
       NoFile
  <1>10. CASE TooBig
    BY <1>10, FileFields DEF TooBig, memory, ControlInv, FileControl, history, Exists,
       NoFile
  <1>11. CASE Xsub
    BY <1>11, FileFields DEF Xsub, NoBatchio, ControlInv, FileControl, history, Exists,
       NoFile
  <1>12. CASE WarmBoot
    BY <1>12, FileFields DEF WarmBoot, ControlInv, FileControl, history, Exists, NoFile
  <1>13. CASE Submit
    BY <1>13, MadeFacts, FileFields DEF Submit, Exit, ControlInv, FileControl, Exists
  <1>14. CASE Erase
    BY <1>14, FileFields DEF Erase, GiveUp, Fails, Happens, ControlInv, FileControl,
       history, Exists, NoFile
  <1>15. CASE Make
    <2>1. made' = made /\ made \in Nat /\ Size(made) \in Nat
      BY <1>15, MadeFacts DEF Make, ControlInv, FileControl
    <2> QED BY <1>15, <2>1, MakeFields DEF ControlInv, FileControl, Exists
  <1>16. CASE Write
    <2>1. made' = made /\ made \in Batches
      BY <1>16, WriteFields DEF Write
    <2>2. made \in Nat /\ Size(made) \in Nat
      BY <2>1, ScriptFacts
    <2> QED BY <1>16, <2>1, <2>2, WriteFields, FileFields, StreamAssumption DEF ControlInv,
            FileControl, Exists
  <1>17. CASE Close
    <2>1. made' = made /\ made \in Batches
      BY <1>17, CloseFields DEF Close
    <2>2. made \in Nat /\ Size(made) \in Nat
      BY <2>1, ScriptFacts
    <2> QED BY <1>17, <2>1, <2>2, CloseFields, FileFields, StreamAssumption DEF ControlInv,
            FileControl, Exists
  <1>18. CASE Remove
    BY <1>18, FileFields DEF Remove, GiveUp, Fails, Happens, ControlInv, FileControl,
       history, Exists, NoFile
  <1>19. CASE Leave
    BY <1>19, FileFields DEF Leave, Exit, NoBatchio, ControlInv, FileControl, history,
       Exists, NoFile
  <1>20. CASE Start
    BY <1>20, FileFields DEF Start, SetDMA, ControlInv, FileControl, history, Exists, NoFile
  <1>21. CASE Keyboard
    BY <1>21, FileFields DEF Keyboard, NoKey, ControlInv, FileControl, history, Exists,
       NoFile
  <1>22. CASE BatchRead
    BY <1>22, FileFields DEF BatchRead, Restore, Fails, Happens, ControlInv, FileControl,
       history, Exists, NoFile
  <1>23. CASE BatchEcho
    BY <1>23, FileFields DEF BatchEcho, Output, NoKey, ControlInv, FileControl, history,
       Exists, NoFile
  <1>24. CASE BatchTake
    <2>1. /\ Exists /\ file.count > 0 /\ (file' = file \/ TakeLast) /\ made' = made
          /\ pc' \in {"echo", "drop", "boot", "ask", "b_drop"}
      BY <1>24 DEF BatchTake, Fails, ControlInv, LineControl
    <2> QED BY <2>1, TakeLastFields, FileFields DEF ControlInv, FileControl, Exists, NoFile
  <1>25. CASE BatchDrop
    BY <1>25, FileFields DEF BatchDrop, GiveUp, Restore, Fails, Happens, ControlInv,
       FileControl, history, Exists, NoFile
  <1>26. CASE Type
    BY <1>26, FileFields DEF Type, NoKey, ControlInv, FileControl, history, Exists, NoFile
  <1>27. CASE ChooseDMA
    BY <1>27, FileFields DEF ChooseDMA, SetDMA, ControlInv, FileControl, history, Exists,
       NoFile
  <1>28. CASE AskLine
    BY <1>28, FileFields DEF AskLine, memory, ControlInv, FileControl, history, Exists,
       NoFile
  <1>29. CASE EndProgram
    BY <1>29, FileFields DEF EndProgram, Exit, NoBatchio, ControlInv, FileControl, history,
       Exists, NoFile
  <1>30. CASE Press
    BY <1>30, FileFields DEF Press, Happens, ControlInv, FileControl, history, Exists,
       NoFile
  <1>31. CASE Reset
    BY <1>31, FileFields DEF Reset, Happens, NoKey, NoBatchio, ControlInv, FileControl,
       history, Exists, NoFile
  <1> QED BY <1>1, <1>2, <1>3, <1>4, <1>5, <1>6, <1>7, <1>8, <1>9, <1>10, <1>11, <1>12,
          <1>13, <1>14, <1>15, <1>16, <1>17, <1>18, <1>19, <1>20, <1>21, <1>22, <1>23,
          <1>24, <1>25, <1>26, <1>27, <1>28, <1>29, <1>30, <1>31 DEF Next, Code, Users

LEMMA LineStep ==
    ASSUME TypeOK, ControlInv, Next
    PROVE  LineControl'
  <1>1. CASE Prompt
    BY <1>1, LastLineFacts, LineFields, MadeFacts DEF Prompt, Output, NoKey, ControlInv,
       LineControl, history, Exists, NoFile, NoLine, LastLine, IsLine, Kind
  <1>2. CASE ReadLast
    <2>1. UNCHANGED <<file, cmd, active, made>>
      BY <1>2 DEF ReadLast, history
    <2>2. CASE Exists /\ file.count > 0 /\ line' = LastLine /\ pc' \in {"take", "b_echo"}
      <3>1. (IsLine(line) /\ line = LastLine /\ line.batch <= made)'
        BY <2>1, <2>2, LastLineFacts DEF LastLine, IsLine, Lines, ControlInv, FileControl
      <3> QED BY <2>1, <2>2, <3>1 DEF LineControl, Exists
    <2>3. CASE line' = line /\ pc' \in {"type", "drop", "boot"}
      BY <2>1, <2>3, <1>2 DEF ControlInv, LineControl, IsLine, ReadLast
    <2>4. file.count \in Nat
      BY FileFields, StreamAssumption
    <2> QED BY <1>2, <2>2, <2>3, <2>4 DEF ReadLast, Fails
  <1>3. CASE Drop
    BY <1>3, LastLineFacts, LineFields, MadeFacts DEF Drop, GiveUp, Fails, Happens,
       ControlInv, LineControl, history, Exists, NoFile, NoLine, LastLine, IsLine, Kind
  <1>4. CASE Take
    BY <1>4, LastLineFacts, LineFields, MadeFacts DEF Take, TakeLast, Fails, Happens,
       ControlInv, LineControl, history, Exists, NoFile, NoLine, LastLine, IsLine, Kind
  <1>5. CASE Echo
    BY <1>5, LastLineFacts, LineFields, MadeFacts DEF Echo, Output, NoKey, ControlInv,
       LineControl, history, Exists, NoFile, NoLine, LastLine, IsLine, Kind
  <1>6. CASE Check
    BY <1>6, LastLineFacts, LineFields, MadeFacts DEF Check, Fails, Happens, NoKey,
       ControlInv, LineControl, history, Exists, NoFile, NoLine, LastLine, IsLine, Kind
  <1>7. CASE Swallow
    BY <1>7, LastLineFacts, LineFields, MadeFacts DEF Swallow, KeyTaken, NoKey, ControlInv,
       LineControl, history, Exists, NoFile, NoLine, LastLine, IsLine, Kind
  <1>8. CASE Run
    BY <1>8, LastLineFacts, LineFields, MadeFacts DEF Run, GiveUp, NoKey, ControlInv,
       LineControl, history, Exists, NoFile, NoLine, LastLine, IsLine, Kind
  <1>9. CASE Bad
    BY <1>9, LastLineFacts, LineFields, MadeFacts DEF Bad, Fails, Happens, ControlInv,
       LineControl, history, Exists, NoFile, NoLine, LastLine, IsLine, Kind
  <1>10. CASE TooBig
    BY <1>10, LastLineFacts, LineFields, MadeFacts DEF TooBig, memory, ControlInv,
       LineControl, history, Exists, NoFile, NoLine, LastLine, IsLine, Kind
  <1>11. CASE Xsub
    BY <1>11, LastLineFacts, LineFields, MadeFacts DEF Xsub, NoBatchio, ControlInv,
       LineControl, history, Exists, NoFile, NoLine, LastLine, IsLine, Kind
  <1>12. CASE WarmBoot
    BY <1>12, LastLineFacts, LineFields, MadeFacts DEF WarmBoot, ControlInv, LineControl,
       history, Exists, NoFile, NoLine, LastLine, IsLine, Kind
  <1>13. CASE Submit
    BY <1>13, LastLineFacts, LineFields, MadeFacts DEF Submit, Exit, NoBatchio, ControlInv,
       LineControl, history, Exists, NoFile, NoLine, LastLine, IsLine, Kind
  <1>14. CASE Erase
    BY <1>14, LastLineFacts, LineFields, MadeFacts DEF Erase, GiveUp, Fails, Happens,
       ControlInv, LineControl, history, Exists, NoFile, NoLine, LastLine, IsLine, Kind
  <1>15. CASE Make
    BY <1>15, LastLineFacts, LineFields, MadeFacts DEF Make, Fails, Happens, ControlInv,
       LineControl, history, Exists, NoFile, NoLine, LastLine, IsLine, Kind
  <1>16. CASE Write
    BY <1>16, LastLineFacts, LineFields, MadeFacts DEF Write, Fails, Happens, ControlInv,
       LineControl, history, Exists, NoFile, NoLine, LastLine, IsLine, Kind
  <1>17. CASE Close
    BY <1>17, LastLineFacts, LineFields, MadeFacts DEF Close, Fails, Happens, ControlInv,
       LineControl, history, Exists, NoFile, NoLine, LastLine, IsLine, Kind
  <1>18. CASE Remove
    BY <1>18, LastLineFacts, LineFields, MadeFacts DEF Remove, GiveUp, Fails, Happens,
       ControlInv, LineControl, history, Exists, NoFile, NoLine, LastLine, IsLine, Kind
  <1>19. CASE Leave
    BY <1>19, LastLineFacts, LineFields, MadeFacts DEF Leave, Exit, NoBatchio, ControlInv,
       LineControl, history, Exists, NoFile, NoLine, LastLine, IsLine, Kind
  <1>20. CASE Start
    BY <1>20, LastLineFacts, LineFields, MadeFacts DEF Start, SetDMA, ControlInv,
       LineControl, history, Exists, NoFile, NoLine, LastLine, IsLine, Kind
  <1>21. CASE Keyboard
    BY <1>21, LastLineFacts, LineFields, MadeFacts DEF Keyboard, NoKey, ControlInv,
       LineControl, history, Exists, NoFile, NoLine, LastLine, IsLine, Kind
  <1>22. CASE BatchRead
    <2>1. UNCHANGED <<file, cmd, active, made>>
      BY <1>22 DEF BatchRead, history
    <2>2. CASE Exists /\ file.count > 0 /\ line' = LastLine /\ pc' \in {"take", "b_echo"}
      <3>1. (IsLine(line) /\ line = LastLine /\ line.batch <= made)'
        BY <2>1, <2>2, LastLineFacts DEF LastLine, IsLine, Lines, ControlInv, FileControl
      <3> QED BY <2>1, <2>2, <3>1 DEF LineControl, Exists
    <2>3. CASE line' = line /\ pc' \in {"keyboard", "b_drop", "boot"}
      BY <2>1, <2>3, <1>22 DEF ControlInv, LineControl, IsLine
    <2>4. file.count \in Nat
      BY FileFields, StreamAssumption
    <2> QED BY <1>22, <2>2, <2>3, <2>4 DEF BatchRead, Fails
  <1>23. CASE BatchEcho
    BY <1>23, LastLineFacts, LineFields, MadeFacts DEF BatchEcho, Output, NoKey, ControlInv,
       LineControl, history, Exists, NoFile, NoLine, LastLine, IsLine, Kind
  <1>24. CASE BatchTake
    BY <1>24, LastLineFacts, LineFields, MadeFacts DEF BatchTake, TakeLast, Restore, Fails,
       Happens, ControlInv, LineControl, history, Exists, NoFile, NoLine, LastLine, IsLine,
       Kind
  <1>25. CASE BatchDrop
    BY <1>25, LastLineFacts, LineFields, MadeFacts DEF BatchDrop, GiveUp, Restore, Fails,
       Happens, ControlInv, LineControl, history, Exists, NoFile, NoLine, LastLine, IsLine,
       Kind
  <1>26. CASE Type
    BY <1>26, LastLineFacts, LineFields, MadeFacts DEF Type, NoKey, ControlInv, LineControl,
       history, Exists, NoFile, NoLine, LastLine, IsLine, Kind
  <1>27. CASE ChooseDMA
    BY <1>27, LastLineFacts, LineFields, MadeFacts DEF ChooseDMA, SetDMA, ControlInv,
       LineControl, history, Exists, NoFile, NoLine, LastLine, IsLine, Kind
  <1>28. CASE AskLine
    BY <1>28, LastLineFacts, LineFields, MadeFacts DEF AskLine, memory, ControlInv,
       LineControl, history, Exists, NoFile, NoLine, LastLine, IsLine, Kind
  <1>29. CASE EndProgram
    BY <1>29, LastLineFacts, LineFields, MadeFacts DEF EndProgram, Exit, NoBatchio,
       ControlInv, LineControl, history, Exists, NoFile, NoLine, LastLine, IsLine, Kind
  <1>30. CASE Press
    BY <1>30, LastLineFacts, LineFields, MadeFacts DEF Press, Happens, ControlInv,
       LineControl, history, Exists, NoFile, NoLine, LastLine, IsLine, Kind
  <1>31. CASE Reset
    BY <1>31, LastLineFacts, LineFields, MadeFacts DEF Reset, Happens, NoKey, NoBatchio,
       ControlInv, LineControl, history, Exists, NoFile, NoLine, LastLine, IsLine, Kind
  <1> QED BY <1>1, <1>2, <1>3, <1>4, <1>5, <1>6, <1>7, <1>8, <1>9, <1>10, <1>11, <1>12,
          <1>13, <1>14, <1>15, <1>16, <1>17, <1>18, <1>19, <1>20, <1>21, <1>22, <1>23,
          <1>24, <1>25, <1>26, <1>27, <1>28, <1>29, <1>30, <1>31 DEF Next, Code, Users

LEMMA AddressStep ==
    ASSUME TypeOK, AddressInv, Next
    PROVE  AddressInv'
  <1>1. CASE Prompt
    BY <1>1 DEF Prompt, Output, NoKey, AddressInv, Asking, TypeOK, history, Default, Own,
       Any
  <1>2. CASE ReadLast
    BY <1>2 DEF ReadLast, SetDMA, Fails, Happens, AddressInv, Asking, TypeOK, history,
       Default, Own, Any
  <1>3. CASE Drop
    BY <1>3 DEF Drop, GiveUp, Fails, Happens, AddressInv, Asking, TypeOK, history, Default,
       Own, Any
  <1>4. CASE Take
    BY <1>4 DEF Take, TakeLast, Fails, Happens, AddressInv, Asking, TypeOK, history,
       Default, Own, Any
  <1>5. CASE Echo
    BY <1>5 DEF Echo, Output, NoKey, AddressInv, Asking, TypeOK, history, Default, Own, Any
  <1>6. CASE Check
    BY <1>6 DEF Check, Fails, Happens, NoKey, AddressInv, Asking, TypeOK, history, Default,
       Own, Any
  <1>7. CASE Swallow
    BY <1>7 DEF Swallow, KeyTaken, NoKey, AddressInv, Asking, TypeOK, history, Default, Own,
       Any
  <1>8. CASE Run
    BY <1>8 DEF Run, GiveUp, NoKey, AddressInv, Asking, TypeOK, history, Default, Own, Any
  <1>9. CASE Bad
    BY <1>9 DEF Bad, Fails, Happens, AddressInv, Asking, TypeOK, history, Default, Own, Any
  <1>10. CASE TooBig
    BY <1>10 DEF TooBig, memory, AddressInv, Asking, TypeOK, history, Default, Own, Any
  <1>11. CASE Xsub
    BY <1>11 DEF Xsub, NoBatchio, AddressInv, Asking, TypeOK, history, Default, Own, Any
  <1>12. CASE WarmBoot
    BY <1>12 DEF WarmBoot, AddressInv, Asking, TypeOK, history, Default, Own, Any
  <1>13. CASE Submit
    BY <1>13 DEF Submit, Exit, NoBatchio, AddressInv, Asking, TypeOK, history, Default, Own,
       Any
  <1>14. CASE Erase
    BY <1>14 DEF Erase, GiveUp, Fails, Happens, AddressInv, Asking, TypeOK, history,
       Default, Own, Any
  <1>15. CASE Make
    BY <1>15 DEF Make, Fails, Happens, AddressInv, Asking, TypeOK, history, Default, Own,
       Any
  <1>16. CASE Write
    BY <1>16 DEF Write, Fails, Happens, AddressInv, Asking, TypeOK, history, Default, Own,
       Any
  <1>17. CASE Close
    BY <1>17 DEF Close, Fails, Happens, AddressInv, Asking, TypeOK, history, Default, Own,
       Any
  <1>18. CASE Remove
    BY <1>18 DEF Remove, GiveUp, Fails, Happens, AddressInv, Asking, TypeOK, history,
       Default, Own, Any
  <1>19. CASE Leave
    BY <1>19 DEF Leave, Exit, NoBatchio, AddressInv, Asking, TypeOK, history, Default, Own,
       Any
  <1>20. CASE Start
    BY <1>20 DEF Start, SetDMA, AddressInv, Asking, TypeOK, history, Default, Own, Any
  <1>21. CASE Keyboard
    BY <1>21 DEF Keyboard, NoKey, AddressInv, Asking, TypeOK, history, Default, Own, Any
  <1>22. CASE BatchRead
    BY <1>22 DEF BatchRead, Restore, Fails, Happens, AddressInv, Asking, TypeOK, history,
       Default, Own, Any
  <1>23. CASE BatchEcho
    BY <1>23 DEF BatchEcho, Output, NoKey, AddressInv, Asking, TypeOK, history, Default,
       Own, Any
  <1>24. CASE BatchTake
    BY <1>24 DEF BatchTake, TakeLast, Restore, Fails, Happens, AddressInv, Asking, TypeOK,
       history, Default, Own, Any
  <1>25. CASE BatchDrop
    BY <1>25 DEF BatchDrop, GiveUp, Restore, Fails, Happens, AddressInv, Asking, TypeOK,
       history, Default, Own, Any
  <1>26. CASE Type
    BY <1>26 DEF Type, NoKey, AddressInv, Asking, TypeOK, history, Default, Own, Any
  <1>27. CASE ChooseDMA
    BY <1>27 DEF ChooseDMA, SetDMA, AddressInv, Asking, TypeOK, history, Default, Own, Any
  <1>28. CASE AskLine
    BY <1>28 DEF AskLine, memory, AddressInv, Asking, TypeOK, history, Default, Own, Any
  <1>29. CASE EndProgram
    BY <1>29 DEF EndProgram, Exit, NoBatchio, AddressInv, Asking, TypeOK, history, Default,
       Own, Any
  <1>30. CASE Press
    BY <1>30 DEF Press, Happens, AddressInv, Asking, TypeOK, history, Default, Own, Any
  <1>31. CASE Reset
    BY <1>31 DEF Reset, Happens, NoKey, NoBatchio, AddressInv, Asking, TypeOK, history,
       Default, Own, Any
  <1> QED BY <1>1, <1>2, <1>3, <1>4, <1>5, <1>6, <1>7, <1>8, <1>9, <1>10, <1>11, <1>12,
          <1>13, <1>14, <1>15, <1>16, <1>17, <1>18, <1>19, <1>20, <1>21, <1>22, <1>23,
          <1>24, <1>25, <1>26, <1>27, <1>28, <1>29, <1>30, <1>31 DEF Next, Code, Users

\* The line below the one at hand.
LEMMA NextLine ==
    ASSUME TypeOK, ControlInv, QueueInv, pc \in {"echo", "check"}, Exists
    PROVE  /\ file.batch = line.batch /\ file.batch \in Nat /\ got.batch <= file.batch
           /\ LastLine.no = line.no + 1 /\ line.no = Before(file.batch) + lost + 1
           /\ LastLine.no = Before(file.batch) + (lost + 1) + 1
  <1>1. line.no \in Nat /\ Size(file.batch) \in Nat /\ lost \in Nat /\ Before(line.batch) \in Nat
    BY LineFields, FileFields DEF TypeOK, Before
  <1>2. file.batch = line.batch /\ file.count = Size(line.batch) - line.no /\ got.batch <= line.batch
        /\ line.no = Before(line.batch) + lost + 1
    BY DEF QueueInv
  <1>3. LastLine.no = line.no + 1
    BY <1>1, <1>2, LastLineFacts
  <1> QED BY <1>1, <1>2, <1>3, LineFields

LEMMA QueueStep ==
    ASSUME Fit, TypeOK, ControlInv, QueueInv, Next
    PROVE  QueueInv'
  <1>1. CASE Prompt
    BY <1>1, FileFields, LastLineFacts, LineFields, MadeFacts DEF Prompt, Output, NoKey,
       ControlInv, FileControl, LineControl, QueueInv, Before, Making, history, Exists,
       NoFile, NoLine, LastLine, IsLine
  <1>2. CASE ReadLast
    BY <1>2, FileFields, LastLineFacts, LineFields, MadeFacts DEF ReadLast, SetDMA, Fails,
       Happens, ControlInv, FileControl, LineControl, QueueInv, Before, Making, history,
       Exists, NoFile, NoLine, LastLine, IsLine
  <1>3. CASE Drop
    BY <1>3, FileFields, LastLineFacts, LineFields, MadeFacts DEF Drop, GiveUp, Fails,
       Happens, ControlInv, FileControl, LineControl, QueueInv, Before, Making, history,
       Exists, NoFile, NoLine, LastLine, IsLine
  <1>4. CASE Take
    <2>1. /\ UNCHANGED <<line, made, got, lost>> /\ pc = "take"
          /\ Exists /\ file.count > 0 /\ line = LastLine
      BY <1>4 DEF Take, history, ControlInv, LineControl
    <2>2. CASE file' = file /\ pc' \in {"drop", "boot"}
      BY <2>1, <2>2 DEF QueueInv, Making, Before, LastLine, Exists
    <2>3. CASE TakeLast /\ pc' = "echo"
      <3>1. /\ line.batch = file.batch /\ line.no = Size(line.batch) + 1 - file.count
            /\ Size(line.batch) \in Nat /\ file.count \in Nat
            /\ got.batch <= line.batch /\ line.no = Before(line.batch) + lost + 1
        BY <2>1, LastLineFacts, FileFields, StreamAssumption DEF QueueInv
      <3>2. Exists' => file'.batch = line.batch /\ file'.count = Size(line.batch) - line.no
        BY <2>1, <2>3, <3>1, TakeLastFields DEF Exists
      <3>3. Exists' => got.batch <= file'.batch
        BY <3>1, <3>2
      <3> QED BY <2>1, <2>3, <3>1, <3>2, <3>3 DEF QueueInv, Making, Before
    <2> QED BY <1>4, <2>2, <2>3 DEF Take, Fails
  <1>5. CASE Echo
    <2>1. UNCHANGED <<file, line, made, got>> /\ pc = "echo"
      BY <1>5 DEF Echo
    <2>2. CASE pc' = "check" /\ lost' = lost
      BY <2>1, <2>2 DEF QueueInv, Making, Before, LastLine, Exists
    <2>3. CASE pc' = "boot" /\ lost' = lost + 1
      <3>1. Exists => LastLine.no = Before(file.batch) + lost' + 1 /\ got.batch <= file.batch
        BY <2>1, <2>3, NextLine
      <3> QED BY <2>1, <2>3, <3>1 DEF QueueInv, Making, Before, LastLine, Exists
    <2> QED BY <1>5, <2>2, <2>3 DEF Echo, Output
  <1>6. CASE Check
    <2>1. UNCHANGED <<line, made>> /\ pc = "check"
      BY <1>6 DEF Check
    <2>2. CASE file' = file /\ got' = line /\ lost' = 0 /\ pc' = "dispatch"
      <3>1. got'.batch <= made
        BY <2>1, <2>2 DEF ControlInv, LineControl
      <3>2. Exists => /\ file.batch = line.batch /\ LastLine.no = line.no + 1
                      /\ file.batch \in Nat
        BY <2>1, NextLine
      <3> QED BY <2>1, <2>2, <3>1, <3>2, LineFields DEF QueueInv, Making, Before, LastLine,
              Exists
    <2>3. CASE file' = NoFile /\ got' = got /\ pc' = "swallow"
      BY <2>1, <2>3 DEF QueueInv, Making, Exists
    <2>4. CASE UNCHANGED <<file, got>> /\ lost' = lost + 1 /\ pc' \in {"swallow", "boot"}
      <3>1. Exists => LastLine.no = Before(file.batch) + lost' + 1 /\ got.batch <= file.batch
        BY <2>1, <2>4, NextLine
      <3> QED BY <2>1, <2>4, <3>1 DEF QueueInv, Making, Before, LastLine, Exists
    <2> QED BY <1>6, <2>2, <2>3, <2>4 DEF Check, Fails
  <1>7. CASE Swallow
    BY <1>7, FileFields, LastLineFacts, LineFields, MadeFacts DEF Swallow, KeyTaken, NoKey,
       ControlInv, FileControl, LineControl, QueueInv, Before, Making, history, Exists,
       NoFile, NoLine, LastLine, IsLine
  <1>8. CASE Run
    BY <1>8, FileFields, LastLineFacts, LineFields, MadeFacts DEF Run, GiveUp, NoKey,
       ControlInv, FileControl, LineControl, QueueInv, Before, Making, history, Exists,
       NoFile, NoLine, LastLine, IsLine
  <1>9. CASE Bad
    BY <1>9, FileFields, LastLineFacts, LineFields, MadeFacts DEF Bad, Fails, Happens,
       ControlInv, FileControl, LineControl, QueueInv, Before, Making, history, Exists,
       NoFile, NoLine, LastLine, IsLine
  <1>10. CASE TooBig
    BY <1>10, FileFields, LastLineFacts, LineFields, MadeFacts DEF TooBig, memory,
       ControlInv, FileControl, LineControl, QueueInv, Before, Making, history, Exists,
       NoFile, NoLine, LastLine, IsLine
  <1>11. CASE Xsub
    BY <1>11, FileFields, LastLineFacts, LineFields, MadeFacts DEF Xsub, NoBatchio,
       ControlInv, FileControl, LineControl, QueueInv, Before, Making, history, Exists,
       NoFile, NoLine, LastLine, IsLine
  <1>12. CASE WarmBoot
    BY <1>12, FileFields, LastLineFacts, LineFields, MadeFacts DEF WarmBoot, ControlInv,
       FileControl, LineControl, QueueInv, Before, Making, history, Exists, NoFile, NoLine,
       LastLine, IsLine
  <1>13. CASE Submit
    BY <1>13, FileFields, LastLineFacts, LineFields, MadeFacts DEF Submit, Exit, NoBatchio,
       ControlInv, FileControl, LineControl, QueueInv, Before, Making, history, Exists,
       NoFile, NoLine, LastLine, IsLine
  <1>14. CASE Erase
    BY <1>14, FileFields, LastLineFacts, LineFields, MadeFacts DEF Erase, GiveUp, Fails,
       Happens, ControlInv, FileControl, LineControl, QueueInv, Before, Making, history,
       Exists, NoFile, NoLine, LastLine, IsLine
  <1>15. CASE Make
    BY <1>15, FileFields, LastLineFacts, LineFields, MadeFacts DEF Make, Fails, Happens,
       ControlInv, FileControl, LineControl, QueueInv, Before, Making, history, Exists,
       NoFile, NoLine, LastLine, IsLine
  <1>16. CASE Write
    <2>1. UNCHANGED <<line, made, got, lost>> /\ pc = "write"
      BY <1>16 DEF Write, history
    <2>2. /\ Size(made) \in Nat /\ Size(made) <= Extent /\ Extent \in Nat /\ Before(made) = 0 /\ lost = 0
          /\ file.batch = made /\ got.batch < made /\ made \in Nat /\ file.records \in Nat
          /\ file.records <= Size(made)
      BY <1>16, <2>1, WriteFields, ScriptFacts, FileFields, LineFields, StreamAssumption
      DEF QueueInv, Making, Before, Fit, ControlInv, FileControl
    <2>3. CASE file' = file /\ pc' \in {"remove", "boot", "close"}
      BY <1>16, <2>1, <2>2, <2>3, WriteFields DEF QueueInv, Making, Before, LastLine, Exists
    <2>4. CASE /\ file.records # Size(made) /\ file'.records = file.records + 1 /\ pc' = "write"
               /\ file'.count = IF file.records + 1 = Extent THEN Extent ELSE file.count
      <3>1. file'.batch = made
        BY <1>16, WriteFields
      <3>2. CASE file'.count = Extent /\ Size(made) = Extent
        <4>1. LastLine'.no = 1
          BY <2>2, <3>1, <3>2 DEF LastLine
        <4> QED BY <2>1, <2>2, <2>4, <3>1, <4>1 DEF QueueInv, Making, Before
      <3>3. CASE file'.count = file.count
        <4>1. LastLine'.no = LastLine.no
          BY <2>2, <3>1, <3>3 DEF LastLine
        <4> QED BY <1>16, <2>1, <2>2, <2>4, <3>1, <3>3, <4>1, WriteFields DEF QueueInv,
                Making, Before
      <3> QED BY <2>2, <2>4, <3>2, <3>3
    <2> QED BY <1>16, <2>3, <2>4, WriteFields
  <1>17. CASE Close
    <2>1. UNCHANGED <<line, made, got, lost>> /\ pc = "close"
      BY <1>17 DEF Close, history
    <2>2. made \in Batches /\ file.batch = made /\ file'.batch = made
      BY <1>17, CloseFields
    <2>3. got.batch < made /\ lost = 0 /\ file.records = Size(made)
      BY <2>1 DEF QueueInv, Making
    <2>4. /\ Size(made) \in Nat /\ Size(made) <= Extent /\ Extent \in Nat /\ Before(made) = 0
          /\ made \in Nat
      BY <2>2, <2>3, ScriptFacts, LineFields, StreamAssumption DEF Before, Fit
    <2>5. CASE file' = file /\ pc' \in {"remove", "boot"}
      BY <1>17, <2>1, <2>4, <2>5, <2>2, <2>3, CloseFields DEF QueueInv, Making, Before,
         LastLine, Exists
    <2>6. CASE file'.count = Size(made) /\ pc' = "exit"
      <3>1. LastLine'.no = 1
        BY <2>4, <2>6, <2>2 DEF LastLine
      <3> QED BY <2>1, <2>4, <2>6, <2>2, <2>3, <3>1 DEF QueueInv, Making, Before
    <2> QED BY <1>17, <2>4, <2>5, <2>6, <2>3, CloseFields
  <1>18. CASE Remove
    BY <1>18, FileFields, LastLineFacts, LineFields, MadeFacts DEF Remove, GiveUp, Fails,
       Happens, ControlInv, FileControl, LineControl, QueueInv, Before, Making, history,
       Exists, NoFile, NoLine, LastLine, IsLine
  <1>19. CASE Leave
    BY <1>19, FileFields, LastLineFacts, LineFields, MadeFacts DEF Leave, Exit, NoBatchio,
       ControlInv, FileControl, LineControl, QueueInv, Before, Making, history, Exists,
       NoFile, NoLine, LastLine, IsLine
  <1>20. CASE Start
    BY <1>20, FileFields, LastLineFacts, LineFields, MadeFacts DEF Start, SetDMA,
       ControlInv, FileControl, LineControl, QueueInv, Before, Making, history, Exists,
       NoFile, NoLine, LastLine, IsLine
  <1>21. CASE Keyboard
    BY <1>21, FileFields, LastLineFacts, LineFields, MadeFacts DEF Keyboard, NoKey,
       ControlInv, FileControl, LineControl, QueueInv, Before, Making, history, Exists,
       NoFile, NoLine, LastLine, IsLine
  <1>22. CASE BatchRead
    BY <1>22, FileFields, LastLineFacts, LineFields, MadeFacts DEF BatchRead, Restore,
       Fails, Happens, ControlInv, FileControl, LineControl, QueueInv, Before, Making,
       history, Exists, NoFile, NoLine, LastLine, IsLine
  <1>23. CASE BatchEcho
    BY <1>23, FileFields, LastLineFacts, LineFields, MadeFacts DEF BatchEcho, Output, NoKey,
       ControlInv, FileControl, LineControl, QueueInv, Before, Making, history, Exists,
       NoFile, NoLine, LastLine, IsLine
  <1>24. CASE BatchTake
    <2>1. /\ made' = made /\ pc' \in {"ask", "b_drop", "boot"}
          /\ Exists /\ file.count > 0 /\ line = LastLine
      BY <1>24 DEF BatchTake, Fails, ControlInv, LineControl
    <2>2. CASE UNCHANGED <<file, got, lost>>
      BY <2>1, <2>2, <1>24 DEF QueueInv, Making, Before, LastLine, Exists, BatchTake
    <2>3. CASE TakeLast /\ got' = LastLine /\ lost' = 0 /\ file' = NoFile
      BY <2>1, <2>3, LastLineFacts DEF QueueInv, Making, Exists, ControlInv, FileControl
    <2>4. CASE /\ TakeLast /\ got' = LastLine /\ lost' = 0
               /\ file'.batch = file.batch /\ file'.count = file.count - 1
      <3>1. LastLine'.no = LastLine.no + 1 /\ LastLine.batch = file.batch /\ file.batch <= made
        BY <2>1, <2>4, LastLineFacts, FileFields, StreamAssumption DEF LastLine, ControlInv,
           FileControl
      <3>2. LastLine.no \in Nat /\ file.batch \in Nat
        BY <2>1, LastLineFacts, FileFields DEF IsLine
      <3> QED BY <2>1, <2>4, <3>1, <3>2 DEF QueueInv, Making, Before
    <2> QED BY <1>24, <2>1, <2>2, <2>3, <2>4, TakeLastFields DEF BatchTake
  <1>25. CASE BatchDrop
    BY <1>25, FileFields, LastLineFacts, LineFields, MadeFacts DEF BatchDrop, GiveUp,
       Restore, Fails, Happens, ControlInv, FileControl, LineControl, QueueInv, Before,
       Making, history, Exists, NoFile, NoLine, LastLine, IsLine
  <1>26. CASE Type
    BY <1>26, FileFields, LastLineFacts, LineFields, MadeFacts DEF Type, NoKey, ControlInv,
       FileControl, LineControl, QueueInv, Before, Making, history, Exists, NoFile, NoLine,
       LastLine, IsLine
  <1>27. CASE ChooseDMA
    BY <1>27, FileFields, LastLineFacts, LineFields, MadeFacts DEF ChooseDMA, SetDMA,
       ControlInv, FileControl, LineControl, QueueInv, Before, Making, history, Exists,
       NoFile, NoLine, LastLine, IsLine
  <1>28. CASE AskLine
    BY <1>28, FileFields, LastLineFacts, LineFields, MadeFacts DEF AskLine, memory,
       ControlInv, FileControl, LineControl, QueueInv, Before, Making, history, Exists,
       NoFile, NoLine, LastLine, IsLine
  <1>29. CASE EndProgram
    BY <1>29, FileFields, LastLineFacts, LineFields, MadeFacts DEF EndProgram, Exit,
       NoBatchio, ControlInv, FileControl, LineControl, QueueInv, Before, Making, history,
       Exists, NoFile, NoLine, LastLine, IsLine
  <1>30. CASE Press
    BY <1>30, FileFields, LastLineFacts, LineFields, MadeFacts DEF Press, Happens,
       ControlInv, FileControl, LineControl, QueueInv, Before, Making, history, Exists,
       NoFile, NoLine, LastLine, IsLine
  <1>31. CASE Reset
    <2>1. UNCHANGED <<file, made, got>> /\ pc' \in {"prompt", "dispatch"}
      BY <1>31 DEF Reset
    <2>2. CASE pc \in {"echo", "check"}
      <3>1. Exists => LastLine.no = Before(file.batch) + lost' + 1 /\ got.batch <= file.batch
        BY <2>2, <1>31, NextLine DEF Reset
      <3> QED BY <2>1, <3>1 DEF QueueInv, Making, Before, LastLine, Exists
    <2>3. CASE pc \notin {"echo", "check"}
      BY <2>1, <2>3, <1>31 DEF QueueInv, Making, Before, LastLine, Exists, Reset
    <2> QED BY <2>2, <2>3
  <1> QED BY <1>1, <1>2, <1>3, <1>4, <1>5, <1>6, <1>7, <1>8, <1>9, <1>10, <1>11, <1>12,
          <1>13, <1>14, <1>15, <1>16, <1>17, <1>18, <1>19, <1>20, <1>21, <1>22, <1>23,
          <1>24, <1>25, <1>26, <1>27, <1>28, <1>29, <1>30, <1>31 DEF Next, Code, Users

LEMMA GoneStep ==
    ASSUME TypeOK, ControlInv, GoneInv, Next
    PROVE  GoneInv'
  <1>1. CASE Prompt
    BY <1>1, FileFields, LastLineFacts, LineFields, MadeFacts DEF Prompt, Output, NoKey,
       ControlInv, FileControl, LineControl, GoneInv, history, Exists, NoFile, NoLine,
       LastLine, IsLine
  <1>2. CASE ReadLast
    BY <1>2, FileFields, LastLineFacts, LineFields, MadeFacts DEF ReadLast, SetDMA, Fails,
       Happens, ControlInv, FileControl, LineControl, GoneInv, history, Exists, NoFile,
       NoLine, LastLine, IsLine
  <1>3. CASE Drop
    BY <1>3, FileFields, LastLineFacts, LineFields, MadeFacts DEF Drop, GiveUp, Fails,
       Happens, ControlInv, FileControl, LineControl, GoneInv, history, Exists, NoFile,
       NoLine, LastLine, IsLine
  <1>4. CASE Take
    BY <1>4, FileFields, LastLineFacts, LineFields, MadeFacts DEF Take, TakeLast, Fails,
       Happens, ControlInv, FileControl, LineControl, GoneInv, history, Exists, NoFile,
       NoLine, LastLine, IsLine
  <1>5. CASE Echo
    BY <1>5, FileFields, LastLineFacts, LineFields, MadeFacts DEF Echo, Output, NoKey,
       ControlInv, FileControl, LineControl, GoneInv, history, Exists, NoFile, NoLine,
       LastLine, IsLine
  <1>6. CASE Check
    <2>1. /\ made' = made /\ line.batch <= made /\ pc' \in {"dispatch", "swallow", "boot"}
          /\ UNCHANGED <<file, cancelled>> \/ (file' = NoFile /\ cancelled' = cancelled \cup {line.batch})
      BY <1>6 DEF Check, Fails, ControlInv, LineControl
    <2> QED BY <2>1 DEF GoneInv, Exists
  <1>7. CASE Swallow
    BY <1>7, FileFields, LastLineFacts, LineFields, MadeFacts DEF Swallow, KeyTaken, NoKey,
       ControlInv, FileControl, LineControl, GoneInv, history, Exists, NoFile, NoLine,
       LastLine, IsLine
  <1>8. CASE Run
    BY <1>8, FileFields, LastLineFacts, LineFields, MadeFacts DEF Run, GiveUp, NoKey,
       ControlInv, FileControl, LineControl, GoneInv, history, Exists, NoFile, NoLine,
       LastLine, IsLine
  <1>9. CASE Bad
    <2>1. /\ made' = made /\ pc' \in {"prompt", "boot"}
          /\ \/ UNCHANGED <<file, cancelled>>
             \/ file' = NoFile /\ cancelled' = cancelled \cup {line.batch}
             \/ ~active /\ file' = file /\ cancelled' = cancelled \cup {line.batch}
      BY <1>9 DEF Bad, Fails
    <2>2. line.batch <= made /\ (~active => line.batch = 0)
      BY <1>9, MadeFacts DEF Bad, ControlInv, LineControl, NoLine
    <2> QED BY <2>1, <2>2, FileFields DEF GoneInv, Exists, Batches
  <1>10. CASE TooBig
    <2>1. UNCHANGED <<file, made, cancelled>> /\ pc' = "boot"
      BY <1>10 DEF TooBig, memory, history
    <2> QED BY <2>1 DEF GoneInv, Exists
  <1>11. CASE Xsub
    BY <1>11, FileFields, LastLineFacts, LineFields, MadeFacts DEF Xsub, NoBatchio,
       ControlInv, FileControl, LineControl, GoneInv, history, Exists, NoFile, NoLine,
       LastLine, IsLine
  <1>12. CASE WarmBoot
    BY <1>12, FileFields, LastLineFacts, LineFields, MadeFacts DEF WarmBoot, ControlInv,
       FileControl, LineControl, GoneInv, history, Exists, NoFile, NoLine, LastLine, IsLine
  <1>13. CASE Submit
    <2>1. /\ UNCHANGED <<file, cancelled>>
          /\ \/ made' = made + 1 /\ pc' = "erase"
             \/ made' = made /\ pc' = "boot"
      BY <1>13 DEF Submit, Exit, history
    <2>2. /\ \A b \in cancelled : b \in Nat
          /\ made \in Nat /\ (Exists => file.batch \in Nat /\ file.batch <= made)
      BY FileFields, MadeFacts, ScriptFacts DEF TypeOK, ControlInv, FileControl
    <2> QED BY <2>1, <2>2 DEF GoneInv, Exists
  <1>14. CASE Erase
    BY <1>14, FileFields, LastLineFacts, LineFields, MadeFacts DEF Erase, GiveUp, Fails,
       Happens, ControlInv, FileControl, LineControl, GoneInv, history, Exists, NoFile,
       NoLine, LastLine, IsLine
  <1>15. CASE Make
    BY <1>15, FileFields, LastLineFacts, LineFields, MadeFacts DEF Make, Fails, Happens,
       ControlInv, FileControl, LineControl, GoneInv, history, Exists, NoFile, NoLine,
       LastLine, IsLine
  <1>16. CASE Write
    BY <1>16, FileFields, LastLineFacts, LineFields, MadeFacts DEF Write, Fails, Happens,
       ControlInv, FileControl, LineControl, GoneInv, history, Exists, NoFile, NoLine,
       LastLine, IsLine
  <1>17. CASE Close
    BY <1>17, FileFields, LastLineFacts, LineFields, MadeFacts DEF Close, Fails, Happens,
       ControlInv, FileControl, LineControl, GoneInv, history, Exists, NoFile, NoLine,
       LastLine, IsLine
  <1>18. CASE Remove
    BY <1>18, FileFields, LastLineFacts, LineFields, MadeFacts DEF Remove, GiveUp, Fails,
       Happens, ControlInv, FileControl, LineControl, GoneInv, history, Exists, NoFile,
       NoLine, LastLine, IsLine
  <1>19. CASE Leave
    BY <1>19, FileFields, LastLineFacts, LineFields, MadeFacts DEF Leave, Exit, NoBatchio,
       ControlInv, FileControl, LineControl, GoneInv, history, Exists, NoFile, NoLine,
       LastLine, IsLine
  <1>20. CASE Start
    BY <1>20, FileFields, LastLineFacts, LineFields, MadeFacts DEF Start, SetDMA,
       ControlInv, FileControl, LineControl, GoneInv, history, Exists, NoFile, NoLine,
       LastLine, IsLine
  <1>21. CASE Keyboard
    BY <1>21, FileFields, LastLineFacts, LineFields, MadeFacts DEF Keyboard, NoKey,
       ControlInv, FileControl, LineControl, GoneInv, history, Exists, NoFile, NoLine,
       LastLine, IsLine
  <1>22. CASE BatchRead
    BY <1>22, FileFields, LastLineFacts, LineFields, MadeFacts DEF BatchRead, Restore,
       Fails, Happens, ControlInv, FileControl, LineControl, GoneInv, history, Exists,
       NoFile, NoLine, LastLine, IsLine
  <1>23. CASE BatchEcho
    BY <1>23, FileFields, LastLineFacts, LineFields, MadeFacts DEF BatchEcho, Output, NoKey,
       ControlInv, FileControl, LineControl, GoneInv, history, Exists, NoFile, NoLine,
       LastLine, IsLine
  <1>24. CASE BatchTake
    BY <1>24, FileFields, LastLineFacts, LineFields, MadeFacts DEF BatchTake, TakeLast,
       Restore, Fails, Happens, ControlInv, FileControl, LineControl, GoneInv, history,
       Exists, NoFile, NoLine, LastLine, IsLine
  <1>25. CASE BatchDrop
    BY <1>25, FileFields, LastLineFacts, LineFields, MadeFacts DEF BatchDrop, GiveUp,
       Restore, Fails, Happens, ControlInv, FileControl, LineControl, GoneInv, history,
       Exists, NoFile, NoLine, LastLine, IsLine
  <1>26. CASE Type
    BY <1>26, FileFields, LastLineFacts, LineFields, MadeFacts DEF Type, NoKey, ControlInv,
       FileControl, LineControl, GoneInv, history, Exists, NoFile, NoLine, LastLine, IsLine
  <1>27. CASE ChooseDMA
    BY <1>27, FileFields, LastLineFacts, LineFields, MadeFacts DEF ChooseDMA, SetDMA,
       ControlInv, FileControl, LineControl, GoneInv, history, Exists, NoFile, NoLine,
       LastLine, IsLine
  <1>28. CASE AskLine
    BY <1>28, FileFields, LastLineFacts, LineFields, MadeFacts DEF AskLine, memory,
       ControlInv, FileControl, LineControl, GoneInv, history, Exists, NoFile, NoLine,
       LastLine, IsLine
  <1>29. CASE EndProgram
    BY <1>29, FileFields, LastLineFacts, LineFields, MadeFacts DEF EndProgram, Exit,
       NoBatchio, ControlInv, FileControl, LineControl, GoneInv, history, Exists, NoFile,
       NoLine, LastLine, IsLine
  <1>30. CASE Press
    BY <1>30, FileFields, LastLineFacts, LineFields, MadeFacts DEF Press, Happens,
       ControlInv, FileControl, LineControl, GoneInv, history, Exists, NoFile, NoLine,
       LastLine, IsLine
  <1>31. CASE Reset
    BY <1>31, FileFields, LastLineFacts, LineFields, MadeFacts DEF Reset, Happens, NoKey,
       NoBatchio, ControlInv, FileControl, LineControl, GoneInv, history, Exists, NoFile,
       NoLine, LastLine, IsLine
  <1> QED BY <1>1, <1>2, <1>3, <1>4, <1>5, <1>6, <1>7, <1>8, <1>9, <1>10, <1>11, <1>12,
          <1>13, <1>14, <1>15, <1>16, <1>17, <1>18, <1>19, <1>20, <1>21, <1>22, <1>23,
          <1>24, <1>25, <1>26, <1>27, <1>28, <1>29, <1>30, <1>31 DEF Next, Code, Users

-----------------------------------------------------------------------------
(* What is proved of every behaviour *)

LEMMA Inductive == Spec => [](TypeOK /\ ControlInv)
  <1>1. TypeOK /\ ControlInv /\ [Next]_vars => (TypeOK /\ ControlInv)'
    <2> SUFFICES ASSUME TypeOK, ControlInv, [Next]_vars PROVE TypeOK' /\ ControlInv'
      OBVIOUS
    <2>1. CASE Next
      BY <2>1, TypeStep, FileStep, LineStep DEF ControlInv
    <2>2. CASE UNCHANGED vars
      BY <2>2 DEF vars, TypeOK, ControlInv, FileControl, LineControl, Exists, LastLine,
         IsLine, Kind
    <2> QED BY <2>1, <2>2
  <1> QED BY <1>1, TypeInit, PTL DEF Spec

\* Every variable keeps its type: no count of the file passes an extent, no
\* line lies outside its batch (ccp.mac, submit.asm, batchio.mac).
THEOREM TypeCorrect == Spec => []TypeOK
  BY Inductive, PTL

\* The transfer address of a program that asks for lines is its own again when
\* BATCHIO returns to it, whether the line came from the file or the keyboard
\* and whatever call failed meanwhile (batchio.mac, BI_FCALL).
THEOREM AddressComesBack == Spec => []AddressKept
  <1>1. Init => AddressInv
    BY DEF Init, AddressInv, Asking
  <1>2. TypeOK /\ AddressInv /\ [Next]_vars => AddressInv'
    <2> SUFFICES ASSUME TypeOK, AddressInv, [Next]_vars PROVE AddressInv'
      OBVIOUS
    <2>1. CASE UNCHANGED vars
      BY <2>1 DEF vars, AddressInv
    <2> QED BY <2>1, AddressStep
  <1>3. AddressInv => AddressKept
    BY DEF AddressInv, AddressKept, Asking
  <1> QED BY <1>1, <1>2, <1>3, TypeCorrect, PTL DEF Spec

\* A line that is delivered follows the one before it.
LEMMA Delivery ==
    ASSUME TypeOK, ControlInv, QueueInv, Next, got' # got
    PROVE  got'.batch >= got.batch /\ Follows(got')
  <1>1. \/ pc = "check" /\ got' = line
        \/ pc = "b_take" /\ got' = line
    BY DEF Next, Code, Users, Prompt, ReadLast, Drop, Take, Echo, Check, Swallow, Run, Bad,
       TooBig, Xsub,
       WarmBoot, Submit, Erase, Make, Write, Close, Remove, Leave, Start, Keyboard, BatchRead,
       BatchEcho, BatchTake, BatchDrop, Type, ChooseDMA, AskLine, EndProgram, Press, Reset, history
  <1>2. CASE pc = "check" /\ got' = line
    BY <1>2, LineFields DEF QueueInv, Before, Follows
  <1>3. CASE pc = "b_take" /\ got' = line
    <2>1. Exists /\ file.count > 0 /\ line = LastLine
      BY <1>3 DEF ControlInv, LineControl
    <2> QED BY <1>3, <2>1, LastLineFacts, LineFields DEF QueueInv, Before, Follows
  <1> QED BY <1>1, <1>2, <1>3

\* The lines of a batch reach the command processor and the programs one after
\* the other from the first, none twice, none left out but by an interruption
\* that the history counts - across warm boots, resets, failed calls and
\* batches that submit a batch, if a batch fits into one extent (ccp.mac,
\* CS_READ and CS_DATA; batchio.mac, BI_CONSUME; submit.asm, SU_WRITELOOP).
THEOREM InOrder == ASSUME Fit PROVE Spec => LinesInOrder
  <1>1. Init => QueueInv
    BY DEF Init, QueueInv, Making, Exists, NoLine
  <1>2. TypeOK /\ ControlInv /\ QueueInv /\ [Next]_vars => QueueInv'
    <2> SUFFICES ASSUME TypeOK, ControlInv, QueueInv, [Next]_vars PROVE QueueInv'
      OBVIOUS
    <2>1. CASE UNCHANGED vars
      BY <2>1 DEF vars, QueueInv, Before, Making, Exists, LastLine
    <2> QED BY <2>1, QueueStep
  <1>3. TypeOK /\ ControlInv /\ QueueInv /\ [Next]_vars
          => [got' # got => got'.batch >= got.batch /\ Follows(got')]_vars
    BY Delivery DEF vars
  <1> QED BY <1>1, <1>2, <1>3, Inductive, PTL DEF Spec, LinesInOrder

\* Whatever the batches, no line is delivered after the code gave up its batch
\* - for a command that does not exist, a key that waits after the echo, an
\* unusable stream, a newer batch or a program that deletes it - across all
\* boots, resets and failing calls (ccp.mac, CS_DROP, CS_CR and CS_CANCEL).
\* Of the three events of CancelledBatches it says nothing.
THEOREM NoneAfterGivingUp == Spec => CancelledNeverRuns
  <1>1. Init => GoneInv
    BY DEF Init, GoneInv, Exists
  <1>2. TypeOK /\ ControlInv /\ GoneInv /\ [Next]_vars => GoneInv'
    <2> SUFFICES ASSUME TypeOK, ControlInv, GoneInv, [Next]_vars PROVE GoneInv'
      OBVIOUS
    <2>1. CASE UNCHANGED vars
      BY <2>1 DEF vars, GoneInv, Exists
    <2> QED BY <2>1, GoneStep
  <1>3. TypeOK /\ ControlInv /\ GoneInv /\ [Next]_vars
          => [got' # got => got'.batch \notin cancelled]_vars
    <2> SUFFICES ASSUME TypeOK, ControlInv, GoneInv, Next, got' # got
                 PROVE  got'.batch \notin cancelled
      BY DEF vars
    <2>1. \/ pc = "check" /\ got' = line
          \/ pc = "b_take" /\ got' = line
      BY DEF Next, Code, Users, Prompt, ReadLast, Drop, Take, Echo, Check, Swallow, Run, Bad,
         TooBig, Xsub,
         WarmBoot, Submit, Erase, Make, Write, Close, Remove, Leave, Start, Keyboard, BatchRead,
         BatchEcho, BatchTake, BatchDrop, Type, ChooseDMA, AskLine, EndProgram, Press, Reset, history
    <2>2. pc = "b_take" => Exists /\ line.batch = file.batch
      BY LastLineFacts DEF ControlInv, LineControl
    <2> QED BY <2>1, <2>2 DEF GoneInv
  <1> QED BY <1>1, <1>2, <1>3, Inductive, PTL DEF Spec, CancelledNeverRuns
=============================================================================
