--------------------------- MODULE CancelledBatches ---------------------------
(***************************************************************************)
(* CommandStream with a history of three events that end a batch, if the   *)
(* comments and the manual are right: ^C while a command of it is echoed,  *)
(* a cold boot, and a command file that does not fit.  Each of them is     *)
(* recorded with the batch that it met, and with the fact that a line of   *)
(* that batch was delivered afterwards.                                    *)
(***************************************************************************)
EXTENDS CommandStream

VARIABLES
    ended,      \* ended[c]: batches that event c has met
    survived    \* events after which their batch went on

Causes == {"break", "cold", "toobig"}

Meets(c) ==
    CASE c = "break"  -> pc = "echo" /\ pc' = "boot"
      [] c = "cold"   -> Reset
      [] c = "toobig" -> TooBig

Record ==
    /\ ended' = [c \in Causes |-> IF Exists /\ Meets(c) THEN ended[c] \cup {file.batch}
                                                         ELSE ended[c]]
    /\ survived' = survived \cup {c \in Causes : got' # got /\ got'.batch \in ended[c]}

CancelSpec ==
    /\ Init /\ ended = [c \in Causes |-> {}] /\ survived = {}
    /\ [][Next /\ Record]_<<vars, ended, survived>>

\* A Ctrl-C warm start cannot resurrect the command stream (ccp.mac, CS_CR), a
\* cold boot does not continue a previous batch (the manual), and a bad
\* command aborts the whole stream (ccp.mac, CCP_BAD).  This asks for less than
\* any of the three: that at least one of these events ends every batch that it
\* meets.  A behaviour that violates it refutes all three.
SomeCauseEndsBatch == survived # Causes
=============================================================================
