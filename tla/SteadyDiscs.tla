----------------------------- MODULE SteadyDiscs -----------------------------
(***************************************************************************)
(* The directory cache with one fact about the past: whether the operator  *)
(* has exchanged discs.  What holds only while he has not, because only    *)
(* then the checksums tell the truth, is stated here.                      *)
(***************************************************************************)
EXTENDS DirectoryCache

VARIABLE exchanged

steadyVars == <<vars, exchanged>>
SteadyInit == Init /\ exchanged = FALSE
SteadyNext == Next /\ exchanged' = (exchanged \/ media' # media)
SteadySpec == SteadyInit /\ [][SteadyNext]_steadyVars

\* Checksums follow the BDOS's own writes, and drives keep theirs while
\* other drives are active: without a change of disc no call ever finds a
\* reason to protect a drive.
NoFalseProtection ==
    [][~exchanged /\ pc # "idle" => rdonly' \subseteq rdonly]_steadyVars
=============================================================================
