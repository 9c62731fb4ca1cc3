------------------------------- MODULE MCSteady -------------------------------
EXTENDS SteadyDiscs, MCDirectory

LiveHistory == <<LiveState, exchanged>>
=============================================================================
