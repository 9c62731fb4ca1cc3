------------------------------ MODULE MCCancelled -----------------------------
EXTENDS CancelledBatches

Oversized == << <<"run", "toobig", "run", "run">> >>
=============================================================================
