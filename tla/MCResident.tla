------------------------------ MODULE MCResident ------------------------------
EXTENDS ResidentChange

\* Two STATEFUL modules of different sizes and a STATELESS one whose second
\* version is smaller than the first: only with that one do all three fit.
Classes == [n \in Names |-> IF n = "b" THEN Stateless ELSE Stateful]
Sizes == [n \in Names |-> [v \in Versions |->
            CASE n = "a" -> 6 [] n = "b" -> 8 - v [] n = "c" -> 8]]
Entries == [n \in Names |-> EntryOffset]

\* With a COLD_ONLY module, and with an entry one word later than usual.
ColdClasses == [Classes EXCEPT !["b"] = ColdOnly]
LaterEntries == [Entries EXCEPT !["a"] = EntryOffset + 1]

\* What the next steps can depend on: until a plan is made, of memory only
\* the resident modules and of the request only what is asked for.
Before == stage \in {"idle", "clean", "reserve", "scan", "sweep"}
LiveState ==
    <<stage, pub, files, source, faults,
      IF stage = "idle" THEN <<>> ELSE <<op, idx>>,
      IF stage = "scan" THEN sizes ELSE <<>>,
      IF Before THEN [a \in Bound .. Ceiling - 1 |-> IF a < pub.low THEN 0 ELSE mem[a]]
      ELSE <<mem, plan, names>>,
      IF stage = "keep" THEN <<sizes, free>> ELSE <<>>,
      IF stage \in CommitStages THEN <<mem0, moved, cursor>> ELSE <<>>>>
=============================================================================
