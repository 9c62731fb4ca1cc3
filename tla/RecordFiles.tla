---------------------------- MODULE RecordFiles -----------------------------
(***************************************************************************)
(* What the file services promise a program: a file is a set of numbered   *)
(* records.  A read of a number delivers what the last write of it was     *)
(* given, whatever happens to other records, other files and the shared    *)
(* allocation vector; Close makes all of it permanent; a failed call takes *)
(* nothing away.  Blocks, extents, drives and directories do not exist at  *)
(* this level, except that the numbers random calls accept end before      *)
(* those of the longest file.                                              *)
(***************************************************************************)
EXTENDS Integers

CONSTANTS
    Files,
    Recs,       \* record numbers
    RandomEnd   \* random calls reach the numbers below it

VARIABLES
    present,    \* the files that exist
    text,       \* text[f]: pairs <<number, contents>>, as the program of f
                \* sees them
    kept,       \* kept[f]: the pairs a program that opens f anew would see
    out         \* the last call: operation, file, record number, result, and
                \* the record it delivered or was given

vars == <<present, text, kept, out>>

Numbers(g)    == {p[1] : p \in g}
Without(g, r) == {p \in g : p[1] # r}

\* Files other than f are as before, and none begins or ceases to exist.
Only(f) ==
    /\ present' = present
    /\ \A g \in Files \ {f} : text'[g] = text[g] /\ kept'[g] = kept[g]

Result(ops, f, code) == out'.op \in ops /\ out'.file = f /\ out'.code = code

\* The call was not for a number that random calls refuse.
Reached == out'.op \in {"rread", "rwrite"} => out'.rec < RandomEnd

Open(f) ==
    /\ Result({"open"}, f, 0) /\ f \in present
    /\ UNCHANGED <<present, text, kept>>

Create(f) ==
    /\ Result({"make"}, f, 0) /\ f \notin present
    /\ present' = present \cup {f}
    /\ text' = [text EXCEPT ![f] = {}] /\ kept' = [kept EXCEPT ![f] = {}]

Remove(f) ==
    /\ Result({"delete"}, f, 0) /\ f \in present
    /\ present' = present \ {f}
    /\ text' = [text EXCEPT ![f] = {}] /\ kept' = [kept EXCEPT ![f] = {}]

Rename(f, g) ==
    /\ Result({"rename"}, f, 0) /\ f \in present /\ g \notin present
    /\ present' = (present \ {f}) \cup {g}
    /\ text' = [text EXCEPT ![g] = text[f], ![f] = {}]
    /\ kept' = [kept EXCEPT ![g] = kept[f], ![f] = {}]

\* A read delivers the record.
Read(f) ==
    /\ Result({"read", "rread"}, f, 0) /\ Reached
    /\ <<out'.rec, out'.val>> \in text[f]
    /\ text'[f] = text[f] /\ Only(f)
    /\ kept[f] \subseteq kept'[f] /\ kept'[f] \subseteq text[f]

\* A write stores the record it was given under its number, in place of what
\* was there.  It may turn numbers that were never written into records of
\* unspecified contents, and touches no other record.
Write(f) ==
    LET r   == out'.rec
        now == text'[f]
    IN  /\ Result({"write", "rwrite"}, f, 0) /\ Reached
        /\ r \in Recs /\ Only(f)
        /\ \A p, q \in now : p[1] = q[1] => p = q
        /\ Without(text[f], r) \cup {<<r, out'.val>>} \subseteq now
        /\ Without(kept[f], r) \subseteq kept'[f] /\ kept'[f] \subseteq now

Close(f) ==
    /\ Result({"close"}, f, 0)
    /\ text'[f] = text[f] /\ kept'[f] = text[f] /\ Only(f)

\* A call that fails: a read that was reached, only where nothing was
\* written.  The program may drop the FCB with it.
Fail(f) ==
    /\ out'.file = f /\ out'.code # 0
    /\ out'.op \in {"read", "rread"} /\ Reached => out'.rec \notin Numbers(text[f])
    /\ Only(f)
    /\ kept[f] \subseteq kept'[f] /\ text'[f] \in {text[f], kept'[f]}

\* Function 35 reports an end that no record of the file lies beyond.
Size(f) ==
    /\ Result({"size"}, f, 0) /\ f \in present
    /\ \A r \in Numbers(kept[f]) : r < out'.rec
    /\ UNCHANGED <<present, text, kept>>

\* Programs that stop without closing lose what was not made permanent.
Forget ==
    /\ out'.op = "none"
    /\ UNCHANGED <<present, kept>>
    /\ \A f \in Files : text'[f] \in {text[f], kept[f]}

Init == /\ present = {} /\ text = [f \in Files |-> {}] /\ kept = text
        /\ out.op = "none"

Next ==
    \/ \E f \in Files :
         \/ Open(f) \/ Create(f) \/ Remove(f) \/ Read(f) \/ Close(f)
         \/ Write(f) \/ Fail(f) \/ Size(f)
         \/ \E g \in Files : Rename(f, g)
    \/ Forget

Spec == Init /\ [][Next]_vars
=============================================================================
