--------------------------- MODULE ResidentProfile ---------------------------
(***************************************************************************)
(* What the resident modules and their users may rely on: the profile is a *)
(* list of modules with private contents; a change adds a module at the    *)
(* end or removes one, in one step; a STATEFUL module then goes on with    *)
(* its contents and a STATELESS one starts afresh from the carrier that it *)
(* was loaded from.                                                        *)
(***************************************************************************)
EXTENDS Integers, Sequences, SequencesExt

CONSTANTS Names, Versions, MaxLive,
    Keeps(_),           \* a module of this name keeps its contents
    Initial(_, _),      \* contents of a freshly loaded module
    Contents(_, _)      \* what its contents can be

VARIABLE profile

Fresh(n, v) == [name |-> n, ver |-> v, holds |-> Initial(n, v)]
Carried(m) == IF Keeps(m.name) THEN m ELSE Fresh(m.name, m.ver)
All(p) == [i \in DOMAIN p |-> Carried(p[i])]

Init == profile = <<>>

Loaded == {profile[i].name : i \in DOMAIN profile}

Load ==
    /\ Len(profile) < MaxLive
    /\ \E n \in Names \ Loaded, v \in Versions :
            profile' = Append(All(profile), Fresh(n, v))

Unload == \E i \in DOMAIN profile : profile' = RemoveAt(All(profile), i)

\* A module's own code runs.
Work ==
    \E i \in DOMAIN profile : \E c \in Contents(profile[i].name, profile[i].ver) :
        profile' = [profile EXCEPT ![i].holds = c]

Next == profile' # profile /\ (Load \/ Unload \/ Work)

Spec == Init /\ [][Next]_profile
=============================================================================
