----------------------------- MODULE MCDirectory ----------------------------
EXTENDS DirectoryCache
A(v) == [name |-> "a", ver |-> v]
B(v) == [name |-> "b", ver |-> v]

\* Two discs of two directory records with one entry each; the same name is
\* in both records of x.
SplitFile == [m \in {"x", "y"} |-> IF m = "x" THEN 0 :> A(0) @@ 1 :> A(0)
                                            ELSE 0 :> Free @@ 1 :> A(0)]
\* Two entries in a record.
SharedRecord == [m \in {"x", "y"} |->
    IF m = "x" THEN 0 :> A(0) @@ 1 :> B(0) @@ 2 :> Free @@ 3 :> Free
               ELSE 0 :> B(0) @@ 1 :> Free @@ 2 :> Free @@ 3 :> Free]

KnownSums(d) ==
    {r \in Recs : \/ d \in login
                  \/ pc = "login" /\ d = ctx /\ (r * EPR < pos \/ (cok /\ crec = r))}

\* What the next steps can depend on, when transfers do not fail: not the
\* cached record once it is invalid and clean, nor the checksums that a drive
\* which is not logged in has not taken yet, nor the drive of an invalid
\* context.
LiveState ==
    <<media, disc, IF cok \/ dirty THEN <<buf, crec>> ELSE <<>>, cok, dirty, valid,
      IF valid THEN ctx ELSE 0, login, rdonly,
      [d \in Drives |-> {<<r, csv[d][r]>> : r \in KnownSums(d)}],
      default, pc, call, pos, found, todo>>
=============================================================================
