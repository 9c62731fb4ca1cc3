------------------------------- MODULE MCFiles ------------------------------
EXTENDS FileServicesRefine, TLC

\* Two files on a drive and one on another.
TwoAndOne == {<<0, "a">>, <<0, "b">>, <<1, "a">>}
OneFile == {<<0, "a">>}

\* Two files on a drive; which one has which name makes no difference.
AllFiles == Drives \X Names
Renamings == Permutations(Names)

\* The result of the last call tells no two states of the system apart.
WithoutResult == <<dir, data, ctx, alv, fcb, open>>
=============================================================================
