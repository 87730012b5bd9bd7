------------------------------ MODULE MCRunner ------------------------------
(* TLC instances of Runner.                                                *)
EXTENDS Runner, TLC

CONSTANTS v1, v2, v3, s1, s2, s3, o1, o2

Versions2 == {v1, v2}
Versions3 == {v1, v2, v3}
StartIds == {s1, s2, s3}
Operations == {o1, o2}
OneOperation == {o1}

Symmetry == Permutations(Version) \cup Permutations(StartId) \cup Permutations(OperationId)
=============================================================================
