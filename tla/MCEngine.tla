------------------------------ MODULE MCEngine ------------------------------
(* TLC instances of Engine.                                                *)
EXTENDS Engine, TLC

CONSTANTS v1, v2, v3, s1, s2, s3, s4

Versions2 == {v1, v2}
Versions3 == {v1, v2, v3}
StartIds == {s1, s2, s3, s4}

Symmetry == Permutations(Version) \cup Permutations(StartId)
=============================================================================
