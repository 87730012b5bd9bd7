---------------------------- MODULE MCSupervisor ----------------------------
(* TLC instances of Supervisor.                                            *)
EXTENDS Supervisor, TLC

CONSTANTS j1, j2, o1, o2, v1, v2

Jobs2 == {j1, j2}
Operations == {o1, o2}
OneVersion == {v1}
Versions == {v1, v2}
\* Calls and ids are interchangeable.
Symmetry == Permutations(Job) \cup Permutations(OperationId) \cup Permutations(Version)
=============================================================================
