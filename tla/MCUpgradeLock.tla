--------------------------- MODULE MCUpgradeLock ----------------------------
(* TLC instances of UpgradeLock.                                           *)
EXTENDS UpgradeLock, TLC

CONSTANTS p1, p2, p3, h1, h2, h3, h4

Pids == {p1, p2, p3}
Handles4 == {h1, h2, h3, h4}

\* Two calls of one process, one each of the two others.
TwoCallsOfOne == (h1 :> p1) @@ (h2 :> p1) @@ (h3 :> p2) @@ (h4 :> p3)

\* File-system calls fail in one call of the process with two, and in another.
FaultyCalls == {h2, h4}
=============================================================================
