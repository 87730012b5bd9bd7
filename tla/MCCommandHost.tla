--------------------------- MODULE MCCommandHost ----------------------------
(* TLC instances of CommandHost.                                           *)
EXTENDS CommandHost

CONSTANTS c1, c2, c3

Controllers == {c1, c2, c3}
=============================================================================
