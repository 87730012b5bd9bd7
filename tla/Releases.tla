------------------------------ MODULE Releases ------------------------------
(***************************************************************************)
(* Which release is offered (src/src/source.rs) and how long its transfer  *)
(* may take (src/src/artifact.rs).  A version is what `newer` sees of the  *)
(* string: the dotted components before the first hyphen, 0 for one that   *)
(* is no number, and whether there is a hyphen.                            *)
(***************************************************************************)
EXTENDS Naturals, Sequences

Versions == [parts : Seq(Nat), pre : BOOLEAN]

\* A component that is missing counts as 0.
Part(v, i) == IF i \in 1..Len(v.parts) THEN v.parts[i] ELSE 0

Compared(a, b) == IF Len(a.parts) < Len(b.parts) THEN 1..Len(b.parts) ELSE 1..Len(a.parts)

AgreeBelow(a, b, i) == \A j \in 1..(i - 1) : Part(a, j) = Part(b, j)

SameCore(a, b) == \A i \in Compared(a, b) : Part(a, i) = Part(b, i)

\* The first component that differs decides; without one, a release is newer
\* than a prerelease.
Newer(a, b) ==
  \/ \E i \in Compared(a, b) : AgreeBelow(a, b, i) /\ Part(a, i) > Part(b, i)
  \/ SameCore(a, b) /\ ~a.pre /\ b.pre

\* StaticManifestSource::check: the version the manifest names, when it is newer
\* than the current one.
Check(manifest, current) == IF Newer(manifest, current) THEN {manifest} ELSE {}

-----------------------------------------------------------------------------
(* TransferPolicy::budgets                                                 *)

Policies ==
  [response_ms : Nat \ {0}, idle_ms : Nat \ {0}, minimum_bytes_per_second : Nat \ {0},
   maximum_overall_ms : Nat]

\* A policy that is not refused.
PolicyIsValid(p) == p.maximum_overall_ms >= p.response_ms

CeilDiv(n, d) == (n + d - 1) \div d

\* The time `size` bytes take at the lowest rate, and the time to the response,
\* as long as it stays within the maximum.
Overall(p, size) ==
  LET total == CeilDiv(size * 1000, p.minimum_bytes_per_second) + p.response_ms
  IN IF total < p.maximum_overall_ms THEN total ELSE p.maximum_overall_ms
=============================================================================
