----------------------------- MODULE MCDownload -----------------------------
(* TLC instances of Download, and of what Releases computes.               *)
EXTENDS Download, Releases, TLC

CONSTANTS v1, v2, v3, v4

Releasable == {v1, v2, v3, v4}

\* Another release of the same size, a smaller and a larger one.
Sizes == (v1 :> 4) @@ (v2 :> 4) @@ (v3 :> 2) @@ (v4 :> 5)

\* The versions of up to three components, and the loop of `newer` over them.
Sample == [parts : UNION {[1..n -> 0..2] : n \in 1..3}, pre : BOOLEAN]

Loop(a, b) ==
  LET go[i \in 1..4] ==
        IF i \notin Compared(a, b) THEN ~a.pre /\ b.pre
        ELSE IF Part(a, i) = Part(b, i) THEN go[i + 1]
        ELSE Part(a, i) > Part(b, i)
  IN go[1]

ASSUME NewerIsTheLoop == \A a, b \in Sample : Newer(a, b) <=> Loop(a, b)
=============================================================================
