----------------------------- MODULE HostCalls ------------------------------
(***************************************************************************)
(* What controller records, fence and receipts promise the engine: effects *)
(* are issued one at a time by a worker that is ready, and one becomes     *)
(* ready only when nothing that an earlier worker issued can still land,   *)
(* be it that its fence passed or that a receipt was settled and no call   *)
(* was made since.  While no worker is ready, what is pending are          *)
(* ServiceHost's orphans.                                                  *)
(***************************************************************************)
CONSTANTS Controller

VARIABLES
  pending,  \* issued calls whose effect may still land
  ready     \* the present worker may issue calls

callVars == <<pending, ready>>

CallsInit == pending = {} /\ ready = FALSE

BecomesReady == ~ready /\ pending = {} /\ ready' = TRUE /\ UNCHANGED pending

Issue(c) == ready /\ pending = {} /\ pending' = {c} /\ UNCHANGED ready

\* The effect of a call lands, or never will.
Settle(c) == c \in pending /\ pending' = pending \ {c} /\ UNCHANGED ready

\* The worker ends, or may issue nothing more after an uncertain call.
Leave == ready /\ ready' = FALSE /\ UNCHANGED pending

CallsNext == BecomesReady \/ Leave \/ \E c \in Controller : Issue(c) \/ Settle(c)

CallsSpec == CallsInit /\ [][CallsNext]_callVars
=============================================================================
