------------------------------- MODULE Phases -------------------------------
(***************************************************************************)
(* The vocabulary shared by the store, the engine and the runner: the      *)
(* journal phases, the two slots and the legal phase transitions           *)
(* (src/src/state.rs).                                                     *)
(***************************************************************************)
EXTENDS Naturals, Sequences

CONSTANTS
  Version,   \* the release versions of one K-managed identity
  StartId    \* identities of service incarnations (Evidence.start_id)

\* The absent value of an Option, and a directory that exists but has no
\* complete content (VERSION or artifact.bin is missing).
None == "none"
Partial == "partial"

ASSUME VersionAssumption == Version # {} /\ None \notin Version /\ Partial \notin Version

Slot == {"stable", "experiment"}

Phase == {"idle", "staged", "handing-over", "running-experiment", "readback",
          "promoted", "rolled-back"}

\* Phase::at_rest: no lifecycle effect of an unfinished transaction is owed.
AtRest(phase) == phase \in {"idle", "promoted", "rolled-back"}

InFlight(phase) == phase \in Phase /\ ~AtRest(phase)

\* state::TRANSITIONS.  A transaction starts from rest; the code writes that
\* row once, from Idle, because the journal restarts from whatever rested.
Transitions ==
  {<<rest, "staged">> : rest \in {"idle", "promoted", "rolled-back"}}
    \cup {<<"staged", "handing-over">>,
          <<"handing-over", "running-experiment">>,
          <<"running-experiment", "readback">>,
          <<"readback", "promoted">>}
    \cup {<<phase, "rolled-back">> :
            phase \in {"staged", "handing-over", "running-experiment", "readback"}}
=============================================================================
