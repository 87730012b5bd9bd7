---------------------------- MODULE ServiceHost -----------------------------
(***************************************************************************)
(* The host boundary: what the controller behind the Host trait does to    *)
(* the live service (src/src/host.rs).  The controller and the service     *)
(* manager are product code outside the repository, modelled by the        *)
(* contract the code relies on: the shape of CommandHost::call and fence,  *)
(* the HostAssumption list of src/src/invariants.rs and the FakeHost of    *)
(* src/src/harness.rs.                                                     *)
(*                                                                         *)
(* A call has four ends.  It is answered ok with its effect in place; it   *)
(* fails definitely, with or without its effect; it is unresolved          *)
(* (timeout, `uncertain: true`, controller exit not observed); or its      *)
(* worker dies.  In the last two cases the effect may still land at any    *)
(* later moment, until a fence has waited the controller out.              *)
(***************************************************************************)
EXTENDS FileStore

CONSTANTS
  \* HostAssumption::ExclusiveHandoff: an acknowledged stop has established
  \* termination and an acknowledged start has started the slot's bytes.
  ExclusiveHandoff,
  \* HostAssumption::ProbeFromLiveProcess: the evidence's version is what the
  \* probed process runs, not what happens to be on disk.
  ProbeFromLiveProcess

ASSUME HostAssumptions == {ExclusiveHandoff, ProbeFromLiveProcess} \subseteq BOOLEAN

VARIABLES
  live,         \* the live incarnations of the managed identity
  parked,       \* in-flight work is parked (quiesce without resume)
  orphans,      \* calls whose worker is gone and whose effect may still land
  userStopped   \* the service is down because its user stopped it

hostVars == <<live, parked, orphans, userStopped>>

Process == [slot : Slot, id : StartId, version : Version]

Call == [act : {"quiesce", "resume"}, slot : {None}] \cup [act : {"stop", "start"}, slot : Slot]

QuiesceCall == [act |-> "quiesce", slot |-> None]
ResumeCall == [act |-> "resume", slot |-> None]
StopCall(slot) == [act |-> "stop", slot |-> slot]
StartCall(slot) == [act |-> "start", slot |-> slot]

HostTypeOK ==
  /\ live \subseteq Process
  /\ parked \in BOOLEAN
  /\ orphans \subseteq Call
  /\ userStopped \in BOOLEAN

\* An installed product runs its stable slot; before that nothing is live.
HostInit(installed) ==
  /\ \/ /\ installed \in Version
        /\ \E id \in StartId : live = {[slot |-> "stable", id |-> id, version |-> installed]}
        /\ userStopped = FALSE
     \/ live = {} /\ userStopped = TRUE
  /\ parked = FALSE
  /\ orphans = {}

-----------------------------------------------------------------------------
(* Effects                                                                 *)

\* What a process started from a slot reports as its version.  The stable slot
\* is known good; a candidate may report anything.
Reports(slot) == IF slot = "stable" THEN {slots[slot]} ELSE Version

\* The sets of live processes that an effective call can leave behind.  A
\* candidate may exit as soon as it is started; the stable slot stays up.
LiveAfter(call, usedIds) ==
  CASE call.act = "stop" ->
         {{p \in live : p.slot # call.slot}} \cup (IF ExclusiveHandoff THEN {} ELSE {live})
    [] call.act = "start" ->
         IF \E p \in live : p.slot = call.slot THEN {live}
         ELSE IF ~Complete(call.slot) THEN {}
         ELSE {live \cup {[slot |-> call.slot, id |-> id, version |-> version]} :
                 id \in StartId \ (usedIds \cup {p.id : p \in live}),
                 version \in Reports(call.slot)}
              \cup (IF call.slot = "experiment" \/ ~ExclusiveHandoff THEN {live} ELSE {})
    [] OTHER -> {live}

\* The effect of a call lands.  usedIds are incarnations a fresh one must
\* differ from besides the live ones.
Takes(call, usedIds) ==
  /\ live' \in LiveAfter(call, usedIds)
  /\ parked' = CASE call.act = "quiesce" -> TRUE
                 [] call.act = "resume" -> FALSE
                 [] OTHER -> parked
  /\ userStopped' = (userStopped /\ call.act # "start")

\* The worker learns nothing certain: the call outlives it.
Outlives(call) ==
  /\ orphans' = orphans \cup {call}
  /\ UNCHANGED <<live, parked, userStopped>>

\* Probe evidence: one ready live incarnation, or its failure.
Evidence == [id : StartId, version : Version]
NoEvidence == [id |-> None, version |-> None]

ProbeAnswers ==
  {e \in Evidence :
     \E p \in live : e.id = p.id /\ (ProbeFromLiveProcess => e.version = p.version)}

-----------------------------------------------------------------------------
(* Steps that no worker takes                                              *)

\* A call left behind by a dead worker takes effect.
OrphanLands ==
  \E call \in orphans :
    /\ Takes(call, {})
    /\ orphans' = orphans \ {call}
    /\ UNCHANGED storeVars

\* A call left behind by a dead worker ends without an effect.
OrphanDies ==
  \E call \in orphans :
    /\ orphans' = orphans \ {call}
    /\ UNCHANGED <<live, parked, userStopped, storeVars>>
=============================================================================
