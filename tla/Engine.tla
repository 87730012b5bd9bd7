------------------------------- MODULE Engine -------------------------------
(***************************************************************************)
(* The upgrade state machine (src/src/engine.rs) of the one worker that    *)
(* holds the upgrade lock, running over the store and the host.            *)
(*                                                                         *)
(* The engine's two entry points, recover and upgrade, are sequences of    *)
(* effects.  pc names the effect that comes next; every effect is one      *)
(* action with all of its ends: done, failed, unresolved.  A worker may    *)
(* also crash before any effect or in the middle of one, and a successor   *)
(* recovers from what is durable.                                          *)
(***************************************************************************)
EXTENDS ServiceHost

CONSTANTS
  MaxFaults,   \* bound: crashes, I/O errors, definite host failures, timeouts
  MaxJournal   \* bound: journal lines; no transaction starts beyond it

ASSUME BoundAssumption == MaxFaults \in Nat /\ MaxJournal \in Nat

VARIABLES
  pc,        \* the worker's next effect; "none" when no worker is alive
  fn,        \* the entry point it is in
  seq,       \* Engine.seq, the sequence number of the next journal line
  target,    \* the version argument of upgrade
  prior,     \* start id probed before the upgrade touched anything, or None
  evidence,  \* evidence of the candidate, or NoEvidence
  result,    \* what the entry point returned, None while it runs
  faults     \* how many faults have happened

workerVars == <<pc, fn, seq, target, prior, evidence, result>>
vars == <<storeVars, hostVars, workerVars, faults>>

Function == {"recover", "upgrade", "bootstrap"}

Result == {"ok", "promoted", "rolled-back", "up-to-date", "failed", "uncertain"}

\* The journal-append positions and the intent each of them writes.
IntentAt ==
  [logStaged |-> "staged", logHandingOver |-> "handing-over",
   logRunning |-> "running-experiment", logReadback |-> "readback",
   logPromoted |-> "promoted", logRolledBack |-> "rolled-back",
   logRolledBackOnly |-> "rolled-back"]

\* The host-call positions and the call each of them makes.
CallAt ==
  [quiesce |-> QuiesceCall, stopStable |-> StopCall("stable"),
   startExperiment |-> StartCall("experiment"),
   stopExperiment |-> StopCall("experiment"), startStable |-> StartCall("stable"),
   resumeRolledBack |-> ResumeCall, resumePromoted |-> ResumeCall]

\* Positions inside FileStore operations that are not appends.
StorePcs == {"read", "versions", "populate", "fill", "replace", "publish",
             "promote", "dropOld", "retire", "commit", "dropBackup", "clear",
             "adopt", "adoptFill", "adoptPublish"}

Pc == {"none", "returned", "fence", "probePrior", "probe", "judge"}
        \cup StorePcs \cup DOMAIN IntentAt \cup DOMAIN CallAt

TypeOK ==
  /\ StoreTypeOK
  /\ HostTypeOK
  /\ pc \in Pc
  /\ fn \in Function
  /\ seq \in Nat
  /\ target \in Version \cup {None}
  /\ prior \in StartId \cup {None}
  /\ evidence \in Evidence \cup {NoEvidence}
  /\ result \in Result \cup {None}
  /\ faults \in 0..MaxFaults

NoWorker ==
  /\ pc = "none" /\ fn = "recover" /\ seq = 0 /\ target = None
  /\ prior = None /\ evidence = NoEvidence /\ result = None

Init ==
  /\ \E installed \in Version \cup {None} : StoreInit(installed) /\ HostInit(installed)
  /\ NoWorker
  /\ faults = 0

-----------------------------------------------------------------------------
(* Control                                                                 *)

Goto(next) == pc' = next /\ UNCHANGED <<fn, seq, target, prior, evidence, result>>

Return(value) ==
  /\ pc' = "returned"
  /\ result' = value
  /\ UNCHANGED <<fn, seq, target, prior, evidence>>

\* The worker process is gone, and with it everything it only remembered.
WorkerGone ==
  /\ pc' = "none" /\ fn' = "recover" /\ seq' = 0 /\ target' = None
  /\ prior' = None /\ evidence' = NoEvidence /\ result' = None

Fault == faults < MaxFaults /\ faults' = faults + 1

\* The ids a new incarnation must not repeat: a start id is never reused.
UsedIds == {prior, evidence.id}

\* recover returns (); upgrade returns how the transaction ended.
Finish(outcome) == Return(IF fn = "recover" THEN "ok" ELSE outcome)

\* `?` on a host call: Error::Uncertain and any other error both leave the
\* entry point, with the transaction as the journal has it.
HostCall(at, Then) ==
  /\ pc = at
  /\ \/ Takes(CallAt[at], UsedIds) /\ Then /\ UNCHANGED <<orphans, faults>>
     \/ /\ Takes(CallAt[at], UsedIds) \/ UNCHANGED <<live, parked, userStopped>>
        /\ Fault /\ Return("failed") /\ UNCHANGED orphans
     \/ Outlives(CallAt[at]) /\ Fault /\ Return("uncertain")
  /\ UNCHANGED storeVars

\* The line a journal position appends; a rollback records only its reason.
EntryAt(at) ==
  [seq |-> seq, intent |-> IntentAt[at],
   version |-> IF IntentAt[at] = "rolled-back" THEN None ELSE target]

\* Engine::journal: append, then advance the sequence number.  append refuses
\* a sequence number that does not continue the journal.
Log(at, next) ==
  /\ pc = at
  /\ \/ /\ JournalReadable /\ seq = NextSeq
        /\ AppendEntry(EntryAt(at))
        /\ seq' = seq + 1
        /\ pc' = next
        /\ UNCHANGED <<fn, target, prior, evidence, result>>
     \/ /\ ~(JournalReadable /\ seq = NextSeq)
        /\ Return("failed") /\ UNCHANGED storeVars
  /\ UNCHANGED <<hostVars, faults>>

\* remove_dir(d), then Then.
Remove(at, d, Then) ==
  /\ pc = at
  /\ \/ RemoveFiles(d) /\ Goto(at)
     \/ RemoveDir(d) /\ Then
     \/ slots[d] = None /\ Then /\ UNCHANGED storeVars
  /\ UNCHANGED <<hostVars, faults>>

\* A step that only decides: it changes neither the store nor the host.
Decide(at, Then) ==
  /\ pc = at
  /\ Then
  /\ UNCHANGED <<storeVars, hostVars, faults>>

-----------------------------------------------------------------------------
(* Engine::recover                                                         *)

\* Validate persistent input before invoking any host effect.
ReadJournal ==
  /\ pc = "read"
  /\ IF JournalReadable
     THEN /\ seq' = NextSeq
          /\ pc' = "fence"
          /\ UNCHANGED <<fn, target, prior, evidence, result>>
     ELSE Return("failed")
  /\ UNCHANGED <<storeVars, hostVars, faults>>

\* Mutant: a recorded rollback is recorded once more before it is replayed.
ResumeRecordsAgain(phase) ==
  CASE phase = "idle" -> Return("ok")
    [] phase = "promoted" -> Goto("promote")
    [] phase = "staged" -> Goto("logRolledBackOnly")
    [] OTHER -> Goto("logRolledBack")

\* Mutant: a recorded rollback is taken for a finished one.
ResumeTrustsRollback(phase) ==
  CASE phase \in {"idle", "rolled-back"} -> Return("ok")
    [] phase = "promoted" -> Goto("promote")
    [] phase = "staged" -> Goto("logRolledBackOnly")
    [] OTHER -> Goto("logRolledBack")

\* Mutant: a candidate that was read back is promoted without its intent.
ResumeCommitsReadback(phase) ==
  CASE phase = "idle" -> Return("ok")
    [] phase \in {"promoted", "readback"} -> Goto("promote")
    [] phase = "rolled-back" -> Goto("stopExperiment")
    [] phase = "staged" -> Goto("logRolledBackOnly")
    [] OTHER -> Goto("logRolledBack")

\* What recover does next, from the last durable intent.
ResumeFrom(phase) ==
  CASE phase = "idle" -> Return("ok")
    [] phase = "promoted" -> Goto("promote")
    [] phase = "rolled-back" -> Goto("stopExperiment")
    [] phase = "staged" -> Goto("logRolledBackOnly")
    [] phase \in {"handing-over", "running-experiment", "readback"} -> Goto("logRolledBack")

\* Mutant: recovery replays lifecycle effects without fencing its predecessor.
FenceSkipped ==
  /\ pc = "fence"
  /\ ResumeFrom(LastPhase)
  /\ UNCHANGED <<storeVars, hostVars, faults>>

\* fence: every recorded controller has exited and the product acknowledges
\* that nothing queued can still land.  While something can, it times out.
Fence ==
  /\ pc = "fence"
  /\ \/ orphans = {} /\ ResumeFrom(LastPhase) /\ UNCHANGED faults
     \/ orphans # {} /\ Return("uncertain") /\ UNCHANGED faults
     \/ Fault /\ \E value \in {"failed", "uncertain"} : Return(value)
  /\ UNCHANGED <<storeVars, hostVars>>

-----------------------------------------------------------------------------
(* Engine::rollback                                                        *)

LogRolledBack == Log("logRolledBack", "stopExperiment")

\* skip_restart: the transaction died before it touched the service.
LogRolledBackOnly == Log("logRolledBackOnly", "clear")

StopExperiment == HostCall("stopExperiment", Goto("startStable"))
StartStable == HostCall("startStable", Goto("resumeRolledBack"))
ResumeRolledBack == HostCall("resumeRolledBack", Goto("clear"))

Clear == Remove("clear", "experiment", Finish("rolled-back"))

-----------------------------------------------------------------------------
(* Engine::upgrade                                                         *)

\* The stable slot must be complete, and differ from the target.
ReadVersions ==
  Decide("versions",
    IF slots["stable"] \notin Version \/ slots["experiment"] = Partial THEN Return("failed")
    ELSE IF slots["stable"] = target THEN Return("up-to-date")
    ELSE Goto("probePrior"))

\* Mutant: a failed probe leaves a placeholder instead of no start id.
ProbePriorPlaceholder ==
  /\ pc = "probePrior"
  /\ \/ \E e \in ProbeAnswers : prior' = e.id
     \/ prior' = "unknown"
  /\ pc' = "logStaged"
  /\ UNCHANGED <<fn, seq, target, evidence, result, faults, storeVars, hostVars>>

\* The incarnation the upgrade must replace; an ordinary failure means none.
ProbePrior ==
  /\ pc = "probePrior"
  /\ \/ /\ \/ \E e \in ProbeAnswers : prior' = e.id
           \/ prior' = None
        /\ pc' = "logStaged"
        /\ UNCHANGED <<fn, seq, target, evidence, result, faults>>
     \/ Fault /\ Return("uncertain")
  /\ UNCHANGED <<storeVars, hostVars>>

LogStaged == Log("logStaged", "populate")

\* FileStore::stage.
StagePopulate ==
  /\ pc = "populate" /\ PopulateBegin("experiment.staging") /\ Goto("fill")
  /\ UNCHANGED <<hostVars, faults>>
StageFill ==
  /\ pc = "fill" /\ PopulateFinish("experiment.staging", target) /\ Goto("replace")
  /\ UNCHANGED <<hostVars, faults>>
StageReplace == Remove("replace", "experiment", Goto("publish"))
\* Mutant: the service is taken down before the handover is journaled.
StagePublishUnannounced ==
  /\ pc = "publish" /\ Rename("experiment.staging", "experiment") /\ Goto("quiesce")
  /\ UNCHANGED <<hostVars, faults>>
StagePublish ==
  /\ pc = "publish" /\ Rename("experiment.staging", "experiment") /\ Goto("logHandingOver")
  /\ UNCHANGED <<hostVars, faults>>

LogHandingOver == Log("logHandingOver", "quiesce")
Quiesce == HostCall("quiesce", Goto("stopStable"))
StopStable == HostCall("stopStable", Goto("startExperiment"))
StartExperiment == HostCall("startExperiment", Goto("logRunning"))
LogRunning == Log("logRunning", "probe")

\* A definite probe failure rolls back; an unresolved one authorises nothing.
Probe ==
  /\ pc = "probe"
  /\ \/ /\ \E e \in ProbeAnswers : evidence' = e
        /\ pc' = "logReadback"
        /\ UNCHANGED <<fn, seq, target, prior, result, faults>>
     \/ Goto("logRolledBack") /\ UNCHANGED faults
     \/ Fault /\ Return("uncertain")
  /\ UNCHANGED <<storeVars, hostVars>>

LogReadback == Log("logReadback", "judge")

\* Mutant: the pre-upgrade incarnation is not recognised.
JudgeVersionOnly ==
  /\ pc = "judge"
  /\ IF evidence.version # target THEN Goto("logRolledBack") ELSE Goto("logPromoted")
  /\ UNCHANGED <<storeVars, hostVars, faults>>

\* Mutant: any new incarnation will do, whatever version it reports.
JudgeIncarnationOnly ==
  /\ pc = "judge"
  /\ IF evidence.id = prior THEN Goto("logRolledBack") ELSE Goto("logPromoted")
  /\ UNCHANGED <<storeVars, hostVars, faults>>

\* Mutant: the slots are swapped before the promote intent is durable.
JudgePromotesUnlogged ==
  /\ pc = "judge"
  /\ IF evidence.id = prior \/ evidence.version # target
     THEN Goto("logRolledBack") ELSE Goto("promote")
  /\ UNCHANGED <<storeVars, hostVars, faults>>

\* Convergence::evaluate: the reported version must be the target; the other
\* surfaces, which the host reads, may disagree or not answer.
Verdicts ==
  IF evidence.version # target THEN {"refused"} ELSE {"accepted", "refused", "uncertain"}

\* The pre-upgrade incarnation is refused before convergence is evaluated.
Judge ==
  /\ pc = "judge"
  /\ IF evidence.id = prior THEN Goto("logRolledBack") /\ UNCHANGED faults
     ELSE \/ "accepted" \in Verdicts /\ Goto("logPromoted") /\ UNCHANGED faults
          \/ "refused" \in Verdicts /\ Goto("logRolledBack") /\ UNCHANGED faults
          \/ "uncertain" \in Verdicts /\ Fault /\ Return("uncertain")
  /\ UNCHANGED <<storeVars, hostVars>>

LogPromoted == Log("logPromoted", "promote")

-----------------------------------------------------------------------------
(* FileStore::promote and the effects after it                             *)

\* Without an experiment the commit rename has already happened.
PromoteBegin ==
  Decide("promote",
    CASE slots["experiment"] = Partial -> Return("failed")
      [] slots["experiment"] = None ->
           IF Complete("stable") THEN Goto("dropBackup") ELSE Return("failed")
      [] OTHER -> IF slots["stable"] = None THEN Goto("commit") ELSE Goto("dropOld"))

PromoteDropOld == Remove("dropOld", "stable.old", Goto("retire"))

PromoteRetire ==
  /\ pc = "retire" /\ Rename("stable", "stable.old") /\ Goto("commit")
  /\ UNCHANGED <<hostVars, faults>>

\* The experiment's directory takes the stable name; what runs from it is
\* from now on the stable slot's process.
PromoteCommit ==
  /\ pc = "commit" /\ Rename("experiment", "stable") /\ Goto("dropBackup")
  /\ live' = {[p EXCEPT !.slot = "stable"] : p \in live}
  /\ UNCHANGED <<parked, orphans, userStopped, faults>>

\* Mutant: a promotion ends without releasing the parked work.
PromoteWithoutResume == Remove("dropBackup", "stable.old", Finish("promoted"))

PromoteDropBackup == Remove("dropBackup", "stable.old", Goto("resumePromoted"))

ResumePromoted == HostCall("resumePromoted", Finish("promoted"))

-----------------------------------------------------------------------------
(* storage::bootstrap_stable                                               *)

\* Adopts trusted bytes into an empty state directory, and only there.
Adopt ==
  Decide("adopt",
    IF Complete("stable") THEN Return("ok")
    ELSE IF slots["stable"] = Partial \/ journal # <<>> \/ torn \/ slots["experiment"] # None
         THEN Return("failed")
    ELSE Goto("adoptFill"))

AdoptFill ==
  /\ pc = "adoptFill"
  /\ \/ slots["stable.bootstrap"] = None /\ PopulateBegin("stable.bootstrap") /\ Goto("adoptFill")
     \/ slots["stable.bootstrap"] # None
        /\ PopulateFinish("stable.bootstrap", target) /\ Goto("adoptPublish")
  /\ UNCHANGED <<hostVars, faults>>

AdoptPublish ==
  /\ pc = "adoptPublish" /\ Rename("stable.bootstrap", "stable") /\ Return("ok")
  /\ UNCHANGED <<hostVars, faults>>

-----------------------------------------------------------------------------
(* The worker process                                                      *)

\* A worker takes the lock and calls recover.
BeginRecover ==
  /\ pc = "none"
  /\ pc' = "read" /\ fn' = "recover"
  /\ UNCHANGED <<seq, target, prior, evidence, result, storeVars, hostVars, faults>>

BeginBootstrap(version) ==
  /\ pc = "none"
  /\ pc' = "adopt" /\ fn' = "bootstrap" /\ target' = version
  /\ UNCHANGED <<seq, prior, evidence, result, storeVars, hostVars, faults>>

\* With recovery done, the same worker calls upgrade.
BeginUpgrade(version) ==
  /\ pc = "returned" /\ fn = "recover" /\ result = "ok"
  /\ Len(journal) + 6 <= MaxJournal
  /\ pc' = "versions" /\ fn' = "upgrade" /\ target' = version /\ result' = None
  /\ UNCHANGED <<seq, prior, evidence, storeVars, hostVars, faults>>

\* The worker reports its result and exits; the lock goes with it.
Exit ==
  /\ pc = "returned"
  /\ WorkerGone
  /\ UNCHANGED <<storeVars, hostVars, faults>>

\* The effect in progress when the worker stops: an append may be half done,
\* and a call already sent goes on without its worker.
Interrupted ==
  \/ UNCHANGED <<storeVars, hostVars>>
  \/ pc \in DOMAIN IntentAt /\ AppendCutShort(EntryAt(pc)) /\ UNCHANGED hostVars
  \/ pc \in DOMAIN CallAt /\ Outlives(CallAt[pc]) /\ UNCHANGED storeVars

Crash ==
  /\ pc # "none"
  /\ Fault /\ WorkerGone
  /\ Interrupted

\* An I/O error: `?` leaves the entry point, whatever was already written stays.
IoError ==
  /\ pc \in StorePcs \cup DOMAIN IntentAt
  /\ Fault /\ Return("failed")
  /\ IF pc \in StorePcs THEN UNCHANGED storeVars ELSE AppendCutShort(EntryAt(pc))
  /\ UNCHANGED hostVars

\* The user stops the service of an installation that is at rest.
UserStops ==
  /\ pc = "none" /\ AtRest(LastPhase) /\ orphans = {} /\ ~parked
  /\ live' = {} /\ userStopped' = TRUE
  /\ UNCHANGED <<parked, orphans, storeVars, workerVars, faults>>

Orphans == (OrphanLands \/ OrphanDies) /\ UNCHANGED <<workerVars, faults>>

Recovering ==
  \/ ReadJournal \/ Fence
  \/ LogRolledBack \/ LogRolledBackOnly \/ StopExperiment \/ StartStable
  \/ ResumeRolledBack \/ Clear

Upgrading ==
  \/ ReadVersions \/ ProbePrior \/ LogStaged
  \/ StagePopulate \/ StageFill \/ StageReplace \/ StagePublish
  \/ LogHandingOver \/ Quiesce \/ StopStable \/ StartExperiment
  \/ LogRunning \/ Probe \/ LogReadback \/ Judge \/ LogPromoted

Promoting ==
  \/ PromoteBegin \/ PromoteDropOld \/ PromoteRetire \/ PromoteCommit
  \/ PromoteDropBackup \/ ResumePromoted

Bootstrapping == Adopt \/ AdoptFill \/ AdoptPublish

WorkerStep == Recovering \/ Upgrading \/ Promoting \/ Bootstrapping

Next ==
  \/ BeginRecover
  \/ \E version \in Version : BeginBootstrap(version) \/ BeginUpgrade(version)
  \/ WorkerStep
  \/ Exit \/ Crash \/ IoError
  \/ UserStops \/ Orphans

Spec == Init /\ [][Next]_vars

\* Scheduling: a live worker keeps executing, its exit is observed, orphaned
\* controllers end, and somebody keeps invoking the installer, even if some
\* of the invocations are bootstraps.
Fairness ==
  /\ WF_vars(WorkerStep) /\ WF_vars(Exit) /\ WF_vars(Orphans)
  /\ SF_vars(BeginRecover)

FairSpec == Spec /\ Fairness

-----------------------------------------------------------------------------
(* Properties                                                              *)

\* k.never-dual-run: there are never two live incarnations, whatever calls of
\* dead workers still land.
NeverDualRun == \A p, q \in live : p = q

\* k.never-bricked, sharpened: at every instant of a transaction there is a
\* complete copy that recovery will end up with: the stable slot, or after the
\* promote intent the experiment that is about to take its name.
NeverBricked ==
  journal # <<>> =>
    Complete("stable") \/ (LastPhase = "promoted" /\ Complete("experiment"))

\* The journal is a path of state::TRANSITIONS, across crashes, torn tails and
\* lines written by workers that did not live to see them succeed.
JournalFollowsTransitions ==
  \A i \in 1..Len(journal) :
    <<IF i = 1 THEN "idle" ELSE journal[i - 1].intent, journal[i].intent>> \in Transitions

\* k.terminal-leaves-no-experiment and more: when recover or upgrade reports an
\* end, the slots hold the stable version only, parked work is released and the
\* service runs the stable version unless its user stopped it.
TerminalState ==
  pc = "returned" /\ fn # "bootstrap" /\ result \in {"ok", "promoted", "rolled-back"} =>
    /\ slots["experiment"] = None /\ slots["stable.old"] = None
    /\ ~parked /\ orphans = {}
    /\ \A p \in live : p.slot = "stable" /\ p.version = slots["stable"]
    /\ live # {} \/ userStopped

\* Write-ahead: the service is touched only under a durable intent that
\* announces it, never before handover and never by a call that outlived its
\* transaction.
EffectsAnnounced ==
  [][live' # live \/ parked' # parked =>
       userStopped' \/ LastPhase \in {"handing-over", "promoted", "rolled-back"}]_vars

\* The version recovery will converge to.
Committed ==
  IF LastPhase = "promoted" /\ Complete("experiment") THEN slots["experiment"]
  ELSE slots["stable"]

Candidate == IF InFlight(LastPhase) THEN journal[Len(journal)].version ELSE None

\* The engine implements the atomic transaction: the journal line of the
\* promote intent is the commit, whatever happens after it.
Txn == INSTANCE UpgradeTxn WITH installed <- Committed, candidate <- Candidate
ImplementsTxn == Txn!TxnSpec

\* With the assumption on the host's probe, a promotion is never reported
\* unless a live process runs the target.
PromotedRunsTarget ==
  pc = "returned" /\ result = "promoted" => \E p \in live : p.version = target

\* Even a host that acknowledges a stop it did not carry out cannot make the
\* engine take the pre-upgrade incarnation for the new one.
PromotedIsNewIncarnation ==
  pc = "returned" /\ result = "promoted" /\ prior # None => \E p \in live : p.id # prior

\* "It does not start": the worker rolls a candidate back that definitely failed
\* to start, rather than leave with the transaction in flight.
BadCandidateIsRolledBack ==
  [][pc = "startExperiment" /\ pc' = "returned" => result' = "uncertain"]_vars

\* Nothing is owed: the last transaction ended and the service is as it ended.
Settled ==
  /\ AtRest(LastPhase)
  /\ slots["experiment"] = None /\ slots["stable.old"] = None
  /\ ~parked /\ orphans = {}
  /\ live # {} \/ userStopped

\* Once faults cease, every transaction is settled, wherever it was cut off.
SettlesAgain == []<>Settled
=============================================================================
