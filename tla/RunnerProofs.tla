---------------------------- MODULE RunnerProofs ----------------------------
(***************************************************************************)
(* Proofs about the runner and its receipts, for every set of operations,  *)
(* versions and start ids and every bound.  What concerns the receipts     *)
(* alone holds for every way the library is called; what relates them to   *)
(* the store and the service is proved for callers of the runner protocol, *)
(* which pin their operations (LibraryCalls = {}), and under the           *)
(* assumptions on the host.                                                *)
(***************************************************************************)
EXTENDS Runner, EngineOutcomeProofs

USE RunnerAssumption

-----------------------------------------------------------------------------
(* The engine under the runner                                             *)

\* What an entry point of the engine can answer.
Answers ==
  /\ pc \in {"read", "fence"} => fn = "recover"
  /\ pc = "versions" => fn = "upgrade"
  /\ pc = "returned" /\ fn = "recover" => result \in {"ok", "failed", "uncertain"}
  /\ pc = "returned" /\ fn = "upgrade" =>
       result \in {"promoted", "rolled-back", "up-to-date", "failed", "uncertain"}

\* An installation that started complete stays so wherever recovery is done.
StableInstalled ==
  /\ LastPhase = "idle" => Complete("stable")
  /\ pc \in {"dropBackup", "resumePromoted"} \/ Ready => Complete("stable")

\* Between recovery and the handover the engine has recovered and waits.
AfterRecovery == {"settle", "claim", "check", "acquire", "prepare", "handover"}

\* Where the runner stands tells where the engine is.
WorkerFollows ==
  /\ rpc \in Rpc
  /\ rpc # "none" => request \in Requests
  /\ rpc \in {"none", "prior", "recover"} => NoWorker
  /\ rpc = "recovering" => fn = "recover" /\ target = None /\ pc # "none"
  /\ rpc \in AfterRecovery => Ready
  /\ rpc = "upgrading" => fn = "upgrade" /\ pc # "none"
  /\ rpc = "record" =>
       pc = "returned" /\ fn = "upgrade" /\ result \in {"promoted", "rolled-back", "up-to-date"}
  /\ rpc = "replied" => NoWorker \/ pc = "returned"

EngineInv == StoreInv /\ Answers /\ StableInstalled /\ WorkerFollows

-----------------------------------------------------------------------------
(* The receipts                                                            *)

\* The runner works on the request's own operation.
Working == {"check", "acquire", "prepare", "handover", "upgrading", "record"}

Open(operation) == operation # NoOperation /\ operation.outcome = None

ReceiptInv ==
  /\ \A id \in OperationId :
       receipts[id] # NoOperation => receipts[id].id = id /\ receipts[id].outcome # None
  /\ op # NoOperation => receipts[op.id] \in {NoOperation, op}
  /\ rpc \in {"recover", "recovering", "settle", "claim"} /\ request.id # None =>
       /\ receipts[request.id] = NoOperation
       /\ op.id = request.id => op.target = request.target
       /\ request.kind = "recover" => op.id = request.id
  /\ rpc = "claim" => ~Open(op)
  /\ rpc \in Working => request.kind = "upgrade"
  /\ rpc \in Working /\ request.id # None =>
       /\ receipts[request.id] = NoOperation
       /\ op.id = request.id /\ op.target = request.target /\ Open(op)

-----------------------------------------------------------------------------
(* The receipts and what they are about                                    *)

\* While an operation is open, what is installed is its source, or its target once
\* that is committed, and the transaction in flight is its own.
OpenIsOwn ==
  Open(op) =>
    /\ Candidate \in {None, op.target}
    /\ Committed = op.from \/ (LastPhase = "promoted" /\ Committed = op.target)

\* While none is open, nothing of a transaction is left and the engine does nothing but
\* observe.
ClosedIsSettled ==
  /\ ~Open(op) => AtRest(LastPhase) /\ Tidy
  /\ op = NoOperation => journal = <<>> /\ pc \in {"none", "read", "fence", "returned"}
  /\ op.outcome # None => SettledStateMatches /\ pc \in {"none", "returned"}
  /\ op.outcome = "up-to-date" => op.from = op.target

\* The engine works on the version the operation names, from the version it names.
WorkIsOwn ==
  /\ rpc \in {"check", "acquire", "prepare", "handover"} => op.from = slots["stable"]
  /\ rpc \in {"upgrading", "record"} =>
       /\ target = op.target
       /\ pc \in {"versions"} \cup Choosing => slots["stable"] = op.from
       /\ pc = "returned" /\ result = "up-to-date" => slots["stable"] = op.from

OwnInv == OpenIsOwn /\ ClosedIsSettled /\ WorkIsOwn

\* Nor is anything owed to the service.
ServiceSettled == ~Open(op) => Settled /\ NoExperiment

-----------------------------------------------------------------------------
(* Lemmas: what the runner does to the engine                              *)

\* The engine is left alone; a fault may have hit the runner.
Rests == UNCHANGED <<storeVars, hostVars, workerVars>> /\ (Fault \/ UNCHANGED faults)

\* Recovery is replaced by an observation of a store that a receipt describes.
Observes ==
  /\ NoWorker /\ op.outcome # None /\ SettledStateMatches
  /\ ObserveSettled /\ UNCHANGED <<storeVars, hostVars, faults>>

\* Whatever the runner does, the engine takes a step, rests or is replaced by an
\* observation.
LEMMA EngineMoves ==
  ASSUME WorkerFollows, RunnerNext
  PROVE  Next \/ Rests \/ Observes
<1>1. CASE \/ \E r \in Requests : Invoke(r)
           \/ Prior \/ Recovered \/ SettleOperation \/ RecoveryDone \/ ReplaySettled
           \/ ArchiveOther \/ OpenOperation \/ Check \/ Acquire \/ Prepare \/ Upgraded
           \/ RecordOutcome \/ ReceiptError
  BY <1>1
     DEF Invoke, Prior, Recovered, SettleOperation, RecoveryDone, ReplaySettled, ArchiveOther,
         OpenOperation, Check, Acquire, Prepare, Upgraded, RecordOutcome, ReceiptError,
         StoreAndEngineUnchanged, Rests
<1>2. CASE RecoverEngine
  BY <1>2 DEF RecoverEngine, WorkerFollows, StoreAndEngineUnchanged, Rests, Observes, Next
<1>3. CASE HandOver
  <2>1. request.target \in Version \cup {None}
    BY <1>3 DEF HandOver, WorkerFollows, Requests
  <2> QED BY <1>3, <2>1 DEF HandOver, Next
<1>4. CASE WorkerExits
  <2>1. CASE NoWorker
    BY <1>4, <2>1 DEF WorkerExits, NoWorker, WorkerGone, workerVars, Rests
  <2>2. CASE pc = "returned"  BY <1>4, <2>2 DEF WorkerExits, Exit, Next
  <2> QED BY <1>4, <2>1, <2>2 DEF WorkerExits, WorkerFollows
<1>5. CASE WorkerCrashes
  <2>1. CASE pc # "none"  BY <1>5, <2>1 DEF WorkerCrashes, Crash, Next
  <2>2. CASE NoWorker
    <3>1. pc \notin DOMAIN IntentAt \cup DOMAIN CallAt  BY <2>2, Positions DEF NoWorker
    <3> QED BY <1>5, <2>2, <3>1
            DEF WorkerCrashes, Interrupted, NoWorker, WorkerGone, workerVars, Rests
  <2>3. pc # "none" \/ NoWorker
    BY <1>5 DEF WorkerCrashes, WorkerFollows, Rpc, AfterRecovery, Ready
  <2> QED BY <2>1, <2>2, <2>3
<1>6. CASE EngineRuns \/ UserStopsService \/ OrphanSteps
  BY <1>6 DEF EngineRuns, UserStopsService, OrphanSteps, Next
<1> QED BY <1>1, <1>2, <1>3, <1>4, <1>5, <1>6 DEF RunnerNext, RunnerStep

\* A running entry point stays in itself, with its argument, until it returns.
LEMMA RunKeeps ==
  ASSUME StoreInv, WorkerStep \/ IoError
  PROVE  UNCHANGED <<fn, target>> /\ pc \notin {"none", "returned"} /\ pc' # "none"
<1>0. LastPhase \in Phase  BY LastPhaseType DEF StoreInv, TypeOK
<1> USE DEF Goto, Return, Finish
<1>1. CASE \/ LogRolledBack \/ LogRolledBackOnly \/ LogStaged \/ LogHandingOver
           \/ LogRunning \/ LogReadback \/ LogPromoted
  BY <1>1 DEF LogRolledBack, LogRolledBackOnly, LogStaged, LogHandingOver, LogRunning, LogReadback,
              LogPromoted, Log
<1>2. CASE \/ StopExperiment \/ StartStable \/ ResumeRolledBack
           \/ Quiesce \/ StopStable \/ StartExperiment \/ ResumePromoted
  BY <1>2 DEF StopExperiment, StartStable, ResumeRolledBack, Quiesce, StopStable, StartExperiment,
              ResumePromoted, HostCall
<1>3. CASE Clear \/ StageReplace \/ PromoteDropOld \/ PromoteDropBackup
  BY <1>3 DEF Clear, StageReplace, PromoteDropOld, PromoteDropBackup, Remove
<1>4. CASE \/ StagePopulate \/ StageFill \/ StagePublish \/ PromoteRetire \/ PromoteCommit
           \/ AdoptFill \/ AdoptPublish
  BY <1>4 DEF StagePopulate, StageFill, StagePublish, PromoteRetire, PromoteCommit, AdoptFill,
              AdoptPublish
<1>5. CASE ReadJournal \/ ReadVersions \/ ProbePrior \/ Probe \/ Judge \/ PromoteBegin \/ Adopt
  BY <1>5 DEF ReadJournal, ReadVersions, ProbePrior, Probe, Judge, PromoteBegin, Adopt, Decide
<1>6. CASE Fence
  BY <1>0, <1>6 DEF Fence, ResumeFrom, Phase
<1>7. CASE IoError
  BY <1>7, Positions DEF IoError, StorePcs
<1> QED BY <1>1, <1>2, <1>3, <1>4, <1>5, <1>6, <1>7
        DEF WorkerStep, Recovering, Upgrading, Promoting, Bootstrapping

\* Every answer of a running entry point is one of those it can give.
LEMMA RunAnswers ==
  ASSUME StoreInv, Answers, WorkerStep \/ IoError
  PROVE  Answers'
<1>0. LastPhase \in Phase /\ fn \in Function  BY LastPhaseType DEF StoreInv, TypeOK
<1> USE DEF Goto, Return, Finish, Answers
<1>1. CASE \/ LogRolledBack \/ LogRolledBackOnly \/ LogStaged \/ LogHandingOver
           \/ LogRunning \/ LogReadback \/ LogPromoted
  BY <1>1 DEF LogRolledBack, LogRolledBackOnly, LogStaged, LogHandingOver, LogRunning, LogReadback,
              LogPromoted, Log
<1>2. CASE \/ StopExperiment \/ StartStable \/ ResumeRolledBack
           \/ Quiesce \/ StopStable \/ StartExperiment \/ ResumePromoted
  BY <1>2 DEF StopExperiment, StartStable, ResumeRolledBack, Quiesce, StopStable, StartExperiment,
              ResumePromoted, HostCall
<1>3. CASE Clear \/ StageReplace \/ PromoteDropOld \/ PromoteDropBackup
  BY <1>3 DEF Clear, StageReplace, PromoteDropOld, PromoteDropBackup, Remove
<1>4. CASE \/ StagePopulate \/ StageFill \/ StagePublish \/ PromoteRetire \/ PromoteCommit
           \/ AdoptFill \/ AdoptPublish \/ Adopt
  <2>1. AdoptPublish \/ Adopt => fn = "bootstrap"
    BY DEF AdoptPublish, Adopt, Decide, StoreInv, SlotsMatchControl, Adopting
  <2> QED BY <1>4, <2>1 DEF StagePopulate, StageFill, StagePublish, PromoteRetire, PromoteCommit,
                            AdoptFill, AdoptPublish, Adopt, Decide
<1>5. CASE ReadJournal \/ ReadVersions \/ ProbePrior \/ Probe \/ Judge \/ PromoteBegin
  BY <1>5 DEF ReadJournal, ReadVersions, ProbePrior, Probe, Judge, PromoteBegin, Decide
<1>6. CASE Fence
  BY <1>0, <1>6 DEF Fence, ResumeFrom, Phase
<1>7. CASE IoError
  BY <1>7 DEF IoError
<1> QED BY <1>1, <1>2, <1>3, <1>4, <1>5, <1>6, <1>7
        DEF WorkerStep, Recovering, Upgrading, Promoting, Bootstrapping

\* So is every answer after any step of the engine.
LEMMA NextAnswers ==
  ASSUME StoreInv, Answers, Next
  PROVE  Answers'
<1>1. CASE WorkerStep \/ IoError  BY <1>1, RunAnswers
<1>2. CASE BeginRecover \/ \E version \in Version : BeginBootstrap(version) \/ BeginUpgrade(version)
  BY <1>2 DEF BeginRecover, BeginBootstrap, BeginUpgrade, Answers
<1>3. CASE Exit \/ Crash  BY <1>3 DEF Exit, Crash, WorkerGone, Answers
<1>4. CASE UserStops \/ Orphans  BY <1>4 DEF UserStops, Orphans, workerVars, Answers
<1> QED BY <1>1, <1>2, <1>3, <1>4 DEF Next

\* A complete installation stays one, where recovery is done.
LEMMA NextInstalled ==
  ASSUME StoreInv, Answers, StableInstalled, Next
  PROVE  StableInstalled'
<1>1. CASE UNCHANGED <<journal, slots>> /\ ~Ready'
           /\ (pc' \in {"dropBackup", "resumePromoted"} => pc \in {"dropBackup", "resumePromoted"})
  BY <1>1, SameJournal DEF StableInstalled, Complete
<1>2. LastPhase \in Phase  BY LastPhaseType DEF StoreInv, TypeOK
<1>3. slots \in [Dir -> Version \cup {None, Partial}]
      /\ {"stable", "experiment", "stable.old", "experiment.staging", "stable.bootstrap"} = Dir
  BY DEF StoreInv, TypeOK, StoreTypeOK, Dir, Slot
<1> USE DEF Goto, Return, Finish, Ready
<1>4. CASE \/ LogRolledBack \/ LogRolledBackOnly \/ LogStaged \/ LogHandingOver
           \/ LogRunning \/ LogReadback \/ LogPromoted
  <2>1. pc \in DOMAIN IntentAt /\ pc' \notin {"dropBackup", "resumePromoted"} /\ ~Ready'
    BY <1>4, Positions
       DEF LogRolledBack, LogRolledBackOnly, LogStaged, LogHandingOver, LogRunning, LogReadback,
           LogPromoted, Log
  <2>2. UNCHANGED slots
    BY <1>4
       DEF LogRolledBack, LogRolledBackOnly, LogStaged, LogHandingOver, LogRunning, LogReadback,
           LogPromoted, Log, AppendEntry, storeVars
  <2>3. Complete("stable")'  BY <2>1, <2>2, StableAtLog DEF Complete
  <2> QED BY <2>3 DEF StableInstalled
<1>5. CASE \/ StopExperiment \/ StartStable \/ ResumeRolledBack
           \/ Quiesce \/ StopStable \/ StartExperiment
  BY <1>1, <1>5 DEF StopExperiment, StartStable, ResumeRolledBack, Quiesce, StopStable,
                    StartExperiment, HostCall, storeVars
<1>6. CASE ResumePromoted
  <2>1. UNCHANGED <<journal, slots>> /\ pc = "resumePromoted"
    BY <1>6 DEF ResumePromoted, HostCall, storeVars
  <2> QED BY <2>1, SameJournal DEF StableInstalled, Complete
<1>7. CASE Fence
  <2>1. UNCHANGED <<journal, slots>>  BY <1>7 DEF Fence, storeVars
  <2>2. pc' \notin {"dropBackup", "resumePromoted"} /\ (Ready' => LastPhase = "idle")
    BY <1>2, <1>7 DEF Fence, ResumeFrom, Phase
  <2> QED BY <2>1, <2>2, SameJournal DEF StableInstalled, Complete
<1>8. CASE ReadJournal \/ ReadVersions \/ ProbePrior \/ Probe \/ Judge
  BY <1>1, <1>8 DEF ReadJournal, ReadVersions, ProbePrior, Probe, Judge, Decide, storeVars
<1>9. CASE PromoteBegin
  <2>1. UNCHANGED <<journal, slots>> /\ ~Ready' /\ pc' # "resumePromoted"
        /\ (pc' = "dropBackup" => Complete("stable"))
    BY <1>9 DEF PromoteBegin, Decide, storeVars
  <2> QED BY <2>1, SameJournal DEF StableInstalled, Complete
<1>10. CASE Clear \/ StageReplace \/ StagePopulate \/ StageFill \/ StagePublish
  <2>1. LastPhase \in {"rolled-back", "staged"}
    BY <1>10 DEF Clear, StageReplace, StagePopulate, StageFill, StagePublish, Remove, StoreInv,
                 ControlMatchesJournal, Staging
  <2>2. journal # <<>>  BY <2>1 DEF LastPhase
  <2>3. Complete("stable")  BY <2>1, <2>2 DEF StoreInv, NeverBricked
  <2>4. slots'["stable"] = slots["stable"]
    BY <1>3, <1>10 DEF Clear, StageReplace, StagePopulate, StageFill, StagePublish, Remove,
                       RemoveFiles, RemoveDir, PopulateBegin, PopulateFinish, Rename, storeVars
  <2> QED BY <2>3, <2>4 DEF StableInstalled, Complete
<1>11. CASE PromoteDropOld \/ PromoteDropBackup
  <2>1. UNCHANGED journal /\ slots'["stable"] = slots["stable"]
    BY <1>3, <1>11 DEF PromoteDropOld, PromoteDropBackup, Remove, RemoveFiles, RemoveDir, storeVars
  <2>2. ~Ready' /\ (pc' \in {"dropBackup", "resumePromoted"} => pc = "dropBackup")
    BY <1>11 DEF PromoteDropOld, PromoteDropBackup, Remove
  <2> QED BY <2>1, <2>2, SameJournal DEF StableInstalled, Complete
<1>12. CASE PromoteRetire
  <2>1. LastPhase' = "promoted" /\ pc' = "commit"
    BY <1>12, SameJournal DEF PromoteRetire, Rename, StoreInv, ControlMatchesJournal
  <2> QED BY <2>1 DEF StableInstalled
<1>13. CASE PromoteCommit
  <2>1. slots'["stable"] \in Version
    BY <1>3, <1>13 DEF PromoteCommit, Rename, StoreInv, SlotsMatchControl, Complete
  <2> QED BY <2>1 DEF StableInstalled, Complete
<1>14. CASE Adopt \/ AdoptFill
  <2>1. UNCHANGED journal /\ slots'["stable"] = slots["stable"]
    BY <1>3, <1>14 DEF Adopt, Decide, AdoptFill, PopulateBegin, PopulateFinish, storeVars
  <2>2. ~Ready' /\ pc' \notin {"dropBackup", "resumePromoted"}
    BY <1>14 DEF Adopt, Decide, AdoptFill, StoreInv, SlotsMatchControl, Adopting
  <2> QED BY <2>1, <2>2, SameJournal DEF StableInstalled, Complete
<1>15. CASE AdoptPublish
  <2>1. slots'["stable"] \in Version
    BY <1>3, <1>15 DEF AdoptPublish, Rename, StoreInv, SlotsMatchControl, Complete
  <2> QED BY <2>1 DEF StableInstalled, Complete
<1>16. CASE Crash \/ IoError
  <2>1. pc' \notin {"dropBackup", "resumePromoted"} /\ ~Ready'
    BY <1>16 DEF Crash, IoError, WorkerGone
  <2>2. CASE UNCHANGED <<journal, slots>>
    BY <2>1, <2>2, SameJournal DEF StableInstalled, Complete
  <2>3. CASE pc \in DOMAIN IntentAt /\ UNCHANGED slots
    BY <2>1, <2>3, StableAtLog DEF StableInstalled, Complete
  <2> QED BY <1>16, <2>2, <2>3
          DEF Crash, IoError, Interrupted, AppendCutShort, AppendEntry, storeVars
<1>17. CASE \/ BeginRecover \/ Exit \/ UserStops
            \/ \E version \in Version : BeginBootstrap(version) \/ BeginUpgrade(version)
  BY <1>1, <1>17
     DEF BeginRecover, Exit, UserStops, BeginBootstrap, BeginUpgrade, WorkerGone, storeVars,
         workerVars
<1>18. CASE Orphans
  <2>1. UNCHANGED <<journal, slots, pc, fn, result>>
    BY <1>18 DEF Orphans, OrphanLands, OrphanDies, storeVars, workerVars
  <2> QED BY <2>1, SameJournal DEF StableInstalled, Complete
<1> QED BY <1>4, <1>5, <1>6, <1>7, <1>8, <1>9, <1>10, <1>11, <1>12, <1>13, <1>14, <1>15, <1>16, <1>17,
           <1>18
        DEF Next, WorkerStep, Recovering, Upgrading, Promoting, Bootstrapping

\* What is durable stays consistent, with observations in the place of recoveries.
LEMMA MovesStore ==
  ASSUME StoreInv, Next \/ Rests \/ Observes
  PROVE  StoreInv'
<1>1. CASE Next  BY <1>1, StoreStep
<1>2. CASE Rests \/ Observes
  <2>1. UNCHANGED storeVars /\ UNCHANGED hostVars /\ faults' \in 0..MaxFaults
    BY <1>2, FaultType DEF Rests, Observes, StoreInv, TypeOK
  <2>2. WorkerTypeOK'
    <3>1. CASE Rests  BY <3>1, TypeParts DEF Rests, StoreInv, WorkerTypeOK, workerVars
    <3>2. CASE Observes
      BY <3>2, TypeParts, NextSeqType
         DEF Observes, ObserveSettled, StoreInv, WorkerTypeOK, Pc, Result
    <3> QED BY <1>2, <3>1, <3>2
  <2>3. TypeOK'
    BY <2>1, <2>2 DEF StoreInv, TypeOK, StoreTypeOK, HostTypeOK, storeVars, hostVars, WorkerTypeOK
  <2>4. Located'
    <3>1. CASE Rests
      BY <2>1, <3>1, SameStore
         DEF Rests, workerVars, StoreInv, Located, ControlMatchesJournal, SeqContinues,
             SlotsMatchControl, Ready, Complete
    <3>2. CASE Observes
      <4>1. AtRest(LastPhase) /\ seq' = NextSeq /\ pc' = "returned"
        BY <3>2 DEF Observes, ObserveSettled, SettledStateMatches
      <4> QED BY <2>1, <4>1, SameStore
              DEF Located, ControlMatchesJournal, SeqContinues, SlotsMatchControl, Informed, Adopting,
                  Choosing, Staging, Trying
    <3> QED BY <1>2, <3>1, <3>2
  <2> QED BY <2>1, <2>3, <2>4, SameStore DEF StoreInv, Located
<1> QED BY <1>1, <1>2

\* So do the answers and the installation.
LEMMA MovesEngine ==
  ASSUME StoreInv, Answers, StableInstalled, op \in Operation \cup {NoOperation},
         Next \/ Rests \/ Observes
  PROVE  Answers' /\ StableInstalled'
<1>1. CASE Next  BY <1>1, NextAnswers, NextInstalled
<1>2. CASE Rests
  <2>1. LastPhase' = LastPhase /\ slots' = slots  BY <1>2, SameStore DEF Rests
  <2> QED BY <1>2, <2>1 DEF Rests, workerVars, Answers, StableInstalled, Ready, Complete
<1>3. CASE Observes
  <2>1. LastPhase' = LastPhase /\ slots' = slots  BY <1>3, SameStore DEF Observes
  <2>2. pc' = "returned" /\ fn' = "recover" /\ result' = "ok"
    BY <1>3 DEF Observes, ObserveSettled, NoWorker
  <2>3. Complete("stable")
    BY <1>3 DEF Observes, SettledStateMatches, SettledVersion, Complete, Operation, NoOperation
  <2> QED BY <2>1, <2>2, <2>3 DEF Answers, StableInstalled, Complete
<1> QED BY <1>1, <1>2, <1>3

\* The runner waits for the engine, and the engine for the runner.
LEMMA FollowsStep ==
  ASSUME EngineInv, RunnerNext
  PROVE  WorkerFollows'
<1> USE DEF EngineInv, WorkerFollows, Rpc, AfterRecovery, Ready, Runs, Reply, StoreAndEngineUnchanged
<1>1. CASE \E r \in Requests : Invoke(r)
  BY <1>1 DEF Invoke, NoWorker, workerVars
<1>2. CASE Prior
  BY <1>2 DEF Prior, Fail, Replay, NoWorker, workerVars
<1>3. CASE RecoverEngine
  BY <1>3 DEF RecoverEngine, Fail, ObserveSettled, BeginRecover, NoWorker, workerVars
<1>4. CASE Recovered
  BY <1>4 DEF Recovered, Fail, workerVars
<1>5. CASE SettleOperation \/ RecoveryDone \/ ReplaySettled \/ ArchiveOther \/ OpenOperation
  BY <1>5 DEF SettleOperation, RecoveryDone, ReplaySettled, ArchiveOther, OpenOperation, Fail, Replay,
              Succeed, workerVars
<1>6. CASE Check \/ Acquire \/ Prepare
  BY <1>6 DEF Check, Hold, Acquire, Prepare, Fail, workerVars
<1>7. CASE HandOver
  BY <1>7 DEF HandOver, BeginUpgrade
<1>8. CASE Upgraded
  BY <1>8 DEF Upgraded, Fail, Answers, workerVars
<1>9. CASE RecordOutcome \/ ReceiptError
  BY <1>9 DEF RecordOutcome, ReceiptError, Fail, workerVars
<1>10. CASE WorkerExits \/ WorkerCrashes
  BY <1>10 DEF WorkerExits, WorkerCrashes, WorkerGone, NoWorker
<1>11. CASE EngineRuns
  BY <1>11, RunKeeps DEF EngineRuns, runnerVars
<1>12. CASE UserStopsService \/ OrphanSteps
  BY <1>12 DEF UserStopsService, UserStops, OrphanSteps, Orphans, runnerVars, workerVars, NoWorker
<1> QED BY <1>1, <1>2, <1>3, <1>4, <1>5, <1>6, <1>7, <1>8, <1>9, <1>10, <1>11, <1>12
        DEF RunnerNext, RunnerStep

-----------------------------------------------------------------------------
(* Lemmas: what the runner does to the receipts                            *)

\* The types of the runner's own variables.
RunnerTypes ==
  /\ request \in Requests \cup {NoRequest}
  /\ op \in Operation \cup {NoOperation}
  /\ receipts \in [OperationId -> Operation \cup {NoOperation}]
  /\ error \in {None, "failed", "uncertain"}
  /\ reply \in [result : Outcome \cup {None, "recovered", "replayed", "error"}, code : 0..3]

\* What holds of the runner however the library is called.
RunnerInv == EngineInv /\ RunnerTypes /\ ReceiptInv

\* A request carries an id together with a target, or neither.
LEMMA RequestFacts ==
  ASSUME request \in Requests
  PROVE  /\ request.id \in OperationId \cup {None}
         /\ request.target \in Version \cup {None}
         /\ request.id # None => request.target \in Version
         /\ request.kind = "upgrade" \/ request.kind = "recover" \/ request.id = None
  BY DEF Requests

\* A recorded operation has an id and a target, no operation has neither.
LEMMA OperationFacts ==
  ASSUME NEW x \in Operation \cup {NoOperation}
  PROVE  /\ x # NoOperation <=> x.id \in OperationId
         /\ x # NoOperation => x.id # None /\ x.target \in Version /\ x.from \in Version
         /\ x = NoOperation => x.id = None /\ x.target = None /\ x.outcome = None
         /\ x.outcome \in Outcome \cup {None}
  BY VersionAssumption DEF Operation, NoOperation

\* An open operation becomes its settled self.
Closes ==
  /\ Open(op) /\ receipts[op.id] = NoOperation
  /\ \E outcome \in Outcome : Settle(outcome)
  /\ UNCHANGED receipts

\* A settled operation is archived, before another takes its place.
Archives ==
  /\ op # NoOperation /\ op.outcome # None /\ receipts[op.id] = NoOperation
  /\ receipts' = [receipts EXCEPT ![op.id] = op]
  /\ UNCHANGED op

\* The request's operation is opened, after the last one was settled and archived.
Opens ==
  /\ request.id \in OperationId /\ request.target \in Version /\ slots["stable"] \in Version
  /\ receipts[request.id] = NoOperation
  /\ op # NoOperation =>
       op.outcome # None /\ op.id # request.id /\ receipts[op.id] = op
  /\ op' = NewOperation
  /\ UNCHANGED <<request, receipts>>

\* An open operation is not archived.
LEMMA OpenNotArchived ==
  ASSUME RunnerTypes, ReceiptInv, Open(op)
  PROVE  receipts[op.id] = NoOperation
<1>1. op \in Operation /\ op.id \in OperationId  BY OperationFacts DEF RunnerTypes, Open
<1>2. receipts[op.id] # NoOperation => receipts[op.id].outcome # None  BY <1>1 DEF ReceiptInv
<1> QED BY <1>2 DEF ReceiptInv, Open

\* A receipt that is written for the worker's request closes its operation.
LEMMA RecordCloses ==
  ASSUME RunnerInv, rpc \in Working, NEW outcome \in Outcome, Record(outcome), UNCHANGED receipts
  PROVE  UNCHANGED <<op, receipts>> \/ Closes
  BY OpenNotArchived DEF RunnerInv, ReceiptInv, Record, Closes

\* Each step leaves the receipts alone, or opens, closes or archives one.
LEMMA ReceiptSteps ==
  ASSUME RunnerInv, RunnerNext
  PROVE  UNCHANGED <<op, receipts>> \/ Closes \/ Archives \/ Opens
<1>1. CASE \/ \E r \in Requests : Invoke(r)
           \/ Prior \/ RecoverEngine \/ Recovered \/ RecoveryDone \/ ReplaySettled
           \/ Acquire \/ HandOver \/ Upgraded
           \/ WorkerExits \/ WorkerCrashes \/ EngineRuns \/ UserStopsService \/ OrphanSteps
  BY <1>1
     DEF Invoke, Prior, RecoverEngine, Recovered, RecoveryDone, ReplaySettled, Acquire, HandOver,
         Upgraded, WorkerExits, WorkerCrashes, EngineRuns, UserStopsService, OrphanSteps, runnerVars
<1>2. CASE SettleOperation
  <2>1. UNCHANGED receipts /\ (UNCHANGED op \/ (Open(op) /\ \E outcome \in Outcome : Settle(outcome)))
    BY <1>2 DEF SettleOperation, Open, Outcome
  <2> QED BY <2>1, OpenNotArchived DEF RunnerInv, Closes
<1>3. CASE ArchiveOther
  BY <1>3 DEF ArchiveOther, OthersReceipt, Archives
<1>4. CASE OpenOperation
  <2>1. CASE request.id = None  BY <1>4, <2>1 DEF OpenOperation
  <2>2. CASE request.id # None
    <3>1. rpc = "claim" /\ request \in Requests /\ slots["stable"] \in Version
      BY <1>4 DEF OpenOperation, RunnerInv, EngineInv, WorkerFollows, AfterRecovery,
                  StableInstalled, Complete
    <3>2. request.id \in OperationId /\ request.target \in Version  BY <2>2, <3>1, RequestFacts
    <3>3. receipts[request.id] = NoOperation /\ ~Open(op)
      BY <2>2, <3>1 DEF RunnerInv, ReceiptInv
    <3>4. op # NoOperation => op.outcome # None /\ op.id # request.id /\ receipts[op.id] = op
      BY <1>4, <2>2, <3>3 DEF OpenOperation, OthersReceipt, Open
    <3>5. op' = NewOperation /\ UNCHANGED <<request, receipts>>  BY <1>4, <2>2 DEF OpenOperation
    <3> QED BY <3>1, <3>2, <3>3, <3>4, <3>5 DEF Opens
  <2> QED BY <2>1, <2>2
<1>5. CASE Check \/ Prepare \/ RecordOutcome
  <2>1. rpc \in Working /\ UNCHANGED receipts
    BY <1>5 DEF Check, Prepare, RecordOutcome, Working
  <2>2. UNCHANGED op \/ \E outcome \in Outcome : Record(outcome)
    BY <1>5 DEF Check, Hold, Prepare, RecordOutcome, Outcome, RunnerInv, EngineInv, WorkerFollows
  <2> QED BY <2>1, <2>2, RecordCloses
<1>6. CASE ReceiptError
  <2>1. UNCHANGED receipts  BY <1>6 DEF ReceiptError
  <2>2. CASE UNCHANGED op  BY <2>1, <2>2
  <2>3. CASE rpc = "record" /\ request.id # None /\ Settle(result)
    <3>1. result \in Outcome /\ rpc \in Working /\ Record(result)
      BY <2>3 DEF Outcome, RunnerInv, EngineInv, WorkerFollows, Working, Record
    <3> QED BY <2>1, <3>1, RecordCloses
  <2> QED BY <1>6, <2>2, <2>3 DEF ReceiptError
<1> QED BY <1>1, <1>2, <1>3, <1>4, <1>5, <1>6 DEF RunnerNext, RunnerStep

\* A new operation is an open one.
LEMMA NewIsOpen ==
  ASSUME request.id \in OperationId, request.target \in Version, slots["stable"] \in Version
  PROVE  /\ NewOperation \in Operation /\ NewOperation # NoOperation
         /\ NewOperation.id = request.id /\ NewOperation.target = request.target
         /\ NewOperation.outcome = None
  BY DEF NewOperation, Operation, NoOperation

\* Settling touches nothing but the outcome.
LEMMA SettledOperation ==
  ASSUME RunnerTypes, Open(op), NEW outcome \in Outcome, Settle(outcome)
  PROVE  /\ op' \in Operation /\ op' # NoOperation
         /\ op'.id = op.id /\ op'.target = op.target /\ op'.from = op.from
         /\ op'.outcome = outcome /\ outcome # None
<1>1. op \in Operation  BY DEF RunnerTypes, Open
<1>2. op' = [op EXCEPT !.outcome = outcome]  BY DEF Settle
<1>3. op' \in Operation /\ op'.id = op.id /\ op'.target = op.target /\ op'.from = op.from
      /\ op'.outcome = outcome
  BY <1>1, <1>2 DEF Operation
<1> QED BY <1>3, OperationFacts DEF Outcome, None

\* Every exit code is one of the four.
LEMMA Codes ==
  /\ \A outcome : OutcomeCode(outcome) \in 0..3
  /\ \A kind : ErrorCode(kind) \in 0..3
  /\ ResultCode(0) \in 0..3
<1>1. \A outcome : OutcomeCode(outcome) \in {0, 1, 2, 3}  BY DEF OutcomeCode
<1> QED BY <1>1 DEF ErrorCode, ResultCode, OperationCode

\* Each step keeps the runner's types.
LEMMA TypesStep ==
  ASSUME RunnerInv, RunnerNext
  PROVE  RunnerTypes'
<1>1. request' \in Requests \cup {NoRequest}
  BY DEF RunnerInv, RunnerTypes, RunnerNext, RunnerStep, Invoke, Prior, RecoverEngine, Recovered,
         SettleOperation, RecoveryDone, ReplaySettled, ArchiveOther, OpenOperation, Check, Acquire,
         Prepare, HandOver, Upgraded, RecordOutcome, WorkerExits, WorkerCrashes, ReceiptError,
         EngineRuns, UserStopsService, OrphanSteps, runnerVars
<1>2. op' \in Operation \cup {NoOperation}
      /\ receipts' \in [OperationId -> Operation \cup {NoOperation}]
  <2>1. CASE UNCHANGED <<op, receipts>>  BY <2>1 DEF RunnerInv, RunnerTypes
  <2>2. CASE Closes  BY <2>2, SettledOperation DEF Closes, RunnerInv, RunnerTypes
  <2>3. CASE Archives  BY <2>3 DEF Archives, RunnerInv, RunnerTypes
  <2>4. CASE Opens  BY <2>4, NewIsOpen DEF Opens, RunnerInv, RunnerTypes
  <2> QED BY <2>1, <2>2, <2>3, <2>4, ReceiptSteps
<1>3. error' \in {None, "failed", "uncertain"}
  <2>1. rpc = "recovering" /\ pc = "returned" => result \in {"ok", "failed", "uncertain"}
    BY DEF RunnerInv, EngineInv, WorkerFollows, Answers
  <2> QED BY <2>1
    DEF RunnerInv, RunnerTypes, RunnerNext, RunnerStep, Invoke, Prior, RecoverEngine, Recovered,
        SettleOperation, RecoveryDone, ReplaySettled, ArchiveOther, OpenOperation, Check, Hold,
        Acquire, Prepare, HandOver, Upgraded, RecordOutcome, WorkerExits, WorkerCrashes,
        ReceiptError, EngineRuns, UserStopsService, OrphanSteps, runnerVars, Runs, Fail, Replay,
        Succeed
<1>4. \/ UNCHANGED reply
      \/ \E says \in Outcome \cup {None, "recovered", "replayed", "error"}, code \in 0..3 :
           reply' = [result |-> says, code |-> code]
  <2> USE Codes DEF Reply, Runs, Outcome
  <2>1. CASE \/ \E r \in Requests : Invoke(r)
             \/ WorkerExits \/ WorkerCrashes
    BY <2>1 DEF Invoke, WorkerExits, WorkerCrashes, NoReply
  <2>2. CASE Prior \/ RecoverEngine \/ SettleOperation
    BY <2>2 DEF Prior, RecoverEngine, SettleOperation, Fail, Replay
  <2>3. CASE Recovered  BY <2>3 DEF Recovered, Fail
  <2>4. CASE RecoveryDone \/ ReplaySettled  BY <2>4 DEF RecoveryDone, ReplaySettled, Succeed, Replay
  <2>5. CASE \/ ArchiveOther \/ OpenOperation \/ HandOver \/ EngineRuns \/ UserStopsService
             \/ OrphanSteps
    BY <2>5 DEF ArchiveOther, OpenOperation, HandOver, EngineRuns, UserStopsService, OrphanSteps,
                runnerVars
  <2>6. CASE Check \/ Acquire \/ Prepare
    BY <2>6 DEF Check, Hold, Acquire, Prepare, Fail
  <2>7. CASE Upgraded  BY <2>7 DEF Upgraded, Fail
  <2>8. CASE RecordOutcome
    BY <2>8 DEF RecordOutcome, RunnerInv, EngineInv, WorkerFollows
  <2>9. CASE ReceiptError  BY <2>9 DEF ReceiptError, Fail
  <2> QED BY <2>1, <2>2, <2>3, <2>4, <2>5, <2>6, <2>7, <2>8, <2>9 DEF RunnerNext, RunnerStep
<1> QED BY <1>1, <1>2, <1>3, <1>4 DEF RunnerTypes, RunnerInv

\* Each step keeps the receipts consistent with each other and with the request that
\* is being worked on.
LEMMA ReceiptStep ==
  ASSUME RunnerInv, RunnerNext
  PROVE  ReceiptInv'
<1>1. /\ \A id \in OperationId :
           receipts'[id] # NoOperation => receipts'[id].id = id /\ receipts'[id].outcome # None
      /\ op' # NoOperation => receipts'[op'.id] \in {NoOperation, op'}
  <2>0. op # NoOperation => op.id \in OperationId  BY OperationFacts DEF RunnerInv, RunnerTypes
  <2>1. CASE UNCHANGED <<op, receipts>>  BY <2>1 DEF RunnerInv, ReceiptInv
  <2>2. CASE Closes  BY <2>2, SettledOperation DEF Closes, RunnerInv, ReceiptInv
  <2>3. CASE Archives  BY <2>0, <2>3 DEF Archives, RunnerInv, RunnerTypes, ReceiptInv
  <2>4. CASE Opens  BY <2>4, NewIsOpen DEF Opens, RunnerInv, ReceiptInv
  <2> QED BY <2>1, <2>2, <2>3, <2>4, ReceiptSteps
<1>2. /\ rpc' \in {"recover", "recovering", "settle", "claim"} /\ request'.id # None =>
           /\ receipts'[request'.id] = NoOperation
           /\ op'.id = request'.id => op'.target = request'.target
           /\ request'.kind = "recover" => op'.id = request'.id
      /\ rpc' = "claim" => ~Open(op)'
      /\ rpc' \in Working => request'.kind = "upgrade"
      /\ rpc' \in Working /\ request'.id # None =>
           /\ receipts'[request'.id] = NoOperation
           /\ op'.id = request'.id /\ op'.target = request'.target /\ Open(op)'
  <2> USE DEF Runs, Reply, Working
  <2>1. CASE \E r \in Requests : Invoke(r)  BY <2>1 DEF Invoke
  <2>2. CASE Prior
    <3>1. request \in Requests  BY <2>2 DEF Prior, RunnerInv, EngineInv, WorkerFollows
    <3>2. request.id # None => request.id \in OperationId  BY <3>1, RequestFacts
    <3>3. rpc' \in {"recover", "replied"} /\ UNCHANGED <<request, op, receipts>>
      BY <2>2 DEF Prior, Fail, Replay
    <3>4. CASE rpc' = "recover" /\ request.id # None
      <4>1. receipts[request.id] = NoOperation
            /\ (op.id = request.id => op.target = request.target)
            /\ (request.kind = "recover" => op.id = request.id)
        BY <2>2, <3>2, <3>4 DEF Prior, Fail, Replay, RunnerInv, ReceiptInv
      <4> QED BY <3>3, <3>4, <4>1
    <3> QED BY <3>3, <3>4
  <2>3. CASE RecoverEngine \/ Recovered
    BY <2>3 DEF RecoverEngine, Recovered, Fail, RunnerInv, ReceiptInv
  <2>4. CASE SettleOperation
    <3>1. UNCHANGED <<request, receipts>> /\ rpc' \in {"claim", "replied"} /\ rpc = "settle"
      BY <2>4 DEF SettleOperation, Fail
    <3>2. CASE UNCHANGED op /\ (rpc' = "claim" => ~Open(op))
      BY <3>1, <3>2 DEF RunnerInv, ReceiptInv, Open
    <3>3. CASE Open(op) /\ \E outcome \in Outcome : Settle(outcome)
      <4>1. op'.id = op.id /\ op'.target = op.target /\ ~Open(op)'
        BY <3>3, SettledOperation DEF RunnerInv, Open
      <4> QED BY <3>1, <4>1 DEF RunnerInv, ReceiptInv
    <3>4. AtRest(LastPhase)
      BY <3>1 DEF RunnerInv, EngineInv, WorkerFollows, AfterRecovery, StoreInv, ControlMatchesJournal
    <3> QED BY <2>4, <3>2, <3>3, <3>4 DEF SettleOperation, Fail, Open, Outcome
  <2>5. CASE RecoveryDone \/ ReplaySettled
    BY <2>5 DEF RecoveryDone, ReplaySettled, Succeed, Replay
  <2>6. CASE ArchiveOther
    <3>1. UNCHANGED <<rpc, request, op>> /\ op.id # request.id /\ rpc = "claim"
      BY <2>6 DEF ArchiveOther, OthersReceipt
    <3>2. \A id \in OperationId : id # op.id => receipts'[id] = receipts[id]
      BY <2>6 DEF ArchiveOther, RunnerInv, RunnerTypes
    <3>3. request.id \in OperationId \cup {None}
      BY <3>1, RequestFacts DEF RunnerInv, EngineInv, WorkerFollows
    <3> QED BY <3>1, <3>2, <3>3 DEF RunnerInv, ReceiptInv, Open
  <2>7. CASE OpenOperation
    <3>1. UNCHANGED <<request, receipts>> /\ rpc' = "check" /\ rpc = "claim"
          /\ request.kind = "upgrade"
          /\ (request.id # None => op' = NewOperation)
      BY <2>7 DEF OpenOperation
    <3>2. request \in Requests /\ slots["stable"] \in Version
      BY <3>1 DEF RunnerInv, EngineInv, WorkerFollows, AfterRecovery, StableInstalled, Complete
    <3>3. request.id # None =>
            /\ receipts[request.id] = NoOperation
            /\ NewOperation.id = request.id /\ NewOperation.target = request.target
            /\ Open(NewOperation)
      BY <3>1, <3>2, RequestFacts, NewIsOpen DEF RunnerInv, ReceiptInv, Open
    <3> QED BY <3>1, <3>3 DEF Open
  <2>8. CASE \/ Check \/ Acquire \/ Prepare \/ HandOver \/ Upgraded \/ RecordOutcome
             \/ ReceiptError
    <3>1. UNCHANGED <<request, receipts>> /\ (rpc' = "replied" \/ (rpc \in Working /\ rpc' \in Working /\ UNCHANGED op))
      BY <2>8 DEF Check, Hold, Acquire, Prepare, HandOver, Upgraded, RecordOutcome, ReceiptError, Fail
    <3> QED BY <3>1 DEF RunnerInv, ReceiptInv, Open
  <2>9. CASE WorkerExits \/ WorkerCrashes  BY <2>9 DEF WorkerExits, WorkerCrashes
  <2>10. CASE EngineRuns \/ UserStopsService \/ OrphanSteps
    BY <2>10 DEF EngineRuns, UserStopsService, OrphanSteps, runnerVars, RunnerInv, ReceiptInv, Open
  <2> QED BY <2>1, <2>2, <2>3, <2>4, <2>5, <2>6, <2>7, <2>8, <2>9, <2>10 DEF RunnerNext, RunnerStep
<1> QED BY <1>1, <1>2 DEF ReceiptInv

\* A fresh installation starts with the invariant.
LEMMA RunnerInit0 == RunnerInit => RunnerInv
<1> SUFFICES ASSUME RunnerInit PROVE RunnerInv  OBVIOUS
<1>1. PICK installed \in Version : StoreInit(installed) /\ HostInit(installed)
  BY DEF RunnerInit
<1>2. StoreInv  BY <1>1, StoreInit0 DEF RunnerInit, Init
<1>3. slots["stable"] \in Version  BY <1>1 DEF StoreInit, Dir, Slot
<1>4. EngineInv
  BY <1>2, <1>3
     DEF RunnerInit, NoWorker, EngineInv, Answers, StableInstalled, Complete, Ready, WorkerFollows,
         Rpc, AfterRecovery
<1>5. RunnerTypes  BY DEF RunnerInit, RunnerTypes, NoReply
<1>6. ReceiptInv  BY DEF RunnerInit, ReceiptInv, Working
<1> QED BY <1>4, <1>5, <1>6 DEF RunnerInv

\* Every step keeps it.
LEMMA RunnerStepInv == RunnerInv /\ [RunnerNext]_allVars => RunnerInv'
<1>1. ASSUME RunnerInv, RunnerNext PROVE RunnerInv'
  <2>1. StoreInv' /\ Answers' /\ StableInstalled'
    BY <1>1, EngineMoves, MovesStore, MovesEngine DEF RunnerInv, EngineInv, RunnerTypes
  <2> QED BY <1>1, <2>1, FollowsStep, TypesStep, ReceiptStep DEF RunnerInv, EngineInv
<1>2. ASSUME RunnerInv, UNCHANGED allVars PROVE RunnerInv'
  <2>1. Rests /\ UNCHANGED runnerVars  BY <1>2 DEF allVars, vars, Rests
  <2>2. StoreInv' /\ Answers' /\ StableInstalled'
    BY <1>2, <2>1, MovesStore, MovesEngine DEF RunnerInv, EngineInv, RunnerTypes
  <2>3. WorkerFollows'
    BY <1>2, <2>1 DEF RunnerInv, EngineInv, WorkerFollows, Rests, workerVars, runnerVars, NoWorker,
                      Ready
  <2>4. RunnerTypes' /\ ReceiptInv'
    BY <1>2, <2>1 DEF RunnerInv, RunnerTypes, ReceiptInv, runnerVars, Open
  <2> QED BY <2>2, <2>3, <2>4 DEF RunnerInv, EngineInv
<1> QED BY <1>1, <1>2

-----------------------------------------------------------------------------
(* What callers can rely on, however the library is called                 *)

\* The inductive invariant of a worker over the engine: what is durable is consistent,
\* the engine stands where the runner says, and so do the receipts.
THEOREM RunnerInvariance == RunnerSpec => []RunnerInv
  BY RunnerInit0, RunnerStepInv, PTL DEF RunnerSpec

\* Every variable of the worker process keeps its type: no interleaving of requests,
\* crashes and failed writes leaves a receipt or an answer the code has no case for.
THEOREM RunnerTypeCorrect == RunnerSpec => []RunnerTypeOK
<1>1. RunnerInv => RunnerTypeOK
  BY DEF RunnerInv, EngineInv, StoreInv, WorkerFollows, RunnerTypes, RunnerTypeOK
<1> QED BY <1>1, RunnerInvariance, PTL

\* Archiving an operation records nothing new.
LEMMA ArchivesRecorded ==
  ASSUME RunnerInv, Archives, NEW id \in OperationId
  PROVE  Recorded(id)' = Recorded(id)
  BY OperationFacts DEF Archives, Recorded, RunnerInv, RunnerTypes

\* Settling one gives its id an outcome.
LEMMA ClosesRecorded ==
  ASSUME RunnerInv, Closes
  PROVE  /\ op.id \in OperationId /\ op'.id = op.id
         /\ Recorded(op.id) = op /\ Recorded(op.id)' = op'
         /\ \A id \in OperationId : id # op.id => Recorded(id)' = Recorded(id)
<1>1. op # NoOperation /\ op.id \in OperationId /\ receipts[op.id] = NoOperation
  BY OperationFacts DEF Closes, Open, RunnerInv, RunnerTypes
<1>2. op'.id = op.id  BY SettledOperation DEF Closes, RunnerInv
<1> QED BY <1>1, <1>2 DEF Closes, Recorded

\* Opening one binds an id of which nothing was recorded, while none is open.
LEMMA OpensRecorded ==
  ASSUME RunnerInv, Opens
  PROVE  /\ Recorded(request.id) = NoOperation /\ op'.id = request.id
         /\ Recorded(request.id)' = NewOperation
         /\ \A id \in OperationId : id # request.id => Recorded(id)' = Recorded(id)
         /\ \A id \in OperationId : Recorded(id) # NoOperation => Recorded(id).outcome # None
<1>1. op # NoOperation <=> op.id \in OperationId  BY OperationFacts DEF RunnerInv, RunnerTypes
<1>2. op'.id = request.id /\ op' = NewOperation /\ receipts' = receipts
      /\ request.id \in OperationId /\ receipts[request.id] = NoOperation
      /\ request' = request
  BY NewIsOpen DEF Opens
<1>3. op # NoOperation => op.outcome # None /\ op.id # request.id /\ receipts[op.id] = op
  BY DEF Opens
<1>4. Recorded(request.id) = NoOperation /\ Recorded(request.id)' = NewOperation
  BY <1>1, <1>2, <1>3 DEF Recorded
<1>5. ASSUME NEW id \in OperationId, id # request.id PROVE Recorded(id)' = Recorded(id)
  BY <1>1, <1>2, <1>3, <1>5 DEF Recorded
<1>6. ASSUME NEW id \in OperationId, Recorded(id) # NoOperation PROVE Recorded(id).outcome # None
  BY <1>1, <1>3, <1>6 DEF Recorded, RunnerInv, ReceiptInv
<1> QED BY <1>2, <1>4, <1>5, <1>6

\* A terminal receipt is final, whatever crashes, retries and later operations do
\* between the archive and operation.json (runner.rs prior, claim and archive).
THEOREM TerminalReceiptsAreFinal == RunnerSpec => ReceiptsAreFinal
<1> DEFINE Final == \A id \in OperationId :
             RecordedOutcome(id) # None => RecordedOutcome(id)' = RecordedOutcome(id)
<1>1. ASSUME RunnerInv, [RunnerNext]_allVars PROVE [Final]_allVars
  <2> SUFFICES ASSUME RunnerNext, NEW id \in OperationId, RecordedOutcome(id) # None
               PROVE  RecordedOutcome(id)' = RecordedOutcome(id)
    BY <1>1
  <2>1. CASE UNCHANGED <<op, receipts>>  BY <2>1 DEF RecordedOutcome, Recorded
  <2>2. CASE Closes
    <3>1. Recorded(op.id).outcome = None  BY <1>1, <2>2, ClosesRecorded DEF Closes, Open
    <3> QED BY <1>1, <2>2, <3>1, ClosesRecorded DEF RecordedOutcome
  <2>3. CASE Archives  BY <1>1, <2>3, ArchivesRecorded DEF RecordedOutcome
  <2>4. CASE Opens
    <3>1. Recorded(request.id).outcome = None  BY <1>1, <2>4, OpensRecorded DEF NoOperation
    <3> QED BY <1>1, <2>4, <3>1, OpensRecorded DEF RecordedOutcome
  <2> QED BY <1>1, <2>1, <2>2, <2>3, <2>4, ReceiptSteps
<1> QED BY <1>1, RunnerInvariance, PTL DEF RunnerSpec, ReceiptsAreFinal

\* What the ledger holds of an id.
InLedger(id) == [target |-> Recorded(id).target, outcome |-> Recorded(id).outcome]

\* operation.json and the archived receipts are one ledger, across all crashes and
\* retries: an id is bound once, one operation is open at a time, an outcome is given
\* once (the abstract OperationLedger).
THEOREM RunnerImplementsLedger == RunnerSpec => ImplementsLedger
<1>1. RunnerInit => Ledger!LedgerInit
  BY DEF RunnerInit, Ledger!LedgerInit, Ledger!Unknown, Recorded, NoOperation
<1>2. ASSUME RunnerInv, [RunnerNext]_allVars PROVE [Ledger!LedgerNext]_Ledger!ledgerVars
  <2> DEFINE ledger == [id \in OperationId |-> InLedger(id)]
  <2>1. CASE UNCHANGED <<op, receipts>> \/ UNCHANGED allVars
    BY <2>1 DEF allVars, runnerVars, Ledger!ledgerVars, Recorded
  <2>2. CASE Archives
    <3>1. \A id \in OperationId : InLedger(id)' = InLedger(id)
      BY <1>2, <2>2, ArchivesRecorded DEF InLedger
    <3>2. ledger' = ledger  BY <3>1
    <3> QED BY <2>2, <3>2 DEF Archives, Ledger!ledgerVars, InLedger
  <2>3. CASE Closes
    <3>1. PICK outcome \in Outcome : Settle(outcome)  BY <2>3 DEF Closes
    <3>2. /\ op.id \in OperationId /\ op'.id = op.id
          /\ InLedger(op.id) = [target |-> op.target, outcome |-> None]
          /\ InLedger(op.id)' = [target |-> op.target, outcome |-> outcome]
          /\ \A id \in OperationId : id # op.id => InLedger(id)' = InLedger(id)
      <4>1. op'.id = op.id /\ op'.target = op.target /\ op'.outcome = outcome /\ op.outcome = None
        BY <1>2, <2>3, <3>1, SettledOperation DEF RunnerInv, Closes, Open
      <4> QED BY <1>2, <2>3, <4>1, ClosesRecorded DEF InLedger
    <3>3. op.target \in Version  BY <1>2, <2>3, OperationFacts DEF Closes, Open, RunnerInv, RunnerTypes
    <3>4. Ledger!IsOpen(op.id)
      BY <3>2, <3>3, VersionAssumption DEF Ledger!IsOpen, Ledger!Unknown, InLedger
    <3>5. ledger' = [ledger EXCEPT ![op.id].outcome = outcome]  BY <3>2
    <3>6. Ledger!Close(op.id, outcome)  BY <3>2, <3>4, <3>5 DEF Ledger!Close, InLedger
    <3> QED BY <3>2, <3>6 DEF Ledger!LedgerNext
  <2>4. CASE Opens
    <3>1. /\ request.id \in OperationId /\ request.target \in Version /\ op'.id = request.id
          /\ UNCHANGED request
          /\ InLedger(request.id) = [target |-> None, outcome |-> None]
          /\ InLedger(request.id)' = [target |-> request.target, outcome |-> None]
          /\ \A id \in OperationId : id # request.id => InLedger(id)' = InLedger(id)
      BY <1>2, <2>4, OpensRecorded, NewIsOpen DEF InLedger, Opens, NoOperation
    <3>2. \A id \in OperationId :
            InLedger(id) = [target |-> None, outcome |-> None] \/ InLedger(id).outcome # None
      BY <1>2, <2>4, OpensRecorded DEF InLedger, NoOperation
    <3>3. Ledger!NothingOpen
      BY <3>2 DEF Ledger!NothingOpen, Ledger!IsOpen, Ledger!Unknown, InLedger
    <3>4. ledger' = [ledger EXCEPT ![request.id] = [target |-> request.target, outcome |-> None]]
      BY <3>1
    <3>5. Ledger!Open(request.id, request.target)
      BY <3>1, <3>3, <3>4 DEF Ledger!Open, Ledger!Unknown, InLedger
    <3> QED BY <3>1, <3>5 DEF Ledger!LedgerNext
  <2> QED BY <1>2, <2>1, <2>2, <2>3, <2>4, ReceiptSteps
<1> QED BY <1>1, <1>2, RunnerInvariance, PTL DEF RunnerSpec, ImplementsLedger, Ledger!LedgerSpec

-----------------------------------------------------------------------------
(* Lemmas: the store and the service under the runner                      *)

\* An observed store satisfies what a recovered one does.
LEMMA ObservedDisk ==
  ASSUME DiskInv, ClosedIsSettled, Observes
  PROVE  TxnInv' /\ DiskFollowsJournal' /\ DiskFollowsControl'
<1>1. UNCHANGED storeVars  BY DEF Observes
<1>2. LastPhase' = LastPhase /\ slots' = slots /\ Candidate' = Candidate /\ journal' = journal
  BY <1>1, SameStore, SameView DEF DiskInv, storeVars
<1>3. pc' = "returned" /\ fn' = "recover" /\ result' = "ok"
  BY DEF Observes, ObserveSettled, NoWorker
<1>4. AtRest(LastPhase) /\ Tidy  BY DEF Observes, ClosedIsSettled, Open
<1>5. AtRest(LastPhase)' /\ Tidy'  BY <1>2, <1>4 DEF AtRest, Tidy
<1>6. TxnInv'
  BY <1>2, <1>3, <1>5
     DEF DiskInv, TxnInv, CandidateIsTarget, PromotionIsOver, Choosing, Staging, Trying, Tidy
<1>7. DiskFollowsJournal'  BY <1>2, SameDisk DEF DiskInv
<1>8. DiskFollowsControl'  BY <1>3, <1>5 DEF DiskFollowsControl, Choosing
<1> QED BY <1>6, <1>7, <1>8

\* An engine at rest keeps what is on disk.
LEMMA RestedDisk ==
  ASSUME DiskInv, Rests
  PROVE  TxnInv' /\ DiskFollowsJournal' /\ DiskFollowsControl'
<1>1. UNCHANGED storeVars /\ UNCHANGED workerVars  BY DEF Rests
<1>2. LastPhase' = LastPhase /\ slots' = slots /\ Candidate' = Candidate /\ journal' = journal
  BY <1>1, SameStore, SameView DEF DiskInv, storeVars
<1> USE DEF workerVars, DiskInv
<1>3. TxnInv'  BY <1>1, <1>2 DEF TxnInv, CandidateIsTarget, PromotionIsOver, Ready
<1>4. DiskFollowsJournal' /\ DiskFollowsControl'
  BY <1>1, <1>2 DEF DiskFollowsJournal, DiskFollowsControl, Tidy, AtRest
<1> QED BY <1>3, <1>4

\* Whatever the runner does, what is on disk is as the journal and the worker's position
\* say.
LEMMA MovesDisk ==
  ASSUME DiskInv, ClosedIsSettled, Next \/ Rests \/ Observes
  PROVE  DiskInv'
  BY MovesStore, DiskStep, ObservedDisk, RestedDisk DEF DiskInv

\* An observed service is what a recovered one is.
LEMMA ObservedEnd ==
  ASSUME EndInv, ServiceSettled, Observes
  PROVE  /\ OrphansFenced' /\ OneIncarnation' /\ CandidateLives'
         /\ ServiceFollowsJournal' /\ ServiceFollowsControl'
<1>1. UNCHANGED storeVars /\ UNCHANGED hostVars  BY DEF Observes
<1>2. LastPhase' = LastPhase /\ slots' = slots  BY <1>1, SameStore DEF EndInv
<1>3. pc' = "returned" /\ fn' = "recover" /\ result' = "ok" /\ pc = "none"
  BY DEF Observes, ObserveSettled, NoWorker
<1>4. Settled /\ NoExperiment  BY DEF Observes, ServiceSettled, Open
<1>5. Settled' /\ NoExperiment'
  BY <1>1, <1>2, <1>4 DEF hostVars, Settled, AtRest, NoExperiment
<1>6. OrphansFenced'
  BY <1>1, <1>2, <1>5 DEF hostVars, EndInv, OrphansFenced, Settled
<1>7. OneIncarnation'
  BY <1>1, <1>2, <1>3, <1>5
     DEF hostVars, EndInv, OneIncarnation, NeverDualRun, NoExperiment, Settled
<1>8. CandidateLives'  BY <1>3 DEF CandidateLives, Promotion
<1>9. ServiceFollowsJournal'  BY <1>1, <1>2, SameService DEF EndInv, hostVars
<1>10. ServiceFollowsControl'  BY <1>3, <1>5 DEF ServiceFollowsControl, Choosing, Trying
<1> QED BY <1>6, <1>7, <1>8, <1>9, <1>10

\* An engine at rest keeps what is said of the service.
LEMMA RestedEnd ==
  ASSUME EndInv, Rests
  PROVE  /\ OrphansFenced' /\ OneIncarnation' /\ CandidateLives'
         /\ ServiceFollowsJournal' /\ ServiceFollowsControl'
<1>1. UNCHANGED storeVars /\ UNCHANGED hostVars /\ UNCHANGED workerVars  BY DEF Rests
<1>2. LastPhase' = LastPhase /\ slots' = slots  BY <1>1, SameStore DEF EndInv
<1> USE DEF workerVars, hostVars, EndInv
<1>3. OrphansFenced'  BY <1>1, <1>2 DEF OrphansFenced, Ready
<1>4. OneIncarnation'  BY <1>1, <1>2 DEF OneIncarnation, NeverDualRun, NoExperiment, Ready
<1>5. CandidateLives'  BY <1>1 DEF CandidateLives, IsNew
<1>6. ServiceFollowsJournal' /\ ServiceFollowsControl'
  BY <1>1, <1>2
     DEF ServiceFollowsJournal, ServiceFollowsControl, Up, Settled, AtRest, NoExperiment
<1> QED BY <1>3, <1>4, <1>5, <1>6

\* Whatever the runner does, the service is as the journal and the worker's position
\* say.
LEMMA MovesEnd ==
  ASSUME ExclusiveHandoff, ProbeFromLiveProcess, EndInv, ClosedIsSettled, ServiceSettled,
         Next \/ Rests \/ Observes
  PROVE  EndInv'
<1>1. DiskInv'  BY MovesDisk DEF EndInv, DiskInv
<1>2. CASE Next
  <2>1. OrphansFenced'  BY <1>2, OrphansStep DEF EndInv
  <2>2. OneIncarnation'
    BY <1>2, LogStepLive, HostStepLive, DecideStepLive, SlotsStepLive, ProcessStepLive
       DEF EndInv, DualInv, Next, WorkerStep, Recovering, Upgrading, Promoting, Bootstrapping
  <2>3. CandidateLives'  BY <1>2, CandidateStep DEF EndInv
  <2>4. ServiceFollowsJournal' /\ ServiceFollowsControl'  BY <1>2, EndStep
  <2> QED BY <1>1, <2>1, <2>2, <2>3, <2>4 DEF EndInv, DiskInv
<1>3. CASE Rests  BY <1>1, <1>3, RestedEnd DEF EndInv, DiskInv
<1>4. CASE Observes  BY <1>1, <1>4, ObservedEnd DEF EndInv, DiskInv
<1> QED BY <1>2, <1>3, <1>4

-----------------------------------------------------------------------------
(* Lemmas: an operation and the store                                      *)

\* Callers of the runner protocol pin their upgrades and only recover otherwise.
LEMMA PinnedRequests ==
  ASSUME LibraryCalls = {}, request \in Requests
  PROVE  /\ request.kind \in {"upgrade", "recover"}
         /\ request.kind = "upgrade" => request.id # None
  BY DEF Requests

\* A worker that is in an upgrade works on the open operation's target, and on the
\* version the operation was opened at.
LEMMA WorksOnOwn ==
  ASSUME StoreInv, WorkerFollows, WorkIsOwn, pc \in Choosing \cup Staging \cup Trying
  PROVE  target = op.target /\ (pc \in Choosing => slots["stable"] = op.from)
<1>1. pc \notin {"none", "returned"} /\ target \in Version /\ None \notin Version
  BY VersionAssumption DEF Choosing, Staging, Trying, StoreInv, SlotsMatchControl
<1>2. rpc = "upgrading"
  BY <1>1 DEF WorkerFollows, Rpc, AfterRecovery, Ready, NoWorker
<1> QED BY <1>2 DEF WorkIsOwn

\* While an operation stays open, the transaction is its own.
LEMMA OpenStays ==
  ASSUME RunnerInv, DiskInv, OwnInv, RunnerNext, UNCHANGED op
  PROVE  OpenIsOwn'
<1> SUFFICES ASSUME Open(op) PROVE OpenIsOwn'  BY DEF OpenIsOwn, Open
<1>1. /\ Candidate \in {None, op.target}
      /\ Committed = op.from \/ (LastPhase = "promoted" /\ Committed = op.target)
  BY DEF OwnInv, OpenIsOwn
<1>2. op.target \in Version /\ op.from \in Version /\ None \notin Version
  BY OperationFacts, VersionAssumption DEF RunnerInv, RunnerTypes, Open
<1>3. CASE UNCHANGED <<journal, slots>>
  BY <1>1, <1>3, SameView, SameJournal DEF OpenIsOwn
<1>4. CASE pc \in DOMAIN IntentAt /\ AppendEntry(EntryAt(pc))
  <2>1. /\ LastPhase' = IntentAt[pc] /\ slots' = slots
        /\ Candidate' = IF InFlight(IntentAt[pc]) THEN target ELSE None
    BY <1>4, AppendSeen DEF DiskInv
  <2>2. pc \in Choosing \cup Staging \cup Trying =>
          target = op.target /\ (pc \in Choosing => slots["stable"] = op.from)
    BY WorksOnOwn DEF RunnerInv, EngineInv, OwnInv
  <2>3. LastPhase # "promoted" => Committed = slots["stable"] /\ Committed = op.from
    BY <1>1 DEF Committed
  <2>4. CASE pc = "logStaged"
    <3>1. LastPhase' = "staged" /\ slots["stable"] = op.from /\ target = op.target
      BY <2>1, <2>2, <2>4 DEF IntentAt, Choosing
    <3>2. Committed' = op.from  BY <2>1, <3>1 DEF Committed
    <3> QED BY <2>1, <3>1, <3>2 DEF OpenIsOwn
  <2>5. CASE pc \in {"logHandingOver", "logRunning", "logReadback"}
    <3>1. LastPhase # "promoted" /\ pc \in Trying
      BY <2>5 DEF DiskInv, StoreInv, ControlMatchesJournal, Trying
    <3>2. LastPhase' \in {"handing-over", "running-experiment", "readback"}
      BY <2>1, <2>5 DEF IntentAt
    <3>3. Committed' = op.from  BY <2>1, <2>3, <3>1, <3>2 DEF Committed
    <3> QED BY <2>1, <2>2, <3>1, <3>3 DEF OpenIsOwn
  <2>6. CASE pc = "logPromoted"
    <3>1. LastPhase' = "promoted" /\ slots["experiment"] = op.target
      BY <2>1, <2>2, <2>6 DEF IntentAt, Trying, DiskInv, TxnInv, CandidateIsTarget
    <3>2. Candidate' = None /\ Committed' = op.target
      BY <1>2, <2>1, <3>1 DEF Committed, Complete, InFlight, AtRest, Candidate
    <3> QED BY <3>1, <3>2 DEF OpenIsOwn
  <2>7. CASE pc \in {"logRolledBack", "logRolledBackOnly"}
    <3>1. LastPhase # "promoted"
      BY <2>7 DEF DiskInv, StoreInv, ControlMatchesJournal
    <3>2. LastPhase' = "rolled-back"  BY <2>1, <2>7 DEF IntentAt
    <3>3. Candidate' = None /\ Committed' = op.from
      BY <2>1, <2>3, <3>1, <3>2 DEF Committed, InFlight, AtRest, Candidate
    <3> QED BY <3>3 DEF OpenIsOwn
  <2> QED BY <1>4, <2>4, <2>5, <2>6, <2>7, Positions
<1>5. CASE \/ StagePopulate \/ StageFill \/ StagePublish \/ PromoteRetire \/ PromoteCommit
           \/ AdoptFill \/ AdoptPublish \/ Clear \/ StageReplace \/ PromoteDropOld
           \/ PromoteDropBackup
  <2>1. UNCHANGED journal
    BY <1>5 DEF StagePopulate, StageFill, StagePublish, PromoteRetire, PromoteCommit, AdoptFill,
                AdoptPublish, Clear, StageReplace, PromoteDropOld, PromoteDropBackup, Remove,
                RemoveFiles, RemoveDir, PopulateBegin, PopulateFinish, Rename, storeVars
  <2>2. LastPhase' = LastPhase /\ Candidate' = Candidate
    BY <2>1, SameJournal DEF Candidate
  <2>3. [Txn!TxnNext]_Txn!txnVars  BY <1>5, SlotsStepIsTxn DEF DiskInv
  <2>4. Committed # None  BY <1>1, <1>2
  <2>5. Committed' = Committed
    BY <2>2, <2>3, <2>4, VersionAssumption
       DEF Txn!TxnNext, Txn!Install, Txn!Begin, Txn!Commit, Txn!Abort, Txn!txnVars
  <2> QED BY <1>1, <2>2, <2>5 DEF OpenIsOwn
<1>6. Next \/ UNCHANGED <<journal, slots>>
  BY EngineMoves DEF RunnerInv, EngineInv, Rests, Observes, storeVars
<1> QED BY <1>3, <1>4, <1>5, <1>6, StoreSteps DEF DiskInv

\* The engine makes only two moves for a worker that has no open operation: it reads a
\* fresh journal, and fences.
LEMMA ClosedRuns ==
  ASSUME LibraryCalls = {}, RunnerInv, DiskInv, OwnInv, ~Open(op), EngineRuns
  PROVE  op = NoOperation /\ UNCHANGED storeVars /\ UNCHANGED hostVars /\ pc' \in {"fence", "returned"}
<1>1. pc \notin {"none", "returned"} /\ request \in Requests
  BY RunKeeps DEF EngineRuns, RunnerInv, EngineInv, WorkerFollows
<1>2. op = NoOperation /\ journal = <<>> /\ pc \in {"read", "fence"}
  BY <1>1 DEF OwnInv, ClosedIsSettled, Open, NoOperation
<1>3. LastPhase = "idle"  BY <1>2 DEF LastPhase
<1>4. ReadJournal \/ Fence \/ IoError
  BY <1>2
     DEF EngineRuns, WorkerStep, Recovering, Upgrading, Promoting, Bootstrapping,
         LogRolledBack, LogRolledBackOnly, LogStaged, LogHandingOver, LogRunning, LogReadback,
         LogPromoted, Log, StopExperiment, StartStable, ResumeRolledBack, Quiesce, StopStable,
         StartExperiment, ResumePromoted, HostCall, ReadVersions, ProbePrior, Probe, Judge,
         PromoteBegin, Adopt, Decide, StagePopulate, StageFill, StagePublish, PromoteRetire,
         PromoteCommit, AdoptFill, AdoptPublish, Clear, StageReplace, PromoteDropOld,
         PromoteDropBackup, Remove
<1>5. CASE ReadJournal  BY <1>2, <1>5 DEF ReadJournal, Return
<1>6. CASE Fence  BY <1>2, <1>3, <1>6 DEF Fence, ResumeFrom, Return
<1>7. CASE IoError  BY <1>2, <1>7, Positions DEF IoError, Return, StorePcs
<1> QED BY <1>2, <1>4, <1>5, <1>6, <1>7

\* What the settled store is, is told by the store and the receipt.
LEMMA SameClosed ==
  ASSUME StoreInv, ClosedIsSettled, ~Open(op), UNCHANGED op, UNCHANGED storeVars,
         op = NoOperation => pc' \in {"none", "read", "fence", "returned"},
         op # NoOperation => pc' \in {"none", "returned"}
  PROVE  ClosedIsSettled'
<1>1. LastPhase' = LastPhase /\ slots' = slots /\ journal' = journal  BY SameStore DEF storeVars
<1>2. AtRest(LastPhase)' /\ Tidy'  BY <1>1 DEF ClosedIsSettled, AtRest, Tidy
<1>3. op.outcome # None => SettledStateMatches /\ op # NoOperation
  BY DEF ClosedIsSettled, NoOperation
<1>4. SettledStateMatches' = SettledStateMatches
  BY <1>1 DEF SettledStateMatches, TransactionStateFails, SettledVersion, Complete
<1>5. op.outcome = "up-to-date" => op.from = op.target  BY DEF ClosedIsSettled
<1> QED BY <1>1, <1>2, <1>3, <1>4, <1>5 DEF ClosedIsSettled, Open

\* While none is open, what is on disk stays settled.
LEMMA ClosedStays ==
  ASSUME LibraryCalls = {}, RunnerInv, DiskInv, OwnInv, RunnerNext, UNCHANGED op
  PROVE  ClosedIsSettled'
<1>0. CASE Open(op)
  BY <1>0 DEF ClosedIsSettled, Open, None
<1> SUFFICES ASSUME ~Open(op) PROVE ClosedIsSettled'  BY <1>0
<1>1. /\ StoreInv /\ ClosedIsSettled
      /\ op = NoOperation => pc \in {"none", "read", "fence", "returned"}
      /\ op # NoOperation => pc \in {"none", "returned"} /\ op.outcome # None
  BY DEF DiskInv, OwnInv, ClosedIsSettled, Open
<1>2. request \in Requests =>
        request.kind \in {"upgrade", "recover"} /\ (request.kind = "upgrade" => request.id # None)
  BY PinnedRequests
<1>3. CASE Rests
  BY <1>1, <1>3, SameClosed DEF Rests, workerVars
<1>4. CASE RecoverEngine
  <2>1. request.kind # "rollback"  BY <1>2, <1>4 DEF RecoverEngine, RunnerInv, EngineInv, WorkerFollows
  <2>2. CASE ObserveSettled /\ UNCHANGED <<storeVars, hostVars, faults>>
    BY <1>1, <2>2, SameClosed DEF ObserveSettled
  <2>3. CASE BeginRecover /\ op.outcome = None
    BY <1>1, <2>3, SameClosed DEF BeginRecover
  <2> QED BY <1>3, <1>4, <2>1, <2>2, <2>3 DEF RecoverEngine, StoreAndEngineUnchanged, Rests
<1>5. CASE HandOver
  BY <1>2, <1>5 DEF HandOver, RunnerInv, EngineInv, WorkerFollows, ReceiptInv, Working
<1>6. CASE WorkerExits
  BY <1>1, <1>6, SameClosed DEF WorkerExits, WorkerGone
<1>7. CASE WorkerCrashes
  <2>1. pc \notin DOMAIN IntentAt \cup DOMAIN CallAt  BY <1>1, Positions
  <2> QED BY <1>1, <1>7, <2>1, SameClosed DEF WorkerCrashes, WorkerGone, Interrupted
<1>8. CASE EngineRuns
  BY <1>1, <1>8, ClosedRuns, SameClosed
<1>9. CASE UserStopsService \/ OrphanSteps
  <2>1. UNCHANGED storeVars /\ UNCHANGED workerVars /\ UNCHANGED op
    BY <1>9 DEF UserStopsService, UserStops, OrphanSteps, Orphans, OrphanLands, OrphanDies, runnerVars
  <2> QED BY <1>1, <2>1, SameClosed DEF workerVars
<1>10. CASE \/ \E r \in Requests : Invoke(r)
            \/ Prior \/ Recovered \/ SettleOperation \/ RecoveryDone \/ ReplaySettled
            \/ ArchiveOther \/ OpenOperation \/ Check \/ Acquire \/ Prepare \/ Upgraded
            \/ RecordOutcome \/ ReceiptError
  <2>1. Rests
    BY <1>10
       DEF Invoke, Prior, Recovered, SettleOperation, RecoveryDone, ReplaySettled, ArchiveOther,
           OpenOperation, Check, Acquire, Prepare, Upgraded, RecordOutcome, ReceiptError,
           StoreAndEngineUnchanged, Rests
  <2> QED BY <1>3, <2>1
<1> QED BY <1>4, <1>5, <1>6, <1>7, <1>8, <1>9, <1>10 DEF RunnerNext, RunnerStep

\* Where an upgrade still chooses, it has not touched the slots, and it answers that it
\* is up to date only from there.
LEMMA ChoosingRuns ==
  ASSUME StoreInv, WorkerStep \/ IoError,
         pc' \in {"versions"} \cup Choosing \/ (pc' = "returned" /\ result' = "up-to-date")
  PROVE  pc \in {"versions"} \cup Choosing /\ UNCHANGED slots
<1>0. LastPhase \in Phase  BY LastPhaseType DEF StoreInv, TypeOK
<1> USE DEF Goto, Return, Finish, Choosing
<1>1. ~(\/ LogRolledBack \/ LogRolledBackOnly \/ LogStaged \/ LogHandingOver
        \/ LogRunning \/ LogReadback \/ LogPromoted)
  BY DEF LogRolledBack, LogRolledBackOnly, LogStaged, LogHandingOver, LogRunning, LogReadback,
         LogPromoted, Log
<1>2. ~(\/ StopExperiment \/ StartStable \/ ResumeRolledBack
        \/ Quiesce \/ StopStable \/ StartExperiment \/ ResumePromoted)
  BY DEF StopExperiment, StartStable, ResumeRolledBack, Quiesce, StopStable, StartExperiment,
         ResumePromoted, HostCall
<1>3. ~(Clear \/ StageReplace \/ PromoteDropOld \/ PromoteDropBackup)
  BY DEF Clear, StageReplace, PromoteDropOld, PromoteDropBackup, Remove
<1>4. ~(\/ StagePopulate \/ StageFill \/ StagePublish \/ PromoteRetire \/ PromoteCommit
        \/ AdoptFill \/ AdoptPublish)
  BY DEF StagePopulate, StageFill, StagePublish, PromoteRetire, PromoteCommit, AdoptFill,
         AdoptPublish
<1>5. ~(ReadJournal \/ Probe \/ Judge \/ PromoteBegin \/ Adopt \/ IoError)
  BY DEF ReadJournal, Probe, Judge, PromoteBegin, Adopt, Decide, IoError
<1>6. ~Fence  BY <1>0 DEF Fence, ResumeFrom, Phase
<1> QED BY <1>1, <1>2, <1>3, <1>4, <1>5, <1>6
        DEF WorkerStep, Recovering, Upgrading, Promoting, Bootstrapping, ReadVersions, ProbePrior,
            Decide, storeVars

\* The engine is given the operation's target, and finds the version it was opened at.
LEMMA WorkStays ==
  ASSUME LibraryCalls = {}, RunnerInv, DiskInv, OwnInv, RunnerNext, UNCHANGED op
  PROVE  WorkIsOwn'
<1>1. CASE rpc' \notin Working  BY <1>1 DEF WorkIsOwn, Working
<1> SUFFICES ASSUME rpc' \in Working PROVE WorkIsOwn'  BY <1>1
<1> USE DEF Working
<1>2. CASE OpenOperation
  <2>1. rpc = "claim" /\ request \in Requests /\ request.kind = "upgrade" /\ op' = NewOperation
        /\ rpc' = "check" /\ UNCHANGED slots
    BY <1>2, PinnedRequests
       DEF OpenOperation, RunnerInv, EngineInv, WorkerFollows, StoreAndEngineUnchanged, storeVars, Runs
  <2> QED BY <2>1 DEF WorkIsOwn, NewOperation
<1>3. CASE Check \/ Acquire \/ Prepare
  <2>1. rpc \in {"check", "acquire", "prepare"} /\ rpc' \in {"acquire", "prepare", "handover"} /\ UNCHANGED slots
    BY <1>3 DEF Check, Hold, Acquire, Prepare, Fail, Reply, Runs, StoreAndEngineUnchanged, storeVars
  <2> QED BY <2>1 DEF OwnInv, WorkIsOwn
<1>4. CASE HandOver
  <2>1. request \in Requests /\ request.kind = "upgrade" /\ rpc = "handover"
    BY <1>4 DEF HandOver, RunnerInv, EngineInv, WorkerFollows, ReceiptInv
  <2>2. request.target \in Version /\ op.target = request.target
    BY <2>1, PinnedRequests, RequestFacts DEF RunnerInv, ReceiptInv
  <2>3. target' = op.target /\ pc' = "versions" /\ UNCHANGED slots /\ rpc' = "upgrading"
    BY <1>4, <2>2, VersionAssumption DEF HandOver, BeginUpgrade, storeVars, Runs
  <2> QED BY <2>1, <2>3 DEF OwnInv, WorkIsOwn
<1>5. CASE Upgraded
  <2>1. rpc = "upgrading" /\ rpc' = "record" /\ UNCHANGED slots /\ UNCHANGED workerVars
    BY <1>5 DEF Upgraded, Fail, Reply, Runs, StoreAndEngineUnchanged, storeVars
  <2> QED BY <2>1 DEF OwnInv, WorkIsOwn, workerVars
<1>6. CASE EngineRuns
  <2>1. rpc = "upgrading" /\ rpc' = rpc /\ target' = target
    BY <1>6, RunKeeps DEF EngineRuns, runnerVars, DiskInv
  <2>2. pc' \in {"versions"} \cup Choosing \/ (pc' = "returned" /\ result' = "up-to-date") =>
          pc \in {"versions"} \cup Choosing /\ UNCHANGED slots
    BY <1>6, ChoosingRuns DEF EngineRuns, DiskInv
  <2> QED BY <2>1, <2>2 DEF OwnInv, WorkIsOwn
<1>7. CASE OrphanSteps
  <2>1. UNCHANGED slots /\ UNCHANGED workerVars /\ UNCHANGED runnerVars
    BY <1>7 DEF OrphanSteps, Orphans, OrphanLands, OrphanDies, storeVars
  <2> QED BY <2>1 DEF OwnInv, WorkIsOwn, workerVars, runnerVars
<1> QED BY <1>2, <1>3, <1>4, <1>5, <1>6, <1>7
        DEF RunnerNext, RunnerStep, Invoke, Prior, RecoverEngine, Recovered, SettleOperation,
            RecoveryDone, ReplaySettled, ArchiveOther, RecordOutcome, WorkerExits, WorkerCrashes,
            ReceiptError, UserStopsService, Fail, Replay, Succeed, Reply, Runs

\* An open operation is closed with what the settled store holds.
LEMMA ClosesSettled ==
  ASSUME RunnerInv, DiskInv, Open(op), NEW outcome \in Outcome, Settle(outcome),
         UNCHANGED storeVars, UNCHANGED workerVars,
         AtRest(LastPhase), Tidy, pc = "returned", rpc' \notin Working,
         slots["stable"] = IF outcome = "promoted" THEN op.target ELSE op.from,
         outcome = "up-to-date" => op.from = op.target
  PROVE  OwnInv'
<1>1. LastPhase' = LastPhase /\ slots' = slots  BY SameStore DEF DiskInv
<1>2. /\ op' # NoOperation /\ op'.outcome = outcome /\ outcome # None
      /\ op'.target = op.target /\ op'.from = op.from
  BY SettledOperation DEF RunnerInv
<1>3. AtRest(LastPhase)' /\ Tidy'  BY <1>1 DEF AtRest, Tidy
<1>4. ~TransactionStateFails
  BY DEF TransactionStateFails, Tidy, InFlight, DiskInv, StoreInv, SlotsMatchControl
<1>5. SettledStateMatches'
  BY <1>1, <1>2, <1>4 DEF SettledStateMatches, TransactionStateFails, SettledVersion, Complete
<1>6. ClosedIsSettled'  BY <1>2, <1>3, <1>5 DEF ClosedIsSettled, workerVars
<1> QED BY <1>2, <1>6 DEF OwnInv, OpenIsOwn, WorkIsOwn, Open, Working

\* Recovery has settled the slots for whatever comes next.
LEMMA ReadySettled ==
  ASSUME DiskInv, Ready
  PROVE  AtRest(LastPhase) /\ Tidy /\ Committed = slots["stable"] /\ Candidate = None
<1>1. AtRest(LastPhase) /\ Tidy  BY DEF DiskInv, DiskFollowsControl, Ready
<1> QED BY <1>1, VersionAssumption DEF Tidy, Committed, Complete, Candidate, InFlight

\* Settling after recovery gives the outcome of what recovery found.
LEMMA SettleStep ==
  ASSUME RunnerInv, DiskInv, OwnInv, SettleOperation, op' # op
  PROVE  OwnInv'
<1>1. Ready /\ pc = "returned"
  BY DEF SettleOperation, RunnerInv, EngineInv, WorkerFollows, AfterRecovery, Ready
<1>2. /\ Open(op) /\ rpc' = "claim"
      /\ UNCHANGED storeVars /\ UNCHANGED workerVars
      /\ \/ Settle("promoted") /\ slots["stable"] = op.target
         \/ Settle("rolled-back") /\ ~(LastPhase = "promoted" /\ slots["stable"] = op.target)
  BY DEF SettleOperation, Fail, Open, StoreAndEngineUnchanged, Runs
<1>3. slots["stable"] = op.from \/ (LastPhase = "promoted" /\ slots["stable"] = op.target)
  BY <1>1, <1>2, ReadySettled DEF OwnInv, OpenIsOwn
<1> QED BY <1>1, <1>2, <1>3, ReadySettled, ClosesSettled DEF Outcome, Working

\* What ends before the engine is touched leaves what was installed.
LEMMA EarlyEndStep ==
  ASSUME LibraryCalls = {}, RunnerInv, DiskInv, OwnInv, Check \/ Prepare, op' # op
  PROVE  OwnInv'
<1>1. Ready /\ pc = "returned" /\ rpc \in {"check", "prepare"} /\ request \in Requests
  BY DEF Check, Prepare, RunnerInv, EngineInv, WorkerFollows, AfterRecovery, Ready
<1>2. request.id # None /\ Open(op) /\ request.target # None
  BY <1>1, PinnedRequests, RequestFacts, VersionAssumption DEF RunnerInv, ReceiptInv, Working
<1>3. /\ \E outcome \in {"failed", "held"} : Settle(outcome)
      /\ rpc' = "replied"
      /\ UNCHANGED storeVars /\ UNCHANGED workerVars
  BY <1>1, <1>2 DEF Check, Hold, Prepare, Record, Reply, Runs, StoreAndEngineUnchanged
<1>4. slots["stable"] = op.from  BY <1>1 DEF OwnInv, WorkIsOwn
<1> QED BY <1>1, <1>2, <1>3, <1>4, ReadySettled, ClosesSettled DEF Outcome, Working

\* What the engine answered is what is installed.
LEMMA RecordStep ==
  ASSUME RunnerInv, DiskInv, OwnInv, rpc = "record", request.id # None,
         Settle(result), UNCHANGED storeVars, UNCHANGED workerVars, rpc' = "replied"
  PROVE  OwnInv'
<1>1. pc = "returned" /\ fn = "upgrade" /\ result \in {"promoted", "rolled-back", "up-to-date"}
  BY DEF RunnerInv, EngineInv, WorkerFollows
<1>2. AtRest(LastPhase) /\ Tidy  BY <1>1 DEF DiskInv, DiskFollowsControl
<1>3. Open(op) /\ target = op.target
  BY DEF RunnerInv, ReceiptInv, Working, OwnInv, WorkIsOwn
<1>4. slots["stable"] = IF result = "promoted" THEN op.target ELSE op.from
  <2>1. CASE result = "promoted"  BY <1>1, <1>3, <2>1 DEF DiskInv, DiskFollowsControl
  <2>2. CASE result = "rolled-back"
    <3>1. LastPhase = "rolled-back"  BY <1>1, <2>2 DEF DiskInv, DiskFollowsControl
    <3> QED BY <1>3, <2>2, <3>1 DEF OwnInv, OpenIsOwn, Committed
  <2>3. CASE result = "up-to-date"  BY <1>1, <2>3 DEF OwnInv, WorkIsOwn
  <2> QED BY <1>1, <2>1, <2>2, <2>3
<1>5. result = "up-to-date" => op.from = op.target
  <2> SUFFICES ASSUME result = "up-to-date" PROVE op.from = op.target  OBVIOUS
  <2>1. slots["stable"] = target  BY <1>1 DEF DiskInv, DiskFollowsControl
  <2> QED BY <1>3, <1>4, <2>1
<1> QED BY <1>1, <1>2, <1>3, <1>4, <1>5, ClosesSettled DEF Outcome, Working

\* A new operation starts from what is installed, with nothing in flight.
LEMMA OpenStep ==
  ASSUME LibraryCalls = {}, RunnerInv, DiskInv, OwnInv, OpenOperation
  PROVE  OwnInv'
<1>1. /\ rpc = "claim" /\ request \in Requests /\ Ready /\ rpc' = "check" /\ op' = NewOperation
      /\ UNCHANGED storeVars
  BY PinnedRequests
     DEF OpenOperation, RunnerInv, EngineInv, WorkerFollows, AfterRecovery, StoreAndEngineUnchanged, Runs
<1>2. request.id \in OperationId /\ request.target \in Version /\ slots["stable"] \in Version
  BY <1>1, PinnedRequests, RequestFacts
     DEF OpenOperation, RunnerInv, EngineInv, StableInstalled, Complete
<1>3. op' # NoOperation /\ op'.outcome = None /\ op'.from = slots["stable"] /\ slots' = slots
  BY <1>1, <1>2, NewIsOpen DEF NewOperation, storeVars
<1>4. Committed' = slots["stable"] /\ Candidate' = None
  BY <1>1, <1>3, SameView, ReadySettled DEF storeVars
<1>5. OpenIsOwn'  BY <1>3, <1>4 DEF OpenIsOwn
<1>6. ClosedIsSettled'  BY <1>3 DEF ClosedIsSettled, Open, None
<1>7. WorkIsOwn'  BY <1>1, <1>3 DEF WorkIsOwn
<1> QED BY <1>5, <1>6, <1>7 DEF OwnInv

\* Each step keeps the operation and the store together.
LEMMA OwnStep ==
  ASSUME LibraryCalls = {}, RunnerInv, DiskInv, OwnInv, RunnerNext
  PROVE  OwnInv'
<1>1. CASE UNCHANGED op  BY <1>1, OpenStays, ClosedStays, WorkStays DEF OwnInv
<1>2. CASE OpenOperation  BY <1>2, OpenStep
<1>3. CASE SettleOperation  BY <1>1, <1>3, SettleStep
<1>4. CASE Check \/ Prepare  BY <1>1, <1>4, EarlyEndStep
<1>5. CASE RecordOutcome \/ ReceiptError
  <2>1. /\ UNCHANGED storeVars /\ UNCHANGED workerVars
        /\ UNCHANGED op \/ (rpc = "record" /\ request.id # None /\ Settle(result) /\ rpc' = "replied")
    BY <1>5 DEF RecordOutcome, ReceiptError, Record, StoreAndEngineUnchanged, Reply
  <2> QED BY <1>1, <2>1, RecordStep
<1>6. CASE \/ \E r \in Requests : Invoke(r)
           \/ Prior \/ RecoverEngine \/ Recovered \/ RecoveryDone \/ ReplaySettled \/ ArchiveOther
           \/ Acquire \/ HandOver \/ Upgraded
           \/ WorkerExits \/ WorkerCrashes \/ EngineRuns \/ UserStopsService \/ OrphanSteps
  <2>1. UNCHANGED op
    BY <1>6
       DEF Invoke, Prior, RecoverEngine, Recovered, RecoveryDone, ReplaySettled, ArchiveOther,
           Acquire, HandOver, Upgraded, WorkerExits, WorkerCrashes, EngineRuns, UserStopsService,
           OrphanSteps, runnerVars
  <2> QED BY <1>1, <2>1
<1> QED BY <1>2, <1>3, <1>4, <1>5, <1>6 DEF RunnerNext, RunnerStep

\* An operation is closed where recovery or the engine has put the service in order, and
\* nobody disturbs it while none is open.
LEMMA ServiceStays ==
  ASSUME LibraryCalls = {}, RunnerInv, EndInv, OwnInv, ServiceSettled, RunnerNext
  PROVE  ServiceSettled'
<1> SUFFICES ASSUME ~Open(op)' PROVE Settled' /\ NoExperiment'  BY DEF ServiceSettled
<1>1. ASSUME UNCHANGED storeVars, UNCHANGED hostVars, Settled, NoExperiment
      PROVE  Settled' /\ NoExperiment'
  <2>1. LastPhase' = LastPhase /\ slots' = slots  BY <1>1, SameStore DEF EndInv
  <2> QED BY <1>1, <2>1 DEF Settled, AtRest, NoExperiment, hostVars
<1>2. CASE op' # op
  <2>1. /\ UNCHANGED storeVars /\ UNCHANGED hostVars
        /\ rpc \in {"settle", "check", "prepare", "record"}
    <3>1. ~OpenOperation
      <4> SUFFICES ASSUME OpenOperation PROVE FALSE  OBVIOUS
      <4>1. request \in Requests /\ op' = NewOperation /\ request.kind = "upgrade"
        BY PinnedRequests DEF OpenOperation, RunnerInv, EngineInv, WorkerFollows, Runs
      <4>2. Ready
        BY DEF OpenOperation, RunnerInv, EngineInv, WorkerFollows, AfterRecovery
      <4>3. request.id \in OperationId /\ request.target \in Version /\ slots["stable"] \in Version
        BY <4>1, <4>2, PinnedRequests, RequestFacts DEF RunnerInv, EngineInv, StableInstalled, Complete
      <4>4. op' # NoOperation /\ op'.outcome = None  BY <4>1, <4>3, NewIsOpen DEF NewOperation
      <4> QED BY <4>4 DEF Open
    <3>2. SettleOperation \/ Check \/ Prepare \/ RecordOutcome \/ ReceiptError
      BY <1>2, <3>1
         DEF RunnerNext, RunnerStep, Invoke, Prior, RecoverEngine, Recovered, RecoveryDone,
             ReplaySettled, ArchiveOther, Acquire, HandOver, Upgraded, WorkerExits, WorkerCrashes,
             EngineRuns, UserStopsService, OrphanSteps, runnerVars
    <3> QED BY <1>2, <3>2
            DEF SettleOperation, Check, Prepare, RecordOutcome, ReceiptError, StoreAndEngineUnchanged,
                Fail, Reply, Runs
  <2>2. pc = "returned" /\ fn # "bootstrap"
        /\ result \in {"ok", "promoted", "rolled-back", "up-to-date"}
    BY <2>1 DEF RunnerInv, EngineInv, WorkerFollows, AfterRecovery, Ready
  <2>3. Settled /\ NoExperiment  BY <2>2 DEF EndInv, ServiceFollowsControl
  <2> QED BY <1>1, <2>1, <2>3
<1>3. CASE op' = op
  <2>1. ~Open(op) /\ Settled /\ NoExperiment  BY <1>3 DEF ServiceSettled, Open
  <2>2. pc \in {"none", "read", "fence", "returned"}
    BY <2>1 DEF OwnInv, ClosedIsSettled, Open
  <2>3. CASE UserStopsService
    <3>1. /\ UNCHANGED storeVars /\ UNCHANGED <<parked, orphans>>
          /\ live' = {} /\ userStopped' = TRUE
      BY <2>3 DEF UserStopsService, UserStops
    <3>2. LastPhase' = LastPhase /\ slots' = slots  BY <3>1, SameStore DEF EndInv
    <3> QED BY <2>1, <3>1, <3>2 DEF Settled, AtRest, NoExperiment
  <2>4. CASE OrphanSteps
    BY <2>1, <2>4 DEF OrphanSteps, Orphans, OrphanLands, OrphanDies, Settled
  <2>5. CASE EngineRuns
    <3>1. UNCHANGED storeVars /\ UNCHANGED hostVars
      BY <2>1, <2>5, ClosedRuns DEF EndInv, DiskInv
    <3> QED BY <1>1, <2>1, <3>1
  <2>6. CASE WorkerCrashes
    <3>1. pc \notin DOMAIN IntentAt \cup DOMAIN CallAt  BY <2>2, Positions
    <3>2. UNCHANGED storeVars /\ UNCHANGED hostVars  BY <2>6, <3>1 DEF WorkerCrashes, Interrupted
    <3> QED BY <1>1, <2>1, <3>2
  <2>7. CASE \/ \E r \in Requests : Invoke(r)
             \/ Prior \/ RecoverEngine \/ Recovered \/ SettleOperation \/ RecoveryDone \/ ReplaySettled
             \/ ArchiveOther \/ OpenOperation \/ Check \/ Acquire \/ Prepare \/ HandOver \/ Upgraded
             \/ RecordOutcome \/ ReceiptError \/ WorkerExits
    <3>1. UNCHANGED storeVars /\ UNCHANGED hostVars
      BY <2>7
         DEF Invoke, Prior, RecoverEngine, BeginRecover, Recovered, SettleOperation, RecoveryDone,
             ReplaySettled, ArchiveOther, OpenOperation, Check, Acquire, Prepare, HandOver,
             BeginUpgrade, Upgraded, RecordOutcome, ReceiptError, WorkerExits, StoreAndEngineUnchanged
    <3> QED BY <1>1, <2>1, <3>1
  <2> QED BY <2>3, <2>4, <2>5, <2>6, <2>7 DEF RunnerNext, RunnerStep
<1> QED BY <1>2, <1>3

\* An error that is reported as final leaves no operation open.
LEMMA FinalError ==
  ASSUME RunnerTypes, NEW kind, Fail(kind), UNCHANGED op
  PROVE  reply'.code # 0 /\ (reply'.code # 3 => ~Open(op)')
<1>1. reply'.code = ErrorCode(kind)  BY DEF Fail, Reply
<1> QED BY <1>1 DEF ErrorCode, Open

\* An answer other than 3 is given with no operation open, and success with the
\* request's target installed.
LEMMA AnswerStep ==
  ASSUME LibraryCalls = {}, RunnerInv, OwnInv, OwnInv', RunnerNext,
         rpc # "replied", rpc' = "replied", request'.id # None,
         reply'.result # "replayed", reply'.code # 3
  PROVE  ~Open(op)' /\ (reply'.code = 0 => slots'["stable"] = request'.target)
<1>1. CASE \/ RecoverEngine /\ Fail("failed")
           \/ Prior /\ Fail("failed")
           \/ (Recovered \/ Upgraded) /\ (Fail(result) \/ Fail("failed"))
           \/ (SettleOperation \/ Acquire \/ ReceiptError) /\ Fail("failed") /\ UNCHANGED op
           \/ (Check \/ Prepare) /\ Fail("failed") /\ UNCHANGED op
  <2>1. UNCHANGED op /\ \E kind : Fail(kind)
    BY <1>1 DEF RecoverEngine, Prior, Recovered, Upgraded, Acquire
  <2> QED BY <2>1, FinalError DEF RunnerInv
<1>2. CASE RecoveryDone
  <2>1. /\ rpc = "claim" /\ request.kind = "recover" /\ UNCHANGED <<request, op>> /\ slots' = slots
        /\ reply'.code = OperationCode(op)
    BY <1>2 DEF RecoveryDone, Succeed, Reply, ResultCode, StoreAndEngineUnchanged, storeVars
  <2>2. ~Open(op) /\ op.id = request.id /\ op.target = request.target
    BY <2>1 DEF RunnerInv, ReceiptInv
  <2>3. op # NoOperation  BY <2>1, <2>2 DEF NoOperation
  <2>4. SettledStateMatches /\ (op.outcome = "up-to-date" => op.from = op.target)
    BY <2>2, <2>3 DEF OwnInv, ClosedIsSettled, Open
  <2>5. reply'.code = 0 => op.outcome \in {"promoted", "up-to-date"}
    BY <2>1, <2>3 DEF OperationCode, OutcomeCode
  <2> QED BY <2>1, <2>2, <2>4, <2>5 DEF SettledStateMatches, SettledVersion, Open
<1>3. CASE (Check \/ Prepare) /\ op' # op
  <2>1. rpc \in Working /\ request \in Requests /\ UNCHANGED request
    BY <1>3 DEF Check, Prepare, RunnerInv, EngineInv, WorkerFollows, Working
  <2>2. request.target # None /\ Open(op)
    BY <2>1, PinnedRequests, RequestFacts, VersionAssumption DEF RunnerInv, ReceiptInv
  <2>3. /\ \E outcome \in Outcome : Settle(outcome)
        /\ reply'.code # 0
    BY <1>3, <2>1, <2>2 DEF Check, Hold, Prepare, Record, Reply, Outcome
  <2> QED BY <2>2, <2>3, SettledOperation DEF RunnerInv, Open
<1>4. CASE \/ RecordOutcome
           \/ ReceiptError /\ rpc = "record" /\ request.id # None /\ Settle(result) /\ Reply("error", 1)
  <2>1. /\ rpc = "record" /\ UNCHANGED request
        /\ Settle(result) /\ reply'.code \in {1, OutcomeCode(result)}
    BY <1>4 DEF RecordOutcome, ReceiptError, Record, Reply, Fail
  <2>2. result \in Outcome /\ Open(op) /\ op.target = request.target
    BY <2>1 DEF RunnerInv, EngineInv, WorkerFollows, ReceiptInv, Working, Outcome
  <2>3. op'.outcome = result /\ op'.target = request.target /\ result # None
    BY <2>1, <2>2, SettledOperation DEF RunnerInv
  <2>4. reply'.code = 0 => result \in {"promoted", "up-to-date"}
    BY <2>1 DEF OutcomeCode
  <2>5. slots'["stable"] = SettledVersion' /\ (op'.outcome = "up-to-date" => op'.from = op'.target)
    BY <2>3 DEF OwnInv, ClosedIsSettled, SettledStateMatches
  <2> QED BY <2>1, <2>3, <2>4, <2>5 DEF SettledVersion, Open
<1>5. ~ReplaySettled /\ ~(Prior /\ ~Fail("failed"))
  BY DEF ReplaySettled, Prior, Replay, Reply, Runs
<1>6. request.kind # "rollback" \/ ~Recovered
  BY PinnedRequests DEF Recovered, RunnerInv, EngineInv, WorkerFollows
<1>7. CASE RecoverEngine \/ Recovered \/ Upgraded \/ SettleOperation \/ Acquire \/ Prior
  BY <1>1, <1>5, <1>6, <1>7
     DEF RecoverEngine, Recovered, Upgraded, SettleOperation, Acquire, Runs
<1>8. CASE Check \/ Prepare
  <2>1. op' # op \/ (Fail("failed") /\ UNCHANGED op) \/ (rpc \in Working /\ \E outcome : Record(outcome))
    BY <1>8 DEF Check, Hold, Prepare, Working, Runs
  <2>2. CASE rpc \in Working /\ \E outcome \in {"failed", "held", "up-to-date"} : Record(outcome)
    <3>1. request \in Requests  BY <2>2 DEF RunnerInv, EngineInv, WorkerFollows, Working
    <3>2. request.id # None /\ Open(op)
      BY <2>2, <3>1, PinnedRequests DEF RunnerInv, ReceiptInv
    <3>3. op' # op
      BY <2>2, <3>2, SettledOperation DEF Record, RunnerInv, Outcome, Open
    <3> QED BY <1>3, <1>8, <3>3
  <2> QED BY <1>1, <1>3, <1>8, <2>2 DEF Check, Hold, Prepare, Working, Runs
<1>9. CASE RecordOutcome \/ ReceiptError
  <2>1. ReceiptError =>
          \/ Fail("failed") /\ UNCHANGED op
          \/ rpc = "record" /\ request.id # None /\ Settle(result) /\ Reply("error", 1)
    BY DEF ReceiptError
  <2> QED BY <1>1, <1>4, <1>9, <2>1
<1>10. ~(\/ \E r \in Requests : Invoke(r)
         \/ ArchiveOther \/ OpenOperation \/ HandOver
         \/ WorkerExits \/ WorkerCrashes \/ EngineRuns \/ UserStopsService \/ OrphanSteps)
  BY DEF Invoke, ArchiveOther, OpenOperation, HandOver, WorkerExits, WorkerCrashes, EngineRuns,
         UserStopsService, OrphanSteps, runnerVars, Runs
<1> QED BY <1>2, <1>5, <1>7, <1>8, <1>9, <1>10 DEF RunnerNext, RunnerStep

\* What was true when the worker answered stays so until it exits.
LEMMA ExitCodeStep ==
  ASSUME LibraryCalls = {}, RunnerInv, OwnInv, OwnInv', ServiceSettled', ExitCodeIsTrue, RunnerNext
  PROVE  ExitCodeIsTrue'
<1> SUFFICES ASSUME rpc' = "replied", request'.id # None, reply'.result # "replayed", reply'.code # 3
             PROVE  /\ Settled'
                    /\ op'.id = request'.id => op'.outcome # None /\ slots'["stable"] = SettledVersion'
                    /\ reply'.code = 0 => slots'["stable"] = request'.target
  BY DEF ExitCodeIsTrue
<1>1. CASE rpc # "replied"
  <2>1. ~Open(op)' /\ (reply'.code = 0 => slots'["stable"] = request'.target)
    BY <1>1, AnswerStep
  <2>2. Settled'  BY <2>1 DEF ServiceSettled
  <2>3. op'.id = request'.id => op'.outcome # None /\ slots'["stable"] = SettledVersion'
    BY <2>1 DEF Open, NoOperation, OwnInv, ClosedIsSettled, SettledStateMatches
  <2> QED BY <2>1, <2>2, <2>3
<1>2. CASE rpc = "replied"
  <2>1. OrphanSteps
    BY <1>2
       DEF RunnerNext, RunnerStep, Invoke, Prior, RecoverEngine, Recovered, SettleOperation,
           RecoveryDone, ReplaySettled, ArchiveOther, OpenOperation, Check, Acquire, Prepare,
           HandOver, Upgraded, RecordOutcome, WorkerExits, WorkerCrashes, ReceiptError, EngineRuns,
           UserStopsService
  <2>2. UNCHANGED runnerVars /\ orphans # {}
    BY <2>1 DEF OrphanSteps, Orphans, OrphanLands, OrphanDies
  <2> QED BY <1>2, <2>2 DEF runnerVars, ExitCodeIsTrue, Settled
<1> QED BY <1>1, <1>2

\* The inductive invariant of callers that pin their operations: the store and the
\* receipts agree, whatever the host does.
CallerInv == RunnerInv /\ DiskInv /\ OwnInv

\* With a host that keeps its contract, the service agrees with both, and every answer
\* is true.
ServedInv == CallerInv /\ EndInv /\ ServiceSettled /\ ExitCodeIsTrue

\* A fresh installation has nothing in flight and nothing open.
LEMMA CallerInit == RunnerInit => CallerInv
<1> SUFFICES ASSUME RunnerInit PROVE CallerInv  OBVIOUS
<1>1. RunnerInv  BY RunnerInit0
<1>2. PICK installed \in Version : StoreInit(installed) /\ HostInit(installed)
  BY DEF RunnerInit
<1>3. journal = <<>> /\ pc = "none" /\ fn = "recover" /\ rpc = "none" /\ op = NoOperation
  BY <1>2 DEF RunnerInit, StoreInit, NoWorker
<1>4. LastPhase = "idle" /\ slots["experiment"] = None /\ slots["stable.old"] = None
  BY <1>2, <1>3 DEF StoreInit, LastPhase, Dir, Slot
<1>5. TxnInv
  BY <1>3, <1>4
     DEF TxnInv, CandidateIsTarget, PromotionIsOver, Choosing, Staging, Trying, Ready, InFlight, AtRest
<1>6. DiskFollowsJournal /\ DiskFollowsControl  BY <1>2, DiskInit DEF RunnerInit
<1>7. OwnInv
  BY <1>3, <1>4 DEF OwnInv, OpenIsOwn, ClosedIsSettled, WorkIsOwn, Open, NoOperation, Tidy, AtRest
<1> QED BY <1>1, <1>5, <1>6, <1>7 DEF CallerInv, DiskInv, RunnerInv, EngineInv

\* Every step keeps the store and the receipts together.
LEMMA CallerStep ==
  ASSUME LibraryCalls = {}
  PROVE  CallerInv /\ [RunnerNext]_allVars => CallerInv'
<1>1. ASSUME CallerInv, RunnerNext PROVE CallerInv'
  <2>1. RunnerInv'  BY <1>1, RunnerStepInv DEF CallerInv
  <2>2. Next \/ Rests \/ Observes  BY <1>1, EngineMoves DEF CallerInv, RunnerInv, EngineInv
  <2>3. DiskInv'  BY <1>1, <2>2, MovesDisk DEF CallerInv, OwnInv
  <2>4. OwnInv'  BY <1>1, OwnStep DEF CallerInv
  <2> QED BY <2>1, <2>3, <2>4 DEF CallerInv
<1>2. ASSUME CallerInv, UNCHANGED allVars PROVE CallerInv'
  <2>1. RunnerInv'  BY <1>2, RunnerStepInv DEF CallerInv
  <2>2. Rests /\ UNCHANGED runnerVars  BY <1>2 DEF allVars, vars, Rests
  <2>3. DiskInv'  BY <1>2, <2>2, MovesDisk DEF CallerInv, OwnInv
  <2>4. /\ UNCHANGED workerVars /\ LastPhase' = LastPhase /\ slots' = slots /\ journal' = journal
        /\ Committed' = Committed /\ Candidate' = Candidate
    BY <1>2, <2>2, SameStore, SameView DEF Rests, CallerInv, DiskInv, storeVars
  <2>5. SettledStateMatches' = SettledStateMatches /\ Tidy' = Tidy
        /\ AtRest(LastPhase)' = AtRest(LastPhase)
    BY <2>2, <2>4
       DEF runnerVars, SettledVersion, SettledStateMatches, TransactionStateFails, Complete, Tidy, AtRest
  <2>6. OwnInv'
    BY <1>2, <2>2, <2>4, <2>5
       DEF CallerInv, OwnInv, OpenIsOwn, ClosedIsSettled, WorkIsOwn, Open, runnerVars, workerVars
  <2> QED BY <2>1, <2>3, <2>6 DEF CallerInv
<1> QED BY <1>1, <1>2

\* A fresh installation is served as it is installed.
LEMMA ServedInit == RunnerInit => ServedInv
<1> SUFFICES ASSUME RunnerInit PROVE ServedInv  OBVIOUS
<1>1. CallerInv  BY CallerInit
<1>2. PICK installed \in Version : StoreInit(installed) /\ HostInit(installed)
  BY DEF RunnerInit
<1>3. journal = <<>> /\ pc = "none" /\ fn = "recover" /\ rpc = "none"
  BY <1>2 DEF RunnerInit, StoreInit, NoWorker
<1>4. LastPhase = "idle" /\ slots["experiment"] = None /\ slots["stable.old"] = None
      /\ slots["stable"] = installed
  BY <1>2, <1>3 DEF StoreInit, LastPhase, Dir, Slot
<1>5. orphans = {} /\ ~parked /\ NeverDualRun /\ NoExperiment
  BY <1>2 DEF HostInit, NeverDualRun, NoExperiment
<1>6. Up /\ \A p \in live : p.version = installed
  <2>1. CASE \E id \in StartId : live = {[slot |-> "stable", id |-> id, version |-> installed]}
    BY <1>2, <2>1 DEF HostInit, Up
  <2>2. CASE live = {} /\ userStopped = TRUE  BY <1>2, <2>2 DEF HostInit, Up
  <2> QED BY <1>2, <2>1, <2>2 DEF HostInit
<1>7. OrphansFenced  BY <1>3, <1>5 DEF OrphansFenced, Fenced, Informed, Ready
<1>8. OneIncarnation  BY <1>3, <1>5 DEF OneIncarnation
<1>9. CandidateLives  BY <1>3 DEF CandidateLives, Promotion
<1>10. ServiceFollowsJournal /\ ServiceFollowsControl
  BY <1>3, <1>4, <1>5, <1>6 DEF ServiceFollowsJournal, ServiceFollowsControl, Choosing, Trying
<1>11. Settled  BY <1>4, <1>5, <1>6 DEF Settled, AtRest, Up
<1>12. ServiceSettled /\ ExitCodeIsTrue  BY <1>3, <1>5, <1>11 DEF ServiceSettled, ExitCodeIsTrue
<1> QED BY <1>1, <1>7, <1>8, <1>9, <1>10, <1>12 DEF ServedInv, CallerInv, DiskInv, EndInv

\* Every step keeps the service and the answers with them.
LEMMA ServedStep ==
  ASSUME ExclusiveHandoff, ProbeFromLiveProcess, LibraryCalls = {}
  PROVE  ServedInv /\ [RunnerNext]_allVars => ServedInv'
<1>1. ASSUME ServedInv, RunnerNext PROVE ServedInv'
  <2>1. CallerInv'  BY <1>1, CallerStep DEF ServedInv
  <2>2. Next \/ Rests \/ Observes
    BY <1>1, EngineMoves DEF ServedInv, CallerInv, RunnerInv, EngineInv
  <2>3. EndInv'  BY <1>1, <2>2, MovesEnd DEF ServedInv, CallerInv, OwnInv
  <2>4. ServiceSettled'  BY <1>1, ServiceStays DEF ServedInv, CallerInv
  <2>5. ExitCodeIsTrue'  BY <1>1, <2>1, <2>4, ExitCodeStep DEF ServedInv, CallerInv
  <2> QED BY <2>1, <2>3, <2>4, <2>5 DEF ServedInv
<1>2. ASSUME ServedInv, UNCHANGED allVars PROVE ServedInv'
  <2>1. CallerInv'  BY <1>2, CallerStep DEF ServedInv
  <2>2. Rests /\ UNCHANGED runnerVars  BY <1>2 DEF allVars, vars, Rests
  <2>3. EndInv'  BY <1>2, <2>2, MovesEnd DEF ServedInv, CallerInv, OwnInv
  <2>4. UNCHANGED hostVars /\ LastPhase' = LastPhase /\ slots' = slots
    BY <1>2, <2>2, SameStore DEF Rests, ServedInv, EndInv
  <2>5. Settled' = Settled /\ NoExperiment' = NoExperiment /\ SettledVersion' = SettledVersion
    BY <2>2, <2>4 DEF runnerVars, hostVars, Settled, AtRest, NoExperiment, SettledVersion
  <2>6. ServiceSettled' /\ ExitCodeIsTrue'
    BY <1>2, <2>2, <2>4, <2>5 DEF ServedInv, ServiceSettled, ExitCodeIsTrue, Open, runnerVars
  <2> QED BY <2>1, <2>3, <2>6 DEF ServedInv
<1> QED BY <1>1, <1>2

-----------------------------------------------------------------------------
(* What callers of the runner protocol can rely on                         *)

\* Callers that pin their operations keep the store and the receipts in agreement,
\* whatever the host does.
THEOREM CallerInvariance ==
  ASSUME LibraryCalls = {} PROVE RunnerSpec => []CallerInv
  BY CallerInit, CallerStep, PTL DEF RunnerSpec

\* No invocation is ever refused because the receipt and the store disagree: between
\* invocations a settled receipt is about the version that is installed
\* (runner.rs recover_engine).
THEOREM SettledReceiptsMatchStore ==
  ASSUME LibraryCalls = {} PROVE RunnerSpec => []SettledReceiptMatchesStore
<1>1. CallerInv => SettledReceiptMatchesStore
  BY DEF CallerInv, OwnInv, ClosedIsSettled, SettledReceiptMatchesStore
<1>2. RunnerSpec => []CallerInv  BY CallerInvariance
<1> QED BY <1>1, <1>2, PTL

\* The engine stays an atomic transaction under the runner, which replaces some of its
\* recoveries by observations.
THEOREM RunnerImplementsTxn ==
  ASSUME LibraryCalls = {} PROVE RunnerSpec => ImplementsTxn
<1>1. RunnerInit => Txn!TxnInit
  <2> SUFFICES ASSUME RunnerInit PROVE Txn!TxnInit  OBVIOUS
  <2>1. journal = <<>> /\ slots["stable"] \in Version  BY DEF RunnerInit, StoreInit, Dir, Slot
  <2>2. LastPhase = "idle"  BY <2>1 DEF LastPhase
  <2> QED BY <2>1, <2>2 DEF Txn!TxnInit, Committed, Candidate, InFlight, AtRest
<1>2. ASSUME CallerInv, [RunnerNext]_allVars PROVE [Txn!TxnNext]_Txn!txnVars
  <2>1. CASE UNCHANGED <<journal, slots>>  BY <2>1, SameView DEF Txn!txnVars
  <2>2. Next \/ UNCHANGED <<journal, slots>>
    BY <1>2, EngineMoves
       DEF CallerInv, RunnerInv, EngineInv, Rests, Observes, allVars, vars, storeVars
  <2> QED BY <1>2, <2>1, <2>2, StoreSteps, AppendIsTxn, SlotsStepIsTxn DEF CallerInv, DiskInv
<1>3. RunnerSpec => []CallerInv  BY CallerInvariance
<1> QED BY <1>1, <1>2, <1>3, PTL DEF RunnerSpec, ImplementsTxn, Txn!TxnSpec

\* There is a complete copy to converge to at every instant, also where a receipt stands
\* in for recovery, however the library is called and whatever the host does.
THEOREM RunnerNeverBricks == RunnerSpec => []NeverBricked
<1>1. RunnerInv => NeverBricked  BY DEF RunnerInv, EngineInv, StoreInv
<1> QED BY <1>1, RunnerInvariance, PTL

\* Under the host assumptions the service agrees with the store and the receipts, and
\* so does every answer.
THEOREM ServedInvariance ==
  ASSUME ExclusiveHandoff, ProbeFromLiveProcess, LibraryCalls = {}
  PROVE  RunnerSpec => []ServedInv
  BY ServedInit, ServedStep, PTL DEF RunnerSpec

\* The exit code tells the truth: unless it is 3 nothing is owed and the operation's
\* receipt says which version is installed, and with 0 that is the target (runner.rs
\* exit_code and execute).
THEOREM ExitCodesAreTrue ==
  ASSUME ExclusiveHandoff, ProbeFromLiveProcess, LibraryCalls = {}
  PROVE  RunnerSpec => []ExitCodeIsTrue
<1>1. ServedInv => ExitCodeIsTrue  BY DEF ServedInv
<1>2. RunnerSpec => []ServedInv  BY ServedInvariance
<1> QED BY <1>1, <1>2, PTL

\* New work is accepted only where nothing of the old is owed, also when a settled
\* receipt stood in for recovery (runner.rs drive_locked).
THEOREM NewWorkFindsSettled ==
  ASSUME ExclusiveHandoff, ProbeFromLiveProcess, LibraryCalls = {}
  PROVE  RunnerSpec => []SettledBeforeNewWork
<1>1. ServedInv => SettledBeforeNewWork
  <2> SUFFICES ASSUME ServedInv, rpc \in {"check", "acquire", "prepare", "handover"} PROVE Settled
    BY DEF SettledBeforeNewWork
  <2>1. Ready  BY DEF ServedInv, CallerInv, RunnerInv, EngineInv, WorkerFollows, AfterRecovery
  <2> QED BY <2>1 DEF ServedInv, EndInv, ServiceFollowsControl, Ready
<1>2. RunnerSpec => []ServedInv  BY ServedInvariance
<1> QED BY <1>1, <1>2, PTL

\* No sequence of requests, crashes and late calls of dead workers has two live
\* incarnations.
THEOREM RunnerNeverRunsTwice ==
  ASSUME ExclusiveHandoff, ProbeFromLiveProcess, LibraryCalls = {}
  PROVE  RunnerSpec => []NeverDualRun
<1>1. ServedInv => NeverDualRun  BY DEF ServedInv, EndInv, OneIncarnation
<1>2. RunnerSpec => []ServedInv  BY ServedInvariance
<1> QED BY <1>1, <1>2, PTL
=============================================================================
