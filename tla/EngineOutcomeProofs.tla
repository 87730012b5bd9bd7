------------------------ MODULE EngineOutcomeProofs -------------------------
(***************************************************************************)
(* Proofs of what the upgrade engine tells its callers: that it implements *)
(* the atomic transaction UpgradeTxn, that a promotion it reports is that  *)
(* of a new incarnation of the target, and that an end it reports is one.  *)
(* For every set of versions and start ids and every bound.                *)
(***************************************************************************)
EXTENDS EngineProofs

-----------------------------------------------------------------------------
(* The transaction a reader sees                                           *)

\* From the promote intent to the end of the promotion.
Promotion == {"promote", "dropOld", "retire", "commit", "dropBackup", "resumePromoted"}

\* The worker's candidate is the version of the line it wrote and of the bytes
\* it staged, and differs from what is installed.
CandidateIsTarget ==
  /\ pc \in Choosing \cup Staging \cup Trying => target # slots["stable"]
  /\ pc \in Staging \cup Trying => Candidate = target
  /\ pc \in {"replace", "publish"} => slots["experiment.staging"] = target
  /\ pc \in Trying => slots["experiment"] = target

\* A promotion that is over has left no experiment to commit.
PromotionIsOver ==
  /\ pc \in {"dropBackup", "resumePromoted"} => slots["experiment"] = None
  /\ (pc \in {"versions"} \cup Choosing \/ Ready) /\ LastPhase = "promoted" =>
       slots["experiment"] = None

TxnInv ==
  /\ CandidateIsTarget
  /\ PromotionIsOver
  /\ InFlight(LastPhase) => Candidate \in Version
  /\ pc \in {"adoptFill", "adoptPublish"} => slots["stable"] = None /\ journal = <<>>

-----------------------------------------------------------------------------
(* The incarnation a promotion is about                                    *)

\* Not the incarnation the upgrade found, and running the target if the probe
\* tells what runs.
IsNew(p) == p.id # prior /\ (ProbeFromLiveProcess => p.version = target)

\* What the evidence showed is still live, while the worker decides on it and
\* until it has reported the promotion.
CandidateLives ==
  /\ pc \in {"read", "fence"} => fn = "recover"
  /\ pc \in {"logReadback", "judge", "logPromoted"} =>
       \E p \in live : p.id = evidence.id /\ (ProbeFromLiveProcess => p.version = evidence.version)
  /\ pc = "logPromoted" => evidence.id # prior /\ evidence.version = target
  /\ pc \in Promotion /\ fn # "recover" => \E p \in live : IsNew(p)
  /\ pc = "returned" /\ result = "promoted" => orphans = {} /\ \E p \in live : IsNew(p)

-----------------------------------------------------------------------------
(* What an end leaves behind                                               *)

\* The slots hold the stable version and nothing of a transaction.
Tidy == slots["experiment"] = None /\ slots["stable.old"] = None

\* The backup is of a commit, and the experiment of a transaction.
DiskFollowsJournal ==
  /\ LastPhase # "promoted" => slots["stable.old"] = None
  /\ LastPhase = "idle" => slots["experiment"] = None

\* Where the worker stands tells what it has tidied up and what it has promoted.
DiskFollowsControl ==
  /\ pc \in {"read", "fence"} => fn = "recover"
  /\ pc \in {"versions"} \cup Choosing => Tidy
  /\ pc \in {"promote", "dropOld", "retire", "commit"} /\ fn # "recover" =>
       target \in Version /\ slots["experiment"] = target
  /\ pc \in {"dropBackup", "resumePromoted"} /\ fn # "recover" => slots["stable"] = target
  /\ pc = "resumePromoted" => slots["stable.old"] = None
  /\ pc = "returned" /\ fn # "bootstrap"
     /\ result \in {"ok", "promoted", "rolled-back", "up-to-date"} => AtRest(LastPhase) /\ Tidy
  /\ pc = "returned" /\ result \in {"promoted", "up-to-date"} => slots["stable"] = target
  /\ pc = "returned" /\ result = "rolled-back" => LastPhase = "rolled-back"

\* What is on disk is consistent, whatever the host does.
DiskInv == StoreInv /\ TxnInv /\ DiskFollowsJournal /\ DiskFollowsControl

\* The service is up, or down because its user wants it so.
Up == live # {} \/ userStopped

\* The service is as the intents leave it: until the handover it is untouched, and
\* from the evidence on there is something to promote.
ServiceFollowsJournal ==
  /\ \A p \in live : p.slot = "stable" => p.version = slots["stable"]
  /\ LastPhase \in {"idle", "staged"} => ~parked /\ Up
  /\ LastPhase = "promoted" => Up
  /\ LastPhase = "promoted" /\ slots["experiment"] # None =>
       \A p \in live : p.slot = "experiment" /\ p.version = slots["experiment"]

\* Where the worker stands tells what it has restored.
ServiceFollowsControl ==
  /\ pc \in {"versions"} \cup Choosing => ~parked /\ Up
  /\ pc \in Trying \ {"logHandingOver", "quiesce", "stopStable", "startExperiment"} =>
       \A p \in live : p.slot = "experiment"
  /\ pc = "resumeRolledBack" => live # {}
  /\ pc = "clear" => ~parked /\ Up
  /\ pc = "returned" /\ fn # "bootstrap"
     /\ result \in {"ok", "promoted", "rolled-back", "up-to-date"} => Settled /\ NoExperiment

-----------------------------------------------------------------------------
(* Lemmas: the reader's view of a step                                     *)

\* What a reader sees depends on the journal and the slots only.
LEMMA SameView ==
  ASSUME UNCHANGED journal, slots'["stable"] = slots["stable"],
         slots'["experiment"] = slots["experiment"]
  PROVE  Committed' = Committed /\ Candidate' = Candidate
  BY SameJournal DEF Committed, Candidate, Complete

\* The last line appended is the one a reader goes by.
LEMMA AppendedView ==
  ASSUME StoreTypeOK, NEW e \in Entry, AppendEntry(e)
  PROVE  Candidate' = IF InFlight(e.intent) THEN e.version ELSE None
<1>1. journal'[Len(journal')] = e /\ journal' # <<>>  BY DEF StoreTypeOK, AppendEntry
<1> QED BY <1>1 DEF Candidate, LastPhase

\* The worker decides nothing about an upgrade before it was told the version.
LEMMA TargetKnown ==
  ASSUME StoreInv, pc \in Choosing \cup Staging \cup Trying
  PROVE  target \in Version /\ slots["stable"] \in Version
  BY DEF StoreInv, SlotsMatchControl, Complete

\* An appended line, of a worker that goes on or not, and what it tells a reader.
LEMMA AppendSeen ==
  ASSUME StoreInv, TxnInv, pc \in DOMAIN IntentAt, AppendEntry(EntryAt(pc))
  PROVE  /\ LastPhase' = IntentAt[pc] /\ slots' = slots
         /\ Candidate' = IF InFlight(IntentAt[pc]) THEN target ELSE None
         /\ InFlight(IntentAt[pc]) => target \in Version /\ target # slots["stable"]
<1>1. LastPhase' = IntentAt[pc] /\ EntryAt(pc) \in Entry
  BY LoggedLine, AppendLegal DEF StoreInv, TypeOK
<1>2. EntryAt(pc).intent = IntentAt[pc]
      /\ EntryAt(pc).version = IF IntentAt[pc] = "rolled-back" THEN None ELSE target
  BY DEF EntryAt
<1>3. Candidate' = IF InFlight(IntentAt[pc]) THEN target ELSE None
  <2>1. Candidate' = IF InFlight(EntryAt(pc).intent) THEN EntryAt(pc).version ELSE None
    BY <1>1, AppendedView DEF StoreInv, TypeOK
  <2> QED BY <1>2, <2>1 DEF InFlight, AtRest
<1>4. InFlight(IntentAt[pc]) => pc \in Choosing \cup Trying
  BY Positions DEF IntentAt, InFlight, AtRest, Choosing, Trying
<1> QED BY <1>1, <1>3, <1>4, TargetKnown DEF AppendEntry, TxnInv, CandidateIsTarget

\* A worker that is gone or gave up has nothing to answer for.
LEMMA TxnIdle ==
  ASSUME pc' \in {"none", "read"} \/ (pc' = "returned" /\ ~Ready')
  PROVE  CandidateIsTarget' /\ PromotionIsOver'
  BY DEF CandidateIsTarget, PromotionIsOver, Choosing, Staging, Trying, Ready

\* Appending a line keeps the invariant.
LEMMA LogStepTxn ==
  ASSUME StoreInv, TxnInv,
         \/ LogRolledBack \/ LogRolledBackOnly \/ LogStaged \/ LogHandingOver
         \/ LogRunning \/ LogReadback \/ LogPromoted
  PROVE  TxnInv'
<1>1. pc \in DOMAIN IntentAt
  BY Positions DEF LogRolledBack, LogRolledBackOnly, LogStaged, LogHandingOver, LogRunning,
                   LogReadback, LogPromoted, Log
<1>2. JournalReadable /\ seq = NextSeq  BY <1>1, LoggedLine DEF StoreInv, EntryAt
<1>3. /\ AppendEntry(EntryAt(pc)) /\ target' = target
      /\ \/ pc = "logRolledBack" /\ pc' = "stopExperiment"
         \/ pc = "logRolledBackOnly" /\ pc' = "clear"
         \/ pc = "logStaged" /\ pc' = "populate"
         \/ pc = "logHandingOver" /\ pc' = "quiesce"
         \/ pc = "logRunning" /\ pc' = "probe"
         \/ pc = "logReadback" /\ pc' = "judge"
         \/ pc = "logPromoted" /\ pc' = "promote"
  BY <1>2 DEF LogRolledBack, LogRolledBackOnly, LogStaged, LogHandingOver, LogRunning, LogReadback,
              LogPromoted, Log
<1>4. /\ LastPhase' = IntentAt[pc] /\ slots' = slots
      /\ Candidate' = IF InFlight(IntentAt[pc]) THEN target ELSE None
      /\ InFlight(IntentAt[pc]) => target \in Version /\ target # slots["stable"]
  BY <1>1, <1>3, AppendSeen
<1>5. CandidateIsTarget'
  <2>1. pc' \in Staging \cup Trying => InFlight(IntentAt[pc])
    BY <1>3 DEF Staging, Trying, IntentAt, InFlight, AtRest, Phase
  <2>2. pc' \in Trying => pc \in Trying  BY <1>3 DEF Trying
  <2>3. pc' \notin {"replace", "publish"} \cup Choosing  BY <1>3 DEF Choosing
  <2> QED BY <1>3, <1>4, <2>1, <2>2, <2>3 DEF TxnInv, CandidateIsTarget
<1>6. PromotionIsOver'  BY <1>3 DEF PromotionIsOver, Choosing, Ready
<1>7. InFlight(LastPhase') => Candidate' \in Version  BY <1>4
<1>8. pc' \notin {"adoptFill", "adoptPublish"}  BY <1>3
<1> QED BY <1>5, <1>6, <1>7, <1>8 DEF TxnInv

\* A step that leaves the store alone, of a worker that stays within what it
\* knows of the candidate.
LEMMA SameStoreTxn ==
  ASSUME StoreInv, TxnInv, UNCHANGED storeVars, CandidateIsTarget', PromotionIsOver',
         pc' \in {"adoptFill", "adoptPublish"} => slots["stable"] = None /\ journal = <<>>
  PROVE  TxnInv'
<1>1. LastPhase' = LastPhase /\ slots' = slots /\ journal' = journal
  BY SameStore DEF storeVars
<1>2. Candidate' = Candidate  BY <1>1, SameView
<1> QED BY <1>1, <1>2 DEF TxnInv

\* A call to the host keeps the invariant.
LEMMA HostStepTxn ==
  ASSUME StoreInv, TxnInv,
         \/ StopExperiment \/ StartStable \/ ResumeRolledBack
         \/ Quiesce \/ StopStable \/ StartExperiment \/ ResumePromoted
  PROVE  TxnInv'
<1> USE DEF StopExperiment, StartStable, ResumeRolledBack, Quiesce, StopStable, StartExperiment,
            ResumePromoted, HostCall
<1>1. UNCHANGED storeVars  OBVIOUS
<1>2. LastPhase' = LastPhase /\ slots' = slots /\ Candidate' = Candidate
  BY <1>1, SameStore, SameView DEF storeVars
<1>3. \/ \E value \in {"failed", "uncertain"} : Return(value)
      \/ pc = "resumePromoted" /\ Finish("promoted")
      \/ pc = "stopExperiment" /\ Goto("startStable")
      \/ pc = "startStable" /\ Goto("resumeRolledBack")
      \/ pc = "resumeRolledBack" /\ Goto("clear")
      \/ pc = "quiesce" /\ Goto("stopStable")
      \/ pc = "stopStable" /\ Goto("startExperiment")
      \/ pc = "startExperiment" /\ Goto("logRunning")
  OBVIOUS
<1>4. CandidateIsTarget' /\ PromotionIsOver'
  <2>1. CASE \E value \in {"failed", "uncertain"} : Return(value)
    BY <2>1, TxnIdle DEF Return, Ready
  <2>2. CASE pc = "resumePromoted" /\ Finish("promoted")
    BY <1>2, <2>2
       DEF Finish, Return, TxnInv, CandidateIsTarget, PromotionIsOver, Choosing, Staging, Trying, Ready
  <2>3. CASE \/ pc = "stopExperiment" /\ Goto("startStable")
             \/ pc = "startStable" /\ Goto("resumeRolledBack")
             \/ pc = "resumeRolledBack" /\ Goto("clear")
             \/ pc = "quiesce" /\ Goto("stopStable")
             \/ pc = "stopStable" /\ Goto("startExperiment")
             \/ pc = "startExperiment" /\ Goto("logRunning")
    BY <1>2, <2>3
       DEF Goto, TxnInv, CandidateIsTarget, PromotionIsOver, Choosing, Staging, Trying, Ready
  <2> QED BY <1>3, <2>1, <2>2, <2>3
<1>5. pc' \notin {"adoptFill", "adoptPublish"}  BY <1>3 DEF Goto, Return, Finish
<1> QED BY <1>1, <1>4, <1>5, SameStoreTxn

\* A step that only decides keeps it.
LEMMA DecideStepTxn ==
  ASSUME StoreInv, TxnInv,
         \/ ReadJournal \/ Fence \/ ReadVersions \/ ProbePrior \/ Probe \/ Judge
         \/ PromoteBegin \/ Adopt
  PROVE  TxnInv'
<1>1. UNCHANGED storeVars
  BY DEF ReadJournal, Fence, ReadVersions, ProbePrior, Probe, Judge, PromoteBegin, Adopt, Decide
<1>2. /\ LastPhase' = LastPhase /\ slots' = slots /\ Candidate' = Candidate
      /\ LastPhase \in Phase /\ slots["stable"] # Partial
  BY <1>1, SameStore, SameView, LastPhaseType DEF storeVars, StoreInv, TypeOK
<1>3. CandidateIsTarget' /\ PromotionIsOver'
      /\ (pc' \in {"adoptFill", "adoptPublish"} => slots["stable"] = None /\ journal = <<>>)
  <2> USE <1>2 DEF CandidateIsTarget, PromotionIsOver, Choosing, Staging, Trying, Ready
  <2>1. CASE ReadJournal  BY <2>1 DEF ReadJournal, Return
  <2>2. CASE Fence
    <3>1. CASE ResumeFrom(LastPhase)
      BY <2>2, <3>1 DEF Fence, ResumeFrom, Goto, Return, Phase
    <3>2. CASE \E value \in {"failed", "uncertain"} : Return(value)
      BY <3>2 DEF Return
    <3> QED BY <2>2, <3>1, <3>2 DEF Fence
  <2>3. CASE ReadVersions
    BY <2>3 DEF ReadVersions, Decide, Goto, Return, TxnInv
  <2>4. CASE ProbePrior
    BY <2>4 DEF ProbePrior, Return, TxnInv
  <2>5. CASE Probe
    BY <2>5 DEF Probe, Goto, Return, TxnInv
  <2>6. CASE Judge
    BY <2>6 DEF Judge, Goto, Return, TxnInv
  <2>7. CASE PromoteBegin
    BY <2>7 DEF PromoteBegin, Decide, Goto, Return
  <2>8. CASE Adopt
    <3>1. slots["stable"] \in Version \cup {None, Partial}
      BY DEF StoreInv, TypeOK, StoreTypeOK, Dir, Slot
    <3>2. fn = "bootstrap"  BY <2>8 DEF Adopt, Decide, StoreInv, SlotsMatchControl, Adopting
    <3> QED BY <2>8, <3>1, <3>2 DEF Adopt, Decide, Goto, Return, Complete
  <2> QED BY <2>1, <2>2, <2>3, <2>4, <2>5, <2>6, <2>7, <2>8
<1> QED BY <1>1, <1>3, SameStoreTxn

\* A step on the slot directories keeps it.
LEMMA SlotsStepTxn ==
  ASSUME StoreInv, TxnInv,
         \/ StagePopulate \/ StageFill \/ StagePublish \/ PromoteRetire \/ PromoteCommit
         \/ AdoptFill \/ AdoptPublish \/ Clear \/ StageReplace \/ PromoteDropOld
         \/ PromoteDropBackup
  PROVE  TxnInv'
<1> USE DEF StagePopulate, StageFill, StagePublish, PromoteRetire, PromoteCommit, AdoptFill,
            AdoptPublish, Clear, StageReplace, PromoteDropOld, PromoteDropBackup, Remove,
            RemoveFiles, RemoveDir, PopulateBegin, PopulateFinish, Rename
<1>1. UNCHANGED <<journal, target>> \/ Finish("rolled-back")
  BY DEF storeVars, Goto, Return
<1>2. UNCHANGED journal  BY DEF storeVars
<1>3. LastPhase' = LastPhase /\ Candidate' = Candidate
  BY <1>2, SameJournal DEF Candidate
<1>4. slots \in [Dir -> Version \cup {None, Partial}]
      /\ {"stable", "experiment", "stable.old", "experiment.staging", "stable.bootstrap"} = Dir
  BY DEF StoreInv, TypeOK, StoreTypeOK, Dir, Slot
<1>5. CandidateIsTarget'
  <2> USE <1>3, <1>4 DEF TxnInv, CandidateIsTarget, Choosing, Staging, Trying, Goto, Return, Finish
  <2>1. CASE Clear \/ PromoteDropOld \/ PromoteDropBackup  BY <2>1 DEF storeVars
  <2>2. CASE StageReplace  BY <2>2 DEF storeVars
  <2>3. CASE StagePopulate \/ StageFill  BY <2>3
  <2>4. CASE StagePublish  BY <2>4
  <2>5. CASE PromoteRetire \/ PromoteCommit \/ AdoptFill \/ AdoptPublish  BY <2>5
  <2> QED BY <2>1, <2>2, <2>3, <2>4, <2>5
<1>6. PromotionIsOver'
  <2> USE <1>3, <1>4 DEF TxnInv, PromotionIsOver, Choosing, Ready, Goto, Return, Finish, StoreInv,
                         ControlMatchesJournal, SlotsMatchControl, Adopting
  <2>1. CASE Clear  BY <2>1 DEF storeVars
  <2>2. CASE StagePopulate \/ StageFill \/ StageReplace \/ StagePublish  BY <2>2 DEF storeVars
  <2>3. CASE PromoteDropOld \/ PromoteRetire  BY <2>3 DEF storeVars
  <2>4. CASE PromoteCommit  BY <2>4
  <2>5. CASE PromoteDropBackup  BY <2>5 DEF storeVars
  <2>6. CASE AdoptFill \/ AdoptPublish  BY <2>6
  <2> QED BY <2>1, <2>2, <2>3, <2>4, <2>5, <2>6
<1>7. pc' \in {"adoptFill", "adoptPublish"} => slots'["stable"] = None /\ journal' = <<>>
  BY <1>2, <1>4 DEF TxnInv, Goto, Return, Finish
<1> QED BY <1>3, <1>5, <1>6, <1>7 DEF TxnInv

\* So do the steps around the worker.
LEMMA ProcessStepTxn ==
  ASSUME StoreInv, TxnInv,
         \/ BeginRecover \/ Exit \/ Crash \/ IoError \/ UserStops \/ Orphans
         \/ \E version \in Version : BeginBootstrap(version) \/ BeginUpgrade(version)
  PROVE  TxnInv'
<1>1. CASE BeginRecover \/ Exit
  BY <1>1, TxnIdle, SameStoreTxn DEF BeginRecover, Exit, WorkerGone
<1>2. CASE \E version \in Version : BeginBootstrap(version) \/ BeginUpgrade(version)
  <2>1. UNCHANGED storeVars  BY <1>2 DEF BeginBootstrap, BeginUpgrade
  <2>2. LastPhase' = LastPhase /\ slots' = slots  BY <2>1, SameStore
  <2>3. CandidateIsTarget' /\ PromotionIsOver' /\ pc' \notin {"adoptFill", "adoptPublish"}
    BY <1>2, <2>2
       DEF BeginBootstrap, BeginUpgrade, TxnInv, CandidateIsTarget, PromotionIsOver, Choosing, Staging,
           Trying, Ready
  <2> QED BY <2>1, <2>3, SameStoreTxn
<1>3. CASE Crash \/ IoError
  <2>1. pc' = "none" \/ (pc' = "returned" /\ ~Ready')
    BY <1>3 DEF Crash, IoError, WorkerGone, Return, Ready
  <2>2. \/ UNCHANGED <<journal, slots>>
        \/ pc \in DOMAIN IntentAt /\ AppendEntry(EntryAt(pc))
    BY <1>3 DEF Crash, IoError, Interrupted, AppendCutShort, storeVars
  <2>3. InFlight(LastPhase') => Candidate' \in Version
    <3>1. CASE UNCHANGED <<journal, slots>>
      BY <3>1, SameJournal, SameView DEF TxnInv
    <3>2. CASE pc \in DOMAIN IntentAt /\ AppendEntry(EntryAt(pc))
      BY <3>2, AppendSeen
    <3> QED BY <2>2, <3>1, <3>2
  <2> QED BY <2>1, <2>3, TxnIdle DEF TxnInv
<1>4. CASE UserStops \/ Orphans
  <2>1. UNCHANGED storeVars /\ UNCHANGED workerVars
    BY <1>4 DEF UserStops, Orphans, OrphanLands, OrphanDies
  <2>2. LastPhase' = LastPhase /\ slots' = slots /\ Candidate' = Candidate /\ journal' = journal
    BY <2>1, SameStore, SameView DEF storeVars
  <2> QED BY <2>1, <2>2 DEF workerVars, TxnInv, CandidateIsTarget, PromotionIsOver, Ready
<1> QED BY <1>1, <1>2, <1>3, <1>4

\* The candidate of a transaction, its bytes and the target agree.
LEMMA TxnInvariance == Spec => []TxnInv
<1>1. Init => TxnInv
  <2> SUFFICES ASSUME Init PROVE TxnInv  OBVIOUS
  <2>1. journal = <<>> /\ pc = "none"  BY DEF Init, StoreInit, NoWorker
  <2>2. LastPhase = "idle"  BY <2>1 DEF LastPhase
  <2> QED BY <2>1, <2>2
          DEF TxnInv, CandidateIsTarget, PromotionIsOver, Choosing, Staging, Trying, Ready, InFlight,
              AtRest
<1>2. StoreInv /\ TxnInv /\ [Next]_vars => TxnInv'
  <2>1. ASSUME StoreInv, TxnInv, Next PROVE TxnInv'
    BY <2>1, LogStepTxn, HostStepTxn, DecideStepTxn, SlotsStepTxn, ProcessStepTxn
       DEF Next, WorkerStep, Recovering, Upgrading, Promoting, Bootstrapping
  <2>2. ASSUME StoreInv, TxnInv, UNCHANGED vars PROVE TxnInv'
    <3>1. UNCHANGED storeVars /\ UNCHANGED workerVars  BY <2>2 DEF vars
    <3>2. LastPhase' = LastPhase /\ slots' = slots /\ Candidate' = Candidate /\ journal' = journal
      BY <2>2, <3>1, SameStore, SameView DEF storeVars
    <3> QED BY <2>2, <3>1, <3>2 DEF workerVars, TxnInv, CandidateIsTarget, PromotionIsOver, Ready
  <2> QED BY <2>1, <2>2
<1> QED BY <1>1, <1>2, StoreInvariance, PTL DEF Spec

-----------------------------------------------------------------------------
(* Refinement                                                              *)

\* A line that continues a transaction changes nothing for a reader, the first one
\* begins it, and the last one commits or aborts it.
LEMMA AppendIsTxn ==
  ASSUME StoreInv, TxnInv, pc \in DOMAIN IntentAt, AppendEntry(EntryAt(pc))
  PROVE  [Txn!TxnNext]_Txn!txnVars
<1> USE DEF Txn!TxnNext, Txn!Begin, Txn!Commit, Txn!Abort, Txn!txnVars
<1>1. /\ LastPhase' = IntentAt[pc] /\ slots' = slots
      /\ Candidate' = IF InFlight(IntentAt[pc]) THEN target ELSE None
      /\ InFlight(IntentAt[pc]) => target \in Version /\ target # slots["stable"]
  BY AppendSeen
<1>2. slots["stable"] \in Version /\ None \notin Version
  BY StableAtLog, VersionAssumption DEF Complete
<1>3. CASE pc = "logStaged"
  <2>1. AtRest(LastPhase) /\ (LastPhase = "promoted" => slots["experiment"] = None)
    BY <1>3 DEF StoreInv, ControlMatchesJournal, TxnInv, PromotionIsOver, Choosing
  <2>2. Candidate = None /\ Committed = slots["stable"]
    BY <1>2, <2>1 DEF Candidate, Committed, Complete, InFlight
  <2>3. LastPhase' = "staged"  BY <1>1, <1>3 DEF IntentAt
  <2>4. Candidate' = target /\ Committed' = slots["stable"] /\ target \in Version /\ target # slots["stable"]
    BY <1>1, <2>3 DEF Committed, InFlight, AtRest, Phase
  <2> QED BY <1>2, <2>2, <2>4
<1>4. CASE pc \in {"logHandingOver", "logRunning", "logReadback"}
  <2>1. LastPhase \in {"staged", "handing-over", "running-experiment"} /\ Candidate = target
    BY <1>4 DEF StoreInv, ControlMatchesJournal, TxnInv, CandidateIsTarget, Trying
  <2>2. LastPhase' \in {"handing-over", "running-experiment", "readback"}
    BY <1>1, <1>4 DEF IntentAt
  <2>3. Candidate' = Candidate /\ Committed' = Committed
    BY <1>1, <2>1, <2>2 DEF Committed, InFlight, AtRest, Phase
  <2> QED BY <2>3
<1>5. CASE pc = "logPromoted"
  <2>1. Candidate = target /\ slots["experiment"] = target /\ target \in Version
    BY <1>5, TargetKnown DEF TxnInv, CandidateIsTarget, Trying
  <2>2. LastPhase' = "promoted"  BY <1>1, <1>5 DEF IntentAt
  <2>3. Candidate' = None /\ Committed' = target
    BY <1>1, <2>1, <2>2 DEF Committed, Complete, InFlight, AtRest
  <2> QED BY <1>2, <2>1, <2>3
<1>6. CASE pc \in {"logRolledBack", "logRolledBackOnly"}
  <2>1. LastPhase \in {"staged", "handing-over", "running-experiment", "readback"}
    BY <1>6 DEF StoreInv, ControlMatchesJournal
  <2>2. Candidate \in Version /\ Committed = slots["stable"]
    BY <2>1 DEF TxnInv, InFlight, AtRest, Phase, Committed
  <2>3. LastPhase' = "rolled-back"  BY <1>1, <1>6 DEF IntentAt
  <2>4. Candidate' = None /\ Committed' = slots["stable"]
    BY <1>1, <2>3 DEF Committed, InFlight, AtRest
  <2> QED BY <1>2, <2>2, <2>4
<1> QED BY <1>3, <1>4, <1>5, <1>6, Positions

\* A step on the slots changes nothing for a reader, but for the first adoption.
LEMMA SlotsStepIsTxn ==
  ASSUME StoreInv, TxnInv,
         \/ StagePopulate \/ StageFill \/ StagePublish \/ PromoteRetire \/ PromoteCommit
         \/ AdoptFill \/ AdoptPublish \/ Clear \/ StageReplace \/ PromoteDropOld
         \/ PromoteDropBackup
  PROVE  [Txn!TxnNext]_Txn!txnVars
<1> USE DEF StagePopulate, StageFill, StagePublish, PromoteRetire, PromoteCommit, AdoptFill,
            AdoptPublish, Clear, StageReplace, PromoteDropOld, PromoteDropBackup, Remove,
            RemoveFiles, RemoveDir, PopulateBegin, PopulateFinish, Rename
<1>1. UNCHANGED journal  BY DEF storeVars
<1>2. LastPhase' = LastPhase /\ Candidate' = Candidate
  BY <1>1, SameJournal DEF Candidate
<1>3. slots \in [Dir -> Version \cup {None, Partial}]
      /\ {"stable", "experiment", "stable.old", "experiment.staging", "stable.bootstrap"} = Dir
      /\ None \notin Version
  BY VersionAssumption DEF StoreInv, TypeOK, StoreTypeOK, Dir, Slot
<1>4. CASE AdoptPublish
  <2>1. slots["stable"] = None /\ LastPhase = "idle" /\ slots["stable.bootstrap"] \in Version
    BY <1>4 DEF TxnInv, LastPhase, StoreInv, SlotsMatchControl, Complete
  <2>2. slots'["stable"] = slots["stable.bootstrap"]  BY <1>3, <1>4
  <2>3. Candidate = None /\ Committed = None /\ Committed' \in Version
    BY <1>2, <2>1, <2>2 DEF Candidate, Committed, InFlight, AtRest
  <2> QED BY <1>2, <2>3 DEF Txn!TxnNext, Txn!Install, Txn!txnVars
<1>5. CASE PromoteCommit \/ PromoteRetire
  <2>1. LastPhase = "promoted" /\ slots["experiment"] \in Version
    BY <1>5 DEF StoreInv, ControlMatchesJournal, SlotsMatchControl, Complete
  <2>2. Committed = slots["experiment"]  BY <2>1 DEF Committed, Complete
  <2>3. Committed' = slots["experiment"]
    BY <1>2, <1>3, <1>5, <2>1 DEF Committed, Complete
  <2> QED BY <1>2, <2>2, <2>3 DEF Txn!txnVars
<1>6. CASE StagePopulate \/ StageFill \/ PromoteDropOld \/ PromoteDropBackup \/ AdoptFill
  <2>1. slots'["stable"] = slots["stable"] /\ slots'["experiment"] = slots["experiment"]
    BY <1>3, <1>6 DEF storeVars
  <2> QED BY <1>1, <2>1, SameView DEF Txn!txnVars
<1>7. CASE Clear \/ StageReplace \/ StagePublish
  <2>1. LastPhase # "promoted"
    BY <1>7 DEF StoreInv, ControlMatchesJournal, Staging
  <2>2. slots'["stable"] = slots["stable"]  BY <1>3, <1>7 DEF storeVars
  <2> QED BY <1>2, <2>1, <2>2 DEF Committed, Txn!txnVars
<1> QED BY <1>4, <1>5, <1>6, <1>7

\* The steps that show on the disk.
LEMMA StoreSteps ==
  ASSUME StoreInv, Next
  PROVE  \/ UNCHANGED <<journal, slots>>
         \/ pc \in DOMAIN IntentAt /\ AppendEntry(EntryAt(pc))
         \/ StagePopulate \/ StageFill \/ StagePublish \/ PromoteRetire \/ PromoteCommit
         \/ AdoptFill \/ AdoptPublish \/ Clear \/ StageReplace \/ PromoteDropOld
         \/ PromoteDropBackup
<1>1. CASE \/ LogRolledBack \/ LogRolledBackOnly \/ LogStaged \/ LogHandingOver
           \/ LogRunning \/ LogReadback \/ LogPromoted
  BY <1>1, Positions
     DEF LogRolledBack, LogRolledBackOnly, LogStaged, LogHandingOver, LogRunning, LogReadback,
         LogPromoted, Log, storeVars
<1>2. CASE \/ StopExperiment \/ StartStable \/ ResumeRolledBack
           \/ Quiesce \/ StopStable \/ StartExperiment \/ ResumePromoted
  BY <1>2
     DEF StopExperiment, StartStable, ResumeRolledBack, Quiesce, StopStable, StartExperiment,
         ResumePromoted, HostCall, storeVars
<1>3. CASE \/ ReadJournal \/ Fence \/ ReadVersions \/ ProbePrior \/ Probe \/ Judge
           \/ PromoteBegin \/ Adopt
  BY <1>3
     DEF ReadJournal, Fence, ReadVersions, ProbePrior, Probe, Judge, PromoteBegin, Adopt, Decide,
         storeVars
<1>4. CASE \/ BeginRecover \/ Exit \/ UserStops \/ Orphans
           \/ \E version \in Version : BeginBootstrap(version) \/ BeginUpgrade(version)
  BY <1>4
     DEF BeginRecover, Exit, UserStops, Orphans, OrphanLands, OrphanDies, BeginBootstrap,
         BeginUpgrade, storeVars
<1>5. CASE Crash \/ IoError
  BY <1>5 DEF Crash, IoError, Interrupted, AppendCutShort, storeVars
<1> QED BY <1>1, <1>2, <1>3, <1>4, <1>5
        DEF Next, WorkerStep, Recovering, Upgrading, Promoting, Bootstrapping

\* Journal, slots and every fault between their steps add up to an atomic
\* transaction: the installed version changes in one step, to the candidate, or
\* not at all (engine.rs upgrade and recover).
THEOREM EngineImplementsTxn == Spec => ImplementsTxn
<1>1. Init => Txn!TxnInit
  <2> SUFFICES ASSUME Init PROVE Txn!TxnInit  OBVIOUS
  <2>1. journal = <<>> /\ slots["stable"] \in Version \cup {None}
    BY DEF Init, StoreInit, Dir, Slot
  <2>2. LastPhase = "idle"  BY <2>1 DEF LastPhase
  <2> QED BY <2>1, <2>2 DEF Txn!TxnInit, Committed, Candidate, InFlight, AtRest
<1>2. ASSUME StoreInv, TxnInv, [Next]_vars PROVE [Txn!TxnNext]_Txn!txnVars
  <2>1. CASE UNCHANGED <<journal, slots>>  BY <2>1, SameView DEF Txn!txnVars
  <2>2. UNCHANGED vars => UNCHANGED <<journal, slots>>  BY DEF vars, storeVars
  <2> QED BY <1>2, <2>1, <2>2, StoreSteps, AppendIsTxn, SlotsStepIsTxn
<1> QED BY <1>1, <1>2, StoreInvariance, TxnInvariance, PTL DEF Spec, ImplementsTxn, Txn!TxnSpec

-----------------------------------------------------------------------------
(* The slots at rest                                                       *)

\* The positions that answer for nothing on disk.
LEMMA DiskIdle ==
  ASSUME pc' \notin {"read", "fence", "versions"} \cup Choosing \cup Promotion,
         pc' = "returned" =>
           result' \in {"failed", "uncertain"} \/ (fn' = "bootstrap" /\ result' = "ok")
  PROVE  DiskFollowsControl'
  BY DEF DiskFollowsControl, Choosing, Promotion

\* A step that touches neither a slot that may be left behind nor the last line.
LEMMA SameDisk ==
  ASSUME DiskFollowsJournal, LastPhase' = LastPhase,
         \A d \in {"experiment", "stable.old"} : slots'[d] = slots[d]
  PROVE  DiskFollowsJournal'
  BY DEF DiskFollowsJournal

\* A line is written when the slots are as it says.
LEMMA AppendDisk ==
  ASSUME DiskInv, pc \in DOMAIN IntentAt, AppendEntry(EntryAt(pc))
  PROVE  DiskFollowsJournal'
<1> USE DEF DiskInv
<1>1. LastPhase' = IntentAt[pc] /\ slots' = slots  BY AppendSeen
<1>2. pc \in {"logStaged", "logHandingOver", "logRunning", "logReadback", "logPromoted",
             "logRolledBack", "logRolledBackOnly"}
  BY Positions
<1>3. LastPhase' # "idle"  BY <1>1, <1>2 DEF IntentAt
<1>4. CASE pc = "logStaged"  BY <1>1, <1>3, <1>4 DEF DiskFollowsJournal, DiskFollowsControl, Choosing, Tidy
<1>5. CASE pc = "logPromoted"  BY <1>1, <1>3, <1>5 DEF DiskFollowsJournal, IntentAt
<1>6. CASE pc \notin {"logStaged", "logPromoted"}
  <2>1. LastPhase \in {"staged", "handing-over", "running-experiment", "readback"}
    BY <1>2, <1>6 DEF StoreInv, ControlMatchesJournal
  <2> QED BY <1>1, <1>3, <2>1 DEF DiskFollowsJournal
<1> QED BY <1>4, <1>5, <1>6

\* Appending a line keeps the slots in order.
LEMMA LogStepDisk ==
  ASSUME DiskInv,
         \/ LogRolledBack \/ LogRolledBackOnly \/ LogStaged \/ LogHandingOver
         \/ LogRunning \/ LogReadback \/ LogPromoted
  PROVE  DiskFollowsJournal' /\ DiskFollowsControl'
<1>1. pc \in DOMAIN IntentAt
  BY Positions DEF LogRolledBack, LogRolledBackOnly, LogStaged, LogHandingOver, LogRunning,
                   LogReadback, LogPromoted, Log
<1>2. JournalReadable /\ seq = NextSeq  BY <1>1, LoggedLine DEF DiskInv, StoreInv, EntryAt
<1>3. /\ AppendEntry(EntryAt(pc)) /\ target' = target
      /\ \/ pc' \in {"stopExperiment", "clear", "populate", "quiesce", "probe", "judge"}
         \/ pc = "logPromoted" /\ pc' = "promote"
  BY <1>2 DEF LogRolledBack, LogRolledBackOnly, LogStaged, LogHandingOver, LogRunning, LogReadback,
              LogPromoted, Log
<1>4. DiskFollowsJournal'  BY <1>1, <1>3, AppendDisk
<1>5. CASE pc' \in {"stopExperiment", "clear", "populate", "quiesce", "probe", "judge"}
  BY <1>4, <1>5, DiskIdle DEF Choosing, Promotion
<1>6. CASE pc = "logPromoted" /\ pc' = "promote"
  <2>1. target \in Version /\ slots["experiment"] = target
    BY <1>6, TargetKnown DEF Trying, DiskInv, TxnInv, CandidateIsTarget
  <2>2. slots' = slots  BY <1>3 DEF AppendEntry
  <2> QED BY <1>3, <1>4, <1>6, <2>1, <2>2 DEF DiskFollowsControl, Choosing
<1> QED BY <1>3, <1>5, <1>6

\* So does a call to the host.
LEMMA HostStepDisk ==
  ASSUME DiskInv,
         \/ StopExperiment \/ StartStable \/ ResumeRolledBack
         \/ Quiesce \/ StopStable \/ StartExperiment \/ ResumePromoted
  PROVE  DiskFollowsJournal' /\ DiskFollowsControl'
<1> USE DEF StopExperiment, StartStable, ResumeRolledBack, Quiesce, StopStable, StartExperiment,
            ResumePromoted, HostCall
<1>1. UNCHANGED storeVars  OBVIOUS
<1>2. LastPhase' = LastPhase /\ slots' = slots  BY <1>1, SameStore DEF DiskInv
<1>3. DiskFollowsJournal'  BY <1>2, SameDisk DEF DiskInv
<1>4. CASE \/ \E value \in {"failed", "uncertain"} : Return(value)
           \/ \E next \in {"startStable", "resumeRolledBack", "clear", "stopStable", "startExperiment",
                          "logRunning"} : Goto(next)
  BY <1>3, <1>4, DiskIdle DEF Return, Goto, Choosing, Promotion
<1>5. CASE pc = "resumePromoted" /\ Finish("promoted")
  <2>1. LastPhase = "promoted" /\ Tidy
    BY <1>5 DEF DiskInv, StoreInv, ControlMatchesJournal, DiskFollowsControl, TxnInv, PromotionIsOver,
                Tidy
  <2>2. AtRest(LastPhase)' /\ Tidy'  BY <1>2, <2>1 DEF AtRest, Tidy
  <2> QED BY <1>2, <1>3, <1>5, <2>2 DEF Finish, Return, DiskInv, DiskFollowsControl, Choosing
<1> QED BY <1>4, <1>5

\* So does a decision.
LEMMA DecideStepDisk ==
  ASSUME DiskInv,
         \/ ReadJournal \/ Fence \/ ReadVersions \/ ProbePrior \/ Probe \/ Judge
         \/ PromoteBegin \/ Adopt
  PROVE  DiskFollowsJournal' /\ DiskFollowsControl'
<1>1. UNCHANGED storeVars
  BY DEF ReadJournal, Fence, ReadVersions, ProbePrior, Probe, Judge, PromoteBegin, Adopt, Decide
<1>2. LastPhase' = LastPhase /\ slots' = slots /\ Tidy' = Tidy /\ AtRest(LastPhase)' = AtRest(LastPhase)
  BY <1>1, SameStore DEF DiskInv, Tidy, AtRest
<1>3. DiskFollowsJournal'  BY <1>2, SameDisk DEF DiskInv
<1>4. DiskFollowsControl'
  <2> USE DEF Goto, Return
  <2>1. CASE ReadJournal
    BY <2>1 DEF ReadJournal, DiskInv, DiskFollowsControl, Choosing
  <2>2. CASE Fence
    <3>1. LastPhase \in Phase  BY LastPhaseType DEF DiskInv, StoreInv, TypeOK
    <3>2. fn = "recover" /\ fn' = fn  BY <2>2, <3>1 DEF Fence, ResumeFrom, Phase, DiskInv, DiskFollowsControl
    <3>3. CASE LastPhase = "idle" /\ Return("ok")
      <4>1. Tidy /\ AtRest(LastPhase)
        BY <2>2, <3>3 DEF DiskInv, DiskFollowsJournal, AtRest, Tidy
      <4> QED BY <1>2, <3>2, <3>3, <4>1 DEF DiskFollowsControl, Choosing
    <3>4. CASE pc' = "promote"  BY <3>2, <3>4 DEF DiskFollowsControl, Choosing
    <3>5. CASE \/ pc' \in {"stopExperiment", "logRolledBackOnly", "logRolledBack"}
               \/ \E value \in {"failed", "uncertain"} : Return(value)
      BY <3>5, DiskIdle DEF Choosing, Promotion
    <3> QED BY <2>2, <3>1, <3>3, <3>4, <3>5 DEF Fence, ResumeFrom, Phase
  <2>3. CASE ReadVersions
    <3>1. AtRest(LastPhase) /\ Tidy
      BY <2>3 DEF ReadVersions, Decide, DiskInv, StoreInv, ControlMatchesJournal, DiskFollowsControl
    <3> QED BY <1>2, <2>3, <3>1 DEF ReadVersions, Decide, DiskFollowsControl, Choosing
  <2>4. CASE ProbePrior
    BY <1>2, <2>4 DEF ProbePrior, DiskInv, DiskFollowsControl, Choosing
  <2>5. CASE Probe
    BY <2>5, DiskIdle DEF Probe, Choosing, Promotion
  <2>6. CASE Judge
    BY <2>6, DiskIdle DEF Judge, Choosing, Promotion
  <2>7. CASE PromoteBegin
    <3>1. pc = "promote" /\ fn' = fn /\ target' = target  BY <2>7 DEF PromoteBegin, Decide
    <3>2. CASE pc' \in {"commit", "dropOld"}
      BY <1>2, <3>1, <3>2 DEF DiskInv, DiskFollowsControl, Choosing
    <3>3. CASE pc' = "dropBackup" /\ slots["experiment"] = None
      BY <3>1, <3>3, VersionAssumption DEF DiskInv, DiskFollowsControl, Choosing
    <3>4. CASE Return("failed")  BY <3>4, DiskIdle DEF Choosing, Promotion
    <3> QED BY <2>7, <3>2, <3>3, <3>4 DEF PromoteBegin, Decide
  <2>8. CASE Adopt
    <3>1. fn = "bootstrap"  BY <2>8 DEF Adopt, Decide, DiskInv, StoreInv, SlotsMatchControl, Adopting
    <3> QED BY <2>8, <3>1, DiskIdle DEF Adopt, Decide, Choosing, Promotion
  <2> QED BY <2>1, <2>2, <2>3, <2>4, <2>5, <2>6, <2>7, <2>8
<1> QED BY <1>3, <1>4

\* So does a step on the slots.
LEMMA SlotsStepDisk ==
  ASSUME DiskInv,
         \/ StagePopulate \/ StageFill \/ StagePublish \/ PromoteRetire \/ PromoteCommit
         \/ AdoptFill \/ AdoptPublish \/ Clear \/ StageReplace \/ PromoteDropOld
         \/ PromoteDropBackup
  PROVE  DiskFollowsJournal' /\ DiskFollowsControl'
<1> USE DEF StagePopulate, StageFill, StagePublish, PromoteRetire, PromoteCommit, AdoptFill,
            AdoptPublish, Clear, StageReplace, PromoteDropOld, PromoteDropBackup, Remove,
            RemoveFiles, RemoveDir, PopulateBegin, PopulateFinish, Rename
<1>1. LastPhase' = LastPhase
  <2>1. UNCHANGED journal  BY DEF storeVars
  <2> QED BY <2>1, SameJournal
<1>2. slots \in [Dir -> Version \cup {None, Partial}]
      /\ {"stable", "experiment", "stable.old", "experiment.staging", "stable.bootstrap"} = Dir
  BY DEF DiskInv, StoreInv, TypeOK, StoreTypeOK, Dir, Slot
<1>3. CASE StagePopulate \/ StageFill \/ AdoptFill
  <2>1. \A d \in {"experiment", "stable.old"} : slots'[d] = slots[d]  BY <1>2, <1>3
  <2>2. pc' \in {"fill", "replace", "adoptFill", "adoptPublish"}  BY <1>3 DEF Goto
  <2> QED BY <1>1, <2>1, <2>2, SameDisk, DiskIdle DEF DiskInv, Choosing, Promotion
<1>4. CASE StageReplace \/ StagePublish
  <2>1. slots'["stable.old"] = slots["stable.old"]  BY <1>2, <1>4 DEF storeVars
  <2>2. LastPhase = "staged"  BY <1>4 DEF DiskInv, StoreInv, ControlMatchesJournal, Staging
  <2>3. pc' \in {"replace", "publish", "logHandingOver"}  BY <1>4 DEF Goto
  <2> QED BY <1>1, <2>1, <2>2, <2>3, DiskIdle DEF DiskInv, DiskFollowsJournal, Choosing, Promotion
<1>5. CASE Clear
  <2>1. slots'["stable.old"] = slots["stable.old"]  BY <1>2, <1>5 DEF storeVars
  <2>2. LastPhase = "rolled-back" /\ slots["stable.old"] = None
    BY <1>5 DEF DiskInv, StoreInv, ControlMatchesJournal, DiskFollowsJournal
  <2>3. DiskFollowsJournal'  BY <1>1, <2>1, <2>2 DEF DiskFollowsJournal
  <2>4. CASE Goto("clear")  BY <2>3, <2>4, DiskIdle DEF Goto, Choosing, Promotion
  <2>5. CASE Finish("rolled-back") /\ slots'["experiment"] = None
    <3>1. AtRest(LastPhase)' /\ Tidy'  BY <1>1, <2>1, <2>2, <2>5 DEF AtRest, Tidy
    <3> QED BY <1>1, <2>2, <2>3, <2>5, <3>1 DEF Finish, Return, DiskFollowsControl, Choosing
  <2> QED BY <1>2, <1>5, <2>4, <2>5 DEF storeVars
<1>6. CASE PromoteDropOld \/ PromoteRetire \/ PromoteCommit \/ PromoteDropBackup
  <2>1. LastPhase = "promoted"  BY <1>6 DEF DiskInv, StoreInv, ControlMatchesJournal
  <2>2. DiskFollowsJournal'  BY <1>1, <2>1 DEF DiskFollowsJournal
  <2>3. CASE PromoteDropOld \/ PromoteRetire
    <3>1. slots'["experiment"] = slots["experiment"]  BY <1>2, <2>3 DEF storeVars
    <3>2. pc' \in {"dropOld", "retire", "commit"} /\ UNCHANGED <<fn, target>>  BY <2>3 DEF Goto
    <3> QED BY <2>2, <2>3, <3>1, <3>2 DEF DiskInv, DiskFollowsControl, Choosing
  <2>4. CASE PromoteCommit
    <3>1. slots'["stable"] = slots["experiment"]  BY <1>2, <2>4
    <3> QED BY <2>2, <2>4, <3>1 DEF Goto, DiskInv, DiskFollowsControl, Choosing
  <2>5. CASE PromoteDropBackup
    <3>1. /\ slots'["stable"] = slots["stable"] /\ UNCHANGED <<fn, target>>
          /\ pc' = "dropBackup" \/ (pc' = "resumePromoted" /\ slots'["stable.old"] = None)
      BY <1>2, <2>5 DEF storeVars, Goto
    <3> QED BY <2>2, <2>5, <3>1 DEF DiskInv, DiskFollowsControl, Choosing
  <2> QED BY <1>6, <2>3, <2>4, <2>5
<1>7. CASE AdoptPublish
  <2>1. \A d \in {"experiment", "stable.old"} : slots'[d] = slots[d]  BY <1>2, <1>7
  <2>2. fn = "bootstrap"  BY <1>7 DEF DiskInv, StoreInv, SlotsMatchControl, Adopting
  <2> QED BY <1>1, <1>7, <2>1, <2>2, SameDisk, DiskIdle DEF DiskInv, Return, Choosing, Promotion
<1> QED BY <1>3, <1>4, <1>5, <1>6, <1>7

\* And the steps around the worker.
LEMMA ProcessStepDisk ==
  ASSUME DiskInv,
         \/ BeginRecover \/ Exit \/ Crash \/ IoError \/ UserStops \/ Orphans
         \/ \E version \in Version : BeginBootstrap(version) \/ BeginUpgrade(version)
  PROVE  DiskFollowsJournal' /\ DiskFollowsControl'
<1>1. CASE BeginRecover \/ Exit \/ \E version \in Version : BeginBootstrap(version)
  <2>1. UNCHANGED storeVars /\ (pc' \in {"none", "adopt"} \/ (pc' = "read" /\ fn' = "recover"))
    BY <1>1 DEF BeginRecover, Exit, WorkerGone, BeginBootstrap
  <2>2. LastPhase' = LastPhase /\ slots' = slots  BY <2>1, SameStore DEF DiskInv
  <2>3. DiskFollowsControl'  BY <2>1 DEF DiskFollowsControl, Choosing
  <2> QED BY <2>2, <2>3, SameDisk DEF DiskInv
<1>2. CASE \E version \in Version : BeginUpgrade(version)
  <2>1. UNCHANGED storeVars /\ pc' = "versions" /\ Ready
    BY <1>2 DEF BeginUpgrade, Ready
  <2>2. LastPhase' = LastPhase /\ slots' = slots  BY <2>1, SameStore DEF DiskInv
  <2>3. Tidy'  BY <2>1, <2>2 DEF DiskInv, DiskFollowsControl, Ready, Tidy
  <2> QED BY <2>1, <2>2, <2>3, SameDisk DEF DiskInv, DiskFollowsControl, Choosing
<1>3. CASE Crash \/ IoError
  <2>1. pc' = "none" \/ (pc' = "returned" /\ result' = "failed")
    BY <1>3 DEF Crash, IoError, WorkerGone, Return
  <2>2. UNCHANGED <<journal, slots>> \/ (pc \in DOMAIN IntentAt /\ AppendEntry(EntryAt(pc)))
    BY <1>3 DEF Crash, IoError, Interrupted, AppendCutShort, storeVars
  <2>3. DiskFollowsJournal'
    <3>1. CASE UNCHANGED <<journal, slots>>
      BY <3>1, SameJournal, SameDisk DEF DiskInv
    <3> QED BY <2>2, <3>1, AppendDisk
  <2> QED BY <2>1, <2>3, DiskIdle DEF Choosing, Promotion
<1>4. CASE UserStops \/ Orphans
  <2>1. UNCHANGED storeVars /\ UNCHANGED workerVars
    BY <1>4 DEF UserStops, Orphans, OrphanLands, OrphanDies
  <2>2. LastPhase' = LastPhase /\ slots' = slots  BY <2>1, SameStore DEF DiskInv
  <2> QED BY <2>1, <2>2
          DEF workerVars, DiskInv, DiskFollowsJournal, DiskFollowsControl, Tidy, AtRest
<1> QED BY <1>1, <1>2, <1>3, <1>4

\* Every step keeps what is on disk consistent.
LEMMA DiskStep ==
  ASSUME DiskInv, Next
  PROVE  TxnInv' /\ DiskFollowsJournal' /\ DiskFollowsControl'
<1>1. TxnInv'
  BY LogStepTxn, HostStepTxn, DecideStepTxn, SlotsStepTxn, ProcessStepTxn
     DEF DiskInv, Next, WorkerStep, Recovering, Upgrading, Promoting, Bootstrapping
<1>2. DiskFollowsJournal' /\ DiskFollowsControl'
  BY LogStepDisk, HostStepDisk, DecideStepDisk, SlotsStepDisk, ProcessStepDisk
     DEF Next, WorkerStep, Recovering, Upgrading, Promoting, Bootstrapping
<1> QED BY <1>1, <1>2

\* An installation starts with nothing of a transaction.
LEMMA DiskInit ==
  ASSUME NEW installed, StoreInit(installed), NoWorker
  PROVE  DiskFollowsJournal /\ DiskFollowsControl
<1>1. LastPhase = "idle" /\ slots["experiment"] = None /\ slots["stable.old"] = None
  BY DEF StoreInit, LastPhase, Dir, Slot
<1> QED BY <1>1 DEF NoWorker, DiskFollowsJournal, DiskFollowsControl, Choosing

\* The slots are as the journal and the worker's position say, whatever the host does.
LEMMA DiskInvariance == Spec => []DiskInv
<1>1. Init => DiskFollowsJournal /\ DiskFollowsControl  BY DiskInit DEF Init
<1>2. DiskInv /\ [Next]_vars => DiskFollowsJournal' /\ DiskFollowsControl'
  <2>1. ASSUME DiskInv, UNCHANGED vars PROVE DiskFollowsJournal' /\ DiskFollowsControl'
    <3>1. UNCHANGED storeVars /\ UNCHANGED workerVars  BY <2>1 DEF vars
    <3>2. LastPhase' = LastPhase /\ slots' = slots  BY <2>1, <3>1, SameStore DEF DiskInv
    <3> QED BY <2>1, <3>1, <3>2
            DEF workerVars, DiskInv, DiskFollowsJournal, DiskFollowsControl, Tidy, AtRest
  <2> QED BY <2>1, DiskStep
<1> QED BY <1>1, <1>2, StoreInvariance, TxnInvariance, PTL DEF Spec, DiskInv

-----------------------------------------------------------------------------
(* A reported promotion                                                    *)

\* A worker that is gone, gave up or has not decided yet answers for no candidate.
LEMMA CandidateIdle ==
  ASSUME pc' \notin Promotion \cup {"read", "fence", "logReadback", "judge", "logPromoted"},
         ~(pc' = "returned" /\ result' = "promoted")
  PROVE  CandidateLives'
  BY DEF CandidateLives, Promotion

\* No step of a worker that takes a candidate's side finds calls outstanding.
LEMMA CandidateFenced ==
  Promotion \cup {"logReadback", "judge", "logPromoted"} \subseteq Fenced
  BY Positions DEF Promotion, Fenced, Informed, Adopting, Pc, StorePcs

\* Appending the readback and the promote intent keeps the candidate.
LEMMA LogStepCandidate ==
  ASSUME StoreInv, CandidateLives,
         \/ LogRolledBack \/ LogRolledBackOnly \/ LogStaged \/ LogHandingOver
         \/ LogRunning \/ LogReadback \/ LogPromoted
  PROVE  CandidateLives'
<1> USE DEF LogRolledBack, LogRolledBackOnly, LogStaged, LogHandingOver, LogRunning, LogReadback,
            LogPromoted, Log, Return
<1>1. live' = live /\ UNCHANGED <<prior, evidence, target>>  BY DEF hostVars
<1>2. CASE LogReadback /\ pc' = "judge"
  BY <1>1, <1>2 DEF CandidateLives, Promotion
<1>3. CASE LogPromoted /\ pc' = "promote"
  BY <1>1, <1>3 DEF CandidateLives, Promotion, IsNew
<1>4. CASE pc' \in {"stopExperiment", "clear", "populate", "quiesce", "probe"}
           \/ (pc' = "returned" /\ result' = "failed")
  BY <1>4, CandidateIdle DEF Promotion
<1> QED BY <1>2, <1>3, <1>4

\* Calls to the host: only the resume ends a promotion, and it leaves the service be.
LEMMA HostStepCandidate ==
  ASSUME StoreInv, OrphansFenced, CandidateLives,
         \/ StopExperiment \/ StartStable \/ ResumeRolledBack
         \/ Quiesce \/ StopStable \/ StartExperiment \/ ResumePromoted
  PROVE  CandidateLives'
<1> USE DEF StopExperiment, StartStable, ResumeRolledBack, Quiesce, StopStable, StartExperiment,
            ResumePromoted, HostCall
<1>1. CASE pc = "resumePromoted" /\ Takes(CallAt[pc], UsedIds) /\ Finish("promoted") /\ UNCHANGED orphans
  <2>1. live' = live  BY <1>1, WorkTakes DEF CallAt
  <2>2. orphans = {}  BY <1>1, CandidateFenced DEF OrphansFenced, Promotion
  <2>3. result' = "promoted" => fn # "recover"  BY <1>1 DEF Finish, Return
  <2> QED BY <1>1, <2>1, <2>2, <2>3 DEF Finish, Return, CandidateLives, Promotion, IsNew
<1>2. CASE \/ \E value \in {"failed", "uncertain"} : Return(value)
           \/ \E next \in {"startStable", "resumeRolledBack", "clear", "stopStable",
                            "startExperiment", "logRunning"} : Goto(next)
  BY <1>2, CandidateIdle DEF Return, Goto, Promotion
<1> QED BY <1>1, <1>2

\* Decisions: the probe finds a live process, the judgement accepts it only as a new
\* one of the target, and a recovery takes nobody's side.
LEMMA DecideStepCandidate ==
  ASSUME StoreInv, CandidateLives,
         \/ ReadJournal \/ Fence \/ ReadVersions \/ ProbePrior \/ Probe \/ Judge
         \/ PromoteBegin \/ Adopt
  PROVE  CandidateLives'
<1>1. live' = live
  BY DEF ReadJournal, Fence, ReadVersions, ProbePrior, Probe, Judge, PromoteBegin, Adopt, Decide,
         hostVars
<1> USE DEF Goto, Return
<1>2. CASE ReadJournal
  BY <1>1, <1>2, CandidateIdle DEF ReadJournal, CandidateLives, Promotion
<1>3. CASE Fence
  <2>1. LastPhase \in Phase  BY LastPhaseType DEF StoreInv, TypeOK
  <2>2. fn' = "recover"  BY <1>3, <2>1 DEF Fence, ResumeFrom, CandidateLives, Phase
  <2>3. \/ pc' \in {"promote", "stopExperiment", "logRolledBackOnly", "logRolledBack"}
        \/ pc' = "returned" /\ result' # "promoted"
    BY <1>3, <2>1 DEF Fence, ResumeFrom, Phase
  <2> QED BY <2>2, <2>3, CandidateIdle DEF CandidateLives, Promotion
<1>4. CASE ReadVersions \/ ProbePrior \/ Adopt
  BY <1>4, CandidateIdle DEF ReadVersions, ProbePrior, Adopt, Decide, Promotion
<1>5. CASE Probe
  <2>1. CASE pc' = "logReadback" /\ evidence' \in ProbeAnswers
    BY <1>1, <2>1 DEF CandidateLives, ProbeAnswers, Promotion
  <2>2. CASE pc' = "logRolledBack" \/ (pc' = "returned" /\ result' = "uncertain")
    BY <2>2, CandidateIdle DEF Promotion
  <2> QED BY <1>5, <2>1, <2>2 DEF Probe
<1>6. CASE Judge
  <2>1. CASE /\ pc' = "logPromoted" /\ evidence.id # prior /\ evidence.version = target
             /\ UNCHANGED <<prior, evidence, target>>
    BY <1>1, <1>6, <2>1 DEF Judge, CandidateLives, Promotion
  <2>2. CASE pc' = "logRolledBack" \/ (pc' = "returned" /\ result' = "uncertain")
    BY <2>2, CandidateIdle DEF Promotion
  <2> QED BY <1>6, <2>1, <2>2 DEF Judge, Verdicts
<1>7. CASE PromoteBegin
  <2>1. CASE pc = "promote" /\ pc' \in {"dropBackup", "commit", "dropOld"}
             /\ UNCHANGED <<fn, prior, target>>
    BY <1>1, <2>1 DEF CandidateLives, Promotion, IsNew
  <2>2. CASE pc' = "returned" /\ result' = "failed"
    BY <2>2, CandidateIdle DEF Promotion
  <2> QED BY <1>7, <2>1, <2>2 DEF PromoteBegin, Decide
<1> QED BY <1>2, <1>3, <1>4, <1>5, <1>6, <1>7

\* Steps on the slots: the commit renames the candidate's slot and nothing else of it.
LEMMA SlotsStepCandidate ==
  ASSUME StoreInv, CandidateLives,
         \/ StagePopulate \/ StageFill \/ StagePublish \/ PromoteRetire \/ PromoteCommit
         \/ AdoptFill \/ AdoptPublish \/ Clear \/ StageReplace \/ PromoteDropOld
         \/ PromoteDropBackup
  PROVE  CandidateLives'
<1> USE DEF StagePopulate, StageFill, StagePublish, PromoteRetire, PromoteCommit, AdoptFill,
            AdoptPublish, Clear, StageReplace, PromoteDropOld, PromoteDropBackup, Remove, Goto, Return,
            Finish
<1>1. CASE PromoteDropOld \/ PromoteRetire \/ PromoteDropBackup
  <2>1. live' = live /\ UNCHANGED <<fn, prior, target>>  BY <1>1 DEF hostVars
  <2>2. pc \in Promotion /\ pc' \in Promotion  BY <1>1 DEF Promotion
  <2> QED BY <2>1, <2>2 DEF CandidateLives, Promotion, IsNew
<1>2. CASE PromoteCommit
  <2>1. \A p \in live : /\ [p EXCEPT !.slot = "stable"].id = p.id
                        /\ [p EXCEPT !.slot = "stable"].version = p.version
    BY DEF StoreInv, TypeOK, HostTypeOK, Process
  <2>2. \A p \in live : IsNew(p) => IsNew([p EXCEPT !.slot = "stable"])  BY <2>1 DEF IsNew
  <2>3. live' = {[p EXCEPT !.slot = "stable"] : p \in live} /\ UNCHANGED <<fn, prior, target>>
        /\ pc = "commit" /\ pc' = "dropBackup"
    BY <1>2
  <2>4. \A p \in live : IsNew(p) => \E q \in live' : IsNew(q)  BY <2>2, <2>3
  <2> QED BY <2>3, <2>4 DEF CandidateLives, Promotion, IsNew
<1>3. CASE ~(PromoteDropOld \/ PromoteRetire \/ PromoteDropBackup \/ PromoteCommit)
  BY <1>3, CandidateIdle DEF Promotion
<1> QED BY <1>1, <1>2, <1>3

\* Around the worker: no late call lands while it takes a candidate's side.
LEMMA ProcessStepCandidate ==
  ASSUME StoreInv, OrphansFenced, CandidateLives,
         \/ BeginRecover \/ Exit \/ Crash \/ IoError \/ UserStops \/ Orphans
         \/ \E version \in Version : BeginBootstrap(version) \/ BeginUpgrade(version)
  PROVE  CandidateLives'
<1>1. CASE BeginRecover
  BY <1>1 DEF BeginRecover, CandidateLives, Promotion
<1>2. CASE \/ Exit \/ Crash \/ IoError
           \/ \E version \in Version : BeginBootstrap(version) \/ BeginUpgrade(version)
  BY <1>2, CandidateIdle
     DEF Exit, Crash, IoError, WorkerGone, Return, BeginBootstrap, BeginUpgrade, Promotion
<1>3. CASE UserStops
  BY <1>3, CandidateIdle DEF UserStops, workerVars, Promotion
<1>4. CASE Orphans
  <2>1. orphans # {} /\ UNCHANGED workerVars  BY <1>4 DEF Orphans, OrphanLands, OrphanDies
  <2>2. pc \notin Promotion \cup {"logReadback", "judge", "logPromoted"}
    BY <2>1, CandidateFenced DEF OrphansFenced
  <2>3. ~(pc = "returned" /\ result = "promoted")  BY <2>1 DEF CandidateLives
  <2> QED BY <2>1, <2>2, <2>3 DEF workerVars, CandidateLives
<1> QED BY <1>1, <1>2, <1>3, <1>4

\* Every step keeps it.
LEMMA CandidateStep ==
  ASSUME StoreInv, OrphansFenced, CandidateLives, Next
  PROVE  CandidateLives'
  BY LogStepCandidate, HostStepCandidate, DecideStepCandidate, SlotsStepCandidate,
     ProcessStepCandidate
     DEF Next, WorkerStep, Recovering, Upgrading, Promoting, Bootstrapping

\* What the evidence showed stays live until the promotion is reported.
LEMMA CandidateInvariance == Spec => []CandidateLives
<1>1. Init => CandidateLives
  BY DEF Init, NoWorker, CandidateLives, Promotion
<1>2. StoreInv /\ OrphansFenced /\ CandidateLives /\ [Next]_vars => CandidateLives'
  <2>1. CandidateLives /\ UNCHANGED vars => CandidateLives'
    BY DEF vars, workerVars, hostVars, CandidateLives, IsNew
  <2> QED BY <2>1, CandidateStep
<1> QED BY <1>1, <1>2, StoreInvariance, OrphansInvariance, PTL DEF Spec

\* Without any assumption on the host: an upgrade that reports promoted has found a
\* process that is not the incarnation it started from (the identity check before
\* convergence in engine.rs), and it still runs.
THEOREM PromotionIsOfNewIncarnation == Spec => []PromotedIsNewIncarnation
<1>1. CandidateLives => PromotedIsNewIncarnation
  BY DEF CandidateLives, IsNew, PromotedIsNewIncarnation
<1> QED BY <1>1, CandidateInvariance, PTL

\* With a probe that tells what the probed process runs, a promotion is reported only
\* while a live process runs the target.
THEOREM PromotionRunsTarget == ASSUME ProbeFromLiveProcess PROVE Spec => []PromotedRunsTarget
<1>1. CandidateLives => PromotedRunsTarget
  BY DEF CandidateLives, IsNew, PromotedRunsTarget
<1>2. Spec => []CandidateLives  BY CandidateInvariance
<1> QED BY <1>1, <1>2, PTL

-----------------------------------------------------------------------------
(* A reported end                                                          *)

\* What the steps are proved from.
EndInv ==
  /\ StoreInv /\ TxnInv /\ DiskFollowsJournal /\ DiskFollowsControl
  /\ OrphansFenced /\ OneIncarnation /\ CandidateLives
  /\ ServiceFollowsJournal /\ ServiceFollowsControl

\* The positions that answer for nothing restored.
LEMMA ControlIdle ==
  ASSUME pc' \notin {"versions", "probePrior", "logStaged", "logRunning", "probe", "logReadback",
                    "judge", "logPromoted", "resumeRolledBack", "clear"},
         pc' = "returned" =>
           result' \in {"failed", "uncertain"} \/ (fn' = "bootstrap" /\ result' = "ok")
  PROVE  ServiceFollowsControl'
  BY DEF ServiceFollowsControl, Choosing, Trying

\* A step that touches neither the service nor a slot it may run from.
LEMMA SameService ==
  ASSUME ServiceFollowsJournal, LastPhase' = LastPhase, UNCHANGED <<live, parked, userStopped>>,
         \A d \in {"stable", "experiment"} : slots'[d] = slots[d]
  PROVE  ServiceFollowsJournal'
  BY DEF ServiceFollowsJournal, Up

\* A line is written when the service is as it says.
LEMMA AppendService ==
  ASSUME ProbeFromLiveProcess, EndInv, pc \in DOMAIN IntentAt, AppendEntry(EntryAt(pc)),
         UNCHANGED <<live, parked, userStopped>>
  PROVE  ServiceFollowsJournal'
<1> USE DEF EndInv
<1>1. LastPhase' = IntentAt[pc] /\ slots' = slots  BY AppendSeen
<1>2. pc \in {"logStaged", "logHandingOver", "logRunning", "logReadback", "logPromoted",
             "logRolledBack", "logRolledBackOnly"}
  BY Positions
<1>3. LastPhase' # "idle" /\ (LastPhase' = "staged" => pc = "logStaged")
      /\ (LastPhase' = "promoted" => pc = "logPromoted")
  BY <1>1, <1>2 DEF IntentAt
<1>4. pc = "logStaged" => ~parked /\ Up
  BY DEF ServiceFollowsControl, Choosing
<1>5. pc = "logPromoted" =>
        live # {} /\ \A p \in live : p.slot = "experiment" /\ p.version = slots["experiment"]
  <2> SUFFICES ASSUME pc = "logPromoted"
               PROVE  live # {} /\ \A p \in live : p.slot = "experiment" /\ p.version = slots["experiment"]
    OBVIOUS
  <2>1. PICK p \in live : p.version = target  BY DEF CandidateLives
  <2>2. \A q \in live : q = p  BY DEF OneIncarnation, NeverDualRun
  <2>3. slots["experiment"] = target  BY DEF TxnInv, CandidateIsTarget, Trying
  <2>4. \A q \in live : q.slot = "experiment"  BY DEF ServiceFollowsControl, Trying
  <2> QED BY <2>1, <2>2, <2>3, <2>4
<1> QED BY <1>1, <1>3, <1>4, <1>5 DEF ServiceFollowsJournal, Up

\* A call that takes effect, of the worker or of a dead one, under the intent that
\* announced it.
LEMMA TakesService ==
  ASSUME ExclusiveHandoff, StoreInv, ServiceFollowsJournal, NEW call \in Call, NEW ids,
         LastPhase \in AnnouncedBy(call), Takes(call, ids), UNCHANGED storeVars
  PROVE  ServiceFollowsJournal'
<1>1. LastPhase' = LastPhase /\ slots' = slots  BY SameStore
<1>2. \A p \in live' : p.slot = "stable" => p.version = slots["stable"]
  <2>1. \A p \in live : p.slot = "stable" => p.version = slots["stable"]
    BY DEF ServiceFollowsJournal
  <2>2. \A p \in live' : p \in live \/ (p.slot = "stable" => p.version = slots["stable"])
    <3>1. live' \in LiveAfter(call, ids)  BY DEF Takes
    <3>2. CASE call.act = "stop"  BY <3>1, <3>2 DEF LiveAfter
    <3>3. CASE call.act = "start"
      <4>1. CASE (\E p \in live : p.slot = call.slot) \/ ~Complete(call.slot)
        BY <3>1, <3>3, <4>1 DEF LiveAfter
      <4>2. CASE ~(\E p \in live : p.slot = call.slot) /\ Complete(call.slot)
        <5>1. \/ live' = live
              \/ \E q : /\ q.slot = call.slot /\ q.version \in Reports(call.slot)
                       /\ live' = live \cup {q}
          BY <3>1, <3>3, <4>2 DEF LiveAfter
        <5>2. \A version \in Reports("stable") : version = slots["stable"]  BY DEF Reports
        <5> QED BY <5>1, <5>2
      <4> QED BY <4>1, <4>2
    <3>4. CASE call.act \notin {"stop", "start"}  BY <3>1, <3>4 DEF LiveAfter
    <3> QED BY <3>2, <3>3, <3>4
  <2> QED BY <2>1, <2>2
<1>3. LastPhase \notin {"idle", "staged"}
  BY DEF AnnouncedBy
<1>4. LastPhase = "promoted" => live' = live /\ userStopped' = userStopped
  <2> SUFFICES ASSUME LastPhase = "promoted" PROVE live' = live /\ userStopped' = userStopped
    OBVIOUS
  <2>1. call = ResumeCall
    BY DEF AnnouncedBy, Call, QuiesceCall, ResumeCall, StopCall, StartCall, Slot
  <2>2. live' = live  BY <2>1, WorkTakes
  <2>3. call.act # "start"  BY <2>1 DEF ResumeCall
  <2>4. userStopped \in BOOLEAN  BY DEF StoreInv, TypeOK, HostTypeOK
  <2> QED BY <2>2, <2>3, <2>4 DEF Takes
<1> QED BY <1>1, <1>2, <1>3, <1>4 DEF ServiceFollowsJournal, Up

\* An acknowledged start of the complete stable slot leaves the service up.
LEMMA StartStableUp ==
  ASSUME ExclusiveHandoff, NEW ids, Takes(StartCall("stable"), ids)
  PROVE  live' # {}
<1>1. live' \in LiveAfter(StartCall("stable"), ids)  BY DEF Takes
<1>2. CASE \E p \in live : p.slot = "stable"  BY <1>1, <1>2 DEF LiveAfter, StartCall
<1>3. CASE ~(\E p \in live : p.slot = "stable") /\ ~Complete("stable")
  BY <1>1, <1>3 DEF LiveAfter, StartCall
<1>4. CASE ~(\E p \in live : p.slot = "stable") /\ Complete("stable")
  <2> DEFINE Fresh == StartId \ (ids \cup {p.id : p \in live})
             After(id, version) == live \cup {[slot |-> "stable", id |-> id, version |-> version]}
             Started == {After(id, version) : id \in Fresh, version \in Reports("stable")}
  <2>1. LiveAfter(StartCall("stable"), ids) =
          Started \cup (IF "stable" = "experiment" \/ ~ExclusiveHandoff THEN {live} ELSE {})
    BY <1>4 DEF LiveAfter, StartCall
  <2>2. (IF "stable" = "experiment" \/ ~ExclusiveHandoff THEN {live} ELSE {}) = {}  OBVIOUS
  <2>3. live' \in Started
    <3> HIDE DEF Started
    <3> QED BY <1>1, <2>1, <2>2
  <2>4. \A id, version : After(id, version) # {}  OBVIOUS
  <2> HIDE DEF Fresh, After
  <2> QED BY <2>3, <2>4
<1> QED BY <1>2, <1>3, <1>4

\* Appending a line.
LEMMA LogStepEnd ==
  ASSUME ProbeFromLiveProcess, EndInv,
         \/ LogRolledBack \/ LogRolledBackOnly \/ LogStaged \/ LogHandingOver
         \/ LogRunning \/ LogReadback \/ LogPromoted
  PROVE  ServiceFollowsJournal' /\ ServiceFollowsControl'
<1>1. pc \in DOMAIN IntentAt /\ UNCHANGED <<live, parked, orphans, userStopped>>
  BY Positions
     DEF LogRolledBack, LogRolledBackOnly, LogStaged, LogHandingOver, LogRunning, LogReadback,
         LogPromoted, Log, hostVars
<1>2. JournalReadable /\ seq = NextSeq  BY <1>1, LoggedLine DEF EndInv, StoreInv, EntryAt
<1>3. /\ AppendEntry(EntryAt(pc))
      /\ \/ pc' \in {"stopExperiment", "populate", "quiesce", "promote"}
         \/ pc = "logRolledBackOnly" /\ pc' = "clear"
         \/ pc = "logRunning" /\ pc' = "probe"
         \/ pc = "logReadback" /\ pc' = "judge"
  BY <1>2 DEF LogRolledBack, LogRolledBackOnly, LogStaged, LogHandingOver, LogRunning, LogReadback,
              LogPromoted, Log
<1>4. ServiceFollowsJournal'  BY <1>1, <1>3, AppendService
<1>5. ServiceFollowsControl'
  <2>1. CASE pc' \in {"stopExperiment", "populate", "quiesce", "promote"}  BY <2>1, ControlIdle
  <2>2. CASE pc = "logRolledBackOnly" /\ pc' = "clear"
    <3>1. ~parked /\ Up
      BY <2>2 DEF EndInv, StoreInv, ControlMatchesJournal, ServiceFollowsJournal
    <3> QED BY <1>1, <2>2, <3>1 DEF ServiceFollowsControl, Up, Choosing, Trying
  <2>3. CASE (pc = "logRunning" /\ pc' = "probe") \/ (pc = "logReadback" /\ pc' = "judge")
    BY <1>1, <2>3 DEF EndInv, ServiceFollowsControl, Choosing, Trying
  <2> QED BY <1>3, <2>1, <2>2, <2>3
<1> QED BY <1>4, <1>5

\* A call to the host.
LEMMA HostStepEnd ==
  ASSUME ExclusiveHandoff, EndInv,
         \/ StopExperiment \/ StartStable \/ ResumeRolledBack
         \/ Quiesce \/ StopStable \/ StartExperiment \/ ResumePromoted
  PROVE  ServiceFollowsJournal' /\ ServiceFollowsControl'
<1> USE DEF StopExperiment, StartStable, ResumeRolledBack, Quiesce, StopStable, StartExperiment,
            ResumePromoted, HostCall
<1>1. UNCHANGED storeVars /\ pc \in DOMAIN CallAt  BY Positions
<1>2. LastPhase' = LastPhase /\ slots' = slots  BY <1>1, SameStore DEF EndInv
<1>3. orphans = {}
  BY <1>1, Positions DEF EndInv, OrphansFenced, Fenced, Informed, Pc, Adopting
<1>4. ServiceFollowsJournal'
  <2>1. CASE Takes(CallAt[pc], UsedIds)
    BY <1>1, <2>1, PositionTypes, CallAnnounced, TakesService DEF EndInv
  <2>2. CASE UNCHANGED <<live, parked, userStopped>>
    BY <1>2, <2>2, SameService DEF EndInv
  <2> QED BY <2>1, <2>2 DEF Outlives
<1>5. CASE \/ \E value \in {"failed", "uncertain"} : Return(value)
           \/ \E next \in {"startStable", "stopStable", "startExperiment"} : Goto(next)
  <2>1. ServiceFollowsControl'  BY <1>5, ControlIdle DEF Return, Goto
  <2> QED BY <1>4, <2>1
<1>6. CASE pc = "startExperiment" /\ Takes(CallAt[pc], UsedIds) /\ Goto("logRunning")
  <2>1. live = {} /\ Takes(StartCall("experiment"), UsedIds)
    BY <1>6 DEF EndInv, OneIncarnation, CallAt
  <2>2. \A p \in live' : p.slot = "experiment"  BY <2>1, StartTakes
  <2> QED BY <1>4, <1>6, <2>2 DEF ServiceFollowsControl, Goto, Choosing, Trying
<1>7. CASE pc = "startStable" /\ Takes(CallAt[pc], UsedIds) /\ Goto("resumeRolledBack")
  <2>1. live' # {}  BY <1>7, StartStableUp DEF CallAt
  <2> QED BY <1>4, <1>7, <2>1 DEF ServiceFollowsControl, Goto, Choosing, Trying
<1>8. CASE pc = "resumeRolledBack" /\ Takes(CallAt[pc], UsedIds) /\ Goto("clear")
  <2>1. live' = live /\ live # {}
    BY <1>8, WorkTakes DEF CallAt, EndInv, ServiceFollowsControl
  <2>2. ~parked'  BY <1>8 DEF Takes, CallAt, ResumeCall
  <2> QED BY <1>4, <1>8, <2>1, <2>2 DEF ServiceFollowsControl, Goto, Choosing, Trying, Up
<1>9. CASE pc = "resumePromoted" /\ Takes(CallAt[pc], UsedIds) /\ Finish("promoted") /\ UNCHANGED orphans
  <2>1. live' = live /\ userStopped' = userStopped /\ ~parked'
    <3>1. Takes(ResumeCall, UsedIds)  BY <1>9 DEF CallAt
    <3>2. userStopped \in BOOLEAN  BY DEF EndInv, StoreInv, TypeOK, HostTypeOK
    <3> QED BY <3>1, <3>2, WorkTakes DEF Takes, ResumeCall
  <2>2. LastPhase = "promoted"  BY <1>9 DEF EndInv, StoreInv, ControlMatchesJournal
  <2>3. Up  BY <2>2 DEF EndInv, ServiceFollowsJournal
  <2>4. slots["stable.old"] = None /\ slots["experiment"] = None
    BY <1>9 DEF EndInv, DiskFollowsControl, TxnInv, PromotionIsOver
  <2>5. NoExperiment  BY <1>9 DEF EndInv, OneIncarnation, StableOnly
  <2>6. Settled' /\ NoExperiment'
    BY <1>2, <1>3, <1>9, <2>1, <2>2, <2>3, <2>4, <2>5 DEF Settled, AtRest, Up, NoExperiment
  <2> QED BY <1>4, <1>9, <2>6 DEF ServiceFollowsControl, Finish, Return, Choosing, Trying
<1>10. CASE pc = "stopExperiment" /\ Takes(CallAt[pc], UsedIds) /\ Goto("startStable")
  BY <1>5, <1>10
<1> QED BY <1>5, <1>6, <1>7, <1>8, <1>9, <1>10

\* A decision.
LEMMA DecideStepEnd ==
  ASSUME EndInv,
         \/ ReadJournal \/ Fence \/ ReadVersions \/ ProbePrior \/ Probe \/ Judge
         \/ PromoteBegin \/ Adopt
  PROVE  ServiceFollowsJournal' /\ ServiceFollowsControl'
<1>1. UNCHANGED storeVars /\ UNCHANGED <<live, parked, orphans, userStopped>>
  BY DEF ReadJournal, Fence, ReadVersions, ProbePrior, Probe, Judge, PromoteBegin, Adopt, Decide,
         hostVars
<1>2. LastPhase' = LastPhase /\ slots' = slots  BY <1>1, SameStore DEF EndInv
<1>3. ServiceFollowsJournal'  BY <1>1, <1>2, SameService DEF EndInv
<1>4. /\ Settled' = Settled /\ NoExperiment' = NoExperiment
      /\ Up' = Up
  BY <1>1, <1>2 DEF Settled, NoExperiment, Up, AtRest
<1>5. ServiceFollowsControl'
  <2> USE DEF Goto, Return
  <2>1. CASE ReadJournal
    BY <2>1, ControlIdle DEF ReadJournal
  <2>2. CASE Fence
    <3>1. LastPhase \in Phase  BY LastPhaseType DEF EndInv, StoreInv, TypeOK
    <3>2. CASE LastPhase = "idle" /\ orphans = {} /\ Return("ok")
      <4>1. Settled /\ NoExperiment
        BY <3>2 DEF Settled, AtRest, Up, EndInv, DiskFollowsJournal, ServiceFollowsJournal, OneIncarnation
      <4> QED BY <1>4, <3>2, <4>1 DEF ServiceFollowsControl, Choosing, Trying
    <3>3. CASE \/ pc' \in {"promote", "stopExperiment", "logRolledBackOnly", "logRolledBack"}
               \/ \E value \in {"failed", "uncertain"} : Return(value)
      BY <3>3, ControlIdle
    <3> QED BY <2>2, <3>1, <3>2, <3>3 DEF Fence, ResumeFrom, Phase
  <2>3. CASE ReadVersions
    <3>1. AtRest(LastPhase) /\ Tidy /\ ~parked /\ Up /\ NoExperiment /\ orphans = {}
      BY <2>3 DEF ReadVersions, Decide, EndInv, StoreInv, ControlMatchesJournal,
                  DiskFollowsControl, ServiceFollowsControl, OneIncarnation, StableOnly, OrphansFenced, Fenced, Informed,
                  Adopting, Pc, StorePcs
    <3>2. Settled  BY <3>1 DEF Settled, Tidy, Up
    <3> QED BY <1>1, <1>4, <2>3, <3>1, <3>2
            DEF ReadVersions, Decide, ServiceFollowsControl, Choosing, Trying
  <2>4. CASE ProbePrior
    BY <1>1, <1>4, <2>4 DEF ProbePrior, EndInv, ServiceFollowsControl, Choosing, Trying
  <2>5. CASE Probe
    BY <1>1, <2>5, ControlIdle DEF Probe, EndInv, ServiceFollowsControl, Choosing, Trying
  <2>6. CASE Judge
    BY <1>1, <2>6, ControlIdle DEF Judge, EndInv, ServiceFollowsControl, Choosing, Trying
  <2>7. CASE PromoteBegin
    BY <2>7, ControlIdle DEF PromoteBegin, Decide
  <2>8. CASE Adopt
    <3>1. fn = "bootstrap"  BY <2>8 DEF Adopt, Decide, EndInv, StoreInv, SlotsMatchControl, Adopting
    <3> QED BY <2>8, <3>1, ControlIdle DEF Adopt, Decide
  <2> QED BY <2>1, <2>2, <2>3, <2>4, <2>5, <2>6, <2>7, <2>8
<1> QED BY <1>3, <1>5

\* A step on the slots: what runs keeps a slot of its version.
LEMMA SlotsStepEnd ==
  ASSUME EndInv,
         \/ StagePopulate \/ StageFill \/ StagePublish \/ PromoteRetire \/ PromoteCommit
         \/ AdoptFill \/ AdoptPublish \/ Clear \/ StageReplace \/ PromoteDropOld
         \/ PromoteDropBackup
  PROVE  ServiceFollowsJournal' /\ ServiceFollowsControl'
<1> USE DEF StagePopulate, StageFill, StagePublish, PromoteRetire, PromoteCommit, AdoptFill,
            AdoptPublish, Clear, StageReplace, PromoteDropOld, PromoteDropBackup, Remove,
            RemoveFiles, RemoveDir, PopulateBegin, PopulateFinish, Rename
<1>1. UNCHANGED journal /\ UNCHANGED <<parked, orphans, userStopped>>
  BY DEF storeVars, hostVars
<1>2. LastPhase' = LastPhase  BY <1>1, SameJournal
<1>3. slots \in [Dir -> Version \cup {None, Partial}]
      /\ {"stable", "experiment", "stable.old", "experiment.staging", "stable.bootstrap"} = Dir
      /\ live \subseteq Process
  BY DEF EndInv, StoreInv, TypeOK, StoreTypeOK, HostTypeOK, Dir, Slot
<1>4. CASE StagePopulate \/ StageFill \/ AdoptFill
  <2>1. live' = live /\ \A d \in {"stable", "experiment"} : slots'[d] = slots[d]
    BY <1>3, <1>4 DEF hostVars
  <2>2. pc' \in {"fill", "replace", "adoptFill", "adoptPublish"}  BY <1>4 DEF Goto
  <2> QED BY <1>1, <1>2, <2>1, <2>2, SameService, ControlIdle DEF EndInv
<1>5. CASE StageReplace \/ StagePublish
  <2>1. live' = live /\ slots'["stable"] = slots["stable"]
    BY <1>3, <1>5 DEF hostVars, storeVars
  <2>2. LastPhase = "staged"  BY <1>5 DEF EndInv, StoreInv, ControlMatchesJournal, Staging
  <2>3. pc' \in {"replace", "publish", "logHandingOver"}  BY <1>5 DEF Goto
  <2> QED BY <1>1, <1>2, <2>1, <2>2, <2>3, ControlIdle DEF EndInv, ServiceFollowsJournal, Up
<1>6. CASE Clear
  <2>1. live' = live /\ \A d \in {"stable", "stable.old"} : slots'[d] = slots[d]
    BY <1>3, <1>6 DEF hostVars, storeVars
  <2>2. LastPhase = "rolled-back"  BY <1>6 DEF EndInv, StoreInv, ControlMatchesJournal
  <2>3. ServiceFollowsJournal'
    BY <1>1, <1>2, <2>1, <2>2 DEF EndInv, ServiceFollowsJournal, Up
  <2>4. ~parked /\ Up /\ slots["stable.old"] = None /\ orphans = {} /\ NoExperiment
    BY <1>6, <2>2 DEF EndInv, ServiceFollowsControl, DiskFollowsJournal, OrphansFenced, Fenced,
                      Informed, Adopting, Pc, StorePcs, OneIncarnation, StableOnly
  <2>5. CASE Goto("clear")
    BY <1>1, <2>1, <2>3, <2>4, <2>5 DEF Goto, ServiceFollowsControl, Up, Choosing, Trying
  <2>6. CASE Finish("rolled-back") /\ slots'["experiment"] = None
    <3>1. Settled' /\ NoExperiment'
      BY <1>1, <1>2, <2>1, <2>2, <2>4, <2>6 DEF Settled, AtRest, Up, NoExperiment
    <3> QED BY <1>2, <2>2, <2>3, <2>6, <3>1
            DEF Finish, Return, ServiceFollowsControl, Choosing, Trying
  <2> QED BY <1>3, <1>6, <2>5, <2>6 DEF storeVars
<1>7. CASE PromoteDropOld \/ PromoteDropBackup
  <2>1. live' = live /\ \A d \in {"stable", "experiment"} : slots'[d] = slots[d]
    BY <1>3, <1>7 DEF hostVars, storeVars
  <2>2. LastPhase = "promoted"  BY <1>7 DEF EndInv, StoreInv, ControlMatchesJournal
  <2>3. ServiceFollowsJournal'
    BY <1>1, <1>2, <2>1, <2>2 DEF EndInv, ServiceFollowsJournal, Up
  <2>4. pc' \in {"dropOld", "retire", "dropBackup", "resumePromoted"}  BY <1>7 DEF Goto
  <2> QED BY <2>3, <2>4, ControlIdle
<1>8. CASE PromoteRetire \/ PromoteCommit
  <2>1. LastPhase = "promoted" /\ slots["experiment"] \in Version
    BY <1>8 DEF EndInv, StoreInv, ControlMatchesJournal, SlotsMatchControl, Complete
  <2>2. \A p \in live : p.slot = "experiment" /\ p.version = slots["experiment"]
    BY <2>1, VersionAssumption DEF EndInv, ServiceFollowsJournal
  <2>3. pc' \in {"commit", "dropBackup"}  BY <1>8 DEF Goto
  <2>4. ServiceFollowsJournal'
    <3>1. CASE PromoteRetire
      <4>1. live' = live /\ slots'["experiment"] = slots["experiment"]
        BY <1>3, <3>1 DEF hostVars
      <4> QED BY <1>1, <1>2, <2>1, <2>2, <4>1 DEF EndInv, ServiceFollowsJournal, Up
    <3>2. CASE PromoteCommit
      <4>1. slots'["stable"] = slots["experiment"] /\ slots'["experiment"] = None
        BY <1>3, <3>2
      <4>2. live' = {[p EXCEPT !.slot = "stable"] : p \in live}  BY <3>2
      <4>3. \A p \in live : [p EXCEPT !.slot = "stable"].version = slots["experiment"]
        BY <1>3, <2>2 DEF Process
      <4>4. live # {} => live' # {}  BY <4>2
      <4> QED BY <1>1, <1>2, <2>1, <4>1, <4>2, <4>3, <4>4 DEF EndInv, ServiceFollowsJournal, Up
    <3> QED BY <1>8, <3>1, <3>2
  <2> QED BY <2>3, <2>4, ControlIdle
<1>9. CASE AdoptPublish
  <2>1. live' = live /\ slots'["experiment"] = slots["experiment"]
    BY <1>3, <1>9 DEF hostVars
  <2>2. slots["stable"] = None /\ fn = "bootstrap"
    BY <1>9 DEF EndInv, TxnInv, StoreInv, SlotsMatchControl, Adopting
  <2>3. \A p \in live : p.slot # "stable"
    BY <1>3, <2>2, VersionAssumption DEF EndInv, ServiceFollowsJournal, Process
  <2>4. ServiceFollowsJournal'
    BY <1>1, <1>2, <2>1, <2>3 DEF EndInv, ServiceFollowsJournal, Up
  <2> QED BY <1>9, <2>2, <2>4, ControlIdle DEF Return
<1> QED BY <1>4, <1>5, <1>6, <1>7, <1>8, <1>9

\* The steps around the worker.
LEMMA ProcessStepEnd ==
  ASSUME ExclusiveHandoff, ProbeFromLiveProcess, EndInv,
         \/ BeginRecover \/ Exit \/ Crash \/ IoError \/ UserStops \/ Orphans
         \/ \E version \in Version : BeginBootstrap(version) \/ BeginUpgrade(version)
  PROVE  ServiceFollowsJournal' /\ ServiceFollowsControl'
<1>1. CASE BeginRecover \/ Exit \/ \E version \in Version : BeginBootstrap(version)
  <2>1. UNCHANGED storeVars /\ UNCHANGED <<live, parked, userStopped>>
        /\ pc' \in {"read", "none", "adopt"}
    BY <1>1 DEF BeginRecover, Exit, WorkerGone, BeginBootstrap, hostVars
  <2>2. LastPhase' = LastPhase /\ slots' = slots  BY <2>1, SameStore DEF EndInv
  <2> QED BY <2>1, <2>2, SameService, ControlIdle DEF EndInv
<1>2. CASE \E version \in Version : BeginUpgrade(version)
  <2>1. UNCHANGED storeVars /\ UNCHANGED <<live, parked, userStopped>> /\ pc' = "versions" /\ Ready
    BY <1>2 DEF BeginUpgrade, hostVars, Ready
  <2>2. LastPhase' = LastPhase /\ slots' = slots  BY <2>1, SameStore DEF EndInv
  <2>3. ~parked' /\ Up'  BY <2>1 DEF EndInv, ServiceFollowsControl, Ready, Settled, Up
  <2> QED BY <2>1, <2>2, <2>3, SameService DEF EndInv, ServiceFollowsControl, Choosing, Trying
<1>3. CASE Crash \/ IoError
  <2>1. pc' = "none" \/ (pc' = "returned" /\ result' = "failed")
    BY <1>3 DEF Crash, IoError, WorkerGone, Return
  <2>2. UNCHANGED <<live, parked, userStopped>>
        /\ (UNCHANGED <<journal, slots>> \/ (pc \in DOMAIN IntentAt /\ AppendEntry(EntryAt(pc))))
    BY <1>3 DEF Crash, IoError, Interrupted, Outlives, AppendCutShort, storeVars, hostVars
  <2>3. ServiceFollowsJournal'
    <3>1. CASE UNCHANGED <<journal, slots>>
      BY <2>2, <3>1, SameJournal, SameService DEF EndInv
    <3> QED BY <2>2, <3>1, AppendService
  <2> QED BY <2>1, <2>3, ControlIdle
<1>4. CASE UserStops
  <2>1. UNCHANGED storeVars /\ live' = {} /\ userStopped' /\ ~parked' /\ pc' = "none"
    BY <1>4 DEF UserStops, workerVars
  <2>2. LastPhase' = LastPhase /\ slots' = slots  BY <2>1, SameStore DEF EndInv
  <2> QED BY <2>1, <2>2, ControlIdle DEF EndInv, ServiceFollowsJournal, Up
<1>5. CASE Orphans
  <2>1. UNCHANGED storeVars /\ UNCHANGED workerVars /\ orphans # {}
    BY <1>5 DEF Orphans, OrphanLands, OrphanDies
  <2>2. LastPhase' = LastPhase /\ slots' = slots  BY <2>1, SameStore DEF EndInv
  <2>3. ServiceFollowsJournal'
    <3>1. CASE OrphanDies  BY <2>2, <3>1, SameService DEF OrphanDies, EndInv
    <3>2. CASE OrphanLands
      <4>1. PICK call \in orphans : Takes(call, {})  BY <3>2 DEF OrphanLands
      <4>2. call \in Call /\ LastPhase \in AnnouncedBy(call)
        BY <4>1 DEF EndInv, StoreInv, TypeOK, HostTypeOK, OrphansFenced
      <4> QED BY <2>1, <4>1, <4>2, TakesService DEF EndInv
    <3> QED BY <1>5, <3>1, <3>2 DEF Orphans
  <2>4. pc \notin Fenced /\ ~Settled  BY <2>1 DEF EndInv, OrphansFenced, Settled
  <2>5. {"versions", "probePrior", "logStaged", "resumeRolledBack", "clear"}
          \cup Trying \subseteq Fenced
    BY Positions DEF Fenced, Informed, Adopting, Pc, StorePcs, Trying
  <2>6. ServiceFollowsControl'
    BY <2>1, <2>2, <2>4, <2>5 DEF workerVars, EndInv, ServiceFollowsControl, Choosing
  <2> QED BY <2>3, <2>6
<1> QED BY <1>1, <1>2, <1>3, <1>4, <1>5

\* Every step keeps both.
LEMMA EndStep ==
  ASSUME ExclusiveHandoff, ProbeFromLiveProcess, EndInv, Next
  PROVE  ServiceFollowsJournal' /\ ServiceFollowsControl'
  BY LogStepEnd, HostStepEnd, DecideStepEnd, SlotsStepEnd, ProcessStepEnd
     DEF Next, WorkerStep, Recovering, Upgrading, Promoting, Bootstrapping

\* Under the host assumptions the service is as the journal and the worker's position
\* say.
LEMMA EndInvariance ==
  ASSUME ExclusiveHandoff, ProbeFromLiveProcess
  PROVE  Spec => [](ServiceFollowsJournal /\ ServiceFollowsControl)
<1>1. Init => ServiceFollowsJournal /\ ServiceFollowsControl
  <2> SUFFICES ASSUME Init PROVE ServiceFollowsJournal /\ ServiceFollowsControl  OBVIOUS
  <2>1. PICK installed \in Version \cup {None} : StoreInit(installed) /\ HostInit(installed)
    BY DEF Init
  <2>2. LastPhase = "idle" /\ slots["experiment"] = None /\ slots["stable"] = installed
    BY <2>1 DEF StoreInit, LastPhase, Dir, Slot
  <2>3. ~parked /\ Up /\ \A p \in live : p.version = installed
    <3>1. CASE \E id \in StartId : live = {[slot |-> "stable", id |-> id, version |-> installed]}
      BY <2>1, <3>1 DEF HostInit, Up
    <3>2. CASE live = {} /\ userStopped = TRUE  BY <2>1, <3>2 DEF HostInit, Up
    <3> QED BY <2>1, <3>1, <3>2 DEF HostInit
  <2> QED BY <2>2, <2>3 DEF Init, NoWorker, ServiceFollowsJournal, ServiceFollowsControl, Choosing, Trying
<1>2. EndInv /\ [Next]_vars => ServiceFollowsJournal' /\ ServiceFollowsControl'
  <2>1. ASSUME EndInv, UNCHANGED vars PROVE ServiceFollowsJournal' /\ ServiceFollowsControl'
    <3>1. UNCHANGED storeVars /\ UNCHANGED hostVars /\ UNCHANGED workerVars  BY <2>1 DEF vars
    <3>2. LastPhase' = LastPhase /\ slots' = slots  BY <2>1, <3>1, SameStore DEF EndInv
    <3> QED BY <2>1, <3>1, <3>2
            DEF hostVars, workerVars, EndInv, ServiceFollowsJournal, ServiceFollowsControl, Up,
                Settled, AtRest, NoExperiment
  <2> QED BY <2>1, EndStep
<1>3. Spec => []OneIncarnation  BY LiveInvariance
<1> QED BY <1>1, <1>2, <1>3, DiskInvariance, OrphansInvariance, CandidateInvariance,
           PTL DEF Spec, EndInv, DiskInv

\* k.terminal-leaves-no-experiment: under the host assumptions, whatever crashes, faults
\* and late calls came before, an end that recover or upgrade reports is one: one
\* version on disk, nothing parked or outstanding, and the service up on it.
THEOREM EndsAreTerminal ==
  ASSUME ExclusiveHandoff, ProbeFromLiveProcess PROVE Spec => []TerminalState
<1>1. ServiceFollowsJournal /\ ServiceFollowsControl => TerminalState
  BY DEF ServiceFollowsJournal, ServiceFollowsControl, TerminalState, Settled, NoExperiment
<1>2. Spec => [](ServiceFollowsJournal /\ ServiceFollowsControl)  BY EndInvariance
<1> QED BY <1>1, <1>2, PTL
=============================================================================
