---------------------------- MODULE EngineProofs ----------------------------
(***************************************************************************)
(* Proofs about the upgrade engine, for every set of versions and start    *)
(* ids and every bound on faults and on the journal.                       *)
(***************************************************************************)
EXTENDS Engine, TLAPS

USE VersionAssumption, HostAssumptions, BoundAssumption

-----------------------------------------------------------------------------
(* Types                                                                   *)

\* The positions that append to the journal, and those that call the host.
LEMMA Positions ==
  /\ DOMAIN IntentAt = {"logStaged", "logHandingOver", "logRunning", "logReadback",
                        "logPromoted", "logRolledBack", "logRolledBackOnly"}
  /\ DOMAIN CallAt = {"quiesce", "stopStable", "startExperiment", "stopExperiment",
                      "startStable", "resumeRolledBack", "resumePromoted"}
  BY DEF IntentAt, CallAt

\* A log position writes a phase, a call position makes a call.
LEMMA PositionTypes ==
  /\ \A at \in DOMAIN IntentAt : IntentAt[at] \in Phase
  /\ \A at \in DOMAIN CallAt : CallAt[at] \in Call
  BY DEF IntentAt, CallAt, Phase, Call, QuiesceCall, ResumeCall, StopCall, StartCall, Slot, None

\* The last line is a line.
LEMMA LastEntry ==
  ASSUME StoreTypeOK, journal # <<>>
  PROVE  Len(journal) \in 1..Len(journal) /\ journal[Len(journal)] \in Entry
<1>1. Len(journal) \in 1..Len(journal)  BY DEF StoreTypeOK
<1> QED BY <1>1 DEF StoreTypeOK

\* The next sequence number is a number.
LEMMA NextSeqType == StoreTypeOK => NextSeq \in Nat
<1> SUFFICES ASSUME StoreTypeOK, journal # <<>> PROVE NextSeq \in Nat  BY DEF NextSeq
<1>1. journal[Len(journal)].seq \in Nat  BY LastEntry DEF Entry
<1> QED BY <1>1 DEF NextSeq

\* What a log position writes is a journal line.
LEMMA EntryType ==
  ASSUME TypeOK, NEW at \in DOMAIN IntentAt
  PROVE  EntryAt(at) \in Entry
  BY PositionTypes DEF TypeOK, EntryAt, Entry

\* An append, whole or cut short, keeps the store's types.
LEMMA AppendType ==
  ASSUME StoreTypeOK, NEW e \in Entry, AppendEntry(e) \/ AppendCutShort(e)
  PROVE  StoreTypeOK'
<1>1. Append(journal, e) \in Seq(Entry)  BY DEF StoreTypeOK
<1>2. journal' \in Seq(Entry)  BY <1>1 DEF StoreTypeOK, AppendEntry, AppendCutShort, storeVars
<1>3. torn' \in BOOLEAN  BY DEF StoreTypeOK, AppendEntry, AppendCutShort, storeVars
<1>4. UNCHANGED slots  BY DEF AppendEntry, AppendCutShort, storeVars
<1> QED BY <1>2, <1>3, <1>4 DEF StoreTypeOK

\* What the effect of a call leaves live.
LEMMA LiveType ==
  ASSUME TypeOK, NEW c \in Call, NEW ids, NEW after \in LiveAfter(c, ids)
  PROVE  after \subseteq Process
  BY DEF TypeOK, HostTypeOK, StoreTypeOK, LiveAfter, Call, Process, Reports, Complete, Slot, Dir

\* A call that takes effect keeps the host's types.
LEMMA TakesType ==
  ASSUME TypeOK, NEW c \in Call, NEW ids, Takes(c, ids), orphans' \subseteq Call
  PROVE  HostTypeOK'
<1>1. live' \subseteq Process  BY LiveType DEF Takes
<1>2. parked' \in BOOLEAN  BY DEF Takes, TypeOK, HostTypeOK
<1>3. userStopped' \in BOOLEAN  BY DEF Takes, TypeOK, HostTypeOK
<1> QED BY <1>1, <1>2, <1>3 DEF HostTypeOK

\* The worker's own part of TypeOK.
WorkerTypeOK ==
  /\ pc \in Pc /\ fn \in Function /\ seq \in Nat
  /\ target \in Version \cup {None} /\ prior \in StartId \cup {None}
  /\ evidence \in Evidence \cup {NoEvidence} /\ result \in Result \cup {None}

\* The types of the store, the host and the worker are TypeOK.
LEMMA TypeParts == TypeOK <=> StoreTypeOK /\ HostTypeOK /\ WorkerTypeOK /\ faults \in 0..MaxFaults
  BY DEF TypeOK, WorkerTypeOK

\* Moving on to a position keeps the worker's types.
LEMMA GotoType ==
  ASSUME WorkerTypeOK, NEW next \in Pc, Goto(next)
  PROVE  WorkerTypeOK'
  BY DEF WorkerTypeOK, Goto

\* Returning a result keeps the worker's types.
LEMMA ReturnType ==
  ASSUME WorkerTypeOK, NEW value \in Result, Return(value)
  PROVE  WorkerTypeOK'
  BY DEF WorkerTypeOK, Return, Pc

\* A worker that is gone is in its initial state.
LEMMA GoneType ==
  ASSUME WorkerTypeOK, WorkerGone
  PROVE  WorkerTypeOK'
  BY DEF WorkerTypeOK, WorkerGone, Pc, Function

\* Faults are counted up to their bound.
LEMMA FaultType ==
  ASSUME faults \in 0..MaxFaults, Fault \/ UNCHANGED faults
  PROVE  faults' \in 0..MaxFaults
  BY DEF Fault

\* A journal append keeps the types.
LEMMA LogType ==
  ASSUME TypeOK, NEW at \in DOMAIN IntentAt, NEW next \in Pc, Log(at, next)
  PROVE  TypeOK'
<1>1. CASE AppendEntry(EntryAt(at)) /\ seq' = seq + 1 /\ pc' = next
           /\ UNCHANGED <<fn, target, prior, evidence, result>>
  <2>1. StoreTypeOK'  BY <1>1, EntryType, AppendType, TypeParts
  <2>2. WorkerTypeOK'  BY <1>1, TypeParts DEF WorkerTypeOK
  <2>3. HostTypeOK' /\ faults' \in 0..MaxFaults  BY TypeParts DEF Log, HostTypeOK, hostVars
  <2> QED BY <2>1, <2>2, <2>3, TypeParts DEF TypeOK, WorkerTypeOK
<1>2. CASE Return("failed") /\ UNCHANGED storeVars
  <2>1. StoreTypeOK'  BY <1>2, TypeParts DEF StoreTypeOK, storeVars
  <2>2. WorkerTypeOK'  BY <1>2, TypeParts, ReturnType DEF Result
  <2>3. HostTypeOK' /\ faults' \in 0..MaxFaults  BY TypeParts DEF Log, HostTypeOK, hostVars
  <2> QED BY <2>1, <2>2, <2>3 DEF TypeOK, WorkerTypeOK
<1> QED BY <1>1, <1>2 DEF Log

\* A host call whose continuation keeps the worker's types.
LEMMA HostCallType ==
  ASSUME TypeOK, NEW at \in DOMAIN CallAt, NEW ACTION Then, Then => WorkerTypeOK', HostCall(at, Then)
  PROVE  TypeOK'
<1>1. StoreTypeOK'  BY TypeParts DEF HostCall, StoreTypeOK, storeVars
<1>2. HostTypeOK'
  <2>1. CASE Takes(CallAt[at], UsedIds) /\ UNCHANGED orphans
    BY <2>1, PositionTypes, TakesType, TypeParts DEF HostTypeOK
  <2>2. CASE UNCHANGED <<live, parked, userStopped, orphans>>
    BY <2>2, TypeParts DEF HostTypeOK
  <2>3. CASE Outlives(CallAt[at])
    BY <2>3, PositionTypes, TypeParts DEF HostTypeOK, Outlives
  <2> QED BY <2>1, <2>2, <2>3 DEF HostCall
<1>3. WorkerTypeOK'
  BY ReturnType, TypeParts DEF HostCall, Result
<1>4. faults' \in 0..MaxFaults
  BY FaultType, TypeParts DEF HostCall
<1> QED BY <1>1, <1>2, <1>3, <1>4 DEF TypeOK, WorkerTypeOK

\* The same of every append the engine makes.
LEMMA LogStepType ==
  ASSUME TypeOK,
         \/ LogRolledBack \/ LogRolledBackOnly \/ LogStaged \/ LogHandingOver
         \/ LogRunning \/ LogReadback \/ LogPromoted
  PROVE  TypeOK'
  BY LogType, Positions
     DEF LogRolledBack, LogRolledBackOnly, LogStaged, LogHandingOver, LogRunning,
         LogReadback, LogPromoted, Pc, StorePcs

\* The same of every call the engine makes to the host.
LEMMA HostStepType ==
  ASSUME TypeOK,
         \/ StopExperiment \/ StartStable \/ ResumeRolledBack
         \/ Quiesce \/ StopStable \/ StartExperiment \/ ResumePromoted
  PROVE  TypeOK'
<1> USE Positions
<1>0. \A next \in Pc : Goto(next) => WorkerTypeOK'  BY GotoType, TypeParts
<1>1. CASE StopExperiment
  <2>1. Goto("startStable") => WorkerTypeOK'  BY <1>0 DEF Pc, StorePcs
  <2>2. HostCall("stopExperiment", Goto("startStable"))  BY <1>1 DEF StopExperiment
  <2> QED BY <2>1, <2>2, HostCallType
<1>2. CASE StartStable
  <2>1. Goto("resumeRolledBack") => WorkerTypeOK'  BY <1>0 DEF Pc, StorePcs
  <2>2. HostCall("startStable", Goto("resumeRolledBack"))  BY <1>2 DEF StartStable
  <2> QED BY <2>1, <2>2, HostCallType
<1>3. CASE ResumeRolledBack
  <2>1. Goto("clear") => WorkerTypeOK'  BY <1>0 DEF Pc, StorePcs
  <2>2. HostCall("resumeRolledBack", Goto("clear"))  BY <1>3 DEF ResumeRolledBack
  <2> QED BY <2>1, <2>2, HostCallType
<1>4. CASE Quiesce
  <2>1. Goto("stopStable") => WorkerTypeOK'  BY <1>0 DEF Pc, StorePcs
  <2>2. HostCall("quiesce", Goto("stopStable"))  BY <1>4 DEF Quiesce
  <2> QED BY <2>1, <2>2, HostCallType
<1>5. CASE StopStable
  <2>1. Goto("startExperiment") => WorkerTypeOK'  BY <1>0 DEF Pc, StorePcs
  <2>2. HostCall("stopStable", Goto("startExperiment"))  BY <1>5 DEF StopStable
  <2> QED BY <2>1, <2>2, HostCallType
<1>6. CASE StartExperiment
  <2>1. Goto("logRunning") => WorkerTypeOK'  BY <1>0 DEF Pc, StorePcs
  <2>2. HostCall("startExperiment", Goto("logRunning"))  BY <1>6 DEF StartExperiment
  <2> QED BY <2>1, <2>2, HostCallType
<1>7. CASE ResumePromoted
  <2>1. Finish("promoted") => WorkerTypeOK'  BY ReturnType, TypeParts DEF Finish, Result
  <2>2. HostCall("resumePromoted", Finish("promoted"))  BY <1>7 DEF ResumePromoted
  <2> QED BY <2>1, <2>2, HostCallType
<1> QED BY <1>1, <1>2, <1>3, <1>4, <1>5, <1>6, <1>7

\* Steps on the slot directories and the steps that only decide.
LEMMA SlotsType ==
  ASSUME StoreTypeOK, NEW d \in Dir, NEW e \in Dir,
         NEW version \in Version \cup {None},
         \/ RemoveFiles(d) \/ RemoveDir(d) \/ PopulateBegin(d)
         \/ PopulateFinish(d, version) \/ Rename(d, e) \/ UNCHANGED storeVars
  PROVE  StoreTypeOK'
  BY DEF StoreTypeOK, RemoveFiles, RemoveDir, PopulateBegin, PopulateFinish, Rename, storeVars

\* Removing a directory keeps the store's types.
LEMMA RemoveType ==
  ASSUME TypeOK, NEW at \in Pc, NEW d \in Dir, NEW ACTION Then, Then => WorkerTypeOK',
         Remove(at, d, Then)
  PROVE  TypeOK'
<1>1. StoreTypeOK'  BY SlotsType, TypeParts DEF Remove
<1>2. WorkerTypeOK'  BY GotoType, TypeParts DEF Remove
<1>3. HostTypeOK' /\ faults' \in 0..MaxFaults  BY TypeParts DEF Remove, HostTypeOK, hostVars
<1> QED BY <1>1, <1>2, <1>3 DEF TypeOK, WorkerTypeOK

\* The same of every directory the engine removes.
LEMMA RemoveStepType ==
  ASSUME TypeOK, Clear \/ StageReplace \/ PromoteDropOld \/ PromoteDropBackup
  PROVE  TypeOK'
<1> USE DEF Dir, Slot
<1>0. \A next \in Pc : Goto(next) => WorkerTypeOK'  BY GotoType, TypeParts
<1>1. CASE Clear
  <2>1. Finish("rolled-back") => WorkerTypeOK'  BY ReturnType, TypeParts DEF Finish, Result
  <2>2. Remove("clear", "experiment", Finish("rolled-back"))  BY <1>1 DEF Clear
  <2>3. "clear" \in Pc  BY DEF Pc, StorePcs
  <2> QED BY <2>1, <2>2, <2>3, RemoveType
<1>2. CASE StageReplace
  <2>1. Goto("publish") => WorkerTypeOK'  BY <1>0, Positions DEF Pc, StorePcs
  <2>2. Remove("replace", "experiment", Goto("publish"))  BY <1>2 DEF StageReplace
  <2>3. "replace" \in Pc  BY DEF Pc, StorePcs
  <2> QED BY <2>1, <2>2, <2>3, RemoveType
<1>3. CASE PromoteDropOld
  <2>1. Goto("retire") => WorkerTypeOK'  BY <1>0, Positions DEF Pc, StorePcs
  <2>2. Remove("dropOld", "stable.old", Goto("retire"))  BY <1>3 DEF PromoteDropOld
  <2>3. "dropOld" \in Pc  BY DEF Pc, StorePcs
  <2> QED BY <2>1, <2>2, <2>3, RemoveType
<1>4. CASE PromoteDropBackup
  <2>1. Goto("resumePromoted") => WorkerTypeOK'  BY <1>0, Positions DEF Pc, StorePcs
  <2>2. Remove("dropBackup", "stable.old", Goto("resumePromoted"))  BY <1>4 DEF PromoteDropBackup
  <2>3. "dropBackup" \in Pc  BY DEF Pc, StorePcs
  <2> QED BY <2>1, <2>2, <2>3, RemoveType
<1> QED BY <1>1, <1>2, <1>3, <1>4

\* The steps of stage, promote and bootstrap keep the types.
LEMMA SlotsStepType ==
  ASSUME TypeOK,
         \/ StagePopulate \/ StageFill \/ StagePublish \/ PromoteRetire \/ PromoteCommit
         \/ AdoptFill \/ AdoptPublish
  PROVE  TypeOK'
<1> USE DEF StagePopulate, StageFill, StagePublish, PromoteRetire, PromoteCommit, AdoptFill,
        AdoptPublish
<1>1. StoreTypeOK'
  <2>1. target \in Version \cup {None}  BY DEF TypeOK
  <2> QED BY <2>1, SlotsType, TypeParts DEF Dir, Slot
<1>2. WorkerTypeOK'
  <2>1. \/ \E next \in {"fill", "replace", "logHandingOver", "commit", "dropBackup",
                        "adoptFill", "adoptPublish"} : Goto(next)
        \/ Return("ok")
    OBVIOUS
  <2> QED BY <2>1, GotoType, ReturnType, TypeParts, Positions DEF Pc, StorePcs, Result
<1>3. HostTypeOK'
  <2>1. CASE PromoteCommit
    <3>1. \A p \in live : [p EXCEPT !.slot = "stable"] \in Process
      BY DEF TypeOK, HostTypeOK, Process, Slot
    <3> QED BY <2>1, <3>1 DEF TypeOK, HostTypeOK
  <2>2. CASE UNCHANGED hostVars  BY <2>2, TypeParts DEF HostTypeOK, hostVars
  <2> QED BY <2>1, <2>2
<1>4. UNCHANGED faults  OBVIOUS
<1> QED BY <1>1, <1>2, <1>3, <1>4, TypeParts DEF TypeOK, WorkerTypeOK

\* Recovery resumes at a position, whatever the phase.
LEMMA ResumeType ==
  ASSUME WorkerTypeOK, NEW phase \in Phase, ResumeFrom(phase)
  PROVE  WorkerTypeOK'
  BY GotoType, ReturnType, Positions DEF ResumeFrom, Phase, Pc, StorePcs, Result

\* What a reader of a readable journal takes for the phase is one.
LEMMA LastPhaseType ==
  ASSUME StoreTypeOK, JournalReadable
  PROVE  LastPhase \in Phase
  BY LastEntry DEF LastPhase, JournalReadable, Phase

\* The steps that leave store and host alone keep the types.
LEMMA DecideStepType ==
  ASSUME TypeOK, JournalReadable,
         \/ ReadJournal \/ Fence \/ ReadVersions \/ ProbePrior \/ Probe \/ Judge
         \/ PromoteBegin \/ Adopt
  PROVE  TypeOK'
<1> USE TypeParts, GotoType, ReturnType, Positions
<1>1. StoreTypeOK'
  BY DEF ReadJournal, Fence, ReadVersions, ProbePrior, Probe, Judge, PromoteBegin, Adopt,
         Decide, StoreTypeOK, storeVars
<1>2. HostTypeOK'
  BY DEF ReadJournal, Fence, ReadVersions, ProbePrior, Probe, Judge, PromoteBegin, Adopt,
         Decide, HostTypeOK, hostVars
<1>3. faults' \in 0..MaxFaults
  BY FaultType
     DEF ReadJournal, Fence, ReadVersions, ProbePrior, Probe, Judge, PromoteBegin, Adopt, Decide
<1>4. WorkerTypeOK'
  <2>1. CASE ReadJournal
    BY <2>1, NextSeqType DEF ReadJournal, WorkerTypeOK, Pc, Result, Return
  <2>2. CASE Fence
    BY <2>2, LastPhaseType, ResumeType DEF Fence, Result
  <2>3. CASE ReadVersions
    BY <2>3 DEF ReadVersions, Decide, Pc, Result
  <2>4. CASE ProbePrior
    BY <2>4 DEF ProbePrior, WorkerTypeOK, ProbeAnswers, Evidence, Pc, Result, Return
  <2>5. CASE Probe
    BY <2>5 DEF Probe, WorkerTypeOK, ProbeAnswers, Pc, Result, Return, Goto
  <2>6. CASE Judge
    BY <2>6 DEF Judge, Pc, Result
  <2>7. CASE PromoteBegin
    BY <2>7 DEF PromoteBegin, Decide, Pc, StorePcs, Result
  <2>8. CASE Adopt
    BY <2>8 DEF Adopt, Decide, Pc, StorePcs, Result
  <2> QED BY <2>1, <2>2, <2>3, <2>4, <2>5, <2>6, <2>7, <2>8
<1> QED BY <1>1, <1>2, <1>3, <1>4 DEF TypeOK, WorkerTypeOK

\* The steps around the worker keep the types.
LEMMA ProcessStepType ==
  ASSUME TypeOK,
         \/ BeginRecover \/ Exit \/ Crash \/ IoError \/ UserStops \/ Orphans
         \/ \E version \in Version : BeginBootstrap(version) \/ BeginUpgrade(version)
  PROVE  TypeOK'
<1> USE TypeParts
<1>1. CASE BeginRecover \/ \E version \in Version : BeginBootstrap(version) \/ BeginUpgrade(version)
  BY <1>1 DEF BeginRecover, BeginBootstrap, BeginUpgrade, TypeOK, StoreTypeOK, HostTypeOK,
              storeVars, hostVars, Pc, StorePcs, Function
<1>2. CASE Exit
  <2>1. WorkerTypeOK'  BY <1>2, GoneType DEF Exit
  <2> QED BY <1>2, <2>1 DEF Exit, TypeOK, WorkerTypeOK, StoreTypeOK, HostTypeOK, storeVars, hostVars
<1>3. CASE Crash
  <2>1. WorkerTypeOK' /\ faults' \in 0..MaxFaults  BY <1>3, GoneType, FaultType DEF Crash
  <2>2. StoreTypeOK'
    BY <1>3, EntryType, AppendType DEF Crash, Interrupted, StoreTypeOK, storeVars
  <2>3. HostTypeOK'
    BY <1>3, PositionTypes DEF Crash, Interrupted, Outlives, HostTypeOK, hostVars
  <2> QED BY <2>1, <2>2, <2>3 DEF TypeOK, WorkerTypeOK
<1>4. CASE IoError
  <2>1. WorkerTypeOK' /\ faults' \in 0..MaxFaults
    BY <1>4, ReturnType, FaultType DEF IoError, Result
  <2>2. StoreTypeOK'
    BY <1>4, EntryType, AppendType DEF IoError, StoreTypeOK, storeVars
  <2>3. HostTypeOK'  BY <1>4 DEF IoError, HostTypeOK, hostVars
  <2> QED BY <2>1, <2>2, <2>3 DEF TypeOK, WorkerTypeOK
<1>5. CASE UserStops
  BY <1>5 DEF UserStops, TypeOK, StoreTypeOK, HostTypeOK, storeVars, workerVars
<1>6. CASE Orphans
  <2>1. WorkerTypeOK' /\ faults' \in 0..MaxFaults
    BY <1>6 DEF Orphans, WorkerTypeOK, workerVars
  <2>2. StoreTypeOK'  BY <1>6 DEF Orphans, OrphanLands, OrphanDies, StoreTypeOK, storeVars
  <2>3. orphans' \subseteq Call /\ orphans \subseteq Call
    BY <1>6 DEF Orphans, OrphanLands, OrphanDies, HostTypeOK
  <2>4. HostTypeOK'
    <3>1. CASE OrphanLands  BY <2>3, <3>1, TakesType DEF OrphanLands
    <3>2. CASE OrphanDies  BY <2>3, <3>2 DEF OrphanDies, HostTypeOK
    <3> QED BY <1>6, <3>1, <3>2 DEF Orphans
  <2> QED BY <2>1, <2>2, <2>4 DEF TypeOK, WorkerTypeOK
<1> QED BY <1>1, <1>2, <1>3, <1>4, <1>5, <1>6

\* A step from a readable journal keeps the types.
LEMMA NextType ==
  ASSUME TypeOK, JournalReadable, Next
  PROVE  TypeOK'
  BY LogStepType, HostStepType, RemoveStepType, SlotsStepType, DecideStepType, ProcessStepType
     DEF Next, WorkerStep, Recovering, Upgrading, Promoting, Bootstrapping

-----------------------------------------------------------------------------
(* The journal and the slots, where the worker stands                      *)

\* recover has succeeded and the worker may go on to upgrade.
Ready == pc = "returned" /\ fn = "recover" /\ result = "ok"

Adopting == {"adopt", "adoptFill", "adoptPublish"}

\* The journal has been read by this worker.
Informed == Pc \ ({"none", "returned", "read"} \cup Adopting)

\* From the versions read to the promote intent: both slots are in use.
Choosing == {"probePrior", "logStaged"}
Staging == {"populate", "fill", "replace", "publish"}
Trying == {"logHandingOver", "quiesce", "stopStable", "startExperiment", "logRunning",
           "probe", "logReadback", "judge", "logPromoted"}

\* Where the worker stands tells what the last durable intent is.
ControlMatchesJournal ==
  /\ pc \in {"versions"} \cup Choosing \/ Ready => AtRest(LastPhase)
  /\ pc \in Staging \cup {"logHandingOver", "logRolledBackOnly"} => LastPhase = "staged"
  /\ pc \in {"quiesce", "stopStable", "startExperiment", "logRunning"} => LastPhase = "handing-over"
  /\ pc \in {"probe", "logReadback"} => LastPhase = "running-experiment"
  /\ pc \in {"judge", "logPromoted"} => LastPhase = "readback"
  /\ pc = "logRolledBack" => LastPhase \in {"handing-over", "running-experiment", "readback"}
  /\ pc \in {"stopExperiment", "startStable", "resumeRolledBack", "clear"} => LastPhase = "rolled-back"
  /\ pc \in {"promote", "dropOld", "retire", "commit", "dropBackup", "resumePromoted"} =>
       LastPhase = "promoted"

\* The worker's sequence number continues the journal.
SeqContinues == pc \in Informed \/ Ready => seq = NextSeq

\* Which directories are complete, where the worker stands.
SlotsMatchControl ==
  /\ slots["stable"] # Partial
  /\ pc \in {"versions"} \cup Choosing \cup Staging \cup Trying \cup Adopting => target \in Version
  /\ pc \in Adopting => fn = "bootstrap"
  /\ pc \in Choosing \cup Staging \cup Trying => Complete("stable")
  /\ pc \in {"replace", "publish"} => Complete("experiment.staging")
  /\ pc \in Trying \cup {"dropOld", "retire", "commit"} => Complete("experiment")
  /\ pc = "adoptPublish" => Complete("stable.bootstrap")

StoreInv ==
  /\ TypeOK
  /\ JournalReadable
  /\ JournalFollowsTransitions
  /\ ControlMatchesJournal
  /\ SeqContinues
  /\ SlotsMatchControl
  /\ NeverBricked

\* What a step that does not append leaves as it was.
LEMMA SameJournal ==
  ASSUME UNCHANGED journal
  PROVE  /\ LastPhase' = LastPhase
         /\ NextSeq' = NextSeq
         /\ JournalReadable' = JournalReadable
         /\ JournalFollowsTransitions' = JournalFollowsTransitions
  BY DEF LastPhase, NextSeq, JournalReadable, JournalFollowsTransitions

\* In a readable journal the next sequence number is its length.
LEMMA NextSeqIsLength ==
  ASSUME StoreTypeOK, JournalReadable
  PROVE  NextSeq = Len(journal)
<1>1. CASE journal = <<>>  BY <1>1 DEF NextSeq
<1>2. CASE journal # <<>>  BY <1>2, LastEntry DEF NextSeq, JournalReadable, StoreTypeOK
<1> QED BY <1>1, <1>2

\* A legal line appended keeps the journal readable and legal.
LEMMA AppendLegal ==
  ASSUME StoreTypeOK, JournalReadable, JournalFollowsTransitions,
         NEW e \in Entry, e.seq = NextSeq, e.intent \in Phase,
         <<LastPhase, e.intent>> \in Transitions,
         AppendEntry(e)
  PROVE  /\ JournalReadable' /\ JournalFollowsTransitions'
         /\ LastPhase' = e.intent /\ NextSeq' = e.seq + 1 /\ journal' # <<>>
<1>1. journal \in Seq(Entry)  BY DEF StoreTypeOK
<1>2. journal' = Append(journal, e)  BY DEF AppendEntry
<1>3. /\ Len(journal') = Len(journal) + 1 /\ Len(journal) \in Nat
      /\ journal'[Len(journal) + 1] = e
      /\ \A i \in 1..Len(journal) : journal'[i] = journal[i]
      /\ journal' # <<>>
  BY <1>1, <1>2
<1>4. JournalReadable'
  BY <1>3, NextSeqIsLength DEF JournalReadable
<1>5. LastPhase' = e.intent /\ NextSeq' = e.seq + 1
  BY <1>3 DEF LastPhase, NextSeq
<1>6. JournalFollowsTransitions'
  <2> SUFFICES ASSUME NEW i \in 1..Len(journal')
               PROVE  <<IF i = 1 THEN "idle" ELSE journal'[i - 1].intent, journal'[i].intent>> \in Transitions
    BY DEF JournalFollowsTransitions
  <2>1. CASE i \in 1..Len(journal)
    <3>1. <<IF i = 1 THEN "idle" ELSE journal[i - 1].intent, journal[i].intent>> \in Transitions
      BY <2>1 DEF JournalFollowsTransitions
    <3>2. i # 1 => i - 1 \in 1..Len(journal)  BY <1>3, <2>1
    <3> QED BY <1>3, <2>1, <3>1, <3>2
  <2>2. CASE i = Len(journal) + 1
    <3>1. CASE journal = <<>>  BY <1>3, <2>2, <3>1 DEF LastPhase
    <3>2. CASE journal # <<>>
      <4>1. i # 1 /\ i - 1 = Len(journal) /\ i - 1 \in 1..Len(journal)  BY <1>3, <2>2, <3>2, LastEntry
      <4>2. LastPhase = journal[i - 1].intent  BY <3>2, <4>1 DEF LastPhase
      <4> QED BY <1>3, <2>2, <4>1, <4>2
    <3> QED BY <3>1, <3>2
  <2> QED BY <1>3, <2>1, <2>2
<1> QED BY <1>3, <1>4, <1>5, <1>6

\* The control part of the invariant: where the worker stands.
Located == ControlMatchesJournal /\ SeqContinues /\ SlotsMatchControl

\* A worker that is gone or has given up, with the stable slot not half removed.
LEMMA LocatedIdle ==
  ASSUME slots'["stable"] # Partial,
         pc' \in {"none", "read"} \/ (pc' = "returned" /\ ~Ready')
  PROVE  Located'
  BY DEF Located, ControlMatchesJournal, SeqContinues, SlotsMatchControl, Ready, Informed, Adopting,
         Choosing, Staging, Trying

\* What a line written at a log position adds to the journal is legal.
LEMMA LoggedLine ==
  ASSUME StoreInv, pc \in DOMAIN IntentAt
  PROVE  /\ EntryAt(pc) \in Entry
         /\ EntryAt(pc).seq = NextSeq /\ EntryAt(pc).intent = IntentAt[pc]
         /\ IntentAt[pc] \in Phase
         /\ <<LastPhase, IntentAt[pc]>> \in Transitions
<1>1. EntryAt(pc) \in Entry  BY EntryType DEF StoreInv
<1>2. IntentAt[pc] \in Phase  BY PositionTypes
<1>3. seq = NextSeq
  BY Positions DEF StoreInv, SeqContinues, Informed, Pc, Adopting
<1>4. <<LastPhase, IntentAt[pc]>> \in Transitions
  BY Positions DEF StoreInv, ControlMatchesJournal, IntentAt, Transitions, AtRest, Choosing, Staging
<1> QED BY <1>1, <1>2, <1>3, <1>4 DEF EntryAt

\* The stable slot is complete whenever the worker writes a line: only the
\* promotion takes it apart, and it writes none.
LEMMA StableAtLog ==
  ASSUME StoreInv, pc \in DOMAIN IntentAt
  PROVE  Complete("stable")
<1>1. CASE pc \in {"logStaged", "logHandingOver", "logRunning", "logReadback", "logPromoted"}
  BY <1>1 DEF StoreInv, SlotsMatchControl, Choosing, Trying
<1>2. CASE pc \in {"logRolledBack", "logRolledBackOnly"}
  <2>1. LastPhase \in {"staged", "handing-over", "running-experiment", "readback"}
    BY <1>2 DEF StoreInv, ControlMatchesJournal
  <2>2. journal # <<>>  BY <2>1 DEF LastPhase
  <2> QED BY <2>1, <2>2 DEF StoreInv, NeverBricked
<1> QED BY <1>1, <1>2, Positions

\* An appended line, or whatever an append cut short leaves behind.
LEMMA LoggedStore ==
  ASSUME StoreInv, pc \in DOMAIN IntentAt, AppendCutShort(EntryAt(pc))
  PROVE  /\ JournalReadable' /\ JournalFollowsTransitions' /\ NeverBricked' /\ UNCHANGED slots
<1>1. UNCHANGED slots  BY DEF AppendCutShort, AppendEntry, storeVars
<1>2. CASE AppendEntry(EntryAt(pc))
  <2>1. JournalReadable' /\ JournalFollowsTransitions'
    BY <1>2, LoggedLine, AppendLegal DEF StoreInv, TypeOK
  <2>2. NeverBricked'  BY <1>1, StableAtLog DEF NeverBricked, Complete
  <2> QED BY <1>1, <2>1, <2>2
<1>3. CASE UNCHANGED journal
  BY <1>1, <1>3, SameJournal DEF StoreInv, NeverBricked, Complete
<1> QED BY <1>2, <1>3 DEF AppendCutShort, storeVars

\* An append by the worker keeps what is durable consistent.
LEMMA LogStepStore ==
  ASSUME StoreInv,
         \/ LogRolledBack \/ LogRolledBackOnly \/ LogStaged \/ LogHandingOver
         \/ LogRunning \/ LogReadback \/ LogPromoted
  PROVE  StoreInv'
<1>1. TypeOK'  BY LogStepType DEF StoreInv
<1>2. PICK at \in DOMAIN IntentAt, next \in Pc : Log(at, next)
  BY Positions DEF LogRolledBack, LogRolledBackOnly, LogStaged, LogHandingOver, LogRunning,
                   LogReadback, LogPromoted, Pc, StorePcs
<1>3. pc \in DOMAIN IntentAt /\ pc = at  BY <1>2 DEF Log
<1>4. seq = NextSeq  BY <1>3, LoggedLine DEF EntryAt
<1>5. AppendEntry(EntryAt(pc)) /\ seq' = seq + 1 /\ pc' = next
      /\ UNCHANGED <<fn, target, prior, evidence, result>>
  BY <1>2, <1>3, <1>4 DEF Log, StoreInv
<1>6. JournalReadable' /\ JournalFollowsTransitions' /\ NeverBricked' /\ UNCHANGED slots
  BY <1>3, <1>5, LoggedStore DEF AppendCutShort
<1>7. LastPhase' = IntentAt[pc] /\ NextSeq' = seq'
  BY <1>3, <1>4, <1>5, LoggedLine, AppendLegal DEF StoreInv, TypeOK
<1>8. Located'
  <2>1. /\ slots["stable"] # Partial /\ fn # None
        /\ pc \in Choosing \cup Trying => target \in Version /\ Complete("stable")
        /\ pc \in Trying => Complete("experiment")
    BY DEF StoreInv, SlotsMatchControl, TypeOK, Function, None
  <2>2. \/ pc = "logRolledBack" /\ pc' = "stopExperiment"
        \/ pc = "logRolledBackOnly" /\ pc' = "clear"
        \/ pc = "logStaged" /\ pc' = "populate"
        \/ pc = "logHandingOver" /\ pc' = "quiesce"
        \/ pc = "logRunning" /\ pc' = "probe"
        \/ pc = "logReadback" /\ pc' = "judge"
        \/ pc = "logPromoted" /\ pc' = "promote"
    <3>1. JournalReadable  BY DEF StoreInv
    <3> QED BY <1>4, <3>1
            DEF LogRolledBack, LogRolledBackOnly, LogStaged, LogHandingOver, LogRunning,
                LogReadback, LogPromoted, Log
  <2>3. \/ pc' \in {"stopExperiment", "clear"} /\ LastPhase' = "rolled-back"
        \/ pc' = "populate" /\ LastPhase' = "staged"
        \/ pc' = "quiesce" /\ LastPhase' = "handing-over"
        \/ pc' = "probe" /\ LastPhase' = "running-experiment"
        \/ pc' = "judge" /\ LastPhase' = "readback"
        \/ pc' = "promote" /\ LastPhase' = "promoted"
    BY <1>7, <2>2 DEF IntentAt
  <2>4. ControlMatchesJournal'
    BY <2>3 DEF ControlMatchesJournal, Choosing, Staging, Ready
  <2>5. SeqContinues'
    BY <1>7 DEF SeqContinues
  <2>6. SlotsMatchControl'
    BY <1>5, <1>6, <2>1, <2>2
       DEF SlotsMatchControl, Adopting, Choosing, Staging, Trying, Complete
  <2> QED BY <2>4, <2>5, <2>6 DEF Located
<1> QED BY <1>1, <1>6, <1>8 DEF StoreInv, Located

\* A step that leaves the store alone keeps what the invariant says of it.
LEMMA SameStore ==
  ASSUME StoreInv, UNCHANGED storeVars
  PROVE  /\ JournalReadable' /\ JournalFollowsTransitions' /\ NeverBricked'
         /\ LastPhase' = LastPhase /\ NextSeq' = NextSeq
         /\ slots' = slots /\ slots'["stable"] # Partial
  BY SameJournal DEF StoreInv, storeVars, NeverBricked, Complete, SlotsMatchControl

\* A call to the host keeps what is durable consistent.
LEMMA HostStepStore ==
  ASSUME StoreInv,
         \/ StopExperiment \/ StartStable \/ ResumeRolledBack
         \/ Quiesce \/ StopStable \/ StartExperiment \/ ResumePromoted
  PROVE  StoreInv'
<1> USE DEF StopExperiment, StartStable, ResumeRolledBack, Quiesce, StopStable, StartExperiment,
            ResumePromoted, HostCall
<1>1. TypeOK'  BY HostStepType DEF StoreInv
<1>2. UNCHANGED storeVars  OBVIOUS
<1>3. Located'
  <2>1. CASE \E value \in {"failed", "uncertain"} : Return(value)
    BY <1>2, <2>1, SameStore, LocatedIdle DEF Return, Ready
  <2>2. CASE pc = "resumePromoted" /\ Finish("promoted")
    BY <1>2, <2>2, SameStore, Positions
       DEF Finish, Return, StoreInv, Located, ControlMatchesJournal, SeqContinues,
           SlotsMatchControl, Ready, Informed, Adopting, Choosing, Staging, Trying, AtRest, Pc
  <2>3. CASE \/ pc = "stopExperiment" /\ Goto("startStable")
             \/ pc = "startStable" /\ Goto("resumeRolledBack")
             \/ pc = "resumeRolledBack" /\ Goto("clear")
             \/ pc = "quiesce" /\ Goto("stopStable")
             \/ pc = "stopStable" /\ Goto("startExperiment")
             \/ pc = "startExperiment" /\ Goto("logRunning")
    <3>1. seq' = NextSeq'
      BY <1>2, <2>3, SameStore, Positions DEF StoreInv, SeqContinues, Informed, Adopting, Pc, Goto
    <3>2. ControlMatchesJournal'
      BY <1>2, <2>3, SameStore DEF StoreInv, ControlMatchesJournal, Choosing, Staging, Ready, Goto
    <3>3. SlotsMatchControl'
      BY <1>2, <2>3, SameStore
         DEF StoreInv, SlotsMatchControl, Adopting, Choosing, Staging, Trying, Complete, Goto
    <3> QED BY <3>1, <3>2, <3>3 DEF Located, SeqContinues
  <2> QED BY <2>1, <2>2, <2>3
<1> QED BY <1>1, <1>2, <1>3, SameStore DEF StoreInv, Located

\* A step that only decides keeps what is durable consistent.
LEMMA DecideStepStore ==
  ASSUME StoreInv,
         \/ ReadJournal \/ Fence \/ ReadVersions \/ ProbePrior \/ Probe \/ Judge
         \/ PromoteBegin \/ Adopt
  PROVE  StoreInv'
<1>1. TypeOK'  BY DecideStepType DEF StoreInv
<1>2. UNCHANGED storeVars
  BY DEF ReadJournal, Fence, ReadVersions, ProbePrior, Probe, Judge, PromoteBegin, Adopt, Decide
<1>3. Located'
  <2>0. LastPhase \in Phase  BY LastPhaseType DEF StoreInv, TypeOK
  <2> USE <1>2, SameStore
  <2>1. CASE \E value \in Result : Return(value) /\ ~Ready'
    BY <2>1, LocatedIdle DEF Return
  <2>2. CASE ReadJournal
    <3>1. CASE JournalReadable
      BY <2>2, <3>1
         DEF ReadJournal, StoreInv, Located, ControlMatchesJournal, SeqContinues, SlotsMatchControl,
             Ready, Informed, Adopting, Choosing, Staging, Trying
    <3>2. CASE ~JournalReadable  BY <3>2 DEF StoreInv
    <3> QED BY <3>1, <3>2
  <2>3. CASE Fence
    <3>1. CASE ResumeFrom(LastPhase)
      BY <2>0, <2>3, <3>1
         DEF Fence, ResumeFrom, Goto, Return, StoreInv, Located, ControlMatchesJournal, SeqContinues,
             SlotsMatchControl, Ready, Informed, Adopting, Choosing, Staging, Trying, Phase, AtRest, Pc
    <3>2. CASE \E value \in {"failed", "uncertain"} : Return(value)
      BY <2>1, <3>2 DEF Return, Ready, Result
    <3> QED BY <2>3, <3>1, <3>2 DEF Fence
  <2>4. CASE ReadVersions
    BY <2>4
       DEF ReadVersions, Decide, Goto, Return, StoreInv, Located, ControlMatchesJournal, SeqContinues,
           SlotsMatchControl, Ready, Informed, Adopting, Choosing, Staging, Trying, Pc, StorePcs, Complete
  <2>5. CASE ProbePrior
    BY <2>5
       DEF ProbePrior, Return, StoreInv, Located, ControlMatchesJournal, SeqContinues,
           SlotsMatchControl, Ready, Informed, Adopting, Choosing, Staging, Trying, Pc, Complete
  <2>6. CASE Probe
    BY <2>6
       DEF Probe, Goto, Return, StoreInv, Located, ControlMatchesJournal, SeqContinues,
           SlotsMatchControl, Ready, Informed, Adopting, Choosing, Staging, Trying, Pc, Complete
  <2>7. CASE Judge
    BY <2>7
       DEF Judge, Goto, Return, StoreInv, Located, ControlMatchesJournal, SeqContinues,
           SlotsMatchControl, Ready, Informed, Adopting, Choosing, Staging, Trying, Pc, Complete
  <2>8. CASE PromoteBegin
    BY <2>8
       DEF PromoteBegin, Decide, Goto, Return, StoreInv, TypeOK, StoreTypeOK, Located,
           ControlMatchesJournal, SeqContinues, SlotsMatchControl, Ready, Informed, Adopting,
           Choosing, Staging, Trying, Pc, StorePcs, Complete, Dir, Slot
  <2>9. CASE Adopt
    BY <2>9
       DEF Adopt, Decide, Goto, Return, StoreInv, Located, ControlMatchesJournal, SeqContinues,
           SlotsMatchControl, Ready, Informed, Adopting, Choosing, Staging, Trying, Pc, Complete
  <2> QED BY <2>2, <2>3, <2>4, <2>5, <2>6, <2>7, <2>8, <2>9
<1> QED BY <1>1, <1>2, <1>3, SameStore DEF StoreInv, Located

\* Steps that change the slot directories and not the journal.
LEMMA SlotsStepStore ==
  ASSUME StoreInv,
         \/ StagePopulate \/ StageFill \/ StagePublish \/ PromoteRetire \/ PromoteCommit
         \/ AdoptFill \/ AdoptPublish \/ Clear \/ StageReplace \/ PromoteDropOld
         \/ PromoteDropBackup
  PROVE  StoreInv'
<1> USE DEF StagePopulate, StageFill, StagePublish, PromoteRetire, PromoteCommit, AdoptFill,
            AdoptPublish, Clear, StageReplace, PromoteDropOld, PromoteDropBackup, Remove,
            RemoveFiles, RemoveDir, PopulateBegin, PopulateFinish, Rename
<1>1. TypeOK'  BY SlotsStepType, RemoveStepType DEF StoreInv
<1>2. UNCHANGED journal  BY DEF storeVars
<1>3. LastPhase' = LastPhase /\ NextSeq' = NextSeq /\ JournalReadable' /\ JournalFollowsTransitions'
  BY <1>2, SameJournal DEF StoreInv
<1>4. slots \in [Dir -> Version \cup {None, Partial}]
      /\ {"stable", "experiment", "stable.old", "experiment.staging", "stable.bootstrap"} = Dir
  BY DEF StoreInv, TypeOK, StoreTypeOK, Dir, Slot
<1>5. NeverBricked'
  <2> USE <1>2, <1>3, <1>4 DEF StoreInv, NeverBricked, SlotsMatchControl, ControlMatchesJournal,
          Complete, Staging, Adopting, Choosing, Trying
  <2>1. CASE Clear \/ StageReplace  BY <2>1 DEF storeVars
  <2>2. CASE PromoteDropOld \/ PromoteDropBackup  BY <2>2 DEF storeVars
  <2>3. CASE StagePopulate \/ StageFill \/ StagePublish  BY <2>3
  <2>4. CASE PromoteRetire \/ PromoteCommit  BY <2>4
  <2>5. CASE AdoptFill \/ AdoptPublish  BY <2>5
  <2> QED BY <2>1, <2>2, <2>3, <2>4, <2>5
<1>6. Located'
  <2>1. ControlMatchesJournal'
    BY <1>3
       DEF StoreInv, ControlMatchesJournal, SlotsMatchControl, Finish, Goto, Return, Ready, AtRest,
           Choosing, Staging, Adopting
  <2>2. SeqContinues'
    BY <1>3
       DEF StoreInv, SeqContinues, SlotsMatchControl, Finish, Goto, Return, Ready, Informed,
           Adopting, Pc, StorePcs
  <2>3. SlotsMatchControl'
    <3> USE <1>4 DEF StoreInv, SlotsMatchControl, Complete, Adopting, Choosing, Staging, Trying,
            Goto, Finish, Return
    <3>1. CASE Clear \/ StageReplace  BY <3>1 DEF storeVars
    <3>2. CASE PromoteDropOld \/ PromoteDropBackup  BY <3>2 DEF storeVars
    <3>3. CASE StagePopulate \/ StageFill \/ StagePublish  BY <3>3
    <3>4. CASE PromoteRetire \/ PromoteCommit
      <4>1. pc' \in {"commit", "dropBackup"}  BY <3>4
      <4>2. slots'["stable"] # Partial
        <5>1. CASE PromoteRetire  BY <5>1 DEF None, Partial
        <5>2. CASE PromoteCommit
          <6>1. slots["experiment"] \in Version  BY <5>2
          <6>2. slots' = [slots EXCEPT !["stable"] = slots["experiment"], !["experiment"] = None]
            BY <5>2
          <6>3. slots'["stable"] = slots["experiment"]  BY <6>2
          <6> QED BY <6>1, <6>3
        <5> QED BY <3>4, <5>1, <5>2
      <4>3. pc' = "commit" => slots'["experiment"] \in Version  BY <3>4
      <4> QED BY <4>1, <4>2, <4>3
    <3>5. CASE AdoptFill \/ AdoptPublish  BY <3>5
    <3> QED BY <3>1, <3>2, <3>3, <3>4, <3>5
  <2> QED BY <2>1, <2>2, <2>3 DEF Located
<1> QED BY <1>1, <1>3, <1>5, <1>6 DEF StoreInv, Located

\* So do the steps around the worker.
LEMMA ProcessStepStore ==
  ASSUME StoreInv,
         \/ BeginRecover \/ Exit \/ Crash \/ IoError \/ UserStops \/ Orphans
         \/ \E version \in Version : BeginBootstrap(version) \/ BeginUpgrade(version)
  PROVE  StoreInv'
<1>1. TypeOK'  BY ProcessStepType DEF StoreInv
<1>2. slots["stable"] # Partial  BY DEF StoreInv, SlotsMatchControl
<1>3. CASE BeginRecover \/ Exit
  <2>1. UNCHANGED storeVars /\ pc' \in {"read", "none"}
    BY <1>3 DEF BeginRecover, Exit, WorkerGone
  <2> QED BY <1>1, <2>1, SameStore, LocatedIdle DEF StoreInv, Located
<1>4. CASE \E version \in Version : BeginBootstrap(version) \/ BeginUpgrade(version)
  <2>1. UNCHANGED storeVars  BY <1>4 DEF BeginBootstrap, BeginUpgrade
  <2>2. Located'
    BY <1>4, <2>1, SameStore
       DEF BeginBootstrap, BeginUpgrade, StoreInv, Located, ControlMatchesJournal, SeqContinues,
           SlotsMatchControl, Ready, Informed, Adopting, Choosing, Staging, Trying
  <2> QED BY <1>1, <2>1, <2>2, SameStore DEF StoreInv, Located
<1>5. CASE Crash \/ IoError
  <2>1. pc' = "none" \/ (pc' = "returned" /\ ~Ready')
    BY <1>5 DEF Crash, IoError, WorkerGone, Return, Ready
  <2>2. UNCHANGED storeVars \/ (pc \in DOMAIN IntentAt /\ AppendCutShort(EntryAt(pc)))
    BY <1>5 DEF Crash, IoError, Interrupted
  <2>3. JournalReadable' /\ JournalFollowsTransitions' /\ NeverBricked' /\ UNCHANGED slots
    BY <2>2, SameStore, LoggedStore
  <2> QED BY <1>1, <1>2, <2>1, <2>3, LocatedIdle DEF StoreInv, Located
<1>6. CASE UserStops \/ Orphans
  <2>1. UNCHANGED storeVars /\ UNCHANGED workerVars
    BY <1>6 DEF UserStops, Orphans, OrphanLands, OrphanDies
  <2>2. Located'
    BY <2>1, SameStore
       DEF workerVars, StoreInv, Located, ControlMatchesJournal, SeqContinues, SlotsMatchControl,
           Ready, Complete
  <2> QED BY <1>1, <2>1, <2>2, SameStore DEF StoreInv, Located
<1> QED BY <1>3, <1>4, <1>5, <1>6

\* An installation starts with the invariant.
LEMMA StoreInit0 == Init => StoreInv
<1> SUFFICES ASSUME Init PROVE StoreInv  OBVIOUS
<1>1. TypeOK
  <2>1. PICK installed \in Version \cup {None} : StoreInit(installed) /\ HostInit(installed)
    BY DEF Init
  <2>2. StoreTypeOK
    <3>1. journal \in Seq(Entry)  BY <2>1 DEF StoreInit
    <3> QED BY <2>1, <3>1 DEF StoreInit, StoreTypeOK
  <2>3. HostTypeOK
    <3>1. live \subseteq Process  BY <2>1 DEF HostInit, Process, Slot
    <3> QED BY <2>1, <3>1 DEF HostInit, HostTypeOK
  <2>4. WorkerTypeOK /\ faults \in 0..MaxFaults
    BY DEF Init, NoWorker, WorkerTypeOK, Pc, Function
  <2> QED BY <2>2, <2>3, <2>4 DEF TypeOK, WorkerTypeOK
<1>2. journal = <<>>  BY DEF Init, StoreInit
<1>3. slots["stable"] # Partial  BY DEF Init, StoreInit, Dir, Slot, None, Partial
<1>4. JournalReadable /\ JournalFollowsTransitions /\ NeverBricked
  BY <1>2 DEF JournalReadable, JournalFollowsTransitions, NeverBricked
<1>5. Located
  BY <1>3
     DEF Init, NoWorker, Located, ControlMatchesJournal, SeqContinues, SlotsMatchControl, Ready,
         Informed, Adopting, Choosing, Staging, Trying
<1> QED BY <1>1, <1>4, <1>5 DEF StoreInv, Located

\* Every step keeps it.
LEMMA StoreStep == StoreInv /\ [Next]_vars => StoreInv'
<1>1. ASSUME StoreInv, Next PROVE StoreInv'
  BY <1>1, LogStepStore, HostStepStore, DecideStepStore, SlotsStepStore, ProcessStepStore
     DEF Next, WorkerStep, Recovering, Upgrading, Promoting, Bootstrapping
<1>2. ASSUME StoreInv, UNCHANGED vars PROVE StoreInv'
  <2>1. UNCHANGED storeVars /\ UNCHANGED hostVars /\ UNCHANGED workerVars /\ UNCHANGED faults
    BY <1>2 DEF vars
  <2>2. TypeOK'
    BY <1>2, <2>1 DEF StoreInv, TypeOK, StoreTypeOK, HostTypeOK, storeVars, hostVars, workerVars
  <2>3. Located'
    BY <1>2, <2>1, SameStore
       DEF workerVars, StoreInv, Located, ControlMatchesJournal, SeqContinues, SlotsMatchControl,
           Ready, Complete
  <2> QED BY <1>2, <2>1, <2>2, <2>3, SameStore DEF StoreInv, Located
<1> QED BY <1>1, <1>2

\* The inductive invariant of what is durable: types, a readable and legal
\* journal, a worker in step with it, and slots that agree with its position.
THEOREM StoreInvariance == Spec => []StoreInv
  BY StoreInit0, StoreStep, PTL DEF Spec

\* Every variable keeps its type: no upgrade, recovery or bootstrap leaves the
\* engine, the store or the host in a state the code has no case for.
THEOREM EngineTypeCorrect == Spec => []TypeOK
  BY StoreInvariance, PTL DEF StoreInv

\* Recovery can always read the journal: no crash, I/O error or torn tail makes
\* a complete line unreadable or breaks the sequence.
THEOREM JournalStaysReadable == Spec => []JournalReadable
  BY StoreInvariance, PTL DEF StoreInv

\* The journal is a path of the transition table across any number of workers.
THEOREM JournalStaysLegal == Spec => []JournalFollowsTransitions
  BY StoreInvariance, PTL DEF StoreInv

\* There is a complete copy to converge to at every instant, with no assumption
\* on what the host does.
THEOREM EngineNeverBricks == Spec => []NeverBricked
  BY StoreInvariance, PTL DEF StoreInv

-----------------------------------------------------------------------------
(* Calls that outlive their worker                                         *)

\* The worker has been told by the fence that nothing can land any more.
Fenced == Informed \ {"fence"}

\* The intents under which each call is sent.
AnnouncedBy(call) ==
  CASE call \in {QuiesceCall, StopCall("stable"), StartCall("experiment")} -> {"handing-over"}
    [] call \in {StopCall("experiment"), StartCall("stable")} -> {"rolled-back"}
    [] OTHER -> {"rolled-back", "promoted"}

\* At most one call has outlived its worker; until it is fenced, the journal
\* still ends in the intent that announced it.
OrphansFenced ==
  /\ pc \in Fenced \/ Ready => orphans = {}
  /\ \A call \in orphans : orphans = {call} /\ LastPhase \in AnnouncedBy(call)

\* Every call to the host is made under an intent that announces it.
LEMMA CallAnnounced ==
  ASSUME StoreInv, pc \in DOMAIN CallAt
  PROVE  LastPhase \in AnnouncedBy(CallAt[pc])
  BY Positions
     DEF StoreInv, ControlMatchesJournal, AnnouncedBy, CallAt, QuiesceCall, ResumeCall, StopCall, StartCall

\* Every step keeps the invariant of orphaned calls.
LEMMA OrphansStep ==
  ASSUME StoreInv, OrphansFenced, Next
  PROVE  OrphansFenced'
<1>1. CASE UNCHANGED <<orphans, journal>> /\ (pc' \in Fenced \/ Ready' => pc \in Fenced \/ Ready)
  BY <1>1, SameJournal DEF OrphansFenced
<1>2. CASE UNCHANGED journal /\ orphans = {} /\ pc \in DOMAIN CallAt /\ Outlives(CallAt[pc])
           /\ ~(pc' \in Fenced \/ Ready')
  BY <1>2, SameJournal, CallAnnounced DEF OrphansFenced, Outlives
<1>3. CASE orphans = {} /\ orphans' = {}
  BY <1>3 DEF OrphansFenced
<1>4. pc \in DOMAIN IntentAt \cup DOMAIN CallAt => pc \in Fenced
  BY Positions DEF Fenced, Informed, Pc, Adopting
<1>5. CASE LogRolledBack \/ LogRolledBackOnly \/ LogStaged \/ LogHandingOver
           \/ LogRunning \/ LogReadback \/ LogPromoted
  BY <1>3, <1>4, <1>5, Positions
     DEF LogRolledBack, LogRolledBackOnly, LogStaged, LogHandingOver, LogRunning, LogReadback,
         LogPromoted, Log, OrphansFenced, hostVars
<1>6. CASE StopExperiment \/ StartStable \/ ResumeRolledBack
           \/ Quiesce \/ StopStable \/ StartExperiment \/ ResumePromoted
  <2> USE DEF StopExperiment, StartStable, ResumeRolledBack, Quiesce, StopStable, StartExperiment,
              ResumePromoted, HostCall
  <2>1. pc \in DOMAIN CallAt /\ orphans = {}  BY <1>4, <1>6, Positions DEF OrphansFenced
  <2>2. UNCHANGED journal  BY <1>6 DEF storeVars
  <2>3. UNCHANGED orphans \/ (Outlives(CallAt[pc]) /\ Return("uncertain"))  BY <1>6
  <2>4. Return("uncertain") => ~(pc' \in Fenced \/ Ready')
    BY DEF Return, Ready, Fenced, Informed
  <2> QED BY <1>2, <1>3, <2>1, <2>2, <2>3, <2>4
<1>7. CASE Fence
  <2>1. CASE orphans = {}  BY <1>3, <1>7, <2>1 DEF Fence, hostVars
  <2>2. CASE orphans # {}
    BY <1>1, <1>7, <2>2
       DEF Fence, Return, Ready, Fenced, Informed, hostVars, storeVars
  <2> QED BY <2>1, <2>2
<1>8. CASE ReadJournal \/ Adopt \/ AdoptFill \/ AdoptPublish
  <2>1. UNCHANGED <<orphans, journal>>
    BY <1>8 DEF ReadJournal, Adopt, Decide, AdoptFill, AdoptPublish, PopulateBegin,
                PopulateFinish, Rename, hostVars, storeVars
  <2>2. fn = "bootstrap" \/ pc = "read"
    BY <1>8 DEF ReadJournal, Adopt, Decide, AdoptFill, AdoptPublish, StoreInv, SlotsMatchControl,
                Adopting
  <2>3. ~(pc' \in Fenced \/ Ready')
    BY <1>8, <2>2
       DEF ReadJournal, Adopt, Decide, AdoptFill, AdoptPublish, Goto, Return, Ready, Fenced, Informed,
           Adopting
  <2> QED BY <1>1, <2>1, <2>3
<1>9. CASE ReadVersions \/ ProbePrior \/ Probe \/ Judge \/ PromoteBegin
           \/ StagePopulate \/ StageFill \/ StagePublish \/ PromoteRetire \/ PromoteCommit
           \/ Clear \/ StageReplace \/ PromoteDropOld \/ PromoteDropBackup
  <2>1. UNCHANGED orphans
    BY <1>9
       DEF ReadVersions, ProbePrior, Probe, Judge, PromoteBegin, StagePopulate, StageFill,
           StagePublish, PromoteRetire, PromoteCommit, Clear, StageReplace, PromoteDropOld,
           PromoteDropBackup, Decide, Remove, hostVars
  <2>2. pc \in Fenced
    BY <1>9
       DEF ReadVersions, ProbePrior, Probe, Judge, PromoteBegin, StagePopulate, StageFill,
           StagePublish, PromoteRetire, PromoteCommit, Clear, StageReplace, PromoteDropOld,
           PromoteDropBackup, Decide, Remove, Fenced, Informed, Pc, StorePcs, Adopting
  <2> QED BY <1>3, <2>1, <2>2 DEF OrphansFenced
<1>10. CASE Crash \/ IoError
  <2>1. ~(pc' \in Fenced \/ Ready')
    BY <1>10 DEF Crash, IoError, WorkerGone, Return, Ready, Fenced, Informed
  <2>2. \/ UNCHANGED <<orphans, journal>>
        \/ pc \in DOMAIN IntentAt /\ UNCHANGED orphans
        \/ pc \in DOMAIN CallAt /\ Outlives(CallAt[pc]) /\ UNCHANGED journal
    BY <1>10 DEF Crash, IoError, Interrupted, hostVars, storeVars
  <2>3. pc \in DOMAIN IntentAt \cup DOMAIN CallAt => orphans = {}  BY <1>4 DEF OrphansFenced
  <2> QED BY <1>1, <1>2, <1>3, <2>1, <2>2, <2>3
<1>11. CASE Orphans
  <2>1. UNCHANGED <<journal, workerVars>> /\ orphans' \subseteq orphans /\ orphans # {}
        /\ \E call \in orphans : orphans' = orphans \ {call}
    BY <1>11 DEF Orphans, OrphanLands, OrphanDies, storeVars
  <2>2. orphans' = {}  BY <2>1 DEF OrphansFenced
  <2> QED BY <2>2 DEF OrphansFenced
<1>12. CASE BeginRecover \/ Exit \/ UserStops
            \/ \E version \in Version : BeginBootstrap(version) \/ BeginUpgrade(version)
  BY <1>1, <1>12
     DEF BeginRecover, Exit, UserStops, BeginBootstrap, BeginUpgrade, WorkerGone, Ready, Fenced,
         Informed, Adopting, storeVars, hostVars, workerVars
<1> QED BY <1>5, <1>6, <1>7, <1>8, <1>9, <1>10, <1>11, <1>12
        DEF Next, WorkerStep, Recovering, Upgrading, Promoting, Bootstrapping

\* At most one call is orphaned, and none once a fence has answered.
LEMMA OrphansInvariance == Spec => []OrphansFenced
<1>1. Init => OrphansFenced
  BY DEF Init, HostInit, NoWorker, OrphansFenced, Fenced, Informed, Ready
<1>2. StoreInv /\ OrphansFenced /\ [Next]_vars => OrphansFenced'
  <2>1. OrphansFenced /\ UNCHANGED vars => OrphansFenced'
    BY SameJournal DEF vars, storeVars, hostVars, workerVars, OrphansFenced, Ready
  <2> QED BY <2>1, OrphansStep
<1> QED BY <1>1, <1>2, StoreInvariance, PTL DEF Spec

\* Which steps change what is live or parked, and under which call.
LEMMA EffectSteps ==
  ASSUME Next, live' # live \/ parked' # parked
  PROVE  \/ pc \in DOMAIN CallAt /\ Takes(CallAt[pc], UsedIds)
         \/ PromoteCommit
         \/ UserStops
         \/ \E call \in orphans : Takes(call, {})
<1>1. CASE StopExperiment \/ StartStable \/ ResumeRolledBack
           \/ Quiesce \/ StopStable \/ StartExperiment \/ ResumePromoted
  BY <1>1, Positions
     DEF StopExperiment, StartStable, ResumeRolledBack, Quiesce, StopStable, StartExperiment,
         ResumePromoted, HostCall, Outlives
<1>2. CASE Orphans  BY <1>2 DEF Orphans, OrphanLands, OrphanDies
<1>3. CASE Crash \/ IoError  BY <1>3 DEF Crash, IoError, Interrupted, Outlives, hostVars
<1>4. CASE ReadJournal \/ Fence \/ LogRolledBack \/ LogRolledBackOnly \/ Clear
           \/ ReadVersions \/ ProbePrior \/ LogStaged \/ StagePopulate \/ StageFill \/ StageReplace
           \/ StagePublish \/ LogHandingOver \/ LogRunning \/ Probe \/ LogReadback \/ Judge
           \/ LogPromoted \/ PromoteBegin \/ PromoteDropOld \/ PromoteRetire \/ PromoteDropBackup
           \/ Adopt \/ AdoptFill \/ AdoptPublish
           \/ BeginRecover \/ Exit \/ \E version \in Version : BeginBootstrap(version) \/ BeginUpgrade(version)
  <2>1. UNCHANGED hostVars
    BY <1>4
       DEF ReadJournal, Fence, LogRolledBack, LogRolledBackOnly, Clear, ReadVersions, ProbePrior,
           LogStaged, StagePopulate, StageFill, StageReplace, StagePublish, LogHandingOver, LogRunning,
           Probe, LogReadback, Judge, LogPromoted, PromoteBegin, PromoteDropOld, PromoteRetire,
           PromoteDropBackup, Adopt, AdoptFill, AdoptPublish, BeginRecover, Exit, BeginBootstrap,
           BeginUpgrade, Log, Decide, Remove
  <2> QED BY <2>1 DEF hostVars
<1> QED BY <1>1, <1>2, <1>3, <1>4
        DEF Next, WorkerStep, Recovering, Upgrading, Promoting, Bootstrapping

\* Write-ahead, for calls that outlive their worker too: whatever changes at the
\* service was announced by the intent the journal ends in.
THEOREM EffectsAreAnnounced == Spec => EffectsAnnounced
<1> DEFINE Announced == userStopped' \/ LastPhase \in {"handing-over", "promoted", "rolled-back"}
<1>1. ASSUME StoreInv, OrphansFenced, Next, live' # live \/ parked' # parked
      PROVE  Announced
  <2>0. \A call : AnnouncedBy(call) \subseteq {"handing-over", "promoted", "rolled-back"}
    BY DEF AnnouncedBy
  <2>1. CASE pc \in DOMAIN CallAt  BY <1>1, <2>0, <2>1, CallAnnounced
  <2>2. CASE PromoteCommit  BY <1>1, <2>2 DEF PromoteCommit, StoreInv, ControlMatchesJournal
  <2>3. CASE UserStops  BY <2>3 DEF UserStops
  <2>4. CASE \E call \in orphans : Takes(call, {})  BY <2>0, <2>4, <1>1 DEF OrphansFenced
  <2> QED BY <1>1, <2>1, <2>2, <2>3, <2>4, EffectSteps
<1>2. StoreInv /\ OrphansFenced /\ [Next]_vars =>
        [live' # live \/ parked' # parked => Announced]_vars
  BY <1>1
<1> QED BY <1>2, StoreInvariance, OrphansInvariance, PTL DEF Spec, EffectsAnnounced

-----------------------------------------------------------------------------
(* One live incarnation                                                    *)

\* Nothing runs from the experiment slot.
NoExperiment == \A p \in live : p.slot = "stable"

\* Where nothing may run from the experiment slot: before a handover, and after
\* a stop of the experiment or a commit.
StableOnly == {"versions"} \cup Choosing \cup Staging
                \cup {"logHandingOver", "quiesce", "stopStable"}
                \cup {"logRolledBackOnly", "startStable", "resumeRolledBack", "clear",
                      "dropBackup", "resumePromoted"}

OneIncarnation ==
  /\ NeverDualRun
  /\ pc \in StableOnly \/ Ready => NoExperiment
  /\ LastPhase \in {"idle", "staged"} => NoExperiment
  /\ LastPhase = "promoted" /\ slots["experiment"] = None => NoExperiment
  /\ pc = "startExperiment" => live = {}
  /\ StartCall("experiment") \in orphans => live = {}
  /\ StartCall("stable") \in orphans => NoExperiment

\* What a call does to the live processes, with an exclusive handoff.
LEMMA StopTakes ==
  ASSUME ExclusiveHandoff, NEW slot, NEW ids, Takes(StopCall(slot), ids)
  PROVE  live' = {p \in live : p.slot # slot}
  BY DEF Takes, LiveAfter, StopCall

\* A start adds at most one process, of the slot it names.
LEMMA StartTakes ==
  ASSUME NEW slot, NEW ids, Takes(StartCall(slot), ids)
  PROVE  \/ live' = live
         \/ /\ \A p \in live : p.slot # slot
            /\ \E q : q.slot = slot /\ live' = live \cup {q}
<1>1. live' \in LiveAfter(StartCall(slot), ids)  BY DEF Takes
<1>2. CASE \E p \in live : p.slot = slot  BY <1>1, <1>2 DEF LiveAfter, StartCall
<1>3. CASE ~(\E p \in live : p.slot = slot) /\ ~Complete(slot)
  BY <1>1, <1>3 DEF LiveAfter, StartCall
<1>4. CASE ~(\E p \in live : p.slot = slot) /\ Complete(slot)
  BY <1>1, <1>4 DEF LiveAfter, StartCall
<1> QED BY <1>2, <1>3, <1>4

\* Quiesce and resume start and stop nothing.
LEMMA WorkTakes ==
  ASSUME NEW ids, Takes(QuiesceCall, ids) \/ Takes(ResumeCall, ids)
  PROVE  live' = live
<1>1. LiveAfter(QuiesceCall, ids) = {live} /\ LiveAfter(ResumeCall, ids) = {live}
  BY DEF LiveAfter, QuiesceCall, ResumeCall
<1> QED BY <1>1 DEF Takes

\* Starting the stable slot where only it may run.
LEMMA StartStableTakes ==
  ASSUME NeverDualRun, NoExperiment, NEW ids, Takes(StartCall("stable"), ids)
  PROVE  NeverDualRun' /\ NoExperiment'
<1>1. CASE live' = live  BY <1>1 DEF NeverDualRun, NoExperiment
<1>2. CASE /\ \A p \in live : p.slot # "stable"
           /\ \E q : q.slot = "stable" /\ live' = live \cup {q}
  <2>1. live = {}  BY <1>2 DEF NoExperiment
  <2>2. PICK q : q.slot = "stable" /\ live' = {q}  BY <1>2, <2>1
  <2> QED BY <2>2 DEF NeverDualRun, NoExperiment
<1> QED BY <1>1, <1>2, StartTakes

\* Starting the experiment where nothing runs.
LEMMA StartExperimentTakes ==
  ASSUME live = {}, NEW ids, Takes(StartCall("experiment"), ids)
  PROVE  NeverDualRun'
  BY StartTakes DEF NeverDualRun

\* Fewer processes keep every bound on them.
LEMMA FewerLive ==
  ASSUME live' \subseteq live
  PROVE  /\ NeverDualRun => NeverDualRun'
         /\ NoExperiment => NoExperiment'
         /\ live = {} => live' = {}
  BY DEF NeverDualRun, NoExperiment

DualInv == StoreInv /\ OrphansFenced /\ OneIncarnation

\* A host call made by the worker.
LEMMA HostStepLive ==
  ASSUME ExclusiveHandoff, DualInv,
         \/ StopExperiment \/ StartStable \/ ResumeRolledBack
         \/ Quiesce \/ StopStable \/ StartExperiment \/ ResumePromoted
  PROVE  OneIncarnation'
<1> USE DEF StopExperiment, StartStable, ResumeRolledBack, Quiesce, StopStable, StartExperiment,
            ResumePromoted, HostCall
<1>1. LastPhase' = LastPhase /\ slots' = slots  BY SameJournal DEF storeVars
<1>2. pc \in DOMAIN CallAt  BY Positions
<1>3. orphans = {}
  BY <1>2, Positions DEF DualInv, OrphansFenced, Fenced, Informed, Pc, Adopting
<1>4. /\ NeverDualRun
      /\ pc \in StableOnly => NoExperiment
      /\ pc = "startExperiment" => live = {}
      /\ LastPhase \in {"idle", "staged"} => NoExperiment
      /\ LastPhase = "promoted" /\ slots["experiment"] = None => NoExperiment
  BY DEF DualInv, OneIncarnation
<1>5. pc = "startExperiment" => LastPhase = "handing-over"
  BY DEF DualInv, StoreInv, ControlMatchesJournal
<1>6. ASSUME Takes(CallAt[pc], UsedIds)
      PROVE  /\ NeverDualRun'
             /\ pc # "startExperiment" /\ NoExperiment => NoExperiment'
             /\ pc = "stopExperiment" => NoExperiment'
             /\ pc = "stopStable" => live' = {}
  <2>1. CASE pc \in {"quiesce", "resumeRolledBack", "resumePromoted"}
    <3>1. live' = live  BY <1>6, <2>1, WorkTakes DEF CallAt
    <3> QED BY <1>4, <2>1, <3>1, FewerLive
  <2>2. CASE pc = "stopStable"
    <3>1. live' = {p \in live : p.slot # "stable"}  BY <1>6, <2>2, StopTakes DEF CallAt
    <3>2. NoExperiment  BY <1>4, <2>2 DEF StableOnly
    <3>3. live' = {}  BY <3>1, <3>2 DEF NoExperiment
    <3> QED BY <2>2, <3>3 DEF NeverDualRun, NoExperiment
  <2>3. CASE pc = "stopExperiment"
    <3>1. live' = {p \in live : p.slot # "experiment"}  BY <1>6, <2>3, StopTakes DEF CallAt
    <3>2. live \subseteq Process  BY DEF DualInv, StoreInv, TypeOK, HostTypeOK
    <3>3. NoExperiment'  BY <3>1, <3>2 DEF NoExperiment, Process, Slot
    <3> QED BY <1>4, <2>3, <3>1, <3>3, FewerLive
  <2>4. CASE pc = "startStable"
    <3>1. Takes(StartCall("stable"), UsedIds)  BY <1>6, <2>4 DEF CallAt
    <3>2. NoExperiment  BY <1>4, <2>4 DEF StableOnly
    <3> QED BY <1>4, <2>4, <3>1, <3>2, StartStableTakes
  <2>5. CASE pc = "startExperiment"
    <3>1. Takes(StartCall("experiment"), UsedIds)  BY <1>6, <2>5 DEF CallAt
    <3> QED BY <1>4, <2>5, <3>1, StartExperimentTakes
  <2> QED BY <1>2, <2>1, <2>2, <2>3, <2>4, <2>5, Positions
<1>7. live' = live => NeverDualRun' /\ (NoExperiment => NoExperiment')
  BY <1>4, FewerLive
<1>8. CASE Takes(CallAt[pc], UsedIds) /\ UNCHANGED orphans
           /\ (pc' = "returned" /\ Ready' => pc = "resumePromoted")
           /\ (pc' = "startExperiment" => pc = "stopStable")
           /\ (pc' \in StableOnly => pc \in StableOnly \cup {"stopExperiment"})
  <2>0. pc \in StableOnly => pc # "startExperiment"  BY DEF StableOnly, Choosing, Staging
  <2>1. pc' \in StableOnly \/ Ready' => NoExperiment'
    <3>1. Ready' => pc \in StableOnly  BY <1>8 DEF StableOnly, Ready
    <3>2. pc \in StableOnly => NoExperiment'  BY <1>4, <1>6, <1>8, <2>0
    <3> QED BY <1>6, <1>8, <3>1, <3>2
  <2>2. LastPhase' \in {"idle", "staged"} => NoExperiment'
    BY <1>1, <1>4, <1>5, <1>6, <1>8
  <2>3. LastPhase' = "promoted" /\ slots'["experiment"] = None => NoExperiment'
    BY <1>1, <1>4, <1>5, <1>6, <1>8
  <2> QED BY <1>3, <1>6, <1>8, <2>1, <2>2, <2>3 DEF OneIncarnation
<1>9. CASE live' = live /\ ~(pc' \in StableOnly \/ Ready') /\ pc' # "startExperiment"
           /\ orphans' \subseteq {CallAt[pc]}
  <2>1. StartCall("experiment") \in orphans' => pc = "startExperiment"
    BY <1>2, <1>9, Positions DEF CallAt, QuiesceCall, ResumeCall, StopCall, StartCall
  <2>2. StartCall("stable") \in orphans' => pc = "startStable"
    BY <1>2, <1>9, Positions DEF CallAt, QuiesceCall, ResumeCall, StopCall, StartCall
  <2>3. pc = "startStable" => NoExperiment  BY <1>4 DEF StableOnly
  <2> QED BY <1>1, <1>4, <1>7, <1>9, <2>1, <2>2, <2>3 DEF OneIncarnation
<1>10. \/ Takes(CallAt[pc], UsedIds) /\ UNCHANGED orphans
       \/ live' = live /\ orphans' \subseteq {CallAt[pc]} /\ \E value \in {"failed", "uncertain"} : Return(value)
  BY <1>3 DEF Outlives
<1>11. \/ pc' = "returned"
       \/ pc \in {"startStable", "resumeRolledBack", "quiesce", "stopExperiment"} /\ pc' \in StableOnly
       \/ pc = "stopStable" /\ pc' = "startExperiment"
       \/ pc = "startExperiment" /\ pc' = "logRunning"
  BY DEF Goto, Return, Finish, StableOnly
<1>12. Ready' => pc = "resumePromoted"
  BY DEF Goto, Return, Finish, Ready
<1>13. \A value \in {"failed", "uncertain"} : Return(value) => ~(pc' \in StableOnly \/ Ready') /\ pc' # "startExperiment"
  BY DEF Return, Ready, StableOnly, Choosing, Staging
<1> QED BY <1>8, <1>9, <1>10, <1>11, <1>12, <1>13 DEF StableOnly, Choosing, Staging

\* Which steps the clauses on the worker's position are about: none of them is
\* possible while a call of a dead worker may still land.
LEMMA StableOnlyFenced == StableOnly \cup {"startExperiment"} \subseteq Fenced
  BY Positions
     DEF StableOnly, Choosing, Staging, Fenced, Informed, Adopting, Pc, StorePcs

\* A step that leaves the journal and the live processes alone.
LEMMA SameLive ==
  ASSUME DualInv, UNCHANGED <<journal, live>>, orphans' \subseteq orphans,
         pc' \in StableOnly \/ Ready' => NoExperiment,
         pc' = "startExperiment" => live = {},
         LastPhase = "promoted" /\ slots'["experiment"] = None => NoExperiment
  PROVE  OneIncarnation'
<1>1. LastPhase' = LastPhase  BY SameJournal
<1>2. NeverDualRun' /\ (NoExperiment => NoExperiment') /\ (live = {} => live' = {})
  BY FewerLive DEF DualInv, OneIncarnation
<1> QED BY <1>1, <1>2 DEF DualInv, OneIncarnation

\* Appending a line.
LEMMA LogStepLive ==
  ASSUME DualInv,
         \/ LogRolledBack \/ LogRolledBackOnly \/ LogStaged \/ LogHandingOver
         \/ LogRunning \/ LogReadback \/ LogPromoted
  PROVE  OneIncarnation'
<1>1. pc \in DOMAIN IntentAt /\ live' = live /\ orphans' = orphans
  BY Positions
     DEF LogRolledBack, LogRolledBackOnly, LogStaged, LogHandingOver, LogRunning, LogReadback,
         LogPromoted, Log, hostVars
<1>2. StoreInv /\ JournalReadable /\ seq = NextSeq
  BY <1>1, LoggedLine DEF DualInv, StoreInv, EntryAt
<1>3. AppendEntry(EntryAt(pc))
      /\ \/ pc = "logRolledBack" /\ pc' = "stopExperiment"
         \/ pc = "logRolledBackOnly" /\ pc' = "clear"
         \/ pc = "logStaged" /\ pc' = "populate"
         \/ pc = "logHandingOver" /\ pc' = "quiesce"
         \/ pc = "logRunning" /\ pc' = "probe"
         \/ pc = "logReadback" /\ pc' = "judge"
         \/ pc = "logPromoted" /\ pc' = "promote"
  BY <1>2
     DEF LogRolledBack, LogRolledBackOnly, LogStaged, LogHandingOver, LogRunning, LogReadback,
         LogPromoted, Log
<1>4. LastPhase' = IntentAt[pc] /\ slots' = slots
  BY <1>1, <1>2, <1>3, LoggedLine, AppendLegal DEF StoreInv, TypeOK, AppendEntry
<1>5. orphans = {}
  BY <1>1, Positions DEF DualInv, OrphansFenced, Fenced, Informed, Pc, Adopting
<1>6. NeverDualRun' /\ (NoExperiment => NoExperiment')
  BY <1>1, FewerLive DEF DualInv, OneIncarnation
<1>7. pc \in StableOnly => NoExperiment  BY DEF DualInv, OneIncarnation
<1>8. pc' \in StableOnly \/ Ready' => pc \in StableOnly
  BY <1>3 DEF StableOnly, Choosing, Staging, Ready
<1>9. LastPhase' \in {"idle", "staged"} => pc \in StableOnly
  BY <1>3, <1>4 DEF IntentAt, StableOnly, Choosing
<1>10. LastPhase' = "promoted" => slots'["experiment"] # None
  <2>1. pc = "logPromoted" => Complete("experiment")  BY <1>2 DEF StoreInv, SlotsMatchControl, Trying
  <2>2. LastPhase' = "promoted" => pc = "logPromoted"  BY <1>3, <1>4 DEF IntentAt
  <2> QED BY <1>4, <2>1, <2>2 DEF Complete
<1>11. pc' # "startExperiment"  BY <1>3
<1> QED BY <1>1, <1>5, <1>6, <1>7, <1>8, <1>9, <1>10, <1>11 DEF OneIncarnation

\* Steps that only decide.
LEMMA DecideStepLive ==
  ASSUME DualInv,
         \/ ReadJournal \/ Fence \/ ReadVersions \/ ProbePrior \/ Probe \/ Judge
         \/ PromoteBegin \/ Adopt
  PROVE  OneIncarnation'
<1>1. UNCHANGED storeVars /\ UNCHANGED hostVars
  BY DEF ReadJournal, Fence, ReadVersions, ProbePrior, Probe, Judge, PromoteBegin, Adopt, Decide
<1>2. /\ pc \in StableOnly => NoExperiment
      /\ LastPhase \in {"idle", "staged"} => NoExperiment
      /\ LastPhase = "promoted" /\ slots["experiment"] = None => NoExperiment
  BY DEF DualInv, OneIncarnation
<1>3. LastPhase \in Phase /\ (pc = "promote" => LastPhase = "promoted") /\ (pc = "adopt" => fn = "bootstrap")
  BY LastPhaseType DEF DualInv, StoreInv, TypeOK, ControlMatchesJournal, SlotsMatchControl, Adopting
<1>4. pc' # "startExperiment" /\ (pc' \in StableOnly \/ Ready' => NoExperiment)
  <2> USE DEF Goto, Return, Ready, StableOnly, Choosing, Staging
  <2>1. CASE ReadJournal  BY <2>1 DEF ReadJournal
  <2>2. CASE Fence
    <3>1. CASE ResumeFrom(LastPhase)  BY <1>2, <1>3, <3>1 DEF ResumeFrom, Phase
    <3>2. CASE \E value \in {"failed", "uncertain"} : Return(value)  BY <3>2
    <3> QED BY <2>2, <3>1, <3>2 DEF Fence
  <2>3. CASE ReadVersions \/ ProbePrior
    BY <1>2, <2>3 DEF ReadVersions, ProbePrior, Decide
  <2>4. CASE Probe \/ Judge  BY <2>4 DEF Probe, Judge
  <2>5. CASE PromoteBegin  BY <1>2, <1>3, <2>5 DEF PromoteBegin, Decide
  <2>6. CASE Adopt  BY <1>3, <2>6 DEF Adopt, Decide
  <2> QED BY <2>1, <2>2, <2>3, <2>4, <2>5, <2>6
<1> QED BY <1>1, <1>2, <1>4, SameLive DEF storeVars, hostVars

\* Steps on the slot directories.
LEMMA SlotsStepLive ==
  ASSUME DualInv,
         \/ StagePopulate \/ StageFill \/ StagePublish \/ PromoteRetire \/ PromoteCommit
         \/ AdoptFill \/ AdoptPublish \/ Clear \/ StageReplace \/ PromoteDropOld
         \/ PromoteDropBackup
  PROVE  OneIncarnation'
<1> USE DEF StagePopulate, StageFill, StagePublish, PromoteRetire, PromoteCommit, AdoptFill,
            AdoptPublish, Clear, StageReplace, PromoteDropOld, PromoteDropBackup, Remove,
            RemoveFiles, RemoveDir, PopulateBegin, PopulateFinish, Rename
<1>1. UNCHANGED <<journal, orphans>>  BY DEF storeVars, hostVars
<1>2. /\ NeverDualRun
      /\ pc \in StableOnly => NoExperiment
      /\ LastPhase \in {"idle", "staged"} => NoExperiment
      /\ LastPhase = "promoted" /\ slots["experiment"] = None => NoExperiment
  BY DEF DualInv, OneIncarnation
<1>3. /\ pc \in Staging => LastPhase = "staged"
      /\ pc = "clear" => LastPhase = "rolled-back"
      /\ pc \in {"adoptFill", "adoptPublish"} => fn = "bootstrap"
      /\ slots \in [Dir -> Version \cup {None, Partial}]
  BY DEF DualInv, StoreInv, TypeOK, StoreTypeOK, ControlMatchesJournal, SlotsMatchControl, Adopting
<1>4. CASE PromoteCommit
  <2>1. live' = {[p EXCEPT !.slot = "stable"] : p \in live}  BY <1>4
  <2>2. NeverDualRun'  BY <1>2, <2>1 DEF NeverDualRun
  <2>3. NoExperiment'
    <3>1. \A p \in live : [p EXCEPT !.slot = "stable"].slot = "stable"
      BY DEF DualInv, StoreInv, TypeOK, HostTypeOK, Process
    <3> QED BY <2>1, <3>1 DEF NoExperiment
  <2>4. orphans' = {}
    BY <1>1, <1>4 DEF DualInv, OrphansFenced, Fenced, Informed, Pc, StorePcs, Adopting
  <2>5. pc' # "startExperiment"  BY <1>4 DEF Goto
  <2> QED BY <2>2, <2>3, <2>4, <2>5 DEF OneIncarnation
<1>5. CASE ~PromoteCommit
  <2>1. live' = live  BY <1>5 DEF hostVars
  <2>2. pc' # "startExperiment" /\ (pc' \in StableOnly \/ Ready' => NoExperiment)
    BY <1>2, <1>3, <1>5 DEF StableOnly, Choosing, Staging, Ready, Goto, Return, Finish
  <2>3. LastPhase = "promoted" => slots'["experiment"] = slots["experiment"]
    <3> USE <1>3 DEF Staging, Dir, Slot
    <3>1. CASE Clear \/ StagePopulate \/ StageFill \/ StageReplace \/ StagePublish  BY <3>1
    <3>2. CASE PromoteDropOld \/ PromoteDropBackup  BY <3>2 DEF storeVars
    <3>3. CASE PromoteRetire \/ AdoptFill \/ AdoptPublish  BY <3>3
    <3> QED BY <1>5, <3>1, <3>2, <3>3
  <2> QED BY <1>1, <1>2, <2>1, <2>2, <2>3, SameLive
<1> QED BY <1>4, <1>5

\* A worker that stops in the middle of an effect.
LEMMA StopStepLive ==
  ASSUME DualInv, Crash \/ IoError
  PROVE  OneIncarnation'
<1>1. live' = live /\ slots' = slots /\ ~(pc' \in StableOnly \/ Ready') /\ pc' # "startExperiment"
  BY DEF Crash, IoError, WorkerGone, Return, Interrupted, Outlives, AppendCutShort, AppendEntry,
         hostVars, storeVars, Ready, StableOnly, Choosing, Staging
<1>2. \/ UNCHANGED <<journal, orphans>>
      \/ pc \in DOMAIN IntentAt /\ AppendEntry(EntryAt(pc)) /\ UNCHANGED orphans
      \/ pc \in DOMAIN CallAt /\ UNCHANGED journal /\ orphans' = orphans \cup {CallAt[pc]}
  BY DEF Crash, IoError, Interrupted, Outlives, AppendCutShort, hostVars, storeVars
<1>3. /\ NeverDualRun
      /\ pc \in StableOnly => NoExperiment
      /\ pc = "startExperiment" => live = {}
      /\ LastPhase = "promoted" /\ slots["experiment"] = None => NoExperiment
  BY DEF DualInv, OneIncarnation
<1>4. CASE UNCHANGED <<journal, orphans>>
  BY <1>1, <1>3, <1>4, SameLive
<1>5. CASE pc \in DOMAIN IntentAt /\ AppendEntry(EntryAt(pc)) /\ UNCHANGED orphans
  <2>1. LastPhase' = IntentAt[pc]
    BY <1>5, LoggedLine, AppendLegal DEF DualInv, StoreInv, TypeOK
  <2>2. orphans = {}
    BY <1>5, Positions DEF DualInv, OrphansFenced, Fenced, Informed, Pc, Adopting
  <2>3. LastPhase' \in {"idle", "staged"} => NoExperiment
    BY <1>3, <1>5, <2>1, Positions DEF IntentAt, StableOnly, Choosing
  <2>4. LastPhase' = "promoted" => slots'["experiment"] # None
    <3>0. pc \in {"logStaged", "logHandingOver", "logRunning", "logReadback", "logPromoted",
                  "logRolledBack", "logRolledBackOnly"}
      BY <1>5, Positions
    <3>1. LastPhase' = "promoted" => pc = "logPromoted"  BY <2>1, <3>0 DEF IntentAt
    <3>2. pc = "logPromoted" => Complete("experiment")
      BY DEF DualInv, StoreInv, SlotsMatchControl, Trying
    <3> QED BY <1>1, <3>1, <3>2 DEF Complete
  <2>5. NeverDualRun' /\ (NoExperiment => NoExperiment')  BY <1>1, <1>3, FewerLive
  <2> QED BY <1>1, <1>5, <2>2, <2>3, <2>4, <2>5 DEF OneIncarnation
<1>6. CASE pc \in DOMAIN CallAt /\ UNCHANGED journal /\ orphans' = orphans \cup {CallAt[pc]}
  <2>1. orphans' = {CallAt[pc]}
    BY <1>6, Positions DEF DualInv, OrphansFenced, Fenced, Informed, Pc, Adopting
  <2>2. /\ StartCall("experiment") \in orphans' => pc = "startExperiment"
        /\ StartCall("stable") \in orphans' => pc = "startStable"
    BY <1>6, <2>1, Positions DEF CallAt, QuiesceCall, ResumeCall, StopCall, StartCall
  <2>3. pc = "startStable" => NoExperiment  BY <1>3 DEF StableOnly
  <2>4. LastPhase' = LastPhase  BY <1>6, SameJournal
  <2>5. NeverDualRun' /\ (NoExperiment => NoExperiment')  BY <1>1, <1>3, FewerLive
  <2> QED BY <1>1, <1>3, <2>2, <2>3, <2>4, <2>5 DEF DualInv, OneIncarnation
<1> QED BY <1>2, <1>4, <1>5, <1>6

\* A call of a dead worker lands.
LEMMA OrphanLandsLive ==
  ASSUME ExclusiveHandoff, DualInv, Orphans, OrphanLands
  PROVE  OneIncarnation'
<1>1. PICK call \in orphans : Takes(call, {}) /\ orphans' = orphans \ {call} /\ UNCHANGED storeVars
  BY DEF OrphanLands
<1>2. orphans = {call} /\ LastPhase \in AnnouncedBy(call)
  BY <1>1 DEF DualInv, OrphansFenced
<1>3. orphans' = {}  BY <1>1, <1>2
<1>4. ~(pc' \in StableOnly \/ Ready') /\ pc' # "startExperiment"
  BY <1>1, StableOnlyFenced DEF Orphans, workerVars, Ready, DualInv, OrphansFenced
<1>5. LastPhase' = LastPhase /\ slots' = slots  BY <1>1, SameJournal DEF storeVars
<1>6. call \in Call  BY <1>1 DEF DualInv, StoreInv, TypeOK, HostTypeOK
<1>7. CASE live' \subseteq live
  <2>1. NeverDualRun' /\ (NoExperiment => NoExperiment')
    BY <1>7, FewerLive DEF DualInv, OneIncarnation
  <2> QED BY <1>3, <1>4, <1>5, <2>1 DEF DualInv, OneIncarnation
<1>8. CASE call = StartCall("stable")
  <2>1. NeverDualRun /\ NoExperiment  BY <1>1, <1>8 DEF DualInv, OneIncarnation
  <2>2. NeverDualRun' /\ NoExperiment'  BY <1>1, <1>8, <2>1, StartStableTakes
  <2> QED BY <1>3, <1>4, <2>2 DEF OneIncarnation
<1>9. CASE call = StartCall("experiment")
  <2>1. live = {}  BY <1>1, <1>9 DEF DualInv, OneIncarnation
  <2>2. NeverDualRun'  BY <1>1, <1>9, <2>1, StartExperimentTakes
  <2>3. LastPhase' = "handing-over"
    BY <1>2, <1>5, <1>9 DEF AnnouncedBy, QuiesceCall, StopCall, StartCall
  <2> QED BY <1>3, <1>4, <2>2, <2>3 DEF OneIncarnation
<1>10. \/ call \in {QuiesceCall, ResumeCall}
       \/ \E slot \in Slot : call = StopCall(slot) \/ call = StartCall(slot)
  BY <1>6 DEF Call, QuiesceCall, ResumeCall, StopCall, StartCall
<1>11. call \in {QuiesceCall, ResumeCall} => live' \subseteq live
  BY <1>1, WorkTakes
<1>12. \A slot : call = StopCall(slot) => live' \subseteq live
  BY <1>1, StopTakes
<1> QED BY <1>7, <1>8, <1>9, <1>10, <1>11, <1>12 DEF Slot

\* The other steps around the worker.
LEMMA ProcessStepLive ==
  ASSUME ExclusiveHandoff, DualInv,
         \/ BeginRecover \/ Exit \/ Crash \/ IoError \/ UserStops \/ Orphans
         \/ \E version \in Version : BeginBootstrap(version) \/ BeginUpgrade(version)
  PROVE  OneIncarnation'
<1>1. /\ Ready => NoExperiment
      /\ pc \in StableOnly => NoExperiment
      /\ pc = "startExperiment" => live = {}
      /\ LastPhase = "promoted" /\ slots["experiment"] = None => NoExperiment
  BY DEF DualInv, OneIncarnation
<1>2. CASE BeginRecover \/ Exit \/ \E version \in Version : BeginBootstrap(version) \/ BeginUpgrade(version)
  <2>1. UNCHANGED <<journal, slots, live, orphans>>
    BY <1>2 DEF BeginRecover, Exit, BeginBootstrap, BeginUpgrade, storeVars, hostVars
  <2>2. pc' # "startExperiment" /\ (pc' \in StableOnly \/ Ready' => Ready)
    BY <1>2 DEF BeginRecover, Exit, WorkerGone, BeginBootstrap, BeginUpgrade, Ready, StableOnly,
                Choosing, Staging
  <2> QED BY <1>1, <2>1, <2>2, SameLive
<1>3. CASE Crash \/ IoError  BY <1>3, StopStepLive
<1>4. CASE UserStops
  <2>1. live' = {} /\ orphans' = orphans  BY <1>4 DEF UserStops
  <2> QED BY <2>1 DEF OneIncarnation, NeverDualRun, NoExperiment
<1>5. CASE Orphans
  <2>1. CASE OrphanLands  BY <1>5, <2>1, OrphanLandsLive
  <2>2. CASE OrphanDies
    <3>1. UNCHANGED <<journal, slots, live, pc, fn, result>> /\ orphans' \subseteq orphans
      BY <1>5, <2>2 DEF Orphans, OrphanDies, storeVars, workerVars
    <3> QED BY <1>1, <3>1, SameLive DEF Ready
  <2> QED BY <1>5, <2>1, <2>2 DEF Orphans
<1> QED BY <1>2, <1>3, <1>4, <1>5

\* With an exclusive handoff at most one incarnation is live, and of the slot
\* the worker's position allows.
LEMMA LiveInvariance == ASSUME ExclusiveHandoff PROVE Spec => []OneIncarnation
<1>1. Init => OneIncarnation
  <2> SUFFICES ASSUME Init PROVE OneIncarnation  OBVIOUS
  <2>1. orphans = {} /\ pc = "none" /\ NeverDualRun /\ NoExperiment
    BY DEF Init, HostInit, NoWorker, NeverDualRun, NoExperiment
  <2> QED BY <2>1 DEF OneIncarnation
<1>2. StoreInv /\ OrphansFenced /\ OneIncarnation /\ [Next]_vars => OneIncarnation'
  <2>1. OneIncarnation /\ UNCHANGED vars => OneIncarnation'
    BY SameJournal
       DEF vars, storeVars, hostVars, workerVars, OneIncarnation, NeverDualRun, NoExperiment, Ready
  <2>2. StoreInv /\ OrphansFenced /\ OneIncarnation /\ Next => OneIncarnation'
    BY LogStepLive, HostStepLive, DecideStepLive, SlotsStepLive, ProcessStepLive
       DEF DualInv, Next, WorkerStep, Recovering, Upgrading, Promoting, Bootstrapping
  <2> QED BY <2>1, <2>2
<1> QED BY <1>1, <1>2, StoreInvariance, OrphansInvariance, PTL DEF Spec

\* With a host whose stop really terminates, no interleaving of crashes, faults
\* and late calls of dead workers ever has two live incarnations.
THEOREM EngineNeverRunsTwice == ASSUME ExclusiveHandoff PROVE Spec => []NeverDualRun
<1>1. Spec => []OneIncarnation  BY LiveInvariance
<1>2. OneIncarnation => NeverDualRun  BY DEF OneIncarnation
<1> QED BY <1>1, <1>2, PTL
=============================================================================
