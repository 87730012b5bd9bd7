------------------------------- MODULE Runner -------------------------------
(***************************************************************************)
(* The worker process around the engine (src/src/runner.rs): operation     *)
(* identity, the current receipt operation.json, the archived receipts and *)
(* the exit code a caller acts on.  One worker runs at a time, under the   *)
(* upgrade lock; a crash at any point is followed by other invocations.    *)
(***************************************************************************)
EXTENDS Engine

CONSTANTS
  OperationId,  \* ids callers choose for their operations
  LibraryCalls  \* entry points used besides the runner protocol's requests:
                \* "rollback" (Runner::rollback) and "anonymous" (Runner::upgrade,
                \* or upgrade_to without an operation)

ASSUME RunnerAssumption ==
  None \notin OperationId /\ LibraryCalls \subseteq {"rollback", "anonymous"}

VARIABLES
  rpc,       \* the runner's position; "none" when no worker process is alive
  request,   \* the request the worker serves
  op,        \* operation.json
  receipts,  \* receipts/<sha256(id)>.json
  error,     \* the error drive, recover or rollback ends with, or None
  reply      \* the response: what it says and the process exit code

runnerVars == <<rpc, request, op, receipts, error, reply>>
allVars == <<vars, runnerVars>>

Outcome == {"promoted", "rolled-back", "held", "up-to-date", "failed"}

Operation == [id : OperationId, from : Version, target : Version, outcome : Outcome \cup {None}]

NoOperation == [id |-> None, from |-> None, target |-> None, outcome |-> None]

\* Upgrade pins a target when it carries an id; recover may name what it expects.
Requests ==
  [kind : {"upgrade", "recover"}, id : OperationId, target : Version]
    \cup {[kind |-> "recover", id |-> None, target |-> None]}
    \cup {[kind |-> IF call = "anonymous" THEN "upgrade" ELSE call,
           id |-> None, target |-> None] : call \in LibraryCalls}

NoRequest == [kind |-> None, id |-> None, target |-> None]
NoReply == [result |-> None, code |-> 0]

Rpc == {"none", "prior", "recover", "recovering", "settle", "claim", "check",
        "acquire", "prepare", "handover", "upgrading", "record", "replied"}

RunnerTypeOK ==
  /\ TypeOK
  /\ rpc \in Rpc
  /\ request \in Requests \cup {NoRequest}
  /\ op \in Operation \cup {NoOperation}
  /\ receipts \in [OperationId -> Operation \cup {NoOperation}]
  /\ error \in {None, "failed", "uncertain"}
  /\ reply \in [result : Outcome \cup {None, "recovered", "replayed", "error"}, code : 0..3]

RunnerInit ==
  /\ \E installed \in Version : StoreInit(installed) /\ HostInit(installed)
  /\ NoWorker
  /\ faults = 0
  /\ rpc = "none" /\ request = NoRequest /\ op = NoOperation
  /\ receipts = [id \in OperationId |-> NoOperation]
  /\ error = None /\ reply = NoReply

-----------------------------------------------------------------------------
(* Responses                                                               *)

\* Outcome::exit_code and OperationRead::exit_code.
OutcomeCode(outcome) ==
  CASE outcome \in {"promoted", "up-to-date"} -> 0
    [] outcome = "held" -> 2
    [] outcome = None -> 3
    [] OTHER -> 1

OperationCode(operation) == IF operation = NoOperation THEN 0 ELSE OutcomeCode(operation.outcome)

\* Runner::execute for a definite result: an upgrade must leave the receipt it
\* was asked for, and success is what the receipt says, not what drive returned.
ResultCode(code) ==
  IF code # 0 THEN code
  ELSE IF request.kind = "upgrade" /\ request.id # None
          /\ (op.id # request.id \/ op.target # request.target) THEN 1
  ELSE OperationCode(op)

\* Mutant: every error is reported as final.
ErrorAlwaysFinal(kind) == 1

\* An error is final only if no operation is open and no effect is uncertain.
ErrorCode(kind) ==
  IF kind = "uncertain" \/ (op # NoOperation /\ op.outcome = None) THEN 3 ELSE 1

Reply(says, code) ==
  /\ rpc' = "replied"
  /\ reply' = [result |-> says, code |-> code]

Succeed(says, code) == Reply(says, ResultCode(code)) /\ error' = None

Fail(kind) == Reply("error", ErrorCode(kind)) /\ error' = kind

Replay(operation) == Reply("replayed", OutcomeCode(operation.outcome)) /\ error' = None

\* Runner steps that do not run the engine.
Runs(at, next) == rpc = at /\ rpc' = next /\ UNCHANGED <<reply, error>>

StoreAndEngineUnchanged == UNCHANGED <<storeVars, hostVars, workerVars, faults>>

-----------------------------------------------------------------------------
(* Runner::recover, drive and rollback up to the engine                    *)

Invoke(r) ==
  /\ rpc = "none"
  /\ r.kind = "upgrade" => Len(journal) + 7 <= MaxJournal
  /\ request' = r
  /\ rpc' = IF r.id # None THEN "prior" ELSE "recover"
  /\ reply' = NoReply /\ error' = None
  /\ UNCHANGED <<op, receipts>> /\ StoreAndEngineUnchanged

\* Runner::prior: an archived receipt wins over operation.json; a terminal one
\* is replayed and nothing is executed.
Prior ==
  /\ rpc = "prior"
  /\ LET known == IF receipts[request.id] # NoOperation THEN receipts[request.id] ELSE op
     IN IF known.id = request.id
        THEN IF known.target # request.target THEN Fail("failed")
             ELSE IF known.outcome # None THEN Replay(known)
             ELSE Runs("prior", "recover")
        ELSE IF request.kind = "recover" THEN Fail("failed")
        ELSE Runs("prior", "recover")
  /\ UNCHANGED <<request, op, receipts>> /\ StoreAndEngineUnchanged

\* FileStore::transaction_state fails on an incomplete slot.
TransactionStateFails ==
  \/ slots["stable"] = Partial
  \/ InFlight(LastPhase) /\ ~Complete("experiment")

\* The version a settled receipt says is installed.
SettledVersion == IF op.outcome = "promoted" THEN op.target ELSE op.from

SettledStateMatches ==
  /\ ~TransactionStateFails
  /\ AtRest(LastPhase)
  /\ slots["stable"] = SettledVersion

\* Engine::observe_settled: continue the sequence, touch nothing.
ObserveSettled ==
  /\ JournalReadable
  /\ seq' = NextSeq /\ pc' = "returned" /\ result' = "ok"
  /\ UNCHANGED <<fn, target, prior, evidence>>

\* Mutant: any receipt, open or settled, stands in for recovery.
RecoverTrustsReceipt ==
  /\ rpc = "recover"
  /\ IF op # NoOperation /\ SettledStateMatches
     THEN ObserveSettled /\ UNCHANGED <<storeVars, hostVars, faults>>
     ELSE BeginRecover
  /\ Runs("recover", "recovering")
  /\ UNCHANGED <<request, op, receipts>>

\* Runner::recover_engine.  rollback always recovers.
RecoverEngine ==
  /\ rpc = "recover"
  /\ IF op.outcome # None /\ request.kind # "rollback"
     THEN IF SettledStateMatches
          THEN ObserveSettled /\ Runs("recover", "recovering")
               /\ UNCHANGED <<storeVars, hostVars, faults>>
          ELSE Fail("failed") /\ StoreAndEngineUnchanged
     ELSE BeginRecover /\ Runs("recover", "recovering")
  /\ UNCHANGED <<request, op, receipts>>

\* rollback ends here, after one more clear of a slot that recovery left empty
\* and a notification that may fail.
Recovered ==
  /\ rpc = "recovering" /\ pc = "returned"
  /\ \/ result # "ok" /\ Fail(result)
     \/ result = "ok" /\ request.kind # "rollback" /\ Runs("recovering", "settle")
     \/ result = "ok" /\ request.kind = "rollback"
        /\ ((Reply("rolled-back", 1) /\ UNCHANGED error) \/ Fail("failed"))
  /\ UNCHANGED <<request, op, receipts>> /\ StoreAndEngineUnchanged

\* Mutant: the journal's phase is stored as the outcome.
SettlePhase(outcome) == op' = [op EXCEPT !.outcome = LastPhase]

\* The outcome becomes part of operation.json.
Settle(outcome) == op' = [op EXCEPT !.outcome = outcome]

\* Mutant: a promoted journal settles any receipt, whatever version it was for.
SettleIgnoresTarget ==
  /\ rpc = "settle"
  /\ IF op = NoOperation \/ op.outcome # None THEN UNCHANGED op
     ELSE Settle(IF LastPhase = "promoted" THEN "promoted" ELSE "rolled-back")
  /\ Runs("settle", "claim")
  /\ UNCHANGED <<request, receipts>> /\ StoreAndEngineUnchanged

\* Mutant: only a promotion settles the receipt.
SettleOnlyPromoted ==
  /\ rpc = "settle"
  /\ IF op # NoOperation /\ op.outcome = None
        /\ LastPhase = "promoted" /\ slots["stable"] = op.target
     THEN Settle("promoted") ELSE UNCHANGED op
  /\ Runs("settle", "claim")
  /\ UNCHANGED <<request, receipts>> /\ StoreAndEngineUnchanged

\* Runner::settle: the open receipt gets the outcome the journal proves.
SettleOperation ==
  /\ rpc = "settle"
  /\ IF TransactionStateFails /\ op # NoOperation /\ op.outcome = None
     THEN Fail("failed") /\ UNCHANGED op
     ELSE /\ IF op = NoOperation \/ op.outcome # None THEN UNCHANGED op
             ELSE IF LastPhase = "promoted" /\ slots["stable"] = op.target THEN Settle("promoted")
             ELSE IF AtRest(LastPhase) THEN Settle("rolled-back")
             ELSE UNCHANGED op
          /\ Runs("settle", "claim")
  /\ UNCHANGED <<request, receipts>> /\ StoreAndEngineUnchanged

-----------------------------------------------------------------------------
(* Runner::drive_locked                                                    *)

NewOperation ==
  [id |-> request.id, from |-> slots["stable"], target |-> request.target, outcome |-> None]

\* A recovery is complete once the receipt is settled.
RecoveryDone ==
  /\ rpc = "claim" /\ request.kind = "recover"
  /\ Succeed("recovered", 0)
  /\ UNCHANGED <<request, op, receipts>> /\ StoreAndEngineUnchanged

\* An upgrade whose own operation recovery has just settled is not run again.
ReplaySettled ==
  /\ rpc = "claim" /\ request.kind = "upgrade" /\ request.id # None
  /\ op.id = request.id /\ op.outcome # None
  /\ Replay(op)
  /\ UNCHANGED <<request, op, receipts>> /\ StoreAndEngineUnchanged

\* operation.json is another operation's.
OthersReceipt == request.id # None /\ op # NoOperation /\ op.id # request.id

\* FileStore::archive, a durable write of its own before operation.json.  The
\* refusals of another operation that is open, or archived differently, have no
\* action: recovery has settled it, and a worker that met one would be stuck.
ArchiveOther ==
  /\ rpc = "claim" /\ request.kind = "upgrade" /\ OthersReceipt
  /\ op.outcome # None /\ receipts[op.id] = NoOperation
  /\ receipts' = [receipts EXCEPT ![op.id] = op]
  /\ UNCHANGED <<rpc, request, op, error, reply>> /\ StoreAndEngineUnchanged

\* Mutant: the previous receipt is overwritten without being archived.
OpenWithoutArchive ==
  /\ rpc = "claim" /\ request.kind = "upgrade"
  /\ op.id # request.id \/ op.outcome = None
  /\ op' = IF request.id = None THEN op ELSE NewOperation
  /\ Runs("claim", "check")
  /\ UNCHANGED <<request, receipts>> /\ StoreAndEngineUnchanged

\* Mutant: a request whose operation recovery has just settled runs again.
OpenAgain ==
  /\ rpc = "claim" /\ request.kind = "upgrade"
  /\ OthersReceipt => op.outcome # None /\ receipts[op.id] = op
  /\ op' = IF request.id = None THEN op ELSE NewOperation
  /\ Runs("claim", "check")
  /\ UNCHANGED <<request, receipts>> /\ StoreAndEngineUnchanged

\* The request's own receipt is persisted, open.  A request without an
\* operation leaves operation.json as it is.
OpenOperation ==
  /\ rpc = "claim" /\ request.kind = "upgrade"
  /\ OthersReceipt => op.outcome # None /\ receipts[op.id] = op
  /\ request.id # None /\ op.id = request.id => op.outcome = None
  /\ op' = IF request.id = None THEN op ELSE NewOperation
  /\ Runs("claim", "check")
  /\ UNCHANGED <<request, receipts>> /\ StoreAndEngineUnchanged

\* Mutant: the outcome goes to whatever receipt is there.
RecordAnyway(outcome) == Settle(outcome)

\* A receipt is written only for a request that carries an operation.
Record(outcome) == IF request.id = None THEN UNCHANGED op ELSE Settle(outcome)

\* Runner::hold: the receipt first, then a notification that may fail.
Hold ==
  /\ Record("held")
  /\ ((Reply("held", 2) /\ UNCHANGED error) \/ (Reply("error", 1) /\ error' = "failed"))

\* Ends before anything was touched: a release that cannot be had, a policy or
\* a compatibility check that holds, nothing newer, or a failing compatibility
\* hook, which leaves the receipt open.
Check ==
  /\ rpc = "check"
  /\ \/ Record("failed") /\ Reply("error", 1) /\ error' = "failed"
     \/ Hold
     \/ request.target = None /\ Record("up-to-date") /\ Reply("up-to-date", 0) /\ UNCHANGED error
     \/ Fail("failed") /\ UNCHANGED op
     \/ Runs("check", "acquire") /\ UNCHANGED op
  /\ UNCHANGED <<request, receipts>> /\ StoreAndEngineUnchanged

\* Downloading, verifying, staging: an error leaves the receipt open.
Acquire ==
  /\ rpc = "acquire"
  /\ Runs("acquire", "prepare") \/ Fail("failed")
  /\ UNCHANGED <<request, op, receipts>> /\ StoreAndEngineUnchanged

\* prepare_candidate refuses with a final receipt; provenance or a receipt that
\* cannot be written leaves it open.
Prepare ==
  /\ rpc = "prepare"
  /\ \/ Record("failed") /\ Reply("error", 1) /\ error' = "failed"
     \/ Fail("failed") /\ UNCHANGED op
     \/ Runs("prepare", "handover") /\ UNCHANGED op
  /\ UNCHANGED <<request, receipts>> /\ StoreAndEngineUnchanged

\* engine.upgrade with the pinned version, or with what the source offered.
HandOver ==
  /\ rpc = "handover"
  /\ \E version \in IF request.target = None THEN Version ELSE {request.target} :
       BeginUpgrade(version)
  /\ Runs("handover", "upgrading")
  /\ UNCHANGED <<request, op, receipts>>

\* An engine error leaves the receipt open; otherwise the observers are told.
Upgraded ==
  /\ rpc = "upgrading" /\ pc = "returned"
  /\ \/ result \in {"failed", "uncertain"} /\ Fail(result)
     \/ result \notin {"failed", "uncertain"} /\ Runs("upgrading", "record")
     \/ result \in {"promoted", "rolled-back"} /\ Fail("failed")
  /\ UNCHANGED <<request, op, receipts>> /\ StoreAndEngineUnchanged

\* The terminal receipt, then the response.
RecordOutcome ==
  /\ rpc = "record"
  /\ Record(result)
  /\ Reply(result, OutcomeCode(result)) /\ UNCHANGED error
  /\ UNCHANGED <<request, receipts>> /\ StoreAndEngineUnchanged

-----------------------------------------------------------------------------
(* The worker process and its surroundings                                 *)

WorkerExits ==
  /\ rpc = "replied"
  /\ rpc' = "none" /\ request' = NoRequest /\ error' = None /\ reply' = NoReply
  /\ WorkerGone
  /\ UNCHANGED <<op, receipts, storeVars, hostVars, faults>>

WorkerCrashes ==
  /\ rpc \notin {"none", "replied"}
  /\ rpc' = "none" /\ request' = NoRequest /\ error' = None /\ reply' = NoReply
  /\ Fault /\ WorkerGone /\ Interrupted
  /\ UNCHANGED <<op, receipts>>

\* A receipt that cannot be written ends the worker with an error; the terminal
\* one may be in place before the error, as its directory fails to be synced.
ReceiptError ==
  /\ \/ rpc \in {"settle", "claim", "record"} /\ Fail("failed") /\ UNCHANGED op
     \/ /\ rpc = "record" /\ request.id # None
        /\ Settle(result) /\ Reply("error", 1) /\ error' = "failed"
  /\ Fault
  /\ UNCHANGED <<request, receipts, storeVars, hostVars, workerVars>>

EngineRuns ==
  /\ rpc \in {"recovering", "upgrading"}
  /\ WorkerStep \/ IoError
  /\ UNCHANGED runnerVars

UserStopsService ==
  /\ rpc = "none" /\ Settled /\ live # {}
  /\ UserStops
  /\ UNCHANGED <<rpc, request, op, receipts, error, reply>>

OrphanSteps == Orphans /\ UNCHANGED runnerVars

RunnerStep ==
  \/ Prior \/ RecoverEngine \/ Recovered \/ SettleOperation
  \/ RecoveryDone \/ ReplaySettled \/ ArchiveOther \/ OpenOperation
  \/ Check \/ Acquire \/ Prepare \/ HandOver \/ Upgraded \/ RecordOutcome
  \/ WorkerExits

RunnerNext ==
  \/ \E r \in Requests : Invoke(r)
  \/ RunnerStep \/ EngineRuns
  \/ WorkerCrashes \/ ReceiptError
  \/ UserStopsService \/ OrphanSteps

RunnerSpec == RunnerInit /\ [][RunnerNext]_allVars

\* A live worker keeps executing, orphaned controllers end, and among all
\* invocations a plain recover (the OS startup hook, a person) comes round.
RunnerFairness ==
  /\ WF_allVars(RunnerStep) /\ WF_allVars(EngineRuns) /\ WF_allVars(OrphanSteps)
  /\ SF_allVars(\E r \in Requests : r.kind = "recover" /\ r.id = None /\ Invoke(r))

FairRunnerSpec == RunnerSpec /\ RunnerFairness

-----------------------------------------------------------------------------
(* Properties                                                              *)

\* What a caller learns from the exit code of a request it made for its own
\* operation: unless it is 3, nothing is owed, and the operation's receipt is
\* settled and tells which version is installed; with 0 it is the target.
ExitCodeIsTrue ==
  rpc = "replied" /\ request.id # None /\ reply.result # "replayed" /\ reply.code # 3 =>
    /\ Settled
    /\ op.id = request.id => op.outcome # None /\ slots["stable"] = SettledVersion
    /\ reply.code = 0 => slots["stable"] = request.target

\* What is recorded of an id: its archived receipt, else operation.json.
Recorded(id) ==
  IF receipts[id] # NoOperation THEN receipts[id] ELSE IF op.id = id THEN op ELSE NoOperation

\* The outcome recorded for an id, in operation.json or the archive.
RecordedOutcome(id) == Recorded(id).outcome

\* A terminal receipt is final: later operations, crashes and recoveries neither
\* change it nor lose it, so a repeated request is answered the same way.
ReceiptsAreFinal ==
  [][\A id \in OperationId :
       RecordedOutcome(id) # None => RecordedOutcome(id)' = RecordedOutcome(id)]_allVars

\* A settled receipt agrees with the store between invocations: it is the
\* condition without which every later invocation is refused.
SettledReceiptMatchesStore ==
  rpc = "none" /\ op.outcome # None => SettledStateMatches

\* Every operation that was opened gets an outcome once faults cease.
OperationsSettle ==
  \A id \in OperationId :
    (op.id = id /\ op.outcome = None) ~> (op.id = id /\ op.outcome # None)

\* New work is accepted only once the unfinished work of every earlier
\* invocation is settled: from the check of a new release on, nothing is owed.
SettledBeforeNewWork ==
  rpc \in {"check", "acquire", "prepare", "handover"} => Settled

Ledger ==
  INSTANCE OperationLedger WITH
    latest <- op.id,
    ledger <- [id \in OperationId |->
                 [target |-> Recorded(id).target, outcome |-> Recorded(id).outcome]]

\* Whatever workers, crashes and retries do to operation.json and the archive,
\* together they are the ledger: ids are bound once, one operation is open at a
\* time, and each gets one outcome.
ImplementsLedger == Ledger!LedgerSpec
=============================================================================
