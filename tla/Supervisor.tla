----------------------------- MODULE Supervisor -----------------------------
(***************************************************************************)
(* The process that outlives the service and drives a worker to a settled  *)
(* result (src/src/supervisor.rs), composed with what it supervises:       *)
(* worker processes (Runner::execute, src/src/runner.rs, seen from         *)
(* outside), the upgrade lock as a holder, the ledger that Runner          *)
(* implements, and the quarantine of a state directory                     *)
(* (src/src/quarantine.rs).  Several invocations contend; workers and      *)
(* supervisors die at every point; a killed worker may be slow to go.      *)
(***************************************************************************)
EXTENDS Naturals, FiniteSets

CONSTANTS
  OperationId, Version,
  Job,               \* supervise_bytes calls, resumed ones included
  RecoveryAttempts,  \* LaunchOptions::recovery_attempts
  Quarantiner,       \* a caller of quarantine_state
  None               \* the absent value of an Option

Outcome == {"promoted", "rolled-back", "held", "up-to-date", "failed"}

Result == {"held", "busy", "replayed", "recovered", "finished", "error"}

VARIABLES
  ledger, latest,
  job,      \* each call of supervise_bytes
  worker,   \* the worker process of each of its attempts
  holder,   \* who holds the upgrade lock
  aside,    \* where quarantine_state stands
  ever      \* history: the outcomes ever recorded for an id

INSTANCE OperationLedger

vars == <<ledger, latest, job, worker, holder, aside, ever>>

Attempt == 0..RecoveryAttempts

ASSUME SupervisorAssumption ==
  /\ RecoveryAttempts \in Nat
  /\ None \notin OperationId \cup Version \cup Job \cup Outcome \cup Result
  /\ Quarantiner # None /\ \A w \in Job \X Attempt : w \notin {None, Quarantiner}

\* What the requests ask for.  An upgrade names an id and its target; a recovery
\* names what it expects, or is an operator's (id None).
Request ==
  [kind : {"upgrade", "recover"}, id : OperationId, target : Version]
    \cup {[kind |-> "recover", id |-> None, target |-> None]}
NoRequest == [kind |-> None, id |-> None, target |-> None]

\* Operation as a response carries it.
Receipt == [id : OperationId, target : Version, outcome : Outcome \cup {None}]
Genesis == [id |-> None, target |-> None, outcome |-> None]

ReceiptOf(id) ==
  IF id = None THEN Genesis
  ELSE [id |-> id, target |-> ledger[id].target, outcome |-> ledger[id].outcome]

JobStage == {"unused", "attempting", "waiting", "killing", "returned", "dead"}

WorkerStage == {"none", "running", "locked", "claim", "working", "done", "gone"}

TypeOK ==
  /\ ledger \in [OperationId -> Entry \cup {Unknown}] /\ latest \in OperationId \cup {None}
  /\ job \in [Job -> [at : JobStage, request : Request \cup {NoRequest}, attempt : Attempt,
                      exit : {None} \cup 0..3, kept : BOOLEAN,
                      resumes : Job \cup {None}]]
  /\ worker \in [Job \X Attempt -> [at : WorkerStage, result : Result \cup {None},
                                    receipt : Receipt \cup {Genesis}, code : {None} \cup 0..3]]
  /\ holder \in (Job \X Attempt) \cup {None, Quarantiner}
  /\ aside \in {"no", "locked", "moved"}
  /\ ever \in [OperationId -> SUBSET Outcome]

NoWorker == [at |-> "none", result |-> None, receipt |-> Genesis, code |-> None]
NoJob == [at |-> "unused", request |-> NoRequest, attempt |-> 0,
          exit |-> None, kept |-> FALSE, resumes |-> None]

Init ==
  /\ LedgerInit
  /\ job = [j \in Job |-> NoJob]
  /\ worker = [w \in Job \X Attempt |-> NoWorker]
  /\ holder = None /\ aside = "no"
  /\ ever = [id \in OperationId |-> {}]

\* Outcome::exit_code, and 3 for an open operation.
OutcomeCode(outcome) ==
  CASE outcome \in {"promoted", "up-to-date"} -> 0
    [] outcome = "held" -> 2
    [] outcome = None -> 3
    [] OTHER -> 1

ReceiptCode(receipt) == IF receipt = Genesis THEN 0 ELSE OutcomeCode(receipt.outcome)

-----------------------------------------------------------------------------
(* The worker: Runner::execute                                             *)

Alive(w) == worker[w].at \notin {"none", "gone"}

\* The request a worker is given: the first attempt serves the caller's, the
\* others recover what it expected.
Recovers(w) == w[2] > 0 \/ job[w[1]].request.kind = "recover"
Wanted(w) == job[w[1]].request

Step(w, from, to) == worker[w].at = from /\ worker' = [worker EXCEPT ![w].at = to]

Gone == [NoWorker EXCEPT !.at = "gone"]

Releases(w) == holder' = IF holder = w THEN None ELSE holder

\* The entry point returns and the guard is released; the response is still to
\* be put together.
Returns(w, result, code) ==
  /\ worker' = [worker EXCEPT ![w] = [NoWorker EXCEPT !.at = "done", !.result = result, !.code = code]]
  /\ Releases(w)

\* The process answers and ends, with it a guard that was retained after an
\* uncertain host call.  What nobody waits for any more is lost.
Ends(w, response) ==
  /\ worker' = [worker EXCEPT ![w] = IF job[w[1]].at = "waiting" THEN response ELSE Gone]
  /\ Releases(w)

Answer(result, receipt, code) ==
  [at |-> "gone", result |-> result, receipt |-> receipt, code |-> code]

Fails(w) == Ends(w, Answer("error", Genesis, 3))
Replays(w, id) == Ends(w, Answer("replayed", ReceiptOf(id), OutcomeCode(ledger[id].outcome)))

\* Hooks::managed_elsewhere: no lock, no receipt.  The notification may fail.
ManagedElsewhere(w) ==
  /\ worker[w].at = "running" /\ ~Recovers(w)
  /\ Returns(w, "held", 2) \/ Fails(w)
  /\ UNCHANGED <<ledger, latest, ever>>

\* UpgradeLock::acquire_at: a call that finds a live contender gives up, also
\* when that one ends up without the lock.
Refused(w) ==
  /\ worker[w].at = "running"
  /\ holder # None \/ \E o \in DOMAIN worker \ {w} : worker[o].at = "running"
  /\ Ends(w, Answer("busy", Genesis, 2))
  /\ UNCHANGED <<ledger, latest, ever>>

Acquire(w) ==
  /\ holder = None /\ Step(w, "running", "locked")
  /\ holder' = w
  /\ UNCHANGED <<ledger, latest, ever>>

Known(id) == IF id = None THEN Unknown ELSE ledger[id]

\* Mutant: a recovery whose operation is unknown settles whatever is open.
PassesUnbound(w) == Known(Wanted(w).id).outcome = None

\* Runner::prior: a known operation must have the wanted target; a finished one
\* is replayed; a recovery of an unknown one is refused.
Passes(w) ==
  LET known == Known(Wanted(w).id)
  IN IF known = Unknown THEN Wanted(w).id = None \/ ~Recovers(w)
     ELSE known.outcome = None /\ known.target = Wanted(w).target

Prior(w) ==
  /\ worker[w].at = "locked" /\ ~Passes(w)
  /\ LET known == Known(Wanted(w).id)
     IN IF known.outcome # None /\ known.target = Wanted(w).target
        THEN Replays(w, Wanted(w).id)
        ELSE Fails(w)
  /\ UNCHANGED <<ledger, latest, ever>>

Finish(id, outcome) ==
  /\ Close(id, outcome)
  /\ ever' = [ever EXCEPT ![id] = @ \cup {outcome}]

\* Runner::recover_engine and settle: an open operation gets the outcome the
\* journal proves, or an error leaves it open.
Settle(w) ==
  /\ worker[w].at = "locked" /\ Passes(w)
  /\ \/ /\ \/ \E id \in OperationId, outcome \in {"promoted", "rolled-back"} : Finish(id, outcome)
           \/ NothingOpen /\ UNCHANGED <<ledger, latest, ever>>
        /\ IF Recovers(w) THEN Returns(w, "recovered", 0)
           ELSE Step(w, "locked", "claim") /\ UNCHANGED holder
     \/ Fails(w) /\ UNCHANGED <<ledger, latest, ever>>

\* drive_locked: an operation that recovery has just settled is replayed, else
\* the request's receipt is opened, unless it cannot be written.
Claim(w) ==
  /\ worker[w].at = "claim"
  /\ \/ /\ ledger[Wanted(w).id].outcome # None
        /\ Replays(w, Wanted(w).id)
        /\ UNCHANGED <<ledger, latest>>
     \/ /\ Open(Wanted(w).id, Wanted(w).target)
        /\ Step(w, "claim", "working") /\ UNCHANGED holder
     \/ ledger[Wanted(w).id] = Unknown /\ Fails(w) /\ UNCHANGED <<ledger, latest>>
  /\ UNCHANGED ever

\* The rest of drive_locked: an outcome that is answered or followed by an
\* error, or an error that leaves the operation open.
Work(w) ==
  /\ worker[w].at = "working"
  /\ \/ \E outcome \in Outcome :
          /\ Finish(Wanted(w).id, outcome)
          /\ \/ Fails(w)
             \/ outcome # "failed" /\ Returns(w, "finished", OutcomeCode(outcome))
     \/ Fails(w) /\ UNCHANGED <<ledger, latest, ever>>

\* execute reads operation.json after the guard is gone: it may hold another
\* worker's operation by then.  An upgrade that returned success must find its
\* own receipt there, and a zero code becomes what the receipt says.
ResponseTo(w) ==
  LET done == worker[w]
      receipt == ReceiptOf(latest)
      own == receipt.id = Wanted(w).id /\ receipt.target = Wanted(w).target
  IN IF done.code = 0 /\ ~Recovers(w) /\ ~own THEN Answer("error", receipt, 1)
     ELSE Answer(done.result, receipt, IF done.code = 0 THEN ReceiptCode(receipt) ELSE done.code)

Responds(w) ==
  /\ worker[w].at = "done"
  /\ Ends(w, ResponseTo(w))
  /\ UNCHANGED <<ledger, latest, ever>>

\* A worker that dies leaves no response that its exit code could agree with.
Dies(w) ==
  /\ Alive(w)
  /\ Ends(w, Gone)
  /\ UNCHANGED <<ledger, latest, ever>>

WorkerRuns(w) ==
  \/ ManagedElsewhere(w) \/ Refused(w) \/ Acquire(w) \/ Prior(w) \/ Settle(w) \/ Claim(w)
  \/ Work(w) \/ Responds(w)

-----------------------------------------------------------------------------
(* The supervisor: supervise_bytes, run and resume_runner                  *)

\* The worker of the attempt under way.
Current(j) == <<j, job[j].attempt>>

Active(j) == job[j].at \in {"attempting", "waiting", "killing"}

\* The runner and recovery.json are durable before any worker is started.
Launch(j) ==
  /\ job[j].at = "unused"
  /\ \E r \in Request :
       job' = [job EXCEPT ![j] = [NoJob EXCEPT !.at = "attempting", !.request = r, !.kept = TRUE]]
  /\ UNCHANGED worker

\* resume_runner supervises the request of a retained descriptor, which must be
\* bound to an operation, all over again.
Resume(j, k) ==
  /\ job[j].at = "unused"
  /\ job[k].kept /\ job[k].at \in {"returned", "dead"} /\ job[k].request.id # None
  /\ job' = [job EXCEPT ![j] = [NoJob EXCEPT !.at = "attempting", !.kept = TRUE, !.resumes = k,
                                  !.request = [job[k].request EXCEPT !.kind = "recover"]]]
  /\ UNCHANGED worker

\* What the worker of the attempt under way is asked to do, and echoes.
Action(j) == IF Recovers(Current(j)) THEN "recover" ELSE "upgrade"

\* Mutant: any finished operation that the response shows will do.
AnyAnswer(response, request) ==
  /\ response.result \notin {"error", "busy"}
  /\ response.code # 3

\* A response without an error that is bound to the expected operation, if any,
\* and agrees with its outcome.
BoundAnswer(response, request) ==
  /\ response.result \notin {"error", "busy"}
  /\ IF request.id # None
     THEN /\ response.receipt.id = request.id /\ response.receipt.target = request.target
          /\ response.receipt.outcome # None
          /\ OutcomeCode(response.receipt.outcome) = response.code
     ELSE response.code # 3 /\ (response.receipt # Genesis => response.receipt.outcome # None)

\* Mutant: a busy recovery worker settles the upgrade it was to recover.
SettledByBusy(response, request, action) ==
  \/ request.kind = "upgrade" /\ response.result = "busy"
  \/ BoundAnswer(response, request)

\* settled.  A first upgrade that was refused the lock created nothing.
SettledBy(response, request, action) ==
  \/ request.kind = "upgrade" /\ action = "upgrade" /\ response.result = "busy"
  \/ BoundAnswer(response, request)

Returned(j, exit, kept) ==
  [job EXCEPT ![j].at = "returned", ![j].exit = exit, ![j].kept = kept]

\* Mutant: an attempt too many.
ConcludeLate(j, fenced, response) ==
  IF fenced /\ response.code # None /\ SettledBy(response, job[j].request, Action(j))
  THEN job' = Returned(j, response.code, FALSE)
  ELSE job' = IF ~fenced \/ job[j].request.id = None \/ job[j].attempt > RecoveryAttempts
              THEN Returned(j, 3, TRUE)
              ELSE [job EXCEPT ![j].at = "attempting", ![j].attempt = @ + 1]

\* The end of an attempt.  Settled: the descriptor is removed, the resumed one
\* too.  Not settled: the next attempt, unless the worker may still be alive,
\* the request is unbound or the attempts are used up.
Conclude(j, fenced, response) ==
  IF fenced /\ response.code # None /\ SettledBy(response, job[j].request, Action(j))
  THEN job' = LET settled == Returned(j, response.code, FALSE)
              IN [k \in Job |-> IF k = job[j].resumes THEN [settled[k] EXCEPT !.kept = FALSE]
                                ELSE settled[k]]
  ELSE job' = IF ~fenced \/ job[j].request.id = None \/ job[j].attempt = RecoveryAttempts
              THEN Returned(j, 3, TRUE)
              ELSE [job EXCEPT ![j].at = "attempting", ![j].attempt = @ + 1]

\* run: a worker of its own; one that cannot be spawned has certainly exited.
Spawn(j) ==
  /\ job[j].at = "attempting"
  /\ \/ /\ job' = [job EXCEPT ![j].at = "waiting"]
        /\ worker' = [worker EXCEPT ![Current(j)].at = "running"]
     \/ Conclude(j, TRUE, NoWorker) /\ UNCHANGED worker

\* The total budget is used up before a recovery attempt.
Deadline(j) ==
  /\ job[j].at = "attempting" /\ job[j].attempt > 0
  /\ job' = Returned(j, 3, TRUE)
  /\ UNCHANGED worker

\* The response is read to its end and the exit observed within the budget.
Observe(j) ==
  /\ job[j].at = "waiting" /\ ~Alive(Current(j))
  /\ Conclude(j, TRUE, worker[Current(j)])
  /\ worker' = [worker EXCEPT ![Current(j)] = Gone]

\* The budget expires or the pipe fails: the worker is sent a kill, and what it
\* may have answered is lost.
Expire(j) ==
  /\ job[j].at = "waiting"
  /\ job' = [job EXCEPT ![j].at = "killing"]
  /\ worker' = [worker EXCEPT ![Current(j)] = IF Alive(Current(j)) THEN @ ELSE Gone]

\* Mutant: a deadline alone counts as an exit.
AwaitKilledBlindly(j) ==
  /\ job[j].at = "killing"
  /\ Conclude(j, TRUE, NoWorker)
  /\ UNCHANGED worker

\* One second to observe the exit of a killed worker.
AwaitKilled(j) ==
  /\ job[j].at = "killing"
  /\ Conclude(j, ~Alive(Current(j)), NoWorker)
  /\ UNCHANGED worker

\* The supervisor dies: the descriptor stays, and so does its worker.
SupervisorDies(j) ==
  /\ Active(j)
  /\ job' = [job EXCEPT ![j].at = "dead"]
  /\ worker' = [worker EXCEPT ![Current(j)] = IF Alive(Current(j)) \/ @ = NoWorker THEN @ ELSE Gone]

Supervises(j) == Spawn(j) \/ Deadline(j) \/ Observe(j) \/ Expire(j) \/ AwaitKilled(j)

-----------------------------------------------------------------------------
(* quarantine_state: the state directory is renamed away under its lock    *)

QuarantineLock ==
  /\ aside = "no" /\ holder = None
  /\ aside' = "locked" /\ holder' = Quarantiner
  /\ UNCHANGED <<ledger, latest>>

\* An open operation needs a handoff that proves the host safe; without it, or
\* if the process dies, the directory stays.
QuarantineFails ==
  /\ aside = "locked"
  /\ aside' = "no" /\ holder' = None
  /\ UNCHANGED <<ledger, latest>>

\* The lock moves away with the directory: the guard then finds no claim of its
\* own to remove.
QuarantineMoves ==
  /\ aside = "locked"
  /\ aside' = "moved" /\ holder' = None
  /\ ledger' = [id \in OperationId |-> Unknown] /\ latest' = None

Quarantines == QuarantineLock \/ QuarantineFails \/ QuarantineMoves

-----------------------------------------------------------------------------

Next ==
  \/ /\ \E w \in Job \X Attempt : WorkerRuns(w) \/ Dies(w)
     /\ UNCHANGED <<job, aside>>
  \/ /\ \E j \in Job : Launch(j) \/ (\E k \in Job : Resume(j, k)) \/ Supervises(j) \/ SupervisorDies(j)
     /\ UNCHANGED <<ledger, latest, holder, aside, ever>>
  \/ Quarantines /\ UNCHANGED <<job, worker, ever>>

Spec == Init /\ [][Next]_vars

-----------------------------------------------------------------------------
(* Properties                                                              *)

\* "An unconfirmed worker exit forbids takeover": at any time an invocation has
\* one worker process, also after the supervisor gave up on it.
OneWorkerAtATime ==
  \A j \in Job : \A a, b \in Attempt : Alive(<<j, a>>) /\ Alive(<<j, b>>) => a = b

\* What a caller may conclude from an exit code other than 3 of a bound request:
\* its operation ended with an outcome of that code, or (2) the first worker of
\* an upgrade was refused the lock.  It holds although another worker's
\* operation may be what the response shows, and across a quarantine.
ExitIsTrue ==
  [][\A j \in Job :
       job[j].at # "returned" /\ job'[j].at = "returned" /\ job'[j].exit # 3
         /\ job[j].request.id # None =>
       \/ \E outcome \in ever[job[j].request.id] : OutcomeCode(outcome) = job'[j].exit
       \/ /\ job'[j].exit = 2 /\ job[j].request.kind = "upgrade"
          /\ job[j].attempt = 0 /\ worker[Current(j)].result = "busy"]_vars

\* The means to recover an operation are kept while it is open: some invocation
\* that asked for it still has its descriptor (until somebody moves the state
\* directory away, and the history with it).
OpenIsRecoverable ==
  \A id \in OperationId :
    IsOpen(id) /\ aside # "moved" => \E j \in Job : job[j].kept /\ job[j].request.id = id

\* "Without modifying the newer operation": a recovery worker that is bound to
\* an operation never gives another one its outcome.
RecoveryIsBound ==
  [][\A w \in Job \X Attempt, id \in OperationId :
       holder = w /\ Recovers(w) /\ Wanted(w).id # None
         /\ ever[id]' # ever[id] => id = Wanted(w).id]_vars

\* "Held: ... owned elsewhere": an upgrade whose first worker answers held
\* because the installation is managed elsewhere is reported as held.
OwnedElsewhereIsHeld ==
  [][\A j \in Job :
       job[j].at = "waiting" /\ worker[Current(j)].result = "held" /\ job'[j].at # "waiting"
         => job'[j].exit = 2 \/ job'[j].at \in {"killing", "dead"}]_vars
=============================================================================
