---------------------------- MODULE CommandHost -----------------------------
(***************************************************************************)
(* How CommandHost (src/src/host.rs) drives a product's controller: every  *)
(* call is a process with a durable record, which the fence of a later     *)
(* worker waits for.  Workers follow one another under the upgrade lock.   *)
(* One that finds a settled receipt issues calls without a fence           *)
(* (observe_settled), any other begins with Engine::recover's fence; they  *)
(* may die, or a budget may drop a call, at every point.  The controllers  *)
(* and the product behind them are code outside the repository, modelled   *)
(* by the controller protocol: a request cut short authorizes nothing,     *)
(* "ok" is answered once the effect is in place, and "ok" to a fence once  *)
(* nothing is queued.                                                      *)
(***************************************************************************)
EXTENDS Naturals

CONSTANTS
  Controller,       \* controller processes; one whose traces are gone is reused
  MaxFaults,        \* bound on deaths, expired budgets, errors and reused pids
  UnreceiptedCalls, \* calls may run under a settled receipt: Runner::rollback,
                    \* or an upgrade without an operation
  None              \* the absent value of an Option

ASSUME CommandHostAssumption ==
  MaxFaults \in Nat /\ UnreceiptedCalls \in BOOLEAN /\ None \notin Controller

VARIABLES
  ctl,      \* the controller processes
  records,  \* files in controllers/, by the process they name
  reused,   \* pids of finished controllers that other processes have now
  worker,   \* the worker process and the call it is in
  settled,  \* operation.json holds an outcome
  faults    \* faults so far

vars == <<ctl, records, reused, worker, settled, faults>>

Kind == {"fence", "probe", "effect"}
Answer == {"ok", "failed", "uncertain"}

\* A process is waiting for its request, told what to do, or gone.  Its effect
\* is owed while it may still bring it about, queued when it handed it to the
\* product, or done.
Process ==
  [at : {"waiting", "told", "gone"}, kind : Kind, effect : {"none", "owed", "queued", "done"},
   answer : Answer]

\* What entitles the worker to issue calls: nothing yet, the fence it passed, or
\* the settled receipt it found.
Entry == {"none", "fence", "receipt"}

WorkerStage ==
  {"none", "draining", "idle", "recording", "delivering", "awaiting", "reaping", "over"}

TypeOK ==
  /\ ctl \in [Controller -> Process]
  /\ records \subseteq Controller /\ reused \subseteq records
  /\ worker \in [at : WorkerStage, call : Controller \cup {None}, todo : SUBSET Controller,
                 entry : Entry, outcome : Answer]
  /\ settled \in BOOLEAN
  /\ faults \in 0..MaxFaults

NeverSpawned == [at |-> "gone", kind |-> "probe", effect |-> "none", answer |-> "failed"]
NoWorker == [at |-> "none", call |-> None, todo |-> {}, entry |-> "none", outcome |-> "failed"]

Init ==
  /\ ctl = [c \in Controller |-> NeverSpawned]
  /\ records = {} /\ reused = {}
  /\ worker = NoWorker
  /\ settled = FALSE
  /\ faults = 0

Fault == faults < MaxFaults /\ faults' = faults + 1
NoFault == UNCHANGED faults

Gone(c) == ctl[c].at = "gone"

\* Mutant: a record stands for a live process.
PidRecorded(c) == c \in records

\* process_alive: also true of an unrelated process that has the pid now.
PidAlive(c) == ~Gone(c) \/ c \in reused

Pending == {c \in Controller : ctl[c].effect \in {"owed", "queued"}}

-----------------------------------------------------------------------------
(* The worker: how it begins, and when its receipt is written              *)

Goes(stage) == worker' = [worker EXCEPT !.at = stage]

\* The worker issues nothing more and is about to exit.
Over == worker' = [NoWorker EXCEPT !.at = "over"]

\* Engine::recover: the worker lists the records it finds, for the fence.  With a
\* settled receipt only Runner::rollback gets here.
StartRecovery ==
  /\ worker.at = "none" /\ (settled => UnreceiptedCalls)
  /\ worker' = [NoWorker EXCEPT !.at = "draining", !.todo = records]
  /\ UNCHANGED <<ctl, records, reused, settled>> /\ NoFault

\* recover_engine with a settled receipt: observe_settled makes no call and waits
\* for nothing, records of earlier controllers included.
StartSettled ==
  /\ worker.at = "none" /\ settled
  /\ worker' = [NoWorker EXCEPT !.at = "idle", !.entry = "receipt"]
  /\ UNCHANGED <<ctl, records, reused, settled>> /\ NoFault

\* drive_locked: the receipt of a new operation, durable before any call for it.
OpenReceipt ==
  /\ worker.at = "idle" /\ settled
  /\ settled' = FALSE
  /\ UNCHANGED <<ctl, records, reused, worker>> /\ NoFault

\* Mutant: the outcome is also recorded at the end that an uncertain call makes.
SettleAnyEnd ==
  /\ worker.at \in {"idle", "over"} /\ ~settled
  /\ settled' = TRUE
  /\ UNCHANGED <<ctl, records, reused, worker>> /\ NoFault

\* transition: after recovery (settle), or with the outcome of the upgrade.  An
\* uncertain or failed call makes the worker leave before it gets here.
SettleReceipt ==
  /\ worker.at = "idle" /\ ~settled
  /\ settled' = TRUE
  /\ UNCHANGED <<ctl, records, reused, worker>> /\ NoFault

-----------------------------------------------------------------------------
(* The worker: CommandHost::fence and call                                 *)

\* Mutant: a record is removed without waiting for its process.
DrainAtOnce(c) ==
  /\ worker.at = "draining" /\ c \in worker.todo
  /\ records' = records \ {c}
  /\ worker' = [worker EXCEPT !.todo = @ \ {c}]
  /\ UNCHANGED <<ctl, reused, settled>> /\ NoFault

\* fence: a recorded controller is seen dead and its record removed.
Drain(c) ==
  /\ worker.at = "draining" /\ c \in worker.todo /\ ~PidAlive(c)
  /\ records' = records \ {c}
  /\ worker' = [worker EXCEPT !.todo = @ \ {c}]
  /\ UNCHANGED <<ctl, reused, settled>> /\ NoFault

\* The deadline passes while a recorded pid is alive.
DrainGivesUp ==
  /\ worker.at = "draining" /\ \E c \in worker.todo : PidAlive(c)
  /\ Over
  /\ UNCHANGED <<ctl, records, reused, settled>> /\ NoFault

Free(c) == Gone(c) /\ c \notin records /\ ctl[c].effect # "queued" /\ worker.call # c

\* call: the process is started with its pipes open.  The first call of a
\* recovery is the fence; an upgrade with an operation calls under its own, open
\* receipt.
SpawnController(c, kind) ==
  /\ \/ worker.at = "draining" /\ worker.todo = {} /\ kind = "fence"
     \/ worker.at = "idle" /\ kind # "fence" /\ (settled => UnreceiptedCalls)
  /\ Free(c)
  /\ ctl' = [ctl EXCEPT ![c] = [at |-> "waiting", kind |-> kind, effect |-> "none", answer |-> "failed"]]
  /\ worker' = [worker EXCEPT !.at = "recording", !.call = c]
  /\ UNCHANGED <<records, reused, settled>> /\ NoFault

\* Mutant: the record is left to be written when the call is over.
RecordLater ==
  /\ worker.at = "recording"
  /\ Goes("delivering")
  /\ UNCHANGED <<ctl, records, reused, settled>> /\ NoFault

\* The record is durable before the request is written.
WriteRecord ==
  /\ worker.at = "recording"
  /\ records' = records \cup {worker.call}
  /\ Goes("delivering")
  /\ UNCHANGED <<ctl, reused, settled>> /\ NoFault

\* An error on the way to the request: the call ends without it.
CallFails ==
  /\ \/ worker.at = "recording" /\ records' \in {records, records \cup {worker.call}} /\ Fault
     \/ worker.at = "delivering" /\ UNCHANGED records /\ Fault
     \/ worker.at = "delivering" /\ Gone(worker.call) /\ UNCHANGED records /\ NoFault
  /\ worker' = [worker EXCEPT !.at = "reaping", !.outcome = "failed"]
  /\ UNCHANGED <<ctl, reused, settled>>

Deliver ==
  /\ worker.at = "delivering" /\ ~Gone(worker.call)
  /\ ctl' = [ctl EXCEPT ![worker.call].at = "told",
                        ![worker.call].effect = IF ctl[worker.call].kind = "effect" THEN "owed" ELSE "none"]
  /\ Goes("awaiting")
  /\ UNCHANGED <<records, reused, settled>> /\ NoFault

\* The response is read to its end and the exit awaited.
Hear ==
  /\ worker.at = "awaiting" /\ Gone(worker.call)
  /\ worker' = [worker EXCEPT !.at = "reaping", !.outcome = ctl[worker.call].answer]
  /\ UNCHANGED <<ctl, records, reused, settled>> /\ NoFault

\* HOST_CALL_TIMEOUT; the controller is sent a kill, which may take its time.
TimeOut ==
  /\ worker.at \in {"delivering", "awaiting"}
  /\ worker' = [worker EXCEPT !.at = "reaping", !.outcome = "uncertain"]
  /\ UNCHANGED <<ctl, records, reused, settled>> /\ Fault

\* What a worker does after a call: only a definite answer lets it go on, and a
\* definite failure only if it was a probe's.
Continues(c) ==
  worker.outcome = "ok" \/ (worker.outcome = "failed" /\ ctl[c].kind = "probe")

AfterCall(c) ==
  IF Continues(c)
  THEN worker' = [NoWorker EXCEPT !.at = "idle",
                                  !.entry = IF ctl[c].kind = "fence" THEN "fence" ELSE worker.entry]
  ELSE Over

\* The exit is observed: the record goes, and the outcome counts.
Reap ==
  /\ worker.at = "reaping" /\ Gone(worker.call)
  /\ records' = records \ {worker.call}
  /\ AfterCall(worker.call)
  /\ UNCHANGED <<ctl, reused, settled>> /\ NoFault

\* No exit within a second, or the record cannot be removed: it is retained.
ReapFails ==
  /\ worker.at = "reaping"
  /\ IF Gone(worker.call) THEN Fault ELSE NoFault
  /\ Over
  /\ UNCHANGED <<ctl, records, reused, settled>>

\* Mutant: a probe that outlasts its budget counts as a failed one, and the worker
\* goes on.
DropProbe ==
  /\ worker.at \in {"draining", "delivering", "awaiting", "reaping"}
  /\ IF worker.at # "draining" /\ ctl[worker.call].kind = "probe"
     THEN worker' = [NoWorker EXCEPT !.at = "idle", !.entry = worker.entry]
     ELSE Over
  /\ UNCHANGED <<ctl, records, reused, settled>> /\ Fault

\* Engine::bounded drops the call wherever it waits: the pipes are closed, the
\* controller goes on.
DropCall ==
  /\ worker.at \in {"draining", "delivering", "awaiting", "reaping"}
  /\ Over
  /\ UNCHANGED <<ctl, records, reused, settled>> /\ Fault

WorkerEnds ==
  /\ worker.at \in {"idle", "over"}
  /\ worker' = NoWorker
  /\ UNCHANGED <<ctl, records, reused, settled>> /\ NoFault

WorkerDies ==
  /\ worker.at \notin {"none", "over"}
  /\ worker' = NoWorker
  /\ UNCHANGED <<ctl, records, reused, settled>> /\ Fault

-----------------------------------------------------------------------------
(* Controllers, the product and other processes                            *)

\* A living worker still writes to the process or waits for its answer.
Attended(c) == worker.call = c /\ worker.at \in {"recording", "delivering", "awaiting"}

\* What it may truthfully answer.
MayAnswerOk(c) ==
  /\ ctl[c].at = "told"
  /\ CASE ctl[c].kind = "effect" -> ctl[c].effect = "done"
       [] ctl[c].kind = "fence" -> \A d \in Controller : ctl[d].effect # "queued"
       [] OTHER -> TRUE

\* The process ends, with an answer that somebody may hear.  One that reads EOF
\* instead of a request, was killed or is not attended ends as it likes.
ControllerExits(c) ==
  /\ ~Gone(c)
  /\ \E answer \in Answer :
       /\ answer = "ok" => MayAnswerOk(c)
       /\ IF Attended(c) /\ answer # "ok" THEN Fault ELSE NoFault
       /\ ctl' = [ctl EXCEPT ![c].at = "gone", ![c].answer = answer,
                             ![c].effect = IF @ = "queued" THEN @ ELSE "none"]
  /\ UNCHANGED <<records, reused, worker, settled>>

\* The controller hands its effect to the product.
Queue(c) ==
  /\ ctl[c].effect = "owed"
  /\ ctl' = [ctl EXCEPT ![c].effect = "queued"]
  /\ UNCHANGED <<records, reused, worker, settled>> /\ NoFault

\* The effect lands, brought about by the controller or the product.
EffectLands(c) ==
  /\ c \in Pending
  /\ ctl' = [ctl EXCEPT ![c].effect = IF Gone(c) THEN "none" ELSE "done"]
  /\ UNCHANGED <<records, reused, worker, settled>> /\ NoFault

\* The product discards it: drained by a fence, or superseded.
EffectDropped(c) ==
  /\ ctl[c].effect = "queued" /\ Gone(c)
  /\ ctl' = [ctl EXCEPT ![c].effect = "none"]
  /\ UNCHANGED <<records, reused, worker, settled>> /\ NoFault

\* The pid of a finished controller is given to another process ...
PidReused(c) ==
  /\ Gone(c) /\ c \in records \ reused /\ worker.call # c
  /\ reused' = reused \cup {c}
  /\ UNCHANGED <<ctl, records, worker, settled>> /\ Fault

\* ... which ends some day.
PidFreed(c) ==
  /\ c \in reused
  /\ reused' = reused \ {c}
  /\ UNCHANGED <<ctl, records, worker, settled>> /\ NoFault

-----------------------------------------------------------------------------

WorkerRuns ==
  \/ \E c \in Controller : Drain(c) \/ \E kind \in Kind : SpawnController(c, kind)
  \/ OpenReceipt \/ SettleReceipt
  \/ DrainGivesUp \/ WriteRecord \/ CallFails \/ Deliver \/ Hear \/ Reap \/ ReapFails
  \/ WorkerEnds

Surroundings(c) ==
  ControllerExits(c) \/ Queue(c) \/ EffectLands(c) \/ EffectDropped(c) \/ PidReused(c) \/ PidFreed(c)

Next ==
  \/ StartRecovery \/ StartSettled \/ WorkerRuns \/ TimeOut \/ DropCall \/ WorkerDies
  \/ \E c \in Controller : Surroundings(c)

Spec == Init /\ [][Next]_vars

\* A worker keeps executing and another is started when it is gone; processes
\* end; what the product has queued lands or is discarded.
Fairness ==
  /\ WF_vars(StartRecovery) /\ WF_vars(WorkerRuns)
  /\ \A c \in Controller :
       WF_vars(ControllerExits(c)) /\ WF_vars(EffectLands(c)) /\ WF_vars(PidFreed(c))

FairSpec == Spec /\ Fairness

-----------------------------------------------------------------------------
(* Properties                                                              *)

\* Whatever workers ran before, with a receipt in place of a fence or not, once a
\* worker has passed its fence it is alone: no other controller acts any more, not
\* even to answer a probe, and no effect but that of its own call can land.
FencedIsAlone ==
  worker.entry = "fence" =>
    \A c \in Controller : c \in Pending \/ ctl[c].at = "told" => c = worker.call

Calls == INSTANCE HostCalls WITH pending <- Pending, ready <- worker.entry # "none"

\* Records, fence and receipts together give the engine the calls it reckons
\* with, one effect at a time: a worker issues effects only if nothing of an earlier
\* one can land, whether its fence or a settled receipt says so.  It needs
\* ~UnreceiptedCalls, for then nothing can land while a receipt is settled.
ImplementsHostCalls == Calls!CallsSpec

\* Left-over controllers and reused pids delay recovery and never prevent it:
\* once faults cease, some worker passes its fence.
FenceIsPassed == worker.at = "draining" ~> worker.entry = "fence"
=============================================================================
