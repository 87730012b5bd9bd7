# A TLA+ model of K

K (k-carrier) replaces the executable of a managed service by a new release,
and undoes the replacement when the release does not prove itself. It does so
from processes that may die at any moment, through a controller it does not
own, on a state directory it must always be able to recover. This directory
holds the TLA+ specification of that program, the TLC instances that check it,
and proofs of its main safety properties.

Paths such as `engine.rs:112` are relative to `src/src/`.

## The system

| component | state | operations | modelled in |
| --- | --- | --- | --- |
| engine (`engine.rs`) | sequence number, position, prior and candidate evidence | `recover`, `upgrade`, `rollback`, `observe_settled` | `Engine`, `Runner` |
| store (`storage.rs`, `state.rs`) | `journal.jsonl`, `slots/{stable,experiment}` and three scratch directories | `append`, `read_journal`, `versions`, `stage`, `promote`, `clear`, `bootstrap_locked` | `FileStore`, `Engine` |
| host boundary (`host.rs`) | controller processes, `controllers/<pid>`; the service itself | `fence`, `quiesce`, `stop`, `start`, `resume`, `probe` | `ServiceHost`, `CommandHost` |
| upgrade lock (`lock.rs`) | `upgrade.lock`, `upgrade.lock.claims/` | `acquire_at`, `release`, `retain_until_exit` | `UpgradeLock` |
| runner (`runner.rs`, `protocol.rs`) | `operation.json`, `receipts/`, the response | `execute`, `recover`, `upgrade(_to)`, `rollback` | `Runner` |
| convergence (`report.rs`) | the last report | `evaluate`, `transaction_state` | `Verdicts` in `Engine`, helpers of `Runner` |
| supervisor (`supervisor.rs`) | attempts, deadline, `recovery.json` | `supervise_bytes`, `run`, `settled`, `resume_runner` | `Supervisor` |
| quarantine (`quarantine.rs`) | the state directory's place | `quarantine_state` | `Supervisor` |
| downloader (`artifact.rs`) | the partial file, the transfer budget | `download`, `transfer`, `budgets` | `Download`, `Releases` |
| release source (`source.rs`) | none | `check`, `newer`, `fetch` | `Releases` |
| provenance, retirement (`report.rs`) | `provenance.jsonl`, `report.json` | append, summarise, `retire_reason` | not modelled |

How they interact. A *supervisor* outlives the service and runs a *worker*
process per attempt. The worker takes the upgrade lock, asks the engine to recover,
settles the receipt, opens its own receipt, obtains the release through source and
downloader, and calls `engine.upgrade`. The engine writes each intent to the
journal before the effect, changes the slots through the store, and the service
through the host. The host runs a *controller* process per call, and records it
before it tells it what to do. Everything the worker remembers is lost with it;
journal, slots, receipts, the partial file, controller records and lock files stay, and
so do the controllers it has started and the supervisor's `recovery.json`. An
operator may rename the whole state directory away (`quarantine`), under the lock.

What is hard about it:

* a crash or an I/O error between any two system calls, half-written lines,
  half-removed directories;
* a host call that times out or outlives its worker and lands later, from a
  controller whose pid another process may have by then;
* contenders for the lock that interleave at every file-system call;
* receipts, journal and slots are three files that must agree and can only be
  written one after another;
* recovery is itself cut off, and retried by callers who only see exit codes;
* the response of a worker is put together after the lock is released, so that it
  may show another worker's receipt, and a killed worker may be slow to go;
* bytes of an earlier release, or what a power failure left of them, wait in
  the partial file of a URL.

What makes each component correct:

* engine: never two incarnations; no effect that was not announced; an upgrade
  either commits the target or leaves the version alone; what it reports as an
  end is one; it always gets to an end again;
* store: the journal stays readable and legal; a complete copy always exists;
* host boundary: nobody else acts past a fence; one effect outstanding at a time, the
  settled path included, which does not fence;
* lock: one live owner, whom nobody disturbs; dead owners never block;
* runner: exit codes are true, receipts are final and agree with the store,
  nothing new starts before the old is settled, every operation gets an outcome;
* supervisor: one worker at a time, no exit code but 3 without an outcome, the means to
  recover kept as long as an operation is open;
* downloader: only the declared release is handed over, and whatever lies in the
  partial file costs one attempt at most.

## The modules

| module | what it is | builds on |
| --- | --- | --- |
| `Phases`, `FileStore`, `ServiceHost` | the table of phases; the files; the service as the engine sees it | each on the one before |
| `Engine` | a worker in the engine | `ServiceHost`; implements `UpgradeTxn` |
| `Runner` | the worker around the engine | `Engine`; implements `OperationLedger` |
| `UpgradeTxn`, `OperationLedger`, `HostCalls` | the abstract specifications | |
| `UpgradeLock` | who may be a worker | |
| `CommandHost` | controllers, records and the fence | implements `HostCalls` |
| `Supervisor` | supervisors, their workers, quarantine | instantiates `OperationLedger` |
| `Download`, `Releases` | a transfer across attempts; version order and budgets | |

Three interfaces hold the parts together, each stated once. `OperationLedger` is
what `Runner` guarantees of `operation.json` and the archive, and all that `Supervisor` uses
of a worker's inside. `HostCalls` is what `CommandHost` guarantees of calls where every upgrade has
its operation, and what `ServiceHost` assumes: with no worker ready, what is pending are its orphans, and its `Fence`
answers when there are none. A worker becomes ready by its fence, or without one by a settled
receipt; library calls break the second way (finding 4), and then `Runner` has orphans next to a ready worker, as
`CommandHost` has overlapping effects. `UpgradeLock` guarantees one owner, which is what `Runner` (one worker at a
time), `CommandHost` (one worker at a time) and `Supervisor` (`holder`) assume. Composing the detailed
modules instead would multiply their states, and find nothing that the interfaces
do not show: the store's steps all happen under the lock, and what a worker calls, it calls between
its entry, by fence or by receipt, and its end.

**Phases** holds phases, slots and `TRANSITIONS`. The code writes the start of a
transaction once, from `Idle`; the model allows it from each phase that
`at_rest` accepts, because recovery leaves `promoted` and `rolled-back` in place.

**FileStore** has the journal as a sequence of lines plus `torn` (bytes after the last
newline), and each slot directory as a version, absent, or `Partial`. One
operator is one call that a crash cannot split visibly. `AppendCutShort` is the
interrupted append: nothing, tail repaired, torn tail, or the whole line.

**ServiceHost** models the controller and the service manager, which are product
code outside the repository, by the contract the code relies on. A call ends
ok, fails definitely (with or without its effect), or is unresolved; in the last
case, or if its worker dies, it joins `orphans` and may take effect or end later. Two
entries of `HostAssumption` (`invariants.rs:39`) are constants, so a run can drop
them: `ExclusiveHandoff` and `ProbeFromLiveProcess`. A candidate may exit as it is
started and may report any version; the stable slot is known good. Start ids
are taken from a finite set, and a new incarnation's id differs from those that
live and from those the worker remembers.

**Engine** is the worker: `pc` names the next effect, each effect is one action
with all of its ends. `Log` is `Engine::journal`, `HostCall` is a call with `?`, `ResumeFrom`
is the `match` in `recover`. `Crash`, `IoError` and `UserStops` are the surroundings.
`bootstrap_stable` is a third entry point.

**UpgradeTxn** is what the engine promises a reader who sees neither journal nor
slots: `installed` and `candidate`, changed by `Install`, `Begin`, `Commit` and `Abort`.
`Engine` implements it with `installed` the version recovery will converge to
and `candidate` the version of the last line while a transaction is in flight;
the journal line of the promote intent is the commit.

**Runner** adds the runner around the engine: `Prior`, `RecoverEngine`,
`SettleOperation`, the claim of `operation.json` with the archive write before it,
`Check`, `Acquire`, `Prepare`, the hand-over, and the response with its exit code.
`LibraryCalls` adds the entry points that the runner protocol does not use.
Two refusals of `drive_locked`, of another operation that is still open
(`runner.rs:344`) and of an archived receipt that differs (`storage.rs:284`), cannot
be reached after recovery has settled the receipt; they have no action, and a
worker that met one would show up as a deadlock.

**OperationLedger** is the promise to everybody who makes or supervises a request: an
id is bound to one target when it is opened, one operation is open at a time, and an
outcome is given once and kept.

**UpgradeLock** has one action per file-system call of `acquire_at` and `release`.
`todo` is what the directory read has still to return; entries that disappear
during the read may or may not be returned. `Die` and `Spawn` let pids end and be reused.

**CommandHost** has the life of a call in the order of `CommandHost::call`: process with
open pipes, durable record, request, answer, exit, removal of the record; each of them
may fail, time out, be dropped by `Engine::bounded`, or be the last thing its
worker does. `Drain` and the fence request are `CommandHost::fence`, which only `Engine::recover`
calls (`StartRecovery`). A worker that finds a settled receipt begins with `StartSettled` (`recover_engine`, `observe_settled`) and issues
its calls next to whatever records and controllers there are. What makes that safe, or not, is when receipts are written: `OpenReceipt`
before the calls of an operation, `SettleReceipt` at a definite end, both of `operation.json` reduced to `settled`.
`UnreceiptedCalls` stands for `LibraryCalls` of `Runner`: calls under a settled receipt. A controller owes its effect once
it was told, and may hand it to the product, which discards or performs it later;
it answers `ok` truthfully. An unrelated process may get a recorded pid.

**Supervisor** has one `job` per call of `supervise_bytes`, and a worker process for each
of its attempts. `Launch` writes `recovery.json` before the first worker; `Observe`,
`Expire` and `AwaitKilled` are the ends of `run`; `Conclude` is what `supervise_bytes` does with them
by `SettledBy`; `Resume` is `resume_runner` on a descriptor that another call left. A worker
is seen from outside, in the steps between which the lock or the ledger can change:
`Refused`, `Acquire`, `Prior`, `Settle`, `Claim`, `Work`, and `Responds`, which reads
`operation.json` after the guard is gone. `Quarantines` is `quarantine_state`: lock, refusal, or move,
after which the ledger is empty.

**Download** has releases as sequences of chunks, so that a hash is equality. `Begin` to
`Complete` follow `Downloader::transfer`; `partial` is the file, `bytes` what the attempt has in
memory. `AttemptFails` may or may not have written its last chunk; `PowerFails` leaves the length
of the file and not its last data, which is synced only at the end; `Publish` puts another
release behind the URL. A server answers an open-ended range to the end of the object or not at all.

**Releases** has `newer` as first difference of zero-padded components, and the budget
of a transfer. Both are pure; `MCDownload` compares `Newer` with the loop of the code on all versions
of up to three components up to 2, and `ReleasesProofs` proves what follows for all.

`MCEngine`, `MCRunner`, `MCUpgradeLock`, `MCSupervisor`, `MCCommandHost` and `MCDownload` name the
instances' sets. Definitions marked `Mutant:` are plausible bugs next to the definition
they distort; substituted for it, each makes the property it belongs to fail, which
shows that the property depends on the code.

## The runs

| run | question | result |
| --- | --- | --- |
| `MCEngine` | an upgrade is atomic and recoverable wherever workers are cut off, and settles again | holds, 365k states |
| `MCEngine_lax` | what survives a host that breaks both assumptions | holds, 97k states |
| `MCRunner_receipts` | receipts, archive and exit codes are true, and are the ledger | holds, 299k states |
| `MCRunner_live` | every opened operation gets an outcome | holds, 376k states |
| `MCUpgradeLock` | one owner, undisturbed; dead owners never block | holds, 133k states |
| `MCSupervisor` | one worker at a time, true exit codes, recoverable as long as needed | holds, 653k states |
| `MCCommandHost` | past a fence a worker is alone; one effect at a time, also of workers that a settled receipt lets in; fences are passed | holds, 191k states |
| `MCDownload` | stale bytes cost one attempt, and downloads succeed again | holds, 27k states |
| `MCEngine_badcandidate` | the worker rolls back a candidate that does not start | violated |
| `MCRunner_anonymous` | unfinished work is settled before new work, also after an upgrade without operation | violated |
| `MCRunner_rollback` | no dual run, also with `rollback` | violated |
| `MCSupervisor_elsewhere` | an installation managed elsewhere is reported as held | violated |

Run one with `tlc -config MCEngine.cfg MCEngine.tla`. Deadlock is checked in every run but the two of
`MCSupervisor`, where all calls may have returned and nobody need make another.

**Bounds.** `MaxFaults` bounds crashes, I/O errors, definite host failures and
timeouts together. Two are needed for the classical hard case (a call outlives
its worker, and its successor is cut off too), three let that happen to the
successor as well. `MaxJournal` bounds the journal by refusing to start an
upgrade, never in the middle of one. Twelve lines hold two upgrades, which is
what a stale line or receipt of an earlier transaction needs; `MCRunner_live`
has eight, which is one upgrade with all the recoveries of it, before and after which
operations may end without one; two faults are kept there, since what could starve
is a recovery that is cut off repeatedly. Two versions suffice for one upgrade; three
tell the target from the version before and from one a bad candidate reports.
Four start ids (three in the runner) are more than are ever live or remembered at
once. Two operation ids let one operation meet another's receipt. The lock runs have two
calls of one process, since claims of one pid are told apart by name only, and
two other processes.

In `MCSupervisor` two calls of `supervise_bytes` are two contenders, or one and its resumption; with one
recovery attempt each there may be a live worker of a call that has returned, its
successor's, and a retry. Two ids and two targets let one request meet another's
receipt, and its own id with another target. `CommandHost` has three controllers, one that lingers, one that a
dropped call left, and the present one; a controller whose traces are gone stands
for any later one, so the number bounds those at once and not calls. `MCDownload` has four
releases, of the declared size of four chunks twice, smaller and larger, and five faults, which is enough to
break a resumed transfer at each chunk, or to publish, fail, and publish again.
Versions, ids and operations are symmetric except where liveness is checked.

**Fairness.** `WF(WorkerStep)`, `WF(Exit)`: a live worker is an ordinary process and
keeps executing; `bounded` and the 1 s wait in `call` give every host call an end.
`WF(Orphans)`: a controller ends, by itself or by the kill in `CommandHost::call`.
Strong fairness of `BeginRecover`, and in the runner of a plain recover request:
K installs no watchdog (`docs/guide.html:83`), so progress after a crash rests on
somebody running the installer again, and the caller alternating with others must
not starve it. Nothing is assumed about candidates, probes or the network. In
`UpgradeLock` a call that has started keeps executing while its process lives. In `CommandHost` a worker
keeps executing and somebody starts another one (`WF(WorkerRuns)`, `WF(StartRecovery)`), controllers exit, what the
product has queued lands or is discarded, and a process that has a reused pid ends some
day: `FenceIsPassed` is false without the last, and the code then gives up after its timeout, for good reason.
In `Download` attempts are repeated and a server sends what it has (`WF(Transfers)`). `Supervisor` states no
fairness: it has no liveness property, since the budget ends every attempt by construction.

## Findings

1. **A candidate that does not start is left in flight.** `docs/guide.html:66` says that the
   worker stops a candidate that does not start, and rolls back with exit
   code 1. `engine.rs:157` returns the error instead, with work parked, nothing
   running and the journal at `handing-over`; the rollback is left to a later recovery, as the
   comment at `acceptance.rs:335` knows.
2. **Held elsewhere becomes unresolved.** An upgrade of an installation that another manager owns is
   answered `held`, exit code 2, before an operation exists (`runner.rs:292`). The supervisor accepts only
   an answer with the operation it asked for (`supervisor.rs:136`), starts recovery workers that cannot find it, and
   ends with exit code 3 and a descriptor that nothing can settle, where
   `docs/guide.html:95` promises 2.
3. **A stale receipt hides an unfinished commit.** `recover_engine` (`runner.rs:230`) trusts a settled
   `operation.json`, but an upgrade without an operation runs under the receipt of an
   earlier one. If it dies right after the promote intent, the next upgrade neither promotes nor
   resumes, and stages over the committed release. After the swap the same receipt
   refuses every later worker (`SETTLED_OPERATION_STATE_MISMATCH`).
4. **The settled path does not fence after `rollback`.** `Runner::rollback` replays a recorded rollback on
   a settled installation; a start that times out there outlives the worker, and
   the next upgrade, on the settled path, never waits for it. It lands next to the candidate. In
   `CommandHost` the same is `UnreceiptedCalls`: with `TRUE` for it in `MCCommandHost.cfg`, TLC refutes
   `ImplementsHostCalls`. `FencedIsAlone` holds all the same (1.2M states, and `FenceLeavesNobody`), so the next worker that fences ends the overlap.

The first two are reached with the runner protocol as documented. The third and
fourth need the library's own entry points; with protocol requests only,
`MCRunner_receipts` shows that neither happens.

A remark without a property: after a settled rollback and a stop by the user, an operation that
fails with an open receipt (a download error) makes the next worker replay the old rolled-back line and
start the service. `Runner` has these behaviours; whether they contradict `engine.rs:83`
depends on what one calls an interrupted effect.

## The proofs

A theorem holds for every value of the constants that satisfies the named assumptions
of its module: any number of versions, processes, operations and attempts, any bound on
faults and on the journal. Each is `Spec => []Inv` by an inductive invariant, or an
action property or a refinement that follows from one.

**`EngineProofs`** (assuming `VersionAssumption`, `HostAssumptions`, `BoundAssumption`). None of the
safety properties is inductive: that recovery finds a complete copy depends on which line was written
last, and that on where the worker is. `StoreInv` says it: `ControlMatchesJournal` ties `pc` to the last line,
`SlotsMatchControl` ties the slots to both, `SeqContinues` ties the worker's counter to
the journal. `StoreInvariance` is the theorem; `EngineTypeCorrect`, `JournalStaysReadable`,
`JournalStaysLegal` and `EngineNeverBricks` follow, and need nothing of the host. `EffectsAreAnnounced`
adds `OrphansFenced`: there is at most one late call, the last line announces it, and none is left past the fence. `EngineNeverRunsTwice`
assumes `ExclusiveHandoff` in its statement, as `invariants.rs:61` does, and adds
`OneIncarnation`, which says at which positions something may be live.

**`EngineOutcomeProofs`** is about what the engine tells its callers. `EngineImplementsTxn` is the refinement of `UpgradeTxn`, without any
assumption on the host: a journal line or a slot step is `Install`, `Begin`, `Commit` or `Abort`, or leaves the reader's view as it was. `TxnInv` is what makes it so: the worker's
`target` is the version of its last line and of the bytes it staged (`CandidateIsTarget`), and no experiment is
left once a promotion is over (`PromotionIsOver`). `PromotionIsOfNewIncarnation` and `PromotionRunsTarget` rest on `CandidateLives`: between the
evidence and the answer nobody has stopped what the evidence showed, since the fence left no late call (`OrphansFenced`). Without
`ProbeFromLiveProcess` the reported version says nothing of the process, so the second theorem assumes it.
`DiskInv` adds which slots are left behind under each line and at each position (`DiskFollowsJournal`, `DiskFollowsControl`), for any host; `EndsAreTerminal` adds what may run
there (`ServiceFollowsJournal`, `ServiceFollowsControl`). It needs
both host assumptions: a start that leaves the old incarnation alive, or a probe that shows one that is gone, makes an end out of a service that is not in order.

**`RunnerProofs`** has three inductive invariants, each over the one before. `RunnerInv` holds for every way the library is called and for any host: it is `StoreInv`, what
an entry point can answer (`Answers`), where the engine stands for each position of the runner (`WorkerFollows`), and `ReceiptInv`. The runner does to the engine
one of three things: a step of it, nothing, or an observation in place of a recovery (`EngineMoves`). To the receipts it does one of
three: it closes the open operation, archives the settled one, or opens a new one whose id is unknown (`Closes`, `Archives`, `Opens`). With these two reductions
`TerminalReceiptsAreFinal`, `RunnerImplementsLedger` and `RunnerNeverBricks` are short.
`CallerInv` ties the receipts to the store: while an operation is open, what is installed is its source, or its target once that is committed (`OpenIsOwn`); while
none is open, nothing of a transaction is left and the engine does nothing but observe (`ClosedIsSettled`); and the engine works on the versions the operation names (`WorkIsOwn`).
`SettledReceiptsMatchStore` and `RunnerImplementsTxn` follow, for any host. They assume `LibraryCalls = {}`: callers use the runner protocol, where each upgrade has an operation of its
own. `MCRunner_rollback` and `MCRunner_anonymous` show what becomes of the agreement when a caller does not.
`ServedInv` adds the service (`ServiceSettled`) and the answers, under the host assumptions as in `EndsAreTerminal`; `ExitCodesAreTrue`,
`NewWorkFindsSettled` and `RunnerNeverRunsTwice` follow.

**`UpgradeLockProofs`.** `LockInv` has `ScansCross`: of two contenders that scan, one has still to meet
the other's claim; one that is past its scan will be met by whoever still scans; two are never past it. From it follow `LockExcludes` and
`LockUndisturbed`.

**`CommandHostProofs`.** `HostInv` says that a controller is told only after its record, which
outlasts it (`ControllersRecorded`), how far the call under way has come (`CallConsistent`), that nobody else can be told
anything while the fence is asked, and that its ok leaves nothing of earlier workers (`FenceDrains`), and hence that a
worker past its fence is alone with its own call: `FenceLeavesNobody`, for every way the library is called. Its last part,
`ReceiptsSound`, is for `~UnreceiptedCalls` only: while the receipt is settled no call is under way and nothing can land, which is what a worker that skips
the fence relies on. It gives `OneEffectAtATime` (no effect lands after one that was issued later) and `HostImplementsCalls`, the refinement that entitles
`ServiceHost` to its contract; both assume `~UnreceiptedCalls` in their statements, and finding 4 is what happens without it.

**`SupervisorProofs`.** `SupervisorInv` has three layers: processes (`AliveIsCurrent`, `UnspawnedAreNew`, `HolderIsInside`),
the ledger (`LedgerSound`, and `AnswersTrue`: what a response shows was recorded), and descriptors (`OpenIsCommitted`: an
open operation belongs to a call whose descriptor no refusal will remove; `DroppedIsOver`: a
live worker without a descriptor can open nothing). The proof reduces the steps of a worker to
`Effect` and those of a supervisor to spawning, progress, settling and beginning, and shows each
kind to keep the invariant. All properties of `MCSupervisor` follow.

**`DownloadProofs`.** `CleanSinceRejected` is the strengthening: since the last attempt that was rejected
without a fault, all that is kept and all that is to come is of the release served. An attempt
that is complete then cannot fail its hash, whatever the sizes.

**`ReleasesProofs`.** `Newer` is irreflexive and transitive although it compares padded versions, two versions that it does
not order differ in padding or in the text of a prerelease only, so successive offers climb (`OffersClimb`); a
budget lies between the response time and the maximum (`BudgetIsBounded`).

Every safety property, action property and refinement that a passing run checks is stated by a theorem. Only
model-checked is liveness: `SettlesAgain`, `OperationsSettle`, `StaleOwnersNeverBlock`, `FenceIsPassed` and
`DownloadSucceeds`. The prover has no rule for fairness, and none for `ENABLED`.

## What is not modelled

* Provenance (an append-only log that nothing in K reads back), the stored convergence
  report and its use for retirement, and the requests `status` and `check`, which change nothing.
* In the supervisor: descriptors that cannot be written, read or removed; the text of
  responses. A worker that dies is taken to leave no answer that agrees with its exit code.
* In quarantine: its paths, the idempotent second call, the record of a fresh installation, and
  the file-level race in which a contender creates the directory again between its
  rename and its own claim. `UpgradeLock` has a directory that does not move.
* In the downloader: `data:` URLs, redirects, the header's syntax, the progress sink. A server that clips
  ranges would fail each resumed attempt (`artifact.rs:259`); it is counted among the faults.
* In the release source: fetching and parsing the manifest. A component that is no number counts as 0 before
  the model begins.
* Damage that K did not cause: a journal line edited by hand, a slot that is not a
  directory, unreadable receipts.
* Wire formats, wording, timestamps, progress events.
* The test instruments (`invariants.rs`, `harness.rs`, `acceptance.rs`, `corpus.rs`, `bin/k-harness.rs`), the Lean model, and the
  examples: they test or illustrate K, and the model takes names and host assumptions from them.

## Plan

In this order, with what each would add:

1. Managed installations and provenance in `Runner`: where the `held` answer comes from, and how
   often an operation may appear in `provenance.jsonl` when it is retried.
2. Quarantine at the level of files: `UpgradeLock` on a directory that may be renamed between any
   two calls of a contender.
3. Descriptors of the supervisor that cannot be written or removed.

