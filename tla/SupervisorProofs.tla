-------------------------- MODULE SupervisorProofs --------------------------
(* Proofs for Supervisor, for any number of invocations, operations and    *)
(* recovery attempts.                                                      *)
EXTENDS Supervisor, TLAPS

\* Positions at which a worker is inside the lock.
Inside == {"locked", "claim", "working"}

\* An invocation has no live worker but that of its present attempt, and none
\* before it is spawned.
AliveIsCurrent ==
  \A j \in Job, a \in Attempt :
    Alive(<<j, a>>) => a = job[j].attempt /\ job[j].at \notin {"unused", "attempting"}

\* No worker of an attempt yet to come has left a trace.
ToCome(j, a) ==
  a > job[j].attempt \/ (a = job[j].attempt /\ job[j].at \in {"unused", "attempting"})

UnspawnedAreNew ==
  /\ \A j \in Job, a \in Attempt : ToCome(j, a) => worker[<<j, a>>] = NoWorker
  /\ \A j \in Job : job[j].at = "unused" => job[j] = NoJob

\* An invocation that began serves a request; one that resumes another serves
\* what that one owes.
RequestsKept ==
  \A j \in Job :
    /\ job[j].at # "unused" => job[j].request \in Request
    /\ job[j].kept => job[j].at # "unused"
    /\ Active(j) => job[j].kept
    /\ job[j].resumes # None =>
         /\ job[j].at # "unused" /\ job[job[j].resumes].at \notin {"unused", "attempting", "waiting", "killing"}
         /\ job[j].request.kind = "recover" /\ job[j].request.id # None
         /\ job[job[j].resumes].request.id = job[j].request.id

\* A worker has no receipt before it answers, and a code once it returned.
FreshReceipts ==
  \A w \in Job \X Attempt :
    /\ worker[w].at # "gone" => worker[w].receipt.id = None
    /\ worker[w].at = "done" => worker[w].code \in 0..3

\* Who is inside the lock holds it, and only an upgrade gets to its own work.
HolderIsInside ==
  /\ \A w \in Job \X Attempt :
       /\ worker[w].at \in Inside => holder = w
       /\ worker[w].at \in {"claim", "working"} => ~Recovers(w)
  /\ aside = "locked" => holder = Quarantiner

\* One operation is open at a time, the current one is known, and the history
\* has what the ledger says.
LedgerSound ==
  /\ \A a, b \in OperationId : IsOpen(a) /\ IsOpen(b) => a = b
  /\ latest # None => ledger[latest] # Unknown
  /\ \A id \in OperationId : ledger[id].outcome # None => ledger[id].outcome \in ever[id]

Moved == aside = "moved"

\* What a worker answered of an operation is recorded; refused means 2.
AnswersTrue ==
  \A w \in Job \X Attempt :
    /\ worker[w].result = "busy" => worker[w].at = "gone" /\ worker[w].code = 2
    /\ worker[w].receipt.id # None /\ worker[w].receipt.outcome # None =>
         /\ worker[w].receipt.outcome \in ever[worker[w].receipt.id]
         /\ Moved \/ ledger[worker[w].receipt.id].outcome = worker[w].receipt.outcome

\* An invocation whose descriptor no refusal will remove any more.
Committed(j) ==
  /\ job[j].kept
  /\ \/ job[j].attempt > 0
     \/ worker[<<j, 0>>].at \notin {"none", "running"} /\ worker[<<j, 0>>].result # "busy"

\* An open operation has such an invocation.
OpenIsCommitted ==
  \A id \in OperationId :
    IsOpen(id) /\ ~Moved => \E j \in Job : Committed(j) /\ job[j].request.id = id

\* A worker whose descriptor is gone can open nothing: its operation is over.
DroppedIsOver ==
  \A j \in Job, a \in Attempt :
    Alive(<<j, a>>) /\ ~job[j].kept /\ job[j].request.id # None =>
      Moved \/ ledger[job[j].request.id].outcome # None

SupervisorInv ==
  /\ TypeOK /\ AliveIsCurrent /\ UnspawnedAreNew /\ RequestsKept /\ FreshReceipts
  /\ HolderIsInside /\ LedgerSound /\ AnswersTrue /\ OpenIsCommitted /\ DroppedIsOver

-----------------------------------------------------------------------------

\* Nothing has been launched, and nothing recorded.
LEMMA SupervisorInvInit == Init => SupervisorInv
<1> SUFFICES ASSUME Init PROVE SupervisorInv
  OBVIOUS
<1> USE SupervisorAssumption DEF Init, NoJob, NoWorker, LedgerInit, Attempt, IsOpen, Unknown, Genesis
<1>1. TypeOK
  BY DEF TypeOK, JobStage, WorkerStage, NoRequest
<1>2. AliveIsCurrent /\ UnspawnedAreNew /\ RequestsKept /\ FreshReceipts /\ HolderIsInside
  BY DEF UnspawnedAreNew, FreshReceipts, AliveIsCurrent, Alive, Active, RequestsKept, HolderIsInside, Inside
<1>3. LedgerSound /\ AnswersTrue /\ OpenIsCommitted /\ DroppedIsOver
  BY DEF LedgerSound, AnswersTrue, OpenIsCommitted, DroppedIsOver, Alive, Result
<1> QED BY <1>1, <1>2, <1>3 DEF SupervisorInv

-----------------------------------------------------------------------------
(* What a worker can do                                                    *)

WorkerState ==
  [at : WorkerStage, result : Result \cup {None}, receipt : Receipt \cup {Genesis},
   code : {None} \cup 0..3]

\* The outcome that a receipt tells is the recorded one.
Tells(receipt) ==
  receipt.id # None /\ receipt.outcome # None =>
    /\ receipt.id \in OperationId
    /\ ledger[receipt.id].outcome = receipt.outcome

\* What is recorded changes by the worker that holds the lock, and at its own
\* operation if it is bound to one.
Records(w, new) ==
  \/ UNCHANGED <<ledger, latest, ever>>
  \/ \E id \in OperationId, outcome \in Outcome :
       /\ Finish(id, outcome) /\ holder = w
       /\ Recovers(w) /\ Wanted(w).id # None => id = Wanted(w).id
  \/ /\ Open(Wanted(w).id, Wanted(w).target) /\ UNCHANGED ever
     /\ worker[w].at = "claim" /\ new.at = "working"

\* The new state of a worker that takes a step.
Effect(w, new) ==
  /\ worker' = [worker EXCEPT ![w] = new] /\ new \in WorkerState
  /\ Alive(w) /\ new.at \notin {"none", "running"}
  /\ \/ new.at \in Inside /\ holder' = w /\ holder \in {w, None}
     \/ new.at \in {"done", "gone"} /\ holder' = IF holder = w THEN None ELSE holder
  /\ new.at \in {"claim", "working"} => ~Recovers(w)
  /\ new.result = "busy" => worker[w].at = "running" /\ new.at = "gone" /\ new.code = 2
  /\ new.receipt.id # None => new.at = "gone" /\ UNCHANGED <<ledger, latest, ever>>
  /\ new.at = "done" => new.code \in 0..3
  /\ Tells(new.receipt)
  /\ Records(w, new)

\* A receipt is what the ledger says of its id.
LEMMA ReceiptTells ==
  ASSUME TypeOK, NEW id \in OperationId \cup {None}, id # None => ledger[id] # Unknown
  PROVE  ReceiptOf(id) \in Receipt \cup {Genesis} /\ Tells(ReceiptOf(id))
         /\ (id # None => OutcomeCode(ledger[id].outcome) \in 0..3)
<1>1. CASE id = None
  BY <1>1 DEF ReceiptOf, Genesis, Tells
<1>2. CASE id # None
  <2>1. id \in OperationId /\ ledger[id] \in [target : Version, outcome : Outcome \cup {None}]
    BY <1>2 DEF TypeOK, Entry
  <2> QED BY <1>2, <2>1 DEF ReceiptOf, Receipt, Tells, OutcomeCode
<1> QED BY <1>1, <1>2

\* The end of a worker.
LEMMA EndsIsEffect ==
  ASSUME NEW w \in Job \X Attempt, NEW response \in WorkerState, response.at = "gone",
         TypeOK, Alive(w), Ends(w, response), Tells(response.receipt),
         UNCHANGED <<ledger, latest, ever>>,
         response.result = "busy" => worker[w].at = "running" /\ response.code = 2
  PROVE  \E new : Effect(w, new)
<1> DEFINE new == IF job[w[1]].at = "waiting" THEN response ELSE Gone
<1>1. Gone \in WorkerState /\ Gone.at = "gone" /\ Gone.result = None /\ Gone.receipt.id = None
  BY DEF Gone, NoWorker, WorkerState, WorkerStage, Genesis
<1>2. None # "busy"
  BY SupervisorAssumption DEF Result
<1>3. Effect(w, new)
  BY <1>1, <1>2 DEF Ends, Releases, Effect, Records, Tells, Inside
<1> QED BY <1>3

\* The requests workers serve.
LEMMA RequestServed ==
  ASSUME SupervisorInv, NEW w \in Job \X Attempt, Alive(w)
  PROVE  /\ w = <<w[1], w[2]>> /\ w[1] \in Job /\ w[2] \in Attempt
         /\ w[2] = job[w[1]].attempt /\ job[w[1]].at \notin {"unused", "attempting"}
         /\ Wanted(w) = job[w[1]].request /\ Wanted(w) \in Request
         /\ Wanted(w).id \in OperationId \cup {None}
         /\ ~Recovers(w) => Wanted(w).id \in OperationId /\ Wanted(w).target \in Version /\ w[2] = 0
<1>1. w = <<w[1], w[2]>> /\ w[1] \in Job /\ w[2] \in Attempt
  OBVIOUS
<1>2. w[2] = job[w[1]].attempt /\ job[w[1]].at \notin {"unused", "attempting"}
  BY <1>1 DEF SupervisorInv, AliveIsCurrent
<1>3. Wanted(w) = job[w[1]].request /\ Wanted(w) \in Request
  BY <1>1, <1>2 DEF SupervisorInv, RequestsKept, Wanted
<1>4. Wanted(w).id \in OperationId \cup {None}
  BY <1>3 DEF Request
<1>5. ~Recovers(w) => Wanted(w).id \in OperationId /\ Wanted(w).target \in Version /\ w[2] = 0
  BY <1>1, <1>3, SupervisorAssumption DEF Request, Recovers, Wanted, Attempt
<1> QED BY <1>1, <1>2, <1>3, <1>4, <1>5

\* A step within a worker.
LEMMA StepIsEffect ==
  ASSUME NEW w \in Job \X Attempt, NEW from, NEW to \in Inside, TypeOK,
         from \notin {"none", "gone"}, Step(w, from, to),
         worker[w].result # "busy", worker[w].receipt.id = None,
         holder' = w, holder \in {w, None}, to # "locked" => ~Recovers(w),
         Records(w, [worker[w] EXCEPT !.at = to])
  PROVE  \E new : Effect(w, new)
<1> DEFINE new == [worker[w] EXCEPT !.at = to]
<1>1. worker[w] \in WorkerState /\ new \in WorkerState /\ new.at = to
      /\ new.result = worker[w].result /\ new.receipt = worker[w].receipt
  BY DEF TypeOK, WorkerState, Inside, WorkerStage
<1>2. worker' = [worker EXCEPT ![w] = new]
  BY DEF Step
<1>3. Effect(w, new)
  BY <1>1, <1>2 DEF Step, Effect, Inside, Alive, Tells
<1> QED BY <1>3

\* The return of the entry point.
LEMMA ReturnIsEffect ==
  ASSUME NEW w \in Job \X Attempt, NEW code \in 0..3, TypeOK, Alive(w),
         NEW answer \in Result \ {"busy"}, Returns(w, answer, code),
         Records(w, [NoWorker EXCEPT !.at = "done", !.result = answer, !.code = code])
  PROVE  \E new : Effect(w, new)
<1> DEFINE new == [NoWorker EXCEPT !.at = "done", !.result = answer, !.code = code]
<1>1. new \in WorkerState /\ new.at = "done" /\ new.result = answer /\ new.receipt.id = None
  BY DEF NoWorker, WorkerState, WorkerStage, Genesis
<1>2. Effect(w, new)
  BY <1>1 DEF Returns, Releases, Effect, Inside, Tells
<1> QED BY <1>2

\* A worker that ends with an error.
LEMMA FailIsEffect ==
  ASSUME NEW w \in Job \X Attempt, TypeOK, Alive(w), Fails(w),
         Records(w, Answer("error", Genesis, 3)), Records(w, Gone)
  PROVE  \E new : Effect(w, new)
<1> DEFINE response == Answer("error", Genesis, 3)
           new == IF job[w[1]].at = "waiting" THEN response ELSE Gone
<1>1. /\ new \in WorkerState /\ new.at = "gone" /\ new.result # "busy" /\ new.receipt.id = None
      /\ Records(w, new)
  BY SupervisorAssumption DEF Answer, Gone, NoWorker, WorkerState, WorkerStage, Genesis, Result
<1>2. Effect(w, new)
  BY <1>1 DEF Fails, Ends, Releases, Effect, Inside, Tells
<1> QED BY <1>2

\* A worker that replays what is recorded.
LEMMA ReplayIsEffect ==
  ASSUME NEW w \in Job \X Attempt, NEW id \in OperationId, TypeOK, Alive(w), Replays(w, id),
         ledger[id].outcome # None, UNCHANGED <<ledger, latest, ever>>
  PROVE  \E new : Effect(w, new)
<1> DEFINE response == Answer("replayed", ReceiptOf(id), OutcomeCode(ledger[id].outcome))
<1>1. /\ ReceiptOf(id) \in Receipt \cup {Genesis} /\ Tells(ReceiptOf(id))
      /\ OutcomeCode(ledger[id].outcome) \in 0..3
  BY ReceiptTells, SupervisorAssumption DEF Unknown
<1>2. /\ response \in WorkerState /\ response.at = "gone" /\ response.result # "busy"
      /\ Tells(response.receipt)
  BY <1>1 DEF Answer, WorkerState, WorkerStage, Result
<1>3. Ends(w, response)
  BY DEF Replays
<1> HIDE DEF response
<1> QED BY <1>2, <1>3, EndsIsEffect

\* Every step of a worker is such an effect.
LEMMA WorkerEffect ==
  ASSUME SupervisorInv, NEW w \in Job \X Attempt, WorkerRuns(w) \/ Dies(w)
  PROVE  \E new : Effect(w, new)
<1>0. TypeOK /\ (Alive(w) => worker[w].receipt.id \in OperationId \cup {None})
  BY DEF SupervisorInv, TypeOK, Receipt, Genesis
<1>a. /\ worker[w] \in WorkerState
      /\ worker[w].result = "busy" => worker[w].at = "gone"
      /\ worker[w].at \in Inside => holder = w
      /\ worker[w].at \in {"claim", "working"} => ~Recovers(w)
  BY <1>0 DEF SupervisorInv, TypeOK, WorkerState, AnswersTrue, HolderIsInside
<1>1. CASE ManagedElsewhere(w)
  <2>1. Alive(w) /\ UNCHANGED <<ledger, latest, ever>>
    BY <1>1 DEF ManagedElsewhere, Alive
  <2> QED BY <1>0, <1>1, <2>1, ReturnIsEffect, FailIsEffect DEF ManagedElsewhere, Records, Result
<1>2. CASE Refused(w)
  <2> DEFINE response == Answer("busy", Genesis, 2)
  <2>1. Alive(w) /\ UNCHANGED <<ledger, latest, ever>> /\ Ends(w, response) /\ worker[w].at = "running"
    BY <1>2 DEF Refused, Alive
  <2>2. /\ response \in WorkerState /\ response.at = "gone" /\ response.code = 2
        /\ Tells(response.receipt)
    BY DEF Answer, WorkerState, WorkerStage, Result, Genesis, Tells
  <2> HIDE DEF response
  <2> QED BY <1>0, <2>1, <2>2, EndsIsEffect
<1>3. CASE Dies(w)
  <2>1. /\ Gone \in WorkerState /\ Gone.at = "gone" /\ Gone.result # "busy" /\ Tells(Gone.receipt)
    BY SupervisorAssumption DEF Gone, NoWorker, WorkerState, WorkerStage, Result, Genesis, Tells
  <2> QED BY <1>0, <1>3, <2>1, EndsIsEffect DEF Dies
<1>4. CASE Acquire(w)
  <2>1. /\ Step(w, "running", "locked") /\ holder = None /\ holder' = w
        /\ UNCHANGED <<ledger, latest, ever>> /\ worker[w].at = "running"
    BY <1>4 DEF Acquire, Step
  <2>2. worker[w].receipt.id = None
    BY <2>1 DEF SupervisorInv, FreshReceipts
  <2> QED BY <1>0, <1>a, <2>1, <2>2, StepIsEffect DEF Records, Inside
<1>5. CASE Prior(w)
  <2>1. Alive(w) /\ UNCHANGED <<ledger, latest, ever>> /\ Wanted(w).id \in OperationId \cup {None}
    BY <1>5, RequestServed DEF Prior, Alive
  <2>2. CASE Fails(w)
    BY <1>0, <2>1, <2>2, FailIsEffect DEF Records
  <2>3. CASE Known(Wanted(w).id).outcome # None /\ Replays(w, Wanted(w).id)
    BY <1>0, <2>1, <2>3, ReplayIsEffect DEF Known, Unknown
  <2> QED BY <1>5, <2>2, <2>3 DEF Prior
<1>6. CASE Settle(w)
  <2>1. Alive(w) /\ worker[w].at = "locked" /\ Passes(w) /\ holder = w
    BY <1>6, <1>a DEF Settle, Alive, Inside
  <2>2. CASE Fails(w) /\ UNCHANGED <<ledger, latest, ever>>
    BY <1>0, <2>1, <2>2, FailIsEffect DEF Records
  <2>3. CASE /\ \/ \E id \in OperationId, outcome \in {"promoted", "rolled-back"} : Finish(id, outcome)
                \/ NothingOpen /\ UNCHANGED <<ledger, latest, ever>>
             /\ IF Recovers(w) THEN Returns(w, "recovered", 0)
                ELSE Step(w, "locked", "claim") /\ UNCHANGED holder
    <3>1. ASSUME NEW id \in OperationId, NEW outcome \in Outcome, Finish(id, outcome),
                 Recovers(w), Wanted(w).id # None
          PROVE  id = Wanted(w).id
      <4>1. Wanted(w).id \in OperationId /\ IsOpen(Wanted(w).id)
        BY <2>1, <3>1, RequestServed, SupervisorAssumption DEF Passes, Known, IsOpen, Unknown
      <4> QED BY <3>1, <4>1 DEF Finish, Close, SupervisorInv, LedgerSound
    <3>2. \A new : Records(w, new)
      BY <2>1, <2>3, <3>1 DEF Records, Outcome
    <3>3. CASE Recovers(w)
      <4>1. "recovered" \in Result \ {"busy"} /\ 0 \in 0..3 /\ Returns(w, "recovered", 0)
        BY <2>3, <3>3 DEF Result
      <4>2. Records(w, [NoWorker EXCEPT !.at = "done", !.result = "recovered", !.code = 0])
        BY <3>2
      <4> QED BY <1>0, <2>1, <4>1, <4>2, ReturnIsEffect
    <3>4. CASE ~Recovers(w)
      <4>1. worker[w].receipt.id = None
        BY <2>1 DEF SupervisorInv, FreshReceipts
      <4> QED BY <1>0, <1>a, <2>1, <2>3, <3>2, <3>4, <4>1, StepIsEffect DEF Inside
    <3> QED BY <3>3, <3>4
  <2> QED BY <1>6, <2>2, <2>3 DEF Settle
<1>7. CASE Claim(w)
  <2>1. /\ Alive(w) /\ worker[w].at = "claim" /\ ~Recovers(w) /\ holder = w /\ UNCHANGED ever
        /\ Wanted(w).id \in OperationId /\ Wanted(w).id # None
        /\ worker[w].receipt.id = None
    BY <1>7, <1>a, RequestServed, SupervisorAssumption
    DEF Claim, Alive, Inside, SupervisorInv, FreshReceipts
  <2>2. CASE ledger[Wanted(w).id].outcome # None /\ Replays(w, Wanted(w).id) /\ UNCHANGED <<ledger, latest>>
    BY <1>0, <2>1, <2>2, ReplayIsEffect
  <2>3. CASE /\ Open(Wanted(w).id, Wanted(w).target)
             /\ Step(w, "claim", "working") /\ UNCHANGED holder
    <3>1. Records(w, [worker[w] EXCEPT !.at = "working"])
      BY <1>a, <2>1, <2>3 DEF Records, WorkerState
    <3> QED BY <1>0, <1>a, <2>1, <2>3, <3>1, StepIsEffect DEF Inside
  <2>4. CASE Fails(w) /\ UNCHANGED <<ledger, latest>>
    BY <1>0, <2>1, <2>4, FailIsEffect DEF Records
  <2> QED BY <1>7, <2>2, <2>3, <2>4 DEF Claim
<1>8. CASE Work(w)
  <2>1. /\ Alive(w) /\ worker[w].at = "working" /\ holder = w /\ Wanted(w).id \in OperationId
    BY <1>8, <1>a, RequestServed DEF Work, Alive, Inside
  <2>2. CASE Fails(w) /\ UNCHANGED <<ledger, latest, ever>>
    BY <1>0, <2>1, <2>2, FailIsEffect DEF Records
  <2>3. CASE \E outcome \in Outcome :
               /\ Finish(Wanted(w).id, outcome)
               /\ \/ Fails(w)
                  \/ outcome # "failed" /\ Returns(w, "finished", OutcomeCode(outcome))
    <3>1. PICK outcome \in Outcome :
            /\ Finish(Wanted(w).id, outcome)
            /\ Fails(w) \/ Returns(w, "finished", OutcomeCode(outcome))
      BY <2>3
    <3>2. OutcomeCode(outcome) \in 0..3
      BY DEF OutcomeCode
    <3>3. \A new : Records(w, new)
      BY <2>1, <3>1 DEF Records
    <3> QED BY <1>0, <2>1, <3>1, <3>2, <3>3, ReturnIsEffect, FailIsEffect DEF Result
  <2> QED BY <1>8, <2>2, <2>3 DEF Work
<1>9. CASE Responds(w)
  <2>1. /\ Alive(w) /\ UNCHANGED <<ledger, latest, ever>> /\ Ends(w, ResponseTo(w))
        /\ worker[w].at = "done" /\ worker[w].code \in 0..3
    BY <1>9, <1>a DEF Responds, Alive, SupervisorInv, FreshReceipts
  <2>2. /\ ReceiptOf(latest) \in Receipt \cup {Genesis} /\ Tells(ReceiptOf(latest))
        /\ ReceiptCode(ReceiptOf(latest)) \in 0..3
    BY <1>0, ReceiptTells DEF SupervisorInv, LedgerSound, TypeOK, ReceiptCode, OutcomeCode
  <2>3. /\ ResponseTo(w) \in WorkerState /\ ResponseTo(w).at = "gone"
        /\ ResponseTo(w).receipt = ReceiptOf(latest) /\ ResponseTo(w).result # "busy"
    BY <1>a, <2>1, <2>2 DEF ResponseTo, Answer, WorkerState, WorkerStage, Result
  <2> QED BY <1>0, <2>1, <2>2, <2>3, EndsIsEffect
<1> QED BY <1>1, <1>2, <1>3, <1>4, <1>5, <1>6, <1>7, <1>8, <1>9 DEF WorkerRuns

-----------------------------------------------------------------------------
(* Worker steps preserve the invariant                                     *)

\* What a worker does to the ledger: outcomes stay, history grows, and what it
\* opens was unknown.
LEMMA LedgerStep ==
  ASSUME SupervisorInv, NEW w \in Job \X Attempt, NEW new, Effect(w, new)
  PROVE  /\ ledger' \in [OperationId -> Entry \cup {Unknown}] /\ latest' \in OperationId \cup {None}
         /\ ever' \in [OperationId -> SUBSET Outcome] /\ LedgerSound'
         /\ \A id \in OperationId :
              /\ ledger[id].outcome # None => ledger'[id].outcome = ledger[id].outcome
              /\ ever[id] \subseteq ever'[id]
              /\ IsOpen(id)' =>
                   \/ IsOpen(id)
                   \/ /\ id = Wanted(w).id /\ ledger[id].outcome = None
                      /\ worker[w].at = "claim" /\ new.at = "working"
<1>0. /\ ledger \in [OperationId -> Entry \cup {Unknown}] /\ latest \in OperationId \cup {None}
      /\ ever \in [OperationId -> SUBSET Outcome] /\ LedgerSound
  BY DEF SupervisorInv, TypeOK
<1>1. CASE UNCHANGED <<ledger, latest, ever>>
  BY <1>0, <1>1 DEF LedgerSound, IsOpen
<1>2. CASE \E id \in OperationId, outcome \in Outcome : Finish(id, outcome)
  <2>1. PICK id \in OperationId, outcome \in Outcome : Finish(id, outcome)
    BY <1>2
  <2>2. /\ IsOpen(id) /\ ledger[id] \in Entry /\ outcome # None
        /\ ledger' = [ledger EXCEPT ![id].outcome = outcome] /\ latest' = latest
        /\ ever' = [ever EXCEPT ![id] = @ \cup {outcome}]
    BY <1>0, <2>1, SupervisorAssumption DEF Finish, Close, IsOpen
  <2>3. ledger'[id] = [target |-> ledger[id].target, outcome |-> outcome] /\ ledger'[id] \in Entry
    BY <1>0, <2>2 DEF Entry
  <2>4. \A k \in OperationId : k # id => ledger'[k] = ledger[k] /\ ever'[k] = ever[k]
    BY <1>0, <2>2
  <2>5. ledger' \in [OperationId -> Entry \cup {Unknown}] /\ ever' \in [OperationId -> SUBSET Outcome]
    BY <1>0, <2>2, <2>3
  <2>6. ~IsOpen(id)' /\ \A k \in OperationId : k # id => (IsOpen(k)' <=> IsOpen(k))
    BY <2>2, <2>3, <2>4 DEF IsOpen
  <2>7. ledger'[id] # Unknown /\ outcome \in ever'[id] /\ ever[id] \subseteq ever'[id]
    BY <1>0, <2>2, <2>3 DEF Unknown
  <2>8. LedgerSound'
    BY <1>0, <2>2, <2>3, <2>4, <2>6, <2>7 DEF LedgerSound
  <2> QED BY <1>0, <2>2, <2>3, <2>4, <2>5, <2>6, <2>7, <2>8 DEF IsOpen
<1>3. CASE /\ Open(Wanted(w).id, Wanted(w).target) /\ UNCHANGED ever
           /\ worker[w].at = "claim" /\ new.at = "working"
  <2> DEFINE id == Wanted(w).id
             target == Wanted(w).target
  <2>1. id \in OperationId /\ target \in Version
    BY <1>3, RequestServed DEF SupervisorInv, HolderIsInside, Alive
  <2>2. /\ ledger[id] = Unknown /\ NothingOpen /\ latest' = id
        /\ ledger' = [ledger EXCEPT ![id] = [target |-> target, outcome |-> None]]
    BY <1>3 DEF Open
  <2> HIDE DEF id, target
  <2>3. ledger'[id] = [target |-> target, outcome |-> None] /\ ledger'[id] \in Entry
    BY <1>0, <2>1, <2>2 DEF Entry
  <2>4. ledger'[id] # Unknown /\ ledger[id].outcome = None
    BY <2>1, <2>2, <2>3, SupervisorAssumption DEF Unknown
  <2>5. \A k \in OperationId : k # id => ledger'[k] = ledger[k]
    BY <1>0, <2>2
  <2>6. ledger' \in [OperationId -> Entry \cup {Unknown}]
    BY <1>0, <2>1, <2>2, <2>3
  <2>7. \A k \in OperationId : IsOpen(k)' => k = id
    BY <2>2, <2>5 DEF IsOpen, NothingOpen
  <2>8. LedgerSound'
    BY <1>0, <1>3, <2>1, <2>2, <2>3, <2>4, <2>5, <2>7 DEF LedgerSound
  <2> QED BY <1>0, <1>3, <2>1, <2>2, <2>3, <2>4, <2>5, <2>6, <2>7, <2>8 DEF id
<1> QED BY <1>1, <1>2, <1>3 DEF Effect, Records

\* What a worker may do, whatever it is, keeps the invariant.
LEMMA WorkerStep ==
  ASSUME SupervisorInv, NEW w \in Job \X Attempt, NEW new, Effect(w, new), UNCHANGED <<job, aside>>
  PROVE  SupervisorInv'
<1>0. /\ TypeOK /\ AliveIsCurrent /\ UnspawnedAreNew /\ RequestsKept /\ FreshReceipts /\ HolderIsInside
      /\ LedgerSound /\ AnswersTrue /\ OpenIsCommitted /\ DroppedIsOver
  BY DEF SupervisorInv
<1>1. /\ worker' = [worker EXCEPT ![w] = new] /\ new \in WorkerState /\ Alive(w)
      /\ new.at \notin {"none", "running"}
  BY DEF Effect
<1>2. worker'[w] = new /\ \A v \in Job \X Attempt : v # w => worker'[v] = worker[v]
  BY <1>0, <1>1 DEF TypeOK
<1>3. w # None /\ w # Quarantiner
  BY SupervisorAssumption
<1>4. /\ w = <<w[1], w[2]>> /\ w[1] \in Job /\ w[2] \in Attempt
      /\ w[2] = job[w[1]].attempt /\ job[w[1]].at \notin {"unused", "attempting"}
  BY <1>1, RequestServed
<1>5. TypeOK'
  <2>1. holder' \in (Job \X Attempt) \cup {None, Quarantiner}
    BY <1>0 DEF Effect, TypeOK
  <2>2. worker' \in [Job \X Attempt -> WorkerState]
    BY <1>0, <1>1 DEF TypeOK, WorkerState
  <2> QED BY <1>0, <2>1, <2>2, LedgerStep DEF TypeOK, WorkerState
<1>6. \A v \in Job \X Attempt : Alive(v)' => Alive(v)
  BY <1>1, <1>2 DEF Alive
<1>7. AliveIsCurrent' /\ UnspawnedAreNew' /\ RequestsKept'
  <2>1. AliveIsCurrent' /\ RequestsKept'
    BY <1>0, <1>6 DEF AliveIsCurrent, RequestsKept, Active
  <2>2. ASSUME NEW j \in Job, NEW a \in Attempt, ToCome(j, a)
        PROVE  worker'[<<j, a>>] = NoWorker
    <3>1. worker[<<j, a>>] = NoWorker
      BY <1>0, <2>2 DEF UnspawnedAreNew
    <3> QED BY <1>1, <1>2, <3>1 DEF Alive, NoWorker
  <2> QED BY <1>0, <2>1, <2>2 DEF UnspawnedAreNew, ToCome
<1>8. FreshReceipts'
  BY <1>0, <1>1, <1>2, SupervisorAssumption DEF FreshReceipts, Effect, WorkerState, Genesis, Receipt
<1>9. HolderIsInside'
  <2>1. ASSUME NEW v \in Job \X Attempt
        PROVE  /\ worker'[v].at \in Inside => holder' = v
               /\ worker'[v].at \in {"claim", "working"} => ~Recovers(v)'
    <3>1. Recovers(v)' <=> Recovers(v)
      BY DEF Recovers
    <3>2. CASE v = w
      BY <1>2, <3>1, <3>2 DEF Effect, Inside
    <3>3. CASE v # w
      <4>1. worker'[v] = worker[v] /\ v # None
        BY <1>2, <2>1, <3>3, SupervisorAssumption
      <4>2. worker[v].at \in Inside => holder = v
        BY <1>0, <2>1 DEF HolderIsInside
      <4>3. holder = v => holder' = v
        BY <3>3, <4>1 DEF Effect
      <4>4. worker[v].at \in {"claim", "working"} => ~Recovers(v)
        BY <1>0, <2>1 DEF HolderIsInside
      <4> QED BY <3>1, <4>1, <4>2, <4>3, <4>4
    <3> QED BY <3>2, <3>3
  <2>2. aside' = "locked" => holder' = Quarantiner
    BY <1>0, <1>3, SupervisorAssumption DEF HolderIsInside, Effect
  <2> QED BY <2>1, <2>2 DEF HolderIsInside
<1>10. LedgerSound'
  BY LedgerStep
<1>11. AnswersTrue'
  <2> SUFFICES ASSUME NEW v \in Job \X Attempt
               PROVE  /\ worker'[v].result = "busy" => worker'[v].at = "gone" /\ worker'[v].code = 2
                      /\ worker'[v].receipt.id # None /\ worker'[v].receipt.outcome # None =>
                           /\ worker'[v].receipt.outcome \in ever'[worker'[v].receipt.id]
                           /\ Moved' \/ ledger'[worker'[v].receipt.id].outcome = worker'[v].receipt.outcome
    BY DEF AnswersTrue
  <2>1. CASE v = w
    BY <1>0, <1>2, <2>1 DEF Effect, Tells, LedgerSound
  <2>2. CASE v # w
    <3>1. worker'[v] = worker[v] /\ (worker[v].receipt.id # None => worker[v].receipt.id \in OperationId)
      BY <1>0, <1>2, <2>2 DEF TypeOK, Receipt, Genesis
    <3> QED BY <1>0, <3>1, LedgerStep, SupervisorAssumption DEF AnswersTrue, Moved
  <2> QED BY <2>1, <2>2
<1>12. \A j \in Job : Committed(j) => Committed(j)'
  <2> SUFFICES ASSUME NEW j \in Job, Committed(j), job[j].attempt = 0 PROVE Committed(j)'
    BY <1>0 DEF Committed, TypeOK, Attempt
  <2>1. <<j, 0>> \in Job \X Attempt
    BY SupervisorAssumption DEF Attempt
  <2> QED BY <1>1, <1>2, <2>1 DEF Committed, Effect
<1>13. OpenIsCommitted'
  <2> SUFFICES ASSUME NEW id \in OperationId, IsOpen(id)', ~Moved'
               PROVE  \E j \in Job : Committed(j)' /\ job'[j].request.id = id
    BY DEF OpenIsCommitted
  <2>1. CASE IsOpen(id)
    BY <1>0, <1>12, <2>1 DEF OpenIsCommitted, Moved
  <2>2. CASE ~IsOpen(id)
    <3>1. /\ id = Wanted(w).id /\ ledger[id].outcome = None /\ worker[w].at = "claim" /\ new.at = "working"
      BY <2>2, LedgerStep
    <3>2. ~Recovers(w) /\ w[2] = 0 /\ w = <<w[1], 0>> /\ Wanted(w) = job[w[1]].request
      BY <1>0, <1>1, <1>4, <3>1, RequestServed DEF HolderIsInside
    <3>3. job[w[1]].kept
      BY <1>0, <1>1, <1>4, <3>1, <3>2, SupervisorAssumption DEF DroppedIsOver, Moved
    <3>4. Committed(w[1])'
      BY <1>2, <3>1, <3>2, <3>3 DEF Committed, Effect
    <3> QED BY <1>4, <3>1, <3>2, <3>4
  <2> QED BY <2>1, <2>2
<1>14. DroppedIsOver'
  <2> SUFFICES ASSUME NEW j \in Job, NEW a \in Attempt, Alive(<<j, a>>)', ~job'[j].kept,
                      job'[j].request.id # None
               PROVE  Moved' \/ ledger'[job'[j].request.id].outcome # None
    BY DEF DroppedIsOver
  <2>1. Alive(<<j, a>>) /\ job[j].request.id \in OperationId
    BY <1>6, RequestServed DEF Wanted
  <2> QED BY <1>0, <2>1, LedgerStep DEF DroppedIsOver, Moved
<1> QED BY <1>5, <1>7, <1>8, <1>9, <1>10, <1>11, <1>13, <1>14 DEF SupervisorInv

-----------------------------------------------------------------------------
(* Supervisor steps preserve the invariant                                 *)

\* A response with a code that settles: the operation's outcome is what it says,
\* or its first worker was refused the lock.
LEMMA Settles ==
  ASSUME SupervisorInv, NEW j \in Job, job[j].at # "unused",
         NEW response, response = NoWorker \/ response = worker[Current(j)],
         response.code # None, SettledBy(response, job[j].request, Action(j)),
         job[j].request.id # None
  PROVE  /\ response = worker[Current(j)] /\ response.code \in 0..3
         /\ \/ /\ Moved \/ ledger[job[j].request.id].outcome # None
               /\ \E outcome \in ever[job[j].request.id] : OutcomeCode(outcome) = response.code
            \/ /\ job[j].request.kind = "upgrade" /\ job[j].attempt = 0
               /\ response.result = "busy" /\ response.code = 2
<1>1. Current(j) \in Job \X Attempt /\ job[j].attempt \in Attempt /\ Current(j) = <<j, job[j].attempt>>
  BY DEF Current, SupervisorInv, TypeOK
<1>2. response = worker[Current(j)] /\ response \in WorkerState
  BY <1>1 DEF NoWorker, SupervisorInv, TypeOK, WorkerState
<1>3. response.code \in 0..3
  BY <1>2 DEF WorkerState
<1>4. CASE job[j].request.kind = "upgrade" /\ Action(j) = "upgrade" /\ response.result = "busy"
  <2>1. ~(job[j].attempt > 0)
    BY <1>1, <1>4 DEF Action, Recovers
  <2>2. job[j].attempt = 0
    BY <1>1, <2>1, SupervisorAssumption DEF Attempt
  <2>3. response.code = 2
    BY <1>1, <1>2, <1>4 DEF SupervisorInv, AnswersTrue
  <2> QED BY <1>2, <1>3, <1>4, <2>2, <2>3
<1>5. CASE BoundAnswer(response, job[j].request)
  <2>1. /\ response.receipt.id = job[j].request.id /\ response.receipt.outcome # None
        /\ OutcomeCode(response.receipt.outcome) = response.code
    BY <1>5 DEF BoundAnswer
  <2>2. /\ response.receipt.outcome \in ever[job[j].request.id]
        /\ Moved \/ ledger[job[j].request.id].outcome = response.receipt.outcome
    BY <1>1, <1>2, <2>1 DEF SupervisorInv, AnswersTrue
  <2> QED BY <1>2, <1>3, <2>1, <2>2
<1> QED BY <1>4, <1>5 DEF SettledBy

\* The job of an attempt under way changes; its worker, if anything, is spawned
\* or reaped.
LEMMA ActiveJob ==
  ASSUME SupervisorInv, NEW j \in Job, job[j].at \notin {"unused"}
  PROVE  /\ Current(j) = <<j, job[j].attempt>> /\ Current(j) \in Job \X Attempt
         /\ job[j].attempt \in Attempt /\ job[j].request \in Request
         /\ job[j].request.id \in OperationId \cup {None}
BY DEF SupervisorInv, TypeOK, RequestsKept, Current, Request

\* A dead worker may lose what it answered.
Reaps(j) ==
  \/ UNCHANGED worker
  \/ ~Alive(Current(j)) /\ worker' = [worker EXCEPT ![Current(j)] = Gone]

JobState ==
  [at : JobStage, request : Request \cup {NoRequest}, attempt : Attempt, exit : {None} \cup 0..3,
   kept : BOOLEAN, resumes : Job \cup {None}]

\* The parts of the invariant that workers and the ledger carry survive reaping.
LEMMA ReapStep ==
  ASSUME SupervisorInv, NEW j \in Job, job[j].at # "unused", Reaps(j),
         UNCHANGED <<ledger, latest, holder, aside, ever>>
  PROVE  /\ worker' \in [Job \X Attempt -> WorkerState]
         /\ \A w \in Job \X Attempt :
              worker'[w] = worker[w] \/ (w = Current(j) /\ worker'[w] = Gone /\ ~Alive(w))
         /\ \A w \in Job \X Attempt : Alive(w)' <=> Alive(w)
         /\ FreshReceipts' /\ LedgerSound' /\ AnswersTrue'
         /\ \A w \in Job \X Attempt :
              worker[w].at \in Inside \/ worker'[w].at \in Inside => worker'[w] = worker[w]
<1>0. TypeOK /\ FreshReceipts /\ LedgerSound /\ AnswersTrue
  BY DEF SupervisorInv
<1>1. Current(j) \in Job \X Attempt
  BY ActiveJob
<1>2. /\ Gone \in WorkerState /\ Gone.at = "gone" /\ Gone.result # "busy" /\ Gone.receipt.id = None
  BY SupervisorAssumption DEF Gone, NoWorker, WorkerState, WorkerStage, Result, Genesis
<1>3. worker' \in [Job \X Attempt -> WorkerState]
  BY <1>0, <1>1, <1>2 DEF TypeOK, WorkerState, Reaps
<1>4. \A w \in Job \X Attempt :
        worker'[w] = worker[w] \/ (w = Current(j) /\ worker'[w] = Gone /\ ~Alive(w))
  BY <1>0, <1>1 DEF TypeOK, Reaps
<1>5. \A w \in Job \X Attempt : Alive(w)' <=> Alive(w)
  BY <1>2, <1>4 DEF Alive
<1>6. FreshReceipts'
  BY <1>0, <1>2, <1>4 DEF FreshReceipts
<1>7. LedgerSound'
  BY <1>0 DEF LedgerSound, IsOpen
<1>8. AnswersTrue'
  BY <1>0, <1>2, <1>4 DEF AnswersTrue, Moved
<1>9. \A w \in Job \X Attempt :
        worker[w].at \in Inside \/ worker'[w].at \in Inside => worker'[w] = worker[w]
  BY <1>2, <1>4 DEF Alive, Inside
<1> QED BY <1>3, <1>4, <1>5, <1>6, <1>7, <1>8, <1>9

\* An attempt ends without a settled result, or a supervisor dies.
LEMMA ProgressStep ==
  ASSUME SupervisorInv, NEW j \in Job, Active(j), Reaps(j),
         job[j].at = "attempting" => UNCHANGED worker,
         NEW new \in JobState, job' = [job EXCEPT ![j] = new],
         new.request = job[j].request, new.resumes = job[j].resumes,
         new.kept = TRUE, new.at # "unused",
         \/ new.at # "attempting" /\ new.attempt = job[j].attempt
         \/ new.at = "attempting" /\ new.attempt = job[j].attempt + 1 /\ ~Alive(Current(j)),
         UNCHANGED <<ledger, latest, holder, aside, ever>>
  PROVE  SupervisorInv'
<1>0. /\ TypeOK /\ AliveIsCurrent /\ UnspawnedAreNew /\ RequestsKept /\ FreshReceipts /\ HolderIsInside
      /\ LedgerSound /\ AnswersTrue /\ OpenIsCommitted /\ DroppedIsOver
  BY DEF SupervisorInv
<1>1. job[j].at # "unused"
  BY DEF Active
<1>2. job'[j] = new /\ \A k \in Job : k # j => job'[k] = job[k]
  BY <1>0 DEF TypeOK
<1>3. /\ Current(j) = <<j, job[j].attempt>> /\ Current(j) \in Job \X Attempt
      /\ job[j].attempt \in Nat /\ new.attempt \in Nat
  BY <1>1, ActiveJob, SupervisorAssumption DEF JobState, Attempt
<1>4. TypeOK'
  <2>1. job' \in [Job -> JobState]
    BY <1>0 DEF TypeOK, JobState
  <2> QED BY <1>0, <1>1, <2>1, ReapStep DEF TypeOK, JobState, WorkerState
<1>5. AliveIsCurrent'
  <2> SUFFICES ASSUME NEW k \in Job, NEW a \in Attempt, Alive(<<k, a>>)'
               PROVE  a = job'[k].attempt /\ job'[k].at \notin {"unused", "attempting"}
    BY DEF AliveIsCurrent
  <2>1. Alive(<<k, a>>) /\ a = job[k].attempt /\ job[k].at \notin {"unused", "attempting"}
    BY <1>0, <1>1, ReapStep DEF AliveIsCurrent
  <2> QED BY <1>2, <1>3, <2>1
<1>6. UnspawnedAreNew'
  <2>1. ASSUME NEW k \in Job, NEW a \in Attempt, ToCome(k, a)'
        PROVE  worker'[<<k, a>>] = NoWorker
    <3>1. a \in Nat
      BY SupervisorAssumption DEF Attempt
    <3>2. ToCome(k, a)
      BY <1>2, <1>3, <2>1, <3>1 DEF ToCome
    <3>3. worker[<<k, a>>] = NoWorker
      BY <1>0, <3>2 DEF UnspawnedAreNew
    <3>4. CASE worker'[<<k, a>>] = worker[<<k, a>>]
      BY <3>3, <3>4
    <3>5. CASE worker'[<<k, a>>] # worker[<<k, a>>]
      <4>1. <<k, a>> = Current(j) /\ job[j].at # "attempting"
        BY <1>1, <3>5, ReapStep
      <4> QED BY <1>1, <1>2, <1>3, <2>1, <3>1, <3>2, <4>1 DEF ToCome
    <3> QED BY <3>4, <3>5
  <2>2. \A k \in Job : job'[k].at = "unused" => job'[k] = NoJob
    BY <1>0, <1>2 DEF UnspawnedAreNew
  <2> QED BY <2>1, <2>2 DEF UnspawnedAreNew
<1>7. RequestsKept'
  <2> SUFFICES ASSUME NEW k \in Job
      PROVE  /\ job'[k].at # "unused" => job'[k].request \in Request
             /\ job'[k].kept => job'[k].at # "unused"
             /\ Active(k)' => job'[k].kept
             /\ job'[k].resumes # None =>
                  /\ job'[k].at # "unused"
                  /\ job'[job'[k].resumes].at \notin {"unused", "attempting", "waiting", "killing"}
                  /\ job'[k].request.kind = "recover" /\ job'[k].request.id # None
                  /\ job'[job'[k].resumes].request.id = job'[k].request.id
    BY DEF RequestsKept
  <2>1. job'[k].resumes = job[k].resumes /\ job'[k].request = job[k].request
    BY <1>2
  <2>2. job[k].resumes # None => job[k].resumes \in Job /\ job[k].resumes # j
    BY <1>0 DEF TypeOK, RequestsKept, Active
  <2>3. job[k].resumes # None => job'[job[k].resumes] = job[job[k].resumes]
    BY <1>2, <2>2
  <2> QED BY <1>0, <1>1, <1>2, <2>1, <2>3 DEF RequestsKept, Active
<1>8. HolderIsInside'
  <2>1. ASSUME NEW w \in Job \X Attempt
        PROVE  /\ worker'[w].at \in Inside => holder' = w
               /\ worker'[w].at \in {"claim", "working"} => ~Recovers(w)'
    <3>1. Recovers(w)' <=> Recovers(w)
      BY <1>2 DEF Recovers
    <3>2. worker'[w].at \in Inside => worker'[w] = worker[w]
      BY <1>1, ReapStep
    <3> QED BY <1>0, <3>1, <3>2 DEF HolderIsInside, Inside
  <2> QED BY <1>0, <2>1 DEF HolderIsInside
<1>9. FreshReceipts' /\ LedgerSound' /\ AnswersTrue'
  BY <1>1, ReapStep
<1>10. \A k \in Job : Committed(k) => Committed(k)'
  <2> SUFFICES ASSUME NEW k \in Job, Committed(k) PROVE Committed(k)'
    OBVIOUS
  <2>1. /\ job'[k].kept /\ job[k].attempt \in Nat /\ job'[k].attempt \in Nat
        /\ job'[k].attempt >= job[k].attempt
    <3>1. job[k].attempt \in Nat
      BY <1>0, SupervisorAssumption DEF TypeOK, Attempt
    <3>2. CASE k = j
      <4>1. new.attempt >= job[j].attempt
        BY <1>3
      <4> QED BY <1>2, <1>3, <3>2, <4>1
    <3>3. CASE k # j
      BY <1>2, <3>1, <3>3 DEF Committed
    <3> QED BY <3>2, <3>3
  <2>2. CASE job[k].attempt > 0
    BY <2>1, <2>2 DEF Committed
  <2>3. CASE worker[<<k, 0>>].at \notin {"none", "running"} /\ worker[<<k, 0>>].result # "busy"
    <3>1. <<k, 0>> \in Job \X Attempt
      BY SupervisorAssumption DEF Attempt
    <3>2. Gone.at = "gone" /\ Gone.result # "busy"
      BY SupervisorAssumption DEF Gone, NoWorker, Result
    <3>3. worker'[<<k, 0>>] \in {worker[<<k, 0>>], Gone}
      BY <1>1, <3>1, ReapStep
    <3> QED BY <2>1, <2>3, <3>2, <3>3 DEF Committed
  <2> QED BY <2>2, <2>3 DEF Committed
<1>11. \A k \in Job : job'[k].request = job[k].request
  BY <1>2
<1>12. OpenIsCommitted'
  BY <1>0, <1>10, <1>11 DEF OpenIsCommitted, IsOpen, Moved
<1>13. DroppedIsOver'
  <2>1. \A k \in Job : job[k].kept => job'[k].kept
    BY <1>2
  <2>2. \A w \in Job \X Attempt : Alive(w)' <=> Alive(w)
    BY <1>1, ReapStep
  <2> QED BY <1>0, <1>11, <2>1, <2>2 DEF DroppedIsOver, Moved
<1> QED BY <1>4, <1>5, <1>6, <1>7, <1>8, <1>9, <1>12, <1>13 DEF SupervisorInv

\* A job that does not change stays committed.
LEMMA CommittedStays ==
  ASSUME SupervisorInv, NEW j \in Job, job[j].at # "unused", Reaps(j),
         UNCHANGED <<ledger, latest, holder, aside, ever>>,
         NEW k \in Job, Committed(k), job'[k] = job[k]
  PROVE  Committed(k)'
<1>1. <<k, 0>> \in Job \X Attempt
  BY SupervisorAssumption DEF Attempt
<1>2. Gone.at = "gone" /\ Gone.result # "busy"
  BY SupervisorAssumption DEF Gone, NoWorker, Result
<1>3. worker'[<<k, 0>>] \in {worker[<<k, 0>>], Gone}
  BY <1>1, ReapStep
<1> QED BY <1>2, <1>3 DEF Committed

\* An invocation that is resumed began.
LEMMA RequestResumed ==
  ASSUME SupervisorInv, NEW j \in Job, NEW k \in Job, k = job[j].resumes
  PROVE  job[k].at \notin {"unused", "attempting", "waiting", "killing"}
BY SupervisorAssumption DEF SupervisorInv, RequestsKept

\* The jobs after a settled result.
Settled(j, code) ==
  LET settled == Returned(j, code, FALSE)
  IN [k \in Job |-> IF k = job[j].resumes THEN [settled[k] EXCEPT !.kept = FALSE] ELSE settled[k]]

\* A settled result: the descriptor goes, and with it the one that was resumed.
LEMMA SettleStep ==
  ASSUME SupervisorInv, NEW j \in Job, Active(j), Reaps(j), ~Alive(Current(j)),
         job[j].at = "attempting" => UNCHANGED worker,
         NEW response, response = NoWorker \/ response = worker[Current(j)],
         response.code # None, SettledBy(response, job[j].request, Action(j)),
         job' = Settled(j, response.code),
         UNCHANGED <<ledger, latest, holder, aside, ever>>
  PROVE  SupervisorInv'
<1>0. /\ TypeOK /\ AliveIsCurrent /\ UnspawnedAreNew /\ RequestsKept /\ FreshReceipts /\ HolderIsInside
      /\ LedgerSound /\ AnswersTrue /\ OpenIsCommitted /\ DroppedIsOver
  BY DEF SupervisorInv
<1>1. job[j].at # "unused" /\ job[j].at \notin {"returned", "dead"} /\ job[j].resumes # j
  BY <1>0, SupervisorAssumption DEF Active, RequestsKept
<1>2. job \in [Job -> JobState] /\ Current(j) = <<j, job[j].attempt>> /\ Current(j) \in Job \X Attempt
  BY <1>0, <1>1, ActiveJob DEF TypeOK, JobState
<1>3. response \in WorkerState /\ response.code \in 0..3
  <2>1. response \in WorkerState
    BY <1>0, <1>2 DEF NoWorker, TypeOK, WorkerState, WorkerStage
  <2> QED BY <2>1 DEF WorkerState
<1>4. /\ job'[j] = [job[j] EXCEPT !.at = "returned", !.exit = response.code, !.kept = FALSE]
      /\ \A k \in Job : k # j =>
           job'[k] = IF k = job[j].resumes THEN [job[k] EXCEPT !.kept = FALSE] ELSE job[k]
  BY <1>1, <1>2 DEF Returned, Settled
<1>5. \A k \in Job :
        /\ job'[k].request = job[k].request /\ job'[k].resumes = job[k].resumes
        /\ job'[k].attempt = job[k].attempt
        /\ job'[k].at = IF k = j THEN "returned" ELSE job[k].at
        /\ k \in {j, job[j].resumes} => job'[k].kept = FALSE
        /\ k \notin {j, job[j].resumes} => job'[k] = job[k]
        /\ job'[k] \in JobState
  <2> SUFFICES ASSUME NEW k \in Job
      PROVE  /\ job'[k].request = job[k].request /\ job'[k].resumes = job[k].resumes
             /\ job'[k].attempt = job[k].attempt
             /\ job'[k].at = IF k = j THEN "returned" ELSE job[k].at
             /\ k \in {j, job[j].resumes} => job'[k].kept = FALSE
             /\ k \notin {j, job[j].resumes} => job'[k] = job[k]
             /\ job'[k] \in JobState
    OBVIOUS
  <2>1. job[k] \in JobState
    BY <1>2
  <2>2. CASE k = j
    BY <1>3, <1>4, <2>1, <2>2 DEF JobState, JobStage
  <2>3. CASE k # j /\ k = job[j].resumes
    <3>1. job'[k] = [job[k] EXCEPT !.kept = FALSE]
      BY <1>4, <2>3
    <3> QED BY <2>1, <2>3, <3>1 DEF JobState
  <2>4. CASE k # j /\ k # job[j].resumes
    BY <1>4, <2>1, <2>4
  <2> QED BY <2>2, <2>3, <2>4
<1>6. TypeOK'
  <2>1. DOMAIN job' = Job /\ job' = [k \in Job |-> job'[k]]
    BY <1>2 DEF Returned, Settled
  <2>2. job' \in [Job -> JobState]
    BY <1>5, <2>1
  <2> QED BY <1>0, <1>1, <2>2, ReapStep DEF TypeOK, JobState, WorkerState
<1>7. AliveIsCurrent'
  <2> SUFFICES ASSUME NEW k \in Job, NEW a \in Attempt, Alive(<<k, a>>)'
               PROVE  a = job'[k].attempt /\ job'[k].at \notin {"unused", "attempting"}
    BY DEF AliveIsCurrent
  <2>1. Alive(<<k, a>>) /\ a = job[k].attempt /\ job[k].at \notin {"unused", "attempting"}
    BY <1>0, <1>1, ReapStep DEF AliveIsCurrent
  <2> QED BY <1>5, <2>1
<1>8. UnspawnedAreNew'
  <2>1. ASSUME NEW k \in Job, NEW a \in Attempt, ToCome(k, a)'
        PROVE  worker'[<<k, a>>] = NoWorker
    <3>1. a \in Nat /\ job[k].attempt \in Nat
      BY <1>2, SupervisorAssumption DEF Attempt, JobState
    <3>2. ToCome(k, a) /\ (k = j => a > job[j].attempt)
      BY <1>5, <2>1 DEF ToCome
    <3>3. worker[<<k, a>>] = NoWorker /\ <<k, a>> # Current(j)
      BY <1>0, <1>2, <3>1, <3>2 DEF UnspawnedAreNew
    <3> QED BY <1>1, <3>3, ReapStep
  <2>2. \A k \in Job : job'[k].at = "unused" => job'[k] = NoJob
    <3> SUFFICES ASSUME NEW k \in Job, job'[k].at = "unused" PROVE job'[k] = NoJob
      OBVIOUS
    <3>1. k # j /\ job[k].at = "unused"
      BY <1>5
    <3>2. k # job[j].resumes
      BY <1>0, <3>1, RequestResumed DEF RequestsKept
    <3> QED BY <1>0, <1>4, <3>1, <3>2 DEF UnspawnedAreNew
  <2> QED BY <2>1, <2>2 DEF UnspawnedAreNew
<1>9. RequestsKept'
  <2> SUFFICES ASSUME NEW k \in Job
      PROVE  /\ job'[k].at # "unused" => job'[k].request \in Request
             /\ job'[k].kept => job'[k].at # "unused"
             /\ Active(k)' => job'[k].kept
             /\ job'[k].resumes # None =>
                  /\ job'[k].at # "unused"
                  /\ job'[job'[k].resumes].at \notin {"unused", "attempting", "waiting", "killing"}
                  /\ job'[k].request.kind = "recover" /\ job'[k].request.id # None
                  /\ job'[job'[k].resumes].request.id = job'[k].request.id
    BY DEF RequestsKept
  <2>1. job[k].resumes # None => job[k].resumes \in Job
    BY <1>2 DEF JobState
  <2>2. Active(k)' => k # j /\ Active(k) /\ k # job[j].resumes
    BY <1>1, <1>5, RequestResumed DEF Active
  <2> QED BY <1>0, <1>1, <1>5, <2>1, <2>2 DEF RequestsKept
<1>10. HolderIsInside'
  <2>1. ASSUME NEW w \in Job \X Attempt
        PROVE  /\ worker'[w].at \in Inside => holder' = w
               /\ worker'[w].at \in {"claim", "working"} => ~Recovers(w)'
    <3>1. Recovers(w)' <=> Recovers(w)
      BY <1>5 DEF Recovers
    <3>2. worker'[w].at \in Inside => worker'[w] = worker[w]
      BY <1>1, ReapStep
    <3> QED BY <1>0, <3>1, <3>2 DEF HolderIsInside, Inside
  <2> QED BY <1>0, <2>1 DEF HolderIsInside
<1>11. FreshReceipts' /\ LedgerSound' /\ AnswersTrue'
  BY <1>1, ReapStep
<1>12. CASE job[j].request.id = None
  <2>1. job[j].resumes = None
    BY <1>0, <1>12 DEF RequestsKept
  <2>2. \A k \in Job : k # j => job'[k] = job[k]
    BY <1>4, <2>1, SupervisorAssumption
  <2>3. \A k \in Job : k # j /\ Committed(k) => Committed(k)'
    BY <1>1, <2>2, CommittedStays
  <2>4. OpenIsCommitted'
    BY <1>0, <1>12, <2>2, <2>3, SupervisorAssumption DEF OpenIsCommitted, IsOpen, Moved
  <2>5. DroppedIsOver'
    <3>1. \A w \in Job \X Attempt : Alive(w)' <=> Alive(w)
      BY <1>1, ReapStep
    <3> QED BY <1>0, <1>5, <1>12, <2>2, <3>1 DEF DroppedIsOver, Moved
  <2> QED BY <1>6, <1>7, <1>8, <1>9, <1>10, <1>11, <2>4, <2>5 DEF SupervisorInv
<1>13. CASE job[j].request.id # None
  <2>1. /\ response = worker[Current(j)]
        /\ \/ Moved \/ ledger[job[j].request.id].outcome # None
           \/ job[j].request.kind = "upgrade" /\ job[j].attempt = 0 /\ response.result = "busy"
    BY <1>1, <1>13, Settles
  <2>2. \A k \in Job : k = job[j].resumes => job[k].request.id = job[j].request.id
    BY <1>0, SupervisorAssumption DEF RequestsKept
  <2>3. OpenIsCommitted'
    <3> SUFFICES ASSUME NEW id \in OperationId, IsOpen(id), ~Moved
                 PROVE  \E k \in Job : Committed(k)' /\ job'[k].request.id = id
      BY DEF OpenIsCommitted, IsOpen, Moved
    <3>1. PICK k \in Job : Committed(k) /\ job[k].request.id = id
      BY <1>0 DEF OpenIsCommitted
    <3>2. k # j
      <4> SUFFICES ASSUME k = j PROVE FALSE
        OBVIOUS
      <4>1. job[j].attempt = 0 /\ response.result = "busy" /\ response = worker[<<j, 0>>]
        BY <1>2, <2>1, <3>1 DEF IsOpen
      <4> QED BY <3>1, <4>1 DEF Committed
    <3>3. k # job[j].resumes
      BY <1>0, <2>1, <2>2, <3>1, SupervisorAssumption DEF IsOpen, RequestsKept, Unknown
    <3>4. job'[k] = job[k]
      BY <1>4, <3>2, <3>3
    <3> QED BY <1>1, <3>1, <3>4, CommittedStays
  <2>4. DroppedIsOver'
    <3> SUFFICES ASSUME NEW k \in Job, NEW a \in Attempt, Alive(<<k, a>>)', ~job'[k].kept,
                        job[k].request.id # None
                 PROVE  Moved \/ ledger[job[k].request.id].outcome # None
      BY <1>5 DEF DroppedIsOver, Moved
    <3>1. Alive(<<k, a>>) /\ a = job[k].attempt
      BY <1>0, <1>1, ReapStep DEF AliveIsCurrent
    <3>2. k # j
      BY <1>2, <3>1
    <3>3. CASE k = job[j].resumes
      BY <1>0, <2>1, <2>2, <3>3, SupervisorAssumption DEF RequestsKept
    <3>4. CASE k # job[j].resumes
      BY <1>0, <1>5, <3>1, <3>2, <3>4 DEF DroppedIsOver
    <3> QED BY <3>3, <3>4
  <2> QED BY <1>6, <1>7, <1>8, <1>9, <1>10, <1>11, <2>3, <2>4 DEF SupervisorInv
<1> QED BY <1>12, <1>13

\* A worker is spawned.
LEMMA SpawnStep ==
  ASSUME SupervisorInv, NEW j \in Job, job[j].at = "attempting",
         job' = [job EXCEPT ![j].at = "waiting"],
         worker' = [worker EXCEPT ![Current(j)].at = "running"],
         UNCHANGED <<ledger, latest, holder, aside, ever>>
  PROVE  SupervisorInv'
<1>0. /\ TypeOK /\ AliveIsCurrent /\ UnspawnedAreNew /\ RequestsKept /\ FreshReceipts /\ HolderIsInside
      /\ LedgerSound /\ AnswersTrue /\ OpenIsCommitted /\ DroppedIsOver
  BY DEF SupervisorInv
<1>1. /\ Current(j) = <<j, job[j].attempt>> /\ Current(j) \in Job \X Attempt
      /\ job[j].attempt \in Attempt /\ job[j] \in JobState
  BY <1>0, ActiveJob DEF TypeOK, JobState
<1>2. /\ job'[j] = [job[j] EXCEPT !.at = "waiting"] /\ job'[j] \in JobState
      /\ \A k \in Job : k # j => job'[k] = job[k]
  BY <1>0, <1>1 DEF TypeOK, JobState, JobStage
<1>3. \A k \in Job :
        /\ job'[k].request = job[k].request /\ job'[k].resumes = job[k].resumes
        /\ job'[k].attempt = job[k].attempt /\ job'[k].kept = job[k].kept
        /\ job'[k].at = IF k = j THEN "waiting" ELSE job[k].at
  BY <1>1, <1>2 DEF JobState
<1>4. worker[Current(j)] = NoWorker
  BY <1>0, <1>1 DEF UnspawnedAreNew, ToCome
<1>5. /\ worker'[Current(j)] = [NoWorker EXCEPT !.at = "running"]
      /\ \A w \in Job \X Attempt : w # Current(j) => worker'[w] = worker[w]
  BY <1>0, <1>1, <1>4 DEF TypeOK
<1>6. /\ worker'[Current(j)] \in WorkerState /\ worker'[Current(j)].at = "running"
      /\ worker'[Current(j)].result = None /\ worker'[Current(j)].receipt.id = None
  BY <1>5 DEF NoWorker, WorkerState, WorkerStage, Genesis
<1>7. None # "busy" /\ 0 \in Attempt
  BY SupervisorAssumption DEF Result, Attempt
<1>8. TypeOK'
  <2>1. job' \in [Job -> JobState]
    BY <1>0, <1>2 DEF TypeOK, JobState
  <2>2. worker' \in [Job \X Attempt -> WorkerState]
    BY <1>0, <1>1, <1>5, <1>6 DEF TypeOK, WorkerState
  <2> QED BY <1>0, <2>1, <2>2 DEF TypeOK, JobState, WorkerState
<1>9. AliveIsCurrent'
  <2> SUFFICES ASSUME NEW k \in Job, NEW a \in Attempt, Alive(<<k, a>>)'
               PROVE  a = job'[k].attempt /\ job'[k].at \notin {"unused", "attempting"}
    BY DEF AliveIsCurrent
  <2>1. CASE <<k, a>> = Current(j)
    BY <1>1, <1>3, <2>1
  <2>2. CASE <<k, a>> # Current(j)
    <3>1. Alive(<<k, a>>)
      BY <1>5, <2>2 DEF Alive
    <3> QED BY <1>0, <1>3, <3>1 DEF AliveIsCurrent
  <2> QED BY <2>1, <2>2
<1>10. UnspawnedAreNew'
  <2>1. ASSUME NEW k \in Job, NEW a \in Attempt, ToCome(k, a)'
        PROVE  worker'[<<k, a>>] = NoWorker
    <3>1. a \in Nat /\ job[j].attempt \in Nat
      BY <1>1, SupervisorAssumption DEF Attempt
    <3>2. ToCome(k, a) /\ <<k, a>> # Current(j)
      BY <1>1, <1>3, <2>1, <3>1 DEF ToCome
    <3> QED BY <1>0, <1>5, <3>2 DEF UnspawnedAreNew
  <2>2. \A k \in Job : job'[k].at = "unused" => job'[k] = NoJob
    BY <1>0, <1>2, <1>3 DEF UnspawnedAreNew
  <2> QED BY <2>1, <2>2 DEF UnspawnedAreNew
<1>11. RequestsKept'
  <2> SUFFICES ASSUME NEW k \in Job
      PROVE  /\ job'[k].at # "unused" => job'[k].request \in Request
             /\ job'[k].kept => job'[k].at # "unused"
             /\ Active(k)' => job'[k].kept
             /\ job'[k].resumes # None =>
                  /\ job'[k].at # "unused"
                  /\ job'[job'[k].resumes].at \notin {"unused", "attempting", "waiting", "killing"}
                  /\ job'[k].request.kind = "recover" /\ job'[k].request.id # None
                  /\ job'[job'[k].resumes].request.id = job'[k].request.id
    BY DEF RequestsKept
  <2>1. job[k].resumes # None => job[k].resumes \in Job /\ job[k].resumes # j
    BY <1>0 DEF TypeOK, RequestsKept
  <2> QED BY <1>0, <1>3, <2>1 DEF RequestsKept, Active
<1>12. HolderIsInside'
  <2>1. ASSUME NEW w \in Job \X Attempt
        PROVE  /\ worker'[w].at \in Inside => holder' = w
               /\ worker'[w].at \in {"claim", "working"} => ~Recovers(w)'
    <3>1. Recovers(w)' <=> Recovers(w)
      BY <1>3 DEF Recovers
    <3>2. CASE w = Current(j)
      BY <1>6, <3>2 DEF Inside
    <3>3. CASE w # Current(j)
      BY <1>0, <1>5, <3>1, <3>3 DEF HolderIsInside, Inside
    <3> QED BY <3>2, <3>3
  <2> QED BY <1>0, <2>1 DEF HolderIsInside
<1>13. FreshReceipts' /\ AnswersTrue'
  <2>1. FreshReceipts'
    BY <1>0, <1>5, <1>6 DEF FreshReceipts
  <2>2. AnswersTrue'
    BY <1>0, <1>5, <1>6, <1>7 DEF AnswersTrue, Moved
  <2> QED BY <2>1, <2>2
<1>14. LedgerSound'
  BY <1>0 DEF LedgerSound, IsOpen
<1>15. OpenIsCommitted'
  <2>1. ASSUME NEW k \in Job, Committed(k) PROVE Committed(k)'
    <3>1. <<k, 0>> \in Job \X Attempt
      BY <1>7
    <3>2. CASE <<k, 0>> = Current(j)
      BY <1>1, <1>3, <1>4, <2>1, <3>2 DEF Committed, NoWorker
    <3>3. CASE <<k, 0>> # Current(j)
      BY <1>3, <1>5, <2>1, <3>1, <3>3 DEF Committed
    <3> QED BY <3>2, <3>3
  <2> QED BY <1>0, <1>3, <2>1 DEF OpenIsCommitted, IsOpen, Moved
<1>16. DroppedIsOver'
  <2> SUFFICES ASSUME NEW k \in Job, NEW a \in Attempt, Alive(<<k, a>>)', ~job'[k].kept,
                      job[k].request.id # None
               PROVE  Moved \/ ledger[job[k].request.id].outcome # None
    BY <1>3 DEF DroppedIsOver, Moved
  <2>1. CASE k = j
    <3>1. job[j].kept
      BY <1>0 DEF RequestsKept, Active
    <3> QED BY <1>3, <2>1, <3>1
  <2>2. CASE k # j
    <3>1. <<k, a>> # Current(j) /\ Alive(<<k, a>>)
      BY <1>1, <1>5, <2>2 DEF Alive
    <3> QED BY <1>0, <1>3, <3>1 DEF DroppedIsOver
  <2> QED BY <2>1, <2>2
<1> QED BY <1>8, <1>9, <1>10, <1>11, <1>12, <1>13, <1>14, <1>15, <1>16 DEF SupervisorInv

\* An invocation begins or resumes another one.
LEMMA BeginStep ==
  ASSUME SupervisorInv, NEW j \in Job, job[j].at = "unused",
         NEW new \in JobState, job' = [job EXCEPT ![j] = new],
         new.at = "attempting", new.attempt = 0, new.kept = TRUE, new.request \in Request,
         new.resumes # None =>
           /\ job[new.resumes].at \in {"returned", "dead"}
           /\ new.request.kind = "recover" /\ new.request.id # None
           /\ new.request.id = job[new.resumes].request.id,
         UNCHANGED <<ledger, latest, worker, holder, aside, ever>>
  PROVE  SupervisorInv'
<1>0. /\ TypeOK /\ AliveIsCurrent /\ UnspawnedAreNew /\ RequestsKept /\ FreshReceipts /\ HolderIsInside
      /\ LedgerSound /\ AnswersTrue /\ OpenIsCommitted /\ DroppedIsOver
  BY DEF SupervisorInv
<1>1. job'[j] = new /\ \A k \in Job : k # j => job'[k] = job[k]
  BY <1>0 DEF TypeOK
<1>2. job[j].attempt = 0 /\ ~job[j].kept /\ \A a \in Attempt : worker[<<j, a>>] = NoWorker
  <2>1. job[j] = NoJob
    BY <1>0 DEF UnspawnedAreNew
  <2>2. ASSUME NEW a \in Attempt PROVE worker[<<j, a>>] = NoWorker
    <3>1. ToCome(j, a)
      BY <2>1, SupervisorAssumption DEF ToCome, NoJob, Attempt
    <3> QED BY <1>0, <3>1 DEF UnspawnedAreNew
  <2> QED BY <2>1, <2>2 DEF NoJob
<1>3. \A a \in Attempt : ~Alive(<<j, a>>) /\ worker[<<j, a>>].at = "none"
  BY <1>2 DEF Alive, NoWorker
<1>4. TypeOK'
  <2>1. job' \in [Job -> JobState]
    BY <1>0 DEF TypeOK, JobState
  <2> QED BY <1>0, <2>1 DEF TypeOK, JobState
<1>5. AliveIsCurrent'
  BY <1>0, <1>1, <1>3 DEF AliveIsCurrent, Alive
<1>6. UnspawnedAreNew'
  BY <1>0, <1>1, <1>2 DEF UnspawnedAreNew, ToCome
<1>7. RequestsKept'
  <2> SUFFICES ASSUME NEW k \in Job
      PROVE  /\ job'[k].at # "unused" => job'[k].request \in Request
             /\ job'[k].kept => job'[k].at # "unused"
             /\ Active(k)' => job'[k].kept
             /\ job'[k].resumes # None =>
                  /\ job'[k].at # "unused"
                  /\ job'[job'[k].resumes].at \notin {"unused", "attempting", "waiting", "killing"}
                  /\ job'[k].request.kind = "recover" /\ job'[k].request.id # None
                  /\ job'[job'[k].resumes].request.id = job'[k].request.id
    BY DEF RequestsKept
  <2>1. CASE k = j
    <3>1. new.resumes # None => new.resumes \in Job /\ new.resumes # j
      BY DEF JobState
    <3> QED BY <1>1, <2>1, <3>1
  <2>2. CASE k # j
    <3>1. job[k].resumes # None => job[k].resumes \in Job /\ job[k].resumes # j
      BY <1>0 DEF TypeOK, RequestsKept
    <3> QED BY <1>0, <1>1, <2>2, <3>1 DEF RequestsKept, Active
  <2> QED BY <2>1, <2>2
<1>8. HolderIsInside'
  <2>1. ASSUME NEW w \in Job \X Attempt, worker[w].at \in {"claim", "working"}
        PROVE  ~Recovers(w)'
    <3>1. w = <<w[1], w[2]>> /\ w[1] \in Job /\ w[2] \in Attempt
      BY <2>1
    <3>2. w[1] # j
      BY <1>3, <2>1, <3>1
    <3> QED BY <1>0, <1>1, <2>1, <3>1, <3>2 DEF HolderIsInside, Recovers
  <2> QED BY <1>0, <2>1 DEF HolderIsInside
<1>9. FreshReceipts' /\ LedgerSound' /\ AnswersTrue'
  BY <1>0 DEF FreshReceipts, LedgerSound, IsOpen, AnswersTrue, Moved
<1>10. OpenIsCommitted'
  <2>1. ASSUME NEW k \in Job, Committed(k) PROVE Committed(k)' /\ k # j
    BY <1>1, <1>2, <2>1 DEF Committed
  <2> QED BY <1>0, <1>1, <2>1 DEF OpenIsCommitted, IsOpen, Moved
<1>11. DroppedIsOver'
  BY <1>0, <1>1, <1>3 DEF DroppedIsOver, Alive, Moved
<1> QED BY <1>4, <1>5, <1>6, <1>7, <1>8, <1>9, <1>10, <1>11 DEF SupervisorInv

\* The state directory is locked, and released or renamed away.
LEMMA QuarantineStep ==
  ASSUME SupervisorInv, Quarantines, UNCHANGED <<job, worker, ever>>
  PROVE  SupervisorInv'
<1>0. /\ TypeOK /\ AliveIsCurrent /\ UnspawnedAreNew /\ RequestsKept /\ FreshReceipts /\ HolderIsInside
      /\ LedgerSound /\ AnswersTrue /\ OpenIsCommitted /\ DroppedIsOver
  BY DEF SupervisorInv
<1>1. AliveIsCurrent' /\ UnspawnedAreNew' /\ RequestsKept' /\ FreshReceipts'
  BY <1>0
  DEF AliveIsCurrent, Alive, UnspawnedAreNew, ToCome, RequestsKept, Active, FreshReceipts
<1>2. \A w \in Job \X Attempt : worker[w].at \notin Inside
  BY <1>0, SupervisorAssumption
  DEF Quarantines, QuarantineLock, QuarantineFails, QuarantineMoves, HolderIsInside
<1>3. TypeOK' /\ HolderIsInside'
  <2>1. TypeOK'
    BY <1>0 DEF Quarantines, QuarantineLock, QuarantineFails, QuarantineMoves, TypeOK
  <2>2. HolderIsInside'
    BY <1>0, <1>2
    DEF Quarantines, QuarantineLock, QuarantineFails, QuarantineMoves, HolderIsInside, Inside, Recovers
  <2> QED BY <2>1, <2>2
<1>4. CASE QuarantineLock \/ QuarantineFails
  <2>1. UNCHANGED <<ledger, latest>> /\ (Moved' <=> Moved)
    BY <1>4 DEF QuarantineLock, QuarantineFails, Moved
  <2> QED BY <1>0, <1>1, <1>3, <2>1
          DEF SupervisorInv, LedgerSound, IsOpen, AnswersTrue, OpenIsCommitted, Committed,
              DroppedIsOver, Alive
<1>5. CASE QuarantineMoves
  <2>1. Moved' /\ latest' = None /\ \A id \in OperationId : ledger'[id].outcome = None /\ ~IsOpen(id)'
    BY <1>5 DEF QuarantineMoves, Moved, Unknown, IsOpen
  <2>2. LedgerSound'
    BY <2>1 DEF LedgerSound
  <2>3. AnswersTrue'
    BY <1>0, <2>1 DEF AnswersTrue
  <2>4. OpenIsCommitted' /\ DroppedIsOver'
    BY <2>1 DEF OpenIsCommitted, DroppedIsOver
  <2> QED BY <1>1, <1>3, <2>2, <2>3, <2>4 DEF SupervisorInv
<1> QED BY <1>4, <1>5 DEF Quarantines

\* The end of an attempt.
LEMMA ConcludeStep ==
  ASSUME SupervisorInv, NEW j \in Job, Active(j), Reaps(j),
         job[j].at = "attempting" => UNCHANGED worker,
         NEW fenced \in BOOLEAN, fenced => ~Alive(Current(j)),
         NEW response, response = NoWorker \/ response = worker[Current(j)],
         Conclude(j, fenced, response),
         UNCHANGED <<ledger, latest, holder, aside, ever>>
  PROVE  SupervisorInv'
<1>1. job[j] \in JobState /\ job[j].attempt \in Attempt /\ job[j].at # "unused"
  BY DEF SupervisorInv, TypeOK, JobState, Active
<1>2. CASE fenced /\ response.code # None /\ SettledBy(response, job[j].request, Action(j))
  <2>1. job' = Settled(j, response.code)
    BY <1>2 DEF Conclude, Settled
  <2> QED BY <1>2, <2>1, SettleStep
<1>3. CASE ~(fenced /\ response.code # None /\ SettledBy(response, job[j].request, Action(j)))
  <2>1. CASE job' = Returned(j, 3, TRUE)
    <3> DEFINE new == [job[j] EXCEPT !.at = "returned", !.exit = 3, !.kept = TRUE]
    <3>1. /\ new \in JobState /\ new.at = "returned" /\ new.kept = TRUE
          /\ new.request = job[j].request /\ new.resumes = job[j].resumes /\ new.attempt = job[j].attempt
      <4>1. 3 \in {None} \cup 0..3 /\ "returned" \in JobStage /\ TRUE \in BOOLEAN
        BY DEF JobStage
      <4> QED BY <1>1, <4>1 DEF JobState
    <3>2. job' = [job EXCEPT ![j] = new]
      BY <1>1, <2>1 DEF Returned, SupervisorInv, TypeOK
    <3> HIDE DEF new
    <3> QED BY <3>1, <3>2, ProgressStep
  <2>2. CASE /\ fenced /\ job[j].attempt # RecoveryAttempts
             /\ job' = [job EXCEPT ![j].at = "attempting", ![j].attempt = @ + 1]
    <3> DEFINE new == [job[j] EXCEPT !.at = "attempting", !.attempt = @ + 1]
    <3>1. job[j].attempt + 1 \in Attempt
      BY <1>1, <2>2, SupervisorAssumption DEF Attempt
    <3>2. job[j].kept = TRUE
      BY <1>1 DEF SupervisorInv, RequestsKept, JobState
    <3>3. /\ new \in JobState /\ new.at = "attempting" /\ new.kept = TRUE
          /\ new.request = job[j].request /\ new.resumes = job[j].resumes
          /\ new.attempt = job[j].attempt + 1
      BY <1>1, <3>1, <3>2 DEF JobState, JobStage
    <3>4. job' = [job EXCEPT ![j] = new]
      BY <1>1, <2>2 DEF SupervisorInv, TypeOK
    <3> HIDE DEF new
    <3> QED BY <2>2, <3>3, <3>4, ProgressStep
  <2> QED BY <1>3, <2>1, <2>2 DEF Conclude
<1> QED BY <1>2, <1>3

\* A supervisor step, of whatever kind.
LEMMA SupervisorStep ==
  ASSUME SupervisorInv, NEW j \in Job,
         Launch(j) \/ (\E k \in Job : Resume(j, k)) \/ Supervises(j) \/ SupervisorDies(j),
         UNCHANGED <<ledger, latest, holder, aside, ever>>
  PROVE  SupervisorInv'
<1>0. /\ job \in [Job -> JobState] /\ job[j] \in JobState /\ 0 \in Attempt
      /\ worker \in [Job \X Attempt -> WorkerState]
  BY SupervisorAssumption DEF SupervisorInv, TypeOK, JobState, WorkerState, Attempt
<1>1. Active(j) => /\ job[j].kept = TRUE /\ job[j].at # "unused"
                   /\ Current(j) = <<j, job[j].attempt>> /\ Current(j) \in Job \X Attempt
  BY <1>0, ActiveJob DEF SupervisorInv, RequestsKept, JobState, Active
<1>2. CASE Launch(j)
  <2>1. PICK r \in Request :
          job' = [job EXCEPT ![j] = [NoJob EXCEPT !.at = "attempting", !.request = r, !.kept = TRUE]]
    BY <1>2 DEF Launch
  <2> DEFINE new == [NoJob EXCEPT !.at = "attempting", !.request = r, !.kept = TRUE]
  <2>2. /\ new \in JobState /\ new.at = "attempting" /\ new.attempt = 0 /\ new.kept = TRUE
        /\ new.request = r /\ new.resumes = None
    BY <1>0 DEF NoJob, JobState, JobStage
  <2>3. job' = [job EXCEPT ![j] = new]
    BY <2>1
  <2> HIDE DEF new
  <2> QED BY <1>2, <2>2, <2>3, BeginStep DEF Launch
<1>3. CASE \E k \in Job : Resume(j, k)
  <2>1. PICK k \in Job : Resume(j, k)
    BY <1>3
  <2> DEFINE r == [job[k].request EXCEPT !.kind = "recover"]
             new == [NoJob EXCEPT !.at = "attempting", !.kept = TRUE, !.resumes = k, !.request = r]
  <2>2. job[k].at \in {"returned", "dead"} /\ job[k].request.id # None /\ job[k].request \in Request
    BY <2>1 DEF Resume, SupervisorInv, RequestsKept
  <2>3. r \in Request /\ r.kind = "recover" /\ r.id = job[k].request.id
    BY <2>2 DEF Request
  <2> HIDE DEF r
  <2>4. /\ new \in JobState /\ new.at = "attempting" /\ new.attempt = 0 /\ new.kept = TRUE
        /\ new.request = r /\ new.resumes = k
    BY <1>0, <2>3 DEF NoJob, JobState, JobStage
  <2>5. job' = [job EXCEPT ![j] = new]
    BY <2>1 DEF Resume, r
  <2> HIDE DEF new
  <2> QED BY <2>1, <2>2, <2>3, <2>4, <2>5, BeginStep DEF Resume
<1>4. CASE Spawn(j)
  <2>1. job[j].at = "attempting" /\ Active(j)
    BY <1>4 DEF Spawn, Active
  <2>2. CASE Conclude(j, TRUE, NoWorker) /\ UNCHANGED worker
    <3>1. ~Alive(Current(j))
      BY <1>1, <2>1 DEF SupervisorInv, AliveIsCurrent
    <3> QED BY <2>1, <2>2, <3>1, ConcludeStep DEF Reaps
  <2> QED BY <1>4, <2>1, <2>2, SpawnStep DEF Spawn
<1>5. CASE Deadline(j)
  <2>1. Active(j) /\ job' = Returned(j, 3, TRUE) /\ UNCHANGED worker
    BY <1>5 DEF Deadline, Active
  <2> DEFINE new == [job[j] EXCEPT !.at = "returned", !.exit = 3, !.kept = TRUE]
  <2>2. /\ new \in JobState /\ new.at = "returned" /\ new.kept = TRUE
        /\ new.request = job[j].request /\ new.resumes = job[j].resumes /\ new.attempt = job[j].attempt
    <3>1. 3 \in {None} \cup 0..3 /\ "returned" \in JobStage /\ TRUE \in BOOLEAN
      BY DEF JobStage
    <3> QED BY <1>0, <3>1 DEF JobState
  <2>3. job' = [job EXCEPT ![j] = new]
    BY <1>0, <2>1 DEF Returned
  <2> HIDE DEF new
  <2> QED BY <2>1, <2>2, <2>3, ProgressStep DEF Reaps
<1>6. CASE Observe(j)
  <2>1. Active(j) /\ job[j].at # "attempting" /\ ~Alive(Current(j))
    BY <1>6 DEF Observe, Active
  <2>2. Reaps(j) /\ Conclude(j, TRUE, worker[Current(j)])
    BY <1>6, <2>1 DEF Observe, Reaps
  <2> QED BY <2>1, <2>2, ConcludeStep
<1>7. CASE Expire(j) \/ SupervisorDies(j)
  <2>1. PICK at \in {"killing", "dead"} : job' = [job EXCEPT ![j].at = at]
    BY <1>7 DEF Expire, SupervisorDies
  <2>2. Active(j)
    BY <1>7 DEF Expire, SupervisorDies, Active
  <2>3. Reaps(j)
    <3>1. worker' = [worker EXCEPT ![Current(j)] = worker[Current(j)]] \/
          (~Alive(Current(j)) /\ worker' = [worker EXCEPT ![Current(j)] = Gone])
      BY <1>7 DEF Expire, SupervisorDies
    <3> QED BY <1>0, <1>1, <2>2, <3>1 DEF Reaps
  <2>4. job[j].at = "attempting" => UNCHANGED worker
    <3>1. job[j].at = "attempting" => worker[Current(j)] = NoWorker /\ SupervisorDies(j)
      BY <1>1, <1>7, <2>2 DEF SupervisorInv, UnspawnedAreNew, ToCome, Expire
    <3>2. job[j].at = "attempting" => worker' = [worker EXCEPT ![Current(j)] = worker[Current(j)]]
      BY <3>1 DEF SupervisorDies
    <3> QED BY <1>0, <1>1, <2>2, <3>2
  <2> DEFINE new == [job[j] EXCEPT !.at = at]
  <2>5. /\ new \in JobState /\ new.at = at /\ new.kept = TRUE
        /\ new.request = job[j].request /\ new.resumes = job[j].resumes /\ new.attempt = job[j].attempt
    BY <1>0, <1>1, <2>2 DEF JobState, JobStage
  <2>6. job' = [job EXCEPT ![j] = new]
    BY <1>0, <2>1
  <2> HIDE DEF new
  <2> QED BY <2>2, <2>3, <2>4, <2>5, <2>6, ProgressStep
<1>8. CASE AwaitKilled(j)
  <2>1. Active(j) /\ job[j].at # "attempting" /\ Reaps(j)
    BY <1>8 DEF AwaitKilled, Active, Reaps
  <2> QED BY <1>8, <2>1, ConcludeStep DEF AwaitKilled
<1> QED BY <1>2, <1>3, <1>4, <1>5, <1>6, <1>7, <1>8 DEF Supervises

-----------------------------------------------------------------------------

\* The steps of workers and of supervisors together.
LEMMA Inductive == SupervisorInv /\ [Next]_vars => SupervisorInv'
<1>1. ASSUME SupervisorInv, NEW w \in Job \X Attempt, WorkerRuns(w) \/ Dies(w), UNCHANGED <<job, aside>>
      PROVE  SupervisorInv'
  <2>1. PICK new : Effect(w, new)
    BY <1>1, WorkerEffect
  <2> QED BY <1>1, <2>1, WorkerStep
<1>2. ASSUME SupervisorInv, UNCHANGED vars PROVE SupervisorInv'
  <2> USE <1>2 DEF vars
  <2>1. TypeOK' /\ AliveIsCurrent' /\ UnspawnedAreNew'
    BY DEF SupervisorInv, TypeOK, AliveIsCurrent, Alive, UnspawnedAreNew, ToCome
  <2>2. RequestsKept' /\ FreshReceipts' /\ HolderIsInside'
    BY DEF SupervisorInv, RequestsKept, Active, FreshReceipts, HolderIsInside, Recovers
  <2>3. LedgerSound' /\ AnswersTrue'
    BY DEF SupervisorInv, LedgerSound, IsOpen, AnswersTrue, Moved
  <2>4. OpenIsCommitted' /\ DroppedIsOver'
    BY DEF SupervisorInv, OpenIsCommitted, IsOpen, Committed, DroppedIsOver, Alive, Moved
  <2> QED BY <2>1, <2>2, <2>3, <2>4 DEF SupervisorInv
<1>3. ASSUME SupervisorInv, Next PROVE SupervisorInv'
  BY <1>1, <1>3, SupervisorStep, QuarantineStep DEF Next
<1> QED BY <1>2, <1>3

\* The invariant is inductive.
THEOREM SupervisorInvariance == Spec => []SupervisorInv
  BY SupervisorInvInit, Inductive, PTL DEF Spec

\* Supervisors, workers, the lock and the ledger stay in the states the code has
\* a case for.
THEOREM SupervisorTypeCorrect == Spec => []TypeOK
  BY SupervisorInvariance, PTL DEF SupervisorInv

\* However many attempts are made and however slowly killed workers go, an
\* invocation never has two live workers (supervisor.rs:254).
THEOREM NeverTwoWorkers == Spec => []OneWorkerAtATime
<1>1. SupervisorInv => OneWorkerAtATime
  BY DEF SupervisorInv, AliveIsCurrent, OneWorkerAtATime
<1> QED BY <1>1, SupervisorInvariance, PTL

\* As long as an operation is open, somebody who asked for it still has the
\* means to recover it (supervise_bytes, resume_runner).
THEOREM OpenStaysRecoverable == Spec => []OpenIsRecoverable
<1>1. SupervisorInv => OpenIsRecoverable
  BY DEF SupervisorInv, OpenIsCommitted, Committed, Moved, OpenIsRecoverable
<1> QED BY <1>1, SupervisorInvariance, PTL

\* A recovery worker bound to an operation never gives another one its outcome
\* (Runner::prior and settle).
THEOREM RecoveryStaysBound == Spec => RecoveryIsBound
<1>1. ASSUME SupervisorInv, [Next]_vars,
             NEW w \in Job \X Attempt, NEW id \in OperationId,
             holder = w, Recovers(w), Wanted(w).id # None, ever[id]' # ever[id]
      PROVE  id = Wanted(w).id
  <2>1. PICK v \in Job \X Attempt : WorkerRuns(v) \/ Dies(v)
    BY <1>1 DEF Next, vars, Quarantines
  <2>2. PICK new : Effect(v, new)
    BY <1>1, <2>1, WorkerEffect
  <2>3. CASE UNCHANGED ever
    BY <1>1, <2>3
  <2>4. CASE \E k \in OperationId, outcome \in Outcome :
               /\ Finish(k, outcome) /\ holder = v
               /\ Recovers(v) /\ Wanted(v).id # None => k = Wanted(v).id
    <3>1. PICK k \in OperationId, outcome \in Outcome :
            /\ Finish(k, outcome) /\ holder = v
            /\ Recovers(v) /\ Wanted(v).id # None => k = Wanted(v).id
      BY <2>4
    <3>2. k = Wanted(w).id
      BY <1>1, <3>1
    <3>3. id = k
      BY <1>1, <3>1 DEF Finish, SupervisorInv, TypeOK
    <3> QED BY <3>2, <3>3
  <2> QED BY <2>2, <2>3, <2>4 DEF Effect, Records
<1>2. SupervisorInv /\ [Next]_vars =>
        [\A w \in Job \X Attempt, id \in OperationId :
           holder = w /\ Recovers(w) /\ Wanted(w).id # None
             /\ ever[id]' # ever[id] => id = Wanted(w).id]_vars
  BY <1>1
<1> QED BY <1>2, SupervisorInvariance, PTL DEF Spec, RecoveryIsBound

\* What a caller may conclude from an exit code other than 3 (supervise_bytes
\* and settled).
THEOREM ExitStaysTrue == Spec => ExitIsTrue
<1>1. ASSUME SupervisorInv, [Next]_vars, NEW j \in Job,
             job[j].at # "returned", job'[j].at = "returned", job'[j].exit # 3,
             job[j].request.id # None
      PROVE  \/ \E outcome \in ever[job[j].request.id] : OutcomeCode(outcome) = job'[j].exit
             \/ /\ job'[j].exit = 2 /\ job[j].request.kind = "upgrade"
                /\ job[j].attempt = 0 /\ worker[Current(j)].result = "busy"
  <2>0. job \in [Job -> JobState]
    BY <1>1 DEF SupervisorInv, TypeOK, JobState
  <2>1. PICK k \in Job : Launch(k) \/ (\E o \in Job : Resume(k, o)) \/ Supervises(k) \/ SupervisorDies(k)
    BY <1>1 DEF Next, vars
  <2>2. ~(\E at \in {"waiting", "killing", "dead"} : job' = [job EXCEPT ![k].at = at])
    BY <1>1, <2>0 DEF JobState
  <2>3. ~Launch(k) /\ ~(\E o \in Job : Resume(k, o))
    BY <1>1, <2>0 DEF Launch, Resume, NoJob
  <2>4. ~Deadline(k)
    BY <1>1, <2>0 DEF Deadline, Returned, JobState
  <2>5. PICK fenced \in BOOLEAN, response \in {NoWorker, worker[Current(k)]} :
          Conclude(k, fenced, response) /\ Active(k)
    BY <2>1, <2>2, <2>3, <2>4
    DEF Supervises, Spawn, Observe, Expire, AwaitKilled, SupervisorDies, Active
  <2>6. /\ response.code # None /\ SettledBy(response, job[k].request, Action(k))
        /\ job' = Settled(k, response.code)
    BY <1>1, <2>0, <2>5 DEF Conclude, Settled, Returned, JobState
  <2>7. j = k /\ job'[j].exit = response.code
    BY <1>1, <2>0, <2>5, <2>6, SupervisorAssumption
    DEF Settled, Returned, JobState, SupervisorInv, RequestsKept, Active
  <2>8. job[j].at # "unused"
    BY <2>5, <2>7 DEF Active
  <2> QED BY <1>1, <2>5, <2>6, <2>7, <2>8, Settles
<1>2. SupervisorInv /\ [Next]_vars =>
        [\A j \in Job :
           job[j].at # "returned" /\ job'[j].at = "returned" /\ job'[j].exit # 3
             /\ job[j].request.id # None =>
           \/ \E outcome \in ever[job[j].request.id] : OutcomeCode(outcome) = job'[j].exit
           \/ /\ job'[j].exit = 2 /\ job[j].request.kind = "upgrade"
              /\ job[j].attempt = 0 /\ worker[Current(j)].result = "busy"]_vars
  BY <1>1
<1> QED BY <1>2, SupervisorInvariance, PTL DEF Spec, ExitIsTrue
=============================================================================
