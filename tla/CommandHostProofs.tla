------------------------- MODULE CommandHostProofs --------------------------
(* Proofs for CommandHost, for any number of controllers and faults.       *)
EXTENDS CommandHost, TLAPS

\* While a worker is in a call it knows its controller, which no other process
\* has replaced; a worker that lists records has nothing but them to wait for.
WorkerConsistent ==
  /\ worker.call # None <=> worker.at \in {"recording", "delivering", "awaiting", "reaping"}
  /\ worker.call \notin reused
  /\ worker.at = "idle" => worker.entry # "none"
  /\ worker.entry # "none" => worker.at \in {"idle", "recording", "delivering", "awaiting", "reaping"}
  /\ worker.at = "draining" => worker.todo = records

\* A controller is told only after its record, and the record outlasts it; what
\* it may still bring about follows from how far it came.
ControllersRecorded ==
  \A c \in Controller :
    /\ ctl[c].at = "told" => c \in records
    /\ ctl[c].at = "waiting" => ctl[c].effect = "none"
    /\ ctl[c].at = "gone" => ctl[c].effect \in {"none", "queued"}
    /\ ctl[c].effect # "none" => ctl[c].kind = "effect"
    /\ ctl[c].at = "gone" /\ ctl[c].answer = "ok" => ctl[c].effect = "none"

\* The call under way: untold while it is recorded, and over when it was heard.
CallConsistent ==
  worker.call # None =>
    /\ ctl[worker.call].kind = "fence" <=> worker.entry = "none"
    /\ worker.at \in {"recording", "delivering"} =>
         ctl[worker.call].at # "told" /\ ctl[worker.call].effect = "none"
    /\ worker.at = "delivering" => worker.call \in records
    /\ worker.at = "reaping" /\ worker.outcome = "ok" =>
         ctl[worker.call].at = "gone" /\ ctl[worker.call].answer = "ok"

\* While the fence is asked, nobody but it can be told anything; once it has
\* answered ok, nothing of earlier workers is left.
FenceDrains ==
  worker.call # None /\ worker.entry = "none" =>
    /\ \A c \in Controller : ctl[c].at = "told" => c = worker.call
    /\ ctl[worker.call].at = "gone" /\ ctl[worker.call].answer = "ok" => Pending = {}

\* No effect lands after one that was issued later.
OneEffectOutstanding == \A c, d \in Pending : c = d

\* Where every call has its receipt: nothing can land while the receipt is
\* settled, nor is any call under way; and a worker that may issue calls, by its
\* fence or by the receipt, is the only one whose effect is outstanding.
ReceiptsSound ==
  ~UnreceiptedCalls =>
    /\ settled => Pending = {} /\ worker.at \in {"none", "idle", "over"}
    /\ worker.entry # "none" => Pending \subseteq {worker.call}
    /\ OneEffectOutstanding

HostInv ==
  /\ TypeOK /\ WorkerConsistent /\ ControllersRecorded /\ CallConsistent /\ FenceDrains
  /\ FencedIsAlone /\ ReceiptsSound

\* No controller has been started.
LEMMA HostInvInit == Init => HostInv
<1> SUFFICES ASSUME Init PROVE HostInv
  OBVIOUS
<1> USE DEF Init, NeverSpawned, NoWorker, Pending
<1>1. TypeOK
  <2>1. ctl \in [Controller -> Process] /\ records \subseteq Controller /\ reused \subseteq records
    BY DEF Process, Kind, Answer
  <2>2. worker \in [at : WorkerStage, call : Controller \cup {None}, todo : SUBSET Controller,
                    entry : Entry, outcome : Answer]
    BY DEF Answer, Entry, WorkerStage
  <2>3. settled \in BOOLEAN
    OBVIOUS
  <2>4. faults \in 0..MaxFaults
    BY CommandHostAssumption
  <2> QED BY <2>1, <2>2, <2>3, <2>4 DEF TypeOK
<1>2. WorkerConsistent /\ ControllersRecorded /\ CallConsistent /\ FenceDrains
  BY CommandHostAssumption DEF WorkerConsistent, ControllersRecorded, CallConsistent, FenceDrains
<1>3. FencedIsAlone /\ ReceiptsSound
  BY DEF FencedIsAlone, ReceiptsSound, OneEffectOutstanding
<1> QED BY <1>1, <1>2, <1>3 DEF HostInv

\* The number of faults stays within its bound.
LEMMA FaultsBounded ==
  ASSUME faults \in 0..MaxFaults, Fault \/ NoFault
  PROVE  faults' \in 0..MaxFaults
BY CommandHostAssumption DEF Fault, NoFault

\* A worker begins, drains the records it finds, or writes its receipt.
LEMMA EntryStep ==
  ASSUME HostInv,
         \/ StartRecovery \/ StartSettled \/ OpenReceipt \/ SettleReceipt
         \/ (\E c \in Controller : Drain(c)) \/ DrainGivesUp
  PROVE  HostInv'
<1> USE CommandHostAssumption, FaultsBounded
    DEF HostInv, TypeOK, WorkerConsistent, ControllersRecorded, CallConsistent, FenceDrains,
        FencedIsAlone, ReceiptsSound, OneEffectOutstanding, Pending, NoWorker, Process, Kind, Answer,
        Entry, WorkerStage, Gone, PidAlive, Goes, Over
<1>1. CASE StartRecovery
  <2>1. TypeOK' /\ WorkerConsistent'
    BY <1>1 DEF StartRecovery
  <2>2. ControllersRecorded' /\ CallConsistent'
    BY <1>1 DEF StartRecovery
  <2>3. FenceDrains' /\ FencedIsAlone' /\ ReceiptsSound'
    BY <1>1 DEF StartRecovery
  <2> QED BY <2>1, <2>2, <2>3
<1>2. CASE (\E c \in Controller : Drain(c))
  <2>1. TypeOK' /\ WorkerConsistent'
    BY <1>2 DEF Drain
  <2>2. ControllersRecorded' /\ CallConsistent'
    BY <1>2 DEF Drain
  <2>3. FenceDrains' /\ FencedIsAlone' /\ ReceiptsSound'
    BY <1>2 DEF Drain
  <2> QED BY <2>1, <2>2, <2>3
<1>3. CASE DrainGivesUp
  <2>1. TypeOK' /\ WorkerConsistent'
    BY <1>3 DEF DrainGivesUp
  <2>2. ControllersRecorded' /\ CallConsistent'
    BY <1>3 DEF DrainGivesUp
  <2>3. FenceDrains' /\ FencedIsAlone' /\ ReceiptsSound'
    BY <1>3 DEF DrainGivesUp
  <2> QED BY <2>1, <2>2, <2>3
<1>4. CASE StartSettled
  <2>1. TypeOK' /\ WorkerConsistent'
    BY <1>4 DEF StartSettled
  <2>2. ControllersRecorded' /\ CallConsistent'
    BY <1>4 DEF StartSettled
  <2>3. FenceDrains' /\ FencedIsAlone' /\ ReceiptsSound'
    BY <1>4 DEF StartSettled
  <2> QED BY <2>1, <2>2, <2>3
<1>5. CASE OpenReceipt
  <2>1. TypeOK' /\ WorkerConsistent'
    BY <1>5 DEF OpenReceipt
  <2>2. ControllersRecorded' /\ CallConsistent'
    BY <1>5 DEF OpenReceipt
  <2>3. FenceDrains' /\ FencedIsAlone' /\ ReceiptsSound'
    BY <1>5 DEF OpenReceipt
  <2> QED BY <2>1, <2>2, <2>3
<1>6. CASE SettleReceipt
  <2>1. TypeOK' /\ WorkerConsistent'
    BY <1>6 DEF SettleReceipt
  <2>2. ControllersRecorded' /\ CallConsistent'
    BY <1>6 DEF SettleReceipt
  <2>3. FenceDrains' /\ FencedIsAlone' /\ ReceiptsSound'
    BY <1>6 DEF SettleReceipt
  <2> QED BY <2>1, <2>2, <2>3
<1> QED BY <1>1, <1>2, <1>3, <1>4, <1>5, <1>6

\* A call from the process to the record and the request.
LEMMA CallStep ==
  ASSUME HostInv,
         \/ \E c \in Controller, kind \in Kind : SpawnController(c, kind)
         \/ WriteRecord \/ CallFails \/ Deliver \/ Hear \/ TimeOut
  PROVE  HostInv'
<1> USE CommandHostAssumption, FaultsBounded
    DEF HostInv, TypeOK, WorkerConsistent, ControllersRecorded, CallConsistent, FenceDrains,
        FencedIsAlone, ReceiptsSound, OneEffectOutstanding, Pending, NoWorker, Process, Kind, Answer,
        Entry, WorkerStage, Gone, PidAlive, Goes, Over
<1>1. CASE \E c \in Controller, kind \in Kind : SpawnController(c, kind)
  <2>a. PICK c \in Controller, kind \in Kind : SpawnController(c, kind)
    BY <1>1
  <2>b. /\ \/ worker.at = "draining" /\ worker.todo = {} /\ kind = "fence"
           \/ worker.at = "idle" /\ kind # "fence" /\ (settled => UnreceiptedCalls)
        /\ ctl[c].at = "gone" /\ c \notin records /\ ctl[c].effect = "none"
        /\ ctl' = [ctl EXCEPT ![c] = [at |-> "waiting", kind |-> kind, effect |-> "none", answer |-> "failed"]]
        /\ worker' = [worker EXCEPT !.at = "recording", !.call = c]
        /\ UNCHANGED <<records, reused, settled, faults>>
    BY <2>a DEF SpawnController, Free, NoFault
  <2>1. TypeOK'
    BY <2>b
  <2>2. WorkerConsistent'
    BY <2>b
  <2>3. ControllersRecorded'
    BY <2>b
  <2>4. CallConsistent'
    BY <2>b
  <2>5. FenceDrains'
    BY <2>b
  <2>6. FencedIsAlone'
    BY <2>b
  <2>7. ReceiptsSound'
    BY <2>b
  <2> QED BY <2>1, <2>2, <2>3, <2>4, <2>5, <2>6, <2>7
<1>2. CASE WriteRecord
  <2>1. TypeOK' /\ WorkerConsistent'
    BY <1>2 DEF WriteRecord
  <2>2. ControllersRecorded' /\ CallConsistent'
    BY <1>2 DEF WriteRecord
  <2>3. FenceDrains' /\ FencedIsAlone' /\ ReceiptsSound'
    BY <1>2 DEF WriteRecord
  <2> QED BY <2>1, <2>2, <2>3
<1>3. CASE CallFails
  <2>1. TypeOK' /\ WorkerConsistent'
    BY <1>3 DEF CallFails
  <2>2. ControllersRecorded' /\ CallConsistent'
    BY <1>3 DEF CallFails
  <2>3. FenceDrains' /\ FencedIsAlone' /\ ReceiptsSound'
    BY <1>3 DEF CallFails
  <2> QED BY <2>1, <2>2, <2>3
<1>4. CASE Deliver
  <2>1. TypeOK' /\ WorkerConsistent'
    BY <1>4 DEF Deliver
  <2>2. ControllersRecorded' /\ CallConsistent'
    BY <1>4 DEF Deliver
  <2>3. FenceDrains' /\ FencedIsAlone' /\ ReceiptsSound'
    BY <1>4 DEF Deliver
  <2> QED BY <2>1, <2>2, <2>3
<1>5. CASE Hear
  <2>1. TypeOK' /\ WorkerConsistent'
    BY <1>5 DEF Hear
  <2>2. ControllersRecorded' /\ CallConsistent'
    BY <1>5 DEF Hear
  <2>3. FenceDrains' /\ FencedIsAlone' /\ ReceiptsSound'
    BY <1>5 DEF Hear
  <2> QED BY <2>1, <2>2, <2>3
<1>6. CASE TimeOut
  <2>1. TypeOK' /\ WorkerConsistent'
    BY <1>6 DEF TimeOut
  <2>2. ControllersRecorded' /\ CallConsistent'
    BY <1>6 DEF TimeOut
  <2>3. FenceDrains' /\ FencedIsAlone' /\ ReceiptsSound'
    BY <1>6 DEF TimeOut
  <2> QED BY <2>1, <2>2, <2>3
<1> QED BY <1>1, <1>2, <1>3, <1>4, <1>5, <1>6

\* A call or a worker ends.
LEMMA EndStep ==
  ASSUME HostInv, Reap \/ ReapFails \/ DropCall \/ WorkerEnds \/ WorkerDies
  PROVE  HostInv'
<1> USE CommandHostAssumption, FaultsBounded
    DEF HostInv, TypeOK, WorkerConsistent, ControllersRecorded, CallConsistent, FenceDrains,
        FencedIsAlone, ReceiptsSound, OneEffectOutstanding, Pending, NoWorker, Process, Kind, Answer,
        Entry, WorkerStage, Gone, PidAlive, Goes, Over
<1>1. CASE Reap
  <2>a. /\ worker.at = "reaping" /\ ctl[worker.call].at = "gone" /\ worker.call \in Controller
        /\ records' = records \ {worker.call} /\ UNCHANGED <<ctl, reused, settled>> /\ NoFault
    BY <1>1 DEF Reap
  <2>b. CASE Continues(worker.call)
    <3>1. worker' = [NoWorker EXCEPT !.at = "idle",
                       !.entry = IF ctl[worker.call].kind = "fence" THEN "fence" ELSE worker.entry]
      BY <1>1, <2>b DEF Reap, AfterCall
    <3>2. ctl[worker.call].effect = "none"
      BY <2>a, <2>b DEF Continues
    <3>3. /\ worker'.entry = "fence" => \A c \in Controller : ctl[c].at # "told" /\ c \notin Pending
          /\ ~UnreceiptedCalls => Pending = {}
      <4>1. CASE ctl[worker.call].kind = "fence"
        BY <2>a, <2>b, <3>1, <4>1 DEF Continues
      <4>2. CASE ctl[worker.call].kind # "fence"
        <5>1. worker'.entry = worker.entry /\ worker.entry # "none"
          BY <2>a, <3>1, <4>2
        <5> QED BY <2>a, <2>b, <3>2, <5>1
      <4> QED BY <4>1, <4>2
    <3>4. TypeOK'
      <4>1. worker' \in [at : WorkerStage, call : Controller \cup {None}, todo : SUBSET Controller,
                         entry : Entry, outcome : Answer]
        BY <3>1
      <4>2. reused' \subseteq records' /\ records' \subseteq Controller
        BY <2>a
      <4>3. faults' \in 0..MaxFaults
        BY <2>a
      <4> QED BY <2>a, <4>1, <4>2, <4>3
    <3>5. WorkerConsistent'
      BY <2>a, <3>1, <3>3
    <3>6. ControllersRecorded'
      BY <2>a, <3>1, <3>3
    <3>7. CallConsistent'
      BY <2>a, <3>1, <3>3
    <3>8. FenceDrains'
      BY <2>a, <3>1, <3>3
    <3>9. FencedIsAlone'
      BY <2>a, <3>1, <3>3
    <3>10. ReceiptsSound'
      BY <2>a, <3>1, <3>3
    <3> QED BY <3>4, <3>5, <3>6, <3>7, <3>8, <3>9, <3>10
  <2>c. CASE ~Continues(worker.call)
    <3>1. worker' = [NoWorker EXCEPT !.at = "over"]
      BY <1>1, <2>c DEF Reap, AfterCall
    <3>2. TypeOK'
      <4>1. worker' \in [at : WorkerStage, call : Controller \cup {None}, todo : SUBSET Controller,
                         entry : Entry, outcome : Answer]
        BY <3>1
      <4>2. reused' \subseteq records' /\ records' \subseteq Controller
        BY <2>a
      <4>3. faults' \in 0..MaxFaults
        BY <2>a
      <4> QED BY <2>a, <4>1, <4>2, <4>3
    <3>3. WorkerConsistent'
      BY <2>a, <3>1
    <3>4. ControllersRecorded'
      BY <2>a, <3>1
    <3>5. CallConsistent'
      BY <2>a, <3>1
    <3>6. FenceDrains'
      BY <2>a, <3>1
    <3>7. FencedIsAlone'
      BY <2>a, <3>1
    <3>8. ReceiptsSound'
      BY <2>a, <3>1
    <3> QED BY <3>2, <3>3, <3>4, <3>5, <3>6, <3>7, <3>8
  <2> QED BY <2>b, <2>c
<1>2. CASE ReapFails
  <2>1. TypeOK' /\ WorkerConsistent'
    BY <1>2 DEF ReapFails
  <2>2. ControllersRecorded' /\ CallConsistent'
    BY <1>2 DEF ReapFails
  <2>3. FenceDrains' /\ FencedIsAlone' /\ ReceiptsSound'
    BY <1>2 DEF ReapFails
  <2> QED BY <2>1, <2>2, <2>3
<1>3. CASE DropCall
  <2>1. TypeOK' /\ WorkerConsistent'
    BY <1>3 DEF DropCall
  <2>2. ControllersRecorded' /\ CallConsistent'
    BY <1>3 DEF DropCall
  <2>3. FenceDrains' /\ FencedIsAlone' /\ ReceiptsSound'
    BY <1>3 DEF DropCall
  <2> QED BY <2>1, <2>2, <2>3
<1>4. CASE WorkerEnds
  <2>1. TypeOK' /\ WorkerConsistent'
    BY <1>4 DEF WorkerEnds
  <2>2. ControllersRecorded' /\ CallConsistent'
    BY <1>4 DEF WorkerEnds
  <2>3. FenceDrains' /\ FencedIsAlone' /\ ReceiptsSound'
    BY <1>4 DEF WorkerEnds
  <2> QED BY <2>1, <2>2, <2>3
<1>5. CASE WorkerDies
  <2>1. TypeOK' /\ WorkerConsistent'
    BY <1>5 DEF WorkerDies
  <2>2. ControllersRecorded' /\ CallConsistent'
    BY <1>5 DEF WorkerDies
  <2>3. FenceDrains' /\ FencedIsAlone' /\ ReceiptsSound'
    BY <1>5 DEF WorkerDies
  <2> QED BY <2>1, <2>2, <2>3
<1> QED BY <1>1, <1>2, <1>3, <1>4, <1>5

\* Controllers, the product and other processes.
LEMMA OutsideStep ==
  ASSUME HostInv, NEW c \in Controller,
         \/ ControllerExits(c) \/ Queue(c) \/ EffectLands(c)
         \/ EffectDropped(c) \/ PidReused(c) \/ PidFreed(c)
  PROVE  HostInv'
<1> USE CommandHostAssumption, FaultsBounded
    DEF HostInv, TypeOK, WorkerConsistent, ControllersRecorded, CallConsistent, FenceDrains,
        FencedIsAlone, ReceiptsSound, OneEffectOutstanding, Pending, NoWorker, Process, Kind, Answer,
        Entry, WorkerStage, Gone, PidAlive, Goes, Over
<1>1. CASE ControllerExits(c)
  <2>1. TypeOK' /\ WorkerConsistent'
    BY <1>1 DEF ControllerExits, Attended, MayAnswerOk
  <2>2. ControllersRecorded' /\ CallConsistent'
    BY <1>1 DEF ControllerExits, Attended, MayAnswerOk
  <2>3. FenceDrains' /\ FencedIsAlone' /\ ReceiptsSound'
    BY <1>1 DEF ControllerExits, Attended, MayAnswerOk
  <2> QED BY <2>1, <2>2, <2>3
<1>2. CASE Queue(c)
  <2>1. TypeOK' /\ WorkerConsistent'
    BY <1>2 DEF Queue
  <2>2. ControllersRecorded' /\ CallConsistent'
    BY <1>2 DEF Queue
  <2>3. FenceDrains' /\ FencedIsAlone' /\ ReceiptsSound'
    BY <1>2 DEF Queue
  <2> QED BY <2>1, <2>2, <2>3
<1>3. CASE EffectLands(c)
  <2>1. TypeOK' /\ WorkerConsistent'
    BY <1>3 DEF EffectLands
  <2>2. ControllersRecorded' /\ CallConsistent'
    BY <1>3 DEF EffectLands
  <2>3. FenceDrains' /\ FencedIsAlone' /\ ReceiptsSound'
    BY <1>3 DEF EffectLands
  <2> QED BY <2>1, <2>2, <2>3
<1>4. CASE EffectDropped(c)
  <2>1. TypeOK' /\ WorkerConsistent'
    BY <1>4 DEF EffectDropped
  <2>2. ControllersRecorded' /\ CallConsistent'
    BY <1>4 DEF EffectDropped
  <2>3. FenceDrains' /\ FencedIsAlone' /\ ReceiptsSound'
    BY <1>4 DEF EffectDropped
  <2> QED BY <2>1, <2>2, <2>3
<1>5. CASE PidReused(c)
  <2>1. TypeOK' /\ WorkerConsistent'
    BY <1>5 DEF PidReused
  <2>2. ControllersRecorded' /\ CallConsistent'
    BY <1>5 DEF PidReused
  <2>3. FenceDrains' /\ FencedIsAlone' /\ ReceiptsSound'
    BY <1>5 DEF PidReused
  <2> QED BY <2>1, <2>2, <2>3
<1>6. CASE PidFreed(c)
  <2>1. TypeOK' /\ WorkerConsistent'
    BY <1>6 DEF PidFreed
  <2>2. ControllersRecorded' /\ CallConsistent'
    BY <1>6 DEF PidFreed
  <2>3. FenceDrains' /\ FencedIsAlone' /\ ReceiptsSound'
    BY <1>6 DEF PidFreed
  <2> QED BY <2>1, <2>2, <2>3
<1> QED BY <1>1, <1>2, <1>3, <1>4, <1>5, <1>6

\* The invariant is inductive.
THEOREM HostInvariance == Spec => []HostInv
<1>1. HostInv /\ [Next]_vars => HostInv'
  <2>1. ASSUME HostInv, Next PROVE HostInv'
    BY <2>1, EntryStep, CallStep, EndStep, OutsideStep DEF Next, WorkerRuns, Surroundings
  <2>2. ASSUME HostInv, UNCHANGED vars PROVE HostInv'
    BY <2>2
    DEF HostInv, TypeOK, WorkerConsistent, ControllersRecorded, CallConsistent, FenceDrains,
        FencedIsAlone, ReceiptsSound, OneEffectOutstanding, Pending, vars
  <2> QED BY <2>1, <2>2
<1> QED BY HostInvInit, <1>1, PTL DEF Spec

\* Workers, records and controllers stay in the states that call and fence have
\* a case for.
THEOREM HostTypeCorrect == Spec => []TypeOK
  BY HostInvariance, PTL DEF HostInv

\* Whatever earlier workers did, with a fence or a receipt in its place, a worker
\* past its fence is alone (CommandHost::fence).
THEOREM FenceLeavesNobody == Spec => []FencedIsAlone
  BY HostInvariance, PTL DEF HostInv

\* Where every call has its receipt, whatever workers die, calls are dropped, pids
\* are reused and fences are skipped, at most one effect can still land
\* (CommandHost::call, Runner::recover_engine).
THEOREM OneEffectAtATime ==
  ASSUME ~UnreceiptedCalls
  PROVE  Spec => []OneEffectOutstanding
<1>1. HostInv => OneEffectOutstanding
  BY DEF HostInv, ReceiptsSound
<1> QED BY <1>1, HostInvariance, PTL

\* Records, fence and receipts implement the calls the engine reckons with: an
\* effect is issued only with nothing else outstanding, by a worker past its fence
\* or let in by a settled receipt.
THEOREM HostImplementsCalls ==
  ASSUME ~UnreceiptedCalls
  PROVE  Spec => ImplementsHostCalls
<1> USE DEF Calls!CallsInit, Calls!CallsNext, Calls!callVars, Calls!BecomesReady, Calls!Issue,
            Calls!Settle, Calls!Leave
<1>1. Init => Calls!CallsInit
  BY DEF Init, Pending, NeverSpawned, NoWorker
<1>2. ASSUME HostInv, HostInv', [Next]_vars PROVE [Calls!CallsNext]_Calls!callVars
  <2> USE DEF HostInv, Pending
  <2>1. CASE UNCHANGED vars
    BY <2>1 DEF vars
  <2>2. CASE \/ StartRecovery \/ OpenReceipt \/ SettleReceipt
             \/ (\E c \in Controller : Drain(c)) \/ DrainGivesUp
    BY <2>2, <1>2
    DEF StartRecovery, OpenReceipt, SettleReceipt, Drain, DrainGivesUp, NoWorker, Over, TypeOK,
        WorkerConsistent
  <2>3. CASE WriteRecord \/ CallFails \/ Hear \/ TimeOut \/ ReapFails \/ DropCall
    BY <2>3, <1>2 DEF WriteRecord, CallFails, Hear, TimeOut, ReapFails, DropCall, NoWorker, Over, Goes, TypeOK
  <2>4. ASSUME NEW c \in Controller, NEW kind \in Kind, SpawnController(c, kind)
        PROVE  UNCHANGED Calls!callVars
    BY <2>4, <1>2 DEF SpawnController, Free, Gone, TypeOK, Process, ControllersRecorded
  <2>5. CASE Deliver
    BY <2>5, <1>2
    DEF Deliver, Goes, Gone, TypeOK, Process, CallConsistent, WorkerConsistent, ReceiptsSound
  <2>6. CASE Reap
    BY <2>6, <1>2
    DEF Reap, AfterCall, Continues, Over, NoWorker, Gone, TypeOK, Process, CallConsistent,
        WorkerConsistent, FenceDrains, ControllersRecorded
  <2>7. ASSUME NEW c \in Controller, ControllerExits(c) PROVE [Calls!CallsNext]_Calls!callVars
    BY <2>7, <1>2 DEF ControllerExits, TypeOK, Process, ControllersRecorded, Gone
  <2>8. ASSUME NEW c \in Controller,
               Queue(c) \/ EffectLands(c) \/ EffectDropped(c) \/ PidReused(c) \/ PidFreed(c)
        PROVE  [Calls!CallsNext]_Calls!callVars
    BY <2>8, <1>2 DEF Queue, EffectLands, EffectDropped, PidReused, PidFreed, TypeOK, Process
  <2>9. CASE WorkerEnds \/ WorkerDies
    BY <2>9, <1>2 DEF WorkerEnds, WorkerDies, NoWorker, TypeOK
  <2>10. CASE StartSettled
    BY <2>10, <1>2 DEF StartSettled, NoWorker, ReceiptsSound, TypeOK, WorkerConsistent
  <2> QED BY <1>2, <2>1, <2>2, <2>3, <2>4, <2>5, <2>6, <2>7, <2>8, <2>9, <2>10
     DEF Next, WorkerRuns, Surroundings
<1> QED BY <1>1, <1>2, HostInvariance, PTL DEF Spec, ImplementsHostCalls, Calls!CallsSpec
=============================================================================
