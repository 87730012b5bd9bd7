------------------------- MODULE UpgradeLockProofs --------------------------
(***************************************************************************)
(* The upgrade lock excludes and protects its owner, for every set of      *)
(* processes and calls, every assignment of calls to processes, and with   *)
(* whichever of the calls meet I/O errors.                                 *)
(***************************************************************************)
EXTENDS UpgradeLock, TLAPS

\* The call is being executed, so its process is alive.
Running == {"listing", "scanning", "failing"} \cup Past

\* The call is visible to contenders through its claim.
Visible == {"listing", "scanning"} \cup Past

RunningIsAlive == \A h \in Handle : at[h] \in Running => Alive(h)

\* Nobody removes the claim of a call that is under way.
ClaimStands == \A h \in Handle : at[h] \in Visible => h \in claims

\* Of two contenders, the later scan has the other still ahead of it; a scan
\* that ended therefore ended before the other one's began.
ScansCross ==
  \A g, h \in Handle :
    g # h =>
      /\ at[g] \in Past /\ at[h] = "scanning" => g \in todo[h]
      /\ at[g] = "scanning" /\ at[h] = "scanning" => g \in todo[h] \/ h \in todo[g]
      /\ ~(at[g] \in Past /\ at[h] \in Past)

FileIsOwners ==
  \A h \in Handle :
    /\ at[h] = "writing" => lockFile = h
    /\ at[h] \in Critical => lockFile = h /\ recorded

LockInv == TypeOK /\ RunningIsAlive /\ ClaimStands /\ ScansCross /\ FileIsOwners

-----------------------------------------------------------------------------

\* Nobody owns or waits for the lock at first.
LEMMA LockInit == Init => LockInv
  BY LockAssumption DEF Init, LockInv, TypeOK, Stage, RunningIsAlive, Running, ClaimStands,
     Visible, ScansCross, FileIsOwners, Past, Critical

\* One step of a call.
LEMMA CallStep ==
  ASSUME LockInv, NEW h \in Handle,
         \/ CreateClaim(h) \/ Acquiring(h) \/ IoError(h)
         \/ Retain(h) \/ BeginRelease(h) \/ Releasing(h) \/ ReleaseFails(h)
  PROVE  LockInv'
<1> USE LockAssumption DEF LockInv, TypeOK, Stage, RunningIsAlive, Running, ClaimStands,
        Visible, ScansCross, FileIsOwners, Past, Critical, Move, Alive
<1>1. CASE CreateClaim(h)  BY <1>1 DEF CreateClaim
<1>2. CASE OpenScan(h)
  <2>1. TypeOK'  BY <1>2 DEF OpenScan
  <2>2. RunningIsAlive' /\ ClaimStands'  BY <1>2 DEF OpenScan
  <2>3. ScansCross'  BY <1>2 DEF OpenScan
  <2>4. FileIsOwners'  BY <1>2 DEF OpenScan
  <2> QED BY <2>1, <2>2, <2>3, <2>4
<1>3. CASE \E other \in Handle : ScanEntry(h, other)
  <2>1. TypeOK'  BY <1>3 DEF ScanEntry
  <2>2. RunningIsAlive' /\ ClaimStands'  BY <1>3 DEF ScanEntry
  <2>3. ScansCross'  BY <1>3 DEF ScanEntry
  <2>4. FileIsOwners'  BY <1>3 DEF ScanEntry
  <2> QED BY <2>1, <2>2, <2>3, <2>4
<1>4. CASE EndScan(h)
  <2>1. TypeOK'  BY <1>4 DEF EndScan
  <2>2. RunningIsAlive' /\ ClaimStands'  BY <1>4 DEF EndScan
  <2>3. ScansCross'  BY <1>4 DEF EndScan
  <2>4. FileIsOwners'  BY <1>4 DEF EndScan
  <2> QED BY <2>1, <2>2, <2>3, <2>4
<1>5. CASE CreateLock(h)
  <2>1. TypeOK'  BY <1>5 DEF CreateLock
  <2>2. RunningIsAlive' /\ ClaimStands'  BY <1>5 DEF CreateLock
  <2>3. ScansCross'  BY <1>5 DEF CreateLock
  <2>4. FileIsOwners'  BY <1>5 DEF CreateLock
  <2> QED BY <2>1, <2>2, <2>3, <2>4
<1>6. CASE ReadLock(h)  BY <1>6 DEF ReadLock
<1>7. CASE BreakLock(h)
  <2>1. TypeOK'
    <3>1. at' \in [Handle -> Stage]  BY <1>7 DEF BreakLock
    <3>2. lockFile' = Absent /\ recorded' = FALSE /\ UNCHANGED <<alive, claims, todo>>
      BY <1>7 DEF BreakLock
    <3> QED BY <3>1, <3>2
  <2>2. RunningIsAlive' /\ ClaimStands'  BY <1>7 DEF BreakLock
  <2>3. ScansCross'  BY <1>7 DEF BreakLock
  <2>4. FileIsOwners'  BY <1>7 DEF BreakLock
  <2> QED BY <2>1, <2>2, <2>3, <2>4
<1>8. CASE WriteRecord(h)
  <2>1. TypeOK'  BY <1>8 DEF WriteRecord
  <2>2. RunningIsAlive' /\ ClaimStands'  BY <1>8 DEF WriteRecord
  <2>3. ScansCross'  BY <1>8 DEF WriteRecord
  <2>4. FileIsOwners'  BY <1>8 DEF WriteRecord
  <2> QED BY <2>1, <2>2, <2>3, <2>4
<1>9. CASE GiveUp(h)  BY <1>9 DEF GiveUp
<1>10. CASE IoError(h)
  <2>1. TypeOK'  BY <1>10 DEF IoError
  <2>2. RunningIsAlive' /\ ClaimStands'  BY <1>10 DEF IoError
  <2>3. ScansCross'  BY <1>10 DEF IoError
  <2>4. FileIsOwners'  BY <1>10 DEF IoError
  <2> QED BY <2>1, <2>2, <2>3, <2>4
<1>11. CASE Retain(h)  BY <1>11 DEF Retain
<1>12. CASE BeginRelease(h)
  <2>1. TypeOK'  BY <1>12 DEF BeginRelease
  <2>2. RunningIsAlive' /\ ClaimStands'  BY <1>12 DEF BeginRelease
  <2>3. ScansCross'  BY <1>12 DEF BeginRelease
  <2>4. FileIsOwners'  BY <1>12 DEF BeginRelease
  <2> QED BY <2>1, <2>2, <2>3, <2>4
<1>13. CASE Unlink(h)
  <2>1. TypeOK'  BY <1>13 DEF Unlink
  <2>2. RunningIsAlive' /\ ClaimStands'  BY <1>13 DEF Unlink
  <2>3. ScansCross'  BY <1>13 DEF Unlink
  <2>4. FileIsOwners'  BY <1>13 DEF Unlink
  <2> QED BY <2>1, <2>2, <2>3, <2>4
<1>14. CASE Unclaim(h)
  <2>1. TypeOK'  BY <1>14 DEF Unclaim
  <2>2. RunningIsAlive' /\ ClaimStands'  BY <1>14 DEF Unclaim
  <2>3. ScansCross'  BY <1>14 DEF Unclaim
  <2>4. FileIsOwners'  BY <1>14 DEF Unclaim
  <2> QED BY <2>1, <2>2, <2>3, <2>4
<1>15. CASE ReleaseFails(h)  BY <1>15 DEF ReleaseFails
<1> QED BY <1>1, <1>2, <1>3, <1>4, <1>5, <1>6, <1>7, <1>8, <1>9, <1>10, <1>11, <1>12,
           <1>13, <1>14, <1>15 DEF Acquiring, Releasing

\* A process dies or is spawned.
LEMMA ProcessStep ==
  ASSUME LockInv, NEW p \in Pid, Die(p) \/ Spawn(p)
  PROVE  LockInv'
<1> USE LockAssumption DEF LockInv, TypeOK, Stage, RunningIsAlive, Running, ClaimStands,
        Visible, ScansCross, FileIsOwners, Past, Critical, Alive
<1>1. CASE Die(p)  BY <1>1 DEF Die
<1>2. CASE Spawn(p)  BY <1>2 DEF Spawn
<1> QED BY <1>1, <1>2

\* The invariant is inductive.
THEOREM LockInvariance == Spec => []LockInv
<1>1. Init => LockInv  BY LockInit
<1>2. LockInv /\ [Next]_vars => LockInv'
  <2>1. ASSUME LockInv, Next PROVE LockInv'
    BY <2>1, CallStep, ProcessStep DEF Next
  <2>2. ASSUME LockInv, UNCHANGED vars PROVE LockInv'
    BY <2>2 DEF LockInv, TypeOK, RunningIsAlive, ClaimStands, ScansCross, FileIsOwners, Alive, vars
  <2> QED BY <2>1, <2>2
<1> QED BY <1>1, <1>2, PTL DEF Spec

\* The variables stay in their types.
THEOREM LockTypeCorrect == Spec => []TypeOK
  BY LockInvariance, PTL DEF LockInv

\* acquire_at never hands out two guards at a time, whatever calls interleave,
\* die, leave half-written records behind or come back under a reused pid.
THEOREM LockExcludes == Spec => []MutualExclusion
<1>1. LockInv => MutualExclusion
  BY DEF LockInv, ScansCross, MutualExclusion, Past
<1> QED BY <1>1, LockInvariance, PTL

\* Nobody removes the claim or the owner record of a live owner.
THEOREM LockUndisturbed == Spec => []OwnerUndisturbed
<1>1. LockInv => OwnerUndisturbed
  BY DEF LockInv, ClaimStands, FileIsOwners, OwnerUndisturbed, Visible, Past
<1> QED BY <1>1, LockInvariance, PTL
=============================================================================
