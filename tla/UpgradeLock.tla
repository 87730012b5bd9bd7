---------------------------- MODULE UpgradeLock -----------------------------
(***************************************************************************)
(* The contender directory and owner record that keep one live worker per  *)
(* state directory (src/src/lock.rs).  Several processes, each with any    *)
(* number of acquire_at calls, interleave at every file-system call; they  *)
(* may die at every point, and a pid may be reused.                        *)
(***************************************************************************)
EXTENDS Naturals

CONSTANTS
  Pid,      \* process identifiers
  Handle,   \* acquire_at calls; each creates one uniquely named claim
  PidOf,    \* the process that makes the call
  Faulty    \* calls whose file-system calls may fail for other reasons

Absent == "absent"

ASSUME LockAssumption ==
  PidOf \in [Handle -> Pid] /\ Faulty \subseteq Handle /\ Absent \notin Handle

VARIABLES
  alive,     \* the pids that process_alive reports
  claims,    \* entries of upgrade.lock.claims/
  lockFile,  \* upgrade.lock: Absent, or the handle whose create_new made it
  recorded,  \* that file holds its maker's complete owner record
  at,        \* where each call stands
  todo       \* entries its read_dir has still to return, while it is scanning

vars == <<alive, claims, lockFile, recorded, at, todo>>

\* The guard is held: by a working caller, or kept until process exit after an
\* uncertain host call.
Critical == {"holding", "retained"}

\* The scan of the claims found no live contender.
Past == {"opening", "breaking", "writing", "unlinking", "unclaiming"} \cup Critical

Stage == {"unused", "listing", "scanning", "failing", "done", "dead"} \cup Past

TypeOK ==
  /\ alive \subseteq Pid
  /\ claims \subseteq Handle
  /\ lockFile \in Handle \cup {Absent}
  /\ recorded \in BOOLEAN
  /\ at \in [Handle -> Stage]
  /\ todo \in [Handle -> SUBSET Handle] /\ \A h \in Handle : h \notin todo[h]

Init ==
  /\ alive \in SUBSET Pid
  /\ claims = {} /\ lockFile = Absent /\ recorded = FALSE
  /\ at = [h \in Handle |-> "unused"]
  /\ todo = [h \in Handle |-> {}]

Alive(h) == PidOf[h] \in alive

Move(h, stage) == at' = [at EXCEPT ![h] = stage]

-----------------------------------------------------------------------------
(* acquire_at                                                              *)

\* Mutant: the lock file alone decides, no claim is made.
ClaimSkipped(h) ==
  /\ at[h] = "unused" /\ Alive(h)
  /\ Move(h, "listing")
  /\ UNCHANGED <<alive, claims, lockFile, recorded, todo>>

\* create_dir of the claim, before anything is read.
CreateClaim(h) ==
  /\ at[h] = "unused" /\ Alive(h)
  /\ claims' = claims \cup {h}
  /\ Move(h, "listing")
  /\ UNCHANGED <<alive, lockFile, recorded, todo>>

\* Mutant: the scan does not skip the call's own claim, and will meet itself.
OpenScanWithOwn(h) ==
  /\ at[h] = "listing"
  /\ todo' = [todo EXCEPT ![h] = claims]
  /\ Move(h, "scanning")
  /\ UNCHANGED <<alive, claims, lockFile, recorded>>

\* read_dir: every entry that is there now will be returned, the call's own is
\* skipped by its name.
OpenScan(h) ==
  /\ at[h] = "listing"
  /\ todo' = [todo EXCEPT ![h] = claims \ {h}]
  /\ Move(h, "scanning")
  /\ UNCHANGED <<alive, claims, lockFile, recorded>>

\* Mutant: every other claim counts as stale.
ReclaimAny(h, other) ==
  /\ at[h] = "scanning" /\ other \in todo[h]
  /\ claims' = claims \ {other}
  /\ todo' = [todo EXCEPT ![h] = @ \ {other}]
  /\ UNCHANGED <<alive, lockFile, recorded, at>>

\* One directory entry: a live owner refuses the lock, a dead one's claim is
\* removed.  An entry that is already gone may or may not be returned.
ScanEntry(h, other) ==
  /\ at[h] = "scanning" /\ other \in todo[h]
  /\ \/ /\ Alive(other)
        /\ Move(h, "failing")
        /\ todo' = [todo EXCEPT ![h] = {}]
        /\ UNCHANGED claims
     \/ /\ ~Alive(other) \/ other \notin claims
        /\ claims' = claims \ {other}
        /\ todo' = [todo EXCEPT ![h] = @ \ {other}]
        /\ UNCHANGED at
  /\ UNCHANGED <<alive, lockFile, recorded>>

EndScan(h) ==
  /\ at[h] = "scanning" /\ todo[h] = {}
  /\ Move(h, "opening")
  /\ UNCHANGED <<alive, claims, lockFile, recorded, todo>>

\* create_new of upgrade.lock succeeds; the file is still empty.
CreateLock(h) ==
  /\ at[h] = "opening" /\ lockFile = Absent
  /\ lockFile' = h /\ recorded' = FALSE
  /\ Move(h, "writing")
  /\ UNCHANGED <<alive, claims, todo>>

\* Mutant: a half-written owner record refuses the lock like a live owner's.
ReadLockStrict(h) ==
  /\ at[h] = "opening" /\ lockFile # Absent
  /\ Move(h, IF ~recorded \/ Alive(lockFile) THEN "failing" ELSE "breaking")
  /\ UNCHANGED <<alive, claims, lockFile, recorded, todo>>

\* create_new fails and the present file is read: a record of a live owner
\* refuses the lock; a dead owner's, or an incomplete record, is to be removed.
ReadLock(h) ==
  /\ at[h] = "opening" /\ lockFile # Absent
  /\ IF recorded /\ Alive(lockFile)
     THEN Move(h, "failing")
     ELSE Move(h, "breaking")
  /\ UNCHANGED <<alive, claims, lockFile, recorded, todo>>

\* remove_file of whatever upgrade.lock is by now.
BreakLock(h) ==
  /\ at[h] = "breaking"
  /\ lockFile' = Absent /\ recorded' = FALSE
  /\ IF lockFile = Absent THEN Move(h, "failing") ELSE Move(h, "opening")
  /\ UNCHANGED <<alive, claims, todo>>

WriteRecord(h) ==
  /\ at[h] = "writing"
  /\ recorded' = (recorded \/ lockFile = h)
  /\ Move(h, "holding")
  /\ UNCHANGED <<alive, claims, lockFile, todo>>

\* Any other error of a call that acquires, after writing the record or before.
IoError(h) ==
  /\ h \in Faulty
  /\ at[h] \in {"listing", "scanning", "opening", "breaking", "writing"}
  /\ Move(h, "failing")
  /\ \/ UNCHANGED recorded
     \/ at[h] = "writing" /\ lockFile = h /\ recorded' = TRUE
  /\ todo' = [todo EXCEPT ![h] = {}]
  /\ UNCHANGED <<alive, claims, lockFile>>

\* A refused call removes its own claim and nothing else; failure to do so is
\* ignored, and the claim then stays until its process is dead.
GiveUp(h) ==
  /\ at[h] = "failing"
  /\ claims' \in {claims \ {h}} \cup (IF h \in Faulty THEN {claims} ELSE {})
  /\ Move(h, "done")
  /\ UNCHANGED <<alive, lockFile, recorded, todo>>

-----------------------------------------------------------------------------
(* retain_until_exit and release                                           *)

Retain(h) ==
  /\ at[h] = "holding"
  /\ Move(h, "retained")
  /\ UNCHANGED <<alive, claims, lockFile, recorded, todo>>

BeginRelease(h) ==
  /\ at[h] = "holding"
  /\ Move(h, IF h \in claims THEN "unlinking" ELSE "done")
  /\ UNCHANGED <<alive, claims, lockFile, recorded, todo>>

\* The lock file first, so that the claim still keeps contenders out.
Unlink(h) ==
  /\ at[h] = "unlinking"
  /\ lockFile' = Absent /\ recorded' = FALSE
  /\ Move(h, "unclaiming")
  /\ UNCHANGED <<alive, claims, todo>>

Unclaim(h) ==
  /\ at[h] = "unclaiming"
  /\ claims' = claims \ {h}
  /\ Move(h, "done")
  /\ UNCHANGED <<alive, lockFile, recorded, todo>>

\* release fails, and fails again when the guard is dropped: what it has not
\* removed stays until its process is dead.
ReleaseFails(h) ==
  /\ h \in Faulty
  /\ at[h] \in {"unlinking", "unclaiming"}
  /\ Move(h, "done")
  /\ UNCHANGED <<alive, claims, lockFile, recorded, todo>>

-----------------------------------------------------------------------------
(* Processes                                                               *)

\* A process dies wherever its calls stand; its files stay.
Die(p) ==
  /\ p \in alive
  /\ alive' = alive \ {p}
  /\ at' = [h \in Handle |-> IF PidOf[h] = p /\ at[h] # "unused" THEN "dead" ELSE at[h]]
  /\ todo' = [h \in Handle |-> IF PidOf[h] = p THEN {} ELSE todo[h]]
  /\ UNCHANGED <<claims, lockFile, recorded>>

\* A new process, possibly with the pid of a dead one.
Spawn(p) ==
  /\ p \notin alive
  /\ alive' = alive \cup {p}
  /\ UNCHANGED <<claims, lockFile, recorded, at, todo>>

Acquiring(h) ==
  \/ OpenScan(h) \/ \E other \in Handle : ScanEntry(h, other)
  \/ EndScan(h) \/ CreateLock(h) \/ ReadLock(h) \/ BreakLock(h) \/ WriteRecord(h)
  \/ GiveUp(h)

Releasing(h) == Unlink(h) \/ Unclaim(h)

Next ==
  \/ \E h \in Handle :
       \/ CreateClaim(h) \/ Acquiring(h) \/ IoError(h)
       \/ Retain(h) \/ BeginRelease(h) \/ Releasing(h) \/ ReleaseFails(h)
  \/ \E p \in Pid : Die(p) \/ Spawn(p)

Spec == Init /\ [][Next]_vars

\* A call that has started keeps executing while its process lives.
FairSpec == Spec /\ \A h \in Handle : WF_vars(Acquiring(h) \/ Releasing(h))

-----------------------------------------------------------------------------
(* Properties                                                              *)

\* One live owner per state directory, a retained guard included, with any
\* number of contenders, deaths, half-written records and reused pids.
MutualExclusion ==
  \A g, h \in Handle : at[g] \in Critical /\ at[h] \in Critical => g = h

\* A held lock cannot be taken apart by others: its claim and its file are
\* there for as long as the owner lives.
OwnerUndisturbed ==
  \A h \in Handle : at[h] \in Critical => h \in claims /\ lockFile = h /\ recorded

\* No other call is under way and no live process has left anything behind.
Uncontended(h) ==
  /\ Alive(h)
  /\ \A o \in Handle \ {h} :
       /\ at[o] \in {"unused", "done", "dead"}
       /\ Alive(o) => o \notin claims /\ lockFile # o

\* What dead owners leave behind never blocks: a call that stays uncontended
\* obtains the lock.
StaleOwnersNeverBlock ==
  \A h \in Handle \ Faulty :
    (at[h] = "listing" /\ Uncontended(h)) ~> (at[h] = "holding" \/ ~Uncontended(h))
=============================================================================
