------------------------- MODULE StorageResourceLock -------------------------
(***************************************************************************)
(* The advisory lock that every shared file of the LimCode data root is    *)
(* written under: an in-process FIFO turn, then a lock file created with   *)
(* O_EXCL that holds the owner's pid and token and is refreshed by a       *)
(* heartbeat.  One resource, hence one lock file.                          *)
(*                                                                         *)
(* A Task is one call of withStorageResourceLock; its ownerToken is the    *)
(* task itself.  Every file system call is a step of its own, so two       *)
(* processes interleave between a stat and the read that follows it, and   *)
(* between a check and the removal it allowed.                             *)
(***************************************************************************)
EXTENDS Sequences, FiniteSets

CONSTANTS
  Proc,          \* extension host processes sharing one data root
  Task,          \* calls of withStorageResourceLock
  ProcOf,        \* the process each call runs in
  NoFile,        \* the lock file does not exist
  MayCrash,      \* processes that may die
  SlowCreate,    \* may a creator need invalidMetadataWaitMs to write metadata?
  FileOpsMayFail \* may a file system call fail, for good after its retries?

ASSUME TaskAssumption ==
  /\ ProcOf \in [Task -> Proc]
  /\ MayCrash \subseteq Proc
  /\ SlowCreate \in BOOLEAN
  /\ FileOpsMayFail \in BOOLEAN
  /\ NoFile \notin [owner : Task, written : BOOLEAN, old : BOOLEAN]

VARIABLES
  alive,     \* processes that have not died
  queue,     \* inProcessLockQueues: the turns of each process, oldest first
  pc,        \* where each call stands
  file,      \* the lock file
  statOld,   \* the mtime a recovering call read is invalidMetadataWaitMs old
  expired,   \* the call's deadline has passed
  beating,   \* a heartbeat has checked the token and not renamed yet
  outdated,  \* history: recovering calls since whose stat a file was created
  flaws      \* history: "replaced" once a recovery has removed a file other than
             \* the one it took the stat of, "slow" once a file was without its
             \* metadata for invalidMetadataWaitMs while its creator was at work

vars == <<alive, queue, pc, file, statOld, expired, beating, outdated, flaws>>
recovery == <<statOld, outdated>>

LockFile == [owner : Task, written : BOOLEAN, old : BOOLEAN]

PC == {"idle", "queued", "create", "write", "cleanup", "stat", "read", "remove",
       "blocked", "held", "stopping", "relRead", "relRemove", "done", "failed", "late", "dead"}

Live(t) == ProcOf[t] \in alive

\* The turn of a call, from the moment it reaches the head of its queue.
InTurn == {"create", "write", "cleanup", "stat", "read", "remove",
           "blocked", "held", "stopping", "relRead", "relRemove"}

\* The calls that created the lock file and have not given it back.
Owning == {"write", "cleanup", "held", "stopping", "relRead", "relRemove"}

Creating == {"write", "cleanup"}

\* The calls between the stat of a recovery and what they do about it.
Recovering == {"read", "remove"}

\* The calls that acquired the lock and have not finished releasing it.
Holding == {"held", "stopping", "relRead", "relRemove"}

TypeOK ==
  /\ alive \in SUBSET Proc
  /\ queue \in [Proc -> Seq(Task)]
  /\ pc \in [Task -> PC]
  /\ file \in LockFile \cup {NoFile}
  /\ statOld \in [Task -> BOOLEAN]
  /\ expired \in [Task -> BOOLEAN]
  /\ beating \in [Task -> BOOLEAN]
  /\ outdated \in SUBSET Task
  /\ flaws \in SUBSET {"replaced", "slow"}

Init ==
  /\ alive = Proc
  /\ queue = [p \in Proc |-> <<>>]
  /\ pc = [t \in Task |-> "idle"]
  /\ file = NoFile
  /\ statOld = [t \in Task |-> FALSE]
  /\ expired = [t \in Task |-> FALSE]
  /\ beating = [t \in Task |-> FALSE]
  /\ outdated = {}
  /\ flaws = {}

-----------------------------------------------------------------------------
(* enterInProcessLockQueue *)

At(t, label) == Live(t) /\ pc[t] = label

Goto(t, label) == pc' = [pc EXCEPT ![t] = label]

\* Its deadline and its stat are forgotten with the call.
EndTurn(t, label) ==
  /\ Goto(t, label)
  /\ expired' = [expired EXCEPT ![t] = FALSE]
  /\ queue' = [queue EXCEPT ![ProcOf[t]] = Tail(@)]

EnterQueue(t) ==
  /\ At(t, "idle")
  /\ queue' = [queue EXCEPT ![ProcOf[t]] = Append(@, t)]
  /\ Goto(t, "queued")
  /\ UNCHANGED <<alive, file, recovery, expired, beating, flaws>>

\* Mutant: the previous turn is not awaited.
TakeTurnWithoutWaiting(t) ==
  /\ At(t, "queued")
  /\ Goto(t, "create")
  /\ UNCHANGED <<alive, queue, file, recovery, expired, beating, flaws>>

TakeTurn(t) ==
  /\ At(t, "queued")
  /\ queue[ProcOf[t]] # <<>>
  /\ Head(queue[ProcOf[t]]) = t
  /\ Goto(t, "create")
  /\ UNCHANGED <<alive, queue, file, recovery, expired, beating, flaws>>

-----------------------------------------------------------------------------
(* acquireLockFile, createLockFile, recoverExistingLockFile *)

OpenExclusive(t) ==
  /\ At(t, "create")
  /\ \/ /\ file = NoFile
        /\ file' = [owner |-> t, written |-> FALSE, old |-> FALSE]
        /\ outdated' = {u \in Task : pc[u] \in Recovering}
        /\ Goto(t, "write")
     \/ /\ file # NoFile
        /\ Goto(t, "stat")
        /\ UNCHANGED <<file, outdated>>
  /\ UNCHANGED <<alive, queue, statOld, expired, beating, flaws>>

\* A call that has the turn gives up with an error.
Reject(t) ==
  /\ EndTurn(t, "failed")
  /\ statOld' = [statOld EXCEPT ![t] = FALSE]
  /\ outdated' = outdated \ {t}
  /\ UNCHANGED <<alive, beating, flaws>>

\* isTransientFileBusyError: an open that is refused counts as contention,
\* whether there is a lock file or not; any other error ends the call.
OpenRefused(t) ==
  /\ FileOpsMayFail
  /\ At(t, "create")
  /\ \/ /\ Goto(t, "stat")
        /\ UNCHANGED <<alive, queue, recovery, expired, beating, flaws>>
     \/ Reject(t)
  /\ UNCHANGED file

Written(t) ==
  IF file # NoFile /\ file.owner = t
  THEN [owner |-> t, written |-> TRUE, old |-> FALSE]
  ELSE file

\* The handle is open: if the path was unlinked meanwhile the metadata goes to
\* the unlinked inode and the call still believes it holds the lock.
WriteMetadata(t) ==
  /\ At(t, "write")
  /\ file' = Written(t)
  /\ Goto(t, "held")
  /\ expired' = [expired EXCEPT ![t] = FALSE]
  /\ UNCHANGED <<alive, queue, recovery, beating, flaws>>

\* writeFile fails, or close does.
WriteFails(t) ==
  /\ FileOpsMayFail
  /\ At(t, "write")
  /\ file' \in {file, Written(t)}
  /\ Goto(t, "cleanup")
  /\ UNCHANGED <<alive, queue, recovery, expired, beating, flaws>>

\* A transient error that is the only one is thrown as it is, and counts as
\* contention; if the cleanup fails too, the file stays.
CleanupCreate(t) ==
  /\ At(t, "cleanup")
  /\ \/ /\ file' = NoFile
        /\ \/ /\ Goto(t, "stat")
              /\ UNCHANGED <<alive, queue, recovery, expired, beating, flaws>>
           \/ Reject(t)
     \/ /\ UNCHANGED file
        /\ Reject(t)

Stat(t) ==
  /\ At(t, "stat")
  /\ \/ /\ file = NoFile
        /\ Goto(t, "create")
        /\ UNCHANGED statOld
     \/ /\ file # NoFile
        /\ statOld' = [statOld EXCEPT ![t] = file.old]
        /\ Goto(t, "read")
  /\ UNCHANGED <<alive, queue, file, expired, beating, outdated, flaws>>

\* Mutant: a complete lock file is removed without asking whether its pid lives.
VerdictIgnoringPid(t) ==
  CASE file = NoFile -> "create"
    [] file # NoFile /\ ~file.written -> IF statOld[t] THEN "remove" ELSE "blocked"
    [] file # NoFile /\ file.written -> IF statOld[t] THEN "remove" ELSE "blocked"

\* Mutant: an empty lock file is taken for an abandoned one at any age.
VerdictIgnoringAge(t) ==
  CASE file = NoFile -> "create"
    [] file # NoFile /\ ~file.written -> "remove"
    [] file # NoFile /\ file.written -> IF Live(file.owner) THEN "blocked" ELSE "remove"

\* Mutant: a dead owner's lock is waited for like a living owner's.
VerdictTrustingFile(t) ==
  CASE file = NoFile -> "create"
    [] file # NoFile /\ ~file.written -> IF statOld[t] THEN "remove" ELSE "blocked"
    [] file # NoFile /\ file.written -> "blocked"

\* What the content just read, with the age stat read before it, leads to.
RecoveryVerdict(t) ==
  CASE file = NoFile -> "create"
    [] file # NoFile /\ ~file.written -> IF statOld[t] THEN "remove" ELSE "blocked"
    [] file # NoFile /\ file.written -> IF Live(file.owner) THEN "blocked" ELSE "remove"

ReadFile(t) ==
  /\ At(t, "read")
  /\ Goto(t, RecoveryVerdict(t))
  /\ statOld' = [statOld EXCEPT ![t] = FALSE]
  /\ outdated' = IF RecoveryVerdict(t) = "remove" THEN outdated ELSE outdated \ {t}
  /\ UNCHANGED <<alive, queue, file, expired, beating, flaws>>

RemoveStale(t) ==
  /\ At(t, "remove")
  /\ file' = NoFile
  /\ Goto(t, "create")
  /\ outdated' = outdated \ {t}
  /\ flaws' = flaws \cup (IF file # NoFile /\ t \in outdated THEN {"replaced"} ELSE {})
  /\ UNCHANGED <<alive, queue, statOld, expired, beating>>

\* A stat, a read or an unlink that fails is not contention.
RecoveryFails(t) ==
  /\ FileOpsMayFail
  /\ pc[t] \in {"stat", "read", "remove"} /\ Live(t)
  /\ Reject(t)
  /\ UNCHANGED file

Retry(t) ==
  /\ At(t, "blocked")
  /\ ~expired[t]
  /\ Goto(t, "create")
  /\ UNCHANGED <<alive, queue, file, recovery, expired, beating, flaws>>

\* Mutant: the error path of acquire forgets releaseInProcess.
TimeOutKeepingTurn(t) ==
  /\ At(t, "blocked")
  /\ expired[t]
  /\ Goto(t, "late")
  /\ UNCHANGED <<alive, queue, file, recovery, expired, beating, flaws>>

TimeOut(t) ==
  /\ At(t, "blocked")
  /\ expired[t]
  /\ EndTurn(t, "late")
  /\ UNCHANGED <<alive, file, recovery, beating, flaws>>

-----------------------------------------------------------------------------
(* createLockHeartbeat, writeLockHeartbeat *)

OwnFile(t) == file # NoFile /\ file.written /\ file.owner = t

\* readLockFileSnapshot and the token check; a refused heartbeat is only logged.
HeartbeatCheck(t) ==
  /\ At(t, "held")
  /\ ~beating[t]
  /\ OwnFile(t)
  /\ beating' = [beating EXCEPT ![t] = TRUE]
  /\ UNCHANGED <<alive, queue, pc, file, recovery, expired, flaws>>

HeartbeatRename(t) ==
  /\ Live(t)
  /\ beating[t]
  /\ \/ file' = [owner |-> t, written |-> TRUE, old |-> FALSE]
     \/ FileOpsMayFail /\ UNCHANGED file
  /\ beating' = [beating EXCEPT ![t] = FALSE]
  /\ UNCHANGED <<alive, queue, pc, recovery, expired, flaws>>

-----------------------------------------------------------------------------
(* releaseLockFile and the in-process turn *)

StopHeartbeat(t) ==
  /\ At(t, "held")
  /\ Goto(t, "stopping")
  /\ UNCHANGED <<alive, queue, file, recovery, expired, beating, flaws>>

HeartbeatStopped(t) ==
  /\ At(t, "stopping")
  /\ ~beating[t]
  /\ Goto(t, "relRead")
  /\ UNCHANGED <<alive, queue, file, recovery, expired, beating, flaws>>

ReleaseCheck(t) ==
  /\ At(t, "relRead")
  /\ \/ /\ OwnFile(t)
        /\ Goto(t, "relRemove")
        /\ UNCHANGED <<queue, expired>>
     \/ /\ ~OwnFile(t)
        /\ EndTurn(t, "failed")
  /\ UNCHANGED <<alive, file, recovery, beating, flaws>>

ReleaseRemove(t) ==
  /\ At(t, "relRemove")
  /\ file' = NoFile
  /\ EndTurn(t, IF file = NoFile THEN "failed" ELSE "done")
  /\ UNCHANGED <<alive, recovery, beating, flaws>>

\* The file cannot be read or removed: it stays.
ReleaseFails(t) ==
  /\ FileOpsMayFail
  /\ pc[t] \in {"relRead", "relRemove"} /\ Live(t)
  /\ Reject(t)
  /\ UNCHANGED file

-----------------------------------------------------------------------------
(* Time and failures *)

\* waitMs pass while the call is still trying; only "blocked" looks at the clock.
Deadline(t) ==
  /\ Live(t)
  /\ pc[t] \in {"create", "stat", "read", "remove", "blocked"}
  /\ ~expired[t]
  /\ expired' = [expired EXCEPT ![t] = TRUE]
  /\ UNCHANGED <<alive, queue, pc, file, recovery, beating, flaws>>

AtWork == \E t \in Task : Live(t) /\ pc[t] \in Creating

\* invalidMetadataWaitMs pass: the file and every stat already taken are old.
\* Unless SlowCreate, a living creator is through before that.
Age ==
  /\ SlowCreate \/ ~AtWork
  /\ file' = IF file = NoFile THEN file ELSE [file EXCEPT !.old = TRUE]
  /\ statOld' = [t \in Task |-> pc[t] = "read"]
  /\ flaws' = flaws \cup (IF AtWork THEN {"slow"} ELSE {})
  /\ UNCHANGED <<alive, queue, pc, expired, beating, outdated>>

Crash(p) ==
  /\ p \in MayCrash \cap alive
  /\ alive' = alive \ {p}
  /\ pc' = [t \in Task |-> IF ProcOf[t] = p THEN "dead" ELSE pc[t]]
  /\ queue' = [queue EXCEPT ![p] = <<>>]
  /\ beating' = [t \in Task |-> IF ProcOf[t] = p THEN FALSE ELSE beating[t]]
  /\ statOld' = [t \in Task |-> IF ProcOf[t] = p THEN FALSE ELSE statOld[t]]
  /\ expired' = [t \in Task |-> IF ProcOf[t] = p THEN FALSE ELSE expired[t]]
  /\ outdated' = {t \in outdated : ProcOf[t] # p}
  /\ UNCHANGED <<file, flaws>>

-----------------------------------------------------------------------------

Acquire(t) ==
  \/ TakeTurn(t) \/ OpenExclusive(t) \/ OpenRefused(t) \/ WriteMetadata(t) \/ WriteFails(t)
  \/ CleanupCreate(t) \/ Stat(t) \/ ReadFile(t) \/ RemoveStale(t) \/ RecoveryFails(t)
  \/ Retry(t) \/ TimeOut(t)

Release(t) ==
  \/ StopHeartbeat(t) \/ HeartbeatStopped(t) \/ ReleaseCheck(t)
  \/ ReleaseRemove(t) \/ ReleaseFails(t)

Heartbeat(t) == HeartbeatCheck(t) \/ HeartbeatRename(t)

Next ==
  \/ \E t \in Task : EnterQueue(t) \/ Acquire(t) \/ Heartbeat(t) \/ Release(t) \/ Deadline(t)
  \/ Age
  \/ \E p \in Proc : Crash(p)

Spec == Init /\ [][Next]_vars

\* Every call keeps running, the action of a holder ends, and time passes.
Fairness ==
  /\ \A t \in Task : /\ WF_vars(Acquire(t) \/ Release(t))
                     /\ WF_vars(HeartbeatRename(t))
                     /\ WF_vars(Deadline(t))
  /\ WF_vars(Age)

\* An error that is taken for a transient one does not come back for ever.
Transience ==
  \A t \in Task : SF_vars(OpenExclusive(t)) /\ SF_vars(WriteMetadata(t))

FairSpec == Spec /\ Fairness /\ Transience

\* The lock file belongs to a living call that has not given it back.
LiveOwnerFile ==
  file # NoFile /\ Live(file.owner) /\ pc[file.owner] \in Owning

-----------------------------------------------------------------------------
(* Properties *)

\* Two calls of one process are never both past their turn, whatever the file
\* system and other processes do: a failed acquisition or release gives the
\* turn back exactly once (releaseInProcess, releaseTurn).
InProcessExclusion ==
  \A t, u \in Task :
    pc[t] \in InTurn /\ pc[u] \in InTurn /\ ProcOf[t] = ProcOf[u] => t = u

\* Recovery never removes the lock file of a call that is still alive
\* (recoverExistingLockFile: a living owner is never preempted). TLC refutes it:
\* section 6 of the README says how.
LiveOwnerNeverPreempted ==
  [][\A t \in Task : RemoveStale(t) => ~LiveOwnerFile]_vars

VerdictsAreRightStep ==
  \A t \in Task : flaws' = {} /\ RemoveStale(t) => ~LiveOwnerFile

\* A recovery that removes the file it took the stat of is right about it, as long as
\* creators are quick: the owner is dead, or has given the file up
\* (recoverExistingLockFile, its verdict by age and by pid).
VerdictsAreRight == [][VerdictsAreRightStep]_vars

\* At most one living call has acquired the lock and not finished releasing it,
\* across processes, as long as no recovery has removed a file other than the one it took
\* the stat of and creators are quick: what withStorageResourceLock promises to the
\* stores that read, modify and write.
MutualExclusion ==
  flaws = {} =>
    \A t, u \in Task : pc[t] \in Holding /\ pc[u] \in Holding => t = u

\* Whatever dies, fails or is refused, the lock excludes and no recovery takes the file of a
\* living owner, but for the two ways in which the code lets it (storageResourceLock.ts:313, :324).
LockHolds == []MutualExclusion /\ VerdictsAreRight

Over == {"done", "failed", "late", "dead"}

\* A call never waits forever: it acquires and releases, or gives up.
EveryCallEnds ==
  <>[](\A t \in Task : pc[t] \in Over \cup {"idle"})

\* A complete lock file whose owner died never makes a caller that finds it wait until
\* its deadline: the dead owner's lock is recovered at once, instead of after staleMs,
\* or the file system refuses.
DeadOwnerRecovered ==
  \A t \in Task :
    (file # NoFile /\ file.written /\ ~Live(file.owner) /\ At(t, "create"))
      ~> (pc[t] \in {"failed", "dead"} \/ file = NoFile \/ Live(file.owner))
=============================================================================
