---------------------- MODULE StorageResourceLockProofs ----------------------
(* Theorems about StorageResourceLock, for any processes and calls. *)
EXTENDS StorageResourceLock, SequenceTheorems, TLAPS

\* What the queue operations of the in-process turn do to a non-empty queue.
LEMMA QueueFacts ==
  ASSUME NEW q \in Seq(Task), NEW t \in Task
  PROVE  /\ Append(q, t) \in Seq(Task)
         /\ Append(q, t) # <<>>
         /\ q # <<>> => Head(Append(q, t)) = Head(q)
         /\ q # <<>> => Tail(q) \in Seq(Task)
  BY AppendProperties, HeadTailProperties

\* What a call writes under the lock path is a lock file.
LEMMA NewLockFile ==
  ASSUME NEW t \in Task, NEW w \in BOOLEAN
  PROVE  /\ [owner |-> t, written |-> w, old |-> FALSE] \in LockFile
         /\ [owner |-> t, written |-> w, old |-> FALSE] # NoFile
<1>1. [owner |-> t, written |-> w, old |-> FALSE] \in [owner : Task, written : BOOLEAN, old : BOOLEAN]
  OBVIOUS
<1> QED
  BY <1>1, TaskAssumption DEF LockFile

\* The call that has the turn is the head of its process's queue.
TurnInv ==
  \A t \in Task : pc[t] \in InTurn =>
    queue[ProcOf[t]] # <<>> /\ Head(queue[ProcOf[t]]) = t

QueueInv == TypeOK /\ TurnInv

LEMMA InitQueueInv == Init => QueueInv
  BY TaskAssumption DEF Init, QueueInv, TypeOK, TurnInv, LockFile, PC, InTurn

\* A step that moves one call inside its turn keeps the turns.
LEMMA MoveInTurn ==
  ASSUME QueueInv, NEW t \in Task, NEW label \in InTurn,
         pc[t] \in InTurn, Goto(t, label), UNCHANGED queue
  PROVE  pc' \in [Task -> PC] /\ queue' \in [Proc -> Seq(Task)] /\ TurnInv'
  BY DEF QueueInv, TypeOK, TurnInv, Goto, InTurn, PC

\* Giving the turn back leaves the turns of the other processes alone, and
\* nobody of its own process had the turn with it.
LEMMA EndTurnKeepsTurns ==
  ASSUME QueueInv, NEW t \in Task, NEW label \in {"done", "failed", "late"},
         pc[t] \in InTurn, EndTurn(t, label)
  PROVE  /\ pc' \in [Task -> PC] /\ queue' \in [Proc -> Seq(Task)] /\ TurnInv'
         /\ expired' \in [Task -> BOOLEAN]
<1>1. /\ ProcOf[t] \in Proc
      /\ queue[ProcOf[t]] \in Seq(Task)
      /\ queue[ProcOf[t]] # <<>>
      /\ Head(queue[ProcOf[t]]) = t
  BY TaskAssumption DEF QueueInv, TypeOK, TurnInv
<1>2. Tail(queue[ProcOf[t]]) \in Seq(Task)
  BY <1>1, QueueFacts
<1>3. pc' \in [Task -> PC] /\ queue' \in [Proc -> Seq(Task)] /\ expired' \in [Task -> BOOLEAN]
  BY <1>1, <1>2 DEF QueueInv, TypeOK, EndTurn, Goto, PC
<1>4. ASSUME NEW u \in Task, pc'[u] \in InTurn
      PROVE  queue'[ProcOf[u]] # <<>> /\ Head(queue'[ProcOf[u]]) = u
  <2>1. u # t /\ pc[u] \in InTurn
    BY <1>4 DEF EndTurn, Goto, InTurn, QueueInv, TypeOK
  <2>2. ProcOf[u] # ProcOf[t]
    BY <1>1, <2>1 DEF QueueInv, TurnInv
  <2>3. queue'[ProcOf[u]] = queue[ProcOf[u]]
    BY <2>2, TaskAssumption DEF EndTurn, QueueInv, TypeOK
  <2> QED
    BY <2>1, <2>3 DEF QueueInv, TurnInv
<1> QED
  BY <1>3, <1>4 DEF TurnInv

LEMMA RejectKeepsTurns ==
  ASSUME QueueInv, NEW t \in Task, pc[t] \in InTurn, Reject(t), file' \in LockFile \cup {NoFile}
  PROVE  QueueInv'
<1>1. EndTurn(t, "failed") /\ "failed" \in {"done", "failed", "late"}
  BY DEF Reject
<1>2. /\ pc' \in [Task -> PC] /\ queue' \in [Proc -> Seq(Task)] /\ TurnInv'
      /\ expired' \in [Task -> BOOLEAN]
  BY <1>1, EndTurnKeepsTurns
<1> QED
  BY <1>2 DEF Reject, QueueInv, TypeOK

\* What a creator writes is a lock file.
LEMMA WrittenType ==
  ASSUME TypeOK, NEW t \in Task
  PROVE  Written(t) \in LockFile \cup {NoFile}
BY DEF TypeOK, Written, LockFile

LEMMA EnterQueueKeepsTurns ==
  ASSUME QueueInv, NEW t \in Task, EnterQueue(t)
  PROVE  QueueInv'
<1>1. ProcOf[t] \in Proc /\ queue[ProcOf[t]] \in Seq(Task)
  BY TaskAssumption DEF QueueInv, TypeOK
<1>2. TypeOK'
  BY <1>1, QueueFacts DEF QueueInv, TypeOK, EnterQueue, Goto, PC, recovery
<1>3. ASSUME NEW u \in Task, pc'[u] \in InTurn
      PROVE  queue'[ProcOf[u]] # <<>> /\ Head(queue'[ProcOf[u]]) = u
  <2>1. u # t /\ pc[u] \in InTurn
    BY <1>3 DEF EnterQueue, Goto, InTurn, QueueInv, TypeOK
  <2>2. /\ ProcOf[u] \in Proc
        /\ queue[ProcOf[u]] \in Seq(Task)
        /\ queue[ProcOf[u]] # <<>>
        /\ Head(queue[ProcOf[u]]) = u
    BY <2>1, TaskAssumption DEF QueueInv, TypeOK, TurnInv
  <2>3. queue'[ProcOf[u]] \in {queue[ProcOf[u]], Append(queue[ProcOf[u]], t)}
    BY <2>2 DEF EnterQueue, QueueInv, TypeOK
  <2> QED
    BY <2>2, <2>3, QueueFacts
<1> QED
  BY <1>2, <1>3 DEF QueueInv, TurnInv

\* Every step keeps the types and the turns.
LEMMA QueueInvStep == QueueInv /\ [Next]_vars => QueueInv'
<1> SUFFICES ASSUME QueueInv, [Next]_vars PROVE QueueInv'
  OBVIOUS
<1>1. ASSUME NEW t \in Task, EnterQueue(t) PROVE QueueInv'
  BY <1>1, EnterQueueKeepsTurns
<1>2. ASSUME NEW t \in Task, Acquire(t) PROVE QueueInv'
  <2>1. CASE TakeTurn(t)
    BY <2>1 DEF QueueInv, TypeOK, TurnInv, TakeTurn, At, Goto, InTurn, PC, recovery
  <2>2. CASE OpenExclusive(t)
    <3>1. \E label \in InTurn : Goto(t, label) /\ UNCHANGED queue /\ pc[t] \in InTurn
      BY <2>2 DEF OpenExclusive, At, InTurn
    <3>2. [owner |-> t, written |-> FALSE, old |-> FALSE] \in LockFile
      BY DEF LockFile
    <3>3. file' \in LockFile \cup {NoFile} /\ outdated' \in SUBSET Task
      BY <2>2, <3>2 DEF OpenExclusive, QueueInv, TypeOK
    <3> QED
      BY <2>2, <3>1, <3>3, MoveInTurn DEF OpenExclusive, QueueInv, TypeOK
  <2>3. CASE OpenRefused(t)
    <3>1. CASE Goto(t, "stat") /\ UNCHANGED <<alive, queue, recovery, expired, beating, flaws>>
      BY <2>3, <3>1, MoveInTurn DEF OpenRefused, At, InTurn, recovery, QueueInv, TypeOK
    <3>2. CASE Reject(t)
      BY <2>3, <3>2, RejectKeepsTurns DEF OpenRefused, At, InTurn, QueueInv, TypeOK
    <3> QED
      BY <2>3, <3>1, <3>2 DEF OpenRefused
  <2>4. CASE WriteMetadata(t)
    <3>1. Goto(t, "held") /\ UNCHANGED queue /\ pc[t] \in InTurn /\ "held" \in InTurn
      BY <2>4 DEF WriteMetadata, At, InTurn
    <3>2. file' \in LockFile \cup {NoFile} /\ expired' \in [Task -> BOOLEAN]
      BY <2>4, WrittenType DEF WriteMetadata, QueueInv, TypeOK
    <3> QED
      BY <2>4, <3>1, <3>2, MoveInTurn DEF WriteMetadata, recovery, QueueInv, TypeOK
  <2>5. CASE WriteFails(t)
    <3>1. file' \in LockFile \cup {NoFile}
      BY <2>5, WrittenType DEF WriteFails, QueueInv, TypeOK
    <3> QED
      BY <2>5, <3>1, MoveInTurn DEF WriteFails, At, InTurn, recovery, QueueInv, TypeOK
  <2>6. CASE CleanupCreate(t)
    <3>1. CASE Goto(t, "stat") /\ UNCHANGED <<alive, queue, recovery, expired, beating, flaws>> /\ file' = NoFile
      BY <2>6, <3>1, MoveInTurn DEF CleanupCreate, At, InTurn, recovery, QueueInv, TypeOK
    <3>2. CASE Reject(t)
      <4>1. file' \in LockFile \cup {NoFile} /\ pc[t] \in InTurn
        BY <2>6 DEF CleanupCreate, At, InTurn, QueueInv, TypeOK
      <4> QED
        BY <3>2, <4>1, RejectKeepsTurns
    <3> QED
      BY <2>6, <3>1, <3>2 DEF CleanupCreate
  <2>7. CASE Stat(t)
    <3>1. \E label \in InTurn : Goto(t, label) /\ UNCHANGED queue /\ pc[t] \in InTurn
      BY <2>7 DEF Stat, At, InTurn
    <3>2. statOld' \in [Task -> BOOLEAN]
      BY <2>7 DEF Stat, QueueInv, TypeOK, LockFile
    <3> QED
      BY <2>7, <3>1, <3>2, MoveInTurn DEF Stat, QueueInv, TypeOK
  <2>8. CASE ReadFile(t)
    <3>1. file = NoFile \/ file.written \in BOOLEAN
      BY DEF QueueInv, TypeOK, LockFile
    <3>2. RecoveryVerdict(t) \in InTurn
      BY <3>1 DEF RecoveryVerdict, InTurn
    <3>3. outdated' \in SUBSET Task /\ statOld' \in [Task -> BOOLEAN]
      BY <2>8 DEF ReadFile, QueueInv, TypeOK
    <3> QED
      BY <2>8, <3>2, <3>3, MoveInTurn DEF ReadFile, At, InTurn, QueueInv, TypeOK
  <2>9. CASE RemoveStale(t)
    <3>1. outdated' \in SUBSET Task /\ flaws' \in SUBSET {"replaced", "slow"}
      BY <2>9 DEF RemoveStale, QueueInv, TypeOK
    <3> QED
      BY <2>9, <3>1, MoveInTurn DEF RemoveStale, At, InTurn, QueueInv, TypeOK
  <2>10. CASE RecoveryFails(t)
    BY <2>10, RejectKeepsTurns DEF RecoveryFails, InTurn, QueueInv, TypeOK
  <2>11. CASE Retry(t)
    BY <2>11, MoveInTurn DEF Retry, At, InTurn, recovery, QueueInv, TypeOK
  <2>12. CASE TimeOut(t)
    BY <2>12, EndTurnKeepsTurns DEF TimeOut, At, InTurn, recovery, QueueInv, TypeOK
  <2> QED
    BY <1>2, <2>1, <2>2, <2>3, <2>4, <2>5, <2>6, <2>7, <2>8, <2>9, <2>10, <2>11, <2>12 DEF Acquire
<1>3. ASSUME NEW t \in Task, Heartbeat(t) PROVE QueueInv'
  <2>1. CASE HeartbeatCheck(t)
    BY <2>1 DEF HeartbeatCheck, recovery, QueueInv, TypeOK, TurnInv
  <2>2. CASE HeartbeatRename(t)
    <3>1. file' \in LockFile \cup {NoFile}
      BY <2>2, NewLockFile DEF HeartbeatRename, QueueInv, TypeOK
    <3> QED
      BY <2>2, <3>1 DEF HeartbeatRename, recovery, QueueInv, TypeOK, TurnInv
  <2> QED
    BY <1>3, <2>1, <2>2 DEF Heartbeat
<1>4. ASSUME NEW t \in Task, Release(t) PROVE QueueInv'
  <2>1. CASE StopHeartbeat(t)
    BY <2>1, MoveInTurn DEF StopHeartbeat, At, InTurn, recovery, QueueInv, TypeOK
  <2>2. CASE HeartbeatStopped(t)
    BY <2>2, MoveInTurn DEF HeartbeatStopped, At, InTurn, recovery, QueueInv, TypeOK
  <2>3. CASE ReleaseCheck(t)
    <3>1. CASE OwnFile(t)
      BY <2>3, <3>1, MoveInTurn DEF ReleaseCheck, At, InTurn, recovery, QueueInv, TypeOK
    <3>2. CASE ~OwnFile(t)
      BY <2>3, <3>2, EndTurnKeepsTurns DEF ReleaseCheck, At, InTurn, recovery, QueueInv, TypeOK
    <3> QED
      BY <3>1, <3>2
  <2>4. CASE ReleaseRemove(t)
    BY <2>4, EndTurnKeepsTurns DEF ReleaseRemove, At, InTurn, recovery, QueueInv, TypeOK
  <2>5. CASE ReleaseFails(t)
    BY <2>5, RejectKeepsTurns DEF ReleaseFails, InTurn, QueueInv, TypeOK
  <2> QED
    BY <1>4, <2>1, <2>2, <2>3, <2>4, <2>5 DEF Release
<1>5. ASSUME NEW t \in Task, Deadline(t) PROVE QueueInv'
  BY <1>5 DEF Deadline, recovery, QueueInv, TypeOK, TurnInv
<1>6. CASE Age
  <2>1. file' \in LockFile \cup {NoFile}
    BY <1>6 DEF Age, QueueInv, TypeOK, LockFile
  <2>2. statOld' \in [Task -> BOOLEAN] /\ flaws' \in SUBSET {"replaced", "slow"}
    BY <1>6 DEF Age, QueueInv, TypeOK
  <2> QED
    BY <1>6, <2>1, <2>2 DEF Age, QueueInv, TypeOK, TurnInv
<1>7. ASSUME NEW p \in Proc, Crash(p) PROVE QueueInv'
  <2>1. TypeOK'
    <3>1. queue' \in [Proc -> Seq(Task)]
      BY <1>7, EmptySeq DEF Crash, QueueInv, TypeOK
    <3>2. pc' \in [Task -> PC]
      BY <1>7 DEF Crash, QueueInv, TypeOK, PC
    <3>3. /\ beating' \in [Task -> BOOLEAN] /\ statOld' \in [Task -> BOOLEAN]
          /\ expired' \in [Task -> BOOLEAN] /\ outdated' \in SUBSET Task
      BY <1>7 DEF Crash, QueueInv, TypeOK
    <3> QED
      BY <1>7, <3>1, <3>2, <3>3 DEF Crash, QueueInv, TypeOK
  <2>2. ASSUME NEW u \in Task, pc'[u] \in InTurn
        PROVE  pc[u] \in InTurn /\ queue'[ProcOf[u]] = queue[ProcOf[u]]
    BY <1>7, <2>2, TaskAssumption DEF Crash, InTurn, QueueInv, TypeOK
  <2> QED
    BY <2>1, <2>2 DEF QueueInv, TurnInv
<1>8. CASE UNCHANGED vars
  BY <1>8 DEF vars, QueueInv, TypeOK, TurnInv
<1> QED
  BY <1>1, <1>2, <1>3, <1>4, <1>5, <1>6, <1>7, <1>8 DEF Next

\* Type correctness of the lock in every behaviour, crashes included.
THEOREM TypeCorrect == Spec => []TypeOK
<1>1. QueueInv => TypeOK
  BY DEF QueueInv
<1> QED
  BY InitQueueInv, QueueInvStep, <1>1, PTL DEF Spec

\* Two calls of one process never overlap, whatever other processes, the file
\* system and recovery do: the promise chain alone guarantees it.
THEOREM InProcessExclusionHolds == Spec => []InProcessExclusion
<1>1. QueueInv => InProcessExclusion
  BY DEF QueueInv, TurnInv, InProcessExclusion
<1> QED
  BY InitQueueInv, QueueInvStep, <1>1, PTL DEF Spec

-----------------------------------------------------------------------------
(* Mutual exclusion across processes *)

\* Only a call that holds the lock has a heartbeat in flight, and a dead process
\* runs nothing.
BeatInv == \A t \in Task : beating[t] => pc[t] \in {"held", "stopping"}
DeadInv == \A t \in Task : ~Live(t) => pc[t] = "dead"

\* The file is that of the call that owns it, with its metadata if the call holds it.
Owned == file # NoFile /\ pc[file.owner] \in Owning
FileInv == \A t \in Task : pc[t] \in Owning =>
             /\ file # NoFile /\ file.owner = t
             /\ pc[t] \in Holding => file.written

\* An empty file that is old was given up; a call that saw its age, and one that is to
\* remove it, know that if the file is still the one they took the stat of.
OldInv == Owned /\ file.old => file.written
ReadInv == \A t \in Task \ outdated :
             pc[t] = "read" /\ statOld[t] /\ Owned => file.written
RemoveInv == \A t \in Task \ outdated : pc[t] = "remove" => ~Owned

Sound == FileInv /\ OldInv /\ ReadInv /\ RemoveInv
OwnerInv == QueueInv /\ BeatInv /\ DeadInv /\ (flaws = {} => Sound)

LEMMA InitOwnerInv == Init => OwnerInv
  BY TaskAssumption, InitQueueInv
  DEF Init, OwnerInv, BeatInv, DeadInv, Sound, FileInv, OldInv, ReadInv, RemoveInv, Owned, Live, Owning

\* The owner of a file that is owned is one call, and it lives.
LEMMA OneOwner ==
  ASSUME TypeOK, DeadInv, FileInv
  PROVE  /\ \A t, u \in Task : pc[t] \in Owning /\ pc[u] \in Owning => t = u
         /\ \A t \in Task : pc[t] \in Owning => Owned /\ Live(t)
         /\ Owned => file.owner \in Task
<1>1. \A t \in Task : pc[t] \in Owning => Owned
  BY DEF FileInv, Owned
<1>2. \A t \in Task : pc[t] \in Owning => Live(t)
  BY DEF DeadInv, Owning
<1>3. \A t, u \in Task : pc[t] \in Owning /\ pc[u] \in Owning => t = u
  BY DEF FileInv
<1>4. Owned => file.owner \in Task
  BY DEF Owned, TypeOK, LockFile
<1> QED
  BY <1>1, <1>2, <1>3, <1>4

\* Without a file, or with one nobody owns, nobody is an owner.
LEMMA Unowned ==
  ASSUME TypeOK, FileInv, ~Owned
  PROVE  \A t \in Task : pc[t] \notin Owning
BY DEF FileInv, Owned

\* A step that leaves no owner is sound.
LEMMA SoundWithoutOwner ==
  ASSUME TypeOK', \A t \in Task : pc'[t] \notin Owning
  PROVE  Sound'
<1>1. ~Owned'
  BY DEF Owned, TypeOK, LockFile
<1> QED
  BY <1>1 DEF Sound, FileInv, OldInv, ReadInv, RemoveInv

\* A step of a call that owns the file, stays its owner and writes at most its metadata.
LEMMA SoundForOwner ==
  ASSUME TypeOK, TypeOK', DeadInv, Sound, NEW t \in Task, pc[t] \in Owning, pc'[t] \in Owning,
         \A u \in Task \ {t} : pc'[u] = pc[u], UNCHANGED <<statOld, outdated>>,
         file' = file \/ (file' # NoFile /\ file'.owner = t /\ file'.written),
         pc'[t] \in Holding => file' # file \/ pc[t] \in Holding \/ file.written
  PROVE  Sound'
<1>0. \A u \in Task : pc[u] \in Owning <=> u = t
  BY OneOwner DEF Sound
<1>1. file # NoFile /\ file.owner = t /\ Owned /\ (pc[t] \in Holding => file.written)
  BY OneOwner DEF Sound, FileInv
<1>2. file' # NoFile /\ file'.owner = t /\ (pc'[t] \in Holding => file'.written) /\ (file.written => file'.written)
  BY <1>1
<1>3. \A u \in Task : pc'[u] \in Owning => u = t
  BY <1>0
<1>4. FileInv'
  BY <1>2, <1>3 DEF FileInv
<1>5. \A u \in Task : pc'[u] \in Recovering => u # t /\ pc'[u] = pc[u]
  BY DEF Recovering, Owning
<1>6. OldInv' /\ ReadInv'
  BY <1>1, <1>2, <1>5 DEF Sound, OldInv, ReadInv, Recovering
<1>7. RemoveInv'
  BY <1>1, <1>5 DEF Sound, RemoveInv, Recovering
<1> QED
  BY <1>4, <1>6, <1>7 DEF Sound

\* A step of a call that owns nothing before or after, and is not about to judge or remove.
LEMMA SoundForOthers ==
  ASSUME TypeOK, TypeOK', Sound, NEW t \in Task,
         pc[t] \notin Owning, pc'[t] \notin Owning \cup Recovering,
         \A u \in Task \ {t} : pc'[u] = pc[u] /\ statOld'[u] = statOld[u],
         outdated \ {t} \subseteq outdated', UNCHANGED file
  PROVE  Sound'
<1>1. \A u \in Task : pc'[u] \in Owning => pc[u] \in Owning /\ pc'[u] = pc[u]
  OBVIOUS
<1>2. Owned' => Owned
  BY <1>1 DEF Owned, TypeOK, LockFile
<1>3. FileInv' /\ OldInv'
  BY <1>1, <1>2 DEF Sound, FileInv, OldInv
<1>4. ReadInv' /\ RemoveInv'
  BY <1>2 DEF Sound, ReadInv, RemoveInv, Recovering
<1> QED
  BY <1>3, <1>4 DEF Sound

\* An owner that gives the file up: nobody else owned it.
LEMMA SoundAfterOwner ==
  ASSUME TypeOK, TypeOK', DeadInv, Sound, NEW t \in Task, pc[t] \in Owning, pc'[t] \notin Owning,
         \A u \in Task \ {t} : pc'[u] = pc[u]
  PROVE  Sound'
<1>1. \A u \in Task : pc'[u] \notin Owning
  BY OneOwner DEF Sound
<1> QED
  BY <1>1, SoundWithoutOwner

\* What moves one call, and what ends one, as the lemmas above want it.
LEMMA MovesOne ==
  ASSUME TypeOK, NEW t \in Task, NEW label, Goto(t, label)
  PROVE  pc'[t] = label /\ \A u \in Task \ {t} : pc'[u] = pc[u]
BY DEF Goto, TypeOK

LEMMA Rejects ==
  ASSUME TypeOK, NEW t \in Task, Reject(t)
  PROVE  /\ pc'[t] = "failed" /\ \A u \in Task \ {t} : pc'[u] = pc[u] /\ statOld'[u] = statOld[u]
         /\ outdated' = outdated \ {t} /\ flaws' = flaws
<1>1. Goto(t, "failed")
  BY DEF Reject, EndTurn
<1> QED
  BY <1>1, MovesOne DEF Reject, TypeOK

LEMMA CreatesSoundly ==
  ASSUME TypeOK, TypeOK', DeadInv, Sound, NEW t \in Task, OpenExclusive(t)
  PROVE  Sound'
<1>1. CASE file = NoFile
  <2>1. file' = [owner |-> t, written |-> FALSE, old |-> FALSE] /\ file' # NoFile
    BY <1>1, NewLockFile DEF OpenExclusive
  <2>2. pc'[t] = "write" /\ \A u \in Task \ {t} : pc'[u] = pc[u]
    BY <1>1, MovesOne DEF OpenExclusive
  <2>3. \A u \in Task : pc[u] \notin Owning
    BY <1>1, Unowned DEF Sound, Owned
  <2>4. FileInv' /\ OldInv'
    BY <2>1, <2>2, <2>3 DEF FileInv, OldInv, Owning, Holding
  <2>5. \A u \in Task : pc'[u] \in Recovering => u \in outdated'
    BY <1>1, <2>2 DEF OpenExclusive, Recovering
  <2>6. ReadInv' /\ RemoveInv'
    BY <2>5 DEF ReadInv, RemoveInv, Recovering
  <2> QED
    BY <2>4, <2>6 DEF Sound
<1>2. CASE file # NoFile
  <2>1. pc'[t] = "stat" /\ pc[t] = "create" /\ \A u \in Task \ {t} : pc'[u] = pc[u]
    BY <1>2, MovesOne DEF OpenExclusive, At
  <2> QED
    BY <1>2, <2>1, SoundForOthers DEF OpenExclusive, Owning, Recovering
<1> QED
  BY <1>1, <1>2

LEMMA WritesSoundly ==
  ASSUME TypeOK, TypeOK', DeadInv, Sound, NEW t \in Task, WriteMetadata(t) \/ WriteFails(t)
  PROVE  Sound'
<1>1. pc[t] = "write" /\ pc'[t] \in {"held", "cleanup"} /\ \A u \in Task \ {t} : pc'[u] = pc[u]
  BY MovesOne DEF WriteMetadata, WriteFails, At
<1>2. file # NoFile /\ file.owner = t
  BY <1>1 DEF Sound, FileInv, Owning
<1>3. Written(t).owner = t /\ Written(t).written /\ Written(t) # NoFile
  BY <1>2, NewLockFile DEF Written
<1>4. UNCHANGED <<statOld, outdated>>
  BY DEF WriteMetadata, WriteFails, recovery
<1>5. CASE WriteMetadata(t)
  <2>1. file' # NoFile /\ file'.owner = t /\ file'.written
    BY <1>3, <1>5 DEF WriteMetadata
  <2>2. file' = file => file.written
    BY <2>1
  <2> QED
    BY <1>1, <1>4, <2>1, <2>2, SoundForOwner DEF Owning
<1>6. CASE WriteFails(t)
  <2>1. file' = file \/ (file' # NoFile /\ file'.owner = t /\ file'.written)
    BY <1>3, <1>6 DEF WriteFails
  <2>2. pc'[t] = "cleanup"
    BY <1>6, MovesOne DEF WriteFails
  <2> QED
    BY <1>1, <1>4, <2>1, <2>2, SoundForOwner DEF Owning, Holding
<1> QED
  BY <1>5, <1>6

LEMMA CleansSoundly ==
  ASSUME TypeOK, TypeOK', DeadInv, Sound, NEW t \in Task, CleanupCreate(t)
  PROVE  Sound'
<1>1. pc[t] = "cleanup" /\ pc'[t] \in {"stat", "failed"} /\ \A u \in Task \ {t} : pc'[u] = pc[u]
  BY MovesOne, Rejects DEF CleanupCreate, At
<1> QED
  BY <1>1, SoundAfterOwner DEF Owning

LEMMA StatsSoundly ==
  ASSUME TypeOK, TypeOK', Sound, NEW t \in Task, Stat(t)
  PROVE  Sound'
<1>1. pc[t] = "stat" /\ pc'[t] \in {"create", "read"} /\ \A u \in Task \ {t} : pc'[u] = pc[u]
  BY MovesOne DEF Stat, At
<1>2. UNCHANGED <<file, outdated>>
  BY DEF Stat
<1>3. \A u \in Task \ {t} : statOld'[u] = statOld[u]
  BY DEF Stat, TypeOK
<1>4. CASE file = NoFile
  BY <1>1, <1>2, <1>3, <1>4, MovesOne, SoundForOthers DEF Stat, Owning, Recovering
<1>5. CASE file # NoFile
  <2>1. pc'[t] = "read" /\ statOld'[t] = file.old
    BY <1>5, MovesOne DEF Stat, TypeOK
  <2>2. \A u \in Task : pc'[u] \in Owning => pc[u] \in Owning /\ pc'[u] = pc[u]
    BY <1>1, <2>1 DEF Owning
  <2>3. Owned' => Owned
    BY <1>2, <2>2 DEF Owned, TypeOK, LockFile
  <2>4. FileInv' /\ OldInv'
    BY <1>2, <2>2, <2>3 DEF Sound, FileInv, OldInv
  <2>5. ReadInv'
    BY <1>1, <1>2, <1>3, <2>1, <2>3 DEF Sound, ReadInv, OldInv
  <2>6. RemoveInv'
    BY <1>1, <1>2, <2>1, <2>3 DEF Sound, RemoveInv
  <2> QED
    BY <2>4, <2>5, <2>6 DEF Sound
<1> QED
  BY <1>4, <1>5

\* The verdict of a recovery is right about the file it took the stat of.
LEMMA ReadsSoundly ==
  ASSUME TypeOK, TypeOK', DeadInv, Sound, NEW t \in Task, ReadFile(t)
  PROVE  Sound'
<1>0. pc[t] = "read" /\ pc'[t] = RecoveryVerdict(t) /\ (\A u \in Task \ {t} : pc'[u] = pc[u])
      /\ UNCHANGED file
  BY MovesOne DEF ReadFile, At
<1>1. \A u \in Task \ {t} : statOld'[u] = statOld[u]
  BY DEF ReadFile, TypeOK
<1>2. outdated \ {t} \subseteq outdated' /\ (RecoveryVerdict(t) = "remove" => outdated' = outdated)
  BY DEF ReadFile
<1>3. file = NoFile \/ (file.written \in BOOLEAN /\ file.owner \in Task)
  BY DEF TypeOK, LockFile
<1>4. RecoveryVerdict(t) \in {"create", "remove", "blocked"}
  BY <1>3 DEF RecoveryVerdict
<1>5. CASE RecoveryVerdict(t) # "remove"
  BY <1>0, <1>1, <1>2, <1>4, <1>5, SoundForOthers DEF Owning, Recovering
<1>6. CASE RecoveryVerdict(t) = "remove"
  <2>1. file # NoFile /\ (~file.written => statOld[t]) /\ (file.written => ~Live(file.owner))
    BY <1>3, <1>6 DEF RecoveryVerdict
  <2>2. t \notin outdated => ~Owned
    <3>1. CASE file.written
      BY <1>3, <2>1, <3>1 DEF DeadInv, Owned, Owning
    <3>2. CASE ~file.written
      BY <1>0, <2>1, <3>2 DEF Sound, ReadInv
    <3> QED
      BY <3>1, <3>2
  <2>3. \A u \in Task : pc'[u] \in Owning => pc[u] \in Owning /\ pc'[u] = pc[u]
    BY <1>0, <1>6 DEF Owning
  <2>4. Owned' => Owned
    BY <1>0, <2>3 DEF Owned, TypeOK, LockFile
  <2>5. FileInv' /\ OldInv'
    BY <1>0, <2>3, <2>4 DEF Sound, FileInv, OldInv
  <2>6. ReadInv'
    BY <1>0, <1>1, <1>2, <1>6, <2>4 DEF Sound, ReadInv
  <2>7. RemoveInv'
    BY <1>0, <1>2, <1>6, <2>2, <2>4 DEF Sound, RemoveInv
  <2> QED
    BY <2>5, <2>6, <2>7 DEF Sound
<1> QED
  BY <1>5, <1>6

\* A removal that leaves the history clean meets a file that nobody owns.
LEMMA RemovesSoundly ==
  ASSUME TypeOK, Sound, NEW t \in Task, RemoveStale(t), flaws' = {}
  PROVE  ~Owned
<1>1. file = NoFile \/ t \notin outdated
  BY DEF RemoveStale
<1> QED
  BY <1>1 DEF RemoveStale, At, Sound, RemoveInv, Owned

LEMMA AgesSoundly ==
  ASSUME TypeOK, TypeOK', DeadInv, Sound, Age, flaws' = {}
  PROVE  Sound'
<1>1. ~AtWork /\ UNCHANGED <<pc, outdated>>
  BY DEF Age
<1>2. file' = NoFile <=> file = NoFile
  BY TaskAssumption DEF Age, TypeOK, LockFile
<1>3. file # NoFile => file'.owner = file.owner /\ file'.written = file.written
  BY DEF Age, TypeOK, LockFile
<1>4. Owned' <=> Owned
  BY <1>1, <1>2, <1>3 DEF Owned
<1>5. Owned => file.written
  <2>1. SUFFICES ASSUME Owned PROVE file.written
    OBVIOUS
  <2>2. file.owner \in Task /\ pc[file.owner] \in Owning /\ Live(file.owner)
    BY <2>1, OneOwner DEF Sound, Owned
  <2>3. pc[file.owner] \in Holding
    BY <1>1, <2>2 DEF AtWork, Creating, Owning, Holding
  <2> QED
    BY <2>2, <2>3 DEF Sound, FileInv
<1>6. FileInv'
  BY <1>1, <1>2, <1>3 DEF Sound, FileInv
<1>7. OldInv' /\ ReadInv'
  BY <1>3, <1>4, <1>5 DEF OldInv, ReadInv, Owned
<1>8. RemoveInv'
  BY <1>1, <1>4 DEF Sound, RemoveInv
<1> QED
  BY <1>6, <1>7, <1>8 DEF Sound

LEMMA CrashesSoundly ==
  ASSUME TypeOK, TypeOK', Sound, NEW p \in Proc, Crash(p)
  PROVE  Sound'
<1>1. \A u \in Task : ProcOf[u] # p => pc'[u] = pc[u] /\ statOld'[u] = statOld[u]
  BY DEF Crash, TypeOK
<1>2. \A u \in Task : ProcOf[u] = p => pc'[u] = "dead"
  BY DEF Crash, TypeOK
<1>3. \A u \in Task : pc'[u] \in Owning \cup Recovering => ProcOf[u] # p /\ pc'[u] = pc[u]
  BY <1>1, <1>2 DEF Owning, Recovering
<1>4. UNCHANGED file /\ outdated' = {u \in outdated : ProcOf[u] # p}
  BY DEF Crash
<1>5. Owned' => Owned
  BY <1>3, <1>4 DEF Owned, TypeOK, LockFile
<1>6. FileInv' /\ OldInv'
  BY <1>3, <1>4, <1>5 DEF Sound, FileInv, OldInv
<1>7. ReadInv' /\ RemoveInv'
  BY <1>1, <1>3, <1>4, <1>5 DEF Sound, ReadInv, RemoveInv, Recovering
<1> QED
  BY <1>6, <1>7 DEF Sound

\* A step of a call keeps the file that of its owner, as long as the history is clean.
LEMMA CallsSoundly ==
  ASSUME OwnerInv, TypeOK', NEW t \in Task,
         EnterQueue(t) \/ Acquire(t) \/ Heartbeat(t) \/ Release(t) \/ Deadline(t), flaws' = {}
  PROVE  Sound'
<1>t. TypeOK /\ DeadInv /\ BeatInv
  BY DEF OwnerInv, QueueInv
<1>1. flaws = {}
  BY DEF EnterQueue, Acquire, TakeTurn, OpenExclusive, OpenRefused, WriteMetadata, WriteFails, CleanupCreate, Stat,
     ReadFile, RemoveStale, RecoveryFails, Retry, TimeOut, Heartbeat, HeartbeatCheck, HeartbeatRename, Release,
     StopHeartbeat, HeartbeatStopped, ReleaseCheck, ReleaseRemove, ReleaseFails, Deadline, Reject
<1>s. Sound
  BY <1>1 DEF OwnerInv
<1>2. CASE EnterQueue(t) \/ TakeTurn(t) \/ Retry(t)
  <2>1. /\ pc[t] \in {"idle", "queued", "blocked"} /\ pc'[t] \in {"queued", "create"}
        /\ \A u \in Task \ {t} : pc'[u] = pc[u]
        /\ UNCHANGED <<file, statOld, outdated>>
    BY <1>t, <1>2, MovesOne DEF EnterQueue, TakeTurn, Retry, At, recovery
  <2> QED
    BY <1>t, <1>s, <2>1, SoundForOthers DEF Owning, Recovering
<1>3. CASE TimeOut(t)
  <2>1. /\ pc[t] = "blocked" /\ pc'[t] = "late" /\ \A u \in Task \ {t} : pc'[u] = pc[u]
        /\ UNCHANGED <<file, statOld, outdated>>
    BY <1>t, <1>3, MovesOne DEF TimeOut, EndTurn, At, recovery
  <2> QED
    BY <1>t, <1>s, <2>1, SoundForOthers DEF Owning, Recovering
<1>4. CASE OpenRefused(t) \/ RecoveryFails(t)
  <2>1. /\ pc[t] \in {"create", "stat", "read", "remove"} /\ pc'[t] \in {"stat", "failed"}
        /\ \A u \in Task \ {t} : pc'[u] = pc[u] /\ statOld'[u] = statOld[u]
        /\ outdated \ {t} \subseteq outdated' /\ UNCHANGED file
    BY <1>t, <1>4, MovesOne, Rejects DEF OpenRefused, RecoveryFails, At, recovery
  <2> QED
    BY <1>t, <1>s, <2>1, SoundForOthers DEF Owning, Recovering
<1>5. CASE OpenExclusive(t) \/ WriteMetadata(t) \/ WriteFails(t) \/ CleanupCreate(t) \/ Stat(t) \/ ReadFile(t)
  BY <1>t, <1>s, <1>5, CreatesSoundly, WritesSoundly, CleansSoundly, StatsSoundly, ReadsSoundly
<1>6. CASE RemoveStale(t)
  <2>1. \A u \in Task : pc[u] \notin Owning
    BY <1>t, <1>s, <1>6, RemovesSoundly, Unowned DEF Sound
  <2>2. pc'[t] = "create" /\ \A u \in Task \ {t} : pc'[u] = pc[u]
    BY <1>t, <1>6, MovesOne DEF RemoveStale
  <2> QED
    BY <2>1, <2>2, SoundWithoutOwner DEF Owning
<1>7. CASE HeartbeatCheck(t) \/ Deadline(t)
  <2>1. UNCHANGED <<pc, file, statOld, outdated>>
    BY <1>7 DEF HeartbeatCheck, Deadline, recovery
  <2> QED
    BY <1>s, <2>1 DEF Sound, FileInv, OldInv, ReadInv, RemoveInv, Owned
<1>8. CASE HeartbeatRename(t)
  <2>1. pc[t] \in {"held", "stopping"} /\ UNCHANGED <<pc, statOld, outdated>>
    BY <1>t, <1>8 DEF HeartbeatRename, BeatInv, recovery
  <2>2. file' = file \/ file' = [owner |-> t, written |-> TRUE, old |-> FALSE]
    BY <1>8 DEF HeartbeatRename
  <2>3. file' = file \/ (file' # NoFile /\ file'.owner = t /\ file'.written)
    <3>1. [owner |-> t, written |-> TRUE, old |-> FALSE] # NoFile
      BY NewLockFile
    <3> QED
      BY <2>2, <3>1
  <2> QED
    BY <1>t, <1>s, <2>1, <2>3, SoundForOwner DEF Owning, Holding
<1>9. CASE StopHeartbeat(t) \/ HeartbeatStopped(t)
  <2>1. /\ pc[t] \in {"held", "stopping"} /\ pc'[t] \in {"stopping", "relRead"}
        /\ \A u \in Task \ {t} : pc'[u] = pc[u] /\ UNCHANGED <<file, statOld, outdated>>
    BY <1>t, <1>9, MovesOne DEF StopHeartbeat, HeartbeatStopped, At, recovery
  <2>2. UNCHANGED <<file, statOld, outdated>>
    BY <1>9 DEF StopHeartbeat, HeartbeatStopped, recovery
  <2> QED
    BY <1>t, <1>s, <2>1, <2>2, SoundForOwner DEF Owning, Holding
<1>10. CASE ReleaseCheck(t) /\ OwnFile(t)
  <2>1. /\ pc[t] = "relRead" /\ pc'[t] \in {"relRemove", "failed"}
        /\ \A u \in Task \ {t} : pc'[u] = pc[u]
    BY <1>t, <1>10, MovesOne DEF ReleaseCheck, EndTurn, At
  <2>2. UNCHANGED <<file, statOld, outdated>>
    BY <1>10 DEF ReleaseCheck, recovery
  <2>3. CASE pc'[t] = "relRemove"
    BY <1>t, <1>s, <2>1, <2>2, <2>3, SoundForOwner DEF Owning, Holding
  <2>4. CASE pc'[t] = "failed"
    BY <1>t, <1>s, <2>1, <2>4, SoundAfterOwner DEF Owning
  <2> QED
    BY <2>1, <2>3, <2>4
<1>11. CASE (ReleaseCheck(t) /\ ~OwnFile(t)) \/ ReleaseRemove(t) \/ ReleaseFails(t)
  <2>1. /\ pc[t] \in {"relRead", "relRemove"} /\ pc'[t] \in {"failed", "done"}
        /\ \A u \in Task \ {t} : pc'[u] = pc[u]
    BY <1>t, <1>11, MovesOne, Rejects DEF ReleaseCheck, ReleaseRemove, ReleaseFails, EndTurn, At
  <2> QED
    BY <1>t, <1>s, <2>1, SoundAfterOwner DEF Owning
<1> QED
  BY <1>2, <1>3, <1>4, <1>5, <1>6, <1>7, <1>8, <1>9, <1>10, <1>11 DEF Acquire, Heartbeat, Release

\* Heartbeats and deaths, whatever happened before.
LEMMA BeatsAndDeaths ==
  ASSUME TypeOK, BeatInv, DeadInv, [Next]_vars
  PROVE  BeatInv' /\ DeadInv'
<1>1. ASSUME NEW t \in Task, EnterQueue(t) \/ Acquire(t) \/ Release(t) \/ Heartbeat(t) \/ Deadline(t)
      PROVE  BeatInv' /\ DeadInv'
  <2>1. UNCHANGED alive /\ Live(t)
    BY <1>1 DEF EnterQueue, Acquire, TakeTurn, OpenExclusive, OpenRefused, WriteMetadata, WriteFails, CleanupCreate, Stat,
       ReadFile, RemoveStale, RecoveryFails, Retry, TimeOut, Heartbeat, HeartbeatCheck, HeartbeatRename, Release,
       StopHeartbeat, HeartbeatStopped, ReleaseCheck, ReleaseRemove, ReleaseFails, Deadline, Reject, At
  <2>2. \A u \in Task \ {t} : pc'[u] = pc[u] /\ beating'[u] = beating[u]
    BY <1>1 DEF TypeOK, EnterQueue, Acquire, TakeTurn, OpenExclusive, OpenRefused, WriteMetadata, WriteFails, CleanupCreate,
       Stat, ReadFile, RemoveStale, RecoveryFails, Retry, TimeOut, Heartbeat, HeartbeatCheck, HeartbeatRename, Release,
       StopHeartbeat, HeartbeatStopped, ReleaseCheck, ReleaseRemove, ReleaseFails, Deadline, Reject, EndTurn, Goto
  <2>3. beating'[t] => pc'[t] \in {"held", "stopping"}
    <3>1. CASE Heartbeat(t)
      BY <3>1 DEF Heartbeat, HeartbeatCheck, HeartbeatRename, At, TypeOK
    <3>2. CASE StopHeartbeat(t) \/ Deadline(t)
      BY <3>2 DEF StopHeartbeat, Deadline, Goto, TypeOK, BeatInv
    <3>3. CASE HeartbeatStopped(t)
      BY <3>3 DEF HeartbeatStopped
    <3>4. CASE ~Heartbeat(t) /\ ~StopHeartbeat(t) /\ ~HeartbeatStopped(t) /\ ~Deadline(t)
      <4>1. pc[t] \notin {"held", "stopping"}
        BY <1>1, <3>4 DEF EnterQueue, Acquire, TakeTurn, OpenExclusive, OpenRefused, WriteMetadata, WriteFails, CleanupCreate,
           Stat, ReadFile, RemoveStale, RecoveryFails, Retry, TimeOut, Release, ReleaseCheck, ReleaseRemove, ReleaseFails, At
      <4>2. UNCHANGED beating
        BY <1>1, <3>4 DEF EnterQueue, Acquire, TakeTurn, OpenExclusive, OpenRefused, WriteMetadata, WriteFails, CleanupCreate,
           Stat, ReadFile, RemoveStale, RecoveryFails, Retry, TimeOut, Release, ReleaseCheck, ReleaseRemove, ReleaseFails, Reject
      <4> QED
        BY <4>1, <4>2 DEF BeatInv
    <3> QED
      BY <3>1, <3>2, <3>3, <3>4
  <2> QED
    BY <2>1, <2>2, <2>3 DEF BeatInv, DeadInv, Live
<1>2. CASE Age
  BY <1>2 DEF Age, BeatInv, DeadInv, Live
<1>3. ASSUME NEW p \in Proc, Crash(p) PROVE BeatInv' /\ DeadInv'
  BY <1>3, TaskAssumption DEF Crash, TypeOK, BeatInv, DeadInv, Live
<1>4. CASE UNCHANGED vars
  BY <1>4 DEF vars, BeatInv, DeadInv, Live
<1> QED
  BY <1>1, <1>2, <1>3, <1>4 DEF Next

LEMMA OwnerInvStep == OwnerInv /\ [Next]_vars => OwnerInv'
<1> SUFFICES ASSUME OwnerInv, [Next]_vars PROVE OwnerInv'
  OBVIOUS
<1>1. QueueInv' /\ TypeOK' /\ TypeOK
  BY QueueInvStep DEF OwnerInv, QueueInv
<1>2. BeatInv' /\ DeadInv'
  BY <1>1, BeatsAndDeaths DEF OwnerInv
<1>3. ASSUME flaws' = {} PROVE Sound'
  <2>1. CASE Age
    <3>1. flaws = {}
      BY <1>3, <2>1 DEF Age
    <3> QED
      BY <1>1, <1>3, <2>1, <3>1, AgesSoundly DEF OwnerInv
  <2>2. ASSUME NEW p \in Proc, Crash(p) PROVE Sound'
    <3>1. flaws = {}
      BY <1>3, <2>2 DEF Crash
    <3> QED
      BY <1>1, <2>2, <3>1, CrashesSoundly DEF OwnerInv
  <2>3. ASSUME NEW t \in Task, EnterQueue(t) \/ Acquire(t) \/ Heartbeat(t) \/ Release(t) \/ Deadline(t)
        PROVE  Sound'
    BY <1>1, <1>3, <2>3, CallsSoundly
  <2>4. CASE UNCHANGED vars
    BY <1>3, <2>4 DEF vars, OwnerInv, Sound, FileInv, OldInv, ReadInv, RemoveInv, Owned
  <2> QED
    BY <2>1, <2>2, <2>3, <2>4 DEF Next
<1> QED
  BY <1>1, <1>2, <1>3 DEF OwnerInv

LEMMA OwnerInvHolds == Spec => []OwnerInv
  BY InitOwnerInv, OwnerInvStep, PTL DEF Spec

\* The lock excludes across any number of processes and calls, with crashes and failing
\* file operations, unless a recovery has removed a file other than the one it took the
\* stat of, or a creator was too slow: heartbeats, cleanups, releases and the verdict by
\* age and by pid are never what breaks it.
THEOREM LockExcludes == Spec => []MutualExclusion
<1>1. OwnerInv => MutualExclusion
  <2> SUFFICES ASSUME OwnerInv, flaws = {}, NEW t \in Task, NEW u \in Task, pc[t] \in Holding, pc[u] \in Holding
               PROVE  t = u
    BY DEF MutualExclusion
  <2> QED
    BY DEF OwnerInv, Sound, FileInv, Holding, Owning
<1> QED
  BY <1>1, OwnerInvHolds, PTL

LEMMA RightVerdicts ==
  ASSUME OwnerInv, NEW t \in Task, flaws' = {}, RemoveStale(t)
  PROVE  ~LiveOwnerFile
<1>1. flaws = {}
  BY DEF RemoveStale
<1>2. ~Owned
  BY <1>1, RemovesSoundly DEF OwnerInv, QueueInv
<1> QED
  BY <1>2 DEF Owned, LiveOwnerFile

\* For any processes and calls: a recovery that removes the file it took the stat of never
\* takes it from a living call that owns it, as long as creators are quick.
THEOREM RecoveryIsRight == Spec => VerdictsAreRight
<1>1. OwnerInv => [\A t \in Task : flaws' = {} /\ RemoveStale(t) => ~LiveOwnerFile]_vars
  BY RightVerdicts
<1> QED
  BY <1>1, OwnerInvHolds, PTL DEF VerdictsAreRight, VerdictsAreRightStep

\* What callers may rely on, for any processes and calls, any of which may die and any of
\* whose system calls may fail.
THEOREM LockIsSound == Spec => LockHolds
  BY LockExcludes, RecoveryIsRight, PTL DEF LockHolds
=============================================================================
