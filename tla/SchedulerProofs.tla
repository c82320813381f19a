--------------------------- MODULE SchedulerProofs ---------------------------
(* Theorems about Scheduler, for any set of events and any pass limit. *)
EXTENDS Scheduler, TLAPS

\* A running tick has passes left.
PassesLeft == pc # "idle" => guard < MaxIter

SchedulerInv == TypeOK /\ OneTick /\ NoLostWake /\ StableWhenIdle /\ PassesLeft

LEMMA InitInv == Init => SchedulerInv
<1> SUFFICES ASSUME Init PROVE SchedulerInv
  OBVIOUS
<1>0. 0 \in 0..MaxIter /\ 0 < MaxIter
  BY SchedulerAssumption
<1>1. TypeOK
  BY <1>0, Zenon DEF Init, TypeOK
<1>2. OneTick
  BY DEF Init, OneTick
<1> QED
  BY <1>1, <1>2 DEF Init, SchedulerInv, NoLostWake, StableWhenIdle, PassesLeft

\* The flags, the queue and the loop stay consistent under every step.
LEMMA InvStep == SchedulerInv /\ [Next]_vars => SchedulerInv'
<1> SUFFICES ASSUME SchedulerInv, [Next]_vars PROVE SchedulerInv'
  OBVIOUS
<1> USE SchedulerAssumption DEF SchedulerInv, TypeOK, OneTick, NoLostWake, StableWhenIdle, PassesLeft
<1>1. ASSUME NEW e \in Event, Enqueue(e) PROVE SchedulerInv'
  <2>1. queue' \in SUBSET Event /\ scheduled' \in BOOLEAN
    BY <1>1 DEF Enqueue, ScheduledByWake
  <2>2. CASE stopped \/ scheduled \/ running
    BY <1>1, <2>1, <2>2 DEF Enqueue, ScheduledByWake
  <2>3. CASE ~(stopped \/ scheduled \/ running)
    BY <1>1, <2>1, <2>3 DEF Enqueue, ScheduledByWake
  <2> QED
    BY <2>2, <2>3
<1>2. CASE RunTask
  <2>1. CASE stopped
    BY <1>2, <2>1 DEF RunTask
  <2>2. CASE ~stopped
    <3>1. /\ scheduled' = FALSE /\ running' = TRUE /\ guard' = 0 /\ pc' = "pass"
          /\ queue' = {} /\ dirty' = FALSE /\ handled' \in SUBSET Event
      BY <1>2, <2>2 DEF RunTask, BeginPass
    <3>2. guard' \in 0..MaxIter /\ guard' < MaxIter
      BY <3>1
    <3> QED
      BY <1>2, <3>1, <3>2 DEF RunTask
  <2> QED
    BY <2>1, <2>2
<1>3. CASE ContinueTick
  <2>1. queue' \in SUBSET Event /\ dirty' \in BOOLEAN /\ guard' \in 0..MaxIter
    BY <1>3 DEF ContinueTick, Fresh
  <2> QED
    BY <1>3, <2>1 DEF ContinueTick
<1>4. CASE NextPass
  BY <1>4 DEF NextPass, BeginPass
<1>5. CASE EndTick
  <2>1. PICK S \in SUBSET Fresh, T \in SUBSET Fresh :
          /\ ~(dirty \/ S # {}) \/ guard + 1 >= MaxIter
          /\ queue' = queue \cup S \cup T
          /\ dirty' = (dirty \/ S # {} \/ T # {})
    BY <1>5 DEF EndTick
  <2>2. queue' \in SUBSET Event /\ dirty' \in BOOLEAN /\ scheduled' \in BOOLEAN
    BY <1>5, <2>1 DEF EndTick, Fresh, ScheduledAfterTick
  <2>3. guard' \in 0..MaxIter
    <3>1. guard < MaxIter
      BY <1>5 DEF EndTick
    <3> QED
      BY <1>5, <3>1 DEF EndTick
  <2>4. ~scheduled' /\ ~stopped' /\ guard' < MaxIter => ~dirty'
    BY <1>5, <2>1 DEF EndTick, ScheduledAfterTick
  <2> QED
    BY <1>5, <2>2, <2>3, <2>4 DEF EndTick, ScheduledAfterTick
<1>6. CASE Commit
  <2>1. queue' \in SUBSET Event
    BY <1>6 DEF Commit, Fresh
  <2> QED
    BY <1>6, <2>1 DEF Commit
<1>7. CASE StopAndDrain
  BY <1>7 DEF StopAndDrain
<1>8. CASE DrainPoll
  BY <1>8 DEF DrainPoll, Quiescent, ScheduledByWake
<1>9. CASE Dispose
  BY <1>9 DEF Dispose
<1>10. CASE UNCHANGED vars
  BY <1>10 DEF vars
<1> QED
  BY <1>1, <1>2, <1>3, <1>4, <1>5, <1>6, <1>7, <1>8, <1>9, <1>10 DEF Next, TickStep

\* Type correctness of the scheduler.
THEOREM TypeCorrect == Spec => []TypeOK
<1>1. SchedulerInv => TypeOK
  BY DEF SchedulerInv
<1> QED
  BY InitInv, InvStep, <1>1, PTL DEF Spec

\* wake never starts a second tick beside a running or scheduled one.
THEOREM TicksNeverOverlap == Spec => []OneTick
<1>1. SchedulerInv => OneTick
  BY DEF SchedulerInv
<1> QED
  BY InitInv, InvStep, <1>1, PTL DEF Spec

\* A pending event always has a tick that will drain it, at every interleaving
\* of enqueue with the tick, its effects, stopAndDrain and dispose.
THEOREM NoWakeIsLost == Spec => []NoLostWake
<1>1. SchedulerInv => NoLostWake
  BY DEF SchedulerInv
<1> QED
  BY InitInv, InvStep, <1>1, PTL DEF Spec

\* Whenever the scheduler rests without having hit MaxIter, the world is at a
\* fixpoint: no change happened that a later pass has not seen.
THEOREM RestsAtFixpoint == Spec => []StableWhenIdle
<1>1. SchedulerInv => StableWhenIdle
  BY DEF SchedulerInv
<1> QED
  BY InitInv, InvStep, <1>1, PTL DEF Spec

\* The loop as a whole, as the run checks it: its four parts follow from the one
\* invariant.
THEOREM LoopIsSound == Spec => []LoopHolds
<1>1. SchedulerInv => LoopHolds
  BY DEF SchedulerInv, LoopHolds
<1> QED
  BY InitInv, InvStep, <1>1, PTL DEF Spec

-----------------------------------------------------------------------------
(* Refinement: Scheduler implements EventLoop *)

\* Nothing runs once the scheduler is stopped in order.
StoppedIdle == stopped /\ ~disposed => pc = "idle"

LEMMA StoppedIdleStep ==
  SchedulerInv /\ StoppedIdle /\ [Next]_vars => StoppedIdle'
<1> SUFFICES ASSUME SchedulerInv, StoppedIdle, [Next]_vars PROVE StoppedIdle'
  OBVIOUS
<1> USE DEF StoppedIdle
<1>1. ASSUME NEW e \in Event, Enqueue(e) PROVE StoppedIdle'
  BY <1>1 DEF Enqueue
<1>2. CASE RunTask
  BY <1>2 DEF RunTask, BeginPass
<1>3. CASE ContinueTick
  BY <1>3 DEF ContinueTick
<1>4. CASE NextPass
  BY <1>4 DEF NextPass, BeginPass
<1>5. CASE EndTick
  BY <1>5 DEF EndTick
<1>6. CASE Commit
  BY <1>6 DEF Commit
<1>7. CASE StopAndDrain
  BY <1>7 DEF StopAndDrain
<1>8. CASE DrainPoll
  BY <1>8 DEF DrainPoll, Quiescent, SchedulerInv, OneTick
<1>9. CASE Dispose
  BY <1>9 DEF Dispose
<1>10. CASE UNCHANGED vars
  BY <1>10 DEF vars
<1> QED
  BY <1>1, <1>2, <1>3, <1>4, <1>5, <1>6, <1>7, <1>8, <1>9, <1>10 DEF Next, TickStep

LEMMA StepRefines ==
  ASSUME SchedulerInv, StoppedIdle, [Next]_vars
  PROVE  [Loop!LoopNext]_Loop!loopVars
<1> USE DEF Loop!LoopNext, Loop!loopVars, Loop!Accept, Loop!Deliver, Loop!DeliverLate,
            Loop!DeliverBatch, Loop!Close, Loop!Abandon, Fresh
<1>1. ASSUME NEW e \in Event, Enqueue(e) PROVE Loop!Accept
  <2>1. e \in Fresh /\ queue' = queue \cup {e} /\ UNCHANGED <<handled, stopped, disposed>>
    BY <1>1 DEF Enqueue
  <2>2. {e} \in SUBSET Fresh
    BY <2>1
  <2> QED
    BY <2>1, <2>2
<1>2. ASSUME BeginPass, ~stopped \/ disposed, UNCHANGED <<stopped, disposed>>
      PROVE  [Loop!LoopNext]_Loop!loopVars
  BY <1>2 DEF BeginPass
<1>3. CASE RunTask
  BY <1>2, <1>3 DEF RunTask
<1>4. CASE ContinueTick
  BY <1>4 DEF ContinueTick
<1>5. CASE NextPass
  <2>1. ~stopped \/ disposed
    BY <1>5 DEF NextPass, StoppedIdle
  <2> QED
    BY <1>2, <1>5, <2>1 DEF NextPass
<1>6. CASE EndTick
  <2>1. PICK S \in SUBSET Fresh, T \in SUBSET Fresh : queue' = queue \cup S \cup T
    BY <1>6 DEF EndTick
  <2>2. S \cup T \in SUBSET Fresh /\ queue' = queue \cup (S \cup T)
    BY <2>1
  <2> QED
    BY <1>6, <2>2 DEF EndTick
<1>7. CASE Commit
  BY <1>7 DEF Commit
<1>8. CASE StopAndDrain
  BY <1>8 DEF StopAndDrain
<1>9. CASE DrainPoll
  BY <1>9 DEF DrainPoll, Quiescent, SchedulerInv, TypeOK
<1>10. CASE Dispose
  BY <1>10 DEF Dispose
<1>11. CASE UNCHANGED vars
  BY <1>11 DEF vars
<1> QED
  BY <1>1, <1>3, <1>4, <1>5, <1>6, <1>7, <1>8, <1>9, <1>10, <1>11 DEF Next, TickStep

\* Every behaviour of the scheduler is one of EventLoop: an event is delivered
\* at most once, in one batch with everything pending, and unless dispose() is
\* called the loop closes only with an empty queue.
THEOREM ImplementsEventLoop == Spec => Loop!LoopSafety
<1>1. Init => StoppedIdle /\ Loop!LoopInit
  BY DEF Init, StoppedIdle, Loop!LoopInit
<1>2. SchedulerInv /\ StoppedIdle /\ [Next]_vars => [Loop!LoopNext]_Loop!loopVars
  BY StepRefines
<1> QED
  BY InitInv, InvStep, <1>1, <1>2, StoppedIdleStep, PTL DEF Spec, Loop!LoopSafety
=============================================================================
