------------------------------ MODULE Scheduler ------------------------------
(***************************************************************************)
(* The event driven scheduler of the ECS world: enqueue wakes it, a tick   *)
(* runs passes of all systems until a pass changes nothing, the effects    *)
(* collected on the way are executed after each pass and after the tick,   *)
(* and stopAndDrain waits for quiescence.                                  *)
(*                                                                         *)
(* JavaScript runs to completion, so one action is the code between two    *)
(* points where the event loop may run something else: the setImmediate of *)
(* wake, the awaits inside a pass, the yield between two passes and the    *)
(* polling of stopAndDrain.  The version counter matters only through the  *)
(* comparison with its value at the start of the pass: "dirty".            *)
(***************************************************************************)
EXTENDS Naturals

CONSTANTS
  Event,       \* every event that may ever be enqueued, each at most once
  MaxIter      \* MAX_ITER: passes after which a tick gives up

ASSUME SchedulerAssumption == MaxIter \in Nat \ {0}

VARIABLES
  queue,      \* world queue: events enqueued and not drained
  handled,    \* events drained by some pass
  dirty,      \* world.version() differs from its value when the pass began
  guard,      \* passes of the current tick
  pc,         \* "idle", "pass" (systems running), "between" (yielded)
  running, scheduled, stopped,
  stopper,    \* the stopAndDrain call: "none", "draining", "done"
  disposed    \* dispose() was called

vars == <<queue, handled, dirty, guard, pc, running, scheduled, stopped, stopper, disposed>>

TypeOK ==
  /\ queue \in SUBSET Event
  /\ handled \in SUBSET Event
  /\ dirty \in BOOLEAN
  /\ guard \in 0..MaxIter
  /\ pc \in {"idle", "pass", "between"}
  /\ running \in BOOLEAN
  /\ scheduled \in BOOLEAN
  /\ stopped \in BOOLEAN
  /\ stopper \in {"none", "draining", "done"}
  /\ disposed \in BOOLEAN

Init ==
  /\ queue = {} /\ handled = {}
  /\ dirty = FALSE /\ guard = 0 /\ pc = "idle"
  /\ running = FALSE /\ scheduled = FALSE /\ stopped = FALSE
  /\ stopper = "none" /\ disposed = FALSE

Fresh == Event \ (queue \cup handled)

-----------------------------------------------------------------------------
(* world.enqueue and wake *)

\* Mutant: the tick does not look at the queue once more when it ends.
ScheduledAfterTickForgetful(pending) == FALSE

\* wake() when no tick is running any more.
ScheduledAfterTick(pending) == pending # {} /\ ~stopped

\* wake(): nothing once stopped; while a tick runs its loop will see the event.
ScheduledByWake ==
  IF stopped \/ scheduled \/ running THEN scheduled ELSE TRUE

\* An event from a capability, the webview or the application.
Enqueue(e) ==
  /\ e \in Fresh
  /\ queue' = queue \cup {e}
  /\ dirty' = TRUE
  /\ scheduled' = ScheduledByWake
  /\ UNCHANGED <<handled, guard, pc, running, stopped, stopper, disposed>>

-----------------------------------------------------------------------------
(* tick and runTick *)

\* version() is read and the queue drained before the first system runs.
BeginPass ==
  /\ dirty' = FALSE
  /\ handled' = handled \cup queue
  /\ queue' = {}
  /\ pc' = "pass"

\* The setImmediate callback of wake.
RunTask ==
  /\ scheduled
  /\ scheduled' = FALSE
  /\ \/ /\ stopped
        /\ UNCHANGED <<queue, handled, dirty, guard, pc, running>>
     \/ /\ ~stopped
        /\ running' = TRUE
        /\ guard' = 0
        /\ BeginPass
  /\ UNCHANGED <<stopped, stopper, disposed>>

\* A wave commits: the world changes and systems may enqueue events.
Commit ==
  /\ pc = "pass"
  /\ \E S \in SUBSET Fresh : queue' = queue \cup S
  /\ dirty' = TRUE
  /\ UNCHANGED <<handled, guard, pc, running, scheduled, stopped, stopper, disposed>>

\* afterPass executes the pass effects, which may emit events; then the loop
\* goes on if anything changed, at most MaxIter times.
ContinueTick ==
  /\ pc = "pass"
  /\ \E S \in SUBSET Fresh :
       /\ queue' = queue \cup S
       /\ dirty' = (dirty \/ S # {})
  /\ dirty'
  /\ guard + 1 < MaxIter
  /\ guard' = guard + 1
  /\ pc' = "between"
  /\ UNCHANGED <<handled, running, scheduled, stopped, stopper, disposed>>

NextPass ==
  /\ pc = "between"
  /\ BeginPass
  /\ UNCHANGED <<guard, running, scheduled, stopped, stopper, disposed>>

\* The fixpoint or MaxIter is reached: running is cleared, afterTick executes
\* the remaining effects, and what is pending now gets a tick of its own.
EndTick ==
  /\ pc = "pass"
  /\ \E S \in SUBSET Fresh :
       /\ ~(dirty \/ S # {}) \/ guard + 1 >= MaxIter
       /\ \E T \in SUBSET (Fresh \ S) :
            /\ queue' = queue \cup S \cup T
            /\ dirty' = (dirty \/ S # {} \/ T # {})
  /\ guard' = guard + 1
  /\ pc' = "idle"
  /\ running' = FALSE
  /\ scheduled' = ScheduledAfterTick(queue')
  /\ UNCHANGED <<handled, stopped, stopper, disposed>>

-----------------------------------------------------------------------------
(* stopAndDrain and dispose *)

StopAndDrain ==
  /\ stopper = "none"
  /\ stopper' = IF stopped THEN "done" ELSE "draining"
  /\ UNCHANGED <<queue, handled, dirty, guard, pc, running, scheduled, stopped, disposed>>

\* Mutant: the loop waits for the tick but not for a scheduled one.
QuiescentIgnoringTask == ~running

\* Mutant: the loop waits for a stable world, which MaxIter may never give it.
QuiescentWhenStable == ~running /\ ~scheduled /\ queue = {} /\ ~dirty

Quiescent == ~running /\ ~scheduled /\ queue = {}

\* One turn of the polling loop; it never looks at "stopped" again.
DrainPoll ==
  /\ stopper = "draining"
  /\ \/ /\ Quiescent
        /\ stopped' = TRUE
        /\ stopper' = "done"
        /\ UNCHANGED scheduled
     \/ /\ ~running /\ ~scheduled /\ queue # {}
        /\ scheduled' = ScheduledByWake
        /\ UNCHANGED <<stopped, stopper>>
  /\ UNCHANGED <<queue, handled, dirty, guard, pc, running, disposed>>

Dispose ==
  /\ stopped' = TRUE
  /\ disposed' = TRUE
  /\ UNCHANGED <<queue, handled, dirty, guard, pc, running, scheduled, stopper>>

-----------------------------------------------------------------------------

TickStep == RunTask \/ ContinueTick \/ NextPass \/ EndTick

Next ==
  \/ \E e \in Event : Enqueue(e)
  \/ TickStep \/ Commit
  \/ StopAndDrain \/ DrainPoll \/ Dispose

Spec == Init /\ [][Next]_vars

\* setImmediate callbacks run and every pass ends (systems are synchronous and
\* a worker answers or fails); nothing obliges anybody to enqueue or to stop.
Fairness ==
  /\ WF_vars(RunTask)
  /\ WF_vars(ContinueTick \/ EndTick)
  /\ WF_vars(NextPass)
  /\ WF_vars(DrainPoll)

FairSpec == Spec /\ Fairness

-----------------------------------------------------------------------------
(* Properties *)

\* runTick is not reentrant: the flags describe the loop, and no second tick
\* can be scheduled while one runs.
OneTick ==
  /\ running = (pc # "idle")
  /\ ~(running /\ scheduled)

\* No lost wake-up: as long as the scheduler is not stopped, a pending event
\* has a tick that runs or is scheduled, whatever the moment it was enqueued.
NoLostWake == queue # {} /\ ~stopped => running \/ scheduled

\* An idle, unstopped world is at a fixpoint of its systems unless the tick gave
\* up at MaxIter: no change is left that no pass has seen.
StableWhenIdle ==
  ~running /\ ~scheduled /\ ~stopped /\ guard < MaxIter => ~dirty

\* The tick loop as a whole: what a wake, a callback, a pass and the end of a
\* tick leave to one another.
LoopHolds == TypeOK /\ OneTick /\ NoLostWake /\ StableWhenIdle

\* stopAndDrain returns, unless dispose() interferes.
StopEnds == stopper = "draining" ~> (stopper = "done" \/ disposed)

\* Every event accepted before the scheduler stops reaches the systems exactly
\* once, and an orderly stop leaves none behind: Scheduler implements EventLoop.
Loop == INSTANCE EventLoop WITH
  pending <- queue, delivered <- handled, open <- ~stopped, abandoned <- disposed

EveryEventDelivered == Loop!LoopSpec
=============================================================================
