------------------------------ MODULE WorkerPool ------------------------------
(***************************************************************************)
(* The pool of worker threads that run systems beside the main thread       *)
(* (ecs/SystemWorkerPool.ts).  A job waits in a queue until a worker is     *)
(* idle or another may be created; its answer arrives as a message.  A      *)
(* worker that fails, exits or answers out of turn is given up with its     *)
(* job, and what it still says is not listened to.                          *)
(***************************************************************************)
EXTENDS Naturals, Sequences, FiniteSets

CONSTANTS Jobs,        \* the jobs, 1..n in the order they are submitted
          Slots,       \* the workers ever created, 1..n in that order
          MaxSize,     \* how many of them the pool holds at a time
          MaxNoise     \* bounds messages that answer no running job

VARIABLES
  waiting,     \* the queue of jobs
  slots,       \* the workers in the pool, in the order of their creation
  idle,        \* the stack of idle workers
  current,     \* of each worker, the job it was given, or 0
  closed,      \* workers that were given up
  created,     \* how many were created
  outcome,     \* of each job: "new", "queued", "running", "resolved", "rejected"
  messages,    \* of each worker, the answers that have not been received
  noise, disposed

vars == <<waiting, slots, idle, current, closed, created, outcome, messages, noise, disposed>>

Init ==
  /\ waiting = <<>> /\ slots = {} /\ idle = <<>> /\ closed = {} /\ created = 0
  /\ current = [s \in Slots |-> 0]
  /\ outcome = [j \in Jobs |-> "new"]
  /\ messages = [s \in Slots |-> <<>>]
  /\ noise = 0 /\ disposed = FALSE

Without(s, x) == SelectSeq(s, LAMBDA y : y # x)

\* takeIdleSlot: the last idle worker that is neither closed nor at work.
Usable(p) == {i \in DOMAIN p.idle : p.idle[i] \notin p.closed /\ p.current[p.idle[i]] = 0}
Last(S) == CHOOSE i \in S : \A k \in S : k <= i

\* createSlotIfAvailable.
Room(p) == Cardinality(p.slots) < MaxSize /\ p.created + 1 \in Slots

\* drain: jobs are started until there is no worker for the next one.  The pool is the record of
\* what changes; one round per job that waits.
Started(p, s) == [p EXCEPT !.current[s] = Head(p.waiting), !.outcome[Head(p.waiting)] = "running",
                           !.waiting = Tail(@)]
Step(p) ==
  IF p.waiting = <<>> THEN p
  ELSE IF Usable(p) # {}
    THEN Started([p EXCEPT !.idle = SubSeq(@, 1, Last(Usable(p)) - 1)], p.idle[Last(Usable(p))])
  ELSE IF Room(p)
    THEN Started([p EXCEPT !.idle = <<>>, !.created = @ + 1, !.slots = @ \cup {p.created + 1}],
                 p.created + 1)
  ELSE [p EXCEPT !.idle = <<>>]

Drain(p) ==
  LET round[n \in 0..Cardinality(Jobs)] == IF n = 0 THEN p ELSE Step(round[n - 1])
  IN  round[Cardinality(Jobs)]

Pool == [waiting |-> waiting, slots |-> slots, idle |-> idle, current |-> current,
         closed |-> closed, created |-> created, outcome |-> outcome]

Becomes(p) ==
  /\ waiting' = p.waiting /\ slots' = p.slots /\ idle' = p.idle /\ current' = p.current
  /\ closed' = p.closed /\ created' = p.created /\ outcome' = p.outcome

----------------------------------------------------------------------------
Run(j) ==
  /\ outcome[j] = "new" /\ \A k \in Jobs : k < j => outcome[k] # "new"
  /\ IF disposed
       THEN Becomes([Pool EXCEPT !.outcome[j] = "rejected"])
       ELSE Becomes(Drain([Pool EXCEPT !.waiting = Append(@, j), !.outcome[j] = "queued"]))
  /\ UNCHANGED <<messages, noise, disposed>>

\* The request cannot be posted to the worker it was meant for: the job is rejected, the worker
\* stays.  The job is one that drain has just started.
PostFails(j) ==
  /\ outcome[j] = "new" /\ \A k \in Jobs : k < j => outcome[k] # "new"
  /\ ~disposed
  /\ LET p == Drain([Pool EXCEPT !.waiting = Append(@, j), !.outcome[j] = "queued"])
         s == CHOOSE s \in Slots : p.current[s] = j
     IN  /\ p.outcome[j] = "running"
         /\ Becomes(Drain([p EXCEPT !.current[s] = 0, !.outcome[j] = "rejected",
                                    !.idle = Append(@, s)]))
  /\ UNCHANGED <<messages, noise, disposed>>

\* A worker has run its job and posts the answer.
Answers(s) ==
  /\ s \in slots /\ current[s] # 0 /\ messages[s] = <<>>
  /\ messages' = [messages EXCEPT ![s] = Append(@, current[s])]
  /\ UNCHANGED <<waiting, slots, idle, current, closed, created, outcome, noise, disposed>>

\* Or it posts something else: an answer to no job, or to one that is over.
Babbles(s) ==
  /\ s \in slots /\ noise < MaxNoise /\ noise' = noise + 1
  /\ messages' = [messages EXCEPT ![s] = Append(@, 0)]
  /\ UNCHANGED <<waiting, slots, idle, current, closed, created, outcome, disposed>>

\* Mutant: a worker that fails is taken out of the pool and nothing more.
FailedOnly(p, s) ==
  [p EXCEPT !.closed = @ \cup {s}, !.idle = Without(@, s), !.slots = @ \ {s}, !.current[s] = 0,
            !.outcome = IF p.current[s] = 0 THEN @ ELSE [@ EXCEPT ![p.current[s]] = "rejected"]]

\* failSlot.
Failed(p, s) ==
  IF s \in p.closed THEN p
  ELSE Drain([p EXCEPT !.closed = @ \cup {s}, !.idle = Without(@, s), !.slots = @ \ {s},
                       !.current[s] = 0,
                       !.outcome = IF p.current[s] = 0 THEN @
                                   ELSE [@ EXCEPT ![p.current[s]] = "rejected"]])

Expected(p, s, m) == p.current[s] # 0 /\ p.current[s] = m

\* handleMessage, also of a worker that has been given up since.
Receive(s) ==
  /\ messages[s] # <<>>
  /\ messages' = [messages EXCEPT ![s] = Tail(@)]
  /\ IF disposed THEN UNCHANGED <<waiting, slots, idle, current, closed, created, outcome>>
     ELSE IF Expected(Pool, s, Head(messages[s]))
       THEN Becomes(Drain([Pool EXCEPT !.current[s] = 0, !.outcome[current[s]] = "resolved",
                                       !.idle = IF s \in closed THEN @ ELSE Append(@, s)]))
       ELSE Becomes(Failed(Pool, s))
  /\ UNCHANGED <<noise, disposed>>

\* The thread fails or exits, at work or idle, before or after it has posted its answer.
Dies(s) ==
  /\ s \in slots /\ ~disposed
  /\ created < Cardinality(Slots)     \* bounds the threads
  /\ Becomes(Failed(Pool, s))
  /\ UNCHANGED <<messages, noise, disposed>>

Dispose ==
  /\ ~disposed /\ disposed' = TRUE
  /\ Becomes([Pool EXCEPT
       !.waiting = <<>>, !.idle = <<>>, !.slots = {}, !.closed = @ \cup slots,
       !.current = [s \in Slots |-> 0],
       !.outcome = [j \in Jobs |-> IF outcome[j] \in {"queued", "running"} THEN "rejected"
                                   ELSE outcome[j]]])
  /\ UNCHANGED <<messages, noise>>

Next ==
  \/ Dispose
  \/ \E j \in Jobs : Run(j) \/ PostFails(j)
  \/ \E s \in Slots : Answers(s) \/ Babbles(s) \/ Receive(s) \/ Dies(s)

Spec == Init /\ [][Next]_vars

----------------------------------------------------------------------------
(* What the pool keeps of its workers agrees: the idle ones are those of    *)
(* the pool that have no job, and a job runs on one worker, of the pool.    *)
TypeOK ==
  /\ slots \subseteq 1..created /\ Cardinality(slots) <= MaxSize /\ slots \cap closed = {}
  /\ \A i \in DOMAIN idle : idle[i] \in slots /\ current[idle[i]] = 0
  /\ \A i, k \in DOMAIN idle : idle[i] = idle[k] => i = k
  /\ \A s \in Slots : current[s] # 0 => s \in slots
  /\ \A j \in Jobs : outcome[j] = "running" <=>
       Cardinality({s \in Slots : current[s] = j}) = 1
  /\ \A j \in Jobs : outcome[j] = "queued" <=> \E i \in DOMAIN waiting : waiting[i] = j

(* No job waits while a worker could take it: every worker of a full pool   *)
(* is at work (drain after every message and every failure).                *)
NobodyWaitsForNothing ==
  waiting # <<>> =>
    /\ \A s \in slots : current[s] # 0
    /\ Cardinality(slots) = MaxSize \/ created = Cardinality(Slots)

SettledByItsAnswerStep ==
  \A j \in Jobs :
     /\ outcome[j] \in {"resolved", "rejected"} => outcome'[j] = outcome[j]
     /\ outcome[j] # "resolved" /\ outcome'[j] = "resolved" =>
          \E s \in Slots : current[s] = j /\ messages[s] # <<>> /\ Head(messages[s]) = j

(* The promise of a job is settled once, and resolved only by the answer    *)
(* its own worker has posted to it (handleMessage, failSlot, dispose).      *)
SettledByItsAnswer == [][SettledByItsAnswerStep]_vars

(* No job waits in vain and none is settled but by its own answer.          *)
JobsHeld == [](TypeOK /\ NobodyWaitsForNothing) /\ SettledByItsAnswer
=============================================================================
