----------------------------- MODULE AgentRunLoop -----------------------------
(***************************************************************************)
(* The agent loop of one conversation: the systems that take the user's    *)
(* messages and commands, the answers of the model and the results of the  *)
(* tools through the ECS schedule, pass after pass.                        *)
(*                                                                         *)
(* A pass drains the event queue into a batch and runs the systems one     *)
(* after another over it (module Scheduler).  A system whose handlers take *)
(* events takes one action per event, on the draft, and one that ends the  *)
(* system and commits the draft; every handler reads the committed world.  *)
(* Events come in between passes: JavaScript runs to completion, and what  *)
(* arrives while a pass awaits is drained by the next pass.                *)
(***************************************************************************)
EXTENDS AgentRunWorld, Sequences

CONSTANTS UserKinds,   \* the kinds of commands a user gives
          MaxOps,      \* how many commands that create no run
          SendsAtOnce, \* how many messages may wait in the event queue at once
          Unloaded,    \* the values of "the context is not in memory" to start from
          MaxCompress  \* how many compressions block the conversation

ASSUME BudgetAssumption == MaxOps \in Nat /\ SendsAtOnce \in Nat /\ MaxCompress \in Nat
ASSUME UnloadedAssumption == Unloaded \subseteq BOOLEAN

VARIABLES
  world,       \* the committed world
  draft,       \* the world with the commands of the running system
  phase,       \* the system that runs, or "idle" between passes
  batch,       \* the events of the pass that no handler has taken yet
  pending,     \* the event queue
  dirty,       \* the world changed since the last pass began
  loaded,      \* the conversation's full context is in memory
  compressing, \* a compression blocks the conversation
  resolving,   \* invocations the provider is asked to resolve, as <<run, number>>
  streaming,   \* requests a provider's stream is live for
  spent        \* what the environment has used of its budgets

vars == <<world, draft, phase, batch, pending, dirty, loaded, compressing,
          resolving, streaming, spent>>

Phases == <<"toolDispatch", "toolPoll", "toolResult", "input", "assembly", "llmDispatch",
            "llmPoll", "lifecycle", "queue", "delivery">>
System == {Phases[i] : i \in 1..Len(Phases)}
After(p) == LET i == CHOOSE j \in 1..Len(Phases) : Phases[j] = p
            IN IF i = Len(Phases) THEN "idle" ELSE Phases[i + 1]

\* The lifecycle system reads its kinds of events one after another, in this order.
LifecycleOrder == <<"cancel", "cancelConversation", "promote", "reorder", "remove", "pauseQueue",
                    "resumeQueue", "resumeAll", "stale", "pause", "resume", "retry">>
LifecycleKind == {LifecycleOrder[i] : i \in 1..Len(LifecycleOrder)}
Rank(kind) == CHOOSE i \in 1..Len(LifecycleOrder) : LifecycleOrder[i] = kind

Kind == LifecycleKind \cup {"send", "toolCancel", "toolState", "resolved", "resolveError",
                            "toolCall", "done", "error"}
ConversationKind == {"cancelConversation", "resumeAll", "send", "toolCancel", "toolState"}
\* run is 0 for events of the conversation; no numbers an invocation, a tool call or a message.
Event == [kind: ConversationKind, run: {0}, no: Nat]
         \cup [kind: Kind \ ConversationKind, run: Run, no: Nat]
Ev(kind, run, no) == [kind |-> kind, run |-> run, no |-> no]
Of(kinds) == {e \in batch : e.kind \in kinds}

Init ==
  /\ world = EmptyWorld /\ draft = EmptyWorld
  /\ phase = "idle" /\ batch = {} /\ pending = {} /\ dirty = FALSE
  /\ loaded \in {~u : u \in Unloaded} /\ compressing = FALSE
  /\ resolving = {} /\ streaming = {}
  /\ spent = [spawns |-> 0, ops |-> 0, calls |-> 0, compress |-> 0]

external == <<loaded, compressing, spent>>

BeginPass ==
  /\ phase = "idle"
  /\ dirty \/ pending # {}
  /\ phase' = Phases[1] /\ batch' = pending /\ pending' = {} /\ dirty' = FALSE
  /\ UNCHANGED <<world, draft, resolving, streaming, external>>

\* A handler takes event e and adds its commands to the draft.
Take(e, commands) ==
  /\ batch' = batch \ {e}
  /\ draft' = commands
  /\ UNCHANGED <<world, phase, pending, dirty, resolving, streaming, external>>

\* The running system ends with the commands of the draft and those given here.
Commit(commands) ==
  /\ world' = commands /\ draft' = commands
  /\ dirty' = (dirty \/ commands # world)
  /\ phase' = After(phase)
  /\ UNCHANGED <<batch, pending, external>>

\* Requests whose run no longer has them are aborted at the provider; effects are flushed after
\* every pass, in the order they were emitted, before the provider can answer.
Live(w) == {<<r, w.call[r]>> : r \in {q \in Run : w.stage[q] = "inflight"}}
EndSystem(commands) == Commit(commands) /\ UNCHANGED <<resolving, streaming>>

--------------------------------------------------------------------------------
(* ToolDispatchSystem and ToolPollSystem.                                  *)

\* The user interrupts a single tool call.
CancelTool ==
  /\ phase = "toolDispatch"
  /\ \E e \in Of({"toolCancel"}) :
       Take(e, IF OpenTool(world, e.no)
               THEN [draft EXCEPT !.toolStatus[e.no] = "interrupted"] ELSE draft)

\* Executing now: the run's first call that is not done with and, as long as they are parallel, those
\* after it.
InActiveBatch(w, t) ==
  \A b \in ToolsOf(w, w.toolRun[t]), s \in ToolsOf(w, w.toolRun[t]) :
    b < t /\ b <= s /\ s <= t /\ ~(DoneTool(w, b) /\ b \in w.consumed) => s \in Parallel

\* A forbidden call is rejected at once; an allowed one waits until the run waits for its tools.
DispatchedStatus(t) ==
  IF draft.toolStatus[t] # "queued" THEN draft.toolStatus[t]
  ELSE IF t \in Disallowed THEN "settled"
  ELSE IF world.status[world.toolRun[t]] = "waiting_tool" /\ InActiveBatch(world, t)
       THEN "executing" ELSE "queued"

ToolDispatch ==
  /\ phase = "toolDispatch" /\ Of({"toolCancel"}) = {}
  /\ EndSystem([draft EXCEPT !.toolStatus = [t \in Tool |-> DispatchedStatus(t)]])

\* A late result of a call that was interrupted meanwhile is ignored.
ToolState ==
  /\ phase = "toolPoll"
  /\ \E e \in Of({"toolState"}) :
       Take(e, IF world.toolStatus[e.no] = "executing"
               THEN [draft EXCEPT !.toolStatus[e.no] = "settled"] ELSE draft)

ToolPoll == phase = "toolPoll" /\ Of({"toolState"}) = {} /\ EndSystem(draft)

--------------------------------------------------------------------------------
(* ToolResultSystem.                                                       *)

Settling == {t \in Tool : /\ DoneTool(world, t) /\ t \notin world.consumed
                          /\ world.toolRun[t] \in ActiveRuns(world)}
PendingToolWork(r) ==
  \E t \in ToolsOf(world, r) : ~(DoneTool(world, t) /\ t \in world.consumed \cup Settling)

\* The calls of the latest model message were all interrupted by the user.
AllInterrupted(r) ==
  LET current == {t \in Tool : world.toolRun[t] = r /\ world.toolTurn[t] = world.turn[r]}
  IN current # {} /\ \A t \in current : world.toolStatus[t] = "interrupted"

\* Mutant: a run whose tools are done runs again without being marked for the model.
ToolResultUnmarked ==
  /\ phase = "toolResult"
  /\ LET ready == {r \in {world.toolRun[t] : t \in Settling} : ~PendingToolWork(r)}
         ended == {r \in ready : AllInterrupted(r)}
     IN EndSystem([draft EXCEPT
          !.consumed = @ \cup Settling,
          !.status = [r \in Run |-> IF r \in ended THEN "cancelled"
                                    ELSE IF r \in ready THEN "running" ELSE @[r]]])

ToolResult ==
  /\ phase = "toolResult"
  /\ LET ready == {r \in {world.toolRun[t] : t \in Settling} : ~PendingToolWork(r)}
         ended == {r \in ready : AllInterrupted(r)}
     IN EndSystem([draft EXCEPT
          !.consumed = @ \cup Settling,
          !.status = [r \in Run |-> IF r \in ended THEN "cancelled"
                                    ELSE IF r \in ready THEN "running" ELSE @[r]],
          !.needsModel = (@ \cup ready) \ ended])

--------------------------------------------------------------------------------
(* InputSystem.                                                            *)

\* A message goes to the model at once when the conversation rests, and into the queue otherwise.
Send ==
  /\ phase = "input"
  /\ \E e \in Of({"send"}), n \in Run :
       LET direct == ActiveRuns(world) = {} /\ ~compressing
           spawned == Spawn(draft, n, direct, ~direct, 0)
       IN /\ Fresh(draft, n)
          /\ Take(e, IF direct THEN [spawned EXCEPT !.copies[n] = 1] ELSE spawned)

Input == phase = "input" /\ Of({"send"}) = {} /\ EndSystem(draft)

--------------------------------------------------------------------------------
(* ContextAssemblySystem.                                                  *)

InvocationOf(e) == world.stage[e.run] = "resolving" /\ world.call[e.run] = e.no

\* The resolved invocation gets its model message and its request, unless the run has ended.
InvocationResolved ==
  /\ phase = "assembly"
  /\ \E e \in Of({"resolved"}) :
       Take(e, IF ~InvocationOf(e) THEN draft
               ELSE IF ~Active(world, e.run) THEN [draft EXCEPT !.stage[e.run] = "none"]
               ELSE [draft EXCEPT !.stage[e.run] = "ready", !.turn[e.run] = e.no])

\* Mutant: a run that has ended meanwhile fails all the same.
InvocationResolveErrorUnguarded ==
  /\ phase = "assembly"
  /\ \E e \in Of({"resolveError"}) :
       Take(e, IF ~InvocationOf(e) THEN draft
               ELSE [draft EXCEPT !.stage[e.run] = "none", !.status[e.run] = "failed"])

InvocationResolveError ==
  /\ phase = "assembly"
  /\ \E e \in Of({"resolveError"}) :
       Take(e, IF ~InvocationOf(e) THEN draft
               ELSE IF ~Active(world, e.run) THEN [draft EXCEPT !.stage[e.run] = "none"]
               ELSE [draft EXCEPT !.stage[e.run] = "none", !.status[e.run] = "failed"])

\* The runs that start a model call in this pass.
Starting ==
  {r \in world.needsModel : loaded /\ ~compressing /\ world.stage[r] = "none"}

\* Every starting run draws in the waiting runs' inputs; a run that starts nothing because a call
\* of its own is under way loses its mark, one that waits for the context is preparing.
Assemble(d) ==
  LET drained == IF Starting = {} THEN {} ELSE Waiting(world) \cap world.input
      merged == Merge(world, Materialize(world, d, drained, Cardinality(Starting)), drained)
      unloadedRuns == {r \in world.needsModel : ~loaded /\ world.stage[r] = "none"}
  IN [merged EXCEPT
        !.status = [r \in Run |->
           IF r \in Starting /\ world.status[r] \in {"queued", "preparing"} THEN "running"
           ELSE IF r \in unloadedRuns /\ world.status[r] = "queued" THEN "preparing" ELSE @[r]],
        !.stage = [r \in Run |-> IF r \in Starting THEN "resolving" ELSE @[r]],
        !.call = [r \in Run |-> IF r \in Starting THEN @[r] + 1 ELSE @[r]],
        !.needsModel = @ \ (Starting \cup {r \in Run : world.stage[r] # "none"})]

ContextAssembly ==
  /\ phase = "assembly" /\ Of({"resolved", "resolveError"}) = {}
  /\ Commit(Assemble(draft))
  /\ resolving' = resolving \cup {<<r, world.call[r] + 1>> : r \in Starting}
  /\ UNCHANGED streaming

--------------------------------------------------------------------------------
(* LlmDispatchSystem and LlmPollSystem.                                    *)

\* Every request that waits is sent, whatever became of its run.
LlmDispatch ==
  /\ phase = "llmDispatch"
  /\ LET sent == IF compressing THEN {} ELSE {r \in Run : world.stage[r] = "ready"}
     IN /\ Commit([draft EXCEPT !.stage =
                     [r \in Run |-> IF r \in sent THEN "inflight" ELSE @[r]]])
        /\ streaming' = streaming \cup {<<r, world.call[r]>> : r \in sent}
        /\ UNCHANGED resolving

\* The answers of the batch for request c of run r, handled together.
Answers(r, c) == {e \in Of({"toolCall", "done", "error"}) : e.run = r /\ e.no = c}

NewTool(d, t) == d.toolStatus[t] = "none" /\ \A s \in Tool : s < t => d.toolStatus[s] # "none"

WithToolCall(d, t, r, c) ==
  [d EXCEPT !.toolStatus[t] = "queued", !.toolRun[t] = r, !.toolTurn[t] = c]

Finished(d, r, c, kinds) ==
  LET waitsForTool == \E t \in Tool : d.toolRun[t] = r /\ d.toolTurn[t] = c
  IN IF kinds \cap {"done", "error"} = {} THEN d
     ELSE [d EXCEPT !.stage[r] = "none",
                    !.status[r] = IF "error" \in kinds THEN "failed"
                                  ELSE IF waitsForTool THEN "waiting_tool" ELSE "delivering"]

\* Answers for a run that has ended or is paused are dropped; only the request is put away.
LlmUpdate ==
  /\ phase = "llmPoll"
  /\ \E e \in Of({"toolCall", "done", "error"}) :
       LET r == e.run
           c == e.no
           kinds == {a.kind : a \in Answers(r, c)}
           known == HasRequest(world, r) /\ world.call[r] = c
           deaf == ~Active(world, r) \/ world.status[r] = "paused"
       IN /\ batch' = batch \ Answers(r, c)
          /\ \/ /\ ~known /\ draft' = draft
             \/ /\ known /\ deaf
                /\ draft' = IF kinds \cap {"done", "error"} = {} THEN draft
                            ELSE [draft EXCEPT !.stage[r] = "none"]
             \/ /\ known /\ ~deaf /\ "toolCall" \notin kinds
                /\ draft' = Finished(draft, r, c, kinds)
             \/ /\ known /\ ~deaf /\ "toolCall" \in kinds
                /\ \E t \in Tool : /\ NewTool(draft, t)
                                   /\ draft' = Finished(WithToolCall(draft, t, r, c), r, c, kinds)
          /\ UNCHANGED <<world, phase, pending, dirty, resolving, streaming, external>>

LlmPoll ==
  phase = "llmPoll" /\ Of({"toolCall", "done", "error"}) = {} /\ EndSystem(draft)

--------------------------------------------------------------------------------
(* AgentRunLifecycleSystem.                                                *)

\* The next event of this kind: no event of a kind that comes earlier is left.
NextOf(kind) ==
  {e \in Of({kind}) : phase = "lifecycle" /\ \A f \in Of(LifecycleKind) : Rank(kind) <= Rank(f.kind)}

Cancel ==
  \E e \in NextOf("cancel") :
    Take(e, Terminate(world, draft, Family(world, e.run), "cancelled", Backgrounded(world)))

CancelConversation ==
  \E e \in NextOf("cancelConversation") :
    Take(e, Terminate(world, draft, ActiveRuns(world), "cancelled", Backgrounded(world)))

\* The runs a promotion of r cancels: all that are active, except those that only wait.
Displaced(r) ==
  {q \in ActiveRuns(world) \ {r} : world.status[q] = "queued" => q \in world.needsModel}

\* The promoted run goes to the front of the queue, which takes it up when the others are gone.
PromoteCommands(r, first) ==
  LET cleared == Terminate(world, draft, Displaced(r), "cancelled", Backgrounded(world))
  IN [Release(world, cleared, {r}) EXCEPT !.order[r] = first - 1]

Promote ==
  \E e \in NextOf("promote") :
    \/ /\ e.run \in Queued(world)
       /\ \E first \in {world.order[q] : q \in Queued(world)} :
            /\ \A q \in Queued(world) : first <= world.order[q]
            /\ Take(e, PromoteCommands(e.run, first))
    \/ e.run \notin Queued(world) /\ Take(e, draft)

\* The place of queued run q when the user moves r to the front.
Place(q, r) ==
  1 + Cardinality({p \in Queued(world) \ {q} : p = r \/ (q # r /\ QueuedBefore(world, p, q))})

Reorder ==
  \E e \in NextOf("reorder") :
    Take(e, [draft EXCEPT !.order = [q \in Run |-> IF q \in Queued(world) THEN Place(q, e.run)
                                                   ELSE @[q]]])

RemoveQueued ==
  \E e \in NextOf("remove") :
    Take(e, Terminate(world, draft, {e.run} \cap Queued(world), "cancelled", Backgrounded(world)))

HoldQueued ==
  \E e \in NextOf("pauseQueue") :
    Take(e, [draft EXCEPT !.held = @ \cup ({e.run} \cap Queued(world))])

ReleaseQueued ==
  \E e \in NextOf("resumeQueue") : Take(e, Release(world, draft, {e.run} \cap Queued(world)))

ReleaseAll ==
  \E e \in NextOf("resumeAll") : Take(e, Release(world, draft, Queued(world)))

MarkStale ==
  \E e \in NextOf("stale") : Take(e, Terminate(world, draft, {e.run}, "stale", {}))

Pause ==
  \E e \in NextOf("pause") :
    Take(e, IF Active(world, e.run) /\ world.status[e.run] # "paused"
            THEN DropRequests(world, [draft EXCEPT !.status[e.run] = "paused"], {e.run})
            ELSE draft)

Resume ==
  \E e \in NextOf("resume") :
    Take(e, IF world.status[e.run] = "paused"
            THEN [draft EXCEPT !.status[e.run] = "running", !.needsModel = @ \cup {e.run}]
            ELSE draft)

\* The run ends, if it has not, and a new one goes to the model, whatever else is active.
Retry ==
  \E e \in NextOf("retry"), n \in Run :
    /\ Fresh(draft, n)
    /\ Take(e, Spawn(Terminate(world, draft, {e.run}, "cancelled", {}), n, TRUE, FALSE, e.run))

LifecycleHandler ==
  \/ Cancel \/ CancelConversation \/ Promote \/ Reorder \/ RemoveQueued \/ HoldQueued
  \/ ReleaseQueued \/ ReleaseAll \/ MarkStale \/ Pause \/ Resume \/ Retry

\* The streams whose requests were dropped are aborted.
Lifecycle ==
  /\ phase = "lifecycle" /\ Of(LifecycleKind) = {}
  /\ Commit(draft)
  /\ streaming' = streaming \ (Live(world) \ Live(draft))
  /\ UNCHANGED resolving

--------------------------------------------------------------------------------
(* AgentRunQueueSystem and AgentRunDeliverySystem.                         *)

\* Mutant: only the activated run's own input is put into the conversation.
ActivateAlone(r) ==
  LET merged == Merge(world, Materialize(world, draft, {r}, 1), Waiting(world) \ {r})
  IN [merged EXCEPT !.status[r] = "preparing", !.needsModel = @ \cup {r}]

\* Mutant: only the merged runs' inputs are put into the conversation.
ActivateForOthers(r) ==
  LET others == Waiting(world) \ {r}
      merged == Merge(world, Materialize(world, draft, others, 1), others)
  IN [merged EXCEPT !.status[r] = "preparing", !.needsModel = @ \cup {r}]

\* The waiting run whose turn it is takes the inputs of all waiting runs and goes to the model.
Activate(r) ==
  LET merged == Merge(world, Materialize(world, draft, Waiting(world), 1), Waiting(world) \ {r})
  IN [merged EXCEPT !.status[r] = "preparing", !.needsModel = @ \cup {r}]

CanActivate(r) ==
  /\ r \in Waiting(world) /\ ~compressing
  /\ \A q \in Run : ~Blocks(world, q, r)

Queue ==
  /\ phase = "queue"
  /\ \/ \E r \in Run : CanActivate(r) /\ EndSystem(Activate(r))
     \/ (\A r \in Run : ~CanActivate(r)) /\ EndSystem(draft)

Delivery ==
  /\ phase = "delivery"
  /\ EndSystem([draft EXCEPT !.status =
                  [r \in Run |-> IF world.status[r] = "delivering" THEN "completed" ELSE @[r]]])

--------------------------------------------------------------------------------
(* The environment: users, the model provider, the tools, the storage.     *)

Enqueue(events) == phase = "idle" /\ pending' = pending \cup events
calm == <<world, draft, phase, batch, dirty>>

UserSends ==
  /\ spent.spawns < MaxRuns
  /\ Cardinality({e \in pending : e.kind = "send"}) < SendsAtOnce
  /\ Enqueue({Ev("send", 0, spent.spawns)})
  /\ spent' = [spent EXCEPT !.spawns = @ + 1]
  /\ UNCHANGED <<calm, loaded, compressing, resolving, streaming>>

UserRetries ==
  /\ "retry" \in UserKinds /\ spent.spawns < MaxRuns
  /\ \E r \in Run : /\ world.status[r] # "none" /\ Ev("retry", r, 0) \notin pending
                    /\ Enqueue({Ev("retry", r, 0)})
  /\ spent' = [spent EXCEPT !.spawns = @ + 1]
  /\ UNCHANGED <<calm, loaded, compressing, resolving, streaming>>

\* What the router checks of a command when it arrives, which is not when it is handled.
Accepts(kind, r) ==
  /\ world.status[r] # "none"
  /\ kind \in {"cancel", "pause", "stale"} => Active(world, r)
  /\ kind \in {"promote", "remove", "pauseQueue", "resumeQueue", "reorder"} =>
       world.status[r] = "queued"

UserCommand(kind) ==
  /\ kind \in UserKinds /\ spent.ops < MaxOps
  /\ \/ /\ kind \in {"cancelConversation", "resumeAll"} /\ Ev(kind, 0, 0) \notin pending
        /\ Enqueue({Ev(kind, 0, 0)})
     \/ /\ kind = "toolCancel"
        /\ \E t \in Tool : /\ OpenTool(world, t) /\ Ev(kind, 0, t) \notin pending
                          /\ Enqueue({Ev(kind, 0, t)})
     \/ /\ kind \in LifecycleKind \ {"cancelConversation", "resumeAll", "retry"}
        /\ \E r \in Run : /\ Accepts(kind, r) /\ Ev(kind, r, 0) \notin pending
                         /\ Enqueue({Ev(kind, r, 0)})
  /\ spent' = [spent EXCEPT !.ops = @ + 1]
  /\ UNCHANGED <<calm, loaded, compressing, resolving, streaming>>

ProviderResolves ==
  /\ \E i \in resolving, kind \in {"resolved", "resolveError"} :
       /\ Enqueue({Ev(kind, i[1], i[2])})
       /\ resolving' = resolving \ {i}
  /\ UNCHANGED <<calm, external, streaming>>

\* One call per event; a message of the model can ask for several, in several events.
ProviderCallsTool ==
  /\ spent.calls < MaxTools
  /\ \E i \in streaming : /\ Ev("toolCall", i[1], i[2]) \notin pending
                          /\ Enqueue({Ev("toolCall", i[1], i[2])})
  /\ spent' = [spent EXCEPT !.calls = @ + 1]
  /\ UNCHANGED <<calm, loaded, compressing, resolving, streaming>>

ProviderFinishes ==
  /\ \E i \in streaming, kind \in {"done", "error"} :
       /\ Enqueue({Ev(kind, i[1], i[2])})
       /\ streaming' = streaming \ {i}
  /\ UNCHANGED <<calm, external, resolving>>

ToolEnds ==
  /\ \E t \in Tool : /\ world.toolStatus[t] = "executing" /\ Ev("toolState", 0, t) \notin pending
                     /\ Enqueue({Ev("toolState", 0, t)})
  /\ UNCHANGED <<calm, external, resolving, streaming>>

ContextLoads ==
  /\ phase = "idle" /\ ~loaded /\ world.needsModel # {}
  /\ loaded' = TRUE /\ dirty' = TRUE
  /\ UNCHANGED <<world, draft, phase, batch, pending, compressing, resolving, streaming, spent>>

CompressionBegins ==
  /\ phase = "idle" /\ ~compressing /\ spent.compress < MaxCompress
  /\ compressing' = TRUE /\ spent' = [spent EXCEPT !.compress = @ + 1]
  /\ UNCHANGED <<calm, pending, loaded, resolving, streaming>>

CompressionEnds ==
  /\ phase = "idle" /\ compressing
  /\ compressing' = FALSE /\ dirty' = TRUE
  /\ UNCHANGED <<world, draft, phase, batch, pending, loaded, resolving, streaming, spent>>

--------------------------------------------------------------------------------
SystemStep ==
  \/ BeginPass \/ CancelTool \/ ToolDispatch \/ ToolState \/ ToolPoll \/ ToolResult
  \/ Send \/ Input \/ InvocationResolved \/ InvocationResolveError \/ ContextAssembly
  \/ LlmDispatch \/ LlmUpdate \/ LlmPoll \/ LifecycleHandler \/ Lifecycle \/ Queue \/ Delivery

\* What the program waits for and will happen.
Answer ==
  ProviderResolves \/ ProviderFinishes \/ ToolEnds \/ ContextLoads \/ CompressionEnds

Environment ==
  \/ Answer \/ UserSends \/ UserRetries \/ ProviderCallsTool \/ CompressionBegins
  \/ \E kind \in UserKinds : UserCommand(kind)

Next == SystemStep \/ Environment
Spec == Init /\ [][Next]_vars
FairSpec == Spec /\ WF_vars(SystemStep) /\ WF_vars(ProviderResolves) /\ WF_vars(ProviderFinishes)
                 /\ WF_vars(ToolEnds) /\ WF_vars(ContextLoads) /\ WF_vars(CompressionEnds)

--------------------------------------------------------------------------------
(* Properties.                                                             *)

\* Type invariant of the world, the draft and the events.
TypeOK ==
  /\ world \in World /\ draft \in World
  /\ phase \in System \cup {"idle"}
  /\ batch \subseteq Event /\ pending \subseteq Event
  /\ dirty \in BOOLEAN /\ loaded \in BOOLEAN /\ compressing \in BOOLEAN
  /\ resolving \subseteq Run \X Nat /\ streaming \subseteq Run \X Nat
  /\ spent \in [spawns: Nat, ops: Nat, calls: Nat, compress: Nat]

\* A run that has completed, failed, been cancelled or gone stale keeps that status, although ten
\* systems write it from what they read at their start, and late answers and commands arrive.
EndedStaysEnded ==
  [][\A r \in Run : world.status[r] \in Terminal => world'.status[r] = world.status[r]]_vars

\* Between passes a live stream of the provider belongs to an active run that still expects it: no
\* command, pause or end of a run leaves a request running that nobody reads.
NoOrphanStream ==
  phase = "idle" => \A i \in streaming :
    /\ Active(world, i[1])
    /\ world.stage[i[1]] = "inflight" /\ world.call[i[1]] = i[2]

\* The runs of a conversation call the model one after another: no two streams are live at once.
OneStream == phase = "idle" => Cardinality(streaming) <= 1

\* No message is put into the conversation twice, even when several runs draw in what waits.
InputOnce == \A r \in Run : world.copies[r] <= 1

\* A queued message leaves the queue only by entering the conversation or with its run being ended
\* by the user; merging runs and starting them loses none.
InputNotLost ==
  [][\A r \in world.input \ world'.input :
       \/ world'.copies[r] = world.copies[r] + 1
       \/ phase = "lifecycle" /\ world'.status[r] \in {"cancelled", "stale"}]_vars

\* A run asks the model only when the message it was created for is in the conversation.
InputBeforeCall == \A r \in Run : world.stage[r] # "none" => r \notin world.input

\* A message enters the conversation once, and before its run asks the model.
InputInOrder == InputOnce /\ InputBeforeCall

\* Between passes a run that has ended waits for nothing: no mark for the model, no queued message,
\* and, if it was cancelled or went stale, no call the model is owed an answer for, background
\* work excepted.
EndedRunsAreClosed ==
  phase = "idle" => \A r \in Run : world.status[r] \in {"cancelled", "stale"} =>
    /\ r \notin world.needsModel \cup world.input
    /\ \A t \in ToolsOf(world, r) \ Background : t \in world.consumed

\* A queued run that is not held starts or ends, unless a paused run keeps the conversation.
QueueMoves ==
  \A r \in Run : []<>(\/ world.status[r] # "queued" \/ r \in world.held
                        \/ \E q \in Run : world.status[q] = "paused")

\* A run that has started ends or is paused: none waits for a call or a tool that will not come.
RunsEnd ==
  \A r \in Run : []<>(world.status[r] \in Terminal \cup {"none", "queued", "paused"})

\* The result of a tool call the user interrupted goes back to the model while its run lives: the
\* run does not stay waiting for its tools when the results of all of them are in.
\* TLC refutes it: section 6 of the README says how.
ResultsReturned ==
  \A t \in Tool, r \in Run :
    []<>~(/\ world.toolStatus[t] = "interrupted" /\ world.toolRun[t] = r
          /\ world.status[r] = "waiting_tool" /\ ToolsOf(world, r) \subseteq world.consumed)
================================================================================
