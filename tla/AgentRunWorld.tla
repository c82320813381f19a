---------------------------- MODULE AgentRunWorld ----------------------------
(***************************************************************************)
(* The entities of one conversation that the agent loop works on, as one   *)
(* record, and what the systems' commands do to it.                        *)
(*                                                                         *)
(* A system reads the world as it was committed when the system started    *)
(* and emits commands that are applied, in the order they were emitted,    *)
(* when it ends.  Every operator that stands for commands therefore takes  *)
(* two worlds: w, the committed one the code reads, and d, the draft with  *)
(* the commands emitted so far.                                            *)
(***************************************************************************)
EXTENDS Integers, FiniteSets

CONSTANTS MaxRuns,     \* the runs of a behaviour are 1..MaxRuns, in order of creation
          MaxTools,    \* its tool calls are 1..MaxTools, in order of creation
          Disallowed,  \* the tool calls the run's tool policy forbids
          Parallel,    \* the tool calls that may execute beside one another (read-only tools)
          Background   \* the tool calls that are sent to the background when a user stops their run

ASSUME BoundsAssumption == MaxRuns \in Nat /\ MaxTools \in Nat
ASSUME ToolsAssumption ==
  Disallowed \subseteq 1..MaxTools /\ Parallel \subseteq 1..MaxTools /\ Background \subseteq 1..MaxTools

Run == 1..MaxRuns
Tool == 1..MaxTools

Terminal == {"completed", "failed", "cancelled", "stale"}
Status == Terminal \cup
          {"none", "queued", "preparing", "running", "waiting_tool", "delivering", "paused"}
Stage == {"none", "resolving", "ready", "inflight"}
ToolStatus == {"none", "queued", "executing", "settled", "interrupted"}

\* status, needsModel, held, input, order and parent are the components AgentRun,
\* AgentRunNeedsModel, AgentRunQueueHold, AgentRunQueuedInput, AgentRunQueueOrder and
\* AgentRunSourceLink of the runs. stage and call are the run's latest LlmInvocation with its
\* LlmRequest: "resolving" is an invocation without a request, "ready" a request that waits,
\* "inflight" one that was sent. turn is the invocation of the run's latest model message.
\* copies counts the messages put into the conversation for the input of a run.
World == [status: [Run -> Status], needsModel: SUBSET Run, held: SUBSET Run,
          input: SUBSET Run, order: [Run -> Int], parent: [Run -> 0..MaxRuns],
          stage: [Run -> Stage], call: [Run -> Nat], turn: [Run -> Nat], copies: [Run -> Nat],
          toolStatus: [Tool -> ToolStatus], toolRun: [Tool -> 0..MaxRuns],
          toolTurn: [Tool -> Nat], consumed: SUBSET Tool]

EmptyWorld ==
  [status |-> [r \in Run |-> "none"], needsModel |-> {}, held |-> {}, input |-> {},
   order |-> [r \in Run |-> 0], parent |-> [r \in Run |-> 0],
   stage |-> [r \in Run |-> "none"], call |-> [r \in Run |-> 0], turn |-> [r \in Run |-> 0],
   copies |-> [r \in Run |-> 0],
   toolStatus |-> [t \in Tool |-> "none"], toolRun |-> [t \in Tool |-> 0],
   toolTurn |-> [t \in Tool |-> 0], consumed |-> {}]

--------------------------------------------------------------------------------
(* Queries.                                                                *)

Active(w, r) == w.status[r] \notin Terminal \cup {"none"}
ActiveRuns(w) == {r \in Run : Active(w, r)}
HasRequest(w, r) == w.stage[r] \in {"ready", "inflight"}
ToolsOf(w, r) == {t \in Tool : w.toolRun[t] = r}
OpenTool(w, t) == w.toolStatus[t] \in {"queued", "executing"}
DoneTool(w, t) == w.toolStatus[t] \in {"settled", "interrupted"}

\* The queued runs an operation on the queue sees.
Queued(w) == {r \in Run : w.status[r] = "queued"}

\* The queued runs that wait for their turn, which are not held and not on their way to the model.
Waiting(w) == {r \in Queued(w) : r \notin w.held /\ r \notin w.needsModel /\ ~HasRequest(w, r)}

QueuedBefore(w, a, b) ==
  \/ w.order[a] < w.order[b]
  \/ w.order[a] = w.order[b] /\ a < b

\* Mutant: a run that was taken out of the queue but has not started does not keep the others there.
BlocksOnceRunning(w, q, r) ==
  /\ q # r
  /\ Active(w, q) /\ w.status[q] # "preparing"
  /\ w.status[q] = "queued" => q \notin w.held /\ QueuedBefore(w, q, r)

\* Mutant: a held run keeps the runs behind it in the queue.
BlocksThoughHeld(w, q, r) ==
  /\ q # r
  /\ Active(w, q)
  /\ w.status[q] = "queued" => QueuedBefore(w, q, r)

\* Another run of the conversation that keeps r in the queue.
Blocks(w, q, r) ==
  /\ q # r
  /\ Active(w, q)
  /\ w.status[q] = "queued" => q \notin w.held /\ QueuedBefore(w, q, r)

\* The descendants of r: runs started to retry r, to retry those, and so on.
Lineage(w) ==
  LET up[q \in Nat] == IF q = 0 \/ q > MaxRuns THEN {} ELSE {q} \cup up[w.parent[q]]
  IN [q \in Run |-> up[q]]
Family(w, r) == {q \in Run : r \in Lineage(w)[q]}

--------------------------------------------------------------------------------
(* Commands.                                                               *)

Fresh(d, n) == d.status[n] = "none" /\ \A q \in Run : q < n => d.status[q] # "none"

\* A new run at the end of the queue. order stands for a time stamp, later than the orders a
\* reordering hands out and than those of the runs created before.
Spawn(d, n, needsModel, withInput, from) ==
  [d EXCEPT !.status[n] = "queued",
            !.needsModel = IF needsModel THEN @ \cup {n} ELSE @,
            !.input = IF withInput THEN @ \cup {n} ELSE @,
            !.order[n] = MaxRuns + n,
            !.parent[n] = from]

\* The hold of a run is an entity the system looks up, so a hold created by an earlier command of
\* the same system is not seen.
Release(w, d, R) == [d EXCEPT !.held = @ \ (R \cap w.held)]

\* Mutant: the request of a terminated run stays.
KeepRequests(w, d, R) == [d EXCEPT !.needsModel = @ \ R]

\* llm.abort for the run's request, the request despawned. An invocation that is still being
\* resolved has no request yet and stays.
DropRequests(w, d, R) ==
  [d EXCEPT !.needsModel = @ \ R,
            !.stage = [r \in Run |-> IF r \in R /\ HasRequest(w, r) THEN "none" ELSE @[r]]]

\* Mutant: the calls of terminated runs are interrupted, and not closed towards the model.
FailOpenToolCallsOnly(w, d, R, spared) ==
  [d EXCEPT !.toolStatus = [t \in Tool |-> IF w.toolRun[t] \in R /\ OpenTool(w, t)
                                           THEN "interrupted" ELSE @[t]]]

\* Tool calls of terminated runs: unfinished ones are interrupted, and all are closed towards the
\* model. Those sent to the background are left alone.
FailOpenToolCalls(w, d, R, spared) ==
  LET closed == {t \in Tool : w.toolRun[t] \in R /\ t \notin w.consumed /\ t \notin spared}
  IN [d EXCEPT !.toolStatus = [t \in Tool |-> IF t \in closed /\ OpenTool(w, t)
                                              THEN "interrupted" ELSE @[t]],
               !.consumed = @ \cup closed]

\* The commands of terminateRun for every run of R that is not terminal.
Terminate(w, d, R, status, spared) ==
  LET hit == {r \in R : Active(w, r)}
      marked == [d EXCEPT !.status = [r \in Run |-> IF r \in hit THEN status ELSE @[r]],
                          !.input = @ \ hit]
  IN FailOpenToolCalls(w, DropRequests(w, Release(w, marked, hit), hit), hit, spared)

\* The executing calls a user's stop turns into background work instead of interrupting them.
Backgrounded(w) == {t \in Background : w.toolStatus[t] = "executing"}

\* Waiting runs R give their input to another run and end as merged. A run without input only ends.
Merge(w, d, R) ==
  [d EXCEPT !.status = [r \in Run |-> IF r \in R THEN "cancelled" ELSE @[r]],
            !.needsModel = @ \ R, !.input = @ \ R, !.held = @ \ R]

\* k messages are appended for each queued input of R.
Materialize(w, d, R, k) ==
  [d EXCEPT !.copies = [r \in Run |-> IF r \in R \cap w.input THEN @[r] + k ELSE @[r]],
            !.input = @ \ R]
================================================================================
