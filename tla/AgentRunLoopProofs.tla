-------------------------- MODULE AgentRunLoopProofs --------------------------
(***************************************************************************)
(* Proofs about AgentRunLoop, for any number of runs and tool calls, any   *)
(* commands of users and any budgets.  A system writes a run's status from *)
(* what it read when it started; the invariant says that the commands it   *)
(* has emitted so far leave the runs that had ended then as they are.      *)
(***************************************************************************)
EXTENDS AgentRunLoop, FiniteSetTheorems, TLAPS

\* A world that a system of committed world w may leave behind.
Successor(w, d) ==
  /\ d \in World
  /\ \A r \in Run : w.status[r] \in Terminal => d.status[r] = w.status[r]

DraftKeepsEnded == Successor(world, draft)

\* The number of the elements of a set of runs is a number.
LEMMA CountIsNatural ==
  ASSUME NEW R \in SUBSET Run PROVE Cardinality(R) \in Nat
<1>1. MaxRuns \in Nat BY BoundsAssumption
<1>2. IsFiniteSet(Run) BY <1>1, FS_Interval DEF Run
<1>3. IsFiniteSet(R) BY <1>2, FS_Subset
<1>. QED BY <1>3, FS_CardinalityType

--------------------------------------------------------------------------------
(* The commands.                                                           *)

\* Releasing holds leaves every run as it is.
LEMMA ReleaseSucceeds ==
  ASSUME NEW w \in World, NEW d, Successor(w, d), NEW R
  PROVE  Successor(w, Release(w, d, R))
BY DEF Successor, Release, World

\* Dropping requests changes no status.
LEMMA DropRequestsSucceeds ==
  ASSUME NEW w \in World, NEW d, Successor(w, d), NEW R
  PROVE  Successor(w, DropRequests(w, d, R))
BY DEF Successor, DropRequests, World, Stage

\* Closing tool calls changes no status.
LEMMA FailOpenToolCallsSucceeds ==
  ASSUME NEW w \in World, NEW d, Successor(w, d), NEW R, NEW S
  PROVE  Successor(w, FailOpenToolCalls(w, d, R, S))
BY DEF Successor, FailOpenToolCalls, World, ToolStatus

\* Only active runs are terminated.
LEMMA TerminateSucceeds ==
  ASSUME NEW w \in World, NEW d, Successor(w, d), NEW R, NEW S, NEW status \in Terminal
  PROVE  Successor(w, Terminate(w, d, R, status, S))
<1>. DEFINE hit == {r \in R : Active(w, r)}
            marked == [d EXCEPT !.status = [r \in Run |-> IF r \in hit THEN status ELSE @[r]],
                                !.input = @ \ hit]
<1>1. Successor(w, marked) BY DEF Successor, World, Active, Status
<1>2. Successor(w, Release(w, marked, hit)) BY <1>1, ReleaseSucceeds
<1>3. Successor(w, DropRequests(w, Release(w, marked, hit), hit)) BY <1>2, DropRequestsSucceeds
<1>. QED BY <1>3, FailOpenToolCallsSucceeds DEF Terminate

\* Merging ends runs that were not ended.
LEMMA MergeSucceeds ==
  ASSUME NEW w \in World, NEW d, Successor(w, d), NEW R \in SUBSET Waiting(w)
  PROVE  Successor(w, Merge(w, d, R))
BY DEF Successor, Merge, World, Waiting, Queued, Terminal, Status

\* Putting messages into the conversation changes no status.
LEMMA MaterializeSucceeds ==
  ASSUME NEW w \in World, NEW d, Successor(w, d), NEW R, NEW k \in Nat
  PROVE  Successor(w, Materialize(w, d, R, k))
<1>. DEFINE copies == [r \in Run |-> IF r \in R \cap w.input THEN d.copies[r] + k ELSE d.copies[r]]
            counted == [d EXCEPT !.copies = copies]
<1>1. d.copies \in [Run -> Nat] BY DEF Successor, World
<1>2. copies \in [Run -> Nat] BY <1>1
<1>. HIDE DEF copies
<1>3. Successor(w, counted) BY <1>2 DEF Successor, World
<1>4. Successor(w, [counted EXCEPT !.input = @ \ R]) BY <1>3 DEF Successor, World
<1>. QED BY <1>4 DEF Materialize, copies

\* A new run takes the place of none.
LEMMA SpawnSucceeds ==
  ASSUME NEW w \in World, NEW d, Successor(w, d), NEW n \in Run, w.status[n] \notin Terminal,
         NEW marked \in BOOLEAN, NEW withInput \in BOOLEAN, NEW from \in 0..MaxRuns
  PROVE  Successor(w, Spawn(d, n, marked, withInput, from))
<1>1. MaxRuns + n \in Int BY BoundsAssumption DEF Run
<1>3. "queued" \in Status BY DEF Status
<1>. DEFINE order == MaxRuns + n
            s1 == [d EXCEPT !.status[n] = "queued"]
            s2 == [s1 EXCEPT !.needsModel = IF marked THEN @ \cup {n} ELSE @]
            s3 == [s2 EXCEPT !.input = IF withInput THEN @ \cup {n} ELSE @]
            s4 == [s3 EXCEPT !.order[n] = order]
            s5 == [s4 EXCEPT !.parent[n] = from]
<1>4. order \in Int BY <1>1
<1>5. Spawn(d, n, marked, withInput, from) = s5 BY DEF Spawn
<1>. HIDE DEF order
<1>6. Successor(w, s1) BY <1>3 DEF Successor, World
<1>. HIDE DEF s1
<1>7. Successor(w, s2) BY <1>6 DEF Successor, World
<1>. HIDE DEF s2
<1>8. Successor(w, s3) BY <1>7 DEF Successor, World
<1>. HIDE DEF s3
<1>9. Successor(w, s4) BY <1>8, <1>4 DEF Successor, World
<1>. HIDE DEF s4
<1>10. Successor(w, s5) BY <1>9 DEF Successor, World
<1>. QED BY <1>5, <1>10 DEF order, s1, s2, s3, s4

--------------------------------------------------------------------------------
(* The two ways a system writes the world.                                 *)

IInv == TypeOK /\ DraftKeepsEnded

\* What a step must do: keep the invariant, and leave the runs alone that have ended.
Good == IInv' /\ Successor(world, world')

\* The systems' names are phases, and each is followed by a system or by the end of the pass.
LEMMA PhaseNames ==
  /\ {"toolDispatch", "toolPoll", "toolResult", "input", "assembly", "llmDispatch",
      "llmPoll", "lifecycle", "queue", "delivery"} \subseteq System
  /\ Phases[1] \in System
  /\ \A p \in System : After(p) \in System \cup {"idle"}
<1>1. Len(Phases) = 10 BY DEF Phases
<1>2. System = {Phases[i] : i \in 1..10} BY <1>1 DEF System
<1>3. /\ Phases[1] = "toolDispatch" /\ Phases[2] = "toolPoll" /\ Phases[3] = "toolResult"
      /\ Phases[4] = "input" /\ Phases[5] = "assembly" /\ Phases[6] = "llmDispatch"
      /\ Phases[7] = "llmPoll" /\ Phases[8] = "lifecycle" /\ Phases[9] = "queue"
      /\ Phases[10] = "delivery"
  BY DEF Phases
<1>4. ASSUME NEW p \in System PROVE After(p) \in System \cup {"idle"}
  <2>. DEFINE i == CHOOSE j \in 1..Len(Phases) : Phases[j] = p
  <2>1. i \in 1..10 BY <1>1, <1>2
  <2>2. After(p) = IF i = 10 THEN "idle" ELSE Phases[i + 1] BY <1>1 DEF After
  <2>. HIDE DEF i
  <2>3. i # 10 => i + 1 \in 1..10 BY <2>1
  <2>. QED BY <2>2, <2>3, <1>2
<1>5. 1 \in 1..10 /\ 2 \in 1..10 /\ 3 \in 1..10 /\ 4 \in 1..10 /\ 5 \in 1..10
      /\ 6 \in 1..10 /\ 7 \in 1..10 /\ 8 \in 1..10 /\ 9 \in 1..10 /\ 10 \in 1..10
  OBVIOUS
<1>6. \A i \in 1..10 : Phases[i] \in System BY <1>2
<1>7. /\ Phases[1] \in System /\ Phases[2] \in System /\ Phases[3] \in System
      /\ Phases[4] \in System /\ Phases[5] \in System /\ Phases[6] \in System
      /\ Phases[7] \in System /\ Phases[8] \in System /\ Phases[9] \in System
      /\ Phases[10] \in System
  BY <1>5, <1>6, Zenon
<1>8. {"toolDispatch", "toolPoll", "toolResult", "input", "assembly", "llmDispatch",
       "llmPoll", "lifecycle", "queue", "delivery"} \subseteq System
  BY <1>3, <1>7
<1>. QED BY <1>4, <1>7, <1>8, Zenon

\* A handler that takes an event with commands that keep the ended runs is good.
LEMMA TakeGood ==
  ASSUME IInv, NEW e, NEW d, Successor(world, d), Take(e, d)
  PROVE  Good
BY DEF IInv, TypeOK, DraftKeepsEnded, Successor, Good, Take, external

\* A system that ends with commands that keep the ended runs is good.
LEMMA CommitGood ==
  ASSUME IInv, phase \in System, NEW d, Successor(world, d), Commit(d),
         resolving' \subseteq Run \X Nat, streaming' \subseteq Run \X Nat
  PROVE  Good
<1>1. phase' \in System \cup {"idle"} BY PhaseNames DEF Commit
<1>2. dirty' \in BOOLEAN BY DEF Commit, IInv, TypeOK
<1>3. world' = d /\ draft' = d BY DEF Commit
<1>4. UNCHANGED <<batch, pending, loaded, compressing, spent>> BY DEF Commit, external
<1>5. TypeOK' BY <1>1, <1>2, <1>3, <1>4 DEF IInv, TypeOK, Successor
<1>6. DraftKeepsEnded' BY <1>3 DEF DraftKeepsEnded, Successor
<1>. QED BY <1>3, <1>5, <1>6 DEF Good, IInv

\* The same for a system that leaves the provider alone.
LEMMA EndSystemGood ==
  ASSUME IInv, phase \in System, NEW d, Successor(world, d), EndSystem(d)
  PROVE  Good
BY CommitGood DEF EndSystem, IInv, TypeOK

\* A step that writes neither the world nor the draft is good when it keeps the types of the rest.
LEMMA QuietGood ==
  ASSUME IInv, UNCHANGED <<world, draft>>,
         phase' \in System \cup {"idle"}, batch' \subseteq Event, pending' \subseteq Event,
         dirty' \in BOOLEAN, loaded' \in BOOLEAN, compressing' \in BOOLEAN,
         resolving' \subseteq Run \X Nat, streaming' \subseteq Run \X Nat,
         spent' \in [spawns: Nat, ops: Nat, calls: Nat, compress: Nat]
  PROVE  Good
BY DEF IInv, TypeOK, DraftKeepsEnded, Successor, Good

--------------------------------------------------------------------------------
(* The systems.                                                            *)

\* The tool systems write the status of tool calls.
LEMMA ToolsGood ==
  ASSUME IInv, CancelTool \/ ToolDispatch \/ ToolState \/ ToolPoll
  PROVE  Good
<1>0. Successor(world, draft) /\ world \in World BY DEF IInv, TypeOK, DraftKeepsEnded
<1>1. CASE CancelTool
  <2>1. PICK e : Take(e, IF OpenTool(world, e.no)
               THEN [draft EXCEPT !.toolStatus[e.no] = "interrupted"] ELSE draft)
    BY <1>1 DEF CancelTool
  <2>2. Successor(world, [draft EXCEPT !.toolStatus[e.no] = "interrupted"])
    BY <1>0 DEF Successor, World, ToolStatus
  <2>. QED BY <1>0, <2>1, <2>2, TakeGood
<1>2. CASE ToolDispatch
  <2>1. \A t \in Tool : DispatchedStatus(t) \in ToolStatus
    BY <1>0 DEF DispatchedStatus, Successor, World, ToolStatus
  <2>. DEFINE ts == [t \in Tool |-> DispatchedStatus(t)]
  <2>2. ts \in [Tool -> ToolStatus] BY <2>1
  <2>3. EndSystem([draft EXCEPT !.toolStatus = ts]) BY <1>2 DEF ToolDispatch
  <2>. HIDE DEF ts
  <2>4. Successor(world, [draft EXCEPT !.toolStatus = ts]) BY <1>0, <2>2 DEF Successor, World
  <2>5. phase \in System BY <1>2, PhaseNames DEF ToolDispatch
  <2>. QED BY <2>3, <2>4, <2>5, EndSystemGood
<1>3. CASE ToolState
  <2>1. PICK e : Take(e, IF world.toolStatus[e.no] = "executing"
               THEN [draft EXCEPT !.toolStatus[e.no] = "settled"] ELSE draft)
    BY <1>3 DEF ToolState
  <2>2. Successor(world, [draft EXCEPT !.toolStatus[e.no] = "settled"])
    BY <1>0 DEF Successor, World, ToolStatus
  <2>. QED BY <1>0, <2>1, <2>2, TakeGood
<1>4. CASE ToolPoll
  BY <1>0, <1>4, EndSystemGood, PhaseNames DEF ToolPoll
<1>. QED BY <1>1, <1>2, <1>3, <1>4

\* Results are settled for active runs only, and only those run again or are cancelled.
LEMMA ToolResultGood ==
  ASSUME IInv, ToolResult
  PROVE  Good
<1>0. Successor(world, draft) /\ world \in World BY DEF IInv, TypeOK, DraftKeepsEnded
<1>. DEFINE ready == {r \in {world.toolRun[t] : t \in Settling} : ~PendingToolWork(r)}
            ended == {r \in ready : AllInterrupted(r)}
            st == [r \in Run |-> IF r \in ended THEN "cancelled"
                                 ELSE IF r \in ready THEN "running" ELSE draft.status[r]]
            nm == (draft.needsModel \cup ready) \ ended
            co == draft.consumed \cup Settling
            d == [[[draft EXCEPT !.consumed = co] EXCEPT !.status = st] EXCEPT !.needsModel = nm]
<1>1. EndSystem([draft EXCEPT !.consumed = co, !.status = st, !.needsModel = nm])
  BY DEF ToolResult
<1>2. [draft EXCEPT !.consumed = co, !.status = st, !.needsModel = nm] = d
  BY <1>0 DEF Successor, World
<1>3. ready \subseteq ActiveRuns(world) BY DEF Settling
<1>4. nm \subseteq Run BY <1>0, <1>3 DEF Successor, World, ActiveRuns
<1>5. co \subseteq Tool BY <1>0 DEF Successor, World, Settling
<1>6. st \in [Run -> Status] BY <1>0 DEF Successor, World, Status, Terminal
<1>7. \A r \in Run : world.status[r] \in Terminal => st[r] = draft.status[r]
  BY <1>3 DEF ActiveRuns, Active
<1>. HIDE DEF ready, st, nm, co
<1>8. Successor(world, d) BY <1>0, <1>4, <1>5, <1>6, <1>7 DEF Successor, World
<1>9. phase \in System BY PhaseNames DEF ToolResult
<1>. QED BY <1>1, <1>2, <1>8, <1>9, EndSystemGood

\* A message of the user creates a run and touches no other.
LEMMA InputGood ==
  ASSUME IInv, Send \/ Input
  PROVE  Good
<1>0. Successor(world, draft) /\ world \in World BY DEF IInv, TypeOK, DraftKeepsEnded
<1>1. CASE Send
  <2>. DEFINE direct == ActiveRuns(world) = {} /\ ~compressing
  <2>1. PICK e \in Of({"send"}), n \in Run :
          /\ Fresh(draft, n)
          /\ Take(e, IF direct
                     THEN [Spawn(draft, n, direct, ~direct, 0) EXCEPT !.copies[n] = 1]
                     ELSE Spawn(draft, n, direct, ~direct, 0))
    BY <1>1, Zenon DEF Send
  <2>2. direct \in BOOLEAN /\ (~direct) \in BOOLEAN BY Zenon
  <2>3. 0 \in 0..MaxRuns BY BoundsAssumption
  <2>. HIDE DEF direct
  <2>. DEFINE new == Spawn(draft, n, direct, ~direct, 0)
  <2>7. world.status[n] \notin Terminal BY <1>0, <2>1 DEF Successor, Fresh, Terminal
  <2>4. Successor(world, new) BY <1>0, <2>2, <2>3, <2>7, SpawnSucceeds
  <2>. HIDE DEF new
  <2>5. Successor(world, [new EXCEPT !.copies[n] = 1]) BY <2>4 DEF Successor, World
  <2>6. Take(e, IF direct THEN [new EXCEPT !.copies[n] = 1] ELSE new) BY <2>1 DEF new
  <2>. QED BY <2>4, <2>5, <2>6, TakeGood
<1>2. CASE Input
  BY <1>0, <1>2, EndSystemGood, PhaseNames DEF Input
<1>. QED BY <1>1, <1>2

\* A resolved or failed invocation changes the run only when the run has not ended.
LEMMA ResolveGood ==
  ASSUME IInv, InvocationResolved \/ InvocationResolveError
  PROVE  Good
<1>0. Successor(world, draft) /\ world \in World BY DEF IInv, TypeOK, DraftKeepsEnded
<1>1. CASE InvocationResolved
  <2>1. PICK e \in Of({"resolved"}) :
          Take(e, IF ~InvocationOf(e) THEN draft
               ELSE IF ~Active(world, e.run) THEN [draft EXCEPT !.stage[e.run] = "none"]
               ELSE [draft EXCEPT !.stage[e.run] = "ready", !.turn[e.run] = e.no])
    BY <1>1 DEF InvocationResolved
  <2>2. e.no \in Nat BY DEF Of, IInv, TypeOK, Event
  <2>. DEFINE ready == [draft EXCEPT !.stage[e.run] = "ready"]
  <2>3. Successor(world, [draft EXCEPT !.stage[e.run] = "none"])
    BY <1>0 DEF Successor, World, Stage
  <2>4. Successor(world, ready) BY <1>0 DEF Successor, World, Stage
  <2>5. [draft EXCEPT !.stage[e.run] = "ready", !.turn[e.run] = e.no]
        = [ready EXCEPT !.turn[e.run] = e.no]
    OBVIOUS
  <2>. HIDE DEF ready
  <2>6. Successor(world, [ready EXCEPT !.turn[e.run] = e.no])
    BY <2>2, <2>4 DEF Successor, World
  <2>. QED BY <1>0, <2>1, <2>3, <2>5, <2>6, TakeGood
<1>2. CASE InvocationResolveError
  <2>1. PICK e \in Of({"resolveError"}) :
          Take(e, IF ~InvocationOf(e) THEN draft
               ELSE IF ~Active(world, e.run) THEN [draft EXCEPT !.stage[e.run] = "none"]
               ELSE [draft EXCEPT !.stage[e.run] = "none", !.status[e.run] = "failed"])
    BY <1>2 DEF InvocationResolveError
  <2>. DEFINE put == [draft EXCEPT !.stage[e.run] = "none"]
  <2>2. Successor(world, put) BY <1>0 DEF Successor, World, Stage
  <2>3. [draft EXCEPT !.stage[e.run] = "none", !.status[e.run] = "failed"]
        = [put EXCEPT !.status[e.run] = "failed"]
    OBVIOUS
  <2>. HIDE DEF put
  <2>4. ASSUME Active(world, e.run) PROVE Successor(world, [put EXCEPT !.status[e.run] = "failed"])
    BY <2>2, <2>4 DEF Successor, World, Active, Status, Terminal
  <2>5. Take(e, IF ~InvocationOf(e) THEN draft ELSE IF ~Active(world, e.run) THEN put
                ELSE [put EXCEPT !.status[e.run] = "failed"])
    BY <2>1, <2>3 DEF put
  <2>6. CASE ~InvocationOf(e) BY <1>0, <2>5, <2>6, TakeGood
  <2>7. CASE InvocationOf(e) /\ ~Active(world, e.run) BY <2>2, <2>5, <2>7, TakeGood
  <2>8. CASE InvocationOf(e) /\ Active(world, e.run) BY <2>4, <2>5, <2>8, TakeGood
  <2>. QED BY <2>6, <2>7, <2>8
<1>. QED BY <1>1, <1>2

\* Starting runs were queued or preparing, and the drained ones were waiting.
LEMMA AssemblyGood ==
  ASSUME IInv, ContextAssembly
  PROVE  Good
<1>0. Successor(world, draft) /\ world \in World BY DEF IInv, TypeOK, DraftKeepsEnded
<1>. DEFINE drained == IF Starting = {} THEN {} ELSE Waiting(world) \cap world.input
            told == Materialize(world, draft, drained, Cardinality(Starting))
            merged == Merge(world, told, drained)
            unloadedRuns == {r \in world.needsModel : ~loaded /\ world.stage[r] = "none"}
            st == [r \in Run |->
                     IF r \in Starting /\ world.status[r] \in {"queued", "preparing"} THEN "running"
                     ELSE IF r \in unloadedRuns /\ world.status[r] = "queued" THEN "preparing"
                     ELSE merged.status[r]]
            sg == [r \in Run |-> IF r \in Starting THEN "resolving" ELSE merged.stage[r]]
            cl == [r \in Run |-> IF r \in Starting THEN merged.call[r] + 1 ELSE merged.call[r]]
            nm == merged.needsModel \ (Starting \cup {r \in Run : world.stage[r] # "none"})
            d1 == [merged EXCEPT !.status = st]
            d2 == [d1 EXCEPT !.stage = sg]
            d3 == [d2 EXCEPT !.call = cl]
            d4 == [d3 EXCEPT !.needsModel = nm]
<1>1. Starting \in SUBSET Run BY <1>0 DEF Starting, World
<1>2. drained \in SUBSET Waiting(world) OBVIOUS
<1>3. Successor(world, told) BY <1>0, <1>1, CountIsNatural, MaterializeSucceeds
<1>4. Assemble(draft) = [merged EXCEPT !.status = st, !.stage = sg, !.call = cl, !.needsModel = nm]
  BY Zenon DEF Assemble
<1>. HIDE DEF drained, told
<1>5. Successor(world, merged) BY <1>2, <1>3, <1>0, MergeSucceeds
<1>6. [merged EXCEPT !.status = st, !.stage = sg, !.call = cl, !.needsModel = nm] = d4
  BY Zenon
<1>. HIDE DEF merged
<1>7. st \in [Run -> Status] BY <1>5 DEF Successor, World, Status
<1>8. \A r \in Run : world.status[r] \in Terminal => st[r] = merged.status[r]
  BY DEF Terminal
<1>9. sg \in [Run -> Stage] BY <1>5 DEF Successor, World, Stage
<1>10. cl \in [Run -> Nat]
  <2>1. merged.call \in [Run -> Nat] BY <1>5 DEF Successor, World
  <2>. QED BY <2>1
<1>11. nm \subseteq Run BY <1>5 DEF Successor, World
<1>. HIDE DEF st, sg, cl, nm
<1>12. Successor(world, d1) BY <1>5, <1>7, <1>8 DEF Successor, World
<1>. HIDE DEF d1
<1>13. Successor(world, d2) BY <1>12, <1>9 DEF Successor, World
<1>. HIDE DEF d2
<1>14. Successor(world, d3) BY <1>13, <1>10 DEF Successor, World
<1>. HIDE DEF d3
<1>15. Successor(world, d4) BY <1>14, <1>11 DEF Successor, World
<1>16. Commit(d4) BY <1>4, <1>6 DEF ContextAssembly, d1, d2, d3
<1>17. resolving' \subseteq Run \X Nat
  <2>1. \A r \in Starting : world.call[r] + 1 \in Nat
    <3>1. world.call \in [Run -> Nat] BY <1>0 DEF World
    <3>. QED BY <3>1, <1>1
  <2>. QED BY <2>1, <1>1 DEF ContextAssembly, IInv, TypeOK
<1>18. streaming' \subseteq Run \X Nat BY DEF ContextAssembly, IInv, TypeOK
<1>19. phase \in System BY PhaseNames DEF ContextAssembly
<1>. QED BY <1>15, <1>16, <1>17, <1>18, <1>19, CommitGood

\* Sending requests changes no run.
LEMMA DispatchGood ==
  ASSUME IInv, LlmDispatch
  PROVE  Good
<1>0. Successor(world, draft) /\ world \in World BY DEF IInv, TypeOK, DraftKeepsEnded
<1>. DEFINE sent == IF compressing THEN {} ELSE {r \in Run : world.stage[r] = "ready"}
            sg == [r \in Run |-> IF r \in sent THEN "inflight" ELSE draft.stage[r]]
<1>1. /\ Commit([draft EXCEPT !.stage = sg])
      /\ streaming' = streaming \cup {<<r, world.call[r]>> : r \in sent}
      /\ resolving' = resolving
  BY DEF LlmDispatch
<1>2. sg \in [Run -> Stage] BY <1>0 DEF Successor, World, Stage
<1>3. \A r \in sent : r \in Run /\ world.call[r] \in Nat BY <1>0 DEF World
<1>. HIDE DEF sg, sent
<1>4. Successor(world, [draft EXCEPT !.stage = sg]) BY <1>0, <1>2 DEF Successor, World
<1>5. streaming' \subseteq Run \X Nat /\ resolving' \subseteq Run \X Nat
  BY <1>1, <1>3 DEF IInv, TypeOK
<1>6. phase \in System BY PhaseNames DEF LlmDispatch
<1>. QED BY <1>1, <1>4, <1>5, <1>6, CommitGood

\* A new tool call of an active run.
LEMMA WithToolCallSucceeds ==
  ASSUME NEW w \in World, NEW d, Successor(w, d), NEW t, NEW r \in 0..MaxRuns, NEW c \in Nat
  PROVE  Successor(w, WithToolCall(d, t, r, c))
<1>. DEFINE d1 == [d EXCEPT !.toolStatus[t] = "queued"]
            d2 == [d1 EXCEPT !.toolRun[t] = r]
            d3 == [d2 EXCEPT !.toolTurn[t] = c]
<1>1. WithToolCall(d, t, r, c) = d3 BY DEF WithToolCall
<1>2. Successor(w, d1) BY DEF Successor, World, ToolStatus
<1>. HIDE DEF d1
<1>3. Successor(w, d2) BY <1>2 DEF Successor, World
<1>. HIDE DEF d2
<1>4. Successor(w, d3) BY <1>3 DEF Successor, World
<1>. QED BY <1>1, <1>4 DEF d1, d2

\* The end of an answer moves a run that has not ended.
LEMMA FinishedSucceeds ==
  ASSUME NEW w \in World, NEW d, Successor(w, d), NEW r, r \in Run => w.status[r] \notin Terminal,
         NEW c, NEW kinds
  PROVE  Successor(w, Finished(d, r, c, kinds))
<1>. DEFINE waits == \E t \in Tool : d.toolRun[t] = r /\ d.toolTurn[t] = c
            to == IF "error" \in kinds THEN "failed"
                  ELSE IF waits THEN "waiting_tool" ELSE "delivering"
            put == [d EXCEPT !.stage[r] = "none"]
<1>1. to \in Status BY DEF Status, Terminal
<1>2. Finished(d, r, c, kinds) = IF kinds \cap {"done", "error"} = {} THEN d
                                 ELSE [put EXCEPT !.status[r] = to]
  BY DEF Finished
<1>3. Successor(w, put) BY DEF Successor, World, Stage
<1>. HIDE DEF to, put
<1>4. Successor(w, [put EXCEPT !.status[r] = to]) BY <1>1, <1>3 DEF Successor, World
<1>. QED BY <1>2, <1>4

\* Answers reach a run only while it is active.
LEMMA UpdateGood ==
  ASSUME IInv, LlmUpdate
  PROVE  Good
<1>0. Successor(world, draft) /\ world \in World BY DEF IInv, TypeOK, DraftKeepsEnded
<1>1. PICK e \in Of({"toolCall", "done", "error"}) :
        LET r == e.run
            c == e.no
            kinds == {a.kind : a \in Answers(r, c)}
            known == HasRequest(world, r) /\ world.call[r] = c
            deaf == ~Active(world, r) \/ world.status[r] = "paused"
        IN /\ batch' = batch \ Answers(r, c)
           /\ \/ /\ ~known /\ draft' = draft
              \/ /\ known /\ deaf
                 /\ draft' = IF kinds \cap {"done", "error"} = {} THEN draft
                             ELSE [draft EXCEPT !.stage[r] = "none"]
              \/ /\ known /\ ~deaf /\ "toolCall" \notin kinds
                 /\ draft' = Finished(draft, r, c, kinds)
              \/ /\ known /\ ~deaf /\ "toolCall" \in kinds
                 /\ \E t \in Tool : /\ NewTool(draft, t)
                                    /\ draft' = Finished(WithToolCall(draft, t, r, c), r, c, kinds)
           /\ UNCHANGED <<world, phase, pending, dirty, resolving, streaming, external>>
  BY Zenon DEF LlmUpdate
<1>. DEFINE r == e.run
            c == e.no
            kinds == {a.kind : a \in Answers(r, c)}
            deaf == ~Active(world, r) \/ world.status[r] = "paused"
<1>2. r \in 0..MaxRuns /\ c \in Nat BY BoundsAssumption DEF Of, IInv, TypeOK, Event, Run
<1>3. ~deaf => (r \in Run => world.status[r] \notin Terminal) BY DEF Active
<1>4. \/ draft' = draft \/ draft' = [draft EXCEPT !.stage[r] = "none"]
      \/ ~deaf /\ draft' = Finished(draft, r, c, kinds)
      \/ ~deaf /\ \E t \in Tool : draft' = Finished(WithToolCall(draft, t, r, c), r, c, kinds)
  BY <1>1
<1>. HIDE DEF kinds
<1>5. Successor(world, draft')
  <2>1. CASE draft' = draft BY <1>0, <2>1
  <2>2. CASE draft' = [draft EXCEPT !.stage[r] = "none"]
    BY <1>0, <2>2 DEF Successor, World, Stage
  <2>3. CASE ~deaf /\ draft' = Finished(draft, r, c, kinds)
    BY <1>0, <1>3, <2>3, FinishedSucceeds
  <2>4. CASE ~deaf /\ \E t \in Tool : draft' = Finished(WithToolCall(draft, t, r, c), r, c, kinds)
    <3>1. PICK t \in Tool : draft' = Finished(WithToolCall(draft, t, r, c), r, c, kinds)
      BY <2>4
    <3>2. Successor(world, WithToolCall(draft, t, r, c)) BY <1>0, <1>2, WithToolCallSucceeds
    <3>. QED BY <1>0, <1>3, <2>4, <3>1, <3>2, FinishedSucceeds
  <2>. QED BY <1>4, <2>1, <2>2, <2>3, <2>4
<1>6. batch' \subseteq batch BY <1>1
<1>7. UNCHANGED <<world, phase, pending, dirty, resolving, streaming, loaded, compressing, spent>>
  BY <1>1 DEF external
<1>. QED BY <1>5, <1>6, <1>7 DEF IInv, TypeOK, DraftKeepsEnded, Good, Successor

\* The poll system ends with what its handlers left.
LEMMA PollGood ==
  ASSUME IInv, LlmPoll
  PROVE  Good
BY EndSystemGood, PhaseNames DEF LlmPoll, IInv, DraftKeepsEnded

\* A waiting run is activated and the others are merged into it; delivery completes runs that deliver.
LEMMA QueueGood ==
  ASSUME IInv, Queue \/ Delivery
  PROVE  Good
<1>0. Successor(world, draft) /\ world \in World BY DEF IInv, TypeOK, DraftKeepsEnded
<1>1. ASSUME NEW r \in Run, Queue, CanActivate(r), EndSystem(Activate(r)) PROVE Good
  <2>. DEFINE told == Materialize(world, draft, Waiting(world), 1)
              merged == Merge(world, told, Waiting(world) \ {r})
              d1 == [merged EXCEPT !.status[r] = "preparing"]
              d2 == [d1 EXCEPT !.needsModel = @ \cup {r}]
  <2>1. Successor(world, told) BY <1>0, MaterializeSucceeds
  <2>2. Activate(r) = d2 BY DEF Activate
  <2>. HIDE DEF told
  <2>3. Waiting(world) \ {r} \in SUBSET Waiting(world) OBVIOUS
  <2>4. Successor(world, merged) BY <1>0, <2>1, <2>3, MergeSucceeds
  <2>. HIDE DEF merged
  <2>5. world.status[r] \notin Terminal BY <1>1 DEF CanActivate, Waiting, Queued, Terminal
  <2>6. Successor(world, d1) BY <2>4, <2>5 DEF Successor, World, Status
  <2>. HIDE DEF d1
  <2>7. Successor(world, d2) BY <2>6 DEF Successor, World
  <2>8. phase \in System BY <1>1, PhaseNames DEF Queue
  <2>. QED BY <1>1, <2>2, <2>7, <2>8, EndSystemGood DEF d1, merged, told
<1>2. CASE Queue /\ EndSystem(draft)
  BY <1>0, <1>2, EndSystemGood, PhaseNames DEF Queue
<1>3. CASE Delivery
  <2>. DEFINE st == [r \in Run |-> IF world.status[r] = "delivering" THEN "completed"
                                   ELSE draft.status[r]]
  <2>1. EndSystem([draft EXCEPT !.status = st]) BY <1>3 DEF Delivery
  <2>2. st \in [Run -> Status] BY <1>0 DEF Successor, World, Status, Terminal
  <2>3. \A r \in Run : world.status[r] \in Terminal => st[r] = draft.status[r] BY DEF Terminal
  <2>. HIDE DEF st
  <2>4. Successor(world, [draft EXCEPT !.status = st])
    BY <1>0, <2>2, <2>3 DEF Successor, World
  <2>. QED BY <1>3, <2>1, <2>4, EndSystemGood, PhaseNames DEF Delivery
<1>. QED BY <1>1, <1>2, <1>3 DEF Queue

\* An event of the batch names a run or the conversation, and a number.
LEMMA EventFields ==
  ASSUME IInv, NEW kind, NEW e \in NextOf(kind)
  PROVE  e.kind = kind /\ (kind \notin ConversationKind => e.run \in Run)
BY DEF NextOf, Of, IInv, TypeOK, Event

\* A promotion terminates runs and gives the promoted one a place.
LEMMA PromoteGood ==
  ASSUME IInv, Promote
  PROVE  Good
<1>0. Successor(world, draft) /\ world \in World BY DEF IInv, TypeOK, DraftKeepsEnded
<1>1. PICK e : \/ \E first \in {world.order[q] : q \in Queued(world)} :
                    Take(e, PromoteCommands(e.run, first))
               \/ Take(e, draft)
  BY DEF Promote
<1>2. ASSUME NEW first \in {world.order[q] : q \in Queued(world)} PROVE
        Successor(world, PromoteCommands(e.run, first))
  <2>. DEFINE cleared == Terminate(world, draft, Displaced(e.run), "cancelled", Backgrounded(world))
              freed == Release(world, cleared, {e.run})
              place == first - 1
  <2>1. first \in Int BY <1>0 DEF World, Queued
  <2>2. place \in Int BY <2>1
  <2>3. Successor(world, cleared) BY <1>0, TerminateSucceeds DEF Terminal
  <2>. HIDE DEF cleared
  <2>4. Successor(world, freed) BY <1>0, <2>3, ReleaseSucceeds
  <2>. HIDE DEF freed, place
  <2>5. Successor(world, [freed EXCEPT !.order[e.run] = place])
    BY <2>2, <2>4 DEF Successor, World
  <2>6. PromoteCommands(e.run, first) = [freed EXCEPT !.order[e.run] = place]
    BY DEF PromoteCommands, freed, cleared, place
  <2>. QED BY <2>5, <2>6
<1>. QED BY <1>0, <1>1, <1>2, TakeGood

\* A reordering numbers the queued runs.
LEMMA ReorderGood ==
  ASSUME IInv, Reorder
  PROVE  Good
<1>0. Successor(world, draft) /\ world \in World BY DEF IInv, TypeOK, DraftKeepsEnded
<1>1. PICK e : Take(e, [draft EXCEPT !.order =
                          [q \in Run |-> IF q \in Queued(world) THEN Place(q, e.run) ELSE @[q]]])
  BY DEF Reorder
<1>. DEFINE o == [q \in Run |-> IF q \in Queued(world) THEN Place(q, e.run) ELSE draft.order[q]]
<1>2. \A q \in Run : Place(q, e.run) \in Int
  <2>. SUFFICES ASSUME NEW q \in Run PROVE Place(q, e.run) \in Int OBVIOUS
  <2>. DEFINE P == {p \in Queued(world) \ {q} :
                      p = e.run \/ (q # e.run /\ QueuedBefore(world, p, q))}
  <2>1. P \in SUBSET Run BY DEF Queued
  <2>2. Place(q, e.run) = 1 + Cardinality(P) BY DEF Place
  <2>. HIDE DEF P
  <2>3. Cardinality(P) \in Nat BY <2>1, CountIsNatural
  <2>. QED BY <2>2, <2>3
<1>3. draft.order \in [Run -> Int] BY <1>0 DEF Successor, World
<1>4. o \in [Run -> Int] BY <1>2, <1>3
<1>5. Take(e, [draft EXCEPT !.order = o]) BY <1>1
<1>. HIDE DEF o
<1>6. Successor(world, [draft EXCEPT !.order = o]) BY <1>0, <1>4 DEF Successor, World
<1>. QED BY <1>5, <1>6, TakeGood

\* A paused run was active, and a resumed one paused.
LEMMA PauseResumeGood ==
  ASSUME IInv, Pause \/ Resume
  PROVE  Good
<1>0. Successor(world, draft) /\ world \in World BY DEF IInv, TypeOK, DraftKeepsEnded
<1>1. CASE Pause
  <2>1. PICK e : Take(e, IF Active(world, e.run) /\ world.status[e.run] # "paused"
            THEN DropRequests(world, [draft EXCEPT !.status[e.run] = "paused"], {e.run})
            ELSE draft)
    BY <1>1 DEF Pause
  <2>. DEFINE d == [draft EXCEPT !.status[e.run] = "paused"]
  <2>2. Active(world, e.run) => Successor(world, d)
    BY <1>0 DEF Active, Successor, World, Status
  <2>. HIDE DEF d
  <2>3. Active(world, e.run) => Successor(world, DropRequests(world, d, {e.run}))
    BY <1>0, <2>2, DropRequestsSucceeds
  <2>. QED BY <1>0, <2>1, <2>3, TakeGood DEF d
<1>2. CASE Resume
  <2>1. PICK e \in NextOf("resume") : Take(e, IF world.status[e.run] = "paused"
            THEN [draft EXCEPT !.status[e.run] = "running", !.needsModel = @ \cup {e.run}]
            ELSE draft)
    BY <1>2 DEF Resume
  <2>. DEFINE d == [draft EXCEPT !.status[e.run] = "running"]
  <2>2. [draft EXCEPT !.status[e.run] = "running", !.needsModel = @ \cup {e.run}]
        = [d EXCEPT !.needsModel = @ \cup {e.run}]
    OBVIOUS
  <2>3. world.status[e.run] = "paused" => Successor(world, d)
    BY <1>0 DEF Successor, World, Status, Terminal
  <2>. HIDE DEF d
  <2>5. e.run \in Run BY EventFields DEF ConversationKind
  <2>4. world.status[e.run] = "paused" =>
          Successor(world, [d EXCEPT !.needsModel = @ \cup {e.run}])
    BY <2>3, <2>5 DEF Successor, World
  <2>. QED BY <1>0, <2>1, <2>2, <2>4, TakeGood
<1>. QED BY <1>1, <1>2

\* A retry terminates its run and creates another one.
LEMMA RetryGood ==
  ASSUME IInv, Retry
  PROVE  Good
<1>0. Successor(world, draft) /\ world \in World BY DEF IInv, TypeOK, DraftKeepsEnded
<1>1. PICK e \in NextOf("retry"), n \in Run :
        /\ Fresh(draft, n)
        /\ Take(e, Spawn(Terminate(world, draft, {e.run}, "cancelled", {}), n, TRUE, FALSE, e.run))
  BY DEF Retry
<1>. DEFINE d == Terminate(world, draft, {e.run}, "cancelled", {})
<1>2. Successor(world, d) BY <1>0, TerminateSucceeds DEF Terminal
<1>3. e.run \in 0..MaxRuns BY EventFields, BoundsAssumption DEF ConversationKind, Run
<1>4. world.status[n] \notin Terminal BY <1>0, <1>1 DEF Successor, Fresh, Terminal
<1>. HIDE DEF d
<1>5. Successor(world, Spawn(d, n, TRUE, FALSE, e.run)) BY <1>0, <1>2, <1>3, <1>4, SpawnSucceeds
<1>. QED BY <1>1, <1>5, TakeGood DEF d

\* Every handler of the lifecycle system leaves the runs that had ended.
LEMMA LifecycleHandlersGood ==
  ASSUME IInv, LifecycleHandler
  PROVE  Good
<1>0. Successor(world, draft) /\ world \in World BY DEF IInv, TypeOK, DraftKeepsEnded
<1>1. "cancelled" \in Terminal /\ "stale" \in Terminal BY DEF Terminal
<1>2. CASE Cancel BY <1>0, <1>1, <1>2, TerminateSucceeds, TakeGood DEF Cancel
<1>3. CASE CancelConversation
  BY <1>0, <1>1, <1>3, TerminateSucceeds, TakeGood DEF CancelConversation
<1>4. CASE Promote BY <1>4, PromoteGood
<1>5. CASE Reorder BY <1>5, ReorderGood
<1>6. CASE RemoveQueued BY <1>0, <1>1, <1>6, TerminateSucceeds, TakeGood DEF RemoveQueued
<1>7. CASE HoldQueued
  <2>1. PICK e : Take(e, [draft EXCEPT !.held = @ \cup ({e.run} \cap Queued(world))])
    BY <1>7 DEF HoldQueued
  <2>2. Successor(world, [draft EXCEPT !.held = @ \cup ({e.run} \cap Queued(world))])
    BY <1>0 DEF Successor, World, Queued
  <2>. QED BY <2>1, <2>2, TakeGood
<1>8. CASE ReleaseQueued BY <1>0, <1>8, ReleaseSucceeds, TakeGood DEF ReleaseQueued
<1>9. CASE ReleaseAll BY <1>0, <1>9, ReleaseSucceeds, TakeGood DEF ReleaseAll
<1>10. CASE MarkStale BY <1>0, <1>1, <1>10, TerminateSucceeds, TakeGood DEF MarkStale
<1>11. CASE Pause \/ Resume BY <1>11, PauseResumeGood
<1>12. CASE Retry BY <1>12, RetryGood
<1>. QED
  BY <1>2, <1>3, <1>4, <1>5, <1>6, <1>7, <1>8, <1>9, <1>10, <1>11, <1>12 DEF LifecycleHandler

\* The lifecycle system ends and aborts streams.
LEMMA LifecycleGood ==
  ASSUME IInv, Lifecycle
  PROVE  Good
<1>1. Successor(world, draft) BY DEF IInv, DraftKeepsEnded
<1>2. phase \in System BY PhaseNames DEF Lifecycle
<1>3. resolving' \subseteq Run \X Nat /\ streaming' \subseteq Run \X Nat
  BY DEF Lifecycle, IInv, TypeOK
<1>. QED BY <1>1, <1>2, <1>3, CommitGood DEF Lifecycle

--------------------------------------------------------------------------------
(* The environment and the theorems.                                       *)

\* The kinds of the events, one by one.
LEMMA EventTypes ==
  ASSUME IInv
  PROVE  /\ \A n \in Nat, kind \in {"send", "toolCancel", "toolState"} : Ev(kind, 0, n) \in Event
         /\ \A kind \in {"cancelConversation", "resumeAll"} : Ev(kind, 0, 0) \in Event
         /\ \A r \in Run, n \in Nat, kind \in {"resolved", "resolveError", "toolCall", "done", "error"} :
              Ev(kind, r, n) \in Event
         /\ \A r \in Run, kind \in LifecycleKind \ {"cancelConversation", "resumeAll"} :
              Ev(kind, r, 0) \in Event
         /\ "retry" \in LifecycleKind /\ "toolCancel" \notin LifecycleKind
<1>1. Len(LifecycleOrder) = 12 BY DEF LifecycleOrder
<1>2. LifecycleKind = {LifecycleOrder[i] : i \in 1..12} BY <1>1 DEF LifecycleKind
<1>3. /\ LifecycleOrder[1] = "cancel" /\ LifecycleOrder[2] = "cancelConversation"
      /\ LifecycleOrder[3] = "promote" /\ LifecycleOrder[4] = "reorder"
      /\ LifecycleOrder[5] = "remove" /\ LifecycleOrder[6] = "pauseQueue"
      /\ LifecycleOrder[7] = "resumeQueue" /\ LifecycleOrder[8] = "resumeAll"
      /\ LifecycleOrder[9] = "stale" /\ LifecycleOrder[10] = "pause"
      /\ LifecycleOrder[11] = "resume" /\ LifecycleOrder[12] = "retry"
  BY DEF LifecycleOrder
<1>4. LifecycleKind = {"cancel", "cancelConversation", "promote", "reorder", "remove", "pauseQueue",
                       "resumeQueue", "resumeAll", "stale", "pause", "resume", "retry"}
  <2>1. \A i \in 1..12 : i = 1 \/ i = 2 \/ i = 3 \/ i = 4 \/ i = 5 \/ i = 6 \/ i = 7 \/ i = 8
                         \/ i = 9 \/ i = 10 \/ i = 11 \/ i = 12
    OBVIOUS
  <2>2. \A i \in {1, 2, 3, 4, 5, 6, 7, 8, 9, 10, 11, 12} : i \in 1..12 OBVIOUS
  <2>. QED BY <1>2, <1>3, <2>1, <2>2
<1>. QED BY <1>4 DEF Ev, Event, Kind, ConversationKind

\* What users, the provider, the tools and the storage do changes neither world nor draft.
LEMMA EnvironmentGood ==
  ASSUME IInv, Environment
  PROVE  Good
<1>. USE DEF IInv, TypeOK, Enqueue, calm, external
<1>0. Tool \subseteq Nat BY BoundsAssumption DEF Tool
<1>1. CASE UserSends BY <1>1, QuietGood, EventTypes DEF UserSends
<1>2. CASE UserRetries BY <1>2, QuietGood, EventTypes DEF UserRetries
<1>3. CASE \E kind \in UserKinds : UserCommand(kind)
  <2>1. PICK kind \in UserKinds : UserCommand(kind) BY <1>3
  <2>2. \E e \in Event : pending' = pending \cup {e} /\ phase = "idle"
    <3>1. CASE kind \in {"cancelConversation", "resumeAll"}
      BY <2>1, <3>1, EventTypes DEF UserCommand, LifecycleKind
    <3>2. CASE kind = "toolCancel"
      BY <1>0, <2>1, <3>2, EventTypes DEF UserCommand
    <3>3. CASE kind \in LifecycleKind \ {"cancelConversation", "resumeAll", "retry"}
      BY <2>1, <3>3, EventTypes DEF UserCommand
    <3>. QED BY <2>1, <3>1, <3>2, <3>3 DEF UserCommand
  <2>3. /\ spent' = [spent EXCEPT !.ops = @ + 1]
        /\ UNCHANGED <<calm, loaded, compressing, resolving, streaming>>
    BY <2>1 DEF UserCommand
  <2>. QED BY <2>2, <2>3, QuietGood
<1>4. CASE ProviderResolves BY <1>4, QuietGood, EventTypes DEF ProviderResolves
<1>5. CASE ProviderCallsTool BY <1>5, QuietGood, EventTypes DEF ProviderCallsTool
<1>6. CASE ProviderFinishes BY <1>6, QuietGood, EventTypes DEF ProviderFinishes
<1>7. CASE ToolEnds BY <1>0, <1>7, QuietGood, EventTypes DEF ToolEnds
<1>8. CASE ContextLoads BY <1>8, QuietGood DEF ContextLoads
<1>9. CASE CompressionBegins BY <1>9, QuietGood DEF CompressionBegins
<1>10. CASE CompressionEnds BY <1>10, QuietGood DEF CompressionEnds
<1>. QED
  BY <1>1, <1>2, <1>3, <1>4, <1>5, <1>6, <1>7, <1>8, <1>9, <1>10 DEF Environment, Answer

\* At the start nothing has ended.
LEMMA InitGood == Init => IInv
<1>. SUFFICES ASSUME Init PROVE IInv OBVIOUS
<1>1. EmptyWorld \in World
  BY BoundsAssumption DEF EmptyWorld, World, Status, Stage, ToolStatus
<1>2. /\ world = EmptyWorld /\ draft = EmptyWorld /\ phase = "idle" /\ batch = {} /\ pending = {}
      /\ dirty = FALSE /\ compressing = FALSE /\ resolving = {} /\ streaming = {}
      /\ spent = [spawns |-> 0, ops |-> 0, calls |-> 0, compress |-> 0]
  BY DEF Init
<1>3. loaded \in BOOLEAN BY DEF Init
<1>4. TypeOK BY <1>1, <1>2, <1>3 DEF TypeOK
<1>. QED BY <1>1, <1>2, <1>4 DEF IInv, DraftKeepsEnded, Successor

\* Every step keeps the invariant and the ended runs.
LEMMA StepGood ==
  ASSUME IInv, [Next]_vars
  PROVE  Good
<1>1. CASE UNCHANGED vars
  BY <1>1 DEF vars, IInv, TypeOK, DraftKeepsEnded, Successor, Good
<1>2. CASE BeginPass
  BY <1>2, PhaseNames, QuietGood DEF BeginPass, IInv, TypeOK, external
<1>3. CASE CancelTool \/ ToolDispatch \/ ToolState \/ ToolPoll BY <1>3, ToolsGood
<1>4. CASE ToolResult BY <1>4, ToolResultGood
<1>5. CASE Send \/ Input BY <1>5, InputGood
<1>6. CASE InvocationResolved \/ InvocationResolveError BY <1>6, ResolveGood
<1>7. CASE ContextAssembly BY <1>7, AssemblyGood
<1>8. CASE LlmDispatch BY <1>8, DispatchGood
<1>9. CASE LlmUpdate BY <1>9, UpdateGood
<1>10. CASE LlmPoll BY <1>10, PollGood
<1>11. CASE LifecycleHandler BY <1>11, LifecycleHandlersGood
<1>12. CASE Lifecycle BY <1>12, LifecycleGood
<1>13. CASE Queue \/ Delivery BY <1>13, QueueGood
<1>14. CASE Environment BY <1>14, EnvironmentGood
<1>. QED
  BY <1>1, <1>2, <1>3, <1>4, <1>5, <1>6, <1>7, <1>8, <1>9, <1>10, <1>11, <1>12, <1>13, <1>14
  DEF Next, SystemStep

\* The loop is type correct: every handler leaves a well-formed world, draft and event queue.
THEOREM TypeCorrect == Spec => []TypeOK
<1>1. Init => IInv BY InitGood
<1>2. IInv /\ [Next]_vars => IInv' BY StepGood DEF Good
<1>3. IInv => TypeOK BY DEF IInv
<1>. QED BY <1>1, <1>2, <1>3, PTL DEF Spec

\* A run that has ended keeps its status, whatever late answers, commands and tool results arrive.
THEOREM EndedRunsStay == Spec => EndedStaysEnded
<1>1. Init => IInv BY InitGood
<1>2. IInv /\ [Next]_vars => IInv' BY StepGood DEF Good
<1>3. IInv /\ [Next]_vars
      => [\A r \in Run : world.status[r] \in Terminal => world'.status[r] = world.status[r]]_vars
  BY StepGood DEF Good, Successor
<1>. QED BY <1>1, <1>2, <1>3, PTL DEF Spec, EndedStaysEnded

--------------------------------------------------------------------------------
(***************************************************************************)
(* The loop in ordinary use: users send one message at a time and do       *)
(* everything with the queue and with running work except to retry or      *)
(* pause a run and to interrupt a single tool call, whose consequences are *)
(* in section 6 of the README.                                             *)
(*                                                                         *)
(* The argument: at most one run of the conversation is engaged, that is   *)
(* out of the queue or marked for the model.  Only an engaged run has a    *)
(* request, and only the request of a run has a stream.  What a system has *)
(* done to its draft so far is a change of its kind (DraftFits), and each  *)
(* kind of change leads from a sound world to a sound world.               *)
(***************************************************************************)
\* What a user may do beside sending one message at a time.
Extraordinary == {"retry", "pause", "resume", "toolCancel"}
OrdinaryUse == UserKinds \cap Extraordinary = {} /\ SendsAtOnce <= 1

--------------------------------------------------------------------------------
(* A sound world.                                                          *)

\* A run that holds the conversation: it was taken out of the queue, or is marked for the model.
Engaged(w, r) == Active(w, r) /\ (w.status[r] # "queued" \/ r \in w.needsModel)
Alone(w) == \A q, r \in Run : Engaged(w, q) /\ Engaged(w, r) => q = r

\* Where a run is that is marked for the model, or has a call under way.
MarksFit(w) == \A r \in w.needsModel : w.status[r] \in {"queued", "preparing", "running"}
CallsFit(w) ==
  \A r \in Run :
    /\ w.stage[r] # "none" => w.status[r] \notin {"none", "queued", "preparing", "delivering"}
    /\ HasRequest(w, r) => Active(w, r)

\* A queued message belongs to a run that waits, and is not yet in the conversation.
InputsFit(w) ==
  \A r \in w.input : w.status[r] = "queued" /\ w.copies[r] = 0 /\ r \notin w.needsModel
CopiesFit(w) ==
  \A r \in Run : w.copies[r] <= 1 /\ (w.status[r] = "none" => w.copies[r] = 0)

\* Tool calls belong to runs that have started; only the end of a run interrupts them.
ToolsFit(w) ==
  \A t \in Tool :
    /\ w.toolRun[t] \in Run => w.status[w.toolRun[t]] \notin {"none", "queued", "preparing"}
    /\ w.toolStatus[t] = "interrupted" =>
         w.toolRun[t] \in Run /\ w.status[w.toolRun[t]] \in Terminal

\* A run that was cancelled or went stale owes the model no answer of a tool, background work excepted.
Closed(w) ==
  \A t \in Tool \ Background :
    w.toolRun[t] \in Run /\ w.status[w.toolRun[t]] \in {"cancelled", "stale"} => t \in w.consumed

Sound(w) == /\ Alone(w) /\ MarksFit(w) /\ CallsFit(w) /\ InputsFit(w) /\ CopiesFit(w)
            /\ ToolsFit(w) /\ Closed(w)

\* Where in a pass a marked run may have a call under way, and where it may be queued.
MarksRest(w) == \A r \in w.needsModel : w.stage[r] = "none"
MarksStart(w) == \A r \in w.needsModel : w.status[r] = "queued" => ~compressing
MarksLeft(w) == \A r \in w.needsModel : w.status[r] # "queued"
PassFits(w, p) ==
  /\ p \notin {"input", "assembly"} => MarksRest(w)
  /\ p = "assembly" => MarksStart(w)
  /\ p # "assembly" => MarksLeft(w)

--------------------------------------------------------------------------------
(* The events, and what the provider does.                                 *)

Finish == {"done", "error"}
Resolve == {"resolved", "resolveError"}

OrdinaryEvents == \A e \in pending \cup batch : e.kind \notin Extraordinary

\* Of messages at most one waits, and at most one is in the batch.
SingleSend ==
  /\ \A e, f \in pending : e.kind = "send" /\ f.kind = "send" => e = f
  /\ \A e, f \in batch : e.kind = "send" /\ f.kind = "send" => e = f

\* An invocation is resolved once.
ResolvedOnce ==
  /\ \A i \in resolving : i[2] <= world.call[i[1]]
  /\ \A e \in pending \cup batch : e.kind \in Resolve =>
       e.no <= world.call[e.run] /\ <<e.run, e.no>> \notin resolving
  /\ \A e, f \in pending \cup batch :
       e.kind \in Resolve /\ f.kind \in Resolve /\ e.run = f.run /\ e.no = f.no => e = f

\* The end of an answer comes from a request that was sent, and its stream has ended.
FinishedOnce ==
  \A e \in pending \cup batch : e.kind \in Finish =>
    /\ e.no <= world.call[e.run] /\ <<e.run, e.no>> \notin streaming
    /\ e.no = world.call[e.run] => world.stage[e.run] \in {"none", "inflight"}

\* A stream belongs to the request of its run.
StreamsFit(w, S) == \A i \in S : w.stage[i[1]] = "inflight" /\ w.call[i[1]] = i[2]

--------------------------------------------------------------------------------
(* What the systems do to their drafts.                                    *)

\* Queue, messages and numbers of calls are as they were.
Still(w, d) ==
  d.needsModel = w.needsModel /\ d.input = w.input /\ d.copies = w.copies /\ d.call = w.call
SameTools(w, d) ==
  d.toolStatus = w.toolStatus /\ d.toolRun = w.toolRun /\ d.consumed = w.consumed
SameRun(w, d, r) == d.stage[r] = w.stage[r] /\ d.status[r] = w.status[r]

\* toolDispatch, toolPoll: no call is interrupted.
ToolChange(w, d) ==
  /\ Still(w, d) /\ d.status = w.status /\ d.stage = w.stage
  /\ d.toolRun = w.toolRun /\ d.consumed = w.consumed
  /\ \A t \in Tool : d.toolStatus[t] = "interrupted" => w.toolStatus[t] = "interrupted"

\* assembly: invocations are resolved.
ResolvedIn(w, d, r) ==
  /\ w.stage[r] = "resolving"
  /\ \/ d.stage[r] = "none" /\ d.status[r] = w.status[r]
     \/ Active(w, r) /\ d.stage[r] = "none" /\ d.status[r] = "failed"
     \/ Active(w, r) /\ d.stage[r] = "ready" /\ d.status[r] = w.status[r]
ResolveChange(w, d) ==
  Still(w, d) /\ SameTools(w, d) /\ \A r \in Run : SameRun(w, d, r) \/ ResolvedIn(w, d, r)

\* llmPoll: answers end requests, and ask for tools.
AnsweredIn(w, d, r) ==
  /\ HasRequest(w, r) /\ d.stage[r] = "none"
  /\ d.status[r] \in {w.status[r], "failed", "waiting_tool", "delivering"}
AskedIn(w, d, t) ==
  d.toolStatus[t] = "queued" /\ d.toolRun[t] \in Run /\ HasRequest(w, d.toolRun[t])
AnswerChange(w, d) ==
  /\ Still(w, d) /\ d.consumed = w.consumed
  /\ \A r \in Run : SameRun(w, d, r) \/ AnsweredIn(w, d, r)
  /\ \A t \in Tool : \/ d.toolRun[t] = w.toolRun[t] /\ d.toolStatus[t] = w.toolStatus[t]
                     \/ AskedIn(w, d, t)

\* lifecycle: runs are ended, with all that belongs to them.
EndedIn(w, d, r) ==
  /\ Active(w, r) /\ d.status[r] \in {"cancelled", "stale"}
  /\ r \notin d.needsModel \cup d.input /\ ~HasRequest(d, r)
  /\ \A t \in Tool \ Background : w.toolRun[t] = r => t \in d.consumed
KeptIn(w, d, r) ==
  SameRun(w, d, r) /\ (r \in w.input => r \in d.input)
EndChange(w, d) ==
  /\ d.copies = w.copies /\ d.call = w.call /\ d.toolRun = w.toolRun
  /\ d.needsModel \subseteq w.needsModel /\ d.input \subseteq w.input
  /\ w.consumed \subseteq d.consumed
  /\ \A r \in Run : d.stage[r] \in {w.stage[r], "none"}
  /\ \A r \in Run : EndedIn(w, d, r) \/ KeptIn(w, d, r)
  /\ \A t \in Tool : \/ d.toolStatus[t] = w.toolStatus[t]
                     \/ w.toolRun[t] \in Run /\ EndedIn(w, d, w.toolRun[t])

\* input: the one message of the batch is taken.
SendDraft ==
  /\ Sound(draft) /\ draft.stage = world.stage /\ draft.call = world.call
  /\ (\E e \in batch : e.kind = "send") => draft = world
  /\ MarksStart(draft) /\ world.input \subseteq draft.input

\* assembly, llmPoll: and an event that has been handled is not there any more.
ResolveDraft ==
  /\ ResolveChange(world, draft)
  /\ \A e \in batch : e.kind \in Resolve /\ e.no = world.call[e.run] => SameRun(world, draft, e.run)
AnswerDraft ==
  /\ AnswerChange(world, draft)
  /\ \A i \in streaming : SameRun(world, draft, i[1])

DraftFits ==
  /\ phase \in {"idle", "toolDispatch", "toolResult", "llmDispatch", "queue", "delivery"} =>
       draft = world
  /\ phase = "toolPoll" => ToolChange(world, draft)
  /\ phase = "input" => SendDraft
  /\ phase = "assembly" => ResolveDraft
  /\ phase = "llmPoll" => AnswerDraft
  /\ phase = "lifecycle" => EndChange(world, draft)

TurnInv == /\ Sound(world) /\ PassFits(world, phase)
           /\ OrdinaryEvents /\ SingleSend /\ ResolvedOnce /\ FinishedOnce
           /\ StreamsFit(world, streaming) /\ DraftFits

--------------------------------------------------------------------------------
(* Each kind of change leads from a sound world to a sound world.          *)

LEMMA ToolChangeSound ==
  ASSUME NEW w \in World, NEW d \in World, Sound(w), ToolChange(w, d)
  PROVE  Sound(d)
<1>. USE DEF Sound, ToolChange, Still
<1>1. \A r \in Run : (Active(d, r) <=> Active(w, r)) /\ (HasRequest(d, r) <=> HasRequest(w, r))
                     /\ (Engaged(d, r) <=> Engaged(w, r))
  BY DEF Active, HasRequest, Engaged
<1>2. Alone(d) BY <1>1 DEF Alone
<1>3. MarksFit(d) /\ InputsFit(d) /\ CopiesFit(d) BY DEF MarksFit, InputsFit, CopiesFit
<1>4. CallsFit(d) BY <1>1 DEF CallsFit
<1>5. ToolsFit(d) /\ Closed(d) BY DEF ToolsFit, Closed
<1>. QED BY <1>2, <1>3, <1>4, <1>5

\* A resolved invocation becomes a request only if its run is active, and fails no other.
LEMMA ResolveChangeFits ==
  ASSUME NEW w \in World, NEW d \in World, Sound(w), ResolveChange(w, d)
  PROVE  /\ \A r \in Run : Engaged(d, r) => Engaged(w, r)
         /\ \A r \in Run : d.status[r] = w.status[r] \/ (Active(w, r) /\ d.status[r] = "failed"
                             /\ w.stage[r] = "resolving" /\ d.stage[r] = "none")
         /\ CallsFit(d) /\ ToolsFit(d) /\ Closed(d) /\ InputsFit(d) /\ CopiesFit(d)
<1>. USE DEF ResolveChange, Still, SameTools
<1>1. \A r \in Run : d.status[r] = w.status[r] \/ (Active(w, r) /\ d.status[r] = "failed"
                       /\ w.stage[r] = "resolving" /\ d.stage[r] = "none")
  BY DEF SameRun, ResolvedIn
<1>2. \A r \in Run : Engaged(d, r) => Engaged(w, r)
  BY <1>1 DEF Engaged, Active, Terminal
<1>3. CallsFit(d)
  <2>. SUFFICES ASSUME NEW r \in Run
       PROVE  /\ d.stage[r] # "none" => d.status[r] \notin {"none", "queued", "preparing", "delivering"}
              /\ HasRequest(d, r) => Active(d, r)
    BY DEF CallsFit
  <2>1. /\ w.stage[r] # "none" => w.status[r] \notin {"none", "queued", "preparing", "delivering"}
        /\ HasRequest(w, r) => Active(w, r)
    BY DEF Sound, CallsFit
  <2>2. CASE SameRun(w, d, r) BY <2>1, <2>2 DEF SameRun, HasRequest, Active
  <2>3. CASE ResolvedIn(w, d, r) BY <2>1, <2>3 DEF ResolvedIn, HasRequest, Active
  <2>. QED BY <2>2, <2>3
<1>4. ToolsFit(d)
  <2>1. \A r \in Run : /\ w.status[r] \notin {"none", "queued", "preparing"} =>
                            d.status[r] \notin {"none", "queued", "preparing"}
                       /\ w.status[r] \in Terminal => d.status[r] \in Terminal
    BY <1>1 DEF Active
  <2>. QED BY <2>1 DEF Sound, ToolsFit
<1>5. Closed(d)
  <2>1. \A r \in Run : d.status[r] \in {"cancelled", "stale"} => w.status[r] = d.status[r]
    BY <1>1
  <2>. QED BY <2>1 DEF Sound, Closed
<1>6. InputsFit(d)
  <2>1. \A r \in w.input : w.stage[r] = "none" BY DEF Sound, InputsFit, CallsFit, World
  <2>2. \A r \in w.input : r \in Run BY DEF World
  <2>. QED BY <1>1, <2>1, <2>2 DEF Sound, InputsFit
<1>7. CopiesFit(d)
  <2>1. \A r \in Run : d.status[r] = "none" => w.status[r] = "none" BY <1>1
  <2>. QED BY <2>1 DEF Sound, CopiesFit
<1>. QED BY <1>1, <1>2, <1>3, <1>4, <1>5, <1>6, <1>7

\* An answer moves the run that asked, which is engaged and not marked.
LEMMA AnswerChangeSound ==
  ASSUME NEW w \in World, NEW d \in World, Sound(w), MarksRest(w), MarksLeft(w), AnswerChange(w, d)
  PROVE  Sound(d) /\ MarksRest(d) /\ MarksLeft(d)
<1>. USE DEF AnswerChange, Still
<1>0. w.needsModel \subseteq Run /\ w.input \subseteq Run BY DEF World
<1>1. \A r \in Run : HasRequest(w, r) => /\ Active(w, r) /\ Engaged(w, r)
                                         /\ w.status[r] \notin {"none", "queued", "preparing"}
  BY DEF Sound, CallsFit, HasRequest, Engaged
<1>2. \A r \in Run : SameRun(w, d, r) \/
        (HasRequest(w, r) /\ d.stage[r] = "none"
         /\ d.status[r] \in {w.status[r], "failed", "waiting_tool", "delivering"})
  BY DEF AnsweredIn
<1>3. \A r \in Run : Engaged(d, r) => Engaged(w, r)
  BY <1>1, <1>2 DEF SameRun, Engaged, Active
<1>4. Alone(d) BY <1>3 DEF Sound, Alone
<1>5. \A r \in w.needsModel : ~HasRequest(w, r) BY DEF MarksRest, HasRequest
<1>6. \A r \in w.needsModel : SameRun(w, d, r) BY <1>0, <1>2, <1>5
<1>7. MarksFit(d) /\ MarksRest(d) /\ MarksLeft(d)
  BY <1>6 DEF Sound, MarksFit, MarksRest, MarksLeft, SameRun
<1>8. CallsFit(d)
  <2>. SUFFICES ASSUME NEW r \in Run
       PROVE  /\ d.stage[r] # "none" => d.status[r] \notin {"none", "queued", "preparing", "delivering"}
              /\ HasRequest(d, r) => Active(d, r)
    BY DEF CallsFit
  <2>1. /\ w.stage[r] # "none" => w.status[r] \notin {"none", "queued", "preparing", "delivering"}
        /\ HasRequest(w, r) => Active(w, r)
    BY DEF Sound, CallsFit
  <2>2. CASE SameRun(w, d, r) BY <2>1, <2>2 DEF SameRun, HasRequest, Active
  <2>3. CASE d.stage[r] = "none" BY <2>3 DEF HasRequest
  <2>. QED BY <1>2, <2>2, <2>3
<1>9. \A r \in Run : /\ w.status[r] \notin {"none", "queued", "preparing"} =>
                          d.status[r] \notin {"none", "queued", "preparing"}
                     /\ w.status[r] \in {"none", "queued", "preparing"} => d.status[r] = w.status[r]
                     /\ w.status[r] \in Terminal => d.status[r] = w.status[r]
                     /\ d.status[r] \in {"none", "cancelled", "stale"} => d.status[r] = w.status[r]
  BY <1>1, <1>2 DEF SameRun, Active
<1>10. InputsFit(d) BY <1>0, <1>9 DEF Sound, InputsFit
<1>11. CopiesFit(d) BY <1>9 DEF Sound, CopiesFit
<1>12. ToolsFit(d)
  <2>. SUFFICES ASSUME NEW t \in Tool
       PROVE  /\ d.toolRun[t] \in Run => d.status[d.toolRun[t]] \notin {"none", "queued", "preparing"}
              /\ d.toolStatus[t] = "interrupted" =>
                   d.toolRun[t] \in Run /\ d.status[d.toolRun[t]] \in Terminal
    BY DEF ToolsFit
  <2>1. CASE d.toolRun[t] = w.toolRun[t] /\ d.toolStatus[t] = w.toolStatus[t]
    BY <1>9, <2>1 DEF Sound, ToolsFit
  <2>2. CASE AskedIn(w, d, t)
    BY <1>1, <1>9, <2>2 DEF AskedIn
  <2>. QED BY <2>1, <2>2
<1>13. Closed(d)
  <2>. SUFFICES ASSUME NEW t \in Tool \ Background, d.toolRun[t] \in Run,
                       d.status[d.toolRun[t]] \in {"cancelled", "stale"}
       PROVE  t \in d.consumed
    BY DEF Closed
  <2>1. CASE d.toolRun[t] = w.toolRun[t]
    <3>1. w.status[w.toolRun[t]] \in {"cancelled", "stale"} BY <1>9, <2>1
    <3>. QED BY <2>1, <3>1 DEF Sound, Closed
  <2>2. CASE AskedIn(w, d, t)
    <3>1. w.status[d.toolRun[t]] \in Terminal BY <1>9 DEF Terminal
    <3>. QED BY <1>1, <2>2, <3>1 DEF AskedIn, Active
  <2>. QED BY <2>1, <2>2
<1>. QED BY <1>4, <1>7, <1>8, <1>10, <1>11, <1>12, <1>13 DEF Sound

\* Ending runs leaves the others as they are.
LEMMA EndChangeSound ==
  ASSUME NEW w \in World, NEW d \in World, Sound(w), MarksRest(w), MarksLeft(w), EndChange(w, d)
  PROVE  Sound(d) /\ MarksRest(d) /\ MarksLeft(d)
<1>. USE DEF EndChange
<1>0. w.needsModel \subseteq Run /\ w.input \subseteq Run BY DEF World
<1>1. \A r \in Run : \/ Active(w, r) /\ d.status[r] \in {"cancelled", "stale"}
                        /\ r \notin d.needsModel \cup d.input /\ ~HasRequest(d, r)
                        /\ w.status[r] # "none"
                     \/ SameRun(w, d, r)
  BY DEF EndedIn, KeptIn, Active
<1>2. \A r \in Run : Engaged(d, r) => Engaged(w, r)
  BY <1>1 DEF SameRun, Engaged, Active, Terminal
<1>3. Alone(d) BY <1>2 DEF Sound, Alone
<1>4. \A r \in d.needsModel \cup d.input : r \in Run /\ SameRun(w, d, r) BY <1>0, <1>1
<1>5. MarksFit(d) /\ MarksRest(d) /\ MarksLeft(d)
  BY <1>4 DEF Sound, MarksFit, MarksRest, MarksLeft, SameRun
<1>6. InputsFit(d) BY <1>4 DEF Sound, InputsFit, SameRun
<1>7. CallsFit(d)
  <2>. SUFFICES ASSUME NEW r \in Run
       PROVE  /\ d.stage[r] # "none" => d.status[r] \notin {"none", "queued", "preparing", "delivering"}
              /\ HasRequest(d, r) => Active(d, r)
    BY DEF CallsFit
  <2>1. /\ w.stage[r] # "none" => w.status[r] \notin {"none", "queued", "preparing", "delivering"}
        /\ HasRequest(w, r) => Active(w, r)
    BY DEF Sound, CallsFit
  <2>2. CASE SameRun(w, d, r) BY <2>1, <2>2 DEF SameRun, HasRequest, Active
  <2>3. CASE d.status[r] \in {"cancelled", "stale"} /\ ~HasRequest(d, r) BY <2>3
  <2>. QED BY <1>1, <2>2, <2>3
<1>8. CopiesFit(d)
  BY <1>1 DEF Sound, CopiesFit, SameRun
<1>9. ToolsFit(d)
  <2>1. \A r \in Run : /\ w.status[r] \notin {"none", "queued", "preparing"} =>
                            d.status[r] \notin {"none", "queued", "preparing"}
                       /\ w.status[r] \in Terminal => d.status[r] \in Terminal
    BY <1>1 DEF SameRun, Active, Terminal
  <2>2. \A t \in Tool : w.toolRun[t] \in Run /\ EndedIn(w, d, w.toolRun[t]) =>
          d.status[w.toolRun[t]] \in Terminal
    BY DEF EndedIn, Terminal
  <2>. QED BY <2>1, <2>2 DEF Sound, ToolsFit
<1>10. Closed(d)
  <2>. SUFFICES ASSUME NEW t \in Tool \ Background, d.toolRun[t] \in Run,
                       d.status[d.toolRun[t]] \in {"cancelled", "stale"}
       PROVE  t \in d.consumed
    BY DEF Closed
  <2>1. CASE EndedIn(w, d, w.toolRun[t]) BY <2>1 DEF EndedIn
  <2>2. CASE SameRun(w, d, w.toolRun[t]) BY <2>2 DEF SameRun, Sound, Closed
  <2>. QED BY <2>1, <2>2 DEF KeptIn
<1>. QED BY <1>3, <1>5, <1>6, <1>7, <1>8, <1>9, <1>10 DEF Sound

--------------------------------------------------------------------------------
(* How the systems follow one another, and the ways a step can be made.     *)

LEMMA AfterNames ==
  /\ After("toolDispatch") = "toolPoll" /\ After("toolPoll") = "toolResult"
  /\ After("toolResult") = "input" /\ After("input") = "assembly"
  /\ After("assembly") = "llmDispatch" /\ After("llmDispatch") = "llmPoll"
  /\ After("llmPoll") = "lifecycle" /\ After("lifecycle") = "queue"
  /\ After("queue") = "delivery" /\ After("delivery") = "idle"
<1>1. Len(Phases) = 10 BY DEF Phases
<1>2. /\ Phases[1] = "toolDispatch" /\ Phases[2] = "toolPoll" /\ Phases[3] = "toolResult"
      /\ Phases[4] = "input" /\ Phases[5] = "assembly" /\ Phases[6] = "llmDispatch"
      /\ Phases[7] = "llmPoll" /\ Phases[8] = "lifecycle" /\ Phases[9] = "queue"
      /\ Phases[10] = "delivery"
  BY DEF Phases
<1>3. \A i, j \in 1..10 : Phases[i] = Phases[j] => i = j
  <2>. SUFFICES ASSUME NEW i \in 1..10, NEW j \in 1..10, Phases[i] = Phases[j] PROVE i = j
    OBVIOUS
  <2>1. i \in {1, 2, 3, 4, 5, 6, 7, 8, 9, 10} /\ j \in {1, 2, 3, 4, 5, 6, 7, 8, 9, 10} OBVIOUS
  <2>. QED BY <2>1, <1>2
<1>4. ASSUME NEW i \in 1..10
      PROVE  After(Phases[i]) = IF i = 10 THEN "idle" ELSE Phases[i + 1]
  <2>. DEFINE j == CHOOSE k \in 1..Len(Phases) : Phases[k] = Phases[i]
  <2>1. j \in 1..10 /\ Phases[j] = Phases[i] BY <1>1
  <2>. HIDE DEF j
  <2>2. j = i BY <2>1, <1>3
  <2>. QED BY <2>2, <1>1 DEF After, j
<1>. HIDE DEF Phases, After
<1>5. /\ After(Phases[1]) = Phases[2] /\ After(Phases[2]) = Phases[3]
      /\ After(Phases[3]) = Phases[4] /\ After(Phases[4]) = Phases[5]
      /\ After(Phases[5]) = Phases[6] /\ After(Phases[6]) = Phases[7]
      /\ After(Phases[7]) = Phases[8] /\ After(Phases[8]) = Phases[9]
      /\ After(Phases[9]) = Phases[10] /\ After(Phases[10]) = "idle"
  BY <1>4
<1>. QED BY <1>2, <1>5, Zenon

\* A world is a change of itself, of every kind.
LEMMA NoChange ==
  ASSUME NEW w \in World
  PROVE  ToolChange(w, w) /\ ResolveChange(w, w) /\ AnswerChange(w, w) /\ EndChange(w, w)
BY DEF ToolChange, ResolveChange, AnswerChange, EndChange, Still, SameTools, SameRun, KeptIn, World

\* A handler changes the draft and takes events out of the batch.
LEMMA TakeTurn ==
  ASSUME TurnInv, batch' \subseteq batch, DraftFits',
         UNCHANGED <<world, phase, pending, resolving, streaming, compressing>>
  PROVE  TurnInv'
<1>1. Sound(world)' /\ StreamsFit(world, streaming)' BY DEF TurnInv, StreamsFit
<1>2. PassFits(world, phase)' BY DEF TurnInv, PassFits, MarksStart, MarksRest, MarksLeft
<1>3. (pending \cup batch)' \subseteq pending \cup batch OBVIOUS
<1>4. OrdinaryEvents' BY <1>3 DEF TurnInv, OrdinaryEvents
<1>5. SingleSend' BY DEF TurnInv, SingleSend
<1>6. ResolvedOnce' BY <1>3 DEF TurnInv, ResolvedOnce
<1>7. FinishedOnce' BY <1>3 DEF TurnInv, FinishedOnce
<1>. QED BY <1>1, <1>2, <1>4, <1>5, <1>6, <1>7 DEF TurnInv

\* A system ends. What it starts at the provider has the number the run had, or has now.
LEMMA CommitTurn ==
  ASSUME TypeOK, TypeOK', TurnInv, phase \in System, NEW d, Commit(d), Sound(d),
         PassFits(d, After(phase)),
         \A r \in Run : world.call[r] <= d.call[r],
         \A r \in Run : d.stage[r] \in {"resolving", "ready"} =>
           \/ world.call[r] < d.call[r]
           \/ world.stage[r] \in {"resolving", "ready"},
         StreamsFit(d, streaming'),
         \A i \in streaming' : i \in streaming \/
            (i[2] = world.call[i[1]] /\ world.stage[i[1]] = "ready"),
         \A i \in resolving' : i \in resolving \/
            (i[2] = d.call[i[1]] /\ world.call[i[1]] < i[2])
  PROVE  TurnInv'
<1>0. /\ world' = d /\ draft' = d /\ phase' = After(phase) /\ d \in World /\ world \in World
      /\ UNCHANGED <<batch, pending, compressing>>
  BY DEF Commit, external, TypeOK
<1>a. /\ \A r \in Run : world.call[r] \in Nat /\ d.call[r] \in Nat
      /\ \A e \in pending \cup batch : e.kind \in Resolve \cup Finish => e.run \in Run /\ e.no \in Nat
      /\ resolving \subseteq Run \X Nat /\ streaming \subseteq Run \X Nat
      /\ resolving' \subseteq Run \X Nat /\ streaming' \subseteq Run \X Nat
  <2>1. \A r \in Run : world.call[r] \in Nat /\ d.call[r] \in Nat BY <1>0 DEF World
  <2>2. \A e \in pending \cup batch : e \in Event BY DEF TypeOK
  <2>3. \A e \in Event : e.kind \in Resolve \cup Finish => e.run \in Run /\ e.no \in Nat
    BY DEF Event, Resolve, Finish, ConversationKind
  <2>. QED BY <2>1, <2>2, <2>3 DEF TypeOK
<1>1. Sound(world)' /\ StreamsFit(world, streaming)' BY <1>0 DEF StreamsFit
<1>2. PassFits(world, phase)' BY <1>0 DEF PassFits, MarksRest, MarksStart, MarksLeft
<1>3. OrdinaryEvents' /\ SingleSend' BY <1>0 DEF TurnInv, OrdinaryEvents, SingleSend
<1>4. ResolvedOnce'
  <2>1. \A i \in resolving' : i[2] <= d.call[i[1]]
    <3>. SUFFICES ASSUME NEW i \in resolving' PROVE i[2] <= d.call[i[1]] OBVIOUS
    <3>1. i[1] \in Run /\ i[2] \in Nat BY <1>a
    <3>2. CASE i \in resolving
      <4>1. i[2] <= world.call[i[1]] BY <3>2 DEF TurnInv, ResolvedOnce
      <4>2. world.call[i[1]] <= d.call[i[1]] /\ world.call[i[1]] \in Nat /\ d.call[i[1]] \in Nat
        BY <1>a, <3>1
      <4>. QED BY <3>1, <4>1, <4>2
    <3>3. CASE i[2] = d.call[i[1]] BY <3>1, <3>3
    <3>. QED BY <3>2, <3>3
  <2>2. ASSUME NEW e \in pending \cup batch, e.kind \in Resolve
        PROVE  e.no <= d.call[e.run] /\ <<e.run, e.no>> \notin resolving'
    <3>1. e.no <= world.call[e.run] /\ <<e.run, e.no>> \notin resolving
      BY <2>2 DEF TurnInv, ResolvedOnce
    <3>2. e.run \in Run /\ e.no \in Nat BY <1>a, <2>2
    <3>3. world.call[e.run] <= d.call[e.run] /\ world.call[e.run] \in Nat /\ d.call[e.run] \in Nat
      BY <1>a, <3>2
    <3>. QED BY <3>1, <3>2, <3>3
  <2>. QED BY <1>0, <2>1, <2>2 DEF TurnInv, ResolvedOnce
<1>5. FinishedOnce'
  <2>. SUFFICES ASSUME NEW e \in pending \cup batch, e.kind \in Finish
       PROVE  /\ e.no <= d.call[e.run] /\ <<e.run, e.no>> \notin streaming'
              /\ e.no = d.call[e.run] => d.stage[e.run] \in {"none", "inflight"}
    BY <1>0 DEF FinishedOnce
  <2>1. /\ e.no <= world.call[e.run] /\ <<e.run, e.no>> \notin streaming
        /\ e.no = world.call[e.run] => world.stage[e.run] \in {"none", "inflight"}
    BY DEF TurnInv, FinishedOnce
  <2>2. e.run \in Run /\ e.no \in Nat BY <1>a
  <2>3. world.call[e.run] <= d.call[e.run] /\ world.call[e.run] \in Nat /\ d.call[e.run] \in Nat
    BY <1>a, <2>2
  <2>4. e.no <= d.call[e.run] BY <2>1, <2>2, <2>3
  <2>5. <<e.run, e.no>> \notin streaming' BY <2>1
  <2>6. ASSUME e.no = d.call[e.run] PROVE d.stage[e.run] \in {"none", "inflight"}
    <3>1. e.no = world.call[e.run] /\ ~(world.call[e.run] < d.call[e.run])
      BY <2>1, <2>2, <2>3, <2>6
    <3>2. d.stage[e.run] \notin {"resolving", "ready"} BY <2>1, <2>2, <3>1
    <3>3. d.stage[e.run] \in Stage BY <1>0, <2>2 DEF World
    <3>. QED BY <3>2, <3>3 DEF Stage
  <2>. QED BY <2>4, <2>5, <2>6
<1>6. DraftFits'
  <2>1. ToolChange(d, d) /\ ResolveChange(d, d) /\ AnswerChange(d, d) /\ EndChange(d, d)
    BY <1>0, NoChange
  <2>2. draft' = world' BY <1>0
  <2>3. phase' = "toolPoll" => ToolChange(world', draft') BY <1>0, <2>1
  <2>4. phase' = "lifecycle" => EndChange(world', draft') BY <1>0, <2>1
  <2>5. phase' = "assembly" => ResolveDraft' BY <1>0, <2>1 DEF ResolveDraft, SameRun
  <2>6. phase' = "llmPoll" => AnswerDraft' BY <1>0, <2>1 DEF AnswerDraft, SameRun
  <2>7. phase' = "input" => SendDraft'
    <3>1. phase' = "input" => MarksStart(world)' BY <1>2 DEF PassFits, MarksLeft, MarksStart
    <3>. QED BY <1>1, <2>2, <3>1 DEF SendDraft, MarksStart
  <2>. QED BY <2>2, <2>3, <2>4, <2>5, <2>6, <2>7 DEF DraftFits
<1>. QED BY <1>1, <1>2, <1>3, <1>4, <1>5, <1>6 DEF TurnInv

\* The same for a system that starts nothing.
LEMMA EndTurn ==
  ASSUME TypeOK, TypeOK', TurnInv, phase \in System, NEW d, EndSystem(d), Sound(d),
         PassFits(d, After(phase)), d.call = world.call,
         \A r \in Run : d.stage[r] \in {world.stage[r], "none", "ready"},
         \A r \in Run : d.stage[r] = "ready" => world.stage[r] \in {"resolving", "ready"},
         StreamsFit(d, streaming)
  PROVE  TurnInv'
<1>1. Commit(d) /\ streaming' = streaming /\ resolving' = resolving BY DEF EndSystem
<1>2. world \in World /\ \A r \in Run : world.call[r] \in Nat /\ world.call[r] <= world.call[r]
  <2>1. world \in World BY DEF TypeOK
  <2>2. \A r \in Run : world.call[r] \in Nat BY <2>1 DEF World
  <2>. QED BY <2>1, <2>2
<1>3. \A r \in Run : d.stage[r] \in {"resolving", "ready"} => world.stage[r] \in {"resolving", "ready"}
  OBVIOUS
<1>4. StreamsFit(d, streaming') BY <1>1
<1>. QED BY <1>1, <1>2, <1>3, <1>4, CommitTurn

\* Between passes the world rests, whatever happens outside.
LEMMA IdleKeeps ==
  ASSUME TurnInv, phase = "idle", UNCHANGED <<world, draft, phase>>
  PROVE  Sound(world)' /\ PassFits(world, phase)' /\ DraftFits'
<1>1. Sound(world)' BY DEF TurnInv
<1>2. PassFits(world, phase)' BY DEF TurnInv, PassFits, MarksRest, MarksLeft
<1>3. DraftFits' BY DEF TurnInv, DraftFits
<1>. QED BY <1>1, <1>2, <1>3

--------------------------------------------------------------------------------
(* What happens between passes.                                            *)

LEMMA LifecycleKinds ==
  LifecycleKind = {"cancel", "cancelConversation", "promote", "reorder", "remove", "pauseQueue",
                   "resumeQueue", "resumeAll", "stale", "pause", "resume", "retry"}
<1>1. Len(LifecycleOrder) = 12 BY DEF LifecycleOrder
<1>2. LifecycleKind = {LifecycleOrder[i] : i \in 1..12} BY <1>1 DEF LifecycleKind
<1>3. 1..12 = {1, 2, 3, 4, 5, 6, 7, 8, 9, 10, 11, 12} OBVIOUS
<1>4. /\ LifecycleOrder[1] = "cancel" /\ LifecycleOrder[2] = "cancelConversation"
      /\ LifecycleOrder[3] = "promote" /\ LifecycleOrder[4] = "reorder"
      /\ LifecycleOrder[5] = "remove" /\ LifecycleOrder[6] = "pauseQueue"
      /\ LifecycleOrder[7] = "resumeQueue" /\ LifecycleOrder[8] = "resumeAll"
      /\ LifecycleOrder[9] = "stale" /\ LifecycleOrder[10] = "pause"
      /\ LifecycleOrder[11] = "resume" /\ LifecycleOrder[12] = "retry"
  BY DEF LifecycleOrder
<1>. QED BY <1>2, <1>3, <1>4

\* A pass begins with what waited.
LEMMA BeginTurn ==
  ASSUME TypeOK, TurnInv, BeginPass PROVE TurnInv'
<1>1. /\ phase = "idle" /\ phase' = "toolDispatch" /\ batch' = pending /\ pending' = {}
      /\ UNCHANGED <<world, draft, resolving, streaming, compressing>>
  BY DEF BeginPass, external, Phases
<1>2. Sound(world)' /\ StreamsFit(world, streaming)' BY <1>1 DEF TurnInv, StreamsFit
<1>3. PassFits(world, phase)' BY <1>1 DEF TurnInv, PassFits, MarksRest, MarksLeft
<1>4. (pending \cup batch)' \subseteq pending \cup batch BY <1>1
<1>5. OrdinaryEvents' /\ SingleSend' BY <1>1 DEF TurnInv, OrdinaryEvents, SingleSend
<1>6. ResolvedOnce' BY <1>1, <1>4 DEF TurnInv, ResolvedOnce
<1>7. FinishedOnce' BY <1>1, <1>4 DEF TurnInv, FinishedOnce
<1>8. DraftFits' BY <1>1 DEF TurnInv, DraftFits
<1>. QED BY <1>2, <1>3, <1>5, <1>6, <1>7, <1>8 DEF TurnInv

\* Events the provider's part of the invariant does not speak of arrive.
LEMMA ArrivalTurn ==
  ASSUME TurnInv, phase = "idle", NEW E, pending' = pending \cup E,
         \A e \in E : e.kind \notin Extraordinary \cup Resolve \cup Finish,
         \A e, f \in pending \cup E : e.kind = "send" /\ f.kind = "send" => e = f,
         UNCHANGED <<world, draft, phase, batch, resolving, streaming>>
  PROVE  TurnInv'
<1>1. Sound(world)' /\ PassFits(world, phase)' /\ DraftFits' BY IdleKeeps
<1>2. StreamsFit(world, streaming)' BY DEF TurnInv, StreamsFit
<1>3. OrdinaryEvents' /\ SingleSend' BY DEF TurnInv, OrdinaryEvents, SingleSend
<1>4. \A e \in (pending \cup batch)' : e \in pending \cup batch \/ e.kind \notin Resolve \cup Finish
  OBVIOUS
<1>5. ResolvedOnce' BY <1>4 DEF TurnInv, ResolvedOnce
<1>6. FinishedOnce' BY <1>4 DEF TurnInv, FinishedOnce
<1>. QED BY <1>1, <1>2, <1>3, <1>5, <1>6 DEF TurnInv

LEMMA UserTurn ==
  ASSUME OrdinaryUse, TypeOK, TurnInv,
         UserSends \/ UserRetries \/ \E kind \in UserKinds : UserCommand(kind)
  PROVE  TurnInv'
<1>1. CASE UserSends
  <2>. DEFINE sends == {e \in pending : e.kind = "send"}
  <2>. PICK new : new = Ev("send", 0, spent.spawns) OBVIOUS
  <2>1. /\ phase = "idle" /\ pending' = pending \cup {new} /\ Cardinality(sends) < SendsAtOnce
        /\ UNCHANGED <<world, draft, phase, batch, resolving, streaming>>
    BY <1>1 DEF UserSends, Enqueue, calm
  <2>2. sends = {}
    <3>. SUFFICES ASSUME NEW x \in sends PROVE FALSE OBVIOUS
    <3>1. sends = {x} BY DEF TurnInv, SingleSend
    <3>2. Cardinality(sends) = 1 BY <3>1, FS_Singleton
    <3>. QED BY <2>1, <3>2, BudgetAssumption DEF OrdinaryUse
  <2>3. new.kind = "send" BY DEF Ev
  <2>4. \A e \in {new} : e.kind \notin Extraordinary \cup Resolve \cup Finish
    BY <2>3 DEF Extraordinary, Resolve, Finish
  <2>5. \A e, f \in pending \cup {new} : e.kind = "send" /\ f.kind = "send" => e = f BY <2>2
  <2>6. phase = "idle" /\ pending' = pending \cup {new} BY <2>1
  <2>7. UNCHANGED <<world, draft, phase, batch, resolving, streaming>> BY <2>1
  <2>. HIDE DEF sends
  <2>. PICK E : E = {new} OBVIOUS
  <2>8. \A e \in E : e.kind \notin Extraordinary \cup Resolve \cup Finish BY <2>4
  <2>9. \A e, f \in pending \cup E : e.kind = "send" /\ f.kind = "send" => e = f BY <2>5
  <2>10. pending' = pending \cup E BY <2>6
  <2>11. phase = "idle" BY <2>6
  <2>. QED BY <2>7, <2>8, <2>9, <2>10, <2>11, ArrivalTurn
<1>2. CASE UserRetries BY <1>2 DEF UserRetries, OrdinaryUse, Extraordinary
<1>3. CASE \E kind \in UserKinds : UserCommand(kind)
  <2>1. PICK kind \in UserKinds : UserCommand(kind) BY <1>3
  <2>2. kind \notin Extraordinary BY DEF OrdinaryUse
  <2>3. UNCHANGED <<world, draft, phase, batch, resolving, streaming>>
    BY <2>1 DEF UserCommand, calm
  <2>4. PICK r, t : /\ phase = "idle" /\ pending' = pending \cup {Ev(kind, r, t)}
                    /\ kind \in LifecycleKind
    BY <2>1, <2>2, LifecycleKinds DEF UserCommand, Enqueue, Extraordinary
  <2>. DEFINE new == Ev(kind, r, t)
  <2>5. new.kind = kind BY DEF Ev
  <2>. HIDE DEF new
  <2>6. kind \notin Resolve \cup Finish \cup {"send"} BY <2>4, LifecycleKinds DEF Resolve, Finish
  <2>7. \A e, f \in pending \cup {new} : e.kind = "send" /\ f.kind = "send" => e = f
    BY <2>5, <2>6 DEF TurnInv, SingleSend
  <2>8. \A e \in {new} : e.kind \notin Extraordinary \cup Resolve \cup Finish BY <2>2, <2>5, <2>6
  <2>9. pending' = pending \cup {new} BY <2>4 DEF new
  <2>. QED BY <2>3, <2>4, <2>7, <2>8, <2>9, ArrivalTurn
<1>. QED BY <1>1, <1>2, <1>3

LEMMA ToolEventTurn ==
  ASSUME TypeOK, TurnInv, ProviderCallsTool \/ ToolEnds
  PROVE  TurnInv'
<1>1. PICK r, n, k : /\ phase = "idle" /\ pending' = pending \cup {Ev(k, r, n)}
                      /\ k \in {"toolCall", "toolState"}
  BY DEF ProviderCallsTool, ToolEnds, Enqueue
<1>2. UNCHANGED <<world, draft, phase, batch, resolving, streaming>>
  BY DEF ProviderCallsTool, ToolEnds, calm
<1>. DEFINE new == Ev(k, r, n)
<1>3. new.kind = k BY DEF Ev
<1>4. pending' = pending \cup {new} BY <1>1
<1>. HIDE DEF new
<1>5. \A e \in {new} : e.kind \notin Extraordinary \cup Resolve \cup Finish
  BY <1>1, <1>3 DEF Extraordinary, Resolve, Finish
<1>6. \A e, f \in pending \cup {new} : e.kind = "send" /\ f.kind = "send" => e = f
  BY <1>1, <1>3 DEF TurnInv, SingleSend
<1>. QED BY <1>1, <1>2, <1>4, <1>5, <1>6, ArrivalTurn

LEMMA CalmTurn ==
  ASSUME TypeOK, TurnInv, ContextLoads \/ CompressionBegins \/ CompressionEnds
  PROVE  TurnInv'
<1>. PICK none : none = {} OBVIOUS
<1>1. /\ phase = "idle" /\ pending' = pending \cup none
      /\ UNCHANGED <<world, draft, phase, batch, resolving, streaming>>
  BY DEF ContextLoads, CompressionBegins, CompressionEnds, calm
<1>2. \A e, f \in pending \cup none : e.kind = "send" /\ f.kind = "send" => e = f
  BY DEF TurnInv, SingleSend
<1>3. \A e \in none : e.kind \notin Extraordinary \cup Resolve \cup Finish OBVIOUS
<1>. QED BY <1>1, <1>2, <1>3, ArrivalTurn

\* An invocation that is resolved was not resolved before.
LEMMA ProviderResolvesTurn ==
  ASSUME TypeOK, TurnInv, ProviderResolves PROVE TurnInv'
<1>1. PICK i \in resolving, k \in Resolve :
         /\ phase = "idle" /\ pending' = pending \cup {Ev(k, i[1], i[2])}
         /\ resolving' = resolving \ {i}
  BY DEF ProviderResolves, Enqueue, Resolve
<1>2. UNCHANGED <<world, draft, phase, batch, streaming, compressing>>
  BY DEF ProviderResolves, calm, external
<1>. DEFINE new == Ev(k, i[1], i[2])
<1>3. new.kind = k /\ new.run = i[1] /\ new.no = i[2] BY DEF Ev
<1>4. pending' = pending \cup {new} BY <1>1
<1>5. i = <<i[1], i[2]>> BY DEF TypeOK
<1>. HIDE DEF new
<1>6. k \notin Extraordinary \cup Finish \cup {"send"} BY DEF Extraordinary, Resolve, Finish
<1>7. Sound(world)' /\ PassFits(world, phase)' /\ DraftFits' BY <1>1, <1>2, IdleKeeps
<1>8. StreamsFit(world, streaming)' BY <1>2 DEF TurnInv, StreamsFit
<1>9. OrdinaryEvents' /\ SingleSend'
  BY <1>2, <1>3, <1>4, <1>6 DEF TurnInv, OrdinaryEvents, SingleSend
<1>10. ResolvedOnce'
  <2>1. \A j \in resolving' : j[2] <= world.call[j[1]] BY <1>1 DEF TurnInv, ResolvedOnce
  <2>2. new.no <= world.call[new.run] /\ <<new.run, new.no>> \notin resolving'
    BY <1>1, <1>3, <1>5 DEF TurnInv, ResolvedOnce
  <2>3. \A e \in pending \cup batch : e.kind \in Resolve =>
          /\ e.no <= world.call[e.run] /\ <<e.run, e.no>> \notin resolving'
          /\ <<e.run, e.no>> # i
    BY <1>1 DEF TurnInv, ResolvedOnce
  <2>4. \A e \in pending \cup batch : e.kind \in Resolve => ~(e.run = new.run /\ e.no = new.no)
    BY <2>3, <1>3, <1>5
  <2>5. (pending \cup batch)' = (pending \cup batch) \cup {new} BY <1>2, <1>4
  <2>. QED BY <1>2, <2>1, <2>2, <2>3, <2>4, <2>5 DEF TurnInv, ResolvedOnce
<1>11. FinishedOnce' BY <1>2, <1>3, <1>4, <1>6 DEF TurnInv, FinishedOnce
<1>. QED BY <1>7, <1>8, <1>9, <1>10, <1>11 DEF TurnInv

\* A stream that ends was that of the request in flight.
LEMMA ProviderFinishesTurn ==
  ASSUME TypeOK, TurnInv, ProviderFinishes PROVE TurnInv'
<1>1. PICK i \in streaming, k \in Finish :
         /\ phase = "idle" /\ pending' = pending \cup {Ev(k, i[1], i[2])}
         /\ streaming' = streaming \ {i}
  BY DEF ProviderFinishes, Enqueue, Finish
<1>2. UNCHANGED <<world, draft, phase, batch, resolving, compressing>>
  BY DEF ProviderFinishes, calm, external
<1>. DEFINE new == Ev(k, i[1], i[2])
<1>3. new.kind = k /\ new.run = i[1] /\ new.no = i[2] BY DEF Ev
<1>4. pending' = pending \cup {new} BY <1>1
<1>5. i = <<i[1], i[2]>> /\ i[1] \in Run /\ i[2] \in Nat BY DEF TypeOK
<1>. HIDE DEF new
<1>6. k \notin Extraordinary \cup Resolve \cup {"send"} BY DEF Extraordinary, Resolve, Finish
<1>7. Sound(world)' /\ PassFits(world, phase)' /\ DraftFits' BY <1>1, <1>2, IdleKeeps
<1>8. StreamsFit(world, streaming)' BY <1>1, <1>2 DEF TurnInv, StreamsFit
<1>9. OrdinaryEvents' /\ SingleSend'
  BY <1>2, <1>3, <1>4, <1>6 DEF TurnInv, OrdinaryEvents, SingleSend
<1>10. ResolvedOnce' BY <1>2, <1>3, <1>4, <1>6 DEF TurnInv, ResolvedOnce
<1>11. FinishedOnce'
  <2>1. world.stage[i[1]] = "inflight" /\ world.call[i[1]] = i[2] BY DEF TurnInv, StreamsFit
  <2>2. i[2] <= world.call[i[1]] BY <1>5, <2>1
  <2>3. <<new.run, new.no>> \notin streaming' BY <1>1, <1>3, <1>5
  <2>4. \A e \in pending \cup batch : e.kind \in Finish =>
          /\ e.no <= world.call[e.run] /\ <<e.run, e.no>> \notin streaming'
          /\ e.no = world.call[e.run] => world.stage[e.run] \in {"none", "inflight"}
    BY <1>1 DEF TurnInv, FinishedOnce
  <2>5. (pending \cup batch)' = (pending \cup batch) \cup {new} BY <1>2, <1>4
  <2>. QED BY <1>2, <1>3, <2>1, <2>2, <2>3, <2>4, <2>5 DEF FinishedOnce
<1>. QED BY <1>7, <1>8, <1>9, <1>10, <1>11 DEF TurnInv

--------------------------------------------------------------------------------
(* The lifecycle system.                                                   *)

\* The runs of R that terminateRun ends.
Hit(w, R) == {r \in R : Active(w, r)}

\* What terminateRun does to the runs it hits, and leaves to the others.
LEMMA TerminateEffect ==
  ASSUME NEW w \in World, NEW d \in World, NEW R, NEW S, NEW status,
         NEW x, x = Terminate(w, d, R, status, S), NEW hit, hit = Hit(w, R)
  PROVE  /\ x.copies = d.copies /\ x.call = d.call /\ x.toolRun = d.toolRun
         /\ x.needsModel = d.needsModel \ hit /\ x.input = d.input \ hit
         /\ \A r \in Run : x.status[r] = IF r \in hit THEN status ELSE d.status[r]
         /\ \A r \in Run : x.stage[r] = IF r \in hit /\ HasRequest(w, r) THEN "none" ELSE d.stage[r]
         /\ d.consumed \subseteq x.consumed
         /\ \A t \in Tool : w.toolRun[t] \in hit /\ t \notin S => t \in w.consumed \cup x.consumed
         /\ \A t \in Tool : x.toolStatus[t] = d.toolStatus[t] \/ w.toolRun[t] \in hit
<1>. DEFINE st == [r \in Run |-> IF r \in hit THEN status ELSE d.status[r]]
            sg == [r \in Run |-> IF r \in hit /\ HasRequest(w, r) THEN "none" ELSE d.stage[r]]
            closed == {t \in Tool : w.toolRun[t] \in hit /\ t \notin w.consumed /\ t \notin S}
            ts == [t \in Tool |-> IF t \in closed /\ OpenTool(w, t) THEN "interrupted"
                                  ELSE d.toolStatus[t]]
<1>1. PICK m : m = [d EXCEPT !.status = st, !.input = @ \ hit] OBVIOUS
<1>2. /\ m.status = st /\ m.input = d.input \ hit /\ m.needsModel = d.needsModel
      /\ m.stage = d.stage /\ m.copies = d.copies /\ m.call = d.call
      /\ m.toolRun = d.toolRun /\ m.toolStatus = d.toolStatus /\ m.consumed = d.consumed
      /\ m.held = d.held /\ m = [m EXCEPT !.held = d.held]
  BY <1>1 DEF World
<1>3. PICK n : n = Release(w, m, hit) OBVIOUS
<1>4. /\ n.status = st /\ n.input = d.input \ hit /\ n.needsModel = d.needsModel
      /\ n.stage = d.stage /\ n.copies = d.copies /\ n.call = d.call
      /\ n.toolRun = d.toolRun /\ n.toolStatus = d.toolStatus /\ n.consumed = d.consumed
      /\ n = [d EXCEPT !.status = st, !.input = @ \ hit, !.held = @ \ (hit \cap w.held)]
  BY <1>1, <1>2, <1>3 DEF Release, World
<1>5. PICK o : o = DropRequests(w, n, hit) OBVIOUS
<1>6. /\ o.status = st /\ o.input = d.input \ hit /\ o.needsModel = d.needsModel \ hit
      /\ o.stage = sg /\ o.copies = d.copies /\ o.call = d.call
      /\ o.toolRun = d.toolRun /\ o.toolStatus = d.toolStatus /\ o.consumed = d.consumed
      /\ o = [d EXCEPT !.status = st, !.input = @ \ hit, !.held = @ \ (hit \cap w.held),
                       !.needsModel = @ \ hit, !.stage = sg]
  BY <1>4, <1>5 DEF DropRequests, World
<1>7. x = FailOpenToolCalls(w, o, hit, S)
  BY <1>1, <1>3, <1>5 DEF Terminate, Hit
<1>8. x = [o EXCEPT !.toolStatus = [t \in Tool |-> IF t \in closed /\ OpenTool(w, t)
                                                 THEN "interrupted" ELSE o.toolStatus[t]],
                    !.consumed = o.consumed \cup closed]
  BY <1>7 DEF FailOpenToolCalls
<1>9. x = [o EXCEPT !.toolStatus = ts, !.consumed = d.consumed \cup closed] BY <1>6, <1>8
<1>10. \A t \in Tool : ts[t] = d.toolStatus[t] \/ w.toolRun[t] \in hit OBVIOUS
<1>11. \A t \in Tool : w.toolRun[t] \in hit /\ t \notin S => t \in w.consumed \cup closed OBVIOUS
<1>12. \A r \in Run : /\ st[r] = IF r \in hit THEN status ELSE d.status[r]
                      /\ sg[r] = IF r \in hit /\ HasRequest(w, r) THEN "none" ELSE d.stage[r]
  OBVIOUS
<1>. HIDE DEF st, sg, ts, closed
<1>13. /\ x.status = st /\ x.input = d.input \ hit /\ x.needsModel = d.needsModel \ hit
       /\ x.stage = sg /\ x.copies = d.copies /\ x.call = d.call
       /\ x.toolRun = d.toolRun /\ x.toolStatus = ts /\ x.consumed = d.consumed \cup closed
  BY <1>6, <1>9 DEF World
<1>. QED BY <1>10, <1>11, <1>12, <1>13

\* Ending runs, once more, is a change of the lifecycle system's kind.
LEMMA TerminateChanges ==
  ASSUME NEW w \in World, NEW d \in World, EndChange(w, d),
         NEW R \in SUBSET Run, NEW S \in SUBSET Background, NEW status \in {"cancelled", "stale"}
  PROVE  EndChange(w, Terminate(w, d, R, status, S))
<1>1. PICK x : x = Terminate(w, d, R, status, S) OBVIOUS
<1>2. PICK hit : hit = Hit(w, R) OBVIOUS
<1>3. /\ x.copies = d.copies /\ x.call = d.call /\ x.toolRun = d.toolRun
      /\ x.needsModel = d.needsModel \ hit /\ x.input = d.input \ hit
      /\ \A r \in Run : x.status[r] = IF r \in hit THEN status ELSE d.status[r]
      /\ \A r \in Run : x.stage[r] = IF r \in hit /\ HasRequest(w, r) THEN "none" ELSE d.stage[r]
      /\ d.consumed \subseteq x.consumed
      /\ \A t \in Tool : w.toolRun[t] \in hit /\ t \notin S => t \in w.consumed \cup x.consumed
      /\ \A t \in Tool : x.toolStatus[t] = d.toolStatus[t] \/ w.toolRun[t] \in hit
  BY <1>1, <1>2, TerminateEffect
<1>4. w.consumed \subseteq x.consumed BY <1>3 DEF EndChange
<1>5. \A r \in Run : x.stage[r] \in {w.stage[r], "none"} BY <1>3 DEF EndChange
<1>6. \A r \in Run : r \in hit => EndedIn(w, x, r)
  <2>. SUFFICES ASSUME NEW r \in Run, r \in hit PROVE EndedIn(w, x, r) OBVIOUS
  <2>1. Active(w, r) /\ x.status[r] \in {"cancelled", "stale"} /\ r \notin x.needsModel \cup x.input
    BY <1>2, <1>3 DEF Hit
  <2>2. ~HasRequest(x, r) BY <1>3, <1>5 DEF HasRequest
  <2>3. \A t \in Tool \ Background : w.toolRun[t] = r => t \in x.consumed BY <1>3, <1>4
  <2>. QED BY <2>1, <2>2, <2>3 DEF EndedIn
<1>7. \A r \in Run : r \notin hit /\ EndedIn(w, d, r) => EndedIn(w, x, r)
  <2>. SUFFICES ASSUME NEW r \in Run, r \notin hit, EndedIn(w, d, r) PROVE EndedIn(w, x, r)
    OBVIOUS
  <2>1. x.status[r] = d.status[r] /\ x.stage[r] = d.stage[r] BY <1>3
  <2>. QED BY <1>3, <2>1 DEF EndedIn, HasRequest
<1>8. \A r \in Run : r \notin hit /\ KeptIn(w, d, r) => KeptIn(w, x, r)
  <2>. SUFFICES ASSUME NEW r \in Run, r \notin hit, KeptIn(w, d, r) PROVE KeptIn(w, x, r)
    OBVIOUS
  <2>1. x.status[r] = d.status[r] /\ x.stage[r] = d.stage[r] BY <1>3
  <2>. QED BY <1>3, <2>1 DEF KeptIn, SameRun
<1>9. \A r \in Run : EndedIn(w, x, r) \/ KeptIn(w, x, r) BY <1>6, <1>7, <1>8 DEF EndChange
<1>10. \A t \in Tool : \/ x.toolStatus[t] = w.toolStatus[t]
                       \/ w.toolRun[t] \in Run /\ EndedIn(w, x, w.toolRun[t])
  <2>. SUFFICES ASSUME NEW t \in Tool, x.toolStatus[t] # w.toolStatus[t]
       PROVE  w.toolRun[t] \in Run /\ EndedIn(w, x, w.toolRun[t])
    OBVIOUS
  <2>1. CASE w.toolRun[t] \in hit
    <3>1. w.toolRun[t] \in Run BY <1>2, <2>1 DEF Hit
    <3>. QED BY <1>6, <2>1, <3>1
  <2>2. CASE w.toolRun[t] \notin hit
    <3>1. x.toolStatus[t] = d.toolStatus[t] BY <1>3, <2>2
    <3>2. w.toolRun[t] \in Run /\ EndedIn(w, d, w.toolRun[t]) BY <3>1 DEF EndChange
    <3>. QED BY <1>7, <2>2, <3>2
  <2>. QED BY <2>1, <2>2
<1>11. /\ x.copies = w.copies /\ x.call = w.call /\ x.toolRun = w.toolRun
       /\ x.needsModel \subseteq w.needsModel /\ x.input \subseteq w.input
  BY <1>3 DEF EndChange
<1>. QED BY <1>1, <1>4, <1>5, <1>9, <1>10, <1>11 DEF EndChange

\* The queue's order and its holds are no part of the argument.
SameButOrder(d, x) ==
  /\ x.status = d.status /\ x.stage = d.stage /\ x.needsModel = d.needsModel /\ x.input = d.input
  /\ x.copies = d.copies /\ x.call = d.call /\ x.toolRun = d.toolRun
  /\ x.toolStatus = d.toolStatus /\ x.consumed = d.consumed

LEMMA OrderChanges ==
  ASSUME NEW w, NEW d, EndChange(w, d), NEW x, SameButOrder(d, x)
  PROVE  EndChange(w, x)
BY DEF SameButOrder, EndChange, EndedIn, KeptIn, SameRun, HasRequest

\* A handler of the lifecycle system.
LEMMA LifecycleTake ==
  ASSUME TurnInv, phase = "lifecycle", NEW e, NEW d, Take(e, d), EndChange(world, d)
  PROVE  TurnInv'
<1>1. /\ batch' \subseteq batch /\ draft' = d
      /\ UNCHANGED <<world, phase, pending, resolving, streaming, compressing>>
  BY DEF Take, external
<1>2. EndChange(world, draft)' BY <1>1 DEF EndChange, EndedIn, KeptIn, SameRun, HasRequest, Active
<1>3. DraftFits' BY <1>1, <1>2 DEF DraftFits
<1>. QED BY <1>1, <1>3, TakeTurn

\* The events that a handler of the lifecycle system takes.
LEMMA NextEvents ==
  ASSUME TypeOK, TurnInv, NEW kind \in LifecycleKind, NEW e \in NextOf(kind)
  PROVE  /\ phase = "lifecycle" /\ e.kind = kind /\ kind \notin Extraordinary
         /\ EndChange(world, draft) /\ world \in World /\ draft \in World
         /\ e.run \in 0..MaxRuns
<1>1. phase = "lifecycle" /\ e.kind = kind /\ e \in batch BY DEF NextOf, Of
<1>2. e \in Event BY <1>1 DEF TypeOK
<1>3. e.run \in 0..MaxRuns BY <1>2, BoundsAssumption DEF Event, Run
<1>. QED BY <1>1, <1>3 DEF TurnInv, OrdinaryEvents, DraftFits, TypeOK

LEMMA SparedAreBackground == Backgrounded(world) \in SUBSET Background
BY DEF Backgrounded

LEMMA EndingTurn ==
  ASSUME TypeOK, TurnInv, Cancel \/ CancelConversation \/ Promote \/ RemoveQueued \/ MarkStale
  PROVE  TurnInv'
<1>0. /\ "cancel" \in LifecycleKind /\ "cancelConversation" \in LifecycleKind
      /\ "promote" \in LifecycleKind /\ "remove" \in LifecycleKind /\ "stale" \in LifecycleKind
  BY LifecycleKinds
<1>1. CASE Cancel
  <2>1. PICK e \in NextOf("cancel") :
          Take(e, Terminate(world, draft, Family(world, e.run), "cancelled", Backgrounded(world)))
    BY <1>1 DEF Cancel
  <2>2. Family(world, e.run) \in SUBSET Run BY DEF Family
  <2>3. EndChange(world, Terminate(world, draft, Family(world, e.run), "cancelled", Backgrounded(world)))
    BY <1>0, <2>2, NextEvents, SparedAreBackground, TerminateChanges
  <2>. QED BY <1>0, <2>1, <2>3, NextEvents, LifecycleTake
<1>2. CASE CancelConversation
  <2>1. PICK e \in NextOf("cancelConversation") :
          Take(e, Terminate(world, draft, ActiveRuns(world), "cancelled", Backgrounded(world)))
    BY <1>2 DEF CancelConversation
  <2>2. ActiveRuns(world) \in SUBSET Run BY DEF ActiveRuns
  <2>3. EndChange(world, Terminate(world, draft, ActiveRuns(world), "cancelled", Backgrounded(world)))
    BY <1>0, <2>2, NextEvents, SparedAreBackground, TerminateChanges
  <2>. QED BY <1>0, <2>1, <2>3, NextEvents, LifecycleTake
<1>3. CASE Promote
  <2>1. PICK e \in NextOf("promote") :
          \/ \E first \in {world.order[q] : q \in Queued(world)} : Take(e, PromoteCommands(e.run, first))
          \/ Take(e, draft)
    BY <1>3 DEF Promote
  <2>2. CASE Take(e, draft) BY <1>0, <2>1, <2>2, NextEvents, LifecycleTake
  <2>3. CASE \E first \in {world.order[q] : q \in Queued(world)} :
               Take(e, PromoteCommands(e.run, first))
    <3>1. PICK first : Take(e, PromoteCommands(e.run, first)) BY <2>3
    <3>2. Displaced(e.run) \in SUBSET Run BY DEF Displaced, ActiveRuns
    <3>. DEFINE cleared == Terminate(world, draft, Displaced(e.run), "cancelled", Backgrounded(world))
    <3>3. EndChange(world, cleared)
      BY <1>0, <3>2, NextEvents, SparedAreBackground, TerminateChanges
    <3>4. PromoteCommands(e.run, first) =
            [[cleared EXCEPT !.held = @ \ ({e.run} \cap world.held)] EXCEPT !.order[e.run] = first - 1]
      BY DEF PromoteCommands, Release
    <3>6. SameButOrder(cleared, PromoteCommands(e.run, first))
      <4>1. DOMAIN cleared = DOMAIN draft
        BY Zenon DEF Terminate, FailOpenToolCalls, DropRequests, Release
      <4>2. draft \in World BY DEF TypeOK
      <4>3. {"status", "stage", "needsModel", "input", "copies", "call", "toolRun", "toolStatus",
             "consumed", "held", "order"} \subseteq DOMAIN cleared
        BY <4>1, <4>2 DEF World
      <4>. HIDE DEF cleared
      <4>. QED BY <3>4, <4>3 DEF SameButOrder
    <3>. HIDE DEF cleared
    <3>7. EndChange(world, PromoteCommands(e.run, first)) BY <3>3, <3>6, OrderChanges
    <3>. QED BY <1>0, <3>1, <3>7, NextEvents, LifecycleTake
  <2>. QED BY <2>1, <2>2, <2>3
<1>4. CASE RemoveQueued
  <2>1. PICK e \in NextOf("remove") :
          Take(e, Terminate(world, draft, {e.run} \cap Queued(world), "cancelled", Backgrounded(world)))
    BY <1>4 DEF RemoveQueued
  <2>2. {e.run} \cap Queued(world) \in SUBSET Run BY DEF Queued
  <2>3. EndChange(world, Terminate(world, draft, {e.run} \cap Queued(world), "cancelled", Backgrounded(world)))
    BY <1>0, <2>2, NextEvents, SparedAreBackground, TerminateChanges
  <2>. QED BY <1>0, <2>1, <2>3, NextEvents, LifecycleTake
<1>5. CASE MarkStale
  <2>1. PICK e \in NextOf("stale") : Take(e, Terminate(world, draft, {e.run}, "stale", {}))
    BY <1>5 DEF MarkStale
  <2>2. e.run \in Run
    <3>1. e \in Event /\ e.kind = "stale" BY DEF NextOf, Of, TypeOK
    <3>. QED BY <3>1 DEF Event, ConversationKind
  <2>3. {} \in SUBSET Background /\ {e.run} \in SUBSET Run BY <2>2
  <2>4. EndChange(world, Terminate(world, draft, {e.run}, "stale", {}))
    BY <1>0, <2>3, NextEvents, TerminateChanges
  <2>. QED BY <1>0, <2>1, <2>4, NextEvents, LifecycleTake
<1>. QED BY <1>1, <1>2, <1>3, <1>4, <1>5

LEMMA OrderingTurn ==
  ASSUME TypeOK, TurnInv, Reorder \/ HoldQueued \/ ReleaseQueued \/ ReleaseAll
  PROVE  TurnInv'
<1>0. /\ "reorder" \in LifecycleKind /\ "pauseQueue" \in LifecycleKind
      /\ "resumeQueue" \in LifecycleKind /\ "resumeAll" \in LifecycleKind
  BY LifecycleKinds
<1>1. draft \in World BY DEF TypeOK
<1>2. \A h : SameButOrder(draft, [draft EXCEPT !.held = h])
  BY <1>1 DEF SameButOrder, World
<1>3. \A o : SameButOrder(draft, [draft EXCEPT !.order = o])
  BY <1>1 DEF SameButOrder, World
<1>4. PICK kind, e, d : /\ kind \in LifecycleKind /\ e \in NextOf(kind)
                        /\ Take(e, d) /\ SameButOrder(draft, d)
  <2>1. CASE Reorder
    <3>1. PICK e \in NextOf("reorder") :
            Take(e, [draft EXCEPT !.order = [q \in Run |-> IF q \in Queued(world) THEN Place(q, e.run)
                                                           ELSE @[q]]])
      BY <2>1 DEF Reorder
    <3>. QED BY <1>0, <1>3, <3>1
  <2>2. CASE HoldQueued BY <1>0, <1>2, <2>2 DEF HoldQueued
  <2>3. CASE ReleaseQueued BY <1>0, <1>2, <2>3 DEF ReleaseQueued, Release
  <2>4. CASE ReleaseAll BY <1>0, <1>2, <2>4 DEF ReleaseAll, Release
  <2>. QED BY <2>1, <2>2, <2>3, <2>4
<1>5. EndChange(world, draft) /\ phase = "lifecycle" BY <1>4, NextEvents
<1>6. EndChange(world, d) BY <1>4, <1>5, OrderChanges
<1>. QED BY <1>4, <1>5, <1>6, LifecycleTake

LEMMA HandlerTurn ==
  ASSUME TypeOK, TurnInv, LifecycleHandler
  PROVE  TurnInv'
<1>1. "pause" \in LifecycleKind /\ "resume" \in LifecycleKind /\ "retry" \in LifecycleKind
  BY LifecycleKinds
<1>2. \A kind \in {"pause", "resume", "retry"} : NextOf(kind) = {}
  BY <1>1, NextEvents DEF Extraordinary
<1>3. ~Pause /\ ~Resume /\ ~Retry BY <1>2 DEF Pause, Resume, Retry
<1>. QED BY <1>3, EndingTurn, OrderingTurn DEF LifecycleHandler

\* What was ended is committed, and the streams of its requests are aborted.
LEMMA LifecycleTurn ==
  ASSUME TypeOK, TypeOK', TurnInv, Lifecycle
  PROVE  TurnInv'
<1>1. /\ phase = "lifecycle" /\ Commit(draft) /\ resolving' = resolving
      /\ streaming' = streaming \ (Live(world) \ Live(draft))
  BY DEF Lifecycle
<1>2. /\ EndChange(world, draft) /\ Sound(world) /\ MarksRest(world) /\ MarksLeft(world)
      /\ world \in World /\ draft \in World
  BY <1>1 DEF TurnInv, DraftFits, PassFits, TypeOK
<1>3. Sound(draft) /\ MarksRest(draft) /\ MarksLeft(draft) BY <1>2, EndChangeSound
<1>4. phase \in System BY <1>1, PhaseNames
<1>5. PassFits(draft, After(phase)) BY <1>1, <1>3, AfterNames DEF PassFits
<1>6. draft.call = world.call /\ \A r \in Run : draft.stage[r] \in {world.stage[r], "none"}
  BY <1>2 DEF EndChange
<1>7. StreamsFit(draft, streaming')
  <2>. SUFFICES ASSUME NEW i \in streaming'
       PROVE  draft.stage[i[1]] = "inflight" /\ draft.call[i[1]] = i[2]
    BY DEF StreamsFit
  <2>1. i \in streaming /\ i = <<i[1], i[2]>> /\ i[1] \in Run BY <1>1 DEF TypeOK
  <2>2. world.stage[i[1]] = "inflight" /\ world.call[i[1]] = i[2]
    BY <2>1 DEF TurnInv, StreamsFit
  <2>3. i \in Live(world) BY <2>1, <2>2 DEF Live
  <2>4. i \in Live(draft) BY <1>1, <2>3
  <2>5. PICK r \in Run : draft.stage[r] = "inflight" /\ i = <<r, draft.call[r]>>
    BY <2>4 DEF Live
  <2>. QED BY <2>5
<1>8. \A r \in Run : world.call[r] <= draft.call[r]
  <2>1. \A r \in Run : world.call[r] \in Nat BY <1>2 DEF World
  <2>. QED BY <1>6, <2>1
<1>9. \A r \in Run : draft.stage[r] \in {"resolving", "ready"} =>
         \/ world.call[r] < draft.call[r]
         \/ world.stage[r] \in {"resolving", "ready"}
  BY <1>6
<1>. QED BY <1>1, <1>3, <1>4, <1>5, <1>7, <1>8, <1>9, CommitTurn

--------------------------------------------------------------------------------
(* The tool systems and the messages of the user.                          *)

LEMMA ToolEndTurn ==
  ASSUME TypeOK, TypeOK', TurnInv, phase \in {"toolDispatch", "toolPoll"},
         NEW d \in World, EndSystem(d), ToolChange(world, d)
  PROVE  TurnInv'
<1>1. Sound(world) /\ MarksRest(world) /\ MarksLeft(world) /\ world \in World /\ StreamsFit(world, streaming)
  BY DEF TurnInv, PassFits, TypeOK
<1>2. Sound(d) BY <1>1, ToolChangeSound
<1>3. d.call = world.call /\ d.stage = world.stage /\ d.status = world.status
      /\ d.needsModel = world.needsModel
  BY DEF ToolChange, Still
<1>4. MarksRest(d) /\ MarksLeft(d) BY <1>1, <1>3 DEF MarksRest, MarksLeft
<1>5. phase \in System /\ After(phase) \in {"toolPoll", "toolResult"} BY PhaseNames, AfterNames
<1>6. PassFits(d, After(phase)) BY <1>4, <1>5 DEF PassFits
<1>7. StreamsFit(d, streaming) BY <1>1, <1>3 DEF StreamsFit
<1>8. /\ \A r \in Run : d.stage[r] \in {world.stage[r], "none", "ready"}
      /\ \A r \in Run : d.stage[r] = "ready" => world.stage[r] \in {"resolving", "ready"}
  BY <1>3
<1>. QED BY <1>2, <1>3, <1>5, <1>6, <1>7, <1>8, EndTurn

LEMMA ToolsTurn ==
  ASSUME TypeOK, TypeOK', TurnInv, CancelTool \/ ToolDispatch \/ ToolState \/ ToolPoll
  PROVE  TurnInv'
<1>0. world \in World /\ draft \in World BY DEF TypeOK
<1>1. CASE CancelTool
  BY <1>1 DEF CancelTool, Of, TurnInv, OrdinaryEvents, Extraordinary
<1>2. CASE ToolDispatch
  <2>. DEFINE ts == [t \in Tool |-> DispatchedStatus(t)]
  <2>1. PICK d : d = [draft EXCEPT !.toolStatus = ts] OBVIOUS
  <2>2. phase = "toolDispatch" /\ EndSystem(d) /\ draft = world
    BY <1>2, <2>1 DEF ToolDispatch, TurnInv, DraftFits
  <2>3. d \in World BY <2>2 DEF EndSystem, Commit, TypeOK
  <2>4. \A t \in Tool : ts[t] = "interrupted" => world.toolStatus[t] = "interrupted"
    BY <2>2 DEF DispatchedStatus
  <2>. HIDE DEF ts
  <2>5. ToolChange(world, d) BY <1>0, <2>1, <2>2, <2>4 DEF ToolChange, Still, World
  <2>. QED BY <2>2, <2>3, <2>5, ToolEndTurn
<1>3. CASE ToolState
  <2>1. PICK e : Take(e, IF world.toolStatus[e.no] = "executing"
               THEN [draft EXCEPT !.toolStatus[e.no] = "settled"] ELSE draft)
    BY <1>3 DEF ToolState
  <2>2. phase = "toolPoll" /\ ToolChange(world, draft) BY <1>3 DEF ToolState, TurnInv, DraftFits
  <2>3. PICK d : /\ Take(e, d)
                 /\ d = draft \/ d = [draft EXCEPT !.toolStatus[e.no] = "settled"]
    BY <2>1
  <2>4. ToolChange(world, d)
    <3>1. CASE d = [draft EXCEPT !.toolStatus[e.no] = "settled"]
      BY <1>0, <2>2, <3>1 DEF ToolChange, Still, World
    <3>. QED BY <2>2, <2>3, <3>1
  <2>5. /\ batch' \subseteq batch /\ draft' = d
        /\ UNCHANGED <<world, phase, pending, resolving, streaming, compressing>>
    BY <2>3 DEF Take, external
  <2>6. ToolChange(world, draft)' BY <2>4, <2>5 DEF ToolChange, Still
  <2>7. DraftFits' BY <2>2, <2>5, <2>6 DEF DraftFits
  <2>. QED BY <2>5, <2>7, TakeTurn
<1>4. CASE ToolPoll
  <2>1. phase = "toolPoll" /\ EndSystem(draft) /\ ToolChange(world, draft)
    BY <1>4 DEF ToolPoll, TurnInv, DraftFits
  <2>. QED BY <1>0, <2>1, ToolEndTurn
<1>. QED BY <1>1, <1>2, <1>3, <1>4

\* A run whose tools are done was engaged before.
LEMMA ToolResultTurn ==
  ASSUME TypeOK, TypeOK', TurnInv, ToolResult
  PROVE  TurnInv'
<1>0. /\ phase = "toolResult" /\ draft = world /\ world \in World
      /\ Sound(world) /\ MarksRest(world) /\ MarksLeft(world) /\ StreamsFit(world, streaming)
  BY DEF ToolResult, TurnInv, DraftFits, PassFits, TypeOK
<1>. DEFINE ready == {r \in {world.toolRun[t] : t \in Settling} : ~PendingToolWork(r)}
            ended == {r \in ready : AllInterrupted(r)}
            st == [r \in Run |-> IF r \in ended THEN "cancelled"
                                 ELSE IF r \in ready THEN "running" ELSE world.status[r]]
<1>1. PICK d : d = [world EXCEPT !.consumed = @ \cup Settling, !.status = st,
                                 !.needsModel = (@ \cup ready) \ ended]
  OBVIOUS
<1>2. EndSystem(d) BY <1>0, <1>1 DEF ToolResult
<1>3. ready \subseteq ActiveRuns(world) /\ Settling \subseteq Tool BY DEF Settling
<1>4. ended = {}
  <2>. SUFFICES ASSUME NEW r \in ended PROVE FALSE OBVIOUS
  <2>1. r \in ActiveRuns(world) BY <1>3
  <2>2. PICK t \in Tool : world.toolRun[t] = r /\ world.toolStatus[t] = "interrupted"
    BY DEF AllInterrupted
  <2>3. world.status[r] \in Terminal BY <1>0, <2>2 DEF Sound, ToolsFit
  <2>. QED BY <2>1, <2>3 DEF ActiveRuns, Active
<1>5. \A r \in ready : world.status[r] \notin {"none", "queued", "preparing"}
  BY <1>0 DEF Settling, ActiveRuns, Sound, ToolsFit
<1>6. \A r \in Run : st[r] = IF r \in ready THEN "running" ELSE world.status[r]
  BY <1>4
<1>. HIDE DEF ready, ended, st
<1>7. /\ d.status = st /\ d.needsModel = world.needsModel \cup ready
      /\ d.consumed = world.consumed \cup Settling
      /\ d.stage = world.stage /\ d.call = world.call /\ d.input = world.input
      /\ d.copies = world.copies /\ d.toolRun = world.toolRun /\ d.toolStatus = world.toolStatus
  BY <1>0, <1>1, <1>4 DEF World
<1>8. world.needsModel \subseteq Run /\ world.input \subseteq Run /\ ready \subseteq Run
  BY <1>0, <1>3 DEF World, ActiveRuns
<1>9. \A r \in ready : Active(world, r) /\ Engaged(world, r)
  BY <1>3, <1>5 DEF ActiveRuns, Engaged
<1>10. \A r \in Run : Engaged(d, r) => Engaged(world, r)
  BY <1>6, <1>7, <1>9 DEF Engaged, Active
<1>11. Alone(d) BY <1>0, <1>10 DEF Sound, Alone
<1>12. MarksFit(d) BY <1>0, <1>6, <1>7, <1>8 DEF Sound, MarksFit
<1>13. CallsFit(d)
  <2>1. \A r \in Run : HasRequest(d, r) <=> HasRequest(world, r) BY <1>7 DEF HasRequest
  <2>2. \A r \in Run : Active(world, r) => Active(d, r) BY <1>6, <1>7 DEF Active, Terminal
  <2>. QED BY <1>0, <1>6, <1>7, <2>1, <2>2 DEF Sound, CallsFit
<1>14. InputsFit(d)
  <2>1. \A r \in world.input : r \notin ready BY <1>0, <1>5 DEF Sound, InputsFit
  <2>. QED BY <1>0, <1>6, <1>7, <1>8, <2>1 DEF Sound, InputsFit
<1>15. CopiesFit(d) BY <1>0, <1>6, <1>7 DEF Sound, CopiesFit
<1>16. ToolsFit(d)
  <2>1. \A r \in Run : world.status[r] \in Terminal => r \notin ready BY <1>9 DEF Active
  <2>. QED BY <1>0, <1>6, <1>7, <2>1 DEF Sound, ToolsFit
<1>17. Closed(d) BY <1>0, <1>6, <1>7 DEF Sound, Closed
<1>18. Sound(d) BY <1>11, <1>12, <1>13, <1>14, <1>15, <1>16, <1>17 DEF Sound
<1>19. MarksLeft(d) BY <1>0, <1>6, <1>7, <1>8 DEF MarksLeft
<1>20. PassFits(d, After(phase)) BY <1>0, <1>19, AfterNames DEF PassFits
<1>21. StreamsFit(d, streaming) BY <1>0, <1>7 DEF StreamsFit
<1>22. phase \in System BY <1>0, PhaseNames
<1>23. /\ d.call = world.call
       /\ \A r \in Run : d.stage[r] \in {world.stage[r], "none", "ready"}
       /\ \A r \in Run : d.stage[r] = "ready" => world.stage[r] \in {"resolving", "ready"}
  BY <1>7
<1>. QED BY <1>2, <1>18, <1>20, <1>21, <1>22, <1>23, EndTurn

\* A message goes to the model only when no run is active.
LEMMA SendTurn ==
  ASSUME TypeOK, TypeOK', TurnInv, Send
  PROVE  TurnInv'
<1>. DEFINE direct == ActiveRuns(world) = {} /\ ~compressing
<1>1. PICK e \in Of({"send"}), n \in Run :
        /\ Fresh(draft, n)
        /\ Take(e, IF direct
                   THEN [Spawn(draft, n, direct, ~direct, 0) EXCEPT !.copies[n] = 1]
                   ELSE Spawn(draft, n, direct, ~direct, 0))
  BY Zenon DEF Send
<1>2. e \in batch /\ e.kind = "send" /\ phase = "input" BY DEF Of, Send
<1>3. /\ draft = world /\ world \in World /\ Sound(world) /\ MarksLeft(world)
  BY <1>2 DEF TurnInv, DraftFits, SendDraft, PassFits, TypeOK
<1>4. PICK x : /\ Take(e, x)
               /\ x = IF direct
                      THEN [Spawn(draft, n, direct, ~direct, 0) EXCEPT !.copies[n] = 1]
                      ELSE Spawn(draft, n, direct, ~direct, 0)
  BY <1>1
<1>5. /\ batch' = batch \ {e} /\ draft' = x
      /\ UNCHANGED <<world, phase, pending, resolving, streaming, compressing>>
  BY <1>4 DEF Take, external
<1>6. world.status[n] = "none" BY <1>1, <1>3 DEF Fresh
<1>. DEFINE st == [world.status EXCEPT ![n] = "queued"]
            cp == IF direct THEN [world.copies EXCEPT ![n] = 1] ELSE world.copies
<1>7. /\ x.status = st /\ x.copies = cp
      /\ x.needsModel = IF direct THEN world.needsModel \cup {n} ELSE world.needsModel
      /\ x.input = IF direct THEN world.input ELSE world.input \cup {n}
      /\ x.stage = world.stage /\ x.call = world.call /\ x.toolRun = world.toolRun
      /\ x.toolStatus = world.toolStatus /\ x.consumed = world.consumed
  <2>. HIDE DEF direct
  <2>1. CASE direct BY <1>3, <1>4, <2>1 DEF Spawn, World
  <2>2. CASE ~direct BY <1>3, <1>4, <2>2 DEF Spawn, World
  <2>. QED BY <2>1, <2>2
<1>8. /\ \A r \in Run : st[r] = IF r = n THEN "queued" ELSE world.status[r]
      /\ \A r \in Run : cp[r] = IF r = n /\ direct THEN 1 ELSE world.copies[r]
  BY <1>3 DEF World
<1>9. world.needsModel \subseteq Run /\ world.input \subseteq Run BY <1>3 DEF World
<1>10. /\ n \notin world.needsModel /\ n \notin world.input /\ world.stage[n] = "none"
       /\ world.copies[n] = 0 /\ \A t \in Tool : world.toolRun[t] # n
  BY <1>3, <1>6 DEF Sound, MarksFit, InputsFit, CallsFit, CopiesFit, ToolsFit
<1>11. direct => \A r \in Run : ~Active(world, r) BY DEF ActiveRuns
<1>. HIDE DEF st, cp, direct
<1>12. \A r \in Run : Engaged(x, r) => (Engaged(world, r) /\ r # n) \/ (direct /\ r = n)
  BY <1>7, <1>8, <1>10 DEF Engaged, Active
<1>13. Alone(x)
  <2>1. direct => \A r \in Run : ~Engaged(world, r) BY <1>11 DEF Engaged
  <2>. QED BY <1>3, <1>12, <2>1 DEF Sound, Alone
<1>14. MarksFit(x) BY <1>3, <1>7, <1>8, <1>9 DEF Sound, MarksFit
<1>15. CallsFit(x)
  <2>. SUFFICES ASSUME NEW r \in Run
       PROVE  /\ x.stage[r] # "none" => x.status[r] \notin {"none", "queued", "preparing", "delivering"}
              /\ HasRequest(x, r) => Active(x, r)
    BY DEF CallsFit
  <2>1. CASE r = n BY <1>7, <1>10, <2>1 DEF HasRequest
  <2>2. CASE r # n BY <1>3, <1>7, <1>8, <2>2 DEF Sound, CallsFit, HasRequest, Active
  <2>. QED BY <2>1, <2>2
<1>16. InputsFit(x)
  <2>. SUFFICES ASSUME NEW r \in x.input
       PROVE  x.status[r] = "queued" /\ x.copies[r] = 0 /\ r \notin x.needsModel
    BY DEF InputsFit
  <2>1. CASE r = n BY <1>7, <1>8, <1>10, <2>1
  <2>2. CASE r # n
    <3>1. r \in world.input BY <1>7, <2>2
    <3>. QED BY <1>3, <1>7, <1>8, <1>9, <2>2, <3>1 DEF Sound, InputsFit
  <2>. QED BY <2>1, <2>2
<1>17. CopiesFit(x)
  <2>. SUFFICES ASSUME NEW r \in Run
       PROVE  x.copies[r] <= 1 /\ (x.status[r] = "none" => x.copies[r] = 0)
    BY DEF CopiesFit
  <2>1. CASE r = n
    <3>1. x.status[r] = "queued" BY <1>7, <1>8, <2>1
    <3>2. x.copies[r] = 1 \/ x.copies[r] = 0 BY <1>7, <1>8, <1>10, <2>1
    <3>. QED BY <3>1, <3>2
  <2>2. CASE r # n BY <1>3, <1>7, <1>8, <2>2 DEF Sound, CopiesFit
  <2>. QED BY <2>1, <2>2
<1>18. ToolsFit(x) BY <1>3, <1>7, <1>8, <1>10 DEF Sound, ToolsFit
<1>19. Closed(x) BY <1>3, <1>7, <1>8, <1>10 DEF Sound, Closed
<1>20. Sound(x) BY <1>13, <1>14, <1>15, <1>16, <1>17, <1>18, <1>19 DEF Sound
<1>21. MarksStart(x)
  <2>1. direct => ~compressing BY DEF direct
  <2>. SUFFICES ASSUME NEW r \in x.needsModel, x.status[r] = "queued" PROVE ~compressing
    BY DEF MarksStart
  <2>2. CASE r = n BY <1>7, <1>10, <2>1, <2>2
  <2>3. CASE r # n
    <3>1. r \in world.needsModel BY <1>7, <2>3
    <3>2. world.status[r] = "queued" BY <1>7, <1>8, <1>9, <2>3, <3>1
    <3>. QED BY <1>3, <3>1, <3>2 DEF MarksLeft
  <2>. QED BY <2>2, <2>3
<1>22. SendDraft'
  <2>1. MarksStart(draft)' BY <1>5, <1>21 DEF MarksStart
  <2>2. (draft.stage = world.stage /\ draft.call = world.call)' BY <1>5, <1>7
  <2>3. ~(\E f \in batch' : f.kind = "send") BY <1>2, <1>5 DEF TurnInv, SingleSend
  <2>4. Sound(draft)' BY <1>5, <1>20
  <2>5. (world.input \subseteq draft.input)' BY <1>5, <1>7
  <2>. QED BY <2>1, <2>2, <2>3, <2>4, <2>5 DEF SendDraft
<1>23. DraftFits' BY <1>2, <1>5, <1>22 DEF DraftFits
<1>24. batch' \subseteq batch BY <1>5
<1>. QED BY <1>5, <1>23, <1>24, TakeTurn

LEMMA InputTurn ==
  ASSUME TypeOK, TypeOK', TurnInv, Input
  PROVE  TurnInv'
<1>1. /\ phase = "input" /\ EndSystem(draft) /\ Sound(draft) /\ MarksStart(draft)
      /\ draft.stage = world.stage /\ draft.call = world.call /\ StreamsFit(world, streaming)
  BY DEF Input, TurnInv, DraftFits, SendDraft
<1>2. phase \in System BY <1>1, PhaseNames
<1>3. PassFits(draft, After(phase)) BY <1>1, AfterNames DEF PassFits
<1>4. StreamsFit(draft, streaming) BY <1>1 DEF StreamsFit
<1>5. /\ \A r \in Run : draft.stage[r] \in {world.stage[r], "none", "ready"}
      /\ \A r \in Run : draft.stage[r] = "ready" => world.stage[r] \in {"resolving", "ready"}
  BY <1>1
<1>. QED BY <1>1, <1>2, <1>3, <1>4, <1>5, EndTurn

--------------------------------------------------------------------------------
(* The context assembly.                                                   *)

\* An invocation that is resolved becomes a request or is put away, once.
LEMMA ResolvedTurn ==
  ASSUME TypeOK, TurnInv, InvocationResolved \/ InvocationResolveError
  PROVE  TurnInv'
<1>0. /\ world \in World /\ draft \in World /\ phase = "assembly"
      /\ ResolveChange(world, draft)
      /\ \A f \in batch : f.kind \in Resolve /\ f.no = world.call[f.run] =>
           SameRun(world, draft, f.run)
  BY DEF TypeOK, TurnInv, DraftFits, ResolveDraft, InvocationResolved, InvocationResolveError
<1>1. PICK e, d :
        /\ e \in batch /\ e.kind \in Resolve /\ Take(e, d)
        /\ \/ ~InvocationOf(e) /\ d = draft
           \/ InvocationOf(e) /\ ~Active(world, e.run) /\ d = [draft EXCEPT !.stage[e.run] = "none"]
           \/ /\ InvocationOf(e) /\ Active(world, e.run)
              /\ \/ d = [draft EXCEPT !.stage[e.run] = "ready", !.turn[e.run] = e.no]
                 \/ d = [draft EXCEPT !.stage[e.run] = "none", !.status[e.run] = "failed"]
  <2>1. CASE InvocationResolved BY <2>1 DEF InvocationResolved, Of, Resolve
  <2>2. CASE InvocationResolveError BY <2>2 DEF InvocationResolveError, Of, Resolve
  <2>. QED BY <2>1, <2>2
<1>2. e.run \in Run BY <1>1 DEF TypeOK, Event, Resolve, ConversationKind
<1>3. /\ batch' = batch \ {e} /\ draft' = d
      /\ UNCHANGED <<world, phase, pending, resolving, streaming, compressing>>
  BY <1>1 DEF Take, external
<1>4. /\ Still(world, d) /\ SameTools(world, d)
      /\ \A r \in Run : r # e.run => d.stage[r] = draft.stage[r] /\ d.status[r] = draft.status[r]
  <2>1. Still(world, draft) /\ SameTools(world, draft) BY <1>0 DEF ResolveChange
  <2>2. CASE d = draft BY <2>1, <2>2
  <2>3. CASE d = [draft EXCEPT !.stage[e.run] = "none"]
    BY <1>0, <2>1, <2>3 DEF World, Still, SameTools
  <2>4. CASE d = [draft EXCEPT !.stage[e.run] = "ready", !.turn[e.run] = e.no]
    BY <1>0, <2>1, <2>4 DEF World, Still, SameTools
  <2>5. CASE d = [draft EXCEPT !.stage[e.run] = "none", !.status[e.run] = "failed"]
    BY <1>0, <2>1, <2>5 DEF World, Still, SameTools
  <2>. QED BY <1>1, <2>2, <2>3, <2>4, <2>5
<1>5. InvocationOf(e) => SameRun(world, draft, e.run) BY <1>0, <1>1 DEF InvocationOf
<1>6. InvocationOf(e) => ResolvedIn(world, d, e.run)
  <2>. SUFFICES ASSUME InvocationOf(e) PROVE ResolvedIn(world, d, e.run) OBVIOUS
  <2>1. world.stage[e.run] = "resolving" /\ draft.status[e.run] = world.status[e.run]
    BY <1>5 DEF InvocationOf, SameRun
  <2>2. CASE d = [draft EXCEPT !.stage[e.run] = "none"]
    <3>1. d.stage[e.run] = "none" /\ d.status[e.run] = draft.status[e.run]
      BY <1>0, <1>2, <2>2 DEF World
    <3>. QED BY <2>1, <3>1 DEF ResolvedIn
  <2>3. CASE /\ Active(world, e.run)
             /\ d = [draft EXCEPT !.stage[e.run] = "ready", !.turn[e.run] = e.no]
    <3>1. d.stage[e.run] = "ready" /\ d.status[e.run] = draft.status[e.run]
      BY <1>0, <1>2, <2>3 DEF World
    <3>. QED BY <2>1, <2>3, <3>1 DEF ResolvedIn
  <2>4. CASE /\ Active(world, e.run)
             /\ d = [draft EXCEPT !.stage[e.run] = "none", !.status[e.run] = "failed"]
    <3>1. d.stage[e.run] = "none" /\ d.status[e.run] = "failed"
      BY <1>0, <1>2, <2>4 DEF World
    <3>. QED BY <2>1, <2>4, <3>1 DEF ResolvedIn
  <2>. QED BY <1>1, <2>2, <2>3, <2>4
<1>7. ResolveChange(world, d)
  <2>1. \A r \in Run : r # e.run => SameRun(world, d, r) \/ ResolvedIn(world, d, r)
    BY <1>0, <1>4 DEF ResolveChange, SameRun, ResolvedIn
  <2>2. ~InvocationOf(e) => d = draft BY <1>1
  <2>. QED BY <1>0, <1>4, <1>6, <2>1, <2>2 DEF ResolveChange
<1>8. \A f \in batch' : f.kind \in Resolve /\ f.no = world.call[f.run] => SameRun(world, d, f.run)
  <2>. SUFFICES ASSUME NEW f \in batch, f # e, f.kind \in Resolve, f.no = world.call[f.run]
       PROVE  SameRun(world, d, f.run)
    BY <1>3
  <2>1. SameRun(world, draft, f.run) BY <1>0
  <2>2. f.run \in Run BY DEF TypeOK, Event, Resolve, ConversationKind
  <2>3. CASE ~InvocationOf(e) BY <1>1, <2>1, <2>3
  <2>4. CASE InvocationOf(e)
    <3>1. f.run # e.run BY <1>1, <2>4 DEF InvocationOf, TurnInv, ResolvedOnce
    <3>. QED BY <1>4, <2>1, <2>2, <3>1 DEF SameRun
  <2>. QED BY <2>3, <2>4
<1>9. ResolveDraft'
  BY <1>3, <1>7, <1>8 DEF ResolveDraft, ResolveChange, Still, SameTools, SameRun, ResolvedIn, Active
<1>10. DraftFits' BY <1>0, <1>3, <1>9 DEF DraftFits
<1>11. batch' \subseteq batch BY <1>3
<1>. QED BY <1>3, <1>10, <1>11, TakeTurn

\* The waiting runs whose messages a starting run draws in, and the marked runs that wait for the
\* context.
Drained == IF Starting = {} THEN {} ELSE Waiting(world) \cap world.input
Unready == {r \in world.needsModel : ~loaded /\ world.stage[r] = "none"}

LEMMA AssembleEffect ==
  ASSUME world \in World, NEW d \in World
  PROVE  LET x == Assemble(d)
         IN /\ x.needsModel = d.needsModel \ (Drained \cup Starting
                                              \cup {r \in Run : world.stage[r] # "none"})
            /\ x.input = d.input \ Drained
            /\ x.toolRun = d.toolRun /\ x.toolStatus = d.toolStatus /\ x.consumed = d.consumed
            /\ \A r \in Run :
                 /\ x.status[r] =
                      IF r \in Starting /\ world.status[r] \in {"queued", "preparing"}
                      THEN "running"
                      ELSE IF r \in Unready /\ world.status[r] = "queued" THEN "preparing"
                      ELSE IF r \in Drained THEN "cancelled" ELSE d.status[r]
                 /\ x.stage[r] = IF r \in Starting THEN "resolving" ELSE d.stage[r]
                 /\ x.call[r] = IF r \in Starting THEN d.call[r] + 1 ELSE d.call[r]
                 /\ x.copies[r] = IF r \in Drained THEN d.copies[r] + Cardinality(Starting)
                                  ELSE d.copies[r]
<1>1. PICK x : x = Assemble(d) OBVIOUS
<1>2. PICK drained : drained = Drained OBVIOUS
<1>3. PICK count : count = Cardinality(Starting) OBVIOUS
<1>4. PICK unready : unready = Unready OBVIOUS
<1>5. PICK start : start = Starting OBVIOUS
<1>6. drained \subseteq world.input BY <1>2 DEF Drained
<1>7. PICK m : m = Materialize(world, d, drained, count) OBVIOUS
<1>8. /\ m.status = d.status /\ m.needsModel = d.needsModel /\ m.stage = d.stage
      /\ m.call = d.call /\ m.input = d.input \ drained /\ m.held = d.held
      /\ m.toolRun = d.toolRun /\ m.toolStatus = d.toolStatus /\ m.consumed = d.consumed
      /\ m.copies = [r \in Run |-> IF r \in drained THEN d.copies[r] + count ELSE d.copies[r]]
      /\ DOMAIN m = DOMAIN d
  <2>1. drained \cap world.input = drained BY <1>6
  <2>. QED BY <1>7, <2>1 DEF Materialize, World
<1>9. PICK n : n = Merge(world, m, drained) OBVIOUS
<1>10. /\ n.status = [r \in Run |-> IF r \in drained THEN "cancelled" ELSE d.status[r]]
       /\ n.needsModel = d.needsModel \ drained /\ n.stage = d.stage
       /\ n.call = d.call /\ n.input = d.input \ drained
       /\ n.toolRun = d.toolRun /\ n.toolStatus = d.toolStatus /\ n.consumed = d.consumed
       /\ n.copies = [r \in Run |-> IF r \in drained THEN d.copies[r] + count ELSE d.copies[r]]
       /\ DOMAIN n = DOMAIN d
  <2>1. {"status", "needsModel", "input", "held", "stage", "call", "copies", "toolRun",
         "toolStatus", "consumed"} \subseteq DOMAIN m
    BY <1>8 DEF World
  <2>2. n = [m EXCEPT !.status = [r \in Run |-> IF r \in drained THEN "cancelled" ELSE @[r]],
                      !.needsModel = @ \ drained, !.input = @ \ drained, !.held = @ \ drained]
    BY <1>9 DEF Merge
  <2>3. n.input = d.input \ drained BY <1>8, <2>1, <2>2
  <2>. QED BY <1>8, <2>1, <2>2, <2>3
<1>11. x = [n EXCEPT
        !.status = [r \in Run |->
           IF r \in start /\ world.status[r] \in {"queued", "preparing"} THEN "running"
           ELSE IF r \in unready /\ world.status[r] = "queued" THEN "preparing" ELSE @[r]],
        !.stage = [r \in Run |-> IF r \in start THEN "resolving" ELSE @[r]],
        !.call = [r \in Run |-> IF r \in start THEN @[r] + 1 ELSE @[r]],
        !.needsModel = @ \ (start \cup {r \in Run : world.stage[r] # "none"})]
  BY <1>1, <1>2, <1>3, <1>4, <1>5, <1>7, <1>9 DEF Assemble, Drained, Unready
<1>12. {"status", "needsModel", "input", "held", "stage", "call", "copies", "toolRun",
        "toolStatus", "consumed"} \subseteq DOMAIN n
  BY <1>10 DEF World
<1>13. /\ x.needsModel = (d.needsModel \ drained) \ (start \cup {r \in Run : world.stage[r] # "none"})
       /\ x.input = d.input \ drained
       /\ x.toolRun = d.toolRun /\ x.toolStatus = d.toolStatus /\ x.consumed = d.consumed
       /\ x.copies = n.copies
  BY <1>10, <1>11, <1>12
<1>14. \A r \in Run :
         /\ x.status[r] =
              IF r \in start /\ world.status[r] \in {"queued", "preparing"} THEN "running"
              ELSE IF r \in unready /\ world.status[r] = "queued" THEN "preparing"
              ELSE IF r \in drained THEN "cancelled" ELSE d.status[r]
         /\ x.stage[r] = IF r \in start THEN "resolving" ELSE d.stage[r]
         /\ x.call[r] = IF r \in start THEN d.call[r] + 1 ELSE d.call[r]
  BY <1>10, <1>11, <1>12
<1>15. x.needsModel = d.needsModel \ (drained \cup start \cup {r \in Run : world.stage[r] # "none"})
  BY <1>13
<1>16. \A r \in Run : x.copies[r] = IF r \in drained THEN d.copies[r] + count ELSE d.copies[r]
  BY <1>10, <1>13
<1>. QED BY <1>1, <1>2, <1>3, <1>4, <1>5, <1>13, <1>14, <1>15, <1>16

\* One run starts at most, and the messages it draws in belong to runs that wait.
LEMMA StartsAlone ==
  ASSUME world \in World, Sound(world)
  PROVE  /\ \A r \in Starting : r \in Run /\ world.stage[r] = "none" /\ Engaged(world, r)
         /\ Cardinality(Starting) \in {0, 1}
         /\ Starting # {} => Cardinality(Starting) = 1
         /\ \A r \in Drained : /\ r \in Run /\ r \in world.input /\ world.status[r] = "queued"
                               /\ world.copies[r] = 0 /\ r \notin world.needsModel
                               /\ world.stage[r] = "none" /\ Starting # {}
<1>1. world.needsModel \subseteq Run /\ world.input \subseteq Run BY DEF World
<1>2. \A r \in world.needsModel : Engaged(world, r)
  BY <1>1 DEF Sound, MarksFit, Engaged, Active, Terminal
<1>3. \A r \in Starting : r \in Run /\ world.stage[r] = "none" /\ Engaged(world, r)
  BY <1>1, <1>2 DEF Starting
<1>4. CASE Starting = {}
  BY <1>3, <1>4, FS_EmptySet DEF Drained
<1>5. CASE Starting # {}
  <2>1. PICK r : r \in Starting BY <1>5
  <2>2. Starting = {r} BY <1>3, <2>1 DEF Sound, Alone
  <2>3. Cardinality(Starting) = 1 BY <2>2, FS_Singleton
  <2>4. \A q \in Drained : /\ q \in Run /\ q \in world.input /\ world.status[q] = "queued"
                           /\ world.copies[q] = 0 /\ q \notin world.needsModel
                           /\ world.stage[q] = "none"
    BY <1>1 DEF Drained, Sound, InputsFit, CallsFit
  <2>. QED BY <1>3, <1>5, <2>3, <2>4
<1>. QED BY <1>4, <1>5

\* Starting the marked run leads from a sound world to a sound world.
LEMMA AssembleSound ==
  ASSUME world \in World, NEW d \in World, Sound(world), MarksStart(world), ResolveChange(world, d)
  PROVE  LET x == Assemble(d) IN Sound(x) /\ MarksRest(x) /\ MarksLeft(x)
<1>1. PICK x : x = Assemble(d) OBVIOUS
<1>2. PICK start : start = Starting OBVIOUS
<1>3. PICK drained : drained = Drained OBVIOUS
<1>4. PICK unready : unready = Unready OBVIOUS
<1>5. PICK count : count = Cardinality(Starting) OBVIOUS
<1>6. /\ x.needsModel = d.needsModel \ (drained \cup start \cup {r \in Run : world.stage[r] # "none"})
      /\ x.input = d.input \ drained
      /\ x.toolRun = d.toolRun /\ x.toolStatus = d.toolStatus /\ x.consumed = d.consumed
      /\ \A r \in Run :
           /\ x.status[r] =
                IF r \in start /\ world.status[r] \in {"queued", "preparing"} THEN "running"
                ELSE IF r \in unready /\ world.status[r] = "queued" THEN "preparing"
                ELSE IF r \in drained THEN "cancelled" ELSE d.status[r]
           /\ x.stage[r] = IF r \in start THEN "resolving" ELSE d.stage[r]
           /\ x.call[r] = IF r \in start THEN d.call[r] + 1 ELSE d.call[r]
           /\ x.copies[r] = IF r \in drained THEN d.copies[r] + count ELSE d.copies[r]
  BY <1>1, <1>2, <1>3, <1>4, <1>5, AssembleEffect
<1>7. /\ \A r \in start : r \in Run /\ world.stage[r] = "none" /\ Engaged(world, r)
                          /\ r \in world.needsModel
      /\ count \in {0, 1}
      /\ \A r \in drained : /\ r \in Run /\ r \in world.input /\ world.status[r] = "queued"
                            /\ world.copies[r] = 0 /\ r \notin world.needsModel
                            /\ world.stage[r] = "none"
  BY <1>2, <1>3, <1>5, StartsAlone DEF Starting
<1>8. \A r \in unready : r \in Run /\ world.stage[r] = "none" /\ r \in world.needsModel
  BY <1>4 DEF Unready, World
<1>9. /\ \A r \in Run : Engaged(d, r) => Engaged(world, r)
      /\ CallsFit(d) /\ ToolsFit(d) /\ Closed(d) /\ InputsFit(d) /\ CopiesFit(d)
  BY ResolveChangeFits
<1>10. /\ d.needsModel = world.needsModel /\ d.input = world.input /\ d.copies = world.copies
       /\ d.call = world.call
       /\ \A r \in Run : world.stage[r] = "none" =>
            d.stage[r] = "none" /\ d.status[r] = world.status[r]
  BY DEF ResolveChange, Still, SameRun, ResolvedIn
<1>11. world.needsModel \subseteq Run /\ world.input \subseteq Run BY DEF World
<1>12. /\ \A r \in world.needsModel : world.status[r] \in {"queued", "preparing", "running"}
       /\ \A r \in world.needsModel : Engaged(world, r)
  BY <1>11 DEF Sound, MarksFit, Engaged, Active, Terminal
<1>13. \A r \in Run :
         \/ r \in start /\ x.status[r] = "running" /\ x.stage[r] = "resolving"
         \/ /\ r \notin start /\ r \in unready /\ x.status[r] \in {"preparing", "running"}
            /\ x.stage[r] = "none"
         \/ r \in drained /\ x.status[r] = "cancelled" /\ x.stage[r] = "none"
         \/ /\ r \notin start /\ r \notin unready /\ r \notin drained
            /\ x.status[r] = d.status[r] /\ x.stage[r] = d.stage[r]
  <2>. SUFFICES ASSUME NEW r \in Run
       PROVE \/ r \in start /\ x.status[r] = "running" /\ x.stage[r] = "resolving"
             \/ /\ r \notin start /\ r \in unready /\ x.status[r] \in {"preparing", "running"}
                /\ x.stage[r] = "none"
             \/ r \in drained /\ x.status[r] = "cancelled" /\ x.stage[r] = "none"
             \/ /\ r \notin start /\ r \notin unready /\ r \notin drained
                /\ x.status[r] = d.status[r] /\ x.stage[r] = d.stage[r]
    OBVIOUS
  <2>1. CASE r \in start
    <3>1. world.status[r] \in {"queued", "preparing", "running"} /\ world.stage[r] = "none"
          /\ r \notin drained
      BY <1>7, <1>12, <2>1
    <3>2. d.status[r] = world.status[r] BY <1>10, <3>1
    <3>3. x.status[r] = "running"
      <4>1. CASE world.status[r] \in {"queued", "preparing"} BY <1>6, <2>1, <4>1
      <4>2. CASE world.status[r] = "running" BY <1>6, <2>1, <3>1, <3>2, <4>2
      <4>. QED BY <3>1, <4>1, <4>2
    <3>. QED BY <1>6, <2>1, <3>3
  <2>2. CASE r \notin start /\ r \in unready
    <3>1. world.status[r] \in {"queued", "preparing", "running"} /\ world.stage[r] = "none"
          /\ r \notin drained
      BY <1>7, <1>8, <1>12, <2>2
    <3>2. d.status[r] = world.status[r] /\ d.stage[r] = "none" BY <1>10, <3>1
    <3>. QED BY <1>6, <2>2, <3>1, <3>2
  <2>3. CASE r \notin start /\ r \notin unready /\ r \in drained
    <3>1. d.stage[r] = "none" BY <1>7, <1>10, <2>3
    <3>. QED BY <1>6, <2>3, <3>1
  <2>4. CASE r \notin start /\ r \notin unready /\ r \notin drained BY <1>6, <2>4
  <2>. QED BY <2>1, <2>2, <2>3, <2>4
<1>14. x.needsModel \subseteq world.needsModel BY <1>6, <1>10
<1>15. \A r \in x.needsModel : /\ r \in Run /\ r \notin start /\ r \notin drained
                               /\ world.stage[r] = "none" /\ r \in world.needsModel
                               /\ d.status[r] = world.status[r] /\ d.stage[r] = "none"
  BY <1>6, <1>10, <1>11
<1>16. Alone(x)
  <2>1. \A r \in Run : Engaged(x, r) => Engaged(world, r)
    <3>. SUFFICES ASSUME NEW r \in Run, Engaged(x, r) PROVE Engaged(world, r) OBVIOUS
    <3>1. CASE r \in start BY <1>7, <3>1
    <3>2. CASE r \in unready BY <1>8, <1>12, <3>2
    <3>3. CASE x.status[r] = "cancelled" BY <3>3 DEF Engaged, Active, Terminal
    <3>4. CASE x.status[r] = d.status[r]
      <4>1. Engaged(d, r) BY <1>10, <1>14, <3>4 DEF Engaged, Active
      <4>. QED BY <1>9, <4>1
    <3>. QED BY <1>13, <3>1, <3>2, <3>3, <3>4
  <2>. QED BY <2>1 DEF Sound, Alone
<1>17. MarksFit(x)
  <2>. SUFFICES ASSUME NEW r \in x.needsModel
       PROVE  x.status[r] \in {"queued", "preparing", "running"}
    BY DEF MarksFit
  <2>. QED BY <1>12, <1>13, <1>15
<1>18. MarksRest(x)
  <2>. SUFFICES ASSUME NEW r \in x.needsModel PROVE x.stage[r] = "none" BY DEF MarksRest
  <2>. QED BY <1>13, <1>15
<1>19. MarksLeft(x)
  <2>. SUFFICES ASSUME NEW r \in x.needsModel, x.status[r] = "queued" PROVE FALSE BY DEF MarksLeft
  <2>1. r \notin unready /\ world.status[r] = "queued" BY <1>13, <1>15
  <2>2. ~compressing BY <1>15, <2>1 DEF MarksStart
  <2>3. loaded BY <1>4, <1>15, <2>1 DEF Unready
  <2>4. r \in start BY <1>2, <1>15, <2>2, <2>3 DEF Starting
  <2>. QED BY <1>15, <2>4
<1>20. CallsFit(x)
  <2>. SUFFICES ASSUME NEW r \in Run
       PROVE  /\ x.stage[r] # "none" => x.status[r] \notin {"none", "queued", "preparing", "delivering"}
              /\ HasRequest(x, r) => Active(x, r)
    BY DEF CallsFit
  <2>1. CASE x.stage[r] = "resolving" /\ x.status[r] = "running" BY <2>1 DEF HasRequest
  <2>2. CASE x.stage[r] = "none" BY <2>2 DEF HasRequest
  <2>3. CASE x.status[r] = d.status[r] /\ x.stage[r] = d.stage[r]
    BY <1>9, <2>3 DEF CallsFit, HasRequest, Active
  <2>. QED BY <1>13, <2>1, <2>2, <2>3
<1>21. InputsFit(x)
  <2>. SUFFICES ASSUME NEW r \in x.input
       PROVE  x.status[r] = "queued" /\ x.copies[r] = 0 /\ r \notin x.needsModel
    BY DEF InputsFit
  <2>1. r \in world.input /\ r \in d.input /\ r \notin drained /\ r \in Run BY <1>6, <1>10, <1>11
  <2>2. d.status[r] = "queued" /\ d.copies[r] = 0 /\ r \notin world.needsModel
    BY <1>9, <1>10, <2>1 DEF InputsFit
  <2>3. r \notin start /\ r \notin unready BY <1>7, <1>8, <2>2
  <2>. QED BY <1>6, <1>13, <1>14, <2>1, <2>2, <2>3
<1>22. CopiesFit(x)
  <2>. SUFFICES ASSUME NEW r \in Run
       PROVE  x.copies[r] <= 1 /\ (x.status[r] = "none" => x.copies[r] = 0)
    BY DEF CopiesFit
  <2>1. CASE r \in drained
    <3>1. x.status[r] = "cancelled" BY <1>7, <1>8, <1>13, <2>1
    <3>2. x.copies[r] = 0 + count BY <1>6, <1>7, <1>10, <2>1
    <3>. QED BY <1>7, <3>1, <3>2
  <2>2. CASE r \notin drained
    <3>1. x.copies[r] = d.copies[r] BY <1>6, <2>2
    <3>2. x.status[r] = "none" => d.status[r] = "none" BY <1>13
    <3>. QED BY <1>9, <3>1, <3>2 DEF CopiesFit
  <2>. QED BY <2>1, <2>2
<1>23. \A t \in Tool : x.toolRun[t] \in Run => x.status[x.toolRun[t]] = d.status[x.toolRun[t]]
  <2>. SUFFICES ASSUME NEW t \in Tool, x.toolRun[t] \in Run
       PROVE  x.status[x.toolRun[t]] = d.status[x.toolRun[t]]
    OBVIOUS
  <2>. DEFINE r == x.toolRun[t]
  <2>1. world.status[r] \notin {"none", "queued", "preparing"}
    BY <1>6 DEF ResolveChange, SameTools, Sound, ToolsFit
  <2>2. r \notin drained BY <1>7, <2>1
  <2>. QED BY <1>6, <2>1, <2>2
<1>24. ToolsFit(x)
  BY <1>6, <1>9, <1>23 DEF ToolsFit
<1>25. Closed(x)
  BY <1>6, <1>9, <1>23 DEF Closed
<1>26. Sound(x) BY <1>16, <1>17, <1>20, <1>21, <1>22, <1>24, <1>25 DEF Sound
<1>. QED BY <1>1, <1>18, <1>19, <1>26

LEMMA AssemblyTurn ==
  ASSUME TypeOK, TypeOK', TurnInv, ContextAssembly
  PROVE  TurnInv'
<1>1. /\ phase = "assembly" /\ Commit(Assemble(draft)) /\ streaming' = streaming
      /\ resolving' = resolving \cup {<<r, world.call[r] + 1>> : r \in Starting}
  BY DEF ContextAssembly
<1>2. /\ world \in World /\ draft \in World /\ Sound(world) /\ MarksStart(world)
      /\ ResolveChange(world, draft) /\ StreamsFit(world, streaming)
  BY <1>1 DEF TurnInv, DraftFits, ResolveDraft, PassFits, TypeOK
<1>3. PICK x : x = Assemble(draft) OBVIOUS
<1>4. Sound(x) /\ MarksRest(x) /\ MarksLeft(x) BY <1>2, <1>3, AssembleSound
<1>5. \A r \in Run : /\ x.stage[r] = IF r \in Starting THEN "resolving" ELSE draft.stage[r]
                     /\ x.call[r] = IF r \in Starting THEN draft.call[r] + 1 ELSE draft.call[r]
  BY <1>2, <1>3, AssembleEffect
<1>6. \A r \in Starting : r \in Run /\ world.stage[r] = "none" BY <1>2, StartsAlone
<1>7. /\ draft.call = world.call /\ \A r \in Run : world.call[r] \in Nat
      /\ \A r \in Run : \/ draft.stage[r] = world.stage[r]
                        \/ world.stage[r] = "resolving" /\ draft.stage[r] \in {"none", "ready"}
  BY <1>2 DEF ResolveChange, Still, SameRun, ResolvedIn, World
<1>8. phase \in System BY <1>1, PhaseNames
<1>9. PassFits(x, After(phase)) BY <1>1, <1>4, AfterNames DEF PassFits
<1>10. \A r \in Run : world.call[r] <= x.call[r] BY <1>5, <1>7
<1>11. \A r \in Run : x.stage[r] \in {"resolving", "ready"} =>
         \/ world.call[r] < x.call[r]
         \/ world.stage[r] \in {"resolving", "ready"}
  BY <1>5, <1>7
<1>12. StreamsFit(x, streaming')
  <2>. SUFFICES ASSUME NEW i \in streaming
       PROVE  x.stage[i[1]] = "inflight" /\ x.call[i[1]] = i[2]
    BY <1>1 DEF StreamsFit
  <2>1. i[1] \in Run BY DEF TypeOK
  <2>2. world.stage[i[1]] = "inflight" /\ world.call[i[1]] = i[2] BY <1>2 DEF StreamsFit
  <2>3. i[1] \notin Starting BY <1>6, <2>2
  <2>. QED BY <1>5, <1>7, <2>1, <2>2, <2>3
<1>13. \A i \in resolving' : i \in resolving \/ (i[2] = x.call[i[1]] /\ world.call[i[1]] < i[2])
  <2>. SUFFICES ASSUME NEW r \in Starting
       PROVE  world.call[r] + 1 = x.call[r] /\ world.call[r] < world.call[r] + 1
    BY <1>1
  <2>. QED BY <1>5, <1>6, <1>7
<1>14. Commit(x) BY <1>1, <1>3
<1>15. \A i \in streaming' : i \in streaming BY <1>1
<1>. QED BY <1>4, <1>8, <1>9, <1>10, <1>11, <1>12, <1>13, <1>14, <1>15, CommitTurn

--------------------------------------------------------------------------------
(* The model's requests and answers.                                       *)

LEMMA DispatchTurn ==
  ASSUME TypeOK, TypeOK', TurnInv, LlmDispatch
  PROVE  TurnInv'
<1>. DEFINE sent == IF compressing THEN {} ELSE {r \in Run : world.stage[r] = "ready"}
            sg == [r \in Run |-> IF r \in sent THEN "inflight" ELSE world.stage[r]]
<1>1. /\ phase = "llmDispatch" /\ draft = world /\ world \in World
      /\ Sound(world) /\ MarksRest(world) /\ MarksLeft(world) /\ StreamsFit(world, streaming)
  BY DEF LlmDispatch, TurnInv, DraftFits, PassFits, TypeOK
<1>2. PICK d : d = [world EXCEPT !.stage = sg] OBVIOUS
<1>3. /\ Commit(d) /\ resolving' = resolving
      /\ streaming' = streaming \cup {<<r, world.call[r]>> : r \in sent}
  BY <1>1, <1>2 DEF LlmDispatch
<1>4. \A r \in Run : \/ sg[r] = world.stage[r]
                     \/ r \in sent /\ sg[r] = "inflight" /\ world.stage[r] = "ready"
  OBVIOUS
<1>5. \A r \in sent : r \in Run /\ sg[r] = "inflight" /\ world.stage[r] = "ready" OBVIOUS
<1>. HIDE DEF sg, sent
<1>6. /\ d.stage = sg /\ d.status = world.status /\ d.call = world.call
      /\ d.needsModel = world.needsModel /\ d.input = world.input /\ d.copies = world.copies
      /\ d.toolRun = world.toolRun /\ d.toolStatus = world.toolStatus /\ d.consumed = world.consumed
  BY <1>1, <1>2 DEF World
<1>7. \A r \in Run : /\ HasRequest(d, r) <=> HasRequest(world, r)
                     /\ Engaged(d, r) <=> Engaged(world, r)
                     /\ Active(d, r) <=> Active(world, r)
                     /\ d.stage[r] # "none" <=> world.stage[r] # "none"
  BY <1>4, <1>6 DEF HasRequest, Engaged, Active
<1>8. Sound(d)
  <2>1. Alone(d) BY <1>1, <1>7 DEF Sound, Alone
  <2>2. CallsFit(d) BY <1>1, <1>6, <1>7 DEF Sound, CallsFit
  <2>3. MarksFit(d) /\ InputsFit(d) /\ CopiesFit(d) BY <1>1, <1>6 DEF Sound, MarksFit, InputsFit, CopiesFit
  <2>4. ToolsFit(d) /\ Closed(d) BY <1>1, <1>6 DEF Sound, ToolsFit, Closed
  <2>. QED BY <2>1, <2>2, <2>3, <2>4 DEF Sound
<1>9. MarksLeft(d) BY <1>1, <1>6 DEF MarksLeft
<1>10. MarksRest(d)
  <2>1. world.needsModel \subseteq Run BY <1>1 DEF World
  <2>. QED BY <1>1, <1>6, <1>7, <2>1 DEF MarksRest
<1>11. PassFits(d, After(phase)) BY <1>1, <1>9, <1>10, AfterNames DEF PassFits
<1>12. phase \in System BY <1>1, PhaseNames
<1>13. StreamsFit(d, streaming')
  <2>. SUFFICES ASSUME NEW i \in streaming'
       PROVE  d.stage[i[1]] = "inflight" /\ d.call[i[1]] = i[2]
    BY DEF StreamsFit
  <2>1. CASE i \in streaming
    <3>1. i[1] \in Run BY <2>1 DEF TypeOK
    <3>2. world.stage[i[1]] = "inflight" /\ world.call[i[1]] = i[2] BY <1>1, <2>1 DEF StreamsFit
    <3>. QED BY <1>4, <1>6, <3>1, <3>2
  <2>2. CASE \E r \in sent : i = <<r, world.call[r]>> BY <1>5, <1>6, <2>2
  <2>. QED BY <1>3, <2>1, <2>2
<1>14. \A r \in Run : world.call[r] <= d.call[r]
  <2>1. \A r \in Run : world.call[r] \in Nat BY <1>1 DEF World
  <2>. QED BY <1>6, <2>1
<1>15. \A r \in Run : d.stage[r] \in {"resolving", "ready"} =>
         \/ world.call[r] < d.call[r]
         \/ world.stage[r] \in {"resolving", "ready"}
  BY <1>4, <1>6
<1>16. \A i \in streaming' : i \in streaming \/
         (i[2] = world.call[i[1]] /\ world.stage[i[1]] = "ready")
  BY <1>3, <1>5
<1>17. \A i \in resolving' : i \in resolving BY <1>3
<1>. QED BY <1>3, <1>8, <1>11, <1>12, <1>13, <1>14, <1>15, <1>16, <1>17, CommitTurn

\* The end of an answer moves one run.
LEMMA FinishedEffect ==
  ASSUME NEW d \in World, NEW r \in Run, NEW c, NEW kinds
  PROVE  LET x == Finished(d, r, c, kinds)
         IN /\ Still(d, x) /\ SameTools(d, x)
            /\ \A q \in Run : q # r => SameRun(d, x, q)
            /\ \/ SameRun(d, x, r)
               \/ /\ kinds \cap Finish # {} /\ x.stage[r] = "none"
                  /\ x.status[r] \in {"failed", "waiting_tool", "delivering"}
<1>1. PICK x : x = Finished(d, r, c, kinds) OBVIOUS
<1>2. CASE kinds \cap Finish = {}
  <2>1. x = d BY <1>1, <1>2 DEF Finished, Finish
  <2>. QED BY <1>1, <2>1 DEF Still, SameTools, SameRun
<1>3. CASE kinds \cap Finish # {}
  <2>1. PICK s : /\ s \in {"failed", "waiting_tool", "delivering"}
                 /\ x = [d EXCEPT !.stage[r] = "none", !.status[r] = s]
    BY <1>1, <1>3 DEF Finished, Finish
  <2>2. /\ x.stage = [d.stage EXCEPT ![r] = "none"] /\ x.status = [d.status EXCEPT ![r] = s]
        /\ Still(d, x) /\ SameTools(d, x)
    BY <2>1 DEF World, Still, SameTools
  <2>3. /\ \A q \in Run : q # r => x.stage[q] = d.stage[q] /\ x.status[q] = d.status[q]
        /\ x.stage[r] = "none" /\ x.status[r] = s
    BY <2>2 DEF World
  <2>. QED BY <1>1, <1>3, <2>1, <2>2, <2>3 DEF SameRun
<1>. QED BY <1>2, <1>3

\* A tool call the model asks for belongs to the run that asked it.
LEMMA ToolCallEffect ==
  ASSUME NEW d \in World, NEW t \in Tool, NEW r \in Run, NEW c \in Nat
  PROVE  LET x == WithToolCall(d, t, r, c)
         IN /\ x \in World /\ Still(d, x) /\ x.consumed = d.consumed
            /\ x.stage = d.stage /\ x.status = d.status
            /\ x.toolRun[t] = r /\ x.toolStatus[t] = "queued"
            /\ \A s \in Tool : s # t => /\ x.toolRun[s] = d.toolRun[s]
                                        /\ x.toolStatus[s] = d.toolStatus[s]
<1>1. PICK x : x = WithToolCall(d, t, r, c) OBVIOUS
<1>2. PICK y : y = [d EXCEPT !.toolStatus[t] = "queued"] OBVIOUS
<1>3. PICK z : z = [y EXCEPT !.toolRun[t] = r] OBVIOUS
<1>4. x = [z EXCEPT !.toolTurn[t] = c] BY <1>1, <1>2, <1>3 DEF WithToolCall
<1>5. y \in World /\ y.toolStatus = [d.toolStatus EXCEPT ![t] = "queued"] /\ y.toolRun = d.toolRun
      /\ Still(d, y) /\ y.consumed = d.consumed /\ y.stage = d.stage /\ y.status = d.status
  BY <1>2 DEF World, Still, ToolStatus
<1>6. r \in 0..MaxRuns BY BoundsAssumption DEF Run
<1>7. z \in World /\ z.toolRun = [d.toolRun EXCEPT ![t] = r] /\ z.toolStatus = y.toolStatus
      /\ Still(y, z) /\ z.consumed = y.consumed /\ z.stage = y.stage /\ z.status = y.status
  BY <1>3, <1>5, <1>6 DEF World, Still
<1>8. x \in World /\ x.toolRun = z.toolRun /\ x.toolStatus = z.toolStatus
      /\ Still(z, x) /\ x.consumed = z.consumed /\ x.stage = z.stage /\ x.status = z.status
  BY <1>4, <1>7 DEF World, Still
<1>9. Still(d, x) /\ x.consumed = d.consumed /\ x.stage = d.stage /\ x.status = d.status
      /\ x.toolRun = [d.toolRun EXCEPT ![t] = r]
      /\ x.toolStatus = [d.toolStatus EXCEPT ![t] = "queued"]
  BY <1>5, <1>7, <1>8 DEF Still
<1>10. /\ x.toolRun[t] = r /\ x.toolStatus[t] = "queued"
       /\ \A s \in Tool : s # t => /\ x.toolRun[s] = d.toolRun[s]
                                   /\ x.toolStatus[s] = d.toolStatus[s]
  BY <1>9 DEF World
<1>. QED BY <1>1, <1>8, <1>9, <1>10

LEMMA UpdateTurn ==
  ASSUME TypeOK, TurnInv, LlmUpdate
  PROVE  TurnInv'
<1>1. /\ phase = "llmPoll" /\ world \in World /\ draft \in World /\ AnswerChange(world, draft)
      /\ Sound(world) /\ \A i \in streaming : SameRun(world, draft, i[1])
  BY DEF LlmUpdate, TurnInv, DraftFits, AnswerDraft, TypeOK
<1>2. PICK e \in Of({"toolCall", "done", "error"}) :
        LET r == e.run
            c == e.no
            kinds == {a.kind : a \in Answers(r, c)}
            known == HasRequest(world, r) /\ world.call[r] = c
            deaf == ~Active(world, r) \/ world.status[r] = "paused"
        IN /\ batch' = batch \ Answers(r, c)
           /\ \/ /\ ~known /\ draft' = draft
              \/ /\ known /\ deaf
                 /\ draft' = IF kinds \cap {"done", "error"} = {} THEN draft
                             ELSE [draft EXCEPT !.stage[r] = "none"]
              \/ /\ known /\ ~deaf /\ "toolCall" \notin kinds
                 /\ draft' = Finished(draft, r, c, kinds)
              \/ /\ known /\ ~deaf /\ "toolCall" \in kinds
                 /\ \E t \in Tool : /\ NewTool(draft, t)
                                    /\ draft' = Finished(WithToolCall(draft, t, r, c), r, c, kinds)
           /\ UNCHANGED <<world, phase, pending, dirty, resolving, streaming, external>>
  BY DEF LlmUpdate
<1>3. e \in batch /\ e.run \in Run /\ e.no \in Nat
  BY DEF Of, TypeOK, Event, ConversationKind
<1>4. PICK r, c, kinds, d :
        r = e.run /\ c = e.no /\ kinds = {a.kind : a \in Answers(r, c)} /\ d = draft'
  OBVIOUS
<1>5. r \in Run /\ c \in Nat BY <1>3, <1>4
<1>6. /\ batch' \subseteq batch
      /\ UNCHANGED <<world, phase, pending, resolving, streaming, compressing>>
  BY <1>2 DEF external
<1>7. \/ d = draft
      \/ /\ HasRequest(world, r) /\ world.call[r] = c
         /\ \/ kinds \cap Finish # {} /\ d = [draft EXCEPT !.stage[r] = "none"]
            \/ d = Finished(draft, r, c, kinds)
            \/ \E t \in Tool : d = Finished(WithToolCall(draft, t, r, c), r, c, kinds)
  BY <1>2, <1>4 DEF Finish
\* What becomes of the run that is answered, of the others, and of the tool calls.
<1>8. \/ d = draft
      \/ /\ HasRequest(world, r) /\ world.call[r] = c
         /\ Still(draft, d) /\ d.consumed = draft.consumed
         /\ \A q \in Run : q # r => SameRun(draft, d, q)
         /\ \/ SameRun(draft, d, r)
            \/ /\ kinds \cap Finish # {} /\ d.stage[r] = "none"
               /\ d.status[r] \in {draft.status[r], "failed", "waiting_tool", "delivering"}
         /\ \A t \in Tool : \/ d.toolRun[t] = draft.toolRun[t] /\ d.toolStatus[t] = draft.toolStatus[t]
                            \/ d.toolRun[t] = r /\ d.toolStatus[t] = "queued"
  <2>1. CASE d = draft BY <2>1
  <2>2. CASE kinds \cap Finish # {} /\ d = [draft EXCEPT !.stage[r] = "none"]
    <3>1. /\ Still(draft, d) /\ SameTools(draft, d) /\ d.status = draft.status
          /\ d.stage = [draft.stage EXCEPT ![r] = "none"]
      BY <1>1, <2>2 DEF World, Still, SameTools
    <3>2. (\A q \in Run : q # r => d.stage[q] = draft.stage[q]) /\ d.stage[r] = "none"
      BY <1>1, <1>5, <3>1 DEF World
    <3>. QED BY <1>5, <1>7, <2>2, <3>1, <3>2 DEF SameRun, SameTools
  <2>3. CASE d = Finished(draft, r, c, kinds)
    <3>1. /\ Still(draft, d) /\ SameTools(draft, d)
          /\ \A q \in Run : q # r => SameRun(draft, d, q)
          /\ \/ SameRun(draft, d, r)
             \/ /\ kinds \cap Finish # {} /\ d.stage[r] = "none"
                /\ d.status[r] \in {"failed", "waiting_tool", "delivering"}
      BY <1>1, <1>5, <2>3, FinishedEffect
    <3>. QED BY <1>7, <2>3, <3>1 DEF SameTools
  <2>4. CASE \E t \in Tool : d = Finished(WithToolCall(draft, t, r, c), r, c, kinds)
    <3>1. PICK t \in Tool : d = Finished(WithToolCall(draft, t, r, c), r, c, kinds) BY <2>4
    <3>2. PICK x : x = WithToolCall(draft, t, r, c) OBVIOUS
    <3>3. /\ x \in World /\ Still(draft, x) /\ x.consumed = draft.consumed
          /\ x.stage = draft.stage /\ x.status = draft.status
          /\ x.toolRun[t] = r /\ x.toolStatus[t] = "queued"
          /\ \A s \in Tool : s # t => /\ x.toolRun[s] = draft.toolRun[s]
                                      /\ x.toolStatus[s] = draft.toolStatus[s]
      BY <1>1, <1>5, <3>2, ToolCallEffect
    <3>4. d = Finished(x, r, c, kinds) BY <3>1, <3>2
    <3>5. /\ Still(x, d) /\ SameTools(x, d)
          /\ \A q \in Run : q # r => SameRun(x, d, q)
          /\ \/ SameRun(x, d, r)
             \/ /\ kinds \cap Finish # {} /\ d.stage[r] = "none"
                /\ d.status[r] \in {"failed", "waiting_tool", "delivering"}
      BY <1>5, <3>3, <3>4, FinishedEffect
    <3>6. Still(draft, d) /\ d.consumed = draft.consumed BY <3>3, <3>5 DEF Still, SameTools
    <3>7. /\ \A q \in Run : q # r => SameRun(draft, d, q)
          /\ SameRun(x, d, r) => SameRun(draft, d, r)
      BY <3>3, <3>5 DEF SameRun
    <3>8. \A s \in Tool :
            \/ d.toolRun[s] = draft.toolRun[s] /\ d.toolStatus[s] = draft.toolStatus[s]
            \/ d.toolRun[s] = r /\ d.toolStatus[s] = "queued"
      BY <3>3, <3>5 DEF SameTools
    <3>. QED BY <1>7, <3>5, <3>6, <3>7, <3>8
  <2>. QED BY <1>7, <2>1, <2>2, <2>3, <2>4
<1>9. AnswerChange(world, d)
  <2>1. CASE d = draft BY <1>1, <2>1
  <2>2. CASE d # draft
    <3>1. Still(world, d) /\ d.consumed = world.consumed
      BY <1>1, <1>8, <2>2 DEF AnswerChange, Still
    <3>2. ASSUME NEW q \in Run PROVE SameRun(world, d, q) \/ AnsweredIn(world, d, q)
      <4>1. SameRun(world, draft, q) \/ AnsweredIn(world, draft, q) BY <1>1 DEF AnswerChange
      <4>2. CASE SameRun(draft, d, q) BY <4>1, <4>2 DEF SameRun, AnsweredIn
      <4>3. CASE q = r /\ d.stage[r] = "none"
                 /\ d.status[r] \in {draft.status[r], "failed", "waiting_tool", "delivering"}
        BY <1>8, <2>2, <4>1, <4>3 DEF SameRun, AnsweredIn
      <4>. QED BY <1>8, <2>2, <4>2, <4>3
    <3>3. ASSUME NEW t \in Tool
          PROVE  \/ d.toolRun[t] = world.toolRun[t] /\ d.toolStatus[t] = world.toolStatus[t]
                 \/ AskedIn(world, d, t)
      <4>1. \/ draft.toolRun[t] = world.toolRun[t] /\ draft.toolStatus[t] = world.toolStatus[t]
            \/ AskedIn(world, draft, t)
        BY <1>1 DEF AnswerChange
      <4>2. CASE d.toolRun[t] = draft.toolRun[t] /\ d.toolStatus[t] = draft.toolStatus[t]
        BY <4>1, <4>2 DEF AskedIn
      <4>3. CASE d.toolRun[t] = r /\ d.toolStatus[t] = "queued"
        BY <1>5, <1>8, <2>2, <4>3 DEF AskedIn
      <4>. QED BY <1>8, <2>2, <4>2, <4>3
    <3>. QED BY <3>1, <3>2, <3>3 DEF AnswerChange
  <2>. QED BY <2>1, <2>2
<1>10. \A i \in streaming : SameRun(world, d, i[1])
  <2>. SUFFICES ASSUME NEW i \in streaming PROVE SameRun(world, d, i[1]) OBVIOUS
  <2>1. SameRun(world, draft, i[1]) /\ i[1] \in Run /\ i = <<i[1], i[2]>> BY <1>1 DEF TypeOK
  <2>2. CASE SameRun(draft, d, i[1]) BY <2>1, <2>2 DEF SameRun
  <2>3. CASE i[1] = r /\ kinds \cap Finish # {} /\ world.call[r] = c
    <3>1. PICK a \in Answers(r, c) : a.kind \in Finish BY <1>4, <2>3
    <3>2. a \in batch /\ a.run = r /\ a.no = c BY <3>1 DEF Answers, Of
    <3>3. <<r, c>> \notin streaming BY <3>1, <3>2 DEF TurnInv, FinishedOnce
    <3>4. world.call[i[1]] = i[2] BY DEF TurnInv, StreamsFit
    <3>. QED BY <2>1, <2>3, <3>3, <3>4
  <2>4. CASE d = draft BY <2>1, <2>4
  <2>. QED BY <1>8, <2>1, <2>2, <2>3, <2>4
<1>11. AnswerDraft'
  BY <1>4, <1>6, <1>9, <1>10
     DEF AnswerDraft, AnswerChange, Still, SameRun, AnsweredIn, AskedIn, HasRequest
<1>12. DraftFits' BY <1>1, <1>6, <1>11 DEF DraftFits
<1>. QED BY <1>6, <1>12, TakeTurn

LEMMA PollTurn ==
  ASSUME TypeOK, TypeOK', TurnInv, LlmPoll
  PROVE  TurnInv'
<1>1. /\ phase = "llmPoll" /\ EndSystem(draft) /\ AnswerChange(world, draft)
      /\ \A i \in streaming : SameRun(world, draft, i[1])
      /\ world \in World /\ draft \in World
      /\ Sound(world) /\ MarksRest(world) /\ MarksLeft(world) /\ StreamsFit(world, streaming)
  BY DEF LlmPoll, TurnInv, DraftFits, AnswerDraft, PassFits, TypeOK
<1>2. Sound(draft) /\ MarksRest(draft) /\ MarksLeft(draft) BY <1>1, AnswerChangeSound
<1>3. PassFits(draft, After(phase)) BY <1>1, <1>2, AfterNames DEF PassFits
<1>4. draft.call = world.call /\ \A r \in Run : draft.stage[r] \in {world.stage[r], "none"}
  BY <1>1 DEF AnswerChange, Still, SameRun, AnsweredIn
<1>5. StreamsFit(draft, streaming) BY <1>1, <1>4 DEF StreamsFit, SameRun
<1>6. phase \in System BY <1>1, PhaseNames
<1>7. /\ \A r \in Run : draft.stage[r] \in {world.stage[r], "none", "ready"}
      /\ \A r \in Run : draft.stage[r] = "ready" => world.stage[r] \in {"resolving", "ready"}
  BY <1>4
<1>. QED BY <1>1, <1>2, <1>3, <1>4, <1>5, <1>6, <1>7, EndTurn

--------------------------------------------------------------------------------
(* The queue and the delivery of answers.                                  *)

\* The run whose turn it is takes the messages of all that wait.
LEMMA ActivateEffect ==
  ASSUME world \in World, draft = world, NEW r \in Run, r \in Waiting(world)
  PROVE  LET x == Activate(r)
         IN /\ x.needsModel = (world.needsModel \ (Waiting(world) \ {r})) \cup {r}
            /\ x.input = world.input \ Waiting(world)
            /\ x.stage = world.stage /\ x.call = world.call
            /\ x.toolRun = world.toolRun /\ x.toolStatus = world.toolStatus
            /\ x.consumed = world.consumed
            /\ \A q \in Run :
                 /\ x.status[q] = IF q = r THEN "preparing"
                                  ELSE IF q \in Waiting(world) THEN "cancelled"
                                  ELSE world.status[q]
                 /\ x.copies[q] = IF q \in Waiting(world) \cap world.input
                                  THEN world.copies[q] + 1 ELSE world.copies[q]
<1>1. PICK w, x : w = Waiting(world) /\ x = Activate(r) OBVIOUS
<1>2. PICK m : m = Materialize(world, world, w, 1) OBVIOUS
<1>3. /\ m.status = world.status /\ m.needsModel = world.needsModel /\ m.stage = world.stage
      /\ m.call = world.call /\ m.input = world.input \ w /\ DOMAIN m = DOMAIN world
      /\ m.toolRun = world.toolRun /\ m.toolStatus = world.toolStatus
      /\ m.consumed = world.consumed
      /\ m.copies = [q \in Run |-> IF q \in w \cap world.input THEN world.copies[q] + 1
                                   ELSE world.copies[q]]
  BY <1>2 DEF Materialize, World
<1>4. {"status", "needsModel", "input", "held", "stage", "call", "copies", "toolRun",
       "toolStatus", "consumed"} \subseteq DOMAIN m
  BY <1>3 DEF World
<1>5. PICK n : n = Merge(world, m, w \ {r}) OBVIOUS
<1>6. n = [m EXCEPT !.status = [q \in Run |-> IF q \in w \ {r} THEN "cancelled" ELSE @[q]],
                    !.needsModel = @ \ (w \ {r}), !.input = @ \ (w \ {r}), !.held = @ \ (w \ {r})]
  BY <1>5 DEF Merge
<1>7. /\ n.status = [q \in Run |-> IF q \in w \ {r} THEN "cancelled" ELSE world.status[q]]
      /\ n.needsModel = world.needsModel \ (w \ {r}) /\ n.stage = world.stage
      /\ n.call = world.call /\ n.input = (world.input \ w) \ (w \ {r}) /\ n.copies = m.copies
      /\ n.toolRun = world.toolRun /\ n.toolStatus = world.toolStatus
      /\ n.consumed = world.consumed /\ DOMAIN n = DOMAIN m
  BY <1>3, <1>4, <1>6
<1>8. n.input = world.input \ w BY <1>7
<1>9. x = [n EXCEPT !.status[r] = "preparing", !.needsModel = @ \cup {r}]
  BY <1>1, <1>2, <1>5 DEF Activate
<1>10. /\ x.status = [n.status EXCEPT ![r] = "preparing"] /\ x.needsModel = n.needsModel \cup {r}
       /\ x.stage = n.stage /\ x.call = n.call /\ x.input = n.input /\ x.copies = n.copies
       /\ x.toolRun = n.toolRun /\ x.toolStatus = n.toolStatus /\ x.consumed = n.consumed
  BY <1>4, <1>7, <1>9
<1>11. \A q \in Run : x.status[q] = IF q = r THEN "preparing"
                                    ELSE IF q \in w THEN "cancelled" ELSE world.status[q]
  BY <1>7, <1>10
<1>12. \A q \in Run : x.copies[q] = IF q \in w \cap world.input THEN world.copies[q] + 1
                                    ELSE world.copies[q]
  BY <1>3, <1>7, <1>10
<1>. QED BY <1>1, <1>7, <1>8, <1>10, <1>11, <1>12

\* A run is taken out of the queue when no other is engaged.
LEMMA QueueTurn ==
  ASSUME TypeOK, TypeOK', TurnInv, Queue
  PROVE  TurnInv'
<1>1. /\ phase = "queue" /\ draft = world /\ world \in World
      /\ Sound(world) /\ MarksRest(world) /\ MarksLeft(world) /\ StreamsFit(world, streaming)
  BY DEF Queue, TurnInv, DraftFits, PassFits, TypeOK
<1>2. phase \in System BY <1>1, PhaseNames
<1>3. CASE EndSystem(draft)
  <2>1. PassFits(world, After(phase)) BY <1>1, AfterNames DEF PassFits
  <2>2. \A r \in Run : world.stage[r] = "ready" => world.stage[r] \in {"resolving", "ready"}
    OBVIOUS
  <2>. QED BY <1>1, <1>2, <1>3, <2>1, <2>2, EndTurn
<1>4. CASE \E r \in Run : CanActivate(r) /\ EndSystem(Activate(r))
  <2>1. PICK r \in Run : CanActivate(r) /\ EndSystem(Activate(r)) BY <1>4
  <2>2. PICK x : x = Activate(r) OBVIOUS
  <2>3. PICK w : w = Waiting(world) OBVIOUS
  <2>4. r \in w /\ \A q \in Run : ~Blocks(world, q, r) BY <2>1, <2>3 DEF CanActivate
  <2>5. \A q \in w : /\ q \in Run /\ world.status[q] = "queued" /\ q \notin world.needsModel
                     /\ world.stage[q] = "none"
    BY <1>1, <2>3 DEF Waiting, Queued, Sound, CallsFit
  <2>6. /\ x.needsModel = (world.needsModel \ (w \ {r})) \cup {r}
        /\ x.input = world.input \ w
        /\ x.stage = world.stage /\ x.call = world.call
        /\ x.toolRun = world.toolRun /\ x.toolStatus = world.toolStatus
        /\ x.consumed = world.consumed
        /\ \A q \in Run :
             /\ x.status[q] = IF q = r THEN "preparing" ELSE IF q \in w THEN "cancelled"
                              ELSE world.status[q]
             /\ x.copies[q] = IF q \in w \cap world.input THEN world.copies[q] + 1
                              ELSE world.copies[q]
    BY <1>1, <2>2, <2>3, <2>4, ActivateEffect
  <2>7. world.needsModel \subseteq Run /\ world.input \subseteq Run BY <1>1 DEF World
  <2>8. \A q \in Run : Engaged(x, q) => q = r
    <3>. SUFFICES ASSUME NEW q \in Run, Engaged(x, q), q # r PROVE FALSE OBVIOUS
    <3>1. q \notin w BY <2>6 DEF Engaged, Active, Terminal
    <3>2. x.status[q] = world.status[q] BY <2>6, <3>1
    <3>3. Active(world, q) BY <3>2 DEF Engaged, Active
    <3>4. world.status[q] = "queued" BY <2>4, <3>3 DEF Blocks
    <3>5. q \in x.needsModel BY <3>2, <3>4 DEF Engaged
    <3>6. q \in world.needsModel BY <2>6, <3>5
    <3>. QED BY <1>1, <3>4, <3>6 DEF MarksLeft
  <2>9. Alone(x) BY <2>8 DEF Alone
  <2>10. \A q \in x.needsModel : q = r \/ (q \in world.needsModel /\ q \in Run /\ q \notin w /\ q # r)
    BY <2>5, <2>6, <2>7
  <2>11. MarksFit(x) /\ MarksLeft(x)
    <3>1. x.status[r] = "preparing" BY <2>6
    <3>2. \A q \in x.needsModel : q # r => x.status[q] = world.status[q] BY <2>6, <2>10
    <3>. QED BY <1>1, <2>10, <3>1, <3>2 DEF Sound, MarksFit, MarksLeft
  <2>12. MarksRest(x) BY <1>1, <2>4, <2>5, <2>6, <2>10 DEF MarksRest
  <2>13. CallsFit(x)
    <3>. SUFFICES ASSUME NEW q \in Run
         PROVE  /\ x.stage[q] # "none" => x.status[q] \notin {"none", "queued", "preparing", "delivering"}
                /\ HasRequest(x, q) => Active(x, q)
      BY DEF CallsFit
    <3>1. CASE q \in w BY <2>5, <2>6, <3>1 DEF HasRequest
    <3>2. CASE q \notin w
      <4>1. x.status[q] = world.status[q] /\ x.stage[q] = world.stage[q] BY <2>4, <2>6, <3>2
      <4>. QED BY <1>1, <4>1 DEF Sound, CallsFit, HasRequest, Active
    <3>. QED BY <3>1, <3>2
  <2>14. InputsFit(x)
    <3>. SUFFICES ASSUME NEW q \in x.input
         PROVE  x.status[q] = "queued" /\ x.copies[q] = 0 /\ q \notin x.needsModel
      BY DEF InputsFit
    <3>1. q \in world.input /\ q \notin w /\ q \in Run /\ q # r BY <2>4, <2>6, <2>7
    <3>. QED BY <1>1, <2>6, <3>1 DEF Sound, InputsFit
  <2>15. CopiesFit(x)
    <3>. SUFFICES ASSUME NEW q \in Run
         PROVE  x.copies[q] <= 1 /\ (x.status[q] = "none" => x.copies[q] = 0)
      BY DEF CopiesFit
    <3>1. CASE q \in w \cap world.input
      <4>1. world.copies[q] = 0 BY <1>1, <3>1 DEF Sound, InputsFit
      <4>2. x.copies[q] = 1 BY <2>6, <3>1, <4>1
      <4>3. x.status[q] # "none" BY <2>6, <3>1
      <4>. QED BY <4>2, <4>3
    <3>2. CASE q \notin w \cap world.input
      <4>1. x.copies[q] = world.copies[q] BY <2>6, <3>2
      <4>2. x.status[q] = "none" => world.status[q] = "none" BY <2>6
      <4>. QED BY <1>1, <4>1, <4>2 DEF Sound, CopiesFit
    <3>. QED BY <3>1, <3>2
  <2>16. \A t \in Tool : x.toolRun[t] \in Run => x.status[x.toolRun[t]] = world.status[x.toolRun[t]]
    <3>. SUFFICES ASSUME NEW t \in Tool, x.toolRun[t] \in Run
         PROVE  x.status[x.toolRun[t]] = world.status[x.toolRun[t]]
      OBVIOUS
    <3>1. x.toolRun[t] \notin w BY <1>1, <2>5, <2>6 DEF Sound, ToolsFit
    <3>. QED BY <2>4, <2>6, <3>1
  <2>17. ToolsFit(x) BY <1>1, <2>6, <2>16 DEF Sound, ToolsFit
  <2>18. Closed(x) BY <1>1, <2>6, <2>16 DEF Sound, Closed
  <2>19. Sound(x) BY <2>9, <2>11, <2>13, <2>14, <2>15, <2>17, <2>18 DEF Sound
  <2>20. PassFits(x, After(phase)) BY <1>1, <2>11, <2>12, AfterNames DEF PassFits
  <2>21. StreamsFit(x, streaming) BY <1>1, <2>6 DEF StreamsFit
  <2>22. EndSystem(x) /\ x.call = world.call BY <2>1, <2>2, <2>6
  <2>23. /\ \A q \in Run : x.stage[q] \in {world.stage[q], "none", "ready"}
         /\ \A q \in Run : x.stage[q] = "ready" => world.stage[q] \in {"resolving", "ready"}
    BY <2>6
  <2>. QED BY <1>2, <2>19, <2>20, <2>21, <2>22, <2>23, EndTurn
<1>. QED BY <1>3, <1>4 DEF Queue

LEMMA DeliveryTurn ==
  ASSUME TypeOK, TypeOK', TurnInv, Delivery
  PROVE  TurnInv'
<1>1. /\ phase = "delivery" /\ draft = world /\ world \in World
      /\ Sound(world) /\ MarksRest(world) /\ MarksLeft(world) /\ StreamsFit(world, streaming)
  BY DEF Delivery, TurnInv, DraftFits, PassFits, TypeOK
<1>. DEFINE st == [r \in Run |-> IF world.status[r] = "delivering" THEN "completed"
                                 ELSE world.status[r]]
<1>2. PICK x : x = [world EXCEPT !.status = st] OBVIOUS
<1>3. EndSystem(x) BY <1>1, <1>2 DEF Delivery
<1>4. \A r \in Run : \/ st[r] = world.status[r]
                     \/ world.status[r] = "delivering" /\ st[r] = "completed"
  OBVIOUS
<1>. HIDE DEF st
<1>5. /\ x.status = st /\ x.stage = world.stage /\ x.call = world.call
      /\ x.needsModel = world.needsModel /\ x.input = world.input /\ x.copies = world.copies
      /\ x.toolRun = world.toolRun /\ x.toolStatus = world.toolStatus /\ x.consumed = world.consumed
  BY <1>1, <1>2 DEF World
<1>6. world.needsModel \subseteq Run /\ world.input \subseteq Run BY <1>1 DEF World
<1>7. Alone(x)
  <2>1. \A r \in Run : Engaged(x, r) => Engaged(world, r)
    BY <1>4, <1>5 DEF Engaged, Active, Terminal
  <2>. QED BY <1>1, <2>1 DEF Sound, Alone
<1>8. MarksFit(x) /\ MarksRest(x) /\ MarksLeft(x)
  <2>1. \A r \in world.needsModel : x.status[r] = world.status[r]
    BY <1>1, <1>4, <1>5, <1>6 DEF Sound, MarksFit
  <2>. QED BY <1>1, <1>5, <2>1 DEF Sound, MarksFit, MarksRest, MarksLeft
<1>9. CallsFit(x)
  <2>. SUFFICES ASSUME NEW r \in Run
       PROVE  /\ x.stage[r] # "none" => x.status[r] \notin {"none", "queued", "preparing", "delivering"}
              /\ HasRequest(x, r) => Active(x, r)
    BY DEF CallsFit
  <2>1. CASE x.stage[r] = "none" BY <2>1 DEF HasRequest
  <2>2. CASE x.stage[r] # "none"
    <3>1. x.status[r] = world.status[r] BY <1>1, <1>4, <1>5, <2>2 DEF Sound, CallsFit
    <3>. QED BY <1>1, <1>5, <3>1 DEF Sound, CallsFit, HasRequest, Active
  <2>. QED BY <2>1, <2>2
<1>10. InputsFit(x) BY <1>1, <1>4, <1>5, <1>6 DEF Sound, InputsFit
<1>11. CopiesFit(x)
  <2>1. \A r \in Run : x.status[r] = "none" => world.status[r] = "none" BY <1>4, <1>5
  <2>. QED BY <1>1, <1>5, <2>1 DEF Sound, CopiesFit
<1>12. ToolsFit(x)
  <2>1. \A r \in Run : /\ world.status[r] \notin {"none", "queued", "preparing"} =>
                            x.status[r] \notin {"none", "queued", "preparing"}
                       /\ world.status[r] \in Terminal => x.status[r] \in Terminal
    BY <1>4, <1>5 DEF Terminal
  <2>. QED BY <1>1, <1>5, <2>1 DEF Sound, ToolsFit
<1>13. Closed(x)
  <2>1. \A r \in Run : x.status[r] \in {"cancelled", "stale"} => x.status[r] = world.status[r]
    BY <1>4, <1>5
  <2>. QED BY <1>1, <1>5, <2>1 DEF Sound, Closed
<1>14. Sound(x) BY <1>7, <1>8, <1>9, <1>10, <1>11, <1>12, <1>13 DEF Sound
<1>15. PassFits(x, After(phase)) BY <1>1, <1>8, AfterNames DEF PassFits
<1>16. StreamsFit(x, streaming) BY <1>1, <1>5 DEF StreamsFit
<1>17. /\ phase \in System /\ x.call = world.call
       /\ \A r \in Run : x.stage[r] \in {world.stage[r], "none", "ready"}
       /\ \A r \in Run : x.stage[r] = "ready" => world.stage[r] \in {"resolving", "ready"}
  BY <1>1, <1>5, PhaseNames
<1>. QED BY <1>3, <1>14, <1>15, <1>16, <1>17, EndTurn

--------------------------------------------------------------------------------
(* The invariant.                                                          *)

LEMMA InitTurn == Init => TurnInv
<1>. SUFFICES ASSUME Init PROVE TurnInv OBVIOUS
<1>1. /\ world = EmptyWorld /\ draft = EmptyWorld /\ phase = "idle" /\ batch = {} /\ pending = {}
      /\ resolving = {} /\ streaming = {}
  BY DEF Init
<1>2. /\ world.needsModel = {} /\ world.input = {}
      /\ \A r \in Run : world.status[r] = "none" /\ world.stage[r] = "none" /\ world.copies[r] = 0
      /\ \A t \in Tool : world.toolRun[t] = 0 /\ world.toolStatus[t] = "none"
      /\ 0 \notin Run
  BY <1>1 DEF EmptyWorld, Run
<1>3. Alone(world) /\ CallsFit(world) BY <1>2 DEF Alone, CallsFit, Engaged, Active, HasRequest
<1>4. MarksFit(world) /\ InputsFit(world) /\ CopiesFit(world)
  BY <1>2 DEF MarksFit, InputsFit, CopiesFit
<1>5. ToolsFit(world) /\ Closed(world) BY <1>2 DEF ToolsFit, Closed
<1>6. PassFits(world, phase) BY <1>1, <1>2 DEF PassFits, MarksRest, MarksLeft
<1>7. OrdinaryEvents /\ SingleSend /\ ResolvedOnce /\ FinishedOnce
  BY <1>1 DEF OrdinaryEvents, SingleSend, ResolvedOnce, FinishedOnce
<1>8. StreamsFit(world, streaming) /\ DraftFits BY <1>1 DEF StreamsFit, DraftFits
<1>. QED BY <1>3, <1>4, <1>5, <1>6, <1>7, <1>8 DEF TurnInv, Sound

\* One step per action.
LEMMA StepTurn ==
  ASSUME OrdinaryUse, TypeOK, TypeOK', TurnInv, [Next]_vars
  PROVE  TurnInv'
<1>1. CASE UNCHANGED vars
  <2>1. batch' \subseteq batch /\ UNCHANGED <<world, phase, pending, resolving, streaming, compressing>>
        /\ draft' = draft
    BY <1>1 DEF vars
  <2>2. DraftFits'
    BY <1>1 DEF vars, TurnInv, DraftFits, ToolChange, SendDraft, ResolveDraft, AnswerDraft, EndChange,
                ResolveChange, AnswerChange, Still, SameTools, SameRun, ResolvedIn, AnsweredIn,
                AskedIn, EndedIn, KeptIn, HasRequest, Active, MarksStart
  <2>. QED BY <2>1, <2>2, TakeTurn
<1>2. CASE BeginPass BY <1>2, BeginTurn
<1>3. CASE CancelTool \/ ToolDispatch \/ ToolState \/ ToolPoll BY <1>3, ToolsTurn
<1>4. CASE ToolResult BY <1>4, ToolResultTurn
<1>5. CASE Send BY <1>5, SendTurn
<1>6. CASE Input BY <1>6, InputTurn
<1>7. CASE InvocationResolved \/ InvocationResolveError BY <1>7, ResolvedTurn
<1>8. CASE ContextAssembly BY <1>8, AssemblyTurn
<1>9. CASE LlmDispatch BY <1>9, DispatchTurn
<1>10. CASE LlmUpdate BY <1>10, UpdateTurn
<1>11. CASE LlmPoll BY <1>11, PollTurn
<1>12. CASE LifecycleHandler BY <1>12, HandlerTurn
<1>13. CASE Lifecycle BY <1>13, LifecycleTurn
<1>14. CASE Queue BY <1>14, QueueTurn
<1>15. CASE Delivery BY <1>15, DeliveryTurn
<1>16. CASE UserSends \/ UserRetries \/ \E kind \in UserKinds : UserCommand(kind)
  BY <1>16, UserTurn
<1>17. CASE ProviderCallsTool \/ ToolEnds BY <1>17, ToolEventTurn
<1>18. CASE ContextLoads \/ CompressionBegins \/ CompressionEnds BY <1>18, CalmTurn
<1>19. CASE ProviderResolves BY <1>19, ProviderResolvesTurn
<1>20. CASE ProviderFinishes BY <1>20, ProviderFinishesTurn
<1>. QED
  BY <1>1, <1>2, <1>3, <1>4, <1>5, <1>6, <1>7, <1>8, <1>9, <1>10, <1>11, <1>12, <1>13, <1>14,
     <1>15, <1>16, <1>17, <1>18, <1>19, <1>20
  DEF Next, SystemStep, Environment, Answer

\* The invariant holds throughout.
LEMMA Invariant ==
  ASSUME OrdinaryUse
  PROVE  /\ Init => IInv /\ TurnInv
         /\ (IInv /\ TurnInv) /\ [Next]_vars => (IInv /\ TurnInv)'
<1>1. Init => IInv /\ TurnInv BY InitGood, InitTurn
<1>2. ASSUME IInv, TurnInv, [Next]_vars PROVE IInv' /\ TurnInv'
  <2>1. IInv' BY <1>2, StepGood DEF Good
  <2>2. TypeOK /\ TypeOK' BY <1>2, <2>1 DEF IInv
  <2>. QED BY <1>2, <2>1, <2>2, StepTurn
<1>. QED BY <1>1, <1>2

--------------------------------------------------------------------------------
(* The theorems.                                                           *)

\* In ordinary use the runs of a conversation call the model one after another: no two streams are
\* live at once, although every system that moves runs decides on the world as it was at its start.
THEOREM OneStreamHolds ==
  ASSUME OrdinaryUse PROVE Spec => []OneStream
<1>1. ASSUME TypeOK, TurnInv PROVE OneStream
  <2>1. \A i \in streaming : i = <<i[1], world.call[i[1]]>> /\ i[1] \in Run /\ Engaged(world, i[1])
    BY <1>1 DEF TypeOK, TurnInv, StreamsFit, Sound, CallsFit, HasRequest, Engaged
  <2>2. \A i, j \in streaming : i = j BY <1>1, <2>1 DEF TurnInv, Sound, Alone
  <2>3. CASE streaming = {} BY <2>3, FS_EmptySet DEF OneStream
  <2>4. CASE streaming # {}
    <3>1. PICK i : i \in streaming BY <2>4
    <3>2. streaming = {i} BY <2>2, <3>1
    <3>3. Cardinality(streaming) = 1 BY <3>2, FS_Singleton
    <3>. QED BY <3>3 DEF OneStream
  <2>. QED BY <2>3, <2>4
<1>2. IInv /\ TurnInv => OneStream BY <1>1 DEF IInv
<1>. QED BY <1>2, Invariant, PTL DEF Spec

\* In ordinary use a message enters the conversation once, whoever draws it in, and before its run
\* asks the model.
THEOREM InputInOrderHolds ==
  ASSUME OrdinaryUse PROVE Spec => []InputInOrder
<1>1. IInv /\ TurnInv => InputInOrder
  BY DEF TurnInv, Sound, CopiesFit, CallsFit, InputsFit, InputInOrder, InputOnce, InputBeforeCall
<1>. QED BY <1>1, Invariant, PTL DEF Spec

\* In ordinary use a live stream of the provider belongs to an active run that expects it, whatever
\* command or failure ended the others.
THEOREM NoOrphanStreamHolds ==
  ASSUME OrdinaryUse PROVE Spec => []NoOrphanStream
<1>1. ASSUME TypeOK, TurnInv PROVE NoOrphanStream
  <2>1. \A i \in streaming : i[1] \in Run BY <1>1 DEF TypeOK
  <2>. QED BY <1>1, <2>1 DEF TurnInv, StreamsFit, Sound, CallsFit, HasRequest, NoOrphanStream
<1>2. IInv /\ TurnInv => NoOrphanStream BY <1>1 DEF IInv
<1>. QED BY <1>2, Invariant, PTL DEF Spec

\* In ordinary use a run that was cancelled or went stale waits for nothing: no mark, no queued
\* message and no call the model is owed an answer for.
THEOREM EndedRunsAreClosedHolds ==
  ASSUME OrdinaryUse PROVE Spec => []EndedRunsAreClosed
<1>1. ASSUME TurnInv, NEW r \in Run, world.status[r] \in {"cancelled", "stale"}
      PROVE  /\ r \notin world.needsModel \cup world.input
             /\ \A t \in ToolsOf(world, r) \ Background : t \in world.consumed
  <2>1. r \notin world.needsModel BY <1>1 DEF TurnInv, Sound, MarksFit
  <2>2. r \notin world.input BY <1>1 DEF TurnInv, Sound, InputsFit
  <2>3. \A t \in ToolsOf(world, r) \ Background : t \in world.consumed
    BY <1>1 DEF TurnInv, Sound, Closed, ToolsOf
  <2>. QED BY <2>1, <2>2, <2>3
<1>2. IInv /\ TurnInv => EndedRunsAreClosed BY <1>1 DEF EndedRunsAreClosed
<1>. QED BY <1>2, Invariant, PTL DEF Spec

\* Only three systems take a message out of the queue: the lifecycle system with its run, the context
\* assembly and the queue by putting it into the conversation.
LEMMA InputKept ==
  ASSUME TypeOK, TurnInv, [Next]_vars, NEW r \in world.input \ world'.input
  PROVE  \/ world'.copies[r] = world.copies[r] + 1
         \/ phase = "lifecycle" /\ world'.status[r] \in {"cancelled", "stale"}
<1>0. world \in World /\ draft \in World /\ r \in Run /\ Sound(world) BY DEF TypeOK, World, TurnInv
<1>1. CASE UNCHANGED world BY <1>1
<1>2. CASE Input
  <2>1. world' = draft /\ world.input \subseteq draft.input
    BY <1>2 DEF Input, EndSystem, Commit, TurnInv, DraftFits, SendDraft
  <2>. QED BY <2>1
<1>3. CASE ToolPoll \/ LlmPoll
  <2>1. world' = draft /\ Still(world, draft)
    BY <1>3 DEF ToolPoll, LlmPoll, EndSystem, Commit, TurnInv, DraftFits, ToolChange, AnswerDraft,
                AnswerChange
  <2>. QED BY <2>1 DEF Still
<1>4. CASE ToolDispatch \/ ToolResult \/ LlmDispatch \/ Delivery
  <2>1. draft = world
    BY <1>4 DEF ToolDispatch, ToolResult, LlmDispatch, Delivery, TurnInv, DraftFits
  <2>2. world'.input = world.input
    BY <1>0, <1>4, <2>1 DEF ToolDispatch, ToolResult, LlmDispatch, Delivery, EndSystem, Commit, World
  <2>. QED BY <2>2
<1>5. CASE ContextAssembly
  <2>1. world' = Assemble(draft) /\ ResolveChange(world, draft)
    BY <1>5 DEF ContextAssembly, Commit, TurnInv, DraftFits, ResolveDraft
  <2>2. draft.input = world.input /\ draft.copies = world.copies
    BY <2>1 DEF ResolveChange, Still
  <2>3. PICK x : x = Assemble(draft) OBVIOUS
  <2>4. /\ x.input = draft.input \ Drained
        /\ x.copies[r] = IF r \in Drained THEN draft.copies[r] + Cardinality(Starting)
                         ELSE draft.copies[r]
    BY <1>0, <2>3, AssembleEffect
  <2>5. r \in Drained BY <2>1, <2>2, <2>3, <2>4
  <2>6. Cardinality(Starting) = 1 BY <1>0, <2>5, StartsAlone
  <2>. QED BY <2>1, <2>2, <2>3, <2>4, <2>5, <2>6
<1>6. CASE Lifecycle
  <2>1. phase = "lifecycle" /\ world' = draft /\ EndChange(world, draft)
    BY <1>6 DEF Lifecycle, Commit, TurnInv, DraftFits
  <2>2. EndedIn(world, draft, r) BY <1>0, <2>1 DEF EndChange, KeptIn
  <2>. QED BY <2>1, <2>2 DEF EndedIn
<1>7. CASE Queue
  <2>1. draft = world BY <1>7 DEF Queue, TurnInv, DraftFits
  <2>2. CASE EndSystem(draft) BY <2>1, <2>2 DEF EndSystem, Commit
  <2>3. CASE \E q \in Run : CanActivate(q) /\ EndSystem(Activate(q))
    <3>1. PICK q \in Run : CanActivate(q) /\ EndSystem(Activate(q)) BY <2>3
    <3>2. q \in Waiting(world) /\ world' = Activate(q)
      BY <3>1 DEF CanActivate, EndSystem, Commit
    <3>3. PICK x : x = Activate(q) OBVIOUS
    <3>4. /\ x.input = world.input \ Waiting(world)
          /\ x.copies[r] = IF r \in Waiting(world) \cap world.input
                           THEN world.copies[r] + 1 ELSE world.copies[r]
      BY <1>0, <2>1, <3>2, <3>3, ActivateEffect
    <3>. QED BY <3>2, <3>3, <3>4
  <2>. QED BY <1>7, <2>2, <2>3 DEF Queue
<1>8. \/ UNCHANGED world \/ Input \/ ToolPoll \/ LlmPoll \/ ToolDispatch \/ ToolResult
      \/ LlmDispatch \/ Delivery \/ ContextAssembly \/ Lifecycle \/ Queue
  <2>1. UNCHANGED vars => UNCHANGED world BY DEF vars
  <2>2. Environment => UNCHANGED world
    BY DEF Environment, Answer, UserSends, UserRetries, UserCommand, ProviderResolves,
           ProviderCallsTool, ProviderFinishes, ToolEnds, ContextLoads, CompressionBegins,
           CompressionEnds, calm
  <2>3. BeginPass \/ LlmUpdate => UNCHANGED world BY DEF BeginPass, LlmUpdate
  <2>4. CancelTool \/ ToolState \/ Send \/ InvocationResolved \/ InvocationResolveError
          => UNCHANGED world
    BY DEF CancelTool, ToolState, Send, InvocationResolved, InvocationResolveError, Take
  <2>5. LifecycleHandler => UNCHANGED world
    BY DEF LifecycleHandler, Cancel, CancelConversation, Promote, Reorder, RemoveQueued, HoldQueued,
           ReleaseQueued, ReleaseAll, MarkStale, Pause, Resume, Retry, Take
  <2>. QED BY <2>1, <2>2, <2>3, <2>4, <2>5 DEF Next, SystemStep
<1>. QED BY <1>1, <1>2, <1>3, <1>4, <1>5, <1>6, <1>7, <1>8

\* In ordinary use a queued message leaves the queue only by entering the conversation, or with its
\* run being ended by the user.
THEOREM InputNotLostHolds ==
  ASSUME OrdinaryUse PROVE Spec => InputNotLost
<1>1. IInv /\ TurnInv /\ [Next]_vars =>
        [\A r \in world.input \ world'.input :
           \/ world'.copies[r] = world.copies[r] + 1
           \/ phase = "lifecycle" /\ world'.status[r] \in {"cancelled", "stale"}]_vars
  BY InputKept DEF IInv
<1>. QED BY <1>1, Invariant, PTL DEF Spec, InputNotLost
=============================================================================
