---------------------------- MODULE ChildAgents ----------------------------
(* Agents that start agents: run_agent launches or continues a run in a      *)
(* child conversation and waits for it or not; submit_agent_answer brings an *)
(* answer back, as the result of the waiting call or as a notification that  *)
(* queues in the parent's conversation; run_agent's interrupt, the user's    *)
(* interruption of a call and the user's stop end runs.                      *)
(*                                                                           *)
(* A step of the scheduler (Pass) is one action: its systems run in the      *)
(* order of their registration, each on what the ones before it committed;   *)
(* an event that a system emits is read in the next pass.  A run makes one   *)
(* call at a time.  The bridge of an answer is the child's conversation.     *)
(* Approval, checkpoints, pause and retry of runs are left to AgentRunLoop.  *)
(*                                                                           *)
(* Bounds: MaxRuns, MaxCalls and MaxConvs are what the world may hold,       *)
(* MaxStops the stops and interruptions of the user.                         *)
EXTENDS Naturals, Sequences, FiniteSets, SequencesExt

CONSTANTS MaxRuns, MaxCalls, MaxConvs, MaxStops,
          MaxDepth      \* maxChildAgentDepth of the tool's policy

VARIABLES runs,      \* AgentRun with its source and target, in order of creation
          calls,     \* ToolCall and ToolState, in order of creation
          origin,    \* the conversation each conversation was made from; 0: none
          events,    \* AgentRunEventType events for the next pass
          requests,  \* calls whose interruption the user asked for
          stops      \* how often the user stopped or interrupted something

vars == <<runs, calls, origin, events, requests, stops>>

World == [runs |-> runs, calls |-> calls, origin |-> origin, events |-> {}]

\* call and src are the call and the run a run comes from, text the answer that
\* a notification carries.
NewRun(conv, src, call, at) ==
  [conv |-> conv, src |-> src, call |-> call, at |-> at, first |-> FALSE, text |-> 0, stopped |-> FALSE]

Alive(w, r) == w.runs[r].at # "ended"
Open(w, k) == w.calls[k].at # "done"
Done(call, result) == [call EXCEPT !.at = "done", !.result = result]

Depth(w, conv) ==
  LET depth[c \in 0..Len(w.origin)] == IF c = 0 THEN 0 ELSE 1 + depth[w.origin[c]] IN depth[conv] - 1

-----------------------------------------------------------------------------
(* ToolDispatchSystem: w is the world the pass began with, acc what the      *)
(* commands so far make of it.                                               *)

Cancel(r) == [kind |-> "cancel", of |-> r]
Promote(r) == [kind |-> "promote", of |-> r]
Stop(c) == [kind |-> "stop", of |-> c]

\* run_agent in mode run: a new conversation, or the one of a bridge, where a
\* run that is not over makes the new one wait for its promotion.
LaunchChild(w, acc, k) ==
  LET asked == w.calls[k]
      new == asked.conv = 0
      conv == IF new THEN Len(acc.origin) + 1 ELSE asked.conv
      child == Len(acc.runs) + 1
      busy == ~new /\ \E r \in DOMAIN w.runs : w.runs[r].conv = conv /\ Alive(w, r)
  IN IF Depth(w, w.runs[asked.run].conv) + 1 > MaxDepth
     THEN [acc EXCEPT !.calls[k] = Done(@, "rejected")]
     ELSE [acc EXCEPT
             !.origin = IF new THEN Append(@, w.runs[asked.run].conv) ELSE @,
             !.runs = Append(@, NewRun(conv, asked.run, k, IF busy THEN "held" ELSE "active")),
             !.events = IF busy THEN @ \cup {Promote(child)} ELSE @,
             !.calls[k] = [(IF asked.waits THEN [@ EXCEPT !.at = "executing"] ELSE Done(@, "background"))
                             EXCEPT !.child = child]]

InterruptChild(w, acc, k) ==
  [acc EXCEPT
     !.events = @ \cup {Cancel(r) : r \in {x \in DOMAIN w.runs : w.runs[x].conv = w.calls[k].conv /\ Alive(w, x)}},
     !.calls[k] = Done(@, "ok")]

\* The call that a bridge answers: that of the latest run launched with it.
SourceCall(w, conv) ==
  LET launched == {r \in DOMAIN w.runs : w.runs[r].conv = conv /\ w.runs[r].call # 0}
  IN w.runs[CHOOSE r \in launched : \A x \in launched : x <= r].call

\* Mutant: a call that has returned is answered again.
AnswersAnyCall(w, source) == TRUE
\* completeSourceRunAgentToolWithSubmittedAnswer
AnswersCall(w, source) == Open(w, source)

SubmitAnswer(w, acc, k) ==
  LET run == w.calls[k].run
      conv == w.runs[run].conv
      source == SourceCall(w, conv)
  IN IF w.origin[conv] = 0
     THEN [acc EXCEPT !.calls[k] = Done(@, "rejected")]
     ELSE IF AnswersCall(w, source)
     THEN [acc EXCEPT !.calls[k] = Done(@, "ok"),
                      !.calls[source] = [Done(@, "answer") EXCEPT !.answer = k]]
     ELSE [acc EXCEPT !.calls[k] = Done(@, "ok"),
                      !.runs = Append(@, [NewRun(w.origin[conv], run, 0, "queued") EXCEPT !.text = k])]

Execute(w, acc, k) ==
  CASE w.calls[k].does = "run"       -> LaunchChild(w, acc, k)
    [] w.calls[k].does = "interrupt" -> InterruptChild(w, acc, k)
    [] w.calls[k].does = "submit"    -> SubmitAnswer(w, acc, k)

\* First the calls whose foregroundWaitMs has passed (spent), then the user's
\* interruptions, which also cancel the tree of the run a call waits for, then
\* what is queued.
Dispatch(w, spent) ==
  LET waiting == {k \in DOMAIN w.calls : w.calls[k].at = "executing"}
      interrupted == {k \in requests : Open(w, k)}
      begun == [w EXCEPT
        !.calls = [k \in DOMAIN @ |-> IF k \in interrupted THEN Done(@[k], "interrupted")
                                      ELSE IF k \in spent THEN Done(@[k], "background")
                                      ELSE @[k]],
        !.events = @ \cup {Cancel(w.calls[k].child) : k \in interrupted \cap waiting}]
      queued == {k \in DOMAIN w.calls \ interrupted :
                   w.calls[k].at = "queued" /\ w.runs[w.calls[k].run].at = "tools"}
  IN FoldLeft(LAMBDA acc, k : Execute(w, acc, k), begun, SetToSortSeq(queued, <))

-----------------------------------------------------------------------------
\* ToolResultSystem: the model of a run hears what its call returned; if the
\* user interrupted it, the run ends.
ResultsHeard(w) ==
  LET heard == {k \in DOMAIN w.calls : ~Open(w, k) /\ ~w.calls[k].used /\ Alive(w, w.calls[k].run)}
      After(r) == LET k == CHOOSE k \in heard : w.calls[k].run = r
                  IN IF w.calls[k].result = "interrupted"
                     THEN [w.runs[r] EXCEPT !.at = "ended"]
                     ELSE [w.runs[r] EXCEPT !.at = "active"]
  IN [w EXCEPT !.runs = [r \in DOMAIN @ |-> IF \E k \in heard : w.calls[k].run = r THEN After(r) ELSE @[r]],
               !.calls = [k \in DOMAIN @ |-> IF k \in heard THEN [@[k] EXCEPT !.used = TRUE, !.heard = w.calls[k].answer] ELSE @[k]]]

-----------------------------------------------------------------------------
(* AgentRunLifecycleSystem: every handler reads the world of its beginning.  *)

\* An explicit cancellation of a child takes everything that comes from it.
InTree(w, roots) ==
  LET in[r \in 0..Len(w.runs)] == r # 0 /\ (r \in roots \/ in[w.runs[r].src])
  IN {r \in DOMAIN w.runs : in[r]}

\* Calls of a run that wait for a child: it goes on in the background.
Backgrounded(w, r) ==
  {k \in DOMAIN w.calls : /\ w.calls[k].run = r /\ Alive(w, r)
                          /\ w.calls[k].at = "executing" /\ Alive(w, w.calls[k].child)}

\* Mutant: a stop takes everything that comes from a run.
CascadesToAll(w, r) == TRUE
\* A stop takes what comes from a run without a call, or by one still open.
ShouldCascade(w, r) == w.runs[r].call = 0 \/ Open(w, w.runs[r].call)
Stopped(w, roots) ==
  LET in[r \in 0..Len(w.runs)] ==
        r # 0 /\ \/ r \in roots
                 \/ /\ in[w.runs[r].src] /\ ShouldCascade(w, r)
                    /\ w.runs[r].call \notin Backgrounded(w, w.runs[r].src)
  IN {r \in DOMAIN w.runs : in[r]}

Waits(w, r) == w.runs[r].at \in {"queued", "held"}

Lifecycle(w, happened) ==
  LET Of(kind) == {e.of : e \in {x \in happened : x.kind = kind}}
      trees == InTree(w, Of("cancel"))
      stopped == Stopped(w, {r \in DOMAIN w.runs : w.runs[r].conv \in Of("stop") /\ Alive(w, r)})
      promoted == {r \in Of("promote") : Waits(w, r)}
      replaced == {r \in DOMAIN w.runs : /\ Alive(w, r) /\ ~Waits(w, r)
                                         /\ \E p \in promoted : w.runs[p].conv = w.runs[r].conv}
      ended == {r \in trees \cup stopped \cup replaced : Alive(w, r)}
      goOn == UNION {Backgrounded(w, r) : r \in stopped \cup replaced}
  IN [w EXCEPT
        !.runs = [r \in DOMAIN @ |->
                    IF r \in ended THEN [@[r] EXCEPT !.at = "ended", !.stopped = r \in trees \cup stopped]
                    ELSE IF r \in promoted THEN [@[r] EXCEPT !.at = "queued", !.first = TRUE]
                    ELSE @[r]],
        !.calls = [k \in DOMAIN @ |->
                     IF ~Open(w, k) \/ w.calls[k].run \notin ended THEN @[k]
                     ELSE [Done(@[k], IF k \in goOn THEN "background" ELSE "interrupted") EXCEPT !.used = TRUE]]]

\* AgentRunQueueSystem: an idle conversation begins its first queued run, which
\* takes over the messages of the others.
Queue(w) ==
  LET queued(c) == {r \in DOMAIN w.runs : w.runs[r].conv = c /\ w.runs[r].at = "queued"}
      idle(c) == \A r \in DOMAIN w.runs : w.runs[r].conv = c => ~Alive(w, r) \/ Waits(w, r)
      primary(c) == CHOOSE r \in queued(c) :
                      \A x \in queued(c) : \/ w.runs[r].first /\ ~w.runs[x].first
                                           \/ w.runs[r].first = w.runs[x].first /\ r <= x
  IN [w EXCEPT !.runs = [r \in DOMAIN @ |->
        IF @[r].at = "queued" /\ idle(@[r].conv)
        THEN IF r = primary(@[r].conv) THEN [@[r] EXCEPT !.at = "active"]
             ELSE [@[r] EXCEPT !.at = "ended"]
        ELSE @[r]]]

\* AgentRunDeliverySystem: the end of a run is not delivered to its source; a
\* child speaks to it by submit_agent_answer alone.
Delivered(w) ==
  [w EXCEPT !.runs = [r \in DOMAIN @ |-> IF @[r].at = "delivering" THEN [@[r] EXCEPT !.at = "ended"] ELSE @[r]]]

Pass ==
  /\ \E spent \in SUBSET {k \in DOMAIN calls : calls[k].at = "executing"} :
     LET w == Delivered(Queue(Lifecycle(ResultsHeard(Dispatch(World, spent)), events)))
     IN /\ runs' = w.runs /\ calls' = w.calls /\ origin' = w.origin /\ events' = w.events
        /\ Len(w.runs) <= MaxRuns /\ Len(w.origin) <= MaxConvs
  /\ requests' = {}
  /\ UNCHANGED stops

-----------------------------------------------------------------------------
(* What happens between two passes. *)

\* A model asks for a tool.  It knows the bridges of the children it has.
ModelCalls(r) ==
  /\ runs[r].at = "active" /\ Len(calls) < MaxCalls
  /\ \E does \in {"run", "interrupt", "submit"}, waits \in BOOLEAN,
        conv \in {0} \cup {c \in DOMAIN origin : origin[c] = runs[r].conv} :
       /\ does # "run" => ~waits
       /\ does = "submit" => conv = 0
       /\ does = "interrupt" => conv # 0
       /\ calls' = Append(calls, [run |-> r, does |-> does, conv |-> conv, waits |-> waits, at |-> "queued",
                                  child |-> 0, result |-> "none", answer |-> 0, heard |-> 0, used |-> FALSE])
  /\ runs' = [runs EXCEPT ![r].at = "tools"]
  /\ UNCHANGED <<origin, events, requests, stops>>

ModelEnds(r) ==
  /\ runs[r].at = "active"
  /\ \E end \in {"delivering", "ended"} : runs' = [runs EXCEPT ![r].at = end]
  /\ UNCHANGED <<calls, origin, events, requests, stops>>

UserInterrupts(k) ==
  /\ Open(World, k) /\ k \notin requests /\ stops < MaxStops
  /\ requests' = requests \cup {k} /\ stops' = stops + 1
  /\ UNCHANGED <<runs, calls, origin, events>>

UserStops(c) ==
  /\ stops < MaxStops /\ \E r \in DOMAIN runs : runs[r].conv = c /\ Alive(World, r)
  /\ events' = events \cup {Stop(c)} /\ stops' = stops + 1
  /\ UNCHANGED <<runs, calls, origin, requests>>

Init ==
  /\ runs = <<NewRun(1, 0, 0, "active")>> /\ calls = <<>> /\ origin = <<0>>
  /\ events = {} /\ requests = {} /\ stops = 0

Next ==
  \/ Pass
  \/ \E r \in DOMAIN runs : ModelCalls(r) \/ ModelEnds(r)
  \/ \E k \in DOMAIN calls : UserInterrupts(k)
  \/ \E c \in DOMAIN origin : UserStops(c)

Spec == Init /\ [][Next]_vars

-----------------------------------------------------------------------------
(* Properties *)

RunStates == {"queued", "held", "active", "tools", "delivering", "ended"}
Results == {"none", "background", "answer", "ok", "rejected", "interrupted"}

TypeOK ==
  /\ Len(runs) \in 1..MaxRuns /\ Len(calls) \in 0..MaxCalls /\ Len(origin) \in 1..MaxConvs
  /\ \A r \in DOMAIN runs : /\ runs[r].conv \in DOMAIN origin /\ runs[r].at \in RunStates
                            /\ runs[r].src \in 0..r - 1 /\ runs[r].call \in 0..Len(calls)
  /\ \A k \in DOMAIN calls : /\ calls[k].run \in DOMAIN runs /\ calls[k].result \in Results
                             /\ calls[k].child \in 0..Len(runs) /\ calls[k].answer \in 0..Len(calls)
  /\ requests \subseteq DOMAIN calls

\* "每次提交都会通知来源 Agent": each answer that a child submits reaches its
\* parent once, as what its call returns or as a notification, whatever budget
\* passes, whoever interrupts the call and whatever was told before.
AnswersArrive ==
  \A s \in DOMAIN calls : calls[s].does = "submit" /\ calls[s].result = "ok" =>
    LET heard == {k \in DOMAIN calls : calls[k].answer = s /\ (calls[k].used => calls[k].heard = s)}
        told == {r \in DOMAIN runs : runs[r].text = s}
    IN /\ Cardinality(heard) + Cardinality(told) = 1
       /\ \A r \in {calls[k].run : k \in heard} \cup told : runs[r].conv = origin[runs[calls[s].run].conv]

\* No run goes on for a call of which its parent heard that it was interrupted.
InterruptedIsOver ==
  \A k \in DOMAIN calls :
    calls[k].result = "interrupted" /\ calls[k].child # 0 /\ Alive(World, calls[k].child)
      => Cancel(calls[k].child) \in events

\* The two together, for the runs that hold several components.
ChildrenHold == TypeOK /\ AnswersArrive /\ InterruptedIsOver

StoppedNow(r) == Alive(World, r) /\ runs'[r].stopped

\* A child whose call has returned that it goes on in the background is not
\* ended by the stop of another conversation.
BackgroundGoesOnStep ==
  \A r \in DOMAIN runs :
    StoppedNow(r) /\ runs[r].call # 0 /\ (\A e \in events : e.kind # "cancel" /\ e # Stop(runs[r].conv))
      => calls'[runs[r].call].result # "background"

\* "run_agent interrupt only cancels the selected child subtree and keeps the
\* caller run alive" (tests/runAgentInterrupt.test.cjs:25): a run that has
\* interrupted a child is stopped only by what names its own conversation or
\* one above.  TLC refutes it: a run that answers the notification of a child
\* counts as coming from that child.
Below(c) ==
  LET below[d \in 0..Len(origin)] == d # 0 /\ (d = c \/ below[origin[d]]) IN {d \in DOMAIN origin : below[d]}

CallerStaysAlive ==
  [][\A k \in DOMAIN calls :
       LET caller == calls[k].run
       IN calls[k].does = "interrupt" /\ StoppedNow(caller) =>
            \E e \in events :
              \/ e.kind = "stop" /\ runs[caller].conv \in Below(e.of)
              \/ e.kind = "cancel" /\ runs[caller].conv \in Below(runs[e.of].conv)]_vars
=============================================================================
