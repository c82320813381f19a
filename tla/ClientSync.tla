----------------------------- MODULE ClientSync -----------------------------
(* How the panels follow the world: the last system of a pass               *)
(* (ClientSyncSystem.ts) keeps one stream for the global tables and one for  *)
(* each conversation somebody looks at, and sends snapshots and numbered     *)
(* patches through the hub (vscodeWebview.ts) to the panels that subscribed. *)
(* While a model streams, text goes out by a fast path that projects         *)
(* nothing. A panel applies a patch only when its number follows the last    *)
(* one, and keeps the patches of a conversation for the next frame, in two   *)
(* stores with a batch each.                                                 *)
(* Contents are counted: t is the streamed text, m what else happened to     *)
(* messages, o what happened to anything else.                               *)
EXTENDS Integers, Sequences, SequencesExt

CONSTANTS Panels,      \* panels; one that is closed and opened again is a new client
          Kind,        \* of each panel: "chat", "history" (Hello names no conversation), "settings"
          Convs,       \* conversations; Default is the one a panel falls back to
          Default,
          Global,      \* the stream of the global tables
          None,
          MaxChanges,  \* bound: changes of the world
          MaxDeltas,   \* bound: pieces of streamed text
          MaxOpened,   \* bound: panels opened
          MaxFlight    \* bound: messages on their way to a panel when a pass runs

Streams == Convs \cup {Global}
Content == [t : 0..MaxDeltas, m : 0..MaxChanges, o : 0..MaxChanges]
Empty == [t |-> 0, m |-> 0, o |-> 0]
Stream == [seq : Nat \ {0}, state : Content]
Batch == [seq : Nat, add : Nat, state : Content \cup {None}]

ASSUME BoundsAreNumbers == {MaxChanges, MaxDeltas, MaxOpened, MaxFlight} \subseteq Nat
ASSUME ConversationsAreNamed ==
  IsFiniteSet(Convs) /\ Default \in Convs /\ Global \notin Convs /\ "ready" \notin Streams
\* None is undefined of the code.
ASSUME NoneIsApart ==
  /\ None \notin Streams \cup Content \cup Stream \cup Batch \cup [Streams -> Content]
  /\ \A followed \in SUBSET Streams : followed # None

VARIABLES
  world,     \* contents of each stream's tables
  active,    \* a model request is being answered
  fast,      \* ClientSyncFastPatchState: [n : patches of each conversation, defer, require]
  moved,     \* the clocks that moved since the last full projection: "message", "other"
  last,      \* ClientSyncState.lastState, or None
  streams,   \* ClientSyncState.streams: [seq, state] or None
  events,    \* Resync and StreamsReleased in the world's queue
  loads,     \* requests of each conversation waiting for its tail
  hydrated,  \* the skeleton is loaded
  owed,      \* snapshots asked for before that
  hub,       \* subscriptions of each panel, None when it is not attached
  up, down,  \* messages of each panel on their way
  view,      \* the panel's state store: [seq, state] and batch, of each stream
  shown,     \* its timeline store: [seq, state, has] and batch, of each conversation
  current,   \* the conversation it is on, or None
  asked,     \* conversations whose stream it asked for
  budget     \* changes, deltas and openings so far

model == <<world, active, fast, moved>>
sync == <<last, streams>>
host == <<events, loads, hydrated, owed>>
client == <<view, shown, current, asked>>
vars == <<model, sync, host, hub, up, down, client, budget>>

Fresh == [seq |-> 0, state |-> Empty, batch |-> None, has |-> FALSE]
Blank(c) == /\ view' = [view EXCEPT ![c] = [s \in Streams |-> Fresh]]
            /\ shown' = [shown EXCEPT ![c] = [s \in Convs |-> Fresh]]
            /\ current' = [current EXCEPT ![c] = None]
            /\ asked' = [asked EXCEPT ![c] = {}]

Spend(k) == /\ budget[k] < CASE k = "changes" -> MaxChanges [] k = "deltas" -> MaxDeltas [] OTHER -> MaxOpened
            /\ budget' = [budget EXCEPT ![k] = @ + 1]

\* The world changes
Changes(s, k, clock) == /\ world' = [world EXCEPT ![s][k] = @ + 1]
                        /\ moved' = moved \cup {clock}

\* LlmPollSystem: a piece of text, for which it leaves a patch.
Delta(x) ==
  /\ active /\ Spend("deltas")
  /\ Changes(x, "t", "message")
  /\ fast' = [fast EXCEPT !.n[x] = @ + 1, !.defer = TRUE]
  /\ UNCHANGED <<active, sync, host, hub, up, down, client>>

\* LlmPollSystem: what is no text (a thought ends, a call of a tool, a retry).
NoText(x) ==
  /\ active /\ Spend("changes")
  /\ Changes(x, "m", "message")
  /\ fast' = [fast EXCEPT !.defer = TRUE, !.require = TRUE]
  /\ UNCHANGED <<active, sync, host, hub, up, down, client>>

\* A request starts; the answer is complete.
Starts(x) ==
  /\ ~active /\ hydrated /\ Spend("changes")
  /\ active' = TRUE /\ Changes(x, "o", "other")
  /\ UNCHANGED <<fast, sync, host, hub, up, down, client>>

Ends(x) ==
  /\ active /\ Spend("changes")
  /\ active' = FALSE /\ Changes(x, "o", "other")
  /\ fast' = [fast EXCEPT !.defer = FALSE, !.require = TRUE]
  /\ UNCHANGED <<sync, host, hub, up, down, client>>

\* Anything else, of which some touches messages only.
Other(s) ==
  /\ Spend("changes")
  /\ \/ Changes(s, "o", "other")
     \/ s \in Convs /\ Changes(s, "m", "message")
  /\ UNCHANGED <<active, fast, sync, host, hub, up, down, client>>

\* ClientSyncSystem.run
Requested == {events[i].s : i \in {j \in DOMAIN events : events[j].kind = "resync"}}
Gone == UNION {events[i].ss : i \in {j \in DOMAIN events : events[j].kind = "released"}}

\* releaseUnusedStreamStates: those nobody follows, unless they are asked for in this pass.
Released == [s \in Streams |-> IF s \in Gone \ Requested THEN None ELSE streams[s]]

Defers == fast.defer /\ active
HasPatches == \E x \in Convs : fast.n[x] > 0

\* Mutant: the fast path is taken whatever else has changed.
OnlyTextAlways == TRUE
OnlyText == "other" \notin moved

TakesFastPath == /\ HasPatches /\ Defers /\ ~fast.require /\ last # None
                 /\ Requested = {} /\ OnlyText

InOrder(ss) == SetToSeq(ss)
\* To each panel the messages of the streams in sent it follows, msgs[s] that of s.
Posted(c, sent, msgs) ==
  LET order == InOrder(sent \cap hub[c]) IN [i \in DOMAIN order |-> msgs[order[i]]]
Broadcast(sent, msgs) ==
  down' = [c \in Panels |-> IF hub[c] = None THEN down[c] ELSE down[c] \o Posted(c, sent, msgs)]

Drained == events' = <<>>
\* clearFastPatchStateIfNeeded
ClearedFast == fast' = [n |-> [x \in Convs |-> 0], defer |-> FALSE, require |-> FALSE]

\* emitFastPatches: the text is added to what was last sent; the clocks stay.
Fast ==
  LET added == [s \in Streams |-> IF s \in Convs THEN [last[s] EXCEPT !.t = @ + fast.n[s]] ELSE last[s]]
      sent == {x \in Convs : fast.n[x] > 0 /\ Released[x] # None}
  IN /\ TakesFastPath
     /\ last' = added
     /\ streams' = [s \in Streams |-> IF s \in sent
                      THEN [seq |-> Released[s].seq + 1, state |-> [Released[s].state EXCEPT !.t = @ + fast.n[s]]]
                      ELSE Released[s]]
     /\ Broadcast(sent, [x \in sent |->
          [kind |-> "patch", s |-> x, seq |-> Released[x].seq + 1, add |-> fast.n[x], state |-> None]])
     /\ fast' = [fast EXCEPT !.n = [x \in Convs |-> 0]]
     /\ UNCHANGED moved

Skips == Defers /\ ~fast.require /\ Requested = {} /\ ~HasPatches /\ last # None /\ moved = {}

\* The full projection: a snapshot for what is asked for, a patch for each stream that changed.
Full ==
  LET changed == last = None \/ moved # {} \/ fast.require
      snapshots == Requested \cup (IF last = None THEN {Global} ELSE {})
      patches == {s \in Streams \ snapshots : changed /\ Released[s] # None /\ Released[s].state # world[s]}
      sent == snapshots \cup patches
      Seq0(s) == IF Released[s] = None THEN 0 ELSE Released[s].seq
  IN /\ ~TakesFastPath /\ ~Skips
     /\ last' = world
     /\ streams' = [s \in Streams |-> IF s \in sent THEN [seq |-> Seq0(s) + 1, state |-> world[s]] ELSE Released[s]]
     /\ Broadcast(sent, [s \in sent |->
          [kind |-> IF s \in snapshots THEN "snapshot" ELSE "patch",
           s |-> s, seq |-> Seq0(s) + 1, add |-> 0, state |-> world[s]]])
     /\ moved' = {} /\ ClearedFast

Idle == Skips /\ streams' = Released /\ UNCHANGED <<last, fast, moved, down>>

Pass ==
  /\ events # <<>> \/ moved # {} \/ fast.require \/ last = None
  /\ \A c \in Panels : Len(down[c]) < MaxFlight
  /\ Fast \/ Full \/ Idle
  /\ Drained
  /\ UNCHANGED <<world, active, loads, hydrated, owed, hub, up, client, budget>>

\* The host
\* requestSnapshot
AsksSnapshot(s) ==
  IF hydrated THEN events' = Append(events, [kind |-> "resync", s |-> s]) /\ UNCHANGED owed
  ELSE owed' = owed \cup {s} /\ UNCHANGED events

Hydrated ==
  /\ ~hydrated /\ hydrated' = TRUE
  /\ events' = events \o [i \in DOMAIN InOrder(owed) |-> [kind |-> "resync", s |-> InOrder(owed)[i]]]
  /\ owed' = {}
  /\ UNCHANGED <<model, sync, loads, hub, up, down, client, budget>>

\* The tail of a conversation is there, or cannot be read: the snapshot is asked for either way.
TailLoaded(x) ==
  /\ loads[x] > 0 /\ loads' = [loads EXCEPT ![x] = @ - 1]
  /\ AsksSnapshot(x)
  /\ UNCHANGED <<model, sync, hydrated, hub, up, down, client, budget>>

Subscribe(c, s) == hub' = [hub EXCEPT ![c] = @ \cup {s}]

\* Ready and ClientResync of a panel.
Handles(c) ==
  /\ hub[c] # None /\ up[c] # <<>>
  /\ LET q == Head(up[c]) IN
     /\ up' = [up EXCEPT ![c] = Tail(@)]
     /\ CASE q = "ready" -> /\ down' = [down EXCEPT ![c] = Append(@, [kind |-> "hello", s |-> None])]
                            /\ Subscribe(c, Global) /\ AsksSnapshot(Global) /\ UNCHANGED loads
          [] q = Global  -> Subscribe(c, Global) /\ AsksSnapshot(Global) /\ UNCHANGED <<loads, down>>
          [] OTHER       -> /\ Subscribe(c, q) /\ loads' = [loads EXCEPT ![q] = @ + 1]
                            /\ UNCHANGED <<events, owed, down>>
  /\ UNCHANGED <<model, sync, hydrated, client, budget>>

Attach(c) ==
  /\ hub[c] = None /\ Spend("opened")
  /\ hub' = [hub EXCEPT ![c] = {}] /\ up' = [up EXCEPT ![c] = <<"ready">>] /\ down' = [down EXCEPT ![c] = <<>>]
  /\ Blank(c)
  /\ UNCHANGED <<model, sync, host>>

\* WebviewHub.detach: the streams nobody else follows.
Unused(c) == {s \in hub[c] : \A d \in Panels \ {c} : hub[d] = None \/ s \notin hub[d]}

Detach(c) ==
  /\ hub[c] # None
  /\ hub' = [hub EXCEPT ![c] = None] /\ up' = [up EXCEPT ![c] = <<>>] /\ down' = [down EXCEPT ![c] = <<>>]
  /\ events' = IF Unused(c) = {} THEN events ELSE Append(events, [kind |-> "released", ss |-> Unused(c)])
  /\ Blank(c)
  /\ UNCHANGED <<model, sync, loads, hydrated, owed, budget>>

\* The panel
Ask(c, s) == up' = [up EXCEPT ![c] = Append(@, s)]

\* The watcher of the current conversation: a chat follows its stream, once.
Follows(c, x) ==
  /\ current' = [current EXCEPT ![c] = x]
  /\ IF Kind[c] # "settings" /\ x # current[c] /\ x \notin asked[c]
     THEN asked' = [asked EXCEPT ![c] = @ \cup {x}] /\ Ask(c, x)
     ELSE UNCHANGED <<asked, up>>

\* ensureCurrentConversation
Falls(c) == IF current[c] = None THEN Follows(c, Default) ELSE UNCHANGED <<current, asked, up>>

Add(content, ops) == IF ops.state # None THEN [ops.state EXCEPT !.t = @ + ops.add] ELSE [content EXCEPT !.t = @ + ops.add]
\* Two patches in one batch: a later one that replaces rows forgets the earlier.
Join(a, b) == IF b.state # None \/ a = None THEN [seq |-> b.seq, add |-> b.add, state |-> b.state]
              ELSE [seq |-> b.seq, add |-> a.add + b.add, state |-> a.state]

Known(e) == IF e.batch # None THEN e.batch.seq ELSE e.seq

\* Mutant: a patch that is newer is taken, whatever is missing before it.
FitsIfNewer(e, q) == q.seq > Known(e)
\* applyClientPatch, its first test
Fits(e, q) == q.seq = Known(e) + 1

\* applyClientSnapshot: what waits for the frame is dropped.
Snapshot(e, q) == [e EXCEPT !.seq = q.seq, !.state = q.state, !.batch = None, !.has = TRUE]

\* A patch of the global tables is applied at once, one of a conversation waits for the frame.
Applied(e, q) == [e EXCEPT !.seq = q.seq, !.state = Add(@, q)]
Waits(e, q) == [e EXCEPT !.batch = Join(@, q)]

ReceiveHello(c) ==
  /\ IF Kind[c] = "chat" THEN Follows(c, Default) ELSE UNCHANGED <<current, asked, up>>
  /\ UNCHANGED <<view, shown>>

ReceiveSnapshot(c, q) ==
  /\ view' = [view EXCEPT ![c][q.s] = Snapshot(@, q)]
  /\ shown' = IF q.s = Global THEN shown
              ELSE [shown EXCEPT ![c][q.s] = IF @.has /\ q.seq <= @.seq THEN [@ EXCEPT !.batch = None] ELSE Snapshot(@, q)]
  /\ Falls(c)

\* A patch that does not fit is answered by asking for the conversation the panel is on.
ReceivePatch(c, q) ==
  IF ~Fits(view[c][q.s], q)
  THEN Ask(c, IF current[c] # None THEN current[c] ELSE Global) /\ UNCHANGED client
  ELSE IF q.s = Global
  THEN view' = [view EXCEPT ![c][q.s] = Applied(@, q)] /\ Falls(c) /\ UNCHANGED shown
  ELSE /\ view' = [view EXCEPT ![c][q.s] = Waits(@, q)]
       /\ shown' = [shown EXCEPT ![c][q.s] = IF q.seq > Known(@) THEN Waits(@, q) ELSE @]
       /\ UNCHANGED <<current, asked, up>>

Receive(c) ==
  /\ hub[c] # None /\ down[c] # <<>>
  /\ down' = [down EXCEPT ![c] = Tail(@)]
  /\ LET q == Head(down[c]) IN
     \/ q.kind = "hello" /\ ReceiveHello(c)
     \/ q.kind = "snapshot" /\ ReceiveSnapshot(c, q)
     \/ q.kind = "patch" /\ ReceivePatch(c, q)
  /\ UNCHANGED <<model, sync, host, hub, budget>>

Flushed(e) == IF e.batch.seq <= e.seq THEN [e EXCEPT !.batch = None]
              ELSE [e EXCEPT !.seq = e.batch.seq, !.state = Add(@, e.batch), !.batch = None]

\* The frame: the timeline first, the state store some time later.
FlushTimeline(c, x) ==
  /\ shown[c][x].batch # None /\ shown' = [shown EXCEPT ![c][x] = Flushed(@)]
  /\ UNCHANGED <<model, sync, host, hub, up, down, view, current, asked, budget>>

FlushState(c, x) ==
  /\ view[c][x].batch # None /\ view' = [view EXCEPT ![c][x] = Flushed(@)]
  /\ Falls(c)
  /\ UNCHANGED <<model, sync, host, hub, down, shown, budget>>

Init ==
  /\ world = [s \in Streams |-> Empty] /\ active = FALSE
  /\ fast = [n |-> [x \in Convs |-> 0], defer |-> FALSE, require |-> FALSE]
  /\ moved = {} /\ last = None /\ streams = [s \in Streams |-> None]
  /\ events = <<>> /\ loads = [x \in Convs |-> 0] /\ hydrated = FALSE /\ owed = {}
  /\ hub = [c \in Panels |-> None]
  /\ up = [c \in Panels |-> <<>>] /\ down = [c \in Panels |-> <<>>]
  /\ view = [c \in Panels |-> [s \in Streams |-> Fresh]]
  /\ shown = [c \in Panels |-> [s \in Convs |-> Fresh]]
  /\ current = [c \in Panels |-> None] /\ asked = [c \in Panels |-> {}]
  /\ budget = [changes |-> 0, deltas |-> 0, opened |-> 0]

Next ==
  \/ Pass \/ Hydrated
  \/ \E x \in Convs : Delta(x) \/ NoText(x) \/ Starts(x) \/ Ends(x) \/ TailLoaded(x)
  \/ \E s \in Streams : Other(s)
  \/ \E c \in Panels : Attach(c) \/ Detach(c) \/ Handles(c) \/ Receive(c)
  \/ \E c \in Panels, x \in Convs : FlushTimeline(c, x) \/ FlushState(c, x)

Spec == Init /\ [][Next]_vars
-----------------------------------------------------------------------------
\* The streams are numbered and hold what the projection last saw.
TypeOK ==
  /\ \A s \in Streams : world[s] \in Content
  /\ moved \subseteq {"message", "other"} /\ active \in BOOLEAN /\ hydrated \in BOOLEAN
  /\ \A s \in Streams : streams[s] = None \/ (streams[s].seq \in Nat \ {0} /\ last # None /\ streams[s].state = last[s])
  /\ \A c \in Panels : hub[c] = None \/ hub[c] \subseteq Streams
  /\ \A c \in Panels : \A s \in Streams : view[c][s].state \in Content
  /\ fast.n # [x \in Convs |-> 0] => moved # {}

Pending(e) == IF e.batch = None THEN e.state ELSE Add(e.state, e.batch)
OnItsWay(c, s) == \E i \in DOMAIN down[c] : down[c][i].s = s

\* A panel that has the number of a stream has its contents, in both stores: no patch was put
\* on another base than the one it was computed from, none was lost or applied twice
\* (ClientSyncSystem.ts, useClientStateStore.ts, useConversationTimelineStore.ts).
InStep ==
  \A c \in Panels : hub[c] # None =>
    \A s \in hub[c] : streams[s] # None /\ Known(view[c][s]) = streams[s].seq /\ ~OnItsWay(c, s) =>
      /\ Pending(view[c][s]) = streams[s].state
      /\ s \in Convs => Known(shown[c][s]) = streams[s].seq /\ Pending(shown[c][s]) = streams[s].state

Quiet == /\ events = <<>> /\ hydrated /\ moved = {} /\ ~fast.require
         /\ \A x \in Convs : loads[x] = 0
         /\ \A c \in Panels : up[c] = <<>> /\ down[c] = <<>>
         /\ \A c \in Panels : \A x \in Convs : view[c][x].batch = None /\ shown[c][x].batch = None

\* When nothing is on its way every panel shows the world, in each stream it follows, whatever
\* was opened, closed, asked for again and released in between.
Converged ==
  Quiet => \A c \in Panels : hub[c] # None =>
    \A s \in hub[c] : view[c][s].state = world[s] /\ (s \in Convs => shown[c][s].state = world[s])

NobodyStarvesStep ==
  Pass => \A s \in Streams : streams'[s] # None =>
     streams'[s].state.o = world'[s].o /\ streams'[s].state.t = world'[s].t

\* A conversation whose model streams does not keep the others waiting: a pass leaves no stream
\* behind in anything but the rows of messages (ClientSyncSystem.ts:190-192).
NobodyStarves == [][NobodyStarvesStep]_vars

\* Panels have what the host believes they have, and in the end they show the world.
PanelsAgree == TypeOK /\ InStep /\ Converged
=============================================================================
