------------------------------ MODULE McpRuntime ------------------------------
(***************************************************************************)
(* The connections to MCP servers (application/mcpRuntimeManager.ts) and    *)
(* what the world is told of them (BackendApplication.ts).                  *)
(*                                                                          *)
(* Every save of the settings asks for a refresh.  Refreshes run one after  *)
(* the other: each reads the settings as they are then, closes what they no *)
(* longer want, and connects one server after the other, telling the world  *)
(* at each step.  A server may refuse, answer the first request and fail    *)
(* the next, never answer, or exit later on.                                *)
(***************************************************************************)
EXTENDS Naturals, Sequences, FiniteSets

CONSTANTS Servers,          \* 1..n, in the order of the settings
          MaxSaves, MaxFaults, None

VARIABLES
  stored,      \* of each server, its configuration: [on, rev], or None
  chain,       \* the refreshes asked for and not over, each with its `discover`
  cur,         \* the refresh under way: [pc, wanted, next, at]
  conns,       \* of each server, the configuration it is connected with, or None
  sources,     \* of each server without a connection, what is said of it, or None
  open,        \* the transports that are open: <<server, configuration>>
  stray,       \* those of them that nobody holds any more
  world,       \* what the world was told: [tools, sources]
  disposing, disposed, saves, faults,
  unread       \* the settings could not be read by the last refresh

vars == <<stored, chain, cur, conns, sources, open, stray, world, disposing, disposed, saves,
          faults, unread>>

Idle == [pc |-> "idle", wanted |-> [s \in Servers |-> None], next |-> 1, at |-> None]
View(c, q) == [tools |-> {s \in Servers : c[s] # None}, sources |-> q]

\* The window has read its data and asks for a first refresh.
Init ==
  /\ stored \in [Servers -> [on : BOOLEAN, rev : {MaxSaves}] \cup {None}]
  /\ conns = [s \in Servers |-> None] /\ sources = conns
  /\ chain = <<TRUE>> /\ cur = Idle /\ open = {} /\ stray = {}
  /\ world = View(conns, sources)
  /\ disposing = FALSE /\ disposed = FALSE /\ saves = 0 /\ faults = 0 /\ unread = FALSE

Wants(s) == cur.wanted[s] # None /\ cur.wanted[s].on
Fault == faults < MaxFaults /\ faults' = faults + 1

\* notifyStateChange: the listener copies the tools and sources, until the window closes.
Told(c, q) == world' = IF disposing THEN world ELSE View(c, q)

----------------------------------------------------------------------------
\* Mutant: a refresh that is asked for while one runs is the one that runs.
RefreshJoined(q, discover) == IF q = <<>> THEN <<discover>> ELSE q

\* refreshFromSettings: one after the other.
Refresh(q, discover) == Append(q, discover)

\* A server is added, changed, switched off or deleted, and the settings are saved.
Save(s, config, discover) ==
  /\ saves < MaxSaves /\ saves' = saves + 1 /\ ~disposing
  /\ config # None \/ stored[s] # None
  /\ stored' = [stored EXCEPT ![s] = config]
  /\ chain' = Refresh(chain, discover)
  /\ UNCHANGED <<cur, conns, sources, open, stray, world, disposing, disposed, faults, unread>>

Load ==
  /\ chain # <<>> /\ cur.pc = "idle"
  /\ cur' = [Idle EXCEPT !.pc = "close", !.wanted = stored]
  /\ sources' = [s \in Servers |-> None] /\ unread' = FALSE
  /\ UNCHANGED <<stored, chain, conns, open, stray, world, disposing, disposed, saves, faults>>

\* The settings cannot be read: the refresh is over, and the next one begins.
LoadFails ==
  /\ chain # <<>> /\ cur.pc = "idle" /\ Fault
  /\ chain' = Tail(chain) /\ unread' = TRUE /\ Told(conns, sources)
  /\ UNCHANGED <<stored, cur, conns, sources, open, stray, disposing, disposed, saves>>

Outdated(s) == conns[s] # None /\ (~Wants(s) \/ conns[s] # cur.wanted[s])

Closed(s, c) == open \ {<<s, c>>}

Close(s) ==
  /\ cur.pc = "close" /\ Outdated(s)
  /\ \A t \in Servers : Outdated(t) => s <= t
  /\ open' = Closed(s, conns[s])
  /\ stray' = stray \cap open'
  /\ conns' = [conns EXCEPT ![s] = None]
  /\ UNCHANGED <<stored, chain, cur, sources, world, disposing, disposed, saves, faults, unread>>

\* The next server of the settings that were read.
Visit ==
  /\ cur.pc = "close" /\ \A s \in Servers : ~Outdated(s)
  /\ cur.next \in Servers
  /\ LET s == cur.next
         say(what) == [sources EXCEPT ![s] = what]
     IN  IF ~Wants(s) \/ conns[s] # None
           THEN /\ sources' = IF cur.wanted[s] = None \/ conns[s] # None THEN sources ELSE say("disabled")
                /\ cur' = [cur EXCEPT !.next = @ + 1] /\ UNCHANGED world
         ELSE IF ~Head(chain)
           THEN /\ sources' = say("idle")
                /\ cur' = [cur EXCEPT !.next = @ + 1] /\ UNCHANGED world
         ELSE /\ sources' = say("connecting") /\ Told(conns, sources')
              /\ cur' = [cur EXCEPT !.pc = "connect", !.at = s]
  /\ UNCHANGED <<stored, chain, conns, open, stray, disposing, disposed, saves, faults, unread>>

\* client.connect.
Connects ==
  /\ cur.pc = "connect"
  /\ open' = open \cup {<<cur.at, cur.wanted[cur.at]>>}
  /\ cur' = [cur EXCEPT !.pc = "list"]
  /\ UNCHANGED <<stored, chain, conns, sources, stray, world, disposing, disposed, saves, faults, unread>>

Advance == cur' = [cur EXCEPT !.pc = "close", !.next = @ + 1, !.at = None]

\* client.listTools: the connection is kept, also by a window that is closing.
Lists ==
  /\ cur.pc = "list"
  /\ sources' = [sources EXCEPT ![cur.at] = None]
  /\ conns' = [conns EXCEPT ![cur.at] = cur.wanted[cur.at]]
  /\ stray' = IF disposed THEN stray \cup {<<cur.at, cur.wanted[cur.at]>>} ELSE stray
  /\ Told(conns', sources') /\ Advance
  /\ UNCHANGED <<stored, chain, open, disposing, disposed, saves, faults, unread>>

\* Either request fails.  Nobody closes a transport whose tools could not be listed.
ConnectFails ==
  /\ cur.pc \in {"connect", "list"} /\ Fault
  /\ sources' = [sources EXCEPT ![cur.at] = "error"]
  /\ stray' = IF cur.pc = "list" THEN stray \cup {<<cur.at, cur.wanted[cur.at]>>} ELSE stray
  /\ Told(conns, sources') /\ Advance
  /\ UNCHANGED <<stored, chain, conns, open, disposing, disposed, saves, unread>>

\* The refresh is over; the settings bridge tells the world once more.
Finish ==
  /\ cur.pc = "close" /\ (\A s \in Servers : ~Outdated(s)) /\ cur.next \notin Servers
  /\ cur' = Idle /\ chain' = Tail(chain) /\ Told(conns, sources)
  /\ UNCHANGED <<stored, conns, sources, open, stray, disposing, disposed, saves, faults, unread>>

\* A server exits: nothing listens for it, and its tools stay offered.
Exits(s) ==
  /\ conns[s] # None /\ <<s, conns[s]>> \in open /\ Fault
  /\ open' = open \ {<<s, conns[s]>>} /\ stray' = stray \ {<<s, conns[s]>>}
  /\ UNCHANGED <<stored, chain, cur, conns, sources, world, disposing, disposed, saves, unread>>

\* The window closes; after its data is saved, what is connected is closed.  A refresh that is
\* under way is neither waited for nor stopped.
DisposeBegins ==
  /\ ~disposing /\ disposing' = TRUE
  /\ UNCHANGED <<stored, chain, cur, conns, sources, open, stray, world, disposed, saves, faults, unread>>

Dispose ==
  /\ disposing /\ ~disposed /\ disposed' = TRUE
  /\ open' = open \ {<<s, conns[s]>> : s \in Servers} /\ stray' = stray \cap open'
  /\ conns' = [s \in Servers |-> None] /\ sources' = [s \in Servers |-> None]
  /\ UNCHANGED <<stored, chain, cur, world, disposing, saves, faults, unread>>

Next ==
  \/ \E s \in Servers :
       \/ Close(s) \/ Exits(s)
       \/ \E on, discover \in BOOLEAN : Save(s, [on |-> on, rev |-> saves], discover)
       \/ \E discover \in BOOLEAN : Save(s, None, discover)
  \/ Load \/ LoadFails \/ Visit \/ Connects \/ Lists \/ ConnectFails \/ Finish
  \/ DisposeBegins \/ Dispose

Spec == Init /\ [][Next]_vars

----------------------------------------------------------------------------
(* A refresh runs only if one was asked for, connects one server, and a     *)
(* server with a connection has no other state.                             *)
TypeOK ==
  /\ cur.pc # "idle" => chain # <<>>
  /\ cur.at # None <=> cur.pc \in {"connect", "list"}
  /\ \A s \in Servers : conns[s] # None => conns[s].on /\ (disposed \/ sources[s] = None)
  /\ stray \subseteq open

(* With no refresh left, the connections and what is said of the others are *)
(* those of the settings as stored, whatever was saved while the refreshes  *)
(* ran, and the world was told so (refreshFromSettings, refreshMcpRuntime). *)
SettledAsStored ==
  chain = <<>> /\ ~disposing /\ ~unread =>
    /\ \A s \in Servers :
         CASE stored[s] = None -> conns[s] = None /\ sources[s] = None
           [] stored[s] # None /\ ~stored[s].on -> conns[s] = None /\ sources[s] = "disabled"
           [] OTHER -> \/ conns[s] = stored[s] /\ sources[s] = None
                       \/ conns[s] = None /\ sources[s] \in {"idle", "error"}
    /\ world = View(conns, sources)

(* Every transport that is open is that of a connection or of the server    *)
(* that is being connected, those apart whose tools could not be listed or  *)
(* that were connected when the window had closed (closeConnection).        *)
TransportsAreHeld ==
  \A t \in open \ stray :
    conns[t[1]] = t[2] \/ (cur.at = t[1] /\ cur.wanted[t[1]] = t[2])

(* Servers are connected as stored, and no transport is left over.          *)
ConnectionsHold == TypeOK /\ SettledAsStored /\ TransportsAreHeld
=============================================================================
