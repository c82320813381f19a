---------------------------- MODULE HostServices ----------------------------
(* What the hosts on one machine do: the snapshots of the skeleton, the MCP  *)
(* servers of one host and the commands in the background.  They share no    *)
(* state, so a behaviour is one of them.                                     *)
EXTENDS SkeletonTransaction, Sequences

CONSTANTS None,
          Servers, MaxSaves, McpFaults,                  \* of McpRuntime
          Procs, MaxOutput, CommandFaults, MaxReads      \* of BackgroundCommands

VARIABLES part,   \* the component whose turn the behaviour is
  stored, chain, cur, conns, sources, open, stray, world, disposing, disposed, saves, mcpFaults, unread,
  owner, phase, child, printed, handle, record, told, consumed, seen, killed, lapsed, commandFaults, reads

mcpVars ==
  <<stored, chain, cur, conns, sources, open, stray, world, disposing, disposed, saves, mcpFaults, unread>>
commandVars ==
  <<owner, phase, child, printed, handle, record, told, consumed, seen, killed, lapsed, commandFaults, reads>>

Mcp == INSTANCE McpRuntime WITH MaxFaults <- McpFaults, faults <- mcpFaults
Command == INSTANCE BackgroundCommands WITH
  Windows <- Hosts, MaxFaults <- CommandFaults, faults <- commandFaults

\* A part that does not move holds nothing, the skeleton what it began with.
McpRests ==
  /\ stored = 0 /\ chain = 0 /\ cur = 0 /\ conns = 0 /\ sources = 0 /\ open = 0 /\ stray = 0
  /\ world = 0 /\ disposing = 0 /\ disposed = 0 /\ saves = 0 /\ mcpFaults = 0 /\ unread = 0
CommandRests ==
  /\ owner = 0 /\ phase = 0 /\ child = 0 /\ printed = 0 /\ handle = 0 /\ record = 0 /\ told = 0
  /\ consumed = 0 /\ seen = 0 /\ killed = 0 /\ lapsed = 0 /\ commandFaults = 0 /\ reads = 0

PartsInit ==
  /\ Init
  /\ \/ part = "skeleton" /\ McpRests /\ CommandRests
     \/ part = "mcp" /\ Mcp!Init /\ CommandRests
     \/ part = "commands" /\ Command!Init /\ McpRests

PartsNext ==
  \/ part = "skeleton" /\ Next /\ UNCHANGED <<part, mcpVars, commandVars>>
  \/ part = "mcp" /\ Mcp!Next
     /\ UNCHANGED <<part, vars, commandVars>>
  \/ part = "commands" /\ Command!Next
     /\ UNCHANGED <<part, vars, mcpVars>>

PartsSpec == PartsInit /\ [][PartsNext]_<<part, vars, mcpVars, commandVars>>

-----------------------------------------------------------------------------
\* With no refresh left, the connections are those of the settings as stored and the world was
\* told so; every open transport is that of a connection, known exceptions apart (McpRuntime).
ConnectionsHold == part = "mcp" => Mcp!ConnectionsHold

\* What a command printed can be read until it was read after its end or somebody killed it,
\* the exceptions of BackgroundCommands apart.
OutputHolds == part = "commands" => Command!OutputHolds

\* The end of a command is told once, the record of a killed one is not written again, and
\* output given out as that of an ended command is all it printed (BackgroundCommands).
ReportsHold == [][part = "commands" => Command!ReportsHoldStep]_commandVars
=============================================================================
