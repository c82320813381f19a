----------------------------- MODULE MCRuntime ------------------------------
(* What a window runs on and runs, for TLC: the compiler of its schedule, its *)
(* worker threads, the store of its timelines, the lock that it writes under  *)
(* beside other windows, and agents that start agents.  They share no state   *)
(* here, so a behaviour is one of them.                                      *)
(*                                                                           *)
(* TimelineStore: two hosts, chunks of two messages, one tool call and a     *)
(* compression block.                                                        *)
EXTENDS ScheduleCompiler, TLC

CONSTANTS h1, h2, call, Gone, Absent

OwnerOfCall == [c \in {call} |-> 1]
OwnMessages == [h \in {h1, h2} |-> IF h = h1 THEN {4} ELSE {5}]
\* Two finished messages and an unfinished one, in two chunks; the first has a
\* tool call that is running.
StoredAtFirst == [r \in 1..5 \cup {call} |->
                    CASE r \in {1, 2} -> "done" [] r = 3 -> "part"
                      [] r = call -> "executing" [] OTHER -> Gone]
AllAndTail == [h \in {h1, h2} |-> IF h = h1 THEN "detail" ELSE "tail"]

\* Every set of before/after edges among the systems.
AnyEdges == SUBSET {e \in System \X System : e[1] # e[2]}

\* No mode, one, and two together.
EveryMode == {{}, {"update"}, {"append"}, {"create", "update"}}

CompilerRests ==
  /\ reads = [s \in System |-> [t \in Token |-> "none"]]
  /\ modes = [s \in System |-> [t \in Token |-> {}]]
  /\ declared = {}

VARIABLES part,   \* the component whose turn the behaviour is
  poolWaiting, poolSlots, poolIdle, poolCurrent, poolClosed, poolCreated, poolOutcome,
  poolMessages, poolNoise, poolDisposed,
  timelineRoot, timelineIndex, timelineFile, timelineBlocks, timelineCreated,
  timelineLoaded, timelineWorld, timelineSeen, timelineBase, timelineSavedBlocks,
  timelineOverride, timelineSave, timelineMet, timelineUsed, timelineChanges,
  timelineMishaps,
  childRuns, childCalls, childOrigin, childEvents, childRequests, childStops,
  lockAlive, lockQueue, lockPc, lockFile, lockStatOld, lockExpired, lockBeating,
  lockOutdated, lockFlaws

poolVars ==
  <<poolWaiting, poolSlots, poolIdle, poolCurrent, poolClosed, poolCreated,
  poolOutcome, poolMessages, poolNoise, poolDisposed>>
timelineVars ==
  <<timelineRoot, timelineIndex, timelineFile, timelineBlocks, timelineCreated,
  timelineLoaded, timelineWorld, timelineSeen, timelineBase, timelineSavedBlocks,
  timelineOverride, timelineSave, timelineMet, timelineUsed, timelineChanges,
  timelineMishaps>>
childVars ==
  <<childRuns, childCalls, childOrigin, childEvents, childRequests, childStops>>
lockVars ==
  <<lockAlive, lockQueue, lockPc, lockFile, lockStatOld, lockExpired, lockBeating,
  lockOutdated, lockFlaws>>

Pool == INSTANCE WorkerPool WITH
  Jobs <- 1..4, Slots <- 1..4, MaxSize <- 2, MaxNoise <- 1, waiting <- poolWaiting,
  slots <- poolSlots, idle <- poolIdle, current <- poolCurrent, closed <- poolClosed,
  created <- poolCreated, outcome <- poolOutcome, messages <- poolMessages,
  noise <- poolNoise, disposed <- poolDisposed

Timeline == INSTANCE TimelineStore WITH
  Hosts <- {h1, h2}, Messages <- 1..5, Calls <- {call}, Owner <- OwnerOfCall,
  Mine <- OwnMessages, Blocks <- {2}, Absent <- Absent, Gone <- Gone,
  Stored <- StoredAtFirst, StoredBlocks <- {}, Opened <- AllAndTail, Inputs <- {2, 5},
  MaxCommits <- 2, MaxChanges <- 3, Mishaps <- {"crash", "write", "late", "garbage"},
  ChunkSize <- 2, root <- timelineRoot, index <- timelineIndex, file <- timelineFile,
  blocks <- timelineBlocks, created <- timelineCreated, loaded <- timelineLoaded,
  world <- timelineWorld, seen <- timelineSeen, base <- timelineBase,
  savedBlocks <- timelineSavedBlocks, override <- timelineOverride,
  save <- timelineSave, met <- timelineMet, used <- timelineUsed,
  changes <- timelineChanges, mishaps <- timelineMishaps

Children == INSTANCE ChildAgents WITH
  MaxRuns <- 4, MaxCalls <- 3, MaxConvs <- 3, MaxStops <- 1, MaxDepth <- 2,
  runs <- childRuns, calls <- childCalls, origin <- childOrigin,
  events <- childEvents, requests <- childRequests, stops <- childStops

\* Three windows with one call each, of which the third may die anywhere.
Lock == INSTANCE StorageResourceLock WITH
  Proc <- 1..3, Task <- 1..3, ProcOf <- [t \in 1..3 |-> t], NoFile <- Gone,
  MayCrash <- {3}, SlowCreate <- TRUE, FileOpsMayFail <- FALSE,
  alive <- lockAlive, queue <- lockQueue, pc <- lockPc, file <- lockFile,
  statOld <- lockStatOld, expired <- lockExpired, beating <- lockBeating,
  outdated <- lockOutdated, flaws <- lockFlaws

\* A part that does not move holds nothing, the compiler what it began with.
PoolRests ==
  poolWaiting = 0 /\ poolSlots = 0 /\ poolIdle = 0 /\ poolCurrent = 0 /\
  poolClosed = 0 /\ poolCreated = 0 /\ poolOutcome = 0 /\ poolMessages = 0 /\
  poolNoise = 0 /\ poolDisposed = 0
TimelineRests ==
  timelineRoot = 0 /\ timelineIndex = 0 /\ timelineFile = 0 /\ timelineBlocks = 0 /\
  timelineCreated = 0 /\ timelineLoaded = 0 /\ timelineWorld = 0 /\
  timelineSeen = 0 /\ timelineBase = 0 /\ timelineSavedBlocks = 0 /\
  timelineOverride = 0 /\ timelineSave = 0 /\ timelineMet = 0 /\ timelineUsed = 0 /\
  timelineChanges = 0 /\ timelineMishaps = 0
ChildrenRests ==
  childRuns = 0 /\ childCalls = 0 /\ childOrigin = 0 /\ childEvents = 0 /\
  childRequests = 0 /\ childStops = 0
LockRests ==
  lockAlive = 0 /\ lockQueue = 0 /\ lockPc = 0 /\ lockFile = 0 /\ lockStatOld = 0 /\
  lockExpired = 0 /\ lockBeating = 0 /\ lockOutdated = 0 /\ lockFlaws = 0

PartsInit ==
  /\ Init
  /\ \/ part = "compiler" /\ PoolRests /\ TimelineRests /\ ChildrenRests /\ LockRests
     \/ part = "pool" /\ Pool!Init /\ CompilerRests /\ TimelineRests /\ ChildrenRests /\ LockRests
     \/ part = "timeline" /\ Timeline!Init /\ CompilerRests /\ PoolRests /\ ChildrenRests /\ LockRests
     \/ part = "children" /\ Children!Init /\ CompilerRests /\ PoolRests /\ TimelineRests /\ LockRests
     \/ part = "lock" /\ Lock!Init /\ CompilerRests /\ PoolRests /\ TimelineRests /\ ChildrenRests

PartsNext ==
  \/ part = "compiler" /\ Next /\ UNCHANGED <<part, poolVars, timelineVars, childVars, lockVars>>
  \/ part = "pool" /\ Pool!Next
     /\ UNCHANGED <<part, vars, timelineVars, childVars, lockVars>>
  \/ part = "timeline" /\ Timeline!Next
     /\ UNCHANGED <<part, vars, poolVars, childVars, lockVars>>
  \/ part = "children" /\ Children!Next
     /\ UNCHANGED <<part, vars, poolVars, timelineVars, lockVars>>
  \/ part = "lock" /\ Lock!Next
     /\ UNCHANGED <<part, vars, poolVars, timelineVars, childVars>>

PartsSpec ==
  PartsInit /\ [][PartsNext]_<<part, vars, poolVars, timelineVars, childVars, lockVars>>

-----------------------------------------------------------------------------
\* No job waits while a worker could take it; its promise is settled once, and resolved only by
\* the answer its own worker posted to it (WorkerPool).
JobsHeld ==
  /\ [](part = "pool" => Pool!TypeOK /\ Pool!NobodyWaitsForNothing)
  /\ [][part = "pool" => Pool!SettledByItsAnswerStep]_poolVars

\* Whatever crashed, failed or was collected, the committed index finds each of its chunks
\* with the messages it lists, and the timeline is cut as if written as a whole
\* (TimelineStore).
StoreWhole == part = "timeline" => Timeline!StoreWhole

\* A finished message is never a fragment again, the first result of a call stands, and a save
\* acknowledges what the store then holds (TimelineStore).
RecordsStand == [][part = "timeline" => Timeline!RecordsStandStep]_timelineVars

\* The timeline is a table of records with compare and set per record (TimelineRegister).
IsRegister ==
  /\ part = "timeline" => Timeline!Register!Init
  /\ [][part = "timeline" => [Timeline!Register!Next]_(Timeline!Register!vars)]_timelineVars

\* Every answer that a child submits reaches its parent once, no run goes on for a call of
\* which its parent heard that it was interrupted, and one whose call returned that it goes on
\* is not ended by the stop of another conversation (ChildAgents).
ChildrenHold ==
  /\ [](part = "children" => Children!ChildrenHold)
  /\ [][part = "children" => Children!BackgroundGoesOnStep]_childVars

\* At most one living call holds the lock, across processes, and a recovery that removes a file
\* is right about it, as long as it removes the file it took the stat of and creators are
\* quick (StorageResourceLock).
LockHolds ==
  /\ [](part = "lock" => Lock!MutualExclusion)
  /\ [][part = "lock" => Lock!VerdictsAreRightStep]_lockVars
=============================================================================
