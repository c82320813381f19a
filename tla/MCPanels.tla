------------------------------ MODULE MCPanels ------------------------------
(* What the panels show, for TLC: their synchronisation with the world and   *)
(* their window of a timeline.  The two share no state, so a behaviour is    *)
(* one of them.  Panels are alike.                                           *)
EXTENDS ClientSync, TLC

\* All panels show conversations.
Chats == [c \in Panels |-> "chat"]

Symmetry == Permutations(Panels)

VARIABLES part,   \* the component whose turn the behaviour is
  windowNow, windowStored, windowSaved, windowCut, windowCommitSeq, windowTotalsDue,
  windowSignature, windowReply, windowChannel, windowPanel, windowCreated, windowSteps

windowVars ==
  <<windowNow, windowStored, windowSaved, windowCut, windowCommitSeq, windowTotalsDue,
  windowSignature, windowReply, windowChannel, windowPanel, windowCreated, windowSteps>>

Window == INSTANCE TimelineWindow WITH
  Start <- {2, 4}, ChunkSize <- 2, Recent <- 2, PageChunks <- 1, Resident <- 2,
  StaleRetries <- 1, MaxSteps <- 3, now <- windowNow, stored <- windowStored,
  saved <- windowSaved, cut <- windowCut, commitSeq <- windowCommitSeq,
  totalsDue <- windowTotalsDue, signature <- windowSignature, reply <- windowReply,
  channel <- windowChannel, panel <- windowPanel, created <- windowCreated,
  steps <- windowSteps

\* A part that does not move holds nothing, ClientSync what it began with.
WindowRests ==
  windowNow = 0 /\ windowStored = 0 /\ windowSaved = 0 /\ windowCut = 0 /\
  windowCommitSeq = 0 /\ windowTotalsDue = 0 /\ windowSignature = 0 /\
  windowReply = 0 /\ windowChannel = 0 /\ windowPanel = 0 /\ windowCreated = 0 /\
  windowSteps = 0

PartsInit ==
  /\ Init
  /\ \/ part = "sync" /\ WindowRests
     \/ part = "window" /\ Window!Init

PartsNext ==
  \/ part = "sync" /\ Next /\ UNCHANGED <<part, windowVars>>
  \/ part = "window" /\ Window!Next
     /\ UNCHANGED <<part, vars>>

PartsSpec == PartsInit /\ [][PartsNext]_<<part, vars, windowVars>>

-----------------------------------------------------------------------------
\* At rest a panel shows a stretch of the conversation without gaps and without messages
\* that are gone, whatever was paged in, removed or replaced in which order (TimelineWindow).
WindowHolds == part = "window" => Window!WindowHolds
=============================================================================
