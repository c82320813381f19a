-------------------------- MODULE ClientPersistence --------------------------
(***************************************************************************)
(* ClientStatePersistence.ts and the operations of BackendApplication.ts    *)
(* that use it: how one extension host keeps a conversation of its world    *)
(* and the stored timeline together. One save runs at a time and takes what *)
(* changed since the last; a flush of one timeline runs beside it; a gate   *)
(* excludes the saves while a conversation is deleted or read for a model;  *)
(* timers, retries, panels, cold eviction and shutdown start saves.         *)
(*                                                                          *)
(* A conversation is a function from records to versions, 0 for a record    *)
(* that is not there; run history and history entries follow the timeline   *)
(* through the same steps and are left out. The store is as TimelineStore   *)
(* shows it to be: a table with compare and set per record. A save's answer *)
(* is handled in the step of its commit. No other host writes: every        *)
(* conflict is of this host's own making.                                   *)
(*                                                                          *)
(* Bounds: MaxOps requests from outside and MaxFailures failing writes.     *)
(***************************************************************************)
EXTENDS Naturals, Sequences, FiniteSets

CONSTANTS Records,
          Retries,     \* DEFAULT_PERSIST_RETRY_DELAYS_MS, its length
          Attempts,    \* maxAttempts of persistForShutdown
          MaxOps, MaxFailures

ASSUME RecordsAreNumbered == Records \subseteq Nat \ {0} /\ IsFiniteSet(Records)
ASSUME BoundsAreNumbers == {Retries, Attempts, MaxOps, MaxFailures} \subseteq Nat

\* Who calls persistImmediately: the two timers, the panel that is closed, the
\* effect of the tick, the eviction, the deletion inside its gate, the shutdown.
Callers == {"timer", "retry", "detach", "effect", "evict", "delete", "shutdown"}
ForConversation == {"detach", "effect", "evict"}
Throwing == {"effect", "evict", "delete", "shutdown"}
Flushers == {"user", "gate"}
GateUsers == {"context", "range", "delete"}
LoadKinds == {"tail", "detail", "range"}

VARIABLES world,    \* the conversation in the world of the host
          disk,     \* the stored timeline and the stored list of conversations
          p,        \* the fields of ClientStatePersistence
          save,     \* the save in flight
          calls, flush, lane, gates, loads,
          deleted,  \* deletedConversationIds
          evictable,\* the eviction generation is still the one it started with
          tick,     \* a tick of the scheduler is due
          down,     \* failed attempts of the shutdown, Up before it
          flaws,    \* history: "failure" once a save or flush has failed, "early" once
                    \* somebody has acted on a conversation not yet hydrated, one whose
                    \* tail is not there was flushed, or one evicted amid a hydration
          gone,     \* history: records whose removal the store committed
          ops, failures

vars == <<world, disk, p, save, calls, flush, lane, gates, loads,
          deleted, evictable, tick, down, flaws, gone, ops, failures>>
host == <<deleted, evictable, tick, down>>
bounds == <<ops, failures>>

Nothing == [r \in Records |-> 0]
None == [r \in {} |-> 0]
Contents == [Records -> 0..(MaxOps + 1)]
NoSave == [by |-> "none", render |-> None, list |-> "none", base |-> None, saved |-> "none", listed |-> "none"]
NoFlush == [at |-> "idle", base |-> None, next |-> None, cut |-> 0]
NoLoad == [at |-> "none", page |-> None, todo |-> {}]
Up == Attempts
Listing == IF world.alive THEN "yes" ELSE "no"

\* persistableRenderDetailConversationIds
Persistable == world.loaded # {} /\ world.alive /\ ~deleted

-----------------------------------------------------------------------------
(* The fields of the persister. *)

MarkPending(q) == [q EXCEPT !.status = "pending"]
NothingDue(q) == q.render = None /\ q.list = "none"

SchedulePersistCheck(q) ==
  IF q.gate # "none" THEN [q EXCEPT !.afterGate = TRUE]
  ELSE IF q.busy THEN [q EXCEPT !.afterSave = TRUE]
  ELSE [q EXCEPT !.timer = TRUE]

\* Mutant: a change during a save is taken for part of it.
QueueWithoutNote(q) ==
  IF q.busy THEN q ELSE SchedulePersistCheck(MarkPending([q EXCEPT !.retry = FALSE]))

QueuePersist(q) ==
  LET r == [q EXCEPT !.retry = FALSE, !.attempts = IF q.status = "error" THEN 0 ELSE @]
  IN IF q.busy THEN [r EXCEPT !.afterSave = TRUE] ELSE SchedulePersistCheck(MarkPending(r))

MarkSavedIfIdle(q) ==
  IF q.busy \/ q.timer \/ q.retry \/ q.gate # "none" \/ ~NothingDue(q) THEN q
  ELSE [q EXCEPT !.status = "saved"]

\* collectPendingStates and collectForcedConversationState: what a call of c
\* adds to the states to be saved. A state that is due is replaced only by a
\* state that differs from the one saved last.
Collected(c) ==
  LET all == c \in {"delete", "shutdown"}
      fresh == /\ Persistable
               /\ all \/ p.projected # <<world.recs, world.alive>>
               /\ c = "delete" \/ world.recs # p.json
      forced == c \in ForConversation /\ Persistable
  IN [p EXCEPT !.list = IF Listing # p.listBase \/ c = "delete" THEN Listing ELSE @,
               !.render = IF fresh \/ forced THEN world.recs ELSE @,
               !.projected = <<world.recs, world.alive>>]

-----------------------------------------------------------------------------
(* persistImmediately *)

Inside(c) == c = "delete"
Idle(c) == calls[c] \in {"idle", "done", "failed"}

\* Its beginning, up to the first await.
Persist(c) ==
  LET q == [p EXCEPT !.timer = FALSE, !.retry = FALSE]
      due == [Collected(c) EXCEPT !.timer = FALSE, !.retry = FALSE]
      unchanged == /\ c \in {"timer", "retry"} /\ NothingDue(p)
                   /\ p.projected = <<world.recs, world.alive>>
  IN IF p.gate # "none" /\ ~Inside(c)
     THEN /\ p' = [MarkPending(q) EXCEPT !.afterGate = TRUE]
          /\ calls' = [calls EXCEPT ![c] = "gate"]
          /\ UNCHANGED <<save, lane>>
     ELSE IF p.busy
     THEN /\ p' = [MarkPending(q) EXCEPT !.afterSave = TRUE]
          /\ calls' = [calls EXCEPT ![c] = "wait"]
          /\ UNCHANGED <<save, lane>>
     ELSE IF unchanged \/ NothingDue(due)
     THEN /\ p' = MarkSavedIfIdle(IF unchanged THEN q ELSE due)
          /\ calls' = [calls EXCEPT ![c] = "done"]
          /\ UNCHANGED <<save, lane>>
     ELSE /\ p' = [due EXCEPT !.busy = TRUE, !.status = "saving", !.render = None, !.list = "none"]
          /\ save' = [by |-> c, render |-> due.render, list |-> due.list,
                      base |-> p.base,
                      saved |-> IF due.render = None THEN "ok" ELSE "due",
                      listed |-> IF due.list = "none" THEN "ok" ELSE "due"]
          /\ lane' = IF due.render = None THEN lane ELSE Append(lane, "save")
          /\ calls' = [calls EXCEPT ![c] = "save"]

Unpersisted == UNCHANGED <<world, disk, flush, gates, loads, deleted, evictable, flaws, gone, failures>>

\* setTimeout of schedulePersistCheck and of scheduleRetryAfterFailure.
TimerFires == /\ p.timer /\ Idle("timer")
              /\ Persist("timer")
              /\ Unpersisted /\ UNCHANGED <<tick, down, ops>>
RetryFires == /\ p.retry /\ Idle("retry")
              /\ Persist("retry")
              /\ Unpersisted /\ UNCHANGED <<tick, down, ops>>

\* A caller that waited tries again from the start.
PersistAgain(c) == /\ calls[c] = "again"
                   /\ Persist(c)
                   /\ Unpersisted /\ UNCHANGED <<tick, down, ops>>

\* The effect storage.conversation.persist of a tick.
PersistEffect == /\ down = Up /\ ops < MaxOps /\ Idle("effect")
                 /\ Persist("effect")
                 /\ ops' = ops + 1
                 /\ Unpersisted /\ UNCHANGED <<tick, down>>

-----------------------------------------------------------------------------
(* The lane of the timeline's root lock, and what follows a commit. *)

\* The version in the store is neither the one known nor the one wanted.
Conflicts(b, n) == \E r \in Records : /\ n[r] # b[r]
                                      /\ disk.recs[r] # b[r] /\ disk.recs[r] # n[r]
Written(b, n) == [r \in Records |-> IF n[r] # b[r] THEN n[r] ELSE disk.recs[r]]
Fail == failures < MaxFailures /\ failures' = failures + 1

SaveCommits ==
  /\ lane # <<>> /\ Head(lane) = "save" /\ save.saved = "due"
  /\ lane' = Tail(lane)
  /\ IF world.twice \/ Conflicts(save.base, save.render)
     THEN /\ save' = [save EXCEPT !.saved = IF world.twice THEN "failed" ELSE "conflict"]
          /\ UNCHANGED <<disk, p, failures>>
     ELSE \/ /\ disk' = [disk EXCEPT !.recs = Written(save.base, save.render)]
             /\ save' = [save EXCEPT !.saved = "ok"]
             /\ p' = [p EXCEPT !.base = save.render, !.json = save.render]
             /\ UNCHANGED failures
          \/ /\ Fail
             /\ save' = [save EXCEPT !.saved = "failed"]
             /\ UNCHANGED <<disk, p>>
  /\ UNCHANGED <<world, calls, flush, gates, loads, host, flaws, gone, ops>>

\* The skeleton is written beside the timeline.
ListCommits ==
  /\ save.listed = "due"
  /\ \/ /\ disk' = [disk EXCEPT !.listed = save.list]
        /\ p' = [p EXCEPT !.listBase = save.list]
        /\ save' = [save EXCEPT !.listed = "ok"]
        /\ UNCHANGED failures
     \/ /\ Fail
        /\ save' = [save EXCEPT !.listed = "failed"]
        /\ UNCHANGED <<disk, p>>
  /\ UNCHANGED <<world, calls, flush, lane, gates, loads, host, flaws, gone, ops>>

Saved(s) == s.saved = "ok" /\ s.listed = "ok"
\* shouldRetryPersistenceFailures: some failure is not a conflict.
Retryable(s) == s.by \notin Throwing /\ "failed" \in {s.saved, s.listed}

\* restorePendingStates
Restored(q, s) ==
  [q EXCEPT !.render = IF s.saved # "ok" /\ @ = None THEN s.render ELSE @,
            !.list = IF s.listed # "ok" /\ @ = "none" THEN s.list ELSE @]

\* Mutant: a call that waits for the save is not woken.
WokenAtTheGate(at) == [c \in Callers |-> IF calls[c] = at /\ at = "gate" THEN "again" ELSE calls[c]]
Woken(at) == [c \in Callers |-> IF calls[c] = at THEN "again" ELSE calls[c]]

MayRetry(q) == q.attempts < Retries

\* The end of persistImmediately, and the handler of its caller's error.
SaveEnds ==
  LET q == IF Saved(save) THEN [p EXCEPT !.attempts = 0, !.busy = FALSE]
           ELSE [Restored(p, save) EXCEPT !.status = "error", !.busy = FALSE]
      r == IF q.afterSave THEN SchedulePersistCheck(MarkPending([q EXCEPT !.afterSave = FALSE]))
           ELSE IF Saved(save) THEN [q EXCEPT !.status = "saved"]
           ELSE IF Retryable(save) /\ MayRetry(q)
                THEN [q EXCEPT !.attempts = @ + 1, !.retry = TRUE]
                ELSE q
      failed == ~Saved(save) /\ save.by \in Throwing
  IN /\ p.busy /\ "due" \notin {save.saved, save.listed}
     /\ p' = IF failed /\ save.by = "effect" THEN QueuePersist(r) ELSE r
     /\ calls' = [Woken("wait") EXCEPT ![save.by] = IF failed THEN "failed" ELSE "done"]
     /\ save' = NoSave
     /\ flaws' = flaws \cup (IF Saved(save) THEN {} ELSE {"failure"})
     /\ gates' = [gates EXCEPT !.idle = TRUE]
     /\ UNCHANGED <<world, disk, flush, lane, loads, host, gone, bounds>>

NoLoads == \A k \in {"tail", "detail"} : loads[k].at = "none"

\* The user, the model and commands act on a conversation that is there.
Acted == world.open /\ world.alive /\ ~deleted /\ down = Up /\ ops < MaxOps /\ ops' = ops + 1
Hydrated == "tail" \in world.loaded /\ NoLoads
\* A flush that had to wait projects what is there when it goes on.
Projected == flaws' = flaws \cup (IF "tail" \in world.loaded THEN {} ELSE {"early"})
Noticed == flaws' = flaws \cup (IF Hydrated THEN {} ELSE {"early"})

-----------------------------------------------------------------------------
(* persistConversationRenderDetailImmediately: a flush waits for a gate, but *)
(* neither for a save nor does a save or a gate wait for it.                 *)

\* A flush of f, for a removal from record cut on.
Flush(f, cut) ==
  IF p.gate # "none" /\ f = "user"
  THEN /\ p' = [p EXCEPT !.afterGate = TRUE]
       /\ flush' = [flush EXCEPT ![f] = [NoFlush EXCEPT !.at = "gate", !.cut = cut]]
       /\ UNCHANGED lane
  ELSE /\ flush' = [flush EXCEPT ![f] = [at |-> "due", base |-> p.base, next |-> world.recs, cut |-> cut]]
       /\ lane' = Append(lane, f)
       /\ UNCHANGED p

FlushAgain == /\ flush["user"].at = "again"
              /\ Flush("user", flush["user"].cut)
              /\ Projected
              /\ UNCHANGED <<world, disk, save, calls, gates, loads, host, gone, bounds>>

FlushCommits(f) ==
  /\ lane # <<>> /\ Head(lane) = f /\ flush[f].at = "due"
  /\ \/ /\ ~world.twice /\ ~Conflicts(flush[f].base, flush[f].next)
        /\ disk' = [disk EXCEPT !.recs = Written(flush[f].base, flush[f].next)]
        /\ p' = [p EXCEPT !.base = flush[f].next, !.json = flush[f].next]
        /\ flush' = [flush EXCEPT ![f].at = IF f = "user" THEN "cut" ELSE "ok"]
        /\ lane' = IF f = "user" THEN Append(Tail(lane), f) ELSE Tail(lane)
        /\ UNCHANGED <<flaws, failures>>
     \/ /\ IF world.twice \/ Conflicts(flush[f].base, flush[f].next) THEN UNCHANGED failures ELSE Fail
        /\ flush' = [flush EXCEPT ![f] = [NoFlush EXCEPT !.at = IF f = "user" THEN "idle" ELSE "failed"]]
        /\ lane' = Tail(lane)
        /\ flaws' = flaws \cup {"failure"}
        /\ UNCHANGED <<disk, p>>
  /\ UNCHANGED <<world, save, calls, gates, loads, host, gone, ops>>

\* The user removes the messages from cut on: the timeline is flushed and
\* truncated before the world is changed.
UserRemoves ==
  /\ Acted
  /\ flush["user"].at = "idle"
  /\ \E cut \in Records : world.recs[cut] # 0 /\ Flush("user", cut)
  /\ Noticed
  /\ UNCHANGED <<world, disk, save, calls, gates, loads, host, gone, failures>>

From(cut) == {r \in Records : r >= cut}

TruncateCommits ==
  /\ lane # <<>> /\ Head(lane) = "user" /\ flush["user"].at = "cut"
  /\ lane' = Tail(lane)
  /\ \/ /\ disk' = [disk EXCEPT !.recs = [r \in Records |-> IF r \in From(flush["user"].cut) THEN 0 ELSE @[r]]]
        /\ gone' = gone \cup From(flush["user"].cut)
        /\ flush' = [flush EXCEPT !["user"].at = "removed"]
        /\ tick' = TRUE
        /\ UNCHANGED failures
     \/ /\ Fail
        /\ flush' = [flush EXCEPT !["user"] = NoFlush]
        /\ UNCHANGED <<disk, gone, tick>>
  /\ UNCHANGED <<world, p, save, calls, gates, loads, deleted, evictable, down, flaws, ops>>

-----------------------------------------------------------------------------
(* Ticks, panels and eviction. *)

\* A tick commits a change of the world and asks for a save: the user or the
\* model changes a record or adds one.
Edit(r) ==
  /\ Acted
  /\ world.recs[r] # 0 \/ (disk.recs[r] = 0 /\ p.base[r] = 0 /\ r \notin gone)
  /\ world' = [world EXCEPT !.recs[r] = ops + 2]
  /\ p' = QueuePersist(p)
  /\ Noticed
  /\ UNCHANGED <<disk, save, calls, flush, lane, gates, loads, host, gone, failures>>

\* A tick that others asked for: it carries out the removal.
Tick ==
  /\ tick /\ down = Up
  /\ IF flush["user"].at = "removed"
     THEN /\ world' = [world EXCEPT !.recs = [r \in Records |-> IF r \in From(flush["user"].cut) THEN 0 ELSE @[r]]]
          /\ flush' = [flush EXCEPT !["user"] = NoFlush]
     ELSE UNCHANGED <<world, flush>>
  /\ p' = QueuePersist(p)
  /\ tick' = FALSE
  /\ UNCHANGED <<disk, save, calls, lane, gates, loads, deleted, evictable, down, flaws, gone, bounds>>

Open == /\ ~world.open /\ world.alive /\ ~deleted /\ down = Up /\ ops < MaxOps
        /\ world' = [world EXCEPT !.open = TRUE]
        /\ evictable' = FALSE
        /\ UNCHANGED <<disk, p, save, calls, flush, lane, gates, loads, deleted, tick, down, flaws, gone, bounds>>

\* detachWebview
Close == /\ world.open /\ down = Up /\ ops < MaxOps /\ Idle("detach")
         /\ world' = [world EXCEPT !.open = FALSE]
         /\ evictable' = FALSE
         /\ Persist("detach")
         /\ ops' = ops + 1
         /\ UNCHANGED <<disk, flush, gates, loads, deleted, tick, down, flaws, gone, failures>>

Evictable == /\ ~world.open /\ world.alive /\ NoLoads
             /\ "context" \notin {gates.queue[i] : i \in DOMAIN gates.queue}

\* persistAndEvictConversationDetail, for a conversation that is one too many.
EvictStarts ==
  /\ Evictable /\ world.loaded # {} /\ down = Up /\ ops < MaxOps /\ Idle("evict")
  /\ Persist("evict")
  /\ evictable' = TRUE
  /\ ops' = ops + 1
  /\ UNCHANGED <<world, disk, flush, gates, loads, deleted, tick, down, flaws, gone, failures>>

\* Mutant: a panel that was opened and closed meanwhile is not noticed.
WithoutGeneration == Evictable
MayEvict == Evictable /\ evictable

EvictEnds ==
  /\ calls["evict"] = "done"
  /\ calls' = [calls EXCEPT !["evict"] = "idle"]
  /\ IF MayEvict THEN /\ world' = [world EXCEPT !.recs = Nothing, !.loaded = {}]
                      /\ tick' = TRUE
     ELSE UNCHANGED <<world, tick>>
  /\ flaws' = flaws \cup (IF MayEvict /\ loads["range"].todo # {} THEN {"early"} ELSE {})
  /\ UNCHANGED <<disk, p, save, flush, lane, gates, loads, deleted, evictable, down, gone, bounds>>

-----------------------------------------------------------------------------
(* Loading: a page or the whole timeline is read, hydrated record by record  *)
(* and made the base of the next saves.                                      *)

Remembered(q, page) == [q EXCEPT !.base = page, !.json = page]
Extended(q, page) == Remembered(q, [r \in Records |-> IF q.base[r] # 0 THEN q.base[r] ELSE page[r]])

\* The read, its answer still on the way.
Load(k) == loads' = [loads EXCEPT ![k] = [at |-> "read", page |-> disk.recs, todo |-> {}]]

\* isConversationTailLoaded takes any message of the world for the tail.
TailKnown == "tail" \in world.loaded \/ world.recs # Nothing

\* ensureConversationTailLoaded and ensureConversationDetailLoaded, asked for by
\* a panel or a command.
LoadStarts(k) ==
  /\ Acted
  /\ k \in {"tail", "detail"} \ world.loaded
  /\ flaws' = flaws \cup (IF NoLoads THEN {} ELSE {"early"})
  /\ IF k = "tail" /\ TailKnown
     THEN /\ world' = [world EXCEPT !.loaded = @ \cup {"tail"}]
          /\ UNCHANGED loads
     ELSE /\ loads[k].at = "none"
          /\ Load(k)
          /\ UNCHANGED world
  /\ UNCHANGED <<disk, p, save, calls, flush, lane, gates, host, gone, failures>>

\* The answer: what the world lacks is to be hydrated. A tail is the base before
\* it is hydrated.
LoadReads(k) ==
  LET page == loads[k].page IN
  /\ loads[k].at = "read"
  /\ IF deleted THEN loads' = [loads EXCEPT ![k] = NoLoad] /\ UNCHANGED p
     ELSE /\ loads' = [loads EXCEPT ![k].at = "fill", ![k].todo = {r \in Records : page[r] # 0 /\ world.recs[r] = 0}]
          /\ p' = IF k = "tail" THEN Remembered(p, page) ELSE p
  /\ UNCHANGED <<world, disk, save, calls, flush, lane, gates, host, flaws, gone, bounds>>

\* hydrateConversationDetail yields between records.
Hydrates(k) ==
  /\ loads[k].at = "fill"
  /\ \E r \in loads[k].todo :
       /\ \A o \in loads[k].todo : r <= o
       /\ loads' = [loads EXCEPT ![k].todo = @ \ {r}]
       /\ world' = [world EXCEPT !.recs[r] = IF world.alive THEN loads[k].page[r] ELSE @,
                                 !.twice = @ \/ world.recs[r] # 0]
  /\ UNCHANGED <<disk, p, save, calls, flush, lane, gates, host, flaws, gone, bounds>>

Marks(k) == CASE k = "tail" -> {"tail"} [] k = "detail" -> {"tail", "detail"} [] k = "range" -> {}

LoadEnds(k) ==
  LET page == loads[k].page
      found == k # "detail" \/ page # Nothing
  IN /\ loads[k].at = "fill" /\ loads[k].todo = {}
     /\ loads' = [loads EXCEPT ![k] = NoLoad]
     /\ world' = IF found THEN [world EXCEPT !.loaded = @ \cup Marks(k)] ELSE world
     /\ p' = CASE k = "detail" /\ found -> Remembered(p, page)
               [] k = "range" -> Extended(p, page)
               [] OTHER -> p
     /\ tick' = TRUE
     /\ UNCHANGED <<disk, save, calls, flush, lane, gates, deleted, evictable, down, flaws, gone, bounds>>

-----------------------------------------------------------------------------
(* withExclusiveMutationGate and its users: a model's context and a range of *)
(* messages are committed and read, a conversation is deleted.               *)

Queued(u) == u \in {gates.queue[i] : i \in DOMAIN gates.queue}

GateAsks(u) ==
  /\ Acted /\ ~Queued(u)
  /\ "detail" \notin world.loaded \/ u = "delete"
  /\ gates' = [gates EXCEPT !.queue = Append(@, u)]
  /\ IF u = "delete" THEN UNCHANGED flaws ELSE Noticed
  /\ UNCHANGED <<world, disk, p, save, calls, flush, lane, loads, host, gone, failures>>

\* The gate closes: no save starts any more, one may be in flight.
GateCloses ==
  /\ gates.queue # <<>> /\ p.gate = "none"
  /\ LET q == [p EXCEPT !.gate = Head(gates.queue), !.timer = FALSE]
     IN p' = IF p.timer THEN [MarkPending(q) EXCEPT !.afterGate = TRUE] ELSE q
  /\ gates' = [gates EXCEPT !.at = "enter", !.idle = ~p.busy]
  /\ UNCHANGED <<world, disk, save, calls, flush, lane, loads, host, flaws, gone, bounds>>

\* Mutant: the action does not wait for the save in flight.
EntersAtOnce == gates.at = "enter"
Enters == gates.at = "enter" /\ gates.idle

At(stage) == gates' = [gates EXCEPT !.at = stage]

\* The action of the gate begins with a save of its own.
GateEnters ==
  /\ Enters
  /\ IF p.gate = "delete"
     THEN /\ Persist("delete") /\ At("saving") /\ UNCHANGED <<flush, flaws>>
     ELSE /\ Flush("gate", 0) /\ At("flushing") /\ Projected /\ UNCHANGED <<save, calls>>
  /\ UNCHANGED <<world, disk, loads, host, gone, bounds>>

\* The timeline is committed: it is read now, if it was not read before.
GateReads ==
  LET k == IF p.gate = "context" THEN "detail" ELSE "range"
      read == flush["gate"].at = "ok" /\ ~deleted /\ k \notin world.loaded
  IN /\ gates.at = "flushing" /\ flush["gate"].at \in {"ok", "failed"}
     /\ flush' = [flush EXCEPT !["gate"] = NoFlush]
     /\ At(IF read THEN "loading" ELSE "end")
     /\ IF read /\ loads[k].at = "none" THEN Load(k) ELSE UNCHANGED loads
     /\ UNCHANGED <<world, disk, p, save, calls, lane, host, flaws, gone, bounds>>
GateHasRead ==
  /\ gates.at = "loading"
  /\ loads[IF p.gate = "context" THEN "detail" ELSE "range"].at = "none"
  /\ At("end")
  /\ UNCHANGED <<world, disk, p, save, calls, flush, lane, loads, host, flaws, gone, bounds>>

\* deleteConversation: its first save decides whether it goes on.
DeleteMarks ==
  /\ gates.at = "saving" /\ calls["delete"] \in {"done", "failed"}
  /\ deleted' = (calls["delete"] = "done")
  /\ At(IF deleted' THEN "erasing" ELSE "end")
  /\ UNCHANGED <<world, disk, p, save, calls, flush, lane, loads, evictable, tick, down, flaws, gone, bounds>>

WithoutConversation ==
  [world EXCEPT !.alive = FALSE, !.recs = Nothing, !.loaded = {}, !.twice = FALSE]

\* discardConversation
Discarded == [p EXCEPT !.render = None, !.json = None, !.base = Nothing, !.listBase = "no",
                       !.list = IF @ = "none" THEN @ ELSE "no",
                       !.projected = <<Nothing, FALSE>>]

\* The deletion of the skeleton is committed, or fails and is taken back.
DeleteErases ==
  /\ gates.at = "erasing"
  /\ \/ /\ disk' = [disk EXCEPT !.listed = "no"]
        /\ world' = WithoutConversation
        /\ p' = Discarded
        /\ evictable' = FALSE
        /\ At("erased")
        /\ UNCHANGED <<deleted, failures>>
     \/ /\ Fail
        /\ deleted' = FALSE
        /\ At("end")
        /\ UNCHANGED <<disk, world, p, evictable>>
  /\ UNCHANGED <<save, calls, flush, lane, loads, tick, down, flaws, gone, ops>>
DeleteSaves ==
  /\ gates.at = "erased"
  /\ Persist("delete")
  /\ At("cleaning")
  /\ UNCHANGED <<world, disk, flush, loads, host, flaws, gone, bounds>>
\* The data is removed, as far as that succeeds.
DeleteCleans ==
  /\ gates.at = "cleaning" /\ calls["delete"] \in {"done", "failed"}
  /\ p' = IF calls["delete"] = "failed" THEN QueuePersist(p) ELSE p
  /\ \/ disk' = [disk EXCEPT !.recs = Nothing] /\ UNCHANGED failures
     \/ Fail /\ UNCHANGED disk
  /\ tick' = TRUE
  /\ At("end")
  /\ UNCHANGED <<world, save, calls, flush, lane, loads, deleted, evictable, down, flaws, gone, ops>>

GateOpens ==
  /\ gates.at = "end"
  /\ LET q == [p EXCEPT !.gate = "none", !.afterGate = FALSE]
     IN p' = IF p.afterGate THEN SchedulePersistCheck(MarkPending(q)) ELSE q
  /\ gates' = [queue |-> Tail(gates.queue), at |-> "none", idle |-> FALSE]
  /\ calls' = [Woken("gate") EXCEPT !["delete"] = "idle"]
  /\ flush' = IF flush["user"].at = "gate" THEN [flush EXCEPT !["user"].at = "again"] ELSE flush
  /\ UNCHANGED <<world, disk, save, lane, loads, host, flaws, gone, bounds>>

-----------------------------------------------------------------------------
(* disposeInternal: ticks are drained, then everything is saved, thrice if    *)
(* need be.                                                                  *)

ShutDown ==
  /\ down = Up /\ ~tick
  /\ down' = 0
  /\ Persist("shutdown")
  /\ UNCHANGED <<world, disk, flush, gates, loads, deleted, evictable, tick, flaws, gone, bounds>>
ShutDownAgain ==
  /\ calls["shutdown"] = "failed" /\ down + 1 < Attempts
  /\ down' = down + 1
  /\ Persist("shutdown")
  /\ UNCHANGED <<world, disk, flush, gates, loads, deleted, evictable, tick, flaws, gone, bounds>>

-----------------------------------------------------------------------------
\* A conversation that is not loaded, one that is, and one that is new, shown in a
\* panel or not.
Init ==
  /\ \E start \in {"cold", "warm", "new"}, open \in BOOLEAN :
       LET recs == IF start = "new" THEN Nothing ELSE [r \in Records |-> 1]
           here == IF start = "warm" THEN recs ELSE Nothing
           list == IF start = "new" THEN "no" ELSE "yes"
       IN /\ world = [recs |-> here, alive |-> TRUE, open |-> open, twice |-> FALSE,
                      loaded |-> IF start = "warm" THEN {"tail", "detail"} ELSE {}]
          /\ disk = [recs |-> recs, listed |-> list]
          /\ p = [base |-> here, json |-> IF start = "warm" THEN recs ELSE None,
                  projected |-> <<here, start # "new">>, listBase |-> list,
                  render |-> None, list |-> "none", timer |-> FALSE, retry |-> FALSE, attempts |-> 0,
                  busy |-> FALSE, afterSave |-> FALSE, afterGate |-> FALSE, gate |-> "none",
                  status |-> "saved"]
  /\ save = NoSave
  /\ calls = [c \in Callers |-> "idle"]
  /\ flush = [f \in Flushers |-> NoFlush]
  /\ lane = <<>>
  /\ gates = [queue |-> <<>>, at |-> "none", idle |-> FALSE]
  /\ loads = [k \in LoadKinds |-> NoLoad]
  /\ deleted = FALSE /\ evictable = FALSE /\ tick = FALSE /\ down = Up
  /\ flaws = {} /\ gone = {}
  /\ ops = 0 /\ failures = 0

\* Callers that were woken go on before the next timer, answer or request.
Continues == FlushAgain \/ \E c \in Callers : PersistAgain(c)
NobodyWoken == flush["user"].at # "again" /\ \A c \in Callers : calls[c] # "again"

Saves == \/ TimerFires \/ RetryFires \/ SaveCommits \/ ListCommits \/ SaveEnds \/ TruncateCommits
         \/ \E f \in Flushers : FlushCommits(f)
Gates == \/ GateCloses \/ GateEnters \/ GateReads \/ GateHasRead \/ GateOpens
         \/ DeleteMarks \/ DeleteErases \/ DeleteSaves \/ DeleteCleans
Loading == \E k \in LoadKinds : LoadReads(k) \/ Hydrates(k) \/ LoadEnds(k)
Requests == \/ PersistEffect \/ UserRemoves \/ Open \/ Close \/ EvictStarts \/ ShutDown
            \/ \E r \in Records : Edit(r)
            \/ \E k \in LoadKinds : LoadStarts(k)
            \/ \E u \in GateUsers : GateAsks(u)

Internal == \/ Continues
            \/ NobodyWoken /\ (Saves \/ Gates \/ Loading \/ Tick \/ EvictEnds \/ ShutDownAgain)
Next == Internal \/ (NobodyWoken /\ Requests)

\* The event loop and the disk go on; users and panels need not.
Fairness == WF_vars(Internal)
Spec == Init /\ [][Next]_vars /\ Fairness

-----------------------------------------------------------------------------
(* Properties. *)

TypeOK ==
  /\ world.recs \in Contents /\ world.loaded \subseteq {"tail", "detail"}
  /\ disk.recs \in Contents /\ disk.listed \in {"yes", "no"}
  /\ p.base \in Contents /\ p.json \in Contents \cup {None} /\ p.render \in Contents \cup {None}
  /\ p.attempts \in 0..Retries /\ p.gate \in GateUsers \cup {"none"}
  /\ p.status \in {"pending", "saving", "saved", "error"}
  /\ p.busy = (save # NoSave)
  /\ calls \in [Callers -> {"idle", "gate", "wait", "again", "save", "done", "failed"}]
  /\ down \in 0..Up /\ ops \in 0..MaxOps /\ failures \in 0..MaxFailures

\* While the action of a gate runs, no save is in flight but its own
\* (persistenceLifecycleGate.test.cjs:1024).
GateExcludesSaves ==
  p.gate # "none" /\ gates.at # "enter" /\ p.busy => save.by = "delete"

\* Once the deletion of a conversation is committed, no save lists it again
\* (persistenceLifecycleGate.test.cjs:1054).
DeletedStaysUnlisted == deleted /\ gates.at # "erasing" => disk.listed = "no"

\* The gates of a deletion and of a read for a model keep saves out.
GatesHold == TypeOK /\ GateExcludesSaves /\ DeletedStaysUnlisted

\* The world and the store have the same messages, but for those whose removal the
\* world has still to carry out.
Stored == \A r \in Records \ gone : disk.recs[r] = world.recs[r]

\* As long as the history is clean, the eviction discards only what is stored.
EvictionLosesNothing ==
  [][flaws = {} /\ world.alive /\ world'.alive /\ world.loaded # {} /\ world'.loaded = {} => Stored]_vars

AtRest == /\ ~p.busy /\ ~p.timer /\ ~p.retry /\ ~tick /\ gates.queue = <<>> /\ lane = <<>>
          /\ \A k \in LoadKinds : loads[k].at = "none"
          /\ \A c \in Callers : Idle(c)

\* As long as the history is clean: a conversation that is reported as
\* saved is stored as it is, and so is one that the host shut down with.
SavedMeansStored ==
  /\ flaws = {} /\ Persistable
  /\ AtRest /\ (p.status = "saved" \/ calls["shutdown"] = "done")
  => Stored

\* What the user removed from a hydrated timeline is not written back: "later
\* truncations queue behind these old snapshots" (ClientStatePersistence.ts:545).
\* TLC refutes it: section 6 of the README says how.
RemovedStaysRemoved == "early" \notin flaws => \A r \in gone : disk.recs[r] = 0

\* When requests cease, every call has returned, the gate is open to the next and
\* nobody waits for anybody.
EverythingReturns ==
  []<>(gates.queue = <<>> /\ lane = <<>> /\ \A c \in Callers : Idle(c))
=============================================================================
