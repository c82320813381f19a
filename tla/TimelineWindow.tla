--------------------------- MODULE TimelineWindow ---------------------------
(***************************************************************************)
(* useConversationTimelineStore.ts: what one panel shows of a conversation  *)
(* while the conversation changes. Three sources reach it in one channel:   *)
(* the stream of the newest messages of the world, the patches and the      *)
(* totals of commits, and the pages it asks for. Pages are read from the    *)
(* committed timeline, answered later, and dropped when a newer commit was  *)
(* heard of before. Chunks are known by position, and positions are cut     *)
(* anew when messages are removed.                                          *)
(*                                                                          *)
(* The world and its saves are the environment: messages are appended and    *)
(* saved later; from one on they are removed, in the store before the world.          *)
(* Bound: MaxSteps changes and requests of the user together.               *)
(***************************************************************************)
EXTENDS TimelineChunks

CONSTANTS Start,        \* the messages at the start
          Recent,       \* CONVERSATION_STREAM_RECENT_MESSAGE_LIMIT
          PageChunks,   \* DEFAULT_INITIAL_CHUNK_COUNT and DEFAULT_INCREMENTAL_CHUNK_COUNT
          Resident,     \* MAX_TAIL_RESIDENT_CHUNKS
          StaleRetries, \* MAX_STALE_PAGE_RETRIES
          MaxSteps

VARIABLES now,        \* the messages of the world
          stored,     \* the messages of the committed timeline
          saved,      \* the messages the host acknowledged last
          cut,        \* the message from which on the timeline is truncated
          commitSeq,
          totalsDue,  \* a commit's totals are still to be read and sent
          signature,  \* the totals sent last
          reply,      \* a page that was read and not yet sent
          channel,    \* messages on their way to the panel
          panel,      \* the state of the panel's store
          created, steps

vars == <<now, stored, saved, cut, commitSeq, totalsDue, signature, reply, channel, panel, created, steps>>

NoReply == [kind |-> "none"]
NoRequest == [direction |-> "none", cursor |-> 0, retries |-> 0]

Newest(ids) == {m \in ids : Cardinality({o \in ids : o > m}) < Recent}
Totals(ids) == [chunks |-> Len(Chunks(ids)), messages |-> Cardinality(ids)]
\* timelineMetaStructuralSignature: totals and both ends of the timeline.
Signature(ids) == LET cs == Chunks(ids) IN
  <<Totals(ids), IF cs = <<>> THEN {} ELSE cs[1], IF cs = <<>> THEN {} ELSE cs[Len(cs)]>>

-----------------------------------------------------------------------------
(* The panel's window: the chunks it has loaded, and behind the newest of   *)
(* them everything, if it is attached to the tail.                          *)

InWindow(p, m, tail) ==
  \/ DOMAIN p.loaded = {}
  \/ \E k \in DOMAIN p.loaded : m >= p.loaded[k].start /\ m <= p.loaded[k].end
  \/ tail /\ \A k \in DOMAIN p.loaded : m > p.loaded[k].end
Pruned(p, ids, tail) == {m \in ids : InWindow(p, m, tail)}

\* Pages, what left the stream, and the stream.
Shown(p) == Pruned(p, p.page \cup p.retained \cup p.stream, p.tail)

\* The page layer without the tail, the retained layer with it.
PruneLayers(p) == [p EXCEPT !.page = Pruned(p, @, FALSE), !.retained = Pruned(p, @, p.tail)]

\* What is shown and the stream would hold, but does not, is gone.
DropStale(p, shown) ==
  IF p.stream = {} THEN p
  ELSE LET stale == {m \in shown : m >= Lowest(p.stream)} \ p.stream
       IN IF stale = {} THEN p
          ELSE PruneLayers([p EXCEPT !.page = @ \ stale, !.retained = @ \ stale])

Loading(p) == p.status \in {"initial", "older", "newer"}
Known(p) == IF p.meta.seq >= p.pageSeq /\ p.hasMeta THEN p.meta.totals ELSE p.info
HasOlder(p) == DOMAIN p.loaded # {} /\ Lowest(DOMAIN p.loaded) > 1
HasNewer(p) == DOMAIN p.loaded # {} /\ Highest(DOMAIN p.loaded) < Known(p).chunks

\* The status of a request in each direction.
StatusOf(direction) == IF direction \in {"older", "newer"} THEN direction ELSE "initial"
Send(p, direction, cursor, retries) ==
  [p EXCEPT !.status = StatusOf(direction), !.failed = FALSE,
            !.request = [direction |-> direction, cursor |-> cursor, retries |-> retries]]

\* Load the newest chunks again, now or when the awaited page is there.
Refresh(p) == IF Loading(p) THEN [p EXCEPT !.refresh = TRUE]
              ELSE Send([p EXCEPT !.refresh = FALSE], "initial", 0, 0)

\* A panel attached to the tail loads the chunks that were added.
CatchUp(p) == IF p.tail /\ HasNewer(p) /\ ~Loading(p)
              THEN Send(p, "newer", Highest(DOMAIN p.loaded), 0) ELSE p

-----------------------------------------------------------------------------
(* The handlers of the panel. *)

Keep(f, ks) == [k \in ks |-> f[k]]

\* The window loses its oldest chunks while the tail grows by itself.
Trim(p) == LET n == Cardinality(DOMAIN p.loaded) IN
  IF p.expanded \/ ~p.tail \/ n <= Resident THEN p
  ELSE [p EXCEPT !.loaded = Keep(p.loaded,
          {k \in DOMAIN p.loaded : Cardinality({j \in DOMAIN p.loaded : j > k}) < Resident})]

\* conversationTimelineCommitCanApply, negated.
Stale(p, e) == e.seq < p.latest

ApplyPage(p, e) ==
  LET dir == e.request.direction
      replace == dir \in {"initial", "around"}
      emptied == [p EXCEPT !.page = {}, !.loaded = <<>>,
                           !.expanded = (dir = "around"), !.tail = (dir = "initial")]
      start == [(IF replace THEN emptied ELSE p) EXCEPT
                  !.latest = e.seq, !.pageSeq = e.seq, !.failed = FALSE, !.hasPage = TRUE,
                  !.request = NoRequest, !.status = "idle"]
      before == IF replace THEN {} ELSE Shown(p)
      newest == IF DOMAIN p.loaded = {} THEN 0 ELSE Highest(DOMAIN p.loaded)
      filled == [start EXCEPT !.page = @ \cup e.ids,
                              !.loaded = [k \in DOMAIN @ \cup DOMAIN e.chunks |->
                                            IF k \in DOMAIN e.chunks THEN e.chunks[k] ELSE @[k]],
                              !.info = e.totals]
      pruned == PruneLayers(IF dir = "newer" THEN Trim(filled) ELSE filled)
      q == IF p.hasStream THEN DropStale(pruned, before) ELSE pruned
      last == IF DOMAIN q.loaded = {} THEN 0 ELSE Highest(DOMAIN q.loaded)
      advanced == \/ dir # "newer" \/ last > newest
                  \/ last > 0 /\ newest > 0 /\ \/ q.loaded[last].end > p.loaded[newest].end
                                               \/ q.loaded[last].count > p.loaded[newest].count
  IN IF Stale(p, e)
     THEN IF e.request.retries < StaleRetries
          THEN Send(p, dir, e.request.cursor, e.request.retries + 1)
          ELSE [p EXCEPT !.status = "error", !.failed = TRUE, !.refresh = FALSE, !.request = NoRequest]
     ELSE IF q.refresh THEN Refresh(q)
          ELSE IF advanced THEN CatchUp(q) ELSE q

ApplyPatch(p, e) ==
  IF Stale(p, e) THEN p
  ELSE PruneLayers([p EXCEPT !.latest = e.seq,
                             !.page = (@ \ e.removed) \cup e.added,
                             !.retained = (@ \ e.removed) \cup e.added])

\* Totals of a commit: a timeline that shrank is loaded again.
ApplyTotals(p, e) ==
  LET old == Known(p)
      q == [p EXCEPT !.latest = e.seq, !.hasMeta = TRUE, !.meta = [seq |-> e.seq, totals |-> e.totals]]
  IN IF Stale(p, e) \/ (p.hasMeta /\ p.meta.seq = e.seq) THEN p
     ELSE IF (e.totals.chunks < old.chunks \/ e.totals.messages < old.messages) /\ DOMAIN p.loaded # {}
          THEN Refresh([q EXCEPT !.tail = TRUE])
          ELSE CatchUp(q)

ApplySnapshot(p, e) ==
  LET shown == Shown(p)
      q == [p EXCEPT !.stream = e.ids, !.hasStream = TRUE]
      r == IF DOMAIN p.loaded = {} THEN q ELSE DropStale(q, shown)
  IN IF ~r.hasPage /\ ~r.failed /\ r.status # "initial" THEN Send(r, "initial", 0, 0) ELSE CatchUp(r)

\* Mutant: messages that only left the stream are taken for removed.
StreamWithoutEviction(p, e) ==
  CatchUp(PruneLayers([p EXCEPT !.stream = (@ \ (e.removed \cup e.evicted)) \cup e.added,
                                !.page = @ \ (e.removed \cup e.evicted),
                                !.retained = @ \ (e.removed \cup e.evicted)]))

\* Messages removed from the world leave all layers; those that only left the
\* newest ones are kept in the other two.
ApplyStream(p, e) ==
  LET gone == e.removed \cup e.evicted
      kept == p.stream \cap e.evicted
  IN CatchUp(PruneLayers([p EXCEPT !.stream = (@ \ gone) \cup e.added,
                                   !.page = (@ \ gone) \cup kept,
                                   !.retained = (@ \ gone) \cup kept]))

-----------------------------------------------------------------------------
(* The environment: the world, its saves, and the router that reads pages. *)

Init ==
  /\ now = Start /\ stored = Start /\ saved = Start /\ cut = 0
  /\ commitSeq = 1
  /\ totalsDue = FALSE
  /\ signature = Signature(Start)
  /\ reply = NoReply
  /\ channel = <<[kind |-> "snapshot", ids |-> Newest(Start)]>>
  /\ panel = [status |-> "idle", request |-> NoRequest, failed |-> FALSE, refresh |-> FALSE,
              loaded |-> <<>>, page |-> {}, retained |-> {}, stream |-> {},
              hasPage |-> FALSE, hasStream |-> FALSE, hasMeta |-> FALSE,
              tail |-> FALSE, expanded |-> FALSE, latest |-> 0, pageSeq |-> 0,
              info |-> [chunks |-> 0, messages |-> 0],
              meta |-> [seq |-> 0, totals |-> [chunks |-> 0, messages |-> 0]]]
  /\ created = Cardinality(Start) /\ steps = 0

\* The world changes; the stream says so at the end of the tick.
ChangeTo(next) ==
  /\ created' = IF next \subseteq now THEN created ELSE created + 1
  /\ now' = next
  /\ channel' = channel \o
       (IF Newest(next) = Newest(now) THEN <<>>
        ELSE <<[kind |-> "stream", added |-> Newest(next) \ Newest(now),
                removed |-> Newest(now) \ next,
                evicted |-> (Newest(now) \cap next) \ Newest(next)]>>)
  /\ UNCHANGED <<saved, totalsDue, signature, reply, panel>>

New == created + 1
Say == /\ steps < MaxSteps /\ steps' = steps + 1
       /\ ChangeTo(now \cup {New})
       /\ UNCHANGED <<stored, cut, commitSeq>>

\* The user deletes, edits or retries from a message on: the timeline is saved
\* (Commit and SendTotals), then cut in the store at once, and nobody is told.
Truncate == \E m \in stored \cap now :
  /\ steps < MaxSteps /\ steps' = steps + 1
  /\ saved = now /\ ~totalsDue
  /\ cut = 0 /\ cut' = m
  /\ stored' = {o \in stored : o < m}
  /\ commitSeq' = commitSeq + 1
  /\ UNCHANGED <<now, saved, totalsDue, signature, reply, channel, panel, created>>

\* The world follows, in case of a retry with a new message.
Cut == /\ cut # 0 /\ cut' = 0
       /\ \E answer \in {{}, {New}} : ChangeTo({o \in now : o < cut} \cup answer)
       /\ UNCHANGED <<stored, commitSeq, steps>>

\* The world is saved and the patch is sent; the totals follow when read.
Commit ==
  /\ now # saved /\ ~totalsDue
  /\ saved' = now
  /\ stored' = (stored \ (saved \ now)) \cup (now \ saved)
  /\ commitSeq' = commitSeq + 1
  /\ totalsDue' = TRUE
  /\ channel' = Append(channel, [kind |-> "patch", seq |-> commitSeq + 1,
                                 added |-> now \ saved, removed |-> saved \ now])
  /\ UNCHANGED <<now, cut, signature, reply, panel, created, steps>>

SendTotals ==
  /\ totalsDue /\ totalsDue' = FALSE
  /\ signature' = Signature(stored)
  /\ channel' = IF signature = Signature(stored) THEN channel
                ELSE Append(channel, [kind |-> "totals", seq |-> commitSeq, totals |-> Totals(stored)])
  /\ UNCHANGED <<now, stored, saved, cut, commitSeq, reply, panel, created, steps>>

ReadPage ==
  /\ panel.request.direction # "none" /\ reply = NoReply
  /\ \A i \in DOMAIN channel : channel[i].kind # "page"
  /\ LET cs == Chunks(stored)
         req == panel.request
         cursor == IF req.direction = "around" THEN ChunkOf(cs, req.cursor)
                   ELSE IF req.cursor \in DOMAIN cs THEN req.cursor ELSE 0
         ks == Page(req.direction, cursor, Len(cs), PageChunks) \cap DOMAIN cs
     IN reply' = [kind |-> "page", seq |-> commitSeq, request |-> req, totals |-> Totals(stored),
                  ids |-> UNION {cs[k] : k \in ks},
                  chunks |-> [k \in ks |-> [start |-> Lowest(cs[k]), end |-> Highest(cs[k]),
                                            count |-> Cardinality(cs[k])]]]
  /\ UNCHANGED <<now, stored, saved, cut, commitSeq, totalsDue, signature, channel, panel, created, steps>>

SendPage ==
  /\ reply # NoReply
  /\ channel' = Append(channel, reply)
  /\ reply' = NoReply
  /\ UNCHANGED <<now, stored, saved, cut, commitSeq, totalsDue, signature, panel, created, steps>>

Deliver ==
  /\ channel # <<>>
  /\ LET e == Head(channel) IN
       panel' = CASE e.kind = "page"     -> ApplyPage(panel, e)
                  [] e.kind = "patch"    -> ApplyPatch(panel, e)
                  [] e.kind = "totals"   -> ApplyTotals(panel, e)
                  [] e.kind = "snapshot" -> ApplySnapshot(panel, e)
                  [] e.kind = "stream"   -> ApplyStream(panel, e)
  /\ channel' = Tail(channel)
  /\ UNCHANGED <<now, stored, saved, cut, commitSeq, totalsDue, signature, reply, created, steps>>

\* The user scrolls up or down, jumps to a message, or asks again after an error.
Click ==
  /\ steps < MaxSteps /\ steps' = steps + 1
  /\ ~Loading(panel)
  /\ \/ /\ HasOlder(panel)
        /\ panel' = [Send(panel, "older", Lowest(DOMAIN panel.loaded), 0) EXCEPT !.expanded = TRUE]
     \/ HasNewer(panel) /\ panel' = Send(panel, "newer", Highest(DOMAIN panel.loaded), 0)
     \/ \E m \in stored : panel' = [Send(panel, "around", m, 0) EXCEPT !.expanded = TRUE]
     \/ panel.failed /\ panel' = Send(panel, "initial", 0, 0)
  /\ UNCHANGED <<now, stored, saved, cut, commitSeq, totalsDue, signature, reply, channel, created>>

Next == Say \/ Truncate \/ Cut \/ Commit \/ SendTotals \/ ReadPage \/ SendPage
        \/ Deliver \/ Click

Spec == Init /\ [][Next]_vars

-----------------------------------------------------------------------------
(* Properties. *)

TypeOK ==
  /\ {now, stored, saved} \subseteq SUBSET Nat
  /\ panel.status \in {"idle", "initial", "older", "newer", "error"}
  /\ panel.request.direction \in {"none", "initial", "older", "newer", "around"}
  /\ Loading(panel) <=> panel.request # NoRequest

\* Nothing is on its way and everything is saved.
Rest == /\ channel = <<>> /\ reply = NoReply /\ ~totalsDue
        /\ now = stored /\ now = saved /\ cut = 0 /\ panel.status = "idle" /\ panel.hasPage

\* At rest a panel shows a stretch of the conversation without gaps and without
\* messages that are gone, whatever was removed, replaced or paged in which
\* order. Attached to the tail, nothing newer than what it shows is missing, and
\* unless the user has expanded the history the newest message is shown.
ShowsAStretch ==
  Rest => LET s == Shown(panel) IN
    /\ s \subseteq now
    /\ \A m \in now : (\E a \in s : a < m) /\ (panel.tail \/ \E b \in s : b > m) => m \in s
    /\ panel.tail /\ ~panel.expanded /\ now # {} => Highest(now) \in s

\* What a panel has loaded is consistent, and at rest complete.
WindowHolds == TypeOK /\ ShowsAStretch

\* At rest a panel attached to the tail shows the newest message: "the live tail
\* must never be cut from what is shown" (useConversationTimelineStore.ts:429).
\* TLC refutes it: section 6 of the README says how.
TailIsShown == Rest /\ panel.tail /\ now # {} => Highest(now) \in Shown(panel)
=============================================================================
