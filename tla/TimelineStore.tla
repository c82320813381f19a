---------------------------- MODULE TimelineStore ----------------------------
(***************************************************************************)
(* conversationTimelineStore.ts, conversationTimelineCommit.ts,             *)
(* conversationTimelinePatch.ts and the saves of clientStateStore.ts: the   *)
(* timeline of one conversation on disk. Immutable generations hold chunk   *)
(* files and an index of chunks, which may lie in older generations; one    *)
(* root file names the committed index and the committed compression        *)
(* generation. A host saves the difference between what it last             *)
(* acknowledged and its world, record by record against the stored version, *)
(* and recovers from a tool call that another host finished first.          *)
(*                                                                          *)
(* Writers and readers hold the root's lock (StorageResourceLock), so all   *)
(* that happens under it without leaving a trace is one action. A crash or  *)
(* a failing write of the root comes between the files and the root.        *)
(* Bounds: MaxCommits root writes; MaxChanges changes of the worlds and     *)
(* mishaps, of which each kind happens at most once.                        *)
(***************************************************************************)
EXTENDS TimelineChunks

CONSTANTS Hosts,
          Messages,  \* positive numbers: the order of a timeline
          Calls,     \* tool calls
          Owner,     \* the message a tool call belongs to
          Mine,      \* the messages a host creates
          Blocks,    \* the messages at which the older ones are compressed
          Absent,    \* no such file
          Gone,      \* no such record
          Stored,    \* the timeline another window stored before
          StoredBlocks, \* and its compression blocks
          Opened,    \* what each host has loaded of it at the start
          Inputs,    \* the messages that users write: finished, and edited
          MaxCommits, MaxChanges, Mishaps

Records   == Messages \cup Calls
Streaming == {"part", "more"}                 \* "part" is a prefix of "more"
Finished  == {"done", "edited"}
Terminal  == {"success", "error"}
Versions  == Streaming \cup Finished \cup Terminal \cup {"executing"}
Nothing   == [r \in Records |-> Gone]
Ids       == 1..(MaxCommits + 1)
NoId      == 0

VARIABLES root,       \* timeline-commit.json
          index,      \* the index of a timeline generation
          file,       \* the chunk files of a generation, by position
          blocks,     \* the compression generations
          created,    \* the generations begun
          loaded,     \* what of the conversation a host loaded
          world,      \* what a host's world holds of the timeline
          seen,       \* the compression blocks in a host's world
          base,       \* the timeline a host acknowledged last
          savedBlocks, \* the blocks in the projection a host saved last
          override,   \* the results a host lost to another host's
          save,       \* the save a host has under way
          met,        \* history: the blocks a host loaded or made
          used,       \* history: the messages ever created
          changes, mishaps

disk   == <<root, index, file, blocks, created>>
hosts  == <<loaded, world, seen, base, savedBlocks, override, met>>
bounds == <<used, changes, mishaps>>
vars   == <<disk, hosts, save, bounds>>

NoSave == [at |-> "idle", base |-> Nothing, next |-> Nothing, ack |-> Nothing, pair |-> FALSE, seen |-> {},
           cut |-> 0, timeline |-> NoId, blocks |-> NoId, attempt |-> 0, on |-> Gone]

LockFree == \A h \in Hosts : save[h].at # "prepared"

-----------------------------------------------------------------------------
(* What a root names. *)

\* Every chunk of the index is in its file, with the messages the index lists.
Readable(g) ==
  g = NoId \/ /\ index[g] # Absent
              /\ \A k \in DOMAIN index[g] : LET ref == index[g][k] IN
                   /\ file[ref.in] # Absent
                   /\ ref.at \in DOMAIN file[ref.in]
                   /\ DOMAIN file[ref.in][ref.at] \cap Messages = ref.ids

ChunksOf(g) == IF g = NoId THEN <<>> ELSE [k \in DOMAIN index[g] |-> index[g][k].ids]

\* The records of the chunks at the positions ks.
RecordsOf(g, ks) ==
  [r \in Records |->
     IF \E k \in ks : r \in DOMAIN file[index[g][k].in][index[g][k].at]
     THEN LET k == CHOOSE j \in ks : r \in DOMAIN file[index[g][j].in][index[g][j].at]
          IN file[index[g][k].in][index[g][k].at][r]
     ELSE Gone]
Content(g) == IF g = NoId THEN Nothing ELSE RecordsOf(g, DOMAIN index[g])
BlocksOf(g) == IF g = NoId THEN {} ELSE blocks[g]

MessagesOf(t) == {m \in Messages : t[m] # Gone}

\* The records a timeline with these messages can hold: calls have messages.
Anchored(t) == [r \in Records |-> IF r \in Calls /\ t[Owner[r]] = Gone THEN Gone ELSE t[r]]
-----------------------------------------------------------------------------
(* Patches: what a host changed, and what the store makes of it. *)

Changed(b, n) == {r \in Records : b[r] # n[r]}

\* An older fragment of an answer that the store has more of, or finished.
Dominated(r, cur, next) ==
  /\ r \in Messages
  /\ next[r] \in Streaming
  /\ \/ cur[r] \in Finished
     \/ cur[r] = "more"
     \/ cur[r] = "part" /\ next[r] = "part"

\* Mutant: the version in the store is not compared.
NeverConflicts(cur, b, n) == {}

\* The records the store refuses: their version is not the one the host knew.
Conflicts(cur, b, n) ==
  {r \in Changed(b, n) : /\ cur[r] # n[r]
                         /\ ~Dominated(r, cur, n)
                         /\ ~(n[r] = Gone /\ cur[r] = Gone)
                         /\ cur[r] # b[r]}

\* Mutant: older fragments are taken as well.
TakesFragments(cur, b, n) == {r \in Changed(b, n) : cur[r] # n[r]}

Accepted(cur, b, n) ==
  {r \in Changed(b, n) : cur[r] # n[r] /\ ~Dominated(r, cur, n)}
Applied(cur, b, n) ==
  Anchored([r \in Records |-> IF r \in Accepted(cur, b, n) THEN n[r] ELSE cur[r]])

\* What the host may take as stored: its own timeline, with the records the
\* store had newer versions of.
Acknowledged(cur, b, n) ==
  [r \in Records |-> IF r \in Changed(b, n) /\ Dominated(r, cur, n) THEN cur[r] ELSE n[r]]

\* Only the last chunk is rewritten: nothing is removed and all changes are
\* in it or behind it.
OnlyTail(g, cur, b, n) ==
  LET old == ChunksOf(g)
      accepted == Accepted(cur, b, n)
      tail == old[Len(old)]
      msg(r) == IF r \in Calls THEN Owner[r] ELSE r
  IN /\ old # <<>>
     /\ \A r \in accepted : /\ n[r] # Gone
                            /\ \/ msg(r) \in tail
                               \/ msg(r) \notin MessagesOf(cur) /\ msg(r) >= Highest(tail)

-----------------------------------------------------------------------------
(* Generations. *)

FileOf(t, ids) == [r \in {q \in Records : /\ t[q] # Gone
                                          /\ (IF q \in Calls THEN Owner[q] ELSE q) \in ids} |-> t[r]]

\* Mutant: new messages go into a chunk of their own.
NewChunkForNew(g, old, kept, t) ==
  LET prefix == SubSeq(old, 1, IF kept = 0 THEN 0 ELSE Len(old))
      rest == MessagesOf(t) \ UNION {prefix[k].ids : k \in DOMAIN prefix}
      new == Chunks(rest)
  IN prefix \o [k \in DOMAIN new |-> [in |-> g, at |-> Len(prefix) + k, ids |-> new[k]]]

\* Index and chunk files of generation g that keep the first `kept` chunks of
\* the old index and cut the other messages of t anew.
NewIndex(g, old, kept, t) ==
  LET prefix == SubSeq(old, 1, kept)
      rest == MessagesOf(t) \ UNION {prefix[k].ids : k \in DOMAIN prefix}
      new == Chunks(rest)
  IN prefix \o [k \in DOMAIN new |-> [in |-> g, at |-> kept + k, ids |-> new[k]]]
NewFiles(g, idx, t) ==
  [at \in {idx[k].at : k \in {j \in DOMAIN idx : idx[j].in = g}} |->
     LET k == CHOOSE j \in DOMAIN idx : idx[j].in = g /\ idx[j].at = at IN FileOf(t, idx[k].ids)]

Old(g) == IF g = NoId THEN <<>> ELSE index[g]

-----------------------------------------------------------------------------

\* The newest chunk, or all of them.
ReadPart(part) ==
  LET n == Len(ChunksOf(root.timeline))
  IN CASE part = "none" \/ n = 0 -> Nothing
       [] part = "tail"           -> RecordsOf(root.timeline, {n})
       [] OTHER                   -> Content(root.timeline)

\* The blocks of a page: those in its range and the newest one before it.
PageBlocks(bs, t) ==
  LET ms == MessagesOf(t)
      before == {b \in bs : b < Lowest(ms)}
  IN IF ms = {} THEN {}
     ELSE {b \in bs : b >= Lowest(ms) /\ b <= Highest(ms)}
          \cup (IF before = {} THEN {} ELSE {Highest(before)})

\* The blocks that come with a part.
ReadBlocks(part) ==
  LET all == BlocksOf(root.blocks)
  IN CASE part = "none" -> {}
       [] part = "tail" -> PageBlocks(all, ReadPart(part))
       [] OTHER         -> all

Init ==
  /\ root = [seq |-> 1, timeline |-> 1, blocks |-> IF StoredBlocks = {} THEN NoId ELSE 1]
  /\ LET idx == NewIndex(1, <<>>, 0, Stored) IN
       /\ index = [g \in Ids |-> IF g = 1 THEN idx ELSE Absent]
       /\ file = [g \in Ids |-> IF g = 1 THEN NewFiles(1, idx, Stored) ELSE Absent]
  /\ blocks = [g \in Ids |-> IF g = root.blocks THEN StoredBlocks ELSE Absent]
  /\ created = 1
  /\ loaded = Opened
  /\ world = [h \in Hosts |-> ReadPart(Opened[h])]
  /\ seen = [h \in Hosts |-> ReadBlocks(Opened[h])]
  /\ base = world
  /\ savedBlocks = seen
  /\ override = [h \in Hosts |-> [c \in Calls |-> Gone]]
  /\ save = [h \in Hosts |-> NoSave]
  /\ met = seen
  /\ used = MessagesOf(Stored)
  /\ changes = 0
  /\ mishaps = {}

Mishap(kind) == /\ kind \in Mishaps \ mishaps
                /\ mishaps' = mishaps \cup {kind}
                /\ changes < MaxChanges /\ changes' = changes + 1

-----------------------------------------------------------------------------
(* Loading and changing. *)

\* A host reads the newest chunk with the blocks of that page, or all; what
\* it reads is what it knows.
Load(h, part) ==
  /\ loaded[h] = "none" /\ LockFree
  /\ world' = [world EXCEPT ![h] = ReadPart(part)]
  /\ base' = [base EXCEPT ![h] = ReadPart(part)]
  /\ seen' = [seen EXCEPT ![h] = ReadBlocks(part)]
  /\ savedBlocks' = [savedBlocks EXCEPT ![h] = ReadBlocks(part)]
  /\ met' = [met EXCEPT ![h] = ReadBlocks(part)]
  /\ loaded' = [loaded EXCEPT ![h] = part]
  /\ override' = [override EXCEPT ![h] = [c \in Calls |-> Gone]]
  /\ UNCHANGED <<disk, save, bounds>>

\* What can become of a record in a world.
Successors(r, v) == CASE v = "part"      -> {"more", "done"}
                      [] v = "more"      -> {"done"}
                      [] v = "done"      -> IF r \in Inputs THEN {"edited"} ELSE {}
                      [] v = "executing" -> {"success", "error"}
                      [] OTHER           -> {}

Change(h) ==
  /\ loaded[h] # "none"
  /\ changes < MaxChanges /\ changes' = changes + 1
  /\ UNCHANGED <<disk, save, loaded, base, savedBlocks, override, mishaps>>

\* The newest message of the conversation, as an answer or an input.
AddMessage(h) == \E m \in Mine[h] \ used :
  /\ \A o \in MessagesOf(world[h]) : o < m
  /\ world' = [world EXCEPT ![h][m] = IF m \in Inputs THEN "done" ELSE "part"]
  /\ used' = used \cup {m}
  /\ Change(h) /\ UNCHANGED <<seen, met>>

Progress(h) == \E r \in Records : \E v \in Successors(r, world[h][r]) :
  /\ world' = [world EXCEPT ![h][r] = v]
  /\ Change(h) /\ UNCHANGED <<seen, met, used>>

\* The world without the messages from n on.
Before(t, n) == Anchored([r \in Records |-> IF r \in Messages /\ r >= n THEN Gone ELSE t[r]])

\* A message and all after it are removed from the world, with their tool calls
\* and the blocks that cover them.
RemoveFrom(h) == \E m \in MessagesOf(world[h]) :
  /\ world' = [world EXCEPT ![h] = Before(@, m)]
  /\ seen' = [seen EXCEPT ![h] = {b \in @ : b < m}]
  /\ Change(h) /\ UNCHANGED <<met, used>>

\* Compression needs the whole conversation in the world.
Compress(h) == \E b \in Blocks \ seen[h] :
  /\ loaded[h] = "detail" /\ world[h][b] \in Finished
  /\ seen' = [seen EXCEPT ![h] = @ \cup {b}]
  /\ met' = [met EXCEPT ![h] = @ \cup {b}]
  /\ Change(h) /\ UNCHANGED <<world, used>>

-----------------------------------------------------------------------------
(* Saving. *)

\* The world as the host saves it: results that lost are not saved again.
Local(h) == [r \in Records |-> IF r \in Calls /\ world[h][r] \in Terminal /\ override[h][r] # Gone
                               THEN override[h][r] ELSE world[h][r]]

\* The generations and the root a commit needs are within the bounds.
Room == created <= MaxCommits /\ root.seq <= MaxCommits

\* A save of timeline and compression (pair) when one of them changed, or of
\* the timeline alone, as edits, deletions and compressions ask for: the
\* files are prepared against the committed ones, or a conflict is found.
Prepare(h, b, n, pair, attempt) ==
  LET g == root.timeline
      cur == Content(g)
      new == created + 1
      conflicts == Conflicts(cur, b, n)
      applied == Applied(cur, b, n)
      same == Accepted(cur, b, n) = {}
      idx == NewIndex(new, Old(g), IF OnlyTail(g, cur, b, n) THEN Len(Old(g)) - 1 ELSE 0, applied)
  IN IF conflicts # {}
     THEN /\ save' = [save EXCEPT ![h] =
                [NoSave EXCEPT !.at = "conflict", !.base = b, !.next = n, !.pair = pair,
                               !.attempt = attempt,
                               !.on = IF conflicts \cap Messages # {} THEN Lowest(conflicts \cap Messages)
                                      ELSE CHOOSE c \in conflicts : TRUE]]
          /\ UNCHANGED disk
     ELSE /\ save' = [save EXCEPT ![h] =
                [NoSave EXCEPT !.at = "prepared", !.base = b, !.next = n, !.pair = pair,
                               !.seen = seen[h], !.attempt = attempt,
                               !.ack = Acknowledged(cur, b, n),
                               !.timeline = IF same THEN g ELSE new,
                               !.blocks = IF ~pair THEN root.blocks
                                          ELSE IF seen[h] = {} THEN NoId ELSE new]]
          /\ index' = IF same THEN index ELSE [index EXCEPT ![new] = idx]
          /\ file' = IF same THEN file ELSE [file EXCEPT ![new] = NewFiles(new, idx, applied)]
          /\ blocks' = IF pair /\ seen[h] # {} THEN [blocks EXCEPT ![new] = seen[h]] ELSE blocks
          /\ created' = new
          /\ UNCHANGED root

Save(h, pair) ==
  /\ loaded[h] # "none" /\ save[h].at = "idle" /\ LockFree /\ Room
  /\ pair => Local(h) # base[h] \/ seen[h] # savedBlocks[h]
  /\ Prepare(h, base[h], Local(h), pair, 1)
  /\ UNCHANGED <<hosts, bounds>>

\* The tool calls of a save that another host finished first.
Lost(h, cur) == {c \in Calls : /\ save[h].base[c] = "executing"
                              /\ save[h].next[c] \in Terminal
                              /\ cur[c] \in Terminal}

\* The stored result wins: base and timeline of the save take it over and the
\* save is tried again, three times at most; other conflicts end it (records
\* of a message that a partial load missed are not part of this model).
Recover(h) ==
  /\ save[h].at = "conflict" /\ LockFree
  /\ LET cur == Content(root.timeline)
         lost == Lost(h, cur)
         with(t) == [r \in Records |-> IF r \in lost THEN cur[r] ELSE t[r]]
     IN IF save[h].on \in lost /\ save[h].attempt < 3
        THEN /\ override' = [override EXCEPT ![h] = [c \in Calls |-> IF c \in lost THEN cur[c] ELSE @[c]]]
             /\ save' = [save EXCEPT ![h].at = "again", ![h].attempt = @ + 1,
                                     ![h].base = with(@), ![h].next = with(@)]
        ELSE /\ save' = [save EXCEPT ![h].at = "failed"]
             /\ UNCHANGED override
  /\ UNCHANGED <<disk, loaded, world, seen, base, savedBlocks, met, bounds>>

Again(h) ==
  /\ save[h].at = "again" /\ LockFree /\ Room
  /\ Prepare(h, save[h].base, save[h].next, save[h].pair, save[h].attempt)
  /\ UNCHANGED <<hosts, bounds>>

\* The chunks up to an anchor are kept, the anchor's own is cut.
Truncate(h) ==
  /\ loaded[h] = "detail" /\ save[h].at = "idle" /\ LockFree /\ Room
  /\ changes < MaxChanges /\ changes' = changes + 1
  /\ \E n \in MessagesOf(Content(root.timeline)) \cap MessagesOf(world[h]) :
       LET g == root.timeline
           t == Before(Content(g), n)
           k == ChunkOf(ChunksOf(g), n)
           idx == NewIndex(created + 1, Old(g), k - 1, t)
       IN /\ save' = [save EXCEPT ![h] = [NoSave EXCEPT !.at = "prepared", !.base = base[h], !.cut = n,
                                          !.timeline = created + 1, !.blocks = root.blocks]]
          /\ index' = [index EXCEPT ![created + 1] = idx]
          /\ file' = [file EXCEPT ![created + 1] = NewFiles(created + 1, idx, t)]
  /\ created' = created + 1
  /\ UNCHANGED <<root, blocks, hosts, used, mishaps>>

\* The root is written: timeline and compression change at once.
NewRoot(h) == [seq |-> root.seq + 1, timeline |-> save[h].timeline, blocks |-> save[h].blocks]

Publish(h) ==
  /\ save[h].at = "prepared"
  /\ root' = NewRoot(h)
  /\ save' = [save EXCEPT ![h].at = "written"]
  /\ UNCHANGED <<index, file, blocks, created, hosts, bounds>>

\* The write of the root fails, before or after the file is in place: the
\* save is reported as failed.
PublishFails(h) ==
  /\ save[h].at = "prepared"
  /\ \/ Mishap("write") /\ UNCHANGED root
     \/ Mishap("late") /\ root' = NewRoot(h)
  /\ save' = [save EXCEPT ![h].at = "failed"]
  /\ UNCHANGED <<index, file, blocks, created, hosts, used>>

Referenced(g) == IF g = NoId THEN {} ELSE {g} \cup {index[g][k].in : k \in DOMAIN index[g]}

\* Generations the committed root does not need are removed, if that works;
\* then the host takes what it saved for stored. After a truncation it
\* removes the messages from its world.
Finish(h) ==
  /\ save[h].at = "written" /\ LockFree
  /\ \/ /\ index' = [g \in Ids |-> IF g = root.timeline THEN index[g] ELSE Absent]
        /\ file' = [g \in Ids |-> IF g \in Referenced(root.timeline) THEN file[g] ELSE Absent]
        /\ blocks' = [g \in Ids |-> IF g = root.blocks THEN blocks[g] ELSE Absent]
        /\ UNCHANGED <<changes, mishaps>>
     \/ Mishap("garbage") /\ UNCHANGED <<index, file, blocks>>
  /\ IF save[h].cut = 0
     THEN /\ base' = [base EXCEPT ![h] = save[h].ack]
          /\ savedBlocks' = [savedBlocks EXCEPT ![h] = IF save[h].pair THEN save[h].seen ELSE {}]
          /\ UNCHANGED <<world, seen>>
     ELSE /\ world' = [world EXCEPT ![h] = Before(@, save[h].cut)]
          /\ seen' = [seen EXCEPT ![h] = {b \in @ : b < save[h].cut}]
          /\ UNCHANGED <<base, savedBlocks>>
  /\ save' = [save EXCEPT ![h] = NoSave]
  /\ UNCHANGED <<root, created, loaded, override, met, used>>

Fail(h) ==
  /\ save[h].at = "failed"
  /\ save' = [save EXCEPT ![h] = NoSave]
  /\ UNCHANGED <<disk, hosts, bounds>>

\* The host ends, wherever its save is; its world is gone.
Crash(h) ==
  /\ loaded[h] # "none" /\ Mishap("crash")
  /\ save' = [save EXCEPT ![h] = NoSave]
  /\ loaded' = [loaded EXCEPT ![h] = "none"]
  /\ world' = [world EXCEPT ![h] = Nothing]
  /\ base' = [base EXCEPT ![h] = Nothing]
  /\ seen' = [seen EXCEPT ![h] = {}]
  /\ savedBlocks' = [savedBlocks EXCEPT ![h] = {}]
  /\ met' = [met EXCEPT ![h] = {}]
  /\ override' = [override EXCEPT ![h] = [c \in Calls |-> Gone]]
  /\ UNCHANGED <<disk, used>>

Next == \E h \in Hosts :
  \/ \E part \in {"tail", "detail"} : Load(h, part)
  \/ AddMessage(h) \/ Progress(h) \/ RemoveFrom(h) \/ Compress(h)
  \/ \E pair \in BOOLEAN : Save(h, pair)
  \/ Recover(h) \/ Again(h) \/ Truncate(h)
  \/ Publish(h) \/ PublishFails(h) \/ Finish(h) \/ Fail(h) \/ Crash(h)

Spec == Init /\ [][Next]_vars

-----------------------------------------------------------------------------
(* Properties. *)

Row == [Records -> Versions \cup {Gone}]
Ref == [in : Ids, at : 1..Cardinality(Messages), ids : SUBSET Messages]

\* The kinds of value each variable holds; no world holds a tool
\* call without its message.
TypeOK ==
  /\ root \in [seq : 0..(MaxCommits + 1), timeline : Ids \cup {NoId}, blocks : Ids \cup {NoId}]
  /\ \A g \in Ids : /\ index[g] # Absent => index[g] \in Seq(Ref)
                    /\ blocks[g] # Absent => blocks[g] \subseteq Blocks
  /\ world \in [Hosts -> Row] /\ base \in [Hosts -> Row]
  /\ \A h \in Hosts : /\ seen[h] \cup savedBlocks[h] \subseteq Blocks
                      /\ save[h].base \in Row /\ save[h].ack \in Row
                      /\ \A c \in Calls : world[h][c] # Gone => world[h][Owner[c]] # Gone

\* Whatever crashed, failed or was collected: the committed index finds each of
\* its chunks with the messages it lists, also those that older generations
\* hold, and the committed compression generation is there
\* (readConversationTimelineChunkStrict never has to refuse).
RootReadable == /\ Readable(root.timeline)
                /\ root.blocks # NoId => blocks[root.blocks] # Absent

\* A timeline that was saved in increments is cut exactly as if it were written
\* as a whole: only the newest chunk is incomplete, whichever chunks were
\* reused, truncated or written anew.
ChunksAreCanonical ==
  ChunksOf(root.timeline) = Chunks(MessagesOf(Content(root.timeline)))

\* What the root names is there in full and cut as if written at once.
StoreWhole == TypeOK /\ RootReadable /\ ChunksAreCanonical

Committed == Content(root.timeline)

FinishedStaysStep ==
  \A m \in Messages : Committed[m] \in Finished => Committed'[m] \in Finished \cup {Gone}

\* A message that was stored as finished is never a fragment again: a host that
\* still streams an older part of it does not win
\* (isStaleMessageUpsertDominatedByCurrent).
FinishedStays == [][FinishedStaysStep]_vars

FirstResultStandsStep ==
  \A c \in Calls : Committed[c] \in Terminal => Committed'[c] \in {Committed[c], Gone}

\* The first stored result of a tool call stands: of two hosts that ran the
\* call from the same state only one result is ever stored
\* (rebaseCanonicalTerminalToolCall).
FirstResultStands == [][FirstResultStandsStep]_vars

AcknowledgedIsStoredStep ==
  \A h \in Hosts : save[h].at = "prepared" /\ save'[h].at = "written" /\ save[h].cut = 0 =>
    \A r \in Changed(save[h].base, save[h].next) :
      \/ save[h].ack[r] = Committed'[r]
      \/ r \in Calls /\ Committed'[Owner[r]] = Gone

\* What a save acknowledges of the records it changed is what the store holds
\* when it is published, but for calls whose message is gone: the next save of
\* the host starts from versions that exist.
AcknowledgedIsStored == [][AcknowledgedIsStoredStep]_vars

RecordsStandStep == FinishedStaysStep /\ FirstResultStandsStep /\ AcknowledgedIsStoredStep

\* Hosts that save from different states take no stored answer or result back, and
\* each knows afterwards what is stored.
RecordsStand == [][RecordsStandStep]_vars

\* A commit removes only compression blocks that its host had in its world: "a
\* partial base only constrains the ids it knows and never turns what was not
\* loaded into a removal" (ClientStatePersistence.ts:335).
\* TLC refutes it: section 6 of the README says how.
UnloadedBlocksStay ==
  [][\A h \in Hosts : save[h].at = "prepared" /\ save'[h].at = "written" =>
       BlocksOf(root.blocks) \ BlocksOf(root'.blocks) \subseteq met[h]]_vars

\* The store is a table of records with compare and set per record.
Register == INSTANCE TimelineRegister WITH
  table <- Committed,
  known <- [h \in Hosts |-> IF save[h].at = "idle" THEN base[h] ELSE save[h].base]
IsRegister == Register!Spec
=============================================================================
