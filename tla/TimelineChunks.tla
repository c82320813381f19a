--------------------------- MODULE TimelineChunks ---------------------------
(***************************************************************************)
(* conversationTimelineStore.ts: how a conversation is cut into chunks, and *)
(* which chunks a page holds. A message is its sequence number; a timeline  *)
(* is the set of its messages, a chunk a set of neighbours. The index lists *)
(* chunks by position, and a chunk's id is its position, so ids are reused  *)
(* for other messages when a removal moves the cuts.                        *)
(***************************************************************************)
EXTENDS Integers, Sequences, FiniteSets

CONSTANT ChunkSize   \* CONVERSATION_TIMELINE_CHUNK_SIZE, at least 1

Lowest(ids)  == CHOOSE n \in ids : \A o \in ids : n <= o
Highest(ids) == CHOOSE n \in ids : \A o \in ids : n >= o
Older(ids, m) == Cardinality({o \in ids : o < m})

\* A timeline is cut from its oldest message on; only the newest chunk may be
\* incomplete.
Chunks(ids) ==
  [k \in 1..((Cardinality(ids) + ChunkSize - 1) \div ChunkSize) |->
     {m \in ids : Older(ids, m) \div ChunkSize = k - 1}]

\* The position of the chunk that holds message m, 0 if none does.
ChunkOf(chunks, m) ==
  IF \E k \in DOMAIN chunks : m \in chunks[k]
  THEN CHOOSE k \in DOMAIN chunks : m \in chunks[k] ELSE 0

\* The positions a page holds: the newest chunks, those before the cursor,
\* the cursor's own and those after it, or those around it. A cursor (0 if
\* the index has no such chunk) that is gone reads nothing older, the newest
\* chunks if newer ones were asked for.
Page(direction, cursor, total, count) ==
  LET upTo(n) == (IF n > count THEN n - count + 1 ELSE 1)..n
      from(n, size) == n..(IF total < n + size - 1 THEN total ELSE n + size - 1)
  IN CASE direction = "initial" -> upTo(total)
       [] direction = "older"   -> IF cursor = 0 THEN {} ELSE upTo(cursor - 1)
       [] direction = "newer"   ->
            IF cursor = 0 THEN upTo(total)
            ELSE from(cursor, IF cursor < total /\ count < 2 THEN 2 ELSE count)
       [] direction = "around"  ->
            LET centre == IF cursor = 0 THEN total ELSE cursor
                start == centre - (count - 1) \div 2
            IN from(IF start < 1 THEN 1 ELSE start, count)
=============================================================================
