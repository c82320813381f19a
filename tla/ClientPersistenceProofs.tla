----------------------- MODULE ClientPersistenceProofs -----------------------
(* Theorems about ClientPersistence, for any records, requests, retries and *)
(* failures. The first half is about gates: they keep the saves out, and a   *)
(* deleted conversation is not listed again by a save that was under way,    *)
(* due or to be retried. The second is about what is stored: a conversation  *)
(* that is reported as saved is, and so is one that is evicted, as long as   *)
(* the history is clean.                                                     *)
EXTENDS ClientPersistence, TLAPS

-----------------------------------------------------------------------------
(* The inductive invariant *)

Listings == {"yes", "no"}
Some == Contents \cup {None}

Worlds == [recs : Contents, alive : BOOLEAN, open : BOOLEAN, twice : BOOLEAN,
           loaded : SUBSET {"tail", "detail"}]
Disks == [recs : Contents, listed : Listings]
Fields == [base : Contents, json : Some, projected : Contents \X BOOLEAN, listBase : Listings,
           render : Some, list : Listings \cup {"none"}, timer : BOOLEAN, retry : BOOLEAN,
           attempts : 0..Retries, busy : BOOLEAN, afterSave : BOOLEAN, afterGate : BOOLEAN,
           gate : GateUsers \cup {"none"}, status : {"pending", "saving", "saved", "error"}]
Saving == [by : Callers, render : Some, list : Listings \cup {"none"}, base : Contents,
           saved : {"due", "ok", "failed", "conflict"}, listed : {"due", "ok", "failed"}]
Flushing == [at : {"idle", "gate", "again", "due", "cut", "ok", "failed", "removed"},
             base : Some, next : Some, cut : Nat]
Reading == [at : {"none", "read", "fill"}, page : Some, todo : SUBSET Records]
GateStates == [queue : Seq(GateUsers), idle : BOOLEAN,
               at : {"none", "enter", "saving", "flushing", "loading", "erasing", "erased",
                     "cleaning", "end"}]
CallStates == [Callers -> {"idle", "gate", "wait", "again", "save", "done", "failed"}]

WorldType == world \in Worlds
DiskType  == disk \in Disks
FieldType == p \in Fields

\* A save is in flight while the persister is busy, and has what it is to write.
SaveType == /\ p.busy => save \in Saving
            /\ ~p.busy => save = NoSave
            /\ save.saved = "due" => save.render \in Contents
            /\ save.listed = "due" => save.list \in Listings
FlushType == /\ flush \in [Flushers -> Flushing]
             /\ \A f \in Flushers :
                  flush[f].at = "due" => flush[f].base \in Contents /\ flush[f].next \in Contents
LoadType == /\ loads \in [LoadKinds -> Reading]
            /\ \A k \in LoadKinds : loads[k].at # "none" => loads[k].page \in Contents
GateType == gates \in GateStates
CallType == calls \in CallStates
HostType == /\ {deleted, evictable, tick} \subseteq BOOLEAN
            /\ down \in 0..Up /\ ops \in 0..MaxOps /\ failures \in 0..MaxFailures

\* The gate belongs to the head of its queue, and inside it no save is in flight but
\* the two of a deletion.
GateInv ==
  /\ p.gate = "none" <=> gates.at = "none"
  /\ p.gate # "none" => gates.queue # <<>>
  /\ gates.at \in {"saving", "erasing", "erased", "cleaning"} => p.gate = "delete"
  /\ gates.at = "enter" /\ gates.idle => ~p.busy
  /\ gates.at \notin {"none", "enter"} /\ p.busy => save.by = "delete" /\ gates.at \in {"saving", "cleaning"}
  /\ save.by = "delete" <=> calls["delete"] = "save"
  /\ gates.at \in {"none", "enter"} => calls["delete"] = "idle"
  /\ calls["delete"] \in {"idle", "save", "done", "failed"}

\* Nothing that is stored, in flight or due lists a conversation whose deletion is
\* committed, nor will anything that is collected.
DeletedInv ==
  deleted /\ gates.at # "erasing" =>
    /\ disk.listed = "no" /\ ~world.alive
    /\ p.list \in {"none", "no"} /\ save.list \in {"none", "no"}

Types == WorldType /\ DiskType /\ FieldType /\ SaveType /\ FlushType /\ LoadType /\ GateType /\ CallType /\ HostType
IInv == Types /\ GateInv /\ DeletedInv

LEMMA Follows == IInv => GatesHold
<1> SUFFICES ASSUME IInv PROVE GatesHold
  OBVIOUS
<1> USE DEF IInv, Types
<1>1. p.busy <=> save # NoSave
  BY DEF SaveType, Saving, NoSave, Callers
<1>2. TypeOK
  BY <1>1 DEF TypeOK, WorldType, Worlds, DiskType, Disks, FieldType, Fields, Listings, Some, CallType, CallStates,
     HostType
<1>3. GateExcludesSaves
  BY DEF GateExcludesSaves, GateInv, FieldType, Fields
<1>4. DeletedStaysUnlisted
  BY DEF DeletedStaysUnlisted, DeletedInv
<1> QED
  BY <1>2, <1>3, <1>4 DEF GatesHold

-----------------------------------------------------------------------------
(* The fields of the persister *)

\* What schedules a save touches neither the save in flight nor the gate nor the list.
Alike(q, r) == r.busy = q.busy /\ r.gate = q.gate /\ r.list = q.list

LEMMA Scheduled ==
  ASSUME NEW q \in Fields
  PROVE  /\ SchedulePersistCheck(q) \in Fields /\ Alike(q, SchedulePersistCheck(q))
         /\ MarkPending(q) \in Fields /\ Alike(q, MarkPending(q))
         /\ MarkSavedIfIdle(q) \in Fields /\ Alike(q, MarkSavedIfIdle(q))
<1>1. SchedulePersistCheck(q) \in Fields /\ Alike(q, SchedulePersistCheck(q))
  <2>1. SchedulePersistCheck(q) \in {[q EXCEPT !.afterGate = TRUE], [q EXCEPT !.afterSave = TRUE], [q EXCEPT !.timer = TRUE]}
    BY DEF SchedulePersistCheck
  <2>2. /\ [q EXCEPT !.afterGate = TRUE] \in Fields /\ Alike(q, [q EXCEPT !.afterGate = TRUE])
        /\ [q EXCEPT !.afterSave = TRUE] \in Fields /\ Alike(q, [q EXCEPT !.afterSave = TRUE])
        /\ [q EXCEPT !.timer = TRUE] \in Fields /\ Alike(q, [q EXCEPT !.timer = TRUE])
    BY DEF Fields, Alike
  <2> QED
    BY <2>1, <2>2
<1>2. MarkPending(q) \in Fields /\ Alike(q, MarkPending(q))
  BY DEF MarkPending, Fields, Alike
<1>3. MarkSavedIfIdle(q) \in Fields /\ Alike(q, MarkSavedIfIdle(q))
  <2>1. MarkSavedIfIdle(q) \in {q, [q EXCEPT !.status = "saved"]}
    BY DEF MarkSavedIfIdle
  <2>2. [q EXCEPT !.status = "saved"] \in Fields /\ Alike(q, [q EXCEPT !.status = "saved"])
    BY DEF Fields, Alike
  <2> QED
    BY <2>1, <2>2 DEF Alike
<1> QED
  BY <1>1, <1>2, <1>3

LEMMA Bounds == Retries \in Nat /\ Attempts \in Nat /\ MaxOps \in Nat /\ MaxFailures \in Nat
BY BoundsAreNumbers

LEMMA QueuedAlike ==
  ASSUME NEW q \in Fields
  PROVE  QueuePersist(q) \in Fields /\ Alike(q, QueuePersist(q))
<1> DEFINE n == IF q.status = "error" THEN 0 ELSE q.attempts
           r == [q EXCEPT !.retry = FALSE, !.attempts = n]
<1>0. n \in 0..Retries
  BY Bounds DEF Fields
<1> HIDE DEF n
<1>1. r \in Fields /\ Alike(q, r)
  BY <1>0 DEF Fields, Alike
<1> HIDE DEF r
<1>2. [r EXCEPT !.afterSave = TRUE] \in Fields /\ Alike(r, [r EXCEPT !.afterSave = TRUE])
  BY <1>1 DEF Fields, Alike
<1>3. MarkPending(r) \in Fields /\ Alike(r, MarkPending(r))
  BY <1>1, Scheduled
<1>4. /\ SchedulePersistCheck(MarkPending(r)) \in Fields
      /\ Alike(MarkPending(r), SchedulePersistCheck(MarkPending(r)))
  BY <1>3, Scheduled
<1>5. QueuePersist(q) = IF q.busy THEN [r EXCEPT !.afterSave = TRUE] ELSE SchedulePersistCheck(MarkPending(r))
  BY DEF QueuePersist, r, n
<1> QED
  BY <1>1, <1>2, <1>3, <1>4, <1>5 DEF Alike

LEMMA CollectedFits ==
  ASSUME WorldType, FieldType, NEW c \in Callers
  PROVE  /\ Collected(c) \in Fields /\ Collected(c).busy = p.busy /\ Collected(c).gate = p.gate
         /\ Collected(c).list \in {p.list, Listing}
<1> DEFINE l == Collected(c).list
           n == Collected(c).render
           x == <<world.recs, world.alive>>
<1>1. Collected(c) = [p EXCEPT !.list = l, !.render = n, !.projected = x]
  BY DEF Collected, FieldType, Fields
<1>2. l \in {p.list, Listing} /\ n \in {p.render, world.recs}
  BY DEF Collected, FieldType, Fields
<1>3. l \in Listings \cup {"none"} /\ n \in Some /\ x \in Contents \X BOOLEAN
  BY <1>2 DEF FieldType, Fields, WorldType, Worlds, Some, Listing, Listings
<1> HIDE DEF l, n, x
<1>4. [p EXCEPT !.list = l, !.render = n, !.projected = x] \in Fields
  BY <1>3 DEF FieldType, Fields
<1>5. Collected(c).busy = p.busy /\ Collected(c).gate = p.gate
  BY <1>1 DEF FieldType, Fields
<1> QED
  BY <1>1, <1>2, <1>4, <1>5 DEF l

LEMMA NumbersOfNothing == Nothing \in Contents /\ 0 \in 0..(MaxOps + 1) /\ 1 \in 0..(MaxOps + 1)
BY BoundsAreNumbers DEF Nothing, Contents

-----------------------------------------------------------------------------
(* persistImmediately *)

\* A call starts a save only while none is in flight and outside the gate, the
\* deletion apart, whose gate it is.
PersistFits(c) ==
  /\ FieldType' /\ SaveType' /\ CallType'
  /\ p'.gate = p.gate
  /\ \A x \in Callers \ {c} : calls'[x] = calls[x]
  /\ \/ /\ save' = save /\ p'.busy = p.busy /\ calls'[c] \in {"gate", "wait", "done"}
        /\ c = "delete" => calls'[c] = "done"
     \/ /\ save'.by = c /\ ~p.busy /\ p'.busy /\ calls'[c] = "save"
        /\ p.gate = "none" \/ c = "delete"
  /\ {p'.list, save'.list} \subseteq {"none", Listing, p.list, save.list}

LEMMA PersistStep ==
  ASSUME Types, NEW c \in Callers, Persist(c), c = "delete" => p.gate # "none" /\ ~p.busy
  PROVE  PersistFits(c)
<1> DEFINE q == [p EXCEPT !.timer = FALSE, !.retry = FALSE]
           due == [Collected(c) EXCEPT !.timer = FALSE, !.retry = FALSE]
           unchanged == /\ c \in {"timer", "retry"} /\ NothingDue(p)
                        /\ p.projected = <<world.recs, world.alive>>
           idle == IF unchanged THEN q ELSE due
           going == [due EXCEPT !.busy = TRUE, !.status = "saving", !.render = None, !.list = "none"]
           sent == [by |-> c, render |-> due.render, list |-> due.list, base |-> p.base,
                    saved |-> IF due.render = None THEN "ok" ELSE "due",
                    listed |-> IF due.list = "none" THEN "ok" ELSE "due"]
<1>t. FieldType /\ SaveType /\ CallType /\ WorldType
  BY DEF Types
<1>1. q \in Fields /\ Alike(p, q)
  BY <1>t DEF FieldType, Fields, Alike
<1>2. Collected(c) \in Fields /\ Collected(c).busy = p.busy /\ Collected(c).gate = p.gate
      /\ Collected(c).list \in {p.list, Listing}
  BY <1>t, CollectedFits
<1>3. due \in Fields /\ due.busy = p.busy /\ due.gate = p.gate /\ due.list \in {p.list, Listing}
  BY <1>2 DEF Fields
<1>4. going \in Fields /\ going.busy /\ going.gate = p.gate /\ going.list = "none"
  <2> HIDE DEF due
  <2>1. None \in Some /\ "none" \in Listings \cup {"none"}
    BY DEF Some
  <2> QED
    BY <1>3, <2>1 DEF Fields
<1>5. /\ sent \in Saving /\ sent.by = c /\ sent.list \in {p.list, Listing}
      /\ sent.saved = "due" => sent.render \in Contents
      /\ sent.listed = "due" => sent.list \in Listings
  <2> HIDE DEF due
  <2>1. p.base \in Contents /\ due.render \in Some /\ due.list \in Listings \cup {"none"}
    BY <1>t, <1>3 DEF FieldType, Fields
  <2> QED
    BY <1>3, <2>1 DEF Saving, Some
<1> DEFINE at(x) == calls' = [calls EXCEPT ![c] = x]
<1>6. \/ /\ p.gate # "none" /\ c # "delete" /\ p' = [MarkPending(q) EXCEPT !.afterGate = TRUE]
         /\ at("gate") /\ save' = save
      \/ /\ p.busy /\ p' = [MarkPending(q) EXCEPT !.afterSave = TRUE]
         /\ at("wait") /\ save' = save
      \/ /\ p' = MarkSavedIfIdle(idle)
         /\ at("done") /\ save' = save
      \/ /\ p.gate = "none" \/ c = "delete"
         /\ ~p.busy /\ p' = going /\ save' = sent /\ at("save")
  BY <1>t DEF Persist, Inside, FieldType, Fields
<1>7. ASSUME NEW x \in {"gate", "wait", "save", "done"}, at(x)
      PROVE  CallType' /\ calls'[c] = x /\ \A y \in Callers \ {c} : calls'[y] = calls[y]
  BY <1>t, <1>7 DEF CallType, CallStates
<1>8. CASE /\ p.gate # "none" /\ c # "delete" /\ p' = [MarkPending(q) EXCEPT !.afterGate = TRUE]
           /\ at("gate") /\ save' = save
  <2>1. MarkPending(q) \in Fields /\ Alike(q, MarkPending(q))
    BY <1>1, Scheduled
  <2>2. p' \in Fields /\ Alike(p, p')
    BY <1>1, <1>8, <2>1 DEF Fields, Alike
  <2> QED
    BY <1>t, <1>7, <1>8, <2>2 DEF PersistFits, FieldType, SaveType, Alike
<1>9. CASE /\ p.busy /\ p' = [MarkPending(q) EXCEPT !.afterSave = TRUE]
           /\ at("wait") /\ save' = save
  <2>1. MarkPending(q) \in Fields /\ Alike(q, MarkPending(q))
    BY <1>1, Scheduled
  <2>2. p' \in Fields /\ Alike(p, p')
    BY <1>1, <1>9, <2>1 DEF Fields, Alike
  <2> QED
    BY <1>t, <1>7, <1>9, <2>2 DEF PersistFits, FieldType, SaveType, Alike
<1>10. CASE p' = MarkSavedIfIdle(idle) /\ at("done") /\ save' = save
  <2>1. idle \in Fields /\ idle.busy = p.busy /\ idle.gate = p.gate /\ idle.list \in {p.list, Listing}
    BY <1>1, <1>3 DEF Alike
  <2> HIDE DEF idle
  <2>2. p' \in Fields /\ Alike(idle, p')
    BY <1>10, <2>1, Scheduled
  <2> QED
    BY <1>t, <1>7, <1>10, <2>1, <2>2 DEF PersistFits, FieldType, SaveType, Alike
<1>11. CASE /\ p.gate = "none" \/ c = "delete"
            /\ ~p.busy /\ p' = going /\ save' = sent /\ at("save")
  <2> HIDE DEF going, sent
  <2>1. SaveType'
    BY <1>4, <1>5, <1>11 DEF SaveType
  <2> QED
    BY <1>4, <1>5, <1>7, <1>11, <2>1 DEF PersistFits, FieldType
<1> QED
  BY <1>6, <1>8, <1>9, <1>10, <1>11

-----------------------------------------------------------------------------
(* What leaves the gate and the list alone *)

LEMMA GateUntouched ==
  ASSUME IInv, p'.gate = p.gate, p'.busy = p.busy, save'.by = save.by,
         calls'["delete"] = calls["delete"], gates'.at = gates.at, gates'.idle = gates.idle,
         gates.queue # <<>> => gates'.queue # <<>>
  PROVE  GateInv'
BY DEF IInv, GateInv

LEMMA ListUntouched ==
  ASSUME IInv, deleted' = deleted, gates'.at = gates.at, disk'.listed = disk.listed,
         world'.alive = world.alive, {p'.list, save'.list} \subseteq {"none", Listing, p.list, save.list}
  PROVE  DeletedInv'
BY DEF IInv, DeletedInv, Listing

\* A call that is not the deletion's keeps the invariant of the gate.
LEMMA PersistKeeps ==
  ASSUME IInv, NEW c \in Callers \ {"delete"}, Persist(c), gates' = gates
  PROVE  FieldType' /\ SaveType' /\ CallType' /\ GateInv'
<1>1. PersistFits(c)
  BY PersistStep DEF IInv
<1>2. FieldType' /\ SaveType' /\ CallType' /\ calls'["delete"] = calls["delete"]
  BY <1>1 DEF PersistFits, Callers
<1>3. CASE save' = save /\ p'.busy = p.busy
  BY <1>1, <1>3, <1>2, GateUntouched DEF PersistFits
<1>4. CASE save'.by = c /\ ~p.busy /\ p'.busy /\ p.gate = "none"
  <2>1. save.by # "delete"
    BY <1>4 DEF IInv, Types, SaveType, NoSave
  <2> QED
    BY <1>1, <1>2, <1>4, <2>1 DEF PersistFits, IInv, GateInv
<1>5. (save' = save /\ p'.busy = p.busy) \/ (save'.by = c /\ ~p.busy /\ p'.busy /\ p.gate = "none")
  BY <1>1 DEF PersistFits
<1> QED
  BY <1>2, <1>3, <1>4, <1>5

LEMMA PersistList ==
  ASSUME IInv, NEW c \in Callers \ {"delete"}, Persist(c), deleted' = deleted, gates' = gates,
         disk' = disk, world'.alive = world.alive
  PROVE  DeletedInv'
<1>1. PersistFits(c)
  BY PersistStep DEF IInv
<1> QED
  BY <1>1, ListUntouched DEF PersistFits

LEMMA OrdinaryKeeps ==
  ASSUME IInv, NEW c \in Callers \ {"delete"}, Persist(c), Unpersisted, tick' = tick, down' = down,
         ops' \in 0..MaxOps
  PROVE  IInv'
<1>1. FieldType' /\ SaveType' /\ CallType' /\ GateInv' /\ DeletedInv'
  BY PersistKeeps, PersistList DEF Unpersisted
<1>2. WorldType' /\ DiskType' /\ FlushType' /\ LoadType' /\ GateType' /\ HostType'
  BY DEF Unpersisted, IInv, Types, WorldType, DiskType, FlushType, LoadType, GateType, HostType
<1> QED
  BY <1>1, <1>2 DEF IInv, Types

LEMMA TimersKeep ==
  ASSUME IInv, TimerFires \/ RetryFires \/ PersistEffect
  PROVE  IInv'
<1>1. ops \in 0..MaxOps /\ MaxOps \in Nat
  BY Bounds DEF IInv, Types, HostType
<1>2. CASE TimerFires
  BY <1>1, <1>2, OrdinaryKeeps DEF TimerFires, Callers
<1>3. CASE RetryFires
  BY <1>1, <1>3, OrdinaryKeeps DEF RetryFires, Callers
<1>4. CASE PersistEffect
  <2>1. ops' \in 0..MaxOps
    BY <1>1, <1>4 DEF PersistEffect
  <2> QED
    BY <1>4, <2>1, OrdinaryKeeps DEF PersistEffect, Callers
<1> QED
  BY <1>2, <1>3, <1>4

LEMMA AgainKeeps ==
  ASSUME IInv, NEW c \in Callers, PersistAgain(c)
  PROVE  IInv'
<1>1. c # "delete"
  BY DEF IInv, GateInv, PersistAgain
<1>2. ops' \in 0..MaxOps
  BY DEF PersistAgain, IInv, Types, HostType
<1> QED
  BY <1>1, <1>2, OrdinaryKeeps DEF PersistAgain

LEMMA PanelsKeep ==
  ASSUME IInv, Close \/ EvictStarts
  PROVE  IInv'
<1>1. ops' \in 0..MaxOps
  BY Bounds DEF IInv, Types, HostType, Close, EvictStarts
<1>2. PICK c \in {"detach", "evict"} : Persist(c)
  BY DEF Close, EvictStarts
<1>3. gates' = gates /\ disk' = disk /\ deleted' = deleted
  BY DEF Close, EvictStarts
<1>4. WorldType' /\ world'.alive = world.alive
  BY DEF IInv, Types, Close, EvictStarts, WorldType, Worlds
<1>5. FieldType' /\ SaveType' /\ CallType' /\ GateInv' /\ DeletedInv'
  BY <1>2, <1>3, <1>4, PersistKeeps, PersistList DEF Callers
<1>6. DiskType' /\ FlushType' /\ LoadType' /\ GateType' /\ HostType'
  BY <1>1 DEF Close, EvictStarts, IInv, Types, DiskType, FlushType, LoadType, GateType, HostType
<1> QED
  BY <1>4, <1>5, <1>6 DEF IInv, Types

LEMMA ShutDownKeeps ==
  ASSUME IInv, ShutDown \/ ShutDownAgain
  PROVE  IInv'
<1>1. Persist("shutdown") /\ gates' = gates /\ disk' = disk /\ deleted' = deleted /\ world' = world
  BY DEF ShutDown, ShutDownAgain
<1>2. FieldType' /\ SaveType' /\ CallType' /\ GateInv' /\ DeletedInv'
  BY <1>1, PersistKeeps, PersistList DEF Callers
<1>3. down' \in 0..Up
  BY Bounds DEF ShutDown, ShutDownAgain, Up, IInv, Types, HostType
<1>4. WorldType' /\ DiskType' /\ FlushType' /\ LoadType' /\ GateType' /\ HostType'
  BY <1>3 DEF ShutDown, ShutDownAgain, bounds, IInv, Types, WorldType, DiskType, FlushType, LoadType, GateType, HostType
<1> QED
  BY <1>2, <1>4 DEF IInv, Types

-----------------------------------------------------------------------------
(* The save in flight *)

LEMMA WrittenFits ==
  ASSUME DiskType, NEW b \in Some, NEW n \in Contents
  PROVE  Written(b, n) \in Contents
BY DEF DiskType, Disks, Written, Contents

LEMMA SaveCommitsKeeps ==
  ASSUME IInv, SaveCommits
  PROVE  IInv'
<1> USE DEF IInv, Types
<1>1. p.busy /\ save \in Saving /\ save.render \in Contents
  BY DEF SaveCommits, SaveType, NoSave, FieldType, Fields
<1>2. PICK s \in {"ok", "failed", "conflict"} : save' = [save EXCEPT !.saved = s]
  BY DEF SaveCommits
<1>3. save' \in Saving /\ save'.by = save.by /\ save'.list = save.list /\ save'.saved # "due"
      /\ save'.listed = save.listed
  BY <1>1, <1>2 DEF Saving
<1>4. disk' \in Disks /\ disk'.listed = disk.listed
  <2>1. Written(save.base, save.render) \in Contents
    BY <1>1, WrittenFits DEF Saving, Some
  <2> QED
    BY <2>1 DEF SaveCommits, DiskType, Disks
<1>5. p' \in Fields /\ Alike(p, p')
  <2> DEFINE n == save.render
  <2>1. n \in Contents /\ n \in Some
    BY <1>1 DEF Some
  <2>2. p' \in {p, [p EXCEPT !.base = n, !.json = n]}
    BY DEF SaveCommits
  <2> HIDE DEF n, IInv, Types
  <2>3. [p EXCEPT !.base = n, !.json = n] \in Fields /\ Alike(p, [p EXCEPT !.base = n, !.json = n])
    <3>1. p \in Fields
      BY DEF IInv, Types, FieldType
    <3> QED
      BY <2>1, <3>1 DEF Fields, Alike
  <2>4. p \in Fields /\ Alike(p, p)
    BY DEF IInv, Types, FieldType, Alike
  <2> QED
    BY <2>2, <2>3, <2>4
<1>6. SaveType'
  BY <1>1, <1>3, <1>5 DEF SaveType, Alike
<1>7. GateInv' /\ DeletedInv'
  BY <1>3, <1>4, <1>5, GateUntouched, ListUntouched DEF SaveCommits, host, Alike
<1>8. failures' \in 0..MaxFailures
  BY Bounds DEF SaveCommits, Fail, HostType
<1>9. WorldType' /\ FlushType' /\ LoadType' /\ GateType' /\ CallType' /\ HostType'
  BY <1>8 DEF SaveCommits, host, WorldType, FlushType, LoadType, GateType, CallType, HostType
<1> QED
  BY <1>4, <1>5, <1>6, <1>7, <1>9 DEF DiskType, FieldType

LEMMA ListCommitsKeeps ==
  ASSUME IInv, ListCommits
  PROVE  IInv'
<1> USE DEF IInv, Types
<1>1. p.busy /\ save \in Saving /\ save.list \in Listings
  BY DEF ListCommits, SaveType, NoSave, FieldType, Fields
<1>2. PICK s \in {"ok", "failed"} : save' = [save EXCEPT !.listed = s]
  BY DEF ListCommits
<1>3. save' \in Saving /\ save'.by = save.by /\ save'.list = save.list /\ save'.listed # "due"
      /\ save'.saved = save.saved /\ save'.render = save.render
  BY <1>1, <1>2 DEF Saving
<1>4. disk' \in Disks /\ disk'.listed \in {disk.listed, save.list}
  BY <1>1 DEF ListCommits, DiskType, Disks
<1>5. p' \in Fields /\ Alike(p, p')
  <2> DEFINE l == save.list
  <2>1. l \in Listings /\ p \in Fields
    BY <1>1 DEF FieldType
  <2>2. p' \in {p, [p EXCEPT !.listBase = l]}
    BY DEF ListCommits
  <2> HIDE DEF l, IInv, Types
  <2>3. [p EXCEPT !.listBase = l] \in Fields /\ Alike(p, [p EXCEPT !.listBase = l])
    BY <2>1 DEF Fields, Alike
  <2> QED
    BY <2>1, <2>2, <2>3 DEF Alike
<1>6. SaveType'
  BY <1>1, <1>3, <1>5 DEF SaveType, Alike
<1>7. GateInv'
  BY <1>3, <1>5, GateUntouched DEF ListCommits, Alike
<1>8. DeletedInv'
  BY <1>1, <1>3, <1>4, <1>5 DEF ListCommits, host, Alike, DeletedInv, Listings
<1>9. failures' \in 0..MaxFailures
  BY Bounds DEF ListCommits, Fail, HostType
<1>10. WorldType' /\ FlushType' /\ LoadType' /\ GateType' /\ CallType' /\ HostType'
  BY <1>9 DEF ListCommits, host, WorldType, FlushType, LoadType, GateType, CallType, HostType
<1> QED
  BY <1>4, <1>5, <1>6, <1>7, <1>8, <1>10 DEF DiskType, FieldType

LEMMA RestoredFits ==
  ASSUME FieldType, save \in Saving
  PROVE  /\ Restored(p, save) \in Fields /\ Restored(p, save).gate = p.gate
         /\ Restored(p, save).list \in {p.list, save.list}
<1> DEFINE n == Restored(p, save).render
           l == Restored(p, save).list
<1>1. Restored(p, save) = [p EXCEPT !.render = n, !.list = l]
  BY DEF Restored, FieldType, Fields
<1>2. n \in {p.render, save.render} /\ l \in {p.list, save.list}
  BY DEF Restored, FieldType, Fields
<1>3. n \in Some /\ l \in Listings \cup {"none"}
  BY <1>2 DEF FieldType, Fields, Saving
<1> HIDE DEF n, l
<1>4. [p EXCEPT !.render = n, !.list = l] \in Fields /\ [p EXCEPT !.render = n, !.list = l].gate = p.gate
  BY <1>3 DEF FieldType, Fields
<1> QED
  BY <1>1, <1>2, <1>4 DEF l

LEMMA SaveEndsKeeps ==
  ASSUME IInv, SaveEnds
  PROVE  IInv'
<1> USE DEF IInv, Types
<1> DEFINE q == IF Saved(save) THEN [p EXCEPT !.attempts = 0, !.busy = FALSE]
                ELSE [Restored(p, save) EXCEPT !.status = "error", !.busy = FALSE]
           again == SchedulePersistCheck(MarkPending([q EXCEPT !.afterSave = FALSE]))
           r == IF q.afterSave THEN again
                ELSE IF Saved(save) THEN [q EXCEPT !.status = "saved"]
                ELSE IF Retryable(save) /\ MayRetry(q)
                     THEN [q EXCEPT !.attempts = @ + 1, !.retry = TRUE]
                     ELSE q
           Ended(x) == x \in Fields /\ x.gate = p.gate /\ ~x.busy /\ x.list \in {p.list, save.list}
<1>1. p.busy /\ save \in Saving
  BY DEF SaveEnds, SaveType
<1>2. Ended(q)
  <2>1. CASE Saved(save)
    <3>1. 0 \in 0..Retries
      BY Bounds
    <3> QED
      BY <2>1, <3>1 DEF FieldType, Fields
  <2>2. CASE ~Saved(save)
    <3>1. /\ Restored(p, save) \in Fields /\ Restored(p, save).gate = p.gate
          /\ Restored(p, save).list \in {p.list, save.list}
      BY <1>1, RestoredFits
    <3> QED
      BY <2>2, <3>1 DEF Fields
  <2> QED
    BY <2>1, <2>2
<1> HIDE DEF q
<1>3. Ended(again)
  <2>1. Ended([q EXCEPT !.afterSave = FALSE])
    BY <1>2 DEF Fields
  <2>2. Ended(MarkPending([q EXCEPT !.afterSave = FALSE]))
    BY <2>1, Scheduled DEF Alike
  <2> QED
    BY <2>2, Scheduled DEF Alike
<1> HIDE DEF again
<1>4. Ended(r)
  <2>1. Ended([q EXCEPT !.status = "saved"])
    BY <1>2 DEF Fields
  <2>2. MayRetry(q) => Ended([q EXCEPT !.attempts = @ + 1, !.retry = TRUE])
    <3>1. MayRetry(q) => q.attempts + 1 \in 0..Retries
      BY <1>2, Bounds DEF Fields, MayRetry
    <3> QED
      BY <1>2, <3>1 DEF Fields
  <2> QED
    BY <1>2, <1>3, <2>1, <2>2
<1>5. p' \in {r, QueuePersist(r)} /\ save' = NoSave /\ gates' = [gates EXCEPT !.idle = TRUE]
      /\ calls' = [Woken("wait") EXCEPT ![save.by] = IF ~Saved(save) /\ save.by \in Throwing THEN "failed" ELSE "done"]
  BY DEF SaveEnds, r, again, q
<1> HIDE DEF r
<1>6. Ended(p')
  BY <1>4, <1>5, QueuedAlike DEF Alike
<1>7. SaveType' /\ save'.by = "none" /\ save'.list = "none"
  BY <1>5, <1>6 DEF SaveType, NoSave
<1>8. /\ CallType'
      /\ save.by # "delete" => calls'["delete"] = calls["delete"]
      /\ save.by = "delete" => calls'["delete"] \in {"done", "failed"}
  <2>1. save.by \in Callers /\ calls["delete"] # "wait" /\ "delete" \in Callers
    BY <1>1 DEF Saving, GateInv, Callers
  <2>2. Woken("wait") \in CallStates /\ Woken("wait")["delete"] = calls["delete"]
    BY <2>1 DEF Woken, CallType, CallStates
  <2> HIDE DEF IInv, Types
  <2> QED
    BY <1>5, <2>1, <2>2 DEF CallType, CallStates
<1>9. GateType' /\ gates'.at = gates.at /\ gates'.queue = gates.queue
  BY <1>5 DEF GateType, GateStates
<1>10. GateInv'
  BY <1>1, <1>6, <1>7, <1>8, <1>9 DEF GateInv
<1>11. DeletedInv'
  BY <1>6, <1>7, <1>9 DEF DeletedInv, SaveEnds, host
<1>12. WorldType' /\ DiskType' /\ FlushType' /\ LoadType' /\ HostType'
  BY DEF SaveEnds, host, bounds, WorldType, DiskType, FlushType, LoadType, HostType
<1> QED
  BY <1>6, <1>7, <1>8, <1>9, <1>10, <1>11, <1>12 DEF FieldType

-----------------------------------------------------------------------------
(* Flushes *)

LEMMA FlushSet ==
  ASSUME FlushType, NEW f \in Flushers, NEW x \in Flushing, flush' = [flush EXCEPT ![f] = x],
         x.at = "due" => x.base \in Contents /\ x.next \in Contents
  PROVE  FlushType'
BY DEF FlushType

LEMMA NoFlushFits ==
  ASSUME NEW a \in {"idle", "gate", "again", "ok", "failed"}, NEW n \in Nat
  PROVE  /\ [NoFlush EXCEPT !.at = a] \in Flushing /\ [NoFlush EXCEPT !.at = a].at = a
         /\ [NoFlush EXCEPT !.at = a, !.cut = n] \in Flushing /\ [NoFlush EXCEPT !.at = a, !.cut = n].at = a
         /\ NoFlush \in Flushing /\ NoFlush.at = "idle"
BY DEF NoFlush, Flushing, Some

LEMMA FlushFits ==
  ASSUME Types, NEW f \in Flushers, NEW cut \in Nat, Flush(f, cut)
  PROVE  FlushType' /\ FieldType' /\ Alike(p, p')
<1>t. FlushType /\ FieldType /\ WorldType
  BY DEF Types
<1>1. CASE p.gate # "none" /\ f = "user"
  <2> DEFINE x == [NoFlush EXCEPT !.at = "gate", !.cut = cut]
  <2>1. x \in Flushing /\ x.at = "gate"
    BY NoFlushFits
  <2>2. flush' = [flush EXCEPT ![f] = x] /\ p' = [p EXCEPT !.afterGate = TRUE]
    BY <1>1 DEF Flush
  <2> HIDE DEF x
  <2>3. FlushType'
    BY <1>t, <2>1, <2>2, FlushSet
  <2>4. FieldType' /\ Alike(p, p')
    BY <1>t, <2>2 DEF FieldType, Fields, Alike
  <2> QED
    BY <2>3, <2>4
<1>2. CASE ~(p.gate # "none" /\ f = "user")
  <2> DEFINE x == [at |-> "due", base |-> p.base, next |-> world.recs, cut |-> cut]
  <2>1. p.base \in Contents /\ world.recs \in Contents
    BY <1>t DEF FieldType, Fields, WorldType, Worlds
  <2>2. x \in Flushing /\ x.base \in Contents /\ x.next \in Contents
    BY <2>1 DEF Flushing, Some
  <2>3. flush' = [flush EXCEPT ![f] = x] /\ p' = p
    BY <1>2 DEF Flush
  <2> HIDE DEF x
  <2>4. FlushType'
    BY <1>t, <2>2, <2>3, FlushSet
  <2> QED
    BY <1>t, <2>3, <2>4 DEF FieldType, Alike
<1> QED
  BY <1>1, <1>2

\* What leaves the save in flight, the gate and the list alone keeps the invariant,
\* as far as it keeps the types.
LEMMA Elsewhere ==
  ASSUME IInv, Alike(p, p'), FieldType', WorldType', DiskType', FlushType', LoadType', HostType',
         UNCHANGED <<save, calls, deleted>>, GateType', gates'.at = gates.at, gates'.idle = gates.idle,
         gates.queue # <<>> => gates'.queue # <<>>,
         disk'.listed = disk.listed, world'.alive = world.alive
  PROVE  IInv'
<1>1. SaveType' /\ CallType'
  BY DEF IInv, Types, SaveType, CallType, Alike
<1>2. GateInv'
  BY GateUntouched DEF Alike
<1>3. DeletedInv'
  BY ListUntouched DEF Alike
<1> QED
  BY <1>1, <1>2, <1>3 DEF IInv, Types

LEMMA FlushAgainKeeps ==
  ASSUME IInv, FlushAgain
  PROVE  IInv'
<1>1. flush["user"].cut \in Nat /\ "user" \in Flushers
  BY DEF IInv, Types, FlushType, Flushing, Flushers
<1>2. FlushType' /\ FieldType' /\ Alike(p, p')
  BY <1>1, FlushFits DEF FlushAgain, IInv
<1>3. WorldType' /\ DiskType' /\ LoadType' /\ HostType' /\ GateType'
  BY DEF FlushAgain, host, bounds, IInv, Types, WorldType, DiskType, LoadType, HostType, GateType
<1> QED
  BY <1>2, <1>3, Elsewhere DEF FlushAgain, host

LEMMA UserRemovesKeeps ==
  ASSUME IInv, UserRemoves
  PROVE  IInv'
<1>1. PICK cut \in Records : Flush("user", cut)
  BY DEF UserRemoves
<1>2. cut \in Nat /\ "user" \in Flushers
  BY RecordsAreNumbered DEF Flushers
<1>3. FlushType' /\ FieldType' /\ Alike(p, p')
  BY <1>1, <1>2, FlushFits DEF IInv
<1>4. ops' \in 0..MaxOps
  BY Bounds DEF UserRemoves, Acted, IInv, Types, HostType
<1>5. WorldType' /\ DiskType' /\ LoadType' /\ HostType' /\ GateType'
  BY <1>4 DEF UserRemoves, host, IInv, Types, WorldType, DiskType, LoadType, HostType, GateType
<1> QED
  BY <1>3, <1>5, Elsewhere DEF UserRemoves, host

LEMMA FlushCommitsKeeps ==
  ASSUME IInv, NEW f \in Flushers, FlushCommits(f)
  PROVE  IInv'
<1>t. FlushType /\ FieldType /\ DiskType
  BY DEF IInv, Types
<1>1. flush[f] \in Flushing /\ flush[f].base \in Contents /\ flush[f].next \in Contents
  BY <1>t DEF FlushCommits, FlushType
<1>2. failures' \in 0..MaxFailures
  BY Bounds DEF FlushCommits, Fail, IInv, Types, HostType
<1>3. WorldType' /\ LoadType' /\ HostType' /\ GateType'
  BY <1>2 DEF FlushCommits, host, IInv, Types, WorldType, LoadType, HostType, GateType
<1>4. \/ /\ disk' = [disk EXCEPT !.recs = Written(flush[f].base, flush[f].next)]
         /\ p' = [p EXCEPT !.base = flush[f].next, !.json = flush[f].next]
         /\ flush' = [flush EXCEPT ![f].at = IF f = "user" THEN "cut" ELSE "ok"]
      \/ /\ flush' = [flush EXCEPT ![f] = [NoFlush EXCEPT !.at = IF f = "user" THEN "idle" ELSE "failed"]]
         /\ UNCHANGED <<disk, p>>
  BY DEF FlushCommits
<1>5. CASE /\ disk' = [disk EXCEPT !.recs = Written(flush[f].base, flush[f].next)]
           /\ p' = [p EXCEPT !.base = flush[f].next, !.json = flush[f].next]
           /\ flush' = [flush EXCEPT ![f].at = IF f = "user" THEN "cut" ELSE "ok"]
  <2>1. Written(flush[f].base, flush[f].next) \in Contents
    BY <1>t, <1>1, WrittenFits DEF Some
  <2>2. DiskType' /\ disk'.listed = disk.listed
    BY <1>t, <1>5, <2>1 DEF DiskType, Disks
  <2>3. FieldType' /\ Alike(p, p')
    BY <1>t, <1>1, <1>5 DEF FieldType, Fields, Some, Alike
  <2>4. FlushType'
    BY <1>t, <1>1, <1>5 DEF FlushType, Flushing
  <2> QED
    BY <1>3, <2>2, <2>3, <2>4, Elsewhere DEF FlushCommits, host
<1>6. CASE /\ flush' = [flush EXCEPT ![f] = [NoFlush EXCEPT !.at = IF f = "user" THEN "idle" ELSE "failed"]]
           /\ UNCHANGED <<disk, p>>
  <2> DEFINE x == [NoFlush EXCEPT !.at = IF f = "user" THEN "idle" ELSE "failed"]
  <2>1. x \in Flushing /\ x.at # "due"
    BY NoFlushFits
  <2> HIDE DEF x
  <2>2. FlushType'
    BY <1>t, <1>6, <2>1, FlushSet DEF x
  <2>3. FieldType' /\ DiskType' /\ Alike(p, p')
    BY <1>t, <1>6 DEF FieldType, DiskType, Alike
  <2> QED
    BY <1>3, <1>6, <2>2, <2>3, Elsewhere DEF FlushCommits, host
<1> QED
  BY <1>4, <1>5, <1>6

\* A timeline of which a part is removed.
LEMMA CutFits ==
  ASSUME NEW q \in Contents, NEW S
  PROVE  [r \in Records |-> IF r \in S THEN 0 ELSE q[r]] \in Contents
BY NumbersOfNothing DEF Contents

LEMMA TruncateKeeps ==
  ASSUME IInv, TruncateCommits
  PROVE  IInv'
<1>t. FlushType /\ FieldType /\ DiskType
  BY DEF IInv, Types
<1>1. failures' \in 0..MaxFailures
  BY Bounds DEF TruncateCommits, Fail, IInv, Types, HostType
<1>2. WorldType' /\ LoadType' /\ HostType' /\ GateType' /\ FieldType' /\ Alike(p, p')
  BY <1>1 DEF TruncateCommits, IInv, Types, WorldType, LoadType, HostType, GateType, FieldType, Alike
<1>3. DiskType' /\ disk'.listed = disk.listed
  <2> DEFINE n == [r \in Records |-> IF r \in From(flush["user"].cut) THEN 0 ELSE disk.recs[r]]
  <2>1. n \in Contents
    BY <1>t, CutFits DEF DiskType, Disks
  <2>2. disk' \in {disk, [disk EXCEPT !.recs = n]}
    BY DEF TruncateCommits
  <2> HIDE DEF n
  <2> QED
    BY <1>t, <2>1, <2>2 DEF DiskType, Disks
<1>4. FlushType'
  <2>1. CASE flush' = [flush EXCEPT !["user"].at = "removed"]
    BY <1>t, <2>1 DEF FlushType, Flushing, Flushers
  <2>2. CASE flush' = [flush EXCEPT !["user"] = NoFlush]
    BY <1>t, <2>2, NoFlushFits, FlushSet DEF Flushers
  <2> QED
    BY <2>1, <2>2 DEF TruncateCommits
<1> QED
  BY <1>2, <1>3, <1>4, Elsewhere DEF TruncateCommits

-----------------------------------------------------------------------------
(* Changes of the world, ticks, panels *)

LEMMA EditKeeps ==
  ASSUME IInv, NEW r \in Records, Edit(r)
  PROVE  IInv'
<1>t. FieldType /\ WorldType
  BY DEF IInv, Types
<1>1. ops' \in 0..MaxOps /\ ops + 2 \in 0..(MaxOps + 1)
  BY Bounds DEF Edit, Acted, IInv, Types, HostType
<1>2. FieldType' /\ Alike(p, p')
  BY <1>t, QueuedAlike DEF Edit, FieldType
<1>3. WorldType' /\ world'.alive = world.alive
  BY <1>t, <1>1 DEF Edit, WorldType, Worlds, Contents
<1>4. DiskType' /\ FlushType' /\ LoadType' /\ HostType' /\ GateType'
  BY <1>1 DEF Edit, host, IInv, Types, DiskType, FlushType, LoadType, HostType, GateType
<1> QED
  BY <1>2, <1>3, <1>4, Elsewhere DEF Edit, host

LEMMA TickKeeps ==
  ASSUME IInv, Tick
  PROVE  IInv'
<1>t. FieldType /\ WorldType /\ FlushType
  BY DEF IInv, Types
<1>1. FieldType' /\ Alike(p, p')
  BY <1>t, QueuedAlike DEF Tick, FieldType
<1>2. WorldType' /\ world'.alive = world.alive
  <2> DEFINE n == [r \in Records |-> IF r \in From(flush["user"].cut) THEN 0 ELSE world.recs[r]]
  <2>1. n \in Contents
    BY <1>t, CutFits DEF WorldType, Worlds
  <2>2. world' \in {world, [world EXCEPT !.recs = n]}
    BY DEF Tick
  <2> HIDE DEF n
  <2> QED
    BY <1>t, <2>1, <2>2 DEF WorldType, Worlds
<1>3. FlushType'
  <2>1. CASE flush' = [flush EXCEPT !["user"] = NoFlush]
    BY <1>t, <2>1, NoFlushFits, FlushSet DEF Flushers
  <2>2. CASE flush' = flush
    BY <1>t, <2>2 DEF FlushType
  <2> QED
    BY <2>1, <2>2 DEF Tick
<1>4. DiskType' /\ LoadType' /\ HostType' /\ GateType'
  BY DEF Tick, bounds, IInv, Types, DiskType, LoadType, HostType, GateType
<1> QED
  BY <1>1, <1>2, <1>3, <1>4, Elsewhere DEF Tick

LEMMA OpenKeeps ==
  ASSUME IInv, Open
  PROVE  IInv'
<1>1. FieldType' /\ Alike(p, p')
  BY DEF Open, IInv, Types, FieldType, Alike
<1>2. WorldType' /\ world'.alive = world.alive
  BY DEF Open, IInv, Types, WorldType, Worlds
<1>3. DiskType' /\ FlushType' /\ LoadType' /\ HostType' /\ GateType'
  BY DEF Open, bounds, IInv, Types, DiskType, FlushType, LoadType, HostType, GateType
<1> QED
  BY <1>1, <1>2, <1>3, Elsewhere DEF Open

LEMMA EvictEndsKeeps ==
  ASSUME IInv, EvictEnds
  PROVE  IInv'
<1> USE DEF IInv, Types
<1>1. WorldType' /\ world'.alive = world.alive
  <2>1. [world EXCEPT !.recs = Nothing, !.loaded = {}] \in Worlds
    BY NumbersOfNothing DEF WorldType, Worlds
  <2> QED
    BY <2>1 DEF EvictEnds, WorldType, Worlds
<1>2. CallType' /\ calls'["delete"] = calls["delete"]
  BY DEF EvictEnds, CallType, CallStates, Callers
<1>3. DiskType' /\ FieldType' /\ SaveType' /\ FlushType' /\ LoadType' /\ GateType' /\ HostType'
  BY DEF EvictEnds, bounds, DiskType, FieldType, SaveType, FlushType, LoadType, GateType, HostType
<1>4. GateInv' /\ DeletedInv'
  BY <1>1, <1>2, GateUntouched, ListUntouched DEF EvictEnds
<1> QED
  BY <1>1, <1>2, <1>3, <1>4

-----------------------------------------------------------------------------
(* Loading *)

LEMMA LoadSet ==
  ASSUME LoadType, NEW k \in LoadKinds, NEW x \in Reading, loads' = [loads EXCEPT ![k] = x],
         x.at # "none" => x.page \in Contents
  PROVE  LoadType'
BY DEF LoadType

LEMMA ReadFits ==
  ASSUME LoadType, DiskType, NEW k \in LoadKinds, Load(k) \/ loads' = [loads EXCEPT ![k] = NoLoad] \/ loads' = loads
  PROVE  LoadType'
<1>1. CASE Load(k)
  <2> DEFINE x == [at |-> "read", page |-> disk.recs, todo |-> {}]
  <2>1. x \in Reading /\ x.page \in Contents /\ loads' = [loads EXCEPT ![k] = x]
    BY <1>1 DEF Load, DiskType, Disks, Reading, Some
  <2> HIDE DEF x
  <2> QED
    BY <2>1, LoadSet
<1>2. CASE loads' = [loads EXCEPT ![k] = NoLoad]
  <2>1. NoLoad \in Reading /\ NoLoad.at = "none"
    BY DEF NoLoad, Reading, Some
  <2> QED
    BY <1>2, <2>1, LoadSet
<1>3. CASE loads' = loads
  BY <1>3 DEF LoadType
<1> QED
  BY <1>1, <1>2, <1>3

LEMMA RememberedFits ==
  ASSUME NEW q \in Fields, NEW page \in Contents
  PROVE  /\ Remembered(q, page) \in Fields /\ Alike(q, Remembered(q, page))
         /\ Extended(q, page) \in Fields /\ Alike(q, Extended(q, page))
<1>1. ASSUME NEW n \in Contents PROVE Remembered(q, n) \in Fields /\ Alike(q, Remembered(q, n))
  BY DEF Remembered, Fields, Some, Alike
<1>2. [r \in Records |-> IF q.base[r] # 0 THEN q.base[r] ELSE page[r]] \in Contents
  BY DEF Fields, Contents
<1> QED
  BY <1>1, <1>2 DEF Extended

LEMMA LoadStartsKeeps ==
  ASSUME IInv, NEW k \in LoadKinds, LoadStarts(k)
  PROVE  IInv'
<1>t. LoadType /\ DiskType /\ WorldType
  BY DEF IInv, Types
<1>1. ops' \in 0..MaxOps
  BY Bounds DEF LoadStarts, Acted, IInv, Types, HostType
<1>2. LoadType'
  BY <1>t, ReadFits DEF LoadStarts
<1>3. WorldType' /\ world'.alive = world.alive
  <2>1. world' \in {world, [world EXCEPT !.loaded = @ \cup {"tail"}]}
    BY DEF LoadStarts
  <2> QED
    BY <1>t, <2>1 DEF WorldType, Worlds
<1>4. DiskType' /\ FieldType' /\ Alike(p, p') /\ FlushType' /\ HostType' /\ GateType'
  BY <1>1 DEF LoadStarts, host, IInv, Types, DiskType, FieldType, Alike, FlushType, HostType, GateType
<1> QED
  BY <1>2, <1>3, <1>4, Elsewhere DEF LoadStarts, host

LEMMA LoadReadsKeeps ==
  ASSUME IInv, NEW k \in LoadKinds, LoadReads(k)
  PROVE  IInv'
<1>t. LoadType /\ DiskType /\ FieldType
  BY DEF IInv, Types
<1>1. loads[k] \in Reading /\ loads[k].page \in Contents
  BY <1>t DEF LoadReads, LoadType
<1>2. FieldType' /\ Alike(p, p')
  <2>1. p' \in {p, Remembered(p, loads[k].page)}
    BY DEF LoadReads
  <2> QED
    BY <1>t, <1>1, <2>1, RememberedFits DEF FieldType, Alike
<1>3. LoadType'
  <2>1. CASE deleted
    BY <1>t, <2>1, ReadFits DEF LoadReads
  <2>2. CASE ~deleted
    <3> DEFINE todo == {r \in Records : loads[k].page[r] # 0 /\ world.recs[r] = 0}
    <3>1. todo \subseteq Records /\ loads' = [loads EXCEPT ![k].at = "fill", ![k].todo = todo]
      BY <2>2 DEF LoadReads
    <3> HIDE DEF todo
    <3> QED
      BY <1>t, <1>1, <3>1 DEF LoadType, Reading
  <2> QED
    BY <2>1, <2>2
<1>4. WorldType' /\ DiskType' /\ FlushType' /\ HostType' /\ GateType'
  BY DEF LoadReads, host, bounds, IInv, Types, WorldType, DiskType, FlushType, HostType, GateType
<1> QED
  BY <1>2, <1>3, <1>4, Elsewhere DEF LoadReads, host

LEMMA HydratesKeeps ==
  ASSUME IInv, NEW k \in LoadKinds, Hydrates(k)
  PROVE  IInv'
<1>t. LoadType /\ WorldType
  BY DEF IInv, Types
<1>1. loads[k] \in Reading /\ loads[k].page \in Contents
  BY <1>t DEF Hydrates, LoadType
<1>2. PICK r \in loads[k].todo :
        /\ loads' = [loads EXCEPT ![k].todo = @ \ {r}]
        /\ world' = [world EXCEPT !.recs[r] = IF world.alive THEN loads[k].page[r] ELSE @,
                                  !.twice = @ \/ world.recs[r] # 0]
  BY DEF Hydrates
<1>3. r \in Records
  BY <1>1 DEF Reading
<1>4. LoadType'
  BY <1>t, <1>1, <1>2 DEF LoadType, Reading
<1>5. WorldType' /\ world'.alive = world.alive
  <2> DEFINE v == IF world.alive THEN loads[k].page[r] ELSE world.recs[r]
             n == [world.recs EXCEPT ![r] = v]
             b == world.twice \/ world.recs[r] # 0
  <2>1. v \in 0..(MaxOps + 1)
    BY <1>t, <1>1, <1>3 DEF WorldType, Worlds, Contents
  <2>2. world' = [world EXCEPT !.recs = n, !.twice = b]
    BY <1>2
  <2>3. n \in Contents
    <3> HIDE DEF v
    <3> QED
      BY <1>t, <1>3, <2>1 DEF WorldType, Worlds, Contents
  <2>4. b \in BOOLEAN
    OBVIOUS
  <2> HIDE DEF n, b
  <2> QED
    BY <1>t, <2>2, <2>3, <2>4 DEF WorldType, Worlds
<1>6. DiskType' /\ FieldType' /\ Alike(p, p') /\ FlushType' /\ HostType' /\ GateType'
  BY DEF Hydrates, host, bounds, IInv, Types, DiskType, FieldType, Alike, FlushType, HostType, GateType
<1> QED
  BY <1>4, <1>5, <1>6, Elsewhere DEF Hydrates, host

LEMMA LoadEndsKeeps ==
  ASSUME IInv, NEW k \in LoadKinds, LoadEnds(k)
  PROVE  IInv'
<1>t. LoadType /\ DiskType /\ FieldType /\ WorldType
  BY DEF IInv, Types
<1>1. loads[k].page \in Contents
  BY <1>t DEF LoadEnds, LoadType
<1>2. FieldType' /\ Alike(p, p')
  <2> DEFINE page == loads[k].page
  <2>1. p' \in {p, Remembered(p, page), Extended(p, page)}
    BY DEF LoadEnds
  <2>2. /\ Remembered(p, page) \in Fields /\ Alike(p, Remembered(p, page))
        /\ Extended(p, page) \in Fields /\ Alike(p, Extended(p, page))
    BY <1>t, <1>1, RememberedFits DEF FieldType
  <2>3. p \in Fields /\ Alike(p, p)
    BY <1>t DEF FieldType, Alike
  <2> HIDE DEF page
  <2>4. p' \in Fields /\ Alike(p, p')
    BY <2>1, <2>2, <2>3
  <2> QED
    BY <2>4 DEF FieldType
<1>3. LoadType'
  BY <1>t, ReadFits DEF LoadEnds
<1>4. WorldType' /\ world'.alive = world.alive
  <2>1. Marks(k) \subseteq {"tail", "detail"}
    BY DEF Marks, LoadKinds
  <2>2. world' \in {world, [world EXCEPT !.loaded = @ \cup Marks(k)]}
    BY DEF LoadEnds
  <2> QED
    BY <1>t, <2>1, <2>2 DEF WorldType, Worlds
<1>5. DiskType' /\ FlushType' /\ HostType' /\ GateType'
  BY DEF LoadEnds, bounds, IInv, Types, DiskType, FlushType, HostType, GateType
<1> QED
  BY <1>2, <1>3, <1>4, <1>5, Elsewhere DEF LoadEnds

-----------------------------------------------------------------------------
(* The gate *)

LEMMA GateAsksKeeps ==
  ASSUME IInv, NEW u \in GateUsers, GateAsks(u)
  PROVE  IInv'
<1>1. ops' \in 0..MaxOps
  BY Bounds DEF GateAsks, Acted, IInv, Types, HostType
<1>2. GateType' /\ gates'.at = gates.at /\ gates'.idle = gates.idle /\ gates'.queue # <<>>
  <2>1. Append(gates.queue, u) \in Seq(GateUsers) /\ Append(gates.queue, u) # <<>>
    BY DEF IInv, Types, GateType, GateStates
  <2> QED
    BY <2>1 DEF GateAsks, IInv, Types, GateType, GateStates
<1>3. FieldType' /\ Alike(p, p') /\ WorldType' /\ DiskType' /\ FlushType' /\ LoadType' /\ HostType'
  BY <1>1 DEF GateAsks, host, IInv, Types, FieldType, Alike, WorldType, DiskType, FlushType, LoadType, HostType
<1> QED
  BY <1>2, <1>3, Elsewhere DEF GateAsks, host

LEMMA GateClosesKeeps ==
  ASSUME IInv, GateCloses
  PROVE  IInv'
<1> USE DEF IInv, Types
<1> DEFINE h == Head(gates.queue)
           q == [p EXCEPT !.gate = h, !.timer = FALSE]
           marked == MarkPending(q)
           held == [marked EXCEPT !.afterGate = TRUE]
           Closed(x) == x \in Fields /\ x.busy = p.busy /\ x.list = p.list /\ x.gate = h
<1>1. h \in GateUsers /\ h # "none"
  BY DEF GateCloses, GateType, GateStates, GateUsers
<1> HIDE DEF h
<1>2. Closed(q)
  BY <1>1 DEF FieldType, Fields
<1> HIDE DEF q
<1>3. Closed(marked)
  BY <1>2, Scheduled DEF Alike
<1> HIDE DEF marked
<1>4. Closed(held)
  BY <1>3 DEF Fields
<1>5. p' \in {q, held}
  BY DEF GateCloses, q, held, marked, h
<1> HIDE DEF held
<1>6. Closed(p') /\ FieldType'
  BY <1>2, <1>4, <1>5 DEF FieldType
<1>7. gates' = [gates EXCEPT !.at = "enter", !.idle = ~p.busy] /\ gates.at = "none" /\ gates.queue # <<>>
  BY DEF GateCloses, GateInv
<1>8. (~p.busy) \in BOOLEAN
  OBVIOUS
<1>9. GateType' /\ gates'.at = "enter" /\ gates'.queue = gates.queue /\ gates'.idle = ~p.busy
  BY <1>7, <1>8 DEF GateType, GateStates
<1>10. SaveType' /\ CallType'
  BY <1>6 DEF GateCloses, SaveType, CallType
<1>11. GateInv'
  BY <1>1, <1>6, <1>7, <1>9 DEF GateCloses, GateInv
<1>12. DeletedInv'
  BY <1>6, <1>7, <1>9 DEF GateCloses, host, DeletedInv
<1>13. WorldType' /\ DiskType' /\ FlushType' /\ LoadType' /\ HostType'
  BY DEF GateCloses, host, bounds, WorldType, DiskType, FlushType, LoadType, HostType
<1> QED
  BY <1>6, <1>9, <1>10, <1>11, <1>12, <1>13

LEMMA StageFits ==
  ASSUME IInv, NEW stage \in {"saving", "flushing", "loading", "erasing", "erased", "cleaning", "end"}, At(stage)
  PROVE  GateType' /\ gates'.at = stage /\ gates'.queue = gates.queue
BY DEF IInv, Types, At, GateType, GateStates

\* The two saves of a deletion.
LEMMA DeletionSaves ==
  ASSUME IInv, p.gate = "delete", ~p.busy, Persist("delete"), NEW stage \in {"saving", "cleaning"}, At(stage),
         gates.at # "erasing", UNCHANGED <<world, disk, flush, loads, deleted, evictable, tick, down, ops, failures>>
  PROVE  IInv'
<1> USE DEF IInv, Types
<1>1. PersistFits("delete")
  BY PersistStep DEF Callers
<1>2. FieldType' /\ SaveType' /\ CallType' /\ p'.gate = "delete"
  BY <1>1 DEF PersistFits
<1>3. GateType' /\ gates'.at = stage /\ gates'.queue = gates.queue
  BY StageFits
<1>4. \/ save'.by # "delete" /\ ~p'.busy /\ calls'["delete"] = "done"
      \/ save'.by = "delete" /\ p'.busy /\ calls'["delete"] = "save"
  BY <1>1 DEF PersistFits, SaveType, NoSave
<1>5. GateInv'
  BY <1>2, <1>3, <1>4 DEF GateInv
<1>6. DeletedInv'
  BY <1>1, <1>3 DEF PersistFits, DeletedInv, Listing
<1>7. WorldType' /\ DiskType' /\ FlushType' /\ LoadType' /\ HostType'
  BY DEF WorldType, DiskType, FlushType, LoadType, HostType
<1> QED
  BY <1>2, <1>3, <1>5, <1>6, <1>7

\* A step from one stage to a later one, while no save is in flight.
LEMMA StageKeeps ==
  ASSUME IInv, gates.at \notin {"none", "enter", "erasing"} \/ (gates.at = "enter" /\ gates.idle), ~p.busy,
         NEW stage \in {"flushing", "loading", "end"}, At(stage),
         FieldType', Alike(p, p'), WorldType', DiskType', FlushType', LoadType', HostType',
         disk'.listed = disk.listed, world'.alive = world.alive, UNCHANGED <<save, calls, deleted>>
  PROVE  IInv'
<1> USE DEF IInv, Types
<1>1. GateType' /\ gates'.at = stage /\ gates'.queue = gates.queue
  BY StageFits
<1>2. SaveType' /\ CallType'
  BY DEF SaveType, CallType, Alike
<1>3. GateInv'
  BY <1>1 DEF GateInv, Alike
<1>4. DeletedInv'
  BY <1>1 DEF DeletedInv, Alike
<1> QED
  BY <1>1, <1>2, <1>3, <1>4

LEMMA GateEntersKeeps ==
  ASSUME IInv, GateEnters
  PROVE  IInv'
<1>1. gates.at = "enter" /\ gates.idle /\ ~p.busy
  BY DEF GateEnters, Enters, IInv, GateInv
<1>2. CASE p.gate = "delete"
  BY <1>1, <1>2, DeletionSaves DEF GateEnters, host, bounds
<1>3. CASE p.gate # "delete"
  <2>1. Flush("gate", 0) /\ At("flushing") /\ UNCHANGED <<save, calls>>
    BY <1>3 DEF GateEnters
  <2>2. FlushType' /\ FieldType' /\ Alike(p, p')
    BY <2>1, FlushFits DEF IInv, Flushers
  <2>3. WorldType' /\ DiskType' /\ LoadType' /\ HostType'
    BY DEF GateEnters, host, bounds, IInv, Types, WorldType, DiskType, LoadType, HostType
  <2> QED
    BY <1>1, <2>1, <2>2, <2>3, StageKeeps DEF GateEnters, host
<1> QED
  BY <1>2, <1>3

LEMMA GateReadingKeeps ==
  ASSUME IInv, GateReads \/ GateHasRead
  PROVE  IInv'
<1>t. LoadType /\ DiskType /\ FlushType
  BY DEF IInv, Types
<1>1. ~p.busy /\ gates.at \in {"flushing", "loading"}
  BY DEF GateReads, GateHasRead, IInv, GateInv
<1>2. PICK stage \in {"loading", "end"} : At(stage)
  BY DEF GateReads, GateHasRead
<1>3. LoadType'
  <2>1. \E k \in LoadKinds : Load(k) \/ loads' = loads
    BY DEF GateReads, GateHasRead, LoadKinds
  <2> QED
    BY <1>t, <2>1, ReadFits
<1>4. FlushType'
  <2>1. CASE flush' = [flush EXCEPT !["gate"] = NoFlush]
    BY <1>t, <2>1, NoFlushFits, FlushSet DEF Flushers
  <2>2. CASE flush' = flush
    BY <1>t, <2>2 DEF FlushType
  <2> QED
    BY <2>1, <2>2 DEF GateReads, GateHasRead
<1>5. FieldType' /\ Alike(p, p') /\ WorldType' /\ DiskType' /\ HostType'
  BY DEF GateReads, GateHasRead, host, bounds, IInv, Types, FieldType, Alike, WorldType, DiskType, HostType
<1>6. UNCHANGED <<world, disk, save, calls, deleted>>
  BY DEF GateReads, GateHasRead, host
<1> QED
  BY <1>1, <1>2, <1>3, <1>4, <1>5, <1>6, StageKeeps

LEMMA DeleteMarksKeeps ==
  ASSUME IInv, DeleteMarks
  PROVE  IInv'
<1> USE DEF IInv, Types
<1>1. gates.at = "saving" /\ p.gate = "delete" /\ ~p.busy /\ gates.queue # <<>>
  BY DEF DeleteMarks, GateInv
<1>2. PICK stage \in {"erasing", "end"} : At(stage) /\ (deleted' => stage = "erasing")
  BY DEF DeleteMarks
<1>3. GateType' /\ gates'.at = stage /\ gates'.queue = gates.queue
  BY <1>2, StageFits
<1>4. GateInv'
  BY <1>1, <1>3 DEF DeleteMarks, GateInv
<1>5. DeletedInv'
  BY <1>2, <1>3 DEF DeletedInv
<1>6. deleted' \in BOOLEAN
  BY DEF DeleteMarks
<1>7. HostType'
  BY <1>6 DEF DeleteMarks, bounds, HostType
<1>8. WorldType' /\ DiskType' /\ FieldType' /\ SaveType' /\ FlushType' /\ LoadType' /\ CallType'
  BY DEF DeleteMarks, WorldType, DiskType, FieldType, SaveType, FlushType, LoadType, CallType
<1> QED
  BY <1>3, <1>4, <1>5, <1>7, <1>8

LEMMA DiscardedFits ==
  ASSUME FieldType
  PROVE  /\ Discarded \in Fields /\ Discarded.busy = p.busy /\ Discarded.gate = p.gate
         /\ Discarded.list \in {"none", "no"}
<1> DEFINE l == IF p.list = "none" THEN p.list ELSE "no"
           x == <<Nothing, FALSE>>
<1>1. l \in {"none", "no"} /\ x \in Contents \X BOOLEAN /\ None \in Some /\ Nothing \in Contents
  BY NumbersOfNothing DEF Some
<1>2. Discarded = [p EXCEPT !.render = None, !.json = None, !.base = Nothing, !.listBase = "no",
                            !.list = l, !.projected = x]
  BY DEF Discarded, FieldType, Fields
<1> HIDE DEF l, x
<1> QED
  BY <1>1, <1>2 DEF FieldType, Fields, Listings

LEMMA DeleteErasesKeeps ==
  ASSUME IInv, DeleteErases
  PROVE  IInv'
<1> USE DEF IInv, Types
<1>1. gates.at = "erasing" /\ p.gate = "delete" /\ ~p.busy /\ gates.queue # <<>> /\ save = NoSave
  BY DEF DeleteErases, GateInv, SaveType
<1>2. FlushType' /\ LoadType' /\ CallType'
  BY DEF DeleteErases, FlushType, LoadType, CallType
<1>3. CASE /\ disk' = [disk EXCEPT !.listed = "no"]
           /\ world' = WithoutConversation
           /\ p' = Discarded
           /\ evictable' = FALSE
           /\ At("erased")
           /\ UNCHANGED <<deleted, failures>>
  <2>1. FieldType' /\ p'.busy = p.busy /\ p'.gate = p.gate /\ p'.list \in {"none", "no"}
    BY <1>3, DiscardedFits DEF FieldType
  <2>2. GateType' /\ gates'.at = "erased" /\ gates'.queue = gates.queue
    BY <1>3, StageFits
  <2>3. WorldType' /\ ~world'.alive
    BY <1>3, NumbersOfNothing DEF WithoutConversation, WorldType, Worlds
  <2>4. DiskType' /\ disk'.listed = "no"
    BY <1>3 DEF DiskType, Disks, Listings
  <2>5. SaveType' /\ HostType'
    BY <1>3, <2>1 DEF DeleteErases, SaveType, HostType
  <2>6. GateInv'
    BY <1>1, <2>1, <2>2 DEF DeleteErases, GateInv, NoSave
  <2>7. DeletedInv'
    BY <1>1, <2>1, <2>3, <2>4 DEF DeleteErases, DeletedInv, NoSave
  <2> QED
    BY <1>2, <2>1, <2>2, <2>3, <2>4, <2>5, <2>6, <2>7
<1>4. CASE /\ Fail
           /\ deleted' = FALSE
           /\ At("end")
           /\ UNCHANGED <<disk, world, p, evictable>>
  <2>1. GateType' /\ gates'.at = "end" /\ gates'.queue = gates.queue
    BY <1>4, StageFits
  <2>2. failures' \in 0..MaxFailures
    BY <1>4, Bounds DEF Fail, HostType
  <2>3. WorldType' /\ DiskType' /\ FieldType' /\ SaveType' /\ HostType'
    BY <1>4, <2>2 DEF DeleteErases, WorldType, DiskType, FieldType, SaveType, HostType
  <2>4. GateInv' /\ DeletedInv'
    BY <1>1, <1>4, <2>1 DEF DeleteErases, GateInv, DeletedInv
  <2> QED
    BY <1>2, <2>1, <2>3, <2>4
<1> QED
  BY <1>3, <1>4 DEF DeleteErases

LEMMA DeleteSavesKeeps ==
  ASSUME IInv, DeleteSaves
  PROVE  IInv'
<1>1. gates.at = "erased" /\ p.gate = "delete" /\ ~p.busy
  BY DEF DeleteSaves, IInv, GateInv
<1> QED
  BY <1>1, DeletionSaves DEF DeleteSaves, host, bounds

LEMMA DeleteCleansKeeps ==
  ASSUME IInv, DeleteCleans
  PROVE  IInv'
<1>t. FieldType /\ DiskType
  BY DEF IInv, Types
<1>1. gates.at = "cleaning" /\ ~p.busy
  BY DEF DeleteCleans, IInv, GateInv
<1>2. FieldType' /\ Alike(p, p')
  BY <1>t, QueuedAlike DEF DeleteCleans, FieldType, Alike
<1>3. DiskType' /\ disk'.listed = disk.listed
  BY <1>t, NumbersOfNothing DEF DeleteCleans, DiskType, Disks
<1>4. failures' \in 0..MaxFailures
  BY Bounds DEF DeleteCleans, Fail, IInv, Types, HostType
<1>5. WorldType' /\ FlushType' /\ LoadType' /\ HostType'
  BY <1>4 DEF DeleteCleans, IInv, Types, WorldType, FlushType, LoadType, HostType
<1> QED
  BY <1>1, <1>2, <1>3, <1>5, StageKeeps DEF DeleteCleans

LEMMA GateOpensKeeps ==
  ASSUME IInv, GateOpens
  PROVE  IInv'
<1> USE DEF IInv, Types
<1> DEFINE q == [p EXCEPT !.gate = "none", !.afterGate = FALSE]
           pending == SchedulePersistCheck(MarkPending(q))
           Opened(x) == x \in Fields /\ x.busy = p.busy /\ x.list = p.list /\ x.gate = "none"
<1>1. gates.at = "end" /\ ~p.busy /\ save = NoSave /\ gates.queue # <<>>
  BY DEF GateOpens, GateInv, SaveType
<1>2. Opened(q)
  BY DEF FieldType, Fields
<1> HIDE DEF q
<1>3. Opened(pending)
  <2>1. Opened(MarkPending(q))
    BY <1>2, Scheduled DEF Alike
  <2> QED
    BY <2>1, Scheduled DEF Alike
<1>4. p' \in {q, pending}
  BY DEF GateOpens, q
<1> HIDE DEF pending
<1>5. Opened(p') /\ FieldType'
  BY <1>2, <1>3, <1>4 DEF FieldType
<1>6. GateType' /\ gates'.at = "none"
  <2>1. Tail(gates.queue) \in Seq(GateUsers)
    BY <1>1 DEF GateType, GateStates
  <2> QED
    BY <2>1 DEF GateOpens, GateType, GateStates
<1>7. CallType' /\ calls'["delete"] = "idle"
  <2>1. Woken("gate") \in CallStates /\ "delete" \in Callers
    BY DEF Woken, CallType, CallStates, Callers
  <2> HIDE DEF IInv, Types
  <2> QED
    BY <2>1 DEF GateOpens, CallType, CallStates
<1>8. FlushType'
  <2>1. CASE flush' = [flush EXCEPT !["user"].at = "again"]
    BY <2>1 DEF FlushType, Flushing, Flushers
  <2>2. CASE flush' = flush
    BY <2>2 DEF FlushType
  <2> QED
    BY <2>1, <2>2 DEF GateOpens
<1>9. SaveType'
  BY <1>5 DEF GateOpens, SaveType
<1>10. GateInv'
  BY <1>1, <1>5, <1>6, <1>7 DEF GateOpens, GateInv, NoSave
<1>11. DeletedInv'
  BY <1>1, <1>5, <1>6 DEF GateOpens, host, DeletedInv
<1>12. WorldType' /\ DiskType' /\ LoadType' /\ HostType'
  BY DEF GateOpens, host, bounds, WorldType, DiskType, LoadType, HostType
<1> QED
  BY <1>5, <1>6, <1>7, <1>8, <1>9, <1>10, <1>11, <1>12

-----------------------------------------------------------------------------
(* The invariant *)

LEMMA Starts == Init => IInv
<1> SUFFICES ASSUME Init PROVE IInv
  OBVIOUS
<1>1. PICK start \in {"cold", "warm", "new"}, open \in BOOLEAN :
        LET recs == IF start = "new" THEN Nothing ELSE [r \in Records |-> 1]
            here == IF start = "warm" THEN recs ELSE Nothing
            list == IF start = "new" THEN "no" ELSE "yes"
        IN /\ world = [recs |-> here, alive |-> TRUE, open |-> open, twice |-> FALSE,
                       loaded |-> IF start = "warm" THEN {"tail", "detail"} ELSE {}]
           /\ disk = [recs |-> recs, listed |-> list]
           /\ p = [base |-> here, json |-> IF start = "warm" THEN recs ELSE None,
                   projected |-> <<here, start # "new">>, listBase |-> list,
                   render |-> None, list |-> "none", timer |-> FALSE, retry |-> FALSE, attempts |-> 0,
                   busy |-> FALSE, afterSave |-> FALSE, afterGate |-> FALSE, gate |-> "none",
                   status |-> "saved"]
  BY DEF Init
<1> DEFINE recs == IF start = "new" THEN Nothing ELSE [r \in Records |-> 1]
           here == IF start = "warm" THEN recs ELSE Nothing
           list == IF start = "new" THEN "no" ELSE "yes"
           loaded == IF start = "warm" THEN {"tail", "detail"} ELSE {}
           json == IF start = "warm" THEN recs ELSE None
           projected == <<here, start # "new">>
<1>2. recs \in Contents /\ here \in Contents
  BY NumbersOfNothing DEF Contents
<1>3. list \in Listings /\ loaded \subseteq {"tail", "detail"} /\ json \in Some /\ projected \in Contents \X BOOLEAN
  BY <1>2 DEF Listings, Some
<1>4. /\ world = [recs |-> here, alive |-> TRUE, open |-> open, twice |-> FALSE, loaded |-> loaded]
      /\ disk = [recs |-> recs, listed |-> list]
      /\ p = [base |-> here, json |-> json, projected |-> projected, listBase |-> list,
              render |-> None, list |-> "none", timer |-> FALSE, retry |-> FALSE, attempts |-> 0,
              busy |-> FALSE, afterSave |-> FALSE, afterGate |-> FALSE, gate |-> "none",
              status |-> "saved"]
  BY <1>1
<1> HIDE DEF recs, here, list, loaded, json, projected
<1>5. 0 \in 0..Retries /\ 0 \in 0..MaxOps /\ 0 \in 0..MaxFailures /\ Up \in 0..Up
  BY Bounds DEF Up
<1>6. WorldType /\ DiskType
  BY <1>2, <1>3, <1>4 DEF WorldType, Worlds, DiskType, Disks
<1>7. FieldType
  BY <1>2, <1>3, <1>4, <1>5 DEF FieldType, Fields, Some
<1>8. SaveType
  BY <1>4 DEF Init, SaveType, NoSave
<1>9. FlushType
  BY NoFlushFits DEF Init, FlushType
<1>10. LoadType
  BY DEF Init, LoadType, NoLoad, Reading, Some
<1>11. GateType /\ CallType
  BY DEF Init, GateType, GateStates, CallType, CallStates
<1>12. HostType
  BY <1>5 DEF Init, HostType
<1>13. GateInv
  BY <1>4 DEF Init, GateInv, NoSave, Callers
<1>14. DeletedInv
  BY DEF Init, DeletedInv
<1> QED
  BY <1>6, <1>7, <1>8, <1>9, <1>10, <1>11, <1>12, <1>13, <1>14 DEF IInv, Types

LEMMA Stutters == IInv /\ UNCHANGED vars => IInv'
BY DEF vars, host, bounds, IInv, Types, WorldType, DiskType, FieldType, SaveType, FlushType, LoadType,
   GateType, CallType, HostType, GateInv, DeletedInv

LEMMA Inductive ==
  ASSUME IInv, [Next]_vars
  PROVE  IInv'
<1>1. CASE Continues
  BY <1>1, FlushAgainKeeps, AgainKeeps DEF Continues
<1>2. CASE Saves
  BY <1>2, TimersKeep, SaveCommitsKeeps, ListCommitsKeeps, SaveEndsKeeps, TruncateKeeps, FlushCommitsKeeps DEF Saves
<1>3. CASE Gates
  BY <1>3, GateClosesKeeps, GateEntersKeeps, GateReadingKeeps, GateOpensKeeps,
     DeleteMarksKeeps, DeleteErasesKeeps, DeleteSavesKeeps, DeleteCleansKeeps DEF Gates
<1>4. CASE Loading
  BY <1>4, LoadReadsKeeps, HydratesKeeps, LoadEndsKeeps DEF Loading
<1>5. CASE Tick \/ EvictEnds \/ ShutDownAgain
  BY <1>5, TickKeeps, EvictEndsKeeps, ShutDownKeeps
<1>6. CASE Requests
  BY <1>6, TimersKeep, PanelsKeep, ShutDownKeeps, UserRemovesKeeps, OpenKeeps, EditKeeps, LoadStartsKeeps,
     GateAsksKeeps DEF Requests
<1>7. CASE UNCHANGED vars
  BY <1>7, Stutters
<1> QED
  BY <1>1, <1>2, <1>3, <1>4, <1>5, <1>6, <1>7 DEF Next, Internal

LEMMA InvariantHolds == Spec => []IInv
<1>1. Init => IInv
  BY Starts
<1>2. IInv /\ [Next]_vars => IInv'
  BY Inductive
<1> QED
  BY <1>1, <1>2, PTL DEF Spec

\* Whatever fails and whoever asks: while the action of a gate runs, no save is in
\* flight but the deletion's own, and once the deletion of a conversation is
\* committed no save that was under way, due or to be retried lists it again.
THEOREM GatesAreSound == Spec => []GatesHold
<1>1. IInv => GatesHold
  BY Follows
<1> QED
  BY <1>1, InvariantHolds, PTL
-----------------------------------------------------------------------------
(* What is stored *)

\* The history is clean and the conversation exists.
Clean == flaws = {} /\ world.alive
Kept == Records \ gone

\* The version of a record that counts: that of the world, or, where the world has
\* not read it, that of the store.
Current(r) == IF world.recs[r] # 0 THEN world.recs[r] ELSE disk.recs[r]
IsStored(r) == disk.recs[r] = Current(r)

\* What is taken for known of a record is old, and if it is current it is stored.
Fits(x, r) == x[r] <= ops + 1 /\ (x[r] = Current(r) => IsStored(r))

\* What is to be written does not take back what is current.
WriteFits(b, n, r) == Fits(b, r) /\ n[r] <= ops + 1 /\ (b[r] = Current(r) => n[r] = Current(r))

WorldFit(r) == world.recs[r] <= ops + 1 /\ disk.recs[r] <= ops + 1
FieldFit(r) == /\ Fits(p.base, r)
               /\ p.json # None => Fits(p.json, r)
               /\ p.projected[1][r] <= ops + 1
SaveFit(r) == save.saved = "due" => WriteFits(save.base, save.render, r)
FlushFit(r) == \A f \in Flushers : flush[f].at = "due" => WriteFits(flush[f].base, flush[f].next, r)

\* A page read is as stored, that of a range as long as the gate is closed, the others
\* where the world has not the record, or is still to be given it.
LoadFit(r) ==
  \A k \in LoadKinds : loads[k].at # "none" =>
    /\ Fits(loads[k].page, r)
    /\ k = "range" \/ world.recs[r] = 0 \/ r \in loads[k].todo => loads[k].page[r] = disk.recs[r]
    /\ r \in loads[k].todo => loads[k].page[r] # 0 /\ (k # "range" => IsStored(r))

\* What the world lacks is still to be hydrated.
Missing(r) == world.recs[r] = 0 /\ disk.recs[r] # 0
Here == world.loaded # {} \/ world.recs # Nothing
MissingFit(r) ==
  Missing(r) =>
    /\ \A k \in {"tail", "detail"} : loads[k].at = "fill" => r \in loads[k].todo
    /\ loads["range"].todo # {} => r \in loads["range"].todo
    /\ Here => \E k \in LoadKinds : r \in loads[k].todo
    /\ world.loaded # {} => r \in loads["range"].todo

\* A change is stored, or the save in flight has it or has failed; if not, a save is due.
Failing == save.saved \in {"failed", "conflict"}
Carried(r) == save.saved = "due" /\ save.render[r] = Current(r)
Safe(r) == IsStored(r) \/ Carried(r) \/ Failing
Due == p.timer \/ (p.busy /\ p.afterSave) \/ (p.gate # "none" /\ p.afterGate)
SafeFit(r) == /\ world.loaded = {} => IsStored(r)
              /\ p.projected[1][r] = Current(r) => Safe(r)
              /\ Safe(r) \/ Due

\* What an eviction that is not interrupted has saved is what it will discard.
EvictFit(r) ==
  evictable /\ calls["evict"] \in {"save", "done"} =>
    \/ disk.recs[r] = world.recs[r]
    \/ /\ calls["evict"] = "save"
       /\ Failing \/ (save.saved = "due" /\ save.render[r] = world.recs[r])

RecordFit(r) == /\ WorldFit(r) /\ FieldFit(r) /\ SaveFit(r) /\ FlushFit(r) /\ LoadFit(r)
                /\ MissingFit(r) /\ SafeFit(r) /\ EvictFit(r)

\* A range is read in its gate; deletion has its own.
GateOrder == /\ loads["range"].at # "none" => gates.at = "loading" /\ p.gate = "range"
             /\ gates.at \in {"flushing", "loading"} => p.gate # "delete"
             /\ gates.at \notin {"erased", "cleaning"}
             /\ deleted => gates.at = "erasing"
             /\ p.gate # "none" => Queued(p.gate)
CallOrder == calls["evict"] = "save" <=> save.by = "evict"
CutOrder == flush["user"].at = "removed" => From(flush["user"].cut) \subseteq gone
LoadOrder == /\ \A k \in LoadKinds : loads[k].at # "fill" => loads[k].todo = {}
             /\ world.loaded # {} => "tail" \in world.loaded
EvictOrder ==
  evictable =>
    /\ ~world.open /\ NoLoads /\ ~Queued("context")
    /\ calls["evict"] \in {"gate", "wait", "again", "save", "done"} => world.loaded # {}
\* A flush that was under way when the gate closed is committed before that of the gate.
LaneOrder ==
  /\ lane \in Seq({"save"} \cup Flushers)
  /\ flush["gate"].at # "idle" => gates.at = "flushing"
  /\ \A i \in DOMAIN lane : lane[i] = "gate" =>
       flush["gate"].at = "due" /\ \A j \in DOMAIN lane : lane[j] = "gate" => i = j
  /\ flush["user"].at = "due" =>
       \E i \in DOMAIN lane : lane[i] = "user" /\ \A j \in DOMAIN lane : j < i => lane[j] # "gate"
  /\ flush["gate"].at = "ok" \/ gates.at = "loading" => flush["user"].at # "due"
OrderInv == /\ GateOrder /\ CallOrder /\ CutOrder /\ LoadOrder /\ EvictOrder /\ LaneOrder
            /\ p.render = None

StoredInv == Clean => OrderInv /\ \A r \in Kept : RecordFit(r)

\* What a step finds, and what it is to keep.
Ready == /\ IInv /\ IInv' /\ Clean /\ Clean' /\ OrderInv /\ \A r \in Kept : RecordFit(r)
         /\ Kept' \subseteq Kept /\ ops <= ops'

Numeric(r) ==
  /\ world.recs[r] \in Nat /\ disk.recs[r] \in Nat /\ p.base[r] \in Nat /\ p.projected[1][r] \in Nat
  /\ p.json # None => p.json[r] \in Nat
  /\ save.saved = "due" => save.base[r] \in Nat /\ save.render[r] \in Nat
  /\ \A f \in Flushers : flush[f].at = "due" => flush[f].base[r] \in Nat /\ flush[f].next[r] \in Nat
  /\ \A k \in LoadKinds : loads[k].at # "none" => loads[k].page[r] \in Nat

LEMMA Numbers ==
  ASSUME IInv, NEW r \in Records
  PROVE  Numeric(r)
<1> USE DEF IInv, Types
<1>0. MaxOps \in Nat /\ \A x \in Contents : x[r] \in Nat
  BY Bounds DEF Contents
<1>1. world.recs \in Contents /\ disk.recs \in Contents /\ p.base \in Contents /\ p.projected[1] \in Contents
  BY DEF WorldType, Worlds, DiskType, Disks, FieldType, Fields
<1>2. p.json # None => p.json \in Contents
  BY DEF FieldType, Fields, Some
<1>3. save.saved = "due" => save.base \in Contents /\ save.render \in Contents
  BY DEF SaveType, Saving, NoSave
<1>4. \A f \in Flushers : flush[f].at = "due" => flush[f].base \in Contents /\ flush[f].next \in Contents
  BY DEF FlushType
<1>5. \A k \in LoadKinds : loads[k].at # "none" => loads[k].page \in Contents
  BY DEF LoadType
<1> HIDE DEF IInv, Types
<1> QED
  BY <1>0, <1>1, <1>2, <1>3, <1>4, <1>5 DEF Numeric

LEMMA Counted == IInv => ops \in Nat
BY Bounds DEF IInv, Types, HostType

LEMMA CountedNext == IInv' => ops' \in Nat
BY Bounds DEF IInv, Types, HostType

-----------------------------------------------------------------------------
(* Steps that change no version *)

Steady(r) == /\ Current(r)' = Current(r)
             /\ IsStored(r) => IsStored(r)'
             /\ world.recs[r] = 0 => disk'.recs[r] = disk.recs[r]

\* What is known of a record stays known.
LEMMA FitsStays ==
  ASSUME Ready, NEW r \in Records, Steady(r), NEW x, x[r] \in Nat, Fits(x, r)
  PROVE  x[r] <= ops' + 1 /\ (x[r] = Current(r)' => IsStored(r)')
<1>1. ops \in Nat /\ ops' \in Nat /\ ops <= ops'
  BY Counted, CountedNext DEF Ready
<1> QED
  BY <1>1 DEF Fits, Steady

LEMMA WriteFitsStays ==
  ASSUME Ready, NEW r \in Records, Steady(r), NEW b, NEW n, b[r] \in Nat, n[r] \in Nat, WriteFits(b, n, r)
  PROVE  /\ b[r] <= ops' + 1 /\ (b[r] = Current(r)' => IsStored(r)')
         /\ n[r] <= ops' + 1 /\ (b[r] = Current(r)' => n[r] = Current(r)')
<1>1. ops \in Nat /\ ops' \in Nat /\ ops <= ops'
  BY Counted, CountedNext DEF Ready
<1> QED
  BY <1>1 DEF WriteFits, Fits, Steady

LEMMA WorldStays ==
  ASSUME Ready, NEW r \in Records, WorldFit(r), world'.recs[r] = world.recs[r], disk'.recs[r] = disk.recs[r]
  PROVE  WorldFit(r)'
<1>1. ops \in Nat /\ ops' \in Nat /\ ops <= ops'
  BY Counted, CountedNext DEF Ready
<1>2. world.recs[r] \in Nat /\ disk.recs[r] \in Nat
  BY Numbers DEF Ready, Numeric
<1> QED
  BY <1>1, <1>2 DEF WorldFit

LEMMA FieldStays ==
  ASSUME Ready, NEW r \in Records, Steady(r), FieldFit(r),
         p'.base = p.base, p'.json = p.json, p'.projected[1] = p.projected[1]
  PROVE  FieldFit(r)'
<1>1. ops \in Nat /\ ops' \in Nat /\ ops <= ops'
  BY Counted, CountedNext DEF Ready
<1>2. Numeric(r)
  BY Numbers DEF Ready
<1>3. Fits(p.base, r)'
  BY <1>2, FitsStays DEF FieldFit, Fits, Numeric
<1>4. p'.json # None => Fits(p.json, r)'
  <2>1. CASE p.json # None
    BY <1>2, <2>1, FitsStays DEF FieldFit, Fits, Numeric
  <2> QED
    BY <2>1
<1>5. p'.projected[1][r] <= ops' + 1
  BY <1>1, <1>2 DEF FieldFit, Numeric
<1> QED
  BY <1>3, <1>4, <1>5 DEF FieldFit

LEMMA SaveStays ==
  ASSUME Ready, NEW r \in Records, Steady(r), SaveFit(r),
         save'.saved = "due" => save.saved = "due" /\ save'.base = save.base /\ save'.render = save.render
  PROVE  SaveFit(r)'
<1>1. Numeric(r)
  BY Numbers DEF Ready
<1> SUFFICES ASSUME save'.saved = "due" PROVE WriteFits(save.base, save.render, r)'
  BY DEF SaveFit
<1>2. WriteFits(save.base, save.render, r) /\ save.base[r] \in Nat /\ save.render[r] \in Nat
  BY <1>1 DEF SaveFit, Numeric
<1> QED
  BY <1>2, WriteFitsStays DEF WriteFits, Fits

LEMMA FlushStays ==
  ASSUME Ready, NEW r \in Records, Steady(r), FlushFit(r), NEW f \in Flushers,
         flush'[f].at = "due" => flush[f].at = "due" /\ flush'[f].base = flush[f].base /\ flush'[f].next = flush[f].next
  PROVE  flush'[f].at = "due" => WriteFits(flush[f].base, flush[f].next, r)'
<1>1. Numeric(r)
  BY Numbers DEF Ready
<1> SUFFICES ASSUME flush'[f].at = "due" PROVE WriteFits(flush[f].base, flush[f].next, r)'
  OBVIOUS
<1>2. WriteFits(flush[f].base, flush[f].next, r) /\ flush[f].base[r] \in Nat /\ flush[f].next[r] \in Nat
  BY <1>1 DEF FlushFit, Numeric
<1> QED
  BY <1>2, WriteFitsStays DEF WriteFits, Fits

\* A page that is on its way stays as it is stored.
LEMMA LoadStays ==
  ASSUME Ready, NEW r \in Records, Steady(r), LoadFit(r),
         world'.recs[r] = 0 => world.recs[r] = 0, NEW k \in LoadKinds,
         loads'[k].at # "none" =>
           /\ loads[k].at # "none" /\ loads'[k].page = loads[k].page
           /\ loads'[k].todo \subseteq loads[k].todo,
         k = "range" /\ loads[k].at # "none" => disk'.recs[r] = disk.recs[r]
  PROVE  loads'[k].at # "none" =>
           /\ Fits(loads[k].page, r)'
           /\ k = "range" \/ world'.recs[r] = 0 \/ r \in loads'[k].todo => loads'[k].page[r] = disk'.recs[r]
           /\ r \in loads'[k].todo => loads'[k].page[r] # 0 /\ (k # "range" => IsStored(r)')
<1> SUFFICES ASSUME loads'[k].at # "none"
             PROVE  /\ Fits(loads[k].page, r)'
                    /\ k = "range" \/ world'.recs[r] = 0 \/ r \in loads'[k].todo =>
                         loads'[k].page[r] = disk'.recs[r]
                    /\ r \in loads'[k].todo => loads'[k].page[r] # 0 /\ (k # "range" => IsStored(r)')
  OBVIOUS
<1>2. Numeric(r)
  BY Numbers DEF Ready
<1>3. Fits(loads[k].page, r) /\ loads[k].page[r] \in Nat
  BY <1>2 DEF LoadFit, Numeric
<1>4. Fits(loads[k].page, r)'
  BY <1>3, FitsStays DEF Fits
<1>5. CASE k = "range"
  BY <1>4, <1>5 DEF LoadFit
<1>6. CASE k # "range"
  <2>1. r \in loads'[k].todo => IsStored(r) /\ loads[k].page[r] = disk.recs[r]
    BY <1>6 DEF LoadFit
  <2>2. r \in loads'[k].todo => IsStored(r)' /\ loads'[k].page[r] = disk'.recs[r]
    BY <2>1 DEF Steady, IsStored
  <2>3. world'.recs[r] = 0 => loads'[k].page[r] = disk'.recs[r]
    BY DEF Steady, LoadFit
  <2> QED
    BY <1>4, <1>6, <2>2, <2>3 DEF LoadFit
<1> QED
  BY <1>5, <1>6

LEMMA MissingStays ==
  ASSUME Ready, NEW r \in Records, Steady(r), MissingFit(r), world'.recs[r] = 0 => world.recs[r] = 0,
         \A k \in LoadKinds : loads'[k].at = "fill" => loads[k].at = "fill",
         \A k \in LoadKinds : loads'[k].todo = loads[k].todo,
         Here' => Here, world'.loaded # {} => world.loaded # {}
  PROVE  MissingFit(r)'
<1>1. Missing(r)' => Missing(r)
  BY DEF Missing, Steady
<1>2. "tail" \in LoadKinds /\ "detail" \in LoadKinds /\ "range" \in LoadKinds
  BY DEF LoadKinds
<1> QED
  BY <1>1, <1>2 DEF MissingFit

LEMMA SafeStays ==
  ASSUME NEW r, Steady(r), Safe(r), save'.saved = save.saved, save'.render = save.render
  PROVE  Safe(r)'
BY DEF Safe, Steady, Carried, Failing

LEMMA SafeFitStays ==
  ASSUME NEW r, Steady(r), SafeFit(r), save'.saved = save.saved, save'.render = save.render,
         world'.loaded = world.loaded,
         p'.projected[1] = p.projected[1], Due => Due'
  PROVE  SafeFit(r)'
<1>1. Safe(r) => Safe(r)'
  BY SafeStays
<1> QED
  BY <1>1 DEF SafeFit, Steady

LEMMA EvictStays ==
  ASSUME NEW r, Steady(r), EvictFit(r), world'.recs[r] = world.recs[r],
         disk.recs[r] = world.recs[r] => disk'.recs[r] = disk.recs[r],
         evictable' /\ calls'["evict"] \in {"save", "done"} => evictable /\ calls'["evict"] = calls["evict"],
         save'.saved = save.saved, save'.render = save.render
  PROVE  EvictFit(r)'
BY DEF EvictFit, Failing

\* A step that changes no table but for what is gone: it schedules saves and wakes
\* calls.
LEMMA RestsKept ==
  ASSUME Ready, \A r \in Kept' : world'.recs[r] = world.recs[r] /\ disk'.recs[r] = disk.recs[r],
         Here' => Here, world'.loaded = world.loaded, loads' = loads,
         p'.base = p.base, p'.json = p.json, p'.projected[1] = p.projected[1],
         save'.saved = save.saved, save'.base = save.base, save'.render = save.render,
         \A f \in Flushers : flush'[f].at = "due" =>
           flush[f].at = "due" /\ flush'[f].base = flush[f].base /\ flush'[f].next = flush[f].next,
         Due => Due',
         evictable' /\ calls'["evict"] \in {"save", "done"} => evictable /\ calls'["evict"] = calls["evict"]
  PROVE  \A r \in Kept' : RecordFit(r)'
<1> SUFFICES ASSUME NEW r \in Kept' PROVE RecordFit(r)'
  OBVIOUS
<1>0. world'.recs[r] = world.recs[r] /\ disk'.recs[r] = disk.recs[r]
  OBVIOUS
<1>1. r \in Records /\ r \in Kept /\ RecordFit(r)
  BY DEF Ready, Kept
<1>2. Steady(r)
  BY <1>0 DEF Steady, Current, IsStored
<1>3. WorldFit(r)' /\ FieldFit(r)' /\ SaveFit(r)'
  BY <1>0, <1>1, <1>2, WorldStays, FieldStays, SaveStays DEF RecordFit
<1>4. FlushFit(r)'
  BY <1>1, <1>2, FlushStays DEF RecordFit, FlushFit
<1>5. LoadFit(r)'
  BY <1>0, <1>1, <1>2, LoadStays DEF LoadFit, RecordFit
<1>6. MissingFit(r)'
  BY <1>0, <1>1, <1>2, MissingStays DEF RecordFit
<1>7. SafeFit(r)' /\ EvictFit(r)'
  BY <1>0, <1>1, <1>2, SafeFitStays, EvictStays DEF RecordFit
<1> QED
  BY <1>3, <1>4, <1>5, <1>6, <1>7 DEF RecordFit

\* A step that touches no table.
LEMMA Rests ==
  ASSUME Ready, world'.recs = world.recs, world'.loaded = world.loaded, disk'.recs = disk.recs, loads' = loads,
         p'.base = p.base, p'.json = p.json, p'.projected[1] = p.projected[1],
         save'.saved = save.saved, save'.base = save.base, save'.render = save.render,
         \A f \in Flushers : flush'[f].at = "due" =>
           flush[f].at = "due" /\ flush'[f].base = flush[f].base /\ flush'[f].next = flush[f].next,
         Due => Due',
         evictable' /\ calls'["evict"] \in {"save", "done"} => evictable /\ calls'["evict"] = calls["evict"]
  PROVE  \A r \in Kept' : RecordFit(r)'
BY RestsKept DEF Here

\* What schedules a save keeps the tables.
LedgerAlike(q, r) == /\ r.base = q.base /\ r.json = q.json /\ r.projected = q.projected /\ r.render = q.render
                     /\ r.busy = q.busy /\ r.gate = q.gate
                     /\ q.timer => r.timer
                     /\ q.afterSave => r.afterSave
                     /\ q.afterGate => r.afterGate
Scheduling(q) == q.timer \/ (q.busy /\ q.afterSave) \/ (q.gate # "none" /\ q.afterGate)

LEMMA SchedulesLedger ==
  ASSUME NEW q \in Fields
  PROVE  /\ LedgerAlike(q, MarkPending(q)) /\ LedgerAlike(q, SchedulePersistCheck(q))
         /\ LedgerAlike(q, MarkSavedIfIdle(q)) /\ Scheduling(SchedulePersistCheck(q))
<1>1. LedgerAlike(q, MarkPending(q))
  BY DEF MarkPending, Fields, LedgerAlike
<1>2. LedgerAlike(q, MarkSavedIfIdle(q))
  BY DEF MarkSavedIfIdle, Fields, LedgerAlike
<1>3. LedgerAlike(q, SchedulePersistCheck(q))
  BY DEF SchedulePersistCheck, Fields, LedgerAlike
<1>4. Scheduling(SchedulePersistCheck(q))
  BY DEF SchedulePersistCheck, Fields, Scheduling
<1> QED
  BY <1>1, <1>2, <1>3, <1>4

LEMMA QueueLedger ==
  ASSUME NEW q \in Fields
  PROVE  LedgerAlike(q, QueuePersist(q)) /\ Scheduling(QueuePersist(q))
<1> DEFINE n == IF q.status = "error" THEN 0 ELSE q.attempts
           r == [q EXCEPT !.retry = FALSE, !.attempts = n]
<1>0. n \in 0..Retries
  BY Bounds DEF Fields
<1> HIDE DEF n
<1>1. r \in Fields /\ LedgerAlike(q, r)
  BY <1>0 DEF Fields, LedgerAlike
<1> HIDE DEF r
<1>2. LedgerAlike(r, [r EXCEPT !.afterSave = TRUE]) /\ (r.busy => Scheduling([r EXCEPT !.afterSave = TRUE]))
  BY <1>1 DEF Fields, LedgerAlike, Scheduling
<1>3. MarkPending(r) \in Fields /\ LedgerAlike(r, MarkPending(r))
  BY <1>1, Scheduled, SchedulesLedger
<1>4. /\ LedgerAlike(MarkPending(r), SchedulePersistCheck(MarkPending(r)))
      /\ Scheduling(SchedulePersistCheck(MarkPending(r)))
  BY <1>3, SchedulesLedger
<1>5. QueuePersist(q) = IF q.busy THEN [r EXCEPT !.afterSave = TRUE] ELSE SchedulePersistCheck(MarkPending(r))
  BY DEF QueuePersist, r, n
<1> QED
  BY <1>1, <1>2, <1>3, <1>4, <1>5 DEF LedgerAlike

LEMMA DueIs == Due <=> Scheduling(p)
BY DEF Due, Scheduling

LEMMA DueNextIs == Due' <=> Scheduling(p')
BY DEF Due, Scheduling

-----------------------------------------------------------------------------
(* The lane *)

LEMMA LaneStays ==
  ASSUME LaneOrder, lane' = lane, flush'["gate"].at = flush["gate"].at,
         flush'["user"].at = "due" => flush["user"].at = "due",
         gates'.at = gates.at \/ (gates.at # "flushing" /\ gates'.at # "loading")
  PROVE  LaneOrder'
BY DEF LaneOrder

\* A save joins the lane.
LEMMA LaneGrows ==
  ASSUME LaneOrder, lane' = Append(lane, "save"), flush' = flush,
         gates'.at = gates.at \/ (gates.at # "flushing" /\ gates'.at # "loading")
  PROVE  LaneOrder'
<1>1. /\ lane' \in Seq({"save"} \cup Flushers) /\ DOMAIN lane \subseteq DOMAIN lane'
      /\ \A i \in DOMAIN lane : lane'[i] = lane[i]
      /\ \A i \in DOMAIN lane' : lane'[i] = "gate" => i \in DOMAIN lane
      /\ \A i \in DOMAIN lane, j \in DOMAIN lane' : j < i => j \in DOMAIN lane
  BY DEF LaneOrder
<1> QED
  BY <1>1 DEF LaneOrder

-----------------------------------------------------------------------------
(* Steps that touch no table *)

LEMMA ListCommitsStored ==
  ASSUME Ready, ListCommits
  PROVE  OrderInv' /\ \A r \in Kept' : RecordFit(r)'
<1>1. p \in Fields /\ save \in Saving
  BY DEF Ready, IInv, Types, FieldType, SaveType, ListCommits, NoSave
<1>2. LedgerAlike(p, p') /\ save'.saved = save.saved /\ save'.base = save.base /\ save'.render = save.render
      /\ save'.by = save.by /\ disk'.recs = disk.recs
  BY <1>1 DEF ListCommits, LedgerAlike, Fields, Saving, Ready, IInv, Types, DiskType, Disks
<1>3. UNCHANGED <<world, calls, flush, lane, gates, loads, deleted, evictable, gone>>
  BY DEF ListCommits, host
<1>l. LaneOrder'
  BY <1>3, LaneStays DEF Ready, OrderInv
<1>4. Due => Due'
  BY <1>2 DEF Due, LedgerAlike
<1>5. OrderInv'
  BY <1>2, <1>3, <1>l DEF Ready, OrderInv, GateOrder, CallOrder, CutOrder, LoadOrder, EvictOrder, NoLoads, Queued, LedgerAlike
<1> QED
  BY <1>2, <1>3, <1>4, <1>5, Rests DEF LedgerAlike

LEMMA OpenStored ==
  ASSUME Ready, Open
  PROVE  OrderInv' /\ \A r \in Kept' : RecordFit(r)'
<1>1. world'.recs = world.recs /\ world'.loaded = world.loaded /\ evictable' = FALSE
  BY DEF Open, Ready, IInv, Types, WorldType, Worlds
<1>2. UNCHANGED <<disk, p, save, calls, flush, lane, gates, loads, deleted, gone>>
  BY DEF Open
<1>l. LaneOrder'
  BY <1>2, LaneStays DEF Ready, OrderInv
<1>3. OrderInv'
  BY <1>1, <1>2, <1>l DEF Ready, OrderInv, GateOrder, CallOrder, CutOrder, LoadOrder, EvictOrder, Queued
<1> QED
  BY <1>1, <1>2, <1>3, Rests DEF Due

LEMMA GateAsksStored ==
  ASSUME Ready, NEW u \in GateUsers, GateAsks(u)
  PROVE  OrderInv' /\ \A r \in Kept' : RecordFit(r)'
<1>1. gates'.at = gates.at /\ \A x : Queued(x) => Queued(x)'
  <2>1. gates \in GateStates
    BY DEF Ready, IInv, Types, GateType
  <2>2. gates'.at = gates.at /\ gates'.queue = Append(gates.queue, u)
    BY <2>1 DEF GateAsks, GateStates
  <2>3. \A i \in DOMAIN gates.queue : i \in DOMAIN gates'.queue /\ gates'.queue[i] = gates.queue[i]
    BY <2>1, <2>2 DEF GateStates
  <2> QED
    BY <2>2, <2>3 DEF Queued
<1>2. UNCHANGED <<world, disk, p, save, calls, flush, lane, loads, deleted, evictable, gone>>
  BY DEF GateAsks, host
<1>l. LaneOrder'
  BY <1>1, <1>2, LaneStays DEF Ready, OrderInv
<1>3. ~evictable
  BY DEF GateAsks, Acted, Ready, OrderInv, EvictOrder
<1>4. OrderInv'
  BY <1>1, <1>2, <1>3, <1>l DEF Ready, OrderInv, GateOrder, CallOrder, CutOrder, LoadOrder, EvictOrder
<1> QED
  BY <1>2, <1>4, Rests DEF Due

LEMMA GateClosesStored ==
  ASSUME Ready, GateCloses
  PROVE  OrderInv' /\ \A r \in Kept' : RecordFit(r)'
<1> DEFINE h == Head(gates.queue)
           q == [p EXCEPT !.gate = h, !.timer = FALSE]
           marked == MarkPending(q)
           held == [marked EXCEPT !.afterGate = TRUE]
<1>t. p \in Fields /\ gates \in GateStates
  BY DEF Ready, IInv, Types, FieldType, GateType
<1>1. h \in GateUsers /\ h # "none"
  BY <1>t DEF GateCloses, GateStates, GateUsers
<1> HIDE DEF h
<1>2. /\ q \in Fields /\ q.gate = h /\ q.base = p.base /\ q.json = p.json /\ q.projected = p.projected
      /\ q.render = p.render /\ q.busy = p.busy /\ q.afterSave = p.afterSave /\ q.afterGate = p.afterGate
  BY <1>t, <1>1 DEF Fields
<1> HIDE DEF q
<1>3. marked \in Fields /\ LedgerAlike(q, marked)
  BY <1>2, Scheduled, SchedulesLedger
<1> HIDE DEF marked
<1>4. LedgerAlike(q, held) /\ held.afterGate
  BY <1>3 DEF Fields, LedgerAlike
<1>5. p' = IF p.timer THEN held ELSE q
  BY DEF GateCloses, held, marked, q, h
<1> HIDE DEF held
<1>6. /\ p'.gate = h /\ p'.base = p.base /\ p'.json = p.json /\ p'.projected = p.projected /\ p'.render = p.render
      /\ p'.busy = p.busy /\ (p.afterSave => p'.afterSave) /\ (p.timer => p'.afterGate)
  BY <1>2, <1>4, <1>5 DEF LedgerAlike
<1>7. p.gate = "none" /\ gates'.at = "enter" /\ gates'.queue = gates.queue /\ gates.at = "none"
  BY <1>t DEF GateCloses, GateStates, Ready, IInv, GateInv
<1>8. Due => Due'
  BY <1>1, <1>6, <1>7 DEF Due
<1>9. UNCHANGED <<world, disk, save, calls, flush, lane, loads, deleted, evictable, gone>>
  BY DEF GateCloses, host
<1>l. LaneOrder'
  BY <1>7, <1>9, LaneStays DEF Ready, OrderInv
<1>q. Queued(p.gate)'
  <2>1. 1 \in DOMAIN gates.queue /\ h = gates.queue[1]
    BY <1>t DEF GateCloses, GateStates, h
  <2> QED
    BY <1>6, <1>7, <2>1 DEF Queued
<1>10. OrderInv'
  BY <1>6, <1>7, <1>9, <1>l, <1>q DEF Ready, OrderInv, GateOrder, CallOrder, CutOrder, LoadOrder, EvictOrder, NoLoads, Queued
<1> QED
  BY <1>6, <1>8, <1>9, <1>10, Rests

LEMMA GateOpensStored ==
  ASSUME Ready, GateOpens
  PROVE  OrderInv' /\ \A r \in Kept' : RecordFit(r)'
<1> DEFINE q == [p EXCEPT !.gate = "none", !.afterGate = FALSE]
           marked == MarkPending(q)
           pending == SchedulePersistCheck(marked)
<1>t. p \in Fields /\ gates \in GateStates /\ calls \in CallStates /\ flush \in [Flushers -> Flushing]
  BY DEF Ready, IInv, Types, FieldType, GateType, CallType, FlushType
<1>2. /\ q \in Fields /\ q.gate = "none" /\ q.base = p.base /\ q.json = p.json /\ q.projected = p.projected
      /\ q.render = p.render /\ q.busy = p.busy /\ q.afterSave = p.afterSave /\ q.timer = p.timer
  BY <1>t DEF Fields
<1> HIDE DEF q
<1>3. marked \in Fields /\ LedgerAlike(q, marked)
  BY <1>2, Scheduled, SchedulesLedger
<1> HIDE DEF marked
<1>4. LedgerAlike(marked, pending) /\ Scheduling(pending)
  BY <1>3, SchedulesLedger
<1>5. p' = IF p.afterGate THEN pending ELSE q
  BY DEF GateOpens, pending, marked, q
<1> HIDE DEF pending
<1>6. /\ p'.gate = "none" /\ p'.base = p.base /\ p'.json = p.json /\ p'.projected = p.projected /\ p'.render = p.render
      /\ p'.busy = p.busy /\ (p.afterSave => p'.afterSave) /\ (p.timer => p'.timer)
      /\ p.afterGate => Scheduling(p')
  BY <1>2, <1>3, <1>4, <1>5 DEF LedgerAlike
<1>7. Due => Due'
  BY <1>6 DEF Due, Scheduling
<1>8. gates'.at = "none" /\ gates.at = "end" /\ gates'.queue = Tail(gates.queue) /\ gates.queue # <<>>
  BY <1>t DEF GateOpens, GateStates, Ready, IInv, GateInv
<1>9. UNCHANGED <<world, disk, save, lane, loads, deleted, evictable, gone>>
  BY DEF GateOpens, host
<1>10. /\ calls'["evict"] \in {"save", "done"} <=> calls["evict"] \in {"save", "done"}
       /\ calls'["evict"] \in {"save", "done"} => calls'["evict"] = calls["evict"]
       /\ calls["evict"] \in {"gate", "wait", "again", "save", "done"} <=> calls'["evict"] \in {"gate", "wait", "again", "save", "done"}
  <2>1. "evict" \in Callers /\ "evict" # "delete"
    BY DEF Callers
  <2>2. calls'["evict"] = IF calls["evict"] = "gate" THEN "again" ELSE calls["evict"]
    BY <1>t, <2>1 DEF GateOpens, Woken, CallStates
  <2> QED
    BY <2>2
<1>11. \A f \in Flushers : /\ flush'[f].at \in {"due", "removed"} => flush'[f] = flush[f]
                           /\ flush'[f].at = "due" => flush[f].at = "due"
                           /\ f = "gate" => flush'[f].at = flush[f].at
  <2>1. CASE flush' = [flush EXCEPT !["user"].at = "again"]
    BY <1>t, <2>1 DEF Flushing, Flushers
  <2> QED
    BY <2>1 DEF GateOpens
<1>12. \A i \in DOMAIN gates'.queue : gates'.queue[i] \in {gates.queue[j] : j \in DOMAIN gates.queue}
  BY <1>t, <1>8 DEF GateStates
<1>13. Queued("context")' => Queued("context")
  BY <1>12 DEF Queued
<1>14. OrderInv'
  <2>1. GateOrder' /\ LoadOrder'
    BY <1>6, <1>8, <1>9 DEF Ready, OrderInv, GateOrder, LoadOrder
  <2>2. CallOrder' /\ CutOrder'
    BY <1>9, <1>10, <1>11 DEF Ready, OrderInv, CallOrder, CutOrder, Flushers
  <2>l. LaneOrder'
    BY <1>8, <1>9, <1>11, LaneStays DEF Ready, OrderInv, Flushers
  <2>3. EvictOrder' /\ p'.render = None
    BY <1>6, <1>9, <1>10, <1>13 DEF Ready, OrderInv, EvictOrder, NoLoads
  <2> QED
    BY <2>1, <2>2, <2>3, <2>l DEF OrderInv
<1> QED
  BY <1>6, <1>7, <1>9, <1>10, <1>11, <1>14, Rests

LEMMA StagesStored ==
  ASSUME Ready, GateHasRead \/ DeleteMarks \/ DeleteErases \/ DeleteCleans \/ DeleteSaves
  PROVE  OrderInv' /\ \A r \in Kept' : RecordFit(r)'
<1>t. gates \in GateStates
  BY DEF Ready, IInv, Types, GateType
<1>0. ~DeleteCleans /\ ~DeleteSaves
  BY DEF DeleteCleans, DeleteSaves, Ready, OrderInv, GateOrder
<1>d. ASSUME DeleteErases PROVE deleted' = FALSE /\ At("end") /\ UNCHANGED <<disk, world, p, evictable>>
  <2>1. world \in Worlds /\ world'.alive
    BY DEF Ready, IInv, Types, WorldType, Clean
  <2>2. world' # WithoutConversation
    BY <2>1 DEF WithoutConversation, Worlds
  <2> QED
    BY <1>d, <2>2 DEF DeleteErases
<1>1. UNCHANGED <<world, disk, p, save, calls, flush, lane, loads, evictable, gone>>
  <2>1. CASE DeleteErases
    BY <1>d, <2>1 DEF DeleteErases
  <2>2. CASE GateHasRead \/ DeleteMarks
    BY <2>2 DEF GateHasRead, DeleteMarks, host
  <2> QED
    BY <1>0, <2>1, <2>2
<1>2. gates'.queue = gates.queue
  BY <1>t, <1>0 DEF GateHasRead, DeleteMarks, DeleteErases, At, GateStates
<1>3. GateOrder' /\ gates.at # "flushing" /\ gates'.at # "loading"
  <2>q. \A x : Queued(x) => Queued(x)'
    BY <1>2 DEF Queued
  <2>1. CASE GateHasRead
    <3>1. gates'.at = "end" /\ deleted' = deleted /\ gates.at = "loading"
      BY <1>t, <2>1 DEF GateHasRead, At, GateStates, host
    <3>2. loads["range"].at = "none"
      BY <2>1 DEF GateHasRead, Ready, OrderInv, GateOrder
    <3> QED
      BY <1>1, <2>q, <3>1, <3>2 DEF Ready, OrderInv, GateOrder
  <2>2. CASE DeleteMarks
    <3>1. gates.at = "saving" /\ gates'.at = IF deleted' THEN "erasing" ELSE "end"
      BY <1>t, <2>2 DEF DeleteMarks, At, GateStates
    <3> QED
      BY <1>1, <2>q, <3>1 DEF Ready, OrderInv, GateOrder
  <2>3. CASE DeleteErases
    <3>1. gates.at = "erasing" /\ gates'.at = "end" /\ ~deleted'
      BY <1>t, <1>d, <2>3 DEF DeleteErases, At, GateStates
    <3> QED
      BY <1>1, <2>q, <3>1 DEF Ready, OrderInv, GateOrder
  <2> QED
    BY <1>0, <2>1, <2>2, <2>3
<1>l. LaneOrder'
  BY <1>1, <1>3, LaneStays DEF Ready, OrderInv
<1>4. OrderInv'
  BY <1>1, <1>2, <1>3, <1>l DEF Ready, OrderInv, CallOrder, CutOrder, LoadOrder, EvictOrder, NoLoads, Queued
<1> QED
  BY <1>1, <1>4, Rests DEF Due

-----------------------------------------------------------------------------
(* persistImmediately, and what it collects *)

\* The four ways a call can go: it waits for the gate or for the save in flight, finds
\* nothing to save, or starts a save.
AtGate(c) == p.gate # "none" /\ ~Inside(c) /\ p'.afterGate /\ calls'[c] = "gate"
             /\ p'.projected = p.projected /\ p'.busy = p.busy /\ save' = save
Waits(c) == p.busy /\ p'.busy /\ p'.afterSave /\ calls'[c] = "wait" /\ p'.projected = p.projected /\ save' = save
FindsNothing(c) ==
  /\ ~p.busy /\ ~p'.busy /\ calls'[c] = "done" /\ save' = save
  /\ p.gate = "none" \/ Inside(c)
  /\ \/ c \in {"timer", "retry"} /\ p.projected = <<world.recs, world.alive>>
     \/ Collected(c).render = None
  /\ p'.projected = <<world.recs, world.alive>>
StartsSave(c) ==
  /\ ~p.busy /\ p'.busy /\ calls'[c] = "save"
  /\ p.gate = "none" \/ Inside(c)
  /\ save'.by = c /\ save'.base = p.base /\ save'.render = Collected(c).render
  /\ save'.saved = IF Collected(c).render = None THEN "ok" ELSE "due"
  /\ p'.projected = <<world.recs, world.alive>>

LEMMA PersistBooks ==
  ASSUME Types, NEW c \in Callers, Persist(c), p.render = None
  PROVE  /\ p'.base = p.base /\ p'.json = p.json /\ p'.render = None /\ p'.gate = p.gate
         /\ \A x \in Callers \ {c} : calls'[x] = calls[x]
         /\ lane' = lane \/ lane' = Append(lane, "save")
         /\ AtGate(c) \/ Waits(c) \/ FindsNothing(c) \/ StartsSave(c)
<1> DEFINE q == [p EXCEPT !.timer = FALSE, !.retry = FALSE]
           due == [Collected(c) EXCEPT !.timer = FALSE, !.retry = FALSE]
           unchanged == /\ c \in {"timer", "retry"} /\ NothingDue(p)
                        /\ p.projected = <<world.recs, world.alive>>
           idle == IF unchanged THEN q ELSE due
           n == Collected(c).render
           going == [due EXCEPT !.busy = TRUE, !.status = "saving", !.render = None, !.list = "none"]
           sent == [by |-> c, render |-> due.render, list |-> due.list, base |-> p.base,
                    saved |-> IF due.render = None THEN "ok" ELSE "due",
                    listed |-> IF due.list = "none" THEN "ok" ELSE "due"]
           Same(x) == x.base = p.base /\ x.json = p.json /\ x.gate = p.gate
           Went(x) == calls' = [calls EXCEPT ![c] = x]
<1>t. p \in Fields /\ calls \in CallStates /\ world \in Worlds
  BY DEF Types, FieldType, CallType, WorldType
<1>1. q \in Fields /\ Same(q) /\ q.projected = p.projected /\ q.render = None /\ q.busy = p.busy
  BY <1>t DEF Fields
<1>2. /\ Collected(c) \in Fields /\ Collected(c).busy = p.busy /\ Same(Collected(c))
      /\ Collected(c).projected = <<world.recs, world.alive>>
  <2>1. Collected(c) \in Fields /\ Collected(c).busy = p.busy /\ Collected(c).gate = p.gate
    BY CollectedFits DEF Types
  <2>2. Collected(c).base = p.base /\ Collected(c).json = p.json
        /\ Collected(c).projected = <<world.recs, world.alive>>
    BY <1>t DEF Collected, Fields
  <2> QED
    BY <2>1, <2>2
<1>3. /\ due \in Fields /\ due.busy = p.busy /\ Same(due) /\ due.render = n
      /\ due.projected = <<world.recs, world.alive>>
  BY <1>2 DEF Fields
<1> HIDE DEF n
<1>4. Same(going) /\ going.projected = <<world.recs, world.alive>> /\ going.render = None /\ going.busy
  <2> HIDE DEF due
  <2> QED
    BY <1>3 DEF Fields
<1>5. sent.by = c /\ sent.base = p.base /\ sent.render = n /\ sent.saved = IF n = None THEN "ok" ELSE "due"
  BY <1>3
<1> HIDE DEF sent
<1>6. \/ /\ p.gate # "none" /\ ~Inside(c) /\ p' = [MarkPending(q) EXCEPT !.afterGate = TRUE]
         /\ Went("gate") /\ save' = save
      \/ /\ p.busy /\ p' = [MarkPending(q) EXCEPT !.afterSave = TRUE]
         /\ Went("wait") /\ save' = save
      \/ /\ p.gate = "none" \/ Inside(c)
         /\ ~p.busy /\ (unchanged \/ NothingDue(due))
         /\ p' = MarkSavedIfIdle(idle)
         /\ Went("done") /\ save' = save
      \/ /\ p.gate = "none" \/ Inside(c)
         /\ ~p.busy /\ p' = going /\ save' = sent /\ Went("save")
  BY <1>t DEF Persist, sent, Fields
<1>7. ASSUME NEW x, Went(x) PROVE calls'[c] = x /\ \A y \in Callers \ {c} : calls'[y] = calls[y]
  BY <1>t, <1>7 DEF CallStates
<1>12. lane' = lane \/ lane' = Append(lane, "save")
  BY DEF Persist
<1>m. MarkPending(q) \in Fields /\ LedgerAlike(q, MarkPending(q))
  BY <1>1, Scheduled, SchedulesLedger
<1>8. CASE /\ p.gate # "none" /\ ~Inside(c) /\ p' = [MarkPending(q) EXCEPT !.afterGate = TRUE]
           /\ Went("gate") /\ save' = save
  <2>1. Same(p') /\ p'.projected = p.projected /\ p'.render = None /\ p'.afterGate /\ p'.busy = p.busy
    BY <1>1, <1>m, <1>8 DEF Fields, LedgerAlike
  <2> QED
    BY <1>7, <1>8, <2>1, <1>12 DEF AtGate
<1>9. CASE p.busy /\ p' = [MarkPending(q) EXCEPT !.afterSave = TRUE] /\ Went("wait") /\ save' = save
  <2>1. Same(p') /\ p'.projected = p.projected /\ p'.render = None /\ p'.afterSave /\ p'.busy = p.busy
    BY <1>1, <1>m, <1>9 DEF Fields, LedgerAlike
  <2> QED
    BY <1>7, <1>9, <2>1, <1>12 DEF Waits
<1>10. CASE /\ p.gate = "none" \/ Inside(c)
            /\ ~p.busy /\ (unchanged \/ NothingDue(due))
            /\ p' = MarkSavedIfIdle(idle)
            /\ Went("done") /\ save' = save
  <2>1. /\ idle \in Fields /\ Same(idle) /\ idle.busy = p.busy
        /\ idle.projected = <<world.recs, world.alive>> /\ idle.render = None
        /\ (c \in {"timer", "retry"} /\ p.projected = <<world.recs, world.alive>>) \/ n = None
    BY <1>1, <1>3, <1>10 DEF NothingDue
  <2> HIDE DEF idle
  <2>2. LedgerAlike(idle, p')
    BY <1>10, <2>1, SchedulesLedger
  <2>3. Same(p') /\ p'.busy = p.busy /\ p'.projected = <<world.recs, world.alive>> /\ p'.render = None
    BY <2>1, <2>2 DEF LedgerAlike
  <2> QED
    BY <1>7, <1>10, <2>1, <2>3, <1>12 DEF FindsNothing, n
<1>11. CASE /\ p.gate = "none" \/ Inside(c)
            /\ ~p.busy /\ p' = going /\ save' = sent /\ Went("save")
  <2> HIDE DEF going
  <2> QED
    BY <1>4, <1>5, <1>7, <1>11, <1>12 DEF StartsSave, n
<1> QED
  BY <1>6, <1>8, <1>9, <1>10, <1>11

\* Outside a range that is read, a conversation that is loaded lacks nothing.
LEMMA NothingMissing ==
  ASSUME Ready, NEW r \in Kept, gates.at # "loading", world.loaded # {}
  PROVE  ~Missing(r)
<1>1. loads["range"].todo = {}
  BY DEF Ready, OrderInv, GateOrder, LoadOrder, LoadKinds
<1> QED
  BY <1>1 DEF Ready, RecordFit, MissingFit

\* What is collected is the conversation as it is, if some of it may not be stored.
LEMMA CollectedIsDue ==
  ASSUME Ready, NEW c \in Callers, ~p.busy, gates.at \in {"none", "enter"}, NEW r \in Kept
  PROVE  /\ Collected(c).render = None => IsStored(r)
         /\ Collected(c).render # None => Collected(c).render = world.recs /\ ~Missing(r)
         /\ c \in ForConversation /\ world.loaded # {} => Collected(c).render # None
         /\ p.projected = <<world.recs, world.alive>> => IsStored(r)
<1> DEFINE all == c \in {"delete", "shutdown"}
           fresh == /\ Persistable
                    /\ all \/ p.projected # <<world.recs, world.alive>>
                    /\ c = "delete" \/ world.recs # p.json
           forced == c \in ForConversation /\ Persistable
<1>t. p \in Fields /\ world.recs \in Contents /\ r \in Records
  BY DEF Ready, IInv, Types, FieldType, WorldType, Worlds, Kept
<1>1. world.recs # None
  BY <1>t DEF Contents, None
<1>2. Collected(c).render = IF fresh \/ forced THEN world.recs ELSE None
  BY <1>t DEF Collected, Fields, Ready, OrderInv
<1>3. save = NoSave
  BY DEF Ready, IInv, Types, SaveType
<1>4. ~deleted /\ world.alive
  BY DEF Ready, OrderInv, GateOrder, Clean
<1>5. SafeFit(r) /\ FieldFit(r)
  BY DEF Ready, RecordFit
<1>6. p.projected = <<world.recs, world.alive>> => IsStored(r)
  <2>1. Safe(r) => IsStored(r)
    BY <1>3 DEF Safe, Carried, Failing, NoSave
  <2> QED
    BY <1>5, <2>1 DEF SafeFit, IsStored, Current
<1>7. world.recs = p.json => IsStored(r)
  BY <1>1, <1>5 DEF FieldFit, Fits, IsStored, Current
<1>8. world.loaded = {} => IsStored(r)
  BY <1>5 DEF SafeFit
<1>9. Persistable <=> world.loaded # {}
  BY <1>4 DEF Persistable
<1>10. Persistable => ~Missing(r)
  BY <1>9, NothingMissing
<1>11. ~(fresh \/ forced) => IsStored(r)
  BY <1>6, <1>7, <1>8, <1>9
<1> QED
  BY <1>1, <1>2, <1>6, <1>9, <1>10, <1>11

-----------------------------------------------------------------------------
(* The callers of persistImmediately *)

\* Whoever starts a save finds none in flight and nobody loading in a gate.
LEMMA StartsAlone ==
  ASSUME Ready, NEW c \in Callers, ~p.busy, p.gate = "none" \/ Inside(c), c = "delete" => gates.at = "enter"
  PROVE  /\ save = NoSave /\ save.by = "none" /\ calls["evict"] # "save"
         /\ gates.at \in {"none", "enter"}
<1>1. save = NoSave
  BY DEF Ready, IInv, Types, SaveType
<1> QED
  BY <1>1 DEF Ready, IInv, GateInv, Inside, OrderInv, CallOrder, NoSave

\* A call of c leaves the world, the store and the pages read as they are.
LEMMA PersistStored ==
  ASSUME Ready, NEW c \in Callers, Persist(c),
         world'.recs = world.recs, world'.loaded = world.loaded, disk' = disk, loads' = loads, flush' = flush,
         c = "delete" => gates.at = "enter",
         evictable' /\ c # "evict" => evictable,
         evictable' /\ c = "evict" => world.loaded # {},
         c = "evict" => calls["evict"] # "save"
  PROVE  /\ CallOrder' /\ p'.render = None /\ p'.gate = p.gate
         /\ \A x \in Callers \ {c} : calls'[x] = calls[x]
         /\ lane' = lane \/ lane' = Append(lane, "save")
         /\ \A r \in Kept' : RecordFit(r)'
<1>1. /\ p'.base = p.base /\ p'.json = p.json /\ p'.render = None /\ p'.gate = p.gate
      /\ \A x \in Callers \ {c} : calls'[x] = calls[x]
      /\ lane' = lane \/ lane' = Append(lane, "save")
      /\ AtGate(c) \/ Waits(c) \/ FindsNothing(c) \/ StartsSave(c)
  BY PersistBooks DEF Ready, OrderInv, IInv
<1>e. "evict" \in Callers /\ "evict" \in ForConversation /\ "evict" \notin {"timer", "retry"}
  BY DEF Callers, ForConversation
<1>2. CASE AtGate(c) \/ Waits(c)
  <2>1. Due' /\ save' = save /\ p'.projected = p.projected
    BY <1>1, <1>2 DEF Due, AtGate, Waits
  <2>2. /\ calls'["evict"] \in {"save", "done"} => calls'["evict"] = calls["evict"] /\ c # "evict"
        /\ calls["evict"] = "save" <=> calls'["evict"] = "save"
    BY <1>1, <1>2, <1>e DEF AtGate, Waits
  <2>3. CallOrder'
    BY <2>1, <2>2 DEF CallOrder, Ready, OrderInv
  <2>4. \A r \in Kept' : RecordFit(r)'
    BY <1>1, <2>1, <2>2, Rests
  <2> QED
    BY <1>1, <2>3, <2>4
<1>3. CASE FindsNothing(c) \/ StartsSave(c)
  <2>1. save = NoSave /\ calls["evict"] # "save" /\ gates.at \in {"none", "enter"} /\ ~p.busy
    BY <1>3, StartsAlone DEF FindsNothing, StartsSave
  <2>2. p'.projected = <<world.recs, world.alive>>
    BY <1>3 DEF FindsNothing, StartsSave
  <2>3. ASSUME NEW r \in Kept
        PROVE  /\ Collected(c).render = None => IsStored(r)
               /\ Collected(c).render # None => Collected(c).render = world.recs /\ ~Missing(r)
               /\ c \in ForConversation /\ world.loaded # {} => Collected(c).render # None
               /\ p.projected = <<world.recs, world.alive>> => IsStored(r)
    BY <2>1, <2>3, CollectedIsDue
  <2>4. CallOrder'
    BY <1>1, <1>3, <1>e, <2>1 DEF FindsNothing, StartsSave, CallOrder, Ready, OrderInv
  <2>5. ASSUME NEW r \in Kept' PROVE RecordFit(r)'
    <3>1. r \in Records /\ r \in Kept /\ RecordFit(r)
      BY <2>5 DEF Ready, Kept
    <3>2. Steady(r)
      BY DEF Steady, Current, IsStored
    <3>3. WorldFit(r)' /\ FlushFit(r)'
      BY <3>1, <3>2, WorldStays, FlushStays DEF RecordFit, FlushFit
    <3>4. FieldFit(r)'
      <4>1. Numeric(r)
        BY <3>1, Numbers DEF Ready
      <4>2. Fits(p.base, r)'
        BY <1>1, <3>1, <3>2, <4>1, FitsStays DEF RecordFit, FieldFit, Fits, Numeric
      <4>3. p'.json # None => Fits(p.json, r)'
        <5>1. CASE p.json # None
          BY <1>1, <3>1, <3>2, <4>1, <5>1, FitsStays DEF RecordFit, FieldFit, Fits, Numeric
        <5> QED
          BY <1>1, <5>1
      <4> QED
        BY <2>2, <3>3, <4>2, <4>3 DEF FieldFit, WorldFit
    <3>5. evictable' /\ c = "evict" => Collected(c).render # None /\ ~FindsNothing(c)
      BY <1>e, <2>3, <3>1 DEF FindsNothing
    <3>7. LoadFit(r)'
      BY <3>1, <3>2, LoadStays DEF LoadFit, RecordFit
    <3>8. MissingFit(r)'
      BY <3>1, <3>2, MissingStays DEF RecordFit, Here
    <3>9. CASE FindsNothing(c)
      <4>1. IsStored(r)
        BY <2>3, <3>1, <3>9 DEF FindsNothing
      <4>2. IsStored(r)' /\ SafeFit(r)'
        BY <3>2, <4>1 DEF Steady, SafeFit, Safe
      <4>3. SaveFit(r)'
        BY <2>1, <3>9 DEF FindsNothing, SaveFit, NoSave
      <4>4. EvictFit(r)'
        BY <1>1, <1>e, <2>1, <3>1, <3>5, <3>9 DEF EvictFit, RecordFit, FindsNothing
      <4> QED
        BY <3>3, <3>4, <3>7, <3>8, <4>2, <4>3, <4>4 DEF RecordFit
    <3>10. CASE StartsSave(c)
      <4>1. CASE Collected(c).render = None
        <5>1. c # "evict" \/ ~evictable'
          BY <3>5, <4>1
        <5>2. IsStored(r) /\ save'.saved = "ok"
          BY <2>3, <3>1, <3>10, <4>1 DEF StartsSave
        <5>3. IsStored(r)' /\ SafeFit(r)' /\ SaveFit(r)'
          BY <3>2, <5>2 DEF Steady, SafeFit, Safe, SaveFit
        <5>4. EvictFit(r)'
          BY <1>1, <1>e, <2>1, <3>1, <5>1 DEF EvictFit, RecordFit
        <5> QED
          BY <3>3, <3>4, <3>7, <3>8, <5>3, <5>4 DEF RecordFit
      <4>2. CASE Collected(c).render # None
        <5>1. Collected(c).render = world.recs /\ ~Missing(r)
          BY <2>3, <3>1, <4>2
        <5>2. save'.saved = "due" /\ save'.base = p.base /\ save'.render = world.recs
          BY <3>10, <4>2, <5>1 DEF StartsSave
        <5>3. world.recs[r] = Current(r) /\ Current(r)' = Current(r)
          BY <5>1, <3>2 DEF Missing, Current, Steady
        <5>4. SaveFit(r)'
          BY <1>1, <3>3, <3>4, <5>2, <5>3 DEF SaveFit, WriteFits, FieldFit, WorldFit
        <5>5. Carried(r)'
          BY <5>2, <5>3 DEF Carried
        <5>6. SafeFit(r)'
          <6>1. world.loaded = {} => IsStored(r)'
            BY <3>1, <3>2 DEF RecordFit, SafeFit, Steady
          <6> QED
            BY <5>5, <6>1 DEF SafeFit, Safe
        <5>7. EvictFit(r)'
          BY <1>1, <1>e, <2>1, <3>1, <3>10, <5>2 DEF EvictFit, RecordFit, StartsSave
        <5> QED
          BY <3>3, <3>4, <3>7, <3>8, <5>4, <5>6, <5>7 DEF RecordFit
      <4> QED
        BY <4>1, <4>2
    <3> QED
      BY <1>3, <3>9, <3>10
  <2> QED
    BY <1>1, <2>4, <2>5
<1> QED
  BY <1>1, <1>2, <1>3

\* What the requests and timers leave alone.
LEMMA OrderStays ==
  ASSUME Ready, NEW c \in Callers, world' = world, UNCHANGED <<disk, flush, gates, loads, deleted, evictable, gone>>,
         lane' = lane \/ lane' = Append(lane, "save"), CallOrder', p'.render = None, p'.gate = p.gate,
         \A x \in Callers \ {c} : calls'[x] = calls[x], c = "evict" => calls["evict"] = "again"
  PROVE  OrderInv'
<1>1. "evict" \in Callers
  BY DEF Callers
<1>2. GateOrder' /\ CutOrder' /\ LoadOrder'
  BY DEF Ready, OrderInv, GateOrder, CutOrder, LoadOrder, Queued
<1>l. LaneOrder'
  BY LaneStays, LaneGrows DEF Ready, OrderInv
<1>3. EvictOrder'
  <2>1. calls["evict"] = "again" \/ calls'["evict"] = calls["evict"]
    BY <1>1
  <2> QED
    BY <2>1 DEF Ready, OrderInv, EvictOrder, NoLoads, Queued
<1> QED
  BY <1>2, <1>3, <1>l DEF OrderInv

LEMMA CallersStored ==
  ASSUME Ready, \/ TimerFires \/ RetryFires \/ PersistEffect \/ ShutDown \/ ShutDownAgain
                \/ \E c \in Callers : PersistAgain(c)
  PROVE  OrderInv' /\ \A r \in Kept' : RecordFit(r)'
<1>1. PICK c \in Callers : Persist(c) /\ c # "delete" /\ (c = "evict" => calls["evict"] = "again")
  <2>1. calls["delete"] # "again"
    BY DEF Ready, IInv, GateInv
  <2> QED
    BY <2>1 DEF TimerFires, RetryFires, PersistEffect, ShutDown, ShutDownAgain, PersistAgain, Callers
<1>2. UNCHANGED <<world, disk, flush, gates, loads, deleted, evictable, gone>>
  BY DEF TimerFires, RetryFires, PersistEffect, ShutDown, ShutDownAgain, PersistAgain, Unpersisted
<1>3. evictable' /\ c = "evict" => world.loaded # {}
  BY <1>1, <1>2 DEF Ready, OrderInv, EvictOrder
<1>4. /\ CallOrder' /\ p'.render = None /\ p'.gate = p.gate
      /\ \A x \in Callers \ {c} : calls'[x] = calls[x]
      /\ lane' = lane \/ lane' = Append(lane, "save")
      /\ \A r \in Kept' : RecordFit(r)'
  BY <1>1, <1>2, <1>3, PersistStored
<1> QED
  BY <1>1, <1>2, <1>4, OrderStays

LEMMA CloseStored ==
  ASSUME Ready, Close
  PROVE  OrderInv' /\ \A r \in Kept' : RecordFit(r)'
<1>1. world'.recs = world.recs /\ world'.loaded = world.loaded /\ evictable' = FALSE
  BY DEF Close, Ready, IInv, Types, WorldType, Worlds
<1>2. UNCHANGED <<disk, flush, gates, loads, deleted, gone>> /\ Persist("detach") /\ "detach" \in Callers
  BY DEF Close, Callers
<1>3. /\ CallOrder' /\ p'.render = None /\ p'.gate = p.gate /\ \A r \in Kept' : RecordFit(r)'
      /\ lane' = lane \/ lane' = Append(lane, "save")
  BY <1>1, <1>2, PersistStored
<1>l. LaneOrder'
  BY <1>2, <1>3, LaneStays, LaneGrows DEF Ready, OrderInv
<1>4. OrderInv'
  BY <1>1, <1>2, <1>3, <1>l DEF Ready, OrderInv, GateOrder, CutOrder, LoadOrder, EvictOrder, Queued
<1> QED
  BY <1>3, <1>4

LEMMA EvictStartsStored ==
  ASSUME Ready, EvictStarts
  PROVE  OrderInv' /\ \A r \in Kept' : RecordFit(r)'
<1>1. UNCHANGED <<world, disk, flush, gates, loads, deleted, gone>> /\ Persist("evict") /\ "evict" \in Callers
      /\ world.loaded # {} /\ Evictable /\ calls["evict"] # "save"
  BY DEF EvictStarts, Callers, Idle
<1>2. /\ CallOrder' /\ p'.render = None /\ p'.gate = p.gate /\ \A r \in Kept' : RecordFit(r)'
      /\ lane' = lane \/ lane' = Append(lane, "save")
  BY <1>1, PersistStored
<1>l. LaneOrder'
  BY <1>1, <1>2, LaneStays, LaneGrows DEF Ready, OrderInv
<1>3. EvictOrder'
  BY <1>1 DEF Evictable, EvictOrder, NoLoads, Queued
<1>4. OrderInv'
  BY <1>1, <1>2, <1>3, <1>l DEF Ready, OrderInv, GateOrder, CutOrder, LoadOrder, Queued
<1> QED
  BY <1>2, <1>4

-----------------------------------------------------------------------------
(* Flushes of one timeline *)

\* A flush of the user joins the lane while the gate is open.
LEMMA UserJoins ==
  ASSUME LaneOrder, gates.at = "none", gates'.at = "none", lane' = Append(lane, "user"),
         flush'["gate"].at = flush["gate"].at
  PROVE  LaneOrder'
<1> DEFINE n == Len(lane) + 1
<1>1. /\ lane' \in Seq({"save"} \cup Flushers) /\ n \in DOMAIN lane' /\ lane'[n] = "user"
      /\ \A i \in DOMAIN lane' : i # n => i \in DOMAIN lane /\ lane'[i] = lane[i]
  BY DEF LaneOrder, Flushers
<1> HIDE DEF n
<1>2. \A i \in DOMAIN lane : lane[i] # "gate"
  BY DEF LaneOrder
<1>3. \A i \in DOMAIN lane' : lane'[i] # "gate"
  BY <1>1, <1>2
<1> QED
  BY <1>1, <1>3 DEF LaneOrder

\* That of the gate joins it once.
LEMMA GateJoins ==
  ASSUME LaneOrder, gates.at = "enter", gates'.at = "flushing", lane' = Append(lane, "gate"),
         flush'["gate"].at = "due", flush'["user"].at = flush["user"].at
  PROVE  LaneOrder'
<1> DEFINE n == Len(lane) + 1
<1>1. /\ lane' \in Seq({"save"} \cup Flushers) /\ n \in DOMAIN lane' /\ lane'[n] = "gate"
      /\ \A i \in DOMAIN lane' : i # n => i \in DOMAIN lane /\ lane'[i] = lane[i]
      /\ \A i \in DOMAIN lane : i \in DOMAIN lane' /\ lane'[i] = lane[i] /\ i < n
  BY DEF LaneOrder, Flushers
<1>0. n \in Nat /\ DOMAIN lane' \subseteq Nat
  BY <1>1 DEF LaneOrder
<1> HIDE DEF n
<1>2. \A i \in DOMAIN lane : lane[i] # "gate"
  BY DEF LaneOrder
<1>3. \A i \in DOMAIN lane' : lane'[i] = "gate" => i = n
  BY <1>1, <1>2
<1>4. ASSUME flush["user"].at = "due"
      PROVE  \E i \in DOMAIN lane' : lane'[i] = "user" /\ \A j \in DOMAIN lane' : j < i => lane'[j] # "gate"
  <2>1. PICK i \in DOMAIN lane : lane[i] = "user"
    BY <1>4 DEF LaneOrder
  <2>2. i \in DOMAIN lane' /\ lane'[i] = "user" /\ \A j \in DOMAIN lane' : j < i => j # n
    BY <1>0, <1>1, <2>1
  <2> QED
    BY <1>3, <2>2
<1> QED
  BY <1>1, <1>3, <1>4 DEF LaneOrder

\* A flush has captured the world, or waits for the gate.
LEMMA FlushBooks ==
  ASSUME IInv, NEW f \in Flushers, NEW cut, Flush(f, cut)
  PROVE  /\ LedgerAlike(p, p') /\ \A o \in Flushers \ {f} : flush'[o] = flush[o]
         /\ flush'[f].cut = cut
         /\ \/ /\ flush'[f].at = "gate" /\ f = "user" /\ p.gate # "none" /\ lane' = lane
            \/ /\ flush'[f].at = "due" /\ flush'[f].base = p.base /\ flush'[f].next = world.recs
               /\ lane' = Append(lane, f) /\ (f = "user" => p.gate = "none")
<1>t. p \in Fields /\ flush \in [Flushers -> Flushing]
  BY DEF IInv, Types, FieldType, FlushType
<1>1. CASE p.gate # "none" /\ f = "user"
  <2>1. LedgerAlike(p, p')
    BY <1>t, <1>1 DEF Flush, LedgerAlike, Fields
  <2>2. flush' = [flush EXCEPT ![f] = [NoFlush EXCEPT !.at = "gate", !.cut = cut]] /\ lane' = lane
    BY <1>1 DEF Flush
  <2>3. [NoFlush EXCEPT !.at = "gate", !.cut = cut].at = "gate" /\ [NoFlush EXCEPT !.at = "gate", !.cut = cut].cut = cut
    BY DEF NoFlush
  <2> QED
    BY <1>t, <1>1, <2>1, <2>2, <2>3
<1>2. CASE ~(p.gate # "none" /\ f = "user")
  <2>1. flush' = [flush EXCEPT ![f] = [at |-> "due", base |-> p.base, next |-> world.recs, cut |-> cut]]
        /\ lane' = Append(lane, f) /\ p' = p
    BY <1>2 DEF Flush
  <2> QED
    BY <1>t, <1>2, <2>1 DEF LedgerAlike
<1> QED
  BY <1>1, <1>2

LEMMA FlushStored ==
  ASSUME Ready, NEW f \in Flushers, NEW cut, Flush(f, cut), world.loaded # {},
         f = "gate" => gates.at = "enter",
         UNCHANGED <<world, disk, save, calls, loads, evictable>>
  PROVE  \A r \in Kept' : RecordFit(r)'
<1> SUFFICES ASSUME NEW r \in Kept' PROVE RecordFit(r)'
  OBVIOUS
<1>1. /\ LedgerAlike(p, p') /\ \A o \in Flushers \ {f} : flush'[o] = flush[o]
      /\ \/ /\ flush'[f].at = "gate" /\ f = "user" /\ p.gate # "none" /\ lane' = lane
         \/ /\ flush'[f].at = "due" /\ flush'[f].base = p.base /\ flush'[f].next = world.recs
            /\ lane' = Append(lane, f) /\ (f = "user" => p.gate = "none")
  BY FlushBooks DEF Ready
<1>2. r \in Records /\ r \in Kept /\ RecordFit(r)
  BY DEF Ready, Kept
<1>3. Steady(r)
  BY DEF Steady, Current, IsStored
<1>4. WorldFit(r)' /\ FieldFit(r)' /\ SaveFit(r)'
  BY <1>1, <1>2, <1>3, WorldStays, FieldStays, SaveStays DEF RecordFit, LedgerAlike
<1>5. LoadFit(r)' /\ MissingFit(r)'
  BY <1>2, <1>3, LoadStays, MissingStays DEF LoadFit, RecordFit, Here
<1>6. Due => Due'
  BY <1>1 DEF LedgerAlike, Due
<1>7. SafeFit(r)' /\ EvictFit(r)'
  BY <1>1, <1>2, <1>3, <1>6, SafeFitStays, EvictStays DEF RecordFit, LedgerAlike
<1>8. FlushFit(r)'
  <2>1. ASSUME NEW o \in Flushers, o # f
        PROVE  flush'[o].at = "due" => WriteFits(flush[o].base, flush[o].next, r)'
    BY <1>1, <1>2, <1>3, <2>1, FlushStays DEF RecordFit
  <2>2. ASSUME flush'[f].at = "due" PROVE WriteFits(flush[f].base, flush[f].next, r)'
    <3>1. flush'[f].base = p.base /\ flush'[f].next = world.recs /\ (f = "user" => p.gate = "none")
      BY <1>1, <2>2
    <3>2. gates.at # "loading"
      BY <3>1 DEF Flushers, Ready, IInv, GateInv
    <3>3. ~Missing(r)
      BY <1>2, <3>2, NothingMissing
    <3>4. world.recs[r] = Current(r) /\ Current(r)' = Current(r)
      BY <1>3, <3>3 DEF Missing, Current, Steady
    <3>5. p'.base = p.base
      BY <1>1 DEF LedgerAlike
    <3> QED
      BY <1>4, <3>1, <3>4, <3>5 DEF WriteFits, FieldFit, WorldFit
  <2> QED
    BY <2>1, <2>2 DEF FlushFit
<1> QED
  BY <1>2, <1>4, <1>5, <1>7, <1>8 DEF RecordFit

\* A flush of the user.
LEMMA UserFlushStored ==
  ASSUME Ready, NEW cut, Flush("user", cut), world.loaded # {},
         UNCHANGED <<world, disk, save, calls, gates, loads, deleted, evictable, gone>>
  PROVE  OrderInv' /\ \A r \in Kept' : RecordFit(r)'
<1>0. "user" \in Flushers /\ "gate" \in Flushers
  BY DEF Flushers
<1>1. /\ LedgerAlike(p, p') /\ flush'["gate"] = flush["gate"]
      /\ \/ /\ flush'["user"].at = "gate" /\ p.gate # "none" /\ lane' = lane
         \/ /\ flush'["user"].at = "due" /\ p.gate = "none" /\ lane' = Append(lane, "user")
  BY <1>0, FlushBooks DEF Ready
<1>2. LaneOrder'
  <2>1. p.gate = "none" => gates.at = "none"
    BY DEF Ready, IInv, GateInv
  <2> QED
    BY <1>1, <2>1, LaneStays, UserJoins DEF Ready, OrderInv
<1>3. OrderInv'
  BY <1>1, <1>2 DEF Ready, OrderInv, GateOrder, CallOrder, CutOrder, LoadOrder, EvictOrder, NoLoads, Queued, LedgerAlike
<1> QED
  BY <1>0, <1>3, FlushStored

LEMMA UserFlushesStored ==
  ASSUME Ready, FlushAgain \/ UserRemoves
  PROVE  OrderInv' /\ \A r \in Kept' : RecordFit(r)'
<1>1. CASE FlushAgain
  <2>1. world.loaded # {}
    BY <1>1 DEF FlushAgain, Projected, Ready, Clean
  <2> QED
    BY <1>1, <2>1, UserFlushStored DEF FlushAgain, host
<1>2. CASE UserRemoves
  <2>1. world.loaded # {}
    BY <1>2 DEF UserRemoves, Noticed, Hydrated, Ready, Clean
  <2>2. PICK cut \in Records : Flush("user", cut)
    BY <1>2 DEF UserRemoves
  <2> QED
    BY <1>2, <2>1, <2>2, UserFlushStored DEF UserRemoves, host
<1> QED
  BY <1>1, <1>2

LEMMA GateEntersStored ==
  ASSUME Ready, GateEnters
  PROVE  OrderInv' /\ \A r \in Kept' : RecordFit(r)'
<1>0. gates.at = "enter" /\ gates \in GateStates /\ loads["range"].at = "none" /\ ~deleted
  BY DEF GateEnters, Enters, Ready, IInv, Types, GateType, OrderInv, GateOrder
<1>1. CASE p.gate = "delete"
  <2>1. /\ Persist("delete") /\ gates'.at = "saving" /\ gates'.queue = gates.queue
        /\ UNCHANGED <<world, disk, flush, loads, deleted, evictable, gone>>
    BY <1>0, <1>1 DEF GateEnters, At, GateStates, host
  <2>2. /\ CallOrder' /\ p'.render = None /\ p'.gate = p.gate /\ \A r \in Kept' : RecordFit(r)'
        /\ lane' = lane \/ lane' = Append(lane, "save")
        /\ calls'["evict"] = calls["evict"]
    <3>1. "delete" \in Callers /\ "evict" \in Callers /\ "delete" # "evict"
      BY DEF Callers
    <3> QED
      BY <1>0, <2>1, <3>1, PersistStored
  <2>3. LaneOrder'
    BY <1>0, <2>1, <2>2, LaneStays, LaneGrows DEF Ready, OrderInv
  <2> QED
    BY <1>0, <2>1, <2>2, <2>3 DEF Ready, OrderInv, GateOrder, CutOrder, LoadOrder, EvictOrder, NoLoads, Queued
<1>2. CASE p.gate # "delete"
  <2>1. /\ Flush("gate", 0) /\ gates'.at = "flushing" /\ gates'.queue = gates.queue
        /\ UNCHANGED <<world, disk, save, calls, loads, deleted, evictable, gone>>
        /\ world.loaded # {}
    BY <1>0, <1>2 DEF GateEnters, At, GateStates, host, Projected, Ready, Clean
  <2>2. "user" \in Flushers /\ "gate" \in Flushers /\ "user" # "gate"
    BY DEF Flushers
  <2>3. LedgerAlike(p, p') /\ flush'["user"] = flush["user"] /\ flush'["gate"].at = "due" /\ lane' = Append(lane, "gate")
    BY <2>1, <2>2, FlushBooks DEF Ready
  <2>4. LaneOrder'
    BY <1>0, <2>1, <2>3, GateJoins DEF Ready, OrderInv
  <2>5. OrderInv'
    BY <1>0, <1>2, <2>1, <2>3, <2>4 DEF Ready, OrderInv, GateOrder, CallOrder, CutOrder, LoadOrder, EvictOrder, NoLoads,
       Queued, LedgerAlike
  <2> QED
    BY <1>0, <2>1, <2>2, <2>5, FlushStored
<1> QED
  BY <1>1, <1>2

-----------------------------------------------------------------------------
(* Commits *)

\* The head of the lane leaves it; a flush that is committed may come back to truncate.
LEMMA LaneShrinks ==
  ASSUME LaneOrder, lane # <<>>, gates'.at = gates.at,
         \/ lane' = Tail(lane)
         \/ lane' = Append(Tail(lane), "user") /\ flush'["user"].at # "due",
         flush'["user"].at = "due" => flush["user"].at = "due" /\ Head(lane) # "user",
         Head(lane) # "gate" => flush'["gate"].at = flush["gate"].at,
         Head(lane) = "gate" => flush'["gate"].at # "due"
  PROVE  LaneOrder'
<1>1. /\ lane' \in Seq({"save"} \cup Flushers) /\ DOMAIN lane' \subseteq Nat \ {0} /\ DOMAIN lane \subseteq Nat \ {0}
      /\ 1 \in DOMAIN lane /\ lane[1] = Head(lane)
      /\ \A i \in DOMAIN lane' : lane'[i] = "gate" => i + 1 \in DOMAIN lane /\ lane[i + 1] = "gate"
  <2>1. CASE lane' = Tail(lane)
    BY <2>1 DEF LaneOrder
  <2>2. CASE lane' = Append(Tail(lane), "user")
    BY <2>2 DEF LaneOrder, Flushers
  <2> QED
    BY <2>1, <2>2
<1>2. ASSUME NEW i \in DOMAIN lane', lane'[i] = "gate"
      PROVE  flush'["gate"].at = "due" /\ \A j \in DOMAIN lane' : lane'[j] = "gate" => i = j
  <2>1. i + 1 \in DOMAIN lane /\ lane[i + 1] = "gate" /\ i \in Nat \ {0}
    BY <1>1, <1>2
  <2>2. flush["gate"].at = "due" /\ \A j \in DOMAIN lane : lane[j] = "gate" => i + 1 = j
    BY <2>1 DEF LaneOrder
  <2>3. Head(lane) # "gate"
    BY <1>1, <2>1, <2>2
  <2>4. ASSUME NEW j \in DOMAIN lane', lane'[j] = "gate" PROVE i = j
    <3>1. j + 1 \in DOMAIN lane /\ lane[j + 1] = "gate" /\ j \in Nat
      BY <1>1, <2>4
    <3> QED
      BY <2>1, <2>2, <3>1
  <2> QED
    BY <2>2, <2>3, <2>4
<1>3. ASSUME flush'["user"].at = "due"
      PROVE  /\ \E i \in DOMAIN lane' : lane'[i] = "user" /\ \A j \in DOMAIN lane' : j < i => lane'[j] # "gate"
             /\ Head(lane) # "gate"
  <2>1. lane' = Tail(lane) /\ flush["user"].at = "due" /\ Head(lane) # "user"
    BY <1>3
  <2>2. PICK i \in DOMAIN lane : lane[i] = "user" /\ \A j \in DOMAIN lane : j < i => lane[j] # "gate"
    BY <2>1 DEF LaneOrder
  <2>3. i \in Nat /\ i > 1
    BY <1>1, <2>1, <2>2
  <2>4. i - 1 \in DOMAIN lane' /\ lane'[i - 1] = "user"
    BY <2>1, <2>2, <2>3 DEF LaneOrder
  <2>5. ASSUME NEW j \in DOMAIN lane', j < i - 1 PROVE lane'[j] # "gate"
    <3>1. j + 1 < i /\ j \in Nat
      BY <1>1, <2>3, <2>5
    <3> QED
      BY <1>1, <2>2, <3>1
  <2> QED
    BY <1>1, <2>2, <2>3, <2>4, <2>5
<1>4. Head(lane) = "gate" => flush["gate"].at = "due"
  BY <1>1 DEF LaneOrder
<1>5. flush'["gate"].at # "idle" => gates'.at = "flushing"
  BY <1>4 DEF LaneOrder
<1>6. flush'["gate"].at = "ok" \/ gates'.at = "loading" => flush'["user"].at # "due"
  <2>1. gates'.at = "loading" => flush'["user"].at # "due"
    BY DEF LaneOrder
  <2>2. flush'["gate"].at = "ok" => flush'["user"].at # "due"
    BY <1>3 DEF LaneOrder
  <2> QED
    BY <2>1, <2>2
<1> QED
  BY <1>1, <1>2, <1>3, <1>5, <1>6 DEF LaneOrder

\* What is written is new or was there: nothing current is lost, and what was to be
\* written and is current is stored.
LEMMA WriteLands ==
  ASSUME Ready, NEW r \in Kept, RecordFit(r), NEW b, NEW n, b[r] \in Nat, n[r] \in Nat, WriteFits(b, n, r),
         ~Conflicts(b, n), disk'.recs = Written(b, n), world' = world
  PROVE  /\ Steady(r) /\ WorldFit(r)'
         /\ n[r] <= ops' + 1 /\ (n[r] = Current(r) => IsStored(r)')
         /\ disk.recs[r] = world.recs[r] => disk'.recs[r] = disk.recs[r]
<1>1. r \in Records /\ ops \in Nat /\ ops' \in Nat /\ ops <= ops'
  BY Counted, CountedNext DEF Ready, Kept
<1>2. world.recs[r] \in Nat /\ disk.recs[r] \in Nat
  BY <1>1, Numbers DEF Ready, Numeric
<1>3. /\ disk'.recs[r] = IF n[r] # b[r] THEN n[r] ELSE disk.recs[r]
      /\ n[r] # b[r] => disk.recs[r] \in {b[r], n[r]}
  BY <1>1 DEF Conflicts, Written
<1>4. n[r] <= ops' + 1 /\ WorldFit(r)'
  BY <1>1, <1>2, <1>3 DEF WriteFits, WorldFit, RecordFit
<1>5. b[r] = Current(r) => n[r] = Current(r) /\ disk.recs[r] = Current(r)
  BY DEF WriteFits, Fits, IsStored
<1>6. disk'.recs[r] = disk.recs[r] \/ (n[r] # b[r] /\ disk.recs[r] = b[r] /\ disk'.recs[r] = n[r] /\ b[r] # Current(r))
  BY <1>3, <1>5
<1>7. disk'.recs[r] # disk.recs[r] => world.recs[r] # 0 /\ disk.recs[r] # Current(r)
  BY <1>6 DEF Current
<1>8. Steady(r)
  BY <1>7 DEF Steady, Current, IsStored
<1>9. disk.recs[r] = world.recs[r] => disk'.recs[r] = disk.recs[r]
  BY <1>7 DEF Current
<1>10. n[r] = Current(r) => IsStored(r)'
  BY <1>3, <1>5, <1>8 DEF Steady, IsStored
<1> QED
  BY <1>4, <1>8, <1>9, <1>10

\* A commit is made while no range is read.
LEMMA RangeWaits ==
  ASSUME Ready, p.busy \/ flush["gate"].at = "due" \/ flush["user"].at = "due"
  PROVE  loads["range"].at = "none"
<1>1. p.busy => gates.at # "loading"
  BY DEF Ready, IInv, GateInv
<1> QED
  BY <1>1 DEF Ready, OrderInv, GateOrder, LaneOrder

LEMMA SaveCommitsStored ==
  ASSUME Ready, SaveCommits
  PROVE  OrderInv' /\ \A r \in Kept' : RecordFit(r)'
<1> DEFINE b == save.base
           n == save.render
<1>1. p.busy /\ save \in Saving /\ p \in Fields /\ disk \in Disks /\ save.saved = "due"
  BY DEF SaveCommits, Ready, IInv, Types, SaveType, NoSave, FieldType, Fields, DiskType
<1>2. UNCHANGED <<world, calls, flush, gates, loads, deleted, evictable, gone>>
      /\ lane # <<>> /\ Head(lane) = "save" /\ lane' = Tail(lane)
  BY DEF SaveCommits, host
<1>3. \/ /\ save'.saved \in {"failed", "conflict"} /\ disk' = disk /\ p' = p
      \/ /\ save'.saved = "ok" /\ ~Conflicts(b, n) /\ disk'.recs = Written(b, n)
         /\ p' = [p EXCEPT !.base = n, !.json = n]
  BY <1>1 DEF SaveCommits, Saving, Disks
<1>4. save'.by = save.by
  BY <1>1 DEF SaveCommits, Saving
<1>5. /\ p'.render = p.render /\ p'.gate = p.gate /\ p'.projected = p.projected /\ p'.timer = p.timer
      /\ p'.busy = p.busy /\ p'.afterSave = p.afterSave /\ p'.afterGate = p.afterGate
      /\ save'.saved = "ok" => p'.base = n /\ p'.json = n
  <2> HIDE DEF b, n
  <2> QED
    BY <1>1, <1>3 DEF Fields
<1>6. loads["range"].at = "none"
  BY <1>1, RangeWaits
<1>7. LaneOrder'
  BY <1>2, LaneShrinks DEF Ready, OrderInv
<1>8. OrderInv'
  BY <1>2, <1>4, <1>5, <1>7 DEF Ready, OrderInv, GateOrder, CallOrder, CutOrder, LoadOrder, EvictOrder, NoLoads, Queued
<1>9. ASSUME NEW r \in Kept' PROVE RecordFit(r)'
  <2>1. r \in Records /\ r \in Kept /\ RecordFit(r)
    BY <1>9 DEF Ready, Kept
  <2>2. Numeric(r)
    BY <2>1, Numbers DEF Ready
  <2>3. SaveFit(r)'
    BY <1>3 DEF SaveFit
  <2>4. ASSUME Steady(r), WorldFit(r)', FieldFit(r)', SafeFit(r)', EvictFit(r)' PROVE RecordFit(r)'
    <3>1. FlushFit(r)'
      BY <1>2, <2>1, <2>4, FlushStays DEF RecordFit, FlushFit
    <3>2. LoadFit(r)' /\ MissingFit(r)'
      BY <1>2, <1>6, <2>1, <2>4, LoadStays, MissingStays DEF LoadFit, RecordFit, Here
    <3> QED
      BY <2>3, <2>4, <3>1, <3>2 DEF RecordFit
  <2>5. CASE save'.saved \in {"failed", "conflict"} /\ disk' = disk /\ p' = p
    <3>1. Steady(r)
      BY <1>2, <2>5 DEF Steady, Current, IsStored
    <3>2. WorldFit(r)' /\ FieldFit(r)'
      BY <1>2, <2>1, <2>5, <3>1, WorldStays, FieldStays DEF RecordFit
    <3>3. SafeFit(r)'
      BY <1>2, <2>1, <2>5, <3>1 DEF RecordFit, SafeFit, Safe, Failing, Steady
    <3>4. EvictFit(r)'
      BY <1>2, <2>1, <2>5 DEF RecordFit, EvictFit, Failing
    <3> QED
      BY <2>4, <3>1, <3>2, <3>3, <3>4
  <2>6. CASE save'.saved = "ok" /\ ~Conflicts(b, n) /\ disk'.recs = Written(b, n)
    <3>1. b[r] \in Nat /\ n[r] \in Nat /\ WriteFits(b, n, r)
      BY <1>1, <2>1, <2>2 DEF Numeric, RecordFit, SaveFit
    <3>2. /\ Steady(r) /\ WorldFit(r)'
          /\ n[r] <= ops' + 1 /\ (n[r] = Current(r) => IsStored(r)')
          /\ disk.recs[r] = world.recs[r] => disk'.recs[r] = disk.recs[r]
      <4> HIDE DEF b, n
      <4> QED
        BY <1>2, <2>1, <2>6, <3>1, WriteLands
    <3>3. FieldFit(r)'
      <4>1. Current(r)' = Current(r)
        BY <3>2 DEF Steady
      <4>2. p'.base[r] = n[r] /\ p'.json[r] = n[r]
        BY <1>5, <2>6
      <4>3. p'.projected[1][r] <= ops' + 1
        <5>1. ops \in Nat /\ ops' \in Nat /\ ops <= ops'
          BY Counted, CountedNext DEF Ready
        <5> QED
          BY <1>5, <2>1, <2>2, <5>1 DEF RecordFit, FieldFit, Numeric
      <4> HIDE DEF n
      <4> QED
        BY <3>2, <4>1, <4>2, <4>3 DEF FieldFit, Fits
    <3>4. Safe(r) => IsStored(r)'
      BY <1>1, <3>2 DEF Safe, Carried, Failing, Steady
    <3>5. SafeFit(r)'
      <4>1. Due => Due'
        BY <1>5 DEF Due
      <4>2. IsStored(r) => IsStored(r)'
        BY <3>2 DEF Steady
      <4>3. Current(r)' = Current(r)
        BY <3>2 DEF Steady
      <4>4. world'.loaded = {} => IsStored(r)'
        BY <1>2, <2>1, <4>2 DEF RecordFit, SafeFit
      <4>5. p'.projected[1][r] = Current(r)' => Safe(r)'
        BY <1>5, <2>1, <3>4, <4>3 DEF RecordFit, SafeFit, Safe
      <4>6. Safe(r)' \/ Due'
        BY <2>1, <3>4, <4>1 DEF RecordFit, SafeFit, Safe
      <4> QED
        BY <4>4, <4>5, <4>6 DEF SafeFit
    <3>6. EvictFit(r)'
      <4> SUFFICES ASSUME evictable, calls["evict"] \in {"save", "done"} PROVE disk'.recs[r] = world.recs[r]
        BY <1>2 DEF EvictFit
      <4>1. CASE disk.recs[r] = world.recs[r]
        BY <3>2, <4>1
      <4>2. CASE n[r] = world.recs[r] /\ calls["evict"] = "save"
        <5>1. world.loaded # {}
          BY <4>2 DEF Ready, OrderInv, EvictOrder
        <5>2. gates.at # "loading"
          BY <1>1 DEF Ready, IInv, GateInv
        <5>3. ~Missing(r)
          BY <2>1, <5>1, <5>2, NothingMissing
        <5>4. Current(r) = world.recs[r]
          BY <5>3 DEF Missing, Current
        <5> QED
          BY <3>2, <4>2, <5>4 DEF Steady, IsStored
      <4> QED
        BY <1>1, <2>1, <4>1, <4>2 DEF RecordFit, EvictFit, Failing
    <3> QED
      BY <2>4, <3>2, <3>3, <3>5, <3>6
  <2> QED
    BY <1>3, <2>5, <2>6
<1> QED
  BY <1>8, <1>9

LEMMA FlushCommitsStored ==
  ASSUME Ready, NEW f \in Flushers, FlushCommits(f)
  PROVE  OrderInv' /\ \A r \in Kept' : RecordFit(r)'
<1> DEFINE b == flush[f].base
           n == flush[f].next
           done == IF f = "user" THEN "cut" ELSE "ok"
<1>t. p \in Fields /\ disk \in Disks /\ flush \in [Flushers -> Flushing]
  BY DEF Ready, IInv, Types, FieldType, DiskType, FlushType
<1>0. flush[f].at = "due" /\ lane # <<>> /\ Head(lane) = f
  BY DEF FlushCommits
<1>1. /\ ~Conflicts(b, n) /\ disk' = [disk EXCEPT !.recs = Written(b, n)]
      /\ p' = [p EXCEPT !.base = n, !.json = n]
      /\ flush' = [flush EXCEPT ![f].at = done]
      /\ lane' = IF f = "user" THEN Append(Tail(lane), f) ELSE Tail(lane)
  BY DEF FlushCommits, Ready, Clean
<1>2. UNCHANGED <<world, save, calls, gates, loads, deleted, evictable, gone>>
  BY DEF FlushCommits, host
<1>3. /\ p'.render = p.render /\ p'.gate = p.gate /\ p'.projected = p.projected /\ p'.timer = p.timer
      /\ p'.busy = p.busy /\ p'.afterSave = p.afterSave /\ p'.afterGate = p.afterGate
      /\ p'.base = n /\ p'.json = n
  <2> HIDE DEF b, n
  <2> QED
    BY <1>t, <1>1 DEF Fields
<1>4. disk'.recs = Written(b, n)
  BY <1>t, <1>1 DEF Disks
<1>5. flush'[f].at = done /\ \A o \in Flushers \ {f} : flush'[o] = flush[o]
  <2>1. done \in {"cut", "ok"}
    OBVIOUS
  <2> HIDE DEF done
  <2> QED
    BY <1>t, <1>1 DEF Flushing
<1>6. loads["range"].at = "none"
  BY <1>0, RangeWaits DEF Flushers
<1>7. LaneOrder'
  BY <1>0, <1>1, <1>2, <1>5, LaneShrinks DEF Ready, OrderInv, Flushers
<1>8. OrderInv'
  <2>1. CutOrder'
    BY <1>2, <1>5 DEF Ready, OrderInv, CutOrder, Flushers
  <2> QED
    BY <1>2, <1>3, <1>7, <2>1 DEF Ready, OrderInv, GateOrder, CallOrder, LoadOrder, EvictOrder, NoLoads, Queued
<1>9. ASSUME NEW r \in Kept' PROVE RecordFit(r)'
  <2>1. r \in Records /\ r \in Kept /\ RecordFit(r)
    BY <1>9 DEF Ready, Kept
  <2>2. Numeric(r)
    BY <2>1, Numbers DEF Ready
  <2>3. b[r] \in Nat /\ n[r] \in Nat /\ WriteFits(b, n, r)
    BY <1>0, <2>1, <2>2 DEF Numeric, RecordFit, FlushFit
  <2>4. /\ Steady(r) /\ WorldFit(r)'
        /\ n[r] <= ops' + 1 /\ (n[r] = Current(r) => IsStored(r)')
        /\ disk.recs[r] = world.recs[r] => disk'.recs[r] = disk.recs[r]
    <3> HIDE DEF b, n
    <3> QED
      BY <1>1, <1>2, <1>4, <2>1, <2>3, WriteLands
  <2>5. FieldFit(r)'
    <3>1. Current(r)' = Current(r)
      BY <2>4 DEF Steady
    <3>2. p'.base[r] = n[r] /\ p'.json[r] = n[r]
      BY <1>3
    <3>3. p'.projected[1][r] <= ops' + 1
      <4>1. ops \in Nat /\ ops' \in Nat /\ ops <= ops'
        BY Counted, CountedNext DEF Ready
      <4> QED
        BY <1>3, <2>1, <2>2, <4>1 DEF RecordFit, FieldFit, Numeric
    <3> HIDE DEF n
    <3> QED
      BY <2>4, <3>1, <3>2, <3>3 DEF FieldFit, Fits
  <2>6. SaveFit(r)' /\ LoadFit(r)' /\ MissingFit(r)'
    BY <1>2, <1>6, <2>1, <2>4, SaveStays, LoadStays, MissingStays DEF LoadFit, RecordFit, Here
  <2>7. FlushFit(r)'
    <3>1. ASSUME NEW o \in Flushers, o # f
          PROVE  flush'[o].at = "due" => WriteFits(flush[o].base, flush[o].next, r)'
      BY <1>5, <2>1, <2>4, <3>1, FlushStays DEF RecordFit
    <3> QED
      BY <1>5, <3>1 DEF FlushFit
  <2>8. SafeFit(r)'
    <3>1. Due => Due'
      BY <1>3 DEF Due
    <3> QED
      BY <1>2, <1>3, <2>1, <2>4, <3>1, SafeFitStays DEF RecordFit
  <2>9. EvictFit(r)'
    BY <1>2, <2>1, <2>4, EvictStays DEF RecordFit
  <2> QED
    BY <2>4, <2>5, <2>6, <2>7, <2>8, <2>9 DEF RecordFit
<1> QED
  BY <1>8, <1>9

\* What is removed is gone for good.
LEMMA TruncateCommitsStored ==
  ASSUME Ready, TruncateCommits
  PROVE  OrderInv' /\ \A r \in Kept' : RecordFit(r)'
<1>t. disk \in Disks /\ flush \in [Flushers -> Flushing] /\ "user" \in Flushers /\ "gate" \in Flushers
  BY DEF Ready, IInv, Types, DiskType, FlushType, Flushers
<1>0. flush["user"].at = "cut" /\ lane # <<>> /\ Head(lane) = "user" /\ lane' = Tail(lane)
  BY DEF TruncateCommits
<1>1. UNCHANGED <<world, p, save, calls, gates, loads, deleted, evictable>>
  BY DEF TruncateCommits
<1>2. /\ flush'["user"].at \in {"removed", "idle"} /\ flush'["gate"] = flush["gate"]
      /\ flush'["user"].at = "removed" =>
           flush'["user"].cut = flush["user"].cut /\ gone' = gone \cup From(flush["user"].cut)
      /\ \A r \in Records \ gone' : disk'.recs[r] = disk.recs[r]
  <2>1. CASE /\ disk' = [disk EXCEPT !.recs = [r \in Records |-> IF r \in From(flush["user"].cut) THEN 0 ELSE @[r]]]
             /\ gone' = gone \cup From(flush["user"].cut)
             /\ flush' = [flush EXCEPT !["user"].at = "removed"]
    BY <1>t, <2>1 DEF Disks, Flushing
  <2>2. CASE flush' = [flush EXCEPT !["user"] = NoFlush] /\ UNCHANGED <<disk, gone>>
    BY <1>t, <2>2 DEF NoFlush
  <2> QED
    BY <2>1, <2>2 DEF TruncateCommits
<1>3. LaneOrder'
  BY <1>0, <1>1, <1>2, LaneShrinks DEF Ready, OrderInv
<1>4. OrderInv'
  BY <1>1, <1>2, <1>3 DEF Ready, OrderInv, GateOrder, CallOrder, CutOrder, LoadOrder, EvictOrder, NoLoads, Queued
<1> QED
  BY <1>1, <1>2, <1>4, RestsKept DEF Kept, Here, Due, Flushers

-----------------------------------------------------------------------------
(* The end of a save *)

LEMMA SaveEndsBooks ==
  ASSUME Ready, SaveEnds
  PROVE  /\ p.busy /\ save \in Saving /\ save.saved = "ok" /\ save' = NoSave
         /\ p'.base = p.base /\ p'.json = p.json /\ p'.projected = p.projected /\ p'.render = None
         /\ p'.gate = p.gate /\ (Due => Due')
         /\ calls' = [Woken("wait") EXCEPT ![save.by] = "done"]
<1> DEFINE q == [p EXCEPT !.attempts = 0, !.busy = FALSE]
           calm == [q EXCEPT !.afterSave = FALSE]
           marked == MarkPending(calm)
           pending == SchedulePersistCheck(marked)
<1>t. p \in Fields /\ save \in Saving /\ p.busy /\ p.render = None
  BY DEF SaveEnds, Ready, IInv, Types, FieldType, SaveType, OrderInv
<1>1. Saved(save)
  BY DEF SaveEnds, Ready, Clean
<1>2. /\ save' = NoSave /\ calls' = [Woken("wait") EXCEPT ![save.by] = "done"]
      /\ p' = IF q.afterSave THEN pending ELSE [q EXCEPT !.status = "saved"]
  BY <1>1 DEF SaveEnds, q, pending, marked, calm
<1>3. /\ q \in Fields /\ q.base = p.base /\ q.json = p.json /\ q.projected = p.projected /\ q.render = None
      /\ q.gate = p.gate /\ q.timer = p.timer /\ q.afterSave = p.afterSave /\ q.afterGate = p.afterGate
  <2>1. 0 \in 0..Retries
    BY Bounds
  <2> QED
    BY <1>t, <2>1 DEF Fields
<1> HIDE DEF q
<1>4. /\ calm \in Fields /\ calm.base = p.base /\ calm.json = p.json /\ calm.projected = p.projected
      /\ calm.render = None /\ calm.gate = p.gate
  BY <1>3 DEF Fields
<1> HIDE DEF calm
<1>5. marked \in Fields /\ LedgerAlike(calm, marked)
  BY <1>4, Scheduled, SchedulesLedger
<1> HIDE DEF marked
<1>6. LedgerAlike(marked, pending) /\ Scheduling(pending)
  BY <1>5, SchedulesLedger
<1> HIDE DEF pending
<1>7. CASE q.afterSave
  BY <1>1, <1>2, <1>4, <1>5, <1>6, <1>7, <1>t, DueNextIs DEF LedgerAlike, Saved
<1>8. CASE ~q.afterSave
  <2>1. p' = [q EXCEPT !.status = "saved"]
    BY <1>2, <1>8
  <2>2. LedgerAlike(q, p')
    BY <1>3, <2>1 DEF LedgerAlike, Fields
  <2> QED
    BY <1>1, <1>2, <1>3, <1>8, <2>2, <1>t DEF LedgerAlike, Saved, Due
<1> QED
  BY <1>7, <1>8

LEMMA SaveEndsStored ==
  ASSUME Ready, SaveEnds
  PROVE  OrderInv' /\ \A r \in Kept' : RecordFit(r)'
<1>1. /\ p.busy /\ save \in Saving /\ save.saved = "ok" /\ save' = NoSave
      /\ p'.base = p.base /\ p'.json = p.json /\ p'.projected = p.projected /\ p'.render = None
      /\ p'.gate = p.gate /\ (Due => Due')
      /\ calls' = [Woken("wait") EXCEPT ![save.by] = "done"]
  BY SaveEndsBooks
<1>2. UNCHANGED <<world, disk, flush, lane, loads, deleted, evictable, gone>>
      /\ gates'.at = gates.at /\ gates'.queue = gates.queue
  <2>1. gates \in GateStates
    BY DEF Ready, IInv, Types, GateType
  <2> QED
    BY <2>1 DEF SaveEnds, host, GateStates
<1>3. calls'["evict"] = IF save.by = "evict" THEN "done" ELSE IF calls["evict"] = "wait" THEN "again" ELSE calls["evict"]
  <2>1. "evict" \in Callers /\ save.by \in Callers
    BY <1>1 DEF Callers, Saving
  <2> QED
    BY <1>1, <2>1 DEF Woken
<1>4. calls["evict"] = "save" <=> save.by = "evict"
  BY DEF Ready, OrderInv, CallOrder
<1>5. save'.by = "none" /\ save'.saved = "none"
  BY <1>1 DEF NoSave
<1>6. OrderInv'
  <2>1. LaneOrder'
    BY <1>2, LaneStays DEF Ready, OrderInv
  <2>2. CallOrder'
    BY <1>3, <1>4, <1>5 DEF CallOrder
  <2>3. EvictOrder'
    BY <1>2, <1>3, <1>4 DEF Ready, OrderInv, EvictOrder, NoLoads, Queued
  <2> QED
    BY <1>1, <1>2, <2>1, <2>2, <2>3 DEF Ready, OrderInv, GateOrder, CutOrder, LoadOrder, Queued
<1>7. ASSUME NEW r \in Kept' PROVE RecordFit(r)'
  <2>1. r \in Records /\ r \in Kept /\ RecordFit(r)
    BY <1>7 DEF Ready, Kept
  <2>2. Steady(r)
    BY <1>2 DEF Steady, Current, IsStored
  <2>3. WorldFit(r)' /\ FieldFit(r)' /\ SaveFit(r)'
    BY <1>1, <1>2, <1>5, <2>1, <2>2, WorldStays, FieldStays, SaveStays DEF RecordFit
  <2>4. FlushFit(r)' /\ LoadFit(r)' /\ MissingFit(r)'
    BY <1>2, <2>1, <2>2, FlushStays, LoadStays, MissingStays DEF RecordFit, FlushFit, LoadFit, Here
  <2>5. Safe(r) => IsStored(r)'
    BY <1>1, <2>2 DEF Safe, Carried, Failing, Steady
  <2>6. SafeFit(r)'
    <3>1. IsStored(r) => IsStored(r)'
      BY <2>2 DEF Steady
    <3>2. Current(r)' = Current(r)
      BY <2>2 DEF Steady
    <3> QED
      BY <1>1, <1>2, <2>1, <2>5, <3>1, <3>2 DEF RecordFit, SafeFit, Safe
  <2>7. EvictFit(r)'
    BY <1>1, <1>2, <1>3, <1>4, <2>1 DEF RecordFit, EvictFit, Failing
  <2> QED
    BY <2>3, <2>4, <2>6, <2>7 DEF RecordFit
<1> QED
  BY <1>6, <1>7

-----------------------------------------------------------------------------
(* Changes of the world *)

\* A change of the world asks for a save.
LEMMA QueueBooks ==
  ASSUME IInv, p' = QueuePersist(p)
  PROVE  LedgerAlike(p, p') /\ Due'
<1>1. p \in Fields
  BY DEF IInv, Types, FieldType
<1> QED
  BY <1>1, QueueLedger, DueNextIs

\* A new version is not known to anybody, and is due.
LEMMA EditStored ==
  ASSUME Ready, NEW e \in Records, Edit(e)
  PROVE  OrderInv' /\ \A r \in Kept' : RecordFit(r)'
<1>1. /\ world.open /\ NoLoads /\ world.loaded # {} /\ ops' = ops + 1 /\ ops \in Nat
      /\ UNCHANGED <<disk, save, calls, flush, lane, gates, loads, deleted, evictable, gone>>
  BY Counted DEF Edit, Acted, Noticed, Hydrated, Ready, Clean, host
<1>2. LedgerAlike(p, p') /\ Due'
  BY QueueBooks DEF Edit, Ready
<1>3. /\ world'.open = world.open /\ world'.loaded = world.loaded
      /\ \A r \in Records : world'.recs[r] = IF r = e THEN ops + 2 ELSE world.recs[r]
  BY DEF Edit, Ready, IInv, Types, WorldType, Worlds, Contents
<1>4. ~evictable
  BY <1>1 DEF Ready, OrderInv, EvictOrder
<1>5. LaneOrder'
  BY <1>1, LaneStays DEF Ready, OrderInv
<1>6. OrderInv'
  BY <1>1, <1>2, <1>3, <1>4, <1>5 DEF Ready, OrderInv, GateOrder, CallOrder, CutOrder, LoadOrder, EvictOrder, Queued, LedgerAlike
<1>7. ASSUME NEW r \in Kept' PROVE RecordFit(r)'
  <2>1. r \in Records /\ r \in Kept /\ RecordFit(r)
    BY <1>7 DEF Ready, Kept
  <2>2. EvictFit(r)'
    BY <1>1, <1>4 DEF EvictFit
  <2>3. CASE r # e
    <3>1. world'.recs[r] = world.recs[r]
      BY <1>3, <2>1, <2>3
    <3>2. Steady(r)
      BY <1>1, <3>1 DEF Steady, Current, IsStored
    <3>3. WorldFit(r)' /\ FieldFit(r)' /\ SaveFit(r)'
      BY <1>1, <1>2, <2>1, <3>1, <3>2, WorldStays, FieldStays, SaveStays DEF RecordFit, LedgerAlike
    <3>4. FlushFit(r)' /\ LoadFit(r)' /\ MissingFit(r)'
      BY <1>1, <1>3, <2>1, <3>1, <3>2, FlushStays, LoadStays, MissingStays DEF RecordFit, FlushFit, LoadFit, Here
    <3>5. SafeFit(r)'
      BY <1>1, <1>2, <1>3, <2>1, <3>2, SafeFitStays DEF RecordFit, LedgerAlike
    <3> QED
      BY <2>2, <3>3, <3>4, <3>5 DEF RecordFit
  <2>4. CASE r = e
    <3>1. world'.recs[r] = ops + 2 /\ Current(r)' = ops + 2 /\ ops' + 1 = ops + 2
      BY <1>1, <1>3, <2>1, <2>4 DEF Current
    <3>2. Numeric(r)
      BY <2>1, Numbers DEF Ready
    <3>3. ASSUME NEW x, x[r] \in Nat, x[r] <= ops + 1 PROVE x[r] <= ops' + 1 /\ x[r] # ops + 2
      BY <1>1, <3>3
    <3>4. WorldFit(r)'
      BY <1>1, <2>1, <3>1, <3>2, <3>3 DEF RecordFit, WorldFit, Numeric
    <3>5. FieldFit(r)'
      <4>1. p.base[r] <= ops + 1 /\ p.projected[1][r] <= ops + 1 /\ (p.json # None => p.json[r] <= ops + 1)
        BY <2>1 DEF RecordFit, FieldFit, Fits
      <4>2. Fits(p.base, r)'
        BY <1>2, <3>1, <3>2, <3>3, <4>1 DEF Fits, Numeric, LedgerAlike
      <4>3. p'.json # None => Fits(p.json, r)'
        BY <1>2, <3>1, <3>2, <3>3, <4>1 DEF Fits, Numeric, LedgerAlike
      <4>4. p'.projected[1][r] <= ops' + 1
        BY <1>1, <1>2, <3>2, <4>1 DEF Numeric, LedgerAlike
      <4> QED
        BY <4>2, <4>3, <4>4 DEF FieldFit
    <3>6. SaveFit(r)'
      BY <1>1, <2>1, <3>1, <3>2, <3>3 DEF RecordFit, SaveFit, WriteFits, Fits, Numeric
    <3>7. FlushFit(r)'
      BY <1>1, <2>1, <3>1, <3>2, <3>3 DEF RecordFit, FlushFit, WriteFits, Fits, Numeric
    <3>8. LoadFit(r)'
      <4> SUFFICES ASSUME NEW k \in LoadKinds, loads[k].at # "none"
                   PROVE  Fits(loads[k].page, r)' /\ loads[k].page[r] = disk.recs[r] /\ k = "range"
        BY <1>1, <2>1 DEF LoadFit, RecordFit
      <4>1. k = "range"
        BY <1>1 DEF NoLoads, LoadKinds
      <4>2. loads[k].page[r] \in Nat /\ loads[k].page[r] <= ops + 1 /\ loads[k].page[r] = disk.recs[r]
        BY <2>1, <3>2, <4>1 DEF RecordFit, LoadFit, Fits, Numeric
      <4>3. Fits(loads[k].page, r)'
        BY <1>1, <3>1, <3>3, <4>2 DEF Fits
      <4> QED
        BY <4>1, <4>2, <4>3
    <3>9. MissingFit(r)'
      BY <1>1, <3>1 DEF MissingFit, Missing
    <3>10. SafeFit(r)'
      <4>1. p'.projected[1][r] # Current(r)'
        <5>1. p.projected[1][r] \in Nat /\ p.projected[1][r] <= ops + 1
          BY <2>1, <3>2 DEF RecordFit, FieldFit, Numeric
        <5> QED
          BY <1>1, <1>2, <3>1, <5>1 DEF LedgerAlike
      <4> QED
        BY <1>1, <1>2, <1>3, <4>1 DEF SafeFit
    <3> QED
      BY <2>2, <3>4, <3>5, <3>6, <3>7, <3>8, <3>9, <3>10 DEF RecordFit
  <2> QED
    BY <2>3, <2>4
<1> QED
  BY <1>6, <1>7

\* A tick takes away what is gone already.
LEMMA TickStored ==
  ASSUME Ready, Tick
  PROVE  OrderInv' /\ \A r \in Kept' : RecordFit(r)'
<1>t. world \in Worlds /\ flush \in [Flushers -> Flushing] /\ "user" \in Flushers /\ "gate" \in Flushers
  BY DEF Ready, IInv, Types, WorldType, FlushType, Flushers
<1>1. UNCHANGED <<disk, save, calls, lane, gates, loads, deleted, evictable, gone>>
  BY DEF Tick
<1>2. LedgerAlike(p, p') /\ Due'
  BY QueueBooks DEF Tick, Ready
<1>3. /\ world'.loaded = world.loaded /\ world'.open = world.open
      /\ \A r \in Records \ gone : world'.recs[r] = world.recs[r]
      /\ Here' => Here
      /\ flush'["gate"] = flush["gate"]
      /\ flush'["user"].at \in {"due", "removed"} => flush' = flush
  <2>1. CASE flush["user"].at = "removed"
    <3>1. /\ world' = [world EXCEPT !.recs = [r \in Records |-> IF r \in From(flush["user"].cut) THEN 0 ELSE @[r]]]
          /\ flush' = [flush EXCEPT !["user"] = NoFlush]
      BY <2>1 DEF Tick
    <3>2. /\ world'.loaded = world.loaded /\ world'.open = world.open
          /\ \A r \in Records : world'.recs[r] \in {0, world.recs[r]}
          /\ \A r \in Records \ From(flush["user"].cut) : world'.recs[r] = world.recs[r]
          /\ world'.recs = [r \in Records |-> world'.recs[r]]
      BY <1>t, <3>1 DEF Worlds
    <3>3. From(flush["user"].cut) \subseteq gone
      BY <2>1 DEF Ready, OrderInv, CutOrder
    <3>4. world.recs = Nothing => world'.recs = Nothing
      <4> SUFFICES ASSUME world.recs = Nothing PROVE world'.recs = Nothing
        OBVIOUS
      <4>1. \A r \in Records : world'.recs[r] = 0
        BY <3>2 DEF Nothing
      <4> QED
        BY <3>2, <4>1 DEF Nothing
    <3>5. Here' => Here
      BY <3>2, <3>4 DEF Here, Nothing
    <3>6. flush'["gate"] = flush["gate"] /\ flush'["user"].at = "idle"
      BY <1>t, <3>1 DEF NoFlush
    <3> QED
      BY <3>2, <3>3, <3>5, <3>6
  <2>2. CASE flush["user"].at # "removed"
    BY <2>2 DEF Tick, Here
  <2> QED
    BY <2>1, <2>2
<1>4. LaneOrder'
  BY <1>1, <1>3, LaneStays DEF Ready, OrderInv
<1>5. OrderInv'
  BY <1>1, <1>2, <1>3, <1>4 DEF Ready, OrderInv, GateOrder, CallOrder, CutOrder, LoadOrder, EvictOrder, NoLoads, Queued,
     LedgerAlike
<1>6. \A r \in Kept' : world'.recs[r] = world.recs[r] /\ disk'.recs[r] = disk.recs[r]
  BY <1>1, <1>3 DEF Kept
<1> QED
  BY <1>1, <1>2, <1>3, <1>5, <1>6, RestsKept DEF LedgerAlike, Flushers

-----------------------------------------------------------------------------
(* Eviction *)

\* What an eviction discards is stored.
LEMMA DiscardsStored ==
  ASSUME \A r \in Kept : RecordFit(r), EvictEnds, MayEvict
  PROVE  \A r \in Kept : disk.recs[r] = world.recs[r]
BY DEF EvictEnds, MayEvict, RecordFit, EvictFit

LEMMA EvictEndsStored ==
  ASSUME Ready, EvictEnds
  PROVE  OrderInv' /\ \A r \in Kept' : RecordFit(r)'
<1>t. world \in Worlds /\ calls \in CallStates /\ "evict" \in Callers
  BY DEF Ready, IInv, Types, WorldType, CallType, Callers
<1>1. /\ UNCHANGED <<disk, p, save, flush, lane, gates, loads, deleted, evictable, gone>>
      /\ calls["evict"] = "done" /\ calls'["evict"] = "idle"
  BY <1>t DEF EvictEnds, CallStates
<1>2. LaneOrder'
  BY <1>1, LaneStays DEF Ready, OrderInv
<1>3. CASE ~MayEvict
  <2>1. world' = world
    BY <1>3 DEF EvictEnds
  <2>2. OrderInv'
    BY <1>1, <1>2, <2>1 DEF Ready, OrderInv, GateOrder, CallOrder, CutOrder, LoadOrder, EvictOrder, NoLoads, Queued
  <2> QED
    BY <1>1, <2>1, <2>2, Rests DEF Due
<1>4. CASE MayEvict
  <2>1. world'.recs = Nothing /\ world'.loaded = {} /\ world'.open = world.open
    BY <1>t, <1>4 DEF EvictEnds, Worlds
  <2>2. loads["range"].todo = {}
    BY <1>4 DEF EvictEnds, Ready, Clean
  <2>3. NoLoads
    BY <1>4 DEF MayEvict, Evictable
  <2>4. OrderInv'
    BY <1>1, <1>2, <2>1 DEF Ready, OrderInv, GateOrder, CallOrder, CutOrder, LoadOrder, EvictOrder, NoLoads, Queued
  <2>5. ASSUME NEW r \in Kept' PROVE RecordFit(r)'
    <3>1. r \in Records /\ r \in Kept /\ RecordFit(r)
      BY <2>5 DEF Ready, Kept
    <3>2. disk.recs[r] = world.recs[r]
      BY <1>4, <3>1, DiscardsStored DEF Ready
    <3>3. world'.recs[r] = 0
      BY <2>1, <3>1 DEF Nothing
    <3>4. Current(r) = disk.recs[r] /\ Current(r)' = disk.recs[r] /\ IsStored(r) /\ IsStored(r)'
      BY <1>1, <3>2, <3>3 DEF Current, IsStored
    <3>5. Steady(r)
      BY <1>1, <3>4 DEF Steady
    <3>6. WorldFit(r)'
      <4>1. ops \in Nat /\ ops' \in Nat /\ ops <= ops'
        BY Counted, CountedNext DEF Ready
      <4>2. disk.recs[r] \in Nat
        BY <3>1, Numbers DEF Ready, Numeric
      <4>3. disk.recs[r] <= ops + 1 /\ disk'.recs[r] = disk.recs[r]
        BY <1>1, <3>1 DEF RecordFit, WorldFit
      <4>4. disk'.recs[r] <= ops' + 1
        BY <4>1, <4>2, <4>3
      <4>5. world'.recs[r] <= ops' + 1
        BY <3>3, <4>1
      <4> QED
        BY <4>4, <4>5 DEF WorldFit
    <3>7. FieldFit(r)' /\ SaveFit(r)' /\ FlushFit(r)'
      BY <1>1, <3>1, <3>5, FieldStays, SaveStays, FlushStays DEF RecordFit, FlushFit
    <3>8. LoadFit(r)'
      <4> SUFFICES ASSUME NEW k \in LoadKinds, loads[k].at # "none"
                   PROVE  Fits(loads[k].page, r)' /\ loads[k].page[r] = disk.recs[r] /\ k = "range"
        BY <1>1, <3>1 DEF LoadFit, RecordFit
      <4>1. k = "range"
        BY <2>3 DEF NoLoads, LoadKinds
      <4>2. Fits(loads[k].page, r) /\ loads[k].page[r] = disk.recs[r] /\ loads[k].page[r] \in Nat
        BY <3>1, <4>1, Numbers DEF RecordFit, LoadFit, Ready, Numeric
      <4>3. Fits(loads[k].page, r)'
        BY <1>1, <3>1, <3>5, <4>2, FitsStays DEF Fits
      <4> QED
        BY <4>1, <4>2, <4>3
    <3>9. MissingFit(r)'
      BY <1>1, <2>1, <2>2, <2>3 DEF MissingFit, NoLoads, Here
    <3>10. SafeFit(r)' /\ EvictFit(r)'
      BY <1>1, <3>4 DEF SafeFit, Safe, EvictFit
    <3> QED
      BY <3>6, <3>7, <3>8, <3>9, <3>10 DEF RecordFit
  <2> QED
    BY <2>4, <2>5
<1> QED
  BY <1>3, <1>4

-----------------------------------------------------------------------------
(* Loading *)

\* A page that is asked for is as the store has it.
LEMMA ReadStored ==
  ASSUME Ready, NEW k \in LoadKinds, loads[k].at = "none", Load(k),
         UNCHANGED <<world, disk, p, save, calls, evictable>>,
         \A f \in Flushers : flush'[f].at = "due" => flush[f].at = "due" /\ flush'[f] = flush[f]
  PROVE  /\ \A o \in LoadKinds \ {k} : loads'[o] = loads[o]
         /\ loads'[k].at = "read" /\ loads[k].todo = {} /\ loads'[k].todo = {}
         /\ \A r \in Kept' : RecordFit(r)'
<1>t. loads \in [LoadKinds -> Reading]
  BY DEF Ready, IInv, Types, LoadType
<1>1. /\ \A o \in LoadKinds \ {k} : loads'[o] = loads[o]
      /\ loads'[k] = [at |-> "read", page |-> disk.recs, todo |-> {}]
      /\ loads[k].todo = {}
  BY <1>t DEF Load, Ready, OrderInv, LoadOrder
<1>2. ASSUME NEW r \in Kept' PROVE RecordFit(r)'
  <2>1. r \in Records /\ r \in Kept /\ RecordFit(r)
    BY <1>2 DEF Ready, Kept
  <2>2. Steady(r)
    BY DEF Steady, Current, IsStored
  <2>3. WorldFit(r)' /\ FieldFit(r)' /\ SaveFit(r)'
    BY <2>1, <2>2, WorldStays, FieldStays, SaveStays DEF RecordFit
  <2>4. FlushFit(r)'
    BY <2>1, <2>2, FlushStays DEF RecordFit, FlushFit
  <2>5. LoadFit(r)'
    <3>1. ASSUME NEW o \in LoadKinds, o # k, loads'[o].at # "none"
          PROVE  /\ Fits(loads[o].page, r)'
                 /\ o = "range" \/ world'.recs[r] = 0 \/ r \in loads'[o].todo => loads'[o].page[r] = disk'.recs[r]
                 /\ r \in loads'[o].todo => loads'[o].page[r] # 0 /\ (o # "range" => IsStored(r)')
      BY <1>1, <2>1, <2>2, <3>1, LoadStays DEF RecordFit
    <3>2. Fits(loads[k].page, r)' /\ loads'[k].page[r] = disk'.recs[r] /\ r \notin loads'[k].todo
      BY <1>1, <2>3 DEF Fits, WorldFit, IsStored
    <3> QED
      BY <3>1, <3>2 DEF LoadFit
  <2>6. MissingFit(r)'
    <3>1. \A o \in LoadKinds : loads'[o].todo = loads[o].todo /\ (loads'[o].at = "fill" => loads[o].at = "fill")
      BY <1>1
    <3> QED
      BY <2>1, <2>2, <3>1, MissingStays DEF RecordFit, Here
  <2>7. SafeFit(r)' /\ EvictFit(r)'
    BY <2>1, <2>2, SafeFitStays, EvictStays DEF RecordFit, Due
  <2> QED
    BY <2>3, <2>4, <2>5, <2>6, <2>7 DEF RecordFit
<1> QED
  BY <1>1, <1>2

LEMMA LoadStartsStored ==
  ASSUME Ready, NEW k \in LoadKinds, LoadStarts(k)
  PROVE  OrderInv' /\ \A r \in Kept' : RecordFit(r)'
<1>t. world \in Worlds
  BY DEF Ready, IInv, Types, WorldType
<1>1. /\ k \in {"tail", "detail"} /\ k \notin world.loaded /\ NoLoads
      /\ UNCHANGED <<disk, p, save, calls, flush, lane, gates, deleted, evictable, gone>>
  BY DEF LoadStarts, Ready, Clean, host
<1>2. ~evictable
  BY DEF LoadStarts, Acted, Ready, OrderInv, EvictOrder
<1>3. LaneOrder'
  BY <1>1, LaneStays DEF Ready, OrderInv
<1>4. CASE k = "tail" /\ TailKnown
  <2>1. loads' = loads /\ world'.recs = world.recs /\ world'.open = world.open /\ world'.loaded = world.loaded \cup {"tail"}
    BY <1>t, <1>4 DEF LoadStarts, Worlds
  <2>2. OrderInv'
    BY <1>1, <1>2, <1>3, <2>1 DEF Ready, OrderInv, GateOrder, CallOrder, CutOrder, LoadOrder, EvictOrder, Queued
  <2>3. ASSUME NEW r \in Kept' PROVE RecordFit(r)'
    <3>1. r \in Records /\ r \in Kept /\ RecordFit(r)
      BY <2>3 DEF Ready, Kept
    <3>2. Steady(r)
      BY <1>1, <2>1 DEF Steady, Current, IsStored
    <3>3. WorldFit(r)' /\ FieldFit(r)' /\ SaveFit(r)' /\ FlushFit(r)'
      BY <1>1, <2>1, <3>1, <3>2, WorldStays, FieldStays, SaveStays, FlushStays DEF RecordFit, FlushFit
    <3>4. LoadFit(r)'
      BY <1>1, <2>1, <3>1, <3>2, LoadStays DEF RecordFit, LoadFit
    <3>5. MissingFit(r)'
      <4>1. Here /\ world.loaded \subseteq world'.loaded
        BY <1>1, <1>4, <2>1 DEF TailKnown, Here
      <4>2. loads["tail"].todo = {} /\ loads["detail"].todo = {}
        BY <1>1 DEF NoLoads, Ready, OrderInv, LoadOrder, LoadKinds
      <4>3. Missing(r) => r \in loads["range"].todo
        BY <3>1, <4>1, <4>2 DEF RecordFit, MissingFit, LoadKinds
      <4>4. Missing(r)' => Missing(r)
        BY <1>1, <2>1 DEF Missing
      <4> QED
        BY <1>1, <2>1, <3>1, <4>3, <4>4 DEF RecordFit, MissingFit, LoadKinds
    <3>6. SafeFit(r)'
      <4>1. Safe(r) => Safe(r)'
        BY <1>1, <3>2, SafeStays
      <4> QED
        BY <1>1, <2>1, <3>1, <3>2, <4>1 DEF RecordFit, SafeFit, Steady, Due
    <3>7. EvictFit(r)'
      BY <1>1, <1>2 DEF EvictFit
    <3> QED
      BY <3>3, <3>4, <3>5, <3>6, <3>7 DEF RecordFit
  <2> QED
    BY <2>2, <2>3
<1>5. CASE ~(k = "tail" /\ TailKnown)
  <2>1. world' = world /\ Load(k) /\ loads[k].at = "none"
    BY <1>5 DEF LoadStarts
  <2>2. /\ \A o \in LoadKinds \ {k} : loads'[o] = loads[o]
        /\ loads'[k].at = "read" /\ loads'[k].todo = {}
        /\ \A r \in Kept' : RecordFit(r)'
    BY <1>1, <2>1, ReadStored
  <2>3. loads'["range"] = loads["range"]
    BY <1>1, <2>2 DEF LoadKinds
  <2>4. LoadOrder'
    BY <2>1, <2>2 DEF Ready, OrderInv, LoadOrder
  <2>5. OrderInv'
    BY <1>1, <1>2, <1>3, <2>1, <2>3, <2>4 DEF Ready, OrderInv, GateOrder, CallOrder, CutOrder, EvictOrder, Queued
  <2> QED
    BY <2>2, <2>5
<1> QED
  BY <1>4, <1>5

\* The gate reads once its flush is committed.
LEMMA GateReadsStored ==
  ASSUME Ready, GateReads
  PROVE  OrderInv' /\ \A r \in Kept' : RecordFit(r)'
<1> DEFINE k == IF p.gate = "context" THEN "detail" ELSE "range"
           read == flush["gate"].at = "ok" /\ ~deleted /\ k \notin world.loaded
<1>t. gates \in GateStates /\ flush \in [Flushers -> Flushing] /\ p \in Fields /\ world \in Worlds
      /\ "user" \in Flushers /\ "gate" \in Flushers /\ "range" \in LoadKinds /\ k \in LoadKinds
  BY DEF Ready, IInv, Types, GateType, FlushType, FieldType, WorldType, Flushers, LoadKinds
<1>1. /\ UNCHANGED <<world, disk, p, save, calls, lane, deleted, evictable, gone>>
      /\ gates.at = "flushing" /\ gates'.at = (IF read THEN "loading" ELSE "end") /\ gates'.queue = gates.queue
      /\ IF read /\ loads[k].at = "none" THEN Load(k) ELSE loads' = loads
      /\ flush["gate"].at \in {"ok", "failed"}
  BY <1>t DEF GateReads, At, GateStates, host
<1>2. flush'["gate"] = NoFlush /\ flush'["user"] = flush["user"] /\ NoFlush.at = "idle"
  BY <1>t DEF GateReads, NoFlush
<1>3. p.gate \in {"context", "range"}
  BY <1>1, <1>t DEF Ready, OrderInv, GateOrder, IInv, GateInv, Fields, GateUsers
<1>4. loads["range"].at = "none"
  BY <1>1 DEF Ready, OrderInv, GateOrder
<1>5. LaneOrder'
  <2>1. flush["gate"].at # "due"
    BY <1>1
  <2>2. read => flush["user"].at # "due"
    BY DEF Ready, OrderInv, LaneOrder
  <2> QED
    BY <1>1, <1>2, <2>1, <2>2 DEF Ready, OrderInv, LaneOrder
<1>6. \A r \in Kept' : RecordFit(r)'
  <2>1. CASE read /\ loads[k].at = "none"
    <3>1. \A f \in Flushers : flush'[f].at = "due" => flush[f].at = "due" /\ flush'[f] = flush[f]
      BY <1>2, <1>t DEF Flushers
    <3> HIDE DEF k, read
    <3> QED
      BY <1>1, <1>t, <2>1, <3>1, ReadStored
  <2>2. CASE ~(read /\ loads[k].at = "none")
    <3>1. loads' = loads
      BY <1>1, <2>2
    <3>2. \A f \in Flushers : flush'[f].at = "due" => flush[f].at = "due" /\ flush'[f] = flush[f]
      BY <1>2, <1>t DEF Flushers
    <3> QED
      BY <1>1, <3>1, <3>2, Rests DEF Due
  <2> QED
    BY <2>1, <2>2
<1>7. /\ \A o \in LoadKinds : loads'[o].at # "fill" => loads'[o].todo = {}
      /\ loads'["range"].at # "none" => gates'.at = "loading" /\ p.gate = "range"
      /\ p.gate # "context" => loads'["tail"] = loads["tail"] /\ loads'["detail"] = loads["detail"]
  <2>1. loads \in [LoadKinds -> Reading] /\ "tail" \in LoadKinds /\ "detail" \in LoadKinds
    BY DEF Ready, IInv, Types, LoadType, LoadKinds
  <2>2. CASE read /\ loads[k].at = "none"
    <3>1. /\ \A o \in LoadKinds \ {k} : loads'[o] = loads[o]
          /\ loads'[k].at = "read" /\ loads'[k].todo = {}
      <4> HIDE DEF k, read
      <4> QED
        BY <1>1, <1>t, <2>1, <2>2 DEF Load
    <3> QED
      BY <1>1, <1>3, <1>4, <2>1, <2>2, <3>1, <1>t DEF Ready, OrderInv, LoadOrder
  <2>3. CASE ~(read /\ loads[k].at = "none")
    BY <1>1, <1>4, <2>3 DEF Ready, OrderInv, LoadOrder
  <2> QED
    BY <2>2, <2>3
<1>8. GateOrder' /\ LoadOrder'
  BY <1>1, <1>3, <1>7 DEF Ready, OrderInv, GateOrder, LoadOrder, Queued
<1>9. CallOrder' /\ CutOrder' /\ p'.render = None
  BY <1>1, <1>2 DEF Ready, OrderInv, CallOrder, CutOrder
<1>10. EvictOrder'
  <2>1. Queued(p.gate)
    BY <1>3 DEF Ready, OrderInv, GateOrder
  <2>2. evictable => p.gate # "context"
    BY <2>1 DEF Ready, OrderInv, EvictOrder
  <2> QED
    BY <1>1, <1>7, <2>2 DEF Ready, OrderInv, EvictOrder, NoLoads, Queued
<1> QED
  BY <1>5, <1>6, <1>8, <1>9, <1>10 DEF OrderInv

\* What the world lacks of a page is to be hydrated.
LEMMA LoadReadsStored ==
  ASSUME Ready, NEW k \in LoadKinds, LoadReads(k)
  PROVE  OrderInv' /\ \A r \in Kept' : RecordFit(r)'
<1> DEFINE page == loads[k].page
           lacking == {r \in Records : page[r] # 0 /\ world.recs[r] = 0}
<1>t. loads \in [LoadKinds -> Reading] /\ p \in Fields
  BY DEF Ready, IInv, Types, LoadType, FieldType
<1>1. /\ UNCHANGED <<world, disk, save, calls, flush, lane, gates, deleted, evictable, gone>>
      /\ loads[k].at = "read" /\ loads[k].todo = {}
  BY DEF LoadReads, host, Ready, OrderInv, LoadOrder
<1>2. /\ \A o \in LoadKinds \ {k} : loads'[o] = loads[o]
      /\ \/ loads'[k].at = "none" /\ loads'[k].todo = {} /\ p' = p
         \/ /\ loads'[k].at = "fill" /\ loads'[k].page = page /\ loads'[k].todo = lacking
            /\ p' = IF k = "tail" THEN Remembered(p, page) ELSE p
  <2>1. CASE deleted
    BY <1>t, <2>1 DEF LoadReads, NoLoad
  <2>2. CASE ~deleted
    <3>1. loads' = [loads EXCEPT ![k].at = "fill", ![k].todo = lacking] /\ p' = IF k = "tail" THEN Remembered(p, page) ELSE p
      BY <2>2 DEF LoadReads
    <3> HIDE DEF lacking
    <3>2. loads'[k] = [loads[k] EXCEPT !.at = "fill", !.todo = lacking] /\ \A o \in LoadKinds \ {k} : loads'[o] = loads[o]
      BY <1>t, <3>1
    <3>3. loads'[k].at = "fill" /\ loads'[k].page = page /\ loads'[k].todo = lacking
      BY <1>t, <3>2 DEF Reading
    <3> QED
      BY <3>1, <3>2, <3>3
  <2> QED
    BY <2>1, <2>2
<1>3. /\ p'.render = p.render /\ p'.gate = p.gate /\ p'.projected = p.projected /\ p'.timer = p.timer
      /\ p'.busy = p.busy /\ p'.afterSave = p.afterSave /\ p'.afterGate = p.afterGate
      /\ (p'.base = p.base /\ p'.json = p.json) \/ (p'.base = page /\ p'.json = page)
  <2> HIDE DEF page
  <2> QED
    BY <1>t, <1>2 DEF Remembered, Fields
<1>4. LaneOrder'
  BY <1>1, LaneStays DEF Ready, OrderInv
<1>5. OrderInv'
  <2>1. GateOrder'
    BY <1>1, <1>2, <1>3 DEF Ready, OrderInv, GateOrder, LoadKinds, Queued
  <2>2. LoadOrder'
    BY <1>1, <1>2 DEF Ready, OrderInv, LoadOrder
  <2>3. EvictOrder'
    <3>1. evictable => k = "range"
      BY <1>1 DEF Ready, OrderInv, EvictOrder, NoLoads, LoadKinds
    <3> QED
      BY <1>1, <1>2, <3>1 DEF Ready, OrderInv, EvictOrder, NoLoads, Queued, LoadKinds
  <2> QED
    BY <1>1, <1>3, <1>4, <2>1, <2>2, <2>3 DEF Ready, OrderInv, CallOrder, CutOrder
<1>6. ASSUME NEW r \in Kept' PROVE RecordFit(r)'
  <2>1. r \in Records /\ r \in Kept /\ RecordFit(r)
    BY <1>6 DEF Ready, Kept
  <2>2. Steady(r)
    BY <1>1 DEF Steady, Current, IsStored
  <2>3. WorldFit(r)' /\ SaveFit(r)'
    BY <1>1, <2>1, <2>2, WorldStays, SaveStays DEF RecordFit
  <2>4. FlushFit(r)'
    BY <1>1, <2>1, <2>2, FlushStays DEF RecordFit, FlushFit
  <2>5. Numeric(r)
    BY <2>1, Numbers DEF Ready
  <2>6. Fits(page, r) /\ page[r] \in Nat /\ (world.recs[r] = 0 => page[r] = disk.recs[r]) /\ (k = "range" => page[r] = disk.recs[r])
    BY <1>1, <2>1, <2>5 DEF RecordFit, LoadFit, Numeric
  <2>7. page[r] <= ops' + 1 /\ (page[r] = Current(r)' => IsStored(r)')
    <3> HIDE DEF page
    <3> QED
      BY <2>1, <2>2, <2>6, FitsStays
  <2>8. FieldFit(r)'
    <3>1. CASE p'.base = p.base /\ p'.json = p.json
      BY <1>3, <2>1, <2>2, <3>1, FieldStays DEF RecordFit
    <3>2. CASE p'.base = page /\ p'.json = page
      <4>1. p'.projected[1][r] <= ops' + 1
        <5>1. ops \in Nat /\ ops' \in Nat /\ ops <= ops'
          BY Counted, CountedNext DEF Ready
        <5> QED
          BY <1>3, <2>1, <2>5, <5>1 DEF RecordFit, FieldFit, Numeric
      <4>2. p'.base[r] = page[r] /\ p'.json[r] = page[r]
        BY <3>2
      <4> HIDE DEF page
      <4> QED
        BY <2>7, <4>1, <4>2 DEF FieldFit, Fits
    <3> QED
      BY <1>3, <3>1, <3>2
  <2>9. LoadFit(r)'
    <3>1. ASSUME NEW o \in LoadKinds, o # k, loads'[o].at # "none"
          PROVE  /\ Fits(loads[o].page, r)'
                 /\ o = "range" \/ world'.recs[r] = 0 \/ r \in loads'[o].todo => loads'[o].page[r] = disk'.recs[r]
                 /\ r \in loads'[o].todo => loads'[o].page[r] # 0 /\ (o # "range" => IsStored(r)')
      BY <1>1, <1>2, <2>1, <2>2, <3>1, LoadStays DEF RecordFit
    <3>2. ASSUME loads'[k].at # "none"
          PROVE  /\ Fits(loads[k].page, r)'
                 /\ k = "range" \/ world'.recs[r] = 0 \/ r \in loads'[k].todo => loads'[k].page[r] = disk'.recs[r]
                 /\ r \in loads'[k].todo => loads'[k].page[r] # 0 /\ (k # "range" => IsStored(r)')
      <4>1. loads'[k].page = page /\ loads'[k].todo = lacking
        BY <1>2, <3>2
      <4>2. Fits(loads[k].page, r)'
        BY <2>7, <4>1 DEF Fits
      <4>3. r \in lacking => world.recs[r] = 0 /\ world'.recs[r] = 0
        BY <1>1
      <4>4. world'.recs[r] = 0 => IsStored(r)'
        BY DEF IsStored, Current
      <4> QED
        BY <1>1, <2>6, <4>1, <4>2, <4>3, <4>4
    <3> QED
      BY <3>1, <3>2 DEF LoadFit
  <2>10. MissingFit(r)'
    <3>1. Missing(r)' => Missing(r) /\ r \in lacking
      BY <1>1, <2>1, <2>6 DEF Missing
    <3>2. /\ r \in lacking /\ loads'[k].at = "fill" => r \in loads'[k].todo
          /\ r \in lacking /\ loads'[k].todo # {} => r \in loads'[k].todo
      BY <1>2
    <3>3. Here' = Here /\ world' = world /\ (\A o \in LoadKinds : r \in loads[o].todo => r \in loads'[o].todo)
      BY <1>1, <1>2 DEF Here
    <3> HIDE DEF lacking
    <3>4. ASSUME Missing(r)' PROVE \A o \in {"tail", "detail"} : loads'[o].at = "fill" => r \in loads'[o].todo
      BY <1>2, <2>1, <3>1, <3>2, <3>4 DEF RecordFit, MissingFit, LoadKinds
    <3>5. ASSUME Missing(r)' PROVE loads'["range"].todo # {} => r \in loads'["range"].todo
      BY <1>2, <2>1, <3>1, <3>2, <3>5 DEF RecordFit, MissingFit, LoadKinds
    <3>6. ASSUME Missing(r)' PROVE /\ Here' => \E o \in LoadKinds : r \in loads'[o].todo
                                   /\ world'.loaded # {} => r \in loads'["range"].todo
      BY <2>1, <3>1, <3>3, <3>6 DEF RecordFit, MissingFit, LoadKinds
    <3> QED
      BY <3>4, <3>5, <3>6 DEF MissingFit
  <2>11. SafeFit(r)' /\ EvictFit(r)'
    BY <1>1, <1>3, <2>1, <2>2, SafeFitStays, EvictStays DEF RecordFit, Due
  <2> QED
    BY <2>3, <2>4, <2>8, <2>9, <2>10, <2>11 DEF RecordFit
<1> QED
  BY <1>5, <1>6

\* A record is hydrated as it is stored.
LEMMA HydratesStored ==
  ASSUME Ready, NEW k \in LoadKinds, Hydrates(k)
  PROVE  OrderInv' /\ \A r \in Kept' : RecordFit(r)'
<1>t. loads \in [LoadKinds -> Reading] /\ world \in Worlds
  BY DEF Ready, IInv, Types, LoadType, WorldType
<1>1. /\ UNCHANGED <<disk, p, save, calls, flush, lane, gates, deleted, evictable, gone>>
      /\ loads[k].at = "fill"
  BY DEF Hydrates, host
<1>2. PICK h \in loads[k].todo :
        /\ loads' = [loads EXCEPT ![k].todo = @ \ {h}]
        /\ world' = [world EXCEPT !.recs[h] = loads[k].page[h], !.twice = @ \/ world.recs[h] # 0]
  BY DEF Hydrates, Ready, Clean
<1>h. h \in Records
  BY <1>t, <1>2 DEF Reading
<1>3. /\ \A o \in LoadKinds \ {k} : loads'[o] = loads[o]
      /\ loads'[k].at = "fill" /\ loads'[k].page = loads[k].page /\ loads'[k].todo = loads[k].todo \ {h}
  <2>1. loads'[k] = [loads[k] EXCEPT !.todo = @ \ {h}] /\ \A o \in LoadKinds \ {k} : loads'[o] = loads[o]
    BY <1>t, <1>2
  <2> QED
    BY <1>t, <1>1, <2>1 DEF Reading
<1>4. /\ world'.loaded = world.loaded /\ world'.open = world.open
      /\ \A r \in Records : world'.recs[r] = IF r = h THEN loads[k].page[h] ELSE world.recs[r]
  BY <1>t, <1>2, <1>h DEF Worlds, Contents
<1>5. LaneOrder'
  BY <1>1, LaneStays DEF Ready, OrderInv
<1>6. OrderInv'
  <2>1. \A o \in LoadKinds : loads'[o].at = loads[o].at /\ loads'[o].todo \subseteq loads[o].todo
    BY <1>1, <1>3
  <2>2. GateOrder' /\ LoadOrder' /\ EvictOrder'
    BY <1>1, <1>4, <2>1 DEF Ready, OrderInv, GateOrder, LoadOrder, EvictOrder, NoLoads, Queued, LoadKinds
  <2> QED
    BY <1>1, <1>5, <2>2 DEF Ready, OrderInv, CallOrder, CutOrder
<1>7. ASSUME NEW r \in Kept' PROVE RecordFit(r)'
  <2>1. r \in Records /\ r \in Kept /\ RecordFit(r)
    BY <1>7 DEF Ready, Kept
  <2>3. MissingFit(r)'
    <3>1. Missing(r)' => Missing(r) \/ r = h
      BY <1>1, <1>4, <2>1 DEF Missing
    <3>2. r = h => ~Missing(r)'
      BY <1>1, <1>2, <1>4, <2>1 DEF Missing, RecordFit, LoadFit
    <3>3. Missing(r) => r \in loads[k].todo
      BY <1>1, <1>2, <2>1 DEF RecordFit, MissingFit, LoadKinds
    <3> QED
      BY <1>1, <1>3, <1>4, <2>1, <3>1, <3>2, <3>3 DEF RecordFit, MissingFit, LoadKinds
  <2>4. CASE r # h
    <3>1. world'.recs[r] = world.recs[r]
      BY <1>4, <2>1, <2>4
    <3>2. Steady(r)
      BY <1>1, <3>1 DEF Steady, Current, IsStored
    <3>3. WorldFit(r)' /\ FieldFit(r)' /\ SaveFit(r)' /\ FlushFit(r)'
      BY <1>1, <2>1, <3>1, <3>2, WorldStays, FieldStays, SaveStays, FlushStays DEF RecordFit, FlushFit
    <3>4. LoadFit(r)'
      BY <1>1, <1>3, <2>1, <3>1, <3>2, LoadStays DEF RecordFit, LoadFit
    <3>5. SafeFit(r)' /\ EvictFit(r)'
      BY <1>1, <1>4, <2>1, <3>1, <3>2, SafeFitStays, EvictStays DEF RecordFit, Due
    <3> QED
      BY <2>3, <3>3, <3>4, <3>5 DEF RecordFit
  <2>5. CASE r = h
    <3>1. loads[k].page[r] = disk.recs[r] /\ world'.recs[r] = disk.recs[r] /\ (k # "range" => IsStored(r))
      BY <1>1, <1>2, <1>4, <2>1, <2>5 DEF RecordFit, LoadFit
    <3>2. Current(r)' = disk.recs[r] /\ IsStored(r)' /\ disk' = disk
      BY <1>1, <3>1 DEF Current, IsStored
    <3>3. Numeric(r) /\ ops \in Nat /\ ops' \in Nat /\ ops <= ops'
      BY <2>1, Numbers, Counted, CountedNext DEF Ready
    <3>4. WorldFit(r)'
      <4>1. disk.recs[r] \in Nat /\ disk.recs[r] <= ops + 1 /\ disk'.recs[r] = disk.recs[r]
        BY <2>1, <3>2, <3>3 DEF RecordFit, WorldFit, Numeric
      <4>2. disk'.recs[r] <= ops' + 1
        BY <3>3, <4>1
      <4>3. world'.recs[r] <= ops' + 1
        BY <3>1, <3>3, <4>1
      <4> QED
        BY <4>2, <4>3 DEF WorldFit
    <3>5. ASSUME NEW x, x[r] \in Nat, x[r] <= ops + 1 PROVE x[r] <= ops' + 1 /\ (x[r] = Current(r)' => IsStored(r)')
      BY <3>2, <3>3, <3>5
    <3>6. FieldFit(r)'
      <4>1. p.base[r] <= ops + 1 /\ p.projected[1][r] <= ops + 1 /\ (p.json # None => p.json[r] <= ops + 1)
        BY <2>1 DEF RecordFit, FieldFit, Fits
      <4>2. Fits(p.base, r)'
        BY <1>1, <3>3, <3>5, <4>1 DEF Fits, Numeric
      <4>3. p'.json # None => Fits(p.json, r)'
        BY <1>1, <3>3, <3>5, <4>1 DEF Fits, Numeric
      <4>4. p'.projected[1][r] <= ops' + 1
        BY <1>1, <3>3, <4>1 DEF Numeric
      <4> QED
        BY <4>2, <4>3, <4>4 DEF FieldFit
    <3>7. LoadFit(r)'
      <4> SUFFICES ASSUME NEW o \in LoadKinds, loads'[o].at # "none"
                   PROVE  /\ Fits(loads[o].page, r)'
                          /\ o = "range" \/ world'.recs[r] = 0 \/ r \in loads'[o].todo => loads'[o].page[r] = disk'.recs[r]
        BY <1>1, <1>3, <2>1, <3>2 DEF LoadFit, RecordFit
      <4>1. loads[o].at # "none" /\ loads'[o].page = loads[o].page /\ loads'[o].todo \subseteq loads[o].todo
        BY <1>1, <1>3
      <4>2. Fits(loads[o].page, r)'
        BY <2>1, <3>3, <3>5, <4>1 DEF RecordFit, LoadFit, Fits, Numeric
      <4>3. world'.recs[r] # 0
        BY <1>1, <1>2, <2>1, <2>5, <3>1 DEF RecordFit, LoadFit
      <4> QED
        BY <2>1, <3>2, <4>1, <4>2, <4>3 DEF RecordFit, LoadFit
    <3>8. SaveFit(r)' /\ FlushFit(r)'
      <4>1. CASE k = "range"
        <5>1. ~p.busy /\ \A f \in Flushers : flush[f].at # "due"
          BY <1>1, <4>1, RangeWaits DEF Flushers
        <5>2. save.saved # "due"
          BY <5>1 DEF Ready, IInv, Types, SaveType, NoSave
        <5> QED
          BY <1>1, <5>1, <5>2 DEF SaveFit, FlushFit
      <4>2. CASE k # "range"
        <5>1. Steady(r)
          BY <1>1, <3>1, <3>2, <4>2 DEF Steady, IsStored
        <5> QED
          BY <1>1, <2>1, <5>1, SaveStays, FlushStays DEF RecordFit, FlushFit
      <4> QED
        BY <4>1, <4>2
    <3>9. SafeFit(r)' /\ EvictFit(r)'
      BY <1>1, <3>1, <3>2 DEF SafeFit, Safe, EvictFit
    <3> QED
      BY <2>3, <3>4, <3>6, <3>7, <3>8, <3>9 DEF RecordFit
  <2> QED
    BY <2>4, <2>5
<1> QED
  BY <1>6, <1>7

\* A page is hydrated as a whole: it is what is known from here on.
LEMMA LoadEndsStored ==
  ASSUME Ready, NEW k \in LoadKinds, LoadEnds(k)
  PROVE  OrderInv' /\ \A r \in Kept' : RecordFit(r)'
<1> DEFINE page == loads[k].page
           found == k # "detail" \/ page # Nothing
           whole == [r \in Records |-> IF p.base[r] # 0 THEN p.base[r] ELSE page[r]]
<1>t. loads \in [LoadKinds -> Reading] /\ p \in Fields /\ world \in Worlds
  BY DEF Ready, IInv, Types, LoadType, FieldType, WorldType
<1>1. /\ UNCHANGED <<disk, save, calls, flush, lane, gates, deleted, evictable, gone>>
      /\ loads[k].at = "fill" /\ loads[k].todo = {}
  BY DEF LoadEnds
<1>2. /\ \A o \in LoadKinds \ {k} : loads'[o] = loads[o]
      /\ loads'[k].at = "none" /\ loads'[k].todo = {}
  BY <1>t DEF LoadEnds, NoLoad
<1>3. /\ p'.render = p.render /\ p'.gate = p.gate /\ p'.projected = p.projected /\ p'.timer = p.timer
      /\ p'.busy = p.busy /\ p'.afterSave = p.afterSave /\ p'.afterGate = p.afterGate
      /\ \/ p'.base = p.base /\ p'.json = p.json
         \/ p'.base = page /\ p'.json = page
         \/ p'.base = whole /\ p'.json = whole
  <2>1. p' \in {p, Remembered(p, page), Remembered(p, whole)}
    BY DEF LoadEnds, Extended
  <2> HIDE DEF page, whole
  <2>2. ASSUME NEW x, p' = Remembered(p, x)
        PROVE  /\ p'.render = p.render /\ p'.gate = p.gate /\ p'.projected = p.projected /\ p'.timer = p.timer
               /\ p'.busy = p.busy /\ p'.afterSave = p.afterSave /\ p'.afterGate = p.afterGate
               /\ p'.base = x /\ p'.json = x
    BY <1>t, <2>2 DEF Remembered, Fields
  <2> QED
    BY <2>1, <2>2
<1>4. /\ world'.recs = world.recs /\ world'.open = world.open /\ world.loaded \subseteq world'.loaded
      /\ world'.loaded # {} => "tail" \in world'.loaded
      /\ k = "range" => world'.loaded = world.loaded
  <2>1. world' = world \/ world' = [world EXCEPT !.loaded = @ \cup Marks(k)]
    BY DEF LoadEnds
  <2>2. Marks(k) = {} \/ "tail" \in Marks(k)
    BY DEF Marks, LoadKinds
  <2>3. k = "range" => Marks(k) = {}
    BY DEF Marks
  <2>4. world.loaded # {} => "tail" \in world.loaded
    BY DEF Ready, OrderInv, LoadOrder
  <2> HIDE DEF Marks
  <2> QED
    BY <1>t, <2>1, <2>2, <2>3, <2>4 DEF Worlds
<1>5. LaneOrder'
  BY <1>1, LaneStays DEF Ready, OrderInv
<1>6. OrderInv'
  <2>1. GateOrder'
    BY <1>1, <1>2, <1>3 DEF Ready, OrderInv, GateOrder, LoadKinds, Queued
  <2>2. LoadOrder'
    BY <1>1, <1>2, <1>4 DEF Ready, OrderInv, LoadOrder
  <2>3. EvictOrder'
    BY <1>1, <1>2, <1>4 DEF Ready, OrderInv, EvictOrder, NoLoads, Queued, LoadKinds
  <2> QED
    BY <1>1, <1>3, <1>5, <2>1, <2>2, <2>3 DEF Ready, OrderInv, CallOrder, CutOrder
<1>7. ASSUME NEW r \in Kept' PROVE RecordFit(r)'
  <2>1. r \in Records /\ r \in Kept /\ RecordFit(r)
    BY <1>7 DEF Ready, Kept
  <2>2. Steady(r)
    BY <1>1, <1>4 DEF Steady, Current, IsStored
  <2>3. WorldFit(r)' /\ SaveFit(r)' /\ FlushFit(r)'
    BY <1>1, <1>4, <2>1, <2>2, WorldStays, SaveStays, FlushStays DEF RecordFit, FlushFit
  <2>4. Numeric(r)
    BY <2>1, Numbers DEF Ready
  <2>5. FieldFit(r)'
    <3>1. p'.projected[1][r] <= ops' + 1
      <4>1. ops \in Nat /\ ops' \in Nat /\ ops <= ops'
        BY Counted, CountedNext DEF Ready
      <4> QED
        BY <1>3, <2>1, <2>4, <4>1 DEF RecordFit, FieldFit, Numeric
    <3>2. /\ page[r] \in Nat /\ Fits(page, r)
          /\ p.base[r] \in Nat /\ Fits(p.base, r)
      BY <1>1, <2>1, <2>4 DEF RecordFit, LoadFit, FieldFit, Numeric
    <3>3. CASE p'.base = p.base /\ p'.json = p.json
      BY <1>3, <2>1, <2>2, <3>3, FieldStays DEF RecordFit
    <3>4. CASE p'.base = page /\ p'.json = page
      <4>1. page[r] <= ops' + 1 /\ (page[r] = Current(r)' => IsStored(r)')
        <5> HIDE DEF page
        <5> QED
          BY <2>1, <2>2, <3>2, FitsStays
      <4>2. p'.base[r] = page[r] /\ p'.json[r] = page[r]
        BY <3>4
      <4> HIDE DEF page
      <4> QED
        BY <3>1, <4>1, <4>2 DEF FieldFit, Fits
    <3>5. CASE p'.base = whole /\ p'.json = whole
      <4>1. whole[r] \in Nat /\ Fits(whole, r)
        <5>1. whole[r] = p.base[r] \/ whole[r] = page[r]
          BY <2>1
        <5> HIDE DEF whole, page
        <5> QED
          BY <3>2, <5>1 DEF Fits
      <4>2. whole[r] <= ops' + 1 /\ (whole[r] = Current(r)' => IsStored(r)')
        <5> HIDE DEF whole
        <5> QED
          BY <2>1, <2>2, <4>1, FitsStays
      <4>3. p'.base[r] = whole[r] /\ p'.json[r] = whole[r]
        BY <3>5
      <4> HIDE DEF whole
      <4> QED
        BY <3>1, <4>2, <4>3 DEF FieldFit, Fits
    <3> QED
      BY <1>3, <3>3, <3>4, <3>5
  <2>6. LoadFit(r)'
    BY <1>1, <1>2, <1>4, <2>1, <2>2, LoadStays DEF LoadFit, RecordFit
  <2>7. MissingFit(r)'
    <3>1. Missing(r)' => Missing(r)
      BY <1>1, <1>4 DEF Missing
    <3>2. Missing(r) => k = "range"
      BY <1>1, <2>1 DEF RecordFit, MissingFit, LoadKinds
    <3>3. ASSUME k = "range" PROVE MissingFit(r)'
      <4>1. \A o \in LoadKinds : loads'[o].todo = loads[o].todo /\ (loads'[o].at = "fill" => loads[o].at = "fill")
        BY <1>1, <1>2
      <4>2. Here' => Here
        BY <1>4, <3>3 DEF Here
      <4> QED
        BY <1>4, <2>1, <2>2, <3>3, <4>1, <4>2, MissingStays DEF RecordFit
    <3> QED
      BY <3>1, <3>2, <3>3 DEF MissingFit
  <2>8. SafeFit(r)'
    <3>1. Safe(r) => Safe(r)'
      BY <1>1, <2>2, SafeStays
    <3>2. Due => Due'
      BY <1>3 DEF Due
    <3> QED
      BY <1>3, <1>4, <2>1, <2>2, <3>1, <3>2 DEF RecordFit, SafeFit, Steady
  <2>9. EvictFit(r)'
    BY <1>1, <1>4, <2>1, <2>2, EvictStays DEF RecordFit
  <2> QED
    BY <2>3, <2>5, <2>6, <2>7, <2>8, <2>9 DEF RecordFit
<1> QED
  BY <1>6, <1>7

-----------------------------------------------------------------------------
(* Every step *)

LEMMA ErasedIsGone ==
  ASSUME world \in Worlds
  PROVE  WithoutConversation.alive = FALSE
BY DEF WithoutConversation, Worlds

LEMMA SavesGoForward ==
  ASSUME Saves
  PROVE  flaws \subseteq flaws' /\ gone \subseteq gone' /\ UNCHANGED <<world, ops>>
<1>1. CASE TimerFires \/ RetryFires
  BY <1>1 DEF TimerFires, RetryFires, Unpersisted
<1>2. CASE SaveCommits
  BY <1>2 DEF SaveCommits
<1>3. CASE ListCommits
  BY <1>3 DEF ListCommits
<1>4. CASE SaveEnds
  BY <1>4 DEF SaveEnds, bounds
<1>5. CASE TruncateCommits
  BY <1>5 DEF TruncateCommits
<1>6. ASSUME NEW f \in Flushers, FlushCommits(f)
      PROVE  flaws \subseteq flaws' /\ gone \subseteq gone' /\ UNCHANGED <<world, ops>>
  <2>1. flaws' = flaws \/ flaws' = flaws \cup {"failure"}
    BY <1>6 DEF FlushCommits
  <2> QED
    BY <1>6, <2>1 DEF FlushCommits
<1> QED
  BY <1>1, <1>2, <1>3, <1>4, <1>5, <1>6 DEF Saves

\* The history only grows, and a deleted conversation does not come back.
LEMMA Forward ==
  ASSUME IInv, [Next]_vars
  PROVE  flaws \subseteq flaws' /\ gone \subseteq gone' /\ (world'.alive => world.alive) /\ ops <= ops'
<1>t. ops \in Nat /\ world \in Worlds
  BY Counted DEF IInv, Types, WorldType
<1>1. CASE Continues
  BY <1>1, <1>t DEF Continues, FlushAgain, PersistAgain, Projected, Unpersisted, host, bounds
<1>2. CASE Saves
  BY <1>2, <1>t, SavesGoForward
<1>3. CASE Gates
  <2>1. CASE DeleteErases
    <3>1. UNCHANGED <<flaws, gone, ops>>
      BY <2>1 DEF DeleteErases
    <3>2. world' = world \/ world' = WithoutConversation
      BY <2>1 DEF DeleteErases
    <3>3. world'.alive => world.alive
      BY <1>t, <3>2, ErasedIsGone
    <3> QED
      BY <1>t, <3>1, <3>3
  <2>2. CASE Gates /\ ~DeleteErases
    BY <1>t, <2>2 DEF Gates, GateCloses, GateEnters, GateReads, GateHasRead, GateOpens, DeleteMarks, DeleteSaves,
       DeleteCleans, Projected, host, bounds
  <2> QED
    BY <1>3, <2>1, <2>2
<1>4. CASE Loading
  <2>1. PICK k \in LoadKinds : LoadReads(k) \/ Hydrates(k) \/ LoadEnds(k)
    BY <1>4 DEF Loading
  <2>2. CASE LoadReads(k)
    BY <1>t, <2>2 DEF LoadReads, host, bounds
  <2>3. CASE Hydrates(k)
    <3>1. UNCHANGED <<flaws, gone, bounds>>
      BY <2>3 DEF Hydrates
    <3>2. world'.alive = world.alive
      BY <1>t, <2>3 DEF Hydrates, Worlds
    <3> QED
      BY <1>t, <3>1, <3>2 DEF bounds
  <2>4. CASE LoadEnds(k)
    <3>1. UNCHANGED <<flaws, gone, bounds>>
      BY <2>4 DEF LoadEnds
    <3>2. world'.alive = world.alive
      BY <1>t, <2>4 DEF LoadEnds, Worlds
    <3> QED
      BY <1>t, <3>1, <3>2 DEF bounds
  <2> QED
    BY <2>1, <2>2, <2>3, <2>4
<1>5. CASE Tick \/ EvictEnds \/ ShutDownAgain
  <2>1. world'.alive = world.alive
    BY <1>5, <1>t DEF Tick, EvictEnds, ShutDownAgain, Worlds
  <2> QED
    BY <1>5, <1>t, <2>1 DEF Tick, EvictEnds, ShutDownAgain, bounds
<1>6. CASE Requests
  <2>1. CASE PersistEffect \/ Open \/ Close \/ EvictStarts \/ ShutDown
    <3>1. world'.alive = world.alive
      BY <1>t, <2>1 DEF PersistEffect, Open, Close, EvictStarts, ShutDown, Unpersisted, Worlds
    <3> QED
      BY <1>t, <2>1, <3>1 DEF PersistEffect, Open, Close, EvictStarts, ShutDown, Unpersisted, bounds
  <2>2. CASE UserRemoves
    BY <1>t, <2>2 DEF UserRemoves, Acted, Noticed, host
  <2>3. ASSUME NEW r \in Records, Edit(r)
        PROVE  flaws \subseteq flaws' /\ gone \subseteq gone' /\ (world'.alive => world.alive) /\ ops <= ops'
    BY <1>t, <2>3 DEF Edit, Acted, Noticed, host, Worlds
  <2>4. ASSUME NEW k \in LoadKinds, LoadStarts(k)
        PROVE  flaws \subseteq flaws' /\ gone \subseteq gone' /\ (world'.alive => world.alive) /\ ops <= ops'
    BY <1>t, <2>4 DEF LoadStarts, Acted, host, Worlds
  <2>5. ASSUME NEW u \in GateUsers, GateAsks(u)
        PROVE  flaws \subseteq flaws' /\ gone \subseteq gone' /\ (world'.alive => world.alive) /\ ops <= ops'
    BY <1>t, <2>5 DEF GateAsks, Acted, Noticed, host
  <2> QED
    BY <1>6, <2>1, <2>2, <2>3, <2>4, <2>5 DEF Requests
<1>7. CASE UNCHANGED vars
  BY <1>7, <1>t DEF vars, bounds
<1> QED
  BY <1>1, <1>2, <1>3, <1>4, <1>5, <1>6, <1>7 DEF Next, Internal

LEMMA RestsStill ==
  ASSUME Ready, UNCHANGED vars
  PROVE  OrderInv' /\ \A r \in Kept' : RecordFit(r)'
<1>1. UNCHANGED <<world, disk, p, save, calls, flush, lane, gates, loads, deleted, evictable, gone>>
  BY DEF vars, host
<1>2. LaneOrder'
  BY <1>1, LaneStays DEF Ready, OrderInv
<1>3. OrderInv'
  BY <1>1, <1>2 DEF Ready, OrderInv, GateOrder, CallOrder, CutOrder, LoadOrder, EvictOrder, NoLoads, Queued
<1> QED
  BY <1>1, <1>3, Rests DEF Due

LEMMA EveryStepStored ==
  ASSUME Ready, [Next]_vars
  PROVE  OrderInv' /\ \A r \in Kept' : RecordFit(r)'
<1>1. CASE Continues
  BY <1>1, UserFlushesStored, CallersStored DEF Continues
<1>2. CASE Saves
  BY <1>2, CallersStored, SaveCommitsStored, ListCommitsStored, SaveEndsStored, TruncateCommitsStored,
     FlushCommitsStored DEF Saves
<1>3. CASE Gates
  BY <1>3, GateClosesStored, GateEntersStored, GateReadsStored, GateOpensStored, StagesStored DEF Gates
<1>4. CASE Loading
  BY <1>4, LoadReadsStored, HydratesStored, LoadEndsStored DEF Loading
<1>5. CASE Tick \/ EvictEnds \/ ShutDownAgain
  BY <1>5, TickStored, EvictEndsStored, CallersStored
<1>6. CASE Requests
  BY <1>6, CallersStored, UserFlushesStored, OpenStored, CloseStored, EvictStartsStored, EditStored, LoadStartsStored,
     GateAsksStored DEF Requests
<1>7. CASE UNCHANGED vars
  BY <1>7, RestsStill
<1> QED
  BY <1>1, <1>2, <1>3, <1>4, <1>5, <1>6, <1>7 DEF Next, Internal

LEMMA StoredInductive ==
  ASSUME IInv, IInv', StoredInv, [Next]_vars
  PROVE  StoredInv'
<1>1. flaws \subseteq flaws' /\ gone \subseteq gone' /\ (world'.alive => world.alive) /\ ops <= ops'
  BY Forward
<1> SUFFICES ASSUME Clean' PROVE OrderInv' /\ \A r \in Kept' : RecordFit(r)'
  BY DEF StoredInv
<1>2. Clean /\ Kept' \subseteq Kept
  BY <1>1 DEF Clean, Kept
<1>3. Ready
  BY <1>1, <1>2 DEF Ready, StoredInv
<1> QED
  BY <1>3, EveryStepStored

LEMMA StartsStored == Init => StoredInv
<1> SUFFICES ASSUME Init PROVE StoredInv
  OBVIOUS
<1>0. IInv
  BY Starts
<1>1. PICK start \in {"cold", "warm", "new"}, open \in BOOLEAN :
        LET recs == IF start = "new" THEN Nothing ELSE [r \in Records |-> 1]
            here == IF start = "warm" THEN recs ELSE Nothing
            list == IF start = "new" THEN "no" ELSE "yes"
        IN /\ world = [recs |-> here, alive |-> TRUE, open |-> open, twice |-> FALSE,
                       loaded |-> IF start = "warm" THEN {"tail", "detail"} ELSE {}]
           /\ disk = [recs |-> recs, listed |-> list]
           /\ p = [base |-> here, json |-> IF start = "warm" THEN recs ELSE None,
                   projected |-> <<here, start # "new">>, listBase |-> list,
                   render |-> None, list |-> "none", timer |-> FALSE, retry |-> FALSE, attempts |-> 0,
                   busy |-> FALSE, afterSave |-> FALSE, afterGate |-> FALSE, gate |-> "none",
                   status |-> "saved"]
  BY DEF Init
<1> DEFINE recs == IF start = "new" THEN Nothing ELSE [r \in Records |-> 1]
           here == IF start = "warm" THEN recs ELSE Nothing
           loaded == IF start = "warm" THEN {"tail", "detail"} ELSE {}
           json == IF start = "warm" THEN recs ELSE None
<1>2. /\ world.recs = here /\ world.alive = TRUE /\ world.loaded = loaded /\ disk.recs = recs
      /\ p.base = here /\ p.json = json /\ p.projected[1] = here
      /\ p.render = None /\ p.gate = "none" /\ p.timer = FALSE
  BY <1>1
<1>3. /\ \A r \in Records : here[r] \in {0, recs[r]} /\ recs[r] \in {0, 1} /\ (here[r] = 0 => start # "warm" \/ recs[r] = 0)
      /\ start # "warm" => here = Nothing
  BY DEF Nothing
<1>4. OrderInv
  <2>1. LaneOrder
    <3>1. lane = <<>> /\ flush["user"].at = "idle" /\ flush["gate"].at = "idle" /\ gates.at = "none"
      BY DEF Init, NoFlush, Flushers
    <3> HIDE DEF recs, here, loaded, json
    <3>2. lane \in Seq({"save"} \cup Flushers) /\ DOMAIN lane = {}
      BY <3>1
    <3> QED
      BY <3>1, <3>2 DEF LaneOrder
  <2>2. GateOrder /\ CallOrder /\ CutOrder
    BY <1>2 DEF Init, GateOrder, CallOrder, CutOrder, NoLoad, NoFlush, NoSave, LoadKinds, Flushers, Callers
  <2>3. LoadOrder /\ EvictOrder
    BY <1>2 DEF Init, LoadOrder, EvictOrder, NoLoad
  <2> QED
    BY <1>2, <2>1, <2>2, <2>3 DEF OrderInv
<1>5. ASSUME NEW r \in Kept PROVE RecordFit(r)
  <2>1. r \in Records /\ ops = 0
    BY <1>5 DEF Kept, Init
  <2>2. /\ here[r] \in {0, recs[r]} /\ recs[r] \in {0, 1} /\ (here[r] = 0 => start # "warm" \/ recs[r] = 0)
        /\ start # "warm" => here = Nothing
    BY <1>3, <2>1
  <2>3. /\ \A k \in LoadKinds : loads[k].at = "none" /\ loads[k].todo = {}
        /\ \A f \in Flushers : flush[f].at = "idle"
        /\ save.saved = "none" /\ evictable = FALSE
    BY DEF Init, NoLoad, NoFlush, NoSave
  <2>4. "tail" \in LoadKinds /\ "detail" \in LoadKinds /\ "range" \in LoadKinds
    BY DEF LoadKinds
  <2>5. start = "warm" => json = recs
    OBVIOUS
  <2>6. start # "warm" => loaded = {} /\ json = None
    OBVIOUS
  <2>7. start = "warm" => here = recs
    OBVIOUS
  <2> HIDE DEF recs, here, loaded, json
  <2>8. IsStored(r)
    BY <1>2, <2>2 DEF IsStored, Current
  <2>9. WorldFit(r) /\ FieldFit(r)
    BY <1>2, <2>1, <2>2, <2>5, <2>6, <2>8 DEF WorldFit, FieldFit, Fits
  <2>10. SaveFit(r) /\ FlushFit(r) /\ LoadFit(r)
    BY <2>3 DEF SaveFit, FlushFit, LoadFit
  <2>11. MissingFit(r)
    <3>1. Missing(r) => start # "warm"
      BY <1>2, <2>7 DEF Missing
    <3> QED
      BY <1>2, <2>2, <2>3, <2>4, <2>6, <3>1 DEF MissingFit, Here
  <2>12. SafeFit(r) /\ EvictFit(r)
    BY <2>3, <2>8 DEF SafeFit, Safe, EvictFit
  <2> QED
    BY <2>9, <2>10, <2>11, <2>12 DEF RecordFit
<1> QED
  BY <1>4, <1>5 DEF StoredInv

LEMMA StoredHolds == Spec => []StoredInv
<1>1. Init => StoredInv
  BY StartsStored
<1>2. IInv /\ IInv' /\ StoredInv /\ [Next]_vars => StoredInv'
  BY StoredInductive
<1> QED
  BY <1>1, <1>2, InvariantHolds, PTL DEF Spec

\* At rest nothing is due or in flight: what is current is stored, and a conversation
\* that is loaded lacks nothing.
LEMMA RestIsStored ==
  ASSUME IInv, StoredInv
  PROVE  SavedMeansStored
<1> SUFFICES ASSUME flaws = {}, Persistable, AtRest, NEW r \in Records \ gone PROVE disk.recs[r] = world.recs[r]
  BY DEF SavedMeansStored, Stored
<1>1. RecordFit(r) /\ OrderInv
  BY DEF StoredInv, Clean, Persistable, Kept
<1>2. p.gate = "none" /\ save = NoSave
  BY DEF AtRest, IInv, GateInv, Types, SaveType
<1>3. ~Due /\ (Safe(r) => IsStored(r))
  BY <1>2 DEF AtRest, Due, Safe, Carried, Failing, NoSave
<1>4. IsStored(r)
  BY <1>1, <1>3 DEF RecordFit, SafeFit
<1>5. loads["range"].todo = {}
  BY <1>1 DEF AtRest, OrderInv, LoadOrder, LoadKinds
<1>6. ~Missing(r)
  BY <1>1, <1>5 DEF RecordFit, MissingFit, Persistable
<1> QED
  BY <1>4, <1>6 DEF IsStored, Current, Missing

\* As long as no save or flush fails and nobody acts on a conversation that is not
\* hydrated: a conversation that is reported as saved, and one that the host shut
\* down with, is stored as the world has it, whatever was edited, flushed, read in a
\* gate, truncated or evicted meanwhile.
THEOREM SavedIsStored == Spec => []SavedMeansStored
<1>1. IInv /\ StoredInv => SavedMeansStored
  BY RestIsStored
<1> QED
  BY <1>1, InvariantHolds, StoredHolds, PTL

\* Only an eviction, or a deletion, takes a loaded conversation out of the world.
LEMMA OnlyEvicted ==
  ASSUME IInv, [Next]_vars, world'.alive, world.loaded # {}, world'.loaded = {}
  PROVE  EvictEnds /\ MayEvict
<1>t. world \in Worlds
  BY DEF IInv, Types, WorldType
<1>1. CASE Continues \/ Saves
  BY <1>1 DEF Continues, FlushAgain, PersistAgain, Saves, TimerFires, RetryFires, SaveCommits, ListCommits, SaveEnds,
     TruncateCommits, FlushCommits, Unpersisted
<1>2. CASE Gates
  <2>1. CASE DeleteErases
    <3>1. world' = world \/ world' = WithoutConversation
      BY <2>1 DEF DeleteErases
    <3> QED
      BY <1>t, <3>1, ErasedIsGone
  <2>2. CASE Gates /\ ~DeleteErases
    BY <2>2 DEF Gates, GateCloses, GateEnters, GateReads, GateHasRead, GateOpens, DeleteMarks, DeleteSaves, DeleteCleans
  <2> QED
    BY <1>2, <2>1, <2>2
<1>3. CASE Loading
  <2>1. PICK k \in LoadKinds : LoadReads(k) \/ Hydrates(k) \/ LoadEnds(k)
    BY <1>3 DEF Loading
  <2>2. world.loaded \subseteq world'.loaded
    BY <1>t, <2>1 DEF LoadReads, Hydrates, LoadEnds, Worlds
  <2> QED
    BY <2>2
<1>4. CASE Tick \/ EvictEnds \/ ShutDownAgain
  <2>1. CASE Tick \/ ShutDownAgain
    BY <1>t, <2>1 DEF Tick, ShutDownAgain, Worlds
  <2>2. CASE EvictEnds
    BY <2>2 DEF EvictEnds
  <2> QED
    BY <1>4, <2>1, <2>2
<1>5. CASE Requests
  <2>1. world.loaded \subseteq world'.loaded
    BY <1>5, <1>t DEF Requests, PersistEffect, UserRemoves, Open, Close, EvictStarts, ShutDown, Edit, LoadStarts, GateAsks,
       Unpersisted, Worlds
  <2> QED
    BY <2>1
<1>6. CASE UNCHANGED vars
  BY <1>6 DEF vars
<1> QED
  BY <1>1, <1>2, <1>3, <1>4, <1>5, <1>6 DEF Next, Internal

LEMMA EvictionKeeps ==
  ASSUME IInv, StoredInv, [Next]_vars,
         flaws = {} /\ world.alive /\ world'.alive /\ world.loaded # {} /\ world'.loaded = {}
  PROVE  Stored
<1>1. EvictEnds /\ MayEvict
  BY OnlyEvicted
<1>2. \A r \in Kept : RecordFit(r)
  BY DEF StoredInv, Clean
<1> QED
  BY <1>1, <1>2, DiscardsStored DEF Stored, Kept

\* As long as no save or flush fails and nobody acts on a conversation that is not
\* hydrated, what the eviction of a conversation discards is stored, whatever the
\* user, the model and the timers did while its save was under way.
THEOREM EvictionIsSafe == Spec => EvictionLosesNothing
<1>1. IInv /\ StoredInv /\ [Next]_vars =>
        [flaws = {} /\ world.alive /\ world'.alive /\ world.loaded # {} /\ world'.loaded = {} => Stored]_vars
  BY EvictionKeeps
<1> QED
  BY <1>1, InvariantHolds, StoredHolds, PTL DEF Spec, EvictionLosesNothing
=============================================================================
