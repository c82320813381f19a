------------------------ MODULE SkeletonTransaction ------------------------
(***************************************************************************)
(* clientStateSkeletonTransaction.ts: the client-state skeleton on disk.   *)
(* Every domain store keeps immutable generations; a snapshot manifest     *)
(* names one generation per store; the pointers current and previous name  *)
(* snapshots. A commit prepares generations, manifest and markers and then *)
(* publishes one pointer; readers pin a snapshot and read its generations  *)
(* without the lock; garbage collection follows each commit.               *)
(*                                                                         *)
(* The coordinator lock (StorageResourceLock) is a transaction in progress *)
(* (txn[h].at \in Locked): everything the code does in one critical        *)
(* section without leaving intermediate files is one action, and LockFree  *)
(* guards it. A store holds one record, which is Gone when removed.        *)
(* Bounds: MaxSnapshots commits that write, MaxMishaps of the Mishaps,     *)
(* each at most once: a host crashes, a write or delete fails, a file is   *)
(* damaged, a pin or marker gets 60 minutes old.                           *)
(***************************************************************************)
EXTENDS Naturals, FiniteSets

CONSTANTS Hosts,          \* extension hosts that share the store
          Nobody,         \* owner of a crashed host's pin
          Startup,        \* stores of the startup profile
          Deferred,       \* stores of the deferred profile
          Values,         \* what a record can be
          Gone,           \* no such record
          Absent, Torn,   \* no such file or directory; incomplete or damaged
          Worlds,         \* the states hosts want to save
          MaxSnapshots, Mishaps, MaxMishaps

Stores  == Startup \cup Deferred
Records == Values \cup {Gone}   \* up to time stamps, over which writers never conflict
State   == [Stores -> Records]
Empty   == [s \in Stores |-> Gone]
Ids     == 1..MaxSnapshots
NoId    == 0

ASSUME SnapshotsAssumption == MaxSnapshots \in Nat
ASSUME HostsAssumption     == Nobody \notin Hosts
ASSUME WorldsAssumption    == Worlds \subseteq State
ASSUME FilesAssumption     ==
  Absent # Torn /\ \A x \in {Absent, Torn} : x \notin Records \cup State \cup [Stores -> Ids]

VARIABLES current, previous,     \* the pointer files
          manifest,              \* snapshots/<id>.json
          generation,            \* <store>/generations/<id>
          preparing, prepared,   \* the transaction markers by id
          pins,                  \* pin files
          created,               \* the ids used so far
          txn,                   \* the commit a host has under way
          load,                  \* the hydration of a host
          base,                  \* what a host last knew of the stores
          published,             \* history: the state published under an id
          mishaps                \* the kinds of mishap that have happened

disk  == <<current, previous, manifest, generation, preparing, prepared, pins>>
hosts == <<txn, load, base>>
vars  == <<disk, created, hosts, published, mishaps>>

NoTxn  == [at |-> "idle", from |-> Empty, to |-> Empty, learns |-> FALSE, id |-> NoId,
           parent |-> NoId, next |-> Empty, refs |-> [s \in Stores |-> NoId]]
NoLoad == [at |-> "new", snapshot |-> NoId, refs |-> [s \in Stores |-> NoId],
           got |-> [s \in Stores |-> Absent], pinned |-> FALSE]

\* The phases of a commit inside the coordinator lock; each but the first is
\* named for the file written last.
Locked   == {"preparing", "stores", "snapshot", "prepared", "previous", "current", "unmarked"}
LockFree == \A h \in Hosts : txn[h].at \notin Locked

-----------------------------------------------------------------------------
(* What a snapshot holds and which one is active. *)

Readable(i) == /\ manifest[i] \notin {Absent, Torn}
               /\ \A s \in Stores : generation[s][manifest[i][s]] \in Records

Content(i) == [s \in Stores |-> generation[s][manifest[i][s]]]

Traces == \/ \E i \in Ids : \/ manifest[i] # Absent
                            \/ "none" # preparing[i]
                            \/ "none" # prepared[i]
          \/ pins # {}
          \/ \E s \in Stores, i \in Ids : generation[s][i] # Absent

\* The current snapshot, the previous one as a whole if it cannot be read; a
\* store without pointers is only empty when it holds no trace of a commit.
Active == IF current # NoId /\ Readable(current) THEN current ELSE previous
Opens  == IF Active = NoId THEN current = NoId /\ ~Traces ELSE Readable(Active)

ActiveState == IF Active = NoId THEN Empty ELSE Content(Active)

Init ==
  /\ current = NoId /\ previous = NoId
  /\ manifest = [i \in Ids |-> Absent]
  /\ generation = [s \in Stores |-> [i \in Ids |-> Absent]]
  /\ preparing = [i \in Ids |-> "none"]
  /\ prepared = [i \in Ids |-> "none"]
  /\ pins = {}
  /\ created = 0
  /\ txn = [h \in Hosts |-> NoTxn]
  /\ load = [h \in Hosts |-> NoLoad]
  /\ base = [h \in Hosts |-> Empty]
  /\ published = [i \in Ids |-> Absent]
  /\ mishaps = {}

Mishap(kind) == /\ kind \in Mishaps \ mishaps
                /\ Cardinality(mishaps) < MaxMishaps
                /\ mishaps' = mishaps \cup {kind}

-----------------------------------------------------------------------------
(* Hydration: a host opens its own store in two stages (startup, deferred) *)
(* or another scope's store in one (full).                                 *)

ProfileOf(stage) == CASE stage = "startup"  -> Startup
                      [] stage = "deferred" -> Deferred
                      [] stage = "full"     -> Stores
                      [] OTHER              -> {}

Pin(h, i) == [owner |-> h, snapshot |-> i, fresh |-> TRUE]
PinsOf(h) == {p \in pins : p.owner = h}

Open(h, stage) ==
  /\ load[h].at = "new"
  /\ LockFree /\ Opens
  /\ IF Active = NoId
     THEN /\ load' = [load EXCEPT ![h].at = "ready"]
          /\ UNCHANGED pins
     ELSE /\ pins' = pins \cup {Pin(h, Active)}
          /\ load' = [load EXCEPT ![h].at = stage, ![h].pinned = TRUE,
                                  ![h].snapshot = Active, ![h].refs = manifest[Active]]
  /\ UNCHANGED <<current, previous, manifest, generation, preparing, prepared,
                 created, txn, base, published, mishaps>>

OpenRefused(h) == /\ load[h].at = "new"
                  /\ LockFree /\ ~Opens
                  /\ load' = [load EXCEPT ![h].at = "failed"]
                  /\ UNCHANGED <<disk, created, txn, base, published, mishaps>>

\* A load that is over keeps nothing but, perhaps, its pin.
Ended(h, at) == [NoLoad EXCEPT !.at = at, !.pinned = load[h].pinned]

Unread(h) == {s \in ProfileOf(load[h].at) : load[h].got[s] = Absent}

Source(h, s) == generation[s][load[h].refs[s]]

\* loadPinnedClientStateSkeletonStore takes no lock.
ReadStore(h, s) ==
  /\ s \in Unread(h)
  /\ IF Source(h, s) \in Records
     THEN load' = [load EXCEPT ![h].got[s] = Source(h, s)]
     ELSE load' = [load EXCEPT ![h] = Ended(h, "failed")]
  /\ UNCHANGED <<disk, created, txn, base, published, mishaps>>

\* The records of a stage become the base of later patches
\* (ClientStatePersistence.rememberPersistedSkeletonProfile).
StageRead(h) ==
  /\ load[h].at \in {"startup", "deferred", "full"} /\ Unread(h) = {}
  /\ load' = [load EXCEPT ![h] = CASE @.at = "startup"  -> [@ EXCEPT !.at = "staged"]
                                   [] @.at = "deferred" -> Ended(h, "ready")
                                   [] OTHER             -> Ended(h, "closing")]
  /\ base' = [base EXCEPT ![h] = [s \in Stores |->
                 IF s \in ProfileOf(load[h].at) THEN load[h].got[s] ELSE @[s]]]
  /\ UNCHANGED <<disk, created, txn, published, mishaps>>

\* refreshClientStateSkeletonPin throws when the pin file is gone.
LoadDeferred(h) ==
  /\ load[h].at = "staged"
  /\ LockFree
  /\ IF PinsOf(h) = {}
     THEN load' = [load EXCEPT ![h] = Ended(h, "failed")] /\ UNCHANGED pins
     ELSE /\ load' = [load EXCEPT ![h].at = "deferred"]
          /\ pins' = (pins \ PinsOf(h)) \cup {Pin(h, load[h].snapshot)}
  /\ UNCHANGED <<current, previous, manifest, generation, preparing, prepared,
                 created, txn, base, published, mishaps>>

\* The deferred load is returned without await, so its finally block releases
\* the pin while the stores are being read; a full load is awaited first.
Done(h) == load[h].at \in {"deferred", "closing", "ready", "failed"}

Release(h) ==
  /\ load[h].pinned /\ Done(h)
  /\ LockFree
  /\ pins' = pins \ PinsOf(h)
  /\ load' = [load EXCEPT ![h].pinned = FALSE, ![h].at = IF @ = "closing" THEN "ready" ELSE @]
  /\ UNCHANGED <<current, previous, manifest, generation, preparing, prepared,
                 created, txn, base, published, mishaps>>

-----------------------------------------------------------------------------
(* A commit. *)

\* Persistence is enabled once the startup profile has been read. A save takes
\* the host's base for what the store holds, the deletion of a conversation what
\* it finds under the lock. Unless every record to change is as expected or
\* already as wanted, the commit throws before it writes anything.
CanCommit(h) == txn[h].at = "idle" /\ LockFree /\ Opens

Hydrated(h) == load[h].at \in {"staged", "deferred", "ready"}

Changed(from, to) == {s \in Stores : to[s] # from[s]}

\* Mutant: the last writer wins.
NoConflict(from, to) == FALSE

Conflict(from, to) == \E s \in Changed(from, to) : ActiveState[s] \notin {from[s], to[s]}
Applied(from, to) == [s \in Stores |-> IF s \in Changed(from, to) THEN to[s] ELSE ActiveState[s]]
ChangedStores(from, to) == {s \in Stores : Active = NoId \/ Applied(from, to)[s] # ActiveState[s]}

Begin(h, from, to, learns) ==
  /\ CanCommit(h) /\ ~Conflict(from, to)
  /\ ChangedStores(from, to) # {}
  /\ created < MaxSnapshots
  /\ created' = created + 1
  /\ preparing' = [preparing EXCEPT ![created'] = "fresh"]
  /\ txn' = [txn EXCEPT ![h] =
        [at |-> "preparing", from |-> from, to |-> to, learns |-> learns,
         id |-> created', parent |-> Active, next |-> Applied(from, to),
         refs |-> [s \in Stores |-> IF s \in ChangedStores(from, to) THEN created'
                                    ELSE manifest[Active][s]]]]
  /\ UNCHANGED <<current, previous, manifest, generation, prepared, pins,
                 load, base, published, mishaps>>

BeginSave(h, to) == Hydrated(h) /\ Begin(h, base[h], to, TRUE)
BeginDeletion(h) == /\ Hydrated(h) \/ load[h].at = "failed"
                    /\ Active # NoId
                    /\ Begin(h, ActiveState, Empty, FALSE)

\* All the patch asks for is there already.
NothingToSave(h, to) ==
  /\ Hydrated(h) /\ CanCommit(h)
  /\ ~Conflict(base[h], to)
  /\ ChangedStores(base[h], to) = {}
  /\ base' = [base EXCEPT ![h] = to]
  /\ UNCHANGED <<disk, created, txn, load, published, mishaps>>

\* The record files of each changed store, then its index.
New(h) == {s \in Stores : txn[h].refs[s] = txn[h].id}

WriteStores(h) ==
  /\ txn[h].at = "preparing"
  /\ generation' = [s \in Stores |-> IF s \in New(h)
                       THEN [generation[s] EXCEPT ![txn[h].id] = txn[h].next[s]]
                       ELSE generation[s]]
  /\ txn' = [txn EXCEPT ![h].at = "stores"]
  /\ UNCHANGED <<current, previous, manifest, preparing, prepared, pins,
                 created, load, base, published, mishaps>>

WriteManifest(h) ==
  /\ txn[h].at = "stores"
  /\ manifest' = [manifest EXCEPT ![txn[h].id] = txn[h].refs]
  /\ txn' = [txn EXCEPT ![h].at = "snapshot"]
  /\ UNCHANGED <<current, previous, generation, preparing, prepared, pins,
                 created, load, base, published, mishaps>>

WritePrepared(h) ==
  /\ txn[h].at = "snapshot"
  /\ prepared' = [prepared EXCEPT ![txn[h].id] = "fresh"]
  /\ txn' = [txn EXCEPT ![h].at = "prepared"]
  /\ UNCHANGED <<current, previous, manifest, generation, preparing, pins,
                 created, load, base, published, mishaps>>

WritePrevious(h) ==
  /\ txn[h].at = "prepared" /\ txn[h].parent # NoId
  /\ previous' = txn[h].parent
  /\ txn' = [txn EXCEPT ![h].at = "previous"]
  /\ UNCHANGED <<current, manifest, generation, preparing, prepared, pins,
                 created, load, base, published, mishaps>>

CanPublish(h) == \/ txn[h].at = "previous"
                 \/ txn[h].at = "prepared" /\ txn[h].parent = NoId

\* A write error does not matter when the pointer proves to be published.
WriteCurrent(h) ==
  /\ CanPublish(h)
  /\ current' = txn[h].id
  /\ published' = [published EXCEPT ![txn[h].id] = Content(txn[h].id)]
  /\ \/ /\ txn' = [txn EXCEPT ![h].at = "current"]
        /\ UNCHANGED mishaps
     \/ /\ Mishap("fault")  \* the write fails late and the pointer cannot be re-read
        /\ txn' = [txn EXCEPT ![h] = NoTxn]
  /\ UNCHANGED <<previous, manifest, generation, preparing, prepared, pins,
                 created, load, base>>

\* What an unfinished WriteStores leaves: directories without a valid index.
Partial(h) == \E S \in SUBSET (IF txn[h].at = "preparing" THEN New(h) ELSE {}) :
  generation' = [s \in Stores |-> IF s \in S THEN [generation[s] EXCEPT ![txn[h].id] = Torn]
                                  ELSE generation[s]]

\* A write that fails ends the commit and leaves what was written.
WriteFails(h) ==
  /\ txn[h].at \in {"preparing", "stores", "snapshot", "prepared", "previous"}
  /\ Mishap("fault")
  /\ Partial(h)
  /\ txn' = [txn EXCEPT ![h] = NoTxn]
  /\ UNCHANGED <<current, previous, manifest, preparing, prepared, pins,
                 created, load, base, published>>

\* Failing to delete a marker is ignored.
RemoveMarkers(h) ==
  /\ txn[h].at = "current"
  /\ LET unprepared  == [prepared EXCEPT ![txn[h].id] = "none"]
         unpreparing == [preparing EXCEPT ![txn[h].id] = "none"]
     IN \/ /\ prepared' = unprepared /\ preparing' = unpreparing
           /\ UNCHANGED mishaps
        \/ /\ Mishap("fault")
           /\ prepared' \in {prepared, unprepared}
           /\ preparing' \in {preparing, unpreparing}
  /\ txn' = [txn EXCEPT ![h].at = "unmarked"]
  /\ UNCHANGED <<current, previous, manifest, generation, pins,
                 created, load, base, published>>

-----------------------------------------------------------------------------
(* Garbage collection, at the end of each commit. *)

LivePins == {p \in pins : p.fresh}

\* Mutant: pins are forgotten.
RetainedUnpinned == ({current, previous} \ {NoId}) \cup {i \in Ids : prepared[i] = "fresh"}

Retained == ({current, previous} \ {NoId})
            \cup {p.snapshot : p \in LivePins}
            \cup {i \in Ids : prepared[i] = "fresh"}
RetainedIn(s) == {manifest[i][s] : i \in Retained} \cup {i \in Ids : preparing[i] = "fresh"}

Unstale(marker) == [i \in Ids |-> IF marker[i] = "stale" THEN "none" ELSE marker[i]]

\* Some generations survive although nothing refers to them: a time bucket
\* of the store keeps them, or their deletion fails.
Sweep(kept) ==
  /\ generation' = [s \in Stores |-> [i \in Ids |->
                       IF i \in RetainedIn(s) \cup kept[s] THEN generation[s][i] ELSE Absent]]
  /\ manifest' = [i \in Ids |-> IF i \in Retained THEN manifest[i] ELSE Absent]
  /\ preparing' = Unstale(preparing)
  /\ prepared' = Unstale(prepared)

\* Stale pins go first; a retained snapshot that cannot be read stops the rest.
\* The commit has succeeded whatever becomes of the collection.
Collect(h) ==
  /\ txn[h].at = "unmarked"
  /\ pins' = LivePins
  /\ IF \A i \in Retained : Readable(i)
     THEN \E kept \in [Stores -> SUBSET (1..created \ Retained)] : Sweep(kept)
     ELSE UNCHANGED <<manifest, generation, preparing, prepared>>
  /\ txn' = [txn EXCEPT ![h] = NoTxn]
  /\ base' = IF txn[h].learns THEN [base EXCEPT ![h] = txn[h].to] ELSE base
  /\ UNCHANGED <<current, previous, created, load, published, mishaps>>

-----------------------------------------------------------------------------
(* The environment. *)

\* A host dies with a pin or a commit on disk; the lock file of a dead process
\* is recovered by others.
Crash(h) ==
  /\ txn[h].at # "idle" \/ load[h].pinned
  /\ Mishap("crash")
  /\ Partial(h)
  /\ pins' = {[p EXCEPT !.owner = IF @ = h THEN Nobody ELSE @] : p \in pins}
  /\ txn' = [txn EXCEPT ![h] = NoTxn]
  /\ load' = [load EXCEPT ![h] = NoLoad]
  /\ base' = [base EXCEPT ![h] = Empty]
  /\ UNCHANGED <<current, previous, manifest, preparing, prepared, created, published>>

\* 60 minutes pass without a refresh of a pin, or after a crashed commit.
Lapse ==
  /\ Mishap("lapse")
  /\ \/ \E p \in LivePins : /\ pins' = (pins \ {p}) \cup {[p EXCEPT !.fresh = FALSE]}
                            /\ UNCHANGED <<preparing, prepared>>
     \/ /\ LockFree
        /\ \E i \in Ids : \/ preparing[i] = "fresh" /\ preparing' = [preparing EXCEPT ![i] = "stale"]
                                                    /\ UNCHANGED prepared
                          \/ prepared[i] = "fresh" /\ prepared' = [prepared EXCEPT ![i] = "stale"]
                                                   /\ UNCHANGED preparing
        /\ UNCHANGED pins
  /\ UNCHANGED <<current, previous, manifest, generation, created, hosts, published>>

\* A file is damaged while no commit is under way.
Damage ==
  /\ LockFree
  /\ Mishap("damage")
  /\ \/ \E i \in Ids : /\ manifest[i] # Absent
                       /\ manifest' = [manifest EXCEPT ![i] = Torn]
                       /\ UNCHANGED generation
     \/ \E s \in Stores, i \in Ids : /\ generation[s][i] # Absent
                                     /\ generation' = [generation EXCEPT ![s][i] = Torn]
                                     /\ UNCHANGED manifest
  /\ UNCHANGED <<current, previous, preparing, prepared, pins, created, hosts, published>>

Next ==
  \/ Lapse \/ Damage
  \/ \E h \in Hosts :
        \/ \E stage \in {"startup", "full"} : Open(h, stage)
        \/ \E s \in Stores : ReadStore(h, s)
        \/ OpenRefused(h) \/ StageRead(h) \/ LoadDeferred(h) \/ Release(h)
        \/ \E to \in Worlds : BeginSave(h, to) \/ NothingToSave(h, to)
        \/ BeginDeletion(h)
        \/ WriteStores(h) \/ WriteManifest(h) \/ WritePrepared(h) \/ WritePrevious(h)
        \/ WriteCurrent(h) \/ WriteFails(h) \/ RemoveMarkers(h) \/ Collect(h)
        \/ Crash(h)

Spec == Init /\ [][Next]_vars

-----------------------------------------------------------------------------
(* Properties. *)

\* The type of every variable of the store and its hosts.
TypeOK ==
  /\ current \in Ids \cup {NoId} /\ previous \in Ids \cup {NoId}
  /\ manifest \in [Ids -> {Absent, Torn} \cup [Stores -> Ids]]
  /\ generation \in [Stores -> [Ids -> Records \cup {Absent, Torn}]]
  /\ preparing \in [Ids -> {"none", "fresh", "stale"}]
  /\ prepared \in [Ids -> {"none", "fresh", "stale"}]
  /\ pins \subseteq [owner : Hosts \cup {Nobody}, snapshot : Ids, fresh : BOOLEAN]
  /\ created \in 0..MaxSnapshots
  /\ base \in [Hosts -> State]
  /\ published \in [Ids -> State \cup {Absent}]

Undamaged == "damage" \notin mishaps

\* Whatever crashes, fails or is collected, the snapshots the pointers and the
\* pins name can be read in full and hold what was published: no commit, crash
\* or garbage collection takes a file from them.
NamedSnapshotsWhole ==
  Undamaged =>
    \A i \in ({current, previous} \ {NoId}) \cup {p.snapshot : p \in pins} :
       Readable(i) /\ Content(i) = published[i]

\* Even after damage the store opens on a state that was published as a whole,
\* never on stores of different snapshots.
OpensWhole == Opens /\ Active # NoId => Content(Active) = published[Active]

\* All that a host reads, over both stages and however many commits, comes from
\* the one published snapshot it opened.
OneSnapshotRead ==
  \A h \in Hosts, s \in Stores :
     load[h].got[s] # Absent => load[h].got[s] = published[load[h].snapshot][s]

\* A load that is awaited before its pin is released finds every store, however
\* many commits and collections run meanwhile, as long as no pin has lapsed.
PinnedReadsSucceed ==
  Undamaged /\ "lapse" \notin mishaps =>
    \A h \in Hosts : load[h].at \in {"startup", "full"} =>
       \A s \in Unread(h) : Source(h, s) \in Records

\* Every pointer and every pin names one whole snapshot, and every reader reads it.
SnapshotsHold == TypeOK /\ NamedSnapshotsWhole /\ OpensWhole /\ OneSnapshotRead /\ PinnedReadsSucceed

\* The deferred stores of a staged hydration can be read too: commits meanwhile
\* make a staged hydration neither fail nor drift.
StagedReadsSucceed ==
  mishaps = {} =>
    \A h \in Hosts : load[h].at = "deferred" => \A s \in Unread(h) : Source(h, s) \in Records

\* The commits of all hosts form one register with compare and set, in which a
\* patch takes effect whole or not at all and no host takes for saved what was
\* never published.
Register == INSTANCE SkeletonRegister WITH
  Unreadable <- Torn,
  known   <- base,
  latest  <- IF current = NoId THEN Empty ELSE IF Opens THEN Content(Active) ELSE Torn,
  history <- {Empty} \cup ({published[i] : i \in Ids} \ {Absent}),
  request <- [h \in Hosts |-> [at   |-> CASE txn[h].at = "idle" -> "none"
                                        [] txn[h].at \in {"current", "unmarked"} -> "done"
                                        [] OTHER -> "asked",
                               from |-> txn[h].from, to |-> txn[h].to]]

IsRegister == Register!Spec
=============================================================================
