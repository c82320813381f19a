-------------------------- MODULE HostServicesProofs --------------------------
(***************************************************************************)
(* Proofs about the snapshots of the skeleton, the MCP servers and the     *)
(* commands in the background, for any hosts, stores, commits, servers,    *)
(* commands, saves, outputs, reads and faults.                             *)
(*                                                                         *)
(* Snapshots: those that pointers and pins name stay whole, and the        *)
(* commits of all hosts form one register.                                 *)
(*                                                                         *)
(* Servers: a refresh that nobody has asked to follow works for the        *)
(* settings as they are stored, since every save asks for another one; and *)
(* what it has visited is as it wants it.  So when the last one ends, all  *)
(* servers are as stored.                                                  *)
(*                                                                         *)
(* Commands, one at a time: while nobody has read its end, killed it or    *)
(* let it lapse, its record is on disk, or its handle is registered and    *)
(* marked for another attempt at saving it.  When its child has closed and *)
(* the handle is not so marked, the record is whole.                       *)
(***************************************************************************)
EXTENDS HostServices, TLAPS

-----------------------------------------------------------------------------
(* Snapshots: the inductive invariant *)

Txns == [at : {"idle"} \cup Locked, from : State, to : State, learns : BOOLEAN,
         id : Ids \cup {NoId}, parent : Ids \cup {NoId}, next : State,
         refs : [Stores -> Ids \cup {NoId}]]
Loads == [at : {"new", "startup", "full", "staged", "deferred", "closing", "ready", "failed"},
          snapshot : Ids \cup {NoId}, refs : [Stores -> Ids \cup {NoId}],
          got : [Stores -> Records \cup {Absent}], pinned : BOOLEAN]

Types == TypeOK /\ txn \in [Hosts -> Txns] /\ load \in [Hosts -> Loads]

LockInv == \A h, k \in Hosts : txn[h].at \in Locked /\ txn[k].at \in Locked => h = k

\* Ids are used in order, and a snapshot refers to no generation newer than itself.
IdsInv ==
  /\ \A i \in Ids : i > created => published[i] = Absent
  /\ \A i \in Ids, s \in Stores : manifest[i] \in [Stores -> Ids] => manifest[i][s] <= i

\* A snapshot that was published is all there, up to what was damaged.
Damaged == "damage" \in mishaps
Whole(i) ==
  /\ published[i] \in State
  /\ manifest[i] # Absent
  /\ manifest[i] = Torn => Damaged
  /\ \A s \in Stores : manifest[i] # Torn =>
       \/ generation[s][manifest[i][s]] = published[i][s]
       \/ Damaged /\ generation[s][manifest[i][s]] = Torn
Named == ({current, previous} \ {NoId}) \cup {p.snapshot : p \in pins}
NamedInv == (\A i \in Named : Whole(i)) /\ (current = NoId => previous = NoId)

\* What the store holds for the hosts, as in IsRegister.
Latest == IF current = NoId THEN Empty ELSE IF Opens THEN Content(Active) ELSE Torn

\* A commit that is not published has an id of its own, and what it writes is
\* the patch of what the store still holds.
Unpublished == {"preparing", "stores", "snapshot", "prepared", "previous"}
Drafts(t) ==
  /\ published[t.id] = Absent
  /\ t.at = "previous" \/ t.parent = Active
  /\ \A s \in Stores :
       /\ t.refs[s] \in 1..t.id
       /\ t.refs[s] # t.id \/ t.at # "preparing" => generation[s][t.refs[s]] = t.next[s]
  /\ t.at \in {"snapshot", "prepared", "previous"} => manifest[t.id] = t.refs
  /\ Latest \in State
  /\ \A s \in Changed(t.from, t.to) : Latest[s] \in {t.from[s], t.to[s]}
  /\ t.next = [s \in Stores |-> IF s \in Changed(t.from, t.to) THEN t.to[s] ELSE Latest[s]]
TxnInv ==
  \A h \in Hosts :
    /\ txn[h].at \in Locked => txn[h].id = created /\ created \in Ids
    /\ txn[h].at \in Unpublished => Drafts(txn[h])
    /\ txn[h].at = "idle" => txn[h] = NoTxn

\* A load reads the snapshot it opened, or nothing.
Loading == {"startup", "full", "staged", "deferred"}
Reads(l) ==
  /\ l.snapshot \in 1..created /\ published[l.snapshot] \in State
  /\ \A s \in Stores :
       /\ l.refs[s] \in 1..l.snapshot
       /\ generation[s][l.refs[s]] \in {published[l.snapshot][s], Absent, Torn}
       /\ l.got[s] \in {published[l.snapshot][s], Absent}
Holds(h, l) ==
  /\ "lapse" \notin mishaps => \E p \in PinsOf(h) : p.snapshot = l.snapshot
  /\ "lapse" \notin mishaps /\ ~Damaged => l.refs = manifest[l.snapshot]
Loaded(h, l) ==
  /\ IF l.at \in Loading THEN Reads(l) ELSE \A s \in Stores : l.got[s] = Absent
  /\ l.at \in Loading => \A p \in PinsOf(h) : p.snapshot = l.snapshot
  /\ l.at \in {"startup", "full"} => Holds(h, l)
  /\ l.at = "new" => PinsOf(h) = {}
LoadInv ==
  /\ \A h \in Hosts : Loaded(h, load[h])
  /\ "lapse" \notin mishaps => \A p \in pins : p.fresh

IInv == Types /\ LockInv /\ IdsInv /\ NamedInv /\ TxnInv /\ LoadInv

-----------------------------------------------------------------------------
(* What snapshots hold *)

\* Neither a missing nor a damaged file is taken for a record, a state or a manifest.
LEMMA Files ==
  /\ Absent # Torn
  /\ \A x \in {Absent, Torn} : x \notin Records /\ x \notin State /\ x \notin [Stores -> Ids]
  /\ Empty \in State
  /\ NoId \notin Ids /\ Ids \subseteq Nat
  BY FilesAssumption, SnapshotsAssumption DEF Empty, State, Records, NoId, Ids

\* The shape of what the store and the hosts keep.
LEMMA Shapes ==
  ASSUME Types
  PROVE  /\ current \in Ids \cup {NoId} /\ previous \in Ids \cup {NoId}
         /\ created \in Nat /\ created <= MaxSnapshots /\ created + 1 \in Nat
         /\ \A i \in Ids : /\ manifest[i] \in {Absent, Torn} \cup [Stores -> Ids]
                           /\ published[i] \in State \cup {Absent}
         /\ \A s \in Stores, i \in Ids : generation[s][i] \in Records \cup {Absent, Torn}
         /\ \A p \in pins : p.owner \in Hosts \cup {Nobody} /\ p.snapshot \in Ids
         /\ Named \subseteq Ids
         /\ \A h \in Hosts : txn[h] \in Txns /\ load[h] \in Loads /\ base[h] \in State
<1>1. created \in Nat /\ created <= MaxSnapshots /\ created + 1 \in Nat
  BY SnapshotsAssumption DEF Types, TypeOK
<1> QED
  BY <1>1 DEF Types, TypeOK, Named

LEMMA WholeContent ==
  ASSUME Types, NEW i \in Ids, Whole(i), Readable(i)
  PROVE  /\ manifest[i] \in [Stores -> Ids]
         /\ Content(i) = published[i] /\ published[i] \in State
<1>1. manifest[i] \in [Stores -> Ids] /\ published[i] \in State
  BY Shapes, Files DEF Whole, Readable
<1>2. ASSUME NEW s \in Stores PROVE generation[s][manifest[i][s]] = published[i][s]
  BY <1>1, Files DEF Whole, Readable
<1>3. published[i] = [s \in Stores |-> published[i][s]]
  BY <1>1 DEF State
<1> QED
  BY <1>1, <1>2, <1>3 DEF Content

LEMMA WholeReadable ==
  ASSUME Types, NEW i \in Ids, Whole(i), ~Damaged
  PROVE  Readable(i)
<1>1. manifest[i] \in [Stores -> Ids]
  BY Shapes, Files DEF Whole
<1>2. ASSUME NEW s \in Stores PROVE generation[s][manifest[i][s]] \in Records
  BY <1>1, Files DEF Whole, State
<1> QED
  BY <1>1, <1>2, Files DEF Readable

\* A store that opens shows one published snapshot, or nothing at all.
LEMMA Shown ==
  ASSUME Types, NamedInv, Opens
  PROVE  /\ ActiveState = Latest /\ Latest \in State
         /\ Active = NoId => Latest = Empty
         /\ Active # NoId => /\ Active \in Named /\ Active \in Ids /\ current # NoId
                             /\ Readable(Active) /\ Latest = Content(Active)
                             /\ manifest[Active] \in [Stores -> Ids]
                             /\ published[Active] \in State
                             /\ Content(Active) = published[Active]
<1>1. Active = current \/ Active = previous
  BY DEF Active
<1>2. CASE Active = NoId
  <2>1. current = NoId
    BY <1>2 DEF Opens
  <2> QED
    BY <1>2, <2>1, Files DEF ActiveState, Latest
<1>3. CASE Active # NoId
  <2>1. current # NoId
    BY <1>1, <1>3 DEF NamedInv
  <2>2. Active \in Named /\ Active \in Ids /\ Whole(Active)
    BY <1>1, <1>3, Shapes DEF Named, NamedInv
  <2>3. Readable(Active)
    BY <1>3 DEF Opens
  <2>4. /\ manifest[Active] \in [Stores -> Ids] /\ published[Active] \in State
        /\ Content(Active) = published[Active]
    BY <2>2, <2>3, WholeContent
  <2>5. Latest = Content(Active) /\ ActiveState = Content(Active)
    BY <1>3, <2>1 DEF Latest, ActiveState
  <2> QED
    BY <1>3, <2>1, <2>2, <2>3, <2>4, <2>5
<1> QED
  BY <1>2, <1>3

\* Only the empty state and published ones are ever shown.
LEMMA ShownBefore ==
  Types /\ NamedInv => \/ Latest \in {Empty, Torn}
                       \/ \E i \in Ids : Latest = published[i] /\ published[i] \in State
<1> SUFFICES ASSUME Types, NamedInv
             PROVE  Latest \in {Empty, Torn} \/ \E i \in Ids : Latest = published[i] /\ published[i] \in State
  OBVIOUS
<1>1. CASE current = NoId \/ ~Opens
  BY <1>1 DEF Latest
<1>2. CASE current # NoId /\ Opens
  <2>1. Active # NoId
    BY <1>2 DEF Opens
  <2> QED
    BY <1>2, <2>1, Shown
<1> QED
  BY <1>1, <1>2

\* The pointers and what they name decide what is shown.
LEMMA ShownKept ==
  ASSUME Types, NamedInv, current' = current, previous' = previous,
         \A i \in {current, previous} \ {NoId} :
            /\ manifest'[i] = manifest[i]
            /\ manifest[i] \in [Stores -> Ids] =>
                 \A s \in Stores : generation'[s][manifest[i][s]] = generation[s][manifest[i][s]]
  PROVE  Active' = Active /\ Latest' = Latest
<1>1. ASSUME NEW i \in {current, previous} \ {NoId}
      PROVE  (Readable(i))' <=> Readable(i)
  <2>1. i \in Ids /\ manifest[i] \in {Absent, Torn} \cup [Stores -> Ids]
    BY Shapes
  <2>2. CASE manifest[i] \in {Absent, Torn}
    BY <2>2 DEF Readable
  <2>3. CASE manifest[i] \in [Stores -> Ids]
    BY <2>3, Files DEF Readable
  <2> QED
    BY <2>1, <2>2, <2>3
<1>2. ASSUME NEW i \in {current, previous} \ {NoId}, Readable(i)
      PROVE  (Content(i))' = Content(i)
  <2>1. manifest[i] \in [Stores -> Ids]
    BY <1>2, Shapes, Files DEF Readable
  <2> QED
    BY <2>1 DEF Content
<1>3. Active' = Active
  BY <1>1 DEF Active
<1>4. CASE current = NoId
  BY <1>3, <1>4 DEF Latest
<1>5. CASE current # NoId
  <2>1. Active \in {current, previous}
    BY DEF Active
  <2>2. Opens' <=> Opens
    BY <1>1, <1>3, <1>5, <2>1 DEF Opens
  <2>3. Opens => (Content(Active))' = Content(Active)
    <3> SUFFICES ASSUME Opens PROVE (Content(Active))' = Content(Active)
      OBVIOUS
    <3>1. Active # NoId /\ Readable(Active)
      BY <1>5 DEF Opens
    <3>2. \A i \in {current, previous} \ {NoId} : Readable(i) => (Content(i))' = Content(i)
      BY <1>2
    <3>3. manifest[Active] \in [Stores -> Ids] /\ manifest'[Active] = manifest[Active]
      BY <2>1, <3>1, Shapes, Files DEF Readable
    <3>4. \A s \in Stores : generation'[s][manifest[Active][s]] = generation[s][manifest[Active][s]]
      BY <2>1, <3>1, <3>3
    <3> QED
      BY <1>3, <3>3, <3>4 DEF Content
  <2> QED
    BY <1>3, <1>5, <2>2, <2>3 DEF Latest
<1> QED
  BY <1>3, <1>4, <1>5

-----------------------------------------------------------------------------
(* What the invariant says of the properties *)

LEMMA SnapshotsFollow == IInv => SnapshotsHold
<1> SUFFICES ASSUME IInv PROVE SnapshotsHold
  OBVIOUS
<1> USE DEF IInv
<1>1. TypeOK
  BY DEF Types
<1>2. NamedSnapshotsWhole
  <2> SUFFICES ASSUME ~Damaged, NEW i \in Named PROVE Readable(i) /\ Content(i) = published[i]
    BY DEF NamedSnapshotsWhole, Undamaged, Damaged, Named
  <2>1. i \in Ids /\ Whole(i)
    BY Shapes DEF NamedInv
  <2> QED
    BY <2>1, WholeReadable, WholeContent
<1>3. OpensWhole
  BY Shown DEF OpensWhole
<1>4. OneSnapshotRead
  <2> SUFFICES ASSUME NEW h \in Hosts, NEW s \in Stores, load[h].got[s] # Absent
               PROVE  load[h].got[s] = published[load[h].snapshot][s]
    BY DEF OneSnapshotRead
  <2> QED
    BY DEF LoadInv, Loaded, Reads
<1>5. PinnedReadsSucceed
  <2> SUFFICES ASSUME ~Damaged, "lapse" \notin mishaps,
                      NEW h \in Hosts, load[h].at \in {"startup", "full"}, NEW s \in Stores
               PROVE  Source(h, s) \in Records
    BY DEF PinnedReadsSucceed, Undamaged, Damaged, Unread, ProfileOf, Stores
  <2>1. Holds(h, load[h])
    BY DEF LoadInv, Loaded
  <2>2. load[h].snapshot \in Named /\ load[h].refs = manifest[load[h].snapshot]
    BY <2>1 DEF Holds, PinsOf, Named
  <2>3. load[h].snapshot \in Ids /\ Whole(load[h].snapshot)
    BY <2>2, Shapes DEF NamedInv
  <2> QED
    BY <2>2, <2>3, WholeReadable DEF Source, Readable
<1> QED
  BY <1>1, <1>2, <1>3, <1>4, <1>5 DEF SnapshotsHold

-----------------------------------------------------------------------------
(* What is published and what is read lies below the ids in the making *)

LEMMA OldIds ==
  ASSUME Types, IdsInv
  PROVE  /\ \A i \in Ids : published[i] \in State => i <= created
         /\ \A i \in Ids, s \in Stores :
              manifest[i] \in [Stores -> Ids] => manifest[i][s] \in Ids /\ manifest[i][s] <= i
<1>1. \A i \in Ids : published[i] \in State => i <= created
  <2> SUFFICES ASSUME NEW i \in Ids, ~(i <= created) PROVE published[i] \notin State
    OBVIOUS
  <2>1. i > created
    BY Shapes, Files
  <2> QED
    BY <2>1, Files DEF IdsInv
<1> QED
  BY <1>1 DEF IdsInv

\* The id c is newer than all that is published; a step writes only the files of c.
NewId(c) == \A i \in Ids : published[i] \in State => i < c
WritesAt(c) ==
  /\ \A i \in Ids \ {c} : /\ manifest'[i] = manifest[i]
                        /\ \A s \in Stores : generation'[s][i] = generation[s][i]
  /\ manifest'[c] # manifest[c] => \A s \in Stores : manifest'[c][s] <= c

\* Such a step leaves alone what is shown, what is named and what is being read.
LEMMA OldKept ==
  ASSUME IInv, NEW c \in Nat, NewId(c), WritesAt(c),
         current' = current, previous' = previous, published' = published,
         created' \in Nat, created <= created', mishaps \subseteq mishaps'
  PROVE  /\ Active' = Active /\ Latest' = Latest
         /\ \A i \in Named : Whole(i)'
         /\ \A l \in Loads : Reads(l) => Reads(l)' /\ manifest'[l.snapshot] = manifest[l.snapshot]
<1> USE DEF IInv, NewId, WritesAt
<1>1. ASSUME NEW i \in Named
      PROVE  /\ i \in Ids /\ manifest'[i] = manifest[i]
             /\ manifest[i] \in [Stores -> Ids] =>
                  \A s \in Stores : generation'[s][manifest[i][s]] = generation[s][manifest[i][s]]
  <2>1. i \in Ids /\ Whole(i) /\ i < c
    BY Shapes DEF NamedInv, Whole
  <2>2. manifest'[i] = manifest[i]
    BY <2>1, Files
  <2>3. ASSUME manifest[i] \in [Stores -> Ids], NEW s \in Stores
        PROVE  generation'[s][manifest[i][s]] = generation[s][manifest[i][s]]
    <3>1. manifest[i][s] \in Ids /\ manifest[i][s] <= i
      BY <2>1, <2>3, OldIds
    <3>2. manifest[i][s] # c
      BY <2>1, <3>1, Files
    <3> QED
      BY <3>1, <3>2
  <2> QED
    BY <2>1, <2>2, <2>3
<1>2. Active' = Active /\ Latest' = Latest
  BY <1>1, ShownKept DEF Named
<1>3. ASSUME NEW i \in Named PROVE Whole(i)'
  <2>1. /\ i \in Ids /\ Whole(i) /\ manifest'[i] = manifest[i]
        /\ manifest[i] \in {Absent, Torn} \cup [Stores -> Ids]
    BY <1>1, Shapes DEF NamedInv
  <2>2. \A s \in Stores : manifest[i] \in [Stores -> Ids] =>
            generation'[s][manifest[i][s]] = generation[s][manifest[i][s]]
    BY <1>1
  <2>3. Damaged => Damaged'
    BY DEF Damaged
  <2> QED
    BY <2>1, <2>2, <2>3 DEF Whole
<1>4. ASSUME NEW l \in Loads, Reads(l)
      PROVE  Reads(l)' /\ manifest'[l.snapshot] = manifest[l.snapshot]
  <2>0. l.snapshot \in 1..created /\ published[l.snapshot] \in State
    BY <1>4 DEF Reads
  <2>1. l.snapshot \in Ids /\ l.snapshot < c /\ l.snapshot \in 1..created
    <3>1. l.snapshot \in Ids
      BY <2>0, Shapes, SnapshotsAssumption DEF Ids
    <3> QED
      BY <2>0, <3>1
  <2>2. ASSUME NEW s \in Stores PROVE l.refs[s] \in Ids /\ l.refs[s] # c
    <3>1. l.refs[s] \in 1..l.snapshot
      BY <1>4 DEF Reads
    <3> QED
      BY <2>1, <3>1, SnapshotsAssumption DEF Ids
  <2>3. \A s \in Stores : generation'[s][l.refs[s]] = generation[s][l.refs[s]]
    BY <2>2
  <2>4. l.snapshot \in 1..created'
    BY <2>1, Shapes
  <2>5. manifest'[l.snapshot] = manifest[l.snapshot]
    BY <2>1, Files
  <2> QED
    BY <1>4, <2>3, <2>4, <2>5 DEF Reads
<1> QED
  BY <1>2, <1>3, <1>4

\* A commit keeps its draft while the files and what is shown stay.
LEMMA DraftsKept ==
  ASSUME manifest' = manifest, generation' = generation, published' = published,
         Active' = Active, Latest' = Latest, NEW t \in Txns, Drafts(t)
  PROVE  Drafts(t)'
  BY DEF Drafts

\* What commits have under way when no commit takes a step, with and without
\* changes to the files.
LEMMA TxnsKept ==
  ASSUME IInv, txn' = txn, created' = created,
         manifest' = manifest, generation' = generation, published' = published,
         Active' = Active, Latest' = Latest
  PROVE  LockInv' /\ TxnInv'
<1>1. \A h \in Hosts : txn[h] \in Txns
  BY Shapes DEF IInv
<1>2. \A h \in Hosts : txn[h].at \in Unpublished => Drafts(txn[h])'
  BY <1>1, DraftsKept DEF IInv, TxnInv
<1>3. TxnInv'
  BY <1>2 DEF IInv, TxnInv
<1> QED
  BY <1>3 DEF IInv, LockInv

LEMMA TxnsIdle ==
  ASSUME IInv, LockFree, txn' = txn
  PROVE  LockInv' /\ TxnInv'
<1>1. \A h \in Hosts : txn[h].at \notin Locked /\ txn[h].at \notin Unpublished
  BY DEF LockFree, Locked, Unpublished
<1> QED
  BY <1>1 DEF IInv, LockInv, TxnInv

\* The step of a commit, which has the lock for itself.
LEMMA TxnStep ==
  ASSUME IInv, NEW h \in Hosts, NEW t \in Txns, txn' = [txn EXCEPT ![h] = t],
         txn[h].at \in Locked \/ LockFree,
         t.at \in Locked => t.id = created' /\ created' \in Ids,
         t.at \in Unpublished => Drafts(t)',
         t.at = "idle" => t = NoTxn
  PROVE  LockInv' /\ TxnInv' /\ txn' \in [Hosts -> Txns]
<1>1. txn \in [Hosts -> Txns]
  BY DEF IInv, Types
<1>2. txn'[h] = t /\ txn' \in [Hosts -> Txns] /\ \A k \in Hosts \ {h} : txn'[k] = txn[k]
  BY <1>1
<1>3. \A k \in Hosts \ {h} : txn[k].at \notin Locked /\ txn[k].at \notin Unpublished
  BY DEF IInv, LockInv, LockFree, Locked, Unpublished
<1>4. LockInv'
  BY <1>2, <1>3 DEF LockInv
<1>5. ASSUME NEW k \in Hosts
      PROVE  /\ txn'[k].at \in Locked => txn'[k].id = created' /\ created' \in Ids
             /\ txn'[k].at \in Unpublished => Drafts(txn[k])'
             /\ txn'[k].at = "idle" => txn'[k] = NoTxn
  <2>1. CASE k = h
    <3>1. txn'[k] = t
      BY <1>2, <2>1
    <3>2. Drafts(t)' => Drafts(txn[k])'
      BY <3>1 DEF Drafts
    <3> QED
      BY <3>1, <3>2
  <2>2. CASE k # h
    <3>1. txn'[k] = txn[k]
      BY <1>2, <2>2
    <3> QED
      BY <1>3, <2>2, <3>1 DEF IInv, TxnInv
  <2> QED
    BY <2>1, <2>2
<1>6. TxnInv'
  BY <1>5 DEF TxnInv
<1> QED
  BY <1>2, <1>4, <1>6

\* What a host reads when it takes no step and loses no pin that has not lapsed.
LEMMA LoadedKept ==
  ASSUME NEW h \in Hosts, NEW l \in Loads, Loaded(h, l), mishaps \subseteq mishaps',
         Reads(l) => Reads(l)',
         \A p \in PinsOf(h)' : \E q \in PinsOf(h) : q.snapshot = p.snapshot,
         "lapse" \notin mishaps' => PinsOf(h) \subseteq PinsOf(h)',
         Reads(l) /\ Holds(h, l) /\ "lapse" \notin mishaps' /\ ~Damaged' =>
            manifest'[l.snapshot] = manifest[l.snapshot]
  PROVE  Loaded(h, l)'
<1>1. "lapse" \notin mishaps' => "lapse" \notin mishaps
  OBVIOUS
<1>2. ~Damaged' => ~Damaged
  BY DEF Damaged
<1>3. ASSUME l.at \in {"startup", "full"} PROVE Holds(h, l)'
  <2>1. Holds(h, l) /\ Reads(l)
    BY <1>3 DEF Loaded, Loading
  <2> QED
    BY <1>1, <1>2, <2>1 DEF Holds
<1>4. l.at = "new" => PinsOf(h)' = {}
  BY DEF Loaded
<1>5. l.at \in Loading => \A p \in PinsOf(h)' : p.snapshot = l.snapshot
  BY DEF Loaded
<1>6. IF l.at \in Loading THEN Reads(l)' ELSE \A s \in Stores : l.got[s] = Absent
  BY DEF Loaded
<1> QED
  BY <1>3, <1>4, <1>5, <1>6 DEF Loaded

\* What all hosts read when a step touches no load, no pin and no read file.
LEMMA LoadsKept ==
  ASSUME IInv, load' = load, pins' = pins, mishaps \subseteq mishaps',
         \A l \in Loads : Reads(l) => Reads(l)' /\ manifest'[l.snapshot] = manifest[l.snapshot]
  PROVE  LoadInv'
<1>1. ASSUME NEW h \in Hosts PROVE Loaded(h, load[h])'
  <2>1. load[h] \in Loads /\ Loaded(h, load[h])
    BY Shapes DEF IInv, LoadInv
  <2>2. PinsOf(h)' = PinsOf(h)
    BY DEF PinsOf
  <2> QED
    BY <2>1, <2>2, LoadedKept
<1>2. \A h \in Hosts : load'[h] = load[h]
  OBVIOUS
<1> QED
  BY <1>1 DEF IInv, LoadInv

-----------------------------------------------------------------------------
(* The steps of a commit *)

LEMMA InitHolds == Init => IInv
<1> SUFFICES ASSUME Init PROVE IInv
  OBVIOUS
<1>1. NoTxn \in Txns /\ NoLoad \in Loads
  BY Files DEF NoTxn, Txns, NoLoad, Loads, NoId
<1>2. Types
  <2>1. 0 \in 0..MaxSnapshots
    BY SnapshotsAssumption
  <2> QED
    BY <1>1, <2>1, Files DEF Init, Types, TypeOK
<1>3. /\ \A h \in Hosts : txn[h] = NoTxn /\ load[h] = NoLoad
      /\ NoTxn.at = "idle" /\ NoLoad.at = "new" /\ \A s \in Stores : NoLoad.got[s] = Absent
  BY DEF Init, NoTxn, NoLoad
<1>4. LockInv /\ TxnInv
  BY <1>3 DEF LockInv, TxnInv, Locked, Unpublished
<1>5. IdsInv
  BY Files DEF Init, IdsInv
<1>6. NamedInv
  BY DEF Init, NamedInv, Named
<1>7. LoadInv
  BY <1>3 DEF Init, LoadInv, Loaded, Loading, PinsOf
<1> QED
  BY <1>2, <1>4, <1>5, <1>6, <1>7 DEF IInv

\* What the host that has the lock knows of its commit.
LEMMA Writing ==
  ASSUME IInv, NEW h \in Hosts, txn[h].at \in Locked
  PROVE  /\ txn[h] \in Txns /\ txn[h].id = created
         /\ created \in Ids /\ created \in Nat
         /\ txn[h].at \in Unpublished =>
               Drafts(txn[h]) /\ NewId(created)
<1>1. txn[h] \in Txns /\ txn[h].id = created /\ created \in Ids /\ created \in Nat
  BY Shapes DEF IInv, TxnInv
<1>2. ASSUME txn[h].at \in Unpublished
      PROVE  Drafts(txn[h]) /\ NewId(created)
  <2>1. Drafts(txn[h]) /\ published[created] = Absent
    BY <1>1, <1>2 DEF IInv, TxnInv, Drafts
  <2>2. ASSUME NEW i \in Ids, published[i] \in State PROVE i < created
    <3>1. i <= created /\ i # created /\ i \in Nat
      BY <2>1, <2>2, OldIds, Files DEF IInv
    <3> QED
      BY <1>1, <3>1
  <2> QED
    BY <2>1, <2>2 DEF NewId
<1> QED
  BY <1>1, <1>2

LEMMA NamedKept ==
  ASSUME NamedInv, current' = current, previous' = previous, Named' \subseteq Named,
         \A i \in Named : Whole(i)'
  PROVE  NamedInv'
<1>1. \A i \in Named' : Whole(i)'
  OBVIOUS
<1> QED
  BY <1>1 DEF NamedInv

\* The step of a commit that leaves the pointers alone and writes no files but
\* those of the id c.
LEMMA WriterStep ==
  ASSUME IInv, TypeOK', NEW h \in Hosts, NEW t \in Txns, NEW c \in Nat,
         txn' = [txn EXCEPT ![h] = t], txn[h].at \in Locked \/ LockFree,
         NewId(c), WritesAt(c),
         current' = current, previous' = previous, published' = published,
         pins' = pins, load' = load,
         created' \in Nat, created <= created', mishaps \subseteq mishaps',
         t.at \in Locked => t.id = created' /\ created' \in Ids,
         t.at = "idle" => t = NoTxn,
         Active' = Active /\ Latest' = Latest /\ t.at \in Unpublished => Drafts(t)'
  PROVE  IInv' /\ Latest' = Latest
<1>1. /\ Active' = Active /\ Latest' = Latest
      /\ \A i \in Named : Whole(i)'
      /\ \A l \in Loads : Reads(l) => Reads(l)' /\ manifest'[l.snapshot] = manifest[l.snapshot]
  BY OldKept
<1>2. LockInv' /\ TxnInv' /\ txn' \in [Hosts -> Txns]
  BY <1>1, TxnStep
<1>3. Types'
  BY <1>2 DEF IInv, Types
<1>4. IdsInv'
  <2>1. \A i \in Ids : i > created' => published'[i] = Absent
    <3> SUFFICES ASSUME NEW i \in Ids, i > created' PROVE published[i] = Absent
      OBVIOUS
    <3>1. i > created
      BY Shapes, Files DEF IInv
    <3> QED
      BY <3>1 DEF IInv, IdsInv
  <2>2. ASSUME NEW i \in Ids, NEW s \in Stores, manifest'[i] \in [Stores -> Ids]
        PROVE  manifest'[i][s] <= i
    <3>1. CASE manifest'[i] = manifest[i]
      BY <2>2, <3>1 DEF IInv, IdsInv
    <3>2. CASE manifest'[i] # manifest[i]
      <4>1. i = c
        BY <3>2 DEF WritesAt
      <4> QED
        BY <3>2, <4>1 DEF WritesAt
    <3> QED
      BY <3>1, <3>2
  <2> QED
    BY <2>1, <2>2 DEF IdsInv
<1>5. Named' = Named
  BY DEF Named
<1>6. NamedInv'
  BY <1>1, <1>5, NamedKept DEF IInv
<1>7. LoadInv'
  BY <1>1, LoadsKept
<1> QED
  BY <1>1, <1>2, <1>3, <1>4, <1>6, <1>7 DEF IInv

\* A commit starts from the snapshot it finds.
LEMMA BeginKeeps ==
  ASSUME IInv, NEW h \in Hosts, NEW from \in State, NEW to \in State, NEW learns \in BOOLEAN,
         Begin(h, from, to, learns)
  PROVE  IInv' /\ Latest' = Latest
<1> DEFINE c == created + 1
           t == [at |-> "preparing", from |-> from, to |-> to, learns |-> learns,
                 id |-> c, parent |-> Active, next |-> Applied(from, to),
                 refs |-> [s \in Stores |-> IF s \in ChangedStores(from, to) THEN c
                                            ELSE manifest[Active][s]]]
<1>1. /\ LockFree /\ Opens /\ ~Conflict(from, to) /\ created < MaxSnapshots
      /\ created' = c /\ txn' = [txn EXCEPT ![h] = t]
      /\ preparing' = [preparing EXCEPT ![c] = "fresh"]
      /\ UNCHANGED <<current, previous, manifest, generation, prepared, pins,
                     load, base, published, mishaps>>
  BY DEF Begin, CanCommit
<1>2. created \in Nat /\ c \in Nat /\ c \in Ids /\ created < c
  BY <1>1, Shapes, SnapshotsAssumption DEF IInv, Ids
<1>3. /\ ActiveState = Latest /\ Latest \in State
      /\ Active # NoId => /\ Active \in Ids /\ Latest = Content(Active) /\ Active <= created
                          /\ manifest[Active] \in [Stores -> Ids]
                          /\ \A s \in Stores : manifest[Active][s] \in Ids
                                               /\ manifest[Active][s] <= Active
  BY <1>1, Shown, OldIds DEF IInv
<1>4. Active \in Ids \cup {NoId}
  BY Shapes DEF IInv, Active
<1>5. Applied(from, to) \in State
  BY <1>3 DEF Applied, State
<1>6. ASSUME NEW s \in Stores
      PROVE  /\ t.refs[s] \in 1..c /\ t.refs[s] \in Ids
             /\ t.refs[s] # c => generation[s][t.refs[s]] = t.next[s]
  <2>1. CASE s \in ChangedStores(from, to)
    BY <1>2, <2>1
  <2>2. CASE s \notin ChangedStores(from, to)
    <3>1. Active # NoId /\ Applied(from, to)[s] = ActiveState[s]
      BY <2>2 DEF ChangedStores
    <3>2. t.refs[s] = manifest[Active][s]
      BY <2>2
    <3>3. generation[s][manifest[Active][s]] = Applied(from, to)[s]
      BY <1>3, <3>1 DEF Content
    <3>4. manifest[Active][s] \in 1..c /\ manifest[Active][s] \in Ids
      BY <1>2, <1>3, <3>1, Files, SnapshotsAssumption DEF Ids
    <3> QED
      BY <3>2, <3>3, <3>4
  <2> QED
    BY <2>1, <2>2
<1>7. t \in Txns
  BY <1>2, <1>4, <1>5, <1>6 DEF Txns, Locked
<1>8. published[c] = Absent /\ NewId(c)
  <2>1. published[c] = Absent
    BY <1>2 DEF IInv, IdsInv
  <2>2. ASSUME NEW i \in Ids, published[i] \in State PROVE i < c
    BY <1>2, <2>2, OldIds, Files DEF IInv
  <2> QED
    BY <2>1, <2>2 DEF NewId
<1>9. /\ \A s \in Changed(from, to) : Latest[s] \in {from[s], to[s]}
      /\ Applied(from, to) = [s \in Stores |-> IF s \in Changed(from, to) THEN to[s] ELSE Latest[s]]
  BY <1>1, <1>3 DEF Conflict, Applied
<1>10. t.at = "preparing" /\ t.at \in Locked /\ t.at \in Unpublished
  BY DEF Locked, Unpublished
<1>11. Drafts(t)
  BY <1>3, <1>6, <1>8, <1>9 DEF Drafts
<1>12. TypeOK'
  BY <1>1, <1>2, SnapshotsAssumption DEF IInv, Types, TypeOK
<1>13. PICK u \in Txns : u = t
  BY <1>7
<1>14. /\ u.at \in Locked /\ u.at \in Unpublished /\ u.at # "idle" /\ u.id = c
       /\ txn' = [txn EXCEPT ![h] = u] /\ Drafts(u)
  BY <1>1, <1>10, <1>11, <1>13
<1> HIDE DEF t
<1>15. Active' = Active /\ Latest' = Latest => Drafts(u)'
  BY <1>1, <1>14, DraftsKept
<1>16. PICK x \in Nat : x = c
  BY <1>2
<1>17. /\ created' = x /\ u.id = x /\ x \in Ids /\ created' \in Nat /\ created <= created'
       /\ NewId(x)
  BY <1>1, <1>2, <1>8, <1>14, <1>16
<1> HIDE DEF c
<1>18. /\ current' = current /\ previous' = previous /\ published' = published
       /\ pins' = pins /\ load' = load /\ mishaps \subseteq mishaps'
       /\ WritesAt(x)
  BY <1>1 DEF WritesAt
<1>19. txn[h].at \in Locked \/ LockFree
  BY <1>1
<1> QED
  BY <1>12, <1>14, <1>15, <1>17, <1>18, <1>19, WriterStep

\* The next phase of a commit.
LEMMA Phase ==
  ASSUME NEW t \in Txns, NEW at \in Locked, NEW u, u = [t EXCEPT !.at = at]
  PROVE  /\ u \in Txns /\ u.at = at /\ u.id = t.id /\ u.parent = t.parent
         /\ u.from = t.from /\ u.to = t.to /\ u.next = t.next /\ u.refs = t.refs
  BY DEF Txns

LEMMA WriteStoresKeeps ==
  ASSUME IInv, NEW h \in Hosts, WriteStores(h)
  PROVE  IInv' /\ Latest' = Latest
<1>1. /\ txn[h].at = "preparing" /\ txn[h].at \in Locked /\ txn[h].at \in Unpublished
      /\ txn' = [txn EXCEPT ![h].at = "stores"]
      /\ generation' = [s \in Stores |-> IF s \in New(h)
                           THEN [generation[s] EXCEPT ![txn[h].id] = txn[h].next[s]]
                           ELSE generation[s]]
      /\ UNCHANGED <<current, previous, manifest, preparing, prepared, pins,
                     created, load, base, published, mishaps>>
  BY DEF WriteStores, Locked, Unpublished
<1>2. PICK c \in Nat : c = created
  BY <1>1, Writing
<1>3. /\ txn[h] \in Txns /\ txn[h].id = c /\ c \in Ids /\ Drafts(txn[h])
      /\ NewId(c)
  BY <1>1, <1>2, Writing
<1>4. "stores" \in Locked /\ "stores" \in Unpublished
  BY DEF Locked, Unpublished
<1>5. PICK u : u = [txn[h] EXCEPT !.at = "stores"]
  OBVIOUS
<1>6. /\ u \in Txns /\ u.at = "stores" /\ u.id = txn[h].id /\ u.parent = txn[h].parent
      /\ u.from = txn[h].from /\ u.to = txn[h].to
      /\ u.next = txn[h].next /\ u.refs = txn[h].refs
      /\ txn' = [txn EXCEPT ![h] = u]
  BY <1>1, <1>3, <1>4, <1>5, Phase
<1>7. generation \in [Stores -> [Ids -> Records \cup {Absent, Torn}]]
  BY DEF IInv, Types, TypeOK
<1>8. \A s \in Stores : txn[h].next[s] \in Records
  BY <1>3 DEF Txns, State
<1>9. /\ generation' \in [Stores -> [Ids -> Records \cup {Absent, Torn}]]
      /\ \A s \in Stores, i \in Ids : i # c => generation'[s][i] = generation[s][i]
      /\ \A s \in Stores : s \notin New(h) => generation'[s] = generation[s]
      /\ \A s \in New(h) : s \in Stores => generation'[s][c] = txn[h].next[s]
  BY <1>1, <1>3, <1>7, <1>8
<1>10. TypeOK'
  BY <1>1, <1>9 DEF IInv, Types, TypeOK
<1>11. ASSUME NEW s \in Stores PROVE generation'[s][u.refs[s]] = u.next[s]
  <2>1. CASE s \in New(h)
    BY <1>3, <1>6, <1>9, <2>1 DEF New
  <2>2. CASE s \notin New(h)
    <3>1. u.refs[s] # c /\ generation'[s] = generation[s]
      BY <1>3, <1>6, <1>9, <2>2 DEF New
    <3> QED
      BY <1>3, <1>6, <3>1 DEF Drafts
  <2> QED
    BY <2>1, <2>2
<1>12. Active' = Active /\ Latest' = Latest => Drafts(u)'
  BY <1>1, <1>3, <1>6, <1>11 DEF Drafts
<1>13. /\ u.at \in Locked /\ u.at # "idle" /\ u.id = created' /\ created' \in Ids
       /\ created' \in Nat /\ created <= created'
  BY <1>1, <1>2, <1>3, <1>4, <1>6
<1>14. /\ current' = current /\ previous' = previous /\ published' = published
       /\ pins' = pins /\ load' = load /\ mishaps \subseteq mishaps'
       /\ WritesAt(c)
      /\ txn[h].at \in Locked
  BY <1>1, <1>9 DEF WritesAt
<1> QED
  BY <1>3, <1>6, <1>10, <1>12, <1>13, <1>14, WriterStep

LEMMA WriteManifestKeeps ==
  ASSUME IInv, NEW h \in Hosts, WriteManifest(h)
  PROVE  IInv' /\ Latest' = Latest
<1>1. /\ txn[h].at = "stores" /\ txn[h].at \in Locked /\ txn[h].at \in Unpublished
      /\ txn' = [txn EXCEPT ![h].at = "snapshot"]
      /\ manifest' = [manifest EXCEPT ![txn[h].id] = txn[h].refs]
      /\ UNCHANGED <<current, previous, generation, preparing, prepared, pins,
                     created, load, base, published, mishaps>>
  BY DEF WriteManifest, Locked, Unpublished
<1>2. PICK c \in Nat : c = created
  BY <1>1, Writing
<1>3. /\ txn[h] \in Txns /\ txn[h].id = c /\ c \in Ids /\ Drafts(txn[h])
      /\ NewId(c)
  BY <1>1, <1>2, Writing
<1>4. "snapshot" \in Locked /\ "snapshot" \in Unpublished
  BY DEF Locked, Unpublished
<1>5. PICK u : u = [txn[h] EXCEPT !.at = "snapshot"]
  OBVIOUS
<1>6. /\ u \in Txns /\ u.at = "snapshot" /\ u.id = txn[h].id /\ u.parent = txn[h].parent
      /\ u.from = txn[h].from /\ u.to = txn[h].to
      /\ u.next = txn[h].next /\ u.refs = txn[h].refs
      /\ txn' = [txn EXCEPT ![h] = u]
  BY <1>1, <1>3, <1>4, <1>5, Phase
<1>7. txn[h].refs \in [Stores -> Ids] /\ \A s \in Stores : txn[h].refs[s] <= c
  <2>1. \A s \in Stores : txn[h].refs[s] \in 1..c
    BY <1>3 DEF Drafts
  <2>2. \A s \in Stores : txn[h].refs[s] \in Ids /\ txn[h].refs[s] <= c
    BY <1>3, <2>1, SnapshotsAssumption DEF Ids
  <2> QED
    BY <1>3, <2>2 DEF Txns
<1>8. manifest \in [Ids -> {Absent, Torn} \cup [Stores -> Ids]]
  BY DEF IInv, Types, TypeOK
<1>9. /\ manifest' \in [Ids -> {Absent, Torn} \cup [Stores -> Ids]]
      /\ \A i \in Ids : i # c => manifest'[i] = manifest[i]
      /\ manifest'[c] = txn[h].refs
  BY <1>1, <1>3, <1>7, <1>8
<1>10. TypeOK'
  BY <1>1, <1>9 DEF IInv, Types, TypeOK
<1>11. Active' = Active /\ Latest' = Latest => Drafts(u)'
  BY <1>1, <1>3, <1>6, <1>9 DEF Drafts
<1>12. /\ u.at \in Locked /\ u.at # "idle" /\ u.id = created' /\ created' \in Ids
       /\ created' \in Nat /\ created <= created'
  BY <1>1, <1>2, <1>3, <1>4, <1>6
<1>13. /\ current' = current /\ previous' = previous /\ published' = published
       /\ pins' = pins /\ load' = load /\ mishaps \subseteq mishaps'
       /\ WritesAt(c)
       /\ txn[h].at \in Locked
  BY <1>1, <1>7, <1>9 DEF WritesAt
<1> QED
  BY <1>3, <1>6, <1>10, <1>11, <1>12, <1>13, WriterStep

LEMMA WritePreparedKeeps ==
  ASSUME IInv, NEW h \in Hosts, WritePrepared(h)
  PROVE  IInv' /\ Latest' = Latest
<1>1. /\ txn[h].at = "snapshot" /\ txn[h].at \in Locked /\ txn[h].at \in Unpublished
      /\ txn' = [txn EXCEPT ![h].at = "prepared"]
      /\ prepared' = [prepared EXCEPT ![txn[h].id] = "fresh"]
      /\ UNCHANGED <<current, previous, manifest, generation, preparing, pins,
                     created, load, base, published, mishaps>>
  BY DEF WritePrepared, Locked, Unpublished
<1>2. PICK c \in Nat : c = created
  BY <1>1, Writing
<1>3. /\ txn[h] \in Txns /\ txn[h].id = c /\ c \in Ids /\ Drafts(txn[h])
      /\ NewId(c)
  BY <1>1, <1>2, Writing
<1>4. "prepared" \in Locked /\ "prepared" \in Unpublished
  BY DEF Locked, Unpublished
<1>5. PICK u : u = [txn[h] EXCEPT !.at = "prepared"]
  OBVIOUS
<1>6. /\ u \in Txns /\ u.at = "prepared" /\ u.id = txn[h].id /\ u.parent = txn[h].parent
      /\ u.from = txn[h].from /\ u.to = txn[h].to
      /\ u.next = txn[h].next /\ u.refs = txn[h].refs
      /\ txn' = [txn EXCEPT ![h] = u]
  BY <1>1, <1>3, <1>4, <1>5, Phase
<1>7. TypeOK'
  BY <1>1 DEF IInv, Types, TypeOK
<1>8. Active' = Active /\ Latest' = Latest => Drafts(u)'
  BY <1>1, <1>3, <1>6 DEF Drafts
<1>9. /\ u.at \in Locked /\ u.at # "idle" /\ u.id = created' /\ created' \in Ids
      /\ created' \in Nat /\ created <= created'
  BY <1>1, <1>2, <1>3, <1>4, <1>6
<1>10. /\ current' = current /\ previous' = previous /\ published' = published
      /\ pins' = pins /\ load' = load /\ mishaps \subseteq mishaps'
      /\ WritesAt(c)
      /\ txn[h].at \in Locked
  BY <1>1 DEF WritesAt
<1> QED
  BY <1>3, <1>6, <1>7, <1>8, <1>9, <1>10, WriterStep

\* What a write leaves when it is cut short.
LEMMA Cut ==
  ASSUME IInv, NEW h \in Hosts, Partial(h)
  PROVE  /\ generation' \in [Stores -> [Ids -> Records \cup {Absent, Torn}]]
         /\ txn[h].at # "preparing" => generation' = generation
         /\ \A s \in Stores, i \in Ids : i # txn[h].id => generation'[s][i] = generation[s][i]
<1>1. PICK S \in SUBSET (IF txn[h].at = "preparing" THEN New(h) ELSE {}) :
         generation' = [s \in Stores |-> IF s \in S THEN [generation[s] EXCEPT ![txn[h].id] = Torn]
                                         ELSE generation[s]]
  BY DEF Partial
<1>2. generation \in [Stores -> [Ids -> Records \cup {Absent, Torn}]]
  BY DEF IInv, Types, TypeOK
<1>3. \A s \in Stores : [generation[s] EXCEPT ![txn[h].id] = Torn] \in [Ids -> Records \cup {Absent, Torn}]
  BY <1>2
<1> QED
  BY <1>1, <1>2, <1>3

\* The host is left without a commit.
LEMMA Given ==
  NoTxn \in Txns /\ NoTxn.at = "idle" /\ NoTxn.at \notin Locked /\ NoTxn.at \notin Unpublished
  BY Files DEF NoTxn, Txns, Locked, Unpublished, NoId

LEMMA WriteFailsKeeps ==
  ASSUME IInv, NEW h \in Hosts, WriteFails(h)
  PROVE  IInv' /\ Latest' = Latest
<1>1. /\ txn[h].at \in Locked /\ txn[h].at \in Unpublished
      /\ mishaps \subseteq mishaps' /\ Partial(h)
      /\ txn' = [txn EXCEPT ![h] = NoTxn]
      /\ UNCHANGED <<current, previous, manifest, preparing, prepared, pins,
                     created, load, base, published>>
  BY DEF WriteFails, Mishap, Locked, Unpublished
<1>2. PICK c \in Nat : c = created
  BY <1>1, Writing
<1>3. /\ txn[h].id = c /\ c \in Ids /\ NewId(c)
  BY <1>1, <1>2, Writing
<1>4. /\ generation' \in [Stores -> [Ids -> Records \cup {Absent, Torn}]]
      /\ \A s \in Stores, i \in Ids : i # c => generation'[s][i] = generation[s][i]
  BY <1>1, <1>3, Cut
<1>5. TypeOK'
  BY <1>1, <1>4 DEF IInv, Types, TypeOK
<1>6. /\ current' = current /\ previous' = previous /\ published' = published
      /\ pins' = pins /\ load' = load
      /\ created' \in Nat /\ created <= created'
      /\ WritesAt(c)
  BY <1>1, <1>2, <1>4 DEF WritesAt
<1> QED
  BY <1>1, <1>3, <1>5, <1>6, Given, WriterStep

LEMMA RemoveMarkersKeeps ==
  ASSUME IInv, NEW h \in Hosts, RemoveMarkers(h)
  PROVE  IInv' /\ Latest' = Latest
<1>1. /\ txn[h].at = "current" /\ txn[h].at \in Locked
      /\ txn' = [txn EXCEPT ![h].at = "unmarked"]
      /\ mishaps \subseteq mishaps'
      /\ UNCHANGED <<current, previous, manifest, generation, pins,
                     created, load, base, published>>
  BY DEF RemoveMarkers, Mishap, Locked
<1>2. /\ prepared' \in {prepared, [prepared EXCEPT ![txn[h].id] = "none"]}
      /\ preparing' \in {preparing, [preparing EXCEPT ![txn[h].id] = "none"]}
  BY DEF RemoveMarkers
<1>3. created \in Nat /\ created \in Ids /\ txn[h].id = created /\ txn[h] \in Txns
  BY <1>1, Writing
<1>4. PICK c \in Nat : c = created + 1
  BY <1>3
<1>5. "unmarked" \in Locked /\ "unmarked" \notin Unpublished
  BY DEF Locked, Unpublished
<1>6. PICK u : u = [txn[h] EXCEPT !.at = "unmarked"]
  OBVIOUS
<1>7. /\ u \in Txns /\ u.at = "unmarked" /\ u.id = txn[h].id
      /\ txn' = [txn EXCEPT ![h] = u]
  BY <1>1, <1>3, <1>5, <1>6, Phase
<1>8. NewId(c)
  <2> SUFFICES ASSUME NEW i \in Ids, published[i] \in State PROVE i < c
    BY DEF NewId
  <2>1. i <= created
    BY OldIds DEF IInv
  <2> QED
    BY <1>3, <1>4, <2>1, Files
<1>9. TypeOK'
  BY <1>1, <1>2 DEF IInv, Types, TypeOK
<1>10. /\ current' = current /\ previous' = previous /\ published' = published
      /\ pins' = pins /\ load' = load
      /\ created' \in Nat /\ created <= created'
      /\ WritesAt(c)
      /\ u.at \in Locked /\ u.at \notin Unpublished /\ u.at # "idle"
      /\ u.id = created' /\ created' \in Ids
  BY <1>1, <1>3, <1>5, <1>7 DEF WritesAt
<1> QED
  BY <1>1, <1>7, <1>8, <1>9, <1>10, WriterStep

\* The fallback becomes the snapshot that is active anyway.
LEMMA WritePreviousKeeps ==
  ASSUME IInv, NEW h \in Hosts, WritePrevious(h)
  PROVE  IInv' /\ Latest' = Latest
<1>1. /\ txn[h].at = "prepared" /\ txn[h].at \in Locked /\ txn[h].at \in Unpublished
      /\ txn[h].parent # NoId /\ previous' = txn[h].parent
      /\ txn' = [txn EXCEPT ![h].at = "previous"]
      /\ UNCHANGED <<current, manifest, generation, preparing, prepared, pins,
                     created, load, base, published, mishaps>>
  BY DEF WritePrevious, Locked, Unpublished
<1>2. txn[h] \in Txns /\ txn[h].id = created /\ created \in Ids /\ Drafts(txn[h])
  BY <1>1, Writing
<1>3. "previous" \in Locked /\ "previous" \in Unpublished
  BY DEF Locked, Unpublished
<1>4. PICK u : u = [txn[h] EXCEPT !.at = "previous"]
  OBVIOUS
<1>5. /\ u \in Txns /\ u.at = "previous" /\ u.id = txn[h].id /\ u.parent = txn[h].parent
      /\ u.from = txn[h].from /\ u.to = txn[h].to
      /\ u.next = txn[h].next /\ u.refs = txn[h].refs
      /\ txn' = [txn EXCEPT ![h] = u]
  BY <1>1, <1>2, <1>3, <1>4, Phase
<1>6. previous' = Active /\ Active # NoId
  BY <1>1, <1>2 DEF Drafts
<1>7. current # NoId /\ Active \in {current, previous}
  BY <1>6 DEF Active, IInv, NamedInv
<1>8. \A i : /\ (Readable(i))' <=> Readable(i)
             /\ (Content(i))' = Content(i)
             /\ (Whole(i))' <=> Whole(i)
  BY <1>1 DEF Readable, Content, Whole, Damaged
<1>9. Active' = Active
  BY <1>1, <1>6, <1>8 DEF Active
<1>10. Opens' <=> Opens
  BY <1>6, <1>8, <1>9 DEF Opens
<1>11. (Content(Active))' = Content(Active)
  BY <1>1, <1>9 DEF Content
<1>12. Latest' = Latest
  BY <1>1, <1>7, <1>10, <1>11 DEF Latest
<1>13. Types'
  <2>1. previous' \in Ids \cup {NoId}
    BY <1>6, <1>7, Shapes DEF IInv
  <2>2. TypeOK'
    BY <1>1, <2>1 DEF IInv, Types, TypeOK
  <2> QED
    BY <1>1, <1>5, <2>2 DEF IInv, Types
<1>14. NamedInv'
  <2>1. Named' \subseteq Named
    BY <1>1, <1>6, <1>7 DEF Named
  <2> QED
    BY <1>1, <1>7, <1>8, <2>1 DEF IInv, NamedInv
<1>15. Drafts(u)'
  BY <1>1, <1>2, <1>5, <1>12 DEF Drafts
<1>16. LockInv' /\ TxnInv'
  <2>1. u.at \in Locked /\ u.at # "idle" /\ u.id = created' /\ created' \in Ids
    BY <1>1, <1>2, <1>3, <1>5
  <2> QED
    BY <1>1, <1>5, <1>15, <2>1, TxnStep
<1>17. IdsInv' /\ LoadInv'
  <2>1. \A l \in Loads : Reads(l) => Reads(l)' /\ manifest'[l.snapshot] = manifest[l.snapshot]
    BY <1>1 DEF Reads
  <2> QED
    BY <1>1, <2>1, LoadsKept DEF IInv, IdsInv
<1> QED
  BY <1>12, <1>13, <1>14, <1>16, <1>17 DEF IInv

\* The commit point: the prepared snapshot is what the store now holds.
LEMMA WriteCurrentKeeps ==
  ASSUME IInv, NEW h \in Hosts, WriteCurrent(h)
  PROVE  /\ IInv' /\ Latest' = txn[h].next
         /\ Drafts(txn[h]) /\ txn[h] \in Txns /\ txn[h].at \in Unpublished /\ txn[h].id \in Ids
         /\ published' = [published EXCEPT ![txn[h].id] = txn[h].next]
<1>1. /\ txn[h].at \in {"prepared", "previous"} /\ txn[h].at \in Locked /\ txn[h].at \in Unpublished
      /\ current' = txn[h].id
      /\ published' = [published EXCEPT ![txn[h].id] = Content(txn[h].id)]
      /\ mishaps \subseteq mishaps' /\ (Damaged' <=> Damaged)
      /\ txn' = [txn EXCEPT ![h].at = "current"] \/ txn' = [txn EXCEPT ![h] = NoTxn]
      /\ UNCHANGED <<previous, manifest, generation, preparing, prepared, pins,
                     created, load, base>>
  BY DEF WriteCurrent, CanPublish, Mishap, Locked, Unpublished, Damaged
<1>2. PICK c \in Nat : c = created
  BY <1>1, Writing
<1>3. /\ txn[h] \in Txns /\ txn[h].id = c /\ c \in Ids /\ Drafts(txn[h]) /\ NewId(c)
  BY <1>1, <1>2, Writing
<1>4. c # NoId
  BY <1>3, Files
<1>5. /\ manifest[c] = txn[h].refs /\ published[c] = Absent
      /\ \A s \in Stores : txn[h].refs[s] \in Ids /\ txn[h].next[s] \in Records
                           /\ generation[s][txn[h].refs[s]] = txn[h].next[s]
  <2>1. manifest[c] = txn[h].refs /\ published[c] = Absent
    BY <1>1, <1>3 DEF Drafts
  <2>2. ASSUME NEW s \in Stores
        PROVE  txn[h].refs[s] \in Ids /\ txn[h].next[s] \in Records
               /\ generation[s][txn[h].refs[s]] = txn[h].next[s]
    <3>1. txn[h].refs[s] \in 1..c /\ generation[s][txn[h].refs[s]] = txn[h].next[s]
      BY <1>1, <1>3 DEF Drafts
    <3>2. txn[h].refs[s] \in Ids
      BY <1>3, <3>1, SnapshotsAssumption DEF Ids
    <3> QED
      BY <1>3, <3>1, <3>2 DEF Txns, State
  <2> QED
    BY <2>1, <2>2
<1>6. txn[h].next \in State /\ txn[h].refs \in [Stores -> Ids]
  BY <1>3, <1>5 DEF Txns
<1>7. Content(c) = txn[h].next
  BY <1>5, <1>6 DEF Content, State
<1>8. Readable(c)
  BY <1>5, <1>6, Files DEF Readable
<1>9. published \in [Ids -> State \cup {Absent}]
  BY DEF IInv, Types, TypeOK
<1>10. /\ published' = [published EXCEPT ![c] = txn[h].next]
       /\ published' \in [Ids -> State \cup {Absent}]
       /\ published'[c] = txn[h].next
       /\ \A i \in Ids : i # c => published'[i] = published[i]
  BY <1>1, <1>3, <1>6, <1>7, <1>9
<1>11. Active' = c /\ Opens' /\ Latest' = txn[h].next
  <2>1. (Readable(c))' /\ (Content(c))' = Content(c)
    BY <1>1, <1>8 DEF Readable, Content
  <2>2. Active' = c
    BY <1>1, <1>3, <1>4, <2>1 DEF Active
  <2>3. (Readable(Active))' /\ (Content(Active))' = Content(c)
    BY <1>1, <1>8, <2>2 DEF Readable, Content
  <2>4. Opens'
    BY <1>4, <2>2, <2>3 DEF Opens
  <2>5. current' # NoId
    BY <1>1, <1>3, <1>4
  <2> QED
    BY <1>7, <2>2, <2>3, <2>4, <2>5 DEF Latest
<1>12. TypeOK'
  <2>1. current' \in Ids \cup {NoId}
    BY <1>1, <1>3
  <2> QED
    BY <1>1, <1>10, <2>1 DEF IInv, Types, TypeOK
<1>13. IdsInv'
  <2>1. \A i \in Ids : i > created' => published'[i] = Absent
    BY <1>1, <1>2, <1>10 DEF IInv, IdsInv
  <2> QED
    BY <1>1, <2>1 DEF IInv, IdsInv
<1>14. NamedInv'
  <2>1. Named' \subseteq Named \cup {c}
    BY <1>1, <1>3 DEF Named
  <2>2. ASSUME NEW i \in Named, i # c PROVE Whole(i)'
    <3>1. i \in Ids /\ Whole(i)
      BY Shapes DEF IInv, NamedInv
    <3>2. published'[i] = published[i]
      BY <1>10, <2>2, <3>1
    <3> QED
      BY <1>1, <3>1, <3>2 DEF Whole
  <2>3. Whole(c)'
    <3>1. manifest'[c] = txn[h].refs /\ manifest'[c] # Absent /\ manifest'[c] # Torn
      BY <1>1, <1>5, <1>6, Files
    <3>2. published'[c] \in State
      BY <1>6, <1>10
    <3>3. \A s \in Stores : generation'[s][manifest'[c][s]] = published'[c][s]
      BY <1>1, <1>5, <1>10, <3>1
    <3> QED
      BY <3>1, <3>2, <3>3 DEF Whole
  <2>4. current' # NoId
    BY <1>1, <1>3, <1>4
  <2> QED
    BY <2>1, <2>2, <2>3, <2>4 DEF NamedInv
<1>15. LoadInv'
  <2>1. ASSUME NEW l \in Loads, Reads(l)
        PROVE  Reads(l)' /\ manifest'[l.snapshot] = manifest[l.snapshot]
    <3>1. l.snapshot \in 1..created /\ published[l.snapshot] \in State
      BY <2>1 DEF Reads
    <3>2. l.snapshot \in Ids /\ l.snapshot # c
      BY <1>2, <1>3, <1>5, <3>1, Files, SnapshotsAssumption DEF Ids
    <3>3. published'[l.snapshot] = published[l.snapshot]
      BY <1>10, <3>2
    <3> QED
      BY <1>1, <2>1, <3>3 DEF Reads
  <2> QED
    BY <1>1, <2>1, LoadsKept
<1>16. LockInv' /\ TxnInv' /\ txn' \in [Hosts -> Txns]
  <2>1. CASE txn' = [txn EXCEPT ![h].at = "current"]
    <3>1. "current" \in Locked /\ "current" \notin Unpublished /\ "current" # "idle"
      BY DEF Locked, Unpublished
    <3>2. PICK u : u = [txn[h] EXCEPT !.at = "current"]
      OBVIOUS
    <3>3. u \in Txns /\ u.at = "current" /\ u.id = txn[h].id /\ txn' = [txn EXCEPT ![h] = u]
      BY <1>3, <2>1, <3>1, <3>2, Phase
    <3>4. u.at \notin Unpublished /\ u.at # "idle" /\ u.id = created' /\ created' \in Ids
      BY <1>1, <1>2, <1>3, <3>1, <3>3
    <3> QED
      BY <1>1, <3>3, <3>4, TxnStep
  <2>2. CASE txn' = [txn EXCEPT ![h] = NoTxn]
    BY <1>1, <2>2, Given, TxnStep
  <2> QED
    BY <1>1, <2>1, <2>2
<1>17. Types'
  BY <1>1, <1>12, <1>16 DEF IInv, Types
<1>18. IInv'
  BY <1>13, <1>14, <1>15, <1>16, <1>17 DEF IInv
<1> QED
  BY <1>1, <1>3, <1>10, <1>11, <1>18

\* A collection keeps whatever a pointer or a live pin names.
LEMMA CollectKeeps ==
  ASSUME IInv, NEW h \in Hosts, Collect(h)
  PROVE  /\ IInv' /\ Latest' = Latest
         /\ txn[h].at = "unmarked" /\ txn' = [txn EXCEPT ![h] = NoTxn]
         /\ base' = (IF txn[h].learns THEN [base EXCEPT ![h] = txn[h].to] ELSE base)
         /\ published' = published
<1>1. /\ txn[h].at = "unmarked" /\ txn[h].at \in Locked
      /\ pins' = LivePins
      /\ txn' = [txn EXCEPT ![h] = NoTxn]
      /\ base' = (IF txn[h].learns THEN [base EXCEPT ![h] = txn[h].to] ELSE base)
      /\ UNCHANGED <<current, previous, created, load, published, mishaps>>
  BY DEF Collect, Locked
<1>2. (\E kept \in [Stores -> SUBSET (1..created \ Retained)] : Sweep(kept))
      \/ UNCHANGED <<manifest, generation, preparing, prepared>>
  BY DEF Collect
<1>3. txn[h] \in Txns
  BY <1>1, Writing
<1>4. /\ manifest \in [Ids -> {Absent, Torn} \cup [Stores -> Ids]]
      /\ generation \in [Stores -> [Ids -> Records \cup {Absent, Torn}]]
      /\ preparing \in [Ids -> {"none", "fresh", "stale"}]
      /\ prepared \in [Ids -> {"none", "fresh", "stale"}]
      /\ base \in [Hosts -> State]
      /\ pins \subseteq [owner : Hosts \cup {Nobody}, snapshot : Ids, fresh : BOOLEAN]
  BY DEF IInv, Types, TypeOK
<1> DEFINE Collected ==
      /\ manifest' \in [Ids -> {Absent, Torn} \cup [Stores -> Ids]]
      /\ generation' \in [Stores -> [Ids -> Records \cup {Absent, Torn}]]
      /\ preparing' \in [Ids -> {"none", "fresh", "stale"}]
      /\ prepared' \in [Ids -> {"none", "fresh", "stale"}]
      /\ \A i \in Ids : manifest'[i] \in {manifest[i], Absent}
      /\ \A s \in Stores, i \in Ids : generation'[s][i] \in {generation[s][i], Absent}
      /\ \A i \in Ids : i \in Retained => manifest'[i] = manifest[i]
      /\ \A s \in Stores, i \in Ids : i \in RetainedIn(s) => generation'[s][i] = generation[s][i]
<1>5. Collected
  <2>1. CASE UNCHANGED <<manifest, generation, preparing, prepared>>
    BY <1>4, <2>1
  <2>2. ASSUME NEW kept \in [Stores -> SUBSET (1..created \ Retained)], Sweep(kept)
        PROVE  Collected
    <3>1. /\ generation' \in [Stores -> [Ids -> Records \cup {Absent, Torn}]]
          /\ \A s \in Stores, i \in Ids : generation'[s][i] \in {generation[s][i], Absent}
          /\ \A s \in Stores, i \in Ids : i \in RetainedIn(s) => generation'[s][i] = generation[s][i]
      BY <1>4, <2>2 DEF Sweep
    <3>2. /\ manifest' \in [Ids -> {Absent, Torn} \cup [Stores -> Ids]]
          /\ \A i \in Ids : manifest'[i] \in {manifest[i], Absent}
          /\ \A i \in Ids : i \in Retained => manifest'[i] = manifest[i]
      BY <1>4, <2>2 DEF Sweep
    <3>3. /\ preparing' \in [Ids -> {"none", "fresh", "stale"}]
          /\ prepared' \in [Ids -> {"none", "fresh", "stale"}]
      BY <1>4, <2>2 DEF Sweep, Unstale
    <3> QED
      BY <3>1, <3>2, <3>3
  <2> QED
    BY <1>2, <2>1, <2>2
<1>6. base' \in [Hosts -> State]
  <2>1. txn[h].to \in State
    BY <1>3 DEF Txns
  <2> QED
    BY <1>1, <1>4, <2>1
<1>7. LivePins \subseteq pins
  BY DEF LivePins
<1>8. TypeOK'
  BY <1>1, <1>4, <1>5, <1>6, <1>7 DEF IInv, Types, TypeOK
<1>9. LockInv' /\ TxnInv' /\ txn' \in [Hosts -> Txns]
  BY <1>1, Given, TxnStep
<1>10. ASSUME NEW i \in Ids, i \in Retained, manifest[i] \in [Stores -> Ids], NEW s \in Stores
       PROVE  generation'[s][manifest[i][s]] = generation[s][manifest[i][s]]
  <2>1. manifest[i][s] \in Ids /\ manifest[i][s] \in RetainedIn(s)
    BY <1>10 DEF RetainedIn
  <2> QED
    BY <1>5, <2>1
<1>11. Named' \subseteq Retained /\ Named' \subseteq Named
       /\ {current, previous} \ {NoId} \subseteq Retained /\ {current, previous} \ {NoId} \subseteq Ids
  BY <1>1, <1>7, Shapes DEF IInv, Named, Retained
<1>12. Latest' = Latest
  <2>1. \A i \in {current, previous} \ {NoId} : manifest'[i] = manifest[i]
    BY <1>5, <1>11
  <2>2. \A i \in {current, previous} \ {NoId} : manifest[i] \in [Stores -> Ids] =>
           \A s \in Stores : generation'[s][manifest[i][s]] = generation[s][manifest[i][s]]
    BY <1>10, <1>11
  <2> QED
    BY <1>1, <2>1, <2>2, ShownKept DEF IInv
<1>13. NamedInv'
  <2>1. ASSUME NEW i \in Named' PROVE Whole(i)'
    <3>1. /\ i \in Ids /\ i \in Retained /\ Whole(i) /\ manifest'[i] = manifest[i]
          /\ manifest[i] \in {Absent, Torn} \cup [Stores -> Ids]
      BY <1>5, <1>11, Shapes DEF IInv, NamedInv
    <3>2. manifest[i] \in [Stores -> Ids] =>
             \A s \in Stores : generation'[s][manifest[i][s]] = generation[s][manifest[i][s]]
      BY <1>10, <3>1
    <3>3. Damaged' <=> Damaged
      BY <1>1 DEF Damaged
    <3>4. published'[i] = published[i]
      BY <1>1
    <3>5. manifest[i] # Torn => manifest[i] \in [Stores -> Ids]
      BY <3>1 DEF Whole
    <3> QED
      BY <3>1, <3>2, <3>3, <3>4, <3>5 DEF Whole
  <2> QED
    BY <1>1, <2>1 DEF IInv, NamedInv
<1>14. IdsInv'
  <2>1. ASSUME NEW i \in Ids, NEW s \in Stores, manifest'[i] \in [Stores -> Ids]
        PROVE  manifest'[i][s] <= i
    BY <1>5, <2>1, Files DEF IInv, IdsInv
  <2> QED
    BY <1>1, <2>1 DEF IInv, IdsInv
<1>15. LoadInv'
  <2>1. ASSUME NEW k \in Hosts PROVE Loaded(k, load[k])'
    <3>1. load[k] \in Loads /\ Loaded(k, load[k])
      BY Shapes DEF IInv, LoadInv
    <3>2. /\ \A p \in PinsOf(k)' : p \in PinsOf(k)
          /\ "lapse" \notin mishaps' => PinsOf(k) \subseteq PinsOf(k)'
      BY <1>1 DEF PinsOf, LivePins, IInv, LoadInv
    <3>3. Reads(load[k]) => Reads(load[k])'
      <4> SUFFICES ASSUME Reads(load[k]) PROVE Reads(load[k])'
        OBVIOUS
      <4>1. load[k].snapshot \in Ids
        BY Shapes, SnapshotsAssumption DEF IInv, Reads, Ids
      <4>2. ASSUME NEW s \in Stores PROVE load[k].refs[s] \in Ids
        BY <4>1, SnapshotsAssumption DEF Reads, Ids
      <4>3. \A s \in Stores :
               generation'[s][load[k].refs[s]] \in {generation[s][load[k].refs[s]], Absent}
        BY <1>5, <4>2
      <4> QED
        BY <1>1, <4>3 DEF Reads
    <3>4. ASSUME Reads(load[k]), Holds(k, load[k]), "lapse" \notin mishaps'
          PROVE  manifest'[load[k].snapshot] = manifest[load[k].snapshot]
      <4>1. PICK p \in PinsOf(k) : p.snapshot = load[k].snapshot
        BY <1>1, <3>4 DEF Holds
      <4>2. p \in LivePins
        BY <1>1, <3>4 DEF PinsOf, LivePins, IInv, LoadInv
      <4>3. p.snapshot \in Retained /\ p.snapshot \in Ids
        BY <1>7, <4>2, Shapes DEF IInv, Retained
      <4> QED
        BY <1>5, <4>1, <4>3
    <3> QED
      BY <1>1, <3>1, <3>2, <3>3, <3>4, LoadedKept
  <2>2. \A k \in Hosts : Loaded(k, load[k])' 
    BY <2>1
  <2>3. "lapse" \notin mishaps' => \A p \in pins' : p.fresh
    BY <1>1 DEF LivePins
  <2> QED
    BY <2>2, <2>3 DEF LoadInv
<1>16. Types'
  BY <1>1, <1>8, <1>9 DEF IInv, Types
<1>17. IInv'
  BY <1>9, <1>13, <1>14, <1>15, <1>16 DEF IInv
<1> QED
  BY <1>1, <1>12, <1>17

-----------------------------------------------------------------------------
(* The steps of a hydration *)

\* A host that opens, reads or releases a snapshot changes no file but pins, and
\* of those only its own.
LEMMA LoadStep ==
  ASSUME IInv, TypeOK', NEW h \in Hosts, NEW l \in Loads,
         load' = [load EXCEPT ![h] = l], Loaded(h, l)',
         UNCHANGED <<current, previous, manifest, generation, created, published, mishaps, txn>>,
         Named' \subseteq Named,
         \A p \in pins' : p \in pins \/ p.fresh,
         \A k \in Hosts \ {h} : PinsOf(k)' = PinsOf(k)
  PROVE  IInv' /\ Latest' = Latest
<1>1. Active' = Active /\ Latest' = Latest
  BY ShownKept DEF IInv
<1>2. LockInv' /\ TxnInv'
  BY <1>1, TxnsKept
<1>3. load \in [Hosts -> Loads] /\ load' \in [Hosts -> Loads]
      /\ load'[h] = l /\ \A k \in Hosts \ {h} : load'[k] = load[k]
  BY DEF IInv, Types
<1>4. Types'
  BY <1>3 DEF IInv, Types
<1>5. NamedInv'
  <2>1. \A i : Whole(i) => Whole(i)'
    BY DEF Whole, Damaged
  <2> QED
    BY <2>1 DEF IInv, NamedInv
<1>6. LoadInv'
  <2>1. ASSUME NEW k \in Hosts \ {h} PROVE Loaded(k, load[k])'
    <3>1. load[k] \in Loads /\ Loaded(k, load[k])
      BY Shapes DEF IInv, LoadInv
    <3>2. Reads(load[k]) => Reads(load[k])'
      BY <2>1, <1>3 DEF Reads
    <3>3. PinsOf(k)' = PinsOf(k) /\ load'[k] = load[k]
      BY <1>3
    <3>4. PICK m \in Loads : m = load[k] /\ m = load'[k]
      BY <3>1, <3>3
    <3>5. Loaded(k, m)'
      <4>1. Loaded(k, m) /\ (Reads(m) => Reads(m)')
        BY <3>1, <3>2, <3>4
      <4>2. Holds(k, m) => Holds(k, m)'
        BY <3>3 DEF Holds, Damaged
      <4> QED
        BY <3>3, <4>1, <4>2 DEF Loaded
    <3> QED
      BY <3>4, <3>5
  <2>2. Loaded(h, load[h])'
    BY <1>3
  <2>3. "lapse" \notin mishaps' => \A p \in pins' : p.fresh
    BY DEF IInv, LoadInv
  <2> QED
    BY <2>1, <2>2, <2>3 DEF LoadInv
<1> QED
  BY <1>1, <1>2, <1>4, <1>5, <1>6 DEF IInv, IdsInv

\* A load that reads nothing and has no pin to rely on.
LEMMA NothingRead ==
  ASSUME NEW h \in Hosts, NEW l \in Loads, l.at \notin Loading \cup {"new"},
         \A s \in Stores : l.got[s] = Absent
  PROVE  Loaded(h, l) /\ Loaded(h, l)'
  BY DEF Loaded, Loading

LEMMA OpenKeeps ==
  ASSUME IInv, NEW h \in Hosts, NEW stage \in {"startup", "full"}, Open(h, stage)
  PROVE  IInv' /\ Latest' = Latest
<1>1. /\ load[h].at = "new" /\ Opens
      /\ UNCHANGED <<current, previous, manifest, generation, preparing, prepared,
                     created, txn, base, published, mishaps>>
  BY DEF Open
<1>2. load[h] \in Loads /\ PinsOf(h) = {} /\ \A s \in Stores : load[h].got[s] = Absent
  BY <1>1, Shapes DEF IInv, LoadInv, Loaded, Loading
<1>3. CASE Active = NoId
  <2>1. load' = [load EXCEPT ![h].at = "ready"] /\ pins' = pins
    BY <1>3 DEF Open
  <2>2. PICK l : l = [load[h] EXCEPT !.at = "ready"]
    OBVIOUS
  <2>3. l \in Loads /\ l.at = "ready" /\ l.got = load[h].got /\ load' = [load EXCEPT ![h] = l]
    BY <1>2, <2>1, <2>2 DEF Loads
  <2>4. Loaded(h, l)'
    BY <1>2, <2>3, NothingRead DEF Loading
  <2>5. TypeOK' /\ Named' = Named /\ \A k \in Hosts : PinsOf(k)' = PinsOf(k)
    BY <1>1, <2>1 DEF IInv, Types, TypeOK, Named, PinsOf
  <2> QED
    BY <1>1, <2>1, <2>3, <2>4, <2>5, LoadStep
<1>4. CASE Active # NoId
  <2>1. PICK i \in Ids : i = Active
    BY <1>1, <1>4, Shown DEF IInv
  <2>2. PICK l : l = [load[h] EXCEPT !.at = stage, !.pinned = TRUE,
                                     !.snapshot = i, !.refs = manifest[i]]
    OBVIOUS
  <2>3. /\ pins' = pins \cup {Pin(h, i)}
        /\ load' = [load EXCEPT ![h].at = stage, ![h].pinned = TRUE,
                                ![h].snapshot = i, ![h].refs = manifest[i]]
    BY <1>4, <2>1 DEF Open
  <2>4. /\ i \in Named /\ manifest[i] \in [Stores -> Ids] /\ published[i] \in State
        /\ Content(i) = published[i] /\ i <= created
        /\ \A s \in Stores : manifest[i][s] \in Ids /\ manifest[i][s] <= i
    BY <1>1, <1>4, <2>1, Shown, OldIds DEF IInv
  <2>5. /\ l \in Loads /\ l.at = stage /\ l.got = load[h].got /\ l.snapshot = i
        /\ l.refs = manifest[i]
    BY <1>2, <2>2, <2>4 DEF Loads
  <2>6. load' = [load EXCEPT ![h] = l]
    BY <1>2, <2>2, <2>3 DEF IInv, Types
  <2>7. PinsOf(h)' = {Pin(h, i)} /\ \A k \in Hosts \ {h} : PinsOf(k)' = PinsOf(k)
    BY <1>2, <2>3 DEF PinsOf, Pin
  <2>8. Reads(l)'
    <3>1. l.snapshot \in 1..created'
      BY <1>1, <2>4, <2>5, Shapes, Files, SnapshotsAssumption DEF IInv, Ids
    <3>2. published'[l.snapshot] \in State
      BY <1>1, <2>4, <2>5
    <3>3. ASSUME NEW s \in Stores
          PROVE  /\ l.refs[s] \in 1..l.snapshot
                 /\ generation'[s][l.refs[s]] = published'[l.snapshot][s]
                 /\ l.got[s] = Absent
      <4>1. manifest[i][s] \in 1..i
        BY <2>4, Files, SnapshotsAssumption DEF Ids
      <4>2. generation[s][manifest[i][s]] = published[i][s]
        BY <2>4 DEF Content
      <4> QED
        BY <1>1, <1>2, <2>5, <4>1, <4>2
    <3> QED
      BY <3>1, <3>2, <3>3 DEF Reads
  <2>9. Loaded(h, l)'
    <3>1. /\ Pin(h, i).snapshot = l.snapshot /\ l.at \in Loading /\ l.at # "new"
      BY <2>5 DEF Pin, Loading
    <3>2. Holds(h, l)'
      BY <1>1, <2>5, <2>7, <3>1 DEF Holds
    <3> QED
      BY <2>7, <2>8, <3>1, <3>2 DEF Loaded
  <2>10. /\ Pin(h, i) \in [owner : Hosts \cup {Nobody}, snapshot : Ids, fresh : BOOLEAN]
         /\ Pin(h, i).fresh /\ Pin(h, i).snapshot = i
    BY DEF Pin
  <2>11. TypeOK'
    BY <1>1, <2>3, <2>10 DEF IInv, Types, TypeOK
  <2>12. Named' \subseteq Named /\ \A p \in pins' : p \in pins \/ p.fresh
    BY <1>1, <2>3, <2>4, <2>10 DEF Named
  <2> QED
    BY <1>1, <2>5, <2>6, <2>7, <2>9, <2>11, <2>12, LoadStep
<1> QED
  BY <1>3, <1>4

LEMMA OpenRefusedKeeps ==
  ASSUME IInv, NEW h \in Hosts, OpenRefused(h)
  PROVE  IInv' /\ Latest' = Latest
<1>1. /\ load[h].at = "new" /\ load' = [load EXCEPT ![h].at = "failed"]
      /\ UNCHANGED <<disk, created, txn, base, published, mishaps>>
  BY DEF OpenRefused
<1>2. load[h] \in Loads /\ \A s \in Stores : load[h].got[s] = Absent
  BY <1>1, Shapes DEF IInv, LoadInv, Loaded, Loading
<1>3. PICK l : l = [load[h] EXCEPT !.at = "failed"]
  OBVIOUS
<1>4. l \in Loads /\ l.at = "failed" /\ l.got = load[h].got /\ load' = [load EXCEPT ![h] = l]
  BY <1>1, <1>2, <1>3 DEF Loads
<1>5. Loaded(h, l)'
  BY <1>2, <1>4, NothingRead DEF Loading
<1>6. TypeOK' /\ Named' = Named /\ \A k \in Hosts : PinsOf(k)' = PinsOf(k)
  BY <1>1 DEF IInv, Types, TypeOK, Named, PinsOf, disk
<1>7. /\ UNCHANGED <<current, previous, manifest, generation, created, published, mishaps, txn>>
      /\ pins' = pins
  BY <1>1 DEF disk
<1> QED
  BY <1>4, <1>5, <1>6, <1>7, LoadStep

\* What is left of a load that is over.
LEMMA Over ==
  ASSUME NEW h \in Hosts, load[h] \in Loads, NEW at \in {"ready", "failed", "closing"},
         NEW l, l = Ended(h, at)
  PROVE  l \in Loads /\ l.at = at /\ Loaded(h, l)'
<1>1. NoLoad \in Loads /\ \A s \in Stores : NoLoad.got[s] = Absent
  BY DEF NoLoad, Loads
<1>2. l \in Loads /\ l.at = at /\ l.got = NoLoad.got
  BY <1>1 DEF Ended, Loads
<1> QED
  BY <1>1, <1>2, NothingRead DEF Loading

LEMMA ReadStoreKeeps ==
  ASSUME IInv, NEW h \in Hosts, NEW s \in Stores, ReadStore(h, s)
  PROVE  IInv' /\ Latest' = Latest
<1>1. s \in Unread(h) /\ UNCHANGED <<disk, created, txn, base, published, mishaps>>
  BY DEF ReadStore
<1>2. load \in [Hosts -> Loads] /\ load[h] \in Loads
  BY DEF IInv, Types
<1>3. /\ TypeOK' /\ Named' = Named /\ \A k \in Hosts : PinsOf(k)' = PinsOf(k)
      /\ UNCHANGED <<current, previous, manifest, generation, created, published, mishaps, txn>>
      /\ pins' = pins
  BY <1>1 DEF IInv, Types, TypeOK, Named, PinsOf, disk
<1>4. CASE Source(h, s) \in Records
  <2>1. PICK l : l = [load[h] EXCEPT !.got[s] = Source(h, s)]
    OBVIOUS
  <2>2. load' = [load EXCEPT ![h] = l]
    BY <1>2, <1>4, <2>1 DEF ReadStore
  <2>3. load[h].got \in [Stores -> Records \cup {Absent}]
    BY <1>2 DEF Loads
  <2>4. l.got = [load[h].got EXCEPT ![s] = Source(h, s)]
        /\ l.at = load[h].at /\ l.snapshot = load[h].snapshot /\ l.refs = load[h].refs
    BY <1>2, <2>1 DEF Loads
  <2>5. l.got \in [Stores -> Records \cup {Absent}]
    BY <1>4, <2>3, <2>4
  <2>6. l \in Loads
    BY <1>2, <2>1, <2>5 DEF Loads
  <2>7. load[h].at \in Loading /\ l.at # "new"
    BY <1>1, <2>4 DEF Unread, ProfileOf, Loading
  <2>8. Loaded(h, load[h])
    BY DEF IInv, LoadInv
  <2>9. Reads(l)'
    <3>1. Reads(load[h])
      BY <2>7, <2>8 DEF Loaded
    <3>2. Source(h, s) = published[load[h].snapshot][s]
      BY <1>4, <3>1, Files DEF Reads, Source
    <3>3. \A x \in Stores : l.got[x] \in {published[load[h].snapshot][x], Absent}
      BY <2>3, <2>4, <3>1, <3>2 DEF Reads
    <3>4. l.snapshot \in 1..created' /\ published'[l.snapshot] \in State
      BY <1>3, <2>4, <3>1 DEF Reads
    <3>5. \A x \in Stores : /\ l.refs[x] \in 1..l.snapshot
                            /\ generation'[x][l.refs[x]] \in {published'[l.snapshot][x], Absent, Torn}
                            /\ l.got[x] \in {published'[l.snapshot][x], Absent}
      BY <1>3, <2>4, <3>1, <3>3 DEF Reads
    <3> QED
      BY <3>4, <3>5 DEF Reads
  <2>10. Loaded(h, l)'
    <3>1. \A p \in PinsOf(h)' : p.snapshot = l.snapshot
      BY <1>3, <2>4, <2>7, <2>8 DEF Loaded
    <3>2. l.at \in {"startup", "full"} => Holds(h, l)'
      BY <1>3, <2>4, <2>8 DEF Loaded, Holds, Damaged
    <3> QED
      BY <2>4, <2>7, <2>9, <3>1, <3>2 DEF Loaded
  <2> QED
    BY <1>3, <2>2, <2>6, <2>10, LoadStep
<1>5. CASE Source(h, s) \notin Records
  <2>1. PICK l : l = Ended(h, "failed")
    OBVIOUS
  <2>2. load' = [load EXCEPT ![h] = l]
    BY <1>5, <2>1 DEF ReadStore
  <2>3. l \in Loads /\ Loaded(h, l)'
    BY <1>2, <2>1, Over
  <2> QED
    BY <1>3, <2>2, <2>3, LoadStep
<1> QED
  BY <1>4, <1>5

\* What a host has read of its snapshot becomes what it knows.
LEMMA StageReadKeeps ==
  ASSUME IInv, NEW h \in Hosts, StageRead(h)
  PROVE  /\ IInv' /\ Latest' = Latest
         /\ \E i \in Ids, S \in SUBSET Stores :
               /\ published[i] \in State
               /\ base' = [base EXCEPT ![h] = [s \in Stores |->
                              IF s \in S THEN published[i][s] ELSE @[s]]]
<1>1. /\ load[h].at \in {"startup", "deferred", "full"} /\ Unread(h) = {}
      /\ load' = [load EXCEPT ![h] = CASE @.at = "startup"  -> [@ EXCEPT !.at = "staged"]
                                       [] @.at = "deferred" -> Ended(h, "ready")
                                       [] OTHER             -> Ended(h, "closing")]
      /\ base' = [base EXCEPT ![h] = [s \in Stores |->
                     IF s \in ProfileOf(load[h].at) THEN load[h].got[s] ELSE @[s]]]
      /\ UNCHANGED <<disk, created, txn, published, mishaps>>
  BY DEF StageRead
<1>2. load \in [Hosts -> Loads] /\ load[h] \in Loads /\ base \in [Hosts -> State]
  BY DEF IInv, Types, TypeOK
<1>3. Loaded(h, load[h]) /\ load[h].at \in Loading /\ Reads(load[h])
  BY <1>1 DEF IInv, LoadInv, Loaded, Loading
<1>4. PICK i \in Ids : i = load[h].snapshot
  BY <1>3, Shapes, SnapshotsAssumption DEF IInv, Reads, Ids
<1>5. published[i] \in State
  BY <1>3, <1>4 DEF Reads
<1>6. PICK S \in SUBSET Stores : S = ProfileOf(load[h].at)
  <2>1. ProfileOf(load[h].at) \subseteq Stores
    BY DEF ProfileOf, Stores
  <2> QED
    BY <2>1
<1>7. \A s \in S : load[h].got[s] = published[i][s]
  BY <1>1, <1>3, <1>4, <1>6 DEF Unread, Reads
<1>8. base' = [base EXCEPT ![h] = [s \in Stores |-> IF s \in S THEN published[i][s] ELSE @[s]]]
  <2>1. [s \in Stores |-> IF s \in ProfileOf(load[h].at) THEN load[h].got[s] ELSE base[h][s]]
        = [s \in Stores |-> IF s \in S THEN published[i][s] ELSE base[h][s]]
    BY <1>6, <1>7
  <2> QED
    BY <1>1, <2>1
<1>9. base' \in [Hosts -> State]
  <2>1. [s \in Stores |-> IF s \in S THEN published[i][s] ELSE base[h][s]] \in State
    BY <1>2, <1>5 DEF State
  <2> QED
    BY <1>2, <1>8, <2>1
<1>10. /\ TypeOK' /\ Named' = Named /\ \A k \in Hosts : PinsOf(k)' = PinsOf(k)
       /\ UNCHANGED <<current, previous, manifest, generation, created, published, mishaps, txn>>
       /\ pins' = pins
  BY <1>1, <1>9 DEF IInv, Types, TypeOK, Named, PinsOf, disk
<1>11. CASE load[h].at = "startup"
  <2>1. PICK l : l = [load[h] EXCEPT !.at = "staged"]
    OBVIOUS
  <2>2. load' = [load EXCEPT ![h] = l]
    BY <1>1, <1>11, <2>1
  <2>3. /\ l \in Loads /\ l.at = "staged" /\ l.snapshot = load[h].snapshot
        /\ l.refs = load[h].refs /\ l.got = load[h].got
    BY <1>2, <2>1 DEF Loads
  <2>4. Reads(l)'
    BY <1>3, <1>10, <2>3 DEF Reads
  <2>5. Loaded(h, l)'
    BY <1>3, <1>10, <2>3, <2>4 DEF Loaded, Loading
  <2> QED
    BY <1>5, <1>8, <1>10, <2>2, <2>3, <2>5, LoadStep
<1>12. CASE load[h].at \in {"deferred", "full"}
  <2>1. PICK at \in {"ready", "closing"} : load' = [load EXCEPT ![h] = Ended(h, at)]
    BY <1>1, <1>12
  <2>2. PICK l : l = Ended(h, at)
    OBVIOUS
  <2>3. l \in Loads /\ Loaded(h, l)' /\ load' = [load EXCEPT ![h] = l]
    BY <1>2, <2>1, <2>2, Over
  <2> QED
    BY <1>5, <1>8, <1>10, <2>3, LoadStep
<1> QED
  BY <1>1, <1>11, <1>12

LEMMA LoadDeferredKeeps ==
  ASSUME IInv, NEW h \in Hosts, LoadDeferred(h)
  PROVE  IInv' /\ Latest' = Latest
<1>1. /\ load[h].at = "staged"
      /\ UNCHANGED <<current, previous, manifest, generation, preparing, prepared,
                     created, txn, base, published, mishaps>>
  BY DEF LoadDeferred
<1>2. load \in [Hosts -> Loads] /\ load[h] \in Loads
  BY DEF IInv, Types
<1>3. Loaded(h, load[h]) /\ Reads(load[h]) /\ \A p \in PinsOf(h) : p.snapshot = load[h].snapshot
  BY <1>1 DEF IInv, LoadInv, Loaded, Loading
<1>4. CASE PinsOf(h) = {}
  <2>1. load' = [load EXCEPT ![h] = Ended(h, "failed")] /\ pins' = pins
    BY <1>4 DEF LoadDeferred
  <2>2. PICK l : l = Ended(h, "failed")
    OBVIOUS
  <2>3. l \in Loads /\ Loaded(h, l)' /\ load' = [load EXCEPT ![h] = l]
    BY <1>2, <2>1, <2>2, Over
  <2>4. TypeOK' /\ Named' = Named /\ \A k \in Hosts : PinsOf(k)' = PinsOf(k)
    BY <1>1, <2>1 DEF IInv, Types, TypeOK, Named, PinsOf
  <2> QED
    BY <1>1, <2>1, <2>3, <2>4, LoadStep
<1>5. CASE PinsOf(h) # {}
  <2>1. PICK i : i = load[h].snapshot
    OBVIOUS
  <2>2. /\ load' = [load EXCEPT ![h].at = "deferred"]
        /\ pins' = (pins \ PinsOf(h)) \cup {Pin(h, i)}
    BY <1>5, <2>1 DEF LoadDeferred
  <2>3. i \in Named /\ i \in Ids
    BY <1>3, <1>5, <2>1, Shapes DEF IInv, PinsOf, Named
  <2>4. PICK l : l = [load[h] EXCEPT !.at = "deferred"]
    OBVIOUS
  <2>5. /\ l \in Loads /\ l.at = "deferred" /\ l.snapshot = i
        /\ l.refs = load[h].refs /\ l.got = load[h].got /\ load' = [load EXCEPT ![h] = l]
    BY <1>2, <2>1, <2>2, <2>4 DEF Loads
  <2>6. /\ Pin(h, i) \in [owner : Hosts \cup {Nobody}, snapshot : Ids, fresh : BOOLEAN]
        /\ Pin(h, i).fresh /\ Pin(h, i).snapshot = i /\ Pin(h, i).owner = h
    BY <2>3 DEF Pin
  <2>7. /\ TypeOK' /\ Named' \subseteq Named /\ \A p \in pins' : p \in pins \/ p.fresh
        /\ PinsOf(h)' = {Pin(h, i)} /\ \A k \in Hosts \ {h} : PinsOf(k)' = PinsOf(k)
    <3>1. TypeOK'
      BY <1>1, <2>2, <2>6 DEF IInv, Types, TypeOK
    <3>2. Named' \subseteq Named /\ \A p \in pins' : p \in pins \/ p.fresh
      BY <1>1, <2>2, <2>3, <2>6 DEF Named
    <3>3. PinsOf(h)' = {Pin(h, i)} /\ \A k \in Hosts \ {h} : PinsOf(k)' = PinsOf(k)
      BY <2>2, <2>6 DEF PinsOf
    <3> QED
      BY <3>1, <3>2, <3>3
  <2>8. Reads(l)'
    BY <1>1, <1>3, <2>1, <2>5 DEF Reads
  <2>9. Loaded(h, l)'
    BY <2>5, <2>6, <2>7, <2>8 DEF Loaded, Loading
  <2> QED
    BY <1>1, <2>5, <2>7, <2>9, LoadStep
<1> QED
  BY <1>4, <1>5

LEMMA ReleaseKeeps ==
  ASSUME IInv, NEW h \in Hosts, Release(h)
  PROVE  IInv' /\ Latest' = Latest
<1>1. /\ load[h].at \in {"deferred", "closing", "ready", "failed"}
      /\ pins' = pins \ PinsOf(h)
      /\ load' = [load EXCEPT ![h].pinned = FALSE, ![h].at = IF @ = "closing" THEN "ready" ELSE @]
      /\ UNCHANGED <<current, previous, manifest, generation, preparing, prepared,
                     created, txn, base, published, mishaps>>
  BY DEF Release, Done
<1>2. load \in [Hosts -> Loads] /\ load[h] \in Loads
  BY DEF IInv, Types
<1>3. PICK l : l = [load[h] EXCEPT !.pinned = FALSE,
                                   !.at = IF load[h].at = "closing" THEN "ready" ELSE load[h].at]
  OBVIOUS
<1>4. /\ l \in Loads /\ l.snapshot = load[h].snapshot /\ l.refs = load[h].refs
      /\ l.got = load[h].got
      /\ l.at = (IF load[h].at = "closing" THEN "ready" ELSE load[h].at)
      /\ load' = [load EXCEPT ![h] = l]
  BY <1>1, <1>2, <1>3 DEF Loads
<1>5. Loaded(h, load[h])
  BY DEF IInv, LoadInv
<1>6. PinsOf(h)' = {} /\ \A k \in Hosts \ {h} : PinsOf(k)' = PinsOf(k)
  BY <1>1 DEF PinsOf
<1>7. Loaded(h, l)'
  <2>1. CASE load[h].at = "deferred"
    <3>1. Reads(l)'
      BY <1>1, <1>4, <1>5, <2>1 DEF Loaded, Loading, Reads
    <3> QED
      BY <1>4, <1>6, <2>1, <3>1 DEF Loaded, Loading
  <2>2. CASE load[h].at # "deferred"
    <3>1. l.at \in {"ready", "failed"} /\ \A s \in Stores : l.got[s] = Absent
      BY <1>1, <1>4, <1>5, <2>2 DEF Loaded, Loading
    <3> QED
      BY <1>4, <3>1, NothingRead DEF Loading
  <2> QED
    BY <2>1, <2>2
<1>8. TypeOK' /\ Named' \subseteq Named /\ \A p \in pins' : p \in pins \/ p.fresh
  BY <1>1 DEF IInv, Types, TypeOK, Named
<1> QED
  BY <1>1, <1>4, <1>6, <1>7, <1>8, LoadStep

\* The host finds that what it wants is there already.
LEMMA NothingToSaveKeeps ==
  ASSUME IInv, NEW h \in Hosts, NEW to \in State, NothingToSave(h, to)
  PROVE  IInv' /\ Latest' = Latest
<1>1. /\ base' = [base EXCEPT ![h] = to]
      /\ UNCHANGED <<disk, created, txn, load, published, mishaps>>
  BY DEF NothingToSave
<1>2. TypeOK' /\ Types'
  BY <1>1 DEF IInv, Types, TypeOK, disk
<1>3. load \in [Hosts -> Loads] /\ Loaded(h, load[h])
  BY DEF IInv, Types, LoadInv
<1>4. PICK l \in Loads : l = load[h]
  BY <1>3
<1>5. load' = [load EXCEPT ![h] = l]
  BY <1>1, <1>3, <1>4
<1>6. Loaded(h, l)'
  BY <1>1, <1>3, <1>4 DEF Loaded, Holds, Reads, Damaged, PinsOf, disk
<1>7. /\ UNCHANGED <<current, previous, manifest, generation, created, published, mishaps, txn>>
      /\ pins' = pins /\ Named' = Named /\ \A k \in Hosts : PinsOf(k)' = PinsOf(k)
  BY <1>1 DEF disk, Named, PinsOf
<1> QED
  BY <1>2, <1>5, <1>6, <1>7, LoadStep

-----------------------------------------------------------------------------
(* The environment *)

\* Nobody has the id after the newest one.
LEMMA NextId ==
  ASSUME IInv
  PROVE  created + 1 \in Nat /\ NewId(created + 1)
<1>1. created \in Nat /\ created + 1 \in Nat
  BY Shapes DEF IInv
<1>2. ASSUME NEW i \in Ids, published[i] \in State PROVE i < created + 1
  BY <1>1, <1>2, OldIds, Files DEF IInv
<1> QED
  BY <1>1, <1>2 DEF NewId

\* The pins of a crashed host stay, but are nobody's.
LEMMA Orphans ==
  ASSUME IInv, NEW h \in Hosts,
         pins' = {[p EXCEPT !.owner = IF @ = h THEN Nobody ELSE @] : p \in pins}
  PROVE  /\ pins' \subseteq [owner : Hosts \cup {Nobody}, snapshot : Ids, fresh : BOOLEAN]
         /\ PinsOf(h)' = {} /\ \A k \in Hosts \ {h} : PinsOf(k)' = PinsOf(k)
         /\ \A p \in pins' : \E q \in pins : q.snapshot = p.snapshot /\ q.fresh = p.fresh
<1> DEFINE Pins == [owner : Hosts \cup {Nobody}, snapshot : Ids, fresh : BOOLEAN]
           O(p) == [p EXCEPT !.owner = IF @ = h THEN Nobody ELSE @]
<1>1. pins \subseteq Pins
  BY DEF IInv, Types, TypeOK
<1>2. ASSUME NEW p \in Pins
      PROVE  /\ O(p) \in Pins /\ O(p).snapshot = p.snapshot /\ O(p).fresh = p.fresh
             /\ p.owner # h => O(p) = p
             /\ p.owner = h => O(p).owner = Nobody
  <2>1. O(p) \in Pins /\ O(p).snapshot = p.snapshot /\ O(p).fresh = p.fresh
    OBVIOUS
  <2>2. p.owner # h => O(p) = p
    OBVIOUS
  <2>3. p.owner = h => O(p).owner = Nobody
    OBVIOUS
  <2> QED
    BY <2>1, <2>2, <2>3
<1>3. pins' = {O(p) : p \in pins}
  OBVIOUS
<1>4. Nobody \notin Hosts
  BY HostsAssumption
<1> HIDE DEF O
<1>5. pins' \subseteq Pins
  BY <1>1, <1>2, <1>3
<1>6. PinsOf(h)' = {}
  <2> SUFFICES ASSUME NEW p \in pins' PROVE p.owner # h
    BY DEF PinsOf
  <2>1. PICK q \in pins : p = O(q)
    BY <1>3
  <2> QED
    BY <1>1, <1>2, <1>4, <2>1
<1>7. ASSUME NEW k \in Hosts \ {h} PROVE PinsOf(k)' = PinsOf(k)
  <2>1. ASSUME NEW p \in PinsOf(k) PROVE p \in PinsOf(k)'
    <3>1. p \in pins /\ p.owner = k /\ p = O(p)
      BY <1>1, <1>2 DEF PinsOf
    <3> QED
      BY <1>3, <3>1 DEF PinsOf
  <2>2. ASSUME NEW p \in PinsOf(k)' PROVE p \in PinsOf(k)
    <3>1. p \in pins' /\ p.owner = k
      BY DEF PinsOf
    <3>2. PICK q \in pins : p = O(q)
      BY <1>3, <3>1
    <3>3. q.owner # h
      BY <1>1, <1>2, <1>4, <3>1, <3>2
    <3>4. p = q
      BY <1>1, <1>2, <3>2, <3>3
    <3> QED
      BY <3>1, <3>2, <3>4 DEF PinsOf
  <2> QED
    BY <2>1, <2>2
<1>8. \A p \in pins' : \E q \in pins : q.snapshot = p.snapshot /\ q.fresh = p.fresh
  BY <1>1, <1>2, <1>3
<1> QED
  BY <1>5, <1>6, <1>7, <1>8

LEMMA CrashKeeps ==
  ASSUME IInv, NEW h \in Hosts, Crash(h)
  PROVE  IInv' /\ Latest' = Latest
<1>1. /\ mishaps' = mishaps \cup {"crash"} /\ Partial(h)
      /\ pins' = {[p EXCEPT !.owner = IF @ = h THEN Nobody ELSE @] : p \in pins}
      /\ txn' = [txn EXCEPT ![h] = NoTxn]
      /\ load' = [load EXCEPT ![h] = NoLoad]
      /\ base' = [base EXCEPT ![h] = Empty]
      /\ UNCHANGED <<current, previous, manifest, preparing, prepared, created, published>>
  BY DEF Crash, Mishap
<1>2. /\ created \in Nat /\ created' = created /\ txn \in [Hosts -> Txns]
      /\ load \in [Hosts -> Loads] /\ base \in [Hosts -> State]
  BY <1>1, Shapes DEF IInv, Types, TypeOK
<1>3. PICK c \in Nat : NewId(c) /\ WritesAt(c)
  <2>1. CASE txn[h].at = "preparing"
    <3>1. txn[h].at \in Locked /\ txn[h].at \in Unpublished
      BY <2>1 DEF Locked, Unpublished
    <3>2. txn[h].id = created /\ created \in Nat /\ NewId(created)
      BY <3>1, Writing
    <3>3. WritesAt(created)
      BY <1>1, <3>2, Cut DEF WritesAt
    <3> QED
      BY <3>2, <3>3
  <2>2. CASE txn[h].at # "preparing"
    <3>1. generation' = generation
      BY <1>1, <2>2, Cut
    <3>2. WritesAt(created + 1)
      BY <1>1, <3>1 DEF WritesAt
    <3> QED
      BY <3>2, NextId
  <2> QED
    BY <2>1, <2>2
<1>4. /\ generation' \in [Stores -> [Ids -> Records \cup {Absent, Torn}]]
      /\ txn[h].at # "preparing" => generation' = generation
  BY <1>1, Cut
<1>5. /\ Active' = Active /\ Latest' = Latest
      /\ \A i \in Named : Whole(i)'
      /\ \A l \in Loads : Reads(l) => Reads(l)' /\ manifest'[l.snapshot] = manifest[l.snapshot]
  BY <1>1, <1>2, <1>3, OldKept
<1>6. /\ pins' \subseteq [owner : Hosts \cup {Nobody}, snapshot : Ids, fresh : BOOLEAN]
      /\ PinsOf(h)' = {} /\ \A k \in Hosts \ {h} : PinsOf(k)' = PinsOf(k)
      /\ \A p \in pins' : \E q \in pins : q.snapshot = p.snapshot /\ q.fresh = p.fresh
  BY <1>1, Orphans
<1>7. LockInv' /\ TxnInv' /\ txn' \in [Hosts -> Txns]
  <2>1. CASE txn[h].at \in Locked
    BY <1>1, <2>1, Given, TxnStep
  <2>2. CASE txn[h].at \notin Locked
    <3>1. txn[h].at = "idle"
      BY <1>2, <2>2 DEF Txns
    <3>2. txn' = txn /\ txn[h].at # "preparing"
      BY <1>1, <1>2, <3>1 DEF IInv, TxnInv
    <3> QED
      BY <1>1, <1>2, <1>4, <1>5, <3>2, TxnsKept
  <2> QED
    BY <2>1, <2>2
<1>8. Types'
  <2>1. NoLoad \in Loads
    BY DEF NoLoad, Loads
  <2>2. base' \in [Hosts -> State] /\ load' \in [Hosts -> Loads]
    BY <1>1, <1>2, <2>1, Files
  <2>3. TypeOK'
    BY <1>1, <1>4, <1>6, <2>2 DEF IInv, Types, TypeOK
  <2> QED
    BY <1>7, <2>2, <2>3 DEF Types
<1>9. NamedInv'
  <2>1. Named' \subseteq Named
    BY <1>1, <1>6 DEF Named
  <2> QED
    BY <1>1, <1>5, <2>1, NamedKept DEF IInv
<1>10. IdsInv'
  BY <1>1 DEF IInv, IdsInv
<1>11. LoadInv'
  <2>1. ASSUME NEW k \in Hosts \ {h} PROVE Loaded(k, load[k])'
    <3>1. load[k] \in Loads /\ Loaded(k, load[k]) /\ load'[k] = load[k]
      BY <1>1, <1>2 DEF IInv, LoadInv
    <3>2. PICK l \in Loads : l = load[k] /\ l = load'[k]
      BY <3>1
    <3>3. Loaded(k, l)'
      BY <1>1, <1>5, <1>6, <3>1, <3>2, LoadedKept
    <3> QED
      BY <3>2, <3>3
  <2>2. Loaded(h, load[h])'
    <3>1. load'[h] = NoLoad
      BY <1>1, <1>2
    <3>2. NoLoad.at = "new" /\ \A s \in Stores : NoLoad.got[s] = Absent
      BY DEF NoLoad
    <3> QED
      BY <1>6, <3>1, <3>2 DEF Loaded, Loading
  <2>3. "lapse" \notin mishaps' => \A p \in pins' : p.fresh
    BY <1>1, <1>6 DEF IInv, LoadInv
  <2> QED
    BY <2>1, <2>2, <2>3 DEF LoadInv
<1> QED
  BY <1>5, <1>7, <1>8, <1>9, <1>10, <1>11 DEF IInv

LEMMA LapseKeeps ==
  ASSUME IInv, Lapse
  PROVE  IInv'
<1>1. /\ mishaps' = mishaps \cup {"lapse"}
      /\ UNCHANGED <<current, previous, manifest, generation, created, txn, load, base, published>>
  BY DEF Lapse, Mishap, hosts
<1>2. /\ pins' \subseteq [owner : Hosts \cup {Nobody}, snapshot : Ids, fresh : BOOLEAN]
      /\ \A p \in pins' : \E q \in pins : q.owner = p.owner /\ q.snapshot = p.snapshot
      /\ preparing' \in [Ids -> {"none", "fresh", "stale"}]
      /\ prepared' \in [Ids -> {"none", "fresh", "stale"}]
  <2>1. /\ pins \subseteq [owner : Hosts \cup {Nobody}, snapshot : Ids, fresh : BOOLEAN]
        /\ preparing \in [Ids -> {"none", "fresh", "stale"}]
        /\ prepared \in [Ids -> {"none", "fresh", "stale"}]
    BY DEF IInv, Types, TypeOK
  <2>2. CASE \E p \in LivePins : /\ pins' = (pins \ {p}) \cup {[p EXCEPT !.fresh = FALSE]}
                                 /\ UNCHANGED <<preparing, prepared>>
    <3>1. PICK p \in pins : /\ pins' = (pins \ {p}) \cup {[p EXCEPT !.fresh = FALSE]}
                            /\ UNCHANGED <<preparing, prepared>>
      BY <2>2 DEF LivePins
    <3>2. PICK q : q = [p EXCEPT !.fresh = FALSE]
      OBVIOUS
    <3>3. /\ q \in [owner : Hosts \cup {Nobody}, snapshot : Ids, fresh : BOOLEAN]
          /\ q.owner = p.owner /\ q.snapshot = p.snapshot
      BY <2>1, <3>1, <3>2
    <3> QED
      BY <2>1, <3>1, <3>2, <3>3
  <2>3. CASE /\ \E i \in Ids : \/ /\ preparing' = [preparing EXCEPT ![i] = "stale"]
                                  /\ UNCHANGED prepared
                               \/ /\ prepared' = [prepared EXCEPT ![i] = "stale"]
                                  /\ UNCHANGED preparing
             /\ UNCHANGED pins
    BY <2>1, <2>3
  <2> QED
    BY <2>2, <2>3 DEF Lapse
<1>3. Types'
  BY <1>1, <1>2 DEF IInv, Types, TypeOK
<1>4. Active' = Active /\ Latest' = Latest
  BY <1>1, ShownKept DEF IInv
<1>5. LockInv' /\ TxnInv'
  BY <1>1, <1>4, TxnsKept
<1>6. NamedInv'
  <2>1. Named' \subseteq Named
    BY <1>1, <1>2 DEF Named
  <2>2. \A i : Whole(i) => Whole(i)'
    BY <1>1 DEF Whole, Damaged
  <2> QED
    BY <1>1, <2>1, <2>2 DEF IInv, NamedInv
<1>7. LoadInv'
  <2>1. ASSUME NEW k \in Hosts PROVE Loaded(k, load[k])'
    <3>1. PICK l \in Loads : l = load[k] /\ l = load'[k] /\ Loaded(k, l)
      BY <1>1, Shapes DEF IInv, LoadInv
    <3>2. \A p \in PinsOf(k)' : \E q \in PinsOf(k) : q.snapshot = p.snapshot
      BY <1>2 DEF PinsOf
    <3>3. Reads(l) => Reads(l)'
      BY <1>1 DEF Reads
    <3>4. Loaded(k, l)'
      BY <1>1, <3>1, <3>2, <3>3, LoadedKept
    <3> QED
      BY <3>1, <3>4
  <2> QED
    BY <1>1, <2>1 DEF LoadInv
<1> QED
  BY <1>1, <1>3, <1>5, <1>6, <1>7 DEF IInv, IdsInv

\* What a damaged file held is never taken for something else.
LEMMA DamageKeeps ==
  ASSUME IInv, Damage
  PROVE  IInv'
<1>1. /\ LockFree /\ mishaps' = mishaps \cup {"damage"}
      /\ UNCHANGED <<current, previous, preparing, prepared, pins, created, txn, load, base, published>>
  BY DEF Damage, Mishap, hosts
<1>2. /\ manifest' \in [Ids -> {Absent, Torn} \cup [Stores -> Ids]]
      /\ generation' \in [Stores -> [Ids -> Records \cup {Absent, Torn}]]
      /\ \A i \in Ids : /\ manifest'[i] \in {manifest[i], Torn}
                        /\ manifest[i] = Absent => manifest'[i] = Absent
      /\ \A s \in Stores, i \in Ids : generation'[s][i] \in {generation[s][i], Torn}
  <2>1. /\ manifest \in [Ids -> {Absent, Torn} \cup [Stores -> Ids]]
        /\ generation \in [Stores -> [Ids -> Records \cup {Absent, Torn}]]
    BY DEF IInv, Types, TypeOK
  <2>2. CASE \E i \in Ids : /\ manifest[i] # Absent
                            /\ manifest' = [manifest EXCEPT ![i] = Torn]
                            /\ UNCHANGED generation
    BY <2>1, <2>2
  <2>3. CASE \E s \in Stores, i \in Ids : /\ generation[s][i] # Absent
                                          /\ generation' = [generation EXCEPT ![s][i] = Torn]
                                          /\ UNCHANGED manifest
    BY <2>1, <2>3
  <2> QED
    BY <2>2, <2>3 DEF Damage
<1>3. Types'
  BY <1>1, <1>2 DEF IInv, Types, TypeOK
<1>4. LockInv' /\ TxnInv'
  BY <1>1, TxnsIdle
<1>5. Damaged'
  BY <1>1 DEF Damaged
<1>6. NamedInv'
  <2>1. Named' = Named
    BY <1>1 DEF Named
  <2>2. ASSUME NEW i \in Named PROVE Whole(i)'
    <3>1. /\ i \in Ids /\ Whole(i) /\ manifest[i] \in {Absent, Torn} \cup [Stores -> Ids]
      BY Shapes DEF IInv, NamedInv
    <3>2. manifest'[i] # Absent
      BY <1>2, <3>1, Files DEF Whole
    <3>3. ASSUME NEW s \in Stores, manifest'[i] # Torn
          PROVE  generation'[s][manifest'[i][s]] \in {published'[i][s], Torn}
      <4>1. manifest'[i] = manifest[i] /\ manifest[i] \in [Stores -> Ids]
        BY <1>2, <3>1, <3>2, <3>3
      <4>2. generation'[s][manifest[i][s]] \in {generation[s][manifest[i][s]], Torn}
        BY <1>2, <4>1
      <4>3. generation[s][manifest[i][s]] \in {published[i][s], Torn}
        BY <3>1, <3>3, <4>1 DEF Whole
      <4> QED
        BY <1>1, <4>1, <4>2, <4>3
    <3> QED
      BY <1>1, <1>5, <3>1, <3>2, <3>3 DEF Whole
  <2> QED
    BY <1>1, <2>1, <2>2 DEF IInv, NamedInv
<1>7. IdsInv'
  <2>1. ASSUME NEW i \in Ids, NEW s \in Stores, manifest'[i] \in [Stores -> Ids]
        PROVE  manifest'[i][s] <= i
    BY <1>2, <2>1, Files DEF IInv, IdsInv
  <2> QED
    BY <1>1, <2>1 DEF IInv, IdsInv
<1>8. LoadInv'
  <2>1. ASSUME NEW k \in Hosts PROVE Loaded(k, load[k])'
    <3>1. PICK l \in Loads : l = load[k] /\ l = load'[k] /\ Loaded(k, l)
      BY <1>1, Shapes DEF IInv, LoadInv
    <3>2. PinsOf(k)' = PinsOf(k)
      BY <1>1 DEF PinsOf
    <3>3. Reads(l) => Reads(l)'
      <4> SUFFICES ASSUME Reads(l) PROVE Reads(l)'
        OBVIOUS
      <4>1. l.snapshot \in Ids
        BY Shapes, SnapshotsAssumption DEF IInv, Reads, Ids
      <4>2. ASSUME NEW s \in Stores PROVE l.refs[s] \in Ids
        BY <4>1, SnapshotsAssumption DEF Reads, Ids
      <4>3. \A s \in Stores :
               generation'[s][l.refs[s]] \in {generation[s][l.refs[s]], Torn}
        BY <1>2, <4>2
      <4> QED
        BY <1>1, <4>3 DEF Reads
    <3>4. Loaded(k, l)'
      BY <1>1, <1>5, <3>1, <3>2, <3>3, LoadedKept
    <3> QED
      BY <3>1, <3>4
  <2> QED
    BY <1>1, <2>1 DEF IInv, LoadInv
<1> QED
  BY <1>3, <1>4, <1>6, <1>7, <1>8 DEF IInv

-----------------------------------------------------------------------------
(* The snapshots stay whole *)

\* What a save and the deletion of a conversation begin.
LEMMA SaveBegins ==
  ASSUME IInv, NEW h \in Hosts, NEW to \in Worlds, BeginSave(h, to)
  PROVE  base[h] \in State /\ to \in State /\ Begin(h, base[h], to, TRUE)
  BY Shapes, WorldsAssumption DEF IInv, BeginSave

LEMMA DeletionBegins ==
  ASSUME IInv, NEW h \in Hosts, BeginDeletion(h)
  PROVE  Latest \in State /\ Begin(h, Latest, Empty, FALSE)
<1>1. Begin(h, ActiveState, Empty, FALSE) /\ Opens
  BY DEF BeginDeletion, Begin, CanCommit
<1> QED
  BY <1>1, Shown DEF IInv

LEMMA Inductive == IInv /\ [Next]_vars => IInv'
<1> SUFFICES ASSUME IInv, [Next]_vars PROVE IInv'
  OBVIOUS
<1>1. ASSUME NEW h \in Hosts, \E stage \in {"startup", "full"} : Open(h, stage) PROVE IInv'
  BY <1>1, OpenKeeps
<1>2. ASSUME NEW h \in Hosts, \E s \in Stores : ReadStore(h, s) PROVE IInv'
  BY <1>2, ReadStoreKeeps
<1>3. ASSUME NEW h \in Hosts, OpenRefused(h) PROVE IInv'
  BY <1>3, OpenRefusedKeeps
<1>4. ASSUME NEW h \in Hosts, StageRead(h) PROVE IInv'
  BY <1>4, StageReadKeeps
<1>5. ASSUME NEW h \in Hosts, LoadDeferred(h) PROVE IInv'
  BY <1>5, LoadDeferredKeeps
<1>6. ASSUME NEW h \in Hosts, Release(h) PROVE IInv'
  BY <1>6, ReleaseKeeps
<1>7. ASSUME NEW h \in Hosts, NEW to \in Worlds, BeginSave(h, to) PROVE IInv'
  BY <1>7, SaveBegins, BeginKeeps
<1>8. ASSUME NEW h \in Hosts, NEW to \in Worlds, NothingToSave(h, to) PROVE IInv'
  BY <1>8, WorldsAssumption, NothingToSaveKeeps
<1>9. ASSUME NEW h \in Hosts, BeginDeletion(h) PROVE IInv'
  <2>1. PICK from \in State : from = Latest /\ Begin(h, from, Empty, FALSE)
    BY <1>9, DeletionBegins
  <2> QED
    BY <2>1, Files, BeginKeeps
<1>10. ASSUME NEW h \in Hosts, WriteStores(h) PROVE IInv'
  BY <1>10, WriteStoresKeeps
<1>11. ASSUME NEW h \in Hosts, WriteManifest(h) PROVE IInv'
  BY <1>11, WriteManifestKeeps
<1>12. ASSUME NEW h \in Hosts, WritePrepared(h) PROVE IInv'
  BY <1>12, WritePreparedKeeps
<1>13. ASSUME NEW h \in Hosts, WritePrevious(h) PROVE IInv'
  BY <1>13, WritePreviousKeeps
<1>14. ASSUME NEW h \in Hosts, WriteCurrent(h) PROVE IInv'
  BY <1>14, WriteCurrentKeeps
<1>15. ASSUME NEW h \in Hosts, WriteFails(h) PROVE IInv'
  BY <1>15, WriteFailsKeeps
<1>16. ASSUME NEW h \in Hosts, RemoveMarkers(h) PROVE IInv'
  BY <1>16, RemoveMarkersKeeps
<1>17. ASSUME NEW h \in Hosts, Collect(h) PROVE IInv'
  BY <1>17, CollectKeeps
<1>18. ASSUME NEW h \in Hosts, Crash(h) PROVE IInv'
  BY <1>18, CrashKeeps
<1>19. CASE UNCHANGED vars
  <2>1. /\ UNCHANGED <<current, previous, manifest, generation, preparing, prepared, pins,
                       created, txn, load, base, published, mishaps>>
    BY <1>19 DEF vars, disk, hosts
  <2>2. Active' = Active /\ Latest' = Latest
    BY <2>1, ShownKept DEF IInv
  <2>3. LockInv' /\ TxnInv'
    BY <2>1, <2>2, TxnsKept
  <2>4. NamedInv'
    BY <2>1 DEF IInv, NamedInv, Named, Whole, Damaged
  <2>5. LoadInv'
    <3>1. \A l \in Loads : Reads(l) => Reads(l)' /\ manifest'[l.snapshot] = manifest[l.snapshot]
      BY <2>1 DEF Reads
    <3> QED
      BY <2>1, <3>1, LoadsKept
  <2> QED
    BY <2>1, <2>3, <2>4, <2>5 DEF IInv, Types, TypeOK, IdsInv
<1> QED
  BY <1>1, <1>2, <1>3, <1>4, <1>5, <1>6, <1>7, <1>8, <1>9, <1>10, <1>11, <1>12, <1>13,
     <1>14, <1>15, <1>16, <1>17, <1>18, <1>19, LapseKeeps, DamageKeeps DEF Next

LEMMA InvariantHolds == Spec => []IInv
  BY InitHolds, Inductive, PTL DEF Spec

\* For any hosts, stores and records and any number of commits, through crashes,
\* failing writes, lapsed pins and garbage collection: what pointers and pins
\* name is one whole published snapshot, what a host reads comes from the one it
\* opened, and a load that is awaited finds every store.
THEOREM SnapshotsStayWhole == Spec => []SnapshotsHold
  BY InvariantHolds, SnapshotsFollow, PTL

-----------------------------------------------------------------------------
(* The commits of all hosts form one register *)

History == {Empty} \cup ({published[i] : i \in Ids} \ {Absent})
RequestOf(t) == [at   |-> CASE t.at = "idle" -> "none"
                            [] t.at \in {"current", "unmarked"} -> "done"
                            [] OTHER -> "asked",
                 from |-> t.from, to |-> t.to]
Request == [h \in Hosts |-> RequestOf(txn[h])]

\* The steps of the register, in terms of the store.
LEMMA Asks ==
  ASSUME NEW h \in Hosts, NEW to \in State, NEW from, from = base[h] \/ from = Latest,
         Request[h].at = "none",
         Request' = [Request EXCEPT ![h] = [at |-> "asked", from |-> from, to |-> to]],
         Latest' = Latest, History' = History, base' = base
  PROVE  Register!Next
<1>1. Register!Ask(h, to)
  BY DEF Register!Ask, Latest, History, Request, RequestOf
<1> QED
  BY <1>1 DEF Register!Next, Register!State, State

LEMMA Agrees ==
  ASSUME NEW h \in Hosts, NEW to \in State, Latest # Torn,
         [s \in Stores |-> IF s \in Changed(base[h], to) THEN to[s] ELSE Latest[s]] = Latest,
         base' = [base EXCEPT ![h] = to],
         Latest' = Latest, History' = History, Request' = Request
  PROVE  Register!Next
<1>1. Register!Patched(Latest, base[h], to) = Latest
  BY DEF Register!Patched, Register!Changed, Changed
<1>2. Register!Agree(h, to)
  BY <1>1 DEF Register!Agree, Latest, History, Request, RequestOf
<1> QED
  BY <1>2 DEF Register!Next, Register!State, State

LEMMA Reading ==
  ASSUME NEW h \in Hosts, NEW i \in Ids, published[i] \in State, NEW S \in SUBSET Stores,
         base' = [base EXCEPT ![h] = [s \in Stores |-> IF s \in S THEN published[i][s] ELSE @[s]]],
         Latest' = Latest, History' = History, Request' = Request
  PROVE  Register!Next
<1>1. published[i] \in History
  BY Files DEF History
<1>2. \E state \in History, T \in SUBSET Stores :
         base' = [base EXCEPT ![h] = [s \in Stores |-> IF s \in T THEN state[s] ELSE @[s]]]
  BY <1>1
<1>3. Register!Load(h)
  BY <1>2 DEF Register!Load, Latest, History, Request, RequestOf
<1> QED
  BY <1>3 DEF Register!Next

\* The patch takes effect, whether or not the host gets to know it.
LEMMA Effect ==
  ASSUME NEW h \in Hosts, NEW from \in State, NEW to \in State,
         Request[h].at = "asked", Request[h].from = from, Request[h].to = to,
         Latest \in State,
         \A s \in Changed(from, to) : Latest[s] \in {from[s], to[s]},
         Latest' = [s \in Stores |-> IF s \in Changed(from, to) THEN to[s] ELSE Latest[s]],
         History' = History \cup {Latest'}, base' = base,
         Request' = [Request EXCEPT ![h].at = "done"]
           \/ Request' = [Request EXCEPT ![h] = RequestOf(NoTxn)]
  PROVE  Register!Next
<1>1. Register!TakesEffect(h)
  <2>1. Latest # Torn
    BY Files
  <2>2. ~Register!Conflict(Latest, from, to)
    BY DEF Register!Conflict, Register!Changed, Changed
  <2>3. Latest' = Register!Patched(Latest, from, to)
    BY DEF Register!Patched, Register!Changed, Changed
  <2> QED
    BY <2>1, <2>2, <2>3 DEF Register!TakesEffect, Latest, History, Request, RequestOf
<1>2. CASE Request' = [Request EXCEPT ![h].at = "done"]
  <2>1. Register!Commit(h)
    BY <1>1, <1>2 DEF Register!Commit, Request, RequestOf
  <2> QED
    BY <2>1 DEF Register!Next
<1>3. CASE Request' = [Request EXCEPT ![h] = RequestOf(NoTxn)]
  <2>1. RequestOf(NoTxn) = Register!NoRequest
    BY DEF RequestOf, NoTxn, Empty, Register!NoRequest, Register!Empty
  <2>2. Register!Fail(h)
    BY <1>1, <1>3, <2>1 DEF Register!Fail, Register!TakesEffect, Request, RequestOf
  <2> QED
    BY <2>2 DEF Register!Next
<1> QED
  BY <1>2, <1>3

LEMMA Forgets ==
  RequestOf(NoTxn) = Register!NoRequest
  BY DEF RequestOf, NoTxn, Empty, Register!NoRequest, Register!Empty

\* The patch has no effect.
LEMMA Fails ==
  ASSUME NEW h \in Hosts, Request[h].at = "asked",
         Request' = [Request EXCEPT ![h] = RequestOf(NoTxn)],
         Latest' = Latest, History' = History, base' = base
  PROVE  Register!Next
<1>1. Register!Fail(h)
  BY Forgets DEF Register!Fail, Latest, History, Request, RequestOf
<1> QED
  BY <1>1 DEF Register!Next

LEMMA Confirms ==
  ASSUME NEW h \in Hosts, Request[h].at = "done",
         Request' = [Request EXCEPT ![h] = RequestOf(NoTxn)],
         base' \in {base, [base EXCEPT ![h] = Request[h].to]},
         Latest' = Latest, History' = History
  PROVE  Register!Next
<1>1. Register!Confirm(h)
  BY Forgets DEF Register!Confirm, Latest, History, Request, RequestOf
<1> QED
  BY <1>1 DEF Register!Next

LEMMA Crashes ==
  ASSUME NEW h \in Hosts,
         Request' = [Request EXCEPT ![h] = RequestOf(NoTxn)],
         base' = [base EXCEPT ![h] = Empty], Latest' = Latest, History' = History
  PROVE  Register!Next
<1>1. Register!Crash(h)
  BY Forgets DEF Register!Crash, Register!Empty, Empty, Latest, History, Request, RequestOf
<1> QED
  BY <1>1 DEF Register!Next

\* Whatever else happens, an earlier state is shown, or none.
LEMMA Falls ==
  ASSUME IInv', published' = published, Request' = Request, base' = base
  PROVE  Register!Next
<1>1. History' = History
  BY DEF History
<1>2. Latest' \in History \cup {Torn}
  <2>1. Latest' \in {Empty, Torn} \/ \E i \in Ids : Latest' = published'[i] /\ published'[i] \in State
    <3>1. (Types /\ NamedInv)' => (\/ Latest \in {Empty, Torn}
                                   \/ \E i \in Ids : Latest = published[i] /\ published[i] \in State)'
      BY ShownBefore, PTL
    <3> QED
      BY <3>1 DEF IInv
  <2> QED
    BY <2>1, Files DEF History
<1>3. Register!FallBack
  BY <1>1, <1>2 DEF Register!FallBack, Latest, History, Request, RequestOf
<1> QED
  BY <1>3 DEF Register!Next

LEMMA RequestStep ==
  ASSUME IInv, NEW h \in Hosts, NEW t, txn' = [txn EXCEPT ![h] = t]
  PROVE  Request' = [Request EXCEPT ![h] = RequestOf(t)]
<1>1. txn \in [Hosts -> Txns]
  BY DEF IInv, Types
<1>2. \A k \in Hosts : txn'[k] = IF k = h THEN t ELSE txn[k]
  BY <1>1
<1> QED
  BY <1>2 DEF Request, RequestOf

\* The phases of a commit look the same from outside, up to the commit point
\* and after it.
LEMMA PhaseUnseen ==
  ASSUME IInv, NEW h \in Hosts, NEW at \in Locked, txn' = [txn EXCEPT ![h].at = at],
         txn[h].at \in Locked, txn[h].at \in Unpublished <=> at \in Unpublished
  PROVE  Request' = Request
<1>1. txn \in [Hosts -> Txns] /\ txn[h] \in Txns
  BY DEF IInv, Types
<1>2. PICK u : u = [txn[h] EXCEPT !.at = at]
  OBVIOUS
<1>3. u.at = at /\ u.from = txn[h].from /\ u.to = txn[h].to /\ txn' = [txn EXCEPT ![h] = u]
  BY <1>1, <1>2 DEF Txns
<1>4. RequestOf(u) = RequestOf(txn[h])
  BY <1>3 DEF RequestOf, Locked, Unpublished
<1>5. Request' = [Request EXCEPT ![h] = RequestOf(u)]
  BY <1>3, RequestStep
<1> QED
  BY <1>4, <1>5 DEF Request

\* Every step of the store is a step of the register, or none.
LEMMA BeginAsks ==
  ASSUME IInv, NEW h \in Hosts, NEW from \in State, NEW to \in State, NEW learns \in BOOLEAN,
         from = base[h] \/ from = Latest, Begin(h, from, to, learns)
  PROVE  Register!Next
<1>1. PICK t : /\ t.at = "preparing" /\ t.from = from /\ t.to = to
               /\ txn' = [txn EXCEPT ![h] = t]
               /\ txn[h].at = "idle" /\ published' = published /\ base' = base
  BY DEF Begin, CanCommit
<1>2. Request[h].at = "none"
  BY <1>1 DEF Request, RequestOf
<1>3. RequestOf(t) = [at |-> "asked", from |-> from, to |-> to]
  BY <1>1 DEF RequestOf
<1>4. Request' = [Request EXCEPT ![h] = RequestOf(t)]
  BY <1>1, RequestStep
<1>5. Latest' = Latest /\ History' = History
  BY <1>1, BeginKeeps DEF History
<1> QED
  BY <1>1, <1>2, <1>3, <1>4, <1>5, Asks

LEMMA NothingToSaveAgrees ==
  ASSUME IInv, NEW h \in Hosts, NEW to \in State, NothingToSave(h, to)
  PROVE  Register!Next
<1>1. /\ Opens /\ ChangedStores(base[h], to) = {}
      /\ base' = [base EXCEPT ![h] = to]
      /\ UNCHANGED <<disk, created, txn, load, published, mishaps>>
  BY DEF NothingToSave, CanCommit
<1>2. ActiveState = Latest /\ Latest \in State
  BY <1>1, Shown DEF IInv
<1>3. Applied(base[h], to) = Latest
  <2>1. \A s \in Stores : Applied(base[h], to)[s] = Latest[s]
    BY <1>1, <1>2 DEF ChangedStores
  <2> QED
    BY <1>2, <2>1 DEF Applied, State
<1>4. [s \in Stores |-> IF s \in Changed(base[h], to) THEN to[s] ELSE Latest[s]] = Latest
  BY <1>2, <1>3 DEF Applied
<1>5. Latest' = Latest /\ History' = History /\ Request' = Request
  BY <1>1, NothingToSaveKeeps DEF History, Request, RequestOf
<1>6. Latest # Torn
  BY <1>2, Files
<1> QED
  BY <1>1, <1>4, <1>5, <1>6, Agrees

LEMMA WriteCurrentEffects ==
  ASSUME IInv, NEW h \in Hosts, WriteCurrent(h)
  PROVE  Register!Next
<1>1. /\ Latest' = txn[h].next /\ Drafts(txn[h]) /\ txn[h] \in Txns
      /\ txn[h].at \in Unpublished /\ txn[h].id \in Ids
      /\ published' = [published EXCEPT ![txn[h].id] = txn[h].next]
  BY WriteCurrentKeeps
<1>2. /\ txn' = [txn EXCEPT ![h].at = "current"] \/ txn' = [txn EXCEPT ![h] = NoTxn]
      /\ base' = base
  BY DEF WriteCurrent
<1>3. PICK from \in State, to \in State : from = txn[h].from /\ to = txn[h].to
  BY <1>1 DEF Txns
<1>4. Request[h].at = "asked" /\ Request[h].from = from /\ Request[h].to = to
  BY <1>1, <1>3 DEF Request, RequestOf, Unpublished
<1>5. /\ Latest \in State
      /\ \A s \in Changed(from, to) : Latest[s] \in {from[s], to[s]}
      /\ Latest' = [s \in Stores |-> IF s \in Changed(from, to) THEN to[s] ELSE Latest[s]]
  BY <1>1, <1>3 DEF Drafts
<1>6. History' = History \cup {Latest'}
  <2>1. /\ published \in [Ids -> State \cup {Absent}] /\ published[txn[h].id] = Absent
        /\ txn[h].next # Absent
    BY <1>1, Files DEF IInv, Types, TypeOK, Drafts, Txns
  <2>2. \A i \in Ids : published'[i] = IF i = txn[h].id THEN Latest' ELSE published[i]
    BY <1>1, <2>1
  <2>3. ASSUME NEW x \in History' PROVE x \in History \cup {Latest'}
    BY <2>2 DEF History
  <2>4. ASSUME NEW x \in History PROVE x \in History'
    BY <2>1, <2>2 DEF History
  <2>5. Latest' \in History'
    BY <1>1, <2>1, <2>2 DEF History
  <2> QED
    BY <2>3, <2>4, <2>5
<1>7. Request' = [Request EXCEPT ![h].at = "done"]
        \/ Request' = [Request EXCEPT ![h] = RequestOf(NoTxn)]
  <2>1. CASE txn' = [txn EXCEPT ![h].at = "current"]
    <3>1. txn \in [Hosts -> Txns]
      BY DEF IInv, Types
    <3>2. PICK u : u = [txn[h] EXCEPT !.at = "current"]
      OBVIOUS
    <3>3. u.at = "current" /\ u.from = txn[h].from /\ u.to = txn[h].to
          /\ txn' = [txn EXCEPT ![h] = u]
      BY <1>1, <2>1, <3>1, <3>2 DEF Txns
    <3>4. Request' = [Request EXCEPT ![h] = RequestOf(u)]
      BY <3>3, RequestStep
    <3>5. RequestOf(u) = [RequestOf(txn[h]) EXCEPT !.at = "done"]
      BY <3>3 DEF RequestOf
    <3> QED
      BY <3>4, <3>5 DEF Request
  <2>2. CASE txn' = [txn EXCEPT ![h] = NoTxn]
    <3>1. PICK t : t = NoTxn /\ txn' = [txn EXCEPT ![h] = t]
      BY <2>2
    <3> QED
      BY <3>1, RequestStep
  <2> QED
    BY <1>2, <2>1, <2>2
<1> QED
  BY <1>2, <1>4, <1>5, <1>6, <1>7, Effect

LEMMA EndUnseen ==
  ASSUME IInv, NEW h \in Hosts, txn' = [txn EXCEPT ![h] = NoTxn]
  PROVE  Request' = [Request EXCEPT ![h] = RequestOf(NoTxn)]
<1>1. PICK t : t = NoTxn /\ txn' = [txn EXCEPT ![h] = t]
  OBVIOUS
<1> QED
  BY <1>1, RequestStep

LEMMA WriteFailsFails ==
  ASSUME IInv, NEW h \in Hosts, WriteFails(h)
  PROVE  Register!Next
<1>1. /\ txn[h].at \in Unpublished /\ txn' = [txn EXCEPT ![h] = NoTxn]
      /\ base' = base /\ published' = published
  BY DEF WriteFails, Unpublished
<1>2. Request[h].at = "asked"
  BY <1>1 DEF Request, RequestOf, Unpublished
<1>3. Latest' = Latest /\ History' = History
  BY <1>1, WriteFailsKeeps DEF History
<1> QED
  BY <1>1, <1>2, <1>3, EndUnseen, Fails

LEMMA CollectConfirms ==
  ASSUME IInv, NEW h \in Hosts, Collect(h)
  PROVE  Register!Next
<1>1. /\ Latest' = Latest /\ txn[h].at = "unmarked" /\ txn' = [txn EXCEPT ![h] = NoTxn]
      /\ base' = (IF txn[h].learns THEN [base EXCEPT ![h] = txn[h].to] ELSE base)
      /\ published' = published
  BY CollectKeeps
<1>2. Request[h].at = "done" /\ Request[h].to = txn[h].to
  BY <1>1 DEF Request, RequestOf
<1>3. base' \in {base, [base EXCEPT ![h] = Request[h].to]}
  BY <1>1, <1>2
<1>4. History' = History
  BY <1>1 DEF History
<1> QED
  BY <1>1, <1>2, <1>3, <1>4, EndUnseen, Confirms

LEMMA CrashCrashes ==
  ASSUME IInv, NEW h \in Hosts, Crash(h)
  PROVE  Register!Next
<1>1. /\ txn' = [txn EXCEPT ![h] = NoTxn] /\ base' = [base EXCEPT ![h] = Empty]
      /\ published' = published
  BY DEF Crash
<1>2. Latest' = Latest /\ History' = History
  BY <1>1, CrashKeeps DEF History
<1> QED
  BY <1>1, <1>2, EndUnseen, Crashes

LEMMA StepRefines ==
  IInv /\ IInv' /\ [Next]_vars => [Register!Next]_Register!vars
<1> SUFFICES ASSUME IInv, IInv', [Next]_vars PROVE [Register!Next]_Register!vars
  OBVIOUS
<1>1. ASSUME NEW h \in Hosts, NEW stage \in {"startup", "full"}, Open(h, stage) PROVE Register!Next
  BY <1>1, Falls DEF Open, Request, RequestOf
<1>2. ASSUME NEW h \in Hosts, NEW s \in Stores, ReadStore(h, s) PROVE Register!Next
  BY <1>2, Falls DEF ReadStore, Request, RequestOf
<1>3. ASSUME NEW h \in Hosts, OpenRefused(h) PROVE Register!Next
  BY <1>3, Falls DEF OpenRefused, Request, RequestOf
<1>4. ASSUME NEW h \in Hosts, StageRead(h) PROVE Register!Next
  <2>1. PICK i \in Ids, S \in SUBSET Stores :
           /\ published[i] \in State
           /\ base' = [base EXCEPT ![h] = [s \in Stores |-> IF s \in S THEN published[i][s] ELSE @[s]]]
    BY <1>4, StageReadKeeps
  <2>2. Latest' = Latest /\ History' = History /\ Request' = Request
    BY <1>4, StageReadKeeps DEF StageRead, History, Request, RequestOf
  <2> QED
    BY <2>1, <2>2, Reading
<1>5. ASSUME NEW h \in Hosts, LoadDeferred(h) PROVE Register!Next
  BY <1>5, Falls DEF LoadDeferred, Request, RequestOf
<1>6. ASSUME NEW h \in Hosts, Release(h) PROVE Register!Next
  BY <1>6, Falls DEF Release, Request, RequestOf
<1>7. ASSUME NEW h \in Hosts, NEW to \in Worlds, BeginSave(h, to) PROVE Register!Next
  <2>1. PICK from \in State : from = base[h] /\ Begin(h, from, to, TRUE) /\ to \in State
    BY <1>7, SaveBegins
  <2> QED
    BY <2>1, BeginAsks
<1>8. ASSUME NEW h \in Hosts, NEW to \in Worlds, NothingToSave(h, to) PROVE Register!Next
  BY <1>8, WorldsAssumption, NothingToSaveAgrees
<1>9. ASSUME NEW h \in Hosts, BeginDeletion(h) PROVE Register!Next
  <2>1. PICK from \in State : from = Latest /\ Begin(h, from, Empty, FALSE)
    BY <1>9, DeletionBegins
  <2> QED
    BY <2>1, Files, BeginAsks
<1>10. ASSUME NEW h \in Hosts,
              WriteStores(h) \/ WriteManifest(h) \/ WritePrepared(h) \/ WritePrevious(h)
                \/ RemoveMarkers(h)
       PROVE  Register!Next
  <2>1. /\ published' = published /\ base' = base
        /\ \E at \in Locked :
              /\ txn' = [txn EXCEPT ![h].at = at]
              /\ txn[h].at \in Locked /\ (txn[h].at \in Unpublished <=> at \in Unpublished)
    BY <1>10 DEF WriteStores, WriteManifest, WritePrepared, WritePrevious, RemoveMarkers,
                 Locked, Unpublished
  <2>2. Request' = Request
    BY <2>1, PhaseUnseen
  <2> QED
    BY <2>1, <2>2, Falls
<1>11. ASSUME NEW h \in Hosts, WriteCurrent(h) PROVE Register!Next
  BY <1>11, WriteCurrentEffects
<1>12. ASSUME NEW h \in Hosts, WriteFails(h) PROVE Register!Next
  BY <1>12, WriteFailsFails
<1>13. ASSUME NEW h \in Hosts, Collect(h) PROVE Register!Next
  BY <1>13, CollectConfirms
<1>14. ASSUME NEW h \in Hosts, Crash(h) PROVE Register!Next
  BY <1>14, CrashCrashes
<1>15. CASE Lapse
  BY <1>15, Falls DEF Lapse, hosts, Request, RequestOf
<1>16. CASE Damage
  BY <1>16, Falls DEF Damage, hosts, Request, RequestOf
<1>17. CASE UNCHANGED vars
  BY <1>17, Falls DEF vars, hosts, Request, RequestOf
<1> QED
  BY <1>1, <1>2, <1>3, <1>4, <1>5, <1>6, <1>7, <1>8, <1>9, <1>10, <1>11, <1>12, <1>13,
     <1>14, <1>15, <1>16, <1>17 DEF Next

LEMMA InitRefines == Init => Register!Init
<1> SUFFICES ASSUME Init PROVE Register!Init
  OBVIOUS
<1>1. {published[i] : i \in Ids} \ {Absent} = {}
  BY DEF Init
<1>2. Request = [h \in Hosts |-> Register!NoRequest]
  BY Forgets DEF Init, Request
<1> QED
  BY <1>1, <1>2 DEF Init, Register!Init, Register!Empty, Empty, Request, RequestOf

\* For any hosts, stores and records and any number of commits, the store is one
\* register with compare and set: a patch takes effect in all stores at once and
\* never over a record that somebody else has changed, and no host takes for
\* saved what was never published.
THEOREM CommitsFormOneRegister == Spec => IsRegister
<1>1. Spec => Register!Init /\ [][Register!Next]_Register!vars
  BY InitRefines, InvariantHolds, StepRefines, PTL DEF Spec
<1> QED
  BY <1>1 DEF IsRegister, Register!Spec

--------------------------------------------------------------------------------
\* The configurations a server may have, in the settings or in a refresh.
Config == [on : BOOLEAN, rev : Nat]
MaybeConfig == Config \cup {None}

--------------------------------------------------------------------------------
(* Servers: the inductive invariant.                                        *)

\* The types of what the settings, the refreshes and the connections are.
McpTyped ==
  /\ stored \in [Servers -> MaybeConfig] /\ conns \in [Servers -> MaybeConfig]
  /\ sources \in [Servers -> {None, "disabled", "idle", "connecting", "error"}]
  /\ chain \in Seq(BOOLEAN)
  /\ cur \in [pc : {"idle", "close", "connect", "list"}, wanted : [Servers -> MaybeConfig],
              next : Nat, at : Servers \cup {None}]
  /\ open \subseteq Servers \X Config
  /\ saves \in Nat /\ MaxSaves \in Nat

\* How far the refresh under way is.
CurInv ==
  /\ cur.next >= 1 /\ (cur.next \in Servers \/ cur.next - 1 \in Servers \/ Servers = {})
  /\ cur.pc # "idle" => chain # <<>>
  /\ cur.at # None <=> cur.pc \in {"connect", "list"}
  /\ cur.at # None => cur.at = cur.next /\ Mcp!Wants(cur.at) /\ conns[cur.at] = None
  /\ cur.pc = "list" => <<cur.at, cur.wanted[cur.at]>> \in open

\* Server s is as it should be by configuration c.
IsAs(s, c) ==
  CASE c = None -> conns[s] = None /\ sources[s] = None
    [] c # None /\ ~c.on -> conns[s] = None /\ sources[s] = "disabled"
    [] OTHER -> \/ conns[s] = c /\ sources[s] = None
                \/ conns[s] = None /\ sources[s] \in {"idle", "error"}

\* The last refresh that was asked for works for what is stored.
LastInv == cur.pc # "idle" /\ Len(chain) = 1 => cur.wanted = stored

\* What the refresh has visited is as it wants it, and of the others nothing is said.
VisitedInv ==
  cur.pc # "idle" /\ ~disposed =>
    \A s \in Servers :
      /\ s < cur.next => IsAs(s, cur.wanted[s])
      /\ s >= cur.next /\ s # cur.at => sources[s] = None

\* With no refresh left the servers are as stored, and the world knows.
RestInv ==
  chain = <<>> /\ ~disposing /\ ~unread =>
    (\A s \in Servers : IsAs(s, stored[s])) /\ world = Mcp!View(conns, sources)

\* Every transport is held, and the others are astray.
HeldInv ==
  /\ stray \subseteq open
  /\ \A t \in open \ stray : \/ conns[t[1]] = t[2]
                             \/ cur.pc = "list" /\ t = <<cur.at, cur.wanted[cur.at]>>

ConnsInv ==
  /\ disposed => disposing
  /\ \A s \in Servers : conns[s] # None => conns[s].on /\ (disposed \/ sources[s] = None)

McpInv == McpTyped /\ CurInv /\ LastInv /\ VisitedInv /\ RestInv /\ HeldInv /\ ConnsInv

\* The servers are numbered in the order of the settings, and what stands for none is none of them.
Numbered == (\E n \in Nat : Servers = 1..n) /\ MaxSaves \in Nat
Apart ==
  /\ None \notin Servers /\ None \notin Config
  /\ None \notin {"disabled", "idle", "connecting", "error"}

--------------------------------------------------------------------------------
(* One lemma per action.                                                    *)

LEMMA SettingsKeeps ==
  ASSUME Numbered, Apart, McpInv, NEW s \in Servers, NEW config \in MaybeConfig,
         NEW discover \in BOOLEAN, Mcp!Save(s, config, discover)
  PROVE  McpInv'
<1> USE DEF McpInv
<1>0. chain' \in Seq(BOOLEAN) /\ chain' # <<>>
  BY DEF McpTyped, Mcp!Save, Mcp!Refresh
<1>1. McpTyped'
  BY DEF McpTyped, Mcp!Save, Mcp!Refresh, MaybeConfig, Config, Apart
<1>2. CurInv'
  BY <1>0 DEF McpTyped, CurInv, Mcp!Save, Mcp!Wants
<1>3. LastInv'
  BY DEF McpTyped, CurInv, LastInv, Mcp!Save, Mcp!Refresh
<1>4. VisitedInv'
  BY DEF McpTyped, CurInv, VisitedInv, Mcp!Save, Mcp!Refresh, IsAs, Mcp!Wants, Numbered, Apart,
     MaybeConfig, Config
<1>5. RestInv'
  BY <1>0 DEF RestInv
<1>6. HeldInv'
  BY DEF McpTyped, CurInv, HeldInv, Mcp!Save, Mcp!Refresh, Apart, MaybeConfig, Config
<1>7. ConnsInv'
  BY DEF McpTyped, CurInv, VisitedInv, ConnsInv, Mcp!Save, Mcp!Refresh, Mcp!Wants, Apart, MaybeConfig,
     Config
<1> QED
  BY <1>1, <1>2, <1>3, <1>4, <1>5, <1>6, <1>7

LEMMA LoadKeeps ==
  ASSUME Numbered, Apart, McpInv, Mcp!Load
  PROVE  McpInv'
<1> USE DEF McpInv
<1>1. McpTyped'
  BY DEF McpTyped, Mcp!Load, Mcp!Idle, MaybeConfig, Config, Apart
<1>2. CurInv'
  BY DEF McpTyped, CurInv, Mcp!Load, Mcp!Idle, Mcp!Wants, Numbered, Apart, MaybeConfig, Config
<1>3. LastInv'
  BY DEF McpTyped, CurInv, LastInv, Mcp!Load, Mcp!Idle
<1>4. VisitedInv'
  BY DEF McpTyped, CurInv, VisitedInv, Mcp!Load, Mcp!Idle, IsAs, Mcp!Wants, Numbered, Apart,
     MaybeConfig, Config
<1>5. RestInv'
  BY DEF McpTyped, CurInv, LastInv, VisitedInv, RestInv, Mcp!Load, Mcp!Idle, IsAs, Mcp!View, Numbered,
     Apart
<1>6. HeldInv'
  BY DEF McpTyped, CurInv, HeldInv, Mcp!Load, Mcp!Idle, Apart, MaybeConfig, Config
<1>7. ConnsInv'
  BY DEF McpTyped, CurInv, VisitedInv, ConnsInv, Mcp!Load, Mcp!Idle, Mcp!Wants, Apart, MaybeConfig,
     Config
<1> QED
  BY <1>1, <1>2, <1>3, <1>4, <1>5, <1>6, <1>7

LEMMA LoadFailsKeeps ==
  ASSUME Numbered, Apart, McpInv, Mcp!LoadFails
  PROVE  McpInv'
<1> USE DEF McpInv
<1>1. McpTyped'
  BY DEF McpTyped, Mcp!LoadFails, Mcp!Fault, Mcp!Told, MaybeConfig, Config, Apart
<1>2. CurInv'
  BY DEF McpTyped, CurInv, Mcp!LoadFails, Mcp!Fault, Mcp!Told, Mcp!Wants, Numbered, Apart, MaybeConfig,
     Config
<1>3. LastInv'
  BY DEF McpTyped, CurInv, LastInv, Mcp!LoadFails, Mcp!Fault, Mcp!Told
<1>4. VisitedInv'
  BY DEF McpTyped, CurInv, VisitedInv, Mcp!LoadFails, Mcp!Fault, Mcp!Told, IsAs, Mcp!Wants, Numbered,
     Apart, MaybeConfig, Config
<1>5. RestInv'
  BY DEF McpTyped, CurInv, LastInv, VisitedInv, RestInv, Mcp!LoadFails, Mcp!Fault, Mcp!Told, IsAs,
     Mcp!View, Numbered, Apart
<1>6. HeldInv'
  BY DEF McpTyped, CurInv, HeldInv, Mcp!LoadFails, Mcp!Fault, Mcp!Told, Apart, MaybeConfig, Config
<1>7. ConnsInv'
  BY DEF McpTyped, CurInv, VisitedInv, ConnsInv, Mcp!LoadFails, Mcp!Fault, Mcp!Told, Mcp!Wants, Apart,
     MaybeConfig, Config
<1> QED
  BY <1>1, <1>2, <1>3, <1>4, <1>5, <1>6, <1>7

LEMMA CloseKeeps ==
  ASSUME Numbered, Apart, McpInv, NEW s \in Servers, Mcp!Close(s)
  PROVE  McpInv'
<1> USE DEF McpInv
<1>1. McpTyped'
  BY DEF McpTyped, Mcp!Close, Mcp!Closed, Mcp!Outdated, MaybeConfig, Config, Apart
<1>2. CurInv'
  BY DEF McpTyped, CurInv, Mcp!Close, Mcp!Closed, Mcp!Outdated, Mcp!Wants, Numbered, Apart,
     MaybeConfig, Config
<1>3. LastInv'
  BY DEF McpTyped, CurInv, LastInv, Mcp!Close, Mcp!Closed, Mcp!Outdated
<1>4. VisitedInv'
  BY DEF McpTyped, CurInv, VisitedInv, Mcp!Close, Mcp!Closed, Mcp!Outdated, IsAs, Mcp!Wants, Numbered,
     Apart, MaybeConfig, Config
<1>5. RestInv'
  BY DEF McpTyped, CurInv, LastInv, VisitedInv, RestInv, Mcp!Close, Mcp!Closed, Mcp!Outdated, IsAs,
     Mcp!View, Numbered, Apart
<1>6. HeldInv'
  BY DEF McpTyped, CurInv, HeldInv, Mcp!Close, Mcp!Closed, Mcp!Outdated, Apart, MaybeConfig, Config
<1>7. ConnsInv'
  BY DEF McpTyped, CurInv, VisitedInv, ConnsInv, Mcp!Close, Mcp!Closed, Mcp!Outdated, Mcp!Wants, Apart,
     MaybeConfig, Config
<1> QED
  BY <1>1, <1>2, <1>3, <1>4, <1>5, <1>6, <1>7

LEMMA VisitKeeps ==
  ASSUME Numbered, Apart, McpInv, Mcp!Visit
  PROVE  McpInv'
<1> USE DEF McpInv
<1>0. PICK s \in Servers : s = cur.next
  BY DEF Mcp!Visit
<1> DEFINE passed == [pc |-> "close", wanted |-> cur.wanted, next |-> cur.next + 1, at |-> None]
           entered == [pc |-> "connect", wanted |-> cur.wanted, next |-> cur.next, at |-> s]
           say(what) == [sources EXCEPT ![s] = what]
<1>1. /\ cur.pc = "close" /\ cur.at = None /\ s = cur.next /\ s \in Nat
      /\ \A r \in Servers : ~Mcp!Outdated(r)
  BY <1>0 DEF McpTyped, CurInv, Mcp!Visit, Apart
<1>2. \/ cur' = passed /\ sources' = sources /\ cur.wanted[s] = None /\ conns[s] = None
      \/ cur' = passed /\ sources' = sources /\ Mcp!Wants(s) /\ conns[s] = cur.wanted[s]
      \/ cur' = passed /\ sources' = say("disabled") /\ cur.wanted[s] # None /\ ~Mcp!Wants(s) /\ conns[s] = None
      \/ cur' = passed /\ sources' = say("idle") /\ Mcp!Wants(s) /\ conns[s] = None
      \/ cur' = entered /\ sources' = say("connecting") /\ Mcp!Wants(s) /\ conns[s] = None
  BY <1>1 DEF McpTyped, Mcp!Visit, Mcp!Outdated, Mcp!Wants
<1>a. cur' \in {passed, entered} /\ sources' \in {sources, say("disabled"), say("idle"), say("connecting")}
  BY <1>2
<1>3. McpTyped'
  <2>1. cur' \in [pc : {"idle", "close", "connect", "list"}, wanted : [Servers -> MaybeConfig],
                  next : Nat, at : Servers \cup {None}]
    <3>1. cur.wanted \in [Servers -> MaybeConfig] /\ cur.next + 1 \in Nat /\ cur.next \in Nat
      BY DEF McpTyped
    <3> QED
      BY <1>a, <3>1
  <2>2. sources' \in [Servers -> {None, "disabled", "idle", "connecting", "error"}]
    BY <1>a DEF McpTyped
  <2> QED
    BY <2>1, <2>2 DEF McpTyped, Mcp!Visit
<1>4. CurInv'
  <2>1. cur.next + 1 >= 1 /\ (cur.next + 1) - 1 \in Servers
    BY <1>1 DEF CurInv
  <2>2. chain' # <<>> /\ conns' = conns
    BY <1>1 DEF CurInv, Mcp!Visit
  <2>3. CASE cur' = passed
    BY <2>1, <2>2, <2>3 DEF CurInv
  <2>4. CASE cur' = entered /\ Mcp!Wants(s) /\ conns[s] = None
    BY <1>1, <2>2, <2>4 DEF CurInv, Mcp!Wants, Apart
  <2> QED
    BY <1>2, <2>3, <2>4
<1>5. LastInv'
  BY <1>1, <1>2 DEF LastInv, Mcp!Visit
<1>6. VisitedInv'
  <2> SUFFICES ASSUME ~disposed, NEW r \in Servers
               PROVE  /\ r < cur'.next => IsAs(r, cur.wanted[r])'
                      /\ r >= cur'.next /\ r # cur'.at => sources'[r] = None
    BY <1>2 DEF VisitedInv, Mcp!Visit
  <2>0. r \in Nat /\ conns' = conns /\ cur'.wanted = cur.wanted
    <3>1. r \in Nat
      BY DEF Numbered
    <3>2. cur'.wanted = cur.wanted
      BY <1>a
    <3> QED
      BY <3>1, <3>2 DEF Mcp!Visit
  <2>1. CASE r = s
    <3>1. sources[s] = None
      BY <1>1 DEF VisitedInv, Apart
    <3>2. CASE cur' = entered
      BY <1>1, <2>0, <2>1, <3>2
    <3>3. CASE cur' = passed
      <4>1. IsAs(s, cur.wanted[s])'
        BY <1>1, <1>2, <2>0, <3>1, <3>3 DEF IsAs, Mcp!Wants, McpTyped
      <4> QED
        BY <1>1, <2>1, <2>0, <3>3, <4>1
    <3> QED
      BY <1>2, <3>2, <3>3
  <2>2. CASE r # s
    <3>1. sources'[r] = sources[r]
      BY <1>2, <2>2 DEF McpTyped
    <3>2. /\ r < cur.next => IsAs(r, cur.wanted[r])
          /\ r >= cur.next => sources[r] = None
      BY <1>1, <2>2 DEF VisitedInv, Apart
    <3>3. IsAs(r, cur.wanted[r])' <=> IsAs(r, cur.wanted[r])
      BY <2>0, <3>1 DEF IsAs
    <3>4. cur'.next \in {cur.next, cur.next + 1} /\ (cur'.next = cur.next => cur'.at = s)
      BY <1>a, <1>1
    <3> QED
      BY <1>1, <2>0, <2>2, <3>1, <3>2, <3>3, <3>4
  <2> QED
    BY <2>1, <2>2
<1>7. RestInv'
  BY <1>1 DEF CurInv, RestInv, Mcp!Visit
<1>8. HeldInv'
  BY <1>1, <1>2 DEF HeldInv, Mcp!Visit
<1>9. ConnsInv'
  BY <1>1, <1>2 DEF McpTyped, ConnsInv, Mcp!Visit
<1> QED
  BY <1>3, <1>4, <1>5, <1>6, <1>7, <1>8, <1>9

LEMMA ConnectsKeeps ==
  ASSUME Numbered, Apart, McpInv, Mcp!Connects
  PROVE  McpInv'
<1> USE DEF McpInv
<1>0. cur' = [pc |-> "list", wanted |-> cur.wanted, next |-> cur.next, at |-> cur.at]
  BY DEF McpTyped, Mcp!Connects
<1>1. McpTyped'
  <2>1. <<cur.at, cur.wanted[cur.at]>> \in Servers \X Config
    BY DEF McpTyped, CurInv, Mcp!Connects, Mcp!Wants, MaybeConfig
  <2> QED
    BY <1>0, <2>1 DEF McpTyped, Mcp!Connects
<1>2. CurInv'
  BY DEF McpTyped, CurInv, Mcp!Connects, Mcp!Wants, Numbered, Apart, MaybeConfig, Config
<1>3. LastInv'
  BY DEF McpTyped, CurInv, LastInv, Mcp!Connects
<1>4. VisitedInv'
  BY DEF McpTyped, CurInv, VisitedInv, Mcp!Connects, IsAs, Mcp!Wants, Numbered, Apart, MaybeConfig,
     Config
<1>5. RestInv'
  BY DEF McpTyped, CurInv, LastInv, VisitedInv, RestInv, Mcp!Connects, IsAs, Mcp!View, Numbered, Apart
<1>6. HeldInv'
  BY DEF McpTyped, CurInv, HeldInv, Mcp!Connects, Apart, MaybeConfig, Config
<1>7. ConnsInv'
  BY DEF McpTyped, CurInv, VisitedInv, ConnsInv, Mcp!Connects, Mcp!Wants, Apart, MaybeConfig, Config
<1> QED
  BY <1>1, <1>2, <1>3, <1>4, <1>5, <1>6, <1>7

LEMMA ListsKeeps ==
  ASSUME Numbered, Apart, McpInv, Mcp!Lists
  PROVE  McpInv'
<1> USE DEF McpInv
<1>0. cur' = [pc |-> "close", wanted |-> cur.wanted, next |-> cur.next + 1, at |-> None]
  BY DEF McpTyped, Mcp!Lists, Mcp!Advance
<1>1. McpTyped'
  BY <1>0 DEF McpTyped, Mcp!Lists, CurInv
<1>2. CurInv'
  BY DEF McpTyped, CurInv, Mcp!Lists, Mcp!Advance, Mcp!Told, Mcp!Wants, Numbered, Apart, MaybeConfig,
     Config
<1>3. LastInv'
  BY DEF McpTyped, CurInv, LastInv, Mcp!Lists, Mcp!Advance, Mcp!Told
<1>4. VisitedInv'
  BY DEF McpTyped, CurInv, VisitedInv, Mcp!Lists, Mcp!Advance, Mcp!Told, IsAs, Mcp!Wants, Numbered,
     Apart, MaybeConfig, Config
<1>5. RestInv'
  BY DEF McpTyped, CurInv, LastInv, VisitedInv, RestInv, Mcp!Lists, Mcp!Advance, Mcp!Told, IsAs,
     Mcp!View, Numbered, Apart
<1>6. HeldInv'
  <2>1. conns' = [conns EXCEPT ![cur.at] = cur.wanted[cur.at]] /\ conns[cur.at] = None /\ cur.at \in Servers
    BY DEF McpTyped, CurInv, Mcp!Lists
  <2>2. \A t \in open : t[1] \in Servers /\ t[2] # None /\ t = <<t[1], t[2]>>
    BY DEF McpTyped, Apart
  <2>3. open' = open /\ stray \subseteq stray'
    BY DEF Mcp!Lists
  <2>4. stray' \subseteq open'
    BY DEF McpTyped, CurInv, HeldInv, Mcp!Lists
  <2>5. ASSUME NEW t \in open' \ stray' PROVE conns'[t[1]] = t[2]
    <3>1. conns[t[1]] = t[2] \/ t = <<cur.at, cur.wanted[cur.at]>>
      BY <2>3, <2>5 DEF HeldInv
    <3>2. CASE t = <<cur.at, cur.wanted[cur.at]>>
      BY <3>2, <2>1 DEF McpTyped
    <3>3. CASE conns[t[1]] = t[2]
      <4>1. t[1] # cur.at /\ t[1] \in Servers
        BY <3>3, <2>1, <2>2, <2>3, <2>5
      <4> QED
        BY <4>1, <3>3, <2>1 DEF McpTyped
    <3> QED
      BY <3>1, <3>2, <3>3
  <2> QED
    BY <2>4, <2>5 DEF HeldInv
<1>7. ConnsInv'
  BY DEF McpTyped, CurInv, VisitedInv, ConnsInv, Mcp!Lists, Mcp!Advance, Mcp!Told, Mcp!Wants, Apart,
     MaybeConfig, Config
<1> QED
  BY <1>1, <1>2, <1>3, <1>4, <1>5, <1>6, <1>7

LEMMA ConnectFailsKeeps ==
  ASSUME Numbered, Apart, McpInv, Mcp!ConnectFails
  PROVE  McpInv'
<1> USE DEF McpInv
<1>0. cur' = [pc |-> "close", wanted |-> cur.wanted, next |-> cur.next + 1, at |-> None]
  BY DEF McpTyped, Mcp!ConnectFails, Mcp!Advance
<1>1. McpTyped'
  BY <1>0 DEF McpTyped, Mcp!ConnectFails, Mcp!Fault, CurInv
<1>2. CurInv'
  <2>1. cur.next \in Servers /\ cur.next >= 1 /\ cur.next + 1 >= 1 /\ (cur.next + 1) - 1 = cur.next
    BY DEF McpTyped, CurInv, Mcp!ConnectFails, Numbered
  <2>2. chain # <<>>
    BY DEF CurInv, Mcp!ConnectFails
  <2> QED
    BY <1>0, <2>1, <2>2 DEF CurInv, Mcp!ConnectFails
<1>3. LastInv'
  BY DEF McpTyped, CurInv, LastInv, Mcp!ConnectFails, Mcp!Advance, Mcp!Told, Mcp!Fault
<1>4. VisitedInv'
  <2>1. PICK s \in Servers : s = cur.at /\ s = cur.next /\ Mcp!Wants(s) /\ conns[s] = None
    BY DEF McpTyped, CurInv, Mcp!ConnectFails
  <2>2. conns' = conns /\ sources' = [sources EXCEPT ![s] = "error"] /\ cur'.wanted = cur.wanted
    BY <1>0, <2>1 DEF Mcp!ConnectFails
  <2>3. IsAs(s, cur.wanted[s])'
    BY <2>1, <2>2 DEF IsAs, Mcp!Wants, McpTyped
  <2>4. ASSUME ~disposed, NEW r \in Servers, r # s
        PROVE  /\ r < cur.next + 1 => IsAs(r, cur.wanted[r])'
               /\ r >= cur.next + 1 => sources'[r] = None
    <3>1. r \in Nat /\ cur.next \in Nat
      BY DEF McpTyped, Numbered
    <3>2. (r < cur.next => IsAs(r, cur.wanted[r])) /\ (r >= cur.next => sources[r] = None)
      BY <2>1, <2>4 DEF VisitedInv, Mcp!ConnectFails
    <3>3. IsAs(r, cur.wanted[r])' <=> IsAs(r, cur.wanted[r])
      BY <2>2, <2>4 DEF IsAs, McpTyped
    <3>4. sources'[r] = sources[r]
      BY <2>2, <2>4 DEF McpTyped
    <3> QED
      BY <2>1, <2>4, <3>1, <3>2, <3>3, <3>4
  <2>5. s < cur.next + 1
    BY <2>1 DEF McpTyped
  <2>6. disposed' = disposed /\ cur'.next = cur.next + 1
    BY <1>0 DEF Mcp!ConnectFails
  <2>7. ~(s >= cur.next + 1)
    BY <2>1, <2>5 DEF McpTyped
  <2> QED
    BY <2>2, <2>3, <2>4, <2>5, <2>6, <2>7 DEF VisitedInv
<1>5. RestInv'
  BY DEF McpTyped, CurInv, LastInv, VisitedInv, RestInv, Mcp!ConnectFails, Mcp!Advance, Mcp!Told,
         Mcp!Fault, IsAs, Mcp!View, Numbered, Apart
<1>6. HeldInv'
  BY DEF McpTyped, CurInv, HeldInv, Mcp!ConnectFails, Mcp!Advance, Mcp!Told, Mcp!Fault, Apart,
     MaybeConfig, Config
<1>7. ConnsInv'
  BY DEF McpTyped, CurInv, VisitedInv, ConnsInv, Mcp!ConnectFails, Mcp!Advance, Mcp!Told, Mcp!Fault,
     Mcp!Wants, Apart,
         MaybeConfig, Config
<1> QED
  BY <1>1, <1>2, <1>3, <1>4, <1>5, <1>6, <1>7

LEMMA FinishKeeps ==
  ASSUME Numbered, Apart, McpInv, Mcp!Finish
  PROVE  McpInv'
<1> USE DEF McpInv
<1>0. /\ Mcp!Idle \in [pc : {"idle", "close", "connect", "list"}, wanted : [Servers -> MaybeConfig],
                  next : Nat, at : Servers \cup {None}]
      /\ Tail(chain) \in Seq(BOOLEAN)
  BY DEF McpTyped, CurInv, Mcp!Idle, MaybeConfig, Mcp!Finish
<1>1. McpTyped'
  BY <1>0 DEF McpTyped, Mcp!Finish
<1>2. CurInv'
  BY DEF McpTyped, CurInv, Mcp!Finish, Mcp!Told, Mcp!Outdated, Mcp!Idle, Mcp!Wants, Numbered, Apart,
     MaybeConfig, Config
<1>3. LastInv'
  BY DEF McpTyped, CurInv, LastInv, Mcp!Finish, Mcp!Told, Mcp!Outdated, Mcp!Idle
<1>4. VisitedInv'
  BY DEF McpTyped, CurInv, VisitedInv, Mcp!Finish, Mcp!Told, Mcp!Outdated, Mcp!Idle, IsAs, Mcp!Wants,
     Numbered,
         Apart, MaybeConfig, Config
<1>5. RestInv'
  <2> SUFFICES ASSUME chain' = <<>>, ~disposing, ~unread
               PROVE  (\A s \in Servers : IsAs(s, stored[s])') /\ world' = Mcp!View(conns, sources)'
    BY DEF RestInv, Mcp!Finish
  <2>1. Len(chain) = 1
    <3>1. chain \in Seq(BOOLEAN) /\ chain # <<>> /\ Tail(chain) = <<>>
      BY DEF McpTyped, CurInv, Mcp!Finish
    <3>2. Len(chain) \in Nat /\ Len(Tail(chain)) = Len(chain) - 1
      BY <3>1
    <3>3. Len(Tail(chain)) = 0
      <4>1. \A q : q = <<>> => Len(q) = 0
        OBVIOUS
      <4> QED
        BY <3>1, <4>1
    <3> QED
      BY <3>2, <3>3
  <2>2. cur.wanted = stored /\ ~disposed
    BY <2>1 DEF LastInv, Mcp!Finish, ConnsInv
  <2>3. \A s \in Servers : s < cur.next
    BY DEF McpTyped, CurInv, Mcp!Finish, Numbered
  <2>4. \A s \in Servers : IsAs(s, stored[s])
    BY <2>2, <2>3 DEF VisitedInv, Mcp!Finish
  <2> QED
    BY <2>4 DEF Mcp!Finish, Mcp!Told, IsAs, Mcp!View
<1>6. HeldInv'
  BY DEF McpTyped, CurInv, HeldInv, Mcp!Finish, Mcp!Told, Mcp!Outdated, Mcp!Idle, Apart, MaybeConfig,
     Config
<1>7. ConnsInv'
  BY DEF McpTyped, CurInv, VisitedInv, ConnsInv, Mcp!Finish, Mcp!Told, Mcp!Outdated, Mcp!Idle,
     Mcp!Wants, Apart, MaybeConfig, Config
<1> QED
  BY <1>1, <1>2, <1>3, <1>4, <1>5, <1>6, <1>7

LEMMA ExitsKeeps ==
  ASSUME Numbered, Apart, McpInv, NEW s \in Servers, Mcp!Exits(s)
  PROVE  McpInv'
<1> USE DEF McpInv
<1>1. McpTyped'
  BY DEF McpTyped, Mcp!Exits, Mcp!Fault, MaybeConfig, Config, Apart
<1>2. CurInv'
  BY DEF McpTyped, CurInv, Mcp!Exits, Mcp!Fault, Mcp!Wants, Numbered, Apart, MaybeConfig, Config
<1>3. LastInv'
  BY DEF McpTyped, CurInv, LastInv, Mcp!Exits, Mcp!Fault
<1>4. VisitedInv'
  BY DEF McpTyped, CurInv, VisitedInv, Mcp!Exits, Mcp!Fault, IsAs, Mcp!Wants, Numbered, Apart,
     MaybeConfig, Config
<1>5. RestInv'
  BY DEF McpTyped, CurInv, LastInv, VisitedInv, RestInv, Mcp!Exits, Mcp!Fault, IsAs, Mcp!View,
     Numbered, Apart
<1>6. HeldInv'
  BY DEF McpTyped, CurInv, HeldInv, Mcp!Exits, Mcp!Fault, Apart, MaybeConfig, Config
<1>7. ConnsInv'
  BY DEF McpTyped, CurInv, VisitedInv, ConnsInv, Mcp!Exits, Mcp!Fault, Mcp!Wants, Apart, MaybeConfig,
     Config
<1> QED
  BY <1>1, <1>2, <1>3, <1>4, <1>5, <1>6, <1>7

LEMMA DisposeBeginsKeeps ==
  ASSUME Numbered, Apart, McpInv, Mcp!DisposeBegins
  PROVE  McpInv'
<1> USE DEF McpInv
<1>1. McpTyped'
  BY DEF McpTyped, Mcp!DisposeBegins, MaybeConfig, Config, Apart
<1>2. CurInv'
  BY DEF McpTyped, CurInv, Mcp!DisposeBegins, Mcp!Wants, Numbered, Apart, MaybeConfig, Config
<1>3. LastInv'
  BY DEF McpTyped, CurInv, LastInv, Mcp!DisposeBegins
<1>4. VisitedInv'
  BY DEF McpTyped, CurInv, VisitedInv, Mcp!DisposeBegins, IsAs, Mcp!Wants, Numbered, Apart,
     MaybeConfig, Config
<1>5. RestInv'
  BY DEF McpTyped, CurInv, LastInv, VisitedInv, RestInv, Mcp!DisposeBegins, IsAs, Mcp!View, Numbered,
     Apart
<1>6. HeldInv'
  BY DEF McpTyped, CurInv, HeldInv, Mcp!DisposeBegins, Apart, MaybeConfig, Config
<1>7. ConnsInv'
  BY DEF McpTyped, CurInv, VisitedInv, ConnsInv, Mcp!DisposeBegins, Mcp!Wants, Apart, MaybeConfig, Config
<1> QED
  BY <1>1, <1>2, <1>3, <1>4, <1>5, <1>6, <1>7

LEMMA McpDisposeKeeps ==
  ASSUME Numbered, Apart, McpInv, Mcp!Dispose
  PROVE  McpInv'
<1> USE DEF McpInv
<1>1. McpTyped'
  BY DEF McpTyped, Mcp!Dispose, MaybeConfig, Config, Apart
<1>2. CurInv'
  <2>1. cur.pc = "list" => <<cur.at, cur.wanted[cur.at]>> \in open'
    <3> SUFFICES ASSUME cur.pc = "list" PROVE <<cur.at, cur.wanted[cur.at]>> \in open'
      OBVIOUS
    <3>1. cur.at \in Servers /\ conns[cur.at] = None /\ cur.wanted[cur.at] # None
      BY DEF McpTyped, CurInv, Mcp!Wants, Apart
    <3>2. \A s \in Servers : <<cur.at, cur.wanted[cur.at]>> # <<s, conns[s]>>
      BY <3>1
    <3> QED
      BY <3>2 DEF CurInv, Mcp!Dispose
  <2>2. cur.at # None => conns'[cur.at] = None
    BY DEF McpTyped, Mcp!Dispose
  <2> QED
    BY <2>1, <2>2 DEF CurInv, Mcp!Dispose, Mcp!Wants
<1>3. LastInv'
  BY DEF McpTyped, CurInv, LastInv, Mcp!Dispose
<1>4. VisitedInv'
  BY DEF McpTyped, CurInv, VisitedInv, Mcp!Dispose, IsAs, Mcp!Wants, Numbered, Apart, MaybeConfig, Config
<1>5. RestInv'
  BY DEF McpTyped, CurInv, LastInv, VisitedInv, RestInv, Mcp!Dispose, IsAs, Mcp!View, Numbered, Apart
<1>6. HeldInv'
  BY DEF McpTyped, CurInv, HeldInv, Mcp!Dispose, Apart, MaybeConfig, Config
<1>7. ConnsInv'
  BY DEF McpTyped, CurInv, VisitedInv, ConnsInv, Mcp!Dispose, Mcp!Wants, Apart, MaybeConfig, Config
<1> QED
  BY <1>1, <1>2, <1>3, <1>4, <1>5, <1>6, <1>7

LEMMA McpStutterKeeps ==
  ASSUME McpInv, UNCHANGED Mcp!vars
  PROVE  McpInv'
BY DEF McpInv, McpTyped, CurInv, LastInv, VisitedInv, RestInv, HeldInv, ConnsInv, IsAs, Mcp!Wants,
   Mcp!View, Mcp!vars

--------------------------------------------------------------------------------
(* The theorem.                                                             *)

LEMMA McpBegins ==
  ASSUME Numbered, Apart, Mcp!Init
  PROVE  McpInv
<1>1. stored \in [Servers -> MaybeConfig]
  BY DEF Mcp!Init, Numbered, MaybeConfig, Config
<1>2. McpTyped
  BY <1>1 DEF McpTyped, Mcp!Init, Mcp!Idle, MaybeConfig, Numbered, Apart
<1>3. CurInv
  BY DEF CurInv, Mcp!Init, Mcp!Idle, Numbered
<1>4. LastInv /\ VisitedInv /\ RestInv /\ HeldInv /\ ConnsInv
  BY DEF LastInv, VisitedInv, RestInv, HeldInv, ConnsInv, Mcp!Init, Mcp!Idle
<1> QED
  BY <1>2, <1>3, <1>4 DEF McpInv

LEMMA McpInductive ==
  ASSUME Numbered, Apart, McpInv, [Mcp!Next]_(Mcp!vars)
  PROVE  McpInv'
<1>1. ASSUME NEW s \in Servers, NEW on \in BOOLEAN, NEW discover \in BOOLEAN,
             Mcp!Save(s, [on |-> on, rev |-> saves], discover)
      PROVE  McpInv'
  <2>1. [on |-> on, rev |-> saves] \in MaybeConfig
    BY DEF McpInv, McpTyped, MaybeConfig, Config
  <2> QED
    BY <1>1, <2>1, SettingsKeeps
<1>2. ASSUME NEW s \in Servers, NEW discover \in BOOLEAN, Mcp!Save(s, None, discover)
      PROVE  McpInv'
  BY <1>2, SettingsKeeps DEF MaybeConfig
<1>3. ASSUME NEW s \in Servers, Mcp!Close(s) \/ Mcp!Exits(s)
      PROVE  McpInv'
  BY <1>3, CloseKeeps, ExitsKeeps
<1>4. CASE Mcp!Load \/ Mcp!LoadFails \/ Mcp!Visit \/ Mcp!Connects
  BY <1>4, LoadKeeps, LoadFailsKeeps, VisitKeeps, ConnectsKeeps
<1>5. CASE Mcp!Lists \/ Mcp!ConnectFails \/ Mcp!Finish \/ Mcp!DisposeBegins \/ Mcp!Dispose
  BY <1>5, ListsKeeps, ConnectFailsKeeps, FinishKeeps, DisposeBeginsKeeps, McpDisposeKeeps
<1>6. CASE UNCHANGED Mcp!vars
  BY <1>6, McpStutterKeeps
<1> QED
  BY <1>1, <1>2, <1>3, <1>4, <1>5, <1>6 DEF Mcp!Next

LEMMA McpInvSuffices ==
  ASSUME Apart, McpInv
  PROVE  Mcp!ConnectionsHold
<1>1. Mcp!TypeOK
  BY DEF McpInv, CurInv, HeldInv, ConnsInv, Mcp!TypeOK
<1>2. Mcp!SettledAsStored
  BY DEF McpInv, RestInv, IsAs, Mcp!SettledAsStored
<1>3. Mcp!TransportsAreHeld
  BY DEF McpInv, McpTyped, CurInv, HeldInv, Mcp!TransportsAreHeld
<1> QED
  BY <1>1, <1>2, <1>3 DEF Mcp!ConnectionsHold

(* When no refresh is left, the servers are connected as the settings say,   *)
(* the world was told so, and no transport is left over, whatever was saved, *)
(* failed or exited on the way (refreshFromSettings, refreshMcpRuntime).     *)
THEOREM ServersAreAsStored ==
  ASSUME Numbered, Apart
  PROVE  PartsSpec => []ConnectionsHold
<1> DEFINE Inv == part = "mcp" => McpInv
<1>1. PartsInit => Inv
  BY McpBegins DEF PartsInit
<1>2. Inv /\ [PartsNext]_<<part, vars, mcpVars, commandVars>> => Inv'
  <2> SUFFICES ASSUME Inv, [PartsNext]_<<part, vars, mcpVars, commandVars>>, part' = "mcp"
               PROVE  McpInv'
    OBVIOUS
  <2>1. part = "mcp" /\ [Mcp!Next]_(Mcp!vars)
    BY DEF PartsNext, mcpVars, Mcp!vars
  <2> QED
    BY <2>1, McpInductive
<1>3. Inv => ConnectionsHold
  BY McpInvSuffices DEF ConnectionsHold
<1> QED
  BY <1>1, <1>2, <1>3, PTL DEF PartsSpec

--------------------------------------------------------------------------------
(* Commands: what their handles and records are.                            *)

CommandHandles == [status : {"running", "exited", "killed"}, registered : BOOLEAN, suppress : BOOLEAN,
            dirty : BOOLEAN, timer : BOOLEAN]
CommandRecords == [status : {"running", "exited", "killed"}, fresh : BOOLEAN, printed : Nat]

\* What stands for none is no window, handle or record.
NoneIsApart == None \notin Hosts /\ None \notin CommandHandles /\ None \notin CommandRecords

--------------------------------------------------------------------------------
(* The inductive invariant.                                                *)

CommandTyped ==
  /\ owner \in [Procs -> Hosts \cup {None}]
  /\ phase \in [Procs -> {"new", "foreground", "background", "completed"}]
  /\ child \in [Procs -> {"none", "runs", "failed", "closed", "lost"}]
  /\ handle \in [Procs -> CommandHandles \cup {None}] /\ record \in [Procs -> CommandRecords \cup {None}]
  /\ printed \in [Procs -> Nat] /\ told \in [Procs -> Nat]
  /\ consumed \in [Procs -> Nat] /\ seen \in [Procs -> Nat]

\* A command has a handle and a record only when it went to the background, and a handle as long
\* as its end may still be heard of.
StageInv(p) ==
  /\ phase[p] = "new" <=> owner[p] = None
  /\ phase[p] = "new" => child[p] = "none"
  /\ phase[p] = "foreground" => child[p] = "runs"
  /\ phase[p] # "background" => handle[p] = None /\ record[p] = None
  /\ phase[p] = "background" /\ child[p] \in {"runs", "failed"} => handle[p] # None
  /\ handle[p] # None /\ handle[p].status = "running" => child[p] = "runs"

\* What is saved or given out was printed.
AmountInv(p) ==
  /\ seen[p] <= printed[p]
  /\ record[p] # None => record[p].printed <= printed[p]

\* Only commands that were killed are no longer saved.
KilledInv(p) == handle[p] # None /\ handle[p].suppress => p \in killed

\* A record that is missing will be tried again.
RetainedInv(p) ==
  p \notin killed \cup lapsed /\ phase[p] = "background" /\ consumed[p] = 0 =>
     record[p] # None \/ (handle[p] # None /\ handle[p].registered /\ handle[p].dirty)

\* A record that is short of the output will be tried again.
WholeInv(p) ==
  p \notin killed \cup lapsed /\ child[p] = "closed" /\ record[p] # None
     /\ (handle[p] = None \/ ~handle[p].dirty) => record[p].printed = printed[p]

ProcInv(p) == StageInv(p) /\ AmountInv(p) /\ KilledInv(p) /\ RetainedInv(p) /\ WholeInv(p)

CommandInv == CommandTyped /\ \A p \in Procs : ProcInv(p)

\* What ReportsHoldStep says of one command.
ReportStep(p) ==
  /\ told'[p] # told[p] => told[p] = 0 /\ (handle[p] # None => handle[p].status # "killed")
  /\ record[p] = None /\ handle[p] # None /\ handle[p].suppress => record'[p] = None
  /\ p \notin killed \cup lapsed /\ consumed'[p] > consumed[p] /\ child[p] = "closed"
       /\ (handle[p] = None \/ ~handle[p].dirty) => seen'[p] = printed[p]

\* A step keeps the invariant of command p and reports of it as it should.
Kept(p) == ProcInv(p)' /\ ReportStep(p)

\* A step of another command.
Same(q) ==
  /\ owner'[q] = owner[q] /\ phase'[q] = phase[q] /\ child'[q] = child[q]
  /\ printed'[q] = printed[q] /\ handle'[q] = handle[q] /\ record'[q] = record[q]
  /\ told'[q] = told[q] /\ consumed'[q] = consumed[q] /\ seen'[q] = seen[q]
  /\ (q \in killed' <=> q \in killed) /\ (q \in lapsed' <=> q \in lapsed)

LEMMA SameKeeps ==
  ASSUME NEW q \in Procs, CommandTyped, ProcInv(q), Same(q)
  PROVE  Kept(q)
<1>1. ProcInv(q)'
  BY DEF ProcInv, StageInv, AmountInv, KilledInv, RetainedInv, WholeInv, Same
<1>2. consumed[q] \in Nat
  BY DEF CommandTyped
<1>3. ~(consumed'[q] > consumed[q])
  BY <1>2 DEF Same
<1> QED
  BY <1>1, <1>3 DEF Kept, ReportStep, Same

--------------------------------------------------------------------------------
(* Saving.                                                                  *)

\* What an attempt to save handle h leaves of command p.
Attempted(p, h, out) ==
  /\ handle'[p] \in CommandHandles /\ handle'[p].status = h.status
  /\ handle'[p].registered = h.registered /\ handle'[p].suppress = h.suppress
  /\ \/ h.suppress /\ record'[p] = record[p]
     \/ /\ ~h.suppress /\ ~handle'[p].dirty
        /\ record'[p] = [status |-> h.status, fresh |-> TRUE, printed |-> out]
     \/ ~h.suppress /\ record'[p] = record[p] /\ handle'[p].dirty

\* It is one of three things, and of command p only.
LEMMA PersistAttempts ==
  ASSUME NoneIsApart, CommandTyped, NEW p \in Procs, NEW h \in CommandHandles, NEW out \in Nat, Command!Persist(p, h, out)
  PROVE  /\ handle' \in [Procs -> CommandHandles \cup {None}] /\ record' \in [Procs -> CommandRecords \cup {None}]
         /\ Attempted(p, h, out)
         /\ \A q \in Procs \ {p} : handle'[q] = handle[q] /\ record'[q] = record[q]
<1> DEFINE silent == [h EXCEPT !.timer = FALSE]
           done == [h EXCEPT !.timer = FALSE, !.dirty = FALSE]
           again == [h EXCEPT !.timer = FALSE, !.dirty = TRUE]
           saved == [status |-> h.status, fresh |-> TRUE, printed |-> out]
<1>1. silent \in CommandHandles /\ done \in CommandHandles /\ again \in CommandHandles /\ saved \in CommandRecords
  BY DEF CommandHandles, CommandRecords
<1>2. /\ silent.status = h.status /\ silent.registered = h.registered /\ silent.suppress = h.suppress
      /\ done.status = h.status /\ done.registered = h.registered /\ done.suppress = h.suppress /\ ~done.dirty
      /\ again.status = h.status /\ again.registered = h.registered /\ again.suppress = h.suppress
      /\ again.dirty
  BY DEF CommandHandles
<1>3. \/ h.suppress /\ handle' = [handle EXCEPT ![p] = silent] /\ record' = record
      \/ ~h.suppress /\ handle' = [handle EXCEPT ![p] = done] /\ record' = [record EXCEPT ![p] = saved]
      \/ ~h.suppress /\ handle' = [handle EXCEPT ![p] = again] /\ record' = record
  BY DEF Command!Persist, Command!Silent
<1> HIDE DEF silent, done, again
<1>4. handle' \in [Procs -> CommandHandles \cup {None}] /\ record' \in [Procs -> CommandRecords \cup {None}]
  <2>1. handle \in [Procs -> CommandHandles \cup {None}] /\ record \in [Procs -> CommandRecords \cup {None}]
    BY DEF CommandTyped
  <2> HIDE DEF saved
  <2>2. handle' \in [Procs -> CommandHandles \cup {None}]
    BY <1>1, <1>3, <2>1
  <2>3. record' \in [Procs -> CommandRecords \cup {None}]
    BY <1>1, <1>3, <2>1
  <2> QED
    BY <2>2, <2>3
<1>5. Attempted(p, h, out)
  BY <1>1, <1>2, <1>3 DEF CommandTyped, Attempted
<1>6. \A q \in Procs \ {p} : handle'[q] = handle[q] /\ record'[q] = record[q]
  BY <1>3 DEF CommandTyped
<1> QED
  BY <1>4, <1>5, <1>6

--------------------------------------------------------------------------------
(* One lemma per action.                                                    *)

LEMMA StartKeeps ==
  ASSUME NoneIsApart, CommandInv, NEW w \in Hosts, NEW p \in Procs, Command!Start(w, p)
  PROVE  CommandTyped' /\ \A q \in Procs : Kept(q)
<1> USE DEF CommandInv
<1>1. CommandTyped'
  BY DEF CommandTyped, Command!Start
<1>2. \A q \in Procs \ {p} : Same(q)
  BY DEF CommandTyped, Command!Start, Same
<1>3. Kept(p)
  BY DEF CommandTyped, Command!Start, NoneIsApart, Kept, ReportStep,
         ProcInv, StageInv, AmountInv, KilledInv, RetainedInv, WholeInv
<1> QED
  BY <1>1, <1>2, <1>3, SameKeeps

\* An attempt to save a handle keeps the invariant, whatever else is true of the command.
LEMMA AttemptKeeps ==
  ASSUME NoneIsApart, CommandTyped, NEW p \in Procs, ProcInv(p), NEW h \in CommandHandles,
         Attempted(p, h, printed[p]), phase'[p] = "background", owner'[p] # None,
         handle[p] = None => phase[p] = "foreground" /\ h.registered /\ ~h.suppress,
         handle[p] # None => /\ h.registered = handle[p].registered
                             /\ h.suppress = handle[p].suppress,
         h.status = "running" => child'[p] = "runs",
         printed'[p] = printed[p], consumed'[p] = consumed[p], seen'[p] = seen[p],
         killed' = killed, lapsed' = lapsed
  PROVE  ProcInv(p)' /\ (record[p] = None /\ handle[p] # None /\ handle[p].suppress => record'[p] = None)
<1>1. printed[p] \in Nat /\ consumed[p] \in Nat
  BY DEF CommandTyped
<1>2. phase[p] # "background" => record[p] = None /\ handle[p] = None
  BY DEF ProcInv, StageInv
<1>3. handle'[p] # None /\ handle'[p] \in CommandHandles
  BY DEF Attempted, NoneIsApart
<1>4. StageInv(p)'
  BY <1>3 DEF StageInv, Attempted
<1>5. AmountInv(p)'
  BY <1>1 DEF ProcInv, AmountInv, Attempted
<1>6. KilledInv(p)'
  BY <1>3 DEF ProcInv, KilledInv, Attempted
<1>7. RetainedInv(p)'
  <2> SUFFICES ASSUME p \notin killed \cup lapsed, consumed[p] = 0, record'[p] = None
               PROVE  handle'[p].registered /\ handle'[p].dirty
    BY <1>3 DEF RetainedInv
  <2>1. ~h.suppress
    BY DEF ProcInv, KilledInv
  <2>2. record'[p] = record[p] /\ handle'[p].dirty
    <3>1. [status |-> h.status, fresh |-> TRUE, printed |-> printed[p]] \in CommandRecords
      BY <1>1 DEF CommandHandles, CommandRecords
    <3> QED
      BY <2>1, <3>1 DEF Attempted, NoneIsApart
  <2>3. h.registered
    BY <1>2, <2>2 DEF ProcInv, RetainedInv, CommandTyped
  <2> QED
    BY <2>2, <2>3 DEF Attempted
<1>8. WholeInv(p)'
  <2> SUFFICES ASSUME p \notin killed \cup lapsed, ~handle'[p].dirty
               PROVE  record'[p].printed = printed[p]
    BY <1>3 DEF WholeInv
  <2>1. ~h.suppress
    BY DEF ProcInv, KilledInv
  <2> QED
    BY <2>1 DEF Attempted
<1>9. record[p] = None /\ handle[p] # None /\ handle[p].suppress => record'[p] = None
  BY DEF Attempted
<1> QED
  BY <1>4, <1>5, <1>6, <1>7, <1>8, <1>9 DEF ProcInv

LEMMA MoveToBackgroundKeeps ==
  ASSUME NoneIsApart, CommandInv, NEW p \in Procs, Command!MoveToBackground(p)
  PROVE  CommandTyped' /\ \A q \in Procs : Kept(q)
<1> USE DEF CommandInv
<1>0. /\ Command!Fresh \in CommandHandles /\ Command!Fresh.registered /\ ~Command!Fresh.suppress
      /\ printed[p] \in Nat /\ Command!Persist(p, Command!Fresh, printed[p])
  BY DEF CommandTyped, Command!Fresh, CommandHandles, Command!MoveToBackground, Command!First
<1>1. /\ handle' \in [Procs -> CommandHandles \cup {None}] /\ record' \in [Procs -> CommandRecords \cup {None}]
      /\ Attempted(p, Command!Fresh, printed[p])
      /\ \A q \in Procs \ {p} : handle'[q] = handle[q] /\ record'[q] = record[q]
  BY <1>0, PersistAttempts
<1>2. CommandTyped'
  BY <1>1 DEF CommandTyped, Command!MoveToBackground
<1>3. \A q \in Procs \ {p} : Same(q)
  BY <1>1 DEF CommandTyped, Command!MoveToBackground, Same
<1>4. /\ phase'[p] = "background" /\ phase[p] = "foreground" /\ owner'[p] # None
      /\ handle[p] = None /\ child'[p] = "runs"
  BY DEF CommandTyped, Command!MoveToBackground, Command!Unsettled, ProcInv, StageInv
<1>5. Kept(p)
  <2>1. ProcInv(p)'
    BY <1>0, <1>1, <1>4, AttemptKeeps DEF Command!MoveToBackground
  <2>2. consumed[p] \in Nat
    BY DEF CommandTyped
  <2> QED
    BY <1>4, <2>1, <2>2 DEF Kept, ReportStep, Command!MoveToBackground
<1> QED
  BY <1>2, <1>3, <1>5, SameKeeps

LEMMA PrintsKeeps ==
  ASSUME NoneIsApart, CommandInv, NEW p \in Procs, Command!Prints(p)
  PROVE  CommandTyped' /\ \A q \in Procs : Kept(q)
<1> USE DEF CommandInv
<1>1. /\ handle'[p] \in CommandHandles \cup {None} /\ (handle'[p] = None <=> handle[p] = None)
      /\ handle[p] # None => /\ handle'[p].status = handle[p].status
                             /\ handle'[p].registered = handle[p].registered
                             /\ handle'[p].suppress = handle[p].suppress
                             /\ handle'[p].dirty = handle[p].dirty
      /\ handle' \in [Procs -> CommandHandles \cup {None}]
      /\ \A q \in Procs \ {p} : handle'[q] = handle[q]
  <2>1. CASE handle' = handle
    BY <2>1 DEF CommandTyped
  <2>2. CASE handle[p] # None /\ handle' = [handle EXCEPT ![p].timer = TRUE]
    <3> DEFINE g == [handle[p] EXCEPT !.timer = TRUE]
    <3>1. g \in CommandHandles /\ g.status = handle[p].status /\ g.registered = handle[p].registered
          /\ g.suppress = handle[p].suppress /\ g.dirty = handle[p].dirty
      BY <2>2 DEF CommandTyped, CommandHandles
    <3>2. handle' = [handle EXCEPT ![p] = g]
      BY <2>2
    <3> HIDE DEF g
    <3>3. handle \in [Procs -> CommandHandles \cup {None}]
      BY DEF CommandTyped
    <3> QED
      BY <3>1, <3>2, <3>3, <2>2 DEF NoneIsApart
  <2> QED
    BY <2>1, <2>2 DEF Command!Prints
<1>2. printed'[p] = printed[p] + 1 /\ printed[p] \in Nat /\ printed' \in [Procs -> Nat]
      /\ \A q \in Procs \ {p} : printed'[q] = printed[q]
  BY DEF CommandTyped, Command!Prints
<1>3. CommandTyped'
  BY <1>1, <1>2 DEF CommandTyped, Command!Prints
<1>4. \A q \in Procs \ {p} : Same(q)
  BY <1>1, <1>2 DEF Command!Prints, Same
<1>5. ProcInv(p)'
  <2>1. seen[p] \in Nat /\ (record[p] # None => record[p].printed \in Nat)
    BY DEF CommandTyped, CommandRecords
  <2>2. AmountInv(p)'
    BY <1>2, <2>1 DEF ProcInv, AmountInv, Command!Prints
  <2>3. StageInv(p)'
    BY <1>1 DEF ProcInv, StageInv, Command!Prints
  <2>4. KilledInv(p)' /\ RetainedInv(p)' /\ WholeInv(p)'
    BY <1>1 DEF ProcInv, KilledInv, RetainedInv, WholeInv, Command!Prints
  <2> QED
    BY <2>2, <2>3, <2>4 DEF ProcInv
<1>6. consumed[p] \in Nat
  BY DEF CommandTyped
<1>7. Kept(p)
  BY <1>5, <1>6 DEF Kept, ReportStep, Command!Prints
<1> QED
  BY <1>3, <1>4, <1>7, SameKeeps

\* The handle is saved as it is.
LEMMA SaveKeeps ==
  ASSUME NoneIsApart, CommandInv, NEW p \in Procs, handle[p] # None, Command!Persist(p, handle[p], printed[p]),
         UNCHANGED <<owner, phase, child, printed, told, consumed, seen, killed, lapsed>>
  PROVE  CommandTyped' /\ \A q \in Procs : Kept(q)
<1> USE DEF CommandInv
<1>0. handle[p] \in CommandHandles /\ printed[p] \in Nat
  BY DEF CommandTyped
<1>1. /\ handle' \in [Procs -> CommandHandles \cup {None}] /\ record' \in [Procs -> CommandRecords \cup {None}]
      /\ Attempted(p, handle[p], printed[p])
      /\ \A q \in Procs \ {p} : handle'[q] = handle[q] /\ record'[q] = record[q]
  BY <1>0, PersistAttempts
<1>2. CommandTyped'
  BY <1>1 DEF CommandTyped
<1>3. \A q \in Procs \ {p} : Same(q)
  BY <1>1 DEF Same
<1>4. phase[p] = "background" /\ owner[p] # None /\ (handle[p].status = "running" => child[p] = "runs")
  BY DEF CommandTyped, ProcInv, StageInv
<1>5. Kept(p)
  <2>1. ProcInv(p)' /\ (record[p] = None /\ handle[p] # None /\ handle[p].suppress => record'[p] = None)
    BY <1>0, <1>1, <1>4, AttemptKeeps
  <2>2. consumed[p] \in Nat
    BY DEF CommandTyped
  <2> QED
    BY <2>1, <2>2 DEF Kept, ReportStep
<1> QED
  BY <1>2, <1>3, <1>5, SameKeeps

LEMMA PersistTimerKeeps ==
  ASSUME NoneIsApart, CommandInv, NEW p \in Procs, Command!PersistTimer(p)
  PROVE  CommandTyped' /\ \A q \in Procs : Kept(q)
BY SaveKeeps DEF Command!PersistTimer

LEMMA HeartbeatKeeps ==
  ASSUME NoneIsApart, CommandInv, NEW p \in Procs, Command!Heartbeat(p)
  PROVE  CommandTyped' /\ \A q \in Procs : Kept(q)
BY SaveKeeps DEF Command!Heartbeat

\* The child has failed or closed.
LEMMA FinalizeKeeps ==
  ASSUME NoneIsApart, CommandInv, NEW p \in Procs, NEW c \in {"failed", "closed"},
         child[p] \in {"runs", "failed"}, phase[p] # "new",
         child' = [child EXCEPT ![p] = c], Command!Finalize(p),
         UNCHANGED <<owner, printed, consumed, seen, killed, lapsed>>
  PROVE  CommandTyped' /\ \A q \in Procs : Kept(q)
<1> USE DEF CommandInv
<1>0. consumed[p] \in Nat /\ told[p] \in Nat /\ printed[p] \in Nat
  BY DEF CommandTyped
<1>1. CASE phase[p] = "background"
  <2> DEFINE h == [handle[p] EXCEPT !.status = IF @ = "killed" THEN @ ELSE "exited"]
  <2>1. handle[p] # None /\ handle[p] \in CommandHandles
    BY <1>1 DEF CommandTyped, ProcInv, StageInv
  <2>2. h \in CommandHandles /\ h.registered = handle[p].registered /\ h.suppress = handle[p].suppress
        /\ h.status # "running" /\ (h.status = "killed" <=> handle[p].status = "killed")
    BY <2>1 DEF CommandHandles
  <2>3. Command!Persist(p, h, printed[p])
    BY <1>1 DEF Command!Finalize, Command!Ends
  <2>4. told' = [told EXCEPT ![p] = IF Command!News(p, h) THEN @ + 1 ELSE @] /\ phase' = phase
    BY <1>1 DEF Command!Finalize
  <2> HIDE DEF h
  <2>5. /\ handle' \in [Procs -> CommandHandles \cup {None}] /\ record' \in [Procs -> CommandRecords \cup {None}]
        /\ Attempted(p, h, printed[p])
        /\ \A q \in Procs \ {p} : handle'[q] = handle[q] /\ record'[q] = record[q]
    BY <1>0, <2>2, <2>3, PersistAttempts
  <2>6. CommandTyped'
    <3>1. told \in [Procs -> Nat] /\ told[p] + 1 \in Nat
      BY <1>0 DEF CommandTyped
    <3>2. told' \in [Procs -> Nat]
      BY <2>4, <3>1
    <3> QED
      BY <2>4, <2>5, <3>2 DEF CommandTyped
  <2>7. \A q \in Procs \ {p} : Same(q)
    BY <2>4, <2>5 DEF Same, CommandTyped
  <2>8. ProcInv(p)' /\ (record[p] = None /\ handle[p] # None /\ handle[p].suppress => record'[p] = None)
    <3>1. owner[p] # None
      BY <1>1 DEF ProcInv, StageInv
    <3> QED
      BY <1>1, <2>1, <2>2, <2>4, <2>5, <3>1, AttemptKeeps
  <2>9. told'[p] # told[p] => told[p] = 0 /\ handle[p].status # "killed"
    BY <2>2, <2>4 DEF Command!News, CommandTyped
  <2> QED
    BY <1>0, <2>6, <2>7, <2>8, <2>9, SameKeeps DEF Kept, ReportStep
<1>2. CASE phase[p] # "background"
  <2>1. phase' = [phase EXCEPT ![p] = "completed"] /\ UNCHANGED <<handle, record, told>>
    BY <1>2 DEF Command!Finalize
  <2>2. CommandTyped'
    BY <2>1 DEF CommandTyped
  <2>3. \A q \in Procs \ {p} : Same(q)
    BY <2>1 DEF Same, CommandTyped
  <2>4. phase'[p] = "completed" /\ child'[p] = c /\ handle[p] = None /\ record[p] = None
    BY <1>2, <2>1 DEF CommandTyped, ProcInv, StageInv
  <2>5. ProcInv(p)'
    BY <2>1, <2>4 DEF ProcInv, StageInv, AmountInv, KilledInv, RetainedInv, WholeInv
  <2> QED
    BY <1>0, <2>1, <2>2, <2>3, <2>5, SameKeeps DEF Kept, ReportStep
<1> QED
  BY <1>1, <1>2

LEMMA FailsKeeps ==
  ASSUME NoneIsApart, CommandInv, NEW p \in Procs, Command!Fails(p)
  PROVE  CommandTyped' /\ \A q \in Procs : Kept(q)
BY FinalizeKeeps DEF Command!Fails

LEMMA ClosesKeeps ==
  ASSUME NoneIsApart, CommandInv, NEW p \in Procs, Command!Closes(p)
  PROVE  CommandTyped' /\ \A q \in Procs : Kept(q)
<1>1. phase[p] # "new"
  BY DEF CommandInv, ProcInv, StageInv, Command!Closes
<1> QED
  BY <1>1, FinalizeKeeps DEF Command!Closes

\* The record is taken off the disk, or stays as r.
LEMMA DeletedLeaves ==
  ASSUME CommandTyped, NEW p \in Procs, NEW r \in CommandRecords \cup {None}, Command!Deleted(p, r)
  PROVE  /\ record' \in [Procs -> CommandRecords \cup {None}] /\ record'[p] \in {None, r}
         /\ \A q \in Procs \ {p} : record'[q] = record[q]
<1>1. record \in [Procs -> CommandRecords \cup {None}]
  BY DEF CommandTyped
<1>2. record' = [record EXCEPT ![p] = None] \/ record' = [record EXCEPT ![p] = r]
  BY DEF Command!Deleted
<1> QED
  BY <1>1, <1>2

\* What a flush makes of the record.
LEMMA FlushedFits ==
  ASSUME CommandInv, NEW p \in Procs, handle[p] \in CommandHandles, NoneIsApart
  PROVE  /\ Command!Flushed(p) \in CommandRecords \cup {None}
         /\ handle[p].suppress => Command!Flushed(p) = record[p]
         /\ ~handle[p].suppress => Command!Flushed(p).printed = printed[p]
BY DEF CommandInv, CommandTyped, Command!Flushed, CommandHandles, CommandRecords

LEMMA GivesFits ==
  ASSUME CommandTyped, NEW p \in Procs, NEW out \in Nat, Command!Gives(p, out)
  PROVE  /\ consumed' \in [Procs -> Nat] /\ seen' \in [Procs -> Nat]
         /\ consumed'[p] > 0 /\ seen'[p] = out
         /\ \A q \in Procs \ {p} : consumed'[q] = consumed[q] /\ seen'[q] = seen[q]
<1>1. consumed \in [Procs -> Nat] /\ seen \in [Procs -> Nat]
  BY DEF CommandTyped
<1>2. consumed[p] + 1 \in Nat /\ consumed[p] + 1 > 0
  BY <1>1
<1> QED
  BY <1>1, <1>2 DEF Command!Gives

LEMMA ReadOwnKeeps ==
  ASSUME NoneIsApart, CommandInv, NEW w \in Hosts, NEW p \in Procs, NEW consume \in BOOLEAN,
         Command!ReadOwn(w, p, consume)
  PROVE  CommandTyped' /\ \A q \in Procs : Kept(q)
<1> USE DEF CommandInv
<1>0. /\ handle[p] # None /\ handle[p] \in CommandHandles /\ printed[p] \in Nat
      /\ UNCHANGED <<owner, phase, child, printed, told, killed, lapsed>>
  BY DEF CommandTyped, Command!ReadOwn, Command!Registered
<1>1. CASE handle[p].status = "running" \/ ~consume
  BY <1>0, <1>1, SaveKeeps DEF Command!ReadOwn
<1>2. CASE ~(handle[p].status = "running" \/ ~consume)
  <2> DEFINE g == [handle[p] EXCEPT !.registered = FALSE, !.timer = FALSE]
  <2>1. g \in CommandHandles /\ g.status = handle[p].status /\ g.suppress = handle[p].suppress
        /\ g.dirty = handle[p].dirty
    BY <1>0 DEF CommandHandles
  <2>2. handle' = [handle EXCEPT ![p] = g] /\ Command!Deleted(p, Command!Flushed(p)) /\ Command!Gives(p, printed[p])
    BY <1>2 DEF Command!ReadOwn
  <2> HIDE DEF g
  <2>3. /\ record' \in [Procs -> CommandRecords \cup {None}] /\ record'[p] \in {None, Command!Flushed(p)}
        /\ \A q \in Procs \ {p} : record'[q] = record[q]
    BY <1>0, <2>2, FlushedFits, DeletedLeaves
  <2>4. /\ consumed' \in [Procs -> Nat] /\ seen' \in [Procs -> Nat]
        /\ consumed'[p] > 0 /\ seen'[p] = printed[p]
        /\ \A q \in Procs \ {p} : consumed'[q] = consumed[q] /\ seen'[q] = seen[q]
    BY <1>0, <2>2, GivesFits
  <2>5. handle' \in [Procs -> CommandHandles \cup {None}] /\ handle'[p] = g
        /\ \A q \in Procs \ {p} : handle'[q] = handle[q]
    BY <2>1, <2>2 DEF CommandTyped
  <2>6. CommandTyped'
    BY <1>0, <2>3, <2>4, <2>5 DEF CommandTyped
  <2>7. \A q \in Procs \ {p} : Same(q)
    BY <1>0, <2>3, <2>4, <2>5 DEF Same
  <2>8. /\ handle[p].suppress => record'[p] \in {None, record[p]}
        /\ ~handle[p].suppress => record'[p] = None \/ record'[p].printed = printed[p]
    BY <1>0, <2>3, FlushedFits
  <2>9. phase[p] = "background"
    BY <1>0 DEF CommandTyped, ProcInv, StageInv
  <2>10. StageInv(p)'
    BY <1>0, <1>2, <2>1, <2>5, <2>9 DEF ProcInv, StageInv, NoneIsApart
  <2>11. AmountInv(p)'
    BY <1>0, <2>4, <2>8 DEF ProcInv, AmountInv
  <2>12. KilledInv(p)'
    BY <1>0, <2>1, <2>5 DEF ProcInv, KilledInv
  <2>13. RetainedInv(p)'
    BY <2>4 DEF RetainedInv
  <2>14. WholeInv(p)'
    BY <1>0, <2>1, <2>5, <2>8 DEF ProcInv, KilledInv, WholeInv
  <2>15. ReportStep(p)
    BY <1>0, <2>4, <2>8 DEF ReportStep
  <2>16. Kept(p)
    BY <2>10, <2>11, <2>12, <2>13, <2>14, <2>15 DEF Kept, ProcInv
  <2> QED
    BY <2>6, <2>7, <2>16, SameKeeps
<1> QED
  BY <1>1, <1>2

\* What another window makes of a record.
LEMMA NormalFits ==
  ASSUME CommandInv, NEW w, NEW p \in Procs, record[p] # None
  PROVE  Command!Normal(w, p) \in CommandRecords /\ Command!Normal(w, p).printed = record[p].printed
<1>1. record[p] \in CommandRecords
  BY DEF CommandInv, CommandTyped
<1> DEFINE r == [record[p] EXCEPT !.status = "exited"]
<1>2. r \in CommandRecords /\ r.printed = record[p].printed
  BY <1>1 DEF CommandRecords
<1>3. Command!Normal(w, p) \in {r, record[p]}
  BY DEF Command!Normal
<1> QED
  BY <1>1, <1>2, <1>3

\* A step that only changes the record to nothing or to one of the same output.
LEMMA RecordKeeps ==
  ASSUME NoneIsApart, CommandInv, NEW p \in Procs, NEW r \in CommandRecords, record[p] # None,
         r.printed = record[p].printed,
         record'[p] \in {None, r}, UNCHANGED <<owner, phase, child, printed, handle, told>>,
         lapsed \subseteq lapsed', killed \subseteq killed',
         record'[p] = None => p \in killed' \/ consumed'[p] > 0,
         \/ consumed'[p] = consumed[p] /\ seen'[p] = seen[p]
         \/ consumed'[p] > 0 /\ seen'[p] = record[p].printed
  PROVE  Kept(p)
<1> USE DEF CommandInv
<1>1. StageInv(p)'
  BY DEF ProcInv, StageInv
<1>2. AmountInv(p)'
  BY DEF ProcInv, AmountInv
<1>3. KilledInv(p)'
  BY DEF ProcInv, KilledInv
<1>4. RetainedInv(p)'
  BY DEF RetainedInv, NoneIsApart
<1>5. WholeInv(p)'
  BY DEF ProcInv, WholeInv
<1>6. ReportStep(p)
  <2>1. consumed[p] \in Nat
    BY DEF CommandTyped
  <2> QED
    BY <2>1 DEF ProcInv, WholeInv, ReportStep
<1> QED
  BY <1>1, <1>2, <1>3, <1>4, <1>5, <1>6 DEF Kept, ProcInv

LEMMA ReadOtherKeeps ==
  ASSUME NoneIsApart, CommandInv, NEW w \in Hosts, NEW p \in Procs, NEW consume \in BOOLEAN,
         Command!ReadOther(w, p, consume)
  PROVE  CommandTyped' /\ \A q \in Procs : Kept(q)
<1> USE DEF CommandInv
<1>0. /\ record[p] # None /\ record[p].printed \in Nat
      /\ UNCHANGED <<owner, phase, child, printed, handle, told, killed, lapsed>>
      /\ record \in [Procs -> CommandRecords \cup {None}]
  BY DEF CommandTyped, Command!ReadOther, CommandRecords
<1>1. Command!Normal(w, p) \in CommandRecords /\ Command!Normal(w, p).printed = record[p].printed
  BY <1>0, NormalFits
<1>2. CASE Command!Normal(w, p).status # "running" /\ consume
  <2>1. Command!Deleted(p, Command!Normal(w, p)) /\ Command!Gives(p, record[p].printed)
    BY <1>2 DEF Command!ReadOther
  <2>2. /\ record' \in [Procs -> CommandRecords \cup {None}] /\ record'[p] \in {None, Command!Normal(w, p)}
        /\ \A q \in Procs \ {p} : record'[q] = record[q]
    BY <1>1, <2>1, DeletedLeaves
  <2>3. /\ consumed' \in [Procs -> Nat] /\ seen' \in [Procs -> Nat]
        /\ consumed'[p] > 0 /\ seen'[p] = record[p].printed
        /\ \A q \in Procs \ {p} : consumed'[q] = consumed[q] /\ seen'[q] = seen[q]
    BY <1>0, <2>1, GivesFits
  <2>4. CommandTyped'
    BY <1>0, <2>2, <2>3 DEF CommandTyped
  <2>5. \A q \in Procs \ {p} : Same(q)
    BY <1>0, <2>2, <2>3 DEF Same
  <2>6. Kept(p)
    BY <1>0, <1>1, <2>2, <2>3, RecordKeeps
  <2> QED
    BY <2>4, <2>5, <2>6, SameKeeps
<1>3. CASE ~(Command!Normal(w, p).status # "running" /\ consume)
  <2>1. record' = [record EXCEPT ![p] = Command!Normal(w, p)] /\ UNCHANGED <<consumed, seen>>
    BY <1>3 DEF Command!ReadOther
  <2>2. /\ record' \in [Procs -> CommandRecords \cup {None}] /\ record'[p] = Command!Normal(w, p)
        /\ \A q \in Procs \ {p} : record'[q] = record[q]
    BY <1>0, <1>1, <2>1
  <2>3. CommandTyped'
    BY <1>0, <2>1, <2>2 DEF CommandTyped
  <2>4. \A q \in Procs \ {p} : Same(q)
    BY <1>0, <2>1, <2>2 DEF Same
  <2>5. Kept(p)
    BY <1>0, <1>1, <2>1, <2>2, RecordKeeps DEF NoneIsApart
  <2> QED
    BY <2>3, <2>4, <2>5, SameKeeps
<1> QED
  BY <1>2, <1>3

LEMMA KillOtherKeeps ==
  ASSUME NoneIsApart, CommandInv, NEW w \in Hosts, NEW p \in Procs, Command!KillOther(w, p)
  PROVE  CommandTyped' /\ \A q \in Procs : Kept(q)
<1> USE DEF CommandInv
<1>0. /\ record[p] # None
      /\ UNCHANGED <<owner, phase, child, printed, handle, told, consumed, seen, lapsed>>
  BY DEF Command!KillOther
<1>1. Command!Normal(w, p) \in CommandRecords /\ Command!Normal(w, p).printed = record[p].printed
  BY <1>0, NormalFits
<1>2. CASE Command!Normal(w, p).status = "running"
  <2>1. UNCHANGED <<record, killed>>
    BY <1>2 DEF Command!KillOther
  <2>2. CommandTyped' /\ \A q \in Procs : Same(q)
    BY <1>0, <2>1 DEF CommandTyped, Same
  <2> QED
    BY <2>2, SameKeeps
<1>3. CASE Command!Normal(w, p).status # "running"
  <2>1. Command!Deleted(p, Command!Normal(w, p)) /\ killed' = killed \cup {p}
    BY <1>3 DEF Command!KillOther
  <2>2. /\ record' \in [Procs -> CommandRecords \cup {None}] /\ record'[p] \in {None, Command!Normal(w, p)}
        /\ \A q \in Procs \ {p} : record'[q] = record[q]
    BY <1>1, <2>1, DeletedLeaves
  <2>3. CommandTyped'
    BY <1>0, <2>2 DEF CommandTyped
  <2>4. \A q \in Procs \ {p} : Same(q)
    BY <1>0, <2>1, <2>2 DEF Same
  <2>5. Kept(p)
    BY <1>0, <1>1, <2>1, <2>2, RecordKeeps
  <2> QED
    BY <2>3, <2>4, <2>5, SameKeeps
<1> QED
  BY <1>2, <1>3

LEMMA KillOwnKeeps ==
  ASSUME NoneIsApart, CommandInv, NEW w \in Hosts, NEW p \in Procs, Command!KillOwn(w, p)
  PROVE  CommandTyped' /\ \A q \in Procs : Kept(q)
<1> USE DEF CommandInv
<1> DEFINE g == [handle[p] EXCEPT !.status = IF handle[p].status = "running" THEN "killed" ELSE @,
                             !.suppress = @ \/ handle[p].status = "running", !.timer = FALSE]
<1>0. /\ handle[p] # None /\ handle[p] \in CommandHandles /\ printed[p] \in Nat
      /\ UNCHANGED <<owner, phase, child, printed, told, consumed, seen, lapsed>>
      /\ killed' = killed \cup {p} /\ Command!Deleted(p, Command!Flushed(p))
  BY DEF CommandTyped, Command!KillOwn, Command!Registered
<1>1. g \in CommandHandles /\ g.status # "running"
  <2>1. handle[p].status \in {"running", "exited", "killed"}
    BY <1>0 DEF CommandHandles
  <2>2. (IF handle[p].status = "running" THEN "killed" ELSE handle[p].status) \in {"exited", "killed"}
    BY <2>1
  <2>3. (handle[p].suppress \/ handle[p].status = "running") \in BOOLEAN
    OBVIOUS
  <2> QED
    BY <1>0, <2>2, <2>3 DEF CommandHandles
<1>2. handle' = [handle EXCEPT ![p] = g]
  BY DEF Command!KillOwn
<1> HIDE DEF g
<1>3. /\ record' \in [Procs -> CommandRecords \cup {None}] /\ record'[p] \in {None, Command!Flushed(p)}
      /\ \A q \in Procs \ {p} : record'[q] = record[q]
  BY <1>0, FlushedFits, DeletedLeaves
<1>4. handle' \in [Procs -> CommandHandles \cup {None}] /\ handle'[p] = g
      /\ \A q \in Procs \ {p} : handle'[q] = handle[q]
  BY <1>1, <1>2 DEF CommandTyped
<1>5. CommandTyped'
  BY <1>0, <1>3, <1>4 DEF CommandTyped
<1>6. \A q \in Procs \ {p} : Same(q)
  BY <1>0, <1>3, <1>4 DEF Same
<1>7. /\ handle[p].suppress => record'[p] \in {None, record[p]}
      /\ ~handle[p].suppress => record'[p] = None \/ record'[p].printed = printed[p]
  BY <1>0, <1>3, FlushedFits
<1>8. phase[p] = "background"
  BY <1>0 DEF CommandTyped, ProcInv, StageInv
<1>9. StageInv(p)'
  BY <1>0, <1>1, <1>4, <1>8 DEF ProcInv, StageInv, NoneIsApart
<1>10. AmountInv(p)'
  BY <1>0, <1>7 DEF ProcInv, AmountInv
<1>11. KilledInv(p)' /\ RetainedInv(p)' /\ WholeInv(p)'
  BY <1>0 DEF KilledInv, RetainedInv, WholeInv
<1>12. ReportStep(p)
  <2>1. consumed[p] \in Nat
    BY DEF CommandTyped
  <2> QED
    BY <1>0, <1>7, <2>1 DEF ReportStep
<1>13. Kept(p)
  BY <1>9, <1>10, <1>11, <1>12 DEF Kept, ProcInv
<1> QED
  BY <1>5, <1>6, <1>13, SameKeeps

LEMMA LateKeeps ==
  ASSUME NoneIsApart, CommandInv, NEW p \in Procs, Command!Late(p)
  PROVE  CommandTyped' /\ \A q \in Procs : Kept(q)
<1> USE DEF CommandInv
<1> DEFINE r == [record[p] EXCEPT !.fresh = FALSE]
<1>0. /\ record[p] # None /\ record[p] \in CommandRecords
      /\ UNCHANGED <<owner, phase, child, printed, handle, told, consumed, seen, killed>>
      /\ lapsed' = lapsed \cup {p}
  BY DEF CommandTyped, Command!Late
<1>1. r \in CommandRecords /\ r.printed = record[p].printed
  BY <1>0 DEF CommandRecords
<1>2. record' = [record EXCEPT ![p] = r]
  BY DEF Command!Late
<1> HIDE DEF r
<1>3. record' \in [Procs -> CommandRecords \cup {None}] /\ record'[p] = r
      /\ \A q \in Procs \ {p} : record'[q] = record[q]
  BY <1>1, <1>2 DEF CommandTyped
<1>4. CommandTyped'
  BY <1>0, <1>3 DEF CommandTyped
<1>5. \A q \in Procs \ {p} : Same(q)
  BY <1>0, <1>3 DEF Same
<1>6. Kept(p)
  BY <1>0, <1>1, <1>3, RecordKeeps DEF NoneIsApart
<1> QED
  BY <1>4, <1>5, <1>6, SameKeeps

LEMMA CommandCrashKeeps ==
  ASSUME NoneIsApart, CommandInv, NEW w \in Hosts, Command!Crash(w)
  PROVE  CommandTyped' /\ \A q \in Procs : Kept(q)
<1> USE DEF CommandInv
<1>1. CommandTyped'
  <2>1. handle' \in [Procs -> CommandHandles \cup {None}]
    BY DEF CommandTyped, Command!Crash
  <2>2. phase' \in [Procs -> {"new", "foreground", "background", "completed"}]
    BY DEF CommandTyped, Command!Crash
  <2>3. child' \in [Procs -> {"none", "runs", "failed", "closed", "lost"}]
    BY DEF CommandTyped, Command!Crash
  <2> QED
    BY <2>1, <2>2, <2>3 DEF CommandTyped, Command!Crash
<1>2. ASSUME NEW q \in Procs PROVE Kept(q)
  <2>0. UNCHANGED <<owner, printed, record, told, consumed, seen, killed>> /\ lapsed \subseteq lapsed'
    BY DEF Command!Crash
  <2>a. consumed[q] \in Nat
    BY DEF CommandTyped
  <2>b. ReportStep(q)
    BY <2>0, <2>a DEF ReportStep
  <2>1. CASE owner[q] # w
    <3>1. phase'[q] = phase[q] /\ child'[q] = child[q] /\ handle'[q] = handle[q]
      BY <2>1 DEF Command!Crash, Command!Owned
    <3>2. ProcInv(q)'
      BY <2>0, <3>1 DEF ProcInv, StageInv, AmountInv, KilledInv, RetainedInv, WholeInv
    <3> QED
      BY <2>b, <3>2 DEF Kept
  <2>2. CASE owner[q] = w
    <3>1. /\ handle'[q] = IF phase[q] = "background" /\ handle[q] # None THEN None ELSE handle[q]
          /\ phase'[q] = IF phase[q] = "foreground" THEN "completed" ELSE phase[q]
          /\ child'[q] = IF child[q] # "closed" THEN "lost" ELSE child[q]
          /\ phase[q] = "background" /\ handle[q] # None /\ handle[q].dirty => q \in lapsed'
      BY <2>2 DEF Command!Crash, Command!Owned
    <3>2. handle'[q] = None
      BY <3>1 DEF CommandTyped, ProcInv, StageInv
    <3>3. StageInv(q)'
      BY <2>0, <2>2, <3>1, <3>2 DEF NoneIsApart, ProcInv, StageInv, CommandTyped
    <3>4. AmountInv(q)' /\ KilledInv(q)'
      BY <2>0, <3>2 DEF ProcInv, AmountInv, KilledInv
    <3>5. RetainedInv(q)'
      BY <2>0, <3>1, <3>2 DEF ProcInv, RetainedInv, StageInv, CommandTyped
    <3>6. WholeInv(q)'
      BY <2>0, <3>1, <3>2 DEF ProcInv, WholeInv, StageInv, CommandTyped
    <3> QED
      BY <2>b, <3>3, <3>4, <3>5, <3>6 DEF Kept, ProcInv
  <2> QED
    BY <2>1, <2>2
<1> QED
  BY <1>1, <1>2

LEMMA DisposeKeeps ==
  ASSUME NoneIsApart, CommandInv, NEW w \in Hosts, Command!Dispose(w)
  PROVE  CommandTyped' /\ \A q \in Procs : Kept(q)
<1> USE DEF CommandInv
<1> DEFINE mine == {p \in Procs : owner[p] = w /\
                      (phase[p] = "foreground" \/ (handle[p] # None /\ handle[p].registered))}
           now(p) == IF handle[p] = None THEN Command!Fresh ELSE handle[p]
           ended(p) == [now(p) EXCEPT !.registered = FALSE, !.timer = FALSE,
                          !.status = IF @ = "running" THEN "exited" ELSE @]
           saved(p) == [status |-> ended(p).status, fresh |-> TRUE, printed |-> printed[p]]
<1>0. UNCHANGED <<owner, child, printed, told, consumed, seen, killed, lapsed>>
  BY DEF Command!Dispose
<1>1. /\ handle' = [p \in Procs |-> IF p \in mine THEN ended(p) ELSE handle[p]]
      /\ record' = [p \in Procs |-> IF p \in mine /\ ~ended(p).suppress THEN saved(p) ELSE record[p]]
      /\ phase' = [p \in Procs |-> IF p \in mine THEN "background" ELSE phase[p]]
  BY DEF Command!Dispose
<1>2. ASSUME NEW p \in Procs
      PROVE  /\ ended(p) \in CommandHandles /\ ended(p).status # "running" /\ saved(p) \in CommandRecords
             /\ ended(p).suppress = now(p).suppress /\ now(p) \in CommandHandles /\ ended(p).dirty = now(p).dirty
             /\ saved(p).printed = printed[p] /\ printed[p] \in Nat
  <2>1. now(p) \in CommandHandles
    BY DEF CommandTyped, Command!Fresh, CommandHandles
  <2> HIDE DEF now
  <2>2. now(p).status \in {"running", "exited", "killed"}
    BY <2>1 DEF CommandHandles
  <2>3. (IF now(p).status = "running" THEN "exited" ELSE now(p).status) \in {"exited", "killed"}
    BY <2>2
  <2>4. ended(p) \in CommandHandles /\ ended(p).status \in {"exited", "killed"}
        /\ ended(p).suppress = now(p).suppress /\ ended(p).dirty = now(p).dirty
    BY <2>1, <2>3 DEF CommandHandles
  <2>5. printed[p] \in Nat
    BY DEF CommandTyped
  <2> HIDE DEF ended
  <2>6. saved(p) \in CommandRecords
    BY <2>4, <2>5 DEF CommandRecords
  <2> QED
    BY <2>1, <2>4, <2>5, <2>6
<1> HIDE DEF ended, saved
<1>3. CommandTyped'
  <2>1. handle' \in [Procs -> CommandHandles \cup {None}]
    BY <1>1, <1>2 DEF CommandTyped
  <2>2. record' \in [Procs -> CommandRecords \cup {None}]
    BY <1>1, <1>2 DEF CommandTyped
  <2>3. phase' \in [Procs -> {"new", "foreground", "background", "completed"}]
    BY <1>1 DEF CommandTyped
  <2> QED
    BY <1>0, <2>1, <2>2, <2>3 DEF CommandTyped
<1>4. ASSUME NEW q \in Procs PROVE Kept(q)
  <2>a. consumed[q] \in Nat
    BY DEF CommandTyped
  <2>1. CASE q \notin mine
    <3>1. handle'[q] = handle[q] /\ record'[q] = record[q] /\ phase'[q] = phase[q]
      BY <1>1, <2>1
    <3>2. Same(q)
      BY <1>0, <3>1 DEF Same
    <3> QED
      BY <3>2, SameKeeps
  <2>2. CASE q \in mine
    <3>1. handle'[q] = ended(q) /\ phase'[q] = "background"
      BY <1>1, <2>2
    <3>2. record'[q] = IF ~ended(q).suppress THEN saved(q) ELSE record[q]
      BY <1>1, <2>2
    <3>3. ended(q) # None /\ saved(q) # None /\ owner[q] = w /\ w # None
      BY <1>2, <2>2 DEF NoneIsApart
    <3>4. ended(q).suppress => handle[q] # None /\ handle[q].suppress /\ q \in killed
      BY <1>2 DEF Command!Fresh, ProcInv, KilledInv
    <3>5. handle[q] # None /\ handle[q].suppress => ended(q).suppress
      BY <1>2
    <3>6. StageInv(q)'
      BY <1>0, <1>2, <3>1, <3>3 DEF StageInv
    <3>7. AmountInv(q)'
      BY <1>0, <1>2, <3>2 DEF ProcInv, AmountInv
    <3>8. KilledInv(q)'
      BY <1>0, <3>1, <3>4 DEF KilledInv
    <3>9. RetainedInv(q)' /\ WholeInv(q)'
      BY <1>0, <1>2, <3>2, <3>3, <3>4 DEF RetainedInv, WholeInv
    <3>10. ReportStep(q)
      BY <1>0, <2>a, <3>2, <3>5 DEF ReportStep
    <3> QED
      BY <3>6, <3>7, <3>8, <3>9, <3>10 DEF Kept, ProcInv
  <2> QED
    BY <2>1, <2>2
<1> QED
  BY <1>3, <1>4

--------------------------------------------------------------------------------
(* The theorems.                                                            *)

LEMMA CommandBegins ==
  ASSUME NoneIsApart, Command!Init
  PROVE  CommandInv
<1>1. CommandTyped
  BY DEF Command!Init, CommandTyped
<1>2. ASSUME NEW p \in Procs PROVE ProcInv(p)
  BY DEF Command!Init, ProcInv, StageInv, AmountInv, KilledInv, RetainedInv, WholeInv
<1> QED
  BY <1>1, <1>2 DEF CommandInv

LEMMA CommandStepKeeps ==
  ASSUME NoneIsApart, CommandInv, [Command!Next]_(Command!vars)
  PROVE  CommandTyped' /\ \A q \in Procs : Kept(q)
<1>1. ASSUME NEW p \in Procs, \/ Command!MoveToBackground(p) \/ Command!Prints(p) \/ Command!PersistTimer(p) \/ Command!Heartbeat(p)
                              \/ Command!Fails(p) \/ Command!Closes(p) \/ Command!Late(p)
      PROVE  CommandTyped' /\ \A q \in Procs : Kept(q)
  BY <1>1, MoveToBackgroundKeeps, PrintsKeeps, PersistTimerKeeps, HeartbeatKeeps, FailsKeeps,
     ClosesKeeps,
     LateKeeps
<1>2. ASSUME NEW w \in Hosts, Command!Crash(w) \/ Command!Dispose(w)
      PROVE  CommandTyped' /\ \A q \in Procs : Kept(q)
  BY <1>2, CommandCrashKeeps, DisposeKeeps
<1>3. ASSUME NEW w \in Hosts, NEW p \in Procs, Command!Start(w, p) \/ Command!KillOwn(w, p) \/ Command!KillOther(w, p)
      PROVE  CommandTyped' /\ \A q \in Procs : Kept(q)
  BY <1>3, StartKeeps, KillOwnKeeps, KillOtherKeeps
<1>4. ASSUME NEW w \in Hosts, NEW p \in Procs, NEW consume \in BOOLEAN,
             Command!ReadOwn(w, p, consume) \/ Command!ReadOther(w, p, consume)
      PROVE  CommandTyped' /\ \A q \in Procs : Kept(q)
  BY <1>4, ReadOwnKeeps, ReadOtherKeeps
<1>5. CASE UNCHANGED Command!vars
  <2>1. CommandTyped' /\ \A q \in Procs : Same(q)
    BY <1>5 DEF CommandInv, CommandTyped, Same, Command!vars
  <2> QED
    BY <2>1, SameKeeps DEF CommandInv
<1> QED
  BY <1>1, <1>2, <1>3, <1>4, <1>5 DEF Command!Next

LEMMA CommandInductive ==
  ASSUME NoneIsApart, CommandInv, [Command!Next]_(Command!vars)
  PROVE  CommandInv' /\ Command!ReportsHoldStep
<1>1. CommandInv'
  BY CommandStepKeeps DEF CommandInv, Kept
<1>2. \A q \in Procs : ReportStep(q)
  BY CommandStepKeeps DEF Kept
<1>3. Command!ReportsHoldStep
  BY <1>2 DEF ReportStep, Command!ReportsHoldStep, Command!EndIsNewsStep, Command!KilledStaysGoneStep,
     Command!GivenWholeStep
<1> QED
  BY <1>1, <1>3

CommandPart == part = "commands" => CommandInv

LEMMA CommandPartKept ==
  ASSUME NoneIsApart, CommandPart, [PartsNext]_<<part, vars, mcpVars, commandVars>>
  PROVE  CommandPart' /\ (part = "commands" => Command!ReportsHoldStep)
<1>1. part' = part
  BY DEF PartsNext
<1>2. CASE part = "commands"
  <2>1. [Command!Next]_(Command!vars)
    BY <1>2 DEF PartsNext, commandVars, Command!vars
  <2>2. CommandInv' /\ Command!ReportsHoldStep
    BY <1>2, <2>1, CommandInductive DEF CommandPart
  <2> QED
    BY <2>2 DEF CommandPart
<1>3. CASE part # "commands"
  BY <1>1, <1>3 DEF CommandPart
<1> QED
  BY <1>2, <1>3

(* What a command in the background printed can be read, in its window or    *)
(* on disk, until it was read after its end or somebody killed it, whatever  *)
(* the windows do and however they end (persistHandle, disposeWindow).       *)
THEOREM OutputIsKept ==
  ASSUME NoneIsApart
  PROVE  PartsSpec => []OutputHolds
<1>1. PartsInit => CommandPart
  BY CommandBegins DEF PartsInit, CommandPart
<1>2. CommandPart /\ [PartsNext]_<<part, vars, mcpVars, commandVars>> => CommandPart'
  BY CommandPartKept
<1>3. CommandPart => OutputHolds
  BY DEF CommandPart, CommandInv, CommandTyped, ProcInv, StageInv, AmountInv, RetainedInv, OutputHolds,
     Command!OutputHolds, Command!TypeOK, Command!Retained
<1> QED
  BY <1>1, <1>2, <1>3, PTL DEF PartsSpec

(* The end of a command is told once and not when it was killed, the record  *)
(* of one that was killed is not written again, and output given out as that *)
(* of a command that has closed is all of it (notifyBackgroundExit,          *)
(* suppressPersist, flushPersist).                                           *)
THEOREM ReportsAreTrue ==
  ASSUME NoneIsApart
  PROVE  PartsSpec => ReportsHold
<1> DEFINE Step == part = "commands" => Command!ReportsHoldStep
<1>1. PartsInit => CommandPart
  BY CommandBegins DEF PartsInit, CommandPart
<1>2. CommandPart /\ [PartsNext]_<<part, vars, mcpVars, commandVars>> => CommandPart' /\ [Step]_commandVars
  BY CommandPartKept
<1> QED
  BY <1>1, <1>2, PTL DEF PartsSpec, ReportsHold
===============================================================================
