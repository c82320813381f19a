--------------------------- MODULE ClientSyncProofs ---------------------------
(* Theorems about ClientSync, for any panels and conversations and however   *)
(* much happens: a panel that has the number of a stream has its contents,   *)
(* when nothing is on its way all panels show the world, and no pass leaves  *)
(* a stream behind in anything but the rows of messages.                     *)
(* The entry of a panel, the messages on their way to it and the stream of   *)
(* the host tell one story (Linked): there is a history, a content for each  *)
(* number, of which the stream has the last one, the panel that of the       *)
(* number it knows and every message the step to its own number.             *)
EXTENDS ClientSync, FiniteSetTheorems, SequenceTheorems, TLAPS

-----------------------------------------------------------------------------
(* The world. *)

Budget == [changes : 0..MaxChanges, deltas : 0..MaxDeltas, opened : 0..MaxOpened]
WorldType ==
  /\ world \in [Streams -> Content]
  /\ active \in BOOLEAN /\ moved \subseteq {"message", "other"}
  /\ fast \in [n : [Convs -> Nat], defer : BOOLEAN, require : BOOLEAN]
  /\ budget \in Budget
\* No content has grown beyond what the bounds count.
WithinBudget ==
  \A s \in Streams : /\ world[s].t <= budget.deltas
                     /\ world[s].m <= budget.changes /\ world[s].o <= budget.changes

\* What the projection saw last is the world, but for the text that waits for the fast path
\* and for what the clocks that moved account for.
LastFits ==
  /\ last \in {None} \cup [Streams -> Content]
  /\ last # None => \A s \in Streams :
       /\ world[s].t = last[s].t + (IF s \in Convs THEN fast.n[s] ELSE 0)
       /\ "other" \notin moved => world[s].o = last[s].o
       /\ moved = {} => world[s] = last[s]
  /\ \A x \in Convs : fast.n[x] > 0 => moved # {}

WorldInv == WorldType /\ WithinBudget /\ LastFits

\* What a step spends.
LEMMA Spent ==
  ASSUME WorldType
  PROVE  /\ Spend("deltas") => /\ budget' \in Budget
                               /\ budget'.deltas = budget.deltas + 1 /\ budget'.changes = budget.changes
         /\ Spend("changes") => /\ budget' \in Budget
                                /\ budget'.changes = budget.changes + 1 /\ budget'.deltas = budget.deltas
         /\ Spend("opened") => /\ budget' \in Budget
                               /\ budget'.changes = budget.changes /\ budget'.deltas = budget.deltas
<1> USE BoundsAreNumbers DEF Budget
<1>1. CASE Spend("deltas")
  BY <1>1 DEF WorldType, Spend
<1>2. CASE Spend("changes")
  BY <1>2 DEF WorldType, Spend
<1>3. CASE Spend("opened")
  BY <1>3 DEF WorldType, Spend
<1> QED  BY <1>1, <1>2, <1>3
  
LEMMA Changed ==
  ASSUME WorldType, WithinBudget, NEW s \in Streams
  PROVE  /\ Spend("deltas") /\ Changes(s, "t", "message")
            => world' \in [Streams -> Content] /\ WithinBudget'
         /\ Spend("changes") /\ Changes(s, "m", "message")
            => world' \in [Streams -> Content] /\ WithinBudget'
         /\ Spend("changes") /\ Changes(s, "o", "other")
            => world' \in [Streams -> Content] /\ WithinBudget'
<1> USE BoundsAreNumbers DEF Content, Budget
<1>1. CASE Spend("deltas") /\ Changes(s, "t", "message")
  BY <1>1, Spent DEF WorldType, WithinBudget, Changes
<1>2. CASE Spend("changes") /\ Changes(s, "m", "message")
  BY <1>2, Spent DEF WorldType, WithinBudget, Changes
<1>3. CASE Spend("changes") /\ Changes(s, "o", "other")
  BY <1>3, Spent DEF WorldType, WithinBudget, Changes
<1> QED  BY <1>1, <1>2, <1>3

LEMMA DeltaWorld ==
  ASSUME WorldInv, NEW x \in Convs, Delta(x)
  PROVE  WorldInv'
<1>1. world' \in [Streams -> Content] /\ WithinBudget'
  BY Changed DEF WorldInv, Delta, Streams
<1>2. WorldType'
  <2>1. fast' \in [n : [Convs -> Nat], defer : BOOLEAN, require : BOOLEAN]
    <3> DEFINE counted == [fast.n EXCEPT ![x] = @ + 1]
    <3>1. counted \in [Convs -> Nat]
      BY DEF WorldInv, WorldType
    <3>2. fast' = [fast EXCEPT !.n = counted, !.defer = TRUE]
      BY DEF WorldInv, WorldType, Delta
    <3> QED  BY <3>1, <3>2 DEF WorldInv, WorldType
  <2> QED  BY <1>1, <2>1, Spent DEF WorldInv, WorldType, Delta, Changes
<1>3. LastFits'
  BY DEF WorldInv, WorldType, LastFits, Delta, Changes, Content, Streams, sync
<1> QED  BY <1>1, <1>2, <1>3 DEF WorldInv

LEMMA NoTextWorld ==
  ASSUME WorldInv, NEW x \in Convs, NoText(x)
  PROVE  WorldInv'
<1>1. world' \in [Streams -> Content] /\ WithinBudget'
  BY Changed DEF WorldInv, NoText, Streams
<1>2. WorldType'
  BY <1>1, Spent DEF WorldInv, WorldType, NoText, Changes
<1>3. LastFits'
  BY DEF WorldInv, WorldType, LastFits, NoText, Changes, Content, Streams, sync
<1> QED  BY <1>1, <1>2, <1>3 DEF WorldInv

LEMMA TurnWorld ==
  ASSUME WorldInv, NEW x \in Convs, Starts(x) \/ Ends(x)
  PROVE  WorldInv'
<1>1. world' \in [Streams -> Content] /\ WithinBudget'
  BY Changed DEF WorldInv, Starts, Ends, Streams
<1>2. WorldType'
  BY <1>1, Spent DEF WorldInv, WorldType, Starts, Ends, Changes
<1>3. LastFits'
  <2>1. Changes(x, "o", "other") /\ fast'.n = fast.n /\ last' = last /\ x \in Streams
    BY DEF WorldInv, WorldType, Starts, Ends, Streams, sync
  <2> QED  BY <2>1 DEF WorldInv, WorldType, LastFits, Changes, Content
<1> QED  BY <1>1, <1>2, <1>3 DEF WorldInv

LEMMA OtherWorld ==
  ASSUME WorldInv, NEW s \in Streams, Other(s)
  PROVE  WorldInv'
<1>1. world' \in [Streams -> Content] /\ WithinBudget'
  BY Changed DEF WorldInv, Other
<1>2. WorldType'
  BY <1>1, Spent DEF WorldInv, WorldType, Other, Changes
<1>3. LastFits'
  <2>1. CASE Changes(s, "o", "other")
    BY <2>1 DEF WorldInv, WorldType, LastFits, Other, Changes, Content, sync
  <2>2. CASE Changes(s, "m", "message")
    BY <2>2 DEF WorldInv, WorldType, LastFits, Other, Changes, Content, sync
  <2> QED  BY <2>1, <2>2 DEF Other
<1> QED  BY <1>1, <1>2, <1>3 DEF WorldInv

-----------------------------------------------------------------------------
(* A pass. *)

StreamsFit ==
  /\ streams \in [Streams -> {None} \cup Stream]
  /\ \A s \in Streams : streams[s] # None => last # None /\ streams[s].state = last[s]

LEMMA ReleasedFits ==
  ASSUME StreamsFit
  PROVE  /\ Released \in [Streams -> {None} \cup Stream]
         /\ \A s \in Streams : Released[s] # None => Released[s] = streams[s]
  BY DEF StreamsFit, Released

LEMMA FastWorld ==
  ASSUME WorldInv, StreamsFit, Fast, UNCHANGED <<world, active, budget>>
  PROVE  WorldInv' /\ StreamsFit' /\ NobodyStarvesStep /\ last' \in [Streams -> Content]
<1> DEFINE added == [s \in Streams |-> IF s \in Convs THEN [last[s] EXCEPT !.t = @ + fast.n[s]] ELSE last[s]]
<1>1. last # None /\ last \in [Streams -> Content] /\ "other" \notin moved /\ last' = added
  BY DEF Fast, TakesFastPath, OnlyText, WorldInv, LastFits
<1>2. \A s \in Streams : /\ added[s] \in Content /\ added[s].t = world[s].t
                         /\ added[s].o = world[s].o /\ added[s].m = last[s].m
  BY <1>1, BoundsAreNumbers DEF WorldInv, WorldType, LastFits, Content
<1>3. /\ fast'.n = [x \in Convs |-> 0] /\ fast'.defer = fast.defer /\ fast'.require = fast.require
      /\ fast' \in [n : [Convs -> Nat], defer : BOOLEAN, require : BOOLEAN]
      /\ moved' = moved
  BY DEF Fast, WorldInv, WorldType
<1>4. moved # {}
  BY DEF Fast, TakesFastPath, HasPatches, WorldInv, LastFits
<1> HIDE DEF added
<1>5. last' \in [Streams -> Content]
  BY <1>1, <1>2 DEF added
<1>6. WorldInv'
  <2>1. WorldType' /\ WithinBudget'
    BY <1>3 DEF WorldInv, WorldType, WithinBudget
  <2>2. \A s \in Streams : world[s].t = added[s].t + (IF s \in Convs THEN fast'.n[s] ELSE 0)
    BY <1>2, <1>3, BoundsAreNumbers DEF Content
  <2>3. LastFits'
    BY <1>1, <1>2, <1>3, <1>4, <1>5, <2>2 DEF LastFits
  <2> QED  BY <2>1, <2>3 DEF WorldInv
<1>7. \A s \in Streams : streams'[s] # None => streams'[s].state = added[s] /\ streams'[s] \in Stream
  <2> TAKE s \in Streams
  <2> HAVE streams'[s] # None
  <2>1. Released[s] # None /\ Released[s] \in Stream /\ Released[s].state = last[s]
    BY NoneIsApart, ReleasedFits DEF Fast, StreamsFit
  <2>2. CASE s \in Convs /\ fast.n[s] > 0
    <3>1. streams'[s] = [seq |-> Released[s].seq + 1, state |-> [Released[s].state EXCEPT !.t = @ + fast.n[s]]]
      BY <2>1, <2>2 DEF Fast
    <3>2. added[s] = [last[s] EXCEPT !.t = @ + fast.n[s]]
      BY <2>2 DEF added
    <3> QED  BY <2>1, <3>1, <3>2, <1>2 DEF Stream
  <2>3. CASE ~(s \in Convs /\ fast.n[s] > 0)
    <3>1. streams'[s] = Released[s]
      BY <2>3 DEF Fast
    <3>2. added[s] = last[s]
      BY <2>3, <1>1 DEF added, WorldInv, WorldType, Content
    <3> QED  BY <2>1, <3>1, <3>2
  <2> QED  BY <2>2, <2>3
<1>8. StreamsFit'
  BY <1>1, <1>5, <1>7, NoneIsApart DEF StreamsFit, Fast
<1>9. NobodyStarvesStep
  BY <1>7, <1>2 DEF NobodyStarvesStep
<1> QED  BY <1>5, <1>6, <1>8, <1>9

LEMMA FullWorld ==
  ASSUME WorldInv, StreamsFit, Full, UNCHANGED <<world, active, budget>>
  PROVE  WorldInv' /\ StreamsFit' /\ NobodyStarvesStep
<1>1. /\ last' = world /\ moved' = {} /\ world \in [Streams -> Content] /\ world # None
      /\ fast' = [n |-> [x \in Convs |-> 0], defer |-> FALSE, require |-> FALSE]
  BY NoneIsApart DEF Full, ClearedFast, WorldInv, WorldType
<1>2. WorldInv'
  <2>1. WorldType' /\ WithinBudget'
    BY <1>1 DEF WorldInv, WorldType, WithinBudget
  <2>2. \A s \in Streams : world[s].t = world[s].t + (IF s \in Convs THEN fast'.n[s] ELSE 0)
    BY <1>1, BoundsAreNumbers DEF Content
  <2>3. LastFits'
    BY <1>1, <2>2 DEF LastFits
  <2> QED  BY <2>1, <2>3 DEF WorldInv
<1>3. \A s \in Streams : streams'[s] # None => streams'[s].state = world[s] /\ streams'[s] \in Stream
  <2> TAKE s \in Streams
  <2> HAVE streams'[s] # None
  <2> DEFINE seq == IF Released[s] = None THEN 0 ELSE Released[s].seq
  <2>1. seq \in Nat /\ (Released[s] # None => Released[s] \in Stream /\ Released[s].state = last[s] /\ last # None)
    BY NoneIsApart, ReleasedFits DEF StreamsFit, Stream
  <2>2. CASE streams'[s] = [seq |-> seq + 1, state |-> world[s]]
    BY <2>1, <2>2, <1>1 DEF Stream
  <2>3. CASE streams'[s] = Released[s]
    <3>1. Released[s].state = world[s] \/ moved = {}
      BY <2>1, <2>3 DEF Full
    <3> QED  BY <3>1, <2>1, <2>3 DEF WorldInv, LastFits
  <2> QED  BY <2>2, <2>3 DEF Full
<1>4. StreamsFit'
  BY <1>1, <1>3, NoneIsApart DEF StreamsFit, Full
<1>5. NobodyStarvesStep
  BY <1>3 DEF NobodyStarvesStep
<1> QED  BY <1>2, <1>4, <1>5

LEMMA IdleWorld ==
  ASSUME WorldInv, StreamsFit, Idle, UNCHANGED <<world, active, budget>>
  PROVE  WorldInv' /\ StreamsFit' /\ NobodyStarvesStep
<1>1. /\ UNCHANGED <<last, fast, moved>> /\ moved = {} /\ last # None
      /\ streams' = Released
  BY DEF Idle, Skips
<1>2. WorldInv'
  BY <1>1 DEF WorldInv, WorldType, WithinBudget, LastFits
<1>3. StreamsFit'
  BY <1>1, ReleasedFits DEF StreamsFit
<1>4. NobodyStarvesStep
  BY <1>1, <1>3 DEF NobodyStarvesStep, StreamsFit, WorldInv, LastFits
<1> QED  BY <1>2, <1>3, <1>4

-----------------------------------------------------------------------------
(* What a panel keeps of a stream. *)

Entry == [seq : Nat, state : Content, batch : {None} \cup Batch, has : BOOLEAN]
Hello == [kind : {"hello"}, s : {None}]
Update == [kind : {"snapshot", "patch"}, s : Streams, seq : Nat \ {0}, add : Nat, state : Content \cup {None}]
Message == Hello \cup Update

\* What waits for the frame is newer than what is shown.
EntryFits(e) == e \in Entry /\ (e.batch # None => e.seq < e.batch.seq)

\* A number that is known, a message that is true of the history h of its stream.
HoldsAt(h, m) ==
  /\ IF m.state = None THEN m.kind = "patch" /\ h[m.seq] = Add(h[m.seq - 1], m)
     ELSE m.add = 0 /\ h[m.seq] = m.state
  /\ m.kind = "patch" => m.seq > 1

\* Every number after k is on its way.
Covered(q, s, k, st) == \A n \in Nat : k < n /\ n <= st.seq => \E i \in DOMAIN q : q[i].s = s /\ q[i].seq = n

\* The messages of stream s on their way in q follow each other up to the number of the
\* stream, and follow the number k that the panel knows.
Channel(q, s, k, st) ==
  /\ \A i, j \in DOMAIN q : i < j /\ q[i].s = s /\ q[j].s = s => q[i].seq < q[j].seq
  /\ \A i \in DOMAIN q : q[i].s = s => /\ st # None /\ k < q[i].seq /\ q[i].seq <= st.seq
                                       /\ Covered(q, s, q[i].seq, st)
  /\ k > 0 => st # None /\ k <= st.seq /\ Covered(q, s, k, st)

Told(h, q, s, e, st) ==
  /\ st # None => h[st.seq] = st.state
  /\ \A i \in DOMAIN q : q[i].s = s => HoldsAt(h, q[i])
  /\ Known(e) > 0 => Pending(e) = h[Known(e)]

\* The panel, the messages on their way to it and the stream tell one story.
Linked(q, s, e, st) ==
  Channel(q, s, Known(e), st) /\ \E h \in [Nat -> Content] : Told(h, q, s, e, st)

NothingOf(q, s) == \A i \in DOMAIN q : q[i].s # s

LEMMA KnownIs ==
  ASSUME NEW e, EntryFits(e)
  PROVE  Known(e) \in Nat /\ e.seq <= Known(e)
  BY NoneIsApart DEF EntryFits, Entry, Batch, Known

LEMMA AddIs ==
  ASSUME NEW x \in Content, NEW b, b.add \in Nat, b.state \in Content \cup {None}
  PROVE  /\ b.state = None => Add(x, b) = [t |-> x.t + b.add, m |-> x.m, o |-> x.o]
         /\ b.state # None => Add(x, b) = [t |-> b.state.t + b.add, m |-> b.state.m, o |-> b.state.o]
  BY DEF Add, Content

LEMMA ContentIs ==
  ASSUME NEW x \in Content, NEW more, more = 0
  PROVE  x = [t |-> x.t + more, m |-> x.m, o |-> x.o]
<1>1. x = [t |-> x.t, m |-> x.m, o |-> x.o]
  BY DEF Content
<1>2. x.t + more = x.t
  BY DEF Content
<1> QED  BY <1>1, <1>2

\* Two patches joined do what they do one after the other.
LEMMA JoinAdds ==
  ASSUME NEW e, EntryFits(e), NEW m \in Update, m.state # None => m.add = 0,
         m.seq = Known(e) + 1, NEW x \in Content, Pending(e) = x,
         Add(x, m) \in Content
  PROVE  LET f == Waits(e, m)
         IN  EntryFits(f) /\ Known(f) = m.seq /\ Pending(f) = Add(x, m) /\ f.batch # None
<1> DEFINE b == Join(e.batch, m)
           f == Waits(e, m)
<1>1. b \in Batch /\ b.seq = m.seq
  BY NoneIsApart DEF Join, Batch, Update, EntryFits, Entry
<1>2. b # None
  BY <1>1, NoneIsApart
<1>3. f \in Entry /\ f.batch = b /\ f.seq = e.seq /\ f.state = e.state
  BY <1>1 DEF EntryFits, Entry, Waits
<1>4. e.seq < m.seq
  BY KnownIs DEF Update, EntryFits, Entry
<1>5. Pending(f) = Add(e.state, b)
  BY <1>2, <1>3 DEF Pending
<1>6. Add(e.state, b) = Add(x, m)
  <2>1. CASE m.state # None
    BY <2>1 DEF Add, Join, Update
  <2>2. CASE m.state = None /\ e.batch = None
    BY <2>2 DEF Add, Join, Update, Pending
  <2>3. CASE m.state = None /\ e.batch # None
    <3>1. e.batch \in Batch /\ e.state \in Content
      BY <2>3 DEF EntryFits, Entry
    <3>2. b = [seq |-> m.seq, add |-> e.batch.add + m.add, state |-> e.batch.state]
      BY <2>3 DEF Join
    <3>3. x = Add(e.state, e.batch)
      BY <2>3 DEF Pending
    <3>4. CASE e.batch.state = None
      <4>1. x = [t |-> e.state.t + e.batch.add, m |-> e.state.m, o |-> e.state.o]
        BY <3>1, <3>3, <3>4, AddIs DEF Batch
      <4>2. Add(x, m) = [t |-> x.t + m.add, m |-> x.m, o |-> x.o]
        BY <2>3, AddIs DEF Update
      <4>3. Add(e.state, b) = [t |-> e.state.t + b.add, m |-> e.state.m, o |-> e.state.o]
        BY <1>1, <3>1, <3>2, <3>4, AddIs DEF Batch
      <4> QED  BY <3>1, <3>2, <4>1, <4>2, <4>3 DEF Batch, Update, Content
    <3>5. CASE e.batch.state # None
      <4>1. x = [t |-> e.batch.state.t + e.batch.add, m |-> e.batch.state.m, o |-> e.batch.state.o]
        BY <3>1, <3>3, <3>5, AddIs DEF Batch
      <4>2. Add(x, m) = [t |-> x.t + m.add, m |-> x.m, o |-> x.o]
        BY <2>3, AddIs DEF Update
      <4>3. Add(e.state, b) = [t |-> b.state.t + b.add, m |-> b.state.m, o |-> b.state.o]
        BY <1>1, <3>1, <3>2, <3>5, AddIs DEF Batch
      <4> QED  BY <3>1, <3>2, <3>5, <4>1, <4>2, <4>3 DEF Batch, Update, Content
    <3> QED  BY <3>4, <3>5
  <2> QED  BY <2>1, <2>2, <2>3
<1>7. EntryFits(f) /\ Known(f) = m.seq
  BY <1>1, <1>2, <1>3, <1>4 DEF EntryFits, Known
<1> QED  BY <1>2, <1>3, <1>5, <1>6, <1>7

\* The frame changes nothing but where a patch is kept.
LEMMA FlushedIs ==
  ASSUME NEW e, EntryFits(e), e.batch # None, Known(e) > 0 => Pending(e) \in Content
  PROVE  LET f == Flushed(e)
         IN  EntryFits(f) /\ Known(f) = Known(e) /\ Pending(f) = Pending(e) /\ f.batch = None
<1>1. /\ e.batch \in Batch /\ e.seq < e.batch.seq /\ Known(e) = e.batch.seq
      /\ Pending(e) = Add(e.state, e.batch)
  BY DEF EntryFits, Entry, Known, Pending
<1>2. Flushed(e) = [e EXCEPT !.seq = e.batch.seq, !.state = Add(e.state, e.batch), !.batch = None]
  BY <1>1 DEF Flushed, Batch, EntryFits, Entry
<1>3. Add(e.state, e.batch) \in Content
  BY <1>1 DEF Batch, EntryFits, Entry
<1> QED  BY <1>1, <1>2, <1>3 DEF EntryFits, Entry, Batch, Known, Pending

\* A queue without its first message.
LEMMA TailIs ==
  ASSUME NEW q \in Seq(Message), q # <<>>
  PROVE  /\ Tail(q) \in Seq(Message) /\ Head(q) \in Message /\ Head(q) = q[1] /\ 1 \in DOMAIN q
         /\ \A i \in DOMAIN Tail(q) : i \in Nat \ {0} /\ i + 1 \in DOMAIN q /\ Tail(q)[i] = q[i + 1]
         /\ \A i \in DOMAIN q : i \in Nat \ {0} /\ (i # 1 => i - 1 \in DOMAIN Tail(q) /\ Tail(q)[i - 1] = q[i])
  OBVIOUS

LEMMA CoveredTail ==
  ASSUME NEW q \in Seq(Message), q # <<>>, NEW s \in Streams, NEW k \in Nat, NEW st,
         Covered(q, s, k, st), Head(q).s = s => Head(q).seq <= k
  PROVE  Covered(Tail(q), s, k, st)
<1> SUFFICES ASSUME NEW n \in Nat, k < n, n <= st.seq
             PROVE  \E i \in DOMAIN Tail(q) : Tail(q)[i].s = s /\ Tail(q)[i].seq = n
  BY DEF Covered
<1>1. PICK i \in DOMAIN q : q[i].s = s /\ q[i].seq = n
  BY DEF Covered
<1>2. i # 1
  BY <1>1, TailIs
<1> QED  BY <1>1, <1>2, TailIs

LEMMA MessageIs ==
  ASSUME NEW q \in Seq(Message), NEW i \in DOMAIN q, NEW s \in Streams, q[i].s = s
  PROVE  q[i] \in Update
<1>1. q[i] \in Message
  OBVIOUS
<1> QED  BY <1>1, NoneIsApart DEF Message, Hello

\* A message is taken from the queue: the rest follows its number, and what was known if it
\* is of another stream.
LEMMA ChannelTail ==
  ASSUME NEW q \in Seq(Message), q # <<>>, NEW s \in Streams, NEW k \in Nat, NEW st \in {None} \cup Stream,
         Channel(q, s, k, st)
  PROVE  /\ (Head(q).s # s \/ k = 0) => Channel(Tail(q), s, k, st)
         /\ Head(q).s = s => Channel(Tail(q), s, Head(q).seq, st)
<1> DEFINE r == Tail(q)
<1>1. \A i, j \in DOMAIN r : i < j /\ r[i].s = s /\ r[j].s = s => r[i].seq < r[j].seq
  BY TailIs DEF Channel
<1>2. \A i \in DOMAIN r : r[i].s = s => /\ st # None /\ k < r[i].seq /\ r[i].seq <= st.seq
                                        /\ Covered(r, s, r[i].seq, st)
  <2> TAKE i \in DOMAIN r
  <2> HAVE r[i].s = s
  <2>1. i + 1 \in DOMAIN q /\ q[i + 1] = r[i] /\ 1 < i + 1 /\ 1 \in DOMAIN q /\ Head(q) = q[1]
    BY TailIs
  <2>2. /\ st # None /\ k < r[i].seq /\ r[i].seq <= st.seq /\ Covered(q, s, r[i].seq, st)
    BY <2>1 DEF Channel
  <2>3. r[i].seq \in Nat
    BY <2>1, MessageIs DEF Update
  <2>4. Head(q).s = s => Head(q).seq < r[i].seq
    BY <2>1 DEF Channel
  <2>5. Head(q).s = s => Head(q).seq \in Nat
    BY <2>1, MessageIs DEF Update
  <2>6. Covered(r, s, r[i].seq, st)
    BY <2>2, <2>3, <2>4, <2>5, CoveredTail
  <2> QED  BY <2>2, <2>6
<1>3. ASSUME Head(q).s # s \/ k = 0
      PROVE  Channel(r, s, k, st)
  <2>1. k > 0 => st # None /\ k <= st.seq /\ Covered(r, s, k, st)
    BY <1>3, CoveredTail DEF Channel
  <2> QED  BY <1>1, <1>2, <2>1 DEF Channel
<1>4. ASSUME Head(q).s = s
      PROVE  Channel(r, s, Head(q).seq, st)
  <2>1. 1 \in DOMAIN q /\ Head(q) = q[1] /\ Head(q).seq \in Nat
    BY <1>4, TailIs, MessageIs DEF Update
  <2>2. st # None /\ Head(q).seq <= st.seq /\ Covered(q, s, Head(q).seq, st)
    BY <1>4, <2>1 DEF Channel
  <2>3. Covered(r, s, Head(q).seq, st)
    BY <2>1, <2>2, CoveredTail
  <2>4. \A i \in DOMAIN r : r[i].s = s => Head(q).seq < r[i].seq
    BY <1>4, <2>1, TailIs DEF Channel
  <2> QED  BY <1>1, <1>2, <2>2, <2>3, <2>4 DEF Channel
<1> QED  BY <1>3, <1>4

\* What is known has to be followed by the first message of the stream.
LEMMA FirstFollows ==
  ASSUME NEW q \in Seq(Message), q # <<>>, NEW s \in Streams, NEW k \in Nat \ {0},
         NEW st \in {None} \cup Stream,
         Channel(q, s, k, st), Head(q).s = s
  PROVE  Head(q).seq = k + 1
<1>1. 1 \in DOMAIN q /\ Head(q) = q[1] /\ Head(q).seq \in Nat /\ st # None /\ st.seq \in Nat
  BY TailIs, MessageIs DEF Update, Channel, Stream
<1>2. k < Head(q).seq /\ Head(q).seq <= st.seq /\ Covered(q, s, k, st)
  BY <1>1 DEF Channel
<1>3. PICK i \in DOMAIN q : q[i].s = s /\ q[i].seq = k + 1
  BY <1>1, <1>2 DEF Covered
<1>4. i = 1 \/ Head(q).seq < k + 1
  BY <1>1, <1>3, TailIs DEF Channel
<1> QED  BY <1>1, <1>2, <1>3, <1>4

LEMMA ToldTail ==
  ASSUME NEW q \in Seq(Message), q # <<>>, NEW s \in Streams, NEW e, NEW f, NEW st, NEW h,
         Told(h, q, s, e, st), Known(f) > 0 => Pending(f) = h[Known(f)]
  PROVE  Told(h, Tail(q), s, f, st)
  BY TailIs DEF Told

\* A message of another stream changes nothing for this one.
LEMMA LinkedSkips ==
  ASSUME NEW q \in Seq(Message), q # <<>>, NEW s \in Streams, NEW e, EntryFits(e),
         NEW st \in {None} \cup Stream,
         Linked(q, s, e, st), Head(q).s # s
  PROVE  Linked(Tail(q), s, e, st)
<1>1. Channel(Tail(q), s, Known(e), st)
  BY ChannelTail, KnownIs DEF Linked
<1>2. PICK h \in [Nat -> Content] : Told(h, q, s, e, st)
  BY DEF Linked
<1>3. Told(h, Tail(q), s, e, st)
  BY <1>2, ToldTail DEF Told
<1> QED  BY <1>1, <1>3 DEF Linked

\* A patch that does not fit comes before any snapshot.
LEMMA LinkedDrops ==
  ASSUME NEW q \in Seq(Message), q # <<>>, NEW s \in Streams, NEW e, EntryFits(e),
         NEW st \in {None} \cup Stream,
         Linked(q, s, e, st), Head(q).s = s, ~Fits(e, Head(q))
  PROVE  Known(e) = 0 /\ Linked(Tail(q), s, e, st)
<1>1. Known(e) = 0
  BY FirstFollows, KnownIs DEF Linked, Fits
<1>2. Channel(Tail(q), s, Known(e), st)
  BY <1>1, ChannelTail DEF Linked
<1>3. PICK h \in [Nat -> Content] : Told(h, q, s, e, st)
  BY DEF Linked
<1>4. Told(h, Tail(q), s, e, st)
  BY <1>3, ToldTail DEF Told
<1> QED  BY <1>1, <1>2, <1>4 DEF Linked

\* A message that is taken: the panel knows its number, and the contents it stands for.
LEMMA LinkedTakes ==
  ASSUME NEW q \in Seq(Message), q # <<>>, NEW s \in Streams, NEW e, EntryFits(e),
         NEW st \in {None} \cup Stream,
         Linked(q, s, e, st), Head(q).s = s, NEW f, Known(f) = Head(q).seq,
         NEW h \in [Nat -> Content], Told(h, q, s, e, st), Pending(f) = h[Head(q).seq]
  PROVE  Linked(Tail(q), s, f, st)
<1>1. Channel(Tail(q), s, Known(f), st)
  BY ChannelTail, KnownIs DEF Linked
<1>2. Told(h, Tail(q), s, f, st)
  BY ToldTail
<1> QED  BY <1>1, <1>2 DEF Linked

LEMMA LinkedSnapshot ==
  ASSUME NEW q \in Seq(Message), q # <<>>, NEW s \in Streams, NEW e, EntryFits(e),
         NEW st \in {None} \cup Stream,
         Linked(q, s, e, st), Head(q).s = s, Head(q).kind = "snapshot"
  PROVE  LET f == Snapshot(e, Head(q))
         IN  /\ EntryFits(f) /\ Linked(Tail(q), s, f, st) /\ f.batch = None
             /\ Known(f) = Head(q).seq /\ Pending(f) = Head(q).state /\ Known(e) < Known(f)
<1> DEFINE m == Head(q)
           f == Snapshot(e, m)
<1>1. 1 \in DOMAIN q /\ m = q[1] /\ m \in Update
  BY TailIs, MessageIs
<1>2. PICK h \in [Nat -> Content] : Told(h, q, s, e, st)
  BY DEF Linked
<1>3. m.state # None /\ h[m.seq] = m.state
  BY <1>1, <1>2 DEF Told, HoldsAt
<1>4. f \in Entry /\ f.batch = None /\ f.seq = m.seq /\ f.state = m.state
  BY <1>1, <1>3 DEF Snapshot, EntryFits, Entry, Update
<1>5. EntryFits(f) /\ Known(f) = m.seq /\ Pending(f) = m.state
  BY <1>4 DEF EntryFits, Known, Pending
<1>6. Linked(Tail(q), s, f, st)
  BY <1>2, <1>3, <1>5, LinkedTakes
<1>7. Known(e) < m.seq
  BY <1>1 DEF Linked, Channel
<1> QED  BY <1>4, <1>5, <1>6, <1>7

\* What a patch that fits makes of the contents known.
LEMMA PatchHolds ==
  ASSUME NEW q \in Seq(Message), q # <<>>, NEW s \in Streams, NEW e, EntryFits(e),
         NEW st \in {None} \cup Stream,
         Head(q).s = s, Head(q).kind = "patch", Fits(e, Head(q)),
         NEW h \in [Nat -> Content], Told(h, q, s, e, st)
  PROVE  /\ Head(q) \in Update /\ Known(e) \in Nat \ {0} /\ Head(q).seq = Known(e) + 1
         /\ Pending(e) = h[Known(e)] /\ Pending(e) \in Content
         /\ Head(q).state # None => Head(q).add = 0
         /\ Add(Pending(e), Head(q)) = h[Head(q).seq] /\ Add(Pending(e), Head(q)) \in Content
<1> DEFINE m == Head(q)
<1>1. 1 \in DOMAIN q /\ m = q[1] /\ m \in Update
  BY TailIs, MessageIs
<1>2. HoldsAt(h, m) /\ m.seq > 1 /\ m.seq = Known(e) + 1 /\ Known(e) \in Nat
  BY <1>1, KnownIs DEF Told, HoldsAt, Fits
<1>3. Known(e) > 0 /\ Pending(e) = h[Known(e)] /\ h[Known(e)] \in Content /\ m.seq - 1 = Known(e)
  BY <1>2 DEF Told
<1>4. CASE m.state = None
  BY <1>1, <1>2, <1>3, <1>4 DEF HoldsAt, Update
<1>5. CASE m.state # None
  <2>1. m.add = 0 /\ h[m.seq] = m.state /\ m.state \in Content
    BY <1>1, <1>2, <1>5 DEF HoldsAt, Update
  <2>2. Add(Pending(e), m) = [t |-> m.state.t + m.add, m |-> m.state.m, o |-> m.state.o]
    BY <1>1, <1>3, <1>5, AddIs DEF Update
  <2>3. m.state = [t |-> m.state.t + m.add, m |-> m.state.m, o |-> m.state.o]
    BY <2>1, ContentIs
  <2>4. Add(Pending(e), m) = m.state
    BY <2>2, <2>3
  <2> QED  BY <1>1, <1>2, <1>3, <2>1, <2>4
<1> QED  BY <1>4, <1>5

LEMMA LinkedPatch ==
  ASSUME NEW q \in Seq(Message), q # <<>>, NEW s \in Streams, NEW e, EntryFits(e),
         NEW st \in {None} \cup Stream,
         Linked(q, s, e, st), Head(q).s = s, Head(q).kind = "patch", Fits(e, Head(q))
  PROVE  LET f == Waits(e, Head(q))
         IN  EntryFits(f) /\ Linked(Tail(q), s, f, st) /\ Known(f) = Head(q).seq
             /\ Pending(f) = Add(Pending(e), Head(q))
<1> DEFINE f == Waits(e, Head(q))
<1> HIDE DEF f
<1>1. PICK h \in [Nat -> Content] : Told(h, q, s, e, st)
  BY DEF Linked
<1>2. /\ Head(q) \in Update /\ Known(e) \in Nat \ {0} /\ Head(q).seq = Known(e) + 1
      /\ Pending(e) = h[Known(e)] /\ Pending(e) \in Content
      /\ Head(q).state # None => Head(q).add = 0
      /\ Add(Pending(e), Head(q)) = h[Head(q).seq] /\ Add(Pending(e), Head(q)) \in Content
  BY <1>1, PatchHolds
<1>3. EntryFits(f) /\ Known(f) = Head(q).seq /\ Pending(f) = Add(Pending(e), Head(q))
  BY <1>2, JoinAdds DEF f
<1>4. Linked(Tail(q), s, f, st)
  BY <1>1, <1>2, <1>3, LinkedTakes
<1> QED  BY <1>3, <1>4 DEF f

LEMMA LinkedAtOnce ==
  ASSUME NEW q \in Seq(Message), q # <<>>, NEW s \in Streams, NEW e, EntryFits(e),
         NEW st \in {None} \cup Stream,
         Linked(q, s, e, st), Head(q).s = s, Head(q).kind = "patch", Fits(e, Head(q)), e.batch = None
  PROVE  LET f == Applied(e, Head(q))
         IN  EntryFits(f) /\ Linked(Tail(q), s, f, st) /\ Known(f) = Head(q).seq /\ f.batch = None
<1> DEFINE f == Applied(e, Head(q))
<1> HIDE DEF f
<1>1. PICK h \in [Nat -> Content] : Told(h, q, s, e, st)
  BY DEF Linked
<1>2. /\ Head(q) \in Update /\ Known(e) \in Nat \ {0} /\ Head(q).seq = Known(e) + 1
      /\ Pending(e) = h[Known(e)] /\ Pending(e) \in Content
      /\ Head(q).state # None => Head(q).add = 0
      /\ Add(Pending(e), Head(q)) = h[Head(q).seq] /\ Add(Pending(e), Head(q)) \in Content
  BY <1>1, PatchHolds
<1>3. Pending(e) = e.state
  BY DEF Pending
<1>4. f \in Entry /\ f.batch = None /\ f.seq = Head(q).seq /\ f.state = Add(e.state, Head(q))
  BY <1>2, <1>3 DEF f, Applied, EntryFits, Entry, Update
<1>5. EntryFits(f) /\ Known(f) = Head(q).seq /\ Pending(f) = Add(Pending(e), Head(q))
  BY <1>3, <1>4 DEF EntryFits, Known, Pending
<1>6. Linked(Tail(q), s, f, st)
  BY <1>1, <1>2, <1>5, LinkedTakes
<1> QED  BY <1>4, <1>5, <1>6 DEF f

LEMMA LinkedPending ==
  ASSUME NEW q, NEW s, NEW e, EntryFits(e), NEW st, Linked(q, s, e, st), Known(e) > 0
  PROVE  Pending(e) \in Content
<1>1. PICK h \in [Nat -> Content] : Told(h, q, s, e, st)
  BY DEF Linked
<1> QED  BY <1>1, KnownIs DEF Told

\* Only what is known of an entry and what it stands for count.
LEMMA LinkedSame ==
  ASSUME NEW q, NEW s, NEW e, NEW f, NEW st, Linked(q, s, e, st), Known(f) = Known(e), Pending(f) = Pending(e)
  PROVE  Linked(q, s, f, st)
  BY DEF Linked, Told

\* Somebody who knows nothing of a stream and to whom nothing of it is on its way.
LEMMA LinkedNothing ==
  ASSUME NEW q, NEW s, NEW e, Known(e) = 0, NEW st \in {None} \cup Stream, NothingOf(q, s)
  PROVE  Linked(q, s, e, st)
<1>1. Channel(q, s, Known(e), st)
  BY DEF Channel, NothingOf
<1>2. \E h \in [Nat -> Content] : Told(h, q, s, e, st)
  <2>1. CASE st = None
    <3>1. Empty \in Content
      BY BoundsAreNumbers DEF Empty, Content
    <3>2. [n \in Nat |-> Empty] \in [Nat -> Content]
      BY <3>1
    <3>3. Told([n \in Nat |-> Empty], q, s, e, st)
      BY <2>1 DEF Told, NothingOf
    <3> QED  BY <3>2, <3>3
  <2>2. CASE st # None
    <3>1. st.state \in Content /\ st.seq \in Nat
      BY <2>2 DEF Stream
    <3>2. [n \in Nat |-> st.state] \in [Nat -> Content] /\ [n \in Nat |-> st.state][st.seq] = st.state
      BY <3>1
    <3>3. Told([n \in Nat |-> st.state], q, s, e, st)
      BY <3>2 DEF Told, NothingOf
    <3> QED  BY <3>2, <3>3
  <2> QED  BY <2>1, <2>2
<1> QED  BY <1>1, <1>2 DEF Linked

-----------------------------------------------------------------------------
(* What a pass adds to a queue. *)

\* r is q and then new messages, of which those that P names are of stream s.
Extends(q, r) == /\ r \in Seq(Message) /\ \A i \in DOMAIN q : i \in DOMAIN r /\ r[i] = q[i]
                 /\ \A i \in DOMAIN q, j \in DOMAIN r \ DOMAIN q : i < j

NoNews(q, r, s) == \A j \in DOMAIN r \ DOMAIN q : r[j].s # s
OneNew(q, r, m) == \E j \in DOMAIN r \ DOMAIN q : r[j] = m /\ \A i \in DOMAIN r \ DOMAIN q : r[i].s = m.s => i = j

\* Nothing new of the stream.
LEMMA LinkedKeeps ==
  ASSUME NEW q \in Seq(Message), NEW r, Extends(q, r), NEW s \in Streams, NEW e, NEW st,
         Linked(q, s, e, st), NoNews(q, r, s)
  PROVE  Linked(r, s, e, st)
<1>1. \A i \in DOMAIN r : r[i].s = s => i \in DOMAIN q /\ r[i] = q[i]
  BY DEF NoNews, Extends
<1>2. \A k : Covered(q, s, k, st) => Covered(r, s, k, st)
  BY DEF Covered, Extends
<1>3. Channel(r, s, Known(e), st)
  BY <1>1, <1>2 DEF Linked, Channel
<1>4. PICK h \in [Nat -> Content] : Told(h, q, s, e, st)
  BY DEF Linked
<1>5. Told(h, r, s, e, st)
  BY <1>1, <1>4 DEF Told
<1> QED  BY <1>3, <1>5 DEF Linked

\* A message m that takes the stream from st to su.
Succeeds(m, st, su) ==
  /\ m \in Update /\ su \in Stream /\ m.seq = su.seq
  /\ su.seq = IF st = None THEN 1 ELSE st.seq + 1
  /\ IF m.state # None THEN m.add = 0 /\ su.state = m.state
     ELSE st # None /\ m.kind = "patch" /\ su.state = Add(st.state, m)
  /\ m.kind = "patch" => st # None

LEMMA ChannelGrows ==
  ASSUME NEW q \in Seq(Message), NEW r, Extends(q, r), NEW s \in Streams, NEW k \in Nat,
         NEW st \in {None} \cup Stream, Channel(q, s, k, st), NEW su, NEW m, m.s = s, Succeeds(m, st, su),
         OneNew(q, r, m)
  PROVE  Channel(r, s, k, su)
<1>1. PICK j \in DOMAIN r \ DOMAIN q : r[j] = m /\ \A i \in DOMAIN r \ DOMAIN q : r[i].s = s => i = j
  BY DEF OneNew
<1>2. su # None /\ su.seq \in Nat /\ (st # None => st.seq \in Nat /\ su.seq = st.seq + 1) /\ m.seq = su.seq
  BY NoneIsApart DEF Succeeds, Stream
<1>3. \A i \in DOMAIN r : r[i].s = s => i = j \/ (i \in DOMAIN q /\ r[i] = q[i] /\ i < j)
  BY <1>1 DEF Extends
<1>4. \A i \in DOMAIN q : q[i].s = s => /\ st # None /\ k < q[i].seq /\ q[i].seq <= st.seq
                                        /\ q[i].seq \in Nat /\ Covered(q, s, q[i].seq, st)
  BY MessageIs DEF Channel, Update
<1>5. ASSUME NEW n \in Nat, st # None => Covered(q, s, n, st)
      PROVE  (st # None \/ n >= su.seq) => Covered(r, s, n, su)
  <2> SUFFICES ASSUME st # None \/ n >= su.seq, NEW l \in Nat, n < l, l <= su.seq
               PROVE  \E i \in DOMAIN r : r[i].s = s /\ r[i].seq = l
    BY DEF Covered
  <2>1. CASE l = su.seq
    BY <1>1, <1>2, <2>1
  <2>2. CASE l # su.seq
    <3>1. st # None /\ l <= st.seq
      BY <1>2, <2>2
    <3>2. PICK i \in DOMAIN q : q[i].s = s /\ q[i].seq = l
      BY <1>5, <3>1 DEF Covered
    <3> QED  BY <3>2 DEF Extends
  <2> QED  BY <2>1, <2>2
<1>6. \A i, l \in DOMAIN r : i < l /\ r[i].s = s /\ r[l].s = s => r[i].seq < r[l].seq
  <2> TAKE i, l \in DOMAIN r
  <2> HAVE i < l /\ r[i].s = s /\ r[l].s = s
  <2>1. i # j
    <3>1. SUFFICES ASSUME i = j PROVE FALSE
      OBVIOUS
    <3>2. (l \in DOMAIN q /\ l < j) \/ l = j
      BY <1>3
    <3>3. i \in Nat /\ l \in Nat
      BY DEF Extends
    <3> QED  BY <3>1, <3>2, <3>3
  <2>2. i \in DOMAIN q /\ r[i] = q[i]
    BY <2>1, <1>3
  <2>3. CASE l = j
    BY <2>2, <2>3, <1>1, <1>2, <1>4
  <2>4. CASE l # j
    BY <2>2, <2>4, <1>3 DEF Channel
  <2> QED  BY <2>3, <2>4
<1>7. \A i \in DOMAIN r : r[i].s = s => /\ su # None /\ k < r[i].seq /\ r[i].seq <= su.seq
                                        /\ Covered(r, s, r[i].seq, su)
  <2> TAKE i \in DOMAIN r
  <2> HAVE r[i].s = s
  <2>1. CASE i = j
    <3>1. k < su.seq
      BY <1>2 DEF Channel, Succeeds
    <3>2. Covered(r, s, su.seq, su)
      BY <1>2 DEF Covered
    <3> QED  BY <2>1, <3>1, <3>2, <1>1, <1>2
  <2>2. CASE i # j
    <3>1. i \in DOMAIN q /\ r[i] = q[i]
      BY <2>2, <1>3
    <3> QED  BY <3>1, <1>2, <1>4, <1>5
  <2> QED  BY <2>1, <2>2
<1>8. k > 0 => su # None /\ k <= su.seq /\ Covered(r, s, k, su)
  BY <1>2, <1>5 DEF Channel
<1> QED  BY <1>6, <1>7, <1>8 DEF Channel

LEMMA LinkedGrows ==
  ASSUME NEW q \in Seq(Message), NEW r, Extends(q, r), NEW s \in Streams, NEW e, EntryFits(e),
         NEW st \in {None} \cup Stream, Linked(q, s, e, st), NEW su, NEW m, m.s = s, Succeeds(m, st, su),
         OneNew(q, r, m)
  PROVE  Linked(r, s, e, su)
<1>1. Channel(q, s, Known(e), st) /\ Channel(r, s, Known(e), su) /\ Known(e) \in Nat
  BY ChannelGrows, KnownIs DEF Linked
<1>2. PICK h \in [Nat -> Content] : Told(h, q, s, e, st)
  BY DEF Linked
<1>3. PICK j \in DOMAIN r \ DOMAIN q : r[j] = m /\ \A i \in DOMAIN r \ DOMAIN q : r[i].s = s => i = j
  BY DEF OneNew
<1> DEFINE g == [h EXCEPT ![su.seq] = su.state]
<1>4. su \in Stream /\ su.seq \in Nat \ {0} /\ su.state \in Content
  BY DEF Succeeds, Stream
<1>5. g \in [Nat -> Content] /\ g[su.seq] = su.state /\ \A n \in Nat : n # su.seq => g[n] = h[n]
  BY <1>4
<1>6. st # None => st.seq \in Nat /\ su.seq = st.seq + 1 /\ h[st.seq] = st.state
  BY <1>2 DEF Succeeds, Stream, Told
<1> HIDE DEF g
<1>7. \A i \in DOMAIN r : r[i].s = s => HoldsAt(g, r[i])
  <2> TAKE i \in DOMAIN r
  <2> HAVE r[i].s = s
  <2>1. CASE i = j
    <3>1. r[i] = m /\ m.seq = su.seq /\ m \in Update
      BY <2>1, <1>3 DEF Succeeds
    <3>2. m.kind = "patch" => st # None /\ m.seq > 1
      BY <3>1, <1>6 DEF Succeeds, Stream
    <3>3. CASE m.state # None
      BY <3>1, <3>2, <3>3, <1>5 DEF HoldsAt, Succeeds
    <3>4. CASE m.state = None
      <4>1. st # None /\ m.kind = "patch" /\ su.state = Add(st.state, m)
        BY <3>4 DEF Succeeds
      <4>2. g[m.seq - 1] = st.state
        BY <4>1, <3>1, <1>5, <1>6
      <4> QED  BY <4>1, <4>2, <3>1, <3>2, <3>4, <1>5 DEF HoldsAt
    <3> QED  BY <3>3, <3>4
  <2>2. CASE i # j
    <3>1. i \in DOMAIN q /\ r[i] = q[i] /\ q[i] \in Update
      BY <2>2, <1>3, MessageIs DEF Extends
    <3>2. HoldsAt(h, q[i]) /\ st # None /\ q[i].seq <= st.seq
      BY <3>1, <1>1, <1>2 DEF Told, Channel
    <3>3. q[i].seq \in Nat \ {0} /\ g[q[i].seq] = h[q[i].seq] /\ (q[i].seq > 1 => g[q[i].seq - 1] = h[q[i].seq - 1])
      BY <3>1, <3>2, <1>5, <1>6 DEF Update
    <3> QED  BY <3>1, <3>2, <3>3 DEF HoldsAt
  <2> QED  BY <2>1, <2>2
<1>8. Known(e) > 0 => Pending(e) = g[Known(e)]
  <2>1. Known(e) > 0 => st # None /\ Known(e) <= st.seq
    BY <1>1 DEF Channel
  <2> QED  BY <2>1, <1>1, <1>2, <1>5, <1>6 DEF Told
<1>9. Told(g, r, s, e, su)
  BY <1>5, <1>7, <1>8 DEF Told
<1> QED  BY <1>1, <1>5, <1>9 DEF Linked

-----------------------------------------------------------------------------
(* The host. *)

Event == [kind : {"resync"}, s : Streams] \cup [kind : {"released"}, ss : SUBSET Streams]

HostInv ==
  /\ events \in Seq(Event) /\ loads \in [Convs -> Nat] /\ hydrated \in BOOLEAN
  /\ owed \subseteq Streams /\ (hydrated => owed = {})

\* A snapshot of the stream is asked for.
Promised(s) == s \in Requested \/ s \in owed \/ (s \in Convs /\ loads[s] > 0)

LEMMA RequestedIs ==
  ASSUME events \in Seq(Event)
  PROVE  /\ \A s : s \in Requested <=> \E i \in DOMAIN events : events[i].kind = "resync" /\ events[i].s = s
         /\ \A s : s \in Gone <=> \E i \in DOMAIN events : events[i].kind = "released" /\ s \in events[i].ss
         /\ Requested \subseteq Streams
<1>1. \A i \in DOMAIN events : events[i] \in Event
  OBVIOUS
<1> QED  BY <1>1 DEF Requested, Gone, Event

LEMMA Asked ==
  ASSUME HostInv, NEW s \in Streams, AsksSnapshot(s), UNCHANGED hydrated
  PROVE  /\ events' \in Seq(Event) /\ owed' \subseteq Streams /\ (hydrated => owed' = {})
         /\ Gone' = Gone /\ s \in Requested' \cup owed' /\ Requested \cup owed \subseteq Requested' \cup owed'
<1> DEFINE e == [kind |-> "resync", s |-> s]
<1>1. events \in Seq(Event) /\ e \in Event
  BY DEF HostInv, Event
<1>2. CASE hydrated
  <2>1. events' = Append(events, e) /\ owed' = owed
    BY <1>2 DEF AsksSnapshot
  <2>2. events' \in Seq(Event)
    BY <1>1, <2>1
  <2>3. /\ DOMAIN events \subseteq DOMAIN events' /\ \A i \in DOMAIN events : events'[i] = events[i]
        /\ Len(events) + 1 \in DOMAIN events' /\ events'[Len(events) + 1] = e
        /\ \A i \in DOMAIN events' : i \in DOMAIN events \/ i = Len(events) + 1
    BY <1>1, <2>1
  <2>4. (\A z : z \in Requested' <=> \E i \in DOMAIN events' : events'[i].kind = "resync" /\ events'[i].s = z)
        /\ \A z : z \in Gone' <=> \E i \in DOMAIN events' : events'[i].kind = "released" /\ z \in events'[i].ss
    <3>1. \A i \in DOMAIN events' : events'[i] \in Event
      BY <2>2
    <3> QED  BY <3>1 DEF Requested, Gone, Event
  <2>5. \A z : z \in Gone' <=> z \in Gone
    BY <1>1, <2>3, <2>4, RequestedIs
  <2>6. s \in Requested' /\ Requested \subseteq Requested'
    BY <1>1, <2>3, <2>4, RequestedIs
  <2> QED  BY <1>2, <2>1, <2>2, <2>5, <2>6 DEF HostInv
<1>3. CASE ~hydrated
  <2>1. owed' = owed \cup {s} /\ events' = events
    BY <1>3 DEF AsksSnapshot
  <2> QED  BY <1>1, <1>3, <2>1 DEF Requested, Gone, HostInv
<1> QED  BY <1>2, <1>3 DEF HostInv

\* An order of a set of streams has each of them once.
LEMMA OrderIs ==
  ASSUME NEW S \in SUBSET Streams
  PROVE  /\ InOrder(S) \in Seq(S)
         /\ \A s \in S : \E i \in DOMAIN InOrder(S) : InOrder(S)[i] = s
         /\ \A i, j \in DOMAIN InOrder(S) : InOrder(S)[i] = InOrder(S)[j] => i = j
<1> DEFINE n == Cardinality(S)
<1>1. IsFiniteSet(S)
  <2>1. IsFiniteSet(Streams)
    BY ConversationsAreNamed, FS_AddElement DEF Streams
  <2> QED  BY <2>1, FS_Subset
<1>2. n \in Nat /\ ExistsBijection(1..n, S)
  BY <1>1, FS_CardinalityType
<1>3. PICK b \in [1..n -> S] : IsInjective(b)
  BY <1>2 DEF ExistsBijection, Bijection, Injection
<1>4. InOrder(S) \in [1..n -> S] /\ IsInjective(InOrder(S))
  BY <1>3 DEF InOrder, SetToSeq
<1>5. InOrder(S) \in Injection(1..n, S)
  BY <1>4 DEF Injection
<1>6. IsFiniteSet(1..n) /\ Cardinality(1..n) = n
  BY <1>2, FS_Interval
<1>7. InOrder(S) \in Surjection(1..n, S)
  BY <1>1, <1>5, <1>6, FS_Injection
<1>8. \A s \in S : \E i \in 1..n : InOrder(S)[i] = s
  BY <1>7 DEF Surjection
<1>9. InOrder(S) \in Seq(S) /\ DOMAIN InOrder(S) = 1..n
  BY <1>2, <1>4
<1> QED  BY <1>4, <1>8, <1>9 DEF IsInjective

LEMMA HydratedHost ==
  ASSUME HostInv, Hydrated
  PROVE  HostInv' /\ Gone' = Gone /\ Requested' = Requested \cup owed /\ owed' = {}
<1> DEFINE order == InOrder(owed)
           asking == [i \in DOMAIN order |-> [kind |-> "resync", s |-> order[i]]]
<1>1. events \in Seq(Event) /\ owed \in SUBSET Streams /\ events' = events \o asking
  BY DEF HostInv, Hydrated
<1>2. order \in Seq(owed) /\ \A s \in owed : \E i \in DOMAIN order : order[i] = s
  BY <1>1, OrderIs
<1>3. asking \in Seq(Event) /\ DOMAIN asking = DOMAIN order
      /\ \A i \in DOMAIN asking : asking[i].kind = "resync" /\ asking[i].s = order[i] /\ order[i] \in owed
  <2>1. \A i \in DOMAIN order : order[i] \in owed /\ [kind |-> "resync", s |-> order[i]] \in Event
    BY <1>1, <1>2 DEF Event
  <2>2. DOMAIN order = 1..Len(order) /\ Len(order) \in Nat
    BY <1>2
  <2>3. asking \in [1..Len(order) -> Event]
    BY <2>1, <2>2
  <2> QED  BY <2>1, <2>2, <2>3
<1> HIDE DEF asking, order
<1>4. events' \in Seq(Event)
  BY <1>1, <1>3
<1>5. /\ \A i \in DOMAIN events : i \in DOMAIN events' /\ events'[i] = events[i]
      /\ \A i \in DOMAIN asking : i + Len(events) \in DOMAIN events' /\ events'[i + Len(events)] = asking[i]
      /\ \A i \in DOMAIN events' : i \in DOMAIN events \/ (i - Len(events) \in DOMAIN asking /\ events'[i] = asking[i - Len(events)])
  BY <1>1, <1>3
<1>6. (\A z : z \in Requested' <=> \E i \in DOMAIN events' : events'[i].kind = "resync" /\ events'[i].s = z)
        /\ \A z : z \in Gone' <=> \E i \in DOMAIN events' : events'[i].kind = "released" /\ z \in events'[i].ss
  <2>1. \A i \in DOMAIN events' : events'[i] \in Event
    BY <1>4
  <2> QED  BY <2>1 DEF Requested, Gone, Event
<1>7. \A z : z \in Gone' <=> z \in Gone
  BY <1>1, <1>3, <1>5, <1>6, RequestedIs
<1>8. \A z : z \in Requested' <=> z \in Requested \cup owed
  <2>1. ASSUME NEW z \in Requested' PROVE z \in Requested \cup owed
    <3>1. PICK i \in DOMAIN events' : events'[i].kind = "resync" /\ events'[i].s = z
      BY <1>6, <2>1
    <3> QED  BY <3>1, <1>1, <1>3, <1>5, RequestedIs
  <2>2. ASSUME NEW z \in Requested PROVE z \in Requested'
    <3>1. PICK i \in DOMAIN events : events[i].kind = "resync" /\ events[i].s = z
      BY <1>1, <2>2, RequestedIs
    <3> QED  BY <3>1, <1>5, <1>6
  <2>3. ASSUME NEW z \in owed PROVE z \in Requested'
    <3>1. PICK i \in DOMAIN asking : asking[i].kind = "resync" /\ asking[i].s = z
      BY <1>2, <1>3, <2>3
    <3> QED  BY <3>1, <1>5, <1>6
  <2> QED  BY <2>1, <2>2, <2>3
<1>9. owed' = {} /\ hydrated' = TRUE /\ loads' = loads
  BY DEF Hydrated
<1>10. Gone' = Gone /\ Requested' = Requested \cup owed
  BY <1>7, <1>8
<1>11. HostInv'
  BY <1>4, <1>9 DEF HostInv
<1> QED  BY <1>9, <1>10, <1>11

\* A panel goes: the streams nobody else follows are to be released.
LEMMA ReleaseIs ==
  ASSUME HostInv, NEW ss \in SUBSET Streams, events' = Append(events, [kind |-> "released", ss |-> ss])
  PROVE  events' \in Seq(Event) /\ Requested' = Requested /\ Gone' = Gone \cup ss
<1> DEFINE e == [kind |-> "released", ss |-> ss]
<1>1. events \in Seq(Event) /\ e \in Event /\ events' \in Seq(Event)
  BY DEF HostInv, Event
<1>2. /\ DOMAIN events \subseteq DOMAIN events' /\ \A i \in DOMAIN events : events'[i] = events[i]
      /\ Len(events) + 1 \in DOMAIN events' /\ events'[Len(events) + 1] = e
      /\ \A i \in DOMAIN events' : i \in DOMAIN events \/ i = Len(events) + 1
  BY <1>1
<1>3. (\A z : z \in Requested' <=> \E i \in DOMAIN events' : events'[i].kind = "resync" /\ events'[i].s = z)
        /\ \A z : z \in Gone' <=> \E i \in DOMAIN events' : events'[i].kind = "released" /\ z \in events'[i].ss
  <2>1. \A i \in DOMAIN events' : events'[i] \in Event
    BY <1>1
  <2> QED  BY <2>1 DEF Requested, Gone, Event
<1>4. \A z : z \in Requested' <=> z \in Requested
  BY <1>1, <1>2, <1>3, RequestedIs
<1>5. \A z : z \in Gone' <=> z \in Gone \cup ss
  BY <1>1, <1>2, <1>3, RequestedIs
<1> QED  BY <1>1, <1>4, <1>5

-----------------------------------------------------------------------------
(* The panels. *)

PanelType ==
  /\ hub \in [Panels -> {None} \cup SUBSET Streams]
  /\ up \in [Panels -> Seq({"ready"} \cup Streams)] /\ down \in [Panels -> Seq(Message)]
  /\ view \in [Panels -> [Streams -> Entry]] /\ shown \in [Panels -> [Convs -> Entry]]
  /\ current \in [Panels -> {None} \cup Convs] /\ asked \in [Panels -> SUBSET Convs]

Listens(c, s) == hub[c] # None /\ s \in hub[c]
Coming(q, s) == \E i \in DOMAIN q : q[i].s = s /\ q[i].kind = "snapshot"

\* What the panel, its queue and the host know of a stream goes together. Nothing is left of a
\* stream that the panel does not follow or whose release is due, and a panel that knows
\* nothing of a stream it follows gets a snapshot.
LinkInv(c, s) ==
  /\ EntryFits(view[c][s]) /\ (s = Global => view[c][s].batch = None)
  /\ Linked(down[c], s, view[c][s], streams[s])
  /\ (Listens(c, s) /\ s \notin Gone) \/ (Known(view[c][s]) = 0 /\ NothingOf(down[c], s))
  /\ Listens(c, s) => Known(view[c][s]) > 0 \/ Coming(down[c], s) \/ Promised(s)

\* The timeline store is what the state store is.
TwinInv(c, x) ==
  /\ EntryFits(shown[c][x])
  /\ Known(shown[c][x]) = Known(view[c][x]) /\ Pending(shown[c][x]) = Pending(view[c][x])

LinksInv == \A c \in Panels : (\A s \in Streams : LinkInv(c, s)) /\ \A x \in Convs : TwinInv(c, x)

Inv == WorldInv /\ StreamsFit /\ HostInv /\ PanelType /\ LinksInv

\* Where the link of a panel to a stream is not touched it holds on.
LEMMA LinkKeeps ==
  ASSUME NEW c, NEW s, LinkInv(c, s), view'[c][s] = view[c][s], down'[c] = down[c], streams'[s] = streams[s],
         hub'[c] = hub[c], s \in Gone' => s \in Gone, Promised(s) => Promised(s)'
  PROVE  LinkInv(c, s)'
  BY DEF LinkInv, Listens

LEMMA TwinKeeps ==
  ASSUME NEW c, NEW x, TwinInv(c, x), view'[c][x] = view[c][x], shown'[c][x] = shown[c][x]
  PROVE  TwinInv(c, x)'
  BY DEF TwinInv

LEMMA PostedIs ==
  ASSUME NEW c \in Panels, hub[c] \in SUBSET Streams, NEW sent \in SUBSET Streams,
         NEW msgs \in [sent -> Update],
         \A s \in sent : msgs[s].s = s, NEW q \in Seq(Message), NEW r, r = q \o Posted(c, sent, msgs)
  PROVE  /\ Extends(q, r)
         /\ \A s \in Streams \ (sent \cap hub[c]) : NoNews(q, r, s)
         /\ \A s \in sent \cap hub[c] : OneNew(q, r, msgs[s])
<1> DEFINE to == sent \cap hub[c]
           order == InOrder(to)
           post == Posted(c, sent, msgs)
<1>1. /\ order \in Seq(to) /\ \A s \in to : \E i \in DOMAIN order : order[i] = s
      /\ \A i, j \in DOMAIN order : order[i] = order[j] => i = j
  BY OrderIs
<1>2. post = [i \in DOMAIN order |-> msgs[order[i]]]
  BY DEF Posted
<1> HIDE DEF post, order
<1>3. post \in Seq(Message) /\ DOMAIN post = DOMAIN order
      /\ \A i \in DOMAIN post : post[i] = msgs[order[i]] /\ post[i].s = order[i] /\ order[i] \in to
  <2>1. \A i \in DOMAIN order : order[i] \in to /\ msgs[order[i]] \in Message /\ msgs[order[i]].s = order[i]
    <3> TAKE i \in DOMAIN order
    <3>1. order[i] \in to
      BY <1>1
    <3> QED  BY <3>1 DEF Message
  <2>2. DOMAIN order = 1..Len(order) /\ Len(order) \in Nat
    BY <1>1
  <2>3. post \in [1..Len(order) -> Message]
    BY <1>2, <2>1, <2>2
  <2> QED  BY <1>2, <2>1, <2>2, <2>3
<1>4. r = q \o post
  BY DEF post
<1>5. /\ r \in Seq(Message)
      /\ \A i \in DOMAIN q : i \in DOMAIN r /\ r[i] = q[i] /\ i \in Nat /\ i <= Len(q)
      /\ \A i \in DOMAIN post : i + Len(q) \in DOMAIN r \ DOMAIN q /\ r[i + Len(q)] = post[i]
      /\ \A i \in DOMAIN r \ DOMAIN q : i > Len(q) /\ i \in Nat /\ i - Len(q) \in DOMAIN post /\ r[i] = post[i - Len(q)]
      /\ Len(q) \in Nat
  BY <1>3, <1>4
<1>6. Extends(q, r)
  BY <1>5 DEF Extends
<1>7. \A s \in Streams \ to : NoNews(q, r, s)
  BY <1>3, <1>5 DEF NoNews
<1>8. ASSUME NEW s \in to PROVE OneNew(q, r, msgs[s])
  <2>1. PICK i \in DOMAIN post : order[i] = s
    BY <1>1, <1>3
  <2>2. i + Len(q) \in DOMAIN r \ DOMAIN q /\ r[i + Len(q)] = msgs[s] /\ msgs[s].s = s
    BY <2>1, <1>3, <1>5
  <2>3. ASSUME NEW j \in DOMAIN r \ DOMAIN q, r[j].s = s
        PROVE  j = i + Len(q)
    <3>1. j - Len(q) \in DOMAIN post /\ order[j - Len(q)] = s /\ j \in Nat
      BY <2>3, <1>3, <1>5
    <3>2. j - Len(q) = i
      BY <2>1, <3>1, <1>1, <1>3
    <3>3. i \in Nat
      BY <1>3
    <3> QED  BY <3>1, <3>2, <3>3, <1>5
  <2> QED  BY <2>2, <2>3 DEF OneNew
<1> QED  BY <1>6, <1>7, <1>8

\* What a pass does to the streams and to the queues: the streams in sent go on by a message
\* that each of their panels gets, the others stay or are released.
Sends(sent, msgs) ==
  /\ sent \in SUBSET Streams /\ msgs \in [sent -> Update] /\ \A s \in sent : msgs[s].s = s
  /\ streams' \in [Streams -> {None} \cup Stream]
  /\ \A s \in sent : Succeeds(msgs[s], streams[s], streams'[s])
  /\ \A s \in Streams \ sent : streams'[s] = Released[s] /\ s \notin Requested
  /\ \A s \in Requested : msgs[s].kind = "snapshot"
  /\ down' \in [Panels -> Seq(Message)]
  /\ \A c \in Panels : IF hub[c] = None THEN down'[c] = down[c]
                       ELSE /\ Extends(down[c], down'[c])
                            /\ \A s \in Streams \ (sent \cap hub[c]) : NoNews(down[c], down'[c], s)
                            /\ \A s \in sent \cap hub[c] : OneNew(down[c], down'[c], msgs[s])

LEMMA BroadcastIs ==
  ASSUME PanelType, NEW sent \in SUBSET Streams,
         NEW msgs \in [sent -> Update], \A s \in sent : msgs[s].s = s,
         Broadcast(sent, msgs)
  PROVE  /\ down' \in [Panels -> Seq(Message)]
         /\ \A c \in Panels : IF hub[c] = None THEN down'[c] = down[c]
                       ELSE /\ Extends(down[c], down'[c])
                            /\ \A s \in Streams \ (sent \cap hub[c]) : NoNews(down[c], down'[c], s)
                            /\ \A s \in sent \cap hub[c] : OneNew(down[c], down'[c], msgs[s])
<1>1. ASSUME NEW c \in Panels
      PROVE  /\ down'[c] \in Seq(Message)
             /\ IF hub[c] = None THEN down'[c] = down[c]
                ELSE /\ Extends(down[c], down'[c])
                     /\ \A s \in Streams \ (sent \cap hub[c]) : NoNews(down[c], down'[c], s)
                     /\ \A s \in sent \cap hub[c] : OneNew(down[c], down'[c], msgs[s])
  <2>1. down[c] \in Seq(Message) /\ (hub[c] # None => hub[c] \in SUBSET Streams)
    BY DEF PanelType
  <2>2. CASE hub[c] = None
    BY <2>1, <2>2 DEF Broadcast
  <2>3. CASE hub[c] # None
    <3>1. down'[c] = down[c] \o Posted(c, sent, msgs)
      BY <2>3 DEF Broadcast
    <3>2. /\ Extends(down[c], down'[c])
          /\ \A s \in Streams \ (sent \cap hub[c]) : NoNews(down[c], down'[c], s)
          /\ \A s \in sent \cap hub[c] : OneNew(down[c], down'[c], msgs[s])
      BY <2>1, <2>3, <3>1, PostedIs
    <3> QED  BY <2>3, <3>2 DEF Extends
  <2> QED  BY <2>2, <2>3
<1>2. down' = [c \in Panels |-> down'[c]]
  BY DEF Broadcast
<1> QED  BY <1>1, <1>2

-----------------------------------------------------------------------------
(* A pass keeps the links. *)

LEMMA FastSends ==
  ASSUME Inv, Fast, StreamsFit', last' \in [Streams -> Content]
  PROVE  \E sent, msgs : Sends(sent, msgs)
<1> DEFINE sent == {x \in Convs : fast.n[x] > 0 /\ Released[x] # None}
           msgs == [x \in sent |-> [kind |-> "patch", s |-> x, seq |-> Released[x].seq + 1, add |-> fast.n[x], state |-> None]]
<1>1. sent \in SUBSET Streams /\ sent \subseteq Convs
  BY DEF Streams
<1>2. fast.n \in [Convs -> Nat] /\ Requested = {}
  BY DEF Inv, WorldInv, WorldType, Fast, TakesFastPath
<1>3. \A x \in sent : Released[x] = streams[x] /\ streams[x] \in Stream /\ streams[x] # None
  BY <1>1, ReleasedFits DEF Inv, StreamsFit
<1>4. msgs \in [sent -> Update] /\ \A x \in sent : msgs[x].s = x
  BY <1>1, <1>2, <1>3 DEF Update, Stream
<1>5. streams' \in [Streams -> {None} \cup Stream]
  BY DEF StreamsFit
<1>6. ASSUME NEW x \in sent PROVE Succeeds(msgs[x], streams[x], streams'[x])
  <2> DEFINE m == [kind |-> "patch", s |-> x, seq |-> streams[x].seq + 1, add |-> fast.n[x], state |-> None]
  <2>1. msgs[x] = m /\ m \in Update
    BY <1>3, <1>4
  <2>2. streams'[x] = [seq |-> streams[x].seq + 1, state |-> [streams[x].state EXCEPT !.t = @ + fast.n[x]]]
    BY <1>1, <1>3, <1>6 DEF Fast
  <2>3. streams'[x] # None /\ streams'[x] \in Stream
    <3>1. x \in Streams /\ streams[x].seq + 1 \in Nat \ {0} /\ streams[x].state \in Content
      BY <1>1, <1>3 DEF Stream
    <3>2. last'[x] = [last[x] EXCEPT !.t = @ + fast.n[x]]
      BY <1>1, <3>1 DEF Fast
    <3>3. last[x] = streams[x].state
      BY <1>3, <3>1 DEF Inv, StreamsFit
    <3>4. streams'[x] \in Stream
      BY <2>2, <3>1, <3>2, <3>3 DEF Stream
    <3> QED  BY <3>4, NoneIsApart
  <2>4. streams'[x].state = Add(streams[x].state, m)
    BY <2>2 DEF Add
  <2> QED  BY <1>3, <2>1, <2>2, <2>3, <2>4 DEF Succeeds
<1>7. \A s \in Streams \ sent : streams'[s] = Released[s] /\ s \notin Requested
  BY <1>2 DEF Fast
<1>8. Broadcast(sent, msgs)
  BY DEF Fast
<1>9. /\ down' \in [Panels -> Seq(Message)]
      /\ \A c \in Panels : IF hub[c] = None THEN down'[c] = down[c]
                       ELSE /\ Extends(down[c], down'[c])
                            /\ \A s \in Streams \ (sent \cap hub[c]) : NoNews(down[c], down'[c], s)
                            /\ \A s \in sent \cap hub[c] : OneNew(down[c], down'[c], msgs[s])
  BY <1>1, <1>4, <1>8, BroadcastIs DEF Inv
<1> HIDE DEF sent, msgs
<1>10. Sends(sent, msgs)
  BY <1>1, <1>2, <1>4, <1>5, <1>6, <1>7, <1>9 DEF Sends
<1> QED  BY <1>10

LEMMA FullSends ==
  ASSUME Inv, Full, StreamsFit'
  PROVE  \E sent, msgs : Sends(sent, msgs)
<1> DEFINE changed == last = None \/ moved # {} \/ fast.require
           snapshots == Requested \cup (IF last = None THEN {Global} ELSE {})
           patches == {s \in Streams \ snapshots : changed /\ Released[s] # None /\ Released[s].state # world[s]}
           sent == snapshots \cup patches
           Seq0(s) == IF Released[s] = None THEN 0 ELSE Released[s].seq
           msgs == [s \in sent |-> [kind |-> IF s \in snapshots THEN "snapshot" ELSE "patch",
                                    s |-> s, seq |-> Seq0(s) + 1, add |-> 0, state |-> world[s]]]
<1>1. sent \in SUBSET Streams /\ snapshots \in SUBSET Streams /\ Requested \subseteq snapshots
  BY RequestedIs DEF Streams, Inv, HostInv
<1>2. world \in [Streams -> Content]
  BY DEF Inv, WorldInv, WorldType
<1>3. \A s \in sent : Released[s] = streams[s] /\ (s \notin snapshots => streams[s] # None)
  <2> TAKE s \in sent
  <2>1. CASE s \in Requested
    BY <1>1, <2>1 DEF Released
  <2>2. CASE last = None /\ s = Global
    <3>1. streams[s] = None
      BY <2>2, <1>1 DEF Inv, StreamsFit
    <3> QED  BY <1>1, <2>2, <3>1 DEF Released
  <2>3. CASE s \in patches
    BY <2>3, ReleasedFits DEF Inv
  <2> QED  BY <2>1, <2>2, <2>3
<1>4. \A s \in Streams : streams[s] # None => streams[s] \in Stream
  BY DEF Inv, StreamsFit
<1>5. streams' \in [Streams -> {None} \cup Stream]
  BY DEF StreamsFit
<1>6. ASSUME NEW s \in sent
      PROVE  msgs[s] \in Update /\ msgs[s].s = s /\ Succeeds(msgs[s], streams[s], streams'[s])
             /\ (s \in Requested => msgs[s].kind = "snapshot")
  <2> DEFINE seq == IF streams[s] = None THEN 0 ELSE streams[s].seq
             m == [kind |-> IF s \in snapshots THEN "snapshot" ELSE "patch",
                                    s |-> s, seq |-> seq + 1, add |-> 0, state |-> world[s]]
  <2>1. msgs[s] = m
    BY <1>3
  <2>2. s \in Streams /\ seq \in Nat /\ world[s] \in Content /\ world[s] # None
    BY <1>1, <1>2, <1>4, NoneIsApart DEF Stream
  <2>3. m \in Update /\ m.s = s /\ m.seq = seq + 1 /\ m.state = world[s] /\ m.add = 0
    BY <2>2 DEF Update
  <2>4. streams'[s] = [seq |-> seq + 1, state |-> world[s]]
    BY <1>3, <2>2 DEF Full
  <2>5. streams'[s] \in Stream /\ streams'[s].seq = seq + 1 /\ streams'[s].state = world[s]
    BY <2>2, <2>4 DEF Stream
  <2>6. m.kind = "patch" => streams[s] # None
    BY <1>3
  <2>7. s \in Requested => m.kind = "snapshot"
    BY <1>1
  <2>8. seq + 1 = IF streams[s] = None THEN 1 ELSE streams[s].seq + 1
    OBVIOUS
  <2> HIDE DEF m, seq
  <2>9. Succeeds(m, streams[s], streams'[s])
    BY <2>2, <2>3, <2>5, <2>6, <2>8 DEF Succeeds
  <2> QED  BY <2>1, <2>3, <2>7, <2>9
<1>7. msgs \in [sent -> Update]
  <2>1. msgs = [s \in sent |-> msgs[s]]
    OBVIOUS
  <2> HIDE DEF msgs
  <2> QED  BY <2>1, <1>6
<1>8. \A s \in Streams \ sent : streams'[s] = Released[s] /\ s \notin Requested
  BY <1>1 DEF Full
<1>9. Broadcast(sent, msgs)
  BY DEF Full
<1> HIDE DEF sent, msgs, snapshots
<1>10. /\ down' \in [Panels -> Seq(Message)]
       /\ \A c \in Panels : IF hub[c] = None THEN down'[c] = down[c]
                       ELSE /\ Extends(down[c], down'[c])
                            /\ \A s \in Streams \ (sent \cap hub[c]) : NoNews(down[c], down'[c], s)
                            /\ \A s \in sent \cap hub[c] : OneNew(down[c], down'[c], msgs[s])
  BY <1>1, <1>6, <1>7, <1>9, BroadcastIs DEF Inv
<1>11. Requested \subseteq sent
  BY <1>1 DEF sent
<1>12. Sends(sent, msgs)
  BY <1>1, <1>5, <1>6, <1>7, <1>8, <1>10, <1>11 DEF Sends
<1> QED  BY <1>12

LEMMA IdleSends ==
  ASSUME Inv, Idle, StreamsFit'
  PROVE  \E sent, msgs : Sends(sent, msgs)
<1>1. streams' = Released /\ down' = down /\ Requested = {}
  BY DEF Idle, Skips
<1>2. \A c \in Panels : down[c] \in Seq(Message)
  BY DEF Inv, PanelType
<1>3. \A c \in Panels : Extends(down[c], down[c]) /\ \A s : NoNews(down[c], down[c], s)
  BY <1>2 DEF Extends, NoNews
<1> DEFINE msgs == [s \in {} |-> None]
<1>4. msgs \in [{} -> Update]
  OBVIOUS
<1>5. Sends({}, msgs)
  BY <1>1, <1>3, <1>4 DEF Sends, StreamsFit, Inv, PanelType
<1> QED  BY <1>5

LEMMA SendsKeeps ==
  ASSUME Inv, NEW sent, NEW msgs, Sends(sent, msgs), Drained,
         UNCHANGED <<loads, owed, hub, view, shown>>
  PROVE  LinksInv'
<1>1. Requested' = {} /\ Gone' = {}
  BY DEF Drained, Requested, Gone
<1>2. ASSUME NEW c \in Panels, NEW s \in Streams
      PROVE  LinkInv(c, s)'
  <2> DEFINE q == down[c]
             r == down'[c]
             e == view[c][s]
             st == streams[s]
             su == streams'[s]
  <2>1. /\ LinkInv(c, s) /\ view' = view /\ hub' = hub /\ q \in Seq(Message)
        /\ st \in {None} \cup Stream /\ su \in {None} \cup Stream
    BY DEF Inv, LinksInv, PanelType, StreamsFit, Sends
  <2>2. EntryFits(e) /\ (s = Global => e.batch = None) /\ Linked(q, s, e, st)
    BY <2>1 DEF LinkInv
  <2>3. Known(e) \in Nat
    BY <2>2, KnownIs
  <2>4. CASE ~Listens(c, s)
    <3>1. Known(e) = 0 /\ NothingOf(q, s)
      BY <2>1, <2>4 DEF LinkInv
    <3>2. NothingOf(r, s)
      <4>1. CASE hub[c] = None
        BY <3>1, <4>1 DEF Sends
      <4>2. CASE hub[c] # None
        <5>1. Extends(q, r) /\ NoNews(q, r, s)
          BY <2>4, <4>2 DEF Sends, Listens
        <5> QED  BY <3>1, <5>1 DEF Extends, NoNews, NothingOf
      <4> QED  BY <4>1, <4>2
    <3>3. Linked(r, s, e, su)
      BY <2>1, <3>1, <3>2, LinkedNothing
    <3> QED  BY <2>1, <2>2, <2>4, <3>1, <3>2, <3>3 DEF LinkInv, Listens
  <2>5. CASE Listens(c, s) /\ s \in sent
    <3>1. Extends(q, r) /\ OneNew(q, r, msgs[s]) /\ Succeeds(msgs[s], st, su) /\ msgs[s].s = s
      BY <2>5 DEF Sends, Listens
    <3>2. Linked(r, s, e, su)
      BY <2>1, <2>2, <3>1, LinkedGrows
    <3>3. Coming(q, s) => Coming(r, s)
      BY <3>1 DEF Extends, Coming
    <3>4. s \in Requested => Coming(r, s)
      BY <3>1 DEF OneNew, Coming, Sends
    <3>5. Known(e) > 0 \/ Coming(r, s) \/ Promised(s)'
      BY <2>1, <2>5, <3>3, <3>4 DEF LinkInv, Promised
    <3> QED  BY <1>1, <2>1, <2>2, <2>5, <3>2, <3>5 DEF LinkInv, Listens
  <2>6. CASE Listens(c, s) /\ s \notin sent
    <3>1. Extends(q, r) /\ NoNews(q, r, s) /\ su = Released[s] /\ s \notin Requested
      BY <2>6 DEF Sends, Listens
    <3>2. Linked(r, s, e, su)
      <4>1. CASE s \in Gone
        <5>1. Known(e) = 0 /\ NothingOf(q, s)
          BY <2>1, <4>1 DEF LinkInv
        <5>2. NothingOf(r, s)
          BY <3>1, <5>1 DEF Extends, NoNews, NothingOf
        <5> QED  BY <2>1, <5>1, <5>2, LinkedNothing
      <4>2. CASE s \notin Gone
        <5>1. su = st
          BY <3>1, <4>2 DEF Released
        <5>2. Linked(r, s, e, st)
          BY <2>1, <2>2, <3>1, LinkedKeeps
        <5> QED  BY <5>1, <5>2
      <4> QED  BY <4>1, <4>2
    <3>3. Coming(q, s) => Coming(r, s)
      BY <3>1 DEF Extends, Coming
    <3>4. Known(e) > 0 \/ Coming(r, s) \/ Promised(s)'
      BY <2>1, <2>6, <3>1, <3>3 DEF LinkInv, Promised
    <3> QED  BY <1>1, <2>1, <2>2, <2>6, <3>2, <3>4 DEF LinkInv, Listens
  <2> QED  BY <2>4, <2>5, <2>6
<1>3. \A c \in Panels, x \in Convs : TwinInv(c, x)'
  BY TwinKeeps DEF Inv, LinksInv
<1> QED  BY <1>2, <1>3 DEF LinksInv

LEMMA PassKeeps ==
  ASSUME Inv, Pass
  PROVE  Inv' /\ NobodyStarvesStep
<1>1. WorldInv' /\ StreamsFit' /\ NobodyStarvesStep
  BY FastWorld, FullWorld, IdleWorld DEF Inv, Pass
<1>2. PICK sent, msgs : Sends(sent, msgs)
  BY <1>1, FastWorld, FastSends, FullSends, IdleSends DEF Inv, Pass
<1>3. LinksInv'
  BY <1>2, SendsKeeps DEF Pass, client
<1>4. HostInv'
  BY DEF Inv, HostInv, Pass, Drained
<1>5. PanelType'
  BY <1>2 DEF Inv, PanelType, Pass, client, Sends
<1> QED  BY <1>1, <1>3, <1>4, <1>5 DEF Inv

-----------------------------------------------------------------------------
(* The other steps. *)

LEMMA FreshIs ==
  Fresh \in Entry /\ EntryFits(Fresh) /\ Known(Fresh) = 0 /\ Pending(Fresh) = Empty /\ Fresh.batch = None
<1>1. Empty \in Content
  BY BoundsAreNumbers DEF Empty, Content
<1> QED  BY <1>1 DEF Fresh, Entry, EntryFits, Known, Pending

LEMMA InitInv ==
  ASSUME Init
  PROVE  Inv
<1>1. WorldInv
  <2>1. Empty \in Content
    BY BoundsAreNumbers DEF Empty, Content
  <2>2. WorldType
    <3>1. fast \in [n : [Convs -> Nat], defer : BOOLEAN, require : BOOLEAN]
      BY DEF Init
    <3>2. budget \in Budget
      BY BoundsAreNumbers DEF Init, Budget
    <3> QED  BY <2>1, <3>1, <3>2 DEF Init, WorldType
  <2>3. WithinBudget /\ LastFits
    BY DEF Init, WithinBudget, LastFits, Empty
  <2> QED  BY <2>2, <2>3 DEF WorldInv
<1>2. StreamsFit
  BY DEF Init, StreamsFit
<1>3. HostInv
  <2>1. events \in Seq(Event) /\ loads \in [Convs -> Nat]
    BY DEF Init
  <2> QED  BY <2>1 DEF Init, HostInv
<1>4. PanelType
  BY FreshIs DEF Init, PanelType
<1>5. LinksInv
  <2>1. ASSUME NEW c \in Panels, NEW s \in Streams PROVE LinkInv(c, s)
    <3>1. view[c][s] = Fresh /\ down[c] = <<>> /\ ~Listens(c, s) /\ streams[s] = None
      BY <2>1 DEF Init, Listens
    <3>2. NothingOf(down[c], s)
      BY <3>1 DEF NothingOf
    <3>3. Linked(down[c], s, view[c][s], streams[s])
      BY <3>1, <3>2, FreshIs, LinkedNothing
    <3> QED  BY <3>1, <3>2, <3>3, FreshIs DEF LinkInv
  <2>2. ASSUME NEW c \in Panels, NEW x \in Convs PROVE TwinInv(c, x)
    BY <2>2, FreshIs DEF Init, TwinInv, Streams
  <2> QED  BY <2>1, <2>2 DEF LinksInv
<1> QED  BY <1>1, <1>2, <1>3, <1>4, <1>5 DEF Inv

\* A change of the world touches neither host nor panels.
LEMMA WorldKeeps ==
  ASSUME Inv, WorldInv', UNCHANGED <<sync, host, hub, up, down, client>>
  PROVE  Inv'
<1>1. Requested' = Requested /\ Gone' = Gone
  BY DEF Requested, Gone, host
<1>2. \A c \in Panels, s \in Streams : LinkInv(c, s)'
  BY <1>1, LinkKeeps DEF Inv, LinksInv, Promised, host, sync, client
<1>3. \A c \in Panels, x \in Convs : TwinInv(c, x)'
  BY TwinKeeps DEF Inv, LinksInv, client
<1>4. StreamsFit' /\ HostInv' /\ PanelType'
  BY DEF Inv, StreamsFit, HostInv, PanelType, sync, host, client
<1> QED  BY <1>2, <1>3, <1>4 DEF Inv, LinksInv

\* A step of the host that asks for snapshots, forgets none it owes and releases nothing.
LEMMA HostKeeps ==
  ASSUME Inv, HostInv', Gone' = Gone, \A s \in Streams : Promised(s) => Promised(s)',
         UNCHANGED <<model, sync, hub, up, down, client, budget>>
  PROVE  Inv'
<1>1. \A c \in Panels, s \in Streams : LinkInv(c, s)'
  BY LinkKeeps DEF Inv, LinksInv, sync, client
<1>2. \A c \in Panels, x \in Convs : TwinInv(c, x)'
  BY TwinKeeps DEF Inv, LinksInv, client
<1>3. WorldInv' /\ StreamsFit' /\ PanelType'
  BY DEF Inv, WorldInv, WorldType, WithinBudget, LastFits, StreamsFit, PanelType, model, sync, client
<1> QED  BY <1>1, <1>2, <1>3 DEF Inv, LinksInv

LEMMA HydratedKeeps ==
  ASSUME Inv, Hydrated
  PROVE  Inv'
<1>1. HostInv' /\ Gone' = Gone /\ Requested' = Requested \cup owed /\ loads' = loads
  BY HydratedHost DEF Inv, Hydrated
<1>2. \A s \in Streams : Promised(s) => Promised(s)'
  BY <1>1 DEF Promised
<1> QED  BY <1>1, <1>2, HostKeeps DEF Hydrated

LEMMA TailLoadedKeeps ==
  ASSUME Inv, NEW x \in Convs, TailLoaded(x)
  PROVE  Inv'
<1>1. x \in Streams /\ AsksSnapshot(x) /\ UNCHANGED hydrated /\ HostInv
  BY DEF Inv, TailLoaded, Streams
<1>2. /\ events' \in Seq(Event) /\ owed' \subseteq Streams /\ (hydrated => owed' = {})
      /\ Gone' = Gone /\ x \in Requested' \cup owed' /\ Requested \cup owed \subseteq Requested' \cup owed'
  BY <1>1, Asked
<1>3. loads' = [loads EXCEPT ![x] = @ - 1] /\ loads' \in [Convs -> Nat]
  BY DEF Inv, HostInv, TailLoaded
<1>4. HostInv'
  BY <1>1, <1>2, <1>3 DEF HostInv
<1>5. \A s \in Streams : Promised(s) => Promised(s)'
  BY <1>2, <1>3 DEF Promised
<1> QED  BY <1>2, <1>4, <1>5, HostKeeps DEF TailLoaded

\* A panel subscribes and is owed a snapshot.
LEMMA HandlesKeeps ==
  ASSUME Inv, NEW c \in Panels, Handles(c)
  PROVE  Inv'
<1> DEFINE q == Head(up[c])
           hello == [kind |-> "hello", s |-> None]
<1>1. /\ up[c] \in Seq({"ready"} \cup Streams) /\ up[c] # <<>> /\ up' = [up EXCEPT ![c] = Tail(@)]
      /\ hub[c] # None /\ hub[c] \in SUBSET Streams
  BY DEF Inv, PanelType, Handles
<1>2. q \in {"ready"} \cup Streams /\ Tail(up[c]) \in Seq({"ready"} \cup Streams)
  BY <1>1
<1>3. Global \in Streams
  BY DEF Streams
<1>z. PICK z \in Streams : z = IF q = "ready" THEN Global ELSE q
  BY <1>2, <1>3
<1>4. hub' = [hub EXCEPT ![c] = @ \cup {z}]
  BY <1>z DEF Handles, Subscribe
<1>5. down' = down \/ (q = "ready" /\ down' = [down EXCEPT ![c] = Append(@, hello)])
  BY DEF Handles
<1>6. UNCHANGED <<model, sync, hydrated, client, budget>>
  BY DEF Handles
<1>7. HostInv' /\ Gone' = Gone /\ Promised(z)' /\ \A s \in Streams : Promised(s) => Promised(s)'
  <2>1. CASE z = Global
    <3>1. AsksSnapshot(Global) /\ UNCHANGED loads
      <4>1. q = "ready" \/ q = Global
        BY <1>z, <2>1
      <4> QED  BY <4>1 DEF Handles
    <3>2. /\ events' \in Seq(Event) /\ owed' \subseteq Streams /\ (hydrated => owed' = {})
          /\ Gone' = Gone /\ Global \in Requested' \cup owed' /\ Requested \cup owed \subseteq Requested' \cup owed'
      BY <1>3, <1>6, <3>1, Asked DEF Inv
    <3> QED  BY <2>1, <1>6, <3>1, <3>2 DEF Inv, HostInv, Promised
  <2>2. CASE z # Global
    <3>1. q # "ready" /\ q # Global /\ z = q
      BY <1>z, <2>2
    <3>2. loads' = [loads EXCEPT ![z] = @ + 1] /\ UNCHANGED <<events, owed>>
      BY <3>1 DEF Handles
    <3>3. z \in Convs
      BY <2>2 DEF Streams
    <3>4. Requested' = Requested /\ Gone' = Gone
      BY <3>2 DEF Requested, Gone
    <3>5. loads \in [Convs -> Nat]
      BY DEF Inv, HostInv
    <3>6. loads' \in [Convs -> Nat] /\ loads'[z] > 0 /\ \A x \in Convs : loads[x] > 0 => loads'[x] > 0
      BY <3>2, <3>3, <3>5
    <3>7. HostInv'
      BY <1>6, <3>2, <3>6, <3>4 DEF Inv, HostInv
    <3> QED  BY <3>2, <3>3, <3>4, <3>6, <3>7 DEF Promised
  <2> QED  BY <2>1, <2>2
<1>8. ASSUME NEW d \in Panels
      PROVE  /\ down'[d] \in Seq(Message) /\ Extends(down[d], down'[d])
             /\ \A s \in Streams : NoNews(down[d], down'[d], s)
  <2>1. down[d] \in Seq(Message) /\ DOMAIN down = Panels
    BY DEF Inv, PanelType
  <2>2. CASE down'[d] = down[d]
    BY <2>1, <2>2 DEF Extends, NoNews
  <2>3. CASE down'[d] = Append(down[d], hello)
    <3>1. hello \in Message /\ hello.s = None
      BY DEF Message, Hello
    <3>2. /\ down'[d] \in Seq(Message) /\ DOMAIN down'[d] = DOMAIN down[d] \cup {Len(down[d]) + 1}
          /\ DOMAIN down[d] = 1..Len(down[d]) /\ Len(down[d]) \in Nat
          /\ \A i \in DOMAIN down[d] : down'[d][i] = down[d][i]
          /\ down'[d][Len(down[d]) + 1] = hello
      BY <2>1, <2>3, <3>1
    <3> HIDE DEF hello
    <3>3. Extends(down[d], down'[d])
      BY <3>2 DEF Extends
    <3>4. \A s \in Streams : NoNews(down[d], down'[d], s)
      BY <3>1, <3>2, NoneIsApart DEF NoNews
    <3> QED  BY <3>2, <3>3, <3>4
  <2> QED  BY <1>5, <2>1, <2>2, <2>3
<1>9. ASSUME NEW d \in Panels, NEW s \in Streams
      PROVE  LinkInv(d, s)'
  <2>1. /\ LinkInv(d, s) /\ view' = view /\ streams' = streams /\ down[d] \in Seq(Message)
        /\ Extends(down[d], down'[d]) /\ NoNews(down[d], down'[d], s)
    BY <1>6, <1>8 DEF Inv, LinksInv, PanelType, sync, client
  <2>2. Linked(down'[d], s, view[d][s], streams[s])
    BY <2>1, LinkedKeeps DEF LinkInv
  <2>3. NothingOf(down[d], s) => NothingOf(down'[d], s)
    BY <2>1 DEF NothingOf, Extends, NoNews
  <2>4. Coming(down[d], s) => Coming(down'[d], s)
    BY <2>1 DEF Coming, Extends
  <2>5. (Listens(d, s) => Listens(d, s)') /\ (Listens(d, s)' => Listens(d, s) \/ s = z)
    <3>1. hub \in [Panels -> {None} \cup SUBSET Streams]
      BY DEF Inv, PanelType
    <3>2. hub[c] \cup {z} # None
      BY <1>1, <1>3, NoneIsApart
    <3> QED  BY <1>1, <1>4, <3>1, <3>2 DEF Listens
  <2> QED  BY <2>1, <2>2, <2>3, <2>4, <2>5, <1>7 DEF LinkInv
<1>10. \A d \in Panels, x \in Convs : TwinInv(d, x)'
  BY <1>6, TwinKeeps DEF Inv, LinksInv, client
<1>11. PanelType'
  <2>1. hub' \in [Panels -> {None} \cup SUBSET Streams]
    BY <1>1, <1>3, <1>4 DEF Inv, PanelType
  <2>2. down' \in [Panels -> Seq(Message)]
    <3>1. down' = [d \in Panels |-> down'[d]]
      BY <1>5 DEF Inv, PanelType
    <3> QED  BY <3>1, <1>8
  <2>3. up' \in [Panels -> Seq({"ready"} \cup Streams)]
    BY <1>1, <1>2 DEF Inv, PanelType
  <2> QED  BY <1>6, <2>1, <2>2, <2>3 DEF Inv, PanelType, client
<1>12. WorldInv' /\ StreamsFit'
  BY <1>6 DEF Inv, WorldInv, WorldType, WithinBudget, LastFits, StreamsFit, model, sync
<1> QED  BY <1>7, <1>9, <1>10, <1>11, <1>12 DEF Inv, LinksInv

-----------------------------------------------------------------------------
(* A panel comes, and goes. *)

LEMMA BlankIs ==
  ASSUME PanelType, NEW c \in Panels, Blank(c)
  PROVE  /\ view' \in [Panels -> [Streams -> Entry]] /\ shown' \in [Panels -> [Convs -> Entry]]
         /\ current' \in [Panels -> {None} \cup Convs] /\ asked' \in [Panels -> SUBSET Convs]
         /\ \A s \in Streams : view'[c][s] = Fresh
         /\ \A x \in Convs : shown'[c][x] = Fresh /\ view'[c][x] = Fresh
         /\ \A d \in Panels \ {c} : view'[d] = view[d] /\ shown'[d] = shown[d]
<1>1. [s \in Streams |-> Fresh] \in [Streams -> Entry] /\ [x \in Convs |-> Fresh] \in [Convs -> Entry]
  BY FreshIs
<1> QED  BY <1>1 DEF PanelType, Blank, Streams

LEMMA BlankLink ==
  ASSUME Inv, NEW c \in Panels, NEW s \in Streams, view'[c][s] = Fresh, down'[c] = <<>>, ~Listens(c, s)',
         streams' = streams
  PROVE  LinkInv(c, s)'
<1>1. NothingOf(down'[c], s)
  BY DEF NothingOf
<1>2. streams[s] \in {None} \cup Stream
  BY DEF Inv, StreamsFit
<1>3. Linked(down'[c], s, view'[c][s], streams'[s])
  BY <1>1, <1>2, FreshIs, LinkedNothing
<1> QED  BY <1>1, <1>3, FreshIs DEF LinkInv

LEMMA AttachKeeps ==
  ASSUME Inv, NEW c \in Panels, Attach(c)
  PROVE  Inv'
<1>1. /\ hub[c] = None /\ hub' = [hub EXCEPT ![c] = {}] /\ up' = [up EXCEPT ![c] = <<"ready">>]
      /\ down' = [down EXCEPT ![c] = <<>>] /\ Blank(c) /\ Spend("opened") /\ UNCHANGED <<model, sync, host>>
  BY DEF Attach
<1>2. /\ view' \in [Panels -> [Streams -> Entry]] /\ shown' \in [Panels -> [Convs -> Entry]]
      /\ current' \in [Panels -> {None} \cup Convs] /\ asked' \in [Panels -> SUBSET Convs]
      /\ \A s \in Streams : view'[c][s] = Fresh
      /\ \A x \in Convs : shown'[c][x] = Fresh /\ view'[c][x] = Fresh
      /\ \A d \in Panels \ {c} : view'[d] = view[d] /\ shown'[d] = shown[d]
  BY <1>1, BlankIs DEF Inv
<1>3. /\ hub'[c] = {} /\ down'[c] = <<>>
      /\ \A d \in Panels \ {c} : hub'[d] = hub[d] /\ down'[d] = down[d]
  BY <1>1 DEF Inv, PanelType
<1>4. Requested' = Requested /\ Gone' = Gone /\ (\A s : Promised(s) => Promised(s)')
  BY <1>1 DEF Requested, Gone, Promised, host
<1>5. ASSUME NEW d \in Panels, NEW s \in Streams PROVE LinkInv(d, s)'
  <2>1. CASE d = c
    BY <2>1, <1>1, <1>2, <1>3, BlankLink DEF Listens, sync
  <2>2. CASE d # c
    BY <2>2, <1>1, <1>2, <1>3, <1>4, LinkKeeps DEF Inv, LinksInv, sync
  <2> QED  BY <2>1, <2>2
<1>6. ASSUME NEW d \in Panels, NEW x \in Convs PROVE TwinInv(d, x)'
  <2>1. CASE d = c
    BY <2>1, <1>2, FreshIs DEF TwinInv
  <2>2. CASE d # c
    BY <2>2, <1>2, TwinKeeps DEF Inv, LinksInv
  <2> QED  BY <2>1, <2>2
<1>7. PanelType'
  <2>1. hub' \in [Panels -> {None} \cup SUBSET Streams] /\ down' \in [Panels -> Seq(Message)]
    BY <1>1 DEF Inv, PanelType
  <2>2. up' \in [Panels -> Seq({"ready"} \cup Streams)]
    <3>1. <<"ready">> \in Seq({"ready"} \cup Streams)
      OBVIOUS
    <3> QED  BY <3>1, <1>1 DEF Inv, PanelType
  <2> QED  BY <2>1, <2>2, <1>2 DEF PanelType
<1>8. WorldInv'
  <2>1. /\ budget' \in Budget
        /\ budget'.changes = budget.changes /\ budget'.deltas = budget.deltas
    BY <1>1, Spent DEF Inv, WorldInv
  <2> QED  BY <2>1, <1>1 DEF Inv, WorldInv, WorldType, WithinBudget, LastFits, model, sync
<1>9. StreamsFit' /\ HostInv'
  BY <1>1 DEF Inv, StreamsFit, HostInv, sync, host
<1> QED  BY <1>5, <1>6, <1>7, <1>8, <1>9 DEF Inv, LinksInv

LEMMA DetachKeeps ==
  ASSUME Inv, NEW c \in Panels, Detach(c)
  PROVE  Inv'
<1>1. /\ hub[c] # None /\ hub' = [hub EXCEPT ![c] = None] /\ up' = [up EXCEPT ![c] = <<>>]
      /\ down' = [down EXCEPT ![c] = <<>>] /\ Blank(c) /\ UNCHANGED <<model, sync, loads, hydrated, owed, budget>>
  BY DEF Detach
<1>2. /\ view' \in [Panels -> [Streams -> Entry]] /\ shown' \in [Panels -> [Convs -> Entry]]
      /\ current' \in [Panels -> {None} \cup Convs] /\ asked' \in [Panels -> SUBSET Convs]
      /\ \A s \in Streams : view'[c][s] = Fresh
      /\ \A x \in Convs : shown'[c][x] = Fresh /\ view'[c][x] = Fresh
      /\ \A d \in Panels \ {c} : view'[d] = view[d] /\ shown'[d] = shown[d]
  BY <1>1, BlankIs DEF Inv
<1>3. /\ hub'[c] = None /\ down'[c] = <<>>
      /\ \A d \in Panels \ {c} : hub'[d] = hub[d] /\ down'[d] = down[d]
  BY <1>1 DEF Inv, PanelType
\* What is released nobody else follows.
<1>4. /\ events' \in Seq(Event) /\ Requested' = Requested
      /\ \A s \in Gone' : s \in Gone \/ \A d \in Panels \ {c} : ~Listens(d, s)
  <2>1. CASE Unused(c) = {}
    BY <2>1 DEF Detach, Inv, HostInv, Requested, Gone
  <2>2. CASE Unused(c) # {}
    <3>1. Unused(c) \in SUBSET Streams
      BY <1>1 DEF Unused, Inv, PanelType
    <3> DEFINE ss == Unused(c)
    <3>2. PICK gone \in SUBSET Streams : gone = ss
      BY <3>1
    <3>3. events' = Append(events, [kind |-> "released", ss |-> gone])
      BY <2>2, <3>2 DEF Detach
    <3>4. events' \in Seq(Event) /\ Requested' = Requested /\ Gone' = Gone \cup gone
      BY <3>3, ReleaseIs DEF Inv
    <3> QED  BY <3>2, <3>4 DEF Unused, Listens
  <2> QED  BY <2>1, <2>2
<1>5. \A s : Promised(s) => Promised(s)'
  BY <1>1, <1>4 DEF Promised
<1>6. ASSUME NEW d \in Panels, NEW s \in Streams PROVE LinkInv(d, s)'
  <2>1. CASE d = c
    BY <2>1, <1>1, <1>2, <1>3, BlankLink DEF Listens, sync
  <2>2. CASE d # c /\ Listens(d, s)
    BY <2>2, <1>1, <1>2, <1>3, <1>4, <1>5, LinkKeeps DEF Inv, LinksInv, sync
  <2>3. CASE d # c /\ ~Listens(d, s)
    <3>1. LinkInv(d, s) /\ view'[d] = view[d] /\ down'[d] = down[d] /\ streams' = streams /\ ~Listens(d, s)'
      BY <2>3, <1>1, <1>2, <1>3 DEF Inv, LinksInv, sync, Listens
    <3> QED  BY <2>3, <3>1 DEF LinkInv
  <2> QED  BY <2>1, <2>2, <2>3
<1>7. ASSUME NEW d \in Panels, NEW x \in Convs PROVE TwinInv(d, x)'
  <2>1. CASE d = c
    BY <2>1, <1>2, FreshIs DEF TwinInv
  <2>2. CASE d # c
    BY <2>2, <1>2, TwinKeeps DEF Inv, LinksInv
  <2> QED  BY <2>1, <2>2
<1>8. PanelType'
  <2>1. hub' \in [Panels -> {None} \cup SUBSET Streams] /\ down' \in [Panels -> Seq(Message)]
    BY <1>1 DEF Inv, PanelType
  <2>2. up' \in [Panels -> Seq({"ready"} \cup Streams)]
    BY <1>1 DEF Inv, PanelType
  <2> QED  BY <2>1, <2>2, <1>2 DEF PanelType
<1>9. WorldInv' /\ StreamsFit' /\ HostInv'
  BY <1>1, <1>4 DEF Inv, WorldInv, WorldType, WithinBudget, LastFits, StreamsFit, HostInv, model, sync
<1> QED  BY <1>6, <1>7, <1>8, <1>9 DEF Inv, LinksInv

-----------------------------------------------------------------------------
(* A panel takes a message. *)

LEMMA FollowsTyped ==
  ASSUME PanelType, NEW c \in Panels, NEW x \in Convs, Follows(c, x)
  PROVE  /\ current' \in [Panels -> {None} \cup Convs] /\ asked' \in [Panels -> SUBSET Convs]
         /\ up' \in [Panels -> Seq({"ready"} \cup Streams)]
<1>1. \A u \in Seq({"ready"} \cup Streams) : Append(u, x) \in Seq({"ready"} \cup Streams)
  BY DEF Streams
<1>2. current' \in [Panels -> {None} \cup Convs]
  BY DEF Follows, PanelType
<1>3. CASE UNCHANGED <<asked, up>>
  BY <1>2, <1>3 DEF PanelType
<1>4. CASE asked' = [asked EXCEPT ![c] = @ \cup {x}] /\ Ask(c, x)
  BY <1>1, <1>2, <1>4 DEF PanelType, Ask
<1> QED  BY <1>3, <1>4 DEF Follows

LEMMA FallsTyped ==
  ASSUME PanelType, NEW c \in Panels, Falls(c)
  PROVE  /\ current' \in [Panels -> {None} \cup Convs] /\ asked' \in [Panels -> SUBSET Convs]
         /\ up' \in [Panels -> Seq({"ready"} \cup Streams)]
<1>1. CASE Follows(c, Default)
  BY <1>1, ConversationsAreNamed, FollowsTyped
<1>2. CASE UNCHANGED <<current, asked, up>>
  BY <1>2 DEF PanelType
<1> QED  BY <1>1, <1>2 DEF Falls

LEMMA LinkAfter ==
  ASSUME Inv, NEW c \in Panels, NEW s \in Streams, down[c] # <<>>, down'[c] = Tail(down[c]),
         UNCHANGED <<sync, host, hub>>,
         EntryFits(view'[c][s]), s = Global => view'[c][s].batch = None,
         Linked(Tail(down[c]), s, view'[c][s], streams[s]),
         Known(view[c][s]) <= Known(view'[c][s]),
         Head(down[c]).s # s => Known(view'[c][s]) = Known(view[c][s]),
         Head(down[c]).s = s /\ Head(down[c]).kind = "snapshot" => Known(view'[c][s]) > 0
  PROVE  LinkInv(c, s)'
<1>1. LinkInv(c, s) /\ down[c] \in Seq(Message)
  BY DEF Inv, LinksInv, PanelType
<1>2. Known(view[c][s]) \in Nat /\ Known(view'[c][s]) \in Nat
  BY <1>1, KnownIs DEF LinkInv
<1>3. Gone' = Gone /\ (Promised(s) => Promised(s)') /\ streams' = streams /\ (Listens(c, s)' <=> Listens(c, s))
  BY DEF Gone, Requested, Promised, Listens, sync, host
<1>4. (Listens(c, s) /\ s \notin Gone) \/ (Known(view'[c][s]) = 0 /\ NothingOf(down'[c], s))
  <2> SUFFICES ASSUME ~(Listens(c, s) /\ s \notin Gone)
               PROVE  Known(view'[c][s]) = 0 /\ NothingOf(down'[c], s)
    OBVIOUS
  <2>1. Known(view[c][s]) = 0 /\ NothingOf(down[c], s)
    BY <1>1 DEF LinkInv
  <2>2. Head(down[c]).s # s
    BY <1>1, <2>1, TailIs DEF NothingOf
  <2>3. NothingOf(down'[c], s)
    BY <1>1, <2>1, TailIs DEF NothingOf
  <2> QED  BY <2>1, <2>2, <2>3
<1>5. Listens(c, s) => Known(view'[c][s]) > 0 \/ Coming(down'[c], s) \/ Promised(s)
  <2> SUFFICES ASSUME Listens(c, s), Coming(down[c], s)
               PROVE  Known(view'[c][s]) > 0 \/ Coming(down'[c], s)
    BY <1>1, <1>2 DEF LinkInv
  <2>1. PICK i \in DOMAIN down[c] : down[c][i].s = s /\ down[c][i].kind = "snapshot"
    BY DEF Coming
  <2>2. CASE i = 1
    BY <1>1, <2>1, <2>2, TailIs
  <2>3. CASE i # 1
    <3>1. i - 1 \in DOMAIN Tail(down[c]) /\ Tail(down[c])[i - 1] = down[c][i]
      BY <1>1, <2>3, TailIs
    <3> QED  BY <2>1, <3>1 DEF Coming
  <2> QED  BY <2>2, <2>3
<1> QED  BY <1>1, <1>3, <1>4, <1>5 DEF LinkInv

\* It changes what is known of the stream of the message only.
LEMMA ReceiveLinks ==
  ASSUME Inv, NEW c \in Panels, down[c] # <<>>, down' = [down EXCEPT ![c] = Tail(@)],
         UNCHANGED <<sync, host, hub>>,
         \A d \in Panels \ {c} : view'[d] = view[d] /\ shown'[d] = shown[d],
         NEW z, z = Head(down[c]).s, \A s \in Streams \ {z} : view'[c][s] = view[c][s],
         \A x \in Convs \ {z} : shown'[c][x] = shown[c][x],
         z \in Streams => /\ EntryFits(view'[c][z]) /\ (z = Global => view'[c][z].batch = None)
                          /\ Linked(Tail(down[c]), z, view'[c][z], streams[z])
                          /\ Known(view[c][z]) <= Known(view'[c][z])
                          /\ Head(down[c]).kind = "snapshot" => Known(view'[c][z]) > 0,
         z \in Convs => TwinInv(c, z)'
  PROVE  LinksInv'
<1>1. \A d \in Panels \ {c} : down'[d] = down[d]
  BY DEF Inv, PanelType
<1>2. down'[c] = Tail(down[c]) /\ down[c] \in Seq(Message)
  BY DEF Inv, PanelType
<1>3. Gone' = Gone /\ streams' = streams /\ hub' = hub /\ \A s : Promised(s) => Promised(s)'
  BY DEF Gone, Requested, Promised, sync, host
<1>4. ASSUME NEW d \in Panels, NEW s \in Streams PROVE LinkInv(d, s)'
  <2>1. CASE d # c
    BY <2>1, <1>1, <1>3, LinkKeeps DEF Inv, LinksInv
  <2>2. CASE d = c /\ s # z
    <3>1. LinkInv(c, s) /\ view'[c][s] = view[c][s] /\ streams[s] \in {None} \cup Stream
      BY <2>2 DEF Inv, LinksInv, StreamsFit
    <3>2. EntryFits(view[c][s]) /\ Linked(down[c], s, view[c][s], streams[s]) /\ (s = Global => view[c][s].batch = None)
      BY <3>1 DEF LinkInv
    <3>3. Linked(Tail(down[c]), s, view[c][s], streams[s])
      BY <1>2, <2>2, <3>1, <3>2, LinkedSkips
    <3>4. Known(view[c][s]) \in Nat
      BY <3>2, KnownIs
    <3> QED  BY <1>2, <2>2, <3>1, <3>2, <3>3, <3>4, LinkAfter
  <2>3. CASE d = c /\ s = z
    BY <1>2, <2>3, LinkAfter
  <2> QED  BY <2>1, <2>2, <2>3
<1>5. ASSUME NEW d \in Panels, NEW x \in Convs PROVE TwinInv(d, x)'
  <2>1. CASE d = c /\ x = z
    BY <2>1
  <2>2. CASE d # c \/ x # z
    <3>1. x \in Streams
      BY DEF Streams
    <3> QED  BY <2>2, <3>1, TwinKeeps DEF Inv, LinksInv
  <2> QED  BY <2>1, <2>2
<1> QED  BY <1>4, <1>5 DEF LinksInv

LEMMA HelloKeeps ==
  ASSUME Inv, NEW c \in Panels, Receive(c), Head(down[c]).kind = "hello", ReceiveHello(c)
  PROVE  LinksInv' /\ PanelType'
<1>1. down[c] # <<>> /\ down' = [down EXCEPT ![c] = Tail(@)] /\ UNCHANGED <<sync, host, hub, view, shown>>
  BY DEF Receive, ReceiveHello
<1>2. down[c] \in Seq(Message) /\ Head(down[c]) \in Message
  BY <1>1, TailIs DEF Inv, PanelType
<1>3. PICK z : z = Head(down[c]).s
  OBVIOUS
<1>4. z \notin Streams
  BY <1>2, <1>3, NoneIsApart DEF Message, Hello, Update
<1>5. LinksInv'
  BY <1>1, <1>3, <1>4, ReceiveLinks DEF Streams
<1>6. /\ current' \in [Panels -> {None} \cup Convs] /\ asked' \in [Panels -> SUBSET Convs]
      /\ up' \in [Panels -> Seq({"ready"} \cup Streams)]
  <2>1. CASE Follows(c, Default)
    BY <2>1, ConversationsAreNamed, FollowsTyped DEF Inv
  <2>2. CASE UNCHANGED <<current, asked, up>>
    BY <2>2 DEF Inv, PanelType
  <2> QED  BY <2>1, <2>2 DEF ReceiveHello
<1>7. down' \in [Panels -> Seq(Message)]
  BY <1>1, <1>2, TailIs DEF Inv, PanelType
<1> QED  BY <1>1, <1>5, <1>6, <1>7 DEF Inv, PanelType

LEMMA SnapshotKeeps ==
  ASSUME Inv, NEW c \in Panels, Receive(c),
         NEW q, q = Head(down[c]), q.kind = "snapshot", ReceiveSnapshot(c, q)
  PROVE  LinksInv' /\ PanelType'
<1>1. down[c] # <<>> /\ down' = [down EXCEPT ![c] = Tail(@)] /\ UNCHANGED <<sync, host, hub>>
  BY DEF Receive
<1>2. down[c] \in Seq(Message) /\ q \in Update
  <2>1. down[c] \in Seq(Message) /\ q \in Message
    BY <1>1, TailIs DEF Inv, PanelType
  <2> QED  BY <2>1 DEF Message, Hello
<1>3. PICK z \in Streams : z = q.s
  BY <1>2 DEF Update
<1>4. view' = [view EXCEPT ![c][z] = Snapshot(@, q)]
  BY <1>3 DEF ReceiveSnapshot
<1>5. /\ view'[c][z] = Snapshot(view[c][z], q) /\ \A s \in Streams \ {z} : view'[c][s] = view[c][s]
      /\ \A d \in Panels \ {c} : view'[d] = view[d]
  BY <1>4 DEF Inv, PanelType
<1>6. LinkInv(c, z) /\ streams[z] \in {None} \cup Stream
  BY DEF Inv, LinksInv, StreamsFit
<1>7. /\ EntryFits(view'[c][z]) /\ Linked(Tail(down[c]), z, view'[c][z], streams[z])
      /\ view'[c][z].batch = None
      /\ Known(view'[c][z]) = q.seq /\ Pending(view'[c][z]) = q.state /\ Known(view[c][z]) < q.seq
  BY <1>1, <1>2, <1>3, <1>5, <1>6, LinkedSnapshot DEF LinkInv
<1>8. Known(view[c][z]) \in Nat /\ q.seq \in Nat
  BY <1>2, <1>6, KnownIs DEF LinkInv, Update
<1>9. /\ shown' \in [Panels -> [Convs -> Entry]]
      /\ z \in Convs => TwinInv(c, z)'
      /\ \A x \in Convs \ {z} : shown'[c][x] = shown[c][x]
      /\ \A d \in Panels \ {c} : shown'[d] = shown[d]
  <2>1. CASE z = Global
    <3>1. shown' = shown
      BY <1>3, <2>1 DEF ReceiveSnapshot
    <3> QED  BY <2>1, <3>1, ConversationsAreNamed DEF Inv, PanelType
  <2>2. CASE z # Global
    <3>1. z \in Convs
      BY <2>2 DEF Streams
    <3>2. TwinInv(c, z) /\ shown \in [Panels -> [Convs -> Entry]]
      BY <3>1 DEF Inv, LinksInv, PanelType
    <3>3. shown[c][z].seq < q.seq /\ EntryFits(shown[c][z]) /\ shown[c][z].seq \in Nat
      BY <1>7, <1>8, <3>2, KnownIs DEF TwinInv, EntryFits, Entry
    <3>4. shown' = [shown EXCEPT ![c][z] = IF @.has /\ q.seq <= @.seq THEN [@ EXCEPT !.batch = None] ELSE Snapshot(@, q)]
      BY <1>3, <2>2 DEF ReceiveSnapshot
    <3>5. shown'[c][z] = Snapshot(shown[c][z], q)
      BY <1>8, <3>1, <3>2, <3>3, <3>4
    <3>6. q.state \in Content
      BY <1>7, <1>5, <1>6 DEF EntryFits, Entry, Snapshot, LinkInv
    <3>7. /\ shown'[c][z] \in Entry /\ shown'[c][z].batch = None /\ shown'[c][z].seq = q.seq
          /\ shown'[c][z].state = q.state
      BY <1>8, <3>3, <3>5, <3>6 DEF Snapshot, Entry, EntryFits
    <3>8. TwinInv(c, z)'
      BY <1>7, <3>7 DEF TwinInv, EntryFits, Known, Pending
    <3>9. shown' \in [Panels -> [Convs -> Entry]]
      BY <3>1, <3>2, <3>4, <3>5, <3>7
    <3> QED  BY <3>1, <3>2, <3>4, <3>8, <3>9
  <2> QED  BY <2>1, <2>2
<1>10. LinksInv'
  <2>1. /\ \A d \in Panels \ {c} : view'[d] = view[d] /\ shown'[d] = shown[d]
        /\ \A s \in Streams \ {z} : view'[c][s] = view[c][s]
        /\ \A x \in Convs \ {z} : shown'[c][x] = shown[c][x]
        /\ z = Head(down[c]).s
    BY <1>3, <1>5, <1>9
  <2>2. /\ EntryFits(view'[c][z]) /\ (z = Global => view'[c][z].batch = None)
        /\ Linked(Tail(down[c]), z, view'[c][z], streams[z])
        /\ Known(view[c][z]) <= Known(view'[c][z])
        /\ Head(down[c]).kind = "snapshot" => Known(view'[c][z]) > 0
    BY <1>7, <1>8
  <2> QED  BY <1>1, <1>9, <2>1, <2>2, ReceiveLinks
<1>11. view' \in [Panels -> [Streams -> Entry]]
  BY <1>4, <1>5, <1>7 DEF Inv, PanelType, EntryFits
<1>12. down' \in [Panels -> Seq(Message)]
  BY <1>1, <1>2, TailIs DEF Inv, PanelType
<1>13. /\ current' \in [Panels -> {None} \cup Convs] /\ asked' \in [Panels -> SUBSET Convs]
       /\ up' \in [Panels -> Seq({"ready"} \cup Streams)]
  BY FallsTyped DEF ReceiveSnapshot, Inv
<1> QED  BY <1>1, <1>9, <1>10, <1>11, <1>12, <1>13 DEF Inv, PanelType

LEMMA PatchKeeps ==
  ASSUME Inv, NEW c \in Panels, Receive(c), NEW q, q = Head(down[c]), q.kind = "patch", ReceivePatch(c, q)
  PROVE  LinksInv' /\ PanelType'
<1>1. down[c] # <<>> /\ down' = [down EXCEPT ![c] = Tail(@)] /\ UNCHANGED <<sync, host, hub>>
  BY DEF Receive
<1>2. down[c] \in Seq(Message) /\ q \in Update
  <2>1. down[c] \in Seq(Message) /\ q \in Message
    BY <1>1, TailIs DEF Inv, PanelType
  <2> QED  BY <2>1 DEF Message, Hello
<1>3. PICK z \in Streams : z = q.s
  BY <1>2 DEF Update
<1>4. LinkInv(c, z) /\ streams[z] \in {None} \cup Stream
  BY DEF Inv, LinksInv, StreamsFit
<1>5. /\ EntryFits(view[c][z]) /\ (z = Global => view[c][z].batch = None)
      /\ Linked(down[c], z, view[c][z], streams[z])
  BY <1>4 DEF LinkInv
<1>6. Known(view[c][z]) \in Nat /\ q.seq \in Nat /\ q.kind # "snapshot"
  BY <1>2, <1>5, KnownIs DEF Update
<1>7. down' \in [Panels -> Seq(Message)]
  BY <1>1, <1>2, TailIs DEF Inv, PanelType
<1>8. CASE ~Fits(view[c][z], q)
  <2>1. UNCHANGED client /\ Ask(c, IF current[c] # None THEN current[c] ELSE Global)
    BY <1>3, <1>8 DEF ReceivePatch
  <2>2. Linked(Tail(down[c]), z, view[c][z], streams[z])
    BY <1>1, <1>2, <1>3, <1>4, <1>5, <1>8, LinkedDrops
  <2>3. z \in Convs => TwinInv(c, z)'
    BY <2>1, TwinKeeps DEF Inv, LinksInv, client
  <2>4. LinksInv'
    <3>1. /\ \A d \in Panels \ {c} : view'[d] = view[d] /\ shown'[d] = shown[d]
          /\ \A s \in Streams \ {z} : view'[c][s] = view[c][s]
          /\ \A x \in Convs \ {z} : shown'[c][x] = shown[c][x]
          /\ z = Head(down[c]).s
      BY <1>3, <2>1 DEF client
    <3>2. /\ EntryFits(view'[c][z]) /\ (z = Global => view'[c][z].batch = None)
          /\ Linked(Tail(down[c]), z, view'[c][z], streams[z])
          /\ Known(view[c][z]) <= Known(view'[c][z])
          /\ Head(down[c]).kind = "snapshot" => Known(view'[c][z]) > 0
      BY <1>5, <1>6, <2>1, <2>2 DEF client
    <3> QED  BY <1>1, <2>3, <3>1, <3>2, ReceiveLinks
  <2>5. up' \in [Panels -> Seq({"ready"} \cup Streams)]
    <3> DEFINE to == IF current[c] # None THEN current[c] ELSE Global
    <3>1. to \in {"ready"} \cup Streams /\ up[c] \in Seq({"ready"} \cup Streams)
      BY DEF Inv, PanelType, Streams
    <3> HIDE DEF to
    <3>2. Append(up[c], to) \in Seq({"ready"} \cup Streams)
      BY <3>1
    <3>3. up' = [up EXCEPT ![c] = Append(@, to)]
      BY <2>1 DEF Ask, to
    <3> QED  BY <3>2, <3>3 DEF Inv, PanelType
  <2> QED  BY <1>1, <1>7, <2>1, <2>4, <2>5 DEF Inv, PanelType, client
<1>9. CASE Fits(view[c][z], q) /\ z = Global
  <2>1. /\ view' = [view EXCEPT ![c][z] = Applied(@, q)]
        /\ Falls(c) /\ UNCHANGED shown
    BY <1>3, <1>9 DEF ReceivePatch
  <2>2. /\ view'[c][z] = Applied(view[c][z], q)
        /\ \A s \in Streams \ {z} : view'[c][s] = view[c][s]
        /\ \A d \in Panels \ {c} : view'[d] = view[d]
    BY <2>1 DEF Inv, PanelType
  <2>3. /\ EntryFits(view'[c][z]) /\ Linked(Tail(down[c]), z, view'[c][z], streams[z])
        /\ Known(view'[c][z]) = q.seq /\ view'[c][z].batch = None
    <3>1. Head(down[c]).s = z /\ Head(down[c]).kind = "patch" /\ Fits(view[c][z], Head(down[c]))
      BY <1>3, <1>9
    <3>2. view[c][z].batch = None /\ view'[c][z] = Applied(view[c][z], Head(down[c]))
      BY <1>5, <1>9, <2>2
    <3> DEFINE f == Applied(view[c][z], Head(down[c]))
    <3>3. /\ EntryFits(f) /\ Linked(Tail(down[c]), z, f, streams[z]) /\ Known(f) = Head(down[c]).seq
          /\ f.batch = None
      BY <1>1, <1>2, <1>4, <1>5, <3>1, <3>2, LinkedAtOnce
    <3> QED  BY <3>2, <3>3
  <2>4. Known(view[c][z]) <= Known(view'[c][z])
    BY <1>6, <1>9, <2>3 DEF Fits
  <2>5. z \notin Convs
    BY <1>9, ConversationsAreNamed
  <2>6. LinksInv'
    <3>1. /\ \A d \in Panels \ {c} : view'[d] = view[d] /\ shown'[d] = shown[d]
          /\ \A s \in Streams \ {z} : view'[c][s] = view[c][s]
          /\ \A x \in Convs \ {z} : shown'[c][x] = shown[c][x]
          /\ z = Head(down[c]).s
      BY <1>3, <2>1, <2>2
    <3>2. /\ EntryFits(view'[c][z]) /\ (z = Global => view'[c][z].batch = None)
          /\ Linked(Tail(down[c]), z, view'[c][z], streams[z])
          /\ Known(view[c][z]) <= Known(view'[c][z])
          /\ Head(down[c]).kind = "snapshot" => Known(view'[c][z]) > 0
      BY <1>6, <2>3, <2>4
    <3> QED  BY <1>1, <2>5, <3>1, <3>2, ReceiveLinks
  <2>7. view' \in [Panels -> [Streams -> Entry]]
    BY <2>1, <2>2, <2>3 DEF Inv, PanelType, EntryFits
  <2>8. /\ current' \in [Panels -> {None} \cup Convs] /\ asked' \in [Panels -> SUBSET Convs]
        /\ up' \in [Panels -> Seq({"ready"} \cup Streams)]
    BY <2>1, FallsTyped DEF Inv
  <2> QED  BY <1>1, <1>7, <2>1, <2>6, <2>7, <2>8 DEF Inv, PanelType
<1>10. CASE Fits(view[c][z], q) /\ z # Global
  <2>1. /\ view' = [view EXCEPT ![c][z] = Waits(@, q)]
        /\ shown' = [shown EXCEPT ![c][z] = IF q.seq > Known(@) THEN Waits(@, q) ELSE @]
        /\ UNCHANGED <<current, asked, up>>
    BY <1>3, <1>10 DEF ReceivePatch
  <2>2. z \in Convs
    BY <1>10 DEF Streams
  <2>3. TwinInv(c, z)
    BY <2>2 DEF Inv, LinksInv
  <2>4. q.seq = Known(view[c][z]) + 1 /\ q.seq > Known(shown[c][z])
    BY <1>6, <1>10, <2>3 DEF Fits, TwinInv
  <2>5. /\ view'[c][z] = Waits(view[c][z], q)
        /\ \A s \in Streams \ {z} : view'[c][s] = view[c][s]
        /\ \A d \in Panels \ {c} : view'[d] = view[d]
    BY <2>1 DEF Inv, PanelType
  <2>6. /\ shown'[c][z] = Waits(shown[c][z], q)
        /\ \A x \in Convs \ {z} : shown'[c][x] = shown[c][x]
        /\ \A d \in Panels \ {c} : shown'[d] = shown[d]
    BY <2>1, <2>2, <2>4 DEF Inv, PanelType
  <2>7. /\ EntryFits(view'[c][z]) /\ Linked(Tail(down[c]), z, view'[c][z], streams[z])
        /\ Known(view'[c][z]) = q.seq /\ Pending(view'[c][z]) = Add(Pending(view[c][z]), q)
    <3> DEFINE f == Waits(view[c][z], Head(down[c]))
    <3>1. Head(down[c]).s = z /\ Head(down[c]).kind = "patch" /\ Fits(view[c][z], Head(down[c]))
      BY <1>3, <1>10
    <3>2. EntryFits(f) /\ Linked(Tail(down[c]), z, f, streams[z]) /\ Known(f) = Head(down[c]).seq
          /\ Pending(f) = Add(Pending(view[c][z]), Head(down[c]))
      BY <1>1, <1>2, <1>4, <1>5, <3>1, LinkedPatch
    <3> QED  BY <2>5, <3>2
  <2>8. PICK h \in [Nat -> Content] : Told(h, down[c], z, view[c][z], streams[z])
    BY <1>5 DEF Linked
  <2>9. /\ q \in Update /\ Known(view[c][z]) \in Nat \ {0} /\ q.seq = Known(view[c][z]) + 1
        /\ Pending(view[c][z]) = h[Known(view[c][z])] /\ Pending(view[c][z]) \in Content
        /\ q.state # None => q.add = 0
        /\ Add(Pending(view[c][z]), q) = h[q.seq] /\ Add(Pending(view[c][z]), q) \in Content
    <3> DEFINE m == Head(down[c])
    <3>1. m.s = z /\ m.kind = "patch" /\ Fits(view[c][z], m)
      BY <1>3, <1>10
    <3>2. /\ m \in Update /\ Known(view[c][z]) \in Nat \ {0} /\ m.seq = Known(view[c][z]) + 1
          /\ Pending(view[c][z]) = h[Known(view[c][z])] /\ Pending(view[c][z]) \in Content
          /\ m.state # None => m.add = 0
          /\ Add(Pending(view[c][z]), m) = h[m.seq] /\ Add(Pending(view[c][z]), m) \in Content
      BY <1>1, <1>2, <1>4, <1>5, <2>8, <3>1, PatchHolds
    <3> QED  BY <3>2
  <2>10. /\ EntryFits(shown'[c][z]) /\ Known(shown'[c][z]) = q.seq
         /\ Pending(shown'[c][z]) = Add(Pending(view[c][z]), q)
    <3>1. /\ EntryFits(shown[c][z]) /\ q.seq = Known(shown[c][z]) + 1
          /\ Pending(shown[c][z]) = Pending(view[c][z])
      BY <2>3, <2>4 DEF TwinInv
    <3> QED  BY <2>6, <2>9, <3>1, JoinAdds
  <2>11. TwinInv(c, z)'
    BY <2>7, <2>10 DEF TwinInv
  <2>12. LinksInv'
    <3>1. /\ \A d \in Panels \ {c} : view'[d] = view[d] /\ shown'[d] = shown[d]
          /\ \A s \in Streams \ {z} : view'[c][s] = view[c][s]
          /\ \A x \in Convs \ {z} : shown'[c][x] = shown[c][x]
          /\ z = Head(down[c]).s
      BY <1>3, <2>5, <2>6
    <3>2. /\ EntryFits(view'[c][z]) /\ (z = Global => view'[c][z].batch = None)
          /\ Linked(Tail(down[c]), z, view'[c][z], streams[z])
          /\ Known(view[c][z]) <= Known(view'[c][z])
          /\ Head(down[c]).kind = "snapshot" => Known(view'[c][z]) > 0
      BY <1>6, <1>10, <2>4, <2>7
    <3> QED  BY <1>1, <2>11, <3>1, <3>2, ReceiveLinks
  <2>13. view' \in [Panels -> [Streams -> Entry]] /\ shown' \in [Panels -> [Convs -> Entry]]
    <3>1. view' = [view EXCEPT ![c][z] = view'[c][z]] /\ shown' = [shown EXCEPT ![c][z] = shown'[c][z]]
      BY <2>1, <2>2, <2>4, <2>5, <2>6 DEF Inv, PanelType
    <3>2. view'[c][z] \in Entry /\ shown'[c][z] \in Entry
      BY <2>7, <2>10 DEF EntryFits
    <3>3. view \in [Panels -> [Streams -> Entry]] /\ shown \in [Panels -> [Convs -> Entry]]
      BY DEF Inv, PanelType
    <3> QED  BY <2>1, <2>2, <2>4, <2>5, <2>6, <3>2, <3>3
  <2> QED  BY <1>1, <1>7, <2>1, <2>12, <2>13 DEF Inv, PanelType
<1> QED  BY <1>8, <1>9, <1>10

LEMMA ReceiveKeeps ==
  ASSUME Inv, NEW c \in Panels, Receive(c)
  PROVE  Inv'
<1>1. PICK q : q = Head(down[c])
  OBVIOUS
<1>2. LinksInv' /\ PanelType'
  BY <1>1, HelloKeeps, SnapshotKeeps, PatchKeeps DEF Receive
<1>3. WorldInv' /\ StreamsFit' /\ HostInv'
  BY DEF Receive, Inv, WorldInv, WorldType, WithinBudget, LastFits, StreamsFit, HostInv, model, sync, host
<1> QED  BY <1>2, <1>3 DEF Inv

-----------------------------------------------------------------------------
(* The frame. *)

LEMMA FlushTimelineKeeps ==
  ASSUME Inv, NEW c \in Panels, NEW x \in Convs, FlushTimeline(c, x)
  PROVE  Inv'
<1>1. /\ shown' = [shown EXCEPT ![c][x] = Flushed(@)] /\ shown[c][x].batch # None
      /\ UNCHANGED <<model, sync, host, hub, up, down, view, current, asked, budget>>
  BY DEF FlushTimeline
<1>2. TwinInv(c, x) /\ shown \in [Panels -> [Convs -> Entry]] /\ LinkInv(c, x)
  BY DEF Inv, LinksInv, PanelType, Streams
<1>3. /\ shown'[c][x] = Flushed(shown[c][x])
      /\ \A d \in Panels, y \in Convs : d # c \/ y # x => shown'[d][y] = shown[d][y]
  BY <1>1, <1>2
<1>4. Known(shown[c][x]) > 0 => Pending(shown[c][x]) \in Content
  BY <1>2, LinkedPending DEF TwinInv, LinkInv
<1>5. /\ EntryFits(shown'[c][x]) /\ Known(shown'[c][x]) = Known(shown[c][x])
      /\ Pending(shown'[c][x]) = Pending(shown[c][x])
  BY <1>1, <1>2, <1>3, <1>4, FlushedIs DEF TwinInv
<1>6. ASSUME NEW d \in Panels, NEW y \in Convs PROVE TwinInv(d, y)'
  <2>1. CASE d = c /\ y = x
    BY <2>1, <1>1, <1>2, <1>5 DEF TwinInv
  <2>2. CASE d # c \/ y # x
    BY <2>2, <1>1, <1>3, TwinKeeps DEF Inv, LinksInv
  <2> QED  BY <2>1, <2>2
<1>7. ASSUME NEW d \in Panels, NEW s \in Streams PROVE LinkInv(d, s)'
  <2>1. Gone' = Gone /\ (Promised(s) => Promised(s)')
    BY <1>1 DEF Gone, Requested, Promised, host
  <2> QED  BY <1>1, <2>1, LinkKeeps DEF Inv, LinksInv, sync
<1>8. PanelType'
  <2>1. shown'[c][x] \in Entry
    BY <1>5 DEF EntryFits
  <2> QED  BY <1>1, <1>2, <1>3, <2>1 DEF Inv, PanelType
<1>9. WorldInv' /\ StreamsFit' /\ HostInv'
  BY <1>1 DEF Inv, WorldInv, WorldType, WithinBudget, LastFits, StreamsFit, HostInv, model, sync, host
<1> QED  BY <1>6, <1>7, <1>8, <1>9 DEF Inv, LinksInv

LEMMA FlushStateKeeps ==
  ASSUME Inv, NEW c \in Panels, NEW x \in Convs, FlushState(c, x)
  PROVE  Inv'
<1>1. /\ view' = [view EXCEPT ![c][x] = Flushed(@)] /\ view[c][x].batch # None /\ Falls(c)
      /\ UNCHANGED <<model, sync, host, hub, down, shown, budget>>
  BY DEF FlushState
<1>2. x \in Streams /\ view \in [Panels -> [Streams -> Entry]] /\ LinkInv(c, x)
  BY DEF Inv, LinksInv, PanelType, Streams
<1>3. /\ view'[c][x] = Flushed(view[c][x])
      /\ \A d \in Panels, s \in Streams : d # c \/ s # x => view'[d][s] = view[d][s]
  BY <1>1, <1>2
<1>4. Known(view[c][x]) > 0 => Pending(view[c][x]) \in Content
  BY <1>2, LinkedPending DEF LinkInv
<1>5. /\ EntryFits(view'[c][x]) /\ Known(view'[c][x]) = Known(view[c][x])
      /\ Pending(view'[c][x]) = Pending(view[c][x]) /\ view'[c][x].batch = None
  BY <1>1, <1>2, <1>3, <1>4, FlushedIs DEF LinkInv
<1>6. Gone' = Gone /\ \A s : (Promised(s) => Promised(s)')
  BY <1>1 DEF Gone, Requested, Promised, host
<1>7. ASSUME NEW d \in Panels, NEW s \in Streams PROVE LinkInv(d, s)'
  <2>1. CASE d = c /\ s = x
    <3>1. Linked(down[c], x, view'[c][x], streams[x])
      BY <1>2, <1>5, LinkedSame DEF LinkInv
    <3> QED  BY <2>1, <3>1, <1>1, <1>2, <1>5, <1>6 DEF LinkInv, Listens, sync
  <2>2. CASE d # c \/ s # x
    BY <2>2, <1>1, <1>3, <1>6, LinkKeeps DEF Inv, LinksInv, sync
  <2> QED  BY <2>1, <2>2
<1>8. ASSUME NEW d \in Panels, NEW y \in Convs PROVE TwinInv(d, y)'
  <2>1. CASE d = c /\ y = x
    BY <2>1, <1>1, <1>5 DEF Inv, LinksInv, TwinInv
  <2>2. CASE d # c \/ y # x
    <3>1. y \in Streams
      BY DEF Streams
    <3> QED  BY <2>2, <3>1, <1>1, <1>3, TwinKeeps DEF Inv, LinksInv
  <2> QED  BY <2>1, <2>2
<1>9. PanelType'
  <2>1. view'[c][x] \in Entry
    BY <1>5 DEF EntryFits
  <2>2. view' \in [Panels -> [Streams -> Entry]]
    BY <1>1, <1>2, <1>3, <2>1
  <2>3. /\ current' \in [Panels -> {None} \cup Convs] /\ asked' \in [Panels -> SUBSET Convs]
        /\ up' \in [Panels -> Seq({"ready"} \cup Streams)]
    BY <1>1, FallsTyped DEF Inv
  <2> QED  BY <1>1, <2>2, <2>3 DEF Inv, PanelType
<1>10. WorldInv' /\ StreamsFit' /\ HostInv'
  BY <1>1 DEF Inv, WorldInv, WorldType, WithinBudget, LastFits, StreamsFit, HostInv, model, sync, host
<1> QED  BY <1>7, <1>8, <1>9, <1>10 DEF Inv, LinksInv

-----------------------------------------------------------------------------

LEMMA StepKeeps ==
  ASSUME Inv, [Next]_vars
  PROVE  Inv' /\ NobodyStarvesStep
<1>1. CASE Pass
  BY <1>1, PassKeeps
<1>2. ASSUME ~Pass PROVE NobodyStarvesStep
  BY <1>2 DEF NobodyStarvesStep
<1>3. ASSUME Hydrated PROVE Inv'
  BY <1>3, HydratedKeeps
<1>4. ASSUME NEW x \in Convs, Delta(x) \/ NoText(x) \/ Starts(x) \/ Ends(x) PROVE Inv'
  <2>1. WorldInv'
    BY <1>4, DeltaWorld, NoTextWorld, TurnWorld DEF Inv
  <2> QED  BY <1>4, <2>1, WorldKeeps DEF Delta, NoText, Starts, Ends
<1>5. ASSUME NEW x \in Convs, TailLoaded(x) PROVE Inv'
  BY <1>5, TailLoadedKeeps
<1>6. ASSUME NEW s \in Streams, Other(s) PROVE Inv'
  <2>1. WorldInv'
    BY <1>6, OtherWorld DEF Inv
  <2> QED  BY <1>6, <2>1, WorldKeeps DEF Other
<1>7. ASSUME NEW c \in Panels, Attach(c) \/ Detach(c) \/ Handles(c) \/ Receive(c) PROVE Inv'
  BY <1>7, AttachKeeps, DetachKeeps, HandlesKeeps, ReceiveKeeps
<1>8. ASSUME NEW c \in Panels, NEW x \in Convs, FlushTimeline(c, x) \/ FlushState(c, x) PROVE Inv'
  BY <1>8, FlushTimelineKeeps, FlushStateKeeps
<1>9. ASSUME UNCHANGED vars PROVE Inv'
  <2>1. UNCHANGED <<model, sync, host, hub, up, down, client, budget>>
    BY <1>9 DEF vars
  <2>2. WorldInv'
    BY <2>1 DEF Inv, WorldInv, WorldType, WithinBudget, LastFits, model, sync
  <2> QED  BY <2>1, <2>2, WorldKeeps
<1>10. Inv'
  BY <1>1, <1>3, <1>4, <1>5, <1>6, <1>7, <1>8, <1>9, PassKeeps DEF Next
<1> QED  BY <1>1, <1>2, <1>10, PassKeeps

\* What a panel has the number of it has the contents of, in both stores.
LEMMA InStepHolds ==
  ASSUME Inv, NEW c \in Panels, NEW s \in Streams, streams[s] # None, Known(view[c][s]) = streams[s].seq
  PROVE  /\ Pending(view[c][s]) = streams[s].state
         /\ s \in Convs => Known(shown[c][s]) = streams[s].seq /\ Pending(shown[c][s]) = streams[s].state
<1>1. LinkInv(c, s) /\ streams[s] \in Stream /\ (s \in Convs => TwinInv(c, s))
  BY NoneIsApart DEF Inv, LinksInv, StreamsFit
<1>2. PICK h \in [Nat -> Content] : Told(h, down[c], s, view[c][s], streams[s])
  BY <1>1 DEF LinkInv, Linked
<1>3. Pending(view[c][s]) = streams[s].state
  BY <1>1, <1>2 DEF Told, Stream
<1> QED  BY <1>1, <1>3 DEF TwinInv

\* With nothing on its way a panel has the last number of each stream it follows.
LEMMA QuietHolds ==
  ASSUME Inv, Quiet, NEW c \in Panels, NEW s \in Streams, Listens(c, s)
  PROVE  streams[s] # None /\ Known(view[c][s]) = streams[s].seq /\ streams[s].state = world[s]
<1>1. /\ LinkInv(c, s) /\ down[c] = <<>> /\ events = <<>> /\ owed = {} /\ moved = {}
      /\ \A x \in Convs : ~(loads[x] > 0)
  BY DEF Inv, LinksInv, HostInv, Quiet
<1>2. ~Promised(s) /\ ~Coming(down[c], s)
  BY <1>1 DEF Promised, Requested, Coming
<1>3. Known(view[c][s]) > 0 /\ Known(view[c][s]) \in Nat
  BY <1>1, <1>2, KnownIs DEF LinkInv
<1>4. /\ streams[s] # None /\ Known(view[c][s]) <= streams[s].seq
      /\ Covered(down[c], s, Known(view[c][s]), streams[s])
  BY <1>1, <1>3 DEF LinkInv, Linked, Channel
<1>5. streams[s] \in Stream /\ last # None /\ streams[s].state = last[s]
  BY <1>4 DEF Inv, StreamsFit
<1>6. ~(Known(view[c][s]) < streams[s].seq)
  <2>1. ~\E i \in DOMAIN down[c] : down[c][i].s = s /\ down[c][i].seq = streams[s].seq
    BY <1>1
  <2> QED  BY <1>4, <1>5, <2>1 DEF Covered, Stream
<1>7. world[s] = last[s]
  BY <1>1, <1>5 DEF Inv, WorldInv, LastFits
<1> QED  BY <1>3, <1>4, <1>5, <1>6, <1>7 DEF Stream

LEMMA InvAgrees ==
  ASSUME Inv
  PROVE  PanelsAgree
<1>1. TypeOK
  <2>1. fast.n # [x \in Convs |-> 0] => moved # {}
    <3>1. fast.n \in [Convs -> Nat] /\ \A x \in Convs : fast.n[x] > 0 => moved # {}
      BY DEF Inv, WorldInv, WorldType, LastFits
    <3>2. moved = {} => \A x \in Convs : fast.n[x] = 0
      BY <3>1
    <3> QED  BY <3>1, <3>2
  <2>2. \A s \in Streams : streams[s] = None \/ (streams[s].seq \in Nat \ {0} /\ last # None /\ streams[s].state = last[s])
    BY DEF Inv, StreamsFit, Stream
  <2>3. \A c \in Panels : hub[c] = None \/ hub[c] \subseteq Streams
    BY DEF Inv, PanelType
  <2>4. \A c \in Panels : \A s \in Streams : view[c][s].state \in Content
    BY DEF Inv, PanelType, Entry
  <2> QED  BY <2>1, <2>2, <2>3, <2>4 DEF TypeOK, Inv, WorldInv, WorldType, HostInv
<1>2. InStep
  <2>1. \A c \in Panels : hub[c] # None => hub[c] \subseteq Streams
    BY DEF Inv, PanelType
  <2> QED  BY <2>1, InStepHolds DEF InStep
<1>3. Converged
  <2> SUFFICES ASSUME Quiet, NEW c \in Panels, hub[c] # None, NEW s \in hub[c]
               PROVE  view[c][s].state = world[s] /\ (s \in Convs => shown[c][s].state = world[s])
    BY DEF Converged
  <2>1. s \in Streams /\ Listens(c, s)
    BY DEF Inv, PanelType, Listens
  <2>2. streams[s] # None /\ Known(view[c][s]) = streams[s].seq /\ streams[s].state = world[s]
    BY <2>1, QuietHolds
  <2>3. /\ Pending(view[c][s]) = world[s]
        /\ s \in Convs => Pending(shown[c][s]) = world[s]
    BY <2>1, <2>2, InStepHolds
  <2>4. view[c][s].batch = None /\ (s \in Convs => shown[c][s].batch = None)
    BY <2>1 DEF Quiet, Inv, LinksInv, LinkInv, Streams
  <2> QED  BY <2>3, <2>4 DEF Pending
<1> QED  BY <1>1, <1>2, <1>3 DEF PanelsAgree

\* Whatever was opened, closed, asked for again and released in between, and however much text
\* went out by the fast path: a panel that has the number of a stream has its contents in both
\* stores, and when nothing is on its way every panel shows the world (ClientSyncSystem.ts,
\* vscodeWebview.ts, useClientStateStore.ts, useConversationTimelineStore.ts).
THEOREM PanelsAgreeAlways == Spec => []PanelsAgree
<1>1. Init => Inv
  BY InitInv
<1>2. Inv /\ [Next]_vars => Inv'
  BY StepKeeps
<1>3. Inv => PanelsAgree
  BY InvAgrees
<1> QED  BY <1>1, <1>2, <1>3, PTL DEF Spec

\* A pass leaves no stream behind in anything but the rows of messages (ClientSyncSystem.ts:190-192).
THEOREM NobodyIsLeftBehind == Spec => NobodyStarves
<1>1. Init => Inv
  BY InitInv
<1>2. Inv /\ [Next]_vars => Inv' /\ [NobodyStarvesStep]_vars
  BY StepKeeps
<1> QED  BY <1>1, <1>2, PTL DEF Spec, NobodyStarves
=============================================================================
