----------------------------- MODULE StoresProofs -----------------------------
(***************************************************************************)
(* Proofs about what windows store on one disk, for any windows, calls,    *)
(* roots, directories, panels, configurations and edits.                   *)
(*                                                                         *)
(* The data root: the gate and the admission hold, and a move loses no     *)
(* write.                                                                  *)
(*                                                                         *)
(* The settings: what a save changes was edited by its user, since a form  *)
(* differs from its base and from the save on its way only where it was    *)
(* edited. A save on its way is answered once. An edit is about to be      *)
(* sent, sent, or waits for its user; and who knows an older revision is   *)
(* told, or has a save on its way that will be refused.                    *)
(***************************************************************************)
EXTENDS Stores, FiniteSetTheorems, SequenceTheorems, NaturalsInduction, TLAPS

-----------------------------------------------------------------------------
(* The inductive invariant *)

Statuses == [root : Roots, rev : Nat]
Leases   == [root : Roots, fresh : BOOLEAN]

\* A call that is past the fence; the fence is its window's until "unfence".
Fenced == {"source", "target", "empty", "copy", "commit", "movedbeat", "clean", "endbeat", "unfence"}
Pcs == {"idle", "queued", "admission", "beat", "act", "leave", "opbeat", "fence", "clearbeat"} \cup Fenced
CallStates == [pc : Pcs, to : Roots \cup {None}, seen : Nat, at : Roots \cup {None}, copied : SUBSET Dirs]
Gates == [shared : Nat, exclusive : BOOLEAN, queue : Seq(Calls)]

Types ==
  /\ canonical \in Statuses
  /\ memory \in [Windows -> Statuses \cup {None}] /\ loading \in [Windows -> Statuses \cup {None}]
  /\ admitted \in [Windows -> {"no", "asking", "leasing", "yes"}]
  /\ leases \in [Windows -> Leases \cup {None}] /\ beat \in [Windows -> Roots \cup {None}]
  /\ gate \in [Windows -> Gates] /\ calls \in [Windows -> [Calls -> CallStates]]
  /\ fence \in Windows \cup {None}
  /\ disk \in [Roots -> [Dirs -> SUBSET Nat]] /\ saved \subseteq Nat
  /\ astray \subseteq Windows
  /\ done \in [{"write", "move", "load", "fault"} -> Nat]

\* The gate of a window: what it counts is what is past it, and its queue holds
\* the calls that wait, each once.
PastOf(of) == {c \in Calls : of[c].pc \notin {"idle", "queued"}}
SharedOf(of) == {c \in PastOf(of) : ~Moves(of[c])}
GateOf(g, of) ==
  /\ \A i \in 1..Len(g.queue) : of[g.queue[i]].pc = "queued"
  /\ \A c \in Calls : of[c].pc = "queued" => \E i \in 1..Len(g.queue) : g.queue[i] = c
  /\ \A i, j \in 1..Len(g.queue) : g.queue[i] = g.queue[j] => i = j
  /\ g.shared = Cardinality(SharedOf(of))
  /\ g.exclusive <=> \E c \in PastOf(of) : Moves(of[c])
  /\ \A c, d \in PastOf(of) : Moves(of[c]) => c = d
  /\ g.queue # <<>> => PastOf(of) # {}
GateInv == \A w \in Windows : GateOf(gate[w], calls[w])

\* How far a window is with its admission.
AdmissionInv ==
  \A w \in Windows :
    /\ admitted[w] # "yes" =>
         /\ leases[w] = None /\ loading[w] = None
         /\ \A c \in Calls : calls[w][c].pc \in {"idle", "queued", "admission", "leave"}
    /\ admitted[w] \in {"no", "asking"} => beat[w] = None
    /\ admitted[w] \in {"leasing", "yes"} => memory[w] # None
    /\ admitted[w] = "leasing" =>
         fence = w /\ memory[w].root = canonical.root /\ beat[w] = canonical.root

FenceInv ==
  \A w \in Windows :
    /\ \A c \in Calls : calls[w][c].pc \in Fenced => fence = w
    /\ fence = w => admitted[w] = "leasing" \/ \E c \in Calls : calls[w][c].pc \in Fenced

\* What a call knows at each point.
Knows(call, root) ==
  /\ call.pc \in Fenced \cup {"opbeat", "fence", "clearbeat"} => Moves(call)
  /\ call.pc \in Fenced \cup {"act"} => call.at \in Roots
  /\ call.pc = "act" => ~Moves(call)
  /\ call.pc \in {"source", "target", "empty", "copy", "commit"} => call.at = root
  /\ call.pc \in {"source", "target", "empty", "copy"} => call.to # call.at
  /\ call.pc \in {"queued", "admission", "beat", "opbeat", "fence", "source", "target", "empty"} =>
       call.copied = {}
  /\ call.pc = "commit" /\ call.to = call.at => call.copied = {}
  /\ call.pc \in {"movedbeat", "clean"} => call.copied = {} \/ call.at # root
CallInv == \A w \in Windows, c \in Calls : Knows(calls[w][c], canonical.root)

\* A window works in the root the status names and says so.
Agrees(w) ==
  /\ memory[w].root = canonical.root
  /\ leases[w] = [root |-> canonical.root, fresh |-> TRUE]
  /\ beat[w] \in {None, canonical.root}

\* Windows that did not lose their lease agree, and one that moves the root
\* agrees again when the move is over.
AgreeInv ==
  \A w \in Windows \ astray : admitted[w] = "yes" =>
    /\ fence # w => Agrees(w)
    /\ \A c \in Calls :
         /\ calls[w][c].pc \in {"source", "target", "empty", "copy", "commit", "unfence"} => Agrees(w)
         /\ calls[w][c].pc \in {"movedbeat", "clean", "endbeat"} => memory[w].root = canonical.root
         /\ calls[w][c].pc \in {"clean", "endbeat"} => beat[w] \in {None, canonical.root}
         /\ calls[w][c].pc = "act" => calls[w][c].at = canonical.root

\* A move that has seen no lease of others is alone until it is over.
Alone(call) == call.pc \in {"target", "empty", "copy"} \/ (call.pc = "commit" /\ call.to # call.at)
AloneInv ==
  \A w \in Windows, c \in Calls : Alone(calls[w][c]) =>
    \A v \in Windows \ astray : v # w => admitted[v] # "yes"

\* What was saved is in the root in use; what a move has passed over is in its target.
Copying(call, on, kept) ==
  /\ call.pc = "copy" => \A n \in kept : \E d \in Dirs :
       /\ n \in on[call.at][d]
       /\ IF d \in call.copied THEN n \in on[call.to][d] ELSE \A e \in call.copied : e < d
  /\ call.pc = "commit" /\ call.to # call.at => kept \subseteq UNION {on[call.to][d] : d \in Dirs}
CopyInv == \A w \in Windows, c \in Calls : Copying(calls[w][c], disk, saved)

IInv ==
  /\ Types /\ GateInv /\ AdmissionInv /\ FenceInv /\ CallInv /\ AgreeInv /\ AloneInv
  /\ WritesKept /\ CopyInv

-----------------------------------------------------------------------------
(* The gate *)

LEMMA Smallest ==
  ASSUME NEW T \in SUBSET Nat, T # {}
  PROVE  \E m \in T : \A k \in T : m <= k
<1>1. PICK m \in T : \A k \in T : <<k, m>> \notin OpToRel(<, Nat)
  BY NatLessThanWellFounded, WFMin
<1>2. \A k \in T : ~(k < m)
  BY <1>1 DEF OpToRel
<1>3. \A k \in T : m <= k
  BY <1>2
<1> QED
  BY <1>3

\* How many calls at the head of the queue start: one that moves, or some that do not.
LEMMA StartableFacts ==
  ASSUME NEW g \in Gates, NEW of \in [Calls -> CallStates]
  PROVE  IF g.exclusive \/ g.shared > 0 \/ g.queue = <<>> THEN Startable(g, of) = 0
         ELSE /\ Startable(g, of) \in 1..Len(g.queue)
              /\ \/ Startable(g, of) = 1 /\ Moves(of[g.queue[1]])
                 \/ \A i \in 1..Startable(g, of) : ~Moves(of[g.queue[i]])
<1> DEFINE q == g.queue
           P(n) == /\ \A i \in 1..n : ~Moves(of[q[i]])
                   /\ n = Len(q) \/ Moves(of[q[n + 1]])
           M == {i \in 1..Len(q) : Moves(of[q[i]])}
<1>0. CASE g.exclusive \/ g.shared > 0 \/ q = <<>>
  BY <1>0 DEF Startable
<1> SUFFICES ASSUME ~g.exclusive, ~(g.shared > 0), q # <<>>
             PROVE  /\ Startable(g, of) \in 1..Len(q)
                    /\ \/ Startable(g, of) = 1 /\ Moves(of[q[1]])
                       \/ \A i \in 1..Startable(g, of) : ~Moves(of[q[i]])
  BY <1>0
<1>2. Len(q) \in Nat \ {0} /\ Head(q) = q[1]
  BY EmptySeq DEF Gates
<1>3. CASE Moves(of[Head(q)])
  BY <1>2, <1>3 DEF Startable
<1>4. CASE ~Moves(of[Head(q)])
  <2>1. \E n \in 1..Len(q) : P(n)
    <3>1. CASE M = {}
      BY <1>2, <3>1
    <3>2. CASE M # {}
      <4>1. M \in SUBSET Nat
        OBVIOUS
      <4>2. PICK m \in M : \A k \in M : m <= k
        BY <3>2, <4>1, Smallest
      <4>3. m - 1 \in 1..Len(q) /\ P(m - 1)
        BY <1>2, <1>4, <4>2
      <4> QED
        BY <4>3
    <3> QED
      BY <3>1, <3>2
  <2>2. Startable(g, of) = CHOOSE n \in 1..Len(q) : P(n)
    BY <1>4 DEF Startable
  <2>3. Startable(g, of) \in 1..Len(q) /\ P(Startable(g, of))
    <3> HIDE DEF P
    <3> QED BY <2>1, <2>2
  <2> QED
    BY <2>3
<1> QED
  BY <1>3, <1>4

\* The calls that start are as many as places of the queue.
LEMMA StartedCount ==
  ASSUME NEW q \in Seq(Calls), NEW n \in 0..Len(q),
         \A i, j \in 1..Len(q) : q[i] = q[j] => i = j
  PROVE  Cardinality({q[i] : i \in 1..n}) = n
<1> DEFINE S == {q[i] : i \in 1..n}
           f == [i \in 1..n |-> q[i]]
<1>1. f \in [1..n -> S]
  OBVIOUS
<1>2. \A i, j \in 1..n : f[i] = f[j] => i = j
  OBVIOUS
<1>3. \A x \in S : \E i \in 1..n : f[i] = x
  OBVIOUS
<1>4. f \in Bijection(1..n, S)
  BY <1>1, <1>2, <1>3 DEF Bijection, Injection, Surjection, IsInjective
<1> QED
  BY <1>4, FS_CountingElements DEF ExistsBijection

LEMMA RestOfQueue ==
  ASSUME NEW q \in Seq(Calls), NEW n \in 0..Len(q)
  PROVE  /\ SubSeq(q, n + 1, Len(q)) \in Seq(Calls)
         /\ Len(SubSeq(q, n + 1, Len(q))) = Len(q) - n
         /\ \A i \in 1..(Len(q) - n) : SubSeq(q, n + 1, Len(q))[i] = q[n + i]
<1>1. Len(q) \in Nat /\ \A i \in (n + 1)..Len(q) : q[i] \in Calls
  BY LenProperties
<1>2. /\ SubSeq(q, n + 1, Len(q)) \in Seq(Calls)
      /\ Len(SubSeq(q, n + 1, Len(q))) = IF n + 1 <= Len(q) THEN Len(q) - (n + 1) + 1 ELSE 0
      /\ \A i \in 1..(Len(q) - (n + 1) + 1) : SubSeq(q, n + 1, Len(q))[i] = q[n + 1 + i - 1]
  BY <1>1, SubSeqProperties
<1> QED
  BY <1>1, <1>2

\* A call leaves the gate and those at the head of the queue enter.
LEMMA GateReleased ==
  ASSUME NEW g \in Gates, NEW of \in [Calls -> CallStates], NEW next \in [Calls -> CallStates],
         NEW c \in PastOf(of), GateOf(g, of),
         next[c].pc = "idle",
         \A d \in Calls \ {c} :
           IF d \in Released(g, of, c).started
           THEN next[d].pc \in {"admission", "beat"} /\ next[d].to = of[d].to
           ELSE next[d] = of[d]
  PROVE  LET left == Released(g, of, c)
             new == [shared |-> left.shared, exclusive |-> left.exclusive, queue |-> left.queue]
         IN  /\ new \in Gates /\ GateOf(new, next)
             /\ \A d \in left.started : d \in Calls /\ of[d].pc = "queued"
<1> DEFINE q == g.queue
           free == IF Moves(of[c]) THEN [g EXCEPT !.exclusive = FALSE] ELSE [g EXCEPT !.shared = @ - 1]
           n == Startable(free, of)
           left == Released(g, of, c)
           started == {q[i] : i \in 1..n}
           new == [shared |-> left.shared, exclusive |-> left.exclusive, queue |-> left.queue]
<1>1. q \in Seq(Calls) /\ g.shared \in Nat /\ g.exclusive \in BOOLEAN /\ Len(q) \in Nat
  BY DEF Gates
<1>2. IsFiniteSet(SharedOf(of)) /\ IsFiniteSet(PastOf(of))
  BY CallsAssumption, FS_Subset DEF SharedOf, PastOf
<1>3. /\ free \in Gates /\ free.queue = q /\ ~free.exclusive
      /\ free.shared = Cardinality(SharedOf(of) \ {c})
  <2>1. CASE Moves(of[c])
    <3>1. SharedOf(of) = {}
      BY <2>1 DEF GateOf, SharedOf, PastOf
    <3>2. g.shared = 0 /\ SharedOf(of) \ {c} = {}
      BY <3>1, FS_EmptySet DEF GateOf
    <3> QED
      BY <1>1, <2>1, <3>2, FS_EmptySet DEF Gates
  <2>2. CASE ~Moves(of[c])
    <3>1. c \in SharedOf(of) /\ ~g.exclusive
      BY <2>2 DEF GateOf, SharedOf
    <3>2. g.shared = Cardinality(SharedOf(of)) /\ g.shared # 0
      BY <1>2, <3>1, FS_EmptySet DEF GateOf
    <3>3. Cardinality(SharedOf(of) \ {c}) = g.shared - 1
      BY <1>2, <3>1, <3>2, FS_RemoveElement
    <3> QED
      BY <1>1, <2>2, <3>1, <3>2, <3>3 DEF Gates
  <2> QED
    BY <2>1, <2>2
<1>4. IF free.shared > 0 \/ q = <<>> THEN n = 0
      ELSE /\ n \in 1..Len(q)
           /\ \/ n = 1 /\ Moves(of[q[1]])
              \/ \A i \in 1..n : ~Moves(of[q[i]])
  BY <1>3, StartableFacts
<1>5. n \in 0..Len(q)
  BY <1>1, <1>4
<1>6. /\ left.queue = SubSeq(q, n + 1, Len(q)) /\ left.started = started
      /\ left.shared = free.shared + (IF n > 0 /\ ~Moves(of[q[1]]) THEN n ELSE 0)
      /\ left.exclusive = (n > 0 /\ Moves(of[q[1]]))
  <2>1. left = [shared |-> free.shared + (IF n > 0 /\ ~Moves(of[free.queue[1]]) THEN n ELSE 0),
                exclusive |-> free.exclusive \/ (n > 0 /\ Moves(of[free.queue[1]])),
                queue |-> SubSeq(free.queue, n + 1, Len(free.queue)),
                started |-> {free.queue[i] : i \in 1..n}]
    BY DEF Released
  <2> HIDE DEF left, free, n
  <2> QED
    BY <1>3, <2>1
<1>7. Cardinality(started) = n
  <2> HIDE DEF n
  <2> QED
    BY <1>1, <1>5, StartedCount DEF GateOf
<1> HIDE DEF free, n, left
<1>8. new \in Gates
  <2>1. free.shared \in Nat /\ left.queue \in Seq(Calls) /\ left.exclusive \in BOOLEAN
    BY <1>1, <1>3, <1>5, <1>6, RestOfQueue DEF Gates
  <2>2. left.shared \in Nat
    BY <1>1, <1>5, <1>6, <2>1
  <2> QED
    BY <2>1, <2>2 DEF Gates
<1>9. \A d \in started : d \in Calls /\ d # c /\ of[d].pc = "queued"
  BY <1>1, <1>5 DEF GateOf, PastOf
<1>10. \A d \in Calls \ {c} : IF d \in started THEN next[d].pc \in {"admission", "beat"} /\ next[d].to = of[d].to
                              ELSE next[d] = of[d]
  BY <1>6 DEF left
<1>11. PastOf(next) = (PastOf(of) \ {c}) \cup started
  BY <1>9, <1>10 DEF PastOf
<1>12. \A d \in PastOf(next) : Moves(next[d]) <=> Moves(of[d])
  BY <1>10 DEF PastOf, Moves
<1>13. /\ \A i \in 1..Len(new.queue) : next[new.queue[i]].pc = "queued"
       /\ \A d \in Calls : next[d].pc = "queued" => \E i \in 1..Len(new.queue) : new.queue[i] = d
       /\ \A i, j \in 1..Len(new.queue) : new.queue[i] = new.queue[j] => i = j
  <2>1. /\ Len(new.queue) = Len(q) - n
        /\ \A i \in 1..(Len(q) - n) : new.queue[i] = q[n + i] /\ n + i \in 1..Len(q)
    BY <1>1, <1>5, <1>6, RestOfQueue
  <2>2. ASSUME NEW i \in 1..Len(new.queue) PROVE next[new.queue[i]].pc = "queued"
    <3>1. n + i \in 1..Len(q) /\ new.queue[i] = q[n + i] /\ of[q[n + i]].pc = "queued" /\ q[n + i] \in Calls
      BY <1>1, <2>1 DEF GateOf
    <3>2. q[n + i] # c /\ q[n + i] \notin started
      BY <1>1, <1>5, <3>1 DEF GateOf, PastOf
    <3> QED
      BY <1>10, <3>1, <3>2
  <2>3. ASSUME NEW d \in Calls, next[d].pc = "queued" PROVE \E i \in 1..Len(new.queue) : new.queue[i] = d
    <3>1. d # c /\ d \notin started /\ of[d].pc = "queued"
      BY <1>10, <2>3
    <3>2. PICK k \in 1..Len(q) : q[k] = d
      BY <3>1 DEF GateOf
    <3>3. k > n
      BY <1>5, <3>1, <3>2
    <3>4. k - n \in 1..Len(new.queue) /\ new.queue[k - n] = q[n + (k - n)]
      BY <1>1, <1>5, <2>1, <3>2, <3>3
    <3> QED
      BY <1>5, <3>2, <3>4
  <2>4. ASSUME NEW i \in 1..Len(new.queue), NEW j \in 1..Len(new.queue), new.queue[i] = new.queue[j] PROVE i = j
    <3>1. n + i \in 1..Len(q) /\ n + j \in 1..Len(q) /\ q[n + i] = q[n + j]
      BY <1>1, <1>5, <2>1, <2>4
    <3>2. n + i = n + j
      BY <3>1 DEF GateOf
    <3> QED
      BY <1>5, <3>2
  <2> QED
    BY <2>2, <2>3, <2>4
<1>14. GateOf(new, next)
  <2>1. CASE free.shared > 0
    <3>1. n = 0 /\ started = {}
      BY <1>4, <2>1
    <3>2. ~Moves(of[c]) /\ c \in SharedOf(of) /\ ~g.exclusive
      <4>1. CASE Moves(of[c])
        <5>1. SharedOf(of) \ {c} = {}
          BY <4>1 DEF GateOf, SharedOf, PastOf
        <5>2. free.shared = 0
          BY <1>3, <5>1, FS_EmptySet
        <5> QED
          BY <2>1, <5>2
      <4> QED
        BY <4>1 DEF SharedOf, GateOf
    <3>3. \A d \in PastOf(of) : ~Moves(of[d])
      BY <3>2 DEF GateOf
    <3>4. SharedOf(next) = SharedOf(of) \ {c} /\ PastOf(next) = SharedOf(of) \ {c}
      BY <1>11, <1>12, <3>1, <3>3 DEF SharedOf
    <3>5. new.shared = Cardinality(SharedOf(next)) /\ ~new.exclusive
      BY <1>3, <1>6, <3>1, <3>4 DEF Gates
    <3>7. PastOf(next) # {}
      <4>1. ASSUME PastOf(next) = {} PROVE free.shared = 0
        BY <1>3, <3>4, <4>1, FS_EmptySet
      <4> QED
        BY <2>1, <4>1
    <3>6. \A d \in PastOf(next) : ~Moves(next[d])
      BY <3>4 DEF SharedOf
    <3> QED
      BY <1>13, <3>5, <3>6, <3>7 DEF GateOf
  <2>2. CASE ~(free.shared > 0)
    <3>1. free.shared = 0 /\ SharedOf(of) \ {c} = {}
      <4>1. free.shared = 0
        BY <1>3, <2>2 DEF Gates
      <4>2. IsFiniteSet(SharedOf(of) \ {c})
        BY <1>2, FS_RemoveElement
      <4> QED
        BY <1>3, <4>1, <4>2, FS_EmptySet
    <3>2. PastOf(of) = {c}
      BY <3>1 DEF SharedOf, GateOf
    <3>3. PastOf(next) = started /\ SharedOf(next) = {d \in started : ~Moves(of[d])}
      BY <1>11, <1>12, <3>2, <1>9 DEF SharedOf
    <3>4. CASE n = 0
      <4>1. started = {} /\ new.shared = 0 /\ ~new.exclusive /\ q = <<>>
        <5>1. q = <<>> /\ started = {}
          BY <1>1, <1>4, <2>2, <3>4
        <5>2. ~(n > 0 /\ Moves(of[q[1]])) /\ ~(n > 0 /\ ~Moves(of[q[1]]))
          BY <3>4
        <5>3. new.shared = free.shared + 0 /\ ~new.exclusive
          BY <1>6, <5>2
        <5> QED
          BY <3>1, <5>1, <5>3
      <4>2. new.queue = <<>>
        <5>1. Len(q) = 0
          BY <1>1, <4>1
        <5>2. new.queue \in Seq(Calls) /\ Len(new.queue) = 0
          BY <1>1, <1>5, <1>6, <3>4, <5>1, RestOfQueue
        <5> QED
          BY <5>2, EmptySeq
      <4>3. PastOf(next) = {} /\ SharedOf(next) = {}
        BY <3>3, <4>1
      <4> QED
        BY <1>13, <4>1, <4>2, <4>3, FS_EmptySet DEF GateOf
    <3>5. CASE n # 0 /\ Moves(of[q[1]])
      <4>1. n = 1 /\ started = {q[1]}
        BY <1>1, <1>4, <1>5, <2>2, <3>5
      <4>2. new.shared = 0 /\ new.exclusive
        <5>1. n > 0
          BY <1>1, <1>5, <3>5
        <5>2. new.shared = 0 + 0
          BY <1>6, <3>1, <3>5, <5>1
        <5>3. new.exclusive = TRUE
          BY <1>6, <3>5, <5>1
        <5> QED
          BY <5>2, <5>3
      <4>3. PastOf(next) = {q[1]} /\ SharedOf(next) = {} /\ Moves(next[q[1]])
        BY <1>12, <3>3, <3>5, <4>1
      <4> QED
        BY <1>13, <4>2, <4>3, FS_EmptySet DEF GateOf
    <3>6. CASE n # 0 /\ ~Moves(of[q[1]])
      <4>1. \A i \in 1..n : ~Moves(of[q[i]])
        BY <1>1, <1>4, <1>5, <2>2, <3>6
      <4>2. SharedOf(next) = started /\ \A d \in started : ~Moves(next[d])
        BY <1>12, <3>3, <4>1
      <4>3. new.shared = n /\ ~new.exclusive
        <5>1. n > 0 /\ ~(n > 0 /\ Moves(of[q[1]]))
          BY <1>1, <1>5, <3>6
        <5>2. new.shared = 0 + n /\ n \in Nat
          BY <1>1, <1>5, <1>6, <3>1, <3>6, <5>1
        <5>3. new.exclusive = FALSE
          BY <1>6, <5>1
        <5> QED
          BY <5>2, <5>3
      <4>4. PastOf(next) # {}
        <5>1. q[1] \in started
          BY <1>5, <3>6
        <5> QED
          BY <3>3, <5>1
      <4> QED
        BY <1>7, <1>13, <3>3, <4>2, <4>3, <4>4 DEF GateOf
    <3> QED
      BY <3>4, <3>5, <3>6
  <2> QED
    BY <2>1, <2>2
<1>15. \A d \in left.started : d \in Calls /\ of[d].pc = "queued"
  BY <1>6, <1>9
<1> QED
  BY <1>8, <1>14, <1>15 DEF left

\* Nothing enters or leaves the gate.
LEMMA GateKept ==
  ASSUME NEW g \in Gates, NEW of \in [Calls -> CallStates], NEW next \in [Calls -> CallStates],
         GateOf(g, of),
         \A c \in Calls : /\ next[c].to = of[c].to
                          /\ next[c].pc = "idle" <=> of[c].pc = "idle"
                          /\ next[c].pc = "queued" <=> of[c].pc = "queued"
  PROVE  GateOf(g, next)
<1>1. PastOf(next) = PastOf(of) /\ \A c \in Calls : Moves(next[c]) <=> Moves(of[c])
  BY DEF PastOf, Moves
<1>2. SharedOf(next) = SharedOf(of)
  BY <1>1 DEF SharedOf, PastOf
<1>3. \A i \in 1..Len(g.queue) : g.queue[i] \in Calls
  BY DEF Gates
<1>4. PastOf(of) \subseteq Calls
  BY DEF PastOf
<1> QED
  BY <1>1, <1>2, <1>3, <1>4 DEF GateOf

\* A call enters an open gate, or waits at the end of the queue.
LEMMA GateEntered ==
  ASSUME NEW g \in Gates, NEW of \in [Calls -> CallStates], NEW next \in [Calls -> CallStates],
         NEW with \in [Calls -> CallStates], NEW c \in Calls, GateOf(g, of),
         of[c].pc = "idle", with[c].to = next[c].to, next[c].pc \notin {"idle", "queued"},
         \A d \in Calls \ {c} : next[d] = of[d] /\ with[d] = of[d],
         Passes(g, with, c)
  PROVE  Held(g, with, c) \in Gates /\ GateOf(Held(g, with, c), next)
<1> DEFINE new == Held(g, with, c)
<1>1. g.queue \in Seq(Calls) /\ g.shared \in Nat /\ g.exclusive \in BOOLEAN /\ Len(g.queue) \in Nat
  BY DEF Gates
<1>2. IsFiniteSet(SharedOf(of)) /\ IsFiniteSet(PastOf(of))
  BY CallsAssumption, FS_Subset DEF SharedOf, PastOf
<1>3. PastOf(next) = PastOf(of) \cup {c} /\ c \notin PastOf(of) /\ PastOf(of) \subseteq Calls
  BY DEF PastOf
<1>4. new.queue = g.queue /\ new \in Gates
  <2>1. CASE Moves(with[c])
    <3>1. new = [g EXCEPT !.exclusive = TRUE]
      BY <2>1 DEF Held
    <3> QED
      BY <1>1, <3>1 DEF Gates
  <2>2. CASE ~Moves(with[c])
    <3>1. new = [g EXCEPT !.shared = @ + 1]
      BY <2>2 DEF Held
    <3> QED
      BY <1>1, <3>1 DEF Gates
  <2> QED
    BY <2>1, <2>2
<1>5. ~g.exclusive /\ \A d \in PastOf(of) : ~Moves(of[d])
  BY DEF Passes, GateOf
<1>6. /\ \A i \in 1..Len(g.queue) : next[g.queue[i]].pc = "queued"
      /\ \A d \in Calls : next[d].pc = "queued" => \E i \in 1..Len(g.queue) : g.queue[i] = d
  <2>1. \A i \in 1..Len(g.queue) : g.queue[i] \in Calls /\ g.queue[i] # c
    BY <1>1 DEF GateOf
  <2> QED
    BY <2>1 DEF GateOf
<1>7. CASE Moves(next[c])
  <2>1. g.shared = 0 /\ new.shared = 0 /\ new.exclusive = TRUE
    BY <1>1, <1>7 DEF Passes, Held, Moves, Gates
  <2>2. SharedOf(of) = {}
    BY <1>2, <2>1, FS_EmptySet DEF GateOf
  <2>3. PastOf(next) = {c}
    BY <1>3, <1>5, <2>2 DEF SharedOf
  <2>4. SharedOf(next) = {}
    BY <1>7, <2>3 DEF SharedOf
  <2> QED
    BY <1>4, <1>6, <1>7, <2>1, <2>3, <2>4, FS_EmptySet DEF GateOf
<1>8. CASE ~Moves(next[c])
  <2>1. new.shared = g.shared + 1 /\ new.exclusive = g.exclusive
    BY <1>1, <1>8 DEF Held, Moves, Gates
  <2>2. \A d \in PastOf(next) : ~Moves(next[d])
    BY <1>3, <1>5, <1>8 DEF Moves
  <2>3. SharedOf(next) = SharedOf(of) \cup {c} /\ c \notin SharedOf(of)
    BY <1>3, <1>5, <2>2 DEF SharedOf
  <2>4. Cardinality(SharedOf(next)) = g.shared + 1
    <3>1. g.shared = Cardinality(SharedOf(of))
      BY DEF GateOf
    <3>2. Cardinality(SharedOf(of) \cup {c}) = Cardinality(SharedOf(of)) + 1
      BY <1>2, <2>3, FS_AddElement
    <3> QED
      BY <2>3, <3>1, <3>2
  <2>5. PastOf(next) # {}
    BY <1>3
  <2> QED
    BY <1>4, <1>5, <1>6, <2>1, <2>2, <2>4, <2>5 DEF GateOf
<1> QED
  BY <1>4, <1>7, <1>8

LEMMA GateJoined ==
  ASSUME NEW g \in Gates, NEW of \in [Calls -> CallStates], NEW with \in [Calls -> CallStates],
         NEW c \in Calls, GateOf(g, of),
         of[c].pc = "idle", with[c].pc = "queued",
         \A d \in Calls \ {c} : with[d] = of[d],
         ~Passes(g, with, c)
  PROVE  LET new == [g EXCEPT !.queue = Append(@, c)] IN new \in Gates /\ GateOf(new, with)
<1> DEFINE new == [g EXCEPT !.queue = Append(@, c)]
           q == g.queue
<1>1. q \in Seq(Calls) /\ g.shared \in Nat /\ g.exclusive \in BOOLEAN /\ Len(q) \in Nat
  BY DEF Gates
<1>2. /\ new.queue = Append(q, c) /\ new.shared = g.shared /\ new.exclusive = g.exclusive
      /\ new.queue \in Seq(Calls) /\ Len(new.queue) = Len(q) + 1 /\ new.queue[Len(q) + 1] = c
      /\ \A i \in 1..Len(q) : new.queue[i] = q[i]
  BY <1>1, AppendProperties DEF Gates
<1>3. new \in Gates
  BY <1>1, <1>2 DEF Gates
<1>4. PastOf(with) = PastOf(of) /\ \A d \in PastOf(of) : Moves(with[d]) <=> Moves(of[d])
  BY DEF PastOf
<1>5. SharedOf(with) = SharedOf(of) /\ PastOf(of) \subseteq Calls
  BY <1>4 DEF SharedOf, PastOf
<1>6. \A i \in 1..Len(q) : q[i] \in Calls /\ q[i] # c
  BY <1>1 DEF GateOf
<1>7. PastOf(of) # {}
  <2>1. CASE g.queue # <<>>
    BY <2>1 DEF GateOf
  <2>2. CASE g.queue = <<>>
    <3>1. ~Queued(g, with)
      BY <2>2 DEF Queued
    <3>2. g.exclusive \/ g.shared # 0
      BY <2>2, <3>1 DEF Passes
    <3>3. CASE g.exclusive
      BY <3>3 DEF GateOf
    <3>4. CASE g.shared # 0
      <4>1. SharedOf(of) # {}
        BY <3>4, FS_EmptySet DEF GateOf
      <4> QED
        BY <4>1 DEF SharedOf
    <3> QED
      BY <3>2, <3>3, <3>4
  <2> QED
    BY <2>1, <2>2
<1>8. /\ \A i \in 1..Len(new.queue) : with[new.queue[i]].pc = "queued"
      /\ \A i, j \in 1..Len(new.queue) : new.queue[i] = new.queue[j] => i = j
  <2>1. \A i \in 1..Len(new.queue) : i \in 1..Len(q) \/ i = Len(q) + 1
    BY <1>1, <1>2
  <2> HIDE DEF new, q
  <2>2. \A i \in 1..Len(q) : with[q[i]].pc = "queued"
    BY <1>6 DEF GateOf, q
  <2>3. \A i, j \in 1..Len(q) : q[i] = q[j] => i = j
    BY DEF GateOf, q
  <2> QED
    BY <1>2, <1>6, <2>1, <2>2, <2>3
<1>9. \A d \in Calls : with[d].pc = "queued" => \E i \in 1..Len(new.queue) : new.queue[i] = d
  <2>1. ASSUME NEW d \in Calls, with[d].pc = "queued" PROVE \E i \in 1..Len(new.queue) : new.queue[i] = d
    <3>1. CASE d = c
      BY <1>1, <1>2, <3>1
    <3>2. CASE d # c
      <4>1. PICK i \in 1..Len(q) : q[i] = d
        BY <2>1, <3>2 DEF GateOf
      <4> QED
        BY <1>1, <1>2, <4>1
    <3> QED
      BY <3>1, <3>2
  <2> QED
    BY <2>1
<1>10. GateOf(new, with)
  <2> HIDE DEF new
  <2>1. \A a, b \in PastOf(with) : Moves(with[a]) => a = b
    BY <1>4 DEF GateOf
  <2>2. new.exclusive <=> \E a \in PastOf(with) : Moves(with[a])
    BY <1>2, <1>4 DEF GateOf
  <2> QED
    BY <1>2, <1>4, <1>5, <1>7, <1>8, <1>9, <2>1, <2>2 DEF GateOf
<1> QED
  BY <1>3, <1>10

-----------------------------------------------------------------------------
(* What the invariant says of two calls *)

\* A call that moves is alone past its gate.
LEMMA OneMover ==
  ASSUME IInv, NEW w \in Windows, NEW c \in Calls, NEW d \in Calls,
         calls[w][c].pc \in Fenced \cup {"opbeat", "fence", "clearbeat"},
         calls[w][d].pc \notin {"idle", "queued"}
  PROVE  d = c
<1>1. Moves(calls[w][c]) /\ calls[w][c].pc \notin {"idle", "queued"}
  BY DEF IInv, CallInv, Knows, Fenced
<1>2. c \in PastOf(calls[w]) /\ d \in PastOf(calls[w])
  BY <1>1 DEF PastOf
<1> QED
  BY <1>1, <1>2 DEF IInv, GateInv, GateOf

\* Only one call of all windows is past the fence.
LEMMA OneFenced ==
  ASSUME IInv, NEW w \in Windows, NEW c \in Calls, NEW v \in Windows, NEW d \in Calls,
         calls[w][c].pc \in Fenced, calls[v][d].pc \in Fenced
  PROVE  w = v /\ d = c /\ fence = w
<1>1. fence = w /\ w = v
  BY DEF IInv, FenceInv
<1>2. calls[w][d].pc \notin {"idle", "queued"}
  BY <1>1 DEF Fenced
<1> QED
  BY <1>1, <1>2, OneMover

\* A call that works is one of an admitted window.
LEMMA WorksAdmitted ==
  ASSUME IInv, NEW w \in Windows, NEW c \in Calls,
         calls[w][c].pc \notin {"idle", "queued", "admission", "leave"}
  PROVE  admitted[w] = "yes" /\ memory[w] \in Statuses /\ memory[w].root \in Roots
<1>1. admitted[w] = "yes" /\ memory[w] # None
  BY DEF IInv, AdmissionInv
<1> QED
  BY <1>1 DEF IInv, Types, Statuses

\* The fence is held by a window that admits itself or moves the root.
LEMMA Holder ==
  ASSUME IInv, NEW w \in Windows, admitted[w] = "leasing"
  PROVE  fence = w /\ \A v \in Windows, c \in Calls : calls[v][c].pc \notin Fenced
<1>1. fence = w /\ \A c \in Calls : calls[w][c].pc \notin Fenced
  BY DEF IInv, AdmissionInv, Fenced
<1> QED
  BY <1>1 DEF IInv, FenceInv

-----------------------------------------------------------------------------
(* Steps that touch no call                                                 *)

LEMMA InitHolds == Init => IInv
<1> SUFFICES ASSUME Init PROVE IInv
  OBVIOUS
<1>1. Types
  BY RootsAssumption DEF Init, Types, Statuses, Leases, Gates, CallStates, Pcs, Idle, Open
<1>2. GateInv
  <2> SUFFICES ASSUME NEW w \in Windows PROVE GateOf(gate[w], calls[w])
    BY DEF GateInv
  <2>1. gate[w] = Open /\ \A c \in Calls : calls[w][c].pc = "idle"
    BY DEF Init, Idle
  <2>2. PastOf(calls[w]) = {} /\ SharedOf(calls[w]) = {}
    BY <2>1 DEF PastOf, SharedOf
  <2>3. Open.queue = <<>> /\ Len(<<>>) = 0 /\ Open.shared = 0 /\ Open.exclusive = FALSE
    BY DEF Open
  <2> QED
    BY <2>1, <2>2, <2>3, FS_EmptySet DEF GateOf
<1>3. AdmissionInv /\ FenceInv
  BY NoneAssumption DEF Init, AdmissionInv, FenceInv, Fenced, Idle
<1>4. CallInv
  BY DEF Init, CallInv, Knows, Fenced, Idle
<1>5. AgreeInv /\ AloneInv
  BY DEF Init, AgreeInv, AloneInv, Alone, Idle
<1>6. WritesKept /\ CopyInv
  BY DEF Init, WritesKept, CopyInv, Copying, Idle
<1> QED
  BY <1>1, <1>2, <1>3, <1>4, <1>5, <1>6 DEF IInv

LEMMA AdmitKeeps ==
  ASSUME IInv, NEW w \in Windows, Admit(w) PROVE IInv'
<1>1. w # None /\ fence = None
  BY NoneAssumption DEF Admit, Free
<1>2. \A v \in Windows, c \in Calls : calls[v][c].pc \notin Fenced
  BY <1>1, NoneAssumption DEF IInv, FenceInv
<1>3. Types'
  BY DEF IInv, Types, Admit, Statuses
<1>4. GateInv'
  BY DEF IInv, GateInv, Admit
<1>5. AdmissionInv'
  <2>1. memory' = [memory EXCEPT ![w] = canonical] /\ canonical # None /\ canonical' = canonical
    BY NoneAssumption DEF IInv, Types, Statuses, Admit
  <2>2. \A v \in Windows : admitted[v] # "leasing"
    BY <1>1, NoneAssumption DEF IInv, AdmissionInv
  <2> QED
    BY <2>1, <2>2 DEF IInv, Types, Admit, AdmissionInv
<1>6. FenceInv'
  BY <1>2 DEF IInv, Types, Admit, FenceInv
<1>7. CallInv' /\ CopyInv' /\ WritesKept'
  BY DEF IInv, CallInv, CopyInv, Copying, WritesKept, Admit
<1>8. AgreeInv'
  <2> SUFFICES ASSUME NEW v \in Windows \ astray, admitted'[v] = "yes"
               PROVE  (fence # v => Agrees(v))' /\ calls' = calls /\ \A c \in Calls :
                        calls[v][c].pc = "act" => calls[v][c].at = canonical'.root
    BY <1>2 DEF AgreeInv, Fenced, Admit
  <2>1. v # w /\ fence # v /\ admitted[v] = "yes"
    BY <1>1, NoneAssumption DEF IInv, Types, Admit
  <2> QED
    BY <2>1 DEF IInv, Types, AgreeInv, Agrees, Admit
<1>9. AloneInv'
  BY <1>2 DEF AloneInv, Alone, Fenced, Admit
<1> QED
  BY <1>3, <1>4, <1>5, <1>6, <1>7, <1>8, <1>9 DEF IInv

LEMMA TimerBeatsKeeps ==
  ASSUME IInv, NEW w \in Windows, TimerBeats(w) PROVE IInv'
<1>1. memory[w] \in Statuses /\ memory[w].root \in Roots
  BY DEF IInv, Types, AdmissionInv, TimerBeats, Statuses
<1>2. Types' /\ GateInv' /\ AdmissionInv' /\ FenceInv'
  BY <1>1 DEF IInv, Types, GateInv, AdmissionInv, FenceInv, TimerBeats
<1>3. CallInv' /\ AloneInv' /\ CopyInv' /\ WritesKept'
  BY DEF IInv, CallInv, AloneInv, CopyInv, Copying, WritesKept, TimerBeats
<1>4. AgreeInv'
  BY DEF IInv, Types, AgreeInv, Agrees, TimerBeats
<1> QED
  BY <1>2, <1>3, <1>4 DEF IInv

LEMMA LoadBeginsKeeps ==
  ASSUME IInv, NEW w \in Windows, LoadBegins(w) PROVE IInv'
<1>1. Types' /\ GateInv' /\ AdmissionInv' /\ FenceInv'
  BY DEF IInv, Types, GateInv, AdmissionInv, FenceInv, LoadBegins, Count
<1>2. CallInv' /\ AloneInv' /\ CopyInv' /\ WritesKept'
  BY DEF IInv, CallInv, AloneInv, CopyInv, Copying, WritesKept, LoadBegins
<1>3. AgreeInv'
  BY DEF IInv, AgreeInv, Agrees, LoadBegins
<1> QED
  BY <1>1, <1>2, <1>3 DEF IInv

LEMMA LoadEndsKeeps ==
  ASSUME IInv, NEW w \in Windows, LoadEnds(w) PROVE IInv'
<1>1. loading[w] \in Statuses /\ admitted[w] = "yes" /\ loading[w] # None
  BY DEF IInv, Types, AdmissionInv, LoadEnds
<1>2. astray \subseteq astray' /\ (w \in astray' \/ loading[w] = canonical)
  BY DEF LoadEnds
<1>3. Types'
  BY <1>1 DEF IInv, Types, LoadEnds
<1>4. GateInv' /\ FenceInv' /\ CallInv' /\ CopyInv' /\ WritesKept'
  BY DEF IInv, GateInv, FenceInv, CallInv, CopyInv, Copying, WritesKept, LoadEnds
<1>5. AdmissionInv'
  BY <1>1 DEF IInv, Types, AdmissionInv, LoadEnds
<1>6. AgreeInv'
  BY <1>2 DEF IInv, Types, AgreeInv, Agrees, LoadEnds
<1>7. AloneInv'
  BY <1>2 DEF IInv, AloneInv, LoadEnds
<1> QED
  BY <1>3, <1>4, <1>5, <1>6, <1>7 DEF IInv

LEMMA ExpiresKeeps ==
  ASSUME IInv, NEW w \in Windows, Expires(w) PROVE IInv'
<1>1. leases[w] \in Leases /\ admitted[w] = "yes"
  BY DEF IInv, Types, AdmissionInv, Expires
<1>2. leases' = [leases EXCEPT ![w] = [leases[w] EXCEPT !.fresh = FALSE]]
  BY DEF Expires
<1>3. Types'
  <2>1. [leases[w] EXCEPT !.fresh = FALSE] \in Leases
    BY <1>1 DEF Leases
  <2>2. leases' \in [Windows -> Leases \cup {None}]
    BY <1>2, <2>1 DEF IInv, Types
  <2> QED
    BY <2>2 DEF IInv, Types, Expires, Count
<1>4. GateInv' /\ FenceInv' /\ CallInv' /\ CopyInv' /\ WritesKept'
  BY DEF IInv, GateInv, FenceInv, CallInv, CopyInv, Copying, WritesKept, Expires
<1>5. AdmissionInv'
  BY <1>1, <1>2 DEF IInv, Types, AdmissionInv, Expires
<1>6. AgreeInv'
  <2>1. \A v \in Windows \ astray' : v \in Windows \ astray /\ leases'[v] = leases[v]
    BY <1>2 DEF IInv, Types, Expires
  <2>2. UNCHANGED <<canonical, memory, admitted, beat, calls, fence>>
    BY DEF Expires
  <2> QED
    BY <2>1, <2>2 DEF IInv, AgreeInv, Agrees
<1>7. AloneInv'
  BY DEF IInv, AloneInv, Expires
<1> QED
  BY <1>3, <1>4, <1>5, <1>6, <1>7 DEF IInv

LEMMA CrashKeeps ==
  ASSUME IInv, NEW w \in Windows, Crash(w) PROVE IInv'
<1>1. \A c \in Calls : calls'[w][c] = Idle
  BY DEF IInv, Types, Crash
<1>2. /\ admitted'[w] = "no" /\ memory'[w] = None /\ loading'[w] = None /\ leases'[w] = None
      /\ beat'[w] = None /\ gate'[w] = Open /\ fence' # w
  BY NoneAssumption DEF IInv, Types, Crash
<1>3. \A v \in Windows \ {w} :
         /\ admitted'[v] = admitted[v] /\ memory'[v] = memory[v] /\ loading'[v] = loading[v]
         /\ leases'[v] = leases[v] /\ beat'[v] = beat[v] /\ gate'[v] = gate[v]
         /\ calls'[v] = calls[v] /\ (fence' = v <=> fence = v) /\ (v \in astray' <=> v \in astray)
  BY NoneAssumption DEF IInv, Types, Crash
<1>4. canonical' = canonical /\ disk' = disk /\ saved' = saved
  BY DEF Crash
<1>5. Idle \in CallStates /\ Open \in Gates
  BY DEF Idle, Open, CallStates, Pcs, Gates
<1>6. Types'
  <2>1. gate' \in [Windows -> Gates] /\ calls' \in [Windows -> [Calls -> CallStates]]
    BY <1>5 DEF IInv, Types, Crash
  <2> QED
    BY <2>1 DEF IInv, Types, Crash, Count
<1>7. GateInv'
  <2> SUFFICES ASSUME NEW v \in Windows PROVE GateOf(gate'[v], calls'[v])
    BY DEF GateInv
  <2>1. CASE v # w
    BY <1>3, <2>1 DEF IInv, GateInv
  <2>2. CASE v = w
    <3>1. \A c \in Calls : calls'[v][c].pc = "idle"
      BY <1>1, <2>2 DEF Idle
    <3>2. PastOf(calls'[v]) = {} /\ SharedOf(calls'[v]) = {}
      BY <3>1 DEF PastOf, SharedOf
    <3>3. Open.queue = <<>> /\ Len(<<>>) = 0 /\ Open.shared = 0 /\ Open.exclusive = FALSE
      BY DEF Open
    <3> QED
      BY <1>2, <2>2, <3>1, <3>2, <3>3, FS_EmptySet DEF GateOf
  <2> QED
    BY <2>1, <2>2
<1>8. AdmissionInv'
  BY <1>1, <1>2, <1>3, <1>4 DEF IInv, AdmissionInv, Idle
<1>9. FenceInv'
  BY <1>1, <1>2, <1>3 DEF IInv, FenceInv, Idle, Fenced
<1>10. CallInv'
  BY <1>1, <1>3, <1>4 DEF IInv, CallInv, Knows, Idle, Fenced
<1>11. AgreeInv' /\ AloneInv'
  <2>1. \A v \in Windows \ astray' : admitted'[v] = "yes" => v # w /\ v \in Windows \ astray /\ admitted[v] = "yes"
    BY <1>2, <1>3
  <2>3. \A v \in Windows \ {w} : Agrees(v) => Agrees(v)'
    BY <1>3, <1>4 DEF Agrees
  <2>4. AgreeInv'
    <3> SUFFICES ASSUME NEW v \in Windows \ astray', admitted'[v] = "yes"
                 PROVE  /\ fence' # v => Agrees(v)'
                        /\ \A c \in Calls :
                             /\ calls'[v][c].pc \in {"source", "target", "empty", "copy", "commit", "unfence"} => Agrees(v)'
                             /\ calls'[v][c].pc \in {"movedbeat", "clean", "endbeat"} => memory'[v].root = canonical'.root
                             /\ calls'[v][c].pc \in {"clean", "endbeat"} => beat'[v] \in {None, canonical'.root}
                             /\ calls'[v][c].pc = "act" => calls'[v][c].at = canonical'.root
      BY DEF AgreeInv
    <3> QED
      BY <1>3, <1>4, <2>1, <2>3 DEF IInv, AgreeInv
  <2>2. AloneInv'
    BY <1>1, <1>2, <1>3 DEF IInv, AloneInv, Alone, Idle
  <2> QED
    BY <2>2, <2>4
<1>12. WritesKept' /\ CopyInv'
  BY <1>1, <1>3, <1>4 DEF IInv, WritesKept, CopyInv, Copying, Idle
<1> QED
  BY <1>6, <1>7, <1>8, <1>9, <1>10, <1>11, <1>12 DEF IInv

LEMMA StutterKeeps == IInv /\ UNCHANGED vars => IInv'
<1> SUFFICES ASSUME IInv, UNCHANGED vars PROVE IInv'
  OBVIOUS
<1>1. Types' /\ GateInv' /\ AdmissionInv' /\ FenceInv'
  BY DEF IInv, Types, GateInv, AdmissionInv, FenceInv, vars
<1>2. CallInv' /\ AloneInv' /\ CopyInv' /\ WritesKept'
  BY DEF IInv, CallInv, AloneInv, CopyInv, Copying, WritesKept, vars
<1>3. AgreeInv'
  BY DEF IInv, AgreeInv, Agrees, vars
<1> QED
  BY <1>1, <1>2, <1>3 DEF IInv

-----------------------------------------------------------------------------
(* The heartbeat *)

LEMMA BeatLandsKeeps ==
  ASSUME IInv, NEW w \in Windows, BeatLands(w) PROVE IInv'
<1> DEFINE of == [c \in Calls |-> Beaten(calls[w][c], memory[w].root)]
<1>1. /\ beat[w] \in Roots /\ admitted[w] \in {"leasing", "yes"}
      /\ memory[w] \in Statuses /\ memory[w].root \in Roots
  BY DEF IInv, Types, AdmissionInv, BeatLands, Statuses
<1>2. calls[w] \in [Calls -> CallStates]
  BY DEF IInv, Types
<1>3. ASSUME NEW c \in Calls
      PROVE  /\ of[c] \in CallStates /\ of[c].to = calls[w][c].to /\ of[c].copied = calls[w][c].copied
             /\ calls[w][c].pc = "admission" => of[c].pc = "beat"
             /\ calls[w][c].pc = "beat" =>
                  IF Moves(calls[w][c]) THEN of[c].pc = "opbeat" ELSE of[c].pc = "act" /\ of[c].at = memory[w].root
             /\ calls[w][c].pc \in {"opbeat", "movedbeat", "endbeat", "clearbeat"} => of[c].at = calls[w][c].at
             /\ calls[w][c].pc = "opbeat" => of[c].pc = "fence"
             /\ calls[w][c].pc = "movedbeat" => of[c].pc = "clean"
             /\ calls[w][c].pc = "endbeat" => of[c].pc = "unfence"
             /\ calls[w][c].pc = "clearbeat" => of[c].pc = "leave"
             /\ calls[w][c].pc \notin BeatPoints => of[c] = calls[w][c]
  <2> DEFINE call == calls[w][c]
  <2>1. of[c] = Beaten(call, memory[w].root) /\ call \in CallStates
    BY <1>2
  <2>2. CASE call.pc \notin BeatPoints
    <3>1. of[c] = call
      BY <2>1, <2>2 DEF Beaten, BeatPoints
    <3> QED
      BY <2>1, <2>2, <3>1 DEF BeatPoints
  <2>3. CASE call.pc = "beat"
    <3>1. of[c] = [call EXCEPT !.pc = IF Moves(call) THEN "opbeat" ELSE "act",
                               !.at = IF Moves(call) THEN None ELSE memory[w].root]
      BY <2>1, <2>3 DEF Beaten
    <3> QED
      BY <1>1, <2>1, <2>3, <3>1 DEF CallStates, Pcs, BeatPoints
  <2>4. CASE call.pc \in BeatPoints \ {"beat"}
    <3>1. PICK pc \in {"beat", "fence", "clean", "unfence", "leave"} :
            /\ of[c] = [call EXCEPT !.pc = pc]
            /\ call.pc = "admission" => pc = "beat"
            /\ call.pc = "opbeat" => pc = "fence"
            /\ call.pc = "movedbeat" => pc = "clean"
            /\ call.pc = "endbeat" => pc = "unfence"
            /\ call.pc = "clearbeat" => pc = "leave"
      BY <2>1, <2>4 DEF Beaten, BeatPoints
    <3> QED
      BY <2>1, <2>4, <3>1 DEF CallStates, Pcs, Fenced, BeatPoints
  <2> QED
    BY <2>2, <2>3, <2>4
<1> HIDE DEF of
<1>4. /\ calls' = [calls EXCEPT ![w] = of]
      /\ beat' = [beat EXCEPT ![w] = IF Waits(of) THEN memory[w].root ELSE None]
      /\ leases' = [leases EXCEPT ![w] = [root |-> beat[w], fresh |-> TRUE]]
      /\ UNCHANGED <<canonical, memory, loading, gate, disk, saved, astray, done>>
  BY DEF BeatLands, of
<1>5. of \in [Calls -> CallStates]
  BY <1>3 DEF of
<1>6. /\ calls'[w] = of /\ beat'[w] \in {None, memory[w].root}
      /\ leases'[w] = [root |-> beat[w], fresh |-> TRUE] /\ admitted'[w] = "yes"
      /\ \A v \in Windows \ {w} : calls'[v] = calls[v] /\ beat'[v] = beat[v]
                                  /\ leases'[v] = leases[v] /\ admitted'[v] = admitted[v]
  BY <1>1, <1>4 DEF IInv, Types, BeatLands
<1>7. \A c \in Calls : of[c].pc \in Fenced <=> calls[w][c].pc \in Fenced
  BY <1>3 DEF Fenced, BeatPoints
<1>8. /\ admitted[w] = "yes" => fence' = fence
      /\ admitted[w] = "leasing" =>
           /\ fence' = None /\ fence = w /\ memory[w].root = canonical.root /\ beat[w] = canonical.root
           /\ \A v \in Windows, c \in Calls : calls[v][c].pc \notin Fenced
           /\ \A c \in Calls : of[c].pc \in {"idle", "queued", "beat", "leave"}
  <2>1. CASE admitted[w] = "leasing"
    <3>1. \A c \in Calls : calls[w][c].pc \in {"idle", "queued", "admission", "leave"}
      BY <2>1 DEF IInv, AdmissionInv
    <3>2. \A c \in Calls : of[c].pc \in {"idle", "queued", "beat", "leave"}
      BY <1>3, <3>1 DEF BeatPoints
    <3>3. fence' = None /\ memory[w].root = canonical.root /\ beat[w] = canonical.root
      BY <2>1 DEF IInv, AdmissionInv, BeatLands
    <3> QED
      BY <2>1, <3>2, <3>3, Holder
  <2>2. CASE admitted[w] = "yes"
    BY <2>2 DEF BeatLands
  <2> QED
    BY <2>1, <2>2
<1>9. Types'
  <2>1. calls' \in [Windows -> [Calls -> CallStates]]
    BY <1>4, <1>5 DEF IInv, Types
  <2>2. leases' \in [Windows -> Leases \cup {None}] /\ beat' \in [Windows -> Roots \cup {None}]
    BY <1>1, <1>4 DEF IInv, Types, Leases
  <2>3. admitted' \in [Windows -> {"no", "asking", "leasing", "yes"}] /\ fence' \in Windows \cup {None}
    BY DEF IInv, Types, BeatLands
  <2> QED
    BY <1>4, <2>1, <2>2, <2>3 DEF IInv, Types
<1>10. GateInv'
  <2>1. gate[w] \in Gates /\ GateOf(gate[w], calls[w])
    BY DEF IInv, Types, GateInv
  <2>2. \A c \in Calls : /\ of[c].to = calls[w][c].to
                         /\ of[c].pc = "idle" <=> calls[w][c].pc = "idle"
                         /\ of[c].pc = "queued" <=> calls[w][c].pc = "queued"
    BY <1>3 DEF BeatPoints
  <2>3. GateOf(gate[w], of)
    BY <1>2, <1>5, <2>1, <2>2, GateKept
  <2> QED
    BY <1>4, <1>6, <2>3 DEF IInv, GateInv
<1>11. AdmissionInv'
  <2> SUFFICES ASSUME NEW v \in Windows, v # w
               PROVE  admitted[v] # "leasing" \/ fence' = v
    BY <1>1, <1>4, <1>6, NoneAssumption DEF IInv, AdmissionInv
  <2> QED
    BY <1>1, <1>8 DEF IInv, AdmissionInv
<1>12. FenceInv'
  <2> SUFFICES ASSUME NEW v \in Windows
               PROVE  /\ \A c \in Calls : calls'[v][c].pc \in Fenced => fence' = v
                      /\ fence' = v => admitted'[v] = "leasing" \/ \E c \in Calls : calls'[v][c].pc \in Fenced
    BY DEF FenceInv
  <2>1. \A c \in Calls : calls'[v][c].pc \in Fenced <=> calls[v][c].pc \in Fenced
    BY <1>6, <1>7
  <2>2. CASE admitted[w] = "leasing"
    BY <1>8, <2>1, <2>2, NoneAssumption
  <2>3. CASE admitted[w] = "yes"
    BY <1>6, <1>8, <2>1, <2>3 DEF IInv, FenceInv
  <2> QED
    BY <1>1, <2>2, <2>3
<1>13. CallInv'
  <2> SUFFICES ASSUME NEW c \in Calls PROVE Knows(of[c], canonical.root)
    BY <1>4, <1>6 DEF IInv, CallInv
  <2>1. Knows(calls[w][c], canonical.root)
    BY DEF IInv, CallInv
  <2>2. CASE calls[w][c].pc \notin BeatPoints
    BY <1>3, <2>1, <2>2
  <2>3. CASE calls[w][c].pc \in BeatPoints
    BY <1>1, <1>3, <2>1, <2>3 DEF Knows, Fenced, Moves, BeatPoints
  <2> QED
    BY <2>2, <2>3
<1>14. AgreeInv'
  <2> SUFFICES ASSUME NEW v \in Windows \ astray, admitted'[v] = "yes"
               PROVE  /\ fence' # v => Agrees(v)'
                      /\ \A c \in Calls :
                           /\ calls'[v][c].pc \in {"source", "target", "empty", "copy", "commit", "unfence"} => Agrees(v)'
                           /\ calls'[v][c].pc \in {"movedbeat", "clean", "endbeat"} => memory[v].root = canonical.root
                           /\ calls'[v][c].pc \in {"clean", "endbeat"} => beat'[v] \in {None, canonical.root}
                           /\ calls'[v][c].pc = "act" => calls'[v][c].at = canonical.root
    BY <1>4 DEF AgreeInv
  <2>1. CASE v # w
    <3>1. admitted[v] = "yes" /\ calls'[v] = calls[v] /\ beat'[v] = beat[v] /\ leases'[v] = leases[v]
      BY <1>6, <2>1
    <3>2. fence' # v => fence # v
      BY <1>1, <1>8, <2>1
    <3> QED
      BY <1>4, <3>1, <3>2 DEF IInv, AgreeInv, Agrees
  <2>2. CASE v = w /\ admitted[w] = "leasing"
    BY <1>1, <1>4, <1>6, <1>8, <2>2 DEF Agrees
  <2>3. CASE v = w /\ admitted[w] = "yes"
    <3>1. \A c \in Calls :
            /\ calls[w][c].pc \in {"source", "target", "empty", "copy", "commit", "unfence"} => Agrees(w)
            /\ calls[w][c].pc \in {"movedbeat", "clean", "endbeat"} => memory[w].root = canonical.root
            /\ calls[w][c].pc \in {"clean", "endbeat"} => beat[w] \in {None, canonical.root}
            /\ calls[w][c].pc = "act" => calls[w][c].at = canonical.root
      BY <2>3 DEF IInv, AgreeInv
    <3>2. memory[w].root = canonical.root /\ beat[w] \in {None, canonical.root} => Agrees(w)'
      BY <1>1, <1>4, <1>6, NoneAssumption, RootsAssumption DEF Agrees
    <3>3. fence # w => Agrees(w)
      BY <2>3 DEF IInv, AgreeInv
    <3>4. Agrees(w) => Agrees(w)'
      BY <3>2 DEF Agrees
    <3>5. fence' = fence
      BY <1>8, <2>3
    <3>6. ASSUME NEW c \in Calls
          PROVE  /\ of[c].pc \in {"source", "target", "empty", "copy", "commit", "unfence"} => Agrees(w)'
                 /\ of[c].pc \in {"movedbeat", "clean", "endbeat"} => memory[w].root = canonical.root
                 /\ of[c].pc \in {"clean", "endbeat"} => beat'[w] \in {None, canonical.root}
                 /\ of[c].pc = "act" => of[c].at = canonical.root
      <4>1. CASE calls[w][c].pc \notin BeatPoints
        <5>1. of[c] = calls[w][c]
          BY <1>3, <4>1
        <5> QED
          BY <1>6, <3>1, <3>4, <5>1
      <4>2. CASE calls[w][c].pc = "beat"
        <5>1. fence # w
          <6>1. ASSUME NEW d \in Calls PROVE calls[w][d].pc \notin Fenced
            BY <4>2, OneMover DEF Fenced
          <6> QED
            BY <2>3, <6>1 DEF IInv, FenceInv
        <5>2. memory[w].root = canonical.root
          BY <3>3, <5>1 DEF Agrees
        <5> QED
          BY <1>3, <4>2, <5>2
      <4>3. CASE calls[w][c].pc \in {"movedbeat", "endbeat"}
        BY <1>3, <1>6, <3>1, <3>2, <4>3
      <4>4. CASE calls[w][c].pc \in {"admission", "opbeat", "clearbeat"}
        BY <1>3, <4>4
      <4> QED
        BY <4>1, <4>2, <4>3, <4>4 DEF BeatPoints
    <3> QED
      BY <1>6, <2>3, <3>3, <3>4, <3>5, <3>6
  <2> QED
    BY <1>1, <2>1, <2>2, <2>3
<1>15. AloneInv'
  <2> SUFFICES ASSUME NEW u \in Windows, NEW c \in Calls, Alone(calls'[u][c]),
                      NEW v \in Windows \ astray, v # u
               PROVE  admitted'[v] # "yes"
    BY <1>4 DEF AloneInv
  <2>1. calls[u][c] = calls'[u][c]
    BY <1>3, <1>6 DEF Alone, BeatPoints
  <2>2. calls[u][c].pc \in Fenced
    BY <2>1 DEF Alone, Fenced
  <2>3. admitted[v] # "yes"
    BY <2>1 DEF IInv, AloneInv
  <2>4. admitted[w] = "yes"
    BY <1>1, <1>8, <2>2
  <2> QED
    BY <1>6, <2>3, <2>4
<1>16. WritesKept' /\ CopyInv'
  <2>1. WritesKept'
    BY <1>4 DEF IInv, WritesKept
  <2>2. \A u \in Windows, c \in Calls : calls'[u][c].pc \in {"copy", "commit"} => calls[u][c] = calls'[u][c]
    BY <1>3, <1>6 DEF BeatPoints
  <2> QED
    BY <1>4, <2>1, <2>2 DEF IInv, CopyInv, Copying
<1> QED
  BY <1>9, <1>10, <1>11, <1>12, <1>13, <1>14, <1>15, <1>16 DEF IInv

LEMMA BeatFailsKeeps ==
  ASSUME IInv, NEW w \in Windows, BeatFails(w) PROVE IInv'
<1> DEFINE of == [c \in Calls |-> Broken(calls[w][c])]
<1>1. beat[w] \in Roots /\ admitted[w] \in {"leasing", "yes"}
  BY DEF IInv, Types, AdmissionInv, BeatFails
<1>2. calls[w] \in [Calls -> CallStates]
  BY DEF IInv, Types
<1>3. ASSUME NEW c \in Calls
      PROVE  /\ of[c] \in CallStates /\ of[c].to = calls[w][c].to
             /\ of[c].at = calls[w][c].at /\ of[c].copied = calls[w][c].copied
             /\ calls[w][c].pc \in {"admission", "beat", "opbeat", "clearbeat"} => of[c].pc = "leave"
             /\ calls[w][c].pc \in {"movedbeat", "endbeat"} => of[c].pc = "unfence"
             /\ calls[w][c].pc \notin BeatPoints => of[c] = calls[w][c]
  <2> DEFINE call == calls[w][c]
  <2>1. of[c] = Broken(call) /\ call \in CallStates
    BY <1>2
  <2>2. CASE call.pc \notin BeatPoints
    <3>1. of[c] = call
      BY <2>1, <2>2 DEF Broken, BeatPoints
    <3> QED
      BY <2>1, <2>2, <3>1 DEF BeatPoints
  <2>3. CASE call.pc \in BeatPoints
    <3>1. PICK pc \in {"unfence", "leave"} :
            /\ of[c] = [call EXCEPT !.pc = pc]
            /\ call.pc \in {"admission", "beat", "opbeat", "clearbeat"} => pc = "leave"
            /\ call.pc \in {"movedbeat", "endbeat"} => pc = "unfence"
      BY <2>1, <2>3 DEF Broken, BeatPoints
    <3> QED
      BY <2>1, <2>3, <3>1 DEF CallStates, Pcs, Fenced, BeatPoints
  <2> QED
    BY <2>2, <2>3
<1> HIDE DEF of
<1>4. /\ calls' = [calls EXCEPT ![w] = of] /\ beat' = [beat EXCEPT ![w] = None]
      /\ astray' = IF \E c \in Calls : calls[w][c].pc \in {"movedbeat", "endbeat"}
                     THEN astray \cup {w} ELSE astray
      /\ UNCHANGED <<canonical, memory, loading, leases, gate, disk, saved>>
  BY DEF BeatFails, of
<1>5. of \in [Calls -> CallStates]
  BY <1>3 DEF of
<1>6. /\ calls'[w] = of /\ beat'[w] = None
      /\ \A v \in Windows \ {w} : calls'[v] = calls[v] /\ beat'[v] = beat[v] /\ admitted'[v] = admitted[v]
  BY <1>4 DEF IInv, Types, BeatFails
<1>7. \A c \in Calls : of[c].pc \in Fenced <=> calls[w][c].pc \in Fenced
  BY <1>3 DEF Fenced, BeatPoints
<1>8. /\ admitted[w] = "yes" => fence' = fence /\ admitted'[w] = "yes"
      /\ admitted[w] = "leasing" =>
           /\ fence' = None /\ admitted'[w] = "no" /\ leases[w] = None /\ loading[w] = None
           /\ \A v \in Windows, c \in Calls : calls[v][c].pc \notin Fenced
           /\ \A c \in Calls : of[c].pc \in {"idle", "queued", "leave"}
  <2>1. CASE admitted[w] = "leasing"
    <3>1. leases[w] = None /\ loading[w] = None
          /\ \A c \in Calls : calls[w][c].pc \in {"idle", "queued", "admission", "leave"}
      BY <2>1 DEF IInv, AdmissionInv
    <3>2. \A c \in Calls : of[c].pc \in {"idle", "queued", "leave"}
      BY <1>3, <3>1 DEF BeatPoints
    <3>3. fence' = None /\ admitted'[w] = "no"
      BY <2>1 DEF BeatFails, IInv, Types
    <3> QED
      BY <2>1, <3>1, <3>2, <3>3, Holder
  <2>2. CASE admitted[w] = "yes"
    BY <2>2 DEF BeatFails
  <2> QED
    BY <2>1, <2>2
<1>9. Types'
  <2>1. calls' \in [Windows -> [Calls -> CallStates]] /\ beat' \in [Windows -> Roots \cup {None}]
    BY <1>4, <1>5 DEF IInv, Types
  <2>2. admitted' \in [Windows -> {"no", "asking", "leasing", "yes"}] /\ fence' \in Windows \cup {None}
    BY DEF IInv, Types, BeatFails
  <2>3. astray' \subseteq Windows /\ done' \in [{"write", "move", "load", "fault"} -> Nat]
    BY <1>4 DEF IInv, Types, BeatFails, Count
  <2> QED
    BY <1>4, <2>1, <2>2, <2>3 DEF IInv, Types
<1>10. GateInv'
  <2>1. gate[w] \in Gates /\ GateOf(gate[w], calls[w])
    BY DEF IInv, Types, GateInv
  <2>2. \A c \in Calls : /\ of[c].to = calls[w][c].to
                         /\ of[c].pc = "idle" <=> calls[w][c].pc = "idle"
                         /\ of[c].pc = "queued" <=> calls[w][c].pc = "queued"
    BY <1>3 DEF BeatPoints
  <2>3. GateOf(gate[w], of)
    BY <1>2, <1>5, <2>1, <2>2, GateKept
  <2> QED
    BY <1>4, <1>6, <2>3 DEF IInv, GateInv
<1>11. AdmissionInv'
  <2>1. ASSUME NEW v \in Windows, v # w
        PROVE  admitted[v] # "leasing" \/ fence' = v
    BY <1>1, <1>8, <2>1 DEF IInv, AdmissionInv
  <2> QED
    BY <1>1, <1>4, <1>6, <1>8, <2>1 DEF IInv, AdmissionInv
<1>12. FenceInv'
  <2> SUFFICES ASSUME NEW v \in Windows
               PROVE  /\ \A c \in Calls : calls'[v][c].pc \in Fenced => fence' = v
                      /\ fence' = v => admitted'[v] = "leasing" \/ \E c \in Calls : calls'[v][c].pc \in Fenced
    BY DEF FenceInv
  <2>1. \A c \in Calls : calls'[v][c].pc \in Fenced <=> calls[v][c].pc \in Fenced
    BY <1>6, <1>7
  <2>2. CASE admitted[w] = "leasing"
    BY <1>8, <2>1, <2>2, NoneAssumption
  <2>3. CASE admitted[w] = "yes"
    BY <1>6, <1>8, <2>1, <2>3 DEF IInv, FenceInv
  <2> QED
    BY <1>1, <2>2, <2>3
<1>13. CallInv'
  <2> SUFFICES ASSUME NEW c \in Calls PROVE Knows(of[c], canonical.root)
    BY <1>4, <1>6 DEF IInv, CallInv
  <2>1. Knows(calls[w][c], canonical.root)
    BY DEF IInv, CallInv
  <2>2. CASE calls[w][c].pc \notin BeatPoints
    BY <1>3, <2>1, <2>2
  <2>3. CASE calls[w][c].pc \in BeatPoints
    BY <1>1, <1>3, <2>1, <2>3 DEF Knows, Fenced, Moves, BeatPoints
  <2> QED
    BY <2>2, <2>3
<1>14. AgreeInv'
  <2> SUFFICES ASSUME NEW v \in Windows \ astray', admitted'[v] = "yes"
               PROVE  /\ fence' # v => Agrees(v)'
                      /\ \A c \in Calls :
                           /\ calls'[v][c].pc \in {"source", "target", "empty", "copy", "commit", "unfence"} => Agrees(v)'
                           /\ calls'[v][c].pc \in {"movedbeat", "clean", "endbeat"} => memory[v].root = canonical.root
                           /\ calls'[v][c].pc \in {"clean", "endbeat"} => beat'[v] \in {None, canonical.root}
                           /\ calls'[v][c].pc = "act" => calls'[v][c].at = canonical.root
    BY <1>4 DEF AgreeInv
  <2>0. v \notin astray /\ admitted[v] = "yes"
    BY <1>1, <1>4, <1>6, <1>8
  <2>1. fence' # v => fence # v
    BY <1>1, <1>8, <2>0 DEF IInv, AdmissionInv
  <2>2. Agrees(v) => Agrees(v)'
    BY <1>4, <1>6 DEF Agrees
  <2>3. \A c \in Calls : calls'[v][c].pc \in Fenced \cup {"act"} => calls'[v][c] = calls[v][c]
    <3>1. CASE v = w
      <4>1. \A c \in Calls : calls[w][c].pc \notin {"movedbeat", "endbeat"}
        BY <1>4, <3>1
      <4> QED
        BY <1>3, <1>6, <3>1, <4>1 DEF BeatPoints, Fenced
    <3> QED
      BY <1>6, <3>1
  <2>4. beat'[v] \in {beat[v], None}
    BY <1>6
  <2> QED
    BY <2>0, <2>1, <2>2, <2>3, <2>4 DEF IInv, AgreeInv, Fenced
<1>15. AloneInv'
  <2> SUFFICES ASSUME NEW u \in Windows, NEW c \in Calls, Alone(calls'[u][c]),
                      NEW v \in Windows \ astray', v # u
               PROVE  admitted'[v] # "yes"
    BY <1>4 DEF AloneInv
  <2>1. calls[u][c] = calls'[u][c]
    BY <1>3, <1>6 DEF Alone, BeatPoints
  <2>2. v \notin astray
    BY <1>4
  <2>3. admitted[v] # "yes"
    BY <2>1, <2>2 DEF IInv, AloneInv
  <2> QED
    BY <1>1, <1>6, <1>8, <2>3
<1>16. WritesKept' /\ CopyInv'
  <2>1. WritesKept'
    BY <1>4 DEF IInv, WritesKept
  <2>2. \A u \in Windows, c \in Calls : calls'[u][c].pc \in {"copy", "commit"} => calls[u][c] = calls'[u][c]
    BY <1>3, <1>6 DEF BeatPoints
  <2> QED
    BY <1>4, <2>1, <2>2 DEF IInv, CopyInv, Copying
<1> QED
  BY <1>9, <1>10, <1>11, <1>12, <1>13, <1>14, <1>15, <1>16 DEF IInv

-----------------------------------------------------------------------------
(* Calls that come and go                                                   *)

\* Whatever enters or leaves the gate of a window that has no call past the
\* fence, or only waits at it, keeps the invariant.
LEMMA Passage ==
  ASSUME IInv, NEW w \in Windows, NEW next \in [Calls -> CallStates],
         NEW g \in Gates, GateOf(g, next), gate' = [gate EXCEPT ![w] = g],
         calls' = [calls EXCEPT ![w] = next],
         \A c \in Calls :
           next[c] = calls[w][c] \/
             /\ calls[w][c].pc \in {"idle", "queued", "act", "leave"}
             /\ next[c].pc \in {"idle", "queued", IF admitted[w] = "yes" THEN "beat" ELSE "admission"}
             /\ next[c].copied = {},
         \/ beat' = beat
         \/ /\ \A c \in Calls : calls[w][c].pc \notin Fenced
            /\ beat' = [beat EXCEPT ![w] = IF @ = None /\ Waits(next)
                                             THEN IF memory[w] = None THEN None ELSE memory[w].root ELSE @],
         \/ admitted' = admitted
         \/ admitted[w] = "no" /\ admitted' = [admitted EXCEPT ![w] = "asking"],
         \A r \in Roots, d \in Dirs : disk[r][d] \subseteq disk'[r][d],
         \/ saved' = saved
         \/ admitted[w] = "yes" /\ w \notin astray /\ \A c \in Calls : calls[w][c].pc \notin Fenced,
         disk' \in [Roots -> [Dirs -> SUBSET Nat]], saved' \subseteq Nat, WritesKept',
         done' \in [{"write", "move", "load", "fault"} -> Nat],
         UNCHANGED <<canonical, memory, loading, leases, fence, astray>>
  PROVE  IInv'
<1>1. /\ calls'[w] = next /\ gate'[w] = g
      /\ \A v \in Windows \ {w} : /\ calls'[v] = calls[v] /\ gate'[v] = gate[v]
                                  /\ beat'[v] = beat[v] /\ admitted'[v] = admitted[v]
  BY DEF IInv, Types
<1>2. /\ canonical' = canonical /\ memory' = memory /\ loading' = loading /\ leases' = leases
      /\ fence' = fence /\ astray' = astray
  OBVIOUS
<1>3. \A c \in Calls : next[c].pc \in Fenced \cup {"act"} => next[c] = calls[w][c]
  BY DEF Fenced
<1>4. \A c \in Calls : next[c].pc \in Fenced <=> calls[w][c].pc \in Fenced
  BY <1>3 DEF Fenced
<1>5. admitted'[w] = admitted[w] \/ (admitted[w] = "no" /\ admitted'[w] = "asking")
  BY DEF IInv, Types
<1>6. admitted[w] # "yes" => \A c \in Calls : next[c].pc \in {"idle", "queued", "admission", "leave"}
  BY DEF IInv, AdmissionInv
<1>7. admitted[w] # "yes" => ~Waits(next)
  BY <1>6 DEF Waits, BeatPoints
<1>8. beat'[w] = beat[w] \/ /\ admitted[w] = "yes" /\ \A c \in Calls : calls[w][c].pc \notin Fenced
                            /\ memory[w] # None /\ beat'[w] = memory[w].root
  BY <1>7 DEF IInv, Types, AdmissionInv
<1>9. Types'
  <2>1. calls' \in [Windows -> [Calls -> CallStates]] /\ gate' \in [Windows -> Gates]
    BY DEF IInv, Types
  <2>2. beat' \in [Windows -> Roots \cup {None}]
    BY DEF IInv, Types, Statuses
  <2>3. admitted' \in [Windows -> {"no", "asking", "leasing", "yes"}]
    BY DEF IInv, Types
  <2> QED
    BY <1>2, <2>1, <2>2, <2>3 DEF IInv, Types
<1>10. GateInv'
  BY <1>1 DEF IInv, GateInv
<1>11. AdmissionInv'
  BY <1>1, <1>2, <1>5, <1>6, <1>8 DEF IInv, AdmissionInv
<1>12. FenceInv'
  <2>1. \A v \in Windows, c \in Calls : calls'[v][c].pc \in Fenced <=> calls[v][c].pc \in Fenced
    BY <1>1, <1>4
  <2> QED
    BY <1>1, <1>2, <1>5, <2>1 DEF IInv, FenceInv
<1>13. CallInv'
  <2> SUFFICES ASSUME NEW c \in Calls PROVE Knows(next[c], canonical.root)
    BY <1>1, <1>2 DEF IInv, CallInv
  <2>1. CASE next[c] = calls[w][c]
    BY <2>1 DEF IInv, CallInv
  <2>2. CASE next[c].pc \in {"idle", "queued", "beat", "admission"} /\ next[c].copied = {}
    BY <2>2 DEF Knows, Fenced
  <2> QED
    BY <2>1, <2>2
<1>14. AgreeInv'
  <2> SUFFICES ASSUME NEW v \in Windows \ astray, admitted'[v] = "yes"
               PROVE  /\ fence # v => Agrees(v)'
                      /\ \A c \in Calls :
                           /\ calls'[v][c].pc \in {"source", "target", "empty", "copy", "commit", "unfence"} => Agrees(v)'
                           /\ calls'[v][c].pc \in {"movedbeat", "clean", "endbeat"} => memory[v].root = canonical.root
                           /\ calls'[v][c].pc \in {"clean", "endbeat"} => beat'[v] \in {None, canonical.root}
                           /\ calls'[v][c].pc = "act" => calls'[v][c].at = canonical.root
    BY <1>2 DEF AgreeInv
  <2>1. admitted[v] = "yes"
    BY <1>1, <1>5
  <2>2. \A c \in Calls : calls'[v][c].pc \in Fenced \cup {"act"} => calls'[v][c] = calls[v][c]
    BY <1>1, <1>3
  <2>3. CASE beat'[v] = beat[v]
    <3>1. Agrees(v) => Agrees(v)'
      BY <1>2, <2>3 DEF Agrees
    <3> QED
      BY <2>1, <2>2, <2>3, <3>1 DEF IInv, AgreeInv, Fenced
  <2>4. CASE beat'[v] # beat[v]
    <3>1. v = w /\ beat'[v] = memory[v].root /\ \A c \in Calls : calls'[v][c].pc \notin Fenced
      BY <1>1, <1>4, <1>8, <2>4
    <3>2. fence # v
      BY <1>1, <1>4, <2>1, <3>1 DEF IInv, FenceInv
    <3>3. Agrees(v) => Agrees(v)'
      BY <1>2, <3>1 DEF Agrees
    <3> QED
      BY <2>1, <2>2, <3>1, <3>2, <3>3 DEF IInv, AgreeInv, Fenced
  <2> QED
    BY <2>3, <2>4
<1>15. \A u \in Windows, c \in Calls :
          calls'[u][c].pc \in Fenced => calls'[u][c] = calls[u][c]
  BY <1>1, <1>3
<1>16. AloneInv'
  <2> SUFFICES ASSUME NEW u \in Windows, NEW c \in Calls, Alone(calls'[u][c]),
                      NEW v \in Windows \ astray, v # u
               PROVE  admitted'[v] # "yes"
    BY <1>2 DEF AloneInv
  <2>1. calls[u][c] = calls'[u][c]
    BY <1>15 DEF Alone, Fenced
  <2>2. admitted[v] # "yes"
    BY <2>1 DEF IInv, AloneInv
  <2> QED
    BY <1>1, <1>5, <2>2
<1>17. CopyInv'
  <2>0. ASSUME NEW x, NEW on, NEW kept, ~Alone(x) PROVE Copying(x, on, kept)
    BY <2>0 DEF Copying, Alone
  <2> SUFFICES ASSUME NEW u \in Windows, NEW c \in Calls, Alone(calls'[u][c])
               PROVE  calls'[u][c] = calls[u][c] /\ Copying(calls[u][c], disk', saved')
    BY <2>0 DEF CopyInv
  <2> DEFINE call == calls[u][c]
  <2>1. calls'[u][c] = call /\ Alone(call)
    BY <1>15 DEF Alone, Fenced
  <2>2. call.at \in Roots /\ call.to \in Roots
    <3>1. Knows(call, canonical.root) /\ call \in CallStates
      BY DEF IInv, CallInv, Types
    <3> QED
      BY <2>1, <3>1 DEF Knows, Fenced, Alone, Moves, CallStates
  <2>3. saved' = saved
    <3>1. u # w => w \in astray \/ admitted[w] # "yes"
      BY <2>1 DEF IInv, AloneInv
    <3>2. call.pc \in Fenced
      BY <2>1 DEF Alone, Fenced
    <3> QED
      BY <3>1, <3>2
  <2>4. CASE call.pc = "copy"
    <3>1. ASSUME NEW n \in saved
          PROVE  \E d \in Dirs :
                   /\ n \in disk'[call.at][d]
                   /\ IF d \in call.copied THEN n \in disk'[call.to][d] ELSE \A e \in call.copied : e < d
      <4>1. PICK d \in Dirs : /\ n \in disk[call.at][d]
                              /\ IF d \in call.copied THEN n \in disk[call.to][d] ELSE \A e \in call.copied : e < d
        BY <2>4 DEF IInv, CopyInv, Copying
      <4>2. disk[call.at][d] \subseteq disk'[call.at][d] /\ disk[call.to][d] \subseteq disk'[call.to][d]
        BY <2>2
      <4> QED
        BY <4>1, <4>2
    <3> QED
      BY <2>1, <2>3, <2>4, <3>1 DEF Copying
  <2>5. CASE call.pc = "commit"
    <3>1. call.to # call.at => saved \subseteq UNION {disk[call.to][d] : d \in Dirs}
      BY <2>5 DEF IInv, CopyInv, Copying
    <3>2. \A d \in Dirs : disk[call.to][d] \subseteq disk'[call.to][d]
      BY <2>2
    <3>3. UNION {disk[call.to][d] : d \in Dirs} \subseteq UNION {disk'[call.to][d] : d \in Dirs}
      BY <3>2
    <3> QED
      BY <2>1, <2>3, <2>5, <3>1, <3>3 DEF Copying
  <2>6. CASE call.pc \notin {"copy", "commit"}
    BY <2>1, <2>6 DEF Copying
  <2> QED
    BY <2>1, <2>4, <2>5, <2>6
<1> QED
  BY <1>9, <1>10, <1>11, <1>12, <1>13, <1>14, <1>16, <1>17 DEF IInv

LEMMA StartsKeeps ==
  ASSUME IInv, NEW w \in Windows, NEW c \in Calls, NEW call \in CallStates,
         call.pc = "queued", call.copied = {}, Starts(w, c, call),
         done' \in [{"write", "move", "load", "fault"} -> Nat]
  PROVE  IInv'
<1> DEFINE of == [calls[w] EXCEPT ![c] = call]
           in == Entered(w, call)
           next == [of EXCEPT ![c] = in]
           rt == IF memory[w] = None THEN None ELSE memory[w].root
<1>1. /\ calls[w] \in [Calls -> CallStates] /\ of \in [Calls -> CallStates]
      /\ calls[w][c].pc = "idle" /\ gate[w] \in Gates /\ GateOf(gate[w], calls[w])
  BY DEF IInv, Types, GateInv, Starts
<1>2. of[c] = call /\ \A d \in Calls \ {c} : of[d] = calls[w][d]
  BY <1>1
<1>3. /\ UNCHANGED <<canonical, memory, loading, leases, fence, disk, saved, astray>>
      /\ disk' \in [Roots -> [Dirs -> SUBSET Nat]] /\ saved' \subseteq Nat /\ WritesKept'
      /\ \A r \in Roots, d \in Dirs : disk[r][d] \subseteq disk'[r][d]
  BY DEF Starts, IInv, Types, WritesKept
<1>4. CASE Passes(gate[w], of, c)
  <2>1. /\ gate' = [gate EXCEPT ![w] = Held(@, of, c)]
        /\ Proceed(w, next, rt)
        /\ admitted' = [admitted EXCEPT ![w] = IF @ = "no" THEN "asking" ELSE @]
    BY <1>4 DEF Starts
  <2>2. /\ in \in CallStates /\ in.pc = (IF admitted[w] = "yes" THEN "beat" ELSE "admission")
        /\ in.to = call.to /\ in.copied = {}
    BY DEF Entered, CallStates, Pcs
  <2>3. next \in [Calls -> CallStates] /\ next[c] = in /\ \A d \in Calls \ {c} : next[d] = calls[w][d]
    BY <1>1, <2>2
  <2> HIDE DEF of, in, next
  <2>4. Held(gate[w], of, c) \in Gates /\ GateOf(Held(gate[w], of, c), next)
    <3>1. of[c].to = next[c].to /\ next[c].pc \notin {"idle", "queued"}
      BY <1>2, <2>2, <2>3
    <3> QED
      BY <1>1, <1>2, <1>4, <2>3, <3>1, GateEntered
  <2>5. \A d \in Calls : calls[w][d].pc \notin Fenced
    <3>1. ASSUME NEW d \in Calls, calls[w][d].pc \in Fenced PROVE FALSE
      <4>1. Moves(calls[w][d]) /\ d \in PastOf(calls[w])
        BY <3>1 DEF IInv, CallInv, Knows, Fenced, PastOf
      <4>2. gate[w].exclusive
        BY <1>1, <4>1 DEF GateOf
      <4> QED
        BY <1>4, <4>2 DEF Passes
    <3> QED
      BY <3>1
  <2>6. /\ gate' = [gate EXCEPT ![w] = Held(gate[w], of, c)] /\ calls' = [calls EXCEPT ![w] = next]
        /\ beat' = [beat EXCEPT ![w] = IF @ = None /\ Waits(next)
                                         THEN IF memory[w] = None THEN None ELSE memory[w].root ELSE @]
    BY <2>1 DEF Proceed
  <2>7. admitted' = admitted \/ (admitted[w] = "no" /\ admitted' = [admitted EXCEPT ![w] = "asking"])
    BY <2>1 DEF IInv, Types
  <2>8. \A d \in Calls : next[d] = calls[w][d] \/
          /\ calls[w][d].pc \in {"idle", "queued", "act", "leave"}
          /\ next[d].pc \in {"idle", "queued", IF admitted[w] = "yes" THEN "beat" ELSE "admission"}
          /\ next[d].copied = {}
    BY <1>1, <2>2, <2>3
  <2> QED
    BY <1>3, <2>3, <2>4, <2>5, <2>6, <2>7, <2>8, Passage
<1>5. CASE ~Passes(gate[w], of, c)
  <2>1. /\ gate' = [gate EXCEPT ![w].queue = Append(@, c)]
        /\ calls' = [calls EXCEPT ![w] = of] /\ beat' = beat /\ admitted' = admitted
    BY <1>5 DEF Starts
  <2> HIDE DEF of
  <2>2. /\ [gate[w] EXCEPT !.queue = Append(@, c)] \in Gates
        /\ GateOf([gate[w] EXCEPT !.queue = Append(@, c)], of)
    BY <1>1, <1>2, <1>5, GateJoined
  <2>3. gate' = [gate EXCEPT ![w] = [gate[w] EXCEPT !.queue = Append(@, c)]]
    BY <2>1
  <2>4. \A d \in Calls : of[d] = calls[w][d] \/
          /\ calls[w][d].pc \in {"idle", "queued", "act", "leave"}
          /\ of[d].pc \in {"idle", "queued", IF admitted[w] = "yes" THEN "beat" ELSE "admission"}
          /\ of[d].copied = {}
    BY <1>1, <1>2
  <2> QED
    BY <1>1, <1>3, <2>1, <2>2, <2>3, <2>4, Passage
<1> QED
  BY <1>4, <1>5

LEMMA BeginKeeps ==
  ASSUME IInv, NEW w \in Windows, NEW c \in Calls, Begin(w, c) PROVE IInv'
<1> DEFINE call == [Idle EXCEPT !.pc = "queued", !.seen = done["write"]]
<1>1. call \in CallStates /\ call.pc = "queued" /\ call.copied = {}
  BY DEF IInv, Types, Idle, CallStates, Pcs
<1>2. Starts(w, c, call) /\ done' \in [{"write", "move", "load", "fault"} -> Nat]
  BY DEF IInv, Types, Begin, Count
<1> QED
  BY <1>1, <1>2, StartsKeeps

LEMMA BeginMoveKeeps ==
  ASSUME IInv, NEW w \in Windows, NEW c \in Calls, NEW root \in Roots, BeginMove(w, c, root) PROVE IInv'
<1> DEFINE call == [Idle EXCEPT !.pc = "queued", !.to = root, !.seen = canonical.rev]
<1>1. call \in CallStates /\ call.pc = "queued" /\ call.copied = {}
  BY DEF IInv, Types, Statuses, Idle, CallStates, Pcs
<1>2. Starts(w, c, call) /\ done' \in [{"write", "move", "load", "fault"} -> Nat]
  BY DEF IInv, Types, BeginMove, Count
<1> QED
  BY <1>1, <1>2, StartsKeeps

LEMMA LeavesKeeps ==
  ASSUME IInv, NEW w \in Windows, NEW c \in Calls, calls[w][c].pc \in {"leave", "act"},
         Leaves(w, c, calls[w]),
         \A r \in Roots, d \in Dirs : disk[r][d] \subseteq disk'[r][d],
         saved' = saved \/ (admitted[w] = "yes" /\ w \notin astray),
         disk' \in [Roots -> [Dirs -> SUBSET Nat]], saved' \subseteq Nat, WritesKept',
         UNCHANGED <<canonical, memory, loading, leases, fence, astray, done>>
  PROVE  IInv'
<1> DEFINE of == calls[w]
           left == Released(gate[w], of, c)
           next == [d \in Calls |-> IF d = c THEN Idle
                                    ELSE IF d \in left.started THEN Entered(w, of[d]) ELSE of[d]]
           new == [shared |-> left.shared, exclusive |-> left.exclusive, queue |-> left.queue]
<1>1. of \in [Calls -> CallStates] /\ gate[w] \in Gates /\ GateOf(gate[w], of) /\ c \in PastOf(of)
  BY DEF IInv, Types, GateInv, PastOf
<1>2. \A d \in Calls : calls[w][d].pc \notin Fenced
  BY OneMover DEF Fenced
<1>3. ASSUME NEW d \in Calls
      PROVE  /\ Entered(w, of[d]) \in CallStates /\ Entered(w, of[d]).to = of[d].to
             /\ Entered(w, of[d]).copied = of[d].copied
             /\ Entered(w, of[d]).pc = (IF admitted[w] = "yes" THEN "beat" ELSE "admission")
  BY <1>1 DEF Entered, CallStates, Pcs
<1>4. Idle \in CallStates /\ Idle.pc = "idle" /\ Idle.copied = {}
  BY DEF Idle, CallStates, Pcs
<1>5. /\ next \in [Calls -> CallStates] /\ next[c] = Idle
      /\ \A d \in Calls \ {c} : IF d \in left.started THEN next[d] = Entered(w, of[d]) ELSE next[d] = of[d]
  BY <1>1, <1>3, <1>4
<1>6. /\ gate' = [gate EXCEPT ![w] = new]
      /\ Proceed(w, next, IF memory[w] = None THEN None ELSE memory[w].root)
      /\ admitted' = [admitted EXCEPT ![w] = IF @ = "no" /\ left.started # {} THEN "asking" ELSE @]
  BY DEF Leaves
<1> HIDE DEF next, left
<1>7. new \in Gates /\ GateOf(new, next) /\ \A d \in left.started : d \in Calls /\ of[d].pc = "queued"
  <2>1. \A d \in Calls \ {c} : IF d \in left.started THEN next[d].pc \in {"admission", "beat"} /\ next[d].to = of[d].to
                                ELSE next[d] = of[d]
    BY <1>3, <1>5
  <2> QED
    BY <1>1, <1>4, <1>5, <2>1, GateReleased DEF left
<1>8. \A d \in Calls : next[d] = calls[w][d] \/
        /\ calls[w][d].pc \in {"idle", "queued", "act", "leave"}
        /\ next[d].pc \in {"idle", "queued", IF admitted[w] = "yes" THEN "beat" ELSE "admission"}
        /\ next[d].copied = {}
  <2> SUFFICES ASSUME NEW d \in Calls, next[d] # calls[w][d]
               PROVE  /\ calls[w][d].pc \in {"idle", "queued", "act", "leave"}
                      /\ next[d].pc \in {"idle", "queued", IF admitted[w] = "yes" THEN "beat" ELSE "admission"}
                      /\ next[d].copied = {}
    OBVIOUS
  <2>1. CASE d = c
    BY <1>4, <1>5, <2>1
  <2>2. CASE d # c
    <3>1. d \in left.started /\ of[d].pc = "queued" /\ next[d] = Entered(w, of[d])
      BY <1>5, <1>7, <2>2
    <3>2. of[d].copied = {}
      BY <3>1 DEF IInv, CallInv, Knows
    <3> QED
      BY <1>3, <3>1, <3>2
  <2> QED
    BY <2>1, <2>2
<1>9. /\ calls' = [calls EXCEPT ![w] = next]
      /\ beat' = [beat EXCEPT ![w] = IF @ = None /\ Waits(next)
                                       THEN IF memory[w] = None THEN None ELSE memory[w].root ELSE @]
  BY <1>6 DEF Proceed
<1>10. admitted' = admitted \/ (admitted[w] = "no" /\ admitted' = [admitted EXCEPT ![w] = "asking"])
  BY <1>6 DEF IInv, Types
<1>11. done' \in [{"write", "move", "load", "fault"} -> Nat]
  BY DEF IInv, Types
<1>12. /\ UNCHANGED <<canonical, memory, loading, leases, fence, astray>>
       /\ saved' = saved \/ (admitted[w] = "yes" /\ w \notin astray /\ \A d \in Calls : calls[w][d].pc \notin Fenced)
  BY <1>2
<1>13. /\ next \in [Calls -> CallStates] /\ new \in Gates /\ GateOf(new, next)
       /\ gate' = [gate EXCEPT ![w] = new]
  BY <1>5, <1>6, <1>7
<1> HIDE DEF new, of
<1> QED
  BY <1>2, <1>8, <1>9, <1>10, <1>11, <1>12, <1>13, Passage

LEMMA LeaveKeeps ==
  ASSUME IInv, NEW w \in Windows, NEW c \in Calls, Leave(w, c) PROVE IInv'
<1>1. /\ \A r \in Roots, d \in Dirs : disk[r][d] \subseteq disk'[r][d]
      /\ saved' = saved /\ disk' \in [Roots -> [Dirs -> SUBSET Nat]] /\ saved' \subseteq Nat /\ WritesKept'
  BY DEF IInv, Types, WritesKept, Leave
<1>2. /\ Leaves(w, c, calls[w]) /\ calls[w][c].pc \in {"leave", "act"}
      /\ UNCHANGED <<canonical, memory, loading, leases, fence, astray, done>>
  BY DEF Leave
<1> QED
  BY <1>1, <1>2, LeavesKeeps

LEMMA WriteKeeps ==
  ASSUME IInv, NEW w \in Windows, NEW c \in Calls, NEW d \in Dirs, Write(w, c, d) PROVE IInv'
<1> DEFINE call == calls[w][c]
           n == call.seen
<1>1. call.pc = "act" /\ call \in CallStates /\ n \in Nat
  BY DEF IInv, Types, Write, CallStates
<1>2. call.at \in Roots /\ admitted[w] = "yes"
  BY <1>1, WorksAdmitted DEF IInv, CallInv, Knows
<1>3. disk' = [disk EXCEPT ![call.at][d] = @ \cup {n}] /\ canonical' = canonical
  BY DEF Write
<1>4. disk' \in [Roots -> [Dirs -> SUBSET Nat]]
  BY <1>1, <1>2, <1>3 DEF IInv, Types
<1>5. \A r \in Roots, e \in Dirs : disk[r][e] \subseteq disk'[r][e]
  BY <1>2, <1>3 DEF IInv, Types
<1>6. n \in disk'[call.at][d]
  BY <1>2, <1>3 DEF IInv, Types
<1>7. saved' = saved \/ (saved' = saved \cup {n} /\ w \notin astray)
  BY DEF Write
<1>8. w \notin astray => call.at = canonical.root
  BY <1>1, <1>2 DEF IInv, AgreeInv
<1>9. WritesKept'
  <2>1. canonical.root \in Roots
    BY DEF IInv, Types, Statuses
  <2>2. UNION {disk[canonical.root][e] : e \in Dirs} \subseteq UNION {disk'[canonical.root][e] : e \in Dirs}
    BY <1>5, <2>1
  <2>3. saved \subseteq UNION {disk'[canonical.root][e] : e \in Dirs}
    BY <2>2 DEF IInv, WritesKept
  <2>4. w \notin astray => n \in UNION {disk'[canonical.root][e] : e \in Dirs}
    BY <1>6, <1>8
  <2> QED
    BY <1>3, <1>7, <2>3, <2>4 DEF WritesKept
<1>10. saved' \subseteq Nat
  BY <1>1, <1>7 DEF IInv, Types
<1>11. /\ Leaves(w, c, calls[w]) /\ UNCHANGED <<canonical, memory, loading, leases, fence, astray, done>>
  BY DEF Write
<1> QED
  BY <1>1, <1>2, <1>4, <1>5, <1>7, <1>9, <1>10, <1>11, LeavesKeeps

-----------------------------------------------------------------------------
(* The move                                                                 *)

\* A step of the one call that is past the fence, or passes or leaves it.
LEMMA MoveStep ==
  ASSUME IInv, NEW w \in Windows, NEW c \in Calls, NEW call \in CallStates,
         calls[w][c].pc \in Fenced \cup {"fence"}, calls[w][c].pc = "fence" => fence = None,
         call.pc \in Fenced \cup {"clearbeat"}, call.to = calls[w][c].to,
         calls' = [calls EXCEPT ![w] = [@ EXCEPT ![c] = call]],
         fence' = IF call.pc \in Fenced THEN w ELSE None,
         UNCHANGED <<loading, admitted, gate, saved, astray>>,
         canonical' \in Statuses, memory' \in [Windows -> Statuses \cup {None}], memory'[w] # None,
         leases' \in [Windows -> Leases \cup {None}], beat' \in [Windows -> Roots \cup {None}],
         disk' \in [Roots -> [Dirs -> SUBSET Nat]],
         done' \in [{"write", "move", "load", "fault"} -> Nat],
         \A v \in Windows \ {w} :
           /\ memory'[v] = memory[v] /\ beat'[v] = beat[v]
           /\ leases[v] = None => leases'[v] = None
           /\ admitted[v] = "yes" /\ v \notin astray =>
                leases'[v] = leases[v] /\ canonical'.root = canonical.root,
         Knows(call, canonical'.root), Copying(call, disk', saved), WritesKept',
         Alone(call) => \A v \in Windows \ astray : v # w => admitted[v] # "yes",
         w \notin astray =>
           /\ call.pc \in {"clearbeat", "source", "target", "empty", "copy", "commit", "unfence"} => Agrees(w)'
           /\ call.pc \in {"movedbeat", "clean", "endbeat"} => memory'[w].root = canonical'.root
           /\ call.pc \in {"clean", "endbeat"} => beat'[w] \in {None, canonical'.root}
  PROVE  IInv'
<1>1. /\ calls[w] \in [Calls -> CallStates] /\ calls'[w] = [calls[w] EXCEPT ![c] = call]
      /\ calls'[w][c] = call /\ \A d \in Calls \ {c} : calls'[w][d] = calls[w][d]
      /\ \A v \in Windows \ {w} : calls'[v] = calls[v]
  BY DEF IInv, Types
<1>2. admitted[w] = "yes" /\ fence \in {w, None}
  BY WorksAdmitted DEF IInv, FenceInv, Fenced
<1>3. \A d \in Calls \ {c} : calls[w][d].pc \in {"idle", "queued"}
  BY OneMover
<1>4. \A v \in Windows \ {w}, d \in Calls : calls[v][d].pc \notin Fenced
  BY <1>2, NoneAssumption DEF IInv, FenceInv
<1>5. w # None /\ \A v \in Windows \ {w} : fence # v /\ fence' # v /\ admitted[v] # "leasing"
  BY <1>2, NoneAssumption DEF IInv, AdmissionInv
<1>6. \A v \in Windows \ {w} : admitted[v] = "yes" /\ v \notin astray =>
        Agrees(v)' /\ \A d \in Calls : calls[v][d].pc = "act" => calls[v][d].at = canonical'.root
  BY <1>5 DEF IInv, AgreeInv, Agrees
<1>7. Types'
  <2>1. calls' \in [Windows -> [Calls -> CallStates]]
    BY DEF IInv, Types
  <2>2. fence' \in Windows \cup {None}
    OBVIOUS
  <2> QED
    BY <2>1, <2>2 DEF IInv, Types
<1>8. GateInv'
  <2>1. gate[w] \in Gates /\ GateOf(gate[w], calls[w])
    BY DEF IInv, Types, GateInv
  <2>2. calls[w][c].pc \notin {"idle", "queued"} /\ call.pc \notin {"idle", "queued"}
    BY DEF Fenced
  <2>3. calls'[w] \in [Calls -> CallStates]
    BY <1>1
  <2>4. \A d \in Calls : /\ calls'[w][d].to = calls[w][d].to
                         /\ calls'[w][d].pc = "idle" <=> calls[w][d].pc = "idle"
                         /\ calls'[w][d].pc = "queued" <=> calls[w][d].pc = "queued"
    BY <1>1, <2>2
  <2>5. GateOf(gate[w], calls'[w])
    <3>1. calls[w] \in [Calls -> CallStates]
      BY <1>1
    <3>2. PICK of \in [Calls -> CallStates], next \in [Calls -> CallStates] : of = calls[w] /\ next = calls'[w]
      BY <2>3, <3>1
    <3> QED
      BY <2>1, <2>4, <3>2, GateKept
  <2> QED
    BY <1>1, <2>5 DEF IInv, GateInv
<1>9. AdmissionInv'
  BY <1>1, <1>2, <1>5 DEF IInv, AdmissionInv
<1>10. FenceInv'
  <2>1. \A d \in Calls \ {c} : calls'[w][d].pc \notin Fenced
    BY <1>1, <1>3 DEF Fenced
  <2>2. \A v \in Windows \ {w}, d \in Calls : calls'[v][d].pc \notin Fenced
    BY <1>1, <1>4
  <2> QED
    BY <1>1, <1>5, <2>1, <2>2 DEF FenceInv
<1>11. CallInv'
  <2> SUFFICES ASSUME NEW v \in Windows, NEW d \in Calls, v # w \/ d # c
               PROVE  Knows(calls'[v][d], canonical'.root)
    BY <1>1 DEF CallInv
  <2>1. Knows(calls[v][d], canonical.root) /\ calls'[v][d] = calls[v][d]
    BY <1>1 DEF IInv, CallInv
  <2>2. calls[v][d].pc \notin Fenced
    BY <1>3, <1>4 DEF Fenced
  <2> QED
    BY <2>1, <2>2 DEF Knows, Fenced
<1>12. AgreeInv'
  <2> SUFFICES ASSUME NEW v \in Windows \ astray, admitted[v] = "yes"
               PROVE  /\ fence' # v => Agrees(v)'
                      /\ \A d \in Calls :
                           /\ calls'[v][d].pc \in {"source", "target", "empty", "copy", "commit", "unfence"} => Agrees(v)'
                           /\ calls'[v][d].pc \in {"movedbeat", "clean", "endbeat"} => memory'[v].root = canonical'.root
                           /\ calls'[v][d].pc \in {"clean", "endbeat"} => beat'[v] \in {None, canonical'.root}
                           /\ calls'[v][d].pc = "act" => calls'[v][d].at = canonical'.root
    BY DEF AgreeInv
  <2>1. CASE v # w
    BY <1>1, <1>4, <1>6, <2>1 DEF Fenced
  <2>2. CASE v = w
    <3>1. fence' # w => call.pc = "clearbeat"
      OBVIOUS
    <3>2. \A d \in Calls : d = c \/ calls'[w][d].pc \in {"idle", "queued"}
      BY <1>1, <1>3
    <3> QED
      BY <1>1, <2>2, <3>1, <3>2 DEF Fenced
  <2> QED
    BY <2>1, <2>2
<1>13. AloneInv' /\ CopyInv'
  <2>1. \A v \in Windows, d \in Calls : calls'[v][d].pc \in Fenced => v = w /\ d = c
    BY <1>1, <1>3, <1>4 DEF Fenced
  <2>2. AloneInv'
    <3> SUFFICES ASSUME NEW u \in Windows, NEW d \in Calls, Alone(calls'[u][d])
                 PROVE  \A v \in Windows \ astray : v # u => admitted[v] # "yes"
      BY DEF AloneInv
    <3>1. u = w /\ d = c
      BY <2>1 DEF Alone, Fenced
    <3> QED
      BY <1>1, <3>1
  <2>3. CopyInv'
    <3> SUFFICES ASSUME NEW u \in Windows, NEW d \in Calls
                 PROVE  Copying(calls'[u][d], disk', saved)
      BY DEF CopyInv
    <3>1. CASE u = w /\ d = c
      BY <1>1, <3>1
    <3>2. CASE ~(u = w /\ d = c)
      BY <2>1, <3>2 DEF Copying, Fenced
    <3> QED
      BY <3>1, <3>2
  <2> QED
    BY <2>2, <2>3
<1> QED
  BY <1>7, <1>8, <1>9, <1>10, <1>11, <1>12, <1>13 DEF IInv

\* A step of a move that changes how far it is, and nothing of what the others see.
LEMMA GoesKeeps ==
  ASSUME IInv, NEW w \in Windows, NEW c \in Calls,
         NEW pc \in {"target", "empty", "copy", "commit", "unfence"}, Goes(w, c, pc),
         calls[w][c].pc \in {"source", "target", "empty", "copy"},
         \/ /\ \A v \in Windows \ {w} :
                 /\ leases[v] = None => leases'[v] = None
                 /\ admitted[v] = "yes" /\ v \notin astray => leases'[v] = leases[v]
            /\ leases' \in [Windows -> Leases \cup {None}] /\ leases'[w] = leases[w]
         \/ leases' = leases,
         pc \in {"target", "empty"} => calls[w][c].copied = {},
         pc \in {"target", "empty", "copy", "commit"} =>
           \A v \in Windows \ astray : v # w => admitted[v] # "yes",
         Copying([calls[w][c] EXCEPT !.pc = pc], disk, saved),
         done' \in [{"write", "move", "load", "fault"} -> Nat],
         UNCHANGED <<canonical, memory, loading, admitted, beat, gate, fence, disk, saved, astray>>
  PROVE  IInv'
<1> DEFINE call == [calls[w][c] EXCEPT !.pc = pc]
<1>1. /\ calls[w][c] \in CallStates /\ call \in CallStates /\ call.pc = pc
      /\ call.to = calls[w][c].to /\ call.at = calls[w][c].at /\ call.copied = calls[w][c].copied
  <2>1. calls[w][c] \in CallStates /\ pc \in Pcs
    BY DEF IInv, Types, Pcs, Fenced
  <2> QED
    BY <2>1 DEF CallStates
<1>2. calls' = [calls EXCEPT ![w] = [@ EXCEPT ![c] = call]]
  BY DEF Goes, IInv, Types
<1>3. calls[w][c].pc \in Fenced /\ pc \in Fenced /\ fence = w
  BY DEF Fenced, IInv, FenceInv
<1>4. admitted[w] = "yes" /\ memory[w] # None
  BY <1>3, WorksAdmitted DEF Fenced, IInv, AdmissionInv
<1>5. Knows(call, canonical.root)
  <2>1. Knows(calls[w][c], canonical.root)
    BY DEF IInv, CallInv
  <2> HIDE DEF call
  <2> QED
    BY <1>1, <1>3, <2>1 DEF Knows, Moves, Fenced
<1>6. w \notin astray => Agrees(w)
  BY <1>4 DEF IInv, AgreeInv
<1>7. w \notin astray => Agrees(w)'
  BY <1>6 DEF Agrees
<1>8. WritesKept'
  BY DEF IInv, WritesKept
<1>9. /\ canonical' \in Statuses /\ memory' \in [Windows -> Statuses \cup {None}] /\ memory'[w] # None
      /\ leases' \in [Windows -> Leases \cup {None}] /\ beat' \in [Windows -> Roots \cup {None}]
      /\ disk' \in [Roots -> [Dirs -> SUBSET Nat]]
  BY <1>4 DEF IInv, Types
<1>10. /\ Knows(call, canonical'.root) /\ Copying(call, disk', saved)
       /\ fence' = IF call.pc \in Fenced THEN w ELSE None
       /\ \A v \in Windows \ {w} :
            /\ memory'[v] = memory[v] /\ beat'[v] = beat[v]
            /\ leases[v] = None => leases'[v] = None
            /\ admitted[v] = "yes" /\ v \notin astray =>
                 leases'[v] = leases[v] /\ canonical'.root = canonical.root
  BY <1>1, <1>3, <1>5
<1>11. call.pc \notin {"movedbeat", "clean", "endbeat"} /\ call.pc \in Fenced \cup {"clearbeat"}
  BY <1>1, <1>3
<1>12. Alone(call) => \A v \in Windows \ astray : v # w => admitted[v] # "yes"
  BY <1>1 DEF Alone
<1> HIDE DEF call
<1> QED
  BY <1>1, <1>2, <1>3, <1>7, <1>8, <1>9, <1>10, <1>11, <1>12, MoveStep

LEMMA CheckSourceKeeps ==
  ASSUME IInv, NEW w \in Windows, NEW c \in Calls, CheckSource(w, c) PROVE IInv'
<1> DEFINE root == calls[w][c].at
           pc == IF Blockers(w, root) # {} THEN "unfence" ELSE "target"
<1>1. /\ calls[w][c].pc = "source" /\ Goes(w, c, pc)
      /\ leases' = [v \in Windows |-> IF v \in Uses(w, root) \ Blockers(w, root) THEN None ELSE leases[v]]
      /\ UNCHANGED <<canonical, memory, loading, admitted, beat, gate, fence, disk, saved, astray, done>>
  BY DEF CheckSource, LeaseCheck
<1>2. calls[w][c] \in CallStates /\ calls[w][c].copied = {} /\ root = canonical.root /\ fence = w
  BY <1>1 DEF IInv, Types, CallInv, Knows, FenceInv, Fenced
<1>3. ASSUME NEW v \in Windows \ astray, v # w, admitted[v] = "yes" PROVE v \in Blockers(w, root)
  <2>1. leases[v] = [root |-> canonical.root, fresh |-> TRUE]
    BY <1>2, <1>3 DEF IInv, AgreeInv, Agrees
  <2>2. leases[v] # None
    <3>1. canonical.root \in Roots
      BY DEF IInv, Types, Statuses
    <3>2. leases[v] \in [root : Roots, fresh : BOOLEAN]
      BY <2>1, <3>1
    <3> QED
      BY <3>2, NoneAssumption
  <2>3. leases[v].root = root /\ leases[v].fresh
    BY <1>2, <2>1
  <2> QED
    BY <1>3, <2>2, <2>3 DEF Blockers, Uses
<1>4. /\ \A v \in Windows \ {w} :
           /\ leases[v] = None => leases'[v] = None
           /\ admitted[v] = "yes" /\ v \notin astray => leases'[v] = leases[v]
      /\ leases' \in [Windows -> Leases \cup {None}] /\ leases'[w] = leases[w]
  BY <1>1, <1>3 DEF IInv, Types, Uses
<1>5. Copying([calls[w][c] EXCEPT !.pc = pc], disk, saved)
  BY <1>2 DEF Copying, CallStates
<1>6. done' \in [{"write", "move", "load", "fault"} -> Nat]
  BY <1>1 DEF IInv, Types
<1>7. pc # "unfence" => \A v \in Windows \ astray : v # w => admitted[v] # "yes"
  BY <1>3
<1>8. pc \in {"target", "unfence"}
  OBVIOUS
<1> HIDE DEF pc
<1> QED
  BY <1>1, <1>2, <1>4, <1>5, <1>6, <1>7, <1>8, GoesKeeps

LEMMA CheckTargetKeeps ==
  ASSUME IInv, NEW w \in Windows, NEW c \in Calls, CheckTarget(w, c) PROVE IInv'
<1> DEFINE root == calls[w][c].to
           pc == IF Blockers(w, root) # {} THEN "unfence" ELSE "empty"
<1>1. /\ calls[w][c].pc = "target" /\ Goes(w, c, pc)
      /\ leases' = [v \in Windows |-> IF v \in Uses(w, root) \ Blockers(w, root) THEN None ELSE leases[v]]
      /\ UNCHANGED <<canonical, memory, loading, admitted, beat, gate, fence, disk, saved, astray, done>>
  BY DEF CheckTarget, LeaseCheck
<1>2. calls[w][c] \in CallStates /\ calls[w][c].copied = {}
  BY <1>1 DEF IInv, Types, CallInv, Knows
<1>3. \A v \in Windows \ astray : v # w => admitted[v] # "yes"
  BY <1>1 DEF IInv, AloneInv, Alone
<1>4. /\ \A v \in Windows \ {w} :
           /\ leases[v] = None => leases'[v] = None
           /\ admitted[v] = "yes" /\ v \notin astray => leases'[v] = leases[v]
      /\ leases' \in [Windows -> Leases \cup {None}] /\ leases'[w] = leases[w]
  BY <1>1, <1>3 DEF IInv, Types, Uses
<1>5. Copying([calls[w][c] EXCEPT !.pc = pc], disk, saved)
  BY <1>2 DEF Copying, CallStates
<1>6. done' \in [{"write", "move", "load", "fault"} -> Nat]
  BY <1>1 DEF IInv, Types
<1>8. pc \in {"empty", "unfence"}
  OBVIOUS
<1> HIDE DEF pc
<1> QED
  BY <1>1, <1>2, <1>3, <1>4, <1>5, <1>6, <1>8, GoesKeeps

LEMMA CheckEmptyKeeps ==
  ASSUME IInv, NEW w \in Windows, NEW c \in Calls, CheckEmpty(w, c) PROVE IInv'
<1> DEFINE call == calls[w][c]
           pc == IF HasData(call.to) THEN "unfence" ELSE "copy"
           new == [call EXCEPT !.pc = pc]
<1>1. /\ call.pc = "empty" /\ Goes(w, c, pc)
      /\ UNCHANGED <<canonical, memory, loading, admitted, leases, beat, gate, fence, disk, saved, astray, done>>
  BY DEF CheckEmpty
<1>2. call \in CallStates /\ call.copied = {} /\ call.at = canonical.root
  BY <1>1 DEF IInv, Types, CallInv, Knows
<1>3. \A v \in Windows \ astray : v # w => admitted[v] # "yes"
  BY <1>1 DEF IInv, AloneInv, Alone
<1>4. \A n \in saved : \E d \in Dirs : n \in disk[call.at][d]
  BY <1>2 DEF IInv, WritesKept
<1>5. new.pc = pc /\ new.copied = {} /\ new.at = call.at /\ pc \in {"copy", "unfence"}
  BY <1>2 DEF CallStates
<1>6. done' \in [{"write", "move", "load", "fault"} -> Nat]
  BY <1>1 DEF IInv, Types
<1> HIDE DEF pc, new
<1>7. Copying(new, disk, saved)
  BY <1>4, <1>5 DEF Copying
<1> QED
  BY <1>1, <1>3, <1>5, <1>6, <1>7, GoesKeeps DEF new

LEMMA CopyFailsKeeps ==
  ASSUME IInv, NEW w \in Windows, NEW c \in Calls, CopyFails(w, c) PROVE IInv'
<1>1. /\ calls[w][c].pc = "copy" /\ Goes(w, c, "unfence")
      /\ UNCHANGED <<canonical, memory, loading, admitted, leases, beat, gate, fence, disk, saved, astray>>
  BY DEF CopyFails
<1>2. done' \in [{"write", "move", "load", "fault"} -> Nat]
  BY DEF IInv, Types, CopyFails, Count
<1>3. Copying([calls[w][c] EXCEPT !.pc = "unfence"], disk, saved)
  BY DEF Copying, IInv, Types, CallStates
<1> QED
  BY <1>1, <1>2, <1>3, GoesKeeps

LEMMA CopiedKeeps ==
  ASSUME IInv, NEW w \in Windows, NEW c \in Calls, Copied(w, c) PROVE IInv'
<1> DEFINE call == calls[w][c]
           new == [call EXCEPT !.pc = "commit"]
<1>1. /\ call.pc = "copy" /\ ToCopy(call) = {} /\ Goes(w, c, "commit")
      /\ UNCHANGED <<canonical, memory, loading, admitted, leases, beat, gate, fence, disk, saved, astray, done>>
  BY DEF Copied
<1>2. call \in CallStates /\ Copying(call, disk, saved)
  BY DEF IInv, Types, CopyInv
<1>3. \A v \in Windows \ astray : v # w => admitted[v] # "yes"
  BY <1>1 DEF IInv, AloneInv, Alone
<1>4. ASSUME NEW n \in saved PROVE \E d \in Dirs : n \in disk[call.to][d]
  <2>1. PICK d \in Dirs : /\ n \in disk[call.at][d]
                          /\ IF d \in call.copied THEN n \in disk[call.to][d] ELSE \A e \in call.copied : e < d
    BY <1>1, <1>2 DEF Copying
  <2>2. d \in call.copied
    BY <1>1, <2>1 DEF ToCopy
  <2> QED
    BY <2>1, <2>2
<1>5. new.pc = "commit" /\ new.to = call.to
  BY <1>2 DEF CallStates
<1>6. done' \in [{"write", "move", "load", "fault"} -> Nat]
  BY <1>1 DEF IInv, Types
<1> HIDE DEF new
<1>7. saved \subseteq UNION {disk[call.to][d] : d \in Dirs}
  BY <1>4
<1>8. Copying(new, disk, saved)
  BY <1>5, <1>7 DEF Copying
<1> QED
  BY <1>1, <1>3, <1>6, <1>8, GoesKeeps DEF new

LEMMA CheckKeeps ==
  ASSUME IInv, NEW w \in Windows, NEW c \in Calls, Check(w, c) PROVE IInv'
<1> DEFINE old == calls[w][c]
           pc == IF canonical.rev # old.seen THEN "unfence"
                 ELSE IF canonical.root = old.to THEN "commit" ELSE "source"
           call == [old EXCEPT !.at = canonical.root, !.pc = pc]
<1>1. /\ old.pc = "fence" /\ fence = None /\ fence' = w /\ memory' = [memory EXCEPT ![w] = canonical]
      /\ calls' = [calls EXCEPT ![w] = [@ EXCEPT ![c] = call]]
      /\ UNCHANGED <<canonical, loading, admitted, leases, beat, gate, disk, saved, astray, done>>
  BY DEF Check, Free, IInv, Types
<1>2. /\ old \in CallStates /\ old.copied = {} /\ Moves(old) /\ canonical \in Statuses
      /\ canonical.root \in Roots /\ canonical # None
  <2>1. Knows(old, canonical.root) /\ old \in CallStates /\ canonical \in Statuses
    BY DEF IInv, Types, CallInv
  <2>2. canonical # None
    BY <2>1, NoneAssumption DEF Statuses
  <2> QED
    BY <1>1, <2>1, <2>2 DEF Knows, Statuses
<1>3. /\ call \in CallStates /\ call.pc = pc /\ call.to = old.to /\ call.at = canonical.root /\ call.copied = {}
      /\ pc \in {"unfence", "commit", "source"}
      /\ pc = "commit" => canonical.root = old.to
      /\ pc = "source" => canonical.root # old.to
  BY <1>2 DEF CallStates, Pcs, Fenced
<1> HIDE DEF call, pc
<1>4. admitted[w] = "yes" /\ w # None
  BY <1>1, WorksAdmitted, NoneAssumption
<1>5. Knows(call, canonical.root)
  BY <1>2, <1>3 DEF Knows, Moves, Fenced
<1>6. Copying(call, disk, saved) /\ ~Alone(call)
  BY <1>3 DEF Copying, Alone
<1>7. w \notin astray => Agrees(w)'
  <2>1. w \notin astray => Agrees(w)
    BY <1>1, <1>4 DEF IInv, AgreeInv
  <2> QED
    BY <1>1, <2>1 DEF Agrees, IInv, Types
<1>8. WritesKept'
  BY <1>1 DEF IInv, WritesKept
<1>9. /\ canonical' \in Statuses /\ memory' \in [Windows -> Statuses \cup {None}] /\ memory'[w] # None
      /\ leases' \in [Windows -> Leases \cup {None}] /\ beat' \in [Windows -> Roots \cup {None}]
      /\ disk' \in [Roots -> [Dirs -> SUBSET Nat]] /\ done' \in [{"write", "move", "load", "fault"} -> Nat]
  BY <1>1, <1>2 DEF IInv, Types
<1>10. /\ Knows(call, canonical'.root) /\ Copying(call, disk', saved)
       /\ fence' = IF call.pc \in Fenced THEN w ELSE None
       /\ \A v \in Windows \ {w} :
            /\ memory'[v] = memory[v] /\ beat'[v] = beat[v]
            /\ leases[v] = None => leases'[v] = None
            /\ admitted[v] = "yes" /\ v \notin astray =>
                 leases'[v] = leases[v] /\ canonical'.root = canonical.root
  BY <1>1, <1>3, <1>5, <1>6 DEF Fenced, IInv, Types
<1>11. /\ call.pc \notin {"movedbeat", "clean", "endbeat"} /\ call.pc \in Fenced \cup {"clearbeat"}
       /\ old.pc \in Fenced \cup {"fence"} /\ (old.pc = "fence" => fence = None)
  BY <1>1, <1>3 DEF Fenced
<1> QED
  BY <1>1, <1>3, <1>6, <1>7, <1>8, <1>9, <1>10, <1>11, MoveStep

LEMMA CopyDirKeeps ==
  ASSUME IInv, NEW w \in Windows, NEW c \in Calls, NEW d \in Dirs, CopyDir(w, c, d) PROVE IInv'
<1> DEFINE old == calls[w][c]
           call == [old EXCEPT !.copied = @ \cup {d}]
<1>1. /\ old.pc = "copy" /\ d \in ToCopy(old) /\ \A e \in ToCopy(old) : d <= e
      /\ UNCHANGED <<canonical, memory, loading, admitted, leases, beat, gate, fence, saved, astray, done>>
  BY DEF CopyDir
<1>2. /\ old \in CallStates /\ Knows(old, canonical.root) /\ Copying(old, disk, saved)
      /\ done' \in [{"write", "move", "load", "fault"} -> Nat]
  BY <1>1 DEF IInv, Types, CallInv, CopyInv
<1>3. \A v \in Windows \ astray : v # w => admitted[v] # "yes"
  BY <1>1 DEF IInv, AloneInv, Alone
<1>4. CASE disk[old.to][d] # {}
  <2>1. Goes(w, c, "unfence") /\ disk' = disk
    BY <1>4 DEF CopyDir
  <2>2. Copying([old EXCEPT !.pc = "unfence"], disk, saved)
    BY <1>2 DEF Copying, CallStates
  <2> QED
    BY <1>1, <1>2, <2>1, <2>2, GoesKeeps
<1>5. CASE disk[old.to][d] = {}
  <2>1. /\ disk' = [disk EXCEPT ![old.to] = [@ EXCEPT ![d] = disk[old.at][d]]]
        /\ calls' = [calls EXCEPT ![w] = [@ EXCEPT ![c] = call]]
    BY <1>5 DEF CopyDir, IInv, Types
  <2>2. /\ call \in CallStates /\ call.pc = "copy" /\ call.to = old.to /\ call.at = old.at
        /\ call.copied = old.copied \cup {d}
    BY <1>1, <1>2 DEF CallStates
  <2>3. old.to \in Roots /\ old.at \in Roots /\ old.to # old.at /\ old.at = canonical.root
    BY <1>1, <1>2 DEF Knows, Fenced, Moves, CallStates
  <2>4. /\ disk' \in [Roots -> [Dirs -> SUBSET Nat]] /\ disk'[old.at] = disk[old.at]
        /\ disk'[old.to][d] = disk[old.at][d] /\ \A e \in Dirs \ {d} : disk'[old.to][e] = disk[old.to][e]
    BY <2>1, <2>3 DEF IInv, Types
  <2> HIDE DEF call
  <2>5. Copying(call, disk', saved)
    <3> SUFFICES ASSUME NEW n \in saved
                 PROVE  \E e \in Dirs :
                          /\ n \in disk'[old.at][e]
                          /\ IF e \in call.copied THEN n \in disk'[old.to][e] ELSE \A f \in call.copied : f < e
      BY <2>2 DEF Copying
    <3>1. PICK e \in Dirs : /\ n \in disk[old.at][e]
                            /\ IF e \in old.copied THEN n \in disk[old.to][e] ELSE \A f \in old.copied : f < e
      BY <1>1, <1>2 DEF Copying
    <3>2. d \notin old.copied
      BY <1>1 DEF ToCopy
    <3>3. CASE e = d
      BY <2>2, <2>4, <3>1, <3>3
    <3>4. CASE e \in old.copied
      BY <2>2, <2>4, <3>1, <3>2, <3>4
    <3>5. CASE e # d /\ e \notin old.copied
      <4>1. e \in ToCopy(old)
        BY <3>1, <3>5 DEF ToCopy
      <4>2. d < e
        BY <1>1, <3>5, <4>1, DirsAssumption
      <4>3. \A f \in call.copied : f < e
        BY <2>2, <3>1, <3>5, <4>2
      <4> QED
        BY <2>2, <2>4, <3>1, <3>5, <4>3
    <3> QED
      BY <3>3, <3>4, <3>5
  <2>6. Knows(call, canonical.root)
    BY <1>1, <1>2, <2>2 DEF Knows, Fenced, Moves
  <2>7. WritesKept'
    BY <1>1, <2>3, <2>4 DEF IInv, WritesKept
  <2>8. admitted[w] = "yes" /\ memory[w] # None /\ fence = w
    BY <1>1, WorksAdmitted DEF IInv, AdmissionInv, FenceInv, Fenced
  <2>9. w \notin astray => Agrees(w)'
    BY <1>1, <2>8 DEF IInv, AgreeInv, Agrees
  <2>10. /\ canonical' \in Statuses /\ memory' \in [Windows -> Statuses \cup {None}] /\ memory'[w] # None
         /\ leases' \in [Windows -> Leases \cup {None}] /\ beat' \in [Windows -> Roots \cup {None}]
    BY <1>1, <2>8 DEF IInv, Types
  <2>11. /\ Knows(call, canonical'.root)
         /\ fence' = IF call.pc \in Fenced THEN w ELSE None
         /\ \A v \in Windows \ {w} :
              /\ memory'[v] = memory[v] /\ beat'[v] = beat[v]
              /\ leases[v] = None => leases'[v] = None
              /\ admitted[v] = "yes" /\ v \notin astray =>
                   leases'[v] = leases[v] /\ canonical'.root = canonical.root
    BY <1>1, <2>2, <2>6, <2>8 DEF Fenced
  <2>12. /\ call.pc \notin {"movedbeat", "clean", "endbeat"} /\ call.pc \in Fenced \cup {"clearbeat"}
         /\ old.pc \in Fenced \cup {"fence"} /\ (old.pc = "fence" => fence = None)
    BY <1>1, <2>2 DEF Fenced
  <2> QED
    BY <1>1, <1>2, <1>3, <2>1, <2>2, <2>4, <2>5, <2>7, <2>9, <2>10, <2>11, <2>12, MoveStep
<1> QED
  BY <1>4, <1>5

LEMMA CommitKeeps ==
  ASSUME IInv, NEW w \in Windows, NEW c \in Calls, Commit(w, c) PROVE IInv'
<1> DEFINE old == calls[w][c]
           call == [old EXCEPT !.pc = "movedbeat"]
           new == [root |-> old.to, rev |-> canonical.rev + 1]
<1>1. /\ old.pc = "commit" /\ canonical' = new /\ memory' = [memory EXCEPT ![w] = new]
      /\ calls' = [calls EXCEPT ![w] = [@ EXCEPT ![c] = call]]
      /\ beat' = [beat EXCEPT ![w] = IF @ = None /\ Waits([calls[w] EXCEPT ![c].pc = "movedbeat"]) THEN old.to ELSE @]
      /\ UNCHANGED <<loading, admitted, leases, gate, fence, disk, saved, astray, done>>
  BY DEF Commit, Proceed, IInv, Types
<1>2. /\ old \in CallStates /\ Knows(old, canonical.root) /\ Copying(old, disk, saved)
      /\ canonical \in Statuses /\ done' \in [{"write", "move", "load", "fault"} -> Nat]
  BY <1>1 DEF IInv, Types, CallInv, CopyInv
<1>3. old.to \in Roots /\ old.at = canonical.root /\ new \in Statuses /\ new # None /\ new.root = old.to
  <2>1. old.to \in Roots /\ old.at = canonical.root
    BY <1>1, <1>2 DEF Knows, Fenced, Moves, CallStates
  <2>2. new \in Statuses
    BY <1>2, <2>1 DEF Statuses
  <2> QED
    BY <2>1, <2>2, NoneAssumption DEF Statuses
<1>4. call \in CallStates /\ call.pc = "movedbeat" /\ call.to = old.to /\ call.at = old.at /\ call.copied = old.copied
  BY <1>2 DEF CallStates, Pcs, Fenced
<1> HIDE DEF call, new
<1>5. Knows(call, canonical'.root)
  BY <1>1, <1>2, <1>3, <1>4 DEF Knows, Fenced, Moves
<1>6. Copying(call, disk', saved) /\ ~Alone(call)
  BY <1>4 DEF Copying, Alone
<1>7. WritesKept'
  <2>1. CASE old.to = old.at
    BY <1>1, <1>3, <2>1 DEF IInv, WritesKept
  <2>2. CASE old.to # old.at
    BY <1>1, <1>2, <1>3, <2>2 DEF Copying, WritesKept
  <2> QED
    BY <2>1, <2>2
<1>8. \A v \in Windows \ astray : v # w /\ admitted[v] = "yes" => canonical'.root = canonical.root
  BY <1>1, <1>3 DEF IInv, AloneInv, Alone
<1>9. fence = w
  BY <1>1 DEF IInv, FenceInv, Fenced
<1>10. /\ canonical' \in Statuses /\ memory' \in [Windows -> Statuses \cup {None}] /\ memory'[w] # None
       /\ leases' \in [Windows -> Leases \cup {None}] /\ beat' \in [Windows -> Roots \cup {None}]
       /\ disk' \in [Roots -> [Dirs -> SUBSET Nat]] /\ memory'[w].root = canonical'.root
  BY <1>1, <1>3 DEF IInv, Types
<1>11. /\ fence' = IF call.pc \in Fenced THEN w ELSE None
       /\ \A v \in Windows \ {w} :
            /\ memory'[v] = memory[v] /\ beat'[v] = beat[v]
            /\ leases[v] = None => leases'[v] = None
            /\ admitted[v] = "yes" /\ v \notin astray =>
                 leases'[v] = leases[v] /\ canonical'.root = canonical.root
  BY <1>1, <1>4, <1>8, <1>9 DEF Fenced, IInv, Types
<1>12. /\ call.pc \notin {"clearbeat", "source", "target", "empty", "copy", "commit", "unfence", "clean", "endbeat"}
       /\ call.pc \in Fenced \cup {"clearbeat"}
       /\ old.pc \in Fenced \cup {"fence"} /\ (old.pc = "fence" => fence = None)
  BY <1>1, <1>4 DEF Fenced
<1> QED
  BY <1>1, <1>2, <1>4, <1>5, <1>6, <1>7, <1>10, <1>11, <1>12, MoveStep

LEMMA CleanDirKeeps ==
  ASSUME IInv, NEW w \in Windows, NEW c \in Calls, NEW d \in Dirs, CleanDir(w, c, d) PROVE IInv'
<1> DEFINE old == calls[w][c]
           call == [old EXCEPT !.copied = @ \ {d}]
<1>1. /\ old.pc = "clean" /\ d \in old.copied
      /\ disk' = [disk EXCEPT ![old.at] = [@ EXCEPT ![d] = {}]]
      /\ calls' = [calls EXCEPT ![w] = [@ EXCEPT ![c] = call]]
      /\ UNCHANGED <<canonical, memory, loading, admitted, leases, beat, gate, fence, saved, astray, done>>
  BY DEF CleanDir, IInv, Types
<1>2. /\ old \in CallStates /\ Knows(old, canonical.root)
      /\ done' \in [{"write", "move", "load", "fault"} -> Nat]
  BY <1>1 DEF IInv, Types, CallInv
<1>3. old.at \in Roots /\ old.at # canonical.root
  BY <1>1, <1>2 DEF Knows, Fenced
<1>4. /\ call \in CallStates /\ call.pc = "clean" /\ call.to = old.to /\ call.at = old.at
      /\ call.copied = old.copied \ {d}
  BY <1>1, <1>2 DEF CallStates
<1> HIDE DEF call
<1>5. Knows(call, canonical.root)
  BY <1>1, <1>2, <1>3, <1>4 DEF Knows, Fenced, Moves
<1>6. Copying(call, disk', saved) /\ ~Alone(call)
  BY <1>4 DEF Copying, Alone
<1>7. disk' \in [Roots -> [Dirs -> SUBSET Nat]] /\ disk'[canonical.root] = disk[canonical.root]
  <2>1. [disk[old.at] EXCEPT ![d] = {}] \in [Dirs -> SUBSET Nat]
    BY <1>3 DEF IInv, Types
  <2> QED
    BY <1>1, <1>3, <2>1 DEF IInv, Types, Statuses
<1>8. WritesKept'
  BY <1>1, <1>7 DEF IInv, WritesKept
<1>9. admitted[w] = "yes" /\ memory[w] # None /\ fence = w
  BY <1>1, WorksAdmitted DEF IInv, AdmissionInv, FenceInv, Fenced
<1>10. w \notin astray => memory'[w].root = canonical'.root /\ beat'[w] \in {None, canonical'.root}
  BY <1>1, <1>9 DEF IInv, AgreeInv
<1>11. /\ canonical' \in Statuses /\ memory' \in [Windows -> Statuses \cup {None}] /\ memory'[w] # None
       /\ leases' \in [Windows -> Leases \cup {None}] /\ beat' \in [Windows -> Roots \cup {None}]
  BY <1>1, <1>9 DEF IInv, Types
<1>12. /\ Knows(call, canonical'.root)
       /\ fence' = IF call.pc \in Fenced THEN w ELSE None
       /\ \A v \in Windows \ {w} :
            /\ memory'[v] = memory[v] /\ beat'[v] = beat[v]
            /\ leases[v] = None => leases'[v] = None
            /\ admitted[v] = "yes" /\ v \notin astray =>
                 leases'[v] = leases[v] /\ canonical'.root = canonical.root
  BY <1>1, <1>4, <1>5, <1>9 DEF Fenced
<1>13. /\ call.pc \notin {"clearbeat", "source", "target", "empty", "copy", "commit", "unfence"}
       /\ call.pc \in Fenced \cup {"clearbeat"}
       /\ old.pc \in Fenced \cup {"fence"} /\ (old.pc = "fence" => fence = None)
  BY <1>1, <1>4 DEF Fenced
<1> QED
  BY <1>1, <1>2, <1>4, <1>6, <1>7, <1>8, <1>10, <1>11, <1>12, <1>13, MoveStep

\* The heartbeats that end a move: the window names again the root in use.
LEMMA EndsKeeps ==
  ASSUME IInv, NEW w \in Windows, NEW c \in Calls, NEW pc \in {"endbeat", "clearbeat"},
         calls[w][c].pc = (IF pc = "endbeat" THEN "clean" ELSE "unfence"),
         Proceed(w, [calls[w] EXCEPT ![c].pc = pc], memory[w].root),
         fence' = (IF pc = "endbeat" THEN fence ELSE None),
         done' \in [{"write", "move", "load", "fault"} -> Nat],
         UNCHANGED <<canonical, memory, loading, admitted, leases, gate, disk, saved, astray>>
  PROVE  IInv'
<1> DEFINE old == calls[w][c]
           call == [old EXCEPT !.pc = pc]
           of == [calls[w] EXCEPT ![c].pc = pc]
<1>1. /\ old \in CallStates /\ Knows(old, canonical.root)
      /\ calls' = [calls EXCEPT ![w] = [@ EXCEPT ![c] = call]]
      /\ beat' = [beat EXCEPT ![w] = IF @ = None /\ Waits(of) THEN memory[w].root ELSE @]
  BY DEF IInv, Types, CallInv, Proceed
<1>2. call \in CallStates /\ call.pc = pc /\ call.to = old.to /\ call.at = old.at
  <2>1. pc \in Pcs
    BY DEF Pcs, Fenced
  <2> QED
    BY <1>1, <2>1 DEF CallStates
<1> HIDE DEF call, of
<1>3. old.pc \in Fenced /\ fence = w
  BY DEF IInv, FenceInv, Fenced
<1>4. admitted[w] = "yes" /\ memory[w] # None /\ memory[w].root \in Roots
  BY <1>3, WorksAdmitted DEF IInv, AdmissionInv, Fenced
<1>5. Knows(call, canonical.root)
  BY <1>1, <1>2, <1>3 DEF Knows, Fenced, Moves
<1>6. Copying(call, disk', saved) /\ ~Alone(call)
  BY <1>2 DEF Copying, Alone
<1>7. WritesKept'
  BY DEF IInv, WritesKept
<1>8. beat'[w] \in {beat[w], memory[w].root} /\ beat' \in [Windows -> Roots \cup {None}]
  BY <1>1, <1>4 DEF IInv, Types
<1>9. w \notin astray => memory[w].root = canonical.root /\ beat[w] \in {None, canonical.root}
  BY <1>4 DEF IInv, AgreeInv, Agrees
<1>10. w \notin astray => memory'[w].root = canonical'.root /\ beat'[w] \in {None, canonical'.root}
  BY <1>8, <1>9
<1>11. w \notin astray /\ pc = "clearbeat" => Agrees(w)'
  <2>1. w \notin astray /\ pc = "clearbeat" => Agrees(w)
    BY <1>4 DEF IInv, AgreeInv
  <2> QED
    BY <1>10, <2>1 DEF Agrees
<1>12. /\ canonical' \in Statuses /\ memory' \in [Windows -> Statuses \cup {None}] /\ memory'[w] # None
       /\ leases' \in [Windows -> Leases \cup {None}] /\ disk' \in [Roots -> [Dirs -> SUBSET Nat]]
  BY <1>4 DEF IInv, Types
<1>13. /\ Knows(call, canonical'.root)
       /\ fence' = IF call.pc \in Fenced THEN w ELSE None
       /\ \A v \in Windows \ {w} :
            /\ memory'[v] = memory[v] /\ beat'[v] = beat[v]
            /\ leases[v] = None => leases'[v] = None
            /\ admitted[v] = "yes" /\ v \notin astray =>
                 leases'[v] = leases[v] /\ canonical'.root = canonical.root
  BY <1>1, <1>2, <1>3, <1>5 DEF Fenced, IInv, Types
<1>14. /\ call.pc \notin {"source", "target", "empty", "copy", "commit", "unfence", "movedbeat", "clean"}
       /\ call.pc \in Fenced \cup {"clearbeat"}
       /\ old.pc \in Fenced \cup {"fence"} /\ (old.pc = "fence" => fence = None)
  BY <1>2, <1>3 DEF Fenced
<1> QED
  BY <1>1, <1>2, <1>6, <1>7, <1>8, <1>10, <1>11, <1>12, <1>13, <1>14, MoveStep

LEMMA CleanedKeeps ==
  ASSUME IInv, NEW w \in Windows, NEW c \in Calls, Cleaned(w, c) PROVE IInv'
<1>1. done' \in [{"write", "move", "load", "fault"} -> Nat]
  BY DEF IInv, Types, Cleaned, Count
<1>2. /\ calls[w][c].pc = "clean" /\ Proceed(w, [calls[w] EXCEPT ![c].pc = "endbeat"], memory[w].root)
      /\ UNCHANGED <<canonical, memory, loading, admitted, leases, gate, fence, disk, saved, astray>>
  BY DEF Cleaned, Last
<1> QED
  BY <1>1, <1>2, EndsKeeps

LEMMA UnfenceKeeps ==
  ASSUME IInv, NEW w \in Windows, NEW c \in Calls, Unfence(w, c) PROVE IInv'
<1>1. done' \in [{"write", "move", "load", "fault"} -> Nat]
  BY DEF IInv, Types, Unfence
<1>2. /\ calls[w][c].pc = "unfence" /\ Proceed(w, [calls[w] EXCEPT ![c].pc = "clearbeat"], memory[w].root)
      /\ fence' = None
      /\ UNCHANGED <<canonical, memory, loading, admitted, leases, gate, disk, saved, astray>>
  BY DEF Unfence
<1> QED
  BY <1>1, <1>2, EndsKeeps

-----------------------------------------------------------------------------
(* The theorems *)

LEMMA Inductive == IInv /\ [Next]_vars => IInv'
<1> SUFFICES ASSUME IInv, [Next]_vars PROVE IInv'
  OBVIOUS
<1>1. CASE UNCHANGED vars
  BY <1>1, StutterKeeps
<1>2. ASSUME NEW w \in Windows, Admit(w) \/ BeatLands(w) \/ BeatFails(w) \/ TimerBeats(w)
      PROVE  IInv'
  BY <1>2, AdmitKeeps, BeatLandsKeeps, BeatFailsKeeps, TimerBeatsKeeps
<1>3. ASSUME NEW w \in Windows, LoadBegins(w) \/ LoadEnds(w) \/ Expires(w) \/ Crash(w)
      PROVE  IInv'
  BY <1>3, LoadBeginsKeeps, LoadEndsKeeps, ExpiresKeeps, CrashKeeps
<1>4. ASSUME NEW w \in Windows, NEW c \in Calls,
             \/ Begin(w, c) \/ (\E root \in Roots : BeginMove(w, c, root))
             \/ (\E d \in Dirs : Write(w, c, d) \/ CopyDir(w, c, d) \/ CleanDir(w, c, d))
      PROVE  IInv'
  BY <1>4, BeginKeeps, BeginMoveKeeps, WriteKeeps, CopyDirKeeps, CleanDirKeeps
<1>5. ASSUME NEW w \in Windows, NEW c \in Calls,
             \/ Check(w, c) \/ CheckSource(w, c) \/ CheckTarget(w, c) \/ CheckEmpty(w, c)
             \/ CopyFails(w, c) \/ Copied(w, c) \/ Commit(w, c) \/ Cleaned(w, c)
             \/ Unfence(w, c) \/ Leave(w, c)
      PROVE  IInv'
  BY <1>5, CheckKeeps, CheckSourceKeeps, CheckTargetKeeps, CheckEmptyKeeps, CopyFailsKeeps,
     CopiedKeeps, CommitKeeps, CleanedKeeps, UnfenceKeeps, LeaveKeeps
<1> QED
  BY <1>1, <1>2, <1>3, <1>4, <1>5 DEF Next

LEMMA InvariantHolds == Spec => []IInv
<1> QED
  BY InitHolds, Inductive, PTL DEF Spec

(* No write that was reported as done is lost by a move of the root, whatever
   the windows, roots and directories, and however their steps, crashes and
   failures interleave (withDataRootAdmissionFence, migrateRegisteredData).  *)
THEOREM NoWriteIsLost == Spec => []WritesKept
<1>1. IInv => WritesKept
  BY DEF IInv
<1> QED
  BY <1>1, InvariantHolds, PTL

\* What the invariant says of the gates is what GateHolds does.
LEMMA GatesFollow == IInv => GateHolds
<1> SUFFICES ASSUME IInv, NEW w \in Windows
             PROVE  LET shared == {c \in Past(w) : ~Moves(calls[w][c])} IN
                    /\ gate[w].shared = Cardinality(shared)
                    /\ gate[w].exclusive <=> Past(w) # shared
                    /\ gate[w].exclusive => Cardinality(Past(w)) = 1
                    /\ gate[w].queue # <<>> => Past(w) # {}
  BY DEF GateHolds
<1>1. /\ gate[w] \in Gates /\ GateOf(gate[w], calls[w]) /\ Past(w) = PastOf(calls[w])
      /\ {c \in Past(w) : ~Moves(calls[w][c])} = SharedOf(calls[w])
  BY DEF IInv, Types, GateInv, Past, PastOf, SharedOf
<1>2. gate[w].exclusive => \E c \in Calls : PastOf(calls[w]) = {c}
  <2>1. ASSUME gate[w].exclusive PROVE \E c \in Calls : PastOf(calls[w]) = {c}
    <3>1. PICK c \in PastOf(calls[w]) : Moves(calls[w][c])
      BY <1>1, <2>1 DEF GateOf
    <3>2. PastOf(calls[w]) = {c}
      BY <1>1, <3>1 DEF GateOf
    <3> QED
      BY <3>1, <3>2 DEF PastOf
  <2> QED
    BY <2>1
<1>3. gate[w].exclusive => Cardinality(PastOf(calls[w])) = 1
  BY <1>2, FS_Singleton
<1>4. gate[w].exclusive <=> PastOf(calls[w]) # SharedOf(calls[w])
  BY <1>1 DEF GateOf, SharedOf
<1>5. gate[w].shared = Cardinality(SharedOf(calls[w])) /\ (gate[w].queue # <<>> => PastOf(calls[w]) # {})
  BY <1>1 DEF GateOf
<1> QED
  BY <1>1, <1>3, <1>4, <1>5

(* Windows that did not lose their lease work in the root the status names
   and say so on disk, each past its own gate, and the fence is held by the
   one that moves the root (DataRootMutationGate, dataRootProcessLease.ts).  *)
THEOREM AdmissionIsSound == Spec => []AdmissionHolds
<1>1. IInv => AdmittedAgree
  BY DEF IInv, AgreeInv, Agrees, AdmittedAgree
<1>2. ASSUME IInv PROVE TypeOK
  <2>1. ASSUME NEW w \in Windows
        PROVE  Cardinality({c \in Calls : calls[w][c].pc \in {"unfence", "source", "copy", "clean"}}) <= 1
    <3> DEFINE S == {c \in Calls : calls[w][c].pc \in {"unfence", "source", "copy", "clean"}}
    <3> SUFFICES Cardinality(S) <= 1
      OBVIOUS
    <3>1. CASE S = {}
      <4>1. Cardinality(S) = 0
        BY <3>1, FS_EmptySet
      <4> HIDE DEF S
      <4> QED
        BY <4>1
    <3>2. CASE S # {}
      <4>1. PICK c \in S : TRUE
        BY <3>2
      <4>2. \A d \in S : d = c
        BY <1>2, <4>1, OneMover DEF Fenced
      <4>3. S = {c}
        BY <4>1, <4>2
      <4>4. Cardinality(S) = 1
        BY <4>3, FS_Singleton
      <4> HIDE DEF S
      <4> QED
        BY <4>4
    <3> QED
      BY <3>1, <3>2
  <2>2. canonical.root \in Roots /\ canonical.rev \in Nat /\ fence \in Windows \cup {None}
    BY <1>2 DEF IInv, Types, Statuses
  <2>3. ASSUME NEW w \in Windows
        PROVE  /\ memory[w] = None \/ memory[w].root \in Roots
               /\ admitted[w] \in {"no", "asking", "leasing", "yes"}
               /\ beat[w] \in Roots \cup {None}
               /\ leases[w] = None \/ leases[w] \in [root : Roots, fresh : BOOLEAN]
    BY <1>2 DEF IInv, Types, Statuses, Leases
  <2>4. \A w \in Windows : (\E c \in Calls : calls[w][c].pc \in
          {"source", "target", "empty", "copy", "commit", "movedbeat", "clean", "endbeat", "unfence"}) => fence = w
    BY <1>2 DEF IInv, FenceInv, Fenced
  <2> QED
    BY <2>1, <2>2, <2>3, <2>4 DEF TypeOK
<1>3. IInv => AdmissionHolds
  BY <1>1, <1>2, GatesFollow DEF AdmissionHolds
<1> QED
  BY <1>3, InvariantHolds, PTL

-----------------------------------------------------------------------------
(* The inductive invariant.                                                  *)

Value(s) == IF s = "configs" THEN [ConfigIds -> 0..MaxEdits + 1] ELSE [{"active"} -> ConfigIds]
Maybe(s) == Value(s) \cup {Sync!Nil}
Section(s) ==
  [form : Value(s), base : Maybe(s), rev : Maybe(s), sent : Maybe(s), queued : Maybe(s),
   staged : [value : Value(s), rev : Value(s)] \cup {Sync!Nil},
   conflict : BOOLEAN, loading : BOOLEAN, timer : BOOLEAN, failed : BOOLEAN]
Job(s) ==
  [kind : {"get", "watch", "update"}, for : SUBSET Panels, s : {s},
   at : {"read", "answer", "save", "commit", "publish"}, value : Maybe(s), rev : Maybe(s), id : Nat]
Message(s) ==
  [s : {s}, value : Maybe(s), rev : Maybe(s), id : Nat, code : {"snapshot", "conflict", "error"}]

Messages == Message("configs") \cup Message("llm")

\* What a table says of configurations that have been stored.
Known(kn, v) == \A id \in ConfigIds : v[id] # 0 => id \in kn
\* What differs between two tables is among the edits t.
Edited(t, v, w) == \A k \in ConfigIds : v[k] # w[k] => <<"configs", k>> \in t

\* A section that was not read yet, and one that was.
Blank(c) ==
  IF c.base = Sync!Nil THEN c.rev = Sync!Nil /\ c.sent = Sync!Nil /\ c.queued = Sync!Nil /\ c.staged = Sync!Nil /\ ~c.conflict /\ ~c.timer
                  ELSE c.rev # Sync!Nil
\* What differs from the base, and from the save on its way, was edited here.
Table(t, kn, c) ==
  /\ c.staged # Sync!Nil => c.staged.value = c.staged.rev /\ Known(kn, c.staged.value)
  /\ c.base # Sync!Nil => c.rev = c.base /\ Known(kn, c.base) /\ Edited(t, c.form, c.base)
  /\ c.queued # Sync!Nil => Edited(t, c.queued, c.base)
  /\ c.sent # Sync!Nil => Edited(t, c.sent, c.base) /\ Edited(t, c.form, c.sent)
Good(t, kn, s, c) == c \in Section(s) /\ Blank(c) /\ (s = "configs" => Table(t, kn, c))

\* Something is to be saved.
Active(c) == c.timer \/ c.queued # Sync!Nil \/ c.sent # Sync!Nil

\* What is sent of a section, and of the table what is stored.
GoodSnap(kn, s, m) ==
  /\ m.value \in Value(s) /\ m.rev \in Value(s)
  /\ s = "configs" => m.value = m.rev /\ Known(kn, m.value)
GoodJob(tt, kn, j) ==
  /\ j.s \in Sync!Sections /\ j \in Job(j.s)
  /\ j.kind = "watch" => j.for = Panels
  /\ j.kind # "watch" => \E p \in Panels : j.for = {p}
  /\ j.kind # "update" => j.at \in {"read", "answer"}
  /\ j.at # "read" => j.value \in Value(j.s) /\ j.rev \in Value(j.s)
  /\ j.at \in {"answer", "publish"} => GoodSnap(kn, j.s, j)
  /\ j.at \in {"save", "commit"} /\ j.s = "configs" =>
       \E p \in j.for : Edited(tt[p], j.value, j.rev)
GoodMail(kn, m) == m \in Messages /\ (m.code = "snapshot" => GoodSnap(kn, m.s, m))

DiskInv ==
  /\ settingsDisk \in [Sync!Sections -> Value("configs") \cup Value("llm")] /\ \A s \in Sync!Sections : settingsDisk[s] \in Value(s)
  /\ (\E id \in ConfigIds : settingsDisk["configs"][id] # 0) /\ Known(settingsKnown, settingsDisk["configs"])
PanelInv ==
  /\ settingsPanel \in [Panels -> [Sync!Sections -> Section("configs") \cup Section("llm")]]
  /\ \A p \in Panels : \A s \in Sync!Sections : Good(settingsTouched[p], settingsKnown, s, settingsPanel[p][s])
  /\ \A p \in Panels : Active(settingsPanel[p]["configs"]) => settingsPanel[p]["llm"].base # Sync!Nil
MailInv ==
  /\ settingsInbox \in [Panels -> Seq(Messages)]
  /\ \A p \in Panels : \A i \in DOMAIN settingsInbox[p] : GoodMail(settingsKnown, settingsInbox[p][i])
RestTypes ==
  /\ settingsFollow \in [Panels -> ConfigIds \cup {0}] /\ settingsChanged \subseteq Sync!Sections
  /\ settingsTouched \in [Panels -> SUBSET (({"configs"} \X ConfigIds) \cup ({"llm"} \X {"active"}))]
  /\ settingsGaveUp \subseteq Panels \X Sync!Sections /\ settingsKnown \subseteq ConfigIds
  /\ settingsEdits \in 0..MaxEdits /\ settingsReloads \in [Panels -> Nat]
SaveInv == DiskInv /\ PanelInv /\ (\A j \in settingsJobs : GoodJob(settingsTouched, settingsKnown, j)) /\ MailInv /\ RestTypes

-----------------------------------------------------------------------------
(* Why no edit is forgotten.                                                 *)

\* The save on its way is the job or the message that will end it; n reloads were made.
Mine(p, n, s, j) == j.kind = "update" /\ p \in j.for /\ j.s = s /\ j.id = n + 1
Ours(n, s, m) == m.s = s /\ m.id = n + 1
Token(p, n, s, c, js, q) ==
  /\ \A j, k \in js : Mine(p, n, s, j) /\ Mine(p, n, s, k) => j = k
  /\ \A i, k \in DOMAIN q : Ours(n, s, q[i]) /\ Ours(n, s, q[k]) => i = k
  /\ \A j \in js, i \in DOMAIN q : ~(Mine(p, n, s, j) /\ Ours(n, s, q[i]))
  /\ c.sent # Sync!Nil <=> (\E j \in js : Mine(p, n, s, j)) \/ (\E i \in DOMAIN q : Ours(n, s, q[i]))
Numbered(j, p, n) == IF j.kind = "update" THEN p \in j.for => j.id \in 1..n + 1 ELSE j.id = 0
TokenInv ==
  /\ \A j \in settingsJobs : \A p \in Panels : Numbered(j, p, settingsReloads[p])
  /\ \A p \in Panels : \A i \in DOMAIN settingsInbox[p] : settingsInbox[p][i].id <= settingsReloads[p] + 1
  /\ \A p \in Panels : \A s \in Sync!Sections : Token(p, settingsReloads[p], s, settingsPanel[p][s], settingsJobs, settingsInbox[p])

\* What is stored of a section is on its way to a panel.
Answering(p, s, j) == j.s = s /\ j.at \in {"read", "answer"} /\ (p \in j.for \/ j.kind = "update")
IsSnap(s, m) == m.s = s /\ m.code = "snapshot"
Coming(p, s, js, q) == (\E j \in js : Answering(p, s, j)) \/ (\E i \in DOMAIN q : IsSnap(s, q[i]))
ComingInv ==
  \A p \in Panels : \A s \in Sync!Sections : settingsPanel[p][s].base = Sync!Nil => Coming(p, s, settingsJobs, settingsInbox[p])

\* A section whose save is still to be made or answered.
Busy(c) == c.queued # Sync!Nil \/ c.sent # Sync!Nil
Ready(c) == c.sent = Sync!Nil /\ ~c.conflict /\ c.staged = Sync!Nil
GaveUp(p, s) == <<p, s>> \in settingsGaveUp
\* The choice f of a configuration waits for it to be stored with the table c.
WaitsFor(f, v, g, c) == f # 0 /\ (Busy(c) \/ g \/ v[f] = 0)
Waiting(p, s) == s = "llm" /\ WaitsFor(settingsFollow[p], settingsDisk["configs"], GaveUp(p, "configs"), settingsPanel[p]["configs"])
\* Why a section may leave its user's edit where it is.
Excused(p, s) == GaveUp(p, s) \/ Waiting(p, s)

\* An edit is about to be sent, sent, waits for a decision or is excused.
EditOk(x, c) ==
  \/ x
  \/ /\ c.base # Sync!Nil /\ c.form # c.base => c.timer \/ Busy(c)
     /\ c.queued # Sync!Nil => ~Ready(c)
     /\ c.sent # Sync!Nil /\ c.form # c.sent => c.timer \/ c.queued # Sync!Nil
     /\ c.staged # Sync!Nil /\ c.sent = Sync!Nil => c.timer \/ c.queued # Sync!Nil
EditInv == \A p \in Panels : \A s \in Sync!Sections : EditOk(Excused(p, s), settingsPanel[p][s])

\* A panel that nothing comes to knows what is stored, or is about to be told.
Calm(v, w, c) ==
  \/ c.rev = v
  \/ c.staged # Sync!Nil /\ c.staged.rev = v
  \/ Ready(c) /\ (c.timer \/ w)
Tried(p, n, s, js, q) ==
  \/ \E j \in js : Mine(p, n, s, j) /\ j.at \in {"save", "commit"}
  \/ \E i \in DOMAIN q : Ours(n, s, q[i]) /\ q[i].code = "error"
Settled(p, s) ==
  \/ GaveUp(p, s) \/ Calm(settingsDisk[s], Waiting(p, s), settingsPanel[p][s])
  \/ Tried(p, settingsReloads[p], s, settingsJobs, settingsInbox[p])
Newest(s, v, q) ==
  \E i \in DOMAIN q : /\ IsSnap(s, q[i]) /\ q[i].rev = v /\ q[i].id = 0
                      /\ \A k \in DOMAIN q : IsSnap(s, q[k]) => k <= i
Told(p, s) ==
  \/ \E j \in settingsJobs : Answering(p, s, j)
  \/ Newest(s, settingsDisk[s], settingsInbox[p])
  \/ (\A i \in DOMAIN settingsInbox[p] : ~IsSnap(s, settingsInbox[p][i])) /\ Settled(p, s)
Current(s, v, j) == j.s = s => j.at # "publish" /\ (j.at = "answer" => j.rev = v)
FreshInv ==
  \A s \in Sync!Sections \ settingsChanged :
    /\ \A j \in settingsJobs : Current(s, settingsDisk[s], j)
    /\ \A p \in Panels : Told(p, s)

\* A save that was stored without what the choice waits for.
Missed(f, v, g, c, x) == f # 0 /\ x.value[f] = 0 => v[f] = 0 \/ g \/ c.queued # Sync!Nil
MissedAt(p, x) ==
  Missed(settingsFollow[p], settingsDisk["configs"], GaveUp(p, "llm") \/ GaveUp(p, "configs"), settingsPanel[p]["configs"], x)
MissedInv ==
  \A p \in Panels :
    /\ \A j \in settingsJobs : Mine(p, settingsReloads[p], "configs", j) /\ j.at = "publish" => MissedAt(p, j)
    /\ \A i \in DOMAIN settingsInbox[p] :
         Ours(settingsReloads[p], "configs", settingsInbox[p][i]) /\ settingsInbox[p][i].code = "snapshot" => MissedAt(p, settingsInbox[p][i])

FormInv == TokenInv /\ ComingInv /\ EditInv /\ FreshInv /\ MissedInv

-----------------------------------------------------------------------------
(* What the operators on a section do.                                       *)

LEMMA NilIsNone ==
  ASSUME NEW s \in Sync!Sections
  PROVE  Sync!Nil \notin Value(s) /\ Sync!Nil \notin [value : Value(s), rev : Value(s)]
<1>1. DOMAIN Sync!Nil = {}
  BY DEF Sync!Nil
<1>2. \A v \in Value(s) : DOMAIN v # {}
  BY IdsAreNumbered DEF Value, Sync!Sections
<1>3. \A m \in [value : Value(s), rev : Value(s)] : "value" \in DOMAIN m
  OBVIOUS
<1> QED  BY <1>1, <1>2, <1>3

GoodJobs(t, p, s, js) ==
  \A j \in js :
    \/ j = Sync!Get({p}, s)
    \/ \E v, w \in Value(s) : /\ j = Sync!Update(p, s, v, w)
                              /\ s = "configs" => Edited(t, v, w)

Sending(c) == [c EXCEPT !.sent = c.queued, !.queued = Sync!Nil]

LEMMA PumpIs ==
  ASSUME NEW p, NEW s, NEW c, c.base # Sync!Nil
  PROVE  \/ Ready(c) /\ c.queued # Sync!Nil
            /\ Sync!Pump(p, s, c) = [c |-> Sending(c), jobs |-> {Sync!Update(p, s, c.queued, c.rev)}]
         \/ ~(Ready(c) /\ c.queued # Sync!Nil) /\ Sync!Pump(p, s, c) = [c |-> c, jobs |-> {}]
  BY DEF Sync!Pump, Ready, Sending

LEMMA PumpGood ==
  ASSUME NEW t, NEW kn, NEW p, NEW s \in Sync!Sections, NEW c, Good(t, kn, s, c), c.base # Sync!Nil
  PROVE  Good(t, kn, s, Sync!Pump(p, s, c).c) /\ GoodJobs(t, p, s, Sync!Pump(p, s, c).jobs) /\ Sync!Pump(p, s, c).c.base # Sync!Nil
<1> USE NilIsNone
<1>1. CASE Ready(c) /\ c.queued # Sync!Nil /\ Sync!Pump(p, s, c) = [c |-> Sending(c), jobs |-> {Sync!Update(p, s, c.queued, c.rev)}]
  <2> DEFINE d == Sending(c)
  <2>1. /\ d.base = c.base /\ d.rev = c.rev /\ d.form = c.form /\ d.sent = c.queued /\ d.queued = Sync!Nil
        /\ d.staged = c.staged /\ d.conflict = c.conflict /\ d.timer = c.timer /\ d \in Section(s)
    BY DEF Sending, Good, Section, Maybe
  <2>2. c.queued \in Value(s)
    BY <1>1 DEF Good, Section, Maybe
  <2>3. s = "configs" => Table(t, kn, d)
    <3> SUFFICES ASSUME s = "configs" PROVE Table(t, kn, d)
      OBVIOUS
    <3>1. Table(t, kn, c)
      BY DEF Good
    <3>2. Edited(t, d.form, d.sent)
      BY <3>1, <1>1, <2>1 DEF Table, Edited
    <3> QED  BY <3>1, <3>2, <2>1, <1>1 DEF Table
  <2>4. c.rev \in Value(s) /\ (s = "configs" => Edited(t, c.queued, c.rev))
    BY <1>1 DEF Good, Table, Section, Maybe, Blank
  <2>5. Good(t, kn, s, d)
    BY <2>1, <2>3, <1>1 DEF Good, Blank
  <2>6. GoodJobs(t, p, s, {Sync!Update(p, s, c.queued, c.rev)})
    BY <2>2, <2>4 DEF GoodJobs
  <2> QED  BY <1>1, <2>1, <2>5, <2>6
<1>2. CASE ~(Ready(c) /\ c.queued # Sync!Nil) /\ Sync!Pump(p, s, c) = [c |-> c, jobs |-> {}]
  BY <1>2 DEF GoodJobs
<1> QED  BY <1>1, <1>2, PumpIs

LEMMA MergeIs ==
  ASSUME NEW s \in Sync!Sections, NEW b \in Value(s), NEW l \in Value(s), NEW r \in Value(s)
  PROVE  Sync!Merge(b, l, r) \in Value(s) /\ (s = "configs" => \A k \in ConfigIds :
           Sync!Merge(b, l, r)[k] = IF l[k] = b[k] THEN r[k] ELSE l[k])
  BY DEF Sync!Merge, Value, Sync!Sections

LEMMA EnqueueGood ==
  ASSUME NEW t, NEW kn, NEW p, NEW s \in Sync!Sections, NEW c, Good(t, kn, s, c), c.base # Sync!Nil
  PROVE  Good(t, kn, s, Sync!Enqueue(p, s, c).c) /\ GoodJobs(t, p, s, Sync!Enqueue(p, s, c).jobs) /\ Sync!Enqueue(p, s, c).c.base # Sync!Nil
<1> DEFINE d == [c EXCEPT !.queued = c.form, !.failed = FALSE]
<1>1. /\ d.base = c.base /\ d.rev = c.rev /\ d.form = c.form /\ d.sent = c.sent /\ d.queued = c.form
      /\ d.staged = c.staged /\ d.conflict = c.conflict /\ d.timer = c.timer /\ d \in Section(s)
  BY DEF Good, Section, Maybe
<1>2. s = "configs" => Table(t, kn, d)
  BY <1>1 DEF Good, Table
<1>3. Good(t, kn, s, d)
  BY <1>1, <1>2 DEF Good, Blank
<1>4. Sync!Enqueue(p, s, c) = Sync!Pump(p, s, d)
  BY DEF Sync!Enqueue
<1> HIDE DEF d
<1> QED  BY <1>1, <1>3, <1>4, PumpGood

CommittedTo(d, c, m, f) ==
  /\ d.form = f /\ d.base = m.value /\ d.rev = m.rev /\ d.sent = c.sent
  /\ d.queued = c.queued /\ d.staged = c.staged /\ d.conflict = c.conflict /\ d.timer = c.timer /\ d.failed = FALSE
LEMMA CommittedIs ==
  ASSUME NEW s \in Sync!Sections, NEW c \in Section(s), NEW m, NEW f \in Value(s), m.value \in Value(s),
         m.rev \in Value(s)
  PROVE  Sync!Committed(c, m, f) \in Section(s) /\ CommittedTo(Sync!Committed(c, m, f), c, m, f)
  BY DEF Sync!Committed, CommittedTo, Section, Maybe

RequeuedTo(d, c) ==
  /\ d.form = c.form /\ d.base = c.base /\ d.rev = c.rev /\ d.sent = c.sent
  /\ d.queued = (IF c.queued = Sync!Nil THEN Sync!Nil ELSE c.form) /\ d.staged = c.staged
  /\ d.conflict = c.conflict /\ d.timer = c.timer /\ d.failed = c.failed
LEMMA RequeuedIs ==
  ASSUME NEW s \in Sync!Sections, NEW c \in Section(s)
  PROVE  Sync!Requeued(c) \in Section(s) /\ RequeuedTo(Sync!Requeued(c), c)
  BY DEF Sync!Requeued, RequeuedTo, Section, Maybe

\* What is stored becomes the base; the form keeps what was edited since.
Rebased(c, m, f) == Sync!Requeued(Sync!Committed([c EXCEPT !.staged = Sync!Nil, !.conflict = FALSE], m, f))
RebasedTo(d, c, m, f) ==
  /\ d.form = f /\ d.base = m.value /\ d.rev = m.rev /\ d.sent = c.sent
  /\ d.queued = (IF c.queued = Sync!Nil THEN Sync!Nil ELSE f) /\ d.staged = Sync!Nil
  /\ d.conflict = FALSE /\ d.timer = c.timer /\ d.failed = FALSE
LEMMA RebasedIs ==
  ASSUME NEW s \in Sync!Sections, NEW c \in Section(s), NEW m, NEW f \in Value(s), m.value \in Value(s),
         m.rev \in Value(s)
  PROVE  Rebased(c, m, f) \in Section(s) /\ RebasedTo(Rebased(c, m, f), c, m, f)
<1> DEFINE e == [c EXCEPT !.staged = Sync!Nil, !.conflict = FALSE]
<1>1. /\ e \in Section(s) /\ e.sent = c.sent /\ e.queued = c.queued /\ e.staged = Sync!Nil /\ e.conflict = FALSE
      /\ e.timer = c.timer
  BY DEF Section
<1>3. Rebased(c, m, f) = Sync!Requeued(Sync!Committed(e, m, f))
  BY DEF Rebased
<1> HIDE DEF e
<1>2. Sync!Committed(e, m, f) \in Section(s) /\ CommittedTo(Sync!Committed(e, m, f), e, m, f)
  BY <1>1, CommittedIs
<1>4. Sync!Requeued(Sync!Committed(e, m, f)) \in Section(s) /\ RequeuedTo(Sync!Requeued(Sync!Committed(e, m, f)), Sync!Committed(e, m, f))
  BY <1>2, RequeuedIs
<1> QED  BY <1>1, <1>2, <1>3, <1>4 DEF RebasedTo, CommittedTo, RequeuedTo

LEMMA RebasedGood ==
  ASSUME NEW t, NEW kn, NEW p, NEW s \in Sync!Sections, NEW c, NEW m, Good(t, kn, s, c), GoodSnap(kn, s, m),
         c.base # Sync!Nil, c.sent = Sync!Nil
  PROVE  LET d == Rebased(c, m, Sync!Merge(c.base, c.form, m.value)) IN Good(t, kn, s, d) /\ d.base # Sync!Nil
<1> USE NilIsNone
<1>1. /\ c \in Section(s) /\ c.base \in Value(s) /\ c.form \in Value(s) /\ m.value \in Value(s) /\ m.rev \in Value(s)
  BY DEF Good, GoodSnap, Section, Maybe
<1> DEFINE f == Sync!Merge(c.base, c.form, m.value)
           d == Rebased(c, m, f)
<1>2. f \in Value(s) /\ (s = "configs" => \A k \in ConfigIds : f[k] = IF c.form[k] = c.base[k] THEN m.value[k] ELSE c.form[k])
  BY <1>1, MergeIs
<1> HIDE DEF f
<1>3. d \in Section(s) /\ RebasedTo(d, c, m, f)
  BY <1>1, <1>2, RebasedIs
<1> HIDE DEF d
<1>4. s = "configs" => Table(t, kn, d)
  <2> SUFFICES ASSUME s = "configs" PROVE Table(t, kn, d)
    OBVIOUS
  <2>1. Edited(t, c.form, c.base) /\ m.value = m.rev /\ Known(kn, m.value)
    BY DEF Good, Table, GoodSnap
  <2>2. Edited(t, f, m.value)
    BY <2>1, <1>2 DEF Edited
  <2> QED  BY <2>1, <2>2, <1>3 DEF Table, RebasedTo
<1>5. Blank(d) /\ d.base # Sync!Nil
  BY <1>1, <1>3 DEF Blank, RebasedTo
<1> QED  BY <1>3, <1>4, <1>5 DEF Good, d, f

Keeping(c, m) == [c EXCEPT !.staged = m]
Clashing(c, m) == [c EXCEPT !.staged = m, !.conflict = FALSE]
LEMMA ResolveIs ==
  ASSUME NEW p, NEW s, NEW c, NEW m, NEW w, c.base # Sync!Nil
  PROVE  \/ Sync!Resolve(p, s, c, m, w) = [c |-> Clashing(c, m), jobs |-> {}]
            /\ ~w /\ Sync!Clash(c.base, c.form, m.value)
         \/ Sync!Resolve(p, s, c, m, w) = Sync!Pump(p, s, Rebased(c, m, Sync!Merge(c.base, c.form, m.value)))
            /\ (w \/ ~Sync!Clash(c.base, c.form, m.value))
  BY DEF Sync!Resolve, Rebased, Clashing

StagedTo(d, c, m) ==
  /\ d.form = c.form /\ d.base = c.base /\ d.rev = c.rev /\ d.sent = c.sent
  /\ d.queued = c.queued /\ d.staged = m /\ d.timer = c.timer
LEMMA StagedGood ==
  ASSUME NEW t, NEW kn, NEW p, NEW s \in Sync!Sections, NEW c, Good(t, kn, s, c),
         NEW m \in [value : Value(s), rev : Value(s)],
         GoodSnap(kn, s, m), c.base # Sync!Nil
  PROVE  /\ Good(t, kn, s, Clashing(c, m))
         /\ StagedTo(Clashing(c, m), c, m)
         /\ Good(t, kn, s, Keeping(c, m))
         /\ StagedTo(Keeping(c, m), c, m)
<1> DEFINE d == Clashing(c, m)
           e == Keeping(c, m)
<1>1. d \in Section(s) /\ e \in Section(s) /\ StagedTo(d, c, m) /\ StagedTo(e, c, m)
  BY DEF Good, Section, StagedTo, Keeping, Clashing
<1>2. s = "configs" => Table(t, kn, d) /\ Table(t, kn, e)
  BY <1>1 DEF Good, GoodSnap, Table, StagedTo
<1>3. Blank(d) /\ Blank(e)
  BY <1>1 DEF Good, Blank, StagedTo
<1> QED  BY <1>1, <1>2, <1>3 DEF Good

LEMMA ResolveGood ==
  ASSUME NEW t, NEW kn, NEW p, NEW s \in Sync!Sections, NEW c, Good(t, kn, s, c),
         NEW m \in [value : Value(s), rev : Value(s)],
         GoodSnap(kn, s, m), NEW w, c.base # Sync!Nil, c.sent = Sync!Nil
  PROVE  Good(t, kn, s, Sync!Resolve(p, s, c, m, w).c) /\ GoodJobs(t, p, s, Sync!Resolve(p, s, c, m, w).jobs)
         /\ Sync!Resolve(p, s, c, m, w).c.base # Sync!Nil
<1> DEFINE d == Rebased(c, m, Sync!Merge(c.base, c.form, m.value))
<1>1. Good(t, kn, s, d) /\ d.base # Sync!Nil
  BY RebasedGood
<1>2. Good(t, kn, s, Sync!Pump(p, s, d).c) /\ GoodJobs(t, p, s, Sync!Pump(p, s, d).jobs) /\ Sync!Pump(p, s, d).c.base # Sync!Nil
  BY <1>1, PumpGood
<1>3. /\ Good(t, kn, s, Clashing(c, m))
      /\ Clashing(c, m).base # Sync!Nil
  BY StagedGood DEF StagedTo
<1>4. GoodJobs(t, p, s, {})
  BY DEF GoodJobs
<1> QED  BY <1>2, <1>3, <1>4, ResolveIs

Quietly(d, c) ==
  /\ d.form = c.form /\ d.base = c.base /\ d.rev = c.rev /\ d.sent = c.sent
  /\ d.queued = c.queued /\ d.staged = c.staged /\ d.conflict = c.conflict /\ d.timer = c.timer
LEMMA QuietlyGood ==
  ASSUME NEW t, NEW kn, NEW p, NEW s \in Sync!Sections, NEW c, NEW d \in Section(s), Good(t, kn, s, c),
         Quietly(d, c)
  PROVE  Good(t, kn, s, d)
<1>1. s = "configs" => Table(t, kn, d)
  BY DEF Good, Quietly, Table
<1>2. Blank(d)
  BY DEF Good, Quietly, Blank
<1> QED  BY <1>1, <1>2 DEF Good

LEMMA UnloadedIs ==
  ASSUME NEW s \in Sync!Sections, NEW c \in Section(s)
  PROVE  [c EXCEPT !.loading = FALSE] \in Section(s) /\ Quietly([c EXCEPT !.loading = FALSE], c)
  BY DEF Section, Quietly

LEMMA TakenGood ==
  ASSUME NEW t, NEW kn, NEW p, NEW s \in Sync!Sections, NEW c, Good(t, kn, s, c), NEW m, GoodSnap(kn, s, m),
         c.sent = Sync!Nil, c.queued = Sync!Nil
  PROVE  Good(t, kn, s, Sync!Committed(c, m, m.value)) /\ Sync!Committed(c, m, m.value).base # Sync!Nil
<1> USE NilIsNone
<1> DEFINE d == Sync!Committed(c, m, m.value)
<1>1. d \in Section(s) /\ CommittedTo(d, c, m, m.value)
  BY CommittedIs DEF Good, GoodSnap
<1> HIDE DEF d
<1>2. s = "configs" => Table(t, kn, d)
  BY <1>1 DEF Good, GoodSnap, Table, CommittedTo, Edited
<1>3. Blank(d) /\ d.base # Sync!Nil
  BY <1>1 DEF Blank, CommittedTo, GoodSnap
<1> QED  BY <1>1, <1>2, <1>3 DEF Good, d

LEMMA ExternalGood ==
  ASSUME NEW t, NEW kn, NEW p, NEW s \in Sync!Sections, NEW c0, Good(t, kn, s, c0),
         NEW m \in [value : Value(s), rev : Value(s)],
         GoodSnap(kn, s, m)
  PROVE  Good(t, kn, s, Sync!External(p, s, c0, m).c) /\ GoodJobs(t, p, s, Sync!External(p, s, c0, m).jobs)
         /\ Sync!External(p, s, c0, m).c.base # Sync!Nil
<1> DEFINE c == [c0 EXCEPT !.loading = FALSE]
           e == Sync!Committed(c, m, m.value)
<1>1. c \in Section(s) /\ Quietly(c, c0)
  BY UnloadedIs DEF Good
<1>2. Good(t, kn, s, c)
  BY <1>1, QuietlyGood
<1> HIDE DEF c
<1>3. GoodJobs(t, p, s, {})
  BY DEF GoodJobs
<1>4. CASE c.rev = m.rev
  <2>1. c.base # Sync!Nil
    BY <1>4, <1>2, NilIsNone DEF Good, Blank, GoodSnap
  <2> QED  BY <2>1, <1>2, <1>4, PumpGood DEF Sync!External, c
<1>5. CASE c.rev # m.rev /\ c.base = Sync!Nil
  <2>1. Good(t, kn, s, e) /\ e.base # Sync!Nil
    BY <1>5, <1>2, TakenGood DEF Good, Blank
  <2> QED  BY <2>1, <1>5, PumpGood DEF Sync!External, c
<1>6. CASE c.rev # m.rev /\ c.base # Sync!Nil /\ c.sent # Sync!Nil
  <2>1. Good(t, kn, s, Keeping(c, m)) /\ Keeping(c, m).base # Sync!Nil
    BY <1>2, <1>6, StagedGood DEF StagedTo
  <2> QED  BY <2>1, <1>3, <1>6 DEF Sync!External, Keeping, c
<1>7. CASE c.rev # m.rev /\ c.base # Sync!Nil /\ c.sent = Sync!Nil /\ (Sync!Dirty(c) \/ c.conflict)
  <2>1. Sync!External(p, s, c0, m) = Sync!Resolve(p, s, c, m, FALSE)
    BY <1>7 DEF Sync!External, c
  <2> QED  BY <2>1, <1>2, <1>7, ResolveGood
<1>8. CASE c.rev # m.rev /\ c.base # Sync!Nil /\ c.sent = Sync!Nil /\ ~(Sync!Dirty(c) \/ c.conflict)
  <2>1. Good(t, kn, s, e) /\ e.base # Sync!Nil
    BY <1>8, <1>2, TakenGood DEF Sync!Dirty
  <2> QED  BY <2>1, <1>8, PumpGood DEF Sync!External, c
<1> QED  BY <1>4, <1>5, <1>6, <1>7, <1>8

\* The answer of a save becomes the base.
Acked(c, m) ==
  Sync!Requeued(Sync!Committed([c EXCEPT !.sent = Sync!Nil, !.conflict = FALSE], m, Sync!Merge(c.sent, c.form, m.value)))
AckedTo(d, c, m) ==
  /\ d.form = Sync!Merge(c.sent, c.form, m.value) /\ d.base = m.value /\ d.rev = m.rev /\ d.sent = Sync!Nil
  /\ d.queued = (IF c.queued = Sync!Nil THEN Sync!Nil ELSE d.form) /\ d.staged = c.staged
  /\ d.conflict = FALSE /\ d.timer = c.timer
LEMMA AckedIs ==
  ASSUME NEW s \in Sync!Sections, NEW c \in Section(s), NEW m, m.value \in Value(s), m.rev \in Value(s),
         c.sent # Sync!Nil
  PROVE  Acked(c, m) \in Section(s) /\ AckedTo(Acked(c, m), c, m)
<1> DEFINE e == [c EXCEPT !.sent = Sync!Nil, !.conflict = FALSE]
           f == Sync!Merge(c.sent, c.form, m.value)
<1>1. /\ e \in Section(s) /\ e.sent = Sync!Nil /\ e.queued = c.queued /\ e.staged = c.staged /\ e.conflict = FALSE
      /\ e.timer = c.timer
  BY DEF Section, Maybe
<1>2. f \in Value(s)
  BY MergeIs DEF Section, Maybe
<1>3. Acked(c, m) = Sync!Requeued(Sync!Committed(e, m, f))
  BY DEF Acked
<1>4. f = Sync!Merge(c.sent, c.form, m.value)
  OBVIOUS
<1> HIDE DEF e, f
<1>5. Sync!Committed(e, m, f) \in Section(s) /\ CommittedTo(Sync!Committed(e, m, f), e, m, f)
  BY <1>1, <1>2, CommittedIs
<1>6. Sync!Requeued(Sync!Committed(e, m, f)) \in Section(s) /\ RequeuedTo(Sync!Requeued(Sync!Committed(e, m, f)), Sync!Committed(e, m, f))
  BY <1>5, RequeuedIs
<1> QED  BY <1>1, <1>3, <1>4, <1>5, <1>6 DEF AckedTo, CommittedTo, RequeuedTo

LEMMA AckedGood ==
  ASSUME NEW t, NEW kn, NEW p, NEW s \in Sync!Sections, NEW c, NEW m, Good(t, kn, s, c), GoodSnap(kn, s, m),
         c.sent # Sync!Nil
  PROVE  Good(t, kn, s, Acked(c, m)) /\ Acked(c, m).base # Sync!Nil /\ AckedTo(Acked(c, m), c, m)
<1> USE NilIsNone
<1> DEFINE d == Acked(c, m)
<1>1. d \in Section(s) /\ AckedTo(d, c, m)
  BY AckedIs DEF Good, GoodSnap
<1> HIDE DEF d
<1>2. s = "configs" => Table(t, kn, d)
  <2> SUFFICES ASSUME s = "configs" PROVE Table(t, kn, d)
    OBVIOUS
  <2>1. /\ Edited(t, c.form, c.sent) /\ m.value = m.rev /\ Known(kn, m.value)
        /\ c.staged # Sync!Nil => c.staged.value = c.staged.rev /\ Known(kn, c.staged.value)
    BY DEF Good, Table, GoodSnap
  <2>2. \A k \in ConfigIds : Sync!Merge(c.sent, c.form, m.value)[k] = IF c.form[k] = c.sent[k] THEN m.value[k] ELSE c.form[k]
    BY MergeIs DEF Good, Section, Maybe, GoodSnap
  <2>3. Edited(t, d.form, m.value)
    BY <2>1, <2>2, <1>1 DEF Edited, AckedTo
  <2> QED  BY <2>1, <2>3, <1>1 DEF Table, AckedTo
<1>3. Blank(d) /\ d.base # Sync!Nil
  BY <1>1 DEF Blank, AckedTo, GoodSnap
<1> QED  BY <1>1, <1>2, <1>3 DEF Good, d

Unstaged(c) == [c EXCEPT !.staged = Sync!Nil]
LEMMA UnstagedGood ==
  ASSUME NEW t, NEW kn, NEW p, NEW s \in Sync!Sections, NEW c, Good(t, kn, s, c), c.base # Sync!Nil
  PROVE  Good(t, kn, s, Unstaged(c)) /\ StagedTo(Unstaged(c), c, Sync!Nil) /\ Unstaged(c).conflict = c.conflict
<1>1. Unstaged(c) \in Section(s) /\ StagedTo(Unstaged(c), c, Sync!Nil) /\ Unstaged(c).conflict = c.conflict
  BY DEF Good, Section, StagedTo, Unstaged
<1>2. s = "configs" => Table(t, kn, Unstaged(c))
  BY <1>1 DEF Good, Table, StagedTo
<1>3. Blank(Unstaged(c))
  BY <1>1 DEF Good, Blank, StagedTo
<1> QED  BY <1>1, <1>2, <1>3 DEF Good

LEMMA StagedSnap ==
  ASSUME NEW t, NEW kn, NEW p, NEW s \in Sync!Sections, NEW c, Good(t, kn, s, c), c.staged # Sync!Nil
  PROVE  c.staged \in [value : Value(s), rev : Value(s)] /\ GoodSnap(kn, s, c.staged)
<1>1. c.staged \in [value : Value(s), rev : Value(s)]
  BY DEF Good, Section
<1> QED  BY <1>1 DEF GoodSnap, Good, Table

LEMMA AcknowledgedGood ==
  ASSUME NEW t, NEW kn, NEW p, NEW s \in Sync!Sections, NEW c, NEW m, Good(t, kn, s, c), GoodSnap(kn, s, m),
         c.sent # Sync!Nil
  PROVE  /\ Good(t, kn, s, Sync!Acknowledged(p, s, c, m).c) /\ GoodJobs(t, p, s, Sync!Acknowledged(p, s, c, m).jobs)
         /\ Sync!Acknowledged(p, s, c, m).c.base # Sync!Nil
<1> DEFINE d == Acked(c, m)
<1>1. Good(t, kn, s, d) /\ d.base # Sync!Nil /\ AckedTo(d, c, m)
  BY AckedGood
<1> HIDE DEF d
<1>2. CASE c.staged # Sync!Nil /\ c.staged.rev # m.rev
  <2>1. Sync!Acknowledged(p, s, c, m) = Sync!Resolve(p, s, d, c.staged, FALSE)
    BY <1>2 DEF Sync!Acknowledged, Acked, d
  <2>2. c.staged \in [value : Value(s), rev : Value(s)] /\ GoodSnap(kn, s, c.staged)
    BY <1>2, StagedSnap
  <2>3. d.sent = Sync!Nil
    BY <1>1 DEF AckedTo
  <2> QED  BY <2>1, <2>2, <2>3, <1>1, ResolveGood
<1>3. CASE ~(c.staged # Sync!Nil /\ c.staged.rev # m.rev)
  <2>1. Sync!Acknowledged(p, s, c, m) = Sync!Pump(p, s, Unstaged(d))
    BY <1>3 DEF Sync!Acknowledged, Acked, Unstaged, d
  <2>2. Good(t, kn, s, Unstaged(d)) /\ Unstaged(d).base # Sync!Nil
    BY <1>1, UnstagedGood DEF StagedTo
  <2> QED  BY <2>1, <2>2, PumpGood
<1> QED  BY <1>2, <1>3

\* The save that was refused waits to be sent again.
Denied(c) == [c EXCEPT !.sent = Sync!Nil, !.conflict = TRUE, !.loading = FALSE,
                       !.queued = IF c.queued = Sync!Nil THEN c.sent ELSE c.queued]
DeniedTo(d, c) ==
  /\ d.form = c.form /\ d.base = c.base /\ d.rev = c.rev /\ d.sent = Sync!Nil
  /\ d.queued = (IF c.queued = Sync!Nil THEN c.sent ELSE c.queued) /\ d.queued # Sync!Nil
  /\ d.staged = c.staged /\ d.conflict = TRUE /\ d.timer = c.timer
LEMMA DeniedGood ==
  ASSUME NEW t, NEW kn, NEW p, NEW s \in Sync!Sections, NEW c, Good(t, kn, s, c), c.sent # Sync!Nil
  PROVE  Good(t, kn, s, Denied(c)) /\ Denied(c).base # Sync!Nil /\ DeniedTo(Denied(c), c)
<1> DEFINE d == Denied(c)
<1>1. d \in Section(s) /\ DeniedTo(d, c)
  BY DEF Denied, DeniedTo, Good, Section, Maybe
<1> HIDE DEF d
<1>2. d.base # Sync!Nil
  BY <1>1 DEF Good, Blank, DeniedTo
<1>3. s = "configs" => Table(t, kn, d)
  BY <1>1 DEF Good, Table, DeniedTo
<1>4. Blank(d)
  BY <1>1, <1>2 DEF Good, Blank, DeniedTo
<1> QED  BY <1>1, <1>2, <1>3, <1>4 DEF Good, d

Asking(c) == [c EXCEPT !.loading = TRUE, !.failed = TRUE]
Marked(c) == [c EXCEPT !.failed = c.staged # Sync!Nil]
LEMMA RefusedGood ==
  ASSUME NEW t, NEW kn, NEW p, NEW s \in Sync!Sections, NEW c, Good(t, kn, s, c), c.sent # Sync!Nil
  PROVE  /\ Good(t, kn, s, Sync!Refused(p, s, c).c) /\ GoodJobs(t, p, s, Sync!Refused(p, s, c).jobs)
         /\ Sync!Refused(p, s, c).c.base # Sync!Nil
<1> DEFINE d == Denied(c)
<1>1. Good(t, kn, s, d) /\ d.base # Sync!Nil /\ DeniedTo(d, c)
  BY DeniedGood
<1> HIDE DEF d
<1>2. CASE d.staged # Sync!Nil
  <2>1. PICK r : r = Sync!Resolve(p, s, d, d.staged, FALSE)
    OBVIOUS
  <2>2. d.staged \in [value : Value(s), rev : Value(s)] /\ GoodSnap(kn, s, d.staged) /\ d.sent = Sync!Nil
    BY <1>1, <1>2, StagedSnap DEF DeniedTo
  <2>3. Good(t, kn, s, r.c) /\ GoodJobs(t, p, s, r.jobs) /\ r.c.base # Sync!Nil
    BY <2>1, <2>2, <1>1, ResolveGood
  <2>4. Sync!Refused(p, s, c) = [r EXCEPT !.c.failed = r.c.staged # Sync!Nil]
    BY <2>1, <1>2 DEF Sync!Refused, Denied, d
  <2>5. r = [c |-> r.c, jobs |-> r.jobs]
    <3> DEFINE e == Rebased(d, d.staged, Sync!Merge(d.base, d.form, d.staged.value))
    <3>2. e.base # Sync!Nil
      BY <1>1, <2>2, RebasedGood
    <3> HIDE DEF e
    <3>3. Sync!Pump(p, s, e) = [c |-> Sync!Pump(p, s, e).c, jobs |-> Sync!Pump(p, s, e).jobs]
      BY <3>2, PumpIs
    <3> QED  BY <2>1, <3>3, <1>1, ResolveIs DEF e
  <2>6. Marked(r.c) \in Section(s) /\ Quietly(Marked(r.c), r.c)
    BY <2>3 DEF Good, Section, Quietly, Marked
  <2>7. Sync!Refused(p, s, c).c = Marked(r.c) /\ Sync!Refused(p, s, c).jobs = r.jobs
    BY <2>4, <2>5 DEF Marked
  <2>8. Good(t, kn, s, Marked(r.c)) /\ Marked(r.c).base # Sync!Nil
    BY <2>3, <2>6, QuietlyGood DEF Quietly
  <2> QED  BY <2>3, <2>7, <2>8
<1>3. CASE d.staged = Sync!Nil
  <2>1. Sync!Refused(p, s, c) = [c |-> Asking(d), jobs |-> {Sync!Get({p}, s)}]
    BY <1>3 DEF Sync!Refused, Denied, Asking, d
  <2>2. Asking(d) \in Section(s) /\ Quietly(Asking(d), d)
    BY <1>1 DEF Asking, Good, Section, Quietly
  <2>3. Good(t, kn, s, Asking(d)) /\ Asking(d).base # Sync!Nil
    BY <1>1, <2>2, QuietlyGood DEF Quietly
  <2> QED  BY <2>1, <2>3 DEF GoodJobs
<1> QED  BY <1>2, <1>3

LEMMA PumpActive ==
  ASSUME NEW p, NEW s \in Sync!Sections, NEW c \in Section(s), c.base # Sync!Nil, Active(Sync!Pump(p, s, c).c)
  PROVE  Active(c)
<1>1. CASE Ready(c) /\ c.queued # Sync!Nil
  BY <1>1 DEF Active
<1>2. CASE ~(Ready(c) /\ c.queued # Sync!Nil)
  BY <1>2, PumpIs
<1> QED  BY <1>1, <1>2

LEMMA ResolveActive ==
  ASSUME NEW t, NEW kn, NEW p, NEW s \in Sync!Sections, NEW c, Good(t, kn, s, c),
         NEW m \in [value : Value(s), rev : Value(s)], GoodSnap(kn, s, m), NEW w, c.base # Sync!Nil,
         c.sent = Sync!Nil,
         Active(Sync!Resolve(p, s, c, m, w).c)
  PROVE  Active(c)
<1> DEFINE f == Sync!Merge(c.base, c.form, m.value)
           d == Rebased(c, m, f)
<1>1. c \in Section(s) /\ c.base \in Value(s) /\ c.form \in Value(s) /\ m.value \in Value(s) /\ m.rev \in Value(s)
  BY DEF Good, Section, Maybe
<1>2. f \in Value(s)
  BY <1>1, MergeIs
<1> HIDE DEF f
<1>3. d \in Section(s) /\ RebasedTo(d, c, m, f)
  BY <1>1, <1>2, RebasedIs
<1>4. d.base # Sync!Nil
  BY <1>1, <1>3, NilIsNone DEF RebasedTo
<1> HIDE DEF d
<1>5. Active(d) => Active(c)
  BY <1>3 DEF RebasedTo, Active
<1>6. CASE Sync!Resolve(p, s, c, m, w) = [c |-> Clashing(c, m), jobs |-> {}]
  <2>1. StagedTo(Clashing(c, m), c, m)
    BY StagedGood
  <2> QED  BY <2>1, <1>6 DEF StagedTo, Active
<1>7. CASE Sync!Resolve(p, s, c, m, w) = Sync!Pump(p, s, d)
  BY <1>3, <1>4, <1>5, <1>7, PumpActive
<1> QED  BY <1>6, <1>7, ResolveIs DEF d, f

LEMMA ExternalActive ==
  ASSUME NEW t, NEW kn, NEW p, NEW s \in Sync!Sections, NEW c0, Good(t, kn, s, c0),
         NEW m \in [value : Value(s), rev : Value(s)], GoodSnap(kn, s, m), Active(Sync!External(p, s, c0, m).c)
  PROVE  Active(c0)
<1> DEFINE c == [c0 EXCEPT !.loading = FALSE]
           e == Sync!Committed(c, m, m.value)
<1>1. c \in Section(s) /\ Quietly(c, c0)
  BY UnloadedIs DEF Good
<1>2. Good(t, kn, s, c)
  BY <1>1, QuietlyGood
<1>3. Active(c) => Active(c0)
  BY <1>1 DEF Quietly, Active
<1> HIDE DEF c
<1>0. m.value # Sync!Nil /\ m.rev # Sync!Nil
  BY NilIsNone
<1>9. e \in Section(s) /\ CommittedTo(e, c, m, m.value)
  BY <1>1, CommittedIs
<1>10. e.base # Sync!Nil /\ (Active(e) => Active(c))
  BY <1>9, <1>0 DEF CommittedTo, Active
<1> HIDE DEF e
<1>4. CASE c.rev = m.rev
  <2>1. c.base # Sync!Nil
    BY <1>4, <1>2, <1>0 DEF Good, Blank
  <2> QED  BY <2>1, <1>1, <1>3, <1>4, PumpActive DEF Sync!External, c
<1>5. CASE c.rev # m.rev /\ c.base = Sync!Nil
  <2>1. Sync!External(p, s, c0, m) = Sync!Pump(p, s, e)
    BY <1>5 DEF Sync!External, c, e
  <2> QED  BY <2>1, <1>3, <1>9, <1>10, PumpActive
<1>6. CASE c.rev # m.rev /\ c.base # Sync!Nil /\ c.sent # Sync!Nil
  BY <1>3, <1>6 DEF Active
<1>7. CASE c.rev # m.rev /\ c.base # Sync!Nil /\ c.sent = Sync!Nil /\ (Sync!Dirty(c) \/ c.conflict)
  <2>0. PICK w : w = FALSE
    OBVIOUS
  <2>1. Sync!External(p, s, c0, m) = Sync!Resolve(p, s, c, m, w)
    BY <1>7, <2>0 DEF Sync!External, c
  <2> QED  BY <2>1, <1>2, <1>3, <1>7, ResolveActive
<1>8. CASE c.rev # m.rev /\ c.base # Sync!Nil /\ c.sent = Sync!Nil /\ ~(Sync!Dirty(c) \/ c.conflict)
  <2>1. Sync!External(p, s, c0, m) = Sync!Pump(p, s, e)
    BY <1>8 DEF Sync!External, c, e
  <2> QED  BY <2>1, <1>3, <1>9, <1>10, PumpActive
<1> QED  BY <1>4, <1>5, <1>6, <1>7, <1>8

-----------------------------------------------------------------------------
(* Saves: every step keeps SaveInv.                                          *)

Grows == settingsKnown \subseteq settingsKnown' /\ \A q \in Panels : settingsTouched[q] \subseteq settingsTouched'[q]

LEMMA GoodGrows ==
  ASSUME NEW t, NEW u, NEW kn, NEW ln, t \subseteq u, kn \subseteq ln, NEW s, NEW c, Good(t, kn, s, c)
  PROVE  Good(u, ln, s, c)
<1>1. \A v : Known(kn, v) => Known(ln, v)
  BY DEF Known
<1>2. \A v, w : Edited(t, v, w) => Edited(u, v, w)
  BY DEF Edited
<1>3. Table(t, kn, c) => Table(u, ln, c)
  BY <1>1, <1>2 DEF Table
<1> QED  BY <1>3 DEF Good

LEMMA SnapGrows ==
  ASSUME NEW kn, NEW ln, kn \subseteq ln, NEW s, NEW m, GoodSnap(kn, s, m)
  PROVE  GoodSnap(ln, s, m)
  BY DEF GoodSnap, Known

LEMMA JobsGrow ==
  ASSUME Grows
  PROVE  /\ \A j : GoodJob(settingsTouched, settingsKnown, j) => GoodJob(settingsTouched', settingsKnown', j)
         /\ \A m : GoodMail(settingsKnown, m) => GoodMail(settingsKnown', m)
<1>1. ASSUME NEW j,
             GoodJob(settingsTouched, settingsKnown, j) PROVE GoodJob(settingsTouched', settingsKnown', j)
  <2>2. GoodSnap(settingsKnown, j.s, j) => GoodSnap(settingsKnown', j.s, j)
    BY SnapGrows DEF Grows
  <2>3. \A p \in Panels : Edited(settingsTouched[p], j.value, j.rev) => Edited(settingsTouched'[p], j.value, j.rev)
    BY DEF Edited, Grows
  <2>4. j.for \subseteq Panels
    BY <1>1 DEF GoodJob, Job
  <2> QED  BY <1>1, <2>2, <2>3, <2>4 DEF GoodJob
<1>2. ASSUME NEW m, GoodMail(settingsKnown, m) PROVE GoodMail(settingsKnown', m)
  <2>2. GoodSnap(settingsKnown, m.s, m) => GoodSnap(settingsKnown', m.s, m)
    BY SnapGrows DEF Grows
  <2> QED  BY <1>2, <2>2 DEF GoodMail
<1> QED  BY <1>1, <1>2

LEMMA GrowsAlways ==
  ASSUME UNCHANGED <<settingsKnown, settingsTouched>>
  PROVE  Grows
  BY DEF Grows

LEMMA PanelSet ==
  ASSUME PanelInv, NEW p \in Panels, NEW s \in Sync!Sections, NEW d, d \in Section(s),
         settingsPanel' = [settingsPanel EXCEPT ![p][s] = d]
  PROVE  /\ settingsPanel' \in [Panels -> [Sync!Sections -> Section("configs") \cup Section("llm")]]
         /\ \A q \in Panels : \A r \in Sync!Sections : settingsPanel'[q][r] = IF q = p /\ r = s THEN d ELSE settingsPanel[q][r]
  BY DEF PanelInv, Sync!Sections

LEMMA PanelStep ==
  ASSUME PanelInv, Grows, NEW p \in Panels, NEW s \in Sync!Sections, NEW d,
         Good(settingsTouched'[p], settingsKnown', s, d), settingsPanel' = [settingsPanel EXCEPT ![p][s] = d],
         s = "llm" /\ settingsPanel[p]["llm"].base # Sync!Nil => d.base # Sync!Nil,
         s = "configs" /\ Active(d) => settingsPanel[p]["llm"].base # Sync!Nil
  PROVE  PanelInv'
<1>1. d \in Section(s)
  BY DEF Good
<1>2. /\ settingsPanel' \in [Panels -> [Sync!Sections -> Section("configs") \cup Section("llm")]]
      /\ \A q \in Panels : \A r \in Sync!Sections : settingsPanel'[q][r] = IF q = p /\ r = s THEN d ELSE settingsPanel[q][r]
  BY <1>1, PanelSet
<1>3. ASSUME NEW q \in Panels,
             NEW r \in Sync!Sections PROVE Good(settingsTouched'[q], settingsKnown', r, settingsPanel'[q][r])
  <2>1. CASE q = p /\ r = s
    BY <2>1, <1>2
  <2>2. CASE ~(q = p /\ r = s)
    <3>1. Good(settingsTouched[q], settingsKnown, r, settingsPanel[q][r])
      BY DEF PanelInv
    <3>2. Good(settingsTouched'[q], settingsKnown', r, settingsPanel[q][r])
      BY <3>1, GoodGrows DEF Grows
    <3> QED  BY <3>2, <2>2, <1>2
  <2> QED  BY <2>1, <2>2
<1>4. ASSUME NEW q \in Panels,
             Active(settingsPanel'[q]["configs"]) PROVE settingsPanel'[q]["llm"].base # Sync!Nil
  BY <1>2, <1>4 DEF PanelInv, Sync!Sections
<1> QED  BY <1>2, <1>3, <1>4 DEF PanelInv

LEMMA PanelRests ==
  ASSUME PanelInv, Grows, settingsPanel' = settingsPanel
  PROVE  PanelInv'
<1>1. ASSUME NEW q \in Panels,
             NEW r \in Sync!Sections PROVE Good(settingsTouched'[q], settingsKnown', r, settingsPanel'[q][r])
  <2>1. Good(settingsTouched[q], settingsKnown, r, settingsPanel[q][r])
    BY DEF PanelInv
  <2> QED  BY <2>1, GoodGrows DEF Grows
<1> QED  BY <1>1 DEF PanelInv

\* What a panel asks for.
LEMMA AskedGood ==
  ASSUME NEW tt, NEW kn, NEW p \in Panels, NEW s \in Sync!Sections, NEW js, GoodJobs(tt[p], p, s, js),
         NEW j \in js,
         settingsReloads[p] \in Nat
  PROVE  GoodJob(tt, kn, j) /\ j.s = s /\ j.for = {p} /\ (j.at = "read" \/ (j.at = "save" /\ j.kind = "update"))
<1>1. ASSUME j = Sync!Get({p}, s)
      PROVE  GoodJob(tt, kn, j) /\ j.s = s /\ j.for = {p} /\ j.at = "read"
  <2>1. /\ j.kind = "get" /\ j.for = {p} /\ j.s = s /\ j.at = "read" /\ j.value = Sync!Nil /\ j.rev = Sync!Nil /\ j.id = 0
        /\ j \in Job(s)
    BY <1>1 DEF Sync!Get, Job, Maybe
  <2> QED  BY <2>1 DEF GoodJob
<1>2. ASSUME NEW v \in Value(s), NEW w \in Value(s), j = Sync!Update(p, s, v, w),
             s = "configs" => Edited(tt[p], v, w)
      PROVE  GoodJob(tt, kn, j) /\ j.s = s /\ j.for = {p} /\ j.at = "save" /\ j.kind = "update"
  <2>1. /\ j.kind = "update" /\ j.for = {p} /\ j.s = s /\ j.at = "save" /\ j.value = v /\ j.rev = w
        /\ j \in Job(s)
    BY <1>2 DEF Sync!Update, Job, Maybe
  <2> QED  BY <2>1, <1>2 DEF GoodJob
<1>3. \/ j = Sync!Get({p}, s)
      \/ \E v, w \in Value(s) : j = Sync!Update(p, s, v, w) /\ (s = "configs" => Edited(tt[p], v, w))
  BY DEF GoodJobs
<1>4. CASE j = Sync!Get({p}, s)
  BY <1>1, <1>4
<1>5. CASE j # Sync!Get({p}, s)
  <2>1. PICK v \in Value(s), w \in Value(s) : j = Sync!Update(p, s, v, w) /\ (s = "configs" => Edited(tt[p], v, w))
    BY <1>3, <1>5
  <2> QED  BY <2>1, <1>2
<1> QED  BY <1>4, <1>5

LEMMA JobsStep ==
  ASSUME SaveInv, Grows, NEW p \in Panels, NEW s \in Sync!Sections, NEW js,
         GoodJobs(settingsTouched'[p], p, s, js),
         settingsJobs' = settingsJobs \cup js
  PROVE  \A j \in settingsJobs' : GoodJob(settingsTouched', settingsKnown', j)
<1> SUFFICES ASSUME NEW j \in settingsJobs' PROVE GoodJob(settingsTouched', settingsKnown', j)
  OBVIOUS
<1>1. CASE j \in settingsJobs
  BY <1>1, JobsGrow DEF SaveInv
<1>2. CASE j \in js
  <2>1. settingsReloads[p] \in Nat
    BY DEF SaveInv, RestTypes
  <2> QED  BY <1>2, <2>1, AskedGood
<1> QED  BY <1>1, <1>2

LEMMA MailStep ==
  ASSUME MailInv, Grows, settingsInbox' \in [Panels -> Seq(Messages)],
         \A q \in Panels : \A i \in DOMAIN settingsInbox'[q] :
           (\E k \in DOMAIN settingsInbox[q] : settingsInbox'[q][i] = settingsInbox[q][k]) \/ GoodMail(settingsKnown, settingsInbox'[q][i])
  PROVE  MailInv'
<1>1. ASSUME NEW q \in Panels,
             NEW i \in DOMAIN settingsInbox'[q] PROVE GoodMail(settingsKnown', settingsInbox'[q][i])
  <2>1. GoodMail(settingsKnown, settingsInbox'[q][i])
    BY DEF MailInv
  <2> QED  BY <2>1, JobsGrow
<1> QED  BY <1>1 DEF MailInv

LEMMA MailRests ==
  ASSUME MailInv, Grows, settingsInbox' = settingsInbox
  PROVE  MailInv'
  BY MailStep DEF MailInv

\* The panel p of a step on its section s.
LEMMA DoStep ==
  ASSUME SaveInv, Grows, NEW p \in Panels, NEW s \in Sync!Sections, NEW r,
         Good(settingsTouched'[p], settingsKnown', s, r.c), GoodJobs(settingsTouched'[p], p, s, r.jobs),
         s = "llm" /\ settingsPanel[p]["llm"].base # Sync!Nil => r.c.base # Sync!Nil,
         s = "configs" /\ Active(r.c) => settingsPanel[p]["llm"].base # Sync!Nil,
         Sync!Do(p, s, r)
  PROVE  PanelInv' /\ \A j \in settingsJobs' : GoodJob(settingsTouched', settingsKnown', j)
<1>1. PanelInv'
  BY PanelStep DEF Sync!Do, SaveInv
<1> QED  BY <1>1, JobsStep DEF Sync!Do

FormTo(d, c) ==
  /\ d.base = c.base /\ d.rev = c.rev /\ d.sent = c.sent
  /\ d.queued = c.queued /\ d.staged = c.staged /\ d.conflict = c.conflict
LEMMA FormGood ==
  ASSUME NEW t, NEW u, NEW kn, NEW s, NEW c, NEW d, Good(t, kn, s, c), c.base # Sync!Nil, t \subseteq u,
         d \in Section(s), FormTo(d, c),
         s = "configs" => \A k \in ConfigIds : d.form[k] # c.form[k] => <<"configs", k>> \in u
  PROVE  Good(u, kn, s, d)
<1>1. Good(u, kn, s, c)
  BY GoodGrows
<1>2. s = "configs" => Table(u, kn, d)
  BY <1>1 DEF Good, Table, FormTo, Edited
<1>3. Blank(d)
  BY DEF Good, Blank, FormTo
<1> QED  BY <1>2, <1>3 DEF Good

LEMMA EditingIs ==
  ASSUME SaveInv, ~EditsWhileLoading, NEW p \in Panels, NEW s \in Sync!Sections, NEW ks,
         Sync!Editing(p, s, ks), IF s = "configs" THEN ks \subseteq ConfigIds ELSE ks = {"active"}
  PROVE  /\ Grows /\ settingsTouched'[p] = settingsTouched[p] \cup ({s} \X ks)
         /\ settingsTouched' \in [Panels -> SUBSET (({"configs"} \X ConfigIds) \cup ({"llm"} \X {"active"}))]
         /\ settingsEdits' \in 0..MaxEdits /\ settingsEdits + 2 \in 0..MaxEdits + 1
         /\ \A t \in Sync!Sections : settingsPanel[p][t].base # Sync!Nil
         /\ DiskInv' /\ MailInv' /\ UNCHANGED <<settingsGaveUp, settingsChanged, settingsReloads, settingsKnown>>
         /\ \A t \in Sync!Sections : Good(settingsTouched[p], settingsKnown, t, settingsPanel[p][t])
<1> USE EditsAreCounted
<1>1. /\ settingsTouched' = [settingsTouched EXCEPT ![p] = @ \cup ({s} \X ks)]
      /\ settingsTouched \in [Panels -> SUBSET (({"configs"} \X ConfigIds) \cup ({"llm"} \X {"active"}))]
      /\ UNCHANGED <<settingsDisk, settingsInbox, settingsChanged, settingsGaveUp, settingsKnown, settingsReloads>>
  BY DEF Sync!Editing, SaveInv, RestTypes
<1>2. {s} \X ks \subseteq ({"configs"} \X ConfigIds) \cup ({"llm"} \X {"active"})
  BY DEF Sync!Sections
<1>3. Grows
  BY <1>1 DEF Grows
<1>4. DiskInv' /\ MailInv'
  BY <1>1, <1>3, MailRests DEF SaveInv, DiskInv
<1>5. settingsEdits' \in 0..MaxEdits /\ settingsEdits + 2 \in 0..MaxEdits + 1
  BY DEF Sync!Editing, SaveInv, RestTypes
<1>6. \A t \in Sync!Sections : settingsPanel[p][t].base # Sync!Nil
  BY DEF Sync!Editing
<1>7. \A t \in Sync!Sections : Good(settingsTouched[p], settingsKnown, t, settingsPanel[p][t])
  BY DEF SaveInv, PanelInv
<1>8. /\ settingsTouched'[p] = settingsTouched[p] \cup ({s} \X ks)
      /\ settingsTouched' \in [Panels -> SUBSET (({"configs"} \X ConfigIds) \cup ({"llm"} \X {"active"}))]
  BY <1>1, <1>2
<1> QED  BY <1>1, <1>3, <1>4, <1>5, <1>6, <1>7, <1>8

LEMMA TypedGood ==
  ASSUME NEW t, NEW u, NEW kn, NEW c, Good(t, kn, "configs", c), c.base # Sync!Nil, t \subseteq u,
         NEW id \in ConfigIds, NEW v \in 0..MaxEdits + 1, NEW b \in BOOLEAN, <<"configs", id>> \in u
  PROVE  Good(u, kn, "configs", Sync!Typed(c, id, v, b)) /\ Sync!Typed(c, id, v, b).base # Sync!Nil
<1> DEFINE d == Sync!Typed(c, id, v, b)
<1>1. c \in Section("configs") /\ c.form \in [ConfigIds -> 0..MaxEdits + 1]
  BY DEF Good, Section, Value
<1>2. [c.form EXCEPT ![id] = v] \in Value("configs")
  BY <1>1 DEF Value
<1>3. d \in Section("configs") /\ FormTo(d, c) /\ d.form = [c.form EXCEPT ![id] = v]
  BY <1>1, <1>2 DEF Section, FormTo, Sync!Typed
<1>4. \A k \in ConfigIds : d.form[k] # c.form[k] => <<"configs", k>> \in u
  BY <1>1, <1>3
<1> HIDE DEF d
<1>5. Good(u, kn, "configs", d)
  BY <1>3, <1>4, FormGood
<1>6. d.base # Sync!Nil
  BY <1>3 DEF FormTo
<1> QED  BY <1>5, <1>6 DEF d

LEMMA ChangeKeeps ==
  ASSUME SaveInv, ~EditsWhileLoading, NEW p \in Panels, NEW id \in ConfigIds, Sync!Change(p, id)
  PROVE  SaveInv'
<1>b. PICK b \in BOOLEAN : b = TRUE
  OBVIOUS
<1> DEFINE d == Sync!Typed(settingsPanel[p]["configs"], id, settingsEdits + 2, b)
<1>0. "configs" \in Sync!Sections /\ "llm" \in Sync!Sections
  BY DEF Sync!Sections
<1>1. Sync!Editing(p, "configs", {id})
  BY DEF Sync!Change
<1>2. /\ Grows /\ settingsTouched'[p] = settingsTouched[p] \cup ({"configs"} \X {id})
      /\ settingsTouched' \in [Panels -> SUBSET (({"configs"} \X ConfigIds) \cup ({"llm"} \X {"active"}))]
      /\ settingsEdits' \in 0..MaxEdits /\ settingsEdits + 2 \in 0..MaxEdits + 1
      /\ \A t \in Sync!Sections : settingsPanel[p][t].base # Sync!Nil
      /\ DiskInv' /\ MailInv' /\ UNCHANGED <<settingsGaveUp, settingsChanged, settingsReloads, settingsKnown>>
      /\ \A t \in Sync!Sections : Good(settingsTouched[p], settingsKnown, t, settingsPanel[p][t])
  BY <1>0, <1>1, EditingIs
<1>5. settingsPanel' = [settingsPanel EXCEPT ![p]["configs"] = d] /\ UNCHANGED <<settingsFollow, settingsJobs>>
  BY <1>b DEF Sync!Change
<1>6. Good(settingsTouched'[p], settingsKnown', "configs", d)
  BY <1>0, <1>2, TypedGood
<1> HIDE DEF d
<1>7. PanelInv'
  BY <1>0, <1>2, <1>5, <1>6, PanelStep DEF SaveInv
<1>8. \A j \in settingsJobs' : GoodJob(settingsTouched', settingsKnown', j)
  BY <1>5, <1>2, JobsGrow DEF SaveInv
<1>9. RestTypes'
  BY <1>2, <1>5 DEF SaveInv, RestTypes
<1> QED  BY <1>2, <1>7, <1>8, <1>9 DEF SaveInv

LEMMA AutoSaveKeeps ==
  ASSUME SaveInv, NEW p \in Panels, Sync!AutoSave(p)
  PROVE  SaveInv'
<1> DEFINE c == settingsPanel[p]["configs"]
           d == [c EXCEPT !.timer = FALSE]
           r == Sync!Enqueue(p, "configs", d)
<1>0. "configs" \in Sync!Sections /\ "llm" \in Sync!Sections
  BY DEF Sync!Sections
<1>1. /\ c.timer /\ Sync!Do(p, "configs", r)
      /\ UNCHANGED <<settingsDisk, settingsFollow, settingsInbox, settingsChanged, settingsTouched, settingsGaveUp, settingsKnown, settingsEdits, settingsReloads>>
  BY DEF Sync!AutoSave
<1>2. Grows
  BY <1>1, GrowsAlways
<1>3. c \in Section("configs") /\ Good(settingsTouched[p], settingsKnown, "configs", c) /\ c.base # Sync!Nil /\ settingsPanel[p]["llm"].base # Sync!Nil
  BY <1>0, <1>1 DEF SaveInv, PanelInv, Good, Blank, Active
<1>4. d \in Section("configs") /\ FormTo(d, c) /\ d.form = c.form
  BY <1>3 DEF Section, FormTo
<1>5. Good(settingsTouched[p], settingsKnown, "configs", d) /\ d.base # Sync!Nil
  BY <1>3, <1>4, FormGood DEF FormTo
<1> HIDE DEF d
<1>6. Good(settingsTouched[p], settingsKnown, "configs", r.c) /\ GoodJobs(settingsTouched[p], p, "configs", r.jobs)
  BY <1>0, <1>5, EnqueueGood
<1> HIDE DEF r
<1>7. PanelInv' /\ \A j \in settingsJobs' : GoodJob(settingsTouched', settingsKnown', j)
  BY <1>0, <1>1, <1>2, <1>3, <1>6, DoStep
<1>8. RestTypes' /\ DiskInv'
  BY <1>1 DEF SaveInv, RestTypes, DiskInv
<1>9. MailInv'
  BY <1>1, <1>2, MailRests DEF SaveInv
<1> QED  BY <1>7, <1>8, <1>9 DEF SaveInv

LEMMA ActivatedIs ==
  ASSUME SaveInv, Grows, NEW p \in Panels, NEW d, Good(settingsTouched'[p], settingsKnown', "configs", d),
         NEW id \in ConfigIds, settingsPanel' = Sync!Activated(p, d, id),
         settingsPanel[p]["llm"].base # Sync!Nil
  PROVE  PanelInv'
<1> DEFINE c == settingsPanel[p]["llm"]
           e == [c EXCEPT !.form = Sync!Choice(id)]
<1>0. "configs" \in Sync!Sections /\ "llm" \in Sync!Sections /\ Sync!Sections = {"configs", "llm"}
  BY DEF Sync!Sections
<1>1. c \in Section("llm") /\ Good(settingsTouched[p], settingsKnown, "llm", c) /\ PanelInv
  BY <1>0 DEF SaveInv, PanelInv, Good
<1>2. Good(settingsTouched'[p], settingsKnown', "llm", c)
  BY <1>1, GoodGrows DEF Grows
<1>3. e \in Section("llm") /\ FormTo(e, c)
  BY <1>1 DEF Section, Value, Sync!Choice, FormTo
<1>4. Good(settingsTouched'[p], settingsKnown', "llm", e) /\ e.base # Sync!Nil
  BY <1>2, <1>3, FormGood DEF FormTo
<1>5. /\ settingsPanel' \in [Panels -> [Sync!Sections -> Section("configs") \cup Section("llm")]]
      /\ \A q \in Panels : \A r \in Sync!Sections :
           settingsPanel'[q][r] = IF q # p THEN settingsPanel[q][r] ELSE IF r = "configs" THEN d ELSE e
  <2>1. d \in Section("configs")
    BY DEF Good
  <2>2. settingsPanel \in [Panels -> [Sync!Sections -> Section("configs") \cup Section("llm")]]
    BY <1>1 DEF PanelInv
  <2>3. settingsPanel' = [[settingsPanel EXCEPT ![p]["configs"] = d] EXCEPT ![p]["llm"] = e]
    BY <2>2, <1>0 DEF Sync!Activated
  <2> HIDE DEF e
  <2> QED  BY <2>1, <2>2, <2>3, <1>0, <1>3
<1> HIDE DEF e, c
<1>6. ASSUME NEW q \in Panels,
             NEW r \in Sync!Sections PROVE Good(settingsTouched'[q], settingsKnown', r, settingsPanel'[q][r])
  <2>1. CASE q = p
    BY <2>1, <1>0, <1>4, <1>5
  <2>2. CASE q # p
    <3>1. Good(settingsTouched[q], settingsKnown, r, settingsPanel[q][r])
      BY <1>1 DEF PanelInv
    <3> QED  BY <3>1, <2>2, <1>5, GoodGrows DEF Grows
  <2> QED  BY <2>1, <2>2
<1>7. ASSUME NEW q \in Panels,
             Active(settingsPanel'[q]["configs"]) PROVE settingsPanel'[q]["llm"].base # Sync!Nil
  BY <1>0, <1>1, <1>4, <1>5, <1>7 DEF PanelInv
<1> QED  BY <1>5, <1>6, <1>7 DEF PanelInv

LEMMA CreateKeeps ==
  ASSUME SaveInv, ~EditsWhileLoading, NEW p \in Panels, NEW id \in ConfigIds, Sync!Create(p, id)
  PROVE  SaveInv'
<1>b. PICK b \in BOOLEAN : b = FALSE
  OBVIOUS
<1> DEFINE d == Sync!Typed(settingsPanel[p]["configs"], id, settingsEdits + 2, b)
           r == Sync!Enqueue(p, "configs", d)
<1>0. "configs" \in Sync!Sections /\ "llm" \in Sync!Sections
  BY DEF Sync!Sections
<1>1. /\ Sync!Editing(p, "configs", {id}) /\ settingsPanel' = Sync!Activated(p, r.c, id) /\ settingsJobs' = settingsJobs \cup r.jobs
      /\ settingsFollow' = [settingsFollow EXCEPT ![p] = id]
  BY <1>b DEF Sync!Create
<1>2. /\ Grows /\ settingsTouched'[p] = settingsTouched[p] \cup ({"configs"} \X {id})
      /\ settingsTouched' \in [Panels -> SUBSET (({"configs"} \X ConfigIds) \cup ({"llm"} \X {"active"}))]
      /\ settingsEdits' \in 0..MaxEdits /\ settingsEdits + 2 \in 0..MaxEdits + 1
      /\ \A t \in Sync!Sections : settingsPanel[p][t].base # Sync!Nil
      /\ DiskInv' /\ MailInv' /\ UNCHANGED <<settingsGaveUp, settingsChanged, settingsReloads, settingsKnown>>
      /\ \A t \in Sync!Sections : Good(settingsTouched[p], settingsKnown, t, settingsPanel[p][t])
  BY <1>0, <1>1, EditingIs
<1>3. Good(settingsTouched'[p], settingsKnown', "configs", d) /\ d.base # Sync!Nil
  <2>1. /\ Good(settingsTouched[p], settingsKnown, "configs", settingsPanel[p]["configs"]) /\ settingsPanel[p]["configs"].base # Sync!Nil
        /\ settingsTouched[p] \subseteq settingsTouched'[p] /\ <<"configs", id>> \in settingsTouched'[p] /\ settingsKnown' = settingsKnown
    BY <1>0, <1>2
  <2>2. settingsEdits + 2 \in 0..MaxEdits + 1
    BY <1>2
  <2> QED  BY <2>1, <2>2, TypedGood
<1> HIDE DEF d
<1>4. Good(settingsTouched'[p], settingsKnown', "configs", r.c) /\ GoodJobs(settingsTouched'[p], p, "configs", r.jobs)
  BY <1>0, <1>3, EnqueueGood
<1> HIDE DEF r
<1>5. PanelInv'
  BY <1>0, <1>1, <1>2, <1>4, ActivatedIs
<1>6. \A j \in settingsJobs' : GoodJob(settingsTouched', settingsKnown', j)
  BY <1>0, <1>1, <1>2, <1>4, JobsStep
<1>7. RestTypes'
  BY <1>1, <1>2 DEF SaveInv, RestTypes
<1> QED  BY <1>2, <1>5, <1>6, <1>7 DEF SaveInv

LEMMA DeleteKeeps ==
  ASSUME SaveInv, ~EditsWhileLoading, NEW p \in Panels, NEW id \in ConfigIds, Sync!Delete(p, id)
  PROVE  SaveInv'
<1>b. PICK b \in BOOLEAN : b = FALSE
  OBVIOUS
<1> DEFINE d == Sync!Typed(settingsPanel[p]["configs"], id, 0, b)
           r == Sync!Enqueue(p, "configs", d)
           active == settingsPanel[p]["llm"].form = Sync!Choice(id)
<1>0. "configs" \in Sync!Sections /\ "llm" \in Sync!Sections
  BY DEF Sync!Sections
<1>1. /\ Sync!Editing(p, "configs", {id}) /\ settingsJobs' = settingsJobs \cup r.jobs
      /\ \E other \in ConfigIds \ {id} :
           /\ settingsPanel' = Sync!Activated(p, r.c, IF active THEN other ELSE settingsPanel[p]["llm"].form["active"])
           /\ settingsFollow' = IF active THEN [settingsFollow EXCEPT ![p] = other] ELSE settingsFollow
  BY <1>b DEF Sync!Delete
<1>2. /\ Grows /\ settingsTouched'[p] = settingsTouched[p] \cup ({"configs"} \X {id})
      /\ settingsTouched' \in [Panels -> SUBSET (({"configs"} \X ConfigIds) \cup ({"llm"} \X {"active"}))]
      /\ settingsEdits' \in 0..MaxEdits /\ settingsEdits + 2 \in 0..MaxEdits + 1
      /\ \A t \in Sync!Sections : settingsPanel[p][t].base # Sync!Nil
      /\ DiskInv' /\ MailInv' /\ UNCHANGED <<settingsGaveUp, settingsChanged, settingsReloads, settingsKnown>>
      /\ \A t \in Sync!Sections : Good(settingsTouched[p], settingsKnown, t, settingsPanel[p][t])
  BY <1>0, <1>1, EditingIs
<1>3. Good(settingsTouched'[p], settingsKnown', "configs", d) /\ d.base # Sync!Nil
  <2>1. 0 \in 0..MaxEdits + 1
    BY EditsAreCounted
  <2>2. /\ Good(settingsTouched[p], settingsKnown, "configs", settingsPanel[p]["configs"]) /\ settingsPanel[p]["configs"].base # Sync!Nil
        /\ settingsTouched[p] \subseteq settingsTouched'[p] /\ <<"configs", id>> \in settingsTouched'[p] /\ settingsKnown' = settingsKnown
    BY <1>0, <1>2
  <2> QED  BY <2>1, <2>2, TypedGood
<1>8. settingsPanel[p]["llm"].form["active"] \in ConfigIds
  BY <1>0, <1>2 DEF Good, Section, Value
<1> HIDE DEF d
<1>4. Good(settingsTouched'[p], settingsKnown', "configs", r.c) /\ GoodJobs(settingsTouched'[p], p, "configs", r.jobs)
  BY <1>0, <1>3, EnqueueGood
<1> HIDE DEF r, active
<1>9. PICK other \in ConfigIds \ {id} :
           /\ settingsPanel' = Sync!Activated(p, r.c, IF active THEN other ELSE settingsPanel[p]["llm"].form["active"])
           /\ settingsFollow' = IF active THEN [settingsFollow EXCEPT ![p] = other] ELSE settingsFollow
  BY <1>1
<1>5. PanelInv'
  BY <1>0, <1>2, <1>4, <1>8, <1>9, ActivatedIs
<1>6. \A j \in settingsJobs' : GoodJob(settingsTouched', settingsKnown', j)
  BY <1>0, <1>1, <1>2, <1>4, JobsStep
<1>7. RestTypes'
  BY <1>9, <1>2 DEF SaveInv, RestTypes
<1> QED  BY <1>2, <1>5, <1>6, <1>7 DEF SaveInv

LEMMA SelectKeeps ==
  ASSUME SaveInv, ~EditsWhileLoading, NEW p \in Panels, NEW id \in ConfigIds, Sync!Select(p, id)
  PROVE  SaveInv'
<1> DEFINE c == settingsPanel[p]["llm"]
           d == [c EXCEPT !.form = Sync!Choice(id)]
           r == Sync!Enqueue(p, "llm", d)
<1>0. "configs" \in Sync!Sections /\ "llm" \in Sync!Sections
  BY DEF Sync!Sections
<1>1. Sync!Editing(p, "llm", {"active"}) /\ Sync!Do(p, "llm", r) /\ UNCHANGED settingsFollow
  BY DEF Sync!Select
<1>2. /\ Grows
      /\ settingsTouched' \in [Panels -> SUBSET (({"configs"} \X ConfigIds) \cup ({"llm"} \X {"active"}))]
      /\ settingsEdits' \in 0..MaxEdits
      /\ \A t \in Sync!Sections : settingsPanel[p][t].base # Sync!Nil
      /\ DiskInv' /\ MailInv' /\ UNCHANGED <<settingsGaveUp, settingsChanged, settingsReloads, settingsKnown>>
      /\ \A t \in Sync!Sections : Good(settingsTouched[p], settingsKnown, t, settingsPanel[p][t])
  BY <1>0, <1>1, EditingIs
<1>3. Good(settingsTouched'[p], settingsKnown', "llm", c) /\ c.base # Sync!Nil
  BY <1>0, <1>2, GoodGrows DEF Grows
<1>4. d \in Section("llm") /\ FormTo(d, c)
  BY <1>3 DEF Good, Section, Value, Sync!Choice, FormTo
<1>5. Good(settingsTouched'[p], settingsKnown', "llm", d) /\ d.base # Sync!Nil
  BY <1>3, <1>4, FormGood DEF FormTo
<1> HIDE DEF d
<1>6. Good(settingsTouched'[p], settingsKnown', "llm", r.c) /\ GoodJobs(settingsTouched'[p], p, "llm", r.jobs) /\ r.c.base # Sync!Nil
  BY <1>0, <1>5, EnqueueGood
<1> HIDE DEF r
<1>7. PanelInv' /\ \A j \in settingsJobs' : GoodJob(settingsTouched', settingsKnown', j)
  BY <1>0, <1>1, <1>2, <1>6, DoStep
<1>9. RestTypes'
  BY <1>1, <1>2 DEF SaveInv, RestTypes
<1> QED  BY <1>2, <1>7, <1>9 DEF SaveInv

LEMMA KeepMineKeeps ==
  ASSUME SaveInv, NEW p \in Panels, NEW s \in Sync!Sections, Sync!KeepMine(p, s)
  PROVE  SaveInv'
<1>w. PICK w : w = TRUE
  OBVIOUS
<1> DEFINE c == settingsPanel[p][s]
           r == Sync!Resolve(p, s, c, c.staged, w)
<1>0. "configs" \in Sync!Sections /\ "llm" \in Sync!Sections
  BY DEF Sync!Sections
<1>1. /\ c.staged # Sync!Nil /\ c.sent = Sync!Nil /\ Sync!Do(p, s, r)
      /\ UNCHANGED <<settingsDisk, settingsFollow, settingsInbox, settingsChanged, settingsTouched, settingsGaveUp, settingsKnown, settingsEdits, settingsReloads>>
  BY <1>w DEF Sync!KeepMine
<1>2. Grows
  BY <1>1, GrowsAlways
<1>3. Good(settingsTouched[p], settingsKnown, s, c) /\ c.base # Sync!Nil
  BY <1>1 DEF SaveInv, PanelInv, Good, Blank
<1>4. c.staged \in [value : Value(s), rev : Value(s)] /\ GoodSnap(settingsKnown, s, c.staged)
  BY <1>1, <1>3, StagedSnap
<1>5. Good(settingsTouched[p], settingsKnown, s, r.c) /\ GoodJobs(settingsTouched[p], p, s, r.jobs) /\ r.c.base # Sync!Nil
  BY <1>1, <1>3, <1>4, ResolveGood
<1>6. Active(r.c) => Active(c)
  BY <1>1, <1>3, <1>4, ResolveActive
<1> HIDE DEF r
<1>7. PanelInv' /\ \A j \in settingsJobs' : GoodJob(settingsTouched', settingsKnown', j)
  BY <1>0, <1>1, <1>2, <1>5, <1>6, DoStep DEF SaveInv, PanelInv
<1>8. RestTypes' /\ DiskInv'
  BY <1>1 DEF SaveInv, RestTypes, DiskInv
<1>9. MailInv'
  BY <1>1, <1>2, MailRests DEF SaveInv
<1> QED  BY <1>7, <1>8, <1>9 DEF SaveInv

LEMMA TakeTheirsKeeps ==
  ASSUME SaveInv, NEW p \in Panels, NEW s \in Sync!Sections, Sync!TakeTheirs(p, s)
  PROVE  SaveInv'
<1> DEFINE c == settingsPanel[p][s]
           d == [c EXCEPT !.queued = Sync!Nil, !.conflict = FALSE, !.timer = FALSE, !.staged = Sync!Nil]
           e == Sync!Committed(d, c.staged, c.staged.value)
<1>0. "configs" \in Sync!Sections /\ "llm" \in Sync!Sections
  BY DEF Sync!Sections
<1>1. /\ c.staged # Sync!Nil /\ c.sent = Sync!Nil /\ settingsPanel' = [settingsPanel EXCEPT ![p][s] = e]
      /\ settingsFollow' = IF s = "configs" THEN [settingsFollow EXCEPT ![p] = 0] ELSE settingsFollow
      /\ settingsGaveUp' = settingsGaveUp \cup (IF s = "configs" /\ settingsFollow[p] # 0 THEN {<<p, "llm">>} ELSE {})
                          \cup (IF c.staged.rev # settingsDisk[s] THEN {<<p, s>>} ELSE {})
      /\ UNCHANGED <<settingsDisk, settingsJobs, settingsInbox, settingsChanged, settingsTouched, settingsKnown, settingsEdits, settingsReloads>>
  BY DEF Sync!TakeTheirs
<1>2. Grows
  BY <1>1, GrowsAlways
<1>3. c \in Section(s) /\ Good(settingsTouched[p], settingsKnown, s, c) /\ c.base # Sync!Nil
  BY <1>1 DEF SaveInv, PanelInv, Good, Blank
<1>4. c.staged \in [value : Value(s), rev : Value(s)] /\ GoodSnap(settingsKnown, s, c.staged)
  BY <1>1, <1>3, StagedSnap
<1>5. /\ d \in Section(s) /\ d.form = c.form /\ d.base = c.base /\ d.rev = c.rev /\ d.sent = Sync!Nil
      /\ d.queued = Sync!Nil /\ d.staged = Sync!Nil /\ d.conflict = FALSE /\ d.timer = FALSE
  BY <1>1, <1>3 DEF Section, Maybe
<1>6. Good(settingsTouched[p], settingsKnown, s, d)
  <2>1. s = "configs" => Table(settingsTouched[p], settingsKnown, d)
    BY <1>3, <1>5 DEF Good, Table
  <2> QED  BY <2>1, <1>3, <1>5 DEF Good, Blank
<1> HIDE DEF d
<1>7. Good(settingsTouched[p], settingsKnown, s, e) /\ e.base # Sync!Nil
  BY <1>4, <1>5, <1>6, TakenGood
<1>8. ~Active(e)
  <2>1. CommittedTo(e, d, c.staged, c.staged.value)
    BY <1>4, <1>5, CommittedIs
  <2> QED  BY <2>1, <1>5 DEF CommittedTo, Active
<1> HIDE DEF e
<1>9. PanelInv'
  BY <1>0, <1>1, <1>2, <1>7, <1>8, PanelStep DEF SaveInv
<1>10. RestTypes' /\ DiskInv'
  BY <1>0, <1>1 DEF SaveInv, RestTypes, DiskInv
<1>11. MailInv'
  BY <1>1, <1>2, MailRests DEF SaveInv
<1>12. \A j \in settingsJobs' : GoodJob(settingsTouched', settingsKnown', j)
  BY <1>1, <1>2, JobsGrow DEF SaveInv
<1> QED  BY <1>9, <1>10, <1>11, <1>12 DEF SaveInv

Unread(c) == [Sync!Unsaved EXCEPT !.form = c.form, !.loading = TRUE]
LEMMA UnreadIs ==
  ASSUME NEW s \in Sync!Sections, NEW c \in Section(s)
  PROVE  /\ Unread(c) \in Section(s) /\ Unread(c).form = c.form /\ Unread(c).base = Sync!Nil /\ Unread(c).rev = Sync!Nil
         /\ Unread(c).sent = Sync!Nil /\ Unread(c).queued = Sync!Nil /\ Unread(c).staged = Sync!Nil
         /\ Unread(c).conflict = FALSE /\ Unread(c).timer = FALSE
  BY DEF Unread, Sync!Unsaved, Section, Maybe

LEMMA ReloadKeeps ==
  ASSUME SaveInv, NEW p \in Panels, Sync!Reload(p)
  PROVE  SaveInv'
<1> USE EditsAreCounted
<1>0. "configs" \in Sync!Sections /\ "llm" \in Sync!Sections
  BY DEF Sync!Sections
<1>1. /\ settingsEdits < MaxEdits /\ settingsEdits' = settingsEdits + 1
      /\ settingsReloads' = [settingsReloads EXCEPT ![p] = @ + 1]
      /\ settingsPanel' = [settingsPanel EXCEPT ![p] = [s \in Sync!Sections |-> Unread(settingsPanel[p][s])]]
      /\ settingsJobs' = settingsJobs \cup {Sync!Get({p}, s) : s \in Sync!Sections}
      /\ UNCHANGED <<settingsDisk, settingsFollow, settingsInbox, settingsChanged, settingsTouched, settingsGaveUp, settingsKnown>>
  BY DEF Sync!Reload, Unread
<1>2. Grows
  BY <1>1, GrowsAlways
<1>3. \A s \in Sync!Sections : settingsPanel[p][s] \in Section(s)
  BY DEF SaveInv, PanelInv, Good
<1>4. ASSUME NEW s \in Sync!Sections
      PROVE  Good(settingsTouched'[p], settingsKnown', s, Unread(settingsPanel[p][s])) /\ ~Active(Unread(settingsPanel[p][s]))
  <2>1. Unread(settingsPanel[p][s]) \in Section(s)
    BY <1>3, UnreadIs
  <2> QED  BY <2>1, <1>3, UnreadIs DEF Good, Blank, Table, Active
<1>5. /\ settingsPanel' \in [Panels -> [Sync!Sections -> Section("configs") \cup Section("llm")]]
      /\ \A q \in Panels : \A r \in Sync!Sections :
           settingsPanel'[q][r] = IF q = p THEN Unread(settingsPanel[p][r]) ELSE settingsPanel[q][r]
  <2>1. \A s \in Sync!Sections : Unread(settingsPanel[p][s]) \in Section("configs") \cup Section("llm")
    BY <1>3, UnreadIs DEF Sync!Sections
  <2> QED  BY <1>1, <2>1 DEF SaveInv, PanelInv
<1>6. PanelInv'
  <2>1. ASSUME NEW q \in Panels,
               NEW r \in Sync!Sections PROVE Good(settingsTouched'[q], settingsKnown', r, settingsPanel'[q][r])
    <3>1. Good(settingsTouched[q], settingsKnown, r, settingsPanel[q][r])
      BY DEF SaveInv, PanelInv
    <3>2. Good(settingsTouched'[q], settingsKnown', r, settingsPanel[q][r])
      BY <3>1, <1>2, GoodGrows DEF Grows
    <3> QED  BY <3>2, <1>4, <1>5
  <2>2. ASSUME NEW q \in Panels,
               Active(settingsPanel'[q]["configs"]) PROVE settingsPanel'[q]["llm"].base # Sync!Nil
    BY <1>0, <1>4, <1>5, <2>2 DEF SaveInv, PanelInv
  <2> QED  BY <1>5, <2>1, <2>2 DEF PanelInv
<1>7. ASSUME NEW j \in settingsJobs' PROVE GoodJob(settingsTouched', settingsKnown', j)
  <2>1. CASE j \in settingsJobs
    BY <2>1, <1>2, JobsGrow DEF SaveInv
  <2>2. ASSUME NEW s \in Sync!Sections, j = Sync!Get({p}, s) PROVE GoodJob(settingsTouched', settingsKnown', j)
    <3>1. GoodJobs(settingsTouched'[p], p, s, {j})
      BY <2>2 DEF GoodJobs
    <3>2. settingsReloads[p] \in Nat
      BY DEF SaveInv, RestTypes
    <3> QED  BY <3>1, <3>2, AskedGood
  <2> QED  BY <2>1, <2>2, <1>1
<1>8. RestTypes' /\ DiskInv'
  BY <1>1 DEF SaveInv, RestTypes, DiskInv
<1>9. MailInv'
  BY <1>1, <1>2, MailRests DEF SaveInv
<1> QED  BY <1>6, <1>7, <1>8, <1>9 DEF SaveInv

LEMMA ElsewhereKeeps ==
  ASSUME SaveInv, Sync!Elsewhere
  PROVE  SaveInv'
<1> USE EditsAreCounted
<1>1. /\ settingsEdits < MaxEdits /\ settingsEdits' = settingsEdits + 1 /\ settingsChanged' = settingsChanged \cup {"configs"}
      /\ UNCHANGED <<settingsPanel, settingsFollow, settingsJobs, settingsInbox, settingsTouched, settingsGaveUp, settingsKnown, settingsReloads>>
  BY DEF Sync!Elsewhere
<1>2. PICK id \in ConfigIds : settingsDisk["configs"][id] # 0 /\ settingsDisk' = [settingsDisk EXCEPT !["configs"][id] = settingsEdits + 2]
  BY DEF Sync!Elsewhere
<1>3. Grows
  BY <1>1, GrowsAlways
<1>4. DiskInv'
  <2>1. /\ settingsDisk \in [Sync!Sections -> Value("configs") \cup Value("llm")] /\ settingsDisk["configs"] \in [ConfigIds -> 0..MaxEdits + 1]
        /\ settingsDisk["llm"] \in Value("llm") /\ Sync!Sections = {"configs", "llm"}
    BY DEF SaveInv, DiskInv, Sync!Sections, Value
  <2>2. settingsEdits + 2 \in 0..MaxEdits + 1 /\ settingsEdits + 2 # 0
    BY <1>1 DEF SaveInv, RestTypes
  <2>3. [settingsDisk["configs"] EXCEPT ![id] = settingsEdits + 2] \in Value("configs")
    BY <2>1, <2>2 DEF Value
  <2>4. settingsDisk' = [settingsDisk EXCEPT !["configs"] = [settingsDisk["configs"] EXCEPT ![id] = settingsEdits + 2]]
    BY <1>2, <2>1
  <2>5. /\ settingsDisk' \in [Sync!Sections -> Value("configs") \cup Value("llm")] /\ settingsDisk'["llm"] = settingsDisk["llm"]
        /\ settingsDisk'["configs"] = [settingsDisk["configs"] EXCEPT ![id] = settingsEdits + 2]
    BY <2>1, <2>3, <2>4
  <2>6. Known(settingsKnown', settingsDisk'["configs"])
    BY <2>1, <2>5, <1>1, <1>2 DEF Known, SaveInv, DiskInv
  <2>7. settingsDisk'["configs"][id] # 0
    BY <2>1, <2>2, <2>5
  <2> QED  BY <2>1, <2>3, <2>5, <2>6, <2>7 DEF DiskInv
<1>5. PanelInv' /\ MailInv'
  BY <1>1, <1>3, PanelRests, MailRests DEF SaveInv
<1>6. \A j \in settingsJobs' : GoodJob(settingsTouched', settingsKnown', j)
  BY <1>1, <1>3, JobsGrow DEF SaveInv
<1>7. RestTypes'
  BY <1>1 DEF SaveInv, RestTypes, Sync!Sections
<1> QED  BY <1>4, <1>5, <1>6, <1>7 DEF SaveInv

LEMMA WatcherKeeps ==
  ASSUME SaveInv, Sync!WatcherFires
  PROVE  SaveInv'
<1>1. /\ settingsJobs' = settingsJobs \cup {[Sync!Get(Panels, s) EXCEPT !.kind = "watch"] : s \in settingsChanged} /\ settingsChanged' = {}
      /\ UNCHANGED <<settingsDisk, settingsPanel, settingsFollow, settingsInbox, settingsTouched, settingsGaveUp, settingsKnown, settingsEdits, settingsReloads>>
  BY DEF Sync!WatcherFires
<1>2. Grows
  BY <1>1, GrowsAlways
<1>3. PanelInv' /\ MailInv'
  BY <1>1, <1>2, PanelRests, MailRests DEF SaveInv
<1>4. ASSUME NEW j \in settingsJobs' PROVE GoodJob(settingsTouched', settingsKnown', j)
  <2>1. CASE j \in settingsJobs
    BY <2>1, <1>2, JobsGrow DEF SaveInv
  <2>2. ASSUME NEW s \in settingsChanged,
               j = [Sync!Get(Panels, s) EXCEPT !.kind = "watch"] PROVE GoodJob(settingsTouched', settingsKnown', j)
    <3>1. s \in Sync!Sections
      BY DEF SaveInv, RestTypes
    <3>2. /\ j.kind = "watch" /\ j.for = Panels /\ j.s = s /\ j.at = "read" /\ j.value = Sync!Nil /\ j.rev = Sync!Nil /\ j.id = 0
          /\ j \in Job(s)
      BY <2>2 DEF Sync!Get, Job, Maybe
    <3> QED  BY <3>1, <3>2 DEF GoodJob
  <2> QED  BY <2>1, <2>2, <1>1
<1>5. RestTypes' /\ DiskInv'
  BY <1>1 DEF SaveInv, RestTypes, DiskInv
<1> QED  BY <1>3, <1>4, <1>5 DEF SaveInv

-----------------------------------------------------------------------------
(* The host.                                                                 *)

LEMMA NamedIs ==
  ASSUME DiskInv, NEW v \in Value("llm")
  PROVE  Sync!Named(v, settingsDisk["configs"]) \in Value("llm") /\ settingsDisk["configs"][Sync!Named(v, settingsDisk["configs"])["active"]] # 0
<1> USE IdsAreNumbered
<1> DEFINE T == {id \in ConfigIds : settingsDisk["configs"][id] # 0}
           low == Sync!Lowest(settingsDisk["configs"])
<1>1. PICK m \in T : \A k \in T : m <= k
  BY Smallest DEF DiskInv
<1>2. low \in ConfigIds /\ settingsDisk["configs"][low] # 0
  BY <1>1 DEF Sync!Lowest
<1> HIDE DEF low
<1>3. /\ Sync!Choice(low) \in Value("llm") /\ Sync!Choice(low)["active"] = low
  BY <1>2 DEF Sync!Choice, Value
<1> QED  BY <1>2, <1>3 DEF Sync!Named, low

LEMMA ShownIs ==
  ASSUME DiskInv, NEW s \in Sync!Sections
  PROVE  GoodSnap(settingsKnown, s, [value |-> Sync!Shown(s), rev |-> settingsDisk[s]])
<1>1. s = "configs" \/ s = "llm"
  BY DEF Sync!Sections
<1>2. settingsDisk[s] \in Value(s)
  BY DEF DiskInv
<1>3. CASE s = "llm"
  <2>1. Sync!Named(settingsDisk["llm"], settingsDisk["configs"]) \in Value("llm")
    BY <1>2, <1>3, NamedIs
  <2> QED  BY <2>1, <1>2, <1>3 DEF Sync!Shown, GoodSnap
<1>4. CASE s = "configs"
  BY <1>2, <1>4 DEF Sync!Shown, GoodSnap, DiskInv
<1> QED  BY <1>1, <1>3, <1>4

\* What the host does leaves the panels; a job goes on, or ends.
HostStep == UNCHANGED <<settingsPanel, settingsFollow, settingsTouched, settingsEdits, settingsReloads>> /\ settingsKnown \subseteq settingsKnown'
LEMMA HostRests ==
  ASSUME SaveInv, HostStep
  PROVE  /\ Grows /\ PanelInv' /\ (settingsInbox' = settingsInbox => MailInv')
         /\ (settingsDisk' = settingsDisk /\ settingsKnown' = settingsKnown => DiskInv')
         /\ \A j : GoodJob(settingsTouched, settingsKnown, j) => GoodJob(settingsTouched', settingsKnown', j)
         /\ (UNCHANGED <<settingsChanged, settingsGaveUp, settingsKnown>> => RestTypes')
<1>1. Grows
  BY DEF HostStep, Grows
<1>2. PanelInv' /\ (settingsInbox' = settingsInbox => MailInv')
  BY <1>1, PanelRests, MailRests DEF SaveInv, HostStep
<1>3. settingsDisk' = settingsDisk /\ settingsKnown' = settingsKnown => DiskInv'
  BY DEF SaveInv, DiskInv
<1>4. \A j : GoodJob(settingsTouched, settingsKnown, j) => GoodJob(settingsTouched', settingsKnown', j)
  BY <1>1, JobsGrow
<1>5. UNCHANGED <<settingsChanged, settingsGaveUp, settingsKnown>> => RestTypes'
  BY DEF SaveInv, HostStep, RestTypes
<1> QED  BY <1>1, <1>2, <1>3, <1>4, <1>5

LEMMA GoneOn ==
  ASSUME SaveInv, HostStep, NEW j \in settingsJobs, NEW k, settingsJobs' = (settingsJobs \ {j}) \cup {k},
         GoodJob(settingsTouched', settingsKnown', k)
  PROVE  \A i \in settingsJobs' : GoodJob(settingsTouched', settingsKnown', i)
  BY HostRests DEF SaveInv

LEMMA GoneOff ==
  ASSUME SaveInv, HostStep, NEW j \in settingsJobs, settingsJobs' = settingsJobs \ {j}
  PROVE  \A i \in settingsJobs' : GoodJob(settingsTouched', settingsKnown', i)
  BY HostRests DEF SaveInv

\* Messages that are sent come after those that are there.
LEMMA Sent ==
  ASSUME SaveInv, Grows, NEW news \in [Panels -> Seq(Messages)],
         settingsInbox' = [p \in Panels |-> settingsInbox[p] \o news[p]],
         \A p \in Panels : \A i \in DOMAIN news[p] : GoodMail(settingsKnown, news[p][i])
  PROVE  MailInv'
<1>1. settingsInbox \in [Panels -> Seq(Messages)] /\ MailInv
  BY DEF SaveInv, MailInv
<1>2. ASSUME NEW q \in Panels
      PROVE  /\ settingsInbox'[q] \in Seq(Messages)
             /\ \A i \in DOMAIN settingsInbox'[q] :
                  (\E k \in DOMAIN settingsInbox[q] : settingsInbox'[q][i] = settingsInbox[q][k]) \/ GoodMail(settingsKnown, settingsInbox'[q][i])
  <2> DEFINE a == settingsInbox[q]
             b == news[q]
  <2>1. a \in Seq(Messages) /\ b \in Seq(Messages) /\ settingsInbox'[q] = a \o b
    BY <1>1
  <2>2. \A i \in DOMAIN b : GoodMail(settingsKnown, b[i])
    OBVIOUS
  <2> HIDE DEF a, b
  <2>3. /\ a \o b \in Seq(Messages) /\ Len(a \o b) = Len(a) + Len(b)
        /\ \A i \in 1..Len(a) + Len(b) : (a \o b)[i] = IF i <= Len(a) THEN a[i] ELSE b[i - Len(a)]
    BY <2>1, ConcatProperties
  <2>4. Len(a) \in Nat /\ Len(b) \in Nat /\ DOMAIN a = 1..Len(a) /\ DOMAIN b = 1..Len(b) /\ DOMAIN (a \o b) = 1..Len(a) + Len(b)
    BY <2>1, <2>3, LenProperties
  <2>5. ASSUME NEW i \in DOMAIN (a \o b)
        PROVE  (\E k \in DOMAIN a : (a \o b)[i] = a[k]) \/ GoodMail(settingsKnown, (a \o b)[i])
    <3>1. CASE i <= Len(a)
      BY <2>3, <2>4, <3>1
    <3>2. CASE ~(i <= Len(a))
      <4>1. i - Len(a) \in DOMAIN b /\ (a \o b)[i] = b[i - Len(a)]
        BY <2>3, <2>4, <3>2
      <4> QED  BY <4>1, <2>2
    <3> QED  BY <3>1, <3>2
  <2> QED  BY <2>1, <2>3, <2>5 DEF a
<1>3. settingsInbox' \in [Panels -> Seq(Messages)]
  BY <1>2
<1> QED  BY <1>1, <1>2, <1>3, MailStep

LEMMA SnapMail ==
  ASSUME NEW j, j.s \in Sync!Sections, GoodSnap(settingsKnown, j.s, j), NEW id \in Nat
  PROVE  Sync!Snapshot(j, id) \in Messages /\ GoodMail(settingsKnown, Sync!Snapshot(j, id))
<1> DEFINE m == Sync!Snapshot(j, id)
<1>1. /\ m.s = j.s /\ m.value = j.value /\ m.rev = j.rev /\ m.id = id /\ m.code = "snapshot"
  BY DEF Sync!Snapshot
<1>2. m \in Messages
  BY DEF Sync!Snapshot, Messages, Message, GoodSnap, Maybe, Sync!Sections
<1> HIDE DEF m
<1> QED  BY <1>1, <1>2 DEF GoodMail, GoodSnap, m

LEMMA ErrorMail ==
  ASSUME NEW j, j.s \in Sync!Sections, j.id \in Nat, NEW code \in {"conflict", "error"}
  PROVE  Sync!Error(j, code) \in Messages /\ GoodMail(settingsKnown, Sync!Error(j, code))
<1> DEFINE m == Sync!Error(j, code)
<1>1. /\ m.s = j.s /\ m.value = Sync!Nil /\ m.rev = Sync!Nil /\ m.id = j.id /\ m.code = code
  BY DEF Sync!Error
<1>2. m \in Messages
  BY DEF Sync!Error, Messages, Message, Maybe, Sync!Sections
<1> HIDE DEF m
<1> QED  BY <1>1, <1>2 DEF GoodMail, m

LEMMA ReadKeeps ==
  ASSUME SaveInv, NEW j \in settingsJobs, Sync!Read(j)
  PROVE  SaveInv'
<1> DEFINE k == [j EXCEPT !.at = "answer", !.value = Sync!Shown(j.s), !.rev = settingsDisk[j.s]]
<1>1. /\ j.at = "read" /\ settingsJobs' = (settingsJobs \ {j}) \cup {k}
      /\ UNCHANGED <<settingsDisk, settingsPanel, settingsFollow, settingsInbox, settingsChanged, settingsTouched, settingsGaveUp, settingsKnown, settingsEdits, settingsReloads>>
  BY DEF Sync!Read
<1>2. HostStep
  BY <1>1 DEF HostStep
<1>3. GoodJob(settingsTouched, settingsKnown, j)
  BY DEF SaveInv
<1>4. GoodSnap(settingsKnown, j.s, [value |-> Sync!Shown(j.s), rev |-> settingsDisk[j.s]])
  BY <1>3, ShownIs DEF GoodJob, SaveInv
<1>5. /\ k \in Job(j.s) /\ k.kind = j.kind /\ k.for = j.for /\ k.s = j.s /\ k.at = "answer"
      /\ k.value = Sync!Shown(j.s) /\ k.rev = settingsDisk[j.s] /\ k.id = j.id
  BY <1>3, <1>4 DEF GoodJob, Job, Maybe, GoodSnap
<1> HIDE DEF k
<1>6. GoodSnap(settingsKnown, k.s, k)
  BY <1>4, <1>5 DEF GoodSnap
<1>7. GoodJob(settingsTouched, settingsKnown, k)
  BY <1>3, <1>5, <1>6 DEF GoodJob, GoodSnap
<1>8. GoodJob(settingsTouched', settingsKnown', k)
  BY <1>2, <1>7, HostRests
<1> QED  BY <1>1, <1>2, <1>8, HostRests, GoneOn DEF SaveInv

\* What the answer of a job brings a panel.
Answered(j, p) ==
  IF j.kind = "update" THEN <<Sync!Snapshot(j, 0)>> \o (IF p \in j.for THEN <<Sync!Error(j, "conflict")>> ELSE <<>>)
  ELSE IF p \in j.for THEN <<Sync!Snapshot(j, 0)>> ELSE <<>>
LEMMA AnswerHas ==
  ASSUME NEW j, NEW p, Sync!Snapshot(j, 0) \in Messages, Sync!Error(j, "conflict") \in Messages
  PROVE  /\ Answered(j, p) \in Seq(Messages)
         /\ \A i \in DOMAIN Answered(j, p) :
              \/ i = 1 /\ Answered(j, p)[i] = Sync!Snapshot(j, 0)
              \/ i = 2 /\ Answered(j, p)[i] = Sync!Error(j, "conflict") /\ j.kind = "update" /\ p \in j.for
         /\ j.kind = "update" \/ p \in j.for => 1 \in DOMAIN Answered(j, p)
         /\ j.kind = "update" /\ p \in j.for => 2 \in DOMAIN Answered(j, p)
<1> DEFINE snap == Sync!Snapshot(j, 0)
           err == Sync!Error(j, "conflict")
<1> HIDE DEF snap, err
<1>1. <<snap>> \in Seq(Messages) /\ <<err>> \in Seq(Messages) /\ <<>> \in Seq(Messages) /\ snap \in Messages /\ err \in Messages
  BY DEF snap, err
<1>2. PICK both : both = <<snap>> \o <<err>>
  OBVIOUS
<1>3. both \in Seq(Messages) /\ DOMAIN both = 1..2 /\ both[1] = snap /\ both[2] = err
  BY <1>1, <1>2, ConcatProperties, LenProperties
<1>4. <<snap>> \o <<>> = <<snap>>
  BY <1>1, ConcatEmptySeq
<1>5. CASE j.kind = "update" /\ p \in j.for
  <2>1. Answered(j, p) = both
    BY <1>2, <1>5 DEF Answered, snap, err
  <2> QED  BY <2>1, <1>3, <1>5 DEF snap, err
<1>6. CASE (j.kind = "update" /\ p \notin j.for) \/ (j.kind # "update" /\ p \in j.for)
  <2>1. Answered(j, p) = <<snap>>
    BY <1>4, <1>6 DEF Answered, snap
  <2> QED  BY <2>1, <1>1, <1>6 DEF snap
<1>7. CASE j.kind # "update" /\ p \notin j.for
  <2>1. Answered(j, p) = <<>>
    BY <1>7 DEF Answered
  <2> QED  BY <2>1, <1>1, <1>7
<1> QED  BY <1>5, <1>6, <1>7

LEMMA AnswerSends ==
  ASSUME SaveInv, NEW j \in settingsJobs, Sync!Answer(j)
  PROVE  /\ settingsInbox' = [p \in Panels |-> settingsInbox[p] \o Answered(j, p)]
         /\ j.s \in Sync!Sections /\ Sync!Snapshot(j, 0) \in Messages /\ Sync!Error(j, "conflict") \in Messages
         /\ \A p \in Panels : Answered(j, p) \in Seq(Messages) /\ \A i \in DOMAIN Answered(j, p) : GoodMail(settingsKnown, Answered(j, p)[i])
<1> DEFINE snap == Sync!Snapshot(j, 0)
           err == Sync!Error(j, "conflict")
<1>4. GoodSnap(settingsKnown, j.s, j) /\ j.s \in Sync!Sections /\ j.id \in Nat
  BY DEF SaveInv, GoodJob, Job, Sync!Answer
<1>5. snap \in Messages /\ err \in Messages /\ GoodMail(settingsKnown, snap) /\ GoodMail(settingsKnown, err)
  BY <1>4, SnapMail, ErrorMail
<1>9. settingsInbox \in [Panels -> Seq(Messages)]
  BY DEF SaveInv, MailInv
<1>7. \A p \in Panels : Answered(j, p) \in Seq(Messages) /\ \A i \in DOMAIN Answered(j, p) : GoodMail(settingsKnown, Answered(j, p)[i])
  BY <1>5, AnswerHas
<1>6. CASE j.kind = "update"
  <2>1. settingsInbox' = [p \in Panels |-> settingsInbox[p] \o <<snap>> \o (IF p \in j.for THEN <<err>> ELSE <<>>)]
    BY <1>6 DEF Sync!Answer
  <2>2. \A p \in Panels : Answered(j, p) = <<snap>> \o (IF p \in j.for THEN <<err>> ELSE <<>>)
    BY <1>6 DEF Answered
  <2> HIDE DEF snap, err
  <2>3. \A p \in Panels : settingsInbox[p] \o <<snap>> \o (IF p \in j.for THEN <<err>> ELSE <<>>)
                        = settingsInbox[p] \o (<<snap>> \o (IF p \in j.for THEN <<err>> ELSE <<>>))
    <3> TAKE p \in Panels
    <3>1. settingsInbox[p] \in Seq(Messages) /\ <<snap>> \in Seq(Messages) /\ <<err>> \in Seq(Messages) /\ <<>> \in Seq(Messages)
      BY <1>5, <1>9
    <3>2. CASE p \in j.for
      BY <3>1, <3>2, ConcatAssociative
    <3>3. CASE p \notin j.for
      BY <3>1, <3>3, ConcatAssociative
    <3> QED  BY <3>2, <3>3
  <2> QED  BY <2>1, <2>2, <2>3, <1>4, <1>5, <1>7 DEF snap, err
<1>8. CASE j.kind # "update"
  <2>1. settingsInbox' = [p \in Panels |-> IF p \in j.for THEN Append(settingsInbox[p], snap) ELSE settingsInbox[p]]
    BY <1>8 DEF Sync!Answer, Sync!Post
  <2>2. \A p \in Panels : Answered(j, p) = IF p \in j.for THEN <<snap>> ELSE <<>>
    BY <1>8 DEF Answered
  <2> HIDE DEF snap, err
  <2>3. \A p \in Panels : Append(settingsInbox[p], snap) = settingsInbox[p] \o <<snap>> /\ settingsInbox[p] = settingsInbox[p] \o <<>>
    BY <1>5, <1>9, AppendIsConcat, ConcatEmptySeq
  <2> QED  BY <2>1, <2>2, <2>3, <1>4, <1>5, <1>7 DEF snap, err
<1> QED  BY <1>6, <1>8

LEMMA AnswerKeeps ==
  ASSUME SaveInv, NEW j \in settingsJobs, Sync!Answer(j)
  PROVE  SaveInv'
<1> DEFINE news == [p \in Panels |-> Answered(j, p)]
<1>1. /\ settingsJobs' = settingsJobs \ {j} /\ UNCHANGED <<settingsDisk, settingsPanel, settingsFollow, settingsChanged, settingsTouched, settingsGaveUp, settingsKnown, settingsEdits, settingsReloads>>
  BY DEF Sync!Answer
<1>2. HostStep
  BY <1>1 DEF HostStep
<1>3. /\ news \in [Panels -> Seq(Messages)] /\ settingsInbox' = [p \in Panels |-> settingsInbox[p] \o news[p]]
      /\ \A p \in Panels : \A i \in DOMAIN news[p] : GoodMail(settingsKnown, news[p][i])
  BY AnswerSends
<1> HIDE DEF news
<1>8. MailInv'
  BY <1>2, <1>3, HostRests, Sent
<1> QED  BY <1>1, <1>2, <1>8, HostRests, GoneOff DEF SaveInv

LEMMA LooksUpKeeps ==
  ASSUME SaveInv, NEW j \in settingsJobs, Sync!LooksUp(j)
  PROVE  SaveInv'
<1> DEFINE k == [j EXCEPT !.at = "commit", !.value = Sync!Named(@, settingsDisk["configs"])]
<1>1. /\ j.at = "save" /\ j.s = "llm" /\ settingsJobs' = (settingsJobs \ {j}) \cup {k}
      /\ UNCHANGED <<settingsDisk, settingsPanel, settingsFollow, settingsInbox, settingsChanged, settingsTouched, settingsGaveUp, settingsKnown, settingsEdits, settingsReloads>>
  BY DEF Sync!LooksUp
<1>2. HostStep
  BY <1>1 DEF HostStep
<1>3. GoodJob(settingsTouched, settingsKnown, j)
  BY DEF SaveInv
<1>4. j.value \in Value("llm") /\ j.kind = "update" /\ Sync!Named(j.value, settingsDisk["configs"]) \in Value("llm")
  BY <1>1, <1>3, NamedIs DEF GoodJob, SaveInv
<1>5. /\ k \in Job(j.s) /\ k.kind = j.kind /\ k.for = j.for /\ k.s = j.s /\ k.at = "commit"
      /\ k.value = Sync!Named(j.value, settingsDisk["configs"]) /\ k.rev = j.rev /\ k.id = j.id
  BY <1>1, <1>3, <1>4 DEF GoodJob, Job, Maybe
<1> HIDE DEF k
<1>7. GoodJob(settingsTouched, settingsKnown, k)
  BY <1>1, <1>3, <1>4, <1>5 DEF GoodJob
<1>8. GoodJob(settingsTouched', settingsKnown', k)
  BY <1>2, <1>7, HostRests
<1> QED  BY <1>1, <1>2, <1>8, HostRests, GoneOn DEF SaveInv

\* What a panel hears of a save that was rejected, or made.
Rejections(j, p) == IF p \in j.for THEN <<Sync!Error(j, "error")>> ELSE <<>>
LEMMA RejectSends ==
  ASSUME SaveInv, NEW j \in settingsJobs, Sync!Reject(j)
  PROVE  /\ settingsInbox' = [p \in Panels |-> settingsInbox[p] \o Rejections(j, p)]
         /\ Sync!Error(j, "error") \in Messages /\ GoodMail(settingsKnown, Sync!Error(j, "error"))
         /\ \A p \in Panels : Rejections(j, p) \in Seq(Messages)
<1> DEFINE err == Sync!Error(j, "error")
<1>1. settingsInbox' = [p \in Panels |-> IF p \in j.for THEN Append(settingsInbox[p], err) ELSE settingsInbox[p]]
  BY DEF Sync!Reject, Sync!Post
<1>2. err \in Messages /\ GoodMail(settingsKnown, err)
  BY ErrorMail DEF SaveInv, GoodJob, Job
<1>3. settingsInbox \in [Panels -> Seq(Messages)]
  BY DEF SaveInv, MailInv
<1>4. \A p : Rejections(j, p) = IF p \in j.for THEN <<err>> ELSE <<>>
  BY DEF Rejections
<1> HIDE DEF err
<1>5. \A p \in Panels : Append(settingsInbox[p], err) = settingsInbox[p] \o <<err>> /\ settingsInbox[p] = settingsInbox[p] \o <<>>
  BY <1>2, <1>3, AppendIsConcat, ConcatEmptySeq
<1>6. \A p \in Panels : (IF p \in j.for THEN Append(settingsInbox[p], err) ELSE settingsInbox[p]) = settingsInbox[p] \o Rejections(j, p)
  BY <1>4, <1>5
<1>7. \A p \in Panels : Rejections(j, p) \in Seq(Messages)
  <2>1. <<err>> \in Seq(Messages) /\ <<>> \in Seq(Messages)
    BY <1>2
  <2> QED  BY <2>1, <1>4
<1> QED  BY <1>1, <1>2, <1>6, <1>7 DEF err

LEMMA RejectKeeps ==
  ASSUME SaveInv, NEW j \in settingsJobs, Sync!Reject(j)
  PROVE  SaveInv'
<1> DEFINE news == [p \in Panels |-> Rejections(j, p)]
<1>1. settingsJobs' = settingsJobs \ {j} /\ UNCHANGED <<settingsDisk, settingsPanel, settingsFollow, settingsChanged, settingsTouched, settingsGaveUp, settingsKnown, settingsEdits, settingsReloads>>
  BY DEF Sync!Reject
<1>2. HostStep
  BY <1>1 DEF HostStep
<1>3. news \in [Panels -> Seq(Messages)] /\ settingsInbox' = [p \in Panels |-> settingsInbox[p] \o news[p]]
  BY RejectSends
<1>4. \A p \in Panels : \A i \in DOMAIN news[p] : GoodMail(settingsKnown, news[p][i])
  <2>1. \A p \in Panels : \A i \in DOMAIN Rejections(j, p) : Rejections(j, p)[i] = Sync!Error(j, "error")
    BY DEF Rejections
  <2> QED  BY <2>1, RejectSends
<1> HIDE DEF news
<1>8. MailInv'
  BY <1>2, <1>3, <1>4, HostRests, Sent
<1> QED  BY <1>1, <1>2, <1>8, HostRests, GoneOff DEF SaveInv

Published(j, p) == <<Sync!Snapshot(j, IF p \in j.for THEN j.id ELSE 0)>>
LEMMA PublishSends ==
  ASSUME SaveInv, NEW j \in settingsJobs, Sync!Publish(j)
  PROVE  /\ settingsInbox' = [p \in Panels |-> settingsInbox[p] \o Published(j, p)]
         /\ \A p \in Panels : Published(j, p) \in Seq(Messages) /\ \A i \in DOMAIN Published(j, p) : GoodMail(settingsKnown, Published(j, p)[i])
<1> DEFINE snap(p) == Sync!Snapshot(j, IF p \in j.for THEN j.id ELSE 0)
<1>1. settingsInbox' = [p \in Panels |-> Append(settingsInbox[p], snap(p))]
  BY DEF Sync!Publish
<1>3. j.s \in Sync!Sections /\ j.id \in Nat /\ GoodSnap(settingsKnown, j.s, j)
  BY DEF SaveInv, GoodJob, Job, Sync!Publish
<1>4. \A p \in Panels : snap(p) \in Messages /\ GoodMail(settingsKnown, snap(p))
  <2> TAKE p \in Panels
  <2>1. PICK id \in Nat : id = IF p \in j.for THEN j.id ELSE 0
    BY <1>3
  <2>2. Sync!Snapshot(j, id) \in Messages /\ GoodMail(settingsKnown, Sync!Snapshot(j, id))
    BY <1>3, SnapMail
  <2> QED  BY <2>1, <2>2
<1>5. settingsInbox \in [Panels -> Seq(Messages)]
  BY DEF SaveInv, MailInv
<1>6. \A p : Published(j, p) = <<snap(p)>>
  BY DEF Published
<1> HIDE DEF snap
<1>7. \A p \in Panels : Append(settingsInbox[p], snap(p)) = settingsInbox[p] \o <<snap(p)>>
  BY <1>4, <1>5, AppendIsConcat
<1>8. \A p \in Panels : Append(settingsInbox[p], snap(p)) = settingsInbox[p] \o Published(j, p)
  BY <1>6, <1>7
<1>9. \A p \in Panels : Published(j, p) \in Seq(Messages) /\ \A i \in DOMAIN Published(j, p) : GoodMail(settingsKnown, Published(j, p)[i])
  <2> TAKE p \in Panels
  <2>1. PICK m : m = snap(p)
    OBVIOUS
  <2>2. m \in Messages /\ GoodMail(settingsKnown, m) /\ Published(j, p) = <<m>>
    BY <2>1, <1>4, <1>6
  <2>3. <<m>> \in Seq(Messages) /\ \A i \in DOMAIN <<m>> : <<m>>[i] = m
    BY <2>2
  <2> QED  BY <2>2, <2>3
<1> QED  BY <1>1, <1>8, <1>9

LEMMA PublishKeeps ==
  ASSUME SaveInv, NEW j \in settingsJobs, Sync!Publish(j)
  PROVE  SaveInv'
<1> DEFINE news == [p \in Panels |-> Published(j, p)]
<1>1. settingsJobs' = settingsJobs \ {j} /\ UNCHANGED <<settingsDisk, settingsPanel, settingsFollow, settingsChanged, settingsTouched, settingsGaveUp, settingsKnown, settingsEdits, settingsReloads>>
  BY DEF Sync!Publish
<1>2. HostStep
  BY <1>1 DEF HostStep
<1>3. /\ news \in [Panels -> Seq(Messages)] /\ settingsInbox' = [p \in Panels |-> settingsInbox[p] \o news[p]]
      /\ \A p \in Panels : \A i \in DOMAIN news[p] : GoodMail(settingsKnown, news[p][i])
  BY PublishSends
<1> HIDE DEF news
<1>8. MailInv'
  BY <1>2, <1>3, HostRests, Sent
<1> QED  BY <1>1, <1>2, <1>8, HostRests, GoneOff DEF SaveInv

LEMMA CommittingKeeps ==
  ASSUME SaveInv, NEW j \in settingsJobs, Sync!Commit(j)
  PROVE  SaveInv'
<1>1. /\ j.at = (IF j.s = "llm" THEN "commit" ELSE "save") /\ ~Sync!Emptied(j)
      /\ UNCHANGED <<settingsPanel, settingsFollow, settingsInbox, settingsTouched, settingsEdits, settingsReloads>>
  BY DEF Sync!Commit
<1>2. GoodJob(settingsTouched, settingsKnown, j)
  BY DEF SaveInv
<1>3. j.s \in Sync!Sections /\ j.kind = "update" /\ j.value \in Value(j.s) /\ j.rev \in Value(j.s)
  BY <1>1, <1>2 DEF GoodJob
<1>4. CASE settingsDisk[j.s] = j.rev
  <2> DEFINE k == [j EXCEPT !.at = "publish", !.rev = j.value]
  <2>1. /\ settingsDisk' = [settingsDisk EXCEPT ![j.s] = j.value] /\ settingsChanged' = settingsChanged \cup {j.s}
        /\ settingsKnown' = settingsKnown \cup {id \in ConfigIds : settingsDisk'["configs"][id] # 0}
        /\ settingsGaveUp' = settingsGaveUp \cup {<<p, "llm">> : p \in {q \in Panels : Sync!BroughtBy(j, q)}}
        /\ settingsJobs' = (settingsJobs \ {j}) \cup {k}
    BY <1>4 DEF Sync!Commit
  <2>2. HostStep
    BY <1>1, <2>1 DEF HostStep
  <2>3. /\ k \in Job(j.s) /\ k.kind = j.kind /\ k.for = j.for /\ k.s = j.s /\ k.at = "publish"
        /\ k.value = j.value /\ k.rev = j.value /\ k.id = j.id
    BY <1>2, <1>3 DEF GoodJob, Job, Maybe
  <2>4. /\ settingsDisk' \in [Sync!Sections -> Value("configs") \cup Value("llm")]
        /\ \A s \in Sync!Sections : settingsDisk'[s] = IF s = j.s THEN j.value ELSE settingsDisk[s]
    BY <1>3, <2>1 DEF SaveInv, DiskInv, Sync!Sections
  <2>5. j.s = "configs" => Known(settingsKnown', j.value)
    BY <2>1, <2>4, <1>3 DEF Known
  <2>6. GoodSnap(settingsKnown', k.s, k)
    BY <1>3, <2>3, <2>5 DEF GoodSnap
  <2>7. GoodJob(settingsTouched', settingsKnown', j)
    BY <1>2, <2>2, HostRests
  <2> HIDE DEF k
  <2>8. GoodJob(settingsTouched', settingsKnown', k)
    BY <1>3, <2>3, <2>6, <2>7 DEF GoodJob
  <2>9. \A i \in settingsJobs' : GoodJob(settingsTouched', settingsKnown', i)
    BY <2>1, <2>2, <2>8, GoneOn
  <2>10. DiskInv'
    <3>1. \A s \in Sync!Sections : settingsDisk'[s] \in Value(s)
      BY <1>3, <2>4 DEF SaveInv, DiskInv
    <3>2. \E id \in ConfigIds : settingsDisk'["configs"][id] # 0
      BY <1>1, <2>4 DEF SaveInv, DiskInv, Sync!Emptied, Sync!Sections
    <3>3. Known(settingsKnown', settingsDisk'["configs"])
      BY <2>1 DEF Known
    <3> QED  BY <2>4, <3>1, <3>2, <3>3 DEF DiskInv
  <2>11. RestTypes'
    <3>1. {<<p, "llm">> : p \in {q \in Panels : Sync!BroughtBy(j, q)}} \subseteq Panels \X Sync!Sections
      BY DEF Sync!Sections
    <3>2. settingsGaveUp' \subseteq Panels \X Sync!Sections
      BY <2>1, <3>1 DEF SaveInv, RestTypes
    <3>3. settingsChanged' \subseteq Sync!Sections /\ settingsKnown' \subseteq ConfigIds
      BY <1>3, <2>1 DEF SaveInv, RestTypes
    <3> QED  BY <1>1, <3>2, <3>3 DEF SaveInv, RestTypes
  <2> QED  BY <1>1, <2>2, <2>9, <2>10, <2>11, HostRests DEF SaveInv
<1>5. CASE settingsDisk[j.s] # j.rev
  <2> DEFINE k == [j EXCEPT !.at = "read"]
  <2>1. settingsJobs' = (settingsJobs \ {j}) \cup {k} /\ UNCHANGED <<settingsDisk, settingsChanged, settingsKnown, settingsGaveUp>>
    BY <1>5 DEF Sync!Commit
  <2>2. HostStep
    BY <1>1, <2>1 DEF HostStep
  <2>3. /\ k \in Job(j.s) /\ k.kind = j.kind /\ k.for = j.for /\ k.s = j.s /\ k.at = "read"
    BY <1>2 DEF GoodJob, Job
  <2> HIDE DEF k
  <2>4. GoodJob(settingsTouched, settingsKnown, k)
    BY <1>2, <2>3 DEF GoodJob
  <2>5. GoodJob(settingsTouched', settingsKnown', k)
    BY <2>2, <2>4, HostRests
  <2> QED  BY <1>1, <2>1, <2>2, <2>5, HostRests, GoneOn DEF SaveInv
<1> QED  BY <1>4, <1>5

-----------------------------------------------------------------------------
(* A panel handles a message.                                                *)

LEMMA AsStoredGood ==
  ASSUME NEW kn, NEW m, m.s \in Sync!Sections, GoodSnap(kn, m.s, m)
  PROVE  Sync!AsStored(m) \in [value : Value(m.s), rev : Value(m.s)] /\ GoodSnap(kn, m.s, Sync!AsStored(m))
         /\ Sync!AsStored(m).value = m.value /\ Sync!AsStored(m).rev = m.rev
  BY DEF Sync!AsStored, GoodSnap

\* What a message does to its section.
Handled(p, m) ==
  LET c == settingsPanel[p][m.s]
  IN CASE m.code = "snapshot" ->
            IF Sync!OwnSave(p, m) THEN Sync!Acknowledged(p, m.s, c, Sync!AsStored(m)) ELSE Sync!External(p, m.s, c, Sync!AsStored(m))
       [] m.code = "conflict" /\ Sync!OwnSave(p, m) -> Sync!Refused(p, m.s, c)
       [] m.code = "error" /\ Sync!OwnSave(p, m) ->
            [c |-> [c EXCEPT !.sent = Sync!Nil, !.loading = FALSE, !.failed = TRUE], jobs |-> {}]
       [] OTHER -> [c |-> [c EXCEPT !.loading = FALSE], jobs |-> {}]
Rejected(c) == [c EXCEPT !.sent = Sync!Nil, !.loading = FALSE, !.failed = TRUE]
Unloaded(c) == [c EXCEPT !.loading = FALSE]

\* The ways in which a message is handled.
LEMMA HandledIs ==
  ASSUME NEW p, NEW m, m \in Messages, NEW c, c = settingsPanel[p][m.s]
  PROVE  \/ m.code = "snapshot" /\ Sync!OwnSave(p, m) /\ c.sent # Sync!Nil /\ Handled(p, m) = Sync!Acknowledged(p, m.s, c, Sync!AsStored(m))
         \/ m.code = "snapshot" /\ ~Sync!OwnSave(p, m) /\ Handled(p, m) = Sync!External(p, m.s, c, Sync!AsStored(m))
         \/ m.code = "conflict" /\ Sync!OwnSave(p, m) /\ c.sent # Sync!Nil /\ Handled(p, m) = Sync!Refused(p, m.s, c)
         \/ m.code = "error" /\ Sync!OwnSave(p, m) /\ c.sent # Sync!Nil /\ Handled(p, m) = [c |-> Rejected(c), jobs |-> {}]
         \/ m.code # "snapshot" /\ ~Sync!OwnSave(p, m) /\ Handled(p, m) = [c |-> Unloaded(c), jobs |-> {}]
<1>1. m.code \in {"snapshot", "conflict", "error"}
  BY DEF Messages, Message
<1>2. Sync!OwnSave(p, m) => c.sent # Sync!Nil
  BY DEF Sync!OwnSave
<1>3. CASE m.code = "snapshot"
  BY <1>2, <1>3 DEF Handled
<1>4. CASE m.code = "conflict"
  BY <1>2, <1>4 DEF Handled, Unloaded
<1>5. CASE m.code = "error"
  BY <1>2, <1>5 DEF Handled, Unloaded, Rejected
<1> QED  BY <1>1, <1>3, <1>4, <1>5

RejectedTo(d, c) ==
  /\ d.form = c.form /\ d.base = c.base /\ d.rev = c.rev /\ d.sent = Sync!Nil
  /\ d.queued = c.queued /\ d.staged = c.staged /\ d.conflict = c.conflict /\ d.timer = c.timer
LEMMA RejectedGood ==
  ASSUME NEW t, NEW kn, NEW s \in Sync!Sections, NEW c, Good(t, kn, s, c), c.sent # Sync!Nil
  PROVE  Good(t, kn, s, Rejected(c)) /\ RejectedTo(Rejected(c), c) /\ Rejected(c).base # Sync!Nil
<1> DEFINE d == Rejected(c)
<1>1. d \in Section(s) /\ RejectedTo(d, c)
  BY DEF Good, Section, Maybe, Rejected, RejectedTo
<1> HIDE DEF d
<1>2. s = "configs" => Table(t, kn, d)
  BY <1>1 DEF Good, Table, RejectedTo
<1> QED  BY <1>1, <1>2 DEF Good, Blank, RejectedTo, d

LEMMA HandledGood ==
  ASSUME SaveInv, NEW p \in Panels, NEW m, m \in Messages, GoodMail(settingsKnown, m)
  PROVE  LET r == Handled(p, m) IN
         /\ Good(settingsTouched[p], settingsKnown, m.s, r.c) /\ GoodJobs(settingsTouched[p], p, m.s, r.jobs)
         /\ (Active(r.c) => Active(settingsPanel[p][m.s])) /\ (settingsPanel[p][m.s].base # Sync!Nil => r.c.base # Sync!Nil)
         /\ m.s \in Sync!Sections
<1> DEFINE c == settingsPanel[p][m.s]
           r == Handled(p, m)
           w == Sync!AsStored(m)
<1>1. m.s \in Sync!Sections
  BY DEF Messages, Message, Sync!Sections
<1>2. c \in Section(m.s) /\ Good(settingsTouched[p], settingsKnown, m.s, c)
  BY <1>1 DEF SaveInv, PanelInv, Good
<1>3. m.code = "snapshot" =>
        w \in [value : Value(m.s), rev : Value(m.s)] /\ GoodSnap(settingsKnown, m.s, w)
  BY <1>1, AsStoredGood DEF GoodMail
<1> HIDE DEF w, c
<1>4. CASE m.code = "snapshot" /\ c.sent # Sync!Nil /\ r = Sync!Acknowledged(p, m.s, c, w)
  <2> HIDE DEF r
  <2>1. Good(settingsTouched[p], settingsKnown, m.s, r.c) /\ GoodJobs(settingsTouched[p], p, m.s, r.jobs) /\ r.c.base # Sync!Nil
    BY <1>1, <1>2, <1>3, <1>4, AcknowledgedGood
  <2> QED  BY <2>1, <1>1, <1>4 DEF Active, r, c
<1>5. CASE m.code = "snapshot" /\ r = Sync!External(p, m.s, c, w)
  <2> HIDE DEF r
  <2>1. Good(settingsTouched[p], settingsKnown, m.s, r.c) /\ GoodJobs(settingsTouched[p], p, m.s, r.jobs) /\ r.c.base # Sync!Nil
    BY <1>1, <1>2, <1>3, <1>5, ExternalGood
  <2>2. Active(r.c) => Active(c)
    BY <1>1, <1>2, <1>3, <1>5, ExternalActive
  <2> QED  BY <2>1, <2>2, <1>1 DEF r, c
<1>6. CASE c.sent # Sync!Nil /\ r = Sync!Refused(p, m.s, c)
  <2> HIDE DEF r
  <2>1. Good(settingsTouched[p], settingsKnown, m.s, r.c) /\ GoodJobs(settingsTouched[p], p, m.s, r.jobs) /\ r.c.base # Sync!Nil
    BY <1>1, <1>2, <1>6, RefusedGood
  <2> QED  BY <2>1, <1>1, <1>6 DEF Active, r, c
<1>7. CASE c.sent # Sync!Nil /\ r = [c |-> Rejected(c), jobs |-> {}]
  <2> HIDE DEF r
  <2>1. Good(settingsTouched[p], settingsKnown, m.s, Rejected(c)) /\ Rejected(c).base # Sync!Nil
    BY <1>1, <1>2, <1>7, RejectedGood
  <2>2. r.c = Rejected(c) /\ r.jobs = {}
    BY <1>7
  <2> QED  BY <2>1, <2>2, <1>1, <1>7 DEF Active, GoodJobs, r, c
<1>8. CASE r = [c |-> Unloaded(c), jobs |-> {}]
  <2> HIDE DEF r
  <2>1. Unloaded(c) \in Section(m.s) /\ Quietly(Unloaded(c), c)
    BY <1>1, <1>2, UnloadedIs DEF Unloaded
  <2>2. Good(settingsTouched[p], settingsKnown, m.s, Unloaded(c))
    BY <1>1, <1>2, <2>1, QuietlyGood
  <2>3. r.c = Unloaded(c) /\ r.jobs = {}
    BY <1>8
  <2> QED  BY <2>1, <2>2, <2>3, <1>1 DEF Active, GoodJobs, Quietly, r, c
<1> QED  BY <1>4, <1>5, <1>6, <1>7, <1>8, HandledIs DEF c, w

Following(p) == [settingsPanel[p]["llm"] EXCEPT !.form = Sync!Choice(settingsFollow[p])]
Flush(p) == Sync!Enqueue(p, "llm", Following(p))

LEMMA ReceiveIs ==
  ASSUME NEW p, NEW m, m = Head(settingsInbox[p]), Sync!Receive(p)
  PROVE  /\ settingsInbox[p] # <<>> /\ settingsInbox' = [settingsInbox EXCEPT ![p] = Tail(@)]
         /\ settingsGaveUp' = (IF m.code = "error" THEN settingsGaveUp \cup {<<p, m.s>>} ELSE settingsGaveUp)
         /\ UNCHANGED <<settingsDisk, settingsChanged, settingsTouched, settingsKnown, settingsEdits, settingsReloads>>
         /\ \/ /\ Sync!Flushes(p, m)
               /\ settingsPanel' = [settingsPanel EXCEPT ![p] = [s \in Sync!Sections |-> IF s = "configs" THEN Handled(p, m).c ELSE Flush(p).c]]
               /\ settingsJobs' = settingsJobs \cup Handled(p, m).jobs \cup Flush(p).jobs
               /\ settingsFollow' = [settingsFollow EXCEPT ![p] = 0]
            \/ ~Sync!Flushes(p, m) /\ Sync!Do(p, m.s, Handled(p, m)) /\ UNCHANGED settingsFollow
  BY DEF Sync!Receive, Handled, Following, Flush

LEMMA HeadIs ==
  ASSUME MailInv, NEW p \in Panels, settingsInbox[p] # <<>>, NEW m, m = Head(settingsInbox[p])
  PROVE  /\ m \in Messages /\ GoodMail(settingsKnown, m) /\ 1 \in DOMAIN settingsInbox[p] /\ m = settingsInbox[p][1]
         /\ Tail(settingsInbox[p]) \in Seq(Messages) /\ DOMAIN settingsInbox[p] = 1..Len(settingsInbox[p]) /\ Len(settingsInbox[p]) \in Nat \ {0}
         /\ DOMAIN Tail(settingsInbox[p]) = 1..Len(settingsInbox[p]) - 1
         /\ \A i \in 1..Len(settingsInbox[p]) - 1 : Tail(settingsInbox[p])[i] = settingsInbox[p][i + 1]
<1>1. settingsInbox[p] \in Seq(Messages)
  BY DEF MailInv
<1>2. /\ Head(settingsInbox[p]) \in Messages /\ Tail(settingsInbox[p]) \in Seq(Messages)
      /\ Len(Tail(settingsInbox[p])) = Len(settingsInbox[p]) - 1
      /\ \A i \in 1..Len(Tail(settingsInbox[p])) : Tail(settingsInbox[p])[i] = settingsInbox[p][i + 1]
      /\ Head(settingsInbox[p]) = settingsInbox[p][1]
  BY <1>1, HeadTailProperties
<1>3. Len(settingsInbox[p]) \in Nat \ {0} /\ DOMAIN settingsInbox[p] = 1..Len(settingsInbox[p])
  BY <1>1, EmptySeq, LenProperties
<1>4. DOMAIN Tail(settingsInbox[p]) = 1..Len(settingsInbox[p]) - 1
  BY <1>2, LenProperties
<1>5. 1 \in DOMAIN settingsInbox[p]
  BY <1>3
<1> QED  BY <1>2, <1>3, <1>4, <1>5 DEF MailInv

LEMMA FlushGood ==
  ASSUME SaveInv, NEW p \in Panels, NEW m, Sync!Flushes(p, m)
  PROVE  /\ Good(settingsTouched[p], settingsKnown, "llm", Following(p)) /\ Following(p).base # Sync!Nil
         /\ Good(settingsTouched[p], settingsKnown, "llm", Flush(p).c) /\ GoodJobs(settingsTouched[p], p, "llm", Flush(p).jobs)
         /\ Flush(p).c.base # Sync!Nil /\ FormTo(Following(p), settingsPanel[p]["llm"])
         /\ Following(p).form = Sync!Choice(settingsFollow[p]) /\ Following(p) \in Section("llm")
<1> DEFINE c == settingsPanel[p]["llm"]
<1>0. "configs" \in Sync!Sections /\ "llm" \in Sync!Sections
  BY DEF Sync!Sections
<1>1. m.s = "configs" /\ settingsPanel[p]["configs"].sent # Sync!Nil /\ settingsFollow[p] \in ConfigIds
  BY DEF Sync!Flushes, Sync!OwnSave, SaveInv, RestTypes
<1>2. c \in Section("llm") /\ Good(settingsTouched[p], settingsKnown, "llm", c) /\ c.base # Sync!Nil
  BY <1>0, <1>1 DEF SaveInv, PanelInv, Good, Active
<1>3. Following(p) \in Section("llm") /\ FormTo(Following(p), c) /\ Following(p).form = Sync!Choice(settingsFollow[p])
  BY <1>1, <1>2 DEF Section, Value, Sync!Choice, FormTo, Following
<1>4. Good(settingsTouched[p], settingsKnown, "llm", Following(p)) /\ Following(p).base # Sync!Nil
  BY <1>2, <1>3, FormGood DEF FormTo
<1>5. Good(settingsTouched[p], settingsKnown, "llm", Flush(p).c) /\ GoodJobs(settingsTouched[p], p, "llm", Flush(p).jobs) /\ Flush(p).c.base # Sync!Nil
  BY <1>0, <1>4, EnqueueGood DEF Flush
<1> QED  BY <1>3, <1>4, <1>5

LEMMA ReceiveKeeps ==
  ASSUME SaveInv, NEW p \in Panels, Sync!Receive(p)
  PROVE  SaveInv'
<1> DEFINE m == Head(settingsInbox[p])
           r == Handled(p, m)
           f == Flush(p)
<1>0. "configs" \in Sync!Sections /\ "llm" \in Sync!Sections /\ Sync!Sections = {"configs", "llm"}
  BY DEF Sync!Sections
<1>1. /\ settingsInbox[p] # <<>> /\ settingsInbox' = [settingsInbox EXCEPT ![p] = Tail(@)]
      /\ settingsGaveUp' = (IF m.code = "error" THEN settingsGaveUp \cup {<<p, m.s>>} ELSE settingsGaveUp)
      /\ UNCHANGED <<settingsDisk, settingsChanged, settingsTouched, settingsKnown, settingsEdits, settingsReloads>>
      /\ \/ /\ Sync!Flushes(p, m)
            /\ settingsPanel' = [settingsPanel EXCEPT ![p] = [s \in Sync!Sections |-> IF s = "configs" THEN r.c ELSE f.c]]
            /\ settingsJobs' = settingsJobs \cup r.jobs \cup f.jobs
            /\ settingsFollow' = [settingsFollow EXCEPT ![p] = 0]
         \/ ~Sync!Flushes(p, m) /\ Sync!Do(p, m.s, r) /\ UNCHANGED settingsFollow
  BY ReceiveIs
<1>2. Grows
  BY <1>1, GrowsAlways
<1>3. /\ m \in Messages /\ GoodMail(settingsKnown, m)
      /\ Tail(settingsInbox[p]) \in Seq(Messages) /\ DOMAIN settingsInbox[p] = 1..Len(settingsInbox[p])
      /\ DOMAIN Tail(settingsInbox[p]) = 1..Len(settingsInbox[p]) - 1 /\ Len(settingsInbox[p]) \in Nat \ {0}
      /\ \A i \in 1..Len(settingsInbox[p]) - 1 : Tail(settingsInbox[p])[i] = settingsInbox[p][i + 1]
  BY <1>1, HeadIs DEF SaveInv
<1> HIDE DEF m
<1>4. /\ Good(settingsTouched[p], settingsKnown, m.s, r.c) /\ GoodJobs(settingsTouched[p], p, m.s, r.jobs)
      /\ (Active(r.c) => Active(settingsPanel[p][m.s])) /\ (settingsPanel[p][m.s].base # Sync!Nil => r.c.base # Sync!Nil)
      /\ m.s \in Sync!Sections
  BY <1>3, HandledGood
<1> HIDE DEF r, f
<1>5. MailInv'
  <2>1. settingsInbox' \in [Panels -> Seq(Messages)]
    BY <1>1, <1>3 DEF SaveInv, MailInv
  <2>2. \A q \in Panels : \A i \in DOMAIN settingsInbox'[q] : \E k \in DOMAIN settingsInbox[q] : settingsInbox'[q][i] = settingsInbox[q][k]
    <3> TAKE q \in Panels
    <3>1. settingsInbox'[q] = IF q = p THEN Tail(settingsInbox[p]) ELSE settingsInbox[q]
      BY <1>1 DEF SaveInv, MailInv
    <3>2. CASE q = p
      BY <3>1, <3>2, <1>3
    <3>3. CASE q # p
      BY <3>1, <3>3
    <3> QED  BY <3>2, <3>3
  <2> QED  BY <2>1, <2>2, <1>2, MailStep DEF SaveInv
<1>6. DiskInv' /\ RestTypes'
  <2>1. settingsGaveUp' \subseteq Panels \X Sync!Sections
    BY <1>1, <1>4 DEF SaveInv, RestTypes
  <2>2. settingsFollow' \in [Panels -> ConfigIds \cup {0}]
    BY <1>1 DEF SaveInv, RestTypes
  <2> QED  BY <1>1, <2>1, <2>2 DEF SaveInv, DiskInv, RestTypes
<1>7. PanelInv' /\ \A j \in settingsJobs' : GoodJob(settingsTouched', settingsKnown', j)
  <2>1. CASE ~Sync!Flushes(p, m) /\ Sync!Do(p, m.s, r)
    <3>2. m.s = "configs" /\ Active(r.c) => settingsPanel[p]["llm"].base # Sync!Nil
      BY <1>4 DEF SaveInv, PanelInv
    <3>3. m.s = "llm" /\ settingsPanel[p]["llm"].base # Sync!Nil => r.c.base # Sync!Nil
      BY <1>4
    <3> QED  BY <1>1, <1>2, <1>4, <2>1, <3>2, <3>3, DoStep
  <2>2. CASE Sync!Flushes(p, m) /\ settingsPanel' = [settingsPanel EXCEPT ![p] = [s \in Sync!Sections |-> IF s = "configs" THEN r.c ELSE f.c]]
             /\ settingsJobs' = settingsJobs \cup r.jobs \cup f.jobs
    <3>1. Good(settingsTouched[p], settingsKnown, "llm", f.c) /\ GoodJobs(settingsTouched[p], p, "llm", f.jobs) /\ f.c.base # Sync!Nil
      BY <2>2, FlushGood DEF f
    <3>2. m.s = "configs"
      BY <2>2 DEF Sync!Flushes
    <3>3. r.c \in Section("configs") /\ f.c \in Section("llm")
      BY <1>4, <3>1, <3>2 DEF Good
    <3>4. /\ settingsPanel' \in [Panels -> [Sync!Sections -> Section("configs") \cup Section("llm")]]
          /\ \A q \in Panels : \A u \in Sync!Sections :
               settingsPanel'[q][u] = IF q = p THEN (IF u = "configs" THEN r.c ELSE f.c) ELSE settingsPanel[q][u]
      BY <2>2, <3>3, <1>0 DEF SaveInv, PanelInv
    <3>5. ASSUME NEW q \in Panels,
                 NEW u \in Sync!Sections PROVE Good(settingsTouched'[q], settingsKnown', u, settingsPanel'[q][u])
      <4>1. Good(settingsTouched[q], settingsKnown, u, settingsPanel[q][u])
        BY DEF SaveInv, PanelInv
      <4> QED  BY <4>1, <1>0, <1>1, <1>4, <3>1, <3>2, <3>4
    <3>6. ASSUME NEW q \in Panels,
                 Active(settingsPanel'[q]["configs"]) PROVE settingsPanel'[q]["llm"].base # Sync!Nil
      BY <1>0, <3>1, <3>4, <3>6 DEF SaveInv, PanelInv
    <3>7. PanelInv'
      BY <3>4, <3>5, <3>6 DEF PanelInv
    <3>8. ASSUME NEW j \in settingsJobs' PROVE GoodJob(settingsTouched', settingsKnown', j)
      <4>1. settingsReloads[p] \in Nat
        BY DEF SaveInv, RestTypes
      <4>2. CASE j \in settingsJobs
        BY <4>2, <1>2, JobsGrow DEF SaveInv
      <4>3. CASE j \in r.jobs
        BY <4>1, <4>3, <1>0, <1>1, <1>4, <3>2, AskedGood
      <4>4. CASE j \in f.jobs
        BY <4>1, <4>4, <1>0, <1>1, <3>1, AskedGood
      <4> QED  BY <2>2, <4>2, <4>3, <4>4
    <3> QED  BY <3>7, <3>8
  <2> QED  BY <1>1, <2>1, <2>2
<1> QED  BY <1>5, <1>6, <1>7 DEF SaveInv

-----------------------------------------------------------------------------
(* Every step.                                                               *)

LEMMA InitSaves ==
  ASSUME Sync!Init
  PROVE  SaveInv
<1> USE IdsAreNumbered, EditsAreCounted
<1>0. "configs" \in Sync!Sections /\ "llm" \in Sync!Sections /\ Sync!Sections = {"configs", "llm"}
  BY DEF Sync!Sections
<1>1. Sync!FirstConfig \in ConfigIds
  <2>1. PICK m \in ConfigIds : \A k \in ConfigIds : m <= k
    BY Smallest
  <2> QED  BY <2>1 DEF Sync!FirstConfig
<1>2. PICK there \in {{Sync!FirstConfig}, ConfigIds} :
        settingsDisk = [s \in Sync!Sections |-> IF s = "configs" THEN [id \in ConfigIds |-> IF id \in there THEN 1 ELSE 0]
                                   ELSE Sync!Choice(Sync!FirstConfig)]
  BY DEF Sync!Init
<1>3. settingsDisk["configs"] \in Value("configs") /\ settingsDisk["llm"] \in Value("llm") /\ settingsDisk["configs"][Sync!FirstConfig] = 1
  BY <1>0, <1>1, <1>2 DEF Value, Sync!Choice
<1>4. DiskInv
  <2>1. settingsDisk \in [Sync!Sections -> Value("configs") \cup Value("llm")]
    BY <1>0, <1>2, <1>3
  <2>2. Known(settingsKnown, settingsDisk["configs"])
    BY DEF Sync!Init, Known
  <2> QED  BY <1>0, <1>1, <1>3, <2>1, <2>2 DEF DiskInv
<1>5. ASSUME NEW p \in Panels, NEW s \in Sync!Sections
      PROVE  settingsPanel[p][s] \in Section(s) /\ Good(settingsTouched[p], settingsKnown, s, settingsPanel[p][s]) /\ ~Active(settingsPanel[p][s])
             /\ settingsPanel[p][s].base # Sync!Nil
  <2>1. settingsDisk[s] \in Value(s) /\ settingsDisk[s] # Sync!Nil
    BY <1>4, NilIsNone DEF DiskInv
  <2> DEFINE c == settingsPanel[p][s]
  <2>2. c = [Sync!Unsaved EXCEPT !.form = settingsDisk[s], !.base = settingsDisk[s], !.rev = settingsDisk[s]]
    BY DEF Sync!Init
  <2>3. /\ c \in Section(s) /\ c.form = settingsDisk[s] /\ c.base = settingsDisk[s] /\ c.rev = settingsDisk[s] /\ c.sent = Sync!Nil /\ c.queued = Sync!Nil
        /\ c.staged = Sync!Nil /\ c.conflict = FALSE /\ c.timer = FALSE
    BY <2>1, <2>2 DEF Sync!Unsaved, Section, Maybe
  <2>4. s = "configs" => Table(settingsTouched[p], settingsKnown, c)
    BY <2>3, <1>4 DEF Table, Edited, DiskInv
  <2> QED  BY <2>1, <2>3, <2>4 DEF Good, Blank, Active
<1>6. PanelInv
  <2>1. settingsPanel \in [Panels -> [Sync!Sections -> Section("configs") \cup Section("llm")]]
    <3>1. \A p \in Panels : \A s \in Sync!Sections : settingsPanel[p][s] \in Section("configs") \cup Section("llm")
      BY <1>0, <1>5
    <3>2. settingsPanel = [p \in Panels |-> [s \in Sync!Sections |-> settingsPanel[p][s]]]
      BY DEF Sync!Init
    <3> QED  BY <3>1, <3>2
  <2> QED  BY <2>1, <1>0, <1>5 DEF PanelInv
<1>7. MailInv
  <2>1. settingsInbox = [p \in Panels |-> <<>>]
    BY DEF Sync!Init
  <2>2. <<>> \in Seq(Messages)
    OBVIOUS
  <2>3. \A p \in Panels : settingsInbox[p] = <<>>
    BY <2>1
  <2>4. settingsInbox \in [Panels -> Seq(Messages)]
    BY <2>1, <2>2
  <2>5. ASSUME NEW p \in Panels, NEW i \in DOMAIN settingsInbox[p] PROVE FALSE
    BY <2>3, <2>2, LenProperties
  <2> QED  BY <2>4, <2>5 DEF MailInv
<1>8. RestTypes
  <2>1. /\ settingsFollow = [p \in Panels |-> 0] /\ settingsChanged = {} /\ settingsTouched = [p \in Panels |-> {}] /\ settingsGaveUp = {}
        /\ settingsKnown = {id \in ConfigIds : settingsDisk["configs"][id] # 0} /\ settingsEdits = 0 /\ settingsReloads = [p \in Panels |-> 0]
    BY DEF Sync!Init
  <2>2. settingsTouched \in [Panels -> SUBSET (({"configs"} \X ConfigIds) \cup ({"llm"} \X {"active"}))]
    BY <2>1
  <2>3. settingsKnown \subseteq ConfigIds
    BY <2>1
  <2> QED  BY <2>1, <2>2, <2>3 DEF RestTypes
<1>9. settingsJobs = {}
  BY DEF Sync!Init
<1> QED  BY <1>4, <1>6, <1>7, <1>8, <1>9 DEF SaveInv

LEMMA NextSaves ==
  ASSUME ~EditsWhileLoading, SaveInv, [Sync!Next]_(Sync!vars)
  PROVE  SaveInv'
<1>1. CASE UNCHANGED Sync!vars
  BY <1>1 DEF Sync!vars, SaveInv, DiskInv, PanelInv, MailInv, RestTypes
<1>2. CASE Sync!Users
  <2>1. CASE Sync!Elsewhere
    BY <2>1, ElsewhereKeeps
  <2>2. ASSUME NEW p \in Panels, Sync!Reload(p) PROVE SaveInv'
    BY <2>2, ReloadKeeps
  <2>3. ASSUME NEW p \in Panels, NEW id \in ConfigIds,
               Sync!Change(p, id) \/ Sync!Create(p, id) \/ Sync!Delete(p, id) \/ Sync!Select(p, id)
        PROVE  SaveInv'
    BY <2>3, ChangeKeeps, CreateKeeps, DeleteKeeps, SelectKeeps
  <2> QED  BY <1>2, <2>1, <2>2, <2>3 DEF Sync!Users
<1>3. CASE Sync!Choices
  BY <1>3, KeepMineKeeps, TakeTheirsKeeps DEF Sync!Choices
<1>4. CASE Sync!Host
  BY <1>4, WatcherKeeps, ReadKeeps, AnswerKeeps, LooksUpKeeps, RejectKeeps, CommittingKeeps,
     PublishKeeps DEF Sync!Host
<1>5. CASE Sync!Deliveries
  BY <1>5, AutoSaveKeeps, ReceiveKeeps DEF Sync!Deliveries
<1> QED  BY <1>1, <1>2, <1>3, <1>4, <1>5 DEF Sync!Next

LEMMA UneditedStep ==
  ASSUME SaveInv
  PROVE  Sync!UneditedKeptStep
<1> SUFFICES ASSUME NEW j \in settingsJobs, Sync!Commit(j), NEW k \in ConfigIds, settingsDisk'["configs"][k] # settingsDisk["configs"][k]
             PROVE  \E p \in j.for : <<"configs", k>> \in settingsTouched[p]
  BY DEF Sync!UneditedKeptStep
<1>1. settingsDisk[j.s] = j.rev /\ settingsDisk' = [settingsDisk EXCEPT ![j.s] = j.value]
  BY DEF Sync!Commit
<1>2. j.s = "configs"
  BY <1>1 DEF SaveInv, DiskInv
<1>3. settingsDisk'["configs"] = j.value /\ settingsDisk["configs"] = j.rev
  BY <1>1, <1>2 DEF SaveInv, DiskInv, Sync!Sections
<1>4. \E p \in j.for : Edited(settingsTouched[p], j.value, j.rev)
  BY <1>2 DEF Sync!Commit, SaveInv, GoodJob
<1> QED  BY <1>3, <1>4 DEF Edited

LEMMA FollowsStep ==
  ASSUME SaveInv, [Sync!Next]_(Sync!vars)
  PROVE  Sync!ChoiceFollowsStep
<1> SUFFICES ASSUME NEW p \in Panels, settingsInbox'[p] # settingsInbox[p], settingsFollow[p] # 0, settingsFollow'[p] = 0
             PROVE  settingsFollow[p] \in settingsKnown
  BY DEF Sync!ChoiceFollowsStep
<1>1. settingsInbox' # settingsInbox /\ settingsFollow' # settingsFollow
  OBVIOUS
<1>2. ~Sync!Users /\ ~Sync!Choices /\ ~UNCHANGED Sync!vars
  BY <1>1 DEF Sync!vars, Sync!Users, Sync!Choices, Sync!Elsewhere, Sync!Reload, Sync!Change, Sync!Create,
     Sync!Delete, Sync!Select, Sync!Editing, Sync!KeepMine, Sync!TakeTheirs
<1>3. ~Sync!Host
  BY <1>1 DEF Sync!Host, Sync!WatcherFires, Sync!Read, Sync!Answer, Sync!LooksUp, Sync!Reject, Sync!Commit,
     Sync!Publish
<1>4. PICK q \in Panels : Sync!Receive(q)
  BY <1>1, <1>2, <1>3 DEF Sync!Next, Sync!Deliveries, Sync!AutoSave
<1>5. PICK m : m = Head(settingsInbox[q])
  OBVIOUS
<1>6. /\ settingsInbox[q] # <<>> /\ settingsInbox' = [settingsInbox EXCEPT ![q] = Tail(@)] /\ Sync!Flushes(q, m)
  BY <1>1, <1>4, <1>5, ReceiveIs
<1>7. q = p
  BY <1>6 DEF SaveInv, MailInv
<1>8. GoodMail(settingsKnown, m)
  BY <1>5, <1>6, HeadIs DEF SaveInv
<1>9. m.code = "snapshot" /\ m.s = "configs" /\ m.value[settingsFollow[p]] # 0
  BY <1>6, <1>7 DEF Sync!Flushes
<1>10. settingsFollow[p] \in ConfigIds
  BY DEF SaveInv, RestTypes
<1> QED  BY <1>8, <1>9, <1>10 DEF GoodMail, GoodSnap, Known

-----------------------------------------------------------------------------
(* Edits: what the operators on a section leave of them.                     *)

PumpedTo(d, c) ==
  /\ d.form = c.form /\ d.base = c.base /\ d.rev = c.rev /\ d.staged = c.staged
  /\ d.conflict = c.conflict /\ d.timer = c.timer
  /\ \/ Ready(c) /\ c.queued # Sync!Nil /\ d.sent = c.queued /\ d.queued = Sync!Nil
     \/ ~(Ready(c) /\ c.queued # Sync!Nil) /\ d.sent = c.sent /\ d.queued = c.queued
\* What is asked of the host: that a new save is made, that the section is read, or nothing.
Effect(p, s, r) ==
  \/ r.c.sent # Sync!Nil /\ r.jobs = {Sync!Update(p, s, r.c.sent, r.c.rev)}
  \/ r.c.sent = Sync!Nil /\ r.jobs \subseteq {Sync!Get({p}, s)}

LEMMA PumpTo ==
  ASSUME NEW p, NEW s \in Sync!Sections, NEW c \in Section(s), c.base # Sync!Nil
  PROVE  /\ PumpedTo(Sync!Pump(p, s, c).c, c)
         /\ c.sent = Sync!Nil => Effect(p, s, Sync!Pump(p, s, c))
         /\ c.sent # Sync!Nil => Sync!Pump(p, s, c).jobs = {}
<1>1. CASE Ready(c) /\ c.queued # Sync!Nil /\ Sync!Pump(p, s, c) = [c |-> Sending(c), jobs |-> {Sync!Update(p, s, c.queued, c.rev)}]
  <2>1. PumpedTo(Sending(c), c)
    BY <1>1 DEF PumpedTo, Sending, Section
  <2>2. Sync!Pump(p, s, c).c = Sending(c) /\ Sync!Pump(p, s, c).jobs = {Sync!Update(p, s, c.queued, c.rev)}
    BY <1>1
  <2>3. Sending(c).sent = c.queued /\ Sending(c).rev = c.rev
    BY <2>1, <1>1 DEF PumpedTo
  <2> QED  BY <2>1, <2>2, <2>3, <1>1 DEF Effect, Ready
<1>2. CASE ~(Ready(c) /\ c.queued # Sync!Nil) /\ Sync!Pump(p, s, c) = [c |-> c, jobs |-> {}]
  <2>1. Sync!Pump(p, s, c).c = c /\ Sync!Pump(p, s, c).jobs = {}
    BY <1>2
  <2> QED  BY <2>1, <1>2 DEF PumpedTo, Effect
<1> QED  BY <1>1, <1>2, PumpIs

\* An edit before a save that is ready is made.
Edits(c) == c.base # Sync!Nil /\ c.form # c.base => c.timer \/ Busy(c)
Before(x, c) ==
  \/ x
  \/ /\ Edits(c)
     /\ Ready(c) /\ c.queued # Sync!Nil => c.queued = c.form
     /\ c.sent # Sync!Nil /\ c.form # c.sent => c.timer \/ c.queued # Sync!Nil
     /\ c.staged # Sync!Nil /\ c.sent = Sync!Nil => c.timer \/ c.queued # Sync!Nil
LEMMA PumpEdit ==
  ASSUME NEW x, NEW c, NEW d, Before(x, c), PumpedTo(d, c)
  PROVE  EditOk(x, d)
  BY DEF Before, PumpedTo, EditOk, Edits, Busy, Ready

LEMMA EditBefore ==
  ASSUME NEW x, NEW c, EditOk(x, c)
  PROVE  Before(x, c) /\ (x \/ Edits(c))
  BY DEF Before, EditOk, Edits

LEMMA PumpBusy ==
  ASSUME NEW c, NEW d, PumpedTo(d, c), Busy(c)
  PROVE  Busy(d)
  BY DEF PumpedTo, Busy

EnqueuedTo(p, s, c, r) ==
  /\ r.c.form = c.form /\ r.c.base = c.base /\ r.c.rev = c.rev /\ r.c.staged = c.staged
  /\ r.c.conflict = c.conflict /\ r.c.timer = c.timer
  /\ Busy(r.c) /\ \A x : EditOk(x, r.c)
  /\ \/ Ready(c) /\ r.c.sent # Sync!Nil /\ Effect(p, s, r)
     \/ ~Ready(c) /\ r.c.sent = c.sent /\ r.jobs = {} /\ r.c.queued # Sync!Nil
LEMMA EnqueueTo ==
  ASSUME NEW p, NEW s \in Sync!Sections, NEW c \in Section(s), c.base # Sync!Nil
  PROVE  EnqueuedTo(p, s, c, Sync!Enqueue(p, s, c))
<1> DEFINE e == [c EXCEPT !.queued = c.form, !.failed = FALSE]
           r == Sync!Enqueue(p, s, c)
           d == r.c
<1>1. /\ e.base = c.base /\ e.rev = c.rev /\ e.form = c.form /\ e.sent = c.sent /\ e.queued = c.form
      /\ e.staged = c.staged /\ e.conflict = c.conflict /\ e.timer = c.timer /\ e \in Section(s)
  BY DEF Section, Maybe
<1>2. r = Sync!Pump(p, s, e)
  BY DEF Sync!Enqueue
<1>3. c.form # Sync!Nil
  BY NilIsNone DEF Section
<1> HIDE DEF e
<1>4. /\ PumpedTo(d, e) /\ (e.sent = Sync!Nil => Effect(p, s, r)) /\ (e.sent # Sync!Nil => r.jobs = {})
  BY <1>1, <1>2, PumpTo
<1>5. \A x : EditOk(x, d)
  BY <1>1, <1>3, <1>4 DEF PumpedTo, EditOk, Busy, Ready
<1>6. Busy(d)
  BY <1>1, <1>3, <1>4 DEF PumpedTo, Busy
<1>7. ~Ready(c) => r.jobs = {}
  <2>1. CASE ~Ready(c)
    <3>1. ~(Ready(e) /\ e.queued # Sync!Nil)
      BY <1>1, <2>1 DEF Ready
    <3> QED  BY <1>1, <1>2, <3>1, PumpIs
  <2> QED  BY <2>1
<1> HIDE DEF r
<1>8. \/ Ready(c) /\ d.sent # Sync!Nil /\ Effect(p, s, r)
      \/ ~Ready(c) /\ d.sent = c.sent /\ r.jobs = {} /\ d.queued # Sync!Nil
  BY <1>1, <1>3, <1>4, <1>7 DEF PumpedTo, Ready
<1>9. d.form = c.form /\ d.base = c.base /\ d.rev = c.rev /\ d.staged = c.staged /\ d.conflict = c.conflict /\ d.timer = c.timer
  BY <1>1, <1>4 DEF PumpedTo
<1> QED  BY <1>5, <1>6, <1>8, <1>9 DEF r, EnqueuedTo

LEMMA MergeSame ==
  ASSUME NEW s \in Sync!Sections, NEW b \in Value(s), NEW r \in Value(s)
  PROVE  Sync!Merge(b, b, r) = r
  BY DEF Sync!Merge, Value

ResolvedTo(d, c, m, w) ==
  /\ d.base # Sync!Nil
  /\ \/ ~w /\ StagedTo(d, c, m) /\ c.form # c.base
     \/ /\ d.rev = m.rev /\ d.base = m.value /\ d.staged = Sync!Nil /\ d.conflict = FALSE /\ d.timer = c.timer
        /\ d.queued = Sync!Nil /\ (c.form = c.base => d.form = d.base)
        /\ IF c.queued = Sync!Nil THEN d.sent = Sync!Nil ELSE d.sent = d.form
LEMMA ResolveTo ==
  ASSUME NEW t, NEW kn, NEW p, NEW s \in Sync!Sections, NEW c, Good(t, kn, s, c),
         NEW m \in [value : Value(s), rev : Value(s)], GoodSnap(kn, s, m), NEW w, c.base # Sync!Nil,
         c.sent = Sync!Nil
  PROVE  Effect(p, s, Sync!Resolve(p, s, c, m, w)) /\ ResolvedTo(Sync!Resolve(p, s, c, m, w).c, c, m, w)
<1> DEFINE f == Sync!Merge(c.base, c.form, m.value)
           e == Rebased(c, m, f)
           r == Sync!Resolve(p, s, c, m, w)
           d == r.c
<1>1. c \in Section(s) /\ c.base \in Value(s) /\ c.form \in Value(s) /\ m.value \in Value(s) /\ m.rev \in Value(s)
  BY DEF Good, Section, Maybe
<1>2. f \in Value(s) /\ f # Sync!Nil /\ m.value # Sync!Nil
  BY <1>1, MergeIs, NilIsNone
<1>3. e \in Section(s) /\ RebasedTo(e, c, m, f)
  BY <1>1, <1>2, RebasedIs
<1>4. c.form = c.base => f = m.value
  BY <1>1, MergeSame
<1> HIDE DEF f, e
<1>5. CASE r = [c |-> Clashing(c, m), jobs |-> {}] /\ ~w /\ Sync!Clash(c.base, c.form, m.value)
  <2>1. d = Clashing(c, m) /\ r.jobs = {}
    BY <1>5
  <2>2. StagedTo(d, c, m)
    BY <2>1, StagedGood
  <2>3. c.form # c.base
    BY <1>5 DEF Sync!Clash
  <2> QED  BY <2>1, <2>2, <2>3, <1>5 DEF Effect, StagedTo, ResolvedTo
<1>6. CASE r = Sync!Pump(p, s, e)
  <2>1. e.base # Sync!Nil /\ e.sent = Sync!Nil
    BY <1>2, <1>3 DEF RebasedTo
  <2> HIDE DEF r
  <2>2. PumpedTo(d, e) /\ Effect(p, s, r)
    BY <1>3, <1>6, <2>1, PumpTo
  <2>3. Ready(e)
    BY <1>3, <2>1 DEF RebasedTo, Ready
  <2>4. /\ d.rev = m.rev /\ d.base = m.value /\ d.staged = Sync!Nil /\ d.conflict = FALSE /\ d.timer = c.timer
        /\ d.queued = Sync!Nil /\ d.form = f
        /\ IF c.queued = Sync!Nil THEN d.sent = Sync!Nil ELSE d.sent = d.form
    BY <1>2, <1>3, <2>1, <2>2, <2>3 DEF RebasedTo, PumpedTo
  <2> QED  BY <1>2, <1>4, <2>2, <2>4 DEF r, ResolvedTo
<1> QED  BY <1>5, <1>6, ResolveIs DEF e, f

\* A section says what is stored.
Says(v, c) == c.rev = v \/ (c.staged # Sync!Nil /\ c.staged.rev = v)

LEMMA ResolveEdit ==
  ASSUME NEW t, NEW kn, NEW p, NEW s \in Sync!Sections, NEW c, Good(t, kn, s, c),
         NEW m \in [value : Value(s), rev : Value(s)], GoodSnap(kn, s, m), NEW w, c.base # Sync!Nil,
         c.sent = Sync!Nil,
         NEW x, x \/ Edits(c)
  PROVE  /\ EditOk(x, Sync!Resolve(p, s, c, m, w).c) /\ (Busy(c) => Busy(Sync!Resolve(p, s, c, m, w).c))
         /\ Says(m.rev, Sync!Resolve(p, s, c, m, w).c)
<1>1. PICK r : r = Sync!Resolve(p, s, c, m, w)
  OBVIOUS
<1>2. PICK d : d = r.c
  OBVIOUS
<1>3. ResolvedTo(d, c, m, w)
  BY <1>1, <1>2, ResolveTo
<1>4. d.form # Sync!Nil
  BY <1>1, <1>2, ResolveGood, NilIsNone DEF Good, Section
<1>5. m # Sync!Nil
  BY NilIsNone
<1>6. CASE StagedTo(d, c, m) /\ c.form # c.base
  BY <1>1, <1>2, <1>5, <1>6 DEF EditOk, Edits, Busy, StagedTo, Says, Ready
<1>7. CASE /\ d.rev = m.rev /\ d.staged = Sync!Nil /\ d.timer = c.timer
           /\ d.queued = Sync!Nil /\ (c.form = c.base => d.form = d.base)
           /\ IF c.queued = Sync!Nil THEN d.sent = Sync!Nil ELSE d.sent = d.form
  BY <1>1, <1>2, <1>4, <1>7 DEF EditOk, Edits, Busy, Says
<1> QED  BY <1>1, <1>2, <1>3, <1>6, <1>7 DEF ResolvedTo

ExternalTo(p, s, m, x, c0, r) ==
  /\ EditOk(x, r.c) /\ (Busy(c0) => Busy(r.c)) /\ Says(m.rev, r.c)
  /\ c0.sent = Sync!Nil => Effect(p, s, r)
  /\ c0.sent # Sync!Nil => r.c.sent = c0.sent /\ r.jobs = {} /\ r.c.queued = c0.queued
LEMMA ExternalEdit ==
  ASSUME NEW t, NEW kn, NEW p, NEW s \in Sync!Sections, NEW c0, Good(t, kn, s, c0),
         NEW m \in [value : Value(s), rev : Value(s)],
         GoodSnap(kn, s, m), NEW x, EditOk(x, c0)
  PROVE  ExternalTo(p, s, m, x, c0, Sync!External(p, s, c0, m))
<1> DEFINE c == [c0 EXCEPT !.loading = FALSE]
           e == Sync!Committed(c, m, m.value)
           r == Sync!External(p, s, c0, m)
<1> SUFFICES /\ EditOk(x, r.c) /\ (Busy(c0) => Busy(r.c)) /\ Says(m.rev, r.c)
             /\ c0.sent = Sync!Nil => Effect(p, s, r)
             /\ c0.sent # Sync!Nil => r.c.sent = c0.sent /\ r.jobs = {} /\ r.c.queued = c0.queued
  BY DEF ExternalTo
<1>0. m # Sync!Nil /\ m.value # Sync!Nil /\ m.rev # Sync!Nil /\ m.value \in Value(s) /\ m.rev \in Value(s)
  BY NilIsNone
<1>1. c \in Section(s) /\ Quietly(c, c0)
  BY UnloadedIs DEF Good
<1>2. Good(t, kn, s, c)
  BY <1>1, QuietlyGood
<1> HIDE DEF c
<1>3. EditOk(x, c) /\ (Busy(c0) => Busy(c)) /\ c.sent = c0.sent /\ c.queued = c0.queued
  BY <1>1 DEF Quietly, EditOk, Busy, Ready
<1>8. e \in Section(s) /\ CommittedTo(e, c, m, m.value)
  BY <1>0, <1>1, CommittedIs
<1> HIDE DEF e
<1>9. e \in Section(s) /\ CommittedTo(e, c, m, m.value) /\ e.base # Sync!Nil
  BY <1>0, <1>8 DEF CommittedTo
<1>4. CASE c.rev = m.rev
  <2>1. c.base # Sync!Nil
    BY <1>4, <1>2, <1>0 DEF Good, Blank
  <2>2. r = Sync!Pump(p, s, c)
    BY <1>4 DEF Sync!External, c
  <2>3. PumpedTo(r.c, c) /\ (c.sent = Sync!Nil => Effect(p, s, r)) /\ (c.sent # Sync!Nil => r.jobs = {})
    BY <2>1, <2>2, <1>1, PumpTo
  <2> HIDE DEF r
  <2>4. EditOk(x, r.c) /\ (Busy(c) => Busy(r.c))
    BY <2>3, <1>3, EditBefore, PumpEdit, PumpBusy
  <2> QED  BY <2>3, <2>4, <1>3, <1>4 DEF Says, PumpedTo, Ready, r
<1>5. CASE c.rev # m.rev /\ (c.base = Sync!Nil \/ (c.sent = Sync!Nil /\ ~(Sync!Dirty(c) \/ c.conflict)))
  <2>1. r = Sync!Pump(p, s, e)
    BY <1>5 DEF Sync!External, c, e
  <2>2. c.sent = Sync!Nil /\ c.queued = Sync!Nil
    BY <1>5, <1>2 DEF Good, Blank, Sync!Dirty
  <2>3. PumpedTo(r.c, e) /\ Effect(p, s, r)
    BY <2>1, <2>2, <1>9, PumpTo DEF CommittedTo
  <2> HIDE DEF r
  <2>4. Before(x, e)
    BY <2>2, <1>0, <1>3, <1>9 DEF Before, Edits, CommittedTo, EditOk, Busy, Ready
  <2>5. EditOk(x, r.c)
    BY <2>3, <2>4, PumpEdit
  <2> QED  BY <2>2, <2>3, <2>5, <1>3, <1>9 DEF Says, PumpedTo, CommittedTo, Busy, r
<1>6. CASE c.rev # m.rev /\ c.base # Sync!Nil /\ c.sent # Sync!Nil
  <2>1. r = [c |-> Keeping(c, m), jobs |-> {}]
    BY <1>6 DEF Sync!External, Keeping, c
  <2>2. StagedTo(Keeping(c, m), c, m)
    BY <1>2, <1>6, StagedGood
  <2>3. PICK d : d = Keeping(c, m)
    OBVIOUS
  <2>4. EditOk(x, d) /\ (Busy(c) => Busy(d)) /\ Says(m.rev, d) /\ d.sent = c.sent /\ d.queued = c.queued
    BY <2>2, <2>3, <1>0, <1>3, <1>6 DEF EditOk, StagedTo, Busy, Says, Ready
  <2>5. r.c = d /\ r.jobs = {}
    BY <2>1, <2>3
  <2> QED  BY <2>4, <2>5, <1>3, <1>6
<1>7. CASE c.rev # m.rev /\ c.base # Sync!Nil /\ c.sent = Sync!Nil /\ (Sync!Dirty(c) \/ c.conflict)
  <2>0. PICK w : w = FALSE
    OBVIOUS
  <2>1. r = Sync!Resolve(p, s, c, m, w)
    BY <1>7, <2>0 DEF Sync!External, c
  <2>2. x \/ Edits(c)
    BY <1>3, EditBefore
  <2>3. EditOk(x, r.c) /\ (Busy(c) => Busy(r.c)) /\ Says(m.rev, r.c)
    BY <2>1, <2>2, <1>2, <1>7, ResolveEdit
  <2>4. Effect(p, s, r)
    BY <2>1, <1>2, <1>7, ResolveTo
  <2> QED  BY <2>3, <2>4, <1>3, <1>7
<1> QED  BY <1>4, <1>5, <1>6, <1>7

LEMMA AcknowledgedEdit ==
  ASSUME NEW t, NEW kn, NEW p, NEW s \in Sync!Sections, NEW c, NEW m, Good(t, kn, s, c), GoodSnap(kn, s, m),
         c.sent # Sync!Nil,
         NEW x, EditOk(x, c)
  PROVE  LET r == Sync!Acknowledged(p, s, c, m) IN
         EditOk(x, r.c) /\ Effect(p, s, r) /\ (c.queued # Sync!Nil => Busy(r.c))
<1> DEFINE d == Acked(c, m)
           r == Sync!Acknowledged(p, s, c, m)
<1>1. Good(t, kn, s, d) /\ d.base # Sync!Nil /\ AckedTo(d, c, m) /\ d \in Section(s)
  BY AckedGood DEF Good
<1>2. c.form = c.sent => d.form = d.base
  <2>1. CASE c.form = c.sent
    <3>1. Sync!Merge(c.sent, c.form, m.value) = m.value
      BY <2>1, MergeSame DEF Good, Section, Maybe, GoodSnap
    <3> QED  BY <3>1, <1>1 DEF AckedTo
  <2> QED  BY <2>1
<1>0. d.form # Sync!Nil
  BY <1>1, NilIsNone DEF Section
<1> HIDE DEF d
<1>3. x \/ Edits(d)
  BY <1>0, <1>1, <1>2 DEF AckedTo, Edits, EditOk, Busy
<1>4. c.queued # Sync!Nil => Busy(d)
  BY <1>0, <1>1 DEF AckedTo, Busy
<1>5. CASE c.staged # Sync!Nil /\ c.staged.rev # m.rev
  <2>0. PICK w : w = FALSE
    OBVIOUS
  <2>1. r = Sync!Resolve(p, s, d, c.staged, w)
    BY <1>5, <2>0 DEF Sync!Acknowledged, Acked, d
  <2>2. c.staged \in [value : Value(s), rev : Value(s)] /\ GoodSnap(kn, s, c.staged) /\ d.sent = Sync!Nil
    BY <1>1, <1>5, StagedSnap DEF AckedTo
  <2>3. EditOk(x, r.c) /\ (Busy(d) => Busy(r.c))
    BY <2>1, <2>2, <1>1, <1>3, ResolveEdit
  <2>4. Effect(p, s, r)
    BY <2>1, <2>2, <1>1, ResolveTo
  <2> QED  BY <2>3, <2>4, <1>4
<1>6. CASE ~(c.staged # Sync!Nil /\ c.staged.rev # m.rev)
  <2>1. r = Sync!Pump(p, s, Unstaged(d))
    BY <1>6 DEF Sync!Acknowledged, Acked, Unstaged, d
  <2>2. Good(t, kn, s, Unstaged(d)) /\ StagedTo(Unstaged(d), d, Sync!Nil) /\ Unstaged(d) \in Section(s)
    BY <1>1, UnstagedGood DEF Good
  <2>3. PICK e : e = Unstaged(d)
    OBVIOUS
  <2>4. e \in Section(s) /\ e.base # Sync!Nil /\ e.sent = Sync!Nil /\ StagedTo(e, d, Sync!Nil)
    BY <2>2, <2>3, <1>1 DEF StagedTo, AckedTo
  <2>5. r = Sync!Pump(p, s, e)
    BY <2>1, <2>3
  <2>6. PumpedTo(r.c, e) /\ Effect(p, s, r)
    BY <2>4, <2>5, PumpTo
  <2>7. Before(x, e) /\ (Busy(d) => Busy(e))
    BY <2>4, <1>1, <1>3 DEF StagedTo, Before, Edits, Busy, Ready, AckedTo
  <2>8. EditOk(x, r.c) /\ (Busy(e) => Busy(r.c))
    BY <2>6, <2>7, PumpEdit, PumpBusy
  <2> QED  BY <2>6, <2>7, <2>8, <1>4
<1> QED  BY <1>5, <1>6

LEMMA RefusedEdit ==
  ASSUME NEW t, NEW kn, NEW p, NEW s \in Sync!Sections, NEW c, Good(t, kn, s, c), c.sent # Sync!Nil, NEW x
  PROVE  LET r == Sync!Refused(p, s, c) IN
         /\ EditOk(x, r.c) /\ Effect(p, s, r) /\ Busy(r.c)
         /\ \A v : Says(v, c) => Says(v, r.c) \/ r.c.sent # Sync!Nil
<1> DEFINE d == Denied(c)
           r == Sync!Refused(p, s, c)
<1>1. Good(t, kn, s, d) /\ d.base # Sync!Nil /\ DeniedTo(d, c) /\ d \in Section(s)
  BY DeniedGood DEF Good
<1>2. Edits(d) /\ Busy(d) /\ d.queued # Sync!Nil
  BY <1>1 DEF DeniedTo, Edits, Busy
<1> HIDE DEF d
<1>3. CASE d.staged # Sync!Nil
  <2>0. PICK w : w = FALSE
    OBVIOUS
  <2>1. PICK u : u = Sync!Resolve(p, s, d, d.staged, w)
    OBVIOUS
  <2>2. d.staged \in [value : Value(s), rev : Value(s)] /\ GoodSnap(kn, s, d.staged) /\ d.sent = Sync!Nil
    BY <1>1, <1>3, StagedSnap DEF DeniedTo
  <2>3. EditOk(x, u.c) /\ Busy(u.c) /\ Says(d.staged.rev, u.c)
    BY <2>1, <2>2, <1>1, <1>2, ResolveEdit
  <2>14. Effect(p, s, u) /\ ResolvedTo(u.c, d, d.staged, w)
    BY <2>1, <2>2, <1>1, ResolveTo
  <2>4. Effect(p, s, u) /\ (StagedTo(u.c, d, d.staged) \/ u.c.sent = u.c.form)
    BY <2>14, <1>2 DEF ResolvedTo
  <2>5. u.c \in Section(s) /\ u.c.form # Sync!Nil
    BY <2>1, <2>2, <1>1, ResolveGood, NilIsNone DEF Good, Section
  <2>6. \A v : Says(v, c) => Says(v, u.c) \/ u.c.sent # Sync!Nil
    BY <2>3, <2>4, <2>5, <1>1 DEF Says, StagedTo, DeniedTo
  <2>7. r = [u EXCEPT !.c.failed = u.c.staged # Sync!Nil]
    BY <2>0, <2>1, <1>3 DEF Sync!Refused, Denied, d
  <2>8. u = [c |-> u.c, jobs |-> u.jobs]
    <3> DEFINE e == Rebased(d, d.staged, Sync!Merge(d.base, d.form, d.staged.value))
    <3>2. e.base # Sync!Nil
      BY <1>1, <2>2, RebasedGood
    <3> HIDE DEF e
    <3>3. Sync!Pump(p, s, e) = [c |-> Sync!Pump(p, s, e).c, jobs |-> Sync!Pump(p, s, e).jobs]
      BY <3>2, PumpIs
    <3> QED  BY <2>1, <3>3, <1>1, ResolveIs DEF e
  <2>9. r.c = Marked(u.c) /\ r.jobs = u.jobs
    BY <2>7, <2>8 DEF Marked
  <2> HIDE DEF r
  <2>10. Quietly(Marked(u.c), u.c)
    BY <2>5 DEF Section, Quietly, Marked
  <2>11. Quietly(r.c, u.c)
    BY <2>9, <2>10
  <2>12. EditOk(x, r.c) /\ Busy(r.c) /\ Effect(p, s, r)
    BY <2>3, <2>4, <2>9, <2>11 DEF Quietly, EditOk, Busy, Ready, Effect
  <2>13. \A v : Says(v, c) => Says(v, r.c) \/ r.c.sent # Sync!Nil
    BY <2>6, <2>11 DEF Quietly, Says
  <2> QED  BY <2>12, <2>13 DEF r
<1>4. CASE d.staged = Sync!Nil
  <2>1. r = [c |-> Asking(d), jobs |-> {Sync!Get({p}, s)}]
    BY <1>4 DEF Sync!Refused, Denied, Asking, d
  <2>2. Quietly(Asking(d), d)
    BY <1>1 DEF Asking, Section, Quietly
  <2>3. r.c = Asking(d) /\ r.jobs = {Sync!Get({p}, s)}
    BY <2>1
  <2> HIDE DEF r
  <2>4. Quietly(r.c, d)
    BY <2>2, <2>3
  <2>5. r.c.sent = Sync!Nil
    BY <2>4, <1>1 DEF Quietly, DeniedTo
  <2>6. EditOk(x, r.c) /\ Busy(r.c)
    BY <2>4, <1>1, <1>2 DEF Quietly, DeniedTo, EditOk, Busy, Ready
  <2>7. \A v : Says(v, c) => Says(v, r.c)
    BY <2>4, <1>1 DEF Quietly, DeniedTo, Says
  <2> QED  BY <2>3, <2>5, <2>6, <2>7 DEF Effect, r
<1> QED  BY <1>3, <1>4

-----------------------------------------------------------------------------
(* Edits: a step of one panel.                                               *)

LEMMA TokenSame ==
  ASSUME NEW p, NEW n, NEW s, NEW c, NEW d, NEW js, NEW ks, NEW q, Token(p, n, s, c, js, q),
         \A j : Mine(p, n, s, j) => (j \in js <=> j \in ks), c.sent # Sync!Nil <=> d.sent # Sync!Nil
  PROVE  Token(p, n, s, d, ks, q)
  BY DEF Token

LEMMA EditGrows ==
  ASSUME NEW x, NEW y, NEW c, EditOk(x, c), x => y
  PROVE  EditOk(y, c)
  BY DEF EditOk

LEMMA CalmGrows ==
  ASSUME NEW v, NEW x, NEW y, NEW c, Calm(v, x, c), x => y
  PROVE  Calm(v, y, c)
  BY DEF Calm

\* Nothing takes an excuse away but what sends the choice.
LEMMA ExcusesStay ==
  ASSUME NEW q \in Panels, NEW s \in Sync!Sections, settingsGaveUp \subseteq settingsGaveUp',
         settingsFollow'[q] = settingsFollow[q], settingsDisk' = settingsDisk,
         Busy(settingsPanel[q]["configs"]) => Busy(settingsPanel'[q]["configs"])
  PROVE  (GaveUp(q, s) => GaveUp(q, s)') /\ (Waiting(q, s) => Waiting(q, s)') /\ (Excused(q, s) => Excused(q, s)')
  BY DEF GaveUp, Waiting, WaitsFor, Excused

\* What a panel asks the host for.
Asked(p, n, js) ==
  \A j \in js : /\ j.for = {p}
                /\ \/ j.kind = "get" /\ j.at = "read" /\ j.id = 0
                   \/ j.kind = "update" /\ j.at = "save" /\ j.id = n + 1
\* A section makes a save, or it makes none.
Makes(s, c, d, js) ==
  \/ (c.sent # Sync!Nil <=> d.sent # Sync!Nil) /\ \A j \in js : ~(j.kind = "update" /\ j.s = s)
  \/ /\ c.sent = Sync!Nil /\ d.sent # Sync!Nil
     /\ \E k \in js : k.kind = "update" /\ k.s = s /\ \A j \in js : j.kind = "update" /\ j.s = s => j = k

LEMMA MovesToken ==
  ASSUME SaveInv, TokenInv, NEW p \in Panels, NEW js, settingsJobs' = settingsJobs \cup js,
         UNCHANGED <<settingsInbox, settingsReloads>>,
         Asked(p, settingsReloads[p], js), \A q \in Panels \ {p} : settingsPanel'[q] = settingsPanel[q],
         \A s \in Sync!Sections : Makes(s, settingsPanel[p][s], settingsPanel'[p][s], js)
  PROVE  TokenInv'
<1>0. \A q \in Panels : settingsReloads[q] \in Nat
  BY DEF SaveInv, RestTypes
<1>1. ASSUME NEW j \in settingsJobs', NEW q \in Panels PROVE Numbered(j, q, settingsReloads'[q])
  <2>1. CASE j \in settingsJobs
    BY <2>1 DEF TokenInv
  <2>2. CASE j \in js
    BY <2>2, <1>0 DEF Asked, Numbered
  <2> QED  BY <2>1, <2>2
<1>2. \A q \in Panels : \A i \in DOMAIN settingsInbox'[q] : settingsInbox'[q][i].id <= settingsReloads'[q] + 1
  BY DEF TokenInv
<1>3. ASSUME NEW q \in Panels,
             NEW s \in Sync!Sections PROVE Token(q, settingsReloads'[q], s, settingsPanel'[q][s], settingsJobs', settingsInbox'[q])
  <2>0. Token(q, settingsReloads[q], s, settingsPanel[q][s], settingsJobs, settingsInbox[q])
    BY DEF TokenInv
  <2>1. CASE q # p
    <3>1. \A j : Mine(q, settingsReloads[q], s, j) => (j \in settingsJobs <=> j \in settingsJobs')
      BY <2>1 DEF Mine, Asked
    <3> QED  BY <2>0, <2>1, <3>1, TokenSame
  <2>2. CASE q = p /\ (settingsPanel[p][s].sent # Sync!Nil <=> settingsPanel'[p][s].sent # Sync!Nil) /\ \A j \in js : ~(j.kind = "update" /\ j.s = s)
    <3>1. \A j : Mine(q, settingsReloads[q], s, j) => (j \in settingsJobs <=> j \in settingsJobs')
      BY <2>2 DEF Mine
    <3> QED  BY <2>0, <2>2, <3>1, TokenSame
  <2>3. CASE q = p /\ settingsPanel[p][s].sent = Sync!Nil /\ settingsPanel'[p][s].sent # Sync!Nil
    <3>1. PICK k \in js : k.kind = "update" /\ k.s = s /\ \A j \in js : j.kind = "update" /\ j.s = s => j = k
      BY <2>3 DEF Makes
    <3>2. Mine(p, settingsReloads[p], s, k)
      BY <3>1 DEF Mine, Asked
    <3>3. \A j \in settingsJobs' : Mine(p, settingsReloads[p], s, j) => j = k
      BY <2>0, <2>3, <3>1 DEF Token, Mine
    <3>4. \A i \in DOMAIN settingsInbox[p] : ~Ours(settingsReloads[p], s, settingsInbox[p][i])
      BY <2>0, <2>3 DEF Token
    <3> QED  BY <2>3, <3>1, <3>2, <3>3, <3>4 DEF Token
  <2> QED  BY <2>1, <2>2, <2>3 DEF Makes
<1> QED  BY <1>1, <1>2, <1>3 DEF TokenInv

LEMMA PanelMoves ==
  ASSUME SaveInv, FormInv, NEW p \in Panels, NEW js, settingsJobs' = settingsJobs \cup js,
         UNCHANGED <<settingsDisk, settingsInbox, settingsChanged, settingsReloads>>,
         settingsGaveUp \subseteq settingsGaveUp', Asked(p, settingsReloads[p], js),
         \A q \in Panels \ {p} : settingsPanel'[q] = settingsPanel[q] /\ settingsFollow'[q] = settingsFollow[q],
         \A s \in Sync!Sections :
           /\ Makes(s, settingsPanel[p][s], settingsPanel'[p][s], js)
           /\ settingsPanel'[p][s].base = Sync!Nil => settingsPanel[p][s].base = Sync!Nil
           /\ EditOk(Excused(p, s)', settingsPanel'[p][s])
           /\ Settled(p, s) => Settled(p, s)' \/ \E j \in js : Answering(p, s, j),
         settingsPanel[p]["configs"].sent # Sync!Nil => \A x : MissedAt(p, x) => MissedAt(p, x)'
  PROVE  FormInv'
<1>1. TokenInv'
  BY MovesToken DEF FormInv
<1>2. ComingInv'
  <2> SUFFICES ASSUME NEW q \in Panels, NEW s \in Sync!Sections, settingsPanel'[q][s].base = Sync!Nil
               PROVE  Coming(q, s, settingsJobs', settingsInbox'[q])
    BY DEF ComingInv
  <2>1. settingsPanel[q][s].base = Sync!Nil
    OBVIOUS
  <2> QED  BY <2>1 DEF FormInv, ComingInv, Coming
<1>3. ASSUME NEW q \in Panels \ {p}, NEW s \in Sync!Sections
      PROVE  (GaveUp(q, s) => GaveUp(q, s)') /\ (Waiting(q, s) => Waiting(q, s)') /\ (Excused(q, s) => Excused(q, s)')
  BY ExcusesStay
<1>4. EditInv'
  <2> SUFFICES ASSUME NEW q \in Panels, NEW s \in Sync!Sections PROVE EditOk(Excused(q, s)', settingsPanel'[q][s])
    BY DEF EditInv
  <2>1. CASE q # p
    BY <1>3, <2>1, EditGrows DEF FormInv, EditInv
  <2> QED  BY <2>1
<1>5. FreshInv'
  <2> SUFFICES ASSUME NEW s \in Sync!Sections \ settingsChanged'
               PROVE  (\A j \in settingsJobs' : Current(s, settingsDisk'[s], j)) /\ \A q \in Panels : Told(q, s)'
    BY DEF FreshInv
  <2>1. (\A j \in settingsJobs : Current(s, settingsDisk[s], j)) /\ \A q \in Panels : Told(q, s)
    <3>1. s \in Sync!Sections \ settingsChanged
      OBVIOUS
    <3> QED  BY <3>1 DEF FormInv, FreshInv
  <2>2. \A j \in settingsJobs' : Current(s, settingsDisk'[s], j)
    BY <2>1 DEF Current, Asked
  <2>3. ASSUME NEW q \in Panels PROVE Told(q, s)'
    <3>1. CASE (\E j \in settingsJobs : Answering(q, s, j)) \/ Newest(s, settingsDisk[s], settingsInbox[q])
      BY <3>1 DEF Told
    <3>2. CASE (\A i \in DOMAIN settingsInbox[q] : ~IsSnap(s, settingsInbox[q][i])) /\ Settled(q, s)
      <4>1. CASE q = p
        BY <3>2, <4>1 DEF Told
      <4>2. CASE q # p
        <5>1. Settled(q, s)'
          <6>1. CASE GaveUp(q, s)
            BY <6>1, <4>2, <1>3 DEF Settled
          <6>2. CASE Calm(settingsDisk[s], Waiting(q, s), settingsPanel[q][s])
            BY <6>2, <4>2, <1>3, CalmGrows DEF Settled
          <6>3. CASE Tried(q, settingsReloads[q], s, settingsJobs, settingsInbox[q])
            BY <6>3, <4>2 DEF Settled, Tried
          <6> QED  BY <3>2, <6>1, <6>2, <6>3 DEF Settled
        <5> QED  BY <3>2, <5>1 DEF Told
      <4> QED  BY <4>1, <4>2
    <3> QED  BY <2>1, <3>1, <3>2 DEF Told
  <2> QED  BY <2>2, <2>3
<1>6. MissedInv'
  <2>1. ASSUME NEW q \in Panels, NEW x, MissedAt(q, x),
               settingsPanel[q]["configs"].sent # Sync!Nil PROVE MissedAt(q, x)'
    <3>1. CASE q # p
      BY <3>1, <2>1 DEF MissedAt, Missed, GaveUp
    <3> QED  BY <3>1, <2>1
  <2>2. "configs" \in Sync!Sections
    BY DEF Sync!Sections
  <2>3. ASSUME NEW q \in Panels, NEW j \in settingsJobs', Mine(q, settingsReloads'[q], "configs", j),
               j.at = "publish"
        PROVE  MissedAt(q, j)'
    <3>1. j \in settingsJobs
      BY <2>3 DEF Asked
    <3>2. settingsPanel[q]["configs"].sent # Sync!Nil
      BY <2>2, <2>3, <3>1 DEF FormInv, TokenInv, Token
    <3> QED  BY <2>1, <2>3, <3>1, <3>2 DEF FormInv, MissedInv
  <2>4. ASSUME NEW q \in Panels, NEW i \in DOMAIN settingsInbox'[q],
               Ours(settingsReloads'[q], "configs", settingsInbox'[q][i]),
         settingsInbox'[q][i].code = "snapshot"
        PROVE  \A x : x = settingsInbox'[q][i] => MissedAt(q, x)'
    <3>1. settingsPanel[q]["configs"].sent # Sync!Nil
      BY <2>2, <2>4 DEF FormInv, TokenInv, Token
    <3>2. \A x : x = settingsInbox[q][i] => MissedAt(q, x)
      BY <2>4 DEF FormInv, MissedInv
    <3> QED  BY <2>1, <3>1, <3>2
  <2> QED  BY <2>3, <2>4 DEF MissedInv
<1> QED  BY <1>1, <1>2, <1>4, <1>5, <1>6 DEF FormInv

\* A section asks for a save when it makes one, and for nothing while one is on its way.
Done(p, s, c, r) == IF c.sent = Sync!Nil THEN Effect(p, s, r) ELSE r.c.sent # Sync!Nil /\ r.jobs = {}
Trying(p, n, s, js) == \E j \in js : Mine(p, n, s, j) /\ j.at = "save"
LEMMA DoneIs ==
  ASSUME NEW p \in Panels, NEW s \in Sync!Sections, NEW c, NEW r, Done(p, s, c, r)
  PROVE  /\ Asked(p, settingsReloads[p], r.jobs) /\ Makes(s, c, r.c, r.jobs) /\ \A j \in r.jobs : j.s = s
         /\ c.sent = Sync!Nil /\ r.c.sent # Sync!Nil => Trying(p, settingsReloads[p], s, r.jobs)
<1> DEFINE g == Sync!Get({p}, s)
           u == Sync!Update(p, s, r.c.sent, r.c.rev)
<1>1. g.for = {p} /\ g.s = s /\ g.kind = "get" /\ g.at = "read" /\ g.id = 0
  BY DEF Sync!Get
<1>2. u.for = {p} /\ u.s = s /\ u.kind = "update" /\ u.at = "save" /\ u.id = settingsReloads[p] + 1
  BY DEF Sync!Update
<1>3. CASE c.sent # Sync!Nil
  BY <1>3 DEF Done, Asked, Makes
<1>4. CASE c.sent = Sync!Nil /\ r.c.sent # Sync!Nil /\ r.jobs = {u}
  <2> HIDE DEF u
  <2>1. Asked(p, settingsReloads[p], r.jobs)
    BY <1>2, <1>4 DEF Asked
  <2>2. Makes(s, c, r.c, r.jobs)
    BY <1>2, <1>4 DEF Makes
  <2>3. Trying(p, settingsReloads[p], s, r.jobs)
    BY <1>2, <1>4 DEF Trying, Mine
  <2> QED  BY <1>2, <1>4, <2>1, <2>2, <2>3
<1>5. CASE c.sent = Sync!Nil /\ r.c.sent = Sync!Nil /\ r.jobs \subseteq {g}
  <2> HIDE DEF g
  <2> QED  BY <1>1, <1>5 DEF Asked, Makes
<1> QED  BY <1>3, <1>4, <1>5 DEF Done, Effect

\* A panel that knew what is stored still does, or tries to save.
StaysCalm(p, s, c, d, js) ==
  \/ GaveUp(p, s) \/ Trying(p, settingsReloads[p], s, js)
  \/ \A v : Calm(v, Waiting(p, s), c) => Calm(v, Waiting(p, s), d)

LEMMA OneMoves ==
  ASSUME SaveInv, FormInv, NEW p \in Panels, NEW s \in Sync!Sections, NEW c, c = settingsPanel[p][s], NEW r,
         r.c \in Section(s),
         Sync!Do(p, s, r),
         UNCHANGED <<settingsDisk, settingsFollow, settingsInbox, settingsChanged, settingsGaveUp, settingsReloads>>, Done(p, s, c, r),
         r.c.base = Sync!Nil => c.base = Sync!Nil, EditOk(Excused(p, s), r.c), Busy(c) => Busy(r.c),
         StaysCalm(p, s, c, r.c, r.jobs), c.sent # Sync!Nil /\ c.queued # Sync!Nil => r.c.queued # Sync!Nil
  PROVE  FormInv'
<1>1. \A q \in Panels : \A t \in Sync!Sections : settingsPanel'[q][t] = IF q = p /\ t = s THEN r.c ELSE settingsPanel[q][t]
  BY PanelSet DEF Sync!Do, SaveInv
<1>2. settingsPanel \in [Panels -> [Sync!Sections -> Section("configs") \cup Section("llm")]] /\ settingsPanel' \in [Panels -> [Sync!Sections -> Section("configs") \cup Section("llm")]]
  BY PanelSet DEF Sync!Do, SaveInv, PanelInv
<1>3. \A q \in Panels \ {p} : settingsPanel'[q] = settingsPanel[q]
  BY <1>1, <1>2
<1>4. Asked(p, settingsReloads[p], r.jobs) /\ Makes(s, c, r.c, r.jobs) /\ (\A j \in r.jobs : j.s = s)
  BY DoneIs
<1>5. \A t \in Sync!Sections : Makes(t, settingsPanel[p][t], settingsPanel'[p][t], r.jobs)
  BY <1>1, <1>4 DEF Makes
<1>0. "configs" \in Sync!Sections
  BY DEF Sync!Sections
<1>6. ASSUME NEW t \in Sync!Sections
      PROVE  (GaveUp(p, t) => GaveUp(p, t)') /\ (Waiting(p, t) => Waiting(p, t)') /\ (Excused(p, t) => Excused(p, t)')
  <2>1. Busy(settingsPanel[p]["configs"]) => Busy(settingsPanel'[p]["configs"])
    BY <1>0, <1>1
  <2> QED  BY <2>1, ExcusesStay
<1>7. ASSUME NEW t \in Sync!Sections PROVE EditOk(Excused(p, t)', settingsPanel'[p][t])
  <2>1. CASE t = s
    BY <2>1, <1>1, <1>6, EditGrows
  <2>2. CASE t # s
    BY <2>2, <1>1, <1>6, EditGrows DEF FormInv, EditInv
  <2> QED  BY <2>1, <2>2
<1>8. ASSUME NEW t \in Sync!Sections, Settled(p, t) PROVE Settled(p, t)'
  <2>1. CASE GaveUp(p, t)
    BY <2>1, <1>6 DEF Settled
  <2>2. CASE Tried(p, settingsReloads[p], t, settingsJobs, settingsInbox[p])
    BY <2>2 DEF Settled, Tried, Sync!Do
  <2>3. CASE Calm(settingsDisk[t], Waiting(p, t), settingsPanel[p][t]) /\ t # s
    <3>1. settingsPanel'[p][t] = settingsPanel[p][t]
      BY <1>1, <2>3
    <3> QED  BY <2>3, <3>1, <1>6, CalmGrows DEF Settled
  <2>4. CASE Calm(settingsDisk[t], Waiting(p, t), settingsPanel[p][t]) /\ t = s
    <3>1. settingsPanel'[p][t] = r.c
      BY <1>1, <2>4
    <3>2. CASE GaveUp(p, s)
      BY <3>2, <2>4, <1>6 DEF Settled
    <3>3. CASE Trying(p, settingsReloads[p], s, r.jobs)
      BY <3>3, <2>4 DEF Trying, Settled, Tried, Sync!Do
    <3>4. CASE Calm(settingsDisk[t], Waiting(p, t), r.c)
      BY <3>1, <3>4, <1>6, CalmGrows DEF Settled
    <3> QED  BY <2>4, <3>2, <3>3, <3>4 DEF StaysCalm
  <2> QED  BY <1>8, <2>1, <2>2, <2>3, <2>4 DEF Settled
<1>9. settingsPanel[p]["configs"].sent # Sync!Nil => \A x : MissedAt(p, x) => MissedAt(p, x)'
  <2>1. settingsPanel[p]["configs"].sent # Sync!Nil /\ settingsPanel[p]["configs"].queued # Sync!Nil => settingsPanel'[p]["configs"].queued # Sync!Nil
    BY <1>0, <1>1
  <2> QED  BY <2>1 DEF MissedAt, Missed, GaveUp
<1>10. \A t \in Sync!Sections : settingsPanel'[p][t].base = Sync!Nil => settingsPanel[p][t].base = Sync!Nil
  BY <1>1
<1> QED  BY <1>3, <1>4, <1>5, <1>7, <1>8, <1>9, <1>10, PanelMoves DEF Sync!Do

LEMMA ChangeForms ==
  ASSUME SaveInv, FormInv, ~EditsWhileLoading, NEW p \in Panels, NEW id \in ConfigIds, Sync!Change(p, id)
  PROVE  FormInv'
<1>b. PICK b \in BOOLEAN : b = TRUE
  OBVIOUS
<1> DEFINE c == settingsPanel[p]["configs"]
           d == Sync!Typed(c, id, settingsEdits + 2, b)
           r == [c |-> d, jobs |-> {}]
<1>0. "configs" \in Sync!Sections /\ "llm" \in Sync!Sections
  BY DEF Sync!Sections
<1>1. Sync!Editing(p, "configs", {id}) /\ settingsPanel' = [settingsPanel EXCEPT ![p]["configs"] = d] /\ UNCHANGED <<settingsFollow, settingsJobs>>
  BY <1>b DEF Sync!Change
<1>2. /\ settingsEdits + 2 \in 0..MaxEdits + 1 /\ UNCHANGED <<settingsDisk, settingsInbox, settingsGaveUp, settingsChanged, settingsReloads>>
      /\ Good(settingsTouched[p], settingsKnown, "configs", c)
  <2>1. UNCHANGED <<settingsDisk, settingsInbox, settingsGaveUp, settingsChanged, settingsReloads>>
    BY <1>1 DEF Sync!Editing
  <2>2. settingsEdits + 2 \in 0..MaxEdits + 1 /\ Good(settingsTouched[p], settingsKnown, "configs", c)
    BY <1>0, <1>1, EditingIs
  <2> QED  BY <2>1, <2>2
<1>3. c \in Section("configs") /\ EditOk(Excused(p, "configs"), c)
  BY <1>0, <1>2 DEF Good, FormInv, EditInv
<1>4. /\ d \in Section("configs") /\ FormTo(d, c) /\ d.timer = TRUE
  BY <1>b, <1>2, <1>3 DEF Section, FormTo, Value, Sync!Typed
<1> HIDE DEF d, c
<1>5. EditOk(Excused(p, "configs"), d) /\ (Busy(c) => Busy(d)) /\ Done(p, "configs", c, r)
      /\ StaysCalm(p, "configs", c, d, {})
  BY <1>3, <1>4 DEF EditOk, FormTo, Busy, Ready, Done, Effect, StaysCalm, Calm
<1>6. r.c = d /\ r.jobs = {}
  OBVIOUS
<1>7. Sync!Do(p, "configs", r)
  BY <1>1, <1>6 DEF Sync!Do
<1> HIDE DEF r
<1> QED  BY <1>0, <1>1, <1>2, <1>4, <1>5, <1>6, <1>7, OneMoves DEF FormTo, c

\* What a save that is made or put off does for the section.
LEMMA EnqueueMoves ==
  ASSUME SaveInv, FormInv, NEW p \in Panels, NEW s \in Sync!Sections, NEW c, c = settingsPanel[p][s],
         NEW d \in Section(s), d.base # Sync!Nil,
         d.rev = c.rev, d.sent = c.sent, d.queued = c.queued, d.staged = c.staged, d.conflict = c.conflict,
         Sync!Do(p, s, Sync!Enqueue(p, s, d)),
         UNCHANGED <<settingsDisk, settingsFollow, settingsInbox, settingsChanged, settingsGaveUp, settingsReloads>>, Sync!Enqueue(p, s, d).c \in Section(s)
  PROVE  FormInv'
<1> DEFINE r == Sync!Enqueue(p, s, d)
<1>2. EnqueuedTo(p, s, d, r)
  BY EnqueueTo
<1>1. Sync!Do(p, s, r) /\ r.c \in Section(s)
  OBVIOUS
<1> HIDE DEF r
<1>3. Ready(d) <=> Ready(c)
  BY DEF Ready
<1>4. Done(p, s, c, r)
  BY <1>2, <1>3 DEF Done, Ready, Effect, EnqueuedTo
<1>5. StaysCalm(p, s, c, r.c, r.jobs)
  <2>1. CASE Ready(c)
    BY <2>1, <1>2, <1>3, <1>4, DoneIs DEF StaysCalm, Ready, EnqueuedTo
  <2>2. CASE ~Ready(c)
    BY <2>2, <1>2, <1>3 DEF StaysCalm, Calm, EnqueuedTo
  <2> QED  BY <2>1, <2>2
<1> QED  BY <1>1, <1>2, <1>3, <1>4, <1>5, OneMoves DEF Ready, EnqueuedTo

LEMMA AutoSaveForms ==
  ASSUME SaveInv, FormInv, NEW p \in Panels, Sync!AutoSave(p)
  PROVE  FormInv'
<1> DEFINE c == settingsPanel[p]["configs"]
           d == [c EXCEPT !.timer = FALSE]
<1>0. "configs" \in Sync!Sections
  BY DEF Sync!Sections
<1>1. /\ c.timer /\ Sync!Do(p, "configs", Sync!Enqueue(p, "configs", d)) /\ UNCHANGED <<settingsDisk, settingsFollow, settingsInbox, settingsChanged, settingsGaveUp, settingsReloads>>
  BY DEF Sync!AutoSave
<1>2. c \in Section("configs") /\ Good(settingsTouched[p], settingsKnown, "configs", c) /\ c.base # Sync!Nil
  BY <1>0, <1>1 DEF SaveInv, PanelInv, Good, Blank
<1>3. d \in Section("configs") /\ FormTo(d, c) /\ d.form = c.form
  BY <1>2 DEF Section, FormTo
<1> HIDE DEF d
<1>4. Good(settingsTouched[p], settingsKnown, "configs", d) /\ d.base # Sync!Nil
  BY <1>0, <1>2, <1>3, FormGood DEF FormTo
<1>5. Sync!Enqueue(p, "configs", d).c \in Section("configs")
  BY <1>0, <1>4, EnqueueGood DEF Good
<1> HIDE DEF c
<1> QED  BY <1>0, <1>1, <1>3, <1>4, <1>5, EnqueueMoves DEF FormTo, c

LEMMA SelectForms ==
  ASSUME SaveInv, FormInv, ~EditsWhileLoading, NEW p \in Panels, NEW id \in ConfigIds, Sync!Select(p, id)
  PROVE  FormInv'
<1> DEFINE c == settingsPanel[p]["llm"]
           d == [c EXCEPT !.form = Sync!Choice(id)]
<1>0. "configs" \in Sync!Sections /\ "llm" \in Sync!Sections
  BY DEF Sync!Sections
<1>1. Sync!Editing(p, "llm", {"active"}) /\ Sync!Do(p, "llm", Sync!Enqueue(p, "llm", d)) /\ UNCHANGED settingsFollow
  BY DEF Sync!Select
<1>2. /\ UNCHANGED <<settingsDisk, settingsInbox, settingsGaveUp, settingsChanged, settingsReloads>> /\ c.base # Sync!Nil /\ Good(settingsTouched[p], settingsKnown, "llm", c)
  BY <1>0, <1>1, EditingIs DEF Sync!Editing
<1>3. d \in Section("llm") /\ FormTo(d, c)
  BY <1>2 DEF Good, Section, Value, Sync!Choice, FormTo
<1> HIDE DEF d
<1>4. Good(settingsTouched[p], settingsKnown, "llm", d) /\ d.base # Sync!Nil
  BY <1>0, <1>2, <1>3, FormGood DEF FormTo
<1>5. Sync!Enqueue(p, "llm", d).c \in Section("llm")
  BY <1>0, <1>4, EnqueueGood DEF Good
<1> HIDE DEF c
<1> QED  BY <1>0, <1>1, <1>2, <1>3, <1>4, <1>5, EnqueueMoves DEF FormTo, c

\* A configuration is stored, and named in the choice that waits for it.
LEMMA ActivatedMoves ==
  ASSUME SaveInv, FormInv, NEW p \in Panels, NEW c, c = settingsPanel[p]["configs"],
         NEW d \in Section("configs"), d.base # Sync!Nil,
         d.rev = c.rev, d.sent = c.sent, d.queued = c.queued, d.staged = c.staged, d.conflict = c.conflict,
         NEW r, r = Sync!Enqueue(p, "configs", d), r.c \in Section("configs"),
         NEW id \in ConfigIds, settingsPanel' = Sync!Activated(p, r.c, id),
         settingsJobs' = settingsJobs \cup r.jobs,
         UNCHANGED <<settingsDisk, settingsInbox, settingsChanged, settingsGaveUp, settingsReloads>>,
         \/ settingsFollow' = [settingsFollow EXCEPT ![p] = id]
         \/ settingsFollow' = settingsFollow /\ settingsPanel[p]["llm"].form = Sync!Choice(id)
  PROVE  FormInv'
<1> DEFINE l == settingsPanel[p]["llm"]
           e == [l EXCEPT !.form = Sync!Choice(id)]
<1>0. "configs" \in Sync!Sections /\ "llm" \in Sync!Sections /\ Sync!Sections = {"configs", "llm"} /\ id # 0 /\ settingsReloads[p] \in Nat
  BY IdsAreNumbered DEF Sync!Sections, SaveInv, RestTypes
<1>1. l \in Section("llm") /\ PanelInv
  BY <1>0 DEF SaveInv, PanelInv, Good
<1>2. /\ e.base = l.base /\ e.rev = l.rev /\ e.sent = l.sent /\ e.queued = l.queued /\ e.staged = l.staged
      /\ e.conflict = l.conflict /\ e.timer = l.timer /\ e.form = Sync!Choice(id) /\ e \in Section("llm")
  BY <1>1 DEF Section, Value, Sync!Choice
<1>3. /\ settingsPanel' \in [Panels -> [Sync!Sections -> Section("configs") \cup Section("llm")]]
      /\ \A q \in Panels : \A t \in Sync!Sections :
           settingsPanel'[q][t] = IF q # p THEN settingsPanel[q][t] ELSE IF t = "configs" THEN r.c ELSE e
  BY <1>0, <1>1, <1>2 DEF PanelInv, Sync!Activated
<1> HIDE DEF e
<1>4. \A q \in Panels \ {p} : settingsPanel'[q] = settingsPanel[q] /\ settingsFollow'[q] = settingsFollow[q]
  BY <1>1, <1>3 DEF PanelInv, SaveInv, RestTypes
<1>5. settingsPanel'[p]["configs"] = r.c /\ settingsPanel'[p]["llm"] = e
  BY <1>0, <1>3
<1>6. EnqueuedTo(p, "configs", d, r)
  BY <1>0, EnqueueTo
<1>7. Ready(d) <=> Ready(c)
  BY DEF Ready
<1>8. Done(p, "configs", c, r)
  BY <1>6, <1>7 DEF Done, Ready, Effect, EnqueuedTo
<1>9. Asked(p, settingsReloads[p], r.jobs) /\ Makes("configs", c, r.c, r.jobs) /\ (\A j \in r.jobs : j.s = "configs")
      /\ (c.sent = Sync!Nil /\ r.c.sent # Sync!Nil => Trying(p, settingsReloads[p], "configs", r.jobs))
  BY <1>0, <1>8, DoneIs
<1>10. \A t \in Sync!Sections : Makes(t, settingsPanel[p][t], settingsPanel'[p][t], r.jobs)
  BY <1>0, <1>2, <1>5, <1>9 DEF Makes
<1>11. Busy(r.c) /\ r.c.base # Sync!Nil /\ EditOk(Excused(p, "configs")', r.c) /\ (c.sent # Sync!Nil => r.c.queued # Sync!Nil)
  BY <1>6, <1>7 DEF EnqueuedTo, Ready
<1>12. (GaveUp(p, "llm") => GaveUp(p, "llm")') /\ (GaveUp(p, "configs") => GaveUp(p, "configs")')
  BY DEF GaveUp
<1>13. Waiting(p, "llm")' \/ (settingsFollow' = settingsFollow /\ l.form = Sync!Choice(id) /\ (Waiting(p, "llm") => Waiting(p, "llm")'))
  <2>1. CASE settingsFollow' = [settingsFollow EXCEPT ![p] = id]
    BY <1>0, <1>5, <1>11, <2>1 DEF Waiting, WaitsFor, SaveInv, RestTypes
  <2>2. CASE settingsFollow' = settingsFollow /\ l.form = Sync!Choice(id)
    BY <1>5, <1>11, <2>2 DEF Waiting, WaitsFor
  <2> QED  BY <2>1, <2>2
<1>14. EditOk(Excused(p, "llm")', e)
  <2>1. CASE Waiting(p, "llm")'
    BY <2>1 DEF Excused, EditOk
  <2>2. CASE l.form = Sync!Choice(id) /\ (Waiting(p, "llm") => Waiting(p, "llm")')
    <3>1. EditOk(Excused(p, "llm"), l) /\ (Excused(p, "llm") => Excused(p, "llm")')
      BY <1>0, <1>12, <2>2 DEF FormInv, EditInv, Excused
    <3>2. EditOk(Excused(p, "llm")', l)
      BY <3>1, EditGrows
    <3> HIDE DEF l
    <3> QED  BY <3>2, <1>2, <2>2 DEF EditOk, Busy, Ready
  <2> QED  BY <1>13, <2>1, <2>2
<1>15. ASSUME Settled(p, "llm") PROVE Settled(p, "llm")'
  <2>1. CASE GaveUp(p, "llm")
    BY <2>1, <1>12 DEF Settled
  <2>2. CASE Tried(p, settingsReloads[p], "llm", settingsJobs, settingsInbox[p])
    BY <2>2 DEF Settled, Tried
  <2>3. CASE Calm(settingsDisk["llm"], Waiting(p, "llm"), l)
    <3>1. Calm(settingsDisk["llm"], Waiting(p, "llm")', l)
      BY <2>3, <1>13, CalmGrows
    <3> HIDE DEF l
    <3>2. Calm(settingsDisk["llm"], Waiting(p, "llm")', e)
      BY <3>1, <1>2 DEF Calm, Ready
    <3> QED  BY <3>2, <1>5 DEF Settled
  <2> QED  BY <1>15, <2>1, <2>2, <2>3 DEF Settled
<1>16. ASSUME Settled(p, "configs") PROVE Settled(p, "configs")'
  <2>1. CASE GaveUp(p, "configs")
    BY <2>1, <1>12 DEF Settled
  <2>2. CASE Tried(p, settingsReloads[p], "configs", settingsJobs, settingsInbox[p])
    BY <2>2 DEF Settled, Tried
  <2>3. CASE Calm(settingsDisk["configs"], Waiting(p, "configs"), c) /\ Ready(c)
    <3>1. Trying(p, settingsReloads[p], "configs", r.jobs)
      BY <2>3, <1>6, <1>7, <1>9 DEF EnqueuedTo, Ready
    <3> QED  BY <3>1 DEF Trying, Tried, Settled
  <2>4. CASE Calm(settingsDisk["configs"], Waiting(p, "configs"), c) /\ ~Ready(c)
    <3>1. \A w : Calm(settingsDisk["configs"], w, r.c)
      BY <2>4, <1>6 DEF EnqueuedTo, Calm
    <3> QED  BY <3>1, <1>5 DEF Settled
  <2> QED  BY <1>16, <2>1, <2>2, <2>3, <2>4 DEF Settled
<1>17. settingsPanel[p]["configs"].sent # Sync!Nil => \A x : MissedAt(p, x) => MissedAt(p, x)'
  BY <1>5, <1>11 DEF MissedAt, Missed
<1>18. ASSUME NEW t \in Sync!Sections
       PROVE  /\ settingsPanel'[p][t].base = Sync!Nil => settingsPanel[p][t].base = Sync!Nil
              /\ EditOk(Excused(p, t)', settingsPanel'[p][t]) /\ (Settled(p, t) => Settled(p, t)')
  BY <1>0, <1>2, <1>5, <1>11, <1>14, <1>15, <1>16
<1> HIDE DEF l
<1> QED  BY <1>4, <1>9, <1>10, <1>17, <1>18, PanelMoves

LEMMA CreateForms ==
  ASSUME SaveInv, FormInv, ~EditsWhileLoading, NEW p \in Panels, NEW id \in ConfigIds, Sync!Create(p, id)
  PROVE  FormInv'
<1>b. PICK b \in BOOLEAN : b = FALSE
  OBVIOUS
<1> DEFINE c == settingsPanel[p]["configs"]
           d == Sync!Typed(c, id, settingsEdits + 2, b)
           r == Sync!Enqueue(p, "configs", d)
<1>0. "configs" \in Sync!Sections
  BY DEF Sync!Sections
<1>1. /\ Sync!Editing(p, "configs", {id}) /\ settingsPanel' = Sync!Activated(p, r.c, id) /\ settingsJobs' = settingsJobs \cup r.jobs
      /\ settingsFollow' = [settingsFollow EXCEPT ![p] = id]
  BY <1>b DEF Sync!Create
<1>2. UNCHANGED <<settingsDisk, settingsInbox, settingsGaveUp, settingsChanged, settingsReloads>>
  BY <1>1 DEF Sync!Editing
<1>3. /\ settingsTouched'[p] = settingsTouched[p] \cup ({"configs"} \X {id}) /\ settingsEdits + 2 \in 0..MaxEdits + 1
      /\ c.base # Sync!Nil /\ Good(settingsTouched[p], settingsKnown, "configs", c)
  BY <1>0, <1>1, EditingIs
<1>4. d \in Section("configs") /\ FormTo(d, c)
  BY <1>3 DEF Good, Section, FormTo, Value, Sync!Typed
<1>5. Good(settingsTouched'[p], settingsKnown, "configs", d) /\ d.base # Sync!Nil
  <2>1. settingsTouched[p] \subseteq settingsTouched'[p] /\ <<"configs", id>> \in settingsTouched'[p]
    BY <1>3
  <2>2. settingsEdits + 2 \in 0..MaxEdits + 1
    BY <1>3
  <2>3. Good(settingsTouched[p], settingsKnown, "configs", c) /\ c.base # Sync!Nil
    BY <1>3
  <2> HIDE DEF c
  <2> QED  BY <2>1, <2>2, <2>3, TypedGood
<1> HIDE DEF d
<1>6. r.c \in Section("configs")
  BY <1>0, <1>5, EnqueueGood DEF Good
<1> HIDE DEF c
<1> QED  BY <1>1, <1>2, <1>4, <1>5, <1>6, ActivatedMoves DEF FormTo, c

LEMMA DeleteForms ==
  ASSUME SaveInv, FormInv, ~EditsWhileLoading, NEW p \in Panels, NEW id \in ConfigIds, Sync!Delete(p, id)
  PROVE  FormInv'
<1>b. PICK b \in BOOLEAN : b = FALSE
  OBVIOUS
<1> DEFINE c == settingsPanel[p]["configs"]
           d == Sync!Typed(c, id, 0, b)
           r == Sync!Enqueue(p, "configs", d)
           l == settingsPanel[p]["llm"]
           active == l.form = Sync!Choice(id)
<1>0. "configs" \in Sync!Sections /\ "llm" \in Sync!Sections
  BY DEF Sync!Sections
<1>1. /\ Sync!Editing(p, "configs", {id}) /\ settingsJobs' = settingsJobs \cup r.jobs
      /\ \E other \in ConfigIds \ {id} :
           /\ settingsPanel' = Sync!Activated(p, r.c, IF active THEN other ELSE l.form["active"])
           /\ settingsFollow' = IF active THEN [settingsFollow EXCEPT ![p] = other] ELSE settingsFollow
  BY <1>b DEF Sync!Delete
<1>2. UNCHANGED <<settingsDisk, settingsInbox, settingsGaveUp, settingsChanged, settingsReloads>>
  BY <1>1 DEF Sync!Editing
<1>3. /\ settingsTouched'[p] = settingsTouched[p] \cup ({"configs"} \X {id}) /\ 0 \in 0..MaxEdits + 1
      /\ c.base # Sync!Nil /\ Good(settingsTouched[p], settingsKnown, "configs", c)
  BY <1>0, <1>1, EditingIs, EditsAreCounted
<1>4. d \in Section("configs") /\ FormTo(d, c)
  BY <1>3 DEF Good, Section, FormTo, Value, Sync!Typed
<1>5. Good(settingsTouched'[p], settingsKnown, "configs", d) /\ d.base # Sync!Nil
  <2>1. settingsTouched[p] \subseteq settingsTouched'[p] /\ <<"configs", id>> \in settingsTouched'[p]
    BY <1>3
  <2>2. 0 \in 0..MaxEdits + 1
    BY <1>3
  <2>3. Good(settingsTouched[p], settingsKnown, "configs", c) /\ c.base # Sync!Nil
    BY <1>3
  <2> HIDE DEF c
  <2> QED  BY <2>1, <2>2, <2>3, TypedGood
<1>6. l.form["active"] \in ConfigIds /\ l.form = Sync!Choice(l.form["active"])
  <2>1. l.form \in [{"active"} -> ConfigIds]
    BY <1>0 DEF SaveInv, PanelInv, Good, Section, Value
  <2> QED  BY <2>1 DEF Sync!Choice
<1> HIDE DEF d
<1>7. r.c \in Section("configs")
  BY <1>0, <1>5, EnqueueGood DEF Good
<1> HIDE DEF r, c, active
<1>9. PICK other \in ConfigIds \ {id} :
        /\ settingsPanel' = Sync!Activated(p, r.c, IF active THEN other ELSE l.form["active"])
        /\ settingsFollow' = IF active THEN [settingsFollow EXCEPT ![p] = other] ELSE settingsFollow
  BY <1>1
<1>10. PICK new \in ConfigIds : /\ settingsPanel' = Sync!Activated(p, r.c, new)
                                /\ \/ settingsFollow' = [settingsFollow EXCEPT ![p] = new]
                                   \/ settingsFollow' = settingsFollow /\ l.form = Sync!Choice(new)
  BY <1>6, <1>9
<1> HIDE DEF l
<1> QED  BY <1>1, <1>2, <1>4, <1>5, <1>7, <1>10, ActivatedMoves DEF FormTo, c, l, r

LEMMA KeepMineForms ==
  ASSUME SaveInv, FormInv, NEW p \in Panels, NEW s \in Sync!Sections, Sync!KeepMine(p, s)
  PROVE  FormInv'
<1>w. PICK w : w = TRUE
  OBVIOUS
<1> DEFINE c == settingsPanel[p][s]
           r == Sync!Resolve(p, s, c, c.staged, w)
           x == Excused(p, s)
<1>1. /\ c.staged # Sync!Nil /\ c.sent = Sync!Nil /\ Sync!Do(p, s, r) /\ UNCHANGED <<settingsDisk, settingsFollow, settingsInbox, settingsChanged, settingsGaveUp, settingsReloads>>
  BY <1>w DEF Sync!KeepMine
<1>2. Good(settingsTouched[p], settingsKnown, s, c) /\ c.base # Sync!Nil /\ EditOk(x, c)
  BY <1>1 DEF SaveInv, PanelInv, Good, Blank, FormInv, EditInv
<1>3. c.staged \in [value : Value(s), rev : Value(s)] /\ GoodSnap(settingsKnown, s, c.staged)
  BY <1>1, <1>2, StagedSnap
<1>4. r.c \in Section(s) /\ r.c.base # Sync!Nil
  BY <1>1, <1>2, <1>3, ResolveGood DEF Good
<1> HIDE DEF x
<1>5. x \/ Edits(c)
  BY <1>2, EditBefore
<1> HIDE DEF c
<1>6. EditOk(x, r.c) /\ (Busy(c) => Busy(r.c)) /\ Says(c.staged.rev, r.c)
  BY <1>1, <1>2, <1>3, <1>5, ResolveEdit
<1>7. Effect(p, s, r) /\ ResolvedTo(r.c, c, c.staged, w)
  BY <1>1, <1>2, <1>3, ResolveTo
<1> HIDE DEF r
<1>8. Done(p, s, c, r)
  BY <1>1, <1>7 DEF Done
<1>9. StaysCalm(p, s, c, r.c, r.jobs)
  <2>1. CASE r.c.sent # Sync!Nil
    BY <2>1, <1>1, <1>8, DoneIs DEF StaysCalm
  <2>2. CASE GaveUp(p, s)
    BY <2>2 DEF StaysCalm
  <2>3. CASE r.c.sent = Sync!Nil /\ ~GaveUp(p, s)
    <3>1. r.c.form # Sync!Nil
      BY <1>4, NilIsNone DEF Section
    <3>2. c.queued = Sync!Nil /\ Ready(r.c) /\ r.c.timer = c.timer
      BY <2>3, <3>1, <1>w, <1>7 DEF ResolvedTo, Ready
    <3>3. c.timer \/ Waiting(p, s)
      BY <1>1, <1>2, <2>3, <3>2 DEF EditOk, Excused, x
    <3> QED  BY <3>2, <3>3 DEF Calm, StaysCalm
  <2> QED  BY <2>1, <2>2, <2>3
<1> QED  BY <1>1, <1>4, <1>6, <1>8, <1>9, OneMoves DEF c, x

LEMMA TakeTheirsForms ==
  ASSUME SaveInv, FormInv, NEW p \in Panels, NEW s \in Sync!Sections, Sync!TakeTheirs(p, s)
  PROVE  FormInv'
<1> DEFINE c == settingsPanel[p][s]
           d == [c EXCEPT !.queued = Sync!Nil, !.conflict = FALSE, !.timer = FALSE, !.staged = Sync!Nil]
           e == Sync!Committed(d, c.staged, c.staged.value)
<1>0. "configs" \in Sync!Sections /\ "llm" \in Sync!Sections /\ Sync!Sections = {"configs", "llm"}
  BY DEF Sync!Sections
<1>1. /\ c.staged # Sync!Nil /\ c.sent = Sync!Nil /\ settingsPanel' = [settingsPanel EXCEPT ![p][s] = e]
      /\ settingsFollow' = IF s = "configs" THEN [settingsFollow EXCEPT ![p] = 0] ELSE settingsFollow
      /\ settingsGaveUp' = settingsGaveUp \cup (IF s = "configs" /\ settingsFollow[p] # 0 THEN {<<p, "llm">>} ELSE {})
                          \cup (IF c.staged.rev # settingsDisk[s] THEN {<<p, s>>} ELSE {})
      /\ UNCHANGED <<settingsDisk, settingsJobs, settingsInbox, settingsChanged, settingsTouched, settingsKnown, settingsEdits, settingsReloads>>
  BY DEF Sync!TakeTheirs
<1>3. c \in Section(s) /\ Good(settingsTouched[p], settingsKnown, s, c) /\ c.base # Sync!Nil
  BY <1>1 DEF SaveInv, PanelInv, Good, Blank
<1>4. c.staged.value \in Value(s) /\ c.staged.rev \in Value(s) /\ c.staged.value # Sync!Nil
  BY <1>1, <1>3, StagedSnap, NilIsNone
<1>5. d \in Section(s) /\ d.sent = Sync!Nil /\ d.queued = Sync!Nil /\ d.staged = Sync!Nil /\ d.conflict = FALSE /\ d.timer = FALSE
  BY <1>1, <1>3 DEF Section, Maybe
<1> HIDE DEF d
<1>7. e \in Section(s) /\ CommittedTo(e, d, c.staged, c.staged.value)
  BY <1>4, <1>5, CommittedIs
<1>8. /\ e.form = c.staged.value /\ e.base = c.staged.value /\ e.rev = c.staged.rev /\ e.sent = Sync!Nil
      /\ e.queued = Sync!Nil /\ e.staged = Sync!Nil
  BY <1>5, <1>7 DEF CommittedTo
<1> HIDE DEF e
<1>9. \A q \in Panels : \A t \in Sync!Sections : settingsPanel'[q][t] = IF q = p /\ t = s THEN e ELSE settingsPanel[q][t]
  BY <1>1, <1>7, PanelSet DEF SaveInv
<1>10. settingsPanel \in [Panels -> [Sync!Sections -> Section("configs") \cup Section("llm")]] /\ settingsPanel' \in [Panels -> [Sync!Sections -> Section("configs") \cup Section("llm")]]
  BY <1>1, <1>7, PanelSet DEF SaveInv, PanelInv
<1>11. \A q \in Panels \ {p} : settingsPanel'[q] = settingsPanel[q] /\ settingsFollow'[q] = settingsFollow[q]
  BY <1>1, <1>9, <1>10 DEF SaveInv, RestTypes
<1>12. \A x : EditOk(x, e)
  BY <1>8 DEF EditOk
<1>13. GaveUp(p, s)' \/ \A w : Calm(settingsDisk[s], w, e)
  BY <1>1, <1>8 DEF GaveUp, Calm
<1>14. settingsGaveUp \subseteq settingsGaveUp'
  BY <1>1
<1>15. ASSUME NEW t \in Sync!Sections, t # s
       PROVE  (GaveUp(p, t) => GaveUp(p, t)') /\ (Waiting(p, t) => Waiting(p, t)' \/ GaveUp(p, t)')
  <2>1. CASE s = "configs"
    BY <1>0, <1>1, <1>15, <2>1 DEF GaveUp, Waiting, WaitsFor
  <2>2. CASE s = "llm"
    BY <1>0, <1>1, <1>15, <2>2 DEF GaveUp, Waiting
  <2> QED  BY <1>0, <2>1, <2>2
<1>16. ASSUME NEW t \in Sync!Sections PROVE EditOk(Excused(p, t)', settingsPanel'[p][t])
  <2>1. CASE t = s
    BY <2>1, <1>9, <1>12
  <2>2. CASE t # s
    <3>1. EditOk(Excused(p, t), settingsPanel[p][t]) /\ settingsPanel'[p][t] = settingsPanel[p][t]
      BY <2>2, <1>9 DEF FormInv, EditInv
    <3>2. Excused(p, t) => Excused(p, t)'
      BY <2>2, <1>15 DEF Excused
    <3> QED  BY <3>1, <3>2, EditGrows
  <2> QED  BY <2>1, <2>2
<1>17. ASSUME NEW t \in Sync!Sections, Settled(p, t) PROVE Settled(p, t)'
  <2>1. CASE t = s
    <3>1. settingsPanel'[p][t] = e
      BY <2>1, <1>9
    <3>2. \A w : Calm(settingsDisk[s], w, e) => Calm(settingsDisk'[s], w, settingsPanel'[p][s])
      BY <3>1, <2>1, <1>1
    <3> QED  BY <1>13, <3>2, <2>1 DEF Settled
  <2>2. CASE t # s
    <3>0. settingsPanel'[p][t] = settingsPanel[p][t]
      BY <2>2, <1>9
    <3>1. CASE GaveUp(p, t)
      BY <3>1, <2>2, <1>15 DEF Settled
    <3>2. CASE Tried(p, settingsReloads[p], t, settingsJobs, settingsInbox[p])
      BY <3>2, <1>1 DEF Settled
    <3>3. CASE Calm(settingsDisk[t], Waiting(p, t), settingsPanel[p][t])
      BY <3>0, <3>3, <2>2, <1>1, <1>15, CalmGrows DEF Settled
    <3> QED  BY <1>17, <3>1, <3>2, <3>3 DEF Settled
  <2> QED  BY <2>1, <2>2
<1>18. settingsPanel[p]["configs"].sent # Sync!Nil => \A x : MissedAt(p, x) => MissedAt(p, x)'
  <2>1. CASE s = "configs"
    BY <2>1, <1>1
  <2>2. CASE s # "configs"
    <3>1. settingsPanel'[p]["configs"] = settingsPanel[p]["configs"] /\ settingsFollow' = settingsFollow
      BY <1>0, <1>1, <1>9, <2>2
    <3> QED  BY <1>1, <1>14, <3>1 DEF MissedAt, Missed, GaveUp
  <2> QED  BY <2>1, <2>2
<1>19. PICK js : js = {}
  OBVIOUS
<1>20. Asked(p, settingsReloads[p], js) /\ settingsJobs' = settingsJobs \cup js
  BY <1>1, <1>19 DEF Asked
<1>21. \A t \in Sync!Sections : Makes(t, settingsPanel[p][t], settingsPanel'[p][t], js) /\ (settingsPanel'[p][t].base = Sync!Nil => settingsPanel[p][t].base = Sync!Nil)
  <2>1. e.base # Sync!Nil
    BY <1>4, <1>8
  <2>2. \A t \in Sync!Sections : (settingsPanel[p][t].sent # Sync!Nil <=> settingsPanel'[p][t].sent # Sync!Nil) /\ (settingsPanel'[p][t].base = Sync!Nil => settingsPanel[p][t].base = Sync!Nil)
    BY <2>1, <1>1, <1>8, <1>9
  <2> QED  BY <2>2, <1>19 DEF Makes
<1> QED  BY <1>1, <1>11, <1>14, <1>16, <1>17, <1>18, <1>20, <1>21, PanelMoves

-----------------------------------------------------------------------------
(* Edits: a reload and the host.                                             *)

LEMMA SettledStays ==
  ASSUME NEW q \in Panels, NEW s \in Sync!Sections, settingsPanel'[q][s] = settingsPanel[q][s],
         settingsDisk'[s] = settingsDisk[s], settingsGaveUp \subseteq settingsGaveUp',
         Waiting(q, s) => Waiting(q, s)' \/ GaveUp(q, s)',
         Tried(q, settingsReloads[q], s, settingsJobs, settingsInbox[q]) => Tried(q, settingsReloads'[q], s, settingsJobs', settingsInbox'[q]), Settled(q, s)
  PROVE  Settled(q, s)'
<1>1. CASE GaveUp(q, s)
  BY <1>1 DEF Settled, GaveUp
<1>2. CASE Calm(settingsDisk[s], Waiting(q, s), settingsPanel[q][s])
  BY <1>2, CalmGrows DEF Settled
<1>3. CASE Tried(q, settingsReloads[q], s, settingsJobs, settingsInbox[q])
  BY <1>3 DEF Settled
<1> QED  BY <1>1, <1>2, <1>3 DEF Settled

LEMMA EditsStay ==
  ASSUME FormInv, NEW q \in Panels, NEW s \in Sync!Sections, settingsPanel'[q][s] = settingsPanel[q][s],
         settingsGaveUp \subseteq settingsGaveUp',
         Waiting(q, s) => Waiting(q, s)' \/ GaveUp(q, s)'
  PROVE  EditOk(Excused(q, s)', settingsPanel'[q][s])
<1>1. EditOk(Excused(q, s), settingsPanel[q][s])
  BY DEF FormInv, EditInv
<1>2. Excused(q, s) => Excused(q, s)'
  BY DEF Excused, GaveUp
<1> QED  BY <1>1, <1>2, EditGrows

LEMMA ReloadForms ==
  ASSUME SaveInv, FormInv, NEW p \in Panels, Sync!Reload(p)
  PROVE  FormInv'
<1> DEFINE n == settingsReloads[p]
<1>1. /\ settingsReloads' = [settingsReloads EXCEPT ![p] = @ + 1]
      /\ settingsPanel' = [settingsPanel EXCEPT ![p] = [s \in Sync!Sections |-> Unread(settingsPanel[p][s])]]
      /\ settingsJobs' = settingsJobs \cup {Sync!Get({p}, s) : s \in Sync!Sections}
      /\ UNCHANGED <<settingsDisk, settingsFollow, settingsInbox, settingsChanged, settingsTouched, settingsGaveUp, settingsKnown>>
  BY DEF Sync!Reload, Unread
<1>2. \A q \in Panels : settingsReloads[q] \in Nat /\ settingsReloads'[q] = IF q = p THEN n + 1 ELSE settingsReloads[q]
  BY <1>1 DEF SaveInv, RestTypes
<1>3. \A q \in Panels : \A s \in Sync!Sections : settingsPanel'[q][s] = IF q = p THEN Unread(settingsPanel[p][s]) ELSE settingsPanel[q][s]
  BY <1>1 DEF SaveInv, PanelInv
<1>4. \A q \in Panels \ {p} : settingsPanel'[q] = settingsPanel[q] /\ settingsFollow'[q] = settingsFollow[q] /\ settingsReloads'[q] = settingsReloads[q]
  BY <1>1, <1>2 DEF SaveInv, PanelInv
<1>5. ASSUME NEW s \in Sync!Sections
      PROVE  LET d == Unread(settingsPanel[p][s]) IN d.base = Sync!Nil /\ d.sent = Sync!Nil /\ d.queued = Sync!Nil /\ d.staged = Sync!Nil
  BY UnreadIs DEF SaveInv, PanelInv, Good
<1>6. ASSUME NEW s \in Sync!Sections
      PROVE  LET d == settingsPanel'[p][s] IN d.base = Sync!Nil /\ d.sent = Sync!Nil /\ d.queued = Sync!Nil /\ d.staged = Sync!Nil
  BY <1>3, <1>5
<1>7. ASSUME NEW j \in settingsJobs', j \notin settingsJobs
      PROVE  j.kind = "get" /\ j.at = "read" /\ j.id = 0 /\ \E s \in Sync!Sections : j.s = s
  BY <1>1, <1>7 DEF Sync!Get
<1>8. ASSUME NEW s \in Sync!Sections PROVE \E j \in settingsJobs' : Answering(p, s, j)
  <2>1. Answering(p, s, Sync!Get({p}, s))
    BY DEF Answering, Sync!Get
  <2> QED  BY <2>1, <1>1
<1>9. \A q \in Panels : \A i \in DOMAIN settingsInbox[q] : settingsInbox[q][i].id \in Nat /\ settingsInbox[q][i].id <= settingsReloads[q] + 1
  BY DEF SaveInv, MailInv, GoodMail, Messages, Message, FormInv, TokenInv
<1> HIDE DEF n
<1>10. ASSUME NEW j \in settingsJobs', NEW q \in Panels PROVE Numbered(j, q, settingsReloads'[q])
  <2>1. CASE j \in settingsJobs
    <3>1. Numbered(j, q, settingsReloads[q])
      BY <2>1 DEF FormInv, TokenInv
    <3>2. settingsReloads[q] \in Nat /\ settingsReloads'[q] \in Nat /\ settingsReloads[q] <= settingsReloads'[q]
      BY <1>2 DEF n
    <3>3. 1..settingsReloads[q] + 1 \subseteq 1..settingsReloads'[q] + 1
      BY <3>2
    <3> QED  BY <3>1, <3>3 DEF Numbered
  <2>2. CASE j \notin settingsJobs
    BY <2>2, <1>7 DEF Numbered
  <2> QED  BY <2>1, <2>2
<1>11. ASSUME NEW s \in Sync!Sections
       PROVE  (\A j \in settingsJobs' : ~Mine(p, settingsReloads'[p], s, j)) /\ (\A i \in DOMAIN settingsInbox'[p] : ~Ours(settingsReloads'[p], s, settingsInbox'[p][i]))
  <2>1. ASSUME NEW j \in settingsJobs', Mine(p, settingsReloads'[p], s, j) PROVE FALSE
    <3>1. j \in settingsJobs
      BY <2>1, <1>7 DEF Mine
    <3>2. j.kind = "update" /\ p \in j.for /\ j.id \in 1..settingsReloads[p] + 1
      BY <2>1, <3>1 DEF Mine, FormInv, TokenInv, Numbered
    <3> QED  BY <2>1, <3>2, <1>2 DEF Mine, n
  <2>2. ASSUME NEW i \in DOMAIN settingsInbox'[p],
               Ours(settingsReloads'[p], s, settingsInbox'[p][i]) PROVE FALSE
    BY <2>2, <1>1, <1>2, <1>9 DEF Ours, n
  <2> QED  BY <2>1, <2>2
<1>12. ASSUME NEW q \in Panels \ {p}, NEW s \in Sync!Sections
       PROVE  \A j : Mine(q, settingsReloads[q], s, j) => (j \in settingsJobs <=> j \in settingsJobs')
  BY <1>1, <1>7 DEF Mine
<1>13. TokenInv'
  <2>1. \A q \in Panels : \A i \in DOMAIN settingsInbox'[q] : settingsInbox'[q][i].id <= settingsReloads'[q] + 1
    BY <1>1, <1>2, <1>9 DEF n
  <2>2. ASSUME NEW q \in Panels,
               NEW s \in Sync!Sections PROVE Token(q, settingsReloads'[q], s, settingsPanel'[q][s], settingsJobs', settingsInbox'[q])
    <3>1. CASE q = p
      BY <3>1, <1>6, <1>11 DEF Token
    <3>2. CASE q # p
      <4>1. Token(q, settingsReloads[q], s, settingsPanel[q][s], settingsJobs, settingsInbox[q])
        BY DEF FormInv, TokenInv
      <4>2. \A j : Mine(q, settingsReloads[q], s, j) => (j \in settingsJobs <=> j \in settingsJobs')
        BY <3>2, <1>12
      <4>3. Token(q, settingsReloads[q], s, settingsPanel[q][s], settingsJobs', settingsInbox[q])
        BY <4>1, <4>2, TokenSame
      <4> QED  BY <3>2, <4>3, <1>1, <1>4
    <3> QED  BY <3>1, <3>2
  <2> QED  BY <1>10, <2>1, <2>2 DEF TokenInv
<1>14. ComingInv'
  <2> SUFFICES ASSUME NEW q \in Panels, NEW s \in Sync!Sections, settingsPanel'[q][s].base = Sync!Nil
               PROVE  Coming(q, s, settingsJobs', settingsInbox'[q])
    BY DEF ComingInv
  <2>1. CASE q = p
    BY <2>1, <1>8 DEF Coming
  <2>2. CASE q # p
    BY <2>2, <1>1, <1>4 DEF FormInv, ComingInv, Coming
  <2> QED  BY <2>1, <2>2
<1>15. ASSUME NEW q \in Panels \ {p}, NEW s \in Sync!Sections
       PROVE  settingsPanel'[q][s] = settingsPanel[q][s] /\ (Waiting(q, s) => Waiting(q, s)')
  BY <1>1, <1>4, ExcusesStay
<1>16. EditInv'
  <2> SUFFICES ASSUME NEW q \in Panels, NEW s \in Sync!Sections PROVE EditOk(Excused(q, s)', settingsPanel'[q][s])
    BY DEF EditInv
  <2>1. CASE q = p
    BY <2>1, <1>6 DEF EditOk
  <2>2. CASE q # p
    BY <2>2, <1>1, <1>15, EditsStay
  <2> QED  BY <2>1, <2>2
<1>17. FreshInv'
  <2> SUFFICES ASSUME NEW s \in Sync!Sections \ settingsChanged'
               PROVE  (\A j \in settingsJobs' : Current(s, settingsDisk'[s], j)) /\ \A q \in Panels : Told(q, s)'
    BY DEF FreshInv
  <2>0. s \in Sync!Sections \ settingsChanged /\ settingsDisk'[s] = settingsDisk[s]
    BY <1>1
  <2>1. (\A j \in settingsJobs : Current(s, settingsDisk[s], j)) /\ \A q \in Panels : Told(q, s)
    BY <2>0 DEF FormInv, FreshInv
  <2>2. \A j \in settingsJobs' : Current(s, settingsDisk'[s], j)
    BY <2>0, <2>1, <1>7 DEF Current
  <2>3. ASSUME NEW q \in Panels PROVE Told(q, s)'
    <3>1. CASE q = p
      BY <3>1, <1>8 DEF Told
    <3>2. CASE q # p /\ ((\E j \in settingsJobs : Answering(q, s, j)) \/ Newest(s, settingsDisk[s], settingsInbox[q]))
      BY <3>2, <1>1 DEF Told
    <3>3. CASE q # p /\ (\A i \in DOMAIN settingsInbox[q] : ~IsSnap(s, settingsInbox[q][i])) /\ Settled(q, s)
      <4>1. Settled(q, s)'
        BY <3>3, <1>1, <1>4, <1>15, SettledStays DEF Tried
      <4> QED  BY <3>3, <4>1, <1>1 DEF Told
    <3> QED  BY <2>1, <3>1, <3>2, <3>3 DEF Told
  <2> QED  BY <2>2, <2>3
<1>18. MissedInv'
  <2>0. "configs" \in Sync!Sections
    BY DEF Sync!Sections
  <2>1. ASSUME NEW q \in Panels \ {p}, NEW x, MissedAt(q, x) PROVE MissedAt(q, x)'
    BY <2>1, <1>1, <1>4 DEF MissedAt, Missed, GaveUp
  <2>2. ASSUME NEW q \in Panels, NEW j \in settingsJobs', Mine(q, settingsReloads'[q], "configs", j),
               j.at = "publish"
        PROVE  MissedAt(q, j)'
    <3>1. q # p
      BY <2>0, <2>2, <1>11
    <3>2. j \in settingsJobs
      BY <2>2, <1>7
    <3> QED  BY <2>1, <2>2, <3>1, <3>2, <1>4 DEF FormInv, MissedInv
  <2>3. ASSUME NEW q \in Panels, NEW i \in DOMAIN settingsInbox'[q],
               Ours(settingsReloads'[q], "configs", settingsInbox'[q][i]),
         settingsInbox'[q][i].code = "snapshot"
        PROVE  \A x : x = settingsInbox'[q][i] => MissedAt(q, x)'
    <3>1. q # p
      BY <2>0, <2>3, <1>11
    <3>2. \A x : x = settingsInbox[q][i] => MissedAt(q, x)
      BY <2>3, <3>1, <1>1, <1>4 DEF FormInv, MissedInv
    <3> QED  BY <2>1, <3>1, <3>2, <1>1
  <2> QED  BY <2>2, <2>3 DEF MissedInv
<1> QED  BY <1>13, <1>14, <1>16, <1>17, <1>18 DEF FormInv

\* The host has sections read again, or another window saves.
LEMMA HostAsks ==
  ASSUME SaveInv, FormInv,
         UNCHANGED <<settingsPanel, settingsFollow, settingsInbox, settingsGaveUp, settingsReloads>>, NEW js,
         settingsJobs' = settingsJobs \cup js,
         \A j \in js : j.kind # "update" /\ j.at = "read" /\ j.id = 0,
         \A s \in Sync!Sections \ settingsChanged' :
           \/ s \notin settingsChanged /\ settingsDisk'[s] = settingsDisk[s]
           \/ (\A j \in settingsJobs : j.at \notin {"answer", "publish"}) /\ \A q \in Panels : \E j \in js : Answering(q, s, j),
         \A id \in ConfigIds : settingsDisk["configs"][id] = 0 => settingsDisk'["configs"][id] = 0
  PROVE  FormInv'
<1>0. "configs" \in Sync!Sections /\ settingsFollow \in [Panels -> ConfigIds \cup {0}]
  BY DEF Sync!Sections, SaveInv, RestTypes
<1>1. TokenInv'
  <2>1. ASSUME NEW j \in settingsJobs', NEW q \in Panels PROVE Numbered(j, q, settingsReloads'[q])
    BY DEF FormInv, TokenInv, Numbered
  <2>2. ASSUME NEW q \in Panels,
               NEW s \in Sync!Sections PROVE Token(q, settingsReloads'[q], s, settingsPanel'[q][s], settingsJobs', settingsInbox'[q])
    <3>1. \A j : Mine(q, settingsReloads[q], s, j) => (j \in settingsJobs <=> j \in settingsJobs')
      BY DEF Mine
    <3>2. Token(q, settingsReloads[q], s, settingsPanel[q][s], settingsJobs', settingsInbox[q])
      BY <3>1, TokenSame DEF FormInv, TokenInv
    <3> QED  BY <3>2
  <2> QED  BY <2>1, <2>2 DEF FormInv, TokenInv
<1>2. ComingInv'
  BY DEF FormInv, ComingInv, Coming
<1>3. ASSUME NEW q \in Panels, NEW s \in Sync!Sections PROVE Waiting(q, s) => Waiting(q, s)'
  BY <1>0 DEF Waiting, WaitsFor, GaveUp
<1>4. EditInv'
  BY <1>3, EditsStay DEF EditInv
<1>5. FreshInv'
  <2> SUFFICES ASSUME NEW s \in Sync!Sections \ settingsChanged'
               PROVE  (\A j \in settingsJobs' : Current(s, settingsDisk'[s], j)) /\ \A q \in Panels : Told(q, s)'
    BY DEF FreshInv
  <2>1. CASE s \notin settingsChanged /\ settingsDisk'[s] = settingsDisk[s]
    <3>0. s \in Sync!Sections \ settingsChanged
      BY <2>1
    <3>1. (\A j \in settingsJobs : Current(s, settingsDisk[s], j)) /\ \A q \in Panels : Told(q, s)
      BY <3>0 DEF FormInv, FreshInv
    <3>2. \A j \in settingsJobs' : Current(s, settingsDisk'[s], j)
      BY <2>1, <3>1 DEF Current
    <3>3. ASSUME NEW q \in Panels PROVE Told(q, s)'
      <4>1. CASE (\E j \in settingsJobs : Answering(q, s, j)) \/ Newest(s, settingsDisk[s], settingsInbox[q])
        BY <2>1, <4>1 DEF Told
      <4>2. CASE (\A i \in DOMAIN settingsInbox[q] : ~IsSnap(s, settingsInbox[q][i])) /\ Settled(q, s)
        <5>1. Settled(q, s)'
          BY <2>1, <4>2, <1>3, SettledStays DEF Tried
        <5> QED  BY <4>2, <5>1 DEF Told
      <4> QED  BY <3>1, <4>1, <4>2 DEF Told
    <3> QED  BY <3>2, <3>3
  <2>2. CASE (\A j \in settingsJobs : j.at \notin {"answer", "publish"}) /\ \A q \in Panels : \E j \in js : Answering(q, s, j)
    BY <2>2 DEF Current, Told
  <2> QED  BY <2>1, <2>2
<1>6. MissedInv'
  <2>1. ASSUME NEW q \in Panels, NEW x, MissedAt(q, x) PROVE MissedAt(q, x)'
    BY <2>1, <1>0 DEF MissedAt, Missed, GaveUp
  <2>2. ASSUME NEW q \in Panels, NEW j \in settingsJobs', Mine(q, settingsReloads'[q], "configs", j),
               j.at = "publish"
        PROVE  MissedAt(q, j)'
    <3>1. j \in settingsJobs
      BY <2>2
    <3> QED  BY <2>1, <2>2, <3>1 DEF FormInv, MissedInv
  <2>3. ASSUME NEW q \in Panels, NEW i \in DOMAIN settingsInbox'[q],
               Ours(settingsReloads'[q], "configs", settingsInbox'[q][i]),
         settingsInbox'[q][i].code = "snapshot"
        PROVE  \A x : x = settingsInbox'[q][i] => MissedAt(q, x)'
    <3>1. \A x : x = settingsInbox[q][i] => MissedAt(q, x)
      BY <2>3 DEF FormInv, MissedInv
    <3> QED  BY <2>1, <3>1
  <2> QED  BY <2>2, <2>3 DEF MissedInv
<1> QED  BY <1>1, <1>2, <1>4, <1>5, <1>6 DEF FormInv

LEMMA WatcherForms ==
  ASSUME SaveInv, FormInv, Sync!WatcherFires
  PROVE  FormInv'
<1> DEFINE w(s) == [Sync!Get(Panels, s) EXCEPT !.kind = "watch"]
           js == {w(s) : s \in settingsChanged}
<1>1. /\ settingsJobs' = settingsJobs \cup js /\ settingsChanged' = {} /\ \A j \in settingsJobs : j.at \notin {"answer", "publish"}
      /\ UNCHANGED <<settingsDisk, settingsPanel, settingsFollow, settingsInbox, settingsGaveUp, settingsReloads>>
  BY DEF Sync!WatcherFires
<1>2. \A s : w(s).kind = "watch" /\ w(s).for = Panels /\ w(s).at = "read" /\ w(s).id = 0 /\ w(s).s = s
  BY DEF Sync!Get
<1> HIDE DEF w
<1>3. \A j \in js : j.kind # "update" /\ j.at = "read" /\ j.id = 0
  BY <1>2
<1>4. \A s \in settingsChanged : \A q \in Panels : \E j \in js : Answering(q, s, j)
  BY <1>2 DEF Answering
<1> HIDE DEF js
<1>5. \A s \in Sync!Sections \ settingsChanged' :
        \/ s \notin settingsChanged /\ settingsDisk'[s] = settingsDisk[s]
        \/ (\A j \in settingsJobs : j.at \notin {"answer", "publish"}) /\ \A q \in Panels : \E j \in js : Answering(q, s, j)
  BY <1>1, <1>4
<1> QED  BY <1>1, <1>3, <1>5, HostAsks

LEMMA ElsewhereForms ==
  ASSUME SaveInv, FormInv, Sync!Elsewhere
  PROVE  FormInv'
<1> USE EditsAreCounted
<1>1. settingsChanged' = settingsChanged \cup {"configs"} /\ UNCHANGED <<settingsPanel, settingsFollow, settingsJobs, settingsInbox, settingsGaveUp, settingsReloads>>
  BY DEF Sync!Elsewhere
<1>2. PICK id \in ConfigIds : settingsDisk["configs"][id] # 0 /\ settingsDisk' = [settingsDisk EXCEPT !["configs"][id] = settingsEdits + 2]
  BY DEF Sync!Elsewhere
<1>3. settingsDisk \in [Sync!Sections -> Value("configs") \cup Value("llm")] /\ settingsDisk["configs"] \in [ConfigIds -> 0..MaxEdits + 1]
  BY DEF SaveInv, DiskInv, Sync!Sections, Value
<1>4. \A s \in Sync!Sections \ settingsChanged' : s \notin settingsChanged /\ settingsDisk'[s] = settingsDisk[s]
  BY <1>1, <1>2, <1>3
<1>5. \A o \in ConfigIds : settingsDisk["configs"][o] = 0 => settingsDisk'["configs"][o] = 0
  BY <1>2, <1>3 DEF Sync!Sections
<1>6. PICK js : js = {}
  OBVIOUS
<1>7. settingsJobs' = settingsJobs \cup js /\ \A j \in js : j.kind # "update" /\ j.at = "read" /\ j.id = 0
  BY <1>1, <1>6
<1> QED  BY <1>1, <1>4, <1>5, <1>7, HostAsks

\* A job goes on.
SameJob(k, j) == k.kind = j.kind /\ k.for = j.for /\ k.s = j.s /\ k.id = j.id
LEMMA GoesOn ==
  ASSUME SaveInv, FormInv, UNCHANGED <<settingsPanel, settingsFollow, settingsInbox, settingsReloads>>,
         settingsGaveUp \subseteq settingsGaveUp', settingsChanged \subseteq settingsChanged',
         NEW j \in settingsJobs, NEW k, SameJob(k, j), settingsJobs' = (settingsJobs \ {j}) \cup {k},
         j.at \in {"read", "answer"} => k.at \in {"read", "answer"},
         \A s \in Sync!Sections \ settingsChanged' :
           /\ settingsDisk'[s] = settingsDisk[s] /\ Current(s, settingsDisk[s], k)
           /\ j.at \in {"save", "commit"} /\ j.s = s => k.at \in {"save", "commit", "read"},
         \A q \in Panels : \A s \in Sync!Sections : Waiting(q, s) => Waiting(q, s)' \/ GaveUp(q, s)',
         \A q \in Panels : \A x : ~Mine(q, settingsReloads[q], "configs", j) /\ MissedAt(q, x) => MissedAt(q, x)',
         \A q \in Panels : k.at = "publish" /\ k.s = "configs" => MissedAt(q, k)'
  PROVE  FormInv'
<1>0. "configs" \in Sync!Sections
  BY DEF Sync!Sections
<1>1. \A q \in Panels : \A s \in Sync!Sections : Mine(q, settingsReloads[q], s, k) <=> Mine(q, settingsReloads[q], s, j)
  BY DEF Mine, SameJob
<1>2. TokenInv'
  <2>1. ASSUME NEW i \in settingsJobs', NEW q \in Panels PROVE Numbered(i, q, settingsReloads'[q])
    <3>1. CASE i = k
      <4>1. Numbered(j, q, settingsReloads[q])
        BY DEF FormInv, TokenInv
      <4> QED  BY <3>1, <4>1 DEF Numbered, SameJob
    <3>2. CASE i \in settingsJobs
      BY <3>2 DEF FormInv, TokenInv
    <3> QED  BY <3>1, <3>2
  <2>2. ASSUME NEW q \in Panels,
               NEW s \in Sync!Sections PROVE Token(q, settingsReloads'[q], s, settingsPanel'[q][s], settingsJobs', settingsInbox'[q])
    <3>1. Token(q, settingsReloads[q], s, settingsPanel[q][s], settingsJobs, settingsInbox[q])
      BY DEF FormInv, TokenInv
    <3>2. Mine(q, settingsReloads[q], s, k) <=> Mine(q, settingsReloads[q], s, j)
      BY <1>1
    <3>3. Token(q, settingsReloads[q], s, settingsPanel[q][s], settingsJobs', settingsInbox[q])
      <4>1. \A i, l \in settingsJobs' : Mine(q, settingsReloads[q], s, i) /\ Mine(q, settingsReloads[q], s, l) => i = l
        BY <3>1, <3>2 DEF Token
      <4>2. \A i \in settingsJobs', l \in DOMAIN settingsInbox[q] : ~(Mine(q, settingsReloads[q], s, i) /\ Ours(settingsReloads[q], s, settingsInbox[q][l]))
        BY <3>1, <3>2 DEF Token
      <4>3. (\E i \in settingsJobs' : Mine(q, settingsReloads[q], s, i)) <=> (\E i \in settingsJobs : Mine(q, settingsReloads[q], s, i))
        BY <3>2
      <4> QED  BY <3>1, <4>1, <4>2, <4>3 DEF Token
    <3> QED  BY <3>3
  <2> QED  BY <2>1, <2>2 DEF FormInv, TokenInv
<1>3. ASSUME NEW q \in Panels, NEW s \in Sync!Sections PROVE Answering(q, s, j) => Answering(q, s, k)
  BY DEF Answering, SameJob
<1>4. ASSUME NEW q \in Panels, NEW s \in Sync!Sections,
             \E i \in settingsJobs : Answering(q, s, i) PROVE \E i \in settingsJobs' : Answering(q, s, i)
  BY <1>3, <1>4
<1>5. ComingInv'
  BY <1>4 DEF FormInv, ComingInv, Coming
<1>6. EditInv'
  BY EditsStay DEF EditInv
<1>7. FreshInv'
  <2> SUFFICES ASSUME NEW s \in Sync!Sections \ settingsChanged'
               PROVE  (\A i \in settingsJobs' : Current(s, settingsDisk'[s], i)) /\ \A q \in Panels : Told(q, s)'
    BY DEF FreshInv
  <2>0. s \in Sync!Sections \ settingsChanged /\ settingsDisk'[s] = settingsDisk[s]
    OBVIOUS
  <2>1. (\A i \in settingsJobs : Current(s, settingsDisk[s], i)) /\ \A q \in Panels : Told(q, s)
    BY <2>0 DEF FormInv, FreshInv
  <2>2. \A i \in settingsJobs' : Current(s, settingsDisk'[s], i)
    BY <2>0, <2>1
  <2>3. ASSUME NEW q \in Panels PROVE Told(q, s)'
    <3>1. CASE \E i \in settingsJobs : Answering(q, s, i)
      BY <3>1, <1>4 DEF Told
    <3>2. CASE Newest(s, settingsDisk[s], settingsInbox[q])
      BY <2>0, <3>2 DEF Told
    <3>3. CASE (\A i \in DOMAIN settingsInbox[q] : ~IsSnap(s, settingsInbox[q][i])) /\ Settled(q, s)
      <4>1. CASE Tried(q, settingsReloads[q], s, settingsJobs, settingsInbox[q]) => Tried(q, settingsReloads[q], s, settingsJobs', settingsInbox[q])
        <5>1. Settled(q, s)'
          BY <2>0, <3>3, <4>1, SettledStays
        <5> QED  BY <3>3, <5>1 DEF Told
      <4>2. CASE ~(Tried(q, settingsReloads[q], s, settingsJobs, settingsInbox[q]) => Tried(q, settingsReloads[q], s, settingsJobs', settingsInbox[q]))
        <5>1. Mine(q, settingsReloads[q], s, j) /\ j.at \in {"save", "commit"} /\ k.at \notin {"save", "commit"}
          BY <1>1, <4>2 DEF Tried
        <5>2. k.at = "read" /\ Answering(q, s, k)
          BY <5>1 DEF Mine, SameJob, Answering
        <5> QED  BY <5>2 DEF Told
      <4> QED  BY <4>1, <4>2
    <3> QED  BY <2>1, <3>1, <3>2, <3>3 DEF Told
  <2> QED  BY <2>2, <2>3
<1>8. MissedInv'
  <2>2. ASSUME NEW q \in Panels, NEW i \in settingsJobs', Mine(q, settingsReloads'[q], "configs", i),
               i.at = "publish"
        PROVE  MissedAt(q, i)'
    <3>1. CASE i = k
      BY <2>2, <3>1 DEF Mine
    <3>2. CASE i \in settingsJobs \ {j}
      <4>1. Token(q, settingsReloads[q], "configs", settingsPanel[q]["configs"], settingsJobs, settingsInbox[q])
        BY <1>0 DEF FormInv, TokenInv
      <4>2. ~Mine(q, settingsReloads[q], "configs", j)
        BY <2>2, <3>2, <4>1 DEF Token
      <4>3. MissedAt(q, i)
        BY <2>2, <3>2 DEF FormInv, MissedInv
      <4> QED  BY <4>2, <4>3
    <3> QED  BY <3>1, <3>2
  <2>3. ASSUME NEW q \in Panels, NEW i \in DOMAIN settingsInbox'[q],
               Ours(settingsReloads'[q], "configs", settingsInbox'[q][i]),
         settingsInbox'[q][i].code = "snapshot"
        PROVE  \A x : x = settingsInbox'[q][i] => MissedAt(q, x)'
    <3>1. Token(q, settingsReloads[q], "configs", settingsPanel[q]["configs"], settingsJobs, settingsInbox[q])
      BY <1>0 DEF FormInv, TokenInv
    <3>2. ~Mine(q, settingsReloads[q], "configs", j)
      BY <2>3, <3>1 DEF Token
    <3>3. \A x : x = settingsInbox[q][i] => MissedAt(q, x)
      BY <2>3 DEF FormInv, MissedInv
    <3> QED  BY <3>2, <3>3
  <2> QED  BY <2>2, <2>3 DEF MissedInv
<1> QED  BY <1>2, <1>5, <1>6, <1>7, <1>8 DEF FormInv

LEMMA ReadForms ==
  ASSUME SaveInv, FormInv, NEW j \in settingsJobs, Sync!Read(j)
  PROVE  FormInv'
<1> DEFINE k == [j EXCEPT !.at = "answer", !.value = Sync!Shown(j.s), !.rev = settingsDisk[j.s]]
<1>1. /\ j.at = "read" /\ settingsJobs' = (settingsJobs \ {j}) \cup {k}
      /\ UNCHANGED <<settingsDisk, settingsPanel, settingsFollow, settingsInbox, settingsChanged, settingsGaveUp, settingsReloads>>
  BY DEF Sync!Read
<1>2. j \in Job(j.s)
  BY DEF SaveInv, GoodJob
<1>3. SameJob(k, j) /\ k.at = "answer" /\ k.rev = settingsDisk[j.s]
  BY <1>2 DEF SameJob, Job
<1> HIDE DEF k
<1>4. \A s \in Sync!Sections : Current(s, settingsDisk[s], k)
  BY <1>3 DEF Current, SameJob
<1>5. \A q \in Panels : \A s \in Sync!Sections : Waiting(q, s) => Waiting(q, s)'
  BY <1>1 DEF Waiting, WaitsFor, GaveUp
<1>6. \A q \in Panels : \A x : MissedAt(q, x) => MissedAt(q, x)'
  BY <1>1 DEF MissedAt, Missed, GaveUp
<1> QED  BY <1>1, <1>3, <1>4, <1>5, <1>6, GoesOn

LEMMA LooksUpForms ==
  ASSUME SaveInv, FormInv, NEW j \in settingsJobs, Sync!LooksUp(j)
  PROVE  FormInv'
<1> DEFINE k == [j EXCEPT !.at = "commit", !.value = Sync!Named(@, settingsDisk["configs"])]
<1>1. /\ j.at = "save" /\ settingsJobs' = (settingsJobs \ {j}) \cup {k}
      /\ UNCHANGED <<settingsDisk, settingsPanel, settingsFollow, settingsInbox, settingsChanged, settingsGaveUp, settingsReloads>>
  BY DEF Sync!LooksUp
<1>2. j \in Job(j.s)
  BY DEF SaveInv, GoodJob
<1>3. SameJob(k, j) /\ k.at = "commit"
  BY <1>2 DEF SameJob, Job
<1> HIDE DEF k
<1>4. \A s \in Sync!Sections : Current(s, settingsDisk[s], k)
  BY <1>3 DEF Current
<1>5. \A q \in Panels : \A s \in Sync!Sections : Waiting(q, s) => Waiting(q, s)'
  BY <1>1 DEF Waiting, WaitsFor, GaveUp
<1>6. \A q \in Panels : \A x : MissedAt(q, x) => MissedAt(q, x)'
  BY <1>1 DEF MissedAt, Missed, GaveUp
<1> QED  BY <1>1, <1>3, <1>4, <1>5, <1>6, GoesOn

LEMMA CommitForms ==
  ASSUME SaveInv, FormInv, NEW j \in settingsJobs, Sync!Commit(j)
  PROVE  FormInv'
<1>1. /\ j.at \in {"save", "commit"} /\ UNCHANGED <<settingsPanel, settingsFollow, settingsInbox, settingsReloads>>
  BY DEF Sync!Commit
<1>2. j \in Job(j.s) /\ j.s \in Sync!Sections /\ j.kind = "update" /\ j.value \in Value(j.s)
  BY <1>1 DEF SaveInv, GoodJob
<1>3. settingsFollow \in [Panels -> ConfigIds \cup {0}] /\ settingsDisk \in [Sync!Sections -> Value("configs") \cup Value("llm")]
  BY DEF SaveInv, RestTypes, DiskInv
<1>4. CASE settingsDisk[j.s] = j.rev
  <2> DEFINE k == [j EXCEPT !.at = "publish", !.rev = j.value]
  <2>1. /\ settingsDisk' = [settingsDisk EXCEPT ![j.s] = j.value] /\ settingsChanged' = settingsChanged \cup {j.s}
        /\ settingsGaveUp' = settingsGaveUp \cup {<<p, "llm">> : p \in {q \in Panels : Sync!BroughtBy(j, q)}}
        /\ settingsJobs' = (settingsJobs \ {j}) \cup {k}
    BY <1>4 DEF Sync!Commit
  <2>2. SameJob(k, j) /\ k.at = "publish" /\ k.value = j.value
    BY <1>2 DEF SameJob, Job
  <2> HIDE DEF k
  <2>3. \A s \in Sync!Sections : settingsDisk'[s] = IF s = j.s THEN j.value ELSE settingsDisk[s]
    BY <1>2, <1>3, <2>1
  <2>4. \A s \in Sync!Sections \ settingsChanged' : settingsDisk'[s] = settingsDisk[s] /\ Current(s, settingsDisk[s], k) /\ j.s # s
    BY <2>1, <2>2, <2>3 DEF Current, SameJob
  <2>5. settingsGaveUp \subseteq settingsGaveUp' /\ \A q \in Panels : Sync!BroughtBy(j, q) => GaveUp(q, "llm")'
    BY <2>1 DEF GaveUp
  <2>6. ASSUME NEW q \in Panels, settingsDisk["configs"][settingsFollow[q]] = 0, settingsFollow[q] # 0,
               ~Mine(q, settingsReloads[q], "configs", j)
        PROVE  settingsDisk'["configs"][settingsFollow[q]] = 0 \/ GaveUp(q, "llm")'
    <3>1. CASE j.s = "configs"
      <4>1. CASE j.value[settingsFollow[q]] # 0
        <5>1. Sync!BroughtBy(j, q)
          BY <1>2, <2>6, <3>1, <4>1 DEF Sync!BroughtBy, Mine
        <5> QED  BY <5>1, <2>5
      <4>2. CASE j.value[settingsFollow[q]] = 0
        BY <2>3, <3>1, <4>2, <1>2
      <4> QED  BY <4>1, <4>2
    <3>2. CASE j.s # "configs"
      BY <2>3, <2>6, <3>2 DEF Sync!Sections
    <3> QED  BY <3>1, <3>2
  <2>7. ASSUME NEW q \in Panels, NEW s \in Sync!Sections, Waiting(q, s) PROVE Waiting(q, s)' \/ GaveUp(q, s)'
    <3>1. CASE Mine(q, settingsReloads[q], "configs", j)
      <4>1. "configs" \in Sync!Sections
        BY DEF Sync!Sections
      <4>2. settingsPanel[q]["configs"].sent # Sync!Nil
        BY <3>1, <4>1 DEF FormInv, TokenInv, Token
      <4> QED  BY <1>1, <2>7, <4>2 DEF Waiting, WaitsFor, Busy
    <3>2. CASE ~Mine(q, settingsReloads[q], "configs", j)
      <4>1. s = "llm" /\ settingsFollow[q] # 0 /\ (Busy(settingsPanel[q]["configs"]) \/ GaveUp(q, "configs") \/ settingsDisk["configs"][settingsFollow[q]] = 0)
        BY <2>7 DEF Waiting, WaitsFor
      <4>2. CASE Busy(settingsPanel[q]["configs"]) \/ GaveUp(q, "configs")
        BY <1>1, <2>5, <4>1, <4>2 DEF Waiting, WaitsFor, GaveUp
      <4>3. CASE settingsDisk["configs"][settingsFollow[q]] = 0
        <5>1. settingsDisk'["configs"][settingsFollow[q]] = 0 \/ GaveUp(q, "llm")'
          BY <2>6, <3>2, <4>1, <4>3
        <5> QED  BY <1>1, <4>1, <5>1 DEF Waiting, WaitsFor
      <4> QED  BY <4>1, <4>2, <4>3
    <3> QED  BY <3>1, <3>2
  <2>8. ASSUME NEW q \in Panels, NEW x, ~Mine(q, settingsReloads[q], "configs", j),
               MissedAt(q, x) PROVE MissedAt(q, x)'
    <3>1. CASE settingsFollow[q] # 0 /\ settingsDisk["configs"][settingsFollow[q]] = 0
      <4>1. settingsDisk'["configs"][settingsFollow[q]] = 0 \/ GaveUp(q, "llm")'
        BY <2>6, <2>8, <3>1
      <4> QED  BY <1>1, <4>1 DEF MissedAt, Missed
    <3>2. CASE ~(settingsFollow[q] # 0 /\ settingsDisk["configs"][settingsFollow[q]] = 0)
      BY <1>1, <2>5, <2>8, <3>2 DEF MissedAt, Missed, GaveUp
    <3> QED  BY <3>1, <3>2
  <2>9. ASSUME NEW q \in Panels, k.s = "configs" PROVE MissedAt(q, k)'
    <3>1. settingsDisk'["configs"] = k.value
      BY <1>2, <2>2, <2>3, <2>9 DEF SameJob
    <3> QED  BY <1>1, <3>1 DEF MissedAt, Missed
  <2> QED  BY <1>1, <2>1, <2>2, <2>4, <2>5, <2>7, <2>8, <2>9, GoesOn
<1>5. CASE settingsDisk[j.s] # j.rev
  <2> DEFINE k == [j EXCEPT !.at = "read"]
  <2>1. settingsJobs' = (settingsJobs \ {j}) \cup {k} /\ UNCHANGED <<settingsDisk, settingsChanged, settingsGaveUp>>
    BY <1>5 DEF Sync!Commit
  <2>2. SameJob(k, j) /\ k.at = "read"
    BY <1>2 DEF SameJob, Job
  <2> HIDE DEF k
  <2>3. \A s \in Sync!Sections : Current(s, settingsDisk[s], k)
    BY <2>2 DEF Current
  <2>4. \A q \in Panels : \A s \in Sync!Sections : Waiting(q, s) => Waiting(q, s)'
    BY <1>1, <2>1 DEF Waiting, WaitsFor, GaveUp
  <2>5. \A q \in Panels : \A x : MissedAt(q, x) => MissedAt(q, x)'
    BY <1>1, <2>1 DEF MissedAt, Missed, GaveUp
  <2> QED  BY <1>1, <2>1, <2>2, <2>3, <2>4, <2>5, GoesOn
<1> QED  BY <1>4, <1>5

\* The messages b come after the messages a.
Adds(a, b, q) ==
  /\ Len(a) \in Nat /\ DOMAIN a = 1..Len(a)
  /\ \A i \in DOMAIN a : i \in DOMAIN q /\ q[i] = a[i]
  /\ \A i \in DOMAIN b : i \in Nat \ {0} /\ Len(a) + i \in DOMAIN q /\ q[Len(a) + i] = b[i]
  /\ \A i \in DOMAIN q : i \in DOMAIN a \/ (i - Len(a) \in DOMAIN b /\ i = Len(a) + (i - Len(a)) /\ q[i] = b[i - Len(a)])
LEMMA AddsIs ==
  ASSUME NEW a \in Seq(Messages), NEW b \in Seq(Messages)
  PROVE  Adds(a, b, a \o b)
<1>1. /\ Len(a \o b) = Len(a) + Len(b) /\ a \o b \in Seq(Messages)
      /\ \A i \in 1..Len(a) + Len(b) : (a \o b)[i] = IF i <= Len(a) THEN a[i] ELSE b[i - Len(a)]
  BY ConcatProperties
<1>2. Len(a) \in Nat /\ Len(b) \in Nat /\ DOMAIN a = 1..Len(a) /\ DOMAIN b = 1..Len(b) /\ DOMAIN (a \o b) = 1..Len(a) + Len(b)
  BY <1>1, LenProperties
<1> QED  BY <1>1, <1>2 DEF Adds

\* The job j ends with the messages b for p: at most one of them answers a save of p.
Answers(p, j, b) ==
  /\ \A i \in DOMAIN b : b[i].s = j.s /\ (b[i].id = 0 \/ (j.kind = "update" /\ p \in j.for /\ b[i].id = j.id))
  /\ \A i, k \in DOMAIN b : b[i].id # 0 /\ b[k].id # 0 => i = k
  /\ j.kind = "update" /\ p \in j.for => \E i \in DOMAIN b : b[i].id # 0

LEMMA TokenEnds ==
  ASSUME NEW p, NEW n \in Nat, NEW s, NEW c, NEW js, NEW j \in js, NEW a, NEW b, NEW q,
         Token(p, n, s, c, js, a),
         Adds(a, b, q), Answers(p, j, b), Numbered(j, p, n)
  PROVE  Token(p, n, s, c, js \ {j}, q)
<1>1. CASE Mine(p, n, s, j)
  <2>1. (\A k \in js \ {j} : ~Mine(p, n, s, k)) /\ (\A i \in DOMAIN a : ~Ours(n, s, a[i])) /\ c.sent # Sync!Nil
    BY <1>1 DEF Token
  <2>2. PICK o \in DOMAIN b : b[o].id # 0
    BY <1>1 DEF Answers, Mine
  <2>3. Ours(n, s, b[o]) /\ \A i \in DOMAIN b : Ours(n, s, b[i]) => i = o
    BY <1>1, <2>2 DEF Ours, Mine, Answers
  <2>4. \A i \in DOMAIN q : Ours(n, s, q[i]) => i = Len(a) + o
    BY <2>1, <2>3 DEF Adds
  <2>5. Len(a) + o \in DOMAIN q /\ Ours(n, s, q[Len(a) + o])
    BY <2>3 DEF Adds
  <2> QED  BY <2>1, <2>4, <2>5 DEF Token
<1>2. CASE ~Mine(p, n, s, j)
  <2>1. \A i \in DOMAIN b : ~Ours(n, s, b[i])
    BY <1>2 DEF Ours, Mine, Answers
  <2>2. \A i \in DOMAIN q : Ours(n, s, q[i]) => i \in DOMAIN a /\ Ours(n, s, a[i])
    BY <2>1 DEF Adds
  <2>3. \A i \in DOMAIN a : i \in DOMAIN q /\ q[i] = a[i]
    BY DEF Adds
  <2>4. \A k : Mine(p, n, s, k) => (k \in js <=> k \in js \ {j})
    BY <1>2
  <2>5. Token(p, n, s, c, js \ {j}, a)
    BY <2>4, TokenSame
  <2> QED  BY <2>2, <2>3, <2>5 DEF Token
<1> QED  BY <1>1, <1>2

\* A job ends: a read section is answered, a save is answered once.
Fresh(s, v, b) ==
  /\ \A i \in DOMAIN b : IsSnap(s, b[i]) => b[i].rev = v /\ b[i].id = 0
  /\ \A i, k \in DOMAIN b : IsSnap(s, b[i]) /\ IsSnap(s, b[k]) => i = k
LEMMA NewestIs ==
  ASSUME NEW s, NEW v, NEW a, NEW b, NEW q, Adds(a, b, q), Fresh(s, v, b)
  PROVE  /\ (\E i \in DOMAIN b : IsSnap(s, b[i])) => Newest(s, v, q)
         /\ (\A i \in DOMAIN b : ~IsSnap(s, b[i])) =>
              (Newest(s, v, a) => Newest(s, v, q)) /\ ((\A i \in DOMAIN a : ~IsSnap(s, a[i])) => \A i \in DOMAIN q : ~IsSnap(s, q[i]))
<1>1. ASSUME NEW o \in DOMAIN b, IsSnap(s, b[o]) PROVE Newest(s, v, q)
  <2>1. Len(a) + o \in DOMAIN q /\ q[Len(a) + o] = b[o] /\ o \in Nat \ {0} /\ Len(a) \in Nat
    BY DEF Adds
  <2>2. b[o].rev = v /\ b[o].id = 0
    BY <1>1 DEF Fresh
  <2>3. ASSUME NEW k \in DOMAIN q, IsSnap(s, q[k]) PROVE k <= Len(a) + o
    <3>1. CASE k \in DOMAIN a
      BY <2>1, <3>1 DEF Adds
    <3>2. CASE k - Len(a) \in DOMAIN b /\ k = Len(a) + (k - Len(a)) /\ q[k] = b[k - Len(a)]
      <4>1. k - Len(a) = o
        BY <1>1, <2>3, <3>2 DEF Fresh
      <4> QED  BY <2>1, <3>2, <4>1
    <3> QED  BY <3>1, <3>2 DEF Adds
  <2> QED  BY <1>1, <2>1, <2>2, <2>3 DEF Newest
<1>2. ASSUME \A i \in DOMAIN b : ~IsSnap(s, b[i])
      PROVE  (Newest(s, v, a) => Newest(s, v, q)) /\ ((\A i \in DOMAIN a : ~IsSnap(s, a[i])) => \A i \in DOMAIN q : ~IsSnap(s, q[i]))
  <2>1. \A i \in DOMAIN q : IsSnap(s, q[i]) => i \in DOMAIN a /\ IsSnap(s, a[i])
    BY <1>2 DEF Adds
  <2>2. \A i \in DOMAIN a : i \in DOMAIN q /\ q[i] = a[i]
    BY DEF Adds
  <2> QED  BY <2>1, <2>2 DEF Newest
<1> QED  BY <1>1, <1>2

LEMMA Ends ==
  ASSUME SaveInv, FormInv,
         UNCHANGED <<settingsDisk, settingsPanel, settingsFollow, settingsChanged, settingsGaveUp, settingsReloads>>, NEW j \in settingsJobs, settingsJobs' = settingsJobs \ {j},
         NEW news,
         \A q \in Panels : Adds(settingsInbox[q], news[q], settingsInbox'[q]) /\ Answers(q, j, news[q]),
         \A q \in Panels : \A i \in DOMAIN news[q] :
           /\ news[q][i].id \in Nat
           /\ news[q][i].code = "snapshot" /\ news[q][i].id # 0 => j.at = "publish" /\ news[q][i].value = j.value,
         \A q \in Panels : \A s \in Sync!Sections \ settingsChanged : Fresh(s, settingsDisk[s], news[q]),
         \A q \in Panels : \A s \in Sync!Sections : Answering(q, s, j) => \E i \in DOMAIN news[q] : IsSnap(s, news[q][i]),
         \A q \in Panels : \A i \in DOMAIN news[q] : j.at \in {"save", "commit"} => news[q][i].code = "error"
  PROVE  FormInv'
<1>0. "configs" \in Sync!Sections /\ \A q \in Panels : settingsReloads[q] \in Nat
  BY DEF Sync!Sections, SaveInv, RestTypes
<1>1. TokenInv'
  <2>1. ASSUME NEW i \in settingsJobs', NEW q \in Panels PROVE Numbered(i, q, settingsReloads'[q])
    BY DEF FormInv, TokenInv
  <2>2. ASSUME NEW q \in Panels,
               NEW i \in DOMAIN settingsInbox'[q] PROVE settingsInbox'[q][i].id <= settingsReloads'[q] + 1
    <3>1. Adds(settingsInbox[q], news[q], settingsInbox'[q]) /\ Answers(q, j, news[q]) /\ Numbered(j, q, settingsReloads[q])
      BY DEF FormInv, TokenInv
    <3>2. \A k \in DOMAIN settingsInbox[q] : settingsInbox[q][k].id <= settingsReloads[q] + 1
      BY DEF FormInv, TokenInv
    <3>3. \A k \in DOMAIN news[q] : news[q][k].id <= settingsReloads[q] + 1
      BY <1>0, <3>1 DEF Answers, Numbered
    <3> QED  BY <3>1, <3>2, <3>3 DEF Adds
  <2>3. ASSUME NEW q \in Panels,
               NEW s \in Sync!Sections PROVE Token(q, settingsReloads'[q], s, settingsPanel'[q][s], settingsJobs', settingsInbox'[q])
    <3>1. /\ Token(q, settingsReloads[q], s, settingsPanel[q][s], settingsJobs, settingsInbox[q]) /\ Numbered(j, q, settingsReloads[q])
          /\ Adds(settingsInbox[q], news[q], settingsInbox'[q]) /\ Answers(q, j, news[q]) /\ settingsReloads[q] \in Nat
      BY <1>0 DEF FormInv, TokenInv
    <3>2. Token(q, settingsReloads[q], s, settingsPanel[q][s], settingsJobs \ {j}, settingsInbox'[q])
      BY <3>1, TokenEnds
    <3> QED  BY <3>2
  <2> QED  BY <2>1, <2>2, <2>3 DEF TokenInv
<1>2. ComingInv'
  <2> SUFFICES ASSUME NEW q \in Panels, NEW s \in Sync!Sections, settingsPanel'[q][s].base = Sync!Nil
               PROVE  Coming(q, s, settingsJobs', settingsInbox'[q])
    BY DEF ComingInv
  <2>1. Coming(q, s, settingsJobs, settingsInbox[q]) /\ Adds(settingsInbox[q], news[q], settingsInbox'[q])
    BY DEF FormInv, ComingInv
  <2>2. CASE \E i \in DOMAIN settingsInbox[q] : IsSnap(s, settingsInbox[q][i])
    BY <2>1, <2>2 DEF Coming, Adds
  <2>3. CASE Answering(q, s, j)
    <3>1. PICK i \in DOMAIN news[q] : IsSnap(s, news[q][i])
      BY <2>3
    <3>2. Len(settingsInbox[q]) + i \in DOMAIN settingsInbox'[q] /\ settingsInbox'[q][Len(settingsInbox[q]) + i] = news[q][i]
      BY <2>1 DEF Adds
    <3> QED  BY <3>1, <3>2 DEF Coming
  <2>4. CASE \E i \in settingsJobs \ {j} : Answering(q, s, i)
    BY <2>4 DEF Coming
  <2> QED  BY <2>1, <2>2, <2>3, <2>4 DEF Coming
<1>3. ASSUME NEW q \in Panels, NEW s \in Sync!Sections PROVE Waiting(q, s) => Waiting(q, s)'
  BY DEF Waiting, WaitsFor, GaveUp
<1>4. EditInv'
  BY <1>3, EditsStay DEF EditInv
<1>5. FreshInv'
  <2> SUFFICES ASSUME NEW s \in Sync!Sections \ settingsChanged'
               PROVE  (\A i \in settingsJobs' : Current(s, settingsDisk'[s], i)) /\ \A q \in Panels : Told(q, s)'
    BY DEF FreshInv
  <2>0. s \in Sync!Sections \ settingsChanged /\ settingsDisk'[s] = settingsDisk[s]
    OBVIOUS
  <2>1. (\A i \in settingsJobs : Current(s, settingsDisk[s], i)) /\ \A q \in Panels : Told(q, s)
    BY <2>0 DEF FormInv, FreshInv
  <2>2. ASSUME NEW q \in Panels PROVE Told(q, s)'
    <3>0. /\ Adds(settingsInbox[q], news[q], settingsInbox'[q]) /\ Fresh(s, settingsDisk[s], news[q]) /\ Told(q, s)
      BY <2>0, <2>1
    <3>1. CASE \E i \in DOMAIN news[q] : IsSnap(s, news[q][i])
      <4>1. Newest(s, settingsDisk[s], settingsInbox'[q])
        BY <3>0, <3>1, NewestIs
      <4> QED  BY <2>0, <4>1 DEF Told
    <3>2. CASE (\A i \in DOMAIN news[q] : ~IsSnap(s, news[q][i])) /\ \E i \in settingsJobs : Answering(q, s, i)
      <4>1. ~Answering(q, s, j)
        BY <3>2
      <4> QED  BY <3>2, <4>1 DEF Told
    <3>3. CASE (\A i \in DOMAIN news[q] : ~IsSnap(s, news[q][i])) /\ Newest(s, settingsDisk[s], settingsInbox[q])
      <4>1. Newest(s, settingsDisk[s], settingsInbox'[q])
        BY <3>0, <3>3, NewestIs
      <4> QED  BY <2>0, <4>1 DEF Told
    <3>4. CASE (\A i \in DOMAIN news[q] : ~IsSnap(s, news[q][i])) /\ (\A i \in DOMAIN settingsInbox[q] : ~IsSnap(s, settingsInbox[q][i])) /\ Settled(q, s)
      <4>1. \A i \in DOMAIN settingsInbox'[q] : ~IsSnap(s, settingsInbox'[q][i])
        BY <3>0, <3>4, NewestIs
      <4>2. ASSUME Tried(q, settingsReloads[q], s, settingsJobs, settingsInbox[q]) PROVE Tried(q, settingsReloads[q], s, settingsJobs', settingsInbox'[q])
        <5>1. CASE \E i \in DOMAIN settingsInbox[q] : Ours(settingsReloads[q], s, settingsInbox[q][i]) /\ settingsInbox[q][i].code = "error"
          BY <3>0, <5>1 DEF Tried, Adds
        <5>2. CASE \E i \in settingsJobs \ {j} : Mine(q, settingsReloads[q], s, i) /\ i.at \in {"save", "commit"}
          BY <5>2 DEF Tried
        <5>3. CASE Mine(q, settingsReloads[q], s, j) /\ j.at \in {"save", "commit"}
          <6>1. Answers(q, j, news[q])
            OBVIOUS
          <6>2. PICK o \in DOMAIN news[q] : news[q][o].id # 0
            BY <5>3, <6>1 DEF Answers, Mine
          <6>3. Ours(settingsReloads[q], s, news[q][o]) /\ news[q][o].code = "error"
            BY <5>3, <6>1, <6>2 DEF Answers, Mine, Ours
          <6>4. Len(settingsInbox[q]) + o \in DOMAIN settingsInbox'[q] /\ settingsInbox'[q][Len(settingsInbox[q]) + o] = news[q][o]
            BY <3>0 DEF Adds
          <6> QED  BY <6>3, <6>4 DEF Tried
        <5> QED  BY <4>2, <5>1, <5>2, <5>3 DEF Tried
      <4>3. Settled(q, s)'
        BY <2>0, <3>4, <4>2, <1>3, SettledStays
      <4> QED  BY <4>1, <4>3 DEF Told
    <3> QED  BY <3>0, <3>1, <3>2, <3>3, <3>4 DEF Told
  <2> QED  BY <2>0, <2>1, <2>2
<1>6. MissedInv'
  <2>1. ASSUME NEW q \in Panels, NEW x, MissedAt(q, x) PROVE MissedAt(q, x)'
    BY <2>1 DEF MissedAt, Missed, GaveUp
  <2>2. ASSUME NEW q \in Panels, NEW i \in settingsJobs', Mine(q, settingsReloads'[q], "configs", i),
               i.at = "publish"
        PROVE  MissedAt(q, i)'
    BY <2>1, <2>2 DEF FormInv, MissedInv
  <2>3. ASSUME NEW q \in Panels, NEW i \in DOMAIN settingsInbox'[q],
               Ours(settingsReloads'[q], "configs", settingsInbox'[q][i]),
         settingsInbox'[q][i].code = "snapshot"
        PROVE  \A x : x = settingsInbox'[q][i] => MissedAt(q, x)'
    <3>0. Adds(settingsInbox[q], news[q], settingsInbox'[q]) /\ Answers(q, j, news[q])
      OBVIOUS
    <3>1. CASE i \in DOMAIN settingsInbox[q]
      <4>1. settingsInbox'[q][i] = settingsInbox[q][i]
        BY <3>0, <3>1 DEF Adds
      <4>2. \A x : x = settingsInbox[q][i] => MissedAt(q, x)
        BY <2>3, <3>1, <4>1 DEF FormInv, MissedInv
      <4> QED  BY <2>1, <4>1, <4>2
    <3>2. CASE i - Len(settingsInbox[q]) \in DOMAIN news[q] /\ settingsInbox'[q][i] = news[q][i - Len(settingsInbox[q])]
      <4>1. PICK o \in DOMAIN news[q] : settingsInbox'[q][i] = news[q][o]
        BY <3>2
      <4>2. Ours(settingsReloads[q], "configs", news[q][o]) /\ news[q][o].code = "snapshot"
        BY <2>3, <4>1
      <4>3. news[q][o].id # 0
        BY <1>0, <4>2 DEF Ours
      <4>4. Mine(q, settingsReloads[q], "configs", j) /\ j.at = "publish" /\ news[q][o].value = j.value
        BY <3>0, <4>2, <4>3 DEF Answers, Ours, Mine
      <4>5. MissedAt(q, j)
        BY <4>4 DEF FormInv, MissedInv
      <4>6. \A x : x = news[q][o] => MissedAt(q, x)
        BY <4>4, <4>5 DEF MissedAt, Missed
      <4> QED  BY <2>1, <4>1, <4>6
    <3> QED  BY <3>0, <3>1, <3>2 DEF Adds
  <2> QED  BY <2>2, <2>3 DEF MissedInv
<1> QED  BY <1>1, <1>2, <1>4, <1>5, <1>6 DEF FormInv

LEMMA AnswerForms ==
  ASSUME SaveInv, FormInv, NEW j \in settingsJobs, Sync!Answer(j)
  PROVE  FormInv'
<1> DEFINE snap == Sync!Snapshot(j, 0)
           err == Sync!Error(j, "conflict")
           news == [q \in Panels |-> Answered(j, q)]
<1>1. /\ j.at = "answer" /\ settingsJobs' = settingsJobs \ {j} /\ UNCHANGED <<settingsDisk, settingsPanel, settingsFollow, settingsChanged, settingsGaveUp, settingsReloads>>
  BY DEF Sync!Answer
<1>2. /\ settingsInbox' = [q \in Panels |-> settingsInbox[q] \o Answered(j, q)] /\ j.s \in Sync!Sections
      /\ snap \in Messages /\ err \in Messages /\ \A q \in Panels : Answered(j, q) \in Seq(Messages)
  BY AnswerSends
<1>3. snap.s = j.s /\ snap.id = 0 /\ snap.code = "snapshot" /\ snap.rev = j.rev
  BY DEF Sync!Snapshot
<1>4. err.s = j.s /\ err.id = j.id /\ err.code = "conflict"
  BY DEF Sync!Error
<1>5. settingsInbox \in [Panels -> Seq(Messages)] /\ j.id \in Nat
  BY DEF SaveInv, MailInv, GoodJob, Job
<1>6. ASSUME NEW q \in Panels
      PROVE  /\ \A i \in DOMAIN Answered(j, q) : \/ i = 1 /\ Answered(j, q)[i] = snap
                                                 \/ i = 2 /\ Answered(j, q)[i] = err /\ j.kind = "update" /\ q \in j.for
             /\ j.kind = "update" \/ q \in j.for => 1 \in DOMAIN Answered(j, q)
             /\ j.kind = "update" /\ q \in j.for => 2 \in DOMAIN Answered(j, q)
  BY <1>2, AnswerHas
<1> HIDE DEF snap, err
<1>7. ASSUME NEW q \in Panels PROVE Adds(settingsInbox[q], Answered(j, q), settingsInbox'[q])
  BY <1>2, <1>5, AddsIs
<1>8. ASSUME NEW q \in Panels PROVE Answers(q, j, Answered(j, q))
  <2>1. j.kind = "update" /\ q \in j.for => j.id # 0
    BY DEF FormInv, TokenInv, Numbered
  <2> QED  BY <1>3, <1>4, <1>6, <2>1 DEF Answers
<1>9. ASSUME NEW q \in Panels,
             NEW s \in Sync!Sections \ settingsChanged PROVE Fresh(s, settingsDisk[s], Answered(j, q))
  <2>1. Current(s, settingsDisk[s], j)
    BY DEF FormInv, FreshInv
  <2>2. \A i \in DOMAIN Answered(j, q) : IsSnap(s, Answered(j, q)[i]) => i = 1 /\ Answered(j, q)[i] = snap /\ j.s = s
    BY <1>3, <1>4, <1>6 DEF IsSnap
  <2> QED  BY <1>1, <1>3, <2>1, <2>2 DEF Fresh, Current
<1>10. ASSUME NEW q \in Panels, NEW s \in Sync!Sections,
              Answering(q, s, j) PROVE \E i \in DOMAIN Answered(j, q) : IsSnap(s, Answered(j, q)[i])
  <2>1. 1 \in DOMAIN Answered(j, q) /\ j.s = s
    BY <1>6, <1>10 DEF Answering
  <2>2. Answered(j, q)[1] = snap
    BY <1>6, <2>1
  <2> QED  BY <1>3, <2>1, <2>2 DEF IsSnap
<1>11. ASSUME NEW q \in Panels, NEW i \in DOMAIN Answered(j, q)
       PROVE  Answered(j, q)[i].id \in Nat /\ ~(Answered(j, q)[i].code = "snapshot" /\ Answered(j, q)[i].id # 0)
  BY <1>3, <1>4, <1>5, <1>6
<1>12. \A q \in Panels : news[q] = Answered(j, q)
  OBVIOUS
<1> HIDE DEF news
<1>13. j.at \notin {"save", "commit"}
  BY <1>1
<1>14. \A q \in Panels : Adds(settingsInbox[q], news[q], settingsInbox'[q]) /\ Answers(q, j, news[q])
  BY <1>7, <1>8, <1>12
<1>15. \A q \in Panels : \A i \in DOMAIN news[q] :
         news[q][i].id \in Nat /\ ~(news[q][i].code = "snapshot" /\ news[q][i].id # 0)
  BY <1>11, <1>12
<1>16. /\ \A q \in Panels : \A s \in Sync!Sections \ settingsChanged : Fresh(s, settingsDisk[s], news[q])
       /\ \A q \in Panels : \A s \in Sync!Sections : Answering(q, s, j) => \E i \in DOMAIN news[q] : IsSnap(s, news[q][i])
  BY <1>9, <1>10, <1>12
<1> QED  BY <1>1, <1>13, <1>14, <1>15, <1>16, Ends

LEMMA RejectForms ==
  ASSUME SaveInv, FormInv, NEW j \in settingsJobs, Sync!Reject(j)
  PROVE  FormInv'
<1> DEFINE err == Sync!Error(j, "error")
           news == [q \in Panels |-> Rejections(j, q)]
<1>1. /\ j.at = "save" /\ settingsJobs' = settingsJobs \ {j} /\ UNCHANGED <<settingsDisk, settingsPanel, settingsFollow, settingsChanged, settingsGaveUp, settingsReloads>>
  BY DEF Sync!Reject
<1>2. /\ settingsInbox' = [q \in Panels |-> settingsInbox[q] \o Rejections(j, q)] /\ \A q \in Panels : Rejections(j, q) \in Seq(Messages)
  BY RejectSends
<1>3. err.s = j.s /\ err.id = j.id /\ err.code = "error"
  BY DEF Sync!Error
<1>4. settingsInbox \in [Panels -> Seq(Messages)] /\ j.id \in Nat /\ j.kind = "update"
  BY <1>1 DEF SaveInv, MailInv, GoodJob, Job
<1>5. \A q \in Panels : Rejections(j, q) = IF q \in j.for THEN <<err>> ELSE <<>>
  BY DEF Rejections
<1> HIDE DEF err
<1>6. ASSUME NEW q \in Panels
      PROVE  /\ \A i \in DOMAIN Rejections(j, q) : i = 1 /\ Rejections(j, q)[i] = err /\ q \in j.for
             /\ q \in j.for => 1 \in DOMAIN Rejections(j, q)
  BY <1>5
<1>7. ASSUME NEW q \in Panels PROVE Adds(settingsInbox[q], Rejections(j, q), settingsInbox'[q])
  BY <1>2, <1>4, AddsIs
<1>8. ASSUME NEW q \in Panels PROVE Answers(q, j, Rejections(j, q))
  <2>1. j.kind = "update" /\ q \in j.for => j.id # 0
    BY DEF FormInv, TokenInv, Numbered
  <2> QED  BY <1>3, <1>4, <1>6, <2>1 DEF Answers
<1>9. ASSUME NEW q \in Panels, NEW s, NEW i \in DOMAIN Rejections(j, q)
      PROVE  ~IsSnap(s, Rejections(j, q)[i]) /\ Rejections(j, q)[i].code = "error" /\ Rejections(j, q)[i].id \in Nat
  BY <1>3, <1>4, <1>6 DEF IsSnap
<1>10. \A q \in Panels : \A s \in Sync!Sections : ~Answering(q, s, j)
  BY <1>1 DEF Answering
<1>11. \A q \in Panels : news[q] = Rejections(j, q)
  OBVIOUS
<1> HIDE DEF news
<1>12. \A q \in Panels : \A s \in Sync!Sections \ settingsChanged : Fresh(s, settingsDisk[s], news[q])
  BY <1>9, <1>11 DEF Fresh
<1>13. \A q \in Panels : \A i \in DOMAIN news[q] : news[q][i].code = "error" /\ news[q][i].id \in Nat
  BY <1>9, <1>11
<1> QED  BY <1>1, <1>7, <1>8, <1>10, <1>11, <1>12, <1>13, Ends

LEMMA PublishForms ==
  ASSUME SaveInv, FormInv, NEW j \in settingsJobs, Sync!Publish(j)
  PROVE  FormInv'
<1> DEFINE news == [q \in Panels |-> Published(j, q)]
<1>1. /\ j.at = "publish" /\ settingsJobs' = settingsJobs \ {j} /\ UNCHANGED <<settingsDisk, settingsPanel, settingsFollow, settingsChanged, settingsGaveUp, settingsReloads>>
  BY DEF Sync!Publish
<1>2. /\ settingsInbox' = [q \in Panels |-> settingsInbox[q] \o Published(j, q)] /\ \A q \in Panels : Published(j, q) \in Seq(Messages)
  BY PublishSends
<1>3. settingsInbox \in [Panels -> Seq(Messages)] /\ j.id \in Nat /\ j.kind = "update"
  BY <1>1 DEF SaveInv, MailInv, GoodJob, Job
<1>4. ASSUME NEW q \in Panels
      PROVE  /\ DOMAIN Published(j, q) = {1}
             /\ \E m : /\ Published(j, q)[1] = m /\ m.s = j.s /\ m.value = j.value /\ m.code = "snapshot"
                       /\ m.id = IF q \in j.for THEN j.id ELSE 0
  <2>1. PICK id : id = IF q \in j.for THEN j.id ELSE 0
    OBVIOUS
  <2>2. PICK m : m = Sync!Snapshot(j, id)
    OBVIOUS
  <2>3. m.s = j.s /\ m.value = j.value /\ m.code = "snapshot" /\ m.id = id
    BY <2>2 DEF Sync!Snapshot
  <2>4. Published(j, q) = <<m>>
    BY <2>1, <2>2 DEF Published
  <2>5. DOMAIN <<m>> = {1} /\ <<m>>[1] = m
    OBVIOUS
  <2> QED  BY <2>1, <2>3, <2>4, <2>5
<1>7. ASSUME NEW q \in Panels PROVE Adds(settingsInbox[q], Published(j, q), settingsInbox'[q])
  BY <1>2, <1>3, AddsIs
<1>8. ASSUME NEW q \in Panels PROVE Answers(q, j, Published(j, q))
  <2>1. j.kind = "update" /\ q \in j.for => j.id # 0
    BY DEF FormInv, TokenInv, Numbered
  <2> QED  BY <1>3, <1>4, <2>1 DEF Answers
<1>9. ASSUME NEW q \in Panels,
             NEW s \in Sync!Sections \ settingsChanged PROVE Fresh(s, settingsDisk[s], Published(j, q))
  <2>1. Current(s, settingsDisk[s], j)
    BY DEF FormInv, FreshInv
  <2>2. j.s # s
    BY <1>1, <2>1 DEF Current
  <2>3. \A i \in DOMAIN Published(j, q) : Published(j, q)[i].s = j.s
    BY <1>4
  <2> QED  BY <2>2, <2>3 DEF Fresh, IsSnap
<1>10. \A q \in Panels : \A s \in Sync!Sections : ~Answering(q, s, j)
  BY <1>1 DEF Answering
<1>11. \A q \in Panels : news[q] = Published(j, q)
  OBVIOUS
<1> HIDE DEF news
<1>12. \A q \in Panels : \A i \in DOMAIN news[q] : news[q][i].id \in Nat /\ news[q][i].value = j.value
  BY <1>3, <1>4, <1>11
<1>13. j.at \notin {"save", "commit"}
  BY <1>1
<1>14. \A q \in Panels : \A s \in Sync!Sections \ settingsChanged : Fresh(s, settingsDisk[s], news[q])
  BY <1>9, <1>11
<1>15. \A q \in Panels : Adds(settingsInbox[q], news[q], settingsInbox'[q]) /\ Answers(q, j, news[q])
  BY <1>7, <1>8, <1>11
<1>16. \A q \in Panels : \A i \in DOMAIN news[q] :
         /\ news[q][i].id \in Nat
         /\ news[q][i].code = "snapshot" /\ news[q][i].id # 0 => j.at = "publish" /\ news[q][i].value = j.value
  BY <1>1, <1>12
<1> QED  BY <1>1, <1>10, <1>13, <1>14, <1>15, <1>16, Ends

-----------------------------------------------------------------------------
(* Edits: a panel handles a message.                                         *)

\* The first message of q is m, the others are t.
Rest(q, t, m) ==
  /\ 1 \in DOMAIN q /\ q[1] = m
  /\ \A i \in DOMAIN t : i \in Nat \ {0} /\ i + 1 \in DOMAIN q /\ t[i] = q[i + 1]
  /\ \A i \in DOMAIN q : i \in Nat \ {0} /\ (i # 1 => i - 1 \in DOMAIN t /\ t[i - 1] = q[i])

LEMMA RestIs ==
  ASSUME MailInv, NEW p \in Panels, settingsInbox[p] # <<>>, NEW m, m = Head(settingsInbox[p])
  PROVE  Rest(settingsInbox[p], Tail(settingsInbox[p]), m)
<1> DEFINE q == settingsInbox[p]
           t == Tail(settingsInbox[p])
<1>1. /\ 1 \in DOMAIN q /\ m = q[1] /\ DOMAIN q = 1..Len(q) /\ Len(q) \in Nat \ {0}
      /\ DOMAIN t = 1..Len(q) - 1 /\ \A i \in 1..Len(q) - 1 : t[i] = q[i + 1]
  BY HeadIs
<1> HIDE DEF q, t
<1>2. ASSUME NEW i \in DOMAIN t PROVE i \in Nat \ {0} /\ i + 1 \in DOMAIN q /\ t[i] = q[i + 1]
  BY <1>1
<1>3. ASSUME NEW i \in DOMAIN q PROVE i \in Nat \ {0} /\ (i # 1 => i - 1 \in DOMAIN t /\ t[i - 1] = q[i])
  <2>1. CASE i # 1
    <3>1. i - 1 \in 1..Len(q) - 1 /\ (i - 1) + 1 = i
      BY <2>1, <1>1
    <3> QED  BY <3>1, <1>1
  <2> QED  BY <2>1, <1>1
<1> QED  BY <1>1, <1>2, <1>3 DEF Rest, q, t

LEMMA TokenTaken ==
  ASSUME NEW p, NEW n, NEW s, NEW c, NEW js, NEW q, NEW t, NEW m, Token(p, n, s, c, js, q), Rest(q, t, m)
  PROVE  /\ Ours(n, s, m) => c.sent # Sync!Nil /\ \A e : e.sent = Sync!Nil => Token(p, n, s, e, js, t)
         /\ Ours(n, s, m) => (\A j \in js : ~Mine(p, n, s, j)) /\ \A i \in DOMAIN t : ~Ours(n, s, t[i])
         /\ ~Ours(n, s, m) => Token(p, n, s, c, js, t)
<1>1. ASSUME Ours(n, s, m)
      PROVE  c.sent # Sync!Nil /\ (\A j \in js : ~Mine(p, n, s, j)) /\ \A i \in DOMAIN t : ~Ours(n, s, t[i])
  <2>1. 1 \in DOMAIN q /\ Ours(n, s, q[1])
    BY <1>1 DEF Rest
  <2>2. \A i \in DOMAIN q : Ours(n, s, q[i]) => i = 1
    BY <2>1 DEF Token
  <2>3. \A i \in DOMAIN t : i + 1 # 1 /\ i + 1 \in DOMAIN q /\ t[i] = q[i + 1]
    BY DEF Rest
  <2> QED  BY <2>1, <2>2, <2>3 DEF Token
<1>2. ASSUME ~Ours(n, s, m) PROVE Token(p, n, s, c, js, t)
  <2>1. \A i \in DOMAIN t : i + 1 \in DOMAIN q /\ t[i] = q[i + 1] /\ i \in Nat
    BY DEF Rest
  <2>2. \A i \in DOMAIN q : Ours(n, s, q[i]) => i - 1 \in DOMAIN t /\ t[i - 1] = q[i]
    BY <1>2 DEF Rest
  <2>3. \A i, k \in DOMAIN t : Ours(n, s, t[i]) /\ Ours(n, s, t[k]) => i = k
    BY <2>1 DEF Token
  <2> QED  BY <2>1, <2>2, <2>3 DEF Token
<1> QED  BY <1>1, <1>2 DEF Token

LEMMA TokenMakes ==
  ASSUME NEW p, NEW n, NEW s, NEW c, NEW d, NEW js, NEW ks, NEW q, Token(p, n, s, c, js, q), Makes(s, c, d, ks),
         Asked(p, n, ks)
  PROVE  Token(p, n, s, d, js \cup ks, q)
<1>2. CASE (c.sent # Sync!Nil <=> d.sent # Sync!Nil) /\ \A j \in ks : ~(j.kind = "update" /\ j.s = s)
  <2>1. \A j : Mine(p, n, s, j) => (j \in js <=> j \in js \cup ks)
    BY <1>2 DEF Mine
  <2> QED  BY <1>2, <2>1, TokenSame
<1>3. CASE c.sent = Sync!Nil /\ d.sent # Sync!Nil
  <2>1. PICK k \in ks : k.kind = "update" /\ k.s = s /\ \A j \in ks : j.kind = "update" /\ j.s = s => j = k
    BY <1>3 DEF Makes
  <2>2. Mine(p, n, s, k)
    BY <2>1 DEF Mine, Asked
  <2>3. \A j \in js \cup ks : Mine(p, n, s, j) => j = k
    BY <1>3, <2>1 DEF Token, Mine
  <2>4. \A i \in DOMAIN q : ~Ours(n, s, q[i])
    BY <1>3 DEF Token
  <2> QED  BY <1>3, <2>1, <2>2, <2>3, <2>4 DEF Token
<1> QED  BY <1>2, <1>3 DEF Makes

LEMMA NewestTaken ==
  ASSUME NEW s, NEW v, NEW q, NEW t, NEW m, Newest(s, v, q), Rest(q, t, m)
  PROVE  \/ Newest(s, v, t)
         \/ IsSnap(s, m) /\ m.rev = v /\ m.id = 0 /\ \A i \in DOMAIN t : ~IsSnap(s, t[i])
<1>1. PICK i \in DOMAIN q : /\ IsSnap(s, q[i]) /\ q[i].rev = v /\ q[i].id = 0
                            /\ \A k \in DOMAIN q : IsSnap(s, q[k]) => k <= i
  BY DEF Newest
<1>2. \A k \in DOMAIN t : k \in Nat \ {0} /\ k + 1 \in DOMAIN q /\ t[k] = q[k + 1]
  BY DEF Rest
<1>3. CASE i = 1
  <2>1. \A k \in DOMAIN t : ~IsSnap(s, t[k])
    BY <1>1, <1>2, <1>3
  <2> QED  BY <1>1, <1>3, <2>1 DEF Rest
<1>4. CASE i # 1
  <2>1. i - 1 \in DOMAIN t /\ t[i - 1] = q[i] /\ i \in Nat
    BY <1>4 DEF Rest
  <2>2. \A k \in DOMAIN t : IsSnap(s, t[k]) => k <= i - 1
    BY <1>1, <1>2, <2>1
  <2> QED  BY <1>1, <2>1, <2>2 DEF Newest
<1> QED  BY <1>3, <1>4

\* What a message does to its section, as far as edits are concerned.
HandledTo(p, own, m, c, r) ==
  /\ own => c.sent # Sync!Nil /\ Effect(p, m.s, r)
  /\ ~own => Done(p, m.s, c, r)
  /\ \A x : EditOk(x, c) => EditOk(x, r.c) \/ m.code = "error"
  /\ Busy(c) => Busy(r.c) \/ m.code = "error" \/ (own /\ m.code = "snapshot" /\ c.queued = Sync!Nil)
  /\ c.base # Sync!Nil \/ m.code = "snapshot" => r.c.base # Sync!Nil
  /\ ~own /\ m.code = "snapshot" => Says(m.rev, r.c)
  /\ ~own /\ m.code # "snapshot" => Quietly(r.c, c)
  /\ own /\ m.code = "conflict" => \A v : Says(v, c) => Says(v, r.c) \/ r.c.sent # Sync!Nil
  /\ ~own /\ c.sent # Sync!Nil => r.c.queued = c.queued

LEMMA HandledForms ==
  ASSUME SaveInv, NEW p \in Panels, NEW m, m \in Messages, GoodMail(settingsKnown, m), NEW c,
         c = settingsPanel[p][m.s],
         NEW r, r = Handled(p, m), NEW own, own <=> Sync!OwnSave(p, m)
  PROVE  HandledTo(p, own, m, c, r)
<1> DEFINE w == Sync!AsStored(m)
           s == m.s
<1>1. s \in Sync!Sections
  BY DEF Messages, Message, Sync!Sections
<1>2. c \in Section(s) /\ Good(settingsTouched[p], settingsKnown, s, c)
  BY <1>1 DEF SaveInv, PanelInv, Good
<1>3. m.code = "snapshot" =>
        w \in [value : Value(s), rev : Value(s)] /\ GoodSnap(settingsKnown, s, w) /\ w.rev = m.rev
  BY <1>1, AsStoredGood DEF GoodMail
<1>4. c.base = Sync!Nil => ~Busy(c)
  BY <1>2 DEF Good, Blank, Busy
<1> HIDE DEF w
<1>5. CASE m.code = "snapshot" /\ own /\ c.sent # Sync!Nil /\ r = Sync!Acknowledged(p, s, c, w)
  <2>1. Effect(p, s, r) /\ (c.queued # Sync!Nil => Busy(r.c))
    <3>1. PICK x : x = TRUE
      OBVIOUS
    <3>2. EditOk(x, c)
      BY <3>1 DEF EditOk
    <3> QED  BY <3>2, <1>1, <1>2, <1>3, <1>5, AcknowledgedEdit
  <2>2. \A x : EditOk(x, c) => EditOk(x, r.c)
    BY <1>1, <1>2, <1>3, <1>5, AcknowledgedEdit
  <2>3. r.c.base # Sync!Nil
    BY <1>1, <1>2, <1>3, <1>5, AcknowledgedGood
  <2> QED  BY <2>1, <2>2, <2>3, <1>5 DEF HandledTo
<1>6. CASE m.code = "snapshot" /\ ~own /\ r = Sync!External(p, s, c, w)
  <2>1. /\ Says(m.rev, r.c) /\ (Busy(c) => Busy(r.c))
        /\ c.sent = Sync!Nil => Effect(p, s, r)
        /\ c.sent # Sync!Nil => r.c.sent = c.sent /\ r.jobs = {} /\ r.c.queued = c.queued
    <3>1. PICK x : x = TRUE
      OBVIOUS
    <3>2. EditOk(x, c)
      BY <3>1 DEF EditOk
    <3>3. ExternalTo(p, s, w, x, c, r)
      BY <3>2, <1>1, <1>2, <1>3, <1>6, ExternalEdit
    <3> QED  BY <3>3, <1>3, <1>6 DEF ExternalTo
  <2>2. ASSUME NEW x, EditOk(x, c) PROVE EditOk(x, r.c)
    <3>1. ExternalTo(p, s, w, x, c, r)
      BY <2>2, <1>1, <1>2, <1>3, <1>6, ExternalEdit
    <3> QED  BY <3>1 DEF ExternalTo
  <2>3. r.c.base # Sync!Nil
    BY <1>1, <1>2, <1>3, <1>6, ExternalGood
  <2> QED  BY <2>1, <2>2, <2>3, <1>6 DEF HandledTo, Done
<1>7. CASE m.code = "conflict" /\ own /\ c.sent # Sync!Nil /\ r = Sync!Refused(p, s, c)
  <2>1. /\ \A x : EditOk(x, r.c)
        /\ Effect(p, s, r) /\ Busy(r.c)
        /\ \A v : Says(v, c) => Says(v, r.c) \/ r.c.sent # Sync!Nil
    BY <1>1, <1>2, <1>7, RefusedEdit
  <2>2. r.c.base # Sync!Nil
    BY <1>1, <1>2, <1>7, RefusedGood
  <2> QED  BY <2>1, <2>2, <1>7 DEF HandledTo
<1>8. CASE m.code = "error" /\ own /\ c.sent # Sync!Nil /\ r = [c |-> Rejected(c), jobs |-> {}]
  <2>1. RejectedTo(Rejected(c), c) /\ Rejected(c).base # Sync!Nil
    BY <1>1, <1>2, <1>8, RejectedGood
  <2>2. r.c = Rejected(c) /\ r.jobs = {}
    BY <1>8
  <2> QED  BY <2>1, <2>2, <1>8 DEF HandledTo, RejectedTo, Effect
<1>9. CASE m.code # "snapshot" /\ ~own /\ r = [c |-> Unloaded(c), jobs |-> {}]
  <2>1. Quietly(Unloaded(c), c)
    BY <1>1, <1>2, UnloadedIs DEF Unloaded
  <2>2. r.c = Unloaded(c) /\ r.jobs = {}
    BY <1>9
  <2>3. Quietly(r.c, c)
    BY <2>1, <2>2
  <2>4. \A x : EditOk(x, c) => EditOk(x, r.c)
    BY <2>3 DEF Quietly, EditOk, Busy, Ready
  <2> QED  BY <2>2, <2>3, <2>4, <1>9 DEF HandledTo, Done, Effect, Quietly, Busy
<1> QED  BY <1>5, <1>6, <1>7, <1>8, <1>9, HandledIs DEF w, s

\* The first message of p is taken; its sections change, and what they ask for is js.
LEMMA TakesToken ==
  ASSUME SaveInv, TokenInv, NEW p \in Panels, NEW m, Rest(settingsInbox[p], settingsInbox'[p], m), NEW js,
         settingsJobs' = settingsJobs \cup js, settingsReloads' = settingsReloads,
         Asked(p, settingsReloads[p], js),
         \A q \in Panels \ {p} : settingsPanel'[q] = settingsPanel[q] /\ settingsInbox'[q] = settingsInbox[q],
         \A s \in Sync!Sections :
           /\ Ours(settingsReloads[p], s, m) => \E e : e.sent = Sync!Nil /\ Makes(s, e, settingsPanel'[p][s], js)
           /\ ~Ours(settingsReloads[p], s, m) => Makes(s, settingsPanel[p][s], settingsPanel'[p][s], js)
  PROVE  TokenInv'
<1>0. settingsReloads[p] \in Nat
  BY DEF SaveInv, RestTypes
<1>1. ASSUME NEW j \in settingsJobs', NEW q \in Panels PROVE Numbered(j, q, settingsReloads'[q])
  BY <1>0, <1>1 DEF TokenInv, Asked, Numbered
<1>2. ASSUME NEW q \in Panels,
             NEW i \in DOMAIN settingsInbox'[q] PROVE settingsInbox'[q][i].id <= settingsReloads'[q] + 1
  <2>1. CASE q = p
    <3>1. i + 1 \in DOMAIN settingsInbox[p] /\ settingsInbox'[p][i] = settingsInbox[p][i + 1]
      BY <2>1, <1>2 DEF Rest
    <3> QED  BY <3>1, <2>1 DEF TokenInv
  <2> QED  BY <2>1, <1>2 DEF TokenInv
<1>3. ASSUME NEW q \in Panels,
             NEW s \in Sync!Sections PROVE Token(q, settingsReloads'[q], s, settingsPanel'[q][s], settingsJobs', settingsInbox'[q])
  <2>1. Token(q, settingsReloads[q], s, settingsPanel[q][s], settingsJobs, settingsInbox[q])
    BY DEF TokenInv
  <2>2. CASE q # p
    <3>1. \A j : Mine(q, settingsReloads[q], s, j) => (j \in settingsJobs <=> j \in settingsJobs')
      BY <2>2 DEF Asked, Mine
    <3>2. settingsPanel'[q] = settingsPanel[q] /\ settingsInbox'[q] = settingsInbox[q]
      BY <2>2
    <3> QED  BY <2>1, <3>1, <3>2, TokenSame
  <2>3. CASE q = p /\ Ours(settingsReloads[p], s, m)
    <3>1. PICK e : e.sent = Sync!Nil /\ Makes(s, e, settingsPanel'[p][s], js)
      BY <2>3
    <3>2. Token(p, settingsReloads[p], s, e, settingsJobs, settingsInbox'[p])
      BY <2>1, <2>3, <3>1, TokenTaken
    <3> QED  BY <2>3, <3>1, <3>2, TokenMakes
  <2>4. CASE q = p /\ ~Ours(settingsReloads[p], s, m)
    <3>1. Token(p, settingsReloads[p], s, settingsPanel[p][s], settingsJobs, settingsInbox'[p])
      BY <2>1, <2>4, TokenTaken
    <3>2. Makes(s, settingsPanel[p][s], settingsPanel'[p][s], js)
      BY <2>4
    <3> QED  BY <2>4, <3>1, <3>2, TokenMakes
  <2> QED  BY <2>2, <2>3, <2>4
<1> QED  BY <1>1, <1>2, <1>3 DEF TokenInv

LEMMA TakesComing ==
  ASSUME ComingInv, NEW p \in Panels, NEW m, Rest(settingsInbox[p], settingsInbox'[p], m), NEW js,
         settingsJobs' = settingsJobs \cup js,
         \A q \in Panels \ {p} : settingsPanel'[q] = settingsPanel[q] /\ settingsInbox'[q] = settingsInbox[q],
         \A s \in Sync!Sections : settingsPanel'[p][s].base = Sync!Nil => settingsPanel[p][s].base = Sync!Nil /\ ~IsSnap(s, m)
  PROVE  ComingInv'
<1> SUFFICES ASSUME NEW q \in Panels, NEW s \in Sync!Sections, settingsPanel'[q][s].base = Sync!Nil
             PROVE  Coming(q, s, settingsJobs', settingsInbox'[q])
  BY DEF ComingInv
<1>1. CASE q # p
  BY <1>1 DEF ComingInv, Coming
<1>2. CASE q = p
  <2>1. Coming(p, s, settingsJobs, settingsInbox[p])
    BY <1>2 DEF ComingInv
  <2>2. ASSUME NEW i \in DOMAIN settingsInbox[p],
               IsSnap(s, settingsInbox[p][i]) PROVE \E k \in DOMAIN settingsInbox'[p] : IsSnap(s, settingsInbox'[p][k])
    <3>1. i # 1
      BY <1>2, <2>2 DEF Rest
    <3> QED  BY <2>2, <3>1 DEF Rest
  <2> QED  BY <1>2, <2>1, <2>2 DEF Coming
<1> QED  BY <1>1, <1>2

LEMMA TakesMissed ==
  ASSUME TokenInv, MissedInv, NEW p \in Panels, NEW m, Rest(settingsInbox[p], settingsInbox'[p], m), NEW js,
         settingsJobs' = settingsJobs \cup js, settingsReloads' = settingsReloads,
         settingsDisk' = settingsDisk, settingsGaveUp \subseteq settingsGaveUp',
         Asked(p, settingsReloads[p], js),
         \A q \in Panels \ {p} : settingsPanel'[q] = settingsPanel[q] /\ settingsInbox'[q] = settingsInbox[q] /\ settingsFollow'[q] = settingsFollow[q],
         ~Ours(settingsReloads[p], "configs", m) /\ settingsPanel[p]["configs"].sent # Sync!Nil => \A x : MissedAt(p, x) => MissedAt(p, x)'
  PROVE  MissedInv'
<1>0. "configs" \in Sync!Sections
  BY DEF Sync!Sections
<1>1. ASSUME NEW q \in Panels \ {p}, NEW x, MissedAt(q, x) PROVE MissedAt(q, x)'
  BY <1>1 DEF MissedAt, Missed, GaveUp
<1>2. /\ Token(p, settingsReloads[p], "configs", settingsPanel[p]["configs"], settingsJobs, settingsInbox[p])
      /\ Ours(settingsReloads[p], "configs", m) => /\ \A j \in settingsJobs : ~Mine(p, settingsReloads[p], "configs", j)
                                          /\ \A i \in DOMAIN settingsInbox'[p] : ~Ours(settingsReloads[p], "configs", settingsInbox'[p][i])
  <2>1. Token(p, settingsReloads[p], "configs", settingsPanel[p]["configs"], settingsJobs, settingsInbox[p])
    BY <1>0 DEF TokenInv
  <2> DEFINE c == settingsPanel[p]["configs"]
             q == settingsInbox[p]
             t == settingsInbox'[p]
             n == settingsReloads[p]
  <2>2. Token(p, n, "configs", c, settingsJobs, q) /\ Rest(q, t, m)
    BY <2>1
  <2> HIDE DEF c, q, t, n
  <2>3. Ours(n, "configs", m) => (\A j \in settingsJobs : ~Mine(p, n, "configs", j)) /\ \A i \in DOMAIN t : ~Ours(n, "configs", t[i])
    BY <2>2, TokenTaken
  <2> QED  BY <2>1, <2>3 DEF c, q, t, n
<1>3. ASSUME NEW q \in Panels, NEW j \in settingsJobs', Mine(q, settingsReloads'[q], "configs", j),
             j.at = "publish"
      PROVE  MissedAt(q, j)'
  <2>1. j \in settingsJobs
    BY <1>3 DEF Asked
  <2>2. MissedAt(q, j)
    BY <1>3, <2>1 DEF MissedInv
  <2>3. CASE q # p
    BY <2>2, <2>3, <1>1
  <2>4. CASE q = p
    <3>1. settingsPanel[p]["configs"].sent # Sync!Nil /\ ~Ours(settingsReloads[p], "configs", m)
      BY <2>1, <2>4, <1>2, <1>3 DEF Token
    <3> QED  BY <2>2, <2>4, <3>1
  <2> QED  BY <2>3, <2>4
<1>4. ASSUME NEW q \in Panels, NEW i \in DOMAIN settingsInbox'[q],
             Ours(settingsReloads'[q], "configs", settingsInbox'[q][i]), settingsInbox'[q][i].code = "snapshot"
      PROVE  \A x : x = settingsInbox'[q][i] => MissedAt(q, x)'
  <2>3. CASE q # p
    <3>1. settingsInbox'[q] = settingsInbox[q]
      BY <2>3
    <3>2. \A x : x = settingsInbox[q][i] => MissedAt(q, x)
      BY <1>4, <3>1 DEF MissedInv
    <3> QED  BY <3>1, <3>2, <2>3, <1>1
  <2>4. CASE q = p
    <3>1. i + 1 \in DOMAIN settingsInbox[p] /\ settingsInbox'[p][i] = settingsInbox[p][i + 1]
      BY <2>4, <1>4 DEF Rest
    <3>2. Ours(settingsReloads[p], "configs", settingsInbox[p][i + 1]) /\ settingsInbox[p][i + 1].code = "snapshot"
      BY <2>4, <3>1, <1>4
    <3>3. settingsPanel[p]["configs"].sent # Sync!Nil /\ ~Ours(settingsReloads[p], "configs", m)
      <4>1. ~Ours(settingsReloads[p], "configs", m)
        BY <2>4, <1>2, <1>4
      <4> QED  BY <4>1, <3>1, <3>2, <1>2 DEF Token
    <3>4. \A x : x = settingsInbox[p][i + 1] => MissedAt(p, x)
      BY <3>1, <3>2 DEF MissedInv
    <3> QED  BY <2>4, <3>1, <3>3, <3>4
  <2> QED  BY <2>3, <2>4
<1> QED  BY <1>3, <1>4 DEF MissedInv

LEMMA Takes ==
  ASSUME SaveInv, FormInv, NEW p \in Panels, NEW m, Rest(settingsInbox[p], settingsInbox'[p], m), NEW js,
         settingsJobs' = settingsJobs \cup js,
         UNCHANGED <<settingsDisk, settingsChanged, settingsReloads>>, settingsGaveUp \subseteq settingsGaveUp',
         Asked(p, settingsReloads[p], js),
         \A q \in Panels \ {p} : settingsPanel'[q] = settingsPanel[q] /\ settingsInbox'[q] = settingsInbox[q] /\ settingsFollow'[q] = settingsFollow[q],
         \A s \in Sync!Sections :
           /\ Ours(settingsReloads[p], s, m) => \E e : e.sent = Sync!Nil /\ Makes(s, e, settingsPanel'[p][s], js)
           /\ ~Ours(settingsReloads[p], s, m) => Makes(s, settingsPanel[p][s], settingsPanel'[p][s], js)
           /\ settingsPanel'[p][s].base = Sync!Nil => settingsPanel[p][s].base = Sync!Nil /\ ~IsSnap(s, m)
           /\ EditOk(Excused(p, s)', settingsPanel'[p][s])
           /\ IsSnap(s, m) /\ m.rev = settingsDisk[s] /\ m.id = 0 => Settled(p, s)'
           /\ ~IsSnap(s, m) /\ Settled(p, s) => Settled(p, s)',
         ~Ours(settingsReloads[p], "configs", m) /\ settingsPanel[p]["configs"].sent # Sync!Nil => \A x : MissedAt(p, x) => MissedAt(p, x)'
  PROVE  FormInv'
<1>1. TokenInv'
  BY TakesToken DEF FormInv
<1>2. ComingInv'
  BY TakesComing DEF FormInv
<1>3. ASSUME NEW q \in Panels \ {p}, NEW s \in Sync!Sections
      PROVE  (GaveUp(q, s) => GaveUp(q, s)') /\ (Waiting(q, s) => Waiting(q, s)') /\ (Excused(q, s) => Excused(q, s)')
  BY ExcusesStay
<1>4. EditInv'
  <2> SUFFICES ASSUME NEW q \in Panels, NEW s \in Sync!Sections PROVE EditOk(Excused(q, s)', settingsPanel'[q][s])
    BY DEF EditInv
  <2>1. CASE q # p
    BY <1>3, <2>1, EditGrows DEF FormInv, EditInv
  <2> QED  BY <2>1
<1>5. FreshInv'
  <2> SUFFICES ASSUME NEW s \in Sync!Sections \ settingsChanged'
               PROVE  (\A j \in settingsJobs' : Current(s, settingsDisk'[s], j)) /\ \A q \in Panels : Told(q, s)'
    BY DEF FreshInv
  <2>1. (\A j \in settingsJobs : Current(s, settingsDisk[s], j)) /\ \A q \in Panels : Told(q, s)
    <3>1. s \in Sync!Sections \ settingsChanged
      OBVIOUS
    <3> QED  BY <3>1 DEF FormInv, FreshInv
  <2>2. \A j \in settingsJobs' : Current(s, settingsDisk'[s], j)
    BY <2>1 DEF Current, Asked
  <2>3. ASSUME NEW q \in Panels, q # p PROVE Told(q, s)'
    <3>0. settingsPanel'[q] = settingsPanel[q] /\ settingsInbox'[q] = settingsInbox[q]
      BY <2>3
    <3>1. CASE (\E j \in settingsJobs : Answering(q, s, j)) \/ Newest(s, settingsDisk[s], settingsInbox[q])
      BY <3>0, <3>1 DEF Told
    <3>2. CASE (\A i \in DOMAIN settingsInbox[q] : ~IsSnap(s, settingsInbox[q][i])) /\ Settled(q, s)
      <4>1. Tried(q, settingsReloads[q], s, settingsJobs, settingsInbox[q]) => Tried(q, settingsReloads'[q], s, settingsJobs', settingsInbox'[q])
        BY <3>0 DEF Tried
      <4>2. Settled(q, s)'
        BY <3>0, <3>2, <4>1, <1>3, <2>3, SettledStays
      <4> QED  BY <3>0, <3>2, <4>2 DEF Told
    <3> QED  BY <2>1, <3>1, <3>2 DEF Told
  <2>4. Told(p, s)'
    <3>1. CASE \E j \in settingsJobs : Answering(p, s, j)
      BY <3>1 DEF Told
    <3>2. CASE Newest(s, settingsDisk[s], settingsInbox[p])
      BY <3>2, NewestTaken DEF Told
    <3>3. CASE (\A i \in DOMAIN settingsInbox[p] : ~IsSnap(s, settingsInbox[p][i])) /\ Settled(p, s)
      <4>1. ~IsSnap(s, m) /\ \A i \in DOMAIN settingsInbox'[p] : ~IsSnap(s, settingsInbox'[p][i])
        BY <3>3 DEF Rest
      <4> QED  BY <3>3, <4>1 DEF Told
    <3> QED  BY <2>1, <3>1, <3>2, <3>3 DEF Told
  <2> QED  BY <2>2, <2>3, <2>4
<1>6. MissedInv'
  BY TakesMissed DEF FormInv
<1> QED  BY <1>1, <1>2, <1>4, <1>5, <1>6 DEF FormInv

\* A message that bears the number of a save answers it.
LEMMA OwnIs ==
  ASSUME SaveInv, FormInv, NEW p \in Panels, NEW m, m.s \in Sync!Sections, NEW t, Rest(settingsInbox[p], t, m)
  PROVE  /\ Sync!OwnSave(p, m) <=> Ours(settingsReloads[p], m.s, m)
         /\ Ours(settingsReloads[p], m.s, m) => (\A j \in settingsJobs : ~Mine(p, settingsReloads[p], m.s, j)) /\ settingsPanel[p][m.s].sent # Sync!Nil
<1> DEFINE c == settingsPanel[p][m.s]
           q == settingsInbox[p]
           n == settingsReloads[p]
<1>1. Token(p, n, m.s, c, settingsJobs, q) /\ Rest(q, t, m)
  BY DEF FormInv, TokenInv
<1> HIDE DEF c, q, n
<1>2. Ours(n, m.s, m) => (\A j \in settingsJobs : ~Mine(p, n, m.s, j))
  BY <1>1, TokenTaken
<1>3. Ours(n, m.s, m) => c.sent # Sync!Nil
  BY <1>1, TokenTaken
<1> QED  BY <1>2, <1>3 DEF Sync!OwnSave, Ours, c, q, n

\* What was tried is still tried when another message is taken.
LEMMA TriedStays ==
  ASSUME NEW p, NEW n, NEW s, NEW js, NEW ks, NEW q, NEW t, NEW m, Tried(p, n, s, js, q), js \subseteq ks,
         Rest(q, t, m), Ours(n, s, m) => m.code # "error"
  PROVE  Tried(p, n, s, ks, t)
<1>1. CASE \E j \in js : Mine(p, n, s, j) /\ j.at \in {"save", "commit"}
  BY <1>1 DEF Tried
<1>2. CASE \E i \in DOMAIN q : Ours(n, s, q[i]) /\ q[i].code = "error"
  <2>1. PICK i \in DOMAIN q : Ours(n, s, q[i]) /\ q[i].code = "error"
    BY <1>2
  <2>2. i - 1 \in DOMAIN t /\ t[i - 1] = q[i]
    BY <2>1 DEF Rest
  <2> QED  BY <2>1, <2>2 DEF Tried
<1> QED  BY <1>1, <1>2 DEF Tried

\* What has settled in the section of the message is settled afterwards, or tried.
LEMMA HandledSettles ==
  ASSUME SaveInv, FormInv, NEW p \in Panels, NEW m, m.s \in Sync!Sections, NEW c, c = settingsPanel[p][m.s],
         NEW r, NEW own,
         own <=> Sync!OwnSave(p, m), HandledTo(p, own, m, c, r), Rest(settingsInbox[p], settingsInbox'[p], m),
         m.code \in {"snapshot", "conflict", "error"},
         settingsPanel'[p][m.s] = r.c, settingsJobs \subseteq settingsJobs', r.jobs \subseteq settingsJobs',
         UNCHANGED <<settingsDisk, settingsReloads>>,
         settingsGaveUp \subseteq settingsGaveUp', m.code = "error" => GaveUp(p, m.s)',
         Waiting(p, m.s) => Waiting(p, m.s)'
  PROVE  /\ IsSnap(m.s, m) /\ m.rev = settingsDisk[m.s] /\ m.id = 0 => Settled(p, m.s)'
         /\ ~IsSnap(m.s, m) /\ Settled(p, m.s) => Settled(p, m.s)'
<1>0. (GaveUp(p, m.s) => GaveUp(p, m.s)') /\ settingsReloads[p] \in Nat
  BY DEF GaveUp, SaveInv, RestTypes
<1>1. ASSUME NEW v, Says(v, r.c) PROVE \A x : Calm(v, x, r.c)
  BY <1>1 DEF Says, Calm
<1>2. ASSUME IsSnap(m.s, m), m.rev = settingsDisk[m.s], m.id = 0 PROVE Settled(p, m.s)'
  <2>1. ~own
    BY <1>0, <1>2 DEF Sync!OwnSave
  <2>2. Says(settingsDisk[m.s], r.c)
    BY <1>2, <2>1 DEF HandledTo, IsSnap
  <2> QED  BY <1>1, <2>2 DEF Settled
<1>3. ASSUME ~IsSnap(m.s, m), Settled(p, m.s) PROVE Settled(p, m.s)'
  <2>1. CASE GaveUp(p, m.s) \/ m.code = "error"
    BY <1>0, <2>1 DEF Settled
  <2>2. CASE Tried(p, settingsReloads[p], m.s, settingsJobs, settingsInbox[p]) /\ m.code # "error"
    <3>1. Tried(p, settingsReloads[p], m.s, settingsJobs', settingsInbox'[p])
      BY <2>2, TriedStays
    <3> QED  BY <3>1 DEF Settled
  <2>3. CASE Calm(settingsDisk[m.s], Waiting(p, m.s), c) /\ m.code = "conflict" /\ ~own
    <3>1. Quietly(r.c, c)
      BY <2>3 DEF HandledTo
    <3>2. Calm(settingsDisk[m.s], Waiting(p, m.s)', c)
      BY <2>3, CalmGrows
    <3>3. Calm(settingsDisk[m.s], Waiting(p, m.s)', r.c)
      BY <3>1, <3>2 DEF Calm, Quietly, Ready
    <3> QED  BY <3>3 DEF Settled
  <2>4. CASE Calm(settingsDisk[m.s], Waiting(p, m.s), c) /\ m.code = "conflict" /\ own
    <3>1. c.sent # Sync!Nil /\ Effect(p, m.s, r)
      BY <2>4 DEF HandledTo
    <3>2. Says(settingsDisk[m.s], c)
      BY <2>4, <3>1 DEF Calm, Says, Ready
    <3>3. Says(settingsDisk[m.s], r.c) \/ r.c.sent # Sync!Nil
      BY <2>4, <3>2 DEF HandledTo
    <3>4. ASSUME r.c.sent # Sync!Nil PROVE Settled(p, m.s)'
      <4>1. PICK j : j = Sync!Update(p, m.s, r.c.sent, r.c.rev)
        OBVIOUS
      <4>2. Mine(p, settingsReloads[p], m.s, j) /\ j.at = "save"
        BY <4>1 DEF Sync!Update, Mine
      <4>3. j \in settingsJobs'
        BY <3>1, <3>4, <4>1 DEF Effect
      <4>4. Tried(p, settingsReloads[p], m.s, settingsJobs', settingsInbox'[p])
        BY <4>2, <4>3 DEF Tried
      <4> QED  BY <4>4 DEF Settled
    <3>5. ASSUME Says(settingsDisk[m.s], r.c) PROVE Settled(p, m.s)'
      BY <1>1, <3>5 DEF Settled
    <3> QED  BY <3>3, <3>4, <3>5
  <2>5. m.code # "snapshot"
    BY <1>3 DEF IsSnap
  <2> QED  BY <1>3, <2>1, <2>2, <2>3, <2>4, <2>5 DEF Settled
<1> QED  BY <1>2, <1>3

\* The choice is sent, or goes on waiting, when a message of the table comes.
LEMMA GoesOnWaiting ==
  ASSUME SaveInv, FormInv, NEW p \in Panels, NEW m, m.s = "configs", NEW c, c = settingsPanel[p]["configs"],
         NEW r, NEW own,
         own <=> Sync!OwnSave(p, m), HandledTo(p, own, m, c, r), Rest(settingsInbox[p], settingsInbox'[p], m),
         ~Sync!Flushes(p, m), settingsFollow'[p] = settingsFollow[p], settingsDisk' = settingsDisk,
         settingsPanel'[p]["configs"] = r.c, settingsGaveUp \subseteq settingsGaveUp',
         m.code = "error" => GaveUp(p, "configs")'
  PROVE  Waiting(p, "llm") => Waiting(p, "llm")' \/ GaveUp(p, "llm")'
<1> SUFFICES ASSUME Waiting(p, "llm") PROVE Waiting(p, "llm")' \/ GaveUp(p, "llm")'
  OBVIOUS
<1>0. \A s : GaveUp(p, s) => GaveUp(p, s)'
  BY DEF GaveUp
<1>1. settingsFollow[p] # 0 /\ (Busy(c) \/ GaveUp(p, "configs") \/ settingsDisk["configs"][settingsFollow[p]] = 0)
  BY DEF Waiting, WaitsFor
<1>2. CASE GaveUp(p, "configs") \/ settingsDisk["configs"][settingsFollow[p]] = 0 \/ m.code = "error"
  BY <1>0, <1>1, <1>2 DEF Waiting, WaitsFor
<1>3. CASE Busy(r.c)
  BY <1>1, <1>3 DEF Waiting, WaitsFor
<1>4. CASE own /\ m.code = "snapshot" /\ c.queued = Sync!Nil
  <2>1. m.value[settingsFollow[p]] = 0
    BY <1>1, <1>4 DEF Sync!Flushes
  <2>2. 1 \in DOMAIN settingsInbox[p] /\ settingsInbox[p][1] = m /\ Ours(settingsReloads[p], "configs", m)
    BY <1>4 DEF Rest, Sync!OwnSave, Ours
  <2>3. MissedAt(p, m)
    BY <2>2, <1>4 DEF FormInv, MissedInv
  <2>4. settingsDisk["configs"][settingsFollow[p]] = 0 \/ GaveUp(p, "llm") \/ GaveUp(p, "configs")
    BY <2>1, <2>3, <1>1, <1>4 DEF MissedAt, Missed
  <2> QED  BY <2>4, <1>0, <1>1 DEF Waiting, WaitsFor
<1> QED  BY <1>1, <1>2, <1>3, <1>4 DEF HandledTo

LEMMA PlainReceiveForms ==
  ASSUME SaveInv, FormInv, NEW p \in Panels, NEW m, m = Head(settingsInbox[p]), Sync!Receive(p),
         ~Sync!Flushes(p, m)
  PROVE  FormInv'
<1> DEFINE n == settingsReloads[p]
           s == m.s
           c == settingsPanel[p][s]
           r == Handled(p, m)
           own == Sync!OwnSave(p, m)
<1>0. "configs" \in Sync!Sections /\ "llm" \in Sync!Sections /\ Sync!Sections = {"configs", "llm"} /\ n \in Nat
  BY DEF Sync!Sections, SaveInv, RestTypes
<1>1. /\ settingsInbox[p] # <<>> /\ settingsInbox' = [settingsInbox EXCEPT ![p] = Tail(@)]
      /\ settingsGaveUp' = (IF m.code = "error" THEN settingsGaveUp \cup {<<p, s>>} ELSE settingsGaveUp)
      /\ UNCHANGED <<settingsDisk, settingsChanged, settingsTouched, settingsKnown, settingsEdits, settingsReloads>>
      /\ Sync!Do(p, s, r) /\ UNCHANGED settingsFollow
  BY ReceiveIs
<1>2. m \in Messages /\ GoodMail(settingsKnown, m)
  BY <1>1, HeadIs DEF SaveInv
<1>3. Good(settingsTouched[p], settingsKnown, s, r.c) /\ s \in Sync!Sections
  BY <1>2, HandledGood
<1>4. Rest(settingsInbox[p], Tail(settingsInbox[p]), m)
  BY <1>1, RestIs DEF SaveInv
<1>5. settingsInbox'[p] = Tail(settingsInbox[p]) /\ \A q \in Panels \ {p} : settingsInbox'[q] = settingsInbox[q]
  BY <1>1 DEF SaveInv, MailInv
<1>6. Rest(settingsInbox[p], settingsInbox'[p], m)
  BY <1>4, <1>5
<1>7. PICK o : o <=> Sync!OwnSave(p, m)
  OBVIOUS
<1>8. m.code \in {"snapshot", "conflict", "error"}
  BY <1>2 DEF Messages, Message
<1>9. HandledTo(p, o, m, c, r)
  BY <1>2, <1>7, HandledForms
<1>10. (o <=> Ours(n, s, m)) /\ (Ours(n, s, m) => c.sent # Sync!Nil)
  BY <1>3, <1>6, <1>7, OwnIs
<1> HIDE DEF r
<1>11. /\ settingsPanel' \in [Panels -> [Sync!Sections -> Section("configs") \cup Section("llm")]]
       /\ \A q \in Panels : \A t \in Sync!Sections : settingsPanel'[q][t] = IF q = p /\ t = s THEN r.c ELSE settingsPanel[q][t]
  BY <1>1, <1>3, PanelSet DEF Sync!Do, SaveInv, Good
<1>12. \A q \in Panels \ {p} : settingsPanel'[q] = settingsPanel[q] /\ settingsInbox'[q] = settingsInbox[q] /\ settingsFollow'[q] = settingsFollow[q]
  BY <1>1, <1>5, <1>11 DEF SaveInv, PanelInv
<1>13. settingsGaveUp \subseteq settingsGaveUp' /\ (m.code = "error" => GaveUp(p, s)') /\ (\A t : GaveUp(p, t) => GaveUp(p, t)')
  BY <1>1 DEF GaveUp
<1>14. settingsPanel'[p][s] = r.c /\ \A t \in Sync!Sections : t # s => settingsPanel'[p][t] = settingsPanel[p][t]
  BY <1>3, <1>11
<1>15. Asked(p, n, r.jobs) /\ (\A j \in r.jobs : j.s = s)
       /\ (o => \E e : e.sent = Sync!Nil /\ Makes(s, e, r.c, r.jobs)) /\ (~o => Makes(s, c, r.c, r.jobs))
  <2>1. CASE o
    <3>0. Sync!Unsaved.sent = Sync!Nil
      BY DEF Sync!Unsaved
    <3>1. PICK e : e.sent = Sync!Nil
      BY <3>0
    <3>2. Done(p, s, e, r)
      BY <2>1, <3>1, <1>9 DEF Done, HandledTo
    <3> QED  BY <2>1, <3>1, <3>2, <1>3, DoneIs
  <2>2. CASE ~o
    <3>1. Done(p, s, c, r)
      BY <2>2, <1>9 DEF HandledTo
    <3> QED  BY <2>2, <3>1, <1>3, DoneIs
  <2> QED  BY <2>1, <2>2
<1> HIDE DEF c
<1>16. ASSUME NEW t \in Sync!Sections
       PROVE  /\ Ours(n, t, m) => \E e : e.sent = Sync!Nil /\ Makes(t, e, settingsPanel'[p][t], r.jobs)
              /\ ~Ours(n, t, m) => Makes(t, settingsPanel[p][t], settingsPanel'[p][t], r.jobs)
  <2>1. CASE t = s
    BY <2>1, <1>10, <1>14, <1>15 DEF c
  <2>2. CASE t # s
    <3>1. ~Ours(n, t, m) /\ \A j \in r.jobs : j.s # t
      BY <2>2, <1>15 DEF Ours
    <3> QED  BY <2>2, <3>1, <1>14 DEF Makes
  <2> QED  BY <2>1, <2>2
<1>17. \A t \in Sync!Sections : settingsPanel'[p][t].base = Sync!Nil => settingsPanel[p][t].base = Sync!Nil /\ ~IsSnap(t, m)
  BY <1>9, <1>14 DEF HandledTo, IsSnap, c
<1>18. ASSUME NEW t \in Sync!Sections PROVE Waiting(p, t) => Waiting(p, t)' \/ GaveUp(p, t)'
  <2>1. CASE s = "configs"
    <3>1. Waiting(p, "llm") => Waiting(p, "llm")' \/ GaveUp(p, "llm")'
      BY <2>1, <1>1, <1>6, <1>7, <1>9, <1>13, <1>14, GoesOnWaiting DEF c
    <3> QED  BY <3>1 DEF Waiting
  <2>2. CASE s = "llm"
    <3>1. settingsPanel'[p]["configs"] = settingsPanel[p]["configs"]
      BY <2>2, <1>0, <1>14
    <3> QED  BY <3>1, <1>1, <1>13 DEF Waiting, WaitsFor
  <2> QED  BY <2>1, <2>2, <1>0, <1>3
<1>19. Waiting(p, s) => Waiting(p, s)'
  <2>1. CASE s = "llm"
    <3>1. settingsPanel'[p]["configs"] = settingsPanel[p]["configs"]
      BY <2>1, <1>0, <1>14
    <3> QED  BY <3>1, <1>1, <1>13 DEF Waiting, WaitsFor
  <2> QED  BY <2>1 DEF Waiting
<1>20. ASSUME NEW t \in Sync!Sections PROVE EditOk(Excused(p, t)', settingsPanel'[p][t])
  <2>1. EditOk(Excused(p, t), settingsPanel[p][t]) /\ (Excused(p, t) => Excused(p, t)')
    BY <1>13, <1>18 DEF FormInv, EditInv, Excused
  <2>2. CASE t # s
    <3>1. settingsPanel'[p][t] = settingsPanel[p][t]
      BY <1>14, <2>2
    <3> QED  BY <2>1, <3>1, EditGrows
  <2>3. CASE t = s /\ m.code = "error"
    BY <1>13, <2>3 DEF Excused, EditOk
  <2>4. CASE t = s /\ m.code # "error"
    <3>1. EditOk(Excused(p, t), r.c)
      BY <2>1, <2>4, <1>9 DEF HandledTo, c
    <3> QED  BY <3>1, <2>1, <2>4, <1>14, EditGrows
  <2> QED  BY <2>2, <2>3, <2>4
<1>21. /\ IsSnap(s, m) /\ m.rev = settingsDisk[s] /\ m.id = 0 => Settled(p, s)'
       /\ ~IsSnap(s, m) /\ Settled(p, s) => Settled(p, s)'
  <2>1. settingsJobs \subseteq settingsJobs' /\ r.jobs \subseteq settingsJobs'
    BY <1>1 DEF Sync!Do
  <2> QED  BY <2>1, <1>1, <1>3, <1>6, <1>7, <1>8, <1>9, <1>13, <1>14, <1>19, HandledSettles DEF c
<1>22. ASSUME NEW t \in Sync!Sections
       PROVE  /\ IsSnap(t, m) /\ m.rev = settingsDisk[t] /\ m.id = 0 => Settled(p, t)'
              /\ ~IsSnap(t, m) /\ Settled(p, t) => Settled(p, t)'
  <2>1. CASE t = s
    BY <2>1, <1>21
  <2>2. CASE t # s
    <3>1. ~IsSnap(t, m) /\ ~Ours(n, t, m) /\ settingsPanel'[p][t] = settingsPanel[p][t]
      BY <2>2, <1>14 DEF IsSnap, Ours
    <3>2. Tried(p, n, t, settingsJobs, settingsInbox[p]) => Tried(p, settingsReloads'[p], t, settingsJobs', settingsInbox'[p])
      <4>1. settingsJobs \subseteq settingsJobs' /\ settingsReloads' = settingsReloads
        BY <1>1 DEF Sync!Do
      <4> QED  BY <4>1, <3>1, <1>6, TriedStays
    <3>3. Settled(p, t) => Settled(p, t)'
      BY <3>1, <3>2, <1>1, <1>13, <1>18, SettledStays
    <3> QED  BY <3>1, <3>3
  <2> QED  BY <2>1, <2>2
<1>23. ~Ours(n, "configs", m) /\ settingsPanel[p]["configs"].sent # Sync!Nil => \A x : MissedAt(p, x) => MissedAt(p, x)'
  <2>1. CASE s = "configs" /\ ~o /\ c.sent # Sync!Nil
    <3>1. settingsPanel'[p]["configs"].queued = settingsPanel[p]["configs"].queued
      BY <2>1, <1>9, <1>14 DEF HandledTo, c
    <3> QED  BY <3>1, <1>1, <1>13 DEF MissedAt, Missed
  <2>2. CASE s # "configs"
    <3>1. settingsPanel'[p]["configs"] = settingsPanel[p]["configs"]
      BY <2>2, <1>0, <1>14
    <3> QED  BY <3>1, <1>1, <1>13 DEF MissedAt, Missed
  <2> QED  BY <2>1, <2>2, <1>10 DEF c
<1>24. settingsJobs' = settingsJobs \cup r.jobs /\ UNCHANGED <<settingsDisk, settingsChanged, settingsReloads>>
  BY <1>1 DEF Sync!Do
<1>25. Asked(p, settingsReloads[p], r.jobs)
  BY <1>15
<1>26. \A t \in Sync!Sections :
         /\ Ours(settingsReloads[p], t, m) => \E e : e.sent = Sync!Nil /\ Makes(t, e, settingsPanel'[p][t], r.jobs)
         /\ ~Ours(settingsReloads[p], t, m) => Makes(t, settingsPanel[p][t], settingsPanel'[p][t], r.jobs)
         /\ settingsPanel'[p][t].base = Sync!Nil => settingsPanel[p][t].base = Sync!Nil /\ ~IsSnap(t, m)
         /\ EditOk(Excused(p, t)', settingsPanel'[p][t])
         /\ IsSnap(t, m) /\ m.rev = settingsDisk[t] /\ m.id = 0 => Settled(p, t)'
         /\ ~IsSnap(t, m) /\ Settled(p, t) => Settled(p, t)'
  BY <1>16, <1>17, <1>20, <1>22
<1> QED  BY <1>6, <1>12, <1>13, <1>23, <1>24, <1>25, <1>26, Takes

LEMMA FlushReceiveForms ==
  ASSUME SaveInv, FormInv, NEW p \in Panels, NEW m, m = Head(settingsInbox[p]), Sync!Receive(p),
         Sync!Flushes(p, m)
  PROVE  FormInv'
<1> DEFINE n == settingsReloads[p]
           c == settingsPanel[p]["configs"]
           l == settingsPanel[p]["llm"]
           r == Handled(p, m)
           f == Flush(p)
           d == Following(p)
           js == r.jobs \cup f.jobs
<1>0. "configs" \in Sync!Sections /\ "llm" \in Sync!Sections /\ Sync!Sections = {"configs", "llm"} /\ n \in Nat
  BY DEF Sync!Sections, SaveInv, RestTypes
<1>1. /\ settingsInbox[p] # <<>> /\ settingsInbox' = [settingsInbox EXCEPT ![p] = Tail(@)]
      /\ settingsGaveUp' = (IF m.code = "error" THEN settingsGaveUp \cup {<<p, m.s>>} ELSE settingsGaveUp)
      /\ UNCHANGED <<settingsDisk, settingsChanged, settingsTouched, settingsKnown, settingsEdits, settingsReloads>>
      /\ settingsPanel' = [settingsPanel EXCEPT ![p] = [s \in Sync!Sections |-> IF s = "configs" THEN r.c ELSE f.c]]
      /\ settingsJobs' = settingsJobs \cup r.jobs \cup f.jobs
      /\ settingsFollow' = [settingsFollow EXCEPT ![p] = 0]
  BY ReceiveIs
<1>2. m \in Messages /\ GoodMail(settingsKnown, m)
  BY <1>1, HeadIs DEF SaveInv
<1>3. m.s = "configs" /\ m.code = "snapshot" /\ Sync!OwnSave(p, m)
  BY DEF Sync!Flushes
<1>4. Rest(settingsInbox[p], Tail(settingsInbox[p]), m)
  BY <1>1, RestIs DEF SaveInv
<1>5. settingsInbox'[p] = Tail(settingsInbox[p]) /\ \A q \in Panels \ {p} : settingsInbox'[q] = settingsInbox[q]
  BY <1>1 DEF SaveInv, MailInv
<1>6. Rest(settingsInbox[p], settingsInbox'[p], m)
  BY <1>4, <1>5
<1>7. PICK o : o = TRUE
  OBVIOUS
<1>8. HandledTo(p, o, m, c, r) /\ Good(settingsTouched[p], settingsKnown, "configs", r.c)
  BY <1>2, <1>3, <1>7, HandledForms, HandledGood
<1>9. Ours(n, "configs", m)
  BY <1>0, <1>3, <1>6, OwnIs
<1>10. d \in Section("llm") /\ d.base # Sync!Nil /\ Good(settingsTouched[p], settingsKnown, "llm", f.c) /\ f.c.base # Sync!Nil /\ FormTo(d, l)
  BY FlushGood
<1>11. EnqueuedTo(p, "llm", d, f)
  BY <1>0, <1>10, EnqueueTo DEF Flush
<1> HIDE DEF r, f, d
<1>12. /\ settingsPanel' \in [Panels -> [Sync!Sections -> Section("configs") \cup Section("llm")]]
       /\ \A q \in Panels : \A u \in Sync!Sections :
            settingsPanel'[q][u] = IF q = p THEN (IF u = "configs" THEN r.c ELSE f.c) ELSE settingsPanel[q][u]
  <2>1. r.c \in Section("configs") /\ f.c \in Section("llm")
    BY <1>8, <1>10 DEF Good
  <2> QED  BY <2>1, <1>0, <1>1 DEF SaveInv, PanelInv
<1>13. settingsPanel'[p]["configs"] = r.c /\ settingsPanel'[p]["llm"] = f.c
  BY <1>0, <1>12
<1>14. \A q \in Panels \ {p} : settingsPanel'[q] = settingsPanel[q] /\ settingsInbox'[q] = settingsInbox[q] /\ settingsFollow'[q] = settingsFollow[q]
  BY <1>1, <1>5, <1>12 DEF SaveInv, PanelInv, RestTypes
<1>15. Asked(p, n, r.jobs) /\ (\A j \in r.jobs : j.s = "configs") /\ \E e : e.sent = Sync!Nil /\ Makes("configs", e, r.c, r.jobs)
  <2>0. Sync!Unsaved.sent = Sync!Nil
    BY DEF Sync!Unsaved
  <2>1. PICK e : e.sent = Sync!Nil
    BY <2>0
  <2>2. Done(p, "configs", e, r)
    BY <2>1, <1>3, <1>7, <1>8 DEF Done, HandledTo
  <2> QED  BY <2>1, <2>2, <1>0, DoneIs
<1>16. (Ready(d) <=> Ready(l)) /\ d.sent = l.sent /\ d.rev = l.rev /\ d.staged = l.staged
  BY <1>10 DEF FormTo, Ready
<1>17. /\ Asked(p, n, f.jobs) /\ Makes("llm", l, f.c, f.jobs) /\ (\A j \in f.jobs : j.s = "llm")
       /\ l.sent = Sync!Nil /\ f.c.sent # Sync!Nil => Trying(p, n, "llm", f.jobs)
  <2>1. Done(p, "llm", l, f)
    BY <1>11, <1>16 DEF Done, EnqueuedTo, Effect, Ready
  <2> QED  BY <2>1, <1>0, DoneIs
<1> HIDE DEF l
<1>18. ASSUME NEW t \in Sync!Sections
       PROVE  /\ Ours(n, t, m) => \E e : e.sent = Sync!Nil /\ Makes(t, e, settingsPanel'[p][t], js)
              /\ ~Ours(n, t, m) => Makes(t, settingsPanel[p][t], settingsPanel'[p][t], js)
  <2>1. CASE t = "configs"
    <3>1. PICK e : e.sent = Sync!Nil /\ Makes("configs", e, r.c, r.jobs)
      BY <1>15
    <3>2. Makes("configs", e, r.c, js)
      BY <3>1, <1>17 DEF Makes
    <3> QED  BY <2>1, <3>1, <3>2, <1>9, <1>13
  <2>2. CASE t = "llm"
    <3>1. Makes("llm", l, f.c, js)
      BY <1>15, <1>17 DEF Makes
    <3> QED  BY <2>2, <3>1, <1>3, <1>13 DEF Ours, l
  <2> QED  BY <2>1, <2>2, <1>0
<1>19. \A t \in Sync!Sections : settingsPanel'[p][t].base # Sync!Nil
  BY <1>0, <1>3, <1>8, <1>10, <1>13 DEF HandledTo
<1>20. settingsGaveUp' = settingsGaveUp
  BY <1>1, <1>3
<1>21. ASSUME NEW t \in Sync!Sections PROVE EditOk(Excused(p, t)', settingsPanel'[p][t])
  <2>1. CASE t = "configs"
    <3>1. EditOk(Excused(p, "configs"), c) /\ (Excused(p, "configs") => Excused(p, "configs")')
      BY <1>0, <1>20 DEF FormInv, EditInv, Excused, Waiting, GaveUp
    <3>2. EditOk(Excused(p, "configs"), r.c)
      BY <3>1, <1>3, <1>8 DEF HandledTo
    <3> QED  BY <2>1, <3>1, <3>2, <1>13, EditGrows
  <2>2. CASE t = "llm"
    BY <2>2, <1>11, <1>13 DEF EnqueuedTo
  <2> QED  BY <2>1, <2>2, <1>0
<1>22. settingsJobs \subseteq settingsJobs' /\ r.jobs \subseteq settingsJobs' /\ f.jobs \subseteq settingsJobs' /\ settingsJobs' = settingsJobs \cup js
  BY <1>1
<1>23. IsSnap("configs", m) /\ (m.rev = settingsDisk["configs"] /\ m.id = 0 => Settled(p, "configs")')
  BY <1>0, <1>3 DEF IsSnap, Sync!OwnSave
<1>24. ~IsSnap("llm", m) /\ (Settled(p, "llm") => Settled(p, "llm")')
  <2>1. ~IsSnap("llm", m) /\ ~Ours(n, "llm", m)
    BY <1>3 DEF IsSnap, Ours
  <2>2. ASSUME Settled(p, "llm") PROVE Settled(p, "llm")'
    <3>1. CASE GaveUp(p, "llm")
      BY <3>1, <1>20 DEF Settled, GaveUp
    <3>2. CASE Tried(p, n, "llm", settingsJobs, settingsInbox[p])
      <4>1. Tried(p, n, "llm", settingsJobs', settingsInbox'[p])
        BY <3>2, <2>1, <1>6, <1>22, TriedStays
      <4> QED  BY <4>1, <1>1 DEF Settled
    <3>3. CASE Calm(settingsDisk["llm"], Waiting(p, "llm"), l) /\ Ready(l)
      <4>1. Trying(p, n, "llm", f.jobs)
        BY <3>3, <1>11, <1>16, <1>17 DEF EnqueuedTo, Ready
      <4>2. Tried(p, n, "llm", settingsJobs', settingsInbox'[p])
        BY <4>1, <1>22 DEF Trying, Tried
      <4> QED  BY <4>2, <1>1 DEF Settled
    <3>4. CASE Calm(settingsDisk["llm"], Waiting(p, "llm"), l) /\ ~Ready(l)
      <4>1. \A x : Calm(settingsDisk["llm"], x, f.c)
        BY <3>4, <1>11, <1>16 DEF EnqueuedTo, Calm
      <4> QED  BY <4>1, <1>1, <1>13 DEF Settled
    <3> QED  BY <2>2, <3>1, <3>2, <3>3, <3>4 DEF Settled, l
  <2> QED  BY <2>1, <2>2
<1>25. ~Ours(n, "configs", m) /\ settingsPanel[p]["configs"].sent # Sync!Nil => \A x : MissedAt(p, x) => MissedAt(p, x)'
  BY <1>9
<1>26. \A t \in Sync!Sections :
         /\ Ours(settingsReloads[p], t, m) => \E e : e.sent = Sync!Nil /\ Makes(t, e, settingsPanel'[p][t], js)
         /\ ~Ours(settingsReloads[p], t, m) => Makes(t, settingsPanel[p][t], settingsPanel'[p][t], js)
         /\ settingsPanel'[p][t].base = Sync!Nil => settingsPanel[p][t].base = Sync!Nil /\ ~IsSnap(t, m)
         /\ EditOk(Excused(p, t)', settingsPanel'[p][t])
         /\ IsSnap(t, m) /\ m.rev = settingsDisk[t] /\ m.id = 0 => Settled(p, t)'
         /\ ~IsSnap(t, m) /\ Settled(p, t) => Settled(p, t)'
  BY <1>0, <1>18, <1>19, <1>21, <1>23, <1>24
<1>27. Asked(p, settingsReloads[p], js)
  BY <1>15, <1>17 DEF Asked
<1>28. UNCHANGED <<settingsDisk, settingsChanged, settingsReloads>> /\ settingsGaveUp \subseteq settingsGaveUp'
  BY <1>1, <1>20
<1> HIDE DEF js
<1>29. settingsJobs' = settingsJobs \cup js
  BY <1>22 DEF js
<1> QED  BY <1>6, <1>14, <1>25, <1>26, <1>27, <1>28, <1>29, Takes

LEMMA ReceiveForms ==
  ASSUME SaveInv, FormInv, NEW p \in Panels, Sync!Receive(p)
  PROVE  FormInv'
<1>1. PICK m : m = Head(settingsInbox[p])
  OBVIOUS
<1> QED  BY <1>1, PlainReceiveForms, FlushReceiveForms

-----------------------------------------------------------------------------
(* Edits: every step.                                                        *)

LEMMA InitForms ==
  ASSUME Sync!Init
  PROVE  FormInv
<1>0. "configs" \in Sync!Sections /\ "llm" \in Sync!Sections
  BY DEF Sync!Sections
<1>1. SaveInv /\ settingsJobs = {} /\ \A p \in Panels : \A i \in DOMAIN settingsInbox[p] : FALSE
  <2>1. \A p \in Panels : settingsInbox[p] = <<>>
    BY DEF Sync!Init
  <2>2. <<>> \in Seq(Messages)
    OBVIOUS
  <2>3. ASSUME NEW p \in Panels, NEW i \in DOMAIN settingsInbox[p] PROVE FALSE
    BY <2>1, <2>2, LenProperties
  <2> QED  BY <2>3, InitSaves DEF Sync!Init
<1>2. ASSUME NEW p \in Panels, NEW s \in Sync!Sections
      PROVE  LET c == settingsPanel[p][s]
             IN /\ c.form = c.base /\ c.base # Sync!Nil /\ c.rev = settingsDisk[s]
                /\ c.sent = Sync!Nil /\ c.queued = Sync!Nil /\ c.staged = Sync!Nil
  <2>1. settingsDisk[s] # Sync!Nil
    BY <1>1, NilIsNone DEF SaveInv, DiskInv
  <2>2. settingsPanel[p][s] = [Sync!Unsaved EXCEPT !.form = settingsDisk[s], !.base = settingsDisk[s], !.rev = settingsDisk[s]]
    BY DEF Sync!Init
  <2> QED  BY <2>1, <2>2 DEF Sync!Unsaved
<1>3. TokenInv
  BY <1>1, <1>2 DEF TokenInv, Token
<1>4. ComingInv
  BY <1>2 DEF ComingInv
<1>5. EditInv
  BY <1>2 DEF EditInv, EditOk, Busy
<1>6. FreshInv
  BY <1>1, <1>2 DEF FreshInv, Told, Settled, Calm
<1>7. MissedInv
  BY <1>1 DEF MissedInv
<1> QED  BY <1>3, <1>4, <1>5, <1>6, <1>7 DEF FormInv

LEMMA NextForms ==
  ASSUME ~EditsWhileLoading, SaveInv, FormInv, [Sync!Next]_(Sync!vars)
  PROVE  FormInv'
<1>1. CASE UNCHANGED Sync!vars
  <2> USE <1>1 DEF Sync!vars
  <2>1. TokenInv' /\ ComingInv'
    BY DEF FormInv, TokenInv, ComingInv
  <2>2. EditInv'
    BY DEF FormInv, EditInv, Excused, GaveUp, Waiting
  <2>3. FreshInv'
    BY DEF FormInv, FreshInv, Told, Settled, GaveUp, Waiting
  <2>4. MissedInv'
    BY DEF FormInv, MissedInv, MissedAt, GaveUp
  <2> QED  BY <2>1, <2>2, <2>3, <2>4 DEF FormInv
<1>2. CASE Sync!Users
  <2>1. CASE Sync!Elsewhere
    BY <2>1, ElsewhereForms
  <2>2. ASSUME NEW p \in Panels, Sync!Reload(p) PROVE FormInv'
    BY <2>2, ReloadForms
  <2>3. ASSUME NEW p \in Panels, NEW id \in ConfigIds,
               Sync!Change(p, id) \/ Sync!Create(p, id) \/ Sync!Delete(p, id) \/ Sync!Select(p, id)
        PROVE  FormInv'
    BY <2>3, ChangeForms, CreateForms, DeleteForms, SelectForms
  <2> QED  BY <1>2, <2>1, <2>2, <2>3 DEF Sync!Users
<1>3. CASE Sync!Choices
  BY <1>3, KeepMineForms, TakeTheirsForms DEF Sync!Choices
<1>4. CASE Sync!Host
  BY <1>4, WatcherForms, ReadForms, AnswerForms, LooksUpForms, RejectForms, CommitForms,
     PublishForms DEF Sync!Host
<1>5. CASE Sync!Deliveries
  BY <1>5, AutoSaveForms, ReceiveForms DEF Sync!Deliveries
<1> QED  BY <1>1, <1>2, <1>3, <1>4, <1>5 DEF Sync!Next

LEMMA TypesHold ==
  ASSUME SaveInv
  PROVE  Sync!TypeOK
<1>1. \A s : Sync!Values(s) = Value(s)
  BY DEF Sync!Values, Value
<1>2. ASSUME NEW p \in Panels, NEW s \in Sync!Sections, NEW f \in {"form", "base", "rev", "sent", "queued"}
      PROVE  settingsPanel[p][s][f] \in Sync!Values(s) \cup {Sync!Nil}
  <2>1. settingsPanel[p][s] \in Section(s)
    BY DEF SaveInv, PanelInv, Good
  <2> QED  BY <2>1, <1>1 DEF Section, Maybe
<1>3. \A j \in settingsJobs : j.s \in Sync!Sections /\ j.at \in {"read", "answer", "save", "commit", "publish"}
  BY DEF SaveInv, GoodJob, Job
<1> QED  BY <1>1, <1>2, <1>3 DEF Sync!TypeOK, SaveInv, DiskInv, RestTypes

LEMMA NothingIsForgotten ==
  ASSUME SaveInv, FormInv
  PROVE  Sync!NothingForgotten
<1> DEFINE Tells(c) == c.staged # Sync!Nil \/ c.failed \/ c.conflict
           Delayed(p) == /\ settingsFollow[p] # 0
                       /\ \/ Tells(settingsPanel[p]["configs"]) \/ <<p, "configs">> \in settingsGaveUp
                          \/ settingsDisk["configs"][settingsFollow[p]] = 0
<1> SUFFICES ASSUME Sync!Quiet, NEW p \in Panels, NEW s \in Sync!Sections
             PROVE  \/ settingsPanel[p][s].form = settingsPanel[p][s].base /\ settingsPanel[p][s].rev = settingsDisk[s]
                    \/ Tells(settingsPanel[p][s]) \/ <<p, s>> \in settingsGaveUp
                    \/ s = "llm" /\ Delayed(p)
  BY DEF Sync!NothingForgotten
<1>1. settingsJobs = {} /\ settingsChanged = {} /\ "configs" \in Sync!Sections /\ \A i \in DOMAIN settingsInbox[p] : FALSE
  <2>1. settingsInbox[p] = <<>>
    BY DEF Sync!Quiet
  <2>2. <<>> \in Seq(Messages)
    OBVIOUS
  <2>3. ASSUME NEW i \in DOMAIN settingsInbox[p] PROVE FALSE
    BY <2>1, <2>2, LenProperties
  <2> QED  BY <2>3 DEF Sync!Quiet, Sync!Sections
<1>2. ASSUME NEW t \in Sync!Sections
      PROVE  /\ settingsPanel[p][t].sent = Sync!Nil /\ settingsPanel[p][t].base # Sync!Nil /\ ~settingsPanel[p][t].timer
             /\ EditOk(Excused(p, t), settingsPanel[p][t])
             /\ GaveUp(p, t) \/ Calm(settingsDisk[t], Waiting(p, t), settingsPanel[p][t])
  <2>1. settingsPanel[p][t].sent = Sync!Nil
    BY <1>1 DEF FormInv, TokenInv, Token
  <2>2. settingsPanel[p][t].base # Sync!Nil
    BY <1>1 DEF FormInv, ComingInv, Coming
  <2>3. ~settingsPanel[p][t].timer
    BY DEF Sync!Quiet
  <2>4. Told(p, t)
    BY <1>1 DEF FormInv, FreshInv
  <2>5. Settled(p, t)
    BY <2>4, <1>1 DEF Told, Newest
  <2> QED  BY <2>1, <2>2, <2>3, <2>5, <1>1 DEF Settled, Tried, FormInv, EditInv
<1>3. ASSUME Waiting(p, s) PROVE s = "llm" /\ Delayed(p)
  <2>1. s = "llm" /\ settingsFollow[p] # 0
        /\ (Busy(settingsPanel[p]["configs"]) \/ GaveUp(p, "configs") \/ settingsDisk["configs"][settingsFollow[p]] = 0)
    BY <1>3 DEF Waiting, WaitsFor
  <2>2. CASE Busy(settingsPanel[p]["configs"])
    <3> DEFINE c == settingsPanel[p]["configs"]
    <3>1. c.sent = Sync!Nil /\ c.queued # Sync!Nil /\ EditOk(Excused(p, "configs"), c)
      BY <1>1, <1>2, <2>2 DEF Busy
    <3>2. Excused(p, "configs") => GaveUp(p, "configs")
      BY DEF Excused, Waiting
    <3>3. GaveUp(p, "configs") \/ c.conflict \/ c.staged # Sync!Nil
      BY <3>1, <3>2 DEF EditOk, Ready
    <3> QED  BY <3>3, <2>1 DEF GaveUp
  <2> QED  BY <2>1, <2>2 DEF GaveUp
<1>4. CASE GaveUp(p, s) \/ Waiting(p, s) \/ Tells(settingsPanel[p][s])
  BY <1>3, <1>4 DEF GaveUp
<1>5. CASE ~(GaveUp(p, s) \/ Waiting(p, s) \/ Tells(settingsPanel[p][s]))
  <2> DEFINE c == settingsPanel[p][s]
  <2>1. c.sent = Sync!Nil /\ c.base # Sync!Nil /\ ~c.timer /\ c.staged = Sync!Nil /\ ~c.conflict
    BY <1>2, <1>5
  <2>2. EditOk(Excused(p, s), c) /\ ~Excused(p, s) /\ Calm(settingsDisk[s], Waiting(p, s), c) /\ ~Waiting(p, s)
    BY <1>2, <1>5 DEF Excused
  <2> HIDE DEF c
  <2>3. c.rev = settingsDisk[s]
    BY <2>1, <2>2 DEF Calm
  <2>4. c.form = c.base
    BY <2>1, <2>2 DEF EditOk, Busy, Ready
  <2> QED  BY <2>3, <2>4 DEF c
<1> QED  BY <1>4, <1>5

-----------------------------------------------------------------------------
(* The settings as a part of the stores.                                     *)

SettingsPart == part = "settings" => SaveInv /\ FormInv

LEMMA SettingsPartBegins ==
  ASSUME PartsInit
  PROVE  SettingsPart
BY InitSaves, InitForms DEF PartsInit, SettingsPart

LEMMA SettingsPartKept ==
  ASSUME ~EditsWhileLoading, SettingsPart, [PartsNext]_<<part, vars, settingsVars>>
  PROVE  SettingsPart' /\ (part = "settings" => Sync!UneditedKeptStep /\ Sync!ChoiceFollowsStep)
<1>1. part' = part
  BY DEF PartsNext
<1>2. CASE part = "settings"
  <2>1. [Sync!Next]_(Sync!vars)
    BY <1>2 DEF PartsNext, settingsVars, Sync!vars
  <2>2. SaveInv /\ FormInv
    BY <1>2 DEF SettingsPart
  <2>3. SaveInv' /\ FormInv'
    BY <2>1, <2>2, NextSaves, NextForms
  <2>4. Sync!UneditedKeptStep /\ Sync!ChoiceFollowsStep
    BY <2>1, <2>2, UneditedStep, FollowsStep
  <2> QED  BY <2>3, <2>4 DEF SettingsPart
<1>3. CASE part # "settings"
  BY <1>1, <1>3 DEF SettingsPart
<1> QED  BY <1>2, <1>3

(* When nothing is under way, no panel leaves an edit in its form that       *)
(* nobody saves or says a word about, and none shows what is not stored      *)
(* (pumpSettingsUpdate, applySnapshot, setError). The assumption: nobody     *)
(* edits between a reload and its answer.                                    *)
THEOREM FormsAreKept ==
  ASSUME ~EditsWhileLoading
  PROVE  PartsSpec => []FormsHold
<1>1. PartsInit => SettingsPart
  BY SettingsPartBegins
<1>2. SettingsPart /\ [PartsNext]_<<part, vars, settingsVars>> => SettingsPart'
  BY SettingsPartKept
<1>3. SettingsPart => FormsHold
  BY TypesHold, NothingIsForgotten DEF SettingsPart, FormsHold, Sync!FormsHold
<1> QED  BY <1>1, <1>2, <1>3, PTL DEF PartsSpec

(* A save changes only what its user has edited, and the choice that waits   *)
(* for its configuration is sent when that has been stored                   *)
(* (mergeSettingsThreeWay, flushDependentSettingsAfterCommittedSnapshot).    *)
THEOREM SavesAreSound ==
  ASSUME ~EditsWhileLoading
  PROVE  PartsSpec => SavesHold
<1> DEFINE Step == part = "settings" => Sync!UneditedKeptStep /\ Sync!ChoiceFollowsStep
<1>1. PartsInit => SettingsPart
  BY SettingsPartBegins
<1>2. SettingsPart /\ [PartsNext]_<<part, vars, settingsVars>> => SettingsPart' /\ [Step]_settingsVars
  BY SettingsPartKept
<1> QED  BY <1>1, <1>2, PTL DEF PartsSpec, SavesHold
===============================================================================
