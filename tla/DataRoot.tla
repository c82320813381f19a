------------------------------- MODULE DataRoot -------------------------------
(***************************************************************************)
(* Where the windows of one machine keep their data, and how one of them    *)
(* moves it (vscodeStorage/index.ts, globalStatus.ts, migration.ts,         *)
(* dataRootProcessLease.ts).                                                *)
(*                                                                          *)
(* The directory in use is named by a file all windows share, of which each *)
(* keeps a copy in memory.  A window admits itself under a fence the        *)
(* windows share, and from then on renews a lease, a file that names the    *)
(* directory it uses.  Its reads and writes pass a gate of its own as       *)
(* shared calls; a move passes it as an exclusive call, takes the fence,    *)
(* looks for leases of others, copies, renames the directory in use, and    *)
(* deletes what it copied.                                                  *)
(*                                                                          *)
(* The lock behind the fence is the subject of StorageResourceLock: here it *)
(* is never taken from a process that lives.                                *)
(***************************************************************************)
EXTENDS Naturals, Sequences, FiniteSets

CONSTANTS Windows, Calls,   \* the windows, and the calls each makes at a time
          Roots, First,     \* the directories, and the one in use at first
          Dirs,             \* the registered directories of a root, 1..n in order
          MaxWrites, MaxMoves, MaxLoads, MaxFaults,   \* bounds; a fault is a crash, an
                            \* expired lease or an operation of the disk that fails
          None

ASSUME CallsAssumption == IsFiniteSet(Calls)
ASSUME DirsAssumption  == Dirs \subseteq Nat
ASSUME RootsAssumption == First \in Roots /\ None \notin Roots
ASSUME NoneAssumption  ==
  None \notin Windows \cup [root : Roots, rev : Nat] \cup [root : Roots, fresh : BOOLEAN]

VARIABLES
  canonical,   \* the status file: the root in use, and its revision
  memory,      \* of each window, the copy it remembers, or None
  loading,     \* of each window, a status it has read and not yet remembered
  admitted,    \* of each window: "no", "asking", "leasing", "yes"
  leases,      \* of each window, its lease on disk: [root, fresh], or None
  beat,        \* of each window, the root that the lease being written names
  gate,        \* of each window: [shared, exclusive, queue]
  calls,       \* of each window and call, how far it is
  fence,       \* the window that holds the fence, or None
  disk,        \* of each root and directory, the writes it holds
  saved,       \* the writes that were reported as done
  astray,      \* windows that lost their lease, or whose move failed half way
  done         \* how many writes, moves, loads and faults there were

vars == <<canonical, memory, loading, admitted, leases, beat, gate, calls, fence,
          disk, saved, astray, done>>

Idle == [pc |-> "idle", to |-> None, seen |-> 0, at |-> None, copied |-> {}]
Open == [shared |-> 0, exclusive |-> FALSE, queue |-> <<>>]
Count(k) == done' = [done EXCEPT ![k] = @ + 1]
May(k, n) == done[k] < n

Moves(call) == call.to # None
HasData(root) == \E d \in Dirs : disk[root][d] # {}

Init ==
  /\ canonical = [root |-> First, rev |-> 0]
  /\ memory = [w \in Windows |-> None] /\ loading = [w \in Windows |-> None]
  /\ admitted = [w \in Windows |-> "no"]
  /\ leases = [w \in Windows |-> None] /\ beat = [w \in Windows |-> None]
  /\ gate = [w \in Windows |-> Open]
  /\ calls = [w \in Windows |-> [c \in Calls |-> Idle]]
  /\ fence = None
  /\ disk = [r \in Roots |-> [d \in Dirs |-> {}]]
  /\ saved = {} /\ astray = {}
  /\ done = [k \in {"write", "move", "load", "fault"} |-> 0]

----------------------------------------------------------------------------
(* The gate of a window: shared calls together, an exclusive one alone, and *)
(* nobody past an exclusive call that waits.                                *)
Queued(g, of) == \E i \in DOMAIN g.queue : Moves(of[g.queue[i]])

Passes(g, of, c) ==
  IF Moves(of[c]) THEN ~g.exclusive /\ g.shared = 0 /\ g.queue = <<>>
                  ELSE ~g.exclusive /\ ~Queued(g, of)

Held(g, of, c) == IF Moves(of[c]) THEN [g EXCEPT !.exclusive = TRUE]
                                  ELSE [g EXCEPT !.shared = @ + 1]

\* The calls at the head of the queue that may start, the first of them alone if exclusive.
Startable(g, of) ==
  IF g.exclusive \/ g.shared > 0 \/ g.queue = <<>> THEN 0
  ELSE IF Moves(of[Head(g.queue)]) THEN 1
  ELSE CHOOSE n \in 1..Len(g.queue) :
         /\ \A i \in 1..n : ~Moves(of[g.queue[i]])
         /\ n = Len(g.queue) \/ Moves(of[g.queue[n + 1]])

Released(g, of, c) ==
  LET free == IF Moves(of[c]) THEN [g EXCEPT !.exclusive = FALSE]
                              ELSE [g EXCEPT !.shared = @ - 1]
      n == Startable(free, of)
  IN  [ shared |-> free.shared + (IF n > 0 /\ ~Moves(of[free.queue[1]]) THEN n ELSE 0),
        exclusive |-> free.exclusive \/ (n > 0 /\ Moves(of[free.queue[1]])),
        queue |-> SubSeq(free.queue, n + 1, Len(free.queue)),
        started |-> {free.queue[i] : i \in 1..n} ]

----------------------------------------------------------------------------
(* The lease.  A heartbeat that finds a write under way waits for that one. *)
BeatPoints == {"admission", "beat", "opbeat", "movedbeat", "endbeat", "clearbeat"}
Waits(of) == \E c \in Calls : of[c].pc \in BeatPoints \ {"admission"}

\* A call that has passed the gate waits for the admission, then for a heartbeat.
Entered(w, call) == [call EXCEPT !.pc = IF admitted[w] = "yes" THEN "beat" ELSE "admission"]

\* The calls of w become `of`; if one of them wants a heartbeat and none is written, one begins.
Proceed(w, of, root) ==
  /\ calls' = [calls EXCEPT ![w] = of]
  /\ beat' = [beat EXCEPT ![w] = IF @ = None /\ Waits(of) THEN root ELSE @]

\* What a call does when the heartbeat it waits for has been written.
Beaten(call, root) ==
  CASE call.pc = "admission" -> [call EXCEPT !.pc = "beat"]
    [] call.pc = "beat" -> [call EXCEPT !.pc = IF Moves(call) THEN "opbeat" ELSE "act",
                                        !.at = IF Moves(call) THEN None ELSE root]
    [] call.pc = "opbeat" -> [call EXCEPT !.pc = "fence"]
    [] call.pc = "movedbeat" -> [call EXCEPT !.pc = "clean"]
    [] call.pc = "endbeat" -> [call EXCEPT !.pc = "unfence"]
    [] call.pc = "clearbeat" -> [call EXCEPT !.pc = "leave"]
    [] OTHER -> call

\* What it does when the heartbeat fails: give up, through the finally of a move.
Broken(call) ==
  CASE call.pc \in {"admission", "beat", "opbeat", "clearbeat"} -> [call EXCEPT !.pc = "leave"]
    [] call.pc \in {"movedbeat", "endbeat"} -> [call EXCEPT !.pc = "unfence"]
    [] OTHER -> call

\* The lease has been written, with the root it was begun with.
BeatLands(w) ==
  /\ beat[w] # None
  /\ leases' = [leases EXCEPT ![w] = [root |-> beat[w], fresh |-> TRUE]]
  /\ LET of == [c \in Calls |-> Beaten(calls[w][c], memory[w].root)] IN
     /\ calls' = [calls EXCEPT ![w] = of]
     /\ beat' = [beat EXCEPT ![w] = IF Waits(of) THEN memory[w].root ELSE None]
  /\ IF admitted[w] = "leasing"
       THEN admitted' = [admitted EXCEPT ![w] = "yes"] /\ fence' = None
       ELSE UNCHANGED <<admitted, fence>>
  /\ UNCHANGED <<canonical, memory, loading, gate, disk, saved, astray, done>>

\* The lease could not be written.
BeatFails(w) ==
  /\ beat[w] # None /\ May("fault", MaxFaults)
  /\ Count("fault")
  /\ LET of == [c \in Calls |-> Broken(calls[w][c])] IN
     /\ calls' = [calls EXCEPT ![w] = of]
     /\ beat' = [beat EXCEPT ![w] = None]
     /\ astray' = IF \E c \in Calls : calls[w][c].pc \in {"movedbeat", "endbeat"}
                    THEN astray \cup {w} ELSE astray
  /\ IF admitted[w] = "leasing"
       THEN admitted' = [admitted EXCEPT ![w] = "no"] /\ fence' = None
       ELSE UNCHANGED <<admitted, fence>>
  /\ UNCHANGED <<canonical, memory, loading, leases, gate, disk, saved>>

\* The timer of the lease.  Only what may matter: a beat that would write the lease as it is,
\* with no move under way, is left out.
TimerBeats(w) ==
  /\ admitted[w] = "yes" /\ beat[w] = None
  /\ fence # None \/ leases[w] # [root |-> memory[w].root, fresh |-> TRUE]
  /\ beat' = [beat EXCEPT ![w] = memory[w].root]
  /\ UNCHANGED <<canonical, memory, loading, admitted, leases, gate, calls, fence, disk, saved,
                 astray, done>>

----------------------------------------------------------------------------
(* Admission: under the fence, read the status, publish the first lease.    *)
Free == fence = None

Admit(w) ==
  /\ admitted[w] = "asking" /\ Free
  /\ fence' = w
  /\ memory' = [memory EXCEPT ![w] = canonical]
  /\ admitted' = [admitted EXCEPT ![w] = "leasing"]
  /\ beat' = [beat EXCEPT ![w] = canonical.root]
  /\ UNCHANGED <<canonical, loading, leases, gate, calls, disk, saved, astray, done>>

(* Calls.                                                                   *)
Starts(w, c, call) ==
  /\ calls[w][c].pc = "idle"
  /\ LET of == [calls[w] EXCEPT ![c] = call]
         in == Entered(w, call)
     IN  IF Passes(gate[w], of, c)
           THEN /\ gate' = [gate EXCEPT ![w] = Held(@, of, c)]
                /\ Proceed(w, [of EXCEPT ![c] = in], IF memory[w] = None THEN None ELSE memory[w].root)
                /\ admitted' = [admitted EXCEPT ![w] = IF @ = "no" THEN "asking" ELSE @]
           ELSE /\ gate' = [gate EXCEPT ![w].queue = Append(@, c)]
                /\ calls' = [calls EXCEPT ![w] = of]
                /\ UNCHANGED <<beat, admitted>>
  /\ UNCHANGED <<canonical, memory, loading, leases, fence, disk, saved, astray>>

\* A read or write of the data.
Begin(w, c) ==
  /\ May("write", MaxWrites) /\ Count("write")
  /\ Starts(w, c, [Idle EXCEPT !.pc = "queued", !.seen = done["write"]])

\* The settings form is saved: another directory, or the same one with another proxy.
BeginMove(w, c, root) ==
  /\ May("move", MaxMoves) /\ Count("move")
  /\ Starts(w, c, [Idle EXCEPT !.pc = "queued", !.to = root, !.seen = canonical.rev])

\* The call is over: the gate opens for those that wait.
Leaves(w, c, of) ==
  LET left == Released(gate[w], of, c)
      next == [d \in Calls |-> IF d = c THEN Idle
                               ELSE IF d \in left.started THEN Entered(w, of[d]) ELSE of[d]]
  IN  /\ gate' = [gate EXCEPT ![w] = [shared |-> left.shared, exclusive |-> left.exclusive,
                                      queue |-> left.queue]]
      /\ Proceed(w, next, IF memory[w] = None THEN None ELSE memory[w].root)
      /\ admitted' = [admitted EXCEPT ![w] =
                        IF @ = "no" /\ left.started # {} THEN "asking" ELSE @]

Leave(w, c) ==
  /\ calls[w][c].pc = "leave"
  /\ Leaves(w, c, calls[w])
  /\ UNCHANGED <<canonical, memory, loading, leases, fence, disk, saved, astray, done>>

\* The write itself, to the root the call was given when it passed.
Write(w, c, d) ==
  /\ calls[w][c].pc = "act"
  /\ LET n == calls[w][c].seen IN
     /\ disk' = [disk EXCEPT ![calls[w][c].at][d] = @ \cup {n}]
     /\ saved' = IF w \in astray THEN saved ELSE saved \cup {n}
  /\ Leaves(w, c, calls[w])
  /\ UNCHANGED <<canonical, memory, loading, leases, fence, astray, done>>

----------------------------------------------------------------------------
(* A move, under the fence.                                                 *)
Goes(w, c, pc) == calls' = [calls EXCEPT ![w][c].pc = pc]

\* It reads the status; a form filled in from another revision is refused.
Check(w, c) ==
  /\ calls[w][c].pc = "fence" /\ Free
  /\ fence' = w
  /\ memory' = [memory EXCEPT ![w] = canonical]
  /\ calls' = [calls EXCEPT ![w][c] =
                 [@ EXCEPT !.at = canonical.root,
                           !.pc = IF canonical.rev # calls[w][c].seen THEN "unfence"
                                  ELSE IF canonical.root = calls[w][c].to THEN "commit" ELSE "source"]]
  /\ UNCHANGED <<canonical, loading, admitted, leases, beat, gate, disk, saved, astray, done>>

\* Leases of others that name the root: the live ones stop the move, the others are deleted.
Uses(w, root) == {v \in Windows \ {w} : leases[v] # None /\ leases[v].root = root}
\* Mutant: only a window that is still admitting itself counts.
BlockersOfNone(w, root) == {v \in Uses(w, root) : leases[v].fresh /\ admitted[v] # "yes"}

Blockers(w, root) == {v \in Uses(w, root) : leases[v].fresh}

LeaseCheck(w, c, root, next) ==
  /\ leases' = [v \in Windows |-> IF v \in Uses(w, root) \ Blockers(w, root) THEN None ELSE leases[v]]
  /\ Goes(w, c, IF Blockers(w, root) # {} THEN "unfence" ELSE next)
  /\ UNCHANGED <<canonical, memory, loading, admitted, beat, gate, fence, disk, saved, astray, done>>

CheckSource(w, c) == calls[w][c].pc = "source" /\ LeaseCheck(w, c, calls[w][c].at, "target")
CheckTarget(w, c) == calls[w][c].pc = "target" /\ LeaseCheck(w, c, calls[w][c].to, "empty")

\* A directory that holds registered data is never written over.
CheckEmpty(w, c) ==
  /\ calls[w][c].pc = "empty"
  /\ Goes(w, c, IF HasData(calls[w][c].to) THEN "unfence" ELSE "copy")
  /\ UNCHANGED <<canonical, memory, loading, admitted, leases, beat, gate, fence, disk, saved, astray, done>>

\* The registered directories are copied one after the other, those without data not at all.
ToCopy(call) == {d \in Dirs : d \notin call.copied /\ disk[call.at][d] # {} /\ \A e \in call.copied : e < d}

CopyDir(w, c, d) ==
  /\ calls[w][c].pc = "copy" /\ d \in ToCopy(calls[w][c])
  /\ \A e \in ToCopy(calls[w][c]) : d <= e
  /\ LET call == calls[w][c] IN
     IF disk[call.to][d] # {}
       THEN Goes(w, c, "unfence") /\ UNCHANGED disk
       ELSE /\ disk' = [disk EXCEPT ![call.to][d] = disk[call.at][d]]
            /\ calls' = [calls EXCEPT ![w][c].copied = @ \cup {d}]
  /\ UNCHANGED <<canonical, memory, loading, admitted, leases, beat, gate, fence, saved, astray, done>>

\* A directory cannot be read or written, and the move stops.
CopyFails(w, c) ==
  /\ calls[w][c].pc = "copy" /\ May("fault", MaxFaults) /\ Count("fault")
  /\ Goes(w, c, "unfence")
  /\ UNCHANGED <<canonical, memory, loading, admitted, leases, beat, gate, fence, disk, saved, astray>>

Copied(w, c) ==
  /\ calls[w][c].pc = "copy" /\ ToCopy(calls[w][c]) = {}
  /\ Goes(w, c, "commit")
  /\ UNCHANGED <<canonical, memory, loading, admitted, leases, beat, gate, fence, disk, saved, astray, done>>

\* The status file names the new root: from here on the move is made.
Commit(w, c) ==
  /\ calls[w][c].pc = "commit"
  /\ canonical' = [root |-> calls[w][c].to, rev |-> canonical.rev + 1]
  /\ memory' = [memory EXCEPT ![w] = canonical']
  /\ Proceed(w, [calls[w] EXCEPT ![c].pc = "movedbeat"], calls[w][c].to)
  /\ UNCHANGED <<loading, admitted, leases, gate, fence, disk, saved, astray, done>>

\* What was copied is deleted from the old root; what cannot be deleted stays.
CleanDir(w, c, d) ==
  /\ calls[w][c].pc = "clean" /\ d \in calls[w][c].copied
  /\ \A e \in calls[w][c].copied : d <= e
  /\ disk' = [disk EXCEPT ![calls[w][c].at][d] = {}]
  /\ calls' = [calls EXCEPT ![w][c].copied = @ \ {d}]
  /\ UNCHANGED <<canonical, memory, loading, admitted, leases, beat, gate, fence, saved, astray, done>>

\* Mutant: the move ends without it.
LastNone(w, c) == Goes(w, c, "unfence") /\ UNCHANGED beat

\* The heartbeat that ends the move, after the one it may have found under way.
Last(w, c) == Proceed(w, [calls[w] EXCEPT ![c].pc = "endbeat"], memory[w].root)

Cleaned(w, c) ==
  /\ calls[w][c].pc = "clean"
  /\ calls[w][c].copied # {} => May("fault", MaxFaults)
  /\ IF calls[w][c].copied # {} THEN Count("fault") ELSE UNCHANGED done
  /\ Last(w, c)
  /\ UNCHANGED <<canonical, memory, loading, admitted, leases, gate, fence, disk, saved, astray>>

Unfence(w, c) ==
  /\ calls[w][c].pc = "unfence"
  /\ fence' = None
  /\ Proceed(w, [calls[w] EXCEPT ![c].pc = "clearbeat"], memory[w].root)
  /\ UNCHANGED <<canonical, memory, loading, admitted, leases, gate, disk, saved, astray, done>>

----------------------------------------------------------------------------
(* The settings form and the watcher read the status outside the gate; with *)
(* no move under way, only what changes the memory matters.                 *)
LoadBegins(w) ==
  /\ loading[w] = None /\ loading' = [loading EXCEPT ![w] = canonical]
  /\ admitted[w] = "yes" /\ (fence # None \/ memory[w] # canonical)
  /\ May("load", MaxLoads) /\ Count("load")
  /\ UNCHANGED <<canonical, memory, admitted, leases, beat, gate, calls, fence, disk, saved, astray>>

LoadEnds(w) ==
  /\ loading[w] # None
  /\ memory' = [memory EXCEPT ![w] = loading[w]]
  /\ loading' = [loading EXCEPT ![w] = None]
  /\ astray' = IF loading[w] # canonical THEN astray \cup {w} ELSE astray
  /\ UNCHANGED <<canonical, admitted, leases, beat, gate, calls, fence, disk, saved, done>>

\* A window is suspended, or cannot write its lease, until the others take it for dead.
Expires(w) ==
  /\ May("fault", MaxFaults) /\ leases[w] # None /\ leases[w].fresh
  /\ Count("fault")
  /\ leases' = [leases EXCEPT ![w].fresh = FALSE]
  /\ astray' = astray \cup {w}
  /\ UNCHANGED <<canonical, memory, loading, admitted, beat, gate, calls, fence, disk, saved>>

\* The process of a window ends, and with it what its lease is worth; it starts again.
Crash(w) ==
  /\ May("fault", MaxFaults) /\ admitted[w] # "no" /\ Count("fault")
  /\ memory' = [memory EXCEPT ![w] = None] /\ loading' = [loading EXCEPT ![w] = None]
  /\ admitted' = [admitted EXCEPT ![w] = "no"]
  /\ leases' = [leases EXCEPT ![w] = None] /\ beat' = [beat EXCEPT ![w] = None]
  /\ gate' = [gate EXCEPT ![w] = Open]
  /\ calls' = [calls EXCEPT ![w] = [c \in Calls |-> Idle]]
  /\ fence' = IF fence = w THEN None ELSE fence
  /\ astray' = astray \ {w}
  /\ UNCHANGED <<canonical, disk, saved>>

Next ==
  \E w \in Windows :
    \/ Admit(w) \/ BeatLands(w) \/ BeatFails(w) \/ TimerBeats(w)
    \/ LoadBegins(w) \/ LoadEnds(w) \/ Expires(w) \/ Crash(w)
    \/ \E c \in Calls :
         \/ Begin(w, c) \/ (\E root \in Roots : BeginMove(w, c, root))
         \/ (\E d \in Dirs : Write(w, c, d) \/ CopyDir(w, c, d) \/ CleanDir(w, c, d))
         \/ Check(w, c) \/ CheckSource(w, c) \/ CheckTarget(w, c) \/ CheckEmpty(w, c)
         \/ CopyFails(w, c) \/ Copied(w, c) \/ Commit(w, c) \/ Cleaned(w, c)
         \/ Unfence(w, c) \/ Leave(w, c)

Spec == Init /\ [][Next]_vars

----------------------------------------------------------------------------
(* What a write reported as done goes to is never lost by a move: it is in  *)
(* the root the status names.  Windows that had lost their lease, remember  *)
(* an outdated status or could not renew the lease after their own move are *)
(* excepted (dataRootProcessLease.ts:168, index.ts:339).                    *)
WritesKept == saved \subseteq UNION {disk[canonical.root][d] : d \in Dirs}

(* All admitted windows use the root the status names and say so on disk,   *)
(* whenever they are not moving it themselves: a move sees all who would    *)
(* lose by it (withDataRootAdmissionFence, the last heartbeat of a move).   *)
AdmittedAgree ==
  \A w \in Windows \ astray :
    admitted[w] = "yes" /\ fence # w =>
      /\ memory[w].root = canonical.root
      /\ leases[w] = [root |-> canonical.root, fresh |-> TRUE]
      /\ beat[w] \in {None, canonical.root}

(* The gate of a window (DataRootMutationGate): calls past it are counted,  *)
(* an exclusive one is past it alone, and nobody waits at an open gate.     *)
Past(w) == {c \in Calls : calls[w][c].pc \notin {"idle", "queued"}}
GateHolds ==
  \A w \in Windows :
    LET shared == {c \in Past(w) : ~Moves(calls[w][c])} IN
    /\ gate[w].shared = Cardinality(shared)
    /\ gate[w].exclusive <=> Past(w) # shared
    /\ gate[w].exclusive => Cardinality(Past(w)) = 1
    /\ gate[w].queue # <<>> => Past(w) # {}

(* What a window remembers of the status never goes back to what it was     *)
(* before a move of its own (rememberCommittedStatus).                      *)
\* TLC refutes it: section 6 of the README says how.
RemembersLatest ==
  [][\A w \in Windows : memory[w] # None /\ memory'[w] # None
                          => memory'[w].rev >= memory[w].rev]_vars

TypeOK ==
  /\ canonical.root \in Roots /\ canonical.rev \in Nat
  /\ \A w \in Windows :
       /\ memory[w] = None \/ memory[w].root \in Roots
       /\ admitted[w] \in {"no", "asking", "leasing", "yes"}
       /\ beat[w] \in Roots \cup {None}
       /\ leases[w] = None \/ leases[w] \in [root : Roots, fresh : BOOLEAN]
       /\ Cardinality({c \in Calls : calls[w][c].pc \in {"unfence", "source", "copy", "clean"}}) <= 1
  /\ fence \in Windows \cup {None}
  /\ \A w \in Windows : (\E c \in Calls : calls[w][c].pc \in
       {"source", "target", "empty", "copy", "commit", "movedbeat", "clean", "endbeat", "unfence"})
         => fence = w

\* Every window works in the root the status names, and only past its gate.
AdmissionHolds == TypeOK /\ AdmittedAgree /\ GateHolds
=============================================================================
