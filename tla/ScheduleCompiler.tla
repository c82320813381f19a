--------------------------- MODULE ScheduleCompiler ---------------------------
(***************************************************************************)
(* How the ECS scheduler turns the access declarations of the registered   *)
(* systems into waves: systems of one wave run side by side on one         *)
(* snapshot of the world, the next wave sees what they wrote.              *)
(*                                                                         *)
(* A system is its registration number.  The declarations are chosen once, *)
(* in Init; a step builds one wave.                                        *)
(***************************************************************************)
EXTENDS Naturals

CONSTANTS
  N,          \* number of registered systems
  Token,      \* components, resources and events that can be accessed
  ReadRole,   \* read declarations explored: "none", "lookup", "work"
  ModeSet,    \* sets of mutation modes explored, {} for no write
  Explicit    \* sets of before/after edges explored, as pairs of systems

System == 1..N

ASSUME CompilerAssumption ==
  /\ N \in Nat
  /\ ReadRole \subseteq {"none", "lookup", "work"}
  /\ ModeSet \subseteq SUBSET {"update", "create", "append"}
  /\ Explicit \subseteq SUBSET (System \X System)

VARIABLES
  reads,     \* reads[s][t]: how system s reads token t
  modes,     \* modes[s][t]: the mutation modes with which s writes t
  declared,  \* the edges declared with before and after
  waveOf,    \* the wave of each system, 0 while it has none
  waves,     \* number of waves built
  cyclic     \* "system dependency cycle detected" was thrown

vars == <<reads, modes, declared, waveOf, waves, cyclic>>

\* No wave is empty: N systems need at most N waves.
TypeOK ==
  /\ reads \in [System -> [Token -> ReadRole]]
  /\ modes \in [System -> [Token -> ModeSet]]
  /\ declared \in SUBSET (System \X System)
  /\ waves \in 0..N
  /\ waveOf \in [System -> 0..waves]
  /\ cyclic \in BOOLEAN

Init ==
  /\ reads \in [System -> [Token -> ReadRole]]
  /\ modes \in [System -> [Token -> ModeSet]]
  /\ declared \in Explicit
  /\ waveOf = [s \in System |-> 0]
  /\ waves = 0
  /\ cyclic = FALSE

-----------------------------------------------------------------------------
(* Access declarations *)

\* Mutant: write->read edges in both registration directions.
FeedbackEdge(a, b) ==
  a # b /\ \E t \in Token : modes[a][t] # {} /\ reads[b][t] = "work"

\* A producer registered first runs before every later system that works on
\* what it writes; a lookup or a guard makes no edge.
DataEdge(a, b) ==
  a < b /\ \E t \in Token : modes[a][t] # {} /\ reads[b][t] = "work"

Edge(a, b) == DataEdge(a, b) \/ (a # b /\ <<a, b>> \in declared)

ModeConflict(m, n) ==
  /\ m # "create" /\ n # "create"
  /\ ~(m = "append" /\ n = "append")

WriteWriteConflict(a, b) ==
  \E t \in Token : \E m \in modes[a][t], n \in modes[b][t] : ModeConflict(m, n)

\* New entities and appended values are invisible to a lookup in the same wave.
WriteReadConflict(a, b) ==
  \E t \in Token : reads[b][t] # "none" /\ ~(modes[a][t] \subseteq {"create", "append"})

Conflict(a, b) ==
  WriteWriteConflict(a, b) \/ WriteReadConflict(a, b) \/ WriteReadConflict(b, a)

-----------------------------------------------------------------------------
(* buildWaves *)

Remaining == {s \in System : waveOf[s] = 0}

\* Mutant: before and after are dropped.
ReadyByDataOnly == {s \in Remaining : \A p \in Remaining : ~DataEdge(p, s)}

Ready == {s \in Remaining : \A p \in Remaining : ~Edge(p, s)}

\* Mutant: a candidate is compared with the first accepted system only.
AcceptedAgainstFirst(wave) ==
  \A c \in Ready : c \in wave <=>
    \A a \in wave : a < c /\ (\A b \in wave : a <= b) => ~Conflict(a, c)

\* Candidates in registration order; one that conflicts with an accepted system
\* waits for a later wave.
Accepted(wave) ==
  \A c \in Ready : c \in wave <=> \A a \in wave : a < c => ~Conflict(a, c)

BuildWave ==
  /\ ~cyclic
  /\ Ready # {}
  /\ waves' = waves + 1
  /\ \E wave \in SUBSET Ready :
       /\ Accepted(wave)
       /\ waveOf' = [s \in System |-> IF s \in wave THEN waves + 1 ELSE waveOf[s]]
  /\ UNCHANGED <<reads, modes, declared, cyclic>>

DetectCycle ==
  /\ ~cyclic
  /\ Remaining # {}
  /\ Ready = {}
  /\ cyclic' = TRUE
  /\ UNCHANGED <<reads, modes, declared, waveOf, waves>>

Next == BuildWave \/ DetectCycle

Spec == Init /\ [][Next]_vars /\ WF_vars(Next)

-----------------------------------------------------------------------------
(* Properties *)

Placed(s) == waveOf[s] # 0

\* What a system works on has been written by every earlier producer in an
\* earlier wave, and before/after are obeyed: nobody reads its input from the
\* snapshot its producer is still writing to.
EdgesRespected ==
  \A a, b \in System :
    Edge(a, b) /\ Placed(b) => Placed(a) /\ waveOf[a] < waveOf[b]

\* Systems that run side by side neither write the same data nor read what
\* another one updates, so the order of their commits does not matter.
WavesConflictFree ==
  \A a, b \in System :
    a < b /\ Placed(a) /\ waveOf[a] = waveOf[b] => ~Conflict(a, b)

\* Feedback between systems is never mistaken for a cycle: compilation fails
\* only if some before/after declaration goes against the registration order.
CycleNeedsBackEdge ==
  cyclic => \E e \in declared : e[1] > e[2]

\* Compilation ends with every system in a wave or with the cycle error.
Compiles == <>(cyclic \/ \A s \in System : Placed(s))
=============================================================================
