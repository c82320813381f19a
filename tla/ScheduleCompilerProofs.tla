------------------------ MODULE ScheduleCompilerProofs ------------------------
(* Theorems about ScheduleCompiler, for any systems and any declarations. *)
EXTENDS ScheduleCompiler, WellFoundedInduction, NaturalsInduction, TLAPS

WaveTypes ==
  /\ waves \in Nat
  /\ waveOf \in [System -> 0..waves]
  /\ declared \in SUBSET (System \X System)

CompilerInv == WaveTypes /\ EdgesRespected /\ WavesConflictFree /\ CycleNeedsBackEdge

\* The declarations never change, and with them edges and conflicts.
LEMMA DeclarationsConstant ==
  ASSUME UNCHANGED <<reads, modes, declared>>, NEW a, NEW b
  PROVE  /\ Edge(a, b)' = Edge(a, b)
         /\ Conflict(a, b)' = Conflict(a, b)
<1>1. Edge(a, b)' <=> Edge(a, b)
  BY DEF Edge, DataEdge
<1>2. Conflict(a, b)' <=> Conflict(a, b)
  BY DEF Conflict, WriteWriteConflict, WriteReadConflict
<1>3. Edge(a, b) \in BOOLEAN /\ Edge(a, b)' \in BOOLEAN
  BY DEF Edge, DataEdge
<1>4. Conflict(a, b) \in BOOLEAN /\ Conflict(a, b)' \in BOOLEAN
  BY DEF Conflict, WriteWriteConflict, WriteReadConflict
<1> QED
  BY <1>1, <1>2, <1>3, <1>4

\* A nonempty set of systems has one that is registered first.
LEMMA FirstRegistered ==
  ASSUME NEW T, T \subseteq System, T # {}
  PROVE  \E m \in T : \A s \in T : ~(s < m)
<1>1. T \subseteq Nat
  BY CompilerAssumption DEF System
<1>2. PICK m \in T : \A s \in T : <<s, m>> \notin OpToRel(<, Nat)
  BY <1>1, NatLessThanWellFounded, WFMin
<1> QED
  BY <1>1, <1>2 DEF OpToRel

LEMMA InitInv == Init => CompilerInv
  BY CompilerAssumption DEF Init, CompilerInv, WaveTypes, EdgesRespected, WavesConflictFree,
     CycleNeedsBackEdge, Placed

\* A wave joins systems whose producers are all in earlier waves and that do
\* not conflict with each other.
LEMMA BuildWaveStep == CompilerInv /\ BuildWave => CompilerInv'
<1> SUFFICES ASSUME CompilerInv, BuildWave PROVE CompilerInv'
  OBVIOUS
<1> USE DEF CompilerInv
<1>1. PICK wave \in SUBSET Ready :
        /\ Accepted(wave)
        /\ waveOf' = [s \in System |-> IF s \in wave THEN waves + 1 ELSE waveOf[s]]
  BY DEF BuildWave
<1>2. waves' = waves + 1 /\ UNCHANGED <<reads, modes, declared, cyclic>>
  BY DEF BuildWave
<1>3. \A s \in wave : s \in System /\ waveOf[s] = 0 /\ waveOf'[s] = waves + 1
  BY <1>1 DEF Ready, Remaining
<1>4. \A s \in System : s \notin wave => waveOf'[s] = waveOf[s] /\ waveOf[s] \in 0..waves
  BY <1>1 DEF WaveTypes
<1>5. WaveTypes'
  BY <1>1, <1>2 DEF WaveTypes
<1>6. EdgesRespected'
  <2> SUFFICES ASSUME NEW a \in System, NEW b \in System, Edge(a, b)', Placed(b)'
               PROVE  Placed(a)' /\ waveOf'[a] < waveOf'[b]
    BY DEF EdgesRespected
  <2>1. Edge(a, b)
    BY <1>2, DeclarationsConstant
  <2>2. CASE b \in wave
    <3>1. a \notin Remaining
      BY <1>1, <2>1, <2>2 DEF Ready
    <3>2. waveOf[a] # 0 /\ a \notin wave
      BY <3>1, <1>3 DEF Remaining
    <3> QED
      BY <3>2, <2>2, <1>3, <1>4 DEF Placed, WaveTypes
  <2>3. CASE b \notin wave
    <3>1. Placed(a) /\ waveOf[a] < waveOf[b]
      BY <2>1, <2>3, <1>4 DEF EdgesRespected, Placed
    <3> QED
      BY <3>1, <2>3, <1>3, <1>4 DEF Placed
  <2> QED
    BY <2>2, <2>3
<1>7. WavesConflictFree'
  <2> SUFFICES ASSUME NEW a \in System, NEW b \in System, a < b, Placed(a)',
                      waveOf'[a] = waveOf'[b], Conflict(a, b)'
               PROVE  FALSE
    BY DEF WavesConflictFree
  <2>1. Conflict(a, b)
    BY <1>2, DeclarationsConstant
  <2>2. CASE a \in wave /\ b \in wave
    BY <1>1, <2>1, <2>2 DEF Accepted
  <2>3. CASE a \notin wave /\ b \notin wave
    BY <2>1, <2>3, <1>4 DEF WavesConflictFree, Placed
  <2>4. CASE (a \in wave) # (b \in wave)
    BY <2>4, <1>3, <1>4 DEF WaveTypes
  <2> QED
    BY <2>2, <2>3, <2>4
<1>8. CycleNeedsBackEdge'
  BY <1>2 DEF CycleNeedsBackEdge
<1> QED
  BY <1>5, <1>6, <1>7, <1>8

\* If every declared edge follows the registration order, the first system
\* that has no wave is ready.
LEMMA DetectCycleStep == CompilerInv /\ DetectCycle => CompilerInv'
<1> SUFFICES ASSUME CompilerInv, DetectCycle PROVE CompilerInv'
  OBVIOUS
<1> USE DEF CompilerInv, DetectCycle
<1>1. WaveTypes'
  BY DEF WaveTypes
<1>2. EdgesRespected'
  BY DeclarationsConstant DEF EdgesRespected, Placed
<1>3. WavesConflictFree'
  BY DeclarationsConstant DEF WavesConflictFree, Placed
<1>4. \E e \in declared : e[1] > e[2]
  <2>1. PICK m \in Remaining : \A s \in Remaining : ~(s < m)
    BY FirstRegistered DEF Remaining
  <2>2. PICK p \in Remaining : Edge(p, m)
    BY <2>1 DEF Ready
  <2>3. p \in Nat /\ m \in Nat /\ ~(p < m)
    BY <2>1, CompilerAssumption DEF Remaining, System
  <2>4. <<p, m>> \in declared /\ p # m
    BY <2>2, <2>3 DEF Edge, DataEdge
  <2> QED
    BY <2>3, <2>4
<1>5. CycleNeedsBackEdge'
  BY <1>4 DEF CycleNeedsBackEdge
<1> QED
  BY <1>1, <1>2, <1>3, <1>5

LEMMA Inductive == Spec => []CompilerInv
<1>1. CompilerInv /\ UNCHANGED vars => CompilerInv'
  <2> SUFFICES ASSUME CompilerInv, UNCHANGED vars PROVE CompilerInv'
    OBVIOUS
  <2> USE DEF vars, CompilerInv
  <2>1. EdgesRespected' /\ WavesConflictFree'
    BY DeclarationsConstant DEF EdgesRespected, WavesConflictFree, Placed
  <2> QED
    BY <2>1 DEF WaveTypes, CycleNeedsBackEdge
<1>2. CompilerInv /\ [Next]_vars => CompilerInv'
  BY <1>1, BuildWaveStep, DetectCycleStep DEF Next
<1> QED
  BY InitInv, <1>2, PTL DEF Spec

\* compileSchedule: whatever the systems declare, a system's wave comes after
\* the waves of all the producers it works on.
THEOREM ProducersFirst == Spec => []EdgesRespected
  BY Inductive, PTL DEF CompilerInv

\* compileSchedule: whatever the systems declare, no two systems of one wave
\* conflict, so running them side by side is sound.
THEOREM ConflictFreeWaves == Spec => []WavesConflictFree
  BY Inductive, PTL DEF CompilerInv

\* compileSchedule: automatic edges alone never make a cycle, however the
\* systems read each other's output.
THEOREM FeedbackIsNoCycle == Spec => []CycleNeedsBackEdge
  BY Inductive, PTL DEF CompilerInv
=============================================================================
