-------------------------- MODULE BackgroundCommands --------------------------
(***************************************************************************)
(* Commands that are run for a tool and go on in the background             *)
(* (capabilities/commandRunner.ts).                                         *)
(*                                                                          *)
(* A command begins in the foreground; when its wait is over, or at once,   *)
(* it moves to the background and the call returns with a process id.  From *)
(* then on its window, the owner, keeps a handle in a registry and a record *)
(* on disk, which it renews as a heartbeat and with what the command prints.*)
(* Any window may read the output, which of a command that has ended        *)
(* consumes it, or kill the command.  A record that says `running` and      *)
(* whose owner is gone, or late with its heartbeat, is taken for ended.     *)
(*                                                                          *)
(* The index and the records change together, under a lock; the copies a    *)
(* window keeps of the records it has seen, which answer for a disk that    *)
(* cannot be read, are left out.                                            *)
(***************************************************************************)
EXTENDS Naturals, FiniteSets

CONSTANTS Windows, Procs, MaxOutput, MaxFaults, MaxReads, None

VARIABLES
  owner,       \* of each process, its window, or None before it starts
  phase,       \* of its call: "new", "foreground", "background", "completed"
  child,       \* the child process: "none", "runs", "failed" (its error was told),
               \* "closed", "lost" (nobody hears of it)
  printed,     \* how much it has printed
  handle,      \* [status, registered, suppress, dirty, timer], or None
  record,      \* its record on disk: [status, fresh, printed], or None
  told,        \* how often its end was told to the agent
  consumed,    \* how often its output was given out as that of an ended command
  seen,        \* how much the last such output held
  killed,      \* processes that somebody killed
  lapsed,      \* processes whose owner was late, or lost its handle unsaved
  faults, reads

vars == <<owner, phase, child, printed, handle, record, told, consumed, seen, killed, lapsed, faults, reads>>

Init ==
  /\ owner = [p \in Procs |-> None]
  /\ phase = [p \in Procs |-> "new"] /\ child = [p \in Procs |-> "none"]
  /\ printed = [p \in Procs |-> 0]
  /\ handle = [p \in Procs |-> None] /\ record = [p \in Procs |-> None]
  /\ told = [p \in Procs |-> 0] /\ consumed = [p \in Procs |-> 0] /\ seen = [p \in Procs |-> 0]
  /\ killed = {} /\ lapsed = {} /\ faults = 0 /\ reads = 0

Fault == faults < MaxFaults /\ faults' = faults + 1

Fresh == [status |-> "running", registered |-> TRUE, suppress |-> FALSE, dirty |-> FALSE,
          timer |-> FALSE]

----------------------------------------------------------------------------
\* Mutant: a command that was killed is saved like the others.
SilentNever(h) == FALSE

Silent(h) == h.suppress

(* persistHandle: the record becomes what the handle says, or the handle is *)
(* marked for another attempt when the disk refuses.                        *)
Persist(p, h, out) ==
  IF Silent(h)
    THEN handle' = [handle EXCEPT ![p] = [h EXCEPT !.timer = FALSE]] /\ UNCHANGED <<record, faults>>
    ELSE \/ /\ record' = [record EXCEPT ![p] = [status |-> h.status, fresh |-> TRUE, printed |-> out]]
            /\ handle' = [handle EXCEPT ![p] = [h EXCEPT !.timer = FALSE, !.dirty = FALSE]]
            /\ UNCHANGED faults
         \/ /\ Fault
            /\ handle' = [handle EXCEPT ![p] = [h EXCEPT !.timer = FALSE, !.dirty = TRUE]]
            /\ UNCHANGED record

\* runCommand: the command is spawned; its window waits in the foreground.
Start(w, p) ==
  /\ phase[p] = "new"
  /\ owner' = [owner EXCEPT ![p] = w]
  /\ phase' = [phase EXCEPT ![p] = "foreground"] /\ child' = [child EXCEPT ![p] = "runs"]
  /\ UNCHANGED <<printed, handle, record, told, consumed, seen, killed, lapsed, faults, reads>>

Unsettled(p) == phase[p] = "foreground"

\* Mutant: the first record is left to the timer, as are the ones after it.
FirstLater(p) ==
  handle' = [handle EXCEPT ![p] = [Fresh EXCEPT !.timer = TRUE]] /\ UNCHANGED <<record, faults>>

First(p) == Persist(p, Fresh, printed[p])

\* The wait is over, was none, or the user asks for it.
MoveToBackground(p) ==
  /\ Unsettled(p)
  /\ phase' = [phase EXCEPT ![p] = "background"]
  /\ First(p)
  /\ UNCHANGED <<owner, child, printed, told, consumed, seen, killed, lapsed, reads>>

\* The command prints; a handle is saved some time later, once for all that is printed until then.
Prints(p) ==
  /\ child[p] = "runs" /\ printed[p] < MaxOutput
  /\ printed' = [printed EXCEPT ![p] = @ + 1]
  /\ handle' = IF handle[p] = None \/ handle[p].suppress THEN handle
               ELSE [handle EXCEPT ![p].timer = TRUE]
  /\ UNCHANGED <<owner, phase, child, record, told, consumed, seen, killed, lapsed, faults, reads>>

PersistTimer(p) ==
  /\ handle[p] # None /\ handle[p].timer
  /\ Persist(p, handle[p], printed[p])
  /\ UNCHANGED <<owner, phase, child, printed, told, consumed, seen, killed, lapsed, reads>>

Heartbeat(p) ==
  /\ handle[p] # None /\ handle[p].status = "running"
  /\ record[p] # [status |-> "running", fresh |-> TRUE, printed |-> printed[p]]   \* or nothing changes
  /\ Persist(p, handle[p], printed[p])
  /\ UNCHANGED <<owner, phase, child, printed, told, consumed, seen, killed, lapsed, reads>>

----------------------------------------------------------------------------

\* notifyBackgroundExit: once, and not when the command was killed.
News(p, h) == told[p] = 0 /\ h.status # "killed"

Ends(p, h) == Persist(p, h, printed[p])

\* finalizeBackground, settleForeground: at an error of the child, and when it has closed.
Finalize(p) ==
  IF phase[p] = "background"
    THEN LET h == [handle[p] EXCEPT !.status = IF @ = "killed" THEN @ ELSE "exited"] IN
         /\ Ends(p, h)
         /\ told' = [told EXCEPT ![p] = IF News(p, h) THEN @ + 1 ELSE @]
         /\ UNCHANGED phase
    ELSE /\ phase' = [phase EXCEPT ![p] = "completed"]
         /\ UNCHANGED <<handle, record, told, faults>>

\* The child cannot be spawned or be sent to: an error, then it closes.
Fails(p) ==
  /\ child[p] = "runs" /\ phase[p] # "new" /\ printed[p] = 0
  /\ child' = [child EXCEPT ![p] = "failed"]
  /\ Finalize(p)
  /\ UNCHANGED <<owner, printed, consumed, seen, killed, lapsed, reads>>

Closes(p) ==
  /\ child[p] \in {"runs", "failed"} /\ (phase[p] = "background" => handle[p] # None)
  /\ child' = [child EXCEPT ![p] = "closed"]
  /\ Finalize(p)
  /\ UNCHANGED <<owner, printed, consumed, seen, killed, lapsed, reads>>

----------------------------------------------------------------------------
(* Reading and killing.                                                     *)
Registered(w, p) == owner[p] = w /\ handle[p] # None /\ handle[p].registered
Gives(p, out) ==
  /\ consumed' = [consumed EXCEPT ![p] = @ + 1] /\ seen' = [seen EXCEPT ![p] = out]

\* deletePersistedBackgroundRecord, of a record r: the disk may refuse.
Deleted(p, r) ==
  \/ record' = [record EXCEPT ![p] = None] /\ UNCHANGED faults
  \/ Fault /\ record' = [record EXCEPT ![p] = r]

\* What flushPersist has just made of the record.
Flushed(p) == IF handle[p].suppress THEN record[p]
              ELSE [status |-> handle[p].status, fresh |-> TRUE, printed |-> printed[p]]

May == reads < MaxReads /\ reads' = reads + 1

\* The owner reads from its handle; of a command that has ended, that is the last of it.
ReadOwn(w, p, consume) ==
  /\ Registered(w, p) /\ May
  /\ IF handle[p].status = "running" \/ ~consume
       THEN Persist(p, handle[p], printed[p]) /\ UNCHANGED <<consumed, seen>>
       ELSE /\ handle' = [handle EXCEPT ![p].registered = FALSE, ![p].timer = FALSE]
            /\ Deleted(p, Flushed(p)) /\ Gives(p, printed[p])
  /\ UNCHANGED <<owner, phase, child, printed, told, killed, lapsed>>

\* normalizePersistedBackgroundRecord: `running`, but of an owner that is gone or late.
Active(w, p) == owner[p] # w /\ handle[p] # None /\ record[p].fresh
Normal(w, p) == IF record[p].status = "running" /\ ~Active(w, p)
                  THEN [record[p] EXCEPT !.status = "exited"] ELSE record[p]

\* Everybody else reads the record.
ReadOther(w, p, consume) ==
  /\ ~Registered(w, p) /\ record[p] # None /\ May
  /\ IF Normal(w, p).status # "running" /\ consume
       THEN Deleted(p, Normal(w, p)) /\ Gives(p, record[p].printed)
       ELSE record' = [record EXCEPT ![p] = Normal(w, p)] /\ UNCHANGED <<consumed, seen, faults>>
  /\ UNCHANGED <<owner, phase, child, printed, handle, told, killed, lapsed>>

KillOwn(w, p) ==
  /\ Registered(w, p) /\ May
  /\ LET h == handle[p]
         ran == h.status = "running"
     IN  handle' = [handle EXCEPT ![p] = [h EXCEPT !.status = IF ran THEN "killed" ELSE @,
                                            !.suppress = @ \/ ran, !.timer = FALSE]]
  /\ Deleted(p, Flushed(p)) /\ killed' = killed \cup {p}
  /\ UNCHANGED <<owner, phase, child, printed, told, consumed, seen, lapsed>>

\* Of another window, only what has ended or was given up can be killed: the record goes.
KillOther(w, p) ==
  /\ ~Registered(w, p) /\ record[p] # None /\ May
  /\ IF Normal(w, p).status = "running" THEN UNCHANGED <<record, killed, faults>>
     ELSE Deleted(p, Normal(w, p)) /\ killed' = killed \cup {p}
  /\ UNCHANGED <<owner, phase, child, printed, handle, told, consumed, seen, lapsed>>

----------------------------------------------------------------------------
(* The owner.                                                               *)
\* It is late with its heartbeat, by more than others wait.
Late(p) ==
  /\ handle[p] # None /\ record[p] # None /\ record[p].fresh /\ handle[p].status = "running"
  /\ Fault
  /\ record' = [record EXCEPT ![p].fresh = FALSE]
  /\ lapsed' = lapsed \cup {p}
  /\ UNCHANGED <<owner, phase, child, printed, handle, told, consumed, seen, killed, reads>>

Owned(w) == {p \in Procs : owner[p] = w /\ phase[p] = "background" /\ handle[p] # None}

\* Its process ends, with its handles; a child may go on, and nobody hears of it.
Crash(w) ==
  /\ Fault /\ \E p \in Procs : owner[p] = w
  /\ handle' = [p \in Procs |-> IF p \in Owned(w) THEN None ELSE handle[p]]
  /\ lapsed' = lapsed \cup {p \in Owned(w) : handle[p].dirty}
  /\ phase' = [p \in Procs |-> IF owner[p] = w /\ phase[p] = "foreground" THEN "completed" ELSE phase[p]]
  /\ child' = [p \in Procs |-> IF owner[p] = w /\ child[p] # "closed" THEN "lost" ELSE child[p]]
  /\ UNCHANGED <<owner, printed, record, told, consumed, seen, killed, reads>>

\* It closes: what runs in the foreground moves to the background, every handle is ended, saved
\* and forgotten; that the child closes may still be heard.
Dispose(w) ==
  /\ Fault /\ \E p \in Procs : owner[p] = w
  /\ LET mine == {p \in Procs : owner[p] = w /\
                    (phase[p] = "foreground" \/ (handle[p] # None /\ handle[p].registered))}
         h == [p \in mine |-> LET now == IF handle[p] = None THEN Fresh ELSE handle[p]
                              IN  [now EXCEPT !.registered = FALSE, !.timer = FALSE,
                                     !.status = IF @ = "running" THEN "exited" ELSE @]]
     IN  /\ record' = [p \in Procs |->
              IF p \in mine /\ ~h[p].suppress
                THEN [status |-> h[p].status, fresh |-> TRUE, printed |-> printed[p]] ELSE record[p]]
         /\ handle' = [p \in Procs |-> IF p \in mine THEN h[p] ELSE handle[p]]
         /\ phase' = [p \in Procs |-> IF p \in mine THEN "background" ELSE phase[p]]
  /\ UNCHANGED <<owner, child, printed, told, consumed, seen, killed, lapsed, reads>>

Next ==
  \/ \E p \in Procs :
       \/ MoveToBackground(p) \/ Prints(p) \/ PersistTimer(p) \/ Heartbeat(p)
       \/ Fails(p) \/ Closes(p) \/ Late(p)
  \/ \E w \in Windows :
       \/ Crash(w) \/ Dispose(w)
       \/ \E p \in Procs :
            \/ Start(w, p) \/ KillOwn(w, p) \/ KillOther(w, p)
            \/ \E consume \in BOOLEAN : ReadOwn(w, p, consume) \/ ReadOther(w, p, consume)

Spec == Init /\ [][Next]_vars

----------------------------------------------------------------------------
(* A handle belongs to a command that went to the background, and says that *)
(* it runs only while it does.                                              *)
TypeOK ==
  /\ \A p \in Procs :
       /\ phase[p] \in {"new", "foreground", "background", "completed"}
       /\ handle[p] # None => phase[p] = "background" /\ owner[p] # None
       /\ handle[p] # None /\ handle[p].status = "running" => child[p] = "runs"
       /\ record[p] # None => phase[p] = "background"
       /\ seen[p] <= printed[p]

EndIsNewsStep ==
  \A p \in Procs : told'[p] # told[p] =>
     told[p] = 0 /\ (handle[p] # None => handle[p].status # "killed")

(* The end of a command is told to its agent at most once, and not when the *)
(* agent or the user killed it (notifyBackgroundExit).                      *)
EndIsNews == [][EndIsNewsStep]_vars

KilledStaysGoneStep ==
  \A p \in Procs : record[p] = None /\ handle[p] # None /\ handle[p].suppress
                      => record'[p] = None

(* The record of a command that was killed while it ran is not written      *)
(* again, whatever the child still prints and when it closes                *)
(* (suppressPersist).                                                       *)
KilledStaysGone == [][KilledStaysGoneStep]_vars

(* What a command printed can be read until it was read after its end or    *)
(* somebody killed it: in its window or on disk.  Commands whose owner was  *)
(* late, or crashed before a refused save was tried again, are excepted     *)
(* (tool description, commandRunner.ts:271).                                *)
Retained ==
  \A p \in Procs \ (killed \cup lapsed) :
    phase[p] = "background" /\ consumed[p] = 0 =>
      (handle[p] # None /\ handle[p].registered) \/ record[p] # None

GivenWholeStep ==
  \A p \in Procs \ (killed \cup lapsed) :
     consumed'[p] > consumed[p] /\ child[p] = "closed"
       /\ (handle[p] = None \/ ~handle[p].dirty) => seen'[p] = printed[p]

(* Output given out as that of a command that has ended is all it printed,  *)
(* if its owner heard that it closed (finalizeBackground, flushPersist).    *)
GivenWhole == [][GivenWholeStep]_vars

ReportsHoldStep == EndIsNewsStep /\ KilledStaysGoneStep /\ GivenWholeStep

(* What is told and given out of a command, whoever kills or outlives it.   *)
ReportsHold == [][ReportsHoldStep]_vars

(* The output of a command outlasts its window, its host and its end.       *)
OutputHolds == TypeOK /\ Retained

(* Output of a command that has ended is given out once ("logs are still    *)
(* retained until mode=output consumes them once").                         *)
\* TLC refutes it: section 6 of the README says how.
GivenOnce == \A p \in Procs : consumed[p] <= 1
=============================================================================
