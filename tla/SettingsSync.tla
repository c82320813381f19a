---------------------------- MODULE SettingsSync ----------------------------
(***************************************************************************)
(* useGlobalSettingsStore.ts, GlobalSettingsBridge.ts and the stores of the *)
(* settings: how the panels of one host keep their forms and the stored     *)
(* settings together. A panel has one save of a section on the way; a save  *)
(* carries the revision it was made from and is refused when another is     *)
(* stored; whatever is committed goes to all panels, which merge it into    *)
(* their forms record by record.                                            *)
(*                                                                          *)
(* Two sections stand for the ten: "configs", a table of provider           *)
(* configurations, and "llm", which names the active one and is saved after *)
(* the configuration it names. A section is a function from keys to         *)
(* values; 0 is a missing record. A revision is a digest of the stored      *)
(* section, so the stored section stands for it; what is shown of "llm" may *)
(* differ from what is stored. Validation and normalisation of values are   *)
(* left out.                                                                *)
(*                                                                          *)
(* Bound: MaxEdits edits and reloads of users and edits of other windows.   *)
(***************************************************************************)
EXTENDS Naturals, Sequences, FiniteSets

CONSTANTS Panels, ConfigIds, MaxEdits,
          EditsWhileLoading   \* whether users edit before the settings are there

VARIABLES disk,     \* the stored sections
          panel,    \* the store of each panel, section by section
          follow,   \* pendingActiveProviderConfigIdAfterConfigsSave
          jobs,     \* requests the host is working on
          inbox,    \* messages on their way to a panel
          changed,  \* dirtySections of the watcher
          touched,  \* history: what the user of a panel has edited
          gaveUp,   \* history: sections a panel gave up, took outdated or had rejected, and
                    \* choices whose configuration came by somebody else's save
          known,    \* history: configurations that have been stored
          edits, reloads

vars == <<disk, panel, follow, jobs, inbox, changed, touched, gaveUp, known, edits, reloads>>

Sections == {"configs", "llm"}
Nil == [k \in {} |-> 0]
Values(s) == IF s = "configs" THEN [ConfigIds -> 0..MaxEdits + 1] ELSE [{"active"} -> ConfigIds]
Unsaved == [form |-> Nil, base |-> Nil, rev |-> Nil, sent |-> Nil, queued |-> Nil, staged |-> Nil,
            conflict |-> FALSE, loading |-> FALSE, timer |-> FALSE, failed |-> FALSE]

-----------------------------------------------------------------------------
(* The three-way merge of a form, its base and what is stored.               *)

Merge(base, local, remote) ==
  [k \in DOMAIN local |-> IF local[k] = base[k] THEN remote[k] ELSE local[k]]
Clash(base, local, remote) ==
  \E k \in DOMAIN local : local[k] # remote[k] /\ local[k] # base[k] /\ remote[k] # base[k]

-----------------------------------------------------------------------------
(* One section of a panel. An operator returns the section and the jobs it  *)
(* asks the host for.                                                        *)

Get(to, s) == [kind |-> "get", for |-> to, s |-> s, at |-> "read", value |-> Nil, rev |-> Nil, id |-> 0]
Update(p, s, value, rev) ==
  [kind |-> "update", for |-> {p}, s |-> s, at |-> "save", value |-> value, rev |-> rev, id |-> reloads[p] + 1]

\* pumpSettingsUpdate
Pump(p, s, c) ==
  IF c.sent # Nil \/ c.conflict \/ c.staged # Nil \/ c.queued = Nil
  THEN [c |-> c, jobs |-> {}]
  ELSE IF c.base = Nil
  THEN [c |-> [c EXCEPT !.loading = TRUE, !.failed = TRUE],
        jobs |-> IF c.loading THEN {} ELSE {Get({p}, s)}]
  ELSE [c |-> [c EXCEPT !.sent = c.queued, !.queued = Nil],
        jobs |-> {Update(p, s, c.queued, c.rev)}]

\* enqueueSettingsUpdate
Enqueue(p, s, c) == Pump(p, s, [c EXCEPT !.queued = c.form, !.failed = FALSE])

\* applyCommittedMetadata, applySectionSettings; m is a snapshot.
Committed(c, m, form) ==
  [c EXCEPT !.base = m.value, !.rev = m.rev, !.form = form, !.loading = FALSE, !.failed = FALSE]
Requeued(c) == IF c.queued = Nil THEN c ELSE [c EXCEPT !.queued = c.form]
Dirty(c) == (c.base # Nil /\ c.form # c.base) \/ c.sent # Nil \/ c.queued # Nil \/ c.timer

\* resolveExternalSnapshot
Resolve(p, s, c, m, localWins) ==
  IF c.base = Nil
  THEN [c |-> Committed([c EXCEPT !.staged = Nil, !.conflict = FALSE], m, m.value), jobs |-> {}]
  ELSE IF ~localWins /\ Clash(c.base, c.form, m.value)
  THEN [c |-> [c EXCEPT !.staged = m, !.conflict = FALSE], jobs |-> {}]
  ELSE Pump(p, s, Requeued(Committed([c EXCEPT !.staged = Nil, !.conflict = FALSE],
                                     m, Merge(c.base, c.form, m.value))))

\* applySnapshot, for a snapshot that answers no save of this panel
External(p, s, c0, m) ==
  LET c == [c0 EXCEPT !.loading = FALSE]
  IN IF c.rev = m.rev THEN Pump(p, s, c)
     ELSE IF c.base = Nil THEN Pump(p, s, Committed(c, m, m.value))
     ELSE IF c.sent # Nil THEN [c |-> [c EXCEPT !.staged = m], jobs |-> {}]
     ELSE IF Dirty(c) \/ c.conflict THEN Resolve(p, s, c, m, FALSE)
     ELSE Pump(p, s, Committed(c, m, m.value))

\* applySnapshot, for the answer of the save on its way
Acknowledged(p, s, c, m) ==
  LET d == Requeued(Committed([c EXCEPT !.sent = Nil, !.conflict = FALSE],
                              m, Merge(c.sent, c.form, m.value)))
  IN IF c.staged # Nil /\ c.staged.rev # m.rev THEN Resolve(p, s, d, c.staged, FALSE)
     ELSE Pump(p, s, [d EXCEPT !.staged = Nil])

\* Mutant: a save that was refused is not sent again.
ConflictDrops(p, s, c0) == [c |-> [c0 EXCEPT !.sent = Nil], jobs |-> {}]
\* setError, for a save that was refused for its revision
Refused(p, s, c0) ==
  LET c == [c0 EXCEPT !.sent = Nil, !.conflict = TRUE, !.loading = FALSE,
                      !.queued = IF @ = Nil THEN c0.sent ELSE @]
  IN IF c.staged # Nil
     THEN LET r == Resolve(p, s, c, c.staged, FALSE)
          IN [r EXCEPT !.c.failed = r.c.staged # Nil]
     ELSE [c |-> [c EXCEPT !.loading = TRUE, !.failed = TRUE], jobs |-> {Get({p}, s)}]

-----------------------------------------------------------------------------
(* The user.                                                                 *)

Do(p, s, r) == panel' = [panel EXCEPT ![p][s] = r.c] /\ jobs' = jobs \cup r.jobs
Editing(p, s, ks) ==
  /\ edits < MaxEdits /\ edits' = edits + 1
  /\ panel[p][s].form # Nil
  /\ \A t \in Sections : panel[p][t].base # Nil \/ EditsWhileLoading
  /\ touched' = [touched EXCEPT ![p] = @ \cup ({s} \X ks)]
  /\ UNCHANGED <<disk, inbox, changed, gaveUp, known, reloads>>

Typed(c, id, value, timer) ==
  [c EXCEPT !.form = [@ EXCEPT ![id] = value], !.timer = timer, !.failed = FALSE]
Choice(id) == [k \in {"active"} |-> id]

\* A field is changed: it is saved by a timer, or with the next save.
Change(p, id) ==
  /\ Editing(p, "configs", {id})
  /\ panel[p]["configs"].form[id] # 0
  /\ panel' = [panel EXCEPT ![p]["configs"] = Typed(@, id, edits + 2, TRUE)]
  /\ UNCHANGED <<follow, jobs>>
AutoSave(p) ==
  /\ panel[p]["configs"].timer
  /\ Do(p, "configs", Enqueue(p, "configs", [panel[p]["configs"] EXCEPT !.timer = FALSE]))
  /\ UNCHANGED <<disk, follow, inbox, changed, touched, gaveUp, known, edits, reloads>>

\* createLlmProviderConfig, deleteLlmProviderConfig: the configuration that
\* becomes active is named in the store when it is stored itself.
Activated(p, c, id) == [panel EXCEPT ![p]["configs"] = c, ![p]["llm"].form = Choice(id)]
Create(p, id) ==
  LET c == panel[p]["configs"]
      r == Enqueue(p, "configs", Typed(c, id, edits + 2, FALSE))
  IN /\ Editing(p, "configs", {id})
     /\ panel[p]["llm"].form # Nil
     /\ c.form[id] = 0 /\ \A q \in Panels : <<"configs", id>> \notin touched[q]   \* a new id
     /\ panel' = Activated(p, r.c, id)
     /\ jobs' = jobs \cup r.jobs
     /\ follow' = [follow EXCEPT ![p] = id]
Delete(p, id) ==
  LET c == panel[p]["configs"]
      r == Enqueue(p, "configs", Typed(c, id, 0, FALSE))
      active == panel[p]["llm"].form = Choice(id)
  IN /\ Editing(p, "configs", {id})
     /\ panel[p]["llm"].form # Nil
     /\ c.form[id] # 0
     /\ \E other \in ConfigIds \ {id} :
          /\ c.form[other] # 0 /\ \A o \in ConfigIds \ {id} : c.form[o] # 0 => other <= o
          /\ panel' = Activated(p, r.c, IF active THEN other ELSE panel[p]["llm"].form["active"])
          /\ follow' = IF active THEN [follow EXCEPT ![p] = other] ELSE follow
     /\ jobs' = jobs \cup r.jobs

Select(p, id) ==
  LET c == panel[p]["llm"]
  IN /\ Editing(p, "llm", {"active"})
     /\ panel[p]["configs"].form[id] # 0 /\ c.form["active"] # id
     /\ Do(p, "llm", Enqueue(p, "llm", [c EXCEPT !.form = Choice(id)]))
     /\ UNCHANGED follow

\* dismissExternalSettingsChange, applyExternalSettingsChange
KeepMine(p, s) ==
  /\ panel[p][s].staged # Nil /\ panel[p][s].sent = Nil
  /\ Do(p, s, Resolve(p, s, panel[p][s], panel[p][s].staged, TRUE))
  /\ UNCHANGED <<disk, follow, inbox, changed, touched, gaveUp, known, edits, reloads>>
TakeTheirs(p, s) ==
  LET c == panel[p][s]
  IN /\ c.staged # Nil /\ c.sent = Nil
     /\ panel' = [panel EXCEPT ![p][s] = Committed([c EXCEPT !.queued = Nil, !.conflict = FALSE,
                                                            !.timer = FALSE, !.staged = Nil], c.staged, c.staged.value)]
     /\ follow' = IF s = "configs" THEN [follow EXCEPT ![p] = 0] ELSE follow
     /\ gaveUp' = gaveUp \cup (IF s = "configs" /\ follow[p] # 0 THEN {<<p, "llm">>} ELSE {})
                         \cup (IF c.staged.rev # disk[s] THEN {<<p, s>>} ELSE {})
     /\ UNCHANGED <<disk, jobs, inbox, changed, touched, known, edits, reloads>>

\* requestAll
Reload(p) ==
  /\ edits < MaxEdits /\ edits' = edits + 1
  /\ reloads' = [reloads EXCEPT ![p] = @ + 1]
  /\ panel' = [panel EXCEPT ![p] = [s \in Sections |-> [Unsaved EXCEPT !.form = panel[p][s].form, !.loading = TRUE]]]
  /\ jobs' = jobs \cup {Get({p}, s) : s \in Sections}
  /\ UNCHANGED <<disk, follow, inbox, changed, touched, gaveUp, known>>

-----------------------------------------------------------------------------
(* The host.                                                                 *)

\* A window of another host saves.
Elsewhere ==
  /\ edits < MaxEdits /\ edits' = edits + 1
  /\ \E id \in ConfigIds : disk["configs"][id] # 0 /\ disk' = [disk EXCEPT !["configs"][id] = edits + 2]
  /\ changed' = changed \cup {"configs"}
  /\ UNCHANGED <<panel, follow, jobs, inbox, touched, gaveUp, known, reloads>>

\* The watcher sees every write, those of this host too, and has the section read
\* again; posting what was read or stored takes less time than the watcher waits.
WatcherFires ==
  /\ changed # {} /\ \A j \in jobs : j.at \notin {"answer", "publish"}
  /\ jobs' = jobs \cup {[Get(Panels, s) EXCEPT !.kind = "watch"] : s \in changed}
  /\ changed' = {}
  /\ UNCHANGED <<disk, panel, follow, inbox, touched, gaveUp, known, edits, reloads>>

Lowest(configs) == CHOOSE id \in ConfigIds : configs[id] # 0 /\ \A o \in ConfigIds : configs[o] # 0 => id <= o
\* loadNormalizedLlmGlobalSettings: the first configuration stands for one that is gone.
Named(llm, configs) ==
  IF configs[llm["active"]] # 0 THEN llm ELSE Choice(Lowest(configs))

\* What is sent of a section: what is shown of it, and the revision of what is stored.
Shown(s) == IF s = "llm" THEN Named(disk["llm"], disk["configs"]) ELSE disk[s]
Snapshot(j, id) == [s |-> j.s, value |-> j.value, rev |-> j.rev, id |-> id, code |-> "snapshot"]
Error(j, code) == [s |-> j.s, value |-> Nil, rev |-> Nil, id |-> j.id, code |-> code]
Post(to, m) == [p \in Panels |-> IF p \in to THEN Append(inbox[p], m) ELSE inbox[p]]

Read(j) ==
  /\ j \in jobs /\ j.at = "read"
  /\ jobs' = (jobs \ {j}) \cup {[j EXCEPT !.at = "answer", !.value = Shown(j.s), !.rev = disk[j.s]]}
  /\ UNCHANGED <<disk, panel, follow, inbox, changed, touched, gaveUp, known, edits, reloads>>

\* postSnapshot; publishLatestAfterConflict with the error that follows it
Answer(j) ==
  /\ j \in jobs /\ j.at = "answer"
  /\ jobs' = jobs \ {j}
  /\ inbox' = IF j.kind = "update"
              THEN [p \in Panels |-> inbox[p] \o <<Snapshot(j, 0)>>
                                       \o (IF p \in j.for THEN <<Error(j, "conflict")>> ELSE <<>>)]
              ELSE Post(j.for, Snapshot(j, 0))
  /\ UNCHANGED <<disk, panel, follow, changed, touched, gaveUp, known, edits, reloads>>

\* saveNormalizedLlmGlobalSettings: what a save of "llm" names is looked up before
\* the lock of the section is taken.
LooksUp(j) ==
  /\ j \in jobs /\ j.at = "save" /\ j.s = "llm"
  /\ jobs' = (jobs \ {j}) \cup {[j EXCEPT !.at = "commit", !.value = Named(@, disk["configs"])]}
  /\ UNCHANGED <<disk, panel, follow, inbox, changed, touched, gaveUp, known, edits, reloads>>
Emptied(j) == j.s = "configs" /\ \A id \in ConfigIds : j.value[id] = 0
\* A table without a configuration is not saved.
Reject(j) ==
  /\ j \in jobs /\ j.at = "save" /\ Emptied(j)
  /\ jobs' = jobs \ {j}
  /\ inbox' = Post(j.for, Error(j, "error"))
  /\ UNCHANGED <<disk, panel, follow, changed, touched, gaveUp, known, edits, reloads>>
\* What the choice of a panel waits for is stored by a save the panel does not wait for.
BroughtBy(j, p) ==
  /\ j.s = "configs" /\ ~(p \in j.for /\ j.id = reloads[p] + 1)
  /\ follow[p] # 0 /\ disk["configs"][follow[p]] = 0 /\ j.value[follow[p]] # 0
Commit(j) ==
  /\ j \in jobs /\ j.at = (IF j.s = "llm" THEN "commit" ELSE "save") /\ ~Emptied(j)
  /\ IF disk[j.s] = j.rev
     THEN /\ disk' = [disk EXCEPT ![j.s] = j.value]
          /\ changed' = changed \cup {j.s}
          /\ known' = known \cup {id \in ConfigIds : disk'["configs"][id] # 0}
          /\ gaveUp' = gaveUp \cup {<<p, "llm">> : p \in {q \in Panels : BroughtBy(j, q)}}
          /\ jobs' = (jobs \ {j}) \cup {[j EXCEPT !.at = "publish", !.rev = j.value]}
     ELSE /\ jobs' = (jobs \ {j}) \cup {[j EXCEPT !.at = "read"]}
          /\ UNCHANGED <<disk, changed, known, gaveUp>>
  /\ UNCHANGED <<panel, follow, inbox, touched, edits, reloads>>
\* publishCommittedSnapshot
Publish(j) ==
  /\ j \in jobs /\ j.at = "publish"
  /\ jobs' = jobs \ {j}
  /\ inbox' = [p \in Panels |-> Append(inbox[p], Snapshot(j, IF p \in j.for THEN j.id ELSE 0))]
  /\ UNCHANGED <<disk, panel, follow, changed, touched, gaveUp, known, edits, reloads>>

-----------------------------------------------------------------------------
(* A panel handles a message.                                                *)

AsStored(m) == [value |-> m.value, rev |-> m.rev]
OwnSave(p, m) == m.id = reloads[p] + 1 /\ panel[p][m.s].sent # Nil

\* Mutant: the choice is saved with the next answer.
FlushesEarly(p, m) == OwnSave(p, m) /\ m.code = "snapshot" /\ m.s = "configs" /\ follow[p] # 0
\* flushDependentSettingsAfterCommittedSnapshot
Flushes(p, m) == /\ OwnSave(p, m) /\ m.code = "snapshot" /\ m.s = "configs"
                 /\ follow[p] # 0 /\ m.value[follow[p]] # 0

Receive(p) ==
  /\ inbox[p] # <<>>
  /\ inbox' = [inbox EXCEPT ![p] = Tail(@)]
  /\ LET m == Head(inbox[p])
         c == panel[p][m.s]
         r == CASE m.code = "snapshot" ->
                     IF OwnSave(p, m) THEN Acknowledged(p, m.s, c, AsStored(m)) ELSE External(p, m.s, c, AsStored(m))
                [] m.code = "conflict" /\ OwnSave(p, m) -> Refused(p, m.s, c)
                [] m.code = "error" /\ OwnSave(p, m) ->
                     [c |-> [c EXCEPT !.sent = Nil, !.loading = FALSE, !.failed = TRUE], jobs |-> {}]
                [] OTHER -> [c |-> [c EXCEPT !.loading = FALSE], jobs |-> {}]
         f == Enqueue(p, "llm", [panel[p]["llm"] EXCEPT !.form = Choice(follow[p])])
     IN /\ gaveUp' = IF m.code = "error" THEN gaveUp \cup {<<p, m.s>>} ELSE gaveUp
        /\ IF Flushes(p, m)
           THEN /\ panel' = [panel EXCEPT ![p] = [s \in Sections |-> IF s = "configs" THEN r.c ELSE f.c]]
                /\ jobs' = jobs \cup r.jobs \cup f.jobs
                /\ follow' = [follow EXCEPT ![p] = 0]
           ELSE Do(p, m.s, r) /\ UNCHANGED follow
  /\ UNCHANGED <<disk, changed, touched, known, edits, reloads>>

-----------------------------------------------------------------------------
FirstConfig == CHOOSE id \in ConfigIds : \A o \in ConfigIds : id <= o
Init ==
  /\ \E there \in {{FirstConfig}, ConfigIds} :
       disk = [s \in Sections |-> IF s = "configs" THEN [id \in ConfigIds |-> IF id \in there THEN 1 ELSE 0]
                                  ELSE Choice(FirstConfig)]
  /\ panel = [p \in Panels |-> [s \in Sections |-> [Unsaved EXCEPT !.form = disk[s], !.base = disk[s], !.rev = disk[s]]]]
  /\ follow = [p \in Panels |-> 0]
  /\ jobs = {} /\ inbox = [p \in Panels |-> <<>>]
  /\ changed = {} /\ touched = [p \in Panels |-> {}] /\ gaveUp = {} /\ known = {id \in ConfigIds : disk["configs"][id] # 0}
  /\ edits = 0 /\ reloads = [p \in Panels |-> 0]

Users == \/ Elsewhere
         \/ \E p \in Panels : Reload(p) \/ \E id \in ConfigIds : Change(p, id) \/ Create(p, id) \/ Delete(p, id) \/ Select(p, id)
Choices == \E p \in Panels, s \in Sections : KeepMine(p, s) \/ TakeTheirs(p, s)
Host == WatcherFires \/ \E j \in jobs : Read(j) \/ Answer(j) \/ LooksUp(j) \/ Reject(j) \/ Commit(j) \/ Publish(j)
Deliveries == \E p \in Panels : AutoSave(p) \/ Receive(p)
Next == Users \/ Choices \/ Host \/ Deliveries

Spec == Init /\ [][Next]_vars

-----------------------------------------------------------------------------
TypeOK ==
  /\ \A s \in Sections : disk[s] \in Values(s)
  /\ \A p \in Panels, s \in Sections :
       \A f \in {"form", "base", "rev", "sent", "queued"} : panel[p][s][f] \in Values(s) \cup {Nil}
  /\ follow \in [Panels -> ConfigIds \cup {0}] /\ changed \subseteq Sections
  /\ \A j \in jobs : j.s \in Sections /\ j.at \in {"read", "answer", "save", "commit", "publish"}

UneditedKeptStep ==
  \A j \in jobs : Commit(j) =>
    \A k \in ConfigIds : disk'["configs"][k] # disk["configs"][k]
      => \E p \in j.for : <<"configs", k>> \in touched[p]

\* A save changes only what its user has edited: "different windows adding different
\* configurations are joined, not the last writer's whole table kept"
\* (useGlobalSettingsStore.ts, mergeSettingsThreeWay).
UneditedKept == [][UneditedKeptStep]_vars

Quiet == /\ jobs = {} /\ changed = {}
         /\ \A p \in Panels : inbox[p] = <<>> /\ \A s \in Sections : ~panel[p][s].timer

\* When nothing is under way, every panel shows what it was sent for the revision that
\* is stored, or says that it does not: no edit is left in a form with nobody to save
\* it. Known exceptions: the choice of a configuration waits for it to be stored, even
\* when somebody else has deleted it, outlives it when it is given up, and is not sent
\* when it comes with a save the panel does not wait for; a rejected save is not sent
\* again, and the next snapshot takes its message away; a conflict on the screen is not
\* renewed when the stored section returns to what the panel began with, and an edit
\* then takes even the message away.
NothingForgotten ==
  LET Open(c) == c.staged # Nil \/ c.failed \/ c.conflict
      Waits(p) == /\ follow[p] # 0
                  /\ \/ Open(panel[p]["configs"]) \/ <<p, "configs">> \in gaveUp
                     \/ disk["configs"][follow[p]] = 0
  IN Quiet => \A p \in Panels, s \in Sections :
       LET c == panel[p][s]
       IN \/ c.form = c.base /\ c.rev = disk[s]
          \/ Open(c) \/ <<p, s>> \in gaveUp
          \/ s = "llm" /\ Waits(p)

ChoiceFollowsStep ==
  \A p \in Panels : inbox'[p] # inbox[p] /\ follow[p] # 0 /\ follow'[p] = 0 => follow[p] \in known

\* The choice that waits for its configuration is saved when that has been stored: "a
\* record a merge has put back into the form is not yet one that can be referred to"
\* (useGlobalSettingsStore.ts, applySnapshot).
ChoiceFollows == [][ChoiceFollowsStep]_vars

\* Every edit is stored, shown as refused or waiting, or given up by its user.
FormsHold == TypeOK /\ NothingForgotten

\* A save neither undoes what others stored nor refers to what is not stored.
SavesHold == UneditedKept /\ ChoiceFollows
=============================================================================
