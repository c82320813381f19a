------------------------------- MODULE Stores -------------------------------
(* What windows store on one disk: the data root with its migration, and the *)
(* settings.  The two share no state, so a behaviour is one of them.         *)
EXTENDS DataRoot

CONSTANTS Panels, ConfigIds, MaxEdits, EditsWhileLoading   \* of SettingsSync

ASSUME IdsAreNumbered == ConfigIds \subseteq Nat \ {0} /\ ConfigIds # {}
ASSUME EditsAreCounted == MaxEdits \in Nat

VARIABLES part,   \* the component whose turn the behaviour is
  settingsDisk, settingsPanel, settingsFollow, settingsJobs, settingsInbox,
  settingsChanged, settingsTouched, settingsGaveUp, settingsKnown, settingsEdits,
  settingsReloads

settingsVars ==
  <<settingsDisk, settingsPanel, settingsFollow, settingsJobs, settingsInbox,
  settingsChanged, settingsTouched, settingsGaveUp, settingsKnown, settingsEdits,
  settingsReloads>>

Sync == INSTANCE SettingsSync WITH
  disk <- settingsDisk, panel <- settingsPanel, follow <- settingsFollow,
  jobs <- settingsJobs, inbox <- settingsInbox, changed <- settingsChanged,
  touched <- settingsTouched, gaveUp <- settingsGaveUp, known <- settingsKnown,
  edits <- settingsEdits, reloads <- settingsReloads

\* A part that does not move holds nothing, the data root what it began with.
SettingsRests ==
  /\ settingsDisk = 0 /\ settingsPanel = 0 /\ settingsFollow = 0 /\ settingsJobs = 0
  /\ settingsInbox = 0 /\ settingsChanged = 0 /\ settingsTouched = 0
  /\ settingsGaveUp = 0 /\ settingsKnown = 0 /\ settingsEdits = 0 /\ settingsReloads = 0

PartsInit ==
  /\ Init
  /\ \/ part = "root" /\ SettingsRests
     \/ part = "settings" /\ Sync!Init

PartsNext ==
  \/ part = "root" /\ Next /\ UNCHANGED <<part, settingsVars>>
  \/ part = "settings" /\ Sync!Next
     /\ UNCHANGED <<part, vars>>

PartsSpec == PartsInit /\ [][PartsNext]_<<part, vars, settingsVars>>

-----------------------------------------------------------------------------
\* Every edit of a panel is stored, shown as refused or waiting, or given up by its user
\* (SettingsSync).
FormsHold == part = "settings" => Sync!FormsHold

\* A save neither undoes what others stored nor refers to what is not stored
\* (SettingsSync).
SavesHold ==
  [][part = "settings" => Sync!UneditedKeptStep /\ Sync!ChoiceFollowsStep]_settingsVars
=============================================================================
