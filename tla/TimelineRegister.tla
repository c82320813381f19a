-------------------------- MODULE TimelineRegister --------------------------
(***************************************************************************)
(* What the stored timeline of a conversation promises: it is a table of    *)
(* records. A commit changes any number of them at once, each only from the *)
(* version its host knew; a call goes with its message; a truncation cuts   *)
(* the table at one place. Chunks, generations, increments, files and lost  *)
(* answers are no part of it; TimelineStore implements it.                  *)
(***************************************************************************)
EXTENDS Naturals

CONSTANTS Hosts, Messages, Calls, Owner, Versions, Gone

Records == Messages \cup Calls

VARIABLES table,   \* the committed version of every record
          known    \* the versions a host has read, written or is writing from

vars == <<table, known>>

Init == /\ table \in [Records -> Versions \cup {Gone}]
        /\ known \in [Hosts -> [Records -> Versions \cup {Gone}]]
        /\ \A h \in Hosts, r \in Records : known[h][r] \in {Gone, table[r]}

\* A commit of host h changes records from the versions it knows.
Commit(h) ==
  /\ table' \in [Records -> Versions \cup {Gone}]
  /\ \A r \in Records : table'[r] # table[r] =>
       \/ known[h][r] = table[r]
       \/ (r \in Calls /\ table'[r] = Gone /\ table'[Owner[r]] = Gone)
  /\ UNCHANGED known

\* A truncation removes the messages from one on, known or not.
Truncate ==
  /\ \E n \in Messages :
       table' = [r \in Records |->
                   IF (r \in Messages /\ r >= n) \/ (r \in Calls /\ Owner[r] >= n)
                   THEN Gone ELSE table[r]]
  /\ UNCHANGED known

\* A host reads, learns what its commit stored, or forgets all.
Learn(h) == /\ known' \in [Hosts -> [Records -> Versions \cup {Gone}]]
            /\ \A o \in Hosts \ {h} : known'[o] = known[o]
            /\ UNCHANGED table

Next == \/ \E h \in Hosts : Commit(h) \/ Learn(h)
        \/ Truncate
Spec == Init /\ [][Next]_vars
=============================================================================
