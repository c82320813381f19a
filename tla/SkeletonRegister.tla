-------------------------- MODULE SkeletonRegister --------------------------
(***************************************************************************)
(* What the client-state skeleton store promises its extension hosts: one  *)
(* register over all stores with compare and set. A host asks for a patch, *)
(* from what it takes the store to hold to what it wants; the patch takes  *)
(* effect in all stores at once or not at all, and never over a record     *)
(* that somebody else has changed. Damaged files may take the register     *)
(* back as a whole to an earlier state, never to a mixture of states.      *)
(***************************************************************************)
EXTENDS FiniteSets

CONSTANTS Hosts, Stores, Records, Gone, Unreadable

VARIABLES latest,    \* the state of all stores, or Unreadable
          history,   \* the states the register has had
          request,   \* the patch a host has under way
          known      \* what a host takes the stores to hold

vars == <<latest, history, request, known>>

State == [Stores -> Records]
Empty == [s \in Stores |-> Gone]

NoRequest == [at |-> "none", from |-> Empty, to |-> Empty]

\* The records a patch changes, and the state a patch makes of another.
Changed(from, to) == {s \in Stores : to[s] # from[s]}
Patched(state, from, to) == [s \in Stores |-> IF s \in Changed(from, to) THEN to[s] ELSE state[s]]

\* Somebody else changed a record that the patch changes, to something else.
Conflict(state, from, to) == \E s \in Changed(from, to) : state[s] \notin {from[s], to[s]}

Init == /\ latest = Empty
        /\ history = {Empty}
        /\ request = [h \in Hosts |-> NoRequest]
        /\ known = [h \in Hosts |-> Empty]

\* A patch starts from what the host knows or from what is there.
Ask(h, to) == /\ request[h].at = "none"
              /\ \E from \in {known[h], latest} :
                    request' = [request EXCEPT ![h] = [at |-> "asked", from |-> from, to |-> to]]
              /\ UNCHANGED <<latest, history, known>>

TakesEffect(h) == LET from == request[h].from
                      to   == request[h].to
                  IN /\ request[h].at = "asked"
                     /\ latest # Unreadable
                     /\ ~Conflict(latest, from, to)
                     /\ latest' = Patched(latest, from, to)
                     /\ history' = history \cup {latest'}

Commit(h) == /\ TakesEffect(h)
             /\ request' = [request EXCEPT ![h].at = "done"]
             /\ UNCHANGED known

\* The host learns what its patch has made true.
Confirm(h) == /\ request[h].at = "done"
              /\ request' = [request EXCEPT ![h] = NoRequest]
              /\ known' \in {known, [known EXCEPT ![h] = request[h].to]}
              /\ UNCHANGED <<latest, history>>

\* The host learns that what it wants is true without a change.
Agree(h, to) == /\ latest # Unreadable
                /\ Patched(latest, known[h], to) = latest
                /\ known' = [known EXCEPT ![h] = to]
                /\ UNCHANGED <<latest, history, request>>

\* An error hides whether the patch took effect.
Fail(h) == /\ request[h].at = "asked"
           /\ TakesEffect(h) \/ UNCHANGED <<latest, history>>
           /\ request' = [request EXCEPT ![h] = NoRequest]
           /\ UNCHANGED known

\* A host reads some stores of one state.
Load(h) == /\ \E state \in history, S \in SUBSET Stores :
                 known' = [known EXCEPT ![h] = [s \in Stores |-> IF s \in S THEN state[s] ELSE @[s]]]
           /\ UNCHANGED <<latest, history, request>>

Crash(h) == /\ request' = [request EXCEPT ![h] = NoRequest]
            /\ known' = [known EXCEPT ![h] = Empty]
            /\ UNCHANGED <<latest, history>>

FallBack == /\ latest' \in history \cup {Unreadable}
            /\ UNCHANGED <<history, request, known>>

Next == \/ FallBack
        \/ \E h \in Hosts : \/ \E to \in State : Ask(h, to) \/ Agree(h, to)
                            \/ Commit(h) \/ Confirm(h) \/ Fail(h) \/ Load(h) \/ Crash(h)

Spec == Init /\ [][Next]_vars
=============================================================================
