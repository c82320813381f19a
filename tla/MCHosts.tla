------------------------------ MODULE MCHosts -------------------------------
(* HostServices.tla with two hosts, two stores of the skeleton, two servers   *)
(* and one command.  Hosts are alike.                                        *)
EXTENDS HostServices, TLC

CONSTANTS h1, h2, startupStore, deferredStore, a, b

\* Worlds that disagree in both stores of the skeleton.
World(x, y) == [s \in {startupStore, deferredStore} |-> IF s = startupStore THEN x ELSE y]
TwoWorlds == {World(a, Gone), World(b, a)}

Symmetry == Permutations(Hosts)
=============================================================================
