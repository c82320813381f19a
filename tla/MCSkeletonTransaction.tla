----------------------- MODULE MCSkeletonTransaction -----------------------
(* Instances of SkeletonTransaction for TLC: two hosts, a startup store and *)
(* a deferred store with one record each.                                   *)
EXTENDS SkeletonTransaction, TLC

CONSTANTS h1, h2, startupStore, deferredStore, a, b

TwoHosts == {h1, h2}
OneStartup == {startupStore}
OneDeferred == {deferredStore}
TwoValues == {a, b}
AllMishaps == {"crash", "fault", "damage", "lapse"}
World(x, y) == [s \in {startupStore, deferredStore} |-> IF s = startupStore THEN x ELSE y]
\* Worlds that disagree in both stores.
TwoWorlds == {World(a, Gone), World(b, a)}
HostSymmetry == Permutations(TwoHosts)
=============================================================================
