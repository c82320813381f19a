------------------------------ MODULE MCStores ------------------------------
(* Stores.tla with two windows of two calls each, and two panels.  Windows    *)
(* are alike, and so are the calls of each, and so are panels.               *)
EXTENDS Stores, TLC

CONSTANTS w1, w2, c1, c2, p1, p2

Symmetry == Permutations(Windows) \cup Permutations(Calls) \cup Permutations(Panels)
=============================================================================
