----------------------- MODULE MCStorageResourceLock -----------------------
(* Instances of StorageResourceLock small enough for TLC. *)
EXTENDS StorageResourceLock, TLC

CONSTANTS p1, p2, a1, a2, b1

\* Two calls in one process and one in another: a second file can appear
\* between the two system calls of a recovery.
ThreeCalls == {a1, a2, b1}
ThreeCallsProc == a1 :> p1 @@ a2 :> p1 @@ b1 :> p2
=============================================================================
