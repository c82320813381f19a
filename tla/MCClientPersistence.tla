------------------------ MODULE MCClientPersistence ------------------------
(* ClientPersistence.tla on one conversation of two records. *)
EXTENDS ClientPersistence, TLC
=============================================================================
