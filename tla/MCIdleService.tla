--------------------------- MODULE MCIdleService ----------------------------
(***************************************************************************)
(* A small instance of IdleService: a user who wants all the timeouts, or  *)
(* the one for automatic power alone.                                      *)
(***************************************************************************)
EXTENDS IdleService

Wished == {[dim |-> full, blank |-> full, fade |-> full, power |-> TRUE] : full \in BOOLEAN}
=============================================================================
