---------------------------- MODULE MCPlacement ----------------------------
(***************************************************************************)
(* Small instances of Placement: a view at the left edge or inside its parent.*)
(***************************************************************************)
EXTENDS Placement

MCViews    == {[loc |-> 0, len |-> 4], [loc |-> 2, len |-> 4]}
MCBackends == {"x11", "wayland"}
MCLayout   == 0..4
=============================================================================
