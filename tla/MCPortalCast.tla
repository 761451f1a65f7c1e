---------------------------- MODULE MCPortalCast ----------------------------
(***************************************************************************)
(* Small instances of PortalCast.                                          *)
(***************************************************************************)
EXTENDS PortalCast, TLC

\* One client asks for either kind and to be remembered.  A Start that omits its
\* options (None) asks for a monitor.
DemandsDef == {[types |-> Kinds, persist |-> TRUE]}

Symmetry ==
    Permutations(Sessions) \cup Permutations(Handles) \cup Permutations(Frontends)
=============================================================================
