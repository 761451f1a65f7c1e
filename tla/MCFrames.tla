------------------------------ MODULE MCFrames ------------------------------
(***************************************************************************)
(* Small instances of Frames: two outputs on one GPU, one of them watched. *)
(***************************************************************************)
EXTENDS Frames
CONSTANTS o1, o2
MCOutputs == {o1, o2}
=============================================================================
