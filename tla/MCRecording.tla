---------------------------- MODULE MCRecording -----------------------------
(***************************************************************************)
(* A small instance of Recording: two outputs, two recordings.             *)
(***************************************************************************)
EXTENDS Recording
=============================================================================
