----------------------------- MODULE MCKeyboard -----------------------------
(***************************************************************************)
(* Small instances of Keyboard.                                            *)
(***************************************************************************)
EXTENDS Keyboard
=============================================================================
