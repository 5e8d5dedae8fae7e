----------------------------- MODULE MCKeyboard -----------------------------
(***************************************************************************)
(* Instances of Keyboard for TLC: a letter and a digit, indexes of two     *)
(* bits.                                                                   *)
(***************************************************************************)
EXTENDS Keyboard
=============================================================================
