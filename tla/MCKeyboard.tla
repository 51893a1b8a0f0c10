----------------------------- MODULE MCKeyboard -----------------------------
(***************************************************************************)
(* An instance of Keyboard: a buffer that overflows and wraps, and two     *)
(* readers.                                                                *)
(***************************************************************************)
EXTENDS Keyboard
=============================================================================
