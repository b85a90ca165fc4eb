----------------------------- MODULE MCCcidPipe -----------------------------
(* Small instances of CcidPipe for TLC: the constants are numbers. *)
EXTENDS CcidPipe
=============================================================================
