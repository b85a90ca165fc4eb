------------------------------- MODULE Latch -------------------------------
(***************************************************************************)
(* The confirmation latch, as the components know it that only use it: the *)
(* phase and the operation of its promise, ConfirmGate.  What a poll tells *)
(* is used at once and not kept.                                           *)
(***************************************************************************)
CONSTANT None

VARIABLES
    phase,      \* "idle", "waiting", "lapsed" or "granted"
    what        \* <<slot, op>> of the armed operation, or None

gateVars == <<phase, what>>
=============================================================================
