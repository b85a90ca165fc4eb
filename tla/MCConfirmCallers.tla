-------------------------- MODULE MCConfirmCallers --------------------------
(* Small instances of ConfirmCallers for TLC. *)
EXTENDS ConfirmCallers

CONSTANTS worker, linkTask

MCTasks == {worker, linkTask}
MCLink == {linkTask}
MCSlots == {"F0", "E0"}
=============================================================================
