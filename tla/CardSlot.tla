------------------------------ MODULE CardSlot ------------------------------
(***************************************************************************)
(* What the one slot of the reader promises the host (bMaxCCIDBusySlots is *)
(* 1): a command is asked, executed once, and then told, in this order and *)
(* one at a time; or the host gives it up, by a reset or a mode switch,    *)
(* and is told nothing of it.  Nothing is promised once a reset or a       *)
(* switch has overtaken the worker.                                        *)
(***************************************************************************)
EXTENDS Naturals

VARIABLES
    phase,      \* "idle", "asked", "done": of the command the host waits on
    number,     \* the last command asked
    told,       \* the last answer: <<number in its header, in its content>>
    undefined   \* the worker was overtaken

slotVars == <<phase, number, told, undefined>>

SlotInit == phase = "idle" /\ number = 0 /\ told = <<0, 0>> /\ ~undefined

\* What the transport answers by itself is done at once.
Ask ==
    /\ phase = "idle" /\ phase' \in {"asked", "done"}
    /\ number' = number + 1
    /\ UNCHANGED <<told, undefined>>

Execute ==
    /\ phase = "asked" /\ phase' = "done"
    /\ UNCHANGED <<number, told, undefined>>

Tell ==
    /\ phase = "done" /\ phase' = "idle"
    /\ told' = <<number, number>>
    /\ UNCHANGED <<number, undefined>>

GiveUp ==
    /\ phase' = "idle"
    /\ UNCHANGED <<number, told, undefined>>

Overtaken == undefined'

SlotNext == Ask \/ Execute \/ Tell \/ GiveUp \/ Overtaken

SlotSpec == SlotInit /\ [][SlotNext]_slotVars
=============================================================================
