---------------------------- MODULE ConfirmGate ----------------------------
(***************************************************************************)
(* What the confirmation latch promises, without clocks: an armed          *)
(* operation waits for one press; once it has lapsed (its window is over,  *)
(* or it was cancelled) no press can grant it any more; a grant is told to *)
(* at most one caller, and carries the slot of the operation armed last.   *)
(***************************************************************************)
CONSTANTS Slots, Ops, None, NoSlot

VARIABLES
    phase,      \* "idle", "waiting", "lapsed" or "granted"
    what,       \* <<slot, op>> of the armed operation, or None
    answer      \* what the last poll was told

gateVars == <<phase, what, answer>>

GateInit == phase = "idle" /\ what = None /\ answer = <<"NONE", NoSlot>>

Disarm == phase' = "idle" /\ what' = None

Drop == Disarm /\ UNCHANGED answer

\* An operation armed from a time read too long ago may be born lapsed.
ArmOp ==
    /\ phase' \in {"waiting", "lapsed"}
    /\ what' \in Slots \X Ops
    /\ UNCHANGED answer

Press == phase = "waiting" /\ phase' = "granted" /\ UNCHANGED <<what, answer>>

Lapse == phase = "waiting" /\ phase' = "lapsed" /\ UNCHANGED <<what, answer>>

\* A poll that ends the operation, and what its caller is told.
EndsGranted == phase = "granted" /\ Disarm

EndsRefused == phase \in {"waiting", "lapsed"} /\ Disarm

Take == EndsGranted /\ answer' = <<"AUTHORIZED", what[1]>>

Refuse == EndsRefused /\ answer' = <<"TIMEDOUT", NoSlot>>

Wait ==
    /\ \/ phase = "idle" /\ answer' = <<"IDLE", NoSlot>>
       \/ phase \in {"waiting", "lapsed"} /\ answer' = <<"PENDING", NoSlot>>
    /\ UNCHANGED <<phase, what>>

GateNext == Drop \/ ArmOp \/ Press \/ Lapse \/ Take \/ Refuse \/ Wait

GateSpec == GateInit /\ [][GateNext]_gateVars
=============================================================================
