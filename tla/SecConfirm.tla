----------------------------- MODULE SecConfirm -----------------------------
(***************************************************************************)
(* The physical-confirmation latch, main/security/sec_confirm.c: one pend- *)
(* ing operation, one press, one consumption.                              *)
(*                                                                         *)
(* Every entry point except peek() runs under the portMUX spinlock, so     *)
(* each is one atomic action here.  The C fields s_op, s_label and         *)
(* s_arm_count always change together and only describe the operation to   *)
(* the user; they are one value, `op'.  Times are the uint32_t millisec-   *)
(* onds the callers pass in: elements of 0..ClockMod-1 that wrap.          *)
(***************************************************************************)
EXTENDS Integers

CONSTANTS
    Slots,      \* the consumers' slot numbers (0xF0, 0xE0, 0xE1, 0..3)
    Ops,        \* what an armed operation may be (sec_op_t, label, count)
    NoSlot,     \* s_slot after reset(): 0
    NoOp,       \* SEC_OP_UNKNOWN, empty label, count 0
    ClockMod,   \* 2^32: the millisecond counter's range
    SeqMod,     \* 2^32 for s_arm_seq; the link publishes it modulo 256
    Timeout     \* SEC_CONFIRM_TIMEOUT_MS

ASSUME ConfirmAssumption ==
    /\ ClockMod \in Nat /\ SeqMod \in Nat \ {0} /\ Timeout \in Nat \ {0}
    /\ Timeout < ClockMod
    /\ NoOp \notin Ops

VARIABLES
    state,      \* s_state: TIMEDOUT is only ever returned, never stored
    slot,       \* s_slot
    op,         \* s_op, s_label and s_arm_count
    armedMs,    \* s_armed_ms
    seq         \* s_arm_seq

confirmVars == <<state, slot, op, armedMs, seq>>

Millis == 0 .. ClockMod - 1

SecConfirmTypeOK ==
    /\ state \in {"IDLE", "PENDING", "AUTHORIZED"}
    /\ slot \in Slots \cup {NoSlot}
    /\ op \in Ops \cup {NoOp}
    /\ armedMs \in Millis
    /\ seq \in 0 .. SeqMod - 1

ConfirmInit ==
    /\ state = "IDLE"
    /\ slot = NoSlot
    /\ op = NoOp
    /\ armedMs = 0
    /\ seq = 0

-----------------------------------------------------------------------------
(* uint32_t subtraction, and s_arm_seq++ on its own width. *)
Minus(a, b) == IF a >= b THEN a - b ELSE a + ClockMod - b
NextSeq(n) == IF n + 1 = SeqMod THEN 0 ELSE n + 1

(* The one deadline expression, shared by authorize(), poll() and peek(). *)
Expired(t) == Minus(t, armedMs) >= Timeout

(* sec_confirm_reset(): disarms; the arming number is kept. *)
Reset ==
    /\ state' = "IDLE"
    /\ slot' = NoSlot
    /\ op' = NoOp
    /\ armedMs' = 0
    /\ UNCHANGED seq

(* sec_confirm_arm*(): overwrites whatever was armed, or even granted. *)
Arm(s, o, t) ==
    /\ state' = "PENDING"
    /\ slot' = s
    /\ op' = o
    /\ armedMs' = t
    /\ seq' = NextSeq(seq)

\* Mutant: the deadline is only enforced by poll().
AcceptsLate(t) == state = "PENDING"

(* sec_confirm_authorize(): the press of time t, or nothing. *)
Accepts(t) == state = "PENDING" /\ ~Expired(t)
Authorize(t) ==
    /\ state' = IF Accepts(t) THEN "AUTHORIZED" ELSE state
    /\ UNCHANGED <<slot, op, armedMs, seq>>

(* sec_confirm_cancel(): moves the arming time back to just expired. *)
Cancel(t) ==
    /\ armedMs' = IF state = "PENDING" THEN Minus(t, Timeout) ELSE armedMs
    /\ UNCHANGED <<state, slot, op, seq>>

(* sec_confirm_poll(): what it returns, and what it does to the latch. *)
Peek(t) == IF state = "PENDING" /\ Expired(t) THEN "TIMEDOUT" ELSE state
PollResult(t) == Peek(t)
\* Mutant: a grant is read without being consumed.
PollTwice(t) ==
    /\ IF PollResult(t) = "TIMEDOUT" THEN state' = "IDLE" /\ op' = NoOp
                                     ELSE UNCHANGED <<state, op>>
    /\ UNCHANGED <<slot, armedMs, seq>>
Poll(t) ==
    /\ IF PollResult(t) \in {"TIMEDOUT", "AUTHORIZED"}
       THEN state' = "IDLE" /\ op' = NoOp
       ELSE UNCHANGED <<state, op>>
    /\ UNCHANGED <<slot, armedMs, seq>>
=============================================================================
