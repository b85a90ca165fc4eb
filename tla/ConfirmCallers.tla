--------------------------- MODULE ConfirmCallers ---------------------------
(***************************************************************************)
(* The confirmation latch under every interleaving of its callers.         *)
(*                                                                         *)
(* A caller reads the millisecond counter, keeps the value while it does   *)
(* something else (link_task keeps one value for a whole turn, a blocking  *)
(* USB mode switch included; hmi_task does the same), and only then calls. *)
(* The value a call carries may thus be older than the call.               *)
(*                                                                         *)
(* lag, age, cancelled and pressAge are history variables: they record in  *)
(* true elapsed time what the wrapping counter is supposed to mean, and no *)
(* action's guard but Tick's looks at them.                                *)
(***************************************************************************)
EXTENDS SecConfirm

CONSTANTS
    Tasks,      \* ccid_worker or usb_task, link_task, hmi_task, the console
    Pressers,   \* the tasks that relay a press (sec_gate.c, link_spi.c)
    Cancellers, \* the tasks that relay a cancellation (link_spi.c only)
    None,
    MaxLag,     \* bound: a caller's time is at most this old when it is used
    MaxAge      \* bound: how long an operation may stay armed unpolled

(* The one task that cancels (link_task) is the only presser of its board. *)
ASSUME CallersAssumption ==
    /\ Pressers \subseteq Tasks /\ Cancellers \subseteq Tasks
    /\ \A p \in Pressers, c \in Cancellers : p = c
    /\ MaxLag \in Nat /\ MaxAge \in Nat
    /\ MaxLag + Timeout < ClockMod

VARIABLES
    ms,         \* esp_timer_get_time() / 1000, as uint32_t
    cap,        \* cap[c]: the time task c has read and will call with
    answer,     \* what the last poll returned, and the slot it wrote if any
    lag,        \* lag[c]: how old cap[c] really is
    age,        \* time elapsed since the moment armedMs stands for
    cancelled,  \* the armed operation was cancelled
    pressAge    \* age of the operation when the accepted press was captured

callVars == <<ms, cap, answer, lag, age, cancelled, pressAge>>
vars == <<confirmVars, callVars>>

TypeOK ==
    /\ SecConfirmTypeOK
    /\ ms \in Millis
    /\ cap \in [Tasks -> Millis]
    /\ answer \in {"NONE", "IDLE", "PENDING", "TIMEDOUT", "AUTHORIZED"}
                  \X (Slots \cup {NoSlot})
    /\ lag \in [Tasks -> 0 .. MaxLag]
    /\ age \in Nat
    /\ cancelled \in BOOLEAN
    /\ pressAge \in Int

\* The counter may have run for any time before the first operation.
Init ==
    /\ ConfirmInit
    /\ ms \in Millis
    /\ cap = [c \in Tasks |-> ms]
    /\ answer = <<"NONE", NoSlot>>
    /\ lag = [c \in Tasks |-> 0]
    /\ age = 0
    /\ cancelled = FALSE
    /\ pressAge = 0
-----------------------------------------------------------------------------
Tick ==
    /\ \A c \in Tasks : lag[c] < MaxLag
    /\ state = "PENDING" => age < MaxAge
    /\ ms' = IF ms + 1 = ClockMod THEN 0 ELSE ms + 1
    /\ lag' = [c \in Tasks |-> lag[c] + 1]
    /\ age' = IF state = "PENDING" THEN age + 1 ELSE age
    /\ UNCHANGED <<confirmVars, cap, answer, cancelled, pressAge>>

\* now_ms()
Capture(c) ==
    /\ cap' = [cap EXCEPT ![c] = ms]
    /\ lag' = [lag EXCEPT ![c] = 0]
    /\ UNCHANGED <<confirmVars, ms, answer, age, cancelled, pressAge>>

DoArm(c, s, o) ==
    /\ Arm(s, o, cap[c])
    /\ age' = lag[c]
    /\ cancelled' = FALSE
    /\ UNCHANGED <<ms, cap, answer, lag, pressAge>>

DoPress(c) ==
    /\ Authorize(cap[c])
    /\ pressAge' = IF Accepts(cap[c]) THEN age - lag[c] ELSE pressAge
    /\ UNCHANGED <<ms, cap, answer, lag, age, cancelled>>

DoCancel(c) ==
    /\ Cancel(cap[c])
    /\ age' = IF state = "PENDING" THEN lag[c] + Timeout ELSE age
    /\ cancelled' = (cancelled \/ state = "PENDING")
    /\ UNCHANGED <<ms, cap, answer, lag, pressAge>>

DoPoll(c) ==
    /\ Poll(cap[c])
    /\ answer' = <<PollResult(cap[c]),
                   IF PollResult(cap[c]) = "AUTHORIZED" THEN slot ELSE NoSlot>>
    /\ UNCHANGED <<ms, cap, lag, age, cancelled, pressAge>>

\* The CCID worker's deadline and shutdown, and usb_mode_set().
DoReset ==
    /\ Reset
    /\ UNCHANGED callVars

Next ==
    \/ Tick
    \/ DoReset
    \/ \E c \in Tasks :
         \/ Capture(c)
         \/ DoPoll(c)
         \/ \E s \in Slots, o \in Ops : DoArm(c, s, o)
    \/ \E c \in Pressers : DoPress(c)
    \/ \E c \in Cancellers : DoCancel(c)

Spec == Init /\ [][Next]_vars
-----------------------------------------------------------------------------
(* A granted operation was granted by a press captured inside its own      *)
(* window, at or after the time it was armed with and less than the        *)
(* timeout later, and it was not cancelled: sec_confirm_authorize().       *)
GrantInWindow ==
    state = "AUTHORIZED" => pressAge \in 0 .. Timeout - 1 /\ ~cancelled

(* An idle latch describes nothing to the screen or to the link: every     *)
(* path that reaches IDLE clears the operation (sec_confirm.c's invariant  *)
(* "IDLE implies SEC_OP_UNKNOWN"), and an armed one always has a name.     *)
IdleIsBlank == (state = "IDLE") <=> (op = NoOp)

\* No captured press can fall in the window any more.
Lapsed == \A p \in Pressers : age - lag[p] >= Timeout

(* The abstract phase and operation behind a state of the latch. *)
phaseBar ==
    CASE state = "IDLE" -> "idle"
      [] state = "AUTHORIZED" -> "granted"
      [] state = "PENDING" -> IF Lapsed THEN "lapsed" ELSE "waiting"
whatBar == IF state = "IDLE" THEN None ELSE <<slot, op>>

Gate == INSTANCE ConfirmGate WITH phase <- phaseBar, what <- whatBar

(* The latch implements its abstract promise: lapsed operations are never  *)
(* granted, and a grant is told at most once, with the slot it was armed   *)
(* for: sec_confirm_authorize() and sec_confirm_poll() together.           *)
GateRefined == Gate!GateSpec
=============================================================================
