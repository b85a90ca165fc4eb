--------------------------- MODULE ConfirmProofs ---------------------------
(***************************************************************************)
(* Proofs about the confirmation latch and its callers, for every number   *)
(* of tasks, every slot and operation, every counter width and timeout.    *)
(***************************************************************************)
EXTENDS ConfirmCallers, ConfirmLink, TLAPS

(* uint32_t subtraction stays on 32 bits, whatever its operands: a         *)
(* cancellation, or a difference of two captured times, never leaves the   *)
(* counter's range.                                                        *)
LEMMA MinusType ==
    ASSUME NEW a \in Millis, NEW b \in 0 .. ClockMod
    PROVE  Minus(a, b) \in Millis
  BY ConfirmAssumption DEF Millis, Minus

(* Two unsigned differences to the same instant compare like true ages: a  *)
(* press older than the arming wraps far beyond the timeout. This is the   *)
(* one comparison authorize(), poll() and peek() share.                    *)
LEMMA MinusOfAges ==
    ASSUME NEW now \in Millis, NEW a \in Millis, NEW b \in Millis
    PROVE  LET x == Minus(now, a)
               y == Minus(now, b)
           IN  Minus(a, b) = IF y >= x THEN y - x ELSE y - x + ClockMod
  BY ConfirmAssumption DEF Millis, Minus

(* One more millisecond: the counter stays in range, and the unsigned      *)
(* distance to any captured time grows by one unless it wraps.             *)
LEMMA MinusTick ==
    ASSUME NEW now \in Millis, NEW a \in Millis, Minus(now, a) + 1 < ClockMod
    PROVE  LET n == IF now + 1 = ClockMod THEN 0 ELSE now + 1
           IN  n \in Millis /\ Minus(n, a) = Minus(now, a) + 1
  BY ConfirmAssumption DEF Millis, Minus
-----------------------------------------------------------------------------
(* Type correctness of the latch and of its callers: every stored time     *)
(* stays a uint32_t, cancel()'s backdated one included, and TIMEDOUT is    *)
(* returned by poll() but never stored.                                    *)
THEOREM TypeCorrect == Spec => []TypeOK
<1>. USE ConfirmAssumption, CallersAssumption
<1>1. Init => TypeOK
  <2>. SUFFICES ASSUME Init PROVE TypeOK
    OBVIOUS
  <2>1. SecConfirmTypeOK
    BY DEF Init, ConfirmInit, SecConfirmTypeOK, Millis
  <2>2. ms \in Millis /\ cap \in [Tasks -> Millis] /\ lag \in [Tasks -> 0 .. MaxLag]
    BY DEF Init
  <2>3. age \in Nat /\ pressAge \in Int
    BY DEF Init
  <2>4. cancelled \in BOOLEAN
    BY Zenon DEF Init
  <2>5. answer \in {"NONE", "IDLE", "PENDING", "TIMEDOUT", "AUTHORIZED"}
                    \X (Slots \cup {NoSlot})
    BY DEF Init
  <2>. QED
    BY <2>1, <2>2, <2>3, <2>4, <2>5 DEF TypeOK
<1>2. TypeOK /\ [Next]_vars => TypeOK'
  <2>. SUFFICES ASSUME TypeOK, [Next]_vars PROVE TypeOK'
    OBVIOUS
  <2>. USE DEF TypeOK, SecConfirmTypeOK
  <2>1. CASE Tick
    BY <2>1 DEF Tick, confirmVars, Millis
  <2>2. CASE DoReset
    BY <2>2 DEF DoReset, Reset, callVars, Millis
  <2>3. ASSUME NEW c \in Tasks, Capture(c) PROVE TypeOK'
    BY <2>3 DEF Capture, confirmVars
  <2>4. ASSUME NEW c \in Tasks, DoPoll(c) PROVE TypeOK'
    <3>1. answer' \in {"NONE", "IDLE", "PENDING", "TIMEDOUT", "AUTHORIZED"}
                       \X (Slots \cup {NoSlot})
      BY <2>4 DEF DoPoll, PollResult, Peek
    <3>2. SecConfirmTypeOK'
      BY <2>4 DEF DoPoll, Poll
    <3>. QED
      BY <2>4, <3>1, <3>2 DEF DoPoll
  <2>5. ASSUME NEW c \in Tasks, NEW s \in Slots, NEW o \in Ops, DoArm(c, s, o)
        PROVE  TypeOK'
    <3>1. SecConfirmTypeOK'
      BY <2>5 DEF DoArm, Arm, NextSeq
    <3>2. cancelled' \in BOOLEAN
      BY <2>5, Zenon DEF DoArm
    <3>3. age' \in Nat
      BY <2>5 DEF DoArm
    <3>. QED
      BY <2>5, <3>1, <3>2, <3>3 DEF DoArm
  <2>6. ASSUME NEW c \in Pressers, DoPress(c) PROVE TypeOK'
    BY <2>6 DEF DoPress, Authorize
  <2>7. ASSUME NEW c \in Cancellers, DoCancel(c) PROVE TypeOK'
    <3>1. c \in Tasks
      OBVIOUS
    <3>2. Minus(cap[c], Timeout) \in Millis
      BY <3>1, MinusType
    <3>3. armedMs' \in Millis
      BY <2>7, <3>2 DEF DoCancel, Cancel
    <3>. QED
      BY <2>7, <3>1, <3>3 DEF DoCancel, Cancel
  <2>8. CASE UNCHANGED vars
    BY <2>8 DEF vars, confirmVars, callVars
  <2>. QED
    BY <2>1, <2>2, <2>3, <2>4, <2>5, <2>6, <2>7, <2>8 DEF Next
<1>. QED
  BY <1>1, <1>2, PTL DEF Spec
-----------------------------------------------------------------------------
(* An idle latch describes nothing, an armed or granted one always has a   *)
(* name: no path out of poll(), reset() or arm() forgets the operation.    *)
THEOREM IdleBlank == Spec => []IdleIsBlank
<1>. USE ConfirmAssumption
<1>1. Init => IdleIsBlank
  BY DEF Init, ConfirmInit, IdleIsBlank
<1>2. IdleIsBlank /\ [Next]_vars => IdleIsBlank'
  <2>. SUFFICES ASSUME IdleIsBlank, [Next]_vars PROVE IdleIsBlank'
    OBVIOUS
  <2>. USE DEF IdleIsBlank
  <2>1. CASE Tick
    BY <2>1 DEF Tick, confirmVars
  <2>2. CASE DoReset
    BY <2>2 DEF DoReset, Reset
  <2>3. ASSUME NEW c \in Tasks, Capture(c) PROVE IdleIsBlank'
    BY <2>3 DEF Capture, confirmVars
  <2>4. ASSUME NEW c \in Tasks, DoPoll(c) PROVE IdleIsBlank'
    BY <2>4 DEF DoPoll, Poll
  <2>5. ASSUME NEW c \in Tasks, NEW s \in Slots, NEW o \in Ops, DoArm(c, s, o)
        PROVE  IdleIsBlank'
    BY <2>5 DEF DoArm, Arm
  <2>6. ASSUME NEW c \in Pressers, DoPress(c) PROVE IdleIsBlank'
    BY <2>6 DEF DoPress, Authorize, Accepts
  <2>7. ASSUME NEW c \in Cancellers, DoCancel(c) PROVE IdleIsBlank'
    BY <2>7 DEF DoCancel, Cancel
  <2>8. CASE UNCHANGED vars
    BY <2>8 DEF vars, confirmVars
  <2>. QED
    BY <2>1, <2>2, <2>3, <2>4, <2>5, <2>6, <2>7, <2>8 DEF Next
<1>. QED
  BY <1>1, <1>2, PTL DEF Spec
-----------------------------------------------------------------------------
(* The wrapping counter still means what it should: every captured time is *)
(* lag[c] old, the armed time is age old, and a cancelled operation lies   *)
(* outside the window of every press that can still arrive.                *)
ClocksAgree ==
    /\ \A c \in Tasks : Minus(ms, cap[c]) = lag[c]
    /\ state = "PENDING" => age < ClockMod /\ Minus(ms, armedMs) = age
    /\ state = "PENDING" /\ cancelled => Lapsed

SafeInv == ClocksAgree /\ GrantInWindow

(* The press accepted by authorize() was captured when the operation was   *)
(* age - lag[c] old, and that is inside the window.                        *)
LEMMA AcceptedAge ==
    ASSUME TypeOK, ClocksAgree, NEW c \in Tasks, Accepts(cap[c])
    PROVE  age - lag[c] \in 0 .. Timeout - 1
<1>. USE ConfirmAssumption, CallersAssumption
<1>1. /\ ms \in Millis /\ cap[c] \in Millis /\ armedMs \in Millis
      /\ lag[c] \in 0 .. MaxLag /\ age \in Nat
  BY DEF TypeOK, SecConfirmTypeOK
<1>2. Minus(ms, cap[c]) = lag[c] /\ Minus(ms, armedMs) = age
  BY DEF ClocksAgree, Accepts
<1>3. Minus(cap[c], armedMs) =
        IF age >= lag[c] THEN age - lag[c] ELSE age - lag[c] + ClockMod
  BY <1>1, <1>2, MinusOfAges
<1>4. Minus(cap[c], armedMs) < Timeout
  BY <1>1, <1>3 DEF Accepts, Expired
<1>. QED
  BY <1>1, <1>3, <1>4

(* Every step keeps the clocks in agreement, provided that no operation    *)
(* stays armed unpolled for a whole turn of the counter (49.7 days).       *)
LEMMA SafeStep ==
    ASSUME TypeOK, TypeOK', SafeInv, [Next]_vars, MaxAge < ClockMod
    PROVE  SafeInv'
<1>. USE ConfirmAssumption, CallersAssumption
<1>. USE DEF SafeInv
<1>a. \A c \in Tasks : lag[c] \in 0 .. MaxLag /\ cap[c] \in Millis
  BY DEF TypeOK
<1>1. CASE Tick
  <2>1. ASSUME NEW c \in Tasks PROVE Minus(ms', cap'[c]) = lag'[c]
    <3>1. Minus(ms, cap[c]) = lag[c] /\ lag[c] + 1 < ClockMod
      BY <1>1, <1>a DEF Tick, ClocksAgree
    <3>2. Minus(ms', cap[c]) = lag[c] + 1
      BY <1>1, <1>a, <3>1, MinusTick DEF Tick, TypeOK
    <3>. QED
      BY <1>1, <3>2 DEF Tick
  <2>2. ASSUME state = "PENDING" PROVE age' < ClockMod /\ Minus(ms', armedMs') = age'
    <3>1. age < MaxAge /\ age \in Nat /\ Minus(ms, armedMs) = age
      BY <1>1, <2>2 DEF Tick, ClocksAgree, TypeOK
    <3>2. armedMs \in Millis /\ ms \in Millis
      BY DEF TypeOK, SecConfirmTypeOK
    <3>3. Minus(ms', armedMs) = age + 1
      BY <1>1, <3>1, <3>2, MinusTick DEF Tick
    <3>. QED
      BY <1>1, <2>2, <3>1, <3>3 DEF Tick, confirmVars
  <2>3. ASSUME state = "PENDING", cancelled PROVE Lapsed'
    <3>1. \A p \in Pressers : age - lag[p] >= Timeout
      BY <2>3 DEF ClocksAgree, Lapsed
    <3>2. \A p \in Pressers : age' - lag'[p] = age - lag[p]
      BY <1>1, <1>a, <2>3 DEF Tick, TypeOK
    <3>. QED
      BY <3>1, <3>2 DEF Lapsed
  <2>4. ClocksAgree'
    BY <1>1, <2>1, <2>2, <2>3 DEF Tick, ClocksAgree, confirmVars
  <2>. QED
    BY <1>1, <2>4 DEF Tick, GrantInWindow, confirmVars
<1>2. CASE DoReset
  BY <1>2 DEF DoReset, Reset, callVars, ClocksAgree, GrantInWindow
<1>3. ASSUME NEW c \in Tasks, Capture(c) PROVE SafeInv'
  <2>1. Minus(ms, ms) = 0
    BY DEF Minus, TypeOK, Millis
  <2>2. \A d \in Tasks : Minus(ms', cap'[d]) = lag'[d]
    BY <1>3, <2>1 DEF Capture, ClocksAgree, TypeOK
  <2>3. ASSUME Lapsed PROVE Lapsed'
    <3>1. ASSUME NEW p \in Pressers PROVE age' - lag'[p] >= Timeout
      <4>1. lag'[p] \in 0 .. MaxLag /\ lag'[p] =< lag[p]
        BY <1>3, <1>a DEF Capture, TypeOK
      <4>. QED
        BY <1>3, <1>a, <2>3, <4>1 DEF Capture, Lapsed, TypeOK
    <3>. QED
      BY <3>1 DEF Lapsed
  <2>. QED
    BY <1>3, <2>2, <2>3 DEF Capture, ClocksAgree, GrantInWindow, confirmVars
<1>4. ASSUME NEW c \in Tasks, DoPoll(c) PROVE SafeInv'
  <2>1. Lapsed' <=> Lapsed
    BY <1>4 DEF DoPoll, Lapsed
  <2>2. state' # state => state' = "IDLE"
    BY <1>4 DEF DoPoll, Poll
  <2>. QED
    BY <1>4, <2>1, <2>2 DEF DoPoll, Poll, ClocksAgree, GrantInWindow
<1>5. ASSUME NEW c \in Tasks, NEW s \in Slots, NEW o \in Ops, DoArm(c, s, o)
      PROVE  SafeInv'
  <2>1. lag[c] < ClockMod /\ Minus(ms, cap[c]) = lag[c]
    BY <1>a DEF ClocksAgree
  <2>. QED
    BY <1>5, <2>1 DEF DoArm, Arm, ClocksAgree, GrantInWindow
<1>6. ASSUME NEW c \in Pressers, DoPress(c) PROVE SafeInv'
  <2>1. Lapsed' <=> Lapsed
    BY <1>6 DEF DoPress, Lapsed
  <2>2. c \in Tasks
    OBVIOUS
  <2>3. ClocksAgree'
    BY <1>6, <2>1 DEF DoPress, Authorize, ClocksAgree
  <2>4. ASSUME Accepts(cap[c]) PROVE GrantInWindow'
    <3>1. age - lag[c] \in 0 .. Timeout - 1
      BY <2>2, <2>4, AcceptedAge
    <3>2. ~cancelled
      BY <2>4, <3>1, <1>a DEF ClocksAgree, Accepts, Lapsed, TypeOK
    <3>. QED
      BY <1>6, <2>4, <3>1, <3>2 DEF DoPress, GrantInWindow
  <2>5. ASSUME ~Accepts(cap[c]) PROVE GrantInWindow'
    BY <1>6, <2>5 DEF DoPress, Authorize, GrantInWindow
  <2>. QED
    BY <2>3, <2>4, <2>5
<1>7. ASSUME NEW c \in Cancellers, DoCancel(c) PROVE SafeInv'
  <2>1. c \in Tasks /\ \A p \in Pressers : p = c
    OBVIOUS
  <2>2. ASSUME state = "PENDING" PROVE Minus(ms, armedMs') = age' /\ age' < ClockMod
    <3>1. Minus(ms, cap[c]) = lag[c]
      BY <2>1 DEF ClocksAgree
    <3>2. armedMs' = Minus(cap[c], Timeout) /\ age' = lag[c] + Timeout
      BY <1>7, <2>2 DEF DoCancel, Cancel
    <3>3. ms \in Millis /\ cap[c] \in Millis /\ lag[c] \in 0 .. MaxLag
      BY <1>a, <2>1 DEF TypeOK
    <3>. QED
      BY <3>1, <3>2, <3>3 DEF Minus, Millis
  <2>3. ASSUME state = "PENDING" PROVE Lapsed'
    BY <1>7, <1>a, <2>1, <2>3 DEF DoCancel, Lapsed
  <2>4. ClocksAgree'
    BY <1>7, <2>2, <2>3 DEF DoCancel, Cancel, ClocksAgree
  <2>. QED
    BY <1>7, <2>4 DEF DoCancel, Cancel, GrantInWindow
<1>8. CASE UNCHANGED vars
  BY <1>8 DEF vars, confirmVars, callVars, ClocksAgree, GrantInWindow, Lapsed
<1>. QED
  BY <1>1, <1>2, <1>3, <1>4, <1>5, <1>6, <1>7, <1>8 DEF Next

(* A granted operation was granted by a press captured inside its own      *)
(* window and was never cancelled, as long as nothing stays armed unpolled *)
(* for 2^32 ms: sec_confirm_authorize() and sec_confirm_cancel().          *)
THEOREM GrantSafe ==
    ASSUME MaxAge < ClockMod
    PROVE  Spec => []GrantInWindow
<1>1. TypeOK /\ Init => SafeInv
  BY ConfirmAssumption
     DEF Init, ConfirmInit, SafeInv, ClocksAgree, GrantInWindow, Minus, TypeOK, Millis
<1>2. TypeOK /\ TypeOK' /\ SafeInv /\ [Next]_vars => SafeInv'
  BY SafeStep
<1>. QED
  BY <1>1, <1>2, TypeCorrect, PTL DEF Spec, SafeInv
-----------------------------------------------------------------------------
(* Every step of the callers is a step of the abstract gate, or a stutter. *)
LEMMA GateStep ==
    ASSUME TypeOK, TypeOK', SafeInv, SafeInv', [Next]_vars
    PROVE  [Gate!GateNext]_(Gate!gateVars)
<1>. USE DEF SafeInv, phaseBar, whatBar
<1>. DEFINE Step == [Gate!GateNext]_(Gate!gateVars)
<1>a. \A c \in Tasks : lag[c] \in 0 .. MaxLag /\ cap[c] \in Millis
  BY DEF TypeOK
<1>s. state \in {"IDLE", "PENDING", "AUTHORIZED"}
  BY DEF TypeOK, SecConfirmTypeOK
<1>b. ASSUME UNCHANGED <<state, slot, op, answer>>,
             state = "PENDING" /\ Lapsed => Lapsed'
      PROVE  Step
  <2>1. CASE state = "PENDING" /\ ~Lapsed /\ Lapsed'
    <3>. Gate!Lapse
      BY <1>b, <2>1 DEF Gate!Lapse
    <3>. QED
      BY DEF Gate!GateNext
  <2>2. CASE ~(state = "PENDING" /\ ~Lapsed /\ Lapsed')
    BY <1>b, <2>2, <1>s DEF Gate!gateVars
  <2>. QED
    BY <2>1, <2>2
<1>1. CASE Tick
  <2>1. ASSUME state = "PENDING", Lapsed PROVE Lapsed'
    <3>1. \A p \in Pressers : age' - lag'[p] = age - lag[p]
      BY <1>1, <1>a, <2>1, CallersAssumption DEF Tick, TypeOK
    <3>. QED
      BY <2>1, <3>1 DEF Lapsed
  <2>. QED
    BY <1>1, <2>1, <1>b DEF Tick, confirmVars
<1>2. CASE DoReset
  <2>. Gate!Drop
    BY <1>2 DEF DoReset, Reset, callVars, Gate!Drop, Gate!Disarm
  <2>. QED
    BY DEF Gate!GateNext
<1>3. ASSUME NEW c \in Tasks, Capture(c) PROVE Step
  <2>1. ASSUME Lapsed PROVE Lapsed'
    <3>1. ASSUME NEW p \in Pressers PROVE age' - lag'[p] >= Timeout
      <4>1. lag'[p] \in 0 .. MaxLag /\ lag'[p] =< lag[p]
        BY <1>3, <1>a, CallersAssumption DEF Capture, TypeOK
      <4>. QED
        BY <1>3, <1>a, <2>1, <4>1, CallersAssumption, ConfirmAssumption
           DEF Capture, Lapsed, TypeOK
    <3>. QED
      BY <3>1 DEF Lapsed
  <2>. QED
    BY <1>3, <2>1, <1>b DEF Capture, confirmVars
<1>4. ASSUME NEW c \in Tasks, DoPoll(c) PROVE Step
  <2>1. CASE state = "AUTHORIZED"
    <3>. Gate!Take
      BY <1>4, <2>1 DEF DoPoll, Poll, PollResult, Peek, Gate!Take, Gate!EndsGranted, Gate!Disarm
    <3>. QED
      BY DEF Gate!GateNext
  <2>2. CASE state = "PENDING" /\ Expired(cap[c])
    <3>. Gate!Refuse
      BY <1>4, <2>2 DEF DoPoll, Poll, PollResult, Peek, Gate!Refuse, Gate!EndsRefused, Gate!Disarm
    <3>. QED
      BY DEF Gate!GateNext
  <2>3. CASE state = "IDLE" \/ (state = "PENDING" /\ ~Expired(cap[c]))
    <3>1. Lapsed' <=> Lapsed
      BY <1>4 DEF DoPoll, Lapsed
    <3>. Gate!Wait
      BY <1>4, <2>3, <3>1 DEF DoPoll, Poll, PollResult, Peek, Gate!Wait
    <3>. QED
      BY DEF Gate!GateNext
  <2>. QED
    BY <1>s, <2>1, <2>2, <2>3
<1>5. ASSUME NEW c \in Tasks, NEW s \in Slots, NEW o \in Ops, DoArm(c, s, o)
      PROVE  Step
  <2>. Gate!ArmOp
    BY <1>5 DEF DoArm, Arm, Gate!ArmOp
  <2>. QED
    BY DEF Gate!GateNext
<1>6. ASSUME NEW c \in Pressers, DoPress(c) PROVE Step
  <2>1. CASE Accepts(cap[c])
    <3>1. c \in Tasks
      BY CallersAssumption
    <3>2. age - lag[c] \in 0 .. Timeout - 1
      BY <2>1, <3>1, AcceptedAge
    <3>3. ~Lapsed
      BY <1>a, <3>1, <3>2, ConfirmAssumption, CallersAssumption DEF Lapsed, TypeOK
    <3>. Gate!Press
      BY <1>6, <2>1, <3>3 DEF DoPress, Authorize, Accepts, Gate!Press
    <3>. QED
      BY DEF Gate!GateNext
  <2>2. CASE ~Accepts(cap[c])
    BY <1>6, <2>2, <1>b DEF DoPress, Authorize, Lapsed
  <2>. QED
    BY <2>1, <2>2
<1>7. ASSUME NEW c \in Cancellers, DoCancel(c) PROVE Step
  <2>1. state = "PENDING" => Lapsed'
    BY <1>7 DEF DoCancel, Cancel, ClocksAgree
  <2>. QED
    BY <1>7, <2>1, <1>b DEF DoCancel, Cancel
<1>8. CASE UNCHANGED vars
  BY <1>8, <1>b DEF vars, confirmVars, callVars, Lapsed
<1>. QED
  BY <1>1, <1>2, <1>3, <1>4, <1>5, <1>6, <1>7, <1>8 DEF Next

(* The latch with its callers implements the abstract gate: an operation   *)
(* whose window is over or that was cancelled is never granted, and each   *)
(* grant is told once, with its own slot, however old the callers' times.  *)
THEOREM GateImplemented ==
    ASSUME MaxAge < ClockMod
    PROVE  Spec => GateRefined
<1>1. Init => Gate!GateInit
  BY DEF Init, ConfirmInit, phaseBar, whatBar, Gate!GateInit
<1>2. TypeOK /\ Init => SafeInv
  BY ConfirmAssumption
     DEF Init, ConfirmInit, SafeInv, ClocksAgree, GrantInWindow, Minus, TypeOK, Millis
<1>3. TypeOK /\ TypeOK' /\ SafeInv /\ [Next]_vars => SafeInv'
  BY SafeStep
<1>4. TypeOK /\ TypeOK' /\ SafeInv /\ SafeInv' /\ [Next]_vars
        => [Gate!GateNext]_(Gate!gateVars)
  BY GateStep
<1>. QED
  BY <1>1, <1>2, <1>3, <1>4, TypeCorrect, PTL DEF Spec, GateRefined, Gate!GateSpec
-----------------------------------------------------------------------------
(* The niphar_chest board (ConfirmLink), for any number of operations,     *)
(* requests, gestures and mode changes, and any modelled time.             *)

\* The latch stays typed, whatever it is told at a modelled time.
LEMMA LatchTyped ==
    ASSUME SecConfirmTypeOK, NEW now \in 0 .. MaxMs
    PROVE  /\ \A s \in Slots, o \in Ops : Arm(s, o, now) => SecConfirmTypeOK'
           /\ Reset \/ Authorize(now) \/ Cancel(now) \/ Poll(now) => SecConfirmTypeOK'
           /\ UNCHANGED confirmVars => SecConfirmTypeOK'
<1>. USE ConfirmAssumption, LinkAssumption DEF SecConfirmTypeOK, Millis
<1>1. now \in Millis
  OBVIOUS
<1>2. ASSUME NEW s \in Slots, NEW o \in Ops, Arm(s, o, now) PROVE SecConfirmTypeOK'
  BY <1>1, <1>2 DEF Arm, NextSeq
<1>3. CASE Reset
  BY <1>3 DEF Reset
<1>4. CASE Authorize(now)
  BY <1>4 DEF Authorize
<1>5. CASE Cancel(now)
  <2>1. Minus(now, Timeout) \in Millis
    BY <1>1, MinusType
  <2>. QED
    BY <1>5, <2>1 DEF Cancel
<1>6. CASE Poll(now)
  BY <1>6 DEF Poll
<1>7. CASE UNCHANGED confirmVars
  BY <1>7 DEF confirmVars
<1>. QED
  BY <1>2, <1>3, <1>4, <1>5, <1>6, <1>7

\* What link_task copies of the keyboard's half is of its kind.
LEMMA MasterTyped ==
    ASSUME NEW w \in Masters, NEW u \in Modes
    PROVE  NoMaster(u) \in Masters /\ Judged(w) \in Masters
<1>. USE ConfirmAssumption, LinkAssumption
<1>1. \A v \in Modes : NoMaster(v) \in Masters
  BY DEF NoMaster, Masters
<1>2. w.mode \in Modes /\ w.req \in 0 .. MaxRequests
  BY DEF Masters
<1>3. Judged(w) \in Masters
  <2>1. NoMaster(w.mode) \in Masters
    BY <1>1, <1>2
  <2>. QED
    BY <1>2, <2>1 DEF Judged, Masters
<1>. QED
  BY <1>1, <1>3

\* A gesture, a request and a mode keep the keyboard's half typed.
LEMMA KeyboardTyped ==
    ASSUME LinkTypeOK, Keyboard
    PROVE  /\ master' \in Masters /\ shown' \in Blocks /\ switches' \in 0 .. MaxSwitches
           /\ UNCHANGED <<confirmVars, clock, linkVars, chest, hostVars, hosted, relayed>>
<1>. USE ConfirmAssumption, LinkAssumption DEF LinkTypeOK
<1>1. CASE KbShow
  BY <1>1 DEF KbShow, histVars
<1>2. ASSUME NEW g \in {"press", "cancel"}, KbGesture(g)
      PROVE  /\ master' \in Masters
             /\ UNCHANGED <<shown, switches, hosted, relayed>>
             /\ UNCHANGED <<confirmVars, clock, linkVars, chest, hostVars>>
  <2>1. shown.no \in 0 .. SeqMod - 1
    BY DEF Blocks
  <2>2. Instance(shown.no) \in 0 .. InstMod - 1
    BY <2>1 DEF Instance
  <2>3. master.number + 1 \in 0 .. MaxGestures
    BY <1>2 DEF KbGesture, Masters
  <2>4. master' = [master EXCEPT !.confirm = g, !.echo = Instance(shown.no),
                                 !.number = master.number + 1, !.about = shown.no]
    BY <1>2 DEF KbGesture
  <2>5. master' \in Masters
    BY <2>1, <2>2, <2>3, <2>4 DEF Masters
  <2>. QED
    BY <1>2, <2>5 DEF KbGesture, kbVars, histVars
<1>3. CASE KbRequest
  <2>1. master.req + 1 \in 0 .. MaxRequests
    BY <1>3 DEF KbRequest, Masters
  <2>2. master' \in Masters
    BY <1>3, <2>1 DEF KbRequest, Masters
  <2>. QED
    BY <1>3, <2>2 DEF KbRequest, kbVars, histVars
<1>4. ASSUME NEW w \in Modes, KbMode(w)
      PROVE  /\ master' \in Masters /\ switches' \in 0 .. MaxSwitches
             /\ UNCHANGED <<shown, hosted, relayed>>
             /\ UNCHANGED <<confirmVars, clock, linkVars, chest, hostVars>>
  <2>1. master' \in Masters
    BY <1>4 DEF KbMode, Masters
  <2>2. switches' \in 0 .. MaxSwitches
    BY <1>4 DEF KbMode
  <2>. QED
    BY <1>4, <2>1, <2>2 DEF KbMode, kbVars
<1>. QED
  BY <1>1, <1>2, <1>3, <1>4 DEF Keyboard

(* The types hold: every time stays within the modelled one, every copy of *)
(* an arming number within its width, and the latch within its states.     *)
LEMMA LinkTypeStep ==
    ASSUME LinkTypeOK, [LinkNext]_boardVars
    PROVE  LinkTypeOK'
<1>. USE ConfirmAssumption, LinkAssumption
<1>0. /\ SecConfirmTypeOK /\ clock \in 0 .. MaxMs /\ t \in 0 .. MaxMs
      /\ seen \in Blocks /\ chest \in Blocks /\ m \in Masters /\ master \in Masters
      /\ applied \in Modes /\ m.mode \in Modes /\ m.req \in 0 .. MaxRequests
      /\ m.number \in 0 .. MaxGestures /\ master.req \in 0 .. MaxRequests
  BY DEF LinkTypeOK, Masters
<1>1. ASSUME SecConfirmTypeOK',
             UNCHANGED <<clock, t, seen, chest, shown, m, master, lastReq, codeWait, mode, applied,
                         shutdown, hpc, deadline, hosted, switches, relayed>>,
             lpc' = lpc \/ lpc' \in {"top", "peek", "read", "clear", "verdict", "mode",
                                     "stopping", "request", "arm", "poll"}
      PROVE  LinkTypeOK'
  BY <1>1 DEF LinkTypeOK
<1>2. CASE Millisecond
  <2>1. SecConfirmTypeOK'
    BY <1>0, <1>2, LatchTyped DEF Millisecond
  <2>2. clock' \in 0 .. MaxMs
    BY <1>0, <1>2 DEF Millisecond
  <2>. QED
    BY <1>2, <2>1, <2>2 DEF Millisecond, LinkTypeOK, linkVars, kbVars, hostVars, histVars
<1>3. CASE Keyboard
  <2>1. /\ master' \in Masters /\ shown' \in Blocks /\ switches' \in 0 .. MaxSwitches
        /\ UNCHANGED <<confirmVars, clock, linkVars, chest, hostVars, hosted, relayed>>
    BY <1>3, KeyboardTyped
  <2>2. SecConfirmTypeOK'
    BY <1>0, <2>1, LatchTyped
  <2>. QED
    BY <2>1, <2>2 DEF LinkTypeOK, linkVars, hostVars
<1>4. CASE LinkTop
  <2>1. SecConfirmTypeOK' /\ t' \in 0 .. MaxMs /\ lpc' = "peek"
    BY <1>0, <1>4, LatchTyped DEF LinkTop
  <2>. QED
    BY <1>4, <2>1 DEF LinkTop, LinkTypeOK, kbVars, hostVars, histVars
<1>5. CASE LinkPeek
  <2>1. SecConfirmTypeOK' /\ lpc' = "read"
    BY <1>0, <1>5, LatchTyped DEF LinkPeek
  <2>2. seen' \in Blocks
    <3>1. op \in Ops \cup {NoOp} /\ seq \in 0 .. SeqMod - 1
      BY <1>0 DEF SecConfirmTypeOK
    <3>. QED
      BY <1>5, <3>1 DEF LinkPeek, Block, Blocks
  <2>. QED
    BY <1>5, <2>1, <2>2 DEF LinkPeek, LinkTypeOK, kbVars, hostVars, histVars
<1>6. CASE LinkRead
  <2>1. SecConfirmTypeOK'
    BY <1>0, <1>6, LatchTyped DEF LinkRead
  <2>2. lpc' \in {"request", "poll", "mode", "clear"}
    BY <1>6 DEF LinkRead, PastGesture, PastMode
  <2>3. m' \in Masters
    BY <1>0, <1>6, MasterTyped DEF LinkRead
  <2>. QED
    BY <1>6, <2>1, <2>2, <2>3 DEF LinkRead, LinkTypeOK, kbVars, hostVars, histVars
<1>7. CASE LinkClear
  <2>1. SecConfirmTypeOK' /\ lpc' = "verdict"
    BY <1>0, <1>7, LatchTyped DEF LinkClear
  <2>2. master' \in Masters
    BY <1>0, <1>7 DEF LinkClear, Masters
  <2>. QED
    BY <1>7, <2>1, <2>2 DEF LinkClear, LinkTypeOK, kbVars, hostVars, histVars
<1>8. CASE LinkVerdict
  <2>1. SecConfirmTypeOK' /\ relayed' \in 0 .. MaxGestures /\ UNCHANGED <<hosted, switches>>
    <3>1. relayed \in 0 .. MaxGestures
      BY DEF LinkTypeOK
    <3>2. Authorize(t) \/ Cancel(t) \/ UNCHANGED confirmVars
      BY <1>8 DEF LinkVerdict
    <3>3. SecConfirmTypeOK'
      BY <1>0, <3>2, LatchTyped
    <3>. QED
      BY <1>0, <1>8, <3>1, <3>3 DEF LinkVerdict, histVars
  <2>2. lpc' \in {"request", "poll", "mode"}
    BY <1>8 DEF LinkVerdict, PastGesture, PastMode
  <2>3. m' \in Masters
    BY <1>0, <1>8, MasterTyped DEF LinkVerdict
  <2>. QED
    BY <1>8, <2>1, <2>2, <2>3 DEF LinkVerdict, LinkTypeOK, kbVars, hostVars
<1>9. CASE LinkMode
  <2>1. SecConfirmTypeOK' /\ lpc' \in {"stopping", "request", "poll"}
    BY <1>0, <1>9, LatchTyped DEF LinkMode, PastMode
  <2>2. shutdown' \in BOOLEAN
    BY <1>9 DEF LinkMode, LinkTypeOK
  <2>. QED
    BY <1>9, <2>1, <2>2 DEF LinkMode, LinkTypeOK, kbVars, histVars
<1>10. CASE LinkSwitch
  <2>1. SecConfirmTypeOK'
    BY <1>0, <1>10, LatchTyped DEF LinkSwitch
  <2>2. lpc' \in {"request", "poll"}
    BY <1>10 DEF LinkSwitch, PastMode
  <2>3. /\ mode' \in Modes \cup {"NONE"} /\ applied' \in Modes
        /\ shutdown' \in BOOLEAN /\ hpc' \in {"idle", "wait"}
    BY <1>0, <1>10 DEF LinkSwitch, LinkTypeOK
  <2>. QED
    BY <1>10, <2>1, <2>2, <2>3 DEF LinkSwitch, LinkTypeOK, kbVars, histVars
<1>11. CASE LinkRequest
  <2>1. SecConfirmTypeOK' /\ lastReq' \in 0 .. MaxRequests
    BY <1>0, <1>11, LatchTyped DEF LinkRequest
  <2>2. lpc' \in {"arm", "poll"}
    BY <1>11 DEF LinkRequest
  <2>. QED
    BY <1>11, <2>1, <2>2 DEF LinkRequest, LinkTypeOK, kbVars, hostVars, histVars
<1>12. CASE LinkArm
  <2>1. Arm("E0", "CODE", t) /\ UNCHANGED <<hosted, switches, relayed>>
    BY <1>12 DEF LinkArm, ArmBy
  <2>2. SecConfirmTypeOK'
    BY <1>0, <2>1, LatchTyped
  <2>3. lpc' = "poll" /\ codeWait' = TRUE
    BY <1>12 DEF LinkArm
  <2>. QED
    BY <1>12, <2>1, <2>2, <2>3 DEF LinkArm, LinkTypeOK, kbVars, hostVars
<1>13. CASE LinkPoll
  <2>1. SecConfirmTypeOK'
    BY <1>0, <1>13, LatchTyped DEF LinkPoll
  <2>2. /\ lpc' = "top" /\ codeWait' \in BOOLEAN /\ t' = 0
        /\ UNCHANGED <<clock, lastReq, master, shown, mode, applied, shutdown, hpc,
                       deadline, hosted, switches, relayed>>
    BY <1>13 DEF LinkPoll, LinkPublish, LinkTypeOK, kbVars, hostVars, histVars
  <2>3. NoBlock \in Blocks
    BY DEF NoBlock, Block, Blocks
  <2>4. chest' \in Blocks
    <3>1. /\ seen.pending \in BOOLEAN /\ seen.op \in Ops \cup {NoOp}
          /\ seen.no \in 0 .. SeqMod - 1
      BY <1>0 DEF Blocks
    <3>2. chest' = Block(seen.pending, IF seen.pending THEN seen.op ELSE NoOp, seen.no)
      BY <1>13 DEF LinkPoll, LinkPublish
    <3>. QED
      BY <3>1, <3>2 DEF Block, Blocks
  <2>5. m' \in Masters /\ seen' \in Blocks
    BY <1>0, <1>13, <2>3, MasterTyped DEF LinkPoll, LinkPublish
  <2>. QED
    BY <2>1, <2>2, <2>4, <2>5 DEF LinkTypeOK
<1>14. CASE CcidArm \/ U2fArm
  <2>1. PICK s \in {"E0", "F0"} : Arm(s, "HOST", clock)
    BY <1>14 DEF CcidArm, U2fArm, ArmBy
  <2>2. SecConfirmTypeOK'
    BY <1>0, <2>1, LatchTyped
  <2>3. /\ hosted' = hosted + 1 /\ hosted < MaxHost /\ UNCHANGED <<switches, relayed>>
        /\ clock + Timeout =< MaxMs
    BY <1>14 DEF CcidArm, U2fArm, ArmBy, HostMayArm
  <2>4. hosted' \in 0 .. MaxHost
    BY <2>3 DEF LinkTypeOK
  <2>5. hpc' = "wait" /\ deadline' \in 0 .. MaxMs
    <3>1. clock + Timeout \in 0 .. MaxMs /\ deadline \in 0 .. MaxMs
      BY <1>0, <2>3 DEF LinkTypeOK
    <3>. QED
      BY <1>14, <3>1 DEF CcidArm, U2fArm
  <2>6. UNCHANGED <<clock, linkVars, master, chest, kbVars, mode, applied, shutdown>>
    BY <1>14 DEF CcidArm, U2fArm
  <2>. QED
    BY <2>2, <2>3, <2>4, <2>5, <2>6 DEF LinkTypeOK, linkVars, kbVars
<1>15. CASE CcidPoll \/ U2fPoll
  <2>1. Reset \/ Poll(clock)
    BY <1>15 DEF CcidPoll, U2fPoll
  <2>2. SecConfirmTypeOK'
    BY <1>0, <2>1, LatchTyped
  <2>3. hpc' \in {"idle", "wait"} /\ deadline' \in 0 .. MaxMs
    <3>1. Finish \/ UNCHANGED <<hpc, deadline>>
      BY <1>15 DEF CcidPoll, U2fPoll
    <3>. QED
      BY <3>1 DEF Finish, LinkTypeOK
  <2>4. UNCHANGED <<clock, linkVars, master, chest, kbVars, mode, applied, shutdown, histVars>>
    BY <1>15 DEF CcidPoll, U2fPoll
  <2>. QED
    BY <2>2, <2>3, <2>4 DEF LinkTypeOK, linkVars, kbVars, histVars
<1>16. CASE UNCHANGED boardVars
  <2>1. SecConfirmTypeOK'
    BY <1>0, <1>16, LatchTyped DEF boardVars
  <2>. QED
    BY <1>1, <1>16, <2>1 DEF boardVars, linkVars, kbVars, hostVars, histVars
<1>. QED
  BY <1>2, <1>3, <1>4, <1>5, <1>6, <1>7, <1>8, <1>9, <1>10, <1>11, <1>12, <1>13, <1>14, <1>15,
     <1>16 DEF LinkNext, LinkTask, Host

\* The board starts typed.
LEMMA LinkTypeInit ==
    ASSUME LinkInit
    PROVE  LinkTypeOK
<1>. USE ConfirmAssumption, LinkAssumption
<1>1. SecConfirmTypeOK
  BY DEF LinkInit, ConfirmInit, SecConfirmTypeOK, Millis
<1>2. NoBlock \in Blocks
  BY DEF NoBlock, Block, Blocks
<1>3. master \in Masters /\ m \in Masters /\ mode \in Modes /\ applied \in Modes
  BY DEF LinkInit, NoMaster, Masters
<1>4. /\ clock \in 0 .. MaxMs /\ t \in 0 .. MaxMs /\ deadline \in 0 .. MaxMs
      /\ lastReq \in 0 .. MaxRequests /\ hosted \in 0 .. MaxHost
      /\ switches \in 0 .. MaxSwitches /\ relayed \in 0 .. MaxGestures
  BY DEF LinkInit
<1>5. seen \in Blocks /\ chest \in Blocks /\ shown \in Blocks
  BY <1>2 DEF LinkInit
<1>6. lpc = "top" /\ hpc = "idle" /\ shutdown = FALSE /\ codeWait = FALSE
  BY DEF LinkInit
<1>. QED
  BY <1>1, <1>3, <1>4, <1>5, <1>6 DEF LinkTypeOK

(* Type correctness of the board: link_task's locals, the shared registers *)
(* and the latch, for every interleaving of its tasks.                     *)
THEOREM LinkTypeCorrect == LinkSpec => []LinkTypeOK
<1>1. LinkInit => LinkTypeOK
  BY LinkTypeInit
<1>2. LinkTypeOK /\ [LinkNext]_boardVars => LinkTypeOK'
  BY LinkTypeStep
<1>. QED
  BY <1>1, <1>2, PTL DEF LinkSpec
-----------------------------------------------------------------------------
(* A gesture is judged once: its byte is taken back first, so whatever is  *)
(* found there afterwards is a later one.                                  *)
GestureInv ==
    /\ relayed =< master.number
    /\ master.confirm # "none" => master.number > relayed
    /\ lpc \in {"clear", "verdict"} => m.number > relayed /\ m.number =< master.number
    /\ lpc = "verdict" /\ master.confirm # "none" => master.number > m.number

\* What the keyboard's steps do to its numbers.
LEMMA KeyboardEffect ==
    ASSUME LinkTypeOK, Keyboard
    PROVE  /\ \/ /\ master'.number = master.number + 1 /\ master'.confirm # "none"
                 /\ master'.about = shown.no /\ master'.echo = Instance(shown.no)
                 /\ master'.req = master.req /\ shown' = shown
              \/ /\ master'.number = master.number /\ master'.confirm = master.confirm
                 /\ master'.about = master.about /\ master'.echo = master.echo
                 /\ master'.req \in {master.req, master.req + 1}
                 /\ shown' \in {shown, chest}
           /\ UNCHANGED <<confirmVars, clock, linkVars, chest, hostVars, hosted, relayed>>
<1>1. master \in Masters
  BY DEF LinkTypeOK
<1>2. CASE KbShow
  BY <1>2 DEF KbShow, histVars
<1>3. ASSUME NEW g \in {"press", "cancel"}, KbGesture(g)
      PROVE  /\ master'.number = master.number + 1 /\ master'.confirm # "none"
             /\ master'.about = shown.no /\ master'.echo = Instance(shown.no)
             /\ master'.req = master.req /\ shown' = shown
             /\ UNCHANGED <<confirmVars, clock, linkVars, chest, hostVars, hosted, relayed>>
  <2>1. master' = [master EXCEPT !.confirm = g, !.echo = Instance(shown.no),
                                 !.number = master.number + 1, !.about = shown.no]
    BY <1>3 DEF KbGesture
  <2>. HIDE DEF Instance
  <2>2. /\ master'.number = master.number + 1 /\ master'.confirm = g
        /\ master'.about = shown.no /\ master'.echo = Instance(shown.no)
        /\ master'.req = master.req
    BY <1>1, <2>1 DEF Masters
  <2>. QED
    BY <1>3, <2>2 DEF KbGesture, kbVars, histVars
<1>4. CASE KbRequest
  BY <1>1, <1>4 DEF KbRequest, Masters, kbVars, histVars
<1>5. ASSUME NEW w \in Modes, KbMode(w)
      PROVE  /\ master'.number = master.number /\ master'.confirm = master.confirm
             /\ master'.about = master.about /\ master'.echo = master.echo
             /\ master'.req = master.req /\ shown' = shown
             /\ UNCHANGED <<confirmVars, clock, linkVars, chest, hostVars, hosted, relayed>>
  BY <1>1, <1>5 DEF KbMode, Masters, kbVars
<1>. QED
  BY <1>2, <1>3, <1>4, <1>5 DEF Keyboard

\* Taking the byte back leaves the rest; what a turn keeps of the keyboard's
\* half; and where it goes on.
LEMMA ClearEffect ==
    ASSUME LinkTypeOK, LinkClear
    PROVE  /\ master'.confirm = "none" /\ master'.number = master.number
           /\ master'.req = master.req /\ master'.about = master.about
           /\ master'.echo = master.echo
  BY DEF LinkTypeOK, LinkClear, Masters

LEMMA JudgedEffect ==
    ASSUME NEW w \in Masters
    PROVE  /\ Judged(w).req = w.req /\ Judged(w).about = 0 /\ Judged(w).echo = 0
           /\ PastGesture(w) \in {"mode", "request", "poll"}
           /\ PastMode(w) \in {"request", "poll"}
           /\ PastGesture(w) = "request" \/ PastMode(w) = "request" => w.req # lastReq
  BY DEF Judged, NoMaster, Masters, PastGesture, PastMode

(* A gesture is read before its byte is taken back, and judged after: what *)
(* the keyboard writes in between has a later number.                      *)
LEMMA GestureStep ==
    ASSUME LinkTypeOK, GestureInv, [LinkNext]_boardVars
    PROVE  GestureInv'
<1>0. /\ m \in Masters /\ master \in Masters /\ m.number \in Nat /\ master.number \in Nat
      /\ relayed \in Nat
  BY LinkAssumption DEF LinkTypeOK, Masters
<1>1. ASSUME UNCHANGED <<relayed, master>>,
             UNCHANGED <<lpc, m>> \/ lpc' \notin {"clear", "verdict"}
      PROVE  GestureInv'
  BY <1>1 DEF GestureInv
<1>2. CASE Keyboard
  <2>1. /\ \/ master'.number = master.number + 1
           \/ master'.number = master.number /\ master'.confirm = master.confirm
        /\ UNCHANGED <<lpc, m, relayed>>
    BY <1>2, KeyboardEffect DEF linkVars
  <2>. QED
    BY <1>0, <2>1 DEF GestureInv
<1>3. CASE LinkRead
  <2>1. /\ UNCHANGED <<relayed, master>>
        /\ \/ lpc' \notin {"clear", "verdict"}
           \/ lpc' = "clear" /\ m' = master /\ master.confirm # "none"
    BY <1>0, <1>3, JudgedEffect DEF LinkRead, histVars
  <2>. QED
    BY <1>0, <1>1, <2>1 DEF GestureInv
<1>4. CASE LinkClear
  <2>1. lpc = "clear" /\ lpc' = "verdict" /\ UNCHANGED <<m, relayed>>
    BY <1>4 DEF LinkClear, histVars
  <2>. QED
    BY <1>4, <2>1, ClearEffect DEF GestureInv
<1>5. CASE LinkVerdict
  <2>1. /\ lpc = "verdict" /\ lpc' \notin {"clear", "verdict"} /\ UNCHANGED master
        /\ relayed' \in {relayed, m.number}
    BY <1>0, <1>5, JudgedEffect DEF LinkVerdict, histVars
  <2>. QED
    BY <1>0, <2>1 DEF GestureInv
<1>6. CASE LinkTop \/ LinkPeek \/ LinkMode \/ LinkSwitch \/ LinkRequest \/ LinkArm \/ LinkPoll
  <2>1. UNCHANGED <<relayed, master>>
    BY <1>6 DEF LinkTop, LinkPeek, LinkMode, LinkSwitch, LinkRequest, LinkArm, ArmBy, LinkPoll,
       LinkPublish, histVars
  <2>2. lpc' \notin {"clear", "verdict"}
    BY <1>6 DEF LinkTop, LinkPeek, LinkMode, LinkSwitch, PastMode, LinkRequest, LinkArm, LinkPoll
  <2>. QED
    BY <1>1, <2>1, <2>2
<1>7. CASE Millisecond \/ Host \/ UNCHANGED boardVars
  <2>1. UNCHANGED <<relayed, master, lpc, m>>
    BY <1>7 DEF Millisecond, Host, CcidArm, CcidPoll, U2fArm, U2fPoll, ArmBy, boardVars, linkVars,
       histVars
  <2>. QED
    BY <1>1, <2>1
<1>. QED
  BY <1>2, <1>3, <1>4, <1>5, <1>6, <1>7 DEF LinkNext, LinkTask

(* A gesture is relayed once at most, and never one older than another     *)
(* that has been (drain_user_confirm()): for any interleaving of the       *)
(* keyboard's writes with the two accesses of link_task.                   *)
THEOREM GestureRelayedOnce == LinkSpec => OneGestureOneRelay
<1>1. LinkInit => GestureInv
  BY DEF LinkInit, GestureInv, NoMaster
<1>2. LinkTypeOK /\ GestureInv /\ [LinkNext]_boardVars => GestureInv'
  BY GestureStep
<1>3. GestureInv
        => [LinkVerdict /\ EchoMatches /\ m.confirm = "press" => m.number > relayed]_boardVars
  BY DEF GestureInv, LinkVerdict
<1>. QED
  BY <1>1, <1>2, <1>3, LinkTypeCorrect, PTL DEF LinkSpec, OneGestureOneRelay
-----------------------------------------------------------------------------
(* Whose operation is armed: the worker's and the link's slots differ, and *)
(* U2F's, which is the link's too, does not survive its mode.              *)
OwnInv ==
    state # "IDLE" => \/ slot = "F0" /\ op = "HOST"
                      \/ slot = "E0" /\ op = "CODE"
                      \/ slot = "E0" /\ op = "HOST" /\ mode # "CCID"

\* What is armed keeps its owner until another is armed.
LEMMA OwnStep ==
    ASSUME OwnInv, [LinkNext]_boardVars
    PROVE  OwnInv'
<1>1. ASSUME state' = "IDLE" \/ (state # "IDLE" /\ UNCHANGED <<slot, op>>), UNCHANGED mode
      PROVE  OwnInv'
  BY <1>1 DEF OwnInv
<1>2. CASE Millisecond \/ Keyboard \/ LinkTop \/ LinkPeek \/ LinkRead \/ LinkClear \/ LinkMode
           \/ LinkRequest \/ UNCHANGED boardVars
  <2>1. UNCHANGED <<confirmVars, mode>>
    BY <1>2 DEF Millisecond, Keyboard, KbShow, KbGesture, KbRequest, KbMode, LinkTop, LinkPeek,
       LinkRead, LinkClear, LinkMode, LinkRequest, boardVars, hostVars
  <2>. QED
    BY <2>1 DEF OwnInv, confirmVars
<1>3. CASE LinkVerdict
  <2>1. /\ UNCHANGED <<slot, op, mode>>
        /\ state = "IDLE" => state' = "IDLE"
    BY <1>3 DEF LinkVerdict, Cancel, Authorize, Accepts, confirmVars, hostVars
  <2>. QED
    BY <2>1 DEF OwnInv
<1>4. CASE LinkSwitch
  <2>1. state' = "IDLE" \/ UNCHANGED <<state, slot, op, mode>>
    BY <1>4 DEF LinkSwitch, Reset, confirmVars
  <2>. QED
    BY <2>1 DEF OwnInv
<1>5. CASE LinkArm
  BY <1>5 DEF LinkArm, ArmBy, Arm, OwnInv
<1>6. CASE LinkPoll \/ CcidPoll \/ U2fPoll
  <2>1. UNCHANGED mode
    BY <1>6 DEF LinkPoll, CcidPoll, U2fPoll, hostVars
  <2>2. state' = "IDLE" \/ UNCHANGED <<state, op, slot>>
    BY <1>6 DEF LinkPoll, CcidPoll, U2fPoll, Poll, Reset, confirmVars
  <2>. QED
    BY <2>1, <2>2 DEF OwnInv
<1>7. CASE CcidArm
  BY <1>7 DEF CcidArm, ArmBy, Arm, OwnInv
<1>8. CASE U2fArm
  BY <1>8 DEF U2fArm, ArmBy, Arm, OwnInv
<1>. QED
  BY <1>2, <1>3, <1>4, <1>5, <1>6, <1>7, <1>8 DEF LinkNext, LinkTask, Host

(* While the CCID worker is the host's consumer, each side uses only the   *)
(* grants of operations it armed itself, whatever was armed before the     *)
(* switch into its mode (service_pending_code(), dongle_confirm_named()).  *)
THEOREM GrantsOwned == LinkSpec => GrantsAreOwn
<1>1. LinkInit => OwnInv
  BY DEF LinkInit, ConfirmInit, OwnInv
<1>2. OwnInv /\ [LinkNext]_boardVars => OwnInv'
  BY OwnStep
<1>3. OwnInv => [/\ LinkPoll /\ ServesCode /\ mode = "CCID" => op = "CODE"
                 /\ CcidPoll /\ ~CcidStop /\ CcidGranted => op = "HOST"]_boardVars
  <2>1. ASSUME OwnInv, ServesCode, mode = "CCID" PROVE op = "CODE"
    BY <2>1 DEF OwnInv, ServesCode, PollResult, Peek
  <2>2. ASSUME OwnInv, CcidGranted PROVE op = "HOST"
    BY <2>2 DEF OwnInv, CcidGranted, PollResult, Peek
  <2>. QED
    BY <2>1, <2>2
<1>. QED
  BY <1>1, <1>2, <1>3, PTL DEF LinkSpec, GrantsAreOwn
-----------------------------------------------------------------------------
(* Every arming has its number, and no copy of one runs ahead of it.       *)
CountInv ==
    /\ seq =< hosted + lastReq
    /\ lpc = "arm" => seq < hosted + lastReq
    /\ lastReq =< master.req
    /\ lpc \in {"clear", "verdict", "mode", "stopping", "request"} => lastReq =< m.req
    /\ lpc = "request" => m.req # lastReq
    /\ m.req =< master.req

EchoInv ==
    /\ seen.no =< seq /\ chest.no =< seq /\ shown.no =< seq
    /\ master.about =< seq /\ m.about =< seq
    /\ master.echo = Instance(master.about) /\ m.echo = Instance(m.about)

(* What has been armed since link_task looked was armed in its turn.       *)
TurnInv ==
    /\ t =< clock
    /\ lpc \in {"read", "clear", "verdict"} /\ state = "PENDING" /\ seq # seen.no
         => t =< armedMs /\ armedMs =< clock

\* The numbers are natural numbers, of any board that is typed.
LEMMA NumbersTyped ==
    ASSUME LinkTypeOK
    PROVE  /\ seq \in Nat /\ hosted \in 0 .. MaxHost /\ lastReq \in 0 .. MaxRequests
           /\ m.req \in 0 .. MaxRequests /\ master.req \in 0 .. MaxRequests
           /\ seen.no \in Nat /\ chest.no \in Nat /\ shown.no \in Nat
           /\ m.about \in Nat /\ master.about \in Nat
           /\ m \in Masters /\ master \in Masters
           /\ clock \in 0 .. MaxMs /\ t \in 0 .. MaxMs /\ armedMs \in 0 .. ClockMod - 1
           /\ MaxHost \in Nat /\ MaxRequests \in Nat /\ MaxHost + MaxRequests < SeqMod
  BY ConfirmAssumption, LinkAssumption
     DEF LinkTypeOK, SecConfirmTypeOK, Masters, Blocks, Millis

\* The arming number never wraps in the modelled operations: it counts them.
LEMMA ArmCounts ==
    ASSUME LinkTypeOK, NEW s, NEW o, NEW now, Arm(s, o, now),
           seq < MaxHost + MaxRequests
    PROVE  seq' = seq + 1 /\ state' = "PENDING" /\ armedMs' = now
<1>1. seq \in Nat /\ seq + 1 # SeqMod
  BY NumbersTyped, ConfirmAssumption
<1>. QED
  BY <1>1 DEF Arm, NextSeq

\* Which steps leave the number alone, and what the two that arm do.
LEMMA SeqKept ==
    ASSUME \/ Millisecond \/ Keyboard \/ LinkTop \/ LinkPeek \/ LinkRead \/ LinkClear
           \/ LinkVerdict \/ LinkMode \/ LinkSwitch \/ LinkRequest \/ LinkPoll
           \/ CcidPoll \/ U2fPoll \/ UNCHANGED boardVars
    PROVE  UNCHANGED <<seq, hosted>>
<1>1. CASE Millisecond \/ Keyboard \/ LinkTop \/ LinkPeek \/ LinkRead \/ LinkClear
           \/ LinkMode \/ LinkRequest \/ UNCHANGED boardVars
  BY <1>1 DEF Millisecond, Keyboard, KbShow, KbGesture, KbRequest, KbMode, LinkTop, LinkPeek,
     LinkRead, LinkClear, LinkMode, LinkRequest, boardVars, histVars, confirmVars
<1>2. CASE LinkVerdict
  BY <1>2 DEF LinkVerdict, Cancel, Authorize, confirmVars, histVars
<1>3. CASE LinkSwitch
  BY <1>3 DEF LinkSwitch, Reset, confirmVars, histVars
<1>4. CASE LinkPoll \/ CcidPoll \/ U2fPoll
  BY <1>4 DEF LinkPoll, CcidPoll, U2fPoll, Poll, Reset, confirmVars, histVars
<1>. QED
  BY <1>1, <1>2, <1>3, <1>4

LEMMA ArmStep ==
    ASSUME LinkTypeOK, CountInv
    PROVE  /\ LinkArm => /\ seq' = seq + 1 /\ UNCHANGED <<hosted, lastReq>>
                         /\ lpc = "arm" /\ lpc' = "poll"
                         /\ UNCHANGED <<clock, t, seen, m, master, chest, shown>>
           /\ CcidArm \/ U2fArm
                => /\ seq' = seq + 1 /\ hosted' = hosted + 1
                   /\ state' = "PENDING" /\ armedMs' = clock
                   /\ UNCHANGED <<clock, linkVars, master, chest, shown>>
<1>1. CASE LinkArm
  <2>1. Arm("E0", "CODE", t) /\ UNCHANGED hosted /\ lpc = "arm"
    BY <1>1 DEF LinkArm, ArmBy
  <2>2. seq < MaxHost + MaxRequests
    BY <2>1, NumbersTyped DEF CountInv
  <2>3. seq' = seq + 1
    BY <2>1, <2>2, ArmCounts
  <2>. QED
    BY <1>1, <2>1, <2>3 DEF LinkArm, CcidArm, U2fArm, ArmBy, kbVars
<1>2. CASE CcidArm \/ U2fArm
  <2>1. PICK s : Arm(s, "HOST", clock) /\ hosted' = hosted + 1 /\ hosted < MaxHost
    BY <1>2 DEF CcidArm, U2fArm, ArmBy, HostMayArm
  <2>2. seq < MaxHost + MaxRequests
    BY <2>1, NumbersTyped DEF CountInv
  <2>3. seq' = seq + 1 /\ state' = "PENDING" /\ armedMs' = clock
    BY <2>1, <2>2, ArmCounts
  <2>4. UNCHANGED <<clock, linkVars, master, chest, kbVars>>
    BY <1>2 DEF CcidArm, U2fArm
  <2>5. ~LinkArm \/ (UNCHANGED lpc /\ LinkArm)
    BY <2>4 DEF linkVars
  <2>. QED
    BY <2>1, <2>3, <2>4, <2>5, <1>1 DEF kbVars
<1>. QED
  BY <1>1, <1>2

\* Every operation that is armed was asked for.
LEMMA CountStep ==
    ASSUME LinkTypeOK, CountInv, [LinkNext]_boardVars
    PROVE  CountInv'
<1>. USE NumbersTyped
<1>0. /\ seq \in Nat /\ hosted \in Nat /\ lastReq \in Nat /\ m.req \in Nat
      /\ master.req \in Nat
  OBVIOUS
<1>1. ASSUME UNCHANGED <<seq, hosted, lastReq, m, master>>,
             lpc' = lpc \/ lpc' \in {"top", "peek", "read", "poll"}
      PROVE  CountInv'
  BY <1>0, <1>1 DEF CountInv
<1>2. CASE Keyboard
  <2>1. /\ master'.req \in {master.req, master.req + 1}
        /\ UNCHANGED <<seq, hosted, lastReq, m, lpc>>
    BY <1>2, KeyboardEffect, SeqKept DEF linkVars
  <2>. QED
    BY <1>0, <2>1 DEF CountInv
<1>3. CASE Millisecond \/ LinkTop \/ LinkPeek \/ CcidPoll \/ U2fPoll \/ UNCHANGED boardVars
  <2>1. UNCHANGED <<lastReq, m, master>>
    BY <1>3 DEF Millisecond, LinkTop, LinkPeek, CcidPoll, U2fPoll, boardVars, linkVars
  <2>2. lpc' = lpc \/ lpc' \in {"peek", "read"}
    BY <1>3 DEF Millisecond, LinkTop, LinkPeek, CcidPoll, U2fPoll, boardVars, linkVars
  <2>. QED
    BY <1>1, <1>3, <2>1, <2>2, SeqKept
<1>4. CASE LinkRead
  <2>1. UNCHANGED <<seq, hosted, lastReq, master>>
    BY <1>4, SeqKept DEF LinkRead
  <2>2. /\ m' \in {master, Judged(master)}
        /\ lpc' \in {"clear", PastGesture(master)}
    BY <1>4 DEF LinkRead
  <2>3. /\ m'.req = master.req /\ lpc' # "arm"
        /\ lpc' = "request" => m'.req # lastReq
    BY <2>2, JudgedEffect
  <2>. QED
    BY <1>0, <2>1, <2>3 DEF CountInv
<1>5. CASE LinkClear
  <2>1. UNCHANGED <<seq, hosted, lastReq, m>> /\ lpc = "clear" /\ lpc' = "verdict"
    BY <1>5, SeqKept DEF LinkClear
  <2>2. master'.req = master.req
    BY <1>5, ClearEffect
  <2>. QED
    BY <1>0, <2>1, <2>2 DEF CountInv
<1>6. CASE LinkVerdict
  <2>1. UNCHANGED <<seq, hosted, lastReq, master>> /\ lpc = "verdict"
    BY <1>6, SeqKept DEF LinkVerdict
  <2>2. m' = Judged(m) /\ lpc' = PastGesture(m)
    BY <1>6 DEF LinkVerdict
  <2>3. /\ m'.req = m.req /\ lpc' # "arm"
        /\ lpc' = "request" => m'.req # lastReq
    BY <2>2, JudgedEffect
  <2>. QED
    BY <1>0, <2>1, <2>3 DEF CountInv
<1>7. CASE LinkMode \/ LinkSwitch
  <2>1. UNCHANGED <<seq, hosted, lastReq, master, m>> /\ lpc \in {"mode", "stopping"}
    BY <1>7, SeqKept DEF LinkMode, LinkSwitch
  <2>2. lpc' \in {"stopping", PastMode(m)}
    BY <1>7 DEF LinkMode, LinkSwitch
  <2>3. lpc' # "arm" /\ (lpc' = "request" => m.req # lastReq)
    BY <2>2, JudgedEffect
  <2>. QED
    BY <1>0, <2>1, <2>3 DEF CountInv
<1>8. CASE LinkRequest
  <2>1. /\ UNCHANGED <<seq, hosted, master, m>> /\ lpc = "request"
        /\ lastReq' = m.req /\ lpc' \in {"arm", "poll"}
    BY <1>8, SeqKept DEF LinkRequest
  <2>2. lastReq < m.req /\ m.req =< master.req /\ seq =< hosted + lastReq
    BY <1>0, <2>1 DEF CountInv
  <2>. QED
    BY <1>0, <2>1, <2>2 DEF CountInv
<1>9. CASE LinkArm
  <2>1. /\ seq' = seq + 1 /\ UNCHANGED <<hosted, lastReq, m, master>>
        /\ lpc = "arm" /\ lpc' = "poll"
    BY <1>9, ArmStep
  <2>. QED
    BY <1>0, <2>1 DEF CountInv
<1>10. CASE LinkPoll
  <2>1. UNCHANGED <<seq, hosted, lastReq, master>> /\ lpc' = "top" /\ m' = NoMaster(applied)
    BY <1>10, SeqKept DEF LinkPoll, LinkPublish
  <2>2. m'.req = 0
    BY <2>1 DEF NoMaster
  <2>. QED
    BY <1>0, <2>1, <2>2 DEF CountInv
<1>11. CASE CcidArm \/ U2fArm
  <2>1. seq' = seq + 1 /\ hosted' = hosted + 1 /\ UNCHANGED <<lpc, lastReq, m, master>>
    BY <1>11, ArmStep DEF linkVars
  <2>. QED
    BY <1>0, <2>1 DEF CountInv
<1>. QED
  BY <1>2, <1>3, <1>4, <1>5, <1>6, <1>7, <1>8, <1>9, <1>10, <1>11 DEF LinkNext, LinkTask, Host

(* The number that is shown, echoed and read is one that was published     *)
(* before, and the echo is its low byte.                                   *)
LEMMA EchoStep ==
    ASSUME LinkTypeOK, CountInv, EchoInv, [LinkNext]_boardVars
    PROVE  EchoInv'
<1>. USE NumbersTyped
<1>0. /\ seq \in Nat /\ seen.no \in Nat /\ chest.no \in Nat /\ shown.no \in Nat
      /\ m.about \in Nat /\ master.about \in Nat
  OBVIOUS
<1>1. ASSUME UNCHANGED <<seen, chest, shown, m, master>>, seq' \in {seq, seq + 1}
      PROVE  EchoInv'
  BY <1>0, <1>1 DEF EchoInv
<1>2. Instance(0) = 0
  BY LinkAssumption DEF Instance
<1>. HIDE DEF Instance
<1>3. CASE Keyboard
  <2>1. UNCHANGED <<seq, seen, chest, m>> /\ shown' \in {shown, chest}
    BY <1>3, KeyboardEffect, SeqKept DEF linkVars
  <2>2. \/ master'.about = shown.no /\ master'.echo = Instance(shown.no)
        \/ master'.about = master.about /\ master'.echo = master.echo
    BY <1>3, KeyboardEffect
  <2>3. master'.about =< seq' /\ master'.echo = Instance(master'.about)
    BY <1>0, <2>1, <2>2 DEF EchoInv
  <2>. QED
    BY <2>1, <2>3 DEF EchoInv
<1>4. CASE LinkPeek
  <2>1. UNCHANGED <<seq, chest, shown, m, master>> /\ seen' = Block(Peek(t) = "PENDING", op, seq)
    BY <1>4, SeqKept DEF LinkPeek, kbVars
  <2>2. seen'.no = seq
    BY <2>1 DEF Block
  <2>. QED
    BY <1>0, <2>1, <2>2 DEF EchoInv
<1>5. ASSUME UNCHANGED <<seq, seen, chest, shown, master>>, m' \in {master, Judged(master), Judged(m)}
      PROVE  EchoInv'
  <2>1. \/ m'.about = master.about /\ m'.echo = master.echo
        \/ m'.about = 0 /\ m'.echo = 0
    BY <1>5, JudgedEffect
  <2>. QED
    BY <1>0, <1>2, <1>5, <2>1 DEF EchoInv
<1>6. CASE LinkRead
  BY <1>5, <1>6, SeqKept DEF LinkRead, kbVars
<1>7. CASE LinkVerdict
  BY <1>5, <1>7, SeqKept DEF LinkVerdict, kbVars
<1>8. CASE LinkClear
  <2>1. UNCHANGED <<seq, seen, chest, shown, m>>
    BY <1>8, SeqKept DEF LinkClear, kbVars
  <2>2. master'.about = master.about /\ master'.echo = master.echo
    BY <1>8, ClearEffect
  <2>. QED
    BY <2>1, <2>2 DEF EchoInv
<1>9. CASE LinkPoll
  <2>1. /\ UNCHANGED <<seq, shown, master>> /\ seen' = NoBlock /\ m' = NoMaster(applied)
        /\ chest' = Block(seen.pending, IF seen.pending THEN seen.op ELSE NoOp, seen.no)
    BY <1>9, SeqKept DEF LinkPoll, LinkPublish, kbVars
  <2>2. seen'.no = 0 /\ chest'.no = seen.no /\ m'.about = 0 /\ m'.echo = 0
    BY <2>1 DEF Block, NoBlock, NoMaster
  <2>. QED
    BY <1>0, <1>2, <2>1, <2>2 DEF EchoInv
<1>10. CASE LinkArm
  <2>1. seq' = seq + 1 /\ UNCHANGED <<seen, m, master, chest, shown>>
    BY <1>10, ArmStep
  <2>. QED
    BY <1>1, <2>1
<1>11. CASE CcidArm \/ U2fArm
  <2>1. seq' = seq + 1 /\ UNCHANGED <<seen, m, master, chest, shown>>
    BY <1>11, ArmStep DEF linkVars
  <2>. QED
    BY <1>1, <2>1
<1>12. CASE Millisecond \/ LinkTop \/ LinkMode \/ LinkSwitch \/ LinkRequest \/ CcidPoll \/ U2fPoll
            \/ UNCHANGED boardVars
  <2>1. UNCHANGED <<seen, chest, shown, m, master>>
    BY <1>12 DEF Millisecond, LinkTop, LinkMode, LinkSwitch, LinkRequest, CcidPoll, U2fPoll,
       boardVars, linkVars, kbVars
  <2>. QED
    BY <1>1, <1>12, <2>1, SeqKept
<1>. QED
  BY <1>3, <1>4, <1>6, <1>7, <1>8, <1>9, <1>10, <1>11, <1>12 DEF LinkNext, LinkTask, Host

(* Between its look and its verdict link_task arms nothing: another task   *)
(* that does has read the clock after it.                                  *)
LEMMA TurnStep ==
    ASSUME LinkTypeOK, CountInv, TurnInv, [LinkNext]_boardVars
    PROVE  TurnInv'
<1>0. clock \in Nat /\ t \in Nat /\ armedMs \in Nat
  BY NumbersTyped, ConfirmAssumption
<1>1. ASSUME UNCHANGED <<clock, t, seen>>,
             lpc' = lpc \/ lpc' \notin {"read", "clear", "verdict"} \/ lpc \in {"read", "clear"},
             UNCHANGED <<seq, state, armedMs>> \/ (UNCHANGED seq /\ state' # "PENDING")
      PROVE  TurnInv'
  BY <1>1 DEF TurnInv
<1>2. ASSUME t' =< clock', lpc' \notin {"read", "clear", "verdict"} PROVE TurnInv'
  BY <1>2 DEF TurnInv
<1>3. CASE Millisecond
  <2>1. clock' = clock + 1 /\ UNCHANGED <<confirmVars, lpc, t, seen>>
    BY <1>3 DEF Millisecond, linkVars
  <2>. QED
    BY <1>0, <2>1 DEF TurnInv, confirmVars
<1>4. CASE Keyboard
  BY <1>1, <1>4, KeyboardEffect DEF linkVars, confirmVars
<1>5. CASE LinkTop
  BY <1>0, <1>2, <1>5 DEF LinkTop
<1>6. CASE LinkPeek
  <2>1. /\ UNCHANGED <<clock, t, seq>>
        /\ seen' = Block(Peek(t) = "PENDING", op, seq)
    BY <1>6 DEF LinkPeek, confirmVars
  <2>2. seen'.no = seq'
    BY <2>1 DEF Block
  <2>. QED
    BY <2>1, <2>2 DEF TurnInv
<1>7. CASE LinkRead \/ LinkClear
  BY <1>1, <1>7 DEF LinkRead, LinkClear, confirmVars
<1>8. CASE LinkVerdict
  <2>1. lpc' \notin {"read", "clear", "verdict"} /\ UNCHANGED <<clock, t>>
    BY <1>8, JudgedEffect, NumbersTyped DEF LinkVerdict
  <2>. QED
    BY <1>2, <2>1 DEF TurnInv
<1>9. CASE LinkMode \/ LinkSwitch \/ LinkRequest \/ LinkArm
  <2>1. lpc' \notin {"read", "clear", "verdict"} /\ UNCHANGED <<clock, t>>
    BY <1>9, JudgedEffect, NumbersTyped DEF LinkMode, LinkSwitch, LinkRequest, LinkArm
  <2>. QED
    BY <1>2, <2>1 DEF TurnInv
<1>10. CASE LinkPoll
  <2>1. lpc' = "top" /\ t' = 0 /\ UNCHANGED clock
    BY <1>10 DEF LinkPoll, LinkPublish
  <2>. QED
    BY <1>0, <1>2, <2>1
<1>11. CASE CcidArm \/ U2fArm
  <2>1. armedMs' = clock /\ UNCHANGED <<clock, t, lpc>>
    BY <1>11, ArmStep DEF linkVars
  <2>. QED
    BY <1>0, <2>1 DEF TurnInv
<1>12. CASE CcidPoll \/ U2fPoll
  <2>1. /\ UNCHANGED <<clock, t, seen, lpc>>
        /\ UNCHANGED <<seq, state, armedMs>> \/ (UNCHANGED seq /\ state' # "PENDING")
    BY <1>12 DEF CcidPoll, U2fPoll, Poll, Reset, linkVars
  <2>. QED
    BY <1>1, <2>1
<1>13. CASE UNCHANGED boardVars
  BY <1>1, <1>13 DEF boardVars, linkVars, confirmVars
<1>. QED
  BY <1>3, <1>4, <1>5, <1>6, <1>7, <1>8, <1>9, <1>10, <1>11, <1>12, <1>13
     DEF LinkNext, LinkTask, Host

\* An operation armed later than a time looks expired to it.
LEMMA LaterIsExpired ==
    ASSUME LinkTypeOK, t =< armedMs, armedMs =< clock, ~Expired(t)
    PROVE  armedMs = t
<1>1. clock \in 0 .. MaxMs /\ t \in 0 .. MaxMs /\ armedMs \in Nat
  BY NumbersTyped, ConfirmAssumption
<1>2. CASE t < armedMs
  <2>1. Minus(t, armedMs) = (t + ClockMod) - armedMs
    BY <1>1, <1>2, ConfirmAssumption DEF Minus
  <2>2. Minus(t, armedMs) >= Timeout
    BY <1>1, <2>1, ConfirmAssumption, LinkAssumption
  <2>. QED
    BY <2>2 DEF Expired
<1>. QED
  BY <1>1, <1>2

\* Fewer numbers than instances: an instance is its number.
LEMMA InstanceIsNumber ==
    ASSUME NEW n \in Nat, n < InstMod
    PROVE  Instance(n) = n
  BY LinkAssumption DEF Instance

(* A press slips to another operation than the one it was made for only if *)
(* that one was armed by another task in the same millisecond, after       *)
(* link_task looked: as long as an instance names one operation, which it  *)
(* does for 256 of them (drain_user_confirm(), sec_confirm_authorize()).   *)
THEOREM SlipIsNarrow ==
    ASSUME MaxHost + MaxRequests < InstMod
    PROVE  LinkSpec => SlipNeedsSameMs
<1>. DEFINE Inv == LinkTypeOK /\ CountInv /\ EchoInv /\ TurnInv
<1>1. LinkInit => CountInv /\ EchoInv /\ TurnInv
  <2>. SUFFICES ASSUME LinkInit PROVE CountInv /\ EchoInv /\ TurnInv
    OBVIOUS
  <2>1. /\ seq = 0 /\ hosted = 0 /\ lastReq = 0 /\ lpc = "top" /\ t = 0 /\ clock = 0
        /\ seen.no = 0 /\ chest.no = 0 /\ shown.no = 0
        /\ m.req = 0 /\ m.about = 0 /\ m.echo = 0
        /\ master.req = 0 /\ master.about = 0 /\ master.echo = 0
    BY DEF LinkInit, ConfirmInit, NoBlock, Block, NoMaster
  <2>2. Instance(0) = 0
    BY LinkAssumption DEF Instance
  <2>. QED
    BY <2>1, <2>2 DEF CountInv, EchoInv, TurnInv
<1>2. LinkInit => Inv
  <2>1. LinkInit => LinkTypeOK
    BY LinkTypeInit
  <2>. QED
    BY <1>1, <2>1
<1>3. Inv /\ [LinkNext]_boardVars => Inv'
  BY LinkTypeStep, CountStep, EchoStep, TurnStep
<1>4. Inv /\ [LinkNext]_boardVars
        => [state' = "AUTHORIZED" /\ state # "AUTHORIZED" /\ m.about # seq
              => armedMs = t /\ seq # seen.no]_boardVars
  <2>. SUFFICES ASSUME Inv, [LinkNext]_boardVars, state' = "AUTHORIZED", state # "AUTHORIZED",
                       m.about # seq
                PROVE  armedMs = t /\ seq # seen.no
    OBVIOUS
  <2>1. LinkVerdict /\ EchoMatches /\ Authorize(t)
    BY DEF LinkNext, Millisecond, Keyboard, KbShow, KbGesture, KbRequest, KbMode, LinkTask, LinkTop,
       LinkPeek, LinkRead, LinkClear, LinkVerdict, LinkMode, LinkSwitch, LinkRequest, LinkArm,
       LinkPoll, Host, CcidArm, CcidPoll, U2fArm, U2fPoll, ArmBy, Arm, Cancel, Poll, Reset,
       boardVars, confirmVars
  <2>2. state = "PENDING" /\ ~Expired(t)
    BY <2>1 DEF Authorize, Accepts
  <2>3. /\ m.about \in Nat /\ seen.no \in Nat /\ m.about < InstMod /\ seen.no < InstMod
    <3>1. /\ seq \in Nat /\ hosted \in 0 .. MaxHost /\ lastReq \in 0 .. MaxRequests
          /\ seen.no \in Nat /\ m.about \in Nat
      BY NumbersTyped
    <3>2. seq =< hosted + lastReq /\ seen.no =< seq /\ m.about =< seq
      BY DEF CountInv, EchoInv
    <3>3. seq < InstMod
      BY <3>1, <3>2, LinkAssumption
    <3>. QED
      BY <3>1, <3>2, <3>3, LinkAssumption
  <2>4. m.about = seen.no
    <3>1. Instance(m.about) = Instance(seen.no)
      BY <2>1 DEF EchoMatches, EchoInv
    <3>. QED
      BY <2>3, <3>1, InstanceIsNumber
  <2>5. t =< armedMs /\ armedMs =< clock
    BY <2>1, <2>2, <2>4 DEF TurnInv, LinkVerdict
  <2>. QED
    BY <2>2, <2>4, <2>5, LaterIsExpired
<1>. HIDE DEF Inv
<1>. QED
  BY <1>2, <1>3, <1>4, PTL DEF LinkSpec, SlipNeedsSameMs
=============================================================================
