-------------------------------- MODULE Hmi --------------------------------
(***************************************************************************)
(* The security-key board: two buttons, a LED and a screen (hmi/).         *)
(* hmi_task samples the buttons, relays a press to the latch, paints the   *)
(* LED and publishes a snapshot; screen_task draws the snapshot on a panel *)
(* whose bus may fail (hmi/screen.c).  The host's operations arm, poll and *)
(* lapse at any time.                                                      *)
(*                                                                         *)
(* Time is abstract: what hmi_task compares with its clock reading t are   *)
(* ages in samples, and the latch is what SecConfirm promises (Confirm-    *)
(* Gate), with what a reading taken too early sees of it.  An operation    *)
(* is named twice, by its sec_op_t and by its label: both are its name.    *)
(***************************************************************************)
EXTENDS Naturals, FiniteSetsExt

CONSTANTS
    Ops, NoOp,
    Debounce,   \* BTN_DEBOUNCE_MS, in periods of hmi_task
    Flash,      \* HMI_FLASH_MS, likewise
    ReinitAfter,\* SCREEN_REINIT_AFTER_FAILS
    Start       \* what the runs begin with: the mode, whether the board has
                \* a screen, and two bounds: the moves of the finger and the
                \* presses of MODE

ASSUME HmiAssumption ==
    /\ Debounce \in Nat \ {0} /\ Flash \in Nat \ {0} /\ ReinitAfter \in Nat \ {0}
    /\ NoOp \notin Ops
    /\ Start \subseteq [mode : {"PGP", "OTP", "FIDO", "OATH", "STORAGE", "NONE"},
                       screen : BOOLEAN, moves : Nat, switches : Nat]

VARIABLES
    latch, armed, \* the latch: ConfirmGate's phase, and the operation
    fresh,      \* it was armed after hmi_task read its clock
    down,       \* the finger is on CONFIRM
    bounce,     \* for how long its contact still bounces, in periods
    spent,      \* history: this touch has granted an operation
    moves,      \* how many of its moves are left
    hpc,        \* where hmi_task is in its turn
    btn,        \* btn_debounce_t of CONFIRM, since_ms as an age
    lag,        \* how far t is behind, in periods, after a mode switch
    event, left,\* an event is on the LED, and what is left until event_until
    timedOut,       \* last_state is TIMEDOUT
    mode,
    switches,   \* how many presses of MODE are left
    led,        \* what the LED shows
    snapshot,   \* the operation in s_snapshot
    screen,     \* the board has a screen (BOARD_OLED_SCL)
    spc,        \* where screen_task is in its turn
    prev,       \* the snapshot it has read
    splash,
    idle,       \* time without a change: 0, 1: standby, 2: sleep
    on,         \* display_on
    lit, ram,   \* the panel
    fails

latchVars == <<latch, armed, fresh>>
fingerVars == <<down, bounce, spent, moves>>
taskVars == <<hpc, btn, lag, event, left, timedOut, mode, switches, led, snapshot>>
screenVars == <<screen, spc, prev, splash, idle, on, lit, ram, fails>>
hmiVars == <<latchVars, fingerVars, taskVars, screenVars>>

Blank == [pending |-> FALSE, op |-> NoOp, label |-> NoOp]

\* What the panel holds: a demand, another screen, or pages of several.
Asks(o, l) == [kind |-> "asks", op |-> o, label |-> l]
Other == [kind |-> "other", op |-> NoOp, label |-> NoOp]
Torn == [Other EXCEPT !.kind = "torn"]

\* Booted: the screen is initialised after hmi_task has started.
HmiInit ==
    /\ \E s \in Start : /\ mode = s.mode /\ screen = s.screen
                         /\ moves = s.moves /\ switches = s.switches
    /\ latch = "idle" /\ armed = NoOp /\ fresh = FALSE
    /\ down = FALSE /\ bounce = 0 /\ spent = FALSE
    /\ hpc = "top" /\ btn = [stable |-> FALSE, candidate |-> FALSE, age |-> 0]
    /\ lag = 0 /\ event = FALSE /\ left = 0 /\ timedOut = FALSE
    /\ led = "off"
    /\ snapshot = Blank
    /\ spc = "top" /\ prev = snapshot /\ splash = TRUE /\ idle = 0
    /\ on = TRUE /\ lit = TRUE /\ ram = Other /\ fails = 0
-----------------------------------------------------------------------------
(* The latch, as its users and the clock move it. *)
Arms(o) ==
    /\ latch' = "waiting" /\ armed' = o
    /\ fresh' \in IF hpc = "top" THEN {FALSE} ELSE BOOLEAN
    /\ UNCHANGED <<fingerVars, taskVars, screenVars>>

Disarmed == latch' = "idle" /\ armed' = NoOp /\ fresh' = FALSE

\* poll() ends a granted or a lapsed operation, reset() any.
Ends ==
    /\ latch # "idle" /\ Disarmed
    /\ UNCHANGED <<fingerVars, taskVars, screenVars>>

HmiLapses ==
    /\ latch = "waiting" /\ latch' = "lapsed" /\ fresh' = FALSE
    /\ UNCHANGED <<armed, fingerVars, taskVars, screenVars>>

(* peek(t): an operation armed after t has an age that wraps, so it looks  *)
(* expired.                                                                *)
Seen == CASE latch = "waiting" /\ ~fresh -> "PENDING"
          [] latch = "lapsed" \/ fresh   -> "TIMEDOUT"
          [] latch = "granted"           -> "AUTHORIZED"
          [] latch = "idle"              -> "IDLE"

FingerMoves ==
    /\ moves > 0 /\ moves' = moves - 1
    /\ down' = ~down
    /\ bounce' = Debounce
    /\ spent' = (spent /\ ~down')
    /\ UNCHANGED <<latchVars, taskVars, screenVars>>
-----------------------------------------------------------------------------
(* One turn of hmi_task. *)
Less(n, k) == IF n > k THEN n - k ELSE 0

(* const uint32_t t = now_ms(): time has passed, and after a slow switch   *)
(* more of it than t knew.  The MODE button is debounced like the other:   *)
(* it may have been pressed.                                               *)
HmiTop ==
    /\ hpc = "top"
    /\ \E d \in 1 .. Debounce :
         /\ btn' = [btn EXCEPT !.age = Min({Debounce, @ + d + lag})]
         /\ left' = Less(left, d + lag)
         /\ bounce' = Less(bounce, d)
    /\ lag' = 0 /\ fresh' = FALSE
    /\ \/ hpc' = "confirm" /\ UNCHANGED switches
       \/ hpc' = "switching" /\ switches > 0 /\ switches' = switches - 1
    /\ UNCHANGED <<latch, armed, down, spent, moves, event, timedOut, mode, led,
                   snapshot, screenVars>>

\* usb_mode_cycle_after()
After(m) == CASE m = "PGP" -> "OTP" [] m = "OTP" -> "FIDO" [] m = "FIDO" -> "OATH"
              [] OTHER -> "PGP"

\* A mode, a grant or a refusal.
Flashes == event' = TRUE /\ left' = Flash

(* usb_mode_cycle_next() returns, at once or much later: a success and a   *)
(* failure after the uninstallation disarm the latch.                      *)
HmiSwitch ==
    /\ hpc = "switching" /\ hpc' = "confirm"
    /\ \/ mode' = After(mode) /\ Flashes /\ Disarmed
       \/ mode' = "NONE" /\ Flashes /\ Disarmed
       \/ Flashes /\ UNCHANGED <<mode, latchVars>>
    /\ \E d \in {0, Debounce} : lag' = d /\ bounce' = Less(bounce, d)
    /\ UNCHANGED <<down, spent, moves, btn, timedOut, switches, led, snapshot, screenVars>>

\* Mutant: each sample is believed.
FeedNow(b, pressed) == [b EXCEPT !.candidate = pressed, !.stable = pressed]

\* btn_feed(): the button afterwards; it has been pressed if it is stable
\* now and was not.
Feed(b, pressed) ==
    IF pressed # b.candidate THEN [b EXCEPT !.candidate = pressed, !.age = 0]
    ELSE IF b.age < Debounce THEN b ELSE [b EXCEPT !.stable = pressed]

HmiConfirm ==
    /\ hpc = "confirm"
    /\ \E pressed \in IF bounce > 0 THEN BOOLEAN ELSE {down} :
         LET b == Feed(btn, pressed)
         IN  /\ btn' = b
             /\ hpc' = IF b.stable /\ ~btn.stable THEN "peek" ELSE "look"
    /\ UNCHANGED <<latchVars, fingerVars, lag, event, left, timedOut, mode,
                   switches, led, snapshot, screenVars>>

\* "peek BEFORE authorising", in two calls.
HmiPeek ==
    /\ hpc = "peek"
    /\ hpc' = IF Seen = "PENDING" THEN "relay" ELSE "look"
    /\ UNCHANGED <<latchVars, fingerVars, btn, lag, event, left, timedOut, mode,
                   switches, led, snapshot, screenVars>>

\* sec_gate_button_confirm(t): the latch decides; the flash does not ask it.
HmiRelay ==
    /\ hpc = "relay" /\ hpc' = "look"
    /\ IF Seen = "PENDING"
       THEN latch' = "granted" /\ spent' = TRUE
       ELSE UNCHANGED <<latch, spent>>
    /\ Flashes
    /\ UNCHANGED <<armed, fresh, down, bounce, moves, btn, lag, timedOut, mode,
                   switches, led, snapshot, screenVars>>

\* led_mode_colour(): the modes the LED has a colour for; and
\* led_state_view().
Coloured == {"PGP", "OTP"}
LedView(m, pending, e) ==
    IF e THEN "flash"
    ELSE IF m \notin Coloured THEN "off"
    ELSE IF pending THEN "alternate" ELSE "steady"

\* Mutant: the flash never ends.
EventNowStays == event

\* The event ends at event_until ...
EventNow == event /\ left > 0

\* Mutant: the operation's name is refreshed only when a wait begins.
LookedOnce ==
    [pending |-> Seen = "PENDING", label |-> armed,
     op |-> IF snapshot.pending THEN snapshot.op ELSE armed]

\* ... and peek_labeled() looks in one critical section.
Looked == [pending |-> Seen = "PENDING", op |-> armed, label |-> armed]

(* The end of the turn: an expiry flashes on its edge, the LED is painted, *)
(* the snapshot published.  Nobody but screen_task sees the publication,   *)
(* and it reads nothing else: one step is enough.                          *)
HmiLook ==
    /\ hpc = "look" /\ hpc' = "top"
    /\ IF Seen = "TIMEDOUT" /\ ~timedOut THEN Flashes
       ELSE event' = EventNow /\ UNCHANGED left
    /\ timedOut' = (Seen = "TIMEDOUT")
    /\ led' = LedView(mode, Looked.pending, event')
    /\ snapshot' = Looked
    /\ UNCHANGED <<latchVars, fingerVars, btn, lag, mode, switches, screenVars>>
-----------------------------------------------------------------------------
(* One turn of screen_task.  The mode and the event of the snapshot are    *)
(* left out: they may change at any turn, and begin idle again.            *)
ScreenRead ==
    /\ screen /\ spc = "top" /\ spc' = "power"
    /\ prev' = snapshot
    /\ splash' \in {splash, FALSE}
    /\ idle' \in IF snapshot # prev THEN {0} ELSE {0} \cup (idle .. 2)
    /\ UNCHANGED <<latchVars, fingerVars, taskVars, screen, on, lit, ram, fails>>

\* Mutant: a confirmation does not keep the panel awake.
BusySplash == splash
Busy == splash \/ prev.pending
Standby == ~Busy /\ idle > 0
WantOn == Busy \/ idle < 2

(* ssd1306_display(): the panel may have taken a command that is reported  *)
(* as failed.                                                              *)
ScreenKeeps ==
    /\ spc = "power" /\ WantOn = on
    /\ spc' = IF on THEN "draw" ELSE "top"
    /\ UNCHANGED <<latchVars, fingerVars, taskVars, screen, prev, splash, idle, on, lit, ram, fails>>

ScreenTurns ==
    /\ spc = "power" /\ WantOn # on
    /\ on' = WantOn /\ lit' = WantOn
    /\ spc' = IF WantOn THEN "draw" ELSE "top"
    /\ UNCHANGED <<latchVars, fingerVars, taskVars, screen, prev, splash, idle, ram, fails>>

ScreenTurnFails ==
    /\ spc = "power" /\ WantOn # on
    /\ lit' \in {lit, WantOn}
    /\ spc' = IF on THEN "draw" ELSE "top"
    /\ UNCHANGED <<latchVars, fingerVars, taskVars, screen, prev, splash, idle, on, ram, fails>>

(* render_frame(), screen_view_of(): a wait before anything else; what the *)
(* other screens say does not matter here.                                 *)
Frame == IF ~splash /\ ~Standby /\ prev.pending
         THEN Asks(prev.op, prev.label) ELSE Other

ScreenDraws ==
    /\ spc = "draw" /\ spc' = "top"
    /\ ram' = Frame /\ fails' = 0
    /\ UNCHANGED <<latchVars, fingerVars, taskVars, screen, prev, splash, idle, on, lit>>

\* ssd1306_init_sequence(): off first, on last; it may stop half-way.
Reinit ==
    /\ fails' = 0
    /\ \/ on' = TRUE /\ lit' = TRUE
       \/ UNCHANGED on /\ lit' \in BOOLEAN

\* A page fails: the panel shows some pages of each frame.
ScreenDrawFails ==
    /\ spc = "draw" /\ spc' = "top"
    /\ ram' \in {ram, Frame, Torn}
    /\ IF fails + 1 >= ReinitAfter THEN Reinit
       ELSE fails' = fails + 1 /\ UNCHANGED <<on, lit>>
    /\ UNCHANGED <<latchVars, fingerVars, taskVars, screen, prev, splash, idle>>
-----------------------------------------------------------------------------
Host == Ends \/ HmiLapses \/ \E o \in Ops : Arms(o)
HmiTask == \/ HmiTop \/ HmiSwitch \/ HmiConfirm \/ HmiPeek \/ HmiRelay
           \/ HmiLook
ScreenTask == \/ ScreenRead \/ ScreenKeeps \/ ScreenTurns \/ ScreenTurnFails
              \/ ScreenDraws \/ ScreenDrawFails
HmiNext == Host \/ FingerMoves \/ HmiTask \/ ScreenTask

HmiSpec == HmiInit /\ [][HmiNext]_hmiVars

SplashEnds == ScreenRead /\ splash /\ ~splash'

(* Both tasks run again and again, and a mode switch returns; the bus does *)
(* not fail for ever, and the splash ends.  Nothing is assumed of the      *)
(* host, of the finger, nor of the window.                                 *)
HmiFairSpec ==
    /\ HmiSpec
    /\ WF_hmiVars(HmiTask) /\ WF_hmiVars(ScreenTask)
    /\ SF_hmiVars(SplashEnds) /\ SF_hmiVars(ScreenTurns) /\ SF_hmiVars(ScreenDraws)
-----------------------------------------------------------------------------
Waits(o) == latch = "waiting" /\ armed = o
Shows(o) == lit /\ ram = Asks(o, o)

(* One touch grants at most one operation: a finger that stays down, or a  *)
(* contact that bounces, does not grant the next one (button_debounce.h),  *)
(* even when a slow mode switch has made t stale.                          *)
OneTouchOneGrant == [][latch # "granted" /\ latch' = "granted" => ~spent]_hmiVars

(* The screen never asks for an operation under the name of another: what  *)
(* is drawn was read, published and copied in one piece (hmi.h: "a torn    *)
(* read would show an operation with the deadline of another").            *)
FramesAreTrue == ram.op = ram.label

(* As long as an operation waits the screen asks for it again and again,   *)
(* woken up if it sleeps, and it stops when the operation is over.  Except *)
(* when the panel has taken a command reported as failed: display_on is    *)
(* then wrong, and a dark panel is not turned on again, nor a lit one      *)
(* redrawn; and except when the host arms anew in every turn of hmi_task,  *)
(* before it has looked.                                                   *)
Misled == on # lit
ScreenFollows ==
    \A o \in Ops : /\ []<>(screen /\ Waits(o) /\ ~fresh => Shows(o) \/ Misled)
                   /\ []<>(Shows(o) => Waits(o) \/ Misled)

(* "The LED must say WHEN it waits for a finger" (led_state.h): an         *)
(* operation that goes on waiting makes it alternate again and again, in   *)
(* the modes the LED has a colour for.                                     *)
LedTellsWaiting ==
    []<>(latch = "waiting" /\ ~fresh /\ mode \in Coloured => led = "alternate")
=============================================================================
