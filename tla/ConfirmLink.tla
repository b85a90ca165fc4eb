---------------------------- MODULE ConfirmLink ----------------------------
(***************************************************************************)
(* The confirmation latch on the niphar_chest board, where the press comes *)
(* from the keyboard over the SPI link: link_task (link/link_spi.c), the   *)
(* host's operation on the CCID worker (security/ccid.c) or on usb_task    *)
(* (security/u2f.c), and the keyboard, all sharing one sec_confirm.        *)
(*                                                                         *)
(* link_task reads the clock once per turn and uses that value for every   *)
(* call of the turn; each call, and each access to the shared register     *)
(* block, is one action, so the other tasks interleave between them.       *)
(* The worker reads the clock just before each call: that pair is one step.*)
(***************************************************************************)
EXTENDS SecConfirm

CONSTANTS
    Modes,      \* USB modes the keyboard may ask for: "CCID", "FIDO"
    InstMod,    \* 256: the instance is the arming number's low byte
    MaxMs,      \* bound: the modelled time, one tick per millisecond
    MaxHost,    \* bound: number of operations the host arms
    MaxRequests,\* bound: number of CODE requests of the keyboard
    MaxGestures,\* bound: number of presses and cancellations
    MaxSwitches \* bound: number of mode changes the keyboard asks for

ASSUME LinkAssumption ==
    /\ Modes # {} /\ Modes \subseteq {"CCID", "FIDO"}
    /\ InstMod \in Nat \ {0} /\ MaxMs \in Nat /\ MaxGestures \in Nat
    /\ MaxHost \in Nat /\ MaxRequests \in Nat /\ MaxSwitches \in Nat
    /\ MaxMs + Timeout < ClockMod /\ MaxHost + MaxRequests < SeqMod
    /\ {"F0", "E0"} \subseteq Slots /\ {"HOST", "CODE"} \subseteq Ops

VARIABLES
    clock,      \* the millisecond counter
    lpc,        \* where link_task is in its turn
    t,          \* link_task's clock reading of this turn
    seen,       \* pending, op and arm_seq as peek_armed() returned them
    m,          \* link_master_t: the master's bytes as read this turn
    lastReq,    \* s_last_req_seq
    codeWait,   \* s_code_wait
    master,     \* the keyboard's half of the shared registers
    chest,      \* the chest's half: pending, op, instance (and its number)
    shown,      \* the last chest block the keyboard displayed
    mode,       \* the installed USB mode, or "NONE"
    applied,    \* s_mode_applied: the last mode asked for that was installed
    shutdown,   \* s_shutdown of ccid.c
    hpc,        \* the host's operation: "idle", or "wait" for its touch
    deadline    \* the worker's own deadline

\* History: how many operations the host armed, how many modes the keyboard
\* asked for, and which gesture was relayed last.
VARIABLES hosted, switches, relayed

linkVars == <<lpc, t, seen, m, lastReq, codeWait>>
kbVars == <<shown>>
hostVars == <<mode, applied, shutdown, hpc, deadline>>
histVars == <<hosted, switches, relayed>>
boardVars == <<confirmVars, clock, linkVars, master, chest, kbVars, hostVars, histVars>>

Instance(n) == n % InstMod
Block(p, o, n) == [pending |-> p, op |-> o, no |-> n]
NoBlock == Block(FALSE, NoOp, 0)
Blocks == [pending : BOOLEAN, op : Ops \cup {NoOp}, no : 0 .. SeqMod - 1]
\* confirm: 0x00, 0x5A or the cancel pattern; number: history of the gesture
Masters == [confirm : {"none", "press", "cancel"}, echo : 0 .. InstMod - 1,
            mode : Modes, req : 0 .. MaxRequests,
            number : 0 .. MaxGestures, about : 0 .. SeqMod - 1]
NoMaster(w) == [confirm |-> "none", echo |-> 0, mode |-> w, req |-> 0,
                number |-> 0, about |-> 0]

LinkTypeOK ==
    /\ SecConfirmTypeOK
    /\ clock \in 0 .. MaxMs /\ t \in 0 .. MaxMs
    /\ lpc \in {"top", "peek", "read", "clear", "verdict", "mode", "stopping",
                "request", "arm", "poll"}
    /\ seen \in Blocks /\ chest \in Blocks /\ shown \in Blocks
    /\ m \in Masters /\ master \in Masters
    /\ lastReq \in 0 .. MaxRequests /\ codeWait \in BOOLEAN
    /\ mode \in Modes \cup {"NONE"} /\ applied \in Modes /\ shutdown \in BOOLEAN
    /\ hpc \in {"idle", "wait"} /\ deadline \in 0 .. MaxMs
    /\ hosted \in 0 .. MaxHost /\ switches \in 0 .. MaxSwitches
    /\ relayed \in 0 .. MaxGestures

LinkInit ==
    /\ ConfirmInit
    /\ clock = 0 /\ t = 0 /\ lpc = "top"
    /\ seen = NoBlock /\ chest = NoBlock /\ shown = NoBlock
    /\ mode \in Modes /\ applied = mode
    /\ master = NoMaster(mode) /\ m = NoMaster(mode)
    /\ lastReq = 0 /\ codeWait = FALSE
    /\ shutdown = FALSE /\ hpc = "idle" /\ deadline = 0
    /\ hosted = 0 /\ switches = 0 /\ relayed = 0

-----------------------------------------------------------------------------
Millisecond ==
    /\ clock < MaxMs
    /\ clock' = clock + 1
    /\ UNCHANGED <<confirmVars, linkVars, master, chest, kbVars, hostVars, histVars>>

\* An arming of slot s at time now: the host's operations are "HOST", the
\* link's is "CODE".
ArmBy(s, o, now) ==
    /\ Arm(s, o, now)
    /\ hosted' = IF o = "HOST" THEN hosted + 1 ELSE hosted
    /\ UNCHANGED <<switches, relayed>>
-----------------------------------------------------------------------------
(* The keyboard: shows what the chest publishes, and writes its own bytes. *)
KbShow ==
    /\ shown' = chest
    /\ UNCHANGED <<confirmVars, clock, linkVars, master, chest, hostVars, histVars>>

\* A press or a cancellation of the operation on the screen, echoing its
\* instance; a lost gesture may be written again.
KbGesture(g) ==
    /\ shown.pending
    /\ master.number < MaxGestures
    /\ master' = [master EXCEPT !.confirm = g, !.echo = Instance(shown.no),
                                !.number = @ + 1, !.about = shown.no]
    /\ UNCHANGED <<confirmVars, clock, linkVars, chest, kbVars, hostVars, histVars>>

\* A CODE request: the segment, then the doorbell.
KbRequest ==
    /\ master.req < MaxRequests
    /\ master' = [master EXCEPT !.req = @ + 1]
    /\ UNCHANGED <<confirmVars, clock, linkVars, chest, kbVars, hostVars, histVars>>

KbMode(w) ==
    /\ master.mode # w
    /\ switches < MaxSwitches /\ switches' = switches + 1
    /\ master' = [master EXCEPT !.mode = w]
    /\ UNCHANGED <<confirmVars, clock, linkVars, chest, kbVars, hostVars,
                   hosted, relayed>>
-----------------------------------------------------------------------------
(* One turn of link_task. *)
LinkTop ==
    /\ lpc = "top" /\ lpc' = "peek"
    /\ t' = clock
    /\ UNCHANGED <<confirmVars, clock, seen, m, lastReq, codeWait,
                   master, chest, kbVars, hostVars, histVars>>

LinkPeek ==
    /\ lpc = "peek" /\ lpc' = "read"
    /\ seen' = Block(Peek(t) = "PENDING", op, seq)
    /\ UNCHANGED <<confirmVars, clock, t, m, lastReq, codeWait,
                   master, chest, kbVars, hostVars, histVars>>

\* What is left to read of the master's bytes once the gesture is judged.
Judged(w) == [NoMaster(w.mode) EXCEPT !.req = w.req]

\* link_proto_mode_request(): only a change is applied.  A value that is no
\* mode changes nothing and is not a step.
ModeAsked(w) == w.mode # applied

\* link_task goes on with what is asked of it, past what is not.
PastMode(w) == IF w.req # lastReq THEN "request" ELSE "poll"
PastGesture(w) == IF ModeAsked(w) THEN "mode" ELSE PastMode(w)

LinkRead ==
    /\ lpc = "read"
    /\ m' = IF master.confirm = "none" THEN Judged(master) ELSE master
    /\ lpc' = IF master.confirm = "none" THEN PastGesture(master) ELSE "clear"
    /\ UNCHANGED <<confirmVars, clock, t, seen, lastReq, codeWait,
                   master, chest, kbVars, hostVars, histVars>>

\* Mutant: the byte is left for the keyboard to clear.
LinkClearNot ==
    /\ lpc = "clear" /\ lpc' = "verdict"
    /\ UNCHANGED <<confirmVars, clock, t, seen, m, lastReq, codeWait, master,
                   chest, kbVars, hostVars, histVars>>

\* drain_user_confirm(): take the byte back, whatever it says, then judge it.
LinkClear ==
    /\ lpc = "clear" /\ lpc' = "verdict"
    /\ master' = [master EXCEPT !.confirm = "none"]
    /\ UNCHANGED <<confirmVars, clock, t, seen, m, lastReq, codeWait,
                   chest, kbVars, hostVars, histVars>>

\* Mutant: the echo is not compared.
EchoIgnored == TRUE
EchoMatches == m.echo = Instance(seen.no)

LinkVerdict ==
    /\ lpc = "verdict" /\ lpc' = PastGesture(m)
    /\ \/ /\ EchoMatches /\ m.confirm = "cancel"
          /\ Cancel(t)
          /\ UNCHANGED histVars
       \/ /\ EchoMatches /\ m.confirm = "press"
          /\ Authorize(t)
          /\ relayed' = m.number
          /\ UNCHANGED <<hosted, switches>>
       \/ /\ ~EchoMatches
          /\ UNCHANGED <<confirmVars, histVars>>
    /\ m' = Judged(m)
    /\ UNCHANGED <<clock, t, seen, lastReq, codeWait,
                   master, chest, kbVars, hostVars>>

\* service_mode_request(): usb_mode_set() is refused at once while another
\* task switches, or asks the worker to leave first.
LinkMode ==
    /\ lpc = "mode"
    /\ \/ lpc' = PastMode(m) /\ UNCHANGED shutdown
       \/ lpc' = "stopping" /\ shutdown' = (shutdown \/ mode = "CCID")
    /\ UNCHANGED <<confirmVars, clock, t, seen, m, lastReq, codeWait, master,
                   chest, kbVars, mode, applied, hpc, deadline, histVars>>

\* ... and waits for it.  The uninstallation times out, and nothing is undone
\* nor disarmed; or the latch is disarmed and the new mode starts, or fails to.
\* What was not applied is asked again on the next turn.
LinkSwitch ==
    /\ lpc = "stopping" /\ lpc' = PastMode(m)
    /\ mode = "CCID" => hpc = "idle"
    /\ \/ mode # "NONE" /\ UNCHANGED <<confirmVars, mode, applied, shutdown, hpc>>
       \/ /\ Reset /\ hpc' = "idle"
          /\ \/ mode' = m.mode /\ applied' = m.mode /\ shutdown' = FALSE
             \/ mode' = "NONE" /\ shutdown' \in {FALSE, shutdown} /\ UNCHANGED applied
    /\ UNCHANGED <<clock, t, seen, m, lastReq, codeWait, master, chest, kbVars,
                   deadline, histVars>>

\* service_request() for a CODE: refused while another operation is pending.
LinkRequest ==
    /\ lpc = "request"
    /\ lastReq' = m.req
    /\ lpc' = IF Peek(t) # "PENDING" THEN "arm" ELSE "poll"
    /\ UNCHANGED <<confirmVars, clock, t, seen, m, codeWait,
                   master, chest, kbVars, hostVars, histVars>>

LinkArm ==
    /\ lpc = "arm" /\ lpc' = "poll"
    /\ ArmBy("E0", "CODE", t)
    /\ codeWait' = TRUE
    /\ UNCHANGED <<clock, t, seen, m, lastReq, master, chest, kbVars, hostVars>>

\* service_pending_code(): the code goes out when poll() grants slot 0xE0.
ServesCode == codeWait /\ PollResult(t) = "AUTHORIZED" /\ slot = "E0"

\* What was seen at the top of the turn; its locals are dead afterwards.
LinkPublish ==
    /\ chest' = Block(seen.pending, IF seen.pending THEN seen.op ELSE NoOp, seen.no)
    /\ t' = 0 /\ seen' = NoBlock /\ m' = NoMaster(applied)

\* The end of the turn: only the keyboard sees the publication, and it does
\* not touch the latch, so one step is enough.
LinkPoll ==
    /\ lpc = "poll" /\ lpc' = "top"
    /\ IF codeWait THEN Poll(t) ELSE UNCHANGED confirmVars
    /\ codeWait' = (codeWait /\ PollResult(t) = "PENDING")
    /\ LinkPublish
    /\ UNCHANGED <<clock, lastReq, master, kbVars, hostVars, histVars>>

LinkTask == \/ LinkTop \/ LinkPeek \/ LinkRead \/ LinkClear \/ LinkVerdict
            \/ LinkMode \/ LinkSwitch \/ LinkRequest \/ LinkArm \/ LinkPoll
-----------------------------------------------------------------------------
(* dongle_confirm_named() on the CCID worker. *)
HostMayArm == hosted < MaxHost

Finish == hpc' = "idle" /\ deadline' = 0

CcidArm ==
    /\ mode = "CCID" /\ hpc = "idle"
    /\ HostMayArm /\ clock + Timeout =< MaxMs
    /\ ArmBy("F0", "HOST", clock)
    /\ hpc' = "wait" /\ deadline' = clock + Timeout
    /\ UNCHANGED <<clock, linkVars, master, chest, kbVars, mode, applied, shutdown>>

\* Mutant: no deadline of its own, only the latch's.
CcidStopNoDeadline == shutdown
CcidStop == shutdown \/ clock >= deadline
\* Mutant: the slot written by poll() is not compared.
CcidGrantedAny == PollResult(clock) = "AUTHORIZED"
CcidGranted == PollResult(clock) = "AUTHORIZED" /\ slot = "F0"

\* Whatever is not a grant of its slot is a refusal, and ends the wait too.
CcidPoll ==
    /\ mode = "CCID" /\ hpc = "wait"
    /\ \/ CcidStop /\ Reset /\ Finish
       \/ /\ ~CcidStop
          /\ Poll(clock)
          /\ \/ CcidGranted /\ Finish
             \/ ~CcidGranted /\ PollResult(clock) \in {"AUTHORIZED", "TIMEDOUT"} /\ Finish
             \/ PollResult(clock) \in {"IDLE", "PENDING"} /\ UNCHANGED <<hpc, deadline>>
    /\ UNCHANGED <<clock, linkVars, master, chest, kbVars, mode, applied, shutdown, histVars>>

(* U2F_REGISTER on usb_task: a new request arms, every request polls. *)
U2fArm ==
    /\ mode = "FIDO" /\ HostMayArm /\ clock + Timeout =< MaxMs
    /\ ArmBy("E0", "HOST", clock)
    /\ hpc' = "wait"
    /\ UNCHANGED <<clock, linkVars, master, chest, kbVars, mode, applied, shutdown, deadline>>

U2fPoll ==
    /\ mode = "FIDO" /\ hpc = "wait"
    /\ Poll(clock)
    /\ IF PollResult(clock) \in {"AUTHORIZED", "TIMEDOUT"} THEN Finish
       ELSE UNCHANGED <<hpc, deadline>>
    /\ UNCHANGED <<clock, linkVars, master, chest, kbVars, mode, applied, shutdown, histVars>>

Host == CcidArm \/ CcidPoll \/ U2fArm \/ U2fPoll
Keyboard == \/ KbShow \/ KbRequest
            \/ \E g \in {"press", "cancel"} : KbGesture(g)
            \/ \E w \in Modes : KbMode(w)
LinkNext == Millisecond \/ Keyboard \/ LinkTask \/ Host

LinkSpec == LinkInit /\ [][LinkNext]_boardVars

(* FreeRTOS runs link_task and the worker again and again, and time goes   *)
(* on; nothing is assumed of the keyboard, nor of the host's requests.     *)
LinkFairSpec ==
    /\ LinkSpec
    /\ WF_boardVars(Millisecond) /\ WF_boardVars(LinkTask) /\ WF_boardVars(CcidPoll)
-----------------------------------------------------------------------------
(* One gesture, one authorisation at most: link_task relays a press once,  *)
(* and never a press older than one it has already relayed, because        *)
(* drain_user_confirm() takes the byte back before judging it.             *)
OneGestureOneRelay ==
    [][LinkVerdict /\ EchoMatches /\ m.confirm = "press" => m.number > relayed]_boardVars

(* A press can only slip from the operation it was made for to another one *)
(* if that one was armed by another task after link_task looked and in the *)
(* very millisecond of its turn: the echo and the window together leave no *)
(* wider gap.                                                              *)
SlipNeedsSameMs ==
    [][state' = "AUTHORIZED" /\ state # "AUTHORIZED" /\ m.about # seq
         => armedMs = t /\ seq # seen.no]_boardVars

(* A code leaves on the link only if the operation that was granted is the *)
(* one the link armed for it: service_pending_code(), "granted for OUR     *)
(* slot, and for it alone".                                                *)
CodeIsOwn == [][LinkPoll /\ ServesCode => op = "CODE"]_boardVars

(* ... which holds while the CCID worker is the host's consumer, since its *)
(* slot 0xF0 differs from the link's 0xE0, whatever was armed before the   *)
(* switch into its mode; and the worker reports success to the card only   *)
(* on a grant of an operation it armed itself.                             *)
GrantsAreOwn ==
    [][/\ LinkPoll /\ ServesCode /\ mode = "CCID" => op = "CODE"
       /\ CcidPoll /\ ~CcidStop /\ CcidGranted => op = "HOST"]_boardVars

(* The worker always leaves its wait, by a touch, a refusal or its own     *)
(* deadline, whatever the keyboard does and even if link_task consumed its *)
(* grant: a mode switch, which waits for it, cannot hang.                  *)
HostAnswered == (mode = "CCID" /\ hpc = "wait") ~> (hpc = "idle")

(* A code request of the keyboard does not stay armed for ever: it ends by *)
(* the press, the expiry, or the latch being taken by someone else (for    *)
(* the operations whose window fits in the modelled time).                 *)
CodeWaitEnds == (codeWait /\ armedMs + Timeout =< MaxMs) ~> ~codeWait

(* Neither consumer of the latch waits for ever: both of the above.        *)
WaitsEnd == HostAnswered /\ CodeWaitEnds
=============================================================================
