-------------------------------- MODULE Fido --------------------------------
(***************************************************************************)
(* The FIDO mode: CTAP-HID messages of several host applications over one  *)
(* reassembly buffer, one answer in transmission, one refusal waiting, and *)
(* the U2F handler that waits for a touch.  Everything of the device runs  *)
(* in TinyUSB callbacks of usb_task, except the button (hmi_task).         *)
(*                                                                         *)
(* The latch is its abstract promise, ConfirmGate, which SecConfirm is     *)
(* proved to implement.  Packets carry the identity of their message in    *)
(* place of its bytes.  A channel allocated by INIT is one nobody else     *)
(* holds: the counter behind it repeats after 2^32 allocations.            *)
(***************************************************************************)
EXTENDS Naturals, Latch

CONSTANTS
    Apps,       \* host applications; an application's channel is its name
    U2f,        \* U2F requests; a key is <challenge, application[, handle]>
    Plain,      \* requests of the other kinds
    Long,       \* packets of a long request and of a long answer
    MsgIds,     \* bound: a message's identity, reused after this many
    MaxTrouble  \* bound: how often the host suspends or resets the bus

ASSUME FidoAssumption ==
    /\ Long \in Nat /\ Long >= 2 /\ MsgIds \in Nat \ {0}
    /\ MaxTrouble \in Nat
    /\ \A r \in U2f : r.op \in {"REGISTER", "AUTH"}
    /\ \A r \in Plain : r.op \in {"INIT", "PING"}

Broadcast == "broadcast"
Stale == "stale"            \* a channel of before a bus reset: nobody has it
Chans == Apps \cup {Broadcast, Stale}
Messages == Apps \X (0 .. MsgIds - 1)

\* What is in the endpoint, and s_wait with its copies.
Packets == [kind : {"answer", "refusal", "done"}, cid : Chans \cup {None},
            msg : Messages \cup {None}, part : Nat, last : BOOLEAN]
Waits == [req : U2f, nonce : Messages]

ASSUME NoneAssumption == None \notin Chans \cup Messages \cup Packets \cup Waits

Register == "REGISTER"
Auth == "AUTH"
SlotOf(op) == IF op = Register THEN "E0" ELSE "E1"

VARIABLES
    asm,        \* s_asm: the message being reassembled, or None
    tx,         \* s_tx: the answer being sent, NoTx when it is dead data
    busy,       \* s_tx_busy
    refusal,    \* s_refusal_cid while s_refusal_pending, or None
    ep,         \* the packet in the IN endpoint, Done once read, or None
    asleep,     \* the bus is suspended: tud_ready() is false
    wait,       \* s_wait and its copies of the request, or None
    call,       \* the U2F request usb_task is executing, or None
    app,        \* app[a]: channel, request being sent, packets sent so far (0 once
                \* the answer came), message number
    trouble,        \* how often the host has suspended or reset the bus
    lost,       \* history: a waiting refusal failed, or the endpoint was closed
    wire,       \* history: the last packet of an answer begun, not ended
    pressed     \* history: what was waiting when the press was accepted

txVars == <<tx, busy, refusal, ep, wire, lost>>
u2fVars == <<wait, call, pressed>>
vars == <<asm, txVars, asleep, u2fVars, gateVars, app, trouble>>

Gate == INSTANCE ConfirmGate WITH Slots <- {"E0", "E1"}, Ops <- {Register, Auth},
                                  NoSlot <- None, answer <- <<>>

Done == [kind |-> "done", cid |-> None, msg |-> None, part |-> 0, last |-> TRUE]
NoTx == [cid |-> None, msg |-> None, total |-> 0, sent |-> 0]
Closed(a) == [chan |-> Broadcast, req |-> None, out |-> 0, no |-> 0]

Init ==
    /\ asm = None /\ tx = NoTx /\ busy = FALSE /\ refusal = None /\ ep = None
    /\ asleep = FALSE /\ wait = None /\ call = None
    /\ phase = "idle" /\ what = None
    /\ app = [a \in Apps |-> Closed(a)]
    /\ trouble = 0
    /\ wire = Done /\ lost = FALSE /\ pressed = None
-----------------------------------------------------------------------------
Ready == ep = None /\ ~asleep

\* Part n of an answer; a refusal is one packet apart.
Part(t, n) == [kind |-> "answer", cid |-> t.cid, msg |-> t.msg, part |-> n,
               last |-> n = t.total]
Refusal(c) == [Done EXCEPT !.kind = "refusal", !.cid = c]

\* tud_hid_report() takes the packet.
Leaves(packet) == ep' = packet /\ wire' = IF packet.last THEN Done ELSE packet

\* send_busy_refusal(): now if the endpoint is free, else the last one waits.
SendBusyRefusal(c) ==
    /\ IF Ready THEN ep' = Refusal(c) /\ UNCHANGED refusal
                ELSE refusal' = c /\ UNCHANGED ep
    /\ UNCHANGED <<tx, busy, wire, lost>>

\* Mutant: s_tx_busy is not tested, an answer overwrites the one being sent.
SendResponseOver(c, m, total) ==
    LET t == [cid |-> c, msg |-> m, total |-> total, sent |-> 1]
    IN  /\ IF Ready THEN Leaves(Part(t, 1)) /\ busy' = (total > 1)
                    ELSE UNCHANGED <<ep, wire, busy>>
        /\ tx' = IF busy' THEN t ELSE NoTx
        /\ UNCHANGED <<refusal, lost>>

\* The packet goes on the wire, or is given up if the endpoint cannot take it.
SendResponse(c, m, total) ==
    LET t == [cid |-> c, msg |-> m, total |-> total, sent |-> 1]
    IN  IF busy THEN SendBusyRefusal(c)
        ELSE /\ IF Ready THEN Leaves(Part(t, 1)) /\ busy' = (total > 1)
                         ELSE UNCHANGED <<ep, wire, busy>>
             /\ tx' = IF busy' THEN t ELSE NoTx
             /\ UNCHANGED <<refusal, lost>>

\* Mutant: a continuation that fails leaves s_tx_busy set.
SendContinuationSticks ==
    /\ busy' = (asleep \/ tx.sent + 1 < tx.total)
    /\ tx' = IF busy' THEN [tx EXCEPT !.sent = @ + 1] ELSE NoTx
    /\ IF asleep THEN ep' = None /\ UNCHANGED wire
                 ELSE Leaves(Part(tx, tx.sent + 1))

\* What fails to leave is given up.
SendContinuation ==
    /\ busy' = (~asleep /\ tx.sent + 1 < tx.total)
    /\ tx' = IF busy' THEN [tx EXCEPT !.sent = @ + 1] ELSE NoTx
    /\ IF asleep THEN ep' = None /\ UNCHANGED wire
                 ELSE Leaves(Part(tx, tx.sent + 1))

\* fido_report_complete(): a waiting refusal goes first, then the answer goes on.
UsbComplete ==
    /\ ep = Done /\ call = None
    /\ refusal' = None
    /\ \/ /\ refusal # None
          /\ ep' = IF asleep THEN None ELSE Refusal(refusal)
          /\ lost' = (lost \/ asleep)
          /\ UNCHANGED <<tx, busy, wire>>
       \/ refusal = None /\ busy /\ SendContinuation /\ UNCHANGED lost
       \/ refusal = None /\ ~busy /\ ep' = None /\ UNCHANGED <<tx, busy, wire, lost>>
    /\ UNCHANGED <<asm, asleep, u2fVars, gateVars, app, trouble>>
-----------------------------------------------------------------------------
\* Mutant: the challenge is not compared.
IsRetryAnyKey(r) == wait # None /\ wait.req.op = r.op

\* Mutant: every request arms again.
IsRetryNever(r) == FALSE

(* The same request again only polls: arming again would start the window  *)
(* again and drop a press already made.                                    *)
IsRetry(r) == wait # None /\ wait.req = r

\* handle_register(), handle_authenticate(), up to sec_confirm_arm().
U2fBegin(c, m, r) ==
    /\ call' = [cid |-> c, msg |-> m, req |-> r]
    /\ IF IsRetry(r) THEN UNCHANGED <<wait, gateVars>>
       ELSE /\ wait' = [req |-> r, nonce |-> m]
            /\ Gate!ArmOp /\ what' = <<SlotOf(r.op), r.op>>
    /\ pressed' = IF IsRetry(r) THEN pressed ELSE None

Granted == phase = "granted" /\ what[1] = SlotOf(call.req.op)

\* u2f_reset(): nothing is waited for any more.
U2fReset == wait' = None

\* What is signed: the request just received, with the nonce of the wait.
Sign == [req |-> call.req, nonce |-> wait.nonce]

\* ... and from sec_confirm_poll() on.
UsbU2f ==
    /\ call # None /\ call' = None
    /\ \/ (Gate!EndsGranted \/ Gate!EndsRefused) /\ U2fReset
       \/ phase # "granted" /\ UNCHANGED <<gateVars, wait>>
    /\ pressed' = IF wait' = None THEN None ELSE pressed
    \* 6985; once granted the signed answer, or 6F00 if a computation fails
    /\ \/ SendResponse(call.cid, call.msg, 1)
       \/ Granted /\ SendResponse(call.cid, call.msg, Long)
    /\ UNCHANGED <<asm, asleep, app, trouble>>

(* handle_message(): a request without touch is answered at once, and so   *)
(* is one that is malformed, unknown or asks for a check only.             *)
HandleMessage(c, m, r) ==
    \/ r \in U2f /\ U2fBegin(c, m, r) /\ UNCHANGED txVars
    \/ /\ SendResponse(c, m, IF r.op = "PING" THEN Long ELSE 1)
       /\ UNCHANGED <<u2fVars, gateVars>>

PacketsOf(r) == IF r.op = "INIT" THEN 1 ELSE Long

\* ctaphid_feed(): packet n (0 for INIT) of a message does not fit in.
Misplaced(c, n) ==
    IF n = 0 THEN asm # None /\ asm.cid # c
             ELSE asm # None => asm.cid # c \/ asm.got # n

\* The message is complete: the channel is free again.
Deliver == asm' = None

(* fido_set_report(): packet n of application a's request r.  One that was *)
(* received just before a suspend is handled after it.                     *)
SetReport(a, r, n, m) ==
    LET c == app[a].chan
    IN  /\ ep # Done /\ call = None
        /\ app' = [app EXCEPT ![a].req = IF n + 1 < PacketsOf(r) THEN r ELSE None,
                               ![a].out = n + 1, ![a].no = m[2]]
        /\ \/ /\ Misplaced(c, n) \/ (n = 0 /\ r.op # "INIT")     \* too long
              /\ SendResponse(c, None, 1)
              /\ UNCHANGED <<asm, u2fVars, gateVars>>
           \/ /\ ~Misplaced(c, n) /\ n + 1 < PacketsOf(r)
              /\ asm' = [cid |-> c, got |-> n + 1, req |-> IF n = 0 THEN r ELSE asm.req]
              /\ UNCHANGED <<txVars, u2fVars, gateVars>>
           \/ /\ ~Misplaced(c, n) /\ n + 1 = PacketsOf(r)
              /\ Deliver
              /\ HandleMessage(c, m, IF n = 0 THEN r ELSE asm.req)
        /\ UNCHANGED <<asleep, trouble>>
-----------------------------------------------------------------------------
(* An application opens its channel first, then makes any request. *)
HostStarts(a) ==
    /\ app[a].out = 0
    /\ \E r \in U2f \cup Plain :
         /\ app[a].chan = Broadcast => r.op = "INIT"
         /\ SetReport(a, r, 0, <<a, (app[a].no + 1) % MsgIds>>)

HostContinues(a) ==
    /\ app[a].req # None
    /\ SetReport(a, app[a].req, app[a].out, <<a, app[a].no>>)

\* It times out, or stops in the middle of a message.
HostGivesUp(a) ==
    /\ app[a].out > 0
    /\ app' = [app EXCEPT ![a].req = None, ![a].out = 0]
    /\ UNCHANGED <<asm, txVars, asleep, u2fVars, gateVars, trouble>>

(* The answer to application a has been read whole, or an error on its     *)
(* channel, which names no message.                                        *)
Ends(a) ==
    \/ ep.msg = None /\ ep.cid = app[a].chan
    \/ ep.msg = <<a, app[a].no>> /\ ep.last

HostReads ==
    /\ ep \notin {None, Done} /\ ~asleep
    /\ ep' = Done
    /\ app' = [a \in Apps |->
                 IF app[a].out > 0 /\ Ends(a)
                 THEN [app[a] EXCEPT !.req = None, !.out = 0,
                         !.chan = IF ep.msg # None THEN a ELSE @]
                 ELSE app[a]]
    /\ UNCHANGED <<asm, tx, busy, refusal, wire, lost, asleep, u2fVars, gateVars, trouble>>

\* The controller's interrupt marks the bus suspended, or awake, at once.
Suspend ==
    /\ ~asleep /\ trouble < MaxTrouble
    /\ asleep' = TRUE /\ trouble' = trouble + 1
    /\ UNCHANGED <<asm, txVars, u2fVars, gateVars, app>>
Resume ==
    /\ asleep /\ asleep' = FALSE
    /\ UNCHANGED <<asm, txVars, u2fVars, gateVars, app, trouble>>

Old(c) == IF c = None THEN None ELSE Stale

\* The endpoints are closed; nothing of mode_fido.c or u2f.c is told.
BusReset ==
    /\ trouble < MaxTrouble /\ trouble' = trouble + 1 /\ call = None
    /\ ep' = None /\ asleep' = FALSE
    /\ app' = [a \in Apps |-> Closed(a)]
    /\ asm' = IF asm = None THEN None ELSE [asm EXCEPT !.cid = Stale]
    /\ tx' = [tx EXCEPT !.cid = Old(@)]
    /\ refusal' = Old(refusal)
    /\ lost' = TRUE
    /\ UNCHANGED <<busy, wire, u2fVars, gateVars>>

\* The mode is left and entered again: mode_fido_fs_config(), _hs_config().
Reinstall ==
    /\ call = None
    /\ asm' = None /\ tx' = NoTx /\ busy' = FALSE /\ refusal' = None /\ ep' = None
    /\ asleep' = FALSE /\ U2fReset
    /\ Gate!Drop
    /\ app' = [a \in Apps |-> Closed(a)]
    /\ wire' = Done /\ lost' = FALSE /\ pressed' = None
    /\ UNCHANGED <<call, trouble>>

\* hmi_task relays a press (sec_gate.c); and the window of the latch closes.
Press ==
    /\ Gate!Press /\ pressed' = wait
    /\ UNCHANGED <<asm, txVars, asleep, wait, call, app, trouble>>
WindowCloses ==
    /\ Gate!Lapse
    /\ UNCHANGED <<asm, txVars, asleep, u2fVars, app, trouble>>

Next == \/ \E a \in Apps : HostStarts(a) \/ HostContinues(a) \/ HostGivesUp(a)
        \/ UsbComplete \/ UsbU2f \/ HostReads
        \/ Suspend \/ Resume \/ BusReset \/ Reinstall \/ Press \/ WindowCloses

Spec == Init /\ [][Next]_vars
-----------------------------------------------------------------------------
(* The packets of two answers are never mixed: whatever refusals slip in   *)
(* between, a continuation carries the next part of the answer begun last  *)
(* (s_tx_busy, and the refusals that leave s_tx alone).                    *)
AnswersNotMixed ==
    [][ep' # ep /\ ep' # None /\ ep'.kind = "answer" /\ ep'.part > 1
         => ep'.msg = wire.msg /\ ep'.part = wire.part + 1]_vars

(* What is signed is what was waiting when the user pressed, with the      *)
(* credential generated when it was armed: no other request, and no other  *)
(* application's, can take the press over (is_retry, the hoisted nonce).   *)
SignedIsPressed == [][UsbU2f /\ Granted => Sign = pressed]_vars

(* A press is not lost to the browser's polling: it is spent by the answer *)
(* to its own request (6F00 if the signature fails: a new press is due),   *)
(* or dropped with the mode, or because another request replaced the one   *)
(* it was made for.                                                        *)
GrantNotWasted ==
    [][phase = "granted" /\ phase' # "granted" =>
         \/ UsbU2f /\ Granted
         \/ Reinstall
         \/ wait' # None /\ wait'.req # wait.req]_vars

(* s_tx_busy never sticks ("a key mute until it is unplugged"): while it   *)
(* is set a packet is under way whose completion continues the answer.     *)
(* Only a waiting refusal that fails on a suspended bus, or a bus reset,   *)
(* leaves it set alone; the next request's refusal starts the answer again.*)
NeverMute == busy /\ ~lost => ep # None
=============================================================================
