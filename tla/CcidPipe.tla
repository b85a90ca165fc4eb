------------------------------ MODULE CcidPipe ------------------------------
(***************************************************************************)
(* The CCID transport, main/security/ccid.c: the bulk OUT/IN pipe owned by *)
(* the USB task, the worker task that runs the applet (and may wait for a  *)
(* touch), the queue of deferred callbacks between them, and the shutdown  *)
(* handshake of a mode switch.                                             *)
(*                                                                         *)
(* A command and its answer are a number: the host counts its commands.    *)
(* The applet itself is elsewhere; here it only takes time.                *)
(***************************************************************************)
EXTENDS Naturals, Sequences

CONSTANTS
    MaxCmd,         \* bound: commands the host sends
    MaxRetries,     \* 200: how often the final answer is put back in the queue
    MaxQueue,       \* bound: WTX callbacks pending at once
    MaxSwitch       \* bound: mode switches

ASSUME PipeAssumption ==
    /\ MaxCmd \in Nat /\ MaxRetries \in Nat /\ MaxQueue \in Nat
    /\ MaxSwitch \in Nat

VARIABLES
    stack,      \* TinyUSB is installed, its task and its queue exist
    ep,         \* s_ep_in, s_ep_out are not 0: the interface is open
    out,        \* the bulk OUT read is primed
    inx,        \* the IN transfer in flight: "none", "wtx", "final", "zlp"
    busy,       \* s_busy
    final,      \* s_final_queued
    shutdown,   \* s_shutdown
    queue,      \* callbacks deferred to the USB task: "wtx" or retries done
    sem,        \* s_msg_ready
    wpc,        \* where the worker is
    active,     \* s_worker_active
    outBuf,     \* the command in s_out_buf
    cur,        \* s_cur_seq
    wcmd,       \* the command the worker is executing
    inBuf,      \* the answer in s_in_buf: <<seq of its header, command>>
    frame,      \* the final frame on the wire: [seq, cmd, full packets only]
    mpc,        \* the mode switch: "none", "waiting", "stopped", "down"
    switches,
    sent,       \* the last command the host sent
    waiting,    \* the host waits for the answer to `sent'
    got,        \* the last answer it received: <<seq, command>>
    late,       \* history: the worker outlived ccid_shutdown()'s wait, or a
                \* command sent after it outlived the reinstallation
    stale,      \* history: the bus was reset before a command's answer was built
    lost        \* history: the answer to `sent' was abandoned: after the last
                \* retry, or because usbd_edpt_xfer() refused its transfer

usbVars == <<stack, ep, out, inx, busy, final, frame>>
workVars == <<sem, wpc, active, wcmd, inBuf>>
cmdVars == <<outBuf, cur>>
modeVars == <<shutdown, mpc, switches>>
hostVars == <<sent, waiting, got>>
histVars == <<late, stale, lost>>
vars == <<usbVars, workVars, cmdVars, modeVars, hostVars, histVars, queue>>

Cmds == 0 .. MaxCmd
Wtx == MaxRetries + 1           \* a queued WTX; smaller values: final sends

TypeOK ==
    /\ stack \in BOOLEAN /\ ep \in BOOLEAN /\ out \in BOOLEAN
    /\ inx \in {"none", "wtx", "final", "zlp"}
    /\ busy \in BOOLEAN /\ final \in BOOLEAN /\ shutdown \in BOOLEAN
    /\ queue \in Seq(0 .. Wtx)
    /\ sem \in 0 .. 1 /\ active \in BOOLEAN
    /\ wpc \in {"take", "mark", "run", "confirm", "reply", "post", "done"}
    /\ outBuf \in Cmds /\ cur \in Cmds /\ wcmd \in Cmds
    /\ inBuf \in Cmds \X Cmds /\ got \in Cmds \X Cmds
    /\ frame \in [seq : Cmds, cmd : Cmds, full : BOOLEAN]
    /\ mpc \in {"none", "waiting", "stopped", "down"} /\ switches \in 0 .. MaxSwitch
    /\ sent \in Cmds /\ waiting \in BOOLEAN
    /\ late \in BOOLEAN /\ stale \in BOOLEAN /\ lost \in BOOLEAN

\* The mode is installed and the host has not configured it yet.
Init ==
    /\ stack = TRUE /\ ep = FALSE /\ out = FALSE /\ inx = "none"
    /\ busy = FALSE /\ final = FALSE /\ shutdown = FALSE
    /\ frame = [seq |-> 0, cmd |-> 0, full |-> FALSE]
    /\ queue = <<>> /\ sem = 0 /\ wpc = "take" /\ active = FALSE
    /\ outBuf = 0 /\ cur = 0 /\ wcmd = 0 /\ inBuf = <<0, 0>>
    /\ mpc = "none" /\ switches = 0
    /\ sent = 0 /\ waiting = FALSE /\ got = <<0, 0>>
    /\ late = FALSE /\ stale = FALSE /\ lost = FALSE
-----------------------------------------------------------------------------
\* Mutant: the callback is posted without looking at s_shutdown.
DeferAlways(cb) == queue' = Append(queue, cb)

(* ccid_defer(): test and post under one lock. *)
Defer(cb) == queue' = IF shutdown THEN queue ELSE Append(queue, cb)

\* What drv_reset(), drv_deinit() and a torn-down bus leave behind.
ClosePipe ==
    /\ ep' = FALSE /\ out' = FALSE /\ inx' = "none"
    /\ busy' = FALSE /\ final' = FALSE

\* usbd_edpt_xfer() on OUT may fail, and nothing tries again: the pipe is
\* wedged until a reset of the bus or a mode switch.
PrimeOut == out' \in BOOLEAN

\* The final answer is delivered or given up: ready for the next command.
Reprime == final' = FALSE /\ busy' = FALSE /\ PrimeOut
-----------------------------------------------------------------------------
(* ccid_drv_open(): the host configures the interface, OUT is primed. *)
UsbOpen ==
    /\ stack /\ ~ep
    /\ ep' = TRUE /\ PrimeOut
    /\ UNCHANGED <<stack, inx, busy, final, frame, workVars, cmdVars, modeVars,
                   hostVars, queue, histVars>>

(* ccid_drv_reset(): the host gives up its command, if any. *)
UsbReset ==
    /\ stack /\ ep
    /\ ClosePipe
    /\ waiting' = FALSE
    /\ stale' = (stale \/ sem = 1 \/ wpc # "take" \/ queue # <<>>)
    /\ UNCHANGED <<stack, frame, workVars, cmdVars, modeVars, sent, got, queue, late, lost>>

\* Mutant: OUT is primed again at once, not after the answer.
HostSendsEarly == ep /\ out /\ ~waiting /\ sent < MaxCmd /\ UNCHANGED out

(* A bulk OUT transfer completes: ccid_dispatch(). *)
HostSends == ep /\ out /\ ~waiting /\ sent < MaxCmd /\ out' = FALSE

HostXfrBlock ==
    /\ HostSends
    /\ sent' = sent + 1 /\ waiting' = TRUE
    /\ outBuf' = sent' /\ cur' = sent'
    /\ busy' = TRUE /\ sem' = 1 /\ lost' = FALSE
    /\ UNCHANGED <<stack, ep, inx, final, frame, wpc, active, wcmd, inBuf,
                   modeVars, got, queue, late, stale>>

\* ICC_POWER_ON/OFF, GET_SLOT_STATUS, unknown: answered in the USB task.
\* A transfer that fails is only logged: s_final_queued stays set.
HostInline ==
    /\ HostSends
    /\ sent' = sent + 1 /\ waiting' = TRUE
    /\ outBuf' = sent'
    /\ final' = TRUE
    /\ inBuf' = <<sent', sent'>>
    /\ \/ /\ inx' = "final" /\ lost' = FALSE
          /\ frame' = [seq |-> sent', cmd |-> sent', full |-> FALSE]
       \/ lost' = TRUE /\ UNCHANGED <<inx, frame>>
    /\ UNCHANGED <<stack, ep, busy, cur, sem, wpc, active, wcmd, modeVars, got, queue,
                   late, stale>>

HostRunt ==
    /\ ep /\ out /\ ~waiting
    /\ IF busy THEN out' = FALSE ELSE PrimeOut
    /\ UNCHANGED <<stack, ep, inx, busy, final, frame, workVars, cmdVars,
                   modeVars, hostVars, queue, histVars>>
-----------------------------------------------------------------------------
(* ccid_worker() *)
\* Mutant: the semaphore is looked at, not taken.
WorkerTakeNot ==
    /\ wpc = "take" /\ sem = 1
    /\ wpc' = "mark"
    /\ UNCHANGED <<usbVars, sem, active, wcmd, inBuf, cmdVars, modeVars, hostVars, queue, histVars>>

WorkerTake ==
    /\ wpc = "take" /\ sem = 1
    /\ sem' = 0 /\ wpc' = "mark"
    /\ UNCHANGED <<usbVars, active, wcmd, inBuf, cmdVars, modeVars, hostVars, queue, histVars>>

WorkerMark ==
    /\ wpc = "mark"
    /\ active' = TRUE /\ wcmd' = outBuf /\ wpc' = "run"
    /\ UNCHANGED <<usbVars, sem, inBuf, cmdVars, modeVars, hostVars, queue, histVars>>

\* The applet runs; some commands wait for a touch.
WorkerRun ==
    /\ wpc = "run"
    /\ wpc' \in {"confirm", "reply"}
    /\ UNCHANGED <<usbVars, sem, active, wcmd, inBuf, cmdVars, modeVars, hostVars, queue, histVars>>

\* dongle_confirm_named() asks for more time, or ends.
WorkerWtx ==
    /\ wpc = "confirm" /\ ~shutdown
    /\ Len(SelectSeq(queue, LAMBDA cb : cb = Wtx)) < MaxQueue
    /\ Defer(Wtx)
    /\ UNCHANGED <<usbVars, workVars, cmdVars, modeVars, hostVars, histVars>>

WorkerConfirmed ==
    /\ wpc = "confirm" /\ wpc' = "reply"
    /\ UNCHANGED <<usbVars, sem, active, wcmd, inBuf, cmdVars, modeVars, hostVars, queue, histVars>>

\* The header echoes s_cur_seq as it is now; then the shutdown test.
WorkerReply ==
    /\ wpc = "reply"
    /\ inBuf' = <<cur, wcmd>>
    /\ IF shutdown THEN busy' = FALSE /\ wpc' = "done"
                   ELSE wpc' = "post" /\ UNCHANGED busy
    /\ UNCHANGED <<stack, ep, out, inx, final, frame, sem, active, wcmd, cmdVars,
                   modeVars, hostVars, queue, histVars>>

WorkerPost ==
    /\ wpc = "post" /\ wpc' = "done"
    /\ Defer(0)
    /\ UNCHANGED <<usbVars, sem, active, wcmd, inBuf, cmdVars, modeVars, hostVars, histVars>>

WorkerDone ==
    /\ wpc = "done" /\ wpc' = "take"
    /\ active' = FALSE
    /\ UNCHANGED <<usbVars, sem, wcmd, inBuf, cmdVars, modeVars, hostVars, queue, histVars>>

Worker == \/ WorkerTake \/ WorkerMark \/ WorkerRun \/ WorkerConfirmed
          \/ WorkerReply \/ WorkerPost \/ WorkerDone
-----------------------------------------------------------------------------
(* The USB task runs one deferred callback. *)
UsbWtx ==
    /\ stack /\ queue # <<>> /\ Head(queue) = Wtx
    /\ queue' = Tail(queue)
    /\ \/ ep /\ inx = "none" /\ inx' = "wtx"
       \/ UNCHANGED inx       \* closed, a transfer in flight, or refused
    /\ UNCHANGED <<stack, ep, out, busy, final, frame, workVars, cmdVars, modeVars, hostVars, histVars>>

\* ccid_send_final_cb(): dropped, retried, abandoned, sent, or refused.
UsbFinal ==
    /\ stack /\ queue # <<>> /\ Head(queue) # Wtx
    /\ \/ ~ep
          /\ final' = FALSE /\ busy' = FALSE
          /\ queue' = Tail(queue)
          /\ UNCHANGED <<inx, frame, lost>>
       \/ /\ ep /\ inx # "none"
          /\ queue' = IF Head(queue) < MaxRetries /\ ~shutdown
                      THEN Append(Tail(queue), Head(queue) + 1)
                      ELSE Tail(queue)
          /\ lost' = (lost \/ Head(queue) = MaxRetries)
          /\ UNCHANGED <<inx, frame, final, busy>>
       \/ /\ ep /\ inx = "none"
          /\ final' = TRUE
          /\ \/ /\ inx' = "final"
                /\ \E full \in BOOLEAN :
                     frame' = [seq |-> inBuf[1], cmd |-> inBuf[2], full |-> full]
                /\ UNCHANGED lost
             \/ lost' = TRUE /\ UNCHANGED <<inx, frame>>
          /\ queue' = Tail(queue)
          /\ UNCHANGED busy
    /\ UNCHANGED <<stack, ep, out, workVars, cmdVars, modeVars, hostVars, late, stale>>

\* Mutant: no ZLP after an answer of full packets.
NeedsZlpNever == FALSE

(* The host fetches the IN transfer: ccid_drv_xfer().  A message ends with *)
(* a short packet, so a frame of full packets only needs a ZLP after it.   *)
NeedsZlp == inx = "final" /\ frame.full

HostFetches ==
    /\ stack /\ inx # "none"
    /\ \/ /\ ~final
          /\ inx' = "none"
          /\ UNCHANGED <<final, busy, out, waiting, got, lost>>
       \/ /\ final /\ NeedsZlp
          /\ inx' = "zlp"
          /\ UNCHANGED <<final, busy, out, waiting, got, lost>>
       \/ /\ final /\ NeedsZlp
          \* the ZLP is refused: ready again, but the host's read has no end
          /\ inx' = "none" /\ lost' = TRUE
          /\ Reprime
          /\ UNCHANGED <<waiting, got>>
       \/ /\ final /\ ~NeedsZlp
          /\ inx' = "none"
          /\ Reprime
          \* the host's read returns: on a short packet, or on the ZLP
          /\ IF inx = "zlp" \/ (inx = "final" /\ ~frame.full)
             THEN waiting' = FALSE /\ got' = <<frame.seq, frame.cmd>>
             ELSE UNCHANGED <<waiting, got>>
          /\ UNCHANGED lost
    /\ UNCHANGED <<stack, ep, frame, workVars, cmdVars, modeVars, sent, queue, late, stale>>
-----------------------------------------------------------------------------
(* usb_mode_set(): ccid_shutdown(), uninstall, install. *)
ModeStop ==
    /\ mpc = "none" /\ switches < MaxSwitch
    /\ shutdown' = TRUE /\ mpc' = "waiting" /\ switches' = switches + 1
    /\ UNCHANGED <<usbVars, workVars, cmdVars, hostVars, queue, histVars>>

\* ccid_shutdown() waits for the worker, 2 s at most.
WorkerAtRest == ~active /\ sem = 0
ModeWait ==
    /\ mpc = "waiting" /\ mpc' = "stopped"
    /\ late' = (late \/ ~WorkerAtRest)
    /\ busy' = FALSE /\ final' = FALSE
    /\ UNCHANGED <<stack, ep, out, inx, frame, workVars, cmdVars, shutdown,
                   switches, hostVars, queue, stale, lost>>

\* tusb_deinit(): ccid_drv_deinit(), then the queue is destroyed.
ModeDown ==
    /\ mpc = "stopped" /\ mpc' = "down"
    /\ stack' = FALSE
    /\ ClosePipe
    /\ queue' = <<>>
    /\ waiting' = FALSE
    /\ UNCHANGED <<frame, workVars, cmdVars, shutdown, switches, sent, got, histVars>>

\* ccid_drv_init().  The worker may still be in a command that it took in
\* the window before s_worker_active, or that was sent after the wait.
ModeUp ==
    /\ mpc = "down"
    /\ late' = (late \/ wpc # "take" \/ sem = 1)
    /\ mpc' = "none"
    /\ stack' = TRUE
    /\ ep' = FALSE
    /\ shutdown' = FALSE
    /\ UNCHANGED <<out, inx, busy, final, frame, workVars, cmdVars, switches,
                   hostVars, queue, stale, lost>>

UsbTask == UsbWtx \/ UsbFinal
ModeSwitch == ModeWait \/ ModeDown \/ ModeUp

Next == \/ UsbOpen \/ UsbReset \/ HostXfrBlock \/ HostInline \/ HostRunt
        \/ Worker \/ WorkerWtx \/ UsbTask \/ HostFetches \/ ModeStop \/ ModeSwitch

Spec == Init /\ [][Next]_vars

(* FreeRTOS schedules the worker, the USB task and the task that switches  *)
(* modes; a wait for a touch is bounded by its deadline (ConfirmLink); the *)
(* host fetches what is ready.  Nothing is assumed of its commands, nor of *)
(* ccid_shutdown()'s timeout: the worker alone must end that wait.         *)
FairSpec == /\ Spec
            /\ WF_vars(Worker) /\ WF_vars(UsbTask) /\ WF_vars(HostFetches)
            /\ WF_vars(ModeWait /\ WorkerAtRest) /\ WF_vars(ModeDown \/ ModeUp)
-----------------------------------------------------------------------------
(* A callback is never posted to the queue of a stack that is being or has *)
(* been torn down: s_shutdown is tested and the callback posted under one  *)
(* lock, and ccid_shutdown() sets it under that lock (BLOQUANT 1).         *)
NoPostToDeadQueue ==
    [][Len(queue') > Len(queue) => stack /\ mpc = "none"]_vars

(* The worker owns its buffers while it executes a command, a mode switch  *)
(* or not: the host cannot be writing s_out_buf, nor a transfer be reading *)
(* s_in_buf.                                                               *)
BuffersOwned ==
    wpc \in {"run", "confirm", "reply"} /\ ~late /\ ~stale
       => ~out /\ inx \notin {"final", "zlp"}

(* The host never takes the answer of one command for the answer of        *)
(* another: what it receives carries the number of the command it is       *)
(* waiting on, in the header and in the content (unless the worker         *)
(* outlived a mode switch or a reset of the bus: ccid_send_final_cb()      *)
(* drops the stale answer only while the interface is not open again).     *)
AnswerMatchesCommand ==
    [][got' # got /\ ~late /\ ~stale => waiting /\ got' = <<sent, sent>>]_vars

\* The host's command: the worker has it to execute, or has executed it.
phaseBar ==
    IF ~waiting THEN "idle"
    ELSE IF sem = 1 \/ wpc \in {"mark", "run", "confirm", "reply"} THEN "asked"
    ELSE "done"

Slot == INSTANCE CardSlot WITH
    phase <- phaseBar, number <- sent, told <- got, undefined <- late \/ stale

(* A command is executed once and answered once, in the order in which the *)
(* host asks; no answer leaves before its execution has ended, and none    *)
(* after the host gave up.  It holds across a semaphore, two tasks and a   *)
(* queue that puts the answer back 200 times.                              *)
OneAnswerPerCommand == Slot!SlotSpec

(* Every command of the host is answered, unless the bus is reset or the   *)
(* mode switched first; or its answer found a WTX in flight 200 times, or  *)
(* its transfer was refused (ccid.c only logs it), or the worker outlived  *)
(* a mode switch.                                                          *)
CommandAnswered == waiting ~> (~waiting \/ late \/ lost)

(* A mode switch always completes, and needs no timeout for it: the worker *)
(* leaves its command, and no other can follow it for ever.                *)
SwitchCompletes == (mpc # "none") ~> (mpc = "none")

(* Nothing in the transport hangs: both of the above.                      *)
PipeNeverHangs == CommandAnswered /\ SwitchCompletes
=============================================================================
