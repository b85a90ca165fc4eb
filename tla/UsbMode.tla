------------------------------ MODULE UsbMode ------------------------------
(***************************************************************************)
(* One USB function at a time: main/usb/usb_mode.c and usb_device.c.       *)
(*                                                                         *)
(* A switch stops the old mode, makes usb_task leave its loop, detaches,   *)
(* disarms the confirmation latch, installs the new descriptors and starts *)
(* the new mode.  It runs in the caller's task: the console, the MODE      *)
(* button or link_task.  Meanwhile usb_task delivers the host's requests   *)
(* (to the HID callbacks, or to the CCID worker), until it has left.       *)
(***************************************************************************)
EXTENDS Naturals

CONSTANTS
    Setters,        \* tasks that name a mode: usb_mode_set()
    Cyclers,        \* tasks that ask for the next one: usb_mode_cycle_next()
    Targets         \* the modes the setters ask for

Callers == Setters \cup Cyclers
Modes == {"NONE", "STORAGE", "PGP", "OTP", "FIDO", "OATH"}
Ccid == {"PGP", "OATH"}
Hid == {"OTP", "FIDO"}

ASSUME ModeAssumption == Targets \subseteq Modes

VARIABLES
    mode, known,    \* s_mode, s_mode_known
    busy,           \* s_busy
    pc, want, ret,  \* per caller: where it is, what it asks, its result
    exposed,        \* the mode whose descriptors are on the bus (s_phy # NULL)
    taskSet,        \* s_task # NULL
    taskRun,        \* s_task_run
    token,          \* s_task_done
    inLoop,         \* usb_task has not left its loop
    table,          \* hid_dispatch's s_h
    cb,             \* the HID handler usb_task is executing
    shutdown,       \* ccid.c's s_shutdown
    applet,         \* s_applet: OpenPGP by default, or the OATH applet
    loaded,         \* the OpenPGP state was read back from NVS
    sem,            \* the mode of the command given to the CCID worker
                    \* (s_msg_ready), or "NONE"
    worker,         \* the CCID worker
    by,             \* the mode that its command came under, or "NONE"
    latch           \* the mode whose operation is armed in sec_confirm

modeVars == <<mode, known, busy>>
devVars == <<exposed, taskSet, taskRun, token>>
taskVars == <<inLoop, cb>>
serveVars == <<table, shutdown, applet, loaded>>
workVars == <<sem, worker, by>>
vars == <<modeVars, pc, want, ret, devVars, taskVars, serveVars, workVars, latch>>

TypeOK ==
    /\ mode \in Modes /\ known \in BOOLEAN /\ busy \in BOOLEAN
    /\ pc \in [Callers -> {"idle", "enter", "check", "stop", "leave", "await",
                           "detach", "purge", "install", "start"}]
    /\ want \in [Callers -> Modes]
    /\ ret \in [Callers -> {"none", "OK", "BUSY", "TIMEOUT", "FAIL"}]
    /\ exposed \in Modes /\ taskSet \in BOOLEAN /\ taskRun \in BOOLEAN
    /\ token \in 0 .. 1 /\ inLoop \in BOOLEAN
    /\ table \in Hid \cup {"NONE"} /\ cb \in Hid \cup {"NONE"}
    /\ shutdown \in BOOLEAN /\ applet \in Ccid /\ loaded \in BOOLEAN
    /\ sem \in Ccid \cup {"NONE"} /\ by \in Ccid \cup {"NONE"}
    /\ worker \in {"idle", "run", "touch"}
    /\ latch \in Ccid \cup Hid \cup {"NONE"}

\* usb_mode_init(): nothing is installed.
Init ==
    /\ mode = "NONE" /\ known = TRUE /\ busy = FALSE
    /\ pc = [c \in Callers |-> "idle"]
    /\ want = [c \in Callers |-> "NONE"]
    /\ ret = [c \in Callers |-> "none"]
    /\ exposed = "NONE" /\ taskSet = FALSE /\ taskRun = FALSE /\ token = 0
    /\ inLoop = FALSE /\ cb = "NONE"
    /\ table = "NONE" /\ shutdown = FALSE /\ applet = "PGP" /\ loaded = FALSE
    /\ sem = "NONE" /\ worker = "idle" /\ by = "NONE"
    /\ latch = "NONE"
-----------------------------------------------------------------------------
\* usb_mode_cycle_after()
CycleAfter(m) ==
    CASE m = "PGP" -> "OTP" [] m = "OTP" -> "FIDO" [] m = "FIDO" -> "OATH"
      [] OTHER -> "PGP"

At(c, here, there) == pc[c] = here /\ pc' = [pc EXCEPT ![c] = there]

\* Every return after busy_try_acquire() succeeded releases the flag.
Return(c, r, m, k) ==
    /\ pc' = [pc EXCEPT ![c] = "idle"]
    /\ ret' = [ret EXCEPT ![c] = r]
    /\ mode' = m /\ known' = k
    /\ busy' = FALSE

\* The cycler reads s_mode here, before it takes the flag.
Call(c) ==
    /\ At(c, "idle", "enter")
    /\ \E w \in IF c \in Cyclers THEN {CycleAfter(mode)} ELSE Targets :
         want' = [want EXCEPT ![c] = w]
    /\ ret' = [ret EXCEPT ![c] = "none"]
    /\ UNCHANGED <<modeVars, devVars, taskVars, serveVars, workVars, latch>>

\* busy_try_acquire(): refused at once, never queued.
Enter(c) ==
    /\ pc[c] = "enter"
    /\ busy' = TRUE
    /\ pc' = [pc EXCEPT ![c] = IF busy THEN "idle" ELSE "check"]
    /\ ret' = IF busy THEN [ret EXCEPT ![c] = "BUSY"] ELSE ret
    /\ UNCHANGED <<mode, known, want, devVars, taskVars, serveVars, workVars, latch>>

Check(c) ==
    /\ pc[c] = "check"
    /\ \/ /\ want[c] = mode /\ known
          /\ Return(c, "OK", mode, known)
       \/ /\ ~(want[c] = mode /\ known)
          /\ pc' = [pc EXCEPT ![c] = "stop"]
          /\ UNCHANGED <<modeVars, ret>>
    /\ UNCHANGED <<want, devVars, taskVars, serveVars, workVars, latch>>

\* mode_pgp_stop(), mode_oath_stop(): close the gate of the deferred
\* callbacks; mode_otp_stop(), mode_fido_stop(): unplug the handlers.
Stop(c) ==
    /\ At(c, "stop", "leave")
    /\ shutdown' = (shutdown \/ mode \in Ccid)
    /\ table' = IF mode \in Hid THEN "NONE" ELSE table
    /\ UNCHANGED <<modeVars, want, ret, devVars, taskVars, applet, loaded,
                   workVars, latch>>

\* Mutant: every attempt drops the token, even a new one.
LeavePurges(c) ==
    /\ At(c, "leave", IF exposed = "NONE" /\ ~taskSet THEN "purge" ELSE "await")
    /\ mode \in Ccid => sem = "NONE" \/ worker # "idle"
    /\ applet' = IF mode = "OATH" THEN "PGP" ELSE applet
    /\ known' = FALSE /\ token' = 0 /\ taskRun' = FALSE
    /\ UNCHANGED <<mode, busy, want, ret, exposed, taskSet, taskVars, table,
                   shutdown, loaded, workVars, latch>>

\* ccid_shutdown() has seen the worker at rest, or waited 2 s (by then a worker
\* at rest has long taken its command); mode_oath_stop() unplugs the applet;
\* usb_device_uninstall() begins.  A token left by a task that went out after a
\* timeout is kept when this is a new attempt.
Leave(c) ==
    /\ At(c, "leave", IF exposed = "NONE" /\ ~taskSet THEN "purge" ELSE "await")
    /\ mode \in Ccid => sem = "NONE" \/ worker # "idle"
    /\ applet' = IF mode = "OATH" THEN "PGP" ELSE applet
    /\ known' = FALSE
    /\ token' = IF taskSet /\ taskRun THEN 0 ELSE token
    /\ taskRun' = FALSE
    /\ UNCHANGED <<mode, busy, want, ret, exposed, taskSet, taskVars, table,
                   shutdown, loaded, workVars, latch>>

TaskLeft(c) ==
    /\ At(c, "await", "detach")
    /\ token = 1 /\ token' = 0
    /\ taskSet' = FALSE
    /\ UNCHANGED <<modeVars, want, ret, exposed, taskRun, taskVars, serveVars,
                   workVars, latch>>

\* Mutant: the flag is not given back on this path.
TaskStuckBusy(c) ==
    /\ pc[c] = "await" /\ token = 0
    /\ pc' = [pc EXCEPT ![c] = "idle"]
    /\ ret' = [ret EXCEPT ![c] = "TIMEOUT"]
    /\ UNCHANGED <<modeVars, want, devVars, taskVars, serveVars, workVars, latch>>

\* One second went by: nothing is detached, and the old mode is announced.
TaskStuck(c) ==
    /\ pc[c] = "await" /\ token = 0
    /\ Return(c, "TIMEOUT", mode, FALSE)
    /\ UNCHANGED <<want, devVars, taskVars, serveVars, workVars, latch>>

\* tud_disconnect(), tusb_deinit(), usb_del_phy()
Detach(c) ==
    /\ At(c, "detach", "purge")
    /\ exposed' = "NONE"
    /\ UNCHANGED <<modeVars, want, ret, taskSet, taskRun, token, taskVars,
                   serveVars, workVars, latch>>

\* Mutant: the latch is not disarmed.
PurgeNot(c) ==
    /\ pc[c] = "purge"
    /\ \/ want[c] = "NONE" /\ Return(c, "OK", "NONE", TRUE)
       \/ /\ want[c] # "NONE"
          /\ pc' = [pc EXCEPT ![c] = "install"]
          /\ UNCHANGED <<modeVars, ret>>
    /\ UNCHANGED <<want, devVars, taskVars, serveVars, workVars, latch>>

\* sec_confirm_reset(), only now that there is no way back.
Purge(c) ==
    /\ pc[c] = "purge"
    /\ latch' = "NONE"
    /\ \/ want[c] = "NONE" /\ Return(c, "OK", "NONE", TRUE)
       \/ /\ want[c] # "NONE"
          /\ pc' = [pc EXCEPT ![c] = "install"]
          /\ UNCHANGED <<modeVars, ret>>
    /\ UNCHANGED <<want, devVars, taskVars, serveVars, workVars>>

\* tusb_init() runs ccid_drv_init() whatever the mode: the gate opens, the
\* applet is the default one again, the PINs in RAM are the factory's.
DriverInit == shutdown' = FALSE /\ applet' = "PGP" /\ loaded' = FALSE

Install(c) ==
    /\ At(c, "install", "start")
    /\ exposed' = want[c]
    /\ taskSet' = TRUE /\ taskRun' = TRUE /\ inLoop' = TRUE
    /\ DriverInit
    /\ UNCHANGED <<modeVars, want, ret, token, cb, table, workVars, latch>>

\* The disk, the PHY, tusb_init() or the task's creation fails: undone.
InstallFails(c) ==
    /\ pc[c] = "install"
    /\ DriverInit \/ UNCHANGED <<shutdown, applet, loaded>>
    /\ Return(c, "FAIL", "NONE", FALSE)
    /\ UNCHANGED <<want, devVars, taskVars, table, workVars, latch>>

\* mode_pgp_data_load(), mode_otp_start(), mode_fido_start(),
\* mode_oath_start(): after the installation, which resets what they set.
Start(c) ==
    /\ pc[c] = "start"
    /\ table' = IF want[c] \in Hid THEN want[c] ELSE table
    /\ applet' = IF want[c] = "OATH" THEN "OATH" ELSE applet
    /\ loaded' = (loaded \/ want[c] = "PGP")
    /\ Return(c, "OK", want[c], TRUE)
    /\ UNCHANGED <<want, devVars, taskVars, shutdown, workVars, latch>>

Switch(c) == \/ Enter(c) \/ Check(c) \/ Stop(c) \/ Leave(c) \/ TaskLeft(c)
             \/ TaskStuck(c) \/ Detach(c) \/ Purge(c) \/ Install(c)
             \/ InstallFails(c) \/ Start(c)
-----------------------------------------------------------------------------
(* usb_task *)
UsbLeave ==
    /\ inLoop /\ ~taskRun /\ cb = "NONE"
    /\ inLoop' = FALSE
    /\ token' = 1
    /\ UNCHANGED <<modeVars, pc, want, ret, exposed, taskSet, taskRun, cb,
                   serveVars, workVars, latch>>

\* A tud_hid_*_cb reads s_h once and calls through its copy.
CbBegin ==
    /\ inLoop /\ cb = "NONE" /\ table # "NONE"
    /\ cb' = table
    /\ UNCHANGED <<modeVars, pc, want, ret, devVars, inLoop, serveVars,
                   workVars, latch>>

\* The handler arms the latch, consumes it, or neither.
CbEnd ==
    /\ cb # "NONE" /\ cb' = "NONE"
    /\ latch' \in {cb, "NONE", latch}
    /\ UNCHANGED <<modeVars, pc, want, ret, devVars, inLoop, serveVars, workVars>>

\* An XfrBlock: ccid_dispatch() does not look at s_shutdown.  A bus reset
\* primes OUT again while the worker is still busy.
CcidCommand ==
    /\ inLoop /\ cb = "NONE" /\ exposed \in Ccid
    /\ sem' = exposed
    /\ UNCHANGED <<modeVars, pc, want, ret, devVars, taskVars, serveVars,
                   worker, by, latch>>

(* ccid_worker() *)
WorkerStart ==
    /\ worker = "idle" /\ worker' = "run"
    /\ sem # "NONE" /\ sem' = "NONE" /\ by' = sem
    /\ UNCHANGED <<modeVars, pc, want, ret, devVars, taskVars, serveVars, latch>>

\* dongle_confirm_named() arms without a look at s_shutdown.
WorkerArm ==
    /\ worker = "run" /\ worker' = "touch"
    /\ latch' = by
    /\ UNCHANGED <<modeVars, pc, want, ret, devVars, taskVars, serveVars, sem, by>>

\* The command ends; a wait for a touch always ends with the latch idle.
WorkerEnd ==
    /\ worker \in {"run", "touch"} /\ worker' = "idle" /\ by' = "NONE"
    /\ latch' = IF worker = "touch" THEN "NONE" ELSE latch
    /\ UNCHANGED <<modeVars, pc, want, ret, devVars, taskVars, serveVars, sem>>

Worker == WorkerStart \/ WorkerArm \/ WorkerEnd

Next == \/ \E c \in Callers : Call(c) \/ Switch(c)
        \/ UsbLeave \/ CbBegin \/ CbEnd \/ CcidCommand
        \/ Worker

Spec == Init /\ [][Next]_vars

(* FreeRTOS schedules the callers, whose waits all have a timeout (no flow *)
(* of commands makes ccid_shutdown()'s longer), and the worker, whose      *)
(* commands end.  Nothing is assumed of usb_task or the host.              *)
FairSpec == /\ Spec
            /\ WF_vars(Worker)
            /\ \A c \in Callers : WF_vars(Switch(c)) /\ SF_vars(Leave(c))
-----------------------------------------------------------------------------
(* "What s_mode says must describe what the HOST sees, not the caller's    *)
(* intention" (usb_mode_state.h): outside a switch, after every failure,   *)
(* and whenever the mode is said to be known.                              *)
HostSeesMode == known \/ ~busy => mode = exposed

(* The stack is torn down alone: usb_task has left its loop, no HID        *)
(* handler is executing, and the gate of the CCID callbacks is shut.       *)
TeardownAlone ==
    [][exposed # "NONE" /\ exposed' = "NONE"
         => ~inLoop /\ cb = "NONE" /\ (exposed \in Ccid => shutdown)]_vars

(* A refused uninstallation is never final: it is refused only while       *)
(* usb_task is still in its loop, so an attempt made after it left         *)
(* succeeds, whichever attempt asked it to leave.                          *)
RefusedOnlyIfAlive ==
    [][\A c \in Callers : pc[c] = "await" /\ pc'[c] = "idle" => inLoop]_vars

(* A failed switch leaves a device that is alive, and a successful one a   *)
(* device that is quiet: both of the above.                                *)
UninstallIsSafe == TeardownAlone /\ RefusedOnlyIfAlive

(* A mode announced as known can serve its host: its handlers or applet    *)
(* are plugged in, its state is loaded and the CCID gate is open, though   *)
(* installing the stack resets all of them.                                *)
KnownIsServed ==
    known /\ ~busy =>
       /\ mode \in Hid => table = mode
       /\ mode \in Ccid => applet = mode /\ ~shutdown
       /\ mode = "PGP" => loaded

(* No HID handler runs or can be called for another mode than the one the  *)
(* host sees, so no request reaches a mode that was left.                  *)
NoForeignCallback ==
    /\ cb # "NONE" => cb = exposed
    /\ table # "NONE" => table = exposed

(* sec_confirm_reset() leaves nothing armed by the mode that was left, by  *)
(* its HID handlers least of all.  There is one gap in what usb_mode.c says *)
(* of it: the CCID worker may take a command after ccid_shutdown()'s wait  *)
(* and arm after the reset.  Whatever is armed for another mode than the   *)
(* one the host sees belongs to such a command, which still waits, and     *)
(* goes with it.                                                           *)
ForeignIsHeld ==
    exposed # "NONE" /\ latch \notin {"NONE", exposed}
      => worker = "touch" /\ latch = by

(* One mode at a time, announced as it is and served by its own callbacks, *)
(* applet and operations: the invariants above that hold.                  *)
ModesDoNotMix ==
    HostSeesMode /\ KnownIsServed /\ NoForeignCallback /\ ForeignIsHeld

(* Every accepted switch ends and gives the flag back.                     *)
SwitchEnds == busy ~> ~busy

=============================================================================
