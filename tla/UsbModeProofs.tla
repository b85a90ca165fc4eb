--------------------------- MODULE UsbModeProofs ---------------------------
(***************************************************************************)
(* Proofs about the switch of the USB mode: for any number of tasks that   *)
(* ask for a mode, in any order, with usb_task, its HID callbacks and the  *)
(* CCID worker running in between.                                         *)
(***************************************************************************)
EXTENDS UsbMode, TLAPS

(* The flag s_busy lets one caller at a time into the switch.              *)
Switching(c) == pc[c] \notin {"idle", "enter"}

\* One task at most is past the test of s_busy.
LockInv ==
    /\ \A c \in Callers : Switching(c) => busy
    /\ \A c, d \in Callers : Switching(c) /\ Switching(d) => c = d

(* How far the switch is, and the mode it was asked for.                   *)
Switcher == CHOOSE c \in Callers : Switching(c)

\* Where the task that switches is, and the mode it is switching to.
Place == IF \E c \in Callers : Switching(c) THEN pc[Switcher] ELSE "out"
Goal == want[Switcher]

(* What the host can ask of the present mode is answered by that mode.     *)
Served ==
    /\ mode \in Hid => table = mode
    /\ mode \in Ccid => applet = mode /\ ~shutdown
    /\ mode = "PGP" => loaded

(* What the host sees is the mode until it is detached, nothing after, and *)
(* the mode asked for once it is installed.                                *)
ExposedInv ==
    /\ Place \in {"await", "detach", "purge", "install", "start"} => ~known
    /\ Place \in {"purge", "install"} => exposed = "NONE"
    /\ Place \in {"install", "start"} => Goal # "NONE"
    /\ Place = "start" => exposed = Goal
    /\ Place \notin {"purge", "install", "start"} => exposed = mode

(* usb_task is in its loop, or has left its token, or has been forgotten;  *)
(* only a task that was asked to leave leaves its token.                   *)
TaskInv ==
    /\ taskSet <=> (exposed # "NONE" /\ Place # "detach")
    /\ inLoop <=> (taskSet /\ token = 0)
    /\ token = 1 => taskSet /\ ~taskRun
    /\ Place = "await" => taskSet

(* Nothing of a mode is plugged in while it is being left.                 *)
ServeInv ==
    /\ cb # "NONE" => inLoop /\ cb = exposed
    /\ table # "NONE" => table = exposed /\ Place \in {"out", "check", "stop"}
    /\ Place \in {"leave", "await", "detach"} /\ exposed \in Ccid => shutdown
    /\ Place = "start" => applet = "PGP" /\ ~shutdown
    /\ known /\ Place # "leave" => Served

(* After sec_confirm_reset() only a command that outlived its mode can arm *)
(* the latch for it, and the latch is its own as long as it waits.         *)
LatchInv ==
    /\ ForeignIsHeld
    /\ Place = "install" /\ latch # "NONE" => worker = "touch" /\ latch = by

\* The inductive invariant of the announced mode.
ModeInv == ExposedInv /\ TaskInv /\ ServeInv
-----------------------------------------------------------------------------
(* The state of the switch stays in its types.                             *)
THEOREM TypeCorrect == Spec => []TypeOK
<1>. USE ModeAssumption DEF Callers
<1>1. Init => TypeOK
  <2>. SUFFICES ASSUME Init PROVE TypeOK
    OBVIOUS
  <2>1. /\ mode \in Modes /\ exposed \in Modes /\ table \in Hid \cup {"NONE"}
        /\ cb \in Hid \cup {"NONE"} /\ applet \in Ccid /\ by \in Ccid \cup {"NONE"}
        /\ latch \in Ccid \cup Hid \cup {"NONE"} /\ token \in 0 .. 1
    BY DEF Init, Modes, Ccid, Hid
  <2>2. want \in [Callers -> Modes]
    BY DEF Init, Modes
  <2>. QED
    BY <2>1, <2>2 DEF Init, TypeOK
<1>2. TypeOK /\ [Next]_vars => TypeOK'
  <2>. SUFFICES ASSUME TypeOK, [Next]_vars PROVE TypeOK'
    OBVIOUS
  <2>m. \A m \in Modes : CycleAfter(m) \in Modes
    BY DEF CycleAfter, Modes
  <2>1. ASSUME NEW c \in Callers, Call(c) PROVE TypeOK'
    <3>1. PICK w \in Modes : want' = [want EXCEPT ![c] = w]
      BY <2>1, <2>m DEF Call, TypeOK
    <3>2. pc' = [pc EXCEPT ![c] = "enter"] /\ ret' = [ret EXCEPT ![c] = "none"]
      BY <2>1 DEF Call, At
    <3>. QED
      BY <2>1, <3>1, <3>2 DEF Call, TypeOK, modeVars, devVars, taskVars, serveVars, workVars
  <2>2. ASSUME NEW c \in Callers, Enter(c) PROVE TypeOK'
    BY <2>2 DEF Enter, TypeOK, devVars, taskVars, serveVars, workVars
  <2>3. ASSUME NEW c \in Callers, Check(c) PROVE TypeOK'
    <3>1. \E p \in {"idle", "stop"} : pc' = [pc EXCEPT ![c] = p]
      BY <2>3 DEF Check, Return
    <3>2. ret' = ret \/ ret' = [ret EXCEPT ![c] = "OK"]
      BY <2>3 DEF Check, Return
    <3>3. /\ UNCHANGED <<mode, known, want, devVars, taskVars, serveVars, workVars, latch>>
          /\ busy' \in BOOLEAN
      BY <2>3 DEF Check, Return, modeVars, TypeOK
    <3>. QED
      BY <3>1, <3>2, <3>3 DEF TypeOK, devVars, taskVars, serveVars, workVars
  <2>4. ASSUME NEW c \in Callers, Stop(c) PROVE TypeOK'
    BY <2>4 DEF Stop, At, TypeOK, modeVars, devVars, taskVars, workVars
  <2>5. ASSUME NEW c \in Callers, Leave(c) PROVE TypeOK'
    <3>1. \E p \in {"purge", "await"} : pc' = [pc EXCEPT ![c] = p]
      BY <2>5 DEF Leave, At
    <3>2. applet' \in Ccid /\ token' \in 0 .. 1
      BY <2>5 DEF Leave, TypeOK, Ccid
    <3>3. /\ known' = FALSE /\ taskRun' = FALSE
          /\ UNCHANGED <<mode, busy, want, ret, exposed, taskSet, taskVars, table,
                         shutdown, loaded, workVars, latch>>
      BY <2>5 DEF Leave
    <3>. QED
      <4>1. pc' \in [Callers -> {"idle", "enter", "check", "stop", "leave", "await",
                                "detach", "purge", "install", "start"}]
        BY <3>1 DEF TypeOK
      <4>2. /\ mode' \in Modes /\ known' \in BOOLEAN /\ busy' \in BOOLEAN
            /\ want' \in [Callers -> Modes]
            /\ ret' \in [Callers -> {"none", "OK", "BUSY", "TIMEOUT", "FAIL"}]
        BY <3>3 DEF TypeOK
      <4>3. /\ exposed' \in Modes /\ taskSet' \in BOOLEAN /\ taskRun' \in BOOLEAN
            /\ inLoop' \in BOOLEAN /\ cb' \in Hid \cup {"NONE"}
        BY <3>3 DEF TypeOK, taskVars
      <4>4. /\ table' \in Hid \cup {"NONE"} /\ shutdown' \in BOOLEAN /\ loaded' \in BOOLEAN
            /\ worker' \in {"idle", "run", "touch"}
            /\ sem' \in Ccid \cup {"NONE"} /\ by' \in Ccid \cup {"NONE"}
            /\ latch' \in Ccid \cup Hid \cup {"NONE"}
        BY <3>3 DEF TypeOK, workVars
      <4>. QED
        BY <3>2, <4>1, <4>2, <4>3, <4>4 DEF TypeOK
  <2>6. ASSUME NEW c \in Callers, TaskLeft(c) PROVE TypeOK'
    <3>1. pc' = [pc EXCEPT ![c] = "detach"]
      BY <2>6 DEF TaskLeft, At, Return
    <3>2. pc' \in [Callers -> {"idle", "enter", "check", "stop", "leave", "await",
                            "detach", "purge", "install", "start"}]
      BY <3>1 DEF TypeOK
    <3>3. /\ want' \in [Callers -> Modes]
          /\ ret' \in [Callers -> {"none", "OK", "BUSY", "TIMEOUT", "FAIL"}]
      BY <2>6 DEF TaskLeft, Return, TypeOK
    <3>4. mode' \in Modes /\ known' \in BOOLEAN /\ busy' \in BOOLEAN
      BY <2>6 DEF TaskLeft, Return, TypeOK, modeVars
    <3>5. /\ exposed' \in Modes /\ taskSet' \in BOOLEAN /\ taskRun' \in BOOLEAN
          /\ token' \in 0 .. 1 /\ inLoop' \in BOOLEAN /\ cb' \in Hid \cup {"NONE"}
      <4>1. token' \in 0 .. 1
        BY <2>6 DEF TaskLeft
      <4>2. taskSet' \in BOOLEAN
        BY <2>6 DEF TaskLeft
      <4>3. exposed' \in Modes /\ taskRun' \in BOOLEAN
        BY <2>6 DEF TaskLeft, TypeOK
      <4>4. inLoop' \in BOOLEAN /\ cb' \in Hid \cup {"NONE"}
        BY <2>6 DEF TaskLeft, TypeOK, taskVars
      <4>. QED
        BY <4>1, <4>2, <4>3, <4>4
    <3>6. /\ table' \in Hid \cup {"NONE"} /\ shutdown' \in BOOLEAN
          /\ applet' \in Ccid /\ loaded' \in BOOLEAN
      BY <2>6 DEF TaskLeft, TypeOK, serveVars
    <3>7. /\ worker' \in {"idle", "run", "touch"}
          /\ sem' \in Ccid \cup {"NONE"} /\ by' \in Ccid \cup {"NONE"}
          /\ latch' \in Ccid \cup Hid \cup {"NONE"}
      BY <2>6 DEF TaskLeft, TypeOK, workVars
    <3>. QED
      BY <3>2, <3>3, <3>4, <3>5, <3>6, <3>7 DEF TypeOK
  <2>7. ASSUME NEW c \in Callers, TaskStuck(c) PROVE TypeOK'
    <3>1. pc' = [pc EXCEPT ![c] = "idle"]
      BY <2>7 DEF TaskStuck, At, Return
    <3>2. pc' \in [Callers -> {"idle", "enter", "check", "stop", "leave", "await",
                            "detach", "purge", "install", "start"}]
      BY <3>1 DEF TypeOK
    <3>3. /\ want' \in [Callers -> Modes]
          /\ ret' \in [Callers -> {"none", "OK", "BUSY", "TIMEOUT", "FAIL"}]
      BY <2>7 DEF TaskStuck, Return, TypeOK
    <3>4. mode' \in Modes /\ known' \in BOOLEAN /\ busy' \in BOOLEAN
      BY <2>7 DEF TaskStuck, Return, TypeOK, modeVars
    <3>5. /\ exposed' \in Modes /\ taskSet' \in BOOLEAN /\ taskRun' \in BOOLEAN
          /\ token' \in 0 .. 1 /\ inLoop' \in BOOLEAN /\ cb' \in Hid \cup {"NONE"}
      BY <2>7 DEF TaskStuck, TypeOK, devVars, taskVars
    <3>6. /\ table' \in Hid \cup {"NONE"} /\ shutdown' \in BOOLEAN
          /\ applet' \in Ccid /\ loaded' \in BOOLEAN
      BY <2>7 DEF TaskStuck, TypeOK, serveVars
    <3>7. /\ worker' \in {"idle", "run", "touch"}
          /\ sem' \in Ccid \cup {"NONE"} /\ by' \in Ccid \cup {"NONE"}
          /\ latch' \in Ccid \cup Hid \cup {"NONE"}
      BY <2>7 DEF TaskStuck, TypeOK, workVars
    <3>. QED
      BY <3>2, <3>3, <3>4, <3>5, <3>6, <3>7 DEF TypeOK
  <2>8. ASSUME NEW c \in Callers, Detach(c) PROVE TypeOK'
    BY <2>8 DEF Detach, At, TypeOK, modeVars, taskVars, serveVars, workVars, Modes
  <2>9. ASSUME NEW c \in Callers, Purge(c) PROVE TypeOK'
    <3>1. \E p \in {"idle", "install"} : pc' = [pc EXCEPT ![c] = p]
      BY <2>9 DEF Purge, Return
    <3>2. ret' = ret \/ ret' = [ret EXCEPT ![c] = "OK"]
      BY <2>9 DEF Purge, Return
    <3>3. /\ UNCHANGED <<want, devVars, taskVars, serveVars, workVars>> /\ latch' = "NONE"
          /\ mode' \in Modes /\ known' \in BOOLEAN /\ busy' \in BOOLEAN
      BY <2>9 DEF Purge, Return, modeVars, TypeOK, Modes
    <3>. QED
      BY <3>1, <3>2, <3>3 DEF TypeOK, devVars, taskVars, serveVars, workVars
  <2>10. ASSUME NEW c \in Callers, Install(c) PROVE TypeOK'
    <3>1. /\ pc' \in [Callers -> {"idle", "enter", "check", "stop", "leave", "await",
                                  "detach", "purge", "install", "start"}]
          /\ want' \in [Callers -> Modes]
          /\ ret' \in [Callers -> {"none", "OK", "BUSY", "TIMEOUT", "FAIL"}]
      BY <2>10 DEF Install, At, TypeOK
    <3>2. mode' \in Modes /\ known' \in BOOLEAN /\ busy' \in BOOLEAN
      BY <2>10 DEF Install, TypeOK, modeVars
    <3>3. /\ exposed' \in Modes /\ taskSet' \in BOOLEAN /\ taskRun' \in BOOLEAN
          /\ token' \in 0 .. 1 /\ inLoop' \in BOOLEAN /\ cb' \in Hid \cup {"NONE"}
          /\ table' \in Hid \cup {"NONE"}
      BY <2>10 DEF Install, TypeOK
    <3>4. shutdown' \in BOOLEAN /\ applet' \in Ccid /\ loaded' \in BOOLEAN
      BY <2>10 DEF Install, DriverInit, Ccid
    <3>5. /\ worker' \in {"idle", "run", "touch"}
          /\ sem' \in Ccid \cup {"NONE"} /\ by' \in Ccid \cup {"NONE"}
          /\ latch' \in Ccid \cup Hid \cup {"NONE"}
      BY <2>10 DEF Install, TypeOK, workVars
    <3>. QED
      BY <3>1, <3>2, <3>3, <3>4, <3>5 DEF TypeOK
  <2>11. ASSUME NEW c \in Callers, InstallFails(c) PROVE TypeOK'
    <3>1. shutdown' \in BOOLEAN /\ applet' \in Ccid /\ loaded' \in BOOLEAN
      BY <2>11 DEF InstallFails, DriverInit, TypeOK, Ccid
    <3>2. mode' \in Modes /\ known' \in BOOLEAN /\ busy' \in BOOLEAN
      BY <2>11 DEF InstallFails, Return, Modes
    <3>3. pc' = [pc EXCEPT ![c] = "idle"] /\ ret' = [ret EXCEPT ![c] = "FAIL"]
      BY <2>11 DEF InstallFails, Return
    <3>. QED
      BY <2>11, <3>1, <3>2, <3>3 DEF InstallFails, TypeOK, devVars, taskVars, workVars
  <2>12. ASSUME NEW c \in Callers, Start(c) PROVE TypeOK'
    <3>1. pc' = [pc EXCEPT ![c] = "idle"]
      BY <2>12 DEF Start, At, Return
    <3>2. pc' \in [Callers -> {"idle", "enter", "check", "stop", "leave", "await",
                            "detach", "purge", "install", "start"}]
      BY <3>1 DEF TypeOK
    <3>3. /\ want' \in [Callers -> Modes]
          /\ ret' \in [Callers -> {"none", "OK", "BUSY", "TIMEOUT", "FAIL"}]
      BY <2>12 DEF Start, Return, TypeOK
    <3>4. mode' \in Modes /\ known' \in BOOLEAN /\ busy' \in BOOLEAN
      BY <2>12 DEF Start, Return, TypeOK, modeVars
    <3>5. /\ exposed' \in Modes /\ taskSet' \in BOOLEAN /\ taskRun' \in BOOLEAN
          /\ token' \in 0 .. 1 /\ inLoop' \in BOOLEAN /\ cb' \in Hid \cup {"NONE"}
      BY <2>12 DEF Start, TypeOK, devVars, taskVars
    <3>6. /\ table' \in Hid \cup {"NONE"} /\ shutdown' \in BOOLEAN
          /\ applet' \in Ccid /\ loaded' \in BOOLEAN
      BY <2>12 DEF Start, TypeOK, serveVars, Ccid
    <3>7. /\ worker' \in {"idle", "run", "touch"}
          /\ sem' \in Ccid \cup {"NONE"} /\ by' \in Ccid \cup {"NONE"}
          /\ latch' \in Ccid \cup Hid \cup {"NONE"}
      BY <2>12 DEF Start, TypeOK, workVars
    <3>. QED
      BY <3>2, <3>3, <3>4, <3>5, <3>6, <3>7 DEF TypeOK
  <2>13. CASE UsbLeave \/ CbBegin \/ CbEnd \/ CcidCommand
    <3>1. CASE UsbLeave
      <4>1. token' \in 0 .. 1
        BY <3>1 DEF UsbLeave
      <4>2. /\ mode' \in Modes /\ known' \in BOOLEAN /\ busy' \in BOOLEAN
            /\ want' \in [Callers -> Modes]
        BY <3>1 DEF UsbLeave, TypeOK, modeVars
      <4>3. /\ pc' \in [Callers -> {"idle", "enter", "check", "stop", "leave", "await",
                                     "detach", "purge", "install", "start"}]
            /\ ret' \in [Callers -> {"none", "OK", "BUSY", "TIMEOUT", "FAIL"}]
        BY <3>1 DEF UsbLeave, TypeOK
      <4>4. /\ exposed' \in Modes /\ taskSet' \in BOOLEAN /\ taskRun' \in BOOLEAN
            /\ inLoop' \in BOOLEAN /\ cb' \in Hid \cup {"NONE"}
        BY <3>1 DEF UsbLeave, TypeOK
      <4>5. /\ table' \in Hid \cup {"NONE"} /\ shutdown' \in BOOLEAN
            /\ applet' \in Ccid /\ loaded' \in BOOLEAN
        BY <3>1 DEF UsbLeave, TypeOK, serveVars
      <4>6. /\ worker' \in {"idle", "run", "touch"}
            /\ sem' \in Ccid \cup {"NONE"} /\ by' \in Ccid \cup {"NONE"}
            /\ latch' \in Ccid \cup Hid \cup {"NONE"}
        BY <3>1 DEF UsbLeave, TypeOK, workVars
      <4>. QED
        BY <4>1, <4>2, <4>3, <4>4, <4>5, <4>6 DEF TypeOK
    <3>2. CASE CbBegin
      BY <3>2 DEF CbBegin, TypeOK, modeVars, devVars, serveVars, workVars
    <3>3. CASE CbEnd
      BY <3>3 DEF CbEnd, TypeOK, modeVars, devVars, serveVars, workVars
    <3>4. CASE CcidCommand
      BY <3>4 DEF CcidCommand, TypeOK, modeVars, devVars, taskVars, serveVars
    <3>. QED
      BY <2>13, <3>1, <3>2, <3>3, <3>4
  <2>14. CASE Worker
    BY <2>14 DEF Worker, WorkerStart, WorkerArm, WorkerEnd, TypeOK, modeVars, devVars,
                 taskVars, serveVars
  <2>15. CASE UNCHANGED vars
    BY <2>15 DEF vars, TypeOK, modeVars, devVars, taskVars, serveVars, workVars
  <2>. QED
    BY <2>1, <2>2, <2>3, <2>4, <2>5, <2>6, <2>7, <2>8, <2>9, <2>10, <2>11, <2>12,
       <2>13, <2>14, <2>15 DEF Next, Switch
<1>. QED
  BY <1>1, <1>2, PTL DEF Spec
-----------------------------------------------------------------------------
(* A caller inside the switch is the one whose progress Place tells.       *)
LEMMA InSwitch ==
    ASSUME LockInv, NEW c \in Callers, Switching(c)
    PROVE  Place = pc[c] /\ Goal = want[c] /\ busy
<1>1. Switcher \in Callers /\ Switching(Switcher)
  BY DEF Switcher
<1>2. Switcher = c
  BY <1>1 DEF LockInv
<1>. QED
  BY <1>2 DEF Place, Goal, LockInv

\* Task c moves on to p.
Goes(c, p) == pc' = [pc EXCEPT ![c] = p]

(* Nobody else moves while the caller c of the switch goes from its place  *)
(* to the next one.                                                        *)
LEMMA Moves ==
    ASSUME TypeOK, LockInv, LockInv', NEW c \in Callers, NEW p,
           Goes(c, p), pc[c] # "idle", want' = want
    PROVE  /\ pc[c] # "enter" => Place = pc[c] /\ Goal = want[c]
           /\ p \notin {"idle", "enter"} => Place' = p /\ Goal' = want[c]
           /\ p = "idle" /\ pc[c] # "enter" => Place' = "out"
<1>1. pc[c] # "enter" => Switching(c)
  BY DEF Switching
<1>2. /\ pc'[c] = p /\ \A d \in Callers : d # c => pc'[d] = pc[d]
  BY DEF Goes, TypeOK
<1>3. ASSUME p \notin {"idle", "enter"} PROVE Place' = p /\ Goal' = want[c]
  <2>1. Switching(c)'
    BY <1>2, <1>3 DEF Switching
  <2>2. Switcher' \in Callers /\ Switching(Switcher)'
    BY <2>1 DEF Switcher
  <2>3. Switcher' = c
    BY <2>1, <2>2 DEF LockInv
  <2>. QED
    BY <1>2, <2>1, <2>3 DEF Place, Goal
<1>4. ASSUME p = "idle", pc[c] # "enter" PROVE Place' = "out"
  <2>1. \A d \in Callers : ~Switching(d)'
    BY <1>1, <1>2, <1>4 DEF LockInv, Switching
  <2>. QED
    BY <2>1 DEF Place
<1>. QED
  BY <1>1, <1>3, <1>4, InSwitch

(* Nothing of the switch moves when nobody in it does.                     *)
LEMMA NobodyMoves ==
    ASSUME UNCHANGED <<pc, want>>
    PROVE  UNCHANGED <<Place, Goal>> /\ \A c \in Callers : Switching(c)' <=> Switching(c)
  BY DEF Place, Goal, Switcher, Switching

(* The flag is taken before the switch and given back with the result.     *)
LEMMA LockStep ==
    ASSUME TypeOK, LockInv, [Next]_vars
    PROVE  LockInv'
<1>. USE DEF LockInv
<1>1. ASSUME NEW c \in Callers, NEW p, pc' = [pc EXCEPT ![c] = p], Switching(c), busy' = busy
      PROVE  LockInv'
  BY <1>1 DEF Switching, TypeOK
<1>r. ASSUME NEW c \in Callers, pc' = [pc EXCEPT ![c] = "idle"], Switching(c)
      PROVE  LockInv'
  BY <1>r DEF Switching, TypeOK
<1>2. ASSUME NEW c \in Callers, Call(c) PROVE LockInv'
  BY <1>2 DEF Call, At, Switching, TypeOK, modeVars
<1>3. ASSUME NEW c \in Callers, Enter(c) PROVE LockInv'
  BY <1>3 DEF Enter, Switching, TypeOK
<1>4. ASSUME NEW c \in Callers, Switch(c), ~Enter(c) PROVE LockInv'
  <2>1. ASSUME Check(c) PROVE LockInv'
    <3>1. Switching(c)
      BY <2>1 DEF Check, At, Switching
    <3>2. \/ pc' = [pc EXCEPT ![c] = "idle"]
          \/ pc' = [pc EXCEPT ![c] = "stop"] /\ busy' = busy
      BY <2>1 DEF Check, Return, modeVars
    <3>. QED
      BY <1>1, <1>r, <3>1, <3>2
  <2>2. ASSUME Stop(c) PROVE LockInv'
    BY <1>1, <2>2 DEF Stop, At, modeVars, Switching
  <2>3. ASSUME Leave(c) PROVE LockInv'
    <3>1. Switching(c)
      BY <2>3 DEF Leave, At, Switching
    <3>2. \/ pc' = [pc EXCEPT ![c] = "purge"] /\ busy' = busy
          \/ pc' = [pc EXCEPT ![c] = "await"] /\ busy' = busy
      BY <2>3 DEF Leave, At
    <3>. QED
      BY <1>1, <1>r, <3>1, <3>2
  <2>4. ASSUME TaskLeft(c) PROVE LockInv'
    BY <1>1, <2>4 DEF TaskLeft, At, modeVars, Switching
  <2>5. ASSUME TaskStuck(c) PROVE LockInv'
    BY <1>r, <2>5 DEF TaskStuck, Return, Switching
  <2>6. ASSUME Detach(c) PROVE LockInv'
    BY <1>1, <2>6 DEF Detach, At, modeVars, Switching
  <2>7. ASSUME Purge(c) PROVE LockInv'
    <3>1. Switching(c)
      BY <2>7 DEF Purge, At, Switching
    <3>2. \/ pc' = [pc EXCEPT ![c] = "idle"]
          \/ pc' = [pc EXCEPT ![c] = "install"] /\ busy' = busy
      BY <2>7 DEF Purge, Return, modeVars
    <3>. QED
      BY <1>1, <1>r, <3>1, <3>2
  <2>8. ASSUME Install(c) PROVE LockInv'
    BY <1>1, <2>8 DEF Install, At, modeVars, Switching
  <2>9. ASSUME InstallFails(c) PROVE LockInv'
    BY <1>r, <2>9 DEF InstallFails, Return, Switching
  <2>10. ASSUME Start(c) PROVE LockInv'
    BY <1>r, <2>10 DEF Start, Return, At, Switching
  <2>. QED
    BY <1>4, <2>1, <2>2, <2>3, <2>4, <2>5, <2>6, <2>7, <2>8, <2>9, <2>10 DEF Switch
<1>5. CASE UNCHANGED <<pc, busy>>
  BY <1>5 DEF Switching
<1>6. UsbLeave \/ CbBegin \/ CbEnd \/ CcidCommand \/ Worker \/ UNCHANGED vars
        => UNCHANGED <<pc, busy>>
  BY DEF UsbLeave, CbBegin, CbEnd, CcidCommand, Worker, WorkerStart, WorkerArm, WorkerEnd,
         vars, modeVars
<1>. QED
  BY <1>2, <1>3, <1>4, <1>5, <1>6 DEF Next
(* Outside of the switch a caller comes and goes without being noticed.    *)
LEMMA Outside ==
    ASSUME TypeOK, LockInv, LockInv', NEW c \in Callers, NEW p \in {"idle", "enter"},
           Goes(c, p), pc[c] \in {"idle", "enter"},
           \A d \in Callers : d # c => want'[d] = want[d]
    PROVE  Place' = Place /\ (Place # "out" => Goal' = Goal)
<1>1. /\ pc'[c] = p /\ \A d \in Callers : d # c => pc'[d] = pc[d]
  BY DEF Goes, TypeOK
<1>2. CASE \A d \in Callers : ~Switching(d)
  <2>1. \A d \in Callers : ~Switching(d)'
    BY <1>1, <1>2 DEF Switching
  <2>. QED
    BY <1>2, <2>1 DEF Place
<1>3. ASSUME NEW d \in Callers, Switching(d) PROVE Place' = Place /\ Goal' = Goal
  <2>1. d # c
    BY <1>3 DEF Switching
  <2>2. Place = pc[d] /\ Goal = want[d]
    BY <1>3, InSwitch
  <2>3. Switching(d)'
    BY <1>1, <1>3, <2>1 DEF Switching
  <2>4. Switcher' \in Callers /\ Switching(Switcher)'
    BY <2>3 DEF Switcher
  <2>5. Switcher' = d
    BY <2>3, <2>4 DEF LockInv
  <2>. QED
    BY <1>1, <2>1, <2>2, <2>3, <2>5 DEF Place, Goal
<1>. QED
  BY <1>2, <1>3

(* Nobody is in the switch while the flag is free.                         *)
LEMMA FreeIsOut ==
    ASSUME LockInv, ~busy
    PROVE  Place = "out"
  BY DEF LockInv, Place
-----------------------------------------------------------------------------
(* One step of a switch, of usb_task or of the worker, seen from the mode, *)
(* its stack and what it serves.                                           *)
LEMMA ModeStep ==
    ASSUME TypeOK, LockInv, LockInv', ModeInv, [Next]_vars
    PROVE  ModeInv'
<1>. USE DEF ModeInv
<1>t. /\ mode \in Modes /\ exposed \in Modes /\ token \in {0, 1}
      /\ table \in Hid \cup {"NONE"} /\ cb \in Hid \cup {"NONE"} /\ applet \in Ccid
      /\ \A c \in Callers : want[c] \in Modes
  <2>1. token \in {0, 1}
    BY DEF TypeOK
  <2>. QED
    BY <2>1 DEF TypeOK
<1>s. ASSUME UNCHANGED <<mode, known, exposed, taskSet, taskRun, token, inLoop, cb, table,
                         shutdown, applet, loaded>>,
             Place' = Place, Place # "out" => Goal' = Goal
      PROVE  ModeInv'
  <2>1. Served' <=> Served
    BY <1>s DEF Served
  <2>. QED
    BY <1>s, <2>1 DEF ExposedInv, TaskInv, ServeInv
<1>1. ASSUME NEW c \in Callers, Call(c) PROVE ModeInv'
  <2>1. /\ UNCHANGED <<mode, known, exposed, taskSet, taskRun, token, inLoop, cb, table,
                       shutdown, applet, loaded>>
        /\ Goes(c, "enter") /\ pc[c] = "idle"
        /\ \A d \in Callers : d # c => want'[d] = want[d]
    BY <1>1 DEF Call, At, Goes, modeVars, devVars, taskVars, serveVars, TypeOK
  <2>. QED
    BY <1>s, <2>1, Outside
<1>2. ASSUME NEW c \in Callers, Enter(c) PROVE ModeInv'
  <2>1. /\ UNCHANGED <<mode, known, exposed, taskSet, taskRun, token, inLoop, cb, table,
                       shutdown, applet, loaded, want>>
        /\ pc[c] = "enter"
    BY <1>2 DEF Enter, devVars, taskVars, serveVars
  <2>2. CASE busy
    <3>1. Goes(c, "idle")
      BY <1>2, <2>2 DEF Enter, Goes
    <3>. QED
      BY <1>s, <2>1, <3>1, Outside
  <2>3. CASE ~busy
    <3>1. Goes(c, "check")
      BY <1>2, <2>3 DEF Enter, Goes
    <3>2. Place = "out" /\ Place' = "check"
      BY <2>1, <2>3, <3>1, FreeIsOut, Moves
    <3>3. Served' <=> Served
      BY <2>1 DEF Served
    <3>. QED
      BY <2>1, <3>2, <3>3 DEF ExposedInv, TaskInv, ServeInv
  <2>. QED
    BY <2>2, <2>3
<1>3. ASSUME NEW c \in Callers, Check(c) PROVE ModeInv'
  <2>1. /\ UNCHANGED <<mode, known, exposed, taskSet, taskRun, token, inLoop, cb, table,
                       shutdown, applet, loaded, want>>
        /\ pc[c] = "check"
        /\ Goes(c, "idle") \/ Goes(c, "stop")
    BY <1>3 DEF Goes, Check, Return, modeVars, devVars, taskVars, serveVars
  <2>2. Place = "check" /\ Place' \in {"out", "stop"}
    BY <2>1, Moves
  <2>3. Served' <=> Served
    BY <2>1 DEF Served
  <2>. QED
    BY <2>1, <2>2, <2>3 DEF ExposedInv, TaskInv, ServeInv
<1>4. ASSUME NEW c \in Callers, Stop(c) PROVE ModeInv'
  <2>1. /\ pc[c] = "stop" /\ Goes(c, "leave")
        /\ shutdown' = (shutdown \/ mode \in Ccid)
        /\ table' = IF mode \in Hid THEN "NONE" ELSE table
        /\ UNCHANGED <<mode, known, exposed, taskSet, taskRun, token, inLoop, cb,
                      applet, loaded, want>>
    BY <1>4 DEF Goes, Stop, At, modeVars, devVars, taskVars
  <2>2. Place = "stop" /\ Goal = want[c] /\ Place' = "leave" /\ Goal' = want[c]
    BY <2>1, Moves
  <2>3. ExposedInv'
    BY <1>t, <2>1, <2>2 DEF ExposedInv
  <2>4. TaskInv'
    BY <1>t, <2>1, <2>2 DEF ExposedInv, TaskInv
  <2>5. ServeInv'
    BY <1>t, <2>1, <2>2 DEF ExposedInv, TaskInv, ServeInv, Served, Modes, Ccid, Hid
  <2>. QED
    BY <2>3, <2>4, <2>5
<1>5. ASSUME NEW c \in Callers, Leave(c) PROVE ModeInv'
  <2>1. /\ pc[c] = "leave" /\ known' = FALSE /\ taskRun' = FALSE
        /\ Goes(c, IF exposed = "NONE" /\ ~taskSet THEN "purge" ELSE "await")
        /\ token' = IF taskSet /\ taskRun THEN 0 ELSE token
        /\ UNCHANGED <<mode, exposed, taskSet, inLoop, cb, table, shutdown, loaded, want>>
    BY <1>5 DEF Goes, Leave, At, taskVars
  <2>2. Place = "leave"
    BY <2>1, Moves
  <2>3. Place' = IF exposed = "NONE" /\ ~taskSet THEN "purge" ELSE "await"
    BY <2>1, Moves
  <2>4. token' = token
    BY <1>t, <2>1 DEF TaskInv
  <2>5. ExposedInv'
    BY <2>1, <2>2, <2>3 DEF ExposedInv
  <2>6. TaskInv'
    BY <1>t, <2>1, <2>2, <2>3, <2>4 DEF TaskInv
  <2>7. ServeInv'
    BY <2>1, <2>2, <2>3 DEF ServeInv
  <2>. QED
    BY <2>5, <2>6, <2>7
<1>6. ASSUME NEW c \in Callers, TaskLeft(c) PROVE ModeInv'
  <2>1. /\ pc[c] = "await" /\ Goes(c, "detach")
        /\ token = 1 /\ token' = 0 /\ taskSet' = FALSE
        /\ UNCHANGED <<mode, known, exposed, taskRun, inLoop, cb, table, shutdown,
                      applet, loaded, want>>
    BY <1>6 DEF Goes, TaskLeft, At, modeVars, taskVars, serveVars
  <2>2. Place = "await" /\ Goal = want[c] /\ Place' = "detach" /\ Goal' = want[c]
    BY <2>1, Moves
  <2>3. ExposedInv'
    BY <1>t, <2>1, <2>2 DEF ExposedInv
  <2>4. TaskInv'
    BY <1>t, <2>1, <2>2 DEF ExposedInv, TaskInv
  <2>5. ServeInv'
    BY <1>t, <2>1, <2>2 DEF ExposedInv, TaskInv, ServeInv, Served, Modes, Ccid, Hid
  <2>. QED
    BY <2>3, <2>4, <2>5
<1>7. ASSUME NEW c \in Callers, TaskStuck(c) PROVE ModeInv'
  <2>1. /\ pc[c] = "await" /\ Goes(c, "idle")
        /\ token = 0 /\ known' = FALSE
        /\ UNCHANGED <<mode, exposed, taskSet, taskRun, token, inLoop, cb, table,
                      shutdown, applet, loaded, want>>
    BY <1>7 DEF Goes, TaskStuck, Return, devVars, taskVars, serveVars
  <2>2. Place = "await" /\ Goal = want[c] /\ Place' = "out"
    BY <2>1, Moves
  <2>3. ExposedInv'
    BY <1>t, <2>1, <2>2 DEF ExposedInv
  <2>4. TaskInv'
    BY <1>t, <2>1, <2>2 DEF ExposedInv, TaskInv
  <2>5. ServeInv'
    BY <1>t, <2>1, <2>2 DEF ExposedInv, TaskInv, ServeInv, Served, Modes, Ccid, Hid
  <2>. QED
    BY <2>3, <2>4, <2>5
<1>8. ASSUME NEW c \in Callers, Detach(c) PROVE ModeInv'
  <2>1. /\ pc[c] = "detach" /\ Goes(c, "purge")
        /\ exposed' = "NONE"
        /\ UNCHANGED <<mode, known, taskSet, taskRun, token, inLoop, cb, table,
                      shutdown, applet, loaded, want>>
    BY <1>8 DEF Goes, Detach, At, modeVars, taskVars, serveVars
  <2>2. Place = "detach" /\ Goal = want[c] /\ Place' = "purge" /\ Goal' = want[c]
    BY <2>1, Moves
  <2>3. ExposedInv'
    BY <1>t, <2>1, <2>2 DEF ExposedInv
  <2>4. TaskInv'
    BY <1>t, <2>1, <2>2 DEF ExposedInv, TaskInv
  <2>5. ServeInv'
    BY <1>t, <2>1, <2>2 DEF ExposedInv, TaskInv, ServeInv, Served, Modes, Ccid, Hid
  <2>. QED
    BY <2>3, <2>4, <2>5
<1>9. ASSUME NEW c \in Callers, Purge(c) PROVE ModeInv'
  <2>1. /\ pc[c] = "purge"
        /\ UNCHANGED <<exposed, taskSet, taskRun, token, inLoop, cb, table, shutdown, applet,
                       loaded, want>>
    BY <1>9 DEF Purge, devVars, taskVars, serveVars
  <2>2. CASE want[c] = "NONE"
    <3>1. Goes(c, "idle") /\ mode' = "NONE" /\ known' = TRUE
      BY <1>9, <2>2 DEF Goes, Purge, Return
    <3>2. Place = "purge" /\ Place' = "out"
      BY <2>1, <3>1, Moves
    <3>. QED
      BY <2>1, <3>1, <3>2 DEF ExposedInv, TaskInv, ServeInv, Served, Ccid, Hid
  <2>3. CASE want[c] # "NONE"
    <3>1. Goes(c, "install") /\ UNCHANGED <<mode, known>>
      BY <1>9, <2>3 DEF Goes, Purge, modeVars
    <3>2. Place = "purge" /\ Place' = "install" /\ Goal' = want[c]
      BY <2>1, <3>1, Moves
    <3>. QED
      BY <2>1, <2>3, <3>1, <3>2 DEF ExposedInv, TaskInv, ServeInv
  <2>. QED
    BY <2>2, <2>3
<1>10. ASSUME NEW c \in Callers, Install(c) PROVE ModeInv'
  <2>1. /\ pc[c] = "install" /\ Goes(c, "start")
        /\ exposed' = want[c] /\ taskSet' = TRUE /\ taskRun' = TRUE /\ inLoop' = TRUE
        /\ shutdown' = FALSE /\ applet' = "PGP"
        /\ UNCHANGED <<mode, known, token, cb, table, want>>
    BY <1>10 DEF Goes, Install, At, DriverInit, modeVars
  <2>2. Place = "install" /\ Goal = want[c] /\ Place' = "start" /\ Goal' = want[c]
    BY <2>1, Moves
  <2>3. ExposedInv'
    BY <1>t, <2>1, <2>2 DEF ExposedInv
  <2>4. TaskInv'
    BY <1>t, <2>1, <2>2 DEF ExposedInv, TaskInv
  <2>5. ServeInv'
    BY <1>t, <2>1, <2>2 DEF ExposedInv, TaskInv, ServeInv, Served, Modes, Ccid, Hid
  <2>. QED
    BY <2>3, <2>4, <2>5
<1>11. ASSUME NEW c \in Callers, InstallFails(c) PROVE ModeInv'
  <2>1. /\ pc[c] = "install" /\ Goes(c, "idle")
        /\ mode' = "NONE" /\ known' = FALSE
        /\ UNCHANGED <<exposed, taskSet, taskRun, token, inLoop, cb, table, want>>
    BY <1>11 DEF Goes, InstallFails, Return, devVars, taskVars
  <2>2. Place = "install" /\ Goal = want[c] /\ Place' = "out"
    BY <2>1, Moves
  <2>3. ExposedInv'
    BY <1>t, <2>1, <2>2 DEF ExposedInv
  <2>4. TaskInv'
    BY <1>t, <2>1, <2>2 DEF ExposedInv, TaskInv
  <2>5. ServeInv'
    BY <1>t, <2>1, <2>2 DEF ExposedInv, TaskInv, ServeInv, Served, Modes, Ccid, Hid
  <2>. QED
    BY <2>3, <2>4, <2>5
<1>12. ASSUME NEW c \in Callers, Start(c) PROVE ModeInv'
  <2>1. /\ pc[c] = "start" /\ Goes(c, "idle")
        /\ mode' = want[c] /\ known' = TRUE
        /\ table' = IF want[c] \in Hid THEN want[c] ELSE table
        /\ applet' = IF want[c] = "OATH" THEN "OATH" ELSE applet
        /\ loaded' = (loaded \/ want[c] = "PGP")
        /\ UNCHANGED <<exposed, taskSet, taskRun, token, inLoop, cb, shutdown, want>>
    BY <1>12 DEF Goes, Start, Return, devVars, taskVars
  <2>2. Place = "start" /\ Goal = want[c] /\ Place' = "out"
    BY <2>1, Moves
  <2>3. ExposedInv'
    BY <1>t, <2>1, <2>2 DEF ExposedInv
  <2>4. TaskInv'
    BY <1>t, <2>1, <2>2 DEF ExposedInv, TaskInv
  <2>5. ServeInv'
    BY <1>t, <2>1, <2>2 DEF ExposedInv, TaskInv, ServeInv, Served, Modes, Ccid, Hid
  <2>. QED
    BY <2>3, <2>4, <2>5
<1>13. CASE UsbLeave \/ CbBegin \/ CbEnd \/ CcidCommand \/ Worker \/ UNCHANGED vars
  <2>1. /\ UNCHANGED <<mode, known, exposed, taskSet, taskRun, table, shutdown, applet, loaded>>
        /\ UNCHANGED <<pc, want>>
    BY <1>13 DEF UsbLeave, CbBegin, CbEnd, CcidCommand, Worker, WorkerStart, WorkerArm,
                 WorkerEnd, vars, modeVars, devVars, serveVars
  <2>2. UNCHANGED <<Place, Goal>> /\ (Served' <=> Served)
    BY <2>1, NobodyMoves DEF Served
  <2>3. CASE UsbLeave
    <3>1. inLoop /\ ~taskRun /\ cb = "NONE" /\ cb' = cb /\ inLoop' = FALSE /\ token' = 1
      BY <2>3 DEF UsbLeave
    <3>. QED
      BY <2>1, <2>2, <3>1 DEF ExposedInv, TaskInv, ServeInv
  <2>4. CASE CbBegin \/ CbEnd
    <3>1. /\ UNCHANGED <<token, inLoop>>
          /\ cb' = "NONE" \/ (inLoop /\ table # "NONE" /\ cb' = table)
      BY <2>4 DEF CbBegin, CbEnd, devVars
    <3>. QED
      BY <2>1, <2>2, <3>1 DEF ExposedInv, TaskInv, ServeInv
  <2>5. CASE CcidCommand \/ Worker \/ UNCHANGED vars
    <3>1. UNCHANGED <<token, inLoop, cb>>
      BY <2>5 DEF CcidCommand, Worker, WorkerStart, WorkerArm, WorkerEnd, vars, devVars,
                  taskVars
    <3>. QED
      BY <1>s, <2>1, <2>2, <3>1
  <2>. QED
    BY <1>13, <2>3, <2>4, <2>5
<1>. QED
  BY <1>1, <1>2, <1>3, <1>4, <1>5, <1>6, <1>7, <1>8, <1>9, <1>10, <1>11, <1>12, <1>13
     DEF Next, Switch

(* The latch through a switch and the commands that outlive it.            *)
LEMMA LatchStep ==
    ASSUME TypeOK, LockInv, LockInv', ModeInv, LatchInv, [Next]_vars
    PROVE  LatchInv'
<1>1. ASSUME UNCHANGED <<exposed, worker, by, latch>>, Place' = "install" => Place = "install"
      PROVE  LatchInv'
  BY <1>1 DEF LatchInv, ForeignIsHeld
<1>2. ASSUME NEW c \in Callers, NEW p, Goes(c, p), Switching(c), want' = want,
             UNCHANGED <<exposed, worker, by, latch>>, p # "install"
      PROVE  LatchInv'
  <2>1. p # "enter" => Place' # "install"
    BY <1>2, Moves DEF Switching
  <2>2. p = "enter" => Place' # "install"
    <3>1. p = "enter" => \A d \in Callers : ~Switching(d)'
      BY <1>2 DEF Goes, Switching, LockInv, TypeOK
    <3>. QED
      BY <3>1 DEF Place
  <2>. QED
    BY <1>1, <1>2, <2>1, <2>2
<1>3. ASSUME NEW c \in Callers, Call(c) \/ Enter(c) PROVE LatchInv'
  <2>1. /\ UNCHANGED <<exposed, worker, by, latch>>
        /\ pc[c] \in {"idle", "enter"}
        /\ \A d \in Callers : d # c => want'[d] = want[d]
        /\ \/ Goes(c, "enter") \/ Goes(c, "idle")
           \/ Goes(c, "check") /\ want' = want /\ pc[c] = "enter"
    BY <1>3 DEF Call, Enter, At, Goes, devVars, workVars, TypeOK
  <2>2. Goes(c, "check") /\ want' = want /\ pc[c] = "enter" => Place' = "check"
    BY Moves
  <2>. QED
    BY <1>1, <2>1, <2>2, Outside
<1>4. ASSUME NEW c \in Callers,
             Check(c) \/ Stop(c) \/ Leave(c) \/ TaskLeft(c) \/ TaskStuck(c)
               \/ InstallFails(c) \/ Start(c)
      PROVE  LatchInv'
  <2>1. Switching(c)
    BY <1>4 DEF Check, Stop, Leave, TaskLeft, TaskStuck, InstallFails, Start, At, Switching
  <2>2. UNCHANGED <<want, exposed, worker, by, latch>>
    BY <1>4 DEF Check, Stop, Leave, TaskLeft, TaskStuck, InstallFails, Start, devVars, workVars
  <2>3. \/ Goes(c, "idle") \/ Goes(c, "stop") \/ Goes(c, "leave") \/ Goes(c, "detach")
        \/ Goes(c, IF exposed = "NONE" /\ ~taskSet THEN "purge" ELSE "await")
    BY <1>4 DEF Check, Stop, Leave, TaskLeft, TaskStuck, InstallFails, Start, At, Return, Goes
  <2>4. (IF exposed = "NONE" /\ ~taskSet THEN "purge" ELSE "await") # "install"
    OBVIOUS
  <2>. QED
    BY <1>2, <2>1, <2>2, <2>3, <2>4
<1>5. ASSUME NEW c \in Callers, Detach(c) PROVE LatchInv'
  <2>1. /\ pc[c] = "detach" /\ Goes(c, "purge") /\ exposed' = "NONE"
        /\ UNCHANGED <<want, worker, by, latch>>
    BY <1>5 DEF Detach, At, Goes, workVars
  <2>2. Place' = "purge"
    BY <2>1, Moves
  <2>. QED
    BY <2>1, <2>2 DEF LatchInv, ForeignIsHeld
<1>6. ASSUME NEW c \in Callers, Purge(c) PROVE LatchInv'
  BY <1>6 DEF Purge, LatchInv, ForeignIsHeld, devVars, workVars
<1>7. ASSUME NEW c \in Callers, Install(c) PROVE LatchInv'
  <2>1. /\ pc[c] = "install" /\ Goes(c, "start") /\ exposed' = want[c]
        /\ UNCHANGED <<want, worker, by, latch>>
    BY <1>7 DEF Install, At, Goes, workVars
  <2>2. Place = "install" /\ Place' = "start"
    BY <2>1, Moves
  <2>. QED
    BY <2>1, <2>2 DEF LatchInv, ForeignIsHeld
<1>8. CASE UsbLeave \/ CbBegin \/ UNCHANGED vars
  <2>1. UNCHANGED <<pc, want, exposed, worker, by, latch>>
    BY <1>8 DEF UsbLeave, CbBegin, vars, devVars, workVars
  <2>. QED
    BY <1>1, <2>1, NobodyMoves
<1>9. CASE CbEnd \/ CcidCommand \/ Worker
  <2>1. UNCHANGED <<pc, want, exposed>>
    BY <1>9 DEF CbEnd, CcidCommand, Worker, WorkerStart, WorkerArm, WorkerEnd, devVars
  <2>2. Place' = Place
    BY <2>1, NobodyMoves
  <2>3. CASE CbEnd
    <3>1. /\ cb # "NONE" /\ latch' \in {cb, "NONE", latch} /\ UNCHANGED <<worker, by>>
      BY <2>3 DEF CbEnd, workVars
    <3>2. cb = exposed /\ Place # "install"
      BY <3>1 DEF ModeInv, ExposedInv, TaskInv, ServeInv
    <3>. QED
      BY <2>1, <2>2, <3>1, <3>2 DEF LatchInv, ForeignIsHeld
  <2>4. CASE CcidCommand
    <3>1. UNCHANGED <<worker, by, latch>>
      BY <2>4 DEF CcidCommand
    <3>. QED
      BY <2>1, <2>2, <3>1 DEF LatchInv, ForeignIsHeld
  <2>5. CASE Worker
    <3>1. CASE WorkerStart
      <4>1. worker = "idle" /\ latch' = latch
        BY <3>1 DEF WorkerStart
      <4>. QED
        BY <2>1, <2>2, <4>1 DEF LatchInv, ForeignIsHeld
    <3>2. CASE WorkerArm
      <4>1. worker' = "touch" /\ latch' = by /\ by' = by
        BY <3>2 DEF WorkerArm
      <4>. QED
        BY <4>1 DEF LatchInv, ForeignIsHeld
    <3>3. CASE WorkerEnd
      <4>1. latch' = IF worker = "touch" THEN "NONE" ELSE latch
        BY <3>3 DEF WorkerEnd
      <4>. QED
        BY <2>1, <2>2, <4>1 DEF LatchInv, ForeignIsHeld
    <3>. QED
      BY <2>5, <3>1, <3>2, <3>3 DEF Worker
  <2>. QED
    BY <1>9, <2>3, <2>4, <2>5
<1>. QED
  BY <1>3, <1>4, <1>5, <1>6, <1>7, <1>8, <1>9 DEF Next, Switch
-----------------------------------------------------------------------------
(* The invariants of the first step.                                       *)
LEMMA Starts == Init => LockInv /\ ModeInv /\ LatchInv
<1>. SUFFICES ASSUME Init PROVE LockInv /\ ModeInv /\ LatchInv
  OBVIOUS
<1>1. \A c \in Callers : ~Switching(c)
  BY DEF Init, Switching
<1>2. Place = "out"
  BY <1>1 DEF Place
<1>3. LockInv
  BY <1>1 DEF LockInv
<1>4. ModeInv
  BY <1>2 DEF Init, ModeInv, ExposedInv, TaskInv, ServeInv, Served, Ccid, Hid
<1>5. LatchInv
  BY <1>2 DEF Init, LatchInv, ForeignIsHeld
<1>. QED
  BY <1>3, <1>4, <1>5

(* Whatever switches fail or are refused, and whoever asks for them, what  *)
(* is announced is what the host sees, it is served, and no HID handler of *)
(* another mode is called.                                                 *)
THEOREM ModeIsServed == Spec => [](HostSeesMode /\ KnownIsServed /\ NoForeignCallback)
<1>1. Init => LockInv /\ ModeInv
  BY Starts
<1>2. TypeOK /\ LockInv /\ [Next]_vars => LockInv'
  BY LockStep
<1>3. TypeOK /\ LockInv /\ LockInv' /\ ModeInv /\ [Next]_vars => ModeInv'
  BY ModeStep
<1>4. LockInv /\ ModeInv => HostSeesMode /\ KnownIsServed /\ NoForeignCallback
  <2>. SUFFICES ASSUME LockInv, ModeInv
                PROVE  HostSeesMode /\ KnownIsServed /\ NoForeignCallback
    OBVIOUS
  <2>1. HostSeesMode
    BY FreeIsOut DEF ModeInv, ExposedInv, HostSeesMode
  <2>2. KnownIsServed
    BY FreeIsOut DEF ModeInv, ServeInv, KnownIsServed, Served
  <2>3. NoForeignCallback
    BY DEF ModeInv, ServeInv, NoForeignCallback
  <2>. QED
    BY <2>1, <2>2, <2>3
<1>. QED
  BY <1>1, <1>2, <1>3, <1>4, TypeCorrect, PTL DEF Spec

(* The whole property, the latch included: after a switch nothing that is  *)
(* armed is the old mode's, but for a CCID command that outlived it and    *)
(* still waits.                                                            *)
THEOREM ModesApart == Spec => []ModesDoNotMix
<1>1. Init => LockInv /\ ModeInv /\ LatchInv
  BY Starts
<1>2. TypeOK /\ LockInv /\ [Next]_vars => LockInv'
  BY LockStep
<1>3. TypeOK /\ LockInv /\ LockInv' /\ ModeInv /\ [Next]_vars => ModeInv'
  BY ModeStep
<1>4. TypeOK /\ LockInv /\ LockInv' /\ ModeInv /\ LatchInv /\ [Next]_vars => LatchInv'
  BY LatchStep
<1>5. HostSeesMode /\ KnownIsServed /\ NoForeignCallback /\ LatchInv => ModesDoNotMix
  BY DEF ModesDoNotMix, LatchInv
<1>. QED
  BY <1>1, <1>2, <1>3, <1>4, <1>5, TypeCorrect, ModeIsServed, PTL DEF Spec
-----------------------------------------------------------------------------
(* A detachment finds the loop left, no handler and the gate shut; and the *)
(* task that keeps an uninstallation waiting is still in its loop.         *)
LEMMA UninstallStep ==
    ASSUME TypeOK, LockInv, LockInv', ModeInv, [Next]_vars
    PROVE  /\ exposed # "NONE" /\ exposed' = "NONE"
                => ~inLoop /\ cb = "NONE" /\ (exposed \in Ccid => shutdown)
           /\ \A c \in Callers : pc[c] = "await" /\ pc'[c] = "idle" => inLoop
<1>1. ASSUME exposed # "NONE", exposed' = "NONE"
      PROVE  ~inLoop /\ cb = "NONE" /\ (exposed \in Ccid => shutdown)
  <2>1. ASSUME NEW c \in Callers, Install(c) PROVE FALSE
    <3>1. pc[c] = "install" /\ Switching(c)
      BY <2>1 DEF Install, At, Switching
    <3>2. Place = "install"
      BY <3>1, InSwitch
    <3>. QED
      BY <1>1, <3>2 DEF ModeInv, ExposedInv
  <2>2. ASSUME NEW c \in Callers,
               \/ Call(c) \/ Enter(c) \/ Check(c) \/ Stop(c) \/ Leave(c) \/ TaskLeft(c)
               \/ TaskStuck(c) \/ Purge(c) \/ InstallFails(c) \/ Start(c)
        PROVE  FALSE
    BY <1>1, <2>2 DEF Call, Enter, Check, Stop, Leave, TaskLeft, TaskStuck, Purge,
                      InstallFails, Start, devVars
  <2>3. ~(UsbLeave \/ CbBegin \/ CbEnd \/ CcidCommand \/ Worker \/ UNCHANGED vars)
    BY <1>1 DEF UsbLeave, CbBegin, CbEnd, CcidCommand, Worker, WorkerStart, WorkerArm,
                WorkerEnd, vars, devVars
  <2>4. PICK c \in Callers : Detach(c)
    BY <2>1, <2>2, <2>3 DEF Next, Switch
  <2>5. pc[c] = "detach" /\ Switching(c)
    BY <2>4 DEF Detach, At, Switching
  <2>6. Place = "detach"
    BY <2>5, InSwitch
  <2>. QED
    BY <2>6 DEF ModeInv, TaskInv, ServeInv
<1>2. ASSUME NEW c \in Callers, pc[c] = "await", pc'[c] = "idle" PROVE inLoop
  <2>1. Place = "await"
    BY <1>2, InSwitch DEF Switching
  <2>2. inLoop <=> token = 0
    BY <2>1 DEF ModeInv, TaskInv
  <2>4. ASSUME NEW d \in Callers,
               Call(d) \/ Enter(d) \/ Check(d) \/ InstallFails(d) \/ Start(d) \/ Purge(d)
        PROVE  FALSE
    <3>1. PICK p : Goes(d, p)
      BY <2>4 DEF Call, Enter, Check, InstallFails, Start, Purge, At, Return, Goes
    <3>2. d = c
      BY <1>2, <3>1 DEF Goes, TypeOK
    <3>. QED
      BY <1>2, <2>4, <3>2 DEF Call, Enter, Check, InstallFails, Start, Purge, At
  <2>5. ASSUME NEW d \in Callers,
               Stop(d) \/ Leave(d) \/ TaskLeft(d) \/ Detach(d) \/ Install(d)
        PROVE  FALSE
    <3>1. PICK p : Goes(d, p) /\ p # "idle"
      BY <2>5 DEF Stop, Leave, TaskLeft, Detach, Install, At, Goes
    <3>. QED
      BY <1>2, <3>1 DEF Goes, TypeOK
  <2>6. ~(UsbLeave \/ CbBegin \/ CbEnd \/ CcidCommand \/ Worker \/ UNCHANGED vars)
    BY <1>2 DEF UsbLeave, CbBegin, CbEnd, CcidCommand, Worker, WorkerStart, WorkerArm,
                WorkerEnd, vars
  <2>7. PICK d \in Callers : TaskStuck(d)
    BY <2>4, <2>5, <2>6 DEF Next, Switch
  <2>. QED
    BY <2>2, <2>7 DEF TaskStuck
<1>. QED
  BY <1>1, <1>2

(* The stack is never torn down under a task or a handler that uses it;    *)
(* and an uninstallation is refused only for the sake of a live task.      *)
THEOREM UninstallSafe == Spec => UninstallIsSafe
<1>1. Init => LockInv /\ ModeInv
  BY Starts
<1>2. TypeOK /\ LockInv /\ [Next]_vars => LockInv'
  BY LockStep
<1>3. TypeOK /\ LockInv /\ LockInv' /\ ModeInv /\ [Next]_vars => ModeInv'
  BY ModeStep
<1>4. TypeOK /\ LockInv /\ LockInv' /\ ModeInv /\ [Next]_vars
        => /\ [exposed # "NONE" /\ exposed' = "NONE"
                 => ~inLoop /\ cb = "NONE" /\ (exposed \in Ccid => shutdown)]_vars
           /\ [\A c \in Callers : pc[c] = "await" /\ pc'[c] = "idle" => inLoop]_vars
  BY UninstallStep
<1>. QED
  BY <1>1, <1>2, <1>3, <1>4, TypeCorrect, PTL
     DEF Spec, UninstallIsSafe, TeardownAlone, RefusedOnlyIfAlive
=============================================================================
