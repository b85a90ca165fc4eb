# Niphar chest: a verification project

TLA+ models of the Niphar chest firmware (an ESP32-P4 security key with OpenPGP,
OATH, OTP, FIDO U2F and mass-storage modes, one at a time on one USB port), the
TLC configurations that check them on small instances, and TLAPS proofs, for every
value of the constants, of all the safety properties that the runs check.

`PROJECT.json` is the machine-readable half of this document: which definition
stands for which lines (`map`), what each run checks (`runs`), which bug in the
code each property would notice (`mutants`), where the code is fragile
(`hazards`), and where it and its own comments disagree (`findings`).

    tlasany ConfirmCallers.tla                                  # parse
    tlc -workers 2 -config ConfirmCallers.cfg MCConfirmCallers  # model-check
    tlapm ConfirmProofs.tla                                     # prove

## 1. The system

The product is the C code under `src/main/`; `src/test/` holds host unit tests
of the pure parts, `src/docs/LINK_CONTRACT.md` the contract of the SPI link and
`src/docs/HARDWARE.md` the boards. There are three:

| board | touch comes from | USB modes asked for by |
|---|---|---|
| `niphar_chest` | a keyboard, over an SPI link (`link_task`) | the keyboard |
| `wt9932_key` | two buttons (`hmi_task`), or the console | MODE button, console |
| `jc_devkit` | the console | console |

Four kinds of task matter. `usb_task` runs TinyUSB and every USB callback. The
CCID worker runs the smart-card applets, because a card operation may wait
fifteen seconds for a touch. `link_task` or `hmi_task` relays gestures. A mode
switch runs in whichever of these, or the console, asked for it. Nearly every
defect this code could have is in what two of them do at once, in what is left
when a write fails or the power is cut, or in what a wrapped or stale time means.
Two more tasks only look or measure: `screen_task` draws, and the console probes the SD card.

### Components

| component | code | state | operations | what makes it correct | modules |
|---|---|---|---|---|---|
| confirmation latch | `security/sec_confirm.c`, `sec_gate.c` | state, slot, operation, arming time and number | arm, authorize, cancel, poll, peek, reset | a grant comes from a press inside its operation's window, is told once, and names its own slot | `SecConfirm`, `ConfirmGate`, `ConfirmCallers`, `ConfirmProofs` |
| SPI link | `link/link_spi.c`, `link_proto.h` | the two halves of the shared registers, last request number, code wait | one turn: peek, gesture, mode, request, poll, publish | one gesture is one relay; a gesture goes to the operation it was shown for; a code leaves only on its own press; an answer is announced before it is read, and answers what was asked | `ConfirmLink` (registers, gestures), `LinkDma` (requests and answers by DMA), `ConfirmProofs`, `OwnerProofs` |
| CCID transport | `security/ccid.c` | pipe flags, buffers, deferred callbacks, worker, shutdown | OUT and IN completions, worker loop, deferred sends, shutdown | buffers have one owner, answers match commands, every command and every stop ends | `CcidPipe`, `CardSlot` (the promise), `CcidPipeProofs`; its wait for the touch in `ConfirmLink` |
| USB modes | `usb/usb_mode.c`, `usb_device.c`, `hid_dispatch.c`, `usb_mode_state.h` | mode, busy flag, task and exit token, installed callbacks | set, cycle, uninstall, install, callbacks | the announced mode is the one on the bus and is served; nothing runs on a torn-down stack; every switch ends | `UsbMode`, `UsbModeProofs` |
| mode glue | `usb/mode_*.c` | what each mode plugs in | start, stop | part of the above | `UsbMode` (descriptors are data) |
| OpenPGP card | `security/openpgp_card.c`, `openpgp_do.c`, `usb/mode_pgp.c` | PINs and tries, verified rights, keys, data objects, three NVS blobs | VERIFY, CHANGE, PUT DATA, keys, PSO:CDS, TERMINATE, ACTIVATE, load | tries are charged, keys are never behind a factory PIN, one signature per VERIFY in forced mode | `OpenPgpCard`, `OpenPgpProofs` |
| OATH applet, secret store | `security/oath_proto.c`, `sec_store.c`, `usb/mode_oath.c` | 16 slots, the NVS blob, the page still to serve | PUT, DELETE, RENAME, RESET, LIST, SEND REMAINING | unique labels, nothing lost without its touch, what is answered is stored | `OathStore`, `OathProofs` |
| FIDO U2F and CTAP-HID | `security/u2f.c`, `ctaphid.c`, `usb/mode_fido.c` | reassembly, answer in transmission, waiting refusal, waiting request | OUT report, IN completion, U2F handler | answers are not mixed, the touch signs the request it was given for, and is not wasted | `Fido`, `FidoProofs`, and its use of the latch against the link in `ConfirmLink` |
| NVS helpers | `sys/nvs_utils.c` | none | save, load | one blob is written whole or not at all | inside `OpenPgpCard`, `OathStore` |
| OTP challenge-response | `security/otp_*.c`, `usb/mode_otp.c` | frame, response, armed slot | write, read | an answer only for the challenge of its own touch, never an old digest | `Otp`, `OwnerProofs` |
| wall clock | `security/sec_time.c` | base | set, get | | only "there may be no time yet" (`LinkDma`) |
| mass storage | `storage/sd_card.c`, `usb/msc_disk.c`, `msc_lba.c`, `mode_storage.c` | the card and its heap block, power path, lock, bounce buffer | probe, release, read and write in pieces of sectors | what the host is told is what happened to the medium; the driver gets a card and a buffer that exist; nothing stays powered without a card | `Storage`, `StorageProofs`, `Disk` (the promise); its effect on a switch in `UsbMode` |
| buttons, LED, screen | `hmi/` | debounced buttons, event on the LED, snapshot; splash, idle time, display_on, failures | a turn of `hmi_task`, a turn of `screen_task` | one touch grants one operation; LED and screen tell what waits, and only that | `Hmi`, `OwnerProofs`; who presses in `ConfirmCallers`, the MODE button in `UsbMode` |
| console, start-up | `main.c`, `console/` | none | commands | | what they call: `UsbMode`, `ConfirmCallers`, `Storage` |
| cryptography, APDU parser, account names | `security/*` | none | pure functions of one buffer | unit-tested in `src/test/` | not modelled |

### How they interact

* Every applet arms the latch and polls it; `link_task`, `hmi_task` or the console
  presses. The link also arms it for itself, for a code request of the
  keyboard, and polls it too: *two consumers share one latch*, told apart by a slot number.
* TinyUSB calls `ccid.c` and the HID table in `usb_task`; `ccid.c` hands the command to
  the worker by a semaphore and the worker hands callbacks back through TinyUSB's queue.
* A switch calls into all of them: it stops the mode, waits for the worker (at most 2 s)
  and for `usb_task` (a token), disarms the latch, reinstalls, and starts the new mode.
* The OATH, OTP and link code share one table of 16 secrets.
* `hmi_task` peeks at the latch and publishes a snapshot under a lock; `screen_task` copies it and draws. The SD driver is
  behind one mutex for `usb_task` and the console, but the card's geometry is read without it.

### What is hard

Interleavings of the latch's callers; times that are read long before they are used; a
`uint32_t` that wraps; the worker's answer, its time extensions and the bus reset in any order;
switches that fail half-way, or that give up waiting for a task which then finishes; applets with
several NVS writes and a power cut between any two; answers in several packets to several
applications. `PROJECT.json` lists them one by one with their lines and the property for each.

## 2. Plan

Modules in the order of importance, most important first. *Done* modules are on disk.

1. **done** `SecConfirm`, `ConfirmGate`, `ConfirmCallers`, `ConfirmProofs`: the latch, its
   promise, its callers, and the proofs.
2. **done** `ConfirmLink` (extends `SecConfirm`): the latch shared by the link and the host.
3. **done** `CcidPipe`, `UsbMode`: transport and mode switches.
4. **done** `OpenPgpCard`, `OathStore`: the applets over the NVS.
5. **done** `Fido` (instantiates `ConfirmGate`): CTAP-HID and U2F.
6. **done** `Otp` (instantiates `ConfirmGate`): the frame of the OTP mode, the response in
   chunks, the hook that waits, several host applications, the link taking the latch.
7. **done** `LinkDma` (instantiates `ConfirmGate`): the data channel of the link: LIST and CODE
   answers in segments, the doorbell, the in-flight flag with its one-second abandon.
8. **done** `Storage`, `Disk`: a transfer cut into spans, its bounce buffer and its read-modify-write, against a probe of the
   card between any two sectors; what is read of `s_card` without the lock.
9. **done** `Hmi` (what `ConfirmGate` promises, seen with late readings): debouncing, the relay, the LED, the snapshot, the screen on a bus that fails.
10. **done** `OathProofs`, `OpenPgpProofs`, `UsbModeProofs`, `FidoProofs`, `CcidPipeProofs`, `StorageProofs`: every safety property
    that the runs of these six modules check.
11. **done** `OwnerProofs` (what the owner is shown and what her touch grants: `Hmi`, `LinkDma`, `Otp`) and the second half of
    `ConfirmProofs` (`ConfirmLink`): with these, every safety property of every run has its theorem.
12. **done** `CardSlot`: the promise of the CCID transport, and the proof that `CcidPipe` implements it.

Abstract specifications, each with its refinement checked and proved: `ConfirmGate`, an operation that waits, lapses or is granted;
`Disk`, a transfer of bytes with one answer; `CardSlot`, one command at a time, executed once and answered once.

Worth doing next: "one request, one answer" as an abstract specification of `LinkDma` (its two halves are proved: `AnswerMatchesRequest`,
`SeqMovesFirst`); the touch policy (UIF) of OpenPGP, which ties `OpenPgpCard` to the latch.

## 3. The modules and the code

A step of a model is what runs without another task being able to intervene: the body of a spinlock,
one callback of `usb_task`, one blob written. What follows says how state and actions correspond;
the lines are in the `map` of `PROJECT.json`.

### SecConfirm, ConfirmCallers, ConfirmGate

`SecConfirm` has the latch's static variables (`op` stands for `s_op`, `s_label` and `s_arm_count`,
which change together) and one action per entry point, all under the spinlock in the code. Times are
elements of `0 .. ClockMod - 1` and `Minus` is the unsigned subtraction of `sec_confirm.c`. The window
test is its single expression, `now - armed >= TIMEOUT`: a press captured *before* the arming
gives a huge difference, and is refused for the same reason as one that comes too late.

`ConfirmCallers` adds the tasks. `Capture(c)` reads the clock into `cap[c]`; `DoArm`, `DoPress`,
`DoCancel`, `DoPoll` call with whatever `c` last captured, up to `MaxLag` milliseconds old: this
is the code's habit of one clock reading per turn. `lag`, `age`, `cancelled` and `pressAge` are
history variables that hold the true times.

`ConfirmGate` is the promise without clocks: `waiting`, `lapsed`, `granted`. The refinement mapping
(`phaseBar`, `whatBar`) calls an operation lapsed when it was cancelled or when no presser still holds a
time inside its window.

`Latch` declares the promise's two variables, `phase` and `what`, for the components that only use the latch: `Fido`, `Otp` and `LinkDma`
instantiate `ConfirmGate` over them. Each component's specification has its own name (`HmiSpec`, `DmaSpec`, `OtpSpec`, ...) where one module
of proofs extends several.

### ConfirmLink

The actions `LinkTop`, `LinkPeek`, `LinkRead`, `LinkClear`, `LinkVerdict`, `LinkMode`, `LinkSwitch`,
`LinkRequest`, `LinkArm`, `LinkPoll` (with the publication that ends the turn) are `link_task`'s turn, one call of the latch or one access
to the registers each, with the turn's single clock reading `t`. `CcidArm` and `CcidPoll` are the worker's
wait (`ccid.c`), `U2fArm` and `U2fPoll` the FIDO handler. The keyboard (`KbShow`, `KbGesture`,
`KbRequest`, `KbMode`) is not in this repository; it follows `LINK_CONTRACT.md`: it displays the block the
chest published and echoes its instance with a press or a cancellation. `applied` is `s_mode_applied`, the last mode asked for on the link.
A switch it asks for may be refused because another one is under way (`LinkMode`), or time out, fail after the uninstallation (no mode is then
served), or succeed (`LinkSwitch`); how it fails is in `UsbMode`. `CcidArm` arms whether a shutdown has begun or not, as the code does.

### LinkDma

The other half of the same turn: `LinkTop`, `LinkDrain` (the reception is collected and armed again), `ServeList`,
`ServeCode`, `ServeNothing`, `LinkArm`, `LinkQueue` (`dma_publish()`), `LinkPoll`, `LinkCode`, `LinkRegs`. A turn is cut
wherever the keyboard, the driver's interrupt or the CCID worker can intervene. `buf` is the only transmit buffer, `txq` the
descriptors the driver holds, `ann` and `regs` what is announced. The keyboard (`KbWrite` to `KbHasRead`) is external: it may give up, reboot (between
its request and the doorbell too, but not in the middle of a read), or never read. `rxArmed` is `s_rx_armed`: arming the reception may fail (`ArmRx`), at start or after a collection, and what the keyboard
then writes is lost. The contents of the store are not here: each read of a slot may find it occupied or empty, since the worker rewrites it
without a lock. Frame bytes, lengths, CRC and the IRQ line are abstracted: a segment is its kind and what it is about, and a
read across a rewriting of the buffer is torn.

### CcidPipe

The USB side (`UsbOpen`, `UsbReset`, `HostXfrBlock`, `HostInline`, `HostRunt`, `HostFetches`), the
worker (`WorkerTake` to `WorkerDone`), the deferred callbacks (`UsbWtx`, `UsbFinal`) and
`ccid_shutdown()` with what follows it (`ModeStop`, `ModeWait`, `ModeDown`, `ModeUp`). A command is the
number the host gave it. `frame.full` is an answer that fills its last packet and needs a
zero-length one. TinyUSB's queue is external: a FIFO that disappears with the stack. `stale` is a history variable: a bus reset
came before the answer of the command was built. Such an answer is exempt from two properties (see the observations).
`usbd_edpt_xfer()` may refuse any transfer: the next OUT (`PrimeOut`), an inline or a final answer, a time extension, the ZLP. `lost` remembers that the present
command's answer was cut short by one; the code logs it and waits for a reset or a switch.

`CardSlot` is the promise: a command is asked, executed, told, or given up. The refinement (`phaseBar`) calls a command executed when neither
the semaphore nor the worker has it any more, so an answer that leaves too early, twice, or for a command that is executed again is no step of the slot.

### UsbMode

One program counter per caller, through `usb_mode_set()`, `usb_device_uninstall()`, `usb_device_install()` and the
mode's `start`; `usb_task` (`UsbLeave`, `CbBegin`, `CbEnd`), the host's commands and the worker in parallel.
`exposed` is what the host sees; `sem` a command handed to the worker, `by` the mode of the command it executes. A command may come until `usb_task` leaves,
`ccid_shutdown()`'s wait may give up on a busy worker, and nothing makes the installation wait for it. Everything that can fail in the code may fail here: the wait for the
exit token, the disk, the PHY, `tusb_init()`, the creation of the task.

### OpenPgpCard

A command is the change in RAM (the handler), one `Persist` per blob in the handler's order, then
`Answer`. `PowerCut` may come between any two, `PersistFails` at any write; the code mostly ignores its
result, and so does the model. `Load` is `mode_pgp_data_load()`, with the conversion of the
older key blob. TERMINATE and ACTIVATE go through `WipeOrder`, the order of the factory reset.

### OathStore

The store's slots in RAM and the blob in NVS. A PUT is written twice, without and then with the
digits, as `oath_proto.c` does. What destroys a secret first waits (`pc = "touch"`) for `Granted` or
`Denied`; RESET asks once and erases the slots one by one (`ClearNext`), writing each time. The mode may be left at rest or while a touch is awaited (`Stop`: the wait
sees `s_shutdown`, and nothing was changed yet); a worker that outlives `ccid_shutdown()`'s 2 s in the middle of a write is not here. `FinishCalculate` gives a code, or refuses it to an
account that a power cut left without its digits. `Accounts` are the slots
that hold one, `Listing` their labels in LIST order; `Page` is the number of accounts that fit one answer, in place of 255 bytes.

### Fido

`SetReport` is the OUT report callback: reassembly, the busy refusal, INIT on a busy channel, and
`HandleMessage` when the message is complete. `UsbComplete` is the IN completion. `UsbU2f` is the end of the
U2F handler after the latch was polled; a signature that fails after the grant gives 6F00, in one packet, and the request is over. A report
queued before a suspend may still be delivered after it. Host applications send a request, may repeat it (as browsers do,
every few hundred ms), may give up in the middle of it. The latch is `ConfirmGate`: the refinement proved
for the real one justifies it.

### Otp

`OnWrite` is `otp_proto_on_write()`; `ReadIdle`, `ReadWaiting`, `ReadDenied`, `ReadGranted` and `ReadNext` are the branches of
`otp_proto_on_read()` with the hooks of `otp_hid.c`. A report is the challenge it is part of, so the CRC holds when all parts are of one
challenge, and a digest is the challenge it was computed from. Applications interleave their reports freely; those in `Leavers` may go away
anywhere. `LinkArms` and `LinkPolls` are the link's use of the same latch.

### Storage, Disk

`HostAsks` to `UsbReturns` are the READ(10) and WRITE(10) callbacks and `transfer()`: the presence test, the geometry (`UsbSize`, `UsbCount`), and
then one step per access of the driver. `UsbLoad` and what follows are two steps because `s_card` is loaded, and only then followed, without `s_lock`.
`Sector`, `InSector`, `Whole`, `Direct` and `Bytes` are `msc_lba_next()`; `Merged` and `Unpacked` the two copies through the bounce buffer. `ConsoleTake`
to `ConsoleCardInit` are `sd_probe()`, `release()` and `probe_once()`, each of whose steps may fail, on the external supply and then on the LDO. A
byte is the transfer that wrote it and its place there, so that a byte in the wrong place or of the wrong transfer is seen. The card's driver is
external: it may fail, a write after some of its sectors. The medium does not change: the card is only exchanged with the power off.

A block of the heap is free, being initialised, or a card in use. A field read through a stale pointer is zero, the real value or another one
(`FieldOf`), for the bounce buffer as for a transfer. `stale` is a history variable: the geometry of this transfer came out of a freed block.

`Disk` is the promise: a request, bytes moved each at most once, an answer. The refinement takes the bytes before the
iterator as moved. Once the geometry was stale the promise is `Undefined` until the next request: nothing can be said of that transfer.

### Hmi

`HmiTop` is the clock reading of a turn, `HmiSwitch` a press of MODE (the switch may be slow, and `t` is then behind by `lag`), `HmiConfirm` the
debouncing, `HmiPeek` and `HmiRelay` the two calls of the latch, `HmiLook` the end of the turn: expiry flash, LED, snapshot. Times are ages in
periods of `hmi_task`. The latch is what `ConfirmGate` promises, with one more distinction: an operation armed after `t` was read (`fresh`) looks expired.
`ScreenRead` to `ScreenDrawFails` are `screen_task`: the copy of the snapshot, standby and sleep, the display command and the frame; both
of these may fail, and the panel may have taken a command that is reported as failed. An operation is carried twice, by number and by label, as
in the snapshot. What the other screens look like, and their slides, are data.

## 4. The runs

| run | what it shows | bounds, and why they are enough |
|---|---|---|
| `ConfirmCallers` | grants stay in their window whatever the callers' stale times; the latch implements `ConfirmGate` | 2 tasks (a worker, and the task that presses and cancels), 2 slots, 2 operations, clock modulo 8, window 3, lag 2, operations up to 7 ms old. The clock wraps several times in an operation's life and starts anywhere, so every relative position of arming, window, stale time and wrap occurs |
| `Link` | gestures relayed twice, slipped presses, grants taken by the wrong consumer; with fairness, the worker always leaves its wait and a code request does not stay armed | CCID and FIDO with one switch, which may be refused, time out or fail, window 2, 3 ms, 1 host operation, 1 code request, 2 gestures: one operation can replace the other while a gesture for the first is under way, a second gesture can follow, and the window fits into the time |
| `LinkU2fSlot` | finding 1, below | FIDO only |
| `CcidPipe` | buffers, sequence numbers, ZLP, dead queue; the transport implements `CardSlot`; and that every command whose transfers are accepted and every switch ends | 3 commands, 1 retry in place of 200 (the count is reached), 2 WTX pending at once, 1 switch; a bus reset, or a refused transfer, at any time |
| `UsbMode` | what is announced, served and torn down through every failure; every switch ends | the console asks for NONE, STORAGE or OATH while the MODE button cycles through all six; two callers are enough for every contention on `s_busy` |
| `OpenPgpCard` | PIN tries, keys, counter, one-signature token over power cuts and one failed write | 2 key slots, 2 PINs, 2 tries in place of 3, 2 keys made, counter to 1 |
| `OathStore` | labels, losses, durability, paging over failing writes and cuts | 3 slots in place of 16, 4 labels (one is the OTP mode's), one account per page, 3 secrets; symmetric in the three labels of accounts |
| `LinkDma` | which code leaves, the order of the two registers, what an answer answers, and that a list is answered whatever was never read before | 2 slots, 2 pages, a driver queue of 1 as in the code, 2 requests (one left unread before the other), 1 operation of the host, 1 reboot of the keyboard; the reception may fail to be armed at any time |
| `Otp` | whose digest leaves, for which touch, and that a challenge ends | 2 applications, one of which may leave; 2 slots, 2 challenges for each, frames of 3 reports in place of 10, answers of 3 as in the code |
| `Fido` | mixed answers, stuck flag, who signs, wasted touches | 2 applications, registration with 2 challenges, INIT and PING, long messages of 2 packets (first and last of any longer one), one suspend or reset; symmetric in applications and challenges |
| `Storage` | the disk keeps its bytes through cuts, failures and probes; the driver's arguments; the power; a transfer ends | sectors of 2 bytes and a medium of 2, an endpoint buffer of 4 bytes, requests of 3 and 4 bytes at offsets 0 and 1: whole sectors, heads, tails, two sectors at once, and requests past the end. A bounce buffer made for a card, for none, or from the geometry of a freed block (`Base` 1 in place of 512, so that the three differ). 2 transfers, one heap block: a block that is freed and given again is the hardest case for a stale pointer |
| `Hmi` | one touch one grant, true frames, the screen and the LED follow the operation | debounce of 2 samples, flash of 1, reinitialisation after 2 failures; 2 operations. Two boards: one with buttons and LED (3 moves of the finger, each bouncing, and 1 press of MODE), one with a screen that nobody touches. `hmi_task` does not read what `screen_task` writes, so the two halves meet only in the snapshot, which both have |

`CcidPipe` does not check for deadlock: the host may stop at its last command. Every other run does;
where a model has used up its bounds something can still move (a power cut, a suspend, a switch, a probe, the end of a turn).
The message identities of `Fido` are reused, so its long executions are not cut off.
AUTHENTICATE takes the same path as REGISTER in `Fido` and is in the module; the run has only REGISTER.

### Fairness

Only what FreeRTOS scheduling and bounded waits justify:

* `ConfirmLink!LinkFairSpec`: time goes on, `link_task` and the worker run again and again (each is a loop with a delay, on tasks
  that nothing suspends). Nothing is assumed of the keyboard or of the host.
* `CcidPipe!FairSpec`: the worker, `usb_task` and the switching task are scheduled, and the host fetches an answer that is ready
  (bulk IN polling is what a CCID host does). The *timeout* of `ccid_shutdown()` has no fairness: a switch must end because the worker stops.
* `UsbMode!FairSpec`: the worker and each switching task are scheduled; strong fairness of `Leave(c)`, since commands that keep
  starting and ending may not prolong the bounded wait in `ccid_shutdown()`. Nothing of `usb_task`, nothing of the host: a switch ends even if `usb_task` never leaves.
* `LinkDma!DmaFairSpec`: `link_task`, which always has a next step, runs again and again; so does the keyboard's loop (`KbLoop`), which rings after it has written, and reads what is announced. Nothing of the
  user, the worker or the clock.
* `Otp!OtpFairSpec`: windows close, and an application that does not leave writes its frame and reads until it is told. Nothing of the owner.
* `Storage!FairSpec`: `usb_task` runs, and a mutex that is given goes to the task that waits for it (strong fairness of `UsbTake`: the console may
  take the lock again and again, but FreeRTOS hands it over); a probe that has begun goes on. Nothing of the host or of the user of the console.
* `Hmi!HmiFairSpec`: both tasks run, and a switch returns; the splash ends; the bus does not fail for ever (strong fairness of a display command and of a
  frame). Nothing of the host, the finger or the window.

The other specifications (`ConfirmCallers`, `OpenPgpCard`, `OathStore`, `Fido`) have safety properties only, and no fairness.

## 5. What is proved

Every safety property that a passing run checks is also a theorem, for every value of the constants: any number of tasks, slots, commands,
requests, applications, retries; any width of the counter, any debouncing time, any sector size and any cut of a request. Each is about the
module's specification without fairness (`Spec`, `LinkSpec`, `DmaSpec`, `OtpSpec`, `HmiSpec`), so it holds of the one with fairness as well.

The argument is the same everywhere: a type invariant that also says what the step in progress knows; an inductive invariant
for the property; one lemma that runs through the actions; the properties of single steps (`[][A]_vars`) from the
same invariants. What follows says what the inductive invariant is and why the property alone is not enough.

### ConfirmProofs: the latch and the link's gestures

`TypeCorrect`, `IdleBlank` (an idle latch names no operation and an armed one does), `GrantSafe` (`GrantInWindow`: a grant comes from a
press whose *true* capture time is inside the window of the operation it grants, and never from a cancelled one) and
`GateImplemented` (`GateRefined`, the refinement of `ConfirmGate`).

`GrantInWindow` is not inductive: it speaks of true ages, and the code only sees differences modulo `ClockMod`. The
strengthening is `ClocksAgree` (the counter minus a stored time, modulo `ClockMod`, is the true age, for the
arming and for each task's captured time) with `SafeInv`. The arithmetic is in three lemmas: `MinusOfAges` (the difference of two stored
times from their ages), `MinusTick` (what one tick does to it) and `AcceptedAge` (a press that passes the window
test has a true age in the window); `SafeStep` and `GateStep` treat each action in a step of its own.

Two assumptions carry it, both stated where they are used. `MaxAge < ClockMod`: no operation stays armed and *unpolled* for a
whole turn of the counter (2^32 ms, 49.7 days); without it the claim is false, since the window is
entered again. `CallersAssumption`: `MaxLag + Timeout < ClockMod`, and the task that cancels is the only presser of its board;
with a second presser a stale press could come after a cancellation, and the "cancelled" mark is only a moved arming time.

Of `ConfirmLink`: `LinkTypeCorrect`, `GestureRelayedOnce` (`OneGestureOneRelay`), `GrantsOwned` (`GrantsAreOwn`) and `SlipIsNarrow` (`SlipNeedsSameMs`).

* `GestureInv`: what `link_task` judges is a gesture whose byte it has taken back already, so whatever it finds there afterwards has a later number. The
  order "read, clear, judge" is what carries it; the property only compares two relays.
* `OwnInv`: whose operation is armed, by its slot; FIDO's, which has the link's slot, is never armed in the CCID mode.
* `SlipNeedsSameMs` compares the operation a gesture was made for with the one it grants, while the code compares low bytes and times. `CountInv` and
  `EchoInv` follow the arming number through the published block, the keyboard's copy and the echo; `TurnInv` says that what was armed since `link_task`
  looked was armed by another task, not before `link_task` read the clock. `LaterIsExpired` does the rest: to a press with an older time the new operation looks expired.

Two limits are stated. The first is the code's: `SlipIsNarrow` assumes fewer than 256 armings (`MaxHost + MaxRequests < InstMod`): an instance is the number's low byte, and
after a turn of it an old echo names a new operation. The second is the model's: `LinkAssumption` keeps the modelled time below a turn of the counter; how the counter wraps is the first half's subject.

### CcidPipeProofs

`TypeCorrect`, `NeverPostedLate` (`NoPostToDeadQueue`), `WorkerOwnsBuffers` (`BuffersOwned`), `AnswersPaired` (`AnswerMatchesCommand`: header and
content of an answer), `SlotImplemented` (`OneAnswerPerCommand`, the refinement of `CardSlot`, which is the one that the run checks). The
invariant is `PipeInv`: a command that still has to be answered is in *one* place, the semaphore, the worker or one final
callback in TinyUSB's queue (`OnePlace`); wherever it is, OUT is not primed and no answer is on the wire (`Quiet`), and
the buffers hold what belongs to it (`Contents`, `OnWire`). That the queue holds at most one final answer is what the code relies on when it
keeps a single `s_in_buf`; `Finals` says how `Append` and `Tail` move the positions. `ModeInv` ties `s_shutdown`, the stack and the switch together. Both are
needed at once: a switch may find a command in any of the three places. The refinement needs no more: `HostSlot`, `WorkerSlot` and `GiveUpSlot` show which steps move the slot,
`Keeps` that the others do not, and `HistoryGrows` that the exemption, once taken, stays.

### UsbModeProofs

`TypeCorrect`; `UninstallSafe` (`UninstallIsSafe`); `ModeIsServed`: the host sees the announced mode, a mode that is known is served, no handler
of another mode is called; `ModesApart`: all of `ModesDoNotMix`, which adds `ForeignIsHeld`: what is armed for another mode than the one the host
sees belongs to a CCID command that has outlived its mode and still waits, and goes with it. None of them assumes anything of time or of who calls.
The stronger claim of the code's comment, that nothing of the old mode is armed when the new one starts, does not hold (see the observations).

`LockInv` says that one task at most is past the test of `s_busy`. It allows to speak of *the* place of the switch (`Place`) and of its goal, and
`ModeInv` then says for each place what is exposed (`ExposedInv`), where `usb_task` is (`TaskInv`: in its loop, or its token is there, or it is
forgotten) and what is plugged in (`ServeInv`). `LatchInv` adds the semaphore, the worker and the latch.

### OpenPgpProofs

`TypeCorrect`, `PinsCharged` (`GuessesCharged`), `KeysGuarded` (`KeysNeverUnguarded`), `CounterCovers` (`CounterCoversSignatures`), `OneSignature`
(`OneSignaturePerVerify`). A power cut may come between two blobs, so each invariant has to say what is *still to be written*. `CmdOK`
gives the plans a command can have (`Plan`: the keys before the PINs before the objects), and `SyncInv` that a blob which is not in the plan any
more is in the NVS as it is in RAM. On these rest `ChargedInv` (a charged try is in RAM before the answer and in the NVS with it), `GuardInv` (the factory PIN is
in RAM over the owner's stored keys only under a reset whose first write is the keys), `CountInv` (the counter is ahead in RAM, and not
behind in the NVS) and `SpentInv`. The first four properties hold as long as no write failed; that exception is in the properties.

### OathProofs

`TypeCorrect`, `LabelsUnique` (`NamesUnique`), `AnswerStored` (`AnsweredIsStored`), `NothingLost` (`NothingLostUntouched`), `PagesCurrent` (`PageIsCurrent`), and
`OtpSecretStays`: the secret of the OTP mode never leaves the NVS through the applet. `StoreStep` and `BlobStep` list every way in which a
step changes the RAM and the NVS; the rest is about them. `UniqueInv` needs the blob as well as the RAM, since a power cut makes it the RAM. `KeptInv`:
the RAM holds every stored secret whose destruction was not granted, even while RESET has erased some and not others. `PageInv`: the page that remains is
a suffix of the list, with the exact moment at which a change purges it; `ListingType` and `AfterSuffix` are the lemmas about
the ordered list of slots.

### FidoProofs

`FidoInvariant` (`Inv`) and from it `KeyNeverMute` (`NeverMute`), `AnswersInOrder` (`AnswersNotMixed`), `PressedIsSigned` (`SignedIsPressed`), `PressNotWasted`
(`GrantNotWasted`). `WireInv`: while `s_tx_busy` is set, the packet that was sent last is the last one counted in `s_tx`, refusals in between
notwithstanding. `GrantInv`: the request in the handler is the one that waits, the latch is armed for it, and a grant was given to it.

### OwnerProofs

Of `Hmi`, `FramesTrue` (`FramesAreTrue`) and `TouchGrantsOnce` (`OneTouchOneGrant`). `LabelInv` follows number and name together through the look, the snapshot, the copy and
the frame. `TouchInv` is about a touch that has granted and is *spent*: the button can only be believed released once the finger is up, and not
pressed again while its contact bounces. The hard part is time, and its last two conjuncts: age of the debouncer, lag of a slow switch and bounce that remains add up to no more than
the debouncing time, and the sample after a slow switch finds no bounce left.

Of `LinkDma`, `CodeIsPressed` (`CodeOfPressedSlot`), `NumberMovesFirst` (`SeqMovesFirst`) and `AnswersMatch` (`AnswerMatchesRequest`). `CodeInv`: the slot of a code is
noted with what is armed for it, and while `link_task` has not looked again that is what the owner is shown. `SeqInv`: a grant of the link's is consumed in the turn of its press, in
which the operation is shown before and after; the property, about two successive blocks, needs to know it of every place of the turn. `AnswerMatchesRequest` is about a request made when nothing else was under way
(`calm`): it goes through `Received`, `Served` and `Announced` (`CalmInv`). Before the doorbell of that request nothing is served, since `calm` began with every bell seen; the
reception was armed then, so that the request is the one that is collected.

Of `Otp`, `DigestIsCurrent` (`NoOldDigest`) and `AnswerPressed` (`AnswerIsPressed`). `RespInv`: outside an answer `s_resp` is clear; a failed HMAC leaves it clear
because the frame was only accepted once it was. `ChallengeInv` relates the waiting challenge, the slot and the operation in the latch, and what was pressed.

### StorageProofs

`TypeCorrect`; `PowerIsRight` (`PowerFollowsCard`); `AccessesAreSafe` (`IoIsSafe`); `DiskKept` (`DiskRefined`), the refinement of `Disk`, step by step.

`LockInv`, `HeapInv` and `PowerInv` say what the probe has and has not at each of its steps, and that no block but `s_card`'s is in
use. `SpanInv` keeps the iterator inside the request and, unless the geometry was read from a freed block, inside the medium; it also says that `ss` passed the
test against the bounce buffer, whatever it is, which is all that `IoIsSafe` needs. `MovedInv` and `BounceInv` carry the refinement: before the iterator, buffer and medium agree; the bounce
buffer of a partial write is the sector with the span patched in. Division is dealt with once (`DivMod`, `Span`, `SpanFacts`): the spans of
`msc_lba_next()` follow one another, stay in the sector, and a whole one covers exactly its sectors.

### Assumptions

Each module's `ASSUME` is a typing of its constants: natural numbers, non-zero where the code's macros are. `NoneAssumption` (`Fido`), `NoneIsNoRequest` (`LinkDma`) and `NullAssumption` (`Storage`)
say that the value that stands for "none" is not one of the others. TLC evaluates them in the runs. `LinkAssumption` also keeps the modelled time of a run below a turn of the counter (see
above). Two assumptions are hypotheses of the theorems that need them: `MaxAge < ClockMod` and `MaxHost + MaxRequests < InstMod`.

### What stays with TLC

* Every liveness property, since fairness and ENABLED are out of the prover's reach: `WaitsEnd`, `PipeNeverHangs`, `SwitchEnds`, `ListAnswered`,
  `ChallengeEnds`, `TransferEnds`, `ScreenFollows`, `LedTellsWaiting`.
* `CodeIsOwn`, which is false (finding 1).
* What a recursive definition computes. None is needed: no module declares a RECURSIVE operator.
* That the bounds of a run leave the interesting cases in: the theorems need no bound, but a theorem about a state that is never reached would be
  empty. The runs fire every action, and each property is violated by a mutant of the code.

## 6. Findings

A disagreement between the code and what its comment says, refuted by a run:

1. `LinkU2fSlot`: `link_spi.c:804` releases a code "granted for OUR slot, and for it alone", but a FIDO registration arms with
   the same slot number, 0xE0.

### Observations

Met while modelling. The models contain these behaviours unless said otherwise; no run is spent on them.

* The link's poll can consume the worker's grant. The worker then waits for its own deadline and refuses (`HostAnswered`, in `WaitsEnd`, shows that it ends).
* CCID: `ccid.c:335` says that the answer of an interface that was reset is dropped. It is dropped only while the interface is still closed: after a fast
  reconfiguration it is built with the next command's number, and answers may stay one behind until the mode is switched. `BuffersOwned` and
  `OneAnswerPerCommand` exempt it (`stale`); `PipeNeverHangs` does not.
* CCID: a transfer that `usbd_edpt_xfer()` refuses is only logged ("CCID pipe wedged", `ccid.c:558`): the pipe stands still until a reset or a switch.
  `CommandAnswered`, in `PipeNeverHangs`, exempts that command (`lost`); `OneAnswerPerCommand` does not.
* `usb_mode.c:172` says of `sec_confirm_reset()` that there is no window in which the new mode would start with a confirmation of the old one still armed. Nothing in
  the code orders the CCID worker before the installation: `ccid_dispatch()` hands over a command that comes after `ccid_shutdown()`'s wait, that wait gives up after
  2 s, `dongle_confirm_named()` arms without testing `s_shutdown` (`ccid.c:453`), and `tusb_init()` clears the flag (`ccid.c:627`) that the worker polls every 20 ms. How
  likely it is depends on how long a reinstallation takes, which the model does not time. A touch is then asked for under the new mode for a command
  whose host is gone; `ForeignIsHeld` shows that it is no worse.
* Link: `link_spi.c:477` says that a reception stays queued at all times, and `link_spi.c:494` that a failure to arm it is logged once per tick. Nothing calls `dma_arm_rx()` but the
  start and the collection of a reception, so after one failure nothing tries again, it is logged once, and every request of the keyboard is lost. `ListAnswered` asks for an armed reception.
* `s_mode_applied` is the last mode that the link applied. After an installation that failed no mode is served, and a keyboard that goes back to that
  last mode asks for nothing new (`ModeAsked`): the chest stays without a mode until another one is asked for.
* The link tests that the latch is free and arms it in two calls, so a code request can replace an operation armed in between.
* A press can slip to an operation armed in the same millisecond (`SlipNeedsSameMs` shows that the gap is no wider).
* OATH RESET with no account in RAM writes nothing and answers 9000, while the NVS may still hold an account whose DELETE failed to be written.
* A power cut between the two writes of a PUT leaves an account without digits: visible (6581) and repaired by a new PUT.
* After a failed DELETE, SEND REMAINING serves a list computed before it.
* `mode_oath.c:506` keeps the applet plugged in until the worker has stopped, so that no OATH command is run by OpenPGP; but
  `ccid_dispatch()` ignores `s_shutdown`, and commands still come until `usb_task` leaves (`CcidCommand`, `WorkerStart` of `UsbMode`).
* `openpgp_card.c:616` relies on the wipe being persisted; a failed write is not noticed, and 9000 is answered (`PersistFails`). The properties of
  `OpenPgpCard` that speak of the NVS hold as long as no write failed.
* Each DMA segment that is never read leaves its descriptor in the driver. With `queue_size` 1 (`link_spi.c:1128`) the second one fills it:
  `spi_slave_hd_queue_trans()` then fails, and nothing is published any more until something is read, though the one-second abandon of `link_spi.c:516`
  was meant to prevent just that. `ListAnswered` asks for room in the driver.
* On `niphar_chest`, the link's poll can consume the grant, or the timeout, of an OTP challenge. `hook_confirm_state()` takes the idle latch for
  "still waiting" (`otp_hid.c:105`): the host waits for ever, and no frame is accepted until the mode is entered again. `ChallengeEnds` excludes this case (`robbed`).
* OTP: an answer interrupted half-way has no timeout; two applications can take each other's chunks; a challenge written while another waits is ignored.
* Link: the account's name is read again after the test of the slot, so a code can be asked for under a blank name; and the account in the slot may change
  between the name that is shown and the code (`link_spi.c:775`). A slot may also be read in the middle of a RENAME. `LinkDma` knows slots and not accounts.
* Link: `s_dma_tx` is filled before `dma_publish()` looks at the segment in flight, so a segment that is being read can be overwritten; its CRC tells.
* `sec_time_set()` writes the seconds, then the milliseconds, without a lock (not modelled).
* FIDO: an answer is dropped without a word when the previous single-packet answer is still in the endpoint; this includes a signed answer, whose touch
  is then spent. A second refusal overwrites the first that waits. Refusals have priority, so an application that keeps colliding delays another's answer.
* FIDO: a message abandoned half-way keeps every other channel busy. There is no transaction timeout, and since INIT on another channel is refused too, this
  lasts until its own channel sends again or the mode is left.
* FIDO: a waiting refusal that fails on a suspended bus leaves `s_tx_busy` set; the next request's refusal restarts the answer.
* Storage: `sd_present()`, `sd_sector_size()` and `sd_sector_count()` follow `s_card` without `s_lock` (as the comment of `sd_card.c:47` warns),
  while `sd_probe()` frees it. A transfer can then be cut by the geometry of a freed block; `DiskRefined` says nothing of it, `IoIsSafe` only that
  the driver still gets a card that is ready, since `check_range()` is under the lock.
* HMI: the LED has no colour for FIDO and OATH, and is off while a confirmation waits in these modes (`led_state.h:80`); `LedTellsWaiting` is about the others.
* HMI: the grant's flash is shown after the relay whatever the latch decided: an operation that changed between the peek and the press flashes as granted.
* HMI: an operation armed during a slow switch looks expired to the stale `t` of that turn: a refusal flashes though it waits. If the host arms
  anew in each turn, LED and screen never tell (`fresh`).
* HMI: a stale `t` also shortens the 20 ms of debouncing and the MODE flash. `OneTouchOneGrant` holds regardless.
* HMI: a finger put down just before the arming can grant the operation: the debounced edge comes 20 ms later.
* HMI: `wait_armed_at` is only set when a wait begins (`hmi.c:164`), so an operation that replaces another between two turns is shown with the
  first one's deadline, against `hmi.h:52`. Deadlines are not in the model.
* Screen: a reinitialisation that fails after its first command (display off), or a display-off that was taken but reported as failed, leaves the panel dark with
  `display_on` true: nothing turns it on again until it sleeps. A display-on that was taken but reported as failed leaves a lit panel that is not redrawn.
  `ScreenFollows` excludes both (`Misled`). A frame torn by a failed page is excluded from `FramesAreTrue`.

## 7. What is not modelled

* Cryptography, the APDU parser, TLV, names and the layout of screens: pure functions of one buffer with unit tests, or drawing. In the models they
  are a refusal that changes nothing, or a choice. So is the derivation of FIDO keys (`fido_master.c`), its lazy creation included.
* Of the wall clock, only that there may be none. Of the SD card, its driver (external) and an exchange of the medium. Of the HMI, time in
  milliseconds: deadlines, slides and the standby delays are an order of events.
* OpenPGP's touch policy (UIF): the wait itself is in `ConfirmLink`, the data object that asks for it is not.
* Of the link: frame bytes and CRC, lengths, the IRQ line, the installation of the driver.
* DECIPHER, INTERNAL AUTHENTICATE, GET DATA and the other data objects of the OpenPGP card: they change nothing the properties tell
  apart. PUT DATA is modelled for C4, the only object that governs a right; the tag DO 93 can be written by the host as well, and
  with it the signature counter means nothing.
* The flash below NVS: one blob is written whole or not at all, which is what NVS promises. A write that reports a failure may or may not
  have been done.
* Hardware, DMA and cache coherence, and the initialisation order of `app_main()`.
