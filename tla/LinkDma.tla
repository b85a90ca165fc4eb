------------------------------ MODULE LinkDma ------------------------------
(***************************************************************************)
(* The data channel of the SPI link (link/link_spi.c): the keyboard writes *)
(* a request by DMA and rings, link_task serves it into the one transmit   *)
(* buffer, queues a segment and announces it in the registers, and the     *)
(* keyboard reads it.  A list of accounts is served at once, a code only   *)
(* after the press.                                                        *)
(*                                                                         *)
(* A turn of link_task is cut wherever the keyboard, the driver's ISR or   *)
(* the CCID worker may intervene.  The latch is its promise, ConfirmGate;  *)
(* ConfirmLink has the gestures.  An answer is its kind and what it is     *)
(* about: the page of a list, the slot of a code.  The store is not here:  *)
(* the worker changes it at any time, so each read of a slot may find it   *)
(* occupied or empty.                                                      *)
(***************************************************************************)
EXTENDS Naturals, Latch

CONSTANTS
    SlotIds,    \* slots of the store
    Pages,      \* first indices of the lists that the keyboard asks for
    Queue,      \* queue_size of the driver: 1
    MaxAsk,     \* bound: requests of the keyboard; below 256, its doorbell
    MaxOps,     \* bound: operations the CCID worker arms
    MaxRestart  \* bound: times the keyboard reboots

ASSUME DmaAssumption ==
    /\ Queue \in Nat \ {0} /\ MaxAsk \in Nat /\ MaxOps \in Nat /\ MaxRestart \in Nat

VARIABLES
    lpc,            \* where link_task is in its turn
    pend,           \* the operation that peek_armed() returned this turn
    bellRead,       \* m->req_seq of this turn
    rxArmed,        \* s_rx_armed: the driver holds a reception
    rx,             \* the request in that reception, or None
    reqBuf, recue,  \* s_req_buf, s_req_recue
    seen, last,     \* s_req_seq_seen, s_last_req_seq
    codeWait, codeSlot, \* s_code_wait, s_code_slot
    buf,            \* what s_dma_tx contains
    job,            \* the answer to publish, or the slot whose code to serve
    ann, dseq,      \* s_dma_kind and s_dma_len; s_dma_seq
    enVol, stale,   \* s_tx_en_vol, and for longer than LINK_TX_ABANDON_MS
    txq,            \* descriptors the driver holds: one loaded, Queue waiting
    regs,           \* the published block: seq, announcement, operation
    hostWait, hostOps,  \* the worker waits for its touch
    kb,             \* the keyboard: what it does, its request, the last seq seen
    bell,           \* 0x3C, the keyboard's doorbell
    restarts,
    calm,           \* history: nothing of an earlier request is under way
    pressedFor      \* history: the slot whose name the owner saw when she pressed

linkVars == <<pend, bellRead, reqBuf, recue, seen, last, codeWait, codeSlot, job>>
rxVars == <<rxArmed, rx>>
txVars == <<buf, ann, dseq, enVol, stale, txq>>
hostVars == <<hostWait, hostOps>>
kbVars == <<kb, bell, restarts, calm>>
dmaVars == <<lpc, linkVars, rxVars, txVars, regs, gateVars, hostVars, kbVars, pressedFor>>

DmaGate == INSTANCE ConfirmGate WITH
            Slots <- {"E0", "F0"}, Ops <- SlotIds \cup {None},
            NoSlot <- None, answer <- <<>>

List(first) == [kind |-> "LIST", about |-> first]
Code(i) == [kind |-> "CODE", about |-> i]
Requests == {List(p) : p \in Pages} \cup {Code(i) : i \in SlotIds}
                \cup {[kind |-> "BAD", about |-> 0]}
Nothing == [kind |-> "none", about |-> 0]

ASSUME NoneIsNoRequest == None \notin Requests

DmaInit ==
    /\ lpc = "top" /\ pend = None /\ bellRead = 0
    /\ rxArmed \in BOOLEAN /\ rx = None
    /\ reqBuf = Nothing /\ recue = FALSE /\ seen = FALSE /\ last = 0
    /\ codeWait = FALSE /\ codeSlot = 0 /\ job = Nothing
    /\ buf = Nothing /\ ann = Nothing /\ dseq = 0
    /\ enVol = FALSE /\ stale = FALSE /\ txq = 0
    /\ regs = [seq |-> 0, ann |-> Nothing, pend |-> None]
    /\ phase = "idle" /\ what = None /\ hostWait = FALSE /\ hostOps = 0
    /\ kb = [pc |-> "idle", req |-> Nothing, hdr |-> Nothing, torn |-> FALSE, seq |-> 0]
    /\ bell = 0 /\ restarts = 0 /\ calm = FALSE /\ pressedFor = None
-----------------------------------------------------------------------------
(* link_task's turn: what is armed, then the keyboard's range, doorbell    *)
(* included; one step, as nobody who touches one of them reads the other.  *)
LinkTop ==
    /\ lpc = "top" /\ lpc' = "drain"
    /\ pend' = IF phase = "waiting" THEN what ELSE None
    /\ bellRead' = bell
    /\ UNCHANGED <<reqBuf, recue, seen, last, codeWait, codeSlot, job, rxVars, txVars,
                   regs, gateVars, hostVars, kbVars, pressedFor>>

\* drain_user_confirm(): the gesture echoes the operation that the keyboard
\* showed; what is armed by now may be another (see ConfirmLink).
LinkPress ==
    /\ lpc = "drain" /\ pend # None /\ pend = regs.pend
    /\ DmaGate!Press
    /\ pressedFor' = pend[2]
    /\ UNCHANGED <<lpc, linkVars, rxVars, txVars, regs, hostVars, kbVars>>

\* Mutant: not while an earlier reception still waits for its doorbell.
CollectsOnce == ~recue

(* service_request(): collect the reception and arm it again, whatever the *)
(* doorbell says.  A reception that the driver refuses is only logged, and *)
(* nothing arms another: dma_arm_rx() is called after a reception.         *)
Collects == TRUE
ArmRx(arrived) ==
    IF arrived THEN rx' = None /\ rxArmed' \in BOOLEAN ELSE UNCHANGED rxVars
LinkDrain ==
    /\ lpc = "drain"
    /\ LET arrived == rx # None /\ Collects
           have == recue \/ arrived
       IN  /\ ArmRx(arrived)
           /\ reqBuf' = IF arrived THEN rx ELSE reqBuf
           /\ \/ /\ ~seen
                 /\ seen' = TRUE /\ last' = bellRead /\ recue' = FALSE
                 /\ lpc' = "poll"
              \/ /\ seen /\ (bellRead = last \/ ~have)
                 /\ recue' = have /\ lpc' = "poll"
                 /\ UNCHANGED <<seen, last>>
              \/ /\ seen /\ bellRead # last /\ have
                 /\ last' = bellRead /\ recue' = FALSE
                 /\ lpc' = "serve" /\ UNCHANGED seen
    /\ UNCHANGED <<pend, bellRead, codeWait, codeSlot, job, txVars, regs, gateVars,
                   hostVars, kbVars, pressedFor>>

\* Serialise an answer into s_dma_tx, before dma_publish() is asked.
Pack(a) ==
    /\ buf' = a /\ job' = a
    /\ kb' = [kb EXCEPT !.torn = @ \/ (kb.pc = "reading" /\ a # buf)]
    /\ lpc' = "queue"
    /\ UNCHANGED <<ann, dseq, enVol, stale, txq, bell, restarts, calm>>

ServeList ==
    /\ lpc = "serve" /\ reqBuf.kind = "LIST"
    /\ Pack(reqBuf)
    /\ UNCHANGED <<pend, bellRead, reqBuf, recue, seen, last, codeWait, codeSlot, rxVars,
                   regs, gateVars, hostVars, pressedFor>>

\* Mutant: the slot is noted before the request is known to be acceptable.
ServeNothingNotes ==
    /\ lpc = "serve" /\ lpc' = "poll"
    /\ \/ reqBuf.kind = "BAD" /\ UNCHANGED codeSlot
       \/ reqBuf.kind = "CODE" /\ codeSlot' = reqBuf.about
    /\ UNCHANGED <<pend, bellRead, reqBuf, recue, seen, last, codeWait, job, rxVars, txVars,
                   regs, gateVars, hostVars, kbVars, pressedFor>>

\* Refused by its CRC, over a pending operation, or for an empty slot.
ServeNothing ==
    /\ lpc = "serve" /\ lpc' = "poll"
    /\ reqBuf.kind \in {"BAD", "CODE"}
    /\ UNCHANGED <<linkVars, rxVars, txVars, regs, gateVars, hostVars, kbVars, pressedFor>>

\* For an account of the applet, and over nothing that is pending.
ServeCode ==
    /\ lpc = "serve" /\ reqBuf.kind = "CODE" /\ lpc' = "arm"
    /\ phase # "waiting"
    /\ UNCHANGED <<linkVars, rxVars, txVars, regs, gateVars, hostVars, kbVars, pressedFor>>

\* Arm under the name the slot has now, none if it was emptied since; the
\* worker may have armed since, too.
LinkArm ==
    /\ lpc = "arm" /\ lpc' = "poll"
    /\ phase' = "waiting" /\ what' = <<"E0", reqBuf.about>>
    /\ DmaGate!ArmOp
    /\ codeWait' = TRUE /\ codeSlot' = reqBuf.about
    /\ UNCHANGED <<pend, bellRead, reqBuf, recue, seen, last, job, rxVars, txVars, regs,
                   hostVars, kbVars, pressedFor>>
-----------------------------------------------------------------------------
\* Mutant: a segment that nobody reads is in flight for ever.
AbandonedNever == FALSE

(* dma_publish(): not over a segment in flight, unless nobody will ever    *)
(* read it; the number changes last. *)
Abandoned == stale
InFlight == enVol /\ ~Abandoned
Full == txq = Queue + 1

LinkQueue ==
    /\ lpc = "queue" /\ lpc' = IF job.kind = "LIST" THEN "poll" ELSE "regs"
    /\ \/ /\ InFlight \/ Full
          /\ UNCHANGED <<ann, dseq, enVol, stale, txq>>
       \/ /\ ~InFlight /\ ~Full
          /\ txq' = txq + 1 /\ enVol' = TRUE /\ stale' = FALSE
          /\ ann' = job /\ dseq' = dseq + 1
    /\ UNCHANGED <<linkVars, rxVars, buf, regs, gateVars, hostVars, kbVars, pressedFor>>

(* service_pending_code(): the code leaves for a grant of our own slot. *)
LinkPoll ==
    /\ lpc = "poll"
    /\ \/ /\ ~codeWait \/ phase = "waiting"
          /\ lpc' = "regs"
          /\ UNCHANGED <<codeWait, codeSlot, job, gateVars>>
       \/ /\ codeWait /\ phase # "waiting"
          /\ \/ DmaGate!EndsGranted
             \/ phase = "lapsed" /\ DmaGate!EndsRefused
             \/ phase = "idle" /\ UNCHANGED gateVars
          /\ codeWait' = FALSE /\ codeSlot' = 0
          /\ IF phase = "granted" /\ what[1] = "E0"
             THEN lpc' = "code" /\ job' = Code(codeSlot)
             ELSE lpc' = "regs" /\ UNCHANGED job
    /\ UNCHANGED <<pend, bellRead, reqBuf, recue, seen, last, rxVars, txVars, regs, hostVars,
                   kbVars, pressedFor>>

(* serve_code(): nothing without the time, nor for an empty slot. *)
LinkCode ==
    /\ lpc = "code"
    /\ \/ Pack(job)
       \/ /\ lpc' = "regs" /\ UNCHANGED <<job, txVars, kbVars>>
    /\ UNCHANGED <<pend, bellRead, reqBuf, recue, seen, last, codeWait, codeSlot, rxVars,
                   regs, gateVars, hostVars, pressedFor>>

\* The locals of a turn are gone, and a request that was served is forgotten.
EndOfTurn ==
    /\ pend' = None /\ bellRead' = 0 /\ job' = Nothing
    /\ reqBuf' = IF recue THEN reqBuf ELSE Nothing

\* Mutant: what is pending is looked up when the block is published.
LinkRegsFresh ==
    /\ lpc = "regs" /\ lpc' = "top"
    /\ regs' = [seq |-> dseq, ann |-> ann,
                pend |-> IF phase = "waiting" THEN what ELSE None]
    /\ EndOfTurn
    /\ UNCHANGED <<recue, seen, last, codeWait, codeSlot, rxVars, txVars, gateVars, hostVars,
                   kbVars, pressedFor>>

(* pack_current(), publish(): the operation is the one of the turn's top. *)
LinkRegs ==
    /\ lpc = "regs" /\ lpc' = "top"
    /\ regs' = [seq |-> dseq, ann |-> ann, pend |-> pend]
    /\ EndOfTurn
    /\ UNCHANGED <<recue, seen, last, codeWait, codeSlot, rxVars, txVars, gateVars, hostVars,
                   kbVars, pressedFor>>

LinkTask == \/ LinkTop \/ LinkDrain \/ ServeList \/ ServeNothing \/ ServeCode
            \/ LinkArm \/ LinkQueue \/ LinkPoll \/ LinkCode \/ LinkRegs

\* A segment has been in flight for a second.  The keyboard reads at most a
\* few milliseconds after it has seen the number change.
SecondPasses ==
    /\ enVol /\ ~stale /\ kb.pc \notin {"read", "reading"}
    /\ stale' = TRUE
    /\ UNCHANGED <<lpc, linkVars, rxVars, buf, ann, dseq, enVol, txq, regs, gateVars, hostVars,
                   kbVars, pressedFor>>
-----------------------------------------------------------------------------
(* Nothing of an earlier request is under way, and a reception is armed. *)
Quiet ==
    /\ seen /\ last = bell /\ ~codeWait /\ lpc = "top" /\ kb.seq = dseq
    /\ enVol => stale
    /\ rxArmed /\ rx = None

(* The keyboard, as docs/LINK_CONTRACT.md asks: write, then ring. *)

KbWrite(r) ==
    /\ kb.pc = "idle" /\ bell < MaxAsk
    \* lost when no reception is armed, or the last one not collected yet
    /\ rx' = IF rxArmed /\ rx = None THEN r ELSE rx
    /\ kb' = [kb EXCEPT !.pc = "wrote", !.req = r]
    /\ calm' = (calm \/ Quiet)
    /\ UNCHANGED <<lpc, linkVars, rxArmed, txVars, regs, gateVars, hostVars, bell, restarts,
                   pressedFor>>

KbRing ==
    /\ kb.pc = "wrote"
    /\ bell' = bell + 1
    /\ kb' = [kb EXCEPT !.pc = "rang"]
    /\ UNCHANGED <<lpc, linkVars, rxVars, txVars, regs, gateVars, hostVars, restarts, calm,
                   pressedFor>>

KbGivesUp ==
    /\ kb.pc = "rang"
    /\ kb' = [kb EXCEPT !.pc = "idle", !.req = Nothing] /\ calm' = FALSE
    /\ UNCHANGED <<lpc, linkVars, rxVars, txVars, regs, gateVars, hostVars, bell, restarts,
                   pressedFor>>

\* It reboots, maybe before it rings: its reference is the segment number it
\* finds.  (Not in the middle of a read, whose end the driver would not see.)
KbRestart ==
    /\ kb.pc # "reading" /\ restarts < MaxRestart
    /\ restarts' = restarts + 1
    /\ kb' = [kb EXCEPT !.pc = "idle", !.seq = regs.seq, !.req = Nothing,
                        !.hdr = Nothing]
    /\ calm' = FALSE
    /\ UNCHANGED <<lpc, linkVars, rxVars, txVars, regs, gateVars, hostVars, bell, pressedFor>>

KbSees ==
    /\ kb.pc \in {"idle", "rang"} /\ regs.seq # kb.seq
    /\ kb' = [kb EXCEPT !.pc = "read", !.seq = regs.seq, !.hdr = regs.ann]
    /\ UNCHANGED <<lpc, linkVars, rxVars, txVars, regs, gateVars, hostVars, bell, restarts, calm,
                   pressedFor>>

KbReads ==
    /\ kb.pc = "read" /\ txq > 0
    /\ kb' = [kb EXCEPT !.pc = "reading", !.torn = FALSE]
    /\ UNCHANGED <<lpc, linkVars, rxVars, txVars, regs, gateVars, hostVars, bell, restarts, calm,
                   pressedFor>>

(* Whichever descriptor was loaded, it delivers the buffer as it is; the   *)
(* CRC sits at the length announced.                                       *)
Delivered == IF kb.torn \/ buf.kind # kb.hdr.kind THEN Nothing ELSE buf

(* The segment is gone: on_tx_sent(). *)
KbHasRead ==
    /\ kb.pc = "reading"
    /\ kb' = [kb EXCEPT !.pc = "idle", !.hdr = Nothing, !.torn = FALSE, !.req = Nothing]
    /\ calm' = FALSE
    /\ txq' = txq - 1 /\ enVol' = FALSE /\ stale' = FALSE
    /\ UNCHANGED <<lpc, linkVars, rxVars, buf, ann, dseq, regs, gateVars, hostVars, bell,
                   restarts, pressedFor>>
-----------------------------------------------------------------------------
(* The CCID worker arms over what is there. *)
HostArms ==
    /\ ~hostWait /\ hostOps < MaxOps
    /\ phase' = "waiting" /\ what' = <<"F0", None>>
    /\ DmaGate!ArmOp
    /\ hostWait' = TRUE /\ hostOps' = hostOps + 1
    /\ UNCHANGED <<lpc, linkVars, rxVars, txVars, regs, kbVars, pressedFor>>

HostPolls ==
    /\ hostWait /\ phase # "waiting" /\ hostWait' = FALSE
    /\ \/ DmaGate!EndsGranted
       \/ phase = "lapsed" /\ DmaGate!EndsRefused
       \/ phase = "idle" /\ UNCHANGED gateVars
    /\ UNCHANGED <<lpc, linkVars, rxVars, txVars, regs, hostOps, kbVars, pressedFor>>

DmaLapses ==
    /\ DmaGate!Lapse
    /\ UNCHANGED <<lpc, linkVars, rxVars, txVars, regs, hostVars, kbVars, pressedFor>>

DmaNext ==
    \/ LinkTask \/ LinkPress \/ SecondPasses \/ DmaLapses
    \/ \E r \in Requests : KbWrite(r)
    \/ KbRing \/ KbGivesUp \/ KbRestart \/ KbSees \/ KbReads \/ KbHasRead
    \/ HostArms \/ HostPolls

DmaSpec == DmaInit /\ [][DmaNext]_dmaVars

(* link_task, which always has a next step, runs again and again, and so   *)
(* does the keyboard's loop: it rings after it has written and reads what  *)
(* is announced.  Nothing is assumed of the user, the worker, or the clock. *)
KbLoop == KbRing \/ KbSees \/ KbReads \/ KbHasRead
DmaFairSpec == DmaSpec /\ []<><<TRUE>>_lpc /\ WF_kb(KbLoop)
-----------------------------------------------------------------------------
(* The code that leaves on the link is of the slot whose name was shown to *)
(* the owner when she pressed, whatever was asked for or armed between the *)
(* request and the press (service_request(), service_pending_code()).      *)
CodeOfPressedSlot ==
    [][lpc = "poll" /\ lpc' = "code" => job'.about = pressedFor]_dmaVars

(* "0x11 always moves before 0x06-0x07 empties, never after": the block    *)
(* that announces a code, and the one before it, still show an operation   *)
(* pending, so an operation that ends without a number is a dead request   *)
(* (LINK_CONTRACT.md).                                                     *)
SeqMovesFirst ==
    [][regs'.seq # regs.seq /\ regs'.ann.kind = "CODE"
         => regs.pend # None /\ regs'.pend # None]_dmaVars

(* If nothing of an earlier request is left, what the keyboard reads is    *)
(* whole and answers the request it has made, not an older one.            *)
AnswerMatchesRequest ==
    [][kb.pc = "reading" /\ kb'.pc = "idle" /\ calm
         => /\ Delivered.kind = kb.req.kind
            /\ kb.req.kind = "LIST" => Delivered = kb.req]_dmaVars

(* "A segment you never read cannot desync the channel": a list asked for  *)
(* when nothing else is under way is always announced and read, whatever   *)
(* was never read before, while the driver has room for it.                *)
ListAnswered ==
    (kb.pc = "rang" /\ kb.req.kind = "LIST" /\ calm /\ txq =< Queue) ~> kb.pc # "rang"
=============================================================================
