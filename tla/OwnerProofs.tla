---------------------------- MODULE OwnerProofs ----------------------------
(***************************************************************************)
(* Proofs about what the owner is shown and what her touch grants: on the  *)
(* security-key board (Hmi), over the link to the keyboard (LinkDma), and  *)
(* in the OTP mode (Otp).  They hold for any number of operations, slots,  *)
(* requests and applications, any debouncing time, and frames and answers  *)
(* of any number of reports.                                               *)
(***************************************************************************)
EXTENDS Hmi, LinkDma, Otp, TLAPS

(* What is drawn, published and read names the operation it labels.        *)
LabelInv ==
    /\ snapshot.op = snapshot.label
    /\ prev.op = prev.label
    /\ FramesAreTrue

(* A turn goes on with the time it has read; it is late only after a mode  *)
(* switch, until the next reading.                                         *)
ButtonType ==
    /\ hpc \in {"top", "switching", "confirm", "peek", "relay", "look"}
    /\ btn \in [stable : BOOLEAN, candidate : BOOLEAN, age : 0 .. Debounce]
    /\ bounce \in 0 .. Debounce /\ lag \in {0, Debounce}
    /\ down \in BOOLEAN /\ spent \in BOOLEAN
    /\ hpc = "switching" => lag = 0

(* After a touch has granted an operation, the button can only be believed *)
(* to be released once it is, and not to be pressed again while its        *)
(* contact bounces.                                                        *)
Settling == spent /\ btn.candidate # down /\ (down \/ ~btn.stable)
TouchInv ==
    /\ hpc \in {"peek", "relay"} => btn.stable /\ btn.candidate /\ ~spent
    /\ spent /\ down => btn.stable
    /\ Settling /\ bounce > 0 => btn.age + lag + bounce =< Debounce
    /\ hpc = "confirm" /\ lag > 0 /\ spent /\ (down \/ ~btn.stable) => bounce = 0

\* Min({a, b}) is the smaller of the two.
LEMMA MinOfTwo ==
    ASSUME NEW a \in Int, NEW b \in Int
    PROVE  Min({a, b}) = IF a =< b THEN a ELSE b
<1>. DEFINE c == IF a =< b THEN a ELSE b
<1>1. c \in {a, b} /\ \A y \in {a, b} : c =< y
  OBVIOUS
<1>2. \A x \in {a, b} : (\A y \in {a, b} : x =< y) => x = c
  OBVIOUS
<1>. QED
  BY <1>1, <1>2 DEF Min
-----------------------------------------------------------------------------
(* Every step keeps the names: a look, a publication, a copy and a frame   *)
(* are each of one operation.                                              *)
LEMMA LabelStep ==
    ASSUME LabelInv, [HmiNext]_hmiVars
    PROVE  LabelInv'
<1>. USE DEF LabelInv, FramesAreTrue
<1>1. CASE Host \/ FingerMoves
  BY <1>1 DEF Host, Arms, Ends, HmiLapses, FingerMoves, taskVars, screenVars
<1>2. CASE HmiTop \/ HmiSwitch \/ HmiConfirm \/ HmiPeek \/ HmiRelay
  BY <1>2 DEF HmiTop, HmiSwitch, HmiConfirm, HmiPeek, HmiRelay, taskVars, screenVars
<1>3. CASE HmiLook
  <2>1. snapshot'.op = snapshot'.label /\ UNCHANGED <<prev, ram>>
    BY <1>3 DEF HmiLook, Looked, screenVars
  <2>. QED
    BY <2>1
<1>4. CASE ScreenRead \/ ScreenKeeps \/ ScreenTurns \/ ScreenTurnFails
  BY <1>4 DEF ScreenRead, ScreenKeeps, ScreenTurns, ScreenTurnFails, taskVars
<1>5. CASE ScreenDraws \/ ScreenDrawFails
  <2>1. Frame.op = Frame.label /\ Torn.op = Torn.label
    BY DEF Frame, Asks, Other, Torn
  <2>2. ram' \in {ram, Frame, Torn} /\ UNCHANGED <<prev, snapshot>>
    BY <1>5 DEF ScreenDraws, ScreenDrawFails, taskVars
  <2>. QED
    BY <2>1, <2>2
<1>6. CASE UNCHANGED hmiVars
  BY <1>6 DEF hmiVars, taskVars, screenVars
<1>. QED
  BY <1>1, <1>2, <1>3, <1>4, <1>5, <1>6 DEF HmiNext, HmiTask, ScreenTask

(* The screen never asks for an operation under the name of another,       *)
(* whatever is armed while it is looked up, published, copied and drawn,   *)
(* and whatever fails on the bus (hmi_task, screen_task).                  *)
THEOREM FramesTrue == HmiSpec => []FramesAreTrue
<1>1. HmiInit => LabelInv
  BY DEF HmiInit, LabelInv, FramesAreTrue, Blank, Other
<1>2. LabelInv /\ [HmiNext]_hmiVars => LabelInv'
  BY LabelStep
<1>3. LabelInv => FramesAreTrue
  BY DEF LabelInv
<1>. QED
  BY <1>1, <1>2, <1>3, PTL DEF HmiSpec
-----------------------------------------------------------------------------
\* Less is the difference, or zero.
LEMMA LessBounds ==
    ASSUME NEW n \in Nat, NEW k \in Nat
    PROVE  Less(n, k) \in 0 .. n /\ (Less(n, k) > 0 => Less(n, k) = n - k)
  BY DEF Less

\* A fed button stays one.
LEMMA FeedType ==
    ASSUME ButtonType, NEW p \in BOOLEAN
    PROVE  /\ Feed(btn, p) \in [stable : BOOLEAN, candidate : BOOLEAN, age : 0 .. Debounce]
           /\ Feed(btn, p).candidate = p
           /\ p # btn.candidate => Feed(btn, p).age = 0 /\ Feed(btn, p).stable = btn.stable
           /\ p = btn.candidate => Feed(btn, p).age = btn.age
           /\ p = btn.candidate /\ btn.age < Debounce => Feed(btn, p) = btn
           /\ p = btn.candidate /\ ~(btn.age < Debounce) => Feed(btn, p).stable = p
<1>. USE HmiAssumption
<1>1. /\ btn \in [stable : BOOLEAN, candidate : BOOLEAN, age : 0 .. Debounce]
      /\ 0 \in 0 .. Debounce
  BY DEF ButtonType
<1>2. CASE p # btn.candidate
  BY <1>1, <1>2 DEF Feed
<1>3. CASE p = btn.candidate /\ btn.age < Debounce
  BY <1>1, <1>3 DEF Feed
<1>4. CASE p = btn.candidate /\ ~(btn.age < Debounce)
  BY <1>1, <1>4 DEF Feed
<1>. QED
  BY <1>2, <1>3, <1>4

\* What HmiTop does to the ages.
LEMMA TopEffect ==
    ASSUME ButtonType, HmiTop
    PROVE  \E d \in 1 .. Debounce :
             /\ btn'.age \in 0 .. Debounce /\ btn'.age =< btn.age + d + lag
             /\ btn' \in [stable : BOOLEAN, candidate : BOOLEAN, age : 0 .. Debounce]
             /\ btn'.stable = btn.stable /\ btn'.candidate = btn.candidate
             /\ bounce' \in 0 .. Debounce /\ (bounce' > 0 => bounce' = bounce - d)
<1>. USE HmiAssumption
<1>1. PICK d \in 1 .. Debounce :
        /\ btn' = [btn EXCEPT !.age = Min({Debounce, @ + d + lag})]
        /\ bounce' = Less(bounce, d)
  BY DEF HmiTop
<1>2. /\ btn \in [stable : BOOLEAN, candidate : BOOLEAN, age : 0 .. Debounce]
      /\ bounce \in 0 .. Debounce /\ lag \in Nat /\ btn.age \in Nat
  BY DEF ButtonType
<1>3. PICK m : m = Min({Debounce, btn.age + d + lag})
  OBVIOUS
<1>4. m = IF Debounce =< btn.age + d + lag THEN Debounce ELSE btn.age + d + lag
  BY <1>2, <1>3, MinOfTwo
<1>5. m \in 0 .. Debounce /\ m =< btn.age + d + lag
  BY <1>2, <1>4
<1>6. btn' = [btn EXCEPT !.age = m]
  BY <1>1, <1>3
<1>7. bounce' \in 0 .. bounce /\ (bounce' > 0 => bounce' = bounce - d)
  BY <1>1, <1>2, LessBounds
<1>8. /\ btn' \in [stable : BOOLEAN, candidate : BOOLEAN, age : 0 .. Debounce]
      /\ btn'.stable = btn.stable /\ btn'.candidate = btn.candidate /\ btn'.age = m
  BY <1>2, <1>5, <1>6
<1>9. bounce' \in 0 .. Debounce
  BY <1>2, <1>7
<1>. QED
  BY <1>5, <1>7, <1>8, <1>9

\* What HmiSwitch does to them: it returns at once, or after any bouncing.
LEMMA SwitchEffect ==
    ASSUME ButtonType, HmiSwitch
    PROVE  /\ lag' \in {0, Debounce} /\ bounce' \in 0 .. Debounce
           /\ lag' = 0 => bounce' = bounce
           /\ lag' # 0 => bounce' = 0
<1>. USE HmiAssumption
<1>1. PICK d \in {0, Debounce} : lag' = d /\ bounce' = Less(bounce, d)
  BY DEF HmiSwitch
<1>2. bounce \in 0 .. Debounce
  BY DEF ButtonType
<1>. QED
  BY <1>1, <1>2 DEF Less

\* A sample of CONFIRM, and where it leads.
LEMMA ConfirmEffect ==
    ASSUME ButtonType, HmiConfirm
    PROVE  \E p \in BOOLEAN :
             /\ bounce = 0 => p = down
             /\ btn' = Feed(btn, p)
             /\ hpc' = IF Feed(btn, p).stable /\ ~btn.stable THEN "peek" ELSE "look"
             /\ UNCHANGED <<down, bounce, spent, lag>>
  BY HmiAssumption DEF HmiConfirm, ButtonType, fingerVars

\* The types of the button, the finger and the place in the turn are kept.
LEMMA ButtonStep ==
    ASSUME ButtonType, [HmiNext]_hmiVars
    PROVE  ButtonType'
<1>. USE HmiAssumption
<1>1. ASSUME UNCHANGED <<hpc, btn, bounce, lag, down, spent>> PROVE ButtonType'
  BY <1>1 DEF ButtonType
<1>2. CASE Host \/ ScreenTask \/ UNCHANGED hmiVars
  BY <1>1, <1>2 DEF Host, Ends, HmiLapses, Arms, ScreenTask, ScreenRead, ScreenKeeps,
     ScreenTurns, ScreenTurnFails, ScreenDraws, ScreenDrawFails, hmiVars, fingerVars, taskVars
<1>3. CASE FingerMoves
  BY <1>3 DEF FingerMoves, ButtonType, taskVars
<1>4. CASE HmiTop
  <2>1. /\ hpc' \in {"confirm", "switching"} /\ lag' = 0
        /\ down' \in BOOLEAN /\ spent' \in BOOLEAN
    BY <1>4 DEF HmiTop, ButtonType
  <2>2. /\ bounce' \in 0 .. Debounce
        /\ btn' \in [stable : BOOLEAN, candidate : BOOLEAN, age : 0 .. Debounce]
    BY <1>4, TopEffect
  <2>. QED
    BY <2>1, <2>2 DEF ButtonType
<1>5. CASE HmiSwitch
  <2>1. hpc' = "confirm" /\ UNCHANGED <<btn, down, spent>>
    BY <1>5 DEF HmiSwitch
  <2>. QED
    BY <1>5, <2>1, SwitchEffect DEF ButtonType
<1>6. CASE HmiConfirm
  <2>1. PICK p \in BOOLEAN :
          /\ btn' = Feed(btn, p) /\ hpc' \in {"peek", "look"}
          /\ UNCHANGED <<down, bounce, spent, lag>>
    BY <1>6, ConfirmEffect
  <2>2. btn' \in [stable : BOOLEAN, candidate : BOOLEAN, age : 0 .. Debounce]
    BY <2>1, FeedType
  <2>. QED
    BY <2>1, <2>2 DEF ButtonType
<1>7. CASE HmiPeek \/ HmiLook
  <2>1. hpc' \in {"relay", "look", "top"} /\ UNCHANGED <<btn, bounce, lag, down, spent>>
    BY <1>7 DEF HmiPeek, HmiLook, fingerVars
  <2>. QED
    BY <2>1 DEF ButtonType
<1>8. CASE HmiRelay
  <2>1. hpc' = "look" /\ spent' \in BOOLEAN /\ UNCHANGED <<btn, bounce, lag, down>>
    BY <1>8 DEF HmiRelay, ButtonType
  <2>. QED
    BY <2>1 DEF ButtonType
<1>. QED
  BY <1>2, <1>3, <1>4, <1>5, <1>6, <1>7, <1>8 DEF HmiNext, HmiTask

(* A touch that has granted stays spent until the button is believed to be *)
(* released: while it is held the button can only be believed pressed, and *)
(* a contact that bounces after the release does not last long enough.     *)
LEMMA TouchStep ==
    ASSUME ButtonType, TouchInv, [HmiNext]_hmiVars
    PROVE  TouchInv'
<1>. USE HmiAssumption
<1>1. ASSUME UNCHANGED <<btn, bounce, lag, down, spent>>,
             hpc' = hpc \/ hpc' \in {"top", "look"} \/ (hpc = "peek" /\ hpc' = "relay")
      PROVE  TouchInv'
  BY <1>1 DEF TouchInv, Settling
<1>2. CASE Host \/ ScreenTask \/ UNCHANGED hmiVars
  BY <1>1, <1>2 DEF Host, Ends, HmiLapses, Arms, ScreenTask, ScreenRead, ScreenKeeps,
     ScreenTurns, ScreenTurnFails, ScreenDraws, ScreenDrawFails, hmiVars, fingerVars, taskVars
<1>3. CASE FingerMoves
  BY <1>3 DEF FingerMoves, ButtonType, TouchInv, Settling, taskVars
<1>4. CASE HmiTop
  <2>1. PICK d \in 1 .. Debounce :
          /\ btn'.age \in 0 .. Debounce /\ btn'.age =< btn.age + d + lag
          /\ btn'.stable = btn.stable /\ btn'.candidate = btn.candidate
          /\ bounce' \in 0 .. Debounce /\ (bounce' > 0 => bounce' = bounce - d)
    BY <1>4, TopEffect
  <2>2. hpc' \in {"confirm", "switching"} /\ lag' = 0 /\ UNCHANGED <<down, spent>>
    BY <1>4 DEF HmiTop
  <2>3. btn.age \in Nat /\ lag \in Nat /\ bounce \in Nat
    BY DEF ButtonType
  <2>4. ASSUME Settling', bounce' > 0 PROVE btn'.age + lag' + bounce' =< Debounce
    <3>1. Settling
      BY <2>1, <2>2, <2>4 DEF Settling
    <3>2. btn.age + lag + bounce =< Debounce
      BY <2>1, <2>3, <2>4, <3>1 DEF TouchInv
    <3>. QED
      BY <2>1, <2>2, <2>3, <2>4, <3>2
  <2>. QED
    BY <2>1, <2>2, <2>4 DEF TouchInv
<1>5. CASE HmiSwitch
  <2>1. hpc = "switching" /\ hpc' = "confirm" /\ UNCHANGED <<btn, down, spent>>
    BY <1>5 DEF HmiSwitch
  <2>2. lag = 0 /\ (lag' = 0 => bounce' = bounce) /\ (lag' # 0 => bounce' = 0)
    BY <1>5, <2>1, SwitchEffect DEF ButtonType
  <2>3. (Settling /\ bounce' > 0 => btn.age + lag' + bounce' =< Debounce)
    BY <2>2 DEF TouchInv
  <2>. QED
    BY <1>5, <2>1, <2>2, <2>3, SwitchEffect DEF TouchInv, Settling
<1>6. CASE HmiConfirm
  <2>1. PICK p \in BOOLEAN :
          /\ bounce = 0 => p = down
          /\ btn' = Feed(btn, p)
          /\ hpc' = IF Feed(btn, p).stable /\ ~btn.stable THEN "peek" ELSE "look"
          /\ UNCHANGED <<down, bounce, spent, lag>>
    BY <1>6, ConfirmEffect
  <2>2. /\ hpc = "confirm" /\ btn.stable \in BOOLEAN /\ btn.candidate \in BOOLEAN
        /\ btn.age \in Nat /\ bounce \in 0 .. Debounce /\ lag \in {0, Debounce}
        /\ down \in BOOLEAN /\ spent \in BOOLEAN
    BY <1>6 DEF HmiConfirm, ButtonType
  <2>3. CASE p # btn.candidate
    <3>1. btn'.candidate = p /\ btn'.age = 0 /\ btn'.stable = btn.stable /\ hpc' = "look"
      BY <2>1, <2>3, FeedType
    <3>2. spent /\ down => btn.stable
      BY DEF TouchInv
    <3>3. ASSUME Settling', bounce' > 0 PROVE lag = 0
      BY <2>1, <2>2, <3>1, <3>3 DEF TouchInv, Settling
    <3>4. Settling' /\ bounce' > 0 => btn'.age + lag' + bounce' =< Debounce
      BY <2>1, <2>2, <3>1, <3>3
    <3>. QED
      BY <2>1, <3>1, <3>2, <3>4 DEF TouchInv
  <2>4. CASE p = btn.candidate /\ btn.age < Debounce
    BY <1>1, <2>1, <2>4, FeedType
  <2>5. CASE p = btn.candidate /\ ~(btn.age < Debounce)
    <3>1. btn'.candidate = p /\ btn'.age = btn.age /\ btn'.stable = p
      BY <2>1, <2>5, FeedType
    <3>2. Settling => bounce = 0
      BY <2>2, <2>5 DEF TouchInv
    <3>3. ~Settling
      BY <2>1, <2>2, <2>5, <3>2 DEF Settling
    <3>4. spent /\ down => btn'.stable /\ btn.stable
      BY <2>2, <2>5, <3>1, <3>3 DEF Settling, TouchInv
    <3>5. ~Settling'
      BY <2>1, <2>2, <2>5, <3>1, <3>3, <3>4 DEF Settling
    <3>6. hpc' = "peek" => ~spent /\ p
      BY <2>1, <2>2, <2>5, <3>1, <3>3, <3>4 DEF Settling
    <3>. QED
      BY <2>1, <3>1, <3>4, <3>5, <3>6 DEF TouchInv
  <2>. QED
    BY <2>3, <2>4, <2>5
<1>7. CASE HmiPeek \/ HmiLook
  BY <1>1, <1>7 DEF HmiPeek, HmiLook, fingerVars
<1>8. CASE HmiRelay
  <2>1. btn.stable /\ btn.candidate
    BY <1>8 DEF HmiRelay, TouchInv
  <2>2. hpc' = "look" /\ UNCHANGED <<btn, bounce, lag, down>>
    BY <1>8 DEF HmiRelay
  <2>3. down \in BOOLEAN /\ btn.candidate = TRUE
    BY <2>1 DEF ButtonType
  <2>. QED
    BY <2>1, <2>2, <2>3 DEF TouchInv, Settling
<1>. QED
  BY <1>2, <1>3, <1>4, <1>5, <1>6, <1>7, <1>8 DEF HmiNext, HmiTask

(* One touch grants at most one operation, for any debouncing time, any    *)
(* order of moves, bounces, samples and slow mode switches (btn_feed(),    *)
(* hmi_task).                                                              *)
THEOREM TouchGrantsOnce == HmiSpec => OneTouchOneGrant
<1>1. HmiInit => ButtonType /\ TouchInv
  <2>. SUFFICES ASSUME HmiInit PROVE ButtonType /\ TouchInv
    OBVIOUS
  <2>1. /\ hpc = "top" /\ bounce = 0 /\ lag = 0 /\ down = FALSE /\ spent = FALSE
        /\ btn = [stable |-> FALSE, candidate |-> FALSE, age |-> 0]
    BY DEF HmiInit
  <2>2. btn \in [stable : BOOLEAN, candidate : BOOLEAN, age : 0 .. Debounce]
    BY <2>1, HmiAssumption
  <2>3. ButtonType
    BY <2>1, <2>2, HmiAssumption DEF ButtonType
  <2>4. TouchInv
    BY <2>1 DEF TouchInv, Settling
  <2>. QED
    BY <2>3, <2>4
<1>2. ButtonType /\ TouchInv /\ [HmiNext]_hmiVars => ButtonType' /\ TouchInv'
  BY ButtonStep, TouchStep
<1>3. TouchInv /\ [HmiNext]_hmiVars => [latch # "granted" /\ latch' = "granted" => ~spent]_hmiVars
  <2>. SUFFICES ASSUME TouchInv, [HmiNext]_hmiVars, latch # "granted", latch' = "granted"
                PROVE  ~spent
    OBVIOUS
  <2>1. HmiRelay
    BY DEF HmiNext, Host, Arms, Ends, HmiLapses, Disarmed, FingerMoves, HmiTask, HmiTop,
       HmiSwitch, HmiConfirm, HmiPeek, HmiLook, ScreenTask, ScreenRead, ScreenKeeps,
       ScreenTurns, ScreenTurnFails, ScreenDraws, ScreenDrawFails, hmiVars, latchVars
  <2>. QED
    BY <2>1 DEF HmiRelay, TouchInv
<1>. QED
  BY <1>1, <1>2, <1>3, PTL DEF HmiSpec, OneTouchOneGrant
-----------------------------------------------------------------------------
(* A code waits for the grant of its own slot: link_task arms over what    *)
(* is there and notes the slot in the same step, and while it has not      *)
(* looked again, what the owner is shown is what is armed for the link.    *)
CodeInv ==
    /\ phase # "idle" /\ what[1] = "E0" => codeWait /\ codeSlot = what[2]
    /\ lpc = "drain" /\ phase = "waiting" /\ what[1] = "E0" => pend = what
    /\ phase = "granted" /\ what[1] = "E0" => codeSlot = pressedFor

(* A grant of the link's is consumed in the turn of its press, in which    *)
(* the operation is shown before and after.                                *)
Shown == pend # None /\ regs.pend # None
SeqInv ==
    /\ phase = "granted" /\ what[1] = "E0"
         => /\ Shown /\ lpc \in {"drain", "serve", "arm", "queue", "poll"}
            /\ lpc = "queue" => job.kind = "LIST"
    /\ lpc = "code" \/ (lpc = "queue" /\ job.kind = "CODE") => Shown
    /\ lpc = "top" => dseq = regs.seq
    /\ dseq # regs.seq /\ ann.kind = "CODE" => Shown

\* The two flags of the reception.
Flags == seen \in BOOLEAN /\ recue \in BOOLEAN

KbShape == kb = [pc |-> kb.pc, req |-> kb.req, hdr |-> kb.hdr, torn |-> kb.torn,
                 seq |-> kb.seq]

(* The stages of a request made when nothing else is under way: it is      *)
(* received, ...                                                           *)
Between == lpc \in {"top", "drain", "poll", "regs"}
Asking == kb.pc \in {"wrote", "rang"}
Received ==
    /\ Asking /\ Between /\ ~codeWait /\ dseq = kb.seq /\ regs.seq = kb.seq
    /\ \/ rx = kb.req /\ rx # None
       \/ rx = None /\ recue /\ reqBuf = kb.req

\* ... served, at once or after a touch, ...
Matches(a) == a.kind = kb.req.kind /\ (kb.req.kind = "LIST" => a = kb.req)
Served ==
    /\ Asking /\ rx = None /\ ~recue /\ dseq = kb.seq /\ regs.seq = kb.seq
    /\ lpc \in {"serve", "arm"} => reqBuf = kb.req
    /\ lpc \in {"serve", "arm", "code", "queue"} => ~codeWait
    /\ lpc \in {"arm", "code"} \/ codeWait => kb.req.kind = "CODE"
    /\ lpc = "code" => job.kind = "CODE"
    /\ lpc = "queue" => Matches(job) /\ buf = job

\* ... announced, and read.
Announced ==
    /\ rx = None /\ ~recue /\ ~codeWait /\ Between
    /\ Matches(buf) /\ ann = buf
    /\ \/ Asking /\ (regs.seq # kb.seq => regs.ann = buf)
       \/ kb.pc = "read" /\ kb.hdr = buf
       \/ kb.pc = "reading" /\ kb.hdr = buf /\ kb.torn = FALSE

CalmInv == calm => seen /\ (Received \/ Served \/ Announced)
-----------------------------------------------------------------------------
\* The latch at the end of a poll, as both consumers see it.
LEMMA LatchEnds ==
    ASSUME \/ DmaGate!EndsGranted
           \/ phase = "lapsed" /\ DmaGate!EndsRefused
           \/ phase = "idle" /\ UNCHANGED gateVars
    PROVE  phase' = "idle"
  BY DEF DmaGate!EndsGranted, DmaGate!EndsRefused, DmaGate!Disarm, gateVars

(* The slot of a code is noted with the operation that is armed for it,    *)
(* and a press grants what is armed only while that is what was shown.     *)
LEMMA CodeStep ==
    ASSUME CodeInv, [DmaNext]_dmaVars
    PROVE  CodeInv'
<1>1. ASSUME UNCHANGED <<phase, what, codeWait, codeSlot, pressedFor, pend>>,
             lpc' = lpc \/ lpc' # "drain"
      PROVE  CodeInv'
  BY <1>1 DEF CodeInv
<1>2. ASSUME phase' = "idle" PROVE CodeInv'
  BY <1>2 DEF CodeInv
<1>3. CASE LinkTop
  BY <1>3 DEF LinkTop, CodeInv, gateVars
<1>4. CASE LinkPress
  <2>1. /\ phase = "waiting" /\ phase' = "granted" /\ lpc = "drain" /\ pressedFor' = pend[2]
        /\ UNCHANGED <<what, lpc, pend, codeWait, codeSlot>>
    BY <1>4 DEF LinkPress, DmaGate!Press, linkVars
  <2>. QED
    BY <2>1 DEF CodeInv
<1>5. CASE LinkDrain \/ ServeList \/ ServeNothing \/ ServeCode \/ LinkQueue
  BY <1>1, <1>5 DEF LinkDrain, ServeList, ServeNothing, ServeCode, LinkQueue, Pack,
     linkVars, gateVars
<1>6. CASE LinkArm
  <2>1. /\ phase' = "waiting" /\ what' = <<"E0", reqBuf.about>> /\ lpc' = "poll"
        /\ codeWait' = TRUE /\ codeSlot' = reqBuf.about
    BY <1>6 DEF LinkArm
  <2>. QED
    BY <2>1 DEF CodeInv
<1>7. CASE LinkPoll
  <2>1. CASE lpc' = "regs" /\ UNCHANGED <<codeWait, codeSlot, job, gateVars>>
    BY <1>1, <1>7, <2>1 DEF LinkPoll, gateVars
  <2>2. CASE \/ DmaGate!EndsGranted
             \/ phase = "lapsed" /\ DmaGate!EndsRefused
             \/ phase = "idle" /\ UNCHANGED gateVars
    BY <1>2, <2>2, LatchEnds
  <2>. QED
    BY <1>7, <2>1, <2>2 DEF LinkPoll
<1>8. CASE LinkCode
  BY <1>1, <1>8 DEF LinkCode, Pack, gateVars
<1>9. CASE LinkRegs
  <2>1. lpc' = "top" /\ UNCHANGED <<phase, what, codeWait, codeSlot, pressedFor>>
    BY <1>9 DEF LinkRegs, gateVars
  <2>. QED
    BY <2>1 DEF CodeInv
<1>10. CASE SecondPasses \/ (\E r \in Requests : KbWrite(r)) \/ KbRing \/ KbGivesUp \/ KbRestart
            \/ KbSees \/ KbReads \/ KbHasRead \/ UNCHANGED dmaVars
  BY <1>1, <1>10 DEF SecondPasses, KbWrite, KbRing, KbGivesUp, KbRestart, KbSees, KbReads,
     KbHasRead, dmaVars, linkVars, gateVars
<1>11. CASE HostArms
  <2>1. phase' = "waiting" /\ what'[1] = "F0"
    BY <1>11 DEF HostArms
  <2>. QED
    BY <2>1 DEF CodeInv
<1>12. CASE HostPolls
  BY <1>2, <1>12, LatchEnds DEF HostPolls
<1>13. CASE DmaLapses
  <2>1. /\ phase = "waiting" /\ phase' = "lapsed"
        /\ UNCHANGED <<what, codeWait, codeSlot>>
    BY <1>13 DEF DmaLapses, DmaGate!Lapse, linkVars
  <2>. QED
    BY <2>1 DEF CodeInv
<1>. QED
  BY <1>3, <1>4, <1>5, <1>6, <1>7, <1>8, <1>9, <1>10, <1>11, <1>12, <1>13 DEF DmaNext, LinkTask

(* The code that leaves on the link is of the slot the owner was shown     *)
(* when she pressed, for any interleaving of the keyboard, the worker and  *)
(* link_task (service_request(), drain_user_confirm(),                     *)
(* service_pending_code()).                                                *)
THEOREM CodeIsPressed == DmaSpec => CodeOfPressedSlot
<1>1. DmaInit => CodeInv
  BY DEF DmaInit, CodeInv
<1>2. CodeInv /\ [DmaNext]_dmaVars => CodeInv'
  BY CodeStep
<1>3. CodeInv /\ [DmaNext]_dmaVars
        => [lpc = "poll" /\ lpc' = "code" => job'.about = pressedFor]_dmaVars
  <2>. SUFFICES ASSUME CodeInv, [DmaNext]_dmaVars, lpc = "poll", lpc' = "code"
                PROVE  job'.about = pressedFor
    OBVIOUS
  <2>1. LinkPoll
    BY DEF DmaNext, LinkTask, LinkTop, LinkPress, LinkDrain, ServeList, ServeNothing, ServeCode,
       LinkArm, LinkQueue, LinkCode, LinkRegs, SecondPasses, DmaLapses, KbWrite, KbRing, KbGivesUp,
       KbRestart, KbSees, KbReads, KbHasRead, HostArms, HostPolls, dmaVars
  <2>2. job' = Code(codeSlot) /\ phase = "granted" /\ what[1] = "E0"
    BY <2>1 DEF LinkPoll
  <2>. QED
    BY <2>2 DEF CodeInv, Code
<1>. QED
  BY <1>1, <1>2, <1>3, PTL DEF DmaSpec, CodeOfPressedSlot
-----------------------------------------------------------------------------
(* Nothing empties what is shown in the turn that publishes a code.        *)
LEMMA SeqStep ==
    ASSUME CodeInv, SeqInv, [DmaNext]_dmaVars
    PROVE  SeqInv'
<1>1. ASSUME UNCHANGED <<lpc, phase, what, pend, regs, job, dseq, ann>> PROVE SeqInv'
  BY <1>1 DEF SeqInv, Shown
<1>2. CASE LinkTop
  <2>1. /\ lpc = "top" /\ lpc' = "drain"
        /\ UNCHANGED <<phase, what, regs, job, dseq, ann>>
    BY <1>2 DEF LinkTop, gateVars, txVars
  <2>. QED
    BY <2>1 DEF SeqInv
<1>3. CASE LinkPress
  <2>1. /\ lpc = "drain" /\ pend # None /\ pend = regs.pend
        /\ UNCHANGED <<lpc, what, pend, regs, job, dseq, ann>>
    BY <1>3 DEF LinkPress, DmaGate!Press, linkVars, txVars
  <2>. QED
    BY <2>1 DEF SeqInv, Shown
<1>4. CASE LinkDrain \/ ServeNothing \/ ServeCode
  <2>1. /\ lpc \in {"drain", "serve"} /\ lpc' \in {"poll", "serve", "arm"}
        /\ UNCHANGED <<phase, what, pend, regs, dseq, ann>>
    BY <1>4 DEF LinkDrain, ServeNothing, ServeCode, linkVars, gateVars, txVars
  <2>. QED
    BY <2>1 DEF SeqInv, Shown
<1>5. CASE ServeList
  <2>1. /\ lpc = "serve" /\ lpc' = "queue" /\ job'.kind = "LIST"
        /\ UNCHANGED <<phase, what, pend, regs, dseq, ann>>
    BY <1>5 DEF ServeList, Pack, gateVars
  <2>. QED
    BY <2>1 DEF SeqInv, Shown
<1>6. CASE LinkArm
  <2>1. /\ lpc = "arm" /\ lpc' = "poll" /\ phase' = "waiting"
        /\ UNCHANGED <<pend, regs, job, dseq, ann>>
    BY <1>6 DEF LinkArm, txVars
  <2>. QED
    BY <2>1 DEF SeqInv, Shown
<1>7. CASE LinkQueue
  <2>1. /\ lpc = "queue" /\ lpc' = IF job.kind = "LIST" THEN "poll" ELSE "regs"
        /\ UNCHANGED <<phase, what, pend, regs, job>>
        /\ UNCHANGED <<dseq, ann>> \/ ann' = job
    BY <1>7 DEF LinkQueue, linkVars, gateVars
  <2>2. phase' = "granted" /\ what'[1] = "E0" => Shown' /\ lpc' = "poll"
    BY <2>1 DEF SeqInv, Shown
  <2>3. dseq' # regs'.seq /\ ann'.kind = "CODE" => Shown'
    BY <2>1 DEF SeqInv, Shown
  <2>. QED
    BY <2>1, <2>2, <2>3 DEF SeqInv
<1>8. CASE LinkPoll
  <2>1. /\ lpc = "poll" /\ UNCHANGED <<pend, regs, dseq, ann>>
    BY <1>8 DEF LinkPoll, txVars
  <2>2. CASE (~codeWait \/ phase = "waiting") /\ lpc' = "regs" /\ UNCHANGED gateVars
    <3>1. ~(phase' = "granted" /\ what'[1] = "E0")
      BY <2>2 DEF CodeInv, gateVars
    <3>. QED
      BY <2>1, <2>2, <3>1 DEF SeqInv, Shown
  <2>3. CASE /\ \/ DmaGate!EndsGranted
                \/ phase = "lapsed" /\ DmaGate!EndsRefused
                \/ phase = "idle" /\ UNCHANGED gateVars
             /\ IF phase = "granted" /\ what[1] = "E0" THEN lpc' = "code" ELSE lpc' = "regs"
    <3>1. phase' = "idle"
      BY <2>3, LatchEnds
    <3>. QED
      BY <2>1, <2>3, <3>1 DEF SeqInv, Shown
  <2>. QED
    BY <1>8, <2>2, <2>3 DEF LinkPoll
<1>9. CASE LinkCode
  <2>1. /\ lpc = "code" /\ lpc' \in {"queue", "regs"}
        /\ UNCHANGED <<phase, what, pend, regs, dseq, ann>>
    BY <1>9 DEF LinkCode, Pack, gateVars, txVars
  <2>. QED
    BY <2>1 DEF SeqInv, Shown
<1>10. CASE LinkRegs
  <2>1. /\ lpc = "regs" /\ lpc' = "top" /\ regs'.seq = dseq
        /\ UNCHANGED <<phase, what, dseq, ann>>
    BY <1>10 DEF LinkRegs, gateVars, txVars
  <2>. QED
    BY <2>1 DEF SeqInv
<1>11. CASE SecondPasses \/ (\E r \in Requests : KbWrite(r)) \/ KbRing \/ KbGivesUp \/ KbRestart
            \/ KbSees \/ KbReads \/ KbHasRead \/ UNCHANGED dmaVars
  BY <1>1, <1>11 DEF SecondPasses, KbWrite, KbRing, KbGivesUp, KbRestart, KbSees, KbReads,
     KbHasRead, dmaVars, linkVars, gateVars, txVars
<1>12. CASE HostArms \/ HostPolls \/ DmaLapses
  <2>1. phase' # "granted" /\ UNCHANGED <<lpc, pend, regs, job, dseq, ann>>
    BY <1>12, LatchEnds DEF HostArms, HostPolls, DmaLapses, DmaGate!Lapse, linkVars, txVars
  <2>. QED
    BY <2>1 DEF SeqInv, Shown
<1>. QED
  BY <1>2, <1>3, <1>4, <1>5, <1>6, <1>7, <1>8, <1>9, <1>10, <1>11, <1>12 DEF DmaNext, LinkTask

(* The block that announces a code, and the one before it, still show an   *)
(* operation pending: the keyboard never takes a code that is coming for a *)
(* request that is dead (link_task's order of publication).                *)
THEOREM NumberMovesFirst == DmaSpec => SeqMovesFirst
<1>1. DmaInit => CodeInv /\ SeqInv
  BY DEF DmaInit, CodeInv, SeqInv
<1>2. CodeInv /\ SeqInv /\ [DmaNext]_dmaVars => CodeInv' /\ SeqInv'
  BY CodeStep, SeqStep
<1>3. SeqInv /\ [DmaNext]_dmaVars
        => [regs'.seq # regs.seq /\ regs'.ann.kind = "CODE"
              => regs.pend # None /\ regs'.pend # None]_dmaVars
  <2>. SUFFICES ASSUME SeqInv, [DmaNext]_dmaVars, regs'.seq # regs.seq, regs'.ann.kind = "CODE"
                PROVE  regs.pend # None /\ regs'.pend # None
    OBVIOUS
  <2>1. LinkRegs
    BY DEF DmaNext, LinkTask, LinkTop, LinkPress, LinkDrain, ServeList, ServeNothing, ServeCode,
       LinkArm, LinkQueue, LinkPoll, LinkCode, SecondPasses, DmaLapses, KbWrite, KbRing, KbGivesUp,
       KbRestart, KbSees, KbReads, KbHasRead, HostArms, HostPolls, dmaVars
  <2>2. regs' = [seq |-> dseq, ann |-> ann, pend |-> pend]
    BY <2>1 DEF LinkRegs
  <2>. QED
    BY <2>2 DEF SeqInv, Shown
<1>. QED
  BY <1>1, <1>2, <1>3, PTL DEF DmaSpec, SeqMovesFirst
-----------------------------------------------------------------------------
\* What the steps of the keyboard do to its fields: the others are kept.
LEMMA KbEffect ==
    ASSUME KbShape
    PROVE  /\ KbRing => /\ kb' = [pc |-> "rang", req |-> kb.req, hdr |-> kb.hdr,
                                  torn |-> kb.torn, seq |-> kb.seq]
                        /\ kb.pc = "wrote"
           /\ KbGivesUp => /\ kb' = [pc |-> "idle", req |-> Nothing, hdr |-> kb.hdr,
                                     torn |-> kb.torn, seq |-> kb.seq]
                           /\ kb.pc = "rang"
           /\ KbRestart => /\ kb' = [pc |-> "idle", req |-> Nothing, hdr |-> Nothing,
                                     torn |-> kb.torn, seq |-> regs.seq]
                           /\ kb.pc # "reading"
           /\ KbSees => /\ kb' = [pc |-> "read", req |-> kb.req, hdr |-> regs.ann,
                                  torn |-> kb.torn, seq |-> regs.seq]
                        /\ kb.pc \in {"idle", "rang"} /\ regs.seq # kb.seq
           /\ KbReads => /\ kb' = [pc |-> "reading", req |-> kb.req, hdr |-> kb.hdr,
                                   torn |-> FALSE, seq |-> kb.seq]
                         /\ kb.pc = "read"
           /\ KbHasRead => /\ kb' = [pc |-> "idle", req |-> Nothing, hdr |-> Nothing,
                                     torn |-> FALSE, seq |-> kb.seq]
                           /\ kb.pc = "reading"
  BY DEF KbShape, KbRing, KbGivesUp, KbRestart, KbSees, KbReads, KbHasRead

LEMMA WriteEffect ==
    ASSUME KbShape, NEW r, KbWrite(r)
    PROVE  /\ kb' = [pc |-> "wrote", req |-> r, hdr |-> kb.hdr, torn |-> kb.torn, seq |-> kb.seq]
           /\ kb.pc = "idle"
  BY DEF KbShape, KbWrite

LEMMA PackEffect ==
    ASSUME KbShape, NEW a, Pack(a)
    PROVE  /\ kb'.pc = kb.pc /\ kb'.req = kb.req /\ kb'.hdr = kb.hdr /\ kb'.seq = kb.seq
           /\ KbShape'
  BY DEF KbShape, Pack

\* The keyboard keeps its fields.
LEMMA ShapeStep ==
    ASSUME KbShape, [DmaNext]_dmaVars
    PROVE  KbShape'
<1>1. CASE UNCHANGED kb
  BY <1>1 DEF KbShape
<1>2. ASSUME NEW p, NEW r, NEW h, NEW t, NEW s,
             kb' = [pc |-> p, req |-> r, hdr |-> h, torn |-> t, seq |-> s]
      PROVE  KbShape'
  BY <1>2 DEF KbShape
<1>3. CASE ServeList \/ LinkCode
  BY <1>1, <1>3, PackEffect DEF ServeList, LinkCode, kbVars
<1>4. ASSUME NEW r \in Requests, KbWrite(r) PROVE KbShape'
  BY <1>2, <1>4, WriteEffect
<1>5. CASE KbRing \/ KbGivesUp \/ KbRestart \/ KbSees \/ KbReads \/ KbHasRead
  BY <1>2, <1>5, KbEffect
<1>. QED
  BY <1>1, <1>3, <1>4, <1>5 DEF DmaNext, LinkTask, LinkTop, LinkPress, LinkDrain, ServeNothing,
     ServeCode, LinkArm, LinkQueue, LinkPoll, LinkRegs, SecondPasses, DmaLapses, HostArms,
     HostPolls, dmaVars, rxVars, kbVars

\* What LinkDrain does to the reception, when the reference is taken.
LEMMA DrainEffect ==
    ASSUME Flags, LinkDrain
    PROVE  /\ rx' = None /\ lpc = "drain" /\ lpc' \in {"poll", "serve"}
           /\ seen' \in BOOLEAN /\ recue' \in BOOLEAN /\ (seen => seen')
           /\ recue' => recue \/ rx # None
           /\ seen /\ recue => recue' \/ lpc' = "serve"
           /\ seen /\ rx # None => recue' \/ lpc' = "serve"
           /\ lpc' = "serve" => ~recue' /\ (recue \/ rx # None)
           /\ reqBuf' = IF rx # None THEN rx ELSE reqBuf
           /\ UNCHANGED <<codeWait, codeSlot, job, buf, ann, dseq, regs, kb, calm>>
<1>1. /\ lpc = "drain" /\ (rx # None => rx' = None) /\ (rx = None => UNCHANGED rxVars)
      /\ reqBuf' = IF rx # None THEN rx ELSE reqBuf
      /\ UNCHANGED <<codeWait, codeSlot, job, buf, ann, dseq, regs, kb, calm>>
  BY DEF LinkDrain, ArmRx, Collects, txVars, kbVars
<1>2. \/ ~seen /\ seen' = TRUE /\ recue' = FALSE /\ lpc' = "poll"
      \/ seen /\ recue' = (recue \/ rx # None) /\ lpc' = "poll" /\ seen' = seen
      \/ /\ seen /\ (recue \/ rx # None) /\ recue' = FALSE /\ lpc' = "serve"
         /\ seen' = seen
  BY DEF LinkDrain, Collects
<1>3. rx' = None
  BY <1>1 DEF rxVars
<1>4. seen' \in BOOLEAN /\ recue' \in BOOLEAN
  BY <1>2, Zenon DEF Flags
<1>. QED
  BY <1>1, <1>2, <1>3, <1>4 DEF Flags

LEMMA FlagsStep ==
    ASSUME Flags, [DmaNext]_dmaVars
    PROVE  Flags'
<1>1. CASE LinkDrain
  BY <1>1, DrainEffect DEF Flags
<1>2. CASE UNCHANGED <<seen, recue>>
  BY <1>2 DEF Flags
<1>. QED
  BY <1>1, <1>2 DEF DmaNext, LinkTask, LinkTop, LinkPress, ServeList, ServeNothing, ServeCode,
     LinkArm, LinkQueue, LinkPoll, LinkCode, LinkRegs, SecondPasses, DmaLapses, KbWrite, KbRing,
     KbGivesUp, KbRestart, KbSees, KbReads, KbHasRead, HostArms, HostPolls, dmaVars, linkVars

\* The reception of a request that is under way: collected, kept or served.
LEMMA CalmDrain ==
    ASSUME Flags, CalmInv, calm, LinkDrain
    PROVE  CalmInv'
<1>1. /\ rx' = None /\ lpc = "drain" /\ lpc' \in {"poll", "serve"} /\ seen'
      /\ recue' => recue \/ rx # None
      /\ recue \/ rx # None => recue' \/ lpc' = "serve"
      /\ lpc' = "serve" => ~recue' /\ (recue \/ rx # None)
      /\ reqBuf' = IF rx # None THEN rx ELSE reqBuf
      /\ UNCHANGED <<codeWait, codeSlot, job, buf, ann, dseq, regs, kb, calm>>
  BY DrainEffect DEF CalmInv
<1>2. CASE Received
  <2>1. CASE recue'
    BY <1>1, <1>2, <2>1 DEF CalmInv, Received, Asking, Between, Flags
  <2>2. CASE ~recue' /\ lpc' = "serve"
    <3>1. reqBuf' = kb.req
      BY <1>1, <1>2, <2>2 DEF Received
    <3>. QED
      BY <1>1, <1>2, <2>2, <3>1 DEF CalmInv, Received, Served, Asking
  <2>3. CASE ~recue' /\ lpc' = "poll"
    <3>1. rx = kb.req /\ rx = None
      BY <1>1, <1>2, <2>3 DEF Received
    <3>. QED
      BY <1>1, <1>2, <2>3, <3>1 DEF CalmInv, Received, Asking, Between
  <2>. QED
    BY <1>1, <2>1, <2>2, <2>3
<1>3. CASE Served
  <2>1. lpc' = "poll" /\ ~recue'
    BY <1>1, <1>3 DEF Served
  <2>. QED
    BY <1>1, <1>3, <2>1 DEF CalmInv, Served, Asking
<1>4. CASE Announced
  <2>1. lpc' = "poll" /\ ~recue'
    BY <1>1, <1>4 DEF Announced
  <2>. QED
    BY <1>1, <1>4, <2>1 DEF CalmInv, Announced, Asking, Between, Matches
<1>. QED
  BY <1>2, <1>3, <1>4 DEF CalmInv

(* A request goes through its stages in order: nothing else is served, and *)
(* the one buffer is not written, until the keyboard has read its answer.  *)
LEMMA CalmStep ==
    ASSUME SeqInv, Flags, KbShape, CalmInv, [DmaNext]_dmaVars
    PROVE  CalmInv'
<1>1. ASSUME UNCHANGED <<lpc, rx, recue, reqBuf, seen, codeWait, job, buf, ann, dseq, regs, kb, calm>>
      PROVE  CalmInv'
  BY <1>1 DEF CalmInv, Received, Served, Announced, Asking, Between, Matches
<1>2. ASSUME ~calm' PROVE CalmInv'
  BY <1>2 DEF CalmInv
<1>3. ASSUME NEW r \in Requests, KbWrite(r) PROVE CalmInv'
  <2>1. kb' = [pc |-> "wrote", req |-> r, hdr |-> kb.hdr, torn |-> kb.torn, seq |-> kb.seq]
        /\ kb.pc = "idle"
    BY <1>3, WriteEffect
  <2>2. ~calm
    BY <2>1 DEF CalmInv, Received, Served, Announced, Asking
  <2>3. CASE Quiet
    <3>1. rx = None /\ rxArmed /\ r # None
      BY <1>3, <2>3, NoneIsNoRequest DEF Quiet
    <3>2. rx' = r /\ UNCHANGED <<lpc, recue, seen, codeWait, dseq, regs>>
      BY <1>3, <3>1 DEF KbWrite, linkVars, txVars
    <3>3. dseq = kb.seq /\ regs.seq = kb.seq /\ lpc = "top" /\ ~codeWait /\ seen
      BY <2>3 DEF Quiet, SeqInv
    <3>4. Received'
      BY <2>1, <3>1, <3>2, <3>3 DEF Received, Asking, Between
    <3>. QED
      BY <3>2, <3>3, <3>4 DEF CalmInv
  <2>4. CASE ~Quiet
    BY <1>2, <1>3, <2>2, <2>4 DEF KbWrite
  <2>. QED
    BY <2>3, <2>4
<1>4. CASE KbGivesUp \/ KbRestart \/ KbHasRead
  BY <1>2, <1>4 DEF KbGivesUp, KbRestart, KbHasRead
<1>5. CASE LinkPress \/ SecondPasses \/ DmaLapses \/ HostArms \/ HostPolls \/ UNCHANGED dmaVars
  BY <1>1, <1>5 DEF rxVars, LinkPress, SecondPasses, DmaLapses, HostArms, HostPolls, dmaVars,
     linkVars, txVars, kbVars
<1>6. CASE ~calm /\ ~(\E r \in Requests : KbWrite(r))
  <2>1. calm' = calm \/ ~calm'
    BY <1>6 DEF DmaNext, LinkTask, LinkTop, LinkPress, LinkDrain, ServeList, ServeNothing, ServeCode,
       LinkArm, LinkQueue, LinkPoll, LinkCode, LinkRegs, Pack, SecondPasses, DmaLapses, KbRing,
       KbGivesUp, KbRestart, KbSees, KbReads, KbHasRead, HostArms, HostPolls, dmaVars, rxVars, kbVars
  <2>. QED
    BY <1>2, <1>6, <2>1
<1>7. CASE calm /\ LinkDrain
  BY <1>7, CalmDrain
<1>8. CASE calm /\ LinkTop
  <2>1. /\ lpc = "top" /\ lpc' = "drain"
        /\ UNCHANGED <<rx, recue, reqBuf, seen, codeWait, job, buf, ann, dseq, regs, kb, calm>>
    BY <1>8 DEF rxVars, LinkTop, txVars, kbVars
  <2>. QED
    BY <2>1 DEF CalmInv, Received, Served, Announced, Asking, Between, Matches
<1>9. CASE calm /\ ServeList
  <2>1. lpc = "serve" /\ lpc' = "queue" /\ job' = reqBuf /\ buf' = reqBuf
        /\ UNCHANGED <<rx, recue, seen, codeWait, dseq, regs, calm>>
    BY <1>9 DEF rxVars, ServeList, Pack
  <2>2. kb'.pc = kb.pc /\ kb'.req = kb.req /\ kb'.seq = kb.seq
    BY <1>9, PackEffect DEF ServeList
  <2>3. Served
    BY <1>9, <2>1 DEF CalmInv, Received, Announced, Between
  <2>4. Served'
    BY <2>1, <2>2, <2>3 DEF Served, Asking, Matches
  <2>. QED
    BY <1>9, <2>1, <2>4 DEF CalmInv
<1>10. CASE calm /\ (ServeNothing \/ ServeCode)
  <2>1. /\ lpc = "serve"
        /\ lpc' = "poll" \/ (lpc' = "arm" /\ reqBuf.kind = "CODE")
        /\ UNCHANGED <<rx, recue, reqBuf, seen, codeWait, dseq, regs, kb, calm>>
    BY <1>10 DEF rxVars, ServeNothing, ServeCode, linkVars, txVars, kbVars
  <2>2. Served
    BY <1>10, <2>1 DEF CalmInv, Received, Announced, Between
  <2>3. Served'
    BY <2>1, <2>2 DEF Served, Asking
  <2>. QED
    BY <1>10, <2>1, <2>3 DEF CalmInv
<1>11. CASE calm /\ LinkArm
  <2>1. /\ lpc = "arm" /\ lpc' = "poll" /\ codeWait' = TRUE
        /\ UNCHANGED <<rx, recue, reqBuf, seen, dseq, regs, kb, calm>>
    BY <1>11 DEF rxVars, LinkArm, txVars, kbVars
  <2>2. Served
    BY <1>11, <2>1 DEF CalmInv, Received, Announced, Between
  <2>3. Served'
    BY <2>1, <2>2 DEF Served, Asking
  <2>. QED
    BY <1>11, <2>1, <2>3 DEF CalmInv
<1>12. CASE calm /\ LinkQueue
  <2>1. /\ lpc = "queue" /\ lpc' \in {"poll", "regs"}
        /\ UNCHANGED <<dseq, ann>> \/ ann' = job
        /\ UNCHANGED <<rx, recue, reqBuf, seen, codeWait, job, buf, regs, kb, calm>>
    BY <1>12 DEF rxVars, LinkQueue, linkVars, kbVars
  <2>2. Served
    BY <1>12, <2>1 DEF CalmInv, Received, Announced, Between
  <2>3. CASE UNCHANGED <<dseq, ann>>
    <3>1. Served'
      BY <2>1, <2>2, <2>3 DEF Served, Asking
    <3>. QED
      BY <1>12, <2>1, <3>1 DEF CalmInv
  <2>4. CASE ann' = job
    <3>1. Matches(job) /\ buf = job /\ ~codeWait /\ regs.seq = kb.seq
      BY <2>1, <2>2 DEF Served
    <3>2. Matches(buf)'
      BY <2>1, <3>1 DEF Matches
    <3>3. Announced'
      BY <2>1, <2>2, <2>4, <3>1, <3>2 DEF Announced, Served, Asking, Between
    <3>. QED
      BY <1>12, <2>1, <3>3 DEF CalmInv
  <2>. QED
    BY <2>1, <2>3, <2>4
<1>13. CASE calm /\ LinkPoll
  <2>1. /\ lpc = "poll"
        /\ \/ lpc' = "regs" /\ (codeWait' = codeWait \/ ~codeWait')
           \/ lpc' = "code" /\ codeWait /\ ~codeWait' /\ job' = Code(codeSlot)
        /\ UNCHANGED <<rx, recue, reqBuf, seen, buf, ann, dseq, regs, kb, calm>>
    BY <1>13 DEF rxVars, LinkPoll, txVars, kbVars
  <2>2. Code(codeSlot).kind = "CODE"
    BY DEF Code
  <2>3. CASE Received
    BY <1>13, <2>1, <2>3 DEF CalmInv, Received, Asking, Between
  <2>4. CASE Served
    BY <1>13, <2>1, <2>2, <2>4 DEF CalmInv, Served, Asking
  <2>5. CASE Announced
    BY <1>13, <2>1, <2>5 DEF CalmInv, Announced, Asking, Between, Matches
  <2>. QED
    BY <1>13, <2>3, <2>4, <2>5 DEF CalmInv
<1>14. CASE calm /\ LinkCode
  <2>1. /\ lpc = "code"
        /\ UNCHANGED <<rx, recue, seen, codeWait, dseq, regs, calm>>
    BY <1>14 DEF rxVars, LinkCode, Pack, txVars, kbVars
  <2>2. Served /\ job.kind = "CODE" /\ kb.req.kind = "CODE"
    BY <1>14, <2>1 DEF CalmInv, Received, Announced, Between, Served
  <2>3. CASE Pack(job)
    <3>1. kb'.pc = kb.pc /\ kb'.req = kb.req /\ kb'.seq = kb.seq
      BY <2>3, PackEffect
    <3>2. lpc' = "queue" /\ job' = job /\ buf' = job
      BY <2>3 DEF Pack
    <3>3. Served'
      BY <2>1, <2>2, <3>1, <3>2 DEF Served, Asking, Matches
    <3>. QED
      BY <1>14, <2>1, <3>3 DEF CalmInv
  <2>4. CASE lpc' = "regs" /\ UNCHANGED <<job, txVars, kbVars>>
    <3>1. Served'
      BY <2>1, <2>2, <2>4 DEF Served, Asking, txVars, kbVars
    <3>. QED
      BY <1>14, <2>1, <3>1 DEF CalmInv
  <2>. QED
    BY <1>14, <2>3, <2>4 DEF LinkCode
<1>15. CASE calm /\ LinkRegs
  <2>1. /\ lpc = "regs" /\ lpc' = "top" /\ regs' = [seq |-> dseq, ann |-> ann, pend |-> pend]
        /\ reqBuf' = IF recue THEN reqBuf ELSE Nothing
        /\ UNCHANGED <<rx, recue, seen, codeWait, buf, ann, dseq, kb, calm>>
    BY <1>15 DEF rxVars, LinkRegs, EndOfTurn, txVars, kbVars
  <2>2. regs'.seq = dseq /\ regs'.ann = ann
    BY <2>1
  <2>3. CASE Received
    BY <1>15, <2>1, <2>2, <2>3 DEF CalmInv, Received, Asking, Between
  <2>4. CASE Served
    BY <1>15, <2>1, <2>2, <2>4 DEF CalmInv, Served, Asking
  <2>5. CASE Announced
    BY <1>15, <2>1, <2>2, <2>5 DEF CalmInv, Announced, Asking, Between, Matches
  <2>. QED
    BY <1>15, <2>3, <2>4, <2>5 DEF CalmInv
<1>16. CASE calm /\ (KbRing \/ KbSees \/ KbReads)
  <2>1. UNCHANGED <<lpc, rx, recue, reqBuf, seen, codeWait, job, buf, ann, dseq, regs, calm>>
    BY <1>16 DEF rxVars, KbRing, KbSees, KbReads, linkVars, txVars
  <2>2. CASE KbRing
    <3>1. /\ kb.pc = "wrote" /\ kb'.pc = "rang"
          /\ kb'.req = kb.req /\ kb'.seq = kb.seq
      BY <2>2, KbEffect
    <3>. QED
      BY <2>1, <3>1 DEF CalmInv, Received, Served, Announced, Asking, Between, Matches
  <2>3. CASE KbSees
    <3>1. /\ kb'.pc = "read" /\ kb'.req = kb.req /\ kb'.hdr = regs.ann
          /\ kb.pc \in {"idle", "rang"} /\ regs.seq # kb.seq
      BY <2>3, KbEffect
    <3>2. Announced
      BY <1>16, <3>1 DEF CalmInv, Received, Served
    <3>3. Announced'
      BY <2>1, <3>1, <3>2 DEF Announced, Asking, Between, Matches
    <3>. QED
      BY <1>16, <2>1, <3>3 DEF CalmInv
  <2>4. CASE KbReads
    <3>1. /\ kb.pc = "read" /\ kb'.pc = "reading" /\ kb'.torn = FALSE
          /\ kb'.req = kb.req /\ kb'.hdr = kb.hdr
      BY <2>4, KbEffect
    <3>2. Announced
      BY <1>16, <3>1 DEF CalmInv, Received, Served, Asking
    <3>3. Announced'
      BY <2>1, <3>1, <3>2 DEF Announced, Asking, Between, Matches
    <3>. QED
      BY <1>16, <2>1, <3>3 DEF CalmInv
  <2>. QED
    BY <1>16, <2>2, <2>3, <2>4
<1>. QED
  BY <1>3, <1>4, <1>5, <1>6, <1>7, <1>8, <1>9, <1>10, <1>11, <1>12, <1>13, <1>14, <1>15, <1>16
     DEF DmaNext, LinkTask

(* What the keyboard reads is whole and answers the request it has made,   *)
(* if nothing of an earlier one is left: for any requests, and whatever    *)
(* was lost, abandoned or never read before (service_request(),            *)
(* dma_publish(), on_tx_sent()).                                           *)
THEOREM AnswersMatch == DmaSpec => AnswerMatchesRequest
<1>. DEFINE AllInv == SeqInv /\ CodeInv /\ Flags /\ KbShape /\ CalmInv
<1>1. DmaInit => AllInv
  <2>. SUFFICES ASSUME DmaInit PROVE AllInv
    OBVIOUS
  <2>1. SeqInv /\ CodeInv /\ CalmInv
    BY DEF DmaInit, SeqInv, CodeInv, CalmInv, Nothing
  <2>2. Flags
    BY DEF DmaInit, Flags
  <2>3. KbShape
    <3>1. kb = [pc |-> "idle", req |-> Nothing, hdr |-> Nothing, torn |-> FALSE, seq |-> 0]
      BY DEF DmaInit
    <3>. QED
      BY <3>1 DEF KbShape
  <2>. QED
    BY <2>1, <2>2, <2>3
<1>2. AllInv /\ [DmaNext]_dmaVars => AllInv'
  BY SeqStep, CodeStep, FlagsStep, ShapeStep, CalmStep
<1>3. AllInv /\ [DmaNext]_dmaVars
        => [kb.pc = "reading" /\ kb'.pc = "idle" /\ calm
              => /\ Delivered.kind = kb.req.kind
                 /\ kb.req.kind = "LIST" => Delivered = kb.req]_dmaVars
  <2>. SUFFICES ASSUME AllInv, kb.pc = "reading", calm
                PROVE  /\ Delivered.kind = kb.req.kind
                       /\ kb.req.kind = "LIST" => Delivered = kb.req
    OBVIOUS
  <2>1. Announced /\ kb.hdr = buf /\ kb.torn = FALSE
    BY DEF CalmInv, Received, Served, Announced, Asking
  <2>2. Delivered = buf
    BY <2>1 DEF Delivered
  <2>. QED
    BY <2>1, <2>2 DEF Announced, Matches
<1>. HIDE DEF AllInv
<1>. QED
  BY <1>1, <1>2, <1>3, PTL DEF DmaSpec, AnswerMatchesRequest
-----------------------------------------------------------------------------
(* s_resp holds zeros outside of an answer, the digest of the challenge or *)
(* zeros in it.                                                            *)
RespInv == resp = None \/ (state = "RESP" /\ resp = challenge)

(* The latch of a challenge that waits: what is armed for its slot is that *)
(* challenge, unless link_task has armed a code over it, and a grant that  *)
(* nobody has consumed is the one the owner pressed for.                   *)
ChallengeInv ==
    /\ state = "WAIT" => armedIdx \in OtpSlots
    /\ state = "WAIT" /\ phase \in {"waiting", "granted"} /\ what[1] = armedIdx
         => what[2] = challenge
    /\ phase = "granted" => pressed = what[2]
-----------------------------------------------------------------------------
(* A report clears s_resp with the last one and keeps it otherwise; a      *)
(* frame is accepted only once it is clear, so no digest crosses over from *)
(* one challenge to the next.                                              *)
LEMMA RespStep ==
    ASSUME RespInv, [OtpNext]_otpVars
    PROVE  RespInv'
<1>1. ASSUME UNCHANGED <<state, resp, challenge>> PROVE RespInv'
  BY <1>1 DEF RespInv
<1>2. ASSUME ProtoReset PROVE RespInv'
  BY <1>2 DEF ProtoReset, RespInv
<1>3. ASSUME NEW a \in Apps, HostWrites(a) PROVE RespInv'
  <2>1. PICK c, seq : OnWrite(c, seq)
    BY <1>3 DEF HostWrites
  <2>2. ProtoReset \/ UNCHANGED <<state, resp, challenge>> \/ (state = "IDLE" /\ resp' = resp)
    BY <2>1 DEF OnWrite, protoVars
  <2>. QED
    BY <1>1, <1>2, <2>2 DEF RespInv
<1>4. ASSUME NEW a \in Apps, HostReads(a) PROVE RespInv'
  <2>1. CASE ReadIdle \/ ReadWaiting
    BY <1>1, <2>1 DEF ReadIdle, ReadWaiting, protoVars
  <2>2. CASE ReadDenied
    BY <1>2, <2>2 DEF ReadDenied
  <2>3. ASSUME NEW digest, NEW seq, Chunk(digest, seq), digest \in {challenge, None}
        PROVE  RespInv'
    BY <1>2, <2>3 DEF Chunk, RespInv
  <2>4. CASE ReadGranted
    BY <2>3, <2>4 DEF ReadGranted, RespInv
  <2>5. CASE ReadNext
    BY <2>3, <2>5 DEF ReadNext, RespInv
  <2>. QED
    BY <1>4, <2>1, <2>2, <2>4, <2>5 DEF HostReads
<1>5. CASE \E a \in Apps : HostStarts(a) \/ HostLeaves(a)
  BY <1>1, <1>5 DEF HostStarts, HostLeaves, protoVars
<1>6. CASE Reenter
  BY <1>2, <1>6 DEF Reenter
<1>7. CASE Press \/ OtpLapses \/ LinkArms \/ LinkPolls \/ UNCHANGED otpVars
  BY <1>1, <1>7 DEF Press, OtpLapses, LinkArms, LinkPolls, otpVars, protoVars
<1>. QED
  BY <1>3, <1>4, <1>5, <1>6, <1>7 DEF OtpNext

(* No answer ever carries the digest of an older challenge, though         *)
(* compute_hmac() may fail and leave s_resp as it is.                      *)
THEOREM DigestIsCurrent == OtpSpec => []NoOldDigest
<1>1. OtpInit => RespInv
  BY DEF OtpInit, RespInv
<1>2. RespInv /\ [OtpNext]_otpVars => RespInv'
  BY RespStep
<1>3. RespInv => NoOldDigest
  BY DEF RespInv, NoOldDigest
<1>. QED
  BY <1>1, <1>2, <1>3, PTL DEF OtpSpec
-----------------------------------------------------------------------------
(* What the steps of the latch do to its phase and its operation.          *)
LEMMA PolledEffect ==
    ASSUME Polled
    PROVE  phase' = "idle" \/ UNCHANGED gateVars
  BY DEF Polled, OtpGate!EndsGranted, OtpGate!EndsRefused, OtpGate!Disarm

(* The latch and the protocol change hands together: a frame arms both, a  *)
(* press grants what is armed, and link_task arms another slot.            *)
LEMMA ChallengeStep ==
    ASSUME ChallengeInv, [OtpNext]_otpVars
    PROVE  ChallengeInv'
<1>. USE OtpAssumption
<1>1. ASSUME UNCHANGED gateVars \/ phase' \in {"idle", "lapsed"},
             UNCHANGED <<armedIdx, pressed>>, state' # "WAIT" \/ UNCHANGED <<state, challenge>>
      PROVE  ChallengeInv'
  BY <1>1 DEF ChallengeInv, gateVars
<1>2. ASSUME NEW a \in Apps, HostWrites(a) PROVE ChallengeInv'
  <2>1. PICK c, seq : OnWrite(c, seq)
    BY <1>2 DEF HostWrites
  <2>2. pressed' = IF state' = state THEN pressed ELSE None
    BY <1>2 DEF HostWrites
  <2>3. CASE UNCHANGED <<protoVars, armedIdx, gateVars>>
    BY <1>1, <2>2, <2>3 DEF protoVars
  <2>4. CASE state = "IDLE" /\ UNCHANGED <<state, challenge, resp, respSeq, armedIdx, gateVars>>
    BY <1>1, <2>2, <2>4
  <2>5. CASE state = "IDLE" /\ ProtoReset /\ UNCHANGED <<armedIdx, gateVars>>
    BY <1>1, <2>2, <2>5 DEF ProtoReset
  <2>6. CASE /\ state = "IDLE" /\ c[1] \in OtpSlots
             /\ challenge' = c /\ state' = "WAIT" /\ armedIdx' = c[1]
             /\ phase' = "waiting" /\ what' = <<c[1], c>>
    <3>1. what'[2] = c
      BY <2>6
    <3>. QED
      BY <2>6, <3>1 DEF ChallengeInv
  <2>. QED
    BY <2>1, <2>3, <2>4, <2>5, <2>6 DEF OnWrite
<1>3. ASSUME NEW a \in Apps, HostReads(a) PROVE ChallengeInv'
  <2>1. UNCHANGED <<armedIdx, pressed>>
    BY <1>3 DEF HostReads
  <2>2. CASE ReadIdle
    BY <1>1, <2>1, <2>2 DEF ReadIdle, protoVars
  <2>3. CASE ReadWaiting
    BY <1>1, <2>1, <2>3, PolledEffect DEF ReadWaiting, protoVars
  <2>4. CASE ReadDenied
    BY <1>1, <2>1, <2>4, PolledEffect DEF ReadDenied, ProtoReset
  <2>5. ASSUME NEW digest, NEW seq, Chunk(digest, seq) PROVE state' # "WAIT"
    BY <2>5 DEF Chunk, ProtoReset
  <2>6. CASE ReadGranted
    BY <1>1, <2>1, <2>5, <2>6, PolledEffect DEF ReadGranted
  <2>7. CASE ReadNext
    BY <1>1, <2>1, <2>5, <2>7 DEF ReadNext
  <2>. QED
    BY <1>3, <2>2, <2>3, <2>4, <2>6, <2>7 DEF HostReads
<1>4. CASE \E a \in Apps : HostStarts(a) \/ HostLeaves(a)
  BY <1>1, <1>4 DEF HostStarts, HostLeaves, protoVars, histVars
<1>5. CASE Reenter
  BY <1>1, <1>5 DEF Reenter, ProtoReset, OtpGate!Disarm
<1>6. CASE Press
  BY <1>6 DEF Press, OtpGate!Press, ChallengeInv, protoVars
<1>7. CASE OtpLapses
  BY <1>1, <1>7 DEF OtpLapses, OtpGate!Lapse, protoVars, histVars
<1>8. CASE LinkArms
  <2>1. /\ phase' = "waiting" /\ what'[1] = "E0"
        /\ UNCHANGED <<state, challenge, armedIdx>>
    BY <1>8 DEF LinkArms, protoVars
  <2>. QED
    BY <2>1 DEF ChallengeInv
<1>9. CASE LinkPolls
  BY <1>1, <1>9, PolledEffect DEF LinkPolls, protoVars
<1>10. CASE UNCHANGED otpVars
  BY <1>1, <1>10 DEF otpVars, protoVars, histVars
<1>. QED
  BY <1>2, <1>3, <1>4, <1>5, <1>6, <1>7, <1>8, <1>9, <1>10 DEF OtpNext

(* An answer begins only in the read that finds the grant of its slot.     *)
LEMMA AnswerBegins ==
    ASSUME [OtpNext]_otpVars, state = "WAIT", state' = "RESP"
    PROVE  phase = "granted" /\ what[1] = armedIdx /\ UNCHANGED <<challenge, pressed>>
<1>1. CASE \E a \in Apps : HostReads(a)
  <2>1. PICK a \in Apps : HostReads(a)
    BY <1>1
  <2>2. ReadGranted
    BY <2>1 DEF HostReads, ReadIdle, ReadWaiting, ReadDenied, ReadNext, ProtoReset, protoVars
  <2>3. PICK digest : Chunk(digest, 0)
    BY <2>2 DEF ReadGranted
  <2>4. challenge' = challenge
    BY <2>3 DEF Chunk, ProtoReset
  <2>. QED
    BY <2>1, <2>2, <2>4 DEF HostReads, ReadGranted, Authorized
<1>2. ASSUME NEW a \in Apps, HostWrites(a) PROVE FALSE
  BY <1>2 DEF HostWrites, OnWrite, protoVars, ProtoReset
<1>3. CASE \E a \in Apps : HostStarts(a) \/ HostLeaves(a)
  BY <1>3 DEF HostStarts, HostLeaves, protoVars
<1>4. CASE Reenter \/ Press \/ OtpLapses \/ LinkArms \/ LinkPolls \/ UNCHANGED otpVars
  BY <1>4 DEF Reenter, ProtoReset, Press, OtpLapses, LinkArms, LinkPolls, otpVars, protoVars
<1>. QED
  BY <1>1, <1>2, <1>3, <1>4 DEF OtpNext

(* The answer is that of the challenge that was armed when the owner       *)
(* pressed, whoever else writes frames or asks for codes in between.       *)
THEOREM AnswerPressed == OtpSpec => AnswerIsPressed
<1>1. OtpInit => ChallengeInv
  BY DEF OtpInit, ChallengeInv
<1>2. ChallengeInv /\ [OtpNext]_otpVars => ChallengeInv'
  BY ChallengeStep
<1>3. ChallengeInv /\ [OtpNext]_otpVars => [state = "WAIT" /\ state' = "RESP" => challenge = pressed]_otpVars
  BY AnswerBegins DEF ChallengeInv
<1>. QED
  BY <1>1, <1>2, <1>3, PTL DEF OtpSpec, AnswerIsPressed
=============================================================================
