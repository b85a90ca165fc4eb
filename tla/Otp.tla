-------------------------------- MODULE Otp --------------------------------
(***************************************************************************)
(* The OTP mode: a host application writes a challenge in feature reports, *)
(* otp_proto.c arms the latch, and answers its reads with "wait" until the *)
(* touch, then with the digest, three reports long (security/otp_proto.c,  *)
(* security/otp_hid.c, usb/mode_otp.c).  The latch is its promise,         *)
(* ConfirmGate; link_task is its other consumer.                           *)
(*                                                                         *)
(* A report is the challenge it is a part of.  The CRC holds when all the  *)
(* parts are of one challenge; a digest is the challenge it was computed   *)
(* from.  The operation armed for an OTP slot is its challenge.  Callbacks *)
(* run one at a time in usb_task, so each is one step.                     *)
(***************************************************************************)
EXTENDS Naturals, Latch

CONSTANTS
    Apps,       \* host applications that have the device open
    Leavers,    \* those that may leave in the middle
    OtpSlots,   \* 0x30 and 0x38, slots 0 and 1 of the store
    Last,       \* sequence number of the last report of a frame: 9
    Chunks      \* reports of an answer: 3

ASSUME OtpAssumption ==
    /\ Last \in Nat \ {0} /\ Chunks \in Nat \ {0}
    /\ Leavers \subseteq Apps /\ OtpSlots \cap {"E0", "bad"} = {}

VARIABLES
    state, frame, challenge, resp, respSeq, \* the statics of otp_proto.c
    armedIdx,       \* s_armed_idx
    linkWaits,      \* link_task waits for the touch of a code
    app,            \* per application: what it does and which challenge
    pressed,        \* history: the challenge of the operation last pressed for
    robbed          \* history: link_task ended the operation of the challenge

protoVars == <<state, frame, challenge, resp, respSeq>>
histVars == <<pressed, robbed>>
otpVars == <<protoVars, armedIdx, gateVars, linkWaits, app, histVars>>

\* Two challenges for each slot, and a frame for a slot that OTP has not.
Challenges == (OtpSlots \X {1, 2}) \cup {<<"bad", 1>>}

OtpGate == INSTANCE ConfirmGate WITH
            Slots <- OtpSlots \cup {"E0"}, Ops <- Challenges \cup {None},
            NoSlot <- None, answer <- <<>>

Empty == [i \in 0 .. Last |-> None]
Idle == [pc |-> "idle", c |-> None, seq |-> 0]

OtpInit ==
    /\ state = "IDLE" /\ frame = Empty /\ challenge = None
    /\ resp = None /\ respSeq = 0 /\ armedIdx = None
    /\ phase = "idle" /\ what = None /\ linkWaits = FALSE
    /\ app = [a \in Apps |-> Idle] /\ pressed = None /\ robbed = FALSE

\* Mutant: the last digest stays in s_resp.
ProtoResetKeeps ==
    /\ state' = "IDLE" /\ frame' = Empty /\ challenge' = None
    /\ respSeq' = 0 /\ UNCHANGED resp

(* otp_proto_reset() *)
ProtoReset ==
    /\ state' = "IDLE" /\ frame' = Empty /\ challenge' = None
    /\ resp' = None /\ respSeq' = 0
-----------------------------------------------------------------------------
(* otp_proto_on_write(): ignored unless idle (or without the write flag,   *)
(* or numbered past the frame: the host's abort changes nothing).  The     *)
(* last report ends the frame: armed when its CRC and its slot are right,  *)
(* dropped otherwise.                                                      *)
OnWrite(c, seq) ==
    LET written == [i \in 0 .. Last |-> IF i = seq THEN c
                                        ELSE IF seq = 0 THEN None ELSE frame[i]]
        valid == c[1] \in OtpSlots /\ \A i \in 0 .. Last : written[i] = c
    IN  \/ /\ state # "IDLE"
           /\ UNCHANGED <<protoVars, armedIdx, gateVars>>
        \/ /\ state = "IDLE" /\ seq # Last
           /\ frame' = written
           /\ UNCHANGED <<state, challenge, resp, respSeq, armedIdx, gateVars>>
        \/ /\ state = "IDLE" /\ seq = Last /\ ~valid
           /\ ProtoReset
           /\ UNCHANGED <<armedIdx, gateVars>>
        \/ /\ state = "IDLE" /\ seq = Last /\ valid
           /\ frame' = written /\ challenge' = c /\ state' = "WAIT"
           /\ armedIdx' = c[1]
           /\ phase' = "waiting" /\ what' = <<c[1], c>>
           /\ OtpGate!ArmOp
           /\ UNCHANGED <<resp, respSeq>>

\* Mutants: a window that is over reads as "wait"; any grant will do.
DeniedNever == FALSE
AuthorizedAny == phase = "granted"

(* hook_confirm_state(): what the poll of otp_proto_on_read() returns. *)
Authorized == phase = "granted" /\ what[1] = armedIdx
Denied == phase = "lapsed" \/ (phase = "granted" /\ ~Authorized)
Polled == \/ OtpGate!EndsGranted
          \/ phase = "lapsed" /\ OtpGate!EndsRefused
          \/ phase \in {"idle", "waiting"} /\ UNCHANGED gateVars

\* The report of the response that is next; the last one resets.
Chunk(digest, seq) ==
    IF seq + 1 >= Chunks
    THEN ProtoReset
    ELSE /\ state' = "RESP" /\ resp' = digest /\ respSeq' = seq + 1
         /\ UNCHANGED <<frame, challenge>>

(* otp_proto_on_read(); compute_hmac() fails for a slot that is empty or   *)
(* not OTP's by now, and then leaves s_resp as it is.                      *)
ReadIdle ==
    /\ state = "IDLE"
    /\ UNCHANGED <<protoVars, gateVars>>

ReadWaiting ==
    /\ state = "WAIT" /\ ~Authorized /\ ~Denied /\ Polled
    /\ UNCHANGED protoVars

ReadDenied ==
    /\ state = "WAIT" /\ Denied /\ Polled
    /\ ProtoReset

ReadGranted ==
    /\ state = "WAIT" /\ Authorized /\ Polled
    /\ \E digest \in {challenge, resp} : Chunk(digest, 0)

ReadNext ==
    /\ state = "RESP" /\ Chunk(resp, respSeq)
    /\ UNCHANGED gateVars
-----------------------------------------------------------------------------
(* The host applications.  Nothing keeps two of them from interleaving     *)
(* their reports, nor one from leaving in the middle.                      *)
HostStarts(a) ==
    /\ app[a].pc = "idle"
    /\ \E c \in Challenges : app' = [app EXCEPT ![a] = [pc |-> "writes", c |-> c, seq |-> 0]]
    /\ UNCHANGED <<protoVars, armedIdx, gateVars, linkWaits, histVars>>

HostWrites(a) ==
    /\ app[a].pc = "writes"
    /\ OnWrite(app[a].c, app[a].seq)
    /\ app' = [app EXCEPT ![a] = IF @.seq = Last THEN [@ EXCEPT !.pc = "reads", !.seq = 0]
                                                 ELSE [@ EXCEPT !.seq = @ + 1]]
    /\ pressed' = IF state' = state THEN pressed ELSE None
    /\ robbed' = (robbed /\ state' = state)
    /\ UNCHANGED linkWaits

\* It polls while told to wait, and leaves when it is told nothing or all.
HostReads(a) ==
    /\ app[a].pc = "reads"
    /\ \/ (ReadIdle \/ ReadDenied) /\ app' = [app EXCEPT ![a] = Idle]
       \/ ReadWaiting /\ UNCHANGED app
       \/ /\ ReadGranted \/ ReadNext
          /\ app' = IF state' = "IDLE" THEN [app EXCEPT ![a] = Idle] ELSE app
    /\ robbed' = (robbed /\ state' = "WAIT")
    /\ UNCHANGED <<armedIdx, linkWaits, pressed>>

HostLeaves(a) ==
    /\ a \in Leavers /\ app[a].pc # "idle"
    /\ app' = [app EXCEPT ![a] = Idle]
    /\ UNCHANGED <<protoVars, armedIdx, gateVars, linkWaits, histVars>>

(* The mode is left and entered again: usb_mode_set() resets the latch,    *)
(* otp_hid_init() the protocol; the applications lose the device.          *)
Reenter ==
    /\ ProtoReset
    /\ OtpGate!Disarm
    /\ app' = [a \in Apps |-> Idle]
    /\ robbed' = FALSE
    /\ UNCHANGED <<armedIdx, linkWaits, pressed>>
-----------------------------------------------------------------------------
(* The owner, the clock, and link_task's CODE requests (ConfirmLink). *)
Press ==
    /\ OtpGate!Press /\ pressed' = what[2]
    /\ UNCHANGED <<protoVars, armedIdx, linkWaits, app, robbed>>

OtpLapses ==
    /\ OtpGate!Lapse
    /\ UNCHANGED <<protoVars, armedIdx, linkWaits, app, histVars>>

\* link_task takes the latch from the challenge.
Robs == robbed' = (robbed \/ (what # None /\ what[1] \in OtpSlots))

\* It looks for a pending operation first, but in a call of its own.
LinkArms ==
    /\ ~linkWaits
    /\ linkWaits' = TRUE
    /\ phase' = "waiting" /\ what' = <<"E0", None>>
    /\ OtpGate!ArmOp
    /\ Robs
    /\ UNCHANGED <<protoVars, armedIdx, app, pressed>>

LinkPolls ==
    /\ linkWaits /\ phase # "waiting" /\ linkWaits' = FALSE
    /\ Polled
    /\ Robs
    /\ UNCHANGED <<protoVars, armedIdx, app, pressed>>

OtpNext ==
    \/ \E a \in Apps : HostStarts(a) \/ HostWrites(a) \/ HostReads(a) \/ HostLeaves(a)
    \/ Reenter \/ Press \/ OtpLapses \/ LinkArms \/ LinkPolls

OtpSpec == OtpInit /\ [][OtpNext]_otpVars

(* Windows close, and an application that does not leave writes its frame  *)
(* and reads until it is told.  Nothing is assumed of the owner.           *)
OtpFairSpec ==
    /\ OtpSpec
    /\ WF_otpVars(OtpLapses)
    /\ \A a \in Apps \ Leavers : /\ WF_otpVars(HostStarts(a))
                                 /\ WF_otpVars(HostWrites(a))
                                 /\ WF_otpVars(HostReads(a))
-----------------------------------------------------------------------------
(* An answer is given only for the challenge whose operation was armed     *)
(* when the owner pressed: not for one whose frame came later, nor for a   *)
(* touch that was meant for a code of the link (hook_confirm_state()).     *)
AnswerIsPressed ==
    [][state = "WAIT" /\ state' = "RESP" => challenge = pressed]_otpVars

(* What the reports of an answer carry is the digest of that challenge or  *)
(* zeros, never the digest of an older one ("don't retain last HMAC        *)
(* digest"), though compute_hmac() may fail and its result is ignored.     *)
NoOldDigest == state = "RESP" => resp \in {challenge, None}

(* A challenge does not keep the protocol busy for ever: it is answered or *)
(* refused.  Except when link_task has consumed its grant, or its timeout: *)
(* hook_confirm_state() takes an idle latch for one that still waits, and  *)
(* no frame is accepted until the mode is entered again.                   *)
ChallengeEnds == (state # "IDLE") ~> (state = "IDLE" \/ robbed)
=============================================================================
