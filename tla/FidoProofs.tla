---------------------------- MODULE FidoProofs ----------------------------
(***************************************************************************)
(* Proofs about the FIDO mode: for any number of applications, any         *)
(* requests and messages of any number of packets, with the host reading,  *)
(* suspending and resetting the bus at any moment.                         *)
(***************************************************************************)
EXTENDS Fido, TLAPS

\* The types of the three records of the mode, for any message length.
AppType == [chan : Apps \cup {Broadcast}, req : U2f \cup Plain \cup {None}, out : Nat,
            no : 0 .. MsgIds - 1]
TxType == [cid : Chans \cup {None}, msg : Messages \cup {None}, total : Nat, sent : Nat]
CallType == [cid : Chans, msg : Messages, req : U2f]

(* What the message being reassembled is plays no part in the proofs.      *)
TypeInv ==
    /\ app \in [Apps -> AppType]
    /\ tx \in TxType /\ busy \in BOOLEAN /\ refusal \in Chans \cup {None}
    /\ ep \in Packets \cup {None} /\ wire \in Packets
    /\ asleep \in BOOLEAN /\ lost \in BOOLEAN
    /\ wait \in Waits \cup {None} /\ call \in CallType \cup {None}
    /\ phase \in {"idle", "waiting", "lapsed", "granted"}

(* While usb_task executes a U2F request the wait is for it; the latch is  *)
(* armed for the wait, and a grant for what waited at the press.           *)
GrantInv ==
    /\ call # None => wait # None /\ wait.req = call.req
    /\ phase # "idle" => wait # None /\ what[1] = SlotOf(wait.req.op)
    /\ phase = "granted" => pressed = wait

(* The packet sent last is the last one counted of the answer in s_tx.     *)
WireInv ==
    busy => /\ wire.msg = tx.msg /\ wire.part = tx.sent
            /\ tx.sent < tx.total
-----------------------------------------------------------------------------
(* The packets that are built are packets, and the absent one is not.      *)
LEMMA Parts ==
    ASSUME NEW t \in TxType, NEW n \in Nat
    PROVE  /\ Part(t, n) \in Packets /\ Part(t, n) # None
           /\ Part(t, n).kind = "answer" /\ Part(t, n).msg = t.msg
           /\ Part(t, n).part = n /\ (Part(t, n).last <=> n = t.total)
<1>1. Part(t, n) \in Packets
  BY DEF Part, Packets, TxType
<1>. QED
  BY <1>1, NoneAssumption DEF Part

\* A refusal and a finished transfer are packets, and no part of an answer.
LEMMA Refusals ==
    ASSUME NEW c \in Chans \cup {None}
    PROVE  /\ Refusal(c) \in Packets /\ Refusal(c) # None /\ Refusal(c).kind = "refusal"
           /\ Done \in Packets /\ Done # None /\ Done.kind = "done"
<1>1. Done \in Packets /\ Done.kind = "done"
  BY DEF Done, Packets
<1>2. ASSUME NEW d \in Packets
      PROVE  /\ [d EXCEPT !.kind = "refusal", !.cid = c] \in Packets
             /\ [d EXCEPT !.kind = "refusal", !.cid = c].kind = "refusal"
  BY DEF Packets
<1>3. Refusal(c) \in Packets /\ Refusal(c).kind = "refusal"
  BY <1>1, <1>2 DEF Refusal
<1>. QED
  BY <1>1, <1>3, NoneAssumption

(* What one call of send_response() does to the answer, the endpoint and   *)
(* the refusals: an answer that is not given up has its first packet in    *)
(* the endpoint, and one that is being sent is left alone.                 *)
LEMMA ResponseEffect ==
    ASSUME TypeInv, NEW c \in Chans, NEW m \in Messages \cup {None}, NEW total \in Nat,
           total > 0, SendResponse(c, m, total)
    PROVE  /\ tx' \in TxType /\ busy' \in BOOLEAN /\ refusal' \in Chans \cup {None}
           /\ ep' \in Packets \cup {None} /\ wire' \in Packets /\ lost' = lost
           /\ WireInv => WireInv'
           /\ busy' /\ ep' = None => busy /\ ep = None
           /\ ep' = ep \/ (ep' # None /\ (ep'.kind = "refusal" \/ ep'.part = 1))
<1>. DEFINE t == [cid |-> c, msg |-> m, total |-> total, sent |-> 1]
<1>1. t \in TxType /\ t.total = total /\ t.sent = 1 /\ t.msg = m
  BY DEF TxType
<1>2. CASE busy
  <2>1. /\ UNCHANGED <<tx, busy, wire, lost>>
        /\ \/ ep' = Refusal(c) /\ UNCHANGED refusal
           \/ refusal' = c /\ UNCHANGED ep
    BY <1>2 DEF SendResponse, SendBusyRefusal
  <2>2. WireInv => WireInv'
    BY <2>1 DEF WireInv
  <2>. QED
    BY <1>2, <2>1, <2>2, Refusals DEF TypeInv
<1>3. CASE ~busy /\ ~Ready
  <2>1. busy' = FALSE /\ tx' = NoTx /\ UNCHANGED <<ep, wire, refusal, lost>>
    BY <1>3 DEF SendResponse, TypeInv
  <2>2. NoTx \in TxType
    BY DEF NoTx, TxType
  <2>. QED
    BY <2>1, <2>2 DEF TypeInv, WireInv
<1>4. CASE ~busy /\ Ready
  <2>1. /\ Leaves(Part(t, 1)) /\ busy' = (total > 1)
        /\ tx' = IF busy' THEN t ELSE NoTx
        /\ UNCHANGED <<refusal, lost>>
    BY <1>4 DEF SendResponse
  <2>. HIDE DEF t
  <2>2. /\ Part(t, 1) \in Packets /\ Part(t, 1) # None /\ Part(t, 1).part = 1
        /\ Part(t, 1).msg = t.msg /\ (Part(t, 1).last <=> 1 = t.total)
    BY <1>1, Parts
  <2>3. NoTx \in TxType /\ Done \in Packets
    BY Refusals DEF NoTx, TxType
  <2>4. ep' = Part(t, 1) /\ wire' = IF total = 1 THEN Done ELSE Part(t, 1)
    BY <1>1, <2>1, <2>2 DEF Leaves
  <2>5. WireInv'
    <3>1. SUFFICES ASSUME busy' PROVE wire'.msg = tx'.msg /\ wire'.part = tx'.sent
                                      /\ tx'.sent < tx'.total
      BY DEF WireInv
    <3>2. total > 1 /\ tx' = t /\ wire' = Part(t, 1)
      <4>1. total > 1
        BY <2>1, <3>1
      <4>2. tx' = t
        BY <2>1, <3>1
      <4>3. total # 1
        BY <4>1
      <4>. QED
        BY <2>4, <4>1, <4>2, <4>3
    <3>. QED
      BY <1>1, <2>2, <3>2
  <2>. QED
    BY <1>1, <2>1, <2>2, <2>3, <2>4, <2>5 DEF TypeInv
<1>. QED
  BY <1>2, <1>3, <1>4

(* What a completion that goes on with the answer does.                    *)
LEMMA ContinuationEffect ==
    ASSUME TypeInv, WireInv, busy, SendContinuation
    PROVE  /\ tx' \in TxType /\ busy' \in BOOLEAN
           /\ ep' \in Packets \cup {None} /\ wire' \in Packets
           /\ WireInv'
           /\ busy' => ep' # None
           /\ ep' # None => ep'.msg = wire.msg /\ ep'.part = wire.part + 1
<1>. DEFINE n == tx.sent + 1
<1>1. tx \in TxType /\ tx.sent \in Nat /\ tx.total \in Nat /\ n \in Nat
  BY DEF TypeInv, TxType
<1>2. /\ Part(tx, n) \in Packets /\ Part(tx, n) # None
      /\ Part(tx, n).part = n /\ Part(tx, n).msg = tx.msg
      /\ (Part(tx, n).last <=> n = tx.total)
  BY <1>1, Parts
<1>3. /\ busy' = (~asleep /\ n < tx.total)
      /\ tx' = IF busy' THEN [tx EXCEPT !.sent = n] ELSE NoTx
      /\ IF asleep THEN ep' = None /\ wire' = wire
         ELSE ep' = Part(tx, n) /\ wire' = IF Part(tx, n).last THEN Done ELSE Part(tx, n)
  BY DEF SendContinuation, Leaves
<1>. HIDE DEF n
<1>4. /\ [tx EXCEPT !.sent = n] \in TxType
      /\ [tx EXCEPT !.sent = n].msg = tx.msg /\ [tx EXCEPT !.sent = n].sent = n
      /\ [tx EXCEPT !.sent = n].total = tx.total
  BY <1>1 DEF TxType
<1>5. NoTx \in TxType /\ Done \in Packets /\ wire \in Packets
  BY Refusals DEF NoTx, TxType, TypeInv
<1>6. busy' => ~asleep /\ n < tx.total /\ tx' = [tx EXCEPT !.sent = n]
               /\ ep' = Part(tx, n) /\ wire' = Part(tx, n)
  <2>1. busy' => ~asleep /\ n < tx.total /\ tx' = [tx EXCEPT !.sent = n]
    BY <1>3
  <2>2. busy' => ~Part(tx, n).last
    BY <1>1, <1>2, <2>1
  <2>. QED
    BY <1>3, <2>1, <2>2
<1>7. WireInv'
  BY <1>2, <1>4, <1>6 DEF WireInv
<1>8. ep' # None => ep' = Part(tx, n)
  BY <1>3
<1>9. tx' \in TxType /\ busy' \in BOOLEAN /\ ep' \in Packets \cup {None} /\ wire' \in Packets
  BY <1>2, <1>3, <1>4, <1>5 DEF TypeInv
<1>10. wire.msg = tx.msg /\ wire.part + 1 = n
  BY <1>1 DEF WireInv, n
<1>. QED
  BY <1>2, <1>6, <1>7, <1>8, <1>9, <1>10
-----------------------------------------------------------------------------
(* A U2F request arms the latch, or only polls when it is the one that     *)
(* waits already.                                                          *)
LEMMA BeginEffect ==
    ASSUME TypeInv, GrantInv, NEW c \in Chans, NEW m \in Messages, NEW r \in U2f,
           U2fBegin(c, m, r)
    PROVE  /\ call' \in CallType /\ call'.req = r
           /\ wait' \in Waits /\ wait' # None /\ wait'.req = r
           /\ phase' \in {"idle", "waiting", "lapsed", "granted"}
           /\ GrantInv'
           /\ phase = "granted" => phase' = "granted" \/ wait'.req # wait.req
<1>1. call' = [cid |-> c, msg |-> m, req |-> r]
  BY DEF U2fBegin
<1>2. call' \in CallType /\ call'.req = r
  BY <1>1 DEF CallType
<1>3. CASE IsRetry(r)
  <2>1. UNCHANGED <<wait, phase, what, pressed>>
    BY <1>3 DEF U2fBegin, gateVars
  <2>2. wait # None /\ wait.req = r
    BY <1>3 DEF IsRetry
  <2>. QED
    BY <1>2, <2>1, <2>2 DEF GrantInv, TypeInv
<1>4. CASE ~IsRetry(r)
  <2>1. /\ wait' = [req |-> r, nonce |-> m]
        /\ phase' \in {"waiting", "lapsed"} /\ what' = <<SlotOf(r.op), r.op>>
    BY <1>4 DEF U2fBegin, Gate!ArmOp
  <2>2. wait' \in Waits /\ wait'.req = r
    BY <2>1 DEF Waits
  <2>3. wait' # None
    BY <2>2, NoneAssumption
  <2>4. what'[1] = SlotOf(r.op)
    BY <2>1
  <2>5. phase = "granted" => wait'.req # wait.req
    BY <1>4, <2>2 DEF GrantInv, IsRetry
  <2>. QED
    BY <1>2, <2>1, <2>2, <2>3, <2>4, <2>5 DEF GrantInv
<1>. QED
  BY <1>3, <1>4

(* A packet from the host: an application keeps to its own channel, and    *)
(* what leaves the callback is one answer, or one request for usb_task.    *)
LEMMA ReportEffect ==
    ASSUME TypeInv, GrantInv, NEW a \in Apps, NEW r \in U2f \cup Plain, NEW n \in Nat,
           NEW k \in 0 .. MsgIds - 1, SetReport(a, r, n, <<a, k>>)
    PROVE  /\ TypeInv' /\ GrantInv' /\ call = None
           /\ WireInv => WireInv'
           /\ busy' /\ ep' = None => busy /\ ep = None
           /\ lost' = lost
           /\ ep' = ep \/ (ep' # None /\ (ep'.kind = "refusal" \/ ep'.part = 1))
           /\ phase = "granted" => phase' = "granted" \/ (wait' # None /\ wait'.req # wait.req)
<1>. USE FidoAssumption
<1>. DEFINE c == app[a].chan
            m == <<a, k>>
<1>1. c \in Chans /\ m \in Messages /\ m[2] = k
  BY DEF TypeInv, AppType, Chans, Messages
<1>2. /\ call = None /\ UNCHANGED asleep
      /\ app' = [app EXCEPT ![a].req = IF n + 1 < PacketsOf(r) THEN r ELSE None,
                             ![a].out = n + 1, ![a].no = m[2]]
  BY DEF SetReport
<1>3. app' \in [Apps -> AppType]
  <2>. DEFINE q == IF n + 1 < PacketsOf(r) THEN r ELSE None
  <2>1. q \in U2f \cup Plain \cup {None} /\ n + 1 \in Nat
    OBVIOUS
  <2>. HIDE DEF q
  <2>2. app' = [app EXCEPT ![a].req = q, ![a].out = n + 1, ![a].no = k]
    BY <1>1, <1>2 DEF q
  <2>3. app[a] \in AppType /\ app \in [Apps -> AppType]
    BY DEF TypeInv
  <2>4. [app[a] EXCEPT !.req = q, !.out = n + 1, !.no = k] \in AppType
    BY <2>1, <2>3 DEF AppType
  <2>5. app' = [app EXCEPT ![a] = [app[a] EXCEPT !.req = q, !.out = n + 1, !.no = k]]
    BY <2>2, <2>3
  <2>. QED
    BY <2>3, <2>4, <2>5
<1>. HIDE DEF c, m
<1>4. ASSUME NEW x \in Messages \cup {None}, NEW total \in Nat, total > 0,
             SendResponse(c, x, total), UNCHANGED <<u2fVars, gateVars>>
      PROVE  /\ TypeInv' /\ GrantInv'
             /\ WireInv => WireInv'
             /\ busy' /\ ep' = None => busy /\ ep = None
             /\ lost' = lost
             /\ ep' = ep \/ (ep' # None /\ (ep'.kind = "refusal" \/ ep'.part = 1))
             /\ phase' = phase
  <2>1. /\ tx' \in TxType /\ busy' \in BOOLEAN /\ refusal' \in Chans \cup {None}
        /\ ep' \in Packets \cup {None} /\ wire' \in Packets /\ lost' = lost
        /\ WireInv => WireInv'
        /\ busy' /\ ep' = None => busy /\ ep = None
        /\ ep' = ep \/ (ep' # None /\ (ep'.kind = "refusal" \/ ep'.part = 1))
    BY <1>1, <1>4, ResponseEffect
  <2>2. UNCHANGED <<wait, call, pressed, phase, what>>
    BY <1>4 DEF u2fVars, gateVars
  <2>3. TypeInv'
    BY <1>2, <1>3, <2>1, <2>2 DEF TypeInv
  <2>4. GrantInv'
    BY <2>2 DEF GrantInv
  <2>. QED
    BY <2>1, <2>2, <2>3, <2>4
<1>5. ASSUME UNCHANGED <<txVars, u2fVars, gateVars>>
      PROVE  /\ TypeInv' /\ GrantInv' /\ (WireInv => WireInv')
             /\ UNCHANGED <<ep, busy, lost, phase>>
  <2>1. UNCHANGED <<tx, busy, refusal, ep, wire, lost, wait, call, pressed, phase, what>>
    BY <1>5 DEF txVars, u2fVars, gateVars
  <2>. QED
    BY <1>2, <1>3, <2>1 DEF TypeInv, GrantInv, WireInv
<1>6. ASSUME NEW q, q \in U2f, U2fBegin(c, m, q), UNCHANGED txVars
      PROVE  /\ TypeInv' /\ GrantInv' /\ (WireInv => WireInv')
             /\ UNCHANGED <<ep, busy, lost>>
             /\ phase = "granted" => phase' = "granted" \/ (wait' # None /\ wait'.req # wait.req)
  <2>1. UNCHANGED <<tx, busy, refusal, ep, wire, lost>>
    BY <1>6 DEF txVars
  <2>2. /\ call' \in CallType /\ call'.req = q
        /\ wait' \in Waits /\ wait' # None /\ wait'.req = q
        /\ phase' \in {"idle", "waiting", "lapsed", "granted"}
        /\ GrantInv'
        /\ phase = "granted" => phase' = "granted" \/ wait'.req # wait.req
    BY <1>1, <1>6, BeginEffect
  <2>3. TypeInv'
    BY <1>2, <1>3, <2>1, <2>2 DEF TypeInv
  <2>4. WireInv => WireInv'
    BY <2>1 DEF WireInv
  <2>. QED
    BY <2>1, <2>2, <2>3, <2>4
<1>7. CASE SendResponse(c, None, 1) /\ UNCHANGED <<u2fVars, gateVars>>
  BY <1>2, <1>4, <1>7
<1>8. CASE UNCHANGED <<txVars, u2fVars, gateVars>>
  BY <1>2, <1>5, <1>8
<1>9. ASSUME NEW q, HandleMessage(c, m, q)
      PROVE  \/ q \in U2f /\ U2fBegin(c, m, q) /\ UNCHANGED txVars
             \/ \E total \in Nat : /\ total > 0 /\ SendResponse(c, m, total)
                                   /\ UNCHANGED <<u2fVars, gateVars>>
  BY <1>9 DEF HandleMessage
<1>10. CASE HandleMessage(c, m, IF n = 0 THEN r ELSE asm.req)
  <2>1. PICK q : HandleMessage(c, m, q)
    BY <1>10
  <2>2. CASE q \in U2f /\ U2fBegin(c, m, q) /\ UNCHANGED txVars
    BY <1>2, <1>6, <2>2
  <2>3. CASE \E total \in Nat : /\ total > 0 /\ SendResponse(c, m, total)
                                /\ UNCHANGED <<u2fVars, gateVars>>
    <3>1. PICK total \in Nat : /\ total > 0 /\ SendResponse(c, m, total)
                               /\ UNCHANGED <<u2fVars, gateVars>>
      BY <2>3
    <3>2. m \in Messages \cup {None}
      BY <1>1
    <3>. QED
      BY <1>2, <1>4, <3>1, <3>2
  <2>. QED
    BY <1>9, <2>1, <2>2, <2>3
<1>. QED
  BY <1>7, <1>8, <1>10 DEF SetReport, c, m
-----------------------------------------------------------------------------
\* The inductive invariant.
Inv == TypeInv /\ GrantInv /\ WireInv /\ NeverMute

(* The three action properties, of one step.                               *)
NotMixed ==
    ep' # ep /\ ep' # None /\ ep'.kind = "answer" /\ ep'.part > 1
      => ep'.msg = wire.msg /\ ep'.part = wire.part + 1

\* What a step may do to a granted operation.
NotWasted ==
    phase = "granted" /\ phase' # "granted" =>
      \/ UsbU2f /\ Granted
      \/ Reinstall
      \/ wait' # None /\ wait'.req # wait.req

(* A packet of a request, the first or a next one.                         *)
LEMMA ReportStep ==
    ASSUME Inv, NEW a \in Apps, HostStarts(a) \/ HostContinues(a)
    PROVE  Inv' /\ NotMixed /\ NotWasted /\ call = None
<1>. USE FidoAssumption
<1>1. app[a] \in AppType
  BY DEF Inv, TypeInv
<1>2. PICK r \in U2f \cup Plain, n \in Nat, k \in 0 .. MsgIds - 1 : SetReport(a, r, n, <<a, k>>)
  <2>1. CASE HostStarts(a)
    <3>1. (app[a].no + 1) % MsgIds \in 0 .. MsgIds - 1
      BY <1>1 DEF AppType
    <3>2. PICK r \in U2f \cup Plain : SetReport(a, r, 0, <<a, (app[a].no + 1) % MsgIds>>)
      BY <2>1 DEF HostStarts
    <3>. QED
      BY <3>1, <3>2
  <2>2. CASE HostContinues(a)
    <3>1. app[a].req \in U2f \cup Plain /\ app[a].out \in Nat /\ app[a].no \in 0 .. MsgIds - 1
      BY <1>1, <2>2 DEF AppType, HostContinues
    <3>. QED
      BY <2>2, <3>1 DEF HostContinues
  <2>. QED
    BY <2>1, <2>2
<1>3. /\ TypeInv' /\ GrantInv' /\ WireInv' /\ call = None
      /\ busy' /\ ep' = None => busy /\ ep = None
      /\ lost' = lost
      /\ ep' = ep \/ (ep' # None /\ (ep'.kind = "refusal" \/ ep'.part = 1))
      /\ phase = "granted" => phase' = "granted" \/ (wait' # None /\ wait'.req # wait.req)
  BY <1>2, ReportEffect DEF Inv
<1>4. NeverMute'
  BY <1>3 DEF Inv, NeverMute
<1>5. NotMixed
  BY <1>3 DEF NotMixed
<1>6. NotWasted
  BY <1>3 DEF NotWasted
<1>. QED
  BY <1>3, <1>4, <1>5, <1>6 DEF Inv

(* The endpoint has been read.                                             *)
LEMMA CompleteStep ==
    ASSUME Inv, UsbComplete
    PROVE  Inv' /\ NotMixed /\ NotWasted
<1>1. /\ refusal' = None /\ UNCHANGED <<asleep, wait, call, pressed, phase, what, app>>
  BY DEF UsbComplete, u2fVars, gateVars
<1>2. GrantInv' /\ NotWasted
  BY <1>1 DEF Inv, GrantInv, NotWasted
<1>3. CASE refusal # None
  <2>1. /\ ep' = IF asleep THEN None ELSE Refusal(refusal)
        /\ lost' = (lost \/ asleep) /\ UNCHANGED <<tx, busy, wire>>
    BY <1>3 DEF UsbComplete
  <2>2. Refusal(refusal) \in Packets /\ Refusal(refusal) # None /\ Refusal(refusal).kind = "refusal"
    BY Refusals DEF Inv, TypeInv
  <2>3. TypeInv'
    BY <1>1, <2>1, <2>2 DEF Inv, TypeInv
  <2>4. WireInv' /\ NotMixed
    BY <2>1, <2>2 DEF Inv, WireInv, NotMixed
  <2>5. NeverMute'
    BY <2>1, <2>2 DEF NeverMute
  <2>. QED
    BY <1>2, <2>3, <2>4, <2>5 DEF Inv
<1>4. CASE refusal = None /\ busy
  <2>1. SendContinuation /\ lost' = lost
    BY <1>4 DEF UsbComplete
  <2>2. /\ tx' \in TxType /\ busy' \in BOOLEAN
        /\ ep' \in Packets \cup {None} /\ wire' \in Packets
        /\ WireInv'
        /\ busy' => ep' # None
        /\ ep' # None => ep'.msg = wire.msg /\ ep'.part = wire.part + 1
    BY <1>4, <2>1, ContinuationEffect DEF Inv
  <2>3. TypeInv'
    BY <1>1, <2>1, <2>2 DEF Inv, TypeInv
  <2>. QED
    BY <1>2, <2>2, <2>3 DEF Inv, NeverMute, NotMixed
<1>5. CASE refusal = None /\ ~busy
  <2>1. ep' = None /\ UNCHANGED <<tx, busy, wire, lost>>
    BY <1>5 DEF UsbComplete
  <2>2. TypeInv'
    BY <1>1, <2>1 DEF Inv, TypeInv
  <2>. QED
    BY <1>2, <1>5, <2>1, <2>2 DEF Inv, WireInv, NeverMute, NotMixed
<1>. QED
  BY <1>3, <1>4, <1>5

(* usb_task polls the latch for the request it executes, and answers.      *)
LEMMA U2fStep ==
    ASSUME Inv, UsbU2f
    PROVE  Inv' /\ NotMixed /\ NotWasted
<1>. USE FidoAssumption
<1>1. call # None /\ call \in CallType
  BY DEF UsbU2f, Inv, TypeInv
<1>2. /\ call.cid \in Chans /\ call.msg \in Messages \cup {None}
      /\ (IF Granted THEN Long ELSE 1) \in Nat /\ (IF Granted THEN Long ELSE 1) > 0
  BY <1>1 DEF CallType
<1>3. /\ tx' \in TxType /\ busy' \in BOOLEAN /\ refusal' \in Chans \cup {None}
      /\ ep' \in Packets \cup {None} /\ wire' \in Packets /\ lost' = lost
      /\ WireInv'
      /\ busy' /\ ep' = None => busy /\ ep = None
      /\ ep' = ep \/ (ep' # None /\ (ep'.kind = "refusal" \/ ep'.part = 1))
  BY <1>2, ResponseEffect DEF UsbU2f, Inv
<1>4. /\ call' = None /\ UNCHANGED <<asleep, app>>
      /\ \/ phase' = "idle" /\ wait' = None
         \/ phase # "granted" /\ UNCHANGED <<phase, what, wait>>
  BY DEF UsbU2f, Gate!EndsGranted, Gate!EndsRefused, Gate!Disarm, U2fReset, gateVars
<1>5. TypeInv'
  BY <1>3, <1>4 DEF Inv, TypeInv
<1>6. GrantInv'
  BY <1>4 DEF Inv, GrantInv
<1>7. phase = "granted" => Granted
  BY <1>1 DEF Inv, GrantInv, Granted
<1>. QED
  BY <1>3, <1>5, <1>6, <1>7 DEF Inv, NeverMute, NotMixed, NotWasted

(* The host, the owner and the clock; the bus and the mode.                *)
LEMMA OthersStep ==
    ASSUME Inv, \/ \E a \in Apps : HostGivesUp(a)
                \/ HostReads \/ Suspend \/ Resume \/ BusReset \/ Reinstall
                \/ Press \/ WindowCloses \/ UNCHANGED vars
    PROVE  Inv' /\ NotMixed /\ NotWasted
<1>. USE FidoAssumption
<1>a. app \in [Apps -> AppType]
  BY DEF Inv, TypeInv
<1>c. [a \in Apps |-> Closed(a)] \in [Apps -> AppType]
  BY DEF Closed, AppType
<1>d. Done \in Packets /\ Done # None /\ Done.kind = "done" /\ NoTx \in TxType
  BY Refusals DEF NoTx, TxType
<1>1. ASSUME UNCHANGED <<tx, busy, refusal, ep, wire, lost>>,
             UNCHANGED <<wait, call, pressed, phase, what>>,
             asleep' \in BOOLEAN, app' \in [Apps -> AppType]
      PROVE  Inv' /\ NotMixed /\ NotWasted
  BY <1>1 DEF Inv, TypeInv, GrantInv, WireInv, NeverMute, NotMixed, NotWasted
<1>2. ASSUME NEW a \in Apps, HostGivesUp(a) PROVE Inv' /\ NotMixed /\ NotWasted
  <2>1. app' = [app EXCEPT ![a] = [app[a] EXCEPT !.req = None, !.out = 0]]
    BY <1>2, <1>a DEF HostGivesUp
  <2>2. [app[a] EXCEPT !.req = None, !.out = 0] \in AppType
    BY <1>a DEF AppType
  <2>3. app' \in [Apps -> AppType]
    BY <1>a, <2>1, <2>2
  <2>. QED
    BY <1>1, <1>2, <2>3 DEF HostGivesUp, txVars, u2fVars, gateVars, Inv, TypeInv
<1>3. CASE HostReads
  <2>1. /\ ep' = Done /\ ep # None
        /\ UNCHANGED <<tx, busy, refusal, wire, lost, asleep, wait, call, pressed, phase, what>>
        /\ app' = [a \in Apps |->
                     IF app[a].out > 0 /\ Ends(a)
                     THEN [app[a] EXCEPT !.req = None, !.out = 0,
                             !.chan = IF ep.msg # None THEN a ELSE app[a].chan]
                     ELSE app[a]]
    BY <1>3 DEF HostReads, u2fVars, gateVars
  <2>2. ASSUME NEW a \in Apps, NEW ch \in {a, app[a].chan}
        PROVE  [app[a] EXCEPT !.req = None, !.out = 0, !.chan = ch] \in AppType
    BY <1>a DEF AppType
  <2>3. app' \in [Apps -> AppType]
    BY <1>a, <2>1, <2>2
  <2>. QED
    BY <1>d, <2>1, <2>3
       DEF Inv, TypeInv, GrantInv, WireInv, NeverMute, NotMixed, NotWasted
<1>4. CASE Suspend \/ Resume
  BY <1>1, <1>4, <1>a DEF Suspend, Resume, txVars, u2fVars, gateVars
<1>5. CASE BusReset
  <2>1. /\ ep' = None /\ asleep' = FALSE /\ app' = [a \in Apps |-> Closed(a)]
        /\ tx' = [tx EXCEPT !.cid = Old(tx.cid)] /\ refusal' = Old(refusal) /\ lost' = TRUE
        /\ UNCHANGED <<busy, wire, wait, call, pressed, phase, what>>
    BY <1>5 DEF BusReset, u2fVars, gateVars
  <2>2. Old(tx.cid) \in Chans \cup {None} /\ Old(refusal) \in Chans \cup {None}
    BY DEF Old, Chans
  <2>3. tx' \in TxType /\ tx'.msg = tx.msg /\ tx'.sent = tx.sent /\ tx'.total = tx.total
    BY <2>1, <2>2 DEF Inv, TypeInv, TxType
  <2>4. TypeInv'
    BY <1>c, <2>1, <2>2, <2>3 DEF Inv, TypeInv
  <2>. QED
    BY <2>1, <2>3, <2>4 DEF Inv, GrantInv, WireInv, NeverMute, NotMixed, NotWasted
<1>6. CASE Reinstall
  <2>1. /\ tx' = NoTx /\ busy' = FALSE /\ refusal' = None /\ ep' = None /\ asleep' = FALSE
        /\ app' = [a \in Apps |-> Closed(a)] /\ wire' = Done /\ lost' = FALSE
        /\ wait' = None /\ call' = None /\ phase' = "idle"
    BY <1>6 DEF Reinstall, U2fReset, Gate!Drop, Gate!Disarm
  <2>2. TypeInv'
    BY <1>c, <1>d, <2>1 DEF TypeInv
  <2>. QED
    BY <1>6, <2>1, <2>2 DEF Inv, GrantInv, WireInv, NeverMute, NotMixed, NotWasted
<1>7. CASE Press
  <2>1. /\ phase = "waiting" /\ phase' = "granted" /\ what' = what /\ pressed' = wait
        /\ UNCHANGED <<tx, busy, refusal, ep, wire, lost, asleep, wait, call, app>>
    BY <1>7 DEF Press, Gate!Press, txVars
  <2>. QED
    BY <2>1 DEF Inv, TypeInv, GrantInv, WireInv, NeverMute, NotMixed, NotWasted
<1>8. CASE WindowCloses
  <2>1. /\ phase = "waiting" /\ phase' = "lapsed" /\ what' = what
        /\ UNCHANGED <<tx, busy, refusal, ep, wire, lost, asleep, wait, call, pressed, app>>
    BY <1>8 DEF WindowCloses, Gate!Lapse, txVars, u2fVars
  <2>. QED
    BY <2>1 DEF Inv, TypeInv, GrantInv, WireInv, NeverMute, NotMixed, NotWasted
<1>9. CASE UNCHANGED vars
  BY <1>1, <1>9, <1>a DEF vars, txVars, u2fVars, gateVars, Inv, TypeInv
<1>. QED
  BY <1>2, <1>3, <1>4, <1>5, <1>6, <1>7, <1>8, <1>9

\* Every step keeps the invariant, and both step properties with it.
LEMMA FidoStep ==
    ASSUME Inv, [Next]_vars
    PROVE  Inv' /\ NotMixed /\ NotWasted
  BY ReportStep, CompleteStep, U2fStep, OthersStep DEF Next

\* The mode starts with nothing under way.
LEMMA FidoInit == Init => Inv
<1>. USE FidoAssumption
<1>. SUFFICES ASSUME Init PROVE Inv
  OBVIOUS
<1>1. app \in [Apps -> AppType]
  BY DEF Init, Closed, AppType
<1>2. tx \in TxType /\ wire \in Packets
  BY Refusals DEF Init, NoTx, TxType
<1>3. TypeInv
  BY <1>1, <1>2 DEF Init, TypeInv
<1>. QED
  BY <1>3 DEF Init, Inv, GrantInv, WireInv, NeverMute

(* The state of the mode, and its invariants.                              *)
THEOREM FidoInvariant == Spec => []Inv
<1>1. Inv /\ [Next]_vars => Inv'
  BY FidoStep
<1>. QED
  BY <1>1, FidoInit, PTL DEF Spec

(* While s_tx_busy is set a packet is under way, unless a waiting refusal  *)
(* failed or the endpoints were closed: the key is never mute for ever.    *)
THEOREM KeyNeverMute == Spec => []NeverMute
<1>1. Inv => NeverMute
  BY DEF Inv
<1>. QED
  BY <1>1, FidoInvariant, PTL

(* The parts of an answer follow one another, whatever slips in between.   *)
THEOREM AnswersInOrder == Spec => AnswersNotMixed
<1>1. Inv /\ [Next]_vars
        => [ep' # ep /\ ep' # None /\ ep'.kind = "answer" /\ ep'.part > 1
              => ep'.msg = wire.msg /\ ep'.part = wire.part + 1]_vars
  BY FidoStep DEF NotMixed
<1>. QED
  BY <1>1, FidoInvariant, PTL DEF Spec, AnswersNotMixed

(* Nothing is signed but what waited when the owner pressed, with the      *)
(* credential made when it was armed.                                      *)
THEOREM PressedIsSigned == Spec => SignedIsPressed
<1>1. Inv => (UsbU2f /\ Granted => Sign = pressed)
  <2>. SUFFICES ASSUME Inv, UsbU2f, Granted PROVE Sign = pressed
    OBVIOUS
  <2>1. call # None /\ phase = "granted"
    BY DEF UsbU2f, Granted
  <2>2. wait \in Waits /\ wait.req = call.req /\ pressed = wait
    BY <2>1 DEF Inv, TypeInv, GrantInv
  <2>3. wait = [req |-> wait.req, nonce |-> wait.nonce]
    BY <2>2 DEF Waits
  <2>. QED
    BY <2>2, <2>3 DEF Sign
<1>2. Inv /\ [Next]_vars => [UsbU2f /\ Granted => Sign = pressed]_vars
  BY <1>1
<1>. QED
  BY <1>2, FidoInvariant, PTL DEF Spec, SignedIsPressed

(* A press is used up by the request it was made for, or goes with that    *)
(* request or with the mode; polling never drops it.                       *)
THEOREM PressNotWasted == Spec => GrantNotWasted
<1>1. Inv /\ [Next]_vars
        => [phase = "granted" /\ phase' # "granted" =>
              \/ UsbU2f /\ Granted
              \/ Reinstall
              \/ wait' # None /\ wait'.req # wait.req]_vars
  BY FidoStep DEF NotWasted
<1>. QED
  BY <1>1, FidoInvariant, PTL DEF Spec, GrantNotWasted
=============================================================================
