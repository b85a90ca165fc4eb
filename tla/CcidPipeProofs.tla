--------------------------- MODULE CcidPipeProofs ---------------------------
(***************************************************************************)
(* What is proved of CcidPipe for every number of commands, retries,       *)
(* pending WTX and mode switches.  A command that the worker must answer   *)
(* is in one place only: the semaphore, the worker, or the queue of the    *)
(* USB task (PipeInv); while it is there OUT is not primed and no answer   *)
(* is on the wire.                                                         *)
(***************************************************************************)
EXTENDS CcidPipe, TLAPS

(* The mode switch and the pipe: s_shutdown is up from ccid_shutdown() to  *)
(* ccid_drv_init(), and without a stack the pipe is closed and nothing is  *)
(* queued.                                                                 *)
ModeInv ==
    /\ shutdown = (mpc # "none")
    /\ stack = (mpc # "down")
    /\ mpc = "down" => ~ep /\ ~out /\ inx = "none" /\ ~final /\ queue = <<>>

\* The callbacks of the queue that send a final answer.
Finals(q) == {i \in 1 .. Len(q) : q[i] # Wtx}

\* The worker has a command and no final answer was queued for it yet.
AtWork == wpc \in {"mark", "run", "confirm", "reply", "post"}

\* A command whose answer has not been given to the host's pipe yet.
Pending == sem = 1 \/ AtWork \/ Finals(queue) # {}

\* A pending command is in one place.
OnePlace ==
    /\ sem = 1 => ~AtWork
    /\ sem = 1 \/ AtWork => Finals(queue) = {}
    /\ \A i, j \in Finals(queue) : i = j

\* The host waits for it, and the pipe is quiet.
Quiet == Pending => ep /\ waiting /\ ~out /\ inx \notin {"final", "zlp"}

\* It is the host's last command, wherever it is.
Contents ==
    /\ sem = 1 \/ wpc = "mark" => outBuf = sent /\ cur = sent
    /\ wpc \in {"run", "confirm", "reply"} => cur = sent /\ wcmd = sent
    /\ wpc = "post" \/ Finals(queue) # {} => inBuf = <<sent, sent>>

\* An answer on the wire, or whose transfer was refused, is for the command
\* the host waits on.
OnWire ==
    /\ final => ~Pending /\ ep /\ waiting /\ ~out
    /\ inx \in {"final", "zlp"} =>
         ep /\ waiting /\ ~out /\ frame.seq = sent /\ frame.cmd = sent

\* The four parts, and PipeInv, their conjunction with the final answers.
PipeParts == OnePlace /\ Quiet /\ Contents /\ OnWire

\* So it is until a reset or a mode switch overtakes the worker.
PipeInv == ~late /\ ~stale /\ mpc # "down" => PipeParts
-----------------------------------------------------------------------------
(* What the queue's operations do to the final answers in it.              *)
LEMMA FinalsAppend ==
    ASSUME NEW q \in Seq(0 .. Wtx), NEW cb \in 0 .. Wtx, Wtx \in Nat
    PROVE  /\ Append(q, cb) \in Seq(0 .. Wtx)
           /\ Len(Append(q, cb)) = Len(q) + 1
           /\ cb = Wtx => Finals(Append(q, cb)) = Finals(q)
           /\ cb # Wtx => Finals(Append(q, cb)) = Finals(q) \cup {Len(q) + 1}
  BY DEF Finals

\* The oldest callback is run: a final answer goes if it was that one.
LEMMA FinalsTail ==
    ASSUME NEW q \in Seq(0 .. Wtx), Wtx \in Nat, q # <<>>
    PROVE  /\ Tail(q) \in Seq(0 .. Wtx) /\ Head(q) \in 0 .. Wtx
           /\ Len(Tail(q)) = Len(q) - 1
           /\ \A i \in Finals(Tail(q)) : i + 1 \in Finals(q)
           /\ Head(q) # Wtx => 1 \in Finals(q)
           /\ \A i \in Finals(Tail(q)) : i \in 1 .. Len(q)
<1>1. Len(q) \in Nat \ {0}
  OBVIOUS
<1>2. /\ Tail(q) \in Seq(0 .. Wtx) /\ Head(q) \in 0 .. Wtx
      /\ Len(Tail(q)) = Len(q) - 1
      /\ \A i \in 1 .. Len(q) - 1 : Tail(q)[i] = q[i + 1]
      /\ Head(q) = q[1]
  OBVIOUS
<1>3. \A i \in Finals(Tail(q)) : i \in 1 .. Len(q) - 1 /\ q[i + 1] # Wtx
  BY <1>2 DEF Finals
<1>4. \A i \in Finals(Tail(q)) : i + 1 \in Finals(q) /\ i \in 1 .. Len(q)
  BY <1>1, <1>3 DEF Finals
<1>5. Head(q) # Wtx => 1 \in Finals(q)
  BY <1>1, <1>2 DEF Finals
<1>. QED
  BY <1>2, <1>4, <1>5

\* With one final answer in the queue, what is left after its head.
LEMMA OneFinal ==
    ASSUME NEW q \in Seq(0 .. Wtx), Wtx \in Nat, q # <<>>,
           \A i, j \in Finals(q) : i = j
    PROVE  /\ Head(q) # Wtx => Finals(q) # {} /\ Finals(Tail(q)) = {}
           /\ Finals(q) = {} => Finals(Tail(q)) = {}
           /\ \A i, j \in Finals(Tail(q)) : i = j
<1>1. \A i \in Finals(Tail(q)) : i \in Nat \ {0} /\ i + 1 \in Finals(q)
  BY FinalsTail
<1>2. Head(q) # Wtx => 1 \in Finals(q)
  BY FinalsTail
<1>3. \A i, j \in Finals(Tail(q)) : i = j
  BY <1>1
<1>4. Head(q) # Wtx => Finals(Tail(q)) = {}
  BY <1>1, <1>2
<1>. QED
  BY <1>1, <1>2, <1>3, <1>4
-----------------------------------------------------------------------------
(* The types, for every value of the constants.                            *)
THEOREM TypeCorrect == Spec => []TypeOK
<1>. USE PipeAssumption
<1>. Wtx \in Nat /\ 0 \in Cmds
  BY DEF Wtx, Cmds
<1>1. Init => TypeOK
  <2>. SUFFICES ASSUME Init PROVE TypeOK
    OBVIOUS
  <2>1. /\ frame \in [seq : Cmds, cmd : Cmds, full : BOOLEAN]
        /\ inBuf \in Cmds \X Cmds /\ got \in Cmds \X Cmds
    BY DEF Init
  <2>2. queue \in Seq(0 .. Wtx)
    BY DEF Init
  <2>3. outBuf \in Cmds /\ cur \in Cmds /\ wcmd \in Cmds /\ sent \in Cmds
    BY DEF Init
  <2>4. switches \in 0 .. MaxSwitch /\ sem \in 0 .. 1
    BY DEF Init
  <2>. QED
    BY <2>1, <2>2, <2>3, <2>4 DEF Init, TypeOK
<1>2. TypeOK /\ [Next]_vars => TypeOK'
  <2>. SUFFICES ASSUME TypeOK, [Next]_vars PROVE TypeOK'
    OBVIOUS
  <2>1. CASE UsbOpen
    BY <2>1 DEF UsbOpen, PrimeOut, TypeOK, workVars, cmdVars, modeVars, hostVars, histVars
  <2>2. CASE UsbReset
    <3>1. /\ ep' \in BOOLEAN /\ out' \in BOOLEAN /\ inx' = "none"
          /\ busy' \in BOOLEAN /\ final' \in BOOLEAN
      BY <2>2 DEF UsbReset, ClosePipe
    <3>2. /\ waiting' \in BOOLEAN /\ stale' \in BOOLEAN /\ late' \in BOOLEAN
          /\ lost' \in BOOLEAN /\ stack' \in BOOLEAN /\ frame' = frame
      BY <2>2 DEF UsbReset, TypeOK
    <3>3. /\ sem' = sem /\ wpc' = wpc /\ active' \in BOOLEAN /\ wcmd' = wcmd
          /\ inBuf' = inBuf /\ outBuf' = outBuf /\ cur' = cur
      BY <2>2 DEF UsbReset, TypeOK, workVars, cmdVars
    <3>4. /\ shutdown' \in BOOLEAN /\ mpc' = mpc /\ switches' = switches
          /\ sent' = sent /\ got' = got /\ queue' = queue
      BY <2>2 DEF UsbReset, TypeOK, modeVars
    <3>. QED
      BY <3>1, <3>2, <3>3, <3>4 DEF TypeOK
  <2>3. CASE HostXfrBlock
    <3>1. sent' \in Cmds
      BY <2>3 DEF HostXfrBlock, HostSends, TypeOK, Cmds
    <3>2. outBuf' \in Cmds /\ cur' \in Cmds /\ sem' \in 0 .. 1
      BY <2>3, <3>1 DEF HostXfrBlock
    <3>3. waiting' \in BOOLEAN /\ out' \in BOOLEAN /\ busy' \in BOOLEAN /\ lost' \in BOOLEAN
      BY <2>3 DEF HostXfrBlock, HostSends
    <3>4. /\ stack' = stack /\ ep' = ep /\ inx' = inx /\ final' = final /\ frame' = frame
          /\ wpc' = wpc /\ active' = active /\ wcmd' = wcmd /\ inBuf' = inBuf
          /\ shutdown' = shutdown /\ mpc' = mpc /\ switches' = switches /\ got' = got
          /\ queue' = queue /\ late' = late /\ stale' = stale
      BY <2>3 DEF HostXfrBlock, modeVars
    <3>. QED
      BY <3>1, <3>2, <3>3, <3>4 DEF TypeOK
  <2>4. CASE HostInline
    <3>1. sent' \in Cmds
      BY <2>4 DEF HostInline, HostSends, TypeOK, Cmds
    <3>2. outBuf' \in Cmds /\ inBuf' \in Cmds \X Cmds
      BY <2>4, <3>1 DEF HostInline
    <3>3. frame' \in [seq : Cmds, cmd : Cmds, full : BOOLEAN]
      <4>1. frame' = frame \/ frame' = [seq |-> sent', cmd |-> sent', full |-> FALSE]
        BY <2>4 DEF HostInline
      <4>2. [seq |-> sent', cmd |-> sent', full |-> FALSE]
              \in [seq : Cmds, cmd : Cmds, full : BOOLEAN]
        BY <3>1
      <4>3. frame \in [seq : Cmds, cmd : Cmds, full : BOOLEAN]
        BY DEF TypeOK
      <4>. QED
        BY <4>1, <4>2, <4>3
    <3>4. /\ waiting' \in BOOLEAN /\ out' \in BOOLEAN /\ final' \in BOOLEAN
          /\ inx' \in {"none", "wtx", "final", "zlp"} /\ lost' \in BOOLEAN
      BY <2>4 DEF HostInline, HostSends, TypeOK
    <3>5. /\ stack' = stack /\ ep' = ep /\ busy' = busy /\ cur' = cur /\ sem' = sem
          /\ wpc' = wpc /\ active' = active /\ wcmd' = wcmd
          /\ shutdown' = shutdown /\ mpc' = mpc /\ switches' = switches /\ got' = got
          /\ queue' = queue /\ late' = late /\ stale' = stale
      BY <2>4 DEF HostInline, modeVars
    <3>. QED
      BY <3>1, <3>2, <3>3, <3>4, <3>5 DEF TypeOK
  <2>5. CASE HostRunt
    <3>1. out' \in BOOLEAN
      BY <2>5 DEF HostRunt, PrimeOut
    <3>. QED
      BY <2>5, <3>1 DEF HostRunt, TypeOK, workVars, cmdVars, modeVars, hostVars, histVars
  <2>6. CASE Worker
    <3>1. CASE WorkerTake
      BY <3>1 DEF WorkerTake, TypeOK, usbVars, cmdVars, modeVars, hostVars, histVars
    <3>2. CASE WorkerMark
      BY <3>2 DEF WorkerMark, TypeOK, usbVars, cmdVars, modeVars, hostVars, histVars
    <3>3. CASE WorkerRun
      BY <3>3 DEF WorkerRun, TypeOK, usbVars, cmdVars, modeVars, hostVars, histVars
    <3>4. CASE WorkerConfirmed
      BY <3>4 DEF WorkerConfirmed, TypeOK, usbVars, cmdVars, modeVars, hostVars, histVars
    <3>5. CASE WorkerReply
      <4>1. inBuf' \in Cmds \X Cmds
        BY <3>5 DEF WorkerReply, TypeOK
      <4>2. /\ busy' \in BOOLEAN
            /\ wpc' \in {"take", "mark", "run", "confirm", "reply", "post", "done"}
        BY <3>5 DEF WorkerReply, TypeOK
      <4>. QED
        BY <3>5, <4>1, <4>2 DEF WorkerReply, TypeOK, cmdVars, modeVars, hostVars, histVars
    <3>6. CASE WorkerPost
      <4>1. queue' \in Seq(0 .. Wtx)
        <5>1. 0 \in 0 .. Wtx /\ queue \in Seq(0 .. Wtx)
          BY DEF TypeOK
        <5>2. queue' = queue \/ queue' = Append(queue, 0)
          BY <3>6 DEF WorkerPost, Defer
        <5>. QED
          BY <5>1, <5>2, FinalsAppend
      <4>. QED
        BY <3>6, <4>1 DEF WorkerPost, TypeOK, usbVars, cmdVars, modeVars, hostVars, histVars
    <3>7. CASE WorkerDone
      <4>1. active' \in BOOLEAN /\ wpc' = "take"
        BY <3>7 DEF WorkerDone
      <4>. QED
        BY <3>7, <4>1 DEF WorkerDone, TypeOK, usbVars, cmdVars, modeVars, hostVars, histVars
    <3>. QED
      BY <2>6, <3>1, <3>2, <3>3, <3>4, <3>5, <3>6, <3>7 DEF Worker
  <2>7. CASE WorkerWtx
    <3>1. queue' \in Seq(0 .. Wtx)
      BY <2>7, FinalsAppend DEF WorkerWtx, Defer, TypeOK
    <3>. QED
      BY <2>7, <3>1 DEF WorkerWtx, TypeOK, usbVars, workVars, cmdVars, modeVars, hostVars, histVars
  <2>8. CASE UsbWtx
    <3>1. queue' \in Seq(0 .. Wtx)
      BY <2>8, FinalsTail DEF UsbWtx, TypeOK
    <3>. QED
      BY <2>8, <3>1 DEF UsbWtx, TypeOK, workVars, cmdVars, modeVars, hostVars, histVars
  <2>9. CASE UsbFinal
    <3>1. Tail(queue) \in Seq(0 .. Wtx) /\ Head(queue) \in 0 .. Wtx
      BY <2>9, FinalsTail DEF UsbFinal, TypeOK
    <3>2. Head(queue) < MaxRetries => Head(queue) + 1 \in 0 .. Wtx
      BY <3>1 DEF Wtx
    <3>3. Head(queue) < MaxRetries => Append(Tail(queue), Head(queue) + 1) \in Seq(0 .. Wtx)
      BY <3>1, <3>2
    <3>4. queue' \in Seq(0 .. Wtx)
      BY <2>9, <3>1, <3>3 DEF UsbFinal
    <3>5. frame' \in [seq : Cmds, cmd : Cmds, full : BOOLEAN]
      BY <2>9 DEF UsbFinal, TypeOK
    <3>6. /\ busy' \in BOOLEAN /\ final' \in BOOLEAN
          /\ inx' \in {"none", "wtx", "final", "zlp"}
      BY <2>9 DEF UsbFinal, TypeOK
    <3>7. lost' \in BOOLEAN
      BY <2>9 DEF UsbFinal, TypeOK
    <3>8. /\ stack' = stack /\ ep' = ep /\ out' = out /\ late' = late /\ stale' = stale
          /\ sem' = sem /\ wpc' = wpc /\ active' = active /\ wcmd' = wcmd /\ inBuf' = inBuf
          /\ outBuf' = outBuf /\ cur' = cur /\ shutdown' = shutdown /\ mpc' = mpc
          /\ switches' = switches /\ sent' = sent /\ waiting' = waiting /\ got' = got
      BY <2>9 DEF UsbFinal, workVars, cmdVars, modeVars, hostVars
    <3>. QED
      BY <3>4, <3>5, <3>6, <3>7, <3>8 DEF TypeOK
  <2>10. CASE HostFetches
    <3>1. got' \in Cmds \X Cmds
      BY <2>10 DEF HostFetches, TypeOK
    <3>2. /\ inx' \in {"none", "wtx", "final", "zlp"}
          /\ final' \in BOOLEAN /\ busy' \in BOOLEAN /\ out' \in BOOLEAN
          /\ waiting' \in BOOLEAN /\ lost' \in BOOLEAN
      BY <2>10 DEF HostFetches, Reprime, PrimeOut, TypeOK
    <3>3. /\ stack' = stack /\ ep' = ep /\ frame' = frame /\ queue' = queue
          /\ sem' = sem /\ wpc' = wpc /\ active' = active /\ wcmd' = wcmd /\ inBuf' = inBuf
          /\ outBuf' = outBuf /\ cur' = cur /\ shutdown' = shutdown /\ mpc' = mpc
          /\ switches' = switches /\ sent' = sent
          /\ late' = late /\ stale' = stale
      BY <2>10 DEF HostFetches, workVars, cmdVars, modeVars
    <3>. QED
      BY <3>1, <3>2, <3>3 DEF TypeOK
  <2>11. CASE ModeStop
    BY <2>11 DEF ModeStop, TypeOK, usbVars, workVars, cmdVars, hostVars, histVars
  <2>12. CASE ModeWait
    <3>1. late' \in BOOLEAN
      BY <2>12 DEF ModeWait, TypeOK
    <3>2. busy' \in BOOLEAN /\ final' \in BOOLEAN /\ mpc' = "stopped"
      BY <2>12 DEF ModeWait
    <3>3. /\ stack' = stack /\ ep' = ep /\ out' = out /\ inx' = inx /\ frame' = frame
          /\ sem' = sem /\ wpc' = wpc /\ active' = active /\ wcmd' = wcmd /\ inBuf' = inBuf
          /\ outBuf' = outBuf /\ cur' = cur /\ shutdown' = shutdown /\ queue' = queue
          /\ switches' = switches /\ sent' = sent /\ waiting' = waiting /\ got' = got
          /\ stale' = stale /\ lost' = lost
      BY <2>12 DEF ModeWait, workVars, cmdVars, hostVars
    <3>. QED
      BY <3>1, <3>2, <3>3 DEF TypeOK
  <2>13. CASE ModeDown
    <3>1. queue' \in Seq(0 .. Wtx)
      BY <2>13 DEF ModeDown
    <3>2. /\ ep' \in BOOLEAN /\ out' \in BOOLEAN /\ inx' = "none" /\ busy' \in BOOLEAN
          /\ final' \in BOOLEAN /\ stack' \in BOOLEAN /\ waiting' \in BOOLEAN
          /\ mpc' = "down"
      BY <2>13 DEF ModeDown, ClosePipe
    <3>. QED
      BY <2>13, <3>1, <3>2 DEF ModeDown, TypeOK, workVars, cmdVars, histVars
  <2>14. CASE ModeUp
    <3>1. late' \in BOOLEAN
      BY <2>14 DEF ModeUp, TypeOK
    <3>2. ep' \in BOOLEAN /\ stack' \in BOOLEAN /\ shutdown' \in BOOLEAN /\ mpc' = "none"
      BY <2>14 DEF ModeUp
    <3>. QED
      BY <2>14, <3>1, <3>2 DEF ModeUp, TypeOK, workVars, cmdVars, hostVars
  <2>15. CASE UNCHANGED vars
    BY <2>15 DEF TypeOK, vars, usbVars, workVars, cmdVars, modeVars, hostVars, histVars
  <2>. QED
    BY <2>1, <2>2, <2>3, <2>4, <2>5, <2>6, <2>7, <2>8, <2>9, <2>10, <2>11, <2>12,
       <2>13, <2>14, <2>15 DEF Next, UsbTask, ModeSwitch
<1>. QED
  BY <1>1, <1>2, PTL DEF Spec
-----------------------------------------------------------------------------
\* No step but those of the mode switch disturbs ModeInv; the others that
\* open the pipe or queue something need a stack, or s_shutdown down.
LEMMA ModeStep == TypeOK /\ ModeInv /\ [Next]_vars => ModeInv'
<1>. SUFFICES ASSUME TypeOK, ModeInv, [Next]_vars PROVE ModeInv'
  OBVIOUS
<1>1. CASE ModeStop
  BY <1>1 DEF ModeStop, ModeInv, usbVars
<1>2. CASE ModeWait
  BY <1>2 DEF ModeWait, ModeInv
<1>3. CASE ModeDown
  BY <1>3 DEF ModeDown, ClosePipe, ModeInv
<1>4. CASE ModeUp
  BY <1>4 DEF ModeUp, ModeInv
<1>5. CASE UsbOpen \/ UsbReset \/ HostXfrBlock \/ HostInline \/ HostRunt
  BY <1>5 DEF UsbOpen, UsbReset, ClosePipe, HostXfrBlock, HostInline, HostRunt, HostSends,
     ModeInv, modeVars
<1>6. CASE UsbWtx \/ UsbFinal \/ HostFetches
  BY <1>6 DEF UsbWtx, UsbFinal, HostFetches, ModeInv, modeVars
<1>7. CASE WorkerWtx \/ WorkerPost
  <2>1. /\ shutdown' = shutdown /\ mpc' = mpc /\ stack' = stack /\ ep' = ep /\ out' = out
        /\ inx' = inx /\ final' = final
    BY <1>7 DEF WorkerWtx, WorkerPost, usbVars, modeVars
  <2>2. shutdown => queue' = queue
    BY <1>7 DEF WorkerWtx, WorkerPost, Defer
  <2>. QED
    BY <2>1, <2>2 DEF ModeInv
<1>8. CASE WorkerTake \/ WorkerMark \/ WorkerRun \/ WorkerConfirmed \/ WorkerReply \/ WorkerDone
  BY <1>8 DEF WorkerTake, WorkerMark, WorkerRun, WorkerConfirmed, WorkerReply, WorkerDone,
     ModeInv, usbVars, modeVars
<1>9. CASE UNCHANGED vars
  BY <1>9 DEF ModeInv, vars, usbVars, modeVars
<1>. QED
  BY <1>1, <1>2, <1>3, <1>4, <1>5, <1>6, <1>7, <1>8, <1>9
     DEF Next, Worker, UsbTask, ModeSwitch

(* A callback is only posted while the stack is up and no mode switch has  *)
(* begun: ccid_defer() against ccid_shutdown(), for any number of pending  *)
(* callbacks.                                                              *)
THEOREM NeverPostedLate == Spec => NoPostToDeadQueue
<1>. Wtx \in Nat
  BY PipeAssumption DEF Wtx
<1>1. Init => ModeInv
  BY DEF Init, ModeInv
<1>2. TypeOK /\ ModeInv /\ [Next]_vars => (Len(queue') > Len(queue) => stack /\ mpc = "none")
  <2>. SUFFICES ASSUME TypeOK, ModeInv, [Next]_vars, ~(stack /\ mpc = "none")
                PROVE  ~(Len(queue') > Len(queue))
    OBVIOUS
  <2>1. Len(queue) \in Nat /\ shutdown
    <3>1. queue \in Seq(0 .. Wtx)
      BY DEF TypeOK
    <3>2. shutdown
      BY DEF ModeInv
    <3>. QED
      BY <3>1, <3>2
  <2>2. CASE UsbWtx
    <3>1. Len(queue') = Len(queue) - 1
      BY <2>2, FinalsTail DEF UsbWtx, TypeOK
    <3>. QED
      BY <2>1, <3>1
  <2>3. CASE UsbFinal
    <3>1. Len(Tail(queue)) = Len(queue) - 1
      BY <2>3, FinalsTail DEF UsbFinal, TypeOK
    <3>2. queue' = Tail(queue)
      BY <2>1, <2>3 DEF UsbFinal
    <3>. QED
      BY <2>1, <3>1, <3>2
  <2>4. CASE ModeDown
    BY <2>1, <2>4 DEF ModeDown
  <2>5. CASE WorkerWtx \/ WorkerPost
    BY <2>1, <2>5 DEF WorkerWtx, WorkerPost, Defer
  <2>6. CASE queue' = queue
    BY <2>1, <2>6
  <2>. QED
    BY <2>2, <2>3, <2>4, <2>5, <2>6
       DEF Next, Worker, UsbTask, ModeSwitch, vars, UsbOpen, UsbReset, HostXfrBlock,
           HostInline, HostRunt, WorkerTake, WorkerMark, WorkerRun, WorkerConfirmed,
           WorkerReply, WorkerDone, HostFetches, ModeStop, ModeWait, ModeUp
<1>3. TypeOK /\ ModeInv /\ [Next]_vars => [Len(queue') > Len(queue) => stack /\ mpc = "none"]_vars
  BY <1>2
<1>. QED
  BY <1>1, <1>3, ModeStep, TypeCorrect, PTL DEF Spec, NoPostToDeadQueue
-----------------------------------------------------------------------------
(* The USB task and the host, the worker, then the callbacks of the queue: *)
(* each step takes the command one place further, or drops it.             *)
LEMMA HostPipe ==
    ASSUME TypeOK, PipeParts,
           UsbOpen \/ HostXfrBlock \/ HostInline \/ HostRunt \/ HostFetches
    PROVE  PipeParts'
<1>1. CASE UsbOpen
  BY <1>1 DEF UsbOpen, PipeParts, OnePlace, Quiet, Contents, OnWire, Pending, AtWork,
     workVars, cmdVars, hostVars
<1>2. CASE HostXfrBlock
  <2>1. ~Pending /\ inx \notin {"final", "zlp"} /\ ~final
    BY <1>2 DEF HostXfrBlock, HostSends, PipeParts, Quiet, OnWire
  <2>. QED
    BY <1>2, <2>1 DEF HostXfrBlock, HostSends, PipeParts, OnePlace, Quiet, Contents, OnWire,
       Pending, AtWork
<1>3. CASE HostInline
  <2>1. ~Pending /\ inx \notin {"final", "zlp"} /\ ~final
    BY <1>3 DEF HostInline, HostSends, PipeParts, Quiet, OnWire
  <2>2. inx' = inx \/ (frame'.seq = sent' /\ frame'.cmd = sent')
    BY <1>3 DEF HostInline
  <2>. QED
    BY <1>3, <2>1, <2>2 DEF HostInline, HostSends, PipeParts, OnePlace, Quiet, Contents, OnWire,
       Pending, AtWork
<1>4. CASE HostRunt
  BY <1>4 DEF HostRunt, PipeParts, OnePlace, Quiet, Contents, OnWire, Pending, AtWork,
     workVars, cmdVars, hostVars
<1>5. CASE HostFetches
  <2>1. /\ sem' = sem /\ wpc' = wpc /\ wcmd' = wcmd /\ inBuf' = inBuf /\ outBuf' = outBuf
        /\ cur' = cur /\ queue' = queue /\ sent' = sent /\ ep' = ep /\ frame' = frame
    BY <1>5 DEF HostFetches, workVars, cmdVars
  <2>2. OnePlace' /\ Contents' /\ (Pending' <=> Pending)
    BY <2>1 DEF PipeParts, OnePlace, Contents, Pending, AtWork
  <2>3. CASE ~final
    BY <1>5, <2>1, <2>2, <2>3 DEF HostFetches, PipeParts, Quiet, OnWire
  <2>4. CASE final /\ NeedsZlp
    <3>1. ~Pending /\ inx = "final" /\ ep /\ waiting /\ ~out
      BY <2>4 DEF PipeParts, OnWire, NeedsZlp
    <3>2. \/ inx' = "zlp" /\ out' = out /\ waiting' = waiting
          \/ inx' = "none" /\ ~final'
      BY <1>5, <2>4 DEF HostFetches, Reprime
    <3>3. CASE inx' = "none" /\ ~final'
      BY <2>2, <3>1, <3>3 DEF PipeParts, Quiet, OnWire
    <3>4. CASE inx' = "zlp" /\ out' = out /\ waiting' = waiting
      BY <2>1, <2>2, <3>1, <3>4 DEF PipeParts, Quiet, OnWire
    <3>. QED
      BY <3>2, <3>3, <3>4
  <2>5. CASE final /\ ~NeedsZlp
    <3>1. ~Pending
      BY <2>5 DEF PipeParts, OnWire
    <3>2. inx' = "none" /\ ~final'
      BY <1>5, <2>5 DEF HostFetches, Reprime
    <3>. QED
      BY <2>2, <3>1, <3>2 DEF PipeParts, Quiet, OnWire
  <2>. QED
    BY <2>3, <2>4, <2>5
<1>. QED
  BY <1>1, <1>2, <1>3, <1>4, <1>5

\* The pipe over each step of the worker's loop.
LEMMA WorkerPipe ==
    ASSUME TypeOK, PipeParts, Worker \/ WorkerWtx
    PROVE  PipeParts'
<1>. Wtx \in Nat /\ 0 # Wtx /\ 0 \in 0 .. Wtx
  BY PipeAssumption DEF Wtx
<1>1. CASE WorkerTake
  BY <1>1 DEF WorkerTake, PipeParts, OnePlace, Quiet, Contents, OnWire, Pending, AtWork,
     usbVars, cmdVars, hostVars
<1>2. CASE WorkerMark
  BY <1>2 DEF WorkerMark, PipeParts, OnePlace, Quiet, Contents, OnWire, Pending, AtWork,
     usbVars, cmdVars, hostVars
<1>3. CASE WorkerRun \/ WorkerConfirmed
  BY <1>3 DEF WorkerRun, WorkerConfirmed, PipeParts, OnePlace, Quiet, Contents, OnWire,
     Pending, AtWork, usbVars, cmdVars, hostVars
<1>4. CASE WorkerReply
  <2>1. inBuf' = <<sent, sent>> /\ Finals(queue) = {} /\ sem # 1
    BY <1>4 DEF WorkerReply, PipeParts, Contents, OnePlace, AtWork
  <2>2. /\ wpc' \in {"done", "post"}
        /\ ep' = ep /\ out' = out /\ inx' = inx /\ final' = final /\ frame' = frame
        /\ sem' = sem /\ queue' = queue /\ sent' = sent /\ waiting' = waiting
    BY <1>4 DEF WorkerReply, hostVars
  <2>. QED
    BY <1>4, <2>1, <2>2 DEF WorkerReply, PipeParts, OnePlace, Quiet, Contents, OnWire,
       Pending, AtWork
<1>5. CASE WorkerPost
  <2>1. /\ ep' = ep /\ out' = out /\ inx' = inx /\ final' = final /\ frame' = frame
        /\ sem' = sem /\ wpc' = "done" /\ wcmd' = wcmd /\ inBuf' = inBuf
        /\ outBuf' = outBuf /\ cur' = cur /\ sent' = sent /\ waiting' = waiting
    BY <1>5 DEF WorkerPost, usbVars, cmdVars, hostVars
  <2>2. Pending /\ sem # 1 /\ Finals(queue) = {} /\ inBuf = <<sent, sent>>
    BY <1>5 DEF WorkerPost, PipeParts, OnePlace, Contents, Pending, AtWork
  <2>3. \A i, j \in Finals(queue') : i = j
    <3>1. queue' = queue \/ queue' = Append(queue, 0)
      BY <1>5 DEF WorkerPost, Defer
    <3>2. queue \in Seq(0 .. Wtx)
      BY DEF TypeOK
    <3>3. Finals(Append(queue, 0)) = {Len(queue) + 1}
      BY <2>2, <3>2, FinalsAppend
    <3>4. Finals(queue') = {} \/ Finals(queue') = {Len(queue) + 1}
      BY <2>2, <3>1, <3>3
    <3>. QED
      BY <3>4
  <2>. QED
    BY <2>1, <2>2, <2>3 DEF PipeParts, OnePlace, Quiet, Contents, OnWire, Pending, AtWork
<1>6. CASE WorkerDone
  BY <1>6 DEF WorkerDone, PipeParts, OnePlace, Quiet, Contents, OnWire, Pending, AtWork,
     usbVars, cmdVars, hostVars
<1>7. CASE WorkerWtx
  <2>1. /\ ep' = ep /\ out' = out /\ inx' = inx /\ final' = final /\ frame' = frame
        /\ sem' = sem /\ wpc' = wpc /\ wcmd' = wcmd /\ inBuf' = inBuf
        /\ outBuf' = outBuf /\ cur' = cur /\ sent' = sent /\ waiting' = waiting
    BY <1>7 DEF WorkerWtx, usbVars, workVars, cmdVars, hostVars
  <2>2. Finals(queue') = Finals(queue)
    <3>1. queue' = queue \/ queue' = Append(queue, Wtx)
      BY <1>7 DEF WorkerWtx, Defer
    <3>2. queue \in Seq(0 .. Wtx) /\ Wtx \in 0 .. Wtx
      BY DEF TypeOK
    <3>. QED
      BY <3>1, <3>2, FinalsAppend
  <2>. QED
    BY <2>1, <2>2 DEF PipeParts, OnePlace, Quiet, Contents, OnWire, Pending, AtWork
<1>. QED
  BY <1>1, <1>2, <1>3, <1>4, <1>5, <1>6, <1>7 DEF Worker

\* The pipe over each callback that usb_task runs.
LEMMA UsbPipe ==
    ASSUME TypeOK, PipeParts, UsbTask
    PROVE  PipeParts'
<1>. Wtx \in Nat
  BY PipeAssumption DEF Wtx
<1>. queue \in Seq(0 .. Wtx) /\ queue # <<>>
  BY DEF TypeOK, UsbTask, UsbWtx, UsbFinal
<1>. DEFINE tail == Tail(queue)
<1>1. tail \in Seq(0 .. Wtx) /\ Head(queue) \in 0 .. Wtx
  BY FinalsTail
<1>2. /\ Head(queue) # Wtx => Finals(queue) # {} /\ Finals(tail) = {}
      /\ Finals(queue) = {} => Finals(tail) = {}
      /\ \A i, j \in Finals(tail) : i = j
  <2>1. \A i, j \in Finals(queue) : i = j
    BY DEF PipeParts, OnePlace
  <2>. QED
    BY <2>1, OneFinal
<1>. HIDE DEF tail
<1>3. CASE UsbWtx
  <2>1. /\ ep' = ep /\ out' = out /\ final' = final /\ frame' = frame /\ queue' = tail
        /\ sem' = sem /\ wpc' = wpc /\ wcmd' = wcmd /\ inBuf' = inBuf
        /\ outBuf' = outBuf /\ cur' = cur /\ sent' = sent /\ waiting' = waiting
    BY <1>3 DEF UsbWtx, workVars, cmdVars, hostVars, tail
  <2>2. inx' \in {inx, "wtx"} /\ (inx' = "wtx" => inx \in {"none", "wtx"})
    BY <1>3 DEF UsbWtx
  <2>3. OnePlace'
    BY <1>2, <2>1 DEF PipeParts, OnePlace, AtWork
  <2>4. Pending' => Pending
    BY <1>2, <2>1 DEF Pending, AtWork
  <2>5. Contents'
    BY <1>2, <2>1 DEF PipeParts, Contents
  <2>. QED
    BY <2>1, <2>2, <2>3, <2>4, <2>5 DEF PipeParts, Quiet, OnWire
<1>4. CASE UsbFinal
  <2>1. /\ ep' = ep /\ out' = out /\ sem' = sem /\ wpc' = wpc /\ wcmd' = wcmd /\ inBuf' = inBuf
        /\ outBuf' = outBuf /\ cur' = cur /\ sent' = sent /\ waiting' = waiting
    BY <1>4 DEF UsbFinal, workVars, cmdVars, hostVars
  <2>2. /\ Finals(queue) # {} /\ Finals(tail) = {} /\ sem # 1 /\ ~AtWork
        /\ inBuf = <<sent, sent>>
        /\ ep /\ waiting /\ ~out /\ inx \notin {"final", "zlp"} /\ ~final
    BY <1>2, <1>4 DEF UsbFinal, PipeParts, OnePlace, Quiet, Contents, OnWire, Pending
  <2>3. CASE inx # "none"
    <3>1. inx' = inx /\ frame' = frame /\ final' = final
      BY <1>4, <2>2, <2>3 DEF UsbFinal
    <3>2. Head(queue) \in Nat /\ Head(queue) # Wtx
      BY <1>1, <1>4 DEF UsbFinal
    <3>3. \A i, j \in Finals(queue') : i = j
      <4>1. CASE queue' = tail
        BY <2>2, <4>1
      <4>2. CASE Head(queue) < MaxRetries /\ queue' = Append(tail, Head(queue) + 1)
        <5>1. Head(queue) + 1 \in 0 .. Wtx /\ Head(queue) + 1 # Wtx
          BY <3>2, <4>2, PipeAssumption DEF Wtx
        <5>2. Finals(queue') = {Len(tail) + 1}
          BY <1>1, <2>2, <4>2, <5>1, FinalsAppend
        <5>. QED
          BY <5>2
      <4>. QED
        BY <1>4, <2>2, <2>3, <4>1, <4>2 DEF UsbFinal, tail
    <3>. QED
      BY <2>1, <2>2, <3>1, <3>3 DEF PipeParts, OnePlace, Quiet, Contents, OnWire, Pending, AtWork
  <2>4. CASE inx = "none"
    <3>1. final' = TRUE /\ inx' \in {"final", "none"} /\ queue' = tail
      BY <1>4, <2>2, <2>4 DEF UsbFinal, tail
    <3>2. inx' = "final" => frame'.seq = sent /\ frame'.cmd = sent
      BY <1>4, <2>2, <2>4 DEF UsbFinal
    <3>. QED
      BY <2>1, <2>2, <3>1, <3>2 DEF PipeParts, OnePlace, Quiet, Contents, OnWire, Pending, AtWork
  <2>. QED
    BY <2>3, <2>4
<1>. QED
  BY <1>3, <1>4 DEF UsbTask
-----------------------------------------------------------------------------
\* A command stays in one place, whatever step is taken.
LEMMA PipeStep == TypeOK /\ ModeInv /\ PipeInv /\ [Next]_vars => PipeInv'
<1>. SUFFICES ASSUME TypeOK, ModeInv, PipeInv, [Next]_vars, ~late', ~stale', mpc' # "down"
              PROVE  PipeParts'
  BY DEF PipeInv
<1>1. CASE UsbOpen \/ HostXfrBlock \/ HostInline \/ HostRunt \/ HostFetches
  <2>1. late' = late /\ stale' = stale /\ mpc' = mpc
    BY <1>1 DEF UsbOpen, HostXfrBlock, HostInline, HostRunt, HostFetches, histVars, modeVars
  <2>. QED
    BY <1>1, <2>1, HostPipe DEF PipeInv
<1>2. CASE Worker \/ WorkerWtx
  <2>1. late' = late /\ stale' = stale /\ mpc' = mpc
    BY <1>2 DEF Worker, WorkerWtx, WorkerTake, WorkerMark, WorkerRun, WorkerConfirmed,
       WorkerReply, WorkerPost, WorkerDone, histVars, modeVars
  <2>. QED
    BY <1>2, <2>1, WorkerPipe DEF PipeInv
<1>3. CASE UsbTask
  <2>1. late' = late /\ stale' = stale /\ mpc' = mpc
    BY <1>3 DEF UsbTask, UsbWtx, UsbFinal, histVars, modeVars
  <2>. QED
    BY <1>3, <2>1, UsbPipe DEF PipeInv
<1>4. CASE UsbReset
  \* Nothing was pending, or `stale' is set.
  <2>1. late' = late /\ ~stale /\ mpc' = mpc
    BY <1>4 DEF UsbReset, modeVars
  <2>2. sem # 1 /\ wpc = "take" /\ queue = <<>>
    BY <1>4 DEF UsbReset
  <2>3. /\ inx' = "none" /\ ~final' /\ sem' = sem /\ wpc' = wpc /\ queue' = queue
    BY <1>4 DEF UsbReset, ClosePipe, workVars
  <2>4. Finals(queue') = {}
    BY <2>2, <2>3 DEF Finals
  <2>. QED
    BY <2>2, <2>3, <2>4 DEF PipeParts, OnePlace, Quiet, Contents, OnWire, Pending, AtWork
<1>5. CASE ModeStop
  BY <1>5 DEF ModeStop, PipeInv, PipeParts, OnePlace, Quiet, Contents, OnWire, Pending, AtWork,
     usbVars, workVars, cmdVars, hostVars, histVars
<1>6. CASE ModeWait
  <2>1. ~late /\ ~stale /\ mpc # "down"
    BY <1>6 DEF ModeWait
  <2>. QED
    BY <1>6, <2>1 DEF ModeWait, PipeInv, PipeParts, OnePlace, Quiet, Contents, OnWire, Pending,
       AtWork, workVars, cmdVars, hostVars
<1>7. CASE ModeDown
  BY <1>7 DEF ModeDown
<1>8. CASE ModeUp
  \* The pipe is closed and empty, and the worker at rest, or `late' is set.
  <2>1. ~out /\ inx = "none" /\ ~final /\ queue = <<>>
    BY <1>8 DEF ModeUp, ModeInv
  <2>2. sem # 1 /\ wpc = "take"
    BY <1>8 DEF ModeUp
  <2>3. /\ inx' = inx /\ final' = final /\ sem' = sem /\ wpc' = wpc /\ queue' = queue
    BY <1>8 DEF ModeUp, workVars
  <2>4. Finals(queue') = {}
    BY <2>1, <2>3 DEF Finals
  <2>. QED
    BY <2>1, <2>2, <2>3, <2>4 DEF PipeParts, OnePlace, Quiet, Contents, OnWire, Pending, AtWork
<1>9. CASE UNCHANGED vars
  BY <1>9 DEF vars, PipeInv, PipeParts, OnePlace, Quiet, Contents, OnWire, Pending, AtWork,
     usbVars, workVars, cmdVars, modeVars, hostVars, histVars
<1>. QED
  BY <1>1, <1>2, <1>3, <1>4, <1>5, <1>6, <1>7, <1>8, <1>9 DEF Next, ModeSwitch

\* At start-up nothing is pending.
LEMMA PipeInit == Init => ModeInv /\ PipeInv
<1>. SUFFICES ASSUME Init PROVE ModeInv /\ PipeInv
  OBVIOUS
<1>1. Finals(queue) = {}
  BY DEF Init, Finals
<1>2. ModeInv
  BY DEF Init, ModeInv
<1>3. sem = 0 /\ wpc = "take" /\ ~final /\ inx = "none"
  BY DEF Init
<1>. QED
  BY <1>1, <1>2, <1>3 DEF PipeInv, PipeParts, OnePlace, Quiet, Contents, OnWire, Pending, AtWork

(* The worker's buffers are its own while it executes a command: neither   *)
(* the OUT read of the next command nor the IN transfer of the last answer *)
(* can touch them.                                                         *)
THEOREM WorkerOwnsBuffers == Spec => []BuffersOwned
<1>1. TypeOK /\ ModeInv /\ PipeInv => BuffersOwned
  <2>. SUFFICES ASSUME ModeInv, PipeInv, ~late, ~stale,
                       wpc \in {"run", "confirm", "reply"}
                PROVE  ~out /\ inx \notin {"final", "zlp"}
    BY DEF BuffersOwned
  <2>1. CASE mpc = "down"
    BY <2>1 DEF ModeInv
  <2>2. CASE mpc # "down"
    BY <2>2 DEF PipeInv, PipeParts, Quiet, Pending, AtWork
  <2>. QED
    BY <2>1, <2>2
<1>. QED
  BY <1>1, PipeInit, ModeStep, PipeStep, TypeCorrect, PTL DEF Spec

(* The host never takes one command's answer for another's: header and     *)
(* content of what it receives are those of the command it waits on, until *)
(* a reset or a mode switch has overtaken the worker.                      *)
THEOREM AnswersPaired == Spec => AnswerMatchesCommand
<1>1. TypeOK /\ ModeInv /\ PipeInv /\ [Next]_vars =>
        [got' # got /\ ~late /\ ~stale => waiting /\ got' = <<sent, sent>>]_vars
  <2>. SUFFICES ASSUME TypeOK, ModeInv, PipeInv, [Next]_vars, got' # got, ~late, ~stale
                PROVE  waiting /\ got' = <<sent, sent>>
    OBVIOUS
  <2>1. HostFetches
    BY DEF Next, Worker, UsbTask, ModeSwitch, vars, hostVars, UsbOpen, UsbReset, HostXfrBlock,
       HostInline, HostRunt, WorkerTake, WorkerMark, WorkerRun, WorkerConfirmed, WorkerReply,
       WorkerPost, WorkerDone, WorkerWtx, UsbWtx, UsbFinal, ModeStop, ModeWait, ModeDown, ModeUp
  <2>2. inx \in {"final", "zlp"} /\ got' = <<frame.seq, frame.cmd>>
    BY <2>1 DEF HostFetches
  <2>3. mpc # "down"
    BY <2>1 DEF HostFetches, ModeInv
  <2>. QED
    BY <2>2, <2>3 DEF PipeInv, PipeParts, OnWire
<1>. QED
  BY <1>1, PipeInit, ModeStep, PipeStep, TypeCorrect, PTL DEF Spec, AnswerMatchesCommand
-----------------------------------------------------------------------------
(* The refinement, one lemma for each kind of step.  A step of the slot    *)
(* needs no more than these values.                                        *)
LEMMA Keeps ==
    ASSUME waiting' = waiting, sent' = sent, got' = got, late' = late, stale' = stale,
           sem' = sem,
           \/ wpc' = wpc
           \/ {wpc, wpc'} \subseteq {"mark", "run", "confirm", "reply"}
           \/ {wpc, wpc'} \subseteq {"take", "post", "done"}
    PROVE  UNCHANGED Slot!slotVars
  BY DEF phaseBar, Slot!slotVars

\* What is not on its way to the worker, nor with it, is done or given up.
LEMMA NotAsked ==
    ASSUME TypeOK, PipeParts, inx \in {"final", "zlp"}
    PROVE  phaseBar = "done"
  BY DEF PipeParts, OnWire, Quiet, Pending, AtWork, phaseBar

\* The host asks, or fetches what ends its command.
LEMMA HostSlot ==
    ASSUME TypeOK, ModeInv, PipeInv, ~late, ~stale,
           HostXfrBlock \/ HostInline \/ HostFetches
    PROVE  [Slot!SlotNext]_(Slot!slotVars)
<1>1. CASE HostXfrBlock
  <2>1. Slot!Ask
    <3>1. /\ ~waiting /\ waiting' /\ sem' = 1 /\ sent' = sent + 1 /\ got' = got
          /\ late' = late /\ stale' = stale
      BY <1>1 DEF HostXfrBlock, HostSends, histVars
    <3>. QED
      BY <3>1 DEF Slot!Ask, phaseBar
  <2>. QED
    BY <2>1 DEF Slot!SlotNext
<1>2. CASE HostInline
  <2>1. Slot!Ask
    <3>1. /\ ~waiting /\ waiting' /\ sent' = sent + 1 /\ got' = got
          /\ late' = late /\ stale' = stale
      BY <1>2 DEF HostInline, HostSends, histVars
    <3>. QED
      BY <3>1 DEF Slot!Ask, phaseBar
  <2>. QED
    BY <2>1 DEF Slot!SlotNext
<1>3. CASE HostFetches
  <2>1. /\ sent' = sent /\ late' = late /\ stale' = stale /\ sem' = sem /\ wpc' = wpc
        /\ mpc # "down"
    BY <1>3 DEF HostFetches, workVars, histVars, ModeInv
  <2>2. PipeParts
    BY <2>1 DEF PipeInv
  <2>3. CASE waiting' = waiting /\ got' = got
    BY <2>1, <2>3, Keeps
  <2>4. CASE /\ inx \in {"final", "zlp"} /\ ~waiting' /\ got' = <<frame.seq, frame.cmd>>
    <3>1. waiting
      BY <2>2, <2>4 DEF PipeParts, OnWire
    <3>2. frame.seq = sent /\ frame.cmd = sent
      BY <2>2, <2>4 DEF PipeParts, OnWire
    <3>3. phaseBar = "done" /\ phaseBar' = "idle"
      BY <2>2, <2>4, NotAsked DEF phaseBar
    <3>4. Slot!Tell
      BY <2>1, <2>4, <3>2, <3>3 DEF Slot!Tell
    <3>. QED
      BY <3>4 DEF Slot!SlotNext
  <2>. QED
    BY <1>3, <2>3, <2>4 DEF HostFetches
<1>. QED
  BY <1>1, <1>2, <1>3

\* The worker takes the command, executes it, and gives its answer away.
LEMMA WorkerSlot ==
    ASSUME TypeOK, ModeInv, PipeInv, ~late, ~stale, Worker \/ WorkerWtx
    PROVE  [Slot!SlotNext]_(Slot!slotVars)
<1>1. /\ waiting' = waiting /\ sent' = sent /\ got' = got
      /\ late' = late /\ stale' = stale
  BY DEF Worker, WorkerWtx, WorkerTake, WorkerMark, WorkerRun, WorkerConfirmed, WorkerReply,
     WorkerPost, WorkerDone, hostVars, histVars
<1>2. CASE WorkerTake
  <2>1. phaseBar' = phaseBar
    BY <1>1, <1>2 DEF WorkerTake, phaseBar
  <2>. QED
    BY <1>1, <2>1 DEF Slot!slotVars
<1>3. CASE WorkerReply
  <2>1. wpc = "reply" /\ wpc' \in {"post", "done"} /\ sem' = sem
    BY <1>3 DEF WorkerReply
  <2>2. CASE ~waiting \/ sem = 1
    <3>1. phaseBar' = phaseBar
      BY <1>1, <2>1, <2>2 DEF phaseBar
    <3>. QED
      BY <1>1, <3>1 DEF Slot!slotVars
  <2>3. CASE waiting /\ sem # 1
    <3>1. phaseBar = "asked" /\ phaseBar' = "done"
      BY <1>1, <2>1, <2>3 DEF phaseBar
    <3>2. Slot!Execute
      BY <1>1, <3>1 DEF Slot!Execute
    <3>. QED
      BY <3>2 DEF Slot!SlotNext
  <2>. QED
    BY <2>2, <2>3
<1>4. CASE WorkerMark \/ WorkerRun \/ WorkerConfirmed \/ WorkerPost \/ WorkerDone \/ WorkerWtx
  <2>1. /\ sem' = sem
        /\ \/ wpc' = wpc
           \/ {wpc, wpc'} \subseteq {"mark", "run", "confirm", "reply"}
           \/ {wpc, wpc'} \subseteq {"take", "post", "done"}
    BY <1>4 DEF WorkerMark, WorkerRun, WorkerConfirmed, WorkerPost, WorkerDone, WorkerWtx, workVars
  <2>. QED
    BY <1>1, <2>1, Keeps
<1>. QED
  BY <1>2, <1>3, <1>4 DEF Worker

\* A reset and a torn-down stack end the host's wait.
LEMMA GiveUpSlot ==
    ASSUME ~waiting', sent' = sent, got' = got, (late' \/ stale') = (late \/ stale)
    PROVE  [Slot!SlotNext]_(Slot!slotVars)
<1>1. phaseBar' = "idle"
  BY DEF phaseBar
<1>2. Slot!GiveUp
  BY <1>1 DEF Slot!GiveUp
<1>. QED
  BY <1>2 DEF Slot!SlotNext

\* What has once overtaken the worker is remembered.
LEMMA HistoryGrows ==
    ASSUME [Next]_vars
    PROVE  (late => late') /\ (stale => stale')
<1>1. CASE UsbReset \/ ModeWait \/ ModeUp
  <2>1. late' = late \/ late' = (late \/ ~WorkerAtRest) \/ late' = (late \/ wpc # "take" \/ sem = 1)
    BY <1>1 DEF UsbReset, ModeWait, ModeUp
  <2>2. stale' = stale \/ stale' = (stale \/ sem = 1 \/ wpc # "take" \/ queue # <<>>)
    BY <1>1 DEF UsbReset, ModeWait, ModeUp
  <2>3. late => late'
    BY <2>1, Zenon
  <2>4. stale => stale'
    BY <2>2, Zenon
  <2>. QED
    BY <2>3, <2>4
<1>2. CASE UsbFinal
  BY <1>2 DEF UsbFinal
<1>3. CASE late' = late /\ stale' = stale
  BY <1>3
<1>4. CASE Worker \/ WorkerWtx
  BY <1>3, <1>4 DEF Worker, WorkerWtx, WorkerTake, WorkerMark, WorkerRun, WorkerConfirmed,
     WorkerReply, WorkerPost, WorkerDone, histVars
<1>. QED
  BY <1>1, <1>2, <1>3, <1>4
     DEF Next, UsbTask, ModeSwitch, vars, histVars, UsbOpen, HostXfrBlock, HostInline,
         HostRunt, UsbWtx, HostFetches, ModeStop, ModeDown

(* The transport implements its slot: every command is executed once and   *)
(* told once, in the host's order, for any number of commands, retries of  *)
(* the answer, time extensions and mode switches.                          *)
THEOREM SlotImplemented == Spec => OneAnswerPerCommand
<1>1. Init => Slot!SlotInit
  BY DEF Init, Slot!SlotInit, phaseBar
<1>2. TypeOK /\ ModeInv /\ PipeInv /\ [Next]_vars => [Slot!SlotNext]_(Slot!slotVars)
  <2>. SUFFICES ASSUME TypeOK, ModeInv, PipeInv, [Next]_vars
                PROVE  [Slot!SlotNext]_(Slot!slotVars)
    OBVIOUS
  <2>1. CASE late' \/ stale'
    BY <2>1 DEF Slot!SlotNext, Slot!Overtaken
  <2>2. CASE ~late' /\ ~stale'
    <3>1. ~late /\ ~stale
      BY <2>2, HistoryGrows
    <3>2. CASE HostXfrBlock \/ HostInline \/ HostFetches
      BY <3>1, <3>2, HostSlot
    <3>3. CASE Worker \/ WorkerWtx
      BY <3>1, <3>3, WorkerSlot
    <3>4. CASE UsbReset \/ ModeDown
      <4>1. ~waiting' /\ sent' = sent /\ got' = got
        BY <3>4 DEF UsbReset, ModeDown
      <4>2. (late' \/ stale') = (late \/ stale)
        BY <2>2, <3>1
      <4>. QED
        BY <4>1, <4>2, GiveUpSlot
    <3>5. CASE UsbOpen \/ HostRunt \/ UsbTask \/ ModeStop \/ ModeWait \/ ModeUp \/ UNCHANGED vars
      <4>1. /\ waiting' = waiting /\ sent' = sent /\ got' = got
            /\ sem' = sem /\ wpc' = wpc
        BY <3>5 DEF UsbOpen, HostRunt, UsbTask, UsbWtx, UsbFinal, ModeStop, ModeWait, ModeUp,
           vars, hostVars, workVars
      <4>2. phaseBar' = phaseBar /\ (late' \/ stale') = (late \/ stale)
        BY <2>2, <3>1, <4>1 DEF phaseBar
      <4>. QED
        BY <4>1, <4>2 DEF Slot!slotVars
    <3>. QED
      BY <3>2, <3>3, <3>4, <3>5 DEF Next, ModeSwitch
  <2>. QED
    BY <2>1, <2>2
<1>. QED
  BY <1>1, <1>2, PipeInit, ModeStep, PipeStep, TypeCorrect, PTL
     DEF Spec, OneAnswerPerCommand, Slot!SlotSpec
=============================================================================
