---------------------------- MODULE StorageProofs ----------------------------
(***************************************************************************)
(* Proofs about the mass storage: for any size of sector, card and buffer, *)
(* any offset, and the console probing at any moment.                      *)
(***************************************************************************)
EXTENDS Storage, TLAPS, FiniteSetTheorems

\* The states of usb_task and of the console.
Jobs == {"direct", "put", "fetch"}          \* in an access to the card
Early == {"idle", "present", "size", "size of", "count", "count of"}
Probing == {"release", "attempt", "card init"}

\* The types of the card and of who uses it.
CardOK ==
    /\ heap \in [Blocks -> {"free", "init", "ready"}] /\ card \in Blocks \cup {Null}
    /\ host \in BOOLEAN /\ pwr \in BOOLEAN /\ path \in {"unknown", "external", "ldo"}
    /\ lock \in Holders \cup {Null}
    /\ cpc \in {"idle", "bench", "probe"} \cup Probing
    /\ attempt \in {"none", "external", "ldo"}
    /\ upc \in Early \cup {"span", "merge"} \cup Jobs \cup Senses
    /\ stale \in BOOLEAN

\* Who holds s_lock is in an access, or in a command of the console.
LockInv ==
    /\ lock = "console" <=> cpc # "idle"
    /\ lock = "usb" <=> upc \in Jobs

\* Every block but s_card's is free.
HeapInv == \A b \in Blocks : heap[b] # "free" => b = card

\* What the probe has and has not, at each of its steps.
PowerInv ==
    /\ cpc \notin Probing =>
         /\ (card # Null) = host /\ host = (path # "unknown") /\ pwr = (path = "ldo")
         /\ card # Null => heap[card] = "ready"
         /\ attempt = "none"
    /\ cpc = "release" => \A b \in Blocks : heap[b] = "free"
    /\ cpc = "attempt" => /\ card = Null /\ ~host /\ ~pwr /\ path = "unknown"
                          /\ attempt # "none"
    /\ cpc = "card init" => /\ card # Null /\ host /\ pwr = (attempt = "ldo")
                            /\ path = "unknown" /\ attempt # "none"
-----------------------------------------------------------------------------
\* The types of a transfer, for every medium and buffer.
TransferOK ==
    /\ DOMAIN medium = 0 .. Capacity - 1 /\ DOMAIN buf = 0 .. MaxBuf - 1
    /\ BounceSize \in Nat /\ DOMAIN bounce = 0 .. BounceSize - 1
    /\ cmd \in [n : Nat, write : BOOLEAN, lba : Nat, offset : Nat, len : 0 .. MaxBuf,
                dma : BOOLEAN]
    /\ ptr \in Blocks \cup {Null} /\ ss \in Nat /\ addr \in Nat

\* The geometry that the transfer read is the medium's.
GeometryOK == ss = SectorSize /\ SectorSize =< BounceSize

\* The states of a transfer that has cut at least one span.
Spanning == {"span", "merge", "ok"} \cup Jobs

\* The iterator stays in the request, and in the medium unless ss is stale.
SpanInv ==
    /\ upc \in Early => addr = 0
    /\ upc \in {"idle", "present"} => ~stale
    /\ upc \in {"count", "count of"} => ss # 0 /\ (~stale => GeometryOK)
    /\ upc \in Spanning \/ addr # 0 =>
         /\ ss # 0 /\ First =< addr /\ addr =< End
         /\ ~stale => GeometryOK /\ End =< Capacity
    /\ upc \in {"merge"} \cup Jobs => addr < End
    /\ upc = "ok" => addr = End

\* What has been moved is the same on the medium and in the buffer.
MovedInv ==
    ~stale => \A i \in 0 .. Done - 1 : buf[i] = medium[First + i]

\* A sector with the bytes of the span in it.
Patched(i) == IF i \in InSector .. InSector + Bytes - 1 THEN buf[Done + i - InSector]
              ELSE medium[Sector * SectorSize + i]

\* What the bounce buffer holds between two accesses.
BounceInv ==
    ~stale =>
      /\ upc = "direct" => Direct
      /\ upc \in {"fetch", "put", "merge"} => ~Direct
      /\ upc = "fetch" => (cmd.write => ~Whole)
      /\ upc \in {"merge", "put"} => cmd.write
      /\ upc = "merge" =>
           /\ ~Whole
           /\ \A i \in 0 .. SectorSize - 1 : bounce[i] = medium[Sector * SectorSize + i]
      /\ upc = "put" => \A i \in 0 .. SectorSize - 1 : bounce[i] = Patched(i)
-----------------------------------------------------------------------------
(* The card and the lock.  usb_task leaves the card alone; it gives the    *)
(* lock back as soon as it leaves an access.                               *)
LEMMA UsbCard ==
    ASSUME CardOK, LockInv, MscDiskInit \/ HostAsks \/ Usb
    PROVE  /\ upc' \in Early \cup {"span", "merge"} \cup Jobs \cup Senses /\ stale' \in BOOLEAN
           /\ lock' \in Holders \cup {Null} /\ LockInv'
           /\ UNCHANGED <<card, heap, host, pwr, path, cpc, attempt>>
<1>. USE NullAssumption DEF Holders
<1>1. CASE MscDiskInit \/ HostAsks
  BY <1>1 DEF MscDiskInit, HostAsks, cardVars, usbVars, consVars, CardOK, LockInv, Early, Jobs
<1>2. CASE UsbPresent \/ UsbLoad
  BY <1>2 DEF UsbPresent, UsbLoad, Answers, cardVars, consVars, CardOK, LockInv, Early, Jobs,
     Senses
<1>3. CASE UsbSize \/ UsbCount
  <2>1. /\ upc' \in {"medium error", "illegal request", "count", "span"}
        /\ upc \notin Jobs /\ lock' = lock
    BY <1>3 DEF UsbSize, UsbCount, Answers, Jobs
  <2>2. stale' \in BOOLEAN
    BY <1>3 DEF UsbSize, UsbCount, CardOK
  <2>3. UNCHANGED <<card, heap, host, pwr, path, cpc, attempt>>
    BY <1>3 DEF UsbSize, UsbCount, cardVars, consVars
  <2>. QED
    BY <2>1, <2>2, <2>3 DEF CardOK, LockInv, Early, Jobs, Senses
<1>4. CASE UsbDone \/ UsbReturns
  <2>1. upc' \in {"ok", "idle"} /\ upc \notin Jobs /\ lock' = lock
    BY <1>4 DEF UsbDone, UsbReturns, Answers, Answered, Jobs, Senses
  <2>2. stale' \in BOOLEAN
    BY <1>4 DEF UsbDone, UsbReturns, CardOK
  <2>3. UNCHANGED <<card, heap, host, pwr, path, cpc, attempt>>
    BY <1>4 DEF UsbDone, UsbReturns, cardVars, consVars
  <2>. QED
    BY <2>1, <2>2, <2>3 DEF CardOK, LockInv, Early, Jobs, Senses
<1>5. CASE UsbTake
  <2>1. upc' \in Jobs /\ lock = Null /\ lock' = "usb" /\ stale' = stale
    BY <1>5 DEF UsbTake, Job, Jobs
  <2>2. UNCHANGED <<card, heap, host, pwr, path, cpc, attempt>>
    BY <1>5 DEF UsbTake, cardVars, consVars
  <2>. QED
    BY <2>1, <2>2 DEF CardOK, LockInv
<1>6. CASE UsbRead
  <2>1. upc' \in {"medium error", "span", "merge"} /\ upc \in Jobs /\ lock' = Null
    BY <1>6 DEF UsbRead, UsbFails, Answers, Advances, Jobs
  <2>2. UNCHANGED <<card, heap, host, pwr, path, cpc, attempt, stale>>
    BY <1>6 DEF UsbRead, cardVars, consVars
  <2>. QED
    BY <2>1, <2>2 DEF CardOK, LockInv, Jobs, Senses
<1>7. CASE UsbWrite
  <2>1. upc' \in {"medium error", "span"} /\ upc \in Jobs /\ lock' = Null
    BY <1>7 DEF UsbWrite, UsbFails, Answers, Advances, Jobs
  <2>2. UNCHANGED <<card, heap, host, pwr, path, cpc, attempt, stale>>
    BY <1>7 DEF UsbWrite, cardVars, consVars
  <2>. QED
    BY <2>1, <2>2 DEF CardOK, LockInv, Jobs, Senses
<1>. QED
  BY <1>1, <1>2, <1>3, <1>4, <1>5, <1>6, <1>7 DEF Usb

\* What a command of the console leaves alone of a transfer.
LEMMA ConsoleSteps ==
    Console => UNCHANGED <<medium, bounce, usbVars, stale>>
  BY DEF Console, ConsoleTake, ConsoleBench, ConsoleFree, ConsoleRelease, ConsoleNoLdo,
     ConsoleNoHost, ConsoleAlloc, ConsoleCardInit, cardVars

\* The card over each step of the console.
LEMMA ConsoleCard ==
    ASSUME CardOK, LockInv, HeapInv, PowerInv, Console
    PROVE  CardOK' /\ LockInv' /\ HeapInv' /\ PowerInv'
<1>. USE NullAssumption, StorageAssumption DEF Holders
<1>. upc' = upc /\ stale' = stale
  BY ConsoleSteps DEF usbVars
<1>1. CASE ConsoleTake
  BY <1>1 DEF ConsoleTake, cardVars, CardOK, LockInv, HeapInv, PowerInv, Probing
<1>2. CASE ConsoleBench
  BY <1>2 DEF ConsoleBench, Give, cardVars, CardOK, LockInv, HeapInv, PowerInv, Probing
<1>3. CASE ConsoleFree
  <2>1. heap' \in [Blocks -> {"free", "init", "ready"}] /\ \A b \in Blocks : heap'[b] = "free"
    BY <1>3 DEF ConsoleFree, CardOK, HeapInv
  <2>. QED
    BY <1>3, <2>1 DEF ConsoleFree, CardOK, LockInv, HeapInv, PowerInv, Probing
<1>4. CASE ConsoleRelease
  <2>1. /\ card' = Null /\ host' = FALSE /\ pwr' = FALSE /\ path' = "unknown" /\ heap' = heap
        /\ \A b \in Blocks : heap'[b] = "free"
    BY <1>4 DEF ConsoleRelease, Released, PowerInv
  <2>2. CASE attempt = "none"
    BY <1>4, <2>1, <2>2 DEF ConsoleRelease, Give, CardOK, LockInv, HeapInv, PowerInv, Probing
  <2>3. CASE attempt # "none"
    BY <1>4, <2>1, <2>3 DEF ConsoleRelease, CardOK, LockInv, HeapInv, PowerInv, Probing
  <2>. QED
    BY <2>2, <2>3
<1>5. CASE ConsoleNoLdo
  BY <1>5 DEF ConsoleNoLdo, Give, cardVars, CardOK, LockInv, HeapInv, PowerInv, Probing
<1>6. CASE ConsoleNoHost
  <2>1. \A b \in Blocks : heap[b] = "free"
    BY <1>6 DEF ConsoleNoHost, CardOK, HeapInv, PowerInv
  <2>2. attempt' \in {"none", "external", "ldo"} /\ pwr' \in BOOLEAN
    BY <1>6 DEF ConsoleNoHost, NextPath
  <2>. QED
    BY <1>6, <2>1, <2>2 DEF ConsoleNoHost, CardOK, LockInv, HeapInv, PowerInv, Probing
<1>7. CASE ConsoleAlloc
  <2>1. \A b \in Blocks : heap[b] = "free"
    BY <1>7 DEF ConsoleAlloc, CardOK, HeapInv, PowerInv
  <2>2. PICK b \in Blocks : card' = b /\ heap' = [heap EXCEPT ![b] = "init"]
    BY <1>7 DEF ConsoleAlloc
  <2>3. /\ heap' \in [Blocks -> {"free", "init", "ready"}]
        /\ \A c \in Blocks : heap'[c] # "free" => c = card'
    BY <2>1, <2>2 DEF CardOK
  <2>4. card' \in Blocks /\ card' # Null
    BY <2>2
  <2>5. pwr' \in BOOLEAN /\ pwr' = (attempt = "ldo") /\ host' = TRUE
    BY <1>7 DEF ConsoleAlloc
  <2>6. /\ lock' = lock /\ path' = path /\ attempt' = attempt /\ cpc = "attempt"
        /\ cpc' = "card init"
    BY <1>7 DEF ConsoleAlloc
  <2>7. attempt # "none" /\ path = "unknown"
    BY <2>6 DEF PowerInv
  <2>8. CardOK'
    BY <2>3, <2>4, <2>5, <2>6 DEF CardOK, Probing
  <2>9. LockInv' /\ HeapInv'
    BY <2>3, <2>6 DEF LockInv, HeapInv
  <2>10. PowerInv'
    BY <2>4, <2>5, <2>6, <2>7 DEF PowerInv, Probing
  <2>. QED
    BY <2>8, <2>9, <2>10
<1>8. CASE ConsoleCardInit
  <2>1. /\ card \in Blocks /\ host /\ pwr = (attempt = "ldo") /\ attempt # "none"
        /\ path = "unknown" /\ cpc = "card init"
    BY <1>8 DEF ConsoleCardInit, PowerInv, CardOK
  <2>2. \A f \in {"free", "ready"} :
          /\ [heap EXCEPT ![card] = f] \in [Blocks -> {"free", "init", "ready"}]
          /\ [heap EXCEPT ![card] = f][card] = f
          /\ \A b \in Blocks \ {card} : [heap EXCEPT ![card] = f][b] = "free"
    BY <2>1 DEF CardOK, HeapInv
  <2>3. UNCHANGED <<card, host, pwr>>
    BY <1>8 DEF ConsoleCardInit
  <2>4. CASE heap' = [heap EXCEPT ![card] = "ready"] /\ path' = attempt /\ Give
    BY <2>1, <2>2, <2>3, <2>4 DEF Give, CardOK, LockInv, HeapInv, PowerInv, Probing
  <2>5. CASE /\ heap' = [heap EXCEPT ![card] = "free"]
             /\ cpc' = "release" /\ attempt' = NextPath
             /\ UNCHANGED <<lock, path>>
    <3>1. attempt' \in {"none", "external", "ldo"}
      BY <2>5 DEF NextPath
    <3>. QED
      BY <2>1, <2>2, <2>3, <2>5, <3>1 DEF CardOK, LockInv, HeapInv, PowerInv, Probing
  <2>. QED
    BY <1>8, <2>4, <2>5 DEF ConsoleCardInit
<1>. QED
  BY <1>1, <1>2, <1>3, <1>4, <1>5, <1>6, <1>7, <1>8 DEF Console

\* Together: the card's invariant is inductive.
LEMMA CardStep ==
    CardOK /\ LockInv /\ HeapInv /\ PowerInv /\ [Next]_vars
      => CardOK' /\ LockInv' /\ HeapInv' /\ PowerInv'
<1>. SUFFICES ASSUME CardOK, LockInv, HeapInv, PowerInv, [Next]_vars
              PROVE  CardOK' /\ LockInv' /\ HeapInv' /\ PowerInv'
  OBVIOUS
<1>1. CASE MscDiskInit \/ HostAsks \/ Usb
  <2>1. /\ upc' \in Early \cup {"span", "merge"} \cup Jobs \cup Senses /\ stale' \in BOOLEAN
        /\ lock' \in Holders \cup {Null} /\ LockInv'
        /\ UNCHANGED <<card, heap, host, pwr, path, cpc, attempt>>
    BY <1>1, UsbCard
  <2>. QED
    BY <2>1 DEF CardOK, HeapInv, PowerInv
<1>2. CASE Console
  BY <1>2, ConsoleCard
<1>3. CASE UNCHANGED vars
  <2>1. UNCHANGED <<card, heap, host, pwr, path, lock, cpc, attempt, upc, stale>>
    BY <1>3 DEF vars, cardVars, usbVars, consVars
  <2>2. CardOK' /\ LockInv' /\ HeapInv'
    BY <2>1 DEF CardOK, LockInv, HeapInv
  <2>3. PowerInv'
    BY <2>1 DEF PowerInv
  <2>. QED
    BY <2>2, <2>3
<1>. QED
  BY <1>1, <1>2, <1>3 DEF Next

\* At start-up.
LEMMA CardInit == Init => CardOK /\ LockInv /\ HeapInv /\ PowerInv
<1>. SUFFICES ASSUME Init PROVE CardOK /\ LockInv /\ HeapInv /\ PowerInv
  OBVIOUS
<1>. USE NullAssumption, StorageAssumption
<1>1. /\ lock = Null /\ upc = "idle" /\ cpc = "idle" /\ attempt = "none" /\ stale = FALSE
  BY DEF Init
<1>2. CASE /\ card \in Blocks
           /\ heap = [b \in Blocks |-> IF b = card THEN "ready" ELSE "free"]
           /\ host = TRUE /\ path \in {"external", "ldo"} /\ pwr = (path = "ldo")
  BY <1>1, <1>2 DEF CardOK, LockInv, HeapInv, PowerInv, Holders, Early, Jobs, Probing
<1>3. CASE /\ card = Null /\ heap = [b \in Blocks |-> "free"]
           /\ host = FALSE /\ pwr = FALSE /\ path = "unknown"
  BY <1>1, <1>3 DEF CardOK, LockInv, HeapInv, PowerInv, Holders, Early, Jobs, Probing
<1>. QED
  BY <1>2, <1>3 DEF Init

(* Whichever step of a probe fails, and wherever it is repeated: between   *)
(* two commands a known card has its host and its power path, and without  *)
(* one nothing stays powered (sd_probe(), probe_once(), release()).        *)
THEOREM PowerIsRight == Spec => []PowerFollowsCard
<1>1. PowerInv => PowerFollowsCard
  BY DEF PowerInv, PowerFollowsCard, Probing
<1>. QED
  BY <1>1, CardInit, CardStep, PTL DEF Spec
-----------------------------------------------------------------------------
(* The arithmetic of msc_lba.c, for any size of sector.                    *)
LEMMA DivMod ==
    ASSUME NEW a \in Nat, NEW d \in Nat \ {0}
    PROVE  /\ a \div d \in Nat /\ a % d \in 0 .. d - 1
           /\ a = (a \div d) * d + (a % d)
           /\ d =< a => a \div d # 0
           /\ (a \div d) * d =< a
<1>1. a \div d \in Int /\ a % d \in 0 .. d - 1 /\ a = d * (a \div d) + (a % d)
  OBVIOUS
<1>. DEFINE q == a \div d  r == a % d
<1>2. q \in Int /\ r \in 0 .. d - 1 /\ a = d * q + r
  BY <1>1
<1>. HIDE DEF q, r
<1>3. d * q = q * d /\ q * d \in Int
  BY <1>2
<1>4. q >= 0
  <2>1. SUFFICES ASSUME q =< -1 PROVE FALSE
    BY <1>2
  <2>2. d * q =< d * (-1)
    BY <1>2, <2>1
  <2>. QED
    BY <1>2, <2>2
<1>5. d =< a => q # 0
  BY <1>2
<1>6. q * d =< a /\ a = q * d + r
  BY <1>2, <1>3
<1>. QED
  BY <1>2, <1>4, <1>5, <1>6 DEF q, r

\* The least and the greatest of two numbers.
LEMMA Least ==
    ASSUME NEW a \in Nat, NEW b \in Nat
    PROVE  /\ Min({a, b}) = IF a =< b THEN a ELSE b
           /\ Max({a, b}) = IF a =< b THEN b ELSE a
<1>1. PICK m \in {a, b} : \A y \in {a, b} : m =< y
  OBVIOUS
<1>2. PICK n \in {a, b} : \A y \in {a, b} : n >= y
  OBVIOUS
<1>3. Min({a, b}) \in {a, b} /\ \A y \in {a, b} : Min({a, b}) =< y
  BY <1>1 DEF Min
<1>4. Max({a, b}) \in {a, b} /\ \A y \in {a, b} : Max({a, b}) >= y
  BY <1>2 DEF Max
<1>. QED
  BY <1>3, <1>4

\* A span lies in the request, and in the sectors it names.
LEMMA Span ==
    ASSUME TransferOK, ss # 0, First =< addr, addr < End
    PROVE  /\ Sector \in Nat /\ InSector \in 0 .. ss - 1 /\ addr = Sector * ss + InSector
           /\ Sectors \in Nat \ {0} /\ Bytes \in Nat \ {0} /\ addr + Bytes =< End
           /\ Direct => Whole
           /\ Whole => InSector = 0 /\ Bytes = Sectors * ss
           /\ ~Direct => Sectors = 1 /\ InSector + Bytes =< ss
<1>. /\ ss \in Nat \ {0} /\ addr \in Nat /\ cmd.lba \in Nat /\ cmd.offset \in Nat
     /\ cmd.len \in Nat
  BY DEF TransferOK
<1>1. First \in Nat /\ End \in Nat
  <2>1. cmd.lba * ss \in Nat
    OBVIOUS
  <2>. QED
    BY <2>1 DEF First, End
<1>2. Sector \in Nat /\ InSector \in 0 .. ss - 1 /\ addr = Sector * ss + InSector
  BY DivMod DEF Sector, InSector
<1>. DEFINE left == End - addr
<1>3. left \in Nat \ {0}
  BY <1>1
<1>4. left \div ss \in Nat /\ (ss =< left => left \div ss # 0) /\ (left \div ss) * ss =< left
  BY <1>3, DivMod
<1>5. Direct => Whole
  BY DEF Direct
<1>6. CASE Direct
  <2>1. Sectors = left \div ss /\ InSector = 0 /\ ss =< left
    BY <1>6 DEF Sectors, Direct, Whole
  <2>2. Bytes = Sectors * ss
    BY <1>5, <1>6 DEF Bytes
  <2>3. Sectors \in Nat \ {0} /\ Sectors * ss =< left /\ Sectors * ss \in Nat \ {0}
    BY <1>4, <2>1
  <2>. QED
    BY <1>1, <1>2, <1>5, <1>6, <2>1, <2>2, <2>3
<1>7. CASE ~Direct /\ Whole
  <2>1. Sectors = 1 /\ InSector = 0 /\ ss =< left /\ Bytes = Sectors * ss
    BY <1>7 DEF Sectors, Whole, Bytes
  <2>2. Bytes = ss
    BY <2>1
  <2>. QED
    BY <1>1, <1>2, <1>5, <1>7, <2>1, <2>2
<1>8. CASE ~Direct /\ ~Whole
  <2>1. Sectors = 1 /\ Bytes = Min({ss - InSector, left})
    BY <1>8 DEF Sectors, Bytes
  <2>2. ss - InSector \in Nat \ {0}
    BY <1>2
  <2>3. Bytes \in {ss - InSector, left} /\ Bytes =< ss - InSector /\ Bytes =< left
    BY <1>3, <2>1, <2>2, Least
  <2>. QED
    BY <1>1, <1>2, <1>3, <1>5, <1>8, <2>1, <2>2, <2>3
<1>. QED
  BY <1>5, <1>6, <1>7, <1>8
-----------------------------------------------------------------------------
\* The size of a buffer of n bytes.
LEMMA Sized ==
    ASSUME NEW n \in Nat, NEW f, DOMAIN f = 0 .. n - 1
    PROVE  Cardinality(DOMAIN f) = n
<1>1. Cardinality(0 .. n - 1) = IF 0 > n - 1 THEN 0 ELSE (n - 1) - 0 + 1
  BY FS_Interval
<1>. QED
  BY <1>1

\* The bounce buffer when nothing of it changes.
LEMMA SameBounce ==
    ASSUME DOMAIN bounce' = DOMAIN bounce PROVE BounceSize' = BounceSize
  BY DEF BounceSize

\* The fields of a card are numbers, and the medium's unless the card is freed.
LEMMA Fields ==
    ASSUME CardOK, TransferOK, NEW real \in Nat, NEW f \in FieldOf(ptr, real)
    PROVE  /\ f \in Nat
           /\ f # 0 /\ ~Dangling => f = real
<1>1. CASE ptr = Null
  BY <1>1 DEF FieldOf
<1>2. CASE ptr # Null /\ heap[ptr] = "ready"
  BY <1>2 DEF FieldOf
<1>3. CASE ptr # Null /\ heap[ptr] = "init"
  BY <1>3 DEF FieldOf
<1>4. CASE ptr # Null /\ heap[ptr] = "free"
  BY <1>4 DEF FieldOf, Dangling
<1>. QED
  BY <1>1, <1>2, <1>3, <1>4 DEF CardOK, TransferOK

\* The limits of a request are numbers, in any geometry.
LEMMA StartOfTransfer ==
    ASSUME TransferOK, NEW s \in Nat
    PROVE  cmd.lba * s + cmd.offset \in Nat /\ cmd.len \in 0 .. MaxBuf
<1>1. cmd.lba \in Nat /\ cmd.offset \in Nat /\ cmd.len \in 0 .. MaxBuf
  BY DEF TransferOK
<1>2. cmd.lba * s \in Nat
  BY <1>1
<1>. QED
  BY <1>1, <1>2

\* The first and the last byte of a request.
LEMMA FirstEnd ==
    ASSUME TransferOK
    PROVE  First \in Nat /\ End = First + cmd.len /\ End \in Nat /\ cmd.len \in 0 .. MaxBuf
<1>1. First \in Nat /\ cmd.len \in 0 .. MaxBuf
  BY StartOfTransfer DEF TransferOK, First
<1>. QED
  BY <1>1, StorageAssumption DEF End

\* What an accepted request is, in the geometry that was read.
LEMMA Accepted ==
    ASSUME TransferOK, ss # 0, NEW count \in Nat, Begin(count)
    PROVE  /\ cmd.lba * ss + cmd.offset \in Nat /\ cmd.len \in Nat \ {0}
           /\ (cmd.lba * ss + cmd.offset) + cmd.len =< count * ss
<1>1. cmd.lba * ss + cmd.offset \in Nat /\ cmd.len \in Nat \ {0} /\ ss \in Nat
  BY StartOfTransfer, StorageAssumption DEF TransferOK, Begin
<1>2. count * ss \in Nat
  BY <1>1
<1>3. cmd.len =< count * ss - (cmd.lba * ss + cmd.offset)
  BY DEF Begin
<1>. QED
  BY <1>1, <1>2, <1>3

\* Every transfer keeps its types, in a good geometry or not.
LEMMA TransferStep ==
    ASSUME CardOK, TransferOK, SpanInv, [Next]_vars
    PROVE  TransferOK'
<1>. USE StorageAssumption
<1>1. CASE MscDiskInit
  <2>1. PICK size \in FieldOf(card, SectorSize) :
          bounce' = [i \in 0 .. Max({Base, size}) - 1 |-> <<0, 0>>]
    BY <1>1 DEF MscDiskInit
  <2>1a. size \in Nat
    BY DEF FieldOf, CardOK
  <2>2. Max({Base, size}) \in Nat
    BY <2>1a, Least
  <2>3. DOMAIN bounce' = 0 .. Max({Base, size}) - 1
    BY <2>1
  <2>4. BounceSize' = Max({Base, size})
    BY <2>2, <2>3, Sized DEF BounceSize
  <2>. QED
    BY <1>1, <2>2, <2>3, <2>4 DEF MscDiskInit, TransferOK, usbVars
<1>2. CASE HostAsks
  <2>1. DOMAIN buf' = 0 .. MaxBuf - 1
    BY <1>2 DEF HostAsks
  <2>2. cmd' \in [n : Nat, write : BOOLEAN, lba : Nat, offset : Nat, len : 0 .. MaxBuf,
                  dma : BOOLEAN]
    <3>1. PICK w \in BOOLEAN, d \in BOOLEAN, lba \in 0 .. SectorCount, off \in Offsets,
               len \in Lengths :
            cmd' = [n |-> cmd.n + 1, write |-> w, lba |-> lba, offset |-> off,
                    len |-> len, dma |-> d]
      BY <1>2 DEF HostAsks
    <3>2. cmd.n + 1 \in Nat /\ lba \in Nat /\ off \in Nat /\ len \in 0 .. MaxBuf
      BY DEF TransferOK
    <3>. QED
      BY <3>1, <3>2
  <2>3. UNCHANGED <<medium, bounce, ptr, ss, addr, BounceSize>>
    BY <1>2, SameBounce DEF HostAsks
  <2>. QED
    BY <2>1, <2>2, <2>3 DEF TransferOK
<1>3. CASE UsbPresent \/ UsbLoad \/ UsbDone
  <2>1. UNCHANGED <<medium, bounce, cmd, ss, addr, buf>> /\ ptr' \in {ptr, card}
    BY <1>3 DEF UsbPresent, UsbLoad, UsbDone
  <2>2. BounceSize' = BounceSize /\ ptr' \in Blocks \cup {Null}
    BY <2>1, SameBounce DEF CardOK, TransferOK
  <2>. QED
    BY <2>1, <2>2 DEF TransferOK
<1>4. CASE UsbSize
  <2>1. ss' \in FieldOf(ptr, SectorSize)
    BY <1>4 DEF UsbSize
  <2>2. ss' \in Nat
    BY <2>1, Fields
  <2>3. UNCHANGED <<medium, bounce, cmd, ptr, addr, buf, BounceSize>>
    BY <1>4, SameBounce DEF UsbSize
  <2>. QED
    BY <2>2, <2>3 DEF TransferOK
<1>5. CASE UsbCount
  <2>1. ss \in Nat
    BY DEF TransferOK
  <2>2. addr' \in Nat
    <3>1. addr' = addr \/ addr' = cmd.lba * ss + cmd.offset
      BY <1>5 DEF UsbCount
    <3>. QED
      BY <2>1, <3>1, StartOfTransfer DEF TransferOK
  <2>3. UNCHANGED <<medium, bounce, cmd, ptr, ss, buf, BounceSize>>
    BY <1>5, SameBounce DEF UsbCount
  <2>. QED
    BY <2>2, <2>3 DEF TransferOK
<1>6. CASE UsbTake
  <2>1. DOMAIN bounce' = DOMAIN bounce
    BY <1>6 DEF UsbTake, Merged
  <2>2. UNCHANGED <<medium, cmd, ptr, ss, addr, buf, BounceSize>>
    BY <1>6, <2>1, SameBounce DEF UsbTake
  <2>. QED
    BY <2>1, <2>2 DEF TransferOK
<1>7. CASE UsbRead \/ UsbWrite
  <2>1. DOMAIN bounce' = DOMAIN bounce
    BY <1>7 DEF UsbRead, UsbWrite, UsbFails, Advances
  <2>2. DOMAIN buf' = DOMAIN buf
    BY <1>7 DEF UsbRead, UsbWrite, UsbFails, Advances, Unpacked
  <2>3. DOMAIN medium' = DOMAIN medium
    BY <1>7 DEF UsbRead, UsbWrite, OnCard
  <2>4. UNCHANGED <<cmd, ptr, ss>>
    BY <1>7 DEF UsbRead, UsbWrite
  <2>5. addr' \in {addr, addr + Bytes}
    BY <1>7 DEF UsbRead, UsbWrite, UsbFails, Advances
  <2>6. ss # 0 /\ First =< addr /\ addr < End
    BY <1>7 DEF UsbRead, UsbWrite, SpanInv, Spanning, Jobs
  <2>7. addr' \in Nat
    <3>1. Bytes \in Nat /\ addr \in Nat
      BY <2>6, Span DEF TransferOK
    <3>. QED
      BY <2>5, <3>1
  <2>. QED
    BY <2>1, <2>2, <2>3, <2>4, <2>7, SameBounce DEF TransferOK
<1>8. CASE UsbReturns
  <2>1. /\ ptr' = Null /\ ss' = 0 /\ addr' = 0 /\ DOMAIN buf' = 0 .. MaxBuf - 1
        /\ UNCHANGED <<medium, bounce, BounceSize>>
    BY <1>8, SameBounce DEF UsbReturns, Blank
  <2>2. cmd' \in [n : Nat, write : BOOLEAN, lba : Nat, offset : Nat, len : 0 .. MaxBuf,
                  dma : BOOLEAN]
    <3>1. cmd' = [NoCmd EXCEPT !.n = cmd.n] /\ cmd.n \in Nat
      BY <1>8 DEF UsbReturns, TransferOK
    <3>2. cmd' = [n |-> cmd.n, write |-> FALSE, lba |-> 0, offset |-> 0, len |-> 0,
                  dma |-> FALSE]
      BY <3>1 DEF NoCmd
    <3>3. 0 \in 0 .. MaxBuf /\ cmd.n \in Nat
      BY <3>1
    <3>. QED
      BY <3>2, <3>3
  <2>. QED
    BY <2>1, <2>2 DEF TransferOK
<1>9. CASE Console \/ UNCHANGED vars
  <2>1. UNCHANGED <<medium, bounce, cmd, ptr, ss, addr, buf>>
    BY <1>9, ConsoleSteps DEF vars, usbVars
  <2>. QED
    BY <2>1, SameBounce DEF TransferOK
<1>. QED
  BY <1>1, <1>2, <1>3, <1>4, <1>5, <1>6, <1>7, <1>8, <1>9 DEF Next, Usb

(* The iterator stays in the request, and the request, once accepted, on   *)
(* the medium, unless the geometry came from a freed block.                *)
LEMMA SpanStep ==
    ASSUME CardOK, LockInv, PowerInv, TransferOK, SpanInv, [Next]_vars
    PROVE  SpanInv'
<1>. USE StorageAssumption
<1>1. CASE MscDiskInit
  <2>1. SectorSize \in Nat /\ BounceSize \in Nat
    BY DEF TransferOK
  <2>2. BounceSize = 0
    BY <1>1, FS_EmptySet DEF MscDiskInit, BounceSize
  <2>3. ~GeometryOK
    BY <2>1, <2>2 DEF GeometryOK
  <2>4. UNCHANGED <<upc, cmd, ss, addr, stale>>
    BY <1>1 DEF MscDiskInit, usbVars
  <2>5. First' = First /\ End' = End
    BY <2>4 DEF First, End
  <2>. QED
    BY <2>3, <2>4, <2>5 DEF SpanInv
<1>2. CASE HostAsks
  <2>1. upc = "idle" /\ upc' = "present" /\ addr' = addr /\ stale' = stale
    BY <1>2 DEF HostAsks
  <2>. QED
    BY <2>1 DEF SpanInv, Early, Spanning, Jobs
<1>3. CASE UsbPresent \/ UsbLoad
  <2>1. /\ UNCHANGED <<cmd, ss, addr, stale, BounceSize>>
        /\ \/ upc = "present" /\ upc' \in {"size", "not ready"}
           \/ upc = "size" /\ upc' = "size of"
           \/ upc = "count" /\ upc' = "count of"
    BY <1>3, SameBounce DEF UsbPresent, UsbLoad, Answers
  <2>2. First' = First /\ End' = End
    BY <2>1 DEF First, End
  <2>3. GeometryOK' <=> GeometryOK
    BY <2>1 DEF GeometryOK
  <2>. QED
    BY <2>1, <2>2, <2>3 DEF SpanInv, Early, Spanning, Jobs
<1>4. CASE UsbSize
  <2>1. /\ upc = "size of" /\ addr' = addr /\ ss' \in FieldOf(ptr, SectorSize)
        /\ upc' = IF ss' = 0 \/ ss' > BounceSize THEN "medium error" ELSE "count"
        /\ stale' = (stale \/ Dangling)
    BY <1>4 DEF UsbSize, Answers
  <2>2. addr' = 0
    BY <2>1 DEF SpanInv, Early
  <2>3. BounceSize' = BounceSize /\ BounceSize \in Nat
    BY <1>4, SameBounce DEF UsbSize, TransferOK
  <2>4. ss' \in Nat /\ (ss' # 0 /\ ~Dangling => ss' = SectorSize)
    BY <2>1, Fields
  <2>5. upc' = "count" => ss' # 0 /\ (~stale' => GeometryOK')
    <3>1. SUFFICES ASSUME upc' = "count" PROVE ss' # 0 /\ (~stale' => GeometryOK')
      OBVIOUS
    <3>2. ss' # 0 /\ ~(ss' > BounceSize)
      BY <2>1, <3>1
    <3>3. ss' =< BounceSize
      BY <2>3, <2>4, <3>2
    <3>4. ~stale' => ss' = SectorSize
      BY <2>1, <2>4, <3>2
    <3>. QED
      BY <2>3, <3>2, <3>3, <3>4 DEF GeometryOK
  <2>. QED
    BY <2>1, <2>2, <2>5 DEF SpanInv, Early, Spanning, Jobs
<1>5. CASE UsbCount
  <2>1. /\ upc = "count of" /\ stale' = (stale \/ Dangling)
        /\ UNCHANGED <<cmd, ss, BounceSize>>
    BY <1>5, SameBounce DEF UsbCount
  <2>2. addr = 0 /\ ss # 0 /\ (~stale => GeometryOK)
    BY <2>1 DEF SpanInv, Early
  <2>3. First' = First /\ End' = End /\ (GeometryOK' <=> GeometryOK)
    BY <2>1 DEF First, End, GeometryOK
  <2>4. PICK f \in FieldOf(ptr, SectorCount) :
          IF Begin(f) THEN upc' = "span" /\ addr' = cmd.lba * ss + cmd.offset
          ELSE upc' = "illegal request" /\ addr' = addr
    BY <1>5 DEF UsbCount, Answers
  <2>5. CASE ~Begin(f)
    BY <2>1, <2>2, <2>4, <2>5 DEF SpanInv, Early, Spanning, Jobs
  <2>6. CASE Begin(f)
    <3>1. f \in Nat /\ (f # 0 /\ ~Dangling => f = SectorCount) /\ f # 0
      BY <2>6, Fields DEF Begin
    <3>2. /\ cmd.lba * ss + cmd.offset \in Nat /\ cmd.len \in Nat \ {0}
          /\ (cmd.lba * ss + cmd.offset) + cmd.len =< f * ss
      BY <2>2, <2>6, <3>1, Accepted
    <3>3. First' =< addr' /\ addr' =< End' /\ End' =< f * ss
      BY <2>3, <2>4, <2>6, <3>2 DEF First, End
    <3>4. ~stale' => GeometryOK' /\ End' =< Capacity
      <4>1. SUFFICES ASSUME ~stale' PROVE GeometryOK' /\ End' =< Capacity
        OBVIOUS
      <4>2. f = SectorCount /\ ss = SectorSize
        BY <2>1, <2>2, <3>1, <4>1 DEF GeometryOK
      <4>3. f * ss = Capacity
        BY <4>2 DEF Capacity
      <4>. QED
        BY <2>1, <2>2, <2>3, <3>3, <4>1, <4>3
    <3>5. upc' = "span" /\ ss' # 0
      BY <2>1, <2>2, <2>4, <2>6
    <3>. QED
      BY <3>3, <3>4, <3>5 DEF SpanInv, Early, Spanning, Jobs
  <2>. QED
    BY <2>5, <2>6
<1>6. CASE UsbDone \/ UsbTake
  <2>1. /\ UNCHANGED <<cmd, ss, addr, stale>>
        /\ \/ upc = "span" /\ addr >= End /\ upc' = "ok"
           \/ upc = "span" /\ addr < End /\ upc' \in Jobs
           \/ upc = "merge" /\ upc' \in Jobs
    BY <1>6 DEF UsbDone, UsbTake, Answers, Job, Jobs
  <2>2. DOMAIN bounce' = DOMAIN bounce
    BY <1>6 DEF UsbDone, UsbTake, Merged
  <2>3. First' = First /\ End' = End /\ (GeometryOK' <=> GeometryOK)
    BY <2>1, <2>2, SameBounce DEF First, End, GeometryOK
  <2>4. addr \in Nat /\ End \in Nat
    BY FirstEnd DEF TransferOK
  <2>5. upc' = "ok" => addr' = End'
    BY <2>1, <2>3, <2>4 DEF SpanInv, Spanning, Jobs
  <2>. QED
    BY <2>1, <2>3, <2>5 DEF SpanInv, Early, Spanning, Jobs
<1>7. CASE UsbRead \/ UsbWrite
  <2>1. /\ UNCHANGED <<cmd, ss, stale>> /\ upc \in Jobs
        /\ \/ upc' = "medium error" /\ addr' = addr
           \/ upc' = "span" /\ addr' = addr + Bytes
           \/ upc' = "merge" /\ addr' = addr
    BY <1>7 DEF UsbRead, UsbWrite, UsbFails, Advances, Answers, Jobs
  <2>2. DOMAIN bounce' = DOMAIN bounce
    BY <1>7 DEF UsbRead, UsbWrite, UsbFails, Advances
  <2>3. First' = First /\ End' = End /\ (GeometryOK' <=> GeometryOK)
    BY <2>1, <2>2, SameBounce DEF First, End, GeometryOK
  <2>4. ss # 0 /\ First =< addr /\ addr < End /\ (~stale => GeometryOK /\ End =< Capacity)
    BY <2>1 DEF SpanInv, Spanning
  <2>5. addr + Bytes =< End /\ Bytes \in Nat
    BY <2>4, Span
  <2>6. addr \in Nat /\ End \in Nat /\ First \in Nat
    BY FirstEnd DEF TransferOK
  <2>7. First' =< addr' /\ addr' =< End' /\ (upc' = "merge" => addr' < End')
    <3>1. CASE addr' = addr
      BY <2>3, <2>4, <2>6, <3>1
    <3>2. CASE upc' = "span" /\ addr' = addr + Bytes
      BY <2>3, <2>4, <2>5, <2>6, <3>2
    <3>. QED
      BY <2>1, <3>1, <3>2
  <2>. QED
    BY <2>1, <2>3, <2>4, <2>7 DEF SpanInv, Early, Spanning, Jobs
<1>8. CASE UsbReturns
  <2>1. upc' = "idle" /\ addr' = 0 /\ stale' = FALSE
    BY <1>8 DEF UsbReturns
  <2>. QED
    BY <2>1 DEF SpanInv, Early, Spanning, Jobs
<1>9. CASE Console \/ UNCHANGED vars
  <2>1. UNCHANGED <<bounce, upc, cmd, ss, addr, stale>>
    BY <1>9, ConsoleSteps DEF vars, usbVars
  <2>2. First' = First /\ End' = End /\ (GeometryOK' <=> GeometryOK)
    BY <2>1, SameBounce DEF First, End, GeometryOK
  <2>. QED
    BY <2>1, <2>2 DEF SpanInv
<1>. QED
  BY <1>1, <1>2, <1>3, <1>4, <1>5, <1>6, <1>7, <1>8, <1>9 DEF Next, Usb

\* At start-up no transfer is under way.
LEMMA TransferInit == Init => TransferOK /\ SpanInv /\ MovedInv /\ BounceInv
<1>. SUFFICES ASSUME Init PROVE TransferOK /\ SpanInv /\ MovedInv /\ BounceInv
  OBVIOUS
<1>. USE StorageAssumption
<1>1. /\ upc = "idle" /\ stale = FALSE /\ addr = 0 /\ ss = 0 /\ ptr = Null
      /\ cmd = [n |-> 0, write |-> FALSE, lba |-> 0, offset |-> 0, len |-> 0, dma |-> FALSE]
      /\ DOMAIN medium = 0 .. Capacity - 1 /\ DOMAIN buf = 0 .. MaxBuf - 1
  BY DEF Init, NoCmd, Blank
<1>2. DOMAIN bounce = 0 .. 0 - 1
  BY DEF Init
<1>3. BounceSize = 0
  BY <1>2, Sized DEF BounceSize
<1>4. cmd \in [n : Nat, write : BOOLEAN, lba : Nat, offset : Nat, len : 0 .. MaxBuf,
               dma : BOOLEAN]
  BY <1>1
<1>5. TransferOK
  BY <1>1, <1>2, <1>3, <1>4 DEF TransferOK
<1>6. SpanInv /\ BounceInv
  BY <1>1 DEF SpanInv, BounceInv, Early, Spanning, Jobs
<1>7. MovedInv
  <2>1. First = 0 /\ Done = 0
    BY <1>1 DEF First, Done
  <2>. QED
    BY <2>1 DEF MovedInv
<1>. QED
  BY <1>5, <1>6, <1>7

(* The types of the card, of the console and of a transfer, for every      *)
(* medium, buffer and request.                                             *)
THEOREM TypeCorrect == Spec => [](CardOK /\ TransferOK)
  BY CardInit, CardStep, TransferInit, TransferStep, SpanStep, PTL DEF Spec

(* The driver is only given a card that is ready and a bounce buffer that  *)
(* holds a sector: check_range() and the driver's call are under the lock  *)
(* that a probe takes, and `ss' was compared with s_bounce_size.           *)
THEOREM AccessesAreSafe == Spec => []IoIsSafe
<1>1. CardOK /\ LockInv /\ PowerInv /\ TransferOK /\ SpanInv => IoIsSafe
  <2>. SUFFICES ASSUME LockInv, PowerInv, SpanInv PROVE IoIsSafe
    OBVIOUS
  <2>1. lock = "usb" /\ InRange => heap[card] = "ready"
    BY DEF LockInv, PowerInv, InRange, Probing
  <2>2. upc \in {"fetch", "put"} /\ ~stale => SectorSize =< BounceSize
    BY DEF SpanInv, Spanning, Jobs, GeometryOK
  <2>. QED
    BY <2>1, <2>2 DEF IoIsSafe
<1>. QED
  BY <1>1, CardInit, CardStep, TransferInit, TransferStep, SpanStep, PTL DEF Spec
-----------------------------------------------------------------------------
\* Where a span is, in a geometry that is the medium's.
LEMMA SpanFacts ==
    ASSUME TransferOK, ss # 0, First =< addr, addr < End, GeometryOK, End =< Capacity
    PROVE  /\ ss = SectorSize /\ SectorSize \in Nat /\ Sector * SectorSize \in Nat
           /\ addr = Sector * SectorSize + InSector /\ addr = First + Done
           /\ First \in Nat /\ Done \in Nat /\ Capacity \in Nat
           /\ Done + Bytes =< cmd.len /\ cmd.len \in 0 .. MaxBuf
           /\ First + cmd.len =< Capacity
           /\ InSector \in 0 .. SectorSize - 1 /\ Bytes \in Nat \ {0} /\ Sectors \in Nat \ {0}
           /\ 0 .. SectorSize - 1 \subseteq DOMAIN bounce
           /\ Direct => InSector = 0 /\ Bytes = Sectors * SectorSize
           /\ ~Direct => Sectors = 1 /\ InSector + Bytes =< SectorSize
           /\ ~Direct /\ Whole => InSector = 0 /\ Bytes = SectorSize
<1>. USE StorageAssumption
<1>1. ss = SectorSize /\ SectorSize =< BounceSize /\ BounceSize \in Nat
  BY DEF GeometryOK, TransferOK
<1>2. /\ Sector \in Nat /\ InSector \in 0 .. ss - 1 /\ addr = Sector * ss + InSector
      /\ Sectors \in Nat \ {0} /\ Bytes \in Nat \ {0} /\ addr + Bytes =< End
      /\ Direct => Whole
      /\ Whole => InSector = 0 /\ Bytes = Sectors * ss
      /\ ~Direct => Sectors = 1 /\ InSector + Bytes =< ss
  BY Span
<1>3. First \in Nat /\ End = First + cmd.len /\ End \in Nat /\ cmd.len \in 0 .. MaxBuf
      /\ addr \in Nat
  BY FirstEnd DEF TransferOK
<1>4. addr = First + Done /\ Done \in Nat
  BY <1>3 DEF Done
<1>5. Done + Bytes =< cmd.len /\ First + cmd.len =< Capacity
  BY <1>2, <1>3, <1>4
<1>6. Sector * SectorSize \in Nat /\ Capacity \in Nat
  BY <1>2 DEF Capacity
<1>7. 0 .. SectorSize - 1 \subseteq DOMAIN bounce
  BY <1>1 DEF TransferOK
<1>8. ~Direct /\ Whole => Bytes = SectorSize
  BY <1>1, <1>2
<1>. QED
  BY <1>1, <1>2, <1>3, <1>4, <1>5, <1>6, <1>7, <1>8

\* An access is under way only in such a geometry, with a span left.
LEMMA JobFacts ==
    ASSUME TransferOK, SpanInv, BounceInv, upc \in {"merge"} \cup Jobs, ~stale
    PROVE  /\ ss # 0 /\ First =< addr /\ addr < End /\ GeometryOK /\ End =< Capacity
           /\ upc = "direct" <=> Direct
  BY DEF SpanInv, Spanning, BounceInv, Jobs

(* The bounce buffer is right whenever it is used: read, merged, written.  *)
LEMMA BounceStep ==
    ASSUME CardOK, TransferOK, SpanInv, BounceInv, [Next]_vars
    PROVE  BounceInv'
<1>. USE StorageAssumption
<1>1. CASE MscDiskInit
  <2>1. BounceSize = 0
    BY <1>1, FS_EmptySet DEF MscDiskInit, BounceSize
  <2>2. ~GeometryOK
    BY <2>1 DEF GeometryOK
  <2>3. upc' = upc /\ stale' = stale
    BY <1>1 DEF MscDiskInit, usbVars
  <2>4. stale \/ upc \notin {"merge"} \cup Jobs
    BY <2>2 DEF SpanInv, Spanning
  <2>. QED
    BY <2>3, <2>4 DEF BounceInv, Jobs
<1>2. CASE HostAsks \/ UsbPresent \/ UsbLoad \/ UsbSize \/ UsbCount \/ UsbDone \/ UsbReturns
           \/ UsbWrite
  <2>1. upc' \notin {"merge"} \cup Jobs
    BY <1>2 DEF HostAsks, UsbPresent, UsbLoad, UsbSize, UsbCount, UsbDone, UsbReturns, UsbWrite,
       UsbFails, Advances, Answers, Jobs
  <2>. QED
    BY <2>1 DEF BounceInv, Jobs
<1>3. CASE UsbTake
  <2>. SUFFICES ASSUME ~stale' PROVE BounceInv'
    BY DEF BounceInv
  <2>1. UNCHANGED <<medium, cmd, ss, addr, buf, stale>>
    BY <1>3 DEF UsbTake
  <2>2. /\ (Direct' <=> Direct) /\ (Whole' <=> Whole) /\ Sector' = Sector
        /\ \A i : Patched(i)' = Patched(i)
    BY <2>1 DEF Direct, Whole, Sector, Patched, InSector, Bytes, Sectors, End, First, Done
  <2>3. ss # 0 /\ First =< addr /\ addr < End /\ GeometryOK /\ End =< Capacity
    <3>1. upc \in {"span", "merge"} /\ (upc = "span" => addr < End) /\ ~stale
      BY <1>3, <2>1 DEF UsbTake
    <3>. QED
      BY <3>1 DEF SpanInv, Spanning
  <2>4. CASE upc = "span"
    <3>1. upc' = Job
      BY <1>3, <2>4 DEF UsbTake
    <3>2. CASE upc' # "put"
      BY <2>1, <2>2, <3>1, <3>2 DEF Job, BounceInv
    <3>3. CASE upc' = "put"
      <4>1. ~Direct /\ cmd.write /\ Whole
        BY <3>1, <3>3 DEF Job
      <4>2. InSector = 0 /\ Bytes = SectorSize /\ 0 .. SectorSize - 1 \subseteq DOMAIN bounce
        BY <2>3, <4>1, SpanFacts
      <4>3. bounce' = Merged
        BY <1>3, <3>3 DEF UsbTake
      <4>4. \A i \in 0 .. SectorSize - 1 : bounce'[i] = Patched(i)
        BY <4>2, <4>3 DEF Merged, Patched
      <4>. QED
        BY <2>1, <2>2, <3>3, <4>1, <4>4 DEF BounceInv
    <3>. QED
      BY <3>2, <3>3
  <2>5. CASE upc = "merge"
    <3>1. upc' = "put" /\ bounce' = Merged
      BY <1>3, <2>5 DEF UsbTake
    <3>2. /\ ~Direct /\ cmd.write
          /\ \A i \in 0 .. SectorSize - 1 : bounce[i] = medium[Sector * SectorSize + i]
      BY <2>1, <2>5 DEF BounceInv
    <3>3. 0 .. SectorSize - 1 \subseteq DOMAIN bounce
      BY <2>3, SpanFacts
    <3>4. \A i \in 0 .. SectorSize - 1 : bounce'[i] = Patched(i)
      BY <3>1, <3>2, <3>3 DEF Merged, Patched
    <3>. QED
      BY <2>1, <2>2, <3>1, <3>2, <3>4 DEF BounceInv
  <2>. QED
    BY <1>3, <2>4, <2>5 DEF UsbTake
<1>4. CASE UsbRead
  <2>1. CASE upc' \in {"span", "medium error"}
    BY <2>1 DEF BounceInv
  <2>2. CASE upc' = "merge" /\ ~stale'
    <3>1. /\ UNCHANGED <<medium, cmd, ss, addr, stale>> /\ upc = "fetch" /\ cmd.write
          /\ bounce' = [i \in DOMAIN bounce |->
                          IF i < SectorSize THEN FromCard[i] ELSE bounce[i]]
      BY <1>4, <2>2 DEF UsbRead, UsbFails, Advances, Answers
    <3>2. ~Direct /\ ~Whole
      BY <2>2, <3>1 DEF BounceInv
    <3>3. ss # 0 /\ First =< addr /\ addr < End /\ GeometryOK /\ End =< Capacity
      BY <2>2, <3>1, JobFacts DEF Jobs
    <3>4. Sectors = 1 /\ 0 .. SectorSize - 1 \subseteq DOMAIN bounce
      BY <3>2, <3>3, SpanFacts
    <3>5. \A i \in 0 .. SectorSize - 1 : bounce'[i] = medium[Sector * SectorSize + i]
      BY <3>1, <3>4 DEF FromCard
    <3>6. (Direct' <=> Direct) /\ (Whole' <=> Whole) /\ Sector' = Sector
      BY <3>1 DEF Direct, Whole, Sector, InSector, End, First
    <3>. QED
      BY <2>2, <3>1, <3>2, <3>5, <3>6 DEF BounceInv
  <2>. QED
    <3>1. upc' \in {"span", "medium error", "merge"}
      BY <1>4 DEF UsbRead, UsbFails, Advances, Answers
    <3>2. CASE stale'
      BY <3>2 DEF BounceInv
    <3>. QED
      BY <2>1, <2>2, <3>1, <3>2
<1>5. CASE Console \/ UNCHANGED vars
  <2>1. UNCHANGED <<medium, bounce, upc, cmd, ss, addr, buf, stale>>
    BY <1>5, ConsoleSteps DEF vars, usbVars
  <2>2. /\ (Direct' <=> Direct) /\ (Whole' <=> Whole) /\ Sector' = Sector
        /\ \A i : Patched(i)' = Patched(i)
    BY <2>1 DEF Direct, Whole, Sector, Patched, InSector, Bytes, Sectors, End, First, Done
  <2>. QED
    BY <2>1, <2>2 DEF BounceInv
<1>. QED
  BY <1>1, <1>2, <1>3, <1>4, <1>5 DEF Next, Usb
-----------------------------------------------------------------------------
(* What an access does, whole or in part: it moves the bytes of its span   *)
(* and no others, in either direction.                                     *)
Here == Done .. Done + Bytes - 1

\* What a read span does to the buffer: the bytes of the span and no others.
LEMMA ReadEffect ==
    ASSUME TransferOK, SpanInv, BounceInv, UsbRead, ~stale
    PROVE  /\ medium' = medium
           /\ addr' = addr \/ addr' = addr + Bytes
           /\ addr' = addr => buf' = buf
           /\ addr' # addr => ~cmd.write
           /\ addr' # addr =>
                \A j \in 0 .. MaxBuf - 1 :
                   buf'[j] = IF j \in Here THEN medium[First + j] ELSE buf[j]
<1>. USE StorageAssumption
<1>1. medium' = medium /\ upc \in {"fetch", "direct"}
  BY DEF UsbRead
<1>2. /\ ss # 0 /\ First =< addr /\ addr < End /\ GeometryOK /\ End =< Capacity
      /\ upc = "direct" <=> Direct
  BY <1>1, JobFacts DEF Jobs
<1>. DEFINE P == Sector * SectorSize
<1>3. /\ P \in Nat /\ addr = P + InSector /\ addr = First + Done /\ SectorSize \in Nat
      /\ First \in Nat /\ Done \in Nat
      /\ Done + Bytes =< cmd.len /\ cmd.len \in 0 .. MaxBuf
      /\ InSector \in 0 .. SectorSize - 1 /\ Bytes \in Nat \ {0}
      /\ 0 .. SectorSize - 1 \subseteq DOMAIN bounce
      /\ Direct => InSector = 0 /\ Bytes = Sectors * SectorSize
      /\ ~Direct => Sectors = 1 /\ InSector + Bytes =< SectorSize
  BY <1>2, SpanFacts
<1>4. DOMAIN buf = 0 .. MaxBuf - 1
  BY DEF TransferOK
<1>. HIDE DEF P

\* A sector, or several, whose bytes are the medium's in the span.
<1>5. ASSUME NEW data, buf' = Unpacked(data),
             \A i \in InSector .. InSector + Bytes - 1 :
                i \in DOMAIN data /\ data[i] = medium[P + i]
      PROVE  \A j \in 0 .. MaxBuf - 1 :
                buf'[j] = IF j \in Here THEN medium[First + j] ELSE buf[j]
  <2>1. SUFFICES ASSUME NEW j \in 0 .. MaxBuf - 1
                 PROVE  buf'[j] = IF j \in Here THEN medium[First + j] ELSE buf[j]
    OBVIOUS
  <2>2. j \in Here => /\ InSector + j - Done \in InSector .. InSector + Bytes - 1
                      /\ P + (InSector + j - Done) = First + j
    BY <1>3 DEF Here
  <2>3. buf'[j] = IF j \in Here THEN data[InSector + j - Done] ELSE buf[j]
    BY <1>4, <1>5, <2>2 DEF Unpacked, Here
  <2>. QED
    BY <1>5, <2>2, <2>3
<1>6. CASE UsbFails
  BY <1>1, <1>6 DEF UsbFails
<1>7. CASE upc = "direct" /\ ~cmd.write /\ Advances /\ buf' = Unpacked(FromCard)
  <2>1. \A i \in InSector .. InSector + Bytes - 1 :
           i \in DOMAIN FromCard /\ FromCard[i] = medium[P + i]
    BY <1>2, <1>3, <1>7 DEF FromCard, P
  <2>2. addr' = addr + Bytes
    BY <1>7 DEF Advances
  <2>. QED
    BY <1>1, <1>3, <1>5, <1>7, <2>1, <2>2
<1>8. CASE /\ upc = "fetch"
           /\ bounce' = [i \in DOMAIN bounce |->
                           IF i < SectorSize THEN FromCard[i] ELSE bounce[i]]
           /\ ~cmd.write /\ Advances /\ buf' = Unpacked(bounce')
  <2>1. ~Direct
    BY <1>2, <1>8
  <2>2. \A i \in InSector .. InSector + Bytes - 1 : i \in 0 .. SectorSize - 1
    BY <1>3, <2>1
  <2>3. \A i \in 0 .. SectorSize - 1 : i \in DOMAIN bounce'
    BY <1>3, <1>8
  <2>3a. \A i \in 0 .. SectorSize - 1 : bounce'[i] = medium[P + i]
    BY <1>3, <1>8, <2>1 DEF FromCard, P
  <2>4. addr' = addr + Bytes
    BY <1>8 DEF Advances
  <2>5. buf' = Unpacked(bounce')
    BY <1>8
  <2>6. \A i \in InSector .. InSector + Bytes - 1 :
           i \in DOMAIN bounce' /\ bounce'[i] = medium[P + i]
    BY <2>2, <2>3, <2>3a
  <2>7. \A j \in 0 .. MaxBuf - 1 :
           buf'[j] = IF j \in Here THEN medium[First + j] ELSE buf[j]
    BY <1>5, <2>5, <2>6
  <2>. QED
    BY <1>1, <1>3, <1>8, <2>4, <2>7
<1>9. CASE upc = "fetch" /\ cmd.write /\ UNCHANGED <<addr, buf>>
  BY <1>1, <1>9
<1>. QED
  BY <1>1, <1>6, <1>7, <1>8, <1>9 DEF UsbRead

\* What a write span does to the medium, and to the sector's other bytes.
LEMMA WriteEffect ==
    ASSUME TransferOK, SpanInv, BounceInv, UsbWrite, ~stale
    PROVE  /\ buf' = buf /\ cmd.write
           /\ addr' = addr \/ addr' = addr + Bytes
           /\ \A a \in 0 .. Capacity - 1 : medium'[a] # medium[a] =>
                \E j \in Here : a = First + j /\ medium'[a] = buf[j]
           /\ addr' # addr => \A j \in Here : medium'[First + j] = buf[j]
<1>. USE StorageAssumption
<1>1. upc \in {"put", "direct"}
  BY DEF UsbWrite
<1>2. /\ ss # 0 /\ First =< addr /\ addr < End /\ GeometryOK /\ End =< Capacity
      /\ upc = "direct" <=> Direct
  BY <1>1, JobFacts DEF Jobs
<1>. DEFINE P == Sector * SectorSize
<1>3. /\ P \in Nat /\ addr = P + InSector /\ addr = First + Done /\ SectorSize \in Nat
      /\ First \in Nat /\ Done \in Nat /\ Capacity \in Nat
      /\ Done + Bytes =< cmd.len /\ cmd.len \in 0 .. MaxBuf /\ First + cmd.len =< Capacity
      /\ InSector \in 0 .. SectorSize - 1 /\ Bytes \in Nat \ {0} /\ Sectors \in Nat \ {0}
      /\ 0 .. SectorSize - 1 \subseteq DOMAIN bounce
      /\ Direct => InSector = 0 /\ Bytes = Sectors * SectorSize
      /\ ~Direct => Sectors = 1 /\ InSector + Bytes =< SectorSize
  BY <1>2, SpanFacts
<1>4. DOMAIN medium = 0 .. Capacity - 1
  BY DEF TransferOK
<1>5. cmd.write
  BY <1>1 DEF UsbWrite, BounceInv
<1>6. CASE ~InRange /\ UsbFails /\ UNCHANGED medium
  BY <1>5, <1>6 DEF UsbFails
<1>7. CASE InRange /\ \E k \in 0 .. Sectors :
             /\ medium' = OnCard(k, IF upc = "put" THEN bounce ELSE FromBuf)
             /\ \/ UsbFails
                \/ k = Sectors /\ Advances /\ UNCHANGED <<bounce, buf>>
  <2>1. PICK k \in 0 .. Sectors :
             /\ medium' = OnCard(k, IF upc = "put" THEN bounce ELSE FromBuf)
             /\ \/ UsbFails
                \/ k = Sectors /\ Advances /\ UNCHANGED <<bounce, buf>>
    BY <1>7
  <2>2. /\ buf' = buf
        /\ addr' = addr \/ (addr' = addr + Bytes /\ k = Sectors)
    BY <2>1 DEF UsbFails, Advances
  <2>. DEFINE data == IF upc = "put" THEN bounce ELSE FromBuf
              written == {i \in 0 .. k * SectorSize - 1 : i \in DOMAIN data}
  \* What is written of the sectors: the span's bytes, or what was there.
  <2>3. /\ \A i \in written : \/ /\ i \in InSector .. InSector + Bytes - 1
                                 /\ data[i] = buf[Done + i - InSector]
                              \/ data[i] = medium[P + i]
        /\ k = Sectors => InSector .. InSector + Bytes - 1 \subseteq written
        /\ \A i \in InSector .. InSector + Bytes - 1 :
             i \in written => data[i] = buf[Done + i - InSector]
    <3>1. CASE upc = "put"
      <4>1. data = bounce /\ ~Direct
        BY <1>2, <3>1
      <4>2. k * SectorSize =< SectorSize /\ (k = Sectors => k * SectorSize = SectorSize)
        BY <1>3, <4>1
      <4>3. k * SectorSize \in Nat
        BY <1>3
      <4>4. \A i \in 0 .. SectorSize - 1 : data[i] = Patched(i)
        BY <3>1, <4>1 DEF BounceInv
      <4>5. written \subseteq 0 .. SectorSize - 1
        BY <1>3, <4>2, <4>3
      <4>6. k = Sectors => InSector .. InSector + Bytes - 1 \subseteq written
        BY <1>3, <4>1, <4>2
      <4>. HIDE DEF data, written
      <4>. QED
        BY <4>4, <4>5, <4>6 DEF Patched, P
    <3>2. CASE upc = "direct"
      <4>1. data = FromBuf /\ Direct
        BY <1>2, <3>2
      <4>2. InSector = 0 /\ Bytes = Sectors * SectorSize
        BY <1>3, <4>1
      <4>3. k * SectorSize =< Bytes /\ k * SectorSize \in Nat
        BY <1>3, <4>2
      <4>4. /\ DOMAIN data = 0 .. MaxBuf - 1 - Done
            /\ \A i \in 0 .. MaxBuf - 1 - Done : data[i] = buf[Done + i]
        BY <4>1 DEF FromBuf
      <4>5. written \subseteq 0 .. Bytes - 1
        BY <1>3, <4>3
      <4>6. 0 .. Bytes - 1 \subseteq 0 .. MaxBuf - 1 - Done
        BY <1>3
      <4>7. k = Sectors => 0 .. Bytes - 1 \subseteq written
        BY <4>2, <4>4, <4>6
      <4>. HIDE DEF data, written
      <4>8. \A i \in 0 .. Bytes - 1 : data[i] = buf[Done + i - InSector]
        BY <1>3, <4>2, <4>4, <4>6
      <4>. QED
        BY <1>3, <4>2, <4>5, <4>7, <4>8
    <3>. QED
      BY <1>1, <3>1, <3>2
  <2>4. \A a \in 0 .. Capacity - 1 :
          medium'[a] = IF a - P \in written THEN data[a - P] ELSE medium[a]
    BY <1>4, <2>1 DEF OnCard, P
  <2>. HIDE DEF data, written, P
  <2>5. \A a \in 0 .. Capacity - 1 : medium'[a] # medium[a] =>
                \E j \in Here : a = First + j /\ medium'[a] = buf[j]
    <3>1. SUFFICES ASSUME NEW a \in 0 .. Capacity - 1, medium'[a] # medium[a]
                   PROVE  \E j \in Here : a = First + j /\ medium'[a] = buf[j]
      OBVIOUS
    <3>. DEFINE i == a - P
    <3>2. i \in written /\ medium'[a] = data[i]
      BY <2>4, <3>1
    <3>3. P + i = a
      BY <1>3
    <3>4. /\ i \in InSector .. InSector + Bytes - 1
          /\ medium'[a] = buf[Done + i - InSector]
      BY <2>3, <3>1, <3>2, <3>3
    <3>5. Done + i - InSector \in Here /\ a = First + (Done + i - InSector)
      BY <1>3, <3>3, <3>4 DEF Here
    <3>. QED
      BY <3>4, <3>5
  <2>6. k = Sectors => \A j \in Here : medium'[First + j] = buf[j]
    <3>1. SUFFICES ASSUME k = Sectors, NEW j \in Here PROVE medium'[First + j] = buf[j]
      OBVIOUS
    <3>. DEFINE i == InSector + j - Done
    <3>2. /\ i \in InSector .. InSector + Bytes - 1 /\ (First + j) - P = i
          /\ First + j \in 0 .. Capacity - 1 /\ Done + i - InSector = j
      BY <1>3 DEF Here
    <3>3. i \in written /\ data[i] = buf[j]
      BY <2>3, <3>1, <3>2
    <3>4. \A a \in 0 .. Capacity - 1 : a - P \in written => medium'[a] = data[a - P]
      BY <2>4
    <3>5. (First + j) - P \in written
      BY <3>2, <3>3
    <3>. QED
      BY <3>2, <3>3, <3>4, <3>5
  <2>. QED
    BY <1>3, <1>5, <2>2, <2>5, <2>6
<1>. QED
  BY <1>6, <1>7 DEF UsbWrite
-----------------------------------------------------------------------------
\* Before msc_lba_begin() has accepted the request nothing is moved.
LEMMA NoneMoved ==
    ASSUME TransferOK', addr' = 0 \/ addr' = First'
    PROVE  0 .. Done' - 1 = {} /\ movedBar' = {}
<1>1. cmd'.lba \in Nat /\ cmd'.offset \in Nat /\ ss' \in Nat
  BY DEF TransferOK
<1>2. cmd'.lba * ss' \in Nat
  BY <1>1
<1>3. First' \in Nat
  BY <1>1, <1>2 DEF First
<1>4. Done' \in Int /\ Done' =< 0
  BY <1>3 DEF Done
<1>5. \A d \in Int : d =< 0 => 0 .. d - 1 = {}
  OBVIOUS
<1>6. 0 .. Done' - 1 = {}
  BY <1>4, <1>5
<1>. QED
  BY <1>6 DEF movedBar

\* The same of the present state.
LEMMA EarlyMoved ==
    ASSUME TransferOK, addr = 0 PROVE movedBar = {}
<1>1. First \in Nat
  BY FirstEnd
<1>2. Done \in Int /\ Done =< 0
  BY <1>1 DEF Done
<1>. QED
  BY <1>2 DEF movedBar

\* The same request, and the same part of it, before and after.
LEMMA SameDone ==
    ASSUME UNCHANGED <<cmd, ss>>
    PROVE  /\ First' = First /\ End' = End
           /\ addr' = addr => Done' = Done /\ movedBar' = movedBar
  BY DEF First, End, Done, movedBar

\* Bytes once moved stay the same on both sides: later spans lie after them.
LEMMA MovedStep ==
    ASSUME CardOK, TransferOK, SpanInv, BounceInv, MovedInv, [Next]_vars, TransferOK', SpanInv'
    PROVE  MovedInv'
<1>. USE StorageAssumption
<1>. SUFFICES ASSUME ~stale' PROVE MovedInv'
  BY DEF MovedInv
<1>1. CASE addr' = 0 \/ addr' = First'
  BY <1>1, NoneMoved DEF MovedInv
<1>2. CASE UNCHANGED <<medium, buf, cmd, ss, addr>> /\ stale' = stale
  BY <1>2, SameDone DEF MovedInv
<1>3. CASE HostAsks \/ UsbReturns
  <2>1. addr' = 0
    BY <1>3 DEF HostAsks, UsbReturns, SpanInv, Early
  <2>. QED
    BY <1>1, <2>1
<1>4. CASE UsbSize
  <2>1. addr' = 0
    BY <1>4 DEF UsbSize, SpanInv, Early
  <2>. QED
    BY <1>1, <2>1
<1>5. CASE UsbCount
  <2>1. addr = 0 /\ UNCHANGED <<cmd, ss>>
    BY <1>5 DEF UsbCount, SpanInv, Early
  <2>2. addr' = addr \/ addr' = First'
    BY <1>5, <2>1 DEF UsbCount, First
  <2>. QED
    BY <1>1, <2>1, <2>2
<1>6. CASE UsbRead \/ UsbWrite
  <2>1. UNCHANGED <<cmd, ss, stale>> /\ upc \in Jobs
    BY <1>6 DEF UsbRead, UsbWrite, Jobs
  <2>2. ss # 0 /\ First =< addr /\ addr < End /\ GeometryOK /\ End =< Capacity
    BY <2>1, JobFacts
  <2>3. /\ addr = First + Done /\ First \in Nat /\ Done \in Nat /\ Capacity \in Nat
        /\ Done + Bytes =< cmd.len /\ cmd.len \in 0 .. MaxBuf /\ First + cmd.len =< Capacity
        /\ Bytes \in Nat \ {0}
    BY <2>2, SpanFacts
  <2>4. First' = First /\ (addr' = addr => Done' = Done)
        /\ (addr' = addr + Bytes => Done' = Done + Bytes)
    BY <2>1, <2>3, SameDone DEF Done
  <2>5. \A i \in 0 .. Done - 1 : buf[i] = medium[First + i]
    BY <2>1 DEF MovedInv
  <2>6. CASE UsbRead
    <3>1. medium' = medium /\ (addr' = addr \/ addr' = addr + Bytes)
      BY <2>1, <2>6, ReadEffect
    <3>2. CASE addr' = addr
      BY <2>1, <2>4, <2>5, <2>6, <3>1, <3>2, ReadEffect DEF MovedInv
    <3>3. CASE addr' # addr
      <4>1. \A j \in 0 .. MaxBuf - 1 :
              buf'[j] = IF j \in Here THEN medium[First + j] ELSE buf[j]
        BY <2>1, <2>6, <3>3, ReadEffect
      <4>2. \A i \in 0 .. Done' - 1 : i \in 0 .. MaxBuf - 1 /\ (i \notin Here => i \in 0 .. Done - 1)
        BY <2>3, <2>4, <3>1, <3>3 DEF Here
      <4>. QED
        BY <2>4, <2>5, <3>1, <4>1, <4>2 DEF MovedInv
    <3>. QED
      BY <3>2, <3>3
  <2>7. CASE UsbWrite
    <3>1. /\ buf' = buf /\ (addr' = addr \/ addr' = addr + Bytes)
          /\ \A a \in 0 .. Capacity - 1 : medium'[a] # medium[a] =>
                \E j \in Here : a = First + j /\ medium'[a] = buf[j]
          /\ addr' # addr => \A j \in Here : medium'[First + j] = buf[j]
      BY <2>1, <2>7, WriteEffect
    <3>2. ASSUME NEW i \in 0 .. Done - 1 PROVE buf[i] = medium'[First + i]
      <4>1. First + i \in 0 .. Capacity - 1
        BY <2>3
      <4>2. \A j \in Here : First + i # First + j
        BY <2>3 DEF Here
      <4>3. medium'[First + i] = medium[First + i]
        BY <3>1, <4>1, <4>2
      <4>. QED
        BY <2>5, <4>3
    <3>3. CASE addr' = addr
      BY <2>4, <3>1, <3>2, <3>3 DEF MovedInv
    <3>4. CASE addr' # addr
      <4>1. \A i \in 0 .. Done' - 1 : i \in Here \/ i \in 0 .. Done - 1
        BY <2>3, <2>4, <3>1, <3>4 DEF Here
      <4>. QED
        BY <2>4, <3>1, <3>2, <3>4, <4>1 DEF MovedInv
    <3>. QED
      BY <3>3, <3>4
  <2>. QED
    BY <1>6, <2>6, <2>7
<1>7. CASE MscDiskInit \/ UsbPresent \/ UsbLoad \/ UsbDone \/ UsbTake
  BY <1>2, <1>7 DEF MscDiskInit, UsbPresent, UsbLoad, UsbDone, UsbTake, usbVars
<1>8. CASE Console \/ UNCHANGED vars
  BY <1>2, <1>8, ConsoleSteps DEF vars, usbVars
<1>. QED
  BY <1>3, <1>4, <1>5, <1>6, <1>7, <1>8 DEF Next, Usb
-----------------------------------------------------------------------------
(* The promise of Disk, step by step.                                      *)

\* The request of a transfer, as the host knows it.
LEMMA Bar ==
    ASSUME TransferOK, SpanInv, MovedInv, ~stale, upc # "idle"
    PROVE  /\ requestBar # Promise!Idle /\ requestBar.write = cmd.write
           /\ DOMAIN requestBar.at = 0 .. cmd.len - 1
           /\ movedBar \subseteq 0 .. cmd.len - 1
           /\ ss = SectorSize => \A i \in 0 .. cmd.len - 1 : requestBar.at[i] = First + i
           /\ movedBar # {} => ss = SectorSize
           /\ \A i \in movedBar : buf[i] = medium[requestBar.at[i]]
<1>1. /\ requestBar.asked = TRUE /\ requestBar.write = cmd.write
      /\ requestBar.at = [i \in 0 .. cmd.len - 1 |-> cmd.lba * SectorSize + cmd.offset + i]
  BY DEF requestBar
<1>2. requestBar # Promise!Idle
  BY <1>1 DEF Promise!Idle
<1>3. ss = SectorSize => \A i \in 0 .. cmd.len - 1 : requestBar.at[i] = First + i
  BY <1>1 DEF First
<1>4. addr = 0 => movedBar = {}
  BY EarlyMoved
<1>5. addr # 0 => /\ GeometryOK /\ First =< addr /\ addr =< End
  BY DEF SpanInv
<1>6. movedBar # {} => ss = SectorSize
  BY <1>4, <1>5 DEF GeometryOK
<1>7. movedBar \subseteq 0 .. cmd.len - 1
  <2>1. addr # 0 => Done \in Nat /\ Done =< cmd.len /\ cmd.len \in Nat
    BY <1>5, FirstEnd, StorageAssumption DEF Done, TransferOK
  <2>. QED
    BY <1>4, <2>1 DEF movedBar
<1>8. \A i \in movedBar : buf[i] = medium[First + i]
  BY DEF MovedInv, movedBar
<1>. QED
  BY <1>1, <1>2, <1>3, <1>6, <1>7, <1>8

\* usb_task gives up: nothing more is moved, and the host is told so.
LEMMA GivesUp ==
    ASSUME TransferOK, SpanInv, MovedInv, ~stale, stale' = stale,
           upc # "idle", upc \notin Senses, upc' \in Senses \ {"ok"},
           UNCHANGED <<medium, buf, cmd>>, movedBar' = movedBar,
           upc' = "illegal request" => movedBar = {}
    PROVE  Promise!Answer
<1>1. answerBar = Null /\ answerBar' = upc' /\ answerBar' # "ok"
  BY DEF answerBar, Answered, Senses
<1>2. requestBar' = requestBar
  BY DEF requestBar, Senses
<1>3. Promise!Move
  BY <1>1, <1>2, Bar DEF Promise!Move
<1>4. Promise!Fails
  BY <1>1 DEF Promise!Fails
<1>. QED
  BY <1>1, <1>3, <1>4, Bar DEF Promise!Answer

\* An access to the card, whole or cut short.
LEMMA Moves ==
    ASSUME CardOK, TransferOK, SpanInv, BounceInv, MovedInv, UsbRead \/ UsbWrite, ~stale,
           TransferOK', SpanInv', MovedInv'
    PROVE  Promise!Move
<1>. USE StorageAssumption
<1>1. UNCHANGED <<cmd, ss, stale>> /\ upc \in Jobs /\ upc' \in {"span", "merge", "medium error"}
  BY DEF UsbRead, UsbWrite, UsbFails, Advances, Answers, Jobs
<1>2. ss # 0 /\ First =< addr /\ addr < End /\ GeometryOK /\ End =< Capacity
  BY <1>1, JobFacts
<1>3. /\ addr = First + Done /\ First \in Nat /\ Done \in Nat /\ Capacity \in Nat
      /\ Done + Bytes =< cmd.len /\ cmd.len \in 0 .. MaxBuf /\ First + cmd.len =< Capacity
      /\ Bytes \in Nat \ {0} /\ ss = SectorSize
  BY <1>2, SpanFacts
<1>4. answerBar = Null /\ requestBar' = requestBar
  BY <1>1 DEF answerBar, Answered, Senses, Jobs, requestBar
<1>5. /\ requestBar.write = cmd.write /\ DOMAIN requestBar.at = 0 .. cmd.len - 1
      /\ movedBar \subseteq 0 .. cmd.len - 1
      /\ \A i \in 0 .. cmd.len - 1 : requestBar.at[i] = First + i
      /\ \A i \in movedBar : buf[i] = medium[requestBar.at[i]]
  BY <1>1, <1>3, Bar DEF Jobs
<1>6. First' = First /\ (addr' = addr => Done' = Done)
      /\ (addr' = addr + Bytes => Done' = Done + Bytes)
  <2>1. First' = First
    BY <1>1, SameDone
  <2>. QED
    BY <1>3, <2>1 DEF Done
<1>7. addr' = addr \/ addr' = addr + Bytes
  BY <1>1, ReadEffect, WriteEffect
<1>8. movedBar \subseteq movedBar' /\ movedBar' \subseteq 0 .. cmd.len - 1
  BY <1>3, <1>6, <1>7 DEF movedBar
<1>9. \A i \in movedBar' : buf'[i] = medium'[requestBar.at[i]]
  <2>1. \A i \in 0 .. Done' - 1 : buf'[i] = medium'[First' + i]
    BY <1>1 DEF MovedInv
  <2>. QED
    BY <1>5, <1>6, <1>8, <2>1 DEF movedBar
<1>10. CASE UsbRead
  <2>1. medium' = medium
    BY <1>1, <1>10, ReadEffect
  <2>2. CASE ~cmd.write
    BY <1>1, <1>4, <1>5, <1>8, <1>9, <2>1, <2>2 DEF Promise!Move
  <2>3. CASE cmd.write
    <3>1. buf' = buf
      BY <1>1, <1>10, <2>3, ReadEffect
    <3>. QED
      BY <1>1, <1>4, <1>5, <1>8, <1>9, <2>1, <2>3, <3>1 DEF Promise!Move
  <2>. QED
    BY <2>2, <2>3
<1>11. CASE UsbWrite
  <2>1. buf' = buf /\ cmd.write
    BY <1>1, <1>11, WriteEffect
  <2>2. \A a \in 0 .. Capacity - 1 : medium'[a] # medium[a] =>
          \E i \in DOMAIN requestBar.at \ movedBar :
             requestBar.at[i] = a /\ medium'[a] = buf[i]
    <3>1. SUFFICES ASSUME NEW a \in 0 .. Capacity - 1, medium'[a] # medium[a]
                   PROVE  \E i \in DOMAIN requestBar.at \ movedBar :
                             requestBar.at[i] = a /\ medium'[a] = buf[i]
      OBVIOUS
    <3>2. PICK j \in Here : a = First + j /\ medium'[a] = buf[j]
      BY <1>1, <1>11, <3>1, WriteEffect
    <3>3. j \in 0 .. cmd.len - 1 /\ j \notin movedBar
      BY <1>3 DEF Here, movedBar
    <3>. QED
      BY <1>5, <3>2, <3>3
  <2>. QED
    BY <1>1, <1>4, <1>5, <1>8, <1>9, <2>1, <2>2 DEF Promise!Move
<1>. QED
  BY <1>10, <1>11

\* Every step is one of Disk, or none.
LEMMA DiskStep ==
    ASSUME CardOK, TransferOK, SpanInv, BounceInv, MovedInv, [Next]_vars,
           TransferOK', SpanInv', MovedInv'
    PROVE  [Promise!DiskNext]_(Promise!diskVars)
<1>. USE StorageAssumption, NullAssumption
<1>. DEFINE Step == [Promise!DiskNext]_(Promise!diskVars)

\* Steps that the host does not see.
<1>1. ASSUME UNCHANGED <<medium, buf, cmd, ss, addr, stale>>,
             upc' = upc \/ {upc, upc'} \cap ({"idle"} \cup Senses) = {}
      PROVE  Step
  <2>1. answerBar' = answerBar /\ requestBar' = requestBar
    BY <1>1 DEF answerBar, Answered, requestBar
  <2>2. movedBar' = movedBar
    BY <1>1, SameDone
  <2>. QED
    BY <1>1, <2>1, <2>2 DEF Promise!diskVars
<1>2. CASE stale'
  BY <1>2 DEF Promise!DiskNext, Promise!Undefined
<1>3. CASE MscDiskInit \/ UsbLoad \/ UsbTake
  <2>1. UNCHANGED <<medium, buf, cmd, ss, addr, stale>>
    BY <1>3 DEF MscDiskInit, UsbLoad, UsbTake, usbVars
  <2>2. upc' = upc \/ {upc, upc'} \cap ({"idle"} \cup Senses) = {}
    BY <1>3 DEF MscDiskInit, UsbLoad, UsbTake, usbVars, Job, Senses
  <2>. QED
    BY <1>1, <2>1, <2>2
<1>4. CASE Console \/ UNCHANGED vars
  <2>1. UNCHANGED <<medium, buf, cmd, ss, addr, stale, upc>>
    BY <1>4, ConsoleSteps DEF vars, usbVars
  <2>. QED
    BY <1>1, <2>1
<1>5. CASE HostAsks
  <2>1. upc = "idle" /\ upc' = "present" /\ medium' = medium /\ ~stale /\ ~stale' /\ addr' = 0
    BY <1>5 DEF HostAsks, SpanInv, Early
  <2>2. requestBar = Promise!Idle /\ requestBar'.asked = TRUE
    BY <2>1 DEF requestBar, Promise!Idle
  <2>3. requestBar' # Promise!Idle
    BY <2>2 DEF Promise!Idle
  <2>4. movedBar' = {}
    BY <2>1, NoneMoved
  <2>5. answerBar' = Null
    BY <2>1 DEF answerBar, Answered, Senses
  <2>6. Promise!Ask
    BY <2>1, <2>2, <2>3, <2>4, <2>5 DEF Promise!Ask
  <2>. QED
    BY <2>6 DEF Promise!DiskNext
<1>6. CASE UsbPresent
  <2>1. /\ upc = "present" /\ UNCHANGED <<medium, buf, cmd, ss, addr, stale>>
        /\ upc' \in {"not ready", "size"}
    BY <1>6 DEF UsbPresent, Answers
  <2>2. CASE upc' = "size"
    <3>1. {upc, upc'} \cap ({"idle"} \cup Senses) = {}
      BY <2>1, <2>2 DEF Senses
    <3>. QED
      BY <1>1, <2>1, <3>1
  <2>3. CASE upc' = "not ready"
    <3>1. ~stale /\ movedBar' = movedBar
      BY <2>1, SameDone DEF SpanInv
    <3>2. Promise!Answer
      BY <2>1, <2>3, <3>1, GivesUp DEF Senses
    <3>. QED
      BY <3>2 DEF Promise!DiskNext
  <2>. QED
    BY <2>1, <2>2, <2>3
<1>7. CASE (UsbSize \/ UsbCount) /\ ~stale'
  <2>1. /\ upc \in {"size of", "count of"} /\ UNCHANGED <<medium, buf, cmd>> /\ ~stale
        /\ upc' \in {"medium error", "illegal request", "count", "span"}
        /\ upc = "count of" => ss' = ss
        /\ upc = "size of" => addr' = addr
        /\ addr' = addr \/ addr' = cmd.lba * ss + cmd.offset
    BY <1>7 DEF UsbSize, UsbCount, Answers
  <2>2. addr = 0 /\ stale' = stale
    <3>1. addr = 0
      BY <2>1 DEF SpanInv, Early
    <3>2. stale' = FALSE /\ stale = FALSE
      BY <1>7, <2>1 DEF UsbSize, UsbCount, CardOK
    <3>. QED
      BY <3>1, <3>2
  <2>3. movedBar = {} /\ movedBar' = {}
    <3>1. addr' = 0 \/ addr' = First'
      BY <2>1, <2>2 DEF First
    <3>. QED
      BY <2>2, <3>1, EarlyMoved, NoneMoved
  <2>4. CASE upc' \in {"count", "span"}
    <3>1. answerBar' = answerBar /\ requestBar' = requestBar
      BY <2>1, <2>4 DEF answerBar, Answered, requestBar, Senses
    <3>. QED
      BY <2>1, <2>2, <2>3, <3>1 DEF Promise!diskVars
  <2>5. CASE upc' \in {"medium error", "illegal request"}
    <3>1. Promise!Answer
      BY <2>1, <2>2, <2>3, <2>5, GivesUp DEF Senses
    <3>. QED
      BY <3>1 DEF Promise!DiskNext
  <2>. QED
    BY <2>1, <2>4, <2>5
<1>8. CASE UsbDone /\ ~stale'
  <2>1. /\ upc = "span" /\ addr >= End /\ upc' = "ok" /\ ~stale
        /\ UNCHANGED <<medium, buf, cmd, ss, addr, stale>>
    BY <1>8 DEF UsbDone, Answers
  <2>2. First =< addr /\ addr =< End
    BY <2>1 DEF SpanInv, Spanning
  <2>3. Done = cmd.len
    <3>1. addr = End
      BY <2>1, <2>2, FirstEnd DEF TransferOK
    <3>. QED
      BY <3>1, FirstEnd DEF Done
  <2>4. movedBar = DOMAIN requestBar.at /\ requestBar # Promise!Idle
    BY <2>1, <2>3, Bar DEF movedBar
  <2>5. movedBar' = movedBar /\ requestBar' = requestBar
    BY <2>1, SameDone DEF requestBar
  <2>6. answerBar = Null /\ answerBar' = "ok"
    BY <2>1 DEF answerBar, Answered, Senses
  <2>7. Promise!Answer
    BY <2>1, <2>4, <2>5, <2>6 DEF Promise!Answer
  <2>. QED
    BY <2>7 DEF Promise!DiskNext
<1>9. CASE (UsbRead \/ UsbWrite) /\ ~stale'
  <2>1. ~stale /\ upc \in Jobs /\ upc' \in {"span", "merge", "medium error"}
    <3>1. stale' = stale /\ upc \in Jobs
      BY <1>9 DEF UsbRead, UsbWrite, Jobs
    <3>2. upc' \in {"span", "merge", "medium error"}
      BY <1>9 DEF UsbRead, UsbWrite, UsbFails, Advances, Answers
    <3>. QED
      BY <1>9, <3>1, <3>2
  <2>2. Promise!Move
    BY <1>9, <2>1, Moves
  <2>3. CASE upc' # "medium error"
    <3>1. answerBar' = Null
      BY <2>1, <2>3 DEF answerBar, Answered, Senses
    <3>. QED
      BY <2>2, <3>1 DEF Promise!DiskNext
  <2>4. CASE upc' = "medium error"
    <3>1. answerBar = Null /\ answerBar' = "medium error"
      BY <2>1, <2>4 DEF answerBar, Answered, Senses, Jobs
    <3>2. requestBar # Promise!Idle
      BY <2>1, Bar DEF Jobs
    <3>3. Promise!Answer
      BY <2>2, <3>1, <3>2 DEF Promise!Answer, Promise!Fails
    <3>. QED
      BY <3>3 DEF Promise!DiskNext
  <2>. QED
    BY <2>3, <2>4
<1>10. CASE UsbReturns
  <2>1. /\ upc \in Senses /\ upc' = "idle" /\ addr' = 0 /\ ~stale' /\ medium' = medium
    BY <1>10 DEF UsbReturns, Answered
  <2>2. answerBar # Null /\ answerBar' = Null
    BY <2>1 DEF answerBar, Answered, Senses
  <2>3. requestBar' = Promise!Idle
    BY <2>1 DEF requestBar, Promise!Idle
  <2>4. movedBar' = {}
    BY <2>1, NoneMoved
  <2>5. Promise!Forget
    BY <2>1, <2>2, <2>3, <2>4 DEF Promise!Forget
  <2>. QED
    BY <2>5 DEF Promise!DiskNext
<1>. QED
  BY <1>2, <1>3, <1>4, <1>5, <1>6, <1>7, <1>8, <1>9, <1>10 DEF Next, Usb

(* The storage keeps what Disk promises the host of a transfer: "ok" is    *)
(* every byte moved, no byte outside the request is touched, a failure in  *)
(* the middle leaves old or new bytes, for any sector size, any cut of the *)
(* request and whatever the console does meanwhile.                        *)
THEOREM DiskKept == Spec => DiskRefined
<1>1. Init => Promise!DiskInit
  <2>. SUFFICES ASSUME Init PROVE Promise!DiskInit
    OBVIOUS
  <2>1. upc = "idle" /\ addr = 0 /\ stale = FALSE
    BY DEF Init
  <2>2. movedBar = {}
    BY <2>1, TransferInit, EarlyMoved
  <2>3. requestBar = Promise!Idle /\ answerBar = Null
    BY <2>1 DEF requestBar, Promise!Idle, answerBar, Answered, Senses
  <2>. QED
    BY <2>1, <2>2, <2>3 DEF Promise!DiskInit
<1>2. Spec => [](CardOK /\ LockInv /\ HeapInv /\ PowerInv)
  BY CardInit, CardStep, PTL DEF Spec
<1>3. /\ CardOK /\ LockInv /\ HeapInv /\ PowerInv
      /\ TransferOK /\ SpanInv /\ BounceInv /\ MovedInv
      /\ [Next]_vars
      => /\ TransferOK' /\ SpanInv' /\ BounceInv' /\ MovedInv'
         /\ [Promise!DiskNext]_(Promise!diskVars)
  BY TransferStep, SpanStep, BounceStep, MovedStep, DiskStep
<1>. QED
  BY <1>1, <1>2, <1>3, TransferInit, PTL DEF Spec, DiskRefined, Promise!DiskSpec
=============================================================================
