------------------------------ MODULE Storage ------------------------------
(***************************************************************************)
(* The mass storage: usb_task serves the host's READ(10) and WRITE(10)     *)
(* (usb/msc_disk.c), cut into sector accesses by usb/msc_lba.c, while the  *)
(* console probes the card again or measures it (storage/sd_card.c,        *)
(* console/console.c).  The accesses and the probe take s_lock;            *)
(* sd_present(), sd_sector_size() and sd_sector_count() read s_card        *)
(* without it.                                                             *)
(*                                                                         *)
(* The medium is never exchanged (docs/HARDWARE.md: only with the power    *)
(* off); a probe of it may fail, on either power path.  A byte is the      *)
(* transfer that wrote it and its place there.                             *)
(***************************************************************************)
EXTENDS Naturals, FiniteSetsExt

CONSTANTS
    SectorSize, SectorCount,    \* the medium: csd.sector_size, csd.capacity
    Base,       \* 512: the least size of the bounce buffer
    Blocks,     \* heap blocks a sdmmc_card_t may be given
    Null,
    MaxBuf,     \* CFG_TUD_MSC_EP_BUFSIZE
    Lengths,    \* of the buffers TinyUSB presents
    Offsets,    \* of the transfers into their first sector
    MaxCmd      \* bound: number of transfers the host asks for

ASSUME StorageAssumption ==
    /\ SectorSize \in Nat \ {0} /\ SectorCount \in Nat \ {0} /\ Base \in Nat \ {0}
    /\ MaxBuf \in Nat /\ Lengths \subseteq 0 .. MaxBuf /\ Offsets \subseteq Nat
    /\ MaxCmd \in Nat

\* The holders of the lock, and how a transfer ends.
Holders == {"usb", "console"}
Senses == {"ok", "not ready", "medium error", "illegal request"}

ASSUME NullAssumption == Null \notin Blocks \cup Holders \cup Senses

VARIABLES
    medium,     \* the bytes on the card
    lock,       \* s_lock: who holds it
    card,       \* s_card
    heap,       \* per block: free, being initialised, or a card in use
    host, pwr, path, \* s_host_ready, s_pwr # NULL, s_path
    bounce,     \* the bytes of s_bounce: none while it is NULL
    upc, cmd,   \* usb_task: where it is, and the callback's arguments
    ptr, ss,    \* s_card as loaded, and sd_sector_size()
    addr, buf,  \* the iterator, and the buffer of the callback
    cpc, attempt, \* the console: where it is, and the power path its probe
                \* tries now, or next
    stale       \* history: the transfer's geometry was read from freed memory

cardVars == <<card, heap, host, pwr, path>>
usbVars == <<upc, cmd, ptr, ss, addr, buf>>
consVars == <<cpc, attempt>>
vars == <<medium, lock, cardVars, bounce, usbVars, consVars, stale>>

Capacity == SectorSize * SectorCount
NoCmd == [n |-> 0, write |-> FALSE, lba |-> 0, offset |-> 0, len |-> 0, dma |-> FALSE]
Blank == [i \in 0 .. MaxBuf - 1 |-> <<0, 0>>]

\* Booted: the first probe is over, with a card or without one.
Init ==
    /\ medium = [a \in 0 .. Capacity - 1 |-> <<0, a>>]
    /\ lock = Null /\ bounce = <<>>
    /\ \/ /\ card \in Blocks
          /\ heap = [b \in Blocks |-> IF b = card THEN "ready" ELSE "free"]
          /\ host = TRUE /\ path \in {"external", "ldo"} /\ pwr = (path = "ldo")
       \/ /\ card = Null /\ heap = [b \in Blocks |-> "free"]
          /\ host = FALSE /\ pwr = FALSE /\ path = "unknown"
    /\ upc = "idle" /\ cmd = NoCmd /\ ptr = Null /\ ss = 0
    /\ addr = 0 /\ buf = Blank
    /\ cpc = "idle" /\ attempt = "none"
    /\ stale = FALSE
-----------------------------------------------------------------------------
(* sd_sector_size(), sd_sector_count(): s_card is loaded, tested and       *)
(* followed.  sdmmc_card_init() fills the block in; a freed block holds    *)
(* what it held, zeros, or another owner's bytes.                          *)
FieldOf(p, real) ==
    IF p = Null THEN {0}
    ELSE CASE heap[p] = "ready" -> {real}
           [] heap[p] = "init" -> {0, real}
           [] heap[p] = "free" -> {0, real, real + 1}

(* sd_card_init() ran before; the bounce buffer is allocated on the first  *)
(* entry into the mode, for the card seen then.                            *)
MscDiskInit ==
    /\ DOMAIN bounce = {}
    /\ \E size \in FieldOf(card, SectorSize) :
         bounce' = [i \in 0 .. Max({Base, size}) - 1 |-> <<0, 0>>]
    /\ UNCHANGED <<medium, lock, cardVars, usbVars, consVars, stale>>

BounceSize == Cardinality(DOMAIN bounce)
-----------------------------------------------------------------------------
(* tud_msc_read10_cb(), tud_msc_write10_cb() and transfer(). *)
HostAsks ==
    /\ upc = "idle" /\ DOMAIN bounce # {} /\ cmd.n < MaxCmd
    /\ \E w, d \in BOOLEAN, lba \in 0 .. SectorCount, off \in Offsets,
          len \in Lengths :
         /\ cmd' = [n |-> cmd.n + 1, write |-> w, lba |-> lba, offset |-> off,
                    len |-> len, dma |-> d]
         /\ buf' = [i \in 0 .. MaxBuf - 1 |->
                      IF w /\ i < len THEN <<cmd.n + 1, i>> ELSE <<0, 0>>]
    /\ upc' = "present"
    /\ UNCHANGED <<medium, lock, cardVars, bounce, ptr, ss, addr, consVars, stale>>

Answers(sense) == upc' = sense

UsbPresent ==
    /\ upc = "present"
    /\ IF card = Null THEN Answers("not ready") ELSE upc' = "size"
    /\ UNCHANGED <<medium, lock, cardVars, bounce, cmd, ptr, ss, addr, buf, consVars, stale>>

UsbLoad ==
    /\ upc \in {"size", "count"}
    /\ ptr' = card
    /\ upc' = IF upc = "size" THEN "size of" ELSE "count of"
    /\ UNCHANGED <<medium, lock, cardVars, bounce, cmd, ss, addr, buf, consVars, stale>>

Dangling == ptr # Null /\ heap[ptr] = "free"

UsbSize ==
    /\ upc = "size of"
    /\ \E f \in FieldOf(ptr, SectorSize) :
         /\ ss' = f
         /\ IF f = 0 \/ f > BounceSize THEN Answers("medium error") ELSE upc' = "count"
    /\ stale' = (stale \/ Dangling)
    /\ UNCHANGED <<medium, lock, cardVars, bounce, cmd, ptr, addr, buf, consVars>>

(* msc_lba_begin(): in 64 bits, so that nothing wraps. *)
Begin(count) ==
    /\ count # 0 /\ cmd.len # 0
    /\ cmd.lba < count
    /\ cmd.offset < (count - cmd.lba) * ss
    /\ cmd.len =< count * ss - (cmd.lba * ss + cmd.offset)

UsbCount ==
    /\ upc = "count of"
    /\ \E f \in FieldOf(ptr, SectorCount) :
         IF Begin(f)
         THEN upc' = "span" /\ addr' = cmd.lba * ss + cmd.offset
         ELSE Answers("illegal request") /\ UNCHANGED addr
    /\ stale' = (stale \/ Dangling)
    /\ UNCHANGED <<medium, lock, cardVars, bounce, cmd, ptr, ss, buf, consVars>>
-----------------------------------------------------------------------------
(* msc_lba_next(): the next span of the request, and how it is moved. *)
First == cmd.lba * ss + cmd.offset
End == First + cmd.len
Done == addr - First
Sector == addr \div ss
InSector == addr % ss
Whole == InSector = 0 /\ End - addr >= ss
Direct == Whole /\ cmd.dma
Sectors == IF Direct THEN (End - addr) \div ss ELSE 1
Bytes == IF Whole THEN Sectors * ss ELSE Min({ss - InSector, End - addr})

(* memcpy() into the bounce buffer, and out of it. *)
Merged == [i \in DOMAIN bounce |->
             IF i \in InSector .. InSector + Bytes - 1
             THEN buf[Done + i - InSector] ELSE bounce[i]]
Unpacked(sector) == [i \in DOMAIN buf |->
             IF i \in Done .. Done + Bytes - 1 /\ InSector + i - Done \in DOMAIN sector
             THEN sector[InSector + i - Done] ELSE buf[i]]

\* Mutant: a partial write starts from whatever the bounce buffer holds.
JobBlind == IF Direct THEN "direct" ELSE IF cmd.write THEN "put" ELSE "fetch"

\* A write of a part of a sector reads the sector first.
Job == IF Direct THEN "direct" ELSE IF cmd.write /\ Whole THEN "put" ELSE "fetch"

UsbDone ==
    /\ upc = "span" /\ addr >= End
    /\ Answers("ok")
    /\ UNCHANGED <<medium, lock, cardVars, bounce, cmd, ptr, ss, addr, buf, consVars, stale>>

UsbTake ==
    /\ \/ upc = "span" /\ addr < End /\ upc' = Job
       \/ upc = "merge" /\ upc' = "put"
    /\ lock = Null /\ lock' = "usb"
    /\ bounce' = IF upc' = "put" THEN Merged ELSE bounce
    /\ UNCHANGED <<medium, cardVars, cmd, ptr, ss, addr, buf, consVars, stale>>

(* sd_read_sectors(), sd_write_sectors(): check_range(), then the driver,  *)
(* which may fail, a write after some of its sectors.                      *)
InRange == card # Null /\ Sector + Sectors =< SectorCount
OnCard(k, data) == [a \in DOMAIN medium |->
    LET i == a - Sector * SectorSize
    IN  IF i \in 0 .. k * SectorSize - 1 /\ i \in DOMAIN data THEN data[i] ELSE medium[a]]
FromCard == [i \in 0 .. Sectors * SectorSize - 1 |-> medium[Sector * SectorSize + i]]
FromBuf == [i \in 0 .. MaxBuf - 1 - Done |-> buf[Done + i]]

UsbFails ==
    /\ Answers("medium error")
    /\ lock' = Null
    /\ UNCHANGED <<bounce, addr, buf>>

\* Mutant: the iterator stays where it is.
AdvancesNot == upc' = "span" /\ lock' = Null /\ UNCHANGED addr

Advances == upc' = "span" /\ addr' = addr + Bytes /\ lock' = Null

UsbRead ==
    /\ upc = "fetch" \/ (upc = "direct" /\ ~cmd.write)
    /\ \/ UsbFails
       \/ /\ InRange /\ upc = "direct" /\ Advances
          /\ buf' = Unpacked(FromCard)
          /\ UNCHANGED bounce
       \/ /\ InRange /\ upc = "fetch"
          /\ bounce' = [i \in DOMAIN bounce |->
                          IF i < SectorSize THEN FromCard[i] ELSE bounce[i]]
          /\ IF cmd.write
             THEN upc' = "merge" /\ lock' = Null /\ UNCHANGED <<addr, buf>>
             ELSE Advances /\ buf' = Unpacked(bounce')
    /\ UNCHANGED <<medium, cardVars, cmd, ptr, ss, consVars, stale>>

UsbWrite ==
    /\ upc = "put" \/ (upc = "direct" /\ cmd.write)
    /\ \/ ~InRange /\ UsbFails /\ UNCHANGED medium
       \/ /\ InRange
          /\ \E k \in 0 .. Sectors :
               /\ medium' = OnCard(k, IF upc = "put" THEN bounce ELSE FromBuf)
               /\ \/ UsbFails
                  \/ k = Sectors /\ Advances /\ UNCHANGED <<bounce, buf>>
    /\ UNCHANGED <<cardVars, cmd, ptr, ss, consVars, stale>>

\* TinyUSB sends the answer; the next command may come.
Answered == upc \in Senses
UsbReturns ==
    /\ Answered /\ upc' = "idle"
    /\ cmd' = [NoCmd EXCEPT !.n = cmd.n]
    /\ ptr' = Null /\ ss' = 0 /\ addr' = 0 /\ buf' = Blank /\ stale' = FALSE
    /\ UNCHANGED <<medium, lock, cardVars, bounce, consVars>>
-----------------------------------------------------------------------------
(* The console: cmd_sd_bench() reads chunks, sd_probe() starts again. *)
Give == lock' = Null /\ cpc' = "idle" /\ attempt' = "none"

\* Mutant: the probe does not take the lock.
ConsoleTakeNot ==
    /\ cpc = "idle" /\ cpc' = "probe"
    /\ UNCHANGED <<medium, lock, cardVars, bounce, usbVars, attempt, stale>>

ConsoleTake ==
    /\ cpc = "idle"
    /\ lock = Null /\ lock' = "console"
    /\ \/ cpc' = "probe"
       \/ card # Null /\ cpc' = "bench"
    /\ UNCHANGED <<medium, cardVars, bounce, usbVars, attempt, stale>>

ConsoleBench ==
    /\ cpc = "bench" /\ Give
    /\ UNCHANGED <<medium, cardVars, bounce, usbVars, stale>>

\* release(): the block is freed, then forgotten with the rest.
ConsoleFree ==
    /\ cpc = "probe" /\ cpc' = "release" /\ attempt' = "external"
    /\ heap' = IF card = Null THEN heap ELSE [heap EXCEPT ![card] = "free"]
    /\ UNCHANGED <<medium, lock, card, host, pwr, path, bounce, usbVars, stale>>

\* Mutant: the LDO is not given back.
ReleasedKeeps ==
    /\ card' = Null /\ host' = FALSE /\ path' = "unknown"
    /\ UNCHANGED pwr
Released == card' = Null /\ host' = FALSE /\ pwr' = FALSE /\ path' = "unknown"

ConsoleRelease ==
    /\ cpc = "release"
    /\ Released
    /\ IF attempt = "none" THEN Give
       ELSE cpc' = "attempt" /\ UNCHANGED <<lock, attempt>>
    /\ UNCHANGED <<medium, heap, bounce, usbVars, stale>>

\* probe_once(): the LDO, the host, the slot or the block may be refused.
NextPath == IF attempt = "external" THEN "ldo" ELSE "none"

ConsoleNoLdo ==
    /\ cpc = "attempt" /\ attempt = "ldo"
    /\ Give
    /\ UNCHANGED <<medium, cardVars, bounce, usbVars, stale>>

ConsoleNoHost ==
    /\ cpc = "attempt" /\ cpc' = "release"
    /\ pwr' = (attempt = "ldo") /\ host' \in BOOLEAN
    /\ attempt' = NextPath
    /\ UNCHANGED <<medium, lock, card, heap, path, bounce, usbVars, stale>>

ConsoleAlloc ==
    /\ cpc = "attempt" /\ cpc' = "card init"
    /\ pwr' = (attempt = "ldo") /\ host' = TRUE
    /\ \E b \in Blocks :
         /\ heap[b] = "free"
         /\ card' = b /\ heap' = [heap EXCEPT ![b] = "init"]
    /\ UNCHANGED <<medium, lock, path, bounce, usbVars, attempt, stale>>

\* sdmmc_card_init() succeeds, or the block is freed and the rest released.
ConsoleCardInit ==
    /\ cpc = "card init"
    /\ \/ /\ heap' = [heap EXCEPT ![card] = "ready"]
          /\ path' = attempt
          /\ Give
       \/ /\ heap' = [heap EXCEPT ![card] = "free"]
          /\ cpc' = "release" /\ attempt' = NextPath
          /\ UNCHANGED <<lock, path>>
    /\ UNCHANGED <<medium, card, host, pwr, bounce, usbVars, stale>>

Usb == \/ UsbPresent \/ UsbLoad \/ UsbSize \/ UsbCount \/ UsbDone \/ UsbTake
       \/ UsbRead \/ UsbWrite \/ UsbReturns
Console == \/ ConsoleTake \/ ConsoleBench \/ ConsoleFree \/ ConsoleRelease
           \/ ConsoleNoLdo \/ ConsoleNoHost \/ ConsoleAlloc \/ ConsoleCardInit
Next == MscDiskInit \/ HostAsks \/ Usb \/ Console

Spec == Init /\ [][Next]_vars

(* The scheduler runs both tasks, and a mutex that is given goes to the    *)
(* task that waits for it; nothing is assumed of the host or of the user   *)
(* of the console.                                                         *)
FairSpec ==
    /\ Spec
    /\ WF_vars(Usb) /\ SF_vars(UsbTake)
    /\ WF_vars(Console /\ cpc # "idle")
-----------------------------------------------------------------------------
(* The transfer as the host sees it, when its geometry is the medium's. *)
requestBar ==
    IF upc = "idle" THEN [asked |-> FALSE, write |-> FALSE, at |-> <<>>]
    ELSE [asked |-> TRUE, write |-> cmd.write, at |-> [i \in 0 .. cmd.len - 1 |->
                cmd.lba * SectorSize + cmd.offset + i]]
movedBar == 0 .. Done - 1
answerBar == IF Answered THEN upc ELSE Null

Promise == INSTANCE Disk WITH
    Bytes <- 0 .. Capacity - 1, NoAnswer <- Null,
    bytes <- medium, got <- buf, request <- requestBar, moved <- movedBar,
    answer <- answerBar, undefined <- stale

(* What the host is told of a transfer is what happened to the medium: the *)
(* spans of msc_lba.c cover the request once and nothing else, a partial   *)
(* write keeps its sector's other bytes, a failure in the middle leaves    *)
(* old or new bytes, whatever the console does meanwhile.                  *)
DiskRefined == Promise!DiskSpec

(* The driver is only ever given a card that is ready, and a bounce buffer *)
(* that holds a sector: the lock covers the range check and the transfer,  *)
(* and the buffer was sized before this card was seen.                     *)
IoIsSafe ==
    /\ lock = "usb" /\ InRange => heap[card] = "ready"
    /\ upc \in {"fetch", "put"} /\ ~stale => SectorSize =< BounceSize

(* Between two commands of the console a card that is known has its host   *)
(* and its power path, and without a card nothing stays powered, whichever *)
(* of the probe's steps failed: sd_probe(), release().                     *)
PowerFollowsCard ==
    cpc = "idle" => /\ (card # Null) = host /\ host = (path # "unknown")
                    /\ pwr = (path = "ldo")

(* Every transfer is answered, though the console may take the lock again  *)
(* and again and the card may disappear at any step.                       *)
TransferEnds == (upc = "present") ~> Answered
=============================================================================
