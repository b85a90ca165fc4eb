----------------------------- MODULE OathStore -----------------------------
(***************************************************************************)
(* The YKOATH applet (main/security/oath_proto.c, main/usb/mode_oath.c) on *)
(* the store of secrets it shares with the OTP mode (sec_store.c).         *)
(*                                                                         *)
(* The applet runs on the CCID worker, one command at a time; a command    *)
(* that destroys a secret waits for the touch before the next is taken.    *)
(* The store changes in RAM first, then all of it is written as one blob;  *)
(* an account is written twice, without and then with its digits.  A write *)
(* may fail and the power may be cut between any two steps.  SET TIME and  *)
(* every refusal that comes before a touch change nothing here and are not *)
(* steps.                                                                  *)
(***************************************************************************)
EXTENDS Naturals, Sequences, FiniteSets

CONSTANTS
    NSlots,     \* SEC_N_SLOTS: 16
    Names,      \* labels
    Foreign,    \* the label of the OTP mode's slot
    Page,       \* accounts in one answer; the real cut is 255 bytes
    MaxKeys     \* bound: secrets ever provisioned

ASSUME OathAssumption ==
    /\ NSlots \in Nat \ {0} /\ Page \in Nat \ {0} /\ MaxKeys \in Nat
    /\ Foreign \in Names

Slots == 1 .. NSlots
Keys == 1 .. MaxKeys
OtpKey == MaxKeys + 1
NoSlot == 0

Empty == [kind |-> "empty"]
Otp == [kind |-> "hmac", name |-> Foreign, key |-> OtpKey, digits |-> FALSE]
Account(n, k) == [kind |-> "oath", name |-> n, key |-> k, digits |-> FALSE]
SlotType == {Empty, Otp} \cup
    [kind : {"oath"}, name : Names, key : Keys, digits : BOOLEAN]
NewStore == [i \in Slots |-> Empty]

\* sec_store_clear_slot() and sec_store_set_digits(), which then write.
Cleared(s, i) == [s EXCEPT ![i] = Empty]
WithDigits(s, i) == [s EXCEPT ![i].digits = TRUE]

VARIABLES
    up,         \* the OATH mode is started
    store,      \* s_slots
    nvs,        \* the blob sec_slots; <<>> when absent
    selected,   \* oath_ctx_t.selected
    pending,    \* the labels that SEND REMAINING has still to serve
    cmd         \* the command under way

\* History: secrets provisioned so far, those whose destruction was granted,
\* and whether a write failed since the last answer was dropped.
VARIABLES lastKey, given, failed

vars == <<up, store, nvs, selected, pending, cmd, lastKey, given, failed>>

Rest == [op |-> "none", pc |-> "rest", slot |-> NoSlot, key |-> 0,
         digits |-> FALSE, sw |-> "ok"]

TypeOK ==
    /\ up \in BOOLEAN /\ selected \in BOOLEAN /\ failed \in BOOLEAN
    /\ store \in [Slots -> SlotType]
    /\ nvs \in [Slots -> SlotType] \cup {<<>>}
    /\ pending \in Seq(Names)
    /\ cmd \in [op : {"none", "put", "replace", "delete", "rename", "reset", "code"},
                pc : {"rest", "touch", "persist", "digits", "answer"},
                slot : Slots \cup {NoSlot}, key : 0 .. MaxKeys,
                digits : BOOLEAN, sw : {"ok", "memory", "denied"}]
    /\ lastKey \in 0 .. MaxKeys /\ given \subseteq Keys

Init ==
    /\ up = FALSE /\ selected = FALSE /\ pending = <<>> /\ cmd = Rest
    /\ store = NewStore
    /\ nvs \in {<<>>} \cup {[NewStore EXCEPT ![i] = Otp] : i \in Slots}
    /\ lastKey = 0 /\ given = {} /\ failed = FALSE
-----------------------------------------------------------------------------
IsOath(i) == store[i].kind = "oath"
IsNamed(i, n) == store[i] # Empty /\ store[i].name = n

\* oath_find_slot(): the applet sees its own accounts alone.
Finds(n, i) == IsOath(i) /\ IsNamed(i, n)

\* Mutant: the search for a taken label is that of the applet.
TakenOwn(n) == {i \in Slots : Finds(n, i)}

\* oath_label_taken(): over the whole store.
Taken(n) == {i \in Slots : IsNamed(i, n)}

\* Mutant: a slot that is not an account's.
FreeNotOath(i) == ~IsOath(i) /\ \A j \in 1 .. i - 1 : IsOath(j)

\* A free slot is an empty one, the first.
Free(i) == store[i] = Empty /\ \A j \in 1 .. i - 1 : store[j] # Empty

Accounts == {i \in Slots : IsOath(i)}

\* oath_emit_chunk() goes through the slots in order.
Listing ==
    LET oath == Accounts
    IN [j \in 1 .. Cardinality(oath) |->
           store[CHOOSE i \in oath : Cardinality({l \in oath : l < i}) = j - 1].name]
After(page) == SubSeq(page, Page + 1, Len(page))

\* oath_store_changed().
Purge == pending' = <<>> /\ failed' = FALSE
-----------------------------------------------------------------------------
(* mode_oath_start(): an absent blob leaves the RAM as it is.              *)
Start ==
    /\ ~up /\ up' = TRUE
    /\ store' = IF nvs = <<>> THEN store ELSE nvs
    /\ selected' = FALSE /\ Purge
    /\ UNCHANGED <<nvs, cmd, lastKey, given>>

(* mode_oath_stop(): ccid_shutdown() refuses the touch that a command      *)
(* waits for and lets any other end (2 s at most, see CcidPipe); then the  *)
(* context is erased, and with it the secret of a PUT that waited.         *)
Stop ==
    /\ up /\ cmd.pc \in {"rest", "touch"}
    /\ up' = FALSE /\ selected' = FALSE /\ Purge
    /\ cmd' = Rest
    /\ UNCHANGED <<store, nvs, lastKey, given>>

PowerCut ==
    /\ up' = FALSE /\ selected' = FALSE /\ Purge
    /\ store' = NewStore /\ cmd' = Rest
    /\ UNCHANGED <<nvs, lastKey, given>>

Select ==
    /\ up /\ cmd = Rest
    /\ selected' = TRUE /\ Purge
    /\ UNCHANGED <<up, store, nvs, cmd, lastKey, given>>
-----------------------------------------------------------------------------
Ready == up /\ selected /\ cmd = Rest
Begin(op, pc, i, k, d) ==
    cmd' = [op |-> op, pc |-> pc, slot |-> i, key |-> k, digits |-> d, sw |-> "ok"]

(* LIST and CALCULATE ALL; an answer that is too long is served in pages.  *)
List ==
    /\ Ready
    /\ pending' = After(Listing) /\ failed' = FALSE
    /\ UNCHANGED <<up, store, nvs, selected, cmd, lastKey, given>>

SendRemaining ==
    /\ Ready /\ pending # <<>>
    /\ pending' = After(pending)
    /\ UNCHANGED <<up, store, nvs, selected, cmd, lastKey, given, failed>>

(* PUT of a label nobody bears: no touch.                                  *)
Put(n) ==
    /\ Ready /\ lastKey < MaxKeys
    /\ Taken(n) = {}
    /\ lastKey' = lastKey + 1
    /\ \E i \in Slots :
          /\ Free(i)
          /\ store' = [store EXCEPT ![i] = Account(n, lastKey')]
          /\ Begin("put", "persist", i, lastKey', TRUE)
    /\ UNCHANGED <<up, nvs, selected, pending, given, failed>>

(* PUT over an account of the applet: it will destroy the old secret.      *)
Replace(n) ==
    /\ Ready /\ lastKey < MaxKeys
    /\ lastKey' = lastKey + 1
    /\ \E i \in Slots : Finds(n, i) /\ Begin("replace", "touch", i, lastKey', TRUE)
    /\ UNCHANGED <<up, store, nvs, selected, pending, given, failed>>

Delete(n) ==
    /\ Ready
    /\ \E i \in Slots : Finds(n, i) /\ Begin("delete", "touch", i, 0, FALSE)
    /\ UNCHANGED <<up, store, nvs, selected, pending, lastKey, given, failed>>

(* CALCULATE: the code of one account, with the touch.                     *)
Calculate(n) ==
    /\ Ready
    /\ \E i \in Slots : Finds(n, i) /\ Begin("code", "touch", i, 0, FALSE)
    /\ UNCHANGED <<up, store, nvs, selected, pending, lastKey, given, failed>>

Reset ==
    /\ Ready
    /\ Begin("reset", "touch", NoSlot, 0, FALSE)
    /\ UNCHANGED <<up, store, nvs, selected, pending, lastKey, given, failed>>

(* RENAME: no touch; the slot is written anew, without its digits.         *)
Rename(old, new) ==
    /\ Ready
    /\ \E i \in Slots :
          /\ Finds(old, i) /\ Taken(new) \subseteq {i}
          /\ store' = [store EXCEPT ![i] = Account(new, store[i].key)]
          /\ Begin("rename", "persist", i, store[i].key, store[i].digits)
    /\ UNCHANGED <<up, nvs, selected, pending, lastKey, given, failed>>
-----------------------------------------------------------------------------
Denied ==
    /\ cmd.pc = "touch"
    /\ cmd' = [cmd EXCEPT !.pc = "answer", !.sw = "denied"]
    /\ UNCHANGED <<up, store, nvs, selected, pending, lastKey, given, failed>>

\* The next account RESET clears, NoSlot when there is none left.
NextOath(i) ==
    IF \E j \in Slots : j > i /\ IsOath(j)
    THEN CHOOSE j \in Slots : j > i /\ IsOath(j)
                              /\ \A l \in i + 1 .. j - 1 : ~IsOath(l)
    ELSE NoSlot

ClearNext(i, sw) ==
    IF NextOath(i) = NoSlot
    THEN cmd' = [cmd EXCEPT !.pc = "answer", !.sw = sw] /\ UNCHANGED store /\ Purge
    ELSE /\ cmd' = [cmd EXCEPT !.pc = "persist", !.sw = sw, !.slot = NextOath(i)]
         /\ store' = Cleared(store, NextOath(i))
         /\ UNCHANGED <<pending, failed>>

(* oath_finish_calculate(): an account without its digits has no code.     *)
FinishCalculate ==
    /\ cmd.pc = "touch" /\ cmd.op = "code"
    /\ cmd' = [cmd EXCEPT !.pc = "answer",
                          !.sw = IF store[cmd.slot].digits THEN "ok" ELSE "memory"]
    /\ UNCHANGED <<up, store, nvs, selected, pending, lastKey, given, failed>>

(* oath_touch_commit(): the touch was given; RAM first.                    *)
Granted ==
    /\ cmd.pc = "touch"
    /\ \/ /\ cmd.op \in {"replace", "delete"} /\ IsOath(cmd.slot)
          /\ given' = given \cup {store[cmd.slot].key}
          /\ store' = IF cmd.op = "delete" THEN Cleared(store, cmd.slot)
                      ELSE [store EXCEPT ![cmd.slot] = Account(@.name, cmd.key)]
          /\ cmd' = [cmd EXCEPT !.pc = "persist"]
          /\ UNCHANGED <<pending, failed>>
       \/ /\ cmd.op = "reset"
          /\ given' = given \cup {store[i].key : i \in Accounts}
          /\ ClearNext(NoSlot, "ok")
    /\ UNCHANGED <<up, nvs, selected, lastKey>>

\* Mutant: the answer that was cut is kept.
WrittenKeepsPage ==
    /\ UNCHANGED <<pending, failed>>
    /\ IF cmd.digits
       THEN /\ store' = WithDigits(store, cmd.slot)
            /\ cmd' = [cmd EXCEPT !.pc = "digits"]
       ELSE UNCHANGED store /\ cmd' = [cmd EXCEPT !.pc = "answer"]

\* After the first write of an account, or that of a DELETE.
Written ==
    /\ Purge
    /\ IF cmd.digits
       THEN /\ store' = WithDigits(store, cmd.slot)
            /\ cmd' = [cmd EXCEPT !.pc = "digits"]
       ELSE UNCHANGED store /\ cmd' = [cmd EXCEPT !.pc = "answer"]

(* sec_store_persist() succeeds.                                           *)
Persist ==
    /\ cmd.pc \in {"persist", "digits"}
    /\ nvs' = store
    /\ \/ cmd.pc = "persist" /\ cmd.op # "reset" /\ Written
       \/ cmd.pc = "persist" /\ cmd.op = "reset" /\ ClearNext(cmd.slot, cmd.sw)
       \/ /\ cmd.pc = "digits" /\ cmd' = [cmd EXCEPT !.pc = "answer"]
          /\ UNCHANGED <<store, pending, failed>>
    /\ UNCHANGED <<up, selected, lastKey, given>>

\* Mutant: a failure is not told.
GiveUpSilent ==
    /\ cmd' = [cmd EXCEPT !.pc = "answer"]
    /\ IF cmd.op = "rename" \/ cmd.pc = "digits"
       THEN pending' = <<>> /\ UNCHANGED failed
       ELSE UNCHANGED pending /\ failed' = TRUE

\* Only RENAME drops the answer that was cut although its write failed; at
\* the second write it has been dropped.
GiveUp ==
    /\ cmd' = [cmd EXCEPT !.pc = "answer", !.sw = "memory"]
    /\ IF cmd.op = "rename" \/ cmd.pc = "digits"
       THEN pending' = <<>> /\ UNCHANGED failed
       ELSE UNCHANGED pending /\ failed' = TRUE

(* It fails, perhaps after the blob was written: 6581.  The RAM keeps what *)
(* was changed; RESET goes on with the other accounts.                     *)
PersistFails ==
    /\ cmd.pc \in {"persist", "digits"}
    /\ nvs' \in {nvs, store}
    /\ \/ cmd.op # "reset" /\ GiveUp /\ UNCHANGED store
       \/ cmd.op = "reset" /\ ClearNext(cmd.slot, "memory")
    /\ UNCHANGED <<up, selected, lastKey, given>>

Answer ==
    /\ cmd.pc = "answer"
    /\ cmd' = Rest
    /\ UNCHANGED <<up, store, nvs, selected, pending, lastKey, given, failed>>

Command ==
    \/ Select \/ List \/ SendRemaining \/ Reset
    \/ \E n \in Names : Put(n) \/ Replace(n) \/ Delete(n) \/ Calculate(n)
    \/ \E old, new \in Names : Rename(old, new)

Next ==
    \/ Start \/ Stop \/ PowerCut \/ Command \/ Denied \/ Granted
    \/ FinishCalculate \/ Persist \/ PersistFails \/ Answer

Spec == Init /\ [][Next]_vars
-----------------------------------------------------------------------------
(* No two slots bear the same label, the OTP mode's included: one of them  *)
(* could never be reached, hence never be erased (oath_label_taken()).     *)
NamesUnique ==
    \A i, j \in Slots : i # j /\ store[i] # Empty /\ store[j] # Empty
                        => store[i].name # store[j].name

Stored == IF nvs = <<>> THEN {}
          ELSE {nvs[i].key : i \in {j \in Slots : nvs[j] # Empty}}

(* "No secret leaves without a gesture" (mode_oath.c): a secret disappears *)
(* from the NVS only if its own destruction was granted, whatever failed   *)
(* or was cut before, and the OTP mode's never.                            *)
NothingLostUntouched == [][Stored \ Stored' \subseteq given]_vars

(* A change answered with 9000 survives a power cut.  RESET without an     *)
(* account in RAM writes nothing, and is not concerned.                    *)
AnsweredIsStored ==
    cmd.pc = "answer" /\ cmd.sw = "ok" /\ cmd.slot # NoSlot /\ cmd.op # "code"
       => nvs = store

(* SEND REMAINING serves the end of the list as it is now, unless a write  *)
(* failed since that list was made (oath_store_changed()).                 *)
PageIsCurrent ==
    cmd = Rest /\ ~failed =>
        LET all == Listing
        IN \E k \in 0 .. Len(all) : pending = SubSeq(all, k + 1, Len(all))
=============================================================================
