---------------------------- MODULE OpenPgpCard ----------------------------
(***************************************************************************)
(* The OpenPGP applet: main/security/openpgp_card.c, its data objects      *)
(* (openpgp_do.c) and their three NVS blobs, reloaded at every entry in    *)
(* the PGP mode (mode_pgp_data_load()) and after a power cut.              *)
(*                                                                         *)
(* The applet runs on the CCID worker alone, one APDU at a time.  A        *)
(* handler changes the RAM, then writes blobs one by one, then answers:    *)
(* the power may be cut between any two of these steps.  GET DATA, READ    *)
(* PUBLIC KEY, DECIPHER and INTERNAL AUTHENTICATE, and every refusal that  *)
(* comes before the first change (a touch denied, bad data), change        *)
(* nothing and are not steps.                                              *)
(***************************************************************************)
EXTENDS Naturals, Sequences

CONSTANTS
    Slots,      \* key slots; "SIG" is one of them
    Pins,       \* PIN values
    Factory,    \* the PINs of a new card
    RetryMax,   \* PW1_RETRY_MAX, PW3_RETRY_MAX: 3
    MaxKeys,    \* bound: keys imported or generated
    MaxCtr      \* bound: signatures counted by DO 93 (24 bits)

Refs == {"PW1", "PW3"}
NoKey == 0
Keys == 0 .. MaxKeys

ASSUME CardAssumption ==
    /\ "SIG" \in Slots /\ Factory \in Pins
    /\ RetryMax \in Nat \ {0} /\ MaxKeys \in Nat /\ MaxCtr \in Nat

VARIABLES
    up,         \* the mode is installed and mode_pgp_data_load() has run
    selected, terminated,
    verified,   \* "sign", "user" (PW1 modes 81 and 82) and "admin" (PW3)
    pins,       \* per reference: the PIN and the tries left
    keys,       \* s_keys
    dos,        \* C4 byte 0 ("PW1 valid for several") and the counter of DO 93
    nvs,        \* the blobs pgp_pins, pgp_keys, pgp_dos; <<>> when absent
    legacy,     \* the Phase-1 blob pgp_key is present
    cmd,        \* the command under way, and what it is about
    todo        \* the blobs it has still to write

\* History; all but the first and `spent' is given up when a write fails.
VARIABLES
    lastKey,    \* keys made so far
    guesses,    \* per reference: wrong PINs answered since the last right one
    signedBy,   \* per key: signatures answered
    spent,      \* a signature used up the last VERIFY 81 (forced mode)
    guarded,    \* keys stored while PW1 was not the factory's
    failed      \* a write of the NVS failed

ramVars == <<selected, terminated, verified, pins, keys, dos>>
runVars == <<up, nvs, legacy, cmd, todo>>
histVars == <<lastKey, guesses, signedBy, spent, guarded, failed>>
vars == <<ramVars, runVars, histVars>>

FactoryPins == [r \in Refs |-> [pin |-> Factory, retry |-> RetryMax]]
NoKeys == [s \in Slots |-> NoKey]
FactoryDos == [multi |-> FALSE, ctr |-> 0]
Blobs == {"pins", "keys", "dos"}
Idle == [kind |-> "none", about |-> "none"]
Stored(b) == nvs[b] # <<>>

PinsType == [Refs -> [pin : Pins, retry : 0 .. RetryMax]]
KeysType == [Slots -> Keys]
DosType == [multi : BOOLEAN, ctr : 0 .. MaxCtr]

TypeOK ==
    /\ up \in BOOLEAN /\ selected \in BOOLEAN /\ terminated \in BOOLEAN
    /\ verified \subseteq {"sign", "user", "admin"}
    /\ pins \in PinsType /\ keys \in KeysType /\ dos \in DosType
    /\ DOMAIN nvs = Blobs
    /\ nvs["pins"] \in PinsType \cup {<<>>}
    /\ nvs["keys"] \in KeysType \cup {<<>>}
    /\ nvs["dos"] \in DosType \cup {<<>>}
    /\ legacy \in BOOLEAN
    /\ cmd \in [kind : {"none", "load", "right", "wrong", "change", "put",
                        "key", "sign", "wipe"},
                about : Refs \cup Slots \cup {"none"}]
    /\ todo \in Seq(Blobs) /\ Len(todo) =< 3
    /\ lastKey \in Keys /\ guesses \in [Refs -> Nat]
    /\ signedBy \in [Keys -> 0 .. MaxCtr] /\ spent \in BOOLEAN
    /\ guarded \subseteq Keys /\ failed \in BOOLEAN

\* A device on its first power-up, or one that comes from Phase 1.
Init ==
    /\ up = FALSE /\ selected = FALSE /\ terminated = FALSE /\ verified = {}
    /\ pins = FactoryPins /\ keys = NoKeys /\ dos = FactoryDos
    /\ nvs = [b \in Blobs |-> <<>>]
    /\ legacy \in {l \in BOOLEAN : l => MaxKeys > 0}
    /\ cmd = Idle /\ todo = <<>>
    /\ lastKey = IF legacy THEN 1 ELSE 0
    /\ guesses = [r \in Refs |-> 0] /\ signedBy = [k \in Keys |-> 0]
    /\ spent = FALSE /\ guarded = {} /\ failed = FALSE
-----------------------------------------------------------------------------
Ready == up /\ cmd = Idle
Begin(kind, about, writes) ==
    cmd' = [kind |-> kind, about |-> about] /\ todo' = writes

\* openpgp_card_init(); its factory PINs last until a blob is loaded.
SessionReset == selected' = FALSE /\ terminated' = FALSE /\ verified' = {}

(* mode_pgp_data_load() ends by writing the objects that are missing, then *)
(* the serial number: the same blob each time, once here.                  *)
DosWritten == <<"dos">>

(* The power comes back or the mode is entered again: openpgp_card_init()  *)
(* (in ccid_drv_init()), then mode_pgp_data_load(), which is over before   *)
(* the host has enumerated the device.  An absent blob leaves what the RAM *)
(* held.                                                                   *)
Load ==
    /\ ~up
    /\ up' = TRUE
    /\ SessionReset
    /\ pins' = IF Stored("pins") THEN nvs["pins"] ELSE FactoryPins
    /\ dos' = IF Stored("dos") THEN nvs["dos"] ELSE dos
    /\ \/ /\ Stored("keys")
          /\ keys' = nvs["keys"]
          /\ Begin("load", "none", DosWritten)
       \/ /\ ~Stored("keys") /\ legacy
          /\ keys' = [keys EXCEPT !["SIG"] = 1]
          /\ Begin("load", "none", <<"keys">> \o DosWritten)
       \/ /\ ~Stored("keys") /\ ~legacy
          /\ keys' = keys
          /\ Begin("load", "none", DosWritten)
    /\ UNCHANGED <<nvs, legacy, histVars>>

\* The mode is left: the worker is at rest, the RAM stays as it is.
Leave ==
    /\ Ready /\ up' = FALSE
    /\ UNCHANGED <<ramVars, nvs, legacy, cmd, todo, histVars>>

PowerCut ==
    /\ up' = FALSE /\ cmd' = Idle /\ todo' = <<>>
    /\ SessionReset
    /\ pins' = FactoryPins /\ keys' = NoKeys /\ dos' = FactoryDos
    /\ UNCHANGED <<nvs, legacy, histVars>>
-----------------------------------------------------------------------------
Select ==
    /\ Ready /\ ~terminated
    /\ selected' = TRUE /\ verified' = {}
    /\ UNCHANGED <<terminated, pins, keys, dos, runVars, histVars>>

Rights(r) == IF r = "PW1" THEN {"sign", "user"} ELSE {"admin"}
HasTries(r) == Ready /\ selected /\ ~terminated /\ pins[r].retry > 0

(* VERIFY, the right PIN: a full counter is not written again.             *)
VerifyRight(r, w) ==
    /\ HasTries(r)
    /\ verified' = verified \cup {w}
    /\ pins' = [pins EXCEPT ![r].retry = RetryMax]
    /\ spent' = (spent /\ w # "sign")
    /\ Begin("right", r, IF pins' = pins THEN <<>> ELSE <<"pins">>)
    /\ guesses' = [guesses EXCEPT ![r] = 0]
    /\ UNCHANGED <<up, selected, terminated, keys, dos, nvs, legacy, lastKey,
                   signedBy, guarded, failed>>

\* Mutant: the counter is written only when the PIN becomes blocked.
WrongPinLazy(r) ==
    /\ HasTries(r)
    /\ pins' = [pins EXCEPT ![r].retry = @ - 1]
    /\ Begin("wrong", r, IF pins'[r].retry = 0 THEN <<"pins">> ELSE <<>>)
    /\ UNCHANGED <<up, selected, terminated, verified, keys, dos, nvs, legacy, histVars>>

(* VERIFY or CHANGE REFERENCE DATA, a wrong PIN.                           *)
WrongPin(r) ==
    /\ HasTries(r)
    /\ pins' = [pins EXCEPT ![r].retry = @ - 1]
    /\ Begin("wrong", r, <<"pins">>)
    /\ UNCHANGED <<up, selected, terminated, verified, keys, dos, nvs, legacy, histVars>>

(* CHANGE REFERENCE DATA, the right PIN; the owner's choice is not the     *)
(* factory's.                                                              *)
Change(r, new) ==
    /\ HasTries(r) /\ new # Factory
    /\ pins' = [pins EXCEPT ![r] = [pin |-> new, retry |-> RetryMax]]
    /\ verified' = verified \ Rights(r)
    /\ Begin("change", r, <<"pins">>)
    /\ guesses' = [guesses EXCEPT ![r] = 0]
    /\ UNCHANGED <<up, selected, terminated, keys, dos, nvs, legacy, lastKey,
                   signedBy, spent, guarded, failed>>

Admin == Ready /\ selected /\ ~terminated /\ "admin" \in verified

\* PUT DATA C4.  The other objects are data here; the host is assumed not to
\* write DO 93, the counter, which PUT DATA would let the administrator do.
PutData(several) ==
    /\ Admin
    /\ dos' = [dos EXCEPT !.multi = several]
    /\ Begin("put", "none", <<"dos">>)
    /\ UNCHANGED <<up, selected, terminated, verified, pins, keys, nvs, legacy, histVars>>

(* A new key in slot s, by PUT DATA DB or GENERATE ASYMMETRIC KEY PAIR.    *)
NewKey(s) ==
    /\ lastKey < MaxKeys
    /\ lastKey' = lastKey + 1
    /\ keys' = [keys EXCEPT ![s] = lastKey']
    /\ Begin("key", s, <<"keys">>)
    /\ UNCHANGED <<up, selected, terminated, verified, pins, dos, nvs, legacy,
                   guesses, signedBy, spent, guarded, failed>>

Import(s) == Admin /\ NewKey(s)

Generate(s) == Admin /\ NewKey(s)

(* PSO:CDS.  The verification is used up before the computation, which may *)
(* fail; the counter is written before the signature is given.             *)
\* Mutant: used up in the other mode.
SignTokenInverted == verified' = IF dos.multi THEN verified \ {"sign"} ELSE verified

SignToken == verified' = IF dos.multi THEN verified ELSE verified \ {"sign"}

Sign ==
    /\ Ready /\ selected /\ ~terminated /\ "sign" \in verified
    /\ keys["SIG"] # NoKey
    /\ SignToken
    /\ \/ UNCHANGED <<dos, spent, cmd, todo>>
       \/ /\ dos.ctr < MaxCtr /\ signedBy[keys["SIG"]] < MaxCtr
          /\ dos' = [dos EXCEPT !.ctr = @ + 1]
          /\ spent' = ~dos.multi
          /\ Begin("sign", "none", <<"dos">>)
    /\ UNCHANGED <<up, selected, terminated, pins, keys, nvs, legacy, lastKey,
                   guesses, signedBy, guarded, failed>>

\* Mutant: the PINs are reset first.
WipeOrderPinsFirst == <<"pins", "keys", "dos">>

(* openpgp_card_factory_reset() persists as it goes.                       *)
WipeOrder == <<"keys", "pins", "dos">>
FactoryReset ==
    /\ selected' = FALSE /\ verified' = {}
    /\ pins' = FactoryPins /\ keys' = NoKeys /\ dos' = FactoryDos
    /\ Begin("wipe", "none", WipeOrder)
    /\ guesses' = [r \in Refs |-> 0]
    /\ UNCHANGED <<lastKey, signedBy, spent, guarded, failed>>

(* TERMINATE DF: for the administrator, or when both PINs are blocked.     *)
Terminate ==
    /\ Ready /\ ~terminated
    /\ "admin" \in verified \/ \A r \in Refs : pins[r].retry = 0
    /\ terminated' = TRUE
    /\ FactoryReset
    /\ UNCHANGED <<up, nvs, legacy>>

(* ACTIVATE FILE resets once more.                                         *)
Activate ==
    /\ Ready /\ terminated
    /\ terminated' = FALSE
    /\ FactoryReset
    /\ UNCHANGED <<up, nvs, legacy>>
-----------------------------------------------------------------------------
Ram(b) == CASE b = "pins" -> pins [] b = "keys" -> keys [] OTHER -> dos

\* Mutant: any new key resets the counter.
AfterKeyAnySlot ==
    IF cmd.kind = "key" /\ Head(todo) = "keys"
    THEN dos' = [dos EXCEPT !.ctr = 0] /\ todo' = <<"dos">>
    ELSE UNCHANGED dos /\ todo' = Tail(todo)

\* ds_counter_reset() once a new signature key is stored.
AfterKey ==
    IF cmd = [kind |-> "key", about |-> "SIG"] /\ Head(todo) = "keys"
    THEN dos' = [dos EXCEPT !.ctr = 0] /\ todo' = <<"dos">>
    ELSE UNCHANGED dos /\ todo' = Tail(todo)

(* nvs_save_blob_with_total() succeeds.                                    *)
Persist ==
    /\ todo # <<>>
    /\ nvs' = [nvs EXCEPT ![Head(todo)] = Ram(Head(todo))]
    /\ AfterKey
    /\ UNCHANGED <<up, selected, terminated, verified, pins, keys, legacy, cmd, histVars>>

(* It fails, perhaps after the blob itself was written.  Only the import   *)
(* and the generation of a key undo what they did: the slot is scrubbed.   *)
(* Bound: one failure.                                                     *)
PersistFails ==
    /\ ~failed /\ todo # <<>>
    /\ nvs' \in {nvs, [nvs EXCEPT ![Head(todo)] = Ram(Head(todo))]}
    /\ failed' = TRUE
    /\ keys' = IF cmd.kind = "key" /\ Head(todo) = "keys"
               THEN [keys EXCEPT ![cmd.about] = NoKey] ELSE keys
    /\ todo' = Tail(todo)
    /\ guesses' = [r \in Refs |-> 0] /\ signedBy' = [k \in Keys |-> 0]
    /\ guarded' = {}
    /\ UNCHANGED <<up, selected, terminated, verified, pins, dos, legacy, cmd,
                   lastKey, spent>>

KeysStored == IF Stored("keys") THEN {nvs["keys"][s] : s \in Slots} \ {NoKey} ELSE {}
OwnerPin == Stored("pins") /\ nvs["pins"]["PW1"].pin # Factory

(* The answer goes out.                                                    *)
Answer ==
    /\ up /\ cmd # Idle /\ todo = <<>>
    /\ cmd' = Idle
    /\ \/ failed /\ UNCHANGED <<guesses, signedBy, guarded>>
       \/ /\ ~failed
          /\ guesses' = IF cmd.kind = "wrong"
                        THEN [guesses EXCEPT ![cmd.about] = @ + 1] ELSE guesses
          /\ signedBy' = IF cmd.kind = "sign"
                         THEN [signedBy EXCEPT ![keys["SIG"]] = @ + 1] ELSE signedBy
          /\ guarded' = IF OwnerPin THEN guarded \cup KeysStored ELSE guarded
    /\ UNCHANGED <<ramVars, up, nvs, legacy, todo, lastKey, spent, failed>>

Command ==
    \/ Select \/ Sign \/ Terminate \/ Activate
    \/ \E r \in Refs : \/ WrongPin(r)
                       \/ \E w \in Rights(r) : VerifyRight(r, w)
                       \/ \E new \in Pins : Change(r, new)
    \/ \E several \in BOOLEAN : PutData(several)
    \/ \E s \in Slots : Import(s) \/ Generate(s)

Next == Load \/ Leave \/ PowerCut \/ Command \/ Persist \/ PersistFails \/ Answer

Spec == Init /\ [][Next]_vars
-----------------------------------------------------------------------------
(* Every wrong PIN that was answered has been charged for good: what the   *)
(* card would find after a power cut allows only the tries that are left,  *)
(* unless a write failed.                                                  *)
GuessesCharged ==
    ~failed => \A r \in Refs :
       guesses[r] > 0 => Stored("pins") /\ nvs["pins"][r].retry + guesses[r] =< RetryMax

(* "Exactly one attempt per VERIFY 81": in the forced mode, two signatures *)
(* are never made on one verification, whatever happens to C4, to the      *)
(* computation and to the power in between (PSO:CDS).                      *)
OneSignaturePerVerify ==
    [][cmd.kind # "sign" /\ cmd'.kind = "sign" => ~spent]_vars

(* A reset interrupted by a power cut never leaves the owner's keys behind *)
(* the factory PIN: openpgp_card_factory_reset() wipes the keys first.     *)
KeysNeverUnguarded ==
    ~failed => (KeysStored \cap guarded # {} => OwnerPin)

(* The signature counter never claims fewer signatures than the present    *)
(* key has given, power cuts and re-entries included.                      *)
CounterCoversSignatures ==
    up /\ ~failed /\ keys["SIG"] # NoKey => dos.ctr >= signedBy[keys["SIG"]]

=============================================================================
