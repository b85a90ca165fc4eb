--------------------------- MODULE OpenPgpProofs ---------------------------
(***************************************************************************)
(* Proofs about the OpenPGP card: for every set of key slots and of PINs,  *)
(* every number of tries, of keys and of signatures, wherever the power is *)
(* cut between two blobs.                                                  *)
(***************************************************************************)
EXTENDS OpenPgpCard, SequenceTheorems, TLAPS

(* The blobs q that a command may still have to write, in their order.     *)
Plan(kind, q) ==
    \/ q = <<>>
    \/ q = <<"dos">> /\ kind \in {"load", "put", "key", "sign", "wipe"}
    \/ q = <<"pins">> /\ kind \in {"right", "wrong", "change"}
    \/ q = <<"keys">> /\ kind = "key"
    \/ q = <<"keys", "dos">> /\ kind = "load"
    \/ q = <<"pins", "dos">> /\ kind = "wipe"
    \/ q = <<"keys", "pins", "dos">> /\ kind = "wipe"

\* Blob b is still to be written by the rest q of a plan.
Due(b, q) == \E i \in 1 .. Len(q) : q[i] = b

(* The command under way and its plan; a key number is used only once.     *)
CmdOK ==
    /\ cmd.kind = "none" => cmd = Idle
    /\ cmd # Idle => up
    /\ Plan(cmd.kind, todo)
    /\ cmd.kind \in {"right", "wrong", "change"} => cmd.about \in Refs
    /\ cmd.kind = "key" => cmd.about \in Slots
    /\ cmd.kind = "sign" => keys["SIG"] # NoKey /\ signedBy[keys["SIG"]] < MaxCtr
    /\ \A s \in Slots : keys[s] =< lastKey
    /\ Stored("keys") => \A s \in Slots : nvs["keys"][s] =< lastKey
    /\ guarded \subseteq 1 .. lastKey
    /\ \A k \in Keys : k > lastKey => signedBy[k] = 0
    /\ legacy => lastKey > 0

TypeInv == TypeOK /\ CmdOK

(* What the running command has not to write is in the NVS as it is in the *)
(* RAM, as long as no write has failed.                                    *)
Synced ==
    /\ up /\ ~Due("pins", todo) =>
          IF Stored("pins") THEN nvs["pins"] = pins ELSE pins = FactoryPins
    /\ up /\ ~Due("dos", todo) => Stored("dos") /\ nvs["dos"] = dos
    /\ ~Due("keys", todo) /\ ~Stored("keys") => keys = NoKeys
    /\ up /\ ~Due("keys", todo) /\ Stored("keys") => nvs["keys"] = keys
    /\ cmd.kind = "wipe" /\ Due("keys", todo) => keys = NoKeys

\* As long as no write failed.
SyncInv == ~failed => Synced

(* A wrong PIN that is not answered yet has been charged in RAM.           *)
Unanswered(r) == IF cmd.kind = "wrong" /\ cmd.about = r THEN 1 ELSE 0

\* A charged try is in RAM, and in the NVS or still to be written there.
Charged ==
    \A r \in Refs :
       /\ up => pins[r].retry + guesses[r] + Unanswered(r) =< RetryMax
       /\ guesses[r] > 0 => Stored("pins") /\ nvs["pins"][r].retry + guesses[r] =< RetryMax
ChargedInv == ~failed => Charged

(* The factory PIN is in RAM before the keys are wiped only under a reset  *)
(* that has its first blob to write; no other key comes back.              *)
RamKeys == {keys[s] : s \in Slots} \ {NoKey}
Guarding ==
    /\ KeysStored \cap guarded # {} => OwnerPin
    /\ up /\ pins["PW1"].pin = Factory /\ KeysStored \cap guarded # {}
          => cmd.kind = "wipe" /\ Due("keys", todo)
    /\ RamKeys \cap guarded \subseteq KeysStored
    /\ guarded # {} => Stored("keys")
GuardInv == ~failed => Guarding

(* The counter of the RAM covers the signature that is not answered yet,   *)
(* that of the NVS every one that was.                                     *)
Unsent == IF cmd.kind = "sign" THEN 1 ELSE 0
Counting ==
    /\ up /\ keys["SIG"] # NoKey => dos.ctr >= signedBy[keys["SIG"]] + Unsent
    /\ Stored("keys") /\ nvs["keys"]["SIG"] # NoKey /\ signedBy[nvs["keys"]["SIG"]] > 0
          => Stored("dos") /\ nvs["dos"].ctr >= signedBy[nvs["keys"]["SIG"]]
    /\ ~Stored("keys") => \A k \in Keys : signedBy[k] = 0
    /\ cmd = [kind |-> "key", about |-> "SIG"] => signedBy[keys["SIG"]] = 0
    /\ cmd.kind = "load" /\ Due("keys", todo) => ~Stored("keys")
CountInv == ~failed => Counting

(* A verification that was used up is no longer there.                     *)
SpentInv == spent => "sign" \notin verified
-----------------------------------------------------------------------------
(* Writing the first blob of a plan leaves a plan, and only that blob is   *)
(* no longer due; the keys, when they are due, come first.                 *)
LEMMA PlanStep ==
    ASSUME NEW kind, NEW q, Plan(kind, q), q # <<>>
    PROVE  /\ q \in Seq(Blobs) /\ Len(q) =< 3
           /\ Head(q) \in Blobs
           /\ Plan(kind, Tail(q)) /\ Tail(q) \in Seq(Blobs) /\ Len(Tail(q)) =< 3
           /\ Due(Head(q), q) /\ ~Due(Head(q), Tail(q))
           /\ \A b \in Blobs : b # Head(q) => (Due(b, q) <=> Due(b, Tail(q)))
           /\ Due("keys", q) => Head(q) = "keys"
           /\ kind = "key" => Tail(q) = <<>>
<1>0. \A b \in Blobs : ~Due(b, <<>>)
  BY DEF Due
<1>1. ASSUME NEW c \in Blobs
      PROVE  /\ <<c>> \in Seq(Blobs) /\ <<>> \in Seq(Blobs) /\ Len(<<c>>) = 1 /\ Len(<<>>) = 0
             /\ Head(<<c>>) = c /\ Tail(<<c>>) = <<>>
             /\ \A b \in Blobs : Due(b, <<c>>) <=> b = c
  BY DEF Due
<1>2. ASSUME NEW c \in Blobs
      PROVE  /\ <<c, "dos">> \in Seq(Blobs) /\ Len(<<c, "dos">>) = 2
             /\ Head(<<c, "dos">>) = c /\ Tail(<<c, "dos">>) = <<"dos">>
             /\ \A b \in Blobs : Due(b, <<c, "dos">>) <=> b = c \/ b = "dos"
  <2>1. <<c, "dos">> \in Seq(Blobs) /\ Len(<<c, "dos">>) = 2
    BY DEF Blobs
  <2>2. Head(<<c, "dos">>) = c /\ Tail(<<c, "dos">>) = <<"dos">>
    OBVIOUS
  <2>3. \A b \in Blobs : Due(b, <<c, "dos">>) <=> b = c \/ b = "dos"
    BY DEF Due
  <2>. QED
    BY <2>1, <2>2, <2>3
<1>3. /\ <<"keys", "pins", "dos">> \in Seq(Blobs) /\ Len(<<"keys", "pins", "dos">>) = 3
      /\ Head(<<"keys", "pins", "dos">>) = "keys"
      /\ Tail(<<"keys", "pins", "dos">>) = <<"pins", "dos">>
      /\ \A b \in Blobs : Due(b, <<"keys", "pins", "dos">>)
  BY DEF Due, Blobs
<1>4. ASSUME NEW c \in Blobs, q = <<c>>
      PROVE  /\ Head(q) = c /\ Tail(q) = <<>> /\ q \in Seq(Blobs) /\ Len(q) = 1
             /\ Tail(q) \in Seq(Blobs) /\ Len(Tail(q)) = 0
             /\ \A b \in Blobs : Due(b, q) <=> b = c
             /\ \A b \in Blobs : ~Due(b, Tail(q))
             /\ Plan(kind, Tail(q))
  BY <1>0, <1>1, <1>4 DEF Plan
<1>5. ASSUME NEW c \in {"keys", "pins"}, q = <<c, "dos">>
      PROVE  /\ Head(q) = c /\ Tail(q) = <<"dos">> /\ q \in Seq(Blobs) /\ Len(q) = 2
             /\ Tail(q) \in Seq(Blobs) /\ Len(Tail(q)) = 1
             /\ \A b \in Blobs : Due(b, q) <=> b = c \/ b = "dos"
             /\ \A b \in Blobs : Due(b, Tail(q)) <=> b = "dos"
  <2>1. c \in Blobs /\ "dos" \in Blobs
    BY DEF Blobs
  <2>. QED
    BY <1>1, <1>2, <1>5, <2>1
<1>6. CASE \E c \in Blobs : q = <<c>>
  BY <1>4, <1>6 DEF Blobs
<1>7. CASE kind = "load" /\ q = <<"keys", "dos">>
  BY <1>5, <1>7 DEF Plan, Blobs
<1>8. CASE kind = "wipe" /\ q = <<"pins", "dos">>
  BY <1>5, <1>8 DEF Plan, Blobs
<1>9. CASE kind = "wipe" /\ q = <<"keys", "pins", "dos">>
  <2>1. "dos" \in Blobs /\ "pins" \in Blobs /\ "keys" \in Blobs
    BY DEF Blobs
  <2>2. /\ <<"pins", "dos">> \in Seq(Blobs) /\ Len(<<"pins", "dos">>) = 2
        /\ \A b \in Blobs : Due(b, <<"pins", "dos">>) <=> b = "pins" \/ b = "dos"
    BY <1>2, <2>1
  <2>3. Plan(kind, <<"pins", "dos">>)
    BY <1>9 DEF Plan
  <2>. QED
    BY <1>3, <1>9, <2>1, <2>2, <2>3 DEF Blobs
<1>. QED
  BY <1>6, <1>7, <1>8, <1>9 DEF Plan, Blobs

(* The plans that commands begin with.                                     *)
LEMMA Plans ==
    /\ <<>> \in Seq(Blobs) /\ Len(<<>>) =< 3 /\ \A b \in Blobs : ~Due(b, <<>>)
    /\ \A c \in Blobs : /\ <<c>> \in Seq(Blobs) /\ Len(<<c>>) =< 3
                        /\ \A b \in Blobs : Due(b, <<c>>) <=> b = c
    /\ <<"keys">> \o <<"dos">> = <<"keys", "dos">>
    /\ <<"keys", "dos">> \in Seq(Blobs) /\ Len(<<"keys", "dos">>) =< 3
    /\ \A b \in Blobs : Due(b, <<"keys", "dos">>) <=> b # "pins"
    /\ WipeOrder \in Seq(Blobs) /\ Len(WipeOrder) =< 3
    /\ \A b \in Blobs : Due(b, WipeOrder)
<1>1. <<>> \in Seq(Blobs) /\ Len(<<>>) =< 3 /\ \A b \in Blobs : ~Due(b, <<>>)
  BY DEF Due
<1>2. ASSUME NEW c \in Blobs
      PROVE  /\ <<c>> \in Seq(Blobs) /\ Len(<<c>>) =< 3
             /\ \A b \in Blobs : Due(b, <<c>>) <=> b = c
  BY DEF Due
<1>3. <<"keys">> \o <<"dos">> = <<"keys", "dos">>
  <2>1. <<"keys">> \in Seq(Blobs) /\ <<"dos">> \in Seq(Blobs) /\ <<"keys", "dos">> \in Seq(Blobs)
    BY DEF Blobs
  <2>2. /\ Len(<<"keys">>) = 1 /\ Len(<<"dos">>) = 1 /\ Len(<<"keys", "dos">>) = 2
        /\ <<"keys">>[1] = "keys" /\ <<"dos">>[1] = "dos"
        /\ <<"keys", "dos">>[1] = "keys" /\ <<"keys", "dos">>[2] = "dos"
    OBVIOUS
  <2>. DEFINE x == <<"keys">>
              y == <<"dos">>
              z == <<"keys", "dos">>
  <2>. HIDE DEF x, y, z
  <2>3. /\ x \o y \in Seq(Blobs) /\ Len(x \o y) = Len(x) + Len(y)
        /\ \A i \in 1 .. Len(x) + Len(y) : (x \o y)[i] = IF i =< Len(x) THEN x[i] ELSE y[i - Len(x)]
    BY <2>1, ConcatProperties DEF x, y
  <2>4. Len(x \o y) = Len(z) /\ \A i \in 1 .. Len(x \o y) : (x \o y)[i] = z[i]
    BY <2>2, <2>3 DEF x, y, z
  <2>5. x \o y = z
    BY <2>1, <2>3, <2>4, SeqEqual DEF z
  <2>. QED
    BY <2>5 DEF x, y, z
<1>4. /\ <<"keys", "dos">> \in Seq(Blobs) /\ Len(<<"keys", "dos">>) =< 3
      /\ \A b \in Blobs : Due(b, <<"keys", "dos">>) <=> b # "pins"
  BY DEF Due, Blobs
<1>5. /\ WipeOrder \in Seq(Blobs) /\ Len(WipeOrder) =< 3
      /\ \A b \in Blobs : Due(b, WipeOrder)
  BY DEF Due, Blobs, WipeOrder
<1>. QED
  BY <1>1, <1>2, <1>3, <1>4, <1>5

(* What the card writes is never the absent blob.                          *)
LEMMA RamIsNotAbsent ==
    ASSUME TypeOK
    PROVE  pins # <<>> /\ keys # <<>> /\ dos # <<>>
<1>1. DOMAIN <<>> = {}
  BY EmptySeq, LenProperties
<1>2. "PW1" \in DOMAIN pins /\ "SIG" \in DOMAIN keys /\ "ctr" \in DOMAIN dos
  BY CardAssumption DEF TypeOK, PinsType, KeysType, DosType, Refs
<1>. QED
  BY <1>1, <1>2
-----------------------------------------------------------------------------
(* A fresh card is of the right types.                                     *)
LEMMA FactoryTypes ==
    FactoryPins \in PinsType /\ NoKeys \in KeysType /\ FactoryDos \in DosType
  BY CardAssumption
     DEF FactoryPins, NoKeys, FactoryDos, PinsType, KeysType, DosType, Keys, NoKey

(* Changing one field of one of them, or nothing, leaves them so.          *)
LEMMA PinsChange ==
    ASSUME NEW p \in PinsType, NEW r \in Refs, NEW n \in 0 .. RetryMax, NEW v \in Pins
    PROVE  /\ [p EXCEPT ![r].retry = n] \in PinsType
           /\ [p EXCEPT ![r].retry = n][r] = [pin |-> p[r].pin, retry |-> n]
           /\ \A t \in Refs : t # r => [p EXCEPT ![r].retry = n][t] = p[t]
           /\ [p EXCEPT ![r] = [pin |-> v, retry |-> n]] \in PinsType
           /\ p[r].retry \in 0 .. RetryMax
<1>1. p[r] \in [pin : Pins, retry : 0 .. RetryMax]
  BY DEF PinsType
<1>2. [p[r] EXCEPT !.retry = n] = [pin |-> p[r].pin, retry |-> n]
  BY <1>1
<1>3. [pin |-> p[r].pin, retry |-> n] \in [pin : Pins, retry : 0 .. RetryMax]
  BY <1>1
<1>4. [p EXCEPT ![r].retry = n] = [p EXCEPT ![r] = [pin |-> p[r].pin, retry |-> n]]
  BY <1>2
<1>5. [p EXCEPT ![r] = [pin |-> p[r].pin, retry |-> n]] \in PinsType
  BY <1>3 DEF PinsType
<1>6. [p EXCEPT ![r] = [pin |-> v, retry |-> n]] \in PinsType
  BY DEF PinsType
<1>7. /\ [p EXCEPT ![r] = [pin |-> p[r].pin, retry |-> n]][r] = [pin |-> p[r].pin, retry |-> n]
      /\ \A t \in Refs : t # r => [p EXCEPT ![r] = [pin |-> p[r].pin, retry |-> n]][t] = p[t]
  BY DEF PinsType
<1>. QED
  BY <1>1, <1>4, <1>5, <1>6, <1>7

\* The command under way.
CmdType == [kind : {"none", "load", "right", "wrong", "change", "put",
                    "key", "sign", "wipe"},
            about : Refs \cup Slots \cup {"none"}]

(* Type correctness, with the plan of the command under way: what is still *)
(* to be written fits the command, the keys come before the PINs and the   *)
(* PINs before the objects, and a key number is never given twice.         *)
THEOREM TypeCorrect == Spec => []TypeInv
<1>. USE CardAssumption
<1>. USE DEF TypeInv
<1>1. Init => TypeInv
  <2>. SUFFICES ASSUME Init PROVE TypeInv
    OBVIOUS
  <2>1. /\ pins \in PinsType /\ keys \in KeysType /\ dos \in DosType
        /\ legacy \in BOOLEAN
        /\ legacy => lastKey = 1 /\ MaxKeys > 0
        /\ ~legacy => lastKey = 0
    BY FactoryTypes DEF Init
  <2>2. /\ DOMAIN nvs = Blobs
        /\ nvs["pins"] = <<>> /\ nvs["keys"] = <<>> /\ nvs["dos"] = <<>>
    BY DEF Init, Blobs
  <2>3. todo \in Seq(Blobs) /\ Len(todo) =< 3 /\ todo = <<>>
    BY Plans DEF Init
  <2>4. /\ lastKey \in Keys /\ guesses \in [Refs -> Nat]
        /\ signedBy \in [Keys -> 0 .. MaxCtr] /\ guarded = {}
    BY <2>1 DEF Init, Keys
  <2>5. /\ up \in BOOLEAN /\ selected \in BOOLEAN /\ terminated \in BOOLEAN
        /\ verified = {} /\ spent \in BOOLEAN /\ failed \in BOOLEAN
    BY DEF Init
  <2>6. cmd = Idle
    BY DEF Init
  <2>6a. cmd \in CmdType
    BY <2>6 DEF Idle, CmdType
  <2>6b. /\ verified \subseteq {"sign", "user", "admin"} /\ guarded \subseteq Keys
         /\ nvs["pins"] \in PinsType \cup {<<>>} /\ nvs["keys"] \in KeysType \cup {<<>>}
         /\ nvs["dos"] \in DosType \cup {<<>>}
    BY <2>2, <2>4, <2>5
  <2>7. TypeOK
    BY <2>1, <2>2, <2>3, <2>4, <2>5, <2>6a, <2>6b DEF TypeOK, CmdType
  <2>8. /\ \A s \in Slots : keys[s] = 0
        /\ \A k \in Keys : signedBy[k] = 0
    BY DEF Init, NoKeys, NoKey
  <2>. QED
    BY <2>1, <2>2, <2>3, <2>4, <2>6, <2>7, <2>8 DEF CmdOK, Plan, Stored, Idle, Keys
<1>2. TypeInv /\ [Next]_vars => TypeInv'
  <2>. SUFFICES ASSUME TypeInv, [Next]_vars PROVE TypeInv'
    OBVIOUS
  <2>1. CASE Load
    <3>1. pins' \in PinsType /\ dos' \in DosType
      BY <2>1, FactoryTypes DEF Load, Stored, TypeOK
    <3>2. /\ keys' \in KeysType /\ \A s \in Slots : keys'[s] =< lastKey
          /\ cmd' = [kind |-> "load", about |-> "none"]
          /\ todo' \in {<<"dos">>, <<"keys", "dos">>}
      <4>1. CASE Stored("keys")
        BY <2>1, <4>1 DEF Load, Stored, TypeOK, CmdOK, Begin, DosWritten
      <4>2. CASE ~Stored("keys") /\ legacy
        <5>1. /\ keys' = [keys EXCEPT !["SIG"] = 1] /\ lastKey > 0
              /\ Begin("load", "none", <<"keys">> \o DosWritten)
          BY <2>1, <4>2 DEF Load, CmdOK
        <5>2. 1 \in Keys /\ lastKey \in Nat
          BY <5>1 DEF TypeOK, Keys
        <5>3. keys' \in KeysType /\ \A s \in Slots : keys'[s] =< lastKey
          BY <5>1, <5>2 DEF TypeOK, KeysType, CmdOK
        <5>. QED
          BY <5>1, <5>3, Plans DEF Begin, DosWritten
      <4>3. CASE ~Stored("keys") /\ ~legacy
        BY <2>1, <4>3 DEF Load, TypeOK, CmdOK, Begin, DosWritten
      <4>. QED
        BY <4>1, <4>2, <4>3
    <3>3. todo' \in Seq(Blobs) /\ Len(todo') =< 3 /\ Plan("load", todo')
      BY <3>2, Plans DEF Plan, Blobs
    <3>4. TypeOK'
      BY <2>1, <3>1, <3>2, <3>3 DEF Load, SessionReset, histVars, TypeOK
    <3>. QED
      BY <2>1, <3>2, <3>3, <3>4 DEF Load, histVars, CmdOK, Stored
  <2>2. CASE Leave
    <3>0. /\ up' = FALSE
          /\ UNCHANGED <<selected, terminated, verified, pins, keys, dos, nvs, legacy, cmd, todo,
                         lastKey, guesses, signedBy, spent, guarded, failed>>
      BY <2>2 DEF Leave, ramVars, histVars
    <3>1. TypeOK'
      <4>1. up' \in BOOLEAN /\ cmd' \in CmdType
        BY <3>0 DEF TypeOK, CmdType
      <4>. QED
        BY <3>0, <4>1 DEF TypeOK, CmdType
    <3>. QED
      BY <2>2, <3>1 DEF Leave, Ready, ramVars, histVars, CmdOK, Stored
  <2>3. CASE PowerCut
    <3>1. /\ pins' \in PinsType /\ keys' \in KeysType /\ dos' \in DosType
          /\ \A s \in Slots : keys'[s] = 0
      BY <2>3, FactoryTypes DEF PowerCut, NoKeys, NoKey
    <3>2. cmd' = Idle /\ todo' = <<>> /\ todo' \in Seq(Blobs) /\ Len(todo') =< 3
      BY <2>3, Plans DEF PowerCut
    <3>3. TypeOK'
      <4>1. cmd' \in CmdType
        BY <3>2 DEF Idle, CmdType
      <4>2. /\ up' = FALSE /\ selected' = FALSE /\ terminated' = FALSE /\ verified' = {}
            /\ UNCHANGED <<nvs, legacy, lastKey, guesses, signedBy, spent, guarded, failed>>
        BY <2>3 DEF PowerCut, SessionReset, histVars
      <4>. QED
        BY <3>1, <3>2, <4>1, <4>2 DEF TypeOK, CmdType
    <3>. QED
      BY <2>3, <3>1, <3>2, <3>3 DEF PowerCut, histVars, CmdOK, Plan, Stored, Idle, TypeOK, Keys
  <2>4. CASE Select
    <3>1. TypeOK'
      BY <2>4 DEF Select, runVars, histVars, TypeOK
    <3>. QED
      BY <2>4, <3>1 DEF Select, runVars, histVars, CmdOK, Stored
  <2>5. ASSUME NEW r \in Refs, NEW w \in Rights(r), VerifyRight(r, w) PROVE TypeInv'
    <3>1. pins' \in PinsType
      <4>1. pins \in PinsType /\ RetryMax \in 0 .. RetryMax
        BY DEF TypeOK
      <4>2. [pins EXCEPT ![r].retry = RetryMax] \in PinsType
        BY <4>1, PinsChange
      <4>. QED
        BY <2>5, <4>2 DEF VerifyRight
    <3>2. /\ todo' \in {<<>>, <<"pins">>} /\ todo' \in Seq(Blobs) /\ Len(todo') =< 3
          /\ cmd' = [kind |-> "right", about |-> r] /\ up
      BY <2>5, Plans DEF VerifyRight, HasTries, Ready, Begin, Blobs
    <3>3. w \in {"sign", "user", "admin"}
      BY DEF Rights
    <3>4. TypeOK'
      BY <2>5, <3>1, <3>2, <3>3 DEF VerifyRight, TypeOK
    <3>. QED
      BY <2>5, <3>2, <3>4 DEF VerifyRight, CmdOK, Plan, Stored
  <2>6. ASSUME NEW r \in Refs, WrongPin(r) PROVE TypeInv'
    <3>1. pins' \in PinsType
      <4>1. pins \in PinsType /\ pins[r].retry \in 0 .. RetryMax /\ pins[r].retry > 0
        BY <2>6 DEF WrongPin, HasTries, TypeOK, PinsType
      <4>2. pins[r].retry - 1 \in 0 .. RetryMax
        BY <4>1
      <4>3. [pins EXCEPT ![r].retry = pins[r].retry - 1] \in PinsType
        BY <4>1, <4>2, PinsChange
      <4>. QED
        BY <2>6, <4>3 DEF WrongPin
    <3>2. /\ todo' = <<"pins">> /\ todo' \in Seq(Blobs) /\ Len(todo') =< 3
          /\ cmd' = [kind |-> "wrong", about |-> r] /\ up
      BY <2>6, Plans DEF WrongPin, HasTries, Ready, Begin, Blobs
    <3>3. TypeOK'
      BY <2>6, <3>1, <3>2 DEF WrongPin, histVars, TypeOK
    <3>. QED
      BY <2>6, <3>2, <3>3 DEF WrongPin, histVars, CmdOK, Plan, Stored
  <2>7. ASSUME NEW r \in Refs, NEW new \in Pins, Change(r, new) PROVE TypeInv'
    <3>1. pins' \in PinsType
      BY <2>7 DEF Change, TypeOK, PinsType
    <3>2. /\ todo' = <<"pins">> /\ todo' \in Seq(Blobs) /\ Len(todo') =< 3
          /\ cmd' = [kind |-> "change", about |-> r] /\ up
      BY <2>7, Plans DEF Change, HasTries, Ready, Begin, Blobs
    <3>3. TypeOK'
      BY <2>7, <3>1, <3>2 DEF Change, TypeOK
    <3>. QED
      BY <2>7, <3>2, <3>3 DEF Change, CmdOK, Plan, Stored
  <2>8. ASSUME NEW several \in BOOLEAN, PutData(several) PROVE TypeInv'
    <3>1. dos' \in DosType
      BY <2>8 DEF PutData, TypeOK, DosType
    <3>2. /\ todo' = <<"dos">> /\ todo' \in Seq(Blobs) /\ Len(todo') =< 3
          /\ cmd' = [kind |-> "put", about |-> "none"] /\ up
      BY <2>8, Plans DEF PutData, Admin, Ready, Begin, Blobs
    <3>3. TypeOK'
      BY <2>8, <3>1, <3>2 DEF PutData, histVars, TypeOK
    <3>. QED
      BY <2>8, <3>2, <3>3 DEF PutData, histVars, CmdOK, Plan, Stored
  <2>9. ASSUME NEW s \in Slots, Admin, NewKey(s) PROVE TypeInv'
    <3>1. lastKey \in Nat /\ lastKey' = lastKey + 1 /\ lastKey' \in Keys
      BY <2>9 DEF NewKey, TypeOK, Keys
    <3>2. keys' \in KeysType /\ \A t \in Slots : keys'[t] =< lastKey'
      <4>1. keys' = [keys EXCEPT ![s] = lastKey'] /\ keys \in KeysType
        BY <2>9 DEF NewKey, TypeOK
      <4>2. \A t \in Slots : keys'[t] = IF t = s THEN lastKey' ELSE keys[t]
        BY <4>1 DEF KeysType
      <4>3. \A t \in Slots : keys[t] \in Nat /\ keys[t] =< lastKey
        BY <4>1 DEF KeysType, CmdOK, Keys
      <4>. QED
        BY <3>1, <4>1, <4>2, <4>3 DEF KeysType
    <3>3. /\ todo' = <<"keys">> /\ todo' \in Seq(Blobs) /\ Len(todo') =< 3
          /\ cmd' = [kind |-> "key", about |-> s] /\ up
      BY <2>9, Plans DEF NewKey, Admin, Ready, Begin, Blobs
    <3>4. TypeOK'
      BY <2>9, <3>1, <3>2, <3>3 DEF NewKey, TypeOK
    <3>5. nvs' = nvs /\ guarded' = guarded /\ signedBy' = signedBy /\ legacy' = legacy
      BY <2>9 DEF NewKey
    <3>6. Stored("keys") => \A t \in Slots : nvs["keys"][t] \in Nat
      BY DEF Stored, TypeOK, KeysType, Keys
    <3>7. Stored("keys")' => \A t \in Slots : nvs'["keys"][t] =< lastKey'
      BY <3>1, <3>5, <3>6 DEF CmdOK, Stored
    <3>8. guarded' \subseteq 1 .. lastKey'
      BY <3>1, <3>5 DEF CmdOK
    <3>9. \A k \in Keys : k > lastKey' => signedBy'[k] = 0
      BY <3>1, <3>5 DEF CmdOK, Keys
    <3>10. legacy' => lastKey' > 0
      BY <3>1
    <3>11. Plan(cmd'.kind, todo')
      BY <3>3 DEF Plan
    <3>12. up'
      BY <2>9, <3>3 DEF NewKey
    <3>. QED
      BY <3>2, <3>3, <3>4, <3>7, <3>8, <3>9, <3>10, <3>11, <3>12 DEF CmdOK
  <2>10. CASE Sign
    <3>1. CASE UNCHANGED <<dos, spent, cmd, todo>>
      <4>1. TypeOK'
        BY <2>10, <3>1 DEF Sign, SignToken, TypeOK
      <4>. QED
        BY <2>10, <3>1, <4>1 DEF Sign, CmdOK, Stored
    <3>2. CASE /\ dos.ctr < MaxCtr /\ signedBy[keys["SIG"]] < MaxCtr
               /\ dos' = [dos EXCEPT !.ctr = @ + 1]
               /\ spent' = ~dos.multi
               /\ Begin("sign", "none", <<"dos">>)
      <4>1. dos' \in DosType /\ spent' \in BOOLEAN
        <5>1. dos \in DosType /\ dos.ctr \in Nat
          BY DEF TypeOK, DosType
        <5>2. dos.ctr + 1 \in 0 .. MaxCtr /\ dos' = [multi |-> dos.multi, ctr |-> dos.ctr + 1]
          BY <3>2, <5>1 DEF DosType
        <5>. QED
          BY <3>2, <5>1, <5>2 DEF DosType
      <4>2. /\ todo' = <<"dos">> /\ todo' \in Seq(Blobs) /\ Len(todo') =< 3
            /\ cmd' = [kind |-> "sign", about |-> "none"] /\ up
        BY <2>10, <3>2, Plans DEF Sign, Ready, Begin, Blobs
      <4>3. TypeOK'
        BY <2>10, <4>1, <4>2 DEF Sign, SignToken, TypeOK
      <4>. QED
        BY <2>10, <4>2, <4>3 DEF Sign, CmdOK, Plan, Stored
    <3>. QED
      BY <2>10, <3>1, <3>2 DEF Sign
  <2>11. ASSUME Ready, FactoryReset, terminated' \in BOOLEAN, UNCHANGED <<up, nvs, legacy>>
         PROVE  TypeInv'
    <3>1. /\ pins' \in PinsType /\ keys' \in KeysType /\ dos' \in DosType
          /\ \A s \in Slots : keys'[s] = 0
      BY <2>11, FactoryTypes DEF FactoryReset, NoKeys, NoKey
    <3>2. /\ todo' = <<"keys", "pins", "dos">> /\ todo' \in Seq(Blobs) /\ Len(todo') =< 3
          /\ cmd' = [kind |-> "wipe", about |-> "none"] /\ up
      BY <2>11, Plans DEF FactoryReset, Ready, Begin, WipeOrder
    <3>3. TypeOK'
      BY <2>11, <3>1, <3>2 DEF FactoryReset, TypeOK
    <3>. QED
      BY <2>11, <3>1, <3>2, <3>3 DEF FactoryReset, CmdOK, Plan, Stored, TypeOK, Keys
  <2>12. CASE Terminate \/ Activate
    BY <2>11, <2>12 DEF Terminate, Activate
  <2>13. ASSUME NEW b \in Blobs, todo # <<>>, b = Head(todo),
                nvs' \in {nvs, [nvs EXCEPT ![b] = Ram(b)]}
         PROVE  /\ DOMAIN nvs' = Blobs
                /\ nvs'["pins"] \in PinsType \cup {<<>>}
                /\ nvs'["keys"] \in KeysType \cup {<<>>}
                /\ nvs'["dos"] \in DosType \cup {<<>>}
                /\ Stored("keys")' => \A s \in Slots : nvs'["keys"][s] =< lastKey
    <3>1. CASE nvs' = nvs
      BY <3>1 DEF TypeOK, CmdOK, Stored
    <3>2. CASE nvs' = [nvs EXCEPT ![b] = Ram(b)]
      <4>1. /\ DOMAIN nvs' = Blobs /\ nvs'[b] = Ram(b)
            /\ \A c \in Blobs : c # b => nvs'[c] = nvs[c]
        BY <3>2 DEF TypeOK
      <4>2. /\ b = "pins" => Ram(b) = pins
            /\ b = "keys" => Ram(b) = keys
            /\ b = "dos" => Ram(b) = dos
        BY DEF Ram
      <4>. QED
        BY <4>1, <4>2 DEF TypeOK, CmdOK, Stored, Blobs
    <3>. QED
      BY <2>13, <3>1, <3>2
  <2>14. CASE Persist
    <3>1. /\ todo # <<>> /\ nvs' = [nvs EXCEPT ![Head(todo)] = Ram(Head(todo))]
          /\ UNCHANGED <<up, selected, terminated, verified, pins, keys, legacy, cmd, histVars>>
          /\ AfterKey
      BY <2>14 DEF Persist
    <3>2. /\ Head(todo) \in Blobs /\ Plan(cmd.kind, Tail(todo))
          /\ Tail(todo) \in Seq(Blobs) /\ Len(Tail(todo)) =< 3
      BY <3>1, PlanStep DEF CmdOK
    <3>3. /\ DOMAIN nvs' = Blobs
          /\ nvs'["pins"] \in PinsType \cup {<<>>}
          /\ nvs'["keys"] \in KeysType \cup {<<>>}
          /\ nvs'["dos"] \in DosType \cup {<<>>}
          /\ Stored("keys")' => \A s \in Slots : nvs'["keys"][s] =< lastKey
      BY <2>13, <3>1, <3>2
    <3>4. /\ dos' \in DosType /\ Plan(cmd.kind, todo')
          /\ todo' \in Seq(Blobs) /\ Len(todo') =< 3
      <4>1. CASE cmd = [kind |-> "key", about |-> "SIG"] /\ Head(todo) = "keys"
        <5>1. dos' = [dos EXCEPT !.ctr = 0] /\ todo' = <<"dos">> /\ cmd.kind = "key"
          BY <3>1, <4>1 DEF AfterKey
        <5>2. dos' \in DosType
          <6>1. dos \in [multi : BOOLEAN, ctr : 0 .. MaxCtr]
            BY DEF TypeOK, DosType
          <6>2. [dos EXCEPT !.ctr = 0] = [multi |-> dos.multi, ctr |-> 0]
            BY <6>1
          <6>. QED
            BY <5>1, <6>1, <6>2 DEF DosType
        <5>3. Plan("key", <<"dos">>) /\ "dos" \in Blobs
          BY DEF Plan, Blobs
        <5>. QED
          BY <5>1, <5>2, <5>3, Plans
      <4>2. CASE ~(cmd = [kind |-> "key", about |-> "SIG"] /\ Head(todo) = "keys")
        BY <3>1, <3>2, <4>2 DEF AfterKey, TypeOK
      <4>. QED
        BY <4>1, <4>2
    <3>5. TypeOK'
      BY <3>1, <3>3, <3>4 DEF TypeOK, histVars
    <3>. QED
      BY <3>1, <3>3, <3>4, <3>5 DEF CmdOK, histVars
  <2>15. CASE PersistFails
    <3>1. /\ todo # <<>> /\ nvs' \in {nvs, [nvs EXCEPT ![Head(todo)] = Ram(Head(todo))]}
          /\ failed' = TRUE /\ todo' = Tail(todo)
          /\ keys' = IF cmd.kind = "key" /\ Head(todo) = "keys"
                     THEN [keys EXCEPT ![cmd.about] = NoKey] ELSE keys
          /\ guesses' = [r \in Refs |-> 0] /\ signedBy' = [k \in Keys |-> 0] /\ guarded' = {}
          /\ UNCHANGED <<up, selected, terminated, verified, pins, dos, legacy, cmd,
                         lastKey, spent>>
      BY <2>15 DEF PersistFails
    <3>2. /\ Head(todo) \in Blobs /\ Plan(cmd.kind, Tail(todo))
          /\ Tail(todo) \in Seq(Blobs) /\ Len(Tail(todo)) =< 3
      BY <3>1, PlanStep DEF CmdOK
    <3>3. /\ DOMAIN nvs' = Blobs
          /\ nvs'["pins"] \in PinsType \cup {<<>>}
          /\ nvs'["keys"] \in KeysType \cup {<<>>}
          /\ nvs'["dos"] \in DosType \cup {<<>>}
          /\ Stored("keys")' => \A s \in Slots : nvs'["keys"][s] =< lastKey
      BY <2>13, <3>1, <3>2
    <3>4. keys' \in KeysType /\ \A s \in Slots : keys'[s] =< lastKey
      <4>1. lastKey \in Nat /\ 0 \in Keys
        BY DEF TypeOK, Keys
      <4>. QED
        BY <3>1, <4>1 DEF TypeOK, KeysType, CmdOK, NoKey
    <3>5. guesses' \in [Refs -> Nat] /\ signedBy' \in [Keys -> 0 .. MaxCtr]
      BY <3>1
    <3>6. TypeOK'
      BY <3>1, <3>2, <3>3, <3>4, <3>5 DEF TypeOK
    <3>7. \A k \in Keys : signedBy'[k] = 0
      BY <3>1
    <3>8. cmd.kind = "sign" => keys'["SIG"] # NoKey /\ signedBy'[keys'["SIG"]] < MaxCtr
      <4>1. SUFFICES ASSUME cmd.kind = "sign"
                     PROVE  keys'["SIG"] # NoKey /\ signedBy'[keys'["SIG"]] < MaxCtr
        OBVIOUS
      <4>2. keys' = keys /\ keys["SIG"] \in Keys /\ keys["SIG"] # NoKey
            /\ signedBy[keys["SIG"]] < MaxCtr
        BY <3>1, <4>1 DEF TypeOK, KeysType, CmdOK
      <4>3. signedBy[keys["SIG"]] \in 0 .. MaxCtr
        BY <4>2 DEF TypeOK
      <4>. QED
        BY <3>7, <4>2, <4>3
    <3>. QED
      BY <3>1, <3>2, <3>3, <3>4, <3>6, <3>7, <3>8 DEF CmdOK
  <2>16. CASE Answer
    <3>1. /\ up /\ cmd # Idle /\ todo = <<>> /\ cmd' = Idle
          /\ UNCHANGED <<ramVars, up, nvs, legacy, todo, lastKey, spent, failed>>
      BY <2>16 DEF Answer
    <3>2. cmd' \in CmdType
      BY <3>1 DEF CmdType, Idle
    <3>3. guesses' \in [Refs -> Nat]
      BY <2>16 DEF Answer, TypeOK
    <3>4. /\ signedBy' \in [Keys -> 0 .. MaxCtr]
          /\ \A k \in Keys : k > lastKey => signedBy'[k] = 0
      <4>1. CASE signedBy' = signedBy
        BY <4>1 DEF TypeOK, CmdOK
      <4>2. CASE cmd.kind = "sign" /\ signedBy' = [signedBy EXCEPT ![keys["SIG"]] = @ + 1]
        <5>1. keys["SIG"] \in Keys /\ keys["SIG"] =< lastKey /\ signedBy[keys["SIG"]] < MaxCtr
          BY <4>2 DEF TypeOK, CmdOK, KeysType
        <5>2. signedBy[keys["SIG"]] + 1 \in 0 .. MaxCtr
          BY <5>1 DEF TypeOK
        <5>3. \A k \in Keys : k > lastKey => k # keys["SIG"]
          BY <5>1 DEF TypeOK, Keys
        <5>. QED
          BY <4>2, <5>1, <5>2, <5>3 DEF TypeOK, CmdOK
      <4>. QED
        BY <2>16, <4>1, <4>2 DEF Answer
    <3>5. KeysStored \subseteq Keys /\ KeysStored \subseteq 1 .. lastKey
      <4>1. ASSUME Stored("keys"), NEW s \in Slots, nvs["keys"][s] # NoKey
            PROVE  nvs["keys"][s] \in Keys /\ nvs["keys"][s] \in 1 .. lastKey
        <5>1. nvs["keys"] \in KeysType /\ lastKey \in Nat /\ nvs["keys"][s] =< lastKey
          BY <4>1 DEF Stored, TypeOK, CmdOK, Keys
        <5>. QED
          BY <4>1, <5>1 DEF KeysType, Keys, NoKey
      <4>. QED
        BY <4>1 DEF KeysStored
    <3>6. guarded' \subseteq Keys /\ guarded' \subseteq 1 .. lastKey
      BY <2>16, <3>5 DEF Answer, TypeOK, CmdOK
    <3>7. TypeOK'
      BY <3>1, <3>2, <3>3, <3>4, <3>6 DEF TypeOK, ramVars, CmdType
    <3>. QED
      BY <3>1, <3>4, <3>6, <3>7 DEF CmdOK, Idle, ramVars, Plan, Stored
  <2>17. CASE UNCHANGED vars
    BY <2>17 DEF vars, ramVars, runVars, histVars, TypeOK, CmdOK, Stored
  <2>. QED
    BY <2>1, <2>2, <2>3, <2>4, <2>5, <2>6, <2>7, <2>8, <2>9, <2>10, <2>12, <2>14, <2>15,
       <2>16, <2>17 DEF Next, Command, Import, Generate
<1>. QED
  BY <1>1, <1>2, PTL DEF Spec
-----------------------------------------------------------------------------
(* Between two commands nothing is due.                                    *)
LEMMA AtRest ==
    ASSUME TypeInv, cmd = Idle
    PROVE  cmd.kind = "none" /\ todo = <<>> /\ \A b \in Blobs : ~Due(b, todo)
<1>1. cmd.kind = "none" /\ todo = <<>>
  BY DEF TypeInv, CmdOK, Plan, Idle
<1>. QED
  BY <1>1, Plans

(* A write that succeeds: one blob is as in the RAM; only that of a new    *)
(* signature key adds another, for the counter it resets.                  *)
LEMMA PersistEffect ==
    ASSUME TypeInv, Persist
    PROVE  \E b \in Blobs :
              /\ up /\ cmd # Idle /\ Due(b, todo) /\ ~Due(b, todo')
              /\ UNCHANGED <<up, pins, keys, cmd, lastKey, guesses, signedBy, guarded, failed>>
              /\ nvs'[b] = Ram(b) /\ nvs'[b] # <<>>
              /\ \A c \in Blobs : c # b => nvs'[c] = nvs[c]
              /\ b # "keys" => ~Due("keys", todo)
              /\ \A c \in {"pins", "keys"} : c # b => (Due(c, todo') <=> Due(c, todo))
              /\ \/ dos' = dos /\ (b # "dos" => (Due("dos", todo') <=> Due("dos", todo)))
                 \/ /\ b = "keys" /\ cmd = [kind |-> "key", about |-> "SIG"]
                    /\ dos'.ctr = 0 /\ Due("dos", todo')
<1>. DEFINE b == Head(todo)
<1>1. /\ todo # <<>> /\ nvs' = [nvs EXCEPT ![b] = Ram(b)] /\ AfterKey
      /\ UNCHANGED <<up, pins, keys, cmd, lastKey, guesses, signedBy, guarded, failed>>
  BY DEF Persist, histVars
<1>2. /\ b \in Blobs /\ Due(b, todo) /\ ~Due(b, Tail(todo))
      /\ \A c \in Blobs : c # b => (Due(c, todo) <=> Due(c, Tail(todo)))
      /\ Due("keys", todo) => b = "keys"
      /\ cmd.kind = "key" => Tail(todo) = <<>>
  BY <1>1, PlanStep DEF TypeInv, CmdOK
<1>3. cmd # Idle /\ up
  BY <1>1, AtRest DEF TypeInv, CmdOK
<1>4. /\ nvs'[b] = Ram(b) /\ \A c \in Blobs : c # b => nvs'[c] = nvs[c]
  BY <1>1, <1>2 DEF TypeInv, TypeOK
<1>5. Ram(b) # <<>>
  BY <1>2, RamIsNotAbsent DEF Ram, TypeInv, Blobs
<1>6. "pins" \in Blobs /\ "keys" \in Blobs /\ "dos" \in Blobs
  BY DEF Blobs
<1>. HIDE DEF b
<1>7. CASE cmd = [kind |-> "key", about |-> "SIG"] /\ b = "keys"
  <2>1. todo' = <<"dos">> /\ dos' = [dos EXCEPT !.ctr = 0] /\ Tail(todo) = <<>>
    BY <1>1, <1>2, <1>7 DEF AfterKey, b
  <2>2. dos'.ctr = 0
    BY <2>1 DEF TypeInv, TypeOK, DosType
  <2>3. /\ \A c \in Blobs : Due(c, todo') <=> c = "dos"
        /\ \A c \in Blobs : ~Due(c, Tail(todo))
    <3>1. \A c \in Blobs : Due(c, <<"dos">>) <=> c = "dos"
      BY <1>6, Plans
    <3>2. \A c \in Blobs : ~Due(c, <<>>)
      BY Plans
    <3>. QED
      BY <2>1, <3>1, <3>2
  <2>. QED
    BY <1>1, <1>2, <1>3, <1>4, <1>5, <1>6, <1>7, <2>2, <2>3
<1>8. CASE ~(cmd = [kind |-> "key", about |-> "SIG"] /\ b = "keys")
  <2>1. todo' = Tail(todo) /\ dos' = dos
    BY <1>1, <1>8 DEF AfterKey, b
  <2>. QED
    BY <1>1, <1>2, <1>3, <1>4, <1>5, <1>6, <2>1
<1>. QED
  BY <1>7, <1>8

(* A failure is never forgotten.                                           *)
LEMMA FailedStays ==
    ASSUME [Next]_vars, ~failed'
    PROVE  ~failed /\ ~PersistFails
<1>1. CASE Load \/ Leave \/ PowerCut \/ Persist \/ PersistFails \/ Answer \/ UNCHANGED vars
  BY <1>1 DEF Load, Leave, PowerCut, Persist, PersistFails, Answer, vars, histVars
<1>2. CASE Command
  <2>1. CASE Select \/ Sign \/ Terminate \/ Activate
    BY <2>1 DEF Select, Sign, Terminate, Activate, FactoryReset, PersistFails, histVars
  <2>2. ASSUME NEW r \in Refs, WrongPin(r) \/ (\E w \in Rights(r) : VerifyRight(r, w))
                                           \/ (\E new \in Pins : Change(r, new))
        PROVE  failed' = failed
    BY <2>2 DEF WrongPin, VerifyRight, Change, histVars
  <2>3. ASSUME NEW several \in BOOLEAN, PutData(several) PROVE failed' = failed
    BY <2>3 DEF PutData, histVars
  <2>4. ASSUME NEW s \in Slots, Import(s) \/ Generate(s) PROVE failed' = failed
    BY <2>4 DEF Import, Generate, NewKey
  <2>. QED
    BY <1>2, <2>1, <2>2, <2>3, <2>4 DEF Command, PersistFails
<1>. QED
  BY <1>1, <1>2 DEF Next
-----------------------------------------------------------------------------
(* What a command changes in RAM it has to write, and the mode begins by   *)
(* reading back what is stored: RAM and NVS differ by what is due alone.   *)
LEMMA SyncStep ==
    ASSUME TypeInv, TypeInv', SyncInv, [Next]_vars
    PROVE  SyncInv'
<1>. SUFFICES ASSUME ~failed' PROVE Synced'
  BY DEF SyncInv
<1>f. ~failed /\ ~PersistFails /\ Synced
  BY FailedStays DEF SyncInv
<1>n. "pins" \in Blobs /\ "keys" \in Blobs /\ "dos" \in Blobs
  BY DEF Blobs
<1>r. cmd = Idle => cmd.kind = "none" /\ todo = <<>> /\ \A b \in Blobs : ~Due(b, todo)
  BY AtRest
<1>1. CASE Load
  <2>1. cmd = Idle
    BY <1>1 DEF Load, TypeInv, CmdOK
  <2>2. todo' \in {<<"dos">>, <<"keys", "dos">>}
    BY <1>1, Plans DEF Load, Begin, DosWritten
  <2>3. Due("dos", todo') /\ (Due("keys", todo') <=> todo' = <<"keys", "dos">>)
    BY <1>n, <2>2, Plans
  <2>4. ~Stored("keys") /\ todo' # <<"keys", "dos">> => keys' = keys
    BY <1>1, Plans DEF Load, Begin, DosWritten
  <2>5. /\ nvs' = nvs /\ cmd'.kind = "load"
        /\ pins' = IF Stored("pins") THEN nvs["pins"] ELSE FactoryPins
        /\ Stored("keys") => keys' = nvs["keys"]
    BY <1>1 DEF Load, Begin
  <2>. QED
    BY <1>f, <1>n, <1>r, <2>1, <2>3, <2>4, <2>5 DEF Synced, Stored
<1>2. CASE Leave \/ Select
  BY <1>2, <1>f DEF Leave, Select, ramVars, runVars, Synced, Stored
<1>3. CASE PowerCut
  BY <1>3 DEF PowerCut, Synced, Idle
<1>4. ASSUME NEW r \in Refs, NEW w \in Rights(r), VerifyRight(r, w) PROVE Synced'
  <2>1. CASE pins' = pins
    <3>1. /\ todo' = <<>> /\ cmd'.kind = "right" /\ cmd = Idle
          /\ UNCHANGED <<up, pins, keys, dos, nvs>>
      BY <1>4, <2>1 DEF VerifyRight, HasTries, Ready, Begin
    <3>. QED
      BY <1>f, <1>r, <3>1 DEF Synced, Stored
  <2>2. CASE pins' # pins
    <3>1. /\ todo' = <<"pins">> /\ cmd'.kind = "right" /\ cmd = Idle
          /\ UNCHANGED <<up, keys, dos, nvs>>
      BY <1>4, <2>2 DEF VerifyRight, HasTries, Ready, Begin
    <3>2. \A b \in Blobs : Due(b, todo') <=> b = "pins"
      BY <1>n, <3>1, Plans
    <3>. QED
      BY <1>f, <1>n, <1>r, <3>1, <3>2 DEF Synced, Stored
  <2>. QED
    BY <2>1, <2>2
<1>5. ASSUME NEW r \in Refs, WrongPin(r) \/ \E new \in Pins : Change(r, new)
      PROVE  Synced'
  <2>1. /\ todo' = <<"pins">> /\ cmd'.kind \in {"wrong", "change"} /\ cmd = Idle
        /\ UNCHANGED <<up, keys, dos, nvs>>
    BY <1>5 DEF WrongPin, Change, HasTries, Ready, Begin
  <2>2. \A b \in Blobs : Due(b, todo') <=> b = "pins"
    BY <1>n, <2>1, Plans
  <2>. QED
    BY <1>f, <1>n, <1>r, <2>1, <2>2 DEF Synced, Stored
<1>6. ASSUME NEW several \in BOOLEAN, PutData(several) PROVE Synced'
  <2>1. /\ todo' = <<"dos">> /\ cmd'.kind = "put" /\ cmd = Idle
        /\ UNCHANGED <<up, pins, keys, nvs>>
    BY <1>6 DEF PutData, Admin, Ready, Begin
  <2>2. \A b \in Blobs : Due(b, todo') <=> b = "dos"
    BY <1>n, <2>1, Plans
  <2>. QED
    BY <1>f, <1>n, <1>r, <2>1, <2>2 DEF Synced, Stored
<1>7. ASSUME NEW s \in Slots, Admin, NewKey(s) PROVE Synced'
  <2>1. /\ todo' = <<"keys">> /\ cmd'.kind = "key" /\ cmd = Idle
        /\ UNCHANGED <<up, pins, dos, nvs>>
    BY <1>7 DEF NewKey, Admin, Ready, Begin
  <2>2. \A b \in Blobs : Due(b, todo') <=> b = "keys"
    BY <1>n, <2>1, Plans
  <2>. QED
    BY <1>f, <1>n, <1>r, <2>1, <2>2 DEF Synced, Stored
<1>8. CASE Sign
  <2>1. CASE UNCHANGED <<dos, spent, cmd, todo>>
    BY <1>8, <1>f, <2>1 DEF Sign, Synced, Stored
  <2>2. CASE Begin("sign", "none", <<"dos">>)
    <3>1. /\ todo' = <<"dos">> /\ cmd'.kind = "sign" /\ cmd = Idle
          /\ UNCHANGED <<up, pins, keys, nvs>>
      BY <1>8, <2>2 DEF Sign, Ready, Begin
    <3>2. \A b \in Blobs : Due(b, todo') <=> b = "dos"
      BY <1>n, <3>1, Plans
    <3>. QED
      BY <1>f, <1>n, <1>r, <3>1, <3>2 DEF Synced, Stored
  <2>. QED
    BY <1>8, <2>1, <2>2 DEF Sign
<1>9. CASE Terminate \/ Activate
  <2>1. /\ todo' = WipeOrder /\ cmd'.kind = "wipe" /\ keys' = NoKeys
    BY <1>9 DEF Terminate, Activate, FactoryReset, Begin
  <2>2. \A b \in Blobs : Due(b, todo')
    BY <2>1, Plans
  <2>. QED
    BY <1>n, <2>1, <2>2 DEF Synced
<1>10. CASE Persist
  <2>1. PICK b \in Blobs :
              /\ Due(b, todo) /\ ~Due(b, todo')
              /\ UNCHANGED <<up, pins, keys, cmd>>
              /\ nvs'[b] = Ram(b) /\ nvs'[b] # <<>>
              /\ \A c \in Blobs : c # b => nvs'[c] = nvs[c]
              /\ \A c \in {"pins", "keys"} : c # b => (Due(c, todo') <=> Due(c, todo))
              /\ \/ dos' = dos /\ (b # "dos" => (Due("dos", todo') <=> Due("dos", todo)))
                 \/ Due("dos", todo')
    BY <1>10, PersistEffect
  <2>2. CASE b = "pins"
    BY <1>f, <1>n, <2>1, <2>2 DEF Ram, Synced, Stored
  <2>3. CASE b = "keys"
    BY <1>f, <1>n, <2>1, <2>3 DEF Ram, Synced, Stored
  <2>4. CASE b = "dos"
    BY <1>f, <1>n, <2>1, <2>4 DEF Ram, Synced, Stored
  <2>. QED
    BY <2>2, <2>3, <2>4 DEF Blobs
<1>11. CASE Answer
  BY <1>11, <1>f DEF Answer, ramVars, Synced, Stored, Idle
<1>12. CASE UNCHANGED vars
  BY <1>12, <1>f DEF vars, ramVars, runVars, Synced, Stored
<1>. QED
  BY <1>f, <1>1, <1>2, <1>3, <1>4, <1>5, <1>6, <1>7, <1>8, <1>9, <1>10, <1>11, <1>12
     DEF Next, Command, Import, Generate
-----------------------------------------------------------------------------
(* A wrong PIN is charged in RAM before it is written, and written before  *)
(* it is answered; only the right PIN, or the loss of the owner's PIN,     *)
(* gives tries back, and it forgets the guesses too.                       *)
LEMMA ChargedStep ==
    ASSUME TypeInv, TypeInv', SyncInv, ChargedInv, [Next]_vars
    PROVE  ChargedInv'
<1>. USE CardAssumption
<1>. SUFFICES ASSUME ~failed' PROVE Charged'
  BY DEF ChargedInv
<1>f. ~failed /\ ~PersistFails /\ Synced /\ Charged
  BY FailedStays DEF SyncInv, ChargedInv
<1>r. cmd = Idle => cmd.kind = "none" /\ todo = <<>> /\ \A b \in Blobs : ~Due(b, todo)
  BY AtRest
<1>t. /\ pins \in PinsType /\ guesses \in [Refs -> Nat]
      /\ \A r \in Refs : pins[r].retry \in 0 .. RetryMax /\ guesses[r] \in Nat
      /\ \A r \in Refs : Stored("pins") => nvs["pins"][r].retry \in 0 .. RetryMax
  BY DEF TypeInv, TypeOK, PinsType, Stored
<1>u. \A r \in Refs : Unanswered(r) \in {0, 1} /\ Unanswered(r)' \in {0, 1}
  BY DEF Unanswered
<1>1. CASE Load
  <2>1. /\ nvs' = nvs /\ guesses' = guesses /\ cmd'.kind = "load"
        /\ pins' = IF Stored("pins") THEN nvs["pins"] ELSE FactoryPins
    BY <1>1 DEF Load, Begin, histVars
  <2>2. \A r \in Refs : FactoryPins[r].retry = RetryMax
    BY DEF FactoryPins
  <2>3. ASSUME NEW r \in Refs
        PROVE  pins'[r].retry + guesses[r] =< RetryMax
    <3>1. CASE guesses[r] > 0
      BY <1>f, <2>1, <3>1 DEF Charged
    <3>2. CASE guesses[r] = 0
      BY <1>t, <2>1, <2>2, <3>2
    <3>. QED
      BY <1>t, <3>1, <3>2
  <2>4. \A r \in Refs : Unanswered(r)' = 0
    BY <2>1 DEF Unanswered
  <2>5. \A r \in Refs : pins'[r].retry \in Nat
    BY DEF TypeInv, TypeOK, PinsType
  <2>. QED
    BY <1>f, <1>t, <2>1, <2>3, <2>4, <2>5 DEF Charged, Stored
<1>2. CASE Leave \/ Select
  BY <1>2, <1>f DEF Leave, Select, ramVars, runVars, histVars, Charged, Unanswered, Stored
<1>3. CASE PowerCut
  BY <1>3, <1>f DEF PowerCut, histVars, Charged, Stored
<1>4. ASSUME NEW r \in Refs, NEW p, UNCHANGED <<up, nvs>>,
             guesses' = [guesses EXCEPT ![r] = 0], cmd'.kind # "wrong", cmd = Idle,
             pins' = [pins EXCEPT ![r] = p], p.retry = RetryMax
      PROVE  Charged'
  <2>1. \A q \in Refs : Unanswered(q)' = 0 /\ Unanswered(q) = 0
    BY <1>4, <1>r DEF Unanswered
  <2>2. /\ guesses'[r] = 0 /\ \A q \in Refs : q # r => guesses'[q] = guesses[q]
        /\ pins'[r].retry = RetryMax /\ \A q \in Refs : q # r => pins'[q] = pins[q]
    BY <1>4, <1>t DEF PinsType
  <2>3. ASSUME NEW q \in Refs
        PROVE  /\ up => pins'[q].retry + guesses'[q] + Unanswered(q)' =< RetryMax
               /\ guesses'[q] > 0 => Stored("pins") /\ nvs["pins"][q].retry + guesses'[q] =< RetryMax
    BY <1>f, <1>t, <2>1, <2>2 DEF Charged
  <2>. QED
    BY <1>4, <2>3 DEF Charged, Stored
<1>5. ASSUME NEW r \in Refs, NEW w \in Rights(r), VerifyRight(r, w) PROVE Charged'
  <2>1. /\ UNCHANGED <<up, nvs>> /\ guesses' = [guesses EXCEPT ![r] = 0]
        /\ cmd'.kind = "right" /\ cmd = Idle
        /\ pins' = [pins EXCEPT ![r].retry = RetryMax]
    BY <1>5 DEF VerifyRight, HasTries, Ready, Begin
  <2>2. pins' = [pins EXCEPT ![r] = [pins[r] EXCEPT !.retry = RetryMax]]
    BY <2>1
  <2>3. [pins[r] EXCEPT !.retry = RetryMax].retry = RetryMax
    BY <1>t DEF PinsType
  <2>. QED
    BY <1>4, <2>1, <2>2, <2>3
<1>6. ASSUME NEW r \in Refs, NEW new \in Pins, Change(r, new) PROVE Charged'
  <2>1. /\ UNCHANGED <<up, nvs>> /\ guesses' = [guesses EXCEPT ![r] = 0]
        /\ cmd'.kind = "change" /\ cmd = Idle
        /\ pins' = [pins EXCEPT ![r] = [pin |-> new, retry |-> RetryMax]]
    BY <1>6 DEF Change, HasTries, Ready, Begin
  <2>. DEFINE p == [pin |-> new, retry |-> RetryMax]
  <2>2. p.retry = RetryMax /\ pins' = [pins EXCEPT ![r] = p] /\ cmd'.kind # "wrong"
    BY <2>1
  <2>. HIDE DEF p
  <2>. QED
    BY <1>4, <2>1, <2>2
<1>7. ASSUME NEW r \in Refs, WrongPin(r) PROVE Charged'
  <2>1. /\ UNCHANGED <<up, nvs, guesses>> /\ up
        /\ cmd' = [kind |-> "wrong", about |-> r] /\ cmd = Idle
        /\ pins[r].retry > 0
        /\ pins' = [pins EXCEPT ![r].retry = pins[r].retry - 1]
    BY <1>7 DEF WrongPin, HasTries, Ready, Begin, histVars
  <2>2. pins[r].retry - 1 \in 0 .. RetryMax
    BY <1>t, <2>1
  <2>3. /\ pins'[r].retry = pins[r].retry - 1
        /\ \A q \in Refs : q # r => pins'[q] = pins[q]
    <3>. DEFINE n == pins[r].retry - 1
    <3>. DEFINE p == [pins[r] EXCEPT !.retry = n]
    <3>1. pins' = [pins EXCEPT ![r] = p]
      BY <2>1
    <3>2. p.retry = n
      BY <1>t DEF PinsType
    <3>. HIDE DEF p, n
    <3>3. /\ pins'[r] = p
          /\ \A q \in Refs : q # r => pins'[q] = pins[q]
      BY <1>t, <3>1 DEF PinsType
    <3>. QED
      BY <3>2, <3>3 DEF n
  <2>4. \A q \in Refs : /\ Unanswered(q) = 0
                        /\ Unanswered(q)' = IF q = r THEN 1 ELSE 0
    BY <1>r, <2>1 DEF Unanswered
  <2>5. \A q \in Refs : pins[q].retry + guesses[q] + 0 =< RetryMax
    BY <1>f, <2>1, <2>4 DEF Charged
  <2>6. ASSUME NEW q \in Refs PROVE pins'[q].retry + guesses[q] + Unanswered(q)' =< RetryMax
    BY <1>t, <2>3, <2>4, <2>5
  <2>. QED
    BY <1>f, <2>1, <2>6 DEF Charged, Stored
<1>8. ASSUME UNCHANGED <<up, nvs, pins, guesses>>, cmd'.kind # "wrong" PROVE Charged'
  <2>1. \A q \in Refs : Unanswered(q)' = 0
    BY <1>8 DEF Unanswered
  <2>2. \A q \in Refs : up => pins[q].retry + guesses[q] + 0 =< RetryMax
    BY <1>f, <1>t, <1>u DEF Charged
  <2>. QED
    BY <1>8, <1>f, <2>1, <2>2 DEF Charged, Stored
<1>9. CASE Sign \/ (\E several \in BOOLEAN : PutData(several))
           \/ (\E s \in Slots : Admin /\ NewKey(s))
  <2>1. /\ UNCHANGED <<up, nvs, pins, guesses>> /\ cmd = Idle
        /\ cmd' = cmd \/ cmd'.kind \in {"sign", "put", "key"}
    BY <1>9 DEF Sign, PutData, NewKey, Admin, Ready, Begin, histVars
  <2>. QED
    BY <1>8, <1>r, <2>1
<1>10. CASE Terminate \/ Activate
  <2>1. /\ UNCHANGED <<up, nvs>> /\ guesses' = [r \in Refs |-> 0] /\ pins' = FactoryPins
        /\ cmd'.kind = "wipe"
    BY <1>10 DEF Terminate, Activate, FactoryReset, Begin
  <2>2. \A r \in Refs : /\ guesses'[r] = 0 /\ pins'[r].retry = RetryMax
                        /\ Unanswered(r)' = 0
    BY <2>1 DEF FactoryPins, Unanswered
  <2>. QED
    BY <2>2 DEF Charged
<1>11. CASE Persist
  <2>1. PICK b \in Blobs :
              /\ up /\ UNCHANGED <<up, pins, cmd, guesses>>
              /\ nvs'[b] = Ram(b) /\ nvs'[b] # <<>>
              /\ \A c \in Blobs : c # b => nvs'[c] = nvs[c]
    BY <1>11, PersistEffect
  <2>2. CASE b = "pins"
    <3>1. nvs'["pins"] = pins /\ nvs'["pins"] # <<>>
      BY <2>1, <2>2 DEF Ram
    <3>2. ASSUME NEW r \in Refs PROVE pins[r].retry + guesses[r] =< RetryMax
      BY <1>f, <1>t, <1>u, <2>1 DEF Charged
    <3>. QED
      BY <1>f, <2>1, <3>1, <3>2 DEF Charged, Unanswered, Stored
  <2>3. CASE b # "pins"
    <3>1. nvs'["pins"] = nvs["pins"]
      BY <2>1, <2>3 DEF Blobs
    <3>. QED
      BY <1>f, <2>1, <3>1 DEF Charged, Unanswered, Stored
  <2>. QED
    BY <2>2, <2>3
<1>12. CASE Answer
  <2>1. /\ up /\ todo = <<>> /\ cmd' = Idle /\ UNCHANGED <<up, pins, nvs>>
        /\ guesses' = IF cmd.kind = "wrong"
                      THEN [guesses EXCEPT ![cmd.about] = guesses[cmd.about] + 1] ELSE guesses
    BY <1>12, <1>f DEF Answer, ramVars
  <2>2. \A r \in Refs : guesses'[r] = guesses[r] + Unanswered(r)
    BY <1>t, <2>1 DEF Unanswered
  <2>3. \A r \in Refs : Unanswered(r)' = 0
    BY <2>1 DEF Unanswered, Idle
  <2>4. \A r \in Refs : pins[r].retry + guesses'[r] =< RetryMax
    BY <1>f, <1>t, <1>u, <2>1, <2>2 DEF Charged
  <2>5. ASSUME NEW r \in Refs, guesses'[r] > 0
        PROVE  Stored("pins") /\ nvs["pins"][r].retry + guesses'[r] =< RetryMax
    <3>1. ~Due("pins", todo)
      BY <2>1, Plans DEF Blobs
    <3>2. ~Stored("pins") => pins[r].retry = RetryMax
      BY <1>f, <2>1, <3>1 DEF Synced, FactoryPins
    <3>3. Stored("pins")
      BY <1>t, <1>u, <2>2, <2>4, <2>5, <3>2
    <3>. QED
      BY <1>f, <2>1, <2>4, <3>1, <3>3 DEF Synced
  <2>. QED
    BY <1>t, <1>u, <2>1, <2>2, <2>3, <2>4, <2>5 DEF Charged, Stored
<1>13. CASE UNCHANGED vars
  BY <1>13, <1>f DEF vars, ramVars, runVars, histVars, Charged, Unanswered, Stored
<1>. QED
  BY <1>f, <1>1, <1>2, <1>3, <1>5, <1>6, <1>7, <1>9, <1>10, <1>11, <1>12, <1>13
     DEF Next, Command, Import, Generate

(* A wrong PIN that was answered stays charged: no power cut gives its try *)
(* back, whatever command it interrupts, unless a write failed.            *)
THEOREM PinsCharged == Spec => []GuessesCharged
<1>1. Init => SyncInv
  BY DEF Init, SyncInv, Synced, Stored, Idle, Blobs
<1>2. TypeInv /\ TypeInv' /\ SyncInv /\ [Next]_vars => SyncInv'
  BY SyncStep
<1>3. Init => ChargedInv
  BY DEF Init, ChargedInv, Charged
<1>4. TypeInv /\ TypeInv' /\ SyncInv /\ ChargedInv /\ [Next]_vars => ChargedInv'
  BY ChargedStep
<1>5. ChargedInv => GuessesCharged
  BY DEF ChargedInv, Charged, GuessesCharged
<1>. QED
  BY <1>1, <1>2, <1>3, <1>4, <1>5, TypeCorrect, PTL DEF Spec
-----------------------------------------------------------------------------
(* The owner's keys leave the NVS before the owner's PIN does, and come    *)
(* back only from a blob the PIN guards.                                   *)
LEMMA GuardStep ==
    ASSUME TypeInv, TypeInv', SyncInv, GuardInv, [Next]_vars
    PROVE  GuardInv'
<1>. USE CardAssumption
<1>. SUFFICES ASSUME ~failed' PROVE Guarding'
  BY DEF GuardInv
<1>f. ~failed /\ ~PersistFails /\ Synced /\ Guarding
  BY FailedStays DEF SyncInv, GuardInv
<1>r. cmd = Idle => cmd.kind = "none" /\ todo = <<>> /\ \A b \in Blobs : ~Due(b, todo)
  BY AtRest
<1>n. "pins" \in Blobs /\ "keys" \in Blobs /\ "dos" \in Blobs
  BY DEF Blobs
<1>a. ASSUME UNCHANGED <<nvs, guarded>>
      PROVE  KeysStored' = KeysStored /\ OwnerPin' = OwnerPin
             /\ (Stored("keys")' <=> Stored("keys"))
  BY <1>a DEF KeysStored, OwnerPin, Stored
<1>b. ASSUME UNCHANGED <<up, nvs, keys, guarded>>, cmd = Idle,
             pins'["PW1"].pin = pins["PW1"].pin \/ pins'["PW1"].pin # Factory
      PROVE  Guarding'
  <2>1. RamKeys' = RamKeys
    BY <1>b DEF RamKeys
  <2>2. ~(up /\ pins["PW1"].pin = Factory /\ KeysStored \cap guarded # {})
    BY <1>b, <1>f, <1>r DEF Guarding
  <2>. QED
    BY <1>a, <1>b, <1>f, <2>1, <2>2 DEF Guarding
<1>1. CASE Load
  <2>1. /\ UNCHANGED <<nvs, guarded>> /\ up'
        /\ pins' = IF Stored("pins") THEN nvs["pins"] ELSE FactoryPins
    BY <1>1 DEF Load, histVars
  <2>2. pins'["PW1"].pin = Factory => ~OwnerPin
    BY <2>1 DEF OwnerPin
  <2>3. RamKeys' \cap guarded \subseteq KeysStored
    <3>1. CASE Stored("keys")
      BY <1>1, <3>1 DEF Load, RamKeys, KeysStored
    <3>2. CASE ~Stored("keys")
      BY <1>f, <3>2 DEF Guarding
    <3>. QED
      BY <3>1, <3>2
  <2>. QED
    BY <1>a, <1>f, <2>1, <2>2, <2>3 DEF Guarding
<1>2. CASE Leave
  <2>1. UNCHANGED <<nvs, guarded, keys>> /\ ~up'
    BY <1>2 DEF Leave, ramVars, histVars
  <2>2. RamKeys' = RamKeys
    BY <2>1 DEF RamKeys
  <2>. QED
    BY <1>a, <1>f, <2>1, <2>2 DEF Guarding
<1>3. CASE PowerCut
  <2>1. UNCHANGED <<nvs, guarded>> /\ keys' = NoKeys /\ ~up'
    BY <1>3 DEF PowerCut, histVars
  <2>2. RamKeys' = {}
    BY <2>1 DEF RamKeys, NoKeys
  <2>. QED
    BY <1>a, <1>f, <2>1, <2>2 DEF Guarding
<1>4. CASE Select \/ Sign \/ (\E several \in BOOLEAN : PutData(several))
  <2>1. UNCHANGED <<up, nvs, keys, guarded, pins>> /\ cmd = Idle
    BY <1>4 DEF Select, Sign, PutData, Admin, Ready, runVars, histVars
  <2>. QED
    BY <1>b, <2>1
<1>5. ASSUME NEW r \in Refs,
             WrongPin(r) \/ (\E w \in Rights(r) : VerifyRight(r, w))
                         \/ (\E new \in Pins : Change(r, new))
      PROVE  Guarding'
  <2>1. UNCHANGED <<up, nvs, keys, guarded>> /\ cmd = Idle
    BY <1>5 DEF WrongPin, VerifyRight, Change, HasTries, Ready, histVars
  <2>2. pins \in PinsType /\ "PW1" \in Refs
    BY DEF TypeInv, TypeOK, Refs
  <2>3. pins'["PW1"].pin = pins["PW1"].pin \/ pins'["PW1"].pin # Factory
    <3>1. ASSUME NEW n \in 0 .. RetryMax, pins' = [pins EXCEPT ![r].retry = n]
          PROVE  pins'["PW1"].pin = pins["PW1"].pin
      BY <2>2, <3>1, PinsChange
    <3>2. CASE WrongPin(r)
      <4>1. pins[r].retry - 1 \in 0 .. RetryMax
        <5>1. pins[r].retry \in 0 .. RetryMax /\ pins[r].retry > 0
          BY <2>2, <3>2 DEF WrongPin, HasTries, PinsType
        <5>. QED
          BY <5>1
      <4>. QED
        BY <3>1, <3>2, <4>1 DEF WrongPin
    <3>3. CASE \E w \in Rights(r) : VerifyRight(r, w)
      <4>1. RetryMax \in 0 .. RetryMax
        OBVIOUS
      <4>. QED
        BY <3>1, <3>3, <4>1 DEF VerifyRight
    <3>4. ASSUME NEW new \in Pins, Change(r, new)
          PROVE  pins'["PW1"].pin = pins["PW1"].pin \/ pins'["PW1"].pin # Factory
      <4>1. new # Factory /\ pins' = [pins EXCEPT ![r] = [pin |-> new, retry |-> RetryMax]]
        BY <3>4 DEF Change
      <4>. QED
        BY <2>2, <4>1 DEF PinsType
    <3>. QED
      BY <1>5, <3>2, <3>3, <3>4
  <2>. QED
    BY <1>b, <2>1, <2>3
<1>6. ASSUME NEW s \in Slots, Admin, NewKey(s) PROVE Guarding'
  <2>1. /\ UNCHANGED <<up, nvs, guarded, pins>> /\ cmd = Idle
        /\ keys' = [keys EXCEPT ![s] = lastKey'] /\ lastKey' = lastKey + 1
    BY <1>6 DEF NewKey, Admin, Ready
  <2>2. lastKey' \notin guarded
    BY <2>1 DEF TypeInv, TypeOK, CmdOK, Keys
  <2>3. RamKeys' \subseteq RamKeys \cup {lastKey'}
    BY <2>1 DEF RamKeys, TypeInv, TypeOK, KeysType
  <2>4. RamKeys' \cap guarded \subseteq KeysStored
    BY <1>f, <2>2, <2>3 DEF Guarding
  <2>5. ~(up /\ pins["PW1"].pin = Factory /\ KeysStored \cap guarded # {})
    BY <2>1, <1>f, <1>r DEF Guarding
  <2>. QED
    BY <1>a, <1>f, <2>1, <2>4, <2>5 DEF Guarding
<1>7. CASE Terminate \/ Activate
  <2>1. /\ UNCHANGED <<nvs, guarded>> /\ keys' = NoKeys
        /\ cmd'.kind = "wipe" /\ todo' = WipeOrder
    BY <1>7 DEF Terminate, Activate, FactoryReset, Begin
  <2>2. RamKeys' = {} /\ Due("keys", todo')
    BY <1>n, <2>1, Plans DEF RamKeys, NoKeys
  <2>. QED
    BY <1>a, <1>f, <2>1, <2>2 DEF Guarding
<1>8. CASE Persist
  <2>1. PICK b \in Blobs :
              /\ up /\ Due(b, todo)
              /\ UNCHANGED <<up, pins, keys, cmd, guarded>>
              /\ nvs'[b] = Ram(b) /\ nvs'[b] # <<>>
              /\ \A c \in Blobs : c # b => nvs'[c] = nvs[c]
              /\ b # "keys" => ~Due("keys", todo)
              /\ \A c \in {"pins", "keys"} : c # b => (Due(c, todo') <=> Due(c, todo))
    BY <1>8, PersistEffect
  <2>2. RamKeys' = RamKeys
    BY <2>1 DEF RamKeys
  <2>3. CASE b = "pins"
    <3>1. /\ nvs'["pins"] = pins /\ nvs'["pins"] # <<>> /\ nvs'["keys"] = nvs["keys"]
      BY <1>n, <2>1, <2>3 DEF Ram
    <3>2. KeysStored' = KeysStored /\ (Stored("keys")' <=> Stored("keys"))
      BY <3>1 DEF KeysStored, Stored
    <3>3. KeysStored \cap guarded # {} => pins["PW1"].pin # Factory
      BY <1>f, <2>1, <2>3 DEF Guarding
    <3>4. OwnerPin' <=> pins["PW1"].pin # Factory
      BY <3>1 DEF OwnerPin, Stored
    <3>. QED
      BY <1>f, <2>1, <2>2, <3>2, <3>3, <3>4 DEF Guarding
  <2>4. CASE b = "keys"
    <3>1. /\ nvs'["keys"] = keys /\ nvs'["keys"] # <<>> /\ nvs'["pins"] = nvs["pins"]
      BY <1>n, <2>1, <2>4 DEF Ram
    <3>2. KeysStored' = RamKeys /\ Stored("keys")' /\ (OwnerPin' <=> OwnerPin)
      BY <3>1 DEF KeysStored, RamKeys, OwnerPin, Stored
    <3>3. RamKeys \cap guarded # {} => KeysStored \cap guarded # {}
      BY <1>f DEF Guarding
    <3>4. cmd.kind = "wipe" => RamKeys = {}
      BY <1>f, <2>1, <2>4 DEF Synced, RamKeys, NoKeys
    <3>. QED
      BY <1>f, <2>1, <2>2, <3>2, <3>3, <3>4 DEF Guarding
  <2>5. CASE b = "dos"
    <3>1. nvs'["keys"] = nvs["keys"] /\ nvs'["pins"] = nvs["pins"]
      BY <1>n, <2>1, <2>5
    <3>2. KeysStored' = KeysStored /\ (Stored("keys")' <=> Stored("keys"))
          /\ (OwnerPin' <=> OwnerPin)
      BY <3>1 DEF KeysStored, OwnerPin, Stored
    <3>3. Due("keys", todo') <=> Due("keys", todo)
      BY <2>1, <2>5
    <3>. QED
      BY <1>f, <2>1, <2>2, <3>2, <3>3 DEF Guarding
  <2>. QED
    BY <2>3, <2>4, <2>5 DEF Blobs
<1>9. CASE Answer
  <2>1. /\ up /\ todo = <<>> /\ UNCHANGED <<up, pins, keys, nvs>>
        /\ guarded' = IF OwnerPin THEN guarded \cup KeysStored ELSE guarded
    BY <1>9, <1>f DEF Answer, ramVars
  <2>2. KeysStored' = KeysStored /\ (OwnerPin' <=> OwnerPin) /\ RamKeys' = RamKeys
        /\ (Stored("keys")' <=> Stored("keys"))
    BY <2>1 DEF KeysStored, OwnerPin, RamKeys, Stored
  <2>3. ~Due("pins", todo) /\ ~Due("keys", todo)
    BY <1>n, <2>1, Plans
  <2>4. OwnerPin => pins["PW1"].pin # Factory
    BY <1>f, <2>1, <2>3 DEF Synced, OwnerPin
  <2>5. KeysStored # {} => Stored("keys")
    BY DEF KeysStored
  <2>6. CASE OwnerPin
    BY <1>f, <2>1, <2>2, <2>4, <2>5, <2>6 DEF Guarding
  <2>7. CASE ~OwnerPin
    BY <1>f, <2>1, <2>2, <2>3, <2>7 DEF Guarding
  <2>. QED
    BY <2>6, <2>7
<1>10. CASE UNCHANGED vars
  <2>1. UNCHANGED <<up, nvs, keys, pins, guarded, cmd, todo>>
    BY <1>10 DEF vars, ramVars, runVars, histVars
  <2>2. RamKeys' = RamKeys
    BY <2>1 DEF RamKeys
  <2>. QED
    BY <1>a, <1>f, <2>1, <2>2 DEF Guarding
<1>. QED
  BY <1>f, <1>1, <1>2, <1>3, <1>4, <1>5, <1>6, <1>7, <1>8, <1>9, <1>10
     DEF Next, Command, Import, Generate

(* A reset cut by the power never leaves the owner's keys behind the       *)
(* factory PIN, because it wipes and writes the keys first.                *)
THEOREM KeysGuarded == Spec => []KeysNeverUnguarded
<1>1. Init => SyncInv
  BY DEF Init, SyncInv, Synced, Stored, Idle, Blobs
<1>2. TypeInv /\ TypeInv' /\ SyncInv /\ [Next]_vars => SyncInv'
  BY SyncStep
<1>3. Init => GuardInv
  BY DEF Init, GuardInv, Guarding
<1>4. TypeInv /\ TypeInv' /\ SyncInv /\ GuardInv /\ [Next]_vars => GuardInv'
  BY GuardStep
<1>5. GuardInv => KeysNeverUnguarded
  BY DEF GuardInv, Guarding, KeysNeverUnguarded
<1>. QED
  BY <1>1, <1>2, <1>3, <1>4, <1>5, TypeCorrect, PTL DEF Spec
-----------------------------------------------------------------------------
(* The counter goes up in RAM before the signature is made and in the NVS  *)
(* before it is answered; it goes back to zero with a key that has signed  *)
(* nothing, and only once that key is the stored one.                      *)
LEMMA CountStep ==
    ASSUME TypeInv, TypeInv', SyncInv, CountInv, [Next]_vars
    PROVE  CountInv'
<1>. USE CardAssumption
<1>. SUFFICES ASSUME ~failed' PROVE Counting'
  BY DEF CountInv
<1>f. ~failed /\ ~PersistFails /\ Synced /\ Counting
  BY FailedStays DEF SyncInv, CountInv
<1>r. cmd = Idle => cmd.kind = "none" /\ todo = <<>> /\ \A b \in Blobs : ~Due(b, todo)
  BY AtRest
<1>n. "pins" \in Blobs /\ "keys" \in Blobs /\ "dos" \in Blobs
  BY DEF Blobs
<1>t. /\ signedBy \in [Keys -> 0 .. MaxCtr] /\ keys \in KeysType /\ keys["SIG"] \in Keys
      /\ dos \in DosType /\ dos.ctr \in Nat /\ dos'.ctr \in Nat
      /\ \A k \in Keys : signedBy[k] \in Nat
      /\ Stored("keys") => nvs["keys"]["SIG"] \in Keys
      /\ Stored("dos") => nvs["dos"].ctr \in Nat
  <2>1. signedBy \in [Keys -> 0 .. MaxCtr] /\ keys \in KeysType
    BY DEF TypeInv, TypeOK
  <2>2. keys["SIG"] \in Keys /\ \A k \in Keys : signedBy[k] \in Nat
    BY <2>1 DEF KeysType
  <2>3. dos \in DosType /\ dos' \in DosType
    BY DEF TypeInv, TypeOK
  <2>4. \A d \in DosType : d.ctr \in Nat
    BY DEF DosType
  <2>5. Stored("dos") => nvs["dos"] \in DosType
    BY DEF TypeInv, TypeOK, Stored
  <2>6. Stored("keys") => nvs["keys"]["SIG"] \in Keys
    BY DEF TypeInv, TypeOK, Stored, KeysType
  <2>. QED
    BY <2>1, <2>2, <2>3, <2>4, <2>5, <2>6
<1>b. ASSUME UNCHANGED <<up, nvs, signedBy, keys>>, cmd = Idle, dos'.ctr = dos.ctr,
             cmd' = cmd \/ cmd'.kind \notin {"load", "key", "sign"}
      PROVE  Counting'
  <2>1. cmd'.kind \notin {"load", "key", "sign"}
    BY <1>b, <1>r
  <2>2. Unsent' = 0 /\ Unsent = 0 /\ cmd' # [kind |-> "key", about |-> "SIG"]
    BY <1>b, <1>r, <2>1 DEF Unsent
  <2>. QED
    BY <1>b, <1>f, <2>1, <2>2 DEF Counting, Stored
<1>1. CASE Load
  <2>1. /\ UNCHANGED <<nvs, signedBy>> /\ cmd'.kind = "load"
        /\ dos' = IF Stored("dos") THEN nvs["dos"] ELSE dos
        /\ Stored("keys") => keys' = nvs["keys"]
        /\ keys'["SIG"] \in Keys
    BY <1>1 DEF Load, Begin, histVars, TypeInv, TypeOK, KeysType
  <2>2. Unsent' = 0 /\ cmd' # [kind |-> "key", about |-> "SIG"]
    BY <2>1 DEF Unsent
  <2>3. ASSUME keys'["SIG"] # NoKey PROVE dos'.ctr >= signedBy[keys'["SIG"]]
    <3>1. CASE signedBy[keys'["SIG"]] = 0
      BY <1>t, <3>1
    <3>2. CASE signedBy[keys'["SIG"]] > 0
      <4>1. Stored("keys")
        BY <1>f, <2>1, <3>2 DEF Counting
      <4>. QED
        BY <1>f, <2>1, <2>3, <3>2, <4>1 DEF Counting
    <3>. QED
      BY <1>t, <2>1, <3>1, <3>2
  <2>4. Stored("keys") => ~Due("keys", todo')
    <3>1. Stored("keys") => todo' = <<"dos">>
      BY <1>1 DEF Load, Begin, DosWritten
    <3>. QED
      BY <1>n, <3>1, Plans
  <2>. QED
    BY <1>f, <1>t, <2>1, <2>2, <2>3, <2>4 DEF Counting, Stored
<1>2. CASE Leave \/ PowerCut
  <2>1. /\ UNCHANGED <<nvs, signedBy>> /\ ~up' /\ cmd' = Idle
    BY <1>2 DEF Leave, PowerCut, Ready, ramVars, histVars
  <2>. QED
    BY <1>f, <2>1 DEF Counting, Stored, Idle
<1>3. CASE Select \/ (\E r \in Refs : \/ WrongPin(r)
                                      \/ \E w \in Rights(r) : VerifyRight(r, w)
                                      \/ \E new \in Pins : Change(r, new))
  <2>1. /\ UNCHANGED <<up, nvs, signedBy, keys, dos>> /\ cmd = Idle
        /\ cmd' = cmd \/ cmd'.kind \in {"wrong", "right", "change"}
    BY <1>3 DEF Select, WrongPin, VerifyRight, Change, HasTries, Ready, Begin,
                runVars, histVars
  <2>. QED
    BY <1>b, <2>1
<1>4. ASSUME NEW several \in BOOLEAN, PutData(several) PROVE Counting'
  <2>1. /\ UNCHANGED <<up, nvs, signedBy, keys>> /\ cmd = Idle /\ cmd'.kind = "put"
        /\ dos' = [dos EXCEPT !.multi = several]
    BY <1>4 DEF PutData, Admin, Ready, Begin, histVars
  <2>2. dos'.ctr = dos.ctr
    BY <1>t, <2>1 DEF DosType
  <2>. QED
    BY <1>b, <2>1, <2>2
<1>5. ASSUME NEW s \in Slots, Admin, NewKey(s) PROVE Counting'
  <2>1. /\ UNCHANGED <<up, nvs, signedBy, dos>> /\ cmd = Idle
        /\ cmd' = [kind |-> "key", about |-> s]
        /\ lastKey < MaxKeys /\ lastKey' = lastKey + 1
        /\ keys' = [keys EXCEPT ![s] = lastKey']
    BY <1>5 DEF NewKey, Admin, Ready, Begin
  <2>2. signedBy[lastKey'] = 0
    BY <2>1 DEF TypeInv, TypeOK, CmdOK, Keys
  <2>3. s = "SIG" => keys'["SIG"] = lastKey'
    BY <1>t, <2>1 DEF KeysType
  <2>4. s # "SIG" => keys'["SIG"] = keys["SIG"]
    BY <1>t, <2>1 DEF KeysType
  <2>5. /\ Unsent' = 0 /\ Unsent = 0 /\ cmd'.kind = "key" /\ cmd'.about = s
        /\ cmd' = [kind |-> "key", about |-> "SIG"] => s = "SIG"
    BY <1>r, <2>1 DEF Unsent
  <2>6. keys'["SIG"] # NoKey => dos.ctr >= signedBy[keys'["SIG"]] \/ ~up
    <3>1. CASE s = "SIG"
      BY <1>t, <2>2, <2>3, <3>1
    <3>2. CASE s # "SIG"
      BY <1>f, <1>t, <2>4, <2>5, <3>2 DEF Counting
    <3>. QED
      BY <3>1, <3>2
  <2>7. keys'["SIG"] \in Keys
    BY DEF TypeInv, TypeOK, KeysType
  <2>. QED
    BY <1>f, <1>t, <2>1, <2>2, <2>3, <2>5, <2>6, <2>7 DEF Counting, Stored
<1>6. CASE Sign
  <2>1. /\ UNCHANGED <<up, nvs, signedBy, keys>> /\ cmd = Idle
    BY <1>6 DEF Sign, Ready
  <2>2. CASE UNCHANGED <<dos, spent, cmd, todo>>
    BY <1>b, <2>1, <2>2
  <2>3. CASE dos' = [dos EXCEPT !.ctr = dos.ctr + 1] /\ Begin("sign", "none", <<"dos">>)
    <3>1. dos'.ctr = dos.ctr + 1
      BY <1>t, <2>3 DEF DosType
    <3>2. Unsent' = 1 /\ Unsent = 0 /\ cmd'.kind = "sign"
      BY <1>r, <2>1, <2>3 DEF Unsent, Begin
    <3>3. up /\ keys["SIG"] # NoKey => dos'.ctr >= signedBy[keys["SIG"]] + 1
      BY <1>f, <1>t, <3>1, <3>2 DEF Counting
    <3>. QED
      BY <1>f, <2>1, <3>2, <3>3 DEF Counting, Stored
  <2>. QED
    BY <1>6, <2>2, <2>3 DEF Sign
<1>7. CASE Terminate \/ Activate
  <2>1. /\ UNCHANGED <<nvs, signedBy>> /\ keys' = NoKeys /\ cmd'.kind = "wipe"
    BY <1>7 DEF Terminate, Activate, FactoryReset, Begin
  <2>2. keys'["SIG"] = NoKey
    BY <2>1 DEF NoKeys
  <2>. QED
    BY <1>f, <2>1, <2>2 DEF Counting, Stored
<1>8. CASE Persist
  <2>1. PICK b \in Blobs :
              /\ up /\ Due(b, todo) /\ ~Due(b, todo')
              /\ UNCHANGED <<up, keys, cmd, signedBy>>
              /\ nvs'[b] = Ram(b) /\ nvs'[b] # <<>>
              /\ \A c \in Blobs : c # b => nvs'[c] = nvs[c]
              /\ b # "keys" => ~Due("keys", todo)
              /\ \A c \in {"pins", "keys"} : c # b => (Due(c, todo') <=> Due(c, todo))
              /\ \/ dos' = dos /\ (b # "dos" => (Due("dos", todo') <=> Due("dos", todo)))
                 \/ /\ b = "keys" /\ cmd = [kind |-> "key", about |-> "SIG"]
                    /\ dos'.ctr = 0 /\ Due("dos", todo')
    BY <1>8, PersistEffect
  <2>2. keys["SIG"] # NoKey => dos'.ctr >= signedBy[keys["SIG"]] + Unsent
    BY <1>f, <1>t, <2>1 DEF Counting, Unsent
  <2>3. Unsent' = Unsent
    BY <2>1 DEF Unsent
  <2>4. CASE b = "keys"
    <3>1. /\ nvs'["keys"] = keys /\ Stored("keys")' /\ nvs'["dos"] = nvs["dos"]
      BY <1>n, <2>1, <2>4 DEF Ram, Stored
    <3>2. ASSUME keys["SIG"] # NoKey, signedBy[keys["SIG"]] > 0
          PROVE  Stored("dos") /\ nvs["dos"].ctr >= signedBy[keys["SIG"]]
      <4>1. cmd # [kind |-> "key", about |-> "SIG"]
        BY <1>f, <3>2 DEF Counting
      <4>2. cmd.kind # "wipe"
        BY <1>f, <2>1, <2>4, <3>2 DEF Synced, NoKeys
      <4>3. cmd.kind # "load"
        BY <1>f, <2>1, <2>4, <1>t, <3>2 DEF Counting
      <4>4. cmd.kind = "key" /\ ~Due("dos", todo)
        <5>1. todo # <<>> /\ Plan(cmd.kind, todo)
          BY <2>1, Plans DEF TypeInv, CmdOK
        <5>2. todo # <<"dos">> /\ todo # <<"pins">>
          BY <1>n, <2>1, <2>4, Plans
        <5>3. cmd.kind = "key" /\ todo = <<"keys">>
          BY <4>2, <4>3, <5>1, <5>2 DEF Plan
        <5>. QED
          BY <1>n, <5>3, Plans
      <4>5. dos.ctr >= signedBy[keys["SIG"]]
        BY <1>f, <1>t, <2>1, <3>2, <4>4 DEF Counting, Unsent
      <4>. QED
        BY <1>f, <2>1, <4>4, <4>5 DEF Synced
    <3>. QED
      BY <1>f, <2>1, <2>2, <2>3, <2>4, <3>1, <3>2 DEF Counting, Stored
  <2>5. CASE b = "pins"
    <3>1. nvs'["keys"] = nvs["keys"] /\ nvs'["dos"] = nvs["dos"]
      BY <1>n, <2>1, <2>5
    <3>. QED
      BY <1>f, <2>1, <2>2, <2>3, <2>5, <3>1 DEF Counting, Stored
  <2>6. CASE b = "dos"
    <3>1. /\ nvs'["dos"] = dos /\ Stored("dos")' /\ nvs'["keys"] = nvs["keys"]
      BY <1>n, <2>1, <2>6 DEF Ram, Stored
    <3>2. Stored("keys") => nvs["keys"] = keys
      BY <1>f, <2>1, <2>6 DEF Synced
    <3>3. keys["SIG"] # NoKey => dos.ctr >= signedBy[keys["SIG"]]
      BY <1>f, <1>t, <2>1 DEF Counting, Unsent
    <3>. QED
      BY <1>f, <2>1, <2>2, <2>3, <2>6, <3>1, <3>2, <3>3 DEF Counting, Stored
  <2>. QED
    BY <2>4, <2>5, <2>6 DEF Blobs
<1>9. CASE Answer
  <2>1. /\ up /\ todo = <<>> /\ cmd' = Idle /\ UNCHANGED <<up, keys, dos, nvs>>
        /\ signedBy' = IF cmd.kind = "sign"
                       THEN [signedBy EXCEPT ![keys["SIG"]] = signedBy[keys["SIG"]] + 1]
                       ELSE signedBy
    BY <1>9, <1>f DEF Answer, ramVars
  <2>2. /\ Stored("dos") /\ nvs["dos"] = dos
        /\ Stored("keys") => nvs["keys"] = keys
        /\ ~Stored("keys") => keys["SIG"] = NoKey
    <3>1. \A b \in Blobs : ~Due(b, todo)
      BY <2>1, Plans
    <3>. QED
      BY <1>f, <1>n, <2>1, <3>1 DEF Synced, NoKeys
  <2>3. /\ signedBy'[keys["SIG"]] = signedBy[keys["SIG"]] + Unsent
        /\ cmd.kind # "sign" => signedBy' = signedBy
    BY <1>t, <2>1 DEF Unsent
  <2>4. keys["SIG"] # NoKey => dos.ctr >= signedBy'[keys["SIG"]]
    BY <1>f, <2>1, <2>3 DEF Counting
  <2>5. ~Stored("keys") => cmd.kind # "sign"
    BY <2>2 DEF TypeInv, CmdOK
  <2>6. /\ Unsent' = 0 /\ cmd' # [kind |-> "key", about |-> "SIG"] /\ cmd'.kind # "load"
    BY <2>1 DEF Unsent, Idle
  <2>7. signedBy'[keys["SIG"]] \in Nat
    BY <1>t DEF TypeInv, TypeOK
  <2>. QED
    BY <1>f, <1>t, <2>1, <2>2, <2>3, <2>4, <2>5, <2>6, <2>7 DEF Counting, Stored
<1>10. CASE UNCHANGED vars
  BY <1>10, <1>f DEF vars, ramVars, runVars, histVars, Counting, Unsent, Stored
<1>. QED
  BY <1>f, <1>1, <1>2, <1>3, <1>4, <1>5, <1>6, <1>7, <1>8, <1>9, <1>10
     DEF Next, Command, Import, Generate

(* The counter of DO 93 is never behind the signatures the present key has *)
(* answered, across power cuts and re-entries of the mode, unless a write  *)
(* failed.                                                                 *)
THEOREM CounterCovers == Spec => []CounterCoversSignatures
<1>1. Init => SyncInv
  BY DEF Init, SyncInv, Synced, Stored, Idle, Blobs
<1>2. TypeInv /\ TypeInv' /\ SyncInv /\ [Next]_vars => SyncInv'
  BY SyncStep
<1>3. Init => CountInv
  BY DEF Init, CountInv, Counting, Stored, Idle, Blobs
<1>4. TypeInv /\ TypeInv' /\ SyncInv /\ CountInv /\ [Next]_vars => CountInv'
  BY CountStep
<1>5. TypeInv /\ CountInv => CounterCoversSignatures
  <2>. SUFFICES ASSUME TypeInv, CountInv, up, ~failed, keys["SIG"] # NoKey
                PROVE  dos.ctr >= signedBy[keys["SIG"]]
    BY DEF CounterCoversSignatures
  <2>1. dos.ctr >= signedBy[keys["SIG"]] + Unsent
    BY DEF CountInv, Counting
  <2>2. dos.ctr \in Nat /\ signedBy[keys["SIG"]] \in Nat
    BY CardAssumption DEF TypeInv, TypeOK, DosType, KeysType
  <2>. QED
    BY <2>1, <2>2 DEF Unsent
<1>. QED
  BY <1>1, <1>2, <1>3, <1>4, <1>5, TypeCorrect, PTL DEF Spec
-----------------------------------------------------------------------------
(* The right to sign comes back only with the VERIFY 81 that makes the     *)
(* last signature no longer the one that used it up.                       *)
LEMMA SpentStep ==
    ASSUME SpentInv, [Next]_vars
    PROVE  /\ SpentInv'
           /\ cmd.kind # "sign" /\ cmd'.kind = "sign" => ~spent
<1>1. CASE Load \/ PowerCut
  BY <1>1 DEF Load, PowerCut, SessionReset, Begin, histVars, SpentInv, Idle
<1>2. CASE Leave \/ Persist \/ PersistFails \/ Answer \/ UNCHANGED vars
  BY <1>2 DEF Leave, Persist, PersistFails, Answer, vars, ramVars, runVars, histVars,
              SpentInv, Idle
<1>3. CASE Select
  BY <1>3 DEF Select, runVars, histVars, SpentInv
<1>4. CASE Terminate \/ Activate
  BY <1>4 DEF Terminate, Activate, FactoryReset, Begin, SpentInv
<1>5. CASE Sign
  <2>1. "sign" \in verified /\ verified' \subseteq verified
    BY <1>5 DEF Sign, SignToken
  <2>2. ~spent
    BY <2>1 DEF SpentInv
  <2>3. CASE spent' = spent
    BY <2>2, <2>3 DEF SpentInv
  <2>4. CASE spent' = ~dos.multi
    BY <1>5, <2>4 DEF Sign, SignToken, SpentInv
  <2>. QED
    BY <1>5, <2>2, <2>3, <2>4 DEF Sign
<1>6. ASSUME NEW r \in Refs,
             WrongPin(r) \/ (\E w \in Rights(r) : VerifyRight(r, w))
                         \/ (\E new \in Pins : Change(r, new))
      PROVE  SpentInv' /\ cmd'.kind # "sign"
  <2>1. CASE WrongPin(r) \/ \E new \in Pins : Change(r, new)
    <3>1. verified' \subseteq verified /\ spent' = spent /\ cmd'.kind \in {"wrong", "change"}
      BY <2>1 DEF WrongPin, Change, Begin, histVars
    <3>. QED
      BY <3>1 DEF SpentInv
  <2>2. ASSUME NEW w \in Rights(r), VerifyRight(r, w)
        PROVE  SpentInv' /\ cmd'.kind # "sign"
    <3>1. /\ verified' = verified \cup {w} /\ cmd'.kind = "right"
          /\ spent' => spent /\ w # "sign"
      BY <2>2 DEF VerifyRight, Begin
    <3>. QED
      BY <3>1 DEF SpentInv
  <2>. QED
    BY <1>6, <2>1, <2>2
<1>7. ASSUME NEW several \in BOOLEAN, PutData(several)
      PROVE  SpentInv' /\ cmd'.kind # "sign"
  BY <1>7 DEF PutData, Begin, histVars, SpentInv
<1>8. ASSUME NEW s \in Slots, NewKey(s) PROVE SpentInv' /\ cmd'.kind # "sign"
  BY <1>8 DEF NewKey, Begin, SpentInv
<1>. QED
  BY <1>1, <1>2, <1>3, <1>4, <1>5, <1>6, <1>7, <1>8 DEF Next, Command, Import, Generate

(* In the forced mode two signatures are never made on one VERIFY 81, not  *)
(* even around a write of C4, a failed computation or a power cut.         *)
THEOREM OneSignature == Spec => OneSignaturePerVerify
<1>1. Init => SpentInv
  BY DEF Init, SpentInv
<1>2. SpentInv /\ [Next]_vars => SpentInv'
  BY SpentStep
<1>3. SpentInv /\ [Next]_vars => [cmd.kind # "sign" /\ cmd'.kind = "sign" => ~spent]_vars
  BY SpentStep
<1>. QED
  BY <1>1, <1>2, <1>3, PTL DEF Spec, OneSignaturePerVerify
=============================================================================
