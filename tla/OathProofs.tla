----------------------------- MODULE OathProofs -----------------------------
(***************************************************************************)
(* Proofs about the YKOATH applet and the store of secrets: for every      *)
(* number of slots, of labels and of accounts in a page, whatever write    *)
(* fails and wherever the power is cut.                                    *)
(***************************************************************************)
EXTENDS OathStore, FiniteSetTheorems, SequenceTheorems, WellFoundedInduction, TLAPS

\* An account in a slot; the secrets of a table; what remains of a list.
OathSlot == [kind : {"oath"}, name : Names, key : Keys, digits : BOOLEAN]

KeysOf(s) == {s[i].key : i \in {j \in Slots : s[j] # Empty}}

Suffix(p, s) == \E k \in 0 .. Len(s) : p = SubSeq(s, k + 1, Len(s))

(* What the command under way knows of its slot: only DELETE and RESET     *)
(* leave it without an account.                                            *)
CmdOK ==
    /\ cmd.pc = "rest" \/ cmd.op = "none" => cmd = Rest
    /\ cmd # Rest => up
    /\ cmd.op \in {"put", "replace", "rename", "delete", "code"} => cmd.slot \in Slots
    /\ cmd.op \in {"put", "replace", "rename", "code"} => IsOath(cmd.slot)
    /\ cmd.op = "delete" /\ cmd.pc = "touch" => IsOath(cmd.slot)
    /\ cmd.op \in {"put", "replace", "rename"} => cmd.key \in Keys
    /\ cmd.digits => cmd.op \in {"put", "replace", "rename"}
    /\ cmd.pc = "digits" => cmd.digits
    /\ cmd.op = "reset" /\ cmd.pc = "touch" => cmd.slot = NoSlot
    /\ cmd.op = "reset" /\ cmd.pc = "persist" => cmd.slot \in Slots
    /\ cmd.op = "code" => cmd.pc \in {"touch", "answer"}

\* The types, and what the command in progress knows.
TypeInv == TypeOK /\ CmdOK

(* The blob, too, holds no label twice: the RAM is read back from it.      *)
UniqueIn(s) ==
    \A i, j \in Slots : i # j /\ s[i] # Empty /\ s[j] # Empty => s[i].name # s[j].name

\* Unique labels in RAM, and in the blob that a power cut gives back.
UniqueInv == UniqueIn(store) /\ (nvs # <<>> => UniqueIn(nvs))

(* While the mode runs, the RAM holds every secret of the blob that was    *)
(* not granted; RESET clears only accounts it was granted.                 *)
KeptInv ==
    /\ up => Stored \ given \subseteq KeysOf(store)
    /\ cmd.op = "reset" /\ cmd.pc = "persist"
          => \A i \in Slots : IsOath(i) => store[i].key \in given

\* The listing is a sequence of labels.
ListingOK == Listing \in Seq(Names)

(* What is still to be served is the end of the list, but between the      *)
(* change of the RAM and the end of its write.                             *)
PageInv ==
    /\ cmd.pc = "digits" => pending = <<>>
    /\ ~failed /\ cmd.pc # "persist" => Suffix(pending, Listing)
-----------------------------------------------------------------------------
(* A slot is empty, the OTP mode's, or an account; only an account has the *)
(* kind "oath", and everything that is not empty has a label.              *)
LEMMA SlotCases ==
    ASSUME NEW x \in SlotType
    PROVE  /\ x = Empty \/ x = Otp \/ x \in OathSlot
           /\ x.kind = "oath" <=> x \in OathSlot
           /\ x.kind = "oath" => x # Empty
           /\ x # Empty => x.name \in Names
<1>. USE OathAssumption
<1>1. x = Empty \/ x = Otp \/ x \in OathSlot
  BY DEF SlotType, OathSlot
<1>2. CASE x = Empty
  BY <1>2 DEF Empty, OathSlot
<1>3. CASE x = Otp
  BY <1>3 DEF Otp, Empty, OathSlot
<1>4. CASE x \in OathSlot
  BY <1>4 DEF Empty, OathSlot
<1>. QED
  BY <1>1, <1>2, <1>3, <1>4

(* A new account is one.                                                   *)
LEMMA AccountIsOath ==
    ASSUME NEW n \in Names, NEW k \in Keys
    PROVE  /\ Account(n, k) \in SlotType /\ Account(n, k) # Empty
           /\ Account(n, k).kind = "oath"
           /\ Account(n, k).name = n /\ Account(n, k).key = k
  BY DEF Account, SlotType, Empty

(* The three ways the applet changes a slot leave a store.                 *)
LEMMA StoreChanges ==
    ASSUME NEW s \in [Slots -> SlotType], NEW i \in Slots
    PROVE  /\ Cleared(s, i) \in [Slots -> SlotType]
           /\ \A n \in Names, k \in Keys :
                 [s EXCEPT ![i] = Account(n, k)] \in [Slots -> SlotType]
           /\ s[i].kind = "oath" =>
                 /\ WithDigits(s, i) \in [Slots -> SlotType]
                 /\ WithDigits(s, i)[i].kind = "oath"
                 /\ WithDigits(s, i)[i].name = s[i].name
                 /\ WithDigits(s, i)[i].key = s[i].key
<1>1. Cleared(s, i) \in [Slots -> SlotType]
  BY DEF Cleared, SlotType
<1>2. ASSUME NEW n \in Names, NEW k \in Keys
      PROVE  [s EXCEPT ![i] = Account(n, k)] \in [Slots -> SlotType]
  BY AccountIsOath
<1>3. ASSUME s[i].kind = "oath"
      PROVE  /\ WithDigits(s, i) \in [Slots -> SlotType]
             /\ WithDigits(s, i)[i].kind = "oath"
             /\ WithDigits(s, i)[i].name = s[i].name
             /\ WithDigits(s, i)[i].key = s[i].key
  <2>1. s[i] \in OathSlot
    BY <1>3, SlotCases
  <2>2. [s[i] EXCEPT !.digits = TRUE] \in OathSlot
    BY <2>1 DEF OathSlot
  <2>3. /\ [s[i] EXCEPT !.digits = TRUE].name = s[i].name
        /\ [s[i] EXCEPT !.digits = TRUE].key = s[i].key
        /\ [s[i] EXCEPT !.digits = TRUE].kind = s[i].kind
    BY <2>1 DEF OathSlot
  <2>4. WithDigits(s, i) = [s EXCEPT ![i] = [s[i] EXCEPT !.digits = TRUE]]
    BY DEF WithDigits
  <2>5. OathSlot \subseteq SlotType
    BY DEF OathSlot, SlotType
  <2>. QED
    BY <1>3, <2>2, <2>3, <2>4, <2>5
<1>. QED
  BY <1>1, <1>2, <1>3
-----------------------------------------------------------------------------
(* Every nonempty set of naturals has a least element.                     *)
LEMMA LeastElement ==
    ASSUME NEW T \in SUBSET Nat, T # {}
    PROVE  \E m \in T : \A y \in T : ~ (y < m)
<1>1. PICK m \in T : \A y \in T : ~ (<<y, m>> \in OpToRel(<, Nat))
  BY NatLessThanWellFounded, WFMin
<1>2. ASSUME NEW y \in T PROVE ~ (y < m)
  BY <1>1 DEF OpToRel
<1>. QED
  BY <1>2

(* Every element of a set of integers has its rank, and every rank below   *)
(* its cardinality has its element.                                        *)
LEMMA RankedElement ==
    ASSUME NEW n \in Nat, NEW S \in SUBSET (1 .. n), NEW j \in 1 .. Cardinality(S)
    PROVE  \E i \in S : Cardinality({l \in S : l < i}) = j - 1
<1>. DEFINE UpTo(i) == {l \in S : l =< i}
            Under(i) == {l \in S : l < i}
            T == {i \in 0 .. n : Cardinality(UpTo(i)) >= j}
<1>1. S \subseteq 1 .. n /\ \A l \in S : l \in Nat /\ 1 =< l /\ l =< n
  OBVIOUS
<1>2. IsFiniteSet(S) /\ Cardinality(S) \in Nat
  <2>1. IsFiniteSet(1 .. n)
    BY FS_Interval
  <2>2. IsFiniteSet(S)
    BY <1>1, <2>1, FS_Subset
  <2>. QED
    BY <2>2, FS_CardinalityType
<1>3. ASSUME NEW i \in Int
      PROVE  /\ IsFiniteSet(UpTo(i)) /\ Cardinality(UpTo(i)) \in Nat
             /\ IsFiniteSet(Under(i)) /\ Cardinality(Under(i)) \in Nat
  <2>1. UpTo(i) \in SUBSET S /\ Under(i) \in SUBSET S
    OBVIOUS
  <2>. HIDE DEF UpTo, Under
  <2>2. IsFiniteSet(UpTo(i)) /\ IsFiniteSet(Under(i))
    BY <1>2, <2>1, FS_Subset
  <2>. QED
    BY <2>2, FS_CardinalityType
<1>4. UpTo(n) = S /\ UpTo(0) = {}
  <2>1. \A l \in S : l =< n /\ ~ (l =< 0)
    BY <1>1
  <2>. QED
    BY <2>1, Zenon
<1>5. ASSUME NEW m \in Nat, m # 0 PROVE Under(m) = UpTo(m - 1)
  <2>1. \A l \in S : l < m <=> l =< m - 1
    BY <1>1, <1>5
  <2>. QED
    BY <2>1, Zenon
<1>6. ASSUME NEW m \in S PROVE UpTo(m) = Under(m) \cup {m} /\ m \notin Under(m)
  <2>1. ~ (m < m) /\ \A l \in S : l =< m <=> l < m \/ l = m
    BY <1>1
  <2>. QED
    BY <2>1, Zenon
<1>7. ASSUME NEW m \in Nat, m \notin S PROVE UpTo(m) = Under(m)
  <2>1. \A l \in S : l =< m <=> l < m
    BY <1>1, <1>7
  <2>. QED
    BY <2>1, Zenon
<1>. HIDE DEF UpTo, Under
<1>8. n \in T
  BY <1>2, <1>4
<1>9. PICK m \in T : \A y \in T : ~ (y < m)
  <2>1. T \in SUBSET Nat /\ T # {}
    BY <1>8
  <2>. HIDE DEF T
  <2>. QED
    BY <2>1, LeastElement
<1>10. ASSUME NEW y \in 0 .. n, y < m PROVE Cardinality(UpTo(y)) < j
  <2>1. y \notin T
    BY <1>9, <1>10
  <2>. QED
    BY <1>3, <2>1
<1>11. m \in 1 .. n
  BY <1>4, FS_EmptySet
<1>12. Cardinality(Under(m)) < j
  BY <1>5, <1>10, <1>11
<1>13. m \in S
  BY <1>7, <1>11, <1>12, <1>3
<1>14. Cardinality(UpTo(m)) = Cardinality(Under(m)) + 1
  BY <1>3, <1>6, <1>11, <1>13, FS_AddElement
<1>15. Cardinality(Under(m)) = j - 1
  BY <1>3, <1>11, <1>12, <1>14
<1>. QED
  BY <1>13, <1>15 DEF Under

(* The listing names as many accounts as there are, each by its label.     *)
LEMMA ListingType == store \in [Slots -> SlotType] => Listing \in Seq(Names)
<1>. SUFFICES ASSUME store \in [Slots -> SlotType] PROVE Listing \in Seq(Names)
  OBVIOUS
<1>. DEFINE Nth(j) == CHOOSE i \in Accounts : Cardinality({l \in Accounts : l < i}) = j - 1
<1>1. NSlots \in Nat /\ Accounts \in SUBSET (1 .. NSlots)
  BY OathAssumption DEF Accounts, Slots
<1>2. Cardinality(Accounts) \in Nat
  <2>1. IsFiniteSet(1 .. NSlots)
    BY <1>1, FS_Interval
  <2>2. IsFiniteSet(Accounts)
    BY <1>1, <2>1, FS_Subset
  <2>. QED
    BY <2>2, FS_CardinalityType
<1>3. ASSUME NEW j \in 1 .. Cardinality(Accounts) PROVE store[Nth(j)].name \in Names
  <2>1. \E i \in Accounts : Cardinality({l \in Accounts : l < i}) = j - 1
    BY <1>1, RankedElement
  <2>2. Nth(j) \in Accounts
    BY <2>1
  <2>3. \A i \in Accounts : store[i].name \in Names
    BY SlotCases DEF Accounts, IsOath
  <2>. QED
    BY <2>2, <2>3
<1>4. Listing = [j \in 1 .. Cardinality(Accounts) |-> store[Nth(j)].name]
  BY DEF Listing
<1>. HIDE DEF Nth
<1>. QED
  BY <1>2, <1>3, <1>4

(* What a page leaves is again the end of the list it was the end of.      *)
LEMMA AfterSuffix ==
    ASSUME NEW s \in Seq(Names), NEW p, Suffix(p, s)
    PROVE  /\ p \in Seq(Names) /\ After(p) \in Seq(Names)
           /\ Suffix(After(p), s)
<1>. USE OathAssumption
<1>1. Len(s) \in Nat /\ \A i \in 1 .. Len(s) : s[i] \in Names
  BY LenProperties, ElementOfSeq
<1>2. PICK k \in 0 .. Len(s) : p = SubSeq(s, k + 1, Len(s))
  BY DEF Suffix
<1>3. \A m \in 0 .. Len(s) : \A i \in m + 1 .. Len(s) : s[i] \in Names
  BY <1>1
<1>4. ASSUME NEW m \in 0 .. Len(s)
      PROVE  LET q == SubSeq(s, m + 1, Len(s))
             IN  /\ q \in Seq(Names) /\ Len(q) = Len(s) - m
                 /\ \A i \in 1 .. Len(s) - m : q[i] = s[m + i]
  <2>1. m + 1 \in Int /\ Len(s) \in Int
    BY <1>1
  <2>2. \A i \in m + 1 .. Len(s) : s[i] \in Names
    BY <1>3
  <2>3. LET q == SubSeq(s, m + 1, Len(s))
        IN  /\ q \in Seq(Names)
            /\ Len(q) = IF m + 1 =< Len(s) THEN Len(s) - (m + 1) + 1 ELSE 0
            /\ \A i \in 1 .. Len(s) - (m + 1) + 1 : q[i] = s[(m + 1) + i - 1]
    BY <2>1, <2>2, SubSeqProperties
  <2>. QED
    BY <1>1, <2>3
<1>5. p \in Seq(Names) /\ Len(p) = Len(s) - k
  BY <1>2, <1>4
<1>6. CASE Page >= Len(p)
  <2>1. After(p) = <<>>
    BY <1>1, <1>5, <1>6, SubSeqEmpty DEF After
  <2>2. SubSeq(s, Len(s) + 1, Len(s)) = <<>> /\ <<>> \in Seq(Names)
    BY <1>1, SubSeqEmpty, EmptySeq
  <2>3. Len(s) \in 0 .. Len(s)
    BY <1>1
  <2>4. Suffix(After(p), s)
    BY <2>1, <2>2, <2>3 DEF Suffix
  <2>. QED
    BY <1>5, <2>1, <2>2, <2>4
<1>7. CASE Page < Len(p)
  <2>. DEFINE m == k + Page
              q == SubSeq(s, m + 1, Len(s))
  <2>1. m \in 0 .. Len(s)
    BY <1>1, <1>5, <1>7
  <2>2. q \in Seq(Names) /\ Len(q) = Len(s) - m /\ \A i \in 1 .. Len(s) - m : q[i] = s[m + i]
    BY <2>1, <1>4
  <2>3. /\ After(p) \in Seq(Names) /\ Len(After(p)) = Len(p) - Page
        /\ \A i \in 1 .. Len(p) - Page : After(p)[i] = p[Page + i]
    <3>1. Page + 1 \in Int /\ Len(p) \in Int /\ Page + 1 =< Len(p)
      BY <1>1, <1>5, <1>7
    <3>2. \A i \in Page + 1 .. Len(p) : p[i] \in Names
      BY <1>5, ElementOfSeq
    <3>3. /\ After(p) \in Seq(Names)
          /\ Len(After(p)) = IF Page + 1 =< Len(p) THEN Len(p) - (Page + 1) + 1 ELSE 0
          /\ \A i \in 1 .. Len(p) - (Page + 1) + 1 : After(p)[i] = p[(Page + 1) + i - 1]
      BY <3>1, <3>2, SubSeqProperties DEF After
    <3>. QED
      BY <3>1, <3>3
  <2>4. \A i \in 1 .. Len(s) - k : p[i] = s[k + i]
    BY <1>2, <1>4
  <2>5. After(p) = q
    <3>1. Len(After(p)) = Len(q)
      BY <1>1, <1>5, <2>2, <2>3
    <3>2. ASSUME NEW i \in 1 .. Len(q) PROVE After(p)[i] = q[i]
      <4>1. After(p)[i] = p[Page + i] /\ q[i] = s[m + i]
        BY <1>1, <1>5, <2>2, <2>3
      <4>2. p[Page + i] = s[k + (Page + i)]
        <5>1. Len(q) \in Nat /\ Len(q) = Len(s) - (k + Page)
          BY <1>1, <2>1, <2>2
        <5>2. Page + i \in 1 .. Len(s) - k
          <6>. HIDE DEF q
          <6>. QED
            BY <1>1, <5>1
        <5>. QED
          BY <2>4, <5>2
      <4>. QED
        BY <4>1, <4>2
    <3>. HIDE DEF q
    <3>. QED
      BY <2>2, <2>3, <3>1, <3>2, SeqEqual
  <2>. QED
    BY <1>5, <2>1, <2>3, <2>5 DEF Suffix
<1>. QED
  BY <1>1, <1>5, <1>6, <1>7

(* The whole list and the empty one are its ends.                          *)
LEMMA TrivialSuffixes ==
    ASSUME NEW s \in Seq(Names)
    PROVE  Suffix(s, s) /\ Suffix(<<>>, s)
<1>1. Len(s) \in Nat
  BY LenProperties
<1>2. SubSeq(s, 1, Len(s)) = s
  BY SubSeqFull
<1>3. SubSeq(s, Len(s) + 1, Len(s)) = <<>>
  BY <1>1, SubSeqEmpty
<1>. QED
  BY <1>1, <1>2, <1>3 DEF Suffix
-----------------------------------------------------------------------------
(* RESET goes to an account beyond the one it cleared, or ends when there  *)
(* is none.                                                                *)
LEMMA ClearNextCases ==
    ASSUME NEW i \in Slots \cup {NoSlot}, NEW sw, ClearNext(i, sw)
    PROVE  \/ /\ \A j \in Slots : j > i => ~IsOath(j)
              /\ cmd' = [cmd EXCEPT !.pc = "answer", !.sw = sw]
              /\ store' = store /\ pending' = <<>> /\ failed' = FALSE
           \/ \E j \in Slots :
                 /\ j > i /\ IsOath(j)
                 /\ cmd' = [cmd EXCEPT !.pc = "persist", !.sw = sw, !.slot = j]
                 /\ store' = Cleared(store, j)
                 /\ pending' = pending /\ failed' = failed
<1>. USE OathAssumption
<1>. DEFINE Beyond == {j \in Slots : j > i /\ IsOath(j)}
            Next1(j) == j > i /\ IsOath(j) /\ \A l \in i + 1 .. j - 1 : ~IsOath(l)
<1>1. CASE Beyond = {}
  <2>1. NextOath(i) = NoSlot
    BY <1>1 DEF NextOath
  <2>. QED
    BY <1>1, <2>1 DEF ClearNext, Purge
<1>2. CASE Beyond # {}
  <2>1. Beyond \in SUBSET Nat
    BY DEF Slots
  <2>2. PICK m \in Beyond : \A y \in Beyond : ~ (y < m)
    <3>. HIDE DEF Beyond
    <3>. QED
      BY <1>2, <2>1, LeastElement
  <2>3. ASSUME NEW l \in i + 1 .. m - 1 PROVE ~IsOath(l)
    <3>1. l \in Slots /\ l > i /\ l < m
      BY DEF Slots, NoSlot
    <3>. QED
      BY <2>2, <3>1
  <2>4. \E j \in Slots : Next1(j)
    BY <2>3
  <2>5. NextOath(i) = CHOOSE j \in Slots : Next1(j)
    BY <2>4 DEF NextOath
  <2>6. NextOath(i) \in Slots /\ Next1(NextOath(i))
    <3>. HIDE DEF Next1
    <3>. QED
      BY <2>4, <2>5
  <2>7. NextOath(i) # NoSlot
    BY <2>6 DEF Slots, NoSlot
  <2>. QED
    BY <2>6, <2>7 DEF ClearNext
<1>. QED
  BY <1>1, <1>2

(* Type correctness, with what each command in progress knows of its slot: *)
(* the applet never commits on a slot that is no account's any more.       *)
THEOREM TypeCorrect == Spec => []TypeInv
<1>. USE OathAssumption
<1>. USE DEF TypeInv
<1>r. Rest \in [op : {"none", "put", "replace", "delete", "rename", "reset", "code"},
                pc : {"rest", "touch", "persist", "digits", "answer"},
                slot : Slots \cup {NoSlot}, key : 0 .. MaxKeys,
                digits : BOOLEAN, sw : {"ok", "memory", "denied"}]
  BY DEF Rest
<1>1. Init => TypeInv
  <2>. SUFFICES ASSUME Init PROVE TypeInv
    OBVIOUS
  <2>1. NewStore \in [Slots -> SlotType]
    BY DEF NewStore, SlotType
  <2>2. \A i \in Slots : [NewStore EXCEPT ![i] = Otp] \in [Slots -> SlotType]
    BY <2>1 DEF SlotType
  <2>3. nvs \in [Slots -> SlotType] \cup {<<>>} /\ store \in [Slots -> SlotType]
    BY <2>1, <2>2 DEF Init
  <2>4. pending \in Seq(Names)
    BY EmptySeq DEF Init
  <2>5. up = FALSE /\ selected = FALSE /\ failed = FALSE /\ cmd = Rest /\ lastKey = 0 /\ given = {}
    BY DEF Init
  <2>6. TypeOK
    <3>1. up \in BOOLEAN /\ selected \in BOOLEAN /\ failed \in BOOLEAN
      BY <2>5
    <3>2. lastKey \in 0 .. MaxKeys /\ given \subseteq Keys
      BY <2>5
    <3>3. cmd = Rest
      BY <2>5
    <3>. QED
      BY <1>r, <2>3, <2>4, <3>1, <3>2, <3>3, Zenon DEF TypeOK
  <2>. QED
    BY <2>5, <2>6 DEF CmdOK, Rest
<1>2. TypeInv /\ [Next]_vars => TypeInv'
  <2>. SUFFICES ASSUME TypeInv, [Next]_vars PROVE TypeInv'
    OBVIOUS
  <2>e. <<>> \in Seq(Names)
    BY EmptySeq
  <2>1. CASE Start
    <3>1. TypeOK'
      <4>1. nvs' = nvs /\ cmd' = cmd /\ lastKey' = lastKey /\ given' = given
        BY <2>1 DEF Start
      <4>2. store' \in [Slots -> SlotType]
        BY <2>1 DEF Start, TypeOK
      <4>3. up' \in BOOLEAN /\ selected' \in BOOLEAN /\ failed' \in BOOLEAN
        BY <2>1 DEF Start, Purge, TypeOK
      <4>4. pending' \in Seq(Names)
        BY <2>1, <2>e DEF Start, Purge
      <4>. QED
        BY <4>1, <4>2, <4>3, <4>4 DEF TypeOK
    <3>2. cmd = Rest
      BY <2>1 DEF Start, CmdOK
    <3>. QED
      BY <2>1, <3>1, <3>2 DEF Start, CmdOK, Rest
  <2>2. CASE Stop
    <3>1. store' \in [Slots -> SlotType]
      BY <2>2 DEF Stop, TypeOK
    <3>2. cmd' = Rest
      BY <2>2 DEF Stop
    <3>3. nvs' = nvs /\ lastKey' = lastKey /\ given' = given
      BY <2>2 DEF Stop
    <3>4. up' \in BOOLEAN /\ selected' \in BOOLEAN /\ failed' \in BOOLEAN
      BY <2>2 DEF Stop, Purge, TypeOK
    <3>5. pending' \in Seq(Names)
      BY <2>2, <2>e DEF Stop, Purge
    <3>6. TypeOK'
      BY <1>r, <3>1, <3>2, <3>3, <3>4, <3>5 DEF TypeOK
    <3>. QED
      BY <3>2, <3>6 DEF CmdOK, Rest
  <2>3. CASE PowerCut
    <3>1. store' \in [Slots -> SlotType]
      BY <2>3 DEF PowerCut, NewStore, SlotType
    <3>2. cmd' = Rest
      BY <2>3 DEF PowerCut
    <3>3. TypeOK'
      BY <2>3, <2>e, <1>r, <3>1, <3>2 DEF PowerCut, Purge, TypeOK
    <3>. QED
      BY <3>2, <3>3 DEF CmdOK, Rest
  <2>4. CASE Select
    <3>1. TypeOK'
      <4>1. nvs' = nvs /\ cmd' = cmd /\ lastKey' = lastKey /\ given' = given
        BY <2>4 DEF Select
      <4>2. store' \in [Slots -> SlotType]
        BY <2>4 DEF Select, TypeOK
      <4>3. up' \in BOOLEAN /\ selected' \in BOOLEAN /\ failed' \in BOOLEAN
        BY <2>4 DEF Select, Purge, TypeOK
      <4>4. pending' \in Seq(Names)
        BY <2>4, <2>e DEF Select, Purge
      <4>. QED
        BY <4>1, <4>2, <4>3, <4>4 DEF TypeOK
    <3>. QED
      BY <2>4, <3>1 DEF Select, CmdOK, Rest
  <2>5. CASE List
    <3>1. Listing \in Seq(Names)
      BY ListingType DEF TypeOK
    <3>2. pending' \in Seq(Names)
      BY <2>5, <3>1, AfterSuffix, TrivialSuffixes DEF List
    <3>3. TypeOK'
      <4>1. /\ up' = up /\ store' = store /\ nvs' = nvs /\ selected' = selected
            /\ cmd' = cmd /\ lastKey' = lastKey /\ given' = given
        BY <2>5 DEF List
      <4>2. failed' \in BOOLEAN
        BY <2>5 DEF List
      <4>. QED
        BY <3>2, <4>1, <4>2 DEF TypeOK
    <3>. QED
      BY <2>5, <3>3 DEF List, CmdOK, Ready, Rest
  <2>6. CASE SendRemaining
    <3>1. pending' \in Seq(Names)
      BY <2>6, AfterSuffix, TrivialSuffixes DEF SendRemaining, TypeOK
    <3>2. TypeOK'
      BY <2>6, <3>1 DEF SendRemaining, TypeOK
    <3>. QED
      BY <2>6, <3>2 DEF SendRemaining, CmdOK, Ready, Rest
  <2>7. CASE Reset
    <3>1. TypeOK'
      BY <2>7 DEF Reset, Begin, TypeOK
    <3>. QED
      BY <2>7, <3>1 DEF Reset, Begin, CmdOK, Ready, Rest
  <2>8. ASSUME NEW n \in Names, Put(n) PROVE TypeInv'
    <3>1. lastKey' \in Keys
      BY <2>8 DEF Put, TypeOK, Keys
    <3>2. PICK i \in Slots : /\ Free(i)
                             /\ store' = [store EXCEPT ![i] = Account(n, lastKey')]
                             /\ Begin("put", "persist", i, lastKey', TRUE)
      BY <2>8 DEF Put
    <3>3. store' \in [Slots -> SlotType] /\ store'[i].kind = "oath"
      BY <3>1, <3>2, StoreChanges, AccountIsOath DEF TypeOK
    <3>4. TypeOK'
      BY <2>8, <3>1, <3>2, <3>3 DEF Put, Begin, TypeOK, Keys
    <3>. QED
      BY <2>8, <3>1, <3>2, <3>3, <3>4 DEF Put, Begin, CmdOK, Ready, IsOath, Rest
  <2>9. ASSUME NEW n \in Names, Replace(n) PROVE TypeInv'
    <3>1. lastKey' \in Keys
      BY <2>9 DEF Replace, TypeOK, Keys
    <3>2. PICK i \in Slots : Finds(n, i) /\ Begin("replace", "touch", i, lastKey', TRUE)
      BY <2>9 DEF Replace
    <3>3. TypeOK'
      BY <2>9, <3>1, <3>2 DEF Replace, Begin, TypeOK, Keys
    <3>. QED
      BY <2>9, <3>1, <3>2, <3>3 DEF Replace, Begin, CmdOK, Ready, Finds, IsOath, Rest
  <2>10. ASSUME NEW n \in Names, Delete(n) PROVE TypeInv'
    <3>1. PICK i \in Slots : Finds(n, i) /\ Begin("delete", "touch", i, 0, FALSE)
      BY <2>10 DEF Delete
    <3>2. TypeOK'
      BY <2>10, <3>1 DEF Delete, Begin, TypeOK
    <3>. QED
      BY <2>10, <3>1, <3>2 DEF Delete, Begin, CmdOK, Ready, Finds, IsOath, Rest
  <2>11. ASSUME NEW n \in Names, Calculate(n) PROVE TypeInv'
    <3>1. PICK i \in Slots : Finds(n, i) /\ Begin("code", "touch", i, 0, FALSE)
      BY <2>11 DEF Calculate
    <3>2. TypeOK'
      BY <2>11, <3>1 DEF Calculate, Begin, TypeOK
    <3>. QED
      BY <2>11, <3>1, <3>2 DEF Calculate, Begin, CmdOK, Ready, Finds, IsOath, Rest
  <2>12. ASSUME NEW old \in Names, NEW new \in Names, Rename(old, new) PROVE TypeInv'
    <3>1. PICK i \in Slots :
              /\ Finds(old, i) /\ Taken(new) \subseteq {i}
              /\ store' = [store EXCEPT ![i] = Account(new, store[i].key)]
              /\ Begin("rename", "persist", i, store[i].key, store[i].digits)
      BY <2>12 DEF Rename
    <3>2. store[i].key \in Keys /\ store[i].digits \in BOOLEAN
      BY <3>1, SlotCases DEF Finds, IsOath, TypeOK, OathSlot
    <3>3. store' \in [Slots -> SlotType] /\ store'[i].kind = "oath"
      BY <3>1, <3>2, StoreChanges, AccountIsOath DEF TypeOK
    <3>4. TypeOK'
      BY <2>12, <3>1, <3>2, <3>3 DEF Rename, Begin, TypeOK, Keys
    <3>. QED
      BY <2>12, <3>1, <3>2, <3>3, <3>4 DEF Rename, Begin, CmdOK, Ready, IsOath, Rest
  <2>13. CASE Denied
    <3>1. TypeOK'
      BY <2>13 DEF Denied, TypeOK
    <3>. QED
      BY <2>13, <3>1 DEF Denied, CmdOK, TypeOK, IsOath, Rest
  <2>14. CASE FinishCalculate
    <3>1. TypeOK'
      BY <2>14 DEF FinishCalculate, TypeOK
    <3>. QED
      BY <2>14, <3>1 DEF FinishCalculate, CmdOK, TypeOK, IsOath, Rest
  <2>15. CASE Answer
    <3>1. TypeOK'
      BY <2>15 DEF Answer, TypeOK, Rest
    <3>. QED
      BY <2>15, <3>1 DEF Answer, CmdOK, Rest
  <2>16. ASSUME NEW i \in Slots \cup {NoSlot}, NEW sw \in {"ok", "memory", "denied"},
                cmd.op = "reset", ClearNext(i, sw),
                up' = up, nvs' \in [Slots -> SlotType] \cup {<<>>}, selected' = selected,
                lastKey' = lastKey, given' \subseteq Keys
         PROVE  TypeInv'
    <3>. DEFINE Done == [cmd EXCEPT !.pc = "answer", !.sw = sw]
                Go(j) == [cmd EXCEPT !.pc = "persist", !.sw = sw, !.slot = j]
    <3>1. CASE cmd' = Done /\ store' = store /\ pending' = <<>> /\ failed' = FALSE
      <4>1. TypeOK'
        BY <2>16, <2>e, <3>1 DEF TypeOK
      <4>. QED
        BY <2>16, <3>1, <4>1 DEF CmdOK, TypeOK, Rest
    <3>2. ASSUME NEW j \in Slots, cmd' = Go(j), store' = Cleared(store, j),
                 pending' = pending, failed' = failed
          PROVE  TypeInv'
      <4>1. store' \in [Slots -> SlotType]
        BY <3>2, StoreChanges DEF TypeOK
      <4>2. TypeOK'
        BY <2>16, <3>2, <4>1 DEF TypeOK
      <4>. QED
        BY <2>16, <3>2, <4>2 DEF CmdOK, TypeOK, Rest
    <3>. QED
      BY <2>16, <3>1, <3>2, ClearNextCases
  <2>17. CASE Granted
    <3>1. CASE cmd.op \in {"replace", "delete"}
      <4>1. /\ IsOath(cmd.slot) /\ cmd.slot \in Slots
            /\ given' = given \cup {store[cmd.slot].key}
            /\ cmd' = [cmd EXCEPT !.pc = "persist"]
            /\ pending' = pending /\ failed' = failed
        BY <2>17, <3>1 DEF Granted, CmdOK
      <4>2. store[cmd.slot] \in OathSlot
        BY <4>1, SlotCases DEF IsOath, TypeOK
      <4>3. CASE cmd.op = "delete"
        <5>1. store' = Cleared(store, cmd.slot)
          BY <2>17, <4>3 DEF Granted
        <5>2. store' \in [Slots -> SlotType]
          BY <4>1, <5>1, StoreChanges DEF TypeOK
        <5>3. TypeOK'
          BY <2>17, <4>1, <4>2, <5>2 DEF Granted, TypeOK, OathSlot
        <5>. QED
          BY <2>17, <4>1, <4>3, <5>3 DEF Granted, CmdOK, TypeOK, Rest
      <4>4. CASE cmd.op = "replace"
        <5>1. store' = [store EXCEPT ![cmd.slot] = Account(store[cmd.slot].name, cmd.key)]
          BY <2>17, <4>4 DEF Granted
        <5>2. store[cmd.slot].name \in Names /\ cmd.key \in Keys
          BY <4>2, <4>4 DEF OathSlot, CmdOK
        <5>3. store' \in [Slots -> SlotType] /\ store'[cmd.slot].kind = "oath"
          BY <4>1, <5>1, <5>2, StoreChanges, AccountIsOath DEF TypeOK
        <5>4. TypeOK'
          BY <2>17, <4>1, <4>2, <5>3 DEF Granted, TypeOK, OathSlot
        <5>. QED
          BY <2>17, <4>1, <4>4, <5>3, <5>4 DEF Granted, CmdOK, TypeOK, IsOath, Rest
      <4>. QED
        BY <3>1, <4>3, <4>4
    <3>2. CASE cmd.op = "reset"
      <4>1. given' = given \cup {store[i].key : i \in Accounts} /\ ClearNext(NoSlot, "ok")
        BY <2>17, <3>2 DEF Granted
      <4>2. \A i \in Accounts : store[i].key \in Keys
        BY SlotCases DEF Accounts, IsOath, TypeOK, OathSlot
      <4>3. given' \subseteq Keys
        BY <4>1, <4>2 DEF TypeOK
      <4>. QED
        BY <2>16, <2>17, <3>2, <4>1, <4>3 DEF Granted, TypeOK
    <3>. QED
      BY <2>17, <3>1, <3>2 DEF Granted
  <2>18. ASSUME cmd.pc \in {"persist", "digits"}, cmd.op # "reset",
                cmd' = [cmd EXCEPT !.pc = "answer"] \/
                cmd' = [cmd EXCEPT !.pc = "answer", !.sw = "memory"],
                store' = store, pending' \in {pending, <<>>}, failed' \in BOOLEAN,
                nvs' \in {nvs, store},
                UNCHANGED <<up, selected, lastKey, given>>
         PROVE  TypeInv'
    <3>1. TypeOK'
      <4>1. /\ up' = up /\ selected' = selected /\ store' = store
            /\ lastKey' = lastKey /\ given' = given /\ failed' \in BOOLEAN
        BY <2>18
      <4>2. cmd' \in [op : {"none", "put", "replace", "delete", "rename", "reset", "code"},
                     pc : {"rest", "touch", "persist", "digits", "answer"},
                     slot : Slots \cup {NoSlot}, key : 0 .. MaxKeys,
                     digits : BOOLEAN, sw : {"ok", "memory", "denied"}]
        BY <2>18 DEF TypeOK
      <4>3. nvs' \in [Slots -> SlotType] \cup {<<>>} /\ pending' \in Seq(Names)
        BY <2>18, <2>e DEF TypeOK
      <4>. QED
        BY <4>1, <4>2, <4>3 DEF TypeOK
    <3>2. /\ cmd'.op = cmd.op /\ cmd'.pc = "answer" /\ cmd'.slot = cmd.slot
          /\ cmd'.key = cmd.key /\ cmd'.digits = cmd.digits
      BY <2>18 DEF TypeOK
    <3>3. cmd.op # "none" /\ up
      BY <2>18 DEF CmdOK, Rest
    <3>. QED
      BY <2>18, <3>1, <3>2, <3>3 DEF CmdOK, IsOath
  <2>19. CASE Persist
    <3>1. CASE cmd.pc = "persist" /\ cmd.op # "reset" /\ Written /\ cmd.digits
      <4>1. /\ store' = WithDigits(store, cmd.slot) /\ pending' = <<>> /\ failed' = FALSE
            /\ cmd' = [cmd EXCEPT !.pc = "digits"] /\ nvs' = store
            /\ UNCHANGED <<up, selected, lastKey, given>>
        BY <2>19, <3>1 DEF Persist, Written, Purge
      <4>2. cmd.op \in {"put", "replace", "rename"} /\ cmd.slot \in Slots /\ IsOath(cmd.slot)
        BY <3>1 DEF CmdOK
      <4>3. store' \in [Slots -> SlotType] /\ store'[cmd.slot].kind = "oath"
        BY <4>1, <4>2, StoreChanges DEF TypeOK, IsOath
      <4>4. TypeOK'
        BY <2>e, <4>1, <4>3 DEF TypeOK
      <4>. QED
        BY <3>1, <4>1, <4>2, <4>3, <4>4 DEF CmdOK, TypeOK, IsOath, Rest
    <3>2. CASE cmd.pc = "persist" /\ cmd.op # "reset" /\ Written /\ ~cmd.digits
      BY <2>18, <2>19, <3>2 DEF Persist, Written, Purge
    <3>3. CASE cmd.pc = "persist" /\ cmd.op = "reset" /\ ClearNext(cmd.slot, cmd.sw)
      BY <2>16, <2>19, <3>3 DEF Persist, TypeOK
    <3>4. CASE cmd.pc = "digits" /\ cmd' = [cmd EXCEPT !.pc = "answer"]
               /\ UNCHANGED <<store, pending, failed>>
      <4>1. cmd.op # "reset"
        BY <3>4 DEF CmdOK
      <4>. QED
        BY <2>18, <2>19, <3>4, <4>1 DEF Persist, TypeOK
    <3>. QED
      BY <2>19, <3>1, <3>2, <3>3, <3>4 DEF Persist
  <2>20. CASE PersistFails
    <3>1. CASE cmd.op # "reset"
      BY <2>18, <2>20, <3>1 DEF PersistFails, GiveUp, TypeOK
    <3>2. CASE cmd.op = "reset"
      BY <2>16, <2>20, <3>2 DEF PersistFails, TypeOK
    <3>. QED
      BY <3>1, <3>2
  <2>21. CASE UNCHANGED vars
    BY <2>21 DEF vars, TypeOK, CmdOK, IsOath
  <2>. QED
    BY <2>1, <2>2, <2>3, <2>4, <2>5, <2>6, <2>7, <2>8, <2>9, <2>10, <2>11, <2>12,
       <2>13, <2>14, <2>15, <2>17, <2>19, <2>20, <2>21 DEF Next, Command
<1>. QED
  BY <1>1, <1>2, PTL DEF Spec
-----------------------------------------------------------------------------
(* An account is written in a free slot under a label nobody bears, or in  *)
(* its own slot under such a label or its own; the secret that was there   *)
(* stays, or its destruction was granted.                                  *)
Rewrites(i, n, k) ==
    /\ store' = [store EXCEPT ![i] = Account(n, k)]
    /\ \/ \A j \in Slots : j # i /\ store[j] # Empty => store[j].name # n
       \/ store[i] # Empty /\ n = store[i].name
    /\ store[i] = Empty \/ store[i].key = k \/ store[i].key \in given'

\* The two ways in which a command changes an account in place or removes it.
Marks(i) == IsOath(i) /\ store' = WithDigits(store, i)

Erases(i) ==
    /\ IsOath(i) /\ store' = Cleared(store, i)
    /\ store[i].key \in given' \/ (cmd.op = "reset" /\ cmd.pc = "persist")

(* Every way a step changes the RAM.                                       *)
LEMMA StoreStep ==
    ASSUME TypeInv, [Next]_vars
    PROVE  \/ store' = store
           \/ ~up /\ store' = nvs /\ nvs # <<>> /\ nvs' = nvs
           \/ ~up' /\ store' = NewStore /\ nvs' = nvs
           \/ \E i \in Slots, n \in Names, k \in Keys : Rewrites(i, n, k)
           \/ \E i \in Slots : Marks(i)
           \/ \E i \in Slots : Erases(i)
<1>. USE OathAssumption
<1>1. CASE Start
  BY <1>1 DEF Start
<1>2. CASE PowerCut
  BY <1>2 DEF PowerCut
<1>3. ASSUME NEW n \in Names, Put(n)
      PROVE  \E i \in Slots, k \in Keys : Rewrites(i, n, k)
  <2>1. lastKey' \in Keys /\ Taken(n) = {}
    BY <1>3 DEF Put, TypeInv, TypeOK, Keys
  <2>2. PICK i \in Slots : Free(i) /\ store' = [store EXCEPT ![i] = Account(n, lastKey')]
    BY <1>3 DEF Put
  <2>3. \A j \in Slots : j # i /\ store[j] # Empty => store[j].name # n
    BY <2>1 DEF Taken, IsNamed
  <2>4. Rewrites(i, n, lastKey')
    BY <2>2, <2>3 DEF Free, Rewrites
  <2>. QED
    BY <2>1, <2>4
<1>4. ASSUME NEW old \in Names, NEW new \in Names, Rename(old, new)
      PROVE  \E i \in Slots, k \in Keys : Rewrites(i, new, k)
  <2>1. PICK i \in Slots : /\ Finds(old, i) /\ Taken(new) \subseteq {i}
                           /\ store' = [store EXCEPT ![i] = Account(new, store[i].key)]
    BY <1>4 DEF Rename
  <2>2. store[i].key \in Keys
    BY <2>1, SlotCases DEF Finds, IsOath, TypeInv, TypeOK, OathSlot
  <2>3. \A j \in Slots : j # i /\ store[j] # Empty => store[j].name # new
    BY <2>1 DEF Taken, IsNamed
  <2>4. Rewrites(i, new, store[i].key)
    BY <2>1, <2>3 DEF Rewrites
  <2>. QED
    BY <2>2, <2>4
<1>5. CASE Granted
  <2>1. CASE cmd.op = "replace"
    <3>1. cmd.slot \in Slots /\ IsOath(cmd.slot) /\ cmd.key \in Keys
      BY <2>1 DEF TypeInv, CmdOK
    <3>2. store[cmd.slot].name \in Names /\ store[cmd.slot] # Empty
      BY <3>1, SlotCases DEF IsOath, TypeInv, TypeOK
    <3>3. /\ given' = given \cup {store[cmd.slot].key}
          /\ store' = [store EXCEPT ![cmd.slot] = Account(store[cmd.slot].name, cmd.key)]
      BY <1>5, <2>1 DEF Granted
    <3>4. Rewrites(cmd.slot, store[cmd.slot].name, cmd.key)
      BY <3>2, <3>3 DEF Rewrites
    <3>. QED
      BY <3>1, <3>2, <3>4
  <2>2. CASE cmd.op = "delete"
    <3>1. cmd.slot \in Slots
      BY <2>2 DEF TypeInv, CmdOK
    <3>2. Erases(cmd.slot)
      BY <1>5, <2>2 DEF Granted, Erases
    <3>. QED
      BY <3>1, <3>2
  <2>3. CASE cmd.op = "reset"
    <3>1. given' = given \cup {store[i].key : i \in Accounts} /\ ClearNext(NoSlot, "ok")
      BY <1>5, <2>3 DEF Granted
    <3>2. \A i \in Slots : IsOath(i) => store[i].key \in given'
      BY <3>1 DEF Accounts
    <3>. QED
      BY <3>1, <3>2, ClearNextCases DEF Erases
  <2>. QED
    BY <1>5, <2>1, <2>2, <2>3 DEF Granted
<1>6. ASSUME NEW sw, cmd.op = "reset", cmd.pc = "persist", ClearNext(cmd.slot, sw)
      PROVE  store' = store \/ \E i \in Slots : Erases(i)
  <2>1. cmd.slot \in Slots
    BY <1>6 DEF TypeInv, CmdOK
  <2>. QED
    BY <1>6, <2>1, ClearNextCases DEF Erases
<1>7. CASE Persist
  <2>1. CASE cmd.pc = "persist" /\ cmd.op # "reset" /\ Written /\ cmd.digits
    <3>1. cmd.slot \in Slots /\ IsOath(cmd.slot)
      BY <2>1 DEF TypeInv, CmdOK
    <3>2. Marks(cmd.slot)
      BY <2>1, <3>1 DEF Written, Marks
    <3>. QED
      BY <3>1, <3>2
  <2>. QED
    BY <1>6, <1>7, <2>1 DEF Persist, Written
<1>8. CASE PersistFails
  <2>1. CASE cmd.op = "reset"
    <3>1. cmd.pc = "persist"
      BY <1>8, <2>1 DEF PersistFails, TypeInv, CmdOK
    <3>. QED
      BY <1>6, <1>8, <2>1, <3>1 DEF PersistFails
  <2>. QED
    BY <1>8, <2>1 DEF PersistFails
<1>9. CASE Stop \/ Select \/ List \/ SendRemaining \/ Reset \/ Denied
           \/ FinishCalculate \/ Answer \/ UNCHANGED vars
           \/ \E n \in Names : Replace(n) \/ Delete(n) \/ Calculate(n)
  BY <1>9 DEF Stop, Select, List, SendRemaining, Reset, Denied, FinishCalculate,
              Answer, vars, Replace, Delete, Calculate
<1>. QED
  BY <1>1, <1>2, <1>3, <1>4, <1>5, <1>7, <1>8, <1>9 DEF Next, Command

(* The blob only ever becomes the RAM, under a command that writes; a      *)
(* grant is never taken back, and the mode starts by Start alone.          *)
LEMMA BlobStep ==
    ASSUME TypeInv, [Next]_vars
    PROVE  /\ nvs' = nvs \/ (nvs' = store /\ cmd.pc \in {"persist", "digits"})
           /\ given \subseteq given'
           /\ up' => up \/ (nvs' = nvs /\ IF nvs = <<>> THEN store' = store
                                                       ELSE store' = nvs)
<1>1. CASE Command
  <2>1. ASSUME NEW n \in Names, Put(n) \/ Replace(n) \/ Delete(n) \/ Calculate(n)
        PROVE  up /\ nvs' = nvs /\ given' = given
    BY <2>1 DEF Put, Replace, Delete, Calculate, Ready
  <2>2. ASSUME NEW old \in Names, NEW new \in Names, Rename(old, new)
        PROVE  up /\ nvs' = nvs /\ given' = given
    BY <2>2 DEF Rename, Ready
  <2>3. CASE Select \/ List \/ SendRemaining \/ Reset
    BY <2>3 DEF Select, List, SendRemaining, Reset, Ready
  <2>. QED
    BY <1>1, <2>1, <2>2, <2>3 DEF Command
<1>2. CASE Start \/ Stop \/ PowerCut \/ Denied \/ FinishCalculate \/ Answer
           \/ UNCHANGED vars
  BY <1>2 DEF Start, Stop, PowerCut, Denied, FinishCalculate, Answer, vars
<1>3. CASE Granted
  BY <1>3 DEF Granted
<1>4. CASE Persist \/ PersistFails
  BY <1>4 DEF Persist, PersistFails
<1>. QED
  BY <1>1, <1>2, <1>3, <1>4 DEF Next
-----------------------------------------------------------------------------
(* Uniqueness, step by step: PUT and RENAME look through the whole store,  *)
(* the OTP slot included, and what is read back was written so.            *)
LEMMA UniqueStep ==
    ASSUME TypeInv, UniqueInv, [Next]_vars
    PROVE  UniqueInv'
<1>. USE OathAssumption
<1>s. store \in [Slots -> SlotType] /\ UniqueIn(store)
  BY DEF TypeInv, TypeOK, UniqueInv
<1>1. UniqueIn(store')
  <2>1. CASE store' = store
    BY <2>1, <1>s
  <2>2. CASE store' = nvs /\ nvs # <<>>
    BY <2>2 DEF UniqueInv
  <2>3. CASE store' = NewStore
    BY <2>3 DEF NewStore, UniqueIn
  <2>4. ASSUME NEW i \in Slots, NEW n \in Names, NEW k \in Keys, Rewrites(i, n, k)
        PROVE  UniqueIn(store')
    <3>1. /\ store'[i].name = n
          /\ \A j \in Slots : j # i => store'[j] = store[j]
      BY <1>s, <2>4, AccountIsOath DEF Rewrites
    <3>2. \A j \in Slots : j # i /\ store[j] # Empty => store[j].name # n
      BY <1>s, <2>4 DEF Rewrites, UniqueIn
    <3>. QED
      BY <1>s, <3>1, <3>2 DEF UniqueIn
  <2>5. ASSUME NEW i \in Slots, Marks(i) PROVE UniqueIn(store')
    <3>1. /\ store'[i].name = store[i].name /\ store[i] # Empty
          /\ \A j \in Slots : j # i => store'[j] = store[j]
      BY <1>s, <2>5, StoreChanges, SlotCases DEF Marks, IsOath, WithDigits
    <3>. QED
      BY <1>s, <3>1 DEF UniqueIn
  <2>6. ASSUME NEW i \in Slots, Erases(i) PROVE UniqueIn(store')
    <3>1. store'[i] = Empty /\ \A j \in Slots : j # i => store'[j] = store[j]
      BY <1>s, <2>6 DEF Erases, Cleared
    <3>. QED
      BY <1>s, <3>1 DEF UniqueIn
  <2>. QED
    BY StoreStep, <2>1, <2>2, <2>3, <2>4, <2>5, <2>6
<1>2. nvs' = nvs \/ nvs' = store
  BY BlobStep
<1>. QED
  BY <1>s, <1>1, <1>2 DEF UniqueInv, UniqueIn

(* No two slots ever bear the same label, whatever was renamed, replaced   *)
(* or read back: every secret can be reached by its label, hence erased.   *)
THEOREM LabelsUnique == Spec => []NamesUnique
<1>1. Init => UniqueInv
  <2>. SUFFICES ASSUME Init PROVE UniqueInv
    OBVIOUS
  <2>1. UniqueIn(store)
    BY DEF Init, NewStore, UniqueIn
  <2>2. ASSUME NEW i \in Slots, nvs = [NewStore EXCEPT ![i] = Otp] PROVE UniqueIn(nvs)
    BY <2>2 DEF NewStore, UniqueIn
  <2>. QED
    BY <2>1, <2>2 DEF Init, UniqueInv
<1>2. TypeInv /\ UniqueInv /\ [Next]_vars => UniqueInv'
  BY UniqueStep
<1>3. UniqueInv => NamesUnique
  BY DEF UniqueInv, UniqueIn, NamesUnique
<1>. QED
  BY <1>1, <1>2, <1>3, TypeCorrect, PTL DEF Spec
-----------------------------------------------------------------------------
(* The command that is answered with 9000 has written the RAM as it is:    *)
(* between its last write and its answer nothing else changes the store.   *)
THEOREM AnswerStored == Spec => []AnsweredIsStored
<1>1. Init => AnsweredIsStored
  BY DEF Init, Rest, AnsweredIsStored
<1>2. TypeInv /\ AnsweredIsStored /\ [Next]_vars => AnsweredIsStored'
  <2>. SUFFICES ASSUME TypeInv, AnsweredIsStored, [Next]_vars,
                       cmd'.pc = "answer", cmd'.sw = "ok", cmd'.slot # NoSlot,
                       cmd'.op # "code"
                PROVE  nvs' = store'
    BY DEF AnsweredIsStored
  <2>t. cmd \in [op : {"none", "put", "replace", "delete", "rename", "reset", "code"},
                 pc : {"rest", "touch", "persist", "digits", "answer"},
                 slot : Slots \cup {NoSlot}, key : 0 .. MaxKeys,
                 digits : BOOLEAN, sw : {"ok", "memory", "denied"}]
    BY DEF TypeInv, TypeOK
  <2>1. CASE Start
    BY <2>1 DEF Start, TypeInv, CmdOK, Rest
  <2>2. CASE PowerCut \/ Answer
    BY <2>2 DEF PowerCut, Answer, Rest
  <2>3. CASE Stop
    BY <2>3 DEF Stop, Rest
  <2>4. CASE Command
    <3>1. ASSUME NEW n \in Names, Put(n) \/ Replace(n) \/ Delete(n) \/ Calculate(n)
          PROVE  cmd'.pc # "answer"
      BY <3>1 DEF Put, Replace, Delete, Calculate, Begin
    <3>2. ASSUME NEW old \in Names, NEW new \in Names, Rename(old, new)
          PROVE  cmd'.pc # "answer"
      BY <3>2 DEF Rename, Begin
    <3>3. CASE Select \/ List \/ SendRemaining \/ Reset
      BY <3>3 DEF Select, List, SendRemaining, Reset, Ready, Begin, Rest
    <3>. QED
      BY <2>4, <3>1, <3>2, <3>3 DEF Command
  <2>5. CASE Denied
    BY <2>5, <2>t DEF Denied
  <2>6. CASE FinishCalculate
    BY <2>6, <2>t DEF FinishCalculate
  <2>7. CASE Granted
    <3>1. CASE cmd.op = "reset"
      <4>1. cmd.slot = NoSlot /\ ClearNext(NoSlot, "ok")
        BY <2>7, <3>1 DEF Granted, TypeInv, CmdOK
      <4>. QED
        BY <2>t, <4>1, ClearNextCases
    <3>. QED
      BY <2>7, <2>t, <3>1 DEF Granted
  <2>8. CASE Persist
    <3>1. CASE cmd.op = "reset" /\ cmd.pc = "persist"
      <4>1. nvs' = store /\ ClearNext(cmd.slot, cmd.sw) /\ cmd.slot \in Slots
        BY <2>8, <3>1 DEF Persist, TypeInv, CmdOK
      <4>2. cmd'.pc = "answer" => store' = store
        BY <2>t, <4>1, ClearNextCases
      <4>. QED
        BY <4>1, <4>2
    <3>. QED
      BY <2>8, <2>t, <3>1 DEF Persist, Written
  <2>9. CASE PersistFails
    <3>1. CASE cmd.op = "reset"
      <4>1. ClearNext(cmd.slot, "memory") /\ cmd.slot \in Slots
        BY <2>9, <3>1 DEF PersistFails, TypeInv, CmdOK
      <4>. QED
        BY <2>t, <4>1, ClearNextCases
    <3>. QED
      BY <2>9, <2>t, <3>1 DEF PersistFails, GiveUp
  <2>10. CASE UNCHANGED vars
    BY <2>10 DEF vars, AnsweredIsStored
  <2>. QED
    BY <2>1, <2>2, <2>3, <2>4, <2>5, <2>6, <2>7, <2>8, <2>9, <2>10 DEF Next
<1>. QED
  BY <1>1, <1>2, TypeCorrect, PTL DEF Spec
-----------------------------------------------------------------------------
(* A store is never the absent blob.                                       *)
LEMMA StoreIsNotAbsent ==
    ASSUME NEW s \in [Slots -> SlotType]
    PROVE  s # <<>>
<1>1. s \in Seq(SlotType) /\ Len(s) = NSlots
  BY OathAssumption DEF Slots
<1>. QED
  BY <1>1, EmptySeq, OathAssumption

(* The step that starts clearing, or goes on, under RESET has had every    *)
(* account granted.                                                        *)
LEMMA ResetStep ==
    ASSUME TypeInv, KeptInv, [Next]_vars,
           cmd'.op = "reset", cmd'.pc = "persist"
    PROVE  \A i \in Slots : (IsOath(i))' => store'[i].key \in given'
<1>. USE OathAssumption
<1>t. cmd \in [op : {"none", "put", "replace", "delete", "rename", "reset", "code"},
               pc : {"rest", "touch", "persist", "digits", "answer"},
               slot : Slots \cup {NoSlot}, key : 0 .. MaxKeys,
               digits : BOOLEAN, sw : {"ok", "memory", "denied"}]
      /\ store \in [Slots -> SlotType]
  BY DEF TypeInv, TypeOK
<1>1. ASSUME NEW i \in Slots \cup {NoSlot}, NEW sw, cmd.op = "reset", ClearNext(i, sw),
             given \subseteq given',
             \A l \in Slots : IsOath(l) => store[l].key \in given'
      PROVE  \A l \in Slots : (IsOath(l))' => store'[l].key \in given'
  <2>1. CASE store' = store
    BY <1>1, <2>1 DEF IsOath
  <2>2. ASSUME NEW j \in Slots, store' = Cleared(store, j)
        PROVE  \A l \in Slots : (IsOath(l))' => store'[l].key \in given'
    BY <1>t, <1>1, <2>2 DEF IsOath, Cleared, Empty
  <2>. QED
    BY <1>1, <2>1, <2>2, ClearNextCases
<1>2. CASE Granted
  <2>1. cmd.op = "reset"
    BY <1>2, <1>t DEF Granted
  <2>2. given' = given \cup {store[i].key : i \in Accounts} /\ ClearNext(NoSlot, "ok")
    BY <1>2, <2>1 DEF Granted
  <2>3. \A l \in Slots : IsOath(l) => store[l].key \in given'
    BY <2>2 DEF Accounts
  <2>. QED
    BY <1>1, <2>1, <2>2, <2>3
<1>3. CASE Persist \/ PersistFails
  <2>1. cmd.op = "reset"
    BY <1>3, <1>t DEF Persist, PersistFails, Written, GiveUp
  <2>2. cmd.pc = "persist" /\ cmd.slot \in Slots /\ given' = given
        /\ \E sw \in {cmd.sw, "memory"} : ClearNext(cmd.slot, sw)
    BY <1>3, <2>1 DEF Persist, PersistFails, TypeInv, CmdOK
  <2>. QED
    BY <1>1, <2>1, <2>2 DEF KeptInv
<1>4. CASE Command
  <2>1. ASSUME NEW n \in Names, Put(n) \/ Replace(n) \/ Delete(n) \/ Calculate(n)
        PROVE  cmd'.op # "reset"
    BY <2>1 DEF Put, Replace, Delete, Calculate, Begin
  <2>2. ASSUME NEW old \in Names, NEW new \in Names, Rename(old, new)
        PROVE  cmd'.op # "reset"
    BY <2>2 DEF Rename, Begin
  <2>3. CASE Select \/ List \/ SendRemaining \/ Reset
    BY <2>3 DEF Select, List, SendRemaining, Reset, Ready, Begin, Rest
  <2>. QED
    BY <1>4, <2>1, <2>2, <2>3 DEF Command
<1>5. CASE Start \/ Stop \/ PowerCut \/ Answer
  BY <1>5 DEF Start, Stop, PowerCut, Answer, Rest, TypeInv, CmdOK
<1>6. CASE Denied \/ FinishCalculate
  BY <1>6, <1>t DEF Denied, FinishCalculate
<1>7. CASE UNCHANGED vars
  BY <1>7 DEF vars, KeptInv, IsOath
<1>. QED
  BY <1>2, <1>3, <1>4, <1>5, <1>6, <1>7 DEF Next

(* No step takes from the RAM of the running mode a secret that was not    *)
(* granted.                                                                *)
LEMMA RamKeeps ==
    ASSUME TypeInv, KeptInv, [Next]_vars, up, up'
    PROVE  KeysOf(store) \ given' \subseteq KeysOf(store')
<1>s. store \in [Slots -> SlotType]
  BY DEF TypeInv, TypeOK
<1>g. given \subseteq given'
  BY BlobStep
<1>. SUFFICES ASSUME NEW l \in Slots, store[l] # Empty, store[l].key \notin given'
              PROVE  \E j \in Slots : store'[j] # Empty /\ store'[j].key = store[l].key
  <2>1. ASSUME NEW x \in KeysOf(store)
        PROVE  \E l \in Slots : store[l] # Empty /\ store[l].key = x
    BY <2>1 DEF KeysOf
  <2>2. ASSUME NEW x, NEW j \in Slots, store'[j] # Empty, store'[j].key = x
        PROVE  x \in KeysOf(store')
    BY <2>2 DEF KeysOf
  <2>. QED
    BY <2>1, <2>2
<1>1. CASE store' = store
  BY <1>1
<1>2. ASSUME NEW i \in Slots, NEW n \in Names, NEW k \in Keys, Rewrites(i, n, k)
      PROVE  \E j \in Slots : store'[j] # Empty /\ store'[j].key = store[l].key
  <2>1. /\ store'[i] = Account(n, k) /\ store'[i] # Empty /\ store'[i].key = k
        /\ \A j \in Slots : j # i => store'[j] = store[j]
    BY <1>s, <1>2, AccountIsOath DEF Rewrites
  <2>2. store[i] = Empty \/ store[i].key = k \/ store[i].key \in given'
    BY <1>2 DEF Rewrites
  <2>. QED
    BY <2>1, <2>2
<1>3. ASSUME NEW i \in Slots, Marks(i)
      PROVE  \E j \in Slots : store'[j] # Empty /\ store'[j].key = store[l].key
  <2>1. store'[i].kind = "oath" /\ store'[i].key = store[i].key /\ store'[i] \in SlotType
    BY <1>s, <1>3, StoreChanges DEF Marks, IsOath
  <2>2. store'[i] # Empty
    BY <2>1, SlotCases
  <2>3. \A j \in Slots : j # i => store'[j] = store[j]
    BY <1>s, <1>3 DEF Marks, WithDigits
  <2>. QED
    BY <2>1, <2>2, <2>3
<1>4. ASSUME NEW i \in Slots, Erases(i)
      PROVE  \E j \in Slots : store'[j] # Empty /\ store'[j].key = store[l].key
  <2>1. \A j \in Slots : j # i => store'[j] = store[j]
    BY <1>s, <1>4 DEF Erases, Cleared
  <2>2. store[i].key \in given'
    BY <1>4, <1>g DEF Erases, KeptInv
  <2>. QED
    BY <2>1, <2>2
<1>. QED
  BY StoreStep, <1>1, <1>2, <1>3, <1>4

(* So while the mode runs the RAM covers the blob, but for what was        *)
(* granted, after a failed write and across a restart too.                 *)
LEMMA KeptStep ==
    ASSUME TypeInv, TypeInv', KeptInv, [Next]_vars
    PROVE  KeptInv'
<1>s. store \in [Slots -> SlotType] /\ store # <<>>
  BY StoreIsNotAbsent DEF TypeInv, TypeOK
<1>1. up' => Stored' \ given' \subseteq KeysOf(store')
  <2>. SUFFICES ASSUME up' PROVE Stored' \ given' \subseteq KeysOf(store')
    OBVIOUS
  <2>1. CASE ~up
    <3>1. nvs' = nvs /\ IF nvs = <<>> THEN store' = store ELSE store' = nvs
      BY <2>1, BlobStep
    <3>. QED
      BY <3>1 DEF Stored, KeysOf
  <2>2. CASE up
    <3>1. KeysOf(store) \ given' \subseteq KeysOf(store') /\ given \subseteq given'
      BY <2>2, RamKeeps, BlobStep
    <3>2. Stored \ given \subseteq KeysOf(store)
      BY <2>2 DEF KeptInv
    <3>3. CASE nvs' = nvs
      BY <3>1, <3>2, <3>3 DEF Stored
    <3>4. CASE nvs' = store
      <4>1. Stored' = KeysOf(store)
        BY <1>s, <3>4 DEF Stored, KeysOf
      <4>. QED
        BY <3>1, <4>1
    <3>. QED
      BY <3>3, <3>4, BlobStep
  <2>. QED
    BY <2>1, <2>2
<1>. QED
  BY <1>1, ResetStep DEF KeptInv

(* A secret leaves the NVS only if its own destruction was granted,        *)
(* whatever failed or was cut before, and the OTP mode's never does.       *)
THEOREM NothingLost == Spec => NothingLostUntouched
<1>1. Init => KeptInv
  BY DEF Init, KeptInv, Rest
<1>2. TypeInv /\ TypeInv' /\ KeptInv /\ [Next]_vars => KeptInv'
  BY KeptStep
<1>3. TypeInv /\ KeptInv /\ [Next]_vars => Stored \ Stored' \subseteq given
  <2>. SUFFICES ASSUME TypeInv, KeptInv, [Next]_vars
                PROVE  Stored \ Stored' \subseteq given
    OBVIOUS
  <2>1. CASE nvs' = nvs
    BY <2>1 DEF Stored
  <2>2. CASE nvs' = store /\ cmd.pc \in {"persist", "digits"}
    <3>1. store # <<>>
      BY StoreIsNotAbsent DEF TypeInv, TypeOK
    <3>2. Stored' = KeysOf(store)
      BY <2>2, <3>1 DEF Stored, KeysOf
    <3>3. up
      BY <2>2 DEF TypeInv, CmdOK, Rest
    <3>. QED
      BY <3>2, <3>3 DEF KeptInv
  <2>. QED
    BY <2>1, <2>2, BlobStep
<1>. QED
  BY <1>1, <1>2, <1>3, TypeCorrect, PTL DEF Spec, NothingLostUntouched

(* The applet has no grant to destroy the OTP mode's secret: once in the   *)
(* NVS it stays there, whatever the applet is asked.                       *)
THEOREM OtpSecretStays == Spec => [][(OtpKey \in Stored) => (OtpKey \in Stored')]_vars
<1>1. NothingLostUntouched => [][Stored \ Stored' \subseteq given]_vars
  BY DEF NothingLostUntouched
<1>2. TypeInv /\ (Stored \ Stored' \subseteq given) => (OtpKey \in Stored => OtpKey \in Stored')
  <2>1. OtpKey \notin Keys
    BY OathAssumption DEF OtpKey, Keys
  <2>. QED
    BY <2>1 DEF TypeInv, TypeOK
<1>. QED
  BY <1>1, <1>2, NothingLost, TypeCorrect, PTL
-----------------------------------------------------------------------------
(* SEND REMAINING never serves an answer made of an older store: each step *)
(* that ends a change has dropped it, or the write has failed.             *)
LEMMA PageStep ==
    ASSUME TypeInv, ListingOK, ListingOK', PageInv, [Next]_vars
    PROVE  PageInv'
<1>t. cmd \in [op : {"none", "put", "replace", "delete", "rename", "reset", "code"},
               pc : {"rest", "touch", "persist", "digits", "answer"},
               slot : Slots \cup {NoSlot}, key : 0 .. MaxKeys,
               digits : BOOLEAN, sw : {"ok", "memory", "denied"}]
  BY DEF TypeInv, TypeOK
<1>e. Suffix(<<>>, Listing')
  BY TrivialSuffixes DEF ListingOK
<1>a. ASSUME pending' = <<>> PROVE PageInv'
  BY <1>a, <1>e DEF PageInv
<1>b. ASSUME UNCHANGED <<store, pending, failed>>, cmd.pc # "persist", cmd'.pc # "digits"
      PROVE  PageInv'
  <2>1. Listing' = Listing
    BY <1>b DEF Listing, Accounts, IsOath
  <2>. QED
    BY <1>b, <2>1 DEF PageInv
<1>c. ASSUME cmd'.pc = "persist" PROVE PageInv'
  BY <1>c DEF PageInv
<1>1. CASE Start \/ Stop \/ PowerCut \/ Select
  BY <1>1, <1>a DEF Start, Stop, PowerCut, Select, Purge
<1>2. CASE List
  <2>1. Suffix(pending', Listing) /\ cmd'.pc = "rest"
    BY <1>2, AfterSuffix, TrivialSuffixes DEF List, ListingOK, Ready, Rest
  <2>2. Listing' = Listing
    BY <1>2 DEF List, Listing, Accounts, IsOath
  <2>. QED
    BY <2>1, <2>2 DEF PageInv
<1>3. CASE SendRemaining
  <2>1. cmd = Rest /\ cmd' = cmd /\ failed' = failed /\ pending' = After(pending)
    BY <1>3 DEF SendRemaining, Ready
  <2>2. Listing' = Listing
    BY <1>3 DEF SendRemaining, Listing, Accounts, IsOath
  <2>3. ~failed => Suffix(After(pending), Listing)
    BY <2>1, AfterSuffix DEF PageInv, ListingOK, Rest
  <2>. QED
    BY <2>1, <2>2, <2>3 DEF PageInv, Rest
<1>4. ASSUME NEW n \in Names, Put(n) PROVE PageInv'
  BY <1>4, <1>c DEF Put, Begin
<1>5. ASSUME NEW n \in Names, Replace(n) \/ Delete(n) \/ Calculate(n) PROVE PageInv'
  BY <1>5, <1>b DEF Replace, Delete, Calculate, Begin, Ready, Rest
<1>6. ASSUME NEW old \in Names, NEW new \in Names, Rename(old, new) PROVE PageInv'
  BY <1>6, <1>c DEF Rename, Begin
<1>7. CASE Reset
  BY <1>7, <1>b DEF Reset, Begin, Ready, Rest
<1>8. CASE Denied \/ FinishCalculate
  BY <1>8, <1>b, <1>t DEF Denied, FinishCalculate
<1>9. CASE Answer
  BY <1>9, <1>b DEF Answer, Rest
<1>10. ASSUME NEW i \in Slots \cup {NoSlot}, NEW sw, ClearNext(i, sw) PROVE PageInv'
  <2>1. pending' = <<>> \/ cmd'.pc = "persist"
    BY <1>t, <1>10, ClearNextCases
  <2>. QED
    BY <2>1, <1>a, <1>c
<1>11. CASE Granted
  BY <1>t, <1>11, <1>10, <1>c DEF Granted
<1>12. CASE Persist
  <2>1. CASE cmd.pc = "persist" /\ cmd.op = "reset"
    BY <1>10, <1>12, <2>1 DEF Persist, TypeInv, CmdOK
  <2>2. CASE cmd.pc = "persist" /\ cmd.op # "reset"
    BY <1>a, <1>12, <2>2 DEF Persist, Written, Purge
  <2>3. CASE cmd.pc = "digits"
    BY <1>a, <1>12, <2>3 DEF Persist, PageInv
  <2>. QED
    BY <1>12, <2>1, <2>2, <2>3 DEF Persist
<1>13. CASE PersistFails
  <2>1. CASE cmd.op = "reset"
    BY <1>10, <1>13, <2>1 DEF PersistFails, TypeInv, CmdOK
  <2>2. CASE cmd.op # "reset" /\ pending' = <<>>
    BY <1>a, <2>2
  <2>3. CASE cmd.op # "reset" /\ pending' # <<>>
    BY <1>t, <1>13, <2>3 DEF PersistFails, GiveUp, PageInv
  <2>. QED
    BY <2>1, <2>2, <2>3
<1>14. CASE UNCHANGED vars
  <2>1. Listing' = Listing
    BY <1>14 DEF vars, Listing, Accounts, IsOath
  <2>. QED
    BY <1>14, <2>1 DEF vars, PageInv
<1>. QED
  BY <1>1, <1>2, <1>3, <1>4, <1>5, <1>6, <1>7, <1>8, <1>9, <1>11, <1>12, <1>13, <1>14
     DEF Next, Command

(* A listing cut in pages goes on with the accounts as they are now, and   *)
(* only a write that failed can make that untrue.                          *)
THEOREM PagesCurrent == Spec => []PageIsCurrent
<1>1. TypeInv => ListingOK
  BY ListingType DEF TypeInv, TypeOK, ListingOK
<1>2. Init /\ TypeInv => PageInv
  BY <1>1, TrivialSuffixes DEF Init, PageInv, ListingOK, Rest
<1>3. TypeInv /\ ListingOK /\ ListingOK' /\ PageInv /\ [Next]_vars => PageInv'
  BY PageStep
<1>4. PageInv => PageIsCurrent
  BY DEF PageInv, PageIsCurrent, Suffix, Rest
<1>. QED
  BY <1>1, <1>2, <1>3, <1>4, TypeCorrect, PTL DEF Spec
=============================================================================
