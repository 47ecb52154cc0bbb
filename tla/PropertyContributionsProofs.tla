--------------------- MODULE PropertyContributionsProofs ---------------------
(***************************************************************************)
(* Proofs about the property entries and the contributions to them, for    *)
(* every set of cells of any kinds, modifiers and values and every bound:  *)
(* one owner per slot, what each kind of cell shows, and the ledger the    *)
(* additive ones implement; and about the fixed-point words the values     *)
(* are, for every width.                                                   *)
(***************************************************************************)
EXTENDS PropertyLedger, FixPoint, DataLemmas, TLAPS

(* The part of the type invariant the ownership argument needs.            *)
SlotTypeOK ==
  /\ active \in [Cell -> SUBSET AllSlots]
  /\ value \in [Cell -> [AllSlots -> Int]]
  /\ records \in [Owner -> Seq(Record)]
  /\ held \subseteq Record

SlotInv == SlotTypeOK /\ OneOwnerPerSlot

(* Contribution slots are natural numbers apart from the base slot 0.      *)
LEMMA SlotsAreNotZero == Slots \subseteq AllSlots /\ 0 \notin Slots /\ AllSlots \subseteq Nat
BY BoundAssumption DEF Slots, AllSlots

(* Before the first contribution nobody owns a slot and none is active.    *)
LEMMA InitSlotInv == Init => SlotInv
<1> SUFFICES ASSUME Init PROVE SlotInv
  OBVIOUS
<1>1. \A m \in Owner : records[m] = <<>> /\ DOMAIN records[m] = {} /\ RecordsAt(m) = {}
  BY DEF Init, RecordsAt
<1>2. SlotTypeOK
  BY SlotsAreNotZero DEF Init, SlotTypeOK
<1>3. OneOwnerPerSlot
  BY <1>1 DEF Init, OneOwnerPerSlot, NoSharedSlot, NotHeldTwice, OwnedActive, ActiveOwned
<1> QED
  BY <1>2, <1>3 DEF SlotInv

-----------------------------------------------------------------------------
(* Steps that write slot s of cell c and keep every record and held index. *)
LEMMA WriteKeepsOwners ==
  ASSUME SlotInv, NEW c \in Cell, NEW s \in AllSlots, NEW v \in Int,
         s = 0 \/ <<c, s>> \in held \/ \E m \in Owner : <<c, s>> \in RecordsAt(m),
         Write(c, s, v), UNCHANGED <<records, held>>
  PROVE  SlotInv'
<1> USE DEF SlotInv, SlotTypeOK
<1>1. /\ active' = [active EXCEPT ![c] = @ \cup {s}]
      /\ value' = [value EXCEPT ![c][s] = v]
  BY DEF Write, Store
<1>2. SlotTypeOK'
  BY <1>1
<1>3. \A d \in Cell : active[d] \subseteq active'[d]
  BY <1>1
<1>4. \A d \in Cell : \A r \in active'[d] : r \in active[d] \/ (d = c /\ r = s)
  BY <1>1
<1>5. \A m \in Owner : RecordsAt(m)' = RecordsAt(m)
  BY DEF RecordsAt
<1>6. NoSharedSlot' /\ NotHeldTwice'
  BY DEF OneOwnerPerSlot, NoSharedSlot, NotHeldTwice
<1>7. \A m \in Owner : \A i \in DOMAIN records[m] : records[m][i] \in Record
  OBVIOUS
<1>8. OwnedActive'
  BY <1>3, <1>7 DEF OneOwnerPerSlot, OwnedActive, Record
<1>9. ASSUME NEW d \in Cell, NEW t \in active'[d] \ {0}
      PROVE  <<d, t>> \in held' \/ \E m \in Owner : <<d, t>> \in RecordsAt(m)'
  <2>1. CASE t \in active[d]
    BY <1>5, <2>1 DEF OneOwnerPerSlot, ActiveOwned
  <2>2. CASE d = c /\ t = s
    BY <1>5, <1>9, <2>2
  <2> QED
    BY <1>4, <2>1, <2>2
<1>10. ActiveOwned'
  BY <1>9 DEF ActiveOwned
<1> QED
  BY <1>2, <1>6, <1>8, <1>10 DEF OneOwnerPerSlot

(* Popping one modifier's records frees its slots and nobody else's.       *)
LEMMA PopKeepsOwners ==
  ASSUME SlotInv, NEW m \in Owner, Pop(m)
  PROVE  SlotInv'
<1> USE DEF SlotInv, SlotTypeOK
<1>1. /\ active' = [c \in Cell |-> active[c] \ SlotsOf(m, c)]
      /\ UNCHANGED <<value, held>>
      /\ records' = [records EXCEPT ![m] = <<>>]
  BY DEF Pop, Disable, Store
<1>2. SlotTypeOK'
  BY <1>1
<1>3. \A n \in Owner : \A i \in DOMAIN records[n] :
        /\ records[n][i] \in Cell \X Slots
        /\ records[n][i][1] \in Cell /\ records[n][i][2] \in Slots
        /\ records[n][i] = <<records[n][i][1], records[n][i][2]>>
  BY DEF Record
<1>4. /\ DOMAIN records'[m] = {}
      /\ \A n \in Owner : n # m => records'[n] = records[n]
      /\ \A n \in Owner : n # m => RecordsAt(n)' = RecordsAt(n)
  BY <1>1 DEF RecordsAt
<1>5. NoSharedSlot' /\ NotHeldTwice'
  BY <1>1, <1>4 DEF OneOwnerPerSlot, NoSharedSlot, NotHeldTwice
<1>6. ASSUME NEW n \in Owner, NEW i \in DOMAIN records'[n]
      PROVE  records'[n][i][2] \in active'[records'[n][i][1]]
  <2>1. n # m /\ records'[n] = records[n] /\ i \in DOMAIN records[n]
    BY <1>4, <1>6
  <2>2. records[n][i] \notin RecordsAt(m)
    BY <2>1 DEF OneOwnerPerSlot, NoSharedSlot, RecordsAt
  <2>3. records[n][i][2] \notin SlotsOf(m, records[n][i][1])
    BY <1>3, <2>1, <2>2 DEF SlotsOf
  <2>4. records[n][i][2] \in active[records[n][i][1]]
    BY <2>1 DEF OneOwnerPerSlot, OwnedActive
  <2> QED
    BY <1>1, <1>3, <2>1, <2>3, <2>4
<1>7. ASSUME NEW r \in held
      PROVE  r[2] \in active'[r[1]]
  <2>1. r \in Cell \X Slots /\ r[1] \in Cell /\ r = <<r[1], r[2]>>
    BY DEF Record
  <2>2. r \notin RecordsAt(m)
    BY DEF OneOwnerPerSlot, NotHeldTwice, RecordsAt
  <2>3. r[2] \notin SlotsOf(m, r[1])
    BY <2>1, <2>2 DEF SlotsOf
  <2>4. r[2] \in active[r[1]]
    BY DEF OneOwnerPerSlot, OwnedActive
  <2> QED
    BY <1>1, <2>1, <2>3, <2>4
<1>8. ASSUME NEW c \in Cell, NEW s \in active'[c] \ {0}
      PROVE  <<c, s>> \in held' \/ \E n \in Owner : <<c, s>> \in RecordsAt(n)'
  <2>1. s \in active[c] \ {0} /\ s \notin SlotsOf(m, c)
    BY <1>1, <1>8
  <2>2. s \in Slots
    BY <2>1 DEF Slots, AllSlots
  <2>3. <<c, s>> \notin RecordsAt(m)
    BY <2>1, <2>2 DEF SlotsOf
  <2>4. <<c, s>> \in held \/ \E n \in Owner : <<c, s>> \in RecordsAt(n)
    BY <2>1 DEF OneOwnerPerSlot, ActiveOwned
  <2> QED
    BY <1>1, <1>4, <2>3, <2>4
<1>9. OwnedActive' /\ ActiveOwned'
  BY <1>1, <1>6, <1>7, <1>8 DEF OwnedActive, ActiveOwned
<1> QED
  BY <1>2, <1>5, <1>9 DEF OneOwnerPerSlot

(* The holder of an index gives it back together with the index.           *)
LEMMA UnstackKeepsOwners ==
  ASSUME SlotInv, NEW c \in Cell, NEW s \in Slots, ComponentUnstack(c, s)
  PROVE  SlotInv'
<1> USE DEF SlotInv, SlotTypeOK
<1> DEFINE S == [d \in Cell |-> IF d = c THEN {s} ELSE {}]
<1>1. /\ active' = [d \in Cell |-> active[d] \ S[d]]
      /\ UNCHANGED <<value, records>>
      /\ held' = held \ {<<c, s>>}
      /\ <<c, s>> \in held
  BY DEF ComponentUnstack, Disable, Store
<1>2. /\ \A d \in Cell : d # c => active'[d] = active[d]
      /\ active'[c] = active[c] \ {s}
  BY <1>1
<1>3. SlotTypeOK'
  BY <1>1
<1>4. NoSharedSlot' /\ NotHeldTwice'
  BY <1>1 DEF OneOwnerPerSlot, NoSharedSlot, NotHeldTwice
<1>5. ASSUME NEW r \in Record, r # <<c, s>>, r[2] \in active[r[1]]
      PROVE  r[2] \in active'[r[1]]
  BY <1>2, <1>5 DEF Record
<1>6. ASSUME NEW m \in Owner, NEW i \in DOMAIN records[m]
      PROVE  records[m][i] \in Record /\ records[m][i] # <<c, s>>
  <2>1. records[m][i] \in Record
    OBVIOUS
  <2>2. records[m][i] \notin held
    BY DEF OneOwnerPerSlot, NotHeldTwice
  <2> QED
    BY <1>1, <2>1, <2>2
<1>7. OwnedActive'
  BY <1>1, <1>5, <1>6 DEF OneOwnerPerSlot, OwnedActive
<1>8. \A m \in Owner : RecordsAt(m)' = RecordsAt(m)
  BY <1>1 DEF RecordsAt
<1>9. ASSUME NEW d \in Cell, NEW t \in active'[d] \ {0}
      PROVE  <<d, t>> \in held' \/ \E m \in Owner : <<d, t>> \in RecordsAt(m)'
  <2>1. t \in active[d] \ {0} /\ <<d, t>> # <<c, s>>
    BY <1>2, <1>9
  <2>2. <<d, t>> \in held \/ \E m \in Owner : <<d, t>> \in RecordsAt(m)
    BY <2>1 DEF OneOwnerPerSlot, ActiveOwned
  <2> QED
    BY <1>1, <1>8, <2>1, <2>2
<1> QED
  BY <1>3, <1>4, <1>7, <1>9 DEF OneOwnerPerSlot, ActiveOwned

(* A caller of the component primitive holds what was free.                *)
LEMMA ComponentStackKeepsOwners ==
  ASSUME SlotInv, NEW c \in Cell, NEW v \in Int, ComponentStack(c, v)
  PROVE  SlotInv'
<1> USE DEF SlotInv, SlotTypeOK
<1>1. PICK s \in AllSlots : /\ FirstFree(active[c], s)
                            /\ Write(c, s, v)
                            /\ held' = held \cup {<<c, s>>}
                            /\ UNCHANGED records
  BY DEF ComponentStack
<1>2. s \in Slots /\ s \notin active[c]
  BY <1>1 DEF FirstFree
<1>3. /\ active' = [active EXCEPT ![c] = @ \cup {s}]
      /\ value' = [value EXCEPT ![c][s] = v]
  BY <1>1 DEF Write, Store
<1>4. SlotTypeOK'
  BY <1>1, <1>2, <1>3 DEF Record
<1>5. /\ \A d \in Cell : active[d] \subseteq active'[d]
      /\ s \in active'[c]
      /\ \A d \in Cell : \A r \in active'[d] : r \in active[d] \/ (d = c /\ r = s)
  BY <1>3
<1>6. \A m \in Owner : \A i \in DOMAIN records[m] :
        records[m][i] \in Record /\ records[m][i] # <<c, s>>
  BY <1>2 DEF OneOwnerPerSlot, OwnedActive
<1>7. NoSharedSlot' /\ NotHeldTwice'
  BY <1>1, <1>6 DEF OneOwnerPerSlot, NoSharedSlot, NotHeldTwice
<1>8. OwnedActive'
  BY <1>1, <1>5, <1>6 DEF OneOwnerPerSlot, OwnedActive, Record
<1>9. \A m \in Owner : RecordsAt(m)' = RecordsAt(m)
  BY <1>1 DEF RecordsAt
<1>10. ASSUME NEW d \in Cell, NEW t \in active'[d] \ {0}
       PROVE  <<d, t>> \in held' \/ \E m \in Owner : <<d, t>> \in RecordsAt(m)'
  <2>1. CASE t \in active[d]
    BY <1>1, <1>9, <2>1 DEF OneOwnerPerSlot, ActiveOwned
  <2>2. CASE d = c /\ t = s
    BY <1>1, <2>2
  <2> QED
    BY <1>5, <2>1, <2>2
<1>11. ActiveOwned'
  BY <1>10 DEF ActiveOwned
<1> QED
  BY <1>4, <1>7, <1>8, <1>11 DEF OneOwnerPerSlot

(* Every target a task reaches gives the modifier one more record, with a  *)
(* slot that was free and is a different one each time.                    *)
LEMMA StackKeepsOwners ==
  ASSUME SlotInv, NEW m \in Owner, NEW v \in Int,
         NEW targets \in Seq(Cell \cup {NoCell}), NEW n \in 1 .. Len(targets),
         NEW slot \in [1 .. n -> AllSlots],
         Reaches(targets, n), StackPrefix(m, v, targets, n, slot)
  PROVE  SlotInv'
<1> USE DEF SlotInv, SlotTypeOK
<1> DEFINE Pair(i) == <<targets[i], slot[i]>>
           taken(c) == {slot[i] : i \in {k \in 1 .. n : targets[k] = c}}
           new == [i \in 1 .. n |-> Pair(i)]
           L == Len(records[m])
<1>1. /\ active' = [c \in Cell |-> active[c] \cup taken(c)]
      /\ value' = [c \in Cell |-> [s \in AllSlots |->
                      IF s \in taken(c) THEN v ELSE value[c][s]]]
      /\ records' = [records EXCEPT ![m] = @ \o new]
      /\ UNCHANGED held
  BY DEF StackPrefix, Store
<1>2. n \in Nat /\ \A i \in 1 .. n : targets[i] \in Cell /\ slot[i] \in AllSlots
  BY DEF Reaches
<1>3. \A i \in 1 .. n :
        FirstFree(active[targets[i]] \cup
                    {slot[j] : j \in {k \in 1 .. i - 1 : targets[k] = targets[i]}},
                  slot[i])
  BY DEF StackPrefix
<1>4. \A i \in 1 .. n : slot[i] \in Slots /\ slot[i] \notin active[targets[i]]
  BY <1>3 DEF FirstFree
<1>5. \A i, j \in 1 .. n : j < i /\ targets[j] = targets[i] => slot[j] # slot[i]
  <2> SUFFICES ASSUME NEW i \in 1 .. n, NEW j \in 1 .. n,
                      j < i, targets[j] = targets[i]
               PROVE  slot[j] # slot[i]
    OBVIOUS
  <2>1. j \in 1 .. i - 1
    BY <1>2
  <2> QED
    BY <1>3, <2>1 DEF FirstFree
<1>6. \A i, j \in 1 .. n : Pair(i) = Pair(j) => i = j
  <2> SUFFICES ASSUME NEW i \in 1 .. n, NEW j \in 1 .. n, Pair(i) = Pair(j), i # j
               PROVE  FALSE
    OBVIOUS
  <2>1. i < j \/ j < i
    BY <1>2
  <2> QED
    BY <1>5, <2>1
<1>7. new \in Seq(Record) /\ Len(new) = n /\ \A i \in 1 .. n : new[i] = Pair(i)
  BY <1>2, <1>4 DEF Record
<1>8. L \in Nat /\ DOMAIN records[m] = 1 .. L
  OBVIOUS
<1> HIDE DEF new
<1>9. /\ records'[m] = records[m] \o new
      /\ records'[m] \in Seq(Record)
      /\ \A k \in Owner : k # m => records'[k] = records[k]
  BY <1>1, <1>7
<1>10. /\ DOMAIN records'[m] = 1 .. L + n
       /\ \A i \in 1 .. L + n :
            records'[m][i] = IF i <= L THEN records[m][i] ELSE new[i - L]
  <2>1. records[m] \in Seq(Record)
    OBVIOUS
  <2>2. /\ Len(records[m] \o new) = Len(records[m]) + Len(new)
        /\ \A i \in 1 .. Len(records[m]) + Len(new) :
             (records[m] \o new)[i] =
               IF i <= Len(records[m]) THEN records[m][i] ELSE new[i - Len(records[m])]
    BY <1>7, <2>1, ConcatProperties
  <2>3. Len(records'[m]) = L + n
    BY <1>7, <1>9, <2>2
  <2>4. \A i \in 1 .. L + n :
          records'[m][i] = IF i <= L THEN records[m][i] ELSE new[i - L]
    BY <1>7, <1>9, <2>2
  <2> QED
    BY <1>9, <2>3, <2>4
<1>11. \A i \in 1 .. L + n :
         \/ i \in 1 .. L /\ records'[m][i] = records[m][i]
         \/ i - L \in 1 .. n /\ i \notin 1 .. L /\ records'[m][i] = Pair(i - L)
  BY <1>2, <1>7, <1>8, <1>10
<1>12. SlotTypeOK'
  BY <1>1, <1>2, <1>9
<1>13. \A k \in Owner : \A i \in DOMAIN records[k] :
         /\ records[k][i] \in Record
         /\ records[k][i][2] \in active[records[k][i][1]]
  BY DEF OneOwnerPerSlot, OwnedActive
<1>14. ASSUME NEW r, NEW i \in 1 .. n, r[2] \in active[r[1]]
       PROVE  r # Pair(i)
  BY <1>4, <1>14
<1>15. NoSharedSlot'
  <2> SUFFICES ASSUME NEW k \in Owner, NEW l \in Owner,
                      NEW i \in DOMAIN records'[k], NEW j \in DOMAIN records'[l],
                      records'[k][i] = records'[l][j]
               PROVE  k = l /\ i = j
    BY DEF NoSharedSlot
  <2> DEFINE Old(o, a) == a \in DOMAIN records[o] /\ records'[o][a] = records[o][a]
             New(o, a) == /\ o = m /\ a - L \in 1 .. n /\ a \in 1 .. L + n
                          /\ records'[o][a] = Pair(a - L)
  <2>1. Old(k, i) \/ New(k, i)
    BY <1>8, <1>9, <1>10, <1>11
  <2>2. Old(l, j) \/ New(l, j)
    BY <1>8, <1>9, <1>10, <1>11
  <2>3. CASE Old(k, i) /\ Old(l, j)
    <3>1. /\ i \in DOMAIN records[k] /\ j \in DOMAIN records[l]
          /\ records[k][i] = records[l][j]
      BY <2>3
    <3> QED
      BY <3>1 DEF OneOwnerPerSlot, NoSharedSlot
  <2>4. CASE Old(k, i) /\ New(l, j)
    BY <1>13, <1>14, <2>4
  <2>5. CASE New(k, i) /\ Old(l, j)
    BY <1>13, <1>14, <2>5
  <2>6. CASE New(k, i) /\ New(l, j)
    <3>1. i - L = j - L
      BY <1>6, <2>6
    <3>2. i \in Int /\ j \in Int
      BY <1>2, <1>8, <2>6
    <3> QED
      BY <1>8, <2>6, <3>1, <3>2
  <2> QED
    BY <2>1, <2>2, <2>3, <2>4, <2>5, <2>6
<1>16. NotHeldTwice' /\ OwnedActive'
  <2>1. \A r \in held : r \in Record /\ r[2] \in active[r[1]]
    BY DEF OneOwnerPerSlot, OwnedActive
  <2>2. ASSUME NEW r \in Record, r[2] \in active[r[1]]
        PROVE  r[2] \in active'[r[1]]
    BY <1>1, <2>2 DEF Record
  <2>3. ASSUME NEW i \in 1 .. n
        PROVE  Pair(i)[2] \in active'[Pair(i)[1]]
    BY <1>1, <1>2
  <2>4. ASSUME NEW k \in Owner, NEW i \in DOMAIN records'[k]
        PROVE  /\ records'[k][i] \notin held'
               /\ records'[k][i][2] \in active'[records'[k][i][1]]
    <3>1. CASE i \in DOMAIN records[k] /\ records'[k][i] = records[k][i]
      BY <1>1, <1>13, <2>2, <3>1 DEF OneOwnerPerSlot, NotHeldTwice
    <3>2. CASE k = m /\ i - L \in 1 .. n /\ records'[k][i] = Pair(i - L)
      BY <1>1, <1>14, <2>1, <2>3, <3>2
    <3> QED
      BY <1>8, <1>9, <1>10, <1>11, <3>1, <3>2
  <2> QED
    BY <1>1, <2>1, <2>2, <2>4 DEF NotHeldTwice, OwnedActive
<1>17. ASSUME NEW k \in Owner PROVE RecordsAt(k) \subseteq RecordsAt(k)'
  <2>1. \A i \in DOMAIN records[k] :
          i \in DOMAIN records'[k] /\ records'[k][i] = records[k][i]
    <3>1. CASE k # m
      BY <1>9, <3>1
    <3>2. CASE k = m
      <4>1. \A i \in 1 .. L : i \in 1 .. L + n /\ i <= L
        BY <1>2, <1>8
      <4>2. \A i \in 1 .. L : records'[m][i] = records[m][i]
        BY <1>10, <4>1
      <4> QED
        BY <1>8, <1>10, <3>2, <4>1, <4>2
    <3> QED
      BY <3>1, <3>2
  <2> QED
    BY <2>1 DEF RecordsAt
<1>18. ASSUME NEW i \in 1 .. n PROVE Pair(i) \in RecordsAt(m)'
  <2>1. L + i \in 1 .. L + n /\ L + i \notin 1 .. L /\ (L + i) - L = i
    BY <1>2, <1>8
  <2>2. records'[m][L + i] = Pair(i)
    BY <1>11, <2>1
  <2> QED
    BY <1>10, <2>1, <2>2 DEF RecordsAt
<1>19. ASSUME NEW c \in Cell, NEW s \in active'[c] \ {0}
       PROVE  <<c, s>> \in held' \/ \E k \in Owner : <<c, s>> \in RecordsAt(k)'
  <2>1. CASE s \in active[c]
    BY <1>1, <1>17, <1>19, <2>1 DEF OneOwnerPerSlot, ActiveOwned
  <2>2. ASSUME NEW i \in 1 .. n, targets[i] = c, slot[i] = s
        PROVE  <<c, s>> \in RecordsAt(m)'
    BY <1>18, <2>2
  <2> QED
    BY <1>1, <2>1, <2>2
<1> QED
  BY <1>12, <1>15, <1>16, <1>19 DEF OneOwnerPerSlot, ActiveOwned

(* The values and the target lists callers pass are well typed.            *)
LEMMA ValuesAreIntegers ==
  /\ Values \subseteq Int
  /\ -MaxShown .. MaxShown \subseteq Int
  /\ \A targets \in TargetLists : targets \in Seq(Cell \cup {NoCell})
  /\ \A c \in Cell : <<c>> \in Seq(Cell \cup {NoCell})
BY InputAssumption

(* The three shapes of a step: a modifier stacks, a modifier pops, and     *)
(* everything that writes or frees one slot.                               *)
Stacks(m) ==
  \E v \in Int, targets \in Seq(Cell \cup {NoCell}) :
    \E n \in 1 .. Len(targets) : \E slot \in [1 .. n -> AllSlots] :
      Reaches(targets, n) /\ StackPrefix(m, v, targets, n, slot)

WritesOwned ==
  \E c \in Cell, s \in AllSlots, v \in Int :
    /\ s = 0 \/ <<c, s>> \in held \/ \E m \in Owner : <<c, s>> \in RecordsAt(m)
    /\ Write(c, s, v)
    /\ UNCHANGED <<records, held>>

(* A refresh finds a record of its modifier, so it writes an owned slot.   *)
LEMMA RefreshWritesOwned ==
  ASSUME SlotInv, NEW m \in Owner, NEW v \in Values, NEW c \in Cell, Refresh(m, v, c)
  PROVE  \E s \in Slots : /\ <<c, s>> \in RecordsAt(m)
                          /\ Write(c, s, v)
                          /\ UNCHANGED <<records, held>>
<1>1. PICK i \in DOMAIN records[m] : /\ IsFirstRecord(m, c, i)
                                     /\ Write(c, records[m][i][2], v)
                                     /\ UNCHANGED <<records, held>>
  BY DEF Refresh
<1>2. records[m][i] \in Record /\ records[m][i][1] = c
  BY <1>1 DEF IsFirstRecord, SlotInv, SlotTypeOK
<1>3. records[m][i][2] \in Slots /\ <<c, records[m][i][2]>> = records[m][i]
  BY <1>2 DEF Record
<1>4. <<c, records[m][i][2]>> \in RecordsAt(m)
  BY <1>3 DEF RecordsAt
<1> QED
  BY <1>1, <1>3, <1>4

(* Every step of the contribution primitives has one of these shapes.      *)
LEMMA StepShapes ==
  ASSUME SlotInv, OwnedNext \/ ComponentNext
  PROVE  \/ \E m \in Owner : Stacks(m)
         \/ \E m \in Owner : Pop(m)
         \/ \E m \in Owner, v \in Values, c \in Cell : Refresh(m, v, c)
         \/ \E c \in Cell, f \in ModifyFunctions, v \in Values : ModifySourceZero(c, f, v)
         \/ \E c \in Cell, v \in Values : ComponentStack(c, v)
         \/ \E c \in Cell, s \in Slots : ComponentUnstack(c, s)
         \/ \E c \in Cell, s \in Slots, v \in Values : ComponentUpdate(c, s, v)
<1>1. ASSUME NEW m \in Owner, NEW v \in Values, NEW targets \in Seq(Cell \cup {NoCell}),
             Stack(m, v, targets)
      PROVE  Stacks(m)
  BY <1>1, ValuesAreIntegers DEF Stack, Stacks
<1>2. ASSUME NEW m \in Owner, NEW v \in Values, NEW targets \in TargetLists,
             Stack(m, v, targets)
      PROVE  Stacks(m)
  BY <1>1, <1>2, ValuesAreIntegers
<1>3. ASSUME NEW m \in Owner, NEW v \in Values, NEW c \in Cell, RefreshOrStack(m, v, c)
      PROVE  Stacks(m) \/ Refresh(m, v, c)
  BY <1>1, <1>3, ValuesAreIntegers DEF RefreshOrStack
<1>4. CASE OwnedNext
  BY <1>2, <1>3, <1>4 DEF OwnedNext, OwnedStep
<1>5. CASE ComponentNext
  BY <1>5 DEF ComponentNext, ComponentStep
<1> QED
  BY <1>4, <1>5

(* Every step keeps slots typed and owned: the invariant is inductive.     *)
LEMMA NextSlotInv ==
  SlotInv /\ [OwnedNext \/ ComponentNext]_vars => SlotInv'
<1> SUFFICES ASSUME SlotInv, [OwnedNext \/ ComponentNext]_vars PROVE SlotInv'
  OBVIOUS
<1>1. CASE UNCHANGED vars
  <2>1. UNCHANGED <<active, value, records, held>>
    BY <1>1 DEF vars
  <2>2. SlotTypeOK' /\ NoSharedSlot' /\ NotHeldTwice' /\ OwnedActive'
    BY <2>1 DEF SlotInv, SlotTypeOK, OneOwnerPerSlot, NoSharedSlot, NotHeldTwice, OwnedActive
  <2>3. \A m \in Owner : RecordsAt(m)' = RecordsAt(m)
    BY <2>1 DEF RecordsAt
  <2>4. ActiveOwned'
    BY <2>1, <2>3 DEF SlotInv, OneOwnerPerSlot, ActiveOwned
  <2> QED
    BY <2>2, <2>4 DEF SlotInv, OneOwnerPerSlot
<1>2. ASSUME NEW m \in Owner, Stacks(m) PROVE SlotInv'
  <2>1. PICK v \in Int, targets \in Seq(Cell \cup {NoCell}) :
          \E n \in 1 .. Len(targets) : \E slot \in [1 .. n -> AllSlots] :
            Reaches(targets, n) /\ StackPrefix(m, v, targets, n, slot)
    BY <1>2 DEF Stacks
  <2>2. PICK n \in 1 .. Len(targets) : \E slot \in [1 .. n -> AllSlots] :
          Reaches(targets, n) /\ StackPrefix(m, v, targets, n, slot)
    BY <2>1
  <2>3. PICK slot \in [1 .. n -> AllSlots] :
          Reaches(targets, n) /\ StackPrefix(m, v, targets, n, slot)
    BY <2>2
  <2> QED
    BY <2>3, StackKeepsOwners
<1>3. ASSUME NEW m \in Owner, Pop(m) PROVE SlotInv'
  BY <1>3, PopKeepsOwners
<1>4. ASSUME WritesOwned PROVE SlotInv'
  BY <1>4, WriteKeepsOwners DEF WritesOwned
<1>5. ASSUME NEW m \in Owner, NEW v \in Values, NEW c \in Cell, Refresh(m, v, c)
      PROVE  WritesOwned
  BY <1>5, RefreshWritesOwned, ValuesAreIntegers, SlotsAreNotZero DEF WritesOwned
<1>6. ASSUME NEW c \in Cell, NEW f \in ModifyFunctions, NEW v \in Values,
             ModifySourceZero(c, f, v)
      PROVE  WritesOwned
  <2>1. 0 \in AllSlots
    BY BoundAssumption DEF AllSlots
  <2> QED
    BY <1>6, <2>1, ValuesAreIntegers DEF ModifySourceZero, WritesOwned
<1>7. ASSUME NEW c \in Cell, NEW s \in Slots, NEW v \in Values, ComponentUpdate(c, s, v)
      PROVE  WritesOwned
  BY <1>7, ValuesAreIntegers, SlotsAreNotZero DEF ComponentUpdate, WritesOwned
<1>8. ASSUME NEW c \in Cell, NEW v \in Values, ComponentStack(c, v) PROVE SlotInv'
  BY <1>8, ComponentStackKeepsOwners, ValuesAreIntegers
<1>9. ASSUME NEW c \in Cell, NEW s \in Slots, ComponentUnstack(c, s) PROVE SlotInv'
  BY <1>9, UnstackKeepsOwners
<1> QED
  BY <1>1, <1>2, <1>3, <1>4, <1>5, <1>6, <1>7, <1>8, <1>9, StepShapes

(* The strengthened invariant holds throughout.                            *)
LEMMA SlotsCorrect == Spec => []SlotInv
BY InitSlotInv, NextSlotInv, PTL DEF Spec

(* Every active contribution slot belongs to exactly one record of one     *)
(* modifier or to one caller of the component primitives, and an owner's   *)
(* slot is active, whatever was stacked, refreshed and popped before.      *)
THEOREM SlotsAreOwned == Spec => []OneOwnerPerSlot
<1>1. SlotInv => OneOwnerPerSlot
  BY DEF SlotInv
<1> QED
  BY <1>1, SlotsCorrect, PTL

-----------------------------------------------------------------------------
(* A modifier whose records and whose slots' values a step keeps           *)
(* contributes after the step what it contributed before.                  *)
KeepsValues(n) ==
  /\ records'[n] = records[n]
  /\ \A i \in DOMAIN records[n] :
       value'[records[n][i][1]][records[n][i][2]] = value[records[n][i][1]][records[n][i][2]]

(* An owner whose records and recorded values stay contributes the same.   *)
LEMMA KeptContributions ==
  ASSUME SlotInv, SlotInv', NEW n \in Owner, KeepsValues(n)
  PROVE  UNCHANGED Contributed(n)
<1>1. \A i \in DOMAIN records[n] :
        /\ records[n][i][2] \in active[records[n][i][1]]
        /\ records[n][i][2] \in active'[records[n][i][1]]
  BY DEF SlotInv, OneOwnerPerSlot, OwnedActive, KeepsValues
<1>2. ASSUME NEW i \in DOMAIN records[n]
      PROVE  /\ (records[n][i][2] \in active[records[n][i][1]]) = TRUE
             /\ (records[n][i][2] \in active'[records[n][i][1]]) = TRUE
  BY <1>1
<1>3. Contributed(n) =
        [i \in DOMAIN records[n] |->
           <<records[n][i], value[records[n][i][1]][records[n][i][2]], TRUE>>]
  BY <1>2 DEF Contributed
<1>4. Contributed(n)' =
        [i \in DOMAIN records[n] |->
           <<records[n][i], value'[records[n][i][1]][records[n][i][2]], TRUE>>]
  BY <1>2 DEF Contributed, KeepsValues
<1> QED
  BY <1>3, <1>4 DEF KeepsValues

(* A written slot that no record of the modifier names keeps its values.   *)
LEMMA WriteKeepsValues ==
  ASSUME SlotInv, NEW n \in Owner, NEW c \in Cell, NEW s \in AllSlots, NEW v \in Int,
         <<c, s>> \notin RecordsAt(n), Write(c, s, v), UNCHANGED records
  PROVE  KeepsValues(n)
<1>1. value' = [value EXCEPT ![c][s] = v]
  BY DEF Write, Store
<1>2. ASSUME NEW i \in DOMAIN records[n]
      PROVE  value'[records[n][i][1]][records[n][i][2]]
               = value[records[n][i][1]][records[n][i][2]]
  <2>1. records[n][i] \in Record
    BY DEF SlotInv, SlotTypeOK
  <2>2. records[n][i] # <<c, s>>
    BY DEF RecordsAt
  <2> QED
    BY <1>1, <2>1, <2>2, SlotsAreNotZero DEF SlotInv, SlotTypeOK, Record
<1> QED
  BY <1>2 DEF KeepsValues

(* In every step at most one modifier fails to keep its contributions.     *)
LEMMA OneChanges ==
  ASSUME SlotInv, OwnedNext \/ ComponentNext
  PROVE  \/ \A n \in Owner : KeepsValues(n)
         \/ \E m \in Owner : \A n \in Owner : n # m => KeepsValues(n)
<1>1. \A n \in Owner : \A i \in DOMAIN records[n] :
        /\ records[n][i] \in Record
        /\ records[n][i][2] \in active[records[n][i][1]]
  BY DEF SlotInv, SlotTypeOK, OneOwnerPerSlot, OwnedActive
<1>2. ASSUME NEW m \in Owner, Stacks(m), NEW n \in Owner, n # m PROVE KeepsValues(n)
  <2>1. PICK v \in Int, targets \in Seq(Cell \cup {NoCell}) :
          \E k \in 1 .. Len(targets) : \E slot \in [1 .. k -> AllSlots] :
            Reaches(targets, k) /\ StackPrefix(m, v, targets, k, slot)
    BY <1>2 DEF Stacks
  <2>2. PICK k \in 1 .. Len(targets) : \E slot \in [1 .. k -> AllSlots] :
          Reaches(targets, k) /\ StackPrefix(m, v, targets, k, slot)
    BY <2>1
  <2>3. PICK slot \in [1 .. k -> AllSlots] :
          Reaches(targets, k) /\ StackPrefix(m, v, targets, k, slot)
    BY <2>2
  <2> DEFINE taken(c) == {slot[i] : i \in {j \in 1 .. k : targets[j] = c}}
  <2>4. /\ value' = [c \in Cell |-> [s \in AllSlots |->
                        IF s \in taken(c) THEN v ELSE value[c][s]]]
        /\ records'[n] = records[n]
    BY <1>2, <2>3 DEF StackPrefix, Store, SlotInv, SlotTypeOK
  <2>5. \A i \in 1 .. k : slot[i] \notin active[targets[i]]
    BY <2>3 DEF StackPrefix, FirstFree
  <2>6. ASSUME NEW i \in DOMAIN records[n]
        PROVE  value'[records[n][i][1]][records[n][i][2]]
                 = value[records[n][i][1]][records[n][i][2]]
    <3>1. records[n][i][2] \notin taken(records[n][i][1])
      BY <1>1, <2>5
    <3> QED
      BY <1>1, <2>4, <3>1, SlotsAreNotZero DEF Record
  <2> QED
    BY <2>4, <2>6 DEF KeepsValues
<1>3. ASSUME NEW m \in Owner, Pop(m), NEW n \in Owner, n # m PROVE KeepsValues(n)
  BY <1>3 DEF Pop, Disable, Store, KeepsValues, SlotInv, SlotTypeOK
<1>4. ASSUME NEW m \in Owner, NEW v \in Values, NEW c \in Cell, Refresh(m, v, c),
             NEW n \in Owner, n # m
      PROVE  KeepsValues(n)
  <2>1. PICK s \in Slots : /\ <<c, s>> \in RecordsAt(m)
                           /\ Write(c, s, v)
                           /\ UNCHANGED <<records, held>>
    BY <1>4, RefreshWritesOwned
  <2>2. <<c, s>> \notin RecordsAt(n)
    BY <1>4, <2>1 DEF SlotInv, OneOwnerPerSlot, NoSharedSlot, RecordsAt
  <2> QED
    BY <2>1, <2>2, WriteKeepsValues, ValuesAreIntegers, SlotsAreNotZero
<1>5. ASSUME NEW c \in Cell, NEW f \in ModifyFunctions, NEW v \in Values,
             ModifySourceZero(c, f, v), NEW n \in Owner
      PROVE  KeepsValues(n)
  <2>1. PICK w \in Int : Write(c, 0, w) /\ UNCHANGED records
    BY <1>5, ValuesAreIntegers DEF ModifySourceZero
  <2>2. <<c, 0>> \notin RecordsAt(n)
    BY <1>1, SlotsAreNotZero DEF RecordsAt, Record
  <2>3. 0 \in AllSlots
    BY BoundAssumption DEF AllSlots
  <2> QED
    BY <2>1, <2>2, <2>3, WriteKeepsValues
<1>6. ASSUME NEW c \in Cell, NEW v \in Values, ComponentStack(c, v), NEW n \in Owner
      PROVE  KeepsValues(n)
  <2>1. PICK s \in AllSlots : FirstFree(active[c], s) /\ Write(c, s, v) /\ UNCHANGED records
    BY <1>6 DEF ComponentStack
  <2>2. <<c, s>> \notin RecordsAt(n)
    BY <1>1, <2>1 DEF RecordsAt, FirstFree
  <2> QED
    BY <2>1, <2>2, WriteKeepsValues, ValuesAreIntegers
<1>7. ASSUME NEW c \in Cell, NEW s \in Slots, ComponentUnstack(c, s), NEW n \in Owner
      PROVE  KeepsValues(n)
  BY <1>7 DEF ComponentUnstack, Disable, Store, KeepsValues
<1>8. ASSUME NEW c \in Cell, NEW s \in Slots, NEW v \in Values, ComponentUpdate(c, s, v),
             NEW n \in Owner
      PROVE  KeepsValues(n)
  <2>1. <<c, s>> \notin RecordsAt(n)
    BY <1>8 DEF ComponentUpdate, SlotInv, OneOwnerPerSlot, NotHeldTwice, RecordsAt
  <2> QED
    BY <1>8, <2>1, WriteKeepsValues, ValuesAreIntegers, SlotsAreNotZero DEF ComponentUpdate
<1> QED
  BY <1>2, <1>3, <1>4, <1>5, <1>6, <1>7, <1>8, StepShapes

(* No step changes what two modifiers contribute: stacking, refreshing and *)
(* popping one never reaches the slots of another, nor does a base write.  *)
THEOREM ContributorsAreApart == Spec => OneContributorPerStep
<1> DEFINE A == \A m, n \in Owner :
                  m # n => UNCHANGED Contributed(m) \/ UNCHANGED Contributed(n)
<1>1. SlotInv /\ SlotInv' /\ [OwnedNext \/ ComponentNext]_vars => [A]_vars
  <2> SUFFICES ASSUME SlotInv, SlotInv', OwnedNext \/ ComponentNext,
                      NEW m \in Owner, NEW n \in Owner, m # n
               PROVE  UNCHANGED Contributed(m) \/ UNCHANGED Contributed(n)
    OBVIOUS
  <2>1. KeepsValues(m) \/ KeepsValues(n)
    BY OneChanges
  <2> QED
    BY <2>1, KeptContributions
<1> HIDE DEF A
<1>2. Spec => [][A]_vars
  BY <1>1, SlotsCorrect, PTL DEF Spec
<1> QED
  BY <1>2 DEF OneContributorPerStep, A

-----------------------------------------------------------------------------
(* A cell whose slots are stored as they are and whose value is kept, or   *)
(* whose value is rebuilt from what is stored, shows its slots.            *)
LEMMA StoreShows ==
  ASSUME ShownIsRebuilt, NEW D, NEW A, NEW V, NEW l, Store(D, A, V, l),
         \A c \in Cell \ D : A[c] = active[c] /\ V[c] = value[c] /\ l[c] = last[c]
  PROVE  ShownIsRebuilt'
<1> SUFFICES ASSUME NEW c \in Cell
             PROVE  \/ shown'[c] = Materialized(c, active'[c], value'[c], last'[c])
                    \/ shown'[c] = BaseOf[c] /\ active'[c] = {} /\ value'[c][0] = 0
  BY DEF ShownIsRebuilt
<1>1. /\ active' = A /\ value' = V /\ last' = l
      /\ shown'[c] = IF c \in D THEN Materialized(c, A[c], V[c], l[c]) ELSE shown[c]
  BY DEF Store
<1>2. CASE c \in D
  BY <1>1, <1>2
<1>3. CASE c \notin D
  <2>1. /\ active'[c] = active[c] /\ value'[c] = value[c] /\ last'[c] = last[c]
        /\ shown'[c] = shown[c]
    BY <1>1, <1>3
  <2>2. \/ shown[c] = Materialized(c, active[c], value[c], last[c])
        \/ shown[c] = BaseOf[c] /\ active[c] = {} /\ value[c][0] = 0
    BY DEF ShownIsRebuilt
  <2> QED
    BY <2>1, <2>2
<1> QED
  BY <1>2, <1>3

(* The last changed slot is kept for every cell.                           *)
LastKept == last = [c \in Cell |-> last[c]]

ShownInv == LastKept /\ ShownIsRebuilt

(* Writing one slot rebuilds its cell and leaves the arrays of the others. *)
LEMMA WriteShows ==
  ASSUME SlotInv, ShownInv, NEW c \in Cell, NEW s \in AllSlots, NEW v, Write(c, s, v)
  PROVE  ShownInv'
<1> DEFINE A == [active EXCEPT ![c] = @ \cup {s}]
           V == [value EXCEPT ![c][s] = v]
           l == [last EXCEPT ![c] = s]
<1>1. Store({c}, A, V, l)
  BY DEF Write
<1>2. \A d \in Cell \ {c} : A[d] = active[d] /\ V[d] = value[d] /\ l[d] = last[d]
  BY DEF SlotInv, SlotTypeOK, ShownInv, LastKept
<1>3. LastKept'
  <2>1. last' = l
    BY <1>1 DEF Store
  <2> QED
    BY <2>1 DEF ShownInv, LastKept
<1> HIDE DEF A, V, l
<1> QED
  BY <1>1, <1>2, <1>3, StoreShows DEF ShownInv

(* Freeing slots rebuilds every cell that loses one.                       *)
LEMMA DisableShows ==
  ASSUME SlotInv, ShownInv, NEW S \in [Cell -> SUBSET Slots], Disable(S)
  PROVE  ShownInv'
<1> DEFINE D == {c \in Cell : S[c] # {} /\ active[c] # {}}
           A == [c \in Cell |-> active[c] \ S[c]]
<1>1. Store(D, A, value, last)
  BY DEF Disable
<1>2. \A c \in Cell \ D : A[c] = active[c]
  BY DEF SlotInv, SlotTypeOK
<1>3. LastKept'
  BY <1>1 DEF Store, ShownInv, LastKept
<1> HIDE DEF D, A
<1> QED
  BY <1>1, <1>2, <1>3, StoreShows DEF ShownInv

(* A task rebuilds every cell it contributed to.                           *)
LEMMA StackShows ==
  ASSUME SlotInv, ShownInv, NEW m \in Owner, NEW v \in Int,
         NEW targets \in Seq(Cell \cup {NoCell}), NEW n \in 1 .. Len(targets),
         NEW slot \in [1 .. n -> AllSlots], StackPrefix(m, v, targets, n, slot)
  PROVE  ShownInv'
<1> DEFINE taken(c) == {slot[i] : i \in {k \in 1 .. n : targets[k] = c}}
           final(c) == CHOOSE i \in 1 .. n :
                         /\ targets[i] = c
                         /\ \A k \in i + 1 .. n : targets[k] # c
           D == {targets[i] : i \in 1 .. n}
           A == [c \in Cell |-> active[c] \cup taken(c)]
           V == [c \in Cell |-> [s \in AllSlots |->
                   IF s \in taken(c) THEN v ELSE value[c][s]]]
           l == [c \in Cell |-> IF taken(c) = {} THEN last[c] ELSE slot[final(c)]]
<1>1. Store(D, A, V, l)
  BY DEF StackPrefix
<1>2. ASSUME NEW c \in Cell \ D
      PROVE  A[c] = active[c] /\ V[c] = value[c] /\ l[c] = last[c]
  <2>1. taken(c) = {}
    BY <1>2
  <2>2. value[c] \in [AllSlots -> Int]
    BY DEF SlotInv, SlotTypeOK
  <2>3. V[c] = [s \in AllSlots |-> value[c][s]]
    BY <2>1
  <2>4. V[c] = value[c]
    BY <2>2, <2>3
  <2>5. A[c] = active[c] /\ l[c] = last[c]
    BY <2>1 DEF SlotInv, SlotTypeOK
  <2> QED
    BY <2>4, <2>5
<1>3. LastKept'
  <2>1. last' = l
    BY <1>1 DEF Store
  <2> QED
    BY <2>1 DEF LastKept
<1> HIDE DEF D, A, V, l
<1> QED
  BY <1>1, <1>2, <1>3, StoreShows DEF ShownInv

(* Every step keeps what is shown a rebuild of the slots.                  *)
LEMMA ShownInvariant == Spec => []ShownInv
<1>1. Init => ShownInv
  <2> SUFFICES ASSUME Init PROVE ShownInv
    OBVIOUS
  <2>1. \A c \in Cell : active[c] = {} /\ value[c][0] = 0 /\ shown[c] = BaseOf[c]
    BY BoundAssumption DEF Init, AllSlots
  <2>2. LastKept
    BY DEF Init, LastKept
  <2> QED
    BY <2>1, <2>2 DEF ShownInv, ShownIsRebuilt
<1>2. SlotInv /\ ShownInv /\ [OwnedNext \/ ComponentNext]_vars => ShownInv'
  <2> SUFFICES ASSUME SlotInv, ShownInv, [OwnedNext \/ ComponentNext]_vars
               PROVE  ShownInv'
    OBVIOUS
  <2>1. ASSUME NEW m \in Owner, Stacks(m) PROVE ShownInv'
    <3>1. PICK v \in Int, targets \in Seq(Cell \cup {NoCell}) :
            \E n \in 1 .. Len(targets) : \E slot \in [1 .. n -> AllSlots] :
              Reaches(targets, n) /\ StackPrefix(m, v, targets, n, slot)
      BY <2>1 DEF Stacks
    <3>2. PICK n \in 1 .. Len(targets) : \E slot \in [1 .. n -> AllSlots] :
            Reaches(targets, n) /\ StackPrefix(m, v, targets, n, slot)
      BY <3>1
    <3>3. PICK slot \in [1 .. n -> AllSlots] : StackPrefix(m, v, targets, n, slot)
      BY <3>2
    <3> QED
      BY <3>3, StackShows
  <2>2. ASSUME NEW m \in Owner, Pop(m) PROVE ShownInv'
    <3>1. [c \in Cell |-> SlotsOf(m, c)] \in [Cell -> SUBSET Slots]
      BY DEF SlotsOf
    <3> QED
      BY <2>2, <3>1, DisableShows DEF Pop
  <2>3. ASSUME NEW m \in Owner, NEW v \in Values, NEW c \in Cell, Refresh(m, v, c)
        PROVE  ShownInv'
    BY <2>3, RefreshWritesOwned, WriteShows, SlotsAreNotZero
  <2>4. ASSUME NEW c \in Cell, NEW f \in ModifyFunctions, NEW v \in Values,
               ModifySourceZero(c, f, v)
        PROVE  ShownInv'
    <3>1. 0 \in AllSlots
      BY BoundAssumption DEF AllSlots
    <3> QED
      BY <2>4, <3>1, WriteShows DEF ModifySourceZero
  <2>5. ASSUME NEW c \in Cell, NEW v \in Values, ComponentStack(c, v) PROVE ShownInv'
    BY <2>5, WriteShows DEF ComponentStack
  <2>6. ASSUME NEW c \in Cell, NEW s \in Slots, ComponentUnstack(c, s) PROVE ShownInv'
    <3>1. [d \in Cell |-> IF d = c THEN {s} ELSE {}] \in [Cell -> SUBSET Slots]
      OBVIOUS
    <3> QED
      BY <2>6, <3>1, DisableShows DEF ComponentUnstack
  <2>7. ASSUME NEW c \in Cell, NEW s \in Slots, NEW v \in Values, ComponentUpdate(c, s, v)
        PROVE  ShownInv'
    BY <2>7, WriteShows, SlotsAreNotZero DEF ComponentUpdate
  <2>8. CASE UNCHANGED vars
    BY <2>8 DEF vars, ShownInv, LastKept, ShownIsRebuilt
  <2> QED
    BY <2>1, <2>2, <2>3, <2>4, <2>5, <2>6, <2>7, <2>8, StepShapes
<1> QED
  BY <1>1, <1>2, SlotsCorrect, PTL DEF Spec

(* What a reader sees of an entry, of whatever kind, is what its slots say,*)
(* whichever of them were written, freed or reused; only an entry nobody   *)
(* has written yet shows its base instead.                                 *)
THEOREM ShownIsAlwaysRebuilt == Spec => []ShownIsRebuilt
<1>1. ShownInv => ShownIsRebuilt
  BY DEF ShownInv
<1> QED
  BY <1>1, ShownInvariant, PTL

-----------------------------------------------------------------------------
LedgerInv == SlotInv /\ ShownInv

(* The kind of the entries the ledger counts adds its active slots up.     *)
LEMMA AdditiveRebuild ==
  ASSUME NEW c \in Additive, NEW A, NEW V, NEW l
  PROVE  Materialized(c, A, V, l) = BaseOf[c] + SumFunctionOnSet(V, A)
BY DEF Additive, Materialized

(* The slots of a cell are finitely many, so their sum is an integer.      *)
LEMMA SlotsAreFinite ==
  ASSUME NEW A \in SUBSET AllSlots, NEW V \in [AllSlots -> Int]
  PROVE  IsFiniteSet(A) /\ SumFunctionOnSet(V, A) \in Int
<1>1. IsFiniteSet(AllSlots)
  BY BoundAssumption, FS_Interval DEF AllSlots
<1>2. IsFiniteSet(A)
  BY <1>1, FS_Subset
<1>3. \A s \in A : V[s] \in Int
  OBVIOUS
<1> QED
  BY <1>2, <1>3, SumIsInteger

(* An additive entry shows its base and the sum of its slots.              *)
Shows(c, e, A, V) == (\E l : e = Materialized(c, A, V, l)) \/ (e = BaseOf[c] /\ A = {})

(* An additive cell shows its base and the sum of its slots.               *)
LEMMA EffectiveIsSum ==
  ASSUME NEW c \in Additive, NEW e, NEW A, NEW V, Shows(c, e, A, V)
  PROVE  e = BaseOf[c] + SumFunctionOnSet(V, A)
<1>1. BaseOf[c] \in Int
  BY CellAssumption DEF Additive
<1>2. ASSUME NEW l, e = Materialized(c, A, V, l) PROVE e = BaseOf[c] + SumFunctionOnSet(V, A)
  BY <1>2, AdditiveRebuild
<1>3. CASE e = BaseOf[c] /\ A = {}
  BY <1>1, <1>3, SumOfNone
<1> QED
  BY <1>2, <1>3 DEF Shows

(* What a reader sees before and after a step, as sums.                    *)
LEMMA ReadersSeeSums ==
  ASSUME LedgerInv, LedgerInv', NEW c \in Additive
  PROVE  /\ shown[c] = BaseOf[c] + SumFunctionOnSet(value[c], active[c])
         /\ shown'[c] = BaseOf[c] + SumFunctionOnSet(value'[c], active'[c])
<1>1. c \in Cell
  BY DEF Additive
<1>2. Shows(c, shown[c], active[c], value[c])
  BY <1>1 DEF LedgerInv, ShownInv, ShownIsRebuilt, Shows
<1>3. Shows(c, shown'[c], active'[c], value'[c])
  BY <1>1 DEF LedgerInv, ShownInv, ShownIsRebuilt, Shows
<1> QED
  BY <1>2, <1>3, EffectiveIsSum

(* The ledger adds with the sum of the library.                            *)
LEMMA AmountIsSum ==
  ASSUME NEW c, NEW new
  PROVE  Ledger!AmountTo(c, new)
           = SumFunctionOnSet([i \in DOMAIN new |-> new[i].value],
                              {i \in DOMAIN new : new[i].cell = c})
BY DEF Ledger!AmountTo, Ledger!SumFunctionOnSet, Ledger!FoldFunctionOnSet,
       Ledger!MapThenFoldSet, SumFunctionOnSet, FoldFunctionOnSet, MapThenFoldSet

(* The amount of one contribution, as the ledger lists it.                 *)
EntryOf(m, i) == [cell |-> records[m][i][1], value |-> value[records[m][i][1]][records[m][i][2]]]

BaseSlots(c) == {s \in active[c] : s = 0 \/ <<c, s>> \in held}

(* A step that keeps the base slots of a cell and their values keeps the   *)
(* base of the cell.                                                       *)
LEMMA BaseStays ==
  ASSUME SlotInv, NEW c \in Cell, BaseSlots(c)' = BaseSlots(c),
         \A s \in BaseSlots(c) : value'[c][s] = value[c][s]
  PROVE  SumFunctionOnSet(value'[c], BaseSlots(c)') = SumFunctionOnSet(value[c], BaseSlots(c))
<1>1. BaseSlots(c) \in SUBSET active[c]
  BY DEF BaseSlots
<1>2. IsFiniteSet(BaseSlots(c)) /\ \A s \in BaseSlots(c) : value[c][s] \in Int
  BY <1>1, SlotsAreFinite DEF SlotInv, SlotTypeOK
<1> QED
  BY <1>2, SumDepends

(* The records a task adds are a contribution to the cells it reached.     *)
LEMMA StackContributes ==
  ASSUME LedgerInv, LedgerInv', NEW m \in Owner, NEW v \in Int,
         NEW targets \in Seq(Cell \cup {NoCell}), NEW n \in 1 .. Len(targets),
         NEW slot \in [1 .. n -> AllSlots],
         Reaches(targets, n), StackPrefix(m, v, targets, n, slot)
  PROVE  Ledger!Contribute(m, v, SubSeq(targets, 1, n))
<1> DEFINE taken(c) == {slot[i] : i \in {k \in 1 .. n : targets[k] = c}}
           added == [i \in 1 .. n |-> <<targets[i], slot[i]>>]
           cells == SubSeq(targets, 1, n)
           new == [i \in DOMAIN cells |-> [cell |-> cells[i], value |-> v]]
           L == Len(records[m])
<1>1. /\ active' = [c \in Cell |-> active[c] \cup taken(c)]
      /\ value' = [c \in Cell |-> [s \in AllSlots |->
                      IF s \in taken(c) THEN v ELSE value[c][s]]]
      /\ records' = [records EXCEPT ![m] = @ \o added]
      /\ held' = held
  BY DEF StackPrefix, Store
<1>2. /\ n \in Nat /\ DOMAIN cells = 1 .. n
      /\ \A i \in 1 .. n : /\ cells[i] = targets[i] /\ targets[i] \in Cell
                           /\ slot[i] \in AllSlots
  BY DEF Reaches
<1>3. \A i \in 1 .. n :
        FirstFree(active[targets[i]] \cup
                    {slot[j] : j \in {k \in 1 .. i - 1 : targets[k] = targets[i]}},
                  slot[i])
  BY DEF StackPrefix
<1>4. \A i \in 1 .. n : slot[i] \in Slots /\ slot[i] \notin active[targets[i]]
  BY <1>3 DEF FirstFree
<1>5. \A i, j \in 1 .. n : j < i /\ targets[j] = targets[i] => slot[j] # slot[i]
  <2> SUFFICES ASSUME NEW i \in 1 .. n, NEW j \in 1 .. n,
                      j < i, targets[j] = targets[i]
               PROVE  slot[j] # slot[i]
    OBVIOUS
  <2>1. j \in 1 .. i - 1
    BY <1>2
  <2> QED
    BY <1>3, <2>1 DEF FirstFree
<1>6. \A i, j \in 1 .. n : targets[i] = targets[j] /\ slot[i] = slot[j] => i = j
  <2> SUFFICES ASSUME NEW i \in 1 .. n, NEW j \in 1 .. n,
                      targets[i] = targets[j], slot[i] = slot[j], i # j
               PROVE  FALSE
    OBVIOUS
  <2>1. i < j \/ j < i
    BY <1>2
  <2> QED
    BY <1>5, <2>1
<1>7. ASSUME NEW c \in Cell
      PROVE  /\ taken(c) \subseteq Slots /\ taken(c) \cap active[c] = {}
             /\ \A s \in active[c] : value'[c][s] = value[c][s]
             /\ \A s \in taken(c) : value'[c][s] = v
             /\ active'[c] = active[c] \cup taken(c)
  <2>1. active[c] \subseteq AllSlots /\ Slots \subseteq AllSlots
    BY SlotsAreNotZero DEF LedgerInv, SlotInv, SlotTypeOK
  <2> QED
    BY <1>1, <1>4, <2>1
<1>8. BaseView' = BaseView
  <2>1. ASSUME NEW c \in Cell PROVE BaseSlots(c)' = BaseSlots(c)
    <3>1. \A r \in held : r[2] \in active[r[1]]
      BY DEF LedgerInv, SlotInv, OneOwnerPerSlot, OwnedActive
    <3>2. \A s \in taken(c) : s # 0 /\ <<c, s>> \notin held
      BY <1>7, <3>1, SlotsAreNotZero
    <3> QED
      BY <1>1, <1>7, <3>2 DEF BaseSlots
  <2>2. \A c \in Cell : \A s \in BaseSlots(c) : value'[c][s] = value[c][s]
    BY <1>7 DEF BaseSlots
  <2>3. \A c \in Cell : SumFunctionOnSet(value'[c], BaseSlots(c)')
                          = SumFunctionOnSet(value[c], BaseSlots(c))
    BY <2>1, <2>2, BaseStays DEF LedgerInv
  <2> QED
    BY <2>3 DEF BaseView, BaseSlots, Additive
<1> HIDE DEF cells, added
<1>9. EffectiveView' = [c \in Additive |-> EffectiveView[c] + Ledger!AmountTo(c, new)]
  <2> SUFFICES ASSUME NEW c \in Additive
               PROVE  shown'[c] = shown[c] + Ledger!AmountTo(c, new)
    BY DEF EffectiveView
  <2>0. c \in Cell /\ BaseOf[c] \in Int
    BY CellAssumption DEF Additive
  <2> DEFINE I == {i \in 1 .. n : cells[i] = c}
             amounts == [i \in 1 .. n |-> v]
  <2>1. /\ IsFiniteSet(active[c]) /\ \A s \in active[c] : value[c][s] \in Int
        /\ IsFiniteSet(active'[c]) /\ \A s \in active'[c] : value'[c][s] \in Int
    BY <2>0, SlotsAreFinite DEF LedgerInv, SlotInv, SlotTypeOK
  <2>2. IsFiniteSet(taken(c)) /\ taken(c) \in SUBSET active'[c]
    BY <1>7, <2>0, <2>1, FS_Subset
  <2>3. SumFunctionOnSet(value'[c], active'[c])
          = SumFunctionOnSet(value'[c], active[c]) + SumFunctionOnSet(value'[c], taken(c))
    BY <1>7, <2>0, <2>1, <2>2, SumSplits
  <2>4. SumFunctionOnSet(value'[c], active[c]) = SumFunctionOnSet(value[c], active[c])
    BY <1>7, <2>0, <2>1, SumDepends
  <2>5. SumFunctionOnSet(value'[c], taken(c)) = SumFunctionOnSet(amounts, I)
    <3>1. IsFiniteSet(I)
      <4>1. n \in Nat
        BY <1>2
      <4>2. IsFiniteSet(1 .. n)
        BY <4>1, FS_Interval
      <4>3. I \in SUBSET (1 .. n)
        OBVIOUS
      <4> QED
        BY <4>2, <4>3, FS_Subset, Zenon
    <3>2. taken(c) = {slot[i] : i \in I}
      BY <1>2
    <3>3. \A i \in I : amounts[i] \in Int /\ value'[c][slot[i]] = amounts[i]
      BY <1>7, <2>0, <3>2
    <3>4. \A i, j \in I : slot[i] = slot[j] => i = j
      BY <1>2, <1>6
    <3> HIDE DEF amounts, I
    <3>5. SumFunctionOnSet(value'[c], {slot[i] : i \in I}) = SumFunctionOnSet(amounts, I)
      BY <3>1, <3>3, <3>4, SumMoves
    <3> QED
      BY <3>2, <3>5
  <2>6. Ledger!AmountTo(c, new) = SumFunctionOnSet(amounts, I)
    <3>1. [i \in DOMAIN new |-> new[i].value] = amounts
      BY <1>2
    <3>2. {i \in DOMAIN new : new[i].cell = c} = I
      BY <1>2
    <3> HIDE DEF amounts, I, new
    <3>3. Ledger!AmountTo(c, new)
            = SumFunctionOnSet([i \in DOMAIN new |-> new[i].value], {i \in DOMAIN new : new[i].cell = c})
      BY AmountIsSum
    <3> QED
      BY <3>1, <3>2, <3>3, Zenon
  <2>7. SumFunctionOnSet(value[c], active[c]) \in Int /\ SumFunctionOnSet(value'[c], taken(c)) \in Int
    BY <2>1, <2>2, SumIsInteger
  <2>8. /\ shown[c] = BaseOf[c] + SumFunctionOnSet(value[c], active[c])
        /\ shown'[c] = BaseOf[c] + SumFunctionOnSet(value'[c], active'[c])
    BY ReadersSeeSums
  <2> QED
    BY <2>0, <2>3, <2>4, <2>5, <2>6, <2>7, <2>8
<1>10. \A k \in Owner : \A i \in DOMAIN records[k] :
         records[k][i] \in Record /\ records[k][i][2] \in active[records[k][i][1]]
  BY DEF LedgerInv, SlotInv, SlotTypeOK, OneOwnerPerSlot, OwnedActive
<1>11. \A k \in Owner : \A i \in DOMAIN records[k] :
         value'[records[k][i][1]][records[k][i][2]] = value[records[k][i][1]][records[k][i][2]]
  BY <1>7, <1>10 DEF Record
<1>12. ASSUME NEW k \in Owner, k # m PROVE LedgerView'[k] = LedgerView[k]
  <2>1. records'[k] = records[k]
    BY <1>1, <1>12 DEF LedgerInv, SlotInv, SlotTypeOK
  <2> QED
    BY <1>11, <2>1 DEF LedgerView
<1>13. LedgerView'[m] = LedgerView[m] \o new
  <2> DEFINE E == [cell : Cell, value : Int]
             old == LedgerView[m]
             now == LedgerView'[m]
  <2>1. records[m] \in Seq(Record) /\ records'[m] \in Seq(Record)
    BY DEF LedgerInv, SlotInv, SlotTypeOK
  <2>2. L \in Nat /\ DOMAIN records[m] = 1 .. L
    BY <2>1
  <2>3. added \in Seq(Record) /\ Len(added) = n /\ \A i \in 1 .. n : added[i] = <<targets[i], slot[i]>>
    <3>1. \A i \in 1 .. n : added[i] = <<targets[i], slot[i]>> /\ added[i] \in Record
      BY <1>2, <1>4 DEF added, Record
    <3>2. added = [i \in 1 .. n |-> added[i]]
      BY DEF added
    <3> QED
      BY <1>2, <3>1, <3>2, IndexedIsSeq
  <2>4. records'[m] = records[m] \o added
    BY <1>1 DEF LedgerInv, SlotInv, SlotTypeOK
  <2>5. /\ Len(records'[m]) = L + n /\ DOMAIN records'[m] = 1 .. L + n
        /\ \A i \in 1 .. L + n :
             records'[m][i] = IF i <= L THEN records[m][i] ELSE added[i - L]
    <3>1. /\ Len(records[m] \o added) = L + Len(added)
          /\ \A i \in 1 .. L + Len(added) :
               (records[m] \o added)[i] = IF i <= L THEN records[m][i] ELSE added[i - L]
      BY <2>1, <2>3, ConcatProperties
    <3> QED
      BY <2>1, <2>3, <2>4, <3>1
  <2>6. \A i \in DOMAIN records[m] : EntryOf(m, i) \in E
    <3>1. value \in [Cell -> [AllSlots -> Int]]
      BY DEF LedgerInv, SlotInv, SlotTypeOK
    <3> QED
      BY <1>10, <3>1, SlotsAreNotZero DEF EntryOf, Record
  <2>7. old = [i \in 1 .. L |-> EntryOf(m, i)]
    BY <2>2 DEF LedgerView, EntryOf
  <2> HIDE DEF old, E
  <2>8. old \in Seq(E) /\ Len(old) = L /\ \A i \in 1 .. L : old[i] = EntryOf(m, i)
    <3>1. \A i \in 1 .. L : old[i] = EntryOf(m, i) /\ old[i] \in E
      BY <2>2, <2>6, <2>7
    <3>2. old = [i \in 1 .. L |-> old[i]]
      BY <2>7
    <3> QED
      BY <2>2, <3>1, <3>2, IndexedIsSeq
  <2>9. /\ new \in Seq(E) /\ Len(new) = n
        /\ \A i \in 1 .. n : new[i] = [cell |-> targets[i], value |-> v]
    BY <1>2 DEF E
  <2> HIDE DEF new
  <2>10. /\ old \o new \in Seq(E) /\ Len(old \o new) = L + n
         /\ \A i \in 1 .. L + n : (old \o new)[i] = IF i <= L THEN old[i] ELSE new[i - L]
    <3> HIDE DEF L
    <3>1. /\ old \o new \in Seq(E) /\ Len(old \o new) = Len(old) + Len(new)
          /\ \A i \in 1 .. Len(old) + Len(new) :
               (old \o new)[i] = IF i <= Len(old) THEN old[i] ELSE new[i - Len(old)]
      BY <2>8, <2>9, ConcatProperties
    <3> QED
      BY <2>8, <2>9, <3>1
  <2>11. ASSUME NEW i \in 1 .. L + n
         PROVE  EntryOf(m, i)' = (old \o new)[i]
    <3>1. CASE i <= L
      <4>1. i \in 1 .. L /\ records'[m][i] = records[m][i]
        BY <2>2, <2>5, <3>1
      <4>2. EntryOf(m, i)' = EntryOf(m, i)
        BY <1>11, <2>2, <4>1 DEF EntryOf
      <4> QED
        BY <2>8, <2>10, <3>1, <4>1, <4>2
    <3>2. CASE ~(i <= L)
      <4>1. i - L \in 1 .. n
        BY <1>2, <2>2, <3>2
      <4>2. records'[m][i] = <<targets[i - L], slot[i - L]>>
        BY <2>3, <2>5, <3>2, <4>1
      <4>3. value'[targets[i - L]][slot[i - L]] = v
        BY <1>2, <1>7, <4>1
      <4>4. EntryOf(m, i)' = [cell |-> targets[i - L], value |-> v]
        BY <4>2, <4>3 DEF EntryOf
      <4> QED
        BY <2>9, <2>10, <3>2, <4>1, <4>4
    <3> QED
      BY <3>1, <3>2
  <2>12. now = [i \in 1 .. L + n |-> EntryOf(m, i)']
    BY <2>5 DEF LedgerView, EntryOf
  <2>13. old \o new = [i \in 1 .. L + n |-> (old \o new)[i]]
    <3> DEFINE both == old \o new
    <3>1. both \in Seq(E) /\ Len(both) = L + n
      BY <2>10
    <3> HIDE DEF both, L
    <3>2. both = [i \in 1 .. L + n |-> both[i]]
      BY <3>1
    <3> QED
      BY <3>2 DEF both
  <2> HIDE DEF now
  <2>14. now = old \o new
    BY <2>11, <2>12, <2>13
  <2> QED
    BY <2>14 DEF now, old
<1>14. LedgerView' = [LedgerView EXCEPT ![m] = @ \o new]
  <2> HIDE DEF new
  <2>1. LedgerView = [k \in Owner |-> LedgerView[k]] /\ LedgerView' = [k \in Owner |-> LedgerView'[k]]
    BY DEF LedgerView
  <2> QED
    BY <1>12, <1>13, <2>1
<1> QED
  BY <1>8, <1>9, <1>14 DEF Ledger!Contribute, cells

(* The refresh of a record revises the oldest contribution to its cell.    *)
LEMMA RefreshRevises ==
  ASSUME LedgerInv, LedgerInv', NEW m \in Owner, NEW v \in Int, NEW c \in Cell,
         Refresh(m, v, c)
  PROVE  Ledger!Revise(m, c, v)
<1>1. PICK i \in DOMAIN records[m] : /\ IsFirstRecord(m, c, i)
                                     /\ Write(c, records[m][i][2], v)
                                     /\ UNCHANGED <<records, held>>
  BY DEF Refresh
<1> DEFINE s == records[m][i][2]
<1>2. \A k \in Owner : \A j \in DOMAIN records[k] :
        /\ records[k][j] \in Record
        /\ records[k][j][2] \in active[records[k][j][1]]
        /\ records[k][j] \notin held
        /\ records[k][j] = <<c, s>> => k = m /\ j = i
  <2>1. records[m][i] = <<c, s>>
    BY <1>1 DEF IsFirstRecord, LedgerInv, SlotInv, SlotTypeOK, Record
  <2>2. \A k \in Owner : \A j \in DOMAIN records[k] :
          records[k][j] = records[m][i] => k = m /\ j = i
    BY DEF LedgerInv, SlotInv, OneOwnerPerSlot, NoSharedSlot
  <2>3. \A k \in Owner : \A j \in DOMAIN records[k] :
          /\ records[k][j] \in Record
          /\ records[k][j][2] \in active[records[k][j][1]]
          /\ records[k][j] \notin held
    BY DEF LedgerInv, SlotInv, SlotTypeOK, OneOwnerPerSlot, NotHeldTwice, OwnedActive
  <2> HIDE DEF s
  <2> QED
    BY <2>1, <2>2, <2>3
<1>3. records[m][i] = <<c, s>> /\ s \in Slots /\ s \in active[c] /\ <<c, s>> \notin held
  BY <1>1, <1>2 DEF IsFirstRecord, Record
<1>4. /\ value \in [Cell -> [AllSlots -> Int]] /\ active \in [Cell -> SUBSET AllSlots]
      /\ value' \in [Cell -> [AllSlots -> Int]]
  BY DEF LedgerInv, SlotInv, SlotTypeOK
<1>5. /\ active' = active /\ held' = held /\ records' = records
      /\ value' = [value EXCEPT ![c][s] = v]
  <2>1. /\ active' = [active EXCEPT ![c] = @ \cup {s}]
        /\ value' = [value EXCEPT ![c][s] = v]
    BY <1>1 DEF Write, Store
  <2>2. active' = active
    BY <1>3, <1>4, <2>1
  <2> QED
    BY <1>1, <2>1, <2>2
<1> HIDE DEF s
<1>6. /\ \A d \in Cell \ {c} : value'[d] = value[d]
      /\ \A r \in AllSlots \ {s} : value'[c][r] = value[c][r]
      /\ value'[c][s] = v /\ s \in AllSlots
  BY <1>3, <1>4, <1>5, SlotsAreNotZero
<1>7. BaseView' = BaseView
  <2>1. \A d \in Cell : BaseSlots(d)' = BaseSlots(d)
    BY <1>5 DEF BaseSlots
  <2>2. \A d \in Cell : \A r \in BaseSlots(d) : value'[d][r] = value[d][r]
    <3>1. s \notin BaseSlots(c)
      BY <1>3, SlotsAreNotZero DEF BaseSlots
    <3>2. \A d \in Cell : BaseSlots(d) \subseteq AllSlots
      BY <1>4 DEF BaseSlots
    <3> QED
      BY <1>6, <3>1, <3>2
  <2>3. \A d \in Cell : SumFunctionOnSet(value'[d], BaseSlots(d)')
                          = SumFunctionOnSet(value[d], BaseSlots(d))
    BY <2>1, <2>2, BaseStays DEF LedgerInv
  <2> QED
    BY <2>3 DEF BaseView, BaseSlots, Additive
<1>8. /\ DOMAIN LedgerView[m] = DOMAIN records[m]
      /\ \A j \in DOMAIN records[m] : /\ LedgerView[m][j].cell = records[m][j][1]
                                      /\ LedgerView[m][j] = EntryOf(m, j)
      /\ LedgerView[m][i].value = value[c][s]
  BY <1>3 DEF LedgerView, EntryOf
<1>9. EffectiveView' = [d \in Additive |-> IF d = c THEN EffectiveView[d] - LedgerView[m][i].value + v
                                                   ELSE EffectiveView[d]]
  <2> SUFFICES ASSUME NEW d \in Additive
               PROVE  shown'[d] = IF d = c THEN shown[d] - value[c][s] + v ELSE shown[d]
    BY <1>8 DEF EffectiveView
  <2>1. d \in Cell /\ BaseOf[d] \in Int
    BY CellAssumption DEF Additive
  <2>2. /\ shown[d] = BaseOf[d] + SumFunctionOnSet(value[d], active[d])
        /\ shown'[d] = BaseOf[d] + SumFunctionOnSet(value'[d], active'[d])
    BY ReadersSeeSums
  <2>3. CASE d # c
    BY <1>5, <1>6, <2>1, <2>2, <2>3
  <2>4. CASE d = c
    <3>1. SumFunctionOnSet(value'[c], active[c])
            = SumFunctionOnSet(value[c], active[c]) - value[c][s] + value'[c][s]
      <4>1. /\ IsFiniteSet(active[c]) /\ \A r \in active[c] : value[c][r] \in Int
            /\ \A r \in active[c] \ {s} : value'[c][r] = value[c][r]
        BY <1>4, <1>6, SlotsAreFinite
      <4> QED
        BY <1>3, <1>6, <4>1, SumChanges
    <3>2. SumFunctionOnSet(value[c], active[c]) \in Int /\ value[c][s] \in Int
      BY <1>4, <1>6, SlotsAreFinite
    <3> QED
      BY <1>5, <1>6, <2>1, <2>2, <2>4, <3>1, <3>2
  <2> QED
    BY <2>3, <2>4
<1>10. LedgerView' = [LedgerView EXCEPT ![m][i].value = v]
  <2>1. ASSUME NEW k \in Owner, NEW j \in DOMAIN records[k]
        PROVE  EntryOf(k, j)' = IF k = m /\ j = i THEN [EntryOf(k, j) EXCEPT !.value = v]
                                                  ELSE EntryOf(k, j)
    <3>1. CASE k = m /\ j = i
      BY <1>3, <1>5, <1>6, <3>1 DEF EntryOf
    <3>2. CASE ~(k = m /\ j = i)
      <4>1. records[k][j] \in Record /\ records[k][j] # <<c, s>>
        BY <1>2, <1>3, <3>2
      <4>2. value'[records[k][j][1]][records[k][j][2]] = value[records[k][j][1]][records[k][j][2]]
        <5>1. PICK d \in Cell, r \in Slots : records[k][j] = <<d, r>>
          BY <4>1 DEF Record
        <5>2. d # c \/ r # s
          BY <4>1, <5>1
        <5>3. value'[d][r] = value[d][r]
          BY <1>6, <5>2, SlotsAreNotZero
        <5> QED
          BY <5>1, <5>3
      <4> QED
        BY <1>5, <3>2, <4>2 DEF EntryOf
    <3> QED
      BY <3>1, <3>2
  <2>2. LedgerView = [k \in Owner |-> [j \in DOMAIN records[k] |-> EntryOf(k, j)]]
    BY DEF LedgerView, EntryOf
  <2>3. LedgerView' = [k \in Owner |-> [j \in DOMAIN records[k] |-> EntryOf(k, j)']]
    BY <1>5 DEF LedgerView, EntryOf
  <2>4. ASSUME NEW k \in Owner
        PROVE  LedgerView'[k] = IF k = m THEN [LedgerView[m] EXCEPT ![i].value = v]
                                         ELSE LedgerView[k]
    BY <2>1, <2>2, <2>3
  <2> QED
    BY <2>2, <2>3, <2>4
<1>11. i \in DOMAIN LedgerView[m] /\ LedgerView[m][i].cell = c
  BY <1>3, <1>8
<1>12. \A j \in 1 .. i - 1 : LedgerView[m][j].cell # c
  <2>1. records[m] \in Seq(Record)
    BY DEF LedgerInv, SlotInv, SlotTypeOK
  <2>2. \A j \in 1 .. i - 1 : j \in DOMAIN records[m] /\ j < i
    BY <2>1
  <2> QED
    BY <1>1, <1>8, <2>1, <2>2 DEF IsFirstRecord
<1> QED
  BY <1>7, <1>9, <1>10, <1>11, <1>12 DEF Ledger!Revise

(* Popping a modifier's records withdraws all it contributed.              *)
LEMMA PopWithdraws ==
  ASSUME LedgerInv, LedgerInv', NEW m \in Owner, Pop(m)
  PROVE  Ledger!Withdraw(m)
<1>1. /\ active' = [c \in Cell |-> active[c] \ SlotsOf(m, c)]
      /\ UNCHANGED <<value, held>>
      /\ records' = [records EXCEPT ![m] = <<>>]
  BY DEF Pop, Disable, Store
<1>2. /\ value \in [Cell -> [AllSlots -> Int]] /\ active \in [Cell -> SUBSET AllSlots]
      /\ records \in [Owner -> Seq(Record)]
  BY DEF LedgerInv, SlotInv, SlotTypeOK
<1>3. \A i, j \in DOMAIN records[m] : records[m][i] = records[m][j] => i = j
  BY DEF LedgerInv, SlotInv, OneOwnerPerSlot, NoSharedSlot
<1>4. \A i \in DOMAIN records[m] : /\ records[m][i] \in Record
                                   /\ records[m][i] = <<records[m][i][1], records[m][i][2]>>
                                   /\ records[m][i][2] \in active[records[m][i][1]]
                                   /\ records[m][i] \notin held
  BY <1>2 DEF LedgerInv, SlotInv, OneOwnerPerSlot, OwnedActive, NotHeldTwice, Record
<1>5. ASSUME NEW c \in Cell
      PROVE  /\ SlotsOf(m, c) \subseteq active[c]
             /\ \A s \in SlotsOf(m, c) : s # 0 /\ <<c, s>> \notin held
  BY <1>4, SlotsAreNotZero DEF SlotsOf, RecordsAt
<1>6. BaseView' = BaseView
  <2>1. \A c \in Cell : BaseSlots(c)' = BaseSlots(c)
    BY <1>1, <1>5 DEF BaseSlots
  <2>2. \A c \in Cell : SumFunctionOnSet(value'[c], BaseSlots(c)')
                          = SumFunctionOnSet(value[c], BaseSlots(c))
    BY <1>1, <2>1, BaseStays DEF LedgerInv
  <2> QED
    BY <2>2 DEF BaseView, BaseSlots, Additive
<1>7. /\ LedgerView[m] = [i \in DOMAIN records[m] |-> EntryOf(m, i)]
      /\ DOMAIN LedgerView[m] = DOMAIN records[m]
      /\ \A i \in DOMAIN records[m] : LedgerView[m][i] = EntryOf(m, i)
  BY DEF LedgerView, EntryOf
<1>8. EffectiveView' = [c \in Additive |-> EffectiveView[c] - Ledger!AmountTo(c, LedgerView[m])]
  <2> SUFFICES ASSUME NEW c \in Additive
               PROVE  shown'[c] = shown[c] - Ledger!AmountTo(c, LedgerView[m])
    BY DEF EffectiveView
  <2> DEFINE I == {i \in DOMAIN records[m] : records[m][i][1] = c}
             amounts == [i \in DOMAIN records[m] |-> EntryOf(m, i).value]
             h == [i \in DOMAIN records[m] |-> records[m][i][2]]
             S == SlotsOf(m, c)
  <2>1. c \in Cell /\ BaseOf[c] \in Int
    BY CellAssumption DEF Additive
  <2>2. /\ shown[c] = BaseOf[c] + SumFunctionOnSet(value[c], active[c])
        /\ shown'[c] = BaseOf[c] + SumFunctionOnSet(value'[c], active'[c])
    BY ReadersSeeSums
  <2>3. /\ S \in SUBSET AllSlots /\ active[c] \ S \in SUBSET AllSlots
        /\ value[c] \in [AllSlots -> Int]
        /\ active'[c] = active[c] \ S /\ value'[c] = value[c]
        /\ active[c] = (active[c] \ S) \cup S
    BY <1>1, <1>2, <1>5, <2>1
  <2>4. /\ IsFiniteSet(S) /\ SumFunctionOnSet(value[c], S) \in Int
        /\ IsFiniteSet(active[c] \ S) /\ SumFunctionOnSet(value[c], active[c] \ S) \in Int
    BY <2>3, SlotsAreFinite
  <2>5. SumFunctionOnSet(value[c], (active[c] \ S) \cup S)
          = SumFunctionOnSet(value[c], active[c] \ S) + SumFunctionOnSet(value[c], S)
    <3>1. /\ (active[c] \ S) \cap S = {}
          /\ \A x \in (active[c] \ S) \cup S : value[c][x] \in Int
      BY <2>3
    <3> QED
      BY <2>4, <3>1, SumSplits
  <2>6. Ledger!AmountTo(c, LedgerView[m]) = SumFunctionOnSet(amounts, I)
    <3>1. [i \in DOMAIN LedgerView[m] |-> LedgerView[m][i].value] = amounts
      BY <1>7
    <3>2. {i \in DOMAIN LedgerView[m] : LedgerView[m][i].cell = c} = I
      <4>1. DOMAIN LedgerView[m] = DOMAIN records[m]
        BY <1>7
      <4>2. \A i \in DOMAIN records[m] : LedgerView[m][i].cell = records[m][i][1]
        BY <1>7 DEF EntryOf
      <4> QED
        BY <4>1, <4>2
    <3>3. Ledger!AmountTo(c, LedgerView[m])
            = SumFunctionOnSet([i \in DOMAIN LedgerView[m] |-> LedgerView[m][i].value],
                               {i \in DOMAIN LedgerView[m] : LedgerView[m][i].cell = c})
      BY AmountIsSum
    <3> HIDE DEF amounts, I
    <3> QED
      BY <3>1, <3>2, <3>3, Zenon
  <2>7. SumFunctionOnSet(value[c], S) = SumFunctionOnSet(amounts, I)
    <3>1. IsFiniteSet(I)
      <4>1. DOMAIN records[m] = 1 .. Len(records[m]) /\ Len(records[m]) \in Nat
        BY <1>2
      <4>2. I \in SUBSET (1 .. Len(records[m])) /\ IsFiniteSet(1 .. Len(records[m]))
        BY <4>1, FS_Interval
      <4> QED
        BY <4>2, FS_Subset
    <3>2. S = {h[i] : i \in I}
      <4>1. ASSUME NEW s \in S PROVE \E i \in I : s = h[i]
        <5>1. <<c, s>> \in RecordsAt(m)
          BY <4>1 DEF SlotsOf
        <5>2. PICK i \in DOMAIN records[m] : records[m][i] = <<c, s>>
          BY <5>1 DEF RecordsAt
        <5> QED
          BY <5>2
      <4>2. ASSUME NEW i \in I PROVE h[i] \in S
        <5>1. records[m][i] = <<c, h[i]>> /\ h[i] \in Slots
          BY <1>4 DEF Record
        <5>2. <<c, h[i]>> \in RecordsAt(m)
          BY <5>1 DEF RecordsAt
        <5> QED
          BY <5>1, <5>2 DEF SlotsOf
      <4> HIDE DEF S, h, I
      <4> QED
        BY <4>1, <4>2
    <3>3. \A i \in I : /\ amounts[i] = value[c][records[m][i][2]]
                       /\ h[i] = records[m][i][2] /\ h[i] \in AllSlots
      BY <1>4, SlotsAreNotZero DEF EntryOf, Record
    <3>4. \A i \in I : amounts[i] \in Int /\ value[c][h[i]] = amounts[i]
      BY <2>3, <3>3
    <3>5. \A i, j \in I : h[i] = h[j] => i = j
      <4>1. \A i \in I : records[m][i] = <<c, h[i]>>
        BY <1>4
      <4> QED
        BY <1>3, <4>1
    <3> HIDE DEF amounts, I, S, h
    <3>6. SumFunctionOnSet(value[c], {h[i] : i \in I}) = SumFunctionOnSet(amounts, I)
      BY <3>1, <3>4, <3>5, SumMoves
    <3> QED
      BY <3>2, <3>6
  <2> HIDE DEF S, amounts, I
  <2>8. SumFunctionOnSet(value[c], active[c])
          = SumFunctionOnSet(value[c], active[c] \ S) + SumFunctionOnSet(value[c], S)
    BY <2>3, <2>5
  <2>9. SumFunctionOnSet(value'[c], active'[c]) = SumFunctionOnSet(value[c], active[c] \ S)
    BY <2>3
  <2> QED
    BY <2>1, <2>2, <2>4, <2>6, <2>7, <2>8, <2>9
<1>9. LedgerView' = [LedgerView EXCEPT ![m] = <<>>]
  <2>1. \A k \in Owner : records'[k] = IF k = m THEN <<>> ELSE records[k]
    BY <1>1, <1>2
  <2>2. \A k \in Owner \ {m} : LedgerView'[k] = LedgerView[k]
    BY <1>1, <2>1 DEF LedgerView
  <2>3. LedgerView'[m] = <<>>
    <3>1. DOMAIN records'[m] = {}
      BY <2>1
    <3>2. LedgerView'[m] = [i \in {} |-> EntryOf(m, i)']
      BY <3>1 DEF LedgerView, EntryOf
    <3> QED
      BY <3>2
  <2>4. /\ LedgerView = [k \in Owner |-> LedgerView[k]]
        /\ LedgerView' = [k \in Owner |-> LedgerView'[k]]
    BY DEF LedgerView
  <2> QED
    BY <2>2, <2>3, <2>4
<1> QED
  BY <1>6, <1>8, <1>9 DEF Ledger!Withdraw

(* A step that leaves the slots of the records alone, and those of every   *)
(* cell but one, sets the base of that cell.                               *)
LEMMA SetsBase ==
  ASSUME LedgerInv, LedgerInv', NEW c \in Cell, records' = records,
         \A d \in Cell \ {c} : /\ active'[d] = active[d] /\ value'[d] = value[d]
                               /\ BaseSlots(d)' = BaseSlots(d),
         active'[c] \ BaseSlots(c)' = active[c] \ BaseSlots(c),
         \A s \in active[c] \ BaseSlots(c) : value'[c][s] = value[c][s]
  PROVE  \/ c \in Additive /\ Ledger!SetBase(c)
         \/ UNCHANGED <<LedgerView, BaseView, EffectiveView>>
<1>1. /\ value \in [Cell -> [AllSlots -> Int]] /\ active \in [Cell -> SUBSET AllSlots]
      /\ value' \in [Cell -> [AllSlots -> Int]] /\ active' \in [Cell -> SUBSET AllSlots]
  BY DEF LedgerInv, SlotInv, SlotTypeOK
<1>2. LedgerView' = LedgerView
  <2>1. ASSUME NEW k \in Owner, NEW i \in DOMAIN records[k]
        PROVE  value'[records[k][i][1]][records[k][i][2]] = value[records[k][i][1]][records[k][i][2]]
    <3>1. /\ records[k][i] \in Record /\ records[k][i] \notin held
          /\ records[k][i][2] \in active[records[k][i][1]]
      BY DEF LedgerInv, SlotInv, SlotTypeOK, OneOwnerPerSlot, OwnedActive, NotHeldTwice
    <3>2. PICK d \in Cell, s \in Slots : records[k][i] = <<d, s>>
      BY <3>1 DEF Record
    <3>3. s \in active[d] \ BaseSlots(d)
      BY <3>1, <3>2, SlotsAreNotZero DEF BaseSlots
    <3>4. value'[d][s] = value[d][s]
      BY <3>3
    <3> QED
      BY <3>2, <3>4
  <2> QED
    BY <2>1 DEF LedgerView
<1> DEFINE base(d) == SumFunctionOnSet(value[d], BaseSlots(d))
           baseAfter(d) == SumFunctionOnSet(value'[d], BaseSlots(d)')
           sum(d) == SumFunctionOnSet(value[d], active[d])
           sumAfter(d) == SumFunctionOnSet(value'[d], active'[d])
<1>3. \A d \in Additive : BaseView[d] = base(d) /\ BaseView'[d] = baseAfter(d)
  BY DEF BaseView, BaseSlots
<1>4. \A d \in Additive : /\ EffectiveView[d] = BaseOf[d] + sum(d)
                          /\ EffectiveView'[d] = BaseOf[d] + sumAfter(d)
  BY ReadersSeeSums DEF EffectiveView
<1>5. \A d \in Cell \ {c} : baseAfter(d) = base(d) /\ sumAfter(d) = sum(d)
  BY DEF BaseSlots
<1>6. \A d \in Cell : base(d) \in Int /\ baseAfter(d) \in Int /\ sum(d) \in Int /\ sumAfter(d) \in Int
  <2>1. \A d \in Cell : BaseSlots(d) \in SUBSET AllSlots /\ BaseSlots(d)' \in SUBSET AllSlots
    BY <1>1 DEF BaseSlots
  <2> QED
    BY <1>1, <2>1, SlotsAreFinite
<1>7. sumAfter(c) - baseAfter(c) = sum(c) - base(c)
  <2> DEFINE R == active[c] \ BaseSlots(c)
  <2>1. /\ R \in SUBSET AllSlots /\ BaseSlots(c) \in SUBSET AllSlots /\ BaseSlots(c)' \in SUBSET AllSlots
        /\ BaseSlots(c) \cup R = active[c] /\ BaseSlots(c) \cap R = {}
        /\ value[c] \in [AllSlots -> Int] /\ value'[c] \in [AllSlots -> Int]
    BY <1>1 DEF BaseSlots
  <2>2. BaseSlots(c)' \cup R = active'[c] /\ BaseSlots(c)' \cap R = {}
    BY <1>1 DEF BaseSlots
  <2>3. /\ IsFiniteSet(R) /\ IsFiniteSet(BaseSlots(c)) /\ IsFiniteSet(BaseSlots(c)')
        /\ SumFunctionOnSet(value[c], R) \in Int
    BY <2>1, SlotsAreFinite
  <2>4. SumFunctionOnSet(value'[c], R) = SumFunctionOnSet(value[c], R)
    <3>1. \A s \in R : value[c][s] \in Int /\ value'[c][s] = value[c][s]
      BY <2>1
    <3> QED
      BY <2>3, <3>1, SumDepends
  <2> HIDE DEF R
  <2>5. SumFunctionOnSet(value[c], BaseSlots(c) \cup R) = base(c) + SumFunctionOnSet(value[c], R)
    <3>1. \A s \in BaseSlots(c) \cup R : value[c][s] \in Int
      BY <2>1
    <3> QED
      BY <2>1, <2>3, <3>1, SumSplits
  <2>6. SumFunctionOnSet(value'[c], BaseSlots(c)' \cup R)
          = baseAfter(c) + SumFunctionOnSet(value'[c], R)
    <3>1. \A s \in BaseSlots(c)' \cup R : value'[c][s] \in Int
      BY <2>1
    <3> QED
      BY <2>2, <2>3, <3>1, SumSplits
  <2>7. sum(c) = base(c) + SumFunctionOnSet(value[c], R)
    BY <2>1, <2>5, Zenon
  <2>8. sumAfter(c) = baseAfter(c) + SumFunctionOnSet(value'[c], R)
    BY <2>2, <2>6, Zenon
  <2> HIDE DEF base, baseAfter, sum, sumAfter
  <2> QED
    BY <1>6, <2>3, <2>4, <2>7, <2>8
<1> HIDE DEF base, baseAfter, sum, sumAfter
<1>8. \A d \in Additive : d \in Cell /\ BaseOf[d] \in Int
  BY CellAssumption DEF Additive
<1>9. /\ BaseView = [d \in Additive |-> BaseView[d]] /\ BaseView' = [d \in Additive |-> BaseView'[d]]
      /\ EffectiveView = [d \in Additive |-> EffectiveView[d]]
      /\ EffectiveView' = [d \in Additive |-> EffectiveView'[d]]
  BY DEF BaseView, EffectiveView
<1>10. \A d \in Additive \ {c} : BaseView'[d] = BaseView[d] /\ EffectiveView'[d] = EffectiveView[d]
  BY <1>3, <1>4, <1>5, <1>8
<1>11. CASE c \in Additive
  <2>1. BaseView'[c] \in Int
    BY <1>3, <1>6, <1>11
  <2>2. BaseView' = [BaseView EXCEPT ![c] = BaseView'[c]]
    BY <1>9, <1>10, <1>11
  <2>3. EffectiveView'[c] = EffectiveView[c] - BaseView[c] + BaseView'[c]
    BY <1>3, <1>4, <1>6, <1>7, <1>8, <1>11
  <2>4. EffectiveView' = [EffectiveView EXCEPT ![c] = @ - BaseView[c] + BaseView'[c]]
    BY <1>9, <1>10, <1>11, <2>3
  <2> QED
    BY <1>2, <1>11, <2>1, <2>2, <2>4 DEF Ledger!SetBase
<1>12. CASE c \notin Additive
  <2>1. BaseView' = BaseView /\ EffectiveView' = EffectiveView
    BY <1>9, <1>10, <1>12
  <2> QED
    BY <1>2, <2>1
<1> QED
  BY <1>11, <1>12

(* Writing slot 0, or a slot an outside caller holds, sets the base.       *)
LEMMA WriteSetsBase ==
  ASSUME LedgerInv, LedgerInv', NEW c \in Cell, NEW s \in AllSlots, NEW v \in Int,
         Write(c, s, v), records' = records,
         held' = held \/ held' = held \cup {<<c, s>>},
         s = 0 \/ <<c, s>> \in held',
         s = 0 \/ <<c, s>> \in held \/ s \notin active[c]
  PROVE  \/ c \in Additive /\ Ledger!SetBase(c)
         \/ UNCHANGED <<LedgerView, BaseView, EffectiveView>>
<1>1. /\ active' = [active EXCEPT ![c] = @ \cup {s}]
      /\ value' = [value EXCEPT ![c][s] = v]
  BY DEF Write, Store
<1>2. /\ value \in [Cell -> [AllSlots -> Int]] /\ active \in [Cell -> SUBSET AllSlots]
  BY DEF LedgerInv, SlotInv, SlotTypeOK
<1>3. ASSUME NEW d \in Cell \ {c}
      PROVE  /\ active'[d] = active[d] /\ value'[d] = value[d]
             /\ BaseSlots(d)' = BaseSlots(d)
  <2>1. active'[d] = active[d] /\ value'[d] = value[d]
    BY <1>1, <1>2
  <2>2. \A r : <<d, r>> \in held' <=> <<d, r>> \in held
    OBVIOUS
  <2> QED
    BY <2>1, <2>2 DEF BaseSlots
<1>4. active'[c] = active[c] \cup {s} /\ \A r \in AllSlots \ {s} : value'[c][r] = value[c][r]
  BY <1>1, <1>2
<1>5. \A r : r # s => (<<c, r>> \in held' <=> <<c, r>> \in held)
  OBVIOUS
<1>6. active'[c] \ BaseSlots(c)' = active[c] \ BaseSlots(c)
  BY <1>4, <1>5 DEF BaseSlots
<1>7. \A r \in active[c] \ BaseSlots(c) : value'[c][r] = value[c][r]
  BY <1>2, <1>4 DEF BaseSlots
<1> QED
  BY <1>3, <1>6, <1>7, SetsBase

(* Giving a held slot back lowers the base.                                *)
LEMMA UnstackSetsBase ==
  ASSUME LedgerInv, LedgerInv', NEW c \in Cell, NEW s \in Slots, ComponentUnstack(c, s)
  PROVE  \/ c \in Additive /\ Ledger!SetBase(c)
         \/ UNCHANGED <<LedgerView, BaseView, EffectiveView>>
<1> DEFINE S == [d \in Cell |-> IF d = c THEN {s} ELSE {}]
<1>1. /\ active' = [d \in Cell |-> active[d] \ S[d]]
      /\ value' = value /\ records' = records /\ held' = held \ {<<c, s>>}
      /\ <<c, s>> \in held
  BY DEF ComponentUnstack, Disable, Store
<1>2. active \in [Cell -> SUBSET AllSlots]
  BY DEF LedgerInv, SlotInv, SlotTypeOK
<1>3. \A d \in Cell \ {c} : /\ active'[d] = active[d] /\ value'[d] = value[d]
                            /\ BaseSlots(d)' = BaseSlots(d)
  <2>1. \A d \in Cell \ {c} : active'[d] = active[d]
    BY <1>1, <1>2
  <2>2. \A d \in Cell \ {c}, r \in AllSlots : <<d, r>> \in held' <=> <<d, r>> \in held
    BY <1>1
  <2> QED
    BY <1>1, <1>2, <2>1, <2>2 DEF BaseSlots
<1>4. active'[c] = active[c] \ {s} /\ \A r : r # s => (<<c, r>> \in held' <=> <<c, r>> \in held)
  BY <1>1
<1>5. active'[c] \ BaseSlots(c)' = active[c] \ BaseSlots(c)
  BY <1>1, <1>4 DEF BaseSlots
<1> QED
  BY <1>1, <1>3, <1>5, SetsBase

(* At the start the ledger is empty and every base is nothing.             *)
LEMMA InitLedger == Init => Ledger!Init
<1> SUFFICES ASSUME Init PROVE Ledger!Init
  OBVIOUS
<1>1. LedgerView = [m \in Owner |-> <<>>]
  <2>1. ASSUME NEW m \in Owner PROVE LedgerView[m] = <<>>
    <3>1. DOMAIN records[m] = {}
      BY DEF Init
    <3>2. LedgerView[m] = [i \in {} |-> EntryOf(m, i)]
      BY <3>1 DEF LedgerView, EntryOf
    <3> QED
      BY <3>2
  <2>2. LedgerView = [m \in Owner |-> LedgerView[m]]
    BY DEF LedgerView
  <2> QED
    BY <2>1, <2>2
<1>2. BaseView = [c \in Additive |-> 0]
  <2>1. \A c \in Additive : {s \in active[c] : s = 0 \/ <<c, s>> \in held} = {}
    BY DEF Init, Additive
  <2>2. \A c \in Additive : SumFunctionOnSet(value[c], {s \in active[c] : s = 0 \/ <<c, s>> \in held}) = 0
    BY <2>1, SumOfNone
  <2> QED
    BY <2>2 DEF BaseView
<1>3. EffectiveView = [c \in Additive |-> BaseOf[c]]
  BY DEF Init, EffectiveView, Additive
<1> QED
  BY <1>1, <1>2, <1>3 DEF Ledger!Init

(* Every stack of contributions adds to the ledger what one of its target  *)
(* lists reached.                                                          *)
LEMMA StacksAreLedgerSteps ==
  ASSUME LedgerInv, LedgerInv', NEW m \in Owner, NEW v \in Values, NEW targets,
         targets \in TargetLists \/ \E c \in Cell : targets = <<c>>,
         Stack(m, v, targets)
  PROVE  Ledger!Next
<1>1. targets \in Seq(Cell \cup {NoCell}) /\ v \in Int
  BY ValuesAreIntegers
<1>2. PICK n \in 1 .. Len(targets) :
        Reaches(targets, n) /\ \E slot \in [1 .. n -> AllSlots] : StackPrefix(m, v, targets, n, slot)
  BY DEF Stack
<1>3. Ledger!Contribute(m, v, SubSeq(targets, 1, n))
  BY <1>1, <1>2, StackContributes
<1>4. SubSeq(targets, 1, n) \in ReachedLists \cup {<<c>> : c \in Cell}
  <2>1. CASE targets \in TargetLists
    BY <1>2, <2>1 DEF ReachedLists
  <2>2. ASSUME NEW c \in Cell, targets = <<c>> PROVE SubSeq(targets, 1, n) = <<c>>
    <3> DEFINE one == <<c>>
    <3>1. one \in Seq({c}) /\ Len(one) = 1 /\ one[1] = c
      OBVIOUS
    <3>2. n = 1
      BY <1>2, <2>2, <3>1
    <3> HIDE DEF one
    <3>3. /\ SubSeq(one, 1, 1) \in Seq({c}) /\ Len(SubSeq(one, 1, 1)) = 1
          /\ SubSeq(one, 1, 1)[1] = c
      <4>1. \A i \in 1 .. 1 : one[i] \in {c}
        BY <3>1
      <4> QED
        BY <3>1, <4>1, SubSeqProperties
    <3>4. SubSeq(one, 1, 1) = one
      BY <3>1, <3>3, SeqEqual
    <3> QED
      BY <2>2, <3>2, <3>4 DEF one
  <2> QED
    BY <2>1, <2>2
<1> QED
  BY <1>3, <1>4 DEF Ledger!Next

(* The slots implement the ledger: for additive entries among entries of   *)
(* any kind, a reader sees every modifier's contributions come, change and *)
(* go by exactly their amounts, whatever slots they land in, however often *)
(* indices are freed and reused, and whatever outside callers and base     *)
(* writes do to the same entries in between.                               *)
THEOREM SlotsImplementLedger == Spec => ImplementsLedger
<1>1. Spec => []LedgerInv
  <2>1. Spec => []ShownInv
    BY ShownInvariant
  <2> QED
    BY <2>1, SlotsCorrect, PTL DEF LedgerInv
<1>2. LedgerInv /\ LedgerInv' /\ [OwnedNext \/ ComponentNext]_vars
        => [Ledger!Next]_(Ledger!ledgerVars)
  <2> SUFFICES ASSUME LedgerInv, LedgerInv', [OwnedNext \/ ComponentNext]_vars
               PROVE  Ledger!Next \/ UNCHANGED <<LedgerView, BaseView, EffectiveView>>
    BY DEF Ledger!ledgerVars
  <2> USE ValuesAreIntegers, SlotsAreNotZero
  <2>0. ASSUME NEW c \in Cell,
               \/ c \in Additive /\ Ledger!SetBase(c)
               \/ UNCHANGED <<LedgerView, BaseView, EffectiveView>>
        PROVE  Ledger!Next \/ UNCHANGED <<LedgerView, BaseView, EffectiveView>>
    BY <2>0 DEF Ledger!Next
  <2>1. ASSUME NEW m \in Owner, NEW v \in Values, NEW targets \in TargetLists,
               Stack(m, v, targets)
        PROVE  Ledger!Next
    BY <2>1, StacksAreLedgerSteps
  <2>2. ASSUME NEW m \in Owner, NEW v \in Values, NEW c \in Cell, RefreshOrStack(m, v, c)
        PROVE  Ledger!Next
    <3>1. CASE Stack(m, v, <<c>>)
      BY <3>1, StacksAreLedgerSteps
    <3>2. CASE Refresh(m, v, c)
      BY <3>2, RefreshRevises DEF Ledger!Next
    <3> QED
      BY <2>2, <3>1, <3>2 DEF RefreshOrStack
  <2>3. ASSUME NEW m \in Owner, Pop(m) PROVE Ledger!Next
    BY <2>3, PopWithdraws DEF Ledger!Next
  <2>4. ASSUME NEW c \in Cell, NEW f \in ModifyFunctions, NEW v \in Values,
               ModifySourceZero(c, f, v)
        PROVE  Ledger!Next \/ UNCHANGED <<LedgerView, BaseView, EffectiveView>>
    <3>1. 0 \in AllSlots
      BY BoundAssumption DEF AllSlots
    <3>2. PICK w \in Int : Write(c, 0, w) /\ records' = records /\ held' = held
      BY <2>4 DEF ModifySourceZero
    <3> QED
      BY <2>0, <3>1, <3>2, WriteSetsBase
  <2>5. ASSUME NEW c \in Cell, NEW v \in Values, ComponentStack(c, v)
        PROVE  Ledger!Next \/ UNCHANGED <<LedgerView, BaseView, EffectiveView>>
    <3>1. PICK s \in AllSlots : /\ FirstFree(active[c], s) /\ Write(c, s, v)
                                /\ held' = held \cup {<<c, s>>} /\ records' = records
      BY <2>5 DEF ComponentStack
    <3>2. s \notin active[c]
      BY <3>1 DEF FirstFree
    <3> QED
      BY <2>0, <3>1, <3>2, WriteSetsBase
  <2>6. ASSUME NEW c \in Cell, NEW s \in Slots, ComponentUnstack(c, s)
        PROVE  Ledger!Next \/ UNCHANGED <<LedgerView, BaseView, EffectiveView>>
    BY <2>0, <2>6, UnstackSetsBase
  <2>7. ASSUME NEW c \in Cell, NEW s \in Slots, NEW v \in Values, ComponentUpdate(c, s, v)
        PROVE  Ledger!Next \/ UNCHANGED <<LedgerView, BaseView, EffectiveView>>
    <3>1. Write(c, s, v) /\ records' = records /\ held' = held /\ <<c, s>> \in held /\ s \in AllSlots
      BY <2>7 DEF ComponentUpdate
    <3> QED
      BY <2>0, <3>1, WriteSetsBase
  <2>8. CASE UNCHANGED vars
    BY <2>8 DEF vars, LedgerView, BaseView, EffectiveView
  <2>9. CASE OwnedNext
    BY <2>1, <2>2, <2>3, <2>4, <2>9 DEF OwnedNext, OwnedStep
  <2>10. CASE ComponentNext
    BY <2>5, <2>6, <2>7, <2>10 DEF ComponentNext, ComponentStep
  <2> QED
    BY <2>8, <2>9, <2>10
<1> QED
  BY <1>1, <1>2, InitLedger, PTL DEF Spec, ImplementsLedger, Ledger!LedgerSpec

-----------------------------------------------------------------------------
(* The fixed-point words, for every format: the engine's has Limit = 2^30, *)
(* Scale = 2^26 and Shift = 2^7, out of TLC's reach.                       *)

(* Division rounds down, and leaves a remainder.                           *)
LEMMA Division ==
  ASSUME NEW a \in Int, NEW b \in Nat \ {0}
  PROVE  /\ a \div b \in Int /\ a % b \in 0 .. b - 1
         /\ a = b * (a \div b) + (a % b)
OBVIOUS

(* A larger multiple is larger by the factor at least.                     *)
LEMMA MultiplesApart ==
  ASSUME NEW b \in Nat \ {0}, NEW p \in Int, NEW q \in Int, p < q
  PROVE  b * p + b <= b * q
<1>1. b * (q - (p + 1)) >= 0
  OBVIOUS
<1> QED
  BY <1>1

(* Quotient and remainder are the only ones.                               *)
LEMMA DivisionIsUnique ==
  ASSUME NEW b \in Nat \ {0}, NEW q \in Int, NEW r \in 0 .. b - 1
  PROVE  (b * q + r) \div b = q /\ (b * q + r) % b = r
<1> DEFINE a == b * q + r
           d == a \div b
<1>1. a \in Int /\ d \in Int /\ a % b \in 0 .. b - 1 /\ a = b * d + (a % b)
  BY Division
<1>2. ~(d < q)
  BY <1>1, MultiplesApart
<1>3. ~(q < d)
  BY <1>1, MultiplesApart
<1>4. d = q
  BY <1>1, <1>2, <1>3
<1> QED
  BY <1>1, <1>4

(* Dividing keeps the order.                                               *)
LEMMA DivisionKeepsOrder ==
  ASSUME NEW b \in Nat \ {0}, NEW x \in Int, NEW y \in Int, x <= y
  PROVE  x \div b <= y \div b
<1>1. /\ x \div b \in Int /\ x % b \in 0 .. b - 1 /\ x = b * (x \div b) + (x % b)
      /\ y \div b \in Int /\ y % b \in 0 .. b - 1 /\ y = b * (y \div b) + (y % b)
  BY Division
<1> QED
  BY <1>1, MultiplesApart

(* A quotient is not farther from zero than what is divided.               *)
LEMMA QuotientIsSmaller ==
  ASSUME NEW b \in Nat \ {0}, NEW n \in Nat, NEW x \in -n .. n - 1
  PROVE  x \div b \in -n .. n - 1
<1> DEFINE q == x \div b
<1>1. q \in Int /\ x % b \in 0 .. b - 1 /\ x = b * q + (x % b)
  BY Division
<1>2. ~(n <= q)
  <2>1. ASSUME n <= q
        PROVE  FALSE
    <3>1. b * n <= b * q /\ n <= b * n
      BY <1>1, <2>1, MultiplesApart
    <3> QED
      BY <1>1, <3>1
  <2> QED
    BY <2>1
<1>3. ~(q < -n)
  <2>1. ASSUME q < -n
        PROVE  FALSE
    <3>1. b * q + b <= b * (-n) /\ b * (-n) <= -n
      BY <1>1, <2>1, MultiplesApart
    <3> QED
      BY <1>1, <3>1
  <2> QED
    BY <2>1
<1> QED
  BY <1>1, <1>2, <1>3

-----------------------------------------------------------------------------
(* The constants are positive, and the scale and the shift are even.       *)
LEMMA Constants == /\ Limit \in Nat \ {0} /\ Scale \in Nat \ {0} /\ Shift \in Nat \ {0}
                   /\ Scale % 2 = 0 /\ Shift % 2 = 0
BY FixPointAssumption

(* The range of the words: a multiple of Shift, and even.                  *)
LEMMA WordRange ==
  /\ Half \in Nat \ {0} /\ Half % 2 = 0
  /\ Limit * Scale \in Nat \ {0} /\ Half = Shift * (Limit * Scale)
<1>1. Limit * Scale \in Nat \ {0}
  BY Constants
<1>2. Half = Shift * (Limit * Scale)
  BY Constants DEF Half
<1>3. Half \in Nat \ {0}
  BY <1>1, <1>2, Constants
<1>4. Shift = 2 * (Shift \div 2)
  BY Constants
<1> DEFINE k == (Shift \div 2) * (Limit * Scale)
<1>5. k \in Int /\ Half = 2 * k
  BY <1>1, <1>2, <1>4, Constants
<1>6. Half % 2 = 0
  BY <1>3, <1>5
<1> QED
  BY <1>1, <1>2, <1>3, <1>6

(* A word holds every signed number of the range, with its parity.         *)
LEMMA WordOfSigned ==
  ASSUME NEW x \in -Half .. Half - 1
  PROVE  ToWord(x) \in Word /\ Signed(ToWord(x)) = x /\ ToWord(x) % 2 = x % 2
<1>0. Half \in Nat \ {0} /\ Half % 2 = 0
  BY WordRange
<1>1. CASE x >= 0
  <2>1. x = (2 * Half) * 0 + x /\ x \in 0 .. 2 * Half - 1 /\ 2 * Half \in Nat \ {0}
    BY <1>0, <1>1
  <2>2. ToWord(x) = x
    BY <2>1, DivisionIsUnique DEF ToWord
  <2> QED
    BY <1>0, <1>1, <2>2 DEF Word, Signed
<1>2. CASE x < 0
  <2> DEFINE y == x + 2 * Half
  <2>1. x = (2 * Half) * (-1) + y /\ y \in 0 .. 2 * Half - 1 /\ 2 * Half \in Nat \ {0}
    BY <1>0, <1>2
  <2>2. ToWord(x) = y
    BY <2>1, DivisionIsUnique DEF ToWord
  <2>3. y % 2 = x % 2
    BY <1>0
  <2> QED
    BY <1>0, <1>2, <2>2, <2>3 DEF Word, Signed
<1> QED
  BY <1>0, <1>1, <1>2

(* What a word is without its mode.                                        *)
LEMMA SignedOfWord ==
  ASSUME NEW w \in Word
  PROVE  /\ Signed(w) \in -Half .. Half - 1
         /\ Bare(w) \in -Half .. Half - 2
         /\ Bare(w) = Signed(w) - (w % 2)
         /\ w % 2 \in {0, 1}
<1>0. Half \in Nat \ {0} /\ Half % 2 = 0
  BY WordRange
<1>1. w \in Int /\ 0 <= w /\ w < 2 * Half /\ w % 2 \in {0, 1}
  BY <1>0 DEF Word
<1>2. w - (w % 2) >= Half <=> w >= Half
  BY <1>0, <1>1
<1> QED
  BY <1>0, <1>1, <1>2 DEF Signed, Bare

(* The fraction bits of a STANDARD word are those of its number.           *)
LEMMA FractionBits ==
  ASSUME NEW w \in Word
  PROVE  w % Shift = Signed(w) % Shift
<1> DEFINE q == Signed(w) \div Shift
           r == Signed(w) % Shift
           k == 2 * (Limit * Scale)
<1>1. /\ q \in Int /\ r \in 0 .. Shift - 1 /\ Signed(w) = Shift * q + r
      /\ Shift \in Nat \ {0}
  <2>1. Signed(w) \in Int /\ Shift \in Nat \ {0}
    BY SignedOfWord, Constants, WordRange
  <2> QED
    BY <2>1, Division
<1>4. k \in Int /\ 2 * Half = Shift * k
  <2>1. Limit * Scale \in Int /\ Half = Shift * (Limit * Scale)
    BY WordRange
  <2> QED
    BY <1>1, <2>1
<1>2. CASE Signed(w) = w
  BY <1>2
<1>3. CASE Signed(w) = w - 2 * Half
  <2>1. w = Shift * q + r + Shift * k
    BY <1>1, <1>3, <1>4, WordRange DEF Word
  <2>2. w = Shift * (q + k) + r /\ q + k \in Int
    BY <1>1, <1>4, <2>1
  <2> QED
    BY <1>1, <2>2, DivisionIsUnique
<1> QED
  BY <1>2, <1>3 DEF Signed

-----------------------------------------------------------------------------
(* Multiplying by a positive number keeps the sign of a difference.        *)
LEMMA SignOfDifference ==
  ASSUME NEW b \in Nat \ {0}, NEW x \in Int, NEW y \in Int
  PROVE  Sign(b * x - b * y) = Sign(x - y)
<1>1. x < y => b * x + b <= b * y
  BY MultiplesApart
<1>2. y < x => b * y + b <= b * x
  BY MultiplesApart
<1>3. b * x \in Int /\ b * y \in Int
  OBVIOUS
<1> QED
  BY <1>1, <1>2, <1>3 DEF Sign

(* A fraction r only matters when the integers agree.                      *)
LEMMA FractionBreaksTie ==
  ASSUME NEW b \in Nat \ {0}, NEW x \in Int, NEW y \in Int, NEW r \in 0 .. b - 1
  PROVE  Sign(b * x - (b * y + r)) = IF x = y /\ r # 0 THEN -1 ELSE Sign(x - y)
<1>1. x < y => b * x + b <= b * y
  BY MultiplesApart
<1>2. y < x => b * y + b <= b * x
  BY MultiplesApart
<1>3. b * x \in Int /\ b * y \in Int
  OBVIOUS
<1> QED
  BY <1>1, <1>2, <1>3 DEF Sign

(* A fraction added to the left side decides a tie of the multiples.       *)
LEMMA FractionBreaksTieAbove ==
  ASSUME NEW b \in Nat \ {0}, NEW x \in Int, NEW y \in Int, NEW r \in 0 .. b - 1
  PROVE  Sign((b * y + r) - b * x) = IF x = y /\ r # 0 THEN 1 ELSE Sign(y - x)
<1>1. x < y => b * x + b <= b * y
  BY MultiplesApart
<1>2. y < x => b * y + b <= b * x
  BY MultiplesApart
<1>3. b * x \in Int /\ b * y \in Int
  OBVIOUS
<1> QED
  BY <1>1, <1>2, <1>3 DEF Sign

(* The comparison of two words is that of the numbers they stand for.      *)
LEMMA CompareIsExact ==
  ASSUME NEW lhs \in Word, NEW rhs \in Word
  PROVE  Compare(lhs, rhs) = Sign(Exact(lhs) - Exact(rhs))
<1>1. /\ Shift \in Nat \ {0}
      /\ Signed(lhs) \in Int /\ Signed(rhs) \in Int /\ Bare(lhs) \in Int /\ Bare(rhs) \in Int
      /\ ~Extended(lhs) => Bare(lhs) = Signed(lhs)
      /\ ~Extended(rhs) => Bare(rhs) = Signed(rhs)
  BY SignedOfWord, Constants, WordRange DEF Extended
<1>2. /\ Aligned(lhs) \in Int /\ Aligned(rhs) \in Int
      /\ lhs % Shift \in 0 .. Shift - 1 /\ rhs % Shift \in 0 .. Shift - 1
      /\ Signed(lhs) = Shift * Aligned(lhs) + (lhs % Shift)
      /\ Signed(rhs) = Shift * Aligned(rhs) + (rhs % Shift)
  BY <1>1, FractionBits, Division DEF Aligned
<1>3. CASE Extended(lhs) /\ Extended(rhs)
  <2>1. Sign(Shift * Bare(lhs) - Shift * Bare(rhs)) = Sign(Bare(lhs) - Bare(rhs))
    BY <1>1, SignOfDifference
  <2> QED
    BY <1>3, <2>1 DEF Compare, Exact, Extended
<1>4. CASE ~Extended(lhs) /\ ~Extended(rhs)
  <2>1. Compare(lhs, rhs) = Sign(Bare(lhs) - Bare(rhs))
    BY <1>4 DEF Compare, Extended
  <2> QED
    BY <1>1, <1>4, <2>1 DEF Exact
<1>5. CASE Extended(lhs) /\ ~Extended(rhs)
  <2>1. Exact(lhs) = Shift * Bare(lhs) /\ Exact(rhs) = Shift * Aligned(rhs) + (rhs % Shift)
    BY <1>2, <1>5 DEF Exact
  <2> DEFINE x == Bare(lhs)
             y == Aligned(rhs)
             r == rhs % Shift
  <2>2. Sign(Shift * x - (Shift * y + r)) = IF x = y /\ r # 0 THEN -1 ELSE Sign(x - y)
    <3>1. x \in Int /\ y \in Int /\ r \in 0 .. Shift - 1
      BY <1>1, <1>2
    <3> HIDE DEF x, y, r
    <3> QED
      BY <1>1, <3>1, FractionBreaksTie
  <2> QED
    BY <1>5, <2>1, <2>2 DEF Compare, Extended
<1>6. CASE ~Extended(lhs) /\ Extended(rhs)
  <2>1. Exact(lhs) = Shift * Aligned(lhs) + (lhs % Shift) /\ Exact(rhs) = Shift * Bare(rhs)
    BY <1>2, <1>6 DEF Exact
  <2> DEFINE x == Bare(rhs)
             y == Aligned(lhs)
             r == lhs % Shift
  <2>2. Sign((Shift * y + r) - Shift * x) = IF x = y /\ r # 0 THEN 1 ELSE Sign(y - x)
    <3>1. x \in Int /\ y \in Int /\ r \in 0 .. Shift - 1
      BY <1>1, <1>2
    <3> HIDE DEF x, y, r
    <3> QED
      BY <1>1, <3>1, FractionBreaksTieAbove
  <2> QED
    BY <1>6, <2>1, <2>2 DEF Compare, Extended
<1> QED
  BY <1>3, <1>4, <1>5, <1>6

(* The sign leaves see through both modes, and both zeros.                 *)
LEMMA SignsAreExact ==
  ASSUME NEW w \in Word
  PROVE  /\ IsZero(w) <=> Exact(w) = 0
         /\ IsNegative(w) <=> Exact(w) < 0
         /\ IsPositive(w) <=> Exact(w) > 0
<1>1. /\ Half \in Nat \ {0} /\ Half % 2 = 0 /\ w \in Int /\ 0 <= w /\ w < 2 * Half
      /\ Shift \in Nat \ {0} /\ w % 2 \in {0, 1}
      /\ Bare(w) \in Int /\ Bare(w) = Signed(w) - (w % 2)
  BY SignedOfWord, Constants, WordRange DEF Word
<1>2. CASE Extended(w)
  <2>1. /\ Bare(w) < 0 => Shift * Bare(w) + Shift <= Shift * 0
        /\ 0 < Bare(w) => Shift * 0 + Shift <= Shift * Bare(w)
    BY <1>1, MultiplesApart
  <2>2. /\ Exact(w) < 0 <=> Bare(w) < 0
        /\ Exact(w) > 0 <=> Bare(w) > 0
        /\ Exact(w) = 0 <=> Bare(w) = 0
    BY <1>1, <1>2, <2>1 DEF Exact
  <2> QED
    BY <1>1, <1>2, <2>2 DEF IsZero, IsNegative, IsPositive, Signed, Extended
<1>3. CASE ~Extended(w)
  BY <1>1, <1>3 DEF Exact, IsZero, IsNegative, IsPositive, Signed, Extended
<1> QED
  BY <1>2, <1>3

-----------------------------------------------------------------------------
(* The integer a word is cut to is in the range of the integers.           *)
LEMMA CommonIsTyped ==
  ASSUME NEW w \in Word
  PROVE  Common(w) \in -Half .. Half - 1
<1>1. /\ Signed(w) \in -Half .. Half - 1 /\ Bare(w) \in -Half .. Half - 2
      /\ Half \in Nat \ {0} /\ Shift \in Nat \ {0}
  BY SignedOfWord, WordRange, Constants
<1>2. Signed(w) \div Shift \in -Half .. Half - 1
  BY <1>1, QuotientIsSmaller
<1> QED
  BY <1>1, <1>2 DEF Common

(* Decoding loses at most fraction bits: it keeps the order.               *)
LEMMA CompareOrdersCommon ==
  ASSUME NEW lhs \in Word, NEW rhs \in Word
  PROVE  /\ Compare(lhs, rhs) < 0 => Common(lhs) <= Common(rhs)
         /\ ~(Compare(lhs, rhs) < 0) => Common(rhs) <= Common(lhs)
         /\ Compare(lhs, rhs) > 0 => Common(rhs) <= Common(lhs)
         /\ ~(Compare(lhs, rhs) > 0) => Common(lhs) <= Common(rhs)
<1>1. /\ Shift \in Nat \ {0}
      /\ Signed(lhs) \in Int /\ Signed(rhs) \in Int /\ Bare(lhs) \in Int /\ Bare(rhs) \in Int
      /\ Aligned(lhs) \in Int /\ Aligned(rhs) \in Int
      /\ ~Extended(lhs) => Bare(lhs) = Signed(lhs)
      /\ ~Extended(rhs) => Bare(rhs) = Signed(rhs)
  BY SignedOfWord, Constants, WordRange, Division DEF Extended, Aligned
<1>2. /\ Sign(Bare(lhs) - Bare(rhs)) < 0 <=> Bare(lhs) < Bare(rhs)
      /\ Sign(Bare(lhs) - Bare(rhs)) > 0 <=> Bare(lhs) > Bare(rhs)
  BY <1>1 DEF Sign
<1>3. CASE ~Extended(lhs) /\ ~Extended(rhs)
  <2>1. /\ Signed(lhs) <= Signed(rhs) => Aligned(lhs) <= Aligned(rhs)
        /\ Signed(rhs) <= Signed(lhs) => Aligned(rhs) <= Aligned(lhs)
    BY <1>1, DivisionKeepsOrder DEF Aligned
  <2>2. Common(lhs) = Aligned(lhs) /\ Common(rhs) = Aligned(rhs)
    BY <1>3 DEF Common, Aligned
  <2>3. Compare(lhs, rhs) = Sign(Bare(lhs) - Bare(rhs))
    BY <1>3 DEF Compare, Extended
  <2> QED
    BY <1>1, <1>2, <1>3, <2>1, <2>2, <2>3
<1>4. CASE Extended(lhs) /\ Extended(rhs)
  <2>1. Common(lhs) = Bare(lhs) /\ Common(rhs) = Bare(rhs)
    BY <1>4 DEF Common
  <2>2. Compare(lhs, rhs) = Sign(Bare(lhs) - Bare(rhs))
    BY <1>4 DEF Compare, Extended
  <2> QED
    BY <1>1, <1>2, <2>1, <2>2
<1>5. CASE Extended(lhs) /\ ~Extended(rhs)
  <2>1. Common(lhs) = Bare(lhs) /\ Common(rhs) = Aligned(rhs)
    BY <1>5 DEF Common, Aligned
  <2>2. /\ Compare(lhs, rhs) < 0 => Bare(lhs) <= Aligned(rhs)
        /\ ~(Compare(lhs, rhs) < 0) => Aligned(rhs) <= Bare(lhs)
        /\ Compare(lhs, rhs) > 0 => Aligned(rhs) <= Bare(lhs)
        /\ ~(Compare(lhs, rhs) > 0) => Bare(lhs) <= Aligned(rhs)
    BY <1>1, <1>5 DEF Compare, Sign, Extended
  <2> QED
    BY <2>1, <2>2
<1>6. CASE ~Extended(lhs) /\ Extended(rhs)
  <2>1. Common(lhs) = Aligned(lhs) /\ Common(rhs) = Bare(rhs)
    BY <1>6 DEF Common, Aligned
  <2>2. /\ Compare(lhs, rhs) < 0 => Aligned(lhs) <= Bare(rhs)
        /\ ~(Compare(lhs, rhs) < 0) => Bare(rhs) <= Aligned(lhs)
        /\ Compare(lhs, rhs) > 0 => Bare(rhs) <= Aligned(lhs)
        /\ ~(Compare(lhs, rhs) > 0) => Aligned(lhs) <= Bare(rhs)
    BY <1>1, <1>6 DEF Compare, Sign, Extended
  <2> QED
    BY <2>1, <2>2
<1> QED
  BY <1>3, <1>4, <1>5, <1>6

(* What is encoded is decoded again, but for the bit that the mode takes.  *)
LEMMA EncodingRounds ==
  ASSUME NEW c \in -Half .. Half - 1
  PROVE  EncodedAt(c) \in Word /\ Common(EncodedAt(c)) = c - (c % 2)
<1>1. /\ Half \in Nat \ {0} /\ Half % 2 = 0 /\ c \in Int
      /\ Scale \in Nat \ {0} /\ Shift \in Nat \ {0} /\ Limit \in Nat \ {0}
      /\ Scale % 2 = 0 /\ Shift % 2 = 0
  BY WordRange, Constants
<1>2. CASE c % Scale = 0 /\ -Limit < c \div Scale /\ c \div Scale < Limit
  <2> DEFINE v == c \div Scale
             x == v * (Scale * Shift)
  <2>1. v \in Int /\ c = Scale * v
    BY <1>1, <1>2, Division
  <2>2. x = Shift * c /\ x \in Int
    BY <1>1, <2>1
  <2>3. c % 2 = 0 /\ x % 2 = 0
    <3>1. Scale = 2 * (Scale \div 2) /\ Shift = 2 * (Shift \div 2)
      BY <1>1
    <3>2. c = 2 * ((Scale \div 2) * v) /\ x = 2 * ((Shift \div 2) * c)
      BY <1>1, <2>1, <2>2, <3>1
    <3>3. (Scale \div 2) * v \in Int /\ (Shift \div 2) * c \in Int
      BY <1>1, <2>1
    <3> QED
      BY <3>2, <3>3
  <2>4. x \in -Half .. Half - 1
    <3> DEFINE u == Scale * Shift
    <3>1. u \in Nat \ {0} /\ Half = u * Limit /\ x = u * v
      BY <1>1, <2>1 DEF Half
    <3>2. u * v + u <= u * Limit
      BY <1>1, <1>2, <2>1, <3>1, MultiplesApart
    <3>3. u * (-Limit) + u <= u * v
      BY <1>1, <1>2, <2>1, <3>1, MultiplesApart
    <3>4. u * (-Limit) = -(u * Limit)
      BY <1>1, <3>1
    <3> QED
      BY <1>1, <2>2, <3>1, <3>2, <3>3, <3>4
  <2>5. EncodedAt(c) = ToWord(x)
    BY <1>2 DEF EncodedAt
  <2>6. /\ ToWord(x) \in Word /\ Signed(ToWord(x)) = x /\ ToWord(x) % 2 = 0
    BY <2>3, <2>4, WordOfSigned
  <2>7. x \div Shift = c
    <3>1. x = Shift * c + 0 /\ 0 \in 0 .. Shift - 1
      BY <1>1, <2>2
    <3> QED
      BY <1>1, <3>1, DivisionIsUnique
  <2> HIDE DEF x, v
  <2>8. Common(ToWord(x)) = c
    BY <2>6, <2>7 DEF Common, Extended
  <2> QED
    BY <1>1, <2>3, <2>5, <2>6, <2>8
<1>3. CASE ~(c % Scale = 0 /\ -Limit < c \div Scale /\ c \div Scale < Limit)
  <2> DEFINE e == c - (c % 2)
  <2>1. e \in -Half .. Half - 1 /\ e % 2 = 0
    BY <1>1
  <2>2. EncodedAt(c) = ToWord(e) + 1
    BY <1>3 DEF EncodedAt
  <2>3. ToWord(e) \in Word /\ Signed(ToWord(e)) = e /\ ToWord(e) % 2 = 0
    BY <2>1, WordOfSigned
  <2> HIDE DEF e
  <2>4. ToWord(e) + 1 \in Word /\ (ToWord(e) + 1) % 2 = 1
    BY <1>1, <2>3 DEF Word
  <2>5. Common(ToWord(e) + 1) = e
    <3>1. (ToWord(e) + 1) - ((ToWord(e) + 1) % 2) = ToWord(e)
      BY <2>3, <2>4, <1>1 DEF Word
    <3>2. Bare(ToWord(e) + 1) = Signed(ToWord(e))
      BY <3>1 DEF Bare
    <3> QED
      BY <2>3, <2>4, <3>2 DEF Common, Extended
  <2> QED
    BY <2>2, <2>4, <2>5 DEF e
<1> QED
  BY <1>2, <1>3

(* The encoding of any integer is the integer, clipped.                    *)
LEMMA EncodingClips ==
  ASSUME NEW c \in Int
  PROVE  Encoded(c) \in Word /\ Common(Encoded(c)) = C!Clipped(c)
<1>1. Half \in Nat \ {0}
  BY WordRange
<1>2. Saturated(c) \in -Half .. Half - 1
  BY <1>1 DEF Saturated
<1>3. C!Clipped(c) = Saturated(c) - (Saturated(c) % 2)
  BY <1>1 DEF C!Clipped, Saturated
<1> QED
  BY <1>2, <1>3, EncodingRounds DEF Encoded

LEMMA ZeroIsZero == FromInt32(0) \in Word /\ Common(FromInt32(0)) = 0
<1>1. /\ Half \in Nat \ {0} /\ Half % 2 = 0
      /\ Limit \in Nat \ {0} /\ Scale \in Nat \ {0} /\ Shift \in Nat \ {0}
  BY WordRange, Constants
<1>2. 0 * (Scale * Shift) = 0
  BY <1>1
<1>3. FromInt32(0) = ToWord(0)
  BY <1>1, <1>2 DEF FromInt32
<1>4. ToWord(0) \in Word /\ Signed(ToWord(0)) = 0 /\ ToWord(0) % 2 = 0
  <2>1. 0 \in -Half .. Half - 1
    BY <1>1
  <2> QED
    BY <2>1, WordOfSigned
<1>5. 0 \div Shift = 0
  <2>1. 0 = Shift * 0 + 0 /\ 0 \in 0 .. Shift - 1
    BY <1>1
  <2> QED
    BY <1>1, <2>1, DivisionIsUnique
<1> QED
  BY <1>3, <1>4, <1>5 DEF Common, Extended

(* Every integer that is converted is a word.                              *)
LEMMA IntegersAreWords ==
  ASSUME NEW n \in Int32
  PROVE  FromInt32(n) \in Word
<1>1. /\ Half \in Nat \ {0} /\ Half % 2 = 0 /\ n \in Int
      /\ Limit \in Nat \ {0} /\ Scale \in Nat \ {0} /\ Shift \in Nat \ {0} /\ Scale % 2 = 0
  BY WordRange, Constants DEF Int32
<1>2. n * (Scale * Shift) \in Int /\ n * Scale \in Int
  BY <1>1
<1>3. \A x \in Int : ToWord(x) \in Word /\ ToWord(x) % 2 = x % 2
  <2> TAKE x \in Int
  <2> DEFINE d == x \div (2 * Half)
             m == x % (2 * Half)
  <2>0. 2 * Half \in Nat \ {0}
    BY <1>1
  <2>1. d \in Int /\ m \in 0 .. 2 * Half - 1 /\ x = (2 * Half) * d + m
    BY <2>0, Division
  <2> HIDE DEF d, m
  <2>2. Half * d \in Int /\ (2 * Half) * d = 2 * (Half * d)
    BY <1>1, <2>1
  <2>3. m % 2 = x % 2
    <3> DEFINE h == Half * d
    <3>1. h \in Int /\ m \in Int /\ x = 2 * h + m
      BY <1>1, <2>1, <2>2
    <3> HIDE DEF h
    <3> QED
      BY <3>1
  <2> QED
    BY <1>1, <2>1, <2>3 DEF ToWord, Word, m
<1>4. (n * Scale) % 2 = 0
  <2>1. Scale = 2 * (Scale \div 2) /\ Scale \div 2 \in Int
    BY <1>1
  <2>2. n * Scale = 2 * (n * (Scale \div 2)) /\ n * (Scale \div 2) \in Int
    BY <1>1, <2>1
  <2> QED
    BY <2>2
<1>5. ToWord(n * Scale) + 1 \in Word
  <2>1. ToWord(n * Scale) \in Word /\ ToWord(n * Scale) % 2 = 0
    BY <1>2, <1>3, <1>4
  <2> QED
    BY <1>1, <2>1 DEF Word
<1> QED
  BY <1>2, <1>3, <1>5 DEF FromInt32

-----------------------------------------------------------------------------
(* A modification makes of words what it makes of the integers they hold.  *)
LEMMA ModifiedIsExact ==
  ASSUME NEW f \in Functions, NEW old \in Word, NEW w \in Word
  PROVE  /\ ModifiedWord(f, old, w) \in Word
         /\ Common(ModifiedWord(f, old, w)) =
              CASE f = "ADD" -> C!Clipped(Common(old) + Common(w))
                [] f = "MUL" -> C!Clipped((Common(old) * Common(w)) \div Scale)
                [] f = "MIN_SET" -> IF Common(old) < Common(w) THEN Common(old) ELSE Common(w)
                [] f = "MAX_SET" -> IF Common(old) > Common(w) THEN Common(old) ELSE Common(w)
                [] f = "reduce" -> C!Clipped(Common(old) - Common(w))
                [] f \in {"SET", "unknown"} -> Common(w)
<1>1. Common(old) \in Int /\ Common(w) \in Int /\ Scale \in Nat \ {0}
  BY CommonIsTyped, WordRange, Constants
<1>2. CASE f = "ADD"
  <2>1. Common(old) + Common(w) \in Int
    BY <1>1
  <2> QED
    BY <1>2, <2>1, EncodingClips DEF ModifiedWord, Add
<1>3. CASE f = "MUL"
  <2>1. (Common(old) * Common(w)) \div Scale \in Int
    BY <1>1, Division
  <2> QED
    BY <1>3, <2>1, EncodingClips DEF ModifiedWord, Multiply
<1>4. CASE f = "reduce"
  <2>1. Common(old) - Common(w) \in Int
    BY <1>1
  <2> QED
    BY <1>4, <2>1, EncodingClips DEF ModifiedWord, Subtract
<1>5. CASE f = "MIN_SET"
  <2>1. ModifiedWord(f, old, w) = IF Compare(old, w) < 0 THEN old ELSE w
    BY <1>5 DEF ModifiedWord
  <2>2. /\ Compare(old, w) < 0 => Common(old) <= Common(w)
        /\ ~(Compare(old, w) < 0) => Common(w) <= Common(old)
    BY CompareOrdersCommon
  <2> QED
    BY <1>1, <1>5, <2>1, <2>2
<1>6. CASE f = "MAX_SET"
  <2>1. ModifiedWord(f, old, w) = IF Compare(w, old) > 0 THEN w ELSE old
    BY <1>6 DEF ModifiedWord
  <2>2. /\ Compare(w, old) > 0 => Common(old) <= Common(w)
        /\ ~(Compare(w, old) > 0) => Common(w) <= Common(old)
    BY CompareOrdersCommon
  <2> QED
    BY <1>1, <1>6, <2>1, <2>2
<1>7. CASE f \in {"SET", "unknown"}
  BY <1>7 DEF ModifiedWord
<1> QED
  BY <1>2, <1>3, <1>4, <1>5, <1>6, <1>7 DEF Functions

LEMMA FixStarts == FixInit => FixTypeOK /\ C!ClippedInit
<1> SUFFICES ASSUME FixInit PROVE FixTypeOK /\ C!ClippedInit
  OBVIOUS
<1>1. raw \in Word /\ operand \in Word /\ function = "none" /\ Common(operand) = 0
  BY IntegersAreWords, ZeroIsZero DEF FixInit
<1>2. Common(raw) \in -Half .. Half - 1
  BY <1>1, CommonIsTyped
<1> QED
  BY <1>1, <1>2 DEF FixTypeOK, C!ClippedInit

LEMMA FixSteps ==
  FixTypeOK /\ [FixNext]_fixVars => FixTypeOK' /\ [C!ClippedNext]_(C!clippedVars)
<1> SUFFICES ASSUME FixTypeOK, [FixNext]_fixVars
             PROVE  FixTypeOK' /\ [C!ClippedNext]_(C!clippedVars)
  OBVIOUS
<1>1. raw \in Word /\ operand \in Word
  BY DEF FixTypeOK
<1>2. ASSUME NEW f \in Functions, NEW w \in Word, Evaluate(f, w)
      PROVE  FixTypeOK' /\ C!Begin
  <2>1. Common(w) \in -Half .. Half - 1
    BY CommonIsTyped
  <2>2. /\ function = "none" /\ function' = f /\ operand' = w /\ raw' = raw
    BY <1>2 DEF Evaluate
  <2>3. Common(operand') = Common(w) /\ Common(raw') = Common(raw)
    BY <2>2
  <2> QED
    BY <1>1, <2>1, <2>2, <2>3 DEF FixTypeOK, C!Begin, Functions
<1>3. CASE ModifyProperty
  <2>1. /\ function \in Functions /\ raw' = ModifiedWord(function, raw, operand)
        /\ function' = "none" /\ operand' = FromInt32(0)
    BY <1>3 DEF ModifyProperty, FixTypeOK
  <2>2. FixTypeOK'
    BY <1>1, <2>1, ModifiedIsExact, ZeroIsZero DEF FixTypeOK
  <2>3. Common(operand') = 0
    BY <2>1, ZeroIsZero
  <2>4. C!Finish
    BY <1>1, <2>1, <2>3, ModifiedIsExact DEF C!Finish, Functions
  <2> QED
    BY <2>2, <2>4 DEF C!ClippedNext
<1>4. CASE UNCHANGED fixVars
  BY <1>4 DEF fixVars, FixTypeOK, C!clippedVars
<1> QED
  BY <1>2, <1>3, <1>4 DEF FixNext, C!ClippedNext

(* Values and operands stay words.                                         *)
THEOREM WordsStayWords == FixSpec => []FixTypeOK
BY FixStarts, FixSteps, PTL DEF FixSpec

(* The value of a property entry, in whatever modes the words it is made   *)
(* of are, is the integer that the same modifications make of integers: it *)
(* saturates and never wraps around.                                       *)
THEOREM FixPointIsInteger == FixSpec => ImplementsInteger
BY FixStarts, FixSteps, PTL DEF FixSpec, ImplementsInteger, C!ClippedSpec

(* Comparisons and sign leaves tell the exact order of any two words.      *)
THEOREM ComparisonsAreExact == FixSpec => []ComparisonIsExact
<1>1. FixTypeOK => ComparisonIsExact
  BY CompareIsExact, SignsAreExact DEF FixTypeOK, ComparisonIsExact
<1> QED
  BY <1>1, WordsStayWords, PTL
=============================================================================
