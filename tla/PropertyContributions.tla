------------------------ MODULE PropertyContributions ------------------------
(***************************************************************************)
(* The property entries of battle_runtime/property.py and the modifier-    *)
(* owned contributions to them.  A cell is an (entity, property) pair with *)
(* a stored entry: parallel slot arrays, of which slot 0 is the mutable    *)
(* base and the slots from 1 up are handed out to contributions.  A        *)
(* modifier remembers its contributions as an ordered list of records;     *)
(* callers of the component primitives hold the returned index themselves. *)
(*                                                                         *)
(* Generations and array lengths are left out: no operation reads a        *)
(* generation, and a slot past the end is a slot that is not active.       *)
(* Fixed-point values are whole numbers, whose fixed-point product is the  *)
(* product, without the saturation at 64 bits.                             *)
(***************************************************************************)
EXTENDS Integers, Sequences, FiniteSets, FiniteSetsExt, Functions

CONSTANTS Cell,         \* (entity, property) pairs with an entry
          NoCell,       \* a null target, a missing entry or an unsupported kind
          Special,      \* cells the generic source-zero path refuses
          KindOf,       \* materialization_kind of each entry
          BaseOf,       \* base_or_fallback of each entry
          Owner,        \* logical ModifierRefs
          Values,       \* contributed values
          TargetLists,  \* the target lists StackProperty tasks run over
          MaxSlot,      \* bound on the slot indices
          MaxRecords,   \* bound on the records of one modifier
          MaxShown      \* bound on the materialized values a base write may set

Kinds == {1, 2, 3, 4, 6, 7}
Slots == 1 .. MaxSlot
AllSlots == 0 .. MaxSlot

ASSUME BoundAssumption == MaxSlot \in Nat /\ MaxRecords \in Nat /\ MaxShown \in Nat
ASSUME CellAssumption ==
  /\ NoCell \notin Cell
  /\ KindOf \in [Cell -> Kinds]
  /\ BaseOf \in [Cell -> Int]
ASSUME InputAssumption ==
  /\ Values \subseteq Int
  /\ TargetLists \subseteq Seq(Cell \cup {NoCell})

VARIABLES active,   \* source_active, as a set of indices
          value,    \* source_value
          last,     \* last_changed_source
          shown,    \* materialized
          records,  \* modifier_property_contributions
          held      \* indices returned to callers of the component primitives

entryVars == <<active, value, last, shown>>
vars == <<active, value, last, shown, records, held>>

Record == Cell \X Slots

TypeOK ==
  /\ active \in [Cell -> SUBSET AllSlots]
  /\ value \in [Cell -> [AllSlots -> Int]]
  /\ last \in [Cell -> AllSlots]
  /\ shown \in [Cell -> Int]
  /\ records \in [Owner -> Seq(Record)]
  /\ held \subseteq Record

RecordsAt(m) == {records[m][i] : i \in DOMAIN records[m]}

-----------------------------------------------------------------------------
ActiveValues(A, V) == {V[s] : s \in A}
Product(start, V, A) == FoldFunctionOnSet(LAMBDA x, y : x * y, start, V, A)

(* _materialize_by_kind of cell c for active slots A, values V and last    *)
(* changed slot l.                                                         *)
Materialized(c, A, V, l) ==
  LET kind == KindOf[c]
      base == BaseOf[c]
  IN CASE kind = 1 -> V[0]
       [] kind = 2 -> V[l]
       [] kind = 3 -> base + SumFunctionOnSet(V, A)
       [] kind = 4 -> Product(base, V, A)
       [] kind = 6 -> IF A = {} THEN base ELSE Min(ActiveValues(A, V))
       [] kind = 7 -> IF A = {} THEN base ELSE Max(ActiveValues(A, V))

(* apply_modify_function: Set, Add, Mul, MinSet, MaxSet.                   *)
ModifyFunctions == {"set", "add", "mul", "min_set", "max_set"}
Modified(f, old, operand) ==
  CASE f = "set" -> operand
    [] f = "add" -> old + operand
    [] f = "mul" -> old * operand
    [] f = "min_set" -> IF old < operand THEN old ELSE operand
    [] f = "max_set" -> IF operand > old THEN operand ELSE old

(* Mutant of the slot search.                                              *)
FreeByCount(A, s) == s = Cardinality(A \ {0}) + 1

(* allocate_source_slot takes the first inactive slot from 1 up.           *)
FirstFree(A, s) == s \in Slots \ A /\ \A r \in Slots \ A : s <= r

-----------------------------------------------------------------------------
(* PropertyEntry.create_empty shows the base whatever the kind.            *)
Init ==
  /\ active = [c \in Cell |-> {}]
  /\ value = [c \in Cell |-> [s \in AllSlots |-> 0]]
  /\ last = [c \in Cell |-> 0]
  /\ shown = BaseOf
  /\ records = [m \in Owner |-> <<>>]
  /\ held = {}

(* Mutant: the rebuild runs before last_changed_source is set.             *)
StoreOldLast(D, A, V, l) ==
  /\ active' = A /\ value' = V /\ last' = l
  /\ shown' = [c \in Cell |-> IF c \in D THEN Materialized(c, A[c], V[c], last[c])
                                         ELSE shown[c]]

(* Store the slot arrays A, V and l, and rebuild the cells of D from them. *)
Store(D, A, V, l) ==
  /\ active' = A
  /\ value' = V
  /\ last' = l
  /\ shown' = [c \in Cell |-> IF c \in D THEN Materialized(c, A[c], V[c], l[c])
                                        ELSE shown[c]]

(* A raise at the first bad target keeps what was done before it.          *)
Reaches(targets, n) ==
  /\ \A i \in 1 .. n : targets[i] \in Cell
  /\ n < Len(targets) => targets[n + 1] \notin Cell

(* stack_property_execute with is_refresh False, for a modifier copy that  *)
(* is not past Alive; one target is stack_property_contribution.           *)
StackPrefix(m, v, targets, n, slot) ==
  /\ \A i \in 1 .. n :
       FirstFree(active[targets[i]] \cup
                   {slot[j] : j \in {k \in 1 .. i - 1 : targets[k] = targets[i]}},
                 slot[i])
  /\ LET taken(c) == {slot[i] : i \in {k \in 1 .. n : targets[k] = c}}
         final(c) == CHOOSE i \in 1 .. n :
                       /\ targets[i] = c
                       /\ \A k \in i + 1 .. n : targets[k] # c
     IN Store({targets[i] : i \in 1 .. n},
              [c \in Cell |-> active[c] \cup taken(c)],
              [c \in Cell |-> [s \in AllSlots |->
                 IF s \in taken(c) THEN v ELSE value[c][s]]],
              [c \in Cell |-> IF taken(c) = {} THEN last[c] ELSE slot[final(c)]])
  /\ records' = [records EXCEPT ![m] = @ \o [i \in 1 .. n |-> <<targets[i], slot[i]>>]]
  /\ UNCHANGED held

Stack(m, v, targets) ==
  \E n \in 1 .. Len(targets) :
    /\ Reaches(targets, n)
    /\ Len(records[m]) + n <= MaxRecords
    /\ \E slot \in [1 .. n -> AllSlots] : StackPrefix(m, v, targets, n, slot)

(* update_source_slot, and the write that allocate_source_slot ends with.  *)
Write(c, s, v) ==
  Store({c}, [active EXCEPT ![c] = @ \cup {s}], [value EXCEPT ![c][s] = v],
        [last EXCEPT ![c] = s])

(* remove_source_slot for slots S[c] of every cell: nothing happens in an  *)
(* entry without active slots, and stale values stay.                      *)
Disable(S) ==
  Store({c \in Cell : S[c] # {} /\ active[c] # {}},
        [c \in Cell |-> active[c] \ S[c]], value, last)

(* Mutant: the newest record of the cell is refreshed.                     *)
IsLastRecord(m, c, i) ==
  /\ i \in DOMAIN records[m]
  /\ records[m][i][1] = c
  /\ \A j \in DOMAIN records[m] : records[m][j][1] = c => j <= i

(* A refresh scans the records forward.                                    *)
IsFirstRecord(m, c, i) ==
  /\ i \in DOMAIN records[m]
  /\ records[m][i][1] = c
  /\ \A j \in DOMAIN records[m] : records[m][j][1] = c => i <= j

(* stack_property_contribution with is_refresh True and a matching record; *)
(* without one it is Stack for one target.                                 *)
Refresh(m, v, c) ==
  \E i \in DOMAIN records[m] :
    /\ IsFirstRecord(m, c, i)
    /\ Write(c, records[m][i][2], v)
    /\ UNCHANGED <<records, held>>

RefreshOrStack(m, v, c) ==
  \/ Refresh(m, v, c)
  \/ c \notin {r[1] : r \in RecordsAt(m)} /\ Stack(m, v, <<c>>)

(* Mutant: pop clears by cell, not by slot.                                *)
SlotsOfCell(m, c) == IF c \in {r[1] : r \in RecordsAt(m)} THEN Slots ELSE {}

SlotsOf(m, c) == {s \in Slots : <<c, s>> \in RecordsAt(m)}

(* pop_property_contributions.                                             *)
Pop(m) ==
  /\ Disable([c \in Cell |-> SlotsOf(m, c)])
  /\ records' = [records EXCEPT ![m] = <<>>]
  /\ UNCHANGED held

(* component_stack_source: the index goes back to the caller.              *)
ComponentStack(c, v) ==
  \E s \in AllSlots :
    /\ FirstFree(active[c], s)
    /\ Write(c, s, v)
    /\ held' = held \cup {<<c, s>>}
    /\ UNCHANGED records

(* update_contribution_source by the holder of an index.                   *)
ComponentUpdate(c, s, v) ==
  /\ <<c, s>> \in held
  /\ Write(c, s, v)
  /\ UNCHANGED <<records, held>>

(* remove_contribution_source and component_unstack_boundary.              *)
ComponentUnstack(c, s) ==
  /\ <<c, s>> \in held
  /\ Disable([d \in Cell |-> IF d = c THEN {s} ELSE {}])
  /\ held' = held \ {<<c, s>>}
  /\ UNCHANGED records

(* modify_source_zero_untransformed: the operand is combined with the      *)
(* materialized value, and the result becomes slot 0.                      *)
ModifySourceZero(c, f, operand) ==
  /\ c \notin Special
  /\ LET candidate == Modified(f, shown[c], operand)
     IN /\ candidate \in -MaxShown .. MaxShown
        /\ Write(c, 0, candidate)
  /\ UNCHANGED <<records, held>>

-----------------------------------------------------------------------------
(* Operations of modifiers and of outside callers on some of the cells.    *)
OwnedStep(cells, lists) ==
  \/ \E m \in Owner, v \in Values :
       \/ \E targets \in lists : Stack(m, v, targets)
       \/ \E c \in cells : RefreshOrStack(m, v, c)
  \/ \E m \in Owner : Pop(m)
  \/ \E c \in cells, f \in ModifyFunctions, v \in Values : ModifySourceZero(c, f, v)

ComponentStep(cells) ==
  \E c \in cells :
    \/ \E v \in Values : ComponentStack(c, v)
    \/ \E s \in Slots : ComponentUnstack(c, s)
    \/ \E s \in Slots, v \in Values : ComponentUpdate(c, s, v)

OwnedNext == OwnedStep(Cell, TargetLists)
ComponentNext == ComponentStep(Cell)

Spec == Init /\ [][OwnedNext \/ ComponentNext]_vars

-----------------------------------------------------------------------------
(* Every active contribution slot has exactly one owner, a single record   *)
(* of a single modifier or one outside caller, and whoever owns a slot can *)
(* rely on it being active: indices are reused, yet never shared.          *)
NoSharedSlot ==
  \A m, n \in Owner :
    \A i \in DOMAIN records[m], j \in DOMAIN records[n] :
      records[m][i] = records[n][j] => m = n /\ i = j
NotHeldTwice == \A m \in Owner : \A i \in DOMAIN records[m] : records[m][i] \notin held
OwnedActive ==
  /\ \A m \in Owner : \A i \in DOMAIN records[m] :
       records[m][i][2] \in active[records[m][i][1]]
  /\ \A r \in held : r[2] \in active[r[1]]
ActiveOwned ==
  \A c \in Cell : \A s \in active[c] \ {0} :
    <<c, s>> \in held \/ \E m \in Owner : <<c, s>> \in RecordsAt(m)

OneOwnerPerSlot == NoSharedSlot /\ NotHeldTwice /\ OwnedActive /\ ActiveOwned

(* What a reader sees is what the slots say, except that an entry nobody   *)
(* has written yet shows its base.                                         *)
ShownIsRebuilt ==
  \A c \in Cell : \/ shown[c] = Materialized(c, active[c], value[c], last[c])
                  \/ shown[c] = BaseOf[c] /\ active[c] = {} /\ value[c][0] = 0

(* What one modifier contributes changes only by its own operations: in a  *)
(* step that changes the contributed values of one modifier, those of      *)
(* every other stay.                                                       *)
Contributed(m) ==
  [i \in DOMAIN records[m] |->
     <<records[m][i], value[records[m][i][1]][records[m][i][2]],
       records[m][i][2] \in active[records[m][i][1]]>>]

OneContributorPerStep ==
  [][\A m, n \in Owner :
       m # n => UNCHANGED Contributed(m) \/ UNCHANGED Contributed(n)]_vars
=============================================================================
