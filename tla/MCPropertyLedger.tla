--------------------------- MODULE MCPropertyLedger ---------------------------
(* Property entries for TLC, cells of every kind, and one word of a small  *)
(* format with the functions that change it.  A rebuild reads its own cell *)
(* only, so behaviours touch the two additive cells or one cell of another *)
(* kind, and entries and the word are never both touched.                  *)
EXTENDS PropertyLedger, FixPoint, TLC

CONSTANTS a, b, c1, c2, c4, c6, c7

OtherCells == {c1, c2, c4, c6, c7}
KindOfEach ==
  [c \in {a, b} \cup OtherCells |->
     CASE c = c1 -> 1 [] c = c2 -> 2 [] c = c4 -> 4 [] c = c6 -> 6 [] c = c7 -> 7 [] OTHER -> 3]
Bases == [c \in {a, b} \cup OtherCells |-> IF c = b THEN 0 ELSE 1]

(* One target, two, one twice, and lists that fail at a later target.      *)
Lists ==
  {<<a>>, <<a, b>>, <<b, b>>, <<a, NoCell, b>>, <<c6, c6, NoCell>>} \cup {<<c>> : c \in OtherCells}

-----------------------------------------------------------------------------
Untouched(cells) ==
  /\ \A c \in cells : active[c] = {} /\ last[c] = 0 /\ shown[c] = BaseOf[c]
  /\ \A c \in cells, s \in AllSlots : value[c][s] = 0

WordUntouched == raw = FromInt32(1) /\ function = "none"

MCInit == Init /\ FixInit

MCNext ==
  \/ /\ WordUntouched /\ UNCHANGED fixVars
     /\ \E T \in {{a, b}} \cup {{c} : c \in OtherCells} :
          /\ Untouched(Cell \ T)
          /\ \/ OwnedStep(T, {targets \in Lists : targets[1] \in T})
             \/ ComponentStep(T)
  \/ Untouched(Cell) /\ FixNext /\ UNCHANGED vars

(* Modifiers are told apart by name only.                                  *)
SameOwners == Permutations(Owner)

MCSpec == MCInit /\ [][MCNext]_<<vars, fixVars>>
=============================================================================
