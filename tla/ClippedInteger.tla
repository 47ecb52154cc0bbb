---------------------------- MODULE ClippedInteger ----------------------------
(***************************************************************************)
(* What the fixed-point numbers of the engine promise: an integer number   *)
(* of units between two bounds that is set, added to, reduced, multiplied, *)
(* or replaced by the smaller or the larger of two.  A result is rounded   *)
(* down to an even number of units.                                        *)
(***************************************************************************)
EXTENDS Integers

CONSTANTS Least, Greatest,  \* bounds
          Scale             \* units of the number 1

VARIABLES number, change, amount

clippedVars == <<number, change, amount>>

Clipped(x) ==
  LET y == IF x < Least THEN Least ELSE IF x > Greatest THEN Greatest ELSE x
  IN y - (y % 2)

ClippedInit == number \in Least .. Greatest /\ change = "none" /\ amount = 0

Begin ==
  /\ change = "none"
  /\ change' \in {"SET", "ADD", "MUL", "MIN_SET", "MAX_SET", "unknown", "reduce"}
  /\ amount' \in Least .. Greatest
  /\ UNCHANGED number

Finish ==
  /\ \/ change \in {"SET", "unknown"} /\ number' = amount
     \/ change = "ADD" /\ number' = Clipped(number + amount)
     \/ change = "reduce" /\ number' = Clipped(number - amount)
     \/ change = "MUL" /\ number' = Clipped((number * amount) \div Scale)
     \/ change = "MIN_SET" /\ number' = IF number < amount THEN number ELSE amount
     \/ change = "MAX_SET" /\ number' = IF number > amount THEN number ELSE amount
  /\ change' = "none" /\ amount' = 0

ClippedNext == Begin \/ Finish

ClippedSpec == ClippedInit /\ [][ClippedNext]_clippedVars
=============================================================================
