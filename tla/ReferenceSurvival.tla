-------------------------- MODULE ReferenceSurvival --------------------------
(***************************************************************************)
(* The immutable survival and toughness records of the reference engine    *)
(* (game_data/damage_survival_reference.py, toughness_break_reference.py)  *)
(* and what a hit, a heal, a shield, a lock, a kill and a recovery make of *)
(* them.  Amounts are the results of the damage formulas.                  *)
(***************************************************************************)
EXTENDS Integers

CONSTANTS MaxHP,         \* max_hp of every unit
          MaxToughness,  \* max_toughness of every bar
          BreakDamage    \* what break_damage yields for a full bar

ASSUME SurvivalAssumption ==
  /\ MaxHP \in Nat \ {0}
  /\ MaxToughness \in Nat \ {0}
  /\ BreakDamage \in Nat

Unit == [hp : 0..MaxHP, shield : Nat, locked : BOOLEAN, alive : BOOLEAN]
Bar == [left : 0..MaxToughness, broken : BOOLEAN]

Least(a, b) == IF a <= b THEN a ELSE b

-----------------------------------------------------------------------------
(* SurvivalState.heal: amounts here are not negative.                      *)
Heal(u, x) ==
  IF ~u.alive \/ u.locked THEN u ELSE [u EXCEPT !.hp = Least(MaxHP, @ + x)]

ApplyShield(u, x) == IF u.alive THEN [u EXCEPT !.shield = @ + x] ELSE u

(* SurvivalState.absorb: the shield first, then the HP unless locked.      *)
Absorb(u, x) ==
  LET past == x - Least(u.shield, x)
      left == IF u.locked THEN u.hp ELSE u.hp - Least(u.hp, past)
  IN  IF ~u.alive THEN u
      ELSE [u EXCEPT !.shield = @ - Least(@, x), !.hp = left, !.alive = left > 0]

ForceKill(u) == IF u.locked THEN u ELSE [u EXCEPT !.hp = 0, !.alive = FALSE]

-----------------------------------------------------------------------------
(* ToughnessState.apply_damage: a broken bar takes nothing.                *)
Reduce(b, x) ==
  IF b.broken THEN b
  ELSE IF x < b.left THEN [b EXCEPT !.left = @ - x]
  ELSE [left |-> 0, broken |-> TRUE]

(* apply_toughness_damage reports break damage only on the crossing.       *)
BreaksAgain(b, x) == Reduce(b, x).broken  \* mutant

Breaks(b, x) == ~b.broken /\ Reduce(b, x).broken

(* recover_toughness                                                       *)
Recovered(b) == [left |-> MaxToughness, broken |-> FALSE]
=============================================================================
