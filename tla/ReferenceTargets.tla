-------------------------- MODULE ReferenceTargets --------------------------
(***************************************************************************)
(* Which units a target alias of an operation names, in                    *)
(* game_data/target_semantics_reference.py, for a caster, the ability      *)
(* target and the living units of the moment.  The resolver returns ids in *)
(* formation order; the operations treat their targets one by one, so the  *)
(* order matters only where a prefix is taken (Retarget).                  *)
(***************************************************************************)
EXTENDS Integers, FiniteSets

CONSTANTS Team,        \* "light", "dark" or "neutral", for each unit
          Seat,        \* position in the row of the team, for each unit
          Selectable   \* the units a selecting alias may name

ASSUME FormationAssumption ==
  /\ Team \in [DOMAIN Team -> {"light", "dark", "neutral"}]
  /\ Seat \in [DOMAIN Team -> Nat]

Opposing(g) == IF g = "light" THEN "dark" ELSE IF g = "dark" THEN "light" ELSE "neutral"

Members(g, living) == {e \in living : Team[e] = g}

Adjacent(c, living) ==
  {e \in Members(Team[c], living) \cap Selectable :
     Seat[e] - Seat[c] \in {-1, 1}}

(* resolve_target_alias; a named unit is a target even when it is dead.    *)
Resolve(alias, caster, target, living) ==
  CASE alias = "Caster" -> {caster}
    [] alias = "AbilityTargetEntity" -> {target}
    [] alias = "AllEnemy" -> Members(Opposing(Team[caster]), living) \cap Selectable
    [] alias = "AllEnemyWithUnSelectable" -> Members(Opposing(Team[caster]), living)
    [] alias = "AllTeammate" -> Members(Team[caster], living) \cap Selectable
    [] alias = "AllTeamMember" -> Members(Team[caster], living)
    [] alias = "AbilityTargetAdjoinEntity" -> Adjacent(target, living)
    [] alias = "ModifierOwnerAdjoinEntity" -> Adjacent(caster, living)

(* The ordered prefix of n units that Retarget binds one by one.           *)
Prefix(S, n) == {e \in S : Cardinality({f \in S : Seat[f] < Seat[e]}) < n}
=============================================================================
