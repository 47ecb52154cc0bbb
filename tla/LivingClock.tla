----------------------------- MODULE LivingClock -----------------------------
(***************************************************************************)
(* What the ordinary scheduler of the reference engine promises about time *)
(* while units die.  Every unit is due at an absolute time.  A turn passes *)
(* from the acting unit, which must have survived its own action and is    *)
(* due again strictly later, to the living unit due first, and the clock   *)
(* jumps to that time; nobody else's due time ever moves, and the dead are *)
(* never waited for.  ReferenceBattle is shown to implement this.          *)
(***************************************************************************)
EXTENDS Integers

CONSTANTS Entity,    \* the units on the ordinary action list
          NoEntity   \* no turn has begun

VARIABLES now,       \* elapsed action delay
          due,       \* due[e]: when e acts next
          acting,    \* whose turn it is
          living     \* the units that may still get a turn

clockVars == <<now, due, acting, living>>

ClockInit ==
  /\ now = 0
  /\ due \in [Entity -> Nat]
  /\ acting = NoEntity
  /\ living \subseteq Entity

(* Units die; nothing revives them.                                        *)
Perish ==
  /\ living' \subseteq living
  /\ UNCHANGED <<now, due, acting>>

(* The turn goes to e.                                                     *)
Pass(e) ==
  /\ acting # NoEntity => acting \in living /\ due'[acting] > now
  /\ due' \in [Entity -> Nat]
  /\ \A f \in living \ {acting} : due'[f] = due[f]
  /\ \A f \in living : due'[e] <= due'[f]
  /\ now' = due'[e]
  /\ acting' = e
  /\ UNCHANGED living

ClockNext == Perish \/ \E e \in living : Pass(e)

ClockSpec == ClockInit /\ [][ClockNext]_clockVars
=============================================================================
