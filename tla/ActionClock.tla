----------------------------- MODULE ActionClock -----------------------------
(***************************************************************************)
(* What the ordinary turn scheduler promises, with absolute times: every   *)
(* entity is due at a fixed time, the clock jumps to the earliest due time,*)
(* the entity due then acts, and only finishing the action or an explicit  *)
(* change of an entity's own delay moves its due time.  The runtime keeps  *)
(* remaining delays instead and lowers all of them on each advance         *)
(* (battle_runtime/turns.py); TurnTimeline is shown to implement this.     *)
(***************************************************************************)
EXTENDS Integers

CONSTANTS Entity,    \* the entities on the action list
          NoEntity   \* nobody is acting

VARIABLES now,      \* the clock, elapsed action delay
          due,      \* due[e]: the time at which e acts next
          acting    \* the entity whose action is not settled yet

clockVars == <<now, due, acting>>

ClockInit ==
  /\ now = 0
  /\ due \in [Entity -> Int]
  /\ acting = NoEntity

(* A new timeline counts from zero and keeps the remaining delays.         *)
Restart ==
  /\ now' = 0
  /\ due' = [e \in Entity |-> due[e] - now]
  /\ acting' = NoEntity

(* The clock jumps to the earliest due time; nobody's due time moves.      *)
Jump(e) ==
  /\ acting = NoEntity
  /\ now <= due[e]
  /\ \A f \in Entity : due[e] <= due[f]
  /\ now' = due[e]
  /\ acting' = e
  /\ UNCHANGED due

(* Only e's due time may have moved.                                       *)
OnlyDueOf(e) ==
  /\ due' \in [Entity -> Int]
  /\ \A f \in Entity \ {e} : due'[f] = due[f]

(* The acting entity settles and is due again, not before now.             *)
Settle ==
  /\ acting # NoEntity
  /\ OnlyDueOf(acting)
  /\ due'[acting] >= now
  /\ acting' = NoEntity
  /\ UNCHANGED now

(* An effect rewrites one entity's remaining delay.                        *)
Reschedule(e) ==
  /\ OnlyDueOf(e)
  /\ UNCHANGED <<now, acting>>

ClockNext ==
  \/ Restart
  \/ \E e \in Entity : Jump(e)
  \/ Settle
  \/ \E e \in Entity : Reschedule(e)

ClockSpec == ClockInit /\ [][ClockNext]_clockVars
=============================================================================
