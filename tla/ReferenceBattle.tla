-------------------------- MODULE ReferenceBattle --------------------------
(***************************************************************************)
(* The reference engine of game_data/reference_execution.py: the immutable *)
(* ReferenceBattleState, the operations SemanticExecutor commits on it and *)
(* the scheduler boundary that ends an ordinary turn.  An entrypoint that  *)
(* raises leaves the caller with the state it had, so an action is an      *)
(* operation that succeeds on all of its targets.  Callers also edit the   *)
(* immutable records directly: tasks, locks, shields, kills, recoveries.   *)
(***************************************************************************)
EXTENDS ReferenceScheduler, ReferenceSurvival, ReferenceTargets, Sequences

CONSTANTS Ordinary,    \* ordinary_action_eligible
          Barred,      \* the units that have a toughness bar
          Task,        \* ids of action tasks
          MaxPoints,   \* maximum of each team's skill points
          Alias,       \* the aliases operations use
          Amounts,     \* of damage, heals and shields
          Stances,     \* StanceValues of damage requests
          Gains,       \* skill-point contributions, of either sign
          Recharges,   \* ActionDelayDistance / speed
          Delays,      \* first remaining delays
          Shifts,      \* arguments of action-delay operations
          MaxElapsed, MaxShield, MaxQueue, MaxShift  \* bounds of the model

ASSUME BattleAssumption ==
  /\ Ordinary \subseteq Entity /\ Barred \subseteq Entity
  /\ DOMAIN Team = Entity
  /\ MaxPoints \in Nat /\ MaxElapsed \in Nat
  /\ Amounts \subseteq Nat /\ Stances \subseteq Nat /\ Delays \subseteq Nat
  /\ Gains \subseteq Int /\ Recharges \subseteq Int /\ Shifts \subseteq Int

VARIABLES unit,      \* survival record of each unit
          bar,       \* toughness record of each barred unit
          paid,      \* break damage dealt since the bar was whole (history)
          weak,      \* the units weak to the element of the attacks
          points,    \* skill points of each team
          task,      \* state and owner of each action task
          shift,     \* action_delays: behaviour-level delay of each unit
          queue      \* pending_inserted_actions: their owners

bodyVars == <<unit, bar, paid, weak>>
sideVars == <<points, shift, queue>>
battleVars == <<timelineVars, bodyVars, task, sideVars>>

Teams == {"light", "dark", "neutral"}
TaskState == {"NONE", "READY", "EXECUTING", "SUCCESS"}

Living == {e \in Entity : unit[e].alive}

(* ordinary_eligible_entity_ids                                            *)
Eligible == listed \cap Ordinary \cap Living

BattleTypeOK ==
  /\ TimelineTypeOK
  /\ unit \in [Entity -> Unit]
  /\ \A e \in Entity : unit[e].alive <=> unit[e].hp > 0
  /\ bar \in [Barred -> Bar]
  /\ paid \in [Barred -> Nat]
  /\ points \in [Teams -> 0 .. MaxPoints]
  /\ task \in [Task -> [state : TaskState, owner : Entity \cup {NoEntity}]]
  /\ shift \in [Entity -> Int]
  /\ queue \in Seq(Entity)

Healthy(locked) == [hp |-> MaxHP, shield |-> 0, locked |-> locked, alive |-> TRUE]
Whole == [left |-> MaxToughness, broken |-> FALSE]

BattleInit ==
  /\ TimelineInit(Entity, Delays)
  /\ unit = [e \in Entity |-> Healthy(FALSE)]
  /\ bar = [e \in Barred |-> Whole]
  /\ paid = [e \in Barred |-> 0]
  /\ weak \in SUBSET Barred
  /\ points = [g \in Teams |-> 0]
  /\ task = [t \in Task |-> [state |-> "NONE", owner |-> NoEntity]]
  /\ shift = [e \in Entity |-> 0]
  /\ queue = <<>>

-----------------------------------------------------------------------------
(* A direct hit of x, then stance s on what the hit left alive.            *)
Struck(e, s, u) == e \in weak /\ u.alive

HitBar(e, x, s) ==
  IF Struck(e, s, Absorb(unit[e], x)) THEN Reduce(bar[e], s) ELSE bar[e]

BreaksBar(e, x, s) ==
  Struck(e, s, Absorb(unit[e], x)) /\ Breaks(bar[e], s)

(* _execute_damage without a StanceValue.                                  *)
DamagePlain(T, x) ==
  /\ unit' = [e \in Entity |-> IF e \in T THEN Absorb(unit[e], x) ELSE unit[e]]
  /\ UNCHANGED <<bar, paid, weak, timelineVars, task, sideVars>>

(* _execute_damage with a StanceValue: a target without a bar is an error. *)
DamageStance(T, x, s) ==
  /\ T \subseteq Barred
  /\ unit' = [e \in Entity |->
                IF e \notin T THEN unit[e]
                ELSE IF BreaksBar(e, x, s)
                     THEN Absorb(Absorb(unit[e], x), BreakDamage)
                     ELSE Absorb(unit[e], x)]
  /\ bar' = [e \in Barred |-> IF e \in T THEN HitBar(e, x, s) ELSE bar[e]]
  /\ paid' = [e \in Barred |-> IF e \in T /\ BreaksBar(e, x, s)
                               THEN paid[e] + 1 ELSE paid[e]]
  /\ UNCHANGED <<weak, timelineVars, task, sideVars>>

HealUnits(T, x) ==
  /\ unit' = [e \in Entity |-> IF e \in T THEN Heal(unit[e], x) ELSE unit[e]]
  /\ UNCHANGED <<bar, paid, weak, timelineVars, task, sideVars>>

AttachWeakness(T) ==
  /\ weak' = weak \cup T
  /\ UNCHANGED <<unit, bar, paid, timelineVars, task, sideVars>>

(* add_positive on the shared holder of a team that a target belongs to.   *)
Gain(T, g, d) ==
  IF d > 0 /\ \E e \in T : Team[e] = g THEN Least(MaxPoints, points[g] + d)
                                       ELSE points[g]

ModifyTeamSP(T, d) ==
  /\ points' = [g \in Teams |-> Gain(T, g, d)]
  /\ UNCHANGED <<shift, queue, timelineVars, bodyVars, task>>

-----------------------------------------------------------------------------
(* Set-, Modify- and ResetActionDelay: only the addition is clamped.       *)
SetShift(T, x) ==
  /\ T # {}
  /\ shift' = [e \in Entity |-> IF e \in T THEN x ELSE shift[e]]
  /\ UNCHANGED <<points, queue, timelineVars, bodyVars, task>>

AddShift(T, x) ==
  /\ T # {}
  /\ shift' = [e \in Entity |->
                 IF e \in T THEN IF shift[e] + x < 0 THEN 0 ELSE shift[e] + x
                 ELSE shift[e]]
  /\ \A e \in Entity : shift'[e] <= MaxShift
  /\ UNCHANGED <<points, queue, timelineVars, bodyVars, task>>

(* TurnInsertAbility: one owner, in source order, whatever the priority.   *)
InsertAction(e) ==
  /\ Len(queue) < MaxQueue
  /\ queue' = Append(queue, e)
  /\ UNCHANGED <<points, shift, timelineVars, bodyVars, task>>

-----------------------------------------------------------------------------
(* A caller creates the action task of a unit, or reuses a finished one.   *)
CreateTask(t, e) ==
  /\ task[t].state \in {"NONE", "SUCCESS"}
  /\ task' = [task EXCEPT ![t] = [state |-> "READY", owner |-> e]]
  /\ UNCHANGED <<timelineVars, bodyVars, sideVars>>

StartMarker(t) ==
  /\ task[t].state = "READY"
  /\ task' = [task EXCEPT ![t].state = "EXECUTING"]
  /\ UNCHANGED <<timelineVars, bodyVars, sideVars>>

CompletionMarker(t) ==
  /\ task[t].state = "EXECUTING"
  /\ task' = [task EXCEPT ![t].state = "SUCCESS"]
  /\ UNCHANGED <<timelineVars, bodyVars, sideVars>>

(* The first actor of the timeline.                                        *)
BeginTurns ==
  /\ SelectInitial(Eligible)
  /\ UNCHANGED <<task, bodyVars, sideVars>>

(* advance_ordinary_after_completed_action for task t.                     *)
AdvanceTurn(t, r) ==
  /\ task[t].state = "SUCCESS"
  /\ CompleteAction(task[t].owner, r, Eligible)
  /\ elapsed' <= MaxElapsed
  /\ UNCHANGED <<task, bodyVars, sideVars>>

-----------------------------------------------------------------------------
(* Direct edits of a record: apply_shield, set_lock_hp, force_kill,        *)
(* recover_toughness.                                                      *)
Edit(e, u) ==
  /\ unit' = [unit EXCEPT ![e] = u]
  /\ UNCHANGED <<bar, paid, weak, timelineVars, task, sideVars>>

Shielded(e, x) ==
  unit[e].shield + x <= MaxShield /\ Edit(e, ApplyShield(unit[e], x))
SetLock(e, locked) == Edit(e, [unit[e] EXCEPT !.locked = locked])
Killed(e) == Edit(e, ForceKill(unit[e]))

Recover(e) ==
  /\ bar' = [bar EXCEPT ![e] = Recovered(bar[e])]
  /\ paid' = [paid EXCEPT ![e] = 0]
  /\ UNCHANGED <<unit, weak, timelineVars, task, sideVars>>

-----------------------------------------------------------------------------
OnTargets(T) ==
  \/ \E x \in Amounts : HealUnits(T, x) \/ DamagePlain(T, x)
  \/ \E x \in Amounts, s \in Stances : DamageStance(T, x, s)
  \/ AttachWeakness(T)
  \/ \E d \in Gains : ModifyTeamSP(T, d)
  \/ \E x \in Shifts : SetShift(T, x) \/ AddShift(T, x)

(* An operation on the units its alias names, or the child operation of a  *)
(* Retarget on the first n of the neighbours.                              *)
Targets ==
  {Resolve(alias, c, t, Living) : alias \in Alias, c \in Entity, t \in Entity}
  \cup {Prefix(Adjacent(c, Living), n) : c \in Entity, n \in 1 .. 2}

Operation ==
  \/ \E T \in Targets : OnTargets(T)
  \/ \E e \in Entity : InsertAction(e)

Turn ==
  \/ BeginTurns
  \/ \E t \in Task, r \in Recharges : AdvanceTurn(t, r)
  \/ \E t \in Task, e \in Entity : CreateTask(t, e)
  \/ \E t \in Task : StartMarker(t) \/ CompletionMarker(t)

CallerEdit ==
  \/ \E e \in Entity :
       \/ \E x \in Amounts : Shielded(e, x)
       \/ \E locked \in BOOLEAN : SetLock(e, locked)
       \/ Killed(e)
  \/ \E e \in Barred : Recover(e)

BattleNext == Operation \/ Turn \/ CallerEdit

BattleSpec == BattleInit /\ [][BattleNext]_battleVars

-----------------------------------------------------------------------------
(* No living ordinary unit is ever missing from the action list, although  *)
(* every turn throws the ineligible off the list for good: whoever was     *)
(* thrown off can never come back to life.                                 *)
LivingAreScheduled == \A e \in Ordinary : unit[e].alive => e \in listed

(* The remaining delays, lowered by every turn and replaced for the actor, *)
(* are absolute due times: the living act in the order they are due, and a *)
(* unit that died in its own turn keeps the turn for ever.                 *)
Clock == INSTANCE LivingClock WITH
  now <- elapsed,
  due <- [e \in Entity |-> IF e \in listed THEN elapsed + delay[e] ELSE 0],
  acting <- current,
  living <- Living \cap Ordinary

ImplementsLivingClock == Clock!ClockSpec

(* Break damage is dealt exactly once while a bar is broken: further hits  *)
(* deal none until the bar is recovered, whoever hits and however often.   *)
BreakPaidOnce == \A e \in Barred : paid[e] = (IF bar[e].broken THEN 1 ELSE 0)

(* One operation gives a team its contribution once, however many of its   *)
(* targets share the holder, and never takes points away.                  *)
OneGainPerTeam ==
  [][\A g \in Teams :
       /\ points'[g] >= points[g]
       /\ \E d \in Gains \cup {0} : points'[g] <= points[g] + d]_battleVars
=============================================================================
