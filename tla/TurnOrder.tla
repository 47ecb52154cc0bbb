------------------------------ MODULE TurnOrder ------------------------------
(***************************************************************************)
(* The ordinary action list of battle_runtime/turns.py without its         *)
(* counters.  The remaining delay of an entity is the materialized value   *)
(* of its property-38 entry; the entries are of kind 1 (source zero), the  *)
(* kind every installer of property 38 uses, so a rebuild copies slot 0    *)
(* into the materialized value.                                            *)
(*                                                                         *)
(* The list of entity ids is represented by the strict total order of its  *)
(* positions: <<e, f>> \in order iff e stands before f.  A stable sort by  *)
(* delay is then the lexicographic order of delay and old position.        *)
(***************************************************************************)
EXTENDS Integers

CONSTANTS Entity,    \* the participants of the timeline
          NoEntity,  \* current_actor_runtime_id is None
          Slotless   \* entities installed with an entry that has no slot 0

ASSUME NoEntityAssumption == NoEntity \notin Entity

VARIABLES order,       \* the action list, as the order of its positions
          sourceZero,  \* value of slot 0 of each delay entry
          slotted,     \* the entities whose delay entry has a slot 0
          delay,       \* materialized value of each delay entry
          phase,       \* "absent" until initialize_turn_timeline ran
          actor        \* current_actor_runtime_id

entryVars == <<sourceZero, slotted, delay>>
orderVars == <<order, sourceZero, slotted, delay, phase, actor>>

Phase == {"absent", "ready", "active", "settled"}

IsListOrder(R) ==
  /\ R \subseteq Entity \X Entity
  /\ \A e, f \in Entity : <<e, f>> \in R => <<f, e>> \notin R
  /\ \A e, f \in Entity : e # f => <<e, f>> \in R \/ <<f, e>> \in R
  /\ \A e, f, g \in Entity : <<e, f>> \in R /\ <<f, g>> \in R => <<e, g>> \in R

ListOrders == {R \in SUBSET (Entity \X Entity) : IsListOrder(R)}

(* _compare_entities under Python's stable sort.                           *)
Sooner(e, f) ==
  \/ delay[e] < delay[f]
  \/ delay[e] = delay[f] /\ <<e, f>> \in order

(* Mutant: ties by the reverse of the stored order.                        *)
SortTiesReversed ==
  {p \in Entity \X Entity :
     \/ delay[p[1]] < delay[p[2]]
     \/ delay[p[1]] = delay[p[2]] /\ <<p[2], p[1]>> \in order}

SortedOrder == {p \in Entity \X Entity : Sooner(p[1], p[2])}

First(e) == \A f \in Entity \ {e} : Sooner(e, f)

(* _delay_entry refuses a negative remaining delay.                        *)
DelaysValid == \A e \in Entity : delay[e] >= 0

RemainingNotLowered(f, d) == delay[f]  \* mutant

(* What is left of f's delay after d has passed, clamped at zero.          *)
Remaining(f, d) == IF delay[f] - d < 0 THEN 0 ELSE delay[f] - d

-----------------------------------------------------------------------------
(* Before the timeline exists the entries were either installed with slot 0*)
(* already holding the delay, or created by ensure_property_entry, which   *)
(* leaves 0 in slot 0 and the fallback in the materialized value.          *)
OrderInit(D) ==
  /\ order = {}
  /\ delay \in [Entity -> D]
  /\ sourceZero \in {s \in [Entity -> D \cup {0}] :
                       \A e \in Entity : s[e] \in {0, delay[e]}}
  /\ slotted = Entity \ Slotless
  /\ phase = "absent"
  /\ actor = NoEntity

(* initialize_turn_timeline, with the participants in the order R.         *)
Initialize(R) ==
  /\ DelaysValid
  /\ order' = R
  /\ phase' = "ready"
  /\ actor' = NoEntity
  /\ UNCHANGED entryVars

(* advance_to_next_actor selecting e.                                      *)
Advance(e) ==
  /\ phase \in {"ready", "settled"}
  /\ DelaysValid
  /\ First(e)
  /\ slotted = Entity
  /\ delay' = [f \in Entity |-> Remaining(f, delay[e])]
  /\ sourceZero' = delay'
  /\ order' = SortedOrder
  /\ phase' = "active"
  /\ actor' = e
  /\ UNCHANGED slotted

(* Mutant: the loop runs over the stored list instead of the sorted one.   *)
AdvanceFailsUnsorted(e, u) ==
  /\ phase \in {"ready", "settled"}
  /\ DelaysValid
  /\ First(e)
  /\ u \notin slotted
  /\ \A f \in Entity \ slotted : f # u => <<u, f>> \in order
  /\ delay' = [f \in Entity |->
                 IF <<f, u>> \in order THEN Remaining(f, delay[e]) ELSE delay[f]]
  /\ sourceZero' = [f \in Entity |->
                      IF <<f, u>> \in order THEN delay'[f] ELSE sourceZero[f]]
  /\ UNCHANGED <<order, slotted, phase, actor>>

(* advance_to_next_actor raising at u, the first entity in sorted order    *)
(* whose entry has no slot 0: the entities before u have been written, and *)
(* the timeline record has not.                                            *)
AdvanceFails(e, u) ==
  /\ phase \in {"ready", "settled"}
  /\ DelaysValid
  /\ First(e)
  /\ u \notin slotted
  /\ \A f \in Entity \ slotted : f # u => Sooner(u, f)
  /\ delay' = [f \in Entity |->
                 IF f # u /\ Sooner(f, u) THEN Remaining(f, delay[e])
                                          ELSE delay[f]]
  /\ sourceZero' = [f \in Entity |->
                      IF f # u /\ Sooner(f, u) THEN delay'[f]
                                               ELSE sourceZero[f]]
  /\ UNCHANGED <<order, slotted, phase, actor>>

(* acknowledge_action_completion by the current actor.                     *)
Complete(d) ==
  /\ phase = "active"
  /\ d >= 0
  /\ actor \in slotted
  /\ delay' = [delay EXCEPT ![actor] = d]
  /\ sourceZero' = [sourceZero EXCEPT ![actor] = d]
  /\ phase' = "settled"
  /\ UNCHANGED <<order, slotted, actor>>

(* A battle effect writes property 38 through the generic source-zero path.*)
SetDelay(e, d) ==
  /\ e \in slotted
  /\ delay' = [delay EXCEPT ![e] = d]
  /\ sourceZero' = [sourceZero EXCEPT ![e] = d]
  /\ UNCHANGED <<order, slotted, phase, actor>>

(* A modifier contribution to property 38 is allocated: slot 0 is reserved *)
(* if it was missing, and the rebuild shows slot 0, whatever was           *)
(* materialized before.                                                    *)
StackOnDelay(e) ==
  /\ sourceZero' = IF e \in slotted THEN sourceZero
                                    ELSE [sourceZero EXCEPT ![e] = 0]
  /\ slotted' = slotted \cup {e}
  /\ delay' = [delay EXCEPT ![e] = sourceZero'[e]]
  /\ UNCHANGED <<order, phase, actor>>

-----------------------------------------------------------------------------
OrderTypeOK ==
  /\ order \subseteq Entity \X Entity
  /\ phase # "absent" => IsListOrder(order)
  /\ sourceZero \in [Entity -> Int]
  /\ delay \in [Entity -> Int]
  /\ slotted \subseteq Entity
  /\ phase \in Phase
  /\ actor \in Entity \cup {NoEntity}
  /\ phase \in {"active", "settled"} => actor \in Entity /\ slotted = Entity
=============================================================================
