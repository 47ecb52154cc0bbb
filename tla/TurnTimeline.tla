---------------------------- MODULE TurnTimeline ----------------------------
(***************************************************************************)
(* The turn timeline of battle_runtime/turns.py: the action list of        *)
(* TurnOrder with the elapsed action delay and the turn index.  FixPoint   *)
(* values are plain integers here: the saturation and rounding of the      *)
(* fixed-point format are not part of this module.                         *)
(***************************************************************************)
EXTENDS TurnOrder

CONSTANTS Delays,    \* remaining delays an installer or an effect writes
          Recharges, \* delays a completion boundary supplies
          MaxTurns   \* bound on turn_index

ASSUME DelaysAssumption ==
  Delays \subseteq Int /\ Recharges \subseteq Nat /\ MaxTurns \in Nat

VARIABLES elapsed,    \* elapsed_action_delay_raw
          turnIndex   \* turn_index

vars == <<order, sourceZero, slotted, delay, phase, actor, elapsed, turnIndex>>

Init ==
  /\ OrderInit(Delays)
  /\ elapsed = 0
  /\ turnIndex = 0

InitializeTurnTimeline ==
  /\ \E R \in ListOrders : Initialize(R)
  /\ elapsed' = 0
  /\ turnIndex' = 0

(* Mutant: the selected delay is read after the delays were lowered.       *)
AdvanceReadsLate(e) ==
  /\ turnIndex < MaxTurns
  /\ Advance(e)
  /\ elapsed' = elapsed + delay'[e]
  /\ turnIndex' = turnIndex + 1

AdvanceToNextActor(e) ==
  /\ turnIndex < MaxTurns
  /\ Advance(e)
  /\ elapsed' = elapsed + delay[e]
  /\ turnIndex' = turnIndex + 1

AdvanceRaises(e, u) ==
  /\ AdvanceFails(e, u)
  /\ UNCHANGED <<elapsed, turnIndex>>

AcknowledgeActionCompletion(d) ==
  /\ Complete(d)
  /\ UNCHANGED <<elapsed, turnIndex>>

ModifyDelay(e, d) ==
  /\ SetDelay(e, d)
  /\ UNCHANGED <<elapsed, turnIndex>>

StackPropertyOnDelay(e) ==
  /\ StackOnDelay(e)
  /\ UNCHANGED <<elapsed, turnIndex>>

Next ==
  \/ InitializeTurnTimeline
  \/ \E e \in Entity : AdvanceToNextActor(e)
  \/ \E e, u \in Entity : AdvanceRaises(e, u)
  \/ \E d \in Recharges : AcknowledgeActionCompletion(d)
  \/ \E e \in Entity, d \in Delays : ModifyDelay(e, d)
  \/ \E e \in Entity : StackPropertyOnDelay(e)

Spec == Init /\ [][Next]_vars

-----------------------------------------------------------------------------
(* The absolute-time view: an entity is due when its delay has run out.    *)
due == [e \in Entity |-> elapsed + delay[e]]
acting == IF phase = "active" THEN actor ELSE NoEntity

Clock == INSTANCE ActionClock WITH now <- elapsed

(* Every state of the timeline is well formed: the list is a total order   *)
(* of the participants once it exists, and an entity acts only in phases   *)
(* that have a current actor (turns.py _timeline's validation).            *)
TypeOK ==
  /\ OrderTypeOK
  /\ elapsed \in Int
  /\ turnIndex \in Nat

(* Elapsed action delay never becomes negative, the condition _timeline    *)
(* insists on each time the timeline is read: it is the sum of the delays  *)
(* selected, and a negative delay stops the advance before it is added.    *)
ElapsedValid == elapsed >= 0

(* The runtime implements the absolute-time scheduler: lowering everybody's*)
(* delay by the selected one moves nobody's due time, and the entity that  *)
(* acts is one that is due first.  Claimed of the steps taken while every  *)
(* entry has a slot 0: without one an advance can raise half-way.          *)
ImplementsActionClock ==
  /\ Clock!ClockInit
  /\ [][slotted = Entity => [Clock!ClockNext]_(Clock!clockVars)]_vars

(* Nobody overtakes: two entities change places in the acting order only   *)
(* when the due time of one of them was changed, or a new list was made.   *)
NoOvertaking ==
  [][phase # "absent" /\ phase' # "ready" =>
       \A e, f \in Entity :
         (due[e] = due'[e] /\ due[f] = due'[f] /\ Sooner(e, f)) => Sooner(e, f)']_vars

(* An advance that raises half-way through its writes leaves everybody's   *)
(* place in the acting order as it was: the entities already lowered are   *)
(* exactly those that stood before the one it raised at.                   *)
FailureKeepsActingOrder ==
  [][(\E e, u \in Entity : AdvanceRaises(e, u)) =>
       \A e, f \in Entity : Sooner(e, f) => Sooner(e, f)']_vars
=============================================================================
