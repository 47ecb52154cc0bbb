--------------------------- MODULE MCTurnTimeline ---------------------------
(* The turn timeline for TLC, in two instances that never meet: three      *)
(* entities whose delays go from -1, which the scheduler must refuse, to 2,*)
(* with every operation; and the driver of TurnLoop, two of whose three    *)
(* entities may be due at once.                                            *)
EXTENDS TurnTimeline

MCDelays == {-1, 1, 2}
MCRecharges == {0, 1, 3}

VARIABLES family, lOrder, lSourceZero, lSlotted, lDelay, lPhase, lActor

loopVars == <<lOrder, lSourceZero, lSlotted, lDelay, lPhase, lActor>>

Loop == INSTANCE TurnLoop WITH
  Slotless <- {}, Delays <- {0, 2}, Recharges <- {1, 3},
  order <- lOrder, sourceZero <- lSourceZero, slotted <- lSlotted,
  delay <- lDelay, phase <- lPhase, actor <- lActor

LoopAsleep ==
  /\ lOrder = {} /\ lSlotted = Entity
  /\ lDelay = [e \in Entity |-> 0] /\ lSourceZero = lDelay
  /\ lPhase = "absent" /\ lActor = NoEntity

TimelineAsleep ==
  /\ OrderInit({1}) /\ \A e \in Entity : sourceZero[e] = 1
  /\ elapsed = 0 /\ turnIndex = 0

MCInit ==
  \/ family = "timeline" /\ Init /\ LoopAsleep
  \/ family = "loop" /\ Loop!OrderInit({0, 2}) /\ TimelineAsleep

MCNext ==
  /\ UNCHANGED family
  /\ \/ family = "timeline" /\ Next /\ UNCHANGED loopVars
     \/ family = "loop" /\ Loop!LoopNext /\ UNCHANGED vars

MCSpec ==
  /\ MCInit /\ [][MCNext]_<<family, vars, loopVars>>
  /\ WF_loopVars(family = "loop" /\ Loop!Start)
  /\ WF_loopVars(family = "loop" /\ Loop!Select)
  /\ WF_loopVars(family = "loop" /\ Loop!Finish)

(* Nobody starves under the driver, whatever the recharges of the others.  *)
LoopEveryoneActs == family = "loop" => Loop!EveryoneActs
=============================================================================
