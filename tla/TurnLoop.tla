------------------------------ MODULE TurnLoop ------------------------------
(***************************************************************************)
(* A driver that plays ordinary turns and nothing else: it initializes the *)
(* timeline once and then alternates advance_to_next_actor and             *)
(* acknowledge_action_completion, as the turn tests of the repository do.  *)
(* The counters are left out, so that the infinite behaviour is finite     *)
(* state and the progress of the schedule can be checked.                  *)
(***************************************************************************)
EXTENDS TurnOrder

CONSTANTS Delays,    \* the delays the entries are installed with, naturals
          Recharges  \* the delays completion boundaries supply, naturals

Start == phase = "absent" /\ \E R \in ListOrders : Initialize(R)
Select == \E e \in Entity : Advance(e)
Finish == \E d \in Recharges : Complete(d)

LoopNext == Start \/ Select \/ Finish

(* The driver never stops calling: whichever call is legal is made.        *)
LoopFairness ==
  /\ WF_orderVars(Start)
  /\ WF_orderVars(Select)
  /\ WF_orderVars(Finish)

LoopSpec == OrderInit(Delays) /\ [][LoopNext]_orderVars /\ LoopFairness

-----------------------------------------------------------------------------
(* Nobody starves: every participant gets turns for ever, whatever the     *)
(* recharges of the others, as long as no recharge is zero.  (With a zero  *)
(* recharge, which acknowledge_action_completion accepts, an actor keeps   *)
(* its place at the head of the list.)                                     *)
EveryoneActs ==
  \A e \in Entity : []<>(phase = "active" /\ actor = e)

(* The list kept between calls is sorted by remaining delay except for the *)
(* entity that acted last, so that its ties are ties of the next sort.     *)
ListSortedButActor ==
  phase \in {"active", "settled"} =>
    \A e, f \in Entity \ {actor} : <<e, f>> \in order => delay[e] <= delay[f]
=============================================================================
