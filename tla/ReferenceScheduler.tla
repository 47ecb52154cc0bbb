------------------------- MODULE ReferenceScheduler -------------------------
(***************************************************************************)
(* The ordinary turn timeline of game_data/scheduler_semantics_reference.py*)
(* The action list is its set of members and the order of their positions: *)
(* <<e, f>> \in order iff e stands before f.  Sorting the candidates by    *)
(* delay with ties in list order is then a lexicographic order.            *)
(***************************************************************************)
EXTENDS Integers

CONSTANTS Entity,    \* the units of the battle
          NoEntity   \* current_actor_id is None

ASSUME NoEntityAssumption == NoEntity \notin Entity

VARIABLES listed,    \* the units on action_order
          order,     \* their positions
          delay,     \* remaining_delays, a function on listed
          current,   \* current_actor_id
          elapsed    \* elapsed_action_delay

timelineVars == <<listed, order, delay, current, elapsed>>

IsListOrder(R, S) ==
  /\ R \subseteq S \X S
  /\ \A e, f \in S : <<e, f>> \in R => <<f, e>> \notin R
  /\ \A e, f \in S : e # f => <<e, f>> \in R \/ <<f, e>> \in R
  /\ \A e, f, g \in S : <<e, f>> \in R /\ <<f, g>> \in R => <<e, g>> \in R

(* OrdinaryTurnTimeline as a caller first builds it.                       *)
TimelineInit(S, D) ==
  /\ listed = S
  /\ order \in {R \in SUBSET (S \X S) : IsListOrder(R, S)}
  /\ delay \in [S -> D]
  /\ current = NoEntity
  /\ elapsed = 0

(* _ordinary_candidates: the sort key of e is below that of f.             *)
Before(d, e, f) == d[e] < d[f] \/ (d[e] = d[f] /\ <<e, f>> \in order)

FirstOf(d, E, e) == \A f \in E \ {e} : Before(d, e, f)

(* Mutant: the last of the candidates leaves the list.                     *)
AdvanceLosingOne(d, E) ==
  \E e \in E : \E G \in SUBSET E :
    /\ FirstOf(d, E, e)
    /\ e \in G
    /\ \A f \in E \ G : \A g \in G : Before(d, g, f)
    /\ listed' = G
    /\ order' = {p \in G \X G : Before(d, p[1], p[2])}
    /\ delay' = [f \in G |-> d[f] - d[e]]
    /\ current' = e
    /\ elapsed' = elapsed + d[e]

(* _advance_ordinary_candidates on the delays d: only the candidates E     *)
(* stay on the list, each closer by the delay of the first.                *)
AdvanceAmong(d, E) ==
  \E e \in E :
    /\ FirstOf(d, E, e)
    /\ listed' = E
    /\ order' = {p \in E \X E : Before(d, p[1], p[2])}
    /\ delay' = [f \in E |-> d[f] - d[e]]
    /\ current' = e
    /\ elapsed' = elapsed + d[e]

(* select_initial_ordinary_actor                                           *)
SelectInitial(E) == current = NoEntity /\ AdvanceAmong(delay, E)

(* Mutant: a turn that ends at once costs the actor nothing.               *)
CompleteUnchecked(a, r, E) ==
  /\ current = a
  /\ a \in listed
  /\ AdvanceAmong([delay EXCEPT ![a] = r], E)

(* complete_ordinary_action by a, whose recharge is r.                     *)
CompleteAction(a, r, E) ==
  /\ current = a
  /\ a \in E
  /\ r > 0
  /\ AdvanceAmong([delay EXCEPT ![a] = r], E)

TimelineTypeOK ==
  /\ listed \subseteq Entity
  /\ IsListOrder(order, listed)
  /\ delay \in [listed -> Nat]
  /\ current \in listed \cup {NoEntity}
  /\ elapsed \in Nat
=============================================================================
