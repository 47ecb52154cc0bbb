--------------------------- MODULE ModifierEffects ---------------------------
(***************************************************************************)
(* Modifier containers, property entries and StackProperty tasks together. *)
(* A task is created with a frozen copy of its modifier and executed       *)
(* later; contributions are recorded under the modifier's ref, and only an *)
(* explicit pop withdraws them: destroying and sweeping leave them alone.  *)
(***************************************************************************)
EXTENDS ModifierLifecycle, Sequences, FiniteSets

CONSTANTS Cell, NoCell, Special, KindOf, BaseOf, Values, TargetLists,
          MaxSlot, MaxRecords, MaxShown      \* of PropertyContributions

VARIABLES active, value, last, shown, records, held,
          executors  \* StackProperty executors created and not yet executed

Ref == Names \X Entity \X Ordinals

Prop == INSTANCE PropertyContributions WITH Owner <- Ref

propVars == <<active, value, last, shown, records, held>>
effectVars == <<mods, active, value, last, shown, records, held, executors>>

RefOf(e, o) == <<mods[e][o].key.name, e, o>>
PresentRefs == {RefOf(r[1], r[2]) : r \in {q \in Entity \X Ordinals :
                                             Present(q[1], q[2])}}
LiveRefs == {RefOf(r[1], r[2]) : r \in {q \in Entity \X Ordinals :
                                          Live(q[1], q[2])}}

EffectTypeOK ==
  /\ TypeOK
  /\ Prop!TypeOK
  /\ executors \subseteq [ref : Ref, state : 0 .. 2]

EffectInit == Init /\ Prop!Init /\ executors = {}

Add(e) == TryAdd(e) /\ UNCHANGED <<propVars, executors>>

(* stack_property_executor_init freezes the modifier as it is now.         *)
ExecutorInit(e, o) ==
  /\ Present(e, o)
  /\ executors' = executors \cup {[ref |-> RefOf(e, o), state |-> mods[e][o].state]}
  /\ UNCHANGED <<mods, propVars>>

ExecuteUnchecked(x, v, targets) ==  \* mutant
  /\ x \in executors
  /\ executors' = executors \ {x}
  /\ Prop!Stack(x.ref, v, targets)
  /\ UNCHANGED mods

(* stack_property_execute asks the copy whether the modifier is past Alive.*)
Execute(x, v, targets) ==
  /\ x \in executors
  /\ executors' = executors \ {x}
  /\ IF x.state <= Alive THEN Prop!Stack(x.ref, v, targets)
                              ELSE UNCHANGED propVars
  /\ UNCHANGED mods

DestroyModifier(e, o) == Destroy(e, o) /\ UNCHANGED <<propVars, executors>>

PopContributions(e, o) ==
  /\ Present(e, o)
  /\ Prop!Pop(RefOf(e, o))
  /\ UNCHANGED <<mods, executors>>

SweepModifiers(e) == RemoveDirty(e) /\ UNCHANGED <<propVars, executors>>

(* Callers that finish a modifier's tasks before they destroy it, and      *)
(* withdraw its contributions before they sweep it.                        *)
MayDestroy(e, o) ==
  Present(e, o) /\ \A x \in executors : x.ref # RefOf(e, o)

MaySweep(e) ==
  \A o \in Ordinals :
    Present(e, o) /\ Swept(mods[e][o]) => records[RefOf(e, o)] = <<>>

(* try_add destroys the first match of a global stacking, so a careful     *)
(* caller adds one only when no task of its name is pending.               *)
MayAdd(e) ==
  \A x \in executors : StackingOf[x.ref[1]] \notin Global

Common ==
  \/ \E x \in executors, v \in Values, targets \in TargetLists :
       Execute(x, v, targets)
  \/ \E e \in Entity, o \in Ordinals : PopContributions(e, o)

CarefulNext ==
  \/ Common
  \/ \E e \in Entity :
       \/ MayAdd(e) /\ Add(e)
       \/ MaySweep(e) /\ SweepModifiers(e)
       \/ \E o \in Ordinals :
            \/ ExecutorInit(e, o)
            \/ MayDestroy(e, o) /\ DestroyModifier(e, o)

CarefulSpec == EffectInit /\ [][CarefulNext]_effectVars

-----------------------------------------------------------------------------
(* A removed or destroyed modifier cannot create a contribution: what the  *)
(* handoff requires and a test asserts for a copy that says so itself.     *)
DestroyedCannotContribute ==
  [][\A r \in Ref : Len(records'[r]) > Len(records[r]) => r \in LiveRefs]_effectVars

(* With careful callers, every contribution belongs to a modifier that is  *)
(* still in its list, so that a new modifier starts without any, although  *)
(* it may have been given the ref of one that is gone.                     *)
NoOrphans == \A r \in Ref : records[r] # <<>> => r \in PresentRefs
=============================================================================
