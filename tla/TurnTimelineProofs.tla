------------------------- MODULE TurnTimelineProofs -------------------------
(***************************************************************************)
(* Proofs about the turn timeline, for every set of entities, every set of *)
(* delays and recharges and every bound on the turns.                      *)
(***************************************************************************)
EXTENDS TurnTimeline, DataLemmas, TLAPS

(* Sorting a list by delay with ties in list order yields a list of the    *)
(* same entities: the relation of the sorted positions is a total order.   *)
LEMMA SortedIsListOrder ==
  ASSUME delay \in [Entity -> Int], IsListOrder(order)
  PROVE  IsListOrder(SortedOrder)
<1>1. \A e, f \in Entity : <<e, f>> \in SortedOrder <=> Sooner(e, f)
  BY DEF SortedOrder
<1>2. SortedOrder \subseteq Entity \X Entity
  BY DEF SortedOrder
<1>3. \A e \in Entity : delay[e] \in Int
  OBVIOUS
<1>4. \A e, f \in Entity : Sooner(e, f) => ~Sooner(f, e)
  BY <1>3 DEF Sooner, IsListOrder
<1>5. ASSUME NEW e \in Entity, NEW f \in Entity, e # f
      PROVE  Sooner(e, f) \/ Sooner(f, e)
  <2>1. <<e, f>> \in order \/ <<f, e>> \in order
    BY <1>5 DEF IsListOrder
  <2>2. delay[e] \in Int /\ delay[f] \in Int
    BY <1>3
  <2> QED
    BY <2>1, <2>2 DEF Sooner
<1>6. \A e, f, g \in Entity : Sooner(e, f) /\ Sooner(f, g) => Sooner(e, g)
  BY <1>3 DEF Sooner, IsListOrder
<1> QED
  BY <1>1, <1>2, <1>4, <1>5, <1>6 DEF IsListOrder

(* Subtracting the selected delay of a valid list keeps delays valid.      *)
LEMMA RemainingIsNatural ==
  ASSUME delay \in [Entity -> Int], NEW f \in Entity, NEW d \in Int
  PROVE  Remaining(f, d) \in Nat
BY DEF Remaining

(* The model starts well typed.                                            *)
LEMMA InitTypeOK == Init => TypeOK
<1> SUFFICES ASSUME Init PROVE TypeOK
  OBVIOUS
<1>1. delay \in [Entity -> Delays] /\ sourceZero \in [Entity -> Delays \cup {0}]
  BY DEF Init, OrderInit
<1>2. Delays \subseteq Int /\ Delays \cup {0} \subseteq Int
  BY DelaysAssumption
<1>3. delay \in [Entity -> Int]
  BY <1>1, <1>2
<1>4. sourceZero \in [Entity -> Int]
  BY <1>1, <1>2
<1> QED
  BY <1>3, <1>4 DEF Init, OrderInit, TypeOK, OrderTypeOK, Phase

(* Every operation on the timeline keeps its variables well typed.         *)
LEMMA NextTypeOK == TypeOK /\ [Next]_vars => TypeOK'
<1> SUFFICES ASSUME TypeOK, [Next]_vars PROVE TypeOK'
  OBVIOUS
<1> USE DEF TypeOK, OrderTypeOK, Phase
<1>1. CASE InitializeTurnTimeline
  <2>1. PICK R \in ListOrders : Initialize(R)
    BY <1>1 DEF InitializeTurnTimeline
  <2>2. IsListOrder(R)
    BY DEF ListOrders
  <2>3. order' = R /\ IsListOrder(order')
    BY <2>1, <2>2 DEF Initialize
  <2>4. /\ UNCHANGED <<sourceZero, slotted, delay>>
        /\ phase' = "ready" /\ actor' = NoEntity
        /\ elapsed' = 0 /\ turnIndex' = 0
    BY <1>1, <2>1 DEF InitializeTurnTimeline, Initialize, entryVars
  <2> QED
    BY <2>3, <2>4 DEF IsListOrder
<1>2. ASSUME NEW e \in Entity, AdvanceToNextActor(e) PROVE TypeOK'
  <2>1. Advance(e) /\ elapsed' = elapsed + delay[e] /\ turnIndex' = turnIndex + 1
    BY <1>2 DEF AdvanceToNextActor
  <2>2. IsListOrder(SortedOrder)
    BY <2>1, SortedIsListOrder DEF Advance
  <2>3. IsListOrder(order')
    BY <2>1, <2>2 DEF Advance
  <2>4. delay' \in [Entity -> Int]
    BY <2>1, RemainingIsNatural DEF Advance
  <2> QED
    BY <2>1, <2>3, <2>4 DEF Advance, IsListOrder
<1>3. ASSUME NEW e \in Entity, NEW u \in Entity, AdvanceRaises(e, u) PROVE TypeOK'
  <2>1. AdvanceFails(e, u) /\ UNCHANGED <<elapsed, turnIndex>>
    BY <1>3 DEF AdvanceRaises
  <2>2. \A f \in Entity : Remaining(f, delay[e]) \in Int
    BY RemainingIsNatural
  <2>3. delay' \in [Entity -> Int] /\ sourceZero' \in [Entity -> Int]
    BY <2>1, <2>2 DEF AdvanceFails
  <2> QED
    BY <2>1, <2>3 DEF AdvanceFails, IsListOrder
<1>4. ASSUME NEW d \in Recharges, AcknowledgeActionCompletion(d) PROVE TypeOK'
  <2>1. d \in Int
    BY DelaysAssumption
  <2> QED
    BY <1>4, <2>1 DEF AcknowledgeActionCompletion, Complete, IsListOrder
<1>5. ASSUME NEW e \in Entity, NEW d \in Delays, ModifyDelay(e, d) PROVE TypeOK'
  <2>1. d \in Int
    BY DelaysAssumption
  <2> QED
    BY <1>5, <2>1 DEF ModifyDelay, SetDelay, IsListOrder
<1>6. ASSUME NEW e \in Entity, StackPropertyOnDelay(e) PROVE TypeOK'
  <2>1. StackOnDelay(e) /\ UNCHANGED <<elapsed, turnIndex>>
    BY <1>6 DEF StackPropertyOnDelay
  <2>2. sourceZero' \in [Entity -> Int]
    BY <2>1 DEF StackOnDelay
  <2>3. delay' \in [Entity -> Int]
    BY <2>1, <2>2 DEF StackOnDelay
  <2> QED
    BY <2>1, <2>2, <2>3 DEF StackOnDelay, IsListOrder
<1>7. CASE UNCHANGED vars
  BY <1>7 DEF vars, IsListOrder
<1> QED
  BY <1>1, <1>2, <1>3, <1>4, <1>5, <1>6, <1>7 DEF Next

(* The timeline record is always one _timeline accepts.                    *)
THEOREM TypeCorrect == Spec => []TypeOK
BY InitTypeOK, NextTypeOK, PTL DEF Spec

-----------------------------------------------------------------------------
(* The elapsed action delay never becomes negative.                        *)
THEOREM ElapsedSafe == Spec => []ElapsedValid
<1>1. Init => ElapsedValid
  BY DEF Init, ElapsedValid
<1>2. TypeOK /\ ElapsedValid /\ [Next]_vars => ElapsedValid'
  <2> SUFFICES ASSUME TypeOK, ElapsedValid, [Next]_vars PROVE ElapsedValid'
    OBVIOUS
  <2>1. ASSUME NEW e \in Entity, AdvanceToNextActor(e) PROVE ElapsedValid'
    <3>1. delay[e] \in Int /\ delay[e] >= 0
      BY <2>1 DEF AdvanceToNextActor, Advance, DelaysValid, TypeOK, OrderTypeOK
    <3> QED
      BY <2>1, <3>1 DEF AdvanceToNextActor, ElapsedValid, TypeOK
  <2>2. CASE InitializeTurnTimeline
    BY <2>2 DEF InitializeTurnTimeline, ElapsedValid
  <2>3. ASSUME UNCHANGED elapsed PROVE ElapsedValid'
    BY <2>3 DEF ElapsedValid
  <2> QED
    BY <2>1, <2>2, <2>3 DEF Next, vars, AdvanceRaises,
       AcknowledgeActionCompletion, ModifyDelay, StackPropertyOnDelay
<1> QED
  BY <1>1, <1>2, TypeCorrect, PTL DEF Spec

-----------------------------------------------------------------------------
(* Every delay entry has its slot 0, so no advance raises half-way.        *)
AllSlotted == slotted = Entity

(* No operation takes the slot 0 of a delay entry away.                    *)
LEMMA SlotsStay ==
  ASSUME Slotless = {}
  PROVE  Spec => []AllSlotted
<1>1. Init => AllSlotted
  BY DEF Init, OrderInit, AllSlotted
<1>2. AllSlotted /\ [Next]_vars => AllSlotted'
  BY DEF AllSlotted, Next, vars, InitializeTurnTimeline, Initialize, entryVars,
         AdvanceToNextActor, Advance, AdvanceRaises, AdvanceFails,
         AcknowledgeActionCompletion, Complete, ModifyDelay, SetDelay,
         StackPropertyOnDelay, StackOnDelay
<1> QED
  BY <1>1, <1>2, PTL DEF Spec

(* The first entity in the acting order has the least remaining delay.     *)
LEMMA FirstIsLeast ==
  ASSUME delay \in [Entity -> Int], NEW e \in Entity, First(e), NEW f \in Entity
  PROVE  delay[e] <= delay[f]
<1>1. delay[e] \in Int /\ delay[f] \in Int
  OBVIOUS
<1>2. CASE f = e
  BY <1>1, <1>2
<1>3. CASE f # e
  <2>1. Sooner(e, f)
    BY <1>3 DEF First
  <2> QED
    BY <1>1, <2>1 DEF Sooner
<1> QED
  BY <1>2, <1>3

(* While every delay entry has its slot 0, the relative delays of the code *)
(* implement the clock of absolute due times.                              *)
THEOREM TimelineImplementsClock == Spec => ImplementsActionClock
<1> USE DEF Clock!ClockInit, Clock!clockVars, due, acting
<1>1. Init => Clock!ClockInit
  <2> SUFFICES ASSUME Init PROVE Clock!ClockInit
    OBVIOUS
  <2>1. elapsed = 0 /\ phase = "absent" /\ delay \in [Entity -> Int]
    BY InitTypeOK DEF Init, OrderInit, TypeOK, OrderTypeOK
  <2> QED
    BY <2>1
<1>2. TypeOK /\ AllSlotted /\ [Next]_vars
        => [Clock!ClockNext]_(Clock!clockVars)
  <2> SUFFICES ASSUME TypeOK, AllSlotted, [Next]_vars
               PROVE  Clock!ClockNext \/ UNCHANGED <<elapsed, due, acting>>
    OBVIOUS
  <2> USE NoEntityAssumption DEF TypeOK, OrderTypeOK, AllSlotted
  <2>0. \A e \in Entity : delay[e] \in Int
    OBVIOUS
  <2>1. CASE InitializeTurnTimeline
    <3>1. elapsed' = 0 /\ phase' = "ready" /\ delay' = delay
      BY <2>1 DEF InitializeTurnTimeline, Initialize, entryVars
    <3>2. due' = [e \in Entity |-> due[e] - elapsed]
      BY <2>0, <3>1
    <3> QED
      BY <3>1, <3>2 DEF Clock!ClockNext, Clock!Restart
  <2>2. ASSUME NEW e \in Entity, AdvanceToNextActor(e)
        PROVE  Clock!ClockNext
    <3>1. /\ phase \in {"ready", "settled"} /\ First(e) /\ delay[e] >= 0
          /\ delay' = [f \in Entity |-> Remaining(f, delay[e])]
          /\ phase' = "active" /\ actor' = e
          /\ elapsed' = elapsed + delay[e]
      BY <2>2 DEF AdvanceToNextActor, Advance, DelaysValid
    <3>2. \A f \in Entity : delay[e] <= delay[f]
      BY <3>1, FirstIsLeast
    <3>3. \A f \in Entity : delay'[f] = delay[f] - delay[e]
      BY <2>0, <3>1, <3>2 DEF Remaining
    <3>4. due' = due
      BY <2>0, <3>1, <3>3
    <3> QED
      BY <2>0, <3>1, <3>2, <3>4 DEF Clock!ClockNext, Clock!Jump
  <2>3. ASSUME NEW e \in Entity, NEW u \in Entity, AdvanceRaises(e, u)
        PROVE  FALSE
    BY <2>3 DEF AdvanceRaises, AdvanceFails
  <2>4. ASSUME NEW d \in Recharges, AcknowledgeActionCompletion(d)
        PROVE  Clock!ClockNext
    <3>1. /\ phase = "active" /\ d \in Int /\ d >= 0 /\ actor \in Entity
          /\ delay' = [delay EXCEPT ![actor] = d]
          /\ phase' = "settled" /\ UNCHANGED <<actor, elapsed>>
      BY <2>4, DelaysAssumption DEF AcknowledgeActionCompletion, Complete
    <3>2. acting = actor /\ acting # NoEntity /\ acting' = NoEntity
      BY <3>1
    <3>3. Clock!OnlyDueOf(acting) /\ due'[acting] >= elapsed
      BY <2>0, <3>1, <3>2 DEF Clock!OnlyDueOf
    <3> QED
      BY <3>1, <3>2, <3>3 DEF Clock!ClockNext, Clock!Settle
  <2>5. ASSUME NEW e \in Entity, NEW d \in Int, UNCHANGED <<phase, actor, elapsed>>,
               delay' = [delay EXCEPT ![e] = d]
        PROVE  Clock!ClockNext
    <3>1. Clock!OnlyDueOf(e)
      BY <2>0, <2>5 DEF Clock!OnlyDueOf
    <3> QED
      BY <2>5, <3>1 DEF Clock!ClockNext, Clock!Reschedule
  <2>6. ASSUME NEW e \in Entity, NEW d \in Delays, ModifyDelay(e, d)
        PROVE  Clock!ClockNext
    BY <2>5, <2>6, DelaysAssumption DEF ModifyDelay, SetDelay
  <2>7. ASSUME NEW e \in Entity, StackPropertyOnDelay(e)
        PROVE  Clock!ClockNext
    <3>1. /\ sourceZero' = sourceZero
          /\ delay' = [delay EXCEPT ![e] = sourceZero[e]]
          /\ UNCHANGED <<phase, actor, elapsed>>
      BY <2>7 DEF StackPropertyOnDelay, StackOnDelay
    <3> QED
      BY <2>5, <3>1
  <2>8. CASE UNCHANGED vars
    BY <2>8 DEF vars
  <2> QED
    BY <2>1, <2>2, <2>3, <2>4, <2>6, <2>7, <2>8 DEF Next
<1>3. TypeOK /\ [Next]_vars
        => [slotted = Entity => [Clock!ClockNext]_(Clock!clockVars)]_vars
  BY <1>2 DEF AllSlotted
<1> QED
  BY <1>1, <1>3, TypeCorrect, PTL DEF Spec, ImplementsActionClock

(* Where every delay entry is installed with a slot 0, the timeline is an  *)
(* implementation of the clock outright.                                   *)
COROLLARY SlottedTimelineIsClock ==
  ASSUME Slotless = {}
  PROVE  Spec => Clock!ClockSpec
<1>1. AllSlotted /\ [slotted = Entity => [Clock!ClockNext]_(Clock!clockVars)]_vars
        => [Clock!ClockNext]_(Clock!clockVars)
  BY DEF AllSlotted, vars, Clock!clockVars, due, acting
<1> QED
  BY <1>1, TimelineImplementsClock, SlotsStay, PTL
     DEF ImplementsActionClock, Clock!ClockSpec

-----------------------------------------------------------------------------
(* No step makes an entity overtake another whose due time, like its own,  *)
(* the step leaves alone.                                                  *)
THEOREM NobodyOvertakes == Spec => NoOvertaking
<1> DEFINE Kept(e, f) == (due[e] = due'[e] /\ due[f] = due'[f] /\ Sooner(e, f))
                           => Sooner(e, f)'
           Step == phase # "absent" /\ phase' # "ready" =>
                     \A e, f \in Entity : Kept(e, f)
<1>1. TypeOK /\ TypeOK' /\ [Next]_vars => [Step]_vars
  <2> SUFFICES ASSUME TypeOK, TypeOK', Next, phase # "absent", phase' # "ready",
                      NEW e \in Entity, NEW f \in Entity,
                      due[e] = due'[e], due[f] = due'[f], Sooner(e, f)
               PROVE  Sooner(e, f)'
    OBVIOUS
  <2>0. /\ delay[e] \in Int /\ delay[f] \in Int /\ elapsed \in Int
        /\ delay'[e] \in Int /\ delay'[f] \in Int /\ elapsed' \in Int
    BY DEF TypeOK, OrderTypeOK
  <2>1. /\ elapsed + delay[e] = elapsed' + delay'[e]
        /\ elapsed + delay[f] = elapsed' + delay'[f]
    BY DEF due
  <2>2. delay[e] - delay[f] = delay'[e] - delay'[f]
    BY <2>0, <2>1
  <2>3. CASE order' = order
    BY <2>0, <2>2, <2>3 DEF Sooner
  <2>4. ASSUME NEW a \in Entity, AdvanceToNextActor(a) PROVE Sooner(e, f)'
    <3>1. order' = SortedOrder
      BY <2>4 DEF AdvanceToNextActor, Advance
    <3>2. <<e, f>> \in order'
      BY <3>1 DEF SortedOrder
    <3>3. delay[e] <= delay[f]
      BY <2>0 DEF Sooner
    <3>4. delay'[e] <= delay'[f]
      BY <2>0, <2>2, <3>3
    <3> QED
      BY <2>0, <3>2, <3>4 DEF Sooner
  <2>5. CASE InitializeTurnTimeline
    BY <2>5 DEF InitializeTurnTimeline, Initialize
  <2> QED
    BY <2>3, <2>4, <2>5 DEF Next, AdvanceRaises, AdvanceFails,
       AcknowledgeActionCompletion, Complete, ModifyDelay, SetDelay,
       StackPropertyOnDelay, StackOnDelay
<1> QED
  BY <1>1, TypeCorrect, PTL DEF Spec, NoOvertaking

-----------------------------------------------------------------------------
(* An advance that raises half-way leaves everybody's place in the acting  *)
(* order as it was: whoever stands before a lowered entity was lowered     *)
(* too, and lowering by the least delay never lets anybody drop behind.    *)
THEOREM FailureIsHarmless == Spec => FailureKeepsActingOrder
<1> DEFINE Step == (\E e, u \in Entity : AdvanceRaises(e, u)) =>
                     \A e, f \in Entity : Sooner(e, f) => Sooner(e, f)'
<1>1. TypeOK /\ TypeOK' /\ [Next]_vars => [Step]_vars
  <2> SUFFICES ASSUME TypeOK, TypeOK', NEW e \in Entity, NEW u \in Entity,
                      AdvanceRaises(e, u),
                      NEW f \in Entity, NEW g \in Entity, Sooner(f, g)
               PROVE  Sooner(f, g)'
    OBVIOUS
  <2> DEFINE Lowered(h) == h # u /\ Sooner(h, u)
  <2>1. /\ phase \in {"ready", "settled"} /\ First(e) /\ DelaysValid
        /\ order' = order
        /\ delay' = [h \in Entity |-> IF Lowered(h) THEN Remaining(h, delay[e])
                                                    ELSE delay[h]]
    BY DEF AdvanceRaises, AdvanceFails
  <2>2. IsListOrder(order) /\ delay \in [Entity -> Int]
    BY <2>1 DEF TypeOK, OrderTypeOK
  <2>3. \A h \in Entity : delay[h] \in Int /\ delay[e] <= delay[h]
    BY <2>1, <2>2, FirstIsLeast
  <2>4. delay[e] \in Int /\ delay[e] >= 0
    BY <2>1, <2>3 DEF DelaysValid
  <2>5. \A h \in Entity : delay'[h] = IF Lowered(h) THEN delay[h] - delay[e]
                                                     ELSE delay[h]
    BY <2>1, <2>3, <2>4 DEF Remaining
  <2>6. Lowered(g) => Lowered(f)
    <3> SUFFICES ASSUME Lowered(g) PROVE Lowered(f)
      OBVIOUS
    <3>1. IsListOrder(SortedOrder)
      BY <2>2, SortedIsListOrder
    <3>2. \A a, b \in Entity : <<a, b>> \in SortedOrder <=> Sooner(a, b)
      BY DEF SortedOrder
    <3>3. Sooner(f, u)
      BY <3>1, <3>2 DEF IsListOrder
    <3>4. ~Sooner(u, g)
      BY <3>1, <3>2 DEF IsListOrder
    <3> QED
      BY <3>3, <3>4
  <2>7. \/ delay[f] < delay[g]
        \/ delay[f] = delay[g] /\ <<f, g>> \in order
    BY DEF Sooner
  <2> HIDE DEF Lowered
  <2>8. \/ delay'[f] < delay'[g]
        \/ delay'[f] = delay'[g] /\ <<f, g>> \in order
    BY <2>3, <2>4, <2>5, <2>6, <2>7
  <2> QED
    BY <2>1, <2>8 DEF Sooner
<1> HIDE DEF Step
<1>2. Spec => [][Step]_vars
  BY <1>1, TypeCorrect, PTL DEF Spec
<1> QED
  BY <1>2 DEF FailureKeepsActingOrder, Step

-----------------------------------------------------------------------------
Loop == INSTANCE TurnLoop

LoopInv == delay \in [Entity -> Int] /\ Loop!ListSortedButActor

(* The list that a driver of ordinary turns keeps between its calls stays  *)
(* sorted by remaining delay except for the entity that acted last.        *)
THEOREM LoopStaysSorted == Loop!LoopSpec => []Loop!ListSortedButActor
<1>1. Loop!OrderInit(Delays) => LoopInv
  BY DelaysAssumption DEF Loop!OrderInit, LoopInv, Loop!ListSortedButActor
<1>2. ASSUME LoopInv, Loop!LoopNext PROVE LoopInv'
  <2>1. CASE Loop!Start
    BY <1>2, <2>1 DEF Loop!Start, Loop!Initialize, Loop!entryVars, LoopInv, Loop!ListSortedButActor
  <2>2. ASSUME NEW e \in Entity, Loop!Advance(e) PROVE LoopInv'
    <3>1. /\ delay' = [f \in Entity |-> Loop!Remaining(f, delay[e])]
          /\ order' = Loop!SortedOrder /\ actor' = e
      BY <2>2 DEF Loop!Advance
    <3>2. \A f \in Entity : delay[f] \in Int
      BY <1>2 DEF LoopInv
    <3>3. \A f \in Entity : delay'[f] = IF delay[f] - delay[e] < 0 THEN 0 ELSE delay[f] - delay[e]
      BY <3>1 DEF Loop!Remaining
    <3>4. delay' \in [Entity -> Int]
      BY <3>1, <3>2 DEF Loop!Remaining
    <3>5. \A f, g \in Entity : <<f, g>> \in order' => delay[f] <= delay[g]
      BY <3>1, <3>2 DEF Loop!SortedOrder, Loop!Sooner
    <3>6. \A f, g \in Entity : <<f, g>> \in order' => delay'[f] <= delay'[g]
      BY <3>2, <3>3, <3>5
    <3> QED
      BY <3>4, <3>6 DEF LoopInv, Loop!ListSortedButActor
  <2>3. ASSUME NEW d \in Recharges, Loop!Complete(d) PROVE LoopInv'
    <3>1. /\ phase = "active" /\ order' = order /\ actor' = actor
          /\ delay' = [delay EXCEPT ![actor] = d]
      BY <2>3 DEF Loop!Complete
    <3>2. d \in Int
      BY DelaysAssumption
    <3>3. delay' \in [Entity -> Int] /\ \A f \in Entity \ {actor} : delay'[f] = delay[f]
      BY <1>2, <3>1, <3>2 DEF LoopInv
    <3> QED
      BY <1>2, <3>1, <3>3 DEF LoopInv, Loop!ListSortedButActor
  <2> QED
    BY <1>2, <2>1, <2>2, <2>3 DEF Loop!LoopNext, Loop!Select, Loop!Finish
<1>3. LoopInv /\ UNCHANGED Loop!orderVars => LoopInv'
  BY DEF LoopInv, Loop!ListSortedButActor, Loop!orderVars
<1>4. LoopInv => Loop!ListSortedButActor
  BY DEF LoopInv
<1> QED
  BY <1>1, <1>2, <1>3, <1>4, PTL DEF Loop!LoopSpec
-----------------------------------------------------------------------------
(* How often each of the others may still act before e, when an entity has *)
(* d[e] to wait: as recharges are positive, whoever has d[f] left acts     *)
(* d[e] - d[f] + 1 times at most.                                          *)
TurnsBefore(d, e) ==
  [f \in Entity |-> IF f = e \/ d[e] < d[f] THEN 0 ELSE d[e] - d[f] + 1]
Gap(d, e) == SumFunctionOnSet(TurnsBefore(d, e), Entity)

(* While the driver plays, no delay is negative and the actor has none.    *)
ClockRuns ==
  /\ delay \in [Entity -> Int]
  /\ phase # "absent" => \A f \in Entity : delay[f] >= 0
  /\ phase = "active" => actor \in Entity /\ delay[actor] = 0

(* It is a number,                                                         *)
LEMMA TurnsAreNumbers ==
  ASSUME NEW d \in [Entity -> Int], NEW e \in Entity, NEW f \in Entity
  PROVE  TurnsBefore(d, e)[f] \in Nat /\ TurnsBefore(d, e)[f] \in Int
<1>1. d[e] \in Int /\ d[f] \in Int
  OBVIOUS
<1> QED
  BY <1>1 DEF TurnsBefore

(* ... and so is the number of turns of all the others.                    *)
LEMMA GapIsNatural ==
  ASSUME NEW d \in [Entity -> Int], NEW e \in Entity, IsFiniteSet(Entity)
  PROVE  Gap(d, e) \in Nat
<1>1. \A f \in Entity : TurnsBefore(d, e)[f] \in Nat
  BY TurnsAreNumbers
<1> HIDE DEF TurnsBefore
<1> QED
  BY <1>1, SumIsNatural DEF Gap

(* Time that passes for all alike changes nobody's gap.                    *)
LEMMA GapIsRelative ==
  ASSUME NEW d \in [Entity -> Int], NEW d2 \in [Entity -> Int], NEW e \in Entity,
         IsFiniteSet(Entity), NEW t \in Int, \A f \in Entity : d2[f] = d[f] - t
  PROVE  Gap(d2, e) = Gap(d, e)
<1>1. \A f \in Entity : TurnsBefore(d, e)[f] \in Int /\ TurnsBefore(d2, e)[f] = TurnsBefore(d, e)[f]
  <2> SUFFICES ASSUME NEW f \in Entity
               PROVE  TurnsBefore(d, e)[f] \in Int /\ TurnsBefore(d2, e)[f] = TurnsBefore(d, e)[f]
    OBVIOUS
  <2>1. d[e] \in Int /\ d[f] \in Int /\ d2[e] = d[e] - t /\ d2[f] = d[f] - t
    OBVIOUS
  <2> QED
    BY <2>1 DEF TurnsBefore
<1> HIDE DEF TurnsBefore
<1> QED
  BY <1>1, SumDepends DEF Gap

(* A positive recharge lowers it.                                          *)
LEMMA RechargeLowersGap ==
  ASSUME NEW d \in [Entity -> Int], NEW d2 \in [Entity -> Int], NEW e \in Entity, NEW a \in Entity,
         IsFiniteSet(Entity), a # e, d[e] >= d[a], d2[a] > d[a],
         \A f \in Entity \ {a} : d2[f] = d[f]
  PROVE  Gap(d2, e) < Gap(d, e)
<1>0. d2[e] = d[e] /\ d[e] \in Int /\ d[a] \in Int /\ d2[a] \in Int
  OBVIOUS
<1>1. \A f \in Entity : TurnsBefore(d, e)[f] \in Int /\ TurnsBefore(d2, e)[f] \in Int
  <2>1. \A f \in Entity : TurnsBefore(d, e)[f] \in Int
    BY TurnsAreNumbers
  <2>2. \A f \in Entity : TurnsBefore(d2, e)[f] \in Int
    BY TurnsAreNumbers
  <2> QED
    BY <2>1, <2>2, Zenon
<1>2. \A f \in Entity \ {a} : TurnsBefore(d2, e)[f] = TurnsBefore(d, e)[f]
  BY <1>0 DEF TurnsBefore
<1>3. TurnsBefore(d2, e)[a] < TurnsBefore(d, e)[a]
  BY <1>0 DEF TurnsBefore
<1> HIDE DEF TurnsBefore
<1>4. Gap(d2, e) = Gap(d, e) - TurnsBefore(d, e)[a] + TurnsBefore(d2, e)[a]
  BY <1>1, <1>2, SumChanges DEF Gap
<1>5. Gap(d, e) \in Int
  BY GapIsNatural
<1> QED
  BY <1>1, <1>3, <1>4, <1>5

(* A selection takes the same delay from everybody.                        *)
LEMMA SelectLowersAll ==
  ASSUME ClockRuns, NEW a \in Entity, Loop!Advance(a)
  PROVE  /\ ClockRuns' /\ delay[a] \in Int
         /\ \A f \in Entity : delay'[f] = delay[f] - delay[a]
<1>1. /\ delay' = [f \in Entity |-> Loop!Remaining(f, delay[a])]
      /\ actor' = a /\ phase' = "active" /\ phase # "absent"
  BY DEF Loop!Advance
<1>2. \A f \in Entity : delay[f] \in Int
  BY DEF ClockRuns
<1>3. \A f \in Entity : delay[a] <= delay[f]
  <2>1. \A f \in Entity \ {a} : delay[a] < delay[f] \/ delay[a] = delay[f]
    BY DEF Loop!Advance, Loop!First, Loop!Sooner
  <2>2. ASSUME NEW f \in Entity PROVE delay[a] <= delay[f]
    <3>1. delay[a] \in Int /\ delay[f] \in Int
      BY <1>2
    <3>2. f = a \/ delay[a] < delay[f] \/ delay[a] = delay[f]
      BY <2>1
    <3> QED
      BY <3>1, <3>2
  <2> QED
    BY <2>2
<1>4. \A f \in Entity : delay'[f] = delay[f] - delay[a] /\ delay'[f] \in Int /\ delay'[f] >= 0
  BY <1>1, <1>2, <1>3 DEF Loop!Remaining
<1>5. delay' \in [Entity -> Int]
  BY <1>1, <1>4
<1>6. delay'[a] = 0
  BY <1>2, <1>4
<1> QED
  BY <1>1, <1>2, <1>4, <1>5, <1>6 DEF ClockRuns

(* A completion sets the delay of the actor, which had none left.          *)
LEMMA FinishSetsOne ==
  ASSUME ClockRuns, NEW r \in Recharges, Loop!Complete(r)
  PROVE  /\ ClockRuns' /\ actor \in Entity /\ delay[actor] = 0 /\ delay'[actor] = r
         /\ \A f \in Entity : delay[f] \in Int /\ delay[f] >= 0
         /\ \A f \in Entity \ {actor} : delay'[f] = delay[f]
<1>1. /\ delay' = [delay EXCEPT ![actor] = r] /\ phase = "active" /\ phase' = "settled"
      /\ r \in Int /\ r >= 0
  BY DelaysAssumption DEF Loop!Complete
<1>2. actor \in Entity /\ delay[actor] = 0 /\ \A f \in Entity : delay[f] \in Int /\ delay[f] >= 0
  BY <1>1 DEF ClockRuns
<1>3. delay' \in [Entity -> Int] /\ delay'[actor] = r
      /\ \A f \in Entity \ {actor} : delay'[f] = delay[f]
  BY <1>1, <1>2 DEF ClockRuns
<1>4. \A f \in Entity : delay'[f] >= 0
  BY <1>1, <1>2, <1>3
<1> QED
  BY <1>1, <1>2, <1>3, <1>4 DEF ClockRuns

(* Nobody is passed for ever: under a driver that plays ordinary turns with*)
(* positive recharges, the number of turns that the others can have before *)
(* e's is bounded, no selection changes the bound, and every completed turn*)
(* of another lowers it.                                                   *)
THEOREM GapsClose ==
  IsFiniteSet(Entity) /\ Recharges \subseteq Nat \ {0} =>
    (Loop!LoopSpec =>
       /\ [](\A e \in Entity : Gap(delay, e) \in Nat)
       /\ [][\A e \in Entity :
               /\ Loop!Select => Gap(delay, e)' = Gap(delay, e)
               /\ Loop!Finish /\ actor # e => Gap(delay, e)' < Gap(delay, e)]_(Loop!orderVars))
<1> SUFFICES ASSUME IsFiniteSet(Entity), Recharges \subseteq Nat \ {0}
    PROVE  Loop!LoopSpec =>
       /\ [](\A e \in Entity : Gap(delay, e) \in Nat)
       /\ [][\A e \in Entity :
               /\ Loop!Select => Gap(delay, e)' = Gap(delay, e)
               /\ Loop!Finish /\ actor # e => Gap(delay, e)' < Gap(delay, e)]_(Loop!orderVars)
  OBVIOUS
<1>1. Loop!OrderInit(Delays) => ClockRuns
  BY DelaysAssumption DEF Loop!OrderInit, ClockRuns
<1>2. ASSUME ClockRuns, [Loop!LoopNext]_(Loop!orderVars)
      PROVE  ClockRuns'
  <2>1. CASE Loop!Start
    BY <1>2, <2>1 DEF Loop!Start, Loop!Initialize, Loop!DelaysValid, Loop!entryVars, ClockRuns
  <2>2. CASE Loop!Select
    BY <1>2, <2>2, SelectLowersAll DEF Loop!Select
  <2>3. CASE Loop!Finish
    BY <1>2, <2>3, FinishSetsOne DEF Loop!Finish
  <2>4. CASE UNCHANGED Loop!orderVars
    BY <1>2, <2>4 DEF Loop!orderVars, ClockRuns
  <2> QED
    BY <1>2, <2>1, <2>2, <2>3, <2>4 DEF Loop!LoopNext
<1>3. ClockRuns => \A e \in Entity : Gap(delay, e) \in Nat
  BY GapIsNatural DEF ClockRuns
<1>4. ASSUME ClockRuns, ClockRuns', NEW e \in Entity, Loop!Select
      PROVE  Gap(delay', e) = Gap(delay, e)
  <2>1. PICK a \in Entity : Loop!Advance(a)
    BY <1>4 DEF Loop!Select
  <2>2. delay[a] \in Int /\ \A f \in Entity : delay'[f] = delay[f] - delay[a]
    BY <1>4, <2>1, SelectLowersAll
  <2>3. delay \in [Entity -> Int] /\ delay' \in [Entity -> Int]
    BY <1>4 DEF ClockRuns
  <2> QED
    BY <2>2, <2>3, GapIsRelative
<1>5. ASSUME ClockRuns, ClockRuns', NEW e \in Entity, Loop!Finish, actor # e
      PROVE  Gap(delay', e) < Gap(delay, e)
  <2>1. PICK r \in Recharges : Loop!Complete(r)
    BY <1>5 DEF Loop!Finish
  <2>2. /\ actor \in Entity /\ delay[e] >= delay[actor] /\ delay'[actor] > delay[actor]
        /\ \A f \in Entity \ {actor} : delay'[f] = delay[f]
    BY <1>5, <2>1, FinishSetsOne
  <2>3. delay \in [Entity -> Int] /\ delay' \in [Entity -> Int]
    BY <1>5 DEF ClockRuns
  <2> QED
    BY <1>5, <2>2, <2>3, RechargeLowersGap
<1>6. ClockRuns /\ ClockRuns' =>
        \A e \in Entity : /\ Loop!Select => Gap(delay, e)' = Gap(delay, e)
                          /\ Loop!Finish /\ actor # e => Gap(delay, e)' < Gap(delay, e)
  BY <1>4, <1>5
<1> QED
  BY <1>1, <1>2, <1>3, <1>6, PTL DEF Loop!LoopSpec
=============================================================================
