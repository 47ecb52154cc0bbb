--------------------------- MODULE ReferenceProofs ---------------------------
(***************************************************************************)
(* Proofs about the reference engine, for every set of units, teams,       *)
(* aliases, tasks and amounts.  The battle rests on two facts about the    *)
(* records: no operation revives a unit or breaks a broken bar; and one    *)
(* about the sort: it makes a list of the candidates.  The modifiers rest  *)
(* on what a step may do to the list, the values on what an evaluation     *)
(* reads, the event tracer on what its agenda still brings.                *)
(***************************************************************************)
EXTENDS ReferenceBattle, ReferenceModifiers, ReferenceValues, EventTrace, DataLemmas, TLAPS

(* The survival record of a unit, alive exactly while it has HP.           *)
Sound(u) == u \in Unit /\ (u.alive <=> u.hp > 0)

-----------------------------------------------------------------------------
(* A heal keeps a record sound and raises nobody from the dead.            *)
LEMMA HealIsSound ==
  ASSUME NEW u, Sound(u), NEW x \in Nat
  PROVE  Sound(Heal(u, x)) /\ (Heal(u, x).alive => u.alive)
<1>1. MaxHP \in Nat /\ u.hp \in 0 .. MaxHP
  BY SurvivalAssumption DEF Sound, Unit
<1>2. Least(MaxHP, u.hp + x) \in u.hp .. MaxHP
  BY <1>1 DEF Least
<1> QED
  BY <1>1, <1>2 DEF Sound, Unit, Heal

(* So does a shield ...                                                    *)
LEMMA ShieldIsSound ==
  ASSUME NEW u, Sound(u), NEW x \in Nat
  PROVE  Sound(ApplyShield(u, x)) /\ (ApplyShield(u, x).alive => u.alive)
BY DEF Sound, Unit, ApplyShield

(* ... a hit ...                                                           *)
LEMMA AbsorbIsSound ==
  ASSUME NEW u, Sound(u), NEW x \in Nat
  PROVE  Sound(Absorb(u, x)) /\ (Absorb(u, x).alive => u.alive)
<1> DEFINE past == x - Least(u.shield, x)
           left == IF u.locked THEN u.hp ELSE u.hp - Least(u.hp, past)
<1>1. MaxHP \in Nat /\ u.hp \in 0 .. MaxHP /\ u.shield \in Nat
  BY SurvivalAssumption DEF Sound, Unit
<1>2. past \in Nat /\ u.shield - Least(u.shield, x) \in Nat
  BY <1>1 DEF Least
<1>3. left \in 0 .. MaxHP
  BY <1>1, <1>2 DEF Least
<1>4. CASE ~u.alive
  BY <1>4 DEF Absorb
<1>5. CASE u.alive
  <2>1. Absorb(u, x) = [u EXCEPT !.shield = @ - Least(@, x), !.hp = left, !.alive = left > 0]
    BY <1>5 DEF Absorb
  <2> HIDE DEF left, past
  <2>2. (left > 0) \in BOOLEAN /\ (left > 0 => u.alive)
    BY <1>5
  <2>3. Absorb(u, x) \in Unit
    BY <1>2, <1>3, <2>1, <2>2 DEF Sound, Unit
  <2>4. Absorb(u, x).alive = (left > 0) /\ Absorb(u, x).hp = left
    BY <2>1 DEF Sound, Unit
  <2> QED
    BY <1>5, <2>3, <2>4 DEF Sound
<1> QED
  BY <1>4, <1>5

(* ... a kill, and a change of the lock.                                   *)
LEMMA KillIsSound ==
  ASSUME NEW u, Sound(u)
  PROVE  Sound(ForceKill(u)) /\ (ForceKill(u).alive => u.alive)
<1>1. 0 \in 0 .. MaxHP
  BY SurvivalAssumption
<1>2. CASE u.locked
  BY <1>2 DEF ForceKill
<1>3. CASE ~u.locked
  <2>1. ForceKill(u) = [u EXCEPT !.hp = 0, !.alive = FALSE]
    BY <1>3 DEF ForceKill
  <2>2. ForceKill(u) \in Unit
    BY <1>1, <2>1 DEF Sound, Unit
  <2>3. ForceKill(u).hp = 0 /\ ForceKill(u).alive = FALSE
    BY <2>1 DEF Sound, Unit
  <2> QED
    BY <2>2, <2>3 DEF Sound
<1> QED
  BY <1>2, <1>3

(* Locking HP changes neither HP nor life.                                 *)
LEMMA LockIsSound ==
  ASSUME NEW u, Sound(u), NEW locked \in BOOLEAN
  PROVE  Sound([u EXCEPT !.locked = locked]) /\ ([u EXCEPT !.locked = locked].alive => u.alive)
BY DEF Sound, Unit

(* A stance value keeps a bar a bar.                                       *)
LEMMA ReduceIsBar ==
  ASSUME NEW b \in Bar, NEW s \in Nat
  PROVE  Reduce(b, s) \in Bar
BY SurvivalAssumption DEF Bar, Reduce

-----------------------------------------------------------------------------
(* Sorting the candidates by delay, ties by position, makes a list of them.*)
LEMMA SortIsList ==
  ASSUME NEW L, NEW d \in [L -> Int], IsListOrder(order, L), NEW E \in SUBSET L
  PROVE  IsListOrder({p \in E \X E : Before(d, p[1], p[2])}, E)
<1> DEFINE R == {p \in E \X E : Before(d, p[1], p[2])}
<1>1. \A e, f \in E : <<e, f>> \in R <=> Before(d, e, f)
  OBVIOUS
<1>2. \A e \in E : d[e] \in Int
  OBVIOUS
<1>3. \A e, f \in E : Before(d, e, f) => ~Before(d, f, e)
  BY <1>2 DEF Before, IsListOrder
<1>4. ASSUME NEW e \in E, NEW f \in E, e # f
      PROVE  Before(d, e, f) \/ Before(d, f, e)
  <2>1. <<e, f>> \in order \/ <<f, e>> \in order
    BY <1>4 DEF IsListOrder
  <2>2. d[e] \in Int /\ d[f] \in Int
    BY <1>2
  <2> QED
    BY <2>1, <2>2 DEF Before
<1>5. ASSUME NEW e \in E, NEW f \in E, NEW g \in E, Before(d, e, f), Before(d, f, g)
      PROVE  Before(d, e, g)
  <2>1. <<e, f>> \in order /\ <<f, g>> \in order => <<e, g>> \in order
    BY DEF IsListOrder
  <2>2. d[e] \in Int /\ d[f] \in Int /\ d[g] \in Int
    BY <1>2
  <2> QED
    BY <1>5, <2>1, <2>2 DEF Before
<1>6. R \subseteq E \X E
  OBVIOUS
<1> HIDE DEF R
<1>7. IsListOrder(R, E)
  BY <1>1, <1>3, <1>4, <1>5, <1>6 DEF IsListOrder
<1> QED
  BY <1>7 DEF R

(* A turn among candidates leaves a well-typed timeline, in which everyone *)
(* kept the time at which it is due.                                       *)
LEMMA AdvanceIsTyped ==
  ASSUME TimelineTypeOK, NEW d \in [listed -> Nat], NEW E \in SUBSET listed,
         AdvanceAmong(d, E)
  PROVE  /\ TimelineTypeOK'
         /\ listed' = E /\ current' \in E
         /\ elapsed' = elapsed + d[current']
         /\ \A f \in E : delay'[f] = d[f] - d[current'] /\ d[current'] <= d[f]
<1> PICK e \in E :
      /\ FirstOf(d, E, e)
      /\ listed' = E
      /\ order' = {p \in E \X E : Before(d, p[1], p[2])}
      /\ delay' = [f \in E |-> d[f] - d[e]]
      /\ current' = e
      /\ elapsed' = elapsed + d[e]
  BY DEF AdvanceAmong
<1>1. \A f \in E : d[f] \in Nat
  OBVIOUS
<1>2. ASSUME NEW f \in E
      PROVE  d[e] <= d[f]
  <2>1. d[e] \in Nat /\ d[f] \in Nat
    BY <1>1
  <2>2. f = e \/ d[e] < d[f] \/ d[e] = d[f]
    BY DEF FirstOf, Before
  <2> QED
    BY <2>1, <2>2
<1>3. d[e] \in Nat /\ elapsed \in Nat
  BY <1>1 DEF TimelineTypeOK
<1>4. \A f \in E : d[f] - d[e] \in Nat
  BY <1>1, <1>2
<1>5. delay' \in [E -> Nat]
  BY <1>4
<1>6. IsListOrder(order', E)
  <2>1. d \in [listed -> Int] /\ IsListOrder(order, listed)
    BY DEF TimelineTypeOK
  <2> QED
    BY <2>1, SortIsList
<1>7. E \subseteq Entity
  BY DEF TimelineTypeOK
<1>8. TimelineTypeOK'
  BY <1>3, <1>5, <1>6, <1>7 DEF TimelineTypeOK
<1>9. \A f \in E : delay'[f] = d[f] - d[e]
  OBVIOUS
<1> QED
  BY <1>2, <1>8, <1>9

-----------------------------------------------------------------------------
(* The battle starts well typed, with everyone alive and listed.           *)
LEMMA InitIsSound == BattleInit => BattleTypeOK /\ LivingAreScheduled
<1> SUFFICES ASSUME BattleInit PROVE BattleTypeOK /\ LivingAreScheduled
  OBVIOUS
<1> USE DEF BattleInit, TimelineInit
<1>1. Sound(Healthy(FALSE)) /\ Whole \in Bar
  BY SurvivalAssumption DEF Sound, Unit, Healthy, Whole, Bar
<1>2. TimelineTypeOK
  <2>1. delay \in [listed -> Nat]
    BY BattleAssumption
  <2> QED
    BY <2>1 DEF TimelineTypeOK
<1>3. \A e \in Entity : Sound(unit[e])
  BY <1>1
<1>4. unit \in [Entity -> Unit]
  BY <1>1 DEF Sound
<1>5. bar \in [Barred -> Bar] /\ paid \in [Barred -> Nat]
  BY <1>1
<1>6. points \in [Teams -> 0 .. MaxPoints]
  BY BattleAssumption
<1>7. task \in [Task -> [state : TaskState, owner : Entity \cup {NoEntity}]]
  BY DEF TaskState
<1>8. shift \in [Entity -> Int] /\ queue \in Seq(Entity)
  OBVIOUS
<1>9. BattleTypeOK
  BY <1>2, <1>3, <1>4, <1>5, <1>6, <1>7, <1>8 DEF BattleTypeOK, Sound
<1> QED
  BY <1>9, BattleAssumption DEF LivingAreScheduled

(* An operation that gives every unit a sound record and leaves the rest   *)
(* of the bodies well typed preserves both; nobody comes back to life.     *)
BodiesChange ==
  /\ unit' \in [Entity -> Unit]
  /\ \A e \in Entity : Sound(unit'[e]) /\ (unit'[e].alive => unit[e].alive)
  /\ bar' \in [Barred -> Bar] /\ paid' \in [Barred -> Nat]
  /\ UNCHANGED <<timelineVars, task, sideVars>>

(* Operations on bodies keep the types and the schedule of the living.     *)
LEMMA BodiesKeepTypes ==
  ASSUME BattleTypeOK, LivingAreScheduled, BodiesChange
  PROVE  BattleTypeOK' /\ LivingAreScheduled'
<1>1. TimelineTypeOK'
  BY DEF BodiesChange, BattleTypeOK, TimelineTypeOK, timelineVars
<1>2. BattleTypeOK'
  BY <1>1 DEF BodiesChange, BattleTypeOK, Sound, sideVars
<1>3. listed' = listed
  BY DEF BodiesChange, timelineVars
<1> QED
  BY <1>2, <1>3, BattleAssumption DEF BodiesChange, LivingAreScheduled

(* Every operation on bodies is such a change.                             *)
LEMMA HealsAreBodies ==
  ASSUME BattleTypeOK, NEW T, NEW x \in Nat, HealUnits(T, x)
  PROVE  BodiesChange
<1>1. \A e \in Entity : Sound(unit[e])
  BY DEF BattleTypeOK, Sound
<1>2. \A e \in Entity : unit'[e] = IF e \in T THEN Heal(unit[e], x) ELSE unit[e]
  BY DEF HealUnits
<1>3. \A e \in Entity : Sound(unit'[e]) /\ (unit'[e].alive => unit[e].alive)
  BY <1>1, <1>2, HealIsSound
<1>4. unit' \in [Entity -> Unit]
  BY <1>3 DEF HealUnits, Sound
<1> QED
  BY <1>3, <1>4 DEF BodiesChange, HealUnits, BattleTypeOK

(* Each of the operations below is one on bodies.                          *)
LEMMA PlainHitsAreBodies ==
  ASSUME BattleTypeOK, NEW T, NEW x \in Nat, DamagePlain(T, x)
  PROVE  BodiesChange
<1>1. \A e \in Entity : Sound(unit[e])
  BY DEF BattleTypeOK, Sound
<1>2. \A e \in Entity : unit'[e] = IF e \in T THEN Absorb(unit[e], x) ELSE unit[e]
  BY DEF DamagePlain
<1>3. \A e \in Entity : Sound(unit'[e]) /\ (unit'[e].alive => unit[e].alive)
  BY <1>1, <1>2, AbsorbIsSound
<1>4. unit' \in [Entity -> Unit]
  BY <1>3 DEF DamagePlain, Sound
<1> QED
  BY <1>3, <1>4 DEF BodiesChange, DamagePlain, BattleTypeOK

LEMMA StanceHitsAreBodies ==
  ASSUME BattleTypeOK, NEW T, NEW x \in Nat, NEW s \in Nat, DamageStance(T, x, s)
  PROVE  BodiesChange
<1>1. \A e \in Entity : Sound(unit[e])
  BY DEF BattleTypeOK, Sound
<1>2. \A e \in Entity :
        unit'[e] = IF e \notin T THEN unit[e]
                   ELSE IF BreaksBar(e, x, s)
                        THEN Absorb(Absorb(unit[e], x), BreakDamage)
                        ELSE Absorb(unit[e], x)
  BY DEF DamageStance
<1>3. ASSUME NEW e \in Entity
      PROVE  Sound(unit'[e]) /\ (unit'[e].alive => unit[e].alive)
  <2>1. Sound(Absorb(unit[e], x)) /\ (Absorb(unit[e], x).alive => unit[e].alive)
    BY <1>1, AbsorbIsSound
  <2>2. /\ Sound(Absorb(Absorb(unit[e], x), BreakDamage))
        /\ Absorb(Absorb(unit[e], x), BreakDamage).alive => Absorb(unit[e], x).alive
    BY <2>1, AbsorbIsSound, SurvivalAssumption
  <2> QED
    BY <1>1, <1>2, <2>1, <2>2
<1>4. unit' \in [Entity -> Unit]
  BY <1>3 DEF DamageStance, Sound
<1>5. \A e \in Barred : HitBar(e, x, s) \in Bar /\ bar[e] \in Bar
  BY ReduceIsBar DEF HitBar, BattleTypeOK
<1>6. bar' \in [Barred -> Bar]
  BY <1>5 DEF DamageStance
<1>7. paid' \in [Barred -> Nat]
  BY DEF DamageStance, BattleTypeOK
<1> QED
  BY <1>3, <1>4, <1>6, <1>7 DEF BodiesChange, DamageStance

LEMMA WeaknessIsBodies ==
  ASSUME BattleTypeOK, NEW T, AttachWeakness(T)
  PROVE  BodiesChange
BY DEF BodiesChange, AttachWeakness, BattleTypeOK, Sound

LEMMA EditsAreBodies ==
  ASSUME BattleTypeOK, NEW e \in Entity, NEW u, Edit(e, u),
         Sound(u), u.alive => unit[e].alive
  PROVE  BodiesChange
<1>1. \A f \in Entity : unit'[f] = IF f = e THEN u ELSE unit[f]
  BY DEF Edit, BattleTypeOK
<1>2. \A f \in Entity : Sound(unit'[f]) /\ (unit'[f].alive => unit[f].alive)
  BY <1>1 DEF BattleTypeOK, Sound
<1>3. unit' \in [Entity -> Unit]
  BY DEF Edit, BattleTypeOK, Sound
<1> QED
  BY <1>2, <1>3 DEF BodiesChange, Edit, BattleTypeOK

LEMMA CallerEditsAreBodies ==
  ASSUME BattleTypeOK, CallerEdit
  PROVE  BodiesChange
<1>0. \A e \in Entity : Sound(unit[e])
  BY DEF BattleTypeOK, Sound
<1>1. ASSUME NEW e \in Entity, NEW x \in Amounts, Shielded(e, x)
      PROVE  BodiesChange
  <2>1. x \in Nat
    BY BattleAssumption
  <2> QED
    BY <1>0, <1>1, <2>1, ShieldIsSound, EditsAreBodies DEF Shielded
<1>2. ASSUME NEW e \in Entity, NEW locked \in BOOLEAN, SetLock(e, locked)
      PROVE  BodiesChange
  BY <1>0, <1>2, LockIsSound, EditsAreBodies DEF SetLock
<1>3. ASSUME NEW e \in Entity, Killed(e)
      PROVE  BodiesChange
  BY <1>0, <1>3, KillIsSound, EditsAreBodies DEF Killed
<1>4. ASSUME NEW e \in Barred, Recover(e)
      PROVE  BodiesChange
  <2>1. Recovered(bar[e]) \in Bar
    BY SurvivalAssumption DEF Recovered, Bar
  <2>2. bar' \in [Barred -> Bar] /\ paid' \in [Barred -> Nat]
    BY <1>4, <2>1 DEF Recover, BattleTypeOK
  <2> QED
    BY <1>0, <1>4, <2>2 DEF Recover, BodiesChange, BattleTypeOK
<1> QED
  BY <1>1, <1>2, <1>3, <1>4 DEF CallerEdit

-----------------------------------------------------------------------------
(* The other steps change the shared holders, the tasks, or the timeline.  *)
SidesChange ==
  /\ points' \in [Teams -> 0 .. MaxPoints]
  /\ shift' \in [Entity -> Int] /\ queue' \in Seq(Entity)
  /\ UNCHANGED <<timelineVars, bodyVars, task>>

TasksChange ==
  /\ task' \in [Task -> [state : TaskState, owner : Entity \cup {NoEntity}]]
  /\ UNCHANGED <<timelineVars, bodyVars, sideVars>>

TurnPasses ==
  /\ \E d \in [listed -> Nat] :
       /\ AdvanceAmong(d, Eligible)
       /\ \A f \in listed \ {current} : d[f] = delay[f]
       /\ current # NoEntity => current \in Eligible /\ d[current] > 0
  /\ UNCHANGED <<task, bodyVars, sideVars>>

(* Skill points stay within the maximum.                                   *)
LEMMA PointsAreSides ==
  ASSUME BattleTypeOK, NEW T, NEW d \in Gains, ModifyTeamSP(T, d)
  PROVE  SidesChange
<1>1. d \in Int /\ MaxPoints \in Nat
  BY BattleAssumption
<1>2. \A g \in Teams : points[g] \in 0 .. MaxPoints
  BY DEF BattleTypeOK
<1>3. \A g \in Teams : Gain(T, g, d) \in 0 .. MaxPoints
  BY <1>1, <1>2 DEF Gain, Least
<1> QED
  BY <1>3 DEF ModifyTeamSP, SidesChange, BattleTypeOK

(* The others change delays, points and queued actions, and no body.       *)
LEMMA ShiftsAreSides ==
  ASSUME BattleTypeOK, NEW T, NEW x \in Shifts, SetShift(T, x) \/ AddShift(T, x)
  PROVE  SidesChange
<1>1. x \in Int /\ \A e \in Entity : shift[e] \in Int
  BY BattleAssumption DEF BattleTypeOK
<1>2. shift' \in [Entity -> Int]
  BY <1>1 DEF SetShift, AddShift
<1> QED
  BY <1>2 DEF SetShift, AddShift, SidesChange, BattleTypeOK

LEMMA InsertionsAreSides ==
  ASSUME BattleTypeOK, NEW e \in Entity, InsertAction(e)
  PROVE  SidesChange
BY DEF InsertAction, SidesChange, BattleTypeOK

(* So every operation is of one of the two sorts.                          *)
LEMMA OperationsChange ==
  ASSUME BattleTypeOK, Operation
  PROVE  BodiesChange \/ SidesChange
<1>1. ASSUME NEW T, OnTargets(T)
      PROVE  BodiesChange \/ SidesChange
  <2>1. ASSUME NEW x \in Amounts, HealUnits(T, x) \/ DamagePlain(T, x)
        PROVE  BodiesChange
    <3>1. x \in Nat
      BY BattleAssumption
    <3> QED
      BY <2>1, <3>1, HealsAreBodies, PlainHitsAreBodies
  <2>2. ASSUME NEW x \in Amounts, NEW s \in Stances, DamageStance(T, x, s)
        PROVE  BodiesChange
    <3>1. x \in Nat /\ s \in Nat
      BY BattleAssumption
    <3> QED
      BY <2>2, <3>1, StanceHitsAreBodies
  <2> QED
    BY <1>1, <2>1, <2>2, WeaknessIsBodies, PointsAreSides, ShiftsAreSides DEF OnTargets
<1> QED
  BY <1>1, InsertionsAreSides DEF Operation

(* A turn makes its owner act, or passes.                                  *)
LEMMA TurnsChange ==
  ASSUME BattleTypeOK, Turn
  PROVE  TasksChange \/ TurnPasses
<1>1. Eligible \in SUBSET listed
  BY DEF Eligible
<1>2. delay \in [listed -> Nat]
  BY DEF BattleTypeOK, TimelineTypeOK
<1>3. CASE BeginTurns
  <2>1. current = NoEntity /\ AdvanceAmong(delay, Eligible)
    BY <1>3 DEF BeginTurns, SelectInitial
  <2> QED
    BY <1>2, <1>3, <2>1 DEF TurnPasses, BeginTurns
<1>4. ASSUME NEW t \in Task, NEW r \in Recharges, AdvanceTurn(t, r)
      PROVE  TurnPasses
  <2> DEFINE a == task[t].owner
             d == [delay EXCEPT ![a] = r]
  <2>1. current = a /\ a \in Eligible /\ r > 0 /\ AdvanceAmong(d, Eligible)
    BY <1>4 DEF AdvanceTurn, CompleteAction
  <2>2. r \in Nat
    BY <2>1, BattleAssumption
  <2>3. d \in [listed -> Nat] /\ d[a] = r
    BY <1>1, <1>2, <2>1, <2>2
  <2>4. \A f \in listed \ {current} : d[f] = delay[f]
    BY <1>2, <2>1
  <2>5. UNCHANGED <<task, bodyVars, sideVars>>
    BY <1>4 DEF AdvanceTurn
  <2> HIDE DEF a, d
  <2> QED
    BY <2>1, <2>2, <2>3, <2>4, <2>5 DEF TurnPasses
<1>5. ASSUME NEW t \in Task, NEW e \in Entity, CreateTask(t, e)
      PROVE  TasksChange
  BY <1>5 DEF CreateTask, TasksChange, BattleTypeOK, TaskState
<1>6. ASSUME NEW t \in Task, StartMarker(t) \/ CompletionMarker(t)
      PROVE  TasksChange
  BY <1>6 DEF StartMarker, CompletionMarker, TasksChange, BattleTypeOK, TaskState
<1> QED
  BY <1>3, <1>4, <1>5, <1>6 DEF Turn

(* Every step is one of the four.                                          *)
LEMMA StepsChange ==
  ASSUME BattleTypeOK, BattleNext
  PROVE  BodiesChange \/ SidesChange \/ TasksChange \/ TurnPasses
BY OperationsChange, TurnsChange, CallerEditsAreBodies DEF BattleNext

(* Types and the listing of the living are preserved.                      *)
LEMMA NextIsSound ==
  ASSUME BattleTypeOK, LivingAreScheduled, [BattleNext]_battleVars
  PROVE  BattleTypeOK' /\ LivingAreScheduled'
<1>1. CASE SidesChange
  BY <1>1 DEF SidesChange, BattleTypeOK, TimelineTypeOK, LivingAreScheduled,
              timelineVars, bodyVars
<1>2. CASE TasksChange
  BY <1>2 DEF TasksChange, BattleTypeOK, TimelineTypeOK, LivingAreScheduled,
              timelineVars, bodyVars, sideVars
<1>3. CASE TurnPasses
  <2>1. PICK d \in [listed -> Nat] : AdvanceAmong(d, Eligible)
    BY <1>3 DEF TurnPasses
  <2>2. TimelineTypeOK' /\ listed' = Eligible
    <3>1. Eligible \in SUBSET listed /\ TimelineTypeOK
      BY DEF Eligible, BattleTypeOK
    <3> QED
      BY <2>1, <3>1, AdvanceIsTyped
  <2>3. UNCHANGED <<task, bodyVars, sideVars>>
    BY <1>3 DEF TurnPasses
  <2>4. BattleTypeOK'
    BY <2>2, <2>3 DEF BattleTypeOK, bodyVars, sideVars
  <2>5. \A e \in Ordinary : unit[e].alive => e \in Eligible
    BY BattleAssumption DEF LivingAreScheduled, Eligible, Living
  <2> QED
    BY <2>2, <2>3, <2>4, <2>5 DEF LivingAreScheduled, bodyVars
<1>4. CASE UNCHANGED battleVars
  BY <1>4 DEF battleVars, BattleTypeOK, TimelineTypeOK, LivingAreScheduled,
              timelineVars, bodyVars, sideVars
<1> QED
  BY <1>1, <1>2, <1>3, <1>4, StepsChange, BodiesKeepTypes

(* Units, bars, tasks, points, shifts and the timeline keep their types,   *)
(* and a unit is alive exactly while it has HP.                            *)
THEOREM BattleTyped == BattleSpec => []BattleTypeOK
<1>1. BattleTypeOK /\ LivingAreScheduled /\ [BattleNext]_battleVars
      => BattleTypeOK' /\ LivingAreScheduled'
  BY NextIsSound
<1> QED
  BY <1>1, InitIsSound, PTL DEF BattleSpec

(* No living ordinary unit is ever missing from the action list, although  *)
(* each turn throws the ineligible off it for good.                        *)
THEOREM LivingStayScheduled == BattleSpec => []LivingAreScheduled
<1>1. BattleTypeOK /\ LivingAreScheduled /\ [BattleNext]_battleVars
      => BattleTypeOK' /\ LivingAreScheduled'
  BY NextIsSound
<1> QED
  BY <1>1, InitIsSound, PTL DEF BattleSpec

-----------------------------------------------------------------------------
Due == [e \in Entity |-> IF e \in listed THEN elapsed + delay[e] ELSE 0]

(* A turn passes the clock to the living unit due first.                   *)
LEMMA TurnsTick ==
  ASSUME BattleTypeOK, BattleTypeOK', LivingAreScheduled, TurnPasses
  PROVE  \E e \in Living \cap Ordinary : Clock!Pass(e)
<1> DEFINE d == CHOOSE c \in [listed -> Nat] :
                  /\ AdvanceAmong(c, Eligible)
                  /\ \A f \in listed \ {current} : c[f] = delay[f]
                  /\ current # NoEntity => current \in Eligible /\ c[current] > 0
<1>1. /\ d \in [listed -> Nat]
      /\ AdvanceAmong(d, Eligible)
      /\ \A f \in listed \ {current} : d[f] = delay[f]
      /\ current # NoEntity => current \in Eligible /\ d[current] > 0
  BY DEF TurnPasses
<1> HIDE DEF d
<1>2. UNCHANGED bodyVars
  BY DEF TurnPasses
<1>3. Eligible \in SUBSET listed /\ TimelineTypeOK
  BY DEF Eligible, BattleTypeOK
<1>4. /\ listed' = Eligible /\ current' \in Eligible
      /\ elapsed' = elapsed + d[current']
      /\ \A f \in Eligible : delay'[f] = d[f] - d[current'] /\ d[current'] <= d[f]
  BY <1>1, <1>3, AdvanceIsTyped
<1>5. Living \cap Ordinary = Eligible
  BY BattleAssumption DEF Living, Eligible, LivingAreScheduled
<1>6. elapsed \in Nat /\ \A f \in listed : d[f] \in Nat /\ delay[f] \in Nat
  BY <1>1, <1>3 DEF TimelineTypeOK
<1>7. Eligible \subseteq Entity
  BY <1>3 DEF TimelineTypeOK
<1>8. ASSUME NEW f \in Eligible
      PROVE  Due'[f] = elapsed + d[f]
  <2>1. d[f] \in Nat /\ d[current'] \in Nat
    BY <1>3, <1>4, <1>6
  <2>2. Due'[f] = elapsed' + delay'[f]
    BY <1>4, <1>7 DEF Due
  <2> QED
    BY <1>4, <1>6, <2>1, <2>2
<1>9. Due' \in [Entity -> Nat]
  <2>1. TimelineTypeOK'
    BY DEF BattleTypeOK
  <2>2. elapsed' \in Nat /\ \A f \in listed' : delay'[f] \in Nat
    BY <2>1 DEF TimelineTypeOK
  <2> QED
    BY <2>2 DEF Due
<1>10. \A f \in Eligible \ {current} : Due'[f] = Due[f]
  <2> SUFFICES ASSUME NEW f \in Eligible \ {current} PROVE Due'[f] = Due[f]
    OBVIOUS
  <2>1. d[f] = delay[f]
    BY <1>1, <1>3
  <2>2. Due[f] = elapsed + delay[f]
    BY <1>3, <1>7 DEF Due
  <2> QED
    BY <1>8, <2>1, <2>2
<1>11. \A f \in Eligible : Due'[current'] <= Due'[f]
  <2> SUFFICES ASSUME NEW f \in Eligible PROVE Due'[current'] <= Due'[f]
    OBVIOUS
  <2>1. d[f] \in Nat /\ d[current'] \in Nat /\ d[current'] <= d[f]
    BY <1>3, <1>4, <1>6
  <2> QED
    BY <1>4, <1>6, <1>8, <2>1
<1>12. current # NoEntity => current \in Eligible /\ Due'[current] > elapsed
  <2> SUFFICES ASSUME current # NoEntity
               PROVE  current \in Eligible /\ Due'[current] > elapsed
    OBVIOUS
  <2>1. current \in Eligible /\ d[current] > 0 /\ d[current] \in Nat
    BY <1>1, <1>3, <1>6
  <2> QED
    BY <1>6, <1>8, <2>1
<1>13. elapsed' = Due'[current']
  BY <1>4, <1>8
<1>14. (Living \cap Ordinary)' = Living \cap Ordinary
  BY <1>2 DEF Living, bodyVars
<1>15. current' \in Living \cap Ordinary
  BY <1>4, <1>5
<1> QED
  BY <1>5, <1>9, <1>10, <1>11, <1>12, <1>13, <1>14, <1>15 DEF Clock!Pass, Due

(* Other steps let units perish or are not seen by the clock.              *)
LEMMA OthersPerish ==
  ASSUME BodiesChange \/ SidesChange \/ TasksChange \/ UNCHANGED battleVars
  PROVE  Clock!Perish
<1>1. UNCHANGED timelineVars
  BY DEF BodiesChange, SidesChange, TasksChange, battleVars
<1>2. (Living \cap Ordinary)' \subseteq Living \cap Ordinary
  BY DEF BodiesChange, SidesChange, TasksChange, battleVars, bodyVars, Living
<1> QED
  BY <1>1, <1>2 DEF Clock!Perish, timelineVars

(* Remaining delays that every turn lowers, and that die with their units, *)
(* implement absolute due times: the living act in the order they are due, *)
(* and the turn of a unit that died in it never passes on.                 *)
THEOREM DelaysImplementClock == BattleSpec => ImplementsLivingClock
<1>1. BattleInit => Clock!ClockInit
  <2> SUFFICES ASSUME BattleInit PROVE Clock!ClockInit
    OBVIOUS
  <2>1. \A e \in Entity : delay[e] \in Nat
    BY BattleAssumption DEF BattleInit, TimelineInit
  <2>2. elapsed = 0 /\ current = NoEntity
    BY DEF BattleInit, TimelineInit
  <2>3. Living \cap Ordinary \subseteq Entity
    BY DEF Living
  <2>4. Due \in [Entity -> Nat]
    BY <2>1, <2>2 DEF Due
  <2> QED
    BY <2>2, <2>3, <2>4 DEF Clock!ClockInit, Due
<1>2. /\ BattleTypeOK /\ LivingAreScheduled /\ [BattleNext]_battleVars
      => [Clock!ClockNext]_(Clock!clockVars)
  <2> SUFFICES ASSUME BattleTypeOK, LivingAreScheduled, [BattleNext]_battleVars
               PROVE  Clock!ClockNext
    OBVIOUS
  <2>1. BattleTypeOK'
    BY NextIsSound
  <2>2. CASE TurnPasses
    BY <2>1, <2>2, TurnsTick DEF Clock!ClockNext
  <2>3. CASE BodiesChange \/ SidesChange \/ TasksChange \/ UNCHANGED battleVars
    BY <2>3, OthersPerish DEF Clock!ClockNext
  <2> QED
    BY <2>2, <2>3, StepsChange
<1> QED
  BY <1>1, <1>2, BattleTyped, LivingStayScheduled, PTL
     DEF BattleSpec, ImplementsLivingClock, Clock!ClockSpec

-----------------------------------------------------------------------------
(* A bar is paid for exactly once while it is broken, through any hits.    *)
LEMMA PaymentsMatch ==
  ASSUME BattleTypeOK, BreakPaidOnce, [BattleNext]_battleVars
  PROVE  BreakPaidOnce'
<1>1. ASSUME UNCHANGED <<bar, paid>>
      PROVE  BreakPaidOnce'
  BY <1>1 DEF BreakPaidOnce
<1>2. ASSUME NEW T, NEW x, NEW s \in Nat, DamageStance(T, x, s)
      PROVE  BreakPaidOnce'
  <2> SUFFICES ASSUME NEW e \in Barred
               PROVE  paid'[e] = (IF bar'[e].broken THEN 1 ELSE 0)
    BY DEF BreakPaidOnce
  <2>1. bar[e] \in Bar /\ paid[e] = (IF bar[e].broken THEN 1 ELSE 0)
    BY DEF BattleTypeOK, BreakPaidOnce
  <2>2. bar[e].broken \in BOOLEAN
    BY <2>1 DEF Bar
  <2>3. /\ bar'[e] = (IF e \in T THEN HitBar(e, x, s) ELSE bar[e])
        /\ paid'[e] = (IF e \in T /\ BreaksBar(e, x, s) THEN paid[e] + 1 ELSE paid[e])
    BY <1>2 DEF DamageStance
  <2>4. CASE e \in T /\ BreaksBar(e, x, s)
    <3>1. bar'[e] = Reduce(bar[e], s) /\ ~bar[e].broken /\ Reduce(bar[e], s).broken
      BY <2>3, <2>4 DEF BreaksBar, Breaks, HitBar
    <3> QED
      BY <2>1, <2>3, <2>4, <3>1
  <2>5. CASE ~(e \in T /\ BreaksBar(e, x, s))
    <3>1. Reduce(bar[e], s).broken \in BOOLEAN
      BY <2>1, ReduceIsBar DEF Bar
    <3>2. bar[e].broken => Reduce(bar[e], s).broken
      BY DEF Reduce
    <3>3. bar'[e].broken = bar[e].broken
      BY <2>2, <2>3, <2>5, <3>1, <3>2 DEF BreaksBar, Breaks, HitBar
    <3> QED
      BY <2>1, <2>3, <2>5, <3>3
  <2> QED
    BY <2>4, <2>5
<1>3. ASSUME NEW e \in Barred, Recover(e)
      PROVE  BreakPaidOnce'
  <2>1. \A f \in Barred : /\ bar'[f] = IF f = e THEN Recovered(bar[e]) ELSE bar[f]
                          /\ paid'[f] = IF f = e THEN 0 ELSE paid[f]
    BY <1>3 DEF Recover, BattleTypeOK
  <2> QED
    BY <2>1 DEF BreakPaidOnce, Recovered
<1>4. CASE Operation
  <2>1. ASSUME NEW T, OnTargets(T)
        PROVE  BreakPaidOnce'
    <3>1. \A s \in Stances : s \in Nat
      BY BattleAssumption
    <3> QED
      BY <1>1, <1>2, <2>1, <3>1
         DEF OnTargets, HealUnits, DamagePlain, AttachWeakness, ModifyTeamSP,
             SetShift, AddShift, bodyVars
  <2> QED
    BY <1>1, <1>4, <2>1 DEF Operation, InsertAction, bodyVars
<1>5. CASE Turn
  BY <1>1, <1>5 DEF Turn, BeginTurns, AdvanceTurn, CreateTask, StartMarker,
                    CompletionMarker, bodyVars
<1>6. CASE CallerEdit
  BY <1>1, <1>3, <1>6 DEF CallerEdit, Shielded, SetLock, Killed, Edit
<1>7. CASE UNCHANGED battleVars
  BY <1>1, <1>7 DEF battleVars, bodyVars
<1> QED
  BY <1>4, <1>5, <1>6, <1>7 DEF BattleNext

(* Break damage is dealt exactly once while a bar is broken.               *)
THEOREM BreaksArePaidOnce == BattleSpec => []BreakPaidOnce
<1>1. BattleInit => BreakPaidOnce
  <2> SUFFICES ASSUME BattleInit, NEW e \in Barred
               PROVE  paid[e] = (IF bar[e].broken THEN 1 ELSE 0)
    BY DEF BreakPaidOnce
  <2>1. paid[e] = 0 /\ bar[e] = Whole
    BY DEF BattleInit
  <2> QED
    BY <2>1 DEF Whole
<1>2. BattleTypeOK /\ BreakPaidOnce /\ [BattleNext]_battleVars => BreakPaidOnce'
  BY PaymentsMatch
<1> QED
  BY <1>1, <1>2, BattleTyped, PTL DEF BattleSpec

(* One operation gives a team its contribution once, whatever the targets, *)
(* and takes no points away.                                               *)
THEOREM TeamsGainOnce == BattleSpec => OneGainPerTeam
<1> DEFINE Gained ==
      \A g \in Teams :
        /\ points'[g] >= points[g]
        /\ \E d \in Gains \cup {0} : points'[g] <= points[g] + d
<1>1. ASSUME BattleTypeOK, UNCHANGED points
      PROVE  Gained
  <2>1. \A g \in Teams : points[g] \in Int
    BY <1>1, BattleAssumption DEF BattleTypeOK
  <2>2. \A g \in Teams : points'[g] = points[g] /\ points[g] <= points[g] + 0
    BY <1>1, <2>1
  <2> QED
    BY <2>1, <2>2
<1>2. ASSUME BattleTypeOK, NEW T, NEW c \in Gains, ModifyTeamSP(T, c)
      PROVE  Gained
  <2> SUFFICES ASSUME NEW g \in Teams
               PROVE  /\ points'[g] >= points[g]
                      /\ \E d \in Gains \cup {0} : points'[g] <= points[g] + d
    OBVIOUS
  <2>1. c \in Int /\ MaxPoints \in Nat /\ points[g] \in 0 .. MaxPoints
    BY <1>2, BattleAssumption DEF BattleTypeOK
  <2>2. points'[g] = Gain(T, g, c)
    BY <1>2 DEF ModifyTeamSP
  <2>3. points'[g] = points[g] \/ (points'[g] >= points[g] /\ points'[g] <= points[g] + c)
    BY <2>1, <2>2 DEF Gain, Least
  <2>4. points[g] <= points[g] + 0 /\ points[g] >= points[g]
    BY <2>1
  <2> QED
    BY <2>3, <2>4
<1>3. BattleTypeOK /\ [BattleNext]_battleVars => [Gained]_battleVars
  <2> SUFFICES ASSUME BattleTypeOK, BattleNext PROVE Gained
    OBVIOUS
  <2> HIDE DEF Gained
  <2>1. ASSUME NEW T, OnTargets(T)
        PROVE  Gained
    BY <1>1, <1>2, <2>1
       DEF OnTargets, HealUnits, DamagePlain, DamageStance, AttachWeakness,
           SetShift, AddShift, sideVars
  <2>2. CASE Operation
    BY <1>1, <2>1, <2>2 DEF Operation, InsertAction
  <2>3. CASE Turn
    BY <1>1, <2>3 DEF Turn, BeginTurns, AdvanceTurn, CreateTask, StartMarker,
                      CompletionMarker, sideVars
  <2>4. CASE CallerEdit
    BY <1>1, <2>4 DEF CallerEdit, Shielded, SetLock, Killed, Edit, Recover, sideVars
  <2> QED
    BY <2>2, <2>3, <2>4 DEF BattleNext
<1> QED
  BY <1>3, BattleTyped, PTL DEF BattleSpec, OneGainPerTeam

-----------------------------------------------------------------------------
(* The least of a set of positions that holds the first is the first.      *)
LEMMA FirstIsOne == ASSUME NEW S \in SUBSET (1 .. 5), 1 \in S PROVE FirstIn(S) = 1
<1>1. \A m \in S : 1 <= m
  OBVIOUS
<1>2. \E n \in S : \A m \in S : n <= m
  BY <1>1
<1>3. FirstIn(S) \in S /\ FirstIn(S) <= 1
  BY <1>2 DEF FirstIn
<1>4. \A n \in S : n <= 1 => n = 1
  OBVIOUS
<1> QED
  BY <1>3, <1>4, Zenon

(* In contexts where the caster owns the scope searched first and no value *)
(* is given, a hash is read alike by a condition and by an operation.      *)
LEMMA HashesReadAlike ==
  ASSUME NEW c, NEW st, NEW k \in Hashed, ReadsAlike(c)
  PROVE  DynamicGet(c, st, NoScope, k) = ReadHash(c, st, k)
<1>1. /\ ReadHash(c, st, k) = Searched(c, st, k)
      /\ DefaultOwner(c) = c.caster /\ c.caster # Nobody
      /\ ReadOwner(c, SearchOrder[1]) = c.caster
  BY DEF ReadsAlike, ReadHash, DefaultOwner, ReadOwner, SearchOrder
<1>2. CASE st[c.caster][k] # Absent
  <2>1. 1 \in Holding(c, st, k) /\ Holding(c, st, k) \in SUBSET (1 .. 5)
    BY <1>1, <1>2 DEF Holding
  <2>2. Searched(c, st, k) = st[c.caster][k]
    BY <1>1, <2>1, FirstIsOne DEF Searched
  <2> QED
    BY <1>1, <1>2, <2>2 DEF DynamicGet
<1>3. CASE st[c.caster][k] = Absent
  BY <1>1, <1>3 DEF DynamicGet
<1> QED
  BY <1>2, <1>3

(* A formula means the same in a condition and in an operation of one      *)
(* callback, in every store and for every program.                         *)
THEOREM FormulasMeanOneThing ==
  ASSUME NEW c, NEW st, NEW p, ReadsAlike(c)
  PROVE  PredicateValue(c, st, p) = OperationValue(c, st, p)
<1>1. [k \in Hashed |-> DynamicGet(c, st, NoScope, k)] = [k \in Hashed |-> ReadHash(c, st, k)]
  BY HashesReadAlike
<1> QED
  BY <1>1 DEF PredicateValue, OperationValue

-----------------------------------------------------------------------------
(* What an operation on the modifiers may do to an instance: its life and  *)
(* value change, it is activated or marked, and never unmarked.            *)
Altered(i, j) ==
  /\ j \in Instance
  /\ j.id = i.id /\ j.name = i.name /\ j.source = i.source
  /\ Live(j) => Live(i)
  /\ i.state = ToBeRemoved => j.state = ToBeRemoved

(* The three things an operation does to the list: it alters instances in  *)
(* their places, or writes there what becomes of a live instance with the  *)
(* same id; it drops all that are not alive; or it appends one, which its  *)
(* source had no match for and the length of the list numbers.             *)
InPlace(l, m) ==
  /\ m \in Seq(Instance) /\ DOMAIN m = DOMAIN l
  /\ \A p \in DOMAIN l : \E q \in DOMAIN l : l[q].id = l[p].id /\ Altered(l[q], m[p])

Cleaned(l, m) ==
  /\ m \in Seq(Instance)
  /\ \E f : \A p \in DOMAIN m : /\ f[p] \in DOMAIN l /\ p <= f[p]
                               /\ m[p] = l[f[p]] /\ m[p].state = Alive

Joined(l, m) ==
  \E i \in Instance :
    /\ m = Append(l, i) /\ i.id[2] = Len(l) + 1
    /\ \A p \in DOMAIN l :
         ~(/\ Live(l[p]) /\ l[p].name = i.name /\ l[p].source = i.source
           /\ StackingOf[i.name] # "MULTIPLE")

(* An instance never stands behind the place it was numbered for, and live *)
(* instances of one source that should be one share an id.                 *)
Numbered(l) == \A p \in DOMAIN l : p <= l[p].id[2]

TwinsShareId(l) ==
  \A p, q \in DOMAIN l :
    /\ Live(l[p]) /\ Live(l[q])
    /\ l[p].name = l[q].name /\ l[p].source = l[q].source
    /\ StackingOf[l[p].name] # "MULTIPLE"
    => l[p].id = l[q].id

ModifierInv == ModifierTypeOK /\ Numbered(list) /\ TwinsShareId(list)

(* An instance keeps its place through an edit that alters it.             *)
LEMMA OneIsAltered ==
  ASSUME NEW l \in Seq(Instance), NEW p \in DOMAIN l, NEW i, Altered(l[p], i)
  PROVE  InPlace(l, [l EXCEPT ![p] = i])
<1>1. \A q \in DOMAIN l : Altered(l[q], l[q])
  BY DEF Altered
<1>2. i \in Instance
  BY DEF Altered
<1>3. [l EXCEPT ![p] = i] \in Seq(Instance) /\ DOMAIN [l EXCEPT ![p] = i] = DOMAIN l
  BY <1>2
<1> QED
  BY <1>1, <1>3 DEF InPlace

(* The same for an edit of every place.                                    *)
LEMMA AllAreAltered ==
  ASSUME NEW l \in Seq(Instance), NEW m, m = [p \in DOMAIN l |-> m[p]],
         \A p \in DOMAIN l : Altered(l[p], m[p])
  PROVE  InPlace(l, m)
<1>1. DOMAIN m = 1 .. Len(l) /\ DOMAIN l = 1 .. Len(l) /\ Len(l) \in Nat
  OBVIOUS
<1>2. \A p \in 1 .. Len(l) : m[p] \in Instance
  BY <1>1 DEF Altered
<1>3. m \in Seq(Instance)
  BY <1>1, <1>2
<1> QED
  BY <1>1, <1>3 DEF InPlace

(* A refresh alters the instance it finds.                                 *)
LEMMA RefreshAlters ==
  ASSUME NEW i \in Instance, NEW life \in Lives, NEW v \in Values,
         StackingOf[i.name] # "MULTIPLE", CanRefresh(i, life)
  PROVE  Altered(i, Refreshed(i, life, v))
<1>1. /\ i.name \in Name /\ i.life \in Nat \cup {Unset} /\ life \in Nat \cup {Unset}
      /\ i.state \in {ToBeAdded, Alive, ToBeRemoved}
  BY ModifierAssumption DEF Instance
<1> DEFINE lived == CASE StackingOf[i.name] = "REPLACE" -> life
                      [] StackingOf[i.name] = "PROLONG" -> i.life + life
                      [] StackingOf[i.name] = "MERGE" -> Later(i.life, life)
                      [] StackingOf[i.name] = "KEEP" -> i.life
<1>2. lived \in Nat \cup {Unset}
  <2>1. CASE StackingOf[i.name] = "REPLACE"
    BY <1>1, <2>1
  <2>2. CASE StackingOf[i.name] = "PROLONG"
    <3>1. i.life \in Nat /\ life \in Nat
      BY <1>1, <2>2 DEF CanRefresh
    <3> QED
      BY <2>2, <3>1
  <2>3. CASE StackingOf[i.name] = "MERGE"
    <3>1. i.life \in Nat /\ life \in Nat
      BY <1>1, <2>3 DEF CanRefresh
    <3> QED
      BY <2>3, <3>1 DEF Later
  <2>4. CASE StackingOf[i.name] = "KEEP"
    BY <1>1, <2>4
  <2> QED
    BY <1>1, <2>1, <2>2, <2>3, <2>4, ModifierAssumption
<1>3. Refreshed(i, life, v) = [i EXCEPT !.value = v, !.life = lived]
  BY DEF Refreshed, Instance
<1> HIDE DEF lived
<1> QED
  BY <1>1, <1>2, <1>3 DEF Altered, Instance, Live

(* The recursion of Survivors defines a function.                          *)
KeptUpTo(l, f, n) ==
  IF n = 0 THEN <<>>
  ELSE IF IsAlive(l[n]) THEN Append(f[n - 1], l[n]) ELSE f[n - 1]

Surviving(l, k, f) == f = [n \in 0 .. k |-> KeptUpTo(l, f, n)]

(* The recursion of Survivors defines a function.                          *)
LEMMA SurvivingExists ==
  ASSUME NEW l \in Seq(Instance)
  PROVE  \E f : Surviving(l, Len(l), f)
<1> DEFINE T == {k \in Nat : \E f : Surviving(l, k, f)}
<1>1. 0 \in T
  <2> DEFINE f == [n \in 0 .. 0 |-> KeptUpTo(l, <<>>, n)]
  <2>1. \A n \in 0 .. 0 : KeptUpTo(l, f, n) = KeptUpTo(l, <<>>, n)
    BY DEF KeptUpTo
  <2>2. Surviving(l, 0, f)
    BY <2>1 DEF Surviving
  <2> QED
    BY <2>2
<1>2. ASSUME NEW k \in Nat, k \in T PROVE k + 1 \in T
  <2>1. PICK g : Surviving(l, k, g)
    BY <1>2
  <2> DEFINE f == [n \in 0 .. k + 1 |-> KeptUpTo(l, g, n)]
  <2>2. \A n \in 0 .. k : f[n] = KeptUpTo(l, g, n) /\ g[n] = KeptUpTo(l, g, n)
    BY <2>1 DEF Surviving
  <2>3. \A n \in 0 .. k : f[n] = g[n]
    BY <2>2
  <2>4. ASSUME NEW n \in 0 .. k + 1 PROVE KeptUpTo(l, f, n) = KeptUpTo(l, g, n)
    <3>1. n # 0 => n - 1 \in 0 .. k
      OBVIOUS
    <3>2. n # 0 => f[n - 1] = g[n - 1]
      BY <2>3, <3>1
    <3> QED
      BY <3>2 DEF KeptUpTo
  <2>5. Surviving(l, k + 1, f)
    BY <2>4 DEF Surviving
  <2> HIDE DEF f
  <2> QED
    BY <2>5
<1>3. Len(l) \in T
  <2>1. Len(l) \in Nat
    OBVIOUS
  <2> HIDE DEF T
  <2> QED
    BY <1>1, <1>2, <2>1, Induction
<1> QED
  BY <1>3

(* The instances of m are alive ones of the first n of l, none of which has*)
(* moved up.                                                               *)
FromFirst(l, n, m, f) ==
  /\ m \in Seq(Instance)
  /\ \A p \in DOMAIN m : f[p] \in p .. n /\ m[p] = l[f[p]] /\ m[p].state = Alive

(* A live instance that is appended comes from the position after.         *)
LEMMA OneMoreSurvives ==
  ASSUME NEW l, NEW n \in Nat, NEW m, NEW f, FromFirst(l, n, m, f),
         l[n + 1] \in Instance, IsAlive(l[n + 1])
  PROVE  \E g : FromFirst(l, n + 1, Append(m, l[n + 1]), g)
<1> DEFINE w == Append(m, l[n + 1])
           g == [p \in 1 .. Len(m) + 1 |-> IF p = Len(m) + 1 THEN n + 1 ELSE f[p]]
<1>1. /\ w \in Seq(Instance) /\ Len(m) \in Nat
      /\ DOMAIN w = 1 .. Len(m) + 1 /\ DOMAIN m = 1 .. Len(m)
      /\ w[Len(m) + 1] = l[n + 1] /\ \A p \in 1 .. Len(m) : w[p] = m[p]
  BY DEF FromFirst
<1>2. \A p \in 1 .. Len(m) : g[p] = f[p] /\ g[p] \in p .. n
  BY <1>1 DEF FromFirst
<1>3. g[Len(m) + 1] = n + 1
  BY <1>1
<1> HIDE DEF w, g
<1>4. Len(m) <= n
  <2>1. CASE Len(m) = 0
    BY <2>1
  <2>2. CASE Len(m) # 0
    BY <1>1, <1>2, <2>2
  <2> QED
    BY <2>1, <2>2
<1>5. \A p \in DOMAIN w : g[p] \in p .. n + 1 /\ w[p] = l[g[p]] /\ w[p].state = Alive
  BY <1>1, <1>2, <1>3, <1>4 DEF IsAlive, FromFirst
<1>6. FromFirst(l, n + 1, w, g)
  BY <1>1, <1>5 DEF FromFirst
<1> QED
  BY <1>6 DEF w

(* What the clean-up leaves comes from the list in that way.               *)
LEMMA SurvivorsAreCleaned ==
  ASSUME NEW l \in Seq(Instance)
  PROVE  Cleaned(l, Survivors(l))
<1> DEFINE kept == CHOOSE f : Surviving(l, Len(l), f)
           T == {n \in Nat : n <= Len(l) => \E f : FromFirst(l, n, kept[n], f)}
<1>1. Surviving(l, Len(l), kept)
  BY SurvivingExists
<1>2. Survivors(l) = kept[Len(l)]
  BY DEF Survivors, Surviving, KeptUpTo
<1>3. Len(l) \in Nat /\ DOMAIN l = 1 .. Len(l)
  OBVIOUS
<1> HIDE DEF kept
<1>4. 0 \in T
  <2>1. kept[0] = <<>>
    BY <1>1, <1>3 DEF Surviving, KeptUpTo
  <2>2. FromFirst(l, 0, <<>>, <<>>)
    BY DEF FromFirst
  <2> QED
    BY <2>1, <2>2
<1>5. ASSUME NEW n \in Nat, n \in T PROVE n + 1 \in T
  <2>1. SUFFICES ASSUME n + 1 <= Len(l) PROVE \E f : FromFirst(l, n + 1, kept[n + 1], f)
    OBVIOUS
  <2>2. PICK f : FromFirst(l, n, kept[n], f)
    BY <1>3, <1>5, <2>1
  <2>3. n + 1 \in 0 .. Len(l) /\ n + 1 # 0 /\ n + 1 - 1 = n /\ n + 1 \in DOMAIN l
    BY <1>3, <2>1
  <2>4. kept[n + 1] = KeptUpTo(l, kept, n + 1)
    BY <1>1, <2>3 DEF Surviving
  <2>5. CASE ~IsAlive(l[n + 1])
    <3>1. FromFirst(l, n + 1, kept[n], f)
      BY <2>2 DEF FromFirst
    <3>2. kept[n + 1] = kept[n]
      BY <2>3, <2>4, <2>5 DEF KeptUpTo
    <3> QED
      BY <3>1, <3>2
  <2>6. CASE IsAlive(l[n + 1])
    <3>1. l[n + 1] \in Instance
      BY <2>3
    <3>2. \E g : FromFirst(l, n + 1, Append(kept[n], l[n + 1]), g)
      BY <2>2, <2>6, <3>1, OneMoreSurvives
    <3>3. kept[n + 1] = Append(kept[n], l[n + 1])
      BY <2>3, <2>4, <2>6 DEF KeptUpTo
    <3> QED
      BY <3>2, <3>3, Zenon
  <2> QED
    BY <2>5, <2>6
<1>6. Len(l) \in T
  <2> HIDE DEF T
  <2> QED
    BY <1>3, <1>4, <1>5, Induction
<1> DEFINE m == kept[Len(l)]
<1>7. PICK f : FromFirst(l, Len(l), m, f)
  BY <1>3, <1>6
<1>8. m \in Seq(Instance)
  BY <1>7 DEF FromFirst
<1> HIDE DEF m
<1>9. \A p \in DOMAIN m : p \in Nat \ {0} /\ f[p] \in p .. Len(l)
  BY <1>7, <1>8 DEF FromFirst
<1>10. \A p \in DOMAIN m : f[p] \in DOMAIN l /\ p <= f[p]
  BY <1>3, <1>9
<1>11. Cleaned(l, m)
  BY <1>7, <1>8, <1>10 DEF Cleaned, FromFirst
<1> QED
  BY <1>2, <1>11 DEF m

(* An add appends one instance, or refreshes one: what was added before by *)
(* the same source is matched.                                             *)
LEMMA AddsJoinOrAlter ==
  ASSUME ModifierTypeOK, AddByLength
  PROVE  InPlace(list, list') \/ Joined(list, list')
<1>1. PICK n \in Name, src \in Source, life \in Lives, v \in Values :
        AddOrRefresh(<<n, Len(list) + 1>>, n, src, life, v)
  BY DEF AddByLength
<1> DEFINE i == [id |-> <<n, Len(list) + 1>>, name |-> n, source |-> src, life |-> life,
                 value |-> v, state |-> ToBeAdded]
<1>2. i \in Instance /\ i.id[2] = Len(list) + 1
  BY ModifierAssumption DEF Instance, ModifierTypeOK
<1>3. CASE /\ StackingOf[n] = "MULTIPLE" \/ NoMatch(n, src)
           /\ list' = Append(list, i)
  <2>1. ASSUME NEW p \in DOMAIN list, Live(list[p]), list[p].name = i.name,
               list[p].source = i.source
        PROVE  StackingOf[i.name] = "MULTIPLE"
    <3>1. Matches(list[p], n, src)
      BY <2>1 DEF Matches
    <3> QED
      BY <1>3, <3>1 DEF NoMatch
  <2> HIDE DEF i
  <2>2. Joined(list, list')
    BY <1>2, <1>3, <2>1 DEF Joined
  <2> QED
    BY <2>2
<1>4. ASSUME NEW p \in DOMAIN list, StackingOf[n] # "MULTIPLE", FirstMatch(n, src, p),
             CanRefresh(list[p], life), list' = [list EXCEPT ![p] = Refreshed(@, life, v)]
      PROVE  InPlace(list, list')
  <2>1. list \in Seq(Instance) /\ list[p] \in Instance /\ list[p].name = n
    BY <1>4 DEF ModifierTypeOK, FirstMatch, Matches
  <2>2. Altered(list[p], Refreshed(list[p], life, v))
    BY <1>4, <2>1, RefreshAlters
  <2> QED
    BY <1>4, <2>1, <2>2, OneIsAltered
<1> QED
  BY <1>1, <1>3, <1>4 DEF AddOrRefresh

(* Activation, expiry and removal alter instances in their places.         *)
LEMMA OthersAlter ==
  ASSUME ModifierTypeOK
  PROVE  /\ \A id : Activate(id) \/ RemoveSelf(id) => InPlace(list, list')
         /\ TickLifetime => InPlace(list, list')
         /\ \A n : RemoveNamed(n) => InPlace(list, list')
<1>1. list \in Seq(Instance)
  BY DEF ModifierTypeOK
<1>2. \A p \in DOMAIN list : list[p] \in Instance
  BY <1>1
<1>3. ASSUME NEW id, NEW p \in DOMAIN list, list[p].state = ToBeAdded,
             list' = [list EXCEPT ![p].state = Alive]
      PROVE  InPlace(list, list')
  <2>1. Altered(list[p], [list[p] EXCEPT !.state = Alive])
    BY <1>2, <1>3 DEF Altered, Instance, Live, ToBeAdded, Alive, ToBeRemoved
  <2> QED
    BY <1>1, <1>3, <2>1, OneIsAltered
<1>4. \A i \in Instance : Altered(i, i) /\ Altered(i, Doomed(i)) /\ Altered(i, Ticked(i))
  <2>1. \A i \in Instance : Altered(i, i)
    BY DEF Altered
  <2>2. \A i \in Instance : Altered(i, Doomed(i))
    BY DEF Altered, Instance, Live, ToBeAdded, Alive, ToBeRemoved, Doomed
  <2>3. ASSUME NEW i \in Instance PROVE Altered(i, Ticked(i))
    <3>1. CASE i.state # Alive \/ i.life = Unset
      BY <2>1, <3>1 DEF Ticked
    <3>2. CASE ~(i.state # Alive \/ i.life = Unset)
      <4>1. i.life \in Nat /\ i.state = Alive
        BY <3>2 DEF Instance
      <4>2. CASE i.life <= 1
        <5>1. Ticked(i) = [i EXCEPT !.life = 0, !.state = ToBeRemoved]
          BY <3>2, <4>2 DEF Ticked
        <5> DEFINE j == [i EXCEPT !.life = 0, !.state = ToBeRemoved]
        <5>2. /\ j \in Instance /\ j.state = ToBeRemoved
              /\ j.id = i.id /\ j.name = i.name /\ j.source = i.source
          BY DEF Instance
        <5> HIDE DEF j
        <5>3. Altered(i, j)
          BY <4>1, <5>2 DEF Altered, Live, Alive, ToBeRemoved
        <5> QED
          BY <5>1, <5>3 DEF j
      <4>3. CASE ~(i.life <= 1)
        <5>1. Ticked(i) = [i EXCEPT !.life = @ - 1]
          BY <3>2, <4>3 DEF Ticked
        <5>2. i.life - 1 \in Nat
          BY <4>1, <4>3
        <5> QED
          BY <4>1, <5>1, <5>2 DEF Altered, Instance, Live
      <4> QED
        BY <4>2, <4>3
    <3> QED
      BY <3>1, <3>2
  <2> QED
    BY <2>1, <2>2, <2>3
<1>5. ASSUME NEW p \in DOMAIN list, list' = [list EXCEPT ![p] = Doomed(@)]
      PROVE  InPlace(list, list')
  BY <1>1, <1>2, <1>4, <1>5, OneIsAltered
<1>6. TickLifetime => InPlace(list, list')
  <2>1. SUFFICES ASSUME TickLifetime PROVE InPlace(list, list')
    OBVIOUS
  <2>2. list' = [p \in DOMAIN list |-> Ticked(list[p])]
    BY <2>1 DEF TickLifetime
  <2>3. list' = [p \in DOMAIN list |-> list'[p]]
    BY <2>2
  <2> QED
    BY <1>1, <1>2, <1>4, <2>2, <2>3, AllAreAltered
<1>7. ASSUME NEW n, RemoveNamed(n) PROVE InPlace(list, list')
  <2>1. list' = [p \in DOMAIN list |->
                   IF list[p].name = n /\ FirstWith(list[p].id, p)
                   THEN Doomed(list[p]) ELSE list[p]]
    BY <1>7 DEF RemoveNamed
  <2>2. list' = [p \in DOMAIN list |-> list'[p]]
    BY <2>1
  <2> QED
    BY <1>1, <1>2, <1>4, <2>1, <2>2, AllAreAltered
<1>8. \A id : Activate(id) => InPlace(list, list')
  BY <1>3 DEF Activate
<1>9. \A id : RemoveSelf(id) => InPlace(list, list')
  BY <1>5 DEF RemoveSelf
<1> QED
  BY <1>6, <1>7, <1>8, <1>9

(* A value write puts what becomes of one instance in the places of all    *)
(* that share its id.                                                      *)
LEMMA SetValueAlters ==
  ASSUME ModifierTypeOK, NEW n, NEW v \in Values, SetValue(n, v)
  PROVE  InPlace(list, list')
<1>1. list \in Seq(Instance)
  BY DEF ModifierTypeOK
<1>2. PICK p \in DOMAIN list :
        list' = [q \in DOMAIN list |->
                   IF list[q].id = list[p].id THEN [list[p] EXCEPT !.value = v] ELSE list[q]]
  BY DEF SetValue
<1>3. Altered(list[p], [list[p] EXCEPT !.value = v])
  <2>1. list[p] \in Instance
    BY <1>1
  <2> QED
    BY <2>1 DEF Altered, Instance, Live
<1>4. DOMAIN list' = DOMAIN list /\ list' \in Seq(Instance)
  <2>1. \A q \in DOMAIN list : list[q] \in Instance /\ [list[p] EXCEPT !.value = v] \in Instance
    BY <1>1, <1>3 DEF Altered
  <2>2. DOMAIN list = 1 .. Len(list) /\ Len(list) \in Nat
    BY <1>1
  <2> QED
    BY <1>2, <2>1, <2>2
<1>5. ASSUME NEW q \in DOMAIN list
      PROVE  \E r \in DOMAIN list : list[r].id = list[q].id /\ Altered(list[r], list'[q])
  <2>1. CASE list[q].id = list[p].id
    BY <1>2, <1>3, <2>1
  <2>2. CASE list[q].id # list[p].id
    <3>1. list'[q] = list[q] /\ list[q] \in Instance
      BY <1>1, <1>2, <2>2
    <3> QED
      BY <3>1 DEF Altered
  <2> QED
    BY <2>1, <2>2
<1> QED
  BY <1>4, <1>5 DEF InPlace

(* So every step is one of the three.                                      *)
LEMMA StepsJoinAlterOrClean ==
  ASSUME ModifierTypeOK, [ModifierNext]_list
  PROVE  InPlace(list, list') \/ Cleaned(list, list') \/ Joined(list, list')
<1>1. list \in Seq(Instance)
  BY DEF ModifierTypeOK
<1>2. CASE AddByLength
  BY <1>2, AddsJoinOrAlter
<1>3. CASE RemoveDirty
  BY <1>1, <1>3, SurvivorsAreCleaned DEF RemoveDirty
<1>4. CASE ModifierNext /\ ~AddByLength /\ ~RemoveDirty
  BY <1>4, OthersAlter, SetValueAlters DEF ModifierNext
<1>5. CASE UNCHANGED list
  <2>1. \A p \in DOMAIN list : Altered(list[p], list[p])
    BY <1>1 DEF Altered
  <2> QED
    BY <1>1, <1>5, <2>1 DEF InPlace
<1> QED
  BY <1>2, <1>3, <1>4, <1>5

(* What RemovedStayRemoved says of a step.                                 *)
RemovedStay(l, m) ==
  \A p \in DOMAIN l :
    (\A q \in DOMAIN l : l[q].id = l[p].id => ~Live(l[q])) =>
      \A r \in DOMAIN m : m[r].id = l[p].id => ~Live(m[r]) \/ r = Len(l) + 1

(* Each of the three keeps the invariant, and brings no removed id back:   *)
(* edits in place give every place what becomes of an instance of its id.  *)
LEMMA AlterationsKeepModifiers ==
  ASSUME NEW l, NEW m, Numbered(l), TwinsShareId(l), InPlace(l, m)
  PROVE  Numbered(m) /\ TwinsShareId(m) /\ RemovedStay(l, m)
<1>1. DOMAIN m = DOMAIN l
  BY DEF InPlace
<1>2. \A p \in DOMAIN l : \E q \in DOMAIN l : l[q].id = l[p].id /\ Altered(l[q], m[p])
  BY DEF InPlace
<1>3. \A p \in DOMAIN l : m[p].id = l[p].id
  BY <1>2 DEF Altered
<1>4. Numbered(m)
  BY <1>1, <1>3 DEF Numbered
<1>5. TwinsShareId(m)
  <2>1. SUFFICES ASSUME NEW p \in DOMAIN l, NEW q \in DOMAIN l, Live(m[p]), Live(m[q]),
                        m[p].name = m[q].name, m[p].source = m[q].source,
                        StackingOf[m[p].name] # "MULTIPLE"
                 PROVE  m[p].id = m[q].id
    BY <1>1 DEF TwinsShareId
  <2>2. PICK a \in DOMAIN l : l[a].id = l[p].id /\ Altered(l[a], m[p])
    BY <1>2
  <2>3. PICK b \in DOMAIN l : l[b].id = l[q].id /\ Altered(l[b], m[q])
    BY <1>2
  <2>4. l[a].id = l[b].id
    BY <2>1, <2>2, <2>3 DEF TwinsShareId, Altered
  <2> QED
    BY <1>3, <2>2, <2>3, <2>4
<1>6. RemovedStay(l, m)
  BY <1>1, <1>2, <1>3 DEF RemovedStay, Altered
<1> QED
  BY <1>4, <1>5, <1>6

(* The cleanup moves the alive ones down.                                  *)
LEMMA CleaningKeepsModifiers ==
  ASSUME NEW l \in Seq(Instance), NEW m, Numbered(l), TwinsShareId(l), Cleaned(l, m)
  PROVE  Numbered(m) /\ TwinsShareId(m) /\ RemovedStay(l, m)
<1>1. PICK f : \A p \in DOMAIN m : /\ f[p] \in DOMAIN l /\ p <= f[p]
                                  /\ m[p] = l[f[p]] /\ m[p].state = Alive
  BY DEF Cleaned
<1>2. ASSUME NEW p \in DOMAIN m PROVE p <= m[p].id[2]
  <2>1. p \in Nat /\ f[p] \in Nat /\ l[f[p]] \in Instance /\ f[p] \in DOMAIN l
    BY <1>1, <1>2 DEF Cleaned
  <2>2. l[f[p]].id[2] \in Nat
    BY <2>1 DEF Instance
  <2>3. f[p] <= l[f[p]].id[2]
    BY <2>1 DEF Numbered
  <2> QED
    BY <1>1, <2>1, <2>2, <2>3
<1>3. TwinsShareId(m)
  BY <1>1 DEF TwinsShareId
<1>4. RemovedStay(l, m)
  BY <1>1 DEF RemovedStay
<1> QED
  BY <1>2, <1>3, <1>4 DEF Numbered

(* A new instance has the number of its place, and no live one to match.   *)
LEMMA JoiningKeepsModifiers ==
  ASSUME NEW l \in Seq(Instance), NEW m, Numbered(l), TwinsShareId(l), Joined(l, m)
  PROVE  m \in Seq(Instance) /\ Numbered(m) /\ TwinsShareId(m) /\ RemovedStay(l, m)
<1>1. PICK i \in Instance :
        /\ m = Append(l, i) /\ i.id[2] = Len(l) + 1
        /\ \A p \in DOMAIN l :
             ~(/\ Live(l[p]) /\ l[p].name = i.name /\ l[p].source = i.source
               /\ StackingOf[i.name] # "MULTIPLE")
  BY DEF Joined
<1>2. /\ m \in Seq(Instance) /\ Len(l) \in Nat
      /\ DOMAIN m = DOMAIN l \cup {Len(l) + 1} /\ m[Len(l) + 1] = i
      /\ \A p \in DOMAIN l : m[p] = l[p]
  BY <1>1
<1>3. Numbered(m)
  BY <1>1, <1>2 DEF Numbered
<1>4. TwinsShareId(m)
  BY <1>1, <1>2 DEF TwinsShareId
<1>5. RemovedStay(l, m)
  BY <1>2 DEF RemovedStay
<1> QED
  BY <1>2, <1>3, <1>4, <1>5

(* Hence every step does.                                                  *)
LEMMA StepKeepsModifiers ==
  ASSUME ModifierInv, [ModifierNext]_list
  PROVE  ModifierInv' /\ RemovedStay(list, list')
<1>1. ModifierTypeOK /\ list \in Seq(Instance) /\ Numbered(list) /\ TwinsShareId(list)
  BY DEF ModifierInv, ModifierTypeOK
<1>2. ASSUME list' \in Seq(Instance), Numbered(list'), TwinsShareId(list')
      PROVE  ModifierInv'
  BY <1>2 DEF ModifierInv, ModifierTypeOK, Numbered, TwinsShareId
<1>3. CASE InPlace(list, list')
  <2>1. list' \in Seq(Instance)
    BY <1>3 DEF InPlace
  <2> QED
    BY <1>1, <1>2, <1>3, <2>1, AlterationsKeepModifiers
<1>4. CASE Cleaned(list, list')
  <2>1. list' \in Seq(Instance)
    BY <1>4 DEF Cleaned
  <2> QED
    BY <1>1, <1>2, <1>4, <2>1, CleaningKeepsModifiers
<1>5. CASE Joined(list, list')
  BY <1>1, <1>2, <1>5, JoiningKeepsModifiers
<1> QED
  BY <1>1, <1>3, <1>4, <1>5, StepsJoinAlterOrClean

(* The list of modifiers starts empty.                                     *)
LEMMA ModifiersStartEmpty == ModifierInit => ModifierInv
  BY DEF ModifierInit, ModifierInv, ModifierTypeOK, Numbered, TwinsShareId

(* For every set of names, policies and sources, with the ids the executor *)
(* gives: two live instances of one name and source, under a policy other  *)
(* than MULTIPLE, share an id, and a cleanup has moved the first of them.  *)
THEOREM SourcesKeepOneId == ModifierSpec => []TwinsShareMovedId
<1>1. ModifierInv /\ [ModifierNext]_list => ModifierInv'
  BY StepKeepsModifiers
<1>2. ASSUME ModifierInv PROVE TwinsShareMovedId
  <2>1. SUFFICES ASSUME NEW p \in DOMAIN list, NEW q \in DOMAIN list, p < q,
                        list[p].id = list[q].id
                 PROVE  p < list[p].id[2]
    BY <1>2 DEF TwinsShareMovedId, ModifierInv, TwinsShareId
  <2>2. p \in Nat /\ q \in Nat /\ list[q] \in Instance
    BY <1>2 DEF ModifierInv, ModifierTypeOK
  <2>3. list[q].id[2] \in Nat
    BY <2>2 DEF Instance
  <2>4. q <= list[q].id[2]
    BY <1>2 DEF ModifierInv, Numbered
  <2> QED
    BY <2>1, <2>2, <2>3, <2>4
<1> QED
  BY <1>1, <1>2, ModifiersStartEmpty, PTL DEF ModifierSpec

(* No step makes an id live again whose instances are all marked: its next *)
(* live instance is a new one at the end of the list.                      *)
THEOREM RemovalsAreFinal == ModifierSpec => RemovedStayRemoved
<1> DEFINE Kept == \A p \in DOMAIN list :
                     (\A q \in DOMAIN list : list[q].id = list[p].id => ~Live(list[q])) =>
                       \A r \in DOMAIN list' :
                         list'[r].id = list[p].id => ~Live(list'[r]) \/ r = Len(list) + 1
<1>1. ModifierInv /\ [ModifierNext]_list => ModifierInv'
  BY StepKeepsModifiers
<1>2. ModifierInv /\ [ModifierNext]_list => [Kept]_list
  BY StepKeepsModifiers DEF RemovedStay
<1> HIDE DEF Kept
<1>3. ModifierSpec => [][Kept]_list
  BY <1>1, <1>2, ModifiersStartEmpty, PTL DEF ModifierSpec
<1> QED
  BY <1>3 DEF RemovedStayRemoved, Kept

-----------------------------------------------------------------------------
(* A formula is run token by token; a stack is a sequence of numbers, or   *)
(* Failed from the token on that raises.                                   *)
StackAfter(p, read, f, n) ==
  IF n = 0 THEN <<>>
  ELSE LET s == f[n - 1]
       IN  IF s = Failed THEN Failed ELSE AfterToken(p, read, s, p.tokens[n])

Runs(p, read, k, f) == f = [n \in 0 .. k |-> StackAfter(p, read, f, n)]

(* The recursion of Evaluate defines a function.                           *)
LEMMA RunExists ==
  ASSUME NEW p, NEW read, Len(p.tokens) \in Nat
  PROVE  \E f : Runs(p, read, Len(p.tokens), f)
<1> DEFINE T == {k \in Nat : \E f : Runs(p, read, k, f)}
<1>1. 0 \in T
  <2> DEFINE f == [n \in 0 .. 0 |-> StackAfter(p, read, <<>>, n)]
  <2>1. \A n \in 0 .. 0 : StackAfter(p, read, f, n) = StackAfter(p, read, <<>>, n)
    BY DEF StackAfter
  <2>2. Runs(p, read, 0, f)
    BY <2>1 DEF Runs
  <2> QED
    BY <2>2
<1>2. ASSUME NEW k \in Nat, k \in T PROVE k + 1 \in T
  <2>1. PICK g : Runs(p, read, k, g)
    BY <1>2
  <2> DEFINE f == [n \in 0 .. k + 1 |-> StackAfter(p, read, g, n)]
  <2>2. \A n \in 0 .. k : f[n] = StackAfter(p, read, g, n) /\ g[n] = StackAfter(p, read, g, n)
    BY <2>1 DEF Runs
  <2>3. \A n \in 0 .. k : f[n] = g[n]
    BY <2>2
  <2>4. ASSUME NEW n \in 0 .. k + 1 PROVE StackAfter(p, read, f, n) = StackAfter(p, read, g, n)
    <3>1. n # 0 => n - 1 \in 0 .. k
      OBVIOUS
    <3>2. n # 0 => f[n - 1] = g[n - 1]
      BY <2>3, <3>1
    <3> QED
      BY <3>2 DEF StackAfter
  <2>5. Runs(p, read, k + 1, f)
    BY <2>4 DEF Runs
  <2> HIDE DEF f
  <2> QED
    BY <2>5
<1>3. Len(p.tokens) \in T
  <2> HIDE DEF T
  <2> QED
    BY <1>1, <1>2, Induction
<1> QED
  BY <1>3

(* What Evaluate returns comes from the last stack of that function.       *)
LEMMA EvaluateIsRun ==
  ASSUME NEW p, NEW read, Len(p.tokens) \in Nat
  PROVE  \E f : /\ \A n \in 0 .. Len(p.tokens) : f[n] = StackAfter(p, read, f, n)
                /\ Evaluate(p, read) = LET stack == f[Len(p.tokens)]
                                       IN  IF stack # Failed /\ Len(stack) = 1
                                           THEN stack[1] ELSE Failed
<1> DEFINE after == CHOOSE f : Runs(p, read, Len(p.tokens), f)
<1>1. Runs(p, read, Len(p.tokens), after)
  BY RunExists
<1>2. Evaluate(p, read) = LET stack == after[Len(p.tokens)]
                          IN  IF stack # Failed /\ Len(stack) = 1 THEN stack[1] ELSE Failed
  BY DEF Evaluate, Runs, StackAfter
<1> HIDE DEF after
<1>3. \A n \in 0 .. Len(p.tokens) : after[n] = StackAfter(p, read, after, n)
  BY <1>1 DEF Runs
<1> QED
  BY <1>2, <1>3

(* The tokens of a program that decodes index its own operands.            *)
LEMMA TokensAreInRange ==
  ASSUME NEW p \in Expression, Decodes(p), NEW n \in 1 .. Len(p.tokens)
  PROVE  LET t == p.tokens[n]
         IN  /\ t[1] \in Binary \cup {"FIXED", "DYNAMIC", "NEG", "END"}
             /\ t[1] = "FIXED" => p.fixed[t[2]] \in Int
             /\ t[1] = "DYNAMIC" => t[2] \in DOMAIN p.hashes /\ p.hashes[t[2]] \in Hashed
<1>1. p.tokens \in Seq(Token) /\ p.fixed \in Seq(Int) /\ p.hashes \in Seq(Hashed)
  BY ProgramAssumption
<1>2. n \in DOMAIN p.tokens /\ p.tokens[n] \in Token
  BY <1>1
<1>3. p.tokens[n][1] \in Binary \cup {"FIXED", "DYNAMIC", "NEG", "END"}
  BY <1>2 DEF Token
<1>4. p.tokens[n][1] = "FIXED" => p.tokens[n][2] \in DOMAIN p.fixed
  BY <1>2 DEF Decodes
<1>5. p.tokens[n][1] = "DYNAMIC" => p.tokens[n][2] \in DOMAIN p.hashes
  BY <1>2 DEF Decodes
<1>6. \A m \in DOMAIN p.fixed : p.fixed[m] \in Int
  BY <1>1
<1>7. \A m \in DOMAIN p.hashes : p.hashes[m] \in Hashed
  BY <1>1
<1> QED
  BY <1>3, <1>4, <1>5, <1>6, <1>7

(* A token turns a stack of numbers into one, or raises.                   *)
LEMMA TokensKeepNumbers ==
  ASSUME QuotientsAreNumbers, NEW p, NEW read, NEW s \in Seq(Int), NEW t,
         t[1] \in Binary \cup {"FIXED", "DYNAMIC", "NEG", "END"},
         t[1] = "FIXED" => p.fixed[t[2]] \in Int,
         t[1] = "DYNAMIC" => read[p.hashes[t[2]]] \in Int \cup {Failed}
  PROVE  AfterToken(p, read, s, t) \in Seq(Int) \cup {Failed}
<1>1. t[1] \in Binary \cup {"FIXED", "DYNAMIC", "NEG", "END"}
  OBVIOUS
<1>2. \A w \in Seq(Int), v \in Int \cup {Failed} : Pushed(w, v) \in Seq(Int) \cup {Failed}
  BY DEF Pushed
<1>3. CASE t[1] = "FIXED"
  BY <1>2, <1>3 DEF AfterToken, Binary
<1>4. CASE t[1] = "DYNAMIC"
  BY <1>2, <1>4 DEF AfterToken, Binary
<1>5. CASE t[1] = "END"
  BY <1>5 DEF AfterToken, Binary
<1>6. CASE t[1] = "NEG"
  <2>1. AfterToken(p, read, s, t)
          = IF Len(s) < 1 THEN Failed ELSE [s EXCEPT ![Len(s)] = -s[Len(s)]]
    BY <1>6 DEF AfterToken, Binary
  <2>2. Len(s) \in Nat /\ (~(Len(s) < 1) => s[Len(s)] \in Int /\ Len(s) \in DOMAIN s)
    OBVIOUS
  <2> QED
    BY <2>1, <2>2
<1>7. CASE t[1] \in Binary
  <2>1. AfterToken(p, read, s, t)
          = IF Len(s) < 2 THEN Failed
            ELSE Pushed(SubSeq(s, 1, Len(s) - 2), Computed(t[1], s[Len(s) - 1], s[Len(s)]))
    BY <1>7 DEF AfterToken, Binary
  <2>2. CASE ~(Len(s) < 2)
    <3>1. s[Len(s) - 1] \in Int /\ s[Len(s)] \in Int /\ SubSeq(s, 1, Len(s) - 2) \in Seq(Int)
      BY <2>2
    <3>2. \A l \in Int, r \in Int : Computed(t[1], l, r) \in Int \cup {Failed}
      BY <1>7 DEF Computed, Binary, QuotientsAreNumbers
    <3>3. Computed(t[1], s[Len(s) - 1], s[Len(s)]) \in Int \cup {Failed}
      BY <3>1, <3>2
    <3> QED
      BY <1>2, <2>1, <2>2, <3>1, <3>3
  <2> QED
    BY <2>1, <2>2
<1> QED
  BY <1>1, <1>3, <1>4, <1>5, <1>6, <1>7

(* So the stacks of a formula hold numbers, until it raises ...            *)
LEMMA StacksHoldNumbers ==
  ASSUME QuotientsAreNumbers, NEW p \in Expression, Decodes(p),
         NEW read, \A k \in Hashed : read[k] \in Int \cup {Failed},
         NEW f, \A n \in 0 .. Len(p.tokens) : f[n] = StackAfter(p, read, f, n)
  PROVE  \A n \in 0 .. Len(p.tokens) : f[n] \in Seq(Int) \cup {Failed}
<1>1. Len(p.tokens) \in Nat
  BY ProgramAssumption
<1>2. \A n \in 0 .. Len(p.tokens) : f[n] = StackAfter(p, read, f, n)
  OBVIOUS
<1> DEFINE T == {n \in Nat : n <= Len(p.tokens) => f[n] \in Seq(Int) \cup {Failed}}
<1>3. 0 \in T
  <2>1. f[0] = <<>>
    BY <1>1, <1>2 DEF StackAfter
  <2>2. f[0] \in Seq(Int) \cup {Failed}
    BY <2>1
  <2> QED
    BY <2>2
<1>4. ASSUME NEW n \in Nat, n \in T PROVE n + 1 \in T
  <2>1. SUFFICES ASSUME n + 1 <= Len(p.tokens) PROVE f[n + 1] \in Seq(Int) \cup {Failed}
    OBVIOUS
  <2>2. f[n] \in Seq(Int) \cup {Failed}
    BY <1>1, <1>4, <2>1
  <2>3. n + 1 \in 1 .. Len(p.tokens) /\ n + 1 \in 0 .. Len(p.tokens) /\ n + 1 # 0 /\ n + 1 - 1 = n
    BY <1>1, <2>1
  <2>4. f[n + 1] = StackAfter(p, read, f, n + 1)
    BY <1>2, <2>3
  <2>5. f[n + 1] = IF f[n] = Failed THEN Failed ELSE AfterToken(p, read, f[n], p.tokens[n + 1])
    BY <2>3, <2>4 DEF StackAfter
  <2>6. CASE f[n] # Failed
    <3> DEFINE t == p.tokens[n + 1]
    <3>1. /\ t[1] \in Binary \cup {"FIXED", "DYNAMIC", "NEG", "END"}
          /\ t[1] = "FIXED" => p.fixed[t[2]] \in Int
          /\ t[1] = "DYNAMIC" => read[p.hashes[t[2]]] \in Int \cup {Failed}
      BY <2>3, TokensAreInRange
    <3>2. f[n] \in Seq(Int)
      BY <2>2, <2>6
    <3> HIDE DEF t
    <3>3. AfterToken(p, read, f[n], t) \in Seq(Int) \cup {Failed}
      BY <3>1, <3>2, TokensKeepNumbers
    <3> QED
      BY <2>5, <2>6, <3>3 DEF t
  <2> QED
    BY <2>5, <2>6
<1>5. Nat \subseteq T
  <2> HIDE DEF T
  <2> QED
    BY <1>3, <1>4, Induction
<1> QED
  BY <1>1, <1>5

(* ... and its value is a number or raises ...                             *)
LEMMA EvaluateIsNumber ==
  ASSUME QuotientsAreNumbers, NEW p \in Expression, Decodes(p),
         NEW read, \A k \in Hashed : read[k] \in Int \cup {Failed}
  PROVE  Evaluate(p, read) \in Int \cup {Failed}
<1>1. Len(p.tokens) \in Nat
  BY ProgramAssumption
<1>2. PICK f : /\ \A n \in 0 .. Len(p.tokens) : f[n] = StackAfter(p, read, f, n)
               /\ Evaluate(p, read) = LET stack == f[Len(p.tokens)]
                                      IN  IF stack # Failed /\ Len(stack) = 1
                                          THEN stack[1] ELSE Failed
  BY <1>1, EvaluateIsRun
<1>3. \A n \in 0 .. Len(p.tokens) : f[n] \in Seq(Int) \cup {Failed}
  BY <1>2, StacksHoldNumbers
<1>4. f[Len(p.tokens)] \in Seq(Int) \cup {Failed}
  BY <1>1, <1>3
<1> QED
  BY <1>2, <1>4

(* ... and depends on nothing but the values of its hashes.                *)
LEMMA EvaluateReadsHashes ==
  ASSUME NEW p \in Expression, Decodes(p), NEW read, NEW other,
         \A n \in DOMAIN p.hashes : read[p.hashes[n]] = other[p.hashes[n]]
  PROVE  Evaluate(p, read) = Evaluate(p, other)
<1>1. Len(p.tokens) \in Nat
  BY ProgramAssumption
<1>2. PICK f : /\ \A n \in 0 .. Len(p.tokens) : f[n] = StackAfter(p, read, f, n)
               /\ Evaluate(p, read) = LET stack == f[Len(p.tokens)]
                                      IN  IF stack # Failed /\ Len(stack) = 1
                                          THEN stack[1] ELSE Failed
  BY <1>1, EvaluateIsRun
<1>3. PICK g : /\ \A n \in 0 .. Len(p.tokens) : g[n] = StackAfter(p, other, g, n)
               /\ Evaluate(p, other) = LET stack == g[Len(p.tokens)]
                                       IN  IF stack # Failed /\ Len(stack) = 1
                                           THEN stack[1] ELSE Failed
  BY <1>1, EvaluateIsRun
<1>4. ASSUME NEW n \in 1 .. Len(p.tokens), NEW s
      PROVE  AfterToken(p, read, s, p.tokens[n]) = AfterToken(p, other, s, p.tokens[n])
  <2> DEFINE t == p.tokens[n]
  <2>1. /\ t[1] \in Binary \cup {"FIXED", "DYNAMIC", "NEG", "END"}
        /\ t[1] = "DYNAMIC" => read[p.hashes[t[2]]] = other[p.hashes[t[2]]]
    BY TokensAreInRange
  <2> HIDE DEF t
  <2>2. AfterToken(p, read, s, t) = AfterToken(p, other, s, t)
    BY <2>1 DEF AfterToken, Binary
  <2> QED
    BY <2>2 DEF t
<1> DEFINE T == {n \in Nat : n <= Len(p.tokens) => f[n] = g[n]}
<1>5. 0 \in T
  <2>1. f[0] = <<>> /\ g[0] = <<>>
    BY <1>1, <1>2, <1>3 DEF StackAfter
  <2> QED
    BY <2>1
<1>6. ASSUME NEW n \in Nat, n \in T PROVE n + 1 \in T
  <2>1. SUFFICES ASSUME n + 1 <= Len(p.tokens) PROVE f[n + 1] = g[n + 1]
    OBVIOUS
  <2>2. f[n] = g[n]
    BY <1>1, <1>6, <2>1
  <2>3. n + 1 \in 1 .. Len(p.tokens) /\ n + 1 \in 0 .. Len(p.tokens) /\ n + 1 # 0 /\ n + 1 - 1 = n
    BY <1>1, <2>1
  <2>4. f[n + 1] = StackAfter(p, read, f, n + 1) /\ g[n + 1] = StackAfter(p, other, g, n + 1)
    BY <1>2, <1>3, <2>3
  <2>5. StackAfter(p, read, f, n + 1) = StackAfter(p, other, g, n + 1)
    BY <1>4, <2>2, <2>3 DEF StackAfter
  <2> QED
    BY <2>4, <2>5
<1>7. Len(p.tokens) \in T
  <2> HIDE DEF T
  <2> QED
    BY <1>1, <1>5, <1>6, Induction
<1>8. f[Len(p.tokens)] = g[Len(p.tokens)]
  BY <1>1, <1>7
<1> QED
  BY <1>2, <1>3, <1>8

-----------------------------------------------------------------------------
(* What the tokens of a formula end, see Ending: e has the expressions of  *)
(* the earlier tokens, each starts no later than it ends.                  *)
EndedBy(p, read, e, n) ==
  LET t == p.tokens[n]
      right == e[n - 1]
      left == e[right.first - 1]
  IN  CASE n = 0 -> NoExpression
        [] n > 0 /\ t[1] = "FIXED" -> [first |-> n, value |-> p.fixed[t[2]]]
        [] n > 0 /\ t[1] = "DYNAMIC" -> [first |-> n, value |-> read[p.hashes[t[2]]]]
        [] n > 0 /\ t[1] = "END" -> right
        [] n > 0 /\ t[1] = "NEG" ->
             IF right.value = Failed THEN right ELSE [right EXCEPT !.value = -@]
        [] n > 0 /\ t[1] \in Binary ->
             IF right.first = 0 THEN NoExpression
             ELSE IF left.first = 0 THEN NoExpression
             ELSE [first |-> left.first, value |-> Applied(t[1], left.value, right.value)]

Expressions(n) == [first : 0 .. n, value : Int \cup {Failed}]

Ends(p, read, k, e) ==
  /\ e = [n \in 0 .. k |-> EndedBy(p, read, e, n)]
  /\ \A n \in 0 .. k : e[n] \in Expressions(n)

(* What each kind of token ends.                                           *)
LEMMA EndedCases ==
  ASSUME NEW p, NEW read, NEW e, NEW n \in Nat \ {0}
  PROVE  LET t == p.tokens[n]
             right == e[n - 1]
             left == e[right.first - 1]
         IN  /\ t[1] = "FIXED" =>
                  EndedBy(p, read, e, n) = [first |-> n, value |-> p.fixed[t[2]]]
             /\ t[1] = "DYNAMIC" =>
                  EndedBy(p, read, e, n) = [first |-> n, value |-> read[p.hashes[t[2]]]]
             /\ t[1] = "END" => EndedBy(p, read, e, n) = right
             /\ t[1] = "NEG" =>
                  EndedBy(p, read, e, n) = IF right.value = Failed THEN right
                                           ELSE [right EXCEPT !.value = -@]
             /\ t[1] \in Binary =>
                  EndedBy(p, read, e, n)
                    = IF right.first = 0 THEN NoExpression
                      ELSE IF left.first = 0 THEN NoExpression
                      ELSE [first |-> left.first, value |-> Applied(t[1], left.value, right.value)]
<1> DEFINE tag == p.tokens[n][1]
<1>1. n # 0 /\ n > 0
  OBVIOUS
<1>2. CASE tag = "FIXED"
  BY <1>1, <1>2 DEF EndedBy, Binary
<1>3. CASE tag = "DYNAMIC"
  BY <1>1, <1>3 DEF EndedBy, Binary
<1>4. CASE tag = "END"
  BY <1>1, <1>4 DEF EndedBy, Binary
<1>5. CASE tag = "NEG"
  BY <1>1, <1>5 DEF EndedBy, Binary
<1>6. CASE tag \in Binary
  BY <1>1, <1>6 DEF EndedBy, Binary
<1>7. CASE tag \notin Binary \cup {"FIXED", "DYNAMIC", "END", "NEG"}
  BY <1>7
<1> QED
  BY <1>2, <1>3, <1>4, <1>5, <1>6, <1>7

(* An operation on numbers is the one of evaluate.                         *)
LEMMA AppliedIsComputed ==
  ASSUME QuotientsAreNumbers, NEW op \in Binary,
         NEW l \in Int \cup {Failed}, NEW r \in Int \cup {Failed}
  PROVE  /\ Applied(op, l, r) \in Int \cup {Failed}
         /\ l # Failed /\ r # Failed => Applied(op, l, r) = Computed(op, l, r)
         /\ l = Failed \/ r = Failed => Applied(op, l, r) = Failed
<1>1. CASE l = Failed \/ r = Failed
  BY <1>1 DEF Applied
<1>2. CASE l # Failed /\ r # Failed
  <2>1. l \in Int /\ r \in Int
    BY <1>2
  <2>2. CASE op = "ADD"
    BY <1>2, <2>1, <2>2 DEF Applied, Computed
  <2>3. CASE op = "SUB"
    BY <1>2, <2>1, <2>3 DEF Applied, Computed
  <2>4. CASE op = "MUL"
    <3>1. Applied(op, l, r) = l * r /\ Computed(op, l, r) = l * r
      BY <1>2, <2>4 DEF Applied, Computed
    <3> QED
      BY <1>2, <2>1, <3>1
  <2>5. CASE op = "DIV"
    BY <1>2, <2>1, <2>5 DEF Applied, Computed, QuotientsAreNumbers
  <2> QED
    BY <2>2, <2>3, <2>4, <2>5 DEF Binary
<1> QED
  BY <1>1, <1>2

(* A token of a formula that decodes ends an expression in order, if the   *)
(* tokens before it do.                                                    *)
LEMMA EndsAnExpression ==
  ASSUME QuotientsAreNumbers, NEW p \in Expression, Decodes(p),
         NEW read, \A k \in Hashed : read[k] \in Int \cup {Failed},
         NEW e, NEW n \in 1 .. Len(p.tokens), \A m \in 0 .. n - 1 : e[m] \in Expressions(m)
  PROVE  EndedBy(p, read, e, n) \in Expressions(n)
<1> DEFINE t == p.tokens[n]
           right == e[n - 1]
           left == e[right.first - 1]
<1>1. /\ t[1] \in Binary \cup {"FIXED", "DYNAMIC", "NEG", "END"}
      /\ t[1] = "FIXED" => p.fixed[t[2]] \in Int
      /\ t[1] = "DYNAMIC" => read[p.hashes[t[2]]] \in Int \cup {Failed}
  BY TokensAreInRange
<1>2. n \in Nat \ {0} /\ n - 1 \in 0 .. n - 1
  BY ProgramAssumption
<1>3. right \in Expressions(n - 1)
  BY <1>2
<1>4. right.first \in 0 .. n - 1 /\ right.value \in Int \cup {Failed}
  BY <1>3 DEF Expressions
<1>5. right.first # 0 => left \in Expressions(right.first - 1)
  <2>1. right.first # 0 => right.first - 1 \in 0 .. n - 1
    BY <1>2, <1>4
  <2> QED
    BY <2>1
<1>6. /\ t[1] = "FIXED" => EndedBy(p, read, e, n) = [first |-> n, value |-> p.fixed[t[2]]]
      /\ t[1] = "DYNAMIC" =>
           EndedBy(p, read, e, n) = [first |-> n, value |-> read[p.hashes[t[2]]]]
      /\ t[1] = "END" => EndedBy(p, read, e, n) = right
      /\ t[1] = "NEG" => EndedBy(p, read, e, n) = IF right.value = Failed THEN right
                                                  ELSE [right EXCEPT !.value = -@]
      /\ t[1] \in Binary =>
           EndedBy(p, read, e, n)
             = IF right.first = 0 THEN NoExpression
               ELSE IF left.first = 0 THEN NoExpression
               ELSE [first |-> left.first, value |-> Applied(t[1], left.value, right.value)]
  BY <1>2, EndedCases
<1> HIDE DEF t, right, left
<1>7. CASE t[1] = "FIXED"
  BY <1>1, <1>2, <1>6, <1>7 DEF Expressions
<1>8. CASE t[1] = "DYNAMIC"
  BY <1>1, <1>2, <1>6, <1>8 DEF Expressions
<1>9. CASE t[1] = "END"
  BY <1>2, <1>3, <1>6, <1>9 DEF Expressions
<1>10. CASE t[1] = "NEG"
  BY <1>2, <1>3, <1>6, <1>10 DEF Expressions
<1>11. CASE t[1] \in Binary
  <2>1. CASE right.first = 0 \/ left.first = 0
    BY <1>2, <1>6, <1>11, <2>1 DEF Expressions, NoExpression
  <2>2. CASE right.first # 0 /\ left.first # 0
    <3>1. left.first \in 0 .. n /\ left.value \in Int \cup {Failed}
      BY <1>2, <1>4, <1>5, <2>2 DEF Expressions
    <3>2. Applied(t[1], left.value, right.value) \in Int \cup {Failed}
      BY <1>4, <1>11, <3>1, AppliedIsComputed
    <3>3. EndedBy(p, read, e, n)
            = [first |-> left.first, value |-> Applied(t[1], left.value, right.value)]
      BY <1>6, <1>11, <2>2
    <3> QED
      BY <3>1, <3>2, <3>3 DEF Expressions
  <2> QED
    BY <2>1, <2>2
<1> QED
  BY <1>1, <1>7, <1>8, <1>9, <1>10, <1>11

(* What a token ends depends on the tokens before it only.                 *)
LEMMA EndedByEarlier ==
  ASSUME NEW p, NEW read, NEW e, NEW g, NEW n \in Nat \ {0},
         \A m \in 0 .. n - 1 : e[m] = g[m] /\ g[m] \in Expressions(m)
  PROVE  EndedBy(p, read, e, n) = EndedBy(p, read, g, n)
<1>1. n - 1 \in 0 .. n - 1
  OBVIOUS
<1>2. e[n - 1] = g[n - 1] /\ g[n - 1].first \in 0 .. n - 1
  BY <1>1 DEF Expressions
<1>3. g[n - 1].first # 0 => e[g[n - 1].first - 1] = g[g[n - 1].first - 1]
  <2>1. g[n - 1].first # 0 => g[n - 1].first - 1 \in 0 .. n - 1
    BY <1>2
  <2> QED
    BY <2>1
<1>4. CASE g[n - 1].first = 0
  BY <1>2, <1>4 DEF EndedBy
<1>5. CASE g[n - 1].first # 0
  BY <1>2, <1>3, <1>5 DEF EndedBy
<1> QED
  BY <1>4, <1>5

(* So the recursion of Ending defines a function ...                       *)
LEMMA EndingExists ==
  ASSUME QuotientsAreNumbers, NEW p \in Expression, Decodes(p),
         NEW read, \A k \in Hashed : read[k] \in Int \cup {Failed}
  PROVE  \E e : Ends(p, read, Len(p.tokens), e)
<1>1. Len(p.tokens) \in Nat
  BY ProgramAssumption
<1> DEFINE T == {k \in Nat : k <= Len(p.tokens) => \E e : Ends(p, read, k, e)}
<1>2. 0 \in T
  <2> DEFINE e == [n \in 0 .. 0 |-> NoExpression]
  <2>1. \A n \in 0 .. 0 : EndedBy(p, read, e, n) = NoExpression
    BY DEF EndedBy
  <2>2. NoExpression \in Expressions(0)
    BY DEF NoExpression, Expressions
  <2>3. Ends(p, read, 0, e)
    BY <2>1, <2>2 DEF Ends
  <2> QED
    BY <2>3
<1>3. ASSUME NEW k \in Nat, k \in T PROVE k + 1 \in T
  <2>1. SUFFICES ASSUME k + 1 <= Len(p.tokens) PROVE \E e : Ends(p, read, k + 1, e)
    OBVIOUS
  <2>2. PICK g : Ends(p, read, k, g)
    BY <1>1, <1>3, <2>1
  <2>3. \A n \in 0 .. k : g[n] = EndedBy(p, read, g, n) /\ g[n] \in Expressions(n)
    BY <2>2 DEF Ends
  <2> DEFINE e == [n \in 0 .. k + 1 |-> EndedBy(p, read, g, n)]
  <2>4. \A n \in 0 .. k + 1 : e[n] = EndedBy(p, read, g, n)
    OBVIOUS
  <2>5. \A n \in 0 .. k : e[n] = g[n] /\ g[n] \in Expressions(n)
    BY <2>3
  <2> HIDE DEF e
  <2>6. ASSUME NEW n \in 0 .. k + 1
        PROVE  EndedBy(p, read, e, n) = EndedBy(p, read, g, n)
    <3>1. CASE n = 0
      BY <3>1 DEF EndedBy
    <3>2. CASE n # 0
      <4>1. n \in Nat \ {0} /\ \A m \in 0 .. n - 1 : e[m] = g[m] /\ g[m] \in Expressions(m)
        BY <2>5, <3>2
      <4> QED
        BY <4>1, EndedByEarlier
    <3> QED
      BY <3>1, <3>2
  <2>7. \A n \in 0 .. k + 1 : e[n] \in Expressions(n)
    <3> SUFFICES ASSUME NEW n \in 0 .. k + 1 PROVE e[n] \in Expressions(n)
      OBVIOUS
    <3>1. CASE n \in 0 .. k
      BY <2>5, <3>1
    <3>2. CASE n \notin 0 .. k
      <4>1. n = k + 1 /\ n \in 1 .. Len(p.tokens) /\ n - 1 = k
        BY <1>1, <2>1, <3>2
      <4>2. \A m \in 0 .. n - 1 : g[m] \in Expressions(m)
        BY <2>3, <4>1
      <4>3. EndedBy(p, read, g, n) \in Expressions(n)
        BY <4>1, <4>2, EndsAnExpression
      <4> QED
        BY <2>4, <4>3
    <3> QED
      BY <3>1, <3>2
  <2>8. e = [n \in 0 .. k + 1 |-> EndedBy(p, read, e, n)]
    BY <2>6 DEF e
  <2> QED
    BY <2>7, <2>8 DEF Ends
<1>4. Nat \subseteq T
  <2> HIDE DEF T
  <2> QED
    BY <1>2, <1>3, Induction
<1> QED
  BY <1>1, <1>4

(* ... of expressions.                                                     *)
LEMMA EndingIsExpression ==
  ASSUME QuotientsAreNumbers, NEW p \in Expression, Decodes(p),
         NEW read, \A k \in Hashed : read[k] \in Int \cup {Failed}
  PROVE  Ends(p, read, Len(p.tokens), Ending(p, read))
<1> DEFINE L == Len(p.tokens)
           ending == CHOOSE e : e = [n \in 0 .. L |-> EndedBy(p, read, e, n)]
<1>1. Ending(p, read) = ending
  BY DEF Ending, EndedBy
<1>2. \E e : e = [n \in 0 .. L |-> EndedBy(p, read, e, n)]
  BY EndingExists DEF Ends
<1>3. ending = [n \in 0 .. L |-> EndedBy(p, read, ending, n)]
  BY <1>2
<1> HIDE DEF ending
<1>4. \A n \in 0 .. L : ending[n] = EndedBy(p, read, ending, n)
  BY <1>3
<1>5. L \in Nat
  BY ProgramAssumption
<1> DEFINE T == {k \in Nat : k <= L => \A n \in 0 .. k : ending[n] \in Expressions(n)}
<1>6. 0 \in T
  <2>1. 0 \in 0 .. L /\ ~(0 > 0)
    BY <1>5
  <2>2. EndedBy(p, read, ending, 0) = NoExpression
    BY <2>1 DEF EndedBy
  <2>3. ending[0] = NoExpression
    BY <1>4, <2>1, <2>2
  <2> QED
    BY <2>3 DEF NoExpression, Expressions
<1>7. ASSUME NEW k \in Nat, k \in T PROVE k + 1 \in T
  <2>1. SUFFICES ASSUME k + 1 <= L PROVE \A n \in 0 .. k + 1 : ending[n] \in Expressions(n)
    OBVIOUS
  <2>2. \A n \in 0 .. k : ending[n] \in Expressions(n)
    BY <1>5, <1>7, <2>1
  <2>3. k + 1 \in 1 .. L /\ k + 1 \in 0 .. L /\ k + 1 - 1 = k
    BY <1>5, <2>1
  <2>4. EndedBy(p, read, ending, k + 1) \in Expressions(k + 1)
    BY <2>2, <2>3, EndsAnExpression
  <2>5. ending[k + 1] \in Expressions(k + 1)
    BY <1>4, <2>3, <2>4
  <2> QED
    BY <2>2, <2>5
<1>8. Nat \subseteq T
  <2> HIDE DEF T
  <2> QED
    BY <1>6, <1>7, Induction
<1>9. \A n \in 0 .. L : ending[n] \in Expressions(n)
  BY <1>5, <1>8
<1> QED
  BY <1>1, <1>3, <1>9 DEF Ends

-----------------------------------------------------------------------------
(* The stack after a token is the stack before its expression, with the    *)
(* value of the expression on top.                                         *)
LEMMA NegatesTop ==
  ASSUME NEW s \in Seq(Int), NEW v \in Int
  PROVE  LET w == Append(s, v)
         IN  /\ w \in Seq(Int) /\ ~(Len(w) < 1)
             /\ [w EXCEPT ![Len(w)] = -@] = Append(s, -v)
<1> DEFINE w == Append(s, v)
           after == [w EXCEPT ![Len(w)] = -@]
           other == Append(s, -v)
<1>1. /\ w \in Seq(Int) /\ Len(w) = Len(s) + 1 /\ Len(s) \in Nat /\ w[Len(s) + 1] = v
      /\ \A n \in 1 .. Len(s) : w[n] = s[n]
  OBVIOUS
<1>2. /\ -v \in Int /\ other \in Seq(Int) /\ Len(other) = Len(s) + 1 /\ other[Len(s) + 1] = -v
      /\ \A n \in 1 .. Len(s) : other[n] = s[n]
  OBVIOUS
<1> HIDE DEF w, other
<1>3. /\ after \in Seq(Int) /\ Len(after) = Len(s) + 1
      /\ \A n \in 1 .. Len(s) + 1 : after[n] = IF n = Len(s) + 1 THEN -v ELSE w[n]
  BY <1>1, <1>2
<1>4. \A n \in 1 .. Len(s) + 1 : after[n] = other[n]
  <2> SUFFICES ASSUME NEW n \in 1 .. Len(s) + 1 PROVE after[n] = other[n]
    OBVIOUS
  <2>1. CASE n = Len(s) + 1
    BY <1>2, <1>3, <2>1
  <2>2. CASE n # Len(s) + 1
    <3>1. n \in 1 .. Len(s)
      BY <1>1, <2>2
    <3> QED
      BY <1>1, <1>2, <1>3, <2>2, <3>1
  <2> QED
    BY <2>1, <2>2
<1> HIDE DEF after
<1>5. after = other
  BY <1>2, <1>3, <1>4, SeqEqual
<1> QED
  BY <1>1, <1>5 DEF after, other, w

LEMMA ReplacesTopTwo ==
  ASSUME NEW s \in Seq(Int), NEW l \in Int, NEW r \in Int
  PROVE  LET w == Append(Append(s, l), r)
         IN  /\ Len(w) >= 2 /\ w[Len(w) - 1] = l /\ w[Len(w)] = r
             /\ SubSeq(w, 1, Len(w) - 2) = s
<1> DEFINE w == Append(Append(s, l), r)
<1>1. w \in Seq(Int) /\ Len(w) = Len(s) + 2 /\ Len(s) \in Nat
  OBVIOUS
<1>2. w[Len(s) + 1] = l /\ w[Len(s) + 2] = r
  OBVIOUS
<1>3. SubSeq(w, 1, Len(w) - 2) = s
  <2>1. Len(w) - 2 = Len(s)
    BY <1>1
  <2>2. \A n \in 1 .. Len(s) : w[n] = s[n]
    OBVIOUS
  <2> HIDE DEF w
  <2>3. SubSeq(w, 1, Len(s)) \in Seq(Int) /\ Len(SubSeq(w, 1, Len(s))) = Len(s)
    BY <1>1
  <2>4. \A n \in 1 .. Len(s) : SubSeq(w, 1, Len(s))[n] = s[n]
    BY <1>1, <2>2
  <2> QED
    BY <2>1, <2>3, <2>4, SeqEqual
<1> QED
  BY <1>1, <1>2, <1>3

(* What a stack is after a token that ends the expression e.               *)
Stacked(f, e) ==
  IF e.first = 0 THEN Failed
  ELSE IF f[e.first - 1] = Failed \/ e.value = Failed THEN Failed
  ELSE Append(f[e.first - 1], e.value)

(* Every token keeps it so ...                                             *)
LEMMA TokenStacks ==
  ASSUME QuotientsAreNumbers, NEW p \in Expression, Decodes(p),
         NEW read, \A k \in Hashed : read[k] \in Int \cup {Failed},
         NEW f, \A m \in 0 .. Len(p.tokens) : f[m] = StackAfter(p, read, f, m),
         NEW e, Ends(p, read, Len(p.tokens), e),
         NEW n \in 1 .. Len(p.tokens), \A m \in 1 .. n - 1 : f[m] = Stacked(f, e[m])
  PROVE  f[n] = Stacked(f, e[n])
<1> DEFINE L == Len(p.tokens)
           t == p.tokens[n]
           before == f[n - 1]
           right == e[n - 1]
           left == e[right.first - 1]
<1>1. L \in Nat /\ n \in Nat \ {0} /\ n - 1 \in 0 .. L /\ n \in 0 .. L /\ n # 0 /\ 0 \in 0 .. L
  BY ProgramAssumption
<1>2. Failed \notin Int /\ Failed \notin Seq(Int)
  BY ValueAssumption
<1>3. \A m \in 0 .. L : f[m] \in Seq(Int) \cup {Failed}
  BY StacksHoldNumbers
<1>4. \A m \in 0 .. L : e[m] = EndedBy(p, read, e, m) /\ e[m] \in Expressions(m)
  BY DEF Ends
<1>5. f[0] = <<>> /\ f[0] # Failed /\ Len(f[0]) = 0
  <2>1. f[0] = StackAfter(p, read, f, 0)
    BY <1>1
  <2>2. f[0] = <<>>
    BY <2>1 DEF StackAfter
  <2>3. <<>> \in Seq(Int) /\ Len(<<>>) = 0
    OBVIOUS
  <2> QED
    BY <1>2, <2>2, <2>3
<1>6. e[0].first = 0 /\ e[0].value = Failed
  <2>1. EndedBy(p, read, e, 0) = NoExpression
    BY DEF EndedBy
  <2> QED
    BY <1>1, <1>4, <2>1 DEF NoExpression
<1>7. f[n] = IF before = Failed THEN Failed ELSE AfterToken(p, read, before, t)
  <2>1. f[n] = StackAfter(p, read, f, n)
    BY <1>1
  <2> QED
    BY <1>1, <2>1 DEF StackAfter
<1>8. /\ t[1] \in Binary \cup {"FIXED", "DYNAMIC", "NEG", "END"}
      /\ t[1] = "FIXED" => p.fixed[t[2]] \in Int
      /\ t[1] = "DYNAMIC" => read[p.hashes[t[2]]] \in Int \cup {Failed}
  BY TokensAreInRange
<1>9. e[n] = EndedBy(p, read, e, n)
  BY <1>1, <1>4
<1>10. /\ t[1] = "FIXED" => e[n] = [first |-> n, value |-> p.fixed[t[2]]]
       /\ t[1] = "DYNAMIC" => e[n] = [first |-> n, value |-> read[p.hashes[t[2]]]]
       /\ t[1] = "END" => e[n] = right
       /\ t[1] = "NEG" => e[n] = IF right.value = Failed THEN right
                                 ELSE [right EXCEPT !.value = -@]
       /\ t[1] \in Binary =>
            e[n] = IF right.first = 0 THEN NoExpression
                   ELSE IF left.first = 0 THEN NoExpression
                   ELSE [first |-> left.first, value |-> Applied(t[1], left.value, right.value)]
  BY <1>1, <1>9, EndedCases
<1>11. before \in Seq(Int) \cup {Failed} /\ right \in Expressions(n - 1)
  BY <1>1, <1>3, <1>4
<1>12. n - 1 # 0 => before = Stacked(f, right)
  BY <1>1
<1>13. n - 1 = 0 => before = f[0] /\ right = e[0]
  OBVIOUS
<1>14. t[1] = "END" => n - 1 # 0
  <2>1. SUFFICES ASSUME n = 1, t[1] = "END" PROVE FALSE
    BY <1>1
  <2>2. p.tokens[1][1] = "END" /\ \A m \in DOMAIN p.tokens : p.tokens[m][1] = "END" <=> m = L
    BY <2>1 DEF Decodes
  <2>3. DOMAIN p.tokens = 1 .. L
    BY ProgramAssumption
  <2>4. L = 1
    BY <1>1, <2>1, <2>2, <2>3
  <2>5. \A m \in DOMAIN p.tokens : m = 1
    BY <2>3, <2>4
  <2>6. \E m \in DOMAIN p.tokens : p.tokens[m][1] \in {"FIXED", "DYNAMIC"}
    BY DEF Decodes
  <2> QED
    BY <2>2, <2>5, <2>6
<1>15. right.first \in 0 .. n - 1 /\ right.value \in Int \cup {Failed}
  BY <1>11 DEF Expressions
<1> HIDE DEF t, before, right, left
<1>16. CASE t[1] = "FIXED"
  <2>1. AfterToken(p, read, before, t) = Pushed(before, p.fixed[t[2]])
    BY <1>16 DEF AfterToken, Binary
  <2>2. e[n].first = n /\ e[n].value = p.fixed[t[2]]
    BY <1>10, <1>16
  <2>3. Stacked(f, e[n]) = IF before = Failed \/ p.fixed[t[2]] = Failed THEN Failed
                           ELSE Append(before, p.fixed[t[2]])
    BY <1>1, <2>2 DEF Stacked, before
  <2> QED
    BY <1>7, <2>1, <2>3 DEF Pushed
<1>17. CASE t[1] = "DYNAMIC"
  <2> DEFINE v == read[p.hashes[t[2]]]
  <2>1. AfterToken(p, read, before, t) = Pushed(before, v)
    BY <1>17 DEF AfterToken, Binary
  <2>2. e[n].first = n /\ e[n].value = v
    BY <1>10, <1>17
  <2> HIDE DEF v
  <2>3. Stacked(f, e[n]) = IF before = Failed \/ v = Failed THEN Failed ELSE Append(before, v)
    BY <1>1, <2>2 DEF Stacked, before
  <2> QED
    BY <1>7, <2>1, <2>3 DEF Pushed
<1>18. CASE t[1] = "END"
  <2>1. AfterToken(p, read, before, t) = before
    BY <1>18 DEF AfterToken, Binary
  <2>2. e[n] = right /\ before = Stacked(f, right)
    BY <1>10, <1>12, <1>14, <1>18
  <2>3. f[n] = before
    BY <1>7, <2>1
  <2> QED
    BY <2>2, <2>3
<1>19. CASE t[1] = "NEG"
  <2>1. AfterToken(p, read, before, t)
          = IF Len(before) < 1 THEN Failed ELSE [before EXCEPT ![Len(before)] = -@]
    BY <1>19 DEF AfterToken, Binary
  <2>2. e[n] = IF right.value = Failed THEN right ELSE [right EXCEPT !.value = -@]
    BY <1>10, <1>19
  <2>3. /\ e[n].first = right.first
        /\ e[n].value = IF right.value = Failed THEN Failed ELSE -right.value
    BY <1>11, <2>2 DEF Expressions
  <2>4. CASE right.first = 0
    <3>1. Stacked(f, e[n]) = Failed
      BY <2>3, <2>4 DEF Stacked
    <3>2. n - 1 # 0 => before = Failed
      BY <1>12, <2>4 DEF Stacked
    <3>3. n - 1 = 0 => Len(before) < 1
      BY <1>5, <1>13
    <3> QED
      BY <1>7, <2>1, <3>1, <3>2, <3>3
  <2>5. CASE right.first # 0
    <3> DEFINE below == f[right.first - 1]
    <3>1. n - 1 # 0
      BY <1>6, <1>13, <2>5
    <3>2. before = IF below = Failed \/ right.value = Failed THEN Failed
                   ELSE Append(below, right.value)
      BY <1>12, <2>5, <3>1 DEF Stacked
    <3>3. Stacked(f, e[n]) = IF below = Failed \/ e[n].value = Failed THEN Failed
                             ELSE Append(below, e[n].value)
      BY <2>3, <2>5 DEF Stacked
    <3>4. below \in Seq(Int) \cup {Failed}
      <4>1. right.first - 1 \in 0 .. L
        BY <1>1, <1>15, <2>5
      <4> QED
        BY <1>3, <4>1
    <3> HIDE DEF below
    <3>5. CASE below = Failed \/ right.value = Failed
      <4>1. f[n] = Failed
        BY <1>7, <3>2, <3>5
      <4>2. Stacked(f, e[n]) = Failed
        BY <2>3, <3>3, <3>5
      <4> QED
        BY <4>1, <4>2
    <3>6. CASE below # Failed /\ right.value # Failed
      <4>1. below \in Seq(Int) /\ right.value \in Int
        BY <1>15, <3>4, <3>6
      <4>2. before = Append(below, right.value)
        BY <3>2, <3>6
      <4>3. /\ before \in Seq(Int) /\ ~(Len(before) < 1)
            /\ [before EXCEPT ![Len(before)] = -@] = Append(below, -right.value)
        BY <4>1, <4>2, NegatesTop
      <4>4. before # Failed
        BY <1>2, <4>3
      <4>5. f[n] = Append(below, -right.value)
        BY <1>7, <2>1, <4>3, <4>4
      <4>6. e[n].value = -right.value /\ e[n].value # Failed
        BY <1>2, <2>3, <3>6, <4>1
      <4> QED
        BY <3>3, <3>6, <4>5, <4>6
    <3> QED
      BY <3>5, <3>6
  <2> QED
    BY <2>4, <2>5
<1>20. CASE t[1] \in Binary
  <2>1. AfterToken(p, read, before, t)
          = IF Len(before) < 2 THEN Failed
            ELSE Pushed(SubSeq(before, 1, Len(before) - 2),
                        Computed(t[1], before[Len(before) - 1], before[Len(before)]))
    BY <1>20 DEF AfterToken, Binary
  <2>2. e[n] = IF right.first = 0 THEN NoExpression
               ELSE IF left.first = 0 THEN NoExpression
               ELSE [first |-> left.first, value |-> Applied(t[1], left.value, right.value)]
    BY <1>10, <1>20
  <2>3. Stacked(f, NoExpression) = Failed
    BY DEF Stacked, NoExpression
  <2>4. CASE right.first = 0
    <3>1. Stacked(f, e[n]) = Failed
      BY <2>2, <2>3, <2>4
    <3>2. n - 1 # 0 => before = Failed
      BY <1>12, <2>4 DEF Stacked
    <3>3. n - 1 = 0 => Len(before) < 2
      BY <1>5, <1>13
    <3> QED
      BY <1>7, <2>1, <3>1, <3>2, <3>3
  <2>5. CASE right.first # 0
    <3> DEFINE q == right.first - 1
               below == f[q]
    <3>1. n - 1 # 0
      BY <1>6, <1>13, <2>5
    <3>2. before = IF below = Failed \/ right.value = Failed THEN Failed
                   ELSE Append(below, right.value)
      BY <1>12, <2>5, <3>1 DEF Stacked
    <3>3. q \in 0 .. n - 2 /\ q \in 0 .. L /\ q \in Nat
      BY <1>1, <1>15, <2>5
    <3>4. below \in Seq(Int) \cup {Failed} /\ left \in Expressions(q)
      BY <1>3, <1>4, <3>3 DEF left
    <3>5. q # 0 => below = Stacked(f, left)
      <4> HIDE DEF q
      <4>1. q # 0 => q \in 1 .. n - 1
        BY <1>1, <3>3
      <4>2. \A m \in 1 .. n - 1 : f[m] = Stacked(f, e[m])
        OBVIOUS
      <4>3. left = e[q]
        BY DEF left, q
      <4> QED
        BY <4>1, <4>2, <4>3
    <3>6. q = 0 => below = f[0] /\ left = e[0]
      BY DEF left
    <3> HIDE DEF below, q
    <3>7. CASE left.first = 0
      <4>1. Stacked(f, e[n]) = Failed
        BY <2>2, <2>3, <3>7
      <4>2. q # 0 => before = Failed
        BY <3>2, <3>5, <3>7 DEF Stacked
      <4>3. q = 0 => before = Failed \/ Len(before) < 2
        <5>1. SUFFICES ASSUME q = 0, before # Failed PROVE Len(before) < 2
          OBVIOUS
        <5>2. before = Append(<<>>, right.value)
          BY <1>5, <3>2, <3>6, <5>1
        <5> QED
          BY <5>2
      <4> QED
        BY <1>7, <2>1, <4>1, <4>2, <4>3
    <3>8. CASE left.first # 0
      <4> DEFINE base == f[left.first - 1]
                 v == Applied(t[1], left.value, right.value)
      <4>1. q # 0
        BY <1>6, <3>6, <3>8
      <4>2. below = IF base = Failed \/ left.value = Failed THEN Failed
                    ELSE Append(base, left.value)
        BY <3>5, <3>8, <4>1 DEF Stacked
      <4>3. left.first \in 0 .. q /\ left.value \in Int \cup {Failed}
        BY <3>4 DEF Expressions
      <4>4. base \in Seq(Int) \cup {Failed}
        <5>1. left.first - 1 \in 0 .. L
          BY <1>1, <3>3, <3>8, <4>3
        <5> QED
          BY <1>3, <5>1
      <4>5. e[n].first = left.first /\ e[n].value = v
        BY <2>2, <2>5, <3>8
      <4>6. Stacked(f, e[n]) = IF base = Failed \/ v = Failed THEN Failed ELSE Append(base, v)
        BY <3>8, <4>5 DEF Stacked
      <4>7. /\ left.value = Failed \/ right.value = Failed => v = Failed
            /\ left.value # Failed /\ right.value # Failed
                 => v = Computed(t[1], left.value, right.value)
        BY <1>15, <1>20, <4>3, AppliedIsComputed
      <4> HIDE DEF base, v
      <4>8. CASE base = Failed \/ left.value = Failed \/ right.value = Failed
        <5>1. before = Failed
          BY <3>2, <4>2, <4>8
        <5>2. Stacked(f, e[n]) = Failed
          BY <4>6, <4>7, <4>8
        <5> QED
          BY <1>7, <5>1, <5>2
      <4>9. CASE base # Failed /\ left.value # Failed /\ right.value # Failed
        <5>1. base \in Seq(Int) /\ left.value \in Int /\ right.value \in Int
          BY <1>15, <4>3, <4>4, <4>9
        <5>2. below = Append(base, left.value)
          BY <4>2, <4>9
        <5>3. below # Failed
          <6>1. Append(base, left.value) \in Seq(Int)
            BY <5>1
          <6> QED
            BY <1>2, <5>2, <6>1
        <5>4. before = Append(Append(base, left.value), right.value)
          BY <3>2, <4>9, <5>2, <5>3
        <5>5. before # Failed
          <6>1. Append(Append(base, left.value), right.value) \in Seq(Int)
            BY <5>1
          <6> QED
            BY <1>2, <5>4, <6>1
        <5>6. /\ ~(Len(before) < 2) /\ SubSeq(before, 1, Len(before) - 2) = base
              /\ before[Len(before) - 1] = left.value /\ before[Len(before)] = right.value
          BY <5>1, <5>4, ReplacesTopTwo
        <5>7. f[n] = Pushed(base, Computed(t[1], left.value, right.value))
          BY <1>7, <2>1, <5>5, <5>6
        <5>8. f[n] = Pushed(base, v)
          BY <4>7, <4>9, <5>7
        <5> QED
          BY <4>6, <4>9, <5>8 DEF Pushed
      <4> QED
        BY <4>8, <4>9
    <3> QED
      BY <3>7, <3>8
  <2> QED
    BY <2>4, <2>5
<1> QED
  BY <1>8, <1>16, <1>17, <1>18, <1>19, <1>20

(* ... so every token does.                                                *)
LEMMA StacksHoldExpressions ==
  ASSUME QuotientsAreNumbers, NEW p \in Expression, Decodes(p),
         NEW read, \A k \in Hashed : read[k] \in Int \cup {Failed},
         NEW f, \A m \in 0 .. Len(p.tokens) : f[m] = StackAfter(p, read, f, m),
         NEW e, Ends(p, read, Len(p.tokens), e)
  PROVE  \A n \in 1 .. Len(p.tokens) : f[n] = Stacked(f, e[n])
<1>1. Len(p.tokens) \in Nat
  BY ProgramAssumption
<1> DEFINE T == {n \in Nat : n <= Len(p.tokens) => \A m \in 1 .. n : f[m] = Stacked(f, e[m])}
<1>2. 0 \in T
  OBVIOUS
<1>3. ASSUME NEW n \in Nat, n \in T PROVE n + 1 \in T
  <2>1. SUFFICES ASSUME n + 1 <= Len(p.tokens)
                 PROVE  \A m \in 1 .. n + 1 : f[m] = Stacked(f, e[m])
    OBVIOUS
  <2>2. \A m \in 1 .. n : f[m] = Stacked(f, e[m])
    BY <1>1, <1>3, <2>1
  <2>3. n + 1 \in 1 .. Len(p.tokens) /\ \A m \in 1 .. n + 1 - 1 : f[m] = Stacked(f, e[m])
    BY <1>1, <2>1, <2>2
  <2>4. f[n + 1] = Stacked(f, e[n + 1])
    BY <2>3, TokenStacks
  <2> QED
    BY <2>2, <2>4
<1>4. Nat \subseteq T
  <2> HIDE DEF T
  <2> QED
    BY <1>2, <1>3, Induction
<1> QED
  BY <1>1, <1>4

(* The last stack has one value exactly if one expression starts with the  *)
(* first token: a stack below an expression that starts later is not empty.*)
LEMMA FormulaMeansTree ==
  ASSUME QuotientsAreNumbers, NEW p \in Expression, Decodes(p),
         NEW read, \A k \in Hashed : read[k] \in Int \cup {Failed}
  PROVE  Evaluate(p, read) = Meaning(p, read)
<1> DEFINE L == Len(p.tokens)
<1>1. L \in Nat /\ L # 0
  <2>1. p.tokens \in Seq(Token) /\ p.tokens # <<>>
    BY ProgramAssumption DEF Decodes
  <2> QED
    BY <2>1
<1>2. PICK f : /\ \A n \in 0 .. L : f[n] = StackAfter(p, read, f, n)
               /\ Evaluate(p, read) = LET stack == f[L]
                                      IN  IF stack # Failed /\ Len(stack) = 1
                                          THEN stack[1] ELSE Failed
  BY <1>1, EvaluateIsRun
<1>3. PICK e : e = Ending(p, read)
  OBVIOUS
<1>4. Ends(p, read, L, e)
  BY <1>3, EndingIsExpression
<1>5. \A n \in 1 .. L : f[n] = Stacked(f, e[n])
  BY <1>2, <1>4, StacksHoldExpressions
<1>6. \A n \in 0 .. L : f[n] \in Seq(Int) \cup {Failed}
  BY <1>2, StacksHoldNumbers
<1>7. Failed \notin Int /\ Failed \notin Seq(Int)
  BY ValueAssumption
<1>8. f[0] = <<>> /\ f[0] # Failed
  <2>1. f[0] = StackAfter(p, read, f, 0)
    BY <1>1, <1>2
  <2>2. f[0] = <<>>
    BY <2>1 DEF StackAfter
  <2>3. <<>> \in Seq(Int)
    OBVIOUS
  <2> QED
    BY <1>7, <2>2, <2>3
<1>9. \A n \in 0 .. L : e[n].first \in 0 .. n /\ e[n].value \in Int \cup {Failed}
  BY <1>4 DEF Ends, Expressions
<1> DEFINE whole == e[L]
           below == f[whole.first - 1]
<1>10. Meaning(p, read) = IF whole.first = 1 THEN whole.value ELSE Failed
  BY <1>3 DEF Meaning
<1>11. /\ whole.first \in 0 .. L /\ whole.value \in Int \cup {Failed}
       /\ f[L] = Stacked(f, whole)
  BY <1>1, <1>5, <1>9
<1>12. whole.first # 0 => f[L] = IF below = Failed \/ whole.value = Failed THEN Failed
                                 ELSE Append(below, whole.value)
  BY <1>11 DEF Stacked
<1>13. whole.first = 1 => below = f[0]
  OBVIOUS
<1>14. whole.first > 1 => below = Failed \/ (below \in Seq(Int) /\ Len(below) >= 1)
  <2> DEFINE q == whole.first - 1
             lower == e[q]
  <2>1. SUFFICES ASSUME whole.first > 1, below # Failed
                 PROVE  below \in Seq(Int) /\ Len(below) >= 1
    OBVIOUS
  <2>2. q \in 1 .. L /\ q \in 0 .. L
    BY <1>1, <1>11, <2>1
  <2>3. below \in Seq(Int) /\ below = Stacked(f, lower)
    BY <1>5, <1>6, <2>1, <2>2
  <2>4. lower.first \in 0 .. q /\ lower.value \in Int \cup {Failed}
    BY <1>9, <2>2
  <2>5. /\ lower.first # 0 /\ f[lower.first - 1] # Failed /\ lower.value # Failed
        /\ below = Append(f[lower.first - 1], lower.value)
    BY <2>1, <2>3 DEF Stacked
  <2>6. f[lower.first - 1] \in Seq(Int) /\ lower.value \in Int
    <3> HIDE DEF lower, q, L
    <3>1. lower.first - 1 \in 0 .. L
      BY <1>1, <2>2, <2>4, <2>5
    <3> QED
      BY <1>6, <2>4, <2>5, <3>1
  <2> HIDE DEF lower
  <2> QED
    BY <2>3, <2>5, <2>6
<1> HIDE DEF whole, below
<1>15. CASE whole.first = 0
  <2>1. f[L] = Failed
    BY <1>11, <1>15 DEF Stacked
  <2> QED
    BY <1>2, <1>10, <1>15, <2>1
<1>16. CASE whole.first = 1
  <2>1. CASE whole.value = Failed
    <3>1. f[L] = Failed
      BY <1>12, <1>16, <2>1
    <3> QED
      BY <1>2, <1>10, <1>16, <2>1, <3>1
  <2>2. CASE whole.value # Failed
    <3>1. whole.value \in Int
      BY <1>11, <2>2
    <3>2. f[L] = Append(<<>>, whole.value)
      BY <1>8, <1>12, <1>13, <1>16, <2>2
    <3>3. f[L] \in Seq(Int) /\ Len(f[L]) = 1 /\ f[L][1] = whole.value
      BY <3>1, <3>2
    <3>4. f[L] # Failed
      BY <1>7, <3>3
    <3> QED
      BY <1>2, <1>10, <1>16, <3>3, <3>4
  <2> QED
    BY <2>1, <2>2
<1>17. CASE whole.first # 0 /\ whole.first # 1
  <2>1. whole.first > 1
    BY <1>1, <1>11, <1>17
  <2>2. f[L] = Failed \/ Len(f[L]) # 1
    <3>1. SUFFICES ASSUME f[L] # Failed PROVE Len(f[L]) # 1
      OBVIOUS
    <3>2. /\ below \in Seq(Int) /\ Len(below) >= 1 /\ whole.value \in Int
          /\ f[L] = Append(below, whole.value)
      BY <1>11, <1>12, <1>14, <1>17, <2>1, <3>1
    <3>3. Len(f[L]) = Len(below) + 1 /\ Len(below) \in Nat
      BY <3>2
    <3> QED
      BY <3>2, <3>3
  <2>3. Evaluate(p, read) = Failed
    BY <1>2, <2>2
  <2>4. Meaning(p, read) = Failed
    BY <1>10, <1>17
  <2> QED
    BY <2>3, <2>4
<1> QED
  BY <1>15, <1>16, <1>17

-----------------------------------------------------------------------------
(* A set of search positions has a first one.                              *)
LEMMA FirstIsMember == ASSUME NEW S \in SUBSET (1 .. 5), S # {} PROVE FirstIn(S) \in S
<1>1. \E n \in S : \A m \in S : n <= m
  <2>1. CASE 1 \in S
    BY <2>1
  <2>2. CASE 1 \notin S /\ 2 \in S
    BY <2>2
  <2>3. CASE 1 \notin S /\ 2 \notin S /\ 3 \in S
    BY <2>3
  <2>4. CASE 1 \notin S /\ 2 \notin S /\ 3 \notin S /\ 4 \in S
    BY <2>4
  <2>5. CASE 1 \notin S /\ 2 \notin S /\ 3 \notin S /\ 4 \notin S
    <3>1. \A n \in S : n = 5
      BY <2>5
    <3>2. PICK n : n \in S
      OBVIOUS
    <3>3. n = 5 /\ \A m \in S : n <= m
      BY <3>1, <3>2
    <3> QED
      BY <3>2, <3>3
  <2> QED
    BY <2>1, <2>2, <2>3, <2>4, <2>5
<1> QED
  BY <1>1 DEF FirstIn

(* Every scope of the search reads an owner or nobody.                     *)
LEMMA ScopesHaveReaders ==
  ASSUME NEW c \in Context, NEW n \in 1 .. 5
  PROVE  ReadOwner(c, SearchOrder[n]) \in Owner \cup {Nobody}
<1>1. SearchOrder[n] \in Scope
  BY DEF Scope
<1>2. c.owners[SearchOrder[n]] \in Owner \cup {Nobody}
  BY <1>1, ContextAssumption
<1>3. SearchOrder[n] \in {"ContextCaster", "ContextOwner", "ContextModifier", "TargetEntity",
                          "ContextAbility"}
  BY DEF SearchOrder
<1>4. {c.caster, c.owner, c.target} \subseteq Owner \cup {Nobody}
  BY ContextAssumption
<1> QED
  BY <1>2, <1>3, <1>4 DEF ReadOwner

(* A search finds a number or raises, and does not see another key.        *)
LEMMA SearchFindsNumbers ==
  ASSUME NEW c \in Context, NEW st \in Stores, NEW k \in Key
  PROVE  Searched(c, st, k) \in Int \cup {Failed}
<1> DEFINE H == Holding(c, st, k)
<1>1. H \in SUBSET (1 .. 5)
  BY DEF Holding
<1>2. ASSUME H # {} PROVE st[ReadOwner(c, SearchOrder[FirstIn(H)])][k] \in Int
  <2> DEFINE u == ReadOwner(c, SearchOrder[FirstIn(H)])
  <2>1. FirstIn(H) \in H
    BY <1>1, <1>2, FirstIsMember
  <2>2. u # Nobody /\ st[u][k] # Absent
    BY <2>1 DEF Holding
  <2>3. u \in Owner \cup {Nobody}
    BY <1>1, <2>1, ScopesHaveReaders
  <2> HIDE DEF u
  <2>4. u \in Owner
    BY <2>2, <2>3
  <2>5. st[u][k] \in Int \cup {Absent}
    BY <2>4 DEF Stores
  <2> QED
    BY <2>2, <2>5 DEF u
<1> QED
  BY <1>2 DEF Searched

(* A search for a hash sees the entries of that hash only.                 *)
LEMMA SearchSeesOneKey ==
  ASSUME NEW c \in Context, NEW st, NEW other, NEW k,
         \A u \in Owner : other[u][k] = st[u][k]
  PROVE  Searched(c, other, k) = Searched(c, st, k)
<1>1. \A n \in 1 .. 5 : LET u == ReadOwner(c, SearchOrder[n])
                        IN  u # Nobody => other[u][k] = st[u][k]
  BY ScopesHaveReaders
<1>2. Holding(c, other, k) = Holding(c, st, k)
  BY <1>1 DEF Holding
<1> DEFINE H == Holding(c, st, k)
<1>3. CASE H = {}
  BY <1>2, <1>3 DEF Searched
<1>4. CASE H # {}
  <2>1. H \in SUBSET (1 .. 5) /\ \A n \in H : ReadOwner(c, SearchOrder[n]) # Nobody
    BY DEF Holding
  <2>2. FirstIn(H) \in H
    BY <1>4, <2>1, FirstIsMember
  <2>3. other[ReadOwner(c, SearchOrder[FirstIn(H)])][k]
          = st[ReadOwner(c, SearchOrder[FirstIn(H)])][k]
    BY <1>1, <2>1, <2>2
  <2> QED
    BY <1>2, <1>4, <2>3 DEF Searched
<1> QED
  BY <1>3, <1>4

(* Where the condition of SetThenEqual starts to search, the operation     *)
(* before it has written.                                                  *)
LEMMA ReadersFindWriters ==
  ASSUME NEW c \in Context, ReadsAlike(c), NEW s \in {NoScope} \cup Scope,
         s # NoScope => c.owners[s] # Nobody
  PROVE  LET u == WriteOwner(c, s, c.units)
         IN  /\ u \in Owner
             /\ u = IF s = NoScope THEN DefaultOwner(c) ELSE c.owners[s]
<1>1. /\ c.caster # Nobody /\ c.caster \in Owner \cup {Nobody}
      /\ c.owners["ContextCaster"] \in {Nobody, c.caster}
      /\ \A r \in Scope : c.owners[r] \in Owner \cup {Nobody}
  BY ContextAssumption DEF ReadsAlike
<1>2. CASE s = NoScope
  <2>1. WriteOwner(c, s, c.units) = c.caster
    BY <1>1, <1>2 DEF WriteOwner, WriteOwnerIn
  <2> QED
    BY <1>1, <1>2, <2>1 DEF DefaultOwner
<1>3. CASE s # NoScope
  <2>1. WriteOwner(c, s, c.units) = c.owners[s]
    BY <1>3 DEF WriteOwner, WriteOwnerIn
  <2> QED
    BY <1>1, <1>3, <2>1
<1> QED
  BY <1>2, <1>3

(* One step of SetThenEqual.                                               *)
LEMMA SetIsFound ==
  ASSUME QuotientsAreNumbers, NEW st \in Stores, NEW c \in Context, ReadsAlike(c),
         NEW p \in Program, NEW k \in Key, \A n \in DOMAIN p.hashes : p.hashes[n] # k,
         NEW s \in {NoScope} \cup Scope, s # NoScope => c.owners[s] # Nobody,
         OperationValue(c, st, p) # Failed
  PROVE  Compared(c, SetValueOf(c, st, s, k, OperationValue(c, st, p)), s, k, "Equal", p) = TRUE
<1> DEFINE v == OperationValue(c, st, p)
           u == WriteOwner(c, s, c.units)
           after == [st EXCEPT ![u][k] = v]
           read == [h \in Hashed |-> ReadHash(c, st, h)]
           again == [h \in Hashed |-> ReadHash(c, after, h)]
<1>1. p \in Expression /\ Decodes(p) /\ v = Evaluate(p, read)
  BY ProgramAssumption DEF OperationValue
<1>2. u \in Owner /\ u = IF s = NoScope THEN DefaultOwner(c) ELSE c.owners[s]
  BY ReadersFindWriters
<1>3. u # Nobody /\ Failed \notin Int /\ Absent \notin Int /\ Hashed \subseteq Key
  BY <1>2, ValueAssumption
<1>4. SetValueOf(c, st, s, k, v) = after
  BY <1>3 DEF SetValueOf
<1>5. \A h \in Hashed : read[h] \in Int \cup {Failed}
  BY <1>3, SearchFindsNumbers DEF ReadsAlike, ReadHash
<1> HIDE DEF u, read, again
<1>6. v \in Int
  <2>1. Evaluate(p, read) \in Int \cup {Failed}
    BY <1>1, <1>5, EvaluateIsNumber
  <2> QED
    BY <1>1, <2>1
<1> HIDE DEF v
<1>7. /\ after[u][k] = v
      /\ \A w \in Owner, h \in Key : h # k => after[w][h] = st[w][h]
  BY <1>2 DEF Stores
<1> HIDE DEF after
<1>8. DynamicGet(c, after, s, k) = v
  BY <1>2, <1>3, <1>6, <1>7 DEF DynamicGet
<1>9. \A n \in DOMAIN p.hashes : again[p.hashes[n]] = read[p.hashes[n]]
  <2>1. SUFFICES ASSUME NEW n \in DOMAIN p.hashes PROVE again[p.hashes[n]] = read[p.hashes[n]]
    OBVIOUS
  <2>2. p.hashes[n] \in Hashed /\ p.hashes[n] # k
    BY ProgramAssumption
  <2>3. Searched(c, after, p.hashes[n]) = Searched(c, st, p.hashes[n])
    BY <1>3, <1>7, <2>2, SearchSeesOneKey
  <2> QED
    BY <2>2, <2>3 DEF again, read, ReadHash
<1>10. Evaluate(p, again) = Evaluate(p, read)
  BY <1>1, <1>9, EvaluateReadsHashes
<1>11. PredicateValue(c, after, p) = v
  <2>1. PredicateValue(c, after, p) = OperationValue(c, after, p)
    BY FormulasMeanOneThing
  <2>2. OperationValue(c, after, p) = Evaluate(p, again)
    BY <1>1 DEF OperationValue, again
  <2> QED
    BY <1>1, <1>10, <2>1, <2>2
<1>12. Compared(c, after, s, k, "Equal", p) = TRUE
  BY <1>3, <1>6, <1>8, <1>11 DEF Compared, Compare
<1> QED
  BY <1>4, <1>12 DEF v

(* The store keeps its type.                                               *)
LEMMA ValuesStayTyped == ValueSpec => []ValueTypeOK
<1>1. ValueInit => ValueTypeOK
  BY DEF ValueInit, ValueTypeOK, Stores
<1>2. ValueTypeOK /\ [ValueNext]_store => ValueTypeOK'
  <2>1. -MaxValue .. MaxValue \subseteq Int
    BY ValueAssumption
  <2> QED
    BY <2>1 DEF ValueNext, ValueTypeOK, Stores, InBounds
<1> QED
  BY <1>1, <1>2, PTL DEF ValueSpec

(* For every set of owners, keys, contexts and programs whose division     *)
(* gives numbers: in every reachable store, a condition "key equals        *)
(* formula" that follows the operation "key := formula" of its callback    *)
(* holds, whichever owners hold the hashes that both search.               *)
THEOREM WritesAreFound == QuotientsAreNumbers => (ValueSpec => []ConditionsFindWrites)
<1> SUFFICES ASSUME QuotientsAreNumbers
             PROVE  ValueSpec => []ConditionsFindWrites
  OBVIOUS
<1>1. ValueTypeOK => ConditionsFindWrites
  <2>1. SUFFICES ASSUME store \in Stores
                 PROVE  SetThenEqual
    BY DEF ValueTypeOK, ConditionsFindWrites
  <2>2. SUFFICES ASSUME NEW c \in Context, NEW p \in Program, NEW k \in Key,
                        NEW s \in {NoScope} \cup {r \in Scope : c.owners[r] # Nobody},
                        ReadsAlike(c), OperationValue(c, store, p) # Failed,
                        \A n \in DOMAIN p.hashes : p.hashes[n] # k
                 PROVE  Compared(c, SetValueOf(c, store, s, k, OperationValue(c, store, p)),
                                 s, k, "Equal", p) = TRUE
    BY DEF SetThenEqual
  <2>3. s \in {NoScope} \cup Scope /\ (s # NoScope => c.owners[s] # Nobody)
    OBVIOUS
  <2> QED
    BY <2>1, <2>2, <2>3, SetIsFound
<1> QED
  BY <1>1, ValuesStayTyped, PTL

(* What a formula reads is a number or raises, for an operation ...        *)
LEMMA HashesReadNumbers ==
  ASSUME NEW c \in Context, NEW st \in Stores, NEW k \in Hashed
  PROVE  ReadHash(c, st, k) \in Int \cup {Failed}
<1>1. k \in Key
  BY ValueAssumption
<1>2. c.given[k] \in Int \cup {Absent}
  BY ContextAssumption
<1>3. Searched(c, st, k) \in Int \cup {Failed}
  BY <1>1, SearchFindsNumbers
<1> QED
  BY <1>2, <1>3 DEF ReadHash

(* ... and for a predicate.                                                *)
LEMMA PredicatesReadNumbers ==
  ASSUME NEW c \in Context, NEW st \in Stores, NEW k \in Hashed
  PROVE  DynamicGet(c, st, NoScope, k) \in Int \cup {Failed}
<1> DEFINE u == DefaultOwner(c)
<1>1. k \in Key
  BY ValueAssumption
<1>2. u \in Owner \cup {Nobody}
  BY ContextAssumption DEF DefaultOwner
<1>3. ReadHash(c, st, k) \in Int \cup {Failed}
  BY HashesReadNumbers
<1>4. DynamicGet(c, st, NoScope, k)
        = IF u = Nobody THEN Failed
          ELSE IF st[u][k] # Absent THEN st[u][k] ELSE ReadHash(c, st, k)
  BY DEF DynamicGet
<1> HIDE DEF u
<1>5. u # Nobody => st[u][k] \in Int \cup {Absent}
  BY <1>1, <1>2 DEF Stores
<1> QED
  BY <1>3, <1>4, <1>5

(* For every set of contexts and every formula that decodes, however many  *)
(* tokens it has and whether its operands suffice or not: in every         *)
(* reachable store, what the stack of evaluate computes for an operation   *)
(* and for a predicate is the value of the one expression that the tokens  *)
(* write in postfix, and it raises exactly if a part of that expression    *)
(* does or the tokens write no single expression.                          *)
THEOREM FormulasMeanTrees == QuotientsAreNumbers => (ValueSpec => []PostfixMeansTree)
<1> SUFFICES ASSUME QuotientsAreNumbers
             PROVE  ValueSpec => []PostfixMeansTree
  OBVIOUS
<1>1. ValueTypeOK => PostfixMeansTree
  <2>1. SUFFICES ASSUME store \in Stores,
                        NEW c \in Context,
                        NEW read \in {[k \in Hashed |-> ReadHash(c, store, k)],
                                      [k \in Hashed |-> DynamicGet(c, store, NoScope, k)]},
                        NEW p \in Expression, Decodes(p)
                 PROVE  Evaluate(p, read) = Meaning(p, read)
    BY DEF ValueTypeOK, PostfixMeansTree
  <2>2. \A k \in Hashed : /\ ReadHash(c, store, k) \in Int \cup {Failed}
                          /\ DynamicGet(c, store, NoScope, k) \in Int \cup {Failed}
    BY <2>1, HashesReadNumbers, PredicatesReadNumbers
  <2>3. \A k \in Hashed : read[k] \in Int \cup {Failed}
    BY <2>2
  <2> QED
    BY <2>1, <2>3, FormulaMeansTree
<1> QED
  BY <1>1, ValuesStayTyped, PTL

-----------------------------------------------------------------------------
(* A value for every operation from the values of its children, and the    *)
(* values joined with one of its own, in front or behind.                  *)
Nested(f, own, first, o) ==
  LET inner == FlattenSeq([i \in DOMAIN ChildrenOf[o] |-> f[ChildrenOf[o][i]]])
  IN  IF first THEN own[o] \o inner ELSE inner \o own[o]

IsNested(f, own, first) == f = [o \in OperationId |-> Nested(f, own, first, o)]

(* Because children are inside, such a recursion defines a function.       *)
LEMMA NestedExists == ASSUME NEW own, NEW first PROVE \E f : IsNested(f, own, first)
<1> DEFINE N == Cardinality(OperationId)
<1>1. N \in Nat
  BY NestingAssumption, FS_CardinalityType
<1>2. PICK height \in [OperationId -> 0 .. N] :
        \A o \in OperationId : \A i \in DOMAIN ChildrenOf[o] :
          height[ChildrenOf[o][i]] < height[o]
  BY NestingAssumption
<1> DEFINE Below(n) == {o \in OperationId : height[o] < n}
           T == {n \in Nat : \E f : f = [o \in Below(n) |-> Nested(f, own, first, o)]}
<1>3. \A o \in OperationId : \A i \in DOMAIN ChildrenOf[o] : ChildrenOf[o][i] \in OperationId
  BY EventAssumption
<1>4. 0 \in T
  <2>1. Below(0) = {}
    BY <1>1, <1>2
  <2> DEFINE f == [o \in {} |-> 0]
  <2>2. f = [o \in Below(0) |-> Nested(f, own, first, o)]
    BY <2>1
  <2> HIDE DEF f
  <2> QED
    BY <2>2
<1>5. ASSUME NEW n \in Nat, n \in T PROVE n + 1 \in T
  <2>1. PICK f : f = [o \in Below(n) |-> Nested(f, own, first, o)]
    BY <1>5
  <2> DEFINE g == [o \in Below(n + 1) |-> Nested(f, own, first, o)]
  <2>2. \A o \in Below(n) : f[o] = Nested(f, own, first, o) /\ o \in Below(n + 1)
    <3>1. \A o \in Below(n) : o \in Below(n + 1)
      BY <1>1, <1>2
    <3> HIDE DEF Below
    <3> QED
      BY <2>1, <3>1, Zenon
  <2>3. g = [o \in Below(n + 1) |-> g[o]] /\ \A o \in Below(n + 1) : g[o] = Nested(f, own, first, o)
    OBVIOUS
  <2>4. \A o \in Below(n + 1) : \A i \in DOMAIN ChildrenOf[o] : ChildrenOf[o][i] \in Below(n)
    BY <1>1, <1>2, <1>3
  <2> HIDE DEF Below, g
  <2>5. \A o \in Below(n) : g[o] = f[o]
    BY <2>2, <2>3, Zenon
  <2>6. ASSUME NEW o \in Below(n + 1) PROVE g[o] = Nested(g, own, first, o)
    <3>1. [i \in DOMAIN ChildrenOf[o] |-> f[ChildrenOf[o][i]]]
            = [i \in DOMAIN ChildrenOf[o] |-> g[ChildrenOf[o][i]]]
      BY <2>4, <2>5
    <3>2. Nested(f, own, first, o) = Nested(g, own, first, o)
      BY <3>1, Zenon DEF Nested
    <3> QED
      BY <2>3, <3>2, Zenon
  <2>7. g = [o \in Below(n + 1) |-> Nested(g, own, first, o)]
    BY <2>3, <2>6
  <2>8. n + 1 \in Nat
    OBVIOUS
  <2> QED
    BY <2>7, <2>8, Zenon DEF T
<1>6. Nat \subseteq T
  <2> HIDE DEF T
  <2> QED
    BY <1>4, <1>5, Induction
<1>7. Below(N + 1) = OperationId
  BY <1>1, <1>2
<1>8. \E f : f = [o \in Below(N + 1) |-> Nested(f, own, first, o)]
  <2>1. N + 1 \in T
    <3> HIDE DEF T
    <3> QED
      BY <1>1, <1>6
  <2> QED
    BY <2>1
<1> HIDE DEF Below
<1> QED
  BY <1>7, <1>8, Zenon DEF IsNested

(* What is shown for an operation from what is shown for its children      *)
(* holds of every operation.                                               *)
LEMMA NestingInduction ==
  ASSUME NEW T,
         \A o \in OperationId : (\A i \in DOMAIN ChildrenOf[o] : ChildrenOf[o][i] \in T) => o \in T
  PROVE  OperationId \subseteq T
<1> DEFINE N == Cardinality(OperationId)
<1>1. N \in Nat
  BY NestingAssumption, FS_CardinalityType
<1>2. PICK height \in [OperationId -> 0 .. N] :
        \A o \in OperationId : \A i \in DOMAIN ChildrenOf[o] :
          height[ChildrenOf[o][i]] < height[o]
  BY NestingAssumption
<1> DEFINE Q == {n \in Nat : \A o \in OperationId : height[o] < n => o \in T}
<1>3. \A o \in OperationId : \A i \in DOMAIN ChildrenOf[o] : ChildrenOf[o][i] \in OperationId
  BY EventAssumption
<1>4. \A o \in OperationId : height[o] \in Nat /\ height[o] < N + 1
  BY <1>1, <1>2
<1>5. 0 \in Q
  BY <1>4
<1>6. ASSUME NEW n \in Nat, n \in Q PROVE n + 1 \in Q
  <2> SUFFICES ASSUME NEW o \in OperationId, height[o] < n + 1 PROVE o \in T
    OBVIOUS
  <2>1. ASSUME NEW i \in DOMAIN ChildrenOf[o] PROVE ChildrenOf[o][i] \in T
    <3>1. ChildrenOf[o][i] \in OperationId /\ height[ChildrenOf[o][i]] < height[o]
      BY <1>2, <1>3
    <3>2. height[ChildrenOf[o][i]] < n
      BY <1>4, <3>1
    <3> QED
      BY <1>6, <3>1, <3>2
  <2> QED
    BY <2>1
<1>7. Nat \subseteq Q
  <2> HIDE DEF Q
  <2> QED
    BY <1>5, <1>6, Induction
<1>8. N + 1 \in Q
  <2> HIDE DEF Q
  <2> QED
    BY <1>1, <1>7
<1> QED
  BY <1>4, <1>8

(* The children are a list of operations.                                  *)
LEMMA ChildrenAreListed ==
  ASSUME NEW o \in OperationId
  PROVE  /\ ChildrenOf[o] \in Seq(OperationId) /\ Len(ChildrenOf[o]) \in Nat
         /\ DOMAIN ChildrenOf[o] = 1 .. Len(ChildrenOf[o])
         /\ \A i \in DOMAIN ChildrenOf[o] : ChildrenOf[o][i] \in OperationId
<1>1. ChildrenOf[o] \in Seq(OperationId)
  BY EventAssumption
<1> QED
  BY <1>1

(* The steps of an operation: it, and those of its children.               *)
LEMMA DepthFirstIs ==
  \A o \in OperationId :
    /\ DepthFirst[o] \in Seq(OperationId)
    /\ DepthFirst[o] = <<o>> \o FlattenSeq([i \in DOMAIN ChildrenOf[o] |-> DepthFirst[ChildrenOf[o][i]]])
<1> DEFINE own == [o \in OperationId |-> <<o>>]
           Is(f) == f = [o \in OperationId |->
             <<o>> \o FlattenSeq([i \in DOMAIN ChildrenOf[o] |-> f[ChildrenOf[o][i]]])]
<1>1. PICK f : IsNested(f, own, TRUE)
  <2> HIDE DEF own
  <2> QED
    BY NestedExists
<1>2. \A o \in OperationId : Nested(f, own, TRUE, o) =
        <<o>> \o FlattenSeq([i \in DOMAIN ChildrenOf[o] |-> f[ChildrenOf[o][i]]])
  BY DEF Nested
<1>3. Is(f)
  BY <1>1, <1>2 DEF IsNested
<1>4. DepthFirst = CHOOSE g : Is(g)
  BY DEF DepthFirst
<1>5. Is(DepthFirst)
  <2> HIDE DEF Is
  <2> QED
    BY <1>3, <1>4, Zenon
<1>6. \A o \in OperationId : DepthFirst[o] =
        <<o>> \o FlattenSeq([i \in DOMAIN ChildrenOf[o] |-> DepthFirst[ChildrenOf[o][i]]])
  <2> DEFINE g == DepthFirst
  <2>1. Is(g)
    BY <1>5
  <2> HIDE DEF g
  <2>2. \A o \in OperationId : g[o] =
          <<o>> \o FlattenSeq([i \in DOMAIN ChildrenOf[o] |-> g[ChildrenOf[o][i]]])
    BY <2>1, Zenon
  <2> QED
    BY <2>2 DEF g
<1> DEFINE T == {o \in OperationId : DepthFirst[o] \in Seq(OperationId)}
<1>7. ASSUME NEW o \in OperationId, \A i \in DOMAIN ChildrenOf[o] : ChildrenOf[o][i] \in T
      PROVE  o \in T
  <2> DEFINE parts == [i \in DOMAIN ChildrenOf[o] |-> DepthFirst[ChildrenOf[o][i]]]
  <2>1. parts \in Seq(Seq(OperationId))
    <3>1. /\ parts = [i \in 1 .. Len(ChildrenOf[o]) |-> parts[i]] /\ Len(ChildrenOf[o]) \in Nat
          /\ \A i \in 1 .. Len(ChildrenOf[o]) : parts[i] \in Seq(OperationId)
      BY <1>7, ChildrenAreListed
    <3> HIDE DEF parts
    <3> QED
      BY <3>1, IndexedIsSeq
  <2>2. FlattenSeq(parts) \in Seq(OperationId)
    BY <2>1, FlattenIsSeq
  <2>3. DepthFirst[o] = <<o>> \o FlattenSeq(parts)
    BY <1>6
  <2> HIDE DEF parts
  <2>4. DepthFirst[o] \in Seq(OperationId)
    BY <2>2, <2>3
  <2> QED
    BY <2>4
<1>8. OperationId \subseteq T
  <2> HIDE DEF T
  <2> QED
    BY <1>7, NestingInduction
<1> QED
  BY <1>6, <1>8

(* The events of an operation: those of its children, and its own.         *)
LEMMA EmissionsIs ==
  \A o \in OperationId :
    /\ Emissions[o] \in Seq(Event)
    /\ Emissions[o] = FlattenSeq([i \in DOMAIN ChildrenOf[o] |-> Emissions[ChildrenOf[o][i]]])
                        \o EmitsOf[o]
<1> DEFINE Is(f) == f = [o \in OperationId |->
             FlattenSeq([i \in DOMAIN ChildrenOf[o] |-> f[ChildrenOf[o][i]]]) \o EmitsOf[o]]
<1>1. PICK f : IsNested(f, EmitsOf, FALSE)
  BY NestedExists
<1>2. \A o \in OperationId : Nested(f, EmitsOf, FALSE, o) =
        FlattenSeq([i \in DOMAIN ChildrenOf[o] |-> f[ChildrenOf[o][i]]]) \o EmitsOf[o]
  BY DEF Nested
<1>3. Is(f)
  BY <1>1, <1>2 DEF IsNested
<1>4. Emissions = CHOOSE g : Is(g)
  BY DEF Emissions
<1>5. Is(Emissions)
  <2> HIDE DEF Is
  <2> QED
    BY <1>3, <1>4, Zenon
<1>6. \A o \in OperationId : Emissions[o] =
        FlattenSeq([i \in DOMAIN ChildrenOf[o] |-> Emissions[ChildrenOf[o][i]]]) \o EmitsOf[o]
  <2> DEFINE g == Emissions
  <2>1. Is(g)
    BY <1>5
  <2> HIDE DEF g
  <2>2. \A o \in OperationId : g[o] =
          FlattenSeq([i \in DOMAIN ChildrenOf[o] |-> g[ChildrenOf[o][i]]]) \o EmitsOf[o]
    BY <2>1, Zenon
  <2> QED
    BY <2>2 DEF g
<1> DEFINE T == {o \in OperationId : Emissions[o] \in Seq(Event)}
<1>7. ASSUME NEW o \in OperationId, \A i \in DOMAIN ChildrenOf[o] : ChildrenOf[o][i] \in T
      PROVE  o \in T
  <2> DEFINE parts == [i \in DOMAIN ChildrenOf[o] |-> Emissions[ChildrenOf[o][i]]]
  <2>1. parts \in Seq(Seq(Event))
    <3>1. /\ parts = [i \in 1 .. Len(ChildrenOf[o]) |-> parts[i]] /\ Len(ChildrenOf[o]) \in Nat
          /\ \A i \in 1 .. Len(ChildrenOf[o]) : parts[i] \in Seq(Event)
      BY <1>7, ChildrenAreListed
    <3> HIDE DEF parts
    <3> QED
      BY <3>1, IndexedIsSeq
  <2>2. FlattenSeq(parts) \in Seq(Event) /\ EmitsOf[o] \in Seq(Event)
    BY <2>1, FlattenIsSeq, EventAssumption
  <2>3. Emissions[o] = FlattenSeq(parts) \o EmitsOf[o]
    BY <1>6
  <2> HIDE DEF parts
  <2>4. Emissions[o] \in Seq(Event)
    BY <2>2, <2>3
  <2> QED
    BY <2>4
<1>8. OperationId \subseteq T
  <2> HIDE DEF T
  <2> QED
    BY <1>7, NestingInduction
<1> QED
  BY <1>6, <1>8

-----------------------------------------------------------------------------
(* What the tracer keeps: the items of its agenda, and the steps it lists. *)
AgendaItem == [registration : DOMAIN registrations, operation : OperationId, entered : BOOLEAN]
StepRecord == [at : Nat, by : Nat, operation : OperationId]

EventTypeOK ==
  /\ registrations \in Seq(Entrypoints) /\ mode \in {"idle", "strict", "lenient"}
  /\ pending \in Seq(Event) /\ queued \in Seq(Event) /\ emitted \in Seq(Event)
  /\ dispatched \in Event \cup {NoEvent} /\ eventSequence \in Nat
  /\ agenda \in Seq(AgendaItem) /\ trace \in Seq(StepRecord) /\ executable \in BOOLEAN

(* The registrations of an event are in one order by priority and age, and *)
(* the sort finds it.                                                      *)
LEMMA MatchingIsListeners ==
  ASSUME EventTypeOK, NEW e
  PROVE  /\ Cardinality(Registered(e)) \in Nat
         /\ Registered(e) \subseteq DOMAIN registrations
         /\ Listeners(e) \in [1 .. Cardinality(Registered(e)) -> Registered(e)]
         /\ Matching(e) = Listeners(e)
<1> DEFINE R == Registered(e)
           n == Cardinality(R)
           E == {p \in R \X R : Earlier(p[1], p[2])}
           ranked == [k \in 1 .. n |-> CHOOSE r \in R : Rank(R, E, r) = k - 1]
<1>1. Len(registrations) \in Nat /\ DOMAIN registrations = 1 .. Len(registrations)
  BY DEF EventTypeOK
<1>2. R \subseteq 1 .. Len(registrations)
  BY <1>1 DEF Registered
<1>3. IsFiniteSet(R) /\ n \in Nat
  <2>1. IsFiniteSet(1 .. Len(registrations))
    BY <1>1, FS_Interval
  <2>2. IsFiniteSet(R)
    <3> HIDE DEF R
    <3> QED
      BY <1>2, <2>1, FS_Subset
  <2> QED
    BY <2>2, FS_CardinalityType
<1>4. \A r \in R : registrations[r].priority \in Int /\ r \in Nat
  <2>1. \A r \in 1 .. Len(registrations) : registrations[r] \in Entrypoints
    BY DEF EventTypeOK
  <2> QED
    BY <1>1, <1>2, <2>1, EventAssumption
<1> HIDE DEF R
<1>5. Orders(R, E)
  <2>1. \A r \in R, s \in R : <<r, s>> \in E <=> Earlier(r, s)
    OBVIOUS
  <2>2. \A r \in R : ~Earlier(r, r)
    BY <1>4 DEF Earlier
  <2>3. \A r \in R, s \in R : r # s => Earlier(r, s) \/ Earlier(s, r)
    BY <1>4 DEF Earlier
  <2>4. \A r \in R, s \in R, t \in R : Earlier(r, s) /\ Earlier(s, t) => Earlier(r, t)
    BY <1>4 DEF Earlier
  <2> HIDE DEF E
  <2> QED
    BY <2>1, <2>2, <2>3, <2>4 DEF Orders
<1>6. /\ ranked \in [1 .. n -> R] /\ Sorted(ranked, E)
      /\ \A k \in 1 .. n : Rank(R, E, ranked[k]) = k - 1
  <2> HIDE DEF E
  <2> QED
    BY <1>3, <1>5, RankedIsSorted
<1>7. \A r \in R : {s \in R : Earlier(s, r)} = {s \in R : <<s, r>> \in E}
  OBVIOUS
<1>8. Listeners(e) = ranked
  <2>1. Listeners(e) = [k \in 1 .. n |->
          CHOOSE r \in R : Cardinality({s \in R : Earlier(s, r)}) = k - 1]
    BY DEF Listeners, R
  <2>2. ASSUME NEW k \in 1 .. n
        PROVE  (CHOOSE r \in R : Cardinality({s \in R : Earlier(s, r)}) = k - 1) = ranked[k]
    <3>1. ranked[k] \in R /\ Rank(R, E, ranked[k]) = k - 1
      BY <1>6
    <3> HIDE DEF ranked, E
    <3>2. \A r \in R : Cardinality({s \in R : Earlier(s, r)}) = Rank(R, E, r)
      BY <1>7 DEF Rank
    <3>3. \A r \in R : Rank(R, E, r) = k - 1 => r = ranked[k]
      BY <1>3, <1>5, <3>1, RanksAreApart
    <3>4. \A r \in R : Cardinality({s \in R : Earlier(s, r)}) = k - 1 <=> r = ranked[k]
      BY <3>1, <3>2, <3>3
    <3> QED
      BY <3>1, <3>4
  <2>3. ranked = [k \in 1 .. n |-> ranked[k]]
    BY <1>6
  <2> HIDE DEF ranked
  <2> QED
    BY <2>1, <2>2, <2>3
<1> HIDE DEF ranked
<1>9. Matching(e) = ranked
  <2> DEFINE Right(l) == \A i, j \in DOMAIN l : i < j => Earlier(l[i], l[j])
  <2>1. \A l \in [1 .. n -> R] : Right(l) <=> Sorted(l, E)
    BY DEF Sorted
  <2>2. Matching(e) = CHOOSE l \in [1 .. n -> R] : Right(l)
    BY DEF Matching, R
  <2> HIDE DEF Right, E
  <2>3. Matching(e) \in [1 .. n -> R] /\ Sorted(Matching(e), E)
    BY <1>6, <2>1, <2>2, Zenon
  <2> QED
    BY <1>3, <1>5, <2>3, SortedIsRanked DEF ranked
<1> QED
  BY <1>1, <1>2, <1>3, <1>6, <1>8, <1>9 DEF R

(* The first element of a registration's record.                           *)
LEMMA RootsAreListed ==
  ASSUME EventTypeOK, NEW r \in DOMAIN registrations
  PROVE  registrations[r].operations \in Seq(OperationId)
<1>1. registrations[r] \in Entrypoints
  BY DEF EventTypeOK
<1> QED
  BY <1>1, EventAssumption

(* Operations that are entered for a registration; f gives what is still   *)
(* to come of an item of the agenda, g the same of an operation.           *)
Foresees(f, g) ==
  \A r \in DOMAIN registrations, o \in OperationId :
    f[[registration |-> r, operation |-> o, entered |-> FALSE]] = g[r][o]

(* What such operations still bring.                                       *)
LEMMA EnterIs ==
  ASSUME NEW r \in DOMAIN registrations, NEW operations \in Seq(OperationId)
  PROVE  /\ Enter(r, operations) \in Seq(AgendaItem)
         /\ \A f, g : Foresees(f, g) =>
              Gather(f, Enter(r, operations)) = FlattenSeq([i \in DOMAIN operations |-> g[r][operations[i]]])
<1> DEFINE s == Enter(r, operations)
<1>1. Len(operations) \in Nat /\ DOMAIN operations = 1 .. Len(operations)
  OBVIOUS
<1>2. s = [i \in 1 .. Len(operations) |-> s[i]]
  BY <1>1 DEF Enter
<1>3. \A i \in 1 .. Len(operations) :
        /\ s[i] = [registration |-> r, operation |-> operations[i], entered |-> FALSE]
        /\ operations[i] \in OperationId
  BY <1>1 DEF Enter
<1> HIDE DEF s
<1>4. ASSUME NEW i \in 1 .. Len(operations) PROVE s[i] \in AgendaItem
  <2> DEFINE o == operations[i]
  <2>1. s[i] = [registration |-> r, operation |-> o, entered |-> FALSE] /\ o \in OperationId
    BY <1>3
  <2> HIDE DEF o
  <2> QED
    BY <2>1 DEF AgendaItem
<1>5. s \in Seq(AgendaItem) /\ DOMAIN s = 1 .. Len(operations)
  BY <1>1, <1>2, <1>4, IndexedIsSeq
<1>6. ASSUME NEW f, NEW g, Foresees(f, g)
      PROVE  Each(f, s) = [i \in DOMAIN operations |-> g[r][operations[i]]]
  <2>1. \A i \in 1 .. Len(operations) : f[s[i]] = g[r][operations[i]]
    <3> SUFFICES ASSUME NEW i \in 1 .. Len(operations) PROVE f[s[i]] = g[r][operations[i]]
      OBVIOUS
    <3> DEFINE o == operations[i]
    <3>1. s[i] = [registration |-> r, operation |-> o, entered |-> FALSE] /\ o \in OperationId
      BY <1>3
    <3> HIDE DEF o
    <3>2. f[s[i]] = g[r][o]
      BY <3>1, <1>6, Zenon DEF Foresees
    <3> QED
      BY <3>2 DEF o
  <2> QED
    BY <1>1, <1>5, <2>1 DEF Each
<1> QED
  BY <1>5, <1>6 DEF Gather, s

(* The agenda of an event foresees what its listeners give.                *)
LEMMA AgendaIsListeners ==
  ASSUME EventTypeOK, NEW e, NEW S, NEW f, Maps(f, AgendaItem, Seq(S)), NEW g, Foresees(f, g),
         NEW A, A = FlattenSeq([i \in DOMAIN Matching(e) |->
                      LET r == Matching(e)[i] IN Enter(r, registrations[r].operations)])
  PROVE  /\ A \in Seq(AgendaItem)
         /\ Gather(f, A) = OverListeners(e, g)
<1> DEFINE l == Listeners(e)
           n == Cardinality(Registered(e))
           ops(k) == registrations[l[k]].operations
           parts == [k \in DOMAIN l |-> Enter(l[k], ops(k))]
           gives == [k \in DOMAIN l |-> FlattenSeq([i \in DOMAIN ops(k) |-> g[l[k]][ops(k)[i]]])]
<1>1. n \in Nat /\ l \in [1 .. n -> DOMAIN registrations] /\ Matching(e) = l
  BY MatchingIsListeners
<1>2. A = FlattenSeq(parts)
  BY <1>1
<1>3. OverListeners(e, g) = FlattenSeq(gives)
  BY DEF OverListeners
<1> HIDE DEF l
<1>4. \A k \in 1 .. n : l[k] \in DOMAIN registrations /\ ops(k) \in Seq(OperationId)
  BY <1>1, RootsAreListed
<1>5. \A k \in 1 .. n : parts[k] \in Seq(AgendaItem) /\ Gather(f, parts[k]) = gives[k]
  <2> SUFFICES ASSUME NEW k \in 1 .. n
               PROVE  parts[k] \in Seq(AgendaItem) /\ Gather(f, parts[k]) = gives[k]
    OBVIOUS
  <2>1. /\ parts[k] = Enter(l[k], ops(k))
        /\ gives[k] = FlattenSeq([i \in DOMAIN ops(k) |-> g[l[k]][ops(k)[i]]])
    BY <1>1
  <2> HIDE DEF parts, gives
  <2> DEFINE q == ops(k)
  <2>2. l[k] \in DOMAIN registrations /\ q \in Seq(OperationId)
    BY <1>4
  <2>3. parts[k] = Enter(l[k], q) /\ gives[k] = FlattenSeq([i \in DOMAIN q |-> g[l[k]][q[i]]])
    BY <2>1
  <2> HIDE DEF q
  <2> QED
    BY <2>2, <2>3, EnterIs
<1>6. parts = [k \in 1 .. n |-> parts[k]] /\ gives = [k \in 1 .. n |-> gives[k]]
  BY <1>1
<1> HIDE DEF parts, gives
<1>7. parts \in Seq(Seq(AgendaItem)) /\ DOMAIN parts = 1 .. n
  BY <1>1, <1>5, <1>6, IndexedIsSeq
<1>8. [k \in DOMAIN parts |-> Gather(f, parts[k])] = gives
  BY <1>5, <1>6, <1>7
<1>9. Gather(f, FlattenSeq(parts)) = FlattenSeq([k \in DOMAIN parts |-> Gather(f, parts[k])])
  <2>1. \A ss \in Seq(Seq(AgendaItem)) :
          Gather(f, FlattenSeq(ss)) = FlattenSeq([k \in DOMAIN ss |-> Gather(f, ss[k])])
    BY GatherOverFlatten
  <2> QED
    BY <1>7, <2>1, Zenon
<1> QED
  BY <1>2, <1>3, <1>7, <1>8, <1>9, FlattenIsSeq

(* What listeners give is a sequence.                                      *)
LEMMA OverListenersIsSeq ==
  ASSUME EventTypeOK, NEW e, NEW S, NEW g,
         \A r \in DOMAIN registrations, o \in OperationId : g[r][o] \in Seq(S)
  PROVE  OverListeners(e, g) \in Seq(S)
<1> DEFINE f == [z \in AgendaItem |-> IF z.entered THEN <<>> ELSE g[z.registration][z.operation]]
           A == FlattenSeq([i \in DOMAIN Matching(e) |->
                      LET r == Matching(e)[i] IN Enter(r, registrations[r].operations)])
<1>1. Maps(f, AgendaItem, Seq(S)) /\ Foresees(f, g)
  BY DEF Maps, Foresees, AgendaItem
<1> HIDE DEF f
<1>2. A \in Seq(AgendaItem) /\ Gather(f, A) = OverListeners(e, g)
  <2>1. A = FlattenSeq([i \in DOMAIN Matching(e) |->
                      LET r == Matching(e)[i] IN Enter(r, registrations[r].operations)])
    OBVIOUS
  <2> HIDE DEF A
  <2> QED
    BY <1>1, <2>1, AgendaIsListeners
<1> HIDE DEF A
<1> QED
  BY <1>1, <1>2, GatherIsSeq

(* The steps of an operation of a registration: its own, then those of its *)
(* children.                                                               *)
LEMMA StepsAtIs ==
  ASSUME EventTypeOK, NEW n \in Nat, NEW r \in DOMAIN registrations, NEW o \in OperationId
  PROVE  /\ StepsAt(n)[r][o] \in Seq(StepRecord)
         /\ StepsAt(n)[r][o] = <<[at |-> n, by |-> r, operation |-> o]>>
              \o FlattenSeq([i \in DOMAIN ChildrenOf[o] |-> StepsAt(n)[r][ChildrenOf[o][i]]])
<1> DEFINE f == [p \in OperationId |-> [at |-> n, by |-> r, operation |-> p]]
           parts == [i \in DOMAIN ChildrenOf[o] |-> DepthFirst[ChildrenOf[o][i]]]
           c == ChildrenOf[o]
<1>1. r \in Nat
  BY DEF EventTypeOK
<1>2. Maps(f, OperationId, StepRecord)
  BY <1>1 DEF Maps, StepRecord
<1>3. f[o] = [at |-> n, by |-> r, operation |-> o]
  OBVIOUS
<1>4. \A p \in OperationId : StepsAt(n)[r][p] = Each(f, DepthFirst[p])
  <2> SUFFICES ASSUME NEW p \in OperationId PROVE StepsAt(n)[r][p] = Each(f, DepthFirst[p])
    OBVIOUS
  <2> DEFINE s == DepthFirst[p]
  <2>1. StepsAt(n)[r][p] = [i \in DOMAIN s |-> [at |-> n, by |-> r, operation |-> s[i]]]
    BY DEF StepsAt
  <2>2. s \in Seq(OperationId)
    BY DepthFirstIs
  <2> HIDE DEF s
  <2>3. \A i \in DOMAIN s : f[s[i]] = [at |-> n, by |-> r, operation |-> s[i]]
    BY <2>2
  <2> HIDE DEF f
  <2>4. Each(f, s) = [i \in DOMAIN s |-> [at |-> n, by |-> r, operation |-> s[i]]]
    BY <2>3 DEF Each
  <2> QED
    BY <2>1, <2>4 DEF s
<1> HIDE DEF f
<1>5. /\ c \in Seq(OperationId) /\ Len(c) \in Nat /\ DOMAIN c = 1 .. Len(c)
      /\ \A i \in DOMAIN c : c[i] \in OperationId
  BY ChildrenAreListed
<1>6. parts \in Seq(Seq(OperationId)) /\ DOMAIN parts = 1 .. Len(c)
  <2>1. /\ parts = [i \in 1 .. Len(c) |-> parts[i]]
        /\ \A i \in 1 .. Len(c) : parts[i] \in Seq(OperationId)
    BY <1>5, DepthFirstIs
  <2> HIDE DEF parts, c
  <2> QED
    BY <1>5, <2>1, IndexedIsSeq
<1>7. DepthFirst[o] = <<o>> \o FlattenSeq(parts) /\ DepthFirst[o] \in Seq(OperationId)
  BY DepthFirstIs
<1>8. [i \in DOMAIN parts |-> Each(f, parts[i])] = [i \in DOMAIN c |-> StepsAt(n)[r][c[i]]]
  <2>1. \A i \in 1 .. Len(c) : Each(f, parts[i]) = StepsAt(n)[r][c[i]]
    BY <1>4, <1>5
  <2> HIDE DEF parts, c
  <2> QED
    BY <1>5, <1>6, <2>1
<1> HIDE DEF parts
<1>9. FlattenSeq(parts) \in Seq(OperationId) /\ <<o>> \in Seq(OperationId)
  BY <1>6, FlattenIsSeq
<1>10. Each(f, <<o>>) = <<f[o]>>
  <2> DEFINE s == <<o>>
             t == Each(f, s)
  <2>1. s \in Seq(OperationId) /\ Len(s) = 1 /\ s[1] = o /\ 1 \in 1 .. Len(s)
    OBVIOUS
  <2> HIDE DEF s
  <2>2. Len(t) = 1 /\ t[1] = f[o]
    BY <2>1, EachOne
  <2>3. t \in Seq(StepRecord)
    BY <1>2, <2>1, EachIsSeq
  <2> HIDE DEF t
  <2>4. t = <<f[o]>>
    BY <2>2, <2>3
  <2> QED
    BY <2>4 DEF t, s
<1>11. Each(f, DepthFirst[o]) = <<f[o]>> \o Each(f, FlattenSeq(parts))
  <2>1. \A s, t \in Seq(OperationId) : Each(f, s \o t) = Each(f, s) \o Each(f, t)
    BY <1>2, EachJoins
  <2> QED
    BY <1>7, <1>9, <1>10, <2>1, Zenon
<1>12. Each(f, FlattenSeq(parts)) = FlattenSeq([i \in DOMAIN parts |-> Each(f, parts[i])])
  <2>1. \A ss \in Seq(Seq(OperationId)) :
          Each(f, FlattenSeq(ss)) = FlattenSeq([i \in DOMAIN ss |-> Each(f, ss[i])])
    BY <1>2, EachOverFlatten
  <2> QED
    BY <1>6, <2>1, Zenon
<1>13. Each(f, DepthFirst[o]) \in Seq(StepRecord)
  BY <1>2, <1>7, EachIsSeq
<1> QED
  BY <1>3, <1>4, <1>8, <1>11, <1>12, <1>13, Zenon DEF c

(* What is still to come of the items of the agenda.                       *)
StepsToCome ==
  [z \in AgendaItem |-> IF z.entered THEN <<>>
                        ELSE StepsAt(eventSequence)[z.registration][z.operation]]
EventsToCome ==
  [z \in AgendaItem |-> IF z.entered THEN EmitsOf[z.operation] ELSE Emissions[z.operation]]

(* They are lists of steps and of events, as the operations bring them.    *)
LEMMA ToComeAreForeseen ==
  ASSUME EventTypeOK
  PROVE  /\ Maps(StepsToCome, AgendaItem, Seq(StepRecord))
         /\ Maps(EventsToCome, AgendaItem, Seq(Event))
         /\ Foresees(StepsToCome, StepsAt(eventSequence)) /\ Foresees(EventsToCome, EventsOf)
<1> DEFINE g == StepsAt(eventSequence)
<1>1. \A r \in DOMAIN registrations, o \in OperationId : g[r][o] \in Seq(StepRecord)
  BY StepsAtIs DEF EventTypeOK
<1>2. \A r \in DOMAIN registrations, o \in OperationId :
        EventsOf[r][o] = Emissions[o] /\ Emissions[o] \in Seq(Event) /\ EmitsOf[o] \in Seq(Event)
  BY EmissionsIs, EventAssumption DEF EventsOf
<1>3. StepsToCome = [z \in AgendaItem |-> IF z.entered THEN <<>> ELSE g[z.registration][z.operation]]
  BY DEF StepsToCome
<1> HIDE DEF g
<1>4. Maps(StepsToCome, AgendaItem, Seq(StepRecord)) /\ Foresees(StepsToCome, g)
  BY <1>1, <1>3 DEF Maps, Foresees, AgendaItem
<1>5. Maps(EventsToCome, AgendaItem, Seq(Event)) /\ Foresees(EventsToCome, EventsOf)
  BY <1>2 DEF Maps, Foresees, AgendaItem, EventsToCome
<1> QED
  BY <1>4, <1>5 DEF g

(* One more event adds what its listeners give.                            *)
LEMMA OneMoreEvent ==
  ASSUME EventTypeOK, NEW n \in Nat
  PROVE  /\ StepsOfFirst(n) \in Seq(StepRecord) /\ EventsOfFirst(n) \in Seq(Event)
         /\ OverListeners(queued[n + 1], StepsAt(n)) \in Seq(StepRecord)
         /\ OverListeners(queued[n + 1], EventsOf) \in Seq(Event)
         /\ StepsOfFirst(n + 1) = StepsOfFirst(n) \o OverListeners(queued[n + 1], StepsAt(n))
         /\ EventsOfFirst(n + 1) = EventsOfFirst(n) \o OverListeners(queued[n + 1], EventsOf)
<1> DEFINE x == [i \in 1 .. n + 1 |-> OverListeners(queued[i], StepsAt(i - 1))]
           y == [i \in 1 .. n + 1 |-> OverListeners(queued[i], EventsOf)]
<1>1. \A i \in 1 .. n + 1 : x[i] \in Seq(StepRecord)
  <2> SUFFICES ASSUME NEW i \in 1 .. n + 1
               PROVE  OverListeners(queued[i], StepsAt(i - 1)) \in Seq(StepRecord)
    OBVIOUS
  <2> DEFINE m == i - 1
             g == StepsAt(m)
  <2>1. m \in Nat
    OBVIOUS
  <2> HIDE DEF m
  <2>2. \A r \in DOMAIN registrations, o \in OperationId : g[r][o] \in Seq(StepRecord)
    BY <2>1, StepsAtIs
  <2> HIDE DEF g
  <2>3. OverListeners(queued[i], g) \in Seq(StepRecord)
    BY <2>2, OverListenersIsSeq
  <2> QED
    BY <2>3 DEF g, m
<1>2. \A i \in 1 .. n + 1 : y[i] \in Seq(Event)
  <2>1. \A r \in DOMAIN registrations, o \in OperationId : EventsOf[r][o] \in Seq(Event)
    BY EmissionsIs DEF EventsOf
  <2>2. \A e : OverListeners(e, EventsOf) \in Seq(Event)
    BY <2>1, OverListenersIsSeq
  <2> QED
    BY <2>2
<1>3. /\ StepsOfFirst(n) = FlattenSeq([i \in 1 .. n |-> x[i]])
      /\ StepsOfFirst(n + 1) = FlattenSeq([i \in 1 .. n + 1 |-> x[i]])
      /\ x[n + 1] = OverListeners(queued[n + 1], StepsAt(n))
  <2>1. /\ [i \in 1 .. n |-> x[i]] = [i \in 1 .. n |-> OverListeners(queued[i], StepsAt(i - 1))]
        /\ [i \in 1 .. n + 1 |-> x[i]] = x
    OBVIOUS
  <2>2. x[n + 1] = OverListeners(queued[n + 1], StepsAt(n))
    <3>1. (n + 1) - 1 = n /\ n + 1 \in 1 .. n + 1
      OBVIOUS
    <3> QED
      BY <3>1, Zenon
  <2> QED
    BY <2>1, <2>2, Zenon DEF StepsOfFirst
<1>4. /\ EventsOfFirst(n) = FlattenSeq([i \in 1 .. n |-> y[i]])
      /\ EventsOfFirst(n + 1) = FlattenSeq([i \in 1 .. n + 1 |-> y[i]])
      /\ y[n + 1] = OverListeners(queued[n + 1], EventsOf)
  <2>1. /\ [i \in 1 .. n |-> y[i]] = [i \in 1 .. n |-> OverListeners(queued[i], EventsOf)]
        /\ [i \in 1 .. n + 1 |-> y[i]] = y
        /\ y[n + 1] = OverListeners(queued[n + 1], EventsOf)
    OBVIOUS
  <2> QED
    BY <2>1, Zenon DEF EventsOfFirst
<1>5. n + 1 \in 1 .. n + 1
  OBVIOUS
<1> HIDE DEF x, y
<1>6. /\ FlattenSeq([i \in 1 .. n |-> x[i]]) \in Seq(StepRecord)
      /\ FlattenSeq([i \in 1 .. n + 1 |-> x[i]]) = FlattenSeq([i \in 1 .. n |-> x[i]]) \o x[n + 1]
  BY <1>1, FlattenOfNext, Zenon
<1>7. /\ FlattenSeq([i \in 1 .. n |-> y[i]]) \in Seq(Event)
      /\ FlattenSeq([i \in 1 .. n + 1 |-> y[i]]) = FlattenSeq([i \in 1 .. n |-> y[i]]) \o y[n + 1]
  BY <1>2, FlattenOfNext, Zenon
<1> QED
  BY <1>1, <1>2, <1>3, <1>4, <1>5, <1>6, <1>7, Zenon

(* Before the first event nothing was given.                               *)
LEMMA NoEventYet == StepsOfFirst(0) = <<>> /\ EventsOfFirst(0) = <<>>
<1>1. FlattenSeq(<<>>) = <<>>
  BY DEF FlattenSeq
<1>2. 1 .. 0 = {}
  OBVIOUS
<1>3. [i \in {} |-> OverListeners(queued[i], StepsAt(i - 1))] = <<>>
      /\ [i \in {} |-> OverListeners(queued[i], EventsOf)] = <<>>
  OBVIOUS
<1> QED
  BY <1>1, <1>2, <1>3, Zenon DEF StepsOfFirst, EventsOfFirst

-----------------------------------------------------------------------------
(* What holds at every moment: what was listed, with what the agenda still *)
(* brings, is what the events begun bring, and so for the emitted events.  *)
Begun == eventSequence + (IF dispatched = NoEvent THEN 0 ELSE 1)

QueueInOrder ==
  /\ mode = "idle" => dispatched = NoEvent /\ queued = <<>>
  /\ dispatched = NoEvent => agenda = <<>>
  /\ dispatched # NoEvent => dispatched = queued[Begun]
  /\ Begun <= Len(queued) /\ pending = SubSeq(queued, Begun + 1, Len(queued))

EmittedAreLast == \E given \in Seq(Event) : queued = given \o EventsOfFirst(eventSequence)
StepsAreFirst == \E steps \in Seq(StepRecord) : trace = StepsOfFirst(eventSequence) \o steps

AgendaInOrder ==
  /\ trace \o Gather(StepsToCome, agenda) = StepsOfFirst(Begun)
  /\ emitted \o Gather(EventsToCome, agenda)
       = (IF dispatched = NoEvent THEN <<>> ELSE OverListeners(dispatched, EventsOf))

BlockedAreTold == executable <=> \A i \in DOMAIN trace : trace[i].operation \notin Uncompiled

EventInv ==
  EventTypeOK /\ QueueInOrder /\ EmittedAreLast /\ StepsAreFirst /\ AgendaInOrder /\ BlockedAreTold

(* Before a trace starts nothing is left of one, and then it is so.        *)
Fresh ==
  /\ dispatched = NoEvent /\ pending = queued /\ eventSequence = 0 /\ executable = TRUE
  /\ agenda = <<>> /\ emitted = <<>> /\ trace = <<>> /\ (mode = "idle" => queued = <<>>)

(* Then the order holds, ...                                               *)
LEMMA FreshIsInOrder == EventTypeOK /\ Fresh => EventInv
<1> SUFFICES ASSUME EventTypeOK, Fresh PROVE EventInv
  OBVIOUS
<1>1. Begun = 0 /\ eventSequence = 0
  BY DEF Fresh, Begun
<1>2. Gather(StepsToCome, <<>>) = <<>> /\ Gather(EventsToCome, <<>>) = <<>>
  BY GatherOfNone
<1>3. QueueInOrder
  <2>1. queued \in Seq(Event) /\ Len(queued) \in Nat
    BY DEF EventTypeOK
  <2>2. queued = SubSeq(queued, 1, Len(queued))
    BY <2>1
  <2> QED
    BY <1>1, <2>1, <2>2 DEF Fresh, QueueInOrder
<1>4. EmittedAreLast
  <2>1. queued \in Seq(Event) /\ queued = queued \o <<>>
    BY DEF EventTypeOK
  <2> QED
    BY <1>1, <2>1, NoEventYet DEF EmittedAreLast
<1>5. StepsAreFirst
  <2>1. <<>> \in Seq(StepRecord) /\ <<>> = <<>> \o <<>>
    OBVIOUS
  <2> QED
    BY <1>1, <2>1, NoEventYet DEF StepsAreFirst, Fresh
<1>6. AgendaInOrder
  <2>1. <<>> \o <<>> = <<>>
    OBVIOUS
  <2> QED
    BY <1>1, <1>2, <2>1, NoEventYet DEF AgendaInOrder, Fresh
<1>7. BlockedAreTold
  BY DEF BlockedAreTold, Fresh
<1> QED
  BY <1>3, <1>4, <1>5, <1>6, <1>7 DEF EventInv

(* ... also when a step leads there, ...                                   *)
LEMMA NextFreshIsInOrder == EventTypeOK' /\ Fresh' => EventInv'
  BY FreshIsInOrder, PTL

(* ... and between traces it is so.                                        *)
LEMMA IdleIsFresh ==
  ASSUME EventInv, mode = "idle"
  PROVE  Fresh /\ queued = <<>>
<1>1. EventTypeOK
  BY DEF EventInv
<1>2. dispatched = NoEvent /\ queued = <<>> /\ agenda = <<>>
  BY DEF EventInv, QueueInOrder
<1>3. Begun = 0 /\ eventSequence = 0 /\ pending = <<>>
  <2>1. eventSequence \in Nat /\ Begun = eventSequence /\ Begun <= Len(queued)
    BY <1>1, <1>2 DEF EventInv, QueueInOrder, EventTypeOK, Begun
  <2>2. Begun = 0 /\ Len(queued) = 0
    BY <1>2, <2>1
  <2>3. pending = SubSeq(<<>>, 1, 0)
    BY <1>2, <2>2 DEF EventInv, QueueInOrder
  <2> QED
    BY <2>1, <2>2, <2>3
<1>4. trace = <<>> /\ emitted = <<>>
  <2>1. Gather(StepsToCome, <<>>) = <<>> /\ Gather(EventsToCome, <<>>) = <<>>
    BY GatherOfNone
  <2>2. trace \o <<>> = <<>> /\ emitted \o <<>> = <<>>
    BY <1>2, <1>3, <2>1, NoEventYet DEF EventInv, AgendaInOrder
  <2>3. trace \in Seq(StepRecord) /\ emitted \in Seq(Event)
    BY <1>1 DEF EventTypeOK
  <2> QED
    BY <2>2, <2>3
<1>5. executable = TRUE
  BY <1>1, <1>4 DEF EventInv, BlockedAreTold, EventTypeOK
<1> QED
  BY <1>2, <1>3, <1>4, <1>5 DEF Fresh

-----------------------------------------------------------------------------
(* Only register changes the listeners.                                    *)
LEMMA ListenersStay ==
  ASSUME registrations' = registrations
  PROVE  /\ AgendaItem' = AgendaItem /\ EventsOf' = EventsOf
         /\ \A n : StepsAt(n)' = StepsAt(n)
         /\ \A e, g : OverListeners(e, g)' = OverListeners(e, g)
<1>1. AgendaItem' = AgendaItem
  BY DEF AgendaItem
<1>2. EventsOf' = EventsOf
  BY DEF EventsOf
<1>3. \A n : StepsAt(n)' = StepsAt(n)
  BY Zenon DEF StepsAt
<1>4. \A e : Listeners(e)' = Listeners(e)
  <2> DEFINE Among(q, e) == {r \in DOMAIN q : q[r].event = e}
             First(q, r, s) == \/ q[r].priority < q[s].priority
                               \/ q[r].priority = q[s].priority /\ r < s
             Of(q, e) == [k \in 1 .. Cardinality(Among(q, e)) |->
                CHOOSE r \in Among(q, e) : Cardinality({s \in Among(q, e) : First(q, s, r)}) = k - 1]
  <2>1. \A e : Listeners(e) = Of(registrations, e)
    BY Zenon DEF Listeners, Registered, Earlier
  <2>2. \A e : Listeners(e)' = Of(registrations', e)
    BY Zenon DEF Listeners, Registered, Earlier
  <2> HIDE DEF Of
  <2> QED
    BY <2>1, <2>2
<1>5. \A e, g : OverListeners(e, g)' = OverListeners(e, g)
  BY <1>4, Zenon DEF OverListeners
<1> QED
  BY <1>1, <1>2, <1>3, <1>5

(* The order holds at the start.                                           *)
LEMMA StartsInOrder == EventInit => EventInv
<1> SUFFICES ASSUME EventInit PROVE EventInv
  OBVIOUS
<1>1. EventTypeOK
  BY DEF EventInit, EventTypeOK
<1>2. Fresh
  BY DEF EventInit, Fresh
<1> QED
  BY <1>1, <1>2, FreshIsInOrder

(* An entrypoint is registered between traces only.                        *)
LEMMA RegisterInOrder ==
  ASSUME EventInv, NEW entrypoint \in Entrypoints, Register(entrypoint)
  PROVE  EventInv'
<1>1. Fresh /\ queued = <<>> /\ EventTypeOK
  BY IdleIsFresh DEF Register, EventInv
<1>2. EventTypeOK'
  <2>1. registrations' \in Seq(Entrypoints)
    BY <1>1 DEF Register, EventTypeOK
  <2>2. agenda' = <<>> /\ trace' = <<>>
    BY <1>1 DEF Register, Fresh
  <2> QED
    BY <1>1, <2>1, <2>2 DEF Register, EventTypeOK
<1>3. Fresh'
  BY <1>1 DEF Register, Fresh
<1> QED
  BY <1>2, <1>3, NextFreshIsInOrder

(* A trace starts with the events that are given.                          *)
LEMMA TraceInOrder ==
  ASSUME EventInv, NEW events \in Seq(Event), NEW m \in {"strict", "lenient"}, Trace(events, m)
  PROVE  EventInv'
<1>1. Fresh /\ queued = <<>> /\ EventTypeOK
  BY IdleIsFresh DEF Trace, EventInv
<1>2. EventTypeOK'
  <2>1. agenda' = <<>> /\ trace' = <<>>
    BY <1>1 DEF Trace, Fresh
  <2> QED
    BY <1>1, <2>1 DEF Trace, EventTypeOK
<1>3. Fresh'
  BY <1>1 DEF Trace, Fresh
<1> QED
  BY <1>2, <1>3, NextFreshIsInOrder

(* When it ends, or an uncompiled operation raises, nothing is left.       *)
LEMMA TraceEndsInOrder ==
  ASSUME EventInv, TraceEnds
  PROVE  EventInv'
<1>1. EventTypeOK
  BY DEF EventInv
<1>2. EventTypeOK'
  BY <1>1 DEF TraceEnds, EventTypeOK
<1>3. Fresh'
  BY DEF TraceEnds, Fresh
<1> QED
  BY <1>2, <1>3, NextFreshIsInOrder

(* An event is taken from the queue, and the agenda is its listeners.      *)
LEMMA DispatchEventInOrder ==
  ASSUME EventInv, DispatchEvent
  PROVE  EventInv'
<1> DEFINE d == dispatched'
           n == eventSequence
<1>1. /\ EventTypeOK /\ registrations' = registrations /\ queued' = queued
      /\ n \in Nat /\ eventSequence' = n /\ trace' = trace /\ emitted' = emitted
      /\ mode' = mode /\ executable' = executable
  BY DEF EventInv, EventTypeOK, DispatchEvent
<1>2. Begun = n /\ dispatched = NoEvent /\ agenda = <<>> /\ mode # "idle"
  BY <1>1 DEF EventInv, QueueInOrder, DispatchEvent, Begun
<1>3. /\ n + 1 <= Len(queued) /\ Len(queued) \in Nat /\ d = queued[n + 1] /\ d \in Event
      /\ pending' = SubSeq(queued, n + 2, Len(queued)) /\ pending' \in Seq(Event)
  <2>1. pending = SubSeq(queued, n + 1, Len(queued)) /\ queued \in Seq(Event) /\ Len(queued) \in Nat
    BY <1>1, <1>2 DEF EventInv, QueueInOrder, EventTypeOK
  <2>2. n + 1 <= Len(queued)
    BY <1>1, <2>1 DEF DispatchEvent
  <2> DEFINE k == n + 1
  <2>3. k \in 1 .. Len(queued) /\ k + 1 = n + 2
    BY <1>1, <2>1, <2>2
  <2>4. d = Head(pending) /\ pending' = Tail(pending) /\ pending = SubSeq(queued, k, Len(queued))
    BY <2>1 DEF DispatchEvent
  <2> HIDE DEF k, d
  <2>5. d = queued[k] /\ d \in Event /\ pending' = SubSeq(queued, k + 1, Len(queued))
        /\ pending' \in Seq(Event)
    <3>1. \A s \in Seq(Event) : \A j \in 1 .. Len(s) :
            /\ s[j] \in Event /\ Head(SubSeq(s, j, Len(s))) = s[j]
            /\ Tail(SubSeq(s, j, Len(s))) = SubSeq(s, j + 1, Len(s))
            /\ SubSeq(s, j + 1, Len(s)) \in Seq(Event)
      BY RestStarts
    <3>2. queued \in Seq(Event)
      BY <2>1
    <3> QED
      BY <2>3, <2>4, <3>1, <3>2, Zenon
  <2> QED
    BY <2>1, <2>2, <2>3, <2>5 DEF k
<1>4. d # NoEvent /\ Begun' = n + 1
  BY <1>1, <1>3, EventAssumption DEF Begun
<1>5. agenda' = FlattenSeq([i \in DOMAIN Matching(d) |->
                  LET r == Matching(d)[i] IN Enter(r, registrations[r].operations)])
  BY DEF DispatchEvent
<1> HIDE DEF d
<1>6. StepsToCome' = StepsToCome /\ EventsToCome' = EventsToCome
  BY <1>1, ListenersStay DEF StepsToCome, EventsToCome
<1>7. /\ agenda' \in Seq(AgendaItem)
      /\ Gather(StepsToCome, agenda') = OverListeners(d, StepsAt(n))
      /\ Gather(EventsToCome, agenda') = OverListeners(d, EventsOf)
  BY <1>1, <1>5, ToComeAreForeseen, AgendaIsListeners
<1>8. EventTypeOK'
  BY <1>1, <1>3, <1>7, ListenersStay DEF EventTypeOK, d
<1>9. QueueInOrder'
  <2>1. (n + 1) + 1 = n + 2
    BY <1>1
  <2> QED
    BY <1>1, <1>2, <1>3, <1>4, <2>1 DEF QueueInOrder, d
<1>10. StepsOfFirst(n)' = StepsOfFirst(n) /\ EventsOfFirst(n)' = EventsOfFirst(n)
       /\ StepsOfFirst(n + 1)' = StepsOfFirst(n + 1)
  BY <1>1, ListenersStay DEF StepsOfFirst, EventsOfFirst
<1>11. EmittedAreLast' /\ StepsAreFirst'
  BY <1>1, <1>10 DEF EventInv, EmittedAreLast, StepsAreFirst
<1>12. trace = StepsOfFirst(n) /\ emitted = <<>>
  <2>1. trace \o <<>> = StepsOfFirst(n) /\ emitted \o <<>> = <<>>
    BY <1>1, <1>2, GatherOfNone DEF EventInv, AgendaInOrder
  <2>2. trace \in Seq(StepRecord) /\ emitted \in Seq(Event)
    BY <1>1 DEF EventTypeOK
  <2> QED
    BY <2>1, <2>2
<1>13. AgendaInOrder'
  <2>1. trace \o OverListeners(d, StepsAt(n)) = StepsOfFirst(n + 1)
    BY <1>1, <1>3, <1>12, OneMoreEvent
  <2>2. emitted \o OverListeners(d, EventsOf) = OverListeners(d, EventsOf)
    BY <1>1, <1>3, <1>12, OneMoreEvent
  <2>3. /\ Gather(StepsToCome, agenda)' = OverListeners(d, StepsAt(n))
        /\ Gather(EventsToCome, agenda)' = OverListeners(d, EventsOf)
    BY <1>6, <1>7
  <2>4. OverListeners(dispatched, EventsOf)' = OverListeners(d, EventsOf)
    BY <1>1, ListenersStay DEF d
  <2>5. StepsOfFirst(Begun)' = StepsOfFirst(n + 1)
    BY <1>1, <1>4, ListenersStay DEF StepsOfFirst
  <2> QED
    BY <1>1, <1>4, <2>1, <2>2, <2>3, <2>4, <2>5 DEF AgendaInOrder, d
<1>14. BlockedAreTold'
  BY <1>1 DEF EventInv, BlockedAreTold
<1> QED
  BY <1>8, <1>9, <1>11, <1>13, <1>14 DEF EventInv

(* The first item of the agenda, and what it still brings.                 *)
LEMMA AgendaStarts ==
  ASSUME EventTypeOK, agenda # <<>>,
         NEW f, NEW S, Maps(f, AgendaItem, Seq(S))
  PROVE  /\ Head(agenda) \in AgendaItem /\ Tail(agenda) \in Seq(AgendaItem)
         /\ f[Head(agenda)] \in Seq(S) /\ Gather(f, Tail(agenda)) \in Seq(S)
         /\ Gather(f, agenda) = f[Head(agenda)] \o Gather(f, Tail(agenda))
<1> DEFINE h == Head(agenda)
           t == Tail(agenda)
<1>1. agenda \in Seq(AgendaItem)
  BY DEF EventTypeOK
<1> HIDE DEF AgendaItem
<1>2. h \in AgendaItem /\ t \in Seq(AgendaItem) /\ <<h>> \in Seq(AgendaItem)
  BY <1>1
<1>3. agenda = <<h>> \o t
  BY <1>1
<1> HIDE DEF h, t
<1>4. Gather(f, <<h>> \o t) = Gather(f, <<h>>) \o Gather(f, t)
  <2>1. \A u, v \in Seq(AgendaItem) : Gather(f, u \o v) = Gather(f, u) \o Gather(f, v)
    BY GatherJoins
  <2> QED
    BY <1>2, <2>1, Zenon
<1>5. Gather(f, <<h>>) = f[h] /\ f[h] \in Seq(S)
  BY <1>2, GatherOfOne DEF Maps
<1>6. Gather(f, t) \in Seq(S)
  BY <1>2, GatherIsSeq
<1> QED
  BY <1>2, <1>3, <1>4, <1>5, <1>6, Zenon DEF h, t

(* While an operation is at the head of the agenda, an event is dispatched *)
(* and only the agenda, the trace and the emitted events change.           *)
LEMMA AgendaMoves ==
  ASSUME EventInv, agenda # <<>>,
         UNCHANGED <<registrations, mode, pending, dispatched, eventSequence, queued>>,
         agenda' \in Seq(AgendaItem), emitted' \in Seq(Event),
         trace' \o Gather(StepsToCome, agenda') = trace \o Gather(StepsToCome, agenda),
         emitted' \o Gather(EventsToCome, agenda') = emitted \o Gather(EventsToCome, agenda),
         NEW more \in Seq(StepRecord), trace' = trace \o more,
         executable' \in BOOLEAN, BlockedAreTold'
  PROVE  EventInv'
<1>1. EventTypeOK /\ trace \in Seq(StepRecord) /\ trace' \in Seq(StepRecord)
  BY DEF EventInv, EventTypeOK
<1>2. EventTypeOK'
  BY <1>1, ListenersStay DEF EventTypeOK
<1>3. QueueInOrder' /\ Begun' = Begun
  BY DEF EventInv, QueueInOrder, Begun
<1>4. StepsToCome' = StepsToCome /\ EventsToCome' = EventsToCome
  BY ListenersStay DEF StepsToCome, EventsToCome
<1>5. /\ StepsOfFirst(eventSequence)' = StepsOfFirst(eventSequence)
      /\ EventsOfFirst(eventSequence)' = EventsOfFirst(eventSequence)
      /\ StepsOfFirst(Begun)' = StepsOfFirst(Begun)
  BY <1>3, ListenersStay DEF StepsOfFirst, EventsOfFirst
<1>6. EmittedAreLast'
  BY <1>5 DEF EventInv, EmittedAreLast
<1>7. StepsAreFirst'
  <2>1. PICK steps \in Seq(StepRecord) : trace = StepsOfFirst(eventSequence) \o steps
    BY DEF EventInv, StepsAreFirst
  <2> DEFINE n == StepsOfFirst(eventSequence)
  <2>2. n \in Seq(StepRecord)
    BY <1>1, OneMoreEvent DEF EventTypeOK
  <2> HIDE DEF n
  <2>3. (n \o steps) \o more = n \o (steps \o more) /\ steps \o more \in Seq(StepRecord)
    BY <2>2
  <2>4. trace' = n \o (steps \o more)
    BY <2>1, <2>3 DEF n
  <2> QED
    BY <1>5, <2>3, <2>4 DEF StepsAreFirst, n
<1>8. AgendaInOrder'
  <2>1. OverListeners(dispatched, EventsOf)' = OverListeners(dispatched, EventsOf)
    BY ListenersStay
  <2> QED
    BY <1>4, <1>5, <2>1 DEF EventInv, AgendaInOrder
<1> QED
  BY <1>2, <1>3, <1>6, <1>7, <1>8 DEF EventInv

(* What an operation emits comes after what its children emitted.          *)
LEMMA LeaveOperationInOrder ==
  ASSUME EventInv, LeaveOperation
  PROVE  EventInv'
<1> DEFINE h == Head(agenda)
           t == Tail(agenda)
           own == EmitsOf[h.operation]
<1>1. EventTypeOK /\ trace \in Seq(StepRecord) /\ emitted \in Seq(Event)
  BY DEF EventInv, EventTypeOK
<1>2. /\ agenda # <<>> /\ h.entered /\ emitted' = emitted \o own /\ agenda' = t /\ trace' = trace
      /\ UNCHANGED <<registrations, mode, pending, dispatched, eventSequence, queued>>
      /\ executable' = executable
  BY DEF LeaveOperation
<1> HIDE DEF t
<1>3. /\ h \in AgendaItem /\ t \in Seq(AgendaItem)
      /\ Gather(StepsToCome, t) \in Seq(StepRecord) /\ Gather(EventsToCome, t) \in Seq(Event)
      /\ Gather(StepsToCome, agenda) = StepsToCome[h] \o Gather(StepsToCome, t)
      /\ Gather(EventsToCome, agenda) = EventsToCome[h] \o Gather(EventsToCome, t)
  BY <1>1, <1>2, AgendaStarts, ToComeAreForeseen DEF t
<1>4. StepsToCome[h] = <<>> /\ EventsToCome[h] = own
  BY <1>2, <1>3 DEF StepsToCome, EventsToCome
<1>5. own \in Seq(Event)
  BY <1>3, EventAssumption DEF AgendaItem
<1> HIDE DEF h, own
<1>6. trace' \o Gather(StepsToCome, agenda') = trace \o Gather(StepsToCome, agenda)
  <2>1. <<>> \o Gather(StepsToCome, t) = Gather(StepsToCome, t)
    BY <1>3
  <2> QED
    BY <1>2, <1>3, <1>4, <2>1, Zenon
<1>7. emitted' \o Gather(EventsToCome, agenda') = emitted \o Gather(EventsToCome, agenda)
  <2> DEFINE rest == Gather(EventsToCome, t)
  <2>1. rest \in Seq(Event)
    BY <1>3
  <2> HIDE DEF rest
  <2>2. (emitted \o own) \o rest = emitted \o (own \o rest)
    BY <1>1, <1>5, <2>1
  <2> QED
    BY <1>2, <1>3, <1>4, <2>2, Zenon DEF rest
<1>8. BlockedAreTold'
  BY <1>2 DEF EventInv, BlockedAreTold
<1>9. trace' = trace \o <<>> /\ <<>> \in Seq(StepRecord) /\ executable' \in BOOLEAN
      /\ emitted' \in Seq(Event)
  BY <1>1, <1>2, <1>5 DEF EventTypeOK
<1>10. agenda' \in Seq(AgendaItem)
  BY <1>2, <1>3
<1> QED
  BY <1>2, <1>6, <1>7, <1>8, <1>9, <1>10, AgendaMoves

(* An operation is replaced by its children, and it is left after them.    *)
LEMMA EnterOperationInOrder ==
  ASSUME EventInv, EnterOperation
  PROVE  EventInv'
<1> DEFINE h == Head(agenda)
           t == Tail(agenda)
           o == h.operation
           r == h.registration
           n == eventSequence
           step == [at |-> n, by |-> r, operation |-> o]
           children == Enter(r, ChildrenOf[o])
           after == [registration |-> r, operation |-> o, entered |-> TRUE]
<1>1. EventTypeOK /\ trace \in Seq(StepRecord) /\ emitted \in Seq(Event) /\ n \in Nat
  BY DEF EventInv, EventTypeOK
<1>2. agenda # <<>> /\ ~h.entered /\ h \in AgendaItem
  BY <1>1, AgendaStarts, ToComeAreForeseen DEF EnterOperation
<1>3. o \in OperationId /\ r \in DOMAIN registrations /\ h = [registration |-> r, operation |-> o, entered |-> FALSE]
  BY <1>2 DEF AgendaItem
<1>4. [h EXCEPT !.entered = TRUE] = after /\ after \in AgendaItem
  <2> HIDE DEF h
  <2>1. after \in AgendaItem
    BY <1>3 DEF AgendaItem
  <2> DEFINE e == [h EXCEPT !.entered = TRUE]
  <2>2. e.registration = h.registration /\ e.operation = h.operation /\ e.entered = TRUE
        /\ e \in AgendaItem
    BY <1>2 DEF AgendaItem
  <2> HIDE DEF e
  <2>3. e = after
    BY <1>3, <2>2 DEF AgendaItem
  <2> QED
    BY <2>1, <2>3 DEF e
<1>5. /\ trace' = Append(trace, step) /\ executable' = (executable /\ o \notin Uncompiled)
      /\ agenda' = children \o <<after>> \o t /\ emitted' = emitted
      /\ UNCHANGED <<registrations, mode, pending, dispatched, eventSequence, queued>>
  BY <1>4 DEF EnterOperation
<1>6. step \in StepRecord
  <2>1. r \in Nat
    BY <1>1, <1>3 DEF EventTypeOK
  <2> QED
    BY <1>1, <1>3, <2>1 DEF StepRecord
<1>7. ChildrenOf[o] \in Seq(OperationId)
  BY <1>3, ChildrenAreListed
<1>8. /\ children \in Seq(AgendaItem)
      /\ Gather(StepsToCome, children)
           = FlattenSeq([i \in DOMAIN ChildrenOf[o] |-> StepsAt(n)[r][ChildrenOf[o][i]]])
      /\ Gather(EventsToCome, children)
           = FlattenSeq([i \in DOMAIN ChildrenOf[o] |-> EventsOf[r][ChildrenOf[o][i]]])
  BY <1>1, <1>3, <1>7, EnterIs, ToComeAreForeseen
<1> HIDE DEF t
<1>9. /\ t \in Seq(AgendaItem)
      /\ Gather(StepsToCome, t) \in Seq(StepRecord) /\ Gather(EventsToCome, t) \in Seq(Event)
      /\ Gather(StepsToCome, agenda) = StepsToCome[h] \o Gather(StepsToCome, t)
      /\ Gather(EventsToCome, agenda) = EventsToCome[h] \o Gather(EventsToCome, t)
  BY <1>1, <1>2, AgendaStarts, ToComeAreForeseen DEF t
<1>10. StepsToCome[h] = <<step>> \o Gather(StepsToCome, children)
  <2>1. StepsToCome[h] = StepsAt(n)[r][o]
    BY <1>2 DEF StepsToCome
  <2>2. StepsAt(n)[r][o] = <<[at |-> n, by |-> r, operation |-> o]>>
          \o FlattenSeq([i \in DOMAIN ChildrenOf[o] |-> StepsAt(n)[r][ChildrenOf[o][i]]])
    BY <1>1, <1>3, StepsAtIs
  <2> QED
    BY <1>8, <2>1, <2>2, Zenon
<1>11. EventsToCome[h] = Gather(EventsToCome, children) \o EmitsOf[o]
  <2>1. EventsToCome[h] = Emissions[o]
    BY <1>2 DEF EventsToCome
  <2>2. [i \in DOMAIN ChildrenOf[o] |-> EventsOf[r][ChildrenOf[o][i]]]
          = [i \in DOMAIN ChildrenOf[o] |-> Emissions[ChildrenOf[o][i]]]
    BY <1>3 DEF EventsOf
  <2>3. Emissions[o] = FlattenSeq([i \in DOMAIN ChildrenOf[o] |-> Emissions[ChildrenOf[o][i]]])
                        \o EmitsOf[o]
    BY <1>3, EmissionsIs
  <2> QED
    BY <1>8, <2>1, <2>2, <2>3, Zenon
<1>12. StepsToCome[after] = <<>> /\ EventsToCome[after] = EmitsOf[o] /\ EmitsOf[o] \in Seq(Event)
  BY <1>3, <1>4, EventAssumption DEF StepsToCome, EventsToCome
<1>13. /\ Gather(StepsToCome, children) \in Seq(StepRecord)
       /\ Gather(EventsToCome, children) \in Seq(Event)
  BY <1>1, <1>8, ToComeAreForeseen, GatherIsSeq
<1> HIDE DEF h, o, r, n, step, children, after
<1>14. /\ agenda' \in Seq(AgendaItem)
       /\ Gather(StepsToCome, agenda') = (Gather(StepsToCome, children) \o StepsToCome[after]) \o Gather(StepsToCome, t)
       /\ Gather(EventsToCome, agenda') = (Gather(EventsToCome, children) \o EventsToCome[after]) \o Gather(EventsToCome, t)
  <2>1. <<after>> \in Seq(AgendaItem) /\ children \o <<after>> \in Seq(AgendaItem)
        /\ (children \o <<after>>) \o t \in Seq(AgendaItem)
    BY <1>4, <1>8, <1>9
  <2>2. \A f, S : Maps(f, AgendaItem, Seq(S)) =>
          \A u, v \in Seq(AgendaItem) : Gather(f, u \o v) = Gather(f, u) \o Gather(f, v)
    BY GatherJoins
  <2>3. \A f, S : Maps(f, AgendaItem, Seq(S)) => Gather(f, <<after>>) = f[after]
    BY <1>4, GatherOfOne
  <2>4. \A f, S : Maps(f, AgendaItem, Seq(S)) =>
          Gather(f, (children \o <<after>>) \o t) = (Gather(f, children) \o f[after]) \o Gather(f, t)
    <3> SUFFICES ASSUME NEW f, NEW S, Maps(f, AgendaItem, Seq(S))
                 PROVE  Gather(f, (children \o <<after>>) \o t)
                          = (Gather(f, children) \o f[after]) \o Gather(f, t)
      OBVIOUS
    <3> DEFINE w == <<after>>
               u == children \o w
    <3>1. w \in Seq(AgendaItem) /\ u \in Seq(AgendaItem)
      BY <2>1
    <3>2. Gather(f, w) = f[after]
      BY <2>3, Zenon
    <3>3. Gather(f, children \o w) = Gather(f, children) \o Gather(f, w)
      BY <1>8, <2>2, <3>1, Zenon
    <3> HIDE DEF u
    <3>4. Gather(f, u \o t) = Gather(f, u) \o Gather(f, t)
      BY <1>9, <2>2, <3>1, Zenon
    <3> QED
      BY <3>2, <3>3, <3>4, Zenon DEF u
  <2> QED
    BY <1>1, <1>5, <2>1, <2>4, ToComeAreForeseen, Zenon
<1>15. trace' \o Gather(StepsToCome, agenda') = trace \o Gather(StepsToCome, agenda)
  <2> DEFINE a == Gather(StepsToCome, children)
             b == Gather(StepsToCome, t)
  <2>1. a \in Seq(StepRecord) /\ b \in Seq(StepRecord)
    BY <1>9, <1>13
  <2> HIDE DEF a, b
  <2>2. Append(trace, step) \o ((a \o <<>>) \o b) = trace \o ((<<step>> \o a) \o b)
    <3>1. a \o <<>> = a
      BY <2>1
    <3>2. Append(trace, step) = trace \o <<step>> /\ <<step>> \in Seq(StepRecord)
      BY <1>1, <1>6
    <3>3. (trace \o <<step>>) \o (a \o b) = trace \o ((<<step>> \o a) \o b)
      BY <1>1, <2>1, <3>2
    <3> QED
      BY <3>1, <3>2, <3>3
  <2> QED
    BY <1>5, <1>9, <1>10, <1>12, <1>14, <2>2, Zenon DEF a, b
<1>16. emitted' \o Gather(EventsToCome, agenda') = emitted \o Gather(EventsToCome, agenda)
  BY <1>5, <1>9, <1>11, <1>12, <1>14, Zenon
<1>17. BlockedAreTold' /\ executable' \in BOOLEAN
  <2>1. Len(trace) \in Nat /\ DOMAIN trace = 1 .. Len(trace)
    BY <1>1
  <2>2. /\ DOMAIN trace' = 1 .. Len(trace) + 1 /\ trace'[Len(trace) + 1] = step
        /\ \A i \in 1 .. Len(trace) : trace'[i] = trace[i]
    BY <1>1, <1>5, <1>6
  <2>3. step.operation = o
    BY DEF step
  <2>4. (\A i \in DOMAIN trace' : trace'[i].operation \notin Uncompiled)
          <=> (\A i \in DOMAIN trace : trace[i].operation \notin Uncompiled) /\ o \notin Uncompiled
    <3>1. DOMAIN trace' = DOMAIN trace \cup {Len(trace) + 1}
      BY <2>1, <2>2
    <3> QED
      BY <2>1, <2>2, <2>3, <3>1
  <2> QED
    BY <1>5, <2>4 DEF EventInv, BlockedAreTold
<1>18. trace' = trace \o <<step>> /\ <<step>> \in Seq(StepRecord) /\ emitted' \in Seq(Event)
  BY <1>1, <1>5, <1>6
<1> QED
  BY <1>2, <1>5, <1>14, <1>15, <1>16, <1>17, <1>18, AgendaMoves

(* The events that were emitted join the end of the queue.                 *)
LEMMA EndEventInOrder ==
  ASSUME EventInv, EndEvent
  PROVE  EventInv'
<1>0. PICK n \in Nat : n = eventSequence
  BY DEF EventInv, EventTypeOK
<1>1. /\ EventTypeOK /\ trace \in Seq(StepRecord) /\ emitted \in Seq(Event) /\ n \in Nat
      /\ queued \in Seq(Event) /\ Len(queued) \in Nat
  BY DEF EventInv, EventTypeOK
<1>2. /\ dispatched # NoEvent /\ agenda = <<>> /\ pending' = pending \o emitted
      /\ queued' = queued \o emitted /\ dispatched' = NoEvent /\ emitted' = <<>>
      /\ eventSequence' = n + 1 /\ agenda' = <<>> /\ trace' = trace
      /\ registrations' = registrations /\ mode' = mode /\ executable' = executable
  BY <1>0 DEF EndEvent
<1>3. Begun = n + 1 /\ Begun' = n + 1 /\ dispatched = queued[n + 1] /\ n + 1 <= Len(queued)
  BY <1>0, <1>1, <1>2 DEF EventInv, QueueInOrder, Begun
<1>4. trace = StepsOfFirst(n + 1) /\ emitted = OverListeners(queued[n + 1], EventsOf)
  <2>1. trace \o <<>> = StepsOfFirst(n + 1) /\ emitted \o <<>> = OverListeners(queued[n + 1], EventsOf)
    BY <1>2, <1>3, GatherOfNone DEF EventInv, AgendaInOrder
  <2> QED
    BY <1>1, <2>1
<1>5. queued' \in Seq(Event) /\ pending' \in Seq(Event)
  BY <1>1, <1>2 DEF EventTypeOK
<1>6. EventTypeOK'
  BY <1>1, <1>2, <1>5 DEF EventTypeOK
<1>7. \A i \in 1 .. n + 1 : queued'[i] = queued[i]
  BY <1>1, <1>2, <1>3
<1>8. QueueInOrder'
  <2>1. pending = SubSeq(queued, n + 2, Len(queued))
    <3>1. (n + 1) + 1 = n + 2
      BY <1>1
    <3> QED
      BY <1>3, <3>1 DEF EventInv, QueueInOrder
  <2>2. pending' = SubSeq(queued', n + 2, Len(queued'))
    <3>1. n + 2 \in 1 .. Len(queued) + 1
      BY <1>1, <1>3
    <3> QED
      BY <1>1, <1>2, <2>1, <3>1, RestOfJoin
  <2>3. n + 1 <= Len(queued')
    BY <1>1, <1>2, <1>3
  <2>4. mode # "idle"
    BY <1>2 DEF EventInv, QueueInOrder
  <2>5. (n + 1) + 1 = n + 2
    BY <1>1
  <2> QED
    BY <1>2, <1>3, <2>2, <2>3, <2>4, <2>5 DEF QueueInOrder
<1>9. StepsOfFirst(n + 1)' = StepsOfFirst(n + 1) /\ EventsOfFirst(n + 1)' = EventsOfFirst(n + 1)
  BY <1>2, <1>7, ListenersStay DEF StepsOfFirst, EventsOfFirst
<1>10. StepsAreFirst'
  <2>1. trace \o <<>> = trace /\ <<>> \in Seq(StepRecord)
    BY <1>1
  <2>2. StepsOfFirst(eventSequence)' = StepsOfFirst(n + 1)
    BY <1>2, <1>9 DEF StepsOfFirst
  <2> QED
    BY <1>2, <1>4, <2>1, <2>2 DEF StepsAreFirst
<1>11. EmittedAreLast'
  <2>1. PICK given \in Seq(Event) : queued = given \o EventsOfFirst(n)
    BY <1>0 DEF EventInv, EmittedAreLast
  <2> DEFINE done == EventsOfFirst(n)
  <2>2. done \in Seq(Event) /\ EventsOfFirst(n + 1) = done \o emitted
    BY <1>1, <1>4, OneMoreEvent
  <2> HIDE DEF done
  <2>3. (given \o done) \o emitted = given \o (done \o emitted)
    <3>1. \A s, t, u \in Seq(Event) : (s \o t) \o u = s \o (t \o u)
      BY JoinsAssociate
    <3>2. given \in Seq(Event) /\ done \in Seq(Event) /\ emitted \in Seq(Event)
      BY <1>1, <2>2
    <3> QED
      BY <3>1, <3>2, Zenon
  <2>4. queued' = given \o EventsOfFirst(n + 1)
    BY <1>2, <2>1, <2>2, <2>3 DEF done
  <2>5. EventsOfFirst(eventSequence)' = EventsOfFirst(n + 1)
    BY <1>2, <1>9 DEF EventsOfFirst
  <2> QED
    BY <2>4, <2>5 DEF EmittedAreLast
<1>12. AgendaInOrder'
  <2>1. Gather(StepsToCome, agenda)' = <<>> /\ Gather(EventsToCome, agenda)' = <<>>
    BY <1>2, GatherOfNone
  <2>2. StepsOfFirst(Begun)' = StepsOfFirst(n + 1)
    BY <1>3, <1>9 DEF StepsOfFirst
  <2>3. trace \o <<>> = trace /\ <<>> \o <<>> = <<>>
    BY <1>1
  <2> QED
    BY <1>2, <1>4, <2>1, <2>2, <2>3 DEF AgendaInOrder
<1>13. BlockedAreTold'
  BY <1>2 DEF EventInv, BlockedAreTold
<1> QED
  BY <1>6, <1>8, <1>10, <1>11, <1>12, <1>13 DEF EventInv

(* A step that changes nothing keeps the order.                            *)
LEMMA StutterInOrder == EventInv /\ UNCHANGED eventVars => EventInv'
<1> SUFFICES ASSUME EventInv, UNCHANGED eventVars PROVE EventInv'
  OBVIOUS
<1> USE DEF eventVars
<1>1. EventTypeOK' /\ QueueInOrder' /\ BlockedAreTold' /\ Begun' = Begun
  BY ListenersStay DEF EventInv, EventTypeOK, QueueInOrder, BlockedAreTold, Begun
<1>2. StepsToCome' = StepsToCome /\ EventsToCome' = EventsToCome
  BY ListenersStay DEF StepsToCome, EventsToCome
<1>3. /\ StepsOfFirst(eventSequence)' = StepsOfFirst(eventSequence)
      /\ EventsOfFirst(eventSequence)' = EventsOfFirst(eventSequence)
      /\ StepsOfFirst(Begun)' = StepsOfFirst(Begun)
  BY <1>1, ListenersStay DEF StepsOfFirst, EventsOfFirst
<1>4. EmittedAreLast' /\ StepsAreFirst'
  BY <1>3 DEF EventInv, EmittedAreLast, StepsAreFirst
<1>5. AgendaInOrder'
  <2>1. OverListeners(dispatched, EventsOf)' = OverListeners(dispatched, EventsOf)
    BY ListenersStay
  <2> QED
    BY <1>2, <1>3, <2>1 DEF EventInv, AgendaInOrder
<1> QED
  BY <1>1, <1>4, <1>5 DEF EventInv

(* Every step keeps it.                                                    *)
LEMMA EveryStepInOrder == EventInv /\ [EventNext]_eventVars => EventInv'
<1> SUFFICES ASSUME EventInv, [EventNext]_eventVars PROVE EventInv'
  OBVIOUS
<1>1. ASSUME NEW entrypoint \in Entrypoints, Register(entrypoint) PROVE EventInv'
  BY <1>1, RegisterInOrder
<1>2. ASSUME NEW n \in 1 .. MaxGiven, NEW m \in {"strict", "lenient"},
             NEW events \in [1 .. n -> Event], Trace(events, m)
      PROVE  EventInv'
  <2>1. events \in Seq(Event)
    OBVIOUS
  <2> QED
    BY <1>2, <2>1, TraceInOrder
<1>3. CASE DispatchEvent
  BY <1>3, DispatchEventInOrder
<1>4. CASE EnterOperation
  BY <1>4, EnterOperationInOrder
<1>5. CASE LeaveOperation
  BY <1>5, LeaveOperationInOrder
<1>6. CASE EndEvent
  BY <1>6, EndEventInOrder
<1>7. CASE TraceEnds
  BY <1>7, TraceEndsInOrder
<1>8. CASE UNCHANGED eventVars
  BY <1>8, StutterInOrder
<1> QED
  BY <1>1, <1>2, <1>3, <1>4, <1>5, <1>6, <1>7, <1>8 DEF EventNext

(* And what is in order is breadth first.                                  *)
LEMMA InOrderIsBreadthFirst == EventInv => DispatchIsBreadthFirst
<1> SUFFICES ASSUME EventInv PROVE DispatchIsBreadthFirst
  OBVIOUS
<1> DEFINE n == eventSequence
<1>1. /\ EventTypeOK /\ n \in Nat /\ Begun \in Nat /\ agenda \in Seq(AgendaItem)
      /\ trace \in Seq(StepRecord)
  BY DEF EventInv, EventTypeOK, Begun
<1>2. pending = SubSeq(queued, Begun + 1, Len(queued))
  BY DEF EventInv, QueueInOrder
<1>3. IsSuffix(EventsOfFirst(n), queued)
  <2>1. PICK given \in Seq(Event) : queued = given \o EventsOfFirst(n)
    BY DEF EventInv, EmittedAreLast
  <2> DEFINE done == EventsOfFirst(n)
  <2>2. done \in Seq(Event)
    BY <1>1, OneMoreEvent
  <2> HIDE DEF done
  <2>3. IsSuffix(done, given \o done)
    BY <2>2, SuffixOfJoin
  <2> QED
    BY <2>1, <2>3 DEF done
<1>4. IsPrefix(StepsOfFirst(n), trace)
  <2>1. PICK steps \in Seq(StepRecord) : trace = StepsOfFirst(n) \o steps
    BY DEF EventInv, StepsAreFirst
  <2> DEFINE done == StepsOfFirst(n)
  <2>2. done \in Seq(StepRecord)
    BY <1>1, OneMoreEvent
  <2> HIDE DEF done
  <2>3. IsPrefix(done, done \o steps)
    BY <2>2, PrefixOfJoin
  <2> QED
    BY <2>1, <2>3 DEF done
<1>5. IsPrefix(trace, StepsOfFirst(Begun))
  <2> DEFINE rest == Gather(StepsToCome, agenda)
  <2>1. rest \in Seq(StepRecord)
    BY <1>1, ToComeAreForeseen, GatherIsSeq
  <2>2. trace \o rest = StepsOfFirst(Begun)
    BY DEF EventInv, AgendaInOrder
  <2> HIDE DEF rest
  <2>3. IsPrefix(trace, trace \o rest)
    BY <1>1, <2>1, PrefixOfJoin
  <2> QED
    BY <2>2, <2>3
<1>6. BlockedAreTold
  BY DEF EventInv
<1> QED
  BY <1>2, <1>3, <1>4, <1>5, <1>6, Zenon DEF DispatchIsBreadthFirst, Begun, BlockedAreTold

(* A trace dispatches its events in the order in which they were given or  *)
(* emitted, each to all its registrations by priority and age, operations  *)
(* depth first, whatever the registrations and however operations nest.    *)
THEOREM EventsAreBreadthFirst == EventSpec => []DispatchIsBreadthFirst
<1>1. EventSpec => []EventInv
  BY StartsInOrder, EveryStepInOrder, PTL DEF EventSpec
<1> QED
  BY <1>1, InOrderIsBreadthFirst, PTL
=============================================================================
