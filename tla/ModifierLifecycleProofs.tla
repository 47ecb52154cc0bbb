----------------------- MODULE ModifierLifecycleProofs -----------------------
(***************************************************************************)
(* Proofs about the modifier containers, for every set of entities, keys   *)
(* and templates and every bound.  All of them rest on one description of  *)
(* what a step does to the instance at one ordinal of one list.  The last  *)
(* part is about the lists composed with the contributions.                *)
(***************************************************************************)
EXTENDS ModifierEffects, TLAPS

-----------------------------------------------------------------------------
(* The previous life of an instance is permanent or the life it has.       *)
PreviousKnown(i) == i.previous \in {Permanent, i.life}

(* A refresh yields an instance and never touches key, state and guard;    *)
(* its previous life becomes permanent or the life it sets.                *)
LEMMA ReddKeeps ==
  ASSUME NEW i \in Instance, NEW t \in Template
  PROVE  /\ Redd(i, t) \in Instance
         /\ Redd(i, t).key = i.key
         /\ Redd(i, t).state = i.state
         /\ Redd(i, t).guard = i.guard
         /\ PreviousKnown(i) => PreviousKnown(Redd(i, t))
<1> DEFINE stacking == StackingOf[i.key.name]
<1>1. t.life \in Nat \cup {Permanent} /\ t.count \in Nat
  BY TemplateAssumption
<1>2. i.life \in Nat \cup {Permanent} /\ i.previous \in Nat \cup {Permanent}
  BY DEF Instance
<1>3. ASSUME NEW life \in Nat \cup {Permanent}
      PROVE  /\ Relived(i, life) \in Instance
             /\ Relived(i, life).key = i.key
             /\ Relived(i, life).state = i.state
             /\ Relived(i, life).guard = i.guard
             /\ PreviousKnown(Relived(i, life))
  BY <1>3 DEF Relived, Instance, PreviousKnown
<1>4. CASE stacking \in Resetting
  <2>1. Redd(i, t) = [Relived(i, t.life) EXCEPT !.count = t.count]
    BY <1>4 DEF Redd, Resetting, ByProvider
  <2> QED
    BY <1>1, <1>3, <2>1 DEF Instance, PreviousKnown
<1>5. CASE stacking = "PROLONG"
  <2>1. Redd(i, t) =
          Relived(i, IF BothFinite(i, t.life) THEN i.life + t.life ELSE Permanent)
    BY <1>5 DEF Redd, Resetting, ByProvider
  <2>2. CASE BothFinite(i, t.life) /\ i.life # Permanent
    BY <1>1, <1>2, <1>3, <2>1, <2>2 DEF BothFinite
  <2>3. CASE BothFinite(i, t.life) /\ i.life = Permanent
    <3>1. t.life \in Nat /\ i.life + t.life \in Nat \cup {Permanent}
      BY <1>1, <2>3 DEF BothFinite, Permanent
    <3> QED
      BY <1>3, <2>1, <2>3, <3>1
  <2>4. CASE ~BothFinite(i, t.life)
    <3> DEFINE j == Relived(i, Permanent)
    <3>1. Redd(i, t) = j
      BY <2>1, <2>4
    <3>2. /\ j \in Instance
          /\ j.key = i.key
          /\ j.state = i.state
          /\ j.guard = i.guard
          /\ PreviousKnown(j)
      BY <1>3
    <3> HIDE DEF j
    <3> QED
      BY <3>1, <3>2
  <2> QED
    BY <2>2, <2>3, <2>4
<1>6. CASE stacking = "MERGE"
  <2>1. Redd(i, t) =
          Relived(i, IF BothFinite(i, t.life) THEN Larger(i.life, t.life)
                                              ELSE Permanent)
    BY <1>6 DEF Redd, Resetting, ByProvider
  <2> QED
    BY <1>1, <1>2, <1>3, <2>1 DEF Larger
<1>7. CASE stacking = "REPLACE_BUT_KEEP_LIFETIME"
  <2>1. Redd(i, t) = [i EXCEPT !.count = t.count]
    BY <1>7 DEF Redd, Resetting, ByProvider
  <2> QED
    BY <1>1, <2>1 DEF Instance, PreviousKnown
<1>8. CASE /\ stacking \notin Resetting
           /\ stacking \notin {"PROLONG", "MERGE", "REPLACE_BUT_KEEP_LIFETIME"}
  <2>1. Redd(i, t) = i
    BY <1>8 DEF Redd, Resetting, ByProvider
  <2> QED
    BY <2>1
<1> QED
  BY <1>4, <1>5, <1>6, <1>7, <1>8

(* Where the previous life is known, a lengthening stacking never shortens.*)
LEMMA ReddLengthens ==
  ASSUME NEW i \in Instance, NEW t \in Template, PreviousKnown(i),
         StackingOf[i.key.name] \in Lengthening
  PROVE  NoShorter(i.life, Redd(i, t).life)
<1>1. t.life \in Nat \cup {Permanent}
  BY TemplateAssumption
<1>2. i.life \in Nat \cup {Permanent}
  BY DEF Instance
<1>3. \A life : Relived(i, life).life = life
  BY DEF Relived, Instance
<1>4. BothFinite(i, t.life) => i.life \in Nat /\ t.life \in Nat
  BY <1>1, <1>2 DEF BothFinite, PreviousKnown
<1>5. CASE StackingOf[i.key.name] = "PROLONG"
  <2>1. Redd(i, t).life = IF BothFinite(i, t.life) THEN i.life + t.life ELSE Permanent
    BY <1>3, <1>5 DEF Redd, Resetting, ByProvider
  <2> QED
    BY <1>4, <2>1 DEF NoShorter, Permanent
<1>6. CASE StackingOf[i.key.name] = "MERGE"
  <2>1. Redd(i, t).life = IF BothFinite(i, t.life) THEN Larger(i.life, t.life)
                                                   ELSE Permanent
    BY <1>3, <1>6 DEF Redd, Resetting, ByProvider
  <2> QED
    BY <1>4, <2>1 DEF NoShorter, Permanent, Larger
<1> QED
  BY <1>5, <1>6 DEF Lengthening

(* What an add appends is an instance of the key, of known previous life.  *)
LEMMA NewInstanceFacts ==
  ASSUME NEW k \in Key, NEW state \in {ToBeAdded, Alive}, NEW t \in Template
  PROVE  /\ NewInstance(k, state, t) \in Instance
         /\ PreviousKnown(NewInstance(k, state, t))
         /\ NewInstance(k, state, t).key = k
<1>1. t \in [count : Nat, life : Nat \cup {Permanent},
             previous : Nat \cup {Permanent}, guard : Nat]
      /\ t.previous \in {Permanent, t.life}
  BY TemplateAssumption
<1> QED
  BY <1>1 DEF NewInstance, Instance, PreviousKnown

(* Destruction changes the state of an instance and nothing else.          *)
LEMMA DoomedFacts ==
  ASSUME NEW i \in Instance
  PROVE  /\ Doomed(i) \in Instance
         /\ Doomed(i).key = i.key
         /\ Doomed(i).guard = i.guard
         /\ Doomed(i).life = i.life
         /\ Doomed(i).previous = i.previous
         /\ Doomed(i).state > Alive
         /\ i.state > Alive => Doomed(i) = i
BY DEF Doomed, Instance, ToBeAdded, Alive, ToBeRemoved

-----------------------------------------------------------------------------
(* What a step of any kind, and what a step of managed callers, may make   *)
(* of the instance (or the absence) at one ordinal.                        *)
Containers == [Entity -> [Ordinals -> Instance \cup {Absent}]]

Added(i, j) ==
  /\ i = Absent
  /\ \E k \in Key, state \in {ToBeAdded, Alive}, t \in Template :
       j = NewInstance(k, state, t)
Refreshed(i, j) == i # Absent /\ \E t \in Template : j = Redd(i, t)
Destroyed(i, j) == i # Absent /\ j = Doomed(i)
Activated(i, j) == i # Absent /\ j = [i EXCEPT !.state = Alive]
Dropped(i, j) == Swept(i) /\ j = Absent

Change(i, j) ==
  \/ j = i
  \/ Added(i, j)
  \/ Refreshed(i, j)
  \/ Destroyed(i, j)
  \/ Activated(i, j)
  \/ Dropped(i, j)

ManagedChange(i, j) ==
  \/ j = i
  \/ Added(i, j)
  \/ Refreshed(i, j) /\ i.state <= Alive
  \/ Destroyed(i, j)
  \/ Dropped(i, j)

(* A managed step changes every ordinal in one of the managed ways.        *)
LEMMA ManagedEffect ==
  ASSUME TypeOK, ManagedNext
  PROVE  /\ TypeOK'
         /\ \A e \in Entity, o \in Ordinals : ManagedChange(mods[e][o], mods'[e][o])
<1>1. mods \in Containers /\ (TypeOK' <=> mods' \in Containers)
  BY DEF TypeOK, Containers
<1>2. \A e \in Entity, o \in Ordinals :
        /\ mods[e][o] \in Instance \cup {Absent}
        /\ Present(e, o) => mods[e][o] \in Instance
        /\ Live(e, o) => mods[e][o] # Absent /\ mods[e][o].state <= Alive
  BY <1>1 DEF Containers, Present, Live
<1>3. PICK e \in Entity :
        \/ TryAdd(e)
        \/ \E o \in Ordinals : Destroy(e, o)
        \/ RemoveDirty(e)
  BY DEF ManagedNext
<1>4. ASSUME NEW n \in Ordinals, NextOrdinal(e, n) PROVE mods[e][n] = Absent
  BY <1>4 DEF NextOrdinal, Present, Ordinals
<1>5. ASSUME NEW k \in Key, NEW t \in Template, TryAddAppends(e, k, t)
      PROVE  /\ mods' \in Containers
             /\ \A f \in Entity, p \in Ordinals : ManagedChange(mods[f][p], mods'[f][p])
  <2>1. PICK n \in Ordinals :
          NextOrdinal(e, n) /\ mods' = [mods EXCEPT ![e][n] = NewInstance(k, Alive, t)]
    BY <1>5 DEF TryAddAppends
  <2>2. NewInstance(k, Alive, t) \in Instance
    BY NewInstanceFacts
  <2>3. /\ mods' \in Containers
        /\ mods'[e][n] = NewInstance(k, Alive, t)
        /\ \A f \in Entity, p \in Ordinals : f # e \/ p # n => mods'[f][p] = mods[f][p]
    BY <1>1, <2>1, <2>2 DEF Containers
  <2>4. Added(mods[e][n], mods'[e][n])
    BY <1>4, <2>1, <2>3 DEF Added
  <2> QED
    BY <2>3, <2>4 DEF ManagedChange
<1>6. ASSUME NEW k \in Key, NEW t \in Template, NEW f \in Entity, NEW o \in Ordinals,
             TryAddReplaces(e, k, t, f, o)
      PROVE  /\ mods' \in Containers
             /\ \A g \in Entity, p \in Ordinals : ManagedChange(mods[g][p], mods'[g][p])
  <2> DEFINE N == [mods EXCEPT ![f][o] = Doomed(mods[f][o])]
  <2>1. PICK n \in Ordinals :
          NextOrdinal(e, n) /\ mods' = [N EXCEPT ![e][n] = NewInstance(k, Alive, t)]
    BY <1>6 DEF TryAddReplaces
  <2>2. Live(f, o) /\ Doomed(mods[f][o]) \in Instance
    BY <1>2, <1>6, DoomedFacts DEF TryAddReplaces, FirstMatch, Matches, Live
  <2>3. /\ N \in Containers
        /\ N[f][o] = Doomed(mods[f][o])
        /\ \A g \in Entity, p \in Ordinals : g # f \/ p # o => N[g][p] = mods[g][p]
    BY <1>1, <2>2 DEF Containers
  <2>4. NewInstance(k, Alive, t) \in Instance
    BY NewInstanceFacts
  <2> HIDE DEF N
  <2>5. /\ mods' \in Containers
        /\ mods'[e][n] = NewInstance(k, Alive, t)
        /\ \A g \in Entity, p \in Ordinals : g # e \/ p # n => mods'[g][p] = N[g][p]
    BY <2>1, <2>3, <2>4 DEF Containers
  <2>6. Added(mods[e][n], mods'[e][n])
    BY <1>4, <2>1, <2>5 DEF Added
  <2>7. Destroyed(mods[f][o], N[f][o])
    BY <1>2, <2>2, <2>3 DEF Destroyed
  <2> QED
    BY <2>3, <2>5, <2>6, <2>7 DEF ManagedChange
<1>7. ASSUME NEW k \in Key, NEW t \in Template, NEW f \in Entity, NEW o \in Ordinals,
             TryAddProcesses(e, k, t, f, o)
      PROVE  /\ mods' \in Containers
             /\ \A g \in Entity, p \in Ordinals : ManagedChange(mods[g][p], mods'[g][p])
  <2> DEFINE x == IF mods[f][o].state = ToBeAdded THEN mods[f][o] ELSE Redd(mods[f][o], t)
  <2>1. mods' = [mods EXCEPT ![f][o] = x] /\ Live(f, o)
    BY <1>7 DEF TryAddProcesses, FirstMatch, Matches
  <2>2. mods[f][o] \in Instance /\ Redd(mods[f][o], t) \in Instance
    BY <1>2, <2>1, ReddKeeps DEF Live
  <2>3. x = mods[f][o] \/ (Refreshed(mods[f][o], x) /\ mods[f][o].state <= Alive)
    BY <1>2, <2>1 DEF Refreshed
  <2>4. x \in Instance
    BY <2>2
  <2> HIDE DEF x
  <2>5. /\ mods' \in Containers
        /\ mods'[f][o] = x
        /\ \A g \in Entity, p \in Ordinals : g # f \/ p # o => mods'[g][p] = mods[g][p]
    BY <1>1, <2>1, <2>4 DEF Containers
  <2> QED
    BY <2>3, <2>5 DEF ManagedChange
<1>8. ASSUME NEW o \in Ordinals, Destroy(e, o)
      PROVE  /\ mods' \in Containers
             /\ \A g \in Entity, p \in Ordinals : ManagedChange(mods[g][p], mods'[g][p])
  <2>1. Present(e, o) /\ mods' = [mods EXCEPT ![e][o] = Doomed(mods[e][o])]
    BY <1>8 DEF Destroy
  <2>2. Doomed(mods[e][o]) \in Instance
    BY <1>2, <2>1, DoomedFacts
  <2>3. /\ mods' \in Containers
        /\ mods'[e][o] = Doomed(mods[e][o])
        /\ \A g \in Entity, p \in Ordinals : g # e \/ p # o => mods'[g][p] = mods[g][p]
    BY <1>1, <2>1, <2>2 DEF Containers
  <2>4. Destroyed(mods[e][o], mods'[e][o])
    BY <2>1, <2>3 DEF Destroyed, Present
  <2> QED
    BY <2>3, <2>4 DEF ManagedChange
<1>9. CASE RemoveDirty(e)
  <2>1. mods' = [mods EXCEPT ![e] = [o \in Ordinals |->
                   IF Swept(mods[e][o]) THEN Absent ELSE mods[e][o]]]
    BY <1>9 DEF RemoveDirty
  <2>2. mods' \in Containers
    BY <1>1, <2>1 DEF Containers
  <2>3. \A g \in Entity, p \in Ordinals :
          mods'[g][p] = IF g = e /\ Swept(mods[g][p]) THEN Absent ELSE mods[g][p]
    BY <1>1, <2>1 DEF Containers
  <2> QED
    BY <1>1, <2>2, <2>3 DEF ManagedChange, Dropped
<1> QED
  BY <1>1, <1>3, <1>5, <1>6, <1>7, <1>8, <1>9 DEF TryAdd

(* Any step changes every ordinal in one of the ways listed.               *)
LEMMA AnyEffect ==
  ASSUME TypeOK, ManagedNext \/ LeafNext
  PROVE  /\ TypeOK'
         /\ \A e \in Entity, o \in Ordinals : Change(mods[e][o], mods'[e][o])
<1>1. mods \in Containers /\ (TypeOK' <=> mods' \in Containers)
  BY DEF TypeOK, Containers
<1>2. \A e \in Entity, o \in Ordinals :
        Present(e, o) => mods[e][o] \in Instance /\ mods[e][o] # Absent
  BY <1>1 DEF Containers, Present
<1>3. CASE ManagedNext
  BY <1>3, ManagedEffect DEF Change, ManagedChange
<1>4. ASSUME NEW k \in Key, NEW state \in {ToBeAdded, Alive}, NEW t \in Template,
             NEW copies \in [Entity -> Copies], AddModifierTask(k, state, t, copies)
      PROVE  /\ mods' \in Containers
             /\ \A e \in Entity, o \in Ordinals : Change(mods[e][o], mods'[e][o])
  <2>1. PICK first \in [Entity -> Ordinals] :
          /\ \A e \in Entity : copies[e] > 0 => NextOrdinal(e, first[e])
          /\ \A e \in Entity : copies[e] = 0 => first[e] = 0
          /\ mods' = [e \in Entity |-> [o \in Ordinals |->
                        IF o >= first[e] /\ o < first[e] + copies[e]
                        THEN NewInstance(k, state, t)
                        ELSE mods[e][o]]]
    BY <1>4 DEF AddModifierTask
  <2>2. NewInstance(k, state, t) \in Instance
    BY NewInstanceFacts
  <2>3. mods' \in Containers
    BY <1>1, <2>1, <2>2 DEF Containers
  <2>4. ASSUME NEW e \in Entity, NEW o \in Ordinals, o >= first[e], o < first[e] + copies[e]
        PROVE  mods[e][o] = Absent
    <3>1. copies[e] \in Nat /\ first[e] \in Int /\ o \in Int
      <4>1. copies[e] \in Copies /\ first[e] \in Ordinals
        OBVIOUS
      <4>2. QED
        <5>1. copies[e] \in Nat
          BY <4>1, CopiesAssumption
        <5>2. first[e] \in Int /\ o \in Int
          BY <4>1 DEF Ordinals
        <5> QED
          BY <5>1, <5>2
    <3>2. copies[e] > 0
      BY <2>4, <3>1
    <3> QED
      BY <2>1, <2>4, <3>1, <3>2 DEF NextOrdinal, Present
  <2>5. ASSUME NEW e \in Entity, NEW o \in Ordinals
        PROVE  Change(mods[e][o], mods'[e][o])
    <3>1. CASE o >= first[e] /\ o < first[e] + copies[e]
      BY <2>1, <2>4, <3>1 DEF Change, Added
    <3>2. CASE ~(o >= first[e] /\ o < first[e] + copies[e])
      BY <2>1, <3>2 DEF Change
    <3> QED
      BY <3>1, <3>2
  <2> QED
    BY <2>3, <2>5
<1>5. ASSUME NEW e \in Entity, NEW o \in Ordinals, NEW x \in Instance,
             mods' = [mods EXCEPT ![e][o] = x], Change(mods[e][o], x)
      PROVE  /\ mods' \in Containers
             /\ \A f \in Entity, p \in Ordinals : Change(mods[f][p], mods'[f][p])
  <2>1. /\ mods' \in Containers
        /\ mods'[e][o] = x
        /\ \A f \in Entity, p \in Ordinals : f # e \/ p # o => mods'[f][p] = mods[f][p]
    BY <1>1, <1>5 DEF Containers
  <2> QED
    BY <1>5, <2>1 DEF Change
<1>6. ASSUME NEW e \in Entity, NEW o \in Ordinals, Activate(e, o)
      PROVE  /\ mods' \in Containers
             /\ \A f \in Entity, p \in Ordinals : Change(mods[f][p], mods'[f][p])
  <2> DEFINE x == [mods[e][o] EXCEPT !.state = Alive]
  <2>1. mods[e][o] \in Instance /\ mods[e][o] # Absent
    BY <1>2, <1>6 DEF Activate
  <2>2. x \in Instance
    BY <2>1 DEF Instance
  <2>3. mods' = [mods EXCEPT ![e][o] = x]
    BY <1>1, <1>6 DEF Activate, Containers
  <2>4. Change(mods[e][o], x)
    BY <2>1 DEF Change, Activated
  <2> HIDE DEF x
  <2> QED
    BY <1>5, <2>2, <2>3, <2>4
<1>7. ASSUME NEW e \in Entity, NEW o \in Ordinals, NEW t \in Template, ProcessRedd(e, o, t)
      PROVE  /\ mods' \in Containers
             /\ \A f \in Entity, p \in Ordinals : Change(mods[f][p], mods'[f][p])
  <2> DEFINE x == Redd(mods[e][o], t)
  <2>1. mods[e][o] \in Instance /\ mods[e][o] # Absent
    BY <1>2, <1>7 DEF ProcessRedd
  <2>2. x \in Instance
    BY <2>1, ReddKeeps
  <2>3. mods' = [mods EXCEPT ![e][o] = x]
    BY <1>7 DEF ProcessRedd
  <2>4. Change(mods[e][o], x)
    BY <2>1 DEF Change, Refreshed
  <2> HIDE DEF x
  <2> QED
    BY <1>5, <2>2, <2>3, <2>4
<1> QED
  BY <1>1, <1>3, <1>4, <1>6, <1>7 DEF LeafNext

-----------------------------------------------------------------------------
(* The containers hold instances and absences only, whichever operations   *)
(* callers use, managed or leaf.                                           *)
LEMMA InitTypeOK == Init => TypeOK
BY DEF Init, TypeOK

(* Every caller, managed or leaf, keeps the list of each entity well formed: *)
(* keys, counts, life values, guards and states stay in their domains.     *)
THEOREM TypeCorrect == Spec => []TypeOK
<1>1. TypeOK /\ [ManagedNext \/ LeafNext]_mods => TypeOK'
  BY AnyEffect DEF TypeOK
<1> QED
  BY <1>1, InitTypeOK, PTL DEF Spec

(* The managed callers alone keep the lists well formed.                   *)
LEMMA ManagedTypeCorrect == ManagedSpec => []TypeOK
<1>1. TypeOK /\ [ManagedNext]_mods => TypeOK'
  BY ManagedEffect DEF TypeOK
<1> QED
  BY <1>1, InitTypeOK, PTL DEF ManagedSpec

(* Managed callers: nothing but the sweep touches a destroyed instance.    *)
THEOREM DestroyedStays == ManagedSpec => DestroyedIsFinal
<1> DEFINE A == \A e \in Entity, o \in Ordinals :
                  Present(e, o) /\ ~Live(e, o) => mods'[e][o] \in {mods[e][o], Absent}
<1>1. TypeOK /\ [ManagedNext]_mods => [A]_mods
  <2> SUFFICES ASSUME TypeOK, ManagedNext, NEW e \in Entity, NEW o \in Ordinals,
                      Present(e, o), ~Live(e, o)
               PROVE  mods'[e][o] \in {mods[e][o], Absent}
    OBVIOUS
  <2>1. ManagedChange(mods[e][o], mods'[e][o])
    BY ManagedEffect
  <2>2. mods[e][o] \in Instance /\ ~(mods[e][o].state <= Alive)
    BY DEF TypeOK, Present, Live
  <2>3. Doomed(mods[e][o]) = mods[e][o]
    BY <2>2, DoomedFacts DEF Instance, ToBeAdded, Alive, ToBeRemoved
  <2> QED
    BY <2>1, <2>2, <2>3 DEF ManagedChange, Added, Refreshed, Destroyed, Dropped, Present
<1> HIDE DEF A
<1>2. ManagedSpec => [][A]_mods
  BY <1>1, ManagedTypeCorrect, PTL DEF ManagedSpec
<1> QED
  BY <1>2 DEF DestroyedIsFinal, A

(* Any caller: an Alive or guarded instance stays in its list, under its   *)
(* ordinal and its key, through every append, refresh, removal and sweep.  *)
THEOREM SurvivorsStay == Spec => SurvivorsKept
<1> DEFINE A == \A e \in Entity, o \in Ordinals :
                  Present(e, o) /\ (mods[e][o].state = Alive \/ mods[e][o].guard > 0) =>
                    /\ mods'[e][o] # Absent
                    /\ mods'[e][o].key = mods[e][o].key
                    /\ mods'[e][o].guard = mods[e][o].guard
<1>1. TypeOK /\ [ManagedNext \/ LeafNext]_mods => [A]_mods
  <2> SUFFICES ASSUME TypeOK, ManagedNext \/ LeafNext, NEW e \in Entity, NEW o \in Ordinals,
                      Present(e, o), mods[e][o].state = Alive \/ mods[e][o].guard > 0
               PROVE  /\ mods'[e][o] # Absent
                      /\ mods'[e][o].key = mods[e][o].key
                      /\ mods'[e][o].guard = mods[e][o].guard
    OBVIOUS
  <2> DEFINE i == mods[e][o]
             j == mods'[e][o]
  <2>1. Change(i, j)
    BY AnyEffect
  <2>2. i \in Instance /\ i # Absent
    BY DEF TypeOK, Present
  <2>3. ~Swept(i)
    BY <2>2 DEF Swept, Instance
  <2>4. CASE Refreshed(i, j)
    BY <2>2, <2>4, ReddKeeps, AbsentAssumption DEF Refreshed
  <2>5. CASE Destroyed(i, j)
    BY <2>2, <2>5, DoomedFacts, AbsentAssumption DEF Destroyed
  <2>6. CASE Activated(i, j)
    <3>1. j \in Instance /\ j.key = i.key /\ j.guard = i.guard
      BY <2>2, <2>6 DEF Activated, Instance
    <3> QED
      BY <3>1, AbsentAssumption
  <2> QED
    BY <2>1, <2>2, <2>3, <2>4, <2>5, <2>6 DEF Change, Added, Dropped
<1> HIDE DEF A
<1>2. Spec => [][A]_mods
  BY <1>1, TypeCorrect, PTL DEF Spec
<1> QED
  BY <1>2 DEF SurvivorsKept, A

-----------------------------------------------------------------------------
(* The previous life of every instance is permanent or its life: what the  *)
(* sentinel test of the lengthening stackings needs to know.               *)
PreviousOK ==
  \A e \in Entity, o \in Ordinals : Present(e, o) => PreviousKnown(mods[e][o])

(* The previous life of every instance stays known, whoever calls.         *)
LEMMA PreviousCorrect == Spec => [](TypeOK /\ PreviousOK)
<1>1. Init => TypeOK /\ PreviousOK
  BY InitTypeOK DEF Init, PreviousOK, Present
<1>2. TypeOK /\ PreviousOK /\ [ManagedNext \/ LeafNext]_mods => (TypeOK /\ PreviousOK)'
  <2> SUFFICES ASSUME TypeOK, PreviousOK, [ManagedNext \/ LeafNext]_mods
               PROVE  TypeOK' /\ PreviousOK'
    OBVIOUS
  <2>1. CASE UNCHANGED mods
    BY <2>1 DEF TypeOK, PreviousOK, Present
  <2>2. CASE ManagedNext \/ LeafNext
    <3> SUFFICES ASSUME NEW e \in Entity, NEW o \in Ordinals, mods'[e][o] # Absent
                 PROVE  PreviousKnown(mods'[e][o])
      BY <2>2, AnyEffect DEF PreviousOK, Present
    <3> DEFINE i == mods[e][o]
               j == mods'[e][o]
    <3>1. Change(i, j)
      BY <2>2, AnyEffect
    <3>2. i # Absent => i \in Instance /\ PreviousKnown(i)
      BY DEF TypeOK, PreviousOK, Present
    <3>3. CASE Added(i, j)
      BY <3>3, NewInstanceFacts DEF Added
    <3>4. CASE Refreshed(i, j)
      BY <3>2, <3>4, ReddKeeps DEF Refreshed
    <3>5. CASE Destroyed(i, j)
      BY <3>2, <3>5, DoomedFacts DEF Destroyed, PreviousKnown
    <3>6. CASE Activated(i, j)
      BY <3>2, <3>6 DEF Activated, PreviousKnown, Instance
    <3> QED
      BY <3>1, <3>2, <3>3, <3>4, <3>5, <3>6 DEF Change, Dropped
  <2> QED
    BY <2>1, <2>2
<1> QED
  BY <1>1, <1>2, PTL DEF Spec

(* Any caller: no refresh of any kind ever shortens the life of a PROLONG  *)
(* or MERGE instance, although the code looks at the previous life.        *)
THEOREM LivesLengthen == Spec => LifeNeverShrinks
<1> DEFINE A == \A e \in Entity, o \in Ordinals :
                  /\ Present(e, o) /\ mods'[e][o] # Absent
                  /\ StackingAt(e, o) \in Lengthening
                  => NoShorter(mods[e][o].life, mods'[e][o].life)
<1>1. TypeOK /\ PreviousOK /\ [ManagedNext \/ LeafNext]_mods => [A]_mods
  <2> SUFFICES ASSUME TypeOK, PreviousOK, ManagedNext \/ LeafNext,
                      NEW e \in Entity, NEW o \in Ordinals,
                      Present(e, o), mods'[e][o] # Absent,
                      StackingAt(e, o) \in Lengthening
               PROVE  NoShorter(mods[e][o].life, mods'[e][o].life)
    OBVIOUS
  <2> DEFINE i == mods[e][o]
             j == mods'[e][o]
  <2>1. Change(i, j)
    BY AnyEffect
  <2>2. i \in Instance /\ i # Absent /\ PreviousKnown(i)
    BY DEF TypeOK, PreviousOK, Present
  <2>3. \A a \in Nat \cup {Permanent} : NoShorter(a, a)
    BY DEF NoShorter, Permanent
  <2>4. NoShorter(i.life, i.life)
    BY <2>2, <2>3 DEF Instance
  <2>5. CASE Refreshed(i, j)
    BY <2>2, <2>5, ReddLengthens DEF Refreshed, StackingAt
  <2>6. CASE Destroyed(i, j)
    BY <2>2, <2>4, <2>6, DoomedFacts DEF Destroyed
  <2>7. CASE Activated(i, j)
    BY <2>2, <2>4, <2>7 DEF Activated, Instance
  <2> QED
    BY <2>1, <2>2, <2>4, <2>5, <2>6, <2>7 DEF Change, Added, Dropped
<1> HIDE DEF A
<1>2. Spec => [][A]_mods
  BY <1>1, PreviousCorrect, PTL DEF Spec
<1> QED
  BY <1>2 DEF LifeNeverShrinks, A

-----------------------------------------------------------------------------
(* What a managed step can bring to life: an instance that is live after   *)
(* the step was live before under the same key, or is the one that an add  *)
(* without a match, or an add that destroys its first match, appends.      *)
WasLive(e, o) == Live(e, o) /\ mods'[e][o].key = mods[e][o].key

(* A managed step puts at most one instance that was not live before.      *)
LEMMA AddPutsOne ==
  ASSUME TypeOK, ManagedNext
  PROVE  \/ \A f \in Entity, p \in Ordinals : Live(f, p)' => WasLive(f, p)
         \/ \E e \in Entity, n \in Ordinals, k \in Key :
              /\ mods'[e][n].key = k
              /\ \A f \in Entity, p \in Ordinals :
                   Live(f, p)' => WasLive(f, p) \/ (f = e /\ p = n)
              /\ \/ NoMatch(k, e) \/ StackingOf[k.name] = "MULTIPLE"
                 \/ /\ StackingOf[k.name] \in Global
                    /\ \E f \in Entity, o \in Ordinals :
                         FirstMatch(k, e, f, o) /\ ~Live(f, o)'
<1> DEFINE Same(f, p) == mods'[f][p] = mods[f][p]
           Kept == \A f \in Entity, p \in Ordinals : Live(f, p)' => WasLive(f, p)
<1>1. \A f \in Entity, p \in Ordinals : Same(f, p) => (Live(f, p)' => WasLive(f, p))
  BY DEF WasLive, Live, Present
<1>2. mods \in Containers
  BY DEF TypeOK, Containers
<1>3. \A f \in Entity, p \in Ordinals :
        Present(f, p) => mods[f][p] \in Instance /\ mods[f][p] # Absent
  BY <1>2 DEF Containers, Present
<1>4. PICK e \in Entity :
        \/ TryAdd(e)
        \/ \E o \in Ordinals : Destroy(e, o)
        \/ RemoveDirty(e)
  BY DEF ManagedNext
<1>5. ASSUME NEW k \in Key, NEW t \in Template
      PROVE  /\ NewInstance(k, Alive, t) \in Instance
             /\ NewInstance(k, Alive, t).key = k
  BY NewInstanceFacts
<1>6. ASSUME NEW k \in Key, NEW t \in Template, TryAddAppends(e, k, t)
      PROVE  \E n \in Ordinals :
               /\ mods'[e][n].key = k
               /\ \A f \in Entity, p \in Ordinals :
                    Live(f, p)' => WasLive(f, p) \/ (f = e /\ p = n)
               /\ NoMatch(k, e) \/ StackingOf[k.name] = "MULTIPLE"
  <2>1. PICK n \in Ordinals : mods' = [mods EXCEPT ![e][n] = NewInstance(k, Alive, t)]
    BY <1>6 DEF TryAddAppends
  <2>2. /\ mods'[e][n] = NewInstance(k, Alive, t)
        /\ \A f \in Entity, p \in Ordinals : f # e \/ p # n => Same(f, p)
    BY <1>2, <2>1 DEF Containers
  <2> QED
    BY <1>1, <1>5, <1>6, <2>2 DEF TryAddAppends
<1>7. ASSUME NEW k \in Key, NEW t \in Template, NEW g \in Entity, NEW o \in Ordinals,
             TryAddReplaces(e, k, t, g, o)
      PROVE  \E n \in Ordinals :
               /\ mods'[e][n].key = k
               /\ \A f \in Entity, p \in Ordinals :
                    Live(f, p)' => WasLive(f, p) \/ (f = e /\ p = n)
               /\ StackingOf[k.name] \in Global
               /\ FirstMatch(k, e, g, o) /\ ~Live(g, o)'
  <2> DEFINE N == [mods EXCEPT ![g][o] = Doomed(mods[g][o])]
  <2>1. PICK n \in Ordinals :
          NextOrdinal(e, n) /\ mods' = [N EXCEPT ![e][n] = NewInstance(k, Alive, t)]
    BY <1>7 DEF TryAddReplaces
  <2>2. mods[g][o] \in Instance /\ Present(g, o)
    BY <1>3, <1>7 DEF TryAddReplaces, FirstMatch, Matches, Live
  <2>3. Doomed(mods[g][o]) \in Instance /\ Doomed(mods[g][o]).state > Alive
    BY <2>2, DoomedFacts
  <2>4. g # e \/ o # n
    BY <2>1, <2>2 DEF NextOrdinal, Ordinals
  <2>5. /\ mods'[e][n] = NewInstance(k, Alive, t)
        /\ mods'[g][o] = Doomed(mods[g][o])
        /\ \A f \in Entity, p \in Ordinals :
             (f # e \/ p # n) /\ (f # g \/ p # o) => Same(f, p)
    BY <1>2, <2>1, <2>4 DEF Containers
  <2>6. ~Live(g, o)'
    BY <2>3, <2>5 DEF Live, Instance, ToBeAdded, Alive, ToBeRemoved
  <2>7. \A f \in Entity, p \in Ordinals :
          Live(f, p)' => WasLive(f, p) \/ (f = e /\ p = n)
    BY <1>1, <2>5, <2>6
  <2>8. mods'[e][n].key = k /\ FirstMatch(k, e, g, o) /\ StackingOf[k.name] \in Global
    BY <1>5, <1>7, <2>5 DEF TryAddReplaces
  <2> HIDE DEF N
  <2> QED
    BY <2>6, <2>7, <2>8
<1>8. ASSUME NEW k \in Key, NEW t \in Template, NEW g \in Entity, NEW o \in Ordinals,
             TryAddProcesses(e, k, t, g, o)
      PROVE  Kept
  <2> DEFINE x == IF mods[g][o].state = ToBeAdded THEN mods[g][o] ELSE Redd(mods[g][o], t)
  <2>1. mods' = [mods EXCEPT ![g][o] = x] /\ Live(g, o)
    BY <1>8 DEF TryAddProcesses, FirstMatch, Matches
  <2>2. mods[g][o] \in Instance
    BY <1>3, <2>1 DEF Live
  <2>3. x.key = mods[g][o].key
    BY <2>2, ReddKeeps
  <2> HIDE DEF x
  <2>4. mods'[g][o] = x /\ \A f \in Entity, p \in Ordinals : f # g \/ p # o => Same(f, p)
    BY <1>2, <2>1 DEF Containers
  <2>5. WasLive(g, o)
    BY <2>1, <2>3, <2>4 DEF WasLive
  <2> QED
    BY <1>1, <2>4, <2>5
<1>9. ASSUME NEW o \in Ordinals, Destroy(e, o) PROVE Kept
  <2>1. Present(e, o) /\ mods' = [mods EXCEPT ![e][o] = Doomed(mods[e][o])]
    BY <1>9 DEF Destroy
  <2>2. Doomed(mods[e][o]) \in Instance /\ Doomed(mods[e][o]).state > Alive
    BY <1>3, <2>1, DoomedFacts
  <2>3. /\ mods'[e][o] = Doomed(mods[e][o])
        /\ \A f \in Entity, p \in Ordinals : f # e \/ p # o => Same(f, p)
    BY <1>2, <2>1 DEF Containers
  <2>4. ~Live(e, o)'
    BY <2>2, <2>3 DEF Live, Instance, ToBeAdded, Alive, ToBeRemoved
  <2> QED
    BY <1>1, <2>3, <2>4
<1>10. CASE RemoveDirty(e)
  <2>1. \A f \in Entity, p \in Ordinals : mods'[f][p] = Absent \/ Same(f, p)
    BY <1>2, <1>10 DEF RemoveDirty, Containers
  <2> QED
    BY <1>1, <2>1 DEF Live, Present
<1>11. CASE TryAdd(e)
  <2>1. PICK k \in Key, t \in Template :
          \/ TryAddAppends(e, k, t)
          \/ \E f \in Entity, o \in Ordinals :
               TryAddReplaces(e, k, t, f, o) \/ TryAddProcesses(e, k, t, f, o)
    BY <1>11 DEF TryAdd
  <2>2. CASE TryAddAppends(e, k, t)
    BY <1>6, <2>2
  <2>3. ASSUME NEW f \in Entity, NEW o \in Ordinals, TryAddReplaces(e, k, t, f, o)
        PROVE  \E n \in Ordinals :
                 /\ mods'[e][n].key = k
                 /\ \A g \in Entity, p \in Ordinals :
                      Live(g, p)' => WasLive(g, p) \/ (g = e /\ p = n)
                 /\ StackingOf[k.name] \in Global
                 /\ \E g \in Entity, p \in Ordinals :
                      FirstMatch(k, e, g, p) /\ ~Live(g, p)'
    BY <1>7, <2>3
  <2> QED
    BY <1>8, <2>1, <2>2, <2>3
<1> QED
  BY <1>4, <1>9, <1>10, <1>11

(* A key search finds the instances of the very key.                       *)
LEMMA KeyFindsItself == \A k : KeyMatches(k, k)
BY DEF KeyMatches

(* Managed callers: at most one live instance per entity and exact key,    *)
(* unless the stacking is MULTIPLE or global.                              *)
THEOREM OneLocalInstance == ManagedSpec => []OneLivePerKey
<1>1. Init => OneLivePerKey
  BY DEF Init, OneLivePerKey, Live, Present
<1>2. TypeOK /\ OneLivePerKey /\ [ManagedNext]_mods => OneLivePerKey'
  <2>1. CASE UNCHANGED mods
    BY <2>1 DEF OneLivePerKey, Live, Present, StackingAt
  <2>2. ASSUME TypeOK, OneLivePerKey, ManagedNext,
               NEW e \in Entity, NEW o \in Ordinals, NEW p \in Ordinals,
               Live(e, o)', Live(e, p)', mods'[e][o].key = mods'[e][p].key,
               StackingAt(e, o)' \notin Global \cup {"MULTIPLE"}
        PROVE  o = p
    <3>1. CASE WasLive(e, o) /\ WasLive(e, p)
      BY <2>2, <3>1 DEF OneLivePerKey, WasLive, StackingAt
    <3>2. ASSUME NEW k \in Key, NEW n \in Ordinals, NEW q \in Ordinals,
                 NoMatch(k, e), mods'[e][n].key = k, WasLive(e, q),
                 mods'[e][q].key = mods'[e][n].key,
                 StackingOf[k.name] \notin Global
          PROVE  FALSE
      <4>1. Matches(k, e, q)
        BY <3>2, KeyFindsItself DEF Matches, WasLive
      <4> QED
        BY <3>2, <4>1 DEF NoMatch, Searched
    <3> QED
      BY <2>2, <3>1, <3>2, AddPutsOne DEF StackingAt
  <2> QED
    BY <2>1, <2>2 DEF OneLivePerKey
<1> QED
  BY <1>1, <1>2, ManagedTypeCorrect, PTL DEF ManagedSpec

(* Managed callers whose global keys are told apart: such a modifier lives *)
(* at most once on the field, although only the first match is destroyed.  *)
THEOREM OneGlobalInstance == ManagedSpec => []OneLiveGlobally
<1> DEFINE Once == \A e, f \in Entity : \A o, p \in Ordinals :
                     /\ Live(e, o) /\ Live(f, p)
                     /\ mods[e][o].key = mods[f][p].key
                     /\ StackingAt(e, o) \in Global
                     => e = f /\ o = p
<1>1. Init => Once
  BY DEF Init, Live, Present
<1>2. ASSUME KeysToldApart PROVE TypeOK /\ Once /\ [ManagedNext]_mods => Once'
  <2>1. CASE UNCHANGED mods
    BY <2>1 DEF Live, Present, StackingAt
  <2>2. ASSUME TypeOK, Once, ManagedNext,
               NEW e \in Entity, NEW o \in Ordinals, NEW f \in Entity, NEW p \in Ordinals,
               Live(e, o)', Live(f, p)', mods'[e][o].key = mods'[f][p].key,
               StackingAt(e, o)' \in Global
        PROVE  e = f /\ o = p
    <3>1. CASE WasLive(e, o) /\ WasLive(f, p)
      BY <2>2, <3>1 DEF WasLive, StackingAt
    <3>2. ASSUME NEW k \in Key, NEW g \in Entity, NEW n \in Ordinals,
                 NEW h \in Entity, NEW q \in Ordinals,
                 mods'[g][n].key = k, WasLive(h, q), Live(h, q)',
                 mods'[h][q].key = k, StackingOf[k.name] \in Global,
                 \/ NoMatch(k, g)
                 \/ \E i \in Entity, r \in Ordinals :
                      FirstMatch(k, g, i, r) /\ ~Live(i, r)'
          PROVE  FALSE
      <4>1. Matches(k, h, q)
        BY <3>2, KeyFindsItself DEF Matches, WasLive
      <4>2. CASE NoMatch(k, g)
        BY <3>2, <4>1, <4>2 DEF NoMatch, Searched
      <4>3. ASSUME NEW i \in Entity, NEW r \in Ordinals,
                   FirstMatch(k, g, i, r), ~Live(i, r)'
            PROVE  FALSE
        <5>1. Live(i, r) /\ KeyMatches(k, mods[i][r].key)
          BY <4>3 DEF FirstMatch, Matches
        <5>2. mods[i][r] \in Instance
          BY <2>2, <5>1 DEF TypeOK, Live, Present
        <5>3. mods[i][r].key = k
          BY <1>2, <3>2, <5>1, <5>2 DEF KeysToldApart, Instance
        <5>4. Live(h, q) /\ mods[h][q].key = k
          BY <3>2 DEF WasLive
        <5>5. i = h /\ r = q
          BY <2>2, <3>2, <5>1, <5>3, <5>4 DEF StackingAt
        <5> QED
          BY <3>2, <4>3, <5>5
      <4> QED
        BY <3>2, <4>2, <4>3
    <3>3. ASSUME NEW k \in Key, StackingOf[k.name] \in Global
          PROVE  StackingOf[k.name] # "MULTIPLE"
      BY <3>3 DEF Global
    <3> QED
      BY <2>2, <3>1, <3>2, <3>3, AddPutsOne DEF StackingAt
  <2> QED
    BY <2>1, <2>2
<1> HIDE DEF Once
<1>3. CASE KeysToldApart
  <2>1. TypeOK /\ Once /\ [ManagedNext]_mods => Once'
    BY <1>2, <1>3
  <2>2. ManagedSpec => []Once
    BY <1>1, <2>1, ManagedTypeCorrect, PTL DEF ManagedSpec
  <2>3. Once => OneLiveGlobally
    BY DEF Once, OneLiveGlobally
  <2> QED
    BY <2>2, <2>3, PTL
<1>4. CASE ~KeysToldApart
  <2>1. OneLiveGlobally
    BY <1>4 DEF OneLiveGlobally
  <2> QED
    BY <2>1, PTL
<1> QED
  BY <1>3, <1>4

-----------------------------------------------------------------------------
(* What an add through the decision tree makes of an instance: it stays    *)
(* under its key, and only one of a global stacking may lose its life.     *)
Spared(i, j) ==
  IF i = Absent THEN j = Absent \/ j.state = Alive
  ELSE /\ j # Absent /\ j.key = i.key
       /\ j.state = i.state \/ (j.state = ToBeRemoved /\ StackingOf[i.key.name] \in Global)

LEMMA AddSpares ==
  ASSUME TypeOK, NEW e \in Entity, TryAdd(e)
  PROVE  TypeOK' /\ \A f \in Entity, p \in Ordinals : Spared(mods[f][p], mods'[f][p])
<1>1. mods \in Containers
  BY DEF TypeOK, Containers
<1>2. \A f \in Entity, p \in Ordinals :
        Present(f, p) => mods[f][p] \in Instance /\ mods[f][p] # Absent
  BY <1>1 DEF Containers, Present
<1>3. \A i : Spared(i, i)
  BY DEF Spared
<1>4. \A i \in Instance : i # Absent
  BY AbsentAssumption
<1>5. ASSUME NEW n \in Ordinals, NextOrdinal(e, n) PROVE mods[e][n] = Absent
  BY <1>5 DEF NextOrdinal, Present, Ordinals
<1>6. ASSUME NEW k \in Key, NEW t \in Template
      PROVE  NewInstance(k, Alive, t) \in Instance /\ Spared(Absent, NewInstance(k, Alive, t))
  BY NewInstanceFacts DEF NewInstance, Spared
<1>7. ASSUME NEW k \in Key, NEW t \in Template, TryAddAppends(e, k, t),
             NEW f \in Entity, NEW p \in Ordinals
      PROVE  Spared(mods[f][p], mods'[f][p])
  <2>1. PICK n \in Ordinals :
          NextOrdinal(e, n) /\ mods' = [mods EXCEPT ![e][n] = NewInstance(k, Alive, t)]
    BY <1>7 DEF TryAddAppends
  <2>2. /\ mods'[e][n] = NewInstance(k, Alive, t)
        /\ f # e \/ p # n => mods'[f][p] = mods[f][p]
    BY <1>1, <2>1 DEF Containers
  <2> QED
    BY <1>3, <1>5, <1>6, <2>1, <2>2
<1>8. ASSUME NEW k \in Key, NEW t \in Template, NEW g \in Entity, NEW o \in Ordinals,
             TryAddReplaces(e, k, t, g, o), NEW f \in Entity, NEW p \in Ordinals
      PROVE  Spared(mods[f][p], mods'[f][p])
  <2> DEFINE N == [mods EXCEPT ![g][o] = Doomed(mods[g][o])]
  <2>1. PICK n \in Ordinals :
          NextOrdinal(e, n) /\ mods' = [N EXCEPT ![e][n] = NewInstance(k, Alive, t)]
    BY <1>8 DEF TryAddReplaces
  <2>2. /\ mods[g][o] \in Instance /\ mods[g][o] # Absent
        /\ mods[g][o].key.name = k.name /\ StackingOf[k.name] \in Global
    BY <1>2, <1>8 DEF TryAddReplaces, FirstMatch, Matches, Live, KeyMatches
  <2>3. /\ Doomed(mods[g][o]) \in Instance /\ Doomed(mods[g][o]).key = mods[g][o].key
        /\ Doomed(mods[g][o]).state \in {mods[g][o].state, ToBeRemoved}
    BY <2>2, DoomedFacts DEF Doomed, Instance
  <2>4. Spared(mods[g][o], Doomed(mods[g][o]))
    BY <1>4, <2>2, <2>3 DEF Spared
  <2>5. /\ N \in [Entity -> [Ordinals -> Instance \cup {Absent}]]
        /\ N[g][o] = Doomed(mods[g][o])
        /\ f # g \/ p # o => N[f][p] = mods[f][p]
    BY <1>1, <2>3 DEF Containers
  <2> HIDE DEF N
  <2>6. /\ mods'[e][n] = NewInstance(k, Alive, t)
        /\ f # e \/ p # n => mods'[f][p] = N[f][p]
    BY <2>1, <2>5
  <2> QED
    BY <1>3, <1>5, <1>6, <2>1, <2>2, <2>4, <2>5, <2>6
<1>9. ASSUME NEW k \in Key, NEW t \in Template, NEW g \in Entity, NEW o \in Ordinals,
             TryAddProcesses(e, k, t, g, o), NEW f \in Entity, NEW p \in Ordinals
      PROVE  Spared(mods[f][p], mods'[f][p])
  <2> DEFINE r == IF mods[g][o].state = ToBeAdded THEN mods[g][o] ELSE Redd(mods[g][o], t)
  <2>1. mods' = [mods EXCEPT ![g][o] = r] /\ Present(g, o)
    BY <1>9 DEF TryAddProcesses, FirstMatch, Matches, Live
  <2>2. mods[g][o] \in Instance /\ mods[g][o] # Absent
    BY <1>2, <2>1
  <2>3. r \in Instance /\ r.key = mods[g][o].key /\ r.state = mods[g][o].state
    BY <2>2, ReddKeeps
  <2> HIDE DEF r
  <2>4. Spared(mods[g][o], r)
    BY <1>4, <2>2, <2>3 DEF Spared
  <2>5. mods'[g][o] = r /\ (f # g \/ p # o => mods'[f][p] = mods[f][p])
    BY <1>1, <2>1 DEF Containers
  <2> QED
    BY <1>3, <2>4, <2>5
<1>10. \A f \in Entity, p \in Ordinals : Spared(mods[f][p], mods'[f][p])
  BY <1>7, <1>8, <1>9 DEF TryAdd
<1>11. ManagedNext
  BY DEF ManagedNext
<1> QED
  BY <1>10, <1>11, ManagedEffect

(* Careful callers are managed callers: their tasks and contributions do   *)
(* not touch the lists, and they add, destroy and sweep as managed ones do.*)
LEMMA CarefulIsManaged == ASSUME CarefulNext PROVE ManagedNext \/ UNCHANGED mods
<1>1. CASE Common
  BY <1>1 DEF Common, Execute, PopContributions
<1>2. ASSUME NEW e \in Entity, Add(e) \/ SweepModifiers(e) PROVE ManagedNext
  BY <1>2 DEF ManagedNext, Add, SweepModifiers
<1>3. ASSUME NEW e \in Entity, NEW o \in Ordinals,
             ExecutorInit(e, o) \/ DestroyModifier(e, o)
      PROVE  ManagedNext \/ UNCHANGED mods
  BY <1>3 DEF ManagedNext, ExecutorInit, DestroyModifier
<1> QED
  BY <1>1, <1>2, <1>3 DEF CarefulNext

(* Seen through the lists, the careful callers of the composition are the  *)
(* managed callers of the lifecycle, so whatever is proved of those holds  *)
(* of these.                                                               *)
THEOREM CarefulCallersAreManaged == CarefulSpec => ManagedSpec
<1>1. EffectInit => Init
  BY DEF EffectInit
<1>2. [CarefulNext]_effectVars => [ManagedNext]_mods
  BY CarefulIsManaged DEF effectVars
<1> QED
  BY <1>1, <1>2, PTL DEF CarefulSpec, ManagedSpec

-----------------------------------------------------------------------------
(* What careful callers keep.  A task whose copy is not past Alive names a *)
(* modifier that lives; and since nothing is ever added to be activated    *)
(* later, what lives is Alive, so that a sweep does not take it.           *)
Recorded == records \in [Ref -> Seq(Cell \X Prop!AllSlots)]
AllActivated == \A e \in Entity, o \in Ordinals : Live(e, o) => mods[e][o].state = Alive
TasksLive == \A x \in executors : x.ref \in Ref /\ (x.state <= Alive => x.ref \in LiveRefs)

EffectInv == TypeOK /\ Recorded /\ AllActivated /\ TasksLive /\ NoOrphans

LEMMA RefsAre ==
  ASSUME NEW r
  PROVE  /\ r \in PresentRefs <=> \E e \in Entity, o \in Ordinals : Present(e, o) /\ r = RefOf(e, o)
         /\ r \in LiveRefs <=> \E e \in Entity, o \in Ordinals : Live(e, o) /\ r = RefOf(e, o)
<1>1. ASSUME NEW e \in Entity, NEW o \in Ordinals
      PROVE  /\ <<e, o>> \in Entity \X Ordinals /\ <<e, o>>[1] = e /\ <<e, o>>[2] = o
             /\ Present(e, o) => RefOf(e, o) \in PresentRefs
             /\ Live(e, o) => RefOf(e, o) \in LiveRefs
  <2>1. <<e, o>> \in Entity \X Ordinals /\ <<e, o>>[1] = e /\ <<e, o>>[2] = o
    OBVIOUS
  <2>2. Present(e, o) => RefOf(e, o) \in PresentRefs
    BY <2>1 DEF PresentRefs
  <2>3. Live(e, o) => RefOf(e, o) \in LiveRefs
    BY <2>1 DEF LiveRefs
  <2> QED
    BY <2>1, <2>2, <2>3
<1>2. ASSUME r \in PresentRefs
      PROVE  \E e \in Entity, o \in Ordinals : Present(e, o) /\ r = RefOf(e, o)
  <2>1. PICK q \in Entity \X Ordinals : Present(q[1], q[2]) /\ r = RefOf(q[1], q[2])
    BY <1>2 DEF PresentRefs
  <2>2. q[1] \in Entity /\ q[2] \in Ordinals
    BY <2>1
  <2> QED
    BY <2>1, <2>2
<1>3. ASSUME r \in LiveRefs
      PROVE  \E e \in Entity, o \in Ordinals : Live(e, o) /\ r = RefOf(e, o)
  <2>1. PICK q \in Entity \X Ordinals : Live(q[1], q[2]) /\ r = RefOf(q[1], q[2])
    BY <1>3 DEF LiveRefs
  <2>2. q[1] \in Entity /\ q[2] \in Ordinals
    BY <2>1
  <2> QED
    BY <2>1, <2>2
<1> QED
  BY <1>1, <1>2, <1>3

LEMMA RefsWillBe ==
  ASSUME NEW e \in Entity, NEW o \in Ordinals
  PROVE  /\ Present(e, o)' => RefOf(e, o)' \in PresentRefs'
         /\ Live(e, o)' => RefOf(e, o)' \in LiveRefs'
<1>1. <<e, o>> \in Entity \X Ordinals /\ <<e, o>>[1] = e /\ <<e, o>>[2] = o
  OBVIOUS
<1>2. Present(e, o)' => RefOf(e, o)' \in PresentRefs'
  BY <1>1 DEF PresentRefs
<1>3. Live(e, o)' => RefOf(e, o)' \in LiveRefs'
  BY <1>1 DEF LiveRefs
<1> QED
  BY <1>2, <1>3

LEMMA RefsAreTyped ==
  ASSUME TypeOK, NEW e \in Entity, NEW o \in Ordinals, Present(e, o)
  PROVE  RefOf(e, o) \in Ref
<1>1. mods[e][o] \in Instance
  BY DEF TypeOK, Present
<1>2. mods[e][o].key.name \in Names
  BY <1>1 DEF Instance, Names
<1> QED
  BY <1>2 DEF RefOf, Ref

LEMMA InitEffects == EffectInit => EffectInv
<1> SUFFICES ASSUME EffectInit PROVE EffectInv
  OBVIOUS
<1>1. TypeOK /\ mods = [e \in Entity |-> [o \in Ordinals |-> Absent]]
  BY InitTypeOK DEF EffectInit, Init
<1>2. records = [m \in Ref |-> <<>>] /\ executors = {}
  BY DEF EffectInit, Prop!Init
<1>3. AllActivated
  BY <1>1 DEF AllActivated, Live, Present
<1>4. Recorded /\ TasksLive /\ NoOrphans
  BY <1>2 DEF Recorded, TasksLive, NoOrphans
<1> QED
  BY <1>1, <1>3, <1>4 DEF EffectInv

(* A task lengthens the records of its own modifier only.                  *)
LEMMA StackRecordsOwn ==
  ASSUME Recorded, NEW m \in Ref, NEW v, NEW targets, Prop!Stack(m, v, targets)
  PROVE  Recorded' /\ \A r \in Ref : r # m => records'[r] = records[r]
<1>1. PICK n \in 1 .. Len(targets) :
        /\ Prop!Reaches(targets, n)
        /\ \E slot \in [1 .. n -> Prop!AllSlots] : Prop!StackPrefix(m, v, targets, n, slot)
  BY DEF Prop!Stack
<1>2. PICK slot \in [1 .. n -> Prop!AllSlots] : Prop!StackPrefix(m, v, targets, n, slot)
  BY <1>1
<1> DEFINE added == [i \in 1 .. n |-> <<targets[i], slot[i]>>]
<1>3. records' = [records EXCEPT ![m] = @ \o added]
  BY <1>2 DEF Prop!StackPrefix
<1>4. \A i \in 1 .. n : targets[i] \in Cell
  BY <1>1 DEF Prop!Reaches
<1>5. added \in [1 .. n -> Cell \X Prop!AllSlots] /\ n \in Int
  BY <1>2, <1>4
<1>6. added \in Seq(Cell \X Prop!AllSlots)
  <2> HIDE DEF added
  <2>1. n >= 0 \/ 1 .. n = {}
    BY <1>5
  <2>2. 1 .. n = {} => 1 .. n = 1 .. 0
    OBVIOUS
  <2> QED
    BY <1>5, <2>1, <2>2
<1> HIDE DEF added
<1> QED
  BY <1>3, <1>6 DEF Recorded

(* A pending task that may still contribute names a live modifier, which   *)
(* is in its list.                                                         *)
LEMMA ExecuteKeeps ==
  ASSUME EffectInv, NEW x, NEW v, NEW targets, Execute(x, v, targets)
  PROVE  /\ EffectInv'
         /\ \A r \in Ref : records'[r] # records[r] => r \in LiveRefs
<1>1. x \in executors /\ executors' = executors \ {x} /\ mods' = mods
  BY DEF Execute
<1>2. TypeOK' /\ AllActivated' /\ PresentRefs' = PresentRefs /\ LiveRefs' = LiveRefs
  BY <1>1 DEF EffectInv, TypeOK, AllActivated, Live, Present, PresentRefs, LiveRefs, RefOf
<1>3. TasksLive'
  BY <1>1, <1>2 DEF EffectInv, TasksLive
<1>4. CASE x.state <= Alive
  <2>1. x.ref \in Ref /\ x.ref \in LiveRefs /\ x.ref \in PresentRefs
    BY <1>1, <1>4, RefsAre DEF EffectInv, TasksLive, Live
  <2>2. Prop!Stack(x.ref, v, targets)
    BY <1>4 DEF Execute
  <2>3. Recorded' /\ \A r \in Ref : r # x.ref => records'[r] = records[r]
    BY <2>1, <2>2, StackRecordsOwn DEF EffectInv
  <2> QED
    BY <1>2, <1>3, <2>1, <2>3 DEF EffectInv, NoOrphans
<1>5. CASE ~(x.state <= Alive)
  <2>1. records' = records
    BY <1>5 DEF Execute, propVars
  <2> QED
    BY <1>2, <1>3, <2>1 DEF EffectInv, NoOrphans, Recorded
<1> QED
  BY <1>4, <1>5

LEMMA PopKeeps ==
  ASSUME EffectInv, NEW e \in Entity, NEW o \in Ordinals, PopContributions(e, o)
  PROVE  /\ EffectInv'
         /\ \A r \in Ref : records'[r] \in {records[r], <<>>}
<1>1. /\ mods' = mods /\ executors' = executors
      /\ records' = [records EXCEPT ![RefOf(e, o)] = <<>>]
  BY DEF PopContributions, Prop!Pop
<1>2. TypeOK' /\ AllActivated' /\ PresentRefs' = PresentRefs /\ LiveRefs' = LiveRefs
  BY <1>1 DEF EffectInv, TypeOK, AllActivated, Live, Present, PresentRefs, LiveRefs, RefOf
<1>3. TasksLive'
  BY <1>1, <1>2 DEF EffectInv, TasksLive
<1>4. <<>> \in Seq(Cell \X Prop!AllSlots)
  OBVIOUS
<1>5. Recorded' /\ \A r \in Ref : records'[r] \in {records[r], <<>>}
  BY <1>1, <1>4 DEF EffectInv, Recorded
<1>6. NoOrphans'
  BY <1>2, <1>5 DEF EffectInv, NoOrphans
<1> QED
  BY <1>2, <1>3, <1>5, <1>6 DEF EffectInv

(* An add keeps every modifier in its list, and no pending task names one  *)
(* whose life it ends.                                                     *)
LEMMA AddKeeps ==
  ASSUME EffectInv, NEW e \in Entity, MayAdd(e), Add(e)
  PROVE  EffectInv' /\ records' = records
<1>1. TryAdd(e) /\ records' = records /\ executors' = executors
  BY DEF Add, propVars
<1>2. TypeOK' /\ \A f \in Entity, p \in Ordinals : Spared(mods[f][p], mods'[f][p])
  BY <1>1, AddSpares DEF EffectInv
<1>3. ASSUME NEW f \in Entity, NEW p \in Ordinals, Present(f, p)
      PROVE  Present(f, p)' /\ RefOf(f, p)' = RefOf(f, p)
  BY <1>2, <1>3 DEF Spared, Present, RefOf
<1>4. ASSUME NEW f \in Entity, NEW p \in Ordinals, Live(f, p), StackingAt(f, p) \notin Global
      PROVE  Live(f, p)'
  BY <1>2, <1>4 DEF Spared, Live, Present, StackingAt
<1>5. AllActivated'
  <2>1. ASSUME NEW f \in Entity, NEW p \in Ordinals, Live(f, p)'
        PROVE  mods'[f][p].state = Alive
    <3>1. mods'[f][p] # Absent /\ mods'[f][p].state <= Alive
      BY <2>1 DEF Live, Present
    <3>2. CASE mods[f][p] = Absent
      BY <1>2, <3>1, <3>2 DEF Spared
    <3>3. CASE mods[f][p] # Absent
      <4>1. mods'[f][p].state = mods[f][p].state
        BY <1>2, <3>1, <3>3 DEF Spared, Alive, ToBeRemoved
      <4> QED
        BY <3>1, <3>3, <4>1 DEF EffectInv, AllActivated, Live, Present
    <3> QED
      BY <3>2, <3>3
  <2> QED
    BY <2>1 DEF AllActivated
<1>6. TasksLive'
  <2>1. ASSUME NEW x \in executors, x.state <= Alive
        PROVE  x.ref \in LiveRefs'
    <3>1. PICK f \in Entity, p \in Ordinals : Live(f, p) /\ x.ref = RefOf(f, p)
      BY <2>1, RefsAre DEF EffectInv, TasksLive
    <3>2. StackingOf[x.ref[1]] \notin Global
      BY DEF MayAdd
    <3>3. x.ref[1] = mods[f][p].key.name
      BY <3>1 DEF RefOf
    <3>4. Live(f, p)' /\ RefOf(f, p)' = x.ref
      BY <1>3, <1>4, <3>1, <3>2, <3>3 DEF StackingAt, Live
    <3> QED
      BY <3>4, RefsWillBe
  <2> QED
    BY <1>1, <2>1 DEF EffectInv, TasksLive
<1>7. NoOrphans'
  <2>1. ASSUME NEW r \in PresentRefs PROVE r \in PresentRefs'
    <3>1. PICK f \in Entity, p \in Ordinals : Present(f, p) /\ r = RefOf(f, p)
      BY RefsAre
    <3>2. Present(f, p)' /\ RefOf(f, p)' = r
      BY <1>3, <3>1
    <3> QED
      BY <3>2, RefsWillBe
  <2> QED
    BY <1>1, <2>1 DEF EffectInv, NoOrphans
<1> QED
  BY <1>1, <1>2, <1>5, <1>6, <1>7 DEF EffectInv, Recorded

(* A sweep takes no live modifier, and of the others only those whose      *)
(* contributions were withdrawn.                                           *)
LEMMA SweepKeeps ==
  ASSUME EffectInv, NEW e \in Entity, MaySweep(e), SweepModifiers(e)
  PROVE  EffectInv' /\ records' = records
<1>1. RemoveDirty(e) /\ records' = records /\ executors' = executors
  BY DEF SweepModifiers, propVars
<1>2. TypeOK'
  BY <1>1, ManagedEffect DEF EffectInv, ManagedNext
<1>3. \A f \in Entity, p \in Ordinals :
        mods'[f][p] = IF f = e /\ Swept(mods[f][p]) THEN Absent ELSE mods[f][p]
  BY <1>1 DEF EffectInv, TypeOK, RemoveDirty
<1>4. AllActivated'
  BY <1>3 DEF EffectInv, AllActivated, Live, Present
<1>5. ASSUME NEW f \in Entity, NEW p \in Ordinals, Live(f, p)
      PROVE  Live(f, p)' /\ RefOf(f, p)' = RefOf(f, p)
  <2>1. ~Swept(mods[f][p])
    BY <1>5 DEF EffectInv, AllActivated, Swept
  <2>2. mods'[f][p] = mods[f][p]
    BY <1>3, <2>1
  <2> QED
    BY <1>5, <2>2 DEF Live, Present, RefOf
<1>6. TasksLive'
  <2>1. ASSUME NEW x \in executors, x.state <= Alive
        PROVE  x.ref \in LiveRefs'
    <3>1. PICK f \in Entity, p \in Ordinals : Live(f, p) /\ x.ref = RefOf(f, p)
      BY <2>1, RefsAre DEF EffectInv, TasksLive
    <3> QED
      BY <1>5, <3>1, RefsWillBe
  <2> QED
    BY <1>1, <2>1 DEF EffectInv, TasksLive
<1>7. NoOrphans'
  <2>1. ASSUME NEW r \in Ref, records[r] # <<>> PROVE r \in PresentRefs'
    <3>1. PICK f \in Entity, p \in Ordinals : Present(f, p) /\ r = RefOf(f, p)
      BY <2>1, RefsAre DEF EffectInv, NoOrphans
    <3>2. ~(f = e /\ Swept(mods[f][p]))
      BY <2>1, <3>1 DEF MaySweep
    <3>3. mods'[f][p] = mods[f][p]
      BY <1>3, <3>2
    <3>4. Present(f, p)' /\ RefOf(f, p)' = r
      BY <3>1, <3>3 DEF Present, RefOf
    <3> QED
      BY <3>4, RefsWillBe
  <2> QED
    BY <1>1, <2>1 DEF NoOrphans
<1> QED
  BY <1>1, <1>2, <1>4, <1>6, <1>7 DEF EffectInv, Recorded

LEMMA DestroyKeeps ==
  ASSUME EffectInv, NEW e \in Entity, NEW o \in Ordinals, MayDestroy(e, o), DestroyModifier(e, o)
  PROVE  EffectInv' /\ records' = records
<1>1. /\ Present(e, o) /\ mods' = [mods EXCEPT ![e][o] = Doomed(mods[e][o])]
      /\ records' = records /\ executors' = executors /\ Destroy(e, o)
  BY DEF DestroyModifier, Destroy, propVars
<1>2. TypeOK'
  BY <1>1, ManagedEffect DEF EffectInv, ManagedNext
<1>3. mods[e][o] \in Instance
  BY <1>1 DEF EffectInv, TypeOK, Present
<1>4. /\ Doomed(mods[e][o]) \in Instance /\ Doomed(mods[e][o]) # Absent
      /\ Doomed(mods[e][o]).key = mods[e][o].key
      /\ Doomed(mods[e][o]).state > Alive
  BY <1>3, DoomedFacts, AbsentAssumption
<1>5. /\ mods'[e][o] = Doomed(mods[e][o])
      /\ \A f \in Entity, p \in Ordinals : f # e \/ p # o => mods'[f][p] = mods[f][p]
  BY <1>1 DEF EffectInv, TypeOK
<1>6. \A f \in Entity, p \in Ordinals :
        /\ f # e \/ p # o => (Live(f, p)' <=> Live(f, p)) /\ (Present(f, p)' <=> Present(f, p))
        /\ RefOf(f, p)' = RefOf(f, p)
  BY <1>4, <1>5 DEF Live, Present, RefOf
<1>7. Present(e, o)' /\ ~Live(e, o)'
  <2>1. ~(Doomed(mods[e][o]).state <= Alive)
    BY <1>4 DEF Alive, Instance, ToBeAdded, ToBeRemoved
  <2> QED
    BY <1>4, <1>5, <2>1 DEF Live, Present
<1>8. AllActivated'
  BY <1>5, <1>6, <1>7 DEF EffectInv, AllActivated
<1>9. TasksLive'
  <2>1. ASSUME NEW x \in executors, x.state <= Alive
        PROVE  x.ref \in LiveRefs'
    <3>1. PICK f \in Entity, p \in Ordinals : Live(f, p) /\ x.ref = RefOf(f, p)
      BY <2>1, RefsAre DEF EffectInv, TasksLive
    <3>2. f # e \/ p # o
      BY <3>1 DEF MayDestroy
    <3> QED
      BY <1>6, <3>1, <3>2, RefsWillBe
  <2> QED
    BY <1>1, <2>1 DEF EffectInv, TasksLive
<1>10. NoOrphans'
  <2>1. ASSUME NEW r \in PresentRefs PROVE r \in PresentRefs'
    <3>1. PICK f \in Entity, p \in Ordinals : Present(f, p) /\ r = RefOf(f, p)
      BY RefsAre
    <3>2. Present(f, p)' /\ RefOf(f, p)' = r
      BY <1>6, <1>7, <3>1
    <3> QED
      BY <3>2, RefsWillBe
  <2> QED
    BY <1>1, <2>1 DEF EffectInv, NoOrphans
<1> QED
  BY <1>1, <1>2, <1>8, <1>9, <1>10 DEF EffectInv, Recorded

LEMMA ExecutorInitKeeps ==
  ASSUME EffectInv, NEW e \in Entity, NEW o \in Ordinals, ExecutorInit(e, o)
  PROVE  EffectInv' /\ records' = records
<1>1. /\ Present(e, o) /\ mods' = mods /\ records' = records
      /\ executors' = executors \cup {[ref |-> RefOf(e, o), state |-> mods[e][o].state]}
  BY DEF ExecutorInit, propVars
<1>2. /\ TypeOK' /\ AllActivated' /\ PresentRefs' = PresentRefs /\ LiveRefs' = LiveRefs
  BY <1>1 DEF EffectInv, TypeOK, AllActivated, Live, Present, PresentRefs, LiveRefs, RefOf
<1>3. RefOf(e, o) \in Ref
  BY <1>1, RefsAreTyped DEF EffectInv
<1>4. mods[e][o].state <= Alive => RefOf(e, o) \in LiveRefs
  BY <1>1, RefsAre DEF Live
<1>5. TasksLive'
  BY <1>1, <1>2, <1>3, <1>4 DEF EffectInv, TasksLive
<1> QED
  BY <1>1, <1>2, <1>5 DEF EffectInv, Recorded, NoOrphans

(* A step of careful callers.                                              *)
LEMMA CarefulStep ==
  ASSUME EffectInv, CarefulNext
  PROVE  /\ EffectInv'
         /\ \A r \in Ref : records'[r] \notin {records[r], <<>>} => r \in LiveRefs
<1>1. CASE \E x \in executors, v \in Values, targets \in TargetLists : Execute(x, v, targets)
  BY <1>1, ExecuteKeeps
<1>2. CASE \E e \in Entity, o \in Ordinals : PopContributions(e, o)
  BY <1>2, PopKeeps
<1>3. ASSUME NEW e \in Entity,
             \/ MayAdd(e) /\ Add(e)
             \/ MaySweep(e) /\ SweepModifiers(e)
             \/ \E o \in Ordinals :
                  \/ ExecutorInit(e, o)
                  \/ MayDestroy(e, o) /\ DestroyModifier(e, o)
      PROVE  EffectInv' /\ records' = records
  BY <1>3, AddKeeps, SweepKeeps, ExecutorInitKeeps, DestroyKeeps
<1> QED
  BY <1>1, <1>2, <1>3 DEF CarefulNext, Common

LEMMA EffectsAlways == CarefulSpec => []EffectInv
<1>1. EffectInv /\ UNCHANGED effectVars => EffectInv'
  BY DEF effectVars, EffectInv, TypeOK, Recorded, AllActivated, TasksLive, NoOrphans,
         Live, Present, PresentRefs, LiveRefs, RefOf
<1>2. EffectInv /\ [CarefulNext]_effectVars => EffectInv'
  BY <1>1, CarefulStep
<1> QED
  BY <1>2, InitEffects, PTL DEF CarefulSpec

(* With careful callers every contribution belongs to a modifier that is   *)
(* in its list, so that a reused reference starts without any.             *)
THEOREM NoContributionIsOrphaned == CarefulSpec => []NoOrphans
<1>1. EffectInv => NoOrphans
  BY DEF EffectInv
<1> QED
  BY <1>1, EffectsAlways, PTL

(* With careful callers only a live modifier gets a contribution, although *)
(* its task reads the copy it was made with.                               *)
THEOREM ContributorsLive == CarefulSpec => DestroyedCannotContribute
<1> DEFINE A == \A r \in Ref : Len(records'[r]) > Len(records[r]) => r \in LiveRefs
<1>1. ASSUME EffectInv, [CarefulNext]_effectVars PROVE [A]_effectVars
  <2>1. SUFFICES ASSUME CarefulNext, NEW r \in Ref, Len(records'[r]) > Len(records[r])
                 PROVE  r \in LiveRefs
    BY <1>1
  <2>2. records[r] \in Seq(Cell \X Prop!AllSlots)
    BY <1>1 DEF EffectInv, Recorded
  <2>3. records'[r] # records[r] /\ records'[r] # <<>>
    BY <2>1, <2>2
  <2> QED
    BY <1>1, <2>1, <2>3, CarefulStep
<1>2. EffectInv /\ [CarefulNext]_effectVars => [A]_effectVars
  BY <1>1
<1> QED
  BY <1>2, EffectsAlways, PTL DEF CarefulSpec, DestroyedCannotContribute
=============================================================================
