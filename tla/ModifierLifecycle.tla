-------------------------- MODULE ModifierLifecycle --------------------------
(***************************************************************************)
(* The modifier containers of battle_runtime/modifiers.py: the ordered     *)
(* list of modifier instances every entity carries, the duplicate search   *)
(* and decision tree of try_add_modifier_instance, the in-place refresh,   *)
(* and the two-step removal (destroy marks, remove_dirty_modifiers         *)
(* sweeps).                                                                *)
(*                                                                         *)
(* A list is a function from instance ordinals to instances: an append     *)
(* takes an ordinal above all the present ones, so list order is ordinal   *)
(* order.  Layers and the fields no operation writes are left out.         *)
(***************************************************************************)
EXTENDS Integers

CONSTANTS Entity,      \* runtime ids, scanned in ascending order
          Key,         \* the match keys callers use: name, flag, caster, provider
          AnyFlag,     \* stacking flag 100 of a search key
          NoCaster,    \* caster_entity is None
          NoProvider,  \* source_provider_ref is None
          StackingOf,  \* the stacking a modifier's configuration names
          Template,    \* the ModifierState fields callers pass in
          Copies,      \* how often one AddModifier task names a target
          Absent,      \* no instance holds the ordinal
          MaxOrdinal,  \* bound on the ordinals
          MaxLife      \* bound on the lives

Permanent == -1
ToBeAdded == 0
Alive == 1
ToBeRemoved == 2

Names == {k.name : k \in Key}
Ordinals == 0 .. MaxOrdinal

Stacking == {"UNKNOW", "UNIQUE", "REFRESH", "PROLONG", "MULTIPLE", "REPLACE",
             "MERGE", "REPLACE_BY_CASTER", "REPLACE_BY_CASTER_OR_UNSTACK",
             "ENTITY_UNIQUE", "REPLACE_BUT_KEEP_LIFETIME",
             "RETAIN_GLOBAL_LATEST", "REPLACE_BY_CASTER_ABILITY",
             "RETAIN_GLOBAL_LATEST_UNIQUE"}
ByProvider == {"REPLACE_BY_CASTER", "REPLACE_BY_CASTER_OR_UNSTACK",
               "REPLACE_BY_CASTER_ABILITY"}
Global == {"RETAIN_GLOBAL_LATEST", "RETAIN_GLOBAL_LATEST_UNIQUE"}
Resetting == ByProvider \cup {"REFRESH", "REPLACE"}
Lengthening == {"PROLONG", "MERGE"}

ASSUME EntityAssumption == Entity \subseteq Nat
ASSUME StackingAssumption == StackingOf \in [Names -> Stacking]
ASSUME TemplateAssumption ==
  /\ Template \subseteq [count : Nat, life : Nat \cup {Permanent},
                         previous : Nat \cup {Permanent}, guard : Nat]
  /\ \A t \in Template : t.previous \in {Permanent, t.life}
ASSUME CopiesAssumption == Copies \subseteq Nat
ASSUME BoundAssumption == MaxOrdinal \in Nat /\ MaxLife \in Nat

Instance == [key : Key, state : {ToBeAdded, Alive, ToBeRemoved}, count : Nat,
             life : Nat \cup {Permanent}, previous : Nat \cup {Permanent},
             guard : Nat]

ASSUME AbsentAssumption == Absent \notin Instance

VARIABLE mods  \* state.modifier_state_by_entity

TypeOK == mods \in [Entity -> [Ordinals -> Instance \cup {Absent}]]

Present(e, o) == mods[e][o] # Absent
Live(e, o) == Present(e, o) /\ mods[e][o].state <= Alive

StackingAt(e, o) == StackingOf[mods[e][o].key.name]

-----------------------------------------------------------------------------
(* modifier_match_search: flag 100, no caster and no provider in the       *)
(* search key are wildcards.                                               *)
KeyMatches(k, j) ==
  /\ k.name = j.name
  /\ k.flag \in {AnyFlag, j.flag}
  /\ k.caster \in {NoCaster, j.caster}
  /\ k.provider \in {NoProvider, j.provider}

MatchesAnyState(k, e, o) ==  \* mutant
  Present(e, o) /\ KeyMatches(k, mods[e][o].key)

Matches(k, e, o) == Live(e, o) /\ KeyMatches(k, mods[e][o].key)

(* The containers try_add searches for a key on behalf of e.               *)
Searched(k, e) == IF StackingOf[k.name] \in Global THEN Entity ELSE {e}

(* Mutant: the scan looks at the head of a list only.                      *)
NoMatchAtHead(k, e) == \A f \in Searched(k, e) : ~Matches(k, f, 0)

NoMatch(k, e) == \A f \in Searched(k, e), o \in Ordinals : ~Matches(k, f, o)

FirstMatch(k, e, f, o) ==
  /\ f \in Searched(k, e)
  /\ Matches(k, f, o)
  /\ \A g \in Searched(k, e), p \in Ordinals :
       Matches(k, g, p) => f < g \/ (f = g /\ o <= p)

(* Mutant: the ordinal is the length of the list, as before removal existed.*)
NextByCount(e, n) ==
  /\ n \in Ordinals
  /\ \E f \in [0 .. n - 1 -> Ordinals] :
       /\ \A i, j \in 0 .. n - 1 : i # j => f[i] # f[j]
       /\ {f[i] : i \in 0 .. n - 1} = {o \in Ordinals : Present(e, o)}

(* _next_instance_ordinal: one above the largest, 0 for an empty list.     *)
NextOrdinal(e, n) ==
  /\ n \in Ordinals
  /\ \A o \in Ordinals : Present(e, o) => o < n
  /\ n > 0 => Present(e, n - 1)

NewInstance(k, state, t) ==
  [key |-> k, state |-> state, count |-> t.count, life |-> t.life,
   previous |-> t.previous, guard |-> t.guard]

(* destroy_modifier_instance on an instance.                               *)
Doomed(i) ==
  IF i.state > Alive THEN i ELSE [i EXCEPT !.state = ToBeRemoved]

(* _apply_redd_life_core.                                                  *)
Relived(i, life) == [i EXCEPT !.life = life, !.previous = life]

NewFinite(i, life) == life # Permanent  \* mutant
BothFinite(i, life) == life # Permanent /\ i.previous # Permanent

Larger(a, b) == IF a >= b THEN a ELSE b

Redd(i, t) ==
  LET stacking == StackingOf[i.key.name]
  IN CASE stacking \in Resetting -> [Relived(i, t.life) EXCEPT !.count = t.count]
       [] stacking = "PROLONG" ->
            Relived(i, IF BothFinite(i, t.life) THEN i.life + t.life ELSE Permanent)
       [] stacking = "MERGE" ->
            Relived(i, IF BothFinite(i, t.life) THEN Larger(i.life, t.life)
                                              ELSE Permanent)
       [] stacking = "REPLACE_BUT_KEEP_LIFETIME" -> [i EXCEPT !.count = t.count]
       [] OTHER -> i

-----------------------------------------------------------------------------
Init == mods = [e \in Entity |-> [o \in Ordinals |-> Absent]]

(* add_modifier_task_begin_apply and apply_modifier_instance: the leaf     *)
(* append without a duplicate check, copies[e] times on e.  A null target  *)
(* raises after the prefix before it was applied, and such a prefix is     *)
(* again a choice of copies.                                               *)
AddModifierTask(k, state, t, copies) ==
  \E first \in [Entity -> Ordinals] :
    /\ \A e \in Entity : copies[e] > 0 => /\ NextOrdinal(e, first[e])
                                          /\ first[e] + copies[e] <= MaxOrdinal + 1
    /\ \A e \in Entity : copies[e] = 0 => first[e] = 0
    /\ mods' = [e \in Entity |-> [o \in Ordinals |->
                  IF o >= first[e] /\ o < first[e] + copies[e]
                  THEN NewInstance(k, state, t)
                  ELSE mods[e][o]]]

ProviderGiven(k) ==
  StackingOf[k.name] \in ByProvider => k.provider # NoProvider

(* try_add_modifier_instance without a match, or for stacking MULTIPLE.    *)
TryAddAppends(e, k, t) ==
  /\ ProviderGiven(k)
  /\ NoMatch(k, e) \/ StackingOf[k.name] = "MULTIPLE"
  /\ \E n \in Ordinals :
       /\ NextOrdinal(e, n)
       /\ mods' = [mods EXCEPT ![e][n] = NewInstance(k, Alive, t)]

(* RETAIN_GLOBAL_LATEST_UNIQUE keeps an instance the target itself cast.   *)
CastByTarget(e, f, o) ==
  /\ StackingAt(f, o) = "RETAIN_GLOBAL_LATEST_UNIQUE"
  /\ mods[f][o].key.caster = e

(* Mutant: the old instance is left as it is.                              *)
TryAddKeepsOld(e, k, t, f, o) ==
  /\ ProviderGiven(k)
  /\ FirstMatch(k, e, f, o)
  /\ StackingOf[k.name] \in Global
  /\ ~CastByTarget(e, f, o)
  /\ \E n \in Ordinals :
       /\ NextOrdinal(e, n)
       /\ mods' = [mods EXCEPT ![e][n] = NewInstance(k, Alive, t)]

(* The global stackings destroy the first match and append on e.           *)
TryAddReplaces(e, k, t, f, o) ==
  /\ ProviderGiven(k)
  /\ FirstMatch(k, e, f, o)
  /\ StackingOf[k.name] \in Global
  /\ ~CastByTarget(e, f, o)
  /\ \E n \in Ordinals :
       /\ NextOrdinal(e, n)
       /\ mods' = [mods EXCEPT ![f][o] = Doomed(mods[f][o]),
                               ![e][n] = NewInstance(k, Alive, t)]

(* Every other match is processed in place, unless it waits to be added.   *)
TryAddProcesses(e, k, t, f, o) ==
  /\ ProviderGiven(k)
  /\ FirstMatch(k, e, f, o)
  /\ StackingOf[k.name] # "MULTIPLE"
  /\ StackingOf[k.name] \in Global => CastByTarget(e, f, o)
  /\ LET i == mods[f][o]
     IN /\ Redd(i, t).life <= MaxLife
        /\ mods' = [mods EXCEPT ![f][o] =
                      IF i.state = ToBeAdded THEN i ELSE Redd(i, t)]

(* process_modifier_redd called for an instance, whatever its state.       *)
ProcessRedd(e, o, t) ==
  /\ Present(e, o)
  /\ Redd(mods[e][o], t).life <= MaxLife
  /\ mods' = [mods EXCEPT ![e][o] = Redd(mods[e][o], t)]

(* destroy_modifier_instance.                                              *)
Destroy(e, o) ==
  /\ Present(e, o)
  /\ mods' = [mods EXCEPT ![e][o] = Doomed(mods[e][o])]

(* on_activate_modifier: any state becomes Alive.                          *)
Activate(e, o) ==
  /\ Present(e, o)
  /\ mods' = [mods EXCEPT ![e][o].state = Alive]

(* remove_dirty_modifiers drops what is neither Alive nor guarded.         *)
Swept(i) == i # Absent /\ i.state # Alive /\ i.guard = 0

RemoveUnguarded(e) ==  \* mutant
  mods' = [mods EXCEPT ![e] =
             [o \in Ordinals |-> IF Present(e, o) /\ mods[e][o].guard = 0
                                THEN Absent ELSE mods[e][o]]]

RemoveDirty(e) ==
  mods' = [mods EXCEPT ![e] =
             [o \in Ordinals |-> IF Swept(mods[e][o]) THEN Absent ELSE mods[e][o]]]

-----------------------------------------------------------------------------
TryAdd(e) ==
  \E k \in Key, t \in Template :
    \/ TryAddAppends(e, k, t)
    \/ \E f \in Entity, o \in Ordinals :
         \/ TryAddReplaces(e, k, t, f, o)
         \/ TryAddProcesses(e, k, t, f, o)

(* Callers that add through the decision tree and remove by destroying and *)
(* sweeping.                                                               *)
ManagedNext ==
  \E e \in Entity :
    \/ TryAdd(e)
    \/ \E o \in Ordinals : Destroy(e, o)
    \/ RemoveDirty(e)

(* Callers that also use the leaf operations directly.                     *)
LeafNext ==
  \/ \E k \in Key, state \in {ToBeAdded, Alive}, t \in Template,
        copies \in [Entity -> Copies] : AddModifierTask(k, state, t, copies)
  \/ \E e \in Entity, o \in Ordinals :
       \/ Activate(e, o)
       \/ \E t \in Template : ProcessRedd(e, o, t)

Spec == Init /\ [][ManagedNext \/ LeafNext]_mods
ManagedSpec == Init /\ [][ManagedNext]_mods

-----------------------------------------------------------------------------
(* With the decision tree alone, a modifier that is not MULTIPLE and not   *)
(* global has at most one live instance per entity and exact key: a second *)
(* add finds the first, even behind wildcard matches and swept gaps.       *)
OneLivePerKey ==
  \A e \in Entity : \A o, p \in Ordinals :
    /\ Live(e, o) /\ Live(e, p)
    /\ mods[e][o].key = mods[e][p].key
    /\ StackingAt(e, o) \notin Global \cup {"MULTIPLE"}
    => o = p

(* The search for a global key finds instances of that very key only.      *)
KeysToldApart ==
  \A k, j \in Key : StackingOf[k.name] \in Global /\ KeyMatches(k, j) => k = j

(* Of a global modifier at most one instance lives on the whole field, as  *)
(* long as no caller mixes wildcard and specific keys of it: destroying    *)
(* only the first match is then enough.                                    *)
OneLiveGlobally ==
  KeysToldApart =>
    \A e, f \in Entity : \A o, p \in Ordinals :
      /\ Live(e, o) /\ Live(f, p)
      /\ mods[e][o].key = mods[f][p].key
      /\ StackingAt(e, o) \in Global
      => e = f /\ o = p

(* With the decision tree alone, a destroyed instance is final: no refresh,*)
(* replacement or later add touches it until the sweep drops it.           *)
DestroyedIsFinal ==
  [][\A e \in Entity, o \in Ordinals :
       Present(e, o) /\ ~Live(e, o) => mods'[e][o] \in {mods[e][o], Absent}]_mods

(* An Alive or guarded instance never leaves the list, and whoever holds   *)
(* its ordinal keeps naming the same modifier: sweeping and appending,     *)
(* with every reuse of freed ordinals, never disturbs a survivor.          *)
SurvivorsKept ==
  [][\A e \in Entity, o \in Ordinals :
       Present(e, o) /\ (mods[e][o].state = Alive \/ mods[e][o].guard > 0) =>
         /\ mods'[e][o] # Absent
         /\ mods'[e][o].key = mods[e][o].key
         /\ mods'[e][o].guard = mods[e][o].guard]_mods

(* Stackings that lengthen never shorten: the life of a PROLONG or MERGE   *)
(* instance only grows, and permanent is the longest life.  The code tests *)
(* the previous life, not the current one, for the permanent sentinel.     *)
NoShorter(a, b) == b = Permanent \/ (a # Permanent /\ a <= b)

LifeNeverShrinks ==
  [][\A e \in Entity, o \in Ordinals :
       /\ Present(e, o) /\ mods'[e][o] # Absent
       /\ StackingAt(e, o) \in Lengthening
       => NoShorter(mods[e][o].life, mods'[e][o].life)]_mods
=============================================================================
