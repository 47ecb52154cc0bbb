------------------------- MODULE ReferenceModifiers -------------------------
(***************************************************************************)
(* The modifiers of one unit in the reference engine: the transitions of   *)
(* game_data/modifier_lifecycle_reference.py on the tuple of instances, and*)
(* the operations of game_data/reference_execution.py that use them.  The  *)
(* transitions find an instance by its id; the executor numbers a new one  *)
(* by the length of the list, so that an id may come a second time.  Lists *)
(* of different units never meet.                                          *)
(***************************************************************************)
EXTENDS Integers, Sequences

CONSTANTS Name,        \* modifier names
          StackingOf,  \* the stacking policy of each name
          Source,      \* <<caster_runtime_id, source_provider_id>> of adders
          Unset,       \* None in either of them, and in current_life
          Lives,       \* current_life of incoming instances
          Values,      \* values of the modifier's one dynamic value
          MaxLength, MaxLife  \* bounds of the model

ASSUME ModifierAssumption ==
  /\ \A n \in Name : StackingOf[n] \in {"MULTIPLE", "REPLACE", "PROLONG", "MERGE", "KEEP"}
  /\ Unset \notin Int
  /\ Lives \subseteq (Nat \cup {Unset})
  /\ MaxLength \in Nat /\ MaxLife \in Nat

VARIABLE list  \* the ModifierInstances of the unit

ToBeAdded == 0
Alive == 1
ToBeRemoved == 2

Instance ==
  [id : Name \X Nat, name : Name, source : Source, life : Nat \cup {Unset},
   value : Values, state : {ToBeAdded, Alive, ToBeRemoved}]

Live(i) == i.state <= Alive

(* The position that a lookup by id finds.                                 *)
FirstWith(id, p) ==
  /\ p \in DOMAIN list /\ list[p].id = id
  /\ \A q \in DOMAIN list : list[q].id = id => p <= q

-----------------------------------------------------------------------------
(* _matches: a runtime id or provider the incoming one leaves open matches *)
(* whatever the existing one has.                                          *)
Matches(i, n, src) ==
  /\ i.name = n
  /\ Live(i)
  /\ src[1] # Unset => i.source[1] = src[1]
  /\ src[2] # Unset => i.source[2] = src[2]

FirstMatch(n, src, p) ==
  /\ p \in DOMAIN list /\ Matches(list[p], n, src)
  /\ \A q \in DOMAIN list : Matches(list[q], n, src) => p <= q

NoMatch(n, src) == \A p \in DOMAIN list : ~Matches(list[p], n, src)

Later(x, y) == IF x >= y THEN x ELSE y

(* PROLONG and MERGE raise unless both lives are given.                    *)
CanRefresh(i, life) ==
  StackingOf[i.name] \in {"PROLONG", "MERGE"} => i.life # Unset /\ life # Unset

Refreshed(i, life, v) ==
  [i EXCEPT !.value = v,
            !.life = CASE StackingOf[i.name] = "REPLACE" -> life
                       [] StackingOf[i.name] = "PROLONG" -> @ + life
                       [] StackingOf[i.name] = "MERGE" -> Later(@, life)
                       [] StackingOf[i.name] = "KEEP" -> @]

(* add_or_refresh of an instance with this id.                             *)
AddOrRefresh(id, n, src, life, v) ==
  \/ /\ StackingOf[n] = "MULTIPLE" \/ NoMatch(n, src)
     /\ list' = Append(list, [id |-> id, name |-> n, source |-> src, life |-> life,
                              value |-> v, state |-> ToBeAdded])
  \/ /\ StackingOf[n] # "MULTIPLE"
     /\ \E p \in DOMAIN list :
          /\ FirstMatch(n, src, p)
          /\ CanRefresh(list[p], life)
          /\ list' = [list EXCEPT ![p] = Refreshed(@, life, v)]

(* activate                                                                *)
ActivateAnyState(id) ==  \* mutant
  /\ \E p \in DOMAIN list : /\ FirstWith(id, p)
                            /\ list' = [list EXCEPT ![p].state = Alive]

Activate(id) ==
  /\ \E p \in DOMAIN list :
       /\ FirstWith(id, p)
       /\ list[p].state = ToBeAdded
       /\ list' = [list EXCEPT ![p].state = Alive]

(* tick_lifetime                                                           *)
Ticked(i) ==
  IF i.state # Alive \/ i.life = Unset THEN i
  ELSE IF i.life <= 1 THEN [i EXCEPT !.life = 0, !.state = ToBeRemoved]
  ELSE [i EXCEPT !.life = @ - 1]

TickLifetime ==
  /\ list' = [p \in DOMAIN list |-> Ticked(list[p])]

(* mark_destroy                                                            *)
Doomed(i) == IF i.state > Alive THEN i ELSE [i EXCEPT !.state = ToBeRemoved]

(* remove_dirty: whatever is not alive goes, pending instances included.   *)
(* No instance has a destroy_guard, which would keep it: nothing that the  *)
(* executor does sets one.                                                 *)
IsAlive(i) == i.state = Alive

Survivors(l) ==
  LET kept[n \in 0 .. Len(l)] ==
        IF n = 0 THEN <<>>
        ELSE IF IsAlive(l[n]) THEN Append(kept[n - 1], l[n]) ELSE kept[n - 1]
  IN  kept[Len(l)]

RemoveDirty ==
  /\ list' = Survivors(list)

-----------------------------------------------------------------------------
(* _execute_remove_modifier: the ids of the named instances are marked one *)
(* by one, each by the first instance its id finds.                        *)
RemoveNamed(n) ==
  /\ list' = [p \in DOMAIN list |->
                IF list[p].name = n /\ FirstWith(list[p].id, p)
                THEN Doomed(list[p]) ELSE list[p]]

(* _execute_remove_self_modifier                                           *)
RemoveSelf(id) ==
  /\ \E p \in DOMAIN list :
       /\ FirstWith(id, p)
       /\ list[p].state = Alive
       /\ list' = [list EXCEPT ![p] = Doomed(@)]

(* _execute_set_modifier_dynamic_value: the one alive instance of the name *)
(* is copied over every instance that has its id.                          *)
SetValue(n, v) ==
  /\ \E p \in DOMAIN list :
       /\ list[p].name = n /\ list[p].state = Alive
       /\ \A q \in DOMAIN list : list[q].name = n /\ list[q].state = Alive => q = p
       /\ list' = [q \in DOMAIN list |->
                     IF list[q].id = list[p].id THEN [list[p] EXCEPT !.value = v]
                                                ELSE list[q]]

-----------------------------------------------------------------------------
ModifierInit == list = <<>>

(* Mutant: the number counts what is alive instead of what is there.       *)
AddByLive ==
  \E n \in Name, src \in Source, life \in Lives, v \in Values :
    AddOrRefresh(<<n, Len(Survivors(list)) + 1>>, n, src, life, v)

(* _execute_add_modifier names an instance by the length of the list that  *)
(* it joins.                                                               *)
AddByLength ==
  \E n \in Name, src \in Source, life \in Lives, v \in Values :
    AddOrRefresh(<<n, Len(list) + 1>>, n, src, life, v)

Short ==
  /\ Len(list) <= MaxLength
  /\ \A p \in DOMAIN list : list[p].life \in Lives \cup 0 .. MaxLife

ModifierNext ==
  /\ \/ AddByLength
     \/ \E id \in {list[p].id : p \in DOMAIN list} : Activate(id) \/ RemoveSelf(id)
     \/ TickLifetime
     \/ RemoveDirty
     \/ \E n \in Name : RemoveNamed(n) \/ \E v \in Values : SetValue(n, v)
  /\ Short'

ModifierSpec == ModifierInit /\ [][ModifierNext]_list

-----------------------------------------------------------------------------
ModifierTypeOK == list \in Seq(Instance)

(* A source that adds a modifier again refreshes its own instance, unless  *)
(* the policy is MULTIPLE: two live instances of one name and source share *)
(* an id, as a value write that goes by the id leaves them, and a cleanup  *)
(* has moved the first of them down since it was numbered.  So a source has*)
(* one live instance at least until something before it is cleaned away.   *)
TwinsShareMovedId ==
  \A p, q \in DOMAIN list :
    /\ p < q /\ Live(list[p]) /\ Live(list[q])
    /\ list[p].name = list[q].name /\ list[p].source = list[q].source
    /\ StackingOf[list[p].name] # "MULTIPLE"
    => list[p].id = list[q].id /\ p < list[p].id[2]

(* Once all instances with an id are marked for removal, no tick, refresh, *)
(* activation, cleanup or value write makes one live: the id is live again *)
(* only in a new instance at the end of the list.                          *)
RemovedStayRemoved ==
  [][\A p \in DOMAIN list :
       (\A q \in DOMAIN list : list[q].id = list[p].id => ~Live(list[q])) =>
         \A r \in DOMAIN list' :
           list'[r].id = list[p].id => ~Live(list'[r]) \/ r = Len(list) + 1]_list

(* What the docstring of _execute_remove_modifier says: all instances of   *)
(* the name are marked for the later cleanup.                              *)
RemoveMarksAll ==
  [][\A n \in Name : RemoveNamed(n) =>
       \A p \in DOMAIN list' : list'[p].name = n => ~Live(list'[p])]_list
=============================================================================
