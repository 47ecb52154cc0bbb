-------------------------- MODULE MCModifierEffects --------------------------
(* A model-checking instance of ModifierEffects: two entities whose lists  *)
(* are managed by the decision tree, and one entity whose modifiers also   *)
(* contribute to a property.                                               *)
EXTENDS ModifierEffects

CONSTANT a

LookupKey(name, flag, caster) ==
  [name |-> name, flag |-> flag, caster |-> caster, provider |-> NoProvider]

(* A global modifier, and a local one with a wildcard and a specific key. *)
ManagedKeys ==
  {LookupKey("unique", 0, 1), LookupKey("refresh", AnyFlag, NoCaster),
   LookupKey("refresh", 0, 1)}
ReplacedKeys == {LookupKey("multiple", 0, 1), LookupKey("latest", 0, 1)}

AllKeys == ManagedKeys \cup ReplacedKeys
Stackings ==
  [n \in {k.name : k \in AllKeys} |->
     CASE n = "unique" -> "RETAIN_GLOBAL_LATEST_UNIQUE"
       [] n = "refresh" -> "REFRESH"
       [] n = "multiple" -> "MULTIPLE"
       [] n = "latest" -> "RETAIN_GLOBAL_LATEST"]
FreshTemplate == {[count |-> 1, life |-> 1, previous |-> Permanent, guard |-> 0]}
Additive == [c \in {a} |-> 3]
ZeroBase == [c \in {a} |-> 0]
OneTarget == {<<a>>}

Positions == {r \in Entity \X Ordinals : Present(r[1], r[2])}
KeysIn(keys) == \A r \in Positions : mods[r[1]][r[2]].key \in keys

(* Both lists together are no longer than one list that is full.            *)
OnlyManaged ==
  /\ executors = {} /\ \A r \in Ref : records[r] = <<>>
  /\ KeysIn(ManagedKeys)
  /\ Cardinality(Positions) <= 3

OnlyEffects == KeysIn(ReplacedKeys) /\ \A r \in Positions : r[1] = 1

OneUse == OnlyManaged \/ OnlyEffects
=============================================================================
