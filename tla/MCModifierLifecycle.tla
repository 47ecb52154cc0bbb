------------------------- MODULE MCModifierLifecycle -------------------------
(* Model-checking instances of ModifierLifecycle. *)
EXTENDS ModifierLifecycle, FiniteSets

LookupKey(name, flag, caster, provider) ==
  [name |-> name, flag |-> flag, caster |-> caster, provider |-> provider]

(* The lengthening stackings, MULTIPLE, and replacements by provider and   *)
(* on the whole field.                                                     *)
LifeKeys ==
  {LookupKey(name, 0, 1, NoProvider) :
     name \in {"prolong", "merge", "keep", "multiple", "latest"}}
  \cup {LookupKey("by_caster", 0, 1, provider) : provider \in {NoProvider, 1}}
LifeStacking ==
  [n \in {"prolong", "merge", "keep", "multiple", "by_caster", "latest"} |->
     CASE n = "prolong" -> "PROLONG"
       [] n = "merge" -> "MERGE"
       [] n = "keep" -> "REPLACE_BUT_KEEP_LIFETIME"
       [] n = "multiple" -> "MULTIPLE"
       [] n = "by_caster" -> "REPLACE_BY_CASTER"
       [] n = "latest" -> "RETAIN_GLOBAL_LATEST"]

(* Fresh templates leave previous_life at its default, the sentinel. *)
FreshTemplates(counts, lives, guards) ==
  {[count |-> c, life |-> l, previous |-> Permanent, guard |-> g] :
     c \in counts, l \in lives, g \in guards}

LifeTemplates ==
  FreshTemplates({1}, {Permanent, 1}, {0})
  \cup {[count |-> 1, life |-> l, previous |-> l, guard |-> g] :
          l \in {1, 2}, g \in {0, 1}}
=============================================================================
