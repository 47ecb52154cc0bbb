-------------------------- MODULE MCModifierIdentity --------------------------
(* A model-checking instance of ModifierIdentity. *)
EXTENDS ModifierIdentity

TwoNames ==
  {[name |-> n, flag |-> 0, caster |-> 1, provider |-> NoProvider] :
     n \in {"refresh", "other"}}
TwoStackings == [n \in {"refresh", "other"} |-> "REFRESH"]
OneTemplate == {[count |-> 1, life |-> 1, previous |-> 1, guard |-> 0]}
=============================================================================
