------------------------- MODULE MCReferenceEngine -------------------------
(* The reference engine for TLC: two light units that share a row (only a  *)
(* takes ordinary turns) and a dark one with a toughness bar, and the      *)
(* modifiers of one unit.  The records of the engine are edited apart from *)
(* each other, so a behaviour explores one family of operations at full    *)
(* depth: survival and toughness, turns and deaths, the shared holders,    *)
(* the modifiers, the tracer of events, or the dynamic values.             *)
EXTENDS ReferenceBattle, ReferenceModifiers, EventTrace, ReferenceValues

CONSTANTS a, b, x

MCTeam == [e \in {a, b, x} |-> IF e = x THEN "dark" ELSE "light"]
MCSeat == [e \in {a, b, x} |-> IF e = b THEN 1 ELSE 0]
MCShifts == {-1, 1}
MCGains == {-1, 1}
MCRecharges == {0, 1, 2}

(* Sources leave the runtime id open or give it.                           *)
MCStacking ==
  [n \in {"stack", "replace", "merge"} |->
     CASE n = "stack" -> "MULTIPLE" [] n = "replace" -> "REPLACE" [] n = "merge" -> "MERGE"]
MCSources == {<<1, "p">>, <<Unset, "p">>}

(* Operation 1 has the child 2; event A leads to B and C, and B to C.      *)
MCChildren == [o \in 1 .. 4 |-> IF o = 1 THEN <<2, 4>> ELSE <<>>]
MCEmits == [o \in 1 .. 4 |-> CASE o = 1 -> <<"B">> [] o = 2 -> <<"C", "B">>
                               [] o = 3 -> <<"C">> [] o = 4 -> <<>>]
MCEntrypoints ==
  {[event |-> l[1], priority |-> l[2], operations |-> l[3]] :
     l \in {<<"A", 1, <<1>>>>, <<"A", 0, <<3, 4>>>>, <<"B", 0, <<3>>>>, <<"C", 0, <<4>>>>}}

(* Contexts: plain ones with the caster on either side, one that names     *)
(* owners of scopes, one that names another owner for the caster's, one    *)
(* that brings a value of its own, one without a caster, and an empty one. *)
NoOwners == [s \in Scope |-> Nobody]
Plain == [caster |-> a, owner |-> x, target |-> x, owners |-> NoOwners, layer |-> 1,
          given |-> [k \in {"g", "h"} |-> Absent], units |-> <<x>>, targets |-> {a, x}]
MCContexts ==
  {Plain, [Plain EXCEPT !.caster = x, !.owner = a, !.units = <<a, x>>, !.targets = {}],
   [Plain EXCEPT !.owners["ContextModifier"] = x, !.owners["ContextAbility"] = x],
   [Plain EXCEPT !.owners["ContextCaster"] = x, !.layer = Absent],
   [Plain EXCEPT !.given["h"] = 1], [Plain EXCEPT !.caster = Nobody],
   [Plain EXCEPT !.caster = Nobody, !.owner = Nobody, !.target = Nobody]}

(* Formulas: 1, h, 1 - g, -g, 1 / g, one without operands, one without end.*)
Formula(tokens) == [tokens |-> Append(tokens, <<"END">>), fixed |-> <<1>>, hashes |-> <<>>]
Reading(k, tokens) == [Formula(tokens) EXCEPT !.hashes = <<k>>]
One == Formula(<<<<"FIXED", 1>>>>)
Load == Reading("h", <<<<"DYNAMIC", 1>>>>)
OneLess == Reading("g", <<<<"FIXED", 1>>, <<"DYNAMIC", 1>>, <<"SUB">>>>)
MCPrograms ==
  {One, Load, OneLess,
   Reading("g", <<<<"DYNAMIC", 1>>, <<"NEG">>>>),
   Reading("g", <<<<"FIXED", 1>>, <<"DYNAMIC", 1>>, <<"DIV">>>>),
   Formula(<<<<"ADD">>>>), [One EXCEPT !.tokens = <<<<"FIXED", 1>>>>]}

(* Whole numbers, rounded down.                                            *)
MCQuotient(l, r) == IF r > 0 THEN l \div r ELSE (-l) \div (-r)

Comparing(s, k, type, p) ==
  [type |-> "ByCompareDynamicValue", inverse |-> FALSE, children |-> <<>>,
   scope |-> s, key |-> k, compare |-> type, value |-> p]
About(type, units) == [type |-> type, inverse |-> FALSE, children |-> <<>>, units |-> units]
Composed(type, inverse, children) == [type |-> type, inverse |-> inverse, children |-> children]
MCPredicates ==
  <<Comparing(NoScope, "h", "Equal", OneLess), Comparing("ContextModifier", "n", "Greater", One),
    About("ByTargetTeam", {x}), About("fact", {a}), About("unsupported", {}),
    Composed("ByAny", FALSE, <<3, 5>>), Composed("ByAnd", TRUE, <<1, 4>>),
    Composed("ByNot", FALSE, <<7>>)>>

Setting(s, k, p) == [kind |-> "SetDynamicValue", scope |-> s, key |-> k, value |-> p]
MCOperations ==
  <<Setting(NoScope, "n", One), Setting(NoScope, "h", OneLess), Setting("ContextOwner", "g", Load),
    [kind |-> "DefineDynamicValue", scope |-> "TargetEntity", key |-> "n", reset |-> Absent],
    [kind |-> "DefineDynamicValue", scope |-> "ContextAbility", key |-> "g", reset |-> 1],
    [kind |-> "SetDynamicValueByProperty", scope |-> "ContextModifier", key |-> "h",
     leaf |-> [u \in {a, x} |-> IF u = a THEN 1 ELSE 0]],
    [kind |-> "SetDynamicValueByModifierValue", scope |-> NoScope, key |-> "g", value |-> Load],
    [kind |-> "CONDITIONAL", predicate |-> 8, success |-> <<1, 3>>, failed |-> <<9>>],
    [kind |-> "CONDITIONAL", predicate |-> 2, success |-> <<>>, failed |-> <<7>>],
    [kind |-> "PREDICATE", predicate |-> 6]>>
MCEntryLists == {<<1>>, <<2>>, <<5, 3>>, <<4>>, <<6>>, <<8>>, <<10, 7>>}

(* Formulas of up to three tokens, well formed or not, and those of two    *)
(* operations in either shape.                                             *)
OperandToken == {<<"FIXED", 1>>, <<"DYNAMIC", 1>>}
BinaryToken == {<<op>> : op \in Binary}
AnyToken == OperandToken \cup {<<"SUB">>, <<"DIV">>, <<"NEG">>}
MCExpressions ==
  MCPrograms \cup {Reading("h", tokens) : tokens \in UNION {[1 .. n -> AnyToken] : n \in 0 .. 3}}
    \cup {Reading("h", <<l, m, op, r, last>>) :
             l, m, r \in OperandToken, op, last \in BinaryToken}
    \cup {Reading("h", <<l, m, r, op, last>>) :
             l, m, r \in OperandToken, op, last \in BinaryToken}

VARIABLE family

vars == <<battleVars, list, eventVars, store, family>>

Families == {"fight", "turns", "side", "modifiers", "events", "values"}

MCInit ==
  /\ BattleInit
  /\ ModifierInit
  /\ EventInit
  /\ ValueInit
  /\ family \in Families
  /\ family # "turns" => /\ delay = [e \in Entity |-> 0]
                         /\ <<a, b>> \in order /\ <<b, x>> \in order
  /\ family # "fight" => weak = {}

MCNext ==
  /\ UNCHANGED family
  /\ \/ /\ family \in {"fight", "turns", "side"} /\ BattleNext
        /\ UNCHANGED <<list, eventVars, store>>
     \/ /\ family = "modifiers" /\ ModifierNext
        /\ UNCHANGED <<battleVars, eventVars, store>>
     \/ /\ family = "events" /\ EventNext
        /\ UNCHANGED <<battleVars, list, store>>
     \/ /\ family = "values" /\ ValueNext
        /\ UNCHANGED <<battleVars, list, eventVars>>

MCSpec == MCInit /\ [][MCNext]_vars

(* Only the modifiers.                                                     *)
RemovalInit == MCInit /\ family = "modifiers"
RemovalNext == ModifierNext /\ UNCHANGED <<battleVars, eventVars, store, family>>
RemovalSpec == RemovalInit /\ [][RemovalNext]_vars

OneFamily ==
  /\ family = "fight" => /\ UNCHANGED <<timelineVars, task, sideVars>>
                         /\ \A e \in {a, b} : unit'[e].shield = 0 /\ ~unit'[e].locked
  /\ family = "turns" => /\ UNCHANGED <<bar, paid, weak, sideVars>>
                         /\ \A e \in Entity : unit'[e].hp \in {0, MaxHP}
                                              /\ unit'[e].shield = 0
                                              /\ ~unit'[e].locked
  /\ family = "side" => UNCHANGED <<timelineVars, bodyVars, task>>
=============================================================================
