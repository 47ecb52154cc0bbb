-------------------------- MODULE ReferenceValues --------------------------
(***************************************************************************)
(* Dynamic values of the reference engine: the store of owner -> key ->    *)
(* value, the formulas (postfix programs) and predicates that read it, and *)
(* the entrypoints of game_data/reference_execution.py that define, set    *)
(* and branch on values.  An operation that raises discards the whole      *)
(* entrypoint: the states are immutable and the caller keeps its own.      *)
(* Keys are names or signed 32-bit hashes; a formula holds hashes only.    *)
(***************************************************************************)
EXTENDS Integers, Sequences

CONSTANTS Owner,           \* entities that may own values
          Nobody,          \* an id that is None
          Key, Hashed,     \* keys, and those that are numbers
          Absent,          \* no value
          Failed,          \* what raises
          Context,         \* ExecutionContexts
          Expression,      \* formulas
          Program,         \* those that conditions are asked about
          PredicateId, PredicateOf,  \* predicates by id, see Holds
          OperationNo, OperationOf,  \* operations by id, see Executed
          Entrypoint,      \* sequences of operations
          Quotient(_, _),  \* division in the precision of the formulas
          MaxValue         \* bound of the model

ASSUME ValueAssumption ==
  /\ Hashed \subseteq Key /\ Nobody \notin Owner
  /\ Absent \notin Int /\ Failed \notin Int \cup Seq(Int) /\ Absent # Failed
  /\ MaxValue \in Nat

VARIABLE store  \* the DynamicValueStore

Stores == [Owner -> [Key -> Int \cup {Absent}]]

-----------------------------------------------------------------------------
(* The owners of scopes.  A context may name an owner for each scope.      *)
NoScope == "none"
SearchOrder == <<"ContextCaster", "ContextOwner", "ContextModifier", "TargetEntity", "ContextAbility">>
Scope == {SearchOrder[n] : n \in 1 .. 5}

ASSUME ContextAssumption ==
  \A c \in Context :
    /\ {c.caster, c.owner, c.target} \subseteq Owner \cup {Nobody}
    /\ c.owners \in [Scope -> Owner \cup {Nobody}]
    /\ \A k \in Hashed : c.given[k] \in Int \cup {Absent}

DefaultOwner(c) ==
  IF c.caster # Nobody THEN c.caster
  ELSE IF c.owner # Nobody THEN c.owner ELSE c.target

(* Where _resolve_dynamic looks in a scope.                                *)
ReadOwner(c, s) ==
  CASE c.owners[s] # Nobody -> c.owners[s]
    [] c.owners[s] = Nobody /\ s = "ContextCaster" -> c.caster
    [] c.owners[s] = Nobody /\ s \in {"ContextOwner", "ContextModifier"} -> c.owner
    [] c.owners[s] = Nobody /\ s = "TargetEntity" -> c.target
    [] c.owners[s] = Nobody /\ s = "ContextAbility" -> Nobody

Only(units) == IF Len(units) = 1 THEN units[1] ELSE Nobody

(* _scope_owner: where an operation writes; Nobody raises.                 *)
WriteOwnerIn(c, s, units) ==
  CASE c.owners[s] # Nobody -> c.owners[s]
    [] c.owners[s] = Nobody /\ s \in {"ContextCaster", "ContextAbility"} -> c.caster
    [] c.owners[s] = Nobody /\ s \in {"ContextOwner", "ContextModifier"} -> c.owner
    [] c.owners[s] = Nobody /\ s = "TargetEntity" -> Only(units)

WriteOwnerDefault(c, scope, units) ==  \* mutant: another default scope
  WriteOwnerIn(c, IF scope = NoScope THEN "ContextOwner" ELSE scope, units)

WriteOwner(c, scope, units) ==
  WriteOwnerIn(c, IF scope = NoScope THEN "ContextCaster" ELSE scope, units)

(* _resolve_dynamic: a value given with the context, else the first scope  *)
(* that holds the hash.                                                    *)
Holding(c, st, k) ==
  {n \in 1 .. 5 : LET u == ReadOwner(c, SearchOrder[n]) IN u # Nobody /\ st[u][k] # Absent}

FirstIn(S) == CHOOSE n \in S : \A m \in S : n <= m

Searched(c, st, k) ==
  LET H == Holding(c, st, k)
  IN  IF H = {} THEN Failed ELSE st[ReadOwner(c, SearchOrder[FirstIn(H)])][k]

ReadHash(c, st, k) ==
  IF c.given[k] # Absent THEN c.given[k] ELSE Searched(c, st, k)

(* dynamic_get of the predicates: the owner named for the scope, or without*)
(* a scope the default owner; else as above, for a hash.  A name raises.   *)
DynamicGet(c, st, s, k) ==
  LET u == IF s = NoScope THEN DefaultOwner(c) ELSE c.owners[s]
  IN  IF u = Nobody /\ s = NoScope THEN Failed
      ELSE IF u # Nobody /\ st[u][k] # Absent THEN st[u][k]
      ELSE IF k \in Hashed THEN ReadHash(c, st, k) ELSE Failed

-----------------------------------------------------------------------------
(* Formulas.  A program has tokens, fixed values and the hashes its dynamic*)
(* operands index; a fixed value is a program of one operand.  evaluate    *)
(* runs it on a stack.                                                     *)
Binary == {"ADD", "SUB", "MUL", "DIV"}
Token == ({"FIXED", "DYNAMIC"} \X Nat) \cup {<<t>> : t \in Binary \cup {"NEG", "END"}}

ASSUME ProgramAssumption ==
  /\ Program \subseteq Expression
  /\ \A p \in Expression : p.tokens \in Seq(Token) /\ p.fixed \in Seq(Int) /\ p.hashes \in Seq(Hashed)

ComputedBackwards(op, left, right) ==  \* mutant: the operands as they are popped
  CASE op = "ADD" -> left + right
    [] op = "SUB" -> right - left
    [] op = "MUL" -> left * right
    [] op = "DIV" /\ left # 0 -> Quotient(right, left)
    [] op = "DIV" /\ left = 0 -> Failed

Computed(op, left, right) ==
  CASE op = "ADD" -> left + right
    [] op = "SUB" -> left - right
    [] op = "MUL" -> left * right
    [] op = "DIV" /\ right # 0 -> Quotient(left, right)
    [] op = "DIV" /\ right = 0 -> Failed

Pushed(stack, v) == IF v = Failed THEN Failed ELSE Append(stack, v)

AfterToken(p, read, stack, t) ==
  LET n == Len(stack)
  IN  CASE t[1] = "FIXED" -> Pushed(stack, p.fixed[t[2]])
        [] t[1] = "DYNAMIC" -> Pushed(stack, read[p.hashes[t[2]]])
        [] t[1] = "END" -> stack
        [] t[1] \in Binary -> IF n < 2 THEN Failed
             ELSE Pushed(SubSeq(stack, 1, n - 2), Computed(t[1], stack[n - 1], stack[n]))
        [] t[1] = "NEG" -> IF n < 1 THEN Failed ELSE [stack EXCEPT ![n] = -@]

Evaluate(p, read) ==
  LET after[n \in 0 .. Len(p.tokens)] ==
        IF n = 0 THEN <<>>
        ELSE LET s == after[n - 1]
             IN  IF s = Failed THEN Failed ELSE AfterToken(p, read, s, p.tokens[n])
      stack == after[Len(p.tokens)]
  IN  IF stack # Failed /\ Len(stack) = 1 THEN stack[1] ELSE Failed

(* decode_postfix_program accepts it: END is the last token only, there is *)
(* an operand, and every operand is in range.                              *)
Decodes(p) ==
  /\ p.tokens # <<>>
  /\ \A n \in DOMAIN p.tokens : p.tokens[n][1] = "END" <=> n = Len(p.tokens)
  /\ \E n \in DOMAIN p.tokens : p.tokens[n][1] \in {"FIXED", "DYNAMIC"}
  /\ \A n \in DOMAIN p.tokens :
       /\ p.tokens[n][1] = "FIXED" => p.tokens[n][2] \in DOMAIN p.fixed
       /\ p.tokens[n][1] = "DYNAMIC" => p.tokens[n][2] \in DOMAIN p.hashes

(* A formula of an operation reads by _resolve_dynamic, one of a predicate *)
(* by dynamic_get without a scope.                                         *)
OperationValue(c, st, p) ==
  IF Decodes(p) THEN Evaluate(p, [k \in Hashed |-> ReadHash(c, st, k)]) ELSE Failed

PredicateValue(c, st, p) ==
  IF Decodes(p) THEN Evaluate(p, [k \in Hashed |-> DynamicGet(c, st, NoScope, k)]) ELSE Failed

-----------------------------------------------------------------------------
(* Predicates.  Composition stops at the first child that decides; what is *)
(* inverted is the result, unless it raises.                               *)
Compare(left, type, right) ==
  CASE type = "Equal" -> left = right
    [] type = "NotEqual" -> left # right
    [] type = "Less" -> left < right
    [] type = "LessEqual" -> left <= right
    [] type = "Greater" -> left > right
    [] type = "GreaterEqual" -> left >= right

(* ByCompareDynamicValue                                                   *)
Compared(c, st, s, k, type, p) ==
  LET actual == DynamicGet(c, st, s, k)
      expected == PredicateValue(c, st, p)
  IN  IF actual = Failed \/ expected = Failed THEN Failed
      ELSE Compare(actual, type, expected)

FirstNot(results, v) ==
  LET D == {n \in DOMAIN results : results[n] # v}
  IN  IF D = {} THEN v ELSE results[FirstIn(D)]

Flipped(v) == IF v = Failed THEN Failed ELSE ~v

(* Facts of the battle are true of a set of units; a team is asked of all  *)
(* targets, every other fact of any of them.                               *)
Holds(c, st) ==
  LET holds[i \in PredicateId] ==
        LET p == PredicateOf[i]
            results == [n \in DOMAIN p.children |-> holds[p.children[n]]]
            v == CASE p.type = "ByAnd" -> FirstNot(results, TRUE)
                   [] p.type = "ByAny" -> FirstNot(results, FALSE)
                   [] p.type = "ByNot" -> IF Len(results) = 1 THEN Flipped(results[1]) ELSE Failed
                   [] p.type = "ByCompareDynamicValue" ->
                        Compared(c, st, p.scope, p.key, p.compare, p.value)
                   [] p.type = "ByTargetTeam" -> c.targets \subseteq p.units
                   [] p.type = "fact" -> c.targets \cap p.units # {}
                   [] p.type = "unsupported" -> Failed
        IN  IF p.inverse THEN Flipped(v) ELSE v
  IN  holds

-----------------------------------------------------------------------------
(* What an operation leaves of the store.                                  *)
SetValueOf(c, st, scope, k, v) ==
  LET u == WriteOwner(c, scope, c.units)
  IN  IF u = Nobody \/ v = Failed THEN Failed ELSE [st EXCEPT ![u][k] = v]

Define(c, st, scope, k, reset) ==
  LET u == WriteOwner(c, scope, c.units)
  IN  IF u = Nobody THEN Failed
      ELSE IF st[u][k] # Absent THEN st
      ELSE [st EXCEPT ![u][k] = IF reset = Absent THEN 0 ELSE reset]

(* SetDynamicValueByModifierValue: the layer of the callback's instance.   *)
LayerValue(c, st, p) ==
  LET multiplier == OperationValue(c, st, p)
  IN  IF c.layer = Absent \/ multiplier = Failed THEN Failed ELSE c.layer * multiplier

(* SetDynamicValueByProperty: a property of the one unit that is read.     *)
LeafValue(leaf, units) == IF Only(units) = Nobody THEN Failed ELSE leaf[Only(units)]

(* _execute_operations: one after the other, until one raises.             *)
AfterAll(run, st, operations) ==
  LET after[n \in 0 .. Len(operations)] ==
        IF n = 0 THEN st
        ELSE LET s == after[n - 1] IN IF s = Failed THEN Failed ELSE run[operations[n], s]
  IN  after[Len(operations)]

Executed(c) ==
  LET run[i \in OperationNo, st \in Stores] ==
        LET o == OperationOf[i]
        IN  CASE o.kind = "SetDynamicValue" ->
                   SetValueOf(c, st, o.scope, o.key, OperationValue(c, st, o.value))
              [] o.kind = "SetDynamicValueByModifierValue" ->
                   SetValueOf(c, st, o.scope, o.key, LayerValue(c, st, o.value))
              [] o.kind = "SetDynamicValueByProperty" ->
                   SetValueOf(c, st, o.scope, o.key, LeafValue(o.leaf, c.units))
              [] o.kind = "DefineDynamicValue" -> Define(c, st, o.scope, o.key, o.reset)
              [] o.kind = "PREDICATE" -> IF Holds(c, st)[o.predicate] = Failed THEN Failed ELSE st
              [] o.kind = "CONDITIONAL" ->
                   LET v == Holds(c, st)[o.predicate]
                   IN  IF v = Failed THEN Failed
                       ELSE AfterAll(run, st, IF v THEN o.success ELSE o.failed)
  IN  run

(* execute_entrypoint                                                      *)
ExecuteEntrypoint(c, e) ==
  LET after == AfterAll(Executed(c), store, e)
  IN  /\ after # Failed
      /\ store' = after

-----------------------------------------------------------------------------
ValueInit == store = [u \in Owner |-> [k \in Key |-> Absent]]

InBounds == store \in [Owner -> [Key -> -MaxValue .. MaxValue \cup {Absent}]]

ValueNext == \E c \in Context, e \in Entrypoint : ExecuteEntrypoint(c, e) /\ InBounds'

ValueSpec == ValueInit /\ [][ValueNext]_store

-----------------------------------------------------------------------------
ValueTypeOK == store \in Stores

(* The contexts in which a condition and an operation read the same: none  *)
(* of the values is given with the context, and the caster is who the      *)
(* scope of the caster names.                                              *)
ReadsAlike(c) ==
  /\ \A k \in Hashed : c.given[k] = Absent
  /\ c.caster # Nobody /\ c.owners["ContextCaster"] \in {Nobody, c.caster}

(* Division gives numbers.  (TLC cannot go through all pairs, so this is a *)
(* hypothesis where it is needed, and no assumption of the module.)        *)
QuotientsAreNumbers == \A l \in Int, r \in Int \ {0} : Quotient(l, r) \in Int

(* What an operation sets, a later condition of the same callback finds:   *)
(* after key := formula, "key equals formula" holds in the scope that was  *)
(* written, whatever the store holds for the other owners and scopes that  *)
(* both search - if the formula does not read the key, and the scope is the*)
(* default one or has an owner of its own.  Elsewhere the two disagree:    *)
(* the condition then starts its search at the caster.                     *)
SetThenEqual ==
  \A c \in Context, p \in Program, k \in Key :
    \A s \in {NoScope} \cup {s \in Scope : c.owners[s] # Nobody} :
      LET v == OperationValue(c, store, p)
      IN  ReadsAlike(c) /\ v # Failed /\ (\A n \in DOMAIN p.hashes : p.hashes[n] # k)
          => Compared(c, SetValueOf(c, store, s, k, v), s, k, "Equal", p) = TRUE

(* The same once an entrypoint has written anything.                       *)
Written == \E u \in Owner, k \in Key : store[u][k] # Absent
ConditionsFindWrites == Written => SetThenEqual

(* What a formula should be: an expression is an operand, one expression   *)
(* and NEG, or two and an operation.  Of each token: where the expression  *)
(* starts that it ends, and its value.  It raises if a part of it does.    *)
NoExpression == [first |-> 0, value |-> Failed]

Applied(op, l, r) ==
  IF l = Failed \/ r = Failed THEN Failed
  ELSE [ADD |-> l + r, SUB |-> l - r, MUL |-> l * r,
        DIV |-> IF r = 0 THEN Failed ELSE Quotient(l, r)][op]

Ending(p, read) ==
  LET ending[n \in 0 .. Len(p.tokens)] ==
        LET t == p.tokens[n]
            right == ending[n - 1]
            left == ending[right.first - 1]
        IN  CASE n = 0 -> NoExpression
              [] n > 0 /\ t[1] = "FIXED" -> [first |-> n, value |-> p.fixed[t[2]]]
              [] n > 0 /\ t[1] = "DYNAMIC" -> [first |-> n, value |-> read[p.hashes[t[2]]]]
              [] n > 0 /\ t[1] = "END" -> right
              [] n > 0 /\ t[1] = "NEG" ->
                   IF right.value = Failed THEN right ELSE [right EXCEPT !.value = -@]
              [] n > 0 /\ t[1] \in Binary ->
                   IF right.first = 0 THEN NoExpression
                   ELSE IF left.first = 0 THEN NoExpression
                   ELSE [first |-> left.first,
                         value |-> Applied(t[1], left.value, right.value)]
  IN  ending

(* The value of one expression that all tokens are a part of.              *)
Meaning(p, read) ==
  LET whole == Ending(p, read)[Len(p.tokens)]
  IN  IF whole.first = 1 THEN whole.value ELSE Failed

(* The stack of evaluate computes that tree: left operands left although   *)
(* they are popped last, all tokens used and none missing, and it raises   *)
(* exactly if a part of the tree does or there is no tree.                 *)
PostfixMeansTree ==
  Written =>
    \A read \in UNION {{[k \in Hashed |-> ReadHash(c, store, k)],
                       [k \in Hashed |-> DynamicGet(c, store, NoScope, k)]} : c \in Context} :
      \A p \in Expression : Decodes(p) => Evaluate(p, read) = Meaning(p, read)
=============================================================================
