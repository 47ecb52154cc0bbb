----------------------------- MODULE SandboxStore -----------------------------
(***************************************************************************)
(* Battle states as the Python objects they are.  A state, a snapshot and  *)
(* a dictionary a caller got from to_dict each name a dictionary object,   *)
(* which may hold one nested container object: two levels, enough to tell  *)
(* a deep copy from a shallow one and from a shared reference.  Objects    *)
(* are changed in place, so sharing one would be seen by everybody who     *)
(* reaches it.  Source: battle_sandbox/state.py, snapshot.py.              *)
(***************************************************************************)
CONSTANTS Branch, Snapshot, Caller,
          Value,  \* what a nested container can hold
          Spare,  \* identities for objects beyond one per place
          Nil     \* no nested container

ASSUME StoreAssumption ==
  /\ Nil \notin Branch \cup Snapshot \cup Caller \cup Spare \cup Value
  /\ (Branch \cup Snapshot \cup Caller) \cap Spare = {}
  /\ Branch \cap Snapshot = {}

Place == Branch \cup Snapshot \cup Caller
Object == Place \cup Spare

VARIABLES dict,  \* dict[h]: the dictionary object that place h names
          held,  \* held[d]: the container nested in dictionary d, or Nil
          item   \* item[l]: what container l holds

store == <<dict, held, item>>

StoreInit ==
  /\ dict = [h \in Place |-> h]
  /\ held = [d \in Object |-> Nil]
  /\ item = [l \in Object |-> Nil]

StoredAt(h) == IF held[dict[h]] = Nil THEN Nil ELSE item[held[dict[h]]]

(* Python hands out identities nobody else reaches: the place's own name   *)
(* if that is free, for a canonical choice.                                *)
Unreached(h, reached) ==
  IF h \notin reached THEN h ELSE CHOOSE o \in Spare : o \notin reached
NewDict(h) == Unreached(h, {dict[g] : g \in Place \ {h}})
NewList(h) == Unreached(h, {held[dict[g]] : g \in Place \ {h}})

(* Slip: dict(field) in its place, so the nested container is shared.       *)
ShallowCopy(g, h) ==
  /\ dict' = [dict EXCEPT ![h] = NewDict(h)]
  /\ held' = [held EXCEPT ![NewDict(h)] = held[dict[g]]]
  /\ UNCHANGED item

(* deep_copy_json_value: new objects at every level.                       *)
DeepCopy(g, h) ==
  LET copied == StoredAt(g) IN
  /\ dict' = [dict EXCEPT ![h] = NewDict(h)]
  /\ held' = [held EXCEPT ![NewDict(h)] = IF copied = Nil THEN Nil ELSE NewList(h)]
  /\ item' = [item EXCEPT ![NewList(h)] = copied]

(* A new, empty BattleState.                                               *)
Fresh(h) ==
  /\ dict' = [dict EXCEPT ![h] = NewDict(h)]
  /\ held' = [held EXCEPT ![NewDict(h)] = Nil]
  /\ item' = [item EXCEPT ![NewList(h)] = Nil]

(* A key is assigned a container made for it, or dropped (c = Nil).        *)
Assign(h, c) ==
  /\ held' = [held EXCEPT ![dict[h]] = IF c = Nil THEN Nil ELSE NewList(h)]
  /\ item' = [item EXCEPT ![NewList(h)] = c]
  /\ UNCHANGED dict

(* The nested container is changed where it is.                            *)
EditInPlace(h, v) ==
  /\ held[dict[h]] # Nil
  /\ item' = [item EXCEPT ![held[dict[h]]] = v]
  /\ UNCHANGED <<dict, held>>
=============================================================================
