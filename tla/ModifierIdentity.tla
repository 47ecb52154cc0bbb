--------------------------- MODULE ModifierIdentity ---------------------------
(***************************************************************************)
(* Whom a ModifierRef names over time.  The ref of an instance is its      *)
(* name, its owner and its ordinal; tasks, property contributions and      *)
(* results keep refs, so a ref that comes back later under another         *)
(* instance is taken for the first one.                                    *)
(***************************************************************************)
EXTENDS ModifierLifecycle

VARIABLE retired  \* history: refs of the instances that left their list

RefOf(e, o) == <<mods[e][o].key.name, e, o>>
Refs == {RefOf(r[1], r[2]) : r \in {q \in Entity \X Ordinals : Present(q[1], q[2])}}

IdentityInit == Init /\ retired = {}

IdentityNext ==
  /\ ManagedNext
  /\ retired' = retired \cup (Refs \ Refs')

IdentitySpec == IdentityInit /\ [][IdentityNext]_<<mods, retired>>

(* A new instance never gets the ref of one that was removed, so that a    *)
(* kept ref names one instance for ever.  Stated by _next_instance_ordinal.*)
RefsNeverReused == Refs \cap retired = {}
=============================================================================
