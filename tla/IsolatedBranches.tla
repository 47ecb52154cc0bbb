--------------------------- MODULE IsolatedBranches ---------------------------
(***************************************************************************)
(* What clone, snapshot and serialisation promise a planner that searches  *)
(* over many sandboxes: battle states are values.  A branch or a caller's  *)
(* dictionary changes by its own doing only, a snapshot does not change at *)
(* all between being taken and being overwritten, and whoever copies gets  *)
(* exactly what is there at that moment.                                   *)
(***************************************************************************)
CONSTANTS Branch,    \* live contexts
          Snapshot,  \* places for a SandboxSnapshot
          Caller,    \* dictionaries in the hands of callers
          Content    \* logical battle states

VARIABLE content

Place == Branch \cup Snapshot \cup Caller

Init == content \in [Place -> Content]

Becomes(h, c) == content' = [content EXCEPT ![h] = c]

(* A branch or a caller changes what is its own.                           *)
Own(h) == \E c \in Content : Becomes(h, c)

(* One place becomes a copy of another; the other stays as it is.          *)
CopyOf(g, h) == Becomes(h, content[g])

Next ==
  \/ \E h \in Branch \cup Caller : Own(h)
  \/ \E g, h \in Place : CopyOf(g, h)

IsolatedSpec == Init /\ [][Next]_content
=============================================================================
