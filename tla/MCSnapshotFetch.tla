--------------------------- MODULE MCSnapshotFetch ---------------------------
(* A collection that lists two details in its first version and one in its *)
(* second, one of them a boss that binds a buff of its own.                *)
EXTENDS SnapshotFetch

CONSTANTS coll, boss, plain, buff

MCFront == <<coll>>
MCLists ==
  [p \in Path |-> [v \in Version |->
     IF p = coll THEN (IF v = 1 THEN <<boss, plain>> ELSE <<boss>>) ELSE <<>>]]
MCNewest == [p \in Path |-> IF p \in {coll, boss} THEN 2 ELSE 1]
MCCites ==
  [p \in Path |-> [v \in Version |-> IF p = boss THEN {buff} ELSE {}]]
=============================================================================
