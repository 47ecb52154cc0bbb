-------------------------- MODULE MCContentPipeline --------------------------
(* The content pipeline for TLC: the snapshot fetcher, the fetcher of the  *)
(* pinned repositories and the build of the content database.  They share  *)
(* nothing but files that one leaves for the next, so a behaviour explores *)
(* one of them, the build on the snapshots that the fetcher may leave.     *)
EXTENDS MCSnapshotFetch, MCExternalFetch, ContentBuild, TLC

(* The build: a collection of a hero and a raid, a maze that shares a     *)
(* stage with the raid, and the curse that both bind to it.                *)
CONSTANTS list, hero, raid, maze, curse

MCCollections == <<list>>
MCDirectories == <<raid, maze>>
MCEntities ==
  [c \in {list} |-> [v \in Versions |-> IF v = 1 THEN <<hero, raid>> ELSE <<hero>>]]

StageRow(key, data, buffs) == [key |-> key, data |-> data, buffs |-> buffs]

(* One stage is in both directories; they agree on it or not.              *)
MCRows ==
  [p \in {list, hero, raid, maze, curse} |-> [v \in Versions |->
     CASE p = hero -> <<StageRow("skill", v, <<>>)>>
       [] p = raid -> <<StageRow("stage", v, <<curse>>), StageRow("wave", 1, <<>>)>>
       [] p = maze -> <<StageRow("stage", 1, IF v = 1 THEN <<curse>> ELSE <<>>)>>
       [] p \in {list, curse} -> <<>>]]
MCSupplied == [r \in Releases |-> (curse :> r) @@ (hero :> 1)]

Stored(versions) ==
  [p \in {list, hero, raid, maze, curse} |->
     CASE p = list -> versions[1] [] p = hero -> versions[2] [] p = raid -> versions[3]
       [] p = maze -> versions[4] [] p = curse -> versions[5]]

(* Complete ones, ones that miss a file or its entry, and one whose entry  *)
(* is of an earlier version than the file.                                 *)
MCSnapshots ==
  {<<Stored(s), Stored(s)>> : s \in {<<1, 1, 1, 1, 1>>, <<2, 1, 1, 1, 1>>, <<2, 1, 2, 1, 2>>,
                                     <<1, 0, 1, 0, 0>>, <<1, 1, 0, 2, 0>>}}
  \cup {<<Stored(<<1, 1, 1, 1, 1>>), Stored(<<1, 1, 0, 1, 1>>)>>,
        <<Stored(<<1, 1, 2, 1, 1>>), Stored(<<1, 1, 1, 1, 1>>)>>}

-----------------------------------------------------------------------------
VARIABLE family

pipelineVars == <<fetchVars, externalVars, contentVars, family>>

MCInit ==
  /\ FetchInit /\ ExternalInit /\ ContentInit
  /\ family \in {"snapshot", "external", "build"}

MCNext ==
  /\ UNCHANGED family
  /\ \/ family = "snapshot" /\ FetchNext /\ UNCHANGED <<externalVars, contentVars>>
     \/ family = "external" /\ ExternalNext /\ UNCHANGED <<fetchVars, contentVars>>
     \/ family = "build" /\ ContentNext /\ UNCHANGED <<fetchVars, externalVars>>

MCSpec ==
  /\ MCInit /\ [][MCNext]_pipelineVars
  /\ WF_fetchVars(RunStep) /\ WF_externalVars(JobStep)

(* A process of either fetcher that was started ends.                      *)
FetchersEnd == RunEnds /\ JobEnds
=============================================================================
