---------------------------- MODULE ContentBuild ----------------------------
(***************************************************************************)
(* From a raw snapshot to the content database: CanonicalBuilder, which    *)
(* normalizes the raw files to records, emit_canonical and build_sqlite,   *)
(* which publish them, and augment_content_database, which adds the        *)
(* records of a pinned external release to the database in place.  The     *)
(* scripts run one at a time and may die between two files.                *)
(*                                                                         *)
(* A file is its version, 0 when it is not stored; a record is what it was *)
(* normalized from and the provenance it cites.                            *)
(***************************************************************************)
EXTENDS Integers, SequencesExt

CONSTANTS
  Raw,          \* the raw files
  Versions,     \* of a raw file
  Collections,  \* the collection files, in the order they are read
  Directories,  \* the details read by directory (boss, maze, story), in order
  Entities,     \* Entities[c][v]: the details the collection c lists
  RowKey, RowData,  \* the keys of skills, stages, ... and what they say
  Rows,         \* Rows[p][v]: the rows of p, each with the buffs it binds
  Releases,     \* the external releases pinned one after the other
  Supplied,     \* Supplied[r]: the external records of r, a function on buffs
  Snapshots,    \* what fetch() may leave: <<versions stored, versions hashed>>
  NoBuild, NoDatabase

ASSUME ContentAssumption ==
  /\ Versions \subseteq Nat \ {0} /\ Releases \subseteq Nat
  /\ \A s \in Snapshots :
       /\ s \in [Raw -> Versions \cup {0}] \X [Raw -> Versions \cup {0}]
       /\ \A p \in Raw : s[2][p] # 0 => s[1][p] # 0
  /\ Collections \in Seq(Raw) /\ Directories \in Seq(Raw)
  /\ \A c \in ToSet(Collections), v \in Versions : Entities[c][v] \in Seq(Raw)
  /\ \A p \in Raw, v \in Versions :
       Rows[p][v] \in Seq([key : RowKey, data : RowData, buffs : Seq(Raw)])

VARIABLES
  raw,      \* the version stored of each raw file
  proven,   \* the version that provenance/index.json has the hash of
  built,    \* the CanonicalBuild of the process, NoBuild when none runs
  unsent,   \* the tables it has not emitted
  canon,    \* the Canonical files: the records of each table
  db,       \* the SQLite file
  release   \* the external release that is pinned

contentVars == <<raw, proven, built, unsent, canon, db, release>>

Tables == {"buff", "entity", "row"}

-----------------------------------------------------------------------------
(* _provenance cites the files that are in the index, by their hash there. *)
Provenance(paths) == {<<p, proven[p]>> : p \in {q \in paths : proven[q] # 0}}

Row(table, key, data, paths) ==
  [table |-> table, key |-> key, data |-> data, cites |-> Provenance(paths)]

BuffRow(b) == Row("buff", b, <<raw[b]>>, {b})

(* The rows of a file; a stage is followed by the buffs it binds.          *)
RowsOf(p) ==
  IF raw[p] = 0 THEN <<>>
  ELSE LET rows == Rows[p][raw[p]]
       IN  FlattenSeq([i \in DOMAIN rows |->
             <<Row("row", rows[i].key, rows[i].data, {p})>>
               \o [b \in DOMAIN rows[i].buffs |-> BuffRow(rows[i].buffs[b])]])

(* _build_avatars, _lightcones, _relic_sets, _monsters and the modes: each *)
(* entity a collection lists, and the rows of its detail if it has one.    *)
ListedIn(c) ==
  IF raw[c] = 0 THEN <<>>
  ELSE LET details == Entities[c][raw[c]]
       IN  FlattenSeq([i \in DOMAIN details |->
             <<Row("entity", details[i], <<raw[c], raw[details[i]]>>, {c, details[i]})>>
               \o (IF details[i] \in ToSet(Directories) THEN <<>> ELSE RowsOf(details[i]))])

(* Every record that build() gives to _add, in order.                      *)
Candidates ==
  FlattenSeq([i \in DOMAIN Collections |-> ListedIn(Collections[i])])
  \o FlattenSeq([i \in DOMAIN Directories |-> RowsOf(Directories[i])])

SameKey(r, s) == r.table = s.table /\ r.key = s.key

AddKeepingFirst(b, r) ==  \* mutant
  IF \E s \in b.records : SameKey(r, s) THEN b
  ELSE [b EXCEPT !.records = @ \cup {r}]

(* _add: the first record of a key stays.  A later one with the same data  *)
(* adds its provenance; one with other data is only reported as a conflict.*)
Add(b, r) ==
  IF \A s \in b.records : ~SameKey(r, s) THEN [b EXCEPT !.records = @ \cup {r}]
  ELSE LET s == CHOOSE x \in b.records : SameKey(r, x)
       IN  IF s.data = r.data
           THEN [b EXCEPT !.records = (@ \ {s}) \cup {[s EXCEPT !.cites = @ \cup r.cites]}]
           ELSE [b EXCEPT !.conflicts = @ \cup {<<r.table, r.key>>}]

AddAll(candidates) ==
  LET after[n \in 0 .. Len(candidates)] ==
        IF n = 0 THEN [records |-> {}, conflicts |-> {}] ELSE Add(after[n - 1], candidates[n])
  IN  after[Len(candidates)]

Normalized == AddAll(Candidates)

TableOf(b, t) == {r \in b.records : r.table = t}
Filled(b) == {t \in Tables : TableOf(b, t) # {}}

(* The buffs that stage_buff_relations name.                               *)
Required == {r.key : r \in {s \in db.records : s.table = "buff"}}

-----------------------------------------------------------------------------
ContentInit ==
  /\ raw = [p \in Raw |-> 0] /\ proven = raw
  /\ built = NoBuild /\ unsent = {}
  /\ canon = [t \in Tables |-> {}]
  /\ db = NoDatabase
  /\ release \in Releases /\ \A r \in Releases : release <= r

(* The fetcher ran: some files are stored, and the index has the hash of   *)
(* stored files only, not always of the bytes that are stored now.         *)
Fetched ==
  /\ built = NoBuild
  /\ \E s \in Snapshots : raw' = s[1] /\ proven' = s[2]
  /\ UNCHANGED <<built, unsent, canon, db, release>>

BeginBuild ==
  /\ built = NoBuild
  /\ built' = Normalized
  /\ unsent' = Filled(Normalized)
  /\ UNCHANGED <<raw, proven, canon, db, release>>

(* emit_canonical writes a file per table that has records.                *)
EmitTable(t) ==
  /\ t \in unsent
  /\ canon' = [canon EXCEPT ![t] = TableOf(built, t)]
  /\ unsent' = unsent \ {t}
  /\ UNCHANGED <<raw, proven, built, db, release>>

(* build_sqlite fills a .part file and then replaces the database by it.   *)
PublishBuild ==
  /\ built # NoBuild /\ unsent = {}
  /\ db' = [records |-> built.records, conflicts |-> built.conflicts,
            external |-> <<>>, clashes |-> {}]
  /\ built' = NoBuild
  /\ UNCHANGED <<raw, proven, unsent, canon, release>>

BuildDies ==
  /\ built # NoBuild
  /\ built' = NoBuild /\ unsent' = {}
  /\ UNCHANGED <<raw, proven, canon, db, release>>

-----------------------------------------------------------------------------
(* The external records of the pinned release: all of them when the        *)
(* database requires none.                                                 *)
Incoming ==
  LET supplied == Supplied[release]
      wanted == IF Required = {} THEN DOMAIN supplied ELSE DOMAIN supplied \cap Required
  IN  [k \in wanted |-> supplied[k]]

OverwriteAll(old, new) == new @@ old  \* mutant

(* _insert_record: what is in the database stays.                          *)
InsertNew(old, new) ==
  [k \in DOMAIN old \cup DOMAIN new |-> IF k \in DOMAIN old THEN old[k] ELSE new[k]]

Clashing(old, new) ==
  {<<k, new[k]>> : k \in {x \in DOMAIN old \cap DOMAIN new : old[x] # new[x]}}

(* One transaction.                                                        *)
Augment ==
  /\ built = NoBuild /\ db # NoDatabase
  /\ db' = [db EXCEPT !.external = InsertNew(@, Incoming),
                      !.clashes = @ \cup Clashing(db.external, Incoming)]
  /\ UNCHANGED <<raw, proven, built, unsent, canon, release>>

Repin ==
  /\ built = NoBuild
  /\ \E r \in Releases : release < r /\ release' = r
  /\ UNCHANGED <<raw, proven, built, unsent, canon, db>>

ContentNext ==
  \/ Fetched \/ BeginBuild \/ PublishBuild \/ BuildDies \/ Augment \/ Repin
  \/ \E t \in Tables : EmitTable(t)

ContentSpec == ContentInit /\ [][ContentNext]_contentVars

-----------------------------------------------------------------------------
(* A step that publishes a build: every occurrence of a fact in a raw file *)
(* is either in the record of its key, with its file among the sources, or *)
(* reported as a conflict; no record is of something the snapshot does not *)
(* say; and the Canonical files say the same.                              *)
PublicationAccounts ==
  built # NoBuild /\ db' # db =>
    /\ \A c \in ToSet(Candidates) :
         \E r \in db'.records :
           /\ SameKey(r, c)
           /\ (r.data = c.data /\ c.cites \subseteq r.cites)
              \/ <<c.table, c.key>> \in db'.conflicts
    /\ \A r \in db'.records :
         r.cites = UNION {c.cites : c \in {d \in ToSet(Candidates) :
                                            SameKey(r, d) /\ r.data = d.data}}
    /\ \A t \in Filled(db') : canon[t] = TableOf(db', t)

(* What is published accounts for the whole snapshot.                      *)
PublishedAccountsForAll == [][PublicationAccounts]_contentVars

(* "conflicting local/external facts are retained, never overwritten": as  *)
(* long as the database is not rebuilt, an external record in it stays as  *)
(* it is, and every record a release supplied for it that differs is listed*)
(* as a conflict.                                                          *)
AugmentRetains ==
  [][built = NoBuild /\ db # NoDatabase /\ db' # db =>
       /\ \A k \in DOMAIN db.external : db'.external[k] = db.external[k]
       /\ db.clashes \subseteq db'.clashes
       /\ \A k \in DOMAIN Incoming :
            db'.external[k] = Incoming[k] \/ <<k, Incoming[k]>> \in db'.clashes]_contentVars
=============================================================================
