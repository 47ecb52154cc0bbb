---------------------------- MODULE SnapshotFetch ----------------------------
(***************************************************************************)
(* NanokaSnapshotFetcher: one process that downloads a snapshot file by    *)
(* file, keeps the provenance of each file in memory and writes it to      *)
(* provenance/index.json every Batch records and at the end.  A process    *)
(* may die at any point; the next one starts from what is on disk.         *)
(*                                                                         *)
(* A payload is the version of it that the server had, and a hash or an    *)
(* ETag is the version it belongs to.  Only well-formed JSON is stored.    *)
(***************************************************************************)
EXTENDS Naturals, FiniteSets, SequencesExt

CONSTANTS
  Path,        \* the raw files of a snapshot
  FrontFiles,       \* the files fetched one by one first: manifest, collections, ...
  Lists,       \* Lists[p][v]: the details version v of the front file p lists
  Cites,       \* Cites[p][v]: the set of buffs version v of the boss detail p binds
  MaxVersion,  \* bound: the versions of a file
  Newest,        \* the last version of each file the server publishes
  Retries,     \* attempts of one request
  Batch,       \* records between two checkpoints of the index (25 in the code)
  Workers,     \* threads of the pool
  NoEntry      \* a file the index does not have

Version == 1 .. MaxVersion
Entry == [tag : 0 .. MaxVersion, sha : Version]  \* tag 0: no ETag is known
Failure == [tag |-> 0, sha |-> 0]

ASSUME FetchAssumption ==
  /\ IsFiniteSet(Path) /\ FrontFiles \in Seq(Path)
  /\ Newest \in [Path -> Version]
  /\ Lists \in [Path -> [Version -> Seq(Path)]]
  /\ Cites \in [Path -> [Version -> SUBSET Path]]
  /\ {MaxVersion, Retries, Batch, Workers} \subseteq Nat \ {0}
  /\ NoEntry \notin Entry \cup {Failure}

(* The collections list files under detail/, where no front file is; only  *)
(* the files under detail/boss bind buffs, which are under detail/maze.    *)
ASSUME LayerAssumption ==
  \A p \in Path, v \in Version :
    /\ ToSet(Lists[p][v]) \cap ToSet(FrontFiles) = {}
    /\ \A q \in Cites[p][v], w \in Version : Cites[q][w] = {}

VARIABLES
  server,   \* the version the server has of each file
  file,     \* the version stored under each path, 0 when there is none
  index,    \* provenance/index.json
  torn,     \* index.json is cut short
  stage,    \* what the process is doing; "off" when none runs
  refresh,  \* it was started with --refresh
  mem,      \* its index
  unsaved,  \* records since its last checkpoint
  saving,   \* it is writing index.json
  queue,    \* the files of this stage it has not begun
  at,       \* per file: "idle", "asking" the server or "done"
  tries,    \* per file: attempts that failed
  got,      \* per file: the result that waits to be recorded
  errors    \* it has reported an error

disk == <<file, index, torn>>
threads == <<queue, at, tries, got>>
book == <<mem, unsaved, saving, errors>>
fetchVars == <<server, disk, stage, refresh, threads, book>>

Nothing == [p \in Path |-> NoEntry]

FetchTypeOK ==
  /\ server \in [Path -> Version]
  /\ file \in [Path -> 0 .. MaxVersion]
  /\ index \in [Path -> Entry \cup {NoEntry}]
  /\ stage \in {"off", "front", "pool", "cited", "close"}
  /\ {torn, refresh, saving, errors} \subseteq BOOLEAN
  /\ mem \in [Path -> Entry \cup {NoEntry}]
  /\ unsaved \in 0 .. Batch
  /\ queue \in Seq(Path)
  /\ at \in [Path -> {"idle", "asking", "done"}]
  /\ tries \in [Path -> 0 .. Retries]
  /\ got \in [Path -> Entry \cup {NoEntry, Failure}]

FetchInit ==
  /\ server = [p \in Path |-> 1]
  /\ file = [p \in Path |-> 0]
  /\ index = Nothing
  /\ torn = FALSE
  /\ stage = "off" /\ refresh = FALSE
  /\ mem = Nothing /\ unsaved = 0 /\ saving = FALSE /\ errors = FALSE
  /\ queue = <<>> /\ at = [p \in Path |-> "idle"]
  /\ tries = [p \in Path |-> 0] /\ got = Nothing

(* The server publishes a new version of p.                                *)
Publish(p) ==
  /\ server[p] < Newest[p]
  /\ server' = [server EXCEPT ![p] = @ + 1]
  /\ UNCHANGED <<disk, stage, refresh, threads, book>>

(* The constructor reads the index, and raises when it is cut short.       *)
Start(r) ==
  /\ stage = "off" /\ ~torn
  /\ stage' = "front" /\ refresh' = r
  /\ mem' = index /\ queue' = FrontFiles
  /\ UNCHANGED <<server, disk, unsaved, saving, errors, at, tries, got>>

(* The process is gone, with all it had in memory.                         *)
Exit ==
  /\ stage' = "off" /\ refresh' = FALSE
  /\ mem' = Nothing /\ unsaved' = 0 /\ saving' = FALSE /\ errors' = FALSE
  /\ queue' = <<>> /\ at' = [p \in Path |-> "idle"]
  /\ tries' = [p \in Path |-> 0] /\ got' = Nothing

(* It dies, or raises out of fetch(): nothing is saved.                    *)
Stop == Exit /\ UNCHANGED <<server, disk>>
Crash == stage # "off" /\ Stop

-----------------------------------------------------------------------------
Busy == {p \in Path : at[p] = "asking"}
AllIdle == \A p \in Path : at[p] = "idle"

(* The pool takes up to Workers files at once; the other stages are loops  *)
(* that record a file before they begin the next one.                      *)
CanBegin ==
  /\ stage \in {"front", "pool", "cited"}
  /\ queue # <<>>
  /\ IF stage = "pool" THEN Cardinality(Busy) < Workers ELSE AllIdle /\ ~saving

(* A buff that is indexed and stored is not asked for again.               *)
Skipped(p) == stage = "cited" /\ mem[p] # NoEntry /\ file[p] # 0

Skip ==
  /\ CanBegin /\ Skipped(Head(queue))
  /\ queue' = Tail(queue)
  /\ UNCHANGED <<server, disk, stage, refresh, at, tries, got, book>>

Taken(p, where, result) ==
  /\ CanBegin /\ p = Head(queue) /\ ~Skipped(p)
  /\ queue' = Tail(queue)
  /\ at' = [at EXCEPT ![p] = where]
  /\ got' = [got EXCEPT ![p] = result]
  /\ UNCHANGED <<server, disk, stage, refresh, tries, book>>

CachedUnchecked(p) ==  \* mutant
  /\ file[p] # 0 /\ mem[p] # NoEntry /\ ~refresh
  /\ Taken(p, "done", [tag |-> mem[p].tag, sha |-> file[p]])

(* Without --refresh a stored file is not fetched: an indexed one must     *)
(* have the hash of its entry, an unindexed one is given an entry.         *)
Cached(p) ==
  /\ file[p] # 0 /\ mem[p] # NoEntry /\ ~refresh
  /\ Taken(p, "done", IF file[p] = mem[p].sha THEN mem[p] ELSE Failure)

Recover(p) ==
  /\ file[p] # 0 /\ mem[p] = NoEntry /\ ~refresh
  /\ Taken(p, "done", [tag |-> 0, sha |-> file[p]])

AskForUnindexed(p) ==  \* mutant
  /\ file[p] = 0 \/ refresh \/ mem[p] = NoEntry
  /\ Taken(p, "asking", NoEntry)

Ask(p) ==
  /\ file[p] = 0 \/ refresh
  /\ Taken(p, "asking", NoEntry)

Answered(p, result) ==
  /\ at[p] = "asking"
  /\ at' = [at EXCEPT ![p] = "done"]
  /\ got' = [got EXCEPT ![p] = result]
  /\ tries' = [tries EXCEPT ![p] = 0]
  /\ UNCHANGED <<server, index, torn, stage, refresh, queue, book>>

(* The ETag of the entry is sent, whether or not the file is still there.  *)
Matches(p) == mem[p] # NoEntry /\ mem[p].tag = server[p]

Served(p) ==
  /\ ~Matches(p)
  /\ file' = [file EXCEPT ![p] = server[p]]
  /\ Answered(p, [tag |-> server[p], sha |-> server[p]])

NotModified(p) ==
  /\ Matches(p)
  /\ Answered(p, IF file[p] # 0 THEN [tag |-> mem[p].tag, sha |-> file[p]] ELSE Failure)
  /\ UNCHANGED file

(* Another HTTP error, or a reply that is not JSON by its content type.    *)
Denied(p) == Answered(p, Failure) /\ UNCHANGED file

RetryForEver(p) ==  \* mutant
  /\ at[p] = "asking"
  /\ tries' = [tries EXCEPT ![p] = (@ + 1) % Retries]
  /\ UNCHANGED <<server, disk, stage, refresh, queue, at, got, book>>

(* A time-out, a lost connection, 429 or 5xx.                              *)
Retry(p) ==
  /\ at[p] = "asking" /\ tries[p] + 1 < Retries
  /\ tries' = [tries EXCEPT ![p] = @ + 1]
  /\ UNCHANGED <<server, disk, stage, refresh, queue, at, got, book>>

GiveUp(p) == tries[p] + 1 = Retries /\ Denied(p)

(* A body that is not JSON raises JSONDecodeError, which fetch() handles   *)
(* for the futures of the pool only.                                       *)
Malformed(p) ==
  /\ at[p] = "asking"
  /\ IF stage = "pool" THEN Denied(p) ELSE Stop

-----------------------------------------------------------------------------
(* The main thread records a result; every Batch-th record makes it write  *)
(* the index, which truncates the file first.                              *)
Record(p) ==
  /\ at[p] = "done" /\ ~saving
  /\ at' = [at EXCEPT ![p] = "idle"]
  /\ got' = [got EXCEPT ![p] = NoEntry]
  /\ IF got[p] = Failure
     THEN errors' = TRUE /\ UNCHANGED <<mem, unsaved, saving, torn>>
     ELSE /\ mem' = [mem EXCEPT ![p] = got[p]]
          /\ unsaved' = unsaved + 1
          /\ saving' = (unsaved + 1 >= Batch)
          /\ torn' = (torn \/ saving')
          /\ UNCHANGED errors
  /\ UNCHANGED <<server, file, index, stage, refresh, queue, tries>>

(* The details the stored collections list, the buffs the stored boss      *)
(* details bind.                                                           *)
ListedBy(p) == IF file[p] = 0 THEN <<>> ELSE Lists[p][file[p]]
CitedBy(p) == IF file[p] = 0 THEN {} ELSE Cites[p][file[p]]
Listed == FlattenSeq([i \in DOMAIN FrontFiles |-> ListedBy(FrontFiles[i])])
Cited == UNION {CitedBy(p) : p \in Path}

StageDone == queue = <<>> /\ AllIdle /\ ~saving

EnterStage(from, to, files) ==
  /\ stage = from /\ StageDone
  /\ stage' = to /\ queue' = files
  /\ UNCHANGED <<server, disk, refresh, at, tries, got, book>>

EnterPool == EnterStage("front", "pool", Listed)
EnterCited == EnterStage("pool", "cited", SetToSeq(Cited))

(* The last checkpoint; with --collections-only it follows the first stage.*)
Close ==
  /\ stage \in {"front", "cited"} /\ StageDone
  /\ stage' = "close" /\ saving' = TRUE /\ torn' = TRUE
  /\ UNCHANGED <<server, file, index, refresh, threads, mem, unsaved, errors>>

(* The index is written in full; after the last checkpoint fetch() reports *)
(* the errors and the process ends.                                        *)
Checkpoint ==
  /\ saving /\ stage # "close"
  /\ index' = mem /\ torn' = FALSE
  /\ saving' = FALSE /\ unsaved' = 0
  /\ UNCHANGED <<server, file, stage, refresh, threads, mem, errors>>

FinishUnsaved ==  \* mutant
  /\ stage = "close"
  /\ torn' = FALSE
  /\ Exit
  /\ UNCHANGED <<server, file, index>>

Finish ==
  /\ stage = "close"
  /\ index' = mem /\ torn' = FALSE
  /\ Exit
  /\ UNCHANGED <<server, file>>

Fetch(p) ==
  \/ Cached(p) \/ Recover(p) \/ Ask(p)
  \/ Served(p) \/ NotModified(p) \/ Denied(p) \/ Retry(p) \/ GiveUp(p) \/ Malformed(p)
  \/ Record(p)

RunStep ==
  \/ \E p \in Path : Fetch(p)
  \/ Skip \/ EnterPool \/ EnterCited \/ Close \/ Checkpoint \/ Finish

FetchNext ==
  \/ RunStep \/ Crash
  \/ \E r \in BOOLEAN : Start(r)
  \/ \E p \in Path : Publish(p)

(* A process that runs goes on: a request ends in an answer or a time-out, *)
(* and nothing waits for anything else.                                    *)
FetchSpec == FetchInit /\ [][FetchNext]_fetchVars /\ WF_fetchVars(RunStep)

-----------------------------------------------------------------------------
(* Provenance is never ahead of the data: every entry, on disk or in       *)
(* memory, is of a file that is stored, and an ETag kept in it is the one  *)
(* the hashed bytes were served with, across crashes, recoveries and       *)
(* conditional requests.                                                   *)
EntriesTruthful ==
  \A p \in Path : \A e \in {index[p], mem[p]} :
    e # NoEntry => file[p] # 0 /\ e.tag \in {0, e.sha}

(* A run without --refresh keeps every raw file it finds, whatever earlier *)
(* processes left behind ("Preserve them ... instead of refetching/        *)
(* overwriting unknown bytes").                                            *)
PlainRunKeepsRaw ==
  [][~refresh => \A p \in Path : file[p] # 0 => file'[p] = file[p]]_fetchVars

(* A run that reports no error has accounted for everything it was asked   *)
(* for: once it is through the details, its index has every front file and *)
(* every listed detail with the hash of the stored bytes, and every bound  *)
(* buff is stored and indexed; what it ends with is what it leaves on disk.*)
CleanRunIsComplete ==
  [][/\ stage = "cited" /\ stage' = "close" /\ ~errors =>
          /\ \A p \in ToSet(FrontFiles) \cup ToSet(Listed) :
               mem[p] # NoEntry /\ mem[p].sha = file[p]
          /\ \A p \in Cited : mem[p] # NoEntry /\ file[p] # 0
     /\ stage = "close" /\ stage' = "off" /\ ~torn' => index' = mem]_fetchVars

(* A process that was started ends, unless it dies first.                  *)
RunEnds == stage # "off" ~> stage = "off"

(* "resumable, and respects cached raw hashes": when no process runs, the  *)
(* next one can start, and no stored file makes it report a local change.  *)
Resumable ==
  stage = "off" =>
    ~torn /\ \A p \in Path : file[p] # 0 /\ index[p] # NoEntry => index[p].sha = file[p]
=============================================================================
