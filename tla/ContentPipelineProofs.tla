---------------------- MODULE ContentPipelineProofs ----------------------
(***************************************************************************)
(* Proofs about the parts of the content pipeline, for every set of files, *)
(* every list a process walks, every number of attempts, every batch, pool *)
(* and history of crashes.                                                 *)
(***************************************************************************)
EXTENDS SnapshotFetch, ExternalFetch, ContentBuild, DataLemmas, TLAPS

-----------------------------------------------------------------------------
(* The raw snapshot fetcher: provenance is truthful, and plain runs keep   *)
(* raw files.                                                              *)

(* The types the argument uses; those of the queue and of the counters are *)
(* not among them.                                                         *)
Typed ==
  /\ server \in [Path -> Version]
  /\ file \in [Path -> 0 .. MaxVersion]
  /\ index \in [Path -> Entry \cup {NoEntry}]
  /\ mem \in [Path -> Entry \cup {NoEntry}]
  /\ got \in [Path -> Entry \cup {NoEntry, Failure}]
  /\ at \in [Path -> {"idle", "asking", "done"}]
  /\ refresh \in BOOLEAN

(* The entry is of bytes no newer than the stored ones, and an ETag in it  *)
(* is theirs.                                                              *)
Good(e, v) == e \in Entry => e.sha <= v /\ e.tag \in {0, e.sha}

(* The server is never behind the stored file, nor the file behind an      *)
(* entry: a conditional request that matches finds the file unchanged.     *)
Monotone ==
  \A p \in Path :
    /\ file[p] <= server[p]
    /\ Good(index[p], file[p]) /\ Good(mem[p], file[p]) /\ Good(got[p], file[p])

(* A run without --refresh asks for missing files only.                    *)
AsksForMissing ==
  /\ stage = "off" => \A p \in Path : at[p] = "idle"
  /\ ~refresh => \A p \in Path : at[p] = "asking" => file[p] = 0

Inv == Typed /\ Monotone /\ AsksForMissing

LEMMA Facts ==
  /\ MaxVersion \in Nat \ {0}
  /\ NoEntry \notin Entry /\ Failure \notin Entry
  /\ \A e \in Entry : e.tag \in 0 .. MaxVersion /\ e.sha \in 1 .. MaxVersion
  /\ \A t \in 0 .. MaxVersion, s \in 1 .. MaxVersion :
       [tag |-> t, sha |-> s] \in Entry
<1>1. MaxVersion \in Nat \ {0} /\ NoEntry \notin Entry
  BY FetchAssumption
<1>2. \A e \in Entry : e.tag \in 0 .. MaxVersion /\ e.sha \in 1 .. MaxVersion
  BY DEF Entry, Version
<1>3. Failure \notin Entry
  <2>1. Failure.sha = 0
    BY DEF Failure
  <2> QED  BY <2>1, <1>1, <1>2
<1>4. \A t \in 0 .. MaxVersion, s \in 1 .. MaxVersion : [tag |-> t, sha |-> s] \in Entry
  BY DEF Entry, Version
<1> QED  BY <1>1, <1>2, <1>3, <1>4

LEMMA InitInv == FetchInit => Inv
<1> SUFFICES ASSUME FetchInit PROVE Inv
  OBVIOUS
<1>1. Typed
  <2>1. 1 \in Version /\ 0 \in 0 .. MaxVersion
    BY Facts DEF Version
  <2>2. server \in [Path -> Version] /\ file \in [Path -> 0 .. MaxVersion]
    BY <2>1 DEF FetchInit
  <2>3. /\ index \in [Path -> Entry \cup {NoEntry}] /\ mem \in [Path -> Entry \cup {NoEntry}]
        /\ got \in [Path -> Entry \cup {NoEntry, Failure}]
    BY Zenon DEF FetchInit, Nothing
  <2> QED  BY <2>2, <2>3 DEF FetchInit, Typed
<1>2. Monotone
  <2>1. \A p \in Path : file[p] = 0 /\ server[p] = 1 /\ index[p] = NoEntry
                       /\ mem[p] = NoEntry /\ got[p] = NoEntry
    BY DEF FetchInit, Nothing
  <2> QED  BY <2>1, Facts DEF Monotone, Good
<1>3. AsksForMissing
  BY DEF FetchInit, AsksForMissing
<1> QED  BY <1>1, <1>2, <1>3 DEF Inv

(* A process that exits leaves the disk alone or saves its index.          *)
LEMMA ExitInv ==
  ASSUME Inv, Exit, UNCHANGED <<server, file>>, index' = index \/ index' = mem
  PROVE Inv'
<1>1. Typed'
  BY DEF Inv, Typed, Exit, Nothing
<1>2. Monotone'
  BY Facts DEF Inv, Monotone, Exit, Nothing, Good, Typed
<1>3. AsksForMissing'
  BY DEF AsksForMissing, Exit
<1> QED  BY <1>1, <1>2, <1>3 DEF Inv

LEMMA TakenInv ==
  ASSUME Inv, NEW p \in Path, NEW where \in {"asking", "done"},
         NEW result \in Entry \cup {NoEntry, Failure}, Taken(p, where, result),
         Good(result, file[p]), where = "asking" /\ ~refresh => file[p] = 0
  PROVE Inv'
<1> USE DEF Taken, disk, book
<1>0. stage # "off" /\ UNCHANGED <<server, file, index, mem, refresh, stage>>
  BY DEF CanBegin
<1>1. Typed'
  BY <1>0 DEF Inv, Typed
<1>2. Monotone'
  BY <1>0 DEF Inv, Monotone, Typed
<1>3. AsksForMissing'
  BY <1>0 DEF Inv, AsksForMissing, Typed
<1> QED  BY <1>1, <1>2, <1>3 DEF Inv

LEMMA AnsweredInv ==
  ASSUME Inv, NEW p \in Path, NEW result \in Entry \cup {NoEntry, Failure},
         Answered(p, result), NEW v \in 0 .. MaxVersion,
         file' = [file EXCEPT ![p] = v], file[p] <= v, v <= server[p], Good(result, v)
  PROVE Inv'
<1> USE DEF Answered, book
<1>0. UNCHANGED <<server, index, mem, refresh, stage>> /\ at[p] = "asking"
  OBVIOUS
<1>1. Typed'
  BY <1>0 DEF Inv, Typed
<1>2. Monotone'
  <2> SUFFICES ASSUME NEW q \in Path
               PROVE /\ file'[q] <= server'[q]
                     /\ Good(index'[q], file'[q]) /\ Good(mem'[q], file'[q])
                     /\ Good(got'[q], file'[q])
    BY DEF Monotone
  <2>1. CASE q = p
    BY <1>0, <2>1, Facts DEF Inv, Monotone, Typed, Good
  <2>2. CASE q # p
    BY <1>0, <2>2 DEF Inv, Monotone, Typed
  <2> QED  BY <2>1, <2>2
<1>3. AsksForMissing'
  BY <1>0 DEF Inv, AsksForMissing, Typed
<1> QED  BY <1>1, <1>2, <1>3 DEF Inv

(* An answer that stores nothing.                                          *)
LEMMA UnstoredInv ==
  ASSUME Inv, NEW p \in Path, NEW result \in Entry \cup {NoEntry, Failure},
         Answered(p, result), UNCHANGED file, Good(result, file[p])
  PROVE Inv'
<1>1. file' = [file EXCEPT ![p] = file[p]] /\ file[p] \in 0 .. MaxVersion
  BY DEF Inv, Typed
<1>2. file[p] <= file[p] /\ file[p] <= server[p]
  BY <1>1, Facts DEF Inv, Monotone
<1> QED  BY <1>1, <1>2, AnsweredInv

LEMMA FetchInv == ASSUME Inv, NEW p \in Path, Fetch(p) PROVE Inv'
<1>0. Good(Failure, file[p]) /\ Good(NoEntry, file[p])
  BY Facts DEF Good
<1>1. CASE Cached(p)
  <2>1. mem[p] \in Entry /\ Good(mem[p], file[p])
    BY <1>1 DEF Cached, Inv, Typed, Monotone
  <2> QED  BY <1>0, <1>1, <2>1, TakenInv DEF Cached
<1>2. CASE Recover(p)
  <2>1. file[p] \in 1 .. MaxVersion
    BY <1>2, Facts DEF Recover, Inv, Typed
  <2>2. [tag |-> 0, sha |-> file[p]] \in Entry
    BY <2>1, Facts
  <2>3. Good([tag |-> 0, sha |-> file[p]], file[p])
    BY <2>1 DEF Good
  <2> QED  BY <1>2, <2>2, <2>3, TakenInv DEF Recover
<1>3. CASE Ask(p)
  BY <1>0, <1>3, TakenInv DEF Ask
<1>4. CASE Served(p)
  <2> DEFINE v == server[p]
  <2>1. v \in 1 .. MaxVersion /\ file[p] <= v /\ v <= server[p]
    BY Facts DEF Inv, Typed, Monotone, Version
  <2>2. [tag |-> v, sha |-> v] \in Entry /\ v \in 0 .. MaxVersion
    BY <2>1, Facts
  <2>3. Good([tag |-> v, sha |-> v], v)
    BY <2>1 DEF Good
  <2>4. Answered(p, [tag |-> v, sha |-> v]) /\ file' = [file EXCEPT ![p] = v]
    BY <1>4 DEF Served
  <2> HIDE DEF v
  <2> QED  BY <2>1, <2>2, <2>3, <2>4, AnsweredInv
<1>5. CASE NotModified(p)
  <2> DEFINE e == [tag |-> mem[p].tag, sha |-> file[p]]
  <2>1. CASE file[p] = 0
    BY <1>0, <1>5, <2>1, UnstoredInv DEF NotModified
  <2>2. CASE file[p] # 0
    <3>1. mem[p] \in Entry /\ mem[p].tag = server[p] /\ server[p] \in 1 .. MaxVersion
      BY <1>5 DEF NotModified, Matches, Inv, Typed, Version
    <3>2. mem[p].sha <= file[p] /\ mem[p].tag = mem[p].sha /\ file[p] <= server[p]
      BY <3>1, Facts DEF Inv, Monotone, Good
    <3>3. file[p] \in 0 .. MaxVersion /\ mem[p].sha \in 1 .. MaxVersion
      BY <3>1, Facts DEF Inv, Typed
    <3>4. file[p] = mem[p].tag /\ file[p] \in 1 .. MaxVersion
      BY <3>1, <3>2, <3>3, <2>2, Facts
    <3>5. e \in Entry /\ Good(e, file[p])
      BY <3>4, Facts DEF Good
    <3>6. Answered(p, e) /\ UNCHANGED file
      BY <1>5, <2>2 DEF NotModified
    <3> HIDE DEF e
    <3> QED  BY <3>5, <3>6, UnstoredInv
  <2> QED  BY <2>1, <2>2
<1>6. CASE Denied(p) \/ GiveUp(p)
  BY <1>0, <1>6, UnstoredInv DEF Denied, GiveUp
<1>7. CASE Retry(p)
  BY <1>7 DEF Retry, disk, book, Inv, Typed, Monotone, AsksForMissing
<1>8. CASE Malformed(p)
  <2>1. CASE stage = "pool"
    BY <1>0, <1>8, <2>1, UnstoredInv DEF Malformed, Denied
  <2>2. CASE stage # "pool"
    BY <1>8, <2>2, ExitInv DEF Malformed, Stop, disk
  <2> QED  BY <2>1, <2>2
<1>9. CASE Record(p)
  <2>1. UNCHANGED <<server, file, index, stage, refresh>>
    BY <1>9 DEF Record
  <2>2. mem' = mem \/ (got[p] # Failure /\ mem' = [mem EXCEPT ![p] = got[p]])
    BY <1>9 DEF Record
  <2>3. /\ at' = [at EXCEPT ![p] = "idle"]
        /\ got' = [got EXCEPT ![p] = NoEntry]
    BY <1>9 DEF Record
  <2>4. Typed'
    BY <2>1, <2>2, <2>3 DEF Inv, Typed
  <2>5. Monotone'
    BY <1>0, <2>1, <2>2, <2>3 DEF Inv, Typed, Monotone
  <2>6. AsksForMissing'
    BY <2>1, <2>3 DEF Inv, Typed, AsksForMissing
  <2> QED  BY <2>4, <2>5, <2>6 DEF Inv
<1> QED  BY <1>1, <1>2, <1>3, <1>4, <1>5, <1>6, <1>7, <1>8, <1>9 DEF Fetch

LEMMA StepInv == Inv /\ [FetchNext]_fetchVars => Inv'
<1> SUFFICES ASSUME Inv, [FetchNext]_fetchVars PROVE Inv'
  OBVIOUS
<1> USE DEF disk, threads, book
<1>1. CASE \E p \in Path : Fetch(p)
  BY <1>1, FetchInv
<1>2. CASE Skip
  BY <1>2 DEF Skip, Inv, Typed, Monotone, AsksForMissing
<1>3. CASE EnterPool \/ EnterCited
  <2>1. UNCHANGED <<server, file, index, refresh, at, got, mem>> /\ stage # "off"
    BY <1>3 DEF EnterPool, EnterCited, EnterStage
  <2>2. stage' # "off"
    BY <1>3 DEF EnterPool, EnterCited, EnterStage
  <2> QED  BY <2>1, <2>2 DEF Inv, Typed, Monotone, AsksForMissing
<1>4. CASE Close
  BY <1>4 DEF Close, Inv, Typed, Monotone, AsksForMissing
<1>5. CASE Checkpoint
  <2>1. UNCHANGED <<server, file, stage, refresh, at, got, mem>> /\ index' = mem
    BY <1>5 DEF Checkpoint
  <2> QED  BY <2>1 DEF Inv, Typed, Monotone, AsksForMissing
<1>6. CASE Finish
  BY <1>6, ExitInv DEF Finish
<1>7. CASE Crash
  BY <1>7, ExitInv DEF Crash, Stop
<1>8. CASE \E r \in BOOLEAN : Start(r)
  <2> PICK r \in BOOLEAN : Start(r)
    BY <1>8
  <2>1. UNCHANGED <<server, file, index, at, got>> /\ mem' = index /\ refresh' = r
    BY DEF Start
  <2>2. stage = "off" /\ stage' = "front"
    BY DEF Start
  <2> QED  BY <2>1, <2>2 DEF Inv, Typed, Monotone, AsksForMissing
<1>9. CASE \E p \in Path : Publish(p)
  <2> PICK p \in Path : Publish(p)
    BY <1>9
  <2>0. UNCHANGED <<file, index, mem, at, got, stage, refresh>>
    BY DEF Publish
  <2>1. server[p] \in 1 .. MaxVersion /\ Newest[p] \in 1 .. MaxVersion
    BY FetchAssumption DEF Inv, Typed, Version
  <2>2. server[p] + 1 \in 1 .. MaxVersion
    BY <2>1, Facts DEF Publish
  <2>3. server' = [server EXCEPT ![p] = server[p] + 1]
    BY DEF Publish
  <2>4. Typed' /\ AsksForMissing'
    BY <2>0, <2>2, <2>3 DEF Inv, Typed, AsksForMissing, Version
  <2>5. Monotone'
    <3> SUFFICES ASSUME NEW q \in Path PROVE file[q] <= server'[q]
      BY <2>0 DEF Inv, Monotone
    <3>1. file[q] <= server[q] /\ file[q] \in 0 .. MaxVersion /\ server[q] \in 1 .. MaxVersion
      BY DEF Inv, Monotone, Typed, Version
    <3> QED  BY <3>1, <2>3, Facts DEF Inv, Typed
  <2> QED  BY <2>4, <2>5 DEF Inv
<1>10. CASE UNCHANGED fetchVars
  BY <1>10 DEF fetchVars, Inv, Typed, Monotone, AsksForMissing
<1> QED  BY <1>1, <1>2, <1>3, <1>4, <1>5, <1>6, <1>7, <1>8, <1>9, <1>10 DEF FetchNext, RunStep

LEMMA AlwaysInv == FetchSpec => []Inv
  BY InitInv, StepInv, PTL DEF FetchSpec

-----------------------------------------------------------------------------
(* Every entry, in memory or on disk, is of a file that is stored, and an  *)
(* ETag kept in it is the one its bytes were served with.                  *)
THEOREM EntriesAreTruthful == FetchSpec => []EntriesTruthful
<1>1. Inv => EntriesTruthful
  <2> SUFFICES ASSUME Inv, NEW p \in Path, NEW e \in {index[p], mem[p]}, e # NoEntry
               PROVE file[p] # 0 /\ e.tag \in {0, e.sha}
    BY DEF EntriesTruthful
  <2>1. e \in Entry /\ e.sha <= file[p] /\ e.tag \in {0, e.sha}
    BY DEF Inv, Typed, Monotone, Good
  <2>2. e.sha \in 1 .. MaxVersion /\ file[p] \in 0 .. MaxVersion
    BY <2>1, Facts DEF Inv, Typed
  <2> QED  BY <2>1, <2>2, Facts
<1> QED  BY <1>1, AlwaysInv, PTL

(* A run without --refresh never changes a raw file it finds, whatever     *)
(* the runs and crashes before it left on disk.                            *)
THEOREM PlainRunsKeepRawFiles == FetchSpec => PlainRunKeepsRaw
<1>1. Inv /\ [FetchNext]_fetchVars =>
        [~refresh => \A p \in Path : file[p] # 0 => file'[p] = file[p]]_fetchVars
  <2> SUFFICES ASSUME Inv, [FetchNext]_fetchVars, ~refresh,
                      NEW q \in Path, file[q] # 0
               PROVE file'[q] = file[q]
    OBVIOUS
  <2> USE DEF disk, threads, book
  <2>1. CASE \E p \in Path : Served(p)
    <3> PICK p \in Path : Served(p)
      BY <2>1
    <3>1. at[p] = "asking"
      BY DEF Served, Answered
    <3>2. p # q
      BY <3>1 DEF Inv, AsksForMissing
    <3> QED  BY <3>2 DEF Served, Inv, Typed
  <2>2. CASE ~ \E p \in Path : Served(p)
    <3>1. UNCHANGED file
      <4>1. \A p \in Path : Fetch(p) /\ ~Served(p) => UNCHANGED file
        BY DEF Fetch, Cached, Recover, Ask, Taken, NotModified, Denied, Retry, GiveUp,
               Malformed, Stop, Record
      <4>2. (Skip \/ EnterPool \/ EnterCited \/ Close \/ Checkpoint \/ Finish \/ Crash)
              => UNCHANGED file
        BY DEF Skip, EnterPool, EnterCited, EnterStage, Close, Checkpoint, Finish, Crash, Stop
      <4>3. (\E r \in BOOLEAN : Start(r)) \/ (\E p \in Path : Publish(p)) => UNCHANGED file
        BY DEF Start, Publish
      <4> QED  BY <2>2, <4>1, <4>2, <4>3 DEF FetchNext, RunStep, fetchVars
    <3> QED  BY <3>1
  <2> QED  BY <2>1, <2>2
<1> QED  BY <1>1, AlwaysInv, PTL DEF FetchSpec, PlainRunKeepsRaw

-----------------------------------------------------------------------------
(* A run that reports no error is complete.  What the process has yet to   *)
(* do is in its queue or with a thread; while it has reported no error,    *)
(* whatever it was asked for and is not there is yet to be done.           *)
Fronts == ToSet(FrontFiles)
Pending(p) == p \in ToSet(queue) \/ at[p] # "idle"
Kept(p) == mem[p] # NoEntry /\ mem[p].sha = file[p]
Bound(p) == mem[p] # NoEntry /\ file[p] # 0

ResultsAreTrue ==
  \A p \in Path : at[p] = "done" => got[p] = Failure \/ (got[p] \in Entry /\ got[p].sha = file[p])

FrontsAreKept == \A p \in Fronts : Kept(p) /\ ~Pending(p)
FrontAccounted == \A p \in Fronts : Pending(p) \/ Kept(p)
PoolAccounted == FrontsAreKept /\ \A p \in ToSet(Listed) : Pending(p) \/ Kept(p)
CitedAccounted ==
  /\ \A p \in Fronts \cup ToSet(Listed) : Kept(p) /\ at[p] = "idle"
  /\ \A p \in Cited : Pending(p) \/ Bound(p)
  /\ \A p \in Path : Pending(p) => p \in Cited

Accounted ==
  ~errors => /\ stage = "front" => FrontAccounted
             /\ stage = "pool" => PoolAccounted
             /\ stage = "cited" => CitedAccounted

Complete ==
  /\ queue \in Seq(Path)
  /\ stage \in {"off", "front", "pool", "cited", "close"}
  /\ stage = "off" => queue = <<>>
  /\ stage = "close" => torn /\ AllIdle
  /\ ResultsAreTrue
  /\ Accounted

(* The listed files are not front files; those of a whole stage are lists. *)
LEMMA ListedApart == ASSUME Inv PROVE Listed \in Seq(Path \ Fronts)
<1> DEFINE S == Path \ Fronts
           n == Len(FrontFiles)
           parts == [i \in DOMAIN FrontFiles |-> ListedBy(FrontFiles[i])]
<1>1. n \in Nat /\ DOMAIN FrontFiles = 1 .. n /\ \A i \in 1 .. n : FrontFiles[i] \in Path
  BY FetchAssumption
<1>2. ASSUME NEW p \in Path PROVE ListedBy(p) \in Seq(S)
  <2>1. <<>> \in Seq(S)
    OBVIOUS
  <2>2. ASSUME file[p] # 0 PROVE Lists[p][file[p]] \in Seq(S)
    <3>1. file[p] \in Version
      BY <2>2, Facts DEF Inv, Typed, Version
    <3>2. Lists[p][file[p]] \in Seq(Path) /\ ToSet(Lists[p][file[p]]) \cap Fronts = {}
      BY <3>1, FetchAssumption, LayerAssumption DEF Fronts
    <3> QED
      BY <3>2 DEF ToSet
  <2> QED
    BY <2>1, <2>2 DEF ListedBy
<1>3. parts = [i \in 1 .. n |-> parts[i]] /\ \A i \in 1 .. n : parts[i] \in Seq(S)
  BY <1>1, <1>2
<1> HIDE DEF parts, S
<1>4. parts \in Seq(Seq(S))
  BY <1>1, <1>3, IndexedIsSeq
<1> QED
  BY <1>4, FlattenIsSeq DEF Listed, parts, S

LEMMA CitedFinite == ASSUME Inv PROVE Cited \in SUBSET Path /\ IsFiniteSet(Cited)
<1>1. ASSUME NEW p \in Path PROVE CitedBy(p) \in SUBSET Path
  <2>1. CASE file[p] = 0
    BY <2>1 DEF CitedBy
  <2>2. CASE file[p] # 0
    <3>1. file[p] \in Version
      BY <2>2, Facts DEF Inv, Typed, Version
    <3> QED
      BY <2>2, <3>1, FetchAssumption DEF CitedBy
  <2> QED
    BY <2>1, <2>2
<1>2. Cited \in SUBSET Path
  BY <1>1 DEF Cited
<1> QED
  BY <1>2, FetchAssumption, FS_Subset

(* What is listed and cited depends on the stored files only.              *)
LEMMA SameFilesSameLists == UNCHANGED file => Listed' = Listed /\ Cited' = Cited
BY DEF Listed, ListedBy, Cited, CitedBy

LEMMA FrontsDecideListed ==
  ASSUME \A p \in Fronts : file'[p] = file[p]
  PROVE  Listed' = Listed
<1>1. \A i \in DOMAIN FrontFiles : ListedBy(FrontFiles[i])' = ListedBy(FrontFiles[i])
  BY DEF Fronts, ToSet, ListedBy
<1>2. [i \in DOMAIN FrontFiles |-> ListedBy(FrontFiles[i])]'
        = [i \in DOMAIN FrontFiles |-> ListedBy(FrontFiles[i])]
  BY <1>1
<1> QED
  BY <1>2 DEF Listed

(* A cited file cites nothing, whichever version of it is stored.          *)
LEMMA CitedCiteNothing ==
  ASSUME Inv, NEW p \in Cited, NEW w \in 0 .. MaxVersion
  PROVE  w # 0 => Cites[p][w] = {}
<1>1. PICK q \in Path : p \in CitedBy(q)
  BY DEF Cited
<1>2. file[q] \in Version /\ p \in Cites[q][file[q]]
  BY <1>1, Facts DEF CitedBy, Inv, Typed, Version
<1> QED
  BY <1>2, LayerAssumption, Facts DEF Version

(* An entry that is kept is of a stored file, so it is not asked for again.*)
LEMMA KeptAreBound == ASSUME Inv, NEW p \in Path, Kept(p) PROVE Bound(p)
<1>1. mem[p] \in Entry
  BY DEF Kept, Inv, Typed
<1>2. mem[p].sha \in 1 .. MaxVersion
  BY <1>1, Facts
<1> QED
  BY <1>2, Facts DEF Kept, Bound

LEMMA FrontsArePaths == Fronts \subseteq Path
BY FetchAssumption DEF Fronts, ToSet

LEMMA ListedArePaths == ASSUME Inv PROVE ToSet(Listed) \subseteq Path \ Fronts
BY ListedApart DEF ToSet

-----------------------------------------------------------------------------
(* A file that is taken from the queue is with a thread; none is lost.     *)
LEMMA TakenKeepsAccount ==
  ASSUME Inv, Complete, NEW p \in Path, NEW where \in {"asking", "done"}, NEW result,
         Taken(p, where, result),
         where = "done" => result = Failure \/ (result \in Entry /\ result.sha = file[p])
  PROVE  Complete'
<1> USE DEF disk, book
<1>1. /\ queue # <<>> /\ p = Head(queue) /\ queue' = Tail(queue) /\ ~Skipped(p)
      /\ stage \in {"front", "pool", "cited"} /\ UNCHANGED <<file, mem, stage, errors, torn>>
      /\ at' = [at EXCEPT ![p] = where] /\ got' = [got EXCEPT ![p] = result]
  BY DEF Taken, CanBegin
<1>2. queue' \in Seq(Path) /\ ToSet(queue) = {p} \cup ToSet(queue')
  BY <1>1, TailKeepsRest DEF Complete
<1>3. at \in [Path -> {"idle", "asking", "done"}] /\ got \in [Path -> Entry \cup {NoEntry, Failure}]
  BY DEF Inv, Typed
<1>4. \A q \in Path : Pending(q)' <=> Pending(q)
  BY <1>1, <1>2, <1>3 DEF Pending
<1>5. \A q \in Path : Kept(q)' <=> Kept(q)
  BY <1>1 DEF Kept
<1>6. \A q \in Path : Bound(q)' <=> Bound(q)
  BY <1>1 DEF Bound
<1>7. Listed' = Listed /\ Cited' = Cited
  BY <1>1, SameFilesSameLists
<1>8. ResultsAreTrue'
  BY <1>1, <1>3 DEF Complete, ResultsAreTrue
<1>9. Fronts \subseteq Path /\ ToSet(Listed) \subseteq Path /\ Cited \subseteq Path
  BY FrontsArePaths, ListedArePaths, CitedFinite
<1>10. ASSUME ~errors' PROVE /\ stage' = "front" => FrontAccounted'
                             /\ stage' = "pool" => PoolAccounted'
                             /\ stage' = "cited" => CitedAccounted'
  <2>1. CASE stage = "front"
    BY <1>1, <1>4, <1>5, <1>9, <1>10, <2>1 DEF Complete, Accounted, FrontAccounted
  <2>2. CASE stage = "pool"
    BY <1>1, <1>4, <1>5, <1>7, <1>9, <1>10, <2>2
    DEF Complete, Accounted, PoolAccounted, FrontsAreKept
  <2>3. CASE stage = "cited"
    <3>1. CitedAccounted
      BY <1>1, <1>10, <2>3 DEF Complete, Accounted
    <3>3. ASSUME NEW q \in Fronts \cup ToSet(Listed) PROVE Kept(q)' /\ at'[q] = "idle"
      <4>1. Kept(q) /\ at[q] = "idle" /\ q \in Path
        BY <1>9, <3>1 DEF CitedAccounted
      <4>2. q # p
        BY <1>1, <2>3, <4>1, KeptAreBound DEF Skipped, Bound
      <4> QED
        BY <1>1, <1>3, <1>5, <4>1, <4>2
    <3>4. \A q \in Cited : Pending(q)' \/ Bound(q)'
      BY <1>4, <1>6, <1>9, <3>1 DEF CitedAccounted
    <3>5. \A q \in Path : Pending(q)' => q \in Cited
      BY <1>4, <3>1 DEF CitedAccounted
    <3> QED
      BY <1>1, <1>7, <2>3, <3>3, <3>4, <3>5 DEF CitedAccounted
  <2> QED
    BY <1>1, <2>1, <2>2, <2>3
<1>11. Accounted'
  BY <1>10 DEF Accounted
<1> QED
  BY <1>1, <1>2, <1>8, <1>11 DEF Complete

(* An answer may change the file of the thread that has it: no front file, *)
(* no file of the details before it and no boss detail is with a thread    *)
(* when what it lists or cites is counted.                                 *)
LEMMA AnsweredKeepsAccount ==
  ASSUME Inv, Complete, NEW p \in Path, NEW result, Answered(p, result),
         NEW v \in 0 .. MaxVersion, file' = [file EXCEPT ![p] = v],
         result = Failure \/ (result \in Entry /\ result.sha = v)
  PROVE  Complete'
<1> USE DEF book
<1>1. /\ at[p] = "asking" /\ at' = [at EXCEPT ![p] = "done"] /\ got' = [got EXCEPT ![p] = result]
      /\ UNCHANGED <<queue, mem, stage, errors, torn>>
  BY DEF Answered
<1>2. /\ at \in [Path -> {"idle", "asking", "done"}]
      /\ got \in [Path -> Entry \cup {NoEntry, Failure}]
      /\ file \in [Path -> 0 .. MaxVersion]
  BY DEF Inv, Typed
<1>3. Pending(p) /\ \A q \in Path : Pending(q)' <=> Pending(q)
  BY <1>1, <1>2 DEF Pending
<1>4. \A q \in Path \ {p} : file'[q] = file[q] /\ (Kept(q)' <=> Kept(q)) /\ (Bound(q)' <=> Bound(q))
  BY <1>1, <1>2 DEF Kept, Bound
<1>5. Fronts \subseteq Path /\ ToSet(Listed) \subseteq Path /\ Cited \subseteq Path
  BY FrontsArePaths, ListedArePaths, CitedFinite
<1>6. stage \notin {"off", "close"}
  BY <1>1 DEF Inv, AsksForMissing, Complete, AllIdle
<1>7. ResultsAreTrue'
  <2>1. file'[p] = v
    BY <1>2
  <2> QED
    BY <1>1, <1>2, <1>4, <2>1 DEF Complete, ResultsAreTrue
<1>8. ASSUME ~errors', stage = "front" PROVE FrontAccounted'
  BY <1>1, <1>3, <1>4, <1>5, <1>8 DEF Complete, Accounted, FrontAccounted
<1>9. ASSUME p \notin Fronts PROVE Listed' = Listed
  BY <1>4, <1>5, <1>9, FrontsDecideListed
<1>10. ASSUME ~errors', stage = "pool" PROVE PoolAccounted'
  <2>1. PoolAccounted
    BY <1>1, <1>10 DEF Complete, Accounted
  <2>2. FrontsAreKept' /\ Listed' = Listed
    BY <1>3, <1>4, <1>5, <1>9, <2>1 DEF PoolAccounted, FrontsAreKept
  <2>3. \A q \in ToSet(Listed) : Pending(q)' \/ Kept(q)'
    BY <1>3, <1>4, <1>5, <2>1 DEF PoolAccounted
  <2> QED
    BY <2>2, <2>3 DEF PoolAccounted
<1>11. ASSUME ~errors', stage = "cited" PROVE CitedAccounted'
  <2>1. CitedAccounted
    BY <1>1, <1>11 DEF Complete, Accounted
  <2>2. p \notin Fronts \cup ToSet(Listed)
    BY <1>1, <2>1 DEF CitedAccounted
  <2>3. Cited' = Cited
    <3>1. p \in Cited
      BY <1>3, <2>1 DEF CitedAccounted
    <3>2. CitedBy(p) = {} /\ CitedBy(p)' = {}
      BY <1>2, <3>1, CitedCiteNothing DEF CitedBy
    <3>3. \A q \in Path : CitedBy(q)' = CitedBy(q)
      BY <1>4, <3>2 DEF CitedBy
    <3> QED
      BY <3>3 DEF Cited
  <2>4. \A q \in Fronts \cup ToSet(Listed) : Kept(q)' /\ at'[q] = "idle"
    BY <1>1, <1>2, <1>4, <1>5, <2>1, <2>2 DEF CitedAccounted
  <2>5. \A q \in Cited : Pending(q)' \/ Bound(q)'
    BY <1>3, <1>4, <1>5, <2>1 DEF CitedAccounted
  <2>6. \A q \in Path : Pending(q)' => q \in Cited
    BY <1>3, <2>1 DEF CitedAccounted
  <2> QED
    BY <1>9, <2>2, <2>3, <2>4, <2>5, <2>6 DEF CitedAccounted
<1>12. Accounted'
  BY <1>1, <1>8, <1>10, <1>11 DEF Accounted
<1> QED
  BY <1>1, <1>6, <1>7, <1>12 DEF Complete

(* A result that is recorded is kept, or an error.                         *)
LEMMA RecordKeepsAccount ==
  ASSUME Inv, Complete, NEW p \in Path, Record(p)
  PROVE  Complete'
<1>1. /\ at[p] = "done" /\ at' = [at EXCEPT ![p] = "idle"] /\ got' = [got EXCEPT ![p] = NoEntry]
      /\ UNCHANGED <<queue, file, stage>>
  BY DEF Record
<1>2. /\ at \in [Path -> {"idle", "asking", "done"}]
      /\ got \in [Path -> Entry \cup {NoEntry, Failure}]
      /\ mem \in [Path -> Entry \cup {NoEntry}]
  BY DEF Inv, Typed
<1>3. stage \notin {"off", "close"}
  BY <1>1 DEF Inv, AsksForMissing, Complete, AllIdle
<1>4. ResultsAreTrue'
  BY <1>1, <1>2 DEF Complete, ResultsAreTrue
<1>5. Accounted'
  <2> SUFFICES ASSUME ~errors'
               PROVE  /\ stage = "front" => FrontAccounted'
                      /\ stage = "pool" => PoolAccounted'
                      /\ stage = "cited" => CitedAccounted'
    BY <1>1 DEF Accounted
  <2>1. got[p] # Failure /\ mem' = [mem EXCEPT ![p] = got[p]] /\ ~errors
    BY DEF Record
  <2>2. mem'[p] \in Entry /\ mem'[p].sha = file[p]
    BY <1>1, <1>2, <2>1 DEF Complete, ResultsAreTrue
  <2>3. Kept(p)' /\ Bound(p)'
    <3>1. file[p] \in 1 .. MaxVersion
      BY <2>2, Facts
    <3> QED
      BY <1>1, <2>2, <3>1, Facts DEF Kept, Bound
  <2>4. \A q \in Path \ {p} : (Kept(q)' <=> Kept(q)) /\ (Bound(q)' <=> Bound(q))
    BY <1>1, <1>2, <2>1 DEF Kept, Bound
  <2>5. /\ \A q \in Path : Pending(q)' => Pending(q)
        /\ \A q \in Path \ {p} : Pending(q)' <=> Pending(q)
    BY <1>1, <1>2 DEF Pending
  <2>6. Listed' = Listed /\ Cited' = Cited
    BY <1>1, SameFilesSameLists
  <2>7. Fronts \subseteq Path /\ ToSet(Listed) \subseteq Path /\ Cited \subseteq Path
    BY FrontsArePaths, ListedArePaths, CitedFinite
  <2>8. FrontsAreKept => FrontsAreKept'
    BY <2>3, <2>4, <2>5, <2>7 DEF FrontsAreKept
  <2>9. CASE stage = "front"
    BY <2>1, <2>3, <2>4, <2>5, <2>7, <2>9 DEF Complete, Accounted, FrontAccounted
  <2>10. CASE stage = "pool"
    BY <2>1, <2>3, <2>4, <2>5, <2>6, <2>7, <2>8, <2>10 DEF Complete, Accounted, PoolAccounted
  <2>11. CASE stage = "cited"
    <3>1. CitedAccounted
      BY <2>1, <2>11 DEF Complete, Accounted
    <3>2. \A q \in Fronts \cup ToSet(Listed) : Kept(q)' /\ at'[q] = "idle"
      BY <1>1, <1>2, <2>3, <2>4, <2>7, <3>1 DEF CitedAccounted
    <3>3. \A q \in Cited : Pending(q)' \/ Bound(q)'
      BY <2>3, <2>4, <2>5, <2>7, <3>1 DEF CitedAccounted
    <3>4. \A q \in Path : Pending(q)' => q \in Cited
      BY <2>5, <3>1 DEF CitedAccounted
    <3> QED
      BY <2>6, <2>11, <3>1, <3>2, <3>3, <3>4 DEF CitedAccounted
  <2> QED
    BY <1>3, <2>9, <2>10, <2>11
<1> QED
  BY <1>1, <1>3, <1>4, <1>5 DEF Complete

(* A process that is gone owes nothing.                                    *)
LEMMA ExitKeepsAccount == ASSUME Inv, Exit PROVE Complete'
<1>1. queue' = <<>> /\ stage' = "off" /\ at' = [p \in Path |-> "idle"]
  BY DEF Exit
<1>2. <<>> \in Seq(Path)
  OBVIOUS
<1> QED
  BY <1>1, <1>2 DEF Complete, ResultsAreTrue, Accounted

(* The steps that change neither a file nor an entry, a thread or an error:*)
(* a stage is entered when all that the one before was asked for is there. *)
LEMMA StageKeepsAccount ==
  ASSUME Inv, Complete, EnterPool \/ EnterCited \/ Close \/ (\E r \in BOOLEAN : Start(r))
  PROVE  Complete'
<1>1. UNCHANGED <<file, at, got>>
  BY DEF EnterPool, EnterCited, EnterStage, Close, Start, disk, threads
<1>2. AllIdle
  BY DEF EnterPool, EnterCited, EnterStage, Close, Start, StageDone, Inv, AsksForMissing, AllIdle
<1>3. ResultsAreTrue'
  BY <1>1, <1>2 DEF AllIdle, ResultsAreTrue
<1>4. Listed' = Listed /\ Cited' = Cited
  BY <1>1, SameFilesSameLists
<1>5. Fronts \subseteq Path /\ ToSet(Listed) \subseteq Path \ Fronts /\ Cited \subseteq Path
  BY FrontsArePaths, ListedArePaths, CitedFinite
<1>6. CASE \E r \in BOOLEAN : Start(r)
  <2>1. stage' = "front" /\ queue' = FrontFiles
    BY <1>6 DEF Start
  <2>2. Accounted'
    BY <2>1 DEF Accounted, FrontAccounted, Pending, Fronts
  <2> QED
    BY <1>3, <2>1, <2>2, FetchAssumption DEF Complete
<1>7. CASE EnterPool
  <2>1. /\ stage = "front" /\ queue = <<>> /\ stage' = "pool" /\ queue' = Listed
        /\ UNCHANGED <<mem, errors, torn>>
    BY <1>7 DEF EnterPool, EnterStage, StageDone, book, disk
  <2>2. \A p \in Path : ~Pending(p)
    BY <1>2, <2>1 DEF Pending, AllIdle, ToSet
  <2>3. ASSUME ~errors' PROVE PoolAccounted'
    <3>1. FrontAccounted
      BY <2>1, <2>3 DEF Complete, Accounted
    <3>2. \A p \in Fronts : Kept(p)'
      BY <1>1, <1>5, <2>1, <2>2, <3>1 DEF FrontAccounted, Kept
    <3>3. \A p \in Fronts : ~Pending(p)'
      BY <1>1, <1>2, <1>5, <2>1 DEF Pending, AllIdle
    <3>4. \A p \in ToSet(Listed) : Pending(p)'
      BY <2>1 DEF Pending
    <3> QED
      BY <1>4, <3>2, <3>3, <3>4 DEF PoolAccounted, FrontsAreKept
  <2>4. queue' \in Seq(Path)
    BY <2>1, ListedApart
  <2> QED
    BY <1>3, <2>1, <2>3, <2>4 DEF Complete, Accounted
<1>8. CASE EnterCited
  <2>1. /\ stage = "pool" /\ queue = <<>> /\ stage' = "cited" /\ queue' = SetToSeq(Cited)
        /\ UNCHANGED <<mem, errors, torn>>
    BY <1>8 DEF EnterCited, EnterStage, StageDone, book, disk
  <2>2. \A p \in Path : ~Pending(p)
    BY <1>2, <2>1 DEF Pending, AllIdle, ToSet
  <2>3. queue' \in Seq(Path) /\ ToSet(queue') = Cited
    <3>1. queue' \in Seq(Cited) /\ ToSet(queue') = Cited
      BY <2>1, CitedFinite, SetToSeqLists
    <3> QED
      BY <1>5, <3>1
  <2>4. ASSUME ~errors' PROVE CitedAccounted'
    <3>1. PoolAccounted
      BY <2>1, <2>4 DEF Complete, Accounted
    <3>2. \A p \in Path : Kept(p)' <=> Kept(p)
      BY <1>1, <2>1 DEF Kept
    <3>3. \A p \in Path : Pending(p)' <=> p \in Cited
      BY <1>1, <1>2, <2>3 DEF Pending, AllIdle
    <3>4. \A p \in Fronts \cup ToSet(Listed) : Kept(p)' /\ at'[p] = "idle"
      BY <1>1, <1>2, <1>5, <2>2, <3>1, <3>2 DEF PoolAccounted, FrontsAreKept, AllIdle
    <3> QED
      BY <1>4, <1>5, <3>3, <3>4 DEF CitedAccounted
  <2> QED
    BY <1>3, <2>1, <2>3, <2>4 DEF Complete, Accounted
<1>9. CASE Close
  <2>1. stage' = "close" /\ torn' /\ UNCHANGED queue
    BY <1>9 DEF Close, threads
  <2> QED
    BY <1>1, <1>2, <1>3, <2>1 DEF Complete, Accounted, AllIdle
<1> QED
  BY <1>6, <1>7, <1>8, <1>9

(* Nor does a step that leaves all of it alone.                            *)
LEMMA SameIsComplete ==
  ASSUME Complete, UNCHANGED <<queue, at, file, got, mem, stage, errors>>,
         stage = "close" => UNCHANGED torn
  PROVE  Complete'
<1>1. Listed' = Listed /\ Cited' = Cited
  BY SameFilesSameLists
<1>2. Accounted'
  BY <1>1 DEF Complete, Accounted, FrontAccounted, PoolAccounted, CitedAccounted, FrontsAreKept,
              Pending, Kept, Bound
<1>3. ResultsAreTrue'
  BY DEF Complete, ResultsAreTrue
<1> QED
  BY <1>2, <1>3 DEF Complete, AllIdle

(* A buff that is skipped is there.                                        *)
LEMMA SkipKeepsAccount == ASSUME Inv, Complete, Skip PROVE Complete'
<1>1. /\ queue # <<>> /\ queue' = Tail(queue) /\ Skipped(Head(queue))
      /\ UNCHANGED <<at, file, got, mem, stage, errors, torn>>
  BY DEF Skip, CanBegin, disk, book
<1>2. queue' \in Seq(Path) /\ ToSet(queue) = {Head(queue)} \cup ToSet(queue')
  BY <1>1, TailKeepsRest DEF Complete
<1>3. stage = "cited" /\ Bound(Head(queue))
  BY <1>1 DEF Skipped, Bound
<1>4. Listed' = Listed /\ Cited' = Cited
  BY <1>1, SameFilesSameLists
<1>5. ASSUME ~errors' PROVE CitedAccounted'
  <2>1. CitedAccounted
    BY <1>1, <1>3, <1>5 DEF Complete, Accounted
  <2>2. \A p \in Cited : Pending(p)' \/ Bound(p)'
    BY <1>1, <1>2, <1>3, <2>1 DEF CitedAccounted, Pending, Bound
  <2>3. \A p \in Path : Pending(p)' => p \in Cited
    BY <1>1, <1>2, <2>1 DEF CitedAccounted, Pending
  <2>4. \A p \in Fronts \cup ToSet(Listed) : Kept(p)' /\ at'[p] = "idle"
    BY <1>1, <2>1 DEF CitedAccounted, Kept
  <2> QED
    BY <1>4, <2>2, <2>3, <2>4 DEF CitedAccounted
<1>6. Accounted'
  BY <1>1, <1>3, <1>5 DEF Accounted
<1>7. ResultsAreTrue'
  BY <1>1 DEF Complete, ResultsAreTrue
<1> QED
  BY <1>1, <1>2, <1>3, <1>6, <1>7 DEF Complete

LEMMA StepKeepsAccount == Inv /\ Complete /\ [FetchNext]_fetchVars => Complete'
<1> SUFFICES ASSUME Inv, Complete, [FetchNext]_fetchVars PROVE Complete'
  OBVIOUS
<1> USE DEF disk, threads, book
<1>1. ASSUME NEW p \in Path, Fetch(p) PROVE Complete'
  <2>0. file[p] \in 0 .. MaxVersion /\ file = [file EXCEPT ![p] = file[p]]
    BY DEF Inv, Typed
  <2>1. CASE Cached(p)
    <3>1. mem[p] \in Entry
      BY <2>1 DEF Cached, Inv, Typed
    <3> QED
      BY <2>1, <3>1, TakenKeepsAccount DEF Cached
  <2>2. CASE Recover(p)
    <3>1. file[p] \in 1 .. MaxVersion
      BY <2>0, <2>2, Facts DEF Recover
    <3>2. [tag |-> 0, sha |-> file[p]] \in Entry
      BY <3>1, Facts
    <3> QED
      BY <2>2, <3>2, TakenKeepsAccount DEF Recover
  <2>3. CASE Ask(p)
    BY <2>3, TakenKeepsAccount DEF Ask
  <2>4. CASE Served(p)
    <3>1. server[p] \in 0 .. MaxVersion /\ [tag |-> server[p], sha |-> server[p]] \in Entry
      BY Facts DEF Inv, Typed, Version
    <3>2. /\ Answered(p, [tag |-> server[p], sha |-> server[p]])
          /\ file' = [file EXCEPT ![p] = server[p]]
      BY <2>4 DEF Served
    <3>3. [tag |-> server[p], sha |-> server[p]].sha = server[p]
      OBVIOUS
    <3> QED
      BY <3>1, <3>2, <3>3, AnsweredKeepsAccount
  <2>5. CASE NotModified(p)
    <3> DEFINE e == [tag |-> mem[p].tag, sha |-> file[p]]
    <3>1. CASE file[p] = 0
      BY <2>0, <2>5, <3>1, AnsweredKeepsAccount DEF NotModified
    <3>2. CASE file[p] # 0
      <4>1. mem[p] \in Entry
        BY <2>5 DEF NotModified, Matches, Inv, Typed
      <4>2. mem[p].tag \in 0 .. MaxVersion /\ file[p] \in 1 .. MaxVersion
        BY <2>0, <3>2, <4>1, Facts
      <4>3. e \in Entry /\ e.sha = file[p]
        BY <4>2, Facts
      <4>4. Answered(p, e) /\ file' = [file EXCEPT ![p] = file[p]]
        BY <2>0, <2>5, <3>2 DEF NotModified
      <4> HIDE DEF e
      <4> QED
        BY <2>0, <4>3, <4>4, AnsweredKeepsAccount
    <3> QED
      BY <3>1, <3>2
  <2>6. CASE Denied(p) \/ GiveUp(p)
    BY <2>0, <2>6, AnsweredKeepsAccount DEF Denied, GiveUp
  <2>7. CASE Retry(p)
    <3>1. UNCHANGED <<queue, at, file, got, mem, stage, torn, errors>>
      BY <2>7 DEF Retry
    <3> QED
      BY <3>1, SameIsComplete
  <2>8. CASE Malformed(p)
    <3>1. CASE stage = "pool"
      BY <2>0, <2>8, <3>1, AnsweredKeepsAccount DEF Malformed, Denied
    <3>2. CASE stage # "pool"
      BY <2>8, <3>2, ExitKeepsAccount DEF Malformed, Stop
    <3> QED
      BY <3>1, <3>2
  <2>9. CASE Record(p)
    BY <2>9, RecordKeepsAccount
  <2> QED
    BY <1>1, <2>1, <2>2, <2>3, <2>4, <2>5, <2>6, <2>7, <2>8, <2>9 DEF Fetch
<1>2. CASE Skip
  BY <1>2, SkipKeepsAccount
<1>3. CASE EnterPool \/ EnterCited \/ Close \/ \E r \in BOOLEAN : Start(r)
  BY <1>3, StageKeepsAccount
<1>4. CASE Finish \/ Crash
  BY <1>4, ExitKeepsAccount DEF Finish, Crash, Stop
<1>5. CASE Checkpoint
  <2>1. UNCHANGED <<queue, at, file, got, mem, stage, errors>> /\ stage # "close"
    BY <1>5 DEF Checkpoint
  <2> QED
    BY <2>1, SameIsComplete
<1>6. CASE (\E p \in Path : Publish(p)) \/ UNCHANGED fetchVars
  <2>1. UNCHANGED <<queue, at, file, got, mem, stage, torn, errors>>
    BY <1>6 DEF Publish, fetchVars
  <2> QED
    BY <2>1, SameIsComplete
<1> QED
  BY <1>1, <1>2, <1>3, <1>4, <1>5, <1>6 DEF FetchNext, RunStep

LEMMA AlwaysComplete == FetchSpec => []Complete
<1>1. FetchInit => Complete
  <2> SUFFICES ASSUME FetchInit PROVE Complete
    OBVIOUS
  <2>1. queue = <<>> /\ stage = "off" /\ at = [p \in Path |-> "idle"] /\ <<>> \in Seq(Path)
    BY DEF FetchInit
  <2> QED
    BY <2>1 DEF Complete, ResultsAreTrue, Accounted
<1> QED
  BY <1>1, AlwaysInv, StepKeepsAccount, PTL DEF FetchSpec

(* A run that ends without an error has an index that accounts for every   *)
(* front file and every listed detail with the hash of the stored bytes,   *)
(* and for every buff bound by the stored details; and the index is what   *)
(* it leaves on disk.  This holds after any history of crashes, for any    *)
(* number of workers and attempts and whatever the server publishes.       *)
THEOREM CleanRunsAreComplete == FetchSpec => CleanRunIsComplete
<1> DEFINE Ends == /\ stage = "cited" /\ stage' = "close" /\ ~errors =>
                        /\ \A p \in ToSet(FrontFiles) \cup ToSet(Listed) :
                             mem[p] # NoEntry /\ mem[p].sha = file[p]
                        /\ \A p \in Cited : mem[p] # NoEntry /\ file[p] # 0
                   /\ stage = "close" /\ stage' = "off" /\ ~torn' => index' = mem
<1>1. Inv /\ Complete /\ [FetchNext]_fetchVars => [Ends]_fetchVars
  <2> SUFFICES ASSUME Inv, Complete, FetchNext PROVE Ends
    OBVIOUS
  <2>1. ASSUME stage = "cited", stage' = "close", ~errors
        PROVE  /\ \A p \in Fronts \cup ToSet(Listed) : Kept(p)
               /\ \A p \in Cited : Bound(p)
    <3>1. StageDone
      <4>1. CASE \E p \in Path : Fetch(p)
        BY <2>1, <4>1 DEF Fetch, Cached, Recover, Ask, Taken, Served, NotModified, Denied, Answered,
                          Retry, GiveUp, Malformed, Stop, Exit, Record
      <4>2. CASE Skip \/ Checkpoint \/ Finish \/ Crash \/ \E p \in Path : Publish(p)
        BY <2>1, <4>2 DEF Skip, Checkpoint, Finish, Crash, Stop, Exit, Publish
      <4>3. CASE EnterPool \/ EnterCited \/ \E r \in BOOLEAN : Start(r)
        BY <2>1, <4>3 DEF EnterPool, EnterCited, EnterStage, Start
      <4>4. CASE Close
        BY <4>4 DEF Close
      <4> QED
        BY <4>1, <4>2, <4>3, <4>4 DEF FetchNext, RunStep
    <3>2. CitedAccounted
      BY <2>1 DEF Complete, Accounted
    <3>3. Cited \subseteq Path /\ \A p \in Path : ~Pending(p)
      BY <3>1, CitedFinite DEF StageDone, AllIdle, Pending, ToSet
    <3> QED
      BY <3>2, <3>3 DEF CitedAccounted
  <2>2. ASSUME stage = "close", stage' = "off", ~torn' PROVE index' = mem
    <3>1. torn /\ AllIdle
      BY <2>2 DEF Complete
    <3>2. ~ \E p \in Path : Fetch(p)
      BY <2>2, <3>1 DEF AllIdle, Fetch, Cached, Recover, Ask, Taken, CanBegin, Served, NotModified,
                        Denied, Answered, Retry, GiveUp, Malformed, Record
    <3>3. ~Crash
      BY <2>2, <3>1 DEF Crash, Stop, disk
    <3>4. ~(Skip \/ EnterPool \/ EnterCited \/ Close \/ Checkpoint)
      BY <2>2 DEF Skip, CanBegin, EnterPool, EnterCited, EnterStage, Close, Checkpoint
    <3>5. ~((\E r \in BOOLEAN : Start(r)) \/ \E p \in Path : Publish(p))
      BY <2>2 DEF Start, Publish
    <3>6. Finish
      BY <3>2, <3>3, <3>4, <3>5 DEF FetchNext, RunStep
    <3> QED
      BY <3>6 DEF Finish
  <2> QED
    BY <2>1, <2>2 DEF Kept, Bound, Fronts
<1> HIDE DEF Ends
<1>2. FetchSpec => [][Ends]_fetchVars
  BY <1>1, AlwaysInv, AlwaysComplete, PTL DEF FetchSpec
<1> QED
  BY <1>2 DEF CleanRunIsComplete, Ends

-----------------------------------------------------------------------------
(* The counters of a process.                                              *)
Counters ==
  /\ tries \in [Path -> 0 .. Retries - 1]
  /\ unsaved \in 0 .. Batch
  /\ ~saving => unsaved < Batch
  /\ {torn, saving, errors} \subseteq BOOLEAN

(* The counters start over with the process,                               *)
LEMMA ExitCounts == Exit /\ torn' \in BOOLEAN => Counters'
<1> SUFFICES ASSUME Exit, torn' \in BOOLEAN PROVE Counters'
  OBVIOUS
<1>1. Retries \in Nat \ {0} /\ Batch \in Nat \ {0}
  BY FetchAssumption
<1>2. [p \in Path |-> 0] \in [Path -> 0 .. Retries - 1]
  BY <1>1
<1>3. 0 \in 0 .. Batch /\ 0 < Batch
  BY <1>1
<1> QED
  BY <1>2, <1>3 DEF Exit, Counters

(* ... stay below their bounds while files are fetched and recorded,       *)
LEMMA FetchCounts ==
  ASSUME Inv, Counters, NEW p \in Path, Fetch(p)
  PROVE  Counters'
<1> USE DEF Counters, disk, threads, book
<1>0. Retries \in Nat \ {0} /\ Batch \in Nat \ {0}
  BY FetchAssumption
<1>1. CASE Cached(p) \/ Recover(p) \/ Ask(p)
  BY <1>1 DEF Cached, Recover, Ask, Taken
<1>2. ASSUME NEW result, Answered(p, result)
      PROVE  Counters'
  <2>1. tries' = [tries EXCEPT ![p] = 0] /\ UNCHANGED <<torn, unsaved, saving, errors>>
    BY <1>2 DEF Answered
  <2> QED
    BY <1>0, <2>1
<1>3. CASE Retry(p)
  <2>1. tries[p] + 1 \in 0 .. Retries - 1
    BY <1>0, <1>3 DEF Retry
  <2> QED
    BY <1>3, <2>1 DEF Retry
<1>4. CASE Malformed(p)
  <2>1. CASE stage = "pool"
    BY <1>2, <1>4, <2>1 DEF Malformed, Denied
  <2>2. CASE stage # "pool"
    BY <1>4, <2>2, ExitCounts DEF Malformed, Stop
  <2> QED
    BY <2>1, <2>2
<1>5. CASE Record(p)
  <2>1. ~saving /\ UNCHANGED tries
    BY <1>5 DEF Record
  <2>2. CASE got[p] = Failure
    BY <1>5, <2>1, <2>2 DEF Record
  <2>3. CASE got[p] # Failure
    <3>1. /\ unsaved' = unsaved + 1 /\ saving' = (unsaved + 1 >= Batch)
          /\ torn' = (torn \/ saving') /\ UNCHANGED errors
      BY <1>5, <2>3 DEF Record
    <3>2. unsaved' \in 0 .. Batch /\ saving' \in BOOLEAN
      BY <1>0, <2>1, <3>1
    <3>3. torn' \in BOOLEAN
      BY <3>1, <3>2
    <3>4. ASSUME ~saving' PROVE unsaved' < Batch
      <4>1. ~(unsaved + 1 >= Batch)
        BY <3>1, <3>4, Zenon
      <4> QED
        BY <1>0, <3>1, <4>1
    <3> QED
      BY <2>1, <3>1, <3>2, <3>3, <3>4
  <2> QED
    BY <2>2, <2>3
<1>6. CASE Served(p) \/ NotModified(p) \/ Denied(p) \/ GiveUp(p)
  BY <1>2, <1>6 DEF Served, NotModified, Denied, GiveUp
<1> QED
  BY <1>1, <1>3, <1>4, <1>5, <1>6 DEF Fetch

(* ... and in every other step.                                            *)
LEMMA StepCounts == Inv /\ Counters /\ [FetchNext]_fetchVars => Counters'
<1> SUFFICES ASSUME Inv, Counters, [FetchNext]_fetchVars PROVE Counters'
  OBVIOUS
<1> USE DEF Counters, disk, threads, book
<1>1. CASE \E p \in Path : Fetch(p)
  BY <1>1, FetchCounts
<1>2. CASE Skip
  BY <1>2 DEF Skip
<1>3. CASE EnterPool \/ EnterCited
  BY <1>3 DEF EnterPool, EnterCited, EnterStage
<1>4. CASE Close
  BY <1>4 DEF Close
<1>5. CASE Checkpoint
  <2>1. Batch \in Nat \ {0}
    BY FetchAssumption
  <2>2. 0 \in 0 .. Batch /\ 0 < Batch
    BY <2>1
  <2> QED
    BY <1>5, <2>2 DEF Checkpoint
<1>6. CASE Finish \/ Crash
  BY <1>6, ExitCounts DEF Finish, Crash, Stop
<1>7. CASE (\E r \in BOOLEAN : Start(r)) \/ (\E p \in Path : Publish(p)) \/ UNCHANGED fetchVars
  BY <1>7 DEF Start, Publish, fetchVars
<1> QED
  BY <1>1, <1>2, <1>3, <1>4, <1>5, <1>6, <1>7 DEF FetchNext, RunStep

LEMMA AlwaysCounts == FetchSpec => []Counters
<1>1. FetchInit => Counters
  <2>1. Retries \in Nat \ {0} /\ Batch \in Nat \ {0}
    BY FetchAssumption
  <2>2. [p \in Path |-> 0] \in [Path -> 0 .. Retries - 1] /\ 0 \in 0 .. Batch /\ 0 < Batch
    BY <2>1
  <2> QED
    BY <2>2 DEF FetchInit, Counters
<1> QED
  BY <1>1, StepCounts, AlwaysInv, PTL DEF FetchSpec

(* The index, the threads and the counters keep their types: no request    *)
(* is tried too often, and no more than Batch records go unsaved.          *)
THEOREM FetchTyped == FetchSpec => []FetchTypeOK
<1>1. Inv /\ Complete /\ Counters => FetchTypeOK
  <2> SUFFICES ASSUME Inv, Complete, Counters PROVE FetchTypeOK
    OBVIOUS
  <2>1. tries \in [Path -> 0 .. Retries]
    BY FetchAssumption DEF Counters
  <2> QED
    BY <2>1 DEF Inv, Typed, Complete, Counters, FetchTypeOK
<1> QED
  BY <1>1, AlwaysInv, AlwaysComplete, AlwaysCounts, PTL

-----------------------------------------------------------------------------
(* What a process has yet to do: the stages it has not been through, and   *)
(* of its stage the files, the attempts and results of each, and the write.*)
At == {"idle", "asking", "done"}
StagesLeft == [off |-> 0, close |-> 1, cited |-> 2, pool |-> 3, front |-> 4][stage]
Work(where, tried) ==
  [p \in Path |-> IF where[p] = "asking" THEN 2 + Retries - tried[p]
                  ELSE IF where[p] = "done" THEN 2 ELSE 0]
InHand(where, tried) == SumFunctionOnSet(Work(where, tried), Path)
PerFile == Retries + 3
StepsLeft == PerFile * Len(queue) + InHand(at, tries) + (IF saving THEN 1 ELSE 0)

Nearer == StagesLeft' < StagesLeft \/ (StagesLeft' = StagesLeft /\ StepsLeft' < StepsLeft)

(* A file costs less than a place in the queue,                            *)
LEMMA WorkIsBounded ==
  ASSUME NEW w \in [Path -> At], NEW t \in [Path -> 0 .. Retries - 1], NEW p \in Path
  PROVE  Work(w, t)[p] \in 0 .. PerFile - 1
<1>1. Retries \in Nat \ {0} /\ t[p] \in 0 .. Retries - 1
  BY FetchAssumption
<1>2. w[p] \in At
  OBVIOUS
<1> QED
  BY <1>1, <1>2 DEF Work, PerFile, At

(* ... the files in hand are counted,                                      *)
LEMMA InHandIsCounted ==
  ASSUME NEW w \in [Path -> At], NEW t \in [Path -> 0 .. Retries - 1]
  PROVE  InHand(w, t) \in Nat
<1>1. IsFiniteSet(Path) /\ PerFile \in Nat
  BY FetchAssumption DEF PerFile
<1>2. \A p \in Path : Work(w, t)[p] \in Nat
  BY <1>1, WorkIsBounded
<1> HIDE DEF Work
<1> QED
  BY <1>1, <1>2, SumIsNatural DEF InHand

(* ... and what one of them does changes the count by its own cost.        *)
LEMMA InHandChanges ==
  ASSUME NEW w \in [Path -> At], NEW t \in [Path -> 0 .. Retries - 1],
         NEW w2 \in [Path -> At], NEW t2 \in [Path -> 0 .. Retries - 1],
         NEW p \in Path, \A q \in Path \ {p} : w2[q] = w[q] /\ t2[q] = t[q]
  PROVE  InHand(w2, t2) = InHand(w, t) - Work(w, t)[p] + Work(w2, t2)[p]
<1>1. IsFiniteSet(Path) /\ PerFile \in Nat
  BY FetchAssumption DEF PerFile
<1>2. \A q \in Path : Work(w, t)[q] \in Int /\ Work(w2, t2)[q] \in Int
  BY <1>1, WorkIsBounded
<1>3. \A q \in Path \ {p} : Work(w2, t2)[q] = Work(w, t)[q]
  BY DEF Work
<1> HIDE DEF Work
<1> QED
  BY <1>1, <1>2, <1>3, SumChanges DEF InHand

(* A stage that is left is not come back to.                               *)
LEMMA StagesPass ==
  ASSUME stage # "off", EnterPool \/ EnterCited \/ Close \/ Exit,
         stage \in {"off", "front", "pool", "cited", "close"}
  PROVE  StagesLeft' < StagesLeft
BY DEF EnterPool, EnterCited, EnterStage, Close, Exit, StagesLeft

(* Every step of the process brings it nearer to its end.                  *)
LEMMA FetchGetsNearer ==
  ASSUME Inv, Complete, Counters, Counters', Inv', Complete', stage # "off",
         FetchNext, ~ \E p \in Path : Publish(p)
  PROVE  Nearer
<1> DEFINE H == InHand(at, tries)
           H2 == InHand(at', tries')
           n == Len(queue)
           n2 == Len(queue')
           s == IF saving THEN 1 ELSE 0
           s2 == IF saving' THEN 1 ELSE 0
<1> USE DEF disk, threads, book
<1>0. /\ at \in [Path -> At] /\ tries \in [Path -> 0 .. Retries - 1]
      /\ at' \in [Path -> At] /\ tries' \in [Path -> 0 .. Retries - 1]
  BY DEF Inv, Typed, At, Counters
<1>1. H \in Nat /\ H2 \in Nat /\ Retries \in Nat \ {0} /\ PerFile \in Nat
  <2>1. Retries \in Nat \ {0} /\ PerFile \in Nat
    BY FetchAssumption DEF PerFile
  <2>2. H \in Nat
    BY <1>0, InHandIsCounted
  <2>3. H2 \in Nat
    BY <1>0, InHandIsCounted
  <2> QED
    BY <2>1, <2>2, <2>3
<1>2. queue \in Seq(Path) /\ queue' \in Seq(Path) /\ n \in Nat /\ n2 \in Nat
  BY DEF Complete
<1>3. StepsLeft = PerFile * n + H + s /\ StepsLeft' = PerFile * n2 + H2 + s2
  BY DEF StepsLeft
<1>4. s \in 0 .. 1 /\ s2 \in 0 .. 1
  OBVIOUS
<1>5. PerFile * n \in Nat /\ PerFile * n2 \in Nat
  BY <1>1, <1>2
<1>6. ASSUME UNCHANGED stage, StepsLeft' < StepsLeft
      PROVE  Nearer
  BY <1>6 DEF Nearer, StagesLeft
<1>7. ASSUME Exit \/ EnterPool \/ EnterCited \/ Close
      PROVE  Nearer
  BY <1>7, StagesPass DEF Nearer, Complete
<1>8. ASSUME NEW p \in Path, NEW where \in {"asking", "done"}, NEW result, Taken(p, where, result)
      PROVE  Nearer
  <2>1. queue # <<>> /\ queue' = Tail(queue) /\ UNCHANGED <<stage, saving>>
    BY <1>8 DEF Taken, CanBegin
  <2>2. n2 = n - 1 /\ n >= 1
    BY <1>2, <2>1
  <2>3. \A q \in Path \ {p} : at'[q] = at[q] /\ tries'[q] = tries[q]
    BY <1>0, <1>8 DEF Taken
  <2>4. H2 = H - Work(at, tries)[p] + Work(at', tries')[p]
    BY <1>0, <2>3, InHandChanges
  <2>5. Work(at, tries)[p] \in 0 .. PerFile - 1 /\ Work(at', tries')[p] \in 0 .. PerFile - 1
    BY <1>0, WorkIsBounded
  <2>6. PerFile * n2 = PerFile * n - PerFile
    BY <1>1, <1>2, <2>2
  <2>7. s2 = s
    BY <2>1
  <2> HIDE DEF H, H2, n, n2, s, s2
  <2>8. StepsLeft' < StepsLeft
    BY <1>1, <1>3, <1>4, <1>5, <2>4, <2>5, <2>6, <2>7
  <2> QED
    BY <1>6, <2>1, <2>8
<1>9. ASSUME Skip
      PROVE  Nearer
  <2>1. queue # <<>> /\ queue' = Tail(queue) /\ UNCHANGED <<stage, saving, at, tries>>
    BY <1>9 DEF Skip, CanBegin
  <2>2. n2 = n - 1 /\ n >= 1 /\ H2 = H /\ s2 = s
    BY <1>2, <2>1
  <2>3. PerFile * n2 = PerFile * n - PerFile /\ PerFile > 0
    BY <1>1, <1>2, <2>2 DEF PerFile
  <2> HIDE DEF H, H2, n, n2, s, s2
  <2>4. StepsLeft' < StepsLeft
    BY <1>1, <1>3, <1>4, <1>5, <2>2, <2>3
  <2> QED
    BY <1>6, <2>1, <2>4
<1>10. ASSUME NEW p \in Path, UNCHANGED <<stage, queue>>, s2 <= s + 1,
              \A q \in Path \ {p} : at'[q] = at[q] /\ tries'[q] = tries[q],
              Work(at', tries')[p] + s2 < Work(at, tries)[p] + s
       PROVE  Nearer
  <2>0. \A q \in Path \ {p} : at'[q] = at[q] /\ tries'[q] = tries[q]
    BY <1>10
  <2>1. H2 = H - Work(at, tries)[p] + Work(at', tries')[p]
    BY <1>0, <2>0, InHandChanges
  <2>2. Work(at, tries)[p] \in Int /\ Work(at', tries')[p] \in Int
    BY <1>0, <1>1, WorkIsBounded
  <2>3. n2 = n
    BY <1>10
  <2> HIDE DEF H, H2, n, n2, s, s2
  <2>4. StepsLeft' < StepsLeft
    BY <1>1, <1>3, <1>4, <1>5, <1>10, <2>1, <2>2, <2>3
  <2> QED
    BY <1>6, <1>10, <2>4
<1>11. ASSUME NEW p \in Path, NEW result, Answered(p, result)
       PROVE  Nearer
  <2>1. /\ UNCHANGED <<stage, queue, saving>> /\ at[p] = "asking"
        /\ at' = [at EXCEPT ![p] = "done"] /\ tries' = [tries EXCEPT ![p] = 0]
    BY <1>11 DEF Answered
  <2>2. \A q \in Path \ {p} : at'[q] = at[q] /\ tries'[q] = tries[q]
    BY <1>0, <2>1
  <2>3. Work(at', tries')[p] = 2 /\ Work(at, tries)[p] > 2
    <3>1. tries[p] \in 0 .. Retries - 1
      BY <1>0
    <3> QED
      BY <1>0, <1>1, <2>1, <3>1 DEF Work
  <2>4. Work(at, tries)[p] \in Int
    BY <1>0, <1>1, WorkIsBounded
  <2>5. s2 = s
    BY <2>1
  <2> HIDE DEF s, s2
  <2> QED
    BY <1>4, <1>10, <2>1, <2>2, <2>3, <2>4, <2>5
<1>12. ASSUME NEW p \in Path, Retry(p)
       PROVE  Nearer
  <2>1. /\ UNCHANGED <<stage, queue, saving, at>> /\ at[p] = "asking"
        /\ tries' = [tries EXCEPT ![p] = tries[p] + 1]
    BY <1>12 DEF Retry
  <2>2. \A q \in Path \ {p} : at'[q] = at[q] /\ tries'[q] = tries[q]
    BY <1>0, <2>1
  <2>3. /\ Work(at', tries')[p] = 1 + Retries - tries[p]
        /\ Work(at, tries)[p] = 2 + Retries - tries[p] /\ tries[p] \in Int
    <3>1. tries[p] \in 0 .. Retries - 1
      BY <1>0
    <3> QED
      BY <1>0, <1>1, <2>1, <3>1 DEF Work
  <2>4. s2 = s
    BY <2>1
  <2> HIDE DEF s, s2
  <2>5. Work(at', tries')[p] + s2 < Work(at, tries)[p] + s /\ s2 <= s + 1
    BY <1>1, <1>4, <2>3, <2>4
  <2> QED
    BY <1>10, <2>1, <2>2, <2>5
<1>13. ASSUME NEW p \in Path, Record(p)
       PROVE  Nearer
  <2>1. /\ UNCHANGED <<stage, queue, tries>> /\ at[p] = "done" /\ ~saving
        /\ at' = [at EXCEPT ![p] = "idle"]
    BY <1>13 DEF Record
  <2>2. \A q \in Path \ {p} : at'[q] = at[q] /\ tries'[q] = tries[q]
    BY <1>0, <2>1
  <2>3. Work(at', tries')[p] = 0 /\ Work(at, tries)[p] = 2
    BY <1>0, <2>1 DEF Work
  <2>4. s = 0
    BY <2>1
  <2> HIDE DEF s, s2
  <2> QED
    BY <1>4, <1>10, <2>1, <2>2, <2>3, <2>4
<1>14. ASSUME Checkpoint
       PROVE  Nearer
  <2>1. saving /\ saving' = FALSE /\ UNCHANGED <<stage, queue, at, tries>>
    BY <1>14 DEF Checkpoint
  <2>2. n2 = n /\ H2 = H /\ s = 1 /\ s2 = 0
    BY <2>1
  <2> HIDE DEF H, H2, n, n2, s, s2
  <2>3. StepsLeft' < StepsLeft
    BY <1>1, <1>3, <1>5, <2>2
  <2> QED
    BY <1>6, <2>1, <2>3
<1>15. ASSUME NEW p \in Path, Fetch(p)
       PROVE  Nearer
  <2>1. CASE Cached(p) \/ Recover(p) \/ Ask(p)
    BY <1>8, <2>1 DEF Cached, Recover, Ask
  <2>2. CASE Served(p) \/ NotModified(p) \/ Denied(p) \/ GiveUp(p)
    BY <1>11, <2>2 DEF Served, NotModified, Denied, GiveUp
  <2>3. CASE Malformed(p)
    BY <1>7, <1>11, <2>3 DEF Malformed, Denied, Stop
  <2> QED
    BY <1>12, <1>13, <1>15, <2>1, <2>2, <2>3 DEF Fetch
<1>16. ASSUME \E r \in BOOLEAN : Start(r)
       PROVE  FALSE
  BY <1>16 DEF Start
<1> HIDE DEF disk, threads, book
<1> QED
  BY <1>7, <1>9, <1>14, <1>15, <1>16 DEF FetchNext, RunStep, Finish, Crash, Stop

(* A process of the fetcher takes finitely many steps, however the server  *)
(* answers and whatever it publishes meanwhile: every step of the process  *)
(* takes it to a later stage, or lowers a natural number within the stage. *)
THEOREM RunsRunDown ==
  FetchSpec =>
    /\ [](StagesLeft \in 0 .. 4 /\ StepsLeft \in Nat)
    /\ [][stage # "off" =>
            \/ Nearer
            \/ (\E p \in Path : Publish(p)) /\ UNCHANGED <<StagesLeft, StepsLeft>>]_fetchVars
<1>1. ASSUME Inv, Complete, Counters
      PROVE  StagesLeft \in 0 .. 4 /\ StepsLeft \in Nat
  <2>1. StagesLeft \in 0 .. 4
    BY <1>1 DEF Complete, StagesLeft
  <2>2. at \in [Path -> At] /\ tries \in [Path -> 0 .. Retries - 1]
    BY <1>1 DEF Inv, Typed, At, Counters
  <2>3. InHand(at, tries) \in Nat
    BY <2>2, InHandIsCounted
  <2>4. PerFile * Len(queue) \in Nat
    BY <1>1, FetchAssumption DEF Complete, PerFile
  <2> QED
    BY <2>1, <2>3, <2>4 DEF StepsLeft
<1>2. Inv /\ Complete /\ Counters /\ Inv' /\ Complete' /\ Counters' /\ [FetchNext]_fetchVars
        => [stage # "off" =>
              \/ Nearer
              \/ (\E p \in Path : Publish(p)) /\ UNCHANGED <<StagesLeft, StepsLeft>>]_fetchVars
  <2>1. (\E p \in Path : Publish(p)) => UNCHANGED <<StagesLeft, StepsLeft>>
    BY DEF Publish, threads, book, StagesLeft, StepsLeft
  <2> QED
    BY <2>1, FetchGetsNearer
<1> QED
  BY <1>1, <1>2, AlwaysInv, AlwaysComplete, AlwaysCounts, PTL DEF FetchSpec

(* The guards of the steps of a process.                                   *)
RunCanGoOn ==
  \/ stage = "close" \/ saving \/ CanBegin \/ StageDone
  \/ \E p \in Path : at[p] = "asking" \/ (at[p] = "done" /\ ~saving)

(* A process never waits for something that does not come: a thread waits  *)
(* for its answer, the main thread for the threads, and nobody for a place *)
(* in the pool when all are idle.                                          *)
THEOREM RunsNeverStall == FetchSpec => [](stage # "off" => RunCanGoOn)
<1>1. ASSUME Inv, Complete, stage # "off"
      PROVE  RunCanGoOn
  <2> SUFFICES ASSUME ~saving, stage # "close", AllIdle, queue # <<>>
               PROVE  CanBegin
    BY <1>1 DEF RunCanGoOn, StageDone, AllIdle, Inv, Typed
  <2>1. stage \in {"front", "pool", "cited"}
    BY <1>1 DEF Complete
  <2>2. Busy = {}
    BY DEF Busy, AllIdle
  <2>3. Cardinality(Busy) < Workers
    BY <2>2, FS_EmptySet, FetchAssumption
  <2> QED
    BY <2>1, <2>3 DEF CanBegin
<1> QED
  BY <1>1, AlwaysInv, AlwaysComplete, PTL

-----------------------------------------------------------------------------
(* The fetcher of the pinned repositories.                                 *)

(* A process has one attempt at least.                                     *)
LEMMA FirstAttempt == 0 \in 0 .. Attempts - 1
BY ExternalAssumption

(* Nothing in memory is well typed.                                        *)
LEMMA NothingIsTyped ==
  /\ Unlisted \in [Source -> Bytes]
  /\ Idle \in [Source -> {"idle", "pending", "contents", "blob", "raw", "arrived"}]
  /\ [p \in Source |-> 0] \in [Source -> 0 .. Attempts - 1]
  /\ <<>> \in Seq(Source)
<1>1. Unlisted \in [Source -> Bytes]
  BY DEF Unlisted, Bytes
<1>2. Idle \in [Source -> {"idle", "pending", "contents", "blob", "raw", "arrived"}]
  BY DEF Idle
<1>3. [p \in Source |-> 0] \in [Source -> 0 .. Attempts - 1]
  BY FirstAttempt
<1>4. <<>> \in Seq(Source)
  OBVIOUS
<1> QED
  BY <1>1, <1>2, <1>3, <1>4

LEMMA StartsTyped == ExternalInit => ExternalTypeOK
<1> SUFFICES ASSUME ExternalInit PROVE ExternalTypeOK
  OBVIOUS
<1>1. {cache, listed, known, entries} \subseteq [Source -> Bytes]
  BY NothingIsTyped DEF ExternalInit, Asleep
<1>2. ahead \in Seq(Source) /\ failed \in [Source -> 0 .. Attempts - 1]
  BY NothingIsTyped DEF ExternalInit, Asleep
<1>3. phase \in [Source -> {"idle", "pending", "contents", "blob", "raw", "arrived"}]
  BY NothingIsTyped DEF ExternalInit, Asleep
<1> QED
  BY <1>1, <1>2, <1>3 DEF ExternalInit, Asleep, ExternalTypeOK

(* Nothing is left of a process that is gone.                              *)
LEMMA GoneIsTyped ==
  ASSUME Gone, cache' \in [Source -> Bytes], listed' \in [Source -> Bytes], cutShort' \in BOOLEAN
  PROVE  ExternalTypeOK'
<1>1. {cache', listed', known', entries'} \subseteq [Source -> Bytes]
  BY NothingIsTyped DEF Gone
<1>2. ahead' \in Seq(Source) /\ failed' \in [Source -> 0 .. Attempts - 1]
  BY NothingIsTyped DEF Gone
<1>3. phase' \in [Source -> {"idle", "pending", "contents", "blob", "raw", "arrived"}]
  BY NothingIsTyped DEF Gone
<1> QED
  BY <1>1, <1>2, <1>3 DEF Gone, ExternalTypeOK

LEMMA StepsTyped == ExternalTypeOK /\ [ExternalNext]_externalVars => ExternalTypeOK'
<1> SUFFICES ASSUME ExternalTypeOK, [ExternalNext]_externalVars PROVE ExternalTypeOK'
  OBVIOUS
<1> USE DEF externalDisk, downloads
<1>0. Unlisted \in [Source -> Bytes]
  BY NothingIsTyped
<1>1. CASE Die
  BY <1>1, GoneIsTyped DEF Die, ExternalTypeOK
<1>2. CASE LaunchPinned \/ LaunchFamily
  BY <1>0, <1>2, ExternalAssumption DEF LaunchPinned, LaunchFamily, Launched, ExternalTypeOK
<1>3. CASE FreeManifest
  BY <1>0, <1>3 DEF FreeManifest, ExternalTypeOK
<1>4. ASSUME NEW p \in Source, FreeFile(p)
      PROVE  ExternalTypeOK'
  BY <1>4 DEF FreeFile, ExternalTypeOK, Bytes
<1>5. ASSUME NEW p \in Source, KeepListed(p) \/ AdoptUnlisted(p) \/ Want(p)
      PROVE  ExternalTypeOK'
  <2>1. ahead \in Seq(Source) /\ ahead # <<>> /\ ahead' = Tail(ahead)
    BY <1>5 DEF KeepListed, AdoptUnlisted, Want, Looks, IsNext, ExternalTypeOK
  <2>2. ahead' \in Seq(Source)
    BY <2>1, TailKeepsRest
  <2> QED
    BY <1>5, <2>2 DEF KeepListed, AdoptUnlisted, Want, DownloadOf, ExternalTypeOK
<1>6. ASSUME NEW p \in Source, RefuseChanged(p) \/ FailRaw(p)
      PROVE  Die
  BY <1>6 DEF RefuseChanged, FailRaw
<1>7. ASSUME NEW p \in Source, TakePending(p)
      PROVE  ExternalTypeOK'
  BY <1>7 DEF TakePending, ExternalTypeOK
<1>8. ASSUME NEW p \in Source, Arrive(p) \/ AskForBlob(p) \/ FallBack(p)
      PROVE  ExternalTypeOK'
  <2>1. PICK to \in {"arrived", "blob", "raw"} : Moved(p, to)
    BY <1>8 DEF Arrive, AskForBlob, FallBack
  <2>2. phase' \in [Source -> {"idle", "pending", "contents", "blob", "raw", "arrived"}]
    BY <2>1 DEF Moved, ExternalTypeOK
  <2>3. failed' \in [Source -> 0 .. Attempts - 1]
    BY <2>1, FirstAttempt DEF Moved, ExternalTypeOK
  <2> QED
    BY <2>1, <2>2, <2>3 DEF Moved, ExternalTypeOK
<1>9. ASSUME NEW p \in Source, AskAgain(p)
      PROVE  ExternalTypeOK'
  <2>1. failed[p] + 1 \in 0 .. Attempts - 1
    BY <1>9, ExternalAssumption DEF AskAgain, MayRetry, ExternalTypeOK
  <2> QED
    BY <1>9, <2>1 DEF AskAgain, ExternalTypeOK
<1>10. ASSUME NEW p \in Source, BeginPut(p) \/ EndPut(p)
       PROVE  ExternalTypeOK'
  <2>1. cache' \in [Source -> Bytes] /\ entries' \in [Source -> Bytes]
    BY <1>10 DEF BeginPut, EndPut, ExternalTypeOK, Bytes
  <2>2. phase' \in [Source -> {"idle", "pending", "contents", "blob", "raw", "arrived"}]
    BY <1>10 DEF BeginPut, EndPut, ExternalTypeOK
  <2>3. CASE BeginPut(p)
    BY <2>1, <2>2, <2>3 DEF BeginPut, ExternalTypeOK
  <2>4. CASE EndPut(p)
    BY <2>1, <2>2, <2>4 DEF EndPut, ExternalTypeOK
  <2> QED
    BY <1>10, <2>3, <2>4
<1>11. CASE StoreManifest \/ BeginClose
  BY <1>11 DEF StoreManifest, BeginClose, ExternalTypeOK
<1>12. CASE EndJob
  BY <1>12, GoneIsTyped DEF EndJob, ExternalTypeOK
<1>13. CASE UNCHANGED externalVars
  BY <1>13 DEF externalVars, ExternalTypeOK
<1> QED
  BY <1>1, <1>2, <1>3, <1>4, <1>5, <1>6, <1>7, <1>8, <1>9, <1>10, <1>11, <1>12, <1>13
     DEF ExternalNext, JobStep, OnPath

(* The manifests, the cache and what a process has in memory keep their    *)
(* types.                                                                  *)
THEOREM ExternalTyped == ExternalSpec => []ExternalTypeOK
BY StartsTyped, StepsTyped, PTL DEF ExternalSpec

-----------------------------------------------------------------------------
(* A path is downloaded only while it has no file, and not while it is     *)
(* written.                                                                *)
DownloadsAreMissing ==
  \A p \in Source : phase[p] # "idle" => cache[p] = "none" /\ p \notin putting

Resting == job = "off" => Asleep

(* The only step that overwrites a file begins to write a missing one.     *)
LEMMA DownloadsStayMissing ==
  ASSUME ExternalTypeOK, DownloadsAreMissing, Resting, [ExternalNext]_externalVars
  PROVE  DownloadsAreMissing' /\ Resting'
<1> USE DEF externalDisk, downloads, ExternalTypeOK
<1>1. ASSUME Gone
      PROVE  DownloadsAreMissing' /\ Resting'
  BY <1>1 DEF Gone, DownloadsAreMissing, Resting, Asleep, Idle
<1>2. CASE LaunchPinned \/ LaunchFamily
  BY <1>2 DEF LaunchPinned, LaunchFamily, Launched, DownloadsAreMissing, Resting
<1>3. CASE FreeManifest
  BY <1>3 DEF FreeManifest, DownloadsAreMissing, Resting, Asleep
<1>4. ASSUME NEW p \in Source, FreeFile(p)
      PROVE  DownloadsAreMissing' /\ Resting'
  BY <1>4 DEF FreeFile, DownloadsAreMissing, Resting, Asleep, Idle
<1>5. ASSUME NEW p \in Source, KeepListed(p) \/ AdoptUnlisted(p)
      PROVE  DownloadsAreMissing' /\ Resting'
  BY <1>5 DEF KeepListed, AdoptUnlisted, Looks, IsNext, Ready, DownloadsAreMissing, Resting
<1>6. ASSUME NEW p \in Source, Want(p)
      PROVE  DownloadsAreMissing' /\ Resting'
  BY <1>6 DEF Want, DownloadOf, Looks, IsNext, Ready, DownloadsAreMissing, Resting
<1>7. ASSUME NEW p \in Source,
             TakePending(p) \/ Arrive(p) \/ AskForBlob(p) \/ FallBack(p) \/ AskAgain(p)
      PROVE  DownloadsAreMissing' /\ Resting'
  <2>1. phase[p] # "idle"
    BY <1>7 DEF TakePending, Arrive, AskForBlob, FallBack, Moved, AskAgain, Asking
  <2>2. job # "off"
    BY <2>1 DEF Resting, Asleep, Idle
  <2>3. UNCHANGED <<cache, job, putting>>
    BY <1>7 DEF TakePending, Arrive, AskForBlob, FallBack, Moved, AskAgain
  <2>4. \A q \in Source : q # p => phase'[q] = phase[q]
    BY <1>7 DEF TakePending, Arrive, AskForBlob, FallBack, Moved, AskAgain
  <2> QED
    BY <2>1, <2>2, <2>3, <2>4 DEF DownloadsAreMissing, Resting
<1>8. ASSUME NEW p \in Source, BeginPut(p)
      PROVE  DownloadsAreMissing' /\ Resting'
  BY <1>8 DEF BeginPut, Ready, DownloadsAreMissing, Resting
<1>9. ASSUME NEW p \in Source, EndPut(p)
      PROVE  DownloadsAreMissing' /\ Resting'
  <2>1. job # "off" /\ phase[p] = "idle"
    BY <1>9 DEF EndPut, Resting, Asleep, DownloadsAreMissing
  <2> QED
    BY <1>9, <2>1 DEF EndPut, DownloadsAreMissing, Resting
<1>10. CASE StoreManifest \/ BeginClose
  BY <1>10 DEF StoreManifest, BeginClose, Ready, DownloadsAreMissing, Resting, Asleep
<1>11. CASE UNCHANGED externalVars
  BY <1>11 DEF externalVars, DownloadsAreMissing, Resting, Asleep
<1>12. CASE Die \/ EndJob
  BY <1>1, <1>12 DEF Die, EndJob
<1>13. ASSUME NEW p \in Source, RefuseChanged(p) \/ FailRaw(p)
       PROVE  Die
  BY <1>13 DEF RefuseChanged, FailRaw
<1> QED
  BY <1>2, <1>3, <1>4, <1>5, <1>6, <1>7, <1>8, <1>9, <1>10, <1>11, <1>12, <1>13
     DEF ExternalNext, JobStep, OnPath

LEMMA MissingAlways == ExternalSpec => [](DownloadsAreMissing /\ Resting)
<1>1. ExternalInit => DownloadsAreMissing /\ Resting
  BY DEF ExternalInit, Asleep, Idle, DownloadsAreMissing, Resting
<1>2. ExternalTypeOK /\ DownloadsAreMissing /\ Resting /\ [ExternalNext]_externalVars
      => DownloadsAreMissing' /\ Resting'
  BY DownloadsStayMissing
<1> QED
  BY <1>1, <1>2, ExternalTyped, PTL DEF ExternalSpec

(* No process damages a file that was in the cache in full, however it     *)
(* ends and whichever process ran before it.                               *)
THEOREM WholeFilesStay == ExternalSpec => WholeStaysWhole
<1> DEFINE Retained == job # "off" => \A p \in Source : cache[p] = "whole" => cache'[p] = "whole"
<1>1. ASSUME ExternalTypeOK, DownloadsAreMissing, ExternalNext
      PROVE  Retained
  <2> USE <1>1 DEF externalDisk, ExternalTypeOK
  <2>1. ASSUME UNCHANGED cache
        PROVE  Retained
    BY <2>1
  <2>2. ASSUME NEW p \in Source, BeginPut(p)
        PROVE  Retained
    BY <2>2 DEF BeginPut, DownloadsAreMissing
  <2>3. ASSUME NEW p \in Source, EndPut(p)
        PROVE  Retained
    BY <2>3 DEF EndPut
  <2>4. ASSUME NEW p \in Source, FreeFile(p)
        PROVE  Retained
    BY <2>4 DEF FreeFile
  <2> HIDE DEF Retained
  <2>5. ASSUME NEW p \in Source, OnPath(p)
        PROVE  Retained
    BY <2>1, <2>2, <2>3, <2>5
       DEF OnPath, KeepListed, RefuseChanged, AdoptUnlisted, Want, TakePending, Arrive,
           AskForBlob, FallBack, Moved, AskAgain, FailRaw, Die
  <2> QED
    BY <2>1, <2>4, <2>5
       DEF ExternalNext, JobStep, StoreManifest, BeginClose, EndJob, Die, LaunchPinned,
           LaunchFamily, Launched, FreeManifest
<1>2. ExternalTypeOK /\ DownloadsAreMissing /\ [ExternalNext]_externalVars
      => [Retained]_externalVars
  <2> HIDE DEF Retained
  <2> QED
    BY <1>1
<1> QED
  BY <1>2, ExternalTyped, MissingAlways, PTL DEF ExternalSpec, WholeStaysWhole

-----------------------------------------------------------------------------
(* The paths that the process was asked for, and what it has settled.      *)
Asked == IF job = "pinned" THEN Pinned ELSE Family
Settled(p) == cache[p] # "none" /\ entries[p] = cache[p]

(* A path it was asked for is ahead, on its way, being written or settled. *)
Covered ==
  job # "off" =>
    \A p \in ToSet(Asked) :
      p \in ToSet(ahead) \/ phase[p] # "idle" \/ p \in putting \/ Settled(p)

(* A family's process keeps the entries it found.                          *)
Carried == job = "family" => \A p \in Source : known[p] # "none" => entries[p] # "none"

(* When the manifest is written for the last time, nothing is left to do.  *)
Closed == closing => /\ cutShort /\ storing /\ ahead = <<>>
                     /\ phase = Idle /\ putting = {}

OneFileWritten == \A p, q \in putting : p = q

Progress ==
  /\ ExternalTypeOK /\ DownloadsAreMissing /\ Resting
  /\ OneFileWritten /\ Covered /\ Carried /\ Closed

LEMMA PathsAreSources == ToSet(Asked) \subseteq Source
BY ExternalAssumption DEF Asked, ToSet

(* The main thread writes a file before it turns to another one.           *)
LEMMA OneFileAtATime ==
  ASSUME OneFileWritten, [ExternalNext]_externalVars
  PROVE  OneFileWritten'
<1> USE DEF OneFileWritten, externalDisk, downloads
<1>1. ASSUME NEW p \in Source, OnPath(p)
      PROVE  OneFileWritten'
  BY <1>1 DEF OnPath, KeepListed, RefuseChanged, AdoptUnlisted, Want, TakePending, Arrive,
    AskForBlob, FallBack, Moved, AskAgain, FailRaw, BeginPut, EndPut, Die, Gone
<1> QED
  BY <1>1 DEF ExternalNext, JobStep, StoreManifest, BeginClose, EndJob, Die, Gone,
    LaunchPinned, LaunchFamily, Launched, FreeManifest, FreeFile, externalVars

(* Settled paths stay settled: only missing files are written.             *)
LEMMA ProgressIsKept ==
  ASSUME Progress, [ExternalNext]_externalVars
  PROVE  Covered' /\ Carried' /\ Closed'
<1> USE DEF Progress, externalDisk, downloads, ExternalTypeOK
<1>1. ASSUME Gone
      PROVE  Covered' /\ Carried' /\ Closed'
  BY <1>1 DEF Gone, Covered, Carried, Closed
<1>2. CASE LaunchPinned
  BY <1>2 DEF LaunchPinned, Launched, Asked, Covered, Carried, Closed, Resting, Asleep
<1>3. CASE LaunchFamily
  BY <1>3 DEF LaunchFamily, Launched, Asked, Covered, Carried, Closed, Resting, Asleep
<1>4. CASE FreeManifest
  BY <1>4 DEF FreeManifest, Covered, Carried, Closed, Resting, Asleep
<1>5. ASSUME NEW p \in Source, FreeFile(p)
      PROVE  Covered' /\ Carried' /\ Closed'
  BY <1>5 DEF FreeFile, Covered, Carried, Closed, Resting, Asleep
<1>6. ASSUME NEW p \in Source, KeepListed(p) \/ AdoptUnlisted(p) \/ Want(p)
      PROVE  Covered' /\ Carried' /\ Closed'
  <2>1. /\ job # "off" /\ ~storing /\ putting = {}
        /\ ahead # <<>> /\ p = Head(ahead) /\ ahead' = Tail(ahead)
        /\ UNCHANGED <<cache, job, known, putting, closing>>
    BY <1>6 DEF KeepListed, AdoptUnlisted, Want, Looks, IsNext, Ready
  <2>2. ToSet(ahead) \subseteq {p} \cup ToSet(ahead')
    BY <2>1, TailKeepsRest
  <2>3. ~closing
    BY <2>1 DEF Closed
  <2>4. Settled(p)' \/ phase'[p] # "idle"
    BY <1>6 DEF KeepListed, AdoptUnlisted, Want, DownloadOf, Settled
  <2>5. \A q \in Source : q # p => entries'[q] = entries[q] /\ phase'[q] = phase[q]
    BY <1>6 DEF KeepListed, AdoptUnlisted, Want, DownloadOf
  <2>6. entries'[p] = "none" => entries[p] = "none"
    BY <1>6 DEF KeepListed, AdoptUnlisted, Want
  <2>7. Covered'
    <3>1. Asked' = Asked
      BY <2>1 DEF Asked
    <3> QED
      BY <2>1, <2>2, <2>4, <2>5, <3>1, PathsAreSources DEF Covered, Settled
  <2>8. Carried'
    BY <2>1, <2>5, <2>6 DEF Carried
  <2> QED
    BY <2>1, <2>3, <2>7, <2>8 DEF Closed
<1>7. ASSUME NEW p \in Source,
             TakePending(p) \/ Arrive(p) \/ AskForBlob(p) \/ FallBack(p) \/ AskAgain(p)
      PROVE  Covered' /\ Carried' /\ Closed'
  <2>1. phase[p] # "idle" /\ phase'[p] # "idle"
    BY <1>7 DEF TakePending, Arrive, AskForBlob, FallBack, Moved, AskAgain, Asking
  <2>2. UNCHANGED <<cache, entries, job, known, ahead, putting, closing>>
    BY <1>7 DEF TakePending, Arrive, AskForBlob, FallBack, Moved, AskAgain
  <2>3. \A q \in Source : q # p => phase'[q] = phase[q]
    BY <1>7 DEF TakePending, Arrive, AskForBlob, FallBack, Moved, AskAgain
  <2>4. ~closing
    BY <2>1 DEF Closed, Idle
  <2>5. Asked' = Asked
    BY <2>2 DEF Asked
  <2>6. Covered'
    BY <2>1, <2>2, <2>3, <2>5, PathsAreSources DEF Covered, Settled
  <2> QED
    BY <2>2, <2>4, <2>6 DEF Carried, Closed
<1>8. ASSUME NEW p \in Source, BeginPut(p)
      PROVE  Covered' /\ Carried' /\ Closed'
  <2>1. cache[p] = "none" /\ phase[p] # "idle" /\ p \in putting'
    BY <1>8 DEF BeginPut, DownloadsAreMissing
  <2>2. /\ job # "off" /\ putting = {} /\ ~storing
        /\ UNCHANGED <<entries, job, known, ahead, closing>>
    BY <1>8 DEF BeginPut, Ready
  <2>3. \A q \in Source : q # p => phase'[q] = phase[q] /\ cache'[q] = cache[q]
    BY <1>8 DEF BeginPut
  <2>4. ~closing
    BY <2>2 DEF Closed
  <2>5. Asked' = Asked
    BY <2>2 DEF Asked
  <2>6. Covered'
    BY <2>1, <2>2, <2>3, <2>5, PathsAreSources DEF Covered, Settled
  <2> QED
    BY <2>2, <2>4, <2>6 DEF Carried, Closed
<1>9. ASSUME NEW p \in Source, EndPut(p)
      PROVE  Covered' /\ Carried' /\ Closed'
  <2>1. cache'[p] = "whole" /\ entries'[p] = "whole" /\ p \in putting
    BY <1>9 DEF EndPut
  <2>2. \A q \in Source : q # p => entries'[q] = entries[q] /\ cache'[q] = cache[q]
    BY <1>9 DEF EndPut
  <2>3. UNCHANGED <<job, known, ahead, phase, closing>>
    BY <1>9 DEF EndPut
  <2>4. ~closing /\ job # "off"
    BY <2>1 DEF Closed, Resting, Asleep
  <2>5. Asked' = Asked
    BY <2>3 DEF Asked
  <2>6. putting \subseteq {p}
    BY <2>1 DEF OneFileWritten
  <2>7. Covered'
    <3>1. ASSUME NEW q \in ToSet(Asked)
          PROVE  q \in ToSet(ahead) \/ phase[q] # "idle" \/ Settled(q)'
      <4>1. CASE q = p
        BY <2>1, <4>1 DEF Settled
      <4>2. CASE q # p
        BY <2>2, <2>4, <2>6, <3>1, <4>2, PathsAreSources DEF Covered, Settled
      <4> QED
        BY <4>1, <4>2
    <3> QED
      BY <2>3, <2>5, <3>1 DEF Covered
  <2>8. Carried'
    BY <2>1, <2>2, <2>3 DEF Carried
  <2> QED
    BY <2>3, <2>4, <2>7, <2>8 DEF Closed
<1>10. CASE StoreManifest
  BY <1>10 DEF StoreManifest, Asked, Covered, Carried, Closed, Settled
<1>11. CASE BeginClose
  BY <1>11 DEF BeginClose, Ready, Asked, Covered, Carried, Closed, Settled
<1>12. CASE UNCHANGED externalVars
  BY <1>12 DEF externalVars, Asked, Covered, Carried, Closed, Settled
<1>13. CASE Die \/ EndJob
  BY <1>1, <1>13 DEF Die, EndJob
<1>14. ASSUME NEW p \in Source, RefuseChanged(p) \/ FailRaw(p)
       PROVE  Die
  BY <1>14 DEF RefuseChanged, FailRaw
<1> QED
  BY <1>2, <1>3, <1>4, <1>5, <1>6, <1>7, <1>8, <1>9, <1>10, <1>11, <1>12, <1>13, <1>14
     DEF ExternalNext, JobStep, OnPath

LEMMA ProgressAlways == ExternalSpec => []Progress
<1>1. ExternalInit => OneFileWritten /\ Covered /\ Carried /\ Closed
  BY DEF ExternalInit, Asleep, OneFileWritten, Covered, Carried, Closed
<1>2. ExternalInit => Progress
  BY <1>1, StartsTyped DEF Progress, ExternalInit, DownloadsAreMissing, Resting, Asleep, Idle
<1>3. Progress /\ [ExternalNext]_externalVars => Progress'
  <2> SUFFICES ASSUME Progress, [ExternalNext]_externalVars PROVE Progress'
    OBVIOUS
  <2>1. ExternalTypeOK'
    BY StepsTyped DEF Progress
  <2>2. DownloadsAreMissing' /\ Resting'
    BY DownloadsStayMissing DEF Progress
  <2>3. OneFileWritten'
    BY OneFileAtATime DEF Progress
  <2>4. Covered' /\ Carried' /\ Closed'
    BY ProgressIsKept
  <2> QED
    BY <2>1, <2>2, <2>3, <2>4 DEF Progress
<1> QED
  BY <1>2, <1>3, PTL DEF ExternalSpec

(* What the last write leaves on disk is what the process was asked for.   *)
LEMMA LastWriteSettles ==
  ASSUME Progress, EndJob
  PROVE  /\ \A p \in ToSet(Asked) : cache[p] # "none" /\ listed'[p] = cache[p]
         /\ job = "family" => \A p \in Source : known[p] # "none" => listed'[p] # "none"
<1>1. closing /\ listed' = entries
  BY DEF EndJob
<1>2. job # "off"
  BY <1>1 DEF Progress, Resting, Asleep
<1>3. ASSUME NEW p \in ToSet(Asked)
      PROVE  Settled(p)
  <2>1. p \notin ToSet(ahead)
    BY <1>1 DEF Progress, Closed, ToSet
  <2>2. phase[p] = "idle" /\ p \notin putting
    BY <1>1, PathsAreSources DEF Progress, Closed, Idle
  <2> QED
    BY <1>2, <2>1, <2>2 DEF Progress, Covered
<1> QED
  BY <1>1, <1>3 DEF Progress, Settled, Carried

(* A process that ends well leaves every file it was asked for listed with *)
(* the hash of its bytes, and a family's one every entry it found, across  *)
(* crashes and payloads that arrive in any order: only the last write both *)
(* ends a process and leaves the manifest whole.                           *)
THEOREM FinishedJobsAreVerified == ExternalSpec => EndsVerified
<1> DEFINE Verified ==
      job # "off" /\ job' = "off" /\ closing /\ ~cutShort' =>
        /\ \A p \in ToSet(Asked) : cache[p] # "none" /\ listed'[p] = cache[p]
        /\ job = "family" => \A p \in Source : known[p] # "none" => listed'[p] # "none"
<1>1. ASSUME Progress, ExternalNext, job # "off", job' = "off", closing, ~cutShort'
      PROVE  EndJob
  <2>1. cutShort
    BY <1>1 DEF Progress, Closed
  <2>2. ~Die
    BY <1>1, <2>1 DEF Die, externalDisk
  <2>3. ASSUME NEW p \in Source, OnPath(p)
        PROVE  FALSE
    BY <1>1, <2>2, <2>3
       DEF OnPath, KeepListed, RefuseChanged, AdoptUnlisted, Want, TakePending, Arrive,
           AskForBlob, FallBack, Moved, AskAgain, FailRaw, BeginPut, EndPut
  <2> QED
    BY <1>1, <2>2, <2>3
       DEF ExternalNext, JobStep, StoreManifest, BeginClose, LaunchPinned, LaunchFamily,
           Launched, FreeManifest, FreeFile
<1>2. Progress /\ [ExternalNext]_externalVars => [Verified]_externalVars
  <2> SUFFICES ASSUME Progress, ExternalNext PROVE Verified
    OBVIOUS
  <2>1. CASE EndJob
    BY <2>1, LastWriteSettles
  <2>2. CASE ~EndJob
    BY <1>1, <2>2
  <2> QED
    BY <2>1, <2>2
<1>3. [][Verified]_externalVars => EndsVerified
  BY DEF EndsVerified, Asked
<1> HIDE DEF Verified
<1> QED
  BY <1>2, <1>3, ProgressAlways, PTL DEF ExternalSpec

-----------------------------------------------------------------------------
(* What a process has yet to do: the attempts that each download may still *)
(* take, more for a path it has not looked at, and the writes that follow. *)
Phase == {"idle", "pending", "contents", "blob", "raw", "arrived"}
Unseen == 3 * Attempts + 5
Attempting == [idle |-> 0, arrived |-> 3, raw |-> 3 + Attempts, blob |-> 3 + 2 * Attempts,
               contents |-> 3 + 3 * Attempts, pending |-> 4 + Attempts]
Effort(at_, failed_) ==
  [p \in Source |-> Attempting[at_[p]]
                      - (IF at_[p] \in {"contents", "blob", "raw"} THEN failed_[p] ELSE 0)]
Downloading(at_, failed_) == SumFunctionOnSet(Effort(at_, failed_), Source)
Writing == (IF putting = {} THEN 0 ELSE 2) + (IF storing THEN 1 ELSE 0) + (IF closing THEN 0 ELSE 2)
ToDo == Unseen * Len(ahead) + Downloading(phase, failed) + Writing

(* What a download may still take.                                         *)
LEMMA EffortIsBounded ==
  ASSUME NEW ph \in [Source -> Phase], NEW f \in [Source -> 0 .. Attempts - 1], NEW p \in Source
  PROVE  Effort(ph, f)[p] \in 0 .. Unseen - 2
<1>1. Attempts \in Nat \ {0} /\ f[p] \in 0 .. Attempts - 1
  BY ExternalAssumption
<1>2. ph[p] \in Phase
  OBVIOUS
<1> QED
  BY <1>1, <1>2 DEF Effort, Attempting, Unseen, Phase

(* ... what all of them take,                                              *)
LEMMA DownloadingIsCounted ==
  ASSUME NEW ph \in [Source -> Phase], NEW f \in [Source -> 0 .. Attempts - 1]
  PROVE  Downloading(ph, f) \in Nat
<1>1. IsFiniteSet(Source) /\ Unseen \in Int
  BY ExternalAssumption DEF Unseen
<1>2. \A q \in Source : Effort(ph, f)[q] \in Nat
  BY <1>1, EffortIsBounded
<1> HIDE DEF Effort
<1> QED
  BY <1>1, <1>2, SumIsNatural DEF Downloading

(* ... and how it changes when one of them does.                           *)
LEMMA DownloadingChanges ==
  ASSUME NEW ph \in [Source -> Phase], NEW f \in [Source -> 0 .. Attempts - 1],
         NEW ph2 \in [Source -> Phase], NEW f2 \in [Source -> 0 .. Attempts - 1],
         NEW p \in Source, \A q \in Source \ {p} : ph2[q] = ph[q] /\ f2[q] = f[q]
  PROVE  Downloading(ph2, f2) = Downloading(ph, f) - Effort(ph, f)[p] + Effort(ph2, f2)[p]
<1>1. IsFiniteSet(Source) /\ Unseen \in Int
  BY ExternalAssumption DEF Unseen
<1>2. \A q \in Source : Effort(ph, f)[q] \in Int /\ Effort(ph2, f2)[q] \in Int
  BY <1>1, EffortIsBounded
<1>3. \A q \in Source \ {p} : Effort(ph2, f2)[q] = Effort(ph, f)[q]
  BY DEF Effort
<1> HIDE DEF Effort
<1> QED
  BY <1>1, <1>2, <1>3, SumChanges DEF Downloading

(* A step of the process lowers what it has yet to do, or ends it.         *)
LEMMA StepsGoOn ==
  ASSUME Progress, ExternalTypeOK', ExternalNext, job # "off", job' # "off"
  PROVE  ToDo' < ToDo
<1> DEFINE D == Downloading(phase, failed)
           D2 == Downloading(phase', failed')
           n == Len(ahead)
           n2 == Len(ahead')
<1> USE DEF externalDisk, downloads
<1>0. /\ phase \in [Source -> Phase] /\ failed \in [Source -> 0 .. Attempts - 1]
      /\ phase' \in [Source -> Phase] /\ failed' \in [Source -> 0 .. Attempts - 1]
  BY DEF Progress, ExternalTypeOK, Phase
<1>1. D \in Nat /\ D2 \in Nat /\ Attempts \in Nat \ {0} /\ Unseen \in Nat
  <2>1. Attempts \in Nat \ {0} /\ Unseen \in Nat
    BY ExternalAssumption DEF Unseen
  <2>2. D \in Nat
    BY <1>0, DownloadingIsCounted
  <2>3. D2 \in Nat
    BY <1>0, DownloadingIsCounted
  <2> QED
    BY <2>1, <2>2, <2>3
<1>2. ahead \in Seq(Source) /\ ahead' \in Seq(Source) /\ n \in Nat /\ n2 \in Nat
  BY DEF Progress, ExternalTypeOK
<1>3. ToDo = Unseen * n + D + Writing /\ ToDo' = Unseen * n2 + D2 + Writing'
  BY DEF ToDo
<1>4. Writing \in 0 .. 5 /\ Writing' \in 0 .. 5
  BY DEF Writing
<1>5. ASSUME NEW p \in Source, KeepListed(p) \/ AdoptUnlisted(p) \/ Want(p)
      PROVE  ToDo' < ToDo
  <2>1. ahead # <<>> /\ ahead' = Tail(ahead) /\ ~storing
    BY <1>5 DEF KeepListed, AdoptUnlisted, Want, Looks, IsNext, Ready
  <2>2. n2 = n - 1 /\ n >= 1
    BY <1>2, <2>1
  <2>3. \A q \in Source \ {p} : phase'[q] = phase[q] /\ failed'[q] = failed[q]
    BY <1>0, <1>5 DEF KeepListed, AdoptUnlisted, Want, DownloadOf
  <2>4. D2 = D - Effort(phase, failed)[p] + Effort(phase', failed')[p]
    BY <1>0, <2>3, DownloadingChanges
  <2>5. Effort(phase, failed)[p] \in 0 .. Unseen - 2 /\ Effort(phase', failed')[p] \in 0 .. Unseen - 2
    BY <1>0, EffortIsBounded
  <2>6. Writing' <= Writing + 1
    BY <1>5, <2>1 DEF KeepListed, AdoptUnlisted, Want, Writing
  <2>7. Unseen * n2 = Unseen * n - Unseen
    BY <1>1, <1>2, <2>2
  <2>8. Unseen * n \in Nat
    BY <1>1, <1>2
  <2> HIDE DEF D, D2, n, n2
  <2> QED
    BY <1>1, <1>3, <1>4, <2>4, <2>5, <2>6, <2>7, <2>8
<1>6. ASSUME NEW p \in Source,
             TakePending(p) \/ Arrive(p) \/ AskForBlob(p) \/ AskAgain(p) \/ FallBack(p)
      PROVE  ToDo' < ToDo
  <2>1. UNCHANGED <<ahead, putting, storing, closing>>
    BY <1>6 DEF TakePending, Arrive, AskForBlob, AskAgain, FallBack, Moved
  <2>2. \A q \in Source \ {p} : phase'[q] = phase[q] /\ failed'[q] = failed[q]
    BY <1>0, <1>6 DEF TakePending, Arrive, AskForBlob, AskAgain, FallBack, Moved
  <2>3. D2 = D - Effort(phase, failed)[p] + Effort(phase', failed')[p]
    BY <1>0, <2>2, DownloadingChanges
  <2>4. Effort(phase', failed')[p] < Effort(phase, failed)[p]
    <3> USE <1>0, <1>1 DEF Effort, Attempting
    <3>0. failed[p] \in 0 .. Attempts - 1 /\ failed'[p] \in 0 .. Attempts - 1
      OBVIOUS
    <3>1. CASE TakePending(p)
      BY <3>0, <3>1 DEF TakePending
    <3>2. CASE Arrive(p)
      BY <3>0, <3>2 DEF Arrive, Moved, Asking
    <3>3. CASE AskForBlob(p)
      BY <3>0, <3>3 DEF AskForBlob, Moved
    <3>4. CASE AskAgain(p)
      BY <3>0, <3>4 DEF AskAgain, Asking
    <3>5. CASE FallBack(p)
      BY <3>0, <3>5 DEF FallBack, Moved
    <3> QED
      BY <1>6, <3>1, <3>2, <3>3, <3>4, <3>5
  <2>5. Effort(phase, failed)[p] \in Int /\ Effort(phase', failed')[p] \in Int
    BY <1>0, <1>1, EffortIsBounded
  <2>6. Unseen * n \in Nat /\ n2 = n /\ Writing' = Writing
    BY <1>1, <1>2, <2>1 DEF Writing
  <2> HIDE DEF D, D2, n, n2
  <2> QED
    BY <1>1, <1>3, <1>4, <2>3, <2>4, <2>5, <2>6
<1>7. ASSUME NEW p \in Source, BeginPut(p)
      PROVE  ToDo' < ToDo
  <2>1. \A q \in Source \ {p} : phase'[q] = phase[q] /\ failed'[q] = failed[q]
    BY <1>0, <1>7 DEF BeginPut
  <2>2. D2 = D - Effort(phase, failed)[p] + Effort(phase', failed')[p]
    BY <1>0, <2>1, DownloadingChanges
  <2>3. Effort(phase, failed)[p] = 3 /\ Effort(phase', failed')[p] = 0
    BY <1>0, <1>7 DEF BeginPut, Effort, Attempting
  <2>4. Writing' = Writing + 2
    BY <1>7 DEF BeginPut, Ready, Writing
  <2>5. Unseen * n \in Nat /\ n2 = n
    BY <1>1, <1>2, <1>7 DEF BeginPut
  <2> HIDE DEF D, D2, n, n2
  <2> QED
    BY <1>1, <1>3, <1>4, <2>2, <2>3, <2>4, <2>5
<1>8. ASSUME (\E p \in Source : EndPut(p)) \/ StoreManifest \/ BeginClose
      PROVE  ToDo' < ToDo
  <2>1. UNCHANGED <<ahead, phase, failed>>
    BY <1>8 DEF EndPut, StoreManifest, BeginClose
  <2>2. Writing' < Writing
    <3>1. CASE \E p \in Source : EndPut(p)
      BY <3>1 DEF EndPut, Writing, Progress, ExternalTypeOK
    <3>2. CASE StoreManifest
      BY <3>2 DEF StoreManifest, Writing
    <3>3. CASE BeginClose
      <4>1. ~closing /\ ~storing
        BY <3>3 DEF BeginClose, Ready, Progress, Closed
      <4> QED
        BY <3>3, <4>1 DEF BeginClose, Writing
    <3> QED
      BY <1>8, <3>1, <3>2, <3>3
  <2>3. Unseen * n \in Nat /\ n2 = n /\ D2 = D
    BY <1>1, <1>2, <2>1
  <2> HIDE DEF D, D2, n, n2
  <2> QED
    BY <1>1, <1>3, <1>4, <2>2, <2>3
<1>9. ASSUME Die \/ EndJob \/ (\E p \in Source : RefuseChanged(p) \/ FailRaw(p))
      PROVE  FALSE
  BY <1>9 DEF Die, EndJob, RefuseChanged, FailRaw, Gone
<1>10. ASSUME LaunchPinned \/ LaunchFamily \/ FreeManifest \/ \E p \in Source : FreeFile(p)
       PROVE  FALSE
  BY <1>10 DEF LaunchPinned, LaunchFamily, Launched, FreeManifest, FreeFile, Progress, Resting
<1> QED
  BY <1>5, <1>6, <1>7, <1>8, <1>9, <1>10 DEF ExternalNext, JobStep, OnPath

(* A process of the fetcher takes a bounded number of steps, however its   *)
(* requests are answered: what it has yet to do is a natural number that   *)
(* every step lowers, unless it ends the process.                          *)
THEOREM JobsRunDown ==
  ExternalSpec => /\ [](ToDo \in Nat)
                  /\ [][job # "off" => job' = "off" \/ ToDo' < ToDo]_externalVars
<1>1. ASSUME ExternalTypeOK PROVE ToDo \in Nat
  <2>1. Unseen \in Nat /\ Len(ahead) \in Nat /\ Writing \in 0 .. 5
    BY <1>1, ExternalAssumption DEF Unseen, Writing, ExternalTypeOK
  <2>2. phase \in [Source -> Phase] /\ failed \in [Source -> 0 .. Attempts - 1]
    BY <1>1 DEF ExternalTypeOK, Phase
  <2>3. Downloading(phase, failed) \in Nat
    BY <2>2, DownloadingIsCounted
  <2>4. Unseen * Len(ahead) \in Nat
    BY <2>1
  <2> QED
    BY <2>1, <2>3, <2>4 DEF ToDo
<1>2. Progress /\ ExternalTypeOK' /\ [ExternalNext]_externalVars
        => [job # "off" => job' = "off" \/ ToDo' < ToDo]_externalVars
  BY StepsGoOn
<1> QED
  BY <1>1, <1>2, ExternalTyped, ProgressAlways, PTL DEF ExternalSpec

(* The guards of the steps of a process.                                   *)
JobCanGoOn ==
  \/ storing
  \/ Ready /\ ahead = <<>> /\ phase = Idle
  \/ \E p \in Source :
       \/ IsNext(p) \/ Asking(p) \/ p \in putting
       \/ Ready /\ phase[p] = "arrived"
       \/ /\ job = "family" /\ ahead = <<>> /\ phase[p] = "pending"
          /\ Cardinality({q \in Source : Asking(q)}) < PoolSize

(* fetch() downloads what it looks at without a pool.                      *)
PoolIsOfFamily == job = "pinned" => \A p \in Source : phase[p] # "pending"

LEMMA PoolStaysOfFamily ==
  Progress /\ PoolIsOfFamily /\ [ExternalNext]_externalVars => PoolIsOfFamily'
<1> SUFFICES ASSUME Progress, PoolIsOfFamily, [ExternalNext]_externalVars PROVE PoolIsOfFamily'
  OBVIOUS
<1> USE DEF PoolIsOfFamily, externalDisk, downloads
<1>0. phase \in [Source -> {"idle", "pending", "contents", "blob", "raw", "arrived"}]
  BY DEF Progress, ExternalTypeOK
<1>1. ASSUME Gone
      PROVE  PoolIsOfFamily'
  BY <1>1 DEF Gone
<1>2. CASE LaunchPinned \/ LaunchFamily
  BY <1>2 DEF LaunchPinned, LaunchFamily, Launched, Progress, Resting, Asleep, Idle
<1>3. ASSUME NEW p \in Source, Want(p)
      PROVE  PoolIsOfFamily'
  BY <1>0, <1>3 DEF Want, DownloadOf
<1>4. ASSUME NEW p \in Source, OnPath(p), ~Want(p)
      PROVE  PoolIsOfFamily'
  BY <1>0, <1>1, <1>4
     DEF OnPath, KeepListed, RefuseChanged, AdoptUnlisted, TakePending, Arrive, AskForBlob,
         FallBack, Moved, AskAgain, FailRaw, BeginPut, EndPut, Die
<1> QED
  BY <1>1, <1>2, <1>3, <1>4
     DEF ExternalNext, JobStep, StoreManifest, BeginClose, EndJob, Die, FreeManifest, FreeFile,
         externalVars

(* Nor does a process of this fetcher wait for what does not come: between *)
(* its start and its end one of its steps is possible.                     *)
THEOREM JobsNeverStall == ExternalSpec => [](job # "off" => JobCanGoOn)
<1>1. ExternalInit => PoolIsOfFamily
  BY DEF ExternalInit, PoolIsOfFamily
<1>2. ASSUME Progress, PoolIsOfFamily, job # "off"
      PROVE  JobCanGoOn
  <2> SUFFICES ASSUME ~storing, putting = {}, \A p \in Source : ~Asking(p)
               PROVE  JobCanGoOn
    BY <1>2 DEF JobCanGoOn, Progress, ExternalTypeOK
  <2>0. Ready
    BY <1>2 DEF Ready
  <2>1. CASE \E p \in Source : phase[p] = "arrived"
    BY <2>0, <2>1 DEF JobCanGoOn
  <2>2. CASE ahead = <<>> /\ phase = Idle
    BY <2>0, <2>2 DEF JobCanGoOn
  <2>3. ASSUME ahead # <<>>, job = "pinned" => phase = Idle
        PROVE  JobCanGoOn
    <3>1. Head(ahead) \in Source
      BY <1>2, <2>3 DEF Progress, ExternalTypeOK
    <3>2. IsNext(Head(ahead))
      BY <2>0, <2>3 DEF IsNext
    <3> QED
      BY <3>1, <3>2 DEF JobCanGoOn
  <2>4. ASSUME phase # Idle, \A p \in Source : phase[p] # "arrived"
        PROVE  job = "family" /\ \E p \in Source : phase[p] = "pending"
    <3>1. phase \in [Source -> {"idle", "pending", "contents", "blob", "raw", "arrived"}]
      BY <1>2 DEF Progress, ExternalTypeOK
    <3>2. PICK p \in Source : phase[p] # "idle"
      BY <2>4, <3>1 DEF Idle
    <3>3. phase[p] = "pending"
      BY <2>4, <3>1, <3>2 DEF Asking
    <3> QED
      BY <1>2, <3>3 DEF PoolIsOfFamily, Progress, ExternalTypeOK
  <2>5. ASSUME ahead = <<>>, job = "family", NEW p \in Source, phase[p] = "pending"
        PROVE  JobCanGoOn
    <3> DEFINE asking == {q \in Source : Asking(q)}
    <3>1. asking = {}
      OBVIOUS
    <3> HIDE DEF asking
    <3>2. Cardinality(asking) = 0 /\ PoolSize > 0
      BY <3>1, FS_EmptySet, ExternalAssumption
    <3>3. Cardinality(asking) < PoolSize
      BY <3>2
    <3> QED
      BY <2>5, <3>3 DEF JobCanGoOn, asking
  <2> QED
    BY <2>1, <2>2, <2>3, <2>4, <2>5
<1> QED
  BY <1>1, <1>2, ProgressAlways, PoolStaysOfFamily, PTL DEF ExternalSpec

-----------------------------------------------------------------------------
(* The content database.                                                   *)
Shaped ==
  db # NoDatabase =>
    db = [records |-> db.records, conflicts |-> db.conflicts,
          external |-> db.external, clashes |-> db.clashes]

LEMMA DatabaseIsShaped == ContentSpec => []Shaped
<1>1. ContentInit => Shaped
  BY DEF ContentInit, Shaped
<1>2. Shaped /\ [ContentNext]_contentVars => Shaped'
  <2> SUFFICES ASSUME Shaped, [ContentNext]_contentVars
               PROVE  Shaped'
    OBVIOUS
  <2>1. CASE PublishBuild
    BY <2>1 DEF PublishBuild, Shaped
  <2>2. CASE Augment
    BY <2>2 DEF Augment, Shaped
  <2>3. CASE UNCHANGED db
    BY <2>3 DEF Shaped
  <2> QED
    BY <2>1, <2>2, <2>3 DEF ContentNext, contentVars, Fetched, BeginBuild, EmitTable,
      BuildDies, Repin
<1> QED
  BY <1>1, <1>2, PTL DEF ContentSpec

(* What the database holds of the external records stays as it is however  *)
(* often it is augmented and from whatever releases, and every record that *)
(* a release supplied otherwise is listed as a conflict.                   *)
THEOREM AugmentationsRetain == ContentSpec => AugmentRetains
<1> DEFINE Retained ==
      /\ \A k \in DOMAIN db.external : db'.external[k] = db.external[k]
      /\ db.clashes \subseteq db'.clashes
      /\ \A k \in DOMAIN Incoming :
           db'.external[k] = Incoming[k] \/ <<k, Incoming[k]>> \in db'.clashes
<1>1. ASSUME Shaped, [ContentNext]_contentVars,
             built = NoBuild, db # NoDatabase, db' # db
      PROVE  Retained
  <2>1. Augment
    BY <1>1 DEF ContentNext, contentVars, Fetched, BeginBuild, EmitTable, PublishBuild,
      BuildDies, Repin
  <2>2. /\ db'.external = InsertNew(db.external, Incoming)
        /\ db'.clashes = db.clashes \cup Clashing(db.external, Incoming)
    BY <2>1, <1>1 DEF Augment, Shaped
  <2> DEFINE old == db.external
             new == Incoming
  <2>3. \A k \in DOMAIN old : InsertNew(old, new)[k] = old[k]
    BY DEF InsertNew
  <2>4. \A k \in DOMAIN new \ DOMAIN old : InsertNew(old, new)[k] = new[k]
    BY DEF InsertNew
  <2>5. \A k \in DOMAIN new \cap DOMAIN old :
          old[k] = new[k] \/ <<k, new[k]>> \in Clashing(old, new)
    BY DEF Clashing
  <2> QED
    BY <2>2, <2>3, <2>4, <2>5
<1>2. ASSUME Shaped, [ContentNext]_contentVars
      PROVE  [built = NoBuild /\ db # NoDatabase /\ db' # db => Retained]_contentVars
  BY <1>1, <1>2
<1> QED
  BY <1>2, DatabaseIsShaped, PTL DEF ContentSpec, AugmentRetains

-----------------------------------------------------------------------------
(* What is published accounts for the whole snapshot.                      *)

(* What a record may say.                                                  *)
Fact == [table : Tables, key : RowKey \cup Raw, data : RowData \cup Seq(Nat),
         cites : SUBSET (Raw \X Versions)]

SnapshotTyped == /\ raw \in [Raw -> Versions \cup {0}]
                 /\ proven \in [Raw -> Versions \cup {0}]

LEMMA RowIsFact ==
  ASSUME SnapshotTyped, NEW t \in Tables, NEW k \in RowKey \cup Raw,
         NEW d \in RowData \cup Seq(Nat), NEW P \in SUBSET Raw
  PROVE  Row(t, k, d, P) \in Fact
<1>1. Provenance(P) \in SUBSET (Raw \X Versions)
  BY DEF Provenance, SnapshotTyped
<1> QED
  BY <1>1 DEF Row, Fact

LEMMA StoredAreNumbers == ASSUME SnapshotTyped, NEW p \in Raw PROVE raw[p] \in Nat
<1>1. \A v \in Versions : v \in Nat
  BY ContentAssumption
<1>2. raw[p] \in Versions \cup {0}
  BY DEF SnapshotTyped
<1> QED
  BY <1>1, <1>2, 0 \in Nat, Zenon

(* The records the builder normalizes are a list, whatever is stored.      *)
LEMMA RowsAreFacts == ASSUME SnapshotTyped, NEW p \in Raw PROVE RowsOf(p) \in Seq(Fact)
<1>1. CASE raw[p] = 0
  <2>1. <<>> \in Seq(Fact)
    OBVIOUS
  <2> QED
    BY <1>1, <2>1 DEF RowsOf
<1>2. CASE raw[p] # 0
  <2> DEFINE rows == Rows[p][raw[p]]
             part(i) == <<Row("row", rows[i].key, rows[i].data, {p})>>
                          \o [b \in DOMAIN rows[i].buffs |-> BuffRow(rows[i].buffs[b])]
             parts == [i \in DOMAIN rows |-> part(i)]
  <2>1. raw[p] \in Versions
    BY <1>2 DEF SnapshotTyped
  <2>2. rows \in Seq([key : RowKey, data : RowData, buffs : Seq(Raw)])
    BY <2>1, ContentAssumption
  <2> DEFINE RawRow == [key : RowKey, data : RowData, buffs : Seq(Raw)]
  <2> HIDE DEF rows, parts
  <2>3. /\ Len(rows) \in Nat /\ DOMAIN rows = 1 .. Len(rows)
        /\ \A i \in 1 .. Len(rows) : rows[i].key \in RowKey /\ rows[i].data \in RowData
                                     /\ rows[i].buffs \in Seq(Raw)
    <3>0. rows \in Seq(RawRow)
      BY <2>2
    <3> HIDE DEF RawRow
    <3>1. /\ Len(rows) \in Nat /\ DOMAIN rows = 1 .. Len(rows)
          /\ \A i \in 1 .. Len(rows) : rows[i] \in RawRow
      BY <3>0
    <3> USE DEF RawRow
    <3> QED
      BY <3>1
  <2>4. ASSUME NEW i \in 1 .. Len(rows) PROVE part(i) \in Seq(Fact)
    <3> DEFINE buffs == rows[i].buffs
               bound == [b \in DOMAIN buffs |-> BuffRow(buffs[b])]
    <3>1. Row("row", rows[i].key, rows[i].data, {p}) \in Fact
      BY <2>3, RowIsFact DEF Tables
    <3>2. Len(buffs) \in Nat /\ DOMAIN buffs = 1 .. Len(buffs) /\ \A b \in DOMAIN buffs : buffs[b] \in Raw
      BY <2>3
    <3>3. ASSUME NEW b \in Raw PROVE BuffRow(b) \in Fact
      <4>1. raw[b] \in Nat
        BY StoredAreNumbers
      <4>2. <<raw[b]>> \in Seq(Nat)
        BY <4>1
      <4> QED
        BY <4>2, RowIsFact DEF BuffRow, Tables
    <3>4. bound = [b \in 1 .. Len(buffs) |-> bound[b]] /\ \A b \in 1 .. Len(buffs) : bound[b] \in Fact
      BY <3>2, <3>3
    <3> HIDE DEF bound, buffs
    <3>5. bound \in Seq(Fact)
      BY <3>2, <3>4, IndexedIsSeq
    <3> QED
      BY <3>1, <3>5 DEF bound, buffs
  <2>5. parts = [i \in 1 .. Len(rows) |-> parts[i]] /\ \A i \in 1 .. Len(rows) : parts[i] \in Seq(Fact)
    BY <2>3, <2>4 DEF parts
  <2>6. RowsOf(p) = FlattenSeq(parts)
    BY <1>2 DEF RowsOf, rows, parts
  <2>7. parts \in Seq(Seq(Fact))
    BY <2>3, <2>5, IndexedIsSeq
  <2> QED
    BY <2>6, <2>7, FlattenIsSeq
<1> QED
  BY <1>1, <1>2

LEMMA ListedAreFacts ==
  ASSUME SnapshotTyped, NEW c \in ToSet(Collections)
  PROVE  ListedIn(c) \in Seq(Fact)
<1>0. c \in Raw
  BY ContentAssumption DEF ToSet
<1>1. CASE raw[c] = 0
  <2>1. <<>> \in Seq(Fact)
    OBVIOUS
  <2> QED
    BY <1>1, <2>1 DEF ListedIn
<1>2. CASE raw[c] # 0
  <2> DEFINE details == Entities[c][raw[c]]
             own(i) == IF details[i] \in ToSet(Directories) THEN <<>> ELSE RowsOf(details[i])
             part(i) == <<Row("entity", details[i], <<raw[c], raw[details[i]]>>, {c, details[i]})>>
                          \o own(i)
             parts == [i \in DOMAIN details |-> part(i)]
  <2>1. raw[c] \in Versions
    BY <1>0, <1>2 DEF SnapshotTyped
  <2>2. details \in Seq(Raw)
    BY <2>1, ContentAssumption
  <2>3. /\ Len(details) \in Nat /\ DOMAIN details = 1 .. Len(details)
        /\ \A i \in 1 .. Len(details) : details[i] \in Raw
    BY <2>2
  <2> HIDE DEF details
  <2>4. ASSUME NEW i \in 1 .. Len(details) PROVE part(i) \in Seq(Fact)
    <3>1. raw[c] \in Nat /\ raw[details[i]] \in Nat
      BY <1>0, <2>3, StoredAreNumbers
    <3>2. <<raw[c], raw[details[i]]>> \in Seq(Nat)
      BY <3>1
    <3>3. Row("entity", details[i], <<raw[c], raw[details[i]]>>, {c, details[i]}) \in Fact
      BY <1>0, <2>3, <3>2, RowIsFact DEF Tables
    <3>4. <<>> \in Seq(Fact)
      OBVIOUS
    <3>5. own(i) \in Seq(Fact)
      BY <2>3, <3>4, RowsAreFacts
    <3> HIDE DEF own
    <3> QED
      BY <3>3, <3>5
  <2>5. /\ parts = [i \in 1 .. Len(details) |-> parts[i]]
        /\ \A i \in 1 .. Len(details) : parts[i] \in Seq(Fact)
    BY <2>3, <2>4
  <2>6. ListedIn(c) = FlattenSeq(parts)
    BY <1>2 DEF ListedIn, details
  <2> HIDE DEF parts
  <2>7. parts \in Seq(Seq(Fact))
    BY <2>3, <2>5, IndexedIsSeq
  <2> QED
    BY <2>6, <2>7, FlattenIsSeq
<1> QED
  BY <1>1, <1>2

LEMMA CandidatesAreFacts == ASSUME SnapshotTyped PROVE Candidates \in Seq(Fact)
<1> DEFINE fromLists == [i \in DOMAIN Collections |-> ListedIn(Collections[i])]
           found == [i \in DOMAIN Directories |-> RowsOf(Directories[i])]
<1>1. /\ Len(Collections) \in Nat /\ DOMAIN Collections = 1 .. Len(Collections)
      /\ Len(Directories) \in Nat /\ DOMAIN Directories = 1 .. Len(Directories)
      /\ \A i \in 1 .. Len(Collections) : Collections[i] \in ToSet(Collections)
      /\ \A i \in 1 .. Len(Directories) : Directories[i] \in Raw
  BY ContentAssumption DEF ToSet
<1>2. /\ fromLists = [i \in 1 .. Len(Collections) |-> fromLists[i]]
      /\ \A i \in 1 .. Len(Collections) : fromLists[i] \in Seq(Fact)
  BY <1>1, ListedAreFacts
<1>3. /\ found = [i \in 1 .. Len(Directories) |-> found[i]]
      /\ \A i \in 1 .. Len(Directories) : found[i] \in Seq(Fact)
  BY <1>1, RowsAreFacts
<1>4. Candidates = FlattenSeq(fromLists) \o FlattenSeq(found)
  BY DEF Candidates
<1> HIDE DEF fromLists, found
<1>5. fromLists \in Seq(Seq(Fact)) /\ found \in Seq(Seq(Fact))
  BY <1>1, <1>2, <1>3, IndexedIsSeq
<1>6. FlattenSeq(fromLists) \in Seq(Fact) /\ FlattenSeq(found) \in Seq(Fact)
  BY <1>5, FlattenIsSeq
<1> QED
  BY <1>4, <1>6

-----------------------------------------------------------------------------
(* The first n of the list are accounted for: keys are unique, a record    *)
(* cites what those that agree with it cite, and every one of them is in   *)
(* the record of its key or a conflict.                                    *)
Agrees(r, c) == SameKey(r, c) /\ r.data = c.data
Sources(r, list, n) == UNION {list[j].cites : j \in {i \in 1 .. n : Agrees(r, list[i])}}

Accounts(b, list, n) ==
  /\ b = [records |-> b.records, conflicts |-> b.conflicts] /\ b.records \subseteq Fact
  /\ \A r, s \in b.records : SameKey(r, s) => r = s
  /\ \A r \in b.records : r.cites = Sources(r, list, n)
  /\ \A i \in 1 .. n : \E r \in b.records :
       SameKey(r, list[i]) /\ (r.data = list[i].data \/ <<list[i].table, list[i].key>> \in b.conflicts)

(* A record of the list more is one source more, or none.                  *)
LEMMA SourcesGrow ==
  ASSUME NEW r, NEW list, NEW n \in Nat
  PROVE  Sources(r, list, n + 1) = IF Agrees(r, list[n + 1])
                                   THEN Sources(r, list, n) \cup list[n + 1].cites
                                   ELSE Sources(r, list, n)
<1>1. 1 .. n + 1 = (1 .. n) \cup {n + 1}
  OBVIOUS
<1>2. CASE Agrees(r, list[n + 1])
  <2>1. {i \in 1 .. n + 1 : Agrees(r, list[i])} = {i \in 1 .. n : Agrees(r, list[i])} \cup {n + 1}
    BY <1>1, <1>2
  <2> QED
    BY <1>2, <2>1 DEF Sources
<1>3. CASE ~Agrees(r, list[n + 1])
  <2>1. {i \in 1 .. n + 1 : Agrees(r, list[i])} = {i \in 1 .. n : Agrees(r, list[i])}
    BY <1>1, <1>3
  <2> QED
    BY <1>3, <2>1 DEF Sources
<1> QED
  BY <1>2, <1>3

LEMMA AddAccounts ==
  ASSUME NEW list \in Seq(Fact), NEW n \in Nat, n + 1 \in 1 .. Len(list),
         NEW b, Accounts(b, list, n)
  PROVE  Accounts(Add(b, list[n + 1]), list, n + 1)
<1> DEFINE c == list[n + 1]
           after == Add(b, c)
<1>1. c \in Fact /\ \A i \in 1 .. n + 1 : i = n + 1 \/ i \in 1 .. n
  OBVIOUS
<1>2. \A r : SameKey(r, c) <=> r.table = c.table /\ r.key = c.key
  BY DEF SameKey
<1>3. \A r : Sources(r, list, n + 1) = IF Agrees(r, c) THEN Sources(r, list, n) \cup c.cites
                                                      ELSE Sources(r, list, n)
  BY SourcesGrow
<1> HIDE DEF c
<1>4. b = [records |-> b.records, conflicts |-> b.conflicts] /\ b.records \subseteq Fact
  BY DEF Accounts
<1>5. \A r, s \in b.records : SameKey(r, s) => r = s
  BY DEF Accounts
<1>6. \A r \in b.records : r.cites = Sources(r, list, n)
  BY DEF Accounts
<1>7. \A i \in 1 .. n : \E r \in b.records :
        /\ SameKey(r, list[i])
        /\ r.data = list[i].data \/ <<list[i].table, list[i].key>> \in b.conflicts
  BY DEF Accounts
<1>8. CASE \A s \in b.records : ~SameKey(s, c)
  <2>1. after = [b EXCEPT !.records = @ \cup {c}]
    BY <1>8 DEF Add, SameKey
  <2>2. /\ after.records = b.records \cup {c} /\ after.conflicts = b.conflicts
        /\ after = [records |-> after.records, conflicts |-> after.conflicts]
    BY <1>4, <2>1
  <2> HIDE DEF after
  <2>3. \A r, s \in after.records : SameKey(r, s) => r = s
    BY <1>8, <1>5, <2>2 DEF SameKey
  <2>4. ASSUME NEW r \in after.records PROVE r.cites = Sources(r, list, n + 1)
    <3>1. CASE r \in b.records
      BY <1>3, <1>8, <1>6, <3>1 DEF Agrees
    <3>2. CASE r = c
      <4>1. \A i \in 1 .. n : ~Agrees(c, list[i])
        BY <1>8, <1>7 DEF Agrees, SameKey
      <4>2. Sources(c, list, n) = {}
        BY <4>1 DEF Sources
      <4> QED
        BY <1>3, <3>2, <4>2 DEF Agrees, SameKey
    <3> QED
      BY <2>2, <3>1, <3>2
  <2>5. ASSUME NEW i \in 1 .. n + 1
        PROVE  \E r \in after.records :
                 /\ SameKey(r, list[i])
                 /\ r.data = list[i].data \/ <<list[i].table, list[i].key>> \in after.conflicts
    BY <1>1, <1>7, <2>2 DEF SameKey, c
  <2>6. after.records \subseteq Fact
    BY <1>1, <1>4, <2>2
  <2>7. Accounts(after, list, n + 1)
    BY <2>2, <2>3, <2>4, <2>5, <2>6 DEF Accounts
  <2> QED
    BY <2>7 DEF after, c
<1>9. CASE \E s \in b.records : SameKey(s, c)
  <2> DEFINE s == CHOOSE x \in b.records : SameKey(c, x)
  <2>1. s \in b.records /\ SameKey(s, c) /\ s \in Fact
    BY <1>9, <1>4 DEF SameKey
  <2>2. after = IF s.data = c.data
                THEN [b EXCEPT !.records = (@ \ {s}) \cup {[s EXCEPT !.cites = @ \cup c.cites]}]
                ELSE [b EXCEPT !.conflicts = @ \cup {<<c.table, c.key>>}]
    BY <1>9 DEF Add, SameKey
  <2>3. \A r \in b.records : SameKey(r, c) => r = s
    BY <1>5, <2>1 DEF SameKey
  <2> HIDE DEF s
  <2>4. CASE s.data = c.data
    <3> DEFINE m == [s EXCEPT !.cites = @ \cup c.cites]
    <3>1. /\ m \in Fact /\ m.table = s.table /\ m.key = s.key /\ m.data = s.data
          /\ m.cites = s.cites \cup c.cites
      BY <1>1, <2>1 DEF Fact
    <3>2. /\ after.records = (b.records \ {s}) \cup {m} /\ after.conflicts = b.conflicts
          /\ after = [records |-> after.records, conflicts |-> after.conflicts]
      BY <1>4, <2>2, <2>4
    <3> HIDE DEF after, m
    <3>3. \A r, q \in after.records : SameKey(r, q) => r = q
      BY <1>5, <2>1, <2>3, <3>1, <3>2 DEF SameKey
    <3>4. ASSUME NEW r \in after.records PROVE r.cites = Sources(r, list, n + 1)
      <4>1. CASE r \in b.records \ {s}
        BY <1>3, <1>6, <2>3, <4>1 DEF Agrees
      <4>2. CASE r = m
        <5>1. Agrees(m, c) /\ \A x : Agrees(m, x) <=> Agrees(s, x)
          BY <2>1, <2>4, <3>1 DEF Agrees, SameKey
        <5>2. Sources(m, list, n) = Sources(s, list, n)
          BY <5>1 DEF Sources
        <5>3. s.cites = Sources(s, list, n)
          BY <1>6, <2>1
        <5> QED
          BY <1>3, <3>1, <4>2, <5>1, <5>2, <5>3
      <4> QED
        BY <3>2, <4>1, <4>2
    <3>5. ASSUME NEW i \in 1 .. n + 1
          PROVE  \E r \in after.records :
                   /\ SameKey(r, list[i])
                   /\ r.data = list[i].data \/ <<list[i].table, list[i].key>> \in after.conflicts
      <4>1. CASE i = n + 1
        BY <2>1, <2>4, <3>1, <3>2, <4>1 DEF SameKey, c
      <4>2. CASE i \in 1 .. n
        <5>1. PICK r \in b.records :
                /\ SameKey(r, list[i])
                /\ r.data = list[i].data \/ <<list[i].table, list[i].key>> \in b.conflicts
          BY <1>7, <4>2
        <5>2. CASE r = s
          BY <3>1, <3>2, <5>1, <5>2 DEF SameKey
        <5>3. CASE r # s
          BY <3>2, <5>1, <5>3
        <5> QED
          BY <5>2, <5>3
      <4> QED
        BY <1>1, <4>1, <4>2
    <3>6. after.records \subseteq Fact
      BY <1>4, <3>1, <3>2
    <3>7. Accounts(after, list, n + 1)
      BY <3>2, <3>3, <3>4, <3>5, <3>6 DEF Accounts
    <3> QED
      BY <3>7 DEF after, c
  <2>5. CASE s.data # c.data
    <3>1. /\ after.records = b.records /\ after.conflicts = b.conflicts \cup {<<c.table, c.key>>}
          /\ after = [records |-> after.records, conflicts |-> after.conflicts]
      BY <1>4, <2>2, <2>5
    <3> HIDE DEF after
    <3>2. ASSUME NEW r \in after.records PROVE r.cites = Sources(r, list, n + 1)
      BY <1>3, <1>6, <2>3, <2>5, <3>1 DEF Agrees
    <3>3. ASSUME NEW i \in 1 .. n + 1
          PROVE  \E r \in after.records :
                   /\ SameKey(r, list[i])
                   /\ r.data = list[i].data \/ <<list[i].table, list[i].key>> \in after.conflicts
      <4>1. CASE i = n + 1
        BY <2>1, <3>1, <4>1 DEF c
      <4>2. CASE i \in 1 .. n
        BY <1>7, <3>1, <4>2
      <4> QED
        BY <1>1, <4>1, <4>2
    <3>4. Accounts(after, list, n + 1)
      BY <1>4, <1>5, <3>1, <3>2, <3>3 DEF Accounts
    <3> QED
      BY <3>4 DEF after, c
  <2> QED
    BY <2>4, <2>5
<1> QED
  BY <1>8, <1>9

(* The recursion of AddAll defines a function.                             *)
IsRun(f, list, k) ==
  f = [n \in 0 .. k |-> IF n = 0 THEN [records |-> {}, conflicts |-> {}]
                        ELSE Add(f[n - 1], list[n])]

LEMMA RunOfAddExists == ASSUME NEW list, NEW k \in Nat PROVE \E f : IsRun(f, list, k)
<1> DEFINE T == {m \in Nat : \E f : IsRun(f, list, m)}
           none == [records |-> {}, conflicts |-> {}]
<1>1. 0 \in T
  <2> DEFINE f == [n \in 0 .. 0 |-> none]
  <2>1. IsRun(f, list, 0)
    <3>1. \A n \in 0 .. 0 : n = 0
      OBVIOUS
    <3> QED
      BY <3>1 DEF IsRun
  <2> QED
    BY <2>1
<1>2. ASSUME NEW m \in Nat, m \in T PROVE m + 1 \in T
  <2>1. PICK f : IsRun(f, list, m)
    BY <1>2
  <2> DEFINE next == Add(f[m], list[m + 1])
             g == [n \in 0 .. m + 1 |-> IF n = m + 1 THEN next ELSE f[n]]
  <2> HIDE DEF next, none
  <2>2. \A n \in 0 .. m : f[n] = IF n = 0 THEN none ELSE Add(f[n - 1], list[n])
    BY <2>1 DEF IsRun, none
  <2>3. /\ g = [n \in 0 .. m + 1 |-> g[n]]
        /\ \A n \in 0 .. m + 1 : g[n] = IF n = m + 1 THEN next ELSE f[n]
    OBVIOUS
  <2> HIDE DEF g, T
  <2>4. ASSUME NEW n \in 0 .. m + 1
        PROVE  g[n] = IF n = 0 THEN none ELSE Add(g[n - 1], list[n])
    <3>1. CASE n = m + 1
      <4>1. g[n] = next /\ g[n - 1] = f[m] /\ n # 0
        BY <2>3, <3>1
      <4> QED
        BY <3>1, <4>1 DEF next
    <3>2. CASE n # m + 1
      <4>1. n \in 0 .. m /\ g[n] = f[n]
        BY <2>3, <3>2
      <4>2. n # 0 => g[n - 1] = f[n - 1]
        BY <2>3, <4>1
      <4> QED
        BY <2>2, <4>1, <4>2
    <3> QED
      BY <3>1, <3>2
  <2>5. IsRun(g, list, m + 1)
    BY <2>3, <2>4 DEF IsRun, none
  <2>6. m + 1 \in Nat
    OBVIOUS
  <2> QED
    BY <2>5, <2>6, Zenon DEF T
<1>3. Nat \subseteq T
  <2> HIDE DEF T
  <2> QED
    BY <1>1, <1>2, Induction
<1> QED
  BY <1>3

(* A build accounts for the whole list.                                    *)
LEMMA AddAllAccounts ==
  ASSUME NEW list \in Seq(Fact)
  PROVE  Accounts(AddAll(list), list, Len(list))
<1> DEFINE f == CHOOSE f : IsRun(f, list, Len(list))
           T == {n \in Nat : n <= Len(list) => Accounts(f[n], list, n)}
<1>1. Len(list) \in Nat
  OBVIOUS
<1>2. AddAll(list) = f[Len(list)]
  BY Zenon DEF AddAll, IsRun
<1>3. IsRun(f, list, Len(list))
  BY <1>1, RunOfAddExists
<1> HIDE DEF f
<1>4. /\ f[0] = [records |-> {}, conflicts |-> {}]
      /\ \A n \in 0 .. Len(list) - 1 : f[n + 1] = Add(f[n], list[n + 1])
  <2>1. /\ 0 \in 0 .. Len(list) => f[0] = [records |-> {}, conflicts |-> {}]
        /\ \A n \in 0 .. Len(list) : n # 0 => f[n] = Add(f[n - 1], list[n])
    BY <1>3, Zenon DEF IsRun
  <2>2. 0 \in 0 .. Len(list)
    BY <1>1
  <2>3. ASSUME NEW n \in 0 .. Len(list) - 1 PROVE f[n + 1] = Add(f[n], list[n + 1])
    <3>1. n + 1 \in 0 .. Len(list) /\ n + 1 # 0 /\ n + 1 - 1 = n
      BY <1>1
    <3>2. f[n + 1] = Add(f[n + 1 - 1], list[n + 1])
      BY <2>1, <3>1
    <3> QED
      BY <3>1, <3>2, Zenon
  <2> QED
    BY <2>1, <2>2, <2>3, Zenon
<1>5. 0 \in T
  BY <1>4 DEF Accounts
<1>6. ASSUME NEW n \in Nat, n \in T PROVE n + 1 \in T
  <2> SUFFICES ASSUME n + 1 <= Len(list) PROVE Accounts(f[n + 1], list, n + 1)
    OBVIOUS
  <2>1. n + 1 \in 1 .. Len(list) /\ n \in 0 .. Len(list) - 1 /\ n <= Len(list)
    BY <1>1
  <2>2. Accounts(f[n], list, n)
    BY <1>6, <2>1
  <2> QED
    BY <1>4, <2>1, <2>2, AddAccounts
<1>7. Nat \subseteq T
  <2> HIDE DEF T
  <2> QED
    BY <1>5, <1>6, Induction
<1> QED
  BY <1>1, <1>2, <1>7

-----------------------------------------------------------------------------
(* While a process builds, it holds what is to be said of the snapshot, and*)
(* what it has emitted is what it holds.                                   *)
BuildInv ==
  /\ SnapshotTyped
  /\ DOMAIN canon = Tables
  /\ built # NoBuild =>
       /\ built = Normalized
       /\ \A t \in Filled(built) \ unsent : canon[t] = TableOf(built, t)

LEMMA BuildStarts == ContentInit => BuildInv
BY DEF ContentInit, BuildInv, SnapshotTyped

LEMMA BuildStays == BuildInv /\ [ContentNext]_contentVars => BuildInv'
<1> SUFFICES ASSUME BuildInv, [ContentNext]_contentVars PROVE BuildInv'
  OBVIOUS
<1>1. UNCHANGED <<raw, proven>> => Candidates' = Candidates
  BY DEF Candidates, ListedIn, RowsOf, BuffRow, Row, Provenance
<1>2. UNCHANGED <<raw, proven>> => Normalized' = Normalized /\ SnapshotTyped'
  BY <1>1 DEF BuildInv, Normalized, SnapshotTyped
<1>3. CASE Fetched
  <2>1. PICK s \in Snapshots : raw' = s[1] /\ proven' = s[2]
    BY <1>3 DEF Fetched
  <2>2. SnapshotTyped'
    BY <2>1, ContentAssumption DEF SnapshotTyped
  <2>3. built' = NoBuild /\ DOMAIN canon' = Tables
    BY <1>3 DEF Fetched, BuildInv
  <2> QED
    BY <2>2, <2>3 DEF BuildInv
<1>4. CASE BeginBuild
  <2>1. /\ UNCHANGED <<raw, proven, canon>> /\ built' = Normalized /\ unsent' = Filled(built')
    BY <1>4 DEF BeginBuild
  <2>2. Filled(built') \ unsent' = {}
    BY <2>1
  <2> QED
    BY <1>2, <2>1, <2>2 DEF BuildInv, Filled, TableOf
<1>5. CASE \E t \in Tables : EmitTable(t)
  <2>1. PICK t \in unsent : /\ canon' = [canon EXCEPT ![t] = TableOf(built, t)]
                            /\ unsent' = unsent \ {t} /\ UNCHANGED <<raw, proven, built>>
    BY <1>5 DEF EmitTable
  <2>2. \A u \in Filled(built) \ unsent' :
          built # NoBuild => canon'[u] = TableOf(built, u)
    BY <2>1 DEF BuildInv, Filled
  <2> QED
    BY <1>2, <2>1, <2>2 DEF BuildInv, Filled, TableOf
<1>6. CASE PublishBuild \/ BuildDies
  BY <1>2, <1>6 DEF PublishBuild, BuildDies, BuildInv
<1>7. CASE Augment \/ Repin \/ UNCHANGED contentVars
  BY <1>2, <1>7 DEF Augment, Repin, contentVars, BuildInv, Filled, TableOf
<1> QED
  BY <1>3, <1>4, <1>5, <1>6, <1>7 DEF ContentNext

(* What is published accounts for the whole snapshot, however the raw      *)
(* files list and repeat each other's facts: each occurrence is in the     *)
(* record of its key with its file among the sources, or reported as a     *)
(* conflict; each record cites those that say what it says and nothing     *)
(* else; and the Canonical files say the same as the database.             *)
THEOREM PublicationsAccountForAll == ContentSpec => PublishedAccountsForAll
<1>1. BuildInv /\ [ContentNext]_contentVars => [PublicationAccounts]_contentVars
  <2> SUFFICES ASSUME BuildInv, ContentNext, built # NoBuild, db' # db PROVE PublicationAccounts
    BY DEF PublicationAccounts
  <2> DEFINE list == Candidates
  <2>1. PublishBuild
    BY DEF ContentNext, Fetched, BeginBuild, EmitTable, BuildDies, Augment, Repin
  <2>2. built = AddAll(list) /\ list \in Seq(Fact) /\ unsent = {}
    BY <2>1, CandidatesAreFacts DEF BuildInv, Normalized, PublishBuild
  <2>3. db'.records = built.records /\ db'.conflicts = built.conflicts
    BY <2>1 DEF PublishBuild
  <2>4. Accounts(built, list, Len(list))
    BY <2>2, AddAllAccounts
  <2>5. DOMAIN list = 1 .. Len(list)
    BY <2>2
  <2> HIDE DEF list
  <2>6. ASSUME NEW c \in ToSet(list)
        PROVE  \E r \in db'.records :
                 /\ SameKey(r, c)
                 /\ (r.data = c.data /\ c.cites \subseteq r.cites)
                    \/ <<c.table, c.key>> \in db'.conflicts
    <3>0. PICK i \in DOMAIN list : c = list[i]
      BY DEF ToSet
    <3>1. PICK r \in built.records :
            /\ SameKey(r, list[i])
            /\ r.data = list[i].data \/ <<list[i].table, list[i].key>> \in built.conflicts
      BY <2>4, <2>5 DEF Accounts
    <3>2. ASSUME r.data = list[i].data PROVE list[i].cites \subseteq r.cites
      BY <2>4, <2>5, <3>1, <3>2 DEF Accounts, Sources, Agrees
    <3> QED
      BY <2>3, <3>0, <3>1, <3>2
  <2>7. ASSUME NEW r \in db'.records
        PROVE  r.cites = UNION {c.cites : c \in {d \in ToSet(list) :
                                                  SameKey(r, d) /\ r.data = d.data}}
    <3>1. r.cites = Sources(r, list, Len(list))
      BY <2>3, <2>4 DEF Accounts
    <3>2. ToSet(list) = {list[i] : i \in 1 .. Len(list)}
      BY <2>5 DEF ToSet
    <3>3. {c.cites : c \in {d \in ToSet(list) : SameKey(r, d) /\ r.data = d.data}}
            = {list[j].cites : j \in {i \in 1 .. Len(list) : Agrees(r, list[i])}}
      BY <3>2 DEF Agrees
    <3> QED
      BY <3>1, <3>3 DEF Sources
  <2>8. ASSUME NEW t \in Filled(db') PROVE canon[t] = TableOf(db', t)
    <3>1. TableOf(db', t) = TableOf(built, t) /\ t \in Filled(built)
      BY <2>3 DEF TableOf, Filled
    <3> QED
      BY <2>2, <3>1 DEF BuildInv
  <2> QED
    BY <2>6, <2>7, <2>8 DEF list, PublicationAccounts
<1> QED
  BY <1>1, BuildStarts, BuildStays, PTL DEF ContentSpec, PublishedAccountsForAll
=============================================================================
