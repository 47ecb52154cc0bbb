---------------------------- MODULE ExternalFetch ----------------------------
(***************************************************************************)
(* ExternalReferenceFetcher: the cache of one pinned repository, filled by *)
(* two kinds of processes that share its manifest.json.  fetch() walks a   *)
(* fixed list of paths, fetch_explicit_paths() a family's paths with a     *)
(* small pool.  One process runs at a time; each may die at any point.     *)
(*                                                                         *)
(* A commit is immutable, so the bytes of a path are what the server sends *)
(* ("whole") or what a write that was cut short left of it ("cut"), and    *)
(* the entry of a path in the manifest is the bytes its raw_sha256 is of.  *)
(***************************************************************************)
EXTENDS Naturals, FiniteSets, SequencesExt

CONSTANTS
  Source,     \* the paths of the repository
  Pinned,     \* SOURCE_FILES: what fetch() walks
  Family,     \* what fetch_explicit_paths() is asked for, in sorted order
  Attempts,   \* attempts of one request
  PoolSize    \* worker_count

ASSUME ExternalAssumption ==
  /\ IsFiniteSet(Source)
  /\ Pinned \in Seq(Source) /\ Family \in Seq(Source)
  /\ {Attempts, PoolSize} \subseteq Nat \ {0}

VARIABLES
  cache,    \* the bytes stored under each path, "none" without a file
  listed,   \* manifest.json: the hashed bytes of each path, "none" unlisted
  cutShort, \* manifest.json is cut short
  job,      \* the process that runs: "pinned", "family" or "off"
  known,    \* the manifest it read
  entries,  \* the manifest it will write
  ahead,    \* the paths it has not looked at
  phase,    \* per path: where its download is
  failed,   \* per path: attempts of the request that failed
  putting,  \* the paths it is writing, one at most
  storing,  \* it is writing the manifest
  closing   \* ... for the last time

externalDisk == <<cache, listed, cutShort>>
downloads == <<ahead, phase, failed>>
externalVars == <<externalDisk, job, known, entries, downloads, putting, storing, closing>>

Bytes == {"none", "cut", "whole"}
Unlisted == [p \in Source |-> "none"]
Idle == [p \in Source |-> "idle"]

ExternalTypeOK ==
  /\ {cache, listed, known, entries} \subseteq [Source -> Bytes]
  /\ job \in {"off", "pinned", "family"}
  /\ ahead \in Seq(Source)
  /\ phase \in [Source -> {"idle", "pending", "contents", "blob", "raw", "arrived"}]
  /\ failed \in [Source -> 0 .. Attempts - 1]
  /\ putting \subseteq Source
  /\ {cutShort, storing, closing} \subseteq BOOLEAN

Asleep ==
  /\ known = Unlisted /\ entries = Unlisted
  /\ ahead = <<>> /\ phase = Idle /\ failed = [p \in Source |-> 0]
  /\ putting = {} /\ storing = FALSE /\ closing = FALSE

ExternalInit ==
  /\ cache = Unlisted /\ listed = Unlisted /\ cutShort = FALSE
  /\ job = "off" /\ Asleep

(* The process is gone, with all it had in memory.                         *)
Gone ==
  /\ job' = "off"
  /\ known' = Unlisted /\ entries' = Unlisted
  /\ ahead' = <<>> /\ phase' = Idle /\ failed' = [p \in Source |-> 0]
  /\ putting' = {} /\ storing' = FALSE /\ closing' = FALSE

(* It dies, or raises: the downloads that are still in the pool are waited *)
(* for and thrown away.                                                    *)
Die == job # "off" /\ Gone /\ UNCHANGED externalDisk

(* An operator frees a file of the cache, or a manifest that cannot be read.*)
FreeFile(p) ==
  /\ job = "off" /\ cache[p] # "none"
  /\ cache' = [cache EXCEPT ![p] = "none"]
  /\ UNCHANGED <<listed, cutShort, job, known, entries, downloads, putting, storing, closing>>

FreeManifest ==
  /\ job = "off" /\ cutShort
  /\ listed' = Unlisted /\ cutShort' = FALSE
  /\ UNCHANGED <<cache, job, known, entries, downloads, putting, storing, closing>>

-----------------------------------------------------------------------------
Launched(kind, paths, base) ==
  /\ job = "off" /\ ~cutShort
  /\ job' = kind /\ known' = listed /\ entries' = base /\ ahead' = paths
  /\ UNCHANGED <<externalDisk, phase, failed, putting, storing, closing>>

(* fetch() builds its manifest from nothing, fetch_explicit_paths() from   *)
(* the one it found.                                                       *)
LaunchPinned == Launched("pinned", Pinned, Unlisted)
LaunchAnew == Launched("family", Family, Unlisted)  \* mutant
LaunchFamily == Launched("family", Family, listed)

Ready == job # "off" /\ ~storing /\ putting = {}

(* fetch() downloads a file before it looks at the next one.               *)
IsNext(p) ==
  /\ Ready /\ ahead # <<>> /\ p = Head(ahead)
  /\ job = "pinned" => phase = Idle

Looks(p) == IsNext(p) /\ ahead' = Tail(ahead)

(* A stored and listed file is kept when its bytes have the listed hash... *)
KeepListed(p) ==
  /\ Looks(p) /\ cache[p] # "none" /\ known[p] = cache[p]
  /\ entries' = [entries EXCEPT ![p] = known[p]]
  /\ UNCHANGED <<externalDisk, job, known, phase, failed, putting, storing, closing>>

(* ... and ends the process when they have another one.                    *)
RefuseChanged(p) ==
  /\ IsNext(p)
  /\ cache[p] # "none" /\ known[p] \notin {"none", cache[p]}
  /\ Die

(* A stored file that is not listed is listed as it is, and saved at once. *)
AdoptUnlisted(p) ==
  /\ Looks(p) /\ cache[p] # "none" /\ known[p] = "none"
  /\ entries' = [entries EXCEPT ![p] = cache[p]]
  /\ storing' = TRUE /\ cutShort' = TRUE
  /\ UNCHANGED <<cache, listed, job, known, phase, failed, putting, closing>>

DownloadOf(p) ==
  phase' = [phase EXCEPT ![p] = IF job = "pinned" THEN "contents" ELSE "pending"]

WantUnlisted(p) ==  \* mutant
  /\ Looks(p) /\ known[p] = "none"
  /\ DownloadOf(p)
  /\ UNCHANGED <<externalDisk, job, known, entries, failed, putting, storing, closing>>

(* A file that is not stored is downloaded, listed or not.                 *)
Want(p) ==
  /\ Looks(p) /\ cache[p] = "none"
  /\ DownloadOf(p)
  /\ UNCHANGED <<externalDisk, job, known, entries, failed, putting, storing, closing>>

-----------------------------------------------------------------------------
Asking(p) == phase[p] \in {"contents", "blob", "raw"}

(* The pool takes the pending paths when all have been looked at.          *)
TakePending(p) ==
  /\ job = "family" /\ ahead = <<>> /\ phase[p] = "pending"
  /\ Cardinality({q \in Source : Asking(q)}) < PoolSize
  /\ phase' = [phase EXCEPT ![p] = "raw"]
  /\ UNCHANGED <<externalDisk, job, known, entries, ahead, failed, putting, storing, closing>>

Moved(p, to) ==
  /\ Asking(p)
  /\ phase' = [phase EXCEPT ![p] = to]
  /\ failed' = [failed EXCEPT ![p] = 0]
  /\ UNCHANGED <<externalDisk, job, known, entries, ahead, putting, storing, closing>>

Arrive(p) == Moved(p, "arrived")

(* The contents reply of a large file names its blob instead.              *)
AskForBlob(p) == phase[p] = "contents" /\ Moved(p, "blob")

(* Only the raw fallback of fetch() is tried once.                         *)
MayRetry(p) == failed[p] + 1 < Attempts /\ ~(job = "pinned" /\ phase[p] = "raw")

AskAgain(p) ==
  /\ Asking(p) /\ MayRetry(p)
  /\ failed' = [failed EXCEPT ![p] = @ + 1]
  /\ UNCHANGED <<externalDisk, job, known, entries, ahead, phase, putting, storing, closing>>

FallBack(p) == phase[p] \in {"contents", "blob"} /\ Moved(p, "raw")

(* The raw request has failed for good: the main thread raises when it     *)
(* comes to the result.                                                    *)
FailRaw(p) == Ready /\ phase[p] = "raw" /\ Die

-----------------------------------------------------------------------------
(* The main thread stores a payload, in whatever order they arrive ...     *)
BeginPut(p) ==
  /\ Ready /\ phase[p] = "arrived"
  /\ cache' = [cache EXCEPT ![p] = "cut"]
  /\ putting' = {p} /\ phase' = [phase EXCEPT ![p] = "idle"]
  /\ UNCHANGED <<listed, cutShort, job, known, entries, ahead, failed, storing, closing>>

(* ... and only then lists it, and saves the manifest.                     *)
EndPut(p) ==
  /\ p \in putting
  /\ cache' = [cache EXCEPT ![p] = "whole"]
  /\ entries' = [entries EXCEPT ![p] = "whole"]
  /\ putting' = {} /\ storing' = TRUE /\ cutShort' = TRUE
  /\ UNCHANGED <<listed, job, known, downloads, closing>>

StoreManifest ==
  /\ storing /\ ~closing
  /\ listed' = entries /\ cutShort' = FALSE /\ storing' = FALSE
  /\ UNCHANGED <<cache, job, known, entries, downloads, putting, closing>>

BeginClose ==
  /\ Ready /\ ahead = <<>> /\ phase = Idle
  /\ closing' = TRUE /\ storing' = TRUE /\ cutShort' = TRUE
  /\ UNCHANGED <<cache, listed, job, known, entries, downloads, putting>>

EndJob ==
  /\ closing
  /\ listed' = entries /\ cutShort' = FALSE
  /\ Gone /\ UNCHANGED cache

-----------------------------------------------------------------------------
OnPath(p) ==
  \/ KeepListed(p) \/ RefuseChanged(p) \/ AdoptUnlisted(p) \/ Want(p)
  \/ TakePending(p) \/ Arrive(p) \/ AskForBlob(p) \/ AskAgain(p) \/ FallBack(p) \/ FailRaw(p)
  \/ BeginPut(p) \/ EndPut(p)

JobStep == (\E p \in Source : OnPath(p)) \/ StoreManifest \/ BeginClose \/ EndJob

ExternalNext ==
  \/ JobStep \/ Die \/ LaunchPinned \/ LaunchFamily \/ FreeManifest
  \/ \E p \in Source : FreeFile(p)

(* A process that runs goes on.                                            *)
ExternalSpec == ExternalInit /\ [][ExternalNext]_externalVars /\ WF_externalVars(JobStep)

-----------------------------------------------------------------------------
(* What a process that ends well leaves on disk: every file it was asked   *)
(* for is there and listed with the hash of its bytes, and a family's      *)
(* process has lost no entry of the manifest it found -- across crashes at *)
(* any point, adopted and refetched files and payloads in any order.       *)
EndsVerified ==
  [][job # "off" /\ job' = "off" /\ closing /\ ~cutShort' =>
       /\ \A p \in ToSet(IF job = "pinned" THEN Pinned ELSE Family) :
            cache[p] # "none" /\ listed'[p] = cache[p]
       /\ job = "family" => \A p \in Source : known[p] # "none" => listed'[p] # "none"
    ]_externalVars

(* No process damages a file that was in the cache in full.                *)
WholeStaysWhole ==
  [][job # "off" => \A p \in Source : cache[p] = "whole" => cache'[p] = "whole"]_externalVars

(* A process that was started ends.                                        *)
JobEnds == job # "off" ~> job = "off"

(* "All source manifests and cached raw payload hashes are under           *)
(* .external_refs/": a process that ends well leaves no cached file        *)
(* without the hash that the manifest it found had of it.                  *)
HashesKept ==
  [][job # "off" /\ job' = "off" /\ closing /\ ~cutShort' =>
       \A p \in Source : cache[p] # "none" /\ known[p] # "none" => listed'[p] # "none"
    ]_externalVars
=============================================================================
