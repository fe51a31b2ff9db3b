------------------------------- MODULE Archiver -------------------------------
(***************************************************************************)
(* scripts/archive_codex_sessions.py: the hourly job on a Codex machine    *)
(* that uploads the rollouts it finds, publishes one marker per project,   *)
(* deletes what is archived and old, and saves its manifest.               *)
(*                                                                         *)
(* A rollout only grows: its content is the number of writes to it.  One   *)
(* write opens the file, the second completes its session_meta head; a     *)
(* file without that head cannot be placed in the bucket.  The signature   *)
(* (mtime_ns, size) of a file is its content, as is the size of a plain    *)
(* object.  Every key ends in .jsonl, so an upload is always compressed;   *)
(* the key layout also allows plain objects, which earlier uploads left.   *)
(*                                                                         *)
(* A step is one call on the file system or on R2; Codex can write         *)
(* between any two.  --dry-run, the log and the exit code are left out.    *)
(***************************************************************************)
EXTENDS Naturals

CONSTANTS
    Runs,        \* processes cron may have started
    Nobody,      \* not a process: the lock is free
    NumRollouts, \* rollouts are 1..NumRollouts, in path order
    Projects,
    ProjectOf,   \* ProjectOf[p]: the project of rollout p
    Plain,       \* the rollouts that have a plain copy from before
    Perishable,  \* bound: the rollouts the user may delete
    MaxWrites,   \* bound: writes to one rollout
    MaxFailures, \* bound: calls that raise
    MaxCrashes   \* bound: runs that die

Rollouts == 1..NumRollouts
Placeable == 2

ASSUME RolloutAssumption ==
    /\ NumRollouts \in Nat /\ ProjectOf \in [Rollouts -> Projects]
    /\ Plain \subseteq Rollouts /\ Perishable \subseteq Rollouts
    /\ MaxWrites \in Nat /\ MaxFailures \in Nat /\ MaxCrashes \in Nat
ASSUME RunAssumption == Nobody \notin Runs

VARIABLES
    (* The machine.                                                        *)
    local,    \* local[p]: the content of the file, 0 when there is none
    recent,   \* the rollouts modified since the retention cutoff
    retired,  \* the rollouts that have been deleted
    holder,   \* who holds the lock file
    (* The bucket.                                                         *)
    xz,       \* xz[p]: the content of <key>.xz, 0 when there is none
    plain,    \* plain[p]: likewise of <key>
    markers,  \* the projects that have a project.json
    saved,    \* this machine's manifest: saved[p] is the signature of <key>.xz
    (* The runs.                                                           *)
    pc, todo, projects, uploaded,
    remoteXz, remotePlain, remoteMarkers, \* list_remote's inventory
    manifest,
    cur, sig, data, seen, \* the rollout in hand, and what was read of it
    (* Bad luck.                                                           *)
    failures, crashes

machineVars == <<local, recent, retired>>
bucketVars == <<xz, plain, markers, saved>>
listVars == <<remoteXz, remotePlain, remoteMarkers, manifest>>
fileVars == <<cur, sig, data, seen>>
runVars == <<pc, todo, projects, uploaded, listVars, fileVars>>
vars == <<machineVars, holder, bucketVars, runVars, failures, crashes>>

FilePhases == {"stat", "read", "put", "twin", "age", "unlink"}
Phases == {"idle", "list", "load", "find", "scan", "markers", "save"}
              \cup FilePhases

(* A rollout in hand can be placed, or is gone by now; nothing that cannot *)
(* be placed is ever uploaded.                                             *)
HandOK(r) ==
    /\ pc[r] \in FilePhases =>
          /\ cur[r] \in Rollouts
          /\ cur[r] \in retired \/ local[cur[r]] >= Placeable
    /\ pc[r] = "put" => data[r] >= Placeable

WorldOK ==
    /\ local \in [Rollouts -> Nat]
    /\ recent \subseteq Rollouts /\ retired \subseteq Rollouts
    /\ \A p \in retired : local[p] = 0
    /\ holder \in Runs \cup {Nobody}
    /\ xz \in [Rollouts -> Nat] /\ plain \in [Rollouts -> Nat]
    /\ markers \subseteq Projects
    /\ saved \in [Rollouts -> Nat]
    /\ failures \in Nat /\ crashes \in Nat

RunsOK ==
    /\ pc \in [Runs -> Phases]
    /\ todo \in [Runs -> SUBSET Rollouts]
    /\ projects \in [Runs -> SUBSET Projects]
    /\ uploaded \in [Runs -> BOOLEAN]
    /\ remoteXz \in [Runs -> SUBSET Rollouts]
    /\ remotePlain \in [Runs -> [Rollouts -> Nat]]
    /\ remoteMarkers \in [Runs -> SUBSET Projects]
    /\ manifest \in [Runs -> [Rollouts -> Nat]]
    /\ cur \in [Runs -> Rollouts \cup {0}]
    /\ sig \in [Runs -> Nat] /\ data \in [Runs -> Nat] /\ seen \in [Runs -> Nat]

TypeOK == WorldOK /\ RunsOK /\ \A r \in Runs : HandOK(r)

Nothing == [p \in Rollouts |-> 0]

(* A rollout with a plain copy is on disk as it was copied.                *)
Init ==
    /\ local = [p \in Rollouts |-> IF p \in Plain THEN Placeable ELSE 0]
    /\ plain = local
    /\ recent = Plain /\ retired = {} /\ holder = Nobody
    /\ xz = Nothing /\ markers = {} /\ saved = Nothing
    /\ pc = [r \in Runs |-> "idle"]
    /\ todo = [r \in Runs |-> {}] /\ projects = [r \in Runs |-> {}]
    /\ uploaded = [r \in Runs |-> FALSE]
    /\ remoteXz = [r \in Runs |-> {}]
    /\ remotePlain = [r \in Runs |-> Nothing]
    /\ remoteMarkers = [r \in Runs |-> {}]
    /\ manifest = [r \in Runs |-> Nothing]
    /\ cur = [r \in Runs |-> 0] /\ sig = [r \in Runs |-> 0]
    /\ data = [r \in Runs |-> 0] /\ seen = [r \in Runs |-> 0]
    /\ failures = 0 /\ crashes = 0

-----------------------------------------------------------------------------
(* The machine: Codex opens a rollout and writes on, for as long as it     *)
(* lives; files grow old while no run has fixed its cutoff.                *)

Write(p) ==
    /\ p \notin retired /\ local[p] < MaxWrites
    /\ local' = [local EXCEPT ![p] = @ + 1]
    /\ recent' = recent \cup {p}
    /\ UNCHANGED <<retired, holder, bucketVars, runVars, failures, crashes>>

(* The user deletes a rollout.                                             *)
Vanish(p) ==
    /\ p \in Perishable /\ local[p] # 0
    /\ local' = [local EXCEPT ![p] = 0]
    /\ retired' = retired \cup {p}
    /\ UNCHANGED <<recent, holder, bucketVars, runVars, failures, crashes>>

Age(p) ==
    /\ \A r \in Runs : pc[r] = "idle"
    /\ p \in recent
    /\ recent' = recent \ {p}
    /\ UNCHANGED <<local, retired, holder, bucketVars, runVars, failures,
                   crashes>>

-----------------------------------------------------------------------------
(* One run.                                                                *)

Goto(r, place) == pc' = [pc EXCEPT ![r] = place]

(* A call raises.                                                          *)
Raises == failures < MaxFailures /\ failures' = failures + 1
NothingRaises == UNCHANGED failures

(* The end of a run, by any way out: what it knew is forgotten and the     *)
(* lock is closed.                                                         *)
RunEnds(r) ==
    /\ Goto(r, "idle")
    /\ holder' = IF holder = r THEN Nobody ELSE holder
    /\ todo' = [todo EXCEPT ![r] = {}]
    /\ projects' = [projects EXCEPT ![r] = {}]
    /\ uploaded' = [uploaded EXCEPT ![r] = FALSE]
    /\ remoteXz' = [remoteXz EXCEPT ![r] = {}]
    /\ remotePlain' = [remotePlain EXCEPT ![r] = Nothing]
    /\ remoteMarkers' = [remoteMarkers EXCEPT ![r] = {}]
    /\ manifest' = [manifest EXCEPT ![r] = Nothing]
    /\ cur' = [cur EXCEPT ![r] = 0] /\ sig' = [sig EXCEPT ![r] = 0]
    /\ data' = [data EXCEPT ![r] = 0] /\ seen' = [seen EXCEPT ![r] = 0]

(* Seeded fault: the lock is not taken.                                    *)
AcquireUnlocked(r) ==
    /\ pc[r] = "idle"
    /\ Goto(r, "list")
    /\ UNCHANGED <<machineVars, holder, bucketVars, todo, projects, uploaded,
                   listVars, fileVars, failures, crashes>>

(* acquire_lock.  A run that finds the lock taken exits with no effect.    *)
Acquire(r) ==
    /\ pc[r] = "idle" /\ holder = Nobody
    /\ holder' = r
    /\ Goto(r, "list")
    /\ UNCHANGED <<machineVars, bucketVars, todo, projects, uploaded,
                   listVars, fileVars, failures, crashes>>

ListRemote(r) ==
    /\ pc[r] = "list"
    /\ remoteXz' = [remoteXz EXCEPT ![r] = {p \in Rollouts : xz[p] # 0}]
    /\ remotePlain' = [remotePlain EXCEPT ![r] = plain]
    /\ remoteMarkers' = [remoteMarkers EXCEPT ![r] = markers]
    /\ Goto(r, "load")
    /\ UNCHANGED <<machineVars, holder, bucketVars, todo, projects, uploaded,
                   manifest, fileVars, failures, crashes>>

(* load_manifest: any exception reads as an empty manifest.                *)
LoadManifest(r) ==
    /\ pc[r] = "load"
    /\ \/ NothingRaises /\ manifest' = [manifest EXCEPT ![r] = saved]
       \/ Raises /\ manifest' = [manifest EXCEPT ![r] = Nothing]
    /\ Goto(r, "find")
    /\ UNCHANGED <<machineVars, holder, bucketVars, todo, projects, uploaded,
                   remoteXz, remotePlain, remoteMarkers, fileVars, crashes>>

FindRollouts(r) ==
    /\ pc[r] = "find"
    /\ todo' = [todo EXCEPT ![r] = {p \in Rollouts : local[p] # 0}]
    /\ Goto(r, "scan")
    /\ UNCHANGED <<machineVars, holder, bucketVars, projects, uploaded,
                   listVars, fileVars, failures, crashes>>

IsNext(r, p) == p \in todo[r] /\ \A q \in todo[r] : p <= q

(* Seeded fault: a rollout is filed although its head is not written.      *)
PlaceAnything(p) == local[p] # 0

(* rollout_key of the head read_session_meta finds.                        *)
CanPlace(p) == local[p] >= Placeable

Skip(r, p) ==
    /\ pc[r] = "scan" /\ IsNext(r, p)
    /\ ~CanPlace(p)
    /\ todo' = [todo EXCEPT ![r] = @ \ {p}]
    /\ UNCHANGED <<machineVars, holder, bucketVars, pc, projects, uploaded,
                   listVars, fileVars, failures, crashes>>

Open(r, p) ==
    /\ pc[r] = "scan" /\ IsNext(r, p)
    /\ CanPlace(p)
    /\ todo' = [todo EXCEPT ![r] = @ \ {p}]
    /\ projects' = [projects EXCEPT ![r] = @ \cup {ProjectOf[p]}]
    /\ cur' = [cur EXCEPT ![r] = p]
    /\ Goto(r, "stat")
    /\ UNCHANGED <<machineVars, holder, bucketVars, uploaded, listVars, sig,
                   data, seen, failures, crashes>>

(* On to the next rollout; what was read of this one is forgotten.         *)
NextRollout(r) ==
    /\ Goto(r, "scan")
    /\ cur' = [cur EXCEPT ![r] = 0] /\ sig' = [sig EXCEPT ![r] = 0]
    /\ data' = [data EXCEPT ![r] = 0] /\ seen' = [seen EXCEPT ![r] = 0]

(* Seeded fault: an object that exists is taken to be up to date.          *)
UpToDateIfListed(r, p, s) == p \in remoteXz[r] \/ remotePlain[r][p] # 0

(* upload_if_changed's skip: the manifest has this signature for the       *)
(* compressed object, or a plain object has this size.                     *)
UpToDate(r, p, s) ==
    \/ p \in remoteXz[r] /\ manifest[r][p] = s
    \/ remotePlain[r][p] = s

(* The signature is taken before the file is read.  A file that is gone is *)
(* not uploaded, and is_old says FALSE of it.                              *)
Stat(r) ==
    /\ pc[r] = "stat"
    /\ \/ local[cur[r]] = 0 /\ NextRollout(r)
       \/ /\ local[cur[r]] # 0
          /\ sig' = [sig EXCEPT ![r] = local[cur[r]]]
          /\ Goto(r, IF UpToDate(r, cur[r], local[cur[r]]) THEN "age" ELSE "read")
          /\ UNCHANGED <<cur, data, seen>>
    /\ UNCHANGED <<machineVars, holder, bucketVars, todo, projects, uploaded,
                   listVars, failures, crashes>>

Read(r) ==
    /\ pc[r] = "read"
    /\ \/ local[cur[r]] = 0 /\ NextRollout(r)
       \/ /\ local[cur[r]] # 0
          /\ data' = [data EXCEPT ![r] = local[cur[r]]]
          /\ Goto(r, "put")
          /\ UNCHANGED <<cur, sig, seen>>
    /\ UNCHANGED <<machineVars, holder, bucketVars, todo, projects, uploaded,
                   listVars, failures, crashes>>

(* After a put that returned.                                              *)
Stored(r) ==
    /\ xz' = [xz EXCEPT ![cur[r]] = data[r]]
    /\ remoteXz' = [remoteXz EXCEPT ![r] = @ \cup {cur[r]}]
    /\ uploaded' = [uploaded EXCEPT ![r] = TRUE]
    /\ Goto(r, IF remotePlain[r][cur[r]] # 0 THEN "twin" ELSE "age")
    /\ UNCHANGED <<machineVars, holder, plain, markers, saved, todo, projects,
                   remotePlain, remoteMarkers, fileVars, failures, crashes>>

(* Seeded fault: the file is statted again for the manifest.               *)
PutStatsAgain(r) ==
    /\ pc[r] = "put"
    /\ manifest' = [manifest EXCEPT ![r][cur[r]] = local[cur[r]]]
    /\ Stored(r)

(* _store_compressed.                                                      *)
Put(r) ==
    /\ pc[r] = "put"
    /\ manifest' = [manifest EXCEPT ![r][cur[r]] = sig[r]]
    /\ Stored(r)

(* A put that raised may or may not have reached the bucket.               *)
MayBeStored(r) ==
    /\ pc[r] = "put" /\ Raises
    /\ \/ xz' = [xz EXCEPT ![cur[r]] = data[r]]
       \/ UNCHANGED xz
    /\ UNCHANGED <<machineVars, holder, plain, markers, saved, todo, projects,
                   uploaded, listVars, crashes>>

(* Seeded fault: a failed upload goes on to the retention gate.            *)
PutFailsAndRetires(r) ==
    /\ MayBeStored(r)
    /\ Goto(r, "age") /\ UNCHANGED fileVars

(* The upload raises: the rollout is left alone until the next run.        *)
PutFails(r) == MayBeStored(r) /\ NextRollout(r)

(* _drop_stale_twin: a failed delete, which may have been done, is only    *)
(* logged.                                                                 *)
DropTwin(r) ==
    /\ pc[r] = "twin"
    /\ \/ /\ NothingRaises
          /\ plain' = [plain EXCEPT ![cur[r]] = 0]
          /\ remotePlain' = [remotePlain EXCEPT ![r][cur[r]] = 0]
       \/ /\ Raises
          /\ plain' = [plain EXCEPT ![cur[r]] = 0] \/ UNCHANGED plain
          /\ UNCHANGED remotePlain
    /\ Goto(r, "age")
    /\ UNCHANGED <<machineVars, holder, xz, markers, saved, todo, projects,
                   uploaded, remoteXz, remoteMarkers, manifest, fileVars,
                   crashes>>

(* _retire_local's conditions: modified before the cutoff, and in the      *)
(* inventory under one of its keys.                                        *)
MayRetire(r, p) ==
    /\ local[p] # 0 /\ p \notin recent
    /\ p \in remoteXz[r] \/ remotePlain[r][p] # 0

CheckAge(r) ==
    /\ pc[r] = "age"
    /\ \/ ~MayRetire(r, cur[r]) /\ NextRollout(r)
       \/ /\ MayRetire(r, cur[r])
          /\ seen' = [seen EXCEPT ![r] = local[cur[r]]]
          /\ Goto(r, "unlink")
          /\ UNCHANGED <<cur, sig, data>>
    /\ UNCHANGED <<machineVars, holder, bucketVars, todo, projects, uploaded,
                   listVars, failures, crashes>>

(* path.unlink(), whose failure is only logged.                            *)
Unlink(r) ==
    /\ pc[r] = "unlink"
    /\ \/ local[cur[r]] = 0 /\ NothingRaises /\ UNCHANGED <<local, retired>>
       \/ /\ local[cur[r]] # 0 /\ NothingRaises
          /\ local' = [local EXCEPT ![cur[r]] = 0]
          /\ retired' = retired \cup {cur[r]}
       \/ local[cur[r]] # 0 /\ Raises /\ UNCHANGED <<local, retired>>
    /\ NextRollout(r)
    /\ UNCHANGED <<recent, holder, bucketVars, todo, projects, uploaded,
                   listVars, crashes>>

ScanDone(r) ==
    /\ pc[r] = "scan" /\ todo[r] = {}
    /\ Goto(r, "markers")
    /\ UNCHANGED <<machineVars, holder, bucketVars, todo, projects, uploaded,
                   listVars, fileVars, failures, crashes>>

(* _upload_markers, for the projects of the rollouts of this run; a marker *)
(* in the inventory has the size of its body.                              *)
PutMarker(r, j) ==
    /\ pc[r] = "markers" /\ j \in projects[r]
    /\ projects' = [projects EXCEPT ![r] = @ \ {j}]
    /\ \/ j \in remoteMarkers[r] /\ NothingRaises /\ UNCHANGED <<markers, uploaded>>
       \/ /\ j \notin remoteMarkers[r] /\ NothingRaises
          /\ markers' = markers \cup {j}
          /\ uploaded' = [uploaded EXCEPT ![r] = TRUE]
       \/ /\ j \notin remoteMarkers[r] /\ Raises
          /\ markers' = markers \cup {j} \/ UNCHANGED markers
          /\ UNCHANGED uploaded
    /\ UNCHANGED <<machineVars, holder, xz, plain, saved, pc, todo, listVars,
                   fileVars, crashes>>

MarkersDone(r) ==
    /\ pc[r] = "markers" /\ projects[r] = {}
    /\ Goto(r, "save")
    /\ UNCHANGED <<machineVars, holder, bucketVars, todo, projects, uploaded,
                   listVars, fileVars, failures, crashes>>

(* save_manifest, when anything was uploaded; then the lock is closed.     *)
SaveManifest(r) ==
    /\ pc[r] = "save"
    /\ saved' = IF uploaded[r] THEN manifest[r] ELSE saved
    /\ RunEnds(r)
    /\ UNCHANGED <<machineVars, xz, plain, markers, failures, crashes>>

(* The process is killed, or list_remote or save_manifest raises.          *)
Crash(r) ==
    /\ pc[r] # "idle"
    /\ crashes < MaxCrashes /\ crashes' = crashes + 1
    /\ RunEnds(r)
    /\ UNCHANGED <<machineVars, bucketVars, failures>>

-----------------------------------------------------------------------------
FileStep(r) ==
    \/ \E p \in Rollouts : Skip(r, p) \/ Open(r, p)
    \/ Stat(r) \/ Read(r) \/ Put(r) \/ DropTwin(r)
    \/ CheckAge(r) \/ Unlink(r)

RunStep(r) ==
    \/ Acquire(r) \/ ListRemote(r) \/ LoadManifest(r) \/ FindRollouts(r)
    \/ FileStep(r) \/ ScanDone(r)
    \/ \E j \in Projects : PutMarker(r, j)
    \/ MarkersDone(r) \/ SaveManifest(r)

Next ==
    \/ \E p \in Rollouts : Write(p) \/ Vanish(p) \/ Age(p)
    \/ \E r \in Runs : RunStep(r) \/ PutFails(r) \/ Crash(r)

Spec == Init /\ [][Next]_vars

(* Cron starts a run every hour, and the run that has the lock goes on.    *)
Fairness == WF_vars(\E r \in Runs : RunStep(r))
FairSpec == Spec /\ Fairness

-----------------------------------------------------------------------------
(* PROPERTIES                                                              *)

LargerOf(a, b) == IF a >= b THEN a ELSE b
Archived(p) == LargerOf(xz[p], plain[p])

(* A signature in the saved manifest is never ahead of the object it       *)
(* describes, so that a match really means "nothing to upload": a write    *)
(* between stat and read, a crash between put and save, a lost manifest    *)
(* and overlapping cron starts included.                                   *)
ManifestSound == \A p \in Rollouts : saved[p] <= xz[p]

(* The bucket never forgets: no step leaves a rollout with less in the     *)
(* bucket than before, neither an upload nor the deletion of the other     *)
(* storage form.  The lock is what makes this so.                          *)
BucketNeverForgets == [][\A p \in Rollouts : Archived(p)' >= Archived(p)]_vars

(* A failed upload never takes the only copy: what the retention gate saw  *)
(* of a file is in the bucket when the file is deleted.                    *)
RetireSafe ==
    [][\A r \in Runs :
         pc[r] = "unlink" /\ local[cur[r]] # 0 /\ local'[cur[r]] = 0
             => Archived(cur[r]) >= seen[r]]_vars

(* Once Codex rests, whatever is on disk and can be placed is in the       *)
(* bucket, after any crashes and failed calls.                             *)
Settles ==
    <>[](\A p \in Rollouts : CanPlace(p) => Archived(p) >= local[p])

-----------------------------------------------------------------------------
(* The inductive form of the three.  Nobody but the holder of the lock is  *)
(* in a run; nothing in the bucket is ahead of the file it came from; what *)
(* a run knows of the bucket is not ahead of the bucket; and a file that   *)
(* is not recent has not been written since its signature was taken.       *)
OneRun == \A r \in Runs : pc[r] # "idle" => holder = r

BucketBehind ==
    \A p \in Rollouts \ retired : xz[p] <= local[p] /\ plain[p] <= local[p]

KnownIsStored ==
    \A r \in Runs, p \in Rollouts :
        /\ manifest[r][p] <= xz[p]
        /\ p \in remoteXz[r] => xz[p] # 0
        /\ remotePlain[r][p] <= Archived(p)

Unchanged(r) ==
    cur[r] \in recent \/ local[cur[r]] = 0 \/ local[cur[r]] = sig[r]

InHand(r) ==
    /\ pc[r] \in FilePhases \ {"stat"} => Unchanged(r)
    /\ pc[r] = "read" => cur[r] \in retired \/ sig[r] <= local[cur[r]]
    /\ pc[r] = "put" =>
          /\ sig[r] <= data[r]
          /\ cur[r] \in retired \/ data[r] <= local[cur[r]]
          /\ xz[cur[r]] <= data[r] /\ plain[cur[r]] <= data[r]
    /\ pc[r] = "twin" =>
          sig[r] <= xz[cur[r]] /\ plain[cur[r]] <= xz[cur[r]]
    /\ pc[r] = "age" => sig[r] <= Archived(cur[r])
    /\ pc[r] = "unlink" => seen[r] <= Archived(cur[r])

ArchiveInv ==
    /\ OneRun /\ BucketBehind /\ KnownIsStored /\ ManifestSound
    /\ \A r \in Runs : InHand(r)
=============================================================================
