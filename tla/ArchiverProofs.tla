---------------------------- MODULE ArchiverProofs ----------------------------
(***************************************************************************)
(* What the archiver guarantees whatever the number of rollouts, projects  *)
(* and overlapping cron starts: its types, a manifest that is never ahead  *)
(* of the bucket, a bucket that never forgets, and a retention gate that   *)
(* never deletes what is not archived.                                     *)
(***************************************************************************)
EXTENDS Archiver, TLAPS

LEMMA NothingTyped == Nothing \in [Rollouts -> Nat]
BY DEF Nothing

LEMMA InitTypeOK == Init => TypeOK
<1> SUFFICES ASSUME Init PROVE TypeOK
  OBVIOUS
<1>1. WorldOK
  <2>1. local \in [Rollouts -> Nat] /\ plain \in [Rollouts -> Nat]
    BY DEF Init, Placeable
  <2>2. recent \subseteq Rollouts
    BY RolloutAssumption DEF Init
  <2>3. QED
    BY <2>1, <2>2, NothingTyped DEF Init, WorldOK
<1>2. RunsOK
  BY NothingTyped DEF Init, RunsOK, Phases
<1>3. ASSUME NEW r \in Runs PROVE HandOK(r)
  BY DEF Init, HandOK, FilePhases
<1>4. QED
  BY <1>1, <1>2, <1>3 DEF TypeOK

(* What one run does leaves the others where they are; and a rollout in a  *)
(* run's hand stays placeable, or goes, whatever Codex and the runs do.    *)
LEMMA OthersKeepHandOK ==
  ASSUME NEW r \in Runs, HandOK(r),
         pc'[r] = pc[r], cur'[r] = cur[r], data'[r] = data[r],
         retired \subseteq retired',
         \A p \in Rollouts \ retired' :
           local'[p] \in Nat /\ local[p] \in Nat /\ local'[p] >= local[p]
  PROVE  HandOK(r)'
BY DEF HandOK, Placeable

(* The files a step of a run leaves alone or deletes.                      *)
FilesKept == UNCHANGED <<local, retired>>

LEMMA RunKeepsHandOK ==
  ASSUME TypeOK, NEW r \in Runs, FilesKept, HandOK(r)',
         \A q \in Runs \ {r} :
           pc'[q] = pc[q] /\ cur'[q] = cur[q] /\ data'[q] = data[q]
  PROVE  \A q \in Runs : HandOK(q)'
BY DEF TypeOK, HandOK, FilesKept

LEMMA StartTypeOK ==
  ASSUME TypeOK, NEW r \in Runs,
         Acquire(r) \/ ListRemote(r) \/ LoadManifest(r) \/ FindRollouts(r)
           \/ ScanDone(r) \/ MarkersDone(r)
           \/ \E j \in Projects : PutMarker(r, j)
  PROVE  TypeOK'
<1> USE DEF TypeOK, machineVars, bucketVars, listVars, fileVars
<1>1. WorldOK' /\ pc \in [Runs -> Phases]
  BY RolloutAssumption
  DEF WorldOK, RunsOK, Acquire, ListRemote, LoadManifest, FindRollouts,
      ScanDone, MarkersDone, PutMarker, Raises, NothingRaises
<1>2. RunsOK'
  <2> USE DEF RunsOK, Goto, Phases
  <2>1. CASE Acquire(r)
    BY <2>1 DEF Acquire
  <2>2. CASE ListRemote(r)
    BY <2>2 DEF ListRemote, WorldOK
  <2>3. CASE LoadManifest(r)
    <3>1. manifest' \in [Runs -> [Rollouts -> Nat]]
      BY <2>3, NothingTyped DEF LoadManifest, WorldOK
    <3>2. pc' \in [Runs -> Phases]
      BY <2>3 DEF LoadManifest
    <3> QED
      BY <2>3, <3>1, <3>2 DEF LoadManifest
  <2>4. CASE FindRollouts(r)
    BY <2>4 DEF FindRollouts
  <2>5. CASE ScanDone(r) \/ MarkersDone(r)
    BY <2>5 DEF ScanDone, MarkersDone
  <2>6. ASSUME NEW j \in Projects, PutMarker(r, j) PROVE RunsOK'
    BY <2>6 DEF PutMarker
  <2>7. QED
    BY <2>1, <2>2, <2>3, <2>4, <2>5, <2>6
<1>3. \A q \in Runs : HandOK(q)'
  <2>1. /\ FilesKept /\ cur' = cur /\ data' = data
        /\ \A q \in Runs \ {r} : pc'[q] = pc[q]
        /\ pc'[r] \notin FilePhases
    BY <1>1
    DEF Acquire, ListRemote, LoadManifest, FindRollouts, ScanDone,
        MarkersDone, PutMarker, Goto, FilePhases, FilesKept
  <2>2. HandOK(r)'
    BY <2>1 DEF HandOK, FilePhases
  <2>3. QED
    BY <2>1, <2>2, RunKeepsHandOK
<1>4. QED
  BY <1>1, <1>2, <1>3

(* On to the next rollout.                                                 *)
LEMMA NextRolloutTypeOK ==
  ASSUME RunsOK, NEW r \in Runs, NextRollout(r),
         UNCHANGED <<todo, projects, uploaded, listVars>>
  PROVE  /\ RunsOK' /\ HandOK(r)' /\ pc'[r] = "scan"
         /\ \A q \in Runs \ {r} :
              pc'[q] = pc[q] /\ cur'[q] = cur[q] /\ data'[q] = data[q]
<1>1. RunsOK'
  BY DEF RunsOK, NextRollout, Goto, listVars, Phases
<1>2. pc'[r] = "scan"
  BY DEF RunsOK, NextRollout, Goto
<1>3. HandOK(r)'
  BY <1>2 DEF HandOK, FilePhases
<1>4. QED
  BY <1>1, <1>2, <1>3 DEF RunsOK, NextRollout, Goto

LEMMA FileTypeOK ==
  ASSUME TypeOK, NEW r \in Runs, FileStep(r) \/ PutFails(r)
  PROVE  TypeOK'
<1> USE DEF TypeOK, machineVars, bucketVars, listVars, fileVars
<1> DEFINE Same == \A q \in Runs \ {r} :
                     pc'[q] = pc[q] /\ cur'[q] = cur[q] /\ data'[q] = data[q]
<1>1. ASSUME NEW p \in Rollouts, Skip(r, p) PROVE TypeOK'
  <2>1. WorldOK' /\ RunsOK' /\ FilesKept /\ Same
    BY <1>1 DEF Skip, WorldOK, RunsOK, FilesKept
  <2>2. HandOK(r)'
    BY <1>1 DEF Skip, HandOK
  <2>3. QED
    BY <2>1, <2>2, RunKeepsHandOK
<1>2. ASSUME NEW p \in Rollouts, Open(r, p) PROVE TypeOK'
  <2>1. WorldOK' /\ FilesKept /\ Same
    BY <1>2 DEF Open, Goto, WorldOK, RunsOK, FilesKept
  <2>2. RunsOK'
    BY <1>2, RolloutAssumption DEF Open, Goto, RunsOK, Phases, FilePhases
  <2>3. HandOK(r)'
    BY <1>2 DEF Open, Goto, HandOK, RunsOK, CanPlace
  <2>4. QED
    BY <2>1, <2>2, <2>3, RunKeepsHandOK
<1>3. CASE Stat(r)
  <2>1. WorldOK' /\ FilesKept
    BY <1>3 DEF Stat, WorldOK, FilesKept
  <2>2. CASE NextRollout(r)
    BY <1>3, <2>1, <2>2, NextRolloutTypeOK, RunKeepsHandOK DEF Stat
  <2>3. CASE local[cur[r]] # 0
    <3>1. local[cur[r]] \in Nat
      BY <1>3 DEF Stat, WorldOK, HandOK, FilePhases
    <3>2. RunsOK' /\ Same
      BY <1>3, <2>3, <3>1 DEF Stat, Goto, RunsOK, Phases, FilePhases
    <3>3. HandOK(r)'
      BY <1>3, <2>3 DEF Stat, Goto, HandOK, RunsOK, FilePhases
    <3>4. QED
      BY <2>1, <3>2, <3>3, RunKeepsHandOK
  <2>4. QED
    BY <1>3, <2>2, <2>3 DEF Stat
<1>4. CASE Read(r)
  <2>1. WorldOK' /\ FilesKept
    BY <1>4 DEF Read, WorldOK, FilesKept
  <2>2. CASE NextRollout(r)
    BY <1>4, <2>1, <2>2, NextRolloutTypeOK, RunKeepsHandOK DEF Read
  <2>3. CASE local[cur[r]] # 0
    <3>1. local[cur[r]] \in Nat /\ local[cur[r]] >= Placeable
      BY <1>4, <2>3 DEF Read, WorldOK, HandOK, FilePhases
    <3>2. RunsOK' /\ Same
      BY <1>4, <2>3, <3>1 DEF Read, Goto, RunsOK, Phases, FilePhases
    <3>3. HandOK(r)'
      BY <1>4, <2>3, <3>1 DEF Read, Goto, HandOK, RunsOK, FilePhases
    <3>4. QED
      BY <2>1, <3>2, <3>3, RunKeepsHandOK
  <2>4. QED
    BY <1>4, <2>2, <2>3 DEF Read
<1>5. CASE Put(r)
  <2>1. WorldOK' /\ FilesKept
    BY <1>5 DEF Put, Stored, WorldOK, RunsOK, HandOK, FilesKept, FilePhases
  <2>2. RunsOK' /\ Same
    BY <1>5 DEF Put, Stored, Goto, RunsOK, HandOK, Phases, FilePhases
  <2>3. HandOK(r)'
    BY <1>5 DEF Put, Stored, Goto, HandOK, RunsOK, FilePhases
  <2>4. QED
    BY <2>1, <2>2, <2>3, RunKeepsHandOK
<1>6. CASE PutFails(r)
  <2>1. WorldOK' /\ FilesKept
    BY <1>6, RolloutAssumption
    DEF PutFails, MayBeStored, Raises, WorldOK, RunsOK, FilesKept
  <2>2. QED
    BY <1>6, <2>1, NextRolloutTypeOK, RunKeepsHandOK DEF PutFails, MayBeStored
<1>7. CASE DropTwin(r)
  <2>1. WorldOK' /\ FilesKept
    BY <1>7, RolloutAssumption
    DEF DropTwin, Raises, NothingRaises, WorldOK, FilesKept
  <2>2. remotePlain' \in [Runs -> [Rollouts -> Nat]]
    <3>1. CASE remotePlain' = remotePlain
      BY <3>1 DEF RunsOK
    <3>2. CASE remotePlain' = [remotePlain EXCEPT ![r][cur[r]] = 0]
      BY <3>2 DEF RunsOK
    <3>3. QED
      BY <1>7, <3>1, <3>2 DEF DropTwin
  <2>3. RunsOK' /\ Same
    BY <1>7, <2>2 DEF DropTwin, Goto, RunsOK, Phases, FilePhases
  <2>4. HandOK(r)'
    BY <1>7 DEF DropTwin, Goto, HandOK, RunsOK, FilePhases
  <2>5. QED
    BY <2>1, <2>3, <2>4, RunKeepsHandOK
<1>8. CASE CheckAge(r)
  <2>1. WorldOK' /\ FilesKept
    BY <1>8 DEF CheckAge, WorldOK, FilesKept
  <2>2. CASE NextRollout(r)
    BY <1>8, <2>1, <2>2, NextRolloutTypeOK, RunKeepsHandOK DEF CheckAge
  <2>3. CASE MayRetire(r, cur[r]) /\ ~NextRollout(r)
    <3>1. local[cur[r]] \in Nat
      BY <1>8 DEF CheckAge, WorldOK, HandOK, FilePhases
    <3>2. RunsOK' /\ Same
      BY <1>8, <2>3, <3>1 DEF CheckAge, Goto, RunsOK, Phases, FilePhases
    <3>3. HandOK(r)'
      BY <1>8, <2>3 DEF CheckAge, Goto, HandOK, RunsOK, FilePhases
    <3>4. QED
      BY <2>1, <3>2, <3>3, RunKeepsHandOK
  <2>4. QED
    BY <1>8, <2>2, <2>3 DEF CheckAge
<1>9. CASE Unlink(r)
  <2>1. RunsOK' /\ HandOK(r)' /\ Same
    BY <1>9, NextRolloutTypeOK DEF Unlink
  <2>2. cur[r] \in Rollouts
    BY <1>9 DEF Unlink, HandOK, FilePhases
  <2>3. WorldOK'
    BY <1>9, <2>2, RolloutAssumption
    DEF Unlink, Raises, NothingRaises, WorldOK
  <2>4. /\ retired \subseteq retired'
        /\ \A p \in Rollouts \ retired' : local'[p] = local[p]
    BY <1>9, <2>2 DEF Unlink, WorldOK
  <2>5. ASSUME NEW q \in Runs, q # r PROVE HandOK(q)'
    BY <2>1, <2>3, <2>4, <2>5, OthersKeepHandOK DEF WorldOK
  <2>6. QED
    BY <2>1, <2>3, <2>5
<1>10. QED
  BY <1>1, <1>2, <1>3, <1>4, <1>5, <1>6, <1>7, <1>8, <1>9,
     FileStep(r) \/ PutFails(r)
  DEF FileStep

(* The end of a run.                                                       *)
LEMMA RunEndsTypeOK ==
  ASSUME TypeOK, NEW r \in Runs, RunEnds(r), WorldOK', FilesKept
  PROVE  TypeOK'
<1>1. RunsOK'
  BY NothingTyped DEF TypeOK, RunsOK, RunEnds, Goto, Phases
<1>2. HandOK(r)'
  BY DEF TypeOK, RunsOK, RunEnds, Goto, HandOK, FilePhases
<1>3. \A q \in Runs : HandOK(q)'
  BY <1>2, RunKeepsHandOK DEF TypeOK, RunsOK, RunEnds, Goto
<1>4. QED
  BY <1>1, <1>3 DEF TypeOK

LEMMA NextTypeOK == TypeOK /\ [Next]_vars => TypeOK'
<1> SUFFICES ASSUME TypeOK, [Next]_vars PROVE TypeOK'
  OBVIOUS
<1> USE DEF bucketVars, machineVars
<1>1. ASSUME NEW p \in Rollouts, Write(p) \/ Vanish(p) \/ Age(p) PROVE TypeOK'
  <2>1. WorldOK'
    BY <1>1 DEF Write, Vanish, Age, TypeOK, WorldOK
  <2>2. UNCHANGED runVars
    BY <1>1 DEF Write, Vanish, Age
  <2>3. /\ retired \subseteq retired'
        /\ \A q \in Rollouts \ retired' : local'[q] >= local[q]
    BY <1>1 DEF Write, Vanish, Age, TypeOK, WorldOK
  <2>4. ASSUME NEW r \in Runs PROVE HandOK(r)'
    BY <2>1, <2>2, <2>3, OthersKeepHandOK DEF TypeOK, WorldOK, runVars, fileVars
  <2>5. QED
    BY <2>1, <2>2, <2>4 DEF TypeOK, RunsOK, runVars, listVars, fileVars
<1>2. ASSUME NEW r \in Runs, SaveManifest(r) PROVE TypeOK'
  BY <1>2, RunEndsTypeOK
  DEF SaveManifest, RunEnds, TypeOK, WorldOK, RunsOK, FilesKept
<1>3. ASSUME NEW r \in Runs, Crash(r) PROVE TypeOK'
  <2>1. WorldOK'
    BY <1>3, RolloutAssumption DEF Crash, RunEnds, TypeOK, WorldOK
  <2>2. QED
    BY <1>3, <2>1, RunEndsTypeOK DEF Crash, FilesKept
<1>4. CASE UNCHANGED vars
  BY <1>4 DEF vars, runVars, listVars, fileVars, TypeOK, WorldOK, RunsOK, HandOK
<1>5. QED
  BY <1>1, <1>2, <1>3, <1>4, StartTypeOK, FileTypeOK DEF Next, RunStep

(* The state of the machine, the bucket and the runs stays typed, and only *)
(* a rollout whose head is written is ever uploaded.                       *)
THEOREM TypeCorrect == Spec => []TypeOK
BY InitTypeOK, NextTypeOK, PTL DEF Spec

-----------------------------------------------------------------------------
(* The archive: the lock, and who is ahead of whom.                        *)

LEMMA InitArchiveInv == Init => ArchiveInv
<1> SUFFICES ASSUME Init PROVE ArchiveInv
  OBVIOUS
<1>1. OneRun /\ ManifestSound
  BY DEF Init, OneRun, ManifestSound, Nothing
<1>2. BucketBehind
  BY DEF Init, BucketBehind, Nothing, Placeable
<1>3. KnownIsStored
  BY DEF Init, KnownIsStored, Nothing, Archived, LargerOf, Placeable
<1>4. ASSUME NEW r \in Runs PROVE InHand(r)
  BY DEF Init, InHand, FilePhases
<1>5. QED
  BY <1>1, <1>2, <1>3, <1>4 DEF ArchiveInv

(* A step of run r that is not its first moves no other run and leaves the *)
(* lock with r, or closes it.                                              *)
LEMMA OneRunKept == TypeOK /\ OneRun /\ [Next]_vars => OneRun'
<1> SUFFICES ASSUME TypeOK, OneRun, [Next]_vars PROVE OneRun'
  OBVIOUS
<1> USE DEF OneRun, TypeOK, RunsOK
<1>1. ASSUME NEW r \in Runs, Acquire(r) PROVE OneRun'
  <2>1. \A q \in Runs : pc[q] = "idle"
    BY <1>1, RunAssumption DEF Acquire
  <2>2. QED
    BY <1>1, <2>1 DEF Acquire, Goto
<1>2. ASSUME NEW r \in Runs, RunEnds(r), pc[r] # "idle" PROVE OneRun'
  BY <1>2 DEF RunEnds, Goto
<1>3. ASSUME NEW r \in Runs, pc[r] # "idle", holder' = holder,
             \A q \in Runs \ {r} : pc'[q] = pc[q]
      PROVE  OneRun'
  BY <1>3
<1>4. CASE pc' = pc /\ holder' = holder
  BY <1>4
<1>5. ASSUME NEW r \in Runs, RunStep(r) \/ PutFails(r) \/ Crash(r)
      PROVE  OneRun'
  <2>1. CASE Acquire(r)
    BY <1>1, <2>1
  <2>2. CASE SaveManifest(r) \/ Crash(r)
    BY <1>2, <2>2 DEF SaveManifest, Crash
  <2>3. CASE ListRemote(r) \/ LoadManifest(r) \/ FindRollouts(r)
             \/ ScanDone(r) \/ MarkersDone(r)
             \/ \E j \in Projects : PutMarker(r, j)
    BY <1>3, <2>3
    DEF ListRemote, LoadManifest, FindRollouts, ScanDone, MarkersDone,
        PutMarker, Goto
  <2>4. CASE FileStep(r) \/ PutFails(r)
    BY <1>3, <2>4
    DEF FileStep, Skip, Open, Stat, Read, Put, Stored, PutFails, MayBeStored,
        DropTwin, CheckAge, Unlink, NextRollout, Goto
  <2>5. QED
    BY <1>5, <2>1, <2>2, <2>3, <2>4 DEF RunStep
<1>6. ASSUME NEW p \in Rollouts, Write(p) \/ Vanish(p) \/ Age(p) PROVE OneRun'
  BY <1>4, <1>6 DEF Write, Vanish, Age, runVars
<1>7. QED
  BY <1>4, <1>5, <1>6 DEF Next, vars, runVars

(* What a step does to the bucket's copies of rollouts.                    *)
CopiesKept == UNCHANGED <<xz, plain>>
CopyStored(r) ==
    /\ pc[r] = "put" /\ xz' = [xz EXCEPT ![cur[r]] = data[r]]
    /\ UNCHANGED plain
TwinDropped(r) ==
    /\ pc[r] = "twin" /\ plain' = [plain EXCEPT ![cur[r]] = 0]
    /\ UNCHANGED xz

LEMMA BucketSteps ==
  ASSUME [Next]_vars
  PROVE  \/ CopiesKept
         \/ \E r \in Runs : /\ CopyStored(r) \/ TwinDropped(r)
                            /\ FilesKept /\ UNCHANGED recent
<1> USE DEF CopiesKept, CopyStored, TwinDropped, FilesKept, machineVars,
            bucketVars
<1>1. ASSUME NEW r \in Runs, FileStep(r) \/ PutFails(r)
      PROVE  \/ CopiesKept
             \/ /\ CopyStored(r) \/ TwinDropped(r)
                /\ FilesKept /\ UNCHANGED recent
  BY <1>1
  DEF FileStep, Skip, Open, Stat, Read, Put, Stored, PutFails, MayBeStored,
      DropTwin, CheckAge, Unlink
<1>2. ASSUME NEW r \in Runs, RunStep(r) \/ Crash(r), ~FileStep(r)
      PROVE  CopiesKept
  BY <1>2
  DEF RunStep, Acquire, ListRemote, LoadManifest, FindRollouts, ScanDone,
      MarkersDone, PutMarker, SaveManifest, Crash
<1>3. ASSUME NEW p \in Rollouts, Write(p) \/ Vanish(p) \/ Age(p)
      PROVE  CopiesKept
  BY <1>3 DEF Write, Vanish, Age
<1>4. CASE UNCHANGED vars
  BY <1>4 DEF vars
<1>5. QED
  BY <1>1, <1>2, <1>3, <1>4 DEF Next

(* No step leaves the bucket with less of a rollout.                       *)
LEMMA CopiesGrow ==
  ASSUME TypeOK, ArchiveInv, [Next]_vars, NEW p \in Rollouts
  PROVE  /\ xz[p] <= xz'[p] /\ Archived(p) <= Archived(p)'
         /\ xz'[p] \in Nat /\ Archived(p) \in Nat /\ Archived(p)' \in Nat
<1> USE DEF TypeOK, WorldOK, Archived, LargerOf
<1>1. CASE CopiesKept
  BY <1>1 DEF CopiesKept
<1>2. ASSUME NEW r \in Runs, CopyStored(r) PROVE xz[p] <= xz'[p] /\ Archived(p) <= Archived(p)'
  BY <1>2 DEF CopyStored, ArchiveInv, InHand, RunsOK
<1>3. ASSUME NEW r \in Runs, TwinDropped(r) PROVE xz[p] <= xz'[p] /\ Archived(p) <= Archived(p)'
  BY <1>3 DEF TwinDropped, ArchiveInv, InHand
<1>4. xz'[p] \in Nat /\ plain'[p] \in Nat
  BY NextTypeOK
<1>5. QED
  BY <1>1, <1>2, <1>3, <1>4, BucketSteps

(* A file a step neither deletes nor has deleted only grows.               *)
LEMMA FilesGrow ==
  ASSUME TypeOK, [Next]_vars, NEW p \in Rollouts, p \notin retired'
  PROVE  /\ p \notin retired /\ local[p] <= local'[p]
         /\ local[p] \in Nat /\ local'[p] \in Nat
<1> USE DEF TypeOK, WorldOK
<1>1. \/ FilesKept
      \/ \E q \in Rollouts : Write(q) \/ Vanish(q)
      \/ \E r \in Runs : Unlink(r)
  BY DEF Next, Age, RunStep, FileStep, Acquire, ListRemote, LoadManifest,
         FindRollouts, Skip, Open, Stat, Read, Put, Stored, DropTwin,
         CheckAge, ScanDone, PutMarker, MarkersDone, SaveManifest, PutFails,
         MayBeStored, Crash, machineVars, vars, FilesKept
<1>2. ASSUME NEW q \in Rollouts, Write(q) \/ Vanish(q)
      PROVE  p \notin retired /\ local[p] <= local'[p]
  BY <1>2 DEF Write, Vanish
<1>3. ASSUME NEW r \in Runs, Unlink(r)
      PROVE  p \notin retired /\ local[p] <= local'[p]
  BY <1>3 DEF Unlink
<1>4. local'[p] \in Nat
  BY NextTypeOK
<1>5. QED
  BY <1>1, <1>2, <1>3, <1>4 DEF FilesKept

LEMMA BucketBehindKept ==
  ASSUME TypeOK, ArchiveInv, [Next]_vars
  PROVE  BucketBehind'
<1> SUFFICES ASSUME NEW p \in Rollouts, p \notin retired'
             PROVE  xz'[p] <= local'[p] /\ plain'[p] <= local'[p]
  BY DEF BucketBehind
<1>1. /\ p \notin retired /\ local[p] <= local'[p]
      /\ local[p] \in Nat /\ local'[p] \in Nat
  BY FilesGrow
<1>2. /\ xz[p] <= local[p] /\ plain[p] <= local[p]
      /\ xz[p] \in Nat /\ plain[p] \in Nat
  BY <1>1 DEF ArchiveInv, BucketBehind, TypeOK, WorldOK
<1>3. CASE CopiesKept
  BY <1>1, <1>2, <1>3 DEF CopiesKept
<1>4. ASSUME NEW r \in Runs, CopyStored(r), FilesKept
      PROVE  xz'[p] <= local'[p] /\ plain'[p] <= local'[p]
  BY <1>1, <1>2, <1>4
  DEF CopyStored, FilesKept, ArchiveInv, InHand, TypeOK, WorldOK, RunsOK
<1>5. ASSUME NEW r \in Runs, TwinDropped(r)
      PROVE  xz'[p] <= local'[p] /\ plain'[p] <= local'[p]
  BY <1>1, <1>2, <1>5 DEF TwinDropped, TypeOK, WorldOK
<1>6. QED
  BY <1>3, <1>4, <1>5, BucketSteps

(* What a run knows of the bucket, and the manifest it would save.         *)
KnownOf(r) ==
    \A p \in Rollouts :
        /\ manifest[r][p] <= xz[p]
        /\ p \in remoteXz[r] => xz[p] # 0
        /\ remotePlain[r][p] <= Archived(p)

LEMMA KnownKept ==
  ASSUME TypeOK, ArchiveInv, [Next]_vars, NEW r \in Runs,
         manifest'[r] = manifest[r], remoteXz'[r] = remoteXz[r],
         remotePlain'[r] = remotePlain[r]
  PROVE  KnownOf(r)'
<1> SUFFICES ASSUME NEW p \in Rollouts
             PROVE  /\ manifest'[r][p] <= xz'[p]
                    /\ p \in remoteXz'[r] => xz'[p] # 0
                    /\ remotePlain'[r][p] <= Archived(p)'
  BY DEF KnownOf
<1>1. /\ manifest[r][p] <= xz[p] /\ (p \in remoteXz[r] => xz[p] # 0)
      /\ remotePlain[r][p] <= Archived(p)
  BY DEF ArchiveInv, KnownIsStored
<1>2. /\ xz[p] <= xz'[p] /\ Archived(p) <= Archived(p)'
      /\ xz'[p] \in Nat /\ Archived(p) \in Nat /\ Archived(p)' \in Nat
  BY CopiesGrow
<1>3. /\ manifest[r][p] \in Nat /\ remotePlain[r][p] \in Nat
      /\ xz[p] \in Nat
  BY DEF TypeOK, RunsOK, WorldOK
<1>4. QED
  BY <1>1, <1>2, <1>3

LEMMA KnownIsStoredKept ==
  ASSUME TypeOK, ArchiveInv, [Next]_vars
  PROVE  KnownIsStored'
<1> SUFFICES ASSUME NEW r \in Runs PROVE KnownOf(r)'
  BY DEF KnownIsStored, KnownOf
<1> DEFINE Same == /\ manifest'[r] = manifest[r] /\ remoteXz'[r] = remoteXz[r]
                   /\ remotePlain'[r] = remotePlain[r]
<1>1. CASE Same
  BY <1>1, KnownKept
<1>2. CASE ListRemote(r)
  BY <1>2 DEF ListRemote, KnownOf, ArchiveInv, KnownIsStored, TypeOK, RunsOK,
              WorldOK, bucketVars, Archived, LargerOf
<1>3. CASE LoadManifest(r)
  BY <1>3 DEF LoadManifest, KnownOf, ArchiveInv, KnownIsStored, ManifestSound,
              Nothing, TypeOK, RunsOK, WorldOK, bucketVars, Archived, LargerOf
<1>4. CASE Put(r)
  <2>1. /\ sig[r] <= data[r] /\ data[r] >= Placeable /\ cur[r] \in Rollouts
        /\ sig[r] \in Nat /\ data[r] \in Nat
    BY <1>4 DEF Put, ArchiveInv, InHand, TypeOK, HandOK, RunsOK, FilePhases
  <2>2. ASSUME NEW p \in Rollouts
        PROVE  /\ manifest'[r][p] <= xz'[p]
               /\ p \in remoteXz'[r] => xz'[p] # 0
               /\ remotePlain'[r][p] <= Archived(p)'
    <3>1. /\ manifest[r][p] <= xz[p] /\ (p \in remoteXz[r] => xz[p] # 0)
          /\ remotePlain[r][p] <= Archived(p)
      BY DEF ArchiveInv, KnownIsStored
    <3>2. /\ Archived(p) <= Archived(p)'
          /\ Archived(p) \in Nat /\ Archived(p)' \in Nat
          /\ remotePlain[r][p] \in Nat /\ remotePlain' = remotePlain
      BY <1>4, CopiesGrow DEF Put, Stored, TypeOK, RunsOK
    <3>3. CASE p = cur[r]
      BY <1>4, <2>1, <3>1, <3>2, <3>3
      DEF Put, Stored, TypeOK, RunsOK, WorldOK, Placeable
    <3>4. CASE p # cur[r]
      BY <1>4, <2>1, <3>1, <3>2, <3>4 DEF Put, Stored, TypeOK, RunsOK, WorldOK
    <3>5. QED
      BY <3>3, <3>4
  <2>3. QED
    BY <2>2 DEF KnownOf
<1>5. CASE DropTwin(r)
  <2>1. ASSUME NEW p \in Rollouts
        PROVE  /\ manifest'[r][p] <= xz'[p]
               /\ p \in remoteXz'[r] => xz'[p] # 0
               /\ remotePlain'[r][p] <= Archived(p)'
    <3>1. /\ manifest[r][p] <= xz[p] /\ (p \in remoteXz[r] => xz[p] # 0)
          /\ remotePlain[r][p] <= Archived(p)
      BY DEF ArchiveInv, KnownIsStored
    <3>2. /\ Archived(p) <= Archived(p)'
          /\ Archived(p) \in Nat /\ Archived(p)' \in Nat
      BY CopiesGrow
    <3>3. remotePlain'[r][p] \in {0, remotePlain[r][p]}
      BY <1>5 DEF DropTwin, TypeOK, RunsOK
    <3>4. /\ xz' = xz /\ manifest' = manifest /\ remoteXz' = remoteXz
          /\ remotePlain[r][p] \in Nat
      BY <1>5 DEF DropTwin, TypeOK, RunsOK
    <3>5. QED
      BY <3>1, <3>2, <3>3, <3>4
  <2>2. QED
    BY <2>1 DEF KnownOf
<1>6. CASE RunEnds(r)
  <2>1. /\ manifest'[r] = Nothing /\ remoteXz'[r] = {}
        /\ remotePlain'[r] = Nothing
    BY <1>6 DEF RunEnds, TypeOK, RunsOK
  <2>2. \A p \in Rollouts : xz'[p] \in Nat /\ Archived(p)' \in Nat
    BY CopiesGrow
  <2>3. QED
    BY <2>1, <2>2 DEF KnownOf, Nothing
<1>7. ASSUME NEW q \in Runs, RunStep(q) \/ PutFails(q) \/ Crash(q)
      PROVE  Same \/ ListRemote(r) \/ LoadManifest(r) \/ Put(r)
             \/ DropTwin(r) \/ RunEnds(r)
  <2> USE DEF TypeOK, RunsOK
  <2>1. CASE RunEnds(q)
    BY <2>1 DEF RunEnds
  <2>2. CASE ListRemote(q) \/ LoadManifest(q)
    BY <2>2 DEF ListRemote, LoadManifest
  <2>3. CASE Put(q)
    BY <2>3 DEF Put, Stored
  <2>4. CASE DropTwin(q)
    BY <2>4 DEF DropTwin
  <2>5. QED
    BY <1>7, <2>1, <2>2, <2>3, <2>4
    DEF RunStep, FileStep, Acquire, FindRollouts, Skip, Open, Stat, Read,
        CheckAge, Unlink, ScanDone, PutMarker, MarkersDone, SaveManifest,
        PutFails, MayBeStored, Crash, listVars
<1>8. CASE UNCHANGED vars \/ \E p \in Rollouts : Write(p) \/ Vanish(p) \/ Age(p)
  BY <1>1, <1>8 DEF vars, runVars, listVars, Write, Vanish, Age
<1>9. QED
  BY <1>1, <1>2, <1>3, <1>4, <1>5, <1>6, <1>7, <1>8 DEF Next

LEMMA ManifestSoundKept ==
  ASSUME TypeOK, ArchiveInv, [Next]_vars
  PROVE  ManifestSound'
<1> SUFFICES ASSUME NEW p \in Rollouts PROVE saved'[p] <= xz'[p]
  BY DEF ManifestSound
<1>1. /\ xz[p] <= xz'[p] /\ xz[p] \in Nat /\ xz'[p] \in Nat
      /\ saved[p] \in Nat /\ saved[p] <= xz[p]
  BY CopiesGrow DEF TypeOK, WorldOK, ArchiveInv, ManifestSound
<1>2. CASE saved' = saved
  BY <1>1, <1>2
<1>3. ASSUME NEW r \in Runs, saved' = manifest[r] PROVE saved'[p] <= xz'[p]
  BY <1>1, <1>3 DEF ArchiveInv, KnownIsStored, TypeOK, RunsOK
<1>4. saved' = saved \/ \E r \in Runs : saved' = manifest[r]
  BY DEF Next, Write, Vanish, Age, RunStep, FileStep, Acquire, ListRemote,
         LoadManifest, FindRollouts, Skip, Open, Stat, Read, Put, Stored,
         DropTwin, CheckAge, Unlink, ScanDone, PutMarker, MarkersDone,
         SaveManifest, PutFails, MayBeStored, Crash, bucketVars, vars
<1>5. QED
  BY <1>2, <1>3, <1>4

-----------------------------------------------------------------------------
(* The rollout in a run's hand.                                            *)

(* A run that does not move is not disturbed by Codex or by the user; and  *)
(* another run that moves has the lock, so that this one is not in a run.  *)
LEMMA InHandUndisturbed ==
  ASSUME TypeOK, ArchiveInv, NEW r \in Runs, UNCHANGED runVars,
         NEW p \in Rollouts, Write(p) \/ Vanish(p) \/ Age(p)
  PROVE  InHand(r)'
<1> USE DEF TypeOK, WorldOK, RunsOK, runVars, fileVars
<1>1. InHand(r) /\ HandOK(r)
  BY DEF ArchiveInv
<1>2. UNCHANGED <<xz, plain, pc, cur, sig, data, seen>>
  BY DEF Write, Vanish, Age, bucketVars
<1>3. pc[r] \in FilePhases => cur[r] \in Rollouts
  BY <1>1 DEF HandOK
<1>4. pc[r] \in FilePhases /\ Unchanged(r) => Unchanged(r)'
  BY <1>2, <1>3 DEF Unchanged, Write, Vanish, Age, FilePhases
<1>5. pc[r] \in FilePhases =>
        /\ local'[cur[r]] \in Nat /\ local[cur[r]] \in Nat
        /\ cur[r] \in retired => cur[r] \in retired'
        /\ cur[r] \in retired' \/ local[cur[r]] <= local'[cur[r]]
  BY <1>2, <1>3 DEF Write, Vanish, Age
<1>6. QED
  BY <1>1, <1>2, <1>3, <1>4, <1>5 DEF InHand, FilePhases, Archived, LargerOf

(* Each step of a run establishes what the next one relies on.             *)
LEMMA StepInHand ==
  ASSUME TypeOK, ArchiveInv, [Next]_vars, NEW r \in Runs,
         RunStep(r) \/ PutFails(r) \/ Crash(r)
  PROVE  InHand(r)'
<1> USE DEF TypeOK, RunsOK, machineVars, bucketVars, listVars, fileVars
<1>0. InHand(r) /\ HandOK(r)
  BY DEF ArchiveInv
<1>1. CASE pc'[r] \notin FilePhases \ {"stat"}
  BY <1>1 DEF InHand, FilePhases
<1>2. CASE Stat(r) /\ pc'[r] \in {"read", "age"}
  <2>1. /\ local[cur[r]] # 0 /\ sig' = [sig EXCEPT ![r] = local[cur[r]]]
        /\ cur' = cur /\ local' = local /\ retired' = retired
        /\ recent' = recent /\ xz' = xz /\ plain' = plain
        /\ UpToDate(r, cur[r], local[cur[r]]) \/ pc'[r] = "read"
        /\ cur[r] \in Rollouts
    BY <1>0, <1>2 DEF Stat, NextRollout, Goto, HandOK, FilePhases
  <2>2. sig'[r] = local[cur[r]] /\ local[cur[r]] \in Nat
    BY <2>1 DEF WorldOK
  <2>3. Unchanged(r)'
    BY <2>1, <2>2 DEF Unchanged
  <2>4. CASE pc'[r] = "read"
    BY <2>1, <2>2, <2>3, <2>4 DEF InHand
  <2>5. CASE pc'[r] = "age" /\ UpToDate(r, cur[r], local[cur[r]])
    <3>1. /\ manifest[r][cur[r]] <= xz[cur[r]]
          /\ remotePlain[r][cur[r]] <= Archived(cur[r])
      BY <2>1 DEF ArchiveInv, KnownIsStored
    <3>2. xz[cur[r]] \in Nat /\ plain[cur[r]] \in Nat
      BY <2>1 DEF WorldOK
    <3>3. local[cur[r]] <= Archived(cur[r])
      BY <2>2, <2>5, <3>1, <3>2 DEF UpToDate, Archived, LargerOf
    <3>4. QED
      BY <2>1, <2>2, <2>3, <2>5, <3>3 DEF InHand, Archived
  <2>6. QED
    BY <1>2, <2>1, <2>4, <2>5
<1>3. CASE Read(r) /\ pc'[r] = "put"
  <2>1. /\ local[cur[r]] # 0 /\ data'[r] = local[cur[r]]
        /\ cur' = cur /\ local' = local /\ retired' = retired
        /\ recent' = recent /\ xz' = xz /\ plain' = plain /\ sig' = sig
        /\ pc[r] = "read" /\ cur[r] \in Rollouts
    BY <1>0, <1>3 DEF Read, NextRollout, Goto, HandOK, FilePhases
  <2>2. cur[r] \notin retired
    BY <2>1 DEF WorldOK
  <2>3. /\ xz[cur[r]] <= local[cur[r]] /\ plain[cur[r]] <= local[cur[r]]
        /\ local[cur[r]] \in Nat
    BY <2>1, <2>2 DEF ArchiveInv, BucketBehind, WorldOK
  <2>4. QED
    BY <1>0, <1>3, <2>1, <2>2, <2>3 DEF InHand, Unchanged, FilePhases
<1>4. CASE Put(r)
  <2>1. /\ xz'[cur[r]] = data[r] /\ cur[r] \in Rollouts
        /\ cur' = cur /\ local' = local /\ recent' = recent
        /\ plain' = plain /\ sig' = sig /\ pc[r] = "put"
        /\ pc'[r] \in {"twin", "age"}
    BY <1>0, <1>4 DEF Put, Stored, Goto, HandOK, FilePhases, WorldOK
  <2>2. data[r] \in Nat /\ plain[cur[r]] \in Nat /\ sig[r] \in Nat
    BY <2>1 DEF WorldOK
  <2>3. QED
    BY <1>0, <2>1, <2>2 DEF InHand, Unchanged, FilePhases, Archived, LargerOf
<1>5. CASE DropTwin(r)
  <2>1. /\ xz' = xz /\ plain'[cur[r]] \in {0, plain[cur[r]]}
        /\ cur[r] \in Rollouts
        /\ cur' = cur /\ local' = local /\ recent' = recent /\ sig' = sig
        /\ pc[r] = "twin" /\ pc'[r] = "age"
    BY <1>0, <1>5 DEF DropTwin, Goto, HandOK, FilePhases, WorldOK
  <2>2. xz[cur[r]] \in Nat /\ plain[cur[r]] \in Nat /\ sig[r] \in Nat
    BY <2>1 DEF WorldOK
  <2>3. QED
    BY <1>0, <2>1, <2>2 DEF InHand, Unchanged, FilePhases, Archived, LargerOf
<1>6. CASE CheckAge(r) /\ pc'[r] = "unlink"
  <2>1. /\ MayRetire(r, cur[r]) /\ seen'[r] = local[cur[r]]
        /\ cur' = cur /\ local' = local /\ recent' = recent /\ sig' = sig
        /\ xz' = xz /\ plain' = plain /\ pc[r] = "age"
    BY <1>6 DEF CheckAge, NextRollout, Goto
  <2>2. local[cur[r]] = sig[r]
    BY <1>0, <2>1 DEF InHand, Unchanged, MayRetire, FilePhases
  <2>3. QED
    BY <1>0, <1>6, <2>1, <2>2 DEF InHand, Unchanged, FilePhases, Archived, LargerOf
<1>7. \/ pc'[r] \notin FilePhases \ {"stat"}
      \/ Stat(r) /\ pc'[r] \in {"read", "age"}
      \/ Read(r) /\ pc'[r] = "put"
      \/ Put(r) \/ DropTwin(r)
      \/ CheckAge(r) /\ pc'[r] = "unlink"
  <2>1. CASE FileStep(r)
    BY <2>1
    DEF FileStep, Skip, Open, Stat, Read, CheckAge, Unlink, NextRollout,
        Goto, FilePhases
  <2>2. CASE ~FileStep(r)
    BY <2>2, RunStep(r) \/ PutFails(r) \/ Crash(r)
    DEF RunStep, Acquire, ListRemote, LoadManifest, FindRollouts, ScanDone,
        PutMarker, MarkersDone, SaveManifest, PutFails, Crash, RunEnds,
        NextRollout, Goto, FilePhases
  <2>3. QED
    BY <2>1, <2>2
<1>8. QED
  BY <1>1, <1>2, <1>3, <1>4, <1>5, <1>6, <1>7

LEMMA InHandKept ==
  ASSUME TypeOK, ArchiveInv, [Next]_vars, NEW r \in Runs
  PROVE  InHand(r)'
<1>1. ASSUME NEW p \in Rollouts, Write(p) \/ Vanish(p) \/ Age(p) PROVE InHand(r)'
  BY <1>1, InHandUndisturbed DEF Write, Vanish, Age
<1>2. CASE UNCHANGED vars
  BY <1>2 DEF ArchiveInv, InHand, Unchanged, Archived, LargerOf, vars,
              machineVars, bucketVars, runVars, fileVars
<1>3. CASE RunStep(r) \/ PutFails(r) \/ Crash(r)
  BY <1>3, StepInHand
<1>4. ASSUME NEW q \in Runs, q # r, RunStep(q) \/ PutFails(q) \/ Crash(q)
      PROVE  InHand(r)'
  <2>1. pc'[r] = pc[r]
    BY <1>4
    DEF RunStep, FileStep, Acquire, ListRemote, LoadManifest, FindRollouts,
        Skip, Open, Stat, Read, Put, Stored, DropTwin, CheckAge, Unlink,
        ScanDone, PutMarker, MarkersDone, SaveManifest, PutFails,
        MayBeStored, Crash, RunEnds, NextRollout, Goto, TypeOK, RunsOK
  <2>2. pc[q] # "idle" \/ Acquire(q)
    BY <1>4
    DEF RunStep, FileStep, ListRemote, LoadManifest, FindRollouts,
        Skip, Open, Stat, Read, Put, DropTwin, CheckAge, Unlink,
        ScanDone, PutMarker, MarkersDone, SaveManifest, PutFails,
        MayBeStored, Crash
  <2>3. pc[r] = "idle"
    BY <1>4, <2>2, RunAssumption DEF ArchiveInv, OneRun, Acquire
  <2>4. QED
    BY <2>1, <2>3 DEF InHand, FilePhases
<1>5. QED
  BY <1>1, <1>2, <1>3, <1>4 DEF Next

LEMMA NextArchiveInv == TypeOK /\ ArchiveInv /\ [Next]_vars => ArchiveInv'
BY OneRunKept, BucketBehindKept, KnownIsStoredKept, ManifestSoundKept,
   InHandKept DEF ArchiveInv

LEMMA ArchiveInvHolds == Spec => [](TypeOK /\ ArchiveInv)
BY InitTypeOK, NextTypeOK, InitArchiveInv, NextArchiveInv, PTL DEF Spec

(* The saved manifest is never ahead of the bucket.                        *)
THEOREM ManifestIsSound == Spec => []ManifestSound
<1>1. ArchiveInv => ManifestSound
  BY DEF ArchiveInv
<1>2. QED
  BY <1>1, ArchiveInvHolds, PTL

(* No step leaves the bucket with less of a rollout than before.           *)
THEOREM BucketKeeps == Spec => BucketNeverForgets
<1>1. TypeOK /\ ArchiveInv /\ [Next]_vars
        => [\A p \in Rollouts : Archived(p)' >= Archived(p)]_vars
  BY CopiesGrow
<1>2. QED
  BY <1>1, ArchiveInvHolds, PTL DEF Spec, BucketNeverForgets

(* What the retention gate saw of a file is archived when it is deleted.   *)
THEOREM RetiredIsArchived == Spec => RetireSafe
<1>1. TypeOK /\ ArchiveInv /\ [Next]_vars
        => [\A r \in Runs :
              pc[r] = "unlink" /\ local[cur[r]] # 0 /\ local'[cur[r]] = 0
                => Archived(cur[r]) >= seen[r]]_vars
  BY DEF ArchiveInv, InHand
<1>2. QED
  BY <1>1, ArchiveInvHolds, PTL DEF Spec, RetireSafe
=============================================================================
