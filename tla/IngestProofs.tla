---------------------------- MODULE IngestProofs ----------------------------
(***************************************************************************)
(* For any number of overlapping runs, keys and versions: the state stays  *)
(* typed, a file that _plan_work would skip is stored as R2 holds it, and  *)
(* what the post-passes leave describes the records, however many runs     *)
(* overlap (QuiescentDerivedExact) and, of runs that do not, in every      *)
(* state and after every failure (the last three theorems).                *)
(*                                                                         *)
(* SkipSound is not inductive: it says nothing of what a run in flight is  *)
(* about to store.  EtagBehindContent adds that (an etag taken from the    *)
(* listing is never newer than the content fetched after it), and typing   *)
(* needs it in turn, so the two are proved together.                       *)
(*                                                                         *)
(* The argument for the derived tables of overlapping runs: a table is     *)
(* exact, or some run has still to rebuild it; for the flags, whose UPDATE *)
(* takes its time: an open one that is not raced is going to leave them    *)
(* exact whatever the others commit (UpdatesSound).  For a run alone: a    *)
(* table is exact from its pass on.                                        *)
(***************************************************************************)
EXTENDS Ingest, TLAPS

IInv == TypeOK /\ EtagBehindContent

(* The inductive invariant gives the property itself.                      *)
LEMMA IInvImpliesSkipSound == IInv => SkipSound
<1> SUFFICES ASSUME IInv, NEW k \in Keys, files[k].etag # 0,
                    files[k].etag = bucket[k]
             PROVE  files[k].content = bucket[k]
  BY DEF SkipSound, HasRow
<1>1. files[k] \in Row /\ newest[k] \in Nat
  BY DEF IInv, TypeOK
<1>2. bucket[k] = newest[k]
  BY DEF IInv, EtagBehindContent, RowsBehind
<1>3. files[k].etag <= files[k].content /\ files[k].content <= newest[k]
  BY DEF IInv, EtagBehindContent, RowsBehind
<1> QED BY <1>1, <1>2, <1>3 DEF Row

FlipSet == [on: SUBSET Uuids, off: SUBSET Uuids]

(* A run's end leaves every slot typed and the finished slot empty.        *)
LEMMA RunsEndTyped ==
    ASSUME TypeOK, NEW T \in SUBSET Triggers, RunsEnd(T)
    PROVE  /\ pc' \in [Triggers -> Phases]
           /\ existing' \in [Triggers -> [Keys -> [etag: Nat, parser: Nat]]]
           /\ cursor' \in [Triggers -> Nat \ {0}]
           /\ listing' \in [Triggers -> [Keys -> Nat]]
           /\ todo' \in [Triggers -> SUBSET Keys]
           /\ batch' \in [Triggers -> SUBSET Keys]
           /\ fetched' \in [Triggers -> [Keys -> Nat]]
           /\ failed' \in [Triggers -> SUBSET Keys]
           /\ changed' \in [Triggers -> BOOLEAN]
           /\ fatal' \in [Triggers -> BOOLEAN]
           /\ flips' \in [Triggers -> [Keys -> FlipSet]]
           /\ raced' \in SUBSET Triggers
<1>1. [k \in Keys |-> NoStored] \in [Keys -> [etag: Nat, parser: Nat]]
  BY DEF NoStored
<1>2. [k \in Keys |-> 0] \in [Keys -> Nat]
  OBVIOUS
<1>3. "idle" \in Phases
  BY DEF Phases
<1>14. [k \in Keys |-> NoFlips] \in [Keys -> FlipSet]
  BY DEF NoFlips, FlipSet
<1> USE DEF TypeOK, RunsEnd
<1>4. pc' \in [Triggers -> Phases]  BY <1>3
<1>5. existing' \in [Triggers -> [Keys -> [etag: Nat, parser: Nat]]]  BY <1>1
<1>6. cursor' \in [Triggers -> Nat \ {0}]  OBVIOUS
<1>7. listing' \in [Triggers -> [Keys -> Nat]]  BY <1>2
<1>8. todo' \in [Triggers -> SUBSET Keys]  OBVIOUS
<1>9. batch' \in [Triggers -> SUBSET Keys]  OBVIOUS
<1>10. fetched' \in [Triggers -> [Keys -> Nat]]  BY <1>2
<1>11. failed' \in [Triggers -> SUBSET Keys]  OBVIOUS
<1>12. changed' \in [Triggers -> BOOLEAN]  OBVIOUS
<1>13. fatal' \in [Triggers -> BOOLEAN]  OBVIOUS
<1>15. flips' \in [Triggers -> [Keys -> FlipSet]]  BY <1>14 DEF FlipSet
<1>16. raced' \in SUBSET Triggers  OBVIOUS
<1> QED BY <1>4, <1>5, <1>6, <1>7, <1>8, <1>9, <1>10, <1>11, <1>12, <1>13,
           <1>15, <1>16

(* ... and keeps what the invariant says of the runs.                      *)
LEMMA RunsEndBehind ==
    ASSUME IInv, NEW T \in SUBSET Triggers, RunsEnd(T), UNCHANGED newest
    PROVE  RunsBehind' /\ WorkListed'
<1>1. RunsBehind'
  BY DEF IInv, TypeOK, EtagBehindContent, RunsBehind, RunsEnd
<1>2. WorkListed'
  BY DEF IInv, TypeOK, EtagBehindContent, WorkListed, RunsEnd
<1> QED BY <1>1, <1>2

LEMMA InitIInv == Init => IInv
<1> SUFFICES ASSUME Init PROVE IInv OBVIOUS
<1> USE SizesAssumption, DataAssumption
<1>1. TypeOK
  <2>1. NoRow \in Row /\ "idle" \in Phases /\ 1 \in Releases
    BY DEF NoRow, Row, Phases, Releases
  <2>2. NoStored \in [etag: Nat, parser: Nat]
    BY DEF NoStored
  <2>3. files \in [Keys -> Row] /\ pc \in [Triggers -> Phases]
    BY <2>1 DEF Init
  <2>4. existing \in [Triggers -> [Keys -> [etag: Nat, parser: Nat]]]
    BY <2>2 DEF Init
  <2>5. /\ bucket \in [Keys -> Nat] /\ newest \in [Keys -> Nat]
        /\ listing \in [Triggers -> [Keys -> Nat]]
        /\ fetched \in [Triggers -> [Keys -> Nat]]
        /\ cursor \in [Triggers -> Nat \ {0}]
    BY DEF Init
  <2>6. /\ todo \in [Triggers -> SUBSET Keys]
        /\ batch \in [Triggers -> SUBSET Keys]
        /\ failed \in [Triggers -> SUBSET Keys]
        /\ changed \in [Triggers -> BOOLEAN]
        /\ fatal \in [Triggers -> BOOLEAN]
    BY DEF Init
  <2>7. /\ usage \subseteq Keys \X Uuids
        /\ tools \subseteq Keys \X (Nat \ {0})
        /\ latency \subseteq Keys \X (Nat \ {0})
        /\ unannounced \in BOOLEAN /\ stale \in BOOLEAN
        /\ release \in Releases /\ drops \in Nat /\ deaths \in Nat
    BY <2>1 DEF Init
  <2>8. NoFlips \in [on: SUBSET Uuids, off: SUBSET Uuids]
    BY DEF NoFlips
  <2>9. /\ flips \in [Triggers -> [Keys -> [on: SUBSET Uuids, off: SUBSET Uuids]]]
        /\ raced \in SUBSET Triggers
    BY <2>8 DEF Init
  <2> QED BY <2>3, <2>4, <2>5, <2>6, <2>7, <2>9 DEF TypeOK
<1>2. EtagBehindContent
  BY DEF Init, EtagBehindContent, RowsBehind, RunsBehind, WorkListed, NoRow
<1> QED BY <1>1, <1>2 DEF IInv

LEMMA EnvironmentStep ==
    ASSUME IInv, NEW k \in Keys, Upload(k) \/ Remove(k)
    PROVE  IInv'
<1> USE SizesAssumption, DataAssumption DEF IInv, dbVars, runVars, flagVars, chanceVars
<1>1. CASE Upload(k)
  <2>1. TypeOK'
    BY <1>1 DEF Upload, TypeOK
  <2>2. \A j \in Keys : newest'[j] \in Nat /\ newest[j] <= newest'[j]
    BY <1>1 DEF Upload, TypeOK
  <2>3. RowsBehind'
    BY <1>1, <2>2 DEF Upload, TypeOK, EtagBehindContent, RowsBehind, Row
  <2>4. RunsBehind'
    BY <1>1, <2>2 DEF Upload, TypeOK, EtagBehindContent, RunsBehind
  <2>5. WorkListed'
    BY <1>1 DEF Upload, EtagBehindContent, WorkListed
  <2> QED BY <2>1, <2>3, <2>4, <2>5 DEF EtagBehindContent
<1>2. CASE Remove(k)
  <2>1. TypeOK'
    BY <1>2 DEF Remove, TypeOK
  <2>2. RowsBehind'
    BY <1>2 DEF Remove, TypeOK, EtagBehindContent, RowsBehind
  <2>3. RunsBehind' /\ WorkListed'
    BY <1>2 DEF Remove, EtagBehindContent, RunsBehind, WorkListed
  <2> QED BY <2>1, <2>2, <2>3 DEF EtagBehindContent
<1> QED BY <1>1, <1>2

(* What a run step other than a persist, a delete or a recompute does to   *)
(* the invariant: nothing the rows or the bucket can notice.               *)
LEMMA ScanStep ==
    ASSUME IInv, NEW t \in Triggers,
           BeginRun(t) \/ ListKey(t) \/ PlanWork(t) \/ StartChunk(t)
    PROVE  IInv'
<1> USE SizesAssumption, DataAssumption
        DEF IInv, bucketVars, dbVars, runVars, flagVars, chanceVars
<1>1. CASE BeginRun(t)
  <2>1. \A k \in Keys : Stored(files[k]) \in [etag: Nat, parser: Nat]
    BY DEF TypeOK, Stored, Row
  <2>2. TypeOK'
    BY <1>1, <2>1 DEF BeginRun, TypeOK, Phases, MainPhases
  <2>3. RowsBehind' /\ RunsBehind'
    BY <1>1 DEF BeginRun, EtagBehindContent, RowsBehind, RunsBehind
  <2>4. WorkListed'
    BY <1>1 DEF BeginRun, TypeOK, EtagBehindContent, WorkListed
  <2> QED BY <2>2, <2>3, <2>4 DEF EtagBehindContent
<1>2. CASE ListKey(t)
  <2>1. cursor[t] \in Keys /\ bucket[cursor[t]] \in Nat
    <3>1. cursor[t] \in Nat \ {0} /\ bucket \in [Keys -> Nat]
      BY DEF TypeOK
    <3>2. cursor[t] <= NumKeys
      BY <1>2 DEF ListKey
    <3>3. cursor[t] \in Keys
      BY <3>1, <3>2 DEF Keys
    <3> QED BY <3>1, <3>3
  <2>2. TypeOK'
    BY <1>2, <2>1 DEF ListKey, TypeOK
  <2>3. RowsBehind'
    BY <1>2 DEF ListKey, EtagBehindContent, RowsBehind
  <2>4. RunsBehind'
    <3> SUFFICES ASSUME NEW s \in Triggers, NEW k \in Keys
                 PROVE  (/\ listing[s][k] <= newest[k]
                         /\ fetched[s][k] <= newest[k]
                         /\ fetched[s][k] # 0 =>
                              /\ listing[s][k] # 0
                              /\ listing[s][k] <= fetched[s][k])'
      BY DEF RunsBehind
    <3>1. listing'[s][k] = IF s = t /\ k = cursor[t] THEN bucket[k]
                           ELSE listing[s][k]
      BY <1>2, <2>1 DEF ListKey, TypeOK
    <3>2. fetched[t][k] = 0
      BY <1>2 DEF ListKey, EtagBehindContent, WorkListed
    <3>3. bucket[k] <= newest[k]
      <4>1. newest[k] \in Nat  BY DEF TypeOK
      <4>2. bucket[k] \in {0, newest[k]}
        BY DEF EtagBehindContent, RowsBehind
      <4> QED BY <4>1, <4>2
    <3>4. fetched' = fetched /\ newest' = newest
      BY <1>2 DEF ListKey
    <3>5. /\ listing[s][k] <= newest[k] /\ fetched[s][k] <= newest[k]
          /\ fetched[s][k] # 0 =>
                listing[s][k] # 0 /\ listing[s][k] <= fetched[s][k]
      BY DEF EtagBehindContent, RunsBehind
    <3> QED BY <3>1, <3>2, <3>3, <3>4, <3>5
  <2>5. WorkListed'
    BY <1>2 DEF ListKey, TypeOK, EtagBehindContent, WorkListed
  <2> QED BY <2>2, <2>3, <2>4, <2>5 DEF EtagBehindContent
<1>3. CASE PlanWork(t)
  <2>1. NoStored \in [etag: Nat, parser: Nat]
    BY DEF NoStored
  <2>2. TypeOK'
    BY <1>3, <2>1 DEF PlanWork, TypeOK, Phases, MainPhases
  <2>3. RowsBehind' /\ RunsBehind'
    BY <1>3 DEF PlanWork, EtagBehindContent, RowsBehind, RunsBehind
  <2>4. WorkListed'
    BY <1>3 DEF PlanWork, TypeOK, EtagBehindContent, WorkListed
  <2> QED BY <2>2, <2>3, <2>4 DEF EtagBehindContent
<1>4. CASE StartChunk(t)
  <2>1. PICK chunk \in SUBSET todo[t] :
          /\ batch' = [batch EXCEPT ![t] = chunk]
          /\ todo' = [todo EXCEPT ![t] = @ \ chunk]
    BY <1>4 DEF StartChunk
  <2>2. TypeOK'
    BY <1>4, <2>1 DEF StartChunk, TypeOK
  <2>3. RowsBehind' /\ RunsBehind'
    BY <1>4 DEF StartChunk, EtagBehindContent, RowsBehind, RunsBehind
  <2>4. WorkListed'
    BY <1>4, <2>1 DEF StartChunk, TypeOK, EtagBehindContent, WorkListed
  <2> QED BY <2>2, <2>3, <2>4 DEF EtagBehindContent
<1> QED BY <1>1, <1>2, <1>3, <1>4

(* What was fetched is what the bucket held after the listing.             *)
LEMMA FetchStep ==
    ASSUME IInv, NEW t \in Triggers, NEW k \in Keys,
           FetchOK(t, k) \/ FetchUnsupported(t, k) \/ FetchFailed(t, k)
    PROVE  IInv'
<1> USE SizesAssumption, DataAssumption
        DEF IInv, bucketVars, dbVars, runVars, flagVars, chanceVars
<1>1. CASE FetchOK(t, k)
  <2>1. TypeOK'
    BY <1>1 DEF FetchOK, TypeOK
  <2>2. RowsBehind'
    BY <1>1 DEF FetchOK, EtagBehindContent, RowsBehind
  <2>3. RunsBehind'
    <3> SUFFICES ASSUME NEW s \in Triggers, NEW j \in Keys
                 PROVE  (/\ listing[s][j] <= newest[j]
                         /\ fetched[s][j] <= newest[j]
                         /\ fetched[s][j] # 0 =>
                              /\ listing[s][j] # 0
                              /\ listing[s][j] <= fetched[s][j])'
      BY DEF RunsBehind
    <3>1. fetched'[s][j] = IF s = t /\ j = k THEN bucket[k] ELSE fetched[s][j]
      BY <1>1 DEF FetchOK, TypeOK
    <3>2. listing[t][k] # 0
      BY <1>1 DEF FetchOK, EtagBehindContent, WorkListed
    <3>3. bucket[k] = newest[k] /\ newest[k] \in Nat
      BY <1>1 DEF FetchOK, TypeOK, EtagBehindContent, RowsBehind
    <3> QED BY <1>1, <3>1, <3>2, <3>3
            DEF FetchOK, EtagBehindContent, RunsBehind
  <2>4. WorkListed'
    BY <1>1 DEF FetchOK, TypeOK, EtagBehindContent, WorkListed
  <2> QED BY <2>1, <2>2, <2>3, <2>4 DEF EtagBehindContent
<1>2. CASE FetchUnsupported(t, k)
  <2>1. TypeOK'
    BY <1>2 DEF FetchUnsupported, TypeOK
  <2>2. RowsBehind' /\ RunsBehind'
    BY <1>2 DEF FetchUnsupported, EtagBehindContent, RowsBehind, RunsBehind
  <2>3. WorkListed'
    BY <1>2 DEF FetchUnsupported, TypeOK, EtagBehindContent, WorkListed
  <2> QED BY <2>1, <2>2, <2>3 DEF EtagBehindContent
<1>3. CASE FetchFailed(t, k)
  <2>1. TypeOK'
    BY <1>3 DEF FetchFailed, TypeOK
  <2>2. RowsBehind' /\ RunsBehind'
    BY <1>3 DEF FetchFailed, EtagBehindContent, RowsBehind, RunsBehind
  <2>3. WorkListed'
    BY <1>3 DEF FetchFailed, TypeOK, EtagBehindContent, WorkListed
  <2> QED BY <2>1, <2>2, <2>3 DEF EtagBehindContent
<1> QED BY <1>1, <1>2, <1>3

(* Rows that come or go leave the open UPDATEs typed.                      *)
LEMMA ReplacedTyped ==
    ASSUME TypeOK, NEW K, RowsReplaced(K)
    PROVE  /\ flips' \in [Triggers -> [Keys -> [on: SUBSET Uuids, off: SUBSET Uuids]]]
           /\ raced' \in SUBSET Triggers
<1>1. NoFlips \in [on: SUBSET Uuids, off: SUBSET Uuids]
  BY DEF NoFlips
<1>2. flips' \in [Triggers -> [Keys -> [on: SUBSET Uuids, off: SUBSET Uuids]]]
  BY <1>1 DEF RowsReplaced, TypeOK
<1>3. raced' \in SUBSET Triggers
  BY DEF RowsReplaced, Updating, TypeOK
<1> QED BY <1>2, <1>3

(* The row written pairs the listed etag with the content fetched after.   *)
LEMMA PersistStep ==
    ASSUME IInv, NEW t \in Triggers, NEW k \in Keys, Persist(t, k)
    PROVE  IInv'
<1> USE SizesAssumption, DataAssumption
        DEF IInv, bucketVars, dbVars, runVars, flagVars, chanceVars, Persist
<1>1. /\ listing[t][k] \in Nat /\ fetched[t][k] \in Nat
      /\ listing[t][k] <= fetched[t][k] /\ fetched[t][k] <= newest[k]
      /\ newest[k] <= MaxVersion[k] /\ newest[k] \in Nat
      /\ MaxVersion[k] \in Nat
  <2>1. /\ listing[t][k] \in Nat /\ fetched[t][k] \in Nat
        /\ newest[k] \in Nat /\ MaxVersion[k] \in Nat
    <3>1. /\ listing \in [Triggers -> [Keys -> Nat]]
          /\ fetched \in [Triggers -> [Keys -> Nat]]
          /\ newest \in [Keys -> Nat]
      BY DEF TypeOK
    <3>2. MaxVersion \in [Keys -> Nat]
      OBVIOUS
    <3> QED BY <3>1, <3>2
  <2>2. /\ fetched[t][k] <= newest[k] /\ newest[k] <= MaxVersion[k]
        /\ fetched[t][k] # 0 => listing[t][k] <= fetched[t][k]
    BY DEF EtagBehindContent, RowsBehind, RunsBehind
  <2>3. fetched[t][k] # 0
    OBVIOUS
  <2> QED BY <2>1, <2>2, <2>3
<1>2. Carries[k][fetched[t][k]] \subseteq Uuids
  BY <1>1
<1>3. ParserVersion[release] \in Nat
  BY DEF TypeOK
<1>4. Parsed(t, k) \in Row
  BY <1>1, <1>2, <1>3 DEF Parsed, Row
<1>5. TypeOK'
  BY <1>4, ReplacedTyped DEF TypeOK
<1>6. RowsBehind'
  BY <1>1 DEF TypeOK, EtagBehindContent, RowsBehind, Parsed
<1>7. RunsBehind' /\ WorkListed'
  BY DEF TypeOK, EtagBehindContent, RunsBehind, WorkListed
<1> QED BY <1>5, <1>6, <1>7 DEF EtagBehindContent

(* Ends of the phases, including the delete and an exception in between.   *)
LEMMA PhaseStep ==
    ASSUME IInv, NEW t \in Triggers,
           FetchDone(t) \/ DeleteOrphans(t) \/ FinishRun(t) \/ AbortMain(t)
    PROVE  IInv'
<1> USE SizesAssumption, DataAssumption
        DEF IInv, bucketVars, dbVars, runVars, flagVars, chanceVars
<1>1. CASE FetchDone(t)
  <2>1. TypeOK'
    BY <1>1 DEF FetchDone, TypeOK, Phases, MainPhases
  <2>2. RowsBehind' /\ RunsBehind' /\ WorkListed'
    BY <1>1 DEF FetchDone, TypeOK, EtagBehindContent, RowsBehind, RunsBehind,
                WorkListed
  <2> QED BY <2>1, <2>2 DEF EtagBehindContent
<1>2. CASE DeleteOrphans(t)
  <2>1. NoRow \in Row /\ NoRow.etag = 0 /\ NoRow.content = 0
    BY DEF NoRow, Row
  <2>2. TypeOK'
    BY <1>2, <2>1, ReplacedTyped DEF DeleteOrphans, TypeOK, Phases
  <2>3. RowsBehind'
    BY <1>2, <2>1 DEF DeleteOrphans, TypeOK, EtagBehindContent, RowsBehind
  <2>4. RunsBehind' /\ WorkListed'
    BY <1>2 DEF DeleteOrphans, TypeOK, EtagBehindContent, RunsBehind,
                WorkListed
  <2> QED BY <2>2, <2>3, <2>4 DEF EtagBehindContent
<1>3. CASE FinishRun(t) /\ GoOn(t)
  <2>1. TypeOK'
    BY <1>3 DEF FinishRun, TypeOK, Phases, PostPasses
  <2>2. RowsBehind' /\ RunsBehind' /\ WorkListed'
    BY <1>3 DEF FinishRun, TypeOK, EtagBehindContent, RowsBehind, RunsBehind,
                WorkListed
  <2> QED BY <2>1, <2>2 DEF EtagBehindContent
<1>4. CASE FinishRun(t) /\ ~GoOn(t)
  <2>1. RunsEnd({t}) /\ UNCHANGED <<bucketVars, dbVars, chanceVars>>
    BY <1>4 DEF FinishRun
  <2>2. TypeOK'
    BY <2>1, RunsEndTyped DEF TypeOK, FlipSet
  <2>3. RowsBehind'
    BY <2>1 DEF EtagBehindContent, RowsBehind
  <2>4. RunsBehind' /\ WorkListed'
    BY <2>1, RunsEndBehind
  <2> QED BY <2>2, <2>3, <2>4 DEF EtagBehindContent
<1>5. CASE AbortMain(t)
  <2>1. TypeOK'
    BY <1>5 DEF AbortMain, TypeOK, Phases
  <2>2. RowsBehind' /\ RunsBehind'
    BY <1>5 DEF AbortMain, TypeOK, EtagBehindContent, RowsBehind, RunsBehind
  <2>3. WorkListed'
    BY <1>5 DEF AbortMain, TypeOK, EtagBehindContent, WorkListed
  <2> QED BY <2>1, <2>2, <2>3 DEF EtagBehindContent
<1> QED BY <1>1, <1>2, <1>3, <1>4, <1>5

(* The commit of an UPDATE writes flags, and nothing else of a row.        *)
LEMMA CommitKeepsRows ==
    ASSUME TypeOK, NEW t \in Triggers, CommitCanonical(t), NEW k \in Keys
    PROVE  /\ files'[k] \in Row
           /\ files'[k].etag = files[k].etag
           /\ files'[k].content = files[k].content
           /\ files'[k].parser = files[k].parser
           /\ files'[k].canon = (files[k].canon \cup flips[t][k].on) \ flips[t][k].off
<1>1. files[k] \in Row /\ flips[t][k] \in [on: SUBSET Uuids, off: SUBSET Uuids]
  BY DEF TypeOK
<1>2. files'[k] = [files[k] EXCEPT !.canon
                     = (files[k].canon \cup flips[t][k].on) \ flips[t][k].off]
  BY DEF CommitCanonical, Flipped
<1> QED BY <1>1, <1>2 DEF Row

(* The post-passes rewrite flags and rollups, never an etag or a content.  *)
LEMMA PostPassStep ==
    ASSUME IInv, NEW t \in Triggers, PostStep(t)
    PROVE  IInv'
<1> USE SizesAssumption, DataAssumption
        DEF IInv, bucketVars, dbVars, runVars, flagVars, chanceVars, PassDone
<1>1. CASE RecomputeCanonical(t)
  <2>1. \A k \in Keys : CanonicalOf(files, k) \subseteq Uuids
    <3> SUFFICES ASSUME NEW k \in Keys, HasRow(files, k)
                 PROVE  Carries[k][files[k].content] \subseteq Uuids
      BY DEF CanonicalOf, RecordsOf
    <3>1. /\ files[k].content \in Nat /\ newest[k] \in Nat
          /\ MaxVersion[k] \in Nat
          /\ files[k].content <= newest[k] /\ newest[k] <= MaxVersion[k]
      BY DEF TypeOK, EtagBehindContent, RowsBehind, Row
    <3> QED BY <3>1
  <2>2. \A k \in Keys : Flips(files, k) \in [on: SUBSET Uuids, off: SUBSET Uuids]
    BY <2>1 DEF Flips, TypeOK, Row
  <2>3. TypeOK'
    <3>1. flips' \in [Triggers -> [Keys -> [on: SUBSET Uuids, off: SUBSET Uuids]]]
      BY <1>1, <2>2 DEF RecomputeCanonical, TypeOK
    <3>2. pc' \in [Triggers -> Phases]
      BY <1>1 DEF RecomputeCanonical, TypeOK, Phases, PostPasses
    <3> QED BY <1>1, <3>1, <3>2 DEF RecomputeCanonical, TypeOK
  <2>4. RowsBehind' /\ RunsBehind' /\ WorkListed'
    BY <1>1 DEF RecomputeCanonical, TypeOK, EtagBehindContent, RowsBehind, RunsBehind,
                WorkListed
  <2> QED BY <2>3, <2>4 DEF EtagBehindContent
<1>6. CASE CommitCanonical(t)
  <2>1. \A k \in Keys : /\ files'[k] \in Row
                        /\ files'[k].etag = files[k].etag
                        /\ files'[k].content = files[k].content
    BY <1>6, CommitKeepsRows
  <2>2. TypeOK'
    <3>1. files' \in [Keys -> Row] /\ unannounced' \in BOOLEAN /\ stale' \in BOOLEAN
      BY <1>6, <2>1 DEF CommitCanonical, TypeOK
    <3>2. pc' \in [Triggers -> Phases]
      BY <1>6 DEF CommitCanonical, TypeOK, Phases, PostPasses
    <3>3. NoFlips \in [on: SUBSET Uuids, off: SUBSET Uuids]
      BY DEF NoFlips
    <3>4. /\ flips' \in [Triggers -> [Keys -> [on: SUBSET Uuids, off: SUBSET Uuids]]]
          /\ raced' \in SUBSET Triggers
      BY <1>6, <3>3 DEF CommitCanonical, TypeOK, Updating
    <3> QED BY <1>6, <3>1, <3>2, <3>4 DEF CommitCanonical, TypeOK
  <2>3. RowsBehind'
    BY <1>6, <2>1 DEF CommitCanonical, EtagBehindContent, RowsBehind
  <2>4. RunsBehind' /\ WorkListed'
    BY <1>6 DEF CommitCanonical, TypeOK, EtagBehindContent, RunsBehind,
                WorkListed
  <2> QED BY <2>2, <2>3, <2>4 DEF EtagBehindContent
<1>2. CallsOf(files) \subseteq Keys \X (Nat \ {0})
  BY DEF CallsOf, HasRow, TypeOK, Row, EtagBehindContent, RowsBehind
<1>3. UsageOf(files) \subseteq Keys \X Uuids
  BY DEF UsageOf
<1>4. CASE RebuildRollup(t) \/ RebuildToolRollup(t) \/ RebuildLatencyRollup(t)
  <2> USE DEF RebuildRollup, RebuildToolRollup, RebuildLatencyRollup
  <2>1. pc' \in [Triggers -> Phases]
    BY <1>4 DEF TypeOK, Phases, PostPasses
  <2>2. /\ usage' \subseteq Keys \X Uuids
        /\ tools' \subseteq Keys \X (Nat \ {0})
        /\ latency' \subseteq Keys \X (Nat \ {0})
    BY <1>2, <1>3, <1>4 DEF TypeOK
  <2>3. unannounced' \in BOOLEAN
    BY <1>4 DEF TypeOK
  <2>4. TypeOK'
    BY <1>4, <2>1, <2>2, <2>3 DEF TypeOK
  <2>5. RowsBehind' /\ RunsBehind'
    BY <1>4 DEF EtagBehindContent, RowsBehind, RunsBehind
  <2>6. WorkListed'
    BY <1>4 DEF TypeOK, EtagBehindContent, WorkListed
  <2> QED BY <2>4, <2>5, <2>6 DEF EtagBehindContent
<1>5. CASE Announce(t)
  <2>1. /\ RunsEnd({t}) /\ UNCHANGED <<bucketVars, chanceVars>>
        /\ UNCHANGED <<files, usage, tools, latency, stale>>
        /\ unannounced' \in BOOLEAN
    BY <1>5 DEF Announce, TypeOK
  <2>2. TypeOK'
    BY <2>1, RunsEndTyped DEF TypeOK, FlipSet
  <2>3. RowsBehind'
    BY <2>1 DEF EtagBehindContent, RowsBehind
  <2>4. RunsBehind' /\ WorkListed'
    BY <2>1, RunsEndBehind
  <2> QED BY <2>2, <2>3, <2>4 DEF EtagBehindContent
<1> QED BY <1>1, <1>4, <1>5, <1>6 DEF PostStep

(* A post-pass that raises and a process that dies only end runs.          *)
LEMMA DeathStep ==
    ASSUME IInv, Restart \/ (\E t \in Triggers : AbortPostPass(t))
    PROVE  IInv'
<1> USE SizesAssumption, DataAssumption DEF IInv
<1>1. PICK T \in SUBSET Triggers :
        /\ RunsEnd(T) /\ UNCHANGED <<bucket, newest, files>>
        /\ UNCHANGED <<usage, tools, latency, stale>>
        /\ unannounced' \in BOOLEAN
        /\ release' \in Releases /\ drops' \in Nat /\ deaths' \in Nat
  <2>1. CASE Restart
    <3>1. release \in Releases
      BY DEF TypeOK
    <3>2. release' \in Releases
      BY <2>1, <3>1 DEF Restart, SmallerOf, Releases
    <3>3. drops' = drops /\ deaths' = deaths + 1 /\ unannounced' = FALSE
      BY <2>1 DEF Restart
    <3>5. drops' \in Nat /\ deaths' \in Nat
      BY <3>3 DEF TypeOK
    <3>6. unannounced' \in BOOLEAN
      BY <3>3
    <3>4. /\ RunsEnd(Triggers) /\ UNCHANGED <<bucket, newest, files>>
          /\ UNCHANGED <<usage, tools, latency, stale>>
      BY <2>1 DEF Restart, bucketVars
    <3> QED BY <3>2, <3>4, <3>5, <3>6
  <2>2. ASSUME NEW t \in Triggers, AbortPostPass(t)
        PROVE  /\ RunsEnd({t}) /\ UNCHANGED <<bucket, newest, files>>
               /\ UNCHANGED <<usage, tools, latency, stale>>
               /\ unannounced' \in BOOLEAN
               /\ release' \in Releases /\ drops' \in Nat
               /\ deaths' \in Nat
    BY <2>2 DEF AbortPostPass, TypeOK, bucketVars, dbVars
  <2> QED BY <2>1, <2>2
<1>2. TypeOK'
  BY <1>1, RunsEndTyped DEF TypeOK, FlipSet
<1>3. RowsBehind'
  BY <1>1 DEF EtagBehindContent, RowsBehind
<1>4. RunsBehind' /\ WorkListed'
  BY <1>1, RunsEndBehind
<1> QED BY <1>2, <1>3, <1>4 DEF EtagBehindContent

LEMMA StutterStep == ASSUME IInv, UNCHANGED vars PROVE IInv'
  BY DEF IInv, TypeOK, EtagBehindContent, RowsBehind, RunsBehind, WorkListed,
         vars, bucketVars, dbVars, runVars, flagVars, chanceVars

LEMMA NextIInv == IInv /\ [Next]_vars => IInv'
<1> SUFFICES ASSUME IInv, [Next]_vars PROVE IInv' OBVIOUS
<1>1. CASE \E k \in Keys : Upload(k) \/ Remove(k)
  BY <1>1, EnvironmentStep
<1>2. ASSUME NEW t \in Triggers, RunStep(t) PROVE IInv'
  <2>1. CASE BeginRun(t) \/ ListKey(t) \/ PlanWork(t) \/ StartChunk(t)
    BY <2>1, ScanStep
  <2>2. CASE \E k \in Keys : \/ FetchOK(t, k) \/ FetchUnsupported(t, k)
                             \/ FetchFailed(t, k)
    BY <2>2, FetchStep
  <2>3. CASE \E k \in Keys : Persist(t, k)
    BY <2>3, PersistStep
  <2>4. CASE FetchDone(t) \/ DeleteOrphans(t) \/ FinishRun(t)
    BY <2>4, PhaseStep
  <2>5. CASE PostStep(t)
    BY <2>5, PostPassStep
  <2> QED BY <1>2, <2>1, <2>2, <2>3, <2>4, <2>5 DEF RunStep, MainStep
<1>3. CASE \E t \in Triggers : AbortMain(t)
  BY <1>3, PhaseStep
<1>4. CASE Restart \/ (\E t \in Triggers : AbortPostPass(t))
  BY <1>4, DeathStep
<1>5. CASE UNCHANGED vars
  BY <1>5, StutterStep
<1> QED BY <1>1, <1>2, <1>3, <1>4, <1>5 DEF Next

(* Every reachable state is typed, whatever the runs in flight.            *)
THEOREM TypeCorrect == Spec => []TypeOK
<1>1. IInv => TypeOK  BY DEF IInv
<1> QED BY <1>1, InitIInv, NextIInv, PTL DEF Spec

(* The etag comparison of _plan_work never skips a file whose records are  *)
(* older than the object: for any number of overlapping runs, failures and *)
(* restarts, and objects rewritten at any moment.                          *)
THEOREM SkippedFilesAreCurrent == Spec => []SkipSound
<1> QED BY IInvImpliesSkipSound, InitIInv, NextIInv, PTL DEF Spec
-----------------------------------------------------------------------------
(* What the post-passes leave.                                             *)
CanonExact == \A k \in Keys : files[k].canon = CanonicalOf(files, k)

(* Where a run is that has a pass still to come.                           *)
ToCanonical == MainPhases \cup {"finish", "canonical", "reflag"}
ToUsage == ToCanonical \cup {"usage"}
ToTools == ToUsage \cup {"tools"}
ToLatency == ToTools \cup {"latency"}
Ahead(places) == \E t \in Triggers : pc[t] \in places

(* What an open UPDATE under which no row came or went is going to write   *)
(* makes the flags exact, whatever else has been committed since.          *)
UpdatesSound ==
    \A t \in Updating \ raced : \A k \in Keys :
        /\ flips[t][k].on \subseteq CanonicalOf(files, k)
        /\ flips[t][k].off \cap CanonicalOf(files, k) = {}
        /\ (files[k].canon \cup flips[t][k].on) \ flips[t][k].off
              = CanonicalOf(files, k)

OverlapInv ==
    deaths = 0 =>
        /\ \A t \in Triggers : ~fatal[t]
        /\ CanonExact \/ stale \/ Ahead(ToCanonical)
        /\ usage = UsageOf(files) \/ Ahead(ToUsage)
        /\ tools = CallsOf(files) \/ Ahead(ToTools)
        /\ latency = CallsOf(files) \/ Ahead(ToLatency)

AlonePassed ==
    raced = {} /\ \A t \in Triggers :
        /\ pc[t] \in {"usage", "tools", "latency", "announce"} => CanonExact
        /\ pc[t] \in {"tools", "latency", "announce"} => usage = UsageOf(files)
        /\ pc[t] \in {"latency", "announce"} => tools = CallsOf(files)
        /\ pc[t] = "announce" => latency = CallsOf(files)

(* A listed object needs no more of the run.                               *)
Seen(t, k) ==
    \/ k \in failed[t] \/ k \notin Reads[release]
    \/ /\ files[k].etag = listing[t][k]
       /\ files[k].parser = ParserVersion[release]

AloneAccounts ==
    \A t \in Triggers : \A k \in Keys :
        /\ pc[t] = "list" => existing[t][k] = Stored(files[k])
        /\ pc[t] = "fetch" /\ listing[t][k] # 0 =>
              k \in todo[t] \cup batch[t] \/ fetched[t][k] # 0 \/ Seen(t, k)
        /\ pc[t] = "delete" /\ listing[t][k] # 0 => Seen(t, k)
        /\ pc[t] \in PostPasses \cup {"finish"} /\ ~fatal[t] =>
              IF listing[t][k] = 0 THEN ~HasRow(files, k) ELSE Seen(t, k)

OneAtATime == \A s, t \in Triggers : s = t

-----------------------------------------------------------------------------
(* What a step can do.  It moves runs and leaves the tables alone, a run   *)
(* writes rows while it fetches or deletes, or a pass is done.             *)

Moved(t) ==
    \/ pc'[t] = pc[t]
    \/ pc[t] \in {"idle", "finish"} \cup MainPhases /\ pc'[t] \in ToCanonical
    \/ /\ pc'[t] = "idle"
       /\ pc[t] = "announce" \/ (pc[t] = "finish" /\ fatal[t])
          \/ deaths' \notin {0, deaths}

(* No UPDATE begins or ends in a commit.                                   *)
Undisturbed ==
    \A t \in Updating' : t \in Updating /\ flips'[t] = flips[t]
                          /\ (t \in raced' <=> t \in raced)

Quiet ==
    /\ UNCHANGED <<files, usage, tools, latency, stale>>
    /\ \A t \in Triggers : Moved(t)
    /\ Undisturbed /\ raced' \subseteq raced

Wrote(t) ==
    /\ pc[t] \in {"fetch", "delete"} /\ pc'[t] \in {"fetch", "finish"}
    /\ \A s \in Triggers \ {t} : pc'[s] = pc[s]
    /\ UNCHANGED <<usage, tools, latency, stale>>
    /\ Updating' = Updating
    /\ raced' = raced \cup Updating \/ UNCHANGED <<files, flips, raced>>

Passed(t) == \/ RecomputeCanonical(t) \/ CommitCanonical(t) \/ RebuildRollup(t)
             \/ RebuildToolRollup(t) \/ RebuildLatencyRollup(t)

(* The one slot moves on, the others stay.                                 *)
LEMMA SlotMoves ==
  ASSUME TypeOK, NEW t \in Triggers, NEW p, pc' = [pc EXCEPT ![t] = p]
  PROVE  pc'[t] = p /\ \A s \in Triggers \ {t} : pc'[s] = pc[s]
BY DEF TypeOK

(* The end of runs leaves the UPDATEs of the others as they are.           *)
LEMMA EndUndisturbed ==
  ASSUME TypeOK, NEW T \in SUBSET Triggers, RunsEnd(T)
  PROVE  Undisturbed /\ raced' \subseteq raced
<1>1. \A s \in Triggers : pc'[s] = "reflag" => s \notin T /\ pc[s] = "reflag"
  BY DEF RunsEnd
<1>2. \A s \in Triggers \ T : flips'[s] = flips[s]
  BY DEF RunsEnd
<1>3. raced' = raced \ T
  BY DEF RunsEnd
<1>4. QED
  BY <1>1, <1>2, <1>3 DEF Undisturbed, Updating

LEMMA StepKinds ==
  ASSUME TypeOK, [Next]_vars
  PROVE  \/ Quiet
         \/ \E t \in Triggers : Wrote(t)
         \/ \E t \in Triggers : Passed(t)
<1> USE DEF MainPhases, ToCanonical
<1>1. CASE \E k \in Keys : Upload(k) \/ Remove(k)
  BY <1>1 DEF Upload, Remove, Quiet, Moved, Undisturbed, Updating, flagVars, dbVars, runVars
<1>2. ASSUME NEW t \in Triggers, BeginRun(t)
      PROVE  Quiet
  <2>1. pc[t] = "idle" /\ pc'[t] = "list" /\ \A s \in Triggers \ {t} : pc'[s] = pc[s]
    BY <1>2, SlotMoves DEF BeginRun
  <2>2. QED
    BY <1>2, <2>1 DEF BeginRun, Quiet, Moved, Undisturbed, Updating, flagVars, dbVars
<1>3. ASSUME NEW t \in Triggers, ListKey(t) \/ StartChunk(t)
      PROVE  Quiet
  BY <1>3 DEF ListKey, StartChunk, Quiet, Moved, Undisturbed, Updating, flagVars, dbVars
<1>4. ASSUME NEW t \in Triggers, PlanWork(t)
      PROVE  Quiet
  <2>1. pc[t] = "list" /\ pc'[t] = "fetch" /\ \A s \in Triggers \ {t} : pc'[s] = pc[s]
    BY <1>4, SlotMoves DEF PlanWork
  <2>2. QED
    BY <1>4, <2>1 DEF PlanWork, Quiet, Moved, Undisturbed, Updating, flagVars, dbVars
<1>5. ASSUME NEW t \in Triggers, NEW k \in Keys,
             FetchOK(t, k) \/ FetchUnsupported(t, k) \/ FetchFailed(t, k)
      PROVE  Quiet
  BY <1>5 DEF FetchOK, FetchUnsupported, FetchFailed, Quiet, Moved, Undisturbed, Updating, flagVars, dbVars
<1>6. ASSUME NEW t \in Triggers, NEW k \in Keys, Persist(t, k)
      PROVE  Wrote(t)
  <2>1. Updating' = Updating
    BY <1>6 DEF Persist, Updating
  <2>2. raced' = raced \cup Updating
    BY <1>6 DEF Persist, RowsReplaced
  <2>3. QED
    BY <1>6, <2>1, <2>2 DEF Persist, Wrote
<1>7. ASSUME NEW t \in Triggers, FetchDone(t)
      PROVE  Quiet
  <2>1. pc[t] = "fetch" /\ pc'[t] = "delete" /\ \A s \in Triggers \ {t} : pc'[s] = pc[s]
    BY <1>7, SlotMoves DEF FetchDone
  <2>2. QED
    BY <1>7, <2>1 DEF FetchDone, Quiet, Moved, Undisturbed, Updating, flagVars, dbVars
<1>8. ASSUME NEW t \in Triggers, DeleteOrphans(t)
      PROVE  Wrote(t)
  <2>1. pc[t] = "delete" /\ pc'[t] = "finish" /\ \A s \in Triggers \ {t} : pc'[s] = pc[s]
    BY <1>8, SlotMoves DEF DeleteOrphans
  <2>2. Updating' = Updating
    BY <2>1 DEF Updating
  <2>3. CASE Orphans(t) = {}
    <3>1. files' = files /\ flips' = flips /\ raced' = raced
      BY <1>8, <2>3 DEF DeleteOrphans, RowsReplaced, TypeOK
    <3>2. QED
      BY <1>8, <2>1, <2>2, <3>1 DEF DeleteOrphans, Wrote
  <2>4. CASE Orphans(t) # {}
    <3>1. raced' = raced \cup Updating
      BY <1>8, <2>4 DEF DeleteOrphans, RowsReplaced
    <3>2. QED
      BY <1>8, <2>1, <2>2, <3>1 DEF DeleteOrphans, Wrote
  <2>5. QED
    BY <2>3, <2>4
<1>9. ASSUME NEW t \in Triggers, FinishRun(t)
      PROVE  Quiet
  <2>1. CASE pc' = [pc EXCEPT ![t] = "canonical"]
    <3>1. pc[t] = "finish" /\ pc'[t] = "canonical"
          /\ \A s \in Triggers \ {t} : pc'[s] = pc[s]
      BY <1>9, <2>1, SlotMoves DEF FinishRun
    <3>2. UNCHANGED <<flips, raced>>
      BY <1>9, <3>1 DEF FinishRun, RunsEnd, flagVars
    <3>3. Undisturbed /\ raced' \subseteq raced
      BY <3>1, <3>2 DEF Undisturbed, Updating
    <3>4. QED
      BY <1>9, <3>1, <3>3 DEF FinishRun, Quiet, Moved, dbVars
  <2>2. CASE ~GoOn(t) /\ RunsEnd({t})
    <3>1. \A s \in Triggers : pc'[s] = IF s = t THEN "idle" ELSE pc[s]
      BY <2>2 DEF RunsEnd
    <3>2. QED
      BY <1>9, <2>2, <3>1, EndUndisturbed DEF FinishRun, GoOn, Quiet, Moved, dbVars
  <2>3. QED
    BY <1>9, <2>1, <2>2 DEF FinishRun
<1>10. ASSUME NEW t \in Triggers, Announce(t)
       PROVE  Quiet
  <2>1. \A s \in Triggers : pc'[s] = IF s = t THEN "idle" ELSE pc[s]
    BY <1>10 DEF Announce, RunsEnd
  <2>2. QED
    BY <1>10, <2>1, EndUndisturbed DEF Announce, Quiet, Moved
<1>11. ASSUME NEW t \in Triggers, AbortMain(t)
       PROVE  Quiet
  <2>1. pc[t] \in MainPhases /\ pc'[t] = "finish"
        /\ \A s \in Triggers \ {t} : pc'[s] = pc[s]
    BY <1>11, SlotMoves DEF AbortMain
  <2>2. QED
    BY <1>11, <2>1 DEF AbortMain, Quiet, Moved, Undisturbed, Updating, flagVars, dbVars
<1>12. ASSUME NEW T \in SUBSET Triggers, RunsEnd(T), deaths' = deaths + 1,
              UNCHANGED <<files, usage, tools, latency, stale>>
       PROVE  Quiet
  <2>1. deaths' \notin {0, deaths}
    BY <1>12 DEF TypeOK
  <2>2. \A s \in Triggers : pc'[s] \in {"idle", pc[s]}
    BY <1>12 DEF RunsEnd
  <2>3. QED
    BY <1>12, <2>1, <2>2, EndUndisturbed DEF Quiet, Moved
<1>13. CASE Restart \/ \E t \in Triggers : AbortPostPass(t)
  BY <1>12, <1>13 DEF Restart, AbortPostPass, dbVars
<1>14. CASE UNCHANGED vars
  BY <1>14 DEF vars, dbVars, runVars, Quiet, Moved, Undisturbed, Updating, flagVars
<1>15. QED
  BY <1>1, <1>2, <1>3, <1>4, <1>5, <1>6, <1>7, <1>8, <1>9, <1>10, <1>11, <1>13, <1>14
  DEF Next, RunStep, MainStep, PostStep, Passed

(* Nobody dies in the step, and no run turns fatal.                        *)
Lives ==
    deaths' = deaths /\ (fatal' = fatal \/ \E t \in Triggers : RunsEnd({t}))

(* Nobody is fatal but by dying.                                           *)
LEMMA FatalIsDeath ==
  ASSUME TypeOK, [Next]_vars, deaths' = 0
  PROVE  deaths = 0 /\ \A t \in Triggers : fatal'[t] => fatal[t]
<1>1. ASSUME (\E k \in Keys : Upload(k) \/ Remove(k)) \/ UNCHANGED vars
      PROVE  Lives
  BY <1>1 DEF Upload, Remove, vars, runVars, chanceVars, Lives
<1>2. ASSUME NEW t \in Triggers, BeginRun(t) \/ MainStep(t)
      PROVE  Lives
  <2>1. CASE BeginRun(t)
    BY <2>1 DEF BeginRun, chanceVars, Lives
  <2>2. CASE ListKey(t) \/ PlanWork(t) \/ StartChunk(t)
    BY <2>2 DEF ListKey, PlanWork, StartChunk, chanceVars, Lives
  <2>3. ASSUME NEW k \in Keys, FetchOK(t, k) \/ FetchUnsupported(t, k)
        PROVE  Lives
    BY <2>3 DEF FetchOK, FetchUnsupported, chanceVars, Lives
  <2>4. ASSUME NEW k \in Keys, FetchFailed(t, k) \/ Persist(t, k)
        PROVE  Lives
    BY <2>4 DEF FetchFailed, Persist, chanceVars, Lives
  <2>5. CASE FetchDone(t) \/ DeleteOrphans(t)
    BY <2>5 DEF FetchDone, DeleteOrphans, chanceVars, Lives
  <2>6. CASE FinishRun(t)
    BY <2>6 DEF FinishRun, chanceVars, Lives
  <2>7. QED
    BY <1>2, <2>1, <2>2, <2>3, <2>4, <2>5, <2>6 DEF MainStep
<1>3. ASSUME NEW t \in Triggers, PostStep(t)
      PROVE  Lives
  <2>1. CASE RecomputeCanonical(t) \/ CommitCanonical(t)
    BY <2>1 DEF RecomputeCanonical, CommitCanonical, PassDone, chanceVars, Lives
  <2>2. CASE RebuildRollup(t) \/ RebuildToolRollup(t) \/ RebuildLatencyRollup(t)
    BY <2>2 DEF RebuildRollup, RebuildToolRollup, RebuildLatencyRollup, PassDone, chanceVars, Lives
  <2>3. CASE Announce(t)
    BY <2>3 DEF Announce, PassDone, chanceVars, Lives
  <2>4. QED
    BY <1>3, <2>1, <2>2, <2>3 DEF PostStep
<1>4. ASSUME Restart \/ \E t \in Triggers : AbortMain(t) \/ AbortPostPass(t)
      PROVE  Lives
  <2>1. deaths \in Nat
    BY DEF TypeOK
  <2>2. deaths' = deaths + 1
    BY <1>4 DEF Restart, AbortMain, AbortPostPass
  <2>3. QED
    BY <2>1, <2>2
<1>5. Lives
  <2>1. CASE UNCHANGED vars
    BY <1>1, <2>1
  <2>2. CASE \E k \in Keys : Upload(k) \/ Remove(k)
    BY <1>1, <2>2
  <2>3. CASE \E t \in Triggers : RunStep(t) \/ AbortMain(t) \/ AbortPostPass(t)
    BY <1>2, <1>3, <1>4, <2>3 DEF RunStep
  <2>4. CASE Restart
    BY <1>4, <2>4
  <2>5. QED
    BY <2>1, <2>2, <2>3, <2>4 DEF Next
<1>6. QED
  BY <1>5 DEF Lives, RunsEnd

(* The records behind the rows are not the flags' to change.               *)
LEMMA SameRecords ==
  ASSUME NEW f, NEW g,
         \A k \in Keys : g[k].etag = f[k].etag /\ g[k].content = f[k].content
  PROVE  /\ \A k \in Keys : CanonicalOf(g, k) = CanonicalOf(f, k)
         /\ CallsOf(g) = CallsOf(f)
<1>1. \A k \in Keys : RecordsOf(g, k) = RecordsOf(f, k)
  BY DEF RecordsOf, HasRow
<1>2. \A k \in Keys : CanonicalOf(g, k) = CanonicalOf(f, k)
  BY <1>1 DEF CanonicalOf, IsFirst
<1>3. CallsOf(g) = CallsOf(f)
  BY DEF CallsOf, HasRow
<1>4. QED
  BY <1>2, <1>3

(* What each pass does to the tables, and to the place of its run.         *)
LEMMA PassEffects ==
  ASSUME TypeOK, NEW t \in Triggers
  PROVE  /\ RecomputeCanonical(t) =>
               /\ pc[t] = "canonical" /\ pc'[t] = "reflag"
               /\ UNCHANGED <<files, usage, tools, latency, stale, raced>>
         /\ CommitCanonical(t) =>
               /\ pc[t] = "reflag" /\ pc'[t] = "usage"
               /\ stale' = (t \in raced)
               /\ UpdatesSound => CanonExact' \/ t \in raced
               /\ CallsOf(files)' = CallsOf(files) /\ UNCHANGED <<usage, tools, latency>>
         /\ RebuildRollup(t) =>
               /\ pc[t] = "usage" /\ pc'[t] = "tools" /\ usage' = UsageOf(files)
               /\ UNCHANGED <<files, tools, latency, stale, flips, raced>>
         /\ RebuildToolRollup(t) =>
               /\ pc[t] = "tools" /\ pc'[t] = "latency" /\ tools' = CallsOf(files)
               /\ UNCHANGED <<files, usage, latency, stale, flips, raced>>
         /\ RebuildLatencyRollup(t) =>
               /\ pc[t] = "latency" /\ pc'[t] = "announce" /\ latency' = CallsOf(files)
               /\ UNCHANGED <<files, usage, tools, stale, flips, raced>>
         /\ Passed(t) => \A s \in Triggers \ {t} : pc'[s] = pc[s]
<1>1. ASSUME CommitCanonical(t)
      PROVE  /\ CallsOf(files)' = CallsOf(files)
             /\ UpdatesSound => CanonExact' \/ t \in raced
  <2>1. /\ \A k \in Keys : CanonicalOf(files', k) = CanonicalOf(files, k)
        /\ CallsOf(files') = CallsOf(files)
    BY <1>1, CommitKeepsRows, SameRecords
  <2>2. pc[t] = "reflag"
    BY <1>1 DEF CommitCanonical, PassDone
  <2>3. ASSUME UpdatesSound, t \notin raced
        PROVE  CanonExact'
    <3>1. t \in Updating \ raced
      BY <2>2, <2>3 DEF Updating
    <3>2. \A k \in Keys : files'[k].canon = CanonicalOf(files, k)
      <4>1. \A k \in Keys : (files[k].canon \cup flips[t][k].on) \ flips[t][k].off
                                = CanonicalOf(files, k)
        BY <2>3, <3>1 DEF UpdatesSound
      <4>2. \A k \in Keys : files'[k].canon
                = (files[k].canon \cup flips[t][k].on) \ flips[t][k].off
        BY <1>1, CommitKeepsRows
      <4>3. QED
        BY <4>1, <4>2
    <3>3. QED
      BY <2>1, <3>2 DEF CanonExact
  <2>4. QED
    BY <2>1, <2>3
<1>2. RecomputeCanonical(t) =>
        /\ pc[t] = "canonical" /\ pc'[t] = "reflag"
        /\ UNCHANGED <<files, usage, tools, latency, stale, raced>>
  BY SlotMoves DEF RecomputeCanonical, PassDone, dbVars
<1>3. CommitCanonical(t) =>
        /\ pc[t] = "reflag" /\ pc'[t] = "usage" /\ stale' = (t \in raced)
        /\ UNCHANGED <<usage, tools, latency>>
  BY SlotMoves DEF CommitCanonical, PassDone
<1>4. QED
  BY <1>1, <1>2, <1>3, SlotMoves DEF Passed, RecomputeCanonical, CommitCanonical,
     RebuildRollup, RebuildToolRollup, RebuildLatencyRollup, PassDone, flagVars

(* A run that moves stays ahead of its passes, or dies, or was past them.  *)
LEMMA StaysAhead ==
  ASSUME Quiet, deaths' = 0, \A t \in Triggers : ~fatal[t],
         NEW P, ToCanonical \subseteq P, P \cap {"idle", "announce"} = {}
  PROVE  Ahead(P) => Ahead(P)'
BY DEF Quiet, Moved, Ahead, ToCanonical, MainPhases

(* An UPDATE starts sound; rows that come or go, or a raced commit, take   *)
(* the open ones out of the promise; a commit that is not raced writes     *)
(* what every other open one would.                                        *)
LEMMA NextUpdates == TypeOK /\ UpdatesSound /\ [Next]_vars => UpdatesSound'
<1> SUFFICES ASSUME TypeOK, UpdatesSound, [Next]_vars PROVE UpdatesSound'
  OBVIOUS
<1>1. CASE Quiet
  BY <1>1 DEF Quiet, Undisturbed, UpdatesSound
<1>2. ASSUME NEW t \in Triggers, Wrote(t)
      PROVE  UpdatesSound'
  BY <1>2 DEF Wrote, UpdatesSound
<1>3. ASSUME NEW t \in Triggers, RecomputeCanonical(t)
      PROVE  UpdatesSound'
  <2>1. /\ UNCHANGED <<files, raced>> /\ Updating' = Updating \cup {t}
        /\ \A s \in Triggers \ {t} : flips'[s] = flips[s]
        /\ \A k \in Keys : flips'[t][k] = Flips(files, k)
    <3>1. /\ UNCHANGED <<files, raced>> /\ pc'[t] = "reflag"
          /\ \A s \in Triggers \ {t} : pc'[s] = pc[s]
      BY <1>3, PassEffects DEF Passed
    <3>2. Updating' = Updating \cup {t}
      BY <3>1 DEF Updating
    <3>3. flips' = [flips EXCEPT ![t] = [k \in Keys |-> Flips(files, k)]]
      BY <1>3 DEF RecomputeCanonical
    <3>4. /\ \A s \in Triggers \ {t} : flips'[s] = flips[s]
          /\ \A k \in Keys : flips'[t][k] = Flips(files, k)
      BY <3>3 DEF TypeOK
    <3>5. QED
      BY <3>1, <3>2, <3>4
  <2>2. \A k \in Keys :
          LET c == CanonicalOf(files, k)
          IN  /\ Flips(files, k).on \subseteq c /\ Flips(files, k).off \cap c = {}
              /\ (files[k].canon \cup Flips(files, k).on) \ Flips(files, k).off = c
    BY DEF Flips
  <2>3. Updating \subseteq Triggers
    BY DEF Updating
  <2>4. QED
    BY <2>1, <2>2, <2>3 DEF UpdatesSound
<1>4. ASSUME NEW t \in Triggers, CommitCanonical(t)
      PROVE  UpdatesSound'
  <2>1. /\ Updating' = Updating \ {t}
        /\ \A s \in Triggers \ {t} : flips'[s] = flips[s]
        /\ raced' = (IF t \in raced THEN Updating ELSE raced) \ {t}
    BY <1>4, PassEffects DEF CommitCanonical, Passed, Updating, TypeOK
  <2>2. CASE t \in raced
    BY <2>1, <2>2 DEF UpdatesSound
  <2>3. CASE t \notin raced
    <3>1. \A k \in Keys : /\ CanonicalOf(files', k) = CanonicalOf(files, k)
                          /\ files'[k].canon = CanonicalOf(files, k)
      BY <1>4, <2>3, CommitKeepsRows, SameRecords, PassEffects DEF CanonExact
    <3>2. \A s \in Updating' \ raced' : s \in Updating \ raced /\ flips'[s] = flips[s]
      BY <2>1, <2>3 DEF Updating
    <3>3. \A s \in Updating' \ raced', k \in Keys :
            /\ flips'[s][k].on \subseteq CanonicalOf(files', k)
            /\ flips'[s][k].off \cap CanonicalOf(files', k) = {}
            /\ (files'[k].canon \cup flips'[s][k].on) \ flips'[s][k].off
                  = CanonicalOf(files', k)
      BY <3>1, <3>2 DEF UpdatesSound
    <3>4. QED
      BY <3>3 DEF UpdatesSound
  <2>4. QED
    BY <2>2, <2>3
<1>5. ASSUME NEW t \in Triggers,
             RebuildRollup(t) \/ RebuildToolRollup(t) \/ RebuildLatencyRollup(t)
      PROVE  UpdatesSound'
  <2>1. UNCHANGED <<files, flips, raced>> /\ Updating' = Updating
    BY <1>5, PassEffects DEF Passed, Updating
  <2>2. QED
    BY <2>1 DEF UpdatesSound
<1>6. QED
  BY <1>1, <1>2, <1>3, <1>4, <1>5, StepKinds DEF Passed

LEMMA NextOverlap == TypeOK /\ UpdatesSound /\ OverlapInv /\ [Next]_vars => OverlapInv'
<1> SUFFICES ASSUME TypeOK, UpdatesSound, OverlapInv, [Next]_vars, deaths' = 0
             PROVE  /\ \A t \in Triggers : ~fatal'[t]
                    /\ CanonExact' \/ stale' \/ Ahead(ToCanonical)'
                    /\ usage' = UsageOf(files') \/ Ahead(ToUsage)'
                    /\ tools' = CallsOf(files') \/ Ahead(ToTools)'
                    /\ latency' = CallsOf(files') \/ Ahead(ToLatency)'
  BY DEF OverlapInv
<1> USE DEF ToLatency, ToTools, ToUsage
<1>1. /\ \A t \in Triggers : ~fatal[t]
      /\ CanonExact \/ stale \/ Ahead(ToCanonical)
      /\ usage = UsageOf(files) \/ Ahead(ToUsage)
      /\ tools = CallsOf(files) \/ Ahead(ToTools)
      /\ latency = CallsOf(files) \/ Ahead(ToLatency)
  BY FatalIsDeath DEF OverlapInv
<1>2. \A t \in Triggers : ~fatal'[t]
  BY <1>1, FatalIsDeath
<1>3. CASE Quiet
  <2>1. CanonExact' <=> CanonExact
    BY <1>3 DEF Quiet, CanonExact
  <2>2. /\ Ahead(ToCanonical) => Ahead(ToCanonical)'
        /\ Ahead(ToUsage) => Ahead(ToUsage)'
        /\ Ahead(ToTools) => Ahead(ToTools)'
        /\ Ahead(ToLatency) => Ahead(ToLatency)'
    BY <1>1, <1>3, StaysAhead DEF ToCanonical, MainPhases
  <2>3. QED
    BY <1>1, <1>2, <1>3, <2>1, <2>2 DEF Quiet
<1>4. CASE \E t \in Triggers : Wrote(t)
  BY <1>2, <1>4 DEF Wrote, Ahead, ToCanonical, MainPhases
<1>5. ASSUME NEW t \in Triggers, RecomputeCanonical(t)
      PROVE  Ahead(ToCanonical)' /\ Ahead(ToUsage)' /\ Ahead(ToTools)' /\ Ahead(ToLatency)'
  BY <1>5, PassEffects DEF Ahead, ToCanonical
<1>10. ASSUME NEW t \in Triggers, CommitCanonical(t)
       PROVE  /\ CanonExact' \/ stale'
              /\ Ahead(ToUsage)' /\ Ahead(ToTools)' /\ Ahead(ToLatency)'
  BY <1>10, PassEffects DEF Ahead
<1>6. ASSUME NEW t \in Triggers, RebuildRollup(t)
      PROVE  /\ CanonExact' \/ stale' \/ Ahead(ToCanonical)'
             /\ usage' = UsageOf(files') /\ Ahead(ToTools)' /\ Ahead(ToLatency)'
  BY <1>1, <1>6, PassEffects DEF Ahead, Passed, CanonExact, ToCanonical, MainPhases
<1>7. ASSUME NEW t \in Triggers, RebuildToolRollup(t)
      PROVE  /\ CanonExact' \/ stale' \/ Ahead(ToCanonical)'
             /\ usage' = UsageOf(files') \/ Ahead(ToUsage)'
             /\ tools' = CallsOf(files') /\ Ahead(ToLatency)'
  BY <1>1, <1>7, PassEffects DEF Ahead, Passed, CanonExact, ToCanonical, MainPhases
<1>8. ASSUME NEW t \in Triggers, RebuildLatencyRollup(t)
      PROVE  /\ CanonExact' \/ stale' \/ Ahead(ToCanonical)'
             /\ usage' = UsageOf(files') \/ Ahead(ToUsage)'
             /\ tools' = CallsOf(files') \/ Ahead(ToTools)'
             /\ latency' = CallsOf(files')
  BY <1>1, <1>8, PassEffects DEF Ahead, Passed, CanonExact, ToCanonical, MainPhases
<1>9. QED
  BY <1>2, <1>3, <1>4, <1>5, <1>6, <1>7, <1>8, <1>10, StepKinds DEF Passed

(* Exact flags make the counted pairs the first ones.                      *)
LEMMA CanonCounts ==
  ASSUME CanonExact
  PROVE  UsageOf(files) = TrueUsage(files)
<1>1. \A p \in Keys \X Uuids :
        p[2] \in files[p[1]].canon <=> IsFirst(files, p[1], p[2])
  BY DEF CanonExact, CanonicalOf, IsFirst
<1>2. QED
  BY <1>1 DEF UsageOf, TrueUsage

LEMMA InitOverlap == Init => OverlapInv
<1> SUFFICES ASSUME Init PROVE OverlapInv
  OBVIOUS
<1>1. \A k \in Keys : files[k] = NoRow
  BY DEF Init
<1>2. CanonExact /\ usage = UsageOf(files) /\ tools = CallsOf(files)
      /\ latency = CallsOf(files)
  BY <1>1 DEF Init, CanonExact, CanonicalOf, RecordsOf, HasRow, NoRow, UsageOf, CallsOf
<1>3. QED
  BY <1>2 DEF Init, OverlapInv

(* Once every run is over and none of them died, the rollups describe the  *)
(* records, however many runs overlapped.                                  *)
(* (ingest.py, run_ingest and its post-passes)                             *)
THEOREM OverlappingRunsLeaveExact == Spec => []QuiescentDerivedExact
<1>1. OverlapInv => QuiescentDerivedExact
  BY CanonCounts DEF OverlapInv, QuiescentDerivedExact, Rest, DerivedExact, Ahead,
     ToLatency, ToTools, ToUsage, ToCanonical, MainPhases
<1>2. IInv => TypeOK
  BY DEF IInv
<1>3. Init => UpdatesSound
  BY DEF Init, UpdatesSound, Updating
<1>4. QED
  BY <1>1, <1>2, <1>3, InitIInv, NextIInv, NextUpdates, InitOverlap, NextOverlap, PTL
  DEF Spec

-----------------------------------------------------------------------------
(* One run at a time.                                                      *)

LEMMA FirstIsOne == \A p, q \in TrueUsage(files) : p[2] = q[2] => p = q
<1> SUFFICES ASSUME NEW p \in TrueUsage(files), NEW q \in TrueUsage(files), p[2] = q[2]
             PROVE  p = q
  OBVIOUS
<1>1. /\ p \in Keys \X Uuids /\ q \in Keys \X Uuids
      /\ IsFirst(files, p[1], p[2]) /\ IsFirst(files, q[1], q[2])
  BY DEF TrueUsage
<1>2. p[1] \in Nat /\ q[1] \in Nat
  BY <1>1, SizesAssumption DEF Keys
<1>3. ~(p[1] < q[1]) /\ ~(q[1] < p[1])
  BY <1>1 DEF IsFirst
<1>4. p[1] = q[1]
  BY <1>2, <1>3
<1>5. QED
  BY <1>1, <1>4

LEMMA NextPassed ==
  OneAtATime /\ TypeOK /\ UpdatesSound /\ AlonePassed /\ UsageCountsOnce /\ [Next]_vars
    => AlonePassed' /\ UsageCountsOnce'
<1> SUFFICES ASSUME OneAtATime, TypeOK, UpdatesSound, AlonePassed, UsageCountsOnce,
                    [Next]_vars
             PROVE  AlonePassed' /\ UsageCountsOnce'
  OBVIOUS
<1>1. CASE Quiet
  <2>1. \A t \in Triggers :
          pc'[t] \in {"usage", "tools", "latency", "announce"} => pc'[t] = pc[t]
    BY <1>1 DEF Quiet, Moved, ToCanonical, MainPhases
  <2>2. CanonExact' <=> CanonExact
    BY <1>1 DEF Quiet, CanonExact
  <2>3. AlonePassed'
    BY <1>1, <2>1, <2>2 DEF Quiet, AlonePassed
  <2>4. QED
    BY <1>1, <2>3 DEF Quiet, UsageCountsOnce
<1>2. CASE \E t \in Triggers : Wrote(t)
  <2>1. PICK t \in Triggers : Wrote(t)
    BY <1>2
  <2>2. Updating = {} /\ raced = {}
    BY <2>1 DEF OneAtATime, Wrote, Updating, AlonePassed
  <2>3. raced' = {}
    BY <2>1, <2>2 DEF Wrote
  <2>4. QED
    BY <2>1, <2>3 DEF OneAtATime, Wrote, AlonePassed, UsageCountsOnce
<1>3. ASSUME NEW t \in Triggers, RecomputeCanonical(t)
      PROVE  AlonePassed' /\ UsageCountsOnce'
  BY <1>3, PassEffects DEF OneAtATime, AlonePassed, UsageCountsOnce
<1>7. ASSUME NEW t \in Triggers, CommitCanonical(t)
      PROVE  AlonePassed' /\ UsageCountsOnce'
  <2>1. raced = {} /\ raced' = {}
    BY <1>7 DEF AlonePassed, CommitCanonical
  <2>2. CanonExact' /\ pc'[t] = "usage" /\ usage' = usage
    BY <1>7, <2>1, PassEffects
  <2>3. QED
    BY <2>1, <2>2 DEF OneAtATime, AlonePassed, UsageCountsOnce
<1>4. ASSUME NEW t \in Triggers, RebuildRollup(t)
      PROVE  AlonePassed' /\ UsageCountsOnce'
  <2>1. /\ pc[t] = "usage" /\ pc'[t] = "tools" /\ usage' = UsageOf(files)
        /\ UNCHANGED <<files, tools, latency, raced>>
    BY <1>4, PassEffects
  <2>2. CanonExact
    BY <2>1 DEF AlonePassed
  <2>3. UsageCountsOnce'
    BY <2>1, <2>2, CanonCounts, FirstIsOne DEF UsageCountsOnce
  <2>4. CanonExact'
    BY <2>1, <2>2 DEF CanonExact
  <2>5. QED
    BY <2>1, <2>3, <2>4 DEF OneAtATime, AlonePassed
<1>5. ASSUME NEW t \in Triggers, RebuildToolRollup(t) \/ RebuildLatencyRollup(t)
      PROVE  AlonePassed' /\ UsageCountsOnce'
  <2>1. UNCHANGED <<files, usage, raced>>
    BY <1>5, PassEffects
  <2>2. CanonExact' <=> CanonExact
    BY <2>1 DEF CanonExact
  <2>3. QED
    BY <1>5, <2>1, <2>2, PassEffects DEF OneAtATime, AlonePassed, UsageCountsOnce
<1>6. QED
  BY <1>1, <1>2, <1>3, <1>4, <1>5, <1>7, StepKinds DEF Passed

LEMMA PassedAlways ==
  ASSUME OneAtATime
  PROVE  Spec => [](TypeOK /\ AlonePassed /\ UsageCountsOnce)
<1>1. Init => UpdatesSound /\ AlonePassed /\ UsageCountsOnce
  BY DEF Init, UpdatesSound, Updating, AlonePassed, UsageCountsOnce
<1>2. TypeOK /\ UpdatesSound /\ AlonePassed /\ UsageCountsOnce /\ [Next]_vars
        => AlonePassed' /\ UsageCountsOnce'
  BY OneAtATime, NextPassed
<1>3. QED
  BY <1>1, <1>2, NextUpdates, TypeCorrect, PTL DEF Spec

(* With no second run in flight usage_rollup never counts a uuid twice,    *)
(* whatever fails and however often the process restarts.                  *)
(* (ingest.py, recompute_canonical and rebuild_rollup)                     *)
THEOREM UsageNeverCountsTwice ==
  ASSUME OneAtATime
  PROVE  Spec => []UsageCountsOnce
BY PassedAlways, OneAtATime, PTL

(* A run that ends without a fatal error leaves every rollup exact, also   *)
(* when it changed nothing and repairs what an earlier one left.           *)
(* (ingest.py, run_ingest)                                                 *)
THEOREM CleanRunsHeal ==
  ASSUME OneAtATime
  PROVE  Spec => CleanRunHeals
<1>1. TypeOK /\ AlonePassed /\ [Next]_vars
        => [\A t \in Triggers : CleanEnd(t) => DerivedExact']_vars
  <2> SUFFICES ASSUME TypeOK, AlonePassed, [Next]_vars, NEW t \in Triggers, CleanEnd(t)
               PROVE  DerivedExact'
    OBVIOUS
  <2>1. Quiet /\ pc[t] = "announce"
    <3>1. CASE Quiet
      BY <3>1 DEF Quiet, Moved, CleanEnd, ToCanonical, MainPhases
    <3>2. CASE \E s \in Triggers : Wrote(s)
      BY <3>2 DEF Wrote, CleanEnd
    <3>3. CASE \E s \in Triggers : Passed(s)
      BY <3>3, PassEffects DEF Passed, CleanEnd
    <3>4. QED
      BY <3>1, <3>2, <3>3, StepKinds
  <2>2. DerivedExact
    BY <2>1, CanonCounts DEF AlonePassed, DerivedExact
  <2>3. QED
    BY <2>1, <2>2 DEF Quiet, DerivedExact
<1>2. QED
  BY <1>1, OneAtATime, PassedAlways, PTL DEF Spec, CleanRunHeals

LEMMA InitAccounts == Init => AloneAccounts
BY DEF Init, AloneAccounts, PostPasses

(* The places from which nothing is owed.                                  *)
LEMMA IdleAccounts ==
  ASSUME \A t \in Triggers : pc'[t] = "idle" \/ (pc'[t] = "finish" /\ fatal'[t])
  PROVE  AloneAccounts'
BY DEF AloneAccounts, PostPasses

LEMMA ScanAccounts ==
  ASSUME OneAtATime, TypeOK, AloneAccounts, NEW t \in Triggers,
         BeginRun(t) \/ ListKey(t) \/ PlanWork(t) \/ StartChunk(t)
  PROVE  AloneAccounts'
<1>1. CASE BeginRun(t)
  <2>1. pc'[t] = "list" /\ files' = files
        /\ \A k \in Keys : existing'[t][k] = Stored(files[k])
    BY <1>1, SlotMoves DEF BeginRun, dbVars, TypeOK
  <2>2. QED
    BY <2>1 DEF OneAtATime, AloneAccounts, PostPasses
<1>2. CASE ListKey(t)
  <2>1. pc[t] = "list" /\ UNCHANGED <<pc, files, existing>>
    BY <1>2 DEF ListKey, dbVars
  <2>2. QED
    BY <2>1 DEF OneAtATime, AloneAccounts, PostPasses
<1>3. CASE PlanWork(t)
  <2>1. pc[t] = "list" /\ pc'[t] = "fetch" /\ UNCHANGED <<files, listing, release, failed>>
    BY <1>3, SlotMoves DEF PlanWork, dbVars, chanceVars
  <2>2. \A k \in Keys : listing[t][k] # 0 => k \in todo'[t] \/ UpToDate(t, k)
    BY <1>3 DEF PlanWork, TypeOK
  <2>3. \A k \in Keys : UpToDate(t, k) => Seen(t, k)'
    <3> TAKE k \in Keys
    <3>1. existing[t][k] = [etag |-> files[k].etag, parser |-> files[k].parser]
      BY <2>1 DEF AloneAccounts, Stored
    <3>2. UpToDate(t, k) => /\ files[k].etag = listing[t][k]
                            /\ files[k].parser = ParserVersion[release]
      BY <3>1 DEF UpToDate
    <3>3. QED
      BY <2>1, <3>2 DEF Seen
  <2>4. QED
    BY <2>1, <2>2, <2>3 DEF OneAtATime, AloneAccounts, PostPasses
<1>4. CASE StartChunk(t)
  <2>1. pc[t] = "fetch" /\ UNCHANGED <<pc, files, listing, release, failed, fetched>>
        /\ todo[t] \cup batch[t] \subseteq todo'[t] \cup batch'[t]
    BY <1>4 DEF StartChunk, dbVars, chanceVars, TypeOK
  <2>2. \A k \in Keys : Seen(t, k)' <=> Seen(t, k)
    BY <2>1 DEF Seen
  <2>3. QED
    BY <2>1, <2>2 DEF OneAtATime, AloneAccounts, PostPasses
<1>5. QED
  BY <1>1, <1>2, <1>3, <1>4

LEMMA FetchAccounts ==
  ASSUME OneAtATime, TypeOK, AloneAccounts, NEW t \in Triggers, NEW k \in Keys,
         FetchOK(t, k) \/ FetchUnsupported(t, k) \/ FetchFailed(t, k)
  PROVE  AloneAccounts'
<1>1. pc[t] = "fetch" /\ UNCHANGED <<pc, files, listing, release, todo>>
      /\ batch'[t] = batch[t] \ {k}
  BY DEF FetchOK, FetchUnsupported, FetchFailed, dbVars, chanceVars, TypeOK
<1>2. failed[t] \subseteq failed'[t]
      /\ \A j \in Keys : fetched[t][j] # 0 => fetched'[t][j] # 0
  BY DEF FetchOK, FetchUnsupported, FetchFailed, TypeOK
<1>3. \A j \in Keys : Seen(t, j) => Seen(t, j)'
  BY <1>1, <1>2 DEF Seen
<1>4. fetched'[t][k] # 0 \/ Seen(t, k)'
  BY <1>1 DEF FetchOK, FetchUnsupported, FetchFailed, Seen, TypeOK
<1>5. QED
  BY <1>1, <1>2, <1>3, <1>4 DEF OneAtATime, AloneAccounts, PostPasses

LEMMA PersistAccounts ==
  ASSUME OneAtATime, TypeOK, AloneAccounts, NEW t \in Triggers, NEW k \in Keys,
         Persist(t, k)
  PROVE  AloneAccounts'
<1>1. pc[t] = "fetch" /\ UNCHANGED <<pc, listing, release, todo, batch, failed>>
  BY DEF Persist, chanceVars
<1>2. \A j \in Keys \ {k} : files'[j] = files[j] /\ fetched'[t][j] = fetched[t][j]
  BY DEF Persist, TypeOK
<1>3. files'[k].etag = listing[t][k] /\ files'[k].parser = ParserVersion[release]
  BY DEF Persist, Parsed, TypeOK
<1>4. Seen(t, k)' /\ \A j \in Keys \ {k} : Seen(t, j)' <=> Seen(t, j)
  BY <1>1, <1>2, <1>3 DEF Seen
<1>5. QED
  BY <1>1, <1>2, <1>4 DEF OneAtATime, AloneAccounts, PostPasses

LEMMA PhaseAccounts ==
  ASSUME OneAtATime, TypeOK, AloneAccounts, NEW t \in Triggers,
         FetchDone(t) \/ DeleteOrphans(t) \/ FinishRun(t) \/ AbortMain(t)
  PROVE  AloneAccounts'
<1>1. CASE FetchDone(t)
  <2>1. pc[t] = "fetch" /\ pc'[t] = "delete" /\ UNCHANGED <<files, listing, release, failed>>
    BY <1>1, SlotMoves DEF FetchDone, dbVars, chanceVars
  <2>2. \A k \in Keys : k \notin todo[t] \cup batch[t] /\ fetched[t][k] = 0
    BY <1>1 DEF FetchDone, Resolved
  <2>3. \A k \in Keys : Seen(t, k)' <=> Seen(t, k)
    BY <2>1 DEF Seen
  <2>4. QED
    BY <2>1, <2>2, <2>3 DEF OneAtATime, AloneAccounts, PostPasses
<1>2. CASE DeleteOrphans(t)
  <2>1. pc[t] = "delete" /\ pc'[t] = "finish" /\ UNCHANGED <<listing, release, failed>>
    BY <1>2, SlotMoves DEF DeleteOrphans, chanceVars
  <2>2. \A k \in Keys : files'[k] = IF k \in Orphans(t) THEN NoRow ELSE files[k]
    BY <1>2 DEF DeleteOrphans
  <2>3. \A k \in Keys : listing[t][k] # 0 => (Seen(t, k)' <=> Seen(t, k))
    BY <2>1, <2>2 DEF Seen, Orphans
  <2>4. \A k \in Keys : listing[t][k] = 0 => ~HasRow(files', k)
    BY <2>2 DEF Orphans, HasRow, NoRow
  <2>5. QED
    BY <2>1, <2>3, <2>4 DEF OneAtATime, AloneAccounts, PostPasses
<1>3. CASE FinishRun(t)
  <2>1. CASE GoOn(t) /\ pc' = [pc EXCEPT ![t] = "canonical"]
             /\ UNCHANGED <<listing, failed, fatal>>
    <3>1. pc[t] = "finish" /\ ~fatal[t] /\ pc'[t] = "canonical"
          /\ UNCHANGED <<files, listing, release, failed, fatal>>
      BY <1>3, <2>1, SlotMoves DEF FinishRun, GoOn, dbVars, chanceVars
    <3>2. \A k \in Keys : Seen(t, k)' <=> Seen(t, k)
      BY <3>1 DEF Seen
    <3>3. QED
      BY <3>1, <3>2 DEF OneAtATime, AloneAccounts, PostPasses, HasRow
  <2>2. CASE RunsEnd({t})
    BY <2>2, IdleAccounts DEF RunsEnd, OneAtATime
  <2>3. QED
    BY <1>3, <2>1, <2>2 DEF FinishRun
<1>4. CASE AbortMain(t)
  <2>1. pc'[t] = "finish" /\ fatal'[t]
    BY <1>4, SlotMoves DEF AbortMain, TypeOK
  <2>2. QED
    BY <2>1, IdleAccounts DEF OneAtATime
<1>5. QED
  BY <1>1, <1>2, <1>3, <1>4

LEMMA PassAccounts ==
  ASSUME OneAtATime, TypeOK, AloneAccounts, NEW t \in Triggers, Passed(t)
  PROVE  AloneAccounts'
<1>1. pc[t] \in PostPasses /\ pc'[t] \in PostPasses
      /\ UNCHANGED <<listing, release, failed, fatal>>
  BY SlotMoves DEF Passed, RecomputeCanonical, CommitCanonical, RebuildRollup,
     RebuildToolRollup, RebuildLatencyRollup, PassDone, chanceVars, PostPasses
<1>2. \A k \in Keys : files'[k].etag = files[k].etag /\ files'[k].parser = files[k].parser
  <2>1. CASE files' = files
    BY <2>1
  <2>2. CASE CommitCanonical(t)
    BY <2>2, CommitKeepsRows
  <2>3. QED
    BY <2>1, <2>2, PassEffects DEF Passed
<1>3. \A k \in Keys : /\ Seen(t, k)' <=> Seen(t, k)
                      /\ HasRow(files', k) <=> HasRow(files, k)
  BY <1>1, <1>2 DEF Seen, HasRow
<1>4. QED
  BY <1>1, <1>3 DEF OneAtATime, AloneAccounts, PostPasses

LEMMA NextAccounts ==
  OneAtATime /\ TypeOK /\ AloneAccounts /\ [Next]_vars => AloneAccounts'
<1> SUFFICES ASSUME OneAtATime, TypeOK, AloneAccounts, [Next]_vars PROVE AloneAccounts'
  OBVIOUS
<1>1. CASE UNCHANGED <<pc, files, existing, listing, todo, batch, fetched, failed,
                       fatal, release>>
  <2>1. \A t \in Triggers, k \in Keys : Seen(t, k)' <=> Seen(t, k)
    BY <1>1 DEF Seen
  <2>2. QED
    BY <1>1, <2>1 DEF AloneAccounts, HasRow
<1>2. CASE \E k \in Keys : Upload(k) \/ Remove(k)
  BY <1>1, <1>2 DEF Upload, Remove, dbVars, runVars, flagVars, chanceVars
<1>3. ASSUME NEW t \in Triggers, Announce(t) \/ AbortPostPass(t)
      PROVE  AloneAccounts'
  BY <1>3, IdleAccounts DEF Announce, AbortPostPass, RunsEnd, OneAtATime
<1>4. CASE Restart
  BY <1>4, IdleAccounts DEF Restart, RunsEnd
<1>5. CASE UNCHANGED vars
  BY <1>1, <1>5 DEF vars, dbVars, runVars, flagVars, chanceVars
<1>6. QED
  BY <1>2, <1>3, <1>4, <1>5, ScanAccounts, FetchAccounts, PersistAccounts,
     PhaseAccounts, PassAccounts DEF Next, RunStep, MainStep, PostStep, Passed

(* A clean run accounts for every object it listed, and nothing else is    *)
(* left: however many keys and chunks, whatever changes in the bucket.     *)
(* (ingest.py, _ingest_main)                                               *)
THEOREM CleanRunsAccountForAll ==
  ASSUME OneAtATime
  PROVE  Spec => CleanRunAccountsForAll
<1>1. TypeOK /\ AloneAccounts /\ [Next]_vars => AloneAccounts'
  BY OneAtATime, NextAccounts
<1>2. AloneAccounts /\ [Next]_vars =>
        [\A t \in Triggers : CleanEnd(t) =>
          \A k \in Keys :
            IF listing[t][k] = 0 THEN ~HasRow(files, k)
            ELSE \/ k \in failed[t] \/ k \notin Reads[release]
                 \/ /\ files[k].etag = listing[t][k]
                    /\ files[k].parser = ParserVersion[release]]_vars
  BY DEF AloneAccounts, CleanEnd, Seen, PostPasses
<1>3. QED
  BY <1>1, <1>2, InitAccounts, TypeCorrect, PTL DEF Spec, CleanRunAccountsForAll
=============================================================================
