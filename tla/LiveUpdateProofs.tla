--------------------------- MODULE LiveUpdateProofs ---------------------------
(***************************************************************************)
(* What the two services under a live dashboard guarantee, each for every  *)
(* value of its constants.                                                 *)
(*                                                                         *)
(* The response cache, whatever the number of keys, request threads, pool  *)
(* threads and commits: its types, that one thread at a time computes a    *)
(* key inline and only if no entry lives, and that the refresh registry is *)
(* exact.                                                                  *)
(*                                                                         *)
(* The event stream, whatever the number of connections, the size of the   *)
(* queues and the number of broadcasts: its types, every queue within its  *)
(* bound, and that a connection's events arrive at most once and in the    *)
(* order broadcast.                                                        *)
(***************************************************************************)
EXTENDS ResponseCache, Events, TLAPS

-----------------------------------------------------------------------------
(* THE RESPONSE CACHE                                                      *)

LEMMA InitTypeOK == Init => TypeOK
<1> SUFFICES ASSUME Init PROVE TypeOK
  OBVIOUS
<1>1. items \in [Keys -> Entry] /\ lock \in [Keys -> Threads \cup {Nobody}]
  BY DEF Init, Entry, NoEntry
<1>2. /\ pc \in [Threads -> Phases] /\ want \in [Threads -> Keys]
      /\ result \in [Threads -> Nat]
      /\ \A r \in Requests : pc[r] \notin RefreshPhases
  BY DEF Init, Phases, RefreshPhases, Threads
<1>3. QED
  BY <1>1, <1>2 DEF Init, TypeOK

(* A step of the wrapper is one of its disjuncts.                          *)
LEMMA ProceedTypeOK ==
  ASSUME TypeOK, NEW a \in Threads, Proceed(a)
  PROVE  TypeOK'
<1> USE DEF TypeOK, Goto, Keep, Done, Unlock, Phases, InlinePhases,
            RefreshPhases, dataVars, threadVars
<1>1. CASE LookupFresh(a)
  BY <1>1 DEF LookupFresh
<1>2. CASE LookupStale(a)
  BY <1>2 DEF LookupStale, Entry
<1>3. CASE LookupMiss(a)
  BY <1>3 DEF LookupMiss, Popped, NoEntry, Entry
<1>4. CASE ScheduleSkip(a)
  BY <1>4 DEF ScheduleSkip
<1>5. CASE Schedule(a)
  BY <1>5 DEF Schedule
<1>6. CASE Submit(a)
  BY <1>6 DEF Submit, RefreshOf, Task
<1>7. CASE RecheckHit(a)
  BY <1>7 DEF RecheckHit
<1>8. CASE RecheckMiss(a)
  BY <1>8 DEF RecheckMiss, Popped, NoEntry, Entry
<1>9. CASE Query(a)
  BY <1>9 DEF Query
<1>10. CASE Store(a)
  BY <1>10 DEF Store, Put, Entry
<1>11. CASE QueryFails(a)
  BY <1>11 DEF QueryFails
<1>12. QED
  BY <1>1, <1>2, <1>3, <1>4, <1>5, <1>6, <1>7, <1>8, <1>9, <1>10, <1>11,
     Proceed(a)
  DEF Proceed

LEMMA RefreshTypeOK ==
  ASSUME TypeOK, NEW w \in Workers, TakeTask(w) \/ Refresh(w)
  PROVE  TypeOK'
<1> USE DEF TypeOK, Goto, Keep, Done, Phases, InlinePhases, RefreshPhases,
            dataVars, threadVars
<1>0. w \in Threads /\ w \notin Requests
  BY ThreadAssumption DEF Threads
<1>1. CASE TakeTask(w)
  <2>1. Head(queue) \in Task /\ Tail(queue) \in Seq(Task)
    BY <1>1 DEF TakeTask
  <2>2. QED
    BY <1>0, <1>1, <2>1 DEF TakeTask, Task
<1>2. CASE RefreshQuery(w)
  BY <1>0, <1>2 DEF RefreshQuery
<1>3. CASE RefreshStore(w)
  BY <1>0, <1>3 DEF RefreshStore, Put, Entry
<1>4. CASE RefreshDone(w)
  BY <1>0, <1>4 DEF RefreshDone
<1>5. CASE RefreshFails(w)
  BY <1>0, <1>5 DEF RefreshFails
<1>6. QED
  BY <1>1, <1>2, <1>3, <1>4, <1>5, TakeTask(w) \/ Refresh(w) DEF Refresh

LEMMA NextTypeOK == TypeOK /\ [Next]_vars => TypeOK'
<1> SUFFICES ASSUME TypeOK, [Next]_vars PROVE TypeOK'
  OBVIOUS
<1> USE DEF TypeOK, dataVars, threadVars
<1>1. CASE Commit
  BY <1>1, BoundAssumption DEF Commit
<1>2. CASE Invalidate
  BY <1>2 DEF Invalidate
<1>3. ASSUME NEW k \in Keys, Warm(k) PROVE TypeOK'
  BY <1>3 DEF Warm, WarmOf, Task
<1>4. ASSUME NEW k \in Keys, Expire(k) PROVE TypeOK'
  <2>1. items' \in [Keys -> Entry]
    BY <1>4 DEF Expire, Entry
  <2>2. QED
    BY <1>4, <2>1 DEF Expire
<1>5. ASSUME NEW r \in Requests, NEW k \in Keys, Request(r, k) PROVE TypeOK'
  BY <1>5 DEF Request, Goto, Phases, RefreshPhases, Threads
<1>6. ASSUME NEW a \in Threads, Acquire(a) PROVE TypeOK'
  BY <1>6 DEF Acquire, Goto, Phases, InlinePhases, RefreshPhases
<1>7. CASE UNCHANGED vars
  BY <1>7 DEF vars
<1>8. QED
  BY <1>1, <1>2, <1>3, <1>4, <1>5, <1>6, <1>7, ProceedTypeOK, RefreshTypeOK
  DEF Next, IngestStep

(* Type correctness of the cache, its registry, its locks and its threads. *)
THEOREM TypeCorrect == Spec => []TypeOK
BY InitTypeOK, NextTypeOK, PTL DEF Spec

-----------------------------------------------------------------------------
(* Single flight: a thread is between the key lock's acquisition and its   *)
(* release exactly when it is the holder.                                  *)

LEMMA InitLockHeld == Init => LockHeld
BY ThreadAssumption DEF Init, LockHeld, Inside, InlinePhases, Threads

(* A step that moves no thread in or out of the lock keeps the relation.   *)
LEMMA LockKept ==
  ASSUME LockHeld, lock' = lock,
         \A b \in Threads :
           /\ pc'[b] \in InlinePhases <=> pc[b] \in InlinePhases
           /\ pc[b] \in InlinePhases => want'[b] = want[b]
  PROVE  LockHeld'
BY DEF LockHeld, Inside

LEMMA ProceedLockHeld ==
  ASSUME TypeOK, LockHeld, NEW a \in Threads, Proceed(a)
  PROVE  LockHeld'
<1> USE DEF TypeOK, Goto, Done, InlinePhases
<1>1. CASE LookupFresh(a) \/ LookupStale(a) \/ LookupMiss(a)
           \/ ScheduleSkip(a) \/ Schedule(a) \/ Submit(a)
           \/ RecheckMiss(a) \/ Query(a)
  BY <1>1, LockKept
  DEF LookupFresh, LookupStale, LookupMiss, ScheduleSkip, Schedule, Submit,
      RecheckMiss, Query
<1>2. CASE RecheckHit(a) \/ Store(a) \/ QueryFails(a)
  <2>1. /\ pc[a] \in InlinePhases /\ want' = want
        /\ lock' = [lock EXCEPT ![want[a]] = Nobody]
        /\ pc' = [pc EXCEPT ![a] = "idle"]
    BY <1>2 DEF RecheckHit, Store, QueryFails, Unlock
  <2>2. lock[want[a]] = a
    BY <2>1 DEF LockHeld, Inside
  <2>3. a # Nobody
    BY ThreadAssumption DEF Threads
  <2>4. Nobody \notin Threads
    BY ThreadAssumption DEF Threads
  <2>5. ASSUME NEW k \in Keys, NEW b \in Threads
        PROVE  (pc'[b] \in InlinePhases /\ want'[b] = k) <=> lock'[k] = b
    <3>1. (pc[b] \in InlinePhases /\ want[b] = k) <=> lock[k] = b
      BY <2>5 DEF LockHeld, Inside
    <3>2. CASE b = a
      BY <2>1, <2>2, <2>3, <3>1, <3>2
    <3>3. CASE b # a
      BY <2>1, <2>2, <2>4, <3>1, <3>3
    <3>4. QED
      BY <3>2, <3>3
  <2>6. QED
    BY <2>5 DEF LockHeld, Inside
<1>3. QED
  BY <1>1, <1>2, Proceed(a) DEF Proceed

LEMMA NextLockHeld == TypeOK /\ LockHeld /\ [Next]_vars => LockHeld'
<1> SUFFICES ASSUME TypeOK, LockHeld, [Next]_vars PROVE LockHeld'
  OBVIOUS
<1> USE DEF dataVars, threadVars
<1>1. CASE IngestStep \/ (\E k \in Keys : Expire(k))
  BY <1>1, LockKept DEF IngestStep, Commit, Invalidate, Warm, Expire
<1>2. ASSUME NEW r \in Requests, NEW k \in Keys, Request(r, k)
      PROVE  LockHeld'
  BY <1>2, LockKept DEF Request, Goto, InlinePhases, TypeOK, Threads
<1>3. ASSUME NEW a \in Threads, Acquire(a) PROVE LockHeld'
  <2>1. /\ pc[a] = "wait" /\ lock[want[a]] = Nobody
        /\ lock' = [lock EXCEPT ![want[a]] = a]
        /\ pc' = [pc EXCEPT ![a] = "recheck"] /\ want' = want
    BY <1>3 DEF Acquire, Goto
  <2>2. ASSUME NEW k \in Keys, NEW b \in Threads
        PROVE  (pc'[b] \in InlinePhases /\ want'[b] = k) <=> lock'[k] = b
    <3>1. (pc[b] \in InlinePhases /\ want[b] = k) <=> lock[k] = b
      BY <2>2 DEF LockHeld, Inside
    <3>2. b # Nobody
      BY ThreadAssumption DEF Threads
    <3>3. QED
      BY <2>1, <3>1, <3>2 DEF InlinePhases, TypeOK
  <2>3. QED
    BY <2>2 DEF LockHeld, Inside
<1>4. ASSUME NEW w \in Workers, TakeTask(w) \/ Refresh(w) PROVE LockHeld'
  <2>1. w \in Threads
    BY DEF Threads
  <2>2. QED
    BY <1>4, <2>1, LockKept
    DEF Refresh, TakeTask, RefreshQuery, RefreshStore, RefreshDone,
        RefreshFails, Goto, Done, InlinePhases, TypeOK
<1>5. CASE UNCHANGED vars
  BY <1>5, LockKept DEF vars
<1>6. QED
  BY <1>1, <1>2, <1>3, <1>4, <1>5, ProceedLockHeld DEF Next

(* The lock keeps everybody else out, and the holder looks again first.    *)
LEMMA NextFlies ==
  TypeOK /\ LockHeld /\ [Next]_vars => \A a \in Threads : Flies(a)
<1> SUFFICES ASSUME TypeOK, LockHeld, [Next]_vars, NEW a \in Threads,
                    pc[a] # "query", pc'[a] = "query"
             PROVE  ~Live(want'[a])
                    /\ \A b \in Threads \ {a} : ~Computing(b, want'[a])
  BY DEF Flies
<1> USE DEF TypeOK, Goto, Done
<1>1. ~UNCHANGED pc
  OBVIOUS
<1>2. PICK t \in Threads : \/ \E k \in Keys : Request(t, k)
                          \/ Proceed(t) \/ Acquire(t)
                          \/ TakeTask(t) \/ Refresh(t)
  BY <1>1 DEF Next, IngestStep, Commit, Invalidate, Warm, Expire, threadVars, vars, Threads
<1>3. RecheckMiss(a)
  <2>1. ~(\E k \in Keys : Request(t, k)) /\ ~Acquire(t) /\ ~TakeTask(t) /\ ~Refresh(t)
    BY <1>2 DEF Request, Acquire, TakeTask, Refresh, RefreshQuery, RefreshStore,
       RefreshDone, RefreshFails
  <2>2. ~(LookupFresh(t) \/ LookupStale(t) \/ LookupMiss(t) \/ ScheduleSkip(t)
          \/ Schedule(t) \/ Submit(t) \/ RecheckHit(t) \/ Query(t) \/ Store(t)
          \/ QueryFails(t))
    BY <1>2 DEF LookupFresh, LookupStale, LookupMiss, ScheduleSkip, Schedule, Submit,
       RecheckHit, Query, Store, QueryFails
  <2>3. RecheckMiss(t)
    BY <1>2, <2>1, <2>2 DEF Proceed
  <2>4. t = a
    BY <2>3 DEF RecheckMiss
  <2>5. QED
    BY <2>3, <2>4
<1>4. want' = want /\ pc[a] = "recheck" /\ ~Live(want[a])
  BY <1>3 DEF RecheckMiss
<1>5. lock[want[a]] = a
  BY <1>4 DEF LockHeld, Inside, InlinePhases
<1>6. ASSUME NEW b \in Threads, Computing(b, want[a]) PROVE b = a
  BY <1>5, <1>6 DEF Computing, LockHeld, Inside, InlinePhases
<1>7. QED
  BY <1>4, <1>6

(* A thread computes a key inline alone, and only when no entry of it      *)
(* lives, for any number of keys and threads.                              *)
(* (cache.py, cache_response)                                              *)
THEOREM OneComputesAKey == Spec => SingleFlight
BY TypeCorrect, InitLockHeld, NextLockHeld, NextFlies, PTL DEF Spec, SingleFlight

-----------------------------------------------------------------------------
(* The refresh registry.                                                   *)

(* A step that touches neither the registry nor the queue nor a thread     *)
(* that is on its way between them keeps it exact.                         *)
LEMMA RegistryKept ==
  ASSUME RegistryExact, refreshing' = refreshing, queue' = queue,
         \A b \in Threads :
           /\ pc'[b] = "submit" <=> pc[b] = "submit"
           /\ pc'[b] \in RefreshPhases <=> pc[b] \in RefreshPhases
           /\ pc[b] \in RefreshPhases \cup {"submit"} => want'[b] = want[b]
  PROVE  RegistryExact'
<1>1. ASSUME NEW k
      PROVE  /\ Submitting(k)' = Submitting(k) /\ Queued(k)' = Queued(k)
             /\ Running(k)' = Running(k)
  BY DEF Submitting, Queued, Running, Threads
<1>2. QED
  BY <1>1 DEF RegistryExact, OneRefresh

(* Schedule registers a key nobody refreshes.                              *)
LEMMA ScheduleRegistry ==
  ASSUME TypeOK, RegistryExact, NEW a \in Threads, Schedule(a)
  PROVE  RegistryExact'
<1>0. /\ want[a] \in Keys /\ want[a] \notin refreshing
      /\ pc[a] = "schedule" /\ want' = want /\ queue' = queue
      /\ pc' = [pc EXCEPT ![a] = "submit"]
      /\ refreshing' = refreshing \cup {want[a]}
      /\ pc \in [Threads -> Phases]
  BY DEF TypeOK, Schedule, Goto
<1>1. Submitting(want[a]) = {} /\ Queued(want[a]) = {}
        /\ Running(want[a]) = {}
  BY <1>0 DEF RegistryExact
<1>2. ASSUME NEW k \in Keys
      PROVE  /\ Submitting(k)' = IF k = want[a] THEN {a} ELSE Submitting(k)
             /\ Queued(k)' = Queued(k) /\ Running(k)' = Running(k)
  <2>1. Queued(k)' = Queued(k)
    BY <1>0 DEF Queued
  <2>2. Running(k)' = Running(k)
    BY <1>0 DEF Running, RefreshPhases, Threads
  <2>3. CASE k = want[a]
    BY <1>0, <1>1, <2>1, <2>2, <2>3 DEF Submitting
  <2>4. CASE k # want[a]
    BY <1>0, <2>1, <2>2, <2>4 DEF Submitting
  <2>5. QED
    BY <2>3, <2>4
<1>3. QED
  BY <1>0, <1>1, <1>2 DEF RegistryExact, OneRefresh

(* Submit moves the key's refresh from its thread to the end of the queue. *)
LEMMA SubmitRegistry ==
  ASSUME TypeOK, RegistryExact, NEW a \in Threads, Submit(a)
  PROVE  RegistryExact'
<1>0. /\ want[a] \in Keys /\ pc[a] = "submit" /\ want' = want
      /\ queue \in Seq(Task) /\ RefreshOf(want[a]) \in Task
      /\ queue' = Append(queue, RefreshOf(want[a]))
      /\ pc' = [pc EXCEPT ![a] = "idle"] /\ refreshing' = refreshing
      /\ pc \in [Threads -> Phases]
  BY DEF TypeOK, Submit, Done, Goto, RefreshOf, Task
<1>1. a \in Submitting(want[a])
  BY <1>0 DEF Submitting
<1>2. /\ Submitting(want[a]) = {a} /\ Queued(want[a]) = {}
      /\ Running(want[a]) = {}
  BY <1>0, <1>1 DEF RegistryExact, OneRefresh
<1>3. ASSUME NEW k \in Keys
      PROVE  /\ Submitting(k)' = IF k = want[a] THEN {} ELSE Submitting(k)
             /\ Queued(k)' = IF k = want[a] THEN {Len(queue) + 1} ELSE Queued(k)
             /\ Running(k)' = Running(k)
  <2>1. RefreshOf(k) = RefreshOf(want[a]) <=> k = want[a]
    BY DEF RefreshOf
  <2>2. /\ DOMAIN queue' = DOMAIN queue \cup {Len(queue) + 1}
        /\ queue'[Len(queue) + 1] = RefreshOf(want[a])
        /\ \A i \in DOMAIN queue : queue'[i] = queue[i]
        /\ Len(queue) + 1 \notin DOMAIN queue
    BY <1>0
  <2>3. Running(k)' = Running(k)
    BY <1>0 DEF Running, RefreshPhases, Threads
  <2>4. CASE k = want[a]
    <3>1. Queued(k)' = {Len(queue) + 1}
      BY <1>2, <2>2, <2>4 DEF Queued
    <3>2. Submitting(k)' = {}
      BY <1>0, <1>2, <2>4 DEF Submitting
    <3>3. QED
      BY <2>3, <2>4, <3>1, <3>2
  <2>5. CASE k # want[a]
    <3>1. Queued(k)' = Queued(k)
      BY <2>1, <2>2, <2>5 DEF Queued
    <3>2. Submitting(k)' = Submitting(k)
      BY <1>0, <2>5 DEF Submitting
    <3>3. QED
      BY <2>3, <2>5, <3>1, <3>2
  <2>6. QED
    BY <2>4, <2>5
<1>4. ASSUME NEW k \in Keys
      PROVE  /\ \A b, c \in Submitting(k)' : b = c
             /\ \A i, j \in Queued(k)' : i = j
             /\ \A v, w \in Running(k)' : v = w
             /\ Submitting(k)' = {} \/ Queued(k)' = {}
             /\ Submitting(k)' = {} \/ Running(k)' = {}
             /\ Queued(k)' = {} \/ Running(k)' = {}
  <2>1. CASE k = want[a]
    BY <1>2, <1>3, <2>1
  <2>2. CASE k # want[a]
    BY <1>3, <2>2 DEF RegistryExact, OneRefresh
  <2>3. QED
    BY <2>1, <2>2
<1>5. ASSUME NEW k \in Keys
      PROVE  k \in refreshing'
               <=> Submitting(k)' \cup Queued(k)' \cup Running(k)' # {}
  <2>1. CASE k = want[a]
    BY <1>0, <1>1, <1>3, <2>1 DEF RegistryExact
  <2>2. CASE k # want[a]
    BY <1>0, <1>3, <2>2 DEF RegistryExact
  <2>3. QED
    BY <2>1, <2>2
<1>6. QED
  BY <1>4, <1>5 DEF RegistryExact, OneRefresh

(* A warm task is not a refresh.                                           *)
LEMMA WarmRegistry ==
  ASSUME TypeOK, RegistryExact, NEW k0 \in Keys, Warm(k0)
  PROVE  RegistryExact'
<1>0. /\ queue \in Seq(Task) /\ WarmOf(k0) \in Task
      /\ queue' = Append(queue, WarmOf(k0))
      /\ pc' = pc /\ want' = want /\ refreshing' = refreshing
  BY DEF TypeOK, Warm, WarmOf, Task, threadVars
<1>1. ASSUME NEW k \in Keys
      PROVE  /\ Submitting(k)' = Submitting(k) /\ Queued(k)' = Queued(k)
             /\ Running(k)' = Running(k)
  <2>1. RefreshOf(k) # WarmOf(k0)
    BY DEF RefreshOf, WarmOf
  <2>2. Queued(k)' = Queued(k)
    BY <1>0, <2>1 DEF Queued
  <2>3. QED
    BY <1>0, <2>2 DEF Submitting, Running
<1>2. QED
  BY <1>0, <1>1 DEF RegistryExact, OneRefresh

(* A worker takes the first task: a refresh goes from queued to running.   *)
LEMMA TakeTaskRegistry ==
  ASSUME TypeOK, RegistryExact, NEW w \in Workers, TakeTask(w)
  PROVE  RegistryExact'
<1> DEFINE h == Head(queue)
<1>0. /\ queue \in Seq(Task) /\ queue # <<>> /\ queue' = Tail(queue)
      /\ w \in Threads /\ pc[w] = "idle" /\ refreshing' = refreshing
      /\ want' = [want EXCEPT ![w] = h.key]
      /\ pc' = [pc EXCEPT ![w] =
                   IF h.kind = "warm" THEN "lookup" ELSE "rquery"]
      /\ pc \in [Threads -> Phases] /\ want \in [Threads -> Keys]
  BY DEF TypeOK, TakeTask, Goto, Threads
<1>1. h \in Task /\ h = queue[1] /\ 1 \in DOMAIN queue
  BY <1>0
<1>2. /\ \A i \in DOMAIN queue' : i + 1 \in DOMAIN queue
                                  /\ queue'[i] = queue[i + 1]
      /\ \A i \in DOMAIN queue : i # 1 => i - 1 \in DOMAIN queue'
      /\ DOMAIN queue \subseteq Nat /\ DOMAIN queue' \subseteq Nat \ {0}
  BY <1>0
<1>3. ASSUME NEW k \in Keys PROVE Submitting(k)' = Submitting(k)
  BY <1>0 DEF Submitting
<1>4. ASSUME NEW k \in Keys, h # RefreshOf(k)
      PROVE  /\ Running(k)' = Running(k)
             /\ Queued(k)' = {i - 1 : i \in Queued(k)}
             /\ 1 \notin Queued(k)
  <2>1. h.kind = "warm" \/ h.key # k
    BY <1>1, <1>4 DEF Task, RefreshOf
  <2>2. Running(k)' = Running(k)
    BY <1>0, <2>1 DEF Running, RefreshPhases, Threads
  <2>3. 1 \notin Queued(k)
    BY <1>1, <1>4 DEF Queued
  <2>4. ASSUME NEW i, i \in Queued(k)' PROVE i \in {j - 1 : j \in Queued(k)}
    <3>1. i + 1 \in Queued(k) /\ i \in Nat
      BY <1>2, <2>4 DEF Queued
    <3>2. QED
      BY <3>1
  <2>5. ASSUME NEW j \in Queued(k) PROVE j - 1 \in Queued(k)'
    <3>1. j \in DOMAIN queue /\ queue[j] = RefreshOf(k) /\ j # 1 /\ j \in Nat
      BY <1>2, <2>3 DEF Queued
    <3>2. j - 1 \in DOMAIN queue' /\ (j - 1) + 1 = j
      BY <1>2, <3>1
    <3>3. queue'[j - 1] = queue[j]
      BY <1>2, <3>2
    <3>4. QED
      BY <3>1, <3>2, <3>3 DEF Queued
  <2>6. QED
    BY <2>2, <2>3, <2>4, <2>5
<1>5. ASSUME NEW k \in Keys, h = RefreshOf(k)
      PROVE  /\ Running(k)' = {w} /\ Queued(k)' = {}
             /\ Queued(k) = {1} /\ Running(k) = {}
  <2>1. Queued(k) = {1} /\ Running(k) = {}
    BY <1>1, <1>5 DEF Queued, RegistryExact, OneRefresh
  <2>2. Running(k)' = {w}
    BY <1>0, <1>5, <2>1 DEF Running, RefreshPhases, RefreshOf, Threads
  <2>3. ASSUME NEW i, i \in Queued(k)' PROVE FALSE
    <3>1. i + 1 \in Queued(k) /\ i \in Nat \ {0}
      BY <1>2, <2>3 DEF Queued
    <3>2. QED
      BY <2>1, <3>1
  <2>4. QED
    BY <2>1, <2>2, <2>3
<1>6. \A k \in Keys : Queued(k) \subseteq Nat
  BY <1>2 DEF Queued
<1>7. ASSUME NEW k \in Keys
      PROVE  /\ \A i, j \in Queued(k)' : i = j
             /\ Queued(k)' = {} \/ Running(k)' = {}
             /\ Queued(k)' = {} \/ Submitting(k)' = {}
             /\ Running(k)' = {} \/ Submitting(k)' = {}
             /\ \A u, v \in Running(k)' : u = v
             /\ Queued(k)' \cup Running(k)' # {}
                   <=> Queued(k) \cup Running(k) # {}
  <2>1. CASE h = RefreshOf(k)
    BY <1>3, <1>5, <2>1 DEF RegistryExact, OneRefresh
  <2>2. CASE h # RefreshOf(k)
    BY <1>3, <1>4, <1>6, <2>2 DEF RegistryExact, OneRefresh
  <2>3. QED
    BY <2>1, <2>2
<1>8. QED
  BY <1>0, <1>3, <1>7 DEF RegistryExact, OneRefresh

(* RefreshDone takes the key out of the registry with its only refresh.    *)
LEMMA RefreshDoneRegistry ==
  ASSUME TypeOK, RegistryExact, NEW w \in Workers, RefreshDone(w)
  PROVE  RegistryExact'
<1>0. /\ w \in Threads /\ want[w] \in Keys /\ pc[w] = "rdone"
      /\ queue' = queue /\ want' = want
      /\ pc' = [pc EXCEPT ![w] = "idle"]
      /\ refreshing' = refreshing \ {want[w]}
      /\ pc \in [Threads -> Phases]
  BY DEF TypeOK, RefreshDone, Done, Goto, Threads
<1>1. w \in Running(want[w])
  BY <1>0 DEF Running, RefreshPhases
<1>2. /\ Running(want[w]) = {w} /\ Queued(want[w]) = {}
      /\ Submitting(want[w]) = {}
  BY <1>0, <1>1 DEF RegistryExact, OneRefresh
<1>3. ASSUME NEW k \in Keys
      PROVE  /\ Submitting(k)' = Submitting(k) /\ Queued(k)' = Queued(k)
             /\ Running(k)' = IF k = want[w] THEN {} ELSE Running(k)
  <2>1. Submitting(k)' = Submitting(k)
    BY <1>0 DEF Submitting
  <2>2. Queued(k)' = Queued(k)
    BY <1>0 DEF Queued
  <2>3. CASE k = want[w]
    <3>1. Running(k)' = {}
      BY <1>0, <1>2, <2>3 DEF Running, RefreshPhases, Threads
    <3>2. QED
      BY <2>1, <2>2, <2>3, <3>1
  <2>4. CASE k # want[w]
    <3>1. Running(k)' = Running(k)
      BY <1>0, <2>4 DEF Running, RefreshPhases, Threads
    <3>2. QED
      BY <2>1, <2>2, <2>4, <3>1
  <2>5. QED
    BY <2>3, <2>4
<1>4. OneRefresh'
  BY <1>2, <1>3 DEF RegistryExact, OneRefresh
<1>5. ASSUME NEW k \in Keys
      PROVE  k \in refreshing'
               <=> Submitting(k)' \cup Queued(k)' \cup Running(k)' # {}
  <2>1. CASE k = want[w]
    BY <1>0, <1>2, <1>3, <2>1
  <2>2. CASE k # want[w]
    BY <1>0, <1>3, <2>2 DEF RegistryExact
  <2>3. QED
    BY <2>1, <2>2
<1>6. QED
  BY <1>4, <1>5 DEF RegistryExact

LEMMA InitRegistry == Init => RegistryExact
BY DEF Init, RegistryExact, OneRefresh, Submitting, Queued, Running,
       RefreshPhases, Threads

LEMMA ProceedRegistry ==
  ASSUME TypeOK, RegistryExact, NEW a \in Threads, Proceed(a)
  PROVE  RegistryExact'
<1>1. CASE Schedule(a)
  BY <1>1, ScheduleRegistry
<1>2. CASE Submit(a)
  BY <1>2, SubmitRegistry
<1>3. CASE LookupFresh(a) \/ LookupStale(a) \/ LookupMiss(a)
           \/ ScheduleSkip(a)
  BY <1>3, RegistryKept
  DEF LookupFresh, LookupStale, LookupMiss, ScheduleSkip, TypeOK, Goto, Done,
      RefreshPhases
<1>4. CASE RecheckHit(a) \/ RecheckMiss(a) \/ Query(a) \/ Store(a)
           \/ QueryFails(a)
  BY <1>4, RegistryKept
  DEF RecheckHit, RecheckMiss, Query, Store, QueryFails, TypeOK, Goto, Done,
      RefreshPhases
<1>5. QED
  BY <1>1, <1>2, <1>3, <1>4, Proceed(a) DEF Proceed

LEMMA NextRegistry == TypeOK /\ RegistryExact /\ [Next]_vars => RegistryExact'
<1> SUFFICES ASSUME TypeOK, RegistryExact, [Next]_vars PROVE RegistryExact'
  OBVIOUS
<1> USE DEF dataVars, threadVars
<1>1. CASE Commit \/ Invalidate \/ (\E k \in Keys : Expire(k))
  BY <1>1, RegistryKept DEF Commit, Invalidate, Expire
<1>2. ASSUME NEW r \in Requests, NEW k \in Keys, Request(r, k)
      PROVE  RegistryExact'
  BY <1>2, RegistryKept DEF Request, Goto, RefreshPhases, TypeOK, Threads
<1>3. ASSUME NEW a \in Threads, Acquire(a) PROVE RegistryExact'
  BY <1>3, RegistryKept DEF Acquire, Goto, RefreshPhases, TypeOK
<1>4. ASSUME NEW w \in Workers,
             RefreshQuery(w) \/ RefreshStore(w) \/ RefreshFails(w)
      PROVE  RegistryExact'
  BY <1>4, RegistryKept
  DEF RefreshQuery, RefreshStore, RefreshFails, Goto, RefreshPhases, TypeOK,
      Threads
<1>5. CASE UNCHANGED vars
  BY <1>5, RegistryKept DEF vars
<1>6. QED
  BY <1>1, <1>2, <1>3, <1>4, <1>5, ProceedRegistry, WarmRegistry,
     TakeTaskRegistry, RefreshDoneRegistry
  DEF Next, IngestStep, Refresh

(* A registered key has exactly one refresh on its way, and a key that is  *)
(* not registered has none.                                                *)
THEOREM RegistryIsExact == Spec => []RegistryExact
BY TypeCorrect, InitRegistry, NextRegistry, PTL DEF Spec

-----------------------------------------------------------------------------
(* THE EVENT STREAM                                                        *)
(*                                                                         *)
(* InOrder is not inductive: it says nothing of the callbacks still on the *)
(* loop, whose payloads the queues are about to receive.  CallbacksNewer   *)
(* adds that they are in order too, and newer than all that was put.       *)

(* What a browser has got, r, and will get from its queue q is before p.   *)
Before(r, q, p) ==
    /\ r < p
    /\ \A i \in DOMAIN q : q[i] < p

CallbacksNewer ==
    /\ \A c \in Conns : Before(received[c], events[c], last + 1)
    /\ \A n \in DOMAIN scheduled :
         /\ scheduled[n].payload <= last
         /\ \A c \in Conns :
              Before(received[c], events[c], scheduled[n].payload)
         /\ \A m \in DOMAIN scheduled :
              m < n => scheduled[m].payload < scheduled[n].payload

OrderInv == StreamTypeOK /\ InOrder /\ CallbacksNewer

LEMMA InitOrderInv == StreamInit => OrderInv
<1> SUFFICES ASSUME StreamInit PROVE OrderInv
  OBVIOUS
<1>1. StreamTypeOK
  <2>1. \A c \in Conns : events[c] = <<>> /\ Len(events[c]) <= QueueSize
    <3>1. \A c \in Conns : events[c] = <<>>
      BY DEF StreamInit
    <3>2. Len(<<>>) = 0 /\ 0 <= QueueSize
      BY QueueAssumption
    <3>3. QED
      BY <3>1, <3>2
  <2>2. events \in [Conns -> Seq(Nat)] /\ scheduled \in Seq(Callback)
    BY DEF StreamInit
  <2>3. QED
    BY <2>1, <2>2 DEF StreamInit, StreamTypeOK, Places
<1>2. InOrder /\ CallbacksNewer
  BY DEF StreamInit, InOrder, CallbacksNewer, Before
<1>3. QED
  BY <1>1, <1>2 DEF OrderInv

(* A step that leaves the queues, the callbacks and what was received.     *)
LEMMA OrderKept ==
  ASSUME InOrder, CallbacksNewer,
         UNCHANGED <<last, scheduled, events, received>>
  PROVE  InOrder' /\ CallbacksNewer'
<1>1. InOrder'
  BY DEF InOrder
<1>2. CallbacksNewer'
  BY DEF CallbacksNewer
<1>3. QED
  BY <1>1, <1>2

LEMMA BroadcastOrder ==
  ASSUME OrderInv, Broadcast
  PROVE  OrderInv'
<1> DEFINE cb == [targets |-> subscribers, payload |-> last + 1]
<1>0. /\ last \in Nat /\ last' = last + 1
      /\ scheduled \in Seq(Callback) /\ cb \in Callback
      /\ scheduled' = Append(scheduled, cb)
      /\ events' = events /\ received' = received
      /\ events \in [Conns -> Seq(Nat)] /\ received \in [Conns -> Nat]
  BY DEF OrderInv, StreamTypeOK, Broadcast, BroadcastOf, Callback
<1>1. StreamTypeOK'
  BY <1>0 DEF OrderInv, StreamTypeOK, Broadcast, BroadcastOf, stopVars
<1>2. InOrder'
  BY <1>0 DEF OrderInv, InOrder
<1>3. ASSUME NEW c \in Conns, NEW p \in Nat, NEW q \in Nat, p <= q,
             Before(received[c], events[c], p)
      PROVE  Before(received[c], events[c], q)
  <2>1. \A i \in DOMAIN events[c] : events[c][i] \in Nat
    BY <1>0
  <2>2. received[c] \in Nat
    BY <1>0
  <2>3. QED
    BY <1>3, <2>1, <2>2 DEF Before
<1>4. \A c \in Conns : /\ Before(received[c], events[c], last + 1)
                       /\ Before(received[c], events[c], last + 2)
  BY <1>0, <1>3 DEF OrderInv, CallbacksNewer
<1>6. ASSUME NEW n \in DOMAIN scheduled'
      PROVE  /\ scheduled'[n].payload <= last'
             /\ \A c \in Conns :
                  Before(received[c], events[c], scheduled'[n].payload)
             /\ \A m \in DOMAIN scheduled' :
                  m < n => scheduled'[m].payload < scheduled'[n].payload
  <2>1. /\ DOMAIN scheduled' = 1..(Len(scheduled) + 1)
        /\ DOMAIN scheduled = 1..Len(scheduled) /\ Len(scheduled) \in Nat
        /\ scheduled'[Len(scheduled) + 1].payload = last + 1
        /\ \A i \in DOMAIN scheduled : scheduled'[i] = scheduled[i]
        /\ \A i \in DOMAIN scheduled : scheduled[i].payload \in Nat
    <3>1. \A i \in DOMAIN scheduled : scheduled[i] \in Callback
      BY <1>0
    <3>2. cb.payload = last + 1
      OBVIOUS
    <3>3. scheduled'[Len(scheduled) + 1] = cb
      BY <1>0
    <3>4. /\ DOMAIN scheduled' = 1..(Len(scheduled) + 1)
          /\ DOMAIN scheduled = 1..Len(scheduled) /\ Len(scheduled) \in Nat
          /\ \A i \in DOMAIN scheduled : scheduled'[i] = scheduled[i]
      BY <1>0
    <3>5. QED
      BY <3>1, <3>2, <3>3, <3>4 DEF Callback
  <2>2. \A i \in DOMAIN scheduled : scheduled[i].payload <= last
    BY DEF OrderInv, CallbacksNewer
  <2>3. CASE n \in DOMAIN scheduled
    <3>1. /\ scheduled'[n] = scheduled[n]
          /\ \A m \in DOMAIN scheduled' : m < n => m \in DOMAIN scheduled
      BY <2>1, <2>3
    <3>2. \A c \in Conns : Before(received[c], events[c], scheduled'[n].payload)
      BY <2>3, <3>1 DEF OrderInv, CallbacksNewer
    <3>3. \A m \in DOMAIN scheduled' :
            m < n => scheduled'[m].payload < scheduled'[n].payload
      BY <2>1, <2>3, <3>1 DEF OrderInv, CallbacksNewer
    <3>4. scheduled'[n].payload <= last'
      BY <1>0, <2>1, <2>2, <2>3, <3>1
    <3>5. QED
      BY <3>2, <3>3, <3>4
  <2>4. CASE n = Len(scheduled) + 1
    <3>1. \A m \in DOMAIN scheduled' :
            m < n => scheduled'[m].payload < scheduled'[n].payload
      BY <1>0, <2>1, <2>2, <2>4
    <3>2. QED
      BY <1>0, <1>4, <2>1, <2>4, <3>1
  <2>5. QED
    BY <2>1, <2>3, <2>4
<1>7. CallbacksNewer'
  BY <1>0, <1>4, <1>6 DEF CallbacksNewer
<1>8. QED
  BY <1>1, <1>2, <1>7 DEF OrderInv

(* A sequence with one element more.                                       *)
LEMMA OneMore ==
  ASSUME NEW q \in Seq(Nat), NEW p \in Nat
  PROVE  /\ DOMAIN q = 1..Len(q) /\ Len(q) \in Nat
         /\ DOMAIN Append(q, p) = 1..(Len(q) + 1)
         /\ Append(q, p)[Len(q) + 1] = p
         /\ \A n \in DOMAIN q : Append(q, p)[n] = q[n] /\ q[n] \in Nat
OBVIOUS

LEMMA PutAllOrder ==
  ASSUME OrderInv, PutAll
  PROVE  OrderInv'
<1> DEFINE cb == Head(scheduled)
<1>0. /\ scheduled \in Seq(Callback) /\ scheduled # <<>>
      /\ scheduled' = Tail(scheduled) /\ last' = last /\ received' = received
      /\ events \in [Conns -> Seq(Nat)] /\ received \in [Conns -> Nat]
      /\ last \in Nat /\ QueueSize \in Nat
      /\ \A c \in Conns : Len(events[c]) <= QueueSize
  BY QueueAssumption DEF OrderInv, StreamTypeOK, PutAll
<1>1. /\ cb \in Callback /\ cb.payload \in Nat /\ cb = scheduled[1]
      /\ 1 \in DOMAIN scheduled /\ scheduled' \in Seq(Callback)
  <2>1. /\ cb \in Callback /\ cb = scheduled[1]
        /\ 1 \in DOMAIN scheduled /\ scheduled' \in Seq(Callback)
    BY <1>0
  <2>2. cb.payload \in Nat
    BY <2>1 DEF Callback
  <2>3. QED
    BY <2>1, <2>2
<1>2. events' = [c \in Conns |->
                 IF c \in cb.targets /\ Len(events[c]) < QueueSize
                 THEN Append(events[c], cb.payload) ELSE events[c]]
  BY DEF PutAll
<1>3. ASSUME NEW c \in Conns
      PROVE  \/ events'[c] = events[c]
             \/ /\ events'[c] = Append(events[c], cb.payload)
                /\ Len(events[c]) < QueueSize
  BY <1>2
<1>4. StreamTypeOK'
  <2>1. events' \in [Conns -> Seq(Nat)]
    BY <1>0, <1>1, <1>2
  <2>2. ASSUME NEW c \in Conns PROVE Len(events'[c]) <= QueueSize
    <3>1. events[c] \in Seq(Nat) /\ Len(events[c]) <= QueueSize
      BY <1>0
    <3>2. Len(Append(events[c], cb.payload)) = Len(events[c]) + 1
      BY <1>1, <3>1
    <3>3. Len(events[c]) \in Nat
      BY <3>1
    <3>4. QED
      BY <1>0, <1>3, <3>1, <3>2, <3>3
  <2>3. QED
    BY <1>0, <1>1, <2>1, <2>2 DEF OrderInv, StreamTypeOK, PutAll, stopVars
<1>5. ASSUME NEW c \in Conns PROVE Before(received[c], events[c], cb.payload)
  BY <1>1 DEF OrderInv, CallbacksNewer
<1>6. ASSUME NEW c \in Conns, NEW i \in DOMAIN events'[c]
      PROVE  /\ events'[c][i] > received[c]
             /\ \A j \in 1..(i - 1) : events'[c][j] < events'[c][i]
             /\ events'[c][i] <= cb.payload
  <2>1. CASE events'[c] = events[c]
    BY <1>0, <1>1, <1>5, <2>1 DEF OrderInv, InOrder, Before
  <2>2. CASE events'[c] = Append(events[c], cb.payload)
    <3>1. /\ DOMAIN events[c] = 1..Len(events[c]) /\ Len(events[c]) \in Nat
          /\ DOMAIN events'[c] = 1..(Len(events[c]) + 1)
          /\ events'[c][Len(events[c]) + 1] = cb.payload
          /\ \A n \in DOMAIN events[c] : /\ events'[c][n] = events[c][n]
                                       /\ events[c][n] \in Nat
      <4>1. events[c] \in Seq(Nat) /\ cb.payload \in Nat
        BY <1>0, <1>1
      <4>2. QED
        BY <2>2, <4>1, OneMore
    <3>0. /\ received[c] \in Nat /\ received[c] < cb.payload
          /\ \A n \in DOMAIN events[c] : events[c][n] < cb.payload
      BY <1>0, <1>5 DEF Before
    <3>2. CASE i \in DOMAIN events[c]
      <4>1. \A j \in 1..(i - 1) : j \in DOMAIN events[c]
        BY <3>1, <3>2
      <4>2. /\ events[c][i] > received[c]
            /\ \A j \in 1..(i - 1) : events[c][j] < events[c][i]
        BY <3>2 DEF OrderInv, InOrder
      <4>3. events[c][i] <= cb.payload
        BY <1>1, <3>0, <3>1, <3>2
      <4>4. QED
        BY <3>1, <3>2, <4>1, <4>2, <4>3
    <3>3. CASE i = Len(events[c]) + 1
      <4>1. \A j \in 1..(i - 1) : j \in DOMAIN events[c]
        BY <3>1, <3>3
      <4>2. events'[c][i] = cb.payload
        BY <3>1, <3>3
      <4>3. \A j \in 1..(i - 1) : events'[c][j] < events'[c][i]
        BY <3>0, <3>1, <4>1, <4>2
      <4>4. QED
        BY <1>1, <3>0, <4>2, <4>3
    <3>4. QED
      BY <3>1, <3>2, <3>3
  <2>3. QED
    BY <1>3, <2>1, <2>2
<1>7. InOrder'
  BY <1>0, <1>6 DEF InOrder
<1>8. ASSUME NEW c \in Conns, NEW p \in Nat, cb.payload < p
      PROVE  Before(received'[c], events'[c], p)
  <2>1. received[c] < p
    BY <1>0, <1>1, <1>5, <1>8 DEF Before
  <2>2. ASSUME NEW i \in DOMAIN events'[c] PROVE events'[c][i] < p
    <3>1. events'[c] \in Seq(Nat)
      BY <1>4 DEF StreamTypeOK
    <3>2. events'[c][i] \in Nat
      BY <3>1
    <3>3. events'[c][i] <= cb.payload
      BY <1>6
    <3>4. QED
      BY <1>1, <1>8, <3>2, <3>3
  <2>3. QED
    BY <1>0, <2>1, <2>2 DEF Before
<1>9. CallbacksNewer'
  <2>1. cb.payload <= last
    BY <1>1 DEF OrderInv, CallbacksNewer
  <2>2. \A c \in Conns : Before(received'[c], events'[c], last + 1)
    BY <1>0, <1>1, <1>8, <2>1
  <2>3. ASSUME NEW n \in DOMAIN scheduled'
        PROVE  /\ n \in Nat \ {0} /\ n + 1 \in DOMAIN scheduled
               /\ scheduled'[n] = scheduled[n + 1]
               /\ scheduled[n + 1].payload \in Nat
               /\ cb.payload < scheduled[n + 1].payload
    <3>1. /\ n \in Nat \ {0} /\ n + 1 \in DOMAIN scheduled
          /\ scheduled'[n] = scheduled[n + 1]
          /\ scheduled[n + 1] \in Callback
      BY <1>0
    <3>2. 1 < n + 1
      BY <3>1
    <3>3. QED
      BY <1>1, <3>1, <3>2 DEF OrderInv, CallbacksNewer, Callback
  <2>4. ASSUME NEW n \in DOMAIN scheduled'
        PROVE  /\ scheduled'[n].payload <= last
               /\ \A c \in Conns :
                    Before(received'[c], events'[c], scheduled'[n].payload)
               /\ \A m \in DOMAIN scheduled' :
                    m < n => scheduled'[m].payload < scheduled'[n].payload
    <3>1. scheduled'[n].payload <= last
      BY <2>3 DEF OrderInv, CallbacksNewer
    <3>2. \A c \in Conns :
            Before(received'[c], events'[c], scheduled'[n].payload)
      BY <1>8, <2>3
    <3>3. \A m \in DOMAIN scheduled' :
            m < n => scheduled'[m].payload < scheduled'[n].payload
      BY <2>3 DEF OrderInv, CallbacksNewer
    <3>4. QED
      BY <3>1, <3>2, <3>3
  <2>5. QED
    BY <1>0, <2>2, <2>4 DEF CallbacksNewer
<1>10. QED
  BY <1>4, <1>7, <1>9 DEF OrderInv

(* A queue with its first element taken.                                   *)
LEMMA OneLess ==
  ASSUME NEW q \in Seq(Nat), q # <<>>, NEW n \in Nat, Len(q) <= n
  PROVE  /\ Head(q) = q[1] /\ 1 \in DOMAIN q /\ Head(q) \in Nat
         /\ Tail(q) \in Seq(Nat) /\ Len(Tail(q)) <= n
OBVIOUS

LEMMA DeliverOrder ==
  ASSUME OrderInv, NEW c0 \in Conns, Deliver(c0)
  PROVE  OrderInv'
<1>0. /\ events \in [Conns -> Seq(Nat)] /\ received \in [Conns -> Nat]
      /\ events[c0] # <<>> /\ scheduled' = scheduled /\ last' = last
      /\ events' = [events EXCEPT ![c0] = Tail(events[c0])]
      /\ received' = [received EXCEPT ![c0] =
                       IF connected[c0] THEN Head(events[c0]) ELSE received[c0]]
      /\ last \in Nat /\ scheduled \in Seq(Callback)
      /\ \A c \in Conns : Len(events[c]) <= QueueSize
      /\ QueueSize \in Nat
  BY QueueAssumption DEF OrderInv, StreamTypeOK, Deliver
<1>1. /\ Head(events[c0]) = events[c0][1] /\ 1 \in DOMAIN events[c0]
      /\ Head(events[c0]) \in Nat
      /\ Tail(events[c0]) \in Seq(Nat) /\ Len(Tail(events[c0])) <= QueueSize
  <2>1. events[c0] \in Seq(Nat) /\ events[c0] # <<>> /\ Len(events[c0]) <= QueueSize
    BY <1>0
  <2>2. QED
    BY <1>0, <2>1, OneLess
<1>2. StreamTypeOK'
  <2>1. events' \in [Conns -> Seq(Nat)] /\ received' \in [Conns -> Nat]
    BY <1>0, <1>1
  <2>2. \A c \in Conns : Len(events'[c]) <= QueueSize
    BY <1>0, <1>1
  <2>3. QED
    BY <1>0, <2>1, <2>2 DEF OrderInv, StreamTypeOK, Deliver, MoveTo, Places, stopVars
<1>3. ASSUME NEW c \in Conns, c # c0
      PROVE  events'[c] = events[c] /\ received'[c] = received[c]
  BY <1>0, <1>3
<1>4. ASSUME NEW i \in DOMAIN events'[c0]
      PROVE  /\ i \in Nat \ {0} /\ i + 1 \in DOMAIN events[c0]
             /\ events'[c0][i] = events[c0][i + 1]
             /\ events[c0][1] < events[c0][i + 1]
             /\ events[c0][i + 1] > received[c0]
             /\ \A j \in 1..(i - 1) : /\ events'[c0][j] = events[c0][j + 1]
                                     /\ events[c0][j + 1] < events[c0][i + 1]
  <2>1. events[c0] \in Seq(Nat) /\ events'[c0] = Tail(events[c0])
    BY <1>0
  <2>2. /\ i \in Nat \ {0} /\ i + 1 \in DOMAIN events[c0]
        /\ events'[c0][i] = events[c0][i + 1]
        /\ \A j \in 1..(i - 1) : events'[c0][j] = events[c0][j + 1]
    BY <1>0, <2>1
  <2>3. \A j \in 1..i : events[c0][j] < events[c0][i + 1]
    BY <2>2 DEF OrderInv, InOrder
  <2>4. events[c0][i + 1] > received[c0]
    BY <2>2 DEF OrderInv, InOrder
  <2>5. 1 \in 1..i /\ \A j \in 1..(i - 1) : j + 1 \in 1..i
    BY <2>2
  <2>6. QED
    BY <2>2, <2>3, <2>4, <2>5
<1>5. received'[c0] = events[c0][1] \/ received'[c0] = received[c0]
  BY <1>0, <1>1
<1>6. InOrder'
  <2>1. ASSUME NEW c \in Conns, NEW i \in DOMAIN events'[c]
        PROVE  /\ events'[c][i] > received'[c]
               /\ \A j \in 1..(i - 1) : events'[c][j] < events'[c][i]
    <3>1. CASE c = c0
      BY <1>4, <1>5, <3>1
    <3>2. CASE c # c0
      BY <1>3, <3>2 DEF OrderInv, InOrder
    <3>3. QED
      BY <3>1, <3>2
  <2>2. QED
    BY <2>1 DEF InOrder
<1>7. ASSUME NEW c \in Conns, NEW p, Before(received[c], events[c], p)
      PROVE  Before(received'[c], events'[c], p)
  <2>1. CASE c = c0
    BY <1>1, <1>4, <1>5, <1>7, <2>1 DEF Before
  <2>2. CASE c # c0
    BY <1>3, <1>7, <2>2 DEF Before
  <2>3. QED
    BY <2>1, <2>2
<1>8. CallbacksNewer'
  BY <1>0, <1>7 DEF OrderInv, CallbacksNewer
<1>9. QED
  BY <1>2, <1>6, <1>8 DEF OrderInv

LEMMA NextOrderInv == OrderInv /\ [StreamNext]_streamVars => OrderInv'
<1> SUFFICES ASSUME OrderInv, [StreamNext]_streamVars PROVE OrderInv'
  OBVIOUS
<1>0. StreamTypeOK /\ InOrder /\ CallbacksNewer
  BY DEF OrderInv
<1>1. CASE Stop \/ SignalShutdown
  <2>1. StreamTypeOK'
    BY <1>0, <1>1 DEF StreamTypeOK, Stop, SignalShutdown
  <2>2. QED
    BY <1>0, <1>1, <2>1, OrderKept DEF OrderInv, Stop, SignalShutdown
<1>2. ASSUME NEW c \in Conns,
             \/ Subscribe(c) \/ Disconnect(c) \/ Cancel(c) \/ Abort(c)
             \/ Wait(c) \/ Leave(c) \/ Wake(c) \/ Ping(c)
      PROVE  OrderInv'
  <2> USE DEF stopVars, Subscribe, Disconnect, Cancel, Abort, Wait, Leave, Wake, Ping, End
  <2>1. StreamTypeOK'
    BY <1>0, <1>2 DEF StreamTypeOK, MoveTo, Places
  <2>2. UNCHANGED <<last, scheduled, events, received>>
    BY <1>2
  <2>3. QED
    BY <1>0, <2>1, <2>2, OrderKept DEF OrderInv
<1>3. CASE UNCHANGED streamVars
  <2>1. StreamTypeOK'
    BY <1>0, <1>3 DEF StreamTypeOK, streamVars, stopVars
  <2>2. QED
    BY <1>0, <1>3, <2>1, OrderKept DEF OrderInv, streamVars
<1>4. QED
  BY <1>1, <1>2, <1>3, BroadcastOrder, PutAllOrder, DeliverOrder
  DEF StreamNext, Generate

LEMMA OrderInvariant == StreamSpec => []OrderInv
BY InitOrderInv, NextOrderInv, PTL DEF StreamSpec

(* Type correctness, the bound of every queue included.                    *)
THEOREM EventsTyped == StreamSpec => []StreamTypeOK
<1>1. OrderInv => StreamTypeOK
  BY DEF OrderInv
<1>2. QED
  BY <1>1, OrderInvariant, PTL

(* Events reach a browser at most once and in the order broadcast.         *)
THEOREM EventsInOrder == StreamSpec => []InOrder
<1>1. OrderInv => InOrder
  BY DEF OrderInv
<1>2. QED
  BY <1>1, OrderInvariant, PTL
=============================================================================
