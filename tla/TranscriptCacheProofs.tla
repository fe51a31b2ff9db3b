------------------------ MODULE TranscriptCacheProofs ------------------------
(***************************************************************************)
(* No transcript is older than the etag it is answered under, for any      *)
(* number of threads and files and however threads interleave in the LRU.  *)
(*                                                                         *)
(* The argument: what a thread fetches was listed before, and objects only *)
(* get newer; from there on an item and a body travel together with the    *)
(* etag they were put under, and whoever finds them there asked for it,    *)
(* whatever else happens to the list of items.                             *)
(*                                                                         *)
(* And while no two requests are in the LRU at once, its books are exact:  *)
(* whoever is inside is the only one that owes _size anything, what it     *)
(* means to evict is there once, and the key it is to insert is not there. *)
(* What the items hold is a sum over a list, so the second part starts     *)
(* with what appending, dropping and replacing an item does to it.         *)
(***************************************************************************)
EXTENDS TranscriptCache, TLAPS, SequenceTheorems, FiniteSetTheorems,
        WellFoundedInduction

(* SameOrLater, as of a bucket.                                            *)
Since(etag, body, b) ==
    \E g \in Files : \E w \in 1 .. b[g] : \E v \in 1 .. w :
        Holds[g][v] = etag /\ Holds[g][w] = body

(* An item: its etag, what its body is, and when it was last used.         *)
Bodied == [key : Contents, body : Contents, ts : Nat]

(* The items that are not older than their etag.                           *)
SoundItems(b) == {i \in Bodied : Since(i.key, i.body, b)}

Fields == {"pc", "file", "etag", "body", "stale", "owed", "size", "next"}

(* A thread that is past its row has the etag of a version the bucket has  *)
(* had, and what it has in hand is not older than that.                    *)
Sound(l, b) ==
    /\ DOMAIN l = Fields
    /\ l.pc # "idle" => /\ l.file \in Files /\ l.etag \in Contents
                        /\ \E v \in 1 .. b[l.file] : Holds[l.file][v] = l.etag
    /\ l.body # Nothing => /\ l.pc # "idle" /\ l.body \in Contents
                           /\ Since(l.etag, l.body, b)
    /\ l.pc \notin {"idle", "get", "fetch", "error"} => l.body # Nothing
    /\ l.pc \in {"load", "store"} => l.next \in {"evict", "shrink", "reply"}

SoundInv ==
    /\ bucket \in [Files -> 1 .. MaxVersions] /\ indexed \in [Files -> 1 .. MaxVersions]
    /\ \A f \in Files : indexed[f] <= bucket[f]
    /\ now \in Nat
    /\ items \in Seq(SoundItems(bucket))
    /\ DOMAIN thread = Threads
    /\ \A t \in Threads : Sound(thread[t], bucket)

-----------------------------------------------------------------------------
(* A place is one in the list, or 0.                                       *)
LEMMA PlaceInItems ==
  ASSUME NEW S, items \in Seq(S), NEW key
  PROVE  /\ Place(key) \in 0 .. Len(items)
         /\ Place(key) # 0 => items[Place(key)].key = key
BY DEF Place

(* What stays of a list when a key is taken out of it.                     *)
LEMMA WithoutIsSeq ==
  ASSUME NEW S, items \in Seq(S), NEW key
  PROVE  Without(key) \in Seq(S)
<1>1. Place(key) \in 0 .. Len(items)
  BY PlaceInItems
<1>2. \A m \in 1 .. Len(items) + 1, n \in 0 .. Len(items) : SubSeq(items, m, n) \in Seq(S)
  BY SubSeqProperties
<1>3. CASE Place(key) = 0
  <2>1. SubSeq(items, 1, 0 - 1) = <<>>
    BY SubSeqEmpty
  <2>2. SubSeq(items, 0 + 1, Len(items)) \in Seq(S)
    BY <1>2
  <2>3. QED
    BY <1>3, <2>1, <2>2 DEF Without, RemoveAt
<1>4. CASE Place(key) # 0
  BY <1>1, <1>2, <1>4 DEF Without, RemoveAt
<1>5. QED
  BY <1>3, <1>4

LEMMA TailIsSeq ==
  ASSUME NEW S, NEW s \in Seq(S), s # <<>>
  PROVE  Tail(s) \in Seq(S)
OBVIOUS

(* Objects only get newer.                                                 *)
LEMMA SinceGrows ==
  ASSUME NEW b \in [Files -> 1 .. MaxVersions], NEW c \in [Files -> 1 .. MaxVersions],
         \A f \in Files : b[f] <= c[f],
         NEW etag, NEW body, Since(etag, body, b)
  PROVE  Since(etag, body, c)
<1>1. PICK g \in Files : \E w \in 1 .. b[g] : \E v \in 1 .. w :
        Holds[g][v] = etag /\ Holds[g][w] = body
  BY DEF Since
<1>2. PICK w \in 1 .. b[g] : \E v \in 1 .. w : Holds[g][v] = etag /\ Holds[g][w] = body
  BY <1>1
<1>3. w \in 1 .. c[g]
  BY CacheAssumption
<1>4. QED
  BY <1>2, <1>3 DEF Since

LEMMA SoundItemsGrow ==
  ASSUME NEW b \in [Files -> 1 .. MaxVersions], NEW c \in [Files -> 1 .. MaxVersions],
         \A f \in Files : b[f] <= c[f]
  PROVE  SoundItems(b) \subseteq SoundItems(c)
BY SinceGrows DEF SoundItems

LEMMA SoundGrows ==
  ASSUME NEW b \in [Files -> 1 .. MaxVersions], NEW c \in [Files -> 1 .. MaxVersions],
         \A f \in Files : b[f] <= c[f],
         NEW l, Sound(l, b)
  PROVE  Sound(l, c)
<1>1. l.pc # "idle" => \E v \in 1 .. c[l.file] : Holds[l.file][v] = l.etag
  <2> SUFFICES ASSUME l.pc # "idle"
               PROVE  \E v \in 1 .. c[l.file] : Holds[l.file][v] = l.etag
    OBVIOUS
  <2>1. PICK v \in 1 .. b[l.file] : Holds[l.file][v] = l.etag
    BY DEF Sound
  <2>2. l.file \in Files
    BY DEF Sound
  <2>3. v \in 1 .. c[l.file]
    BY <2>2, CacheAssumption
  <2>4. QED
    BY <2>1, <2>3
<1>2. l.body # Nothing => Since(l.etag, l.body, c)
  BY SinceGrows DEF Sound
<1>3. QED
  BY <1>1, <1>2 DEF Sound

(* The item a thread puts, under its own key.                              *)
LEMMA OwnItemSound ==
  ASSUME NEW b, NEW l, Sound(l, b), l.pc \in {"touch", "insert"}, now \in Nat
  PROVE  [key |-> KeyOf(l), body |-> l.body, ts |-> now] \in SoundItems(b)
BY DEF Sound, SoundItems, Bodied, KeyOf

(* A step of a thread within the LRU, by the locals it goes on with.       *)
LEMMA GotoSound ==
  ASSUME SoundInv, NEW t \in Threads, NEW l, Goto(t, l), Sound(l, bucket),
         items' \in Seq(SoundItems(bucket))
  PROVE  SoundInv'
BY DEF SoundInv, Goto

LEMMA InitSound == Init => SoundInv
<1> SUFFICES ASSUME Init PROVE SoundInv
  OBVIOUS
<1>1. \A t \in Threads : Sound(thread[t], bucket)
  BY DEF Init, Sound, At, Fields
<1>2. <<>> \in Seq(SoundItems(bucket))
  OBVIOUS
<1>3. QED
  <2>1. 1 \in 1 .. MaxVersions
    BY CacheAssumption
  <2>2. QED
    BY <1>1, <1>2, <2>1 DEF Init, SoundInv

(* The bucket, the files table and the clock.                              *)
LEMMA WorldSound ==
  ASSUME SoundInv,
         (\E f \in Files : Upload(f) \/ Ingest(f)) \/ Tick \/ UNCHANGED vars
  PROVE  SoundInv'
<1>1. ASSUME NEW f \in Files, Upload(f) PROVE SoundInv'
  <2>1. bucket' \in [Files -> 1 .. MaxVersions] /\ \A g \in Files : bucket[g] <= bucket'[g]
    <3>1. /\ MaxVersions \in Nat /\ bucket \in [Files -> 1 .. MaxVersions]
          /\ bucket[f] < MaxVersions /\ bucket' = [bucket EXCEPT ![f] = bucket[f] + 1]
      BY <1>1, CacheAssumption DEF Upload, SoundInv
    <3>2. bucket[f] + 1 \in 1 .. MaxVersions
      BY <3>1
    <3>3. bucket' \in [Files -> 1 .. MaxVersions]
      BY <3>1, <3>2
    <3>4. ASSUME NEW g \in Files PROVE bucket[g] <= bucket'[g]
      BY <3>1, <3>4
    <3>5. QED
      BY <3>3, <3>4
  <2>2. SoundItems(bucket) \subseteq SoundItems(bucket')
    BY <2>1, SoundItemsGrow DEF SoundInv
  <2>3. \A t \in Threads : Sound(thread[t], bucket')
    BY <2>1, SoundGrows DEF SoundInv
  <2>4. items \in Seq(SoundItems(bucket'))
    BY <2>2, SeqMonotonic DEF SoundInv
  <2>5. \A g \in Files : indexed[g] <= bucket'[g]
    BY <2>1, CacheAssumption DEF SoundInv
  <2>6. QED
    BY <1>1, <2>1, <2>3, <2>4, <2>5 DEF Upload, SoundInv
<1>2. ASSUME NEW f \in Files, Ingest(f) PROVE SoundInv'
  <2>1. /\ indexed' \in [Files -> 1 .. MaxVersions]
        /\ \A g \in Files : indexed'[g] <= bucket[g]
    BY <1>2, CacheAssumption DEF Ingest, SoundInv
  <2>2. QED
    BY <1>2, <2>1 DEF Ingest, SoundInv
<1>3. CASE Tick
  BY <1>3 DEF Tick, SoundInv
<1>4. CASE UNCHANGED vars
  BY <1>4 DEF vars, SoundInv
<1>5. QED
  BY <1>1, <1>2, <1>3, <1>4

(* get_transcript around the LRU.                                          *)
LEMMA RequestSound ==
  ASSUME SoundInv, NEW t \in Threads,
         (\E f \in Files : ReadRow(t, f)) \/ Fetch(t) \/ Finish(t)
  PROVE  SoundInv'
<1>1. ASSUME NEW f \in Files, ReadRow(t, f) PROVE SoundInv'
  <2>1. indexed[f] \in 1 .. bucket[f] /\ Holds[f][indexed[f]] \in Contents
    BY CacheAssumption DEF SoundInv
  <2>2. Sound([At("get") EXCEPT !.file = f, !.etag = Holds[f][indexed[f]]], bucket)
    BY <2>1 DEF Sound, At, Fields
  <2>3. QED
    BY <1>1, <2>2 DEF ReadRow, SoundInv
<1>2. CASE Fetch(t)
  <2> DEFINE file == thread[t].file
             body == Holds[file][bucket[file]]
  <2>1. /\ Sound(thread[t], bucket) /\ thread[t].pc = "fetch" /\ file \in Files
        /\ bucket[file] \in 1 .. MaxVersions
    BY <1>2 DEF Fetch, Step, Sound, SoundInv
  <2>2. bucket[file] \in 1 .. bucket[file] /\ body \in Contents
    BY <2>1, CacheAssumption
  <2>3. Since(thread[t].etag, body, bucket)
    BY <2>1, <2>2 DEF Sound, Since
  <2>4. Sound([thread[t] EXCEPT !.pc = "scan", !.body = body], bucket)
    BY <2>1, <2>2, <2>3, CacheAssumption DEF Sound, Fields
  <2>5. QED
    BY <1>2, <2>4, GotoSound DEF Fetch, Keep, SoundInv
<1>3. CASE Finish(t)
  <2>1. Sound(At("idle"), bucket)
    BY DEF Sound, At, Fields
  <2>2. QED
    BY <1>3, <2>1, GotoSound DEF Finish, Keep, SoundInv
<1>4. QED
  BY <1>1, <1>2, <1>3

(* _IdleLRU.get                                                            *)
LEMMA GetSound ==
  ASSUME SoundInv, NEW t \in Threads, Look(t) \/ Touch(t) \/ Move(t)
  PROVE  SoundInv'
<1> DEFINE key == KeyOf(thread[t])
           place == Place(key)
           S == SoundItems(bucket)
<1>1. /\ items \in Seq(S) /\ place \in 0 .. Len(items)
      /\ place # 0 => items[place].key = key
  BY PlaceInItems DEF SoundInv
<1>2. Sound(thread[t], bucket) /\ now \in Nat
  BY DEF SoundInv
<1> HIDE DEF place
<1>3. CASE Look(t)
  <2>1. CASE place = 0
    <3>1. Sound([thread[t] EXCEPT !.pc = "fetch"], bucket)
      BY <1>2, <1>3 DEF Look, Step, Sound, Fields
    <3>2. QED
      BY <1>1, <1>3, <2>1, <3>1, GotoSound DEF Look, Keep, place
  <2>2. CASE place # 0
    <3>1. items[place] \in S /\ items[place].key = key
      BY <1>1, <2>2
    <3>2. /\ items[place].body \in Contents
          /\ Since(thread[t].etag, items[place].body, bucket)
      BY <3>1 DEF SoundItems, Bodied, KeyOf
    <3>3. Sound([thread[t] EXCEPT !.pc = "touch", !.body = items[place].body], bucket)
      <4>1. thread[t].pc = "get"
        BY <1>3 DEF Look, Step
      <4>2. QED
        BY <1>2, <3>2, <4>1, CacheAssumption DEF Sound, Fields
    <3>4. QED
      BY <1>1, <1>3, <2>2, <3>3, GotoSound DEF Look, Keep, place
  <2>3. QED
    BY <2>1, <2>2
<1>4. CASE Touch(t)
  <2> DEFINE item == [key |-> key, body |-> thread[t].body, ts |-> now]
  <2>1. item \in S
    BY <1>2, <1>4, OwnItemSound DEF Touch, Step
  <2>2. items' = IF place = 0 THEN Append(items, item) ELSE [items EXCEPT ![place] = item]
    BY <1>4 DEF Touch, Change, place
  <2> HIDE DEF item, key, S
  <2>3. items' \in Seq(S)
    BY <1>1, <2>1, <2>2
  <2>4. Sound([thread[t] EXCEPT !.pc = "move"], bucket)
    BY <1>2, <1>4 DEF Touch, Step, Sound, Fields
  <2>5. QED
    BY <1>4, <2>3, <2>4, GotoSound DEF Touch, S
<1>5. CASE Move(t)
  <2>1. Sound([thread[t] EXCEPT !.pc = "error"], bucket)
        /\ Sound([thread[t] EXCEPT !.pc = "reply"], bucket)
    BY <1>2, <1>5 DEF Move, Step, Sound, Fields
  <2>2. CASE place = 0
    BY <1>1, <1>5, <2>1, <2>2, GotoSound DEF Move, Keep, place
  <2>3. CASE place # 0
    <3>1. items' = Append(Without(key), items[place])
      BY <1>5, <2>3 DEF Move, Change, place
    <3>2. items' \in Seq(S)
      BY <1>1, <2>3, <3>1, WithoutIsSeq
    <3>3. QED
      BY <1>5, <2>1, <2>3, <3>2, GotoSound DEF Move, place
  <2>4. QED
    BY <2>2, <2>3
<1>6. QED
  BY <1>3, <1>4, <1>5

(* _IdleLRU.put                                                            *)
LEMMA PutSound ==
  ASSUME SoundInv, NEW t \in Threads,
         \/ Scan(t) \/ Scanned(t) \/ Evict(t) \/ Replace(t) \/ Shrink(t)
         \/ Insert(t) \/ LoadSize(t) \/ StoreSize(t)
  PROVE  SoundInv'
<1> DEFINE S == SoundItems(bucket)
           l == thread[t]
<1>1. items \in Seq(S) /\ Sound(l, bucket) /\ now \in Nat
  BY DEF SoundInv
<1>2. ASSUME NEW pc \in {"scanned", "error", "evict", "replace", "shrink", "insert"},
             l.pc \in {"scan", "scanned", "evict", "replace", "shrink"}
      PROVE  Sound([l EXCEPT !.pc = pc], bucket)
  BY <1>1, <1>2 DEF Sound, Fields
<1>3. ASSUME NEW stale, NEW amount, NEW next \in {"evict", "shrink", "reply"},
             l.pc \in {"evict", "replace", "shrink", "insert"}
      PROVE  /\ Sound(Owe(l, amount, next), bucket)
             /\ Sound(Owe([l EXCEPT !.stale = stale], amount, next), bucket)
  BY <1>1, <1>3 DEF Sound, Fields, Owe
<1>4. \A key : Without(key) \in Seq(S)
  BY <1>1, WithoutIsSeq
<1> HIDE DEF S, l
<1>5. CASE Scan(t)
  <2>1. PICK stale : l.pc = "scan" /\ Goto(t, [l EXCEPT !.pc = "scanned", !.stale = stale])
    BY <1>5, Zenon DEF Scan, Step, l
  <2>2. Sound([l EXCEPT !.pc = "scanned", !.stale = stale], bucket)
    BY <1>1, <2>1 DEF Sound, Fields
  <2>3. items' = items
    BY <1>5, Zenon DEF Scan
  <2>4. QED
    BY <1>1, <2>1, <2>2, <2>3, GotoSound DEF S
<1>6. CASE Scanned(t)
  <2> DEFINE pc == IF t \in torn THEN "error" ELSE "evict"
  <2>1. l.pc = "scanned" /\ Goto(t, [l EXCEPT !.pc = pc]) /\ items' = items
    BY <1>6 DEF Scanned, Step, l
  <2>2. pc \in {"error", "evict"}
    OBVIOUS
  <2> HIDE DEF pc
  <2>3. Sound([l EXCEPT !.pc = pc], bucket)
    BY <1>2, <2>1, <2>2
  <2>4. QED
    BY <1>1, <2>1, <2>3, GotoSound DEF S
<1>7. CASE Evict(t)
  <2>1. l.pc = "evict"
    BY <1>7 DEF Evict, Step, l
  <2>2. CASE l.stale = <<>>
    BY <1>1, <1>2, <1>7, <2>1, <2>2, GotoSound DEF Evict, Keep, S, l
  <2>3. CASE l.stale # <<>>
    <3> DEFINE key == Head(l.stale)
    <3>1. CASE Place(key) = 0
      BY <1>1, <1>2, <1>7, <2>1, <2>3, <3>1, GotoSound DEF Evict, Keep, S, l
    <3>2. CASE Place(key) # 0
      <4> DEFINE amount == -Length[items[Place(key)].body]
      <4>1. Goto(t, Owe([l EXCEPT !.stale = Tail(@)], amount, "evict"))
            /\ items' = Without(key)
        BY <1>7, <2>3, <3>2 DEF Evict, Change, l
      <4> HIDE DEF amount
      <4>2. Sound(Owe([l EXCEPT !.stale = Tail(@)], amount, "evict"), bucket)
        BY <1>3, <2>1
      <4>3. QED
        BY <1>4, <4>1, <4>2, GotoSound DEF S
    <3>3. QED
      BY <3>1, <3>2
  <2>4. QED
    BY <2>2, <2>3
<1>8. CASE Replace(t)
  <2>1. l.pc = "replace"
    BY <1>8 DEF Replace, Step, l
  <2>2. CASE Place(KeyOf(l)) = 0
    BY <1>1, <1>2, <1>8, <2>1, <2>2, GotoSound DEF Replace, Keep, S, l
  <2>3. CASE Place(KeyOf(l)) # 0
    <3> DEFINE amount == -Length[items[Place(KeyOf(l))].body]
    <3>1. Goto(t, Owe(l, amount, "shrink")) /\ items' = Without(KeyOf(l))
      BY <1>8, <2>3 DEF Replace, Change, l
    <3> HIDE DEF amount
    <3>2. Sound(Owe(l, amount, "shrink"), bucket)
      BY <1>3, <2>1
    <3>3. QED
      BY <1>4, <3>1, <3>2, GotoSound DEF S
  <2>4. QED
    BY <2>2, <2>3
<1>9. CASE Shrink(t)
  <2>1. l.pc = "shrink"
    BY <1>9 DEF Shrink, Step, l
  <2>2. CASE TooMuch(t)
    <3> DEFINE amount == -Length[Head(items).body]
    <3>1. Goto(t, Owe(l, amount, "shrink")) /\ items' = Tail(items)
      BY <1>9, <2>2 DEF Shrink, Change, l
    <3> HIDE DEF amount
    <3>2. Sound(Owe(l, amount, "shrink"), bucket)
      BY <1>3, <2>1
    <3>3. Tail(items) \in Seq(S)
      BY <1>1, <2>2, TailIsSeq DEF TooMuch
    <3>4. QED
      BY <3>1, <3>2, <3>3, GotoSound DEF S
  <2>3. CASE ~TooMuch(t)
    BY <1>1, <1>2, <1>9, <2>1, <2>3, GotoSound DEF Shrink, Keep, S, l
  <2>4. QED
    BY <2>2, <2>3
<1>10. CASE Insert(t)
  <2> DEFINE key == KeyOf(l)
             item == [key |-> key, body |-> l.body, ts |-> now]
             place == Place(key)
  <2>1. l.pc = "insert"
    BY <1>10 DEF Insert, Step, l
  <2>2. item \in S
    BY <1>1, <2>1, OwnItemSound DEF S
  <2>3. place \in 0 .. Len(items)
    BY <1>1, PlaceInItems
  <2>4. items' = IF place = 0 THEN Append(items, item) ELSE [items EXCEPT ![place] = item]
    BY <1>10 DEF Insert, Change, l
  <2> HIDE DEF item, place
  <2>5. items' \in Seq(S)
    BY <1>1, <2>2, <2>3, <2>4
  <2>6. Sound(Owe(l, Length[l.body], "reply"), bucket)
    BY <1>3, <2>1
  <2>7. QED
    BY <1>10, <2>5, <2>6, GotoSound DEF Insert, S, l
<1>11. CASE LoadSize(t)
  <2>1. Sound([l EXCEPT !.pc = "store", !.size = size], bucket)
    BY <1>1, <1>11 DEF LoadSize, Step, Sound, Fields, l
  <2>2. QED
    BY <1>1, <1>11, <2>1, GotoSound DEF LoadSize, Keep, S, l
<1>12. CASE StoreSize(t)
  <2>1. Sound([l EXCEPT !.pc = l.next], bucket)
    BY <1>1, <1>12 DEF StoreSize, Step, Sound, Fields, l
  <2>2. QED
    BY <1>1, <1>12, <2>1, GotoSound DEF StoreSize, Keep, S, l
<1>13. QED
  BY <1>5, <1>6, <1>7, <1>8, <1>9, <1>10, <1>11, <1>12

LEMMA NextSound == SoundInv /\ [Next]_vars => SoundInv'
BY WorldSound, RequestSound, GetSound, PutSound DEF Next

LEMMA SoundIsNeverOlder == SoundInv => NeverOlder
BY DEF SoundInv, Sound, Since, SameOrLater, NeverOlder

(* However requests interleave in the LRU, and whatever objects hold the   *)
(* same, what is answered under an etag is not older than that etag.       *)
(* (api_sessions.py, get_transcript)                                       *)
THEOREM BodiesNeverOlder == Spec => []NeverOlder
BY InitSound, NextSound, SoundIsNeverOlder, PTL DEF Spec
-----------------------------------------------------------------------------
(* What the LRU is as long as no two requests were in it together.         *)

Keys(s) == {s[i].key : i \in DOMAIN s}
Unique(s) == \A i, j \in DOMAIN s : s[i].key = s[j].key => i = j

Capped(its) == Bytes(its) <= MaxBytes \/ Len(its) = 1

Counting == {"load", "store"}

(* The step a thread is at, or has still to count the bytes of before.     *)
Stage(l) == IF l.pc \in Counting THEN l.next ELSE l.pc
Owed(l) == IF l.pc \in Counting THEN l.owed ELSE 0

(* The only thread inside, with these locals, over these items.            *)
Alone(l, its, sz) ==
    /\ l.pc \in Counting => l.owed \in Int
    /\ sz + Owed(l) = Bytes(its)
    /\ l.pc = "store" => l.size = sz
    /\ Stage(l) \in {"touch", "move"} => KeyOf(l) \in Keys(its)
    /\ Stage(l) = "touch" =>
        \E i \in DOMAIN its : its[i].key = KeyOf(l) /\ its[i].body = l.body
    /\ Stage(l) \in {"scanned", "evict"} =>
        /\ l.stale \in Seq(Keys(its))
        /\ \A i, j \in DOMAIN l.stale : l.stale[i] = l.stale[j] => i = j
    /\ Stage(l) \in {"touch", "move", "scan", "scanned", "evict", "reply"} =>
        Capped(its)
    /\ Stage(l) \in {"shrink", "insert"} => KeyOf(l) \notin Keys(its)
    /\ Stage(l) = "insert" => Bytes(its) + Length[l.body] <= MaxBytes \/ its = <<>>

AloneInv ==
    ~overlapped =>
        /\ size \in Int /\ Unique(items)
        /\ \A t \in Threads : thread[t].pc # "error"
        /\ \A t, u \in Threads :
            thread[t].pc \in InLRU /\ thread[u].pc \in InLRU => t = u
        /\ \A t \in Threads : thread[t].pc \in InLRU => Alone(thread[t], items, size)
        /\ \A t \in Threads : thread[t].pc = "scanned" => t \notin torn
        /\ Idle => size = Bytes(items) /\ Capped(items)

-----------------------------------------------------------------------------
(* What a list of items holds.                                             *)

(* acc adds the items of s up, one by one.                                 *)
AddsUp(acc, s) ==
    /\ acc \in [0 .. Len(s) -> Nat] /\ acc[0] = 0
    /\ \A n \in 1 .. Len(s) : acc[n] = acc[n - 1] + Length[s[n].body]

(* A set of numbers has a least one.                                       *)
LEMMA LeastNumber ==
  ASSUME NEW S \in SUBSET Nat, S # {}
  PROVE  \E n \in S : \A m \in S : n <= m
<1>1. PICK n \in S : \A m \in S : <<m, n>> \notin OpToRel(<, Nat)
  BY NatLessThanWellFounded, WFMin
<1>2. \A m \in S : ~(m < n)
  BY <1>1 DEF OpToRel
<1>3. QED
  BY <1>2

(* Induction, for a set of numbers.                                        *)
LEMMA AllNumbers ==
  ASSUME NEW S \in SUBSET Nat, 0 \in S, \A n \in S : n + 1 \in S
  PROVE  S = Nat
<1> SUFFICES ASSUME Nat \ S # {} PROVE FALSE
  OBVIOUS
<1>1. PICK n \in Nat \ S : \A m \in Nat \ S : n <= m
  BY LeastNumber
<1>2. n - 1 \in S /\ (n - 1) + 1 = n
  BY <1>1
<1>3. QED
  BY <1>1, <1>2

LEMMA LengthIsNat ==
  ASSUME NEW s \in Seq(Bodied), NEW n \in 1 .. Len(s)
  PROVE  Length[s[n].body] \in Nat /\ s[n].body \in Contents
<1>1. s[n] \in Bodied
  OBVIOUS
<1>2. QED
  BY <1>1, CacheAssumption DEF Bodied

(* Every list can be added up.                                             *)
LEMMA AddsUpExists ==
  ASSUME NEW s \in Seq(Bodied)
  PROVE  \E acc : AddsUp(acc, s)
<1> DEFINE Part(acc, n) ==
             /\ acc \in [0 .. n -> Nat] /\ acc[0] = 0
             /\ \A k \in 1 .. n : acc[k] = acc[k - 1] + Length[s[k].body]
           N == {n \in Nat : n <= Len(s) => \E acc : Part(acc, n)}
<1> HIDE DEF Part
<1>1. 0 \in N
  <2>1. Part([k \in 0 .. 0 |-> 0], 0)
    BY DEF Part
  <2>2. QED
    BY <2>1
<1>2. ASSUME NEW n \in N
      PROVE  n + 1 \in N
  <2> SUFFICES ASSUME n + 1 <= Len(s) PROVE \E acc : Part(acc, n + 1)
    OBVIOUS
  <2>0. n \in Nat /\ Len(s) \in Nat
    OBVIOUS
  <2>1. n \in Nat /\ n <= Len(s) /\ n + 1 \in 1 .. Len(s)
    BY <2>0
  <2>2. PICK acc : Part(acc, n)
    BY <2>1
  <2> DEFINE v == acc[n] + Length[s[n + 1].body]
             more == [k \in 0 .. n + 1 |-> IF k = n + 1 THEN v ELSE acc[k]]
  <2>3. v \in Nat
    BY <2>1, <2>2, LengthIsNat DEF Part
  <2>4. more \in [0 .. n + 1 -> Nat] /\ more[0] = 0
    BY <2>1, <2>2, <2>3 DEF Part
  <2>5. ASSUME NEW k \in 1 .. n + 1
        PROVE  more[k] = more[k - 1] + Length[s[k].body]
    <3>1. CASE k = n + 1
      BY <2>1, <2>2, <3>1 DEF Part
    <3>2. CASE k # n + 1
      <4>1. k \in 1 .. n /\ k - 1 # n + 1 /\ k - 1 \in 0 .. n + 1
        BY <2>1, <3>2
      <4>2. QED
        BY <2>2, <3>2, <4>1 DEF Part
    <3>3. QED
      BY <3>1, <3>2
  <2> HIDE DEF more
  <2>6. QED
    BY <2>4, <2>5 DEF Part
<1>3. N = Nat
  <2>1. N \in SUBSET Nat
    OBVIOUS
  <2> HIDE DEF N
  <2>2. QED
    BY <1>1, <1>2, <2>1, AllNumbers
<1>4. Len(s) \in N
  <2>1. Len(s) \in Nat
    OBVIOUS
  <2> HIDE DEF N
  <2>2. QED
    BY <1>3, <2>1
<1>5. QED
  BY <1>4 DEF AddsUp, Part

(* And in one way.                                                         *)
LEMMA AddsUpUnique ==
  ASSUME NEW s \in Seq(Bodied), NEW a, AddsUp(a, s), NEW b, AddsUp(b, s)
  PROVE  a[Len(s)] = b[Len(s)]
<1> DEFINE N == {n \in Nat : n <= Len(s) => a[n] = b[n]}
<1>1. 0 \in N
  BY DEF AddsUp
<1>2. ASSUME NEW n \in N
      PROVE  n + 1 \in N
  <2> SUFFICES ASSUME n + 1 <= Len(s) PROVE a[n + 1] = b[n + 1]
    OBVIOUS
  <2>1. n \in Nat /\ a[n] = b[n] /\ n + 1 \in 1 .. Len(s) /\ (n + 1) - 1 = n
    OBVIOUS
  <2>2. QED
    BY <2>1 DEF AddsUp
<1>3. N = Nat
  <2>1. N \in SUBSET Nat
    OBVIOUS
  <2> HIDE DEF N
  <2>2. QED
    BY <1>1, <1>2, <2>1, AllNumbers
<1>4. Len(s) \in N
  BY <1>3
<1>5. QED
  BY <1>4

LEMMA BytesIs ==
  ASSUME NEW s \in Seq(Bodied), NEW acc, AddsUp(acc, s)
  PROVE  Bytes(s) = acc[Len(s)] /\ Bytes(s) \in Nat
<1> DEFINE Next0(F) == [n \in 0 .. Len(s) |->
                          IF n = 0 THEN 0 ELSE F[n - 1] + Length[s[n].body]]
           up == CHOOSE F : F = Next0(F)
<1>1. Bytes(s) = up[Len(s)]
  BY DEF Bytes
<1>2. acc = Next0(acc)
  <2>1. \A n \in 0 .. Len(s) : acc[n] = Next0(acc)[n]
    <3> SUFFICES ASSUME NEW n \in 0 .. Len(s)
                 PROVE  acc[n] = IF n = 0 THEN 0 ELSE acc[n - 1] + Length[s[n].body]
      OBVIOUS
    <3>1. n = 0 \/ n \in 1 .. Len(s)
      OBVIOUS
    <3>2. QED
      BY <3>1 DEF AddsUp
  <2>2. QED
    BY <2>1 DEF AddsUp
<1>3. up = Next0(up)
  BY <1>2
<1> HIDE DEF up
<1>4. AddsUp(up, s)
  <2> DEFINE N == {n \in Nat : n <= Len(s) => up[n] \in Nat}
  <2>0. /\ up[0] = 0
        /\ \A n \in 1 .. Len(s) : up[n] = up[n - 1] + Length[s[n].body]
    BY <1>3
  <2>1. 0 \in N
    BY <2>0
  <2>2. ASSUME NEW n \in N
        PROVE  n + 1 \in N
    <3> SUFFICES ASSUME n + 1 <= Len(s) PROVE up[n + 1] \in Nat
      OBVIOUS
    <3>1. n \in Nat /\ up[n] \in Nat /\ n + 1 \in 1 .. Len(s) /\ (n + 1) - 1 = n
      OBVIOUS
    <3>2. Length[s[n + 1].body] \in Nat
      BY <3>1, LengthIsNat
    <3>3. up[n + 1] = up[n] + Length[s[n + 1].body]
      BY <2>0, <3>1
    <3>4. QED
      BY <3>1, <3>2, <3>3
  <2>3. N = Nat
    <3>1. N \in SUBSET Nat
      OBVIOUS
    <3> HIDE DEF N
    <3>2. QED
      BY <2>1, <2>2, <3>1, AllNumbers
  <2>4. \A n \in 0 .. Len(s) : up[n] \in Nat
    BY <2>3
  <2>5. up \in [0 .. Len(s) -> Nat]
    BY <1>3, <2>4
  <2>6. QED
    BY <2>0, <2>5 DEF AddsUp
<1>5. Len(s) \in 0 .. Len(s)
  OBVIOUS
<1>6. acc[Len(s)] \in Nat
  BY <1>5 DEF AddsUp
<1>7. up[Len(s)] = acc[Len(s)]
  BY <1>4, AddsUpUnique
<1>8. QED
  BY <1>1, <1>6, <1>7

LEMMA BytesEmpty == Bytes(<<>>) = 0
<1>1. <<>> \in Seq(Bodied) /\ Len(<<>>) = 0
  OBVIOUS
<1>2. PICK acc : AddsUp(acc, <<>>)
  BY <1>1, AddsUpExists
<1>3. QED
  BY <1>1, <1>2, BytesIs DEF AddsUp

LEMMA BytesNat ==
  ASSUME NEW s \in Seq(Bodied)
  PROVE  Bytes(s) \in Nat
BY AddsUpExists, BytesIs

LEMMA BytesAppend ==
  ASSUME NEW s \in Seq(Bodied), NEW e \in Bodied
  PROVE  Bytes(Append(s, e)) = Bytes(s) + Length[e.body]
<1>1. PICK acc : AddsUp(acc, s)
  BY AddsUpExists
<1> DEFINE a == Append(s, e)
           more == [n \in 0 .. Len(s) + 1 |->
                      IF n <= Len(s) THEN acc[n] ELSE acc[Len(s)] + Length[e.body]]
<1>2. /\ a \in Seq(Bodied) /\ Len(a) = Len(s) + 1 /\ Len(s) \in Nat
      /\ \A n \in 1 .. Len(s) : a[n] = s[n]
      /\ a[Len(s) + 1] = e
  OBVIOUS
<1> HIDE DEF a
<1>3. Length[e.body] \in Nat /\ acc[Len(s)] \in Nat
  <2>1. Len(s) \in 0 .. Len(s) /\ e.body \in Contents
    BY <1>2 DEF Bodied
  <2>2. QED
    BY <1>1, <2>1, CacheAssumption DEF AddsUp
<1>4. AddsUp(more, a)
  <2>1. more \in [0 .. Len(a) -> Nat] /\ more[0] = 0
    BY <1>1, <1>2, <1>3 DEF AddsUp
  <2>2. ASSUME NEW n \in 1 .. Len(a)
        PROVE  more[n] = more[n - 1] + Length[a[n].body]
    <3>1. CASE n = Len(s) + 1
      BY <1>2, <3>1
    <3>2. CASE n # Len(s) + 1
      <4>1. n \in 1 .. Len(s) /\ n - 1 \in 0 .. Len(s)
        BY <1>2, <3>2
      <4>2. QED
        BY <1>1, <1>2, <4>1 DEF AddsUp
    <3>3. QED
      BY <3>1, <3>2
  <2>3. QED
    BY <2>1, <2>2 DEF AddsUp
<1>5. more[Len(a)] = acc[Len(s)] + Length[e.body]
  BY <1>2
<1> HIDE DEF more
<1>6. Bytes(a) = more[Len(a)] /\ Bytes(s) = acc[Len(s)]
  BY <1>1, <1>2, <1>4, BytesIs
<1>7. QED
  BY <1>5, <1>6 DEF a

(* An item that goes, wherever it was.                                     *)
LEMMA BytesDropped ==
  ASSUME NEW s \in Seq(Bodied), NEW p \in 1 .. Len(s), NEW a \in Seq(Bodied),
         Len(a) = Len(s) - 1,
         \A i \in 1 .. Len(s) - 1 : a[i] = IF i < p THEN s[i] ELSE s[i + 1]
  PROVE  Bytes(a) = Bytes(s) - Length[s[p].body]
<1>1. PICK acc : AddsUp(acc, s)
  BY AddsUpExists
<1>2. PICK less : AddsUp(less, a)
  BY AddsUpExists
<1>3. Len(s) \in Nat /\ Len(a) \in Nat /\ Length[s[p].body] \in Nat
  BY LengthIsNat
<1> DEFINE N == {n \in Nat : n <= Len(a) =>
                   less[n] = IF n < p THEN acc[n] ELSE acc[n + 1] - Length[s[p].body]}
<1>4. 0 \in N
  BY <1>1, <1>2 DEF AddsUp
<1>5. ASSUME NEW n \in N
      PROVE  n + 1 \in N
  <2> SUFFICES ASSUME n + 1 <= Len(a)
               PROVE  less[n + 1] = IF n + 1 < p THEN acc[n + 1]
                                    ELSE acc[n + 2] - Length[s[p].body]
    OBVIOUS
  <2>1. /\ n \in Nat /\ n + 1 \in 1 .. Len(a) /\ (n + 1) - 1 = n
        /\ less[n + 1] = less[n] + Length[a[n + 1].body]
        /\ less[n] = IF n < p THEN acc[n] ELSE acc[n + 1] - Length[s[p].body]
    BY <1>2 DEF AddsUp
  <2>2. /\ n + 1 \in 1 .. Len(s) /\ n + 2 \in 1 .. Len(s)
        /\ acc[n + 1] = acc[n] + Length[s[n + 1].body]
        /\ acc[n + 2] = acc[n + 1] + Length[s[n + 2].body]
        /\ acc[n] \in Nat /\ acc[n + 1] \in Nat
    <3>1. n + 1 \in 1 .. Len(s) /\ n + 2 \in 1 .. Len(s) /\ (n + 2) - 1 = n + 1
          /\ n \in 0 .. Len(s) /\ n + 1 \in 0 .. Len(s)
      BY <1>3, <2>1
    <3>2. QED
      BY <1>1, <2>1, <3>1 DEF AddsUp
  <2>3. Length[s[n + 1].body] \in Nat /\ Length[s[n + 2].body] \in Nat
    BY <2>2, LengthIsNat
  <2>4. CASE n + 1 < p
    BY <2>1, <2>2, <2>4
  <2>5. CASE n + 1 = p
    <3>0. n + 1 \in 1 .. (Len(s) - 1) /\ ~(n + 1 < p) /\ (n + 1) + 1 = n + 2
      BY <1>3, <2>1, <2>5
    <3>1. a[n + 1] = s[n + 2]
      BY <3>0
    <3>2. less[n + 1] = acc[n] + Length[s[n + 2].body]
      BY <2>1, <2>5, <3>1
    <3>3. acc[n + 2] = acc[n] + Length[s[p].body] + Length[s[n + 2].body]
      BY <2>2, <2>5
    <3>4. ~(n + 1 < p)
      BY <1>3, <2>1, <2>5
    <3> DEFINE x == acc[n]
               y == Length[s[p].body]
               z == Length[s[n + 2].body]
               w == acc[n + 2]
    <3>5. x \in Nat /\ y \in Nat /\ z \in Nat /\ w = x + y + z
      BY <1>3, <2>2, <2>3, <3>3
    <3>6. less[n + 1] = x + z
      BY <3>2
    <3> HIDE DEF x, y, z, w
    <3>7. less[n + 1] = w - y
      BY <3>5, <3>6
    <3>8. QED
      BY <3>4, <3>7 DEF w, y
  <2>6. CASE n + 1 > p
    <3>0. n + 1 \in 1 .. (Len(s) - 1) /\ ~(n + 1 < p) /\ (n + 1) + 1 = n + 2
      BY <1>3, <2>1, <2>6
    <3>1. a[n + 1] = s[n + 2]
      BY <3>0
    <3>2. less[n + 1] = (acc[n + 1] - Length[s[p].body]) + Length[s[n + 2].body]
      BY <2>1, <2>6, <3>1
    <3>3. ~(n + 1 < p)
          /\ acc[n + 2] - Length[s[p].body]
               = (acc[n + 1] - Length[s[p].body]) + Length[s[n + 2].body]
      BY <1>3, <2>1, <2>2, <2>3, <2>6
    <3>4. QED
      BY <3>2, <3>3
  <2>7. QED
    BY <2>1, <2>4, <2>5, <2>6
<1>6. N = Nat
  <2>1. N \in SUBSET Nat
    OBVIOUS
  <2> HIDE DEF N
  <2>2. QED
    BY <1>4, <1>5, <2>1, AllNumbers
<1>7. less[Len(a)] = IF Len(a) < p THEN acc[Len(a)] ELSE acc[Len(a) + 1] - Length[s[p].body]
  <2>1. Len(a) \in N
    BY <1>3, <1>6
  <2>2. QED
    BY <1>3, <2>1
<1>8. Bytes(a) = less[Len(a)] /\ Bytes(s) = acc[Len(s)]
  BY <1>1, <1>2, BytesIs
<1>9. CASE p = Len(s)
  <2>1. acc[Len(s)] = acc[Len(s) - 1] + Length[s[Len(s)].body]
        /\ acc[Len(s) - 1] \in Nat
    <3>1. Len(s) \in 1 .. Len(s) /\ Len(s) - 1 \in 0 .. Len(s)
      BY <1>3, <1>9
    <3>2. QED
      BY <1>1, <3>1 DEF AddsUp
  <2>2. QED
    BY <1>3, <1>7, <1>8, <1>9, <2>1
<1>10. CASE p # Len(s)
  BY <1>3, <1>7, <1>8, <1>10
<1>11. QED
  BY <1>9, <1>10
(* An item that is put again with the same body.                           *)
LEMMA BytesPut ==
  ASSUME NEW s \in Seq(Bodied), NEW p \in 1 .. Len(s), NEW e \in Bodied,
         e.body = s[p].body
  PROVE  Bytes([s EXCEPT ![p] = e]) = Bytes(s)
<1> DEFINE a == [s EXCEPT ![p] = e]
<1>1. /\ a \in Seq(Bodied) /\ Len(a) = Len(s)
      /\ \A n \in 1 .. Len(s) : a[n].body = s[n].body
  OBVIOUS
<1> HIDE DEF a
<1>2. PICK acc : AddsUp(acc, s)
  BY AddsUpExists
<1>3. AddsUp(acc, a)
  BY <1>1, <1>2 DEF AddsUp
<1>4. Bytes(a) = acc[Len(s)] /\ Bytes(s) = acc[Len(s)]
  BY <1>1, <1>2, <1>3, BytesIs
<1>5. QED
  BY <1>4 DEF a

LEMMA ItemsBodied == SoundInv => items \in Seq(Bodied) /\ Len(items) \in Nat
<1> SUFFICES ASSUME SoundInv PROVE items \in Seq(Bodied)
  OBVIOUS
<1>1. SoundItems(bucket) \subseteq Bodied
  BY DEF SoundItems
<1>2. QED
  BY <1>1, SeqMonotonic DEF SoundInv

-----------------------------------------------------------------------------
(* How the operations on a list act on its keys.                           *)
LEMMA SeqNarrows ==
  ASSUME NEW S, NEW T, NEW s \in Seq(S), \A i \in DOMAIN s : s[i] \in T
  PROVE  s \in Seq(T)
<1>1. Len(s) \in Nat /\ s \in [1 .. Len(s) -> T]
  OBVIOUS
<1>2. QED
  BY <1>1

LEMMA AppendUnique ==
  ASSUME NEW s \in Seq(Bodied), NEW e \in Bodied, Unique(s), e.key \notin Keys(s)
  PROVE  /\ Unique(Append(s, e))
         /\ Len(Append(s, e)) = Len(s) + 1
         /\ Keys(Append(s, e)) = Keys(s) \cup {e.key}
         /\ Bytes(Append(s, e)) = Bytes(s) + Length[e.body]
<1> DEFINE a == Append(s, e)
<1>1. /\ DOMAIN s = 1 .. Len(s) /\ Len(s) \in Nat
      /\ DOMAIN a = 1 .. Len(s) + 1 /\ Len(a) = Len(s) + 1
      /\ \A i \in 1 .. Len(s) : a[i] = s[i]
      /\ a[Len(s) + 1] = e
  OBVIOUS
<1> HIDE DEF a
<1>2. \A i \in DOMAIN a : i \in DOMAIN s \/ i = Len(s) + 1
  BY <1>1
<1>3. Unique(a)
  BY <1>1, <1>2 DEF Unique, Keys
<1>4. Keys(a) = Keys(s) \cup {e.key}
  BY <1>1, <1>2 DEF Keys
<1>5. QED
  BY <1>1, <1>3, <1>4, BytesAppend DEF a

LEMMA PutUnique ==
  ASSUME NEW s \in Seq(Bodied), NEW e \in Bodied, NEW p \in 1 .. Len(s), Unique(s),
         e.key = s[p].key, e.body = s[p].body
  PROVE  /\ Unique([s EXCEPT ![p] = e])
         /\ Len([s EXCEPT ![p] = e]) = Len(s)
         /\ Keys([s EXCEPT ![p] = e]) = Keys(s)
         /\ Bytes([s EXCEPT ![p] = e]) = Bytes(s)
<1> DEFINE a == [s EXCEPT ![p] = e]
<1>1. /\ DOMAIN s = 1 .. Len(s) /\ DOMAIN a = DOMAIN s /\ Len(a) = Len(s)
      /\ \A i \in DOMAIN s : a[i].key = s[i].key
  OBVIOUS
<1> HIDE DEF a
<1>2. Unique(a) /\ Keys(a) = Keys(s)
  BY <1>1 DEF Unique, Keys
<1>3. QED
  BY <1>1, <1>2, BytesPut DEF a

LEMMA RemoveUnique ==
  ASSUME NEW s \in Seq(Bodied), NEW p \in 1 .. Len(s), Unique(s)
  PROVE  /\ RemoveAt(s, p) \in Seq(Bodied)
         /\ Unique(RemoveAt(s, p))
         /\ Len(RemoveAt(s, p)) = Len(s) - 1
         /\ Keys(RemoveAt(s, p)) = Keys(s) \ {s[p].key}
         /\ Bytes(RemoveAt(s, p)) = Bytes(s) - Length[s[p].body]
<1> DEFINE front == SubSeq(s, 1, p - 1)
           back == SubSeq(s, p + 1, Len(s))
           a == RemoveAt(s, p)
<1>1. /\ front \in Seq(Bodied) /\ Len(front) = p - 1
      /\ \A i \in 1 .. p - 1 : front[i] = s[i]
  <2>1. \A i \in 1 .. p - 1 : s[i] \in Bodied
    OBVIOUS
  <2>2. QED
    BY <2>1, SubSeqProperties
<1>2. /\ back \in Seq(Bodied) /\ Len(back) = Len(s) - p
      /\ \A i \in 1 .. Len(s) - p : back[i] = s[p + i]
  <2>1. \A i \in p + 1 .. Len(s) : s[i] \in Bodied
    OBVIOUS
  <2>2. QED
    BY <2>1, SubSeqProperties
<1>3. a = front \o back
  BY DEF RemoveAt
<1> HIDE DEF front, back, a
<1>4. /\ a \in Seq(Bodied) /\ Len(a) = Len(s) - 1
      /\ \A i \in 1 .. Len(s) - 1 : a[i] = IF i < p THEN s[i] ELSE s[i + 1]
  <2>1. /\ a \in Seq(Bodied) /\ Len(a) = Len(front) + Len(back)
        /\ \A i \in 1 .. Len(front) + Len(back) :
             a[i] = IF i <= Len(front) THEN front[i] ELSE back[i - Len(front)]
    BY <1>1, <1>2, <1>3, ConcatProperties
  <2>2. Len(s) \in Nat /\ Len(front) + Len(back) = Len(s) - 1
    BY <1>1, <1>2
  <2>3. ASSUME NEW i \in 1 .. Len(s) - 1 PROVE a[i] = IF i < p THEN s[i] ELSE s[i + 1]
    <3>1. CASE i < p
      BY <1>1, <2>1, <2>2, <3>1
    <3>2. CASE ~(i < p)
      <4>1. i - (p - 1) \in 1 .. Len(s) - p /\ p + (i - (p - 1)) = i + 1
        BY <2>2, <3>2
      <4>2. a[i] = back[i - (p - 1)]
        BY <1>1, <2>1, <2>2, <3>2
      <4>3. QED
        BY <1>2, <3>2, <4>1, <4>2
    <3>3. QED
      BY <3>1, <3>2
  <2>4. QED
    BY <2>1, <2>2, <2>3
<1>5. DOMAIN a = 1 .. Len(s) - 1 /\ DOMAIN s = 1 .. Len(s)
  BY <1>4
<1>6. \A i \in DOMAIN s : i # p => \E j \in DOMAIN a : a[j] = s[i]
  <2> SUFFICES ASSUME NEW i \in DOMAIN s, i # p PROVE \E j \in DOMAIN a : a[j] = s[i]
    OBVIOUS
  <2>1. CASE i < p
    BY <1>4, <1>5, <2>1
  <2>2. CASE i > p
    <3>1. i - 1 \in DOMAIN a /\ a[i - 1] = s[i]
      BY <1>4, <1>5, <2>2
    <3>2. QED
      BY <3>1
  <2>3. QED
    BY <1>5, <2>1, <2>2
<1>7. \A j \in DOMAIN a : \E i \in DOMAIN s : i # p /\ a[j] = s[i]
  BY <1>4, <1>5
<1>8. Keys(a) = Keys(s) \ {s[p].key}
  <2>1. \A i \in DOMAIN s : i # p => s[i].key # s[p].key
    BY DEF Unique
  <2>2. \A k \in Keys(a) : k \in Keys(s) /\ k # s[p].key
    BY <1>7, <2>1 DEF Keys
  <2>3. \A k \in Keys(s) : k # s[p].key => k \in Keys(a)
    BY <1>6 DEF Keys
  <2>4. QED
    BY <2>2, <2>3
<1>9. Unique(a)
  <2> SUFFICES ASSUME NEW i \in DOMAIN a, NEW j \in DOMAIN a, a[i].key = a[j].key
               PROVE  i = j
    BY DEF Unique
  <2>1. PICK f \in [DOMAIN a -> DOMAIN s] :
          \A k \in DOMAIN a : f[k] = IF k < p THEN k ELSE k + 1
    <3>1. [k \in DOMAIN a |-> IF k < p THEN k ELSE k + 1] \in [DOMAIN a -> DOMAIN s]
      BY <1>5
    <3>2. QED
      BY <3>1
  <2>2. s[f[i]].key = s[f[j]].key
    BY <1>4, <1>5, <2>1
  <2>3. f[i] = f[j]
    BY <2>1, <2>2 DEF Unique
  <2>4. QED
    BY <1>5, <2>1, <2>3
<1>10. Bytes(a) = Bytes(s) - Length[s[p].body]
  BY <1>4, BytesDropped
<1>11. QED
  BY <1>4, <1>8, <1>9, <1>10 DEF a

LEMMA TailUnique ==
  ASSUME NEW s \in Seq(Bodied), s # <<>>, Unique(s)
  PROVE  /\ Unique(Tail(s))
         /\ Len(Tail(s)) = Len(s) - 1
         /\ Keys(Tail(s)) \subseteq Keys(s)
         /\ Bytes(Tail(s)) = Bytes(s) - Length[Head(s).body]
<1> DEFINE a == Tail(s)
<1>1. /\ DOMAIN s = 1 .. Len(s) /\ Len(s) \in Nat \ {0}
      /\ a \in Seq(Bodied) /\ DOMAIN a = 1 .. Len(s) - 1 /\ Len(a) = Len(s) - 1
      /\ \A i \in 1 .. Len(s) - 1 : a[i] = s[i + 1]
  BY HeadTailProperties
<1> HIDE DEF a
<1>2. \A i \in DOMAIN a : i + 1 \in DOMAIN s /\ a[i] = s[i + 1]
  BY <1>1
<1>3. Keys(a) \subseteq Keys(s)
  BY <1>2 DEF Keys
<1>4. Unique(a)
  <2> SUFFICES ASSUME NEW i \in DOMAIN a, NEW j \in DOMAIN a, a[i].key = a[j].key
               PROVE  i = j
    BY DEF Unique
  <2>1. i + 1 = j + 1
    BY <1>2 DEF Unique
  <2>2. QED
    BY <1>1, <2>1
<1>5. Bytes(a) = Bytes(s) - Length[Head(s).body]
  <2>1. 1 \in 1 .. Len(s) /\ Head(s) = s[1]
        /\ \A n \in 1 .. Len(s) - 1 : a[n] = IF n < 1 THEN s[n] ELSE s[n + 1]
    BY <1>1
  <2>2. Bytes(a) = Bytes(s) - Length[s[1].body]
    BY <1>1, <2>1, BytesDropped
  <2>3. QED
    BY <2>1, <2>2
<1>6. QED
  BY <1>1, <1>3, <1>4, <1>5 DEF a

LEMMA PlaceOfKey ==
  ASSUME NEW S, items \in Seq(S), NEW key
  PROVE  Place(key) # 0 <=> key \in Keys(items)
BY DEF Place, Keys

(* A step of a thread, by the locals it goes on with.                      *)
LEMMA GotoAlone ==
  ASSUME SoundInv, AloneInv, NEW t \in Threads, NEW l,
         thread' = [thread EXCEPT ![t] = l],
         ~overlapped' =>
            /\ ~overlapped
            /\ l.pc \in InLRU => \A u \in Threads \ {t} : thread[u].pc \notin InLRU,
         thread[t].pc \in InLRU \/ UNCHANGED <<items, size, torn>>,
         torn' \subseteq torn \cup {u \in Threads \ {t} : thread[u].pc = "scanned"},
         l.pc = "scanned" => t \notin torn',
         ~overlapped =>
            /\ l.pc # "error" /\ size' \in Int /\ Unique(items')
            /\ (l.pc \in InLRU /\ \A u \in Threads \ {t} : thread[u].pc \notin InLRU)
                  => Alone(l, items', size')
            /\ thread[t].pc \in InLRU /\ l.pc \notin InLRU =>
                 size' = Bytes(items') /\ Capped(items')
  PROVE  AloneInv'
<1> SUFFICES ASSUME ~overlapped'
             PROVE  AloneInv'
  BY DEF AloneInv
<1>1. /\ ~overlapped /\ thread' = [thread EXCEPT ![t] = l] /\ DOMAIN thread = Threads
      /\ l.pc \in InLRU => \A u \in Threads \ {t} : thread[u].pc \notin InLRU
  BY DEF SoundInv
<1>2. /\ thread'[t] = l
      /\ \A u \in Threads \ {t} : thread'[u] = thread[u]
  BY <1>1
<1>3. /\ size' \in Int /\ Unique(items')
      /\ \A u \in Threads : thread'[u].pc # "error"
  BY <1>1, <1>2 DEF AloneInv
<1>4. \A u, v \in Threads : thread'[u].pc \in InLRU /\ thread'[v].pc \in InLRU => u = v
  BY <1>1, <1>2 DEF AloneInv
<1>5. \A u \in Threads : thread'[u].pc \in InLRU => Alone(thread'[u], items', size')
  <2> SUFFICES ASSUME NEW u \in Threads, thread'[u].pc \in InLRU
               PROVE  Alone(thread'[u], items', size')
    OBVIOUS
  <2>1. CASE u = t
    BY <1>1, <1>2, <2>1
  <2>2. CASE u # t
    <3>1. thread'[u] = thread[u] /\ thread[u].pc \in InLRU /\ thread[t].pc \notin InLRU
      BY <1>1, <1>2, <2>2 DEF AloneInv
    <3>2. items' = items /\ size' = size
      BY <3>1
    <3>3. QED
      BY <1>1, <3>1, <3>2 DEF AloneInv
  <2>3. QED
    BY <2>1, <2>2
<1>6. \A u \in Threads : thread'[u].pc = "scanned" => u \notin torn'
  <2> SUFFICES ASSUME NEW u \in Threads, thread'[u].pc = "scanned", u # t
               PROVE  u \notin torn'
    BY <1>2
  <2>1. thread[u].pc = "scanned" /\ u \notin torn
    BY <1>1, <1>2 DEF AloneInv
  <2>2. thread[t].pc \notin InLRU
    BY <1>1, <2>1 DEF AloneInv, InLRU
  <2>3. QED
    BY <2>1, <2>2
<1>7. Idle' => size' = Bytes(items') /\ Capped(items')
  <2> SUFFICES ASSUME Idle'
               PROVE  size' = Bytes(items') /\ Capped(items')
    OBVIOUS
  <2>1. l.pc \notin InLRU /\ \A u \in Threads \ {t} : thread[u].pc \notin InLRU
    BY <1>2 DEF Idle
  <2>2. CASE thread[t].pc \in InLRU
    BY <1>1, <2>1, <2>2
  <2>3. CASE thread[t].pc \notin InLRU
    <3>1. Idle /\ items' = items /\ size' = size
      BY <2>1, <2>3 DEF Idle
    <3>2. QED
      BY <1>1, <3>1 DEF AloneInv
  <2>4. QED
    BY <2>2, <2>3
<1>8. QED
  BY <1>3, <1>4, <1>5, <1>6, <1>7 DEF AloneInv
LEMMA InitAlone == Init => AloneInv
<1> SUFFICES ASSUME Init PROVE AloneInv
  OBVIOUS
<1>1. \A t \in Threads : thread[t].pc = "idle"
  BY DEF Init, At
<1>2. Len(items) = 0 /\ Unique(items) /\ size = 0
  BY DEF Init, Unique
<1>3. size = Bytes(items) /\ Capped(items)
  <2>1. items = <<>>
    BY DEF Init
  <2>2. QED
    BY <1>2, <2>1, BytesEmpty, CacheAssumption DEF Capped
<1>4. QED
  BY <1>1, <1>2, <1>3 DEF AloneInv, InLRU

LEMMA WorldAlone ==
  ASSUME AloneInv,
         (\E f \in Files : Upload(f) \/ Ingest(f)) \/ Tick \/ UNCHANGED vars
  PROVE  AloneInv'
<1>1. UNCHANGED <<items, size, thread, torn, overlapped>>
  BY DEF Upload, Ingest, Tick, vars
<1>2. QED
  BY <1>1 DEF AloneInv, Idle

(* Who comes in finds the books in order.                                  *)
LEMMA EnteringAlone ==
  ASSUME AloneInv, ~overlapped, NEW t \in Threads, thread[t].pc \notin InLRU,
         \A u \in Threads \ {t} : thread[u].pc \notin InLRU
  PROVE  /\ size \in Int /\ Unique(items)
         /\ size = Bytes(items) /\ Capped(items)
BY DEF AloneInv, Idle

(* get_transcript around the LRU.                                          *)
LEMMA RequestAlone ==
  ASSUME SoundInv, AloneInv, NEW t \in Threads,
         (\E f \in Files : ReadRow(t, f)) \/ Fetch(t) \/ Finish(t)
  PROVE  AloneInv'
<1>1. ASSUME NEW f \in Files, ReadRow(t, f) PROVE AloneInv'
  <2> DEFINE l == [At("get") EXCEPT !.file = f, !.etag = Holds[f][indexed[f]]]
  <2>1. l.pc = "get" /\ thread[t].pc = "idle" /\ thread' = [thread EXCEPT ![t] = l]
        /\ UNCHANGED <<items, size, torn, overlapped>>
    BY <1>1 DEF ReadRow, Step, At
  <2> HIDE DEF l
  <2>2. QED
    BY <2>1, GotoAlone DEF InLRU, AloneInv
<1>2. CASE Fetch(t)
  <2> DEFINE file == thread[t].file
             l == [thread[t] EXCEPT !.pc = "scan", !.body = Holds[file][bucket[file]]]
  <2>1. Goto(t, l) /\ UNCHANGED <<items, size, torn>> /\ thread[t].pc = "fetch"
    BY <1>2 DEF Fetch, Step, Keep
  <2>2. l.pc = "scan"
    BY DEF SoundInv, Sound, Fields
  <2> HIDE DEF l
  <2>3. thread[t].pc \notin InLRU
    BY <2>1 DEF InLRU
  <2>4. ASSUME ~overlapped, \A u \in Threads \ {t} : thread[u].pc \notin InLRU
        PROVE  Alone(l, items', size')
    BY <2>1, <2>2, <2>3, <2>4, EnteringAlone DEF Alone, Stage, Owed, Counting
  <2>5. QED
    BY <2>1, <2>2, <2>3, <2>4, GotoAlone DEF Goto, InLRU, AloneInv
<1>3. CASE Finish(t)
  <2>1. /\ At("idle").pc = "idle" /\ Goto(t, At("idle"))
        /\ UNCHANGED <<items, size, torn>> /\ thread[t].pc \in {"reply", "error"}
    BY <1>3 DEF Finish, At, Keep
  <2>2. QED
    BY <2>1, GotoAlone DEF Goto, InLRU, AloneInv
<1>4. QED
  BY <1>1, <1>2, <1>3

(* _IdleLRU.get                                                            *)
LEMMA GetAlone ==
  ASSUME SoundInv, AloneInv, NEW t \in Threads, Look(t) \/ Touch(t) \/ Move(t)
  PROVE  AloneInv'
<1> DEFINE key == KeyOf(thread[t])
           place == Place(key)
<1>1. /\ items \in Seq(Bodied) /\ place \in 0 .. Len(items)
      /\ place # 0 => items[place].key = key
      /\ place # 0 <=> key \in Keys(items)
  BY ItemsBodied, PlaceInItems, PlaceOfKey
<1>2. DOMAIN thread[t] = Fields
  BY DEF SoundInv, Sound
<1> HIDE DEF place
<1>3. CASE Look(t)
  <2>1. thread[t].pc \notin InLRU /\ UNCHANGED <<items, size, torn>>
    BY <1>3 DEF Look, Step, Keep, InLRU
  <2>2. CASE place = 0
    <3> DEFINE l == [thread[t] EXCEPT !.pc = "fetch"]
    <3>1. Goto(t, l)
      BY <1>3, <2>2 DEF Look, place
    <3>2. l.pc = "fetch"
      BY <1>2 DEF Fields
    <3> HIDE DEF l
    <3>3. QED
      BY <2>1, <3>1, <3>2, GotoAlone DEF Goto, InLRU, AloneInv
  <2>3. CASE place # 0
    <3> DEFINE l == [thread[t] EXCEPT !.pc = "touch", !.body = items[place].body]
    <3>1. Goto(t, l)
      BY <1>3, <2>3 DEF Look, place
    <3>2. l.pc = "touch" /\ KeyOf(l) = key /\ l.body = items[place].body
      BY <1>2 DEF Fields, KeyOf
    <3> HIDE DEF l, key
    <3>3. ASSUME ~overlapped, \A u \in Threads \ {t} : thread[u].pc \notin InLRU
          PROVE  Alone(l, items', size')
      <4>1. \E i \in DOMAIN items : items[i].key = KeyOf(l) /\ items[i].body = l.body
        BY <1>1, <2>3, <3>2
      <4>2. QED
        BY <1>1, <2>1, <2>3, <3>2, <3>3, <4>1, EnteringAlone
           DEF Alone, Stage, Owed, Counting
    <3>4. QED
      BY <2>1, <3>1, <3>2, <3>3, GotoAlone DEF Goto, InLRU, AloneInv
  <2>4. QED
    BY <2>2, <2>3
<1>4. CASE Touch(t)
  <2> DEFINE item == [key |-> key, body |-> thread[t].body, ts |-> now]
             l == [thread[t] EXCEPT !.pc = "move"]
  <2>1. /\ Goto(t, l) /\ UNCHANGED size /\ thread[t].pc = "touch"
        /\ place # 0 => items' = [items EXCEPT ![place] = item] /\ UNCHANGED torn
    BY <1>4 DEF Touch, Step, place
  <2>2. l.pc = "move" /\ KeyOf(l) = key /\ item.key = key /\ item.body = thread[t].body
    BY <1>2 DEF Fields, KeyOf
  <2>3. item \in Bodied
    BY <2>1, OwnItemSound DEF SoundInv, SoundItems
  <2>4. torn' \subseteq torn \cup {u \in Threads \ {t} : thread[u].pc = "scanned"}
    BY <1>4 DEF Touch, Change
  <2> HIDE DEF item, l, key
  <2>5. ASSUME ~overlapped
        PROVE  Unique(items') /\ Alone(l, items', size') /\ size \in Int
    <3>1. Alone(thread[t], items, size) /\ Unique(items) /\ size \in Int
      BY <2>1, <2>5 DEF AloneInv, InLRU
    <3>2. key \in Keys(items) /\ size = Bytes(items) /\ Capped(items)
      BY <2>1, <3>1 DEF Alone, Stage, Owed, Counting, key
    <3>3. items[place].body = thread[t].body
      <4>1. PICK i \in DOMAIN items : items[i].key = key /\ items[i].body = thread[t].body
        BY <2>1, <3>1 DEF Alone, Stage, Counting, key
      <4>2. place \in DOMAIN items /\ items[place].key = key
        BY <1>1, <3>2
      <4>3. QED
        BY <3>1, <4>1, <4>2 DEF Unique
    <3>4. /\ Unique(items') /\ Len(items') = Len(items) /\ Keys(items') = Keys(items)
          /\ Bytes(items') = Bytes(items)
      <4>1. place \in 1 .. Len(items) /\ items[place].key = key
            /\ items' = [items EXCEPT ![place] = item]
        BY <1>1, <2>1, <3>2
      <4>2. QED
        BY <1>1, <2>2, <2>3, <3>1, <3>3, <4>1, PutUnique
    <3>5. QED
      BY <2>1, <2>2, <3>1, <3>2, <3>4 DEF Alone, Stage, Owed, Counting, Capped
  <2>6. QED
    BY <2>1, <2>2, <2>4, <2>5, GotoAlone DEF Goto, InLRU
<1>5. CASE Move(t)
  <2>1. thread[t].pc = "move" /\ UNCHANGED size
    BY <1>5 DEF Move, Step
  <2>2. ASSUME ~overlapped
        PROVE  /\ Unique(items) /\ key \in Keys(items) /\ size \in Int
               /\ size = Bytes(items) /\ Capped(items)
    BY <2>1, <2>2 DEF AloneInv, InLRU, Alone, Stage, Owed, Counting
  <2>3. CASE place = 0
    <3> DEFINE l == [thread[t] EXCEPT !.pc = "error"]
    <3>1. Goto(t, l) /\ UNCHANGED torn
      BY <1>5, <2>3 DEF Move, Keep, place
    <3>2. overlapped
      BY <1>1, <2>2, <2>3
    <3> HIDE DEF l
    <3>3. QED
      BY <3>1, <3>2 DEF Goto, AloneInv
  <2>4. CASE place # 0
    <3> DEFINE l == [thread[t] EXCEPT !.pc = "reply"]
    <3>1. /\ Goto(t, l) /\ items' = Append(RemoveAt(items, place), items[place])
          /\ torn' = torn \cup {u \in Threads \ {t} : thread[u].pc = "scanned"}
      BY <1>5, <2>4 DEF Move, Change, Without, place
    <3>2. l.pc = "reply"
      BY <1>2 DEF Fields
    <3> HIDE DEF l
    <3>3. ASSUME ~overlapped
          PROVE  /\ Unique(items') /\ Len(items') = Len(items)
                 /\ Bytes(items') = Bytes(items)
      <4>1. /\ RemoveAt(items, place) \in Seq(Bodied) /\ Unique(RemoveAt(items, place))
            /\ Len(RemoveAt(items, place)) = Len(items) - 1
            /\ Keys(RemoveAt(items, place)) = Keys(items) \ {items[place].key}
            /\ Bytes(RemoveAt(items, place)) = Bytes(items) - Length[items[place].body]
        BY <1>1, <2>2, <2>4, <3>3, RemoveUnique
      <4>2. place \in 1 .. Len(items) /\ items[place] \in Bodied
        BY <1>1, <2>4
      <4>3. /\ Unique(items') /\ Len(items') = Len(items) - 1 + 1
            /\ Bytes(items') = (Bytes(items) - Length[items[place].body])
                                 + Length[items[place].body]
        BY <3>1, <4>1, <4>2, AppendUnique
      <4>4. Bytes(items) \in Nat /\ Length[items[place].body] \in Nat
        BY <1>1, <4>2, BytesNat, LengthIsNat
      <4>5. QED
        BY <1>1, <4>3, <4>4
    <3>4. QED
      BY <2>1, <2>2, <3>1, <3>2, <3>3, GotoAlone DEF Goto, InLRU, Capped
  <2>5. QED
    BY <2>3, <2>4
<1>6. QED
  BY <1>3, <1>4, <1>5
(* _evict_idle: what it collects are keys of the list, each once.          *)
LEMMA StaleAreKeys ==
  ASSUME NEW S, items \in Seq(S), Unique(items), NEW P \in SUBSET DOMAIN items,
         NEW places \in SetToSeqs(P)
  PROVE  LET stale == [i \in DOMAIN places |-> items[places[i]].key]
         IN /\ stale \in Seq(Keys(items))
            /\ \A i, j \in DOMAIN stale : stale[i] = stale[j] => i = j
<1>1. Cardinality(P) \in Nat
  <2>1. IsFiniteSet(1 .. Len(items)) /\ P \subseteq 1 .. Len(items)
    BY FS_Interval
  <2>2. QED
    BY <2>1, FS_Subset, FS_CardinalityType
<1>2. /\ places \in [1 .. Cardinality(P) -> P]
      /\ \A i, j \in 1 .. Cardinality(P) : i # j => places[i] # places[j]
  BY DEF SetToSeqs
<1>3. DOMAIN places = 1 .. Cardinality(P)
  BY <1>2
<1> DEFINE stale == [i \in DOMAIN places |-> items[places[i]].key]
<1>4. stale \in Seq(Keys(items))
  <2>1. stale \in [1 .. Cardinality(P) -> Keys(items)]
    BY <1>2, <1>3 DEF Keys
  <2>2. QED
    BY <1>1, <2>1
<1>5. \A i, j \in DOMAIN stale : stale[i] = stale[j] => i = j
  BY <1>2, <1>3 DEF Unique
<1>6. QED
  BY <1>4, <1>5

(* The locals a thread goes on with, field by field.                       *)
LEMMA Locals ==
  ASSUME NEW l, DOMAIN l = Fields, NEW pc, NEW stale
  PROVE  /\ LET m == [l EXCEPT !.pc = pc]
            IN m.pc = pc /\ m.stale = l.stale /\ m.owed = l.owed /\ m.next = l.next
               /\ m.size = l.size /\ KeyOf(m) = KeyOf(l)
         /\ LET m == [l EXCEPT !.pc = pc, !.stale = stale]
            IN m.pc = pc /\ m.stale = stale
BY DEF Fields, KeyOf

(* The first half of _IdleLRU.put: the stale ones go.                      *)
LEMMA EvictAlone ==
  ASSUME SoundInv, AloneInv, NEW t \in Threads, Scan(t) \/ Scanned(t) \/ Evict(t)
  PROVE  AloneInv'
<1> DEFINE L == thread[t]
<1>1. items \in Seq(Bodied) /\ DOMAIN L = Fields /\ Len(items) \in Nat
  BY ItemsBodied DEF SoundInv, Sound
<1>2. L.pc \in {"scan", "scanned", "evict"}
  BY DEF Scan, Scanned, Evict, Step
<1>3. ASSUME ~overlapped
      PROVE  /\ Unique(items) /\ size \in Int /\ Alone(L, items, size)
             /\ size = Bytes(items) /\ Capped(items)
             /\ L.pc = "scanned" => t \notin torn
  BY <1>2, <1>3 DEF AloneInv, InLRU, Alone, Stage, Owed, Counting
<1> HIDE DEF L
<1>4. CASE Scan(t)
  <2> DEFINE P == {i \in DOMAIN items : items[i].ts < now - IdleTicks}
  <2>1. PICK places \in SetToSeqs(P) :
          Goto(t, [L EXCEPT !.pc = "scanned",
                            !.stale = [i \in DOMAIN places |-> items[places[i]].key]])
    BY <1>4 DEF Scan, L
  <2> DEFINE stale == [i \in DOMAIN places |-> items[places[i]].key]
             l == [L EXCEPT !.pc = "scanned", !.stale = stale]
  <2>2. Goto(t, l) /\ UNCHANGED <<items, size>> /\ torn' = torn \ {t} /\ L.pc = "scan"
    BY <1>4, <2>1 DEF Scan, Step, L
  <2>3. ~overlapped => /\ stale \in Seq(Keys(items))
                       /\ \A i, j \in DOMAIN stale : stale[i] = stale[j] => i = j
    BY <1>1, <1>3, StaleAreKeys
  <2> HIDE DEF stale
  <2>4. l.pc = "scanned" /\ l.stale = stale
    BY <1>1, Locals
  <2> HIDE DEF l
  <2>5. ~overlapped => Alone(l, items', size')
    BY <1>3, <2>2, <2>3, <2>4 DEF Alone, Stage, Owed, Counting
  <2>6. QED
    BY <1>3, <2>2, <2>4, <2>5, GotoAlone DEF Goto, InLRU, L
<1>5. CASE Scanned(t)
  <2> DEFINE pc == IF t \in torn THEN "error" ELSE "evict"
             l == [L EXCEPT !.pc = pc]
  <2>1. Goto(t, l) /\ UNCHANGED <<items, size>> /\ torn' = torn \ {t} /\ L.pc = "scanned"
    BY <1>5 DEF Scanned, Step, L
  <2>2. l.pc = pc /\ l.stale = L.stale
    BY <1>1, Locals
  <2>3. pc # "scanned" /\ (~overlapped => pc = "evict")
    BY <1>3, <2>1
  <2> HIDE DEF l, pc
  <2>4. ~overlapped => Alone(l, items', size')
    BY <1>3, <2>1, <2>2, <2>3 DEF Alone, Stage, Owed, Counting
  <2>5. QED
    BY <1>3, <2>1, <2>2, <2>3, <2>4, GotoAlone DEF Goto, InLRU, L
<1>6. CASE Evict(t)
  <2>1. L.pc = "evict" /\ UNCHANGED size
    BY <1>6 DEF Evict, Step, L
  <2>2. CASE L.stale = <<>>
    <3> DEFINE l == [L EXCEPT !.pc = "replace"]
    <3>1. Goto(t, l) /\ UNCHANGED <<items, torn>>
      BY <1>6, <2>2 DEF Evict, Keep, L
    <3>2. l.pc = "replace"
      BY <1>1, Locals
    <3> HIDE DEF l
    <3>3. ~overlapped => Alone(l, items', size')
      BY <1>3, <2>1, <3>1, <3>2 DEF Alone, Stage, Owed, Counting
    <3>4. QED
      BY <1>3, <2>1, <3>1, <3>2, <3>3, GotoAlone DEF Goto, InLRU, L
  <2>3. CASE L.stale # <<>>
    <3> DEFINE key == Head(L.stale)
               place == Place(key)
               bytes == Length[items[place].body]
    <3>1. ASSUME ~overlapped
          PROVE  /\ key \in Keys(items) /\ Tail(L.stale) \in Seq(Keys(items) \ {key})
                 /\ \A i, j \in DOMAIN Tail(L.stale) :
                      Tail(L.stale)[i] = Tail(L.stale)[j] => i = j
      <4>1. L.stale \in Seq(Keys(items))
            /\ \A i, j \in DOMAIN L.stale : L.stale[i] = L.stale[j] => i = j
        BY <1>3, <2>1, <3>1 DEF Alone, Stage, Counting
      <4>2. /\ key = L.stale[1] /\ key \in Keys(items) /\ 1 \in DOMAIN L.stale
            /\ Tail(L.stale) \in Seq(Keys(items))
            /\ \A i \in DOMAIN Tail(L.stale) :
                 /\ i \in Nat /\ i + 1 \in DOMAIN L.stale /\ i + 1 # 1
                 /\ Tail(L.stale)[i] = L.stale[i + 1]
        BY <2>3, <4>1, HeadTailProperties
      <4> HIDE DEF key
      <4>3. \A i \in DOMAIN Tail(L.stale) : Tail(L.stale)[i] \in Keys(items) \ {key}
        BY <4>1, <4>2
      <4>4. Tail(L.stale) \in Seq(Keys(items) \ {key})
        BY <4>2, <4>3, SeqNarrows
      <4>5. QED
        BY <4>1, <4>2, <4>4
    <3>2. /\ place \in 0 .. Len(items)
          /\ place # 0 => items[place].key = key
          /\ place # 0 <=> key \in Keys(items)
      BY <1>1, PlaceInItems, PlaceOfKey
    <3> HIDE DEF key, place, bytes
    <3>3. CASE place = 0
      <4> DEFINE l == [L EXCEPT !.pc = "error"]
      <4>1. Goto(t, l)
        BY <1>6, <2>3, <3>3 DEF Evict, L, key, place
      <4>2. overlapped
        BY <3>1, <3>2, <3>3
      <4> HIDE DEF l
      <4>3. QED
        BY <4>1, <4>2 DEF Goto, AloneInv
    <3>4. CASE place # 0
      <4> DEFINE l == Owe([L EXCEPT !.stale = Tail(L.stale)], -bytes, "evict")
      <4>1. /\ Goto(t, l) /\ items' = RemoveAt(items, place)
            /\ torn' = torn \cup {u \in Threads \ {t} : thread[u].pc = "scanned"}
        BY <1>6, <2>3, <3>4 DEF Evict, Change, Without, L, key, place, bytes
      <4>2. l.pc = "load" /\ l.owed = -bytes /\ l.next = "evict"
            /\ l.stale = Tail(L.stale)
        BY <1>1 DEF Owe, Fields
      <4> HIDE DEF l
      <4>3. ASSUME ~overlapped
            PROVE  Unique(items') /\ Alone(l, items', size')
        <5>1. place \in 1 .. Len(items) /\ items[place].key = key /\ Len(items) # 0
          BY <1>1, <3>2, <3>4
        <5>2. /\ Unique(items') /\ Len(items') = Len(items) - 1
              /\ Keys(items') = Keys(items) \ {key}
              /\ Bytes(items') = Bytes(items) - bytes
          BY <1>1, <1>3, <4>1, <4>3, <5>1, RemoveUnique DEF bytes
        <5>3. /\ bytes \in Nat /\ Bytes(items) \in Nat
              /\ items' \in Seq(Bodied)
              /\ Len(items) = 1 => Bytes(items') = 0
          <6>1. items' \in Seq(Bodied)
            BY <1>1, <1>3, <4>1, <4>3, <5>1, RemoveUnique
          <6>2. Len(items) = 1 => items' = <<>>
            BY <5>2, <6>1
          <6>3. bytes \in Nat
            BY <1>1, <5>1, LengthIsNat DEF bytes
          <6>4. QED
            BY <1>1, <6>1, <6>2, <6>3, BytesNat, BytesEmpty
        <5>4. size' + -bytes = Bytes(items') /\ Capped(items')
          BY <1>3, <2>1, <4>3, <5>2, <5>3, CacheAssumption DEF Capped
        <5>5. -bytes \in Int
          BY <5>3
        <5>6. QED
          BY <3>1, <4>2, <4>3, <5>2, <5>4, <5>5 DEF Alone, Stage, Owed, Counting
      <4>4. QED
        BY <1>3, <2>1, <4>1, <4>2, <4>3, GotoAlone DEF Goto, InLRU, L
    <3>5. QED
      BY <3>3, <3>4
  <2>4. QED
    BY <2>2, <2>3
<1>7. QED
  BY <1>4, <1>5, <1>6
(* The second half: the old body of the key goes, then the oldest go until *)
(* the new one fits.                                                       *)
LEMMA StoreAlone ==
  ASSUME SoundInv, AloneInv, NEW t \in Threads, Replace(t) \/ Shrink(t) \/ Insert(t)
  PROVE  AloneInv'
<1> DEFINE L == thread[t]
           key == KeyOf(L)
           place == Place(key)
           bytes == Length[L.body]
<1>1. items \in Seq(Bodied) /\ DOMAIN L = Fields /\ Len(items) \in Nat
  BY ItemsBodied DEF SoundInv, Sound
<1>2. L.pc \in {"replace", "shrink", "insert"} /\ UNCHANGED size
  BY DEF Replace, Shrink, Insert, Step
<1>3. /\ place \in 0 .. Len(items)
      /\ place # 0 => items[place].key = key
      /\ place # 0 <=> key \in Keys(items)
  BY <1>1, PlaceInItems, PlaceOfKey
<1>4. ASSUME ~overlapped
      PROVE  /\ Unique(items) /\ size \in Int
             /\ size = Bytes(items) /\ Bytes(items) \in Nat
             /\ L.pc \in {"shrink", "insert"} => key \notin Keys(items)
             /\ L.pc = "insert" => Bytes(items) + bytes <= MaxBytes \/ items = <<>>
  <2>1. Unique(items) /\ size \in Int /\ Alone(L, items, size)
    BY <1>2, <1>4 DEF AloneInv, InLRU
  <2>2. Bytes(items) \in Nat
    BY <1>1, BytesNat
  <2>3. Stage(L) = L.pc /\ Owed(L) = 0
    BY <1>2 DEF Stage, Owed, Counting
  <2> HIDE DEF L, key, bytes
  <2>4. /\ size = Bytes(items)
        /\ L.pc \in {"shrink", "insert"} => KeyOf(L) \notin Keys(items)
        /\ L.pc = "insert" => Bytes(items) + Length[L.body] <= MaxBytes \/ items = <<>>
    BY <2>1, <2>2, <2>3 DEF Alone
  <2>5. QED
    BY <2>1, <2>2, <2>4 DEF key, bytes
<1>5. ASSUME NEW amount, NEW next
      PROVE  LET l == Owe(L, amount, next)
             IN /\ l.pc = "load" /\ l.owed = amount /\ l.next = next
                /\ KeyOf(l) = key /\ l.body = L.body
  BY <1>1 DEF Owe, Fields, KeyOf
<1>6. ASSUME NEW pc
      PROVE  LET l == [L EXCEPT !.pc = pc] IN l.pc = pc /\ KeyOf(l) = key /\ l.body = L.body
  BY <1>1 DEF Fields, KeyOf
<1>7. \A n \in 1 .. Len(items) : Length[items[n].body] \in Nat /\ items[n] \in Bodied
  BY <1>1, LengthIsNat
<1>8. /\ L.body \in Contents /\ bytes \in Nat
      /\ L.pc = "insert" => [key |-> key, body |-> L.body, ts |-> now] \in Bodied
  <2>1. Sound(L, bucket) /\ now \in Nat
    BY DEF SoundInv
  <2>2. L.body \in Contents
    BY <1>2, <2>1 DEF Sound
  <2>3. QED
    BY <2>1, <2>2, OwnItemSound, CacheAssumption DEF SoundItems
<1> HIDE DEF L, key, place, bytes
<1>9. CASE Replace(t)
  <2>1. L.pc = "replace"
    BY <1>9 DEF Replace, Step, L
  <2>2. CASE place = 0
    <3> DEFINE l == [L EXCEPT !.pc = "shrink"]
    <3>1. Goto(t, l) /\ UNCHANGED <<items, torn>>
      BY <1>9, <2>2 DEF Replace, Keep, place, key, L
    <3>2. l.pc = "shrink" /\ KeyOf(l) = key
      BY <1>6
    <3> HIDE DEF l
    <3>3. ~overlapped => Alone(l, items', size')
      BY <1>2, <1>3, <1>4, <2>2, <3>1, <3>2 DEF Alone, Stage, Owed, Counting
    <3>4. QED
      BY <1>2, <1>4, <2>1, <3>1, <3>2, <3>3, GotoAlone DEF Goto, InLRU, L
  <2>3. CASE place # 0
    <3> DEFINE old == Length[items[place].body]
               l == Owe(L, -old, "shrink")
    <3>1. /\ Goto(t, l) /\ items' = RemoveAt(items, place)
          /\ torn' = torn \cup {u \in Threads \ {t} : thread[u].pc = "scanned"}
      BY <1>9, <2>3 DEF Replace, Change, Without, place, key, L
    <3>2. l.pc = "load" /\ l.owed = -old /\ l.next = "shrink" /\ KeyOf(l) = key
      BY <1>5
    <3> HIDE DEF l, old
    <3>3. ASSUME ~overlapped
          PROVE  Unique(items') /\ Alone(l, items', size')
      <4>1. place \in 1 .. Len(items) /\ items[place].key = key /\ Len(items) # 0
        BY <1>1, <1>3, <2>3
      <4>2. /\ Unique(items') /\ Len(items') = Len(items) - 1
            /\ Keys(items') = Keys(items) \ {key}
            /\ Bytes(items') = Bytes(items) - old
        BY <1>1, <1>4, <3>1, <3>3, <4>1, RemoveUnique DEF old
      <4>3. old \in Nat
        BY <1>7, <4>1 DEF old
      <4>4. size' + -old = Bytes(items') /\ -old \in Int
        BY <1>2, <1>4, <3>3, <4>2, <4>3
      <4>5. QED
        BY <3>2, <4>2, <4>4 DEF Alone, Stage, Owed, Counting
    <3>4. QED
      BY <1>2, <1>4, <2>1, <3>1, <3>2, <3>3, GotoAlone DEF Goto, InLRU, L
  <2>4. QED
    BY <2>2, <2>3
<1>10. CASE Shrink(t)
  <2>1. L.pc = "shrink"
    BY <1>10 DEF Shrink, Step, L
  <2>2. CASE TooMuch(t)
    <3> DEFINE old == Length[Head(items).body]
               l == Owe(L, -old, "shrink")
    <3>1. /\ Goto(t, l) /\ items' = Tail(items)
          /\ torn' = torn \cup {u \in Threads \ {t} : thread[u].pc = "scanned"}
      BY <1>10, <2>2 DEF Shrink, Change, L
    <3>2. l.pc = "load" /\ l.owed = -old /\ l.next = "shrink" /\ KeyOf(l) = key
      BY <1>5
    <3> HIDE DEF l, old
    <3>3. ASSUME ~overlapped
          PROVE  Unique(items') /\ Alone(l, items', size')
      <4>1. /\ Unique(items') /\ Len(items') = Len(items) - 1
            /\ Keys(items') \subseteq Keys(items)
            /\ Bytes(items') = Bytes(items) - old
        BY <1>1, <1>4, <2>2, <3>1, <3>3, TailUnique DEF TooMuch, old
      <4>2. old \in Nat
        <5>1. 1 \in 1 .. Len(items) /\ Head(items) = items[1]
          BY <1>1, <2>2 DEF TooMuch
        <5>2. QED
          BY <1>7, <5>1 DEF old
      <4>3. size' + -old = Bytes(items') /\ -old \in Int
        BY <1>2, <1>4, <3>3, <4>1, <4>2
      <4>4. key \notin Keys(items')
        BY <1>4, <2>1, <3>3, <4>1
      <4>5. QED
        BY <3>2, <4>1, <4>3, <4>4 DEF Alone, Stage, Owed, Counting
    <3>4. QED
      BY <1>2, <1>4, <2>1, <3>1, <3>2, <3>3, GotoAlone DEF Goto, InLRU, L
  <2>3. CASE ~TooMuch(t)
    <3> DEFINE l == [L EXCEPT !.pc = "insert"]
    <3>1. Goto(t, l) /\ UNCHANGED <<items, torn>>
      BY <1>10, <2>3 DEF Shrink, Keep, L
    <3>2. l.pc = "insert" /\ KeyOf(l) = key /\ Length[l.body] = bytes
      BY <1>6 DEF bytes
    <3> HIDE DEF l
    <3>3. ASSUME ~overlapped PROVE Alone(l, items', size')
      <4>1. Bytes(items) + bytes <= MaxBytes \/ items = <<>>
        BY <1>4, <1>8, <2>3, <3>3, CacheAssumption DEF TooMuch, L, bytes
      <4>2. QED
        BY <1>2, <1>4, <2>1, <3>1, <3>2, <3>3, <4>1 DEF Alone, Stage, Owed, Counting
    <3>4. QED
      BY <1>2, <1>4, <2>1, <3>1, <3>2, <3>3, GotoAlone DEF Goto, InLRU, L
  <2>4. QED
    BY <2>2, <2>3
<1>11. CASE Insert(t)
  <2> DEFINE item == [key |-> key, body |-> L.body, ts |-> now]
             l == Owe(L, bytes, "reply")
  <2>1. /\ L.pc = "insert" /\ Goto(t, l)
        /\ place = 0 => items' = Append(items, item)
        /\ torn' = torn \cup {u \in Threads \ {t} : thread[u].pc = "scanned"}
    BY <1>11 DEF Insert, Step, Change, place, key, L, bytes
  <2>2. /\ l.pc = "load" /\ l.owed = bytes /\ l.next = "reply"
        /\ item.key = key /\ Length[item.body] = bytes
    BY <1>5 DEF bytes
  <2>3. item \in Bodied
    BY <1>8, <2>1
  <2> HIDE DEF item, l
  <2>4. ASSUME ~overlapped
        PROVE  Unique(items') /\ Alone(l, items', size')
    <3>1. place = 0 /\ key \notin Keys(items)
      BY <1>3, <1>4, <2>1, <2>4
    <3>2. /\ Unique(items') /\ Len(items') = Len(items) + 1
          /\ Bytes(items') = Bytes(items) + bytes
      <4>1. items' = Append(items, item) /\ item.key \notin Keys(items) /\ Unique(items)
        BY <1>4, <2>1, <2>2, <2>4, <3>1
      <4>2. QED
        BY <1>1, <2>2, <2>3, <4>1, AppendUnique
    <3>3. Capped(items')
      <4>1. CASE Bytes(items) + bytes <= MaxBytes
        BY <3>2, <4>1 DEF Capped
      <4>2. CASE items = <<>>
        BY <3>2, <4>2 DEF Capped
      <4>3. QED
        BY <1>4, <2>1, <2>4, <4>1, <4>2
    <3>4. QED
      BY <1>2, <1>4, <1>8, <2>2, <2>4, <3>2, <3>3 DEF Alone, Stage, Owed, Counting
  <2>5. QED
    BY <1>2, <1>4, <2>1, <2>2, <2>4, GotoAlone DEF Goto, InLRU, L
<1>12. QED
  BY <1>9, <1>10, <1>11

(* The update of _size, which nobody comes between.                        *)
LEMMA CountAlone ==
  ASSUME SoundInv, AloneInv, NEW t \in Threads, LoadSize(t) \/ StoreSize(t)
  PROVE  AloneInv'
<1> DEFINE L == thread[t]
<1>1. /\ DOMAIN L = Fields /\ L.pc \in Counting /\ UNCHANGED <<items, torn>>
      /\ L.next \in {"evict", "shrink", "reply"}
  BY DEF SoundInv, Sound, LoadSize, StoreSize, Step, Keep, Counting
<1>2. ASSUME ~overlapped
      PROVE  Unique(items) /\ size \in Int /\ Alone(L, items, size) /\ L.owed \in Int
  BY <1>1, <1>2 DEF AloneInv, InLRU, Counting, Alone
<1> HIDE DEF L
<1>3. CASE LoadSize(t)
  <2> DEFINE l == [L EXCEPT !.pc = "store", !.size = size]
  <2>1. Goto(t, l) /\ UNCHANGED size /\ L.pc = "load"
    BY <1>3 DEF LoadSize, Step, L
  <2>2. /\ l.pc = "store" /\ l.size = size /\ l.owed = L.owed /\ l.next = L.next
        /\ l.stale = L.stale /\ KeyOf(l) = KeyOf(L)
        /\ l.body = L.body
    BY <1>1 DEF Fields, KeyOf
  <2> HIDE DEF l
  <2>3. ~overlapped => Alone(l, items', size')
    BY <1>1, <1>2, <2>1, <2>2 DEF Alone, Stage, Owed, Counting
  <2>4. QED
    BY <1>1, <1>2, <2>1, <2>2, <2>3, GotoAlone DEF Goto, InLRU, L
<1>4. CASE StoreSize(t)
  <2> DEFINE l == [L EXCEPT !.pc = L.next]
  <2>1. Goto(t, l) /\ size' = L.size + L.owed /\ L.pc = "store"
    BY <1>4 DEF StoreSize, Step, L
  <2>2. /\ l.pc = L.next /\ l.stale = L.stale
        /\ KeyOf(l) = KeyOf(L) /\ l.body = L.body
    BY <1>1 DEF Fields, KeyOf
  <2> HIDE DEF l
  <2>3. ASSUME ~overlapped
        PROVE  /\ Alone(l, items', size') /\ size' \in Int
               /\ l.pc = "reply" => size' = Bytes(items') /\ Capped(items')
    <3>1. size' = size + L.owed /\ size' \in Int /\ size' = Bytes(items')
      BY <1>1, <1>2, <2>1, <2>3 DEF Alone, Owed, Counting
    <3>2. QED
      BY <1>1, <1>2, <2>1, <2>2, <2>3, <3>1 DEF Alone, Stage, Owed, Counting
  <2>4. QED
    BY <1>1, <1>2, <2>1, <2>2, <2>3, GotoAlone DEF Goto, InLRU, Counting, L
<1>5. QED
  BY <1>3, <1>4

LEMMA NextAlone == SoundInv /\ AloneInv /\ [Next]_vars => AloneInv'
BY WorldAlone, RequestAlone, GetAlone, EvictAlone, StoreAlone, CountAlone DEF Next

LEMMA AloneIsSound == SoundInv /\ AloneInv => SoundAlone
<1> SUFFICES ASSUME SoundInv, AloneInv, ~overlapped
             PROVE  /\ \A t \in Threads : thread[t].pc # "error"
                    /\ Idle => /\ size = Bytes(items)
                               /\ size <= MaxBytes \/ Len(items) = 1
                               /\ Unique(items)
  BY DEF SoundAlone, Unique
<1>1. QED
  BY DEF AloneInv, Capped

(* As long as no two requests were in the LRU together, no request fails,  *)
(* its byte count is the bytes of its bodies, whatever their lengths, and  *)
(* it keeps to its cap unless one body alone is larger, for any number     *)
(* of threads and any history of rewrites and of idle time.                *)
(* (cache.py, _IdleLRU)                                                    *)
THEOREM AloneTheBooksAreExact == Spec => []SoundAlone
<1>1. Init => SoundInv /\ AloneInv
  BY InitSound, InitAlone
<1>2. SoundInv /\ AloneInv /\ [Next]_vars => (SoundInv /\ AloneInv)'
  BY NextSound, NextAlone
<1>3. QED
  BY <1>1, <1>2, AloneIsSound, PTL DEF Spec
=============================================================================
