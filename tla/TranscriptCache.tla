-------------------------- MODULE TranscriptCache --------------------------
(***************************************************************************)
(* The transcript endpoint of backend/api_sessions.py and the idle LRU of  *)
(* backend/cache.py under it.  Request threads share the LRU without a     *)
(* lock: a step here is what runs between two points at which the          *)
(* interpreter may switch threads.  The bucket and the files table change  *)
(* under them.                                                             *)
(***************************************************************************)
EXTENDS Integers, Sequences, FiniteSets, SequencesExt

CONSTANTS
    Threads, Files,
    Contents,      \* what an object may hold; its etag is a hash of that
    Length,        \* of each content, in bytes
    Holds,         \* the contents of each file's object, version by version
    Nothing,       \* no body
    MaxBytes,      \* max_bytes of the LRU
    IdleTicks,     \* idle_seconds
    MaxVersions, MaxRequests, MaxTime   \* bounds

(* Two objects may hold the same, and then have the same etag.             *)
ASSUME CacheAssumption ==
    /\ Length \in [Contents -> Nat] /\ Nothing \notin Contents
    /\ Holds \in [Files -> [1 .. MaxVersions -> Contents]]
    /\ MaxVersions \in Nat \ {0}
    /\ {MaxBytes, IdleTicks, MaxRequests, MaxTime} \subseteq Nat

VARIABLES
    bucket,    \* R2: version of each object, counting its rewrites
    indexed,   \* files.r2_etag: the version last ingested
    items,     \* OrderedDict, oldest first: [key, body, ts]
    size,      \* _size
    thread,    \* each request's place and locals
    torn,      \* threads whose iteration over items another one changed
    now, served,
    overlapped \* have two threads ever been inside the LRU at once

vars == <<bucket, indexed, items, size, thread, torn, now, served, overlapped>>

At(pc) == [pc |-> pc, file |-> Nothing, etag |-> Nothing, body |-> Nothing,
           stale |-> <<>>, owed |-> 0, size |-> 0, next |-> "idle"]

Init ==
    /\ bucket = [f \in Files |-> 1] /\ indexed = [f \in Files |-> 1]
    /\ items = <<>> /\ size = 0
    /\ thread = [t \in Threads |-> At("idle")]
    /\ torn = {} /\ now = 0 /\ served = 0
    /\ overlapped = FALSE

-----------------------------------------------------------------------------
(* What happens around the requests.                                       *)

Upload(f) ==
    /\ bucket[f] < MaxVersions
    /\ bucket' = [bucket EXCEPT ![f] = @ + 1]
    /\ UNCHANGED <<indexed, items, size, thread, torn, now, served, overlapped>>

Ingest(f) ==
    /\ indexed' = [indexed EXCEPT ![f] = bucket[f]]
    /\ UNCHANGED <<bucket, items, size, thread, torn, now, served, overlapped>>

Tick ==
    /\ now < MaxTime
    /\ now' = now + 1
    /\ UNCHANGED <<bucket, indexed, items, size, thread, torn, served, overlapped>>

-----------------------------------------------------------------------------
InLRU == {"touch", "move", "scan", "scanned", "evict", "replace", "shrink",
          "insert", "load", "store"}

(* Thread t goes on with these locals.                                     *)
Goto(t, locals) ==
    /\ thread' = [thread EXCEPT ![t] = locals]
    /\ overlapped' = (overlapped \/ /\ locals.pc \in InLRU
                                    /\ \E u \in Threads \ {t} : thread[u].pc \in InLRU)
    /\ UNCHANGED <<bucket, indexed, now, served>>

(* items changes, which ends an iteration over it in an error.             *)
Change(t, new) ==
    /\ items' = new
    /\ torn' = torn \cup {u \in Threads \ {t} : thread[u].pc = "scanned"}

Keep == UNCHANGED <<items, torn>>

(* _size is read, and written a step later: two threads lose an update.    *)
Owe(locals, amount, next) ==
    [locals EXCEPT !.pc = "load", !.owed = amount, !.next = next]

(* Seeded fault: the LRU is keyed by the file.                             *)
KeyByFile(locals) == locals.file

(* The etag alone, whosever it is.                                         *)
KeyOf(locals) == locals.etag

Place(key) ==
    LET places == {i \in DOMAIN items : items[i].key = key}
    IN IF places = {} THEN 0 ELSE CHOOSE i \in places : TRUE
Without(key) == RemoveAt(items, Place(key))

Step(t, pc) == thread[t].pc = pc

(* get_transcript: the row of the session's main file.                     *)
ReadRow(t, f) ==
    /\ Step(t, "idle") /\ served < MaxRequests
    /\ thread' = [thread EXCEPT ![t] = [At("get") EXCEPT !.file = f, !.etag = Holds[f][indexed[f]]]]
    /\ served' = served + 1
    /\ UNCHANGED <<bucket, indexed, items, size, torn, now, overlapped>>

(* _IdleLRU.get: look, touch, move to the end; no lock.                    *)
Look(t) ==
    /\ Step(t, "get")
    /\ LET i == Place(KeyOf(thread[t]))
       IN Goto(t, IF i = 0 THEN [thread[t] EXCEPT !.pc = "fetch"]
                  ELSE [thread[t] EXCEPT !.pc = "touch", !.body = items[i].body])
    /\ Keep /\ UNCHANGED size

(* The item is put back if it was evicted meanwhile, uncounted.            *)
Touch(t) ==
    /\ Step(t, "touch")
    /\ LET key == KeyOf(thread[t])
           item == [key |-> key, body |-> thread[t].body, ts |-> now]
       IN IF Place(key) = 0 THEN Change(t, Append(items, item))
          ELSE items' = [items EXCEPT ![Place(key)] = item] /\ UNCHANGED torn
    /\ Goto(t, [thread[t] EXCEPT !.pc = "move"])
    /\ UNCHANGED size

(* move_to_end: KeyError if it was evicted meanwhile.                      *)
Move(t) ==
    /\ Step(t, "move")
    /\ LET key == KeyOf(thread[t])
       IN IF Place(key) = 0
          THEN Goto(t, [thread[t] EXCEPT !.pc = "error"]) /\ Keep
          ELSE /\ Goto(t, [thread[t] EXCEPT !.pc = "reply"])
               /\ Change(t, Append(Without(key), items[Place(key)]))
    /\ UNCHANGED size

(* r2.get_object: the object as it is now, whatever the row said.          *)
Fetch(t) ==
    /\ Step(t, "fetch")
    /\ LET file == thread[t].file
       IN Goto(t, [thread[t] EXCEPT !.pc = "scan", !.body = Holds[file][bucket[file]]])
    /\ Keep /\ UNCHANGED size

(* _evict_idle iterates over items, in Python, item by item, and collects  *)
(* the keys of the stale ones in their order.                              *)
Scan(t) ==
    /\ Step(t, "scan")
    /\ \E places \in SetToSeqs({i \in DOMAIN items : items[i].ts < now - IdleTicks}) :
        /\ \A i, j \in DOMAIN places : i < j => places[i] < places[j]
        /\ Goto(t, [thread[t] EXCEPT
                      !.pc = "scanned",
                      !.stale = [i \in DOMAIN places |-> items[places[i]].key]])
    /\ torn' = torn \ {t}
    /\ UNCHANGED <<items, size>>

Scanned(t) ==
    /\ Step(t, "scanned")
    /\ Goto(t, [thread[t] EXCEPT !.pc = IF t \in torn THEN "error" ELSE "evict"])
    /\ torn' = torn \ {t}
    /\ UNCHANGED <<items, size>>

(* The stale ones are popped one by one: KeyError if one is gone.          *)
Evict(t) ==
    /\ Step(t, "evict")
    /\ IF thread[t].stale = <<>>
       THEN Goto(t, [thread[t] EXCEPT !.pc = "replace"]) /\ Keep
       ELSE LET key == Head(thread[t].stale)
            IN IF Place(key) = 0
               THEN Goto(t, [thread[t] EXCEPT !.pc = "error"]) /\ Keep
               ELSE /\ Change(t, Without(key))
                    /\ Goto(t, Owe([thread[t] EXCEPT !.stale = Tail(@)],
                                   -Length[items[Place(key)].body], "evict"))
    /\ UNCHANGED size

(* An item of the same key goes first.                                     *)
Replace(t) ==
    /\ Step(t, "replace")
    /\ LET key == KeyOf(thread[t])
       IN IF Place(key) = 0
          THEN Goto(t, [thread[t] EXCEPT !.pc = "shrink"]) /\ Keep
          ELSE /\ Change(t, Without(key))
               /\ Goto(t, Owe(thread[t], -Length[items[Place(key)].body], "shrink"))
    /\ UNCHANGED size

TooMuch(t) == size + Length[thread[t].body] > MaxBytes /\ items # <<>>

(* Seeded fault: only one item goes.                                       *)
ShrinkOnce(t) ==
    /\ Step(t, "shrink")
    /\ IF TooMuch(t)
       THEN /\ Change(t, Tail(items))
            /\ Goto(t, Owe(thread[t], -Length[Head(items).body], "insert"))
       ELSE Goto(t, [thread[t] EXCEPT !.pc = "insert"]) /\ Keep
    /\ UNCHANGED size

(* The oldest go until the body fits, or nothing is left.                  *)
Shrink(t) ==
    /\ Step(t, "shrink")
    /\ IF TooMuch(t)
       THEN /\ Change(t, Tail(items))
            /\ Goto(t, Owe(thread[t], -Length[Head(items).body], "shrink"))
       ELSE Goto(t, [thread[t] EXCEPT !.pc = "insert"]) /\ Keep
    /\ UNCHANGED size

Insert(t) ==
    /\ Step(t, "insert")
    /\ LET key == KeyOf(thread[t])
           item == [key |-> key, body |-> thread[t].body, ts |-> now]
       IN Change(t, IF Place(key) = 0 THEN Append(items, item)
                    ELSE [items EXCEPT ![Place(key)] = item])
    /\ Goto(t, Owe(thread[t], Length[thread[t].body], "reply"))
    /\ UNCHANGED size

LoadSize(t) ==
    /\ Step(t, "load")
    /\ Goto(t, [thread[t] EXCEPT !.pc = "store", !.size = size])
    /\ Keep /\ UNCHANGED size

StoreSize(t) ==
    /\ Step(t, "store")
    /\ size' = thread[t].size + thread[t].owed
    /\ Goto(t, [thread[t] EXCEPT !.pc = thread[t].next])
    /\ Keep

(* The response goes out with the row's etag, or as an error.              *)
Finish(t) ==
    /\ thread[t].pc \in {"reply", "error"}
    /\ Goto(t, At("idle"))
    /\ Keep /\ UNCHANGED size

Next ==
    \/ \E f \in Files : Upload(f) \/ Ingest(f)
    \/ Tick
    \/ \E t \in Threads :
        \/ \E f \in Files : ReadRow(t, f)
        \/ Look(t) \/ Touch(t) \/ Move(t) \/ Fetch(t)
        \/ Scan(t) \/ Scanned(t) \/ Evict(t) \/ Replace(t) \/ Shrink(t)
        \/ Insert(t) \/ LoadSize(t) \/ StoreSize(t) \/ Finish(t)

Spec == Init /\ [][Next]_vars

-----------------------------------------------------------------------------
(* Some object had the one content, and then or later the other.           *)
SameOrLater(etag, body) ==
    \E g \in Files : \E w \in 1 .. bucket[g] : \E v \in 1 .. w :
        Holds[g][v] = etag /\ Holds[g][w] = body

(* What a request answers under an etag is never older than the etag:      *)
(* some object was listed with it, and held the body then or later.        *)
(* However requests interleave in the LRU, whoever put the item they find, *)
(* and though the object is read after the row.  It need not be the object *)
(* of the session asked for: an etag that two files had is one key, and    *)
(* the one that was rewritten since may have filled it.                    *)
(* (api_sessions.py, get_transcript; cache.py, _IdleLRU)                   *)
NeverOlder ==
    \A t \in Threads :
        thread[t].body # Nothing => SameOrLater(thread[t].etag, thread[t].body)

(* What a list of items holds, added up item by item.                      *)
Bytes(list) ==
    LET upto[n \in 0 .. Len(list)] ==
            IF n = 0 THEN 0 ELSE upto[n - 1] + Length[list[n].body]
    IN upto[Len(list)]

Idle == \A t \in Threads : thread[t].pc \notin InLRU

(* As long as no two requests were ever in the LRU together, it fails      *)
(* none, has one item of a key, counts exactly the bytes it holds, and     *)
(* keeps within its cap unless one body alone is larger.                   *)
(* (cache.py, _IdleLRU)                                                    *)
SoundAlone ==
    ~overlapped =>
        /\ \A t \in Threads : thread[t].pc # "error"
        /\ Idle =>
            /\ size = Bytes(items)
            /\ size <= MaxBytes \/ Len(items) = 1
            /\ \A i, j \in DOMAIN items : items[i].key = items[j].key => i = j
=============================================================================
