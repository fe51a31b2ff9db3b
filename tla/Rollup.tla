------------------------------- MODULE Rollup -------------------------------
(***************************************************************************)
(* The rebuild of one rollup table (rebuild_rollup, rebuild_tool_rollup,   *)
(* rebuild_latency_rollup of backend/ingest.py) by runs that overlap, as   *)
(* Postgres executes it under READ COMMITTED: a DELETE of the whole table, *)
(* one or more INSERT ... SELECT, and the commit.                          *)
(*                                                                         *)
(* A statement sees what was committed when it started.  DELETE goes row   *)
(* by row: it waits for the transaction that has deleted the row it wants  *)
(* and skips the row if that commits.  INSERT goes row by row: it waits    *)
(* for a transaction that has inserted, or deleted, a row with the same    *)
(* primary key, and raises when such a row is there in the end.            *)
(*                                                                         *)
(* The records are a set of items; a row of the table is the set of the    *)
(* items it sums, under one group and one primary key.                     *)
(***************************************************************************)
EXTENDS Naturals, FiniteSets

CONSTANTS
    Runs,       \* the ingest runs that can be in flight at the same time
    Items,      \* records and tool calls
    Permanent,  \* the items no ingest removes: the history is never empty
    Statements, \* INSERTs of a rebuild: 1, and 8 for latency_rollup
    Groups,
    GroupOf,    \* GroupOf[s][i]: the GROUP BY value of i in statement s
    Keys,
    KeyOf,      \* KeyOf[g]: the primary key of the row of g
    Xids,       \* bound: transaction ids, used again when nothing has them
    MaxChanges, \* bound: ingests that change the records
    MaxCrashes  \* bound: rebuilds cut short by the process or the network

Inserts == 1..Statements

ASSUME GroupAssumption ==
    /\ Statements \in Nat \ {0}
    /\ Permanent \subseteq Items /\ Permanent # {}
    /\ GroupOf \in [Inserts -> [Items -> Groups]]
    /\ KeyOf \in [Groups -> Keys]
ASSUME BoundAssumption ==
    Xids \subseteq Nat /\ MaxChanges \in Nat /\ MaxCrashes \in Nat

VARIABLES
    base,     \* the items the records hold
    visible,  \* the committed rows: what a reader's SELECT sees
    pc, xid,  \* of the rebuild of each run
    doomed,   \* the rows its DELETE saw and has not come to
    deleted,  \* the rows it has deleted
    stmt,     \* the INSERT it is in
    fresh,    \* the rows that INSERT has still to insert
    inserted, \* the rows it has inserted
    built,    \* history: the rows of the last rebuild that committed
    lost,     \* history: some rebuild has not reached its commit
    changes, crashes

tableVars == <<visible, built>>
txVars == <<xid, doomed, deleted, stmt, fresh, inserted>>
vars == <<base, tableVars, pc, txVars, lost, changes, crashes>>

Row == [xid: Xids, stmt: Inserts, group: Groups, items: SUBSET Items]

PhaseOK(r) ==
    /\ pc[r] \in {"delete", "insert"} <=> xid[r] # 0
    /\ pc[r] = "insert" <=> stmt[r] # 0
    /\ pc[r] # "delete" => doomed[r] = {}
    /\ pc[r] # "insert" => fresh[r] = {} /\ inserted[r] = {}
    /\ pc[r] # "idle" => Permanent \subseteq base

StateOK ==
    /\ base \subseteq Items /\ visible \subseteq Row /\ built \subseteq Row
    /\ pc \in [Runs -> {"idle", "booked", "delete", "insert"}]
    /\ xid \in [Runs -> Xids \cup {0}] /\ stmt \in [Runs -> 0..Statements]
    /\ doomed \in [Runs -> SUBSET Row] /\ deleted \in [Runs -> SUBSET Row]
    /\ fresh \in [Runs -> SUBSET Row] /\ inserted \in [Runs -> SUBSET Row]
    /\ lost \in BOOLEAN /\ changes \in Nat /\ crashes \in Nat

TypeOK == StateOK /\ \A r \in Runs : PhaseOK(r)

(* The rows INSERT statement s of transaction x selects from b.            *)
RowsOf(x, s, b) ==
    {[xid |-> x, stmt |-> s, group |-> g,
      items |-> {i \in b : GroupOf[s][i] = g}] : g \in {GroupOf[s][i] : i \in b}}

SameKey(v, w) == v.stmt = w.stmt /\ KeyOf[v.group] = KeyOf[w.group]

(* An empty database.                                                      *)
Init ==
    /\ base = {} /\ visible = {} /\ built = {}
    /\ pc = [r \in Runs |-> "idle"]
    /\ xid = [r \in Runs |-> 0] /\ stmt = [r \in Runs |-> 0]
    /\ doomed = [r \in Runs |-> {}] /\ deleted = [r \in Runs |-> {}]
    /\ fresh = [r \in Runs |-> {}] /\ inserted = [r \in Runs |-> {}]
    /\ lost = FALSE /\ changes = 0 /\ crashes = 0

Goto(r, place) == pc' = [pc EXCEPT ![r] = place]

-----------------------------------------------------------------------------
(* Seeded fault: what was done to the table stays when the rebuild ends.   *)
TxEndsUndone(r) ==
    /\ Goto(r, "idle")
    /\ xid' = [xid EXCEPT ![r] = 0] /\ stmt' = [stmt EXCEPT ![r] = 0]
    /\ doomed' = [doomed EXCEPT ![r] = {}]
    /\ fresh' = [fresh EXCEPT ![r] = {}]
    /\ UNCHANGED <<deleted, inserted>>

(* The transaction of r ends: its locks are released.                      *)
TxEnds(r) ==
    /\ Goto(r, "idle")
    /\ xid' = [xid EXCEPT ![r] = 0] /\ stmt' = [stmt EXCEPT ![r] = 0]
    /\ doomed' = [doomed EXCEPT ![r] = {}]
    /\ deleted' = [deleted EXCEPT ![r] = {}]
    /\ fresh' = [fresh EXCEPT ![r] = {}]
    /\ inserted' = [inserted EXCEPT ![r] = {}]

(* An exception rolls the rebuild back and ends the run.                   *)
Raises(r) ==
    /\ TxEnds(r)
    /\ lost' = TRUE
    /\ UNCHANGED <<base, tableVars, changes>>

(* A run has ingested the bucket and is booked: the records are now b.     *)
Ingest(r, b) ==
    /\ pc[r] = "idle" /\ Permanent \subseteq b
    /\ \/ b = base /\ UNCHANGED changes
       \/ b # base /\ changes < MaxChanges /\ changes' = changes + 1
    /\ base' = b
    /\ Goto(r, "booked")
    /\ UNCHANGED <<tableVars, txVars, lost, crashes>>

UsedXids ==
    {w.xid : w \in visible \cup UNION {doomed[r] \cup deleted[r] : r \in Runs}}
        \cup {xid[r] : r \in Runs}

(* Seeded fault: the rows of the last rebuild are not deleted.             *)
BeginKeeping(r) ==
    /\ pc[r] = "booked"
    /\ \E x \in Xids \ (UsedXids \cup {0}) :
         /\ \A y \in Xids : y < x => y \in UsedXids \cup {0}
         /\ xid' = [xid EXCEPT ![r] = x]
    /\ Goto(r, "delete")
    /\ UNCHANGED <<base, tableVars, doomed, deleted, stmt, fresh, inserted,
                   lost, changes, crashes>>

(* The DELETE starts, in a transaction of its own.                         *)
Begin(r) ==
    /\ pc[r] = "booked"
    /\ \E x \in Xids \ (UsedXids \cup {0}) :
         /\ \A y \in Xids : y < x => y \in UsedXids \cup {0}
         /\ xid' = [xid EXCEPT ![r] = x]
    /\ doomed' = [doomed EXCEPT ![r] = visible]
    /\ Goto(r, "delete")
    /\ UNCHANGED <<base, tableVars, deleted, stmt, fresh, inserted, lost,
                   changes, crashes>>

DeletedByOther(r, w) == \E q \in Runs \ {r} : w \in deleted[q]

DeleteRow(r, w) ==
    /\ pc[r] = "delete" /\ w \in doomed[r]
    /\ ~DeletedByOther(r, w)
    /\ doomed' = [doomed EXCEPT ![r] = @ \ {w}]
    /\ deleted' = [deleted EXCEPT ![r] = IF w \in visible THEN @ \cup {w} ELSE @]
    /\ UNCHANGED <<base, tableVars, pc, xid, stmt, fresh, inserted, lost,
                   changes, crashes>>

(* The next INSERT starts, on what is committed now.                       *)
NextInsert(r) ==
    /\ \/ pc[r] = "delete" /\ doomed[r] = {}
       \/ pc[r] = "insert" /\ fresh[r] = {} /\ stmt[r] < Statements
    /\ stmt' = [stmt EXCEPT ![r] = @ + 1]
    /\ fresh' = [fresh EXCEPT ![r] = RowsOf(xid[r], stmt[r] + 1, base)]
    /\ Goto(r, "insert")
    /\ UNCHANGED <<base, tableVars, xid, doomed, deleted, inserted, lost,
                   changes, crashes>>

(* A transaction under way decides whether the key of w is free.           *)
KeyPending(r, w) ==
    \E q \in Runs \ {r} :
        \E v \in inserted[q] \cup (visible \cap deleted[q]) : SameKey(v, w)

KeyTaken(r, w) ==
    \E v \in (visible \ deleted[r]) \cup inserted[r] : SameKey(v, w)

(* Seeded fault: ON CONFLICT DO NOTHING.                                   *)
InsertOrSkip(r, w) ==
    /\ pc[r] = "insert" /\ w \in fresh[r]
    /\ ~KeyPending(r, w)
    /\ fresh' = [fresh EXCEPT ![r] = @ \ {w}]
    /\ inserted' =
         [inserted EXCEPT ![r] = IF KeyTaken(r, w) THEN @ ELSE @ \cup {w}]
    /\ UNCHANGED <<base, tableVars, pc, xid, doomed, deleted, stmt, lost,
                   changes, crashes>>

InsertRow(r, w) ==
    /\ pc[r] = "insert" /\ w \in fresh[r]
    /\ ~KeyPending(r, w) /\ ~KeyTaken(r, w)
    /\ fresh' = [fresh EXCEPT ![r] = @ \ {w}]
    /\ inserted' = [inserted EXCEPT ![r] = @ \cup {w}]
    /\ UNCHANGED <<base, tableVars, pc, xid, doomed, deleted, stmt, lost,
                   changes, crashes>>

(* Seeded fault: the exception is caught and the run ends as if all went   *)
(* well.                                                                   *)
CollidesQuietly(r, w) ==
    /\ pc[r] = "insert" /\ w \in fresh[r]
    /\ ~KeyPending(r, w) /\ KeyTaken(r, w)
    /\ TxEnds(r)
    /\ UNCHANGED <<base, tableVars, lost, changes, crashes>>

(* UniqueViolation.                                                        *)
Collides(r, w) ==
    /\ pc[r] = "insert" /\ w \in fresh[r]
    /\ ~KeyPending(r, w) /\ KeyTaken(r, w)
    /\ Raises(r)
    /\ UNCHANGED crashes

Commit(r) ==
    /\ pc[r] = "insert" /\ fresh[r] = {} /\ stmt[r] = Statements
    /\ visible' = (visible \ deleted[r]) \cup inserted[r]
    /\ built' = inserted[r]
    /\ TxEnds(r)
    /\ UNCHANGED <<base, lost, changes, crashes>>

(* The runs r has to wait for at some row, in one order of its rows.       *)
WaitsFor(r) ==
    {q \in Runs \ {r} :
       \/ doomed[r] \cap deleted[q] # {}
       \/ \E w \in fresh[r] :
            \E v \in inserted[q] \cup (visible \cap deleted[q]) : SameKey(v, w)}

(* Postgres ends a transaction of a cycle of waiting ones.                 *)
Deadlocked(r) ==
    /\ \E S \in SUBSET Runs :
         r \in S /\ \A q \in S : WaitsFor(q) \cap S # {}
    /\ Raises(r)
    /\ UNCHANGED crashes

(* The process dies, or the connection does.                               *)
Crash(r) ==
    /\ pc[r] # "idle"
    /\ crashes < MaxCrashes /\ crashes' = crashes + 1
    /\ Raises(r)

-----------------------------------------------------------------------------
Step(r) ==
    \/ Begin(r) \/ NextInsert(r) \/ Commit(r) \/ Deadlocked(r)
    \/ \E w \in doomed[r] : DeleteRow(r, w)
    \/ \E w \in fresh[r] : InsertRow(r, w) \/ Collides(r, w)

Next ==
    \E r \in Runs :
        \/ \E b \in SUBSET Items : Ingest(r, b)
        \/ Step(r) \/ Crash(r)

Spec == Init /\ [][Next]_vars

(* Postgres and the runs go on, and the scheduler starts new runs.         *)
Fairness ==
    /\ \A r \in Runs : WF_vars(Step(r))
    /\ WF_vars(\E r \in Runs, b \in SUBSET Items : Ingest(r, b))
FairSpec == Spec /\ Fairness

-----------------------------------------------------------------------------
(* PROPERTIES                                                              *)

Content(w) == [stmt |-> w.stmt, group |-> w.group, items |-> w.items]
Contents(S) == {Content(w) : w \in S}

(* What n INSERTs give for the records b.                                  *)
Wanted(n, b) == Contents(UNION {RowsOf(0, s, b) : s \in 1..n})

Exact == Contents(visible) = Wanted(Statements, base)

(* No session has, in one hour, files in two projects.                     *)
Separable ==
    \A s \in Inserts : \A i, j \in base :
        KeyOf[GroupOf[s][i]] = KeyOf[GroupOf[s][j]] => GroupOf[s][i] = GroupOf[s][j]

(* Readers always see the whole of one rebuild and nothing else, although  *)
(* neither DELETE nor INSERT of a rebuild sees the rows of an overlapping  *)
(* one: the primary key, and a history that is never empty, make the two   *)
(* collide rather than mix.                                                *)
OneRebuild == visible = built

(* When every run is over and no rebuild was cut short, the table holds    *)
(* what the records hold: overlapping runs go wrong loudly or not at all.  *)
LoudOrExact ==
    ~lost /\ (\A r \in Runs : pc[r] = "idle") => Exact

Overlapping == \E q, r \in Runs : q # r /\ pc[q] # "idle" /\ pc[r] # "idle"

(* Collisions, deadlocks and crashes are repaired: once runs no longer     *)
(* overlap, the table comes to hold what the records hold, and to stay so, *)
(* unless the primary key cannot tell two of its groups apart.             *)
Heals == <>[]~Overlapping => <>[](Separable => Exact)

-----------------------------------------------------------------------------
(* The inductive form of OneRebuild.  The Anchor is an item that every     *)
(* rebuild has a row for, in its first INSERT.  Two transactions cannot    *)
(* both hold that row, so one that commits has seen, and deleted, the      *)
(* whole of the rebuild before it.                                         *)
Anchor == CHOOSE i \in Permanent : TRUE
IsAnchor(w) == w.stmt = 1 /\ KeyOf[w.group] = KeyOf[GroupOf[1][Anchor]]
Anchored(S) == \E w \in S : IsAnchor(w)

AnchorsPresent ==
    /\ visible # {} => Anchored(visible)
    /\ \A r \in Runs : pc[r] = "insert" => Anchored(inserted[r] \cup fresh[r])

AnchorsExclude ==
    \A r \in Runs : Anchored(inserted[r]) =>
        /\ \A v \in visible : IsAnchor(v) => v \in deleted[r]
        /\ \A q \in Runs \ {r} : ~Anchored(inserted[q])

(* A DELETE saw all of the present rows, or none of them.                  *)
AllOrNone ==
    \A r \in Runs :
        \/ visible \subseteq deleted[r] \cup doomed[r]
        \/ visible \cap (deleted[r] \cup doomed[r]) = {}

XidsApart ==
    \A r \in Runs : xid[r] # 0 =>
        /\ \A w \in inserted[r] \cup fresh[r] : w.xid = xid[r]
        /\ \A q \in Runs : \A w \in visible \cup doomed[q] \cup deleted[q] :
                w.xid # xid[r]
        /\ \A q \in Runs \ {r} : xid[q] # xid[r]

RebuildInv ==
    OneRebuild /\ AnchorsPresent /\ AnchorsExclude /\ AllOrNone /\ XidsApart

(* The inductive form of LoudOrExact.  A rebuild is current while it has   *)
(* still to read the records, or what it has read is what they now give.   *)
(* One that is not is caught by the key of the anchor: the rebuild of the  *)
(* run that changed the records is under way or has committed, and it has  *)
(* not deleted that one's rows.                                            *)
Current(r) ==
    \/ pc[r] \in {"booked", "delete"}
    \/ /\ pc[r] = "insert"
       /\ Contents(inserted[r] \cup fresh[r]) = Wanted(stmt[r], base)

OneCurrent == \E r \in Runs : Current(r)

LoudInv ==
    lost \/ /\ OneCurrent \/ Exact
            /\ \A r \in Runs : pc[r] = "insert" /\ ~Current(r) =>
                 \/ OneCurrent
                 \/ visible # {} /\ visible \cap deleted[r] = {}
=============================================================================
