---------------------------- MODULE RollupProofs ----------------------------
(***************************************************************************)
(* Readers of a rollup see the whole of one rebuild and nothing else,      *)
(* whatever the number of overlapping runs, records, groups and INSERTs.   *)
(***************************************************************************)
EXTENDS Rollup, TLAPS

LEMMA RowsOfTyped ==
  ASSUME NEW x \in Xids, NEW s \in Inserts, NEW b \in SUBSET Items
  PROVE  RowsOf(x, s, b) \subseteq Row
<1> DEFINE Summed(g) == {i \in b : GroupOf[s][i] = g}
<1>1. \A i \in b : GroupOf[s][i] \in Groups
  BY GroupAssumption
<1>2. \A g \in Groups : Summed(g) \in SUBSET Items
  OBVIOUS
<1>3. \A w \in RowsOf(x, s, b) : \E g \in Groups :
        w = [xid |-> x, stmt |-> s, group |-> g, items |-> Summed(g)]
  BY <1>1 DEF RowsOf
<1> HIDE DEF Summed
<1>4. ASSUME NEW w \in RowsOf(x, s, b) PROVE w \in Row
  <2>1. PICK g \in Groups :
          w = [xid |-> x, stmt |-> s, group |-> g, items |-> Summed(g)]
    BY <1>3
  <2>2. Summed(g) \in SUBSET Items
    BY <1>2
  <2>3. QED
    BY <2>1, <2>2 DEF Row
<1>5. QED
  BY <1>4

LEMMA InitTypeOK == Init => TypeOK
<1> SUFFICES ASSUME Init PROVE TypeOK
  OBVIOUS
<1>1. 0 \in 0..Statements
  BY GroupAssumption
<1>2. StateOK
  BY <1>1 DEF Init, StateOK
<1>3. ASSUME NEW r \in Runs PROVE PhaseOK(r)
  BY DEF Init, PhaseOK
<1>4. QED
  BY <1>2, <1>3 DEF TypeOK

LEMMA NextInsertTypeOK ==
  ASSUME TypeOK, NEW r \in Runs, NextInsert(r)
  PROVE  TypeOK'
<1> USE DEF TypeOK, StateOK, PhaseOK
<1>1. stmt[r] \in 0..Statements /\ stmt[r] + 1 \in Inserts
  BY GroupAssumption DEF NextInsert, Inserts
<1>2. xid[r] \in Xids
  BY DEF NextInsert
<1>3. RowsOf(xid[r], stmt[r] + 1, base) \subseteq Row
  BY <1>1, <1>2, RowsOfTyped
<1>4. stmt' \in [Runs -> 0..Statements] /\ stmt'[r] # 0
  BY <1>1, GroupAssumption DEF NextInsert, Inserts
<1>5. StateOK'
  BY <1>3, <1>4 DEF NextInsert, Goto, tableVars
<1>6. ASSUME NEW q \in Runs PROVE PhaseOK(q)'
  BY <1>4 DEF NextInsert, Goto
<1>7. QED
  BY <1>5, <1>6

LEMMA TxEndsTypeOK ==
  ASSUME TypeOK, NEW r \in Runs, TxEnds(r),
         base' = base, visible' \subseteq Row, built' \subseteq Row,
         lost' \in BOOLEAN, changes' \in Nat, crashes' \in Nat
  PROVE  TypeOK'
BY GroupAssumption DEF TypeOK, StateOK, PhaseOK, TxEnds, Goto

LEMMA NextTypeOK == TypeOK /\ [Next]_vars => TypeOK'
<1> SUFFICES ASSUME TypeOK, [Next]_vars PROVE TypeOK'
  OBVIOUS
<1>1. ASSUME NEW r \in Runs, NEW b \in SUBSET Items, Ingest(r, b) PROVE TypeOK'
  BY <1>1 DEF TypeOK, StateOK, PhaseOK, Ingest, Goto, tableVars, txVars
<1>2. ASSUME NEW r \in Runs, Begin(r) PROVE TypeOK'
  BY <1>2 DEF TypeOK, StateOK, PhaseOK, Begin, Goto, tableVars
<1>3. ASSUME NEW r \in Runs, NEW w \in doomed[r], DeleteRow(r, w) PROVE TypeOK'
  BY <1>3 DEF TypeOK, StateOK, PhaseOK, DeleteRow, tableVars
<1>4. ASSUME NEW r \in Runs, NEW w \in fresh[r], InsertRow(r, w) PROVE TypeOK'
  BY <1>4 DEF TypeOK, StateOK, PhaseOK, InsertRow, tableVars
<1>5. ASSUME NEW r \in Runs, Raises(r), crashes' \in Nat PROVE TypeOK'
  BY <1>5, TxEndsTypeOK DEF Raises, tableVars, TypeOK, StateOK
<1>6. ASSUME NEW r \in Runs, Commit(r) PROVE TypeOK'
  BY <1>6, TxEndsTypeOK DEF Commit, TypeOK, StateOK
<1>7. CASE UNCHANGED vars
  BY <1>7 DEF TypeOK, StateOK, PhaseOK, vars, tableVars, txVars
<1>8. ASSUME NEW r \in Runs,
             Deadlocked(r) \/ Crash(r) \/ \E w \in fresh[r] : Collides(r, w)
      PROVE  TypeOK'
  BY <1>8, <1>5 DEF Deadlocked, Crash, Collides, TypeOK, StateOK
<1>9. QED
  BY <1>1, <1>2, <1>3, <1>4, <1>6, <1>7, <1>8, NextInsertTypeOK DEF Next, Step

(* Every state of every behaviour is typed.                                *)
THEOREM TypeCorrect == Spec => []TypeOK
BY InitTypeOK, NextTypeOK, PTL DEF Spec

-----------------------------------------------------------------------------
(* The Anchor is a record that is always there, so the first INSERT of any *)
(* rebuild has a row for it.                                               *)
LEMMA FirstInsertAnchored ==
  ASSUME NEW x, NEW b, Permanent \subseteq b
  PROVE  Anchored(RowsOf(x, 1, b))
<1>1. \E i \in Permanent : TRUE
  BY GroupAssumption
<1>2. Anchor \in Permanent
  BY <1>1, Zenon DEF Anchor
<1> DEFINE g == GroupOf[1][Anchor]
           w == [xid |-> x, stmt |-> 1, group |-> g,
                 items |-> {i \in b : GroupOf[1][i] = g}]
<1>3. w \in RowsOf(x, 1, b)
  BY <1>2 DEF RowsOf
<1>4. w.stmt = 1 /\ w.group = g
  OBVIOUS
<1> HIDE DEF w
<1>5. QED
  BY <1>3, <1>4 DEF Anchored, IsAnchor

LEMMA RowsOfXid ==
  ASSUME NEW x, NEW s, NEW b, NEW w \in RowsOf(x, s, b)
  PROVE  w.xid = x
BY DEF RowsOf

LEMMA AnchorsCollide ==
  ASSUME NEW v, NEW w, IsAnchor(v), IsAnchor(w)
  PROVE  SameKey(v, w)
BY DEF IsAnchor, SameKey

LEMMA InitInv == Init => RebuildInv
BY DEF Init, RebuildInv, OneRebuild, AnchorsPresent, AnchorsExclude,
       AllOrNone, XidsApart, Anchored

(* The rebuild of r commits: it has deleted all there was.                 *)
LEMMA CommitReplaces ==
  ASSUME TypeOK, RebuildInv, NEW r \in Runs, Commit(r)
  PROVE  visible' = inserted[r] /\ Anchored(inserted[r])
<1>1. Anchored(inserted[r])
  BY DEF RebuildInv, AnchorsPresent, Commit
<1>2. visible \subseteq deleted[r]
  <2>1. CASE visible = {}
    BY <2>1
  <2>2. CASE visible # {}
    <3>1. PICK v \in visible : IsAnchor(v)
      BY <2>2 DEF RebuildInv, AnchorsPresent, Anchored
    <3>2. v \in deleted[r]
      BY <1>1, <3>1 DEF RebuildInv, AnchorsExclude
    <3>3. doomed[r] = {}
      BY DEF TypeOK, PhaseOK, Commit
    <3>4. QED
      BY <3>2, <3>3 DEF RebuildInv, AllOrNone
  <2>3. QED
    BY <2>1, <2>2
<1>3. QED
  BY <1>1, <1>2 DEF Commit

LEMMA CommitInv ==
  ASSUME TypeOK, RebuildInv, NEW r \in Runs, Commit(r)
  PROVE  RebuildInv'
<1>1. visible' = inserted[r] /\ built' = inserted[r] /\ Anchored(inserted[r])
  BY CommitReplaces DEF Commit
<1>2. pc[r] = "insert" /\ xid[r] # 0
  BY DEF Commit, TypeOK, PhaseOK
<1>3. /\ pc'[r] = "idle" /\ xid'[r] = 0
      /\ doomed'[r] = {} /\ deleted'[r] = {} /\ fresh'[r] = {} /\ inserted'[r] = {}
  BY DEF Commit, TxEnds, Goto, TypeOK, StateOK
<1>4. ASSUME NEW q \in Runs \ {r}
      PROVE  /\ pc'[q] = pc[q] /\ xid'[q] = xid[q] /\ doomed'[q] = doomed[q]
             /\ deleted'[q] = deleted[q] /\ fresh'[q] = fresh[q]
             /\ inserted'[q] = inserted[q]
  BY DEF Commit, TxEnds, Goto, TypeOK, StateOK
<1>5. OneRebuild'
  BY <1>1 DEF OneRebuild
<1>6. AnchorsPresent'
  BY <1>1, <1>3, <1>4 DEF RebuildInv, AnchorsPresent, Anchored
<1>7. AnchorsExclude'
  BY <1>1, <1>3, <1>4 DEF RebuildInv, AnchorsExclude, Anchored
<1>8. AllOrNone'
  <2> SUFFICES ASSUME NEW q \in Runs
               PROVE  visible' \cap (deleted'[q] \cup doomed'[q]) = {}
    BY DEF AllOrNone
  <2>1. CASE q = r
    BY <2>1, <1>3
  <2>2. CASE q # r
    BY <2>2, <1>1, <1>2, <1>4 DEF RebuildInv, XidsApart
  <2>3. QED
    BY <2>1, <2>2
<1>9. XidsApart'
  <2> SUFFICES ASSUME NEW p \in Runs, xid'[p] # 0
               PROVE  /\ \A w \in inserted'[p] \cup fresh'[p] : w.xid = xid'[p]
                      /\ \A q \in Runs :
                           \A w \in visible' \cup doomed'[q] \cup deleted'[q] :
                             w.xid # xid'[p]
                      /\ \A q \in Runs \ {p} : xid'[q] # xid'[p]
    BY DEF XidsApart
  <2>1. p # r /\ xid'[p] = xid[p] /\ xid[p] # 0 /\ xid[p] # xid[r]
    BY <1>2, <1>3, <1>4 DEF RebuildInv, XidsApart
  <2>2. \A w \in visible' : w.xid = xid[r]
    BY <1>1, <1>2 DEF RebuildInv, XidsApart
  <2>3. \A w \in inserted'[p] \cup fresh'[p] : w.xid = xid'[p]
    BY <2>1, <1>4 DEF RebuildInv, XidsApart
  <2>4. ASSUME NEW q \in Runs, NEW w \in visible' \cup doomed'[q] \cup deleted'[q]
        PROVE  w.xid # xid'[p]
    BY <2>1, <2>2, <1>3, <1>4 DEF RebuildInv, XidsApart
  <2>5. \A q \in Runs \ {p} : xid'[q] # xid'[p]
    BY <2>1, <1>3, <1>4 DEF RebuildInv, XidsApart
  <2>6. QED
    BY <2>3, <2>4, <2>5
<1>10. QED
  BY <1>5, <1>6, <1>7, <1>8, <1>9 DEF RebuildInv

LEMMA RaisesInv ==
  ASSUME TypeOK, RebuildInv, NEW r \in Runs, Raises(r)
  PROVE  RebuildInv'
<1>1. /\ pc'[r] = "idle" /\ xid'[r] = 0
      /\ doomed'[r] = {} /\ deleted'[r] = {} /\ fresh'[r] = {} /\ inserted'[r] = {}
  BY DEF Raises, TxEnds, Goto, TypeOK, StateOK
<1>2. ASSUME NEW q \in Runs \ {r}
      PROVE  /\ pc'[q] = pc[q] /\ xid'[q] = xid[q] /\ doomed'[q] = doomed[q]
             /\ deleted'[q] = deleted[q] /\ fresh'[q] = fresh[q]
             /\ inserted'[q] = inserted[q]
  BY DEF Raises, TxEnds, Goto, TypeOK, StateOK
<1>3. visible' = visible /\ built' = built
  BY DEF Raises, tableVars
<1>4. OneRebuild' /\ AnchorsPresent' /\ AllOrNone'
  BY <1>1, <1>2, <1>3
  DEF RebuildInv, OneRebuild, AnchorsPresent, Anchored, AllOrNone
<1>5. AnchorsExclude'
  BY <1>1, <1>2, <1>3 DEF RebuildInv, AnchorsExclude, Anchored
<1>6. XidsApart'
  BY <1>1, <1>2, <1>3 DEF RebuildInv, XidsApart
<1>7. QED
  BY <1>4, <1>5, <1>6 DEF RebuildInv

LEMMA BeginInv ==
  ASSUME TypeOK, RebuildInv, NEW r \in Runs, Begin(r)
  PROVE  RebuildInv'
<1>1. /\ visible' = visible /\ built' = built /\ deleted' = deleted
      /\ fresh' = fresh /\ inserted' = inserted
      /\ pc' = [pc EXCEPT ![r] = "delete"]
      /\ doomed' = [doomed EXCEPT ![r] = visible]
  BY DEF Begin, Goto, tableVars
<1>2. PICK x \in Xids \ (UsedXids \cup {0}) : xid' = [xid EXCEPT ![r] = x]
  BY DEF Begin
<1>3. fresh[r] = {} /\ inserted[r] = {} /\ doomed[r] = {}
  BY DEF Begin, TypeOK, PhaseOK
<1>4. OneRebuild' /\ AnchorsPresent' /\ AnchorsExclude'
  BY <1>1
  DEF RebuildInv, OneRebuild, AnchorsPresent, AnchorsExclude, TypeOK, StateOK
<1>5. AllOrNone'
  BY <1>1 DEF RebuildInv, AllOrNone, TypeOK, StateOK
<1>6. \A w \in visible : w.xid # x
  BY <1>2 DEF UsedXids
<1>7. \A q \in Runs : xid[q] # x /\ \A w \in doomed[q] \cup deleted[q] : w.xid # x
  BY <1>2 DEF UsedXids
<1>8. XidsApart'
  BY <1>1, <1>2, <1>3, <1>6, <1>7 DEF RebuildInv, XidsApart, TypeOK, StateOK
<1>9. QED
  BY <1>4, <1>5, <1>8 DEF RebuildInv

LEMMA DeleteRowInv ==
  ASSUME TypeOK, RebuildInv, NEW r \in Runs, NEW w \in doomed[r], DeleteRow(r, w)
  PROVE  RebuildInv'
<1>1. /\ visible' = visible /\ built' = built /\ pc' = pc /\ xid' = xid
      /\ fresh' = fresh /\ inserted' = inserted
      /\ doomed' = [doomed EXCEPT ![r] = @ \ {w}]
      /\ deleted' = [deleted EXCEPT ![r] = IF w \in visible THEN @ \cup {w} ELSE @]
  BY DEF DeleteRow, tableVars
<1>2. \A q \in Runs : /\ deleted[q] \subseteq deleted'[q]
                      /\ deleted'[q] \cup doomed'[q] \subseteq deleted[q] \cup doomed[q]
                      /\ visible \cap (deleted[q] \cup doomed[q])
                           \subseteq deleted'[q] \cup doomed'[q]
  BY <1>1 DEF TypeOK, StateOK
<1>3. OneRebuild' /\ AnchorsPresent'
  BY <1>1 DEF RebuildInv, OneRebuild, AnchorsPresent
<1>4. AnchorsExclude'
  BY <1>1, <1>2 DEF RebuildInv, AnchorsExclude
<1>5. AllOrNone'
  BY <1>1, <1>2 DEF RebuildInv, AllOrNone
<1>6. XidsApart'
  BY <1>1, <1>2 DEF RebuildInv, XidsApart
<1>7. QED
  BY <1>3, <1>4, <1>5, <1>6 DEF RebuildInv

LEMMA NextInsertInv ==
  ASSUME TypeOK, RebuildInv, NEW r \in Runs, NextInsert(r)
  PROVE  RebuildInv'
<1> DEFINE new == RowsOf(xid[r], stmt[r] + 1, base)
<1>1. /\ visible' = visible /\ built' = built /\ xid' = xid
      /\ doomed' = doomed /\ deleted' = deleted /\ inserted' = inserted
      /\ pc' = [pc EXCEPT ![r] = "insert"]
      /\ fresh' = [fresh EXCEPT ![r] = new]
  BY DEF NextInsert, Goto, tableVars
<1>2. \A w \in new : w.xid = xid[r]
  BY RowsOfXid
<1>3. Anchored(inserted[r] \cup new)
  <2>1. CASE pc[r] = "delete"
    <3>1. stmt[r] = 0 /\ Permanent \subseteq base
      BY <2>1 DEF TypeOK, PhaseOK
    <3>2. Anchored(new)
      BY <3>1, FirstInsertAnchored
    <3>3. QED
      BY <3>2 DEF Anchored
  <2>2. CASE pc[r] = "insert" /\ fresh[r] = {}
    BY <2>2 DEF RebuildInv, AnchorsPresent, Anchored
  <2>3. QED
    BY <2>1, <2>2 DEF NextInsert
<1> HIDE DEF new
<1>4. OneRebuild' /\ AllOrNone' /\ AnchorsExclude'
  BY <1>1 DEF RebuildInv, OneRebuild, AllOrNone, AnchorsExclude
<1>5. AnchorsPresent'
  BY <1>1, <1>3 DEF RebuildInv, AnchorsPresent, TypeOK, StateOK
<1>6. XidsApart'
  BY <1>1, <1>2 DEF RebuildInv, XidsApart, TypeOK, StateOK
<1>7. QED
  BY <1>4, <1>5, <1>6 DEF RebuildInv

LEMMA InsertRowInv ==
  ASSUME TypeOK, RebuildInv, NEW r \in Runs, NEW w \in fresh[r], InsertRow(r, w)
  PROVE  RebuildInv'
<1>1. /\ visible' = visible /\ built' = built /\ xid' = xid /\ pc' = pc
      /\ doomed' = doomed /\ deleted' = deleted
      /\ fresh' = [fresh EXCEPT ![r] = @ \ {w}]
      /\ inserted' = [inserted EXCEPT ![r] = @ \cup {w}]
  BY DEF InsertRow, tableVars
<1>2. OneRebuild' /\ AllOrNone'
  BY <1>1 DEF RebuildInv, OneRebuild, AllOrNone
<1>3. AnchorsPresent'
  <2>1. \A q \in Runs : inserted'[q] \cup fresh'[q] = inserted[q] \cup fresh[q]
    BY <1>1 DEF TypeOK, StateOK
  <2>2. QED
    BY <2>1, <1>1 DEF RebuildInv, AnchorsPresent
<1>4. AnchorsExclude'
  <2>1. CASE ~IsAnchor(w)
    <3>1. \A q \in Runs : Anchored(inserted'[q]) <=> Anchored(inserted[q])
      BY <2>1, <1>1 DEF Anchored, TypeOK, StateOK
    <3>2. QED
      BY <3>1, <1>1 DEF RebuildInv, AnchorsExclude
  <2>2. CASE IsAnchor(w)
    <3>1. \A v \in visible : IsAnchor(v) => v \in deleted[r]
      BY <2>2, AnchorsCollide DEF InsertRow, KeyTaken
    <3>2. \A q \in Runs \ {r} : ~Anchored(inserted[q])
      BY <2>2, AnchorsCollide DEF InsertRow, KeyPending, Anchored
    <3>3. \A q \in Runs \ {r} : inserted'[q] = inserted[q]
      BY <1>1 DEF TypeOK, StateOK
    <3>4. QED
      BY <3>1, <3>2, <3>3, <1>1 DEF AnchorsExclude
  <2>3. QED
    BY <2>1, <2>2
<1>5. XidsApart'
  BY <1>1 DEF RebuildInv, XidsApart, TypeOK, StateOK
<1>6. QED
  BY <1>2, <1>3, <1>4, <1>5 DEF RebuildInv

LEMMA NextInv == TypeOK /\ RebuildInv /\ [Next]_vars => RebuildInv'
<1> SUFFICES ASSUME TypeOK, RebuildInv, [Next]_vars PROVE RebuildInv'
  OBVIOUS
<1>1. ASSUME NEW r \in Runs, NEW b \in SUBSET Items, Ingest(r, b)
      PROVE  RebuildInv'
  BY <1>1
  DEF Ingest, Goto, tableVars, txVars, RebuildInv, OneRebuild,
      AnchorsPresent, AnchorsExclude, AllOrNone, XidsApart, TypeOK, StateOK
<1>2. CASE UNCHANGED vars
  BY <1>2
  DEF vars, tableVars, txVars, RebuildInv, OneRebuild, AnchorsPresent,
      AnchorsExclude, AllOrNone, XidsApart
<1>3. ASSUME NEW r \in Runs,
             Deadlocked(r) \/ Crash(r) \/ \E w \in fresh[r] : Collides(r, w)
      PROVE  RebuildInv'
  BY <1>3, RaisesInv DEF Deadlocked, Crash, Collides
<1>4. QED
  BY <1>1, <1>2, <1>3, BeginInv, DeleteRowInv, NextInsertInv, InsertRowInv,
     CommitInv DEF Next, Step

(* Readers always see the whole of one rebuild and nothing else.           *)
THEOREM ReadersSeeOneRebuild == Spec => []OneRebuild
<1>1. RebuildInv => OneRebuild
  BY DEF RebuildInv
<1>2. QED
  BY <1>1, InitTypeOK, NextTypeOK, InitInv, NextInv, PTL DEF Spec

-----------------------------------------------------------------------------
(* Two transactions' rows for the same records have the same content.      *)
LEMMA RowsOfContent ==
  ASSUME NEW x, NEW y, NEW s, NEW b
  PROVE  Contents(RowsOf(x, s, b)) = Contents(RowsOf(y, s, b))
<1> DEFINE F(g) == {i \in b : GroupOf[s][i] = g}
           R(z, g) == [xid |-> z, stmt |-> s, group |-> g, items |-> F(g)]
           G == {GroupOf[s][i] : i \in b}
<1>1. \A z, g : Content(R(z, g)) = [stmt |-> s, group |-> g, items |-> F(g)]
  BY DEF Content
<1>2. \A z : RowsOf(z, s, b) = {R(z, g) : g \in G}
  BY DEF RowsOf
<1> HIDE DEF F, R, G
<1>3. \A z : Contents(RowsOf(z, s, b)) = {Content(R(z, g)) : g \in G}
  BY <1>2 DEF Contents
<1>4. \A z : Contents(RowsOf(z, s, b))
               = {[stmt |-> s, group |-> g, items |-> F(g)] : g \in G}
  BY <1>1, <1>3
<1>5. QED
  BY <1>4

LEMMA ContentsUnion ==
  ASSUME NEW S, NEW T
  PROVE  Contents(S \cup T) = Contents(S) \cup Contents(T)
BY DEF Contents

LEMMA WantedSucc ==
  ASSUME NEW n \in Nat, NEW b
  PROVE  Wanted(n + 1, b) = Wanted(n, b) \cup Contents(RowsOf(0, n + 1, b))
<1> DEFINE R(s) == RowsOf(0, s, b)
<1>1. \A s : s \in 1..(n + 1) <=> s \in 1..n \/ s = n + 1
  OBVIOUS
<1> HIDE DEF R
<1>2. UNION {R(s) : s \in 1..(n + 1)} = (UNION {R(s) : s \in 1..n}) \cup R(n + 1)
  BY <1>1
<1>3. QED
  BY <1>2, ContentsUnion DEF Wanted, R

LEMMA WantedNone == \A b : Wanted(0, b) = {}
<1>1. 1..0 = {}
  OBVIOUS
<1>2. QED
  BY <1>1 DEF Wanted, Contents

LEMMA InitLoud == Init => LoudInv
<1> SUFFICES ASSUME Init PROVE LoudInv
  OBVIOUS
<1>1. \A s : RowsOf(0, s, base) = {}
  BY DEF Init, RowsOf
<1>2. Exact
  BY <1>1 DEF Init, Exact, Wanted
<1>3. QED
  BY <1>2 DEF Init, LoudInv

(* A current rebuild stays so while it goes on, and the records stay.      *)
LEMMA NextInsertCurrent ==
  ASSUME TypeOK, NEW r \in Runs, NextInsert(r), Current(r)
  PROVE  Current(r)'
<1> DEFINE rows == RowsOf(xid[r], stmt[r] + 1, base)
<1>1. /\ pc'[r] = "insert" /\ stmt'[r] = stmt[r] + 1
      /\ fresh'[r] = rows /\ inserted'[r] = inserted[r] /\ base' = base
  BY DEF NextInsert, Goto, TypeOK, StateOK
<1>2. stmt[r] \in Nat
  BY GroupAssumption DEF TypeOK, StateOK
<1>3. Contents(inserted[r]) = Wanted(stmt[r], base)
  <2>1. CASE pc[r] = "delete"
    BY <2>1, WantedNone DEF TypeOK, PhaseOK, Contents
  <2>2. CASE pc[r] = "insert" /\ fresh[r] = {}
    BY <2>2 DEF Current
  <2>3. QED
    BY <2>1, <2>2 DEF NextInsert
<1>4. Contents(rows) = Contents(RowsOf(0, stmt[r] + 1, base))
  BY RowsOfContent
<1> HIDE DEF rows
<1>5. Contents(inserted[r] \cup rows) = Wanted(stmt[r] + 1, base)
  <2>1. Contents(inserted[r] \cup rows) = Contents(inserted[r]) \cup Contents(rows)
    BY ContentsUnion
  <2>2. Wanted(stmt[r] + 1, base)
          = Wanted(stmt[r], base) \cup Contents(RowsOf(0, stmt[r] + 1, base))
    BY <1>2, WantedSucc
  <2>3. QED
    BY <1>3, <1>4, <2>1, <2>2
<1>6. QED
  BY <1>1, <1>5 DEF Current

(* A step of r that leaves the table and the records alone keeps LoudInv,  *)
(* when r is current afterwards if it was before, and stays under way.     *)
LEMMA QuietLoud ==
  ASSUME TypeOK, LoudInv, NEW r \in Runs, Current(r) => Current(r)',
         pc'[r] = "insert" => (pc[r] = "insert" \/ Current(r)),
         UNCHANGED <<base, visible, lost>>,
         \A q \in Runs \ {r} :
            /\ pc'[q] = pc[q] /\ inserted'[q] = inserted[q]
            /\ fresh'[q] = fresh[q] /\ stmt'[q] = stmt[q] /\ deleted'[q] = deleted[q],
         pc'[r] = "insert" => deleted'[r] = deleted[r]
  PROVE  LoudInv'
<1>1. \A q \in Runs \ {r} : Current(q)' <=> Current(q)
  BY DEF Current
<1>2. OneCurrent => OneCurrent'
  BY <1>1 DEF OneCurrent
<1>3. Exact' <=> Exact
  BY DEF Exact
<1>4. \A q \in Runs : pc'[q] = "insert" /\ ~Current(q)' =>
        pc[q] = "insert" /\ ~Current(q) /\ deleted'[q] = deleted[q]
  BY <1>1
<1>5. QED
  BY <1>2, <1>3, <1>4 DEF LoudInv

(* The rebuild that commits is current, or one that is current goes on.    *)
LEMMA CommitLoud ==
  ASSUME TypeOK, RebuildInv, LoudInv, NEW r \in Runs, Commit(r)
  PROVE  LoudInv'
<1> SUFFICES ASSUME ~lost PROVE LoudInv'
  BY DEF Commit, LoudInv
<1>1. visible' = inserted[r] /\ Anchored(inserted[r])
  BY CommitReplaces
<1>2. pc[r] = "insert" /\ xid[r] # 0 /\ fresh[r] = {} /\ stmt[r] = Statements
  BY DEF Commit, TypeOK, PhaseOK
<1>3. pc'[r] = "idle" /\ base' = base /\ lost' = lost
  BY DEF Commit, TxEnds, Goto, TypeOK, StateOK
<1>4. ASSUME NEW q \in Runs \ {r}
      PROVE  /\ pc'[q] = pc[q] /\ inserted'[q] = inserted[q]
             /\ fresh'[q] = fresh[q] /\ stmt'[q] = stmt[q]
             /\ deleted'[q] = deleted[q]
  BY DEF Commit, TxEnds, Goto, TypeOK, StateOK
<1>5. \A q \in Runs \ {r} : Current(q)' <=> Current(q)
  BY <1>3, <1>4 DEF Current
<1>6. CASE Current(r)
  <2>1. Contents(inserted[r]) = Wanted(Statements, base)
    BY <1>2, <1>6 DEF Current
  <2>2. Exact'
    BY <1>1, <1>3, <2>1 DEF Exact
  <2>3. visible' # {}
    BY <1>1 DEF Anchored
  <2>4. \A q \in Runs \ {r} : visible' \cap deleted[q] = {}
    BY <1>1, <1>2 DEF RebuildInv, XidsApart
  <2>5. QED
    BY <1>3, <1>4, <2>2, <2>3, <2>4 DEF LoudInv
<1>7. CASE ~Current(r)
  <2>1. OneCurrent
    <3> SUFFICES ASSUME visible # {}, visible \cap deleted[r] = {} PROVE FALSE
      BY <1>2, <1>7 DEF LoudInv
    <3>1. PICK v \in visible : IsAnchor(v)
      BY DEF RebuildInv, AnchorsPresent, Anchored
    <3>2. v \in deleted[r]
      BY <1>1, <3>1 DEF RebuildInv, AnchorsExclude
    <3>3. QED
      BY <3>1, <3>2
  <2>2. OneCurrent'
    BY <1>5, <1>7, <2>1 DEF OneCurrent
  <2>3. QED
    BY <2>2 DEF LoudInv
<1>8. QED
  BY <1>6, <1>7

LEMMA NextLoud == TypeOK /\ RebuildInv /\ LoudInv /\ [Next]_vars => LoudInv'
<1> SUFFICES ASSUME TypeOK, RebuildInv, LoudInv, [Next]_vars PROVE LoudInv'
  OBVIOUS
<1>1. ASSUME NEW r \in Runs, NEW b \in SUBSET Items, Ingest(r, b)
      PROVE  LoudInv'
  <2>1. Current(r)'
    BY <1>1 DEF Ingest, Goto, TypeOK, StateOK, Current
  <2>2. QED
    BY <2>1 DEF LoudInv, OneCurrent
<1>2. ASSUME NEW r \in Runs, Begin(r)
      PROVE  LoudInv'
  <2>1. /\ UNCHANGED <<base, visible, lost, deleted, inserted, fresh, stmt>>
        /\ pc' = [pc EXCEPT ![r] = "delete"]
    BY <1>2 DEF Begin, Goto, tableVars
  <2>2. pc'[r] = "delete" /\ \A q \in Runs \ {r} : pc'[q] = pc[q]
    BY <2>1 DEF TypeOK, StateOK
  <2>3. Current(r)'
    BY <2>2 DEF Current
  <2>4. QED
    BY <2>1, <2>2, <2>3, QuietLoud
<1>3. ASSUME NEW r \in Runs, NEW w \in doomed[r], DeleteRow(r, w)
      PROVE  LoudInv'
  <2>1. /\ pc[r] = "delete"
        /\ UNCHANGED <<base, visible, lost, pc, inserted, fresh, stmt>>
        /\ \A q \in Runs \ {r} : deleted'[q] = deleted[q]
    BY <1>3 DEF DeleteRow, tableVars, TypeOK, StateOK
  <2>2. Current(r)'
    BY <2>1 DEF Current
  <2>3. QED
    BY <2>1, <2>2, QuietLoud
<1>4. ASSUME NEW r \in Runs, NextInsert(r)
      PROVE  LoudInv'
  <2>1. /\ UNCHANGED <<base, visible, lost, deleted, inserted>>
        /\ \A q \in Runs \ {r} :
              pc'[q] = pc[q] /\ fresh'[q] = fresh[q] /\ stmt'[q] = stmt[q]
    BY <1>4 DEF NextInsert, Goto, tableVars, TypeOK, StateOK
  <2>2. pc[r] = "insert" \/ Current(r)
    BY <1>4 DEF NextInsert, Current
  <2>3. Current(r) => Current(r)'
    BY <1>4, NextInsertCurrent
  <2>4. QED
    BY <2>1, <2>2, <2>3, QuietLoud
<1>5. ASSUME NEW r \in Runs, NEW w \in fresh[r], InsertRow(r, w)
      PROVE  LoudInv'
  <2>1. /\ pc[r] = "insert"
        /\ UNCHANGED <<base, visible, lost, pc, deleted, stmt>>
        /\ \A q \in Runs \ {r} : inserted'[q] = inserted[q] /\ fresh'[q] = fresh[q]
        /\ inserted'[r] \cup fresh'[r] = inserted[r] \cup fresh[r]
    BY <1>5 DEF InsertRow, tableVars, TypeOK, StateOK
  <2>2. Current(r) => Current(r)'
    BY <2>1 DEF Current
  <2>3. QED
    BY <2>1, <2>2, QuietLoud
<1>6. ASSUME NEW r \in Runs,
             Deadlocked(r) \/ Crash(r) \/ \E w \in fresh[r] : Collides(r, w)
      PROVE  LoudInv'
  BY <1>6 DEF Deadlocked, Crash, Collides, Raises, LoudInv
<1>7. CASE UNCHANGED vars
  BY <1>7 DEF vars, tableVars, txVars, LoudInv, OneCurrent, Current, Exact
<1>8. QED
  BY <1>1, <1>2, <1>3, <1>4, <1>5, <1>6, <1>7, CommitLoud DEF Next, Step

(* When no rebuild was cut short and every run is over, the table holds    *)
(* what the records hold: overlapping rebuilds go wrong loudly or not at   *)
(* all, whatever the number of runs, groups and INSERTs.                   *)
(* (backend/ingest.py, rebuild_rollup, rebuild_tool_rollup,                *)
(* rebuild_latency_rollup)                                                 *)
THEOREM OverlapIsLoudOrExact == Spec => []LoudOrExact
<1>1. LoudInv => LoudOrExact
  BY DEF LoudInv, LoudOrExact, OneCurrent, Current
<1>2. QED
  BY <1>1, InitTypeOK, NextTypeOK, InitInv, NextInv, InitLoud, NextLoud, PTL DEF Spec
=============================================================================
